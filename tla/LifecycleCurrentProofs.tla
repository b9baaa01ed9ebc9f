----------------------- MODULE LifecycleCurrentProofs -----------------------
(***************************************************************************)
(* That what the watches show, once nothing is under way, is current:      *)
(* QuietIsCurrent and AttributesSettle, for any number of reloads,         *)
(* watches, indexes and refreshes in flight.                               *)
(*                                                                         *)
(* While no refresh holds the lock of the newest object, a watch that has  *)
(* been polled either shows what is open, or has a query or an answer on   *)
(* its way that will; answers older than the index that is open have all   *)
(* arrived by then, because they are ahead of the reopen in the queue.     *)
(***************************************************************************)
EXTENDS LifecycleProofs

Opening(i) == \E j \in DOMAIN store[i] : store[i][j].kind = "opening"

(* An answer on its way is of the index that is open, or has the reopen    *)
(* behind it.                                                              *)
AnswerFresh(i, k) ==
  done[i][k].kind = "answer" =>
    \/ done[i][k].data = Failed
    \/ /\ done[i][k].data.kind = "rows"
       /\ \/ done[i][k].data.build = meta[i]
          \/ \E j \in DOMAIN done[i] : k < j /\ done[i][j].kind = "opened"
          \/ Opening(i)

(* A reopen that has been to the store thread.                             *)
Reopened(i) == \E k \in DOMAIN done[i] : done[i][k].kind = "opened" /\ done[i][k].task # NoTask

FreshInv(i) ==
  /\ \A k \in DOMAIN done[i] : AnswerFresh(i, k)
  /\ state[i] = "ready" \/ Opening(i) => conn[i] = meta[i]
  /\ i \notin closed /\ Reopened(i) => state[i] \in {"ready", "failed"}

ListenInv == phase \in Busy => cur \in listening

FreshFacts == (\A i \in Inst : FreshInv(i)) /\ ListenInv

(* No refresh of the newest object and no opening of it is under way.      *)
Rest == phase \in {"polling", "awaiting", "loaded"} /\ lock[cur] = NoTask

Polled(w) ==
  \/ phase = "loaded"
  \/ phase = "polling" /\ w < toPoll
  \/ phase = "awaiting" /\ w <= toPoll

Asked(w, i)    == \E k \in DOMAIN store[i] : store[i][k].kind = "query" /\ store[i][k].watch = w
Answered(w, i) == \E k \in DOMAIN done[i] : done[i][k].kind = "answer" /\ done[i][k].watch = w

Current(w) ==
  /\ shown[w] = Failed \/ (shown[w].kind = "rows" /\ shown[w].build = meta[cur])
  /\ phase = "loaded" /\ shown[w].kind = "rows" => attrs[w] = meta[cur]

Settled(w) ==
  \/ state[cur] = "ready" /\ (Asked(w, cur) \/ Answered(w, cur))
  \/ Current(w)

AllSettled ==
  /\ state[cur] \in {"ready", "failed"}
  /\ \A w \in Watch : Polled(w) => Settled(w)

RestInv == Rest => AllSettled

CurrentFacts == EntryFacts /\ FreshFacts /\ RestInv

-----------------------------------------------------------------------------
(* Answers on their way                                                    *)

(* Only StoreQueries sends an answer, and it is a failure or rows of what  *)
(* is open.                                                                *)
AnswerStep(i) ==
  \/ done'[i] = done[i]
  \/ done[i] # <<>> /\ done'[i] = Tail(done[i])
  \/ \E c \in Completions :
       /\ done'[i] = Append(done[i], c) /\ c.kind = "answer"
       /\ c.data = Failed \/ (c.data.kind = "rows" /\ c.data.build = meta[i])

LEMMA FreshFrame ==
  ASSUME EntryFacts, NEW i \in Inst, FreshInv(i), AnswerStep(i), Opening(i)' <=> Opening(i),
         conn'[i] = conn[i], meta'[i] = meta[i], closed \subseteq closed',
         \/ state'[i] = state[i]
         \/ state'[i] = "failed"
         \/ state'[i] = "importing" /\ (i \notin closed => ~Reopened(i))
  PROVE  FreshInv(i)'
<1>1. done[i] \in Seq(Completions)
  BY ObjectFacts
<1>2. CASE done'[i] = done[i]
  <2>1. Reopened(i)' <=> Reopened(i)
    BY <1>2 DEF Reopened
  <2>2. \A k \in DOMAIN done'[i] : AnswerFresh(i, k)'
    BY <1>2 DEF FreshInv, AnswerFresh
  <2> QED BY <2>1, <2>2 DEF FreshInv
<1>3. CASE done[i] # <<>> /\ done'[i] = Tail(done[i])
  <2>1. /\ \A k \in DOMAIN done'[i] : k \in Nat \ {0} /\ k + 1 \in DOMAIN done[i] /\ done'[i][k] = done[i][k + 1]
        /\ DOMAIN done[i] = 1 .. Len(done[i]) /\ Len(done'[i]) = Len(done[i]) - 1 /\ Len(done[i]) \in Nat
        /\ done'[i] \in Seq(Completions)
    BY <1>1, <1>3, TailFacts
  <2>2. DOMAIN done'[i] = 1 .. Len(done[i]) - 1
    BY <2>1
  <2>3. Reopened(i)' => Reopened(i)
    BY <2>1 DEF Reopened
  <2>4. ASSUME NEW k \in DOMAIN done'[i] PROVE AnswerFresh(i, k)'
    <3>1. k \in Nat /\ k + 1 \in DOMAIN done[i] /\ done'[i][k] = done[i][k + 1] /\ AnswerFresh(i, k + 1)
      BY <2>1, <2>4 DEF FreshInv
    <3>2. ASSUME NEW j \in DOMAIN done[i], k + 1 < j, done[i][j].kind = "opened"
          PROVE  \E h \in DOMAIN done'[i] : k < h /\ done'[i][h].kind = "opened"
      <4>1. j - 1 \in DOMAIN done'[i] /\ k < j - 1 /\ j \in Int
        BY <2>1, <2>2, <3>1, <3>2
      <4>2. done'[i][j - 1] = done[i][j]
        BY <2>1, <4>1
      <4> QED BY <3>2, <4>1, <4>2
    <3> QED BY <3>1, <3>2 DEF AnswerFresh
  <2> QED BY <2>3, <2>4 DEF FreshInv
<1>4. CASE \E c \in Completions :
             /\ done'[i] = Append(done[i], c) /\ c.kind = "answer"
             /\ c.data = Failed \/ (c.data.kind = "rows" /\ c.data.build = meta[i])
  <2>1. PICK c \in Completions :
             /\ done'[i] = Append(done[i], c) /\ c.kind = "answer"
             /\ c.data = Failed \/ (c.data.kind = "rows" /\ c.data.build = meta[i])
    BY <1>4
  <2>2. /\ DOMAIN done[i] = 1 .. Len(done[i]) /\ Len(done[i]) \in Nat
        /\ DOMAIN done'[i] = 1 .. Len(done[i]) + 1
        /\ \A k \in DOMAIN done'[i] :
             \/ k \in DOMAIN done[i] /\ done'[i][k] = done[i][k]
             \/ k = Len(done[i]) + 1 /\ done'[i][k] = c
    <3>1. /\ DOMAIN done[i] = 1 .. Len(done[i]) /\ Len(done[i]) \in Nat
          /\ DOMAIN Append(done[i], c) = 1 .. Len(done[i]) + 1
          /\ \A k \in DOMAIN Append(done[i], c) :
               \/ k \in DOMAIN done[i] /\ Append(done[i], c)[k] = done[i][k]
               \/ k = Len(done[i]) + 1 /\ Append(done[i], c)[k] = c
      BY <1>1, AppendFacts
    <3> QED BY <2>1, <3>1
  <2>3. \A j \in DOMAIN done[i] : j \in DOMAIN done'[i] /\ done'[i][j] = done[i][j]
    BY <2>2
  <2>4. Reopened(i)' => Reopened(i)
    BY <2>1, <2>2 DEF Reopened
  <2>5. ASSUME NEW k \in DOMAIN done'[i] PROVE AnswerFresh(i, k)'
    <3>1. CASE k \in DOMAIN done[i] /\ done'[i][k] = done[i][k]
      <4>1. AnswerFresh(i, k)
        BY <3>1 DEF FreshInv
      <4> QED BY <2>3, <3>1, <4>1 DEF AnswerFresh
    <3>2. CASE done'[i][k] = c
      BY <2>1, <3>2 DEF AnswerFresh
    <3> QED BY <2>2, <2>5, <3>1, <3>2
  <2> QED BY <2>4, <2>5 DEF FreshInv
<1> QED BY <1>2, <1>3, <1>4 DEF AnswerStep

(* A queue that was added to by polls has no open in it, then or before.   *)
LEMMA PollsOpenNothing ==
  ASSUME EntryFacts, NEW i \in Inst, store'[i] = store[i] \/ (state[i] = "ready" /\ Clean(store'[i], meta[i]))
  PROVE  Opening(i)' <=> Opening(i)
<1>1. CASE store'[i] = store[i]
  BY <1>1 DEF Opening
<1>2. CASE state[i] = "ready" /\ Clean(store'[i], meta[i])
  <2>1. Clean(store[i], meta[i])
    BY <1>2, ReadyIsClean
  <2> QED BY <1>2, <2>1 DEF Clean, Opening, Opens
<1> QED BY <1>1, <1>2

LEMMA NotifyOpensNothing ==
  ASSUME EntryFacts, NEW i \in Inst, NEW s, Notify(i, s), CanQuery(s) => state[i] = "ready", NEW x \in Inst
  PROVE  Opening(x)' <=> Opening(x)
<1>1. CASE x # i
  BY <1>1, NotifyQueues DEF Opening
<1>2. CASE x = i
  <2>1. store'[i] = store[i] \/ (CanQuery(s) /\ Clean(store'[i], meta[i]))
    BY NotifyQueues
  <2> QED BY <1>2, <2>1, PollsOpenNothing
<1> QED BY <1>1, <1>2

(* The three jobs of an open.                                              *)
LEMMA OpeningFresh ==
  ASSUME EntryFacts, NEW i \in Inst, FreshInv(i), StoreOpens(i)
  PROVE  FreshInv(i)'
<1>1. store[i] # <<>> /\ Head(store[i]).kind = "open" /\ store[i] \in Seq(Jobs)
  BY ObjectFacts DEF StoreOpens, Job
<1>2. Tail(store[i]) = <<>> /\ state[i] # "ready" /\ Head(store[i]) \in Jobs
  BY <1>1, OpenHead DEF Opens
<1> DEFINE new == [Head(store[i]) EXCEPT !.kind = "opening"]
<1>3. new \in Jobs /\ new.kind = "opening"
  <2>1. new \in Jobs
    BY <1>1, <1>2, JobFacts
  <2>2. Head(store[i]) \in [kind : {"open", "opening", "cancelled"}, task : Tasks]
    BY <1>1, <1>2 DEF Jobs, Query, Tasks
  <2> QED BY <2>1, <2>2
<1>4. /\ store'[i] = <<new>> \o <<>> /\ conn'[i] = index /\ meta'[i] = index
      /\ UNCHANGED <<state, done, closed>>
  BY <1>2 DEF StoreOpens, loopVars, EntryFacts, TypeInv, ObjectTypes, QueueTypes
<1> HIDE DEF new
<1>5. <<new>> \o <<>> = <<new>>
  <2>1. <<new>> \in Seq(Jobs)
    BY <1>3
  <2> QED BY <2>1
<1>6. DOMAIN store'[i] = {1} /\ store'[i][1] = new
  BY <1>4, <1>5
<1>7. Opening(i)'
  BY <1>3, <1>6 DEF Opening
<1>8. \A k \in DOMAIN done'[i] : AnswerFresh(i, k)'
  <2> SUFFICES ASSUME NEW k \in DOMAIN done[i] PROVE AnswerFresh(i, k)'
    BY <1>4
  <2>1. AnswerFresh(i, k)
    BY DEF FreshInv
  <2> QED BY <1>4, <1>7, <2>1 DEF AnswerFresh
<1>9. Reopened(i)' <=> Reopened(i)
  BY <1>4 DEF Reopened
<1> QED BY <1>4, <1>8, <1>9 DEF FreshInv

LEMMA OpenedFresh ==
  ASSUME EntryFacts, NEW i \in Inst, FreshInv(i), StoreReady(i) \/ StoreOpenFails(i)
  PROVE  FreshInv(i)'
<1> DEFINE c == Opened(Head(store[i]).task)
<1>1. store[i] # <<>> /\ Head(store[i]).kind \in Opens /\ store[i] \in Seq(Jobs) /\ done[i] \in Seq(Completions)
  BY ObjectFacts DEF StoreReady, StoreOpenFails, Job, Opens
<1>2. Tail(store[i]) = <<>> /\ Head(store[i]).task \in Tasks
  BY <1>1, OpenHead
<1>3. c \in Completions /\ c.kind = "opened"
  BY <1>2, JobFacts DEF Opened
<1>4. store'[i] = <<>> /\ done'[i] = Append(done[i], c) /\ meta' = meta /\ closed' = closed
  BY <1>2 DEF StoreReady, StoreOpenFails, Completes, loopVars, EntryFacts, TypeInv, QueueTypes
<1>5. \/ StoreReady(i) /\ state'[i] = "ready" /\ conn' = conn /\ Head(store[i]).kind = "opening"
      \/ StoreOpenFails(i) /\ state'[i] = "failed"
  BY DEF StoreReady, StoreOpenFails, Job, EntryFacts, TypeInv, ObjectTypes
<1> HIDE DEF c
<1>6. /\ DOMAIN done[i] = 1 .. Len(done[i]) /\ Len(done[i]) \in Nat
      /\ DOMAIN done'[i] = 1 .. Len(done[i]) + 1
      /\ \A k \in DOMAIN done'[i] :
           \/ k \in DOMAIN done[i] /\ done'[i][k] = done[i][k]
           \/ k = Len(done[i]) + 1 /\ done'[i][k] = c
  <2>1. /\ DOMAIN done[i] = 1 .. Len(done[i]) /\ Len(done[i]) \in Nat
        /\ DOMAIN Append(done[i], c) = 1 .. Len(done[i]) + 1
        /\ \A k \in DOMAIN Append(done[i], c) :
             \/ k \in DOMAIN done[i] /\ Append(done[i], c)[k] = done[i][k]
             \/ k = Len(done[i]) + 1 /\ Append(done[i], c)[k] = c
    BY <1>1, <1>3, AppendFacts
  <2> QED BY <1>4, <2>1
<1>7. ASSUME NEW k \in DOMAIN done'[i] PROVE AnswerFresh(i, k)'
  <2>1. CASE k \in DOMAIN done[i] /\ done'[i][k] = done[i][k]
    <3>1. AnswerFresh(i, k)
      BY <2>1 DEF FreshInv
    <3>2. LET h == Len(done[i]) + 1 IN h \in DOMAIN done'[i] /\ k < h /\ done'[i][h] = c
      BY <1>6, <2>1
    <3>3. \E j \in DOMAIN done'[i] : k < j /\ done'[i][j].kind = "opened"
      BY <1>3, <3>2
    <3> QED BY <2>1, <3>1, <3>3 DEF AnswerFresh
  <2>2. CASE done'[i][k] = c
    BY <1>3, <2>2 DEF AnswerFresh
  <2> QED BY <1>6, <1>7, <2>1, <2>2
<1>8. DOMAIN store'[i] = {}
  BY <1>4
<1>9. state'[i] = "ready" => conn'[i] = meta'[i]
  <2>1. ASSUME Head(store[i]).kind = "opening" PROVE Opening(i)
    <3>1. 1 \in DOMAIN store[i] /\ Head(store[i]) = store[i][1]
      BY <1>1, TailFacts
    <3> QED BY <2>1, <3>1 DEF Opening
  <2> QED BY <1>4, <1>5, <2>1 DEF FreshInv
<1> QED BY <1>5, <1>7, <1>8, <1>9 DEF FreshInv, Opening

(* And those of a query, or of one that was cancelled.                     *)
LEMMA PopOpensNothing ==
  ASSUME NEW i \in Inst, store[i] \in Seq(Jobs), store[i] # <<>>, Head(store[i]).kind # "opening",
         store'[i] = Tail(store[i])
  PROVE  Opening(i)' <=> Opening(i)
<1>1. /\ 1 \in DOMAIN store[i] /\ Head(store[i]) = store[i][1] /\ Len(store[i]) \in Nat
      /\ DOMAIN store[i] = 1 .. Len(store[i]) /\ Len(Tail(store[i])) = Len(store[i]) - 1
      /\ Tail(store[i]) \in Seq(Jobs)
      /\ \A k \in DOMAIN Tail(store[i]) : k + 1 \in DOMAIN store[i] /\ Tail(store[i])[k] = store[i][k + 1]
  BY TailFacts
<1>2. DOMAIN Tail(store[i]) = 1 .. Len(store[i]) - 1
  BY <1>1
<1>3. Opening(i)' => Opening(i)
  BY <1>1 DEF Opening
<1>4. ASSUME NEW j \in DOMAIN store[i], store[i][j].kind = "opening" PROVE Opening(i)'
  <2>1. j # 1
    BY <1>1, <1>4
  <2>2. j - 1 \in DOMAIN Tail(store[i]) /\ j \in Int
    BY <1>1, <1>2, <2>1
  <2>3. Tail(store[i])[j - 1] = store[i][j]
    BY <1>1, <2>2
  <2> QED BY <1>4, <2>2, <2>3 DEF Opening
<1> QED BY <1>3, <1>4 DEF Opening

(* What StoreQueries sends.                                                *)
LEMMA QueryAnswered ==
  ASSUME EntryFacts, NEW i \in Inst, StoreQueries(i)
  PROVE  /\ store[i] # <<>> /\ store[i] \in Seq(Jobs) /\ Head(store[i]).kind = "query"
         /\ store'[i] = Tail(store[i])
         /\ \E c \in Completions :
              /\ done'[i] = Append(done[i], c) /\ c.kind = "answer" /\ c.watch = Head(store[i]).watch
              /\ c.data = Failed \/ (c.data.kind = "rows" /\ c.data.build = meta[i])
<1> DEFINE q == Head(store[i])
<1>1. store[i] # <<>> /\ q.kind = "query" /\ store[i] \in Seq(Jobs) /\ done \in [Inst -> Seq(Completions)]
  BY DEF StoreQueries, Job, EntryFacts, TypeInv, QueueTypes
<1>2. PICK d \in {Rows(conn[i], q.window), Failed} :
        /\ d = Rows(conn[i], q.window) => conn[i] # 0
        /\ done' = [done EXCEPT ![i] = Append(@, Answer(q, d))]
        /\ store' = [store EXCEPT ![i] = Tail(@)]
  <2>1. Rows(conn[i], q.window) # Failed
    BY DEF Rows, Failed
  <2> QED BY <2>1 DEF StoreQueries, Completes
<1>3. q \in Jobs /\ 1 \in DOMAIN store[i] /\ q = store[i][1]
  BY <1>1, TailFacts
<1>4. QueueInv(i)
  BY ObjectFacts
<1>5. conn[i] \in {0, meta[i]} /\ q.window = meta[i] /\ q.window \in 0 .. MaxBuild
  BY <1>1, <1>3, <1>4, JobFacts DEF QueueInv
<1>6. Answer(q, d) \in Completions
  <2>1. d \in Data
    BY <1>2, <1>5, DataFacts
  <2> QED BY <1>1, <1>3, <2>1, JobFacts
<1>7. /\ Answer(q, d).kind = "answer" /\ Answer(q, d).watch = q.watch
      /\ Answer(q, d).data = Failed \/ (Answer(q, d).data.kind = "rows" /\ Answer(q, d).data.build = meta[i])
  BY <1>2, <1>5 DEF Answer, Rows
<1>8. store'[i] = Tail(store[i]) /\ done'[i] = Append(done[i], Answer(q, d))
  BY <1>1, <1>2 DEF EntryFacts, TypeInv, QueueTypes
<1> QED BY <1>1, <1>6, <1>7, <1>8

(* A refresh starts where no reopen is on its way back, and queues nothing *)
(* at once.                                                                *)
LEMMA StartReopensNothing ==
  ASSUME EntryFacts, NEW t \in Task, StartRefresh(t)
  PROVE  /\ store' = store /\ ~Reopened(Owner(t)) /\ state'[Owner(t)] = "importing"
         /\ \A x \in Inst : x # Owner(t) => state'[x] = state[x]
         /\ lock'[Owner(t)] = t
<1>1. Owner(t) \in Inst
  BY TaskFacts
<1>2. OpenInv(Owner(t)) /\ lock[Owner(t)] = NoTask
  BY <1>1, ObjectFacts DEF StartRefresh, LockFree
<1>3. ~Reopened(Owner(t))
  BY <1>2 DEF OpenInv, Holds, Reopened
<1>4. store' = store
  BY DEF StartRefresh, Notify, CanQuery
<1>5. /\ state' = [state EXCEPT ![Owner(t)] = "importing"] /\ lock' = [lock EXCEPT ![Owner(t)] = t]
  BY DEF StartRefresh
<1>6. state \in [Inst -> {"idle", "importing", "ready", "failed"}] /\ lock \in [Inst -> Task \cup {NoTask}]
  BY DEF EntryFacts, TypeInv, ObjectTypes, LockTypes
<1> QED BY <1>1, <1>3, <1>4, <1>5, <1>6

(* The tasks of refreshes leave every object's answers fresh.              *)
LEMMA TasksFresh ==
  ASSUME EntryFacts, NEW x \in Inst, FreshInv(x), NEW t \in Task,
         RefreshDue(t) \/ WorkerRaised(t) \/ WorkerDone(t) \/ RefreshEnds(t)
  PROVE  FreshInv(x)'
<1>1. Owner(t) \in Inst /\ t \in Tasks
  BY TaskFacts DEF Tasks
<1>2. store \in [Inst -> Seq(Jobs)] /\ done \in [Inst -> Seq(Completions)]
      /\ state \in [Inst -> {"idle", "importing", "ready", "failed"}]
  BY DEF EntryFacts, TypeInv, QueueTypes, ObjectTypes
<1>3. UNCHANGED <<conn, meta, closed>>
  BY DEF RefreshDue, WorkerRaised, WorkerDone, RefreshEnds, loopVars
<1>4. CASE RefreshDue(t)
  <2>1. StartRefresh(t) /\ done' = done
    BY <1>4 DEF RefreshDue
  <2>2. /\ store' = store /\ ~Reopened(Owner(t)) /\ state'[Owner(t)] = "importing"
        /\ \A y \in Inst : y # Owner(t) => state'[y] = state[y]
    BY <2>1, StartReopensNothing
  <2>3. Opening(x)' <=> Opening(x)
    BY <2>2 DEF Opening
  <2>4. state'[x] = state[x] \/ (state'[x] = "importing" /\ ~Reopened(x))
    BY <2>2
  <2>5. AnswerStep(x)
    BY <2>1 DEF AnswerStep
  <2> QED BY <1>3, <2>3, <2>4, <2>5, FreshFrame
<1>5. CASE WorkerRaised(t)
  <2>1. store' = store /\ done' = done /\ state' = [state EXCEPT ![Owner(t)] = "failed"]
    BY <1>5 DEF WorkerRaised, Notify, CanQuery
  <2>2. state'[x] = state[x] \/ state'[x] = "failed"
    BY <1>1, <1>2, <2>1
  <2> QED BY <1>3, <2>1, <2>2, FreshFrame DEF Opening, AnswerStep
<1>6. CASE WorkerDone(t)
  <2>1. done' = done /\ state' = state /\ (store' = store \/ store' = [store EXCEPT ![Owner(t)] = Append(@, Open(t))])
    BY <1>6 DEF WorkerDone
  <2>2. Opening(x)' <=> Opening(x)
    <3>1. CASE store'[x] = store[x]
      BY <3>1 DEF Opening
    <3>2. CASE store'[x] = Append(store[x], Open(t))
      <4>1. Open(t) \in Jobs /\ Open(t).kind # "opening"
        BY <1>1, JobFacts DEF Open
      <4>2. /\ DOMAIN store[x] = 1 .. Len(store[x]) /\ Len(store[x]) \in Nat
            /\ DOMAIN Append(store[x], Open(t)) = 1 .. Len(store[x]) + 1
            /\ \A k \in DOMAIN Append(store[x], Open(t)) :
                 \/ k \in DOMAIN store[x] /\ Append(store[x], Open(t))[k] = store[x][k]
                 \/ k = Len(store[x]) + 1 /\ Append(store[x], Open(t))[k] = Open(t)
        BY <1>2, <4>1, AppendFacts
      <4>3. \A k \in DOMAIN store[x] : k \in DOMAIN store'[x] /\ store'[x][k] = store[x][k]
        BY <3>2, <4>2
      <4> QED BY <3>2, <4>1, <4>2, <4>3 DEF Opening
    <3> QED BY <1>1, <1>2, <2>1, <3>1, <3>2
  <2> QED BY <1>3, <2>1, <2>2, FreshFrame DEF AnswerStep
<1>7. CASE RefreshEnds(t)
  <2>1. /\ state' = state /\ done' = [done EXCEPT ![Owner(t)] = Tail(@)] /\ done[Owner(t)] # <<>>
        /\ store' = store \/ Notify(Owner(t), state[Owner(t)])
    BY <1>7 DEF RefreshEnds
  <2>2. Opening(x)' <=> Opening(x)
    <3>1. CASE store' = store
      BY <3>1 DEF Opening
    <3>2. CASE Notify(Owner(t), state[Owner(t)])
      <4>1. CanQuery(state[Owner(t)]) => state[Owner(t)] = "ready"
        BY DEF CanQuery
      <4> QED BY <1>1, <3>2, <4>1, NotifyOpensNothing
    <3> QED BY <2>1, <3>1, <3>2
  <2>3. AnswerStep(x)
    BY <1>1, <1>2, <2>1 DEF AnswerStep
  <2> QED BY <1>3, <2>1, <2>2, <2>3, FreshFrame
<1> QED BY <1>4, <1>5, <1>6, <1>7

(* So do the jobs of the store threads.                                    *)
LEMMA StoresFresh ==
  ASSUME EntryFacts, NEW x \in Inst, FreshInv(x), NEW i \in Inst,
         StoreSkips(i) \/ StoreOpens(i) \/ StoreReady(i) \/ StoreOpenFails(i) \/ StoreQueries(i)
  PROVE  FreshInv(x)'
<1>1. store \in [Inst -> Seq(Jobs)] /\ done \in [Inst -> Seq(Completions)]
  BY DEF EntryFacts, TypeInv, QueueTypes
<1>2. closed' = closed
  BY DEF StoreSkips, StoreOpens, StoreReady, StoreOpenFails, StoreQueries, Completes, loopVars
<1>3. CASE x # i
  <2>1. store'[x] = store[x] /\ done'[x] = done[x] /\ conn'[x] = conn[x] /\ meta'[x] = meta[x] /\ state'[x] = state[x]
    BY <1>1, <1>3 DEF StoreSkips, StoreOpens, StoreReady, StoreOpenFails, StoreQueries, Completes,
                      EntryFacts, TypeInv, ObjectTypes
  <2> QED BY <1>2, <2>1, FreshFrame DEF Opening, AnswerStep
<1>4. CASE x = i /\ StoreSkips(i)
  <2>1. /\ store'[x] = Tail(store[x]) /\ store[x] # <<>> /\ Head(store[x]).kind # "opening"
        /\ UNCHANGED <<done, conn, meta, state>>
    BY <1>1, <1>4 DEF StoreSkips, Job
  <2>2. Opening(x)' <=> Opening(x)
    BY <1>1, <2>1, PopOpensNothing
  <2> QED BY <1>2, <2>1, <2>2, FreshFrame DEF AnswerStep
<1>5. CASE x = i /\ StoreQueries(i)
  <2>1. UNCHANGED <<conn, meta, state>>
    BY <1>5 DEF StoreQueries
  <2>2. /\ store[x] # <<>> /\ store[x] \in Seq(Jobs) /\ Head(store[x]).kind = "query" /\ store'[x] = Tail(store[x])
        /\ AnswerStep(x)
    BY <1>5, QueryAnswered DEF AnswerStep
  <2>3. Opening(x)' <=> Opening(x)
    BY <2>2, PopOpensNothing
  <2> QED BY <1>2, <2>1, <2>2, <2>3, FreshFrame
<1> QED BY <1>3, <1>4, <1>5, OpeningFresh, OpenedFresh

(* And the entry and its watches.                                          *)
LEMMA EntryFresh ==
  ASSUME EntryFacts, NEW x \in Inst, FreshInv(x),
         \/ (\E w \in Watch : TimerPoll(w)) \/ (\E i \in Inst : PollEnds(i))
         \/ SetupBegins \/ SetupOpened \/ SetupPolls \/ SetupEnds
         \/ UnloadBegins \/ Unloads \/ UnloadRefused \/ RemoveBegins \/ RemovesTree
  PROVE  FreshInv(x)'
<1>1. store \in [Inst -> Seq(Jobs)] /\ done \in [Inst -> Seq(Completions)]
  BY DEF EntryFacts, TypeInv, QueueTypes
<1>2. /\ UNCHANGED <<conn, meta>> /\ closed \subseteq closed'
  BY DEF TimerPoll, PollEnds, SetupBegins, SetupOpened, SetupPolls, SetupEnds,
         UnloadBegins, Unloads, UnloadRefused, RemoveBegins, RemovesTree, Shutdown, loopVars, storeVars
<1>3. CASE (\E w \in Watch : TimerPoll(w)) \/ SetupPolls
  <2>1. done' = done /\ state' = state /\ cur \in Inst
    BY <1>3, LifecycleAssumption
    DEF TimerPoll, SetupPolls, EntryFacts, TypeInv, EntryTypes, EntryInv, Busy, Inst
  <2>2. PICK w \in Watch, by \in {"setup", "timer", "notify"} : Poll(w, by)
    <3>1. CASE \E w \in Watch : TimerPoll(w)
      BY <3>1 DEF TimerPoll
    <3>2. CASE SetupPolls
      <4>1. toPoll \in Watch /\ Poll(toPoll, "setup")
        BY <3>2, LifecycleAssumption DEF SetupPolls, EntryFacts, TypeInv, EntryTypes, EntryInv, Watch
      <4> QED BY <4>1
    <3> QED BY <1>3, <3>1, <3>2
  <2>3. /\ x # cur => store'[x] = store[x]
        /\ store'[cur] = store[cur] \/ (state[cur] = "ready" /\ Clean(store'[cur], meta[cur]))
    BY <2>1, <2>2, PollQueues
  <2>4. Opening(x)' <=> Opening(x)
    BY <2>3, PollsOpenNothing
  <2> QED BY <1>2, <2>1, <2>4, FreshFrame DEF AnswerStep
<1>4. CASE \E i \in Inst : PollEnds(i)
  <2>1. store' = store /\ state' = state /\ AnswerStep(x)
    BY <1>1, <1>4 DEF PollEnds, AnswerStep
  <2> QED BY <1>2, <2>1, FreshFrame DEF Opening
<1>5. CASE SetupBegins
  <2>1. CASE x # cur + 1
    <3>1. store'[x] = store[x] /\ done'[x] = done[x] /\ state' = state
      BY <1>1, <1>5, <2>1 DEF SetupBegins
    <3> QED BY <1>2, <3>1, FreshFrame DEF Opening, AnswerStep
  <2>2. CASE x = cur + 1
    <3>1. x > cur
      BY <2>2, LifecycleAssumption DEF EntryFacts, TypeInv, EntryTypes
    <3>2. store[x] = <<>> /\ done[x] = <<>> /\ state[x] = "idle"
      BY <3>1 DEF EntryFacts, OpensInv, Sound, Fresh
    <3>3. /\ store'[x] = <<>> \/ store'[x] = <<Open(NoTask)>>
          /\ done'[x] = <<>> \/ done'[x] = <<Opened(NoTask)>>
          /\ state' = state
      BY <1>1, <1>5, <2>2, <3>2 DEF SetupBegins
    <3>4. ~Opening(x)'
      BY <3>3 DEF Opening, Open
    <3>5. \A k \in DOMAIN done'[x] : done'[x][k] = Opened(NoTask)
      BY <3>3
    <3>6. (\A k \in DOMAIN done'[x] : AnswerFresh(x, k)') /\ ~Reopened(x)'
      BY <3>5 DEF AnswerFresh, Reopened, Opened
    <3> QED BY <3>2, <3>3, <3>4, <3>6 DEF FreshInv
  <2> QED BY <2>1, <2>2
<1>6. CASE SetupOpened
  <2>1. AnswerStep(x)
    BY <1>1, <1>6 DEF SetupOpened, AnswerStep
  <2>2. CASE \E t \in Task : StartRefresh(t)
    <3>1. PICK t \in Task : StartRefresh(t)
      BY <2>2
    <3>2. /\ store' = store /\ ~Reopened(Owner(t)) /\ state'[Owner(t)] = "importing"
          /\ \A y \in Inst : y # Owner(t) => state'[y] = state[y]
      BY <3>1, StartReopensNothing
    <3>3. Opening(x)' <=> Opening(x)
      BY <3>2 DEF Opening
    <3>4. state'[x] = state[x] \/ (state'[x] = "importing" /\ ~Reopened(x))
      BY <3>2
    <3> QED BY <1>2, <2>1, <3>3, <3>4, FreshFrame
  <2>3. CASE UNCHANGED <<state, store>>
    BY <1>2, <2>1, <2>3, FreshFrame DEF Opening
  <2> QED BY <1>6, <2>2, <2>3 DEF SetupOpened
<1>7. CASE SetupEnds \/ UnloadBegins \/ UnloadRefused \/ RemoveBegins \/ RemovesTree
  <2>1. UNCHANGED <<store, done, state>>
    BY <1>7 DEF SetupEnds, UnloadBegins, UnloadRefused, RemoveBegins, RemovesTree, storeVars
  <2> QED BY <1>2, <2>1, FreshFrame DEF Opening, AnswerStep
<1>8. CASE Unloads
  <2>1. UNCHANGED <<done, state>> /\ (store'[x] = store[x] \/ \E gone : store'[x] = Cancels(store[x], gone))
    BY <1>1, <1>8 DEF Unloads
  <2>2. Opening(x)' <=> Opening(x)
    <3>1. CASE store'[x] = store[x]
      BY <3>1 DEF Opening
    <3>2. CASE \E gone : store'[x] = Cancels(store[x], gone)
      <4>1. PICK gone : store'[x] = Cancels(store[x], gone)
        BY <3>2
      <4>2. DOMAIN store'[x] = DOMAIN store[x]
        BY <4>1 DEF Cancels
      <4>3. ASSUME NEW k \in DOMAIN store[x]
            PROVE  store'[x][k].kind = "opening" <=> store[x][k].kind = "opening"
        <5>1. store[x][k] \in Jobs
          BY <1>1
        <5>2. store'[x][k] = store[x][k] \/ (store[x][k].kind = "open" /\ store'[x][k] = [store[x][k] EXCEPT !.kind = "cancelled"])
          BY <4>1 DEF Cancels
        <5>3. CASE store[x][k].kind = "open" /\ store'[x][k] = [store[x][k] EXCEPT !.kind = "cancelled"]
          <6>1. store[x][k] \in [kind : {"open", "opening", "cancelled"}, task : Task \cup {NoTask}]
            BY <5>1, <5>3 DEF Jobs, Query
          <6> QED BY <5>3, <6>1
        <5> QED BY <5>2, <5>3
      <4> QED BY <4>2, <4>3 DEF Opening
    <3> QED BY <2>1, <3>1, <3>2
  <2> QED BY <1>2, <2>1, <2>2, FreshFrame DEF AnswerStep
<1> QED BY <1>3, <1>4, <1>5, <1>6, <1>7, <1>8

(* The coordinators of an entry at work listen.                            *)
LEMMA ListenKept == EntryFacts /\ ListenInv /\ [Next]_vars => ListenInv'
<1> SUFFICES ASSUME EntryFacts, ListenInv, [Next]_vars PROVE ListenInv'
  OBVIOUS
<1> USE DEF ListenInv, Busy
<1>1. CASE UNCHANGED loopVars
  BY <1>1 DEF loopVars
<1>2. CASE \/ \E t \in Task : \/ RefreshDue(t) \/ WorkerRaised(t) \/ WorkerDone(t) \/ RefreshEnds(t)
                              \/ ThreadStarts(t) \/ Publishes(t) \/ Raises(t)
           \/ \E w \in Watch : TimerPoll(w)
           \/ UNCHANGED vars
  <2>1. UNCHANGED loopVars
    BY <1>2 DEF RefreshDue, WorkerRaised, WorkerDone, RefreshEnds, ThreadStarts, Publishes, Raises, ThreadEnds,
                TimerPoll, loopVars, vars
  <2> QED BY <1>1, <2>1
<1>3. CASE \E i \in Inst : StoreSkips(i) \/ StoreOpens(i) \/ StoreReady(i) \/ StoreOpenFails(i) \/ StoreQueries(i)
  <2>1. UNCHANGED loopVars
    BY <1>3 DEF StoreSkips, StoreOpens, StoreReady, StoreOpenFails, StoreQueries, Completes
  <2> QED BY <1>1, <2>1
<1>4. CASE \E i \in Inst : PollEnds(i)
  BY <1>4 DEF PollEnds
<1>5. CASE SetupBegins \/ SetupOpened \/ SetupPolls \/ SetupEnds
  BY <1>5 DEF SetupBegins, SetupOpened, SetupPolls, SetupEnds
<1>6. CASE UnloadBegins \/ Unloads \/ UnloadRefused \/ RemoveBegins \/ RemovesTree
  BY <1>6 DEF UnloadBegins, Unloads, UnloadRefused, RemoveBegins, RemovesTree
<1> QED BY <1>2, <1>3, <1>4, <1>5, <1>6 DEF Next, Loop, Threads

LEMMA FreshKept == EntryFacts /\ FreshFacts /\ [Next]_vars => FreshFacts'
<1> SUFFICES ASSUME EntryFacts, FreshFacts, [Next]_vars PROVE FreshFacts'
  OBVIOUS
<1>1. ASSUME NEW x \in Inst PROVE FreshInv(x)'
  <2>1. FreshInv(x)
    BY DEF FreshFacts
  <2>2. CASE \E t \in Task : ThreadStarts(t) \/ Publishes(t) \/ Raises(t)
    <3>1. UNCHANGED <<store, done, conn, meta, state, closed>>
      BY <2>2 DEF ThreadStarts, Publishes, Raises, ThreadEnds, storeVars, loopVars
    <3> QED BY <2>1, <3>1, FreshFrame DEF Opening, AnswerStep
  <2>3. CASE UNCHANGED vars
    <3>1. UNCHANGED <<store, done, conn, meta, state, closed>>
      BY <2>3 DEF vars
    <3> QED BY <2>1, <3>1, FreshFrame DEF Opening, AnswerStep
  <2>4. CASE \E t \in Task : RefreshDue(t) \/ WorkerRaised(t) \/ WorkerDone(t) \/ RefreshEnds(t)
    BY <2>1, <2>4, TasksFresh
  <2>5. CASE \E i \in Inst : StoreSkips(i) \/ StoreOpens(i) \/ StoreReady(i) \/ StoreOpenFails(i) \/ StoreQueries(i)
    BY <2>1, <2>5, StoresFresh
  <2>6. CASE \/ (\E w \in Watch : TimerPoll(w)) \/ (\E i \in Inst : PollEnds(i))
             \/ SetupBegins \/ SetupOpened \/ SetupPolls \/ SetupEnds
             \/ UnloadBegins \/ Unloads \/ UnloadRefused \/ RemoveBegins \/ RemovesTree
    BY <2>1, <2>6, EntryFresh
  <2> QED BY <2>2, <2>3, <2>4, <2>5, <2>6 DEF Next, Loop, Threads
<1> QED BY <1>1, ListenKept DEF FreshFacts

-----------------------------------------------------------------------------
(* Watches                                                                 *)

LEMMA RestFacts ==
  ASSUME CurrentFacts, Rest
  PROVE  /\ cur \in Inst /\ cur \notin closed /\ cur \in listening /\ OpenInv(cur)
         /\ store[cur] \in Seq(Jobs) /\ done[cur] \in Seq(Completions)
         /\ state[cur] \in {"ready", "failed"}
         /\ \A k \in DOMAIN done[cur] : done[cur][k].kind # "opened"
         /\ \A k \in DOMAIN store[cur] : store[cur][k].kind \notin Opens
<1>1. phase \in Busy
  BY DEF Rest, Busy
<1>2. cur \in Inst /\ cur \notin closed /\ cur \in listening
  BY <1>1, LifecycleAssumption
  DEF CurrentFacts, EntryFacts, TypeInv, EntryTypes, EntryInv, EntryShape, FreshFacts, ListenInv, Inst
<1>3. OpenInv(cur) /\ store[cur] \in Seq(Jobs) /\ done[cur] \in Seq(Completions)
  BY <1>2, ObjectFacts DEF CurrentFacts
<1>4. lock[cur] = NoTask /\ phase # "opening" /\ state[cur] \in {"ready", "failed"}
  BY DEF Rest, CurrentFacts, RestInv, AllSettled
<1>5. \A t : ~Holds(t, cur) \/ (t # NoTask /\ t = NoTask)
  BY <1>4 DEF Holds
<1>6. \A k \in DOMAIN done[cur] : done[cur][k].kind # "opened"
  BY <1>3, <1>5 DEF OpenInv
<1>7. \A k \in DOMAIN store[cur] : store[cur][k].kind \notin Opens
  BY <1>3, <1>5 DEF OpenInv
<1> QED BY <1>2, <1>3, <1>4, <1>6, <1>7

(* An answer that arrives while nothing is under way is current.           *)
LEMMA ArrivesCurrent ==
  ASSUME CurrentFacts, Rest, done[cur] # <<>>, Head(done[cur]).kind = "answer"
  PROVE  LET d == Head(done[cur]).data IN d = Failed \/ (d.kind = "rows" /\ d.build = meta[cur])
<1>1. /\ cur \in Inst /\ done[cur] \in Seq(Completions)
      /\ \A k \in DOMAIN done[cur] : done[cur][k].kind # "opened"
      /\ \A k \in DOMAIN store[cur] : store[cur][k].kind \notin Opens
  BY RestFacts
<1>2. 1 \in DOMAIN done[cur] /\ Head(done[cur]) = done[cur][1]
  BY <1>1, TailFacts
<1>3. AnswerFresh(cur, 1) /\ ~Opening(cur)
  BY <1>1, <1>2 DEF CurrentFacts, FreshFacts, FreshInv, Opening, Opens
<1> QED BY <1>1, <1>2, <1>3 DEF AnswerFresh

(* A step that leaves a watch's questions, answers and what it shows alone *)
(* leaves it settled.                                                      *)
LEMMA SettledFrame ==
  ASSUME NEW w \in Watch, Settled(w), cur' = cur, state'[cur] = state[cur], meta'[cur] = meta[cur],
         Asked(w, cur) => Asked(w, cur)' \/ Answered(w, cur)',
         Answered(w, cur) => Answered(w, cur)',
         shown'[w] = shown[w],
         \/ attrs'[w] = attrs[w] /\ (phase' = "loaded" => phase = "loaded")
         \/ attrs'[w] = meta[cur]
  PROVE  Settled(w)'
BY DEF Settled, Current

(* Nor does a step that passes the newest object by.                       *)
LEMMA RestFrame ==
  ASSUME RestInv, Rest, cur' = cur, state'[cur] = state[cur], meta'[cur] = meta[cur],
         store'[cur] = store[cur], done'[cur] = done[cur], shown' = shown,
         \/ attrs' = attrs /\ (phase' = "loaded" => phase = "loaded")
         \/ \A w \in Watch : attrs'[w] = meta[cur],
         \A w \in Watch : Polled(w)' => Polled(w)
  PROVE  AllSettled'
<1>1. state[cur] \in {"ready", "failed"} /\ \A w \in Watch : Polled(w) => Settled(w)
  BY DEF RestInv, AllSettled
<1>2. ASSUME NEW w \in Watch, Polled(w)' PROVE Settled(w)'
  <2>1. Settled(w)
    BY <1>1, <1>2
  <2>2. (Asked(w, cur) => Asked(w, cur)') /\ (Answered(w, cur) => Answered(w, cur)')
    BY DEF Asked, Answered
  <2> QED BY <2>1, <2>2, SettledFrame
<1> QED BY <1>1, <1>2 DEF AllSettled

(* Telling the listeners of the newest object that it failed settles all.  *)
LEMMA FailureSettles ==
  ASSUME CurrentFacts, cur \in listening, Notify(cur, "failed"), cur' = cur, state'[cur] = "failed"
  PROVE  AllSettled'
<1>1. shown' = [w \in Watch |-> Failed]
  BY DEF Notify, CanQuery, Unready
<1>2. \A w \in Watch : Current(w)'
  BY <1>1 DEF Current, Failed
<1> QED BY <1>2 DEF AllSettled, Settled

(* And that it is ready puts a question for each on its way.               *)
LEMMA ReadinessSettles ==
  ASSUME CurrentFacts, cur \in Inst, cur \in listening, Notify(cur, "ready"), cur' = cur, state'[cur] = "ready"
  PROVE  AllSettled'
<1> DEFINE new == [w \in Watch |-> Query(w, "notify", meta[cur])]
<1>1. store \in [Inst -> Seq(Jobs)] /\ meta[cur] \in 0 .. MaxBuild
  BY DEF CurrentFacts, EntryFacts, TypeInv, QueueTypes, ObjectTypes
<1>2. new \in Seq(Jobs) /\ DOMAIN new = Watch /\ Watch = 1 .. NWatch /\ NWatch \in Nat
  <2>1. \A w \in Watch : Query(w, "notify", meta[cur]) \in Jobs
    BY <1>1, JobFacts
  <2> QED BY <2>1, LifecycleAssumption DEF Watch
<1>3. \A w \in Watch : new[w].kind = "query" /\ new[w].watch = w
  BY DEF Query
<1>4. store' = [store EXCEPT ![cur] = store[cur] \o new]
  BY DEF Notify, CanQuery
<1> HIDE DEF new
<1>5. ASSUME NEW w \in Watch PROVE Asked(w, cur)'
  <2>1. store[cur] \in Seq(Jobs) /\ store'[cur] = store[cur] \o new
    BY <1>1, <1>4
  <2>2. \A q \in Seq(Jobs) : \A k \in DOMAIN new :
          Len(q) + k \in DOMAIN (q \o new) /\ (q \o new)[Len(q) + k] = new[k]
    BY <1>2
  <2>3. LET k == Len(store[cur]) + w IN k \in DOMAIN store'[cur] /\ store'[cur][k] = new[w]
    BY <1>2, <2>1, <2>2
  <2> QED BY <1>3, <2>3 DEF Asked
<1> QED BY <1>5 DEF AllSettled, Settled

(* A refresh that ends settles what the object it ends on was showing, and *)
(* those of older objects pass it by.                                      *)
LEMMA TasksRest ==
  ASSUME CurrentFacts, NEW t \in Task,
         RefreshDue(t) \/ WorkerRaised(t) \/ WorkerDone(t) \/ RefreshEnds(t), Rest'
  PROVE  AllSettled'
<1>1. /\ EntryFacts /\ phase' = phase /\ toPoll' = toPoll /\ cur' = cur /\ meta' = meta
      /\ phase \in {"polling", "awaiting", "loaded"} /\ lock'[cur] = NoTask
  BY DEF RefreshDue, WorkerRaised, WorkerDone, RefreshEnds, loopVars, CurrentFacts, Rest
<1>2. Owner(t) \in Inst /\ t # NoTask
  BY TaskFacts
<1>3. cur \in Inst /\ cur \notin closed /\ cur \in listening /\ listening \subseteq {cur}
  BY <1>1, LifecycleAssumption
  DEF Busy, CurrentFacts, EntryFacts, TypeInv, EntryTypes, EntryInv, EntryShape, FreshFacts, ListenInv, Inst
<1>4. /\ lock \in [Inst -> Task \cup {NoTask}] /\ loopAt \in [Task -> {"none", "worker", "open"}]
      /\ store \in [Inst -> Seq(Jobs)] /\ done \in [Inst -> Seq(Completions)]
      /\ state \in [Inst -> {"idle", "importing", "ready", "failed"}]
  BY DEF CurrentFacts, EntryFacts, TypeInv, LockTypes, QueueTypes, ObjectTypes
<1>5. CASE Owner(t) # cur
  <2>1. UNCHANGED view /\ store'[cur] = store[cur]
    <3>1. Owner(t) \notin listening
      BY <1>3, <1>5
    <3>2. CASE \E s : Notify(Owner(t), s)
      BY <3>1, <3>2 DEF Notify
    <3>3. CASE UNCHANGED view /\ store' = store
      BY <3>3
    <3>4. CASE WorkerDone(t)
      BY <1>2, <1>3, <1>4, <1>5, <3>4 DEF WorkerDone
    <3> QED BY <3>2, <3>3, <3>4 DEF RefreshDue, StartRefresh, WorkerRaised, RefreshEnds
  <2>2. done'[cur] = done[cur] /\ state'[cur] = state[cur] /\ lock'[cur] = lock[cur]
    BY <1>2, <1>3, <1>4, <1>5 DEF RefreshDue, StartRefresh, WorkerRaised, WorkerDone, RefreshEnds, Leave
  <2>3. Rest /\ \A w \in Watch : Polled(w)' => Polled(w)
    BY <1>1, <2>2 DEF Rest, Polled
  <2> QED BY <1>1, <2>1, <2>2, <2>3, RestFrame DEF view, CurrentFacts
<1>6. CASE Owner(t) = cur
  <2>1. CASE RefreshDue(t)
    <3>1. lock'[cur] = t
      BY <1>1, <1>6, <2>1, StartReopensNothing DEF RefreshDue
    <3> QED BY <1>1, <1>2, <3>1
  <2>2. CASE WorkerRaised(t)
    BY <1>1, <1>3, <1>4, <1>6, <2>2, FailureSettles DEF WorkerRaised
  <2>3. CASE WorkerDone(t)
    <3>1. lock' = lock /\ loopAt[t] = "worker"
      BY <1>3, <1>6, <2>3 DEF WorkerDone, Accepts
    <3>2. lock[cur] = t
      BY <1>1, <1>3, <1>6, <3>1 DEF EntryFacts, LockDiscipline
    <3> QED BY <1>1, <1>2, <3>1, <3>2
  <2>4. CASE RefreshEnds(t)
    <3>1. done[cur] # <<>> /\ Head(done[cur]) = Opened(t) /\ state' = state
      BY <1>6, <2>4 DEF RefreshEnds
    <3>2. Head(done[cur]).kind = "opened" /\ Head(done[cur]).task = t
      BY <3>1 DEF Opened
    <3>3. loopAt[t] = "open"
      <4>1. Holds(t, cur)
        BY <1>1, <1>3, <3>1, <3>2, LastOpened
      <4> QED BY <1>2, <4>1 DEF Holds
    <3>4. Notify(cur, state[cur])
      BY <1>6, <2>4, <3>3 DEF RefreshEnds
    <3>5. state[cur] \in {"ready", "failed"}
      <4>1. done[cur] \in Seq(Completions)
        BY <1>3, <1>4
      <4>2. 1 \in DOMAIN done[cur] /\ Head(done[cur]) = done[cur][1]
        BY <3>1, <4>1, TailFacts
      <4>3. Reopened(cur)
        BY <1>2, <3>2, <4>2 DEF Reopened
      <4> QED BY <1>3, <4>3 DEF CurrentFacts, FreshFacts, FreshInv
    <3> QED BY <1>1, <1>3, <3>1, <3>4, <3>5, FailureSettles, ReadinessSettles
  <2> QED BY <2>1, <2>2, <2>3, <2>4
<1> QED BY <1>5, <1>6

(* What was asked and what was answered, as jobs come and go.              *)
LEMMA AskedPops ==
  ASSUME NEW i, NEW w, store[i] \in Seq(Jobs), store[i] # <<>>, store'[i] = Tail(store[i]), Asked(w, i)
  PROVE  Asked(w, i)' \/ (Head(store[i]).kind = "query" /\ Head(store[i]).watch = w)
<1>1. /\ 1 \in DOMAIN store[i] /\ Head(store[i]) = store[i][1] /\ Len(store[i]) \in Nat
      /\ DOMAIN store[i] = 1 .. Len(store[i]) /\ Len(Tail(store[i])) = Len(store[i]) - 1
      /\ Tail(store[i]) \in Seq(Jobs)
      /\ \A k \in DOMAIN Tail(store[i]) : k + 1 \in DOMAIN store[i] /\ Tail(store[i])[k] = store[i][k + 1]
  BY TailFacts
<1>2. PICK k \in DOMAIN store[i] : store[i][k].kind = "query" /\ store[i][k].watch = w
  BY DEF Asked
<1>3. CASE k # 1
  <2>1. DOMAIN Tail(store[i]) = 1 .. Len(store[i]) - 1
    BY <1>1
  <2>2. k - 1 \in DOMAIN Tail(store[i]) /\ k \in Int
    BY <1>1, <1>3, <2>1
  <2>3. Tail(store[i])[k - 1] = store[i][k]
    BY <1>1, <2>2
  <2> QED BY <1>2, <2>2, <2>3 DEF Asked
<1> QED BY <1>1, <1>2, <1>3

LEMMA AnsweredGrows ==
  ASSUME NEW i, NEW w, done[i] \in Seq(Completions), NEW c \in Completions, done'[i] = Append(done[i], c)
  PROVE  /\ Answered(w, i) => Answered(w, i)'
         /\ c.kind = "answer" /\ c.watch = w => Answered(w, i)'
<1>1. /\ DOMAIN done[i] = 1 .. Len(done[i]) /\ Len(done[i]) \in Nat
      /\ DOMAIN Append(done[i], c) = 1 .. Len(done[i]) + 1
      /\ \A k \in DOMAIN Append(done[i], c) :
           \/ k \in DOMAIN done[i] /\ Append(done[i], c)[k] = done[i][k]
           \/ k = Len(done[i]) + 1 /\ Append(done[i], c)[k] = c
  BY AppendFacts
<1>2. \A k \in DOMAIN done[i] : k \in DOMAIN done'[i] /\ done'[i][k] = done[i][k]
  BY <1>1
<1>3. Len(done[i]) + 1 \in DOMAIN done'[i] /\ done'[i][Len(done[i]) + 1] = c
  BY <1>1
<1> QED BY <1>2, <1>3 DEF Answered

(* The store threads answer what was asked, and open nothing.              *)
LEMMA StoresRest ==
  ASSUME CurrentFacts, NEW i \in Inst,
         StoreSkips(i) \/ StoreOpens(i) \/ StoreReady(i) \/ StoreOpenFails(i) \/ StoreQueries(i), Rest'
  PROVE  AllSettled'
<1>1. UNCHANGED <<phase, toPoll, cur, lock, shown, attrs>>
  BY DEF StoreSkips, StoreOpens, StoreReady, StoreOpenFails, StoreQueries, Completes, loopVars, taskVars, view
<1>2. Rest /\ \A w \in Watch : Polled(w)' => Polled(w)
  BY <1>1 DEF Rest, Polled
<1>3. /\ cur \in Inst /\ store[cur] \in Seq(Jobs) /\ done[cur] \in Seq(Completions)
      /\ \A k \in DOMAIN store[cur] : store[cur][k].kind \notin Opens
  BY <1>2, RestFacts
<1>4. /\ store \in [Inst -> Seq(Jobs)] /\ done \in [Inst -> Seq(Completions)] /\ EntryFacts /\ RestInv
      /\ state \in [Inst -> {"idle", "importing", "ready", "failed"}] /\ meta \in [Inst -> 0 .. MaxBuild]
  BY DEF CurrentFacts, EntryFacts, TypeInv, QueueTypes, ObjectTypes
<1>5. CASE i # cur
  <2>1. store'[cur] = store[cur] /\ done'[cur] = done[cur] /\ state'[cur] = state[cur] /\ meta'[cur] = meta[cur]
    BY <1>3, <1>4, <1>5
    DEF StoreSkips, StoreOpens, StoreReady, StoreOpenFails, StoreQueries, Completes
  <2> QED BY <1>1, <1>2, <1>4, <2>1, RestFrame
<1>6. CASE i = cur /\ (StoreSkips(i) \/ StoreQueries(i))
  <2>1. state' = state /\ meta' = meta
    BY <1>6 DEF StoreSkips, StoreQueries
  <2>2. store[cur] # <<>> /\ store'[cur] = Tail(store[cur])
    <3>1. CASE StoreSkips(cur)
      BY <1>3, <1>4, <3>1 DEF StoreSkips, Job
    <3>2. CASE StoreQueries(cur)
      BY <1>3, <1>4, <3>2, QueryAnswered
    <3> QED BY <1>6, <3>1, <3>2
  <2>3. ASSUME NEW w \in Watch
        PROVE  /\ Asked(w, cur) => Asked(w, cur)' \/ Answered(w, cur)'
               /\ Answered(w, cur) => Answered(w, cur)'
    <3>1. CASE StoreSkips(cur)
      <4>1. Head(store[cur]).kind = "cancelled" /\ done' = done
        BY <3>1 DEF StoreSkips, Job
      <4>2. Asked(w, cur) => Asked(w, cur)'
        BY <1>1, <1>3, <2>2, <4>1, AskedPops
      <4>3. Answered(w, cur) => Answered(w, cur)'
        BY <1>1, <4>1 DEF Answered
      <4> QED BY <4>2, <4>3
    <3>2. CASE StoreQueries(cur)
      <4>1. PICK c \in Completions :
              done'[cur] = Append(done[cur], c) /\ c.kind = "answer" /\ c.watch = Head(store[cur]).watch
        BY <1>3, <1>4, <3>2, QueryAnswered
      <4>2. /\ Answered(w, cur) => Answered(w, cur)'
            /\ c.watch = w => Answered(w, cur)'
        <5>1. /\ Answered(w, cur) => \E k \in DOMAIN done'[cur] : done'[cur][k].kind = "answer" /\ done'[cur][k].watch = w
              /\ c.watch = w => \E k \in DOMAIN done'[cur] : done'[cur][k].kind = "answer" /\ done'[cur][k].watch = w
          BY <1>1, <1>3, <4>1, AnsweredGrows DEF Answered
        <5> QED BY <1>1, <5>1 DEF Answered
      <4>3. Asked(w, cur) => Asked(w, cur)' \/ Head(store[cur]).watch = w
        BY <1>1, <1>3, <2>2, AskedPops
      <4> QED BY <4>1, <4>2, <4>3
    <3> QED BY <1>6, <3>1, <3>2
  <2>4. ASSUME NEW w \in Watch, Polled(w)' PROVE Settled(w)'
    <3>1. Settled(w)
      BY <1>2, <1>4, <2>4 DEF RestInv, AllSettled
    <3> QED BY <1>1, <2>1, <2>3, <3>1, SettledFrame
  <2> QED BY <1>1, <1>2, <1>4, <2>1, <2>4 DEF RestInv, AllSettled
<1>7. CASE i = cur /\ (StoreOpens(i) \/ StoreReady(i) \/ StoreOpenFails(i))
  <2>1. store[cur] # <<>> /\ Head(store[cur]).kind \in Opens
    BY <1>7 DEF StoreOpens, StoreReady, StoreOpenFails, Job, Opens
  <2>2. 1 \in DOMAIN store[cur] /\ Head(store[cur]) = store[cur][1]
    BY <1>3, <2>1, TailFacts
  <2> QED BY <1>3, <2>1, <2>2
<1> QED BY <1>5, <1>6, <1>7

(* One watch that polls is settled, and the others stay so.                *)
LEMMA PollSettles ==
  ASSUME CurrentFacts, Rest, NEW w \in Watch, NEW by \in {"setup", "timer", "notify"}, Poll(w, by),
         UNCHANGED <<cur, done, meta, state>>, phase' = "loaded" => phase = "loaded",
         NEW v \in Watch, v = w \/ Settled(v)
  PROVE  Settled(v)'
<1>1. /\ store \in [Inst -> Seq(Jobs)] /\ meta[cur] \in 0 .. MaxBuild /\ cur \in Inst
      /\ state[cur] \in {"ready", "failed"} /\ shown \in [Watch -> Data]
  <2>1. cur \in Inst /\ state[cur] \in {"ready", "failed"}
    BY RestFacts
  <2> QED BY <2>1 DEF CurrentFacts, EntryFacts, TypeInv, QueueTypes, ObjectTypes, ViewTypes
<1>2. CASE state[cur] = "ready"
  <2> DEFINE new == Query(w, by, meta[cur])
  <2>1. new \in Jobs /\ new.kind = "query" /\ new.watch = w
    BY <1>1, JobFacts DEF Query
  <2>2. store' = [store EXCEPT ![cur] = Append(store[cur], new)] /\ UNCHANGED view
    BY <1>2 DEF Poll, CanQuery
  <2> HIDE DEF new
  <2>3. store[cur] \in Seq(Jobs) /\ store'[cur] = Append(store[cur], new)
    BY <1>1, <2>2
  <2>4. /\ DOMAIN store[cur] = 1 .. Len(store[cur]) /\ Len(store[cur]) \in Nat
        /\ DOMAIN Append(store[cur], new) = 1 .. Len(store[cur]) + 1
        /\ \A k \in DOMAIN Append(store[cur], new) :
             \/ k \in DOMAIN store[cur] /\ Append(store[cur], new)[k] = store[cur][k]
             \/ k = Len(store[cur]) + 1 /\ Append(store[cur], new)[k] = new
    BY <2>1, <2>3, AppendFacts
  <2>5. \A k \in DOMAIN store[cur] : k \in DOMAIN store'[cur] /\ store'[cur][k] = store[cur][k]
    BY <2>3, <2>4
  <2>6. LET k == Len(store[cur]) + 1 IN k \in DOMAIN store'[cur] /\ store'[cur][k] = new
    BY <2>3, <2>4
  <2>7. Asked(w, cur)' /\ (Asked(v, cur) => Asked(v, cur)') /\ (Answered(v, cur) => Answered(v, cur)')
    BY <2>1, <2>5, <2>6 DEF Asked, Answered
  <2>8. CASE v = w
    BY <1>2, <2>7, <2>8 DEF Settled
  <2>9. CASE Settled(v)
    BY <2>2, <2>7, <2>9, SettledFrame DEF view
  <2> QED BY <2>8, <2>9
<1>3. CASE state[cur] = "failed"
  <2>1. shown' = [shown EXCEPT ![w] = Failed] /\ Writes({w}, meta[cur]) /\ store' = store
    BY <1>3 DEF Poll, CanQuery, Unready
  <2>2. CASE v = w
    <3>1. shown'[v] = Failed /\ Failed.kind # "rows"
      BY <1>1, <2>1, <2>2 DEF Failed
    <3> QED BY <3>1 DEF Settled, Current
  <2>3. CASE v # w
    <3>1. shown'[v] = shown[v] /\ (phase = "loaded" => attrs'[v] = attrs[v]) /\ (phase # "loaded" => attrs' = attrs)
      BY <1>1, <2>1, <2>3 DEF Writes
    <3>2. (Asked(v, cur) => Asked(v, cur)') /\ (Answered(v, cur) => Answered(v, cur)')
      BY <2>1 DEF Asked, Answered
    <3>3. attrs'[v] = attrs[v]
      BY <3>1
    <3> QED BY <2>3, <3>1, <3>2, <3>3, SettledFrame
  <2> QED BY <2>2, <2>3
<1> QED BY <1>1, <1>2, <1>3

(* So is one whose answer arrives.                                         *)
LEMMA PollEndsRest ==
  ASSUME CurrentFacts, NEW i \in Inst, PollEnds(i), Rest'
  PROVE  AllSettled'
<1>1. /\ UNCHANGED <<lock, store, meta, state, cur>>
      /\ \/ UNCHANGED <<phase, toPoll>>
         \/ phase = "awaiting" /\ phase' = "polling" /\ toPoll' = toPoll + 1
      /\ done[i] # <<>> /\ Head(done[i]).kind = "answer" /\ done' = [done EXCEPT ![i] = Tail(@)]
  BY DEF PollEnds, taskVars
<1>2. Rest
  BY <1>1 DEF Rest
<1>3. /\ cur \in Inst /\ done[cur] \in Seq(Completions) /\ EntryFacts /\ RestInv
      /\ done \in [Inst -> Seq(Completions)] /\ shown \in [Watch -> Data] /\ attrs \in [Watch -> 0 .. MaxBuild]
      /\ toPoll \in Nat /\ Watch \subseteq Nat
  <2>1. cur \in Inst /\ done[cur] \in Seq(Completions)
    BY <1>2, RestFacts
  <2> QED BY <2>1, LifecycleAssumption
       DEF CurrentFacts, EntryFacts, TypeInv, QueueTypes, ViewTypes, EntryTypes, Watch
<1>4. \A w \in Watch : Polled(w)' => Polled(w)
  <2> SUFFICES ASSUME NEW w \in Watch, Polled(w)' PROVE Polled(w)
    OBVIOUS
  <2>1. CASE UNCHANGED <<phase, toPoll>>
    BY <2>1 DEF Polled
  <2>2. CASE phase = "awaiting" /\ phase' = "polling" /\ toPoll' = toPoll + 1
    <3>1. w < toPoll + 1 /\ w \in Nat
      BY <1>3, <2>2 DEF Polled
    <3> QED BY <1>3, <2>2, <3>1 DEF Polled
  <2> QED BY <1>1, <2>1, <2>2
<1>5. phase' = "loaded" => phase = "loaded"
  BY <1>1
<1>6. CASE i # cur
  <2>1. UNCHANGED view /\ done'[cur] = done[cur]
    BY <1>1, <1>3, <1>6 DEF PollEnds
  <2> QED BY <1>1, <1>2, <1>3, <1>4, <1>5, <2>1, RestFrame DEF view
<1>7. CASE i = cur
  <2> DEFINE a == Head(done[cur])
  <2>1. /\ done[cur] # <<>> /\ a.kind = "answer" /\ done'[cur] = Tail(done[cur])
        /\ shown' = [shown EXCEPT ![a.watch] = a.data] /\ Writes({a.watch}, meta[cur])
    BY <1>1, <1>3, <1>7 DEF PollEnds
  <2>2. /\ 1 \in DOMAIN done[cur] /\ a = done[cur][1] /\ Len(done[cur]) \in Nat
        /\ DOMAIN done[cur] = 1 .. Len(done[cur]) /\ Len(Tail(done[cur])) = Len(done[cur]) - 1
        /\ Tail(done[cur]) \in Seq(Completions)
        /\ \A k \in DOMAIN Tail(done[cur]) : k + 1 \in DOMAIN done[cur] /\ Tail(done[cur])[k] = done[cur][k + 1]
    BY <1>3, <2>1, TailFacts
  <2>3. a.data = Failed \/ (a.data.kind = "rows" /\ a.data.build = meta[cur])
    BY <1>2, <2>1, ArrivesCurrent
  <2> HIDE DEF a
  <2>4. ASSUME NEW w \in Watch, Polled(w)' PROVE Settled(w)'
    <3>1. Settled(w)
      BY <1>2, <1>3, <1>4, <2>4 DEF RestInv, AllSettled
    <3>2. CASE w = a.watch
      <4>1. shown'[w] = a.data /\ (phase = "loaded" => attrs'[w] = meta[cur])
        BY <1>3, <2>1, <3>2 DEF Writes
      <4>2. Failed.kind # "rows"
        BY DEF Failed
      <4> QED BY <1>1, <1>5, <2>3, <4>1, <4>2 DEF Settled, Current
    <3>3. CASE w # a.watch
      <4>1. shown'[w] = shown[w] /\ attrs'[w] = attrs[w]
        BY <1>3, <2>1, <3>3 DEF Writes
      <4>2. Asked(w, cur) => Asked(w, cur)'
        BY <1>1 DEF Asked
      <4>3. ASSUME Answered(w, cur) PROVE Answered(w, cur)'
        <5>1. PICK k \in DOMAIN done[cur] : done[cur][k].kind = "answer" /\ done[cur][k].watch = w
          BY <4>3 DEF Answered
        <5>2. k # 1
          BY <2>2, <3>3, <5>1
        <5>3. DOMAIN Tail(done[cur]) = 1 .. Len(done[cur]) - 1
          BY <2>2
        <5>4. k - 1 \in DOMAIN Tail(done[cur]) /\ k \in Int
          BY <2>2, <5>2, <5>3
        <5>5. Tail(done[cur])[k - 1] = done[cur][k]
          BY <2>2, <5>4
        <5> QED BY <1>1, <2>1, <5>1, <5>4, <5>5 DEF Answered
      <4> QED BY <1>1, <1>5, <3>1, <4>1, <4>2, <4>3, SettledFrame
    <3> QED BY <3>2, <3>3
  <2> QED BY <1>1, <1>2, <1>3, <2>4 DEF RestInv, AllSettled
<1> QED BY <1>6, <1>7

(* The timers of the watches and the polls of the set-up.                  *)
LEMMA PollsRest ==
  ASSUME CurrentFacts, (\E w \in Watch : TimerPoll(w)) \/ SetupPolls, Rest'
  PROVE  AllSettled'
<1>1. UNCHANGED <<cur, done, meta, state, lock>>
  BY DEF TimerPoll, SetupPolls, loopVars, taskVars
<1>2. Rest /\ (phase' = "loaded" => phase = "loaded")
  BY <1>1 DEF TimerPoll, SetupPolls, loopVars, Rest
<1>3. RestInv /\ state'[cur] \in {"ready", "failed"}
  BY <1>1, <1>2, RestFacts DEF CurrentFacts
<1>4. CASE \E w \in Watch : TimerPoll(w)
  <2>1. PICK w \in Watch : TimerPoll(w)
    BY <1>4
  <2>2. \A v \in Watch : Settled(v)
    BY <1>2, <1>3, <2>1 DEF TimerPoll, RestInv, AllSettled, Polled
  <2>3. Poll(w, "timer")
    BY <2>1 DEF TimerPoll
  <2>4. \A v \in Watch : Settled(v)'
    BY <1>1, <1>2, <2>2, <2>3, PollSettles
  <2> QED BY <1>1, <1>3, <2>4 DEF AllSettled
<1>5. CASE SetupPolls
  <2>1. toPoll \in Watch /\ Poll(toPoll, "setup") /\ Watch \subseteq Nat
    BY <1>5, LifecycleAssumption
    DEF SetupPolls, CurrentFacts, EntryFacts, TypeInv, EntryTypes, EntryInv, Watch
  <2>2. PICK w \in Watch : w = toPoll
    BY <2>1
  <2>3. ASSUME NEW v \in Watch, Polled(v)' PROVE v = w \/ Settled(v)
    <3>1. /\ phase = "polling"
          /\ \/ phase' = "awaiting" /\ toPoll' = toPoll
             \/ phase' = "polling" /\ toPoll' = toPoll + 1
      BY <1>5 DEF SetupPolls
    <3>2. v \in Nat /\ toPoll \in Nat
      BY <2>1
    <3>3. v <= toPoll
      BY <2>3, <3>1, <3>2 DEF Polled
    <3>4. v = w \/ Polled(v)
      BY <2>2, <3>1, <3>2, <3>3 DEF Polled
    <3> QED BY <1>2, <1>3, <3>4 DEF RestInv, AllSettled
  <2>4. Poll(w, "setup")
    BY <2>1, <2>2
  <2>5. ASSUME NEW v \in Watch, Polled(v)' PROVE Settled(v)'
    BY <1>1, <1>2, <2>3, <2>4, <2>5, PollSettles
  <2> QED BY <1>1, <1>3, <2>5 DEF AllSettled
<1> QED BY <1>4, <1>5

(* The rest of the set-up.                                                 *)
LEMMA SetupRest ==
  ASSUME CurrentFacts, SetupOpened \/ SetupEnds, Rest'
  PROVE  AllSettled'
<1>1. CASE SetupOpened
  <2>1. cur' = cur /\ phase' = "polling" /\ toPoll' = 1 /\ lock'[cur] = NoTask
    BY <1>1 DEF SetupOpened, Rest
  <2>2. CASE \E t \in Task : Owner(t) = cur /\ StartRefresh(t)
    <3>1. PICK t \in Task : Owner(t) = cur /\ StartRefresh(t)
      BY <2>2
    <3>2. lock'[cur] = t /\ t # NoTask
      BY <3>1, StartReopensNothing, TaskFacts DEF CurrentFacts
    <3> QED BY <2>1, <3>2
  <2>3. CASE state[cur] = "ready" /\ state' = state
    <3>1. \A w \in Watch : ~Polled(w)'
      BY <2>1 DEF Polled, Watch
    <3> QED BY <2>1, <2>3, <3>1 DEF AllSettled
  <2> QED BY <1>1, <2>2, <2>3 DEF SetupOpened
<1>2. CASE SetupEnds
  <2>1. /\ UNCHANGED <<cur, state, meta, store, done, shown, lock>> /\ attrs' = [w \in Watch |-> meta[cur]]
        /\ phase = "polling" /\ toPoll > NWatch
    BY <1>2 DEF SetupEnds, taskVars, storeVars
  <2>2. Rest
    BY <2>1 DEF Rest
  <2>3. \A w \in Watch : Polled(w)
    <3>1. toPoll \in Nat
      BY LifecycleAssumption DEF CurrentFacts, EntryFacts, TypeInv, EntryTypes
    <3> QED BY <2>1, <3>1, LifecycleAssumption DEF Polled, Watch
  <2> QED BY <2>1, <2>2, <2>3, RestFrame DEF CurrentFacts
<1> QED BY <1>1, <1>2

LEMMA RestKept == CurrentFacts /\ [Next]_vars => RestInv'
<1> SUFFICES ASSUME CurrentFacts, [Next]_vars, Rest' PROVE AllSettled'
  BY DEF RestInv
<1>1. CASE \E t \in Task : RefreshDue(t) \/ WorkerRaised(t) \/ WorkerDone(t) \/ RefreshEnds(t)
  BY <1>1, TasksRest
<1>2. CASE \E i \in Inst : StoreSkips(i) \/ StoreOpens(i) \/ StoreReady(i) \/ StoreOpenFails(i) \/ StoreQueries(i)
  BY <1>2, StoresRest
<1>3. CASE \E i \in Inst : PollEnds(i)
  BY <1>3, PollEndsRest
<1>4. CASE (\E w \in Watch : TimerPoll(w)) \/ SetupPolls
  BY <1>4, PollsRest
<1>5. CASE SetupOpened \/ SetupEnds
  BY <1>5, SetupRest
<1>6. CASE (\E t \in Task : ThreadStarts(t) \/ Publishes(t) \/ Raises(t)) \/ UNCHANGED vars
  <2>1. UNCHANGED <<phase, toPoll, cur, lock, state, meta, store, done, shown, attrs>>
    BY <1>6 DEF ThreadStarts, Publishes, Raises, ThreadEnds, loopVars, storeVars, view, vars
  <2>2. Rest /\ \A w \in Watch : Polled(w)' => Polled(w)
    BY <2>1 DEF Rest, Polled
  <2> QED BY <2>1, <2>2, RestFrame DEF CurrentFacts
<1>7. CASE SetupBegins \/ UnloadBegins \/ Unloads \/ UnloadRefused \/ RemoveBegins \/ RemovesTree
  BY <1>7 DEF SetupBegins, UnloadBegins, Unloads, UnloadRefused, RemoveBegins, RemovesTree, Rest
<1> QED BY <1>1, <1>2, <1>3, <1>4, <1>5, <1>6, <1>7 DEF Next, Loop, Threads

LEMMA CurrentInvariance == Spec => [](CurrentFacts /\ RowsInv)
<1>1. Init => FreshFacts /\ RestInv
  <2> SUFFICES ASSUME Init PROVE FreshFacts /\ RestInv
    OBVIOUS
  <2>1. ASSUME NEW i \in Inst PROVE FreshInv(i)
    <3>1. state[i] = "idle" /\ DOMAIN store[i] = {} /\ DOMAIN done[i] = {}
      BY <2>1 DEF Init
    <3> QED BY <3>1 DEF FreshInv, Opening, Reopened
  <2> QED BY <2>1 DEF Init, FreshFacts, ListenInv, RestInv, Rest, Busy
<1>2. CurrentFacts <=> EntryFacts /\ FreshFacts /\ RestInv
  BY DEF CurrentFacts
<1> QED BY <1>1, <1>2, RowsInvariance, FreshKept, RestKept, PTL DEF Spec

-----------------------------------------------------------------------------
(* When nothing is under way every watch has an answer, of what is open    *)
(* if it is rows: no sequence of reloads, refreshes and polls leaves one   *)
(* behind until its own timer.                                             *)
THEOREM QuietShowsWhatIsOpen == Spec => []QuietIsCurrent
<1>1. ASSUME CurrentFacts, RowsInv, Quiet, NEW w \in Watch
      PROVE  /\ shown[w] \notin {None, Extracting}
             /\ state[cur] = "ready" => shown[w] \in {Failed, Rows(conn[cur], conn[cur])}
  <2>1. Rest /\ Polled(w) /\ DOMAIN store[cur] = {} /\ DOMAIN done[cur] = {}
    BY <1>1 DEF Quiet, Rest, Polled
  <2>2. Current(w)
    BY <1>1, <2>1 DEF CurrentFacts, RestInv, AllSettled, Settled, Asked, Answered
  <2>3. shown[w] \notin {None, Extracting}
    BY <2>2 DEF Current, None, Extracting, Failed
  <2>4. shown[w] \in Data /\ cur \in Inst
    BY <1>1, <2>1, RestFacts DEF CurrentFacts, EntryFacts, TypeInv, ViewTypes
  <2>5. ASSUME state[cur] = "ready", shown[w] # Failed PROVE shown[w] = Rows(conn[cur], conn[cur])
    <3>1. conn[cur] = meta[cur]
      BY <1>1, <2>4, <2>5 DEF CurrentFacts, FreshFacts, FreshInv
    <3>2. shown[w].kind = "rows" /\ shown[w].build = meta[cur] /\ shown[w].window = meta[cur]
      BY <1>1, <2>2, <2>5 DEF Current, RowsInv, ShownInv
    <3>3. PICK b \in 1 .. MaxBuild, m \in 0 .. MaxBuild : shown[w] = Rows(b, m)
      BY <2>3, <2>4, <2>5 DEF Data
    <3> QED BY <3>1, <3>2, <3>3 DEF Rows
  <2> QED BY <2>3, <2>5
<1>2. CurrentFacts /\ RowsInv => QuietIsCurrent
  BY <1>1 DEF QuietIsCurrent
<1> QED BY <1>2, CurrentInvariance, PTL

(* Nor does the disagreement of a sensor's attributes with its rows, which *)
(* a reopen can cause, outlive the poll that follows it.                   *)
THEOREM AttributesCatchUp == Spec => []AttributesSettle
<1>1. ASSUME CurrentFacts, Quiet, NEW w \in Watch, shown[w].kind = "rows"
      PROVE  attrs[w] = shown[w].build
  <2>1. Rest /\ Polled(w) /\ DOMAIN store[cur] = {} /\ DOMAIN done[cur] = {} /\ phase = "loaded"
    BY <1>1 DEF Quiet, Rest, Polled
  <2>2. Current(w)
    BY <1>1, <2>1 DEF CurrentFacts, RestInv, AllSettled, Settled, Asked, Answered
  <2> QED BY <1>1, <2>1, <2>2 DEF Current, Failed
<1>2. CurrentFacts => AttributesSettle
  BY <1>1 DEF AttributesSettle
<1> QED BY <1>2, CurrentInvariance, PTL
=============================================================================
