----------------------- MODULE LifecyclePromiseProofs -----------------------
(***************************************************************************)
(* That nobody waits for what will not come (NoWaitIsLost), and that the   *)
(* sensors of an entry keep the promise of Board, for any number of        *)
(* reloads, watches, indexes and refreshes in flight.                      *)
(***************************************************************************)
EXTENDS LifecycleCurrentProofs

-----------------------------------------------------------------------------
(* What is in a queue, whatever its place                                  *)

Members(q) == {q[k] : k \in DOMAIN q}

LEMMA MembersOfTail ==
  ASSUME NEW S, NEW s \in Seq(S), s # <<>>
  PROVE  /\ Head(s) \in Members(s) /\ Head(s) \in S
         /\ \A x \in Members(s) : x = Head(s) \/ x \in Members(Tail(s))
<1>1. /\ DOMAIN s = 1 .. Len(s) /\ Len(s) \in Nat /\ 1 \in DOMAIN s /\ Head(s) = s[1] /\ Head(s) \in S
      /\ Tail(s) \in Seq(S) /\ Len(Tail(s)) = Len(s) - 1
      /\ \A k \in DOMAIN Tail(s) : Tail(s)[k] = s[k + 1]
  BY TailFacts
<1>2. DOMAIN Tail(s) = 1 .. Len(s) - 1
  BY <1>1
<1>3. ASSUME NEW k \in DOMAIN s, k # 1 PROVE k - 1 \in DOMAIN Tail(s) /\ Tail(s)[k - 1] = s[k]
  <2>1. k - 1 \in DOMAIN Tail(s) /\ (k - 1) + 1 = k
    BY <1>1, <1>2, <1>3
  <2> QED BY <1>1, <2>1
<1>4. ASSUME NEW x \in Members(s), x # Head(s) PROVE x \in Members(Tail(s))
  <2>1. PICK k \in DOMAIN s : x = s[k]
    BY <1>4 DEF Members
  <2>2. k - 1 \in DOMAIN Tail(s) /\ Tail(s)[k - 1] = x
    BY <1>1, <1>3, <1>4, <2>1
  <2> QED BY <2>2 DEF Members
<1> QED BY <1>1, <1>4 DEF Members

LEMMA MembersOfAppend ==
  ASSUME NEW S, NEW s \in Seq(S), NEW x \in S
  PROVE  x \in Members(Append(s, x)) /\ Members(s) \subseteq Members(Append(s, x))
<1>1. /\ DOMAIN s = 1 .. Len(s) /\ Len(s) \in Nat /\ DOMAIN Append(s, x) = 1 .. Len(s) + 1
      /\ \A k \in DOMAIN Append(s, x) :
           \/ k \in DOMAIN s /\ Append(s, x)[k] = s[k]
           \/ k = Len(s) + 1 /\ Append(s, x)[k] = x
  BY AppendFacts
<1>2. \A k \in DOMAIN s : k \in DOMAIN Append(s, x) /\ Append(s, x)[k] = s[k]
  BY <1>1
<1>3. Len(s) + 1 \in DOMAIN Append(s, x) /\ Append(s, x)[Len(s) + 1] = x
  BY <1>1
<1> QED BY <1>2, <1>3 DEF Members

LEMMA MembersOfConcat ==
  ASSUME NEW S, NEW s \in Seq(S), NEW u \in Seq(S)
  PROVE  Members(s) \subseteq Members(s \o u)
<1>1. \A k \in DOMAIN s : k \in DOMAIN (s \o u) /\ (s \o u)[k] = s[k]
  OBVIOUS
<1> QED BY <1>1 DEF Members

-----------------------------------------------------------------------------
(* Jobs and completions that are awaited                                   *)

(* Who waits for an open of object i: set-up, or a refresh.                *)
Awaits(t, i) ==
  IF t = NoTask THEN phase = "opening" /\ i = cur ELSE loopAt[t] = "open" /\ i = Owner(t)

WaitInv ==
  /\ \A i \in Inst, t \in Tasks : Awaits(t, i) => OpenComing(i, t)
  /\ phase = "awaiting" => FirstPollComing(cur)

LEMMA ComingMembers ==
  ASSUME NEW i, NEW t
  PROVE  /\ OpenComing(i, t) <=> \/ \E j \in Members(store[i]) : j.kind \in Opens /\ j.task = t
                                 \/ Opened(t) \in Members(done[i])
         /\ FirstPollComing(i) <=> \/ \E j \in Members(store[i]) : j.kind = "query" /\ j.by = "setup"
                                   \/ \E c \in Members(done[i]) : c.kind = "answer" /\ c.by = "setup"
  BY DEF OpenComing, FirstPollComing, Members, Opens

(* A step that loses nothing anyone waits for, and starts no wait without  *)
(* what it is for.                                                         *)
LEMMA WaitFrame ==
  ASSUME WaitInv,
         \A i \in Inst : Members(store[i]) \subseteq Members(store'[i]),
         \A i \in Inst : \A c \in Members(done[i]) :
           \/ c \in Members(done'[i])
           \/ /\ \A t \in Tasks : c = Opened(t) => ~Awaits(t, i)'
              /\ c.kind = "answer" /\ c.by = "setup" => phase' # "awaiting",
         \A i \in Inst, t \in Tasks : Awaits(t, i)' => Awaits(t, i) \/ OpenComing(i, t)',
         phase' = "awaiting" => \/ phase = "awaiting" /\ cur' = cur /\ cur \in Inst
                                \/ FirstPollComing(cur)'
  PROVE  WaitInv'
<1>1. ASSUME NEW i \in Inst, NEW t \in Tasks, Awaits(t, i)', Awaits(t, i)
      PROVE  OpenComing(i, t)'
  <2>1. \/ \E j \in Members(store[i]) : j.kind \in Opens /\ j.task = t
        \/ Opened(t) \in Members(done[i])
    BY <1>1, ComingMembers DEF WaitInv
  <2>2. \/ \E j \in Members(store'[i]) : j.kind \in Opens /\ j.task = t
        \/ Opened(t) \in Members(done'[i])
    BY <1>1, <2>1
  <2> QED BY <2>2 DEF OpenComing, Members, Opens
<1>2. ASSUME phase' = "awaiting", phase = "awaiting", cur' = cur, cur \in Inst
      PROVE  FirstPollComing(cur)'
  <2>1. \/ \E j \in Members(store[cur]) : j.kind = "query" /\ j.by = "setup"
        \/ \E c \in Members(done[cur]) : c.kind = "answer" /\ c.by = "setup"
    BY <1>2, ComingMembers DEF WaitInv
  <2>2. \/ \E j \in Members(store'[cur]) : j.kind = "query" /\ j.by = "setup"
        \/ \E c \in Members(done'[cur]) : c.kind = "answer" /\ c.by = "setup"
    BY <1>2, <2>1
  <2> QED BY <1>2, <2>2 DEF FirstPollComing, Members
<1> QED BY <1>1, <1>2 DEF WaitInv

(* Polls only add to the queues.                                           *)
LEMMA NotifyGrows ==
  ASSUME EntryFacts, NEW i \in Inst, NEW s, Notify(i, s), NEW x \in Inst
  PROVE  Members(store[x]) \subseteq Members(store'[x])
<1>1. store \in [Inst -> Seq(Jobs)] /\ meta[i] \in 0 .. MaxBuild
  BY DEF EntryFacts, TypeInv, QueueTypes, ObjectTypes
<1>2. CASE i \in listening /\ CanQuery(s)
  <2> DEFINE new == [w \in Watch |-> Query(w, "notify", meta[i])]
  <2>1. new \in Seq(Jobs)
    <3>1. \A w \in Watch : Query(w, "notify", meta[i]) \in Jobs
      BY <1>1, JobFacts
    <3> QED BY <3>1, LifecycleAssumption DEF Watch
  <2>2. store' = [store EXCEPT ![i] = store[i] \o new]
    BY <1>1, <1>2 DEF Notify
  <2> HIDE DEF new
  <2>3. Members(store[i]) \subseteq Members(store[i] \o new)
    BY <1>1, <2>1, MembersOfConcat
  <2> QED BY <1>1, <2>2, <2>3
<1>3. CASE ~(i \in listening /\ CanQuery(s))
  BY <1>3 DEF Notify, view
<1> QED BY <1>2, <1>3

LEMMA PollGrows ==
  ASSUME EntryFacts, cur \in Inst, NEW w \in Watch, NEW by \in {"setup", "timer", "notify"}, Poll(w, by)
  PROVE  /\ \A x \in Inst : Members(store[x]) \subseteq Members(store'[x])
         /\ CanQuery(state[cur]) => Query(w, by, meta[cur]) \in Members(store'[cur])
<1>1. store \in [Inst -> Seq(Jobs)] /\ meta[cur] \in 0 .. MaxBuild
  BY DEF EntryFacts, TypeInv, QueueTypes, ObjectTypes
<1>2. CASE CanQuery(state[cur])
  <2> DEFINE new == Query(w, by, meta[cur])
  <2>1. new \in Jobs
    BY <1>1, JobFacts
  <2>2. store' = [store EXCEPT ![cur] = Append(store[cur], new)]
    BY <1>2 DEF Poll
  <2> HIDE DEF new
  <2>3. new \in Members(Append(store[cur], new)) /\ Members(store[cur]) \subseteq Members(Append(store[cur], new))
    BY <1>1, <2>1, MembersOfAppend
  <2>4. store'[cur] = Append(store[cur], new) /\ \A x \in Inst : x # cur => store'[x] = store[x]
    BY <1>1, <2>2
  <2> QED BY <2>3, <2>4 DEF new
<1>3. CASE ~CanQuery(state[cur])
  BY <1>3 DEF Poll
<1> QED BY <1>2, <1>3

(* What becomes of the job the store thread takes up.                      *)
LEMMA StoreMoves ==
  ASSUME EntryFacts, NEW i \in Inst,
         StoreSkips(i) \/ StoreOpens(i) \/ StoreReady(i) \/ StoreOpenFails(i) \/ StoreQueries(i)
  PROVE  /\ \A x \in Inst : x # i => store'[x] = store[x] /\ done'[x] = done[x]
         /\ Members(done[i]) \subseteq Members(done'[i])
         /\ \A j \in Members(store[i]) :
              \/ j \in Members(store'[i])
              \/ j.kind = "cancelled"
              \/ /\ j.kind \in Opens
                 /\ \/ \E k \in Members(store'[i]) : k.kind = "opening" /\ k.task = j.task
                    \/ Opened(j.task) \in Members(done'[i])
              \/ /\ j.kind = "query"
                 /\ \E c \in Members(done'[i]) : c.kind = "answer" /\ c.by = j.by
<1> DEFINE head == Head(store[i])
<1>1. /\ store \in [Inst -> Seq(Jobs)] /\ done \in [Inst -> Seq(Completions)]
      /\ store[i] \in Seq(Jobs) /\ done[i] \in Seq(Completions) /\ store[i] # <<>>
  BY DEF EntryFacts, TypeInv, QueueTypes, StoreSkips, StoreOpens, StoreReady, StoreOpenFails, StoreQueries, Job
<1>2. \A x \in Inst : x # i => store'[x] = store[x] /\ done'[x] = done[x]
  BY <1>1 DEF StoreSkips, StoreOpens, StoreReady, StoreOpenFails, StoreQueries, Completes
<1>3. head \in Jobs /\ \A j \in Members(store[i]) : j = head \/ j \in Members(Tail(store[i]))
  BY <1>1, MembersOfTail
<1>4. CASE StoreSkips(i)
  <2>1. store'[i] = Tail(store[i]) /\ done' = done /\ head.kind = "cancelled"
    BY <1>1, <1>4 DEF StoreSkips, Job
  <2> QED BY <1>2, <1>3, <2>1
<1>5. CASE StoreOpens(i)
  <2> DEFINE new == [head EXCEPT !.kind = "opening"]
  <2>1. head.kind = "open" /\ done' = done /\ store'[i] = <<new>> \o Tail(store[i])
    BY <1>1, <1>5 DEF StoreOpens, Job
  <2>2. Tail(store[i]) = <<>> /\ head.kind \in Opens
    BY <1>1, <2>1, OpenHead DEF Opens
  <2>3. new \in Jobs /\ new.kind = "opening" /\ new.task = head.task
    <3>1. new \in Jobs
      BY <1>3, <2>1, JobFacts
    <3>2. head \in [kind : {"open", "opening", "cancelled"}, task : Tasks]
      BY <1>3, <2>1 DEF Jobs, Query, Tasks
    <3> QED BY <3>1, <3>2
  <2> HIDE DEF new
  <2>4. new \in Members(<<new>> \o Tail(store[i]))
    <3>1. <<new>> \in Seq(Jobs) /\ Tail(store[i]) \in Seq(Jobs) /\ <<new>>[1] = new /\ 1 \in DOMAIN <<new>>
      BY <1>1, <2>3
    <3>2. new \in Members(<<new>>)
      BY <3>1 DEF Members
    <3> QED BY <3>1, <3>2, MembersOfConcat
  <2>5. ASSUME NEW j \in Members(Tail(store[i])) PROVE FALSE
    <3>1. DOMAIN Tail(store[i]) = {}
      BY <2>2
    <3> QED BY <3>1, <2>5 DEF Members
  <2> QED BY <1>2, <1>3, <2>1, <2>2, <2>3, <2>4, <2>5
<1>6. CASE StoreReady(i) \/ StoreOpenFails(i)
  <2> DEFINE c == Opened(head.task)
  <2>1. head.kind \in Opens /\ store'[i] = Tail(store[i]) /\ done'[i] = Append(done[i], c)
    BY <1>1, <1>6 DEF StoreReady, StoreOpenFails, Completes, Job, Opens
  <2>2. c \in Completions
    <3>1. head.task \in Tasks
      BY <1>1, <2>1, OpenHead
    <3> QED BY <3>1, JobFacts
  <2> HIDE DEF c
  <2>3. c \in Members(done'[i]) /\ Members(done[i]) \subseteq Members(done'[i])
    BY <1>1, <2>1, <2>2, MembersOfAppend
  <2> QED BY <1>2, <1>3, <2>1, <2>3 DEF c
<1>7. CASE StoreQueries(i)
  <2>1. /\ head.kind = "query" /\ store'[i] = Tail(store[i])
        /\ \E c \in Completions : done'[i] = Append(done[i], c)
    BY <1>7, QueryAnswered
  <2>2. PICK c \in Completions : done'[i] = Append(done[i], c)
    BY <2>1
  <2>3. c \in Members(done'[i]) /\ Members(done[i]) \subseteq Members(done'[i])
    BY <1>1, <2>2, MembersOfAppend
  <2>4. PICK d \in {Rows(conn[i], head.window), Failed} : done'[i] = Append(done[i], Answer(head, d))
    BY <1>1, <1>7 DEF StoreQueries, Completes
  <2>5. c = Answer(head, d)
    <3>1. /\ Len(done[i]) + 1 \in 1 .. Len(done[i]) + 1
          /\ Append(done[i], c)[Len(done[i]) + 1] = c
          /\ Append(done[i], Answer(head, d))[Len(done[i]) + 1] = Answer(head, d)
      BY <1>1
    <3> QED BY <2>2, <2>4, <3>1
  <2>6. c.kind = "answer" /\ c.by = head.by
    BY <2>5 DEF Answer
  <2> QED BY <1>2, <1>3, <2>1, <2>3, <2>6
<1> QED BY <1>4, <1>5, <1>6, <1>7

LEMMA StoresWait ==
  ASSUME EntryFacts, WaitInv, NEW i \in Inst,
         StoreSkips(i) \/ StoreOpens(i) \/ StoreReady(i) \/ StoreOpenFails(i) \/ StoreQueries(i)
  PROVE  WaitInv'
<1>1. UNCHANGED <<loopAt, phase, cur>>
  BY DEF StoreSkips, StoreOpens, StoreReady, StoreOpenFails, StoreQueries, Completes, loopVars, taskVars
<1>2. /\ \A x \in Inst : x # i => store'[x] = store[x] /\ done'[x] = done[x]
      /\ Members(done[i]) \subseteq Members(done'[i])
      /\ \A j \in Members(store[i]) :
           \/ j \in Members(store'[i])
           \/ j.kind = "cancelled"
           \/ /\ j.kind \in Opens
              /\ \/ \E k \in Members(store'[i]) : k.kind = "opening" /\ k.task = j.task
                 \/ Opened(j.task) \in Members(done'[i])
           \/ /\ j.kind = "query"
              /\ \E c \in Members(done'[i]) : c.kind = "answer" /\ c.by = j.by
  BY StoreMoves
<1>3. ASSUME NEW x \in Inst, NEW t \in Tasks, Awaits(t, x)' PROVE OpenComing(x, t)'
  <2>1. Awaits(t, x)
    BY <1>1, <1>3 DEF Awaits
  <2>2. \/ \E j \in Members(store[x]) : j.kind \in Opens /\ j.task = t
        \/ Opened(t) \in Members(done[x])
    BY <2>1, ComingMembers DEF WaitInv
  <2>3. \/ \E j \in Members(store'[x]) : j.kind \in Opens /\ j.task = t
        \/ Opened(t) \in Members(done'[x])
    BY <1>2, <2>2 DEF Opens
  <2> QED BY <2>3 DEF OpenComing, Members, Opens
<1>4. ASSUME phase' = "awaiting" PROVE FirstPollComing(cur)'
  <2>1. cur \in Inst
    BY <1>1, <1>4, LifecycleAssumption DEF EntryFacts, TypeInv, EntryTypes, EntryInv, Busy, Inst
  <2>2. \/ \E j \in Members(store[cur]) : j.kind = "query" /\ j.by = "setup"
        \/ \E c \in Members(done[cur]) : c.kind = "answer" /\ c.by = "setup"
    BY <1>1, <1>4, ComingMembers DEF WaitInv
  <2>3. \/ \E j \in Members(store'[cur]) : j.kind = "query" /\ j.by = "setup"
        \/ \E c \in Members(done'[cur]) : c.kind = "answer" /\ c.by = "setup"
    BY <1>2, <2>1, <2>2 DEF Opens
  <2> QED BY <1>1, <2>3 DEF FirstPollComing, Members
<1> QED BY <1>3, <1>4 DEF WaitInv

(* One completion is taken from the queue, and whoever waited for it waits *)
(* no more.                                                                *)
LEMMA TakenFromDone ==
  ASSUME EntryFacts, NEW i \in Inst, done[i] # <<>>, done' = [done EXCEPT ![i] = Tail(@)],
         NEW x \in Inst, NEW c \in Members(done[x])
  PROVE  c \in Members(done'[x]) \/ (x = i /\ c = Head(done[i]))
<1>1. done \in [Inst -> Seq(Completions)] /\ done[i] \in Seq(Completions)
  BY DEF EntryFacts, TypeInv, QueueTypes
<1>2. \A y \in Members(done[i]) : y = Head(done[i]) \/ y \in Members(Tail(done[i]))
  BY <1>1, MembersOfTail
<1> QED BY <1>1, <1>2

LEMMA OpenedFacts == \A t, u : /\ Opened(t) = Opened(u) => t = u
                               /\ Opened(t).kind = "opened"
<1> SUFFICES ASSUME NEW t, NEW u
             PROVE  (Opened(t) = Opened(u) => t = u) /\ Opened(t).kind = "opened"
  OBVIOUS
<1>1. Opened(t).task = t /\ Opened(u).task = u /\ Opened(t).kind = "opened"
  BY DEF Opened
<1> QED BY <1>1

(* The steps of refreshes.                                                 *)
LEMMA RefreshesWait ==
  ASSUME EntryFacts, WaitInv, NEW t \in Task,
         RefreshDue(t) \/ WorkerRaised(t) \/ WorkerDone(t) \/ RefreshEnds(t)
  PROVE  WaitInv'
<1>1. Owner(t) \in Inst /\ t \in Tasks /\ t # NoTask
  BY TaskFacts DEF Tasks
<1>2. UNCHANGED <<phase, cur>> /\ (phase = "awaiting" => cur \in Inst)
  BY LifecycleAssumption
  DEF RefreshDue, WorkerRaised, WorkerDone, RefreshEnds, loopVars, EntryFacts, TypeInv, EntryTypes, EntryInv, Busy, Inst
<1>3. /\ loopAt \in [Task -> {"none", "worker", "open"}]
      /\ store \in [Inst -> Seq(Jobs)]
  BY DEF EntryFacts, TypeInv, LockTypes, QueueTypes
<1>4. CASE RefreshDue(t) \/ WorkerRaised(t)
  <2>1. store' = store /\ done' = done
    BY <1>4, StartReopensNothing DEF RefreshDue, WorkerRaised, Notify, CanQuery, view
  <2>2. \A u \in Task : loopAt'[u] = "open" => loopAt[u] = "open"
    BY <1>3, <1>4 DEF RefreshDue, StartRefresh, WorkerRaised, Leave
  <2>3. \A x \in Inst, u \in Tasks : Awaits(u, x)' => Awaits(u, x)
    BY <1>2, <2>2 DEF Awaits, Tasks
  <2> QED BY <1>2, <2>1, <2>3, WaitFrame
<1>5. CASE WorkerDone(t)
  <2>1. done' = done
    BY <1>5 DEF WorkerDone
  <2>2. CASE Accepts(Owner(t))
    <3>1. /\ store' = [store EXCEPT ![Owner(t)] = Append(@, Open(t))]
          /\ loopAt' = [loopAt EXCEPT ![t] = "open"]
      BY <1>5, <2>2 DEF WorkerDone
    <3>2. /\ Open(t) \in Members(Append(store[Owner(t)], Open(t)))
          /\ Members(store[Owner(t)]) \subseteq Members(Append(store[Owner(t)], Open(t)))
      BY <1>1, <1>3, JobFacts, MembersOfAppend
    <3>3. /\ Open(t) \in Members(store'[Owner(t)])
          /\ \A x \in Inst : Members(store[x]) \subseteq Members(store'[x])
      BY <1>1, <1>3, <3>1, <3>2
    <3>4. OpenComing(Owner(t), t)'
      <4>1. Open(t).kind = "open" /\ Open(t).task = t
        BY DEF Open
      <4> QED BY <3>3, <4>1 DEF OpenComing, Members
    <3>5. ASSUME NEW x \in Inst, NEW u \in Tasks, Awaits(u, x)' PROVE Awaits(u, x) \/ OpenComing(x, u)'
      <4>1. CASE u = t
        BY <1>1, <3>4, <3>5, <4>1 DEF Awaits
      <4>2. CASE u # t
        BY <1>2, <1>3, <3>1, <3>5, <4>2 DEF Awaits, Tasks
      <4> QED BY <4>1, <4>2
    <3> QED BY <1>2, <2>1, <3>3, <3>5, WaitFrame
  <2>3. CASE ~Accepts(Owner(t))
    <3>1. store' = store /\ loopAt' = [loopAt EXCEPT ![t] = "none"]
      BY <1>5, <2>3 DEF WorkerDone, Leave
    <3>2. \A x \in Inst, u \in Tasks : Awaits(u, x)' => Awaits(u, x)
      BY <1>2, <1>3, <3>1 DEF Awaits, Tasks
    <3> QED BY <1>2, <2>1, <3>1, <3>2, WaitFrame
  <2> QED BY <2>2, <2>3
<1>6. CASE RefreshEnds(t)
  <2>1. done[Owner(t)] # <<>> /\ Head(done[Owner(t)]) = Opened(t) /\ done' = [done EXCEPT ![Owner(t)] = Tail(@)]
    BY <1>6 DEF RefreshEnds
  <2>2. /\ \A x \in Inst : Members(store[x]) \subseteq Members(store'[x])
        /\ loopAt'[t] # "open" /\ \A u \in Task : u # t => loopAt'[u] = loopAt[u]
    BY <1>1, <1>3, <1>6, NotifyGrows DEF RefreshEnds, Leave
  <2>3. \A x \in Inst, u \in Tasks : Awaits(u, x)' => Awaits(u, x) /\ u # t
    BY <1>1, <1>2, <2>2 DEF Awaits, Tasks
  <2>4. \A x \in Inst : \A c \in Members(done[x]) :
           \/ c \in Members(done'[x])
           \/ /\ \A u \in Tasks : c = Opened(u) => ~Awaits(u, x)'
              /\ c.kind = "answer" /\ c.by = "setup" => phase' # "awaiting"
    <3> SUFFICES ASSUME NEW x \in Inst, NEW c \in Members(done[x]), c = Opened(t)
                 PROVE  /\ \A u \in Tasks : c = Opened(u) => ~Awaits(u, x)'
                        /\ c.kind # "answer"
      BY <1>1, <2>1, TakenFromDone
    <3> QED BY <2>3, OpenedFacts
  <2> QED BY <1>2, <2>2, <2>3, <2>4, WaitFrame
<1> QED BY <1>4, <1>5, <1>6

(* The steps of watches.                                                   *)
LEMMA PollsWait ==
  ASSUME EntryFacts, WaitInv,
         (\E i \in Inst : PollEnds(i)) \/ (\E w \in Watch : TimerPoll(w)) \/ SetupPolls
  PROVE  WaitInv'
<1>1. UNCHANGED <<loopAt, cur>> /\ (phase' = "opening" <=> phase = "opening")
  BY DEF PollEnds, TimerPoll, SetupPolls, loopVars, taskVars
<1>2. \A x \in Inst, u \in Tasks : Awaits(u, x)' => Awaits(u, x)
  BY <1>1 DEF Awaits
<1>3. phase \in Busy => cur \in Inst
  BY LifecycleAssumption DEF EntryFacts, TypeInv, EntryTypes, EntryInv, Inst
<1>4. CASE \E i \in Inst : PollEnds(i)
  <2>1. PICK i \in Inst : PollEnds(i)
    BY <1>4
  <2>2. /\ done[i] # <<>> /\ Head(done[i]).kind = "answer" /\ done' = [done EXCEPT ![i] = Tail(@)]
        /\ store' = store
        /\ phase' = "awaiting" => phase = "awaiting" /\ Head(done[i]).by # "setup"
    BY <2>1 DEF PollEnds
  <2>3. \A x \in Inst : \A c \in Members(done[x]) :
           \/ c \in Members(done'[x])
           \/ /\ \A u \in Tasks : c = Opened(u) => ~Awaits(u, x)'
              /\ c.kind = "answer" /\ c.by = "setup" => phase' # "awaiting"
    <3> SUFFICES ASSUME NEW x \in Inst, NEW c \in Members(done[x]), c = Head(done[i])
                 PROVE  /\ \A u \in Tasks : c # Opened(u)
                        /\ c.kind = "answer" /\ c.by = "setup" => phase' # "awaiting"
      BY <2>2, TakenFromDone
    <3> QED BY <2>2, OpenedFacts
  <2> QED BY <1>1, <1>2, <1>3, <2>2, <2>3, WaitFrame DEF Busy
<1>5. CASE \E w \in Watch : TimerPoll(w)
  <2>1. PICK w \in Watch : TimerPoll(w)
    BY <1>5
  <2>2. phase = "loaded" /\ phase' = phase /\ done' = done /\ Poll(w, "timer")
    BY <2>1 DEF TimerPoll, loopVars
  <2>3. \A x \in Inst : Members(store[x]) \subseteq Members(store'[x])
    BY <1>3, <2>2, PollGrows DEF Busy
  <2> QED BY <1>2, <2>2, <2>3, WaitFrame
<1>6. CASE SetupPolls
  <2>1. phase = "polling" /\ done' = done /\ Poll(toPoll, "setup") /\ toPoll \in Watch /\ meta[cur] \in 0 .. MaxBuild
    BY <1>3, <1>6, LifecycleAssumption
    DEF SetupPolls, EntryFacts, TypeInv, EntryTypes, EntryInv, ObjectTypes, Watch, Busy
  <2>2. /\ \A x \in Inst : Members(store[x]) \subseteq Members(store'[x])
        /\ CanQuery(state[cur]) => Query(toPoll, "setup", meta[cur]) \in Members(store'[cur])
    BY <1>3, <2>1, PollGrows DEF Busy
  <2>3. ASSUME phase' = "awaiting" PROVE FirstPollComing(cur)'
    <3>1. CanQuery(state[cur])
      BY <1>6, <2>1, <2>3 DEF SetupPolls
    <3>2. Query(toPoll, "setup", meta[cur]).kind = "query" /\ Query(toPoll, "setup", meta[cur]).by = "setup"
      BY DEF Query
    <3> QED BY <1>1, <2>2, <3>1, <3>2 DEF FirstPollComing, Members
  <2> QED BY <1>2, <2>1, <2>2, <2>3, WaitFrame
<1> QED BY <1>4, <1>5, <1>6

(* The steps of the entry.                                                 *)
LEMMA SetupWait ==
  ASSUME EntryFacts, WaitInv, SetupBegins \/ SetupOpened
  PROVE  WaitInv'
<1>1. /\ store \in [Inst -> Seq(Jobs)] /\ done \in [Inst -> Seq(Completions)]
      /\ loopAt \in [Task -> {"none", "worker", "open"}]
      /\ cur \in 0 .. MaxInst /\ phase' # "awaiting"
  BY DEF EntryFacts, TypeInv, QueueTypes, LockTypes, EntryTypes, SetupBegins, SetupOpened
<1>2. CASE SetupBegins
  <2>0. PICK new \in Inst : new = cur + 1
    BY <1>1, <1>2, LifecycleAssumption DEF SetupBegins, Inst
  <2>1. /\ cur' = new /\ UNCHANGED <<loopAt>> /\ new > cur
        /\ \/ store' = [store EXCEPT ![new] = <<Open(NoTask)>>] /\ done' = done
           \/ done' = [done EXCEPT ![new] = <<Opened(NoTask)>>] /\ store' = store
    BY <1>1, <1>2, <2>0 DEF SetupBegins, taskVars
  <2>2. store[new] = <<>> /\ done[new] = <<>>
    BY <2>1 DEF EntryFacts, OpensInv, Sound, Fresh
  <2>3. Members(store[new]) = {} /\ Members(done[new]) = {}
    BY <2>2 DEF Members
  <2>4. /\ \A x \in Inst : Members(store[x]) \subseteq Members(store'[x])
        /\ \A x \in Inst : Members(done[x]) \subseteq Members(done'[x])
    BY <1>1, <2>1, <2>3
  <2>5. OpenComing(new, NoTask)'
    <3>1. Open(NoTask).kind = "open" /\ Open(NoTask).task = NoTask
      BY DEF Open
    <3>2. CASE store'[new] = <<Open(NoTask)>>
      <4>1. 1 \in DOMAIN store'[new] /\ store'[new][1] = Open(NoTask)
        BY <3>2
      <4> QED BY <3>1, <4>1, <2>1 DEF OpenComing
    <3>3. CASE done'[new] = <<Opened(NoTask)>>
      <4>1. 1 \in DOMAIN done'[new] /\ done'[new][1] = Opened(NoTask)
        BY <3>3
      <4> QED BY <4>1, <2>1 DEF OpenComing
    <3> QED BY <1>1, <2>1, <3>2, <3>3
  <2>6. ASSUME NEW x \in Inst, NEW u \in Tasks, Awaits(u, x)' PROVE Awaits(u, x) \/ OpenComing(x, u)'
    <3>1. CASE u = NoTask
      <4>1. x = new
        BY <2>1, <2>6, <3>1 DEF Awaits
      <4> QED BY <2>5, <3>1, <4>1
    <3>2. CASE u # NoTask
      BY <2>1, <2>6, <3>2 DEF Awaits
    <3> QED BY <3>1, <3>2
  <2> QED BY <1>1, <2>4, <2>6, WaitFrame
<1>3. CASE SetupOpened
  <2>1. /\ cur \in Inst /\ done[cur] # <<>> /\ Head(done[cur]) = Opened(NoTask)
        /\ done' = [done EXCEPT ![cur] = Tail(@)] /\ phase' = "polling"
    BY <1>3, LifecycleAssumption DEF SetupOpened, EntryFacts, TypeInv, EntryTypes, EntryInv, Busy, Inst
  <2>2. store' = store /\ \A u \in Task : loopAt'[u] = "open" => loopAt[u] = "open"
    <3>1. CASE \E t \in Task : StartRefresh(t)
      BY <1>1, <3>1, StartReopensNothing DEF StartRefresh
    <3>2. CASE UNCHANGED <<taskVars, state, store, view>>
      BY <3>2 DEF taskVars
    <3> QED BY <1>3, <3>1, <3>2 DEF SetupOpened
  <2>3. \A x \in Inst, u \in Tasks : Awaits(u, x)' => Awaits(u, x) /\ u # NoTask
    BY <2>1, <2>2 DEF Awaits, Tasks
  <2>4. \A x \in Inst : \A c \in Members(done[x]) :
           \/ c \in Members(done'[x])
           \/ /\ \A u \in Tasks : c = Opened(u) => ~Awaits(u, x)'
              /\ c.kind = "answer" /\ c.by = "setup" => phase' # "awaiting"
    <3> SUFFICES ASSUME NEW x \in Inst, NEW c \in Members(done[x]), c = Opened(NoTask)
                 PROVE  \A u \in Tasks : c = Opened(u) => ~Awaits(u, x)'
      BY <1>1, <2>1, TakenFromDone
    <3> QED BY <2>3, OpenedFacts
  <2> QED BY <1>1, <2>2, <2>3, <2>4, WaitFrame
<1> QED BY <1>2, <1>3

LEMMA UnloadWaits ==
  ASSUME EntryFacts, WaitInv, Unloads
  PROVE  WaitInv'
<1> DEFINE gone == {t \in background : Owner(t) = cur}
<1>1. /\ phase' = "unloaded" /\ done' = done /\ cur' = cur
      /\ loopAt' = [t \in Task |-> IF t \in gone THEN "none" ELSE loopAt[t]]
      /\ store' = [store EXCEPT ![cur] = Cancels(@, gone)]
      /\ store \in [Inst -> Seq(Jobs)] /\ gone \subseteq Task
  BY DEF Unloads, EntryFacts, TypeInv, QueueTypes
<1> HIDE DEF gone
<1>2. ASSUME NEW x \in Inst, NEW j \in Members(store[x])
      PROVE  j \in Members(store'[x]) \/ (j.kind = "open" /\ j.task \in gone)
  <2>1. CASE x # cur
    BY <1>1, <1>2, <2>1
  <2>2. CASE x = cur
    <3>1. PICK k \in DOMAIN store[x] : j = store[x][k]
      BY <1>2 DEF Members
    <3>2. store'[x] = Cancels(store[x], gone)
      BY <1>1, <2>2
    <3>3. k \in DOMAIN store'[x] /\ (store'[x][k] = j \/ (j.kind = "open" /\ j.task \in gone))
      BY <3>1, <3>2 DEF Cancels
    <3> QED BY <3>3 DEF Members
  <2> QED BY <2>1, <2>2
<1>3. ASSUME NEW x \in Inst, NEW t \in Tasks, Awaits(t, x)' PROVE OpenComing(x, t)'
  <2>1. Awaits(t, x) /\ t \notin gone
    BY <1>1, <1>3, TaskFacts DEF Awaits, Tasks
  <2>2. \/ \E j \in Members(store[x]) : j.kind \in Opens /\ j.task = t
        \/ Opened(t) \in Members(done[x])
    BY <2>1, ComingMembers DEF WaitInv
  <2>3. \/ \E j \in Members(store'[x]) : j.kind \in Opens /\ j.task = t
        \/ Opened(t) \in Members(done'[x])
    BY <1>1, <1>2, <2>1, <2>2
  <2> QED BY <2>3 DEF OpenComing, Members, Opens
<1> QED BY <1>1, <1>3 DEF WaitInv

LEMMA WaitsKept == EntryFacts /\ WaitInv /\ [Next]_vars => WaitInv'
<1> SUFFICES ASSUME EntryFacts, WaitInv, [Next]_vars PROVE WaitInv'
  OBVIOUS
<1>1. CASE \E t \in Task : RefreshDue(t) \/ WorkerRaised(t) \/ WorkerDone(t) \/ RefreshEnds(t)
  BY <1>1, RefreshesWait
<1>2. CASE \E i \in Inst : StoreSkips(i) \/ StoreOpens(i) \/ StoreReady(i) \/ StoreOpenFails(i) \/ StoreQueries(i)
  BY <1>2, StoresWait
<1>3. CASE (\E i \in Inst : PollEnds(i)) \/ (\E w \in Watch : TimerPoll(w)) \/ SetupPolls
  BY <1>3, PollsWait
<1>4. CASE SetupBegins \/ SetupOpened
  BY <1>4, SetupWait
<1>5. CASE Unloads
  BY <1>5, UnloadWaits
<1>6. CASE \/ \E t \in Task : ThreadStarts(t) \/ Publishes(t) \/ Raises(t)
           \/ SetupEnds \/ UnloadBegins \/ UnloadRefused \/ RemoveBegins \/ RemovesTree
           \/ UNCHANGED vars
  <2>1. /\ UNCHANGED <<store, done, loopAt, cur>>
        /\ phase' \in {"opening", "awaiting"} => phase' = phase
    BY <1>6 DEF ThreadStarts, Publishes, Raises, ThreadEnds, SetupEnds, UnloadBegins, UnloadRefused,
                RemoveBegins, RemovesTree, loopVars, taskVars, storeVars, vars
  <2>2. WaitInv' <=> /\ \A i \in Inst, t \in Tasks : Awaits(t, i)' => OpenComing(i, t)
                     /\ phase' = "awaiting" => FirstPollComing(cur)
    BY <2>1 DEF WaitInv, OpenComing, FirstPollComing
  <2>3. \A i \in Inst, t \in Tasks : Awaits(t, i)' => Awaits(t, i)
    BY <2>1 DEF Awaits
  <2> QED BY <2>1, <2>2, <2>3 DEF WaitInv
<1> QED BY <1>1, <1>2, <1>3, <1>4, <1>5, <1>6 DEF Next, Loop, Threads

-----------------------------------------------------------------------------
(* Locks and worker jobs                                                   *)

LockWaits ==
  /\ \A i \in Inst : lock[i] # NoTask => Owner(lock[i]) = i /\ loopAt[lock[i]] # "none"
  /\ \A t \in Task : loopAt[t] = "worker" => threadAt[t] # "none"

(* A refresh gives up its lock in the step in which it ends, and so does   *)
(* one that is cancelled.                                                  *)
LEMMA LockWaitsKept == EntryFacts /\ LockWaits /\ [Next]_vars => LockWaits'
<1> SUFFICES ASSUME LockTypes, EntryFacts, LockWaits, [Next]_vars PROVE LockWaits'
  BY DEF EntryFacts, TypeInv
<1> USE TaskFacts DEF LockTypes, LockWaits
<1>1. ASSUME NEW t \in Task, StartRefresh(t) PROVE LockWaits'
  BY <1>1 DEF StartRefresh, LockFree
<1>2. CASE \E t \in Task : RefreshDue(t)
  BY <1>1, <1>2 DEF RefreshDue
<1>3. CASE \E t \in Task : WorkerRaised(t)
  BY <1>3 DEF WorkerRaised, Leave
<1>4. CASE \E t \in Task : WorkerDone(t)
  BY <1>4 DEF WorkerDone, Leave
<1>5. CASE \E t \in Task : RefreshEnds(t)
  BY <1>5 DEF RefreshEnds, Leave
<1>6. CASE \E t \in Task : ThreadStarts(t) \/ Publishes(t) \/ Raises(t)
  BY <1>6 DEF ThreadStarts, Publishes, Raises, ThreadEnds
<1>7. CASE SetupOpened
  BY <1>1, <1>7 DEF SetupOpened, taskVars
<1>8. CASE Unloads
  BY <1>8 DEF Unloads
<1>9. CASE \E i \in Inst :
             \/ StoreSkips(i) \/ StoreOpens(i) \/ StoreReady(i) \/ StoreOpenFails(i) \/ StoreQueries(i)
             \/ PollEnds(i)
  BY <1>9 DEF StoreSkips, StoreOpens, StoreReady, StoreOpenFails, StoreQueries, Completes, PollEnds, taskVars
<1>10. CASE \/ (\E w \in Watch : TimerPoll(w)) \/ SetupPolls \/ SetupBegins \/ SetupEnds
            \/ UnloadBegins \/ UnloadRefused \/ RemoveBegins \/ RemovesTree \/ UNCHANGED vars
  BY <1>10 DEF TimerPoll, SetupPolls, SetupBegins, SetupEnds, UnloadBegins, UnloadRefused,
               RemoveBegins, RemovesTree, taskVars, vars
<1> QED
  BY <1>2, <1>3, <1>4, <1>5, <1>6, <1>7, <1>8, <1>9, <1>10 DEF Next, Loop, Threads

(* Nobody waits for what will not come: a lock is held by a refresh under  *)
(* way, and the worker job, the open or the answer that somebody awaits is *)
(* queued or on its way (datasource.py 219-269, 330-356).                  *)
THEOREM EveryWaitIsAnswered == Spec => []NoWaitIsLost
<1>1. Init => LockWaits /\ WaitInv
  <2> SUFFICES ASSUME Init PROVE LockWaits /\ WaitInv
    OBVIOUS
  <2>1. LockWaits
    BY DEF Init, LockWaits
  <2>2. \A i \in Inst, t \in Tasks : ~Awaits(t, i)
    BY DEF Init, Awaits, Tasks
  <2> QED BY <2>1, <2>2 DEF WaitInv, Init
<1>2. EntryFacts /\ LockWaits /\ WaitInv => NoWaitIsLost
  <2> SUFFICES ASSUME EntryFacts, LockWaits, WaitInv PROVE NoWaitIsLost
    OBVIOUS
  <2>1. ASSUME NEW t \in Task, loopAt[t] = "open" PROVE OpenComing(Owner(t), t)
    BY <2>1, TaskFacts DEF WaitInv, Awaits, Tasks
  <2>2. ASSUME phase = "opening" PROVE OpenComing(cur, NoTask)
    <3>1. cur \in Inst
      BY <2>2, LifecycleAssumption DEF EntryFacts, TypeInv, EntryTypes, EntryInv, Busy, Inst
    <3> QED BY <2>2, <3>1 DEF WaitInv, Awaits, Tasks
  <2> QED BY <2>1, <2>2 DEF LockWaits, WaitInv, NoWaitIsLost
<1> QED BY <1>1, <1>2, OpensInvariance, WaitsKept, LockWaitsKept, PTL DEF Spec

-----------------------------------------------------------------------------
(* The board                                                               *)

(* An object that has not been made has loaded no meta.                    *)
MetaFresh == \A i \in Inst : i > cur => meta[i] = 0

LEMMA MetaFreshKept == EntryFacts /\ MetaFresh /\ [Next]_vars => MetaFresh'
<1> SUFFICES ASSUME EntryFacts, MetaFresh, [Next]_vars, NEW i \in Inst, i > cur' PROVE meta'[i] = 0
  BY DEF MetaFresh
<1>1. cur \in Int /\ cur' \in Int /\ i \in Int /\ cur <= cur'
  <2>1. cur' = cur \/ cur' = cur + 1
    BY DEF Next, Loop, Threads, RefreshDue, WorkerRaised, WorkerDone, RefreshEnds, ThreadStarts, Publishes,
           Raises, ThreadEnds, StoreSkips, StoreOpens, StoreReady, StoreOpenFails, StoreQueries, Completes,
           TimerPoll, PollEnds, SetupBegins, SetupOpened, SetupPolls, SetupEnds, UnloadBegins, Unloads,
           UnloadRefused, RemoveBegins, RemovesTree, loopVars, vars
  <2> QED BY <2>1, ObjectFacts
<1>2. meta[i] = 0 /\ meta \in [Inst -> 0 .. MaxBuild]
  BY <1>1 DEF MetaFresh, EntryFacts, TypeInv, ObjectTypes
<1>3. CASE \E j \in Inst : StoreOpens(j)
  <2>1. PICK j \in Inst : StoreOpens(j)
    BY <1>3
  <2>2. store[j] # <<>> /\ meta' = [meta EXCEPT ![j] = index]
    BY <2>1 DEF StoreOpens, Job
  <2>3. j <= cur
    BY <2>2, ObjectFacts
  <2>4. i # j
    BY <1>1, <2>3, ObjectFacts
  <2> QED BY <1>2, <2>2, <2>4
<1>4. CASE ~\E j \in Inst : StoreOpens(j)
  <2>1. meta' = meta
    BY <1>4 DEF Next, Loop, Threads, RefreshDue, WorkerRaised, WorkerDone, RefreshEnds, ThreadStarts, Publishes,
           Raises, ThreadEnds, StoreSkips, StoreReady, StoreOpenFails, StoreQueries, TimerPoll,
           PollEnds, SetupBegins, SetupOpened, SetupPolls, SetupEnds, UnloadBegins, Unloads, UnloadRefused,
           RemoveBegins, RemovesTree, storeVars, vars
  <2> QED BY <1>2, <2>1
<1> QED BY <1>3, <1>4

BoardFacts == CurrentFacts /\ RowsInv /\ MetaFresh

(* A watch is never taken back to showing nothing, and rows that take the  *)
(* place of rows are those of an index that is at least as new.            *)
LEMMA LinesReplaced ==
  ASSUME BoardFacts, [Next]_vars, cur \in Inst, NEW w \in Watch, shown'[w] # None
  PROVE  Promise!Replaces(shown[w], shown'[w])
<1>1. EntryFacts /\ RowsInv
  BY DEF BoardFacts, CurrentFacts
<1>2. shown'[w] \in Data
  BY <1>1, TypesKept DEF EntryFacts, TypeInv, ViewTypes
<1>3. CASE shown'[w] \in {Extracting, Failed}
  BY <1>3 DEF Promise!Replaces
<1>4. CASE \E b \in 1 .. MaxBuild, m \in 0 .. MaxBuild : shown'[w] = Rows(b, m)
  <2>1. PICK b \in 1 .. MaxBuild, m \in 0 .. MaxBuild : shown'[w] = Rows(b, m)
    BY <1>4
  <2>2. shown'[w].kind = "rows" /\ shown'[w].build = b /\ shown'[w].window = m
    BY <2>1 DEF Rows
  <2>3. /\ shown'[w].window = shown'[w].build /\ shown'[w].build <= meta[cur]
        /\ shown[w].kind = "rows" => shown'[w].build >= shown[w].build
    BY <1>1, <2>2, ShownFacts
  <2>4. shown'[w] = Promise!Rows(b)
    BY <2>1, <2>2, <2>3 DEF Rows, Promise!Rows
  <2>5. cur # 0 /\ meta[cur] \in 0 .. MaxBuild
    BY <1>1 DEF EntryFacts, TypeInv, ObjectTypes, Inst
  <2>6. b \in 1 .. (IF cur = 0 THEN 0 ELSE meta[cur])
    BY <2>2, <2>3, <2>5, LifecycleAssumption
  <2> QED BY <2>2, <2>3, <2>4, <2>6 DEF Promise!Replaces
<1> QED BY <1>2, <1>3, <1>4 DEF Data

(* Some lines are told something, while everything else stays.             *)
Told(W) ==
  /\ \A w \in W : shown'[w] # None
  /\ shown' = [w \in Watch |-> IF w \in W THEN shown'[w] ELSE shown[w]]
  /\ attrs' = [w \in Watch |-> IF phase = "loaded" /\ w \in W THEN meta[cur] ELSE attrs[w]]

Steady == cur' = cur /\ meta' = meta /\ index' = index /\ (phase' = "loaded" <=> phase = "loaded")

LEMMA ToldIsTell ==
  ASSUME BoardFacts, [Next]_vars, cur \in Inst, NEW W \in SUBSET Watch, Told(W), Steady
  PROVE  Promise!Next
<1>1. \A w \in W : Promise!Replaces(shown[w], shown'[w])
  BY LinesReplaced DEF Told
<1>2. cur # 0
  BY DEF Inst
<1>3. Promise!Tell(W)
  BY <1>1, <1>2 DEF Told, Steady, Promise!Tell
<1> QED BY <1>3 DEF Promise!Next

LEMMA SteadyIsStutter ==
  ASSUME Steady, UNCHANGED view
  PROVE  UNCHANGED Promise!bvars
  BY DEF Steady, view, Promise!bvars

LEMMA NotifyTells ==
  ASSUME BoardFacts, [Next]_vars, NEW i \in Inst, NEW s, Notify(i, s), Steady
  PROVE  Promise!Next \/ UNCHANGED Promise!bvars
<1>1. CASE UNCHANGED view
  BY <1>1, SteadyIsStutter
<1>2. CASE i \in listening /\ ~CanQuery(s)
  <2>1. i = cur /\ attrs \in [Watch -> 0 .. MaxBuild]
    BY <1>2 DEF BoardFacts, CurrentFacts, EntryFacts, EntryShape, TypeInv, ViewTypes
  <2>2. shown' = [w \in Watch |-> Unready(s)] /\ Writes(Watch, meta[cur])
    BY <1>2, <2>1 DEF Notify
  <2>3. Unready(s) # None
    BY DEF Unready, Failed, Extracting, None
  <2>4. Told(Watch)
    BY <2>1, <2>2, <2>3 DEF Told, Writes
  <2> QED BY <2>1, <2>4, ToldIsTell
<1> QED BY <1>1, <1>2 DEF Notify

LEMMA PollTells ==
  ASSUME BoardFacts, [Next]_vars, cur \in Inst, NEW w \in Watch, NEW by, Poll(w, by), Steady
  PROVE  Promise!Next \/ UNCHANGED Promise!bvars
<1>1. CASE CanQuery(state[cur])
  BY <1>1, SteadyIsStutter DEF Poll
<1>2. CASE ~CanQuery(state[cur])
  <2>1. shown \in [Watch -> Data] /\ attrs \in [Watch -> 0 .. MaxBuild]
    BY DEF BoardFacts, CurrentFacts, EntryFacts, TypeInv, ViewTypes
  <2>2. shown' = [shown EXCEPT ![w] = Unready(state[cur])] /\ Writes({w}, meta[cur])
    BY <1>2 DEF Poll
  <2>3. Unready(state[cur]) # None
    BY DEF Unready, Failed, Extracting, None
  <2>4. Told({w})
    BY <2>1, <2>2, <2>3 DEF Told, Writes
  <2> QED BY <2>4, ToldIsTell
<1> QED BY <1>1, <1>2

(* An answer that arrives is told to its watch.                            *)
LEMMA AnswerTells ==
  ASSUME BoardFacts, [Next]_vars, NEW i \in Inst, PollEnds(i)
  PROVE  Promise!Next \/ UNCHANGED Promise!bvars
<1>1. Steady
  BY DEF PollEnds, taskVars, disk, Steady
<1>2. CASE i # cur
  BY <1>1, <1>2, SteadyIsStutter DEF PollEnds
<1>3. CASE i = cur
  <2> DEFINE a == Head(done[i])
  <2>1. /\ done[i] # <<>> /\ a.kind = "answer" /\ done[i] \in Seq(Completions)
        /\ shown' = [shown EXCEPT ![a.watch] = a.data] /\ Writes({a.watch}, meta[cur])
    BY <1>3 DEF PollEnds, BoardFacts, CurrentFacts, EntryFacts, TypeInv, QueueTypes
  <2>2. shown \in [Watch -> Data] /\ attrs \in [Watch -> 0 .. MaxBuild]
    BY DEF BoardFacts, CurrentFacts, EntryFacts, TypeInv, ViewTypes
  <2>3. a \in Completions /\ 1 \in DOMAIN done[i] /\ a = done[i][1]
    BY <2>1, TailFacts
  <2>4. a.watch \in Watch
    BY <2>1, <2>3, JobFacts
  <2>5. a.data # None
    <3>1. AnswerFresh(i, 1)
      BY <2>3 DEF BoardFacts, CurrentFacts, FreshFacts, FreshInv
    <3> QED BY <2>1, <2>3, <3>1 DEF AnswerFresh, Failed, None
  <2> HIDE DEF a
  <2>6. Told({a.watch})
    BY <2>1, <2>2, <2>4, <2>5 DEF Told, Writes
  <2> QED BY <1>1, <1>3, <2>4, <2>6, ToldIsTell
<1> QED BY <1>2, <1>3

LEMMA BoardSteps == BoardFacts /\ [Next]_vars => [Promise!Next]_(Promise!bvars)
<1> SUFFICES ASSUME BoardFacts, [Next]_vars PROVE Promise!Next \/ UNCHANGED Promise!bvars
  OBVIOUS
<1>1. /\ cur \in 0 .. MaxInst /\ (cur # 0 => cur \in Inst) /\ (phase \in Busy => cur \in Inst)
      /\ meta \in [Inst -> 0 .. MaxBuild]
  BY LifecycleAssumption DEF BoardFacts, CurrentFacts, EntryFacts, TypeInv, EntryTypes, EntryInv, ObjectTypes, Inst
<1>2. CASE \E t \in Task : RefreshDue(t) \/ WorkerRaised(t) \/ RefreshEnds(t)
  <2>1. PICK t \in Task : RefreshDue(t) \/ WorkerRaised(t) \/ RefreshEnds(t)
    BY <1>2
  <2>2. Steady
    BY <2>1 DEF RefreshDue, WorkerRaised, RefreshEnds, loopVars, disk, Steady
  <2>3. UNCHANGED view \/ \E s : Notify(Owner(t), s)
    BY <2>1 DEF RefreshDue, StartRefresh, WorkerRaised, RefreshEnds, view
  <2> QED BY <2>2, <2>3, NotifyTells, SteadyIsStutter, TaskFacts
<1>3. CASE SetupOpened
  <2>1. Steady /\ cur \in Inst
    BY <1>1, <1>3 DEF SetupOpened, disk, Steady, Busy
  <2>2. UNCHANGED view \/ \E t \in Task : Notify(Owner(t), "importing")
    BY <1>3 DEF SetupOpened, StartRefresh
  <2> QED BY <2>1, <2>2, NotifyTells, SteadyIsStutter, TaskFacts
<1>4. CASE \E i \in Inst : PollEnds(i)
  BY <1>4, AnswerTells
<1>5. CASE (\E w \in Watch : TimerPoll(w)) \/ SetupPolls
  <2>1. Steady /\ cur \in Inst
    BY <1>1, <1>5 DEF TimerPoll, SetupPolls, loopVars, disk, Steady, Busy
  <2>2. CASE \E w \in Watch : TimerPoll(w)
    BY <2>1, <2>2, PollTells DEF TimerPoll
  <2>3. CASE SetupPolls
    <3>1. toPoll \in Watch
      BY <2>3, LifecycleAssumption
      DEF SetupPolls, BoardFacts, CurrentFacts, EntryFacts, TypeInv, EntryTypes, EntryInv, Watch
    <3> QED BY <2>1, <2>3, <3>1, PollTells DEF SetupPolls
  <2> QED BY <1>5, <2>2, <2>3
<1>6. CASE \E t \in Task : Publishes(t)
  <2>1. index' = index + 1 /\ UNCHANGED <<cur, meta, phase, view>>
    BY <1>6 DEF Publishes, ThreadEnds, loopVars, storeVars
  <2>2. Promise!Publish
    BY <2>1 DEF Promise!Publish, view
  <2> QED BY <2>2 DEF Promise!Next
<1>7. CASE \E i \in Inst : StoreOpens(i)
  <2>1. PICK i \in Inst : StoreOpens(i)
    BY <1>7
  <2>2. meta' = [meta EXCEPT ![i] = index] /\ UNCHANGED <<cur, phase, index, view>>
    BY <2>1 DEF StoreOpens, loopVars, disk
  <2>3. CASE i = cur
    <3>1. cur # 0 /\ meta'[cur] = index
      BY <1>1, <2>2, <2>3 DEF Inst
    <3>2. Promise!Reopen
      BY <2>2, <3>1 DEF Promise!Reopen, view
    <3> QED BY <3>2 DEF Promise!Next
  <2>4. CASE i # cur
    <3>1. cur # 0 => meta'[cur] = meta[cur]
      BY <1>1, <2>2, <2>4
    <3> QED BY <2>2, <3>1 DEF Promise!bvars, view
  <2> QED BY <2>3, <2>4
<1>8. CASE SetupBegins
  <2>1. /\ phase = "unloaded" /\ phase' = "opening" /\ cur' = cur + 1 /\ cur + 1 \in Inst
        /\ shown' = [w \in Watch |-> None] /\ UNCHANGED <<meta, index, attrs>>
    BY <1>1, <1>8, LifecycleAssumption DEF SetupBegins, disk, Inst
  <2>2. meta[cur + 1] = 0 /\ cur' # 0
    BY <1>1, <2>1 DEF BoardFacts, MetaFresh
  <2>3. Promise!Renew
    BY <2>1, <2>2 DEF Promise!Renew
  <2> QED BY <2>3 DEF Promise!Next
<1>9. CASE SetupEnds
  <2>1. /\ phase = "polling" /\ phase' = "loaded" /\ attrs' = [w \in Watch |-> meta[cur]]
        /\ UNCHANGED <<cur, meta, index, shown>> /\ cur # 0
    BY <1>1, <1>9 DEF SetupEnds, storeVars, disk, Busy, Inst
  <2>2. Promise!GoLive
    BY <2>1 DEF Promise!GoLive
  <2> QED BY <2>2 DEF Promise!Next
<1>10. CASE UnloadBegins
  <2>1. phase = "loaded" /\ phase' = "unloading" /\ UNCHANGED <<cur, meta, index, view>>
    BY <1>10 DEF UnloadBegins, storeVars, disk
  <2>2. Promise!EndLive
    BY <2>1 DEF Promise!EndLive, view
  <2> QED BY <2>2 DEF Promise!Next
<1>11. CASE \/ \E t \in Task : WorkerDone(t) \/ ThreadStarts(t) \/ Raises(t)
            \/ \E i \in Inst : StoreSkips(i) \/ StoreReady(i) \/ StoreOpenFails(i) \/ StoreQueries(i)
            \/ Unloads \/ UnloadRefused \/ RemoveBegins \/ RemovesTree
            \/ UNCHANGED vars
  <2>1. Steady /\ UNCHANGED view
    BY <1>11 DEF WorkerDone, ThreadStarts, Raises, ThreadEnds, StoreSkips, StoreReady, StoreOpenFails,
                 StoreQueries, Completes, Unloads, UnloadRefused, RemoveBegins, RemovesTree, Steady,
                 loopVars, storeVars, disk, view, vars
  <2> QED BY <2>1, SteadyIsStutter
<1> QED
  BY <1>2, <1>3, <1>4, <1>5, <1>6, <1>7, <1>8, <1>9, <1>10, <1>11 DEF Next, Loop, Threads

(* Objects, refreshes, polls and reloads together do to what the sensors   *)
(* of an entry say nothing that a board over the open index would not do.  *)
THEOREM LifecycleImplementsBoard == Spec => ImplementsBoard
<1>1. Init => Promise!Init
  BY DEF Init, Promise!Init
<1>2. Init => MetaFresh
  BY DEF Init, MetaFresh
<1>3. Spec => []BoardFacts
  <2>1. CurrentFacts /\ RowsInv /\ MetaFresh <=> BoardFacts
    BY DEF BoardFacts
  <2>2. CurrentFacts /\ MetaFresh /\ [Next]_vars => MetaFresh'
    BY MetaFreshKept DEF CurrentFacts
  <2> QED BY <1>2, <2>1, <2>2, CurrentInvariance, PTL DEF Spec
<1> QED
  BY <1>1, <1>3, BoardSteps, PTL DEF Spec, ImplementsBoard, Promise!Spec

(* What the board shows, by its own rules alone.                           *)
OpenBuild == IF cur = 0 THEN 0 ELSE meta[cur]

BoardRows ==
  /\ index \in Nat /\ OpenBuild \in 0 .. index
  /\ \A w \in Watch : shown[w].kind = "rows" => \E b \in 1 .. OpenBuild : shown[w] = Promise!Rows(b)

LEMMA BoardRowsKept == BoardRows /\ [Promise!Next]_(Promise!bvars) => BoardRows'
<1> SUFFICES ASSUME BoardRows, [Promise!Next]_(Promise!bvars) PROVE BoardRows'
  OBVIOUS
<1>1. /\ index \in Nat /\ OpenBuild \in 0 .. index
      /\ \A w \in Watch : shown[w].kind = "rows" => \E b \in 1 .. OpenBuild : shown[w] = Promise!Rows(b)
  BY DEF BoardRows
<1>2. BoardRows' <=>
        /\ index' \in Nat /\ OpenBuild' \in 0 .. index'
        /\ \A w \in Watch : shown'[w].kind = "rows" => \E b \in 1 .. OpenBuild' : shown'[w] = Promise!Rows(b)
  BY DEF BoardRows, Promise!Rows
<1>3. CASE Promise!Publish \/ Promise!Reopen \/ Promise!GoLive \/ Promise!EndLive \/ UNCHANGED Promise!bvars
  <2>1. /\ shown' = shown /\ index' \in {index, index + 1}
        /\ OpenBuild' = OpenBuild \/ (OpenBuild' = index /\ index' = index)
    BY <1>3 DEF Promise!Publish, Promise!Reopen, Promise!GoLive, Promise!EndLive, Promise!bvars, OpenBuild
  <2> QED BY <1>1, <1>2, <2>1
<1>4. CASE Promise!Renew
  <2>1. OpenBuild' = 0 /\ index' = index /\ shown' = [w \in Watch |-> None]
    BY <1>4 DEF Promise!Renew, OpenBuild
  <2> QED BY <1>1, <1>2, <2>1 DEF None
<1>5. CASE \E W \in SUBSET Watch : Promise!Tell(W)
  <2>1. PICK W \in SUBSET Watch : Promise!Tell(W)
    BY <1>5
  <2>2. /\ index' = index /\ OpenBuild' = OpenBuild
        /\ \A w \in W : Promise!Replaces(shown[w], shown'[w])
        /\ shown' = [w \in Watch |-> IF w \in W THEN shown'[w] ELSE shown[w]]
    BY <2>1 DEF Promise!Tell, OpenBuild
  <2>3. ASSUME NEW w \in Watch, shown'[w].kind = "rows"
        PROVE  \E b \in 1 .. OpenBuild : shown'[w] = Promise!Rows(b)
    <3>1. CASE w \in W
      BY <2>2, <2>3, <3>1 DEF Promise!Replaces, OpenBuild, Extracting, Failed
    <3>2. CASE w \notin W
      BY <1>1, <2>2, <2>3, <3>2
    <3> QED BY <3>1, <3>2
  <2> QED BY <1>1, <1>2, <2>2, <2>3
<1> QED BY <1>3, <1>4, <1>5 DEF Promise!Next

(* The board is no weaker than what is asked of the rows: whatever keeps   *)
(* its rules shows rows of one index at a time and none older than before. *)
THEOREM BoardKeepsRowsTogether == ImplementsBoard => []WindowMatchesRows /\ NeverOlderRows
<1> DEFINE NotOlder ==
      \A w \in Watch :
        cur' = cur /\ shown[w].kind = "rows" /\ shown'[w].kind = "rows" => shown'[w].build >= shown[w].build
<1>0. \A b : /\ Promise!Rows(b).kind = "rows" /\ Promise!Rows(b).build = b
             /\ Promise!Rows(b).window = b
  BY DEF Promise!Rows
<1>1. Promise!Init => BoardRows
  BY DEF Promise!Init, BoardRows, OpenBuild, None
<1>2. BoardRows => WindowMatchesRows
  BY <1>0 DEF BoardRows, WindowMatchesRows
<1>3. ASSUME BoardRows, [Promise!Next]_(Promise!bvars) PROVE NotOlder
  <2> SUFFICES ASSUME NEW w \in Watch, shown[w].kind = "rows", shown'[w].kind = "rows"
               PROVE  shown'[w].build >= shown[w].build
    OBVIOUS
  <2>1. shown[w].build \in Int
    <3>1. PICK b \in 1 .. OpenBuild : shown[w] = Promise!Rows(b)
      BY <1>3 DEF BoardRows
    <3>2. OpenBuild \in Nat /\ b \in Int /\ shown[w].build = b
      BY <1>3, <3>1 DEF BoardRows, Promise!Rows
    <3> QED BY <3>2
  <2>2. CASE shown'[w] = shown[w]
    BY <2>1, <2>2
  <2>3. CASE Promise!Replaces(shown[w], shown'[w])
    <3>1. PICK b \in 1 .. OpenBuild : shown'[w] = Promise!Rows(b) /\ b >= shown[w].build
      BY <2>3 DEF Promise!Replaces, OpenBuild, Extracting, Failed
    <3> QED BY <1>0, <3>1
  <2>4. CASE shown' = [v \in Watch |-> None]
    BY <2>4 DEF None
  <2> QED
    BY <1>3, <2>2, <2>3, <2>4
    DEF Promise!Next, Promise!Publish, Promise!Reopen, Promise!GoLive, Promise!EndLive, Promise!Renew,
        Promise!Tell, Promise!bvars
<1>4. BoardRows /\ [Promise!Next]_(Promise!bvars) => [NotOlder]_vars
  BY <1>3
<1> HIDE DEF NotOlder
<1>5. ImplementsBoard => []BoardRows /\ [][NotOlder]_vars
  BY <1>1, <1>4, BoardRowsKept, PTL DEF ImplementsBoard, Promise!Spec
<1> QED BY <1>2, <1>5, PTL DEF NotOlder, NeverOlderRows
=============================================================================
