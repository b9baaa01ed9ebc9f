--------------------------- MODULE LifecycleProofs ---------------------------
(***************************************************************************)
(* Theorems about Lifecycle, for any number of reloads, watches, published *)
(* indexes and refreshes in flight.                                        *)
(***************************************************************************)
EXTENDS Lifecycle, TLAPS

(* As much of the types as the argument about locks needs.                 *)
LockTypes ==
  /\ lock \in [Inst -> Task \cup {NoTask}]
  /\ loopAt \in [Task -> {"none", "worker", "open"}]
  /\ threadAt \in [Task -> {"none", "queued", "running", "ok", "err"}]

LockInv == LockTypes /\ LockDiscipline

(* What a task, its owner and the absence of one are to each other.       *)
LEMMA TaskFacts ==
  ASSUME NEW t \in Task
  PROVE  Owner(t) \in Inst /\ t # NoTask
  BY DEF Task, Owner, NoTask, Inst

(* Every step keeps the lock invariant: only starting a refresh puts a     *)
(* task to work, and it needs a free lock and an open object.              *)
LEMMA LockStep == LockInv /\ [Next]_vars => LockInv'
<1> SUFFICES ASSUME LockInv, [Next]_vars PROVE LockInv'
  OBVIOUS
<1> USE TaskFacts DEF LockInv, LockTypes, LockDiscipline
<1>1. ASSUME NEW t \in Task, StartRefresh(t), closed' = closed PROVE LockInv'
  BY <1>1 DEF StartRefresh, LockFree
<1>2. CASE \E t \in Task : RefreshDue(t)
  BY <1>1, <1>2 DEF RefreshDue, loopVars
<1>3. CASE \E t \in Task : WorkerRaised(t)
  BY <1>3 DEF WorkerRaised, Leave, loopVars
<1>4. CASE \E t \in Task : WorkerDone(t)
  BY <1>4 DEF WorkerDone, Accepts, Leave, loopVars
<1>5. CASE \E t \in Task : RefreshEnds(t)
  BY <1>5 DEF RefreshEnds, Leave, loopVars
<1>6. CASE \E t \in Task : ThreadStarts(t) \/ Publishes(t) \/ Raises(t)
  BY <1>6 DEF ThreadStarts, Publishes, Raises, ThreadEnds, loopVars, disk
<1>7. CASE SetupOpened
  BY <1>1, <1>7 DEF SetupOpened, taskVars
<1>8. CASE Unloads
  BY <1>8 DEF Unloads, Shutdown
<1>9. CASE UnloadRefused
  BY <1>9 DEF UnloadRefused, Shutdown, taskVars
<1>10. CASE \E i \in Inst :
              StoreSkips(i) \/ StoreOpens(i) \/ StoreReady(i) \/ StoreOpenFails(i) \/ StoreQueries(i)
  BY <1>10 DEF StoreSkips, StoreOpens, StoreReady, StoreOpenFails, StoreQueries, Completes, loopVars, taskVars
<1>11. CASE (\E i \in Inst : PollEnds(i)) \/ (\E w \in Watch : TimerPoll(w))
  BY <1>11 DEF PollEnds, TimerPoll, loopVars, taskVars
<1>12. CASE SetupBegins \/ SetupPolls \/ SetupEnds \/ UnloadBegins \/ RemoveBegins \/ RemovesTree
  BY <1>12 DEF SetupBegins, SetupPolls, SetupEnds, UnloadBegins, RemoveBegins, RemovesTree, taskVars
<1>13. CASE UNCHANGED vars
  BY <1>13 DEF vars
<1> QED
  BY <1>2, <1>3, <1>4, <1>5, <1>6, <1>7, <1>8, <1>9, <1>10, <1>11, <1>12, <1>13
  DEF Next, Loop, Threads

(* A task at work holds the lock of its object until the object is closed. *)
THEOREM LocksAreHeld == Spec => []LockDiscipline
<1>1. Init => LockInv
  BY DEF Init, LockInv, LockTypes, LockDiscipline
<1>2. LockInv => LockDiscipline
  BY DEF LockInv
<1> QED
  BY <1>1, <1>2, LockStep, PTL DEF Spec

(* Two refreshes of one Datasource object never write its files at once.   *)
THEOREM ObjectsHaveOneWriter == Spec => []OneWriterPerObject
<1>1. LockDiscipline => OneWriterPerObject
  BY DEF LockDiscipline, OneWriterPerObject
<1> QED
  BY <1>1, LocksAreHeld, PTL

-----------------------------------------------------------------------------
(* Types                                                                   *)

Busy == {"opening", "polling", "awaiting", "loaded", "unloading"}

(* What the types rest on: an entry at work has an object, and awaits the  *)
(* answer for a watch it has.                                              *)
EntryInv ==
  /\ phase \in Busy => cur # 0
  /\ phase \in {"polling", "awaiting"} => toPoll # 0
  /\ phase = "awaiting" => toPoll <= NWatch

Tasks == Task \cup {NoTask}

(* Jobs and completions by their makers, so that the sets stay closed.     *)
LEMMA JobFacts ==
  /\ \A t \in Tasks : Open(t) \in Jobs /\ Opened(t) \in Completions
  /\ \A w \in Watch, by \in {"setup", "timer", "notify"}, b \in 0 .. MaxBuild : Query(w, by, b) \in Jobs
  /\ \A j \in Jobs : j.kind \in {"open", "opening", "cancelled", "query"}
  /\ \A j \in Jobs : j.kind = "open" => /\ [j EXCEPT !.kind = "opening"] \in Jobs
                                        /\ [j EXCEPT !.kind = "cancelled"] \in Jobs
  /\ \A j \in Jobs : j.kind \in {"open", "opening"} => j.task \in Tasks
  /\ \A j \in Jobs : j.kind = "query" =>
       /\ j.window \in 0 .. MaxBuild
       /\ \A d \in Data : Answer(j, d) \in Completions
  /\ \A c \in Completions : c.kind = "answer" => c.watch \in Watch /\ c.data \in Data
<1> USE DEF Tasks, Jobs, Completions, Open, Opened, Query, Answer
<1>1. \A t \in Tasks : Open(t) \in Jobs /\ Opened(t) \in Completions
  OBVIOUS
<1>2. \A w \in Watch, by \in {"setup", "timer", "notify"}, b \in 0 .. MaxBuild : Query(w, by, b) \in Jobs
  OBVIOUS
<1>3. \A j \in Jobs : j.kind \in {"open", "opening", "cancelled", "query"}
  OBVIOUS
<1>4. ASSUME NEW j \in Jobs, j.kind = "open"
      PROVE  /\ [j EXCEPT !.kind = "opening"] \in Jobs
             /\ [j EXCEPT !.kind = "cancelled"] \in Jobs
  BY <1>4
<1>5. \A j \in Jobs : j.kind \in {"open", "opening"} => j.task \in Tasks
  OBVIOUS
<1>6. ASSUME NEW j \in Jobs, j.kind = "query"
      PROVE  /\ j.window \in 0 .. MaxBuild
             /\ \A d \in Data : Answer(j, d) \in Completions
  <2>1. PICK w \in Watch, by \in {"setup", "timer", "notify"}, b \in 0 .. MaxBuild : j = Query(w, by, b)
    BY <1>6
  <2>2. j.window = b /\ j.watch = w /\ j.by = by
    BY <2>1
  <2> QED BY <2>1, <2>2
<1>7. \A c \in Completions : c.kind = "answer" => c.watch \in Watch /\ c.data \in Data
  OBVIOUS
<1> HIDE DEF Tasks, Jobs, Completions, Open, Opened, Query, Answer
<1> QED
  BY <1>1, <1>2, <1>3, <1>4, <1>5, <1>6, <1>7

(* And what a watch may show.                                              *)
LEMMA DataFacts ==
  /\ \A s : Unready(s) \in Data
  /\ None \in Data /\ Failed \in Data
  /\ \A b \in 0 .. MaxBuild, w \in 0 .. MaxBuild : b # 0 => Rows(b, w) \in Data
  BY LifecycleAssumption DEF Data, Unready

ObjectTypes ==
  /\ state \in [Inst -> {"idle", "importing", "ready", "failed"}]
  /\ conn \in [Inst -> 0 .. MaxBuild] /\ meta \in [Inst -> 0 .. MaxBuild]
  /\ index \in 0 .. MaxBuild /\ root \in {"absent", "bare", "built"}

EntryTypes ==
  /\ phase \in {"unloaded", "opening", "polling", "awaiting", "loaded", "unloading", "failed",
                "removing", "removed"}
  /\ cur \in 0 .. MaxInst
  /\ toPoll \in 0 .. NWatch + 1
  /\ closed \subseteq Inst /\ listening \subseteq Inst /\ timed \subseteq Inst
  /\ EntryInv

QueueTypes == store \in [Inst -> Seq(Jobs)] /\ done \in [Inst -> Seq(Completions)]
ViewTypes  == shown \in [Watch -> Data] /\ attrs \in [Watch -> 0 .. MaxBuild]

TypeInv ==
  LockTypes /\ background \subseteq Task /\ ObjectTypes /\ EntryTypes /\ QueueTypes /\ ViewTypes

(* Telling the listeners and polling keep queues and views typed.          *)
LEMMA NotifyTypes ==
  ASSUME NEW i \in Inst, NEW s, QueueTypes, ViewTypes, ObjectTypes, Notify(i, s)
  PROVE  store' \in [Inst -> Seq(Jobs)] /\ ViewTypes'
<1>1. meta[i] \in 0 .. MaxBuild
  BY DEF ObjectTypes
<1>2. CASE i \notin listening
  BY <1>2 DEF Notify, QueueTypes, ViewTypes, view
<1>3. CASE i \in listening /\ CanQuery(s)
  <2>1. /\ store' = [store EXCEPT ![i] = @ \o [w \in Watch |-> Query(w, "notify", meta[i])]]
        /\ UNCHANGED view
    BY <1>3 DEF Notify
  <2>2. [w \in Watch |-> Query(w, "notify", meta[i])] \in Seq(Jobs)
    BY <1>1, JobFacts, LifecycleAssumption DEF Watch
  <2> QED BY <2>1, <2>2 DEF QueueTypes, ViewTypes, view
<1>4. CASE i \in listening /\ ~CanQuery(s)
  BY <1>1, <1>4, DataFacts DEF Notify, Writes, QueueTypes, ViewTypes
<1> QED BY <1>2, <1>3, <1>4

LEMMA PollTypes ==
  ASSUME NEW w \in Watch, NEW by \in {"setup", "timer", "notify"}, cur \in Inst,
         QueueTypes, ViewTypes, ObjectTypes, Poll(w, by)
  PROVE  store' \in [Inst -> Seq(Jobs)] /\ ViewTypes'
<1>1. meta[cur] \in 0 .. MaxBuild
  BY DEF ObjectTypes
<1>2. CASE CanQuery(state[cur])
  <2>1. store' = [store EXCEPT ![cur] = Append(@, Query(w, by, meta[cur]))] /\ UNCHANGED view
    BY <1>2 DEF Poll
  <2>2. Query(w, by, meta[cur]) \in Jobs
    BY <1>1, JobFacts
  <2> QED BY <2>1, <2>2 DEF QueueTypes, ViewTypes, view
<1>3. CASE ~CanQuery(state[cur])
  BY <1>1, <1>3, DataFacts DEF Poll, Writes, QueueTypes, ViewTypes
<1> QED BY <1>2, <1>3

(* Every step keeps the types.                                             *)
LEMMA TypesKept == TypeInv /\ [Next]_vars => TypeInv'
<1> SUFFICES ASSUME TypeInv, [Next]_vars PROVE TypeInv'
  OBVIOUS
<1> USE TaskFacts DEF TypeInv
<1>1. ASSUME NEW t \in Task, StartRefresh(t), UNCHANGED <<conn, meta, index, root>>,
             done' = done, phase' = phase \/ (phase' = "polling" /\ toPoll' = 1), cur' = cur
      PROVE  LockTypes' /\ ObjectTypes' /\ QueueTypes' /\ ViewTypes'
  <2>1. store' \in [Inst -> Seq(Jobs)] /\ ViewTypes'
    BY <1>1, NotifyTypes DEF StartRefresh
  <2>2. LockTypes'
    BY <1>1 DEF StartRefresh, LockTypes
  <2>3. ObjectTypes'
    BY <1>1 DEF StartRefresh, ObjectTypes
  <2> QED BY <1>1, <2>1, <2>2, <2>3 DEF QueueTypes
<1>2. CASE \E t \in Task : RefreshDue(t)
  <2>1. PICK t \in Task : RefreshDue(t)
    BY <1>2
  <2>2. LockTypes' /\ ObjectTypes' /\ QueueTypes' /\ ViewTypes'
    BY <2>1, <1>1 DEF RefreshDue, loopVars, disk
  <2> QED BY <2>1, <2>2 DEF RefreshDue, loopVars, EntryTypes, EntryInv
<1>3. CASE \E t \in Task : WorkerRaised(t)
  <2>1. PICK t \in Task : WorkerRaised(t)
    BY <1>3
  <2>2. store' \in [Inst -> Seq(Jobs)] /\ ViewTypes'
    BY <2>1, NotifyTypes DEF WorkerRaised
  <2>3. LockTypes' /\ background' \subseteq Task /\ ObjectTypes'
    BY <2>1 DEF WorkerRaised, Leave, LockTypes, ObjectTypes, disk
  <2>4. EntryTypes' /\ done' = done
    BY <2>1 DEF WorkerRaised, EntryTypes, EntryInv, loopVars
  <2> QED BY <2>2, <2>3, <2>4 DEF QueueTypes
<1>4. CASE \E t \in Task : WorkerDone(t)
  <2>1. PICK t \in Task : WorkerDone(t)
    BY <1>4
  <2>2. Open(t) \in Jobs
    BY JobFacts DEF Tasks
  <2>3. store' \in [Inst -> Seq(Jobs)]
    <3>1. store' = store \/ store' = [store EXCEPT ![Owner(t)] = Append(@, Open(t))]
      BY <2>1 DEF WorkerDone
    <3>2. Owner(t) \in Inst /\ store[Owner(t)] \in Seq(Jobs)
      BY DEF QueueTypes
    <3>3. Append(store[Owner(t)], Open(t)) \in Seq(Jobs)
      BY <2>2, <3>2
    <3> QED BY <3>1, <3>2, <3>3 DEF QueueTypes
  <2>4. LockTypes' /\ background' \subseteq Task
    BY <2>1 DEF WorkerDone, Leave, LockTypes
  <2>5. /\ UNCHANGED <<loopVars, disk, conn, meta, done, state, view>>
    BY <2>1 DEF WorkerDone
  <2> QED BY <2>3, <2>4, <2>5 DEF QueueTypes, ObjectTypes, EntryTypes, EntryInv, ViewTypes, loopVars, disk, view
<1>5. CASE \E t \in Task : RefreshEnds(t)
  <2>1. PICK t \in Task : RefreshEnds(t)
    BY <1>5
  <2>2. store' \in [Inst -> Seq(Jobs)] /\ ViewTypes'
    <3>1. CASE loopAt[t] = "open"
      BY <2>1, <3>1, NotifyTypes DEF RefreshEnds
    <3>2. CASE loopAt[t] # "open"
      BY <2>1, <3>2 DEF RefreshEnds, QueueTypes, ViewTypes, view
    <3> QED BY <3>1, <3>2
  <2>3. done' \in [Inst -> Seq(Completions)]
    BY <2>1 DEF RefreshEnds, QueueTypes
  <2>4. LockTypes' /\ background' \subseteq Task
    BY <2>1 DEF RefreshEnds, Leave, LockTypes
  <2>5. /\ UNCHANGED <<loopVars, disk, conn, meta, state>>
    BY <2>1 DEF RefreshEnds
  <2> QED BY <2>2, <2>3, <2>4, <2>5 DEF QueueTypes, ObjectTypes, EntryTypes, EntryInv, loopVars, disk
<1>6. CASE \E t \in Task : ThreadStarts(t) \/ Publishes(t) \/ Raises(t)
  <2>1. LockTypes' /\ index' \in 0 .. MaxBuild /\ root' \in {"absent", "bare", "built"}
    BY <1>6, LifecycleAssumption DEF ThreadStarts, Publishes, Raises, ThreadEnds, LockTypes, ObjectTypes, disk
  <2>2. UNCHANGED <<loopVars, storeVars, background, state, view>>
    BY <1>6 DEF ThreadStarts, Publishes, Raises, ThreadEnds
  <2> QED BY <2>1, <2>2 DEF ObjectTypes, EntryTypes, EntryInv, QueueTypes, ViewTypes, loopVars, storeVars, view
<1>7. ASSUME NEW i \in Inst, NEW c \in Completions, store[i] # <<>>, Completes(i, c)
      PROVE  /\ QueueTypes' /\ LockTypes' /\ background' \subseteq Task /\ EntryTypes' /\ ViewTypes'
             /\ index' = index /\ root' = root
  <2>1. QueueTypes'
    BY <1>7 DEF Completes, QueueTypes
  <2>2. UNCHANGED <<loopVars, taskVars, disk, view>>
    BY <1>7 DEF Completes
  <2> QED BY <2>1, <2>2 DEF LockTypes, EntryTypes, EntryInv, ViewTypes, loopVars, taskVars, disk, view
<1>8. CASE \E i \in Inst : StoreReady(i) \/ StoreOpenFails(i)
  <2>1. PICK i \in Inst : StoreReady(i) \/ StoreOpenFails(i)
    BY <1>8
  <2>2. store[i] # <<>> /\ Head(store[i]).kind \in {"open", "opening"} /\ Head(store[i]) \in Jobs
    BY <2>1 DEF StoreReady, StoreOpenFails, Job, QueueTypes
  <2>3. Opened(Head(store[i]).task) \in Completions
    BY <2>2, JobFacts
  <2>4. Completes(i, Opened(Head(store[i]).task))
    BY <2>1 DEF StoreReady, StoreOpenFails
  <2>5. state' \in [Inst -> {"idle", "importing", "ready", "failed"}] /\ conn' \in [Inst -> 0 .. MaxBuild]
        /\ meta' = meta
    BY <2>1, LifecycleAssumption DEF StoreReady, StoreOpenFails, ObjectTypes
  <2> QED BY <1>7, <2>2, <2>3, <2>4, <2>5 DEF ObjectTypes
<1>9. CASE \E i \in Inst : StoreQueries(i)
  <2>1. PICK i \in Inst : StoreQueries(i)
    BY <1>9
  <2>2. store[i] # <<>> /\ Head(store[i]).kind = "query" /\ Head(store[i]) \in Jobs
    BY <2>1 DEF StoreQueries, Job, QueueTypes
  <2>3. PICK d \in Data : Completes(i, Answer(Head(store[i]), d))
    <3>1. CASE Completes(i, Answer(Head(store[i]), Failed))
      BY <3>1, DataFacts
    <3>2. CASE conn[i] # 0 /\ Completes(i, Answer(Head(store[i]), Rows(conn[i], Head(store[i]).window)))
      <4>1. Head(store[i]).window \in 0 .. MaxBuild /\ conn[i] \in 0 .. MaxBuild
        BY <2>2, JobFacts DEF ObjectTypes
      <4> QED BY <3>2, <4>1, DataFacts
    <3> QED BY <2>1, <3>1, <3>2 DEF StoreQueries
  <2>4. UNCHANGED <<conn, meta, state>>
    BY <2>1 DEF StoreQueries
  <2>5. Answer(Head(store[i]), d) \in Completions
    BY <2>2, JobFacts
  <2> QED BY <1>7, <2>2, <2>3, <2>4, <2>5 DEF ObjectTypes
<1>10. CASE \E i \in Inst : StoreSkips(i) \/ StoreOpens(i)
  <2>1. PICK i \in Inst : StoreSkips(i) \/ StoreOpens(i)
    BY <1>10
  <2>2. store[i] # <<>> /\ store[i] \in Seq(Jobs)
    BY <2>1 DEF StoreSkips, StoreOpens, Job, QueueTypes
  <2>3. store' \in [Inst -> Seq(Jobs)]
    <3>1. CASE StoreSkips(i)
      BY <2>2, <3>1 DEF StoreSkips, QueueTypes
    <3>2. CASE StoreOpens(i)
      <4>1. [Head(store[i]) EXCEPT !.kind = "opening"] \in Jobs
        <5>1. Head(store[i]) \in Jobs /\ Head(store[i]).kind = "open"
          BY <2>2, <3>2 DEF StoreOpens, Job
        <5> QED BY <5>1, JobFacts
      <4>2. <<[Head(store[i]) EXCEPT !.kind = "opening"]>> \o Tail(store[i]) \in Seq(Jobs)
        BY <2>2, <4>1
      <4> QED BY <3>2, <4>2 DEF StoreOpens, QueueTypes
    <3> QED BY <2>1, <3>1, <3>2
  <2>4. conn' \in [Inst -> 0 .. MaxBuild] /\ meta' \in [Inst -> 0 .. MaxBuild]
    BY <2>1 DEF StoreSkips, StoreOpens, ObjectTypes
  <2>5. UNCHANGED <<loopVars, taskVars, disk, done, state, view>>
    BY <2>1 DEF StoreSkips, StoreOpens
  <2> QED BY <2>3, <2>4, <2>5
    DEF LockTypes, ObjectTypes, EntryTypes, EntryInv, QueueTypes, ViewTypes, loopVars, taskVars, disk, view
<1>11. CASE \E w \in Watch : TimerPoll(w)
  <2>1. PICK w \in Watch : TimerPoll(w)
    BY <1>11
  <2>2. cur \in Inst
    BY <2>1 DEF TimerPoll, EntryTypes, EntryInv, Busy, Inst
  <2>3. store' \in [Inst -> Seq(Jobs)] /\ ViewTypes'
    BY <2>1, <2>2, PollTypes DEF TimerPoll
  <2>4. UNCHANGED <<loopVars, taskVars, disk, conn, meta, done, state>>
    BY <2>1 DEF TimerPoll
  <2> QED BY <2>3, <2>4 DEF LockTypes, ObjectTypes, EntryTypes, EntryInv, QueueTypes, loopVars, taskVars, disk
<1>12. CASE SetupPolls
  <2>1. cur \in Inst /\ toPoll <= NWatch /\ phase = "polling"
    BY <1>12 DEF SetupPolls, EntryTypes, EntryInv, Busy, Inst
  <2>2. store' \in [Inst -> Seq(Jobs)] /\ ViewTypes'
    <3>1. toPoll \in Watch
      BY <2>1, LifecycleAssumption DEF EntryTypes, EntryInv, Watch
    <3> QED BY <1>12, <2>1, <3>1, PollTypes DEF SetupPolls
  <2>3. UNCHANGED <<taskVars, disk, conn, meta, done, state, cur, closed, listening, timed>>
    BY <1>12 DEF SetupPolls
  <2>4. /\ phase' \in {"polling", "awaiting"} /\ toPoll' \in 0 .. NWatch + 1
        /\ phase' = "awaiting" => toPoll' <= NWatch
        /\ toPoll' # 0
    BY <1>12, <2>1, LifecycleAssumption DEF SetupPolls, EntryTypes, EntryInv
  <2> QED BY <2>1, <2>2, <2>3, <2>4 DEF LockTypes, ObjectTypes, EntryTypes, EntryInv, QueueTypes, taskVars, disk, Busy
<1>13. CASE \E i \in Inst : PollEnds(i)
  <2>1. PICK i \in Inst : PollEnds(i)
    BY <1>13
  <2>2. Head(done[i]) \in Completions /\ Head(done[i]).kind = "answer"
    BY <2>1 DEF PollEnds, QueueTypes
  <2>3. Head(done[i]).watch \in Watch /\ Head(done[i]).data \in Data
    BY <2>2, JobFacts
  <2>4. ViewTypes'
    BY <2>1, <2>3 DEF PollEnds, Writes, ViewTypes, ObjectTypes, view
  <2>5. done' \in [Inst -> Seq(Completions)]
    BY <2>1 DEF PollEnds, QueueTypes
  <2>6. UNCHANGED <<taskVars, disk, store, conn, meta, state, cur, closed, listening, timed>>
    BY <2>1 DEF PollEnds
  <2>7. \/ UNCHANGED <<phase, toPoll>>
        \/ phase = "awaiting" /\ phase' = "polling" /\ toPoll' = toPoll + 1
    BY <2>1 DEF PollEnds
  <2> QED BY <2>4, <2>5, <2>6, <2>7, LifecycleAssumption
    DEF LockTypes, ObjectTypes, EntryTypes, EntryInv, QueueTypes, taskVars, disk, Busy
<1>14. CASE SetupBegins
  <2>1. cur + 1 \in Inst /\ cur' = cur + 1
    BY <1>14, LifecycleAssumption DEF SetupBegins, EntryTypes, Inst
  <2>2. Open(NoTask) \in Jobs /\ Opened(NoTask) \in Completions
    BY JobFacts DEF Tasks
  <2>3. QueueTypes'
    <3>1. <<Open(NoTask)>> \in Seq(Jobs) /\ <<Opened(NoTask)>> \in Seq(Completions)
      BY <2>2
    <3>2. \/ store' = [store EXCEPT ![cur + 1] = <<Open(NoTask)>>] /\ done' = done
          \/ done' = [done EXCEPT ![cur + 1] = <<Opened(NoTask)>>] /\ store' = store
      BY <1>14 DEF SetupBegins
    <3> QED BY <2>1, <3>1, <3>2 DEF QueueTypes
  <2>4. ViewTypes'
    BY <1>14, DataFacts DEF SetupBegins, ViewTypes
  <2>5. /\ UNCHANGED <<taskVars, disk, conn, meta, state, closed, timed, toPoll>>
        /\ listening' = listening \cup {cur + 1} /\ phase' = "opening"
    BY <1>14 DEF SetupBegins
  <2> QED BY <2>1, <2>3, <2>4, <2>5, LifecycleAssumption
    DEF LockTypes, ObjectTypes, EntryTypes, EntryInv, taskVars, disk, Inst
<1>15. CASE SetupOpened
  <2>1. cur \in Inst
    BY <1>15 DEF SetupOpened, EntryTypes, EntryInv, Busy, Inst
  <2>2. /\ UNCHANGED <<index, root, conn, meta, cur, closed, listening>>
        /\ phase' = "polling" /\ toPoll' = 1 /\ timed' = timed \cup {cur}
        /\ done[cur] # <<>> /\ done' = [done EXCEPT ![cur] = Tail(@)]
    BY <1>15 DEF SetupOpened, disk
  <2>3. QueueTypes' /\ LockTypes' /\ ObjectTypes' /\ ViewTypes' /\ background' \subseteq Task
    <3>1. done' \in [Inst -> Seq(Completions)]
      BY <2>1, <2>2 DEF QueueTypes
    <3>2. CASE \E t \in Task : Owner(t) = cur /\ StartRefresh(t) /\ background' = background \cup {t}
      <4>1. PICK t \in Task : StartRefresh(t) /\ background' = background \cup {t}
        BY <3>2
      <4>2. store' \in [Inst -> Seq(Jobs)] /\ ViewTypes'
        BY <4>1, NotifyTypes DEF StartRefresh
      <4>3. LockTypes' /\ ObjectTypes'
        BY <2>2, <4>1 DEF StartRefresh, LockTypes, ObjectTypes
      <4> QED BY <3>1, <4>1, <4>2, <4>3 DEF QueueTypes
    <3>3. CASE UNCHANGED <<taskVars, state, store, view>>
      BY <2>2, <3>1, <3>3 DEF QueueTypes, LockTypes, ObjectTypes, ViewTypes, taskVars, view
    <3> QED BY <1>15, <3>2, <3>3 DEF SetupOpened
  <2> QED BY <2>1, <2>2, <2>3, LifecycleAssumption DEF EntryTypes, EntryInv, Inst
<1>16. CASE SetupEnds
  <2>1. cur \in Inst /\ cur # 0
    BY <1>16 DEF SetupEnds, EntryTypes, EntryInv, Busy, Inst
  <2>2. attrs' \in [Watch -> 0 .. MaxBuild]
    BY <1>16, <2>1 DEF SetupEnds, ObjectTypes
  <2>3. /\ UNCHANGED <<taskVars, storeVars, disk, state, shown, cur, closed, listening, timed>>
        /\ phase' = "loaded" /\ toPoll' = 0
    BY <1>16 DEF SetupEnds
  <2>4. EntryTypes'
    BY <2>1, <2>3, LifecycleAssumption DEF EntryTypes, EntryInv
  <2> QED BY <2>2, <2>3, <2>4 DEF LockTypes, ObjectTypes, QueueTypes, ViewTypes, taskVars, storeVars, disk
<1>17. CASE UnloadBegins \/ UnloadRefused \/ RemoveBegins \/ RemovesTree
  <2>1. UNCHANGED <<taskVars, storeVars, index, state, view, cur, toPoll, timed>>
    BY <1>17 DEF UnloadBegins, UnloadRefused, RemoveBegins, RemovesTree, disk
  <2>2. root' \in {"absent", "bare", "built"}
    BY <1>17 DEF UnloadBegins, UnloadRefused, RemoveBegins, RemovesTree, disk, ObjectTypes
  <2>3. EntryTypes'
    <3>1. CASE UnloadRefused
      <4>1. cur \in Inst
        BY <3>1 DEF UnloadRefused, EntryTypes, EntryInv, Busy, Inst
      <4> QED BY <2>1, <3>1, <4>1 DEF UnloadRefused, Shutdown, EntryTypes, EntryInv, Busy
    <3>2. CASE UnloadBegins
      BY <2>1, <3>2 DEF UnloadBegins, EntryTypes, EntryInv, Busy
    <3>3. CASE RemoveBegins \/ RemovesTree
      BY <2>1, <3>3 DEF RemoveBegins, RemovesTree, EntryTypes, EntryInv, Busy
    <3> QED BY <1>17, <3>1, <3>2, <3>3
  <2> QED BY <2>1, <2>2, <2>3 DEF LockTypes, ObjectTypes, QueueTypes, ViewTypes, taskVars, storeVars, view
<1>18. CASE Unloads
  <2> DEFINE gone == {t \in background : Owner(t) = cur}
  <2>1. cur \in Inst
    BY <1>18 DEF Unloads, EntryTypes, EntryInv, Busy, Inst
  <2>2. Cancels(store[cur], gone) \in Seq(Jobs)
    <3> DEFINE jobs == store[cur]
    <3>1. jobs \in Seq(Jobs)
      BY <2>1 DEF QueueTypes
    <3>2. \A k \in DOMAIN jobs : jobs[k] \in Jobs
      BY <3>1
    <3> HIDE DEF jobs, gone
    <3>3. \A k \in DOMAIN jobs :
            (IF jobs[k].kind = "open" /\ jobs[k].task \in gone
             THEN [jobs[k] EXCEPT !.kind = "cancelled"] ELSE jobs[k]) \in Jobs
      BY <3>2, JobFacts
    <3>4. Cancels(jobs, gone) \in Seq(Jobs)
      BY <3>1, <3>3 DEF Cancels
    <3> QED BY <3>4 DEF jobs
  <2>3. QueueTypes'
    BY <1>18, <2>1, <2>2 DEF Unloads, QueueTypes
  <2>4. LockTypes' /\ background' \subseteq Task
    BY <1>18 DEF Unloads, LockTypes
  <2>5. EntryTypes' /\ UNCHANGED <<disk, conn, meta, state, view>>
    BY <1>18, <2>1 DEF Unloads, Shutdown, EntryTypes, EntryInv, Busy
  <2> QED BY <2>3, <2>4, <2>5 DEF ObjectTypes, ViewTypes, disk, view
<1>19. CASE UNCHANGED vars
  BY <1>19 DEF vars, LockTypes, ObjectTypes, EntryTypes, EntryInv, QueueTypes, ViewTypes
<1> QED
  BY <1>2, <1>3, <1>4, <1>5, <1>6, <1>8, <1>9, <1>10, <1>11, <1>12, <1>13, <1>14, <1>15, <1>16,
     <1>17, <1>18, <1>19 DEF Next, Loop, Threads

LEMMA TypeInvariance == Spec => []TypeInv
<1>1. Init => TypeInv
  BY DataFacts, LifecycleAssumption DEF Init, TypeInv, LockTypes, ObjectTypes, EntryTypes, EntryInv,
     QueueTypes, ViewTypes, Busy
<1> QED BY <1>1, TypesKept, PTL DEF Spec

(* Every variable keeps its type: what waits for the loop and for a store  *)
(* thread is well formed, and a watch shows something it can have found.   *)
THEOREM TypeCorrect == Spec => []TypeOK
<1>1. TypeInv => TypeOK
  BY DEF TypeInv, TypeOK, LockTypes, ObjectTypes, EntryTypes, QueueTypes, ViewTypes
<1> QED BY <1>1, TypeInvariance, PTL

-----------------------------------------------------------------------------
(* Objects that were closed                                                *)

(* Which object is listening, timed or closed at each phase of the entry.  *)
EntryShape ==
  /\ closed \subseteq 1 .. cur /\ timed \subseteq 1 .. cur
  /\ listening \subseteq {cur} /\ listening \cap closed = {}
  /\ IF phase \in Busy THEN cur \notin closed ELSE listening = {}
  /\ phase = "opening" => cur \notin timed

LEMMA ShapeKept == TypeInv /\ EntryShape /\ [Next]_vars => EntryShape'
<1> SUFFICES ASSUME TypeInv, EntryShape, [Next]_vars PROVE EntryShape'
  OBVIOUS
<1> USE DEF EntryShape, Busy
<1>1. cur \in Nat /\ (phase \in Busy => cur >= 1)
  BY LifecycleAssumption DEF TypeInv, EntryTypes, EntryInv
<1>2. CASE UNCHANGED loopVars
  BY <1>2 DEF loopVars
<1>3. CASE \E i \in Inst : PollEnds(i)
  BY <1>3 DEF PollEnds
<1>4. CASE SetupBegins
  BY <1>1, <1>4 DEF SetupBegins
<1>5. CASE SetupOpened
  BY <1>1, <1>5 DEF SetupOpened
<1>6. CASE SetupPolls \/ SetupEnds \/ UnloadBegins \/ RemoveBegins \/ RemovesTree
  BY <1>6 DEF SetupPolls, SetupEnds, UnloadBegins, RemoveBegins, RemovesTree
<1>7. CASE Unloads \/ UnloadRefused
  <2>1. /\ closed' = closed \cup {cur} /\ listening' = listening \ {cur} /\ cur' = cur
        /\ timed' \subseteq timed /\ phase' \in {"unloaded", "failed"} /\ phase = "unloading"
    BY <1>7 DEF Unloads, UnloadRefused, Shutdown
  <2>2. cur \in 1 .. cur
    BY <1>1, <2>1
  <2>3. listening' = {}
    BY <2>1
  <2> QED BY <2>1, <2>2, <2>3
<1>8. CASE \E t \in Task : \/ RefreshDue(t) \/ WorkerRaised(t) \/ WorkerDone(t) \/ RefreshEnds(t)
                          \/ ThreadStarts(t) \/ Publishes(t) \/ Raises(t)
  <2>1. UNCHANGED loopVars
    BY <1>8 DEF RefreshDue, WorkerRaised, WorkerDone, RefreshEnds, ThreadStarts, Publishes, Raises, ThreadEnds
  <2> QED BY <1>2, <2>1
<1>9. CASE \/ \E i \in Inst : StoreSkips(i) \/ StoreOpens(i) \/ StoreReady(i) \/ StoreOpenFails(i) \/ StoreQueries(i)
           \/ \E w \in Watch : TimerPoll(w)
  <2>1. UNCHANGED loopVars
    BY <1>9 DEF StoreSkips, StoreOpens, StoreReady, StoreOpenFails, StoreQueries, Completes, TimerPoll
  <2> QED BY <1>2, <2>1
<1>10. CASE UNCHANGED vars
  BY <1>2, <1>10 DEF vars, loopVars
<1> QED
  BY <1>3, <1>4, <1>5, <1>6, <1>7, <1>8, <1>9, <1>10 DEF Next, Loop, Threads

LEMMA ShapeInvariance == Spec => [](TypeInv /\ EntryShape)
<1>1. Init => EntryShape
  BY DEF Init, EntryShape, Busy
<1> QED BY <1>1, TypeInvariance, ShapeKept, PTL DEF Spec

(* Listeners queue jobs for the object of the listening coordinators only, *)
(* and polls for the newest object.                                        *)
LEMMA NotifyStays ==
  ASSUME TypeInv, EntryShape, NEW i \in Inst, NEW s, Notify(i, s), NEW j \in closed
  PROVE  store'[j] = store[j]
<1>1. store \in [Inst -> Seq(Jobs)] /\ j \in Inst
  BY DEF TypeInv, QueueTypes, EntryTypes
<1>2. CASE i \in listening /\ CanQuery(s)
  <2>1. i # j
    BY <1>2 DEF EntryShape
  <2> QED BY <1>1, <1>2, <2>1 DEF Notify
<1> QED BY <1>2 DEF Notify

LEMMA PollStays ==
  ASSUME TypeInv, EntryShape, NEW w, NEW by, phase \in Busy, Poll(w, by), NEW j \in closed
  PROVE  store'[j] = store[j]
<1>1. store \in [Inst -> Seq(Jobs)] /\ j \in Inst /\ j # cur
  BY DEF TypeInv, QueueTypes, EntryTypes, EntryShape
<1> QED BY <1>1 DEF Poll

(* Nothing is submitted to the executor of an object that was closed.      *)
THEOREM ClosedStayQuiet == Spec => NothingAfterClose
<1> DEFINE Quieter == \A i \in closed : Len(store'[i]) <= Len(store[i])
<1>1. ASSUME TypeInv, EntryShape, [Next]_vars PROVE Quieter
  <2> SUFFICES ASSUME NEW j \in closed PROVE Len(store'[j]) <= Len(store[j])
    OBVIOUS
  <2>1. /\ store \in [Inst -> Seq(Jobs)] /\ j \in Inst /\ store[j] \in Seq(Jobs)
        /\ Len(store[j]) \in Nat
    BY <1>1 DEF TypeInv, QueueTypes, EntryTypes
  <2>2. CASE store'[j] = store[j]
    BY <2>1, <2>2
  <2>3. CASE \E t \in Task : RefreshDue(t) \/ WorkerRaised(t) \/ RefreshEnds(t)
    <3>1. PICK t \in Task : RefreshDue(t) \/ WorkerRaised(t) \/ RefreshEnds(t)
      BY <2>3
    <3>2. store' = store \/ \E s : Notify(Owner(t), s)
      BY <3>1 DEF RefreshDue, StartRefresh, WorkerRaised, RefreshEnds
    <3> QED BY <1>1, <2>2, <3>2, TaskFacts, NotifyStays
  <2>4. CASE \E t \in Task : WorkerDone(t)
    <3>1. store'[j] = store[j]
      BY <2>1, <2>4 DEF WorkerDone, Accepts
    <3> QED BY <2>2, <3>1
  <2>5. CASE \E t \in Task : ThreadStarts(t) \/ Publishes(t) \/ Raises(t)
    <3>1. store' = store
      BY <2>5 DEF ThreadStarts, Publishes, Raises, ThreadEnds, storeVars
    <3> QED BY <2>2, <3>1
  <2>6. ASSUME NEW i \in Inst, store[i] # <<>>, store' = [store EXCEPT ![i] = Tail(@)]
        PROVE  Len(store'[j]) <= Len(store[j])
    <3>1. CASE i # j
      BY <2>1, <2>2, <2>6, <3>1
    <3>2. CASE i = j
      BY <2>1, <2>6, <3>2
    <3> QED BY <3>1, <3>2
  <2>7. CASE \E i \in Inst : StoreSkips(i) \/ StoreReady(i) \/ StoreOpenFails(i) \/ StoreQueries(i)
    BY <2>6, <2>7 DEF StoreSkips, StoreReady, StoreOpenFails, StoreQueries, Completes, Job
  <2>8. CASE \E i \in Inst : StoreOpens(i)
    <3>1. PICK i \in Inst : StoreOpens(i)
      BY <2>8
    <3>2. CASE i # j
      <4>1. store'[j] = store[j]
        BY <2>1, <3>1, <3>2 DEF StoreOpens
      <4> QED BY <2>2, <4>1
    <3>3. CASE i = j
      <4> DEFINE head == [Head(store[i]) EXCEPT !.kind = "opening"]
      <4>1. store'[j] = <<head>> \o Tail(store[j]) /\ store[j] # <<>>
        BY <2>1, <3>1, <3>3 DEF StoreOpens, Job
      <4> HIDE DEF head
      <4>2. Tail(store[j]) \in Seq(Jobs) /\ Len(Tail(store[j])) = Len(store[j]) - 1
        BY <2>1, <4>1
      <4>3. Len(<<head>> \o Tail(store[j])) = 1 + Len(Tail(store[j]))
        <5>1. <<head>> \in Seq({head}) /\ Len(<<head>>) = 1
          OBVIOUS
        <5>2. <<head>> \in Seq(Jobs \cup {head}) /\ Tail(store[j]) \in Seq(Jobs \cup {head})
          BY <4>2
        <5> QED BY <5>1, <5>2
      <4> QED BY <2>1, <4>1, <4>2, <4>3
    <3> QED BY <3>2, <3>3
  <2>9. CASE (\E w \in Watch : TimerPoll(w)) \/ SetupPolls
    <3>1. phase \in Busy /\ \E w, by : Poll(w, by)
      BY <2>9 DEF TimerPoll, SetupPolls, Busy
    <3> QED BY <1>1, <2>2, <3>1, PollStays
  <2>10. CASE (\E i \in Inst : PollEnds(i)) \/ SetupEnds \/ UnloadBegins \/ UnloadRefused
              \/ RemoveBegins \/ RemovesTree
    <3>1. store' = store
      BY <2>10 DEF PollEnds, SetupEnds, UnloadBegins, UnloadRefused, RemoveBegins, RemovesTree, storeVars
    <3> QED BY <2>2, <3>1
  <2>11. CASE SetupBegins
    <3>1. cur \in Int /\ j # cur + 1
      BY <1>1, LifecycleAssumption DEF TypeInv, EntryTypes, EntryShape
    <3>2. store'[j] = store[j]
      BY <2>1, <2>11, <3>1 DEF SetupBegins
    <3> QED BY <2>2, <3>2
  <2>12. CASE SetupOpened
    <3>1. store' = store \/ \E t \in Task : \E s : Notify(Owner(t), s)
      BY <2>12 DEF SetupOpened, StartRefresh
    <3> QED BY <1>1, <2>2, <3>1, TaskFacts, NotifyStays
  <2>13. CASE Unloads
    <3>1. j # cur
      BY <1>1, <2>13 DEF EntryShape, Unloads, Busy
    <3>2. store'[j] = store[j]
      BY <2>1, <2>13, <3>1 DEF Unloads
    <3> QED BY <2>2, <3>2
  <2>14. CASE UNCHANGED vars
    BY <2>2, <2>14 DEF vars
  <2> QED
    BY <1>1, <2>3, <2>4, <2>5, <2>7, <2>8, <2>9, <2>10, <2>11, <2>12, <2>13, <2>14
    DEF Next, Loop, Threads
<1> QED BY <1>1, ShapeInvariance, PTL DEF Spec, NothingAfterClose

-----------------------------------------------------------------------------
(* Queues: an object has at most one open on its way, and no query behind  *)

(* The elements of a sequence that was added to, or that lost its head.    *)
LEMMA TailFacts ==
  ASSUME NEW S, NEW s \in Seq(S), s # <<>>
  PROVE  /\ Tail(s) \in Seq(S) /\ Len(s) \in Nat /\ 1 \in DOMAIN s /\ Head(s) = s[1] /\ Head(s) \in S
         /\ DOMAIN s = 1 .. Len(s) /\ Len(Tail(s)) = Len(s) - 1
         /\ \A k \in DOMAIN Tail(s) : k \in Nat \ {0} /\ k + 1 \in DOMAIN s /\ Tail(s)[k] = s[k + 1]
  OBVIOUS

LEMMA AppendFacts ==
  ASSUME NEW S, NEW s \in Seq(S), NEW x \in S
  PROVE  /\ Append(s, x) \in Seq(S) /\ Len(Append(s, x)) = Len(s) + 1 /\ Len(s) \in Nat
         /\ DOMAIN s = 1 .. Len(s) /\ DOMAIN Append(s, x) = 1 .. Len(s) + 1
         /\ \A k \in DOMAIN Append(s, x) :
              \/ k \in DOMAIN s /\ Append(s, x)[k] = s[k]
              \/ k = Len(s) + 1 /\ Append(s, x)[k] = x
  OBVIOUS

LEMMA ConcatFacts ==
  ASSUME NEW S, NEW s \in Seq(S), NEW u \in Seq(S)
  PROVE  /\ s \o u \in Seq(S)
         /\ \A k \in DOMAIN (s \o u) :
              \/ k \in DOMAIN s /\ (s \o u)[k] = s[k]
              \/ k - Len(s) \in DOMAIN u /\ (s \o u)[k] = u[k - Len(s)]
  OBVIOUS

Opens == {"open", "opening"}
HasOpen(q) == \E k \in DOMAIN q : q[k].kind \in Opens

(* Set-up, or the refresh that holds the lock, is the one that opens.      *)
Holds(t, i) ==
  IF t = NoTask THEN i = cur /\ phase = "opening" ELSE lock[i] = t /\ loopAt[t] = "open"

(* While object i is not closed, one open at most is on its way, either to *)
(* the store thread or back.                                               *)
OpenInv(i) ==
  /\ \A k \in DOMAIN store[i] : store[i][k].kind \in Opens => Holds(store[i][k].task, i)
  /\ \A k \in DOMAIN done[i] :
       done[i][k].kind = "opened" => Holds(done[i][k].task, i) /\ ~HasOpen(store[i])
  /\ \A j, k \in DOMAIN done[i] : done[i][j].kind = "opened" /\ done[i][k].kind = "opened" => j = k
  /\ \A t \in Task : lock[i] = t /\ loopAt[t] = "worker" => state[i] = "importing" /\ ~HasOpen(store[i])
  /\ i = cur /\ phase = "opening" => lock[i] = NoTask

Fresh(i) ==
  state[i] = "idle" /\ store[i] = <<>> /\ done[i] = <<>> /\ conn[i] = 0 /\ lock[i] = NoTask

(* A query carries the window of the index it will be asked of.            *)
QueueInv(i) ==
  /\ conn[i] \in {0, meta[i]}
  /\ \A k \in DOMAIN store[i] :
       /\ store[i][k].kind = "query" => store[i][k].window = meta[i]
       /\ store[i][k].kind \in Opens => k = Len(store[i]) /\ state[i] # "ready"

Sound(i) ==
  /\ i \notin closed => OpenInv(i)
  /\ i > cur => Fresh(i)
  /\ QueueInv(i)
  /\ lock[i] # NoTask => Owner(lock[i]) = i

OpensInv == \A i \in Inst : Sound(i)

EntryFacts == TypeInv /\ EntryShape /\ LockDiscipline /\ OpensInv

(* An object that a step does not touch stays as it should be.             *)
LEMMA SoundFrame ==
  ASSUME EntryFacts, NEW i \in Inst,
         store'[i] = store[i], done'[i] = done[i], conn'[i] = conn[i], meta'[i] = meta[i],
         state'[i] = state[i], lock'[i] = lock[i],
         \A t \in Task : Owner(t) = i => loopAt'[t] = loopAt[t],
         closed \subseteq closed', i > cur' => i > cur,
         i = cur' /\ phase' = "opening" <=> i = cur /\ phase = "opening"
  PROVE  Sound(i)'
<1>1. Sound(i) /\ (lock[i] # NoTask => lock[i] \in Task)
  BY DEF EntryFacts, OpensInv, TypeInv, LockTypes
<1>2. \A t \in Task : lock[i] = t => loopAt'[t] = loopAt[t]
  BY <1>1, TaskFacts DEF Sound
<1>3. \A k \in DOMAIN store[i] : store[i][k].kind \in Opens => store[i][k].task \in Tasks
  BY JobFacts DEF EntryFacts, TypeInv, QueueTypes, Opens
<1>4. \A k \in DOMAIN done[i] : done[i][k].kind = "opened" => done[i][k].task \in Tasks
  <2> SUFFICES ASSUME NEW k \in DOMAIN done[i], done[i][k].kind = "opened" PROVE done[i][k].task \in Tasks
    OBVIOUS
  <2>1. done[i][k] \in Completions
    BY DEF EntryFacts, TypeInv, QueueTypes
  <2> QED BY <2>1 DEF Completions, Opened, Tasks
<1>5. \A t \in Tasks : Holds(t, i) => Holds(t, i)'
  BY <1>2 DEF Holds, Tasks
<1>6. HasOpen(store'[i]) <=> HasOpen(store[i])
  BY DEF HasOpen
<1>7. i \notin closed => OpenInv(i)'
  BY <1>1, <1>2, <1>3, <1>4, <1>5, <1>6 DEF Sound, OpenInv
<1>8. QueueInv(i)' /\ (i > cur' => Fresh(i)')
  BY <1>1 DEF Sound, QueueInv, Fresh
<1> QED BY <1>1, <1>7, <1>8 DEF Sound

(* No open in the queue, and every query with the window of m.             *)
Clean(q, m) == \A k \in DOMAIN q : /\ q[k].kind \notin Opens
                                   /\ q[k].kind = "query" => q[k].window = m

(* Polls add queries behind queries only, and only to the queue of an      *)
(* object that says it is ready.                                           *)
LEMMA ReadyIsClean ==
  ASSUME EntryFacts, NEW i \in Inst, state[i] = "ready"
  PROVE  Clean(store[i], meta[i])
  BY DEF EntryFacts, OpensInv, Sound, QueueInv, Clean

LEMMA NotifyQueues ==
  ASSUME EntryFacts, NEW i \in Inst, NEW s, Notify(i, s), CanQuery(s) => state[i] = "ready"
  PROVE  /\ \A x \in Inst : x # i => store'[x] = store[x]
         /\ store'[i] = store[i] \/ (i \in listening /\ CanQuery(s) /\ Clean(store'[i], meta[i]))
<1>1. store \in [Inst -> Seq(Jobs)] /\ meta[i] \in 0 .. MaxBuild
  BY DEF EntryFacts, TypeInv, QueueTypes, ObjectTypes
<1>2. CASE i \in listening /\ CanQuery(s)
  <2> DEFINE new == [w \in Watch |-> Query(w, "notify", meta[i])]
  <2>1. new \in Seq(Jobs)
    <3>1. \A w \in Watch : Query(w, "notify", meta[i]) \in Jobs
      BY <1>1, JobFacts
    <3> QED BY <3>1, LifecycleAssumption DEF Watch
  <2>2. \A k \in DOMAIN new : new[k].kind = "query" /\ new[k].window = meta[i]
    BY DEF Query
  <2>3. store' = [store EXCEPT ![i] = store[i] \o new]
    BY <1>2 DEF Notify
  <2> HIDE DEF new
  <2>4. Clean(store[i] \o new, meta[i])
    <3>1. store[i] \in Seq(Jobs) /\ Clean(store[i], meta[i])
      BY <1>1, <1>2, ReadyIsClean
    <3>2. \A k \in DOMAIN (store[i] \o new) :
            \/ k \in DOMAIN store[i] /\ (store[i] \o new)[k] = store[i][k]
            \/ k - Len(store[i]) \in DOMAIN new /\ (store[i] \o new)[k] = new[k - Len(store[i])]
      BY <2>1, <3>1, ConcatFacts
    <3> QED BY <2>2, <3>1, <3>2 DEF Clean, Opens
  <2> QED BY <1>1, <1>2, <2>3, <2>4
<1>3. CASE ~(i \in listening /\ CanQuery(s))
  BY <1>3 DEF Notify
<1> QED BY <1>2, <1>3

LEMMA PollQueues ==
  ASSUME EntryFacts, cur \in Inst, NEW w \in Watch, NEW by \in {"setup", "timer", "notify"}, Poll(w, by)
  PROVE  /\ \A x \in Inst : x # cur => store'[x] = store[x]
         /\ store'[cur] = store[cur] \/ (state[cur] = "ready" /\ Clean(store'[cur], meta[cur]))
<1>1. store \in [Inst -> Seq(Jobs)] /\ meta[cur] \in 0 .. MaxBuild
  BY DEF EntryFacts, TypeInv, QueueTypes, ObjectTypes
<1>2. CASE CanQuery(state[cur])
  <2> DEFINE new == Query(w, by, meta[cur])
  <2>1. new \in Jobs /\ new.kind = "query" /\ new.window = meta[cur]
    BY <1>1, JobFacts DEF Query
  <2>2. store' = [store EXCEPT ![cur] = Append(store[cur], new)] /\ state[cur] = "ready"
    BY <1>2 DEF Poll, CanQuery
  <2> HIDE DEF new
  <2>3. Clean(store[cur], meta[cur]) /\ store[cur] \in Seq(Jobs)
    BY <1>1, <2>2, ReadyIsClean
  <2>4. \A k \in DOMAIN Append(store[cur], new) :
          \/ k \in DOMAIN store[cur] /\ Append(store[cur], new)[k] = store[cur][k]
          \/ k = Len(store[cur]) + 1 /\ Append(store[cur], new)[k] = new
    BY <2>1, <2>3, AppendFacts
  <2>5. Clean(Append(store[cur], new), meta[cur])
    BY <2>1, <2>3, <2>4 DEF Clean, Opens
  <2> QED BY <1>1, <2>2, <2>5
<1>3. CASE ~CanQuery(state[cur])
  BY <1>3 DEF Poll
<1> QED BY <1>2, <1>3

(* The refresh at the worker job of an open object holds its lock, and     *)
(* nothing is being opened meanwhile.                                      *)
LEMMA WorkerOpensNothing ==
  ASSUME EntryFacts, NEW t \in Task, loopAt[t] = "worker", Owner(t) \notin closed
  PROVE  LET i == Owner(t) IN
         /\ lock[i] = t /\ state[i] = "importing" /\ ~HasOpen(store[i]) /\ i <= cur
         /\ \A k \in DOMAIN done[i] : done[i][k].kind # "opened"
<1> DEFINE i == Owner(t)
<1>1. i \in Inst /\ t # NoTask
  BY TaskFacts
<1>2. lock[i] = t
  BY DEF EntryFacts, LockDiscipline
<1>3. OpenInv(i) /\ (i > cur => Fresh(i))
  BY <1>1 DEF EntryFacts, OpensInv, Sound
<1>4. state[i] = "importing" /\ ~HasOpen(store[i])
  BY <1>2, <1>3 DEF OpenInv
<1>5. \A k \in DOMAIN done[i] : done[i][k].kind # "opened"
  BY <1>1, <1>2, <1>3 DEF OpenInv, Holds
<1>6. ~(i > cur)
  BY <1>1, <1>2, <1>3 DEF Fresh
<1>7. i \in Int /\ cur \in Int
  BY <1>1, LifecycleAssumption DEF EntryFacts, TypeInv, EntryTypes, Inst
<1> QED BY <1>2, <1>4, <1>5, <1>6, <1>7

(* What is known of one object, unfolded.                                  *)
LEMMA ObjectFacts ==
  ASSUME EntryFacts, NEW i \in Inst
  PROVE  /\ store[i] \in Seq(Jobs) /\ done[i] \in Seq(Completions)
         /\ i \in Int /\ cur \in Int /\ lock[i] \in Tasks
         /\ i \notin closed => OpenInv(i)
         /\ QueueInv(i)
         /\ lock[i] # NoTask => Owner(lock[i]) = i
         /\ i \in closed \/ i = cur \/ store[i] # <<>> \/ done[i] # <<>> \/ lock[i] # NoTask => i <= cur
<1>1. /\ store[i] \in Seq(Jobs) /\ done[i] \in Seq(Completions)
      /\ i \in Int /\ cur \in Int /\ lock[i] \in Tasks
  BY LifecycleAssumption
  DEF EntryFacts, TypeInv, QueueTypes, EntryTypes, LockTypes, Tasks, Inst
<1>2. Sound(i) /\ (i \in closed => i <= cur)
  BY <1>1 DEF EntryFacts, OpensInv, EntryShape
<1> QED BY <1>1, <1>2 DEF Sound, Fresh

(* A refresh starts on an object that opens nothing.                       *)
LEMMA StartSound ==
  ASSUME EntryFacts, NEW t \in Task, StartRefresh(t), Owner(t) <= cur, closed' = closed, cur' = cur,
         conn' = conn, meta' = meta, ~(Owner(t) = cur' /\ phase' = "opening"),
         ~HasOpen(store[Owner(t)]),
         \A k \in DOMAIN done'[Owner(t)] : done'[Owner(t)][k].kind # "opened"
  PROVE  Sound(Owner(t))'
<1> DEFINE i == Owner(t)
<1>1. i \in Inst /\ t # NoTask
  BY TaskFacts
<1>2. store' = store
  BY DEF StartRefresh, Notify, CanQuery
<1>3. lock'[i] = t /\ state'[i] = "importing" /\ loopAt'[t] = "worker"
  BY <1>1 DEF StartRefresh, EntryFacts, TypeInv, LockTypes, ObjectTypes
<1>4. QueueInv(i) /\ i \in Int /\ cur \in Int
  BY <1>1, ObjectFacts
<1>5. OpenInv(i)'
  BY <1>1, <1>2, <1>3 DEF OpenInv, HasOpen
<1>6. QueueInv(i)'
  BY <1>2, <1>3, <1>4 DEF QueueInv, HasOpen
<1> QED BY <1>3, <1>4, <1>5, <1>6 DEF Sound

(* The store thread takes a job that opens nothing off the queue.          *)
LEMMA PopSound ==
  ASSUME EntryFacts, NEW i \in Inst, store[i] # <<>>, store'[i] = Tail(store[i]),
         done'[i] = done[i] \/ \E c \in Completions : c.kind # "opened" /\ done'[i] = Append(done[i], c),
         UNCHANGED <<conn, meta, state, lock, loopAt, closed, cur, phase>>
  PROVE  Sound(i)'
<1>1. /\ store[i] \in Seq(Jobs) /\ done[i] \in Seq(Completions)
      /\ i \in Int /\ cur \in Int /\ i <= cur
      /\ (i \notin closed => OpenInv(i)) /\ QueueInv(i)
      /\ (lock[i] # NoTask => Owner(lock[i]) = i)
  BY ObjectFacts
<1>2. /\ DOMAIN store[i] = 1 .. Len(store[i]) /\ Len(store'[i]) = Len(store[i]) - 1 /\ Len(store[i]) \in Nat
      /\ \A k \in DOMAIN store'[i] : k \in Nat \ {0} /\ k + 1 \in DOMAIN store[i] /\ store'[i][k] = store[i][k + 1]
  BY <1>1, TailFacts
<1>3. \A k \in DOMAIN done'[i] : done'[i][k].kind = "opened" => k \in DOMAIN done[i] /\ done'[i][k] = done[i][k]
  <2>1. CASE \E c \in Completions : c.kind # "opened" /\ done'[i] = Append(done[i], c)
    <3>1. PICK c \in Completions : c.kind # "opened" /\ done'[i] = Append(done[i], c)
      BY <2>1
    <3>2. \A k \in DOMAIN Append(done[i], c) :
            \/ k \in DOMAIN done[i] /\ Append(done[i], c)[k] = done[i][k]
            \/ k = Len(done[i]) + 1 /\ Append(done[i], c)[k] = c
      BY <1>1, AppendFacts
    <3> QED BY <3>1, <3>2
  <2> QED BY <2>1
<1>4. HasOpen(store[i])' => HasOpen(store[i])
  BY <1>2 DEF HasOpen
<1>5. ASSUME i \notin closed PROVE OpenInv(i)'
  <2>1. \A u : Holds(u, i)' <=> Holds(u, i)
    BY DEF Holds
  <2>2. \A k \in DOMAIN store'[i] : store'[i][k].kind \in Opens => Holds(store'[i][k].task, i)
    BY <1>1, <1>2, <1>5 DEF OpenInv
  <2> QED BY <1>1, <1>3, <1>4, <1>5, <2>1, <2>2 DEF OpenInv
<1>6. QueueInv(i)'
  BY <1>1, <1>2 DEF QueueInv
<1> QED BY <1>1, <1>5, <1>6 DEF Sound

(* The loop takes a completion.                                            *)
LEMMA DoneSound ==
  ASSUME EntryFacts, NEW i \in Inst, done[i] # <<>>, done'[i] = Tail(done[i]), store'[i] = store[i],
         UNCHANGED <<conn, meta, state, lock, loopAt, closed, cur>>,
         phase' = "opening" <=> phase = "opening"
  PROVE  Sound(i)'
<1>1. /\ done[i] \in Seq(Completions)
      /\ i \in Int /\ cur \in Int /\ i <= cur
      /\ (i \notin closed => OpenInv(i)) /\ QueueInv(i)
      /\ (lock[i] # NoTask => Owner(lock[i]) = i)
  BY ObjectFacts
<1>2. \A k \in DOMAIN done'[i] : k \in Nat \ {0} /\ k + 1 \in DOMAIN done[i] /\ done'[i][k] = done[i][k + 1]
  BY <1>1, TailFacts
<1>3. ASSUME i \notin closed PROVE OpenInv(i)'
  <2>1. \A u : Holds(u, i)' <=> Holds(u, i)
    BY DEF Holds
  <2>2. HasOpen(store[i])' <=> HasOpen(store[i])
    BY DEF HasOpen
  <2> QED BY <1>1, <1>2, <1>3, <2>1, <2>2 DEF OpenInv
<1>4. QueueInv(i)'
  BY <1>1 DEF QueueInv
<1> QED BY <1>1, <1>3, <1>4 DEF Sound

(* The only open on its way is the one that came back.                     *)
LEMMA LastOpened ==
  ASSUME EntryFacts, NEW i \in Inst, i \notin closed, done[i] # <<>>, Head(done[i]).kind = "opened"
  PROVE  /\ Holds(Head(done[i]).task, i) /\ ~HasOpen(store[i]) /\ i <= cur
         /\ \A k \in DOMAIN Tail(done[i]) : Tail(done[i])[k].kind # "opened"
<1>1. done[i] \in Seq(Completions) /\ OpenInv(i) /\ i <= cur
  BY ObjectFacts
<1>2. /\ 1 \in DOMAIN done[i] /\ Head(done[i]) = done[i][1]
      /\ \A k \in DOMAIN Tail(done[i]) : k \in Nat \ {0} /\ k + 1 \in DOMAIN done[i] /\ Tail(done[i])[k] = done[i][k + 1]
  BY <1>1, TailFacts
<1>3. \A j, k \in DOMAIN done[i] : done[i][j].kind = "opened" /\ done[i][k].kind = "opened" => j = k
  BY <1>1 DEF OpenInv
<1>4. ASSUME NEW k \in DOMAIN Tail(done[i]), Tail(done[i])[k].kind = "opened" PROVE FALSE
  BY <1>2, <1>3, <1>4
<1> QED BY <1>1, <1>2, <1>4 DEF OpenInv

(* An object whose store thread is about to open, or is at it.             *)
LEMMA OpenHead ==
  ASSUME EntryFacts, NEW i \in Inst, store[i] # <<>>, Head(store[i]).kind \in Opens
  PROVE  /\ Tail(store[i]) = <<>> /\ state[i] # "ready" /\ i <= cur
         /\ Head(store[i]) \in Jobs /\ Head(store[i]).task \in Tasks
         /\ i \notin closed => /\ Holds(Head(store[i]).task, i)
                               /\ \A k \in DOMAIN done[i] : done[i][k].kind # "opened"
                               /\ \A t \in Task : ~(lock[i] = t /\ loopAt[t] = "worker")
<1>1. store[i] \in Seq(Jobs) /\ QueueInv(i) /\ i <= cur /\ (i \notin closed => OpenInv(i))
  BY ObjectFacts
<1>2. /\ 1 \in DOMAIN store[i] /\ Head(store[i]) = store[i][1] /\ Head(store[i]) \in Jobs
      /\ Tail(store[i]) \in Seq(Jobs) /\ Len(Tail(store[i])) = Len(store[i]) - 1
  BY <1>1, TailFacts
<1>3. Len(store[i]) = 1 /\ state[i] # "ready"
  BY <1>1, <1>2 DEF QueueInv
<1>4. Tail(store[i]) = <<>>
  <2>1. Len(Tail(store[i])) = 0
    BY <1>2, <1>3
  <2>2. \A q \in Seq(Jobs) : Len(q) = 0 => q = <<>>
    OBVIOUS
  <2> QED BY <1>2, <2>1, <2>2
<1>5. HasOpen(store[i])
  BY <1>2 DEF HasOpen
<1>6. Head(store[i]).task \in Tasks
  BY <1>2, JobFacts DEF Opens
<1>7. ASSUME i \notin closed
      PROVE  /\ Holds(Head(store[i]).task, i)
             /\ \A k \in DOMAIN done[i] : done[i][k].kind # "opened"
             /\ \A t \in Task : ~(lock[i] = t /\ loopAt[t] = "worker")
  <2>1. Holds(Head(store[i]).task, i)
    BY <1>1, <1>2, <1>7 DEF OpenInv
  <2>2. \A k \in DOMAIN done[i] : done[i][k].kind # "opened"
    BY <1>1, <1>5, <1>7 DEF OpenInv
  <2>3. \A t \in Task : ~(lock[i] = t /\ loopAt[t] = "worker")
    BY <1>1, <1>5, <1>7 DEF OpenInv
  <2> QED BY <2>1, <2>2, <2>3
<1> QED BY <1>1, <1>2, <1>3, <1>4, <1>6, <1>7

LEMMA OpeningSound ==
  ASSUME EntryFacts, NEW i \in Inst, StoreOpens(i)
  PROVE  Sound(i)'
<1> DEFINE head == Head(store[i])
           new == [head EXCEPT !.kind = "opening"]
<1>1. store[i] # <<>> /\ head.kind = "open"
  BY DEF StoreOpens, Job
<1>2. /\ Tail(store[i]) = <<>> /\ state[i] # "ready" /\ i <= cur
      /\ head \in Jobs /\ head.task \in Tasks
      /\ i \notin closed => /\ Holds(head.task, i)
                            /\ \A k \in DOMAIN done[i] : done[i][k].kind # "opened"
                            /\ \A t \in Task : ~(lock[i] = t /\ loopAt[t] = "worker")
  BY <1>1, OpenHead DEF Opens
<1>3. new \in Jobs /\ new.kind = "opening" /\ new.task = head.task
  <2>1. new \in Jobs
    BY <1>1, <1>2, JobFacts
  <2>2. head \in [kind : {"open", "opening", "cancelled"}, task : Tasks]
    BY <1>1, <1>2 DEF Jobs, Query, Tasks
  <2> QED BY <2>1, <2>2
<1>4. store'[i] = <<new>> \o Tail(store[i]) /\ conn'[i] = index /\ meta'[i] = index
  BY DEF StoreOpens, EntryFacts, TypeInv, ObjectTypes, QueueTypes
<1>5. UNCHANGED <<state, done, lock, loopAt, closed, cur, phase>>
  BY DEF StoreOpens, loopVars, taskVars
<1> HIDE DEF new, head
<1>6. store'[i] = <<new>>
  <2>1. <<new>> \o <<>> = <<new>>
    <3>1. <<new>> \in Seq(Jobs)
      BY <1>3
    <3> QED BY <3>1
  <2> QED BY <1>2, <1>4, <2>1
<1>7. DOMAIN store'[i] = {1} /\ store'[i][1] = new /\ Len(store'[i]) = 1
  BY <1>6
<1>8. i \in Int /\ cur \in Int /\ (lock[i] # NoTask => Owner(lock[i]) = i) /\ (i \notin closed => OpenInv(i))
  BY ObjectFacts
<1>9. ASSUME i \notin closed PROVE OpenInv(i)'
  <2>1. \A u : Holds(u, i)' <=> Holds(u, i)
    BY <1>5 DEF Holds
  <2> QED BY <1>2, <1>3, <1>5, <1>7, <1>8, <1>9, <2>1 DEF OpenInv
<1>10. QueueInv(i)'
  BY <1>2, <1>3, <1>4, <1>5, <1>7 DEF QueueInv
<1> QED BY <1>2, <1>5, <1>8, <1>9, <1>10 DEF Sound

LEMMA OpenedSound ==
  ASSUME EntryFacts, NEW i \in Inst, StoreReady(i) \/ StoreOpenFails(i)
  PROVE  Sound(i)'
<1> DEFINE head == Head(store[i])
           c == Opened(head.task)
<1>1. store[i] # <<>> /\ head.kind \in Opens
  BY DEF StoreReady, StoreOpenFails, Job, Opens
<1>2. /\ Tail(store[i]) = <<>> /\ i <= cur /\ head.task \in Tasks
      /\ i \notin closed => /\ Holds(head.task, i)
                            /\ \A k \in DOMAIN done[i] : done[i][k].kind # "opened"
                            /\ \A t \in Task : ~(lock[i] = t /\ loopAt[t] = "worker")
  BY <1>1, OpenHead
<1>3. store'[i] = <<>> /\ done'[i] = Append(done[i], c) /\ conn'[i] \in {0, conn[i]} /\ meta' = meta
  BY <1>2 DEF StoreReady, StoreOpenFails, Completes, EntryFacts, TypeInv, ObjectTypes, QueueTypes
<1>4. UNCHANGED <<lock, loopAt, closed, cur, phase>>
  BY DEF StoreReady, StoreOpenFails, Completes, loopVars, taskVars
<1>5. c \in Completions /\ c.kind = "opened" /\ c.task = head.task
  BY <1>2, JobFacts DEF Opened
<1> HIDE DEF c, head
<1>6. /\ i \in Int /\ cur \in Int /\ (lock[i] # NoTask => Owner(lock[i]) = i) /\ QueueInv(i)
      /\ (i \notin closed => OpenInv(i)) /\ done[i] \in Seq(Completions)
  BY ObjectFacts
<1>7. \A k \in DOMAIN done'[i] :
        \/ k \in DOMAIN done[i] /\ done'[i][k] = done[i][k]
        \/ k = Len(done[i]) + 1 /\ done'[i][k] = c
  <2>1. \A k \in DOMAIN Append(done[i], c) :
          \/ k \in DOMAIN done[i] /\ Append(done[i], c)[k] = done[i][k]
          \/ k = Len(done[i]) + 1 /\ Append(done[i], c)[k] = c
    BY <1>5, <1>6, AppendFacts
  <2> QED BY <1>3, <2>1
<1>8. DOMAIN store'[i] = {} /\ ~HasOpen(store'[i])
  BY <1>3 DEF HasOpen
<1>9. ASSUME i \notin closed PROVE OpenInv(i)'
  <2>1. \A u : Holds(u, i)' <=> Holds(u, i)
    BY <1>4 DEF Holds
  <2>2. \A k \in DOMAIN done'[i] : done'[i][k].kind = "opened" => k = Len(done[i]) + 1 /\ done'[i][k] = c
    BY <1>2, <1>7, <1>9
  <2>3. \A k \in DOMAIN done'[i] : done'[i][k].kind = "opened" => Holds(done'[i][k].task, i)
    BY <1>2, <1>5, <1>9, <2>2
  <2> QED BY <1>2, <1>4, <1>6, <1>8, <1>9, <2>1, <2>2, <2>3 DEF OpenInv
<1>10. QueueInv(i)'
  BY <1>3, <1>6, <1>8 DEF QueueInv
<1> QED BY <1>2, <1>4, <1>6, <1>9, <1>10 DEF Sound

(* What a step leaves alone, and the lemma that says so stays sound.       *)
Untouched(i) ==
  /\ store'[i] = store[i] /\ done'[i] = done[i] /\ conn'[i] = conn[i] /\ meta'[i] = meta[i]
  /\ state'[i] = state[i] /\ lock'[i] = lock[i]
  /\ \A t \in Task : Owner(t) = i => loopAt'[t] = loopAt[t]

LEMMA OthersSound ==
  ASSUME EntryFacts, NEW x, \A i \in Inst : i # x => Untouched(i),
         UNCHANGED <<closed, cur>>, phase' = "opening" => phase = "opening",
         x # cur => (phase' = "opening" <=> phase = "opening"),
         x \in Inst => Sound(x)'
  PROVE  OpensInv'
<1> SUFFICES ASSUME NEW i \in Inst, i # x PROVE Sound(i)'
  BY DEF OpensInv
<1> QED BY SoundFrame DEF Untouched

(* The steps of a refresh keep every object sound.                         *)
LEMMA RefreshSound ==
  ASSUME EntryFacts, NEW t \in Task,
         RefreshDue(t) \/ WorkerRaised(t) \/ WorkerDone(t) \/ RefreshEnds(t)
  PROVE  OpensInv'
<1> DEFINE i == Owner(t)
<1>1. i \in Inst /\ t # NoTask
  BY TaskFacts
<1>2. /\ store[i] \in Seq(Jobs) /\ done[i] \in Seq(Completions)
      /\ i \in Int /\ cur \in Int /\ lock[i] \in Tasks
      /\ (i \notin closed => OpenInv(i)) /\ QueueInv(i)
      /\ (i \in closed => i <= cur)
  BY <1>1, ObjectFacts
<1>3. UNCHANGED <<closed, cur, phase, conn, meta>>
  BY DEF RefreshDue, WorkerRaised, WorkerDone, RefreshEnds, loopVars
<1>4. /\ lock \in [Inst -> Tasks] /\ loopAt \in [Task -> {"none", "worker", "open"}]
      /\ store \in [Inst -> Seq(Jobs)] /\ done \in [Inst -> Seq(Completions)]
      /\ state \in [Inst -> {"idle", "importing", "ready", "failed"}]
  BY DEF EntryFacts, TypeInv, LockTypes, QueueTypes, ObjectTypes, Tasks
<1>5. \A j \in Inst : j # i => Untouched(j)
  <2> SUFFICES ASSUME NEW j \in Inst, j # i PROVE Untouched(j)
    OBVIOUS
  <2>1. store'[j] = store[j]
    <3>1. CASE WorkerDone(t)
      BY <1>1, <1>4, <3>1 DEF WorkerDone
    <3>2. CASE \E s : Notify(i, s)
      BY <1>1, <1>4, <3>2 DEF Notify
    <3>3. CASE store' = store
      BY <3>3
    <3> QED BY <3>1, <3>2, <3>3 DEF RefreshDue, StartRefresh, WorkerRaised, RefreshEnds
  <2>2. done'[j] = done[j] /\ state'[j] = state[j]
    BY <1>1, <1>4 DEF RefreshDue, StartRefresh, WorkerRaised, WorkerDone, RefreshEnds
  <2>3. lock'[j] = lock[j] /\ \A u \in Task : Owner(u) = j => loopAt'[u] = loopAt[u]
    BY <1>1, <1>4 DEF RefreshDue, StartRefresh, WorkerRaised, WorkerDone, RefreshEnds, Leave
  <2> QED BY <1>3, <2>1, <2>2, <2>3 DEF Untouched
<1>6. CASE RefreshDue(t)
  <2>1. i \in timed /\ StartRefresh(t) /\ UNCHANGED <<conn, meta, done>>
    BY <1>6 DEF RefreshDue
  <2>2. i <= cur /\ ~(i = cur /\ phase = "opening") /\ i \notin closed /\ lock[i] = NoTask
    BY <1>2, <2>1 DEF EntryFacts, EntryShape, StartRefresh, LockFree
  <2>3. \A u \in Tasks : ~Holds(u, i)
    BY <2>2 DEF Holds, Tasks
  <2>4. ~HasOpen(store[i]) /\ \A k \in DOMAIN done[i] : done[i][k].kind # "opened"
    <3>1. \A k \in DOMAIN store[i] : store[i][k].kind \in Opens => store[i][k].task \in Tasks
      BY <1>2, JobFacts DEF Opens
    <3>2. \A c \in Completions : c.kind = "opened" => c.task \in Tasks
      BY DEF Completions, Opened, Tasks
    <3>3. \A k \in DOMAIN done[i] : done[i][k].kind = "opened" => done[i][k].task \in Tasks
      BY <1>2, <3>2
    <3> QED BY <1>2, <2>2, <2>3, <3>1, <3>3 DEF OpenInv, HasOpen
  <2>5. Sound(i)'
    BY <1>3, <2>1, <2>2, <2>4, StartSound
  <2> QED BY <1>3, <1>5, <2>5, OthersSound
<1>7. CASE WorkerRaised(t)
  <2>1. /\ loopAt[t] = "worker" /\ Notify(i, "failed") /\ done' = done
        /\ state'[i] = "failed" /\ lock'[i] = NoTask
    BY <1>1, <1>4, <1>7 DEF WorkerRaised, Leave
  <2>2. store' = store
    BY <2>1 DEF Notify, CanQuery
  <2>3. i <= cur
    BY <1>2, <2>1, WorkerOpensNothing
  <2>4. ASSUME i \notin closed PROVE OpenInv(i)'
    BY <1>1, <2>1, <2>2, <2>4, WorkerOpensNothing, TaskFacts DEF OpenInv, HasOpen
  <2>5. QueueInv(i)'
    BY <1>2, <1>3, <2>1, <2>2 DEF QueueInv
  <2>6. Sound(i)'
    BY <1>2, <1>3, <2>1, <2>3, <2>4, <2>5 DEF Sound
  <2> QED BY <1>3, <1>5, <2>6, OthersSound
<1>8. CASE WorkerDone(t)
  <2>1. loopAt[t] = "worker" /\ done' = done /\ state' = state
    BY <1>8 DEF WorkerDone
  <2>2. i <= cur
    BY <1>2, <2>1, WorkerOpensNothing
  <2>3. CASE i \in closed
    <3>1. lock'[i] = NoTask /\ store' = store
      BY <1>1, <1>4, <1>8, <2>3 DEF WorkerDone, Accepts, Leave
    <3>2. QueueInv(i)'
      BY <1>2, <1>3, <2>1, <3>1 DEF QueueInv
    <3>3. Sound(i)'
      BY <1>2, <1>3, <2>2, <2>3, <3>1, <3>2 DEF Sound
    <3> QED BY <1>3, <1>5, <3>3, OthersSound
  <2>4. CASE i \notin closed
    <3> DEFINE new == Open(t)
    <3>1. store'[i] = Append(store[i], new) /\ lock'[i] = lock[i] /\ loopAt'[t] = "open"
      BY <1>1, <1>4, <1>8, <2>4 DEF WorkerDone, Accepts
    <3>2. /\ lock[i] = t /\ state[i] = "importing" /\ ~HasOpen(store[i])
          /\ \A k \in DOMAIN done[i] : done[i][k].kind # "opened"
      BY <2>1, <2>4, WorkerOpensNothing
    <3>3. new \in Jobs /\ new.kind = "open" /\ new.task = t
      BY JobFacts DEF Open, Tasks
    <3> HIDE DEF new
    <3>4. /\ DOMAIN store[i] = 1 .. Len(store[i]) /\ Len(store'[i]) = Len(store[i]) + 1 /\ Len(store[i]) \in Nat
          /\ \A k \in DOMAIN Append(store[i], new) :
               \/ k \in DOMAIN store[i] /\ Append(store[i], new)[k] = store[i][k]
               \/ k = Len(store[i]) + 1 /\ Append(store[i], new)[k] = new
      BY <1>2, <3>1, <3>3, AppendFacts
    <3>5. \A k \in DOMAIN store'[i] :
            \/ k \in DOMAIN store[i] /\ store'[i][k] = store[i][k] /\ store[i][k].kind \notin Opens
            \/ k = Len(store[i]) + 1 /\ store'[i][k] = new
      BY <3>1, <3>2, <3>4 DEF HasOpen
    <3>6. OpenInv(i)'
      <4>1. Holds(t, i)'
        BY <1>1, <3>1, <3>2 DEF Holds
      <4>2. \A k \in DOMAIN store'[i] : store'[i][k].kind \in Opens => Holds(store[i][k].task, i)'
        BY <1>1, <3>1, <3>2, <3>3, <3>5 DEF Holds
      <4>3. \A u \in Task : ~(lock'[i] = u /\ loopAt'[u] = "worker")
        BY <3>1, <3>2
      <4>4. i = cur /\ phase = "opening" => FALSE
        BY <1>1, <1>2, <2>4, <3>2 DEF OpenInv
      <4>5. i = cur' /\ phase' = "opening" => FALSE
        BY <1>3, <4>4
      <4>6. \A k \in DOMAIN done'[i] : done'[i][k].kind # "opened"
        BY <2>1, <3>2
      <4> QED BY <4>2, <4>3, <4>5, <4>6 DEF OpenInv
    <3>7. QueueInv(i)'
      BY <1>2, <1>3, <2>1, <3>2, <3>3, <3>4, <3>5 DEF QueueInv
    <3>8. Sound(i)'
      BY <1>2, <1>3, <2>2, <3>1, <3>2, <3>6, <3>7 DEF Sound
    <3> QED BY <1>3, <1>5, <3>8, OthersSound
  <2> QED BY <2>3, <2>4
<1>9. CASE RefreshEnds(t)
  <2>1. done[i] # <<>> /\ Head(done[i]) = Opened(t) /\ done'[i] = Tail(done[i]) /\ state' = state
    BY <1>1, <1>4, <1>9 DEF RefreshEnds
  <2>2. Head(done[i]).kind = "opened" /\ Head(done[i]).task = t
    BY <2>1 DEF Opened
  <2>3. i <= cur
    BY <1>1, <2>1, ObjectFacts
  <2>4. lock'[i] = NoTask \/ lock'[i] = lock[i]
    BY <1>1, <1>4, <1>9 DEF RefreshEnds, Leave
  <2>5. lock'[i] # NoTask => Owner(lock'[i]) = i
    BY <1>1, <2>4, ObjectFacts
  <2>6. CASE i \in closed
    <3>1. store' = store
      BY <1>9, <2>6 DEF RefreshEnds, Notify, EntryFacts, EntryShape
    <3>2. QueueInv(i)'
      BY <1>2, <1>3, <2>1, <3>1 DEF QueueInv
    <3>3. Sound(i)'
      BY <1>2, <1>3, <2>3, <2>5, <2>6, <3>2 DEF Sound
    <3> QED BY <1>3, <1>5, <3>3, OthersSound
  <2>7. CASE i \notin closed
    <3>1. Holds(t, i) /\ ~HasOpen(store[i]) /\ \A k \in DOMAIN done'[i] : done'[i][k].kind # "opened"
      BY <1>1, <2>1, <2>2, <2>7, LastOpened
    <3>2. lock[i] = t /\ loopAt[t] = "open"
      BY <1>1, <3>1 DEF Holds
    <3>3. Notify(i, state[i]) /\ lock'[i] = NoTask
      BY <1>1, <1>4, <1>9, <3>2 DEF RefreshEnds, Leave
    <3>4. store'[i] = store[i] \/ Clean(store'[i], meta[i])
      BY <1>1, <3>3, NotifyQueues DEF CanQuery
    <3>5. ~HasOpen(store'[i])
      BY <3>1, <3>4 DEF Clean, HasOpen
    <3>6. OpenInv(i)'
      BY <1>1, <3>1, <3>3, <3>5, TaskFacts DEF OpenInv, HasOpen
    <3>7. QueueInv(i)'
      BY <1>2, <1>3, <2>1, <3>4 DEF QueueInv, Clean
    <3>8. Sound(i)'
      BY <1>2, <1>3, <2>3, <2>5, <3>6, <3>7 DEF Sound
    <3> QED BY <1>3, <1>5, <3>8, OthersSound
  <2> QED BY <2>6, <2>7
<1> QED BY <1>6, <1>7, <1>8, <1>9

(* The steps of store threads, and of polls.                               *)
LEMMA StoreSound ==
  ASSUME EntryFacts, NEW i \in Inst,
         \/ StoreSkips(i) \/ StoreOpens(i) \/ StoreReady(i) \/ StoreOpenFails(i) \/ StoreQueries(i)
         \/ PollEnds(i)
  PROVE  OpensInv'
<1>1. UNCHANGED <<closed, cur, lock, loopAt>> /\ (phase' = "opening" <=> phase = "opening")
  BY DEF StoreSkips, StoreOpens, StoreReady, StoreOpenFails, StoreQueries, Completes, PollEnds,
         loopVars, taskVars
<1>2. \A j \in Inst : j # i => Untouched(j)
  <2> SUFFICES ASSUME NEW j \in Inst, j # i PROVE Untouched(j)
    OBVIOUS
  <2>1. store'[j] = store[j] /\ done'[j] = done[j]
    BY DEF StoreSkips, StoreOpens, StoreReady, StoreOpenFails, StoreQueries, Completes, PollEnds,
           EntryFacts, TypeInv, QueueTypes
  <2>2. conn'[j] = conn[j] /\ meta'[j] = meta[j] /\ state'[j] = state[j]
    BY DEF StoreSkips, StoreOpens, StoreReady, StoreOpenFails, StoreQueries, Completes, PollEnds,
           EntryFacts, TypeInv, ObjectTypes
  <2> QED BY <1>1, <2>1, <2>2 DEF Untouched
<1>3. store \in [Inst -> Seq(Jobs)] /\ done \in [Inst -> Seq(Completions)] /\ store[i] \in Seq(Jobs)
  BY DEF EntryFacts, TypeInv, QueueTypes
<1>4. CASE StoreSkips(i)
  <2>1. /\ store[i] # <<>> /\ store'[i] = Tail(store[i]) /\ done'[i] = done[i]
        /\ UNCHANGED <<conn, meta, state, lock, loopAt, closed, cur, phase>>
    BY <1>1, <1>3, <1>4 DEF StoreSkips, Job, loopVars
  <2> QED BY <1>1, <1>2, <2>1, PopSound, OthersSound
<1>5. CASE StoreOpens(i)
  BY <1>1, <1>2, <1>5, OpeningSound, OthersSound
<1>6. CASE StoreReady(i) \/ StoreOpenFails(i)
  BY <1>1, <1>2, <1>6, OpenedSound, OthersSound
<1>7. CASE StoreQueries(i)
  <2>1. /\ store[i] # <<>> /\ Head(store[i]).kind = "query" /\ store'[i] = Tail(store[i])
        /\ UNCHANGED <<conn, meta, state, lock, loopAt, closed, cur, phase>>
    BY <1>1, <1>3, <1>7 DEF StoreQueries, Completes, Job, loopVars
  <2>2. PICK d \in Data : done'[i] = Append(done[i], Answer(Head(store[i]), d))
    <3>1. Failed \in Data
      BY DataFacts
    <3>2. CASE conn[i] # 0 /\ Completes(i, Answer(Head(store[i]), Rows(conn[i], Head(store[i]).window)))
      <4>1. Head(store[i]) \in Jobs
        BY <1>3, <2>1, TailFacts
      <4>2. Head(store[i]).window \in 0 .. MaxBuild /\ conn[i] \in 0 .. MaxBuild
        BY <2>1, <4>1, JobFacts DEF EntryFacts, TypeInv, ObjectTypes
      <4>3. Rows(conn[i], Head(store[i]).window) \in Data
        BY <3>2, <4>2, DataFacts
      <4> QED BY <1>3, <3>2, <4>3 DEF Completes
    <3>3. CASE Completes(i, Answer(Head(store[i]), Failed))
      BY <1>3, <3>1, <3>3 DEF Completes
    <3> QED BY <1>7, <3>2, <3>3 DEF StoreQueries
  <2>3. Head(store[i]) \in Jobs
    BY <1>3, <2>1, TailFacts
  <2>4. Answer(Head(store[i]), d) \in Completions /\ Answer(Head(store[i]), d).kind # "opened"
    BY <2>1, <2>3, JobFacts DEF Answer
  <2> QED BY <1>1, <1>2, <2>1, <2>2, <2>4, PopSound, OthersSound
<1>8. CASE PollEnds(i)
  <2>1. /\ done[i] # <<>> /\ done'[i] = Tail(done[i]) /\ store' = store
        /\ UNCHANGED <<conn, meta, state, lock, loopAt, closed, cur>>
    BY <1>1, <1>3, <1>8 DEF PollEnds
  <2> QED BY <1>1, <1>2, <2>1, DoneSound, OthersSound
<1> QED BY <1>4, <1>5, <1>6, <1>7, <1>8

LEMMA PollSound ==
  ASSUME EntryFacts, (\E w \in Watch : TimerPoll(w)) \/ SetupPolls
  PROVE  OpensInv'
<1>1. cur \in Inst /\ cur <= cur
  BY LifecycleAssumption DEF EntryFacts, TypeInv, EntryTypes, EntryInv, Busy, TimerPoll, SetupPolls, Inst
<1>2. PICK w \in Watch, by \in {"setup", "timer", "notify"} : Poll(w, by)
  <2>1. CASE SetupPolls
    <3>1. toPoll \in Watch
      BY <2>1, LifecycleAssumption DEF EntryFacts, TypeInv, EntryTypes, EntryInv, SetupPolls, Watch
    <3> QED BY <2>1, <3>1 DEF SetupPolls
  <2> QED BY <2>1 DEF TimerPoll
<1>3. /\ UNCHANGED <<conn, meta, done, state, lock, loopAt, cur, closed>>
      /\ phase # "opening" /\ phase' # "opening"
  BY DEF TimerPoll, SetupPolls, loopVars, taskVars
<1>4. /\ \A x \in Inst : x # cur => store'[x] = store[x]
      /\ store'[cur] = store[cur] \/ (state[cur] = "ready" /\ Clean(store'[cur], meta[cur]))
  BY <1>1, <1>2, PollQueues
<1>5. \A j \in Inst : j # cur => Untouched(j)
  BY <1>3, <1>4 DEF Untouched
<1>6. CASE store'[cur] = store[cur]
  <2>1. Untouched(cur)
    BY <1>3, <1>6 DEF Untouched
  <2> QED BY <1>1, <1>3, <1>5, <2>1, SoundFrame, OthersSound DEF Untouched
<1>7. CASE state[cur] = "ready" /\ Clean(store'[cur], meta[cur])
  <2>1. ~HasOpen(store'[cur])
    BY <1>7 DEF Clean, HasOpen
  <2>2. /\ cur \notin closed => OpenInv(cur)
        /\ QueueInv(cur) /\ (lock[cur] # NoTask => Owner(lock[cur]) = cur)
    BY <1>1, ObjectFacts
  <2>3. \A u : Holds(u, cur)' <=> Holds(u, cur)
    BY <1>3 DEF Holds
  <2>4. ASSUME cur \notin closed PROVE OpenInv(cur)'
    <3>1. \A k \in DOMAIN store'[cur] : store'[cur][k].kind \notin Opens
      BY <1>7 DEF Clean
    <3>2. \A k \in DOMAIN done'[cur] : done'[cur][k].kind = "opened" => Holds(done[cur][k].task, cur)
      BY <1>3, <2>2, <2>4 DEF OpenInv
    <3> QED BY <1>3, <1>7, <2>1, <2>2, <2>3, <2>4, <3>1, <3>2 DEF OpenInv
  <2>5. QueueInv(cur)'
    BY <1>3, <1>7, <2>2 DEF QueueInv, Clean
  <2>6. ~(cur > cur)
    BY <1>1, LifecycleAssumption DEF Inst
  <2>7. Sound(cur)'
    BY <1>3, <2>2, <2>4, <2>5, <2>6 DEF Sound
  <2> QED BY <1>3, <1>5, <2>7, OthersSound
<1> QED BY <1>4, <1>6, <1>7

(* The steps of setting the entry up and taking it down.                   *)
LEMMA SetupSound ==
  ASSUME EntryFacts, SetupBegins \/ SetupOpened
  PROVE  OpensInv'
<1>1. /\ store \in [Inst -> Seq(Jobs)] /\ done \in [Inst -> Seq(Completions)]
      /\ lock \in [Inst -> Tasks] /\ loopAt \in [Task -> {"none", "worker", "open"}]
      /\ state \in [Inst -> {"idle", "importing", "ready", "failed"}]
  BY DEF EntryFacts, TypeInv, LockTypes, QueueTypes, ObjectTypes, Tasks
<1>2. cur \in Int /\ MaxInst \in Nat /\ cur >= 0
  BY LifecycleAssumption DEF EntryFacts, TypeInv, EntryTypes
<1>3. CASE SetupBegins
  <2>0. PICK x \in Inst : x = cur + 1
    BY <1>2, <1>3 DEF SetupBegins, Inst
  <2>1. /\ x > cur /\ cur' = x /\ phase' = "opening" /\ phase = "unloaded"
        /\ UNCHANGED <<lock, loopAt, conn, meta, state, closed>>
    BY <1>2, <1>3, <2>0 DEF SetupBegins, taskVars
  <2>2. Fresh(x) /\ QueueInv(x)
    BY <2>1 DEF EntryFacts, OpensInv, Sound
  <2>3. \A j \in Inst : j # x => store'[j] = store[j] /\ done'[j] = done[j]
    BY <1>1, <1>3, <2>0 DEF SetupBegins
  <2>4. ASSUME NEW j \in Inst, j # x PROVE Sound(j)'
    <3>1. j > x => j > cur
      BY <1>2, <2>1, <2>4 DEF Inst
    <3> QED BY <2>1, <2>3, <2>4, <3>1, SoundFrame
  <2>5. Sound(x)'
    <3>1. lock'[x] = NoTask /\ ~(x > cur')
      BY <1>2, <2>0, <2>1, <2>2 DEF Fresh
    <3>2. Holds(NoTask, x)'
      BY <2>1 DEF Holds
    <3>3. NoTask \in Tasks /\ Open(NoTask).kind = "open" /\ Open(NoTask).task = NoTask
          /\ Opened(NoTask).kind = "opened" /\ Opened(NoTask).task = NoTask
      BY DEF Tasks, Open, Opened
    <3> DEFINE o == Open(NoTask)
               c == Opened(NoTask)
    <3>4. \/ store'[x] = <<o>> /\ done'[x] = <<>>
          \/ store'[x] = <<>> /\ done'[x] = <<c>>
      BY <1>1, <1>3, <2>0, <2>2 DEF SetupBegins, Fresh
    <3> HIDE DEF o, c
    <3>5. \/ /\ DOMAIN store'[x] = {1} /\ store'[x][1] = o /\ Len(store'[x]) = 1 /\ DOMAIN done'[x] = {}
          \/ /\ DOMAIN store'[x] = {} /\ DOMAIN done'[x] = {1} /\ done'[x][1] = c
      <4>1. \A e : DOMAIN <<e>> = {1} /\ <<e>>[1] = e /\ Len(<<e>>) = 1
        OBVIOUS
      <4>2. DOMAIN <<>> = {}
        OBVIOUS
      <4> QED BY <3>4, <4>1, <4>2
    <3>6. state'[x] = "idle"
      BY <2>1, <2>2 DEF Fresh
    <3>7. QueueInv(x)'
      BY <2>1, <2>2, <3>3, <3>5, <3>6 DEF QueueInv, o, Opens
    <3>8. OpenInv(x)'
      <4>1. \A k \in DOMAIN store'[x] : Holds(store[x][k].task, x)'
        BY <3>2, <3>3, <3>5 DEF o
      <4>2. \A k \in DOMAIN done'[x] : Holds(done[x][k].task, x)' /\ ~HasOpen(store[x])'
        BY <3>2, <3>3, <3>5 DEF c, HasOpen
      <4>3. \A j, k \in DOMAIN done'[x] : j = k
        BY <3>5
      <4> QED BY <3>1, <4>1, <4>2, <4>3, TaskFacts DEF OpenInv
    <3> QED BY <3>1, <3>7, <3>8 DEF Sound
  <2> QED BY <2>4, <2>5 DEF OpensInv
<1>4. CASE SetupOpened
  <2>1. /\ phase = "opening" /\ phase' = "polling" /\ UNCHANGED <<conn, meta, cur, closed>>
        /\ done[cur] # <<>> /\ Head(done[cur]) = Opened(NoTask) /\ done' = [done EXCEPT ![cur] = Tail(@)]
    BY <1>4 DEF SetupOpened
  <2>2. cur \in Inst /\ cur \notin closed /\ cur <= cur
    BY <1>2, <2>1 DEF EntryFacts, TypeInv, EntryTypes, EntryInv, EntryShape, Busy, Inst
  <2>3. Head(done[cur]).kind = "opened" /\ Head(done[cur]).task = NoTask /\ done'[cur] = Tail(done[cur])
    BY <1>1, <2>1, <2>2 DEF Opened
  <2>4. ~HasOpen(store[cur]) /\ \A k \in DOMAIN done'[cur] : done'[cur][k].kind # "opened"
    BY <2>1, <2>2, <2>3, LastOpened
  <2>5. OpenInv(cur) /\ QueueInv(cur)
    BY <2>2, ObjectFacts
  <2>6. CASE \E t \in Task : Owner(t) = cur /\ StartRefresh(t)
    <3>1. PICK t \in Task : Owner(t) = cur /\ StartRefresh(t)
      BY <2>6
    <3>2. store' = store
      BY <3>1 DEF StartRefresh, Notify, CanQuery
    <3>3. \A j \in Inst : j # cur => Untouched(j)
      BY <1>1, <2>1, <3>1, <3>2 DEF StartRefresh, Untouched
    <3>4. ~(Owner(t) = cur' /\ phase' = "opening") /\ Owner(t) <= cur
      BY <2>1, <2>2, <3>1
    <3>5. Sound(Owner(t))'
      BY <2>1, <2>4, <3>1, <3>4, StartSound
    <3> QED BY <2>1, <3>1, <3>3, <3>5, OthersSound
  <2>7. CASE UNCHANGED <<taskVars, state, store, view>>
    <3>1. UNCHANGED <<state, store, lock, loopAt>>
      BY <2>7 DEF taskVars
    <3>2. \A j \in Inst : j # cur => Untouched(j)
      BY <1>1, <2>1, <3>1 DEF Untouched
    <3>3. lock[cur] = NoTask
      BY <2>1, <2>5 DEF OpenInv
    <3>4. OpenInv(cur)'
      BY <2>1, <2>4, <3>1, <3>3, TaskFacts DEF OpenInv, HasOpen
    <3>5. QueueInv(cur)'
      BY <2>1, <2>5, <3>1 DEF QueueInv
    <3>6. Sound(cur)'
      BY <1>2, <2>1, <3>1, <3>3, <3>4, <3>5 DEF Sound
    <3> QED BY <2>1, <3>2, <3>6, OthersSound
  <2> QED BY <1>4, <2>6, <2>7 DEF SetupOpened
<1> QED BY <1>3, <1>4

LEMMA UnloadSound ==
  ASSUME EntryFacts, Unloads
  PROVE  OpensInv'
<1> DEFINE gone == {t \in background : Owner(t) = cur}
<1>1. /\ phase = "unloading" /\ phase' = "unloaded" /\ closed' = closed \cup {cur}
      /\ UNCHANGED <<cur, conn, meta, done, state>>
      /\ loopAt' = [t \in Task |-> IF t \in gone THEN "none" ELSE loopAt[t]]
      /\ lock' = [lock EXCEPT ![cur] = IF @ \in gone THEN NoTask ELSE @]
      /\ store' = [store EXCEPT ![cur] = Cancels(@, gone)]
  BY DEF Unloads, Shutdown
<1> HIDE DEF gone
<1>2. /\ store \in [Inst -> Seq(Jobs)] /\ lock \in [Inst -> Tasks]
      /\ cur \in Inst /\ cur \in Int
  BY <1>1, LifecycleAssumption
  DEF EntryFacts, TypeInv, LockTypes, QueueTypes, EntryTypes, EntryInv, Busy, Tasks, Inst
<1>3. ASSUME NEW j \in Inst, j # cur PROVE Sound(j)'
  <2>1. store'[j] = store[j] /\ lock'[j] = lock[j]
    BY <1>1, <1>2, <1>3
  <2>2. \A t \in Task : Owner(t) = j => loopAt'[t] = loopAt[t]
    BY <1>1, <1>3 DEF gone
  <2> QED BY <1>1, <1>3, <2>1, <2>2, SoundFrame
<1>4. Sound(cur)'
  <2>1. store[cur] \in Seq(Jobs) /\ QueueInv(cur) /\ (lock[cur] # NoTask => Owner(lock[cur]) = cur)
    BY <1>2, ObjectFacts
  <2>2. store'[cur] = Cancels(store[cur], gone) /\ (lock'[cur] = lock[cur] \/ lock'[cur] = NoTask)
    BY <1>1, <1>2
  <2>3. DOMAIN store'[cur] = DOMAIN store[cur] /\ Len(store'[cur]) = Len(store[cur])
    <3>1. DOMAIN Cancels(store[cur], gone) = 1 .. Len(store[cur]) /\ Len(store[cur]) \in Nat
      BY <2>1 DEF Cancels
    <3>2. Len(Cancels(store[cur], gone)) = Len(store[cur])
      BY <3>1
    <3> QED BY <2>1, <2>2, <3>1, <3>2
  <2>4. ASSUME NEW k \in DOMAIN store[cur]
        PROVE  store'[cur][k] = store[cur][k] \/ store'[cur][k].kind = "cancelled"
    <3>1. store[cur][k] \in Jobs
      BY <2>1
    <3>2. CASE store[cur][k].kind = "open"
      <4>1. [store[cur][k] EXCEPT !.kind = "cancelled"].kind = "cancelled"
        BY <3>1, <3>2 DEF Jobs, Query
      <4> QED BY <2>2, <2>4, <4>1 DEF Cancels
    <3>3. CASE store[cur][k].kind # "open"
      BY <2>2, <2>4, <3>3 DEF Cancels
    <3> QED BY <3>2, <3>3
  <2>5. QueueInv(cur)'
    BY <1>1, <2>1, <2>3, <2>4 DEF QueueInv, Opens
  <2> QED BY <1>1, <1>2, <2>1, <2>2, <2>5 DEF Sound
<1> QED BY <1>1, <1>3, <1>4 DEF OpensInv

LEMMA OpensKept == EntryFacts /\ [Next]_vars => OpensInv'
<1> SUFFICES ASSUME EntryFacts, [Next]_vars PROVE OpensInv'
  OBVIOUS
<1>1. CASE \E t \in Task : RefreshDue(t) \/ WorkerRaised(t) \/ WorkerDone(t) \/ RefreshEnds(t)
  BY <1>1, RefreshSound
<1>2. CASE \E i \in Inst : \/ StoreSkips(i) \/ StoreOpens(i) \/ StoreReady(i) \/ StoreOpenFails(i)
                           \/ StoreQueries(i) \/ PollEnds(i)
  BY <1>2, StoreSound
<1>3. CASE (\E w \in Watch : TimerPoll(w)) \/ SetupPolls
  BY <1>3, PollSound
<1>4. CASE SetupBegins \/ SetupOpened
  BY <1>4, SetupSound
<1>5. CASE Unloads
  BY <1>5, UnloadSound
<1>6. ASSUME UNCHANGED <<store, done, conn, meta, state, lock, loopAt, cur>>, closed \subseteq closed',
             phase' = "opening" <=> phase = "opening"
      PROVE  OpensInv'
  <2> SUFFICES ASSUME NEW j \in Inst PROVE Sound(j)'
    BY DEF OpensInv
  <2> QED BY <1>6, SoundFrame
<1>7. CASE \E t \in Task : ThreadStarts(t) \/ Publishes(t) \/ Raises(t)
  BY <1>6, <1>7 DEF ThreadStarts, Publishes, Raises, ThreadEnds, loopVars, storeVars
<1>8. CASE SetupEnds \/ UnloadBegins \/ UnloadRefused \/ RemoveBegins \/ RemovesTree
  BY <1>6, <1>8
  DEF SetupEnds, UnloadBegins, UnloadRefused, Shutdown, RemoveBegins, RemovesTree, storeVars, taskVars
<1>9. CASE UNCHANGED vars
  BY <1>6, <1>9 DEF vars
<1> QED
  BY <1>1, <1>2, <1>3, <1>4, <1>5, <1>7, <1>8, <1>9 DEF Next, Loop, Threads

LEMMA OpensInvariance == Spec => []EntryFacts
<1>1. Init => OpensInv /\ EntryShape /\ LockInv
  <2> SUFFICES ASSUME Init PROVE OpensInv /\ EntryShape /\ LockInv
    OBVIOUS
  <2>1. EntryShape
    BY DEF Init, EntryShape, Busy
  <2>2. LockInv
    BY DEF Init, LockInv, LockTypes, LockDiscipline
  <2>3. ASSUME NEW i \in Inst PROVE Sound(i)
    <3>1. /\ store[i] = <<>> /\ done[i] = <<>> /\ conn[i] = 0 /\ lock[i] = NoTask /\ state[i] = "idle"
          /\ phase = "unloaded"
      BY <2>3 DEF Init
    <3>2. DOMAIN store[i] = {} /\ DOMAIN done[i] = {}
      BY <3>1
    <3> QED BY <3>1, <3>2, TaskFacts DEF Sound, OpenInv, Fresh, QueueInv
  <2> QED BY <2>1, <2>2, <2>3 DEF OpensInv
<1>2. EntryFacts /\ LockInv /\ [Next]_vars => EntryFacts' /\ LockInv'
  BY TypesKept, ShapeKept, LockStep, OpensKept DEF EntryFacts, LockInv
<1>3. Spec => TypeInv
  BY TypeInvariance, PTL
<1>4. Init /\ TypeInv => EntryFacts /\ LockInv
  BY <1>1 DEF EntryFacts, LockInv
<1> QED BY <1>2, <1>3, <1>4, PTL DEF Spec

-----------------------------------------------------------------------------
(* Rows: which build an answer is of, on its way and on show               *)

RowsOf(c) == c.kind = "answer" /\ c.data.kind = "rows"

(* Answers on their way to the loop: each of one build, from older to      *)
(* newer, and none newer than the index that is open.                      *)
AnswerInv(i) ==
  /\ meta[i] <= index
  /\ \A k \in DOMAIN done[i] : RowsOf(done[i][k]) =>
       done[i][k].data.build = done[i][k].data.window /\ done[i][k].data.build <= meta[i]
  /\ \A j, k \in DOMAIN done[i] : RowsOf(done[i][j]) /\ RowsOf(done[i][k]) /\ j < k
       => done[i][j].data.build <= done[i][k].data.build

(* Rows on show are of one build, and no older answer is on its way.       *)
ShownInv ==
  \A w \in Watch : shown[w].kind = "rows" =>
    /\ shown[w].window = shown[w].build
    /\ cur # 0 /\ shown[w].build <= meta[cur]
    /\ \A k \in DOMAIN done[cur] : RowsOf(done[cur][k]) => shown[w].build <= done[cur][k].data.build

RowsInv == (\A i \in Inst : AnswerInv(i)) /\ ShownInv

LEMMA RowsFacts ==
  /\ \A d \in Data : d.kind = "rows" => d.build \in Int /\ d.window \in Int
  /\ \A c \in Completions : RowsOf(c) => c.data.build \in Int /\ c.data.window \in Int
  /\ \A s : Unready(s).kind # "rows"
<1>1. \A d \in Data : d.kind = "rows" => d.build \in Int /\ d.window \in Int
  BY LifecycleAssumption DEF Data, Rows, None, Extracting, Failed
<1>2. \A c \in Completions : RowsOf(c) => c.data.build \in Int /\ c.data.window \in Int
  BY <1>1, JobFacts DEF RowsOf
<1>3. \A s : Unready(s).kind # "rows"
  BY DEF Unready, Failed, Extracting
<1> QED BY <1>1, <1>2, <1>3

(* All that a step can do to the completions of an object.                 *)
DoneStep(i) ==
  \/ done'[i] = done[i]
  \/ done[i] # <<>> /\ done'[i] = Tail(done[i])
  \/ \E c \in Completions :
       /\ done'[i] = Append(done[i], c)
       /\ RowsOf(c) => c.data.build = meta[i] /\ c.data.window = meta[i]

LEMMA DoneSteps ==
  ASSUME EntryFacts, [Next]_vars, NEW i \in Inst
  PROVE  DoneStep(i)
<1>1. done \in [Inst -> Seq(Completions)] /\ done[i] \in Seq(Completions)
  BY DEF EntryFacts, TypeInv, QueueTypes
<1>2. CASE done' = done
  BY <1>2 DEF DoneStep
<1>3. CASE \E t \in Task : RefreshEnds(t)
  BY <1>1, <1>3 DEF RefreshEnds, DoneStep
<1>4. CASE \E j \in Inst : PollEnds(j)
  BY <1>1, <1>4 DEF PollEnds, DoneStep
<1>5. CASE SetupOpened
  BY <1>1, <1>5 DEF SetupOpened, DoneStep
<1>6. CASE SetupBegins
  <2> DEFINE c == Opened(NoTask)
  <2>1. done'[i] = done[i] \/ (i = cur + 1 /\ done'[i] = <<c>>)
    BY <1>1, <1>6 DEF SetupBegins
  <2>2. CASE i = cur + 1 /\ done'[i] = <<c>>
    <3>1. i > cur
      BY <2>2, LifecycleAssumption DEF EntryFacts, TypeInv, EntryTypes
    <3>2. done[i] = <<>>
      BY <3>1 DEF EntryFacts, OpensInv, Sound, Fresh
    <3>3. c \in Completions /\ ~RowsOf(c)
      BY JobFacts DEF Tasks, RowsOf, Opened
    <3> HIDE DEF c
    <3>4. <<c>> = Append(<<>>, c)
      OBVIOUS
    <3> QED BY <2>2, <3>2, <3>3, <3>4 DEF DoneStep
  <2> QED BY <2>1, <2>2 DEF DoneStep
<1>7. CASE \E j \in Inst : StoreReady(j) \/ StoreOpenFails(j)
  <2>1. PICK j \in Inst : StoreReady(j) \/ StoreOpenFails(j)
    BY <1>7
  <2>2. /\ store[j] # <<>> /\ Head(store[j]).kind \in Opens
        /\ done' = [done EXCEPT ![j] = Append(@, Opened(Head(store[j]).task))]
    BY <2>1 DEF StoreReady, StoreOpenFails, Completes, Job, Opens
  <2>3. Head(store[j]).task \in Tasks
    BY <2>2, OpenHead
  <2>4. Opened(Head(store[j]).task) \in Completions /\ ~RowsOf(Opened(Head(store[j]).task))
    BY <2>3, JobFacts DEF RowsOf, Opened
  <2> QED BY <1>1, <2>2, <2>4 DEF DoneStep
<1>8. CASE \E j \in Inst : StoreQueries(j)
  <2>1. PICK j \in Inst : StoreQueries(j)
    BY <1>8
  <2> DEFINE q == Head(store[j])
  <2>2. PICK d \in {Rows(conn[j], q.window), Failed} :
          /\ d = Rows(conn[j], q.window) => conn[j] # 0
          /\ done' = [done EXCEPT ![j] = Append(@, Answer(q, d))]
    <3>1. Rows(conn[j], q.window) # Failed
      BY DEF Rows, Failed
    <3> QED BY <2>1, <3>1 DEF StoreQueries, Completes
  <2>3. store[j] # <<>> /\ q.kind = "query" /\ store[j] \in Seq(Jobs)
    BY <2>1 DEF StoreQueries, Job, EntryFacts, TypeInv, QueueTypes
  <2>4. q \in Jobs /\ 1 \in DOMAIN store[j] /\ q = store[j][1]
    BY <2>3, TailFacts
  <2>5. QueueInv(j)
    BY ObjectFacts
  <2>6. conn[j] \in {0, meta[j]} /\ q.window = meta[j] /\ q.window \in 0 .. MaxBuild
    BY <2>3, <2>4, <2>5, JobFacts DEF QueueInv
  <2>7. d \in Data
    BY <2>2, <2>6, DataFacts
  <2>8. Answer(q, d) \in Completions
    BY <2>3, <2>4, <2>7, JobFacts
  <2>9. RowsOf(Answer(q, d)) => Answer(q, d).data.build = meta[j] /\ Answer(q, d).data.window = meta[j]
    BY <2>2, <2>6 DEF RowsOf, Answer, Rows, Failed
  <2> QED BY <1>1, <2>2, <2>8, <2>9 DEF DoneStep
<1>9. CASE \E t \in Task : \/ RefreshDue(t) \/ WorkerRaised(t) \/ WorkerDone(t)
                          \/ ThreadStarts(t) \/ Publishes(t) \/ Raises(t)
  BY <1>2, <1>9 DEF RefreshDue, WorkerRaised, WorkerDone, ThreadStarts, Publishes, Raises, ThreadEnds, storeVars
<1>10. CASE (\E j \in Inst : StoreSkips(j) \/ StoreOpens(j)) \/ (\E w \in Watch : TimerPoll(w)) \/ SetupPolls
  BY <1>2, <1>10 DEF StoreSkips, StoreOpens, TimerPoll, SetupPolls
<1>11. CASE SetupEnds \/ UnloadBegins \/ Unloads \/ UnloadRefused \/ RemoveBegins \/ RemovesTree \/ UNCHANGED vars
  BY <1>2, <1>11
  DEF SetupEnds, UnloadBegins, Unloads, UnloadRefused, RemoveBegins, RemovesTree, storeVars, vars
<1> QED
  BY <1>3, <1>4, <1>5, <1>6, <1>7, <1>8, <1>9, <1>10, <1>11 DEF Next, Loop, Threads

(* Builds only ever get newer.                                             *)
LEMMA BuildsGrow ==
  ASSUME EntryFacts, RowsInv, [Next]_vars, NEW i \in Inst
  PROVE  /\ index <= index' /\ meta[i] <= meta'[i] /\ meta'[i] <= index'
         /\ index \in Int /\ index' \in Int /\ meta[i] \in Int /\ meta'[i] \in Int
<1>1. index \in Int /\ meta[i] \in Int /\ meta[i] <= index /\ meta \in [Inst -> 0 .. MaxBuild]
  BY LifecycleAssumption DEF EntryFacts, TypeInv, ObjectTypes, RowsInv, AnswerInv
<1>2. index' \in Int /\ index <= index'
  <2>1. index' = index \/ index' = index + 1
    BY DEF Next, Loop, Threads, RefreshDue, WorkerRaised, WorkerDone, RefreshEnds, ThreadStarts, Publishes,
           Raises, StoreSkips, StoreOpens, StoreReady, StoreOpenFails, StoreQueries, Completes, TimerPoll,
           PollEnds, SetupBegins, SetupOpened, SetupPolls, SetupEnds, UnloadBegins, Unloads, UnloadRefused,
           RemoveBegins, RemovesTree, disk, vars
  <2> QED BY <1>1, <2>1
<1>3. meta'[i] = meta[i] \/ meta'[i] = index
  <2>1. CASE \E j \in Inst : StoreOpens(j)
    BY <1>1, <2>1 DEF StoreOpens
  <2> QED
    BY <2>1 DEF Next, Loop, Threads, RefreshDue, WorkerRaised, WorkerDone, RefreshEnds, ThreadStarts, Publishes,
           Raises, ThreadEnds, StoreSkips, StoreReady, StoreOpenFails, StoreQueries, TimerPoll,
           PollEnds, SetupBegins, SetupOpened, SetupPolls, SetupEnds, UnloadBegins, Unloads, UnloadRefused,
           RemoveBegins, RemovesTree, storeVars, vars
<1> QED BY <1>1, <1>2, <1>3

(* And all that a step can do to what a watch shows.                       *)
ShownStep(w) ==
  \/ cur' = cur /\ shown'[w] = shown[w]
  \/ shown'[w].kind # "rows"
  \/ /\ cur' = cur /\ cur \in Inst
     /\ done[cur] # <<>> /\ Head(done[cur]).kind = "answer" /\ shown'[w] = Head(done[cur]).data
     /\ done'[cur] = Tail(done[cur])

LEMMA ShownSteps ==
  ASSUME EntryFacts, [Next]_vars, NEW w \in Watch
  PROVE  ShownStep(w)
<1>1. /\ shown \in [Watch -> Data] /\ done \in [Inst -> Seq(Completions)]
  BY DEF EntryFacts, TypeInv, ViewTypes, QueueTypes
<1>2. CASE shown' = shown /\ cur' = cur
  BY <1>2 DEF ShownStep
<1>3. ASSUME NEW i, NEW s, Notify(i, s) PROVE shown' = shown \/ shown'[w].kind # "rows"
  BY <1>3, RowsFacts DEF Notify, view
<1>4. ASSUME NEW v, NEW by, Poll(v, by) PROVE shown'[w] = shown[w] \/ shown'[w].kind # "rows"
  BY <1>1, <1>4, RowsFacts DEF Poll, view
<1>5. CASE \E t \in Task : RefreshDue(t) \/ WorkerRaised(t) \/ RefreshEnds(t)
  <2>1. cur' = cur /\ (shown' = shown \/ \E i, s : Notify(i, s))
    BY <1>5 DEF RefreshDue, StartRefresh, WorkerRaised, RefreshEnds, loopVars, view
  <2> QED BY <1>3, <2>1 DEF ShownStep
<1>6. CASE SetupOpened
  <2>1. cur' = cur /\ (shown' = shown \/ \E i, s : Notify(i, s))
    BY <1>6 DEF SetupOpened, StartRefresh, view
  <2> QED BY <1>3, <2>1 DEF ShownStep
<1>7. CASE (\E v \in Watch : TimerPoll(v)) \/ SetupPolls
  <2>1. cur' = cur /\ \E v, by : Poll(v, by)
    BY <1>7 DEF TimerPoll, SetupPolls, loopVars
  <2> QED BY <1>4, <2>1 DEF ShownStep
<1>8. CASE \E i \in Inst : PollEnds(i)
  <2>1. PICK i \in Inst : PollEnds(i)
    BY <1>8
  <2>2. CASE i = cur
    <3>1. /\ cur' = cur /\ done[cur] # <<>> /\ Head(done[cur]).kind = "answer"
          /\ done'[cur] = Tail(done[cur])
          /\ shown'[w] = shown[w] \/ shown'[w] = Head(done[cur]).data
      BY <1>1, <2>1, <2>2 DEF PollEnds
    <3> QED BY <2>2, <3>1 DEF ShownStep
  <2>3. CASE i # cur
    BY <1>2, <2>1, <2>3 DEF PollEnds, view
  <2> QED BY <2>2, <2>3
<1>9. CASE SetupBegins
  BY <1>9 DEF SetupBegins, ShownStep, None
<1>10. CASE \E t \in Task : WorkerDone(t) \/ ThreadStarts(t) \/ Publishes(t) \/ Raises(t)
  BY <1>2, <1>10 DEF WorkerDone, ThreadStarts, Publishes, Raises, ThreadEnds, loopVars, view
<1>11. CASE \E i \in Inst : StoreSkips(i) \/ StoreOpens(i) \/ StoreReady(i) \/ StoreOpenFails(i) \/ StoreQueries(i)
  BY <1>2, <1>11 DEF StoreSkips, StoreOpens, StoreReady, StoreOpenFails, StoreQueries, Completes, loopVars, view
<1>12. CASE SetupEnds \/ UnloadBegins \/ Unloads \/ UnloadRefused \/ RemoveBegins \/ RemovesTree \/ UNCHANGED vars
  BY <1>2, <1>12
  DEF SetupEnds, UnloadBegins, Unloads, UnloadRefused, RemoveBegins, RemovesTree, view, vars
<1> QED
  BY <1>5, <1>6, <1>7, <1>8, <1>9, <1>10, <1>11, <1>12 DEF Next, Loop, Threads

LEMMA AnswersKept ==
  ASSUME EntryFacts, RowsInv, [Next]_vars, NEW i \in Inst
  PROVE  AnswerInv(i)'
<1>1. /\ index <= index' /\ meta[i] <= meta'[i] /\ meta'[i] <= index'
      /\ meta[i] \in Int /\ meta'[i] \in Int
  BY BuildsGrow
<1>2. AnswerInv(i) /\ done[i] \in Seq(Completions)
  BY ObjectFacts DEF RowsInv
<1>3. CASE done'[i] = done[i]
  <2>1. \A k \in DOMAIN done[i] : RowsOf(done[i][k]) => done[i][k].data.build \in Int
    BY <1>2, RowsFacts
  <2> QED BY <1>1, <1>2, <1>3, <2>1 DEF AnswerInv
<1>4. CASE done[i] # <<>> /\ done'[i] = Tail(done[i])
  <2>1. \A k \in DOMAIN done'[i] : k \in Nat \ {0} /\ k + 1 \in DOMAIN done[i] /\ done'[i][k] = done[i][k + 1]
    BY <1>2, <1>4, TailFacts
  <2>2. \A k \in DOMAIN done[i] : RowsOf(done[i][k]) => done[i][k].data.build \in Int
    BY <1>2, RowsFacts
  <2>3. \A k \in DOMAIN done'[i] : RowsOf(done'[i][k]) =>
          done'[i][k].data.build = done'[i][k].data.window /\ done'[i][k].data.build <= meta'[i]
    BY <1>1, <1>2, <2>1, <2>2 DEF AnswerInv
  <2>4. \A j, k \in DOMAIN done'[i] : RowsOf(done'[i][j]) /\ RowsOf(done'[i][k]) /\ j < k
          => done'[i][j].data.build <= done'[i][k].data.build
    BY <1>2, <2>1 DEF AnswerInv
  <2> QED BY <1>1, <2>3, <2>4 DEF AnswerInv
<1>5. CASE \E c \in Completions : /\ done'[i] = Append(done[i], c)
                                  /\ RowsOf(c) => c.data.build = meta[i] /\ c.data.window = meta[i]
  <2>1. PICK c \in Completions : /\ done'[i] = Append(done[i], c)
                                 /\ RowsOf(c) => c.data.build = meta[i] /\ c.data.window = meta[i]
    BY <1>5
  <2>2. /\ DOMAIN done[i] = 1 .. Len(done[i]) /\ Len(done[i]) \in Nat
        /\ \A k \in DOMAIN done'[i] :
             \/ k \in DOMAIN done[i] /\ done'[i][k] = done[i][k]
             \/ k = Len(done[i]) + 1 /\ done'[i][k] = c
    <3>1. /\ DOMAIN done[i] = 1 .. Len(done[i]) /\ Len(done[i]) \in Nat
          /\ \A k \in DOMAIN Append(done[i], c) :
               \/ k \in DOMAIN done[i] /\ Append(done[i], c)[k] = done[i][k]
               \/ k = Len(done[i]) + 1 /\ Append(done[i], c)[k] = c
      BY <1>2, <2>1, AppendFacts
    <3> QED BY <2>1, <3>1
  <2>3. \A k \in DOMAIN done[i] : RowsOf(done[i][k]) => done[i][k].data.build \in Int
    BY <1>2, RowsFacts
  <2>4. \A k \in DOMAIN done'[i] : RowsOf(done'[i][k]) =>
          done'[i][k].data.build = done'[i][k].data.window /\ done'[i][k].data.build <= meta'[i]
    BY <1>1, <1>2, <2>1, <2>2, <2>3 DEF AnswerInv
  <2>5. ASSUME NEW j \in DOMAIN done'[i], NEW k \in DOMAIN done'[i],
               RowsOf(done'[i][j]), RowsOf(done'[i][k]), j < k
        PROVE  done'[i][j].data.build <= done'[i][k].data.build
    <3>1. j \in DOMAIN done[i] /\ done'[i][j] = done[i][j]
      BY <2>2, <2>5
    <3>2. CASE k \in DOMAIN done[i] /\ done'[i][k] = done[i][k]
      BY <1>2, <2>5, <3>1, <3>2 DEF AnswerInv
    <3>3. CASE done'[i][k] = c
      BY <1>2, <2>1, <2>5, <3>1, <3>3 DEF AnswerInv
    <3> QED BY <2>2, <3>2, <3>3
  <2> QED BY <1>1, <2>4, <2>5 DEF AnswerInv
<1> QED BY <1>3, <1>4, <1>5, DoneSteps DEF DoneStep

(* Rows that a watch goes on to show are of one build, and not older.      *)
LEMMA ShownFacts ==
  ASSUME EntryFacts, RowsInv, [Next]_vars, NEW w \in Watch, shown'[w].kind = "rows"
  PROVE  /\ cur' = cur /\ cur \in Inst
         /\ shown'[w].window = shown'[w].build /\ shown'[w].build <= meta[cur]
         /\ shown'[w].build \in Int
         /\ shown[w].kind = "rows" => shown'[w].build >= shown[w].build
         /\ \A k \in DOMAIN done[cur] :
              RowsOf(done[cur][k]) => shown'[w].build <= done[cur][k].data.build
<1>1. shown \in [Watch -> Data] /\ (cur # 0 => cur \in Inst)
  BY LifecycleAssumption DEF EntryFacts, TypeInv, ViewTypes, EntryTypes, Inst
<1>2. CASE cur' = cur /\ shown'[w] = shown[w]
  <2>1. shown[w].build \in Int
    BY <1>1, <1>2, RowsFacts
  <2> QED BY <1>1, <1>2, <2>1 DEF RowsInv, ShownInv
<1>3. CASE /\ cur' = cur /\ cur \in Inst
           /\ done[cur] # <<>> /\ Head(done[cur]).kind = "answer" /\ shown'[w] = Head(done[cur]).data
  <2>1. done[cur] \in Seq(Completions) /\ AnswerInv(cur)
    BY <1>3, ObjectFacts DEF RowsInv
  <2>2. /\ 1 \in DOMAIN done[cur] /\ Head(done[cur]) = done[cur][1] /\ done[cur][1] \in Completions
        /\ DOMAIN done[cur] = 1 .. Len(done[cur])
    BY <1>3, <2>1, TailFacts
  <2>3. RowsOf(done[cur][1]) /\ shown'[w] = done[cur][1].data
    BY <1>3, <2>2 DEF RowsOf
  <2>4. shown'[w].build \in Int
    BY <2>2, <2>3, RowsFacts
  <2>5. shown'[w].window = shown'[w].build /\ shown'[w].build <= meta[cur]
    BY <2>1, <2>2, <2>3 DEF AnswerInv
  <2>6. shown[w].kind = "rows" => shown'[w].build >= shown[w].build
    <3>1. shown[w].kind = "rows" => shown[w].build \in Int /\ shown[w].build <= done[cur][1].data.build
      BY <1>1, <2>2, <2>3, RowsFacts DEF RowsInv, ShownInv
    <3> QED BY <2>3, <2>4, <3>1
  <2>7. ASSUME NEW k \in DOMAIN done[cur], RowsOf(done[cur][k])
        PROVE  shown'[w].build <= done[cur][k].data.build
    <3>1. CASE k = 1
      BY <2>3, <2>4, <3>1
    <3>2. CASE 1 < k
      BY <2>1, <2>2, <2>3, <2>7, <3>2 DEF AnswerInv
    <3> QED BY <2>2, <3>1, <3>2
  <2> QED BY <1>3, <2>4, <2>5, <2>6, <2>7
<1> QED BY <1>2, <1>3, ShownSteps DEF ShownStep

LEMMA RowsKept == EntryFacts /\ RowsInv /\ [Next]_vars => RowsInv'
<1> SUFFICES ASSUME EntryFacts, RowsInv, [Next]_vars PROVE RowsInv'
  OBVIOUS
<1>1. \A i \in Inst : AnswerInv(i)'
  BY AnswersKept
<1>2. ASSUME NEW w \in Watch, shown'[w].kind = "rows"
      PROVE  /\ shown'[w].window = shown'[w].build
             /\ cur' # 0 /\ shown'[w].build <= meta'[cur']
             /\ \A k \in DOMAIN done'[cur'] :
                  RowsOf(done'[cur'][k]) => shown'[w].build <= done'[cur'][k].data.build
  <2>1. /\ cur' = cur /\ cur \in Inst
        /\ shown'[w].window = shown'[w].build /\ shown'[w].build <= meta[cur]
        /\ shown'[w].build \in Int
        /\ \A k \in DOMAIN done[cur] :
             RowsOf(done[cur][k]) => shown'[w].build <= done[cur][k].data.build
    BY <1>2, ShownFacts
  <2>2. meta[cur] <= meta'[cur] /\ meta[cur] \in Int /\ meta'[cur] \in Int
    BY <2>1, BuildsGrow
  <2>3. DoneStep(cur) /\ done[cur] \in Seq(Completions)
    BY <2>1, DoneSteps, ObjectFacts
  <2>4. ASSUME NEW k \in DOMAIN done'[cur], RowsOf(done'[cur][k])
        PROVE  shown'[w].build <= done'[cur][k].data.build
    <3>1. CASE done'[cur] = done[cur]
      BY <2>1, <2>4, <3>1
    <3>2. CASE done[cur] # <<>> /\ done'[cur] = Tail(done[cur])
      <4>1. k + 1 \in DOMAIN done[cur] /\ done'[cur][k] = done[cur][k + 1]
        BY <2>3, <2>4, <3>2, TailFacts
      <4> QED BY <2>1, <2>4, <4>1
    <3>3. CASE \E c \in Completions : /\ done'[cur] = Append(done[cur], c)
                                      /\ RowsOf(c) => c.data.build = meta[cur] /\ c.data.window = meta[cur]
      <4>1. PICK c \in Completions : /\ done'[cur] = Append(done[cur], c)
                                     /\ RowsOf(c) => c.data.build = meta[cur] /\ c.data.window = meta[cur]
        BY <3>3
      <4>2. \A j \in DOMAIN Append(done[cur], c) :
              \/ j \in DOMAIN done[cur] /\ Append(done[cur], c)[j] = done[cur][j]
              \/ j = Len(done[cur]) + 1 /\ Append(done[cur], c)[j] = c
        BY <2>3, <4>1, AppendFacts
      <4>3. \/ k \in DOMAIN done[cur] /\ done'[cur][k] = done[cur][k]
            \/ done'[cur][k] = c
        BY <2>4, <4>1, <4>2
      <4> QED BY <2>1, <2>4, <4>1, <4>3
    <3> QED BY <2>3, <3>1, <3>2, <3>3 DEF DoneStep
  <2>5. cur # 0
    BY <2>1 DEF Inst
  <2> QED BY <2>1, <2>2, <2>4, <2>5
<1>3. ShownInv'
  BY <1>2 DEF ShownInv
<1> QED BY <1>1, <1>3 DEF RowsInv

LEMMA RowsInvariance == Spec => [](EntryFacts /\ RowsInv)
<1>1. Init => RowsInv
  <2> SUFFICES ASSUME Init PROVE RowsInv
    OBVIOUS
  <2>1. ASSUME NEW i \in Inst PROVE AnswerInv(i)
    <3>1. meta[i] = 0 /\ index = 0 /\ DOMAIN done[i] = {}
      BY <2>1 DEF Init
    <3> QED BY <3>1 DEF AnswerInv
  <2>2. ShownInv
    BY DEF Init, ShownInv, None
  <2> QED BY <2>1, <2>2 DEF RowsInv
<1> QED BY <1>1, OpensInvariance, RowsKept, PTL DEF Spec

(* The rows a watch shows and the window beside them are of one index.     *)
THEOREM RowsComeWithTheirWindow == Spec => []WindowMatchesRows
<1>1. RowsInv => WindowMatchesRows
  BY DEF RowsInv, ShownInv, WindowMatchesRows
<1> QED BY <1>1, RowsInvariance, PTL

(* And no watch goes back to rows of an older index.                       *)
THEOREM RowsNeverAge == Spec => NeverOlderRows
<1> DEFINE Newer ==
      \A w \in Watch : cur' = cur /\ shown[w].kind = "rows" /\ shown'[w].kind = "rows"
                         => shown'[w].build >= shown[w].build
<1>1. EntryFacts /\ RowsInv /\ [Next]_vars => Newer
  BY ShownFacts
<1> QED BY <1>1, RowsInvariance, PTL DEF Spec, NeverOlderRows
=============================================================================
