------------------------------ MODULE Lifecycle ------------------------------
(***************************************************************************)
(* A config entry across its reloads: the Datasource objects it creates    *)
(* one after another over the same directory, their refresh tasks and the  *)
(* worker threads those start, the one-thread executor in front of each    *)
(* connection, the watches that poll through it, the sensors that publish  *)
(* what the watches found, and the removal of the entry with its directory *)
(* (datasource.py, coordinator.py, sensor.py, __init__.py).                *)
(*                                                                         *)
(* A step of the event loop is one action, up to the next await that can   *)
(* suspend.  Worker threads and store threads take steps of their own in   *)
(* between.  What a refresh does to the files is the subject of Refresh;   *)
(* here a worker thread runs, and publishes an index or fails.             *)
(***************************************************************************)
EXTENDS Integers, Sequences, FiniteSets

CONSTANTS
  MaxInst,    \* bound on the Datasource objects ever created
  NWatch,     \* route subentries of the entry
  MaxBuild,   \* bound on the indexes ever published
  Slots       \* refreshes of one object in flight at once

ASSUME LifecycleAssumption ==
  MaxInst \in Nat /\ NWatch \in Nat /\ MaxBuild \in Nat /\ Slots \in Nat

Inst  == 1 .. MaxInst
Watch == 1 .. NWatch
Task  == Inst \X (1 .. Slots)
NoTask == <<0, 0>>
Owner(t) == t[1]

VARIABLES
  phase,      \* where the entry is: setup and unload are serialised by HA
  cur,        \* the newest Datasource object
  toPoll,     \* the watch async_setup_entry polls next
  state,      \* DatasourceState of each object
  conn,       \* the build _conn has open, 0 when None
  meta,       \* the build whose meta is loaded, 0 when empty
  closed,     \* objects whose _closed is set
  listening,  \* objects whose coordinators are registered as listeners
  timed,      \* objects whose timers are registered
  lock,       \* the refresh holding each object's lock
  loopAt,     \* what each refresh task awaits: "none", "worker" or "open"
  threadAt,   \* its worker job: "none", "queued", "running", "ok" or "err"
  background, \* refreshes HA cancels with the entry
  store,      \* jobs submitted to each object's executor, oldest first
  done,       \* completions on their way back to the loop, oldest first
  index,      \* the newest build published, 0 before the first
  root,       \* the directory: "absent", "bare", or "built" with index.sqlite
  shown,      \* WatchData of each watch of the newest object
  attrs       \* the build whose meta its sensor's attributes were written from

loopVars   == <<phase, cur, toPoll, closed, listening, timed>>
taskVars   == <<lock, loopAt, threadAt, background>>
storeVars  == <<conn, meta, store, done>>
disk       == <<index, root>>
view       == <<shown, attrs>>
vars == <<phase, cur, toPoll, closed, listening, timed, lock, loopAt, threadAt, background,
          conn, meta, store, done, index, root, state, shown, attrs>>

None       == [kind |-> "none"]
Extracting == [kind |-> "extracting"]
Failed     == [kind |-> "datasource_failed"]
Rows(b, m) == [kind |-> "rows", build |-> b, window |-> m]

Open(t)            == [kind |-> "open", task |-> t]
Opened(t)          == [kind |-> "opened", task |-> t]
Query(w, by, m)    == [kind |-> "query", watch |-> w, by |-> by, window |-> m]
Answer(q, data)    == [kind |-> "answer", watch |-> q.watch, by |-> q.by, data |-> data]

Init ==
  /\ phase = "unloaded" /\ cur = 0 /\ toPoll = 0
  /\ state = [i \in Inst |-> "idle"]
  /\ conn = [i \in Inst |-> 0] /\ meta = [i \in Inst |-> 0]
  /\ closed = {} /\ listening = {} /\ timed = {}
  /\ lock = [i \in Inst |-> NoTask]
  /\ loopAt = [t \in Task |-> "none"] /\ threadAt = [t \in Task |-> "none"]
  /\ background = {}
  /\ store = [i \in Inst |-> <<>>] /\ done = [i \in Inst |-> <<>>]
  /\ index = 0 /\ root = "absent"
  /\ shown = [w \in Watch |-> None]
  /\ attrs = [w \in Watch |-> 0]

-----------------------------------------------------------------------------
(* Polls: _async_update_data, up to the query it submits                   *)

(* Fault: the datasource's state handed on as the watch's status.          *)
UnreadyVerbatim(s) == [kind |-> s]

(* While the datasource is not ready the answer needs no query.            *)
Unready(s) == IF s = "failed" THEN Failed ELSE Extracting

(* Fault: rows are kept on show during an import by querying through it.   *)
CanQueryThroughout(s) == s \in {"ready", "importing"}

CanQuery(s) == s = "ready"

(* Fault: the listeners hear of the start of a refresh only.               *)
NotifyStart(i, s) ==
  /\ shown' = IF i \in listening /\ s = "importing" THEN [w \in Watch |-> Unready(s)] ELSE shown
  /\ UNCHANGED <<store, attrs>>

(* Fault: attributes that are computed once, when the sensor is added.     *)
WritesOnce(W, m) == attrs' = attrs

(* The coordinator has data: its sensors, which are there while the entry  *)
(* is loaded, write their state, with attributes out of meta as it is now. *)
Writes(W, m) ==
  attrs' = IF phase = "loaded" THEN [w \in Watch |-> IF w \in W THEN m ELSE attrs[w]] ELSE attrs

(* Every listener of i polls at once: the tasks are eager, and the first   *)
(* suspension is the query.                                                *)
Notify(i, s) ==
  CASE i \notin listening -> UNCHANGED <<view, store>>
    [] i \in listening /\ CanQuery(s) ->
         /\ store' = [store EXCEPT ![i] = @ \o [w \in Watch |-> Query(w, "notify", meta[i])]]
         /\ UNCHANGED view
    [] OTHER ->
         /\ shown' = [w \in Watch |-> Unready(s)]
         /\ Writes(Watch, meta[i])
         /\ UNCHANGED store

(* One watch polls of itself.                                              *)
Poll(w, by) ==
  IF CanQuery(state[cur])
  THEN /\ store' = [store EXCEPT ![cur] = Append(@, Query(w, by, meta[cur]))]
       /\ UNCHANGED view
  ELSE /\ shown' = [shown EXCEPT ![w] = Unready(state[cur])]
       /\ Writes({w}, meta[cur])
       /\ UNCHANGED store

-----------------------------------------------------------------------------
(* Refreshes, on the loop                                                  *)

LockIgnored(i) == TRUE    \* Fault: async with self._lock dropped

LockFree(i) == lock[i] = NoTask

(* async_refresh up to the worker job.  No await separates the test of the *)
(* lock from taking it.                                                    *)
StartRefresh(t) ==
  LET i == Owner(t) IN
  /\ i \notin closed
  /\ LockFree(i)
  /\ loopAt[t] = "none" /\ threadAt[t] = "none"
  /\ lock' = [lock EXCEPT ![i] = t]
  /\ loopAt' = [loopAt EXCEPT ![t] = "worker"]
  /\ threadAt' = [threadAt EXCEPT ![t] = "queued"]
  /\ state' = [state EXCEPT ![i] = "importing"]
  /\ Notify(i, "importing")

(* A roll or refresh timer fires.  While the object is closed or a refresh *)
(* holds its lock, async_refresh returns at once.                          *)
RefreshDue(t) ==
  /\ Owner(t) \in timed
  /\ StartRefresh(t)
  /\ UNCHANGED <<loopVars, disk, conn, meta, done, background>>

(* Fault: an early return for a closed object that skips the release.      *)
LeaveUnlessClosed(t) ==
  /\ lock' = IF Owner(t) \in closed THEN lock ELSE [lock EXCEPT ![Owner(t)] = NoTask]
  /\ loopAt' = [loopAt EXCEPT ![t] = "none"] /\ background' = background \ {t}

(* The task is over, one way or another: the lock is free.                 *)
Leave(t) ==
  /\ lock' = [lock EXCEPT ![Owner(t)] = NoTask]
  /\ loopAt' = [loopAt EXCEPT ![t] = "none"]
  /\ background' = background \ {t}

(* Fault: an exception async_refresh does not catch.                       *)
WorkerRaisedUncaught(t) ==
  /\ loopAt[t] = "worker" /\ threadAt[t] = "err"
  /\ threadAt' = [threadAt EXCEPT ![t] = "none"]
  /\ Leave(t)
  /\ UNCHANGED <<loopVars, disk, storeVars, state, view>>

(* The worker job raised: the state is FAILED, and the listeners hear it.  *)
WorkerRaised(t) ==
  /\ loopAt[t] = "worker" /\ threadAt[t] = "err"
  /\ threadAt' = [threadAt EXCEPT ![t] = "none"]
  /\ state' = [state EXCEPT ![Owner(t)] = "failed"]
  /\ Notify(Owner(t), "failed")
  /\ Leave(t)
  /\ UNCHANGED <<loopVars, disk, conn, meta, done>>

AcceptsAlways(i) == TRUE    \* Fault: _in_store without its test of _closed

(* _in_store hands a job to the executor.                                  *)
Accepts(i) == i \notin closed

(* The worker job is done: reopen, unless the object was closed meanwhile. *)
WorkerDone(t) ==
  LET i == Owner(t) IN
  /\ loopAt[t] = "worker" /\ threadAt[t] = "ok"
  /\ threadAt' = [threadAt EXCEPT ![t] = "none"]
  /\ IF Accepts(i)
     THEN /\ store' = [store EXCEPT ![i] = Append(@, Open(t))]
          /\ loopAt' = [loopAt EXCEPT ![t] = "open"]
          /\ UNCHANGED <<lock, background>>
     ELSE Leave(t) /\ UNCHANGED store
  /\ UNCHANGED <<loopVars, disk, conn, meta, done, state, view>>

(* The reopen reached the loop.                                            *)
RefreshEnds(t) ==
  LET i == Owner(t) IN
  /\ done[i] # <<>> /\ Head(done[i]) = Opened(t)
  /\ done' = [done EXCEPT ![i] = Tail(@)]
  /\ IF loopAt[t] = "open"
     THEN Leave(t) /\ Notify(i, state[i])
     ELSE UNCHANGED <<lock, loopAt, background, view, store>>
  /\ UNCHANGED <<loopVars, disk, conn, meta, threadAt, state>>

-----------------------------------------------------------------------------
(* The worker thread of a refresh                                          *)

(* _refresh makes the directory first.                                     *)
ThreadStarts(t) ==
  /\ threadAt[t] = "queued"
  /\ threadAt' = [threadAt EXCEPT ![t] = "running"]
  /\ root' = IF root = "absent" THEN "bare" ELSE root
  /\ UNCHANGED <<loopVars, storeVars, index, lock, loopAt, background, state, view>>

(* Its outcome matters only to a task that still awaits it.                *)
ThreadEnds(t, outcome) ==
  /\ threadAt[t] = "running"
  /\ threadAt' = [threadAt EXCEPT ![t] = IF loopAt[t] = "worker" THEN outcome ELSE "none"]
  /\ UNCHANGED <<loopVars, storeVars, lock, loopAt, background, state, view>>

(* _materialise, up to the rename.                                         *)
Publishes(t) ==
  /\ index < MaxBuild /\ root # "absent"
  /\ index' = index + 1 /\ root' = "built"
  /\ ThreadEnds(t, "ok")

Raises(t) == ThreadEnds(t, "err") /\ UNCHANGED disk

-----------------------------------------------------------------------------
(* The store thread of an object: one job at a time, in order              *)

Job(i, kind) == store[i] # <<>> /\ Head(store[i]).kind = kind

(* Fault: a pool of several threads, whose completions overtake.           *)
CompletesOutOfOrder(i, c) ==
  /\ store' = [store EXCEPT ![i] = Tail(@)]
  /\ done' = [done EXCEPT ![i] = <<c>> \o @]
  /\ UNCHANGED <<loopVars, taskVars, disk, view>>

Completes(i, c) ==
  /\ store' = [store EXCEPT ![i] = Tail(@)]
  /\ done' = [done EXCEPT ![i] = Append(@, c)]
  /\ UNCHANGED <<loopVars, taskVars, disk, view>>

StoreSkips(i) ==
  /\ Job(i, "cancelled")
  /\ store' = [store EXCEPT ![i] = Tail(@)]
  /\ UNCHANGED <<loopVars, taskVars, disk, done, conn, meta, state, view>>

(* _open writes conn and meta, and only then the state the polls look at.  *)
StoreOpens(i) ==
  /\ Job(i, "open") /\ root = "built"
  /\ conn' = [conn EXCEPT ![i] = index] /\ meta' = [meta EXCEPT ![i] = index]
  /\ store' = [store EXCEPT ![i] = <<[Head(@) EXCEPT !.kind = "opening"]>> \o Tail(@)]
  /\ UNCHANGED <<loopVars, taskVars, disk, done, state, view>>

StoreReady(i) ==
  /\ Job(i, "opening")
  /\ state' = [state EXCEPT ![i] = "ready"]
  /\ Completes(i, Opened(Head(store[i]).task))
  /\ UNCHANGED <<conn, meta>>

(* open_for_read and read_meta raise sqlite3.Error or nothing: that is all *)
(* _open catches.  What else would do to a refresh is Refresh!OpenRaises.  *)
StoreOpenFails(i) ==
  /\ Job(i, "open")
  /\ conn' = [conn EXCEPT ![i] = 0]
  /\ state' = [state EXCEPT ![i] = "failed"]
  /\ Completes(i, Opened(Head(store[i]).task))
  /\ UNCHANGED meta

(* _run: the rows of whatever is open now, or None for a sqlite error.     *)
StoreQueries(i) ==
  /\ Job(i, "query")
  /\ LET q == Head(store[i]) IN
       \/ conn[i] # 0 /\ Completes(i, Answer(q, Rows(conn[i], q.window)))
       \/ Completes(i, Answer(q, Failed))
  /\ UNCHANGED <<conn, meta, state>>

-----------------------------------------------------------------------------
(* Watches                                                                 *)

(* The 60-second timer of a watch, set again when its poll has finished.   *)
TimerPoll(w) ==
  /\ phase = "loaded"
  /\ \A k \in 1 .. Len(store[cur]) :
       LET j == store[cur][k] IN ~(j.kind = "query" /\ j.by = "timer" /\ j.watch = w)
  /\ \A k \in 1 .. Len(done[cur]) :
       LET j == done[cur][k] IN ~(j.kind = "answer" /\ j.by = "timer" /\ j.watch = w)
  /\ Poll(w, "timer")
  /\ UNCHANGED <<loopVars, taskVars, disk, conn, meta, done, state>>

(* The rest of _async_update_data, and the data handed to the entities.    *)
PollEnds(i) ==
  /\ done[i] # <<>> /\ Head(done[i]).kind = "answer"
  /\ LET a == Head(done[i]) IN
       /\ IF i = cur
          THEN shown' = [shown EXCEPT ![a.watch] = a.data] /\ Writes({a.watch}, meta[i])
          ELSE UNCHANGED view
       /\ IF a.by = "setup" /\ phase = "awaiting"
          THEN phase' = "polling" /\ toPoll' = toPoll + 1
          ELSE UNCHANGED <<phase, toPoll>>
  /\ done' = [done EXCEPT ![i] = Tail(@)]
  /\ UNCHANGED <<taskVars, disk, store, conn, meta, state, cur, closed, listening, timed>>

-----------------------------------------------------------------------------
(* Setting the entry up                                                    *)

(* The objects are made, the coordinators listen, and async_setup looks    *)
(* for an index: there is one to open, or nothing to wait for.             *)
SetupBegins ==
  /\ phase = "unloaded" /\ cur < MaxInst
  /\ cur' = cur + 1
  /\ listening' = listening \cup {cur + 1}
  /\ shown' = [w \in Watch |-> None]
  /\ phase' = "opening"
  /\ IF root = "built"
     THEN store' = [store EXCEPT ![cur + 1] = <<Open(NoTask)>>] /\ UNCHANGED done
     ELSE done' = [done EXCEPT ![cur + 1] = <<Opened(NoTask)>>] /\ UNCHANGED store
  /\ UNCHANGED <<taskVars, disk, conn, meta, state, closed, timed, toPoll, attrs>>

(* The rest of async_setup: a first import, a roll of a window that has    *)
(* run out, or nothing; then the timers.                                   *)
SetupOpened ==
  /\ phase = "opening"
  /\ done[cur] # <<>> /\ Head(done[cur]) = Opened(NoTask)
  /\ done' = [done EXCEPT ![cur] = Tail(@)]
  /\ \/ \E t \in Task :
          /\ Owner(t) = cur
          /\ StartRefresh(t)
          /\ background' = background \cup {t}
     \/ state[cur] = "ready" /\ UNCHANGED <<taskVars, state, store, view>>
  /\ timed' = timed \cup {cur}
  /\ phase' = "polling" /\ toPoll' = 1
  /\ UNCHANGED <<disk, conn, meta, cur, closed, listening>>

(* The coordinators are polled one after the other.                        *)
SetupPolls ==
  /\ phase = "polling" /\ toPoll <= NWatch
  /\ Poll(toPoll, "setup")
  /\ IF CanQuery(state[cur]) THEN phase' = "awaiting" /\ UNCHANGED toPoll
                             ELSE toPoll' = toPoll + 1 /\ UNCHANGED phase
  /\ UNCHANGED <<taskVars, disk, conn, meta, done, state, cur, closed, listening, timed>>

(* The platform adds the sensors, which write their first state.           *)
SetupEnds ==
  /\ phase = "polling" /\ toPoll > NWatch
  /\ phase' = "loaded" /\ toPoll' = 0
  /\ attrs' = [w \in Watch |-> meta[cur]]
  /\ UNCHANGED <<taskVars, storeVars, disk, state, shown, cur, closed, listening, timed>>

-----------------------------------------------------------------------------
(* Taking it down                                                          *)

UnloadBegins ==
  /\ phase = "loaded"
  /\ phase' = "unloading"
  /\ UNCHANGED <<taskVars, storeVars, disk, state, view, cur, toPoll, closed, listening, timed>>

(* async_unload_entry after the platforms: the coordinators unsubscribe    *)
(* and the datasource is closed without giving the loop away, since the    *)
(* only await in async_shutdown returns at once: _closed is set, and       *)
(* "fn is not self._close" holds of two bound methods, so _close is not    *)
(* submitted.                                                              *)
Shutdown ==
  /\ closed' = closed \cup {cur}
  /\ listening' = listening \ {cur}

(* A job goes with the task that awaits it unless it has started: the      *)
(* executor comes across it later and skips it.                            *)
Cancels(jobs, gone) ==
  [k \in DOMAIN jobs |-> IF jobs[k].kind = "open" /\ jobs[k].task \in gone
                         THEN [jobs[k] EXCEPT !.kind = "cancelled"] ELSE jobs[k]]

(* HA then takes back the timers and cancels the background refresh.  A    *)
(* worker job that is still queued goes with it; one that runs does not.   *)
Unloads ==
  /\ phase = "unloading"
  /\ phase' = "unloaded"
  /\ Shutdown
  /\ timed' = timed \ {cur}
  /\ LET gone == {t \in background : Owner(t) = cur} IN
       /\ background' = background \ gone
       /\ loopAt' = [t \in Task |-> IF t \in gone THEN "none" ELSE loopAt[t]]
       /\ threadAt' = [t \in Task |->
            IF t \in gone /\ threadAt[t] # "running" THEN "none" ELSE threadAt[t]]
       /\ lock' = [lock EXCEPT ![cur] = IF @ \in gone THEN NoTask ELSE @]
       /\ store' = [store EXCEPT ![cur] = Cancels(@, gone)]
  /\ UNCHANGED <<disk, conn, meta, done, state, view, cur, toPoll>>

(* A platform refused to unload: the datasource is closed all the same,    *)
(* but the entry keeps its timers and its tasks until a restart.           *)
UnloadRefused ==
  /\ phase = "unloading"
  /\ phase' = "failed"
  /\ Shutdown
  /\ UNCHANGED <<taskVars, storeVars, disk, state, view, cur, toPoll, timed>>

(* The user deletes the entry: Home Assistant calls async_remove_entry     *)
(* once the entry is unloaded, or has refused to be.                       *)
RemoveBegins ==
  /\ phase \in {"unloaded", "failed"}
  /\ phase' = "removing"
  /\ UNCHANGED <<taskVars, storeVars, disk, state, view, cur, toPoll, closed, listening, timed>>

(* Some worker thread is writing in the directory.                         *)
AtWork == \E t \in Task : threadAt[t] = "running"

(* rmtree with its errors ignored: the directory stays when a worker       *)
(* thread puts a file in it behind rmtree's back.                          *)
RemovesTree ==
  /\ phase = "removing"
  /\ phase' = "removed"
  /\ root' \in {"absent"} \cup (IF AtWork THEN {"bare"} ELSE {})
  /\ UNCHANGED <<taskVars, storeVars, index, state, view, cur, toPoll, closed, listening, timed>>

-----------------------------------------------------------------------------
Loop ==
  \/ \E t \in Task : WorkerRaised(t) \/ WorkerDone(t) \/ RefreshEnds(t)
  \/ \E i \in Inst : PollEnds(i)
  \/ SetupOpened \/ SetupPolls \/ SetupEnds

Threads ==
  \/ \E t \in Task : ThreadStarts(t) \/ Publishes(t) \/ Raises(t)
  \/ \E i \in Inst :
       StoreSkips(i) \/ StoreOpens(i) \/ StoreReady(i) \/ StoreOpenFails(i) \/ StoreQueries(i)

Next ==
  \/ Loop \/ Threads
  \/ \E t \in Task : RefreshDue(t)
  \/ \E w \in Watch : TimerPoll(w)
  \/ SetupBegins \/ UnloadBegins \/ Unloads \/ UnloadRefused
  \/ RemoveBegins \/ RemovesTree

Spec == Init /\ [][Next]_vars

(* Threads run and the loop runs what is ready.  Nothing is assumed of the *)
(* timers, nor of the user.                                                *)
FairSpec ==
  /\ Spec
  /\ \A t \in Task :
       /\ WF_vars(WorkerRaised(t)) /\ WF_vars(WorkerDone(t)) /\ WF_vars(RefreshEnds(t))
       /\ WF_vars(ThreadStarts(t)) /\ WF_vars(Publishes(t) \/ Raises(t))
  /\ \A i \in Inst :
       /\ WF_vars(PollEnds(i)) /\ WF_vars(StoreQueries(i)) /\ WF_vars(StoreSkips(i))
       /\ WF_vars(StoreOpens(i) \/ StoreOpenFails(i)) /\ WF_vars(StoreReady(i))
  /\ WF_vars(SetupOpened) /\ WF_vars(SetupPolls) /\ WF_vars(SetupEnds)

(* And watches poll every minute.                                          *)
FairPolling == FairSpec /\ \A w \in Watch : WF_vars(TimerPoll(w))

-----------------------------------------------------------------------------
(* Properties                                                              *)

Jobs ==
  [kind : {"open", "opening", "cancelled"}, task : Task \cup {NoTask}]
    \cup {Query(w, by, m) : w \in Watch, by \in {"setup", "timer", "notify"}, m \in 0 .. MaxBuild}

Data ==
  {None, Extracting, Failed} \cup {Rows(b, m) : b \in 1 .. MaxBuild, m \in 0 .. MaxBuild}

Completions ==
  {Opened(t) : t \in Task \cup {NoTask}}
    \cup {[kind |-> "answer", watch |-> w, by |-> by, data |-> d] :
            w \in Watch, by \in {"setup", "timer", "notify"}, d \in Data}

TypeOK ==
  /\ phase \in {"unloaded", "opening", "polling", "awaiting", "loaded", "unloading", "failed",
                "removing", "removed"}
  /\ cur \in 0 .. MaxInst
  /\ toPoll \in 0 .. NWatch + 1
  /\ state \in [Inst -> {"idle", "importing", "ready", "failed"}]
  /\ conn \in [Inst -> 0 .. MaxBuild] /\ meta \in [Inst -> 0 .. MaxBuild]
  /\ closed \subseteq Inst /\ listening \subseteq Inst /\ timed \subseteq Inst
  /\ lock \in [Inst -> Task \cup {NoTask}]
  /\ loopAt \in [Task -> {"none", "worker", "open"}]
  /\ threadAt \in [Task -> {"none", "queued", "running", "ok", "err"}]
  /\ background \subseteq Task
  /\ store \in [Inst -> Seq(Jobs)] /\ done \in [Inst -> Seq(Completions)]
  /\ index \in 0 .. MaxBuild
  /\ root \in {"absent", "bare", "built"}
  /\ shown \in [Watch -> Data]
  /\ attrs \in [Watch -> 0 .. MaxBuild]

(* Two refreshes of one Datasource object never write its files at once:   *)
(* no await separates the test of the lock from taking it, and a refresh   *)
(* cancelled in mid-write has closed its object first.                     *)
OneWriterPerObject ==
  \A t, u \in Task :
    threadAt[t] = "running" /\ threadAt[u] = "running" /\ Owner(t) = Owner(u) => t = u

(* What makes it so, and what the proof carries from step to step: a task  *)
(* at work holds its object's lock until the object is closed, and two     *)
(* worker jobs of one object never exist together, closed or not.          *)
LockDiscipline ==
  /\ \A t \in Task :
       /\ loopAt[t] # "none" \/ threadAt[t] # "none"
            => Owner(t) \in closed \/ lock[Owner(t)] = t
       /\ loopAt[t] = "open" => threadAt[t] = "none"
  /\ \A t, u \in Task :
       threadAt[t] # "none" /\ threadAt[u] # "none" /\ Owner(t) = Owner(u) => t = u

(* The rows a watch shows and the end of the window it reports beside them *)
(* come from the same index, although the window is read on the loop when  *)
(* the poll starts and the rows on another thread after an await.          *)
WindowMatchesRows ==
  \A w \in Watch : shown[w].kind = "rows" => shown[w].window = shown[w].build

(* When nothing is under way a watch has an answer that is not             *)
(* "extracting", and rows it shows are those of the index that is open     *)
(* (_on_datasource_change exists so that no watch waits for its timer).    *)
Quiet ==
  phase = "loaded" /\ lock[cur] = NoTask /\ store[cur] = <<>> /\ done[cur] = <<>>

QuietIsCurrent ==
  Quiet => \A w \in Watch :
             /\ shown[w] \notin {None, Extracting}
             /\ state[cur] = "ready" => shown[w] \in {Failed, Rows(conn[cur], conn[cur])}

(* The attributes of a sensor join rows of the last poll with meta read    *)
(* when the state is written, and a reopen may fall between the two: but   *)
(* the disagreement ends with the poll that follows the reopen             *)
(* (sensor.py 111-124).                                                    *)
AttributesSettle ==
  Quiet => \A w \in Watch : shown[w].kind = "rows" => attrs[w] = shown[w].build

(* The task, or set-up, that waits for an open has it coming: the job is   *)
(* with the store thread, or its completion with the loop.                 *)
OpenComing(i, t) ==
  \/ \E k \in DOMAIN store[i] : store[i][k].kind \in {"open", "opening"} /\ store[i][k].task = t
  \/ \E k \in DOMAIN done[i] : done[i][k] = Opened(t)

(* So has set-up the answer to the poll it waits for.                      *)
FirstPollComing(i) ==
  \/ \E k \in DOMAIN store[i] : store[i][k].kind = "query" /\ store[i][k].by = "setup"
  \/ \E k \in DOMAIN done[i] : done[i][k].kind = "answer" /\ done[i][k].by = "setup"

(* Nobody waits for what will not come: whoever holds a lock is a refresh  *)
(* under way, one that awaits its worker job has one, and whatever else is *)
(* awaited is queued or on its way, although closing an object refuses     *)
(* jobs, unloading cancels those that are queued, and one completion ends  *)
(* one wait only (datasource.py 219-269, 330-356).                         *)
NoWaitIsLost ==
  /\ \A i \in Inst : lock[i] # NoTask => Owner(lock[i]) = i /\ loopAt[lock[i]] # "none"
  /\ \A t \in Task :
       /\ loopAt[t] = "worker" => threadAt[t] # "none"
       /\ loopAt[t] = "open" => OpenComing(Owner(t), t)
  /\ phase = "opening" => OpenComing(cur, NoTask)
  /\ phase = "awaiting" => FirstPollComing(cur)

(* A watch that shows rows of one index never goes back to rows of an      *)
(* older one, however its own polls and those the import starts overlap.   *)
NeverOlderRows ==
  [][\A w \in Watch :
       cur' = cur /\ shown[w].kind = "rows" /\ shown'[w].kind = "rows"
         => shown'[w].build >= shown[w].build]_vars

(* Nothing is submitted to the executor of an object that was closed: a    *)
(* refresh or a poll still under way at that point must not reach for it.  *)
NothingAfterClose ==
  [][\A i \in closed : Len(store'[i]) <= Len(store[i])]_vars

(* What the entry promises to those who look at its sensors, while objects,*)
(* refreshes and polls come and go behind them, is a board over the index  *)
(* that is open (Board).  It is that of the newest object, and it is live  *)
(* while the entry is loaded.                                              *)
Promise == INSTANCE Board WITH
  Messages <- {Extracting, Failed},
  published <- index,
  opened <- IF cur = 0 THEN 0 ELSE meta[cur],
  board <- shown,
  live <- (phase = "loaded")

ImplementsBoard == Promise!Spec

(* A watch does not stay "extracting" for as long as the entry is loaded,  *)
(* even if its own timer never fires again (_on_datasource_change).        *)
LeavesExtracting ==
  \A w \in Watch :
    phase = "loaded" /\ shown[w] = Extracting ~> phase # "loaded" \/ shown[w] # Extracting

(* A refresh gives its lock back, whatever becomes of the entry meanwhile. *)
LockIsReleased ==
  \A i \in Inst : lock[i] # NoTask ~> lock[i] = NoTask

(* One writer per datasource, whichever object it belongs to.              *)
OneWriter ==
  \A t, u \in Task : threadAt[t] = "running" /\ threadAt[u] = "running" => t = u

(* An object that was shut down, and has no job left, has let go of its    *)
(* connection.                                                             *)
ShutdownCloses ==
  \A i \in closed : store[i] = <<>> => conn[i] = 0

(* Once the entry is removed for good its directory is gone                *)
(* (async_remove_entry).                                                   *)
RemovedForGood == phase = "removed" => root = "absent"

(* An index that was published is read within some polls, even if the      *)
(* callback was missed.                                                    *)
StaleReadsEnd ==
  phase = "loaded" /\ state[cur] = "ready" /\ conn[cur] # index
    ~> phase # "loaded" \/ state[cur] # "ready" \/ conn[cur] = index
=============================================================================
