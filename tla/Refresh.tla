------------------------------- MODULE Refresh -------------------------------
(***************************************************************************)
(* One datasource: the files it keeps, the refresh that rewrites them on a *)
(* worker thread, and the connection its queries are answered from         *)
(* (custom_components/gtfsie/datasource.py).                               *)
(*                                                                         *)
(* A refresh is one pass of the program counter pc through                 *)
(*                                                                         *)
(*   fetch -> ingest -> guard -> promote -> clean -> check -> materialise  *)
(*         -> building -> replace -> open -> idle                          *)
(*                                                                         *)
(* a window roll starts at check; "abort" is clean on the way out of an    *)
(* exception, "failed" the exception handler of async_refresh, "down" a    *)
(* process that is not running.  Time passes, the publisher changes its    *)
(* mind, timers fire and the process dies between any two steps.  There is *)
(* one Datasource object per process here: what reloads add is the subject *)
(* of Lifecycle.                                                           *)
(***************************************************************************)
EXTENDS Integers

CONSTANTS
  Version,    \* the archives the publisher may offer
  Starts,     \* Starts[v]: the first service day of v
  Horizon,    \* CONF_HORIZON_DAYS
  MaxDay,     \* bound on the calendar
  MaxCrash,   \* bound on restarts of the process
  Escapes,    \* the calls made outside the handlers that may raise: "unlink", "open"
  None        \* no file, no connection, empty meta

(* An index file: the feed it was cut from, the last day of its window,    *)
(* and whether materialise finished writing it.                            *)
Build == [src : Version, end : 0 .. MaxDay + Horizon, form : {"partial", "whole"}]

ASSUME BoundsAssumption == Horizon \in Nat /\ MaxDay \in Nat /\ MaxCrash \in Nat
ASSUME StartsAssumption == Starts \in [Version -> Nat]
ASSUME NoneAssumption   == None \notin Version /\ None \notin Build

VARIABLES
  today,      \* the date in Home Assistant's timezone
  offered,    \* what the publisher serves at the source URL
  archive,    \* feed.zip
  candidate,  \* feed.candidate
  feed,       \* feed.sqlite
  building,   \* index.building
  index,      \* index.sqlite
  reader,     \* the build _conn has open
  meta,       \* the meta table read when _conn was opened
  state,      \* DatasourceState
  pc,         \* where the refresh holding the lock has got to
  roll,       \* the nightly timer: "due" until it fires for today, then "fired"
  crashes,    \* restarts so far
  littered    \* history: the last clean-up raised, or the process died since

disk  == <<archive, candidate, feed, building, index>>
mem   == <<reader, meta, state, pc>>
world == <<today, offered, roll, crashes, littered>>
vars  == <<today, offered, archive, candidate, feed, building, index,
           reader, meta, state, pc, roll, crashes, littered>>

Init ==
  /\ today = 0
  /\ offered \in Version
  /\ archive = None /\ candidate = None /\ feed = None
  /\ building = None /\ index = None
  /\ reader = None /\ meta = None
  /\ state = "idle"
  /\ pc = "down"
  /\ roll = "fired"
  /\ crashes = 0 /\ littered = FALSE

-----------------------------------------------------------------------------
(* Start-up and the timers                                                 *)

(* async_refresh as far as its worker job: the lock was free, every        *)
(* listener hears "importing".                                             *)
Begin(first) ==
  /\ state' = "importing"
  /\ pc' = first

(* async_setup.  What exists is opened; what the refresh must do follows   *)
(* from what could be opened and from the day its window ends.  An open    *)
(* that raises past it leaves no datasource: nothing happens.              *)
SetupOpens ==
  /\ pc = "down" /\ index # None
  /\ reader' = index /\ meta' = index
  /\ \/ index.end < today /\ Begin("check")
     \/ index.end >= today /\ state' = "ready" /\ pc' = "idle"

SetupFindsNothing ==
  /\ pc = "down"
  /\ UNCHANGED <<reader, meta>>
  /\ Begin("fetch")

Setup ==
  /\ SetupOpens \/ SetupFindsNothing
  /\ roll' \in {roll, "fired"}
  /\ UNCHANGED <<disk, today, offered, crashes, littered>>

(* The nightly timer fires once.  If a refresh holds the lock the roll is  *)
(* skipped, not queued.                                                    *)
RollDue ==
  /\ pc # "down" /\ roll = "due"
  /\ roll' = "fired"
  /\ IF pc = "idle" THEN Begin("check") ELSE UNCHANGED <<state, pc>>
  /\ UNCHANGED <<disk, reader, meta, today, offered, crashes, littered>>

(* Fault: the refresh timer registered with roll_only=True.                *)
RefreshOnlyRolls ==
  pc = "idle" /\ Begin("check") /\ UNCHANGED <<disk, reader, meta, world>>

(* The refresh timer, firing while no refresh holds the lock; fired while  *)
(* one does, it returns at once and changes nothing.                       *)
RefreshDue ==
  /\ pc = "idle"
  /\ Begin("fetch")
  /\ UNCHANGED <<disk, reader, meta, world>>

-----------------------------------------------------------------------------
(* The worker: _fetch_and_load                                             *)

(* Fault: a 304 handled as a download that failed.                         *)
NotModifiedRaises ==
  /\ pc = "fetch" /\ meta # None /\ meta.src = offered
  /\ pc' = "failed"
  /\ UNCHANGED <<disk, reader, meta, state, world>>

(* 304: possible only for the archive the meta of the open index names.    *)
(* Returns ahead of the try, so nothing is cleaned up.                     *)
NotModified ==
  /\ pc = "fetch"
  /\ meta # None /\ meta.src = offered
  /\ pc' = "check"
  /\ UNCHANGED <<disk, reader, meta, state, world>>

Download ==
  /\ pc = "fetch"
  /\ archive' = offered
  /\ pc' = "ingest"
  /\ UNCHANGED <<candidate, feed, building, index, reader, meta, state, world>>

(* Fault: a candidate already on disk taken for this archive's.            *)
IngestTrustsCandidate ==
  /\ pc = "ingest" /\ pc' = "guard"
  /\ candidate' = IF candidate = None THEN archive ELSE candidate
  /\ UNCHANGED <<archive, feed, building, index, reader, meta, state, world>>

(* run_ingest reports ok: the candidate is the archive, parsed.            *)
Ingest ==
  /\ pc = "ingest"
  /\ candidate' = archive
  /\ pc' = "guard"
  /\ UNCHANGED <<archive, feed, building, index, reader, meta, state, world>>

(* The engine's should_replace: a feed no day of which has come yet may    *)
(* not replace a working one.                                              *)
ShouldReplace(v, day, isFirst) == isFirst \/ Starts[v] <= day

(* _should_promote: when the candidate's dates cannot be read the answer   *)
(* is whether there was nothing before it.  A candidate refused is         *)
(* unlinked there and then.                                                *)
Trusting == TRUE    \* Fault: a candidate that cannot be read is waved through

PromoteUnread == feed = None

Verdict(promote) ==
  /\ pc = "guard"
  /\ IF promote THEN pc' = "promote" /\ UNCHANGED candidate
                ELSE pc' = "clean" /\ candidate' = None
  /\ UNCHANGED <<archive, feed, building, index, reader, meta, state, world>>

GuardReads      == Verdict(ShouldReplace(candidate, today, feed = None))
GuardCannotRead == Verdict(PromoteUnread)

Promote ==
  /\ pc = "promote"
  /\ feed' = candidate
  /\ candidate' = None
  /\ pc' = "clean"
  /\ UNCHANGED <<archive, building, index, reader, meta, state, world>>

(* Fault: the clean-up at the end of the try, not in a finally.            *)
CleanUnlessRaised ==
  /\ pc \in {"clean", "abort"}
  /\ IF pc = "clean" THEN archive' = None /\ candidate' = None /\ pc' = "check"
                     ELSE UNCHANGED <<archive, candidate>> /\ pc' = "failed"
  /\ UNCHANGED <<feed, building, index, reader, meta, state, world>>

(* The finally clause, on the way on or on the way out.                    *)
Clean ==
  /\ pc \in {"clean", "abort"}
  /\ archive' = None /\ candidate' = None /\ littered' = FALSE
  /\ pc' = IF pc = "clean" THEN "check" ELSE "failed"
  /\ UNCHANGED <<feed, building, index, reader, meta, state, today, offered, roll, crashes>>

(* An unlink of it raises: the archive's, which comes first, or the        *)
(* candidate's.                                                            *)
CleanRaises ==
  /\ pc \in {"clean", "abort"} /\ "unlink" \in Escapes
  /\ archive' \in {archive, None} /\ littered' = TRUE
  /\ pc' = "failed"
  /\ UNCHANGED <<candidate, feed, building, index, reader, meta, state, today, offered, roll, crashes>>

-----------------------------------------------------------------------------
(* The worker: the rest of _refresh                                        *)

Check ==
  /\ pc = "check"
  /\ pc' = IF feed = None THEN "failed" ELSE "materialise"
  /\ UNCHANGED <<disk, reader, meta, state, world>>

(* Fault: the window's last day counted from tomorrow.                     *)
MaterialiseFromTomorrow ==
  /\ pc = "materialise" /\ pc' = "building"
  /\ building' = [src |-> feed, end |-> today + 1 + Horizon, form |-> "partial"]
  /\ UNCHANGED <<archive, candidate, feed, index, reader, meta, state, world>>

(* _materialise reads the clock once, then writes index.building.          *)
Materialise ==
  /\ pc = "materialise"
  /\ building' = [src |-> feed, end |-> today + Horizon, form |-> "partial"]
  /\ pc' = "building"
  /\ UNCHANGED <<archive, candidate, feed, index, reader, meta, state, world>>

Built ==
  /\ pc = "building"
  /\ building' = [building EXCEPT !.form = "whole"]
  /\ pc' = "replace"
  /\ UNCHANGED <<archive, candidate, feed, index, reader, meta, state, world>>

Replace ==
  /\ pc = "replace"
  /\ index' = building
  /\ building' = None
  /\ pc' = "open"
  /\ UNCHANGED <<archive, candidate, feed, reader, meta, state, world>>

(* Any step of the worker may raise; inside the try of _fetch_and_load the *)
(* finally clause still runs.                                              *)
Raises ==
  /\ pc \in {"fetch", "ingest", "guard", "promote", "materialise", "building", "replace"}
  /\ pc' = IF pc \in {"ingest", "guard", "promote"} THEN "abort" ELSE "failed"
  /\ UNCHANGED <<disk, reader, meta, state, world>>

-----------------------------------------------------------------------------
(* Back on the loop                                                        *)

(* Fault: the reopen sets READY only when nothing was open before it.      *)
OpensFirstTime ==
  /\ pc = "open" /\ pc' = "idle"
  /\ reader' = index /\ meta' = index
  /\ state' = IF reader = None THEN "ready" ELSE state
  /\ UNCHANGED <<disk, world>>

(* _open closes before it opens, and keeps the old meta if it fails.       *)
Opens ==
  /\ pc = "open" /\ pc' = "idle"
  /\ reader' = index /\ meta' = index /\ state' = "ready"
  /\ UNCHANGED <<disk, world>>

(* Fault: READY assigned before the open that may fail.                    *)
OpenFailsReady ==
  /\ pc = "open" /\ pc' = "idle"
  /\ reader' = None /\ state' = "ready"
  /\ UNCHANGED <<disk, meta, world>>

OpenFails ==
  /\ pc = "open" /\ pc' = "idle"
  /\ reader' = None /\ state' = "failed"
  /\ UNCHANGED <<disk, meta, world>>

(* The reopen stands outside the handlers of async_refresh and catches     *)
(* sqlite3.Error only, from its second line on.  Whatever else is raised,  *)
(* by the close, by the open or with the connection there already, goes    *)
(* up past the last notification; the state is still "importing".          *)
OpenRaises ==
  /\ pc = "open" /\ pc' = "idle" /\ "open" \in Escapes
  /\ reader' \in {reader, None, index}
  /\ UNCHANGED <<disk, meta, state, world>>

(* The handlers of async_refresh.  The connection stays open.              *)
Fails ==
  /\ pc = "failed"
  /\ state' = "failed"
  /\ pc' = "idle"
  /\ UNCHANGED <<disk, reader, meta, world>>

-----------------------------------------------------------------------------
(* The world                                                               *)

Crash ==
  /\ pc # "down"
  /\ crashes < MaxCrash
  /\ crashes' = crashes + 1 /\ littered' = TRUE
  /\ pc' = "down"
  /\ reader' = None /\ meta' = None /\ state' = "idle"
  /\ UNCHANGED <<disk, today, offered, roll>>

NextDay ==
  /\ today < MaxDay
  /\ today' = today + 1
  /\ roll' = "due"
  /\ UNCHANGED <<disk, mem, offered, crashes, littered>>

PublisherPosts ==
  /\ \E v \in Version \ {offered} : offered' = v
  /\ UNCHANGED <<disk, mem, today, roll, crashes, littered>>

Worker ==
  \/ NotModified \/ Download \/ Ingest
  \/ GuardReads \/ GuardCannotRead \/ Promote
  \/ Clean \/ CleanRaises \/ Check \/ Materialise \/ Built \/ Replace \/ Raises
  \/ Opens \/ OpenFails \/ OpenRaises \/ Fails

Next == Setup \/ RollDue \/ RefreshDue \/ Worker \/ Crash \/ NextDay \/ PublisherPosts

Spec == Init /\ [][Next]_vars

(* The process is started, timers fire, a refresh takes its next step.     *)
FairSpec ==
  /\ Spec
  /\ WF_vars(Setup) /\ WF_vars(RollDue) /\ WF_vars(RefreshDue) /\ WF_vars(Worker)
  /\ SF_vars(Opens)

(* And a download, up to the verdict, a promotion, its clean-up and a      *)
(* build do not fail every time they are tried.                            *)
Recovers ==
  /\ []<>(pc = "fetch") => []<><<NotModified \/ GuardReads>>_vars
  /\ SF_vars(Promote) /\ SF_vars(Clean /\ pc = "clean")
  /\ []<>(pc = "materialise") => []<><<Replace>>_vars

RecoveringSpec == FairSpec /\ Recovers

-----------------------------------------------------------------------------
(* Properties                                                              *)

Stages == {"down", "idle", "fetch", "ingest", "guard", "promote", "clean", "abort",
           "check", "materialise", "building", "replace", "open", "failed"}

TypeOK ==
  /\ today \in 0 .. MaxDay
  /\ offered \in Version
  /\ archive \in Version \cup {None}
  /\ candidate \in Version \cup {None}
  /\ feed \in Version \cup {None}
  /\ building \in Build \cup {None}
  /\ index \in Build \cup {None}
  /\ reader \in Build \cup {None}
  /\ meta \in Build \cup {None}
  /\ state \in {"idle", "importing", "ready", "failed"}
  /\ pc \in Stages
  /\ roll \in {"due", "fired"}
  /\ crashes \in 0 .. MaxCrash
  /\ littered \in BOOLEAN

(* A datasource that says "ready" answers from the published index, and    *)
(* the meta a watch reports its window from belongs to that same index:    *)
(* every way into READY goes through _open, and nothing may publish        *)
(* between it and the next refresh.                                        *)
ReadyReadsPublished ==
  state = "ready" => index # None /\ reader = index /\ meta = index

(* Once a refresh is over, neither the archive nor the candidate is left,  *)
(* whichever way it ended, unless a process died in the middle or an       *)
(* unlink raised; and the next download that is cleaned up after takes     *)
(* what those left with it (the finally clause of _fetch_and_load).        *)
NothingLeftBehind ==
  pc = "idle" /\ ~littered => archive = None /\ candidate = None

(* The strengthening the proofs rest on: what each stage of a refresh may  *)
(* count on from the stages before it.                                     *)
Inductive ==
  /\ pc \in {"ingest", "guard", "promote"} => archive # None
  /\ pc \in {"guard", "promote"} => candidate = archive
  /\ pc = "promote" => feed = None \/ Starts[candidate] <= today
  /\ pc \in {"materialise", "building", "replace"} => feed # None
  /\ pc \in {"building", "replace"} =>
       /\ building # None
       /\ building.src = feed
       /\ building.end \in Horizon .. today + Horizon
       /\ index # None => building.end >= index.end
  /\ pc = "replace" => building.form = "whole"
  /\ pc = "open" => index # None
  /\ index # None => index.end \in Horizon .. today + Horizon
  /\ state = "ready" => pc = "idle"
  /\ ~littered =>
       /\ archive # None => pc \in {"ingest", "guard", "promote", "clean", "abort"}
       /\ candidate # None => pc \in {"guard", "promote", "clean", "abort"}

(* What goes live is what this refresh downloaded, never the candidate of  *)
(* a refresh that died before it: _fetch_and_load ingests before it asks   *)
(* the guard.                                                              *)
PromotesThisDownload == [][feed' # feed => feed' = archive]_vars

(* What polls are answered from: the connection, while the datasource says *)
(* that it is ready.                                                       *)
Served == IF state = "ready" THEN reader ELSE None

(* The files keep the promise of Timetable: a feed that is not in service  *)
(* never displaces one that may be, the index is only ever a whole build   *)
(* of the live feed, its window never moves back, and polls are answered   *)
(* from it or not at all, through failures and crashes at every step.      *)
Abstract == INSTANCE Timetable WITH
  today <- today, feed <- feed, index <- index, reader <- Served

ImplementsTimetable == Abstract!Spec

(* A refresh ends: the datasource does not stay "importing" for good, not  *)
(* even when the reopen raised past the handlers, since a timer fires      *)
(* again and the lock is free.                                             *)
ImportEnds == state = "importing" ~> state # "importing"

(* When the publisher settles on a feed that is in service, departures     *)
(* come to be served from it, over a window that reaches the horizon.      *)
SettlesOnOffer ==
  \A v \in Version :
    <>[](offered = v /\ Starts[v] <= today)
      => /\ <>[](feed = v /\ index = [src |-> v, end |-> today + Horizon, form |-> "whole"])
         /\ []<>(state = "ready" /\ reader = index)
=============================================================================
