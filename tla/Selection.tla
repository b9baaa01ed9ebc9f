------------------------------ MODULE Selection ------------------------------
(***************************************************************************)
(* What a poll of one watch selects out of the index and what it says      *)
(* about the selection (coordinator.py: _async_update_data).               *)
(*                                                                         *)
(* The clock advances, imports come and go and replace the index, and the  *)
(* watch polls; a poll that finds the datasource not ready, or gets no     *)
(* answer, empties the list.  A poll that is answered reads one build of   *)
(* the index and its window: Lifecycle has that as WindowMatchesRows.  The *)
(* query functions are the library's: the first `want` departures between  *)
(* two instants, in scan order.  Rows are a set here; their order on the   *)
(* page is the scan order, seq.                                            *)
(***************************************************************************)
EXTENDS Integers, FiniteSets

CONSTANTS
  Departure,  \* records: at (instant), seq (scan order), stop, calls (later stops),
              \* way (direction_id), zone (tz_name)
  Stop,       \* stop ids
  Watches,    \* subentry data: origins, destinations, direction, limit, offset, lookback
  OverFetch,  \* over_fetch(limit)
  MaxNow,     \* bound on the clock
  Ends,       \* the instants a window may end at
  Month,      \* 86400 * 30 seconds
  None        \* no direction, no window end

ASSUME DepartureAssumption ==
  /\ IsFiniteSet(Departure)
  /\ \A d \in Departure : d.at \in Int /\ d.seq \in Int
  /\ \A d, e \in Departure : d.seq = e.seq => d = e
  /\ \A d, e \in Departure : d.seq <= e.seq => d.at <= e.at

ASSUME WatchAssumption ==
  \A w \in Watches : /\ w.origins \cup w.destinations \subseteq Stop
                     /\ w.limit \in Nat \ {0} /\ w.offset \in Nat /\ w.lookback \in Nat
                     /\ OverFetch[w.limit] \in Nat /\ OverFetch[w.limit] >= w.limit

ASSUME ClockAssumption == MaxNow \in Nat /\ Ends \subseteq Nat /\ Month \in Nat /\ None \notin Int

VARIABLES
  watch,      \* the watch's options
  now,        \* utcnow
  state,      \* the datasource's DatasourceState
  index,      \* what the index last opened holds: departures, stops and the window's end
  data,       \* WatchData, as last published
  polled,     \* history: the index the last poll that was answered read
  answer      \* history: the WatchData of that poll

vars == <<watch, now, state, index, data, polled, answer>>

(* An index holds no departure past its window's end or of unknown stops.  *)
Index == {i \in [departures : SUBSET Departure, stops : SUBSET Stop, end : Ends \cup {None}] :
            \A d \in i.departures : /\ {d.stop} \cup d.calls \subseteq i.stops
                                    /\ i.end # None => d.at < i.end}

(* The statuses of a poll that was given no page.                          *)
Pageless == {"stop_not_in_feed", "extracting", "datasource_failed"}

Status == {"ok", "no_departures", "window_exhausted"} \cup Pageless

-----------------------------------------------------------------------------
(* The library's queries                                                   *)

(* The first n of S in scan order, also what a slice [:n] leaves.          *)
FirstN(S, n) == {d \in S : Cardinality({e \in S : e.seq < d.seq}) < n}

Resolved(i, ids) == ids \cap i.stops

(* departures_origin_to_destination when a destination resolved, or        *)
(* departures_at_stops; a trip without a direction passes any filter.      *)
Serves(i, w, d) ==
  /\ d.stop \in Resolved(i, w.origins)
  /\ Resolved(i, w.destinations) # {} => d.calls \cap Resolved(i, w.destinations) # {}
  /\ w.direction = None \/ d.way \in {w.direction, None}

-----------------------------------------------------------------------------
(* One poll                                                                *)

(* Fault: a departure is given up for lost a whole lookback early.         *)
EarliestByLookback(w, t) == t + w.offset + w.lookback

(* The instant from which a departure is worth showing.                    *)
Earliest(w, t) == t + w.offset

(* The instant the scan starts at.                                         *)
From(w, t) == Earliest(w, t) - w.lookback

Until(i, w, t) == IF i.end # None THEN i.end ELSE From(w, t) + Month

Candidates(i, w, t) ==
  {d \in i.departures : Serves(i, w, d) /\ From(w, t) <= d.at /\ d.at < Until(i, w, t)}

Page(i, w, t) == FirstN(Candidates(i, w, t), OverFetch[w.limit])

(* Departures were left inside the window.                                 *)
PageTruncated(i, w, t) == Cardinality(Candidates(i, w, t)) > OverFetch[w.limit]

(* Fault: a page without a row to show is taken for an exhausted window.   *)
ExhaustedAlways(i, w, t) == TRUE

(* The scan reached the end of the window without filling the page.        *)
PageExhausted(i, w, t) == Cardinality(Candidates(i, w, t)) < OverFetch[w.limit]

(* Fault: the rows the lookback found are kept.                            *)
DueAll(i, w, t) == Page(i, w, t)

(* The page without the rows that only the lookback found.                 *)
Due(i, w, t) == {d \in Page(i, w, t) : d.at >= Earliest(w, t)}

Selected(i, w, t) == FirstN(Due(i, w, t), w.limit)

StatusOf(i, w, t) ==
  CASE Selected(i, w, t) # {} -> "ok"
    [] Selected(i, w, t) = {} /\ PageExhausted(i, w, t) /\ i.end # None -> "window_exhausted"
    [] OTHER -> "no_departures"

(* Fault: only the page's own flag is passed on.                           *)
TruncatedByPage(i, w, t) == PageTruncated(i, w, t)

(* Fault: a list that just fills the limit counts as cut.                  *)
TruncatedWhenFull(i, w, t) ==
  Cardinality(Due(i, w, t)) >= w.limit \/ PageTruncated(i, w, t)

Truncated(i, w, t) == Cardinality(Due(i, w, t)) > w.limit \/ PageTruncated(i, w, t)

Missing(i, w) == (w.origins \cup w.destinations) \ i.stops

(* Fault: the instant the list starts at is given out as the time of the   *)
(* poll.                                                                   *)
WatchDataAhead(i, w, t) ==
  [rows |-> Selected(i, w, t), status |-> StatusOf(i, w, t), now |-> Earliest(w, t),
   truncated |-> Truncated(i, w, t), end |-> i.end, missing |-> Missing(i, w)]

(* A WatchData without rows: every field but these has its default.        *)
Empty(status, t, missing) ==
  [rows |-> {}, status |-> status, now |-> t, truncated |-> FALSE, end |-> None,
   missing |-> missing]

(* With no origin in the feed there is no page at all.                     *)
WatchData(i, w, t) ==
  IF Resolved(i, w.origins) = {}
  THEN Empty("stop_not_in_feed", t, Missing(i, w))
  ELSE [rows |-> Selected(i, w, t), status |-> StatusOf(i, w, t), now |-> t,
        truncated |-> Truncated(i, w, t), end |-> i.end, missing |-> Missing(i, w)]

-----------------------------------------------------------------------------
(* Before the first poll the sensor shows an empty WatchData.              *)
Init ==
  /\ watch \in Watches
  /\ now = 0
  /\ state = "idle"
  /\ index \in Index
  /\ data = Empty("no_departures", 0, {})
  /\ polled = None /\ answer = Empty("no_departures", 0, {})

Tick ==
  /\ now < MaxNow
  /\ now' = now + 1
  /\ UNCHANGED <<watch, state, index, data, polled, answer>>

(* A refresh takes the datasource's lock.                                  *)
ImportBegins ==
  /\ state # "importing"
  /\ state' = "importing"
  /\ UNCHANGED <<watch, now, index, data, polled, answer>>

(* Start-up opened the index there is, or failed to.                       *)
Starts ==
  /\ state = "idle"
  /\ state' \in {"ready", "failed"}
  /\ UNCHANGED <<watch, now, index, data, polled, answer>>

(* A refresh is over and has opened another index.                         *)
ImportSucceeds ==
  /\ state = "importing"
  /\ state' = "ready" /\ index' \in Index
  /\ UNCHANGED <<watch, now, data, polled, answer>>

(* It has failed at some step; whatever it may have published comes to be  *)
(* read with the success of a later one.                                   *)
ImportFails ==
  /\ state = "importing"
  /\ state' = "failed"
  /\ UNCHANGED <<watch, now, index, data, polled, answer>>

(* Nothing is asked of a datasource that is not ready.                     *)
PollUnready ==
  /\ state # "ready"
  /\ data' = Empty(IF state = "failed" THEN "datasource_failed" ELSE "extracting", now, {})
  /\ UNCHANGED <<watch, now, state, index, polled, answer>>

(* The query finds no connection, or sqlite does not answer it.            *)
PollUnanswered ==
  /\ state = "ready"
  /\ data' = Empty("datasource_failed", now, {})
  /\ UNCHANGED <<watch, now, state, index, polled, answer>>

PollAnswered ==
  /\ state = "ready"
  /\ data' = WatchData(index, watch, now)
  /\ polled' = index /\ answer' = data'
  /\ UNCHANGED <<watch, now, state, index>>

Poll == PollUnready \/ PollUnanswered \/ PollAnswered

Next == Tick \/ Starts \/ ImportBegins \/ ImportSucceeds \/ ImportFails \/ Poll

Spec == Init /\ [][Next]_vars

-----------------------------------------------------------------------------
TypeOK ==
  /\ watch \in Watches
  /\ now \in 0 .. MaxNow
  /\ state \in {"idle", "importing", "ready", "failed"}
  /\ index \in Index
  /\ polled \in Index \cup {None}
  /\ \A wd \in {data, answer} :
       /\ wd.rows \in SUBSET Departure
       /\ wd.status \in Status
       /\ wd.now \in 0 .. now
       /\ wd.truncated \in BOOLEAN
       /\ wd.end \in Ends \cup {None}
       /\ wd.missing \in SUBSET Stop

(* What a watch ought to find in index i at instant t: every departure of  *)
(* the service it asks for, from the first that can still be caught to the *)
(* end of what is materialised.                                            *)
WorthShowing(i, w, t) ==
  {d \in i.departures : Serves(i, w, d) /\ d.at >= t + w.offset /\ d.at < Until(i, w, t)}

(* The list on show was cut from a page.                                   *)
Answered == polled # None /\ data.status \notin Pageless

(* coordinator.py 193-210: of what is worth showing the list is an initial *)
(* segment.  Neither a departure that has gone, nor a hole left by the     *)
(* over-fetch, the filter and the trim that follow each other.             *)
NoGap ==
  Answered =>
    LET worth == WorthShowing(polled, watch, data.now) IN
      /\ data.rows \subseteq worth
      /\ \A d \in data.rows, e \in worth : e.seq < d.seq => e \in data.rows

(* coordinator.py 223, Q-47: a list not flagged as truncated is complete.  *)
UncutIsComplete ==
  Answered /\ ~data.truncated => data.rows = WorthShowing(polled, watch, data.now)

(* The other direction: a list with departures on it and the flag set does *)
(* have more behind it, so raising the limit shows more.                   *)
CutHasMore ==
  Answered /\ data.truncated /\ data.rows # {} =>
    \E d \in WorthShowing(polled, watch, data.now) : d \notin data.rows

(* coordinator.py 214: "the window ran out" is said only when nothing in   *)
(* the window is left to show, never because the rows that the lookback    *)
(* dragged in used the page up.                                            *)
ExhaustedIsQuiet ==
  Answered /\ data.status = "window_exhausted" => WorthShowing(polled, watch, data.now) = {}

(* From one answer to the next out of the same index, whatever imports and *)
(* failures emptied the list in between (coordinator.py 131-134, 185-186), *)
(* a departure is missing only if it has become too early to catch,        *)
(* although the page it was cut from starts and ends elsewhere.            *)
KeepsUntilGone ==
  [][polled # None /\ polled' = polled /\ Answered' =>
       \A d \in answer.rows \ data'.rows : d.at < data'.now + watch.offset]_vars

(* "During a re-extraction, existing sensors ... retain their previous     *)
(* data" (docs/SPEC.md 882): a watch that polls during an import goes on   *)
(* showing what can still be caught.                                       *)
RetainsData ==
  [][state = "importing" =>
       \A d \in data.rows \ data'.rows : d.at < data'.now + watch.offset]_vars
=============================================================================
