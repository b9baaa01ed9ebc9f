------------------------------ MODULE Timetable ------------------------------
(***************************************************************************)
(* What a datasource promises, whatever it takes to keep the promise: one  *)
(* live feed, one published index cut from it, one copy of the index being *)
(* read.  No downloads, no temporary files, no worker and no crash.        *)
(*                                                                         *)
(* A build is a record: src the feed it was cut from, end the last day of  *)
(* its window, form that it was finished before anyone could see it.       *)
(***************************************************************************)
EXTENDS Integers

CONSTANTS
  Version,    \* the archives the publisher may offer
  Starts,     \* Starts[v]: the first service day of v
  Horizon,    \* days of timetable ahead of today
  MaxDay,     \* bound on the calendar
  None        \* no file, no connection

VARIABLES
  today,      \* the date in Home Assistant's timezone
  feed,       \* the live feed, or None before the first import
  index,      \* the published build, or None
  reader      \* the build queries are answered from, or None

tvars == <<today, feed, index, reader>>

Init ==
  /\ today = 0
  /\ feed = None
  /\ index = None
  /\ reader = None

NextDay ==
  /\ today < MaxDay
  /\ today' = today + 1
  /\ UNCHANGED <<feed, index, reader>>

(* A new feed goes live only if it is already in service, unless there is  *)
(* nothing to lose.                                                        *)
Accept(v) ==
  /\ feed = None \/ Starts[v] <= today
  /\ feed' = v
  /\ UNCHANGED <<today, index, reader>>

(* A whole build of the live feed takes the place of the one before it,    *)
(* its window never ends earlier than the window it replaces, and nobody   *)
(* is being answered from what it replaces.                                *)
Publish(end) ==
  /\ feed # None /\ reader = None
  /\ end <= today + Horizon
  /\ index # None => end >= index.end
  /\ index' = [src |-> feed, end |-> end, form |-> "whole"]
  /\ UNCHANGED <<today, feed, reader>>

(* Queries are answered from the published build, or not at all.           *)
Serve ==
  /\ reader' \in {index, None}
  /\ UNCHANGED <<today, feed, index>>

Next ==
  \/ NextDay
  \/ \E v \in Version : Accept(v)
  \/ \E end \in Horizon .. MaxDay + Horizon : Publish(end)
  \/ Serve

Spec == Init /\ [][Next]_tvars
=============================================================================
