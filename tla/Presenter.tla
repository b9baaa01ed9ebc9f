------------------------------ MODULE Presenter ------------------------------
(***************************************************************************)
(* What the two sensors of a watch publish of what a poll selected         *)
(* (presenter.py, sensor.py).                                              *)
(*                                                                         *)
(* No state of its own: the attributes are written from the WatchData of   *)
(* the last poll, whose instant stands for the present in them.  Texts are *)
(* left out except for the ones whose computing is delicate, the labels of *)
(* days, which depend on the time zone of each departure.                  *)
(***************************************************************************)
EXTENDS Selection

CONSTANTS
  Zone,       \* the zones the tz database has
  Offset,     \* Offset[z][t]: local time less UTC in zone z at instant t
  UTC,        \* the zone that stands in for an unknown one
  Day,        \* 86400 seconds
  HomeZone    \* hass.config.time_zone

Instants == (0 .. MaxNow) \cup {d.at : d \in Departure}

-----------------------------------------------------------------------------
(* Zones and days                                                          *)

ZoneFor(name) == IF name \in Zone THEN name ELSE UTC

LocalDate(t, name) == (t + Offset[ZoneFor(name)][t]) \div Day

Label(delta, date) ==
  CASE delta = 0 -> <<"today">>
    [] delta = 1 -> <<"tomorrow">>
    [] OTHER -> <<"date", date>>

(* Fault: the days between are the difference of the instants over 86400.  *)
DayLabelByDuration(t, today, name) == Label((t - today) \div Day, LocalDate(t, name))

(* Fault: what day it is, is asked of the machine's zone.                  *)
DayLabelAtHome(t, today, name) ==
  Label(LocalDate(t, name) - LocalDate(today, HomeZone), LocalDate(t, name))

DayLabel(t, today, name) ==
  Label(LocalDate(t, name) - LocalDate(today, name), LocalDate(t, name))

(* The clock of no zone puts an instant on an earlier date than one before *)
(* it: a zone may put its clock back, but not across midnight.             *)
ASSUME ZoneAssumption ==
  /\ UTC \in Zone /\ Day \in Nat \ {0}
  /\ \A z \in Zone : \A t, u \in Instants :
       /\ Offset[z][t] \in Int
       /\ t <= u => LocalDate(t, z) <= LocalDate(u, z)

-----------------------------------------------------------------------------
(* The sensors                                                             *)

HeadRow(rows) == CHOOSE d \in rows : \A e \in rows : d.seq <= e.seq

(* The state of the departure sensor.                                      *)
NextDeparture(wd) == IF wd.rows = {} THEN None ELSE HeadRow(wd.rows).at

DeparturePayload(d, today) ==
  [departure |-> d.at, local |-> d.at + Offset[ZoneFor(d.zone)][d.at],
   day |-> DayLabel(d.at, today, d.zone)]

(* Every attribute is there, also when nothing departs.                    *)
StateAttributes(wd) ==
  [next |-> NextDeparture(wd),
   departures |-> [d \in wd.rows |-> DeparturePayload(d, wd.now)],
   timezone |-> IF wd.rows = {} THEN HomeZone ELSE HeadRow(wd.rows).zone,
   status |-> wd.status, truncated |-> wd.truncated, window_end |-> wd.end]

(* And of the status sensor.                                               *)
StatusAttributes(wd) ==
  [departure_count |-> Cardinality(wd.rows), missing_stop_ids |-> wd.missing]

-----------------------------------------------------------------------------
(* Properties                                                              *)

DayOf(wd, d) == StateAttributes(wd).departures[d].day

(* Distance in days, as far as a label tells it.                           *)
Rank(label) == IF label[1] = "today" THEN 0 ELSE IF label[1] = "tomorrow" THEN 1 ELSE 2

SameZone(d, e) == ZoneFor(d.zone) = ZoneFor(e.zone)

(* Two departures of a list carry the same day exactly when they are on    *)
(* the same date where they depart, whatever the length of the days        *)
(* between (presenter.py 63-80).                                           *)
LabelsGroupByDate ==
  Answered => \A d, e \in data.rows :
    SameZone(d, e) => (DayOf(data, d) = DayOf(data, e) <=>
                         LocalDate(d.at, d.zone) = LocalDate(e.at, e.zone))

(* Down the list the days go from today to tomorrow to a date, and never   *)
(* back: what the selection lets through is not on a date that has passed. *)
LabelsInOrder ==
  Answered => \A d, e \in data.rows :
    SameZone(d, e) /\ d.seq < e.seq => Rank(DayOf(data, d)) <= Rank(DayOf(data, e))

(* From answer to answer, of whatever index and with whatever failures in  *)
(* between, a departure that is on the list again has come nearer: its day *)
(* may go from a date to tomorrow and to today, and never back.            *)
LabelsAdvance ==
  [][polled # None /\ Answered' =>
       \A d \in answer.rows \cap data'.rows : Rank(DayOf(data', d)) <= Rank(DayOf(answer, d))]_vars
=============================================================================
