--------------------------- MODULE PresenterProofs ---------------------------
(***************************************************************************)
(* The labels of days, for every zone, timetable and length of the day.    *)
(*                                                                         *)
(* A label tells dates apart because it is a one-to-one function of the    *)
(* date once the present is fixed.  That it moves one way, down the list   *)
(* and from poll to poll, rests on dates that do not run backwards and on  *)
(* NoGap: nothing on the list lies before the instant of the poll.         *)
(***************************************************************************)
EXTENDS Presenter, SelectionProofs

(* The dates of instants are numbers, and a later instant is not on an     *)
(* earlier date.                                                           *)
LEMMA DatesAdvance ==
  ASSUME NEW t \in Instants, NEW u \in Instants, NEW name
  PROVE  /\ LocalDate(t, name) \in Int
         /\ t <= u => LocalDate(t, name) <= LocalDate(u, name)
  <1>1. ZoneFor(name) \in Zone /\ ZoneFor(ZoneFor(name)) = ZoneFor(name)
    BY ZoneAssumption DEF ZoneFor
  <1>2. LocalDate(t, name) = LocalDate(t, ZoneFor(name)) /\ LocalDate(u, name) = LocalDate(u, ZoneFor(name))
    BY <1>1 DEF LocalDate
  <1>3. t \in Int /\ Offset[ZoneFor(name)][t] \in Int
    BY <1>1, ZoneAssumption, ClockAssumption, DepartureAssumption DEF Instants
  <1>4. LocalDate(t, name) \in Int
    BY <1>3, ZoneAssumption DEF LocalDate
  <1> QED BY <1>1, <1>2, <1>4, ZoneAssumption

(* A label tells any two dates from today on apart, and ranks them.        *)
LEMMA LabelFacts ==
  ASSUME NEW today \in Int, NEW a \in Int, NEW b \in Int
  PROVE  /\ Label(a - today, a) = Label(b - today, b) <=> a = b
         /\ today <= a /\ a <= b => Rank(Label(a - today, a)) <= Rank(Label(b - today, b))
  <1> USE DEF Label, Rank
  <1>1. Label(a - today, a) = Label(b - today, b) => a = b
    BY Z3
  <1>2. today <= a /\ a <= b => Rank(Label(a - today, a)) <= Rank(Label(b - today, b))
    OBVIOUS
  <1> QED BY <1>1, <1>2

(* A label that is nearer in time ranks no higher.                         *)
LEMMA LabelComesNearer ==
  ASSUME NEW date \in Int, NEW today \in Int, NEW next \in Int,
         today <= next, next <= date
  PROVE  Rank(Label(date - next, date)) <= Rank(Label(date - today, date))
  BY DEF Label, Rank

(* What the payload of a departure says of its day.                        *)
LEMMA DayOfRow ==
  ASSUME NEW wd, NEW d \in wd.rows
  PROVE  DayOf(wd, d) = Label(LocalDate(d.at, d.zone) - LocalDate(wd.now, d.zone), LocalDate(d.at, d.zone))
  BY DEF DayOf, StateAttributes, DeparturePayload, DayLabel

(* The rows of an answer lie at or after the poll, at instants of the      *)
(* timetable's, and so do those on show.                                   *)
LEMMA AnswerAhead ==
  ASSUME NEW i \in Index, NEW w \in Watches, NEW t \in Nat, NEW d \in WatchData(i, w, t).rows
  PROVE  d \in Departure /\ d.at \in Instants /\ t <= d.at
  <1>1. d \in Selected(i, w, t)
    BY DEF WatchData, Empty
  <1>2. d \in WorthShowing(i, w, t)
    BY <1>1, SelectedIsInitial
  <1>3. d \in Departure /\ d.at >= t + w.offset
    BY <1>2 DEF WorthShowing, Index
  <1>4. w.offset \in Nat /\ d.at \in Int
    BY <1>3, WatchAssumption, DepartureAssumption
  <1> QED BY <1>3, <1>4 DEF Instants

LEMMA RowsAhead ==
  ASSUME TypeOK, ShowsWhatItRead, Answered, NEW d \in data.rows
  PROVE  d \in Departure /\ d.at \in Instants /\ data.now \in Instants /\ data.now <= d.at
  <1>1. /\ polled \in Index /\ watch \in Watches /\ data.now \in Nat
        /\ data = WatchData(polled, watch, data.now)
    BY DEF ShowsWhatItRead, Answered
  <1>2. data.now \in Instants
    BY <1>1, ClockAssumption DEF TypeOK, Instants
  <1> QED BY <1>1, <1>2, AnswerAhead

(* Two rows of one zone are labelled by the dates in that zone.            *)
LEMMA DayOfPair ==
  ASSUME NEW d, NEW e, SameZone(d, e), NEW t
  PROVE  LocalDate(t, e.zone) = LocalDate(t, d.zone)
  BY DEF SameZone, LocalDate

(* Departures carry the same day exactly when they are on the same date:   *)
(* presenter.py 63-80.                                                     *)
THEOREM SameLabelSameDate == Spec => []LabelsGroupByDate
  <1>1. ASSUME TypeOK, ShowsWhatItRead PROVE LabelsGroupByDate
    <2> SUFFICES ASSUME Answered, NEW d \in data.rows, NEW e \in data.rows, SameZone(d, e)
                 PROVE  DayOf(data, d) = DayOf(data, e)
                          <=> LocalDate(d.at, d.zone) = LocalDate(e.at, e.zone)
      BY DEF LabelsGroupByDate
    <2>1. LocalDate(data.now, e.zone) = LocalDate(data.now, d.zone)
      BY DayOfPair
    <2>2. /\ LocalDate(data.now, d.zone) \in Int
          /\ LocalDate(d.at, d.zone) \in Int /\ LocalDate(e.at, e.zone) \in Int
      BY <1>1, RowsAhead, DatesAdvance
    <2>3. /\ DayOf(data, d) = Label(LocalDate(d.at, d.zone) - LocalDate(data.now, d.zone), LocalDate(d.at, d.zone))
          /\ DayOf(data, e) = Label(LocalDate(e.at, e.zone) - LocalDate(data.now, d.zone), LocalDate(e.at, e.zone))
      BY <2>1, DayOfRow
    <2> DEFINE today == LocalDate(data.now, d.zone)
    <2> DEFINE a == LocalDate(d.at, d.zone)
    <2> DEFINE b == LocalDate(e.at, e.zone)
    <2>4. today \in Int /\ a \in Int /\ b \in Int /\ DayOf(data, d) = Label(a - today, a)
          /\ DayOf(data, e) = Label(b - today, b)
      BY <2>2, <2>3
    <2> HIDE DEF today, a, b
    <2>5. Label(a - today, a) = Label(b - today, b) <=> a = b
      BY <2>4, LabelFacts
    <2> QED BY <2>4, <2>5 DEF a, b
  <1> QED BY <1>1, TypeCorrect, ShowsInvariance, PTL

(* Down the list the days never go back: presenter.py 63-80 over           *)
(* coordinator.py 193-210.                                                 *)
THEOREM LabelsFollowTheList == Spec => []LabelsInOrder
  <1>1. ASSUME TypeOK, ShowsWhatItRead PROVE LabelsInOrder
    <2> SUFFICES ASSUME Answered, NEW d \in data.rows, NEW e \in data.rows,
                        SameZone(d, e), d.seq < e.seq
                 PROVE  Rank(DayOf(data, d)) <= Rank(DayOf(data, e))
      BY DEF LabelsInOrder
    <2>1. LocalDate(data.now, e.zone) = LocalDate(data.now, d.zone)
          /\ LocalDate(e.at, e.zone) = LocalDate(e.at, d.zone)
      BY DayOfPair
    <2>2. /\ d \in Departure /\ e \in Departure /\ data.now <= d.at
          /\ d.at \in Instants /\ e.at \in Instants /\ data.now \in Instants
      BY <1>1, RowsAhead
    <2>3. d.at <= e.at
      BY <2>2, DepartureAssumption
    <2>4. /\ LocalDate(data.now, d.zone) \in Int
          /\ LocalDate(d.at, d.zone) \in Int /\ LocalDate(e.at, d.zone) \in Int
          /\ LocalDate(data.now, d.zone) <= LocalDate(d.at, d.zone)
          /\ LocalDate(d.at, d.zone) <= LocalDate(e.at, d.zone)
      BY <2>2, <2>3, DatesAdvance
    <2>5. /\ DayOf(data, d) = Label(LocalDate(d.at, d.zone) - LocalDate(data.now, d.zone), LocalDate(d.at, d.zone))
          /\ DayOf(data, e) = Label(LocalDate(e.at, d.zone) - LocalDate(data.now, d.zone), LocalDate(e.at, d.zone))
      BY <2>1, DayOfRow
    <2> QED BY <2>4, <2>5, LabelFacts
  <1> QED BY <1>1, TypeCorrect, ShowsInvariance, PTL

(* A departure that is on the list again has come nearer: presenter.py     *)
(* 63-80.                                                                  *)
THEOREM DeparturesComeNearer == Spec => LabelsAdvance
  <1> DEFINE Nearer == polled # None /\ Answered' =>
                \A d \in answer.rows \cap data'.rows : Rank(DayOf(data', d)) <= Rank(DayOf(answer, d))
  <1>1. ASSUME TypeOK, ShowsWhatItRead, TypeOK', ShowsWhatItRead', [Next]_vars
        PROVE  Nearer
    <2> SUFFICES ASSUME polled # None, Answered', NEW d \in answer.rows, d \in data'.rows
                 PROVE  Rank(DayOf(data', d)) <= Rank(DayOf(answer, d))
      OBVIOUS
    <2>1. /\ data' = answer' /\ data'.now \in Int /\ answer.now \in Int /\ now \in Nat /\ answer.now <= now
          /\ watch \in Watches /\ index \in Index
      BY <1>1 DEF ShowsWhatItRead
    <2>2. d \in Departure /\ d.at \in Instants /\ answer.now \in Instants /\ answer.now <= d.at
      <3>1. /\ polled \in Index /\ watch \in Watches /\ answer.now \in Nat
            /\ answer = WatchData(polled, watch, answer.now)
        BY <1>1 DEF ShowsWhatItRead
      <3>2. answer.now \in Instants
        BY <1>1, <3>1, ClockAssumption DEF TypeOK, Instants
      <3> QED BY <3>1, <3>2, AnswerAhead
    <2>3. data'.now \in Instants /\ data'.now <= d.at /\ answer.now <= data'.now
      <3>1. CASE PollAnswered
        <4>1. data' = WatchData(index, watch, now)
          BY <3>1 DEF PollAnswered
        <4>2. data'.now = now /\ now \in Instants
          BY <1>1, <4>1 DEF WatchData, Empty, TypeOK, Instants
        <4>3. now <= d.at
          BY <2>1, <4>1, AnswerAhead
        <4> QED BY <2>1, <4>2, <4>3
      <3>2. CASE answer' = answer
        BY <2>1, <2>2, <3>2
      <3>3. PollAnswered \/ answer' = answer
        BY <1>1 DEF Next, Poll, Tick, Starts, ImportBegins, ImportSucceeds, ImportFails,
                    PollUnready, PollUnanswered, vars
      <3> QED BY <3>1, <3>2, <3>3
    <2>4. /\ LocalDate(answer.now, d.zone) \in Int /\ LocalDate(data'.now, d.zone) \in Int
          /\ LocalDate(d.at, d.zone) \in Int
          /\ LocalDate(answer.now, d.zone) <= LocalDate(data'.now, d.zone)
          /\ LocalDate(data'.now, d.zone) <= LocalDate(d.at, d.zone)
      BY <2>1, <2>2, <2>3, DatesAdvance
    <2>5. /\ DayOf(answer, d) = Label(LocalDate(d.at, d.zone) - LocalDate(answer.now, d.zone), LocalDate(d.at, d.zone))
          /\ DayOf(data', d) = Label(LocalDate(d.at, d.zone) - LocalDate(data'.now, d.zone), LocalDate(d.at, d.zone))
      BY DayOfRow
    <2> QED BY <2>4, <2>5, LabelComesNearer
  <1> QED BY <1>1, TypeCorrect, ShowsInvariance, PTL DEF Spec, LabelsAdvance
=============================================================================
