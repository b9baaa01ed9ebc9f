--------------------------- MODULE SelectionProofs ---------------------------
(***************************************************************************)
(* What a poll publishes, for every timetable, every watch and every       *)
(* padding of the page.                                                    *)
(*                                                                         *)
(* Taking the first n of a set twice, with a filter between the two cuts,  *)
(* leaves no hole: a cut keeps an initial segment of the scan order, and   *)
(* the filter drops an initial segment.  That a cut which drops something  *)
(* had more than n elements to choose from, and the converse, is counted   *)
(* with the pigeonhole theorem: elements of a finite set have distinct     *)
(* numbers of predecessors.                                                *)
(***************************************************************************)
EXTENDS Selection, FiniteSetTheorems, TLAPS

Before(S, d) == {e \in S : e.seq < d.seq}

(* The predecessors of an element are a finite proper subset, and a later  *)
(* element has more of them.                                               *)
LEMMA Predecessors ==
  ASSUME NEW S \in SUBSET Departure, NEW d \in S
  PROVE  /\ IsFiniteSet(S) /\ Cardinality(S) \in Nat
         /\ Cardinality(Before(S, d)) \in Nat
         /\ Cardinality(Before(S, d)) < Cardinality(S)
         /\ \A e \in S : e.seq < d.seq => Cardinality(Before(S, e)) < Cardinality(Before(S, d))
  <1>1. IsFiniteSet(S) /\ Cardinality(S) \in Nat
    BY DepartureAssumption, FS_Subset, FS_CardinalityType
  <1>2. \A e \in S : IsFiniteSet(Before(S, e)) /\ Cardinality(Before(S, e)) \in Nat
    BY <1>1, FS_Subset, FS_CardinalityType DEF Before
  <1>3. \A e \in S : e.seq \in Int
    BY DepartureAssumption
  <1>4. Cardinality(Before(S, d)) < Cardinality(S)
    <2>1. Before(S, d) \in SUBSET S /\ Before(S, d) # S
      <3>1. d \notin Before(S, d)
        BY <1>3 DEF Before
      <3> QED BY <3>1 DEF Before
    <2> QED BY <2>1, <1>1, <1>2, FS_Subset
  <1>5. ASSUME NEW e \in S, e.seq < d.seq
        PROVE  Cardinality(Before(S, e)) < Cardinality(Before(S, d))
    <2>1. Before(S, e) \in SUBSET Before(S, d)
      BY <1>3, <1>5 DEF Before
    <2>2. Before(S, e) # Before(S, d)
      <3>1. e \in Before(S, d)
        BY <1>5 DEF Before
      <3>2. e \notin Before(S, e)
        BY <1>3 DEF Before
      <3> QED BY <3>1, <3>2
    <2> QED BY <2>1, <2>2, <1>2, FS_Subset
  <1> QED BY <1>1, <1>2, <1>4, <1>5

(* No two elements have the same number of predecessors.                   *)
LEMMA CountsDiffer ==
  ASSUME NEW S \in SUBSET Departure, NEW d \in S, NEW e \in S, d # e
  PROVE  Cardinality(Before(S, d)) # Cardinality(Before(S, e))
  <1>1. d.seq \in Int /\ e.seq \in Int /\ d.seq # e.seq
    BY DepartureAssumption
  <1>2. CASE d.seq < e.seq
    BY <1>2, Predecessors
  <1>3. CASE e.seq < d.seq
    BY <1>3, Predecessors
  <1> QED BY <1>1, <1>2, <1>3

(* A cut keeps an initial segment.                                         *)
LEMMA CutIsInitial ==
  ASSUME NEW S \in SUBSET Departure, NEW n \in Nat
  PROVE  /\ FirstN(S, n) \subseteq S
         /\ \A d \in FirstN(S, n), e \in S : e.seq < d.seq => e \in FirstN(S, n)
  <1> SUFFICES ASSUME NEW d \in FirstN(S, n), NEW e \in S, e.seq < d.seq
               PROVE  e \in FirstN(S, n)
    BY DEF FirstN
  <1>1. d \in S /\ Cardinality(Before(S, d)) < n
    BY DEF FirstN, Before
  <1>2. Cardinality(Before(S, e)) < Cardinality(Before(S, d))
    BY <1>1, Predecessors
  <1>3. Cardinality(Before(S, d)) \in Nat /\ Cardinality(Before(S, e)) \in Nat
    BY <1>1, Predecessors
  <1>4. Cardinality(Before(S, e)) < n
    BY <1>1, <1>2, <1>3
  <1> QED BY <1>4 DEF FirstN, Before

(* A cut of at most n elements keeps them all.                             *)
LEMMA CutKeepsFew ==
  ASSUME NEW S \in SUBSET Departure, NEW n \in Nat, Cardinality(S) <= n
  PROVE  FirstN(S, n) = S
  <1> SUFFICES ASSUME NEW d \in S
               PROVE  Cardinality(Before(S, d)) < n
    BY DEF FirstN, Before
  <1>1. /\ Cardinality(S) \in Nat /\ Cardinality(Before(S, d)) \in Nat
        /\ Cardinality(Before(S, d)) < Cardinality(S)
    BY Predecessors
  <1> QED BY <1>1

(* A cut that keeps everything had at most n elements to keep.             *)
LEMMA CutDropsMany ==
  ASSUME NEW S \in SUBSET Departure, NEW n \in Nat, FirstN(S, n) = S
  PROVE  Cardinality(S) <= n
  <1> DEFINE count == [d \in S |-> Cardinality(Before(S, d))]
  <1>1. IsFiniteSet(S) /\ Cardinality(S) \in Nat
    BY DepartureAssumption, FS_Subset, FS_CardinalityType
  <1>2. IsFiniteSet(0 .. n - 1) /\ Cardinality(0 .. n - 1) = n
    BY FS_Interval
  <1>3. count \in [S -> 0 .. n - 1]
    <2> SUFFICES ASSUME NEW d \in S
                 PROVE  Cardinality(Before(S, d)) \in 0 .. n - 1
      OBVIOUS
    <2>1. Cardinality(Before(S, d)) \in Nat
      BY Predecessors
    <2>2. Cardinality(Before(S, d)) < n
      BY DEF FirstN, Before
    <2> QED BY <2>1, <2>2
  <1>4. ~ \E d, e \in S : d # e /\ count[d] = count[e]
    BY CountsDiffer
  <1>5. ~ (n < Cardinality(S))
    <2> HIDE DEF count
    <2> QED BY <1>1, <1>2, <1>3, <1>4, FS_PigeonHole
  <1> QED BY <1>1, <1>5

(* A cut of at least one from something leaves something.                  *)
LEMMA CutLeavesOne ==
  ASSUME NEW S \in SUBSET Departure, NEW n \in Nat \ {0}, FirstN(S, n) = {}
  PROVE  S = {}
  <1> SUFFICES ASSUME S # {} PROVE FALSE
    OBVIOUS
  <1> DEFINE count == [d \in S |-> Cardinality(Before(S, d))]
  <1> DEFINE N == Cardinality(S)
  <1>1. IsFiniteSet(S) /\ N \in Nat
    BY DepartureAssumption, FS_Subset, FS_CardinalityType
  <1>2. N # 0
    BY <1>1, FS_EmptySet
  <1>3. IsFiniteSet(1 .. N - 1) /\ Cardinality(1 .. N - 1) = N - 1
    <2> HIDE DEF N
    <2> QED BY <1>1, <1>2, FS_Interval
  <1>4. count \in [S -> 1 .. N - 1]
    <2> SUFFICES ASSUME NEW d \in S
                 PROVE  Cardinality(Before(S, d)) \in 1 .. N - 1
      OBVIOUS
    <2>1. Cardinality(Before(S, d)) \in Nat /\ Cardinality(Before(S, d)) < N
      BY Predecessors
    <2>2. ~ (Cardinality(Before(S, d)) < n)
      BY DEF FirstN, Before
    <2> QED BY <1>1, <2>1, <2>2
  <1>5. ~ \E d, e \in S : d # e /\ count[d] = count[e]
    BY CountsDiffer
  <1>6. Cardinality(1 .. N - 1) < Cardinality(S)
    BY <1>1, <1>3
  <1> HIDE DEF count, N
  <1> QED BY <1>1, <1>3, <1>4, <1>5, <1>6, FS_PigeonHole

-----------------------------------------------------------------------------
(* One poll of watch w over index i at instant t.                          *)

(* Where the sets of a poll lie: everything is a subset of what the scan   *)
(* covers, and so is what is worth showing.                                *)
LEMMA PollSets ==
  ASSUME NEW i \in Index, NEW w \in Watches, NEW t \in Int
  PROVE  /\ Candidates(i, w, t) \in SUBSET Departure
         /\ Page(i, w, t) \in SUBSET Candidates(i, w, t)
         /\ Due(i, w, t) \in SUBSET Page(i, w, t)
         /\ Selected(i, w, t) \in SUBSET Due(i, w, t)
         /\ WorthShowing(i, w, t) =
              {d \in Candidates(i, w, t) : d.at >= Earliest(w, t)}
  <1>1. Candidates(i, w, t) \in SUBSET Departure
    BY DEF Candidates, Index
  <1>2. OverFetch[w.limit] \in Nat /\ w.limit \in Nat
    BY WatchAssumption
  <1>3. Page(i, w, t) \in SUBSET Candidates(i, w, t)
    BY DEF Page, FirstN
  <1>4. Due(i, w, t) \in SUBSET Page(i, w, t)
    BY DEF Due
  <1>5. Selected(i, w, t) \in SUBSET Due(i, w, t)
    BY DEF Selected, FirstN
  <1>6. WorthShowing(i, w, t) = {d \in Candidates(i, w, t) : d.at >= Earliest(w, t)}
    <2>1. i.departures \subseteq Departure
      BY DEF Index
    <2>2. w.offset \in Nat /\ w.lookback \in Nat
      BY WatchAssumption
    <2>3. \A d \in i.departures : d.at >= t + w.offset => From(w, t) <= d.at
      BY <2>1, <2>2, DepartureAssumption DEF From, Earliest
    <2> QED BY <2>3 DEF WorthShowing, Candidates, Earliest
  <1> QED BY <1>1, <1>3, <1>4, <1>5, <1>6

(* The list is an initial segment of what is worth showing.                *)
LEMMA SelectedIsInitial ==
  ASSUME NEW i \in Index, NEW w \in Watches, NEW t \in Int
  PROVE  /\ Selected(i, w, t) \subseteq WorthShowing(i, w, t)
         /\ \A d \in Selected(i, w, t), e \in WorthShowing(i, w, t) :
              e.seq < d.seq => e \in Selected(i, w, t)
  <1>1. OverFetch[w.limit] \in Nat /\ w.limit \in Nat
    BY WatchAssumption
  <1>2. Selected(i, w, t) \subseteq WorthShowing(i, w, t)
    BY PollSets DEF Due
  <1>3. ASSUME NEW d \in Selected(i, w, t), NEW e \in WorthShowing(i, w, t), e.seq < d.seq
        PROVE  e \in Selected(i, w, t)
    <2>1. d \in Due(i, w, t) /\ d \in Page(i, w, t) /\ e \in Candidates(i, w, t)
      BY PollSets
    <2>2. e \in Page(i, w, t)
      BY <1>1, <1>3, <2>1, PollSets, CutIsInitial DEF Page
    <2>3. e \in Due(i, w, t)
      BY <2>2, PollSets DEF Due
    <2>4. Due(i, w, t) \in SUBSET Departure
      BY PollSets
    <2> QED BY <1>1, <1>3, <2>3, <2>4, CutIsInitial DEF Selected
  <1> QED BY <1>2, <1>3

(* Neither cut drops anything: the list is what is worth showing.          *)
LEMMA UncutSelectsAll ==
  ASSUME NEW i \in Index, NEW w \in Watches, NEW t \in Int, ~Truncated(i, w, t)
  PROVE  Selected(i, w, t) = WorthShowing(i, w, t)
  <1>1. OverFetch[w.limit] \in Nat /\ w.limit \in Nat
    BY WatchAssumption
  <1>2. Candidates(i, w, t) \in SUBSET Departure /\ Due(i, w, t) \in SUBSET Departure
    BY PollSets
  <1>3. /\ Cardinality(Candidates(i, w, t)) \in Nat
        /\ Cardinality(Due(i, w, t)) \in Nat
    BY <1>2, DepartureAssumption, FS_Subset, FS_CardinalityType
  <1>4. /\ Cardinality(Candidates(i, w, t)) <= OverFetch[w.limit]
        /\ Cardinality(Due(i, w, t)) <= w.limit
    BY <1>1, <1>3 DEF Truncated, PageTruncated
  <1>5. Page(i, w, t) = Candidates(i, w, t)
    BY <1>1, <1>2, <1>4, CutKeepsFew DEF Page
  <1>6. Due(i, w, t) = WorthShowing(i, w, t)
    BY <1>5, PollSets DEF Due
  <1>7. Selected(i, w, t) = Due(i, w, t)
    BY <1>1, <1>2, <1>4, CutKeepsFew DEF Selected
  <1> QED BY <1>6, <1>7

(* A cut that is flagged, under a list that is not empty, dropped          *)
(* something worth showing.                                                *)
LEMMA CutDropsSome ==
  ASSUME NEW i \in Index, NEW w \in Watches, NEW t \in Int,
         Truncated(i, w, t), Selected(i, w, t) # {}
  PROVE  \E d \in WorthShowing(i, w, t) : d \notin Selected(i, w, t)
  <1>1. OverFetch[w.limit] \in Nat /\ w.limit \in Nat
    BY WatchAssumption
  <1>2. Candidates(i, w, t) \in SUBSET Departure /\ Due(i, w, t) \in SUBSET Departure
    BY PollSets
  <1>3. /\ Cardinality(Candidates(i, w, t)) \in Nat
        /\ Cardinality(Due(i, w, t)) \in Nat
    BY <1>2, DepartureAssumption, FS_Subset, FS_CardinalityType
  <1>4. CASE Cardinality(Due(i, w, t)) > w.limit
    <2>1. Selected(i, w, t) # Due(i, w, t)
      BY <1>1, <1>2, <1>3, <1>4, CutDropsMany DEF Selected
    <2>2. PICK d \in Due(i, w, t) : d \notin Selected(i, w, t)
      BY <2>1, PollSets
    <2>3. d \in WorthShowing(i, w, t)
      BY PollSets DEF Due
    <2> QED BY <2>2, <2>3
  <1>5. CASE PageTruncated(i, w, t)
    <2>1. Page(i, w, t) # Candidates(i, w, t)
      BY <1>1, <1>2, <1>3, <1>5, CutDropsMany DEF Page, PageTruncated
    <2>2. PICK d \in Candidates(i, w, t) : d \notin Page(i, w, t)
      BY <2>1, PollSets
    <2>3. PICK e \in Selected(i, w, t) : TRUE
      OBVIOUS
    <2>4. e \in Page(i, w, t) /\ e.at >= Earliest(w, t)
      BY PollSets DEF Due
    <2>5. d \in Departure /\ e \in Departure
      BY <1>2, <2>4, PollSets
    <2>6. ~(d.seq < e.seq)
      BY <1>1, <1>2, <2>2, <2>4, CutIsInitial DEF Page
    <2>7. e.at <= d.at
      BY <2>5, <2>6, DepartureAssumption
    <2>8. Earliest(w, t) \in Int /\ d.at \in Int /\ e.at \in Int
      BY <2>5, DepartureAssumption, WatchAssumption DEF Earliest
    <2>9. d.at >= Earliest(w, t)
      BY <2>4, <2>7, <2>8
    <2>10. d \in WorthShowing(i, w, t) /\ d \notin Selected(i, w, t)
      BY <2>2, <2>9, PollSets
    <2> QED BY <2>10
  <1> QED BY <1>4, <1>5 DEF Truncated

(* An exhausted scan without a row to show had nothing to show.            *)
LEMMA ExhaustedFindsNothing ==
  ASSUME NEW i \in Index, NEW w \in Watches, NEW t \in Int,
         PageExhausted(i, w, t), Selected(i, w, t) = {}
  PROVE  WorthShowing(i, w, t) = {}
  <1>1. OverFetch[w.limit] \in Nat /\ w.limit \in Nat \ {0}
    BY WatchAssumption
  <1>2. Candidates(i, w, t) \in SUBSET Departure /\ Due(i, w, t) \in SUBSET Departure
    BY PollSets
  <1>3. Cardinality(Candidates(i, w, t)) \in Nat
    BY <1>2, DepartureAssumption, FS_Subset, FS_CardinalityType
  <1>4. Cardinality(Candidates(i, w, t)) <= OverFetch[w.limit]
    BY <1>1, <1>3 DEF PageExhausted
  <1>5. Page(i, w, t) = Candidates(i, w, t)
    BY <1>1, <1>2, <1>4, CutKeepsFew DEF Page
  <1>6. Due(i, w, t) = {}
    BY <1>1, <1>2, CutLeavesOne DEF Selected
  <1> QED BY <1>5, <1>6, PollSets DEF Due

(* What a poll selected and can still be caught, a later poll of the same  *)
(* index selects as well: both its cuts have fewer rows in front of it.    *)
LEMMA SelectedStays ==
  ASSUME NEW i \in Index, NEW w \in Watches, NEW t \in Int, NEW u \in Int, t <= u,
         NEW d \in Selected(i, w, t), d.at >= Earliest(w, u)
  PROVE  d \in Selected(i, w, u)
  <1>1. /\ OverFetch[w.limit] \in Nat /\ w.limit \in Nat
        /\ w.offset \in Nat /\ w.lookback \in Nat
    BY WatchAssumption
  <1>2. /\ d \in Due(i, w, t) /\ d \in Page(i, w, t) /\ d \in Candidates(i, w, t)
        /\ d \in Departure
    BY PollSets
  <1>3. /\ Earliest(w, t) \in Int /\ Earliest(w, u) \in Int /\ Earliest(w, t) <= Earliest(w, u)
        /\ From(w, t) \in Int /\ From(w, u) \in Int /\ From(w, t) <= From(w, u)
        /\ From(w, u) <= Earliest(w, u)
    BY <1>1 DEF From, Earliest
  <1>4. Candidates(i, w, u) \in SUBSET Departure /\ Candidates(i, w, t) \in SUBSET Departure
    BY PollSets
  <1>5. \A e \in Departure : e.at \in Int /\ e.seq \in Int /\ (e.seq <= d.seq => e.at <= d.at)
    BY <1>2, DepartureAssumption
  <1>6. /\ Until(i, w, t) \in Int /\ Until(i, w, u) \in Int
        /\ Until(i, w, t) <= Until(i, w, u)
    <2>1. i.end \in Ends \cup {None}
      BY DEF Index
    <2>2. i.end # None => i.end \in Int
      <3>1. \A x \in Ends : x \in Int
        BY ClockAssumption
      <3> QED BY <2>1, <3>1, Zenon
    <2> QED BY <1>3, <2>2, ClockAssumption DEF Until
  <1>7. d \in Candidates(i, w, u)
    BY <1>2, <1>3, <1>5, <1>6 DEF Candidates
  <1>8. ASSUME NEW e \in Candidates(i, w, u), e.seq < d.seq
        PROVE  e \in Candidates(i, w, t)
    <2>1. e \in Departure /\ e.at <= d.at
      <3>1. e \in Departure /\ e.seq \in Int /\ d.seq \in Int
        BY <1>2, <1>4, <1>5
      <3>2. e.seq <= d.seq
        BY <1>8, <3>1
      <3> QED BY <1>5, <3>1, <3>2
    <2>2. d.at < Until(i, w, t)
      BY <1>2 DEF Candidates
    <2>3. From(w, t) <= e.at /\ e.at < Until(i, w, t)
      <3>1. From(w, u) <= e.at
        BY DEF Candidates
      <3> QED BY <2>1, <2>2, <3>1, <1>2, <1>3, <1>5, <1>6
    <2> QED BY <2>3 DEF Candidates
  <1>9. d \in Page(i, w, u)
    <2>1. Before(Candidates(i, w, u), d) \in SUBSET Before(Candidates(i, w, t), d)
      BY <1>8 DEF Before
    <2>2. /\ Cardinality(Before(Candidates(i, w, u), d)) \in Nat
          /\ Cardinality(Before(Candidates(i, w, t), d)) \in Nat
      BY <1>2, <1>4, <1>7, Predecessors
    <2>3. Cardinality(Before(Candidates(i, w, u), d)) <= Cardinality(Before(Candidates(i, w, t), d))
      <3>1. IsFiniteSet(Before(Candidates(i, w, t), d))
        BY <1>4, DepartureAssumption, FS_Subset DEF Before
      <3> QED BY <2>1, <3>1, FS_Subset
    <2>4. Cardinality(Before(Candidates(i, w, t), d)) < OverFetch[w.limit]
      BY <1>2 DEF Page, FirstN, Before
    <2>5. Cardinality(Before(Candidates(i, w, u), d)) < OverFetch[w.limit]
      BY <1>1, <2>2, <2>3, <2>4
    <2> QED BY <1>7, <2>5 DEF Page, FirstN, Before
  <1>10. d \in Due(i, w, u)
    BY <1>9 DEF Due
  <1>11. ASSUME NEW e \in Due(i, w, u), e.seq < d.seq
         PROVE  e \in Due(i, w, t)
    <2>1. e \in Candidates(i, w, u) /\ e.at >= Earliest(w, u)
      BY PollSets DEF Due
    <2>2. e \in Candidates(i, w, t)
      BY <1>8, <1>11, <2>1
    <2>3. e \in Page(i, w, t)
      BY <1>1, <1>2, <1>4, <1>11, <2>2, CutIsInitial DEF Page
    <2>4. e.at >= Earliest(w, t)
      <3>1. e.at \in Int
        BY <1>4, <1>5, <2>1
      <3> QED BY <2>1, <3>1, <1>3
    <2> QED BY <2>3, <2>4 DEF Due
  <1>12. Due(i, w, u) \in SUBSET Departure /\ Due(i, w, t) \in SUBSET Departure
    BY PollSets
  <1>13. Before(Due(i, w, u), d) \in SUBSET Before(Due(i, w, t), d)
    BY <1>11 DEF Before
  <1>14. /\ Cardinality(Before(Due(i, w, u), d)) \in Nat
         /\ Cardinality(Before(Due(i, w, t), d)) \in Nat
    BY <1>2, <1>10, <1>12, Predecessors
  <1>15. Cardinality(Before(Due(i, w, u), d)) <= Cardinality(Before(Due(i, w, t), d))
    <2>1. IsFiniteSet(Before(Due(i, w, t), d))
      BY <1>12, DepartureAssumption, FS_Subset DEF Before
    <2> QED BY <1>13, <2>1, FS_Subset
  <1>16. Cardinality(Before(Due(i, w, t), d)) < w.limit
    BY DEF Selected, FirstN, Before
  <1>17. Cardinality(Before(Due(i, w, u), d)) < w.limit
    BY <1>1, <1>14, <1>15, <1>16
  <1> QED BY <1>10, <1>17 DEF Selected, FirstN, Before

-----------------------------------------------------------------------------
(* The specification.                                                      *)

(* What a poll can make of an index is a WatchData.                        *)
LEMMA PollTypes ==
  ASSUME NEW i \in Index, NEW w \in Watches, NEW t
  PROVE  LET wd == WatchData(i, w, t) IN
           /\ wd.rows \in SUBSET Departure /\ wd.status \in Status /\ wd.now = t
           /\ wd.truncated \in BOOLEAN /\ wd.end \in Ends \cup {None} /\ wd.missing \in SUBSET Stop
  <1>1. /\ Selected(i, w, t) \in SUBSET Departure
        /\ StatusOf(i, w, t) \in Status
        /\ Truncated(i, w, t) \in BOOLEAN
        /\ i.end \in Ends \cup {None}
        /\ Missing(i, w) \in SUBSET Stop
    BY WatchAssumption
    DEF Selected, FirstN, Due, Page, Candidates, Index, StatusOf, Status, Truncated, PageTruncated, Missing
  <1> QED BY <1>1 DEF WatchData, Empty, Status, Pageless

(* Every variable keeps its type: the clock stays within its bound and     *)
(* what is published is a WatchData.                                       *)
THEOREM TypeCorrect == Spec => []TypeOK
  <1> USE DEF TypeOK
  <1>1. Init => TypeOK
    BY ClockAssumption DEF Init, Empty, Status
  <1>2. ASSUME TypeOK, [Next]_vars
        PROVE  TypeOK'
    <2>1. CASE Tick
      BY <1>2, <2>1, ClockAssumption DEF Tick
    <2>2. CASE Starts \/ ImportBegins \/ ImportSucceeds \/ ImportFails
      BY <1>2, <2>2 DEF Starts, ImportBegins, ImportSucceeds, ImportFails
    <2>3. CASE PollUnready
      BY <1>2, <2>3 DEF PollUnready, Empty, Status, Pageless
    <2>4. CASE PollUnanswered
      BY <1>2, <2>4 DEF PollUnanswered, Empty, Status, Pageless
    <2>5. CASE PollAnswered
      <3>1. /\ watch' = watch /\ now' = now /\ state' = state /\ index' = index /\ polled' = index
            /\ data' = WatchData(index, watch, now) /\ answer' = data'
        BY <2>5 DEF PollAnswered
      <3>2. now \in 0 .. now
        BY <1>2
      <3>3. /\ data'.rows \in SUBSET Departure /\ data'.status \in Status
            /\ data'.now = now /\ data'.truncated \in BOOLEAN
            /\ data'.end \in Ends \cup {None} /\ data'.missing \in SUBSET Stop
        BY <1>2, <3>1, PollTypes
      <3> QED BY <1>2, <3>1, <3>2, <3>3
    <2>6. CASE UNCHANGED vars
      BY <1>2, <2>6 DEF vars
    <2> QED BY <1>2, <2>1, <2>2, <2>3, <2>4, <2>5, <2>6 DEF Next, Poll
  <1> QED BY <1>1, <1>2, PTL DEF Spec

(* The last answer is what a poll at answer.now makes of the index it      *)
(* read, and a list is on show only as long as it is that answer.          *)
ShowsWhatItRead ==
  /\ watch \in Watches
  /\ index \in Index
  /\ now \in Nat /\ answer.now \in Nat /\ answer.now <= now
  /\ polled # None => polled \in Index /\ answer = WatchData(polled, watch, answer.now)
  /\ Answered => data = answer

(* ShowsWhatItRead is inductive.                                           *)
LEMMA ShowsStep ==
  /\ Init => ShowsWhatItRead
  /\ ShowsWhatItRead /\ [Next]_vars => ShowsWhatItRead'
  <1>1. Init => ShowsWhatItRead
    BY DEF Init, ShowsWhatItRead, Answered, Empty
  <1> SUFFICES ASSUME ShowsWhatItRead, [Next]_vars
               PROVE  ShowsWhatItRead'
    BY <1>1
  <1> USE DEF ShowsWhatItRead, Answered
  <1>2. CASE Tick
    BY <1>2 DEF Tick, WatchData, Resolved
  <1>3. CASE Starts \/ ImportBegins \/ ImportSucceeds \/ ImportFails
    BY <1>3 DEF Starts, ImportBegins, ImportSucceeds, ImportFails
  <1>4. CASE PollUnready \/ PollUnanswered
    <2>1. data'.status \in Pageless
      BY <1>4 DEF PollUnready, PollUnanswered, Empty, Pageless
    <2>2. UNCHANGED <<watch, now, index, polled, answer>>
      BY <1>4 DEF PollUnready, PollUnanswered
    <2> QED BY <2>1, <2>2
  <1>5. CASE PollAnswered
    <2>1. data' = WatchData(index, watch, now) /\ polled' = index /\ answer' = data'
      BY <1>5 DEF PollAnswered
    <2>2. data'.now = now
      BY <2>1 DEF WatchData, Empty
    <2>3. watch' = watch /\ now' = now /\ index' = index
      BY <1>5 DEF PollAnswered
    <2> QED BY <2>1, <2>2, <2>3
  <1>6. CASE UNCHANGED vars
    BY <1>6 DEF vars
  <1> QED BY <1>2, <1>3, <1>4, <1>5, <1>6 DEF Next, Poll

(* It holds at every poll and between them.                                *)
LEMMA ShowsInvariance == Spec => []ShowsWhatItRead
  BY ShowsStep, PTL DEF Spec

(* What an answer that was cut from a page consists of.                    *)
LEMMA PageFields ==
  ASSUME NEW i, NEW w, NEW t, WatchData(i, w, t).status \notin Pageless
  PROVE  /\ WatchData(i, w, t).rows = Selected(i, w, t)
         /\ WatchData(i, w, t).status = StatusOf(i, w, t)
         /\ WatchData(i, w, t).now = t
         /\ WatchData(i, w, t).truncated <=> Truncated(i, w, t)
  <1>1. Resolved(i, w.origins) # {}
    BY DEF WatchData, Empty, Pageless
  <1> DEFINE cut == Truncated(i, w, t)
  <1>2. WatchData(i, w, t) =
          [rows |-> Selected(i, w, t), status |-> StatusOf(i, w, t), now |-> t,
           truncated |-> cut, end |-> i.end, missing |-> Missing(i, w)]
    BY <1>1 DEF WatchData
  <1> HIDE DEF cut
  <1>3. WatchData(i, w, t).truncated = cut
    BY <1>2
  <1> QED BY <1>2, <1>3 DEF cut

(* The published fields of an answered poll.                               *)
LEMMA AnsweredFields ==
  ASSUME ShowsWhatItRead, Answered
  PROVE  /\ polled \in Index /\ watch \in Watches /\ data.now \in Int
         /\ data = answer
         /\ data.rows = Selected(polled, watch, data.now)
         /\ data.status = StatusOf(polled, watch, data.now)
         /\ data.truncated <=> Truncated(polled, watch, data.now)
  <1>1. /\ polled \in Index /\ watch \in Watches /\ data.now \in Int
        /\ data = answer /\ data = WatchData(polled, watch, data.now)
    BY DEF ShowsWhatItRead, Answered
  <1>2. WatchData(polled, watch, data.now).status \notin Pageless
    BY <1>1 DEF Answered
  <1> QED BY <1>1, <1>2, PageFields

(* The list is never with a hole in it and never with a departure that has *)
(* gone: coordinator.py 193-210.                                           *)
THEOREM NothingSkipped == Spec => []NoGap
  <1>1. ShowsWhatItRead => NoGap
    BY AnsweredFields, SelectedIsInitial DEF NoGap
  <1> QED BY <1>1, ShowsInvariance, PTL

(* A list not flagged as truncated is complete: coordinator.py 223.        *)
THEOREM UnflaggedIsComplete == Spec => []UncutIsComplete
  <1>1. ShowsWhatItRead => UncutIsComplete
    BY AnsweredFields, UncutSelectsAll DEF UncutIsComplete
  <1> QED BY <1>1, ShowsInvariance, PTL

(* A flagged list has more behind it: coordinator.py 223.                  *)
THEOREM FlaggedHasMore == Spec => []CutHasMore
  <1>1. ShowsWhatItRead => CutHasMore
    BY AnsweredFields, CutDropsSome DEF CutHasMore
  <1> QED BY <1>1, ShowsInvariance, PTL

(* The window is called exhausted only when it has nothing left to show:   *)
(* coordinator.py 214.                                                     *)
THEOREM ExhaustedHasNothing == Spec => []ExhaustedIsQuiet
  <1>1. ASSUME ShowsWhatItRead, Answered, data.status = "window_exhausted"
        PROVE  WorthShowing(polled, watch, data.now) = {}
    <2>1. /\ polled \in Index /\ watch \in Watches /\ data.now \in Int
          /\ StatusOf(polled, watch, data.now) = "window_exhausted"
      BY <1>1, AnsweredFields
    <2>2. PageExhausted(polled, watch, data.now) /\ Selected(polled, watch, data.now) = {}
      BY <2>1 DEF StatusOf
    <2> QED BY <2>1, <2>2, ExhaustedFindsNothing
  <1> QED BY <1>1, ShowsInvariance, PTL DEF ExhaustedIsQuiet

(* From one answer to the next out of the same index, whatever emptied the *)
(* list in between, a departure leaves it only when it is too early to     *)
(* catch: coordinator.py 131-134, 160-226.                                 *)
THEOREM RowsStayUntilGone == Spec => KeepsUntilGone
  <1> DEFINE Stays == polled # None /\ polled' = polled /\ Answered' =>
                        \A d \in answer.rows \ data'.rows : d.at < data'.now + watch.offset
  <1>1. ASSUME ShowsWhatItRead, ShowsWhatItRead', [Next]_vars
        PROVE  Stays
    <2> SUFFICES ASSUME polled # None, polled' = polled, Answered',
                        NEW d \in answer.rows, d \notin data'.rows
                 PROVE  d.at < data'.now + watch.offset
      OBVIOUS
    <2>1. CASE answer' = answer
      BY <1>1, <2>1 DEF ShowsWhatItRead
    <2>2. CASE PollAnswered
      <3>1. data' = WatchData(polled, watch, now)
        BY <2>2 DEF PollAnswered
      <3>2. /\ polled \in Index /\ watch \in Watches
            /\ answer.now \in Int /\ now \in Int /\ answer.now <= now
            /\ answer = WatchData(polled, watch, answer.now)
        BY <1>1 DEF ShowsWhatItRead
      <3>3. WatchData(polled, watch, now).status \notin Pageless
        BY <3>1 DEF Answered
      <3>4. data'.now = now /\ data'.rows = Selected(polled, watch, now)
        BY <3>1, <3>3, PageFields
      <3>5. Resolved(polled, watch.origins) # {}
        BY <3>3 DEF WatchData, Empty, Pageless
      <3>6. d \in Selected(polled, watch, answer.now)
        BY <3>2, <3>5 DEF WatchData
      <3>7. ~(d.at >= Earliest(watch, now))
        BY <3>2, <3>4, <3>6, SelectedStays
      <3>8. d \in Departure
        BY <3>2, <3>6, PollSets
      <3>9. d.at \in Int /\ watch.offset \in Int
        BY <3>2, <3>8, DepartureAssumption, WatchAssumption
      <3> QED BY <3>2, <3>4, <3>7, <3>9 DEF Earliest
    <2>3. answer' = answer \/ PollAnswered
      BY <1>1 DEF Next, Poll, Tick, Starts, ImportBegins, ImportSucceeds, ImportFails,
                  PollUnready, PollUnanswered, vars
    <2> QED BY <2>1, <2>2, <2>3
  <1> QED BY <1>1, ShowsInvariance, PTL DEF Spec, KeepsUntilGone
=============================================================================
