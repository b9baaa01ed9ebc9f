---------------------------- MODULE RefreshProofs ----------------------------
(***************************************************************************)
(* Theorems about Refresh, for every set of feeds, every horizon, and any  *)
(* number of days and restarts.                                            *)
(***************************************************************************)
EXTENDS Refresh, TLAPS

(* Every step keeps the types; Inductive bounds the days a build may end.  *)
LEMMA TypeStep == TypeOK /\ Inductive /\ [Next]_vars => TypeOK'
  <2> SUFFICES ASSUME TypeOK, Inductive, [Next]_vars PROVE TypeOK'
    OBVIOUS
  <2> USE BoundsAssumption DEF TypeOK, Stages, disk, mem, world, Begin, Verdict
  <2>1. CASE Setup
    BY <2>1 DEF Setup, SetupOpens, SetupFindsNothing
  <2>2. CASE RollDue
    BY <2>2 DEF RollDue
  <2>3. CASE RefreshDue
    BY <2>3 DEF RefreshDue
  <2>4. CASE NotModified \/ Download \/ Ingest
    BY <2>4 DEF NotModified, Download, Ingest
  <2>5. CASE GuardReads \/ GuardCannotRead
    BY <2>5 DEF GuardReads, GuardCannotRead
  <2>6. CASE Promote \/ Clean \/ CleanRaises \/ Check
    BY <2>6 DEF Promote, Clean, CleanRaises, Check
  <2>7. CASE Materialise
    BY <2>7 DEF Materialise, Build, Inductive
  <2>8. CASE Built
    BY <2>8 DEF Built, Build, Inductive
  <2>9. CASE Replace \/ Raises
    BY <2>9 DEF Replace, Raises
  <2>10. CASE Opens \/ OpenFails \/ OpenRaises \/ Fails
    BY <2>10 DEF Opens, OpenFails, OpenRaises, Fails
  <2>11. CASE Crash
    BY <2>11 DEF Crash
  <2>12. CASE NextDay
    BY <2>12 DEF NextDay
  <2>13. CASE PublisherPosts
    BY <2>13 DEF PublisherPosts
  <2>14. CASE UNCHANGED vars
    BY <2>14 DEF vars
  <2> QED
    BY <2>1, <2>2, <2>3, <2>4, <2>5, <2>6, <2>7, <2>8, <2>9, <2>10, <2>11,
       <2>12, <2>13, <2>14 DEF Next, Worker

(* Every stage of a refresh leaves what the next one counts on.            *)
LEMMA InductiveStep == TypeOK /\ Inductive /\ [Next]_vars => Inductive'
  <2> SUFFICES ASSUME TypeOK, Inductive, [Next]_vars PROVE Inductive'
    OBVIOUS
  <2> USE BoundsAssumption, NoneAssumption DEF TypeOK, Inductive, Build, disk, mem, world, Begin, Verdict
  <2>1. CASE Setup
    BY <2>1 DEF Setup, SetupOpens, SetupFindsNothing
  <2>2. CASE RollDue
    BY <2>2 DEF RollDue
  <2>3. CASE RefreshDue
    BY <2>3 DEF RefreshDue
  <2>4. CASE NotModified \/ Download \/ Ingest
    BY <2>4 DEF NotModified, Download, Ingest
  <2>5. CASE GuardReads \/ GuardCannotRead
    BY <2>5 DEF GuardReads, GuardCannotRead, ShouldReplace, PromoteUnread
  <2>6. CASE Promote \/ Clean \/ CleanRaises \/ Check
    BY <2>6 DEF Promote, Clean, CleanRaises, Check
  <2>7. CASE Materialise
    BY <2>7 DEF Materialise
  <2>8. CASE Built
    BY <2>8 DEF Built
  <2>9. CASE Replace \/ Raises
    BY <2>9 DEF Replace, Raises
  <2>10. CASE Opens \/ OpenFails \/ OpenRaises \/ Fails
    BY <2>10 DEF Opens, OpenFails, OpenRaises, Fails
  <2>11. CASE Crash
    BY <2>11 DEF Crash
  <2>12. CASE NextDay
    BY <2>12, StartsAssumption DEF NextDay
  <2>13. CASE PublisherPosts
    BY <2>13 DEF PublisherPosts
  <2>14. CASE UNCHANGED vars
    BY <2>14 DEF vars
  <2> QED
    BY <2>1, <2>2, <2>3, <2>4, <2>5, <2>6, <2>7, <2>8, <2>9, <2>10, <2>11,
       <2>12, <2>13, <2>14 DEF Next, Worker

-----------------------------------------------------------------------------
(* Both parts hold initially and are kept by every step.                   *)
LEMMA Invariance == Spec => [](TypeOK /\ Inductive)
<1>1. Init => TypeOK /\ Inductive
  <2>1. Init => TypeOK
    <3>1. Init => littered \in BOOLEAN
      BY Zenon DEF Init
    <3> QED BY <3>1, BoundsAssumption DEF Init, TypeOK, Stages
  <2>2. Init => Inductive
    BY NoneAssumption DEF Init, Inductive
  <2> QED BY <2>1, <2>2
<1>2. (TypeOK /\ Inductive) /\ [Next]_vars => (TypeOK /\ Inductive)'
  BY TypeStep, InductiveStep
<1> QED
  BY <1>1, <1>2, PTL DEF Spec

(* A datasource's variables keep their types.                              *)
THEOREM TypeCorrect == Spec => []TypeOK
  BY Invariance, PTL

(* Every stage of a refresh finds what it counts on from the ones before:  *)
(* the order of _fetch_and_load, _should_promote and _materialise.         *)
THEOREM StagesHold == Spec => []Inductive
  BY Invariance, PTL

(* Only a process that died in the middle of a refresh, or an unlink that  *)
(* raised, leaves an archive or a candidate behind, until the next         *)
(* clean-up: the finally clause of _fetch_and_load.                        *)
THEOREM CleansUp == Spec => []NothingLeftBehind
<1>1. TypeOK /\ Inductive => NothingLeftBehind
  BY DEF Inductive, NothingLeftBehind
<1> QED
  BY <1>1, Invariance, PTL

(* The feed that goes live is the archive this refresh downloaded.         *)
THEOREM PromotesOnlyItsOwn == Spec => PromotesThisDownload
<1>1. TypeOK /\ Inductive /\ [Next]_vars => [feed' # feed => feed' = archive]_vars
  BY DEF Inductive, Next, Worker, Setup, RollDue, RefreshDue, NotModified, Download, Ingest,
         GuardReads, GuardCannotRead, Verdict, Promote, Clean, CleanRaises, Check,
         Materialise, Built, Replace, Raises, Opens, OpenFails, OpenRaises, Fails, Crash, NextDay, PublisherPosts,
         disk, vars
<1> QED
  BY <1>1, Invariance, PTL DEF Spec, PromotesThisDownload

(* A datasource that says "ready" reads the published index, and reports   *)
(* the window of that index.                                               *)
THEOREM ReadyIsPublished == Spec => []ReadyReadsPublished
<1>1. Init => ReadyReadsPublished
  BY DEF Init, ReadyReadsPublished
<1>2. ReadyReadsPublished /\ (TypeOK /\ Inductive) /\ [Next]_vars => ReadyReadsPublished'
  <2> SUFFICES ASSUME ReadyReadsPublished, TypeOK, Inductive, [Next]_vars
               PROVE  ReadyReadsPublished'
    OBVIOUS
  <2> USE DEF ReadyReadsPublished, Inductive, Begin, disk, mem, world
  <2>1. CASE Setup \/ RollDue \/ RefreshDue
    BY <2>1 DEF Setup, SetupOpens, SetupFindsNothing, RollDue, RefreshDue
  <2>2. CASE Worker
    BY <2>2 DEF Worker, NotModified, Download, Ingest, GuardReads, GuardCannotRead, Verdict,
                Promote, Clean, CleanRaises, Check, Materialise, Built, Replace, Raises,
                Opens, OpenFails, OpenRaises, Fails
  <2>3. CASE Crash \/ NextDay \/ PublisherPosts \/ UNCHANGED vars
    BY <2>3 DEF Crash, NextDay, PublisherPosts, vars
  <2> QED
    BY <2>1, <2>2, <2>3 DEF Next
<1> QED
  BY <1>1, <1>2, Invariance, PTL DEF Spec

-----------------------------------------------------------------------------
(* Refinement                                                              *)

(* The initial state and every step map to Timetable: promotion to Accept, *)
(* the rename of a finished build to Publish, opening and closing to       *)
(* Serve, the calendar to NextDay, and everything else to a stutter.       *)
THEOREM RefreshImplementsTimetable == Spec => ImplementsTimetable
<1>1. Init => Abstract!Init
  BY DEF Init, Abstract!Init, Served
<1>2. (TypeOK /\ Inductive) /\ [Next]_vars => [Abstract!Next]_(Abstract!tvars)
  <2> SUFFICES ASSUME TypeOK, Inductive, [Next]_vars
               PROVE  Abstract!Next \/ UNCHANGED Abstract!tvars
    OBVIOUS
  <2> USE DEF Abstract!tvars, Served, disk, mem, world
  <2>1. CASE Setup
    BY <2>1 DEF Setup, SetupOpens, SetupFindsNothing, Begin, Abstract!Next, Abstract!Serve
  <2>2. CASE RollDue \/ RefreshDue \/ NotModified \/ Download \/ Ingest
    BY <2>2 DEF RollDue, RefreshDue, Begin, NotModified, Download, Ingest, Abstract!Next, Abstract!Serve
  <2>3. CASE GuardReads \/ GuardCannotRead \/ Clean \/ CleanRaises \/ Check \/ Materialise \/ Built
    BY <2>3 DEF GuardReads, GuardCannotRead, Verdict, Clean, CleanRaises, Check, Materialise, Built
  <2>4. CASE Promote
    <3>1. candidate \in Version /\ (feed = None \/ Starts[candidate] <= today)
      BY <2>4, NoneAssumption DEF Promote, TypeOK, Inductive
    <3>2. Abstract!Accept(candidate)
      BY <2>4, <3>1 DEF Promote, Abstract!Accept
    <3> QED
      BY <3>1, <3>2 DEF Abstract!Next
  <2>5. CASE Replace
    <3>1. /\ building.end \in Horizon .. MaxDay + Horizon
          /\ building.end <= today + Horizon
          /\ index # None => building.end >= index.end
      BY <2>5, BoundsAssumption DEF Replace, TypeOK, Inductive
    <3>2. building \in Build /\ building.src = feed /\ building.form = "whole"
      BY <2>5 DEF Replace, TypeOK, Inductive
    <3>3. building = [src |-> feed, end |-> building.end, form |-> "whole"]
      BY <3>2 DEF Build
    <3>4. /\ index' = building /\ feed # None
          /\ UNCHANGED <<today, feed>> /\ Served = None /\ Served' = None
      BY <2>5 DEF Replace, Inductive
    <3>5. Abstract!Publish(building.end)
      BY <3>1, <3>3, <3>4 DEF Abstract!Publish
    <3> QED
      BY <3>1, <3>5 DEF Abstract!Next
  <2>6. CASE Raises \/ Fails \/ PublisherPosts \/ UNCHANGED vars
    BY <2>6 DEF Raises, Fails, PublisherPosts, vars, Abstract!Next, Abstract!Serve
  <2>7. CASE Opens \/ OpenFails \/ OpenRaises \/ Crash
    BY <2>7 DEF Opens, OpenFails, OpenRaises, Crash, Abstract!Next, Abstract!Serve
  <2>8. CASE NextDay
    BY <2>8 DEF NextDay, Abstract!Next, Abstract!NextDay
  <2> QED
    BY <2>1, <2>2, <2>3, <2>4, <2>5, <2>6, <2>7, <2>8 DEF Next, Worker
<1> QED
  BY <1>1, <1>2, Invariance, PTL DEF Spec, ImplementsTimetable, Abstract!Spec

(* What is served is what is published, and that is whole.                 *)
ServesPublished ==
  /\ index # None => index \in Build /\ index.form = "whole"
  /\ Served \in {index, None}

(* A published index stays or makes way for one of the live feed whose     *)
(* window ends no earlier, and a live feed only for one that is in service. *)
NeverGoesBack ==
  [][/\ index # None => index' # None /\ index'.end >= index.end
     /\ index' # index => index'.src = feed
     /\ feed # None => feed' = feed \/ Starts[feed'] <= today]_<<feed, index>>

TimetableFacts == ServesPublished /\ feed \in Version \cup {None}

LEMMA TimetableStep == TimetableFacts /\ [Abstract!Next]_(Abstract!tvars) => TimetableFacts'
<1> SUFFICES ASSUME TimetableFacts, [Abstract!Next]_(Abstract!tvars) PROVE TimetableFacts'
  OBVIOUS
<1> USE DEF TimetableFacts, ServesPublished
<1>1. CASE Abstract!NextDay \/ Abstract!Serve \/ UNCHANGED Abstract!tvars
  BY <1>1 DEF Abstract!NextDay, Abstract!Serve, Abstract!tvars
<1>2. CASE \E v \in Version : Abstract!Accept(v)
  BY <1>2 DEF Abstract!Accept
<1>3. CASE \E end \in Horizon .. MaxDay + Horizon : Abstract!Publish(end)
  <2>1. PICK end \in Horizon .. MaxDay + Horizon : Abstract!Publish(end)
    BY <1>3
  <2>2. feed \in Version /\ feed' = feed /\ Served = None /\ Served' = None
    BY <2>1 DEF Abstract!Publish
  <2>3. index' = [src |-> feed, end |-> end, form |-> "whole"]
    BY <2>1 DEF Abstract!Publish
  <2>4. index' \in Build /\ index'.form = "whole"
    BY <2>1, <2>2, <2>3, BoundsAssumption DEF Build
  <2> QED BY <2>2, <2>4
<1> QED BY <1>1, <1>2, <1>3 DEF Abstract!Next

(* The promise is worth having: whatever keeps the rules of Timetable      *)
(* serves the published index or nothing, and never shortens the timetable *)
(* ahead nor lets a feed of the future displace one that works.            *)
THEOREM TimetableNeverGoesBack == ImplementsTimetable => []ServesPublished /\ NeverGoesBack
<1> DEFINE Onward ==
      /\ index # None => index' # None /\ index'.end >= index.end
      /\ index' # index => index'.src = feed
      /\ feed # None => feed' = feed \/ Starts[feed'] <= today
<1>1. Abstract!Init => TimetableFacts
  BY DEF Abstract!Init, TimetableFacts, ServesPublished
<1>2. TimetableFacts => ServesPublished
  BY DEF TimetableFacts
<1>3. TimetableFacts /\ TimetableFacts' /\ [Abstract!Next]_(Abstract!tvars) => [Onward]_<<feed, index>>
  <2> SUFFICES ASSUME TimetableFacts, TimetableFacts', Abstract!Next PROVE Onward \/ UNCHANGED <<feed, index>>
    BY DEF Abstract!tvars
  <2>1. index # None => index.end \in Int
    BY BoundsAssumption DEF TimetableFacts, ServesPublished, Build
  <2>2. CASE Abstract!NextDay \/ Abstract!Serve
    BY <2>2 DEF Abstract!NextDay, Abstract!Serve
  <2>3. CASE \E v \in Version : Abstract!Accept(v)
    BY <2>1, <2>3 DEF Abstract!Accept
  <2>4. CASE \E end \in Horizon .. MaxDay + Horizon : Abstract!Publish(end)
    <3>1. PICK end \in Horizon .. MaxDay + Horizon : Abstract!Publish(end)
      BY <2>4
    <3>2. feed' = feed /\ index' = [src |-> feed, end |-> end, form |-> "whole"]
      BY <3>1 DEF Abstract!Publish
    <3>3. index'.src = feed /\ index'.end = end
      BY <3>2
    <3>4. index # None => end >= index.end
      BY <3>1 DEF Abstract!Publish
    <3>5. index' # None
      <4>1. feed \in Version
        BY <3>1 DEF Abstract!Publish, TimetableFacts
      <4>2. index' \in Build
        BY <3>1, <3>2, <4>1, BoundsAssumption DEF Build
      <4> QED BY <4>2, NoneAssumption
    <3> QED BY <3>2, <3>3, <3>4, <3>5
  <2> QED BY <2>2, <2>3, <2>4 DEF Abstract!Next
<1> HIDE DEF Onward
<1>4. ImplementsTimetable => []TimetableFacts
  BY <1>1, TimetableStep, PTL DEF ImplementsTimetable, Abstract!Spec
<1>5. ImplementsTimetable => []ServesPublished
  BY <1>2, <1>4, PTL
<1>6. ImplementsTimetable => [][Onward]_<<feed, index>>
  BY <1>3, <1>4, PTL DEF ImplementsTimetable, Abstract!Spec
<1> QED BY <1>5, <1>6, PTL DEF NeverGoesBack, Onward
=============================================================================
