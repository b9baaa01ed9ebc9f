-------------------------- MODULE ConfigurationProofs --------------------------
(***************************************************************************)
(* Theorems about Configuration, for any texts, feeds, trackers, and any   *)
(* number of watches and waiting reloads.                                  *)
(***************************************************************************)
EXTENDS Configuration, WellFoundedInduction, TLAPS

(* What the entry has made of its watches at each phase, unless one came   *)
(* or went unheard since its set-up began.                                 *)
Follows ==
  missed = {} =>
    /\ phase = "opening" => coordinators = Routes
    /\ phase = "forwarded" => coordinators = Routes /\ entities = Routes
    /\ phase = "loaded" /\ reloads = 0 => coordinators = Routes /\ entities = Routes

(* A form that is open on a watch is that of a route, or of none any more. *)
FormInv ==
  form # None => \/ form.sub = NoSub
                 \/ /\ form.sub \in Sub
                    /\ subs[form.sub] = None \/ subs[form.sub].kind = "route"

Shape ==
  /\ subs = [s \in Sub |-> subs[s]]
  /\ created \in 0 .. MaxSub /\ reloads \in 0 .. MaxReload
  /\ FormInv /\ Follows

(* What is stored is something, and a route or not.                        *)
LEMMA KindFacts ==
  /\ \A o, d : Route(o, d) # None /\ Route(o, d).kind = "route"
  /\ \A t : Vicinity(t) # None /\ Vicinity(t).kind = "vicinity"
  BY DEF Route, Vicinity, None

(* A change to the registry is heard, remembered, or none of the routes.   *)
LEMMA NotifyFollows ==
  ASSUME Shape, NEW s, Notify(s), UNCHANGED <<phase, coordinators>>,
         s = {} => Routes' = Routes /\ entities' = entities
  PROVE  Follows' /\ reloads' \in 0 .. MaxReload
<1>1. reloads \in Int /\ reloads < MaxReload /\ MaxReload \in Int /\ reloads >= 0
  BY ConfigurationAssumption DEF Shape, Notify
<1>2. CASE Listening
  <2>1. reloads' = reloads + 1 /\ phase' \notin {"opening", "forwarded"}
    BY <1>2 DEF Notify, Listening
  <2> QED BY <1>1, <2>1 DEF Follows
<1>3. CASE ~Listening /\ s = {}
  <2>1. reloads' = reloads /\ missed' = missed
    BY <1>3 DEF Notify
  <2> QED BY <1>1, <1>3, <2>1 DEF Shape, Follows
<1>4. CASE ~Listening /\ s # {}
  <2>1. missed' # {} /\ reloads' = reloads
    BY <1>4 DEF Notify
  <2> QED BY <1>1, <2>1 DEF Follows
<1> QED BY <1>2, <1>3, <1>4

(* Saving a watch keeps the shape, whichever form it comes from.           *)
LEMMA SaveKept ==
  ASSUME Shape, NEW sub, NEW data, data # None, Save(sub, data), form' = None,
         UNCHANGED <<phase, coordinators, entities>>,
         \/ sub = NoSub
         \/ /\ sub \in Sub
            /\ subs[sub] = None \/ (subs[sub].kind = "route" <=> data.kind = "route")
  PROVE  Shape'
<1>1. CASE sub = NoSub
  <2>1. subs' = [subs EXCEPT ![created + 1] = data] /\ created' = created + 1 /\ created < MaxSub
        /\ Notify({created + 1})
    BY <1>1 DEF Save, Create
  <2>2. Follows' /\ reloads' \in 0 .. MaxReload
    BY <2>1, NotifyFollows
  <2>3. created' \in 0 .. MaxSub
    BY <2>1, ConfigurationAssumption DEF Shape
  <2>4. subs' = [s \in Sub |-> subs'[s]]
    BY <2>1 DEF Shape
  <2> QED BY <2>2, <2>3, <2>4 DEF Shape, FormInv
<1>2. CASE sub # NoSub
  <2>1. /\ sub \in Sub /\ subs[sub] # None /\ subs' = [subs EXCEPT ![sub] = data] /\ created' = created
        /\ IF subs[sub] = data THEN UNCHANGED <<reloads, missed>> ELSE Notify({})
    BY <1>2 DEF Save, Update
  <2>2. /\ subs'[sub] = data /\ \A s \in Sub : s # sub => subs'[s] = subs[s]
        /\ subs' = [s \in Sub |-> subs'[s]]
    BY <2>1 DEF Shape
  <2>3. subs[sub].kind = "route" <=> data.kind = "route"
    BY <1>2, <2>1
  <2>4. Present' = Present
    BY <2>1, <2>2 DEF Present
  <2>5. Routes' = Routes
    BY <2>2, <2>3, <2>4 DEF Routes, Present
  <2>6. Follows' /\ reloads' \in 0 .. MaxReload
    <3>1. CASE UNCHANGED <<reloads, missed>>
      BY <2>5, <3>1 DEF Shape, Follows
    <3> QED BY <2>1, <2>5, <3>1, NotifyFollows
  <2> QED BY <2>1, <2>2, <2>6 DEF Shape, FormInv
<1> QED BY <1>1, <1>2

LEMMA ShapeKept == Shape /\ [Next]_vars => Shape'
<1> SUFFICES ASSUME Shape, [Next]_vars PROVE Shape'
  OBVIOUS
<1>1. ASSUME UNCHANGED <<subs, created, reloads, coordinators, entities, missed, phase>>, FormInv'
      PROVE  Shape'
  BY <1>1 DEF Shape, Follows, Routes, Present
<1>2. CASE \E url \in Urls : AddSource(url)
  <2>1. UNCHANGED <<subs, created, form, reloads, coordinators, entities, missed>>
        /\ (phase' = phase \/ phase' = "unloaded")
    BY <1>2 DEF AddSource, registry
  <2> QED BY <2>1 DEF Shape, FormInv, Follows, Routes, Present
<1>3. CASE OpenNew \/ Abandon \/ \E s \in Sub : OpenReconfigure(s)
  <2>1. UNCHANGED <<subs, created, reloads, coordinators, entities, missed, phase>>
    BY <1>3 DEF OpenNew, Abandon, OpenReconfigure, registry, running
  <2>2. FormInv'
    <3>1. CASE OpenNew
      BY <3>1 DEF OpenNew, Blank, FormInv
    <3>2. CASE Abandon
      BY <3>2 DEF Abandon, FormInv
    <3>3. CASE \E s \in Sub : OpenReconfigure(s)
      BY <2>1, <3>3 DEF OpenReconfigure, AsFormValues, FormInv, Routes
    <3> QED BY <1>3, <3>1, <3>2, <3>3
  <2> QED BY <1>1, <2>1, <2>2
<1>4. CASE \E s \in Sub : RemoveSub(s)
  <2>1. PICK s \in Sub : RemoveSub(s)
    BY <1>4
  <2>2. /\ subs' = [subs EXCEPT ![s] = None] /\ Notify({s})
        /\ UNCHANGED <<created, form, phase, coordinators>>
    BY <2>1 DEF RemoveSub
  <2>3. subs' = [r \in Sub |-> subs'[r]] /\ \A r \in Sub : subs'[r] \in {subs[r], None}
    BY <2>2 DEF Shape
  <2>4. Follows' /\ reloads' \in 0 .. MaxReload
    BY <2>2, NotifyFollows
  <2>5. FormInv'
    BY <2>2, <2>3 DEF Shape, FormInv
  <2> QED BY <2>2, <2>3, <2>4, <2>5 DEF Shape
<1>5. ASSUME NEW o, NEW d, Submit(o, d) PROVE Shape'
  <2>1. form # None /\ UNCHANGED <<phase, coordinators, entities>>
    BY <1>5 DEF Submit
  <2>2. CASE SplitIds(o) = <<>>
    <3>1. /\ form' = [form EXCEPT !.origins = o, !.destinations = d]
          /\ UNCHANGED <<subs, created, reloads, missed>>
      BY <1>5, <2>2 DEF Submit, registry
    <3>2. form'.sub = form.sub
      BY <3>1
    <3>3. FormInv'
      BY <2>1, <3>1, <3>2 DEF Shape, FormInv
    <3> QED BY <1>1, <2>1, <3>1, <3>3
  <2>3. CASE SplitIds(o) # <<>>
    <3> DEFINE data == Route(SplitIds(o), SplitIds(d))
    <3>1. Save(form.sub, data) /\ form' = None
      BY <1>5, <2>3 DEF Submit
    <3>2. data # None /\ data.kind = "route"
      BY KindFacts
    <3> HIDE DEF data
    <3> QED BY <2>1, <3>1, <3>2, SaveKept DEF Shape, FormInv
  <2> QED BY <2>2, <2>3
<1>6. ASSUME NEW s \in Present \cup {NoSub}, NEW t \in Trackers, SubmitVicinity(s, t) PROVE Shape'
  <2>1. /\ form' = None /\ UNCHANGED <<phase, coordinators, entities>>
        /\ s \in {NoSub} \cup (Present \ Routes) /\ Save(s, Vicinity(t))
    BY <1>6 DEF SubmitVicinity
  <2>2. Vicinity(t) # None /\ Vicinity(t).kind = "vicinity"
    BY KindFacts
  <2>3. s = NoSub \/ (s \in Sub /\ subs[s].kind # "route")
    BY <2>1 DEF Present, Routes
  <2> QED BY <2>1, <2>2, <2>3, SaveKept
<1>7. CASE Entry
  <2>1. UNCHANGED <<subs, created, form>> /\ Routes' = Routes
    BY <1>7 DEF Entry, SetupBegins, SetupForwards, SetupEnds, ReloadBegins, Unloads, UnloadRefused,
                registry, Routes, Present
  <2>2. reloads' \in 0 .. MaxReload
    BY <1>7, ConfigurationAssumption
    DEF Shape, Entry, SetupBegins, SetupForwards, SetupEnds, ReloadBegins, Unloads, UnloadRefused
  <2>3. Follows'
    <3>1. CASE SetupBegins
      BY <2>1, <3>1 DEF SetupBegins, Follows
    <3>2. CASE SetupForwards
      <4>1. missed = {} => coordinators = Routes
        BY <3>2 DEF SetupForwards, Shape, Follows
      <4>2. \A c \in Routes : subs[c] # None
        BY DEF Routes, Present
      <4>3. missed = {} => entities' = Routes
        BY <3>2, <4>1, <4>2 DEF SetupForwards
      <4> QED BY <2>1, <3>2, <4>1, <4>3 DEF SetupForwards, Follows
    <3>3. CASE SetupEnds
      BY <2>1, <3>3 DEF SetupEnds, Shape, Follows
    <3>4. CASE ReloadBegins
      BY <3>4 DEF ReloadBegins, Follows
    <3>5. CASE Unloads \/ UnloadRefused
      BY <3>5 DEF Unloads, UnloadRefused, Follows
    <3> QED BY <1>7, <3>1, <3>2, <3>3, <3>4, <3>5 DEF Entry
  <2> QED BY <2>1, <2>2, <2>3 DEF Shape, FormInv
<1>8. CASE UNCHANGED vars
  BY <1>1, <1>8 DEF vars, Shape, FormInv
<1> QED
  BY <1>2, <1>3, <1>4, <1>5, <1>6, <1>7, <1>8 DEF Next, User

(* What the entry polls and shows is what is configured, for as long as    *)
(* nothing came or went unheard.                                           *)
THEOREM EntryFollowsConfiguration == Spec => []FollowsConfiguration
<1>1. Init => Shape
  BY ConfigurationAssumption DEF Init, Shape, FormInv, Follows
<1>2. Shape => FollowsConfiguration
  BY DEF Shape, Follows, FollowsConfiguration
<1> QED BY <1>1, <1>2, ShapeKept, PTL DEF Spec

-----------------------------------------------------------------------------
(* Trimming a text                                                         *)

(* A set of natural numbers has a least element, and one that is bounded a *)
(* greatest.                                                               *)
LEMMA LeastNatural ==
  ASSUME NEW T \in SUBSET Nat, T # {}
  PROVE  \E m \in T : \A k \in T : m <= k
<1>1. PICK m \in T : \A k \in T : ~(<<k, m>> \in OpToRel(<, Nat))
  BY NatLessThanWellFounded, WFMin
<1>2. \A k \in T : ~(k < m)
  BY <1>1 DEF OpToRel
<1> QED BY <1>2

LEMMA MinMaxFacts ==
  ASSUME NEW n \in Nat, NEW T \in SUBSET (1 .. n), T # {}
  PROVE  /\ Min(T) \in T /\ \A k \in T : Min(T) <= k
         /\ Max(T) \in T /\ \A k \in T : k <= Max(T)
<1>1. \E m \in T : \A k \in T : m <= k
  BY LeastNatural
<1>2. \E m \in T : \A k \in T : m >= k
  <2> DEFINE U == {n - k : k \in T}
  <2>1. U \in SUBSET Nat /\ U # {}
    <3>1. PICK k \in T : TRUE
      OBVIOUS
    <3>2. n - k \in U /\ \A j \in T : n - j \in Nat
      OBVIOUS
    <3> QED BY <3>2
  <2> HIDE DEF U
  <2>2. PICK u \in U : \A v \in U : u <= v
    BY <2>1, LeastNatural
  <2>3. PICK m \in T : u = n - m
    BY DEF U
  <2>4. \A k \in T : n - m <= n - k
    BY <2>2, <2>3 DEF U
  <2> QED BY <2>4
<1>3. Min(T) \in T /\ \A k \in T : Min(T) <= k
  BY <1>1 DEF Min
<1>4. Max(T) \in T /\ \A k \in T : Max(T) >= k
  BY <1>2 DEF Max
<1> QED BY <1>3, <1>4

(* Trimming leaves no space at either end, and nothing to trim again.      *)
LEMMA StripFacts ==
  ASSUME NEW text \in Seq(STRING)
  PROVE  Strip(text) \in Seq(STRING) /\ Strip(Strip(text)) = Strip(text)
<1> DEFINE Solid(t) == {k \in DOMAIN t : t[k] # Space}
<1>1. CASE Solid(text) = {}
  <2>1. Strip(text) = <<>>
    BY <1>1 DEF Strip
  <2>2. Strip(<<>>) = <<>>
    BY DEF Strip
  <2> QED BY <2>1, <2>2
<1>2. CASE Solid(text) # {}
  <2> DEFINE first == Min(Solid(text))
             last == Max(Solid(text))
             s == SubSeq(text, first, last)
  <2>1. /\ first \in Solid(text) /\ last \in Solid(text)
        /\ \A k \in Solid(text) : first <= k /\ k <= last
    <3>1. Len(text) \in Nat /\ Solid(text) \in SUBSET (1 .. Len(text))
      OBVIOUS
    <3> HIDE DEF Solid
    <3> QED BY <1>2, <3>1, MinMaxFacts
  <2>2. first \in 1 .. Len(text) /\ last \in 1 .. Len(text) /\ first <= last
    BY <2>1
  <2>3. text[first] # Space /\ text[last] # Space
    BY <2>1
  <2>4. Strip(text) = s
    BY <1>2 DEF Strip
  <2> HIDE DEF first, last
  <2>5. /\ s \in Seq(STRING) /\ Len(s) = last - first + 1
        /\ \A k \in 1 .. last - first + 1 : s[k] = text[first + k - 1]
    BY <2>2
  <2>6. s[1] # Space /\ s[Len(s)] # Space /\ Len(s) \in Nat \ {0} /\ DOMAIN s = 1 .. Len(s)
    BY <2>2, <2>3, <2>5
  <2> HIDE DEF s
  <2>7. 1 \in Solid(s) /\ Len(s) \in Solid(s)
    BY <2>6
  <2>8. Min(Solid(s)) = 1 /\ Max(Solid(s)) = Len(s)
    <3>1. /\ Min(Solid(s)) \in Solid(s) /\ \A k \in Solid(s) : Min(Solid(s)) <= k
          /\ Max(Solid(s)) \in Solid(s) /\ \A k \in Solid(s) : k <= Max(Solid(s))
      BY <2>6, <2>7, MinMaxFacts
    <3> HIDE DEF Solid
    <3>2. Solid(s) \subseteq 1 .. Len(s)
      BY <2>6 DEF Solid
    <3> QED BY <2>6, <2>7, <3>1, <3>2
  <2>9. SubSeq(s, 1, Len(s)) = s
    BY <2>5
  <2>10. Strip(s) = s
    BY <2>7, <2>8, <2>9 DEF Strip
  <2> QED BY <2>4, <2>5, <2>10
<1> QED BY <1>1, <1>2

(* No feed is added twice for spaces typed around its URL.                 *)
THEOREM FeedsAreUnique == Spec => []UniqueSource
<1> DEFINE AllStripped == \A a \in sources : Strip(a) = a
<1>1. Init => AllStripped
  BY DEF Init
<1>2. AllStripped /\ [Next]_vars => AllStripped'
  <2> SUFFICES ASSUME AllStripped, [Next]_vars PROVE AllStripped'
    OBVIOUS
  <2>1. CASE \E url \in Urls : AddSource(url)
    BY <2>1, StripFacts, ConfigurationAssumption DEF AddSource, UniqueId
  <2>2. sources' = sources \/ \E url \in Urls : AddSource(url)
    BY DEF Next, User, Entry, OpenNew, Abandon, OpenReconfigure, RemoveSub, Submit, SubmitVicinity,
           SetupBegins, SetupForwards, SetupEnds, ReloadBegins, Unloads, UnloadRefused, vars
  <2> QED BY <2>1, <2>2
<1>3. AllStripped => UniqueSource
  BY DEF UniqueSource
<1> QED BY <1>1, <1>2, <1>3, PTL DEF Spec
=============================================================================
