---------------------------- MODULE Configuration ----------------------------
(***************************************************************************)
(* What the user configures and how the running entry follows it: the flow *)
(* that adds a datasource, the forms that add and change its watches, and  *)
(* the reload a change asks for (config_flow.py, __init__.py, sensor.py    *)
(* async_setup_entry).                                                     *)
(*                                                                         *)
(* One entry, its subentries and one form at a time.  Home Assistant runs  *)
(* set-up, unload and reload of an entry under one lock, but the registry  *)
(* of subentries may change at any await of theirs.  Text is a sequence of *)
(* characters, since what the boxes of the form do to stop ids is part of  *)
(* the question; a stop id is such a text without a comma and without      *)
(* spaces at its ends.                                                     *)
(***************************************************************************)
EXTENDS Integers, Sequences, FiniteSetsExt, SequencesExt

CONSTANTS
  Comma, Space,  \* the two characters the forms treat specially
  Texts,         \* what may be typed into a box of stop ids
  Urls,          \* what may be typed as the URL of a feed
  Schemes,       \* http:// and https://
  Lower,         \* Lower[c]: the small letter of the capital c
  Trackers,      \* what a vicinity watch may follow
  MaxSub,        \* bound on the subentries ever created
  MaxReload      \* bound on the reloads waiting

Sub == 1 .. MaxSub

ASSUME ConfigurationAssumption ==
  /\ MaxSub \in Nat /\ MaxReload \in Nat
  /\ Texts \subseteq Seq(STRING) /\ Urls \subseteq Seq(STRING)
  /\ Schemes \subseteq Seq(STRING)
  /\ Comma \in STRING /\ Space \in STRING /\ Comma # Space

VARIABLES
  sources,       \* unique ids of the entries that were created
  subs,          \* entry.subentries: the data of each, None if there is none
  created,       \* subentries ever created; ids are never used again
  form,          \* the flow under way: which subentry, what its boxes hold
  phase,         \* where the entry is
  reloads,       \* reloads waiting for the entry's lock
  coordinators,  \* the subentries async_setup_entry made coordinators for
  entities,      \* the subentries that have their sensors
  missed         \* history: subentries that came or went with nobody listening

registry == <<subs, created>>
running  == <<phase, reloads, coordinators, entities, missed>>
vars     == <<sources, subs, created, form, phase, reloads, coordinators, entities, missed>>

-----------------------------------------------------------------------------
(* Text boxes and stop ids                                                 *)

(* Fault: only the spaces ahead of an id are trimmed.                      *)
StripLeft(text) ==
  LET solid == {k \in DOMAIN text : text[k] # Space}
  IN IF solid = {} THEN <<>> ELSE SubSeq(text, Min(solid), Len(text))

Strip(text) ==
  LET solid == {k \in DOMAIN text : text[k] # Space}
  IN IF solid = {} THEN <<>> ELSE SubSeq(text, Min(solid), Max(solid))

(* The pieces between the commas.                                          *)
Parts(text) ==
  FoldLeft(LAMBDA parts, c : IF c = Comma THEN Append(parts, <<>>)
                             ELSE [parts EXCEPT ![Len(parts)] = Append(@, c)],
           << <<>> >>, text)

(* What is left of the pieces that are not blank.                          *)
Trimmed(parts) ==
  FoldLeft(LAMBDA ids, p : IF Strip(p) = <<>> THEN ids ELSE Append(ids, Strip(p)), <<>>, parts)

SplitIds(text) == Trimmed(Parts(text))

(* Fault: the ids are shown with nothing but a space between them.         *)
JoinedBySpace(ids) ==
  FoldLeft(LAMBDA text, id : IF text = <<>> THEN id ELSE text \o <<Space>> \o id, <<>>, ids)

Joined(ids) ==
  FoldLeft(LAMBDA text, id : IF text = <<>> THEN id ELSE text \o <<Comma, Space>> \o id, <<>>, ids)

-----------------------------------------------------------------------------
Route(origins, destinations) ==
  [kind |-> "route", origins |-> origins, destinations |-> destinations]
Vicinity(tracker) == [kind |-> "vicinity", tracker |-> tracker]
None  == [kind |-> "none"]    \* no subentry of that id, no form
NoSub == 0                    \* the form is that of a new watch

Present == {s \in Sub : subs[s] # None}
Routes  == {s \in Present : subs[s].kind = "route"}

Blank == [kind |-> "route", sub |-> NoSub, origins |-> <<>>, destinations |-> <<>>]

(* The boxes as the stored watch fills them.                               *)
AsFormValues(s) ==
  [kind |-> "route", sub |-> s,
   origins |-> Joined(subs[s].origins), destinations |-> Joined(subs[s].destinations)]

Init ==
  /\ sources = {}
  /\ subs = [s \in Sub |-> None] /\ created = 0
  /\ form = None
  /\ phase = "none" /\ reloads = 0
  /\ coordinators = {} /\ entities = {} /\ missed = {}

-----------------------------------------------------------------------------
(* The flow that adds a datasource                                         *)

(* Fault: unique id and data are taken before the strip.                   *)
UniqueIdAsTyped(url) == url

UniqueId(url) == Strip(url)

LowerCase(text) == [k \in DOMAIN text |-> IF text[k] \in DOMAIN Lower THEN Lower[text[k]] ELSE text[k]]

(* The scheme is looked for without regard to case.                        *)
HasScheme(url, scheme) == IsPrefix(scheme, LowerCase(url))
IsWeb(url) == \E scheme \in Schemes : HasScheme(url, scheme)

(* An URL that is not one is refused and shown again, one that is in use   *)
(* aborts the flow; neither changes anything.  Home Assistant sets up the  *)
(* entry it creates.                                                       *)
AddSource(url) ==
  /\ IsWeb(Strip(url))
  /\ UniqueId(url) \notin sources
  /\ sources' = sources \cup {UniqueId(url)}
  /\ phase' = IF phase = "none" THEN "unloaded" ELSE phase
  /\ UNCHANGED <<registry, form, reloads, coordinators, entities, missed>>

-----------------------------------------------------------------------------
(* The forms of a watch                                                    *)

(* The update listener is registered at the end of the set-up and taken    *)
(* away when an unload has succeeded.                                      *)
Listening == phase \in {"loaded", "unloading", "failed"}

(* Fault: only what has no coordinator yet is worth a reload.              *)
NotifyIfAdded(s) ==
  /\ reloads < MaxReload
  /\ reloads' = IF Listening /\ ~(s \subseteq coordinators) THEN reloads + 1 ELSE reloads
  /\ missed' = IF Listening THEN missed ELSE missed \cup s

(* The registry calls the listener, which asks for a reload; s are the     *)
(* subentries that came or went.                                           *)
Notify(s) ==
  /\ reloads < MaxReload
  /\ reloads' = IF Listening THEN reloads + 1 ELSE reloads
  /\ missed' = IF Listening THEN missed ELSE missed \cup s

Create(data) ==
  /\ created < MaxSub
  /\ created' = created + 1
  /\ subs' = [subs EXCEPT ![created + 1] = data]
  /\ Notify({created + 1})

(* In place: the coordinators hold on to the subentry and read its data at *)
(* every poll.  The registry does not call anyone when nothing changed, or *)
(* update a subentry that was removed since the form was opened.           *)
Update(s, data) ==
  /\ subs[s] # None
  /\ subs' = [subs EXCEPT ![s] = data]
  /\ IF subs[s] = data THEN UNCHANGED <<reloads, missed>> ELSE Notify({})
  /\ UNCHANGED created

OpenNew ==
  /\ form = None /\ phase # "none"
  /\ form' = Blank
  /\ UNCHANGED <<sources, registry, running>>

OpenReconfigure(s) ==
  /\ form = None
  /\ s \in Routes
  /\ form' = AsFormValues(s)
  /\ UNCHANGED <<sources, registry, running>>

Save(sub, data) == IF sub = NoSub THEN Create(data) ELSE Update(sub, data)

(* Either box may be left as it was shown.                                 *)
Submit(origins, destinations) ==
  /\ form # None
  /\ IF SplitIds(origins) = <<>>
     THEN /\ form' = [form EXCEPT !.origins = origins, !.destinations = destinations]
          /\ UNCHANGED <<registry, reloads, missed>>
     ELSE /\ Save(form.sub, Route(SplitIds(origins), SplitIds(destinations)))
          /\ form' = None
  /\ UNCHANGED <<sources, phase, coordinators, entities>>

(* The form of a vicinity watch is stored as it is.                        *)
SubmitVicinity(sub, tracker) ==
  /\ form = None /\ phase # "none"
  /\ sub \in {NoSub} \cup (Present \ Routes)
  /\ Save(sub, Vicinity(tracker))
  /\ UNCHANGED <<sources, form, phase, coordinators, entities>>

Abandon ==
  /\ form # None
  /\ form' = None
  /\ UNCHANGED <<sources, registry, running>>

(* The user deletes a watch: its entities leave the entity registry.       *)
RemoveSub(s) ==
  /\ subs[s] # None
  /\ subs' = [subs EXCEPT ![s] = None]
  /\ entities' = entities \ {s}
  /\ Notify({s})
  /\ UNCHANGED <<sources, created, form, phase, coordinators>>

-----------------------------------------------------------------------------
(* The entry                                                               *)

SetupBegins ==
  /\ phase = "unloaded"
  /\ phase' = "opening"
  /\ coordinators' = Routes
  /\ missed' = {}
  /\ UNCHANGED <<sources, registry, form, reloads, entities>>

(* The sensor platform looks every coordinator's subentry up and fails at  *)
(* the first that is gone; what it has added by then stays.                *)
SetupForwards ==
  /\ phase = "opening"
  /\ phase' = "forwarded"
  /\ entities' = {c \in coordinators \cap Routes :
                    \A s \in 1 .. c : s \in coordinators => subs[s] # None}
  /\ UNCHANGED <<sources, registry, form, reloads, coordinators, missed>>

(* Fault: the entry is updated at the end of its own set-up.               *)
SetupEndsWithUpdate ==
  /\ phase = "forwarded"
  /\ phase' = "loaded" /\ reloads' = IF reloads = 0 THEN 1 ELSE reloads
  /\ UNCHANGED <<sources, registry, form, coordinators, entities, missed>>

SetupEnds ==
  /\ phase = "forwarded"
  /\ phase' = "loaded"
  /\ UNCHANGED <<sources, registry, form, reloads, coordinators, entities, missed>>

(* A reload gets the lock.  An entry that refused to unload refuses again. *)
ReloadBegins ==
  /\ reloads > 0 /\ phase \in {"loaded", "failed"}
  /\ reloads' = reloads - 1
  /\ phase' = IF phase = "loaded" THEN "unloading" ELSE "failed"
  /\ UNCHANGED <<sources, registry, form, coordinators, entities, missed>>

Unloads ==
  /\ phase = "unloading"
  /\ phase' = "unloaded"
  /\ coordinators' = {} /\ entities' = {}
  /\ UNCHANGED <<sources, registry, form, reloads, missed>>

UnloadRefused ==
  /\ phase = "unloading"
  /\ phase' = "failed"
  /\ UNCHANGED <<sources, registry, form, reloads, coordinators, entities, missed>>

-----------------------------------------------------------------------------
Shown(box) == IF form = None THEN {} ELSE {form[box]}

User ==
  \/ \E url \in Urls : AddSource(url)
  \/ OpenNew \/ Abandon
  \/ \E s \in Sub : OpenReconfigure(s) \/ RemoveSub(s)
  \/ \E o \in Texts \cup Shown("origins"), d \in Texts \cup Shown("destinations") : Submit(o, d)
  \/ \E s \in Present \cup {NoSub}, tracker \in Trackers : SubmitVicinity(s, tracker)

Entry ==
  SetupBegins \/ SetupForwards \/ SetupEnds \/ ReloadBegins \/ Unloads \/ UnloadRefused

Next == User \/ Entry

(* The loop runs what is ready; the user need not do anything.             *)
Spec == Init /\ [][Next]_vars
FairSpec == Spec /\ WF_vars(Entry)

-----------------------------------------------------------------------------
(* Properties                                                              *)

StopId(text) ==
  text # <<>> /\ Head(text) # Space /\ Last(text) # Space /\ ~Contains(text, Comma)

TypeOK ==
  /\ \A source \in sources : IsWeb(source)
  /\ \A s \in Sub :
       \/ subs[s] = None
       \/ subs[s] \in [kind : {"vicinity"}, tracker : Trackers]
       \/ /\ subs[s] = Route(subs[s].origins, subs[s].destinations)
          /\ subs[s].origins # <<>>
          /\ \A id \in ToSet(subs[s].origins \o subs[s].destinations) : StopId(id)
  /\ created \in 0 .. MaxSub
  /\ form = None \/ form.sub \in Sub \cup {NoSub}
  /\ phase \in {"none", "unloaded", "opening", "forwarded", "loaded", "unloading", "failed"}
  /\ reloads \in 0 .. MaxReload
  /\ coordinators \subseteq Sub /\ entities \subseteq coordinators /\ missed \subseteq Sub

(* Adding the same feed twice is caught also when the URL is typed with    *)
(* spaces around it the second time (config_flow.py 128-137).              *)
UniqueSource == \A a, b \in sources : Strip(a) = Strip(b) => a = b

(* A form that is opened and submitted as it stands changes nothing: the   *)
(* ids of a stored watch come back from the boxes as they went in          *)
(* (config_flow.py 65-76 and 232-244).                                     *)
RoundTrip ==
  \A s \in Routes : /\ SplitIds(Joined(subs[s].origins)) = subs[s].origins
                    /\ SplitIds(Joined(subs[s].destinations)) = subs[s].destinations

(* With no reload waiting, the watches that are polled and have sensors    *)
(* are those that are configured, whatever was added and removed during    *)
(* the reloads that led here, unless it was while nobody listened          *)
(* (__init__.py 97-104).                                                   *)
FollowsConfiguration ==
  phase = "loaded" /\ reloads = 0 /\ missed = {} => coordinators = Routes /\ entities = Routes

(* Once the user leaves the configuration alone the entry catches up with  *)
(* it: no reload waits or asks for the next, and unless the entry refused  *)
(* to unload, or something came or went unheard during the last set-up,    *)
(* what it runs is what is configured (__init__.py 97-104).                *)
CaughtUp ==
  /\ reloads = 0
  /\ \/ phase \in {"none", "failed"}
     \/ phase = "loaded" /\ (missed = {} => coordinators = Routes /\ entities = Routes)

CatchesUp == <>[][subs' = subs]_vars => <>[]CaughtUp

(* "A reload rebuilds the coordinators, which is how an added or removed   *)
(* watch gains or loses its entities" (__init__.py 100).                   *)
ChangesAreLoaded ==
  phase = "loaded" /\ reloads = 0 => entities = Routes
=============================================================================
