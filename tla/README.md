# Verification of ha-gtfsie

TLA+ specifications of the Home Assistant integration in
`src/custom_components/gtfsie`, TLC configurations that check them on small
instances, and TLAPS proofs of the properties that matter most for every value
of the constants. References of the form `datasource.py 336` are to files of
that directory; `SPEC.md` is `docs/SPEC.md`.

## 1. The system

| component | state | operations | talks to |
|---|---|---|---|
| `Datasource`, files (`datasource.py` 72-103, 358-474) | `feed.zip`, `feed.candidate`, `feed.sqlite`, `index.building`, `index.sqlite` | `_refresh`, `_fetch_and_load`, `_should_promote`, `_materialise` | the engine library (download, parse, guard, build), the clock |
| `Datasource`, object (`datasource.py` 106-356) | `state`, `error`, `meta`, `_conn`, `_lock`, `_closed`, listeners, one store thread | `async_setup`, timers, `async_refresh`, `async_query`, `async_shutdown` | Home Assistant's loop and shared executor; coordinators through `_notify` |
| `RouteCoordinator` (`coordinator.py`) | `WatchData`, its poll timer | `_async_update_data`, `_on_datasource_change` | reads `state` and `meta`, queries through the datasource |
| entry (`__init__.py`) | `hass.data[DOMAIN]`, update listener | setup, unload, remove, reload | creates and shuts down the two above |
| sensors (`sensor.py`), presenter (`presenter.py`) | the state last written | platform set-up; views of `WatchData` and `meta` | coordinator |
| flows (`config_flow.py`) | entry and subentry data, the form on show | add a datasource, add or change a watch | a change reloads the entry |
| engine (`pygtfsie`, another repository) | none | `fetch`, `run_ingest`, `should_replace`, `materialise`, queries | called by the above |

Three schedulers run this: the event loop, where code is atomic between two
awaits that suspend; the worker thread of a refresh, in Home Assistant's shared
pool; and one thread per `Datasource` that owns the sqlite connection. The
files outlive all of them, and the objects: a reload makes new objects over the
same directory, a process that dies leaves whatever was written.

What is hard, and what each component has to get right:

* files: a refresh has some ten steps, each of which may raise, and the process
  may die between any two. Whatever happens, `feed.sqlite` and `index.sqlite`
  are whole, the index is cut from the live feed, its window never moves back, a
  future-dated feed does not displace a working one, and the publisher's offer
  is eventually served;
* object: `READY` means that the published index is open; a refresh ends and
  gives its lock back; there is one writer;
* watches: rows and window come from one index, rows of an old index do not
  return, "extracting" goes away by itself;
* entry: an unloaded object stops, a cancelled refresh does no harm to the next
  object, a removed entry leaves nothing behind; a change of the configuration
  at any step of a reload is loaded in the end, and reloads come to an end;
* flows: a feed is added once, a form that is opened and submitted changes
  nothing;
* selection: the list has no hole, holds nothing that has gone, its flags are
  exact, and what it showed comes back after imports and failures;
* sensors: days are named by the calendar of the place of departure; rows and
  the feed's dates beside them come to be of one index.

The list of hazards, each at its line, is in `PROJECT.json`.

## 2. Modules

| module | models | extends |
|---|---|---|
| `Timetable` | what a datasource promises: a live feed, a published index, a reader | |
| `Refresh` | one datasource: files, refresh, start-up, timers, crashes | instances `Timetable` |
| `RefreshProofs` | its theorems | `Refresh` |
| `MCRefresh` | constants for TLC | `Refresh` |
| `Board` | what the watches of an entry promise: rows of one open index, never older ones, dates beside them | |
| `Lifecycle` | objects, tasks, threads and watches across reloads | instances `Board` |
| `LifecycleProofs` | its theorems | `Lifecycle` |
| `LifecycleCurrentProofs` | that what is shown, once nothing is under way, is current | `LifecycleProofs` |
| `LifecyclePromiseProofs` | that nobody waits in vain, and that it implements `Board` | `LifecycleCurrentProofs` |
| `Selection` | the polls of a watch: early returns, scan, filter, trim, status and flags | |
| `SelectionProofs` | its theorems | `Selection` |
| `Presenter` | zones, labels of days, the attributes of both sensors | `Selection` |
| `PresenterProofs` | its theorems | `Presenter`, `SelectionProofs` |
| `MCSelection` | constants for TLC | `Presenter` |
| `Configuration` | flows, forms, subentries, and the entry that follows them | |
| `ConfigurationProofs` | its theorems about the entry and about feeds | `Configuration` |
| `ConfigurationTextProofs` | its theorems about texts | `ConfigurationProofs` |
| `MCConfiguration` | constants for TLC | `Configuration` |

`Refresh` and `Lifecycle` cut the same class in two. `Refresh` has every step of
the pipeline, one object and a process that dies; the event loop does one thing
at a time there. `Lifecycle` has every task and thread and several objects; a
refresh is a thread that publishes an index or fails. What the first assumes,
that a refresh of an object has the files for itself, is
`OneWriterPerObject` in the second, and where it is not so (two objects) is the
finding `OneWriter`. `Selection` takes for granted that a poll reads one index
and that index's window, which is `WindowMatchesRows` in `Lifecycle`. `Lifecycle`
has a fixed set of watches; how the set changes while the entry reloads is
`Configuration`, where a datasource is no more than the awaits of its set-up.

Definitions marked `Fault:` are plausible mistakes in the definition that
follows them. No specification uses them; putting one in place of its neighbour
must break the property it is listed with.

### Refresh

`pc` is where the refresh holding the lock has got to (`async_refresh`,
`_refresh`, `_fetch_and_load`, `_materialise`); one action per step that leaves
something on disk or in memory. A feed is an archive `v` with its first service
day `Starts[v]`, as much as the guard looks at. A build of the index is the feed
it was cut from, the last day of its window and whether it was finished. `meta`
is the build whose meta table was read; it supplies both the `etag` a download
is conditional on and the day `window_covers_today` looks at.

| code | model |
|---|---|
| `async_setup` 145-177 | `Setup`: open what exists, then nothing, a roll or a fetch |
| `_on_roll_due`, `_on_refresh_due` | `RollDue` (skipped when the lock is held), `RefreshDue` |
| 304 at 379 | `NotModified`, possible only for the archive `meta` names |
| `run_ingest`, `_should_promote` 404-453, rename 416, `finally` 417 | `Ingest`, `GuardReads`, `GuardCannotRead`, `Promote`, `Clean`, `CleanRaises` |
| 363, `_materialise` | `Check`, `Materialise`, `Built`, `Replace` |
| an exception anywhere, 341-353 | `Raises`, `Clean` on the way out, `Fails` |
| `_open` at 355 | `Opens`, `OpenFails` (`sqlite3.Error`), `OpenRaises` (anything else) |
| the process dies | `Crash`: memory is gone, the files stay |

The calendar, the publisher, and process death are the environment.

Two calls stand where no handler catches what they raise. The unlinks of the
`finally` clause may leave a file behind (`CleanRaises`); and the reopen catches
`sqlite3.Error` only, and that from its second line on, so whatever else it
raises goes up past the last `_notify` and leaves the state "importing"
(`OpenRaises`), against "Never raises" in `datasource.py` 319. `Escapes` says
which of the two may happen; `littered` is history, that the last clean-up
raised or the process died since. At set-up an open that raises leaves no
datasource at all, which is a stutter here.

### Lifecycle

An action is what the loop, a worker thread or a store thread does up to its
next suspension. `_notify` polls eagerly (`async_create_task` of Home Assistant
starts a task at once), so a poll that needs no query is part of the step that
notifies; one that does ends up in `store`, the queue of the one-thread
executor, and its answer in `done`, the queue of completions on the loop.
`_open` takes two steps, because the loop may look at `state` between the
assignment to `meta` and that to `state`. Unloading cancels the refresh that
start-up made a background task of the entry; one a timer started goes on.
A worker job that is running cannot be cancelled by anyone; an open that is
queued when its task is cancelled is skipped by the executor (`Cancels`,
`StoreSkips`). The directory is `root`: a worker makes it, a publication puts
`index.sqlite` in it, and `rmtree` with ignored errors removes it or, beside a
worker at work, fails to. `attrs` is the build whose `meta` a sensor's attributes
were last written from; a sensor writes when its coordinator has data and when
it is added. Opens end well or with `sqlite3.Error` here: nothing in the
repository shows the library raising anything else from `_open`. What would
follow in the datasource is `Refresh!OpenRaises`; `LeavesExtracting` and
`QuietIsCurrent` would then have to wait for the next timer.

`Board` is the same thing to someone who looks at the sensors only: what each
line shows, which index its dates are from, which index is open and which is
published. The lines are `shown`, the open index is `meta` of the newest object
(none before the first), and the sensors are there while `phase` is `loaded`.

| `Lifecycle` | `Board` |
|---|---|
| a worker's publication, whichever object it belongs to | `Publish` |
| the store thread of the newest object reads a meta table | `Reopen` |
| polls, notifications and answers to queries | `Tell` |
| set-up completes, unloading begins, set-up begins | `GoLive`, `EndLive`, `Renew` |
| locks, queues, cancellations, closing, older objects | nothing |

### Selection

A departure is a record with its instant, its place in the scan order, the stop
it leaves from, the stops it calls at later and its direction. `state` is the
datasource's, as a watch sees it: an import starts, and opens an index or fails;
the index it opens is any.

| `_async_update_data` | model |
|---|---|
| 131-134, the datasource failed, is idle or imports: no rows | `PollUnready` |
| 184-186, the query was not answered: no rows, failed | `PollUnanswered` |
| 136-182, 187-226 | `PollAnswered` |

`data` is what is on show and `answer` the list of the last poll that was
answered, `polled` the index it was read from. The last two are history: they let
a property compare lists across the polls between them that showed none. The
queries are the library's; `SPEC.md` 282 and 284 say what `truncated` and
`exhausted` of a page mean.

### Presenter

Adds no state: attributes are operators over the `WatchData` of `Selection`. A
zone is its offset at each instant, an unknown one is UTC; the only thing asked
of offsets (`ZoneAssumption`) is that a later instant is not on an earlier date,
so days of any length are allowed. Texts that are formatted or copied are left
out, dates of labels are numbers of days.

### Configuration

| code | model |
|---|---|
| `GtfsieConfigFlow.async_step_user` | `AddSource`; refusals change nothing |
| `RouteSubentryFlow`: form, refused submission, create, update | `OpenNew`, `OpenReconfigure`, `Submit`, `Create`, `Update` |
| `VicinitySubentryFlow` | `SubmitVicinity` |
| `_split_ids`, `_as_form_values` | `SplitIds`, `Joined`, `AsFormValues` |
| `async_setup_entry` of `__init__.py`, before and after its awaits, and of `sensor.py` | `SetupBegins`, `SetupForwards`, `SetupEnds` |
| `_async_reload`, unload | `Notify`, `ReloadBegins`, `Unloads`, `UnloadRefused` |

Text is a sequence of characters here, since commas and spaces are the point.
`form` holds what the boxes were filled with when the form was opened, which by
the time it is submitted may be old. Home Assistant's part: ids of subentries
are not used again, a set-up, unload or reload of an entry holds the entry's
lock, so reloads wait (`reloads`), and a removed subentry takes its entities
along. `missed` is history, the subentries that came or went with no listener
registered.

## 3. What TLC checks

| run | bounds | result |
|---|---|---|
| `refresh_safety` | three archives (in service today, tomorrow, after the last day), horizon 2, three days, two restarts, clean-ups and opens that raise | 11.6 million states |
| `refresh_live` | two archives (in service today, tomorrow), two days, one restart, opens that raise | 134 thousand states, liveness under `RecoveringSpec` |
| `lifecycle_safety` | two objects, two refreshes of each in flight, one watch, two indexes published | 3.1 million states |
| `lifecycle_live` | one object, two watches, two indexes | liveness under `FairSpec` |
| `selection_safety` | every index over five departures (two at one instant), four watches, pages of limit + 1, a clock from 0 to 3, imports and failures, an unknown zone | 1.9 million states |
| `config_safety` | two watches ever created, two reloads waiting, three texts for each box and what a form shows, a feed typed in three ways | 315 thousand states; `CatchesUp` under `FairSpec` |
| six more | | each finds the violation of section 5 |

Why the bounds suffice. A refresh meets files of at most two earlier ones: what
is published and what a dead process left, so two restarts and three archives
give every combination of live feed, candidate and offer; three days let a
window run out, a future feed come into service and a roll be skipped. Two
objects are a reload; with a third nothing new can hold a file. Two refreshes of
one object are what its timers can start beside the one at start-up. Two
watches in the liveness run keep one watch's answer from standing for the
other's. Five departures against pages of two and three give a page that is
short, full and cut, by due rows and by rows the lookback found. Instants 0 to 4
cross two midnights of the feed's zone, one of them in another night than the
machine's, and the day between has three instants instead of two. Two watches
give a reload that meets one added, one removed and one changed; a second reload
waiting is one asked for during another.

`Lifecycle` may stop in an unloaded, failed or removed entry, so its runs do not
check deadlock. `Refresh` never stops, its timers fire again. `Selection` polls
for ever. In `Configuration` a form can always be opened or left.

### Properties

* `Refresh!ImplementsTimetable`: the pipeline refines `Timetable`.
* `ReadyReadsPublished`, `NothingLeftBehind`, `PromotesThisDownload`: what an
  outcome, good or bad, leaves behind.
* `ImportEnds`, `SettlesOnOffer`: a datasource does not stay "importing", not
  even when the reopen raised past the handlers; an offer that is in service and
  stays is served up to the horizon, in spite of skipped rolls, 304 answers and a
  restart at any step.
* `Lifecycle!OneWriterPerObject`, `LockDiscipline`, `LockIsReleased`: the lock.
* `NoWaitIsLost`: whatever a refresh or set-up waits for is queued, at work or on
  its way, although closing refuses jobs and unloading cancels queued ones.
* `Lifecycle!ImplementsBoard`: objects, tasks, threads and queues together
  refine `Board`.
* `WindowMatchesRows`, `QuietIsCurrent`, `NeverOlderRows`, `LeavesExtracting`:
  what a watch shows while imports start and end around its polls.
* `AttributesSettle`: rows and the feed dates beside them may be of two builds
  after a reopen, and agree again when nothing is under way.
* `NothingAfterClose`: an object that was shut down submits nothing any more.
* `Selection!NoGap`, `UncutIsComplete`, `CutHasMore`, `ExhaustedIsQuiet`:
  list, flags and status against `WorthShowing`, what the watch ought to find.
* `KeepsUntilGone`: from one answer to the next over the same index, whatever
  imports, failures and empty polls there were between them, a departure is
  missing only when it can no longer be caught.
* `Presenter!LabelsGroupByDate`, `LabelsInOrder`, `LabelsAdvance`: labels of days
  against local dates, down a list and from answer to answer.
* `Configuration!UniqueSource`, `RoundTrip`: what is typed into the flows, with
  spaces around it or not; the case of letters is another matter (section 5).
* `FollowsConfiguration`, `CatchesUp`: the entry catches up with changes made at
  any time but those of `ChangesAreLoaded`, and then rests.

### Fairness

`Refresh!FairSpec`: a step of a refresh that can be taken is taken, since the
pool runs its jobs and the loop its tasks; timers fire; the process is started
again; the open of a whole index does not fail every time. For liveness that
depends on success there is `Recovers`: neither a download up to the verdict on
it, nor a promotion or its clean-up, nor a build fails every time it is tried. A
step that may always fail proves nothing about recovery. `ImportEnds` needs
nothing of `Recovers`, and of the opens only where they may raise: `Raises` and
`Fails` end a refresh as well.
`Lifecycle!FairSpec` has threads and the loop only: no timer has to fire for
"extracting" to go away. `FairPolling` adds the minute polls, for
`StaleReadsEnd`: although watches poll for ever, the stale index stays.
`Configuration!FairSpec`: set-ups, unloads and reloads that can go on do; the
user need not do anything, and `CatchesUp` speaks of behaviours in which the
subentries stop changing.

## 4. What is proved

Proofs are for every value of the constants that satisfies the assumptions.

**Refresh** (`RefreshProofs`). Assumptions: horizon and bounds are natural
numbers, start days are, `None` is neither archive nor build. None of the
invariants is inductive by itself: that `Publish` of `Timetable` never moves the
window back depends on the build in `index.building` being at least as far as
the one published, through the stages from `Materialise` to `Replace`; that
`Accept` is safe depends on the verdict at `GuardReads` holding until `Promote`;
that nothing is left behind depends on what each stage may have on disk when no
clean-up raised.
`Inductive` says what each stage may count on; `TypeOK` and `Inductive`
are proved invariant together, one step per action, and the rest is proved from
them: `TypeCorrect`, `ReadyIsPublished`, `CleansUp`,
`PromotesOnlyItsOwn` and `RefreshImplementsTimetable`, in which `Promote` maps
to `Accept`, `Replace` to `Publish`, opening, closing and crashing to `Serve`,
the change of date to `NextDay`, and all else to a stutter.
`TimetableNeverGoesBack` says what that is worth: the rules of `Timetable` alone
give `ServesPublished` (what is served is the published index, and whole, or
nothing) and `NeverGoesBack` (no shorter window, no feed of the future in place
of one that works).

**Lifecycle** (`LifecycleProofs`). `OneWriterPerObject` needs to know why a free
lock means that no worker job is left: a task at work holds the lock, except
that a task cancelled by an unload leaves its thread running without it. The
way out is that its object is closed by then and a closed object starts nothing.
`LockDiscipline` says so and is inductive with the shape of the variables it
speaks of. Theorems `LocksAreHeld` and `ObjectsHaveOneWriter`.

The rest is about the two queues of an object. The type invariant is proved
with the contents of both (`TypeCorrect`), and that nothing reaches the queue of
a closed object follows from who may still be at work then (`ClosedStayQuiet`).
`OpensInv` says that an object has at most one open on its way, that of the
refresh holding the lock or of set-up, and that no query stands behind it, since
none is submitted while it is not ready; a query then carries the window of the
index it will meet. `RowsInv` says that answers on their way are in the order of
the builds they were read from, none older than what is shown nor newer than
what is open. From these, `RowsComeWithTheirWindow` and `RowsNeverAge`.

`QuietIsCurrent` and `AttributesSettle` speak of moments at which nothing is
under way, and say nothing of how the entry gets there; the invariant behind
them (`LifecycleCurrentProofs`) has to. While no refresh holds the lock of the
newest object its state is ready or failed, and a watch that has been polled
either shows what is open or has a question, or an answer, on its way that will
show it (`RestInv`). That every such answer is current rests on the order of the
queue: an answer older than the index that is open has the reopen behind it
(`AnswerFresh`), and the reopen gives the lock back only when it arrives. From
this, `QuietShowsWhatIsOpen` and `AttributesCatchUp`.

`LifecyclePromiseProofs` has two results that need all of this.
`EveryWaitIsAnswered` is the safety part of `LockIsReleased`: whoever holds a
lock is under way, and what it awaits will come. Its invariant (`WaitInv`,
`LockWaits`) follows each job from the queue of the store to that of
completions; a job may be skipped only when its task was cancelled, and such a
task does not wait any more. That one completion ends one wait only is part of
`OpensInv`. `LifecycleImplementsBoard` is the refinement, one step per action.
It rests on `RowsInv`, on `AnswerFresh` (an answer on its way has something to
tell) and on `MetaFresh`: an object that has yet to be made has loaded no meta.
That the refinement is worth having is `BoardKeepsRowsTogether`: whatever
implements `Board` has `WindowMatchesRows` and `NeverOlderRows`.

**Selection** (`SelectionProofs`). Assumptions: the departures are finite, their
scan order is total and agrees with their instants, the page asked for is at
least the limit. A cut keeps an initial segment (`CutIsInitial`), keeps
everything if there is little enough (`CutKeepsFew`) and drops something
otherwise (`CutDropsMany`, by the pigeonhole theorem, since departures have
distinct numbers of predecessors). From these, `NothingSkipped`,
`UnflaggedIsComplete`, `FlaggedHasMore`, `ExhaustedHasNothing` and, comparing
two answers, `RowsStayUntilGone`. The invariant they rest on, `ShowsWhatItRead`,
is that `answer` is what a poll at `answer.now` makes of the index it read, and
that a list is on show only as long as it is that answer; with the type
invariant, `TypeCorrect`.

**Presenter** (`PresenterProofs`). Assumption: dates do not run backwards in any
zone. A label is a one-to-one function of the date once the present is fixed
(`SameLabelSameDate`), and one that does not decrease from today on; that no row
lies before the present is `NoGap`, which gives `LabelsFollowTheList` and
`DeparturesComeNearer`. No length of the day and no offset is assumed.

**Configuration** (`ConfigurationProofs`). Assumptions: bounds are natural
numbers, URLs are texts, texts are sequences of characters, and the comma and the
space are two different ones. `EntryFollowsConfiguration` rests on `Follows`, what each
phase of set-up has made of the watches as long as nothing was missed, and on the
form being that of a route, so that no update in place turns a route into
something else. `FeedsAreUnique` is that stripping twice is stripping once, for
texts of any length.

`ConfigurationTextProofs` is about `SplitIds` and `Joined`, which are folds, for
lists and texts of any length: the set of lengths at which a fold goes wrong has
no least member. Splitting yields identifiers (no comma, no space at either end,
not empty), from which the type of what is stored, `ConfigurationTypes`; and
splitting what was joined from such identifiers gives them back, from which
`FormsRoundTrip`.

Only model-checked: liveness, which is out of the prover's reach, that is
`ImportEnds`, `SettlesOnOffer`, `LeavesExtracting`, `LockIsReleased` and
`CatchesUp`. Every other property of a passing run is proved: the invariants,
the action properties and both refinements.

## 5. Where the code differs from what is said of it

Each is a run that finds the counterexample; the quotations are in
`PROJECT.json`.

* `OneWriter`: reload during a refresh, two threads write in one directory.
* `ShutdownCloses`: the connection is not closed on unload; the identity test
  in `_in_store` compares two bound methods.
* `StaleReadsEnd`: no backstop notices an index that another object's worker
  published.
* `RemovedForGood`: a worker of a removed entry keeps its directory in being.
* `ChangesAreLoaded`: a watch added or removed during set-up is not loaded; one
  removed then also keeps the watches behind it from getting their sensors.
* `RetainsData`: departures disappear from a watch that polls during an import,
  against S-95 (`coordinator.py` 134, `SPEC.md` 882); `KeepsUntilGone` is what
  holds, that they come back.

Read in the code and not made a run: after a crash between the promotion of the
feed and of the index, start-up downloads a feed it already has (`datasource.py`
159, `SPEC.md` 780); rows only the lookback found can use up the page and leave
nothing to show, depending on `over_fetch`, which is the library's
(`coordinator.py` 169, `tests/test_sensor.py` 208); `meta.generation` is counted
from the meta in memory and can repeat (`datasource.py` 469, `SPEC.md` 749); a
pair none of whose destinations is in the feed is answered with every departure
from the origin (`coordinator.py` 170-181); `route_id` is stored by the form and
used by nothing (`config_flow.py` 100, `SPEC.md` 808); a stop id with a comma is
split (`config_flow.py` 75, `SPEC.md` 814); the scheme of a URL is checked
without regard to case and the unique id compared with it, so `HTTP://x` is
accepted beside `http://x` (`config_flow.py` 130-136; `AddSource` does the same
and `UniqueSource` does not speak of it); `SPEC.md` 243 gives `day_label` a
parameter `ha_tz`, where code and model use the feed's zone, as Q-32 has it
(`presenter.py` 63, `SPEC.md` 803).

## 6. Not modelled

* The engine (`pygtfsie`), a separate package, except by what the code expects
  of it; its page flags as `SPEC.md` defines them.
* Texts: ISO instants, hh:mm, labels of routes, icons, names, translations,
  error messages. They are formatted or copied and nothing depends on them.
  `presenter.delay_strings` has no caller.
* Numbers of the forms (limits, minutes, hours): they pass through unchanged; the
  effect of those of a watch is in `Selection`.
* Device and entity registries, beyond the entities of a subentry.
* The progress file, the contents of the databases, `meta.generation`.
* Vicinity watches beyond being stored, and realtime: they do not exist yet.
* `scripts/` and the tests, which are no part of the program.

What could still be added:

1. A composition in which the refreshes of two objects take the steps of
   `Refresh` over the same files, to say what exactly two writers can and cannot
   do to them. The states of `refresh_safety` squared are beyond a short run;
   it takes an abstraction of `Refresh` with fewer stages first.
2. `Configuration` with the awaits of `Lifecycle`'s set-up in place of its own,
   to show one to implement the other.
