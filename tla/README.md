# TLA+ specifications of tuti-server

These modules specify the state-changing core of tuti-server: the step-driven
Snap & Solve flow, the stores behind it, the HTTP handlers that use them and the
life of the server process; one request on its way through middleware, routes
and the analysis; and the terminal client that drives it all. TLC checks small
instances; TLAPS proves every safety invariant that the runs check, for any number
of sessions, photos, handlers, calls and list entries.

    tlc -config SnapStoreRecords.cfg SnapStoreRecords.tla   # one run
    tlapm SnapStoreProofs.tla                               # the proofs of one component

`PROJECT.json` lists the runs, which source lines each definition stands for,
the hazards the properties are aimed at, one plausible bug per property (a
definition marked "Broken" in the modules) that the property catches, and the
places where code and documentation disagree.

## The system

tuti-server is one Go process that serves a mobile client. A student opens a
session, uploads a photo of a problem, and later sends an answer; a vision model
reads the photo and produces a worked problem or a diagnosis. A terminal client
(`tuti-tui`) drives the same API by hand.

| Component | State | Operations | What makes it correct |
|---|---|---|---|
| Snap session store (`internal/session`, `filestore`) | map id -> {step, capture} under a mutex; one JSON file per session | `NewSnapStore`, `Init`, `SubmitSnap`, `SubmitResponse` | a session goes awaitSnap -> awaitResponse -> done and never back; file before memory; each photo handed to the analysis at most once; state survives a restart; every call lets go of the mutex |
| Solve session store (same package) | set of ids under a mutex; one file each | `NewSolveStore`, `Create`, `Exists` | an id the student has been given is known, also after a restart |
| Capture store (`internal/storage/localfs`) | map id -> {type, time} under a mutex; one file of bytes each | `New`, `Save`, `Get`, `List` | an entry never points at half a photo; a listing is complete and newest first |
| HTTP handlers (`internal/httpapi`) | none of their own: what each request has read so far | `UploadScreenshot`, `ListCaptures`, `InitSnapSession`, `SubmitSnap`, `SubmitSnapResponse`, `CreateSession`, `AnalyzeAssets`, lessons, health, dev prompt | what a student was told holds across both stores; a status never says more or less than what was done; a handler ends or waits for the model |
| Process life (`cmd/server/main.go`) | serving, draining or down | start with rehydration, signal, `Shutdown` with ten seconds, exit | shutdown ends; start gives back what was durable |
| Analysis pipeline (`internal/analysis`) | none | `Extract`, `Evaluate`, draft validation and conversion, ids | every problem that leaves it is well formed whatever the model says |
| Model providers | none | `callStructured`, `callText` for Anthropic or OpenAI | an answer that is cut off, in text, or against the schema becomes an error, never a problem |
| Image type detection | none | sniffing, then the file's name | a type the model accepts, and that of the bytes if they show it |
| Catalog | static content in two languages | two look-ups, one with fallback | look-ups are total; what is suggested exists and fits the topic if it is an English one; a lesson is served in the language asked for, or English |
| Terminal client, update loop | focus, fields, busy flag, carried ids, history selection, the drawn panel | key presses, results of commands | one request at a time; a request is about the session shown; keys go where the screen says; what is replayed is what is shown |
| Terminal client, API and history | ring of the last twenty requests | calls with timeouts, replay | newest first, bounded, replay resends what was sent; what the client was told stays true though it gives up and tries again |
| Middleware and tracing | the status recorder of each request | CORS, recovery, spans | the trace has the status the client saw |
| Screen rendering, history panel | viewport: content, height, offset | synchronisation, scrolling, resizing | the entry that Enter replays is in view |
| Configuration, developer log, wire format, other rendering | none that is read back | | |

How they interact. Handlers run concurrently, one goroutine per request, and call
the stores directly. `SubmitSnap` saves the photo in the capture store first and
then moves the session, in two stores that do not know each other.
`SubmitSnapResponse` moves the session to done first, then loads the photo, then
calls the model. The session stores and the capture bytes are on disk; the
capture map is memory only. `main` rebuilds the session maps before it listens,
and at the end calls `http.Server.Shutdown` with a ten-second context, after
which the process leaves whatever its handlers were doing.

What is hard about it:

* files are replaced in place (`O_TRUNC`, then write), so each record has a
  moment in which it does not exist, and any of the system calls may fail;
* the process may stop between any two steps of any handler;
* duplicates: a double tap or a retry by hand after a 500 submits again, with
  another photo, to a session whose record may be ahead on disk;
* reads in one critical section used in a later one (`ListCaptures`, the capture
  id `SubmitResponse` returns);
* two stores with different lifetimes joined by an id;
* a model call with no bound against a shutdown with one;
* a client that gives up after ten seconds on a handler that goes on, over a
  network that may lose the request or the answer, and then retries or replays;
* chains of checks and calls with an early return by hand after each, and two
  hand-kept lists of what the model may write (the schema and the validation);
* in the client, a selection kept as an index into a list that other goroutines
  append to, a viewport whose offset outlives its content, and key handlers that
  rely on what other handlers left behind.

`PROJECT.json` lists these at their lines under "hazards".

## Modules

| Module | Models | Composes |
|---|---|---|
| `SnapRecord` | the session record, its three built forms, and which record may follow which | |
| `SnapFlow` | abstract: what the session store promises, without files, mutex or goroutines | `SnapRecord` |
| `SnapRecords` | abstract: what the server may assume of the session store: what callers were told, and what a start would find | `SnapRecord`; implements `SnapFlow` |
| `CaptureShelf` | abstract: what the server may assume of the capture store: which bytes are there, and which a look-up finds | |
| `SnapStore` | `session.SnapStore` with `filestore` and `os.WriteFile`, goroutines, crash, start | `SnapRecord`; implements `SnapFlow` |
| `SnapStoreRecords` | `SnapStore` with a history of what each file last held whole | extends `SnapStore`; implements `SnapRecords` |
| `CaptureStore` | `localfs.Store` with `UploadScreenshot` and `ListCaptures` | implements `CaptureShelf` |
| `TutiServer` | every handler that changes state or calls the model, all stores, the process | `SnapRecord`; moves as `SnapRecords` and `CaptureShelf` allow |
| `SnapClient` | one student's client with deadlines, lost requests and answers, retries and replays | extends `TutiServer` |
| `RequestHistory` | the bounded history of `api.Client` as operators | |
| `Terminal` | `tuti-tui`: every key and message of `Update`, the goroutines of its requests, deadlines, history and replay | `RequestHistory` |
| `HistoryPanel` | the history panel: its lines, the selected entry among them, the viewport | `RequestHistory` |
| `Catalog` | which lessons and practice problems there are, the shape of each lesson in both languages, and the look-ups | |
| `Analysis` | one analysis: the service's reply, what a provider takes from it, decoding, validation, conversion, the two handlers' answers | `Catalog` |
| `HttpEdge` | one request of any route: configuration, middleware, decoding, checks, calls in order, status and trace | `Analysis` |
| `MC_*` | symmetry sets and small sets of values for TLC | |
| `SnapStoreProofs`, `CaptureStoreProofs`, `TutiServerProofs`, `TerminalProofs`, `HistoryPanelProofs`, `AnalysisProofs` | theorems about the module each is named after | that module |
| `HttpEdgeProofs` | theorems about `HttpEdge` | `AnalysisProofs` |
| `SnapClientProofs` | theorems about `SnapClient` | `TutiServerProofs` |

### SnapStore

`sessions` is the map, `mu` the mutex, `disk` the directory, and `pc`, `args`,
`next` are where each goroutine is, the call it makes and its local record. The
actions follow the code line by line: `LockForSnap` and `LockForResponse` look a
session up under the mutex and build the next record; `OpenTruncate`,
`WriteBytes` and the close that `Commit` and `Saved` end are the system calls of
`os.WriteFile`; `SaveFails` is an error from any of them, after which the file is
untouched, torn or complete; `Commit` is `*sess = next` and the return. `Init`
has its own order: file first with no lock, then `Insert` under the lock. `Crash`
forgets everything but `disk`. `Start` is `NewSnapStore`, which decodes every
file; when one is torn only `StartRefused` is possible. It is also possible when
all are sound, for reads of the directory can fail.

Three variables are history: `drawn` (ids are eight random bytes; the model takes
them to be unique), `view` (the map, kept through a crash as what callers have
been told) and `grants` (how often a capture was handed out).

### SnapFlow

One call moves one session one step, while the service runs. A restart keeps each
session or completes the step that was under way. Nothing else: no step skipped,
none repeated, no photo swapped. `FlowSpec` of `SnapStore` and of `TutiServer`
is this specification under the mappings `flow <- view` and `serving <- "up"`
(for the server: not "down").

### SnapRecords and CaptureShelf

The server is modelled with each call of a store as one step. Two abstract
specifications say what entitles it to that, and stand between the stores and the
server. In `SnapRecords` a session is at a record its callers know (`view`); its file
was last whole with the record `durable`, which a write may take one step ahead
(`Save`), and is `torn` between the truncation and the last byte of a write, or for
good if that write fails (`Tear`). A call returns when the file is whole and level
(`Move`); a start takes `durable` for everything, and there is none while a file is
torn. In
`CaptureShelf` a capture is `stored` for good once all its bytes are there, and
`indexed` only then, until the process ends.

From below, `SnapStoreRecords` and `CaptureStore` implement them. A torn file does
not tell what it held before, so `SnapStoreRecords` adds `durable` to `SnapStore` as
history (`torn` is read off the disk); a start that a torn file refuses is a
stuttering step. From above, every
step of `TutiServer` is one of theirs or leaves them alone (`StoresSpec`). The solve
store is not among them: it is three sets, which `TutiServer` has itself.

### CaptureStore

`file` and `objects` are the directory and the map. `Save` is five steps (create,
write, stamp, index, answer), because other requests come between any two of
them and the time is taken outside the lock. A listing takes a snapshot of the
map and then reads one capture at a time, and one failed read fails the answer.
`ListCall` may return entries of equal time in any order: `sort.Slice` is not
stable and map iteration starts anywhere.

### TutiServer

A request is one record in `req` and one location in `pc`. A call of the session
store is a single step here, as `SnapRecords` allows. A write that fails
(`PersistFails`) leaves the file as it was, torn, or a step ahead of `view`; a torn
file, of either kind of session, changes nothing while the process runs, the next
write of the same session makes it whole, and until then no process starts
(`Loadable`, `StartRefused`). So the promise of a 200 is limited, and
`AcceptedPhotoKept` says how: the photo stays the session's in every process that
serves, and its file names it too, unless a failed write of the response tore it,
which can only be while the session awaits one. `AnalysedOnce` and `OpenedIsKnown`
say that what a finished response or an opened solve session left on disk is never
torn. The model (external) answers, fails or never
returns. `Shutdown` closes the door, `Drained` is the clean end, `DrainTimeout`
the end after ten seconds; `Crash` may come at any point.

### Terminal

`jobs` are the goroutines a `tea.Cmd` starts: each makes one request (`sent`),
whose end enters it into the history, and then has a message for `Update` (`ok`
or `error`), which `DeliverResult` or, for the health check of the start,
`DeliverHealth` handles. An id is the number of the request it was the answer to.
`panel` is what `syncHistoryViewport` last put into the viewport, so that a step
that forgets to call it shows. Keys are actions of their own; those that only
scroll, or that move within the file picker, are left out, and so is the check
for an empty form, which `SelectionsExist` shows is never needed.

### SnapClient

The client of `tuti-tui` makes one call at a time (`waiting`), as `Terminal`
shows, and remembers every request (`sent`) and how it ended (`outcome`). `GiveUp`
is its deadline or a broken connection; nothing tells the server, so the request
may still be in the `network` until `Deliver` brings it to a handler, and a handler
that is under way goes on. `Lose` is a request that never arrives; an `Answer`
nobody reads is one that came too late or was cut off. The server is `TutiServer`
itself, with its crashes, restarts and failed writes: the module extends it, and
`Deliver`, `Work`, `Answer` and `Process` take its actions. The student opens no
solve session, so the run has none of those. `replaying` tells a replay of `init`
from the command: only the command sets the session of the next requests. `owner`, `madeBy` and `about` are history: whose call a handler
serves, whose photo a capture holds, and whose photo an analysis is of.
`SnapAnswersStayTrue` says what a student who saw an error or a conflict may rely
on; `ResponseConflictHasCause` that a 409 to a response never comes out of
nowhere: the session being marked done before the model is asked costs the
student the analysis, but not without an error having been shown or a deadline
passed.

### HistoryPanel

`shown` is what `historyContent` was last made from, `yOffset` and `height` are the
viewport's. `SyncFrom` is `syncHistoryViewport`: content, then
`SetContent`'s correction of an offset beyond the end, then `SetYOffset` if the
selected entry is not all in view. Without a selected entry the code's `selStart`
and `selEnd` stay 0 and the panel goes back to its top, which the model keeps.
`Lines` is the running count `line`. `SelectedOnScreen` looks for the button among
the lines of the content instead of taking `SelectedLines`' word for where it is. `bubbles/viewport` (v1.0.0) is
external.

### Analysis, HttpEdge and Catalog

The pipeline keeps no state, so one request is the whole behaviour. The service
replies in one of the forms the two SDKs tell apart (`Replies`); the provider
makes of it an input that conforms to the schema (`strict`), one that may be
anything (`loose`: OpenAI is asked without strictness, and an answer of Anthropic's
may be cut off), or an error; the input
decodes to a draft, or does not; the draft is refused or shown. The `Valid...`
operators are the `Validate` methods and the `...ToProto` ones the conversions;
`DisplayAnalysis` and `AssetsResult` are what `buildDisplayAnalysis` and
`handleAnalyzeAssets` make of the result. The properties do not use the `Valid...`
operators: completeness is said of what the client receives, and "may be refused"
by converting the draft anyway and looking at what comes out. A field the model
leaves out is Go's zero value, which is among the values of its set.

`HttpEdge` puts that into a request. `Requests` are all methods and routes with a
body that cannot be read, and every combination of empty and filled fields with
one that can. Each handler is what it turns down with 400 and the calls it makes
afterwards, in order (`Handler`); `CallSucceeds` and `CallFails` take them one by
one, with the statuses of `writeSnapSessionError` and its like; a `Panic` may come
anywhere behind the middleware. `written` keeps every status line, so that a
missing return shows as a second one, and `recorded` and `span` are what tracing
believes. `effects` is what was done below the handler.

`Catalog` holds the ids, topics and shapes of three tables kept by hand
(`topics.go`, `lessons.go`, `problems.go`), so that the properties can compare
them. A topic is a word, and the Spanish lessons have words of their own
("geometry_es" is `Geometría`), which `topicGroups` does not have.

## Runs

| Run | Bounds | Shows |
|---|---|---|
| `snap_store` | 2 goroutines, 2 sessions, 2 photos, fair | `IndInv`, the inductive invariant of the proofs (as in the runs below that name it), which has `WriteAhead`: the file of a session is level with what callers were told, one step ahead, or torn; `AnalysedAtMostOnce`; that the store implements `SnapFlow` and, with its torn files and refused starts, `SnapRecords`; and `CallReturns`: every call returns, though the mutex is held across file system calls that may fail |
| `snap_failed_write` | 1, 1, 1 | finding: a failed write leaves a file that is not the last saved step |
| `snap_torn_start` | 1, 1, 1 | finding: one torn record, and the server does not start again |
| `captures` | 2 goroutines, 3 photos | `IndInv`; that the store implements `CaptureShelf` (no entry with half its bytes, no stored bytes lost); a listing misses no upload answered before it, repeats none and is newest first |
| `captures_all` | 1, 1 | finding: after a restart a listing leaves out earlier uploads |
| `server` | 2 goroutines, 1 snap and 1 solve session, 2 photos, asset lists of 1, fair | `IndInv`, `SessionPhotoStored`, `AcceptedPhotoKept`, `AnalysedOnce`, `OpenedIsKnown`; `StoresSpec`: that the server moves both stores as `SnapRecords` and `CaptureShelf` allow; and `DrainEnds` and `HandlersEnd`, with no assumption that the model answers |
| `snap_client` | 4 calls, 2 handlers, 2 sessions, 2 files, 3 captures | `SnapAnswersStayTrue`, `ResponseConflictHasCause`, `NeverNotFound`, `AnalysisIsOfOwnPhoto`: what a client was told holds through lost requests and answers, deadlines, retries, replays, failed writes and restarts |
| `server_restart` | 1, 1, 1, 1 | finding: a session that awaits its response across a restart cannot be given one |
| `terminal` | 6 commands, 3 requests, history of 2, fair | `IndInv`, `OneCallAtATime`, `InFlightIsCurrent`, `SelectionsExist`, `KeysReachShownField`, `PanelIsCurrent`, and `WithDeadlineEnds`: a replay, or any call but the three that reach the model, does not keep the screen busy for ever |
| `terminal_panel` | 1 command, 1 request | finding: the panel shows another entry than Enter replays |
| `history_panel` | history of 3, entries of 2 sizes, windows of 3 heights | `SelectedOnScreen`, `ButtonTellsBusy`: what Enter replays is in view, and the panel says when it cannot be pressed |
| `request` | every route and method; 3 topics (2 English, 1 Spanish), 4 kinds, 3 difficulties, lists up to 2; 4 sniffed types, 4 extensions; 3 environments | every small draft: `AnswerIsComplete`, `ShownAsDrafted`, `RefusedOnlyIfUnshowable`, `StrictRefusalIsForEmptiness`, `SuggestionsFit`; every request: `IndInv`, `TraceTellsAnswer`, `StatusTellsEffect`, `StoredTypeIsTrue`, `LessonServed` |

Why the bounds are enough. Sessions share only the mutex, so two of them show all
interference between different ids, and two photos tell "kept" from "replaced".
Two goroutines give every pairwise race, and no step of one waits for more than
one other. The safety invariants have proofs that need no bound; for them these
are the instances in which TLC would have shown a false one. In `captures`, three
photos let a listing meet one answered, one being indexed and one not yet begun.
In `snap_client`, four calls let a session be opened, a photo be lost or refused
and tried again, and the response be given; two handlers let one that was given up
overlap the next, and three captures let both tries and a replay have one.
The invariant that the proofs about `SnapClient` use is `ClientIndInv`, which holds
in the same state space when it is added to `SnapClient.cfg`; the four properties
of the run are its parts. Likewise the `IndInv` of `HistoryPanel`, from which the two
properties of `history_panel` follow, holds when it is added to `HistoryPanel.cfg`;
so do `HolderRuns`, `CallsGoForward` and `DurableIsWhole` in `SnapStoreRecords.cfg`, and `FlowSpec` and, with `MaxAssets = 2`, `HandlersGoForward`
in `TutiServer.cfg`.
Histories stay finite because ids are fresh: `drawn` ends the number of photos
and sessions, the clock of `CaptureStore` ticks once per upload, and `grants` and
`analysed` count moves that a session makes at most once. Crashes and restarts
are not bounded. The bounds are `MaxAssets`, `MaxCalls`, `MaxLen` and `Heights`. In `request`,
lists of two show whether a loop looks past its first entry; the contents of a
step end at one block, since steps themselves come in pairs. In `terminal`, three
requests let a session be opened, used and the use replayed, with the health check
of the start as a fourth entry, twice what the history of two holds
(`maxHistoryEntries` is 20). The six commands have every kind of parameter list
and both kinds of deadline. In `history_panel`, viewports of 5, 6 and 11 lines
against selected entries of 6 and 13 give every case of fitting: always with room
for more, exactly, and not. Deadlock is checked in every run but those of
`Terminal`, whose user may quit, and `request`, which ends with its answer.

### Fairness

`SnapStore!Fairness` is weak fairness of a goroutine's own steps (the scheduler
runs what can run; a file system call returns, with an error or without) and
strong fairness of taking the mutex: `sync.Mutex` goes into starvation mode and
hands itself over once a waiter has waited a millisecond. `TutiServer!Fairness`
is weak fairness of a handler's own steps and of the end of `Shutdown`, whose
context has a ten-second timer. Nothing makes a client call, a signal arrive, the
model answer, or a process start; `HandlersEnd` accordingly ends at "idle" or
"analyzing".
`Terminal!Fairness` lets deadlines pass and messages be handled, and no more.

## Proofs

Each theorem holds for all values of the constants, sets finite or not, under the
assumptions that the modules name. They say of the constants what the code does:

* a sentinel is none of the values it stands beside (`NoCaptureAssumption`,
  `NoCallerAssumption`, `NoSessionIDAssumption`);
* a bound is a number, of any size (`MaxAssetsAssumption`, `MaxCallsAssumption`,
  `MaxLenAssumption`; `MaxHistoryAssumption` also that there is room for one
  entry);
* a window's height is a number (`HeightsAssumption`), and the texts of an entry
  have at least one line each, as `strings.Split` gives them (`EntryAssumption`);
* the menu has the health check and only commands with a list of parameters
  (`CommandsAssumption`); an environment gives its two settings a string each
  (`EnvironmentsAssumption`).

| Module | Theorem | States |
|---|---|---|
| `SnapStoreProofs` | `Invariance`, `TypeCorrect` | `Spec => []IndInv`, `Spec => []TypeOK` |
| | `PersistBeforeCommit` | `Spec => []WriteAhead` |
| | `NoSecondAnalysis` | `Spec => []AnalysedAtMostOnce` |
| | `Refinement` | `Spec => FlowSpec` |
| | `RecordsRefinement` | `RecordedSpec => RecordsSpec`: the store implements `SnapRecords` |
| | `RecordsAreFlow` | `RecordsSpec => FlowSpec`: `SnapRecords` implements `SnapFlow` |
| | `NoDeadlock`, `Forward` | `Spec => []HolderRuns`, `Spec => CallsGoForward` |
| `CaptureStoreProofs` | `Invariance`, `TypeCorrect` | `Spec => []IndInv`, `Spec => []TypeOK` |
| | `BytesBeforeIndex` | `Spec => []IndexedHasBytes` |
| | `CompleteListing` | `Spec => []ListsWhatWasAnswered` |
| | `OrderedListing` | `Spec => []ListsNewestFirst` |
| | `ShelfRefinement` | `Spec => ShelfSpec`: the store implements `CaptureShelf` |
| `TutiServerProofs` | `Invariance`, `TypeCorrect` | `Spec => []IndInv`, `Spec => []TypeOK` |
| | `PhotoBeforeSession` | `Spec => []SessionPhotoStored` |
| | `NoAcceptedPhotoLost` | `Spec => []AcceptedPhotoKept` |
| | `OneAnalysis` | `Spec => []AnalysedOnce` |
| | `OpenedStaysKnown` | `Spec => []OpenedIsKnown` |
| | `Refinement` | `Spec => FlowSpec` |
| | `StoresRefinement` | `Spec => StoresSpec`: both stores move as `SnapRecords` and `CaptureShelf` allow |
| | `Forward` | `Spec => HandlersGoForward` |
| `SnapClientProofs` | `ServerIsTutiServer` | `ClientSpec => Spec` |
| | `ClientInvariance` | `ClientSpec => []ClientIndInv` |
| | `SubmittedStays` | `ClientSpec => []SnapAnswersStayTrue` |
| | `ConflictsHaveCause` | `ClientSpec => []ResponseConflictHasCause` |
| | `GivenIsFound` | `ClientSpec => []NeverNotFound` |
| | `OwnAnalysis` | `ClientSpec => []AnalysisIsOfOwnPhoto` |
| `TerminalProofs` | `HistoryKeepsNewest` | what `Recorded` keeps of a history |
| | `Invariance`, `TypeCorrect` | `Spec => []IndInv`, `Spec => []TypeOK` |
| | `SingleCall`, `CurrentSession` | `OneCallAtATime`, `InFlightIsCurrent` |
| | `ValidSelections`, `KeysGoWhereShown` | `SelectionsExist`, `KeysReachShownField` |
| | `CurrentPanel` | `Spec => []PanelIsCurrent` |
| | `SettledPanel` | `Spec => [](panel.settled => ShownIsReplayed)` |
| `HistoryPanelProofs` | `FlattenLines` | which line of which block is where in the joined lines |
| | `ButtonLine` | the button is in the second line `SelectedLines` gives, and nowhere else |
| | `Invariance` | `Spec => []IndInv` |
| | `SelectedIsShown`, `OneButton` | `SelectedOnScreen`, `ButtonTellsBusy` |
| `AnalysisProofs` | `ValidIsShowable` | the validation accepts what the conversions keep whole, and no more |
| | `ConformingIsValid` | what has the schema's shape and no gap passes the validation |
| `HttpEdgeProofs` | `Invariance` | `EdgeSpec => []IndInv` |
| | `TracedAnswer`, `TrueStatus`, `TrueType` | `TraceTellsAnswer`, `StatusTellsEffect`, `StoredTypeIsTrue` |
| | `CompleteAnswer`, `FaithfulAnswer` | `AnswerIsComplete`, `ShownAsDrafted` |
| | `NeededRefusal`, `SchemaIsEnough` | `RefusedOnlyIfUnshowable`, `StrictRefusalIsForEmptiness` |
| | `FittingSuggestions`, `WholeLesson` | `SuggestionsFit`, `LessonServed` |

All are laid out alike: one lemma per action, or per group of actions that do the
same to the invariant, with one step per conjunct the action can disturb; `IndInit`
and `IndStep` put them together; the properties follow from the invariant. What
the invariants have beyond the properties, and why:

**SnapStore.** `AnalysedAtMostOnce` and `WriteAhead` are not inductive on their own.
A submission reads a record, makes three system calls and only then publishes what
it built, so the invariant has to say that what it read is still current when it
gets there. `IndInv` is `TypeOK` and `Protocol`, with these parts:

* `MutexHeld`: the mutex is held by exactly the submission that is between its
  look-up and its return; hence `OneWriterPerFile`, together with `OnlyDrawn`
  (an `Init` under way has an id nobody else can name in a look-up that
  succeeds);
* `NextIsSuccessor`: what a persisting call holds is the successor of the record
  its session is at *now*, and its file is torn or holds that record, depending
  on how far the call is;
* `MemoryFollowsPhase`: the map is what callers were told, or there is no
  process;
* `PhotoFromSubmission` and `GrantedIsDone`: a photo has been handed out only of
  a session that is done, which no step of the flow leaves; with
  `NextIsSuccessor` this gives `AnalysedAtMostOnce`.

Crash and start keep it because `WriteAhead` says of every file that decodes that
it holds the current record or its successor. `Refinement` maps `Commit` and
`Insert` to `Advance`, `Crash` to `Stop`, `Start` to `Resume` and all else to
stuttering. `RecordsRefinement` also tells the writes apart: one that makes a file
whole is `Save`, one that tears it changes nothing, since `durable` keeps what the
file held (`RecordedInv`). `RecordsAreFlow` needs `RecordsInv`, that `durable` is `view` or
its successor, so that `Start` is `Resume`.

**CaptureStore.** That a listing is in order although the clock is read outside the
lock needs the whole life of a time stamp: `TimesArePast`, and `LaterIsNewer`, which
says of an upload that began after another was answered that its time *is* later
once it is in the map, and *will be* while it is still on its way. That it is
complete although it reads one file at a time needs `ListingIsWhole`: what has been
read and what is still to be read make up the map the listing began with.
`SavedByOne` (an id belongs to one upload, whose file is whole before the map names
it) gives `IndexedHasBytes`. That the map is finite, so that there is a listing at
all, is proved and not assumed: each step draws one id. `ShelfRefinement` adds
`FilesInv`: the file of an id is not there until the save that drew the id creates
it, so that no creation truncates stored bytes, and there is no map without a
process.

**TutiServer.** A handler reads in one step and acts in later ones, so the invariant
has a fact for each place a handler may be at: `OpenedByOne` (what `Init` is about to
write, nobody else touches), `PhotoHandedOver` (a handler comes to the session with
a photo that is stored, and answers only when the session has it), `LoadsOnce` (one
handler at a time is about to load a session's photo, which nobody has loaded),
`SolveHandedOver` (on disk, then known, then answered), `CreatedByOne` (the file of a
new solve session is nobody else's, and not there yet). `WriteAhead`,
`PhotoFromSubmission`, `AnalysedIsDone`, `AcceptedLasts` and `OpenedLasts` carry these
through failed writes and restarts, as facts about the last whole record;
`TornOnTheWay` says when that is not what the file holds: never after the last
record of a session, and not when `Init` puts it into the map. `IndMove` is the lemma about all moves of a session. `Refinement` maps a
move of the view to `Advance`, and the end and the start of a process to `Stop` and
`Resume`. `StoresRefinement` has two halves, one for each store; that for the captures
needs `ShelfInv`: a handler about to add a capture to the map has its bytes, and there
is no map while the process is down.

**SnapClient.** Every step of client and network is a step of the server or leaves
it alone (`ServerIsTutiServer`), so `TutiServer!IndInv` comes for free, and what is
left relates the two sides. `OneHandlerPerRequest`, `HandlesItsRequest` and
`OutcomeInTime` say where a request can be: on the network, with one handler, or
gone, and that a client cannot have been told an outcome other than its own
deadline before the handler ended. `IdsAreKnown` is what `NeverNotFound` needs:
every id the client may come to name is in the map. `MadeByOne` and
`SessionPhotoIsSubmitted` tie the photo a session holds to the call that brought it,
and exclude that this call was turned down; hence `SnapAnswersStayTrue`, also for
an answer nobody heard. `DoneByResponse` is the heart of `ResponseConflictHasCause`:
some response took the session, was not turned down, and is not on its way any
more. `TakenOnce` is that of `AnalysisIsOfOwnPhoto`. `AnswersStay` shows that
whatever was true of an answer stays true in every later step, `HeardIsTrue` that it
is true when it is heard.

**Terminal.** The properties are nearly inductive together. Missing are `FieldsFit` and
`FirstInputWaits` (what the form looks like while the focus is elsewhere, on which
Enter in the menu relies), `StartupIsHealth` (the health check of the start changes
nothing but the history), and `SettledForGood`. `SettledPanel` limits the
disagreement 5 below: once that check has been recorded and the panel drawn, Enter
replays what is shown.

**HistoryPanel.** `ContentIsOfSelection` says that while the focus is on the panel, its
content was made with this selection and busy flag and has that entry, although the
history goes on growing behind it; `SelectedInView`, that the lines
`SelectedLines` gives for it are in view, from the first one; `RoomForButton`, that
every window leaves room for two. `OffsetFacts` is the arithmetic of
`syncHistoryViewport` for any offset, height and content. What is left is that
`SelectedLines`, a running count kept beside the loop that makes the blocks, is
where the joined blocks have the entry (`FlattenLines`, `ButtonLine`). That is an
induction over the list, for which the library's rules, with an operator as
parameter, cannot be used: `SetInduction` is one for a set of numbers, from the
least number outside it, which `WFMin` gives.

**Analysis and HttpEdge.** `DraftFits` and `AnswerFits` say that an answer is a
failure, of no draft or an invalid one, or the conversion of a valid one. What that
means to a client is `ValidIsShowable`: for lists of any length, `Validate` accepts a
problem exactly if the conversion to the wire format loses nothing of it and the
result has no gap. The two were written by hand, one loop at a time.
`ConformingIsValid` says the same of the schema, the third such list.
In a request, `CallsInOrder` says that a handler is through with a beginning of its
calls and that the effects are theirs; `StatusTellsEffect` follows when it ends.
`PhotosCount` is for the analysis of assets, and `NothingYet` for the middleware.
`Suggestions` follows a topic of any spelling through the four hand-kept tables of
the catalog (`CatalogTopics`, `TopicGroupFacts`, `GroupsFit`), and shows that the words
with a group are exactly the topics of the English lessons; `LessonIsAnswer` ties
the lesson served to the request, and `LessonsSound` looks at each lesson.

### Only model-checked

* Liveness under fairness: `CallReturns`, `DrainEnds`, `HandlersEnd` and
  `WithDeadlineEnds` are beyond the prover. What of the first and the third does not
  depend on who is run when is proved: a call of `SnapStore` and a handler of
  `TutiServer` are only taken forward, each step lowering a number (`Forward`), and
  who waits for the mutex waits for somebody who waits for nobody (`NoDeadlock`).
  What is left to TLC is that a step which is possible is taken in the end.
* That the five disagreements below happen: a run shows it, nothing is to be proved.

## Where code and documentation disagree

1. `session.go:151-153` says a failed write leaves the session at its last saved
   step. `os.WriteFile` truncates first, so a failed write leaves memory there,
   but the file empty, cut short, or already ahead (`snap_failed_write`).
2. "State survives a restart" (`session.go:5-6`): a process that stops between
   truncation and write leaves a file that refuses every later start, with all
   other sessions (`snap_torn_start`).
3. `ListCaptures` promises "all previously uploaded captures"; the map it lists
   starts empty with each process (`captures_all`).
4. The session outlives the process and the capture map does not: a session that
   awaits its response is marked done by `SubmitSnapResponse`, and only then is
   its capture not found (`server_restart`).
5. `update.go:336-341` says the history panel is redrawn whenever the entry list
   changes. A health check of the start that ends while the panel is open changes
   the list and redraws nothing, and Enter then replays an entry other than the
   one shown as selected (`terminal_panel`).

Seen while modelling and not given a run:

* the key table of `tuti-tui/README.md` says Enter on a file field opens the file
  picker, but `handleFormKey` runs the command on Enter in every field;
* `schema.go` calls `Validate` the backstop for "empty required text", yet no
  block is asked for the text, expression or hint of its kind: a statement of one
  empty block is accepted. The schema itself calls these fields optional, so this
  is a gap rather than a contradiction;
* `image.go:10-12` falls back to the file extension "when DetectContentType
  returns the generic application/octet-stream"; the code falls back for every
  type it does not support, so that a bitmap named `.png` is stored, and later
  sent to the model, as PNG; the file picker of `tuti-tui` in turn offers `.bmp`
  and `.heic`, which the server refuses;
* `config.go:41` says `MaxUploadBytes` "caps the size of a single capture upload",
  but `readProto` caps the JSON body with it, in which the photo is base64 and so
  a third larger;
* after Esc the history panel goes on showing the Replay button of the entry that
  was selected, until something else redraws it; nothing is selected by then;
* the developer log has one file per provider call, but an input that is not JSON
  (an answer that was cut off) cannot be embedded in it, and no file is written;
  answers that fail to decode or to validate leave no error file either;
* beside a problem whose topic is the Spanish word of the catalog itself
  (`lessons.go:106,213,307,398,482`: `Álgebra`, `Geometría`, ...), algebra is suggested,
  for `topicGroups` has the English words only; `prompts.go:25-26` asks the model for
  those, so this happens only when it answers in the language of the page;
* `topRowHeight` is called a "shared height budget", but a form with many fields
  is higher than it;
* the wire example in the README nests a block's content one level deeper than
  the client's types do.

Writing to a temporary file and renaming it would settle 1 and 2; reading the
directory in `localfs.New` would settle 3 and 4; a call of
`syncHistoryViewport` in `Update` settles 5.

## Not modelled

* Power loss: a crash stops the process, not the machine; no call syncs, and
  nothing in the repository promises more.
* A wall clock that is set back: `UploadedAt` loses its monotonic reading in
  `.UTC()`, so a listing follows such a clock.
* Id collisions (64 random bits) and the errors of `newID` and `json.Marshal`,
  which return before anything has changed.
* In `TutiServer`, malformed requests, lessons, health and the developer prompt:
  they change no state, and `HttpEdge` has them. There, which of `Extract` and
  `Evaluate` a response selects is not told apart, as both take the photo once;
  `Analysis` does.
* Vendor SDKs, `http.ServeMux` beyond its 404 and 405, and `bubbles/viewport` are
  external: what they return or do is taken from how the code uses them.
* Prompts, log lines, the developer log, generated code and JSON conversion (with
  `writeProto`'s own marshal error), texts of lessons, styles, widths, and the
  screen's other regions, which are drawn afresh from the model each time.

## What is left

Every component with behaviour of its own is modelled, and every safety property
that a run checks is proved. Not done:

* an abstract panel that `HistoryPanel` and `Terminal` both implement. Each has the
  selection, the history and what the panel was last drawn from, the one with the
  window and without forms, the other with forms and without the window; that they
  agree comes from reading `syncHistoryViewport` twice;
* the safety half of `DrainEnds` and `WithDeadlineEnds`. Both wait for a timer, and
  a timer is a fairness assumption here: nothing is left to prove without it.
