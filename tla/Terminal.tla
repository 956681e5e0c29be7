------------------------------ MODULE Terminal ------------------------------
(***************************************************************************)
(* tuti-tui: the Bubble Tea model with its update loop, and the API client *)
(* behind it.                                                              *)
(*                                                                         *)
(* Update handles one message at a time: a key, or what a command brought. *)
(* A command is a goroutine that makes one request and ends in one         *)
(* message; the request is entered into the client's history when its      *)
(* round trip ends, which is before the message is handled.  The health    *)
(* check that Init starts is such a goroutine too, and the only one that   *)
(* does not make the model busy.  What the server does is external: it     *)
(* answers with an id or an error, or not at all.                          *)
(*                                                                         *)
(* Indices start at 1.  A field is empty or filled; which of its choices a *)
(* choice field is at, layout, status and log lines are left out.          *)
(***************************************************************************)
EXTENDS RequestHistory

CONSTANTS
  Commands,   \* the commands of commandCatalog that the menu shows
  MaxCalls    \* bound: how many requests the user makes

\* commandCatalog, by the kinds of the parameters.
Params ==
  [health    |-> <<>>,
   init      |-> <<>>,
   snap      |-> <<"file">>,
   respond   |-> <<"choice">>,
   upload    |-> <<"file">>,
   captures  |-> <<>>,
   session   |-> <<>>,
   analyze   |-> <<"text">>,
   lesson    |-> <<"text", "text">>,
   devprompt |-> <<"text">>,
   clear     |-> <<>>]

\* The health check is first, and so selected at the start.
ASSUME CommandsAssumption == Commands \subseteq DOMAIN Params /\ "health" \in Commands

ASSUME MaxCallsAssumption == MaxCalls \in Nat

VARIABLES
  menu,            \* the selected command
  fields,          \* which of its fields have a value
  fieldI,          \* the field the form is at
  listening,       \* the fields whose input takes keys
  pickerTarget,    \* the field a picked file goes to
  focus,           \* which region takes keys
  historyIdx,      \* the selected entry, newest first
  panel,           \* what the history viewport was last given
  busy,
  snapSessionID, solveSessionID, lastCaptureID,
  quitting,
  history,         \* Client.history, oldest first
  jobs,            \* the goroutines under way
  made             \* how many requests the user has made

ui == <<menu, fields, fieldI, listening, pickerTarget, focus>>
ids == <<snapSessionID, solveSessionID, lastCaptureID>>
vars == <<ui, historyIdx, panel, busy, ids, quitting, history, jobs, made>>

\* An id is the number of the request it was the answer to.
NoId == 0
Id == 0..MaxCalls

\* `of` is the request whose bytes it sends: itself, or the one it replays.
\* `session` is the id the request carries, if it carries one.
Job ==
  [n : Id, rpc : DOMAIN Params, of : Id, session : Id, replay : BOOLEAN,
   stage : {"sent", "ok", "error"}]

Entry == [rpc : DOMAIN Params, of : Id, session : Id]

EntryOf(j) == [rpc |-> j.rpc, of |-> j.of, session |-> j.session]

\* The health check that Init starts, which Update tells from any other.
StartupCheck ==
  [n |-> 0, rpc |-> "health", of |-> 0, session |-> NoId, replay |-> FALSE,
   stage |-> "sent"]

IsStartup(j) == j.n = 0

StartupUnderWay == StartupCheck \in jobs

TypeOK ==
  /\ menu \in Commands
  /\ fields \in Seq(BOOLEAN)
  /\ fieldI \in Nat \ {0} /\ pickerTarget \in Nat \ {0}
  /\ listening \subseteq DOMAIN fields
  /\ focus \in {"menu", "form", "picker", "history"}
  /\ historyIdx \in Nat \ {0}
  /\ panel \in [entries : Seq(Entry), selected : Nat, settled : BOOLEAN]
  /\ busy \in BOOLEAN /\ quitting \in BOOLEAN
  /\ snapSessionID \in Id /\ solveSessionID \in Id /\ lastCaptureID \in Id
  /\ history \in Seq(Entry) /\ Len(history) <= MaxHistory
  /\ jobs \subseteq Job
  /\ made \in Id

-----------------------------------------------------------------------------
Kind(i) == Params[menu][i]

\* newFormField: everything is empty but the language, which has a default;
\* a choice field always has a value.
FieldsFor(c) ==
  [i \in DOMAIN Params[c] |->
     Params[c][i] = "choice" \/ (c = "lesson" /\ i = 2)]

\* The fields of a command that textinput would be focused on at i.
InputAt(c, i) ==
  IF i \in DOMAIN Params[c] /\ Params[c][i] # "choice" THEN {i} ELSE {}

\* syncHistoryViewport, with the values the model has after the step.
\* `settled` is history: the startup check had been recorded by then.
SyncPanel ==
  panel' = [entries  |-> EntriesNewestFirst(history'),
            selected |-> IF focus' = "history" THEN historyIdx' ELSE 0,
            settled  |-> StartupCheck \notin jobs']

Init ==
  /\ menu = "health"
  /\ fields = FieldsFor(menu)
  /\ fieldI = 1 /\ pickerTarget = 1
  /\ listening = InputAt(menu, 1)
  /\ focus = "menu"
  /\ historyIdx = 1
  /\ panel = [entries |-> <<>>, selected |-> 0, settled |-> FALSE]
  /\ busy = FALSE
  /\ snapSessionID = NoId /\ solveSessionID = NoId /\ lastCaptureID = NoId
  /\ quitting = FALSE
  /\ history = <<>>
  /\ jobs = {StartupCheck}
  /\ made = 0

-----------------------------------------------------------------------------
\* Broken: keys go through while an answer is awaited.
KeyAlways(f) == ~quitting /\ focus = f

\* handleKey: but for ctrl+c, keys are dropped while the model is busy.
Key(f) == ~quitting /\ ~busy /\ focus = f

\* The session id a command's request carries.
SessionOf(c) ==
  CASE c \in {"snap", "respond"} -> snapSessionID
    [] c = "analyze" -> solveSessionID
    [] OTHER -> NoId

\* run's checks of what a command needs before it can be sent.  The language
\* of a lesson may be empty.
Ready(c) ==
  /\ c \in {"snap", "upload", "lesson", "devprompt"} => fields[1]
  /\ c \in {"snap", "respond", "analyze"} => SessionOf(c) # NoId
  /\ c = "analyze" => fields[1] \/ lastCaptureID # NoId

Launch(j) ==
  /\ made < MaxCalls
  /\ made' = made + 1
  /\ jobs' = jobs \cup {j}
  /\ busy' = TRUE

\* runNow with a command for the network.
Send ==
  /\ menu # "clear" /\ Ready(menu)
  /\ Launch([n |-> made + 1, rpc |-> menu, of |-> made + 1,
             session |-> SessionOf(menu), replay |-> FALSE, stage |-> "sent"])
  /\ UNCHANGED <<ui, historyIdx, panel, ids, quitting, history>>

\* runNow with an immediate result: "clear", or something is missing.
RunHere ==
  /\ menu = "clear" \/ ~Ready(menu)
  /\ UNCHANGED <<ui, historyIdx, busy, ids, quitting, history, jobs, made>>
  /\ SyncPanel

RunNow == Send \/ RunHere

Ui(m, f, i, l, p, fo) ==
  /\ menu' = m /\ fields' = f /\ fieldI' = i /\ listening' = l
  /\ pickerTarget' = p /\ focus' = fo

UnchangedButUi == UNCHANGED <<historyIdx, panel, busy, ids, quitting, history, jobs, made>>

-----------------------------------------------------------------------------
\* handleMenuKey.
MenuSelect(c) ==
  /\ Key("menu") /\ c # menu
  /\ Ui(c, FieldsFor(c), 1, InputAt(c, 1), pickerTarget, "menu")
  /\ UnchangedButUi

MenuEnter ==
  /\ Key("menu")
  /\ IF Params[menu] = <<>>
     THEN RunNow
     ELSE /\ Ui(menu, fields, 1, listening \cup InputAt(menu, 1), pickerTarget, "form")
          /\ UnchangedButUi

\* Broken: the panel can be entered while it is empty.
MenuTabAlways ==
  /\ Key("menu")
  /\ focus' = "history" /\ historyIdx' = 1
  /\ UNCHANGED <<menu, fields, fieldI, listening, pickerTarget,
                 busy, ids, quitting, history, jobs, made>>
  /\ SyncPanel

MenuTab ==
  /\ Key("menu") /\ history # <<>>
  /\ focus' = "history" /\ historyIdx' = 1
  /\ UNCHANGED <<menu, fields, fieldI, listening, pickerTarget,
                 busy, ids, quitting, history, jobs, made>>
  /\ SyncPanel

-----------------------------------------------------------------------------
\* handleFormKey.
FormLeave ==
  /\ Key("form")
  /\ Ui(menu, fields, fieldI, listening \ {fieldI}, pickerTarget, "menu")
  /\ UnchangedButUi

\* Broken: the field that is left goes on taking keys.
FormMoveNoBlur(i) ==
  /\ Key("form") /\ i \in DOMAIN fields
  /\ Ui(menu, fields, i, listening \cup InputAt(menu, i), pickerTarget, "form")
  /\ UnchangedButUi

\* Tab and shift+tab; past the last or the first field they lead to the menu,
\* which FormLeave is.
FormMove(i) ==
  /\ Key("form") /\ i \in DOMAIN fields
  /\ Ui(menu, fields, i, (listening \ {fieldI}) \cup InputAt(menu, i),
        pickerTarget, "form")
  /\ UnchangedButUi

FormTab == (fieldI = Len(fields) /\ FormLeave) \/ FormMove(fieldI + 1)

FormShiftTab == (fieldI = 1 /\ FormLeave) \/ FormMove(fieldI - 1)

\* Every other key goes to the input of the field the form is at, which ignores
\* it unless it is focused.
FormType ==
  /\ Key("form") /\ Kind(fieldI) # "choice" /\ fieldI \in listening
  /\ \E filled \in BOOLEAN :
       Ui(menu, [fields EXCEPT ![fieldI] = filled], fieldI, listening,
          pickerTarget, "form")
  /\ UnchangedButUi

FormRun == Key("form") /\ RunNow

OpenPicker ==
  /\ Key("form") /\ Kind(fieldI) = "file"
  /\ Ui(menu, fields, fieldI, listening \ {fieldI}, fieldI, "picker")
  /\ UnchangedButUi

\* handlePickerKey: esc, and enter on a file.
PickerCancel ==
  /\ Key("picker")
  /\ Ui(menu, fields, fieldI, listening \cup InputAt(menu, fieldI),
        pickerTarget, "form")
  /\ UnchangedButUi

PickerSelect ==
  /\ Key("picker")
  /\ Ui(menu, [fields EXCEPT ![pickerTarget] = TRUE], pickerTarget,
        listening \cup InputAt(menu, pickerTarget), pickerTarget, "form")
  /\ UnchangedButUi

-----------------------------------------------------------------------------
\* handleHistoryKey.
HistoryLeave ==
  /\ Key("history")
  /\ Ui(menu, fields, fieldI, listening, pickerTarget, "menu")
  /\ UnchangedButUi

HistorySelect(i) ==
  /\ Key("history")
  /\ historyIdx' = i
  /\ UNCHANGED <<ui, busy, ids, quitting, history, jobs, made>>
  /\ SyncPanel

HistoryUp == HistorySelect(IF historyIdx > 1 THEN historyIdx - 1 ELSE historyIdx)

HistoryDown ==
  HistorySelect(IF historyIdx < Len(history) THEN historyIdx + 1 ELSE historyIdx)

\* The entry is taken from the history as it is now, and sent as it was.
HistoryReplay ==
  /\ Key("history") /\ historyIdx \in 1..Len(history)
  /\ LET e == EntriesNewestFirst(history)[historyIdx]
     IN Launch([n |-> made + 1, rpc |-> e.rpc, of |-> e.of,
                session |-> e.session, replay |-> TRUE, stage |-> "sent"])
  /\ UNCHANGED <<ui, historyIdx, ids, quitting, history>>
  /\ SyncPanel

\* ctrl+c, busy or not.
Quit ==
  /\ ~quitting
  /\ quitting' = TRUE
  /\ UNCHANGED <<ui, historyIdx, panel, busy, ids, history, jobs, made>>

-----------------------------------------------------------------------------
\* applySize.
Resize ==
  /\ ~quitting
  /\ UNCHANGED <<ui, historyIdx, busy, ids, quitting, history, jobs, made>>
  /\ SyncPanel

\* A round trip ends, in an answer, an error, or the call's deadline, and
\* Client.do records it.
Ends(j, how) ==
  /\ j.stage = "sent"
  /\ jobs' = (jobs \ {j}) \cup {[j EXCEPT !.stage = how]}
  /\ history' = Recorded(history, EntryOf(j))
  /\ UNCHANGED <<ui, historyIdx, panel, busy, ids, quitting, made>>

Answered(j) == Ends(j, "ok") \/ Ends(j, "error")

\* Broken: a replay has the deadline of the call it repeats.
HasDeadlineOfOriginal(j) == j.rpc \notin {"respond", "analyze", "devprompt"}

\* The calls that reach the model have no deadline, unless they are replays.
HasDeadline(j) == j.replay \/ j.rpc \notin {"respond", "analyze", "devprompt"}

TimesOut(j) == HasDeadline(j) /\ Ends(j, "error")

\* SubmitSnap and UploadScreenshot read the photo first; when that fails there
\* is no request and no entry.
PhotoUnreadable(j) ==
  /\ j.stage = "sent" /\ j.rpc \in {"snap", "upload"} /\ ~j.replay
  /\ jobs' = (jobs \ {j}) \cup {[j EXCEPT !.stage = "error"]}
  /\ UNCHANGED <<ui, historyIdx, panel, busy, ids, quitting, history, made>>

\* Broken: the health check's result is handled like any other.
DeliverHealthAsResult(j) ==
  /\ ~quitting /\ IsStartup(j) /\ j.stage # "sent"
  /\ jobs' = jobs \ {j}
  /\ busy' = FALSE
  /\ UNCHANGED <<ui, historyIdx, ids, quitting, history, made>>
  /\ SyncPanel

\* Update with the health check's result.
DeliverHealth(j) ==
  /\ ~quitting /\ IsStartup(j) /\ j.stage # "sent"
  /\ jobs' = jobs \ {j}
  /\ UNCHANGED <<ui, historyIdx, panel, busy, ids, quitting, history, made>>

\* The ids that a result brings: those of a command that succeeded, never of a
\* replay.
Carried(j, rpc, old) ==
  IF j.stage = "ok" /\ ~j.replay /\ j.rpc = rpc THEN j.n ELSE old

\* Broken: the panel is left as it was drawn.
DeliverNoSync(j) ==
  /\ ~quitting /\ ~IsStartup(j) /\ j.stage # "sent"
  /\ jobs' = jobs \ {j}
  /\ busy' = FALSE
  /\ snapSessionID' = Carried(j, "init", snapSessionID)
  /\ solveSessionID' = Carried(j, "session", solveSessionID)
  /\ lastCaptureID' = Carried(j, "upload", lastCaptureID)
  /\ UNCHANGED <<ui, historyIdx, panel, quitting, history, made>>

\* handleResult.
DeliverResult(j) ==
  /\ ~quitting /\ ~IsStartup(j) /\ j.stage # "sent"
  /\ jobs' = jobs \ {j}
  /\ busy' = FALSE
  /\ snapSessionID' = Carried(j, "init", snapSessionID)
  /\ solveSessionID' = Carried(j, "session", solveSessionID)
  /\ lastCaptureID' = Carried(j, "upload", lastCaptureID)
  /\ UNCHANGED <<ui, historyIdx, quitting, history, made>>
  /\ SyncPanel

Deliver(j) == DeliverHealth(j) \/ DeliverResult(j)

-----------------------------------------------------------------------------
KeyPress ==
  \/ \E c \in Commands : MenuSelect(c)
  \/ MenuEnter \/ MenuTab
  \/ FormLeave \/ FormTab \/ FormShiftTab \/ FormType \/ FormRun
  \/ OpenPicker \/ PickerCancel \/ PickerSelect
  \/ HistoryLeave \/ HistoryUp \/ HistoryDown \/ HistoryReplay
  \/ Quit

Next ==
  \/ KeyPress \/ Resize
  \/ \E j \in jobs : Answered(j) \/ TimesOut(j) \/ PhotoUnreadable(j) \/ Deliver(j)

Spec == Init /\ [][Next]_vars

\* Deadlines pass and Update handles what it is sent; nobody must press a key,
\* and the server owes no answer.
Fairness ==
  /\ WF_vars(\E j \in jobs : TimesOut(j))
  /\ WF_vars(\E j \in jobs : Deliver(j))

FairSpec == Spec /\ Fairness

-----------------------------------------------------------------------------
\* The model is busy exactly while one request of the user's is under way, so
\* that no two answers can overtake each other; the health check of the start
\* comes and goes beside it.
OneCallAtATime ==
  /\ \A i, j \in jobs : ~IsStartup(i) /\ ~IsStartup(j) => i = j
  /\ busy <=> \E j \in jobs : ~IsStartup(j)

\* The session a request under way is about is the one the status bar shows,
\* though its id was read when the request was made.
InFlightIsCurrent ==
  \A j \in jobs : ~IsStartup(j) /\ ~j.replay => j.session = SessionOf(j.rpc)

\* Update never indexes a field or an entry that is not there, and a picked
\* file lands in the field it was picked for: the form has a field, the picker
\* a file field, the history a selection, however the user got there.
SelectionsExist ==
  /\ focus \in {"form", "picker"} => fieldI \in DOMAIN fields
  /\ focus = "picker" => pickerTarget = fieldI /\ Kind(pickerTarget) = "file"
  /\ focus = "history" => historyIdx \in 1..Len(history)

\* Keys reach the field the form shows as focused, and no other one.
KeysReachShownField ==
  /\ focus = "form" => listening = InputAt(menu, fieldI)
  /\ focus = "picker" => listening = {}

\* Once the startup check has been recorded, the panel shows the history and the
\* selection as they are whenever the user can press a key on it, so that what
\* Enter replays is what the arrow is at.
PanelIsCurrent ==
  focus = "history" /\ ~busy /\ panel.settled =>
    /\ panel.entries = EntriesNewestFirst(history)
    /\ panel.selected = historyIdx

-----------------------------------------------------------------------------
(***************************************************************************)
(* What makes these inductive.                                             *)
(***************************************************************************)

\* There is a field for each parameter of the selected command.
FieldsFit == DOMAIN fields = DOMAIN Params[menu]

\* Away from the form, no input is focused but perhaps the first, which is the
\* one that Enter in the menu leads to.
FirstInputWaits ==
  focus \in {"menu", "history"} => listening \subseteq InputAt(menu, 1)

\* Until its answer is in, the health check of the start is as Init made it.
StartupIsHealth ==
  \A j \in jobs : IsStartup(j) /\ j.stage = "sent" => j = StartupCheck

\* The check, once recorded, is not made again.
SettledForGood == panel.settled => ~StartupUnderWay

IndInv ==
  /\ TypeOK
  /\ FieldsFit /\ FirstInputWaits
  /\ StartupIsHealth /\ SettledForGood
  /\ OneCallAtATime /\ InFlightIsCurrent
  /\ SelectionsExist /\ KeysReachShownField
  /\ PanelIsCurrent

-----------------------------------------------------------------------------
\* "A replay shouldn't be able to hang the TUI indefinitely", and neither does
\* any call but the three that reach the model.
WithDeadlineEnds ==
  (\E j \in jobs : ~IsStartup(j) /\ (j.replay \/ j.rpc \notin {"respond", "analyze", "devprompt"}))
    ~> (~busy \/ quitting)

-----------------------------------------------------------------------------
\* What update.go says of syncHistoryViewport, "called whenever the entry list,
\* the selection, the busy state, or the panel's size changes", and of the
\* panel, "firing an explicit replay of whichever one is selected": the entry
\* shown as selected is the one that Enter would replay.
ShownIsReplayed ==
  focus = "history" /\ ~busy =>
    /\ panel.selected \in DOMAIN panel.entries
    /\ panel.entries[panel.selected] = EntriesNewestFirst(history)[historyIdx]
=============================================================================
