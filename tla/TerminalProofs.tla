--------------------------- MODULE TerminalProofs ---------------------------
(***************************************************************************)
(* Terminal for any menu, any limit of the history and any number of       *)
(* requests: its inductive invariant, and what follows from it about the   *)
(* call under way, the selections, the keys and the history panel.         *)
(***************************************************************************)
EXTENDS Terminal, SequenceTheorems, TLAPS

\* What recordHistory keeps: as many entries as there is room for, at least as
\* many as there were, the new one last and before it the newest of the old.
THEOREM HistoryKeepsNewest ==
  ASSUME NEW S, NEW h \in Seq(S), NEW e \in S, Len(h) <= MaxHistory
  PROVE  LET g == Recorded(h, e)
         IN /\ g \in Seq(S)
            /\ Len(g) = IF Len(h) < MaxHistory THEN Len(h) + 1 ELSE MaxHistory
            /\ Len(h) <= Len(g) /\ Len(g) <= MaxHistory
            /\ g[Len(g)] = e
            /\ \A i \in 1..(Len(g) - 1) : g[i] = h[Len(h) + 1 - Len(g) + i]
  <1> DEFINE a == Append(h, e)
  <1>1. /\ a \in Seq(S) /\ Len(a) = Len(h) + 1 /\ Len(h) \in Nat
        /\ \A i \in 1..Len(h) : a[i] = h[i]
        /\ a[Len(h) + 1] = e
    BY AppendProperties
  <1>2. Len(h) <= MaxHistory /\ MaxHistory \in Nat /\ MaxHistory # 0
    BY MaxHistoryAssumption
  <1>3. CASE Len(h) < MaxHistory
    <2>1. Recorded(h, e) = a
      BY <1>1, <1>2, <1>3 DEF Recorded
    <2> QED  BY <2>1, <1>1, <1>2, <1>3
  <1>4. CASE Len(h) = MaxHistory
    <2> DEFINE g == SubSeq(a, 2, Len(a))
    <2>1. Recorded(h, e) = g
      <3>1. Len(a) > MaxHistory /\ Len(a) - MaxHistory + 1 = 2
        BY <1>1, <1>2, <1>4
      <3> QED  BY <3>1 DEF Recorded
    <2>2. \A i \in 2..Len(a) : a[i] \in S
      BY <1>1, LenProperties
    <2>3. /\ g \in Seq(S) /\ Len(g) = Len(h)
          /\ \A i \in 1..Len(h) : g[i] = a[i + 1]
      <3>1. 2 \in Int /\ Len(a) \in Int
        BY <1>1
      <3> HIDE DEF a
      <3>2. /\ g \in Seq(S) /\ Len(g) = (IF 2 <= Len(a) THEN Len(a) - 2 + 1 ELSE 0)
            /\ \A i \in 1..(Len(a) - 2 + 1) : g[i] = a[2 + i - 1]
        BY <2>2, <3>1, SubSeqProperties
      <3> QED  BY <3>2, <1>1, <1>2, <1>4
    <2> HIDE DEF a, g
    <2> QED  BY <2>1, <2>3, <1>1, <1>2, <1>4
  <1> QED  BY <1>1, <1>2, <1>3, <1>4

\* The panel's order has the same entries.
LEMMA NewestFirstFacts ==
  ASSUME NEW S, NEW h \in Seq(S)
  PROVE  /\ EntriesNewestFirst(h) \in Seq(S)
         /\ Len(EntriesNewestFirst(h)) = Len(h)
         /\ \A i \in 1..Len(h) :
              /\ EntriesNewestFirst(h)[i] = h[Len(h) - i + 1]
              /\ EntriesNewestFirst(h)[i] \in S
  <1>1. Len(h) \in Nat /\ \A i \in 1..Len(h) : h[i] \in S
    BY LenProperties
  <1>2. \A i \in 1..Len(h) : Len(h) - i + 1 \in 1..Len(h)
    BY <1>1
  <1>3. EntriesNewestFirst(h) = [i \in 1..Len(h) |-> h[(Len(h) - i) + 1]]
    BY DEF EntriesNewestFirst, Reverse
  <1>4. EntriesNewestFirst(h) \in [1..Len(h) -> S]
    BY <1>1, <1>2, <1>3
  <1>5. EntriesNewestFirst(h) \in Seq(S) /\ Len(EntriesNewestFirst(h)) = Len(h)
    <2>1. EntriesNewestFirst(h) \in Seq(S)
      BY <1>4, <1>1
    <2> QED  BY <2>1, <1>4, <1>1, LenProperties
  <1> QED  BY <1>1, <1>2, <1>3, <1>5

-----------------------------------------------------------------------------
\* A form has a field for each parameter, of one of three kinds.
LEMMA ParamsFacts ==
  /\ "health" \in DOMAIN Params /\ Params["health"] = <<>>
  /\ \A c \in DOMAIN Params :
       /\ Params[c] \in Seq({"file", "choice", "text"})
       /\ Len(Params[c]) \in Nat /\ DOMAIN Params[c] = 1..Len(Params[c])
       /\ \A i \in DOMAIN Params[c] : Params[c][i] \in {"file", "choice", "text"}
  <1> DEFINE Kinds == {"file", "choice", "text"}
  <1>1. "health" \in DOMAIN Params /\ Params["health"] = <<>>
    BY DEF Params
  <1>2. \A c \in DOMAIN Params :
          Params[c] \in {<<>>, <<"file">>, <<"choice">>, <<"text">>, <<"text", "text">>}
    BY DEF Params
  <1>3. \A p \in {<<>>, <<"file">>, <<"choice">>, <<"text">>, <<"text", "text">>} :
          p \in Seq(Kinds)
    <2>1. /\ <<>> \in Seq(Kinds) /\ <<"file">> \in Seq(Kinds)
          /\ <<"choice">> \in Seq(Kinds) /\ <<"text">> \in Seq(Kinds)
      OBVIOUS
    <2>2. <<"text", "text">> \in Seq(Kinds)
      OBVIOUS
    <2> QED  BY <2>1, <2>2
  <1>4. \A c \in DOMAIN Params : Params[c] \in Seq(Kinds)
    BY <1>2, <1>3
  <1> QED  BY <1>1, <1>4, LenProperties

\* Of a command of the menu, and of its fields as they are made.
LEMMA FieldsForFacts ==
  ASSUME NEW c \in Commands
  PROVE  /\ c \in DOMAIN Params
         /\ FieldsFor(c) \in Seq(BOOLEAN)
         /\ DOMAIN FieldsFor(c) = DOMAIN Params[c]
         /\ \A i : InputAt(c, i) \subseteq DOMAIN Params[c]
         /\ \A i : InputAt(c, i) \subseteq {i}
  <1>1. /\ c \in DOMAIN Params
        /\ Len(Params[c]) \in Nat /\ DOMAIN Params[c] = 1..Len(Params[c])
    BY ParamsFacts, CommandsAssumption
  <1>2. FieldsFor(c) \in [1..Len(Params[c]) -> BOOLEAN]
    BY <1>1 DEF FieldsFor
  <1>3. FieldsFor(c) \in Seq(BOOLEAN)
    BY <1>1, <1>2
  <1>4. \A i : InputAt(c, i) \subseteq DOMAIN Params[c] /\ InputAt(c, i) \subseteq {i}
    BY DEF InputAt
  <1> QED  BY <1>1, <1>2, <1>3, <1>4

\* The menu's choice has a form, and the form's fields can be filled.
LEMMA FieldsFacts ==
  ASSUME TypeOK, FieldsFit
  PROVE  /\ menu \in DOMAIN Params
         /\ DOMAIN fields = 1..Len(fields) /\ Len(fields) \in Nat
         /\ \A i \in DOMAIN fields : i \in Nat \ {0}
         /\ \A i \in DOMAIN fields : \A b \in BOOLEAN :
              /\ [fields EXCEPT ![i] = b] \in Seq(BOOLEAN)
              /\ DOMAIN [fields EXCEPT ![i] = b] = DOMAIN fields
         /\ \A i : InputAt(menu, i) \subseteq DOMAIN fields /\ InputAt(menu, i) \subseteq {i}
  <1>1. menu \in Commands /\ fields \in Seq(BOOLEAN) /\ DOMAIN fields = DOMAIN Params[menu]
    BY DEF TypeOK, FieldsFit
  <1>2. DOMAIN fields = 1..Len(fields) /\ Len(fields) \in Nat
    BY <1>1, LenProperties
  <1>3. \A i \in DOMAIN fields : \A b \in BOOLEAN :
              /\ [fields EXCEPT ![i] = b] \in Seq(BOOLEAN)
              /\ DOMAIN [fields EXCEPT ![i] = b] = DOMAIN fields
    BY <1>1, <1>2, ExceptSeq
  <1>4. menu \in DOMAIN Params
        /\ \A i : InputAt(menu, i) \subseteq DOMAIN fields /\ InputAt(menu, i) \subseteq {i}
    BY <1>1, FieldsForFacts
  <1>5. \A i \in DOMAIN fields : i \in Nat \ {0}
    BY <1>2
  <1> QED  BY <1>2, <1>3, <1>4, <1>5

\* After syncHistoryViewport the panel shows what there is to show.
LEMMA Synced ==
  ASSUME SyncPanel, history' \in Seq(Entry), historyIdx' \in Nat \ {0}
  PROVE  /\ panel' \in [entries : Seq(Entry), selected : Nat, settled : BOOLEAN]
         /\ SettledForGood' /\ PanelIsCurrent'
  <1>1. EntriesNewestFirst(history') \in Seq(Entry)
    BY NewestFirstFacts
  <1>2. /\ panel'.entries = EntriesNewestFirst(history')
        /\ panel'.selected = (IF focus' = "history" THEN historyIdx' ELSE 0)
        /\ panel'.settled = (StartupCheck \notin jobs')
        /\ panel' \in [entries : Seq(Entry), selected : Nat, settled : BOOLEAN]
    BY <1>1 DEF SyncPanel
  <1>3. SettledForGood'
    BY <1>2 DEF SettledForGood, StartupUnderWay
  <1>4. PanelIsCurrent'
    BY <1>2 DEF PanelIsCurrent
  <1> QED  BY <1>2, <1>3, <1>4

-----------------------------------------------------------------------------
(***************************************************************************)
(* The inductive invariant.  Most actions are of one of four kinds: keys   *)
(* that change the form or the focus, keys and events that only redraw the *)
(* panel, keys that send a request, and ends of a round trip.              *)
(***************************************************************************)

\* The program starts at the menu, its health check under way.
LEMMA IndInit == Init => IndInv
  <1> SUFFICES ASSUME Init PROVE IndInv
      OBVIOUS
  <1>1. /\ menu = "health" /\ menu \in Commands /\ fields = FieldsFor(menu)
        /\ listening = InputAt(menu, 1) /\ focus = "menu"
    BY CommandsAssumption DEF Init
  <1>2. /\ fields \in Seq(BOOLEAN) /\ DOMAIN fields = DOMAIN Params[menu]
        /\ listening \subseteq DOMAIN fields
    BY <1>1, FieldsForFacts
  <1>3. StartupCheck \in Job /\ IsStartup(StartupCheck) /\ 0 \in Id
    BY MaxCallsAssumption, ParamsFacts DEF StartupCheck, Job, Id, NoId, IsStartup
  <1>4. <<>> \in Seq(Entry) /\ Len(<<>>) = 0 /\ 0 <= MaxHistory
    BY EmptySeq, MaxHistoryAssumption
  <1>5. TypeOK
    <2>1. /\ history \in Seq(Entry) /\ Len(history) <= MaxHistory
          /\ panel \in [entries : Seq(Entry), selected : Nat, settled : BOOLEAN]
      BY <1>4 DEF Init
    <2>2. jobs \subseteq Job /\ made \in Id
      BY <1>3 DEF Init
    <2>3. /\ snapSessionID \in Id /\ solveSessionID \in Id /\ lastCaptureID \in Id
          /\ busy \in BOOLEAN /\ quitting \in BOOLEAN
      BY <1>3 DEF Init, NoId
    <2>4. fieldI \in Nat \ {0} /\ pickerTarget \in Nat \ {0} /\ historyIdx \in Nat \ {0}
      BY DEF Init
    <2> QED  BY <1>1, <1>2, <2>1, <2>2, <2>3, <2>4 DEF TypeOK
  <1>6. FieldsFit /\ FirstInputWaits /\ SelectionsExist /\ KeysReachShownField
    BY <1>1, <1>2
       DEF FieldsFit, FirstInputWaits, SelectionsExist, KeysReachShownField
  <1>7. StartupIsHealth /\ SettledForGood /\ PanelIsCurrent
    BY DEF Init, StartupIsHealth, SettledForGood, PanelIsCurrent
  <1>8. OneCallAtATime /\ InFlightIsCurrent
    BY <1>3 DEF Init, OneCallAtATime, InFlightIsCurrent
  <1> QED  BY <1>5, <1>6, <1>7, <1>8 DEF IndInv

\* A key that changes the form and the focus, and nothing else.
LEMMA IndUi ==
  ASSUME IndInv, UnchangedButUi,
         menu' \in Commands,
         fields' \in Seq(BOOLEAN), DOMAIN fields' = DOMAIN Params[menu'],
         fieldI' \in Nat \ {0}, pickerTarget' \in Nat \ {0},
         listening' \subseteq DOMAIN fields',
         focus' \in {"menu", "form", "picker"},
         focus' = "menu" => listening' \subseteq InputAt(menu', 1),
         focus' \in {"form", "picker"} => fieldI' \in DOMAIN fields',
         focus' = "picker" =>
           pickerTarget' = fieldI' /\ Params[menu'][pickerTarget'] = "file",
         focus' = "form" => listening' = InputAt(menu', fieldI'),
         focus' = "picker" => listening' = {}
  PROVE  IndInv'
  <1> USE DEF UnchangedButUi, ids
  <1>1. TypeOK'
    BY DEF IndInv, TypeOK
  <1>2. FieldsFit' /\ FirstInputWaits' /\ SelectionsExist' /\ KeysReachShownField'
    BY DEF FieldsFit, FirstInputWaits, SelectionsExist, KeysReachShownField, Kind
  <1>3. StartupIsHealth' /\ SettledForGood' /\ OneCallAtATime'
    BY DEF IndInv, StartupIsHealth, SettledForGood, StartupUnderWay, OneCallAtATime
  <1>4. InFlightIsCurrent'
    BY DEF IndInv, InFlightIsCurrent, SessionOf
  <1>5. PanelIsCurrent'
    BY DEF PanelIsCurrent
  <1> QED  BY <1>1, <1>2, <1>3, <1>4, <1>5 DEF IndInv

\* Another command is chosen, with the form of its own.
LEMMA IndMenuSelect ==
  ASSUME IndInv, NEW c \in Commands, MenuSelect(c)
  PROVE  IndInv'
  <1>1. /\ UnchangedButUi
        /\ menu' = c /\ fields' = FieldsFor(c) /\ fieldI' = 1
        /\ listening' = InputAt(c, 1) /\ pickerTarget' = pickerTarget /\ focus' = "menu"
    BY DEF MenuSelect, Ui
  <1>2. pickerTarget \in Nat \ {0}
    BY DEF IndInv, TypeOK
  <1> QED  BY <1>1, <1>2, FieldsForFacts, IndUi

\* Enter on a command with a form.
LEMMA IndMenuToForm ==
  ASSUME IndInv, Key("menu"), Params[menu] # <<>>,
         Ui(menu, fields, 1, listening \cup InputAt(menu, 1), pickerTarget, "form"),
         UnchangedButUi
  PROVE  IndInv'
  <1>1. /\ menu' = menu /\ fields' = fields /\ fieldI' = 1
        /\ listening' = listening \cup InputAt(menu, 1)
        /\ pickerTarget' = pickerTarget /\ focus' = "form"
    BY DEF Ui
  <1>2. /\ menu \in Commands /\ fields \in Seq(BOOLEAN)
        /\ DOMAIN fields = DOMAIN Params[menu]
        /\ pickerTarget \in Nat \ {0} /\ listening \subseteq InputAt(menu, 1)
    BY DEF IndInv, TypeOK, FieldsFit, FirstInputWaits, Key
  <1>3. 1 \in DOMAIN fields
    <2>1. Params[menu] \in Seq({"file", "choice", "text"})
      BY <1>2, ParamsFacts, CommandsAssumption
    <2>2. Len(Params[menu]) \in Nat \ {0} /\ DOMAIN Params[menu] = 1..Len(Params[menu])
      BY <2>1, EmptySeq, LenProperties
    <2> QED  BY <1>2, <2>2
  <1>4. InputAt(menu, 1) \subseteq DOMAIN fields
    BY <1>2, FieldsForFacts
  <1> QED  BY <1>1, <1>2, <1>3, <1>4, IndUi

\* What the keys of the form and of the picker find.
LEMMA FormFacts ==
  ASSUME IndInv, focus \in {"form", "picker"}
  PROVE  /\ menu \in Commands /\ fields \in Seq(BOOLEAN)
         /\ DOMAIN fields = DOMAIN Params[menu]
         /\ fieldI \in DOMAIN fields /\ fieldI \in Nat \ {0}
         /\ pickerTarget \in Nat \ {0}
         /\ InputAt(menu, fieldI) \subseteq DOMAIN fields
         /\ InputAt(menu, fieldI) \subseteq {fieldI}
         /\ focus = "form" => listening = InputAt(menu, fieldI)
         /\ focus = "picker" => listening = {} /\ pickerTarget = fieldI
  BY FieldsForFacts
     DEF IndInv, TypeOK, FieldsFit, SelectionsExist, KeysReachShownField

\* Esc leaves the form for the menu.
LEMMA IndFormLeave ==
  ASSUME IndInv, FormLeave
  PROVE  IndInv'
  <1>1. /\ UnchangedButUi
        /\ menu' = menu /\ fields' = fields /\ fieldI' = fieldI
        /\ listening' = listening \ {fieldI} /\ pickerTarget' = pickerTarget
        /\ focus' = "menu" /\ focus = "form"
    BY DEF FormLeave, Ui, Key
  <1>2. listening' = {}
    BY <1>1, FormFacts
  <1> QED  BY <1>1, <1>2, FormFacts, IndUi

\* Another field of the form has the cursor.
LEMMA IndFormMove ==
  ASSUME IndInv, NEW i \in Int, FormMove(i)
  PROVE  IndInv'
  <1>1. /\ UnchangedButUi /\ i \in DOMAIN fields
        /\ menu' = menu /\ fields' = fields /\ fieldI' = i
        /\ listening' = (listening \ {fieldI}) \cup InputAt(menu, i)
        /\ pickerTarget' = pickerTarget
        /\ focus' = "form" /\ focus = "form"
    BY DEF FormMove, Ui, Key
  <1>2. i \in Nat \ {0} /\ InputAt(menu, i) \subseteq DOMAIN fields
    BY <1>1, FieldsFacts DEF IndInv
  <1>3. listening' = InputAt(menu, i)
    BY <1>1, FormFacts
  <1> QED  BY <1>1, <1>2, <1>3, FormFacts, IndUi

\* A key changes the field the cursor is in.
LEMMA IndFormType ==
  ASSUME IndInv, FormType
  PROVE  IndInv'
  <1>1. PICK b \in BOOLEAN :
          Ui(menu, [fields EXCEPT ![fieldI] = b], fieldI, listening, pickerTarget, "form")
    BY DEF FormType
  <1>2. /\ UnchangedButUi /\ focus = "form"
        /\ menu' = menu /\ fields' = [fields EXCEPT ![fieldI] = b] /\ fieldI' = fieldI
        /\ listening' = listening /\ pickerTarget' = pickerTarget /\ focus' = "form"
    BY <1>1 DEF FormType, Ui, Key
  <1>3. fields' \in Seq(BOOLEAN) /\ DOMAIN fields' = DOMAIN fields
    BY <1>2, FormFacts, FieldsFacts DEF IndInv
  <1> QED  BY <1>2, <1>3, FormFacts, IndUi

\* The file picker opens for a file field.
LEMMA IndOpenPicker ==
  ASSUME IndInv, OpenPicker
  PROVE  IndInv'
  <1>1. /\ UnchangedButUi /\ Params[menu][fieldI] = "file"
        /\ menu' = menu /\ fields' = fields /\ fieldI' = fieldI
        /\ listening' = listening \ {fieldI} /\ pickerTarget' = fieldI
        /\ focus' = "picker" /\ focus = "form"
    BY DEF OpenPicker, Ui, Key, Kind
  <1>2. listening' = {}
    BY <1>1, FormFacts
  <1> QED  BY <1>1, <1>2, FormFacts, IndUi

\* The file picker closes and leaves the field as it was.
LEMMA IndPickerCancel ==
  ASSUME IndInv, PickerCancel
  PROVE  IndInv'
  <1>1. /\ UnchangedButUi
        /\ menu' = menu /\ fields' = fields /\ fieldI' = fieldI
        /\ listening' = listening \cup InputAt(menu, fieldI)
        /\ pickerTarget' = pickerTarget
        /\ focus' = "form" /\ focus = "picker"
    BY DEF PickerCancel, Ui, Key
  <1>2. listening' = InputAt(menu, fieldI)
    BY <1>1, FormFacts
  <1> QED  BY <1>1, <1>2, FormFacts, IndUi

\* The file picker closes and fills its field.
LEMMA IndPickerSelect ==
  ASSUME IndInv, PickerSelect
  PROVE  IndInv'
  <1>1. /\ UnchangedButUi
        /\ menu' = menu /\ fields' = [fields EXCEPT ![pickerTarget] = TRUE]
        /\ fieldI' = pickerTarget
        /\ listening' = listening \cup InputAt(menu, pickerTarget)
        /\ pickerTarget' = pickerTarget
        /\ focus' = "form" /\ focus = "picker"
    BY DEF PickerSelect, Ui, Key
  <1>2. listening' = InputAt(menu, fieldI') /\ fieldI' = fieldI
    BY <1>1, FormFacts
  <1>3. fields' \in Seq(BOOLEAN) /\ DOMAIN fields' = DOMAIN fields
    BY <1>1, FormFacts, FieldsFacts DEF IndInv
  <1> QED  BY <1>1, <1>2, <1>3, FormFacts, IndUi

\* Esc leaves the history for the menu.
LEMMA IndHistoryLeave ==
  ASSUME IndInv, HistoryLeave
  PROVE  IndInv'
  <1>1. /\ UnchangedButUi
        /\ menu' = menu /\ fields' = fields /\ fieldI' = fieldI
        /\ listening' = listening /\ pickerTarget' = pickerTarget
        /\ focus' = "menu" /\ focus = "history"
    BY DEF HistoryLeave, Ui, Key
  <1>2. /\ menu \in Commands /\ fields \in Seq(BOOLEAN)
        /\ DOMAIN fields = DOMAIN Params[menu]
        /\ fieldI \in Nat \ {0} /\ pickerTarget \in Nat \ {0}
        /\ listening \subseteq DOMAIN fields /\ listening \subseteq InputAt(menu, 1)
    BY <1>1 DEF IndInv, TypeOK, FieldsFit, FirstInputWaits
  <1> QED  BY <1>1, <1>2, IndUi

\* A key or an event that draws the panel again, and may move to the history or
\* in it.
LEMMA IndSync ==
  ASSUME IndInv, SyncPanel,
         UNCHANGED <<menu, fields, fieldI, listening, pickerTarget,
                     busy, ids, quitting, history, jobs, made>>,
         \/ focus' = focus /\ historyIdx' = historyIdx
         \/ /\ focus \in {"menu", "history"} /\ focus' = "history"
            /\ historyIdx' \in 1..Len(history)
  PROVE  IndInv'
  <1> USE DEF ids
  <1>1. /\ history' \in Seq(Entry) /\ historyIdx' \in Nat \ {0}
        /\ focus' \in {"menu", "form", "picker", "history"}
    BY DEF IndInv, TypeOK
  <1>2. TypeOK' /\ SettledForGood' /\ PanelIsCurrent'
    BY <1>1, Synced DEF IndInv, TypeOK
  <1>3. FieldsFit' /\ FirstInputWaits' /\ KeysReachShownField'
    BY DEF IndInv, FieldsFit, FirstInputWaits, KeysReachShownField
  <1>4. SelectionsExist'
    BY DEF IndInv, SelectionsExist, Kind
  <1>5. StartupIsHealth' /\ OneCallAtATime'
    BY DEF IndInv, StartupIsHealth, OneCallAtATime
  <1>6. InFlightIsCurrent'
    BY DEF IndInv, InFlightIsCurrent, SessionOf
  <1> QED  BY <1>2, <1>3, <1>4, <1>5, <1>6 DEF IndInv

\* Clear, or a command that is not ready to be sent, ends on the screen.
LEMMA IndRunHere ==
  ASSUME IndInv, RunHere
  PROVE  IndInv'
  BY IndSync DEF RunHere, ui

\* The window changes, and nothing the invariant speaks of.
LEMMA IndResize ==
  ASSUME IndInv, Resize
  PROVE  IndInv'
  BY IndSync DEF Resize, ui

\* Tab enters the history panel, at its newest entry.
LEMMA IndMenuTab ==
  ASSUME IndInv, MenuTab
  PROVE  IndInv'
  <1>1. history \in Seq(Entry) /\ history # <<>>
    BY DEF IndInv, TypeOK, MenuTab
  <1>2. 1 \in 1..Len(history)
    BY <1>1, EmptySeq
  <1> QED  BY <1>2, IndSync DEF MenuTab, Key

\* Another entry of the history is selected, and the panel redrawn.
LEMMA IndHistorySelect ==
  ASSUME IndInv, HistoryUp \/ HistoryDown
  PROVE  IndInv'
  <1>1. focus = "history" /\ historyIdx \in 1..Len(history) /\ Len(history) \in Nat
    BY LenProperties
       DEF IndInv, TypeOK, SelectionsExist, HistoryUp, HistoryDown, HistorySelect, Key
  <1>2. /\ SyncPanel
        /\ UNCHANGED <<ui, busy, ids, quitting, history, jobs, made>>
        /\ \/ historyIdx' = IF historyIdx > 1 THEN historyIdx - 1 ELSE historyIdx
           \/ historyIdx' = IF historyIdx < Len(history) THEN historyIdx + 1 ELSE historyIdx
    BY DEF HistoryUp, HistoryDown, HistorySelect
  <1>3. historyIdx' \in 1..Len(history)
    BY <1>1, <1>2
  <1> QED  BY <1>1, <1>2, <1>3, IndSync DEF ui

\* A request is sent, by a model that was not busy.
LEMMA IndLaunch ==
  ASSUME IndInv, ~busy,
         NEW rpc \in DOMAIN Params, NEW of \in Id, NEW session \in Id,
         NEW replay \in BOOLEAN,
         Launch([n |-> made + 1, rpc |-> rpc, of |-> of, session |-> session,
                 replay |-> replay, stage |-> "sent"]),
         ~replay => session = SessionOf(rpc),
         UNCHANGED <<ui, historyIdx, ids, quitting, history>>,
         UNCHANGED panel \/ SyncPanel
  PROVE  IndInv'
  <1> DEFINE j == [n |-> made + 1, rpc |-> rpc, of |-> of, session |-> session,
                   replay |-> replay, stage |-> "sent"]
  <1> USE DEF ui, ids
  <1>1. /\ jobs' = jobs \cup {j} /\ made' = made + 1 /\ busy' = TRUE
        /\ made' \in Id /\ made' # 0
    BY MaxCallsAssumption DEF Launch, IndInv, TypeOK, Id
  <1>2. /\ j \in Job /\ ~IsStartup(j)
        /\ j.n = made' /\ j.rpc = rpc /\ j.session = session /\ j.replay = replay
    BY <1>1 DEF Job, IsStartup
  <1> HIDE DEF j
  <1>3. \A i \in jobs : IsStartup(i)
    BY DEF IndInv, OneCallAtATime
  <1>4. StartupCheck \in jobs' => StartupCheck \in jobs
    BY <1>1, <1>2 DEF StartupCheck, IsStartup
  <1>5. /\ panel' \in [entries : Seq(Entry), selected : Nat, settled : BOOLEAN]
        /\ SettledForGood' /\ PanelIsCurrent'
    <2>1. CASE SyncPanel
      BY <2>1, Synced DEF IndInv, TypeOK
    <2>2. CASE UNCHANGED panel
      <3>1. panel' \in [entries : Seq(Entry), selected : Nat, settled : BOOLEAN]
        BY <2>2 DEF IndInv, TypeOK
      <3>2. SettledForGood'
        BY <2>2, <1>4 DEF IndInv, SettledForGood, StartupUnderWay
      <3>3. PanelIsCurrent'
        BY <1>1 DEF PanelIsCurrent
      <3> QED  BY <3>1, <3>2, <3>3
    <2> QED  BY <2>1, <2>2
  <1>6. TypeOK'
    BY <1>1, <1>2, <1>5 DEF IndInv, TypeOK
  <1>7. FieldsFit' /\ FirstInputWaits' /\ KeysReachShownField'
    BY DEF IndInv, FieldsFit, FirstInputWaits, KeysReachShownField
  <1>8. SelectionsExist'
    BY DEF IndInv, SelectionsExist, Kind
  <1>9. StartupIsHealth'
    BY <1>1, <1>2 DEF IndInv, StartupIsHealth
  <1>10. OneCallAtATime'
    BY <1>1, <1>2, <1>3 DEF OneCallAtATime
  <1>11. InFlightIsCurrent'
    <2>1. \A c : SessionOf(c)' = SessionOf(c)
      BY DEF SessionOf
    <2> QED  BY <1>1, <1>2, <1>3, <2>1 DEF InFlightIsCurrent
  <1> QED  BY <1>5, <1>6, <1>7, <1>8, <1>9, <1>10, <1>11 DEF IndInv

\* A request is sent, and the screen is busy.
LEMMA IndSend ==
  ASSUME IndInv, ~busy, Send
  PROVE  IndInv'
  <1>1. menu \in DOMAIN Params
    BY CommandsAssumption DEF IndInv, TypeOK
  <1>2. SessionOf(menu) \in Id
    BY MaxCallsAssumption DEF IndInv, TypeOK, SessionOf, NoId, Id
  <1>3. made + 1 \in Id
    BY MaxCallsAssumption DEF IndInv, TypeOK, Send, Launch, Id
  <1> QED  BY <1>1, <1>2, <1>3, IndLaunch DEF Send

\* The selected entry is sent once more.
LEMMA IndHistoryReplay ==
  ASSUME IndInv, HistoryReplay
  PROVE  IndInv'
  <1> DEFINE e == EntriesNewestFirst(history)[historyIdx]
  <1>1. historyIdx \in 1..Len(history) /\ history \in Seq(Entry) /\ ~busy
    BY DEF IndInv, TypeOK, HistoryReplay, Key
  <1>2. e \in Entry
    BY <1>1, NewestFirstFacts
  <1>3. e.rpc \in DOMAIN Params /\ e.of \in Id /\ e.session \in Id
    BY <1>2 DEF Entry
  <1>4. /\ Launch([n |-> made + 1, rpc |-> e.rpc, of |-> e.of, session |-> e.session,
                   replay |-> TRUE, stage |-> "sent"])
        /\ UNCHANGED <<ui, historyIdx, ids, quitting, history>> /\ SyncPanel
    BY DEF HistoryReplay
  <1> HIDE DEF e
  <1> QED  BY <1>1, <1>3, <1>4, IndLaunch

\* A round trip ends, and enters at most itself into the history.  If that is
\* the health check's, the panel is not settled; if it is another's, the model
\* is busy.
LEMMA IndEnds ==
  ASSUME IndInv, NEW j \in jobs, j.stage = "sent", NEW how \in {"ok", "error"},
         jobs' = (jobs \ {j}) \cup {[j EXCEPT !.stage = how]},
         \/ history' = Recorded(history, EntryOf(j))
         \/ history' = history,
         UNCHANGED <<ui, historyIdx, panel, busy, ids, quitting, made>>
  PROVE  IndInv'
  <1> DEFINE k == [j EXCEPT !.stage = how]
  <1> USE DEF ui, ids
  <1>1. j \in Job
    BY DEF IndInv, TypeOK
  <1>2. /\ k \in Job /\ k.stage = how /\ k.stage # "sent"
        /\ k.n = j.n /\ k.rpc = j.rpc /\ k.session = j.session /\ k.replay = j.replay
        /\ IsStartup(k) <=> IsStartup(j)
    BY <1>1 DEF Job, IsStartup
  <1>3. EntryOf(j) \in Entry
    BY <1>1 DEF Job, EntryOf, Entry
  <1>4. /\ history' \in Seq(Entry) /\ Len(history') <= MaxHistory
        /\ Len(history) <= Len(history')
        /\ Len(history) \in Nat /\ Len(history') \in Nat
    <2>1. history \in Seq(Entry) /\ Len(history) <= MaxHistory /\ Len(history) \in Nat
      BY LenProperties DEF IndInv, TypeOK
    <2>2. CASE history' = history
      BY <2>1, <2>2
    <2>3. CASE history' = Recorded(history, EntryOf(j))
      <3>1. /\ history' \in Seq(Entry) /\ Len(history') <= MaxHistory
            /\ Len(history) <= Len(history')
        BY <2>1, <2>3, <1>3, HistoryKeepsNewest
      <3> QED  BY <3>1, <2>1, LenProperties
    <2> QED  BY <2>2, <2>3
  <1>5. StartupCheck.stage = "sent"
    BY DEF StartupCheck
  <1> HIDE DEF k
  <1>6. jobs' = (jobs \ {j}) \cup {k}
    BY DEF k
  <1>7. StartupCheck \in jobs' => StartupCheck \in jobs
    BY <1>2, <1>5, <1>6
  <1>8. TypeOK'
    BY <1>2, <1>4, <1>6 DEF IndInv, TypeOK
  <1>9. FieldsFit' /\ FirstInputWaits' /\ KeysReachShownField'
    BY DEF IndInv, FieldsFit, FirstInputWaits, KeysReachShownField
  <1>10. SelectionsExist'
    <2>1. focus = "history" => historyIdx \in 1..Len(history')
      BY <1>4 DEF IndInv, TypeOK, SelectionsExist
    <2> QED  BY <2>1 DEF IndInv, SelectionsExist, Kind
  <1>11. StartupIsHealth' /\ SettledForGood'
    BY <1>2, <1>6, <1>7
       DEF IndInv, StartupIsHealth, SettledForGood, StartupUnderWay
  <1>12. OneCallAtATime'
    BY <1>2, <1>6 DEF IndInv, OneCallAtATime
  <1>13. InFlightIsCurrent'
    <2>1. \A c : SessionOf(c)' = SessionOf(c)
      BY DEF SessionOf
    <2> QED  BY <1>2, <1>6, <2>1 DEF IndInv, InFlightIsCurrent
  <1>14. PanelIsCurrent'
    <2> SUFFICES ASSUME focus = "history", ~busy, panel.settled
                 PROVE  FALSE
      BY DEF PanelIsCurrent
    <2>1. IsStartup(j)
      BY DEF IndInv, OneCallAtATime
    <2>2. j = StartupCheck
      BY <2>1 DEF IndInv, StartupIsHealth
    <2> QED  BY <2>2 DEF IndInv, SettledForGood, StartupUnderWay
  <1> QED  BY <1>8, <1>9, <1>10, <1>11, <1>12, <1>13, <1>14 DEF IndInv

\* A request ends, and enters the history, in a goroutine of its own.
LEMMA IndJobEnds ==
  ASSUME IndInv, NEW j \in jobs, Answered(j) \/ TimesOut(j) \/ PhotoUnreadable(j)
  PROVE  IndInv'
  <1>1. CASE Answered(j) \/ TimesOut(j)
    <2>1. PICK how \in {"ok", "error"} : Ends(j, how)
      BY <1>1 DEF Answered, TimesOut
    <2> QED  BY <2>1, IndEnds DEF Ends
  <1>2. CASE PhotoUnreadable(j)
    <2>1. /\ j.stage = "sent" /\ history' = history
          /\ jobs' = (jobs \ {j}) \cup {[j EXCEPT !.stage = "error"]}
          /\ UNCHANGED <<ui, historyIdx, panel, busy, ids, quitting, made>>
      BY <1>2 DEF PhotoUnreadable
    <2> QED  BY <2>1, IndEnds
  <1> QED  BY <1>1, <1>2

\* The health check's message comes to Update.
LEMMA IndDeliverHealth ==
  ASSUME IndInv, NEW j \in jobs, DeliverHealth(j)
  PROVE  IndInv'
  <1> USE DEF ui, ids
  <1>1. /\ IsStartup(j) /\ jobs' = jobs \ {j}
        /\ UNCHANGED <<ui, historyIdx, panel, busy, ids, quitting, history, made>>
    BY DEF DeliverHealth
  <1>2. TypeOK'
    BY <1>1 DEF IndInv, TypeOK
  <1>3. FieldsFit' /\ FirstInputWaits' /\ KeysReachShownField'
    BY <1>1 DEF IndInv, FieldsFit, FirstInputWaits, KeysReachShownField
  <1>4. SelectionsExist' /\ PanelIsCurrent'
    BY <1>1 DEF IndInv, SelectionsExist, Kind, PanelIsCurrent
  <1>5. StartupIsHealth' /\ SettledForGood'
    BY <1>1 DEF IndInv, StartupIsHealth, SettledForGood, StartupUnderWay
  <1>6. OneCallAtATime'
    BY <1>1 DEF IndInv, OneCallAtATime
  <1>7. InFlightIsCurrent'
    <2>1. \A c : SessionOf(c)' = SessionOf(c)
      BY <1>1 DEF SessionOf
    <2> QED  BY <1>1, <2>1 DEF IndInv, InFlightIsCurrent
  <1> QED  BY <1>2, <1>3, <1>4, <1>5, <1>6, <1>7 DEF IndInv

\* The answer that was awaited may bring a new id, which no request under way
\* can then be at odds with, for there is none.
LEMMA IndDeliverResult ==
  ASSUME IndInv, NEW j \in jobs, DeliverResult(j)
  PROVE  IndInv'
  <1> USE DEF ui
  <1>1. /\ ~IsStartup(j) /\ jobs' = jobs \ {j} /\ busy' = FALSE /\ SyncPanel
        /\ UNCHANGED <<ui, historyIdx, quitting, history, made>>
    BY DEF DeliverResult
  <1>2. \A i \in jobs' : IsStartup(i)
    BY <1>1 DEF IndInv, OneCallAtATime
  <1>3. snapSessionID' \in Id /\ solveSessionID' \in Id /\ lastCaptureID' \in Id
    BY DEF DeliverResult, Carried, IndInv, TypeOK, Job
  <1>4. history' \in Seq(Entry) /\ historyIdx' \in Nat \ {0}
    BY <1>1 DEF IndInv, TypeOK
  <1>5. /\ panel' \in [entries : Seq(Entry), selected : Nat, settled : BOOLEAN]
        /\ SettledForGood' /\ PanelIsCurrent'
    BY <1>1, <1>4, Synced
  <1>6. TypeOK'
    BY <1>1, <1>3, <1>5 DEF IndInv, TypeOK
  <1>7. FieldsFit' /\ FirstInputWaits' /\ KeysReachShownField'
    BY <1>1 DEF IndInv, FieldsFit, FirstInputWaits, KeysReachShownField
  <1>8. SelectionsExist' /\ StartupIsHealth'
    BY <1>1 DEF IndInv, SelectionsExist, Kind, StartupIsHealth
  <1>9. OneCallAtATime' /\ InFlightIsCurrent'
    BY <1>1, <1>2 DEF OneCallAtATime, InFlightIsCurrent
  <1> QED  BY <1>5, <1>6, <1>7, <1>8, <1>9 DEF IndInv

\* The invariant is about the variables of the model only.
LEMMA IndUnchanged ==
  ASSUME IndInv,
         UNCHANGED <<ui, historyIdx, panel, busy, ids, history, jobs, made>>,
         quitting' \in BOOLEAN
  PROVE  IndInv'
  <1> USE DEF ui, ids
  <1>1. TypeOK' /\ FieldsFit' /\ FirstInputWaits' /\ StartupIsHealth' /\ SettledForGood'
    BY DEF IndInv, TypeOK, FieldsFit, FirstInputWaits, StartupIsHealth,
           SettledForGood, StartupUnderWay
  <1>2. OneCallAtATime' /\ SelectionsExist' /\ KeysReachShownField' /\ PanelIsCurrent'
    BY DEF IndInv, OneCallAtATime, SelectionsExist, Kind, KeysReachShownField,
           PanelIsCurrent
  <1>3. InFlightIsCurrent'
    BY DEF IndInv, InFlightIsCurrent, SessionOf
  <1> QED  BY <1>1, <1>2, <1>3 DEF IndInv

\* Every key keeps the invariant.
LEMMA IndKeyPress ==
  ASSUME IndInv, KeyPress
  PROVE  IndInv'
  <1>1. CASE \E c \in Commands : MenuSelect(c)
    BY <1>1, IndMenuSelect
  <1>2. CASE MenuEnter
    <2>1. Key("menu") /\ ~busy
      BY <1>2 DEF MenuEnter, Key
    <2>2. CASE Params[menu] = <<>>
      BY <1>2, <2>1, <2>2, IndSend, IndRunHere DEF MenuEnter, RunNow
    <2>3. CASE Params[menu] # <<>>
      BY <1>2, <2>1, <2>3, IndMenuToForm DEF MenuEnter
    <2> QED  BY <2>2, <2>3
  <1>3. CASE MenuTab
    BY <1>3, IndMenuTab
  <1>4. CASE FormLeave
    BY <1>4, IndFormLeave
  <1>5. CASE FormTab \/ FormShiftTab
    <2>1. fieldI \in Nat
      BY DEF IndInv, TypeOK
    <2>2. fieldI + 1 \in Int /\ fieldI - 1 \in Int
      BY <2>1
    <2> QED  BY <1>5, <2>2, IndFormLeave, IndFormMove DEF FormTab, FormShiftTab
  <1>6. CASE FormType
    BY <1>6, IndFormType
  <1>7. CASE FormRun
    BY <1>7, IndSend, IndRunHere DEF FormRun, RunNow, Key
  <1>8. CASE OpenPicker \/ PickerCancel \/ PickerSelect
    BY <1>8, IndOpenPicker, IndPickerCancel, IndPickerSelect
  <1>9. CASE HistoryLeave \/ HistoryUp \/ HistoryDown \/ HistoryReplay
    BY <1>9, IndHistoryLeave, IndHistorySelect, IndHistoryReplay
  <1>10. CASE Quit
    BY <1>10, IndUnchanged DEF Quit
  <1> QED  BY <1>1, <1>2, <1>3, <1>4, <1>5, <1>6, <1>7, <1>8, <1>9, <1>10 DEF KeyPress

\* Every step keeps the invariant.
LEMMA IndStep == IndInv /\ [Next]_vars => IndInv'
  <1> SUFFICES ASSUME IndInv, [Next]_vars PROVE IndInv'
      OBVIOUS
  <1>1. CASE KeyPress
    BY <1>1, IndKeyPress
  <1>2. CASE Resize
    BY <1>2, IndResize
  <1>3. CASE \E j \in jobs : Answered(j) \/ TimesOut(j) \/ PhotoUnreadable(j)
    BY <1>3, IndJobEnds
  <1>4. CASE \E j \in jobs : Deliver(j)
    BY <1>4, IndDeliverHealth, IndDeliverResult DEF Deliver
  <1>5. CASE UNCHANGED vars
    <2>1. quitting' \in BOOLEAN
      BY <1>5 DEF vars, IndInv, TypeOK
    <2> QED  BY <1>5, <2>1, IndUnchanged DEF vars
  <1> QED  BY <1>1, <1>2, <1>3, <1>4, <1>5 DEF Next

-----------------------------------------------------------------------------
(***************************************************************************)
(* What is shown.                                                          *)
(***************************************************************************)

\* The inductive invariant holds of every behaviour of the client.
THEOREM Invariance == Spec => []IndInv
  BY IndInit, IndStep, PTL DEF Spec

\* Every variable stays in its type: no id is made up, and the history never
\* grows over its limit.
THEOREM TypeCorrect == Spec => []TypeOK
  <1>1. IndInv => TypeOK
    BY DEF IndInv
  <1> QED  BY <1>1, Invariance, PTL

\* The user has at most one request under way, and the model is busy exactly
\* while it is, whatever the health check of the start does beside it.
THEOREM SingleCall == Spec => []OneCallAtATime
  <1>1. IndInv => OneCallAtATime
    BY DEF IndInv
  <1> QED  BY <1>1, Invariance, PTL

\* A request under way is about the session that is current when its answer
\* comes in.
THEOREM CurrentSession == Spec => []InFlightIsCurrent
  <1>1. IndInv => InFlightIsCurrent
    BY DEF IndInv
  <1> QED  BY <1>1, Invariance, PTL

\* No key indexes a field or an entry that is not there.
THEOREM ValidSelections == Spec => []SelectionsExist
  <1>1. IndInv => SelectionsExist
    BY DEF IndInv
  <1> QED  BY <1>1, Invariance, PTL

\* The one field that takes keys is the one the form shows as focused.
THEOREM KeysGoWhereShown == Spec => []KeysReachShownField
  <1>1. IndInv => KeysReachShownField
    BY DEF IndInv
  <1> QED  BY <1>1, Invariance, PTL

\* Once the health check of the start has been recorded, Enter on the panel
\* replays the entry that the panel shows as selected.
THEOREM CurrentPanel == Spec => []PanelIsCurrent
  <1>1. IndInv => PanelIsCurrent
    BY DEF IndInv
  <1> QED  BY <1>1, Invariance, PTL

\* What update.go says of the panel, of which the run of ShownIsReplayed shows
\* that it fails while the health check of the start is on its way, holds from
\* the first redrawing after that check on.
THEOREM SettledPanel == Spec => [](panel.settled => ShownIsReplayed)
  <1>1. IndInv => (panel.settled => ShownIsReplayed)
    <2> SUFFICES ASSUME IndInv, panel.settled, focus = "history", ~busy
                 PROVE  /\ panel.selected \in DOMAIN panel.entries
                        /\ panel.entries[panel.selected]
                             = EntriesNewestFirst(history)[historyIdx]
      BY DEF ShownIsReplayed
    <2>1. /\ panel.entries = EntriesNewestFirst(history)
          /\ panel.selected = historyIdx
          /\ historyIdx \in 1..Len(history) /\ history \in Seq(Entry)
      BY DEF IndInv, TypeOK, PanelIsCurrent, SelectionsExist
    <2>2. DOMAIN EntriesNewestFirst(history) = 1..Len(history)
      BY <2>1, NewestFirstFacts, LenProperties
    <2> QED  BY <2>1, <2>2
  <1> QED  BY <1>1, Invariance, PTL
=============================================================================
