---------------------------- MODULE HistoryPanel ----------------------------
(***************************************************************************)
(* The history panel of tuti-tui: the lines that historyContent makes of   *)
(* the retained entries, and the viewport that shows some of them.         *)
(*                                                                         *)
(* The content is made again only by syncHistoryViewport, so it may lag    *)
(* behind the history, the focus and the size of the window.  Where the    *)
(* viewport is at outlives the content, and is only set when the selected  *)
(* entry is not all in view.  bubbles/viewport is external.                *)
(*                                                                         *)
(* Terminal has the rest of the update loop; here every focus but the      *)
(* panel's is "menu", a request is its round trip, and nobody quits.       *)
(* Entries count from 1, lines from 0 as in the code.  Widths are left     *)
(* out: a line is cut, never wrapped.                                      *)
(***************************************************************************)
EXTENDS RequestHistory

CONSTANTS
  Entry,     \* an entry, as [request, response]: the lines of either text
  Heights    \* bound: the heights the terminal's window may take

ASSUME EntryAssumption ==
  Entry \subseteq [request : Nat \ {0}, response : Nat \ {0}]

ASSUME HeightsAssumption == Heights \subseteq Nat

VARIABLES
  history,      \* Client.history, oldest first
  underWay,     \* the round trips not yet ended: "health", the start's, and "call"
  focus,
  historyIdx,
  busy,
  ready,        \* applySize has made the viewport
  height,       \* Height of the viewport
  yOffset,      \* its YOffset: the line at its top
  shown,        \* what its content was made of
  scrolled      \* history: the user has scrolled since it was made

vars == <<history, underWay, focus, historyIdx, busy, ready, height, yOffset,
          shown, scrolled>>

-----------------------------------------------------------------------------
\* The lines of one entry, by what they are: a summary, the button or the
\* message in its place if the entry is selected, and the two texts, each under
\* a heading.
Block(e, selected, sending) ==
  <<"summary">>
  \o (IF selected THEN <<IF sending THEN "sending" ELSE "replay">> ELSE <<>>)
  \o [k \in 1..(2 + e.request + e.response) |-> "text"]

\* historyContent: one block per entry, newest first, or one line if there is
\* none.  `selected` is 0 unless the panel has the focus.
Blocks(c) ==
  IF c.entries = <<>>
  THEN <<<<"text">>>>
  ELSE [i \in DOMAIN c.entries |-> Block(c.entries[i], i = c.selected, c.busy)]

Content(c) == FlattenSeq(Blocks(c))

\* line: how many lines the first n blocks have.
Lines(blocks) ==
  LET line[n \in 0..Len(blocks)] == IF n = 0 THEN 0 ELSE line[n - 1] + Len(blocks[n])
  IN line

\* Broken: the lines of the selected entry are counted as if it had no button.
SelectedLinesShort(c) ==
  IF c.selected \in DOMAIN c.entries
  THEN LET line == Lines(Blocks(c))
       IN [start |-> line[c.selected - 1], end |-> line[c.selected] - 2]
  ELSE [start |-> 0, end |-> IF c.entries = <<>> THEN -1 ELSE 0]

\* selStart and selEnd.  Without a selected entry both stay at 0, which is the
\* first line, unless there is no entry at all.
SelectedLines(c) ==
  IF c.selected \in DOMAIN c.entries
  THEN LET line == Lines(Blocks(c))
       IN [start |-> line[c.selected - 1], end |-> line[c.selected] - 1]
  ELSE [start |-> 0, end |-> IF c.entries = <<>> THEN -1 ELSE 0]

-----------------------------------------------------------------------------
AtLeast(n, low) == IF n < low THEN low ELSE n

\* topRowHeight, and applySize's historyH.
TopRowHeight(h) == AtLeast((h * 2) \div 5, 8)

HistoryHeight(h) == AtLeast(TopRowHeight(h) - 3, 1)

\* viewport: maxYOffset, SetYOffset, and SetContent's care for an offset that
\* the new content does not reach.
MaxYOffset(lines, h) == AtLeast(Len(lines) - h, 0)

Clamped(y, lines, h) ==
  IF y > MaxYOffset(lines, h) THEN MaxYOffset(lines, h) ELSE AtLeast(y, 0)

KeptOffset(y, lines, h) ==
  IF y > Len(lines) - 1 THEN MaxYOffset(lines, h) ELSE y

\* syncHistoryViewport of a viewport that is at y, with the values the model
\* has after the step.
SyncFrom(y) ==
  LET content == [entries  |-> EntriesNewestFirst(history'),
                  selected |-> IF focus' = "history" THEN historyIdx' ELSE 0,
                  busy     |-> busy']
      lines  == Content(content)
      sel    == SelectedLines(content)
      top    == KeptOffset(y, lines, height')
      bottom == top + height' - 1
  IN /\ shown' = content
     /\ yOffset' = IF sel.start <= sel.end /\ (sel.start < top \/ sel.end > bottom)
                   THEN Clamped(sel.start, lines, height')
                   ELSE top
     /\ scrolled' = FALSE

Sync == SyncFrom(yOffset)

\* The viewport is the zero one until the size of the window is known.
Init ==
  /\ history = <<>> /\ underWay = {"health"}
  /\ focus = "menu" /\ historyIdx = 1 /\ busy = FALSE
  /\ ready = FALSE /\ height = 0 /\ yOffset = 0 /\ scrolled = FALSE
  /\ shown = [entries |-> <<>>, selected |-> 0, busy |-> FALSE]

-----------------------------------------------------------------------------
Key(f) == ~busy /\ focus = f

PanelUnchanged == UNCHANGED <<ready, height, yOffset, shown, scrolled>>

\* Tab in the menu.
MenuTab ==
  /\ Key("menu") /\ history # <<>>
  /\ focus' = "history" /\ historyIdx' = 1
  /\ UNCHANGED <<history, underWay, busy, ready, height>>
  /\ Sync

\* runNow, of a command for the network and of any other one.
Send ==
  /\ Key("menu")
  /\ busy' = TRUE /\ underWay' = underWay \cup {"call"}
  /\ UNCHANGED <<history, focus, historyIdx>>
  /\ PanelUnchanged

RunHere ==
  /\ Key("menu")
  /\ UNCHANGED <<history, underWay, focus, historyIdx, busy, ready, height>>
  /\ Sync

\* handleHistoryKey.  Leaving does not make the content again.
HistoryLeave ==
  /\ Key("history")
  /\ focus' = "menu"
  /\ UNCHANGED <<history, underWay, historyIdx, busy>>
  /\ PanelUnchanged

HistorySelect(i) ==
  /\ Key("history")
  /\ historyIdx' = i
  /\ UNCHANGED <<history, underWay, focus, busy, ready, height>>
  /\ Sync

HistoryUp == HistorySelect(IF historyIdx > 1 THEN historyIdx - 1 ELSE historyIdx)

HistoryDown ==
  HistorySelect(IF historyIdx < Len(history) THEN historyIdx + 1 ELSE historyIdx)

HistoryReplay ==
  /\ Key("history") /\ historyIdx \in 1..Len(history)
  /\ busy' = TRUE /\ underWay' = underWay \cup {"call"}
  /\ UNCHANGED <<history, focus, historyIdx, ready, height>>
  /\ Sync

\* Page up and down, home and end: by a viewport's height, or all the way.
Scroll ==
  /\ Key("history")
  /\ \E y \in {yOffset - height, yOffset + height, 0, Len(Content(shown))} :
       yOffset' = Clamped(y, Content(shown), height)
  /\ scrolled' = TRUE
  /\ UNCHANGED <<history, underWay, focus, historyIdx, busy, ready, height, shown>>

-----------------------------------------------------------------------------
\* applySize: the first one makes the viewport.
Resize ==
  /\ \E h \in Heights : height' = HistoryHeight(h)
  /\ ready' = TRUE
  /\ UNCHANGED <<history, underWay, focus, historyIdx, busy>>
  /\ SyncFrom(IF ready THEN yOffset ELSE 0)

\* A round trip ends and is recorded, in a goroutine of its own: the panel does
\* not hear of it.
RoundTripEnds(t) ==
  /\ t \in underWay
  /\ underWay' = underWay \ {t}
  /\ \E e \in Entry : history' = Recorded(history, e)
  /\ UNCHANGED <<focus, historyIdx, busy>>
  /\ PanelUnchanged

\* The photo of a call cannot be read; a replay has none.
PhotoUnreadable ==
  /\ "call" \in underWay /\ focus = "menu"
  /\ underWay' = underWay \ {"call"}
  /\ UNCHANGED <<history, focus, historyIdx, busy>>
  /\ PanelUnchanged

\* Broken: the content is made before the model stops being busy.
DeliverResultSyncFirst ==
  /\ busy /\ "call" \notin underWay
  /\ busy' = FALSE
  /\ UNCHANGED <<history, underWay, focus, historyIdx, ready, height, yOffset>>
  /\ shown' = [entries  |-> EntriesNewestFirst(history),
               selected |-> IF focus = "history" THEN historyIdx ELSE 0,
               busy     |-> TRUE]
  /\ scrolled' = FALSE

\* handleResult.
DeliverResult ==
  /\ busy /\ "call" \notin underWay
  /\ busy' = FALSE
  /\ UNCHANGED <<history, underWay, focus, historyIdx, ready, height>>
  /\ Sync

Next ==
  \/ MenuTab \/ Send \/ RunHere
  \/ HistoryLeave \/ HistoryUp \/ HistoryDown \/ HistoryReplay \/ Scroll
  \/ Resize
  \/ \E t \in underWay : RoundTripEnds(t)
  \/ PhotoUnreadable \/ DeliverResult

Spec == Init /\ [][Next]_vars

-----------------------------------------------------------------------------
\* The lines in view.
Visible == {n \in yOffset..(yOffset + height - 1) : n < Len(Content(shown))}

\* Where the selected entry's block really is in the content, and what is there.
LinesOf(part) == {n \in 0..(Len(Content(shown)) - 1) : Content(shown)[n + 1] = part}

\* What update.go says of syncHistoryViewport: however entries, the selection and
\* the window have changed, and unless the user has scrolled away since, the
\* button of the selected entry and the summary above it are in view, and the
\* whole entry is if it fits.
SelectedOnScreen ==
  focus = "history" /\ ready /\ ~scrolled =>
    /\ historyIdx \in DOMAIN shown.entries
    /\ \A n \in LinesOf("replay") \cup LinesOf("sending") :
         LET size == Len(Block(shown.entries[historyIdx], TRUE, busy))
         IN /\ {n - 1, n} \subseteq Visible
            /\ size <= height => (n - 1)..(n + size - 2) \subseteq Visible

\* historyContent's "an explicit Replay button (or a sending message while busy)":
\* a user on the panel finds the button of the entry that the counter in the
\* heading names, and that entry only, and it says whether a replay is under way.
ButtonTellsBusy ==
  focus = "history" =>
    /\ shown.selected = historyIdx
    /\ Cardinality(LinesOf("sending")) = IF busy THEN 1 ELSE 0
    /\ Cardinality(LinesOf("replay")) = IF busy THEN 0 ELSE 1
-----------------------------------------------------------------------------
(***************************************************************************)
(* What makes these inductive.                                             *)
(***************************************************************************)
TypeOK ==
  /\ history \in Seq(Entry) /\ Len(history) <= MaxHistory
  /\ underWay \subseteq {"health", "call"}
  /\ focus \in {"menu", "history"} /\ historyIdx \in Nat \ {0}
  /\ busy \in BOOLEAN /\ ready \in BOOLEAN /\ scrolled \in BOOLEAN
  /\ height \in Nat /\ yOffset \in Nat
  /\ shown \in [entries : Seq(Entry), selected : Nat, busy : BOOLEAN]

\* While the focus is on the panel, its content has an entry for the selection
\* and was made with this selection and busy flag.  The history may have grown.
ContentIsOfSelection ==
  /\ Len(shown.entries) <= Len(history)
  /\ focus = "history" =>
       /\ historyIdx \in DOMAIN shown.entries
       /\ shown.selected = historyIdx /\ shown.busy = busy

\* There is room for a summary and a button.
RoomForButton == ready => height >= 2

\* The lines of the selected entry are in view from the first one, and all of
\* them if they fit.
InView(sel, y, h) ==
  /\ y <= sel.start /\ sel.start + 1 <= y + h - 1
  /\ sel.end - sel.start + 1 <= h => sel.end <= y + h - 1

SelectedInView ==
  focus = "history" /\ ready /\ ~scrolled => InView(SelectedLines(shown), yOffset, height)

IndInv ==
  /\ TypeOK
  /\ ContentIsOfSelection
  /\ RoomForButton
  /\ SelectedInView
=============================================================================
