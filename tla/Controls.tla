---------------------------- MODULE Controls ----------------------------
(***************************************************************************)
(* The controls of the TUI toolkit, control.c: an input box, a list box    *)
(* and a scrolling text box.  Each is one record, the C struct, that is    *)
(* changed by its message handler; "self" is any one of them.  Offsets and *)
(* lines count from 0, as in the code.                                     *)
(***************************************************************************)
EXTENDS Naturals, Sequences, FiniteSetsExt, SequencesExt

CONSTANTS
    Letters,       \* printable characters, with Space among them
    Keys,          \* bound: the letters that are typed
    Space, Newline,
    BufLen,        \* INPUTBOX_BUF_MAX_LEN
    TextLen,       \* SCROLLTEXTBOX_TEXT_MAXLEN
    MaxLines,      \* maxLines of the scrolling text box
    Widths,        \* widths a control may be given
    Heights,       \* heights a control may be given
    EntryHeights,  \* heights of the entries of a list
    MaxEntries,    \* bound: entries of a list
    Appends,       \* bound: the texts that are appended
    SelectIn       \* bound: the kinds of control that are selected from

ASSUME ControlsAssumption ==
    /\ Space \in Letters /\ Keys \subseteq Letters /\ Newline \notin Letters
    /\ BufLen \in Nat \ {0} /\ MaxLines \in Nat \ {0} /\ TextLen \in Nat \ {0, 1}
    /\ MaxEntries \in Nat /\ EntryHeights \subseteq Nat \ {0}
    /\ \A n \in Widths \cup Heights : n \in Nat /\ n >= 3
    /\ Appends \subseteq Seq(Letters \cup {Newline})
    /\ SelectIn \subseteq {"input", "text"}

VARIABLES
    self,     \* the control
    typed     \* history: what is left and right of the cursor of an editor

vars == <<self, typed>>

NoSelection == [active |-> FALSE, startByte |-> 0, endByte |-> 0]

ControlInputBoxConstruct(width, hideContent) ==
    [kind |-> "input", width |-> width, buf |-> <<>>, curLen |-> 0, curLoc |-> 0,
     viewBegin |-> 0, hideContent |-> hideContent, takeOverInput |-> FALSE,
     selection |-> NoSelection]

ControlListBoxConstruct(height) ==
    [kind |-> "list", height |-> height, list |-> <<>>, curLine |-> 0, viewBegin |-> 0,
     takeOverInput |-> FALSE]

ControlScrollTextBoxConstruct(width, height) ==
    [kind |-> "text", width |-> width, height |-> height, text |-> <<>>, viewBegin |-> 0,
     shown |-> FALSE, selection |-> NoSelection]

Init ==
    /\ self \in {ControlInputBoxConstruct(w, h) : w \in Widths, h \in BOOLEAN}
                \cup {ControlListBoxConstruct(h) : h \in Heights}
                \cup {ControlScrollTextBoxConstruct(w, h) : w \in Widths, h \in Heights}
    /\ typed = [left |-> <<>>, right |-> <<>>]

-----------------------------------------------------------------------------
(***************************************************************************)
(* The input box.  buf keeps what memmove left behind curLen.              *)
(***************************************************************************)
Max0(a, b) == IF a > b THEN a - b ELSE 0

(* memmove(buf + to, buf + from, n).                                       *)
Memmove(buf, to, from, n) ==
    [i \in 1..(IF to + n > Len(buf) THEN to + n ELSE Len(buf)) |->
        IF i > to /\ i <= to + n THEN buf[i - to + from] ELSE buf[i]]

(* Mutant: the last character is left out of the move.                     *)
Backspace_MovesOneShort(b) ==
    IF b.curLoc = 0 THEN b
    ELSE [b EXCEPT !.buf = IF b.curLoc < b.curLen
                           THEN Memmove(@, b.curLoc - 1, b.curLoc, b.curLen - b.curLoc - 1) ELSE @,
                   !.curLoc = @ - 1, !.curLen = @ - 1]

Backspace(b) ==
    IF b.curLoc = 0 THEN b
    ELSE [b EXCEPT !.buf = IF b.curLoc < b.curLen
                           THEN Memmove(@, b.curLoc - 1, b.curLoc, b.curLen - b.curLoc) ELSE @,
                   !.curLoc = @ - 1, !.curLen = @ - 1]

Delete(b) ==
    IF b.curLoc = b.curLen THEN b
    ELSE [b EXCEPT !.buf = Memmove(@, b.curLoc, b.curLoc + 1, b.curLen - b.curLoc - 1),
                   !.curLen = @ - 1]

Store(buf, loc, ch) ==
    [i \in 1..(IF loc + 1 > Len(buf) THEN loc + 1 ELSE Len(buf)) |-> IF i = loc + 1 THEN ch ELSE buf[i]]

Insert(b, ch) ==
    IF b.curLen = BufLen THEN b
    ELSE [b EXCEPT !.buf = Store(IF b.curLoc = b.curLen THEN @
                                 ELSE Memmove(@, b.curLoc + 1, b.curLoc, b.curLen - b.curLoc),
                                 b.curLoc, ch),
                   !.curLoc = @ + 1, !.curLen = @ + 1]

InputKeys == Keys \cup
    {"enter", "escape", "left", "right", "home", "end", "backspace", "delete", "other"}

InputBoxKey(b, key) ==
    CASE key \in {"enter", "escape"} -> [b EXCEPT !.takeOverInput = FALSE]
      [] key = "left" -> [b EXCEPT !.curLoc = Max0(@, 1)]
      [] key = "right" -> IF b.curLoc < b.curLen THEN [b EXCEPT !.curLoc = @ + 1] ELSE b
      [] key = "home" -> [b EXCEPT !.curLoc = 0]
      [] key = "end" -> [b EXCEPT !.curLoc = b.curLen]
      [] key = "backspace" -> [Backspace(b) EXCEPT !.takeOverInput = TRUE]
      [] key = "delete" -> [Delete(b) EXCEPT !.takeOverInput = TRUE]
      [] key = "other" -> [b EXCEPT !.takeOverInput = TRUE]
      [] key \in Letters -> [Insert(b, key) EXCEPT !.takeOverInput = TRUE]

(* The end of every message: the view follows the cursor.                  *)
FollowCursor(b) ==
    IF b.curLoc >= b.width - 2 + b.viewBegin
    THEN [b EXCEPT !.viewBegin = b.curLoc - (b.width - 2) + 1]
    ELSE IF b.viewBegin > 0 /\ b.curLoc <= b.viewBegin
         THEN [b EXCEPT !.viewBegin = Max0(b.curLoc, 1)] ELSE b

(* The offsets of buf the box draws.                                       *)
ControlInputBoxDraw(b) == b.viewBegin..(b.viewBegin + b.width - 3)

(* What the same key does to a text with a cursor in it.                   *)
Typed(t, key) ==
    CASE key = "left" /\ t.left # <<>> ->
            [left |-> Front(t.left), right |-> <<Last(t.left)>> \o t.right]
      [] key = "right" /\ t.right # <<>> ->
            [left |-> Append(t.left, Head(t.right)), right |-> Tail(t.right)]
      [] key = "home" -> [left |-> <<>>, right |-> t.left \o t.right]
      [] key = "end" -> [left |-> t.left \o t.right, right |-> <<>>]
      [] key = "backspace" /\ t.left # <<>> -> [t EXCEPT !.left = Front(@)]
      [] key = "delete" /\ t.right # <<>> -> [t EXCEPT !.right = Tail(@)]
      [] key \in Letters /\ Len(t.left \o t.right) < BufLen -> [t EXCEPT !.left = Append(@, key)]
      [] OTHER -> t

ControlInputBoxMsgHandler ==
    /\ self.kind = "input"
    /\ \/ \E key \in InputKeys :
             self' = FollowCursor(InputBoxKey(self, key)) /\ typed' = Typed(typed, key)
       \/ self' = FollowCursor([self EXCEPT !.takeOverInput = TRUE]) /\ UNCHANGED typed
       \/ \E w \in Widths : self' = FollowCursor([self EXCEPT !.width = w]) /\ UNCHANGED typed

(* A page empties its boxes without a message to them.                     *)
LoginRegCleanup ==
    /\ self.kind = "input"
    /\ self' = [self EXCEPT !.curLen = 0, !.curLoc = 0, !.viewBegin = 0]
    /\ typed' = [left |-> <<>>, right |-> <<>>]

(* The command line of the server keeps its view.                          *)
CommandInputSubmit ==
    /\ self.kind = "input" /\ self.curLen \in 1..(BufLen - 1)
    /\ self' = FollowCursor([self EXCEPT !.curLen = 0, !.curLoc = 0, !.takeOverInput = FALSE])
    /\ typed' = [left |-> <<>>, right |-> <<>>]

-----------------------------------------------------------------------------
(***************************************************************************)
(* The list box.  Only the heights of the entries matter.                  *)
(***************************************************************************)
EntryCnt(b) == Len(b.list)
Inner(b) == b.height - 2
HeightOf(b, i, j) ==        \* of entries i to j, as far as there are any
    FoldSeq(+, 0, SubSeq(b.list, i + 1, IF j < EntryCnt(b) THEN j + 1 ELSE EntryCnt(b)))

(* The entries from "from" that fit into the box one after the other.      *)
Fitting(b, from) ==
    {i \in from..(EntryCnt(b) - 1) : HeightOf(b, from, i) <= Inner(b)}

ListBoxCountVisibleEntries(b) ==
    IF Fitting(b, b.viewBegin) = {} THEN 1 ELSE Cardinality(Fitting(b, b.viewBegin))

(* The scan for the new first line stops before entry 0.                   *)
ListBoxAdjustViewBegin(b) ==
    LET tooHigh == {i \in 1..b.curLine : HeightOf(b, i, b.curLine) > Inner(b)}
    IN  IF b.curLine < b.viewBegin THEN [b EXCEPT !.viewBegin = b.curLine]
        ELSE IF b.curLine <= Max({b.viewBegin} \cup Fitting(b, b.viewBegin)) THEN b
        ELSE [b EXCEPT !.viewBegin = IF tooHigh = {} THEN 0 ELSE Max(tooHigh) + 1]

(* The entry that is drawn in a row, if any; the last one may be cut.      *)
ControlListBoxDraw(b, row) ==
    {i \in b.viewBegin..(EntryCnt(b) - 1) :
        /\ row \in 1..Inner(b)
        /\ row > HeightOf(b, b.viewBegin, i) - b.list[i + 1]
        /\ row <= HeightOf(b, b.viewBegin, i)}

ListKeys == {"escape", "up", "down", "pageup", "pagedown", "home", "end"}

ListBoxKey(b, key) ==
    LET last == EntryCnt(b) - 1
        page == ListBoxCountVisibleEntries(b)
        line == CASE key = "up" -> IF b.curLine > 0 THEN b.curLine - 1 ELSE last
                  [] key = "down" -> IF b.curLine < last THEN b.curLine + 1 ELSE 0
                  [] key = "pageup" -> Max0(b.curLine, page)
                  [] key = "home" -> 0
                  [] key = "pagedown" ->
                        IF b.curLine + page < EntryCnt(b) THEN b.curLine + page ELSE last
                  [] key = "end" -> last
                  [] key = "escape" -> b.curLine
    IN  IF key = "escape" THEN [b EXCEPT !.takeOverInput = FALSE]
        ELSE IF EntryCnt(b) = 0
             THEN [b EXCEPT !.curLine = IF key = "home" THEN 0
                                        ELSE IF key = "pageup" THEN Max0(@, 1) ELSE @]
        ELSE [b EXCEPT !.curLine = line]

(* Mutant: the borders are not taken off the row.                          *)
ListBoxClick_FromBorder(b, row) ==
    LET under == {i \in b.viewBegin..(EntryCnt(b) - 1) :
                     row < HeightOf(b, b.viewBegin, i)}
    IN  IF under = {} THEN b ELSE [b EXCEPT !.curLine = Min(under)]

(* A click in a row of the window: the first entry that reaches below it.  *)
(* Row 0 is the border; one less than that is the largest number there is. *)
ListBoxClick(b, row) ==
    LET under == {i \in b.viewBegin..(EntryCnt(b) - 1) :
                     row # 0 /\ row - 1 < HeightOf(b, b.viewBegin, i)}
    IN  IF under = {} THEN b ELSE [b EXCEPT !.curLine = Min(under)]

ControlListBoxMsgHandler ==
    /\ self.kind = "list"
    /\ \/ \E key \in ListKeys : self' = ListBoxAdjustViewBegin(ListBoxKey(self, key))
       \/ self' = ListBoxAdjustViewBegin([self EXCEPT !.takeOverInput = TRUE])
       \/ \E h \in Heights : self' = ListBoxAdjustViewBegin([self EXCEPT !.height = h])
    /\ UNCHANGED typed

ListBoxClicked ==
    /\ self.kind = "list"
    /\ \E row \in 0..(self.height - 1) : self' = ListBoxAdjustViewBegin(ListBoxClick(self, row))
    /\ UNCHANGED typed

ControlListBoxAppendMulti ==
    /\ self.kind = "list" /\ EntryCnt(self) < MaxEntries
    /\ \E h \in EntryHeights : self' = [self EXCEPT !.list = Append(@, h)]
    /\ UNCHANGED typed

(* The selection and the view stay where they are.                         *)
ControlListBoxClear ==
    /\ self.kind = "list"
    /\ self' = [self EXCEPT !.list = <<>>]
    /\ UNCHANGED typed

-----------------------------------------------------------------------------
(***************************************************************************)
(* The text box: where its lines begin and what is drawn of them.          *)
(***************************************************************************)
Avail(b) == b.width - 2

(* Mutant: a line that is broken at a space begins one character late.     *)
AdvanceVisualLine_SkipsOne(text, start, avail) ==
    LET end == Min({Len(text)} \cup {i \in start..(Len(text) - 1) : text[i + 1] = Newline})
        breaks == {p \in (start + 1)..(start + avail) : text[p] = Space}
    IN  IF end - start <= avail
        THEN [next |-> IF end < Len(text) THEN end + 1 ELSE end, broken |-> FALSE]
        ELSE IF breaks # {} THEN [next |-> Max(breaks) + 1, broken |-> TRUE]
        ELSE [next |-> start + avail, broken |-> FALSE]

(* textBoxAdvanceVisualLine: the line that begins at "start" ends after a  *)
(* newline, after the last space that fits, or where the box ends.         *)
AdvanceVisualLine(text, start, avail) ==
    LET end == Min({Len(text)} \cup {i \in start..(Len(text) - 1) : text[i + 1] = Newline})
        breaks == {p \in (start + 1)..(start + avail) : text[p] = Space}
    IN  IF end - start <= avail
        THEN [next |-> IF end < Len(text) THEN end + 1 ELSE end, broken |-> FALSE]
        ELSE IF breaks # {} THEN [next |-> Max(breaks), broken |-> TRUE]
        ELSE [next |-> start + avail, broken |-> FALSE]

(* Where visual line k begins, and whether the line before it was broken   *)
(* at a space.                                                             *)
LineStart(b) ==
    LET at[k \in 0..Len(b.text)] ==
            IF k = 0 THEN [next |-> 0, broken |-> FALSE]
            ELSE LET above == at[k - 1]
                 IN  IF above.next >= Len(b.text) THEN above
                     ELSE AdvanceVisualLine(b.text, above.next, Avail(b))
    IN  at

CountVisualLines(b) ==
    Min({k \in 0..Len(b.text) : LineStart(b)[k].next >= Len(b.text)})

MaxView(b) == Max0(CountVisualLines(b), b.height - 2)

(* The offsets start..(end - 1) a line shows: no spaces at a break and     *)
(* none at its end.                                                        *)
GetVisualLineRange(b, k) ==
    LET from == LineStart(b)[k]
        next == AdvanceVisualLine(b.text, from.next, Avail(b)).next
        Blank(i, j) == \A p \in (i + 1)..j : b.text[p] = Space
        start == IF from.broken
                 THEN Max({i \in from.next..Len(b.text) : Blank(from.next, i)}) ELSE from.next
        full == IF next > start /\ b.text[next] = Newline THEN next - 1 ELSE next
    IN  [start |-> start,
         end |-> IF full <= start THEN full ELSE Min({j \in start..full : Blank(j, full)})]

(* The offset that is drawn in a column of a row, if any.                  *)
ControlTextBoxDraw(b, row, col) ==
    LET k == b.viewBegin + row - 1
        range == GetVisualLineRange(b, k)
    IN  IF row \in 1..(b.height - 2) /\ k < CountVisualLines(b)
        THEN {range.start + col - 1} \cap (range.start..(range.end - 1)) ELSE {}

TextBoxCoordToByteOffset(b, row, col) ==
    LET k == b.viewBegin + Max0(row, 1)
        range == GetVisualLineRange(b, k)
    IN  IF b.text = <<>> THEN 0
        ELSE IF k >= CountVisualLines(b) THEN Len(b.text)
        ELSE IF col < 1 THEN range.start
        ELSE Min({range.start + col - 1, range.end})

InputBoxCoordToByteOffset(b, col) ==
    IF col <= 1 THEN b.viewBegin ELSE Min({b.viewBegin + col - 1, b.curLen})

TextBoxKey(b, key) ==
    LET page == b.height - 2
    IN  CASE key = "up" -> [b EXCEPT !.viewBegin = Max0(@, 1)]
          [] key = "down" -> [b EXCEPT !.viewBegin = IF @ < MaxView(b) THEN @ + 1 ELSE @]
          [] key = "pageup" -> [b EXCEPT !.viewBegin = Max0(@, page)]
          [] key = "pagedown" ->
                [b EXCEPT !.viewBegin = IF @ + page < MaxView(b) THEN @ + page ELSE MaxView(b)]
          [] key = "home" -> [b EXCEPT !.viewBegin = 0]
          [] key = "end" -> [b EXCEPT !.viewBegin = MaxView(b)]

(* The wheel sends what the arrows do.                                     *)
ControlTextBoxMsgHandler ==
    /\ self.kind = "text" /\ self.shown
    /\ \/ \E key \in {"up", "down", "pageup", "pagedown", "home", "end"} : self' = TextBoxKey(self, key)
       \/ \E w \in Widths, h \in Heights : self' = [self EXCEPT !.width = w, !.height = h]
    /\ UNCHANGED typed

(* The page of the box is entered or left.                                 *)
ShowPage ==
    /\ self.kind = "text"
    /\ self' = [self EXCEPT !.shown = ~@]
    /\ UNCHANGED typed

LineCount(text) ==
    Cardinality({i \in 1..Len(text) : text[i] = Newline \/ i = Len(text)})

(* What is left when whole lines are taken off the front of a text until   *)
(* it has no more than so many characters and lines; a text with no        *)
(* newline goes as a whole.                                                *)
TrimLines(text, size, lines) ==
    LET rests == {i \in 0..Len(text) : i \in {0, Len(text)} \/ text[i] = Newline}
        Enough(t) == Len(t) <= size /\ LineCount(t) <= lines
    IN  SubSeq(text, Min({i \in rests : i = Len(text) \/ Enough(SubSeq(text, i + 1, Len(text)))}) + 1,
               Len(text))

(* Mutant: the view is left where it is.                                   *)
ShowEnd_Stays(b) == b

(* A box that has a window shows the end of its text.                      *)
ShowEnd(b) == IF b.shown THEN [b EXCEPT !.viewBegin = MaxView(b)] ELSE b

ControlScrollTextBoxAppend ==
    /\ self.kind = "text"
    /\ \E new \in Appends :
          LET kept == TrimLines(self.text, TextLen - 1 - Len(new), TextLen)
              cut == SubSeq(new, 1, Min({Len(new), TextLen - Len(kept) - 1}))
          IN  self' = ShowEnd([self EXCEPT !.text =
                          TrimLines(kept \o cut, TextLen, MaxLines)])
    /\ UNCHANGED typed

CmdScrollBoxClear ==
    /\ self.kind = "text"
    /\ self' = [self EXCEPT !.text = <<>>, !.viewBegin = 0]
    /\ UNCHANGED typed

-----------------------------------------------------------------------------
(***************************************************************************)
(* Selecting with the mouse: press, drag, release.  The release copies     *)
(* what lies between the two ends, if it is still in the text, to the      *)
(* clipboard of the terminal, which is not modelled.                       *)
(***************************************************************************)
CoordToByteOffset(b, row, col) ==
    IF b.kind = "text" THEN TextBoxCoordToByteOffset(b, row, col)
    ELSE InputBoxCoordToByteOffset(b, col)

Selectable(b) ==
    \/ b.kind = "text" /\ b.shown /\ b.text # <<>>
    \/ b.kind = "input" /\ ~b.hideContent /\ b.curLen > 0

Rows(b) == IF b.kind = "text" THEN 0..(b.height - 1) ELSE {1}

SelectionHandleMouse(b, event, at) ==
    CASE event = "press" -> [active |-> TRUE, startByte |-> at, endByte |-> at]
      [] event = "drag" -> IF b.selection.active THEN [b.selection EXCEPT !.endByte = at] ELSE b.selection
      [] event = "release" ->
            IF b.selection.active THEN [b.selection EXCEPT !.active = FALSE, !.endByte = at] ELSE b.selection

ControlSelectionHandleMouse ==
    /\ self.kind \in SelectIn /\ Selectable(self)
    /\ \E event \in {"press", "drag", "release"}, row \in Rows(self), col \in 0..(self.width - 1) :
          LET selected == [self EXCEPT !.selection =
                              SelectionHandleMouse(self, event, CoordToByteOffset(self, row, col))]
          IN  self' = IF self.kind = "input" THEN FollowCursor(selected) ELSE selected
    /\ UNCHANGED typed

Next ==
    \/ ControlInputBoxMsgHandler \/ LoginRegCleanup \/ CommandInputSubmit
    \/ ControlListBoxMsgHandler \/ ListBoxClicked \/ ControlListBoxAppendMulti \/ ControlListBoxClear
    \/ ControlTextBoxMsgHandler \/ ShowPage \/ ControlScrollTextBoxAppend \/ CmdScrollBoxClear
    \/ ControlSelectionHandleMouse

Spec == Init /\ [][Next]_vars

=============================================================================
