------------------------- MODULE ControlsProps --------------------------
(***************************************************************************)
(* What the controls of control.c promise to the user in front of them.    *)
(***************************************************************************)
EXTENDS Controls

(***************************************************************************)
(* An input box holds the text a person who edits it has in mind: the      *)
(* first curLen bytes of buf are what was typed, and curLoc is the place   *)
(* in it, although the moves of memmove leave old bytes behind, and pages  *)
(* empty their boxes by setting three numbers (controlInputBoxMsgHandler). *)
(***************************************************************************)
EditsLikeText ==
    self.kind = "input" =>
        /\ SubSeq(self.buf, 1, self.curLen) = typed.left \o typed.right
        /\ self.curLoc = Len(typed.left)

(***************************************************************************)
(* Wrapping loses nothing: every character of a text box but spaces and    *)
(* newlines is on exactly one visual line, wherever the lines break, and   *)
(* no line is longer than the box (textBoxAdvanceVisualLine and            *)
(* textBoxGetVisualLineRange).                                             *)
(***************************************************************************)
WrapLosesNothing ==
    self.kind = "text" =>
        LET lines == 0..(CountVisualLines(self) - 1)
            Line(k) == GetVisualLineRange(self, k).start..(GetVisualLineRange(self, k).end - 1)
        IN  /\ \A p \in 0..(Len(self.text) - 1) : self.text[p + 1] \notin {Space, Newline} =>
                  Cardinality({k \in lines : p \in Line(k)}) = 1
            /\ \A k \in lines : Cardinality(Line(k)) <= Avail(self)

(***************************************************************************)
(* The mouse hits what is drawn: the offset a text box computes for a cell *)
(* is the character that stands there, in whatever way the text is wrapped *)
(* and scrolled, and a click on a list selects the entry that is drawn in  *)
(* the row, with entries of several rows and a last one that is cut        *)
(* (textBoxCoordToByteOffset and controlListBoxMsgHandler, against the two *)
(* functions that draw).                                                   *)
(***************************************************************************)
MouseHitsWhatIsDrawn ==
    /\ self.kind = "text" =>
          \A row \in Rows(self), col \in 1..Avail(self) :
              \A p \in ControlTextBoxDraw(self, row, col) : TextBoxCoordToByteOffset(self, row, col) = p
    /\ self.kind = "list" =>
          \A row \in 1..Inner(self) : \A i \in ControlListBoxDraw(self, row) :
              ListBoxClick(self, row).curLine = i

(***************************************************************************)
(* A line that is appended to a text box on the page that is shown can be  *)
(* read at once: its last printed character is drawn, and everything that  *)
(* is kept fits into the buffer and into maxLines                          *)
(* (controlScrollTextBoxAppend).                                           *)
(***************************************************************************)
AppendIsShown ==
    [][ControlScrollTextBoxAppend =>
        /\ Len(self'.text) < TextLen /\ LineCount(self'.text) <= MaxLines
        /\ self.shown /\ self'.text # <<>> /\ Last(self'.text) \notin {Space, Newline} =>
              \E row \in Rows(self'), col \in 1..Avail(self') :
                  Len(self'.text) - 1 \in ControlTextBoxDraw(self', row, col)]_vars

=============================================================================
