\* An input box of three characters, a list of four entries and a text of seven characters.
CONSTANTS
    Letters = {"a", "b", "_"}
    Keys = {"a", "b"}
    Space = "_"
    Newline = "|"
    BufLen = 5
    TextLen = 8
    MaxLines = 3
    Widths = {4, 5}
    Heights = {3, 5}
    EntryHeights = {1, 2}
    MaxEntries = 4
    Appends <- MCAppends
    SelectIn = {"input"}
SPECIFICATION Spec
CHECK_DEADLOCK FALSE
INVARIANTS EditsLikeText WrapLosesNothing MouseHitsWhatIsDrawn
PROPERTY AppendIsShown
