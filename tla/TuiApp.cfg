\* All the pages of the client and one connecting thread, whose change of the page may overlap the frames of the loop.
CONSTANTS
    Runners = {r1}
    ChangeFrames = 1
SPECIFICATION Spec
CHECK_DEADLOCK FALSE
INVARIANTS OneControlHasFocus ClicksReachShownButtons WindowsAreOfThePage
PROPERTY FrameEnds
