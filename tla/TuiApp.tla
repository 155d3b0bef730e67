----------------------------- MODULE TuiApp -----------------------------
(***************************************************************************)
(* The TUI application, tuiapp.c, running the pages of the client: one     *)
(* frame of the main loop reads a key, handles every message of the queue  *)
(* and updates the controls, while the threads that connect to a server    *)
(* change the page from outside (setupRunner of connectPage.c).  The whole *)
(* drain of the queue holds msgQueueLock; the page, its windows, the chain *)
(* of controls, the cursor and the stack of the walks have no lock.        *)
(***************************************************************************)
EXTENDS ClientPages, Naturals, FiniteSetsExt

CONSTANTS
    Runners,      \* bound: the threads that may connect at the same time
    ChangeFrames  \* bound: the frames followed while a thread changes the page and after a change that overlapped

ASSUME TuiAppAssumption == IsFiniteSet(Runners) /\ ChangeFrames \in Nat

None == "none"      \* index 0 of the registry

VARIABLES
    app,       \* the struct tuiApp, with the flags of the controls
    hidden,    \* controls whose visible flag is not set
    takeOver,  \* lists and game views whose takeOverInput flag is set (an input box does with Tab what the loop does)
    pc,        \* where the main loop is: "input", "drain", "update", "stopped" or "aborted"
    runner,    \* what each thread does next
    holds,     \* the control in the message that each thread waits to push
    moved,     \* history: the frames begun since a thread started to change the page, 0 again after one without overlap
    overlapped \* history: the loop used the page, the chain, the cursor or the stack in the middle of such a change

thread == <<runner, holds>>

vars == <<app, hidden, takeOver, pc, thread, moved, overlapped>>

-----------------------------------------------------------------------------
NoChangeUnderWay == \A r \in Runners : runner[r] \in {"idle", "connecting"}

Undisturbed == NoChangeUnderWay /\ ~overlapped

Push(a, msg) == [a EXCEPT !.queue = Append(@, msg)]
Msg(type, to) == [type |-> type, to |-> to]
Key(key) == [type |-> "Input", key |-> key]
Click(to, what) == [type |-> "Mouse", to |-> to, what |-> what]

(* tuiAppChangeRoot: the windows of the old page and of the pages          *)
(* registered after it go, the page changes, its windows come.             *)
RemoveWindows(a) ==
    LET AtOrAfter(p) == \E i, j \in DOMAIN PageSeq : i >= j /\ PageSeq[i] = p /\ PageSeq[j] = a.curRoot
    IN  [a EXCEPT !.windows = @ \ UNION {Subtree(p) : p \in {q \in ToSet(PageSeq) : AtOrAfter(q)}}]

MakeWindows(a) == [a EXCEPT !.windows = @ \cup Subtree(a.curRoot)]

ChangeRoot(a, page) == MakeWindows([RemoveWindows(a) EXCEPT !.curRoot = page])

(* A walk over the controls of the page empties gRenderStk, also under the *)
(* feet of a thread that walks them at the same time.                      *)
Walk(a) == [a EXCEPT !.renderStk = <<>>]

(* tuiAppRefreshNavChain, up to the correction of the cursor: it empties   *)
(* the chain and walks over the page, a control after the other.           *)
EmptyNavChain(a) ==
    [a EXCEPT !.navChain = <<>>, !.renderStk = SelectSeq(PreOrder(a.curRoot), LAMBDA c : c \in Focusable)]

PushNextControl(a) ==
    [a EXCEPT !.navChain = @ \o SelectSeq(<<Head(a.renderStk)>>, LAMBDA c : c \notin hidden),
              !.renderStk = Tail(@)]

RebuildNavChain(a) ==
    [Walk(a) EXCEPT !.navChain = SelectSeq(PreOrder(a.curRoot), LAMBDA c : c \in Focusable \ hidden)]

Places(a, c) == {i \in 0..(Len(a.navChain) - 1) : a.navChain[i + 1] = c}

LeaveFocus(a) ==
    IF a.index = None THEN a
    ELSE Push([a EXCEPT !.focused = @ \ {a.index}], Msg("FocusLeave", a.index))

EnterFocus(a, c, place) ==
    Push([a EXCEPT !.focused = @ \cup {c}, !.index = c, !.indexOfCache = place], Msg("FocusEnter", c))

(* The rest of it: a cursor that is not where the chain says moves to its  *)
(* new place, or to the first one.                                         *)
CursorIsRight(a) ==
    \/ a.navChain = <<>>
    \/ a.indexOfCache < Len(a.navChain) /\ a.navChain[a.indexOfCache + 1] = a.index

(* Mutant: the place in the chain is kept from the page before.            *)
RightCursor_KeepsPlace(a) ==
    IF Places(a, a.index) # {} THEN <<a.index, Min(Places(a, a.index))>>
    ELSE <<a.navChain[1], a.indexOfCache>>

RightCursor(a) ==
    IF Places(a, a.index) # {} THEN <<a.index, Min(Places(a, a.index))>> ELSE <<a.navChain[1], 0>>

CorrectCursor(a) ==
    IF CursorIsRight(a) THEN a ELSE EnterFocus(LeaveFocus(a), RightCursor(a)[1], RightCursor(a)[2])

ChangePage(a, page) ==
    Push(CorrectCursor(RebuildNavChain(ChangeRoot(a, page))), Msg("Resize", None))

Init ==
    /\ hidden = InitiallyHidden
    /\ takeOver = GameViews
    /\ app = Push([curRoot |-> "connectPage", windows |-> Subtree("connectPage"),
                   navChain |-> SelectSeq(PreOrder("connectPage"), LAMBDA c : c \in Focusable),
                   index |-> "connectAddressBox", indexOfCache |-> 0,
                   focused |-> {"connectAddressBox"}, selecting |-> None, renderStk |-> <<>>,
                   queue |-> <<Msg("FocusEnter", "connectAddressBox"), Msg("Resize", None)>>],
                  Msg("Resize", None))
    /\ pc = "input" /\ moved = 0 /\ overlapped = FALSE
    /\ runner = [r \in Runners |-> "idle"]
    /\ holds = [r \in Runners |-> None]

-----------------------------------------------------------------------------
(***************************************************************************)
(* tuiAppInput: at most one key or mouse event in a frame.                 *)
(***************************************************************************)
Keys == {"tab", "btab", "enter", "escape", "other"}

PressKey(a, key) ==
    IF a.index \in takeOver THEN Push(a, Key(key))
    ELSE CASE key = "tab" -> Push(a, Msg("CursorNext", None))
           [] key = "btab" -> Push(a, Msg("CursorPrev", None))
           [] OTHER -> Push(a, Key(key))

(* findWidgetAtMouse with the mouse over a control: one that is hidden or  *)
(* has no window lets the grid or the page around it be found.             *)
FindWidgetAtMouse(a, over) ==
    LET around == SelectSeq(PreOrder(a.curRoot), LAMBDA c :
                      /\ c \in a.windows \ hidden
                      /\ c \in {a.curRoot, over} \/ over \in ToSet(Children(c)))
    IN  IF around = <<>> THEN None ELSE Last(around)

FocusByMouse(a, target) ==
    IF target # a.index /\ Places(a, target) # {}
    THEN EnterFocus(LeaveFocus(a), target, Min(Places(a, target))) ELSE a

MousePressed(a, target) ==
    IF target = None THEN a
    ELSE Push([FocusByMouse(a, target) EXCEPT !.selecting = target], Click(target, "pressed"))

(* Mutant: every release is a click on the control that was pressed.       *)
MouseReleased_AlwaysClicks(a, target) ==
    IF a.selecting = None THEN a
    ELSE Push([a EXCEPT !.selecting = None], Click(a.selecting, "clicked"))

(* A release over the control that was pressed is a click on it.           *)
MouseReleased(a, target) ==
    IF a.selecting = None THEN a
    ELSE Push([a EXCEPT !.selecting = None],
              Click(a.selecting, IF target = a.selecting THEN "clicked" ELSE "released"))

(* A terminal that reports the click itself.                               *)
MouseClicked(a, target) ==
    IF target = None THEN a ELSE Push(FocusByMouse(a, target), Click(target, "clicked"))

(* A step of the loop that uses what a thread is changing.                 *)
Overlap == overlapped' = (overlapped \/ ~NoChangeUnderWay)

NoInput == UNCHANGED <<app, overlapped>>

ReadInput ==
    /\ Overlap
    /\ \/ \E key \in Keys : app' = PressKey(app, key)
       \/ app' = Push(app, Msg("Resize", None))
       \/ \E over \in Subtree(app.curRoot) \ Containers :
             LET target == FindWidgetAtMouse(app, over)
             IN  \/ app' \in {MousePressed(Walk(app), target), MouseClicked(Walk(app), target)}
                \/ app' = MouseReleased(IF app.selecting = None THEN app ELSE Walk(app), target)

Input ==
    /\ pc = "input" /\ (Undisturbed \/ moved <= ChangeFrames)
    /\ pc' = "drain" /\ moved' = IF Undisturbed THEN 0 ELSE moved + 1
    /\ NoInput \/ ReadInput
    /\ UNCHANGED <<hidden, takeOver, thread>>

-----------------------------------------------------------------------------
(***************************************************************************)
(* tuiAppMsgHandle: one message after the other until there is none.       *)
(***************************************************************************)
NextPlace(a, i) == IF i + 1 < Len(a.navChain) THEN i + 1 ELSE 0

PrevPlace(a, i) == IF i > 0 THEN i - 1 ELSE Len(a.navChain) - 1

(* The places tuiAppNavigate looks at, one after the other.                *)
Looked(a, back) ==
    LET at[d \in 0..Len(a.navChain)] ==
            IF d = 0 THEN a.indexOfCache
            ELSE IF back THEN PrevPlace(a, at[d - 1]) ELSE NextPlace(a, at[d - 1])
    IN  at

NavigateAborts(a, back) == a.navChain = <<>> \/ Looked(a, back)[1] >= Len(a.navChain)

Navigate(a, back) ==
    LET looked == Looked(a, back)
        ends == {d \in 1..Len(a.navChain) :
                    looked[d] = a.indexOfCache \/ a.navChain[looked[d] + 1] \notin hidden}
        place == looked[Min(ends \cup {Len(a.navChain)})]
    IN  EnterFocus(LeaveFocus(a), a.navChain[place + 1], place)

(* The page gets its window anew, and every container of it asks for its   *)
(* children again.                                                         *)
ResizePage(a) ==
    LET asking == SelectSeq(PreOrder(a.curRoot), LAMBDA c : c \in Containers)
    IN  [Walk(a) EXCEPT !.windows = @ \cup {a.curRoot},
                        !.queue = @ \o [i \in DOMAIN asking |-> Msg("Fetch", asking[i])]]

(* Mutant: a container that has no window gets windows for its children.   *)
Fetch_NoWindow(a, c) == [a EXCEPT !.windows = @ \cup ToSet(Children(c))]

(* controlGridLayout and controlPageRefreshChild.                          *)
Fetch(a, c) ==
    [a EXCEPT !.windows = IF c \in @ THEN @ \cup ToSet(Children(c)) ELSE @ \ ToSet(Children(c))]

(* The control that a message makes do what it is there for.               *)
Pressed(a, m) ==
    CASE m.type = "Mouse" /\ m.what = "clicked" -> {m.to} \cap Buttons
      [] m.type = "Input" /\ m.key = "enter" -> {a.index} \cap Buttons
      [] OTHER -> {}

(* What the click leads to; the rest of the queue is still to be handled.  *)
Does(a, effect) ==
    \/ effect.does = "nothing" /\ app' = a /\ UNCHANGED <<hidden, thread, pc>>
    \/ /\ effect.does = "page"
       /\ app' = ChangePage(a, effect.to) /\ UNCHANGED <<hidden, thread, pc>>
    \/ effect.does = "show" /\ app' = a /\ hidden' = hidden \ {effect.control} /\ UNCHANGED <<thread, pc>>
    \/ effect.does = "hide" /\ app' = a /\ hidden' = hidden \cup {effect.control} /\ UNCHANGED <<thread, pc>>
    \/ /\ effect.does = "connect"
       /\ \E r \in Runners :
             runner[r] = "idle" /\ runner' = [runner EXCEPT ![r] = "connecting"]
       /\ app' = a /\ hidden' = hidden \ {"connectStatusLabel"} /\ UNCHANGED <<holds, pc>>
    \/ effect.does = "stop" /\ app' = a /\ pc' = "stopped" /\ UNCHANGED <<hidden, thread>>

(* Mutant: an input box sends the key on instead of moving the cursor.     *)
ControlKey_SendsOn(a, key) ==
    IF a.index \in InputBoxes /\ key \in {"enter", "tab", "btab"} THEN Push(a, Key(key)) ELSE a

(* A key for the control the cursor is on, unless it is a button.          *)
ControlKey(a, key) ==
    IF a.index \in InputBoxes
    THEN CASE key \in {"enter", "tab"} -> Push(a, Msg("CursorNext", None))
           [] key = "btab" -> Push(a, Msg("CursorPrev", None))
           [] OTHER -> a
    ELSE a

TakeOverAfter(a, key) ==
    CASE a.index \in ListBoxes /\ key = "escape" -> takeOver \ {a.index}
      [] a.index \in GameViews -> IF key = "escape" THEN takeOver \ {a.index} ELSE takeOver \cup {a.index}
      [] OTHER -> takeOver

MsgHandle ==
    /\ pc = "drain" /\ app.queue # <<>>
    /\ LET m == Head(app.queue)
           a == [app EXCEPT !.queue = Tail(@)]
       IN  \/ /\ m.type \in {"CursorNext", "CursorPrev"}
              /\ IF NavigateAborts(a, m.type = "CursorPrev")
                 THEN pc' = "aborted" /\ app' = a
                 ELSE app' = Navigate(a, m.type = "CursorPrev") /\ UNCHANGED pc
              /\ UNCHANGED <<hidden, takeOver, thread>>
           \/ /\ m.type = "FocusEnter"
              /\ takeOver' = takeOver \cup ({m.to} \cap (ListBoxes \cup GameViews))
              /\ app' = [a EXCEPT !.focused = @ \cup ({m.to} \cap TextBoxes)]
              /\ UNCHANGED <<hidden, thread, pc>>
           \/ /\ m.type = "FocusLeave"
              /\ app' = [a EXCEPT !.focused = @ \ ({m.to} \cap TextBoxes)]
              /\ UNCHANGED <<hidden, takeOver, thread, pc>>
           \/ /\ Pressed(a, m) # {}
              /\ \E c \in Pressed(a, m) : \E effect \in OnClick(c) : Does(a, effect)
              /\ UNCHANGED takeOver
           \/ /\ m.type = "Input" /\ Pressed(a, m) = {}
              /\ app' = ControlKey(a, m.key) /\ takeOver' = TakeOverAfter(a, m.key)
              /\ UNCHANGED <<hidden, thread, pc>>
           \/ /\ m.type \in {"Mouse", "Resize", "Fetch"} /\ Pressed(a, m) = {}
              /\ app' = CASE m.type = "Resize" -> ResizePage(a)
                          [] m.type = "Fetch" -> Fetch(a, m.to)
                          [] OTHER -> a
              /\ UNCHANGED <<hidden, takeOver, thread, pc>>
    /\ Overlap /\ UNCHANGED moved

MsgHandleEnd ==
    /\ pc = "drain" /\ app.queue = <<>> /\ pc' = "update"
    /\ UNCHANGED <<app, hidden, takeOver, thread, moved, overlapped>>

(* tuiAppControlUpdate and tuiAppRender.                                   *)
ControlUpdate ==
    /\ pc = "update" /\ pc' = "input"
    /\ \E effect \in OnUpdate(app.curRoot) :
          app' = IF effect.does = "page" THEN ChangePage(Walk(app), effect.to) ELSE Walk(app)
    /\ Overlap /\ UNCHANGED <<hidden, takeOver, thread, moved>>

-----------------------------------------------------------------------------
(***************************************************************************)
(* setupRunner: what tuiAppChangePage does, step by step, next to the main *)
(* loop.  Only a push waits for the lock.  A thread that outlives the      *)
(* program's loop is not followed.                                         *)
(***************************************************************************)
Running == pc \notin {"stopped", "aborted"}

Goes(r, from, to) ==
    /\ Running /\ runner[r] = from /\ runner' = [runner EXCEPT ![r] = to]
    /\ UNCHANGED <<takeOver, overlapped>>

RunnerFails(r) ==
    /\ Goes(r, "connecting", "idle")
    /\ hidden' = hidden \ {"connectStatusLabel"}
    /\ UNCHANGED <<app, holds, pc, moved>>

RunnerRemovesWindows(r) ==
    /\ Goes(r, "connecting", "root")
    /\ app' = RemoveWindows(app) /\ moved' = 1
    /\ UNCHANGED <<hidden, holds, pc>>

RunnerChangesRoot(r) ==
    /\ Goes(r, "root", "windows")
    /\ app' = [app EXCEPT !.curRoot = "loginPage"]
    /\ UNCHANGED <<hidden, holds, pc, moved>>

RunnerMakesWindows(r) ==
    /\ Goes(r, "windows", "chain")
    /\ app' = MakeWindows(app)
    /\ UNCHANGED <<hidden, holds, pc, moved>>

RunnerEmptiesChain(r) ==
    /\ Goes(r, "chain", "walk")
    /\ app' = EmptyNavChain(app)
    /\ UNCHANGED <<hidden, holds, pc, moved>>

RunnerPushesControl(r) ==
    /\ app.renderStk # <<>> /\ Goes(r, "walk", "walk")
    /\ app' = PushNextControl(app)
    /\ UNCHANGED <<hidden, holds, pc, moved>>

RunnerFindsCursorRight(r) ==
    /\ app.renderStk = <<>> /\ CursorIsRight(app) /\ Goes(r, "walk", "resize")
    /\ UNCHANGED <<app, hidden, holds, pc, moved>>

RunnerTakesFocus(r) ==
    /\ app.renderStk = <<>> /\ ~CursorIsRight(app) /\ Goes(r, "walk", "leave")
    /\ app' = [app EXCEPT !.focused = @ \ {app.index}]
    /\ holds' = [holds EXCEPT ![r] = app.index]
    /\ UNCHANGED <<hidden, pc, moved>>

RunnerPushesLeave(r) ==
    /\ pc # "drain" /\ Goes(r, "leave", "place")
    /\ app' = Push(app, Msg("FocusLeave", holds[r]))
    /\ UNCHANGED <<hidden, holds, pc, moved>>

(* The first control of an empty chain is not there.                       *)
RunnerPlacesCursor(r) ==
    /\ Goes(r, "place", "enter")
    /\ IF app.navChain = <<>>
       THEN pc' = "aborted" /\ UNCHANGED <<app, holds>>
       ELSE LET at == RightCursor(app)
            IN  /\ app' = [app EXCEPT !.index = at[1], !.indexOfCache = at[2], !.focused = @ \cup {at[1]}]
                /\ holds' = [holds EXCEPT ![r] = at[1]] /\ UNCHANGED pc
    /\ UNCHANGED <<hidden, moved>>

RunnerPushesEnter(r) ==
    /\ pc # "drain" /\ Goes(r, "enter", "resize")
    /\ app' = Push(app, Msg("FocusEnter", holds[r]))
    /\ holds' = [holds EXCEPT ![r] = None]
    /\ UNCHANGED <<hidden, pc, moved>>

RunnerResizes(r) ==
    /\ pc # "drain" /\ Goes(r, "resize", "idle")
    /\ app' = Push(app, Msg("Resize", None))
    /\ UNCHANGED <<hidden, holds, pc, moved>>

SetupRunner(r) ==
    \/ RunnerFails(r) \/ RunnerRemovesWindows(r) \/ RunnerChangesRoot(r) \/ RunnerMakesWindows(r)
    \/ RunnerEmptiesChain(r) \/ RunnerPushesControl(r) \/ RunnerFindsCursorRight(r) \/ RunnerTakesFocus(r)
    \/ RunnerPushesLeave(r) \/ RunnerPlacesCursor(r) \/ RunnerPushesEnter(r) \/ RunnerResizes(r)

Next == Input \/ MsgHandle \/ MsgHandleEnd \/ ControlUpdate \/ \E r \in Runners : SetupRunner(r)

Spec == Init /\ [][Next]_vars

=============================================================================
