-------------------------- MODULE TuiAppProps --------------------------
(***************************************************************************)
(* What the user of the client can count on, whatever the keys, the mouse  *)
(* and a thread that changes the page do to each other.                    *)
(***************************************************************************)
EXTENDS TuiApp

(***************************************************************************)
(* When a key is about to be read, one control of the page that is shown   *)
(* has the focus, it is the one the cursor is on, and its place in the     *)
(* chain of tuiAppRefreshNavChain is the one tuiAppNavigate will start     *)
(* from, although pages change from handlers, from updates and from a      *)
(* thread, and although the lobby shows and hides its start button without *)
(* telling the chain; and Tab never looks past the end of the chain.       *)
(* (That button can be hidden with the focus on it: press the join button, *)
(* go to the start button with the keys, release.)  The change of a thread *)
(* takes no lock: nothing is claimed once the loop has read a key, handled *)
(* a message or walked the controls in the middle of one.                  *)
(***************************************************************************)
OneControlHasFocus ==
    /\ ~overlapped => pc # "aborted"
    /\ pc = "input" /\ Undisturbed =>
          /\ Places(app, app.index) = {app.indexOfCache}
          /\ app.focused = {app.index}
          /\ app.index \in Subtree(app.curRoot)

(***************************************************************************)
(* A button does what it is there for only while its page is shown: no     *)
(* click is left over for a page that is gone (tuiAppInput,                *)
(* tuiAppMsgHandle), unless a thread is changing the page or the loop has  *)
(* overlapped such a change.                                               *)
(***************************************************************************)
ClicksReachShownButtons ==
    Undisturbed /\ pc = "drain" /\ app.queue # <<>> =>
        \A c \in Pressed(app, Head(app.queue)) : c \in app.windows

(***************************************************************************)
(* The controls that have a window are those of the page that is shown,    *)
(* whatever messages to lay out another page are still in the queue: a     *)
(* control of a page that is gone is never laid out again, and none of the *)
(* new page is without its window (tuiAppChangeRoot, controlGridLayout,    *)
(* controlPageRefreshChild); with the same exception.                      *)
(***************************************************************************)
WindowsAreOfThePage == Undisturbed => app.windows = Subtree(app.curRoot)

(***************************************************************************)
(* A frame ends: whatever a handler pushes while the queue is being        *)
(* handled, for the layout, the focus and the next control, is less than   *)
(* the message it has taken, so that the queue runs out, the loop reads    *)
(* the next key and the threads get the lock (tuiAppMsgHandle holds it     *)
(* until the queue is empty).                                              *)
(***************************************************************************)
Weight(m) ==
    CASE m.type \in {"Fetch", "FocusEnter", "FocusLeave"} -> 1
      [] m.type \in {"CursorNext", "CursorPrev"} -> 3
      [] m.type = "Resize" -> 1 + Cardinality(Containers)
      [] OTHER -> 4 + Cardinality(Containers)

Remaining(queue) == FoldSeq(LAMBDA m, sum : sum + Weight(m), 0, queue)

FrameEnds == [][MsgHandle => Remaining(app'.queue) < Remaining(app.queue)]_vars

=============================================================================
