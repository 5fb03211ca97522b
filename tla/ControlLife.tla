---------------------------- MODULE ControlLife -----------------------------
(***************************************************************************)
(* Who may still use a control when it is deleted: drawManager             *)
(* (UC/drawManager.cpp) and containerUC (UC/wucContainer.cpp).             *)
(*                                                                         *)
(* The window's thread handles one message at a time; a message calls      *)
(* Event of one control after another, and an event handler may take       *)
(* controls out of their container, give the window another tree or move   *)
(* the focus, which calls Event again.  A control that is taken out is not *)
(* deleted there: a container with the default flags leaves it to message  *)
(* WM_APP+1 of the same thread.                                            *)
(*                                                                         *)
(* There is one container, with the default flags, in one tree.  Those     *)
(* with m_bDelayedFree leave their controls to a thread: DelayedFree says  *)
(* what becomes of them.  An action is what the window's thread does up to *)
(* the next Event.  stopDelayedFreeControl, which only waits for the other *)
(* thread, is left out of WM_CLOSE and of the destructor.                  *)
(***************************************************************************)
EXTENDS Naturals, Sequences, FiniteSets, SequencesExt

CONSTANTS
  Ctl,       \* the controls of the container
  None,      \* nullptr
  Root,      \* the tree that attachDialog replaces, in m_vecDelayedCleanup
  Hidden,    \* the controls that input and focus never find
  Hasty,     \* the controls that event handlers take out with remove
  MaxDepth,  \* bound on the messages and focus changes inside each other
  MaxPosted  \* bound on the WM_APP+1 in the message queue

ASSUME ControlsDistinct ==
  /\ IsFiniteSet(Ctl) /\ Hasty \cup Hidden \subseteq Ctl
  /\ None \notin Ctl /\ Root \notin Ctl
ASSUME BoundsPositive == MaxDepth \in Nat \ {0} /\ MaxPosted \in Nat \ {0}

VARIABLES
  attached,   \* the controls in m_items of the container of the current tree
  detached,   \* those in the tree that attachDialog replaced
  deletes,    \* how often each control was deleted
  ptr,        \* m_pFocus, m_pEventHover, m_pEventClick, m_pEventKey, m_pEventWheel
  cleanup,    \* m_vecDelayedCleanup
  posted,     \* WM_APP+1 messages in the queue of the window
  stack,      \* what the window's thread is doing, the innermost last
  window      \* "open", "closed" (after WM_CLOSE) or "gone" (after the destructor)

vars == <<attached, detached, deletes, ptr, cleanup, posted, stack, window>>
tree == <<attached, detached, deletes, cleanup, posted>>

Pointers == {"focus", "hover", "click", "key", "wheel"}

Init ==
  /\ attached = Ctl /\ detached = {}
  /\ deletes = [c \in Ctl |-> 0]
  /\ ptr = [p \in Pointers |-> None]
  /\ cleanup = <<>> /\ posted = 0 /\ stack = <<>> /\ window = "open"
-----------------------------------------------------------------------------
(* Deleting: ~controlUC calls reapObject, which forgets the control.       *)

Without(C) == [p \in Pointers |-> IF ptr[p] \in C THEN None ELSE ptr[p]]

\* reapObject, in the destructor of each control of C.
reapObject(C) == ptr' = Without(C)

\* Every entry of m_vecDelayedCleanup is deleted, and the vector emptied,
\* along with the controls of extra; a tree goes with all that is still in it.
DeleteAll(extra) ==
  LET oldTree == detached \ extra
      owned(e) == IF e = Root THEN oldTree ELSE {e}
      times(c) == Cardinality({i \in DOMAIN cleanup : c \in owned(cleanup[i])})
                    + (IF c \in extra THEN 1 ELSE 0)
  IN /\ deletes' = [c \in Ctl |-> deletes[c] + times(c)]
     /\ reapObject(extra \cup UNION {owned(e) : e \in ToSet(cleanup)})
     /\ detached' = IF Root \in ToSet(cleanup) THEN {} ELSE oldTree
     /\ cleanup' = <<>>
-----------------------------------------------------------------------------
(* The thread of the window.                                               *)

Top == Last(stack)
Below == Front(stack)

\* Event of control on is running, called where the message goes on at l, with
\* the control c in a local variable; fresh: the handler may still move the
\* focus.
Frame(l, c, on) == [at |-> l, ctl |-> c, on |-> on, fresh |-> TRUE]
\* The last Event of a message.
EndFrame(on) == Frame("end", None, on)

Running == stack # <<>>
Returned(l) == Running /\ Top.at = l
NewMessage == stack = <<>> /\ window \in {"open", "closed"}
Code == Running \/ NewMessage          \* where the program may change its controls
Found == attached \ Hidden             \* what findControl may return

Set(p, c) == [ptr EXCEPT ![p] = c]
Quiet == UNCHANGED <<tree, window>>    \* the handling of input changes no tree

\* The parts of WM_MOUSEMOVE, on top of the stack s, with pointers p: pNewHover,
\* c, was found before any handler ran.
MoveOn(s, p, c) ==
  /\ ptr' = p
  /\ stack' = IF p["click"] # None THEN Append(s, EndFrame(p["click"]))
              ELSE IF c # None THEN Append(s, EndFrame(c)) ELSE s
EnterOn(s, p, c) ==
  IF c \in {None, p["hover"]} THEN MoveOn(s, p, c)
  ELSE ptr' = p /\ stack' = Append(s, Frame("entered", c, c))
LeaveOn(s, p, c) ==
  IF p["hover"] \in {None, c} THEN EnterOn(s, p, c)
  ELSE ptr' = p /\ stack' = Append(s, Frame("left", c, p["hover"]))

MouseMove == NewMessage /\ (\E c \in Found \cup {None} : LeaveOn(stack, ptr, c)) /\ Quiet
Left == Returned("left") /\ EnterOn(Below, Set("hover", None), Top.ctl) /\ Quiet
Entered == Returned("entered") /\ MoveOn(Below, Set("hover", Top.ctl), Top.ctl) /\ Quiet

\* WM_MOUSELEAVE ends in a WM_MOUSEMOVE at (-1, -1) while the mouse is tracked.
TrackedOn(s, p) == LeaveOn(s, p, None) \/ (ptr' = p /\ stack' = s)

MouseLeave ==
  /\ NewMessage
  /\ IF ptr["hover"] = None THEN TrackedOn(stack, ptr)
     ELSE stack' = Append(stack, Frame("mouseleft", None, ptr["hover"])) /\ UNCHANGED ptr
  /\ Quiet
MouseLeft == Returned("mouseleft") /\ TrackedOn(Below, Set("hover", None)) /\ Quiet

\* WM_MOUSEHOVER: the tip is that of the control found before the handler ran.
MouseHover ==
  /\ NewMessage /\ ptr["hover"] # None
  /\ \E c \in Found : stack' = Append(stack, Frame("tip", c, ptr["hover"]))
  /\ Quiet /\ UNCHANGED ptr

LButtonDown ==
  /\ NewMessage
  /\ \E c \in Found : ptr' = Set("click", c) /\ stack' = Append(stack, EndFrame(c))
  /\ Quiet

\* WM_LBUTTONDBLCLK and WM_RBUTTONDOWN set m_pEventClick after the handler ran.
ButtonLate ==
  /\ NewMessage /\ \E c \in Found : stack' = Append(stack, Frame("pressed", c, c))
  /\ Quiet /\ UNCHANGED ptr
Pressed == Returned("pressed") /\ ptr' = Set("click", Top.ctl) /\ stack' = Below /\ Quiet

\* WM_LBUTTONUP and WM_CONTEXTMENU.
ButtonUp ==
  /\ NewMessage /\ ptr["click"] # None
  /\ stack' = Append(stack, Frame("released", None, ptr["click"]))
  /\ Quiet /\ UNCHANGED ptr
Released == Returned("released") /\ ptr' = Set("click", None) /\ stack' = Below /\ Quiet

\* WM_MOUSEWHEEL stays with the control it found as long as the mouse rests,
\* and ends in a WM_MOUSEMOVE.
Wheel ==
  /\ NewMessage
  /\ \E c \in Found \cup {None, ptr["wheel"]} :
       /\ ptr' = Set("wheel", c)
       /\ stack' = IF c = None THEN stack ELSE Append(stack, Frame("wheeled", None, c))
  /\ Quiet
Wheeled == Returned("wheeled") /\ (\E c \in Found \cup {None} : LeaveOn(Below, ptr, c)) /\ Quiet

\* WM_CHAR and WM_SIZE go to the focus, WM_TIMER to a control whose timers
\* reapObject has not killed.
CharOrTimer ==
  /\ NewMessage
  /\ \E c \in ({ptr["focus"]} \ {None}) \cup {d \in Ctl \ Hidden : deletes[d] = 0} :
       stack' = Append(stack, EndFrame(c))
  /\ Quiet /\ UNCHANGED ptr

KeyDown ==
  /\ NewMessage /\ ptr["focus"] # None
  /\ stack' = Append(stack, Frame("keyed", None, ptr["focus"]))
  /\ Quiet /\ UNCHANGED ptr
Keyed == Returned("keyed") /\ ptr' = Set("key", ptr["focus"]) /\ stack' = Below /\ Quiet

KeyUp ==
  /\ NewMessage /\ ptr["key"] # None
  /\ stack' = Append(stack, Frame("unkeyed", None, ptr["key"]))
  /\ Quiet /\ UNCHANGED ptr
Unkeyed == Returned("unkeyed") /\ ptr' = Set("key", None) /\ stack' = Below /\ Quiet

\* The handler of a message's last Event returns, or that of WM_MOUSEHOVER,
\* which then asks its control for the tip.
Return == (Returned("end") \/ Returned("tip")) /\ stack' = Below /\ Quiet /\ UNCHANGED ptr
-----------------------------------------------------------------------------
(* setFocus: called by WM_PAINT through setNextTabControl and by handlers,  *)
(* which call it with nullptr when they hide the control that has it.  A    *)
(* handler is given one such call.                                          *)

\* A control that is hidden or disabled does not get the focus.
TakeOn(s, p, c) ==
  \/ c # None /\ ptr' = [p EXCEPT !["focus"] = c] /\ stack' = Append(s, Frame("took", None, c))
  \/ ptr' = p /\ stack' = s

setFocus(s, c) ==
  /\ c # ptr["focus"]
  /\ IF ptr["focus"] = None THEN TakeOn(s, ptr, c)
     ELSE stack' = Append(s, Frame("killed", c, ptr["focus"])) /\ UNCHANGED ptr

NextTab == NewMessage /\ (\E c \in Found : setFocus(stack, c)) /\ Quiet

FocusInHandler ==
  /\ Running /\ Top.fresh /\ Len(stack) < MaxDepth
  /\ \E c \in Found \cup {None} : setFocus([stack EXCEPT ![Len(stack)].fresh = FALSE], c)
  /\ Quiet

\* sendNotify of m_pFocus, which the handler may have reset, then the reset.
Killed ==
  /\ Returned("killed") /\ stack' = Append(Below, Frame("dropped", Top.ctl, ptr["focus"]))
  /\ Quiet /\ UNCHANGED ptr
Dropped == Returned("dropped") /\ TakeOn(Below, Set("focus", None), Top.ctl) /\ Quiet
Took ==
  /\ Returned("took") /\ stack' = Append(Below, EndFrame(ptr["focus"]))
  /\ Quiet /\ UNCHANGED ptr
-----------------------------------------------------------------------------
(* Taking controls out: containerUC::remove and removeAll, attachDialog.   *)

\* m_items loses the controls C.
Mut_Erase_Forgotten(C) == UNCHANGED attached
Erase(C) == attached' = attached \ C

\* PostMessage of WM_APP+1.
Mut_Post_Forgotten == UNCHANGED posted
Post == posted' = posted + 1

\* addDelayedCleanup of the controls C.
addDelayedCleanup(C) ==
  /\ ptr' = Without(C)
  /\ cleanup' = cleanup \o SetToSeq(C)

\* The control goes into m_vecDelayedCleanup, then SendMessage runs WM_APP+1
\* before remove returns.
remove(c) ==
  /\ Code /\ (Running => c \in Hasty)
  /\ c \in attached \cup detached
  /\ Erase({c}) /\ DeleteAll({c})
  /\ UNCHANGED <<posted, stack, window>>

\* removeAll posts WM_APP+1: the controls outlive the handler that asks for it.
removeAll ==
  LET items == attached \cup detached
  IN /\ Code /\ posted < MaxPosted
     /\ Erase(items) /\ detached' = {}
     /\ addDelayedCleanup(items)
     /\ Post
     /\ UNCHANGED <<deletes, stack, window>>

\* attachDialog leaves the tree it replaces to the next WM_APP+1, and sends none.
AttachDialog ==
  /\ Code /\ attached # {}
  /\ attached' = {} /\ detached' = attached
  /\ cleanup' = Append(cleanup, Root)
  /\ ptr' = [p \in Pointers |-> IF p = "focus" /\ ptr[p] \notin attached THEN ptr[p] ELSE None]
  /\ UNCHANGED <<deletes, posted, stack, window>>

\* WM_APP+1.
Mut_Cleanup_Nested ==
  /\ Code /\ posted > 0
  /\ posted' = posted - 1
  /\ DeleteAll({})
  /\ UNCHANGED <<attached, stack, window>>
Cleanup ==
  /\ NewMessage /\ posted > 0
  /\ posted' = posted - 1
  /\ DeleteAll({})
  /\ UNCHANGED <<attached, stack, window>>
-----------------------------------------------------------------------------
(* The end: WM_CLOSE, which goes on with the hover and the click, and the  *)
(* destructor.                                                             *)

UnclickOn ==
  stack' = IF ptr["click"] = None THEN <<>> ELSE <<Frame("released", None, ptr["click"])>>

Close ==
  /\ NewMessage /\ window = "open" /\ window' = "closed"
  /\ IF ptr["hover"] = None THEN UnclickOn ELSE stack' = <<Frame("bye", None, ptr["hover"])>>
  /\ UNCHANGED <<tree, ptr>>

Bye == Returned("bye") /\ UnclickOn /\ Quiet /\ UNCHANGED ptr

\* The destructor deletes what waits in m_vecDelayedCleanup and the tree.
Destroy ==
  /\ NewMessage /\ window' = "gone"
  /\ DeleteAll(attached) /\ attached' = {}
  /\ UNCHANGED <<posted, stack>>
-----------------------------------------------------------------------------
Input == MouseMove \/ MouseLeave \/ MouseHover \/ LButtonDown \/ ButtonLate \/ ButtonUp
           \/ Wheel \/ CharOrTimer \/ KeyDown \/ KeyUp \/ NextTab \/ Close \/ Destroy
Program == FocusInHandler \/ AttachDialog \/ (\E c \in Ctl : remove(c)) \/ removeAll
Going == Return \/ Left \/ Entered \/ MouseLeft \/ Pressed \/ Released \/ Wheeled \/ Keyed \/ Unkeyed
           \/ Killed \/ Dropped \/ Took \/ Bye

Next == Input \/ Program \/ Cleanup \/ Going

Spec == Init /\ [][Next]_vars
-----------------------------------------------------------------------------
FrameType ==
  [at : {"end", "left", "entered", "mouseleft", "tip", "pressed", "released", "wheeled", "keyed",
         "unkeyed", "killed", "dropped", "took", "bye"},
   ctl : Ctl \cup {None}, on : Ctl \cup {None}, fresh : BOOLEAN]

\* Every variable has its type; a control is deleted at most twice in it.
TypeOK ==
  /\ attached \subseteq Ctl /\ detached \subseteq Ctl
  /\ deletes \in [Ctl -> 0..2]
  /\ ptr \in [Pointers -> Ctl \cup {None}]
  /\ cleanup \in Seq(Ctl \cup {Root})
  /\ posted \in 0..MaxPosted
  /\ stack \in Seq(FrameType) /\ Len(stack) <= MaxDepth
  /\ window \in {"open", "closed", "gone"}

Times(c, s) == Cardinality({i \in DOMAIN s : s[i] = c})
Held(c) == (IF c \in attached THEN 1 ELSE 0) + (IF c \in detached THEN 1 ELSE 0) + Times(c, cleanup)

\* A control is in one place: in a tree, once in m_vecDelayedCleanup, or deleted,
\* once.  If removeAll left it in m_vecDelayedCleanup it does not wait for a
\* WM_APP+1 that nobody has sent; and when the drawManager is gone, so is it.
OnePlace ==
  \A c \in Ctl : /\ Held(c) + deletes[c] = 1
                 /\ c \in ToSet(cleanup) => posted > 0
                 /\ window = "gone" => deletes[c] = 1

\* A control is not deleted while one of its handlers runs or a message has it in
\* a local variable (what m_vecDelayedCleanup is for, UC/drawManager.h:428); and
\* focus, hover, click, key and wheel never are a deleted one.
UsedAreAlive ==
  /\ \A f \in ToSet(stack) : \A c \in {f.ctl, f.on} \cap Ctl : deletes[c] = 0
  /\ \A p \in Pointers : \A c \in {ptr[p]} \cap Ctl : deletes[c] = 0
=============================================================================
