---------------------------- MODULE TouchDispatch ----------------------------
(***************************************************************************)
(* From a finger to a click: the SceneManager and its current scene, the   *)
(* ChildrenListComponent of each scene that routes touches to the child    *)
(* touched first, the buttons (UIButton) below it, and the frames in which *)
(* the buttons send their clicks - whose handlers may switch the scene in  *)
(* the middle of the update, which cancels every touch.                    *)
(*                                                                         *)
(* Input arrives between frames. The InputManager is its set of pressed    *)
(* fingers; its reset loops are the subject of the module InputManager.    *)
(***************************************************************************)
EXTENDS Integers, Sequences, FiniteSets

CONSTANTS
    Fingers, Scenes, Buttons,
    None,           \* no scene, no child
    Initial,        \* Initial[s]: the children scene s is created with
    Background,     \* scenes whose own onTouchBegan takes what no child takes
    PressTicks,     \* how many frames a press is shown for (PRESSED_TIME)
    MaxDown         \* bound: mFingersDown of a button that is touched

Elements(s) == {s[k] : k \in DOMAIN s}

ASSUME TouchAssumption ==
    /\ IsFiniteSet(Fingers)
    /\ None \notin Scenes \cup Buttons
    /\ Initial \in [Scenes -> Seq(Buttons)]
    /\ \A s \in Scenes : \A j, k \in DOMAIN Initial[s] :
           Initial[s][j] = Initial[s][k] => j = k
    /\ \A s, t \in Scenes :
           s # t => Elements(Initial[s]) \cap Elements(Initial[t]) = {}
    /\ Background \subseteq Scenes
    /\ PressTicks \in Nat
    /\ MaxDown \in Nat

VARIABLES
    mPressedFingers,                    \* InputManager
    mActiveTouches, mCurrentScene,      \* SceneManager
    mChildren,                          \* ChildrenListComponent of each scene:
    mTouchedChild, mTouchedChildIndex, mTouchedFingers,
    mFingersDown, mFingersInside,       \* UIButton:
    mClickPending, mPressedTime,
    updating,       \* the scene runFrame() is updating, or None
    next,           \* its next child to update, 0 while it updates itself
    handling,       \* that child has sent its click and the handlers run
    cancelled,      \* history: touches of each button that were cancelled
    nestedLayout    \* history: layoutChildren() was called while iterating

manager == <<mActiveTouches, mCurrentScene>>
children == <<mTouchedChild, mTouchedChildIndex, mTouchedFingers>>
button == <<mFingersDown, mFingersInside, mClickPending, mPressedTime>>
frame == <<updating, next, handling>>
vars == <<mPressedFingers, manager, mChildren, children, button, frame,
          cancelled, nestedLayout>>

Init ==
    /\ mPressedFingers = {}
    /\ mActiveTouches = {}
    /\ mCurrentScene \in Scenes
    /\ mChildren = Initial
    /\ mTouchedChild = [s \in Scenes |-> None]
    /\ mTouchedChildIndex = [s \in Scenes |-> 0]
    /\ mTouchedFingers = [s \in Scenes |-> {}]
    /\ mFingersDown = [b \in Buttons |-> 0]
    /\ mFingersInside = [b \in Buttons |-> {}]
    /\ mClickPending = [b \in Buttons |-> FALSE]
    /\ mPressedTime = [b \in Buttons |-> 0]
    /\ updating = None
    /\ next = 0
    /\ handling = FALSE
    /\ cancelled = [b \in Buttons |-> 0]
    /\ nestedLayout = FALSE

\* The fingers a button was told to have begun, and not to have ended.
On(b) == UNION {mTouchedFingers[s] : s \in {t \in Scenes : mTouchedChild[t] = b}}

-----------------------------------------------------------------------------
(* UIButton *)

\* beginTrackFinger and endTrackFinger for finger f of button b.
Track(b, f) ==
    /\ mFingersInside' = [mFingersInside EXCEPT ![b] = @ \cup {f}]
    /\ mPressedTime' =
           [mPressedTime EXCEPT ![b] = IF mFingersInside[b] = {} THEN PressTicks ELSE @]
    /\ UNCHANGED mClickPending

\* Mutant: every release is a click.
UntrackClicks(b, f, isClick) ==
    /\ mFingersInside' = [mFingersInside EXCEPT ![b] = @ \ {f}]
    /\ mClickPending' = [mClickPending EXCEPT ![b] = @ \/ mFingersInside[b] = {f}]
    /\ UNCHANGED mPressedTime

Untrack(b, f, isClick) ==
    /\ mFingersInside' = [mFingersInside EXCEPT ![b] = @ \ {f}]
    /\ mClickPending' =
           [mClickPending EXCEPT ![b] = @ \/ (isClick /\ mFingersInside[b] = {f})]
    /\ UNCHANGED mPressedTime

-----------------------------------------------------------------------------
(* A touch, through SceneManager, AbstractScene, ChildrenListComponent and *)
(* UIButton. hit is the set of children whose area contains the finger.    *)

Current == mCurrentScene
Touched == mTouchedChild[Current]

\* The topmost child that accepts: the last one in the list is asked first.
Topmost(hit) ==
    CHOOSE k \in DOMAIN mChildren[Current] :
        /\ mChildren[Current][k] \in hit
        /\ \A j \in DOMAIN mChildren[Current] :
               mChildren[Current][j] \in hit => j <= k

\* Mutant: the finger is not counted.
ButtonBeginsUncounted(b, f) ==
    /\ Track(b, f)
    /\ mTouchedFingers' = [mTouchedFingers EXCEPT ![Current] = @ \cup {f}]
    /\ UNCHANGED mFingersDown

ButtonBegins(b, f) ==
    /\ mFingersDown[b] < MaxDown
    /\ mFingersDown' = [mFingersDown EXCEPT ![b] = @ + 1]
    /\ Track(b, f)
    /\ mTouchedFingers' = [mTouchedFingers EXCEPT ![Current] = @ \cup {f}]

BeginTouch(f, hit) ==
    \/ /\ Touched # None            \* a child is touched: nobody else is asked
       /\ IF Touched \in hit
          THEN ButtonBegins(Touched, f)
          ELSE UNCHANGED <<button, mTouchedFingers>>
       /\ mActiveTouches' = mActiveTouches \cup {f}
       /\ UNCHANGED <<mTouchedChild, mTouchedChildIndex>>
    \/ /\ Touched = None
       /\ hit # {}
       /\ LET k == Topmost(hit) IN
              /\ ButtonBegins(mChildren[Current][k], f)
              /\ mTouchedChild' = [mTouchedChild EXCEPT ![Current] = mChildren[Current][k]]
              /\ mTouchedChildIndex' = [mTouchedChildIndex EXCEPT ![Current] = k]
       /\ mActiveTouches' = mActiveTouches \cup {f}
    \/ /\ Touched = None
       /\ hit = {}
       /\ mActiveTouches' =
              IF Current \in Background THEN mActiveTouches \cup {f} ELSE mActiveTouches
       /\ UNCHANGED <<button, children>>

FingerBegin(f) ==
    /\ updating = None
    /\ f \notin mPressedFingers
    /\ mPressedFingers' = mPressedFingers \cup {f}
    /\ IF Current = None
       THEN UNCHANGED <<mActiveTouches, button, children>>
       ELSE \E hit \in SUBSET Elements(mChildren[Current]) : BeginTouch(f, hit)
    /\ UNCHANGED <<mCurrentScene, mChildren, frame, cancelled, nestedLayout>>

\* The finger is routed to a button.
Routed(f) == Current # None /\ f \in mActiveTouches /\ f \in mTouchedFingers[Current]

FingerMove(f) ==
    /\ updating = None
    /\ f \in mPressedFingers
    /\ Routed(f)
    /\ Track(Touched, f) \/ Untrack(Touched, f, FALSE)
    /\ UNCHANGED <<mPressedFingers, manager, mChildren, children, mFingersDown,
                   frame, cancelled, nestedLayout>>

\* The child list after the routed fingers in gone have been taken off.
TakeOff(gone) ==
    LET remaining == mTouchedFingers[Current] \ gone
    IN  /\ mTouchedFingers' = [mTouchedFingers EXCEPT ![Current] = remaining]
        /\ mTouchedChild' =
               [mTouchedChild EXCEPT ![Current] = IF remaining = {} THEN None ELSE @]
        /\ UNCHANGED mTouchedChildIndex

FingerEnd(f) ==
    /\ updating = None
    /\ f \in mPressedFingers
    /\ mPressedFingers' = mPressedFingers \ {f}
    /\ mActiveTouches' = IF Current = None THEN mActiveTouches ELSE mActiveTouches \ {f}
    /\ IF Routed(f)
       THEN /\ TakeOff({f})
            /\ mFingersDown' = [mFingersDown EXCEPT ![Touched] = @ - 1]
            /\ Untrack(Touched, f, mFingersDown[Touched] = 1)
       ELSE UNCHANGED <<children, button>>
    /\ UNCHANGED <<mCurrentScene, mChildren, frame, cancelled, nestedLayout>>

\* emitTouchCancel for each finger in S. Every one that is delivered makes the
\* child list of the current scene call layoutChildren().
CancelTouches(S) ==
    LET gone == {f \in S : Routed(f)}
    IN  /\ mPressedFingers' = mPressedFingers \ S
        /\ mActiveTouches' = IF Current = None THEN mActiveTouches ELSE mActiveTouches \ S
        /\ IF gone = {}
           THEN UNCHANGED <<children, button, cancelled>>
           ELSE /\ TakeOff(gone)
                /\ mFingersInside' = [mFingersInside EXCEPT ![Touched] = @ \ gone]
                /\ cancelled' = [cancelled EXCEPT ![Touched] = @ + Cardinality(gone)]
                /\ UNCHANGED <<mFingersDown, mClickPending, mPressedTime>>

FingerCancel(f) ==
    /\ updating = None
    /\ f \in mPressedFingers
    /\ CancelTouches({f})
    /\ UNCHANGED <<mCurrentScene, mChildren, frame, nestedLayout>>

\* InputManager::resetAll, with the child list of the updated scene iterating or not.
Iterating == updating # None /\ next > 0
ResetAll ==
    /\ CancelTouches(mPressedFingers)
    /\ nestedLayout' =
           (\/ nestedLayout
            \/ Iterating /\ updating = Current /\ mActiveTouches \cap mPressedFingers # {})

-----------------------------------------------------------------------------
(* What user code does outside the iteration over the children: between    *)
(* frames, or when the scene updates itself before its children.           *)

\* Mutant: the touches of the old scene are not cancelled.
SetWithoutReset(s) ==
    /\ mCurrentScene' = s
    /\ UNCHANGED <<mPressedFingers, mActiveTouches, children, button,
                   cancelled, nestedLayout>>

SetCurrentScene(s) ==
    /\ ResetAll
    /\ mCurrentScene' = s

SwitchScene(s) ==
    /\ ~Iterating
    /\ SetCurrentScene(s)
    /\ UNCHANGED <<mChildren, frame>>

\* SceneManager::resize
Resize ==
    /\ updating = None
    /\ ResetAll
    /\ UNCHANGED <<mCurrentScene, mChildren, frame>>

RemoveChild(s, k) ==
    /\ ~Iterating
    /\ k \in DOMAIN mChildren[s]
    /\ ResetAll
    /\ mChildren' = [mChildren EXCEPT
                        ![s] = SubSeq(@, 1, k - 1) \o SubSeq(@, k + 1, Len(@))]
    /\ UNCHANGED <<mCurrentScene, frame>>

\* Mutant: touches survive the insertion.
InsertWithoutReset(s, b) ==
    /\ ~Iterating
    /\ \A t \in Scenes : b \notin Elements(mChildren[t])
    /\ mChildren' = [mChildren EXCEPT ![s] = <<b>> \o @]
    /\ UNCHANGED <<mPressedFingers, manager, children, button, frame,
                   cancelled, nestedLayout>>

\* insertChild(0, b): what is behind it moves up.
InsertChild(s, b) ==
    /\ ~Iterating
    /\ \A t \in Scenes : b \notin Elements(mChildren[t])
    /\ ResetAll
    /\ mChildren' = [mChildren EXCEPT ![s] = <<b>> \o @]
    /\ UNCHANGED <<mCurrentScene, frame>>

-----------------------------------------------------------------------------
(* A frame: runFrame() keeps the scene it started with, performUpdate()    *)
(* updates the scene and then its children one after the other.            *)

BeginFrame ==
    /\ updating = None
    /\ Current # None
    /\ updating' = Current
    /\ next' = 0
    /\ UNCHANGED <<mPressedFingers, manager, mChildren, children, button, handling,
                   cancelled, nestedLayout>>

\* update() has returned: the children follow.
SceneUpdated ==
    /\ updating # None
    /\ next = 0
    /\ next' = 1
    /\ UNCHANGED <<mPressedFingers, manager, mChildren, children, button, updating,
                   handling, cancelled, nestedLayout>>

\* Mutants: the time shown runs below zero, or does not run.
UpdateUnguarded ==
    /\ Iterating /\ ~handling
    /\ next <= Len(mChildren[updating])
    /\ mPressedTime' = [mPressedTime EXCEPT ![mChildren[updating][next]] = @ - 1]
    /\ next' = next + 1
    /\ UNCHANGED <<mPressedFingers, manager, mChildren, children, mFingersDown,
                   mFingersInside, mClickPending, updating, handling, cancelled, nestedLayout>>

UpdateFrozen ==
    /\ Iterating /\ ~handling
    /\ next <= Len(mChildren[updating])
    /\ mPressedTime[mChildren[updating][next]] > 0 \/ ~mClickPending[mChildren[updating][next]]
    /\ next' = next + 1
    /\ UNCHANGED <<mPressedFingers, manager, mChildren, children, button, updating,
                   handling, cancelled, nestedLayout>>

\* UIButton::update: a shown press runs out before the click is sent.
UpdateChild ==
    /\ Iterating /\ ~handling
    /\ next <= Len(mChildren[updating])
    /\ LET b == mChildren[updating][next] IN
           \/ /\ mPressedTime[b] > 0
              /\ mPressedTime' = [mPressedTime EXCEPT ![b] = @ - 1]
              /\ UNCHANGED <<mPressedFingers, manager, children, mFingersDown,
                             mFingersInside, mClickPending, cancelled, nestedLayout>>
           \/ /\ mPressedTime[b] = 0
              /\ ~mClickPending[b]
              /\ UNCHANGED <<mPressedFingers, manager, children, button,
                             cancelled, nestedLayout>>
    /\ next' = next + 1
    /\ UNCHANGED <<mChildren, updating, handling>>

\* mClickPending = false, then the handlers of Clicked run ...
Click ==
    /\ Iterating /\ ~handling
    /\ next <= Len(mChildren[updating])
    /\ LET b == mChildren[updating][next] IN
           /\ mPressedTime[b] = 0
           /\ mClickPending[b]
           /\ mClickPending' = [mClickPending EXCEPT ![b] = FALSE]
    /\ handling' = TRUE
    /\ UNCHANGED <<mPressedFingers, manager, mChildren, children, mFingersDown,
                   mFingersInside, mPressedTime, updating, next, cancelled, nestedLayout>>

\* ... and may switch the scene, while the old one is being updated ...
HandlerSwitches(s) ==
    /\ handling
    /\ SetCurrentScene(s)
    /\ UNCHANGED <<mChildren, frame>>

\* ... before the loop over its children goes on.
HandlerReturns ==
    /\ handling
    /\ handling' = FALSE
    /\ next' = next + 1
    /\ UNCHANGED <<mPressedFingers, manager, mChildren, children, button, updating,
                   cancelled, nestedLayout>>

EndFrame ==
    /\ Iterating /\ ~handling
    /\ next > Len(mChildren[updating])
    /\ updating' = None
    /\ next' = 0
    /\ UNCHANGED <<mPressedFingers, manager, mChildren, children, button, handling,
                   cancelled, nestedLayout>>

-----------------------------------------------------------------------------
FrameStep ==
    BeginFrame \/ SceneUpdated \/ UpdateChild \/ Click \/ HandlerReturns \/ EndFrame

Input ==
    \E f \in Fingers :
        FingerBegin(f) \/ FingerMove(f) \/ FingerEnd(f) \/ FingerCancel(f)

\* Scenes put the buttons they have created into their list and take them out.
UserCode ==
    \/ \E s \in Scenes \cup {None} : SwitchScene(s) \/ HandlerSwitches(s)
    \/ Resize
    \/ \E s \in Scenes :
           \/ \E k \in DOMAIN mChildren[s] : RemoveChild(s, k)
           \/ \E b \in Elements(Initial[s]) : InsertChild(s, b)

Next == FrameStep \/ Input \/ UserCode

\* Frames go on; the user and the scenes need not do anything.
Spec == Init /\ [][Next]_vars /\ WF_vars(FrameStep)

-----------------------------------------------------------------------------
(* Properties *)

\* Every variable keeps its type.
TypeOK ==
    /\ mPressedFingers \subseteq Fingers
    /\ mActiveTouches \subseteq Fingers
    /\ mCurrentScene \in Scenes \cup {None}
    /\ mChildren \in [Scenes -> Seq(Buttons)]
    /\ mTouchedChild \in [Scenes -> Buttons \cup {None}]
    /\ mTouchedChildIndex \in [Scenes -> Nat]
    /\ mTouchedFingers \in [Scenes -> SUBSET Fingers]
    /\ mFingersDown \in [Buttons -> Nat]
    /\ mFingersInside \in [Buttons -> SUBSET Fingers]
    /\ mClickPending \in [Buttons -> BOOLEAN]
    /\ mPressedTime \in [Buttons -> 0 .. PressTicks]
    /\ updating \in Scenes \cup {None}
    /\ next \in Nat
    /\ handling \in BOOLEAN
    /\ cancelled \in [Buttons -> Nat]
    /\ nestedLayout \in BOOLEAN

\* The four records of a touch agree at every level: a finger inside a button
\* is routed to it, a routed finger is active, an active one is pressed; a
\* child is touched while, and only while, a finger is routed to it; and only
\* the current scene has touches, whoever switched it and when.
TouchChain ==
    /\ TypeOK
    /\ mActiveTouches \subseteq mPressedFingers
    /\ \A s \in Scenes :
           /\ mTouchedFingers[s] \subseteq mActiveTouches
           /\ mTouchedChild[s] = None <=> mTouchedFingers[s] = {}
           /\ s # mCurrentScene => mTouchedFingers[s] = {}
    /\ \A b \in Buttons : mFingersInside[b] \subseteq On(b)

\* The position of a touch is adjusted for mTouchedChildIndex: the touched
\* child is still at that index, although children come and go.
TouchedChildInPlace ==
    \A s \in Scenes :
        mTouchedChild[s] # None =>
            /\ mTouchedChildIndex[s] \in DOMAIN mChildren[s]
            /\ mChildren[s][mTouchedChildIndex[s]] = mTouchedChild[s]

\* mFingersDown counts the fingers on the button and, for ever, every touch of
\* it that was cancelled: onTouchCancelled does not count down.
FingersCounted ==
    \A b \in Buttons : mFingersDown[b] = Cardinality(On(b)) + cancelled[b]

\* A click is due only when the last finger on the button lifts inside it, and
\* only on a button none of whose touches has ever been cancelled.
ClickIsTap ==
    [][\A b \in Buttons :
           ~mClickPending[b] /\ mClickPending'[b] =>
               /\ On(b) # {} /\ mFingersInside[b] = On(b) /\ On(b)' = {}
               /\ cancelled[b] = 0]_vars

\* A due click is sent, unless the button is pressed again (which shows the
\* press again), leaves the current scene, or its scene is switched away.
Shown(b) == mCurrentScene # None /\ b \in Elements(mChildren[mCurrentScene])

ClicksAreSent ==
    \A b \in Buttons :
        mClickPending[b] ~>
            (~mClickPending[b] \/ mFingersInside[b] # {} \/ ~Shown(b))

\* assert(!mIterating) in layoutChildren(): no touch event ever reaches a list
\* of children that is being iterated over.
LayoutNotNested == ~nestedLayout

=============================================================================
