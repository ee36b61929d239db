------------------------------ MODULE SceneTree ------------------------------
(***************************************************************************)
(* A scene on the screen, its components - an orthogonal camera and a list *)
(* of children - in any order, and the layout of the list: where children  *)
(* are drawn, how large, and which of them a finger reaches at which of    *)
(* its points. The matrices of the camera are taken to be exact, which is  *)
(* what Camera shows. Children are buttons: they take touches inside them. *)
(* There is one finger; TouchDispatch has several and no geometry.         *)
(***************************************************************************)
EXTENDS AffineTransform, SequencesExt

CONSTANTS
    Elements,       \* children
    None,
    Screens,        \* sizes of the screen
    Virtual,        \* mVirtualResolution
    Ratios,         \* AspectRatio
    Positions,      \* of the camera
    Fingers,        \* where a finger may be, in normalised device coordinates
    Transforms,     \* of UIAbsoluteLayout
    MaxIndex,       \* bound on the indices of that layout
    OwnSizes        \* that children give themselves

\* calcProjectionMatrix: the part of the virtual plane that is visible, around
\* the middle of the virtual resolution.
Visible(resolution, ratio) ==
    LET scale == <<resolution[1] \div Virtual[1], resolution[2] \div Virtual[2]>>
        lesser == IF scale[1] < scale[2] THEN scale[1] ELSE scale[2]
        greater == IF scale[1] < scale[2] THEN scale[2] ELSE scale[1]
        virtualScale == CASE ratio = "Ignore" -> scale
                          [] ratio = "Fit" -> <<lesser, lesser>>
                          [] ratio = "Expand" -> <<greater, greater>>
    IN <<resolution[1] \div virtualScale[1], resolution[2] \div virtualScale[2]>>

\* The sizes are chosen such that integers are exact: what is visible has a middle,
\* and transforms can be inverted. The list never has more children than the layout
\* has indices, which the code creates as they are needed.
Even(size) == size \in Vector /\ size[1] % 2 = 0 /\ size[2] % 2 = 0
ASSUME SceneAssumption ==
    /\ None \notin Elements
    /\ IsFiniteSet(Elements) /\ MaxIndex \in Nat /\ Cardinality(Elements) <= MaxIndex
    /\ Even(Virtual)
    /\ \A s \in Screens \cup {Virtual}, r \in Ratios : Even(Visible(s, r))
    /\ Fingers \subseteq Vector
    /\ \A t \in Transforms : t \in Transform /\ Unimodular(t)

VARIABLES
    mScreenSize, current,       \* SceneManager; this scene is the current one
    mComponents,                \* in the order they were added
    sceneSize,                  \* AbstractScene::mSize
    mPhysicalResolution, mPosition, mAspectRatio,
    mChildren,
    mListSize, mNeedsLayout,    \* ChildrenListComponent
    absolute,                   \* mLayoutStrategy is an UIAbsoluteLayout
    mTransforms,                \* of that layout, by index
    mInverseTransforms,         \* None where mInverseTransformsValid is false; both
                                \* as ensureIndex() will fill them in
    elementSize,                \* mSize of every child
    ownSize,                    \* history: a child sized itself after its layout
    mTouchedChild, mTouchedChildIndex,
    received                    \* history: what the last touch event passed on

camera == <<mPhysicalResolution, mPosition, mAspectRatio>>
scene == <<mScreenSize, current, mComponents, sceneSize>>
children == <<mChildren, mListSize, mNeedsLayout, absolute, elementSize, ownSize>>
transforms == <<mTransforms, mInverseTransforms>>
touched == <<mTouchedChild, mTouchedChildIndex>>
treeVars == <<camera, scene, children, transforms, touched, received>>

Zero == <<0, 0>>
Indices == 1 .. MaxIndex
Event(what, child, finger, point) ==
    [what |-> what, child |-> child, finger |-> finger, point |-> point]
NoEvent == Event("nothing", None, Zero, Zero)

TreeInit ==
    /\ mScreenSize \in Screens
    /\ current = FALSE
    /\ mComponents = <<>>
    /\ sceneSize = Zero
    /\ mPhysicalResolution = Virtual
    /\ mPosition = Zero
    /\ mAspectRatio \in Ratios
    /\ mChildren = <<>>
    /\ mListSize = Zero
    /\ mNeedsLayout = FALSE
    /\ absolute = FALSE
    /\ mTransforms = [i \in Indices |-> Identity]
    /\ mInverseTransforms = [i \in Indices |-> None]
    /\ elementSize = [e \in Elements |-> Zero]
    /\ ownSize = [e \in Elements |-> FALSE]
    /\ mTouchedChild = None
    /\ mTouchedChildIndex = 0
    /\ received = NoEvent

-----------------------------------------------------------------------------
(* Geometry *)

Has(component) == component \in Range(mComponents)
CameraFirst == mComponents # <<>> /\ Head(mComponents) = "camera"

VisibleSize == Visible(mPhysicalResolution, mAspectRatio)

\* The inverse of the projection; y points down in the virtual plane.
Unproject(n) ==
    <<(Virtual[1] + n[1] * VisibleSize[1]) \div 2, (Virtual[2] - n[2] * VisibleSize[2]) \div 2>>

\* AbstractCamera::onBeforeTouchEvent: the inverse of the view is applied first.
Adjusted(n) ==
    IF CameraFirst THEN Unproject(<<n[1] + mPosition[1], n[2] + mPosition[2]>>) ELSE n

\* inverseTransform
CachedInverse(i) ==
    IF mInverseTransforms[i] = None THEN Inverted(mTransforms[i]) ELSE mInverseTransforms[i]

\* adjustTouchPositionForElement, and the inverses it calculates on the way.
ChildPoint(i, p) == IF absolute THEN Apply(CachedInverse(i), p) ELSE p
CacheInverses(indices) ==
    /\ UNCHANGED mTransforms
    /\ mInverseTransforms' = [i \in Indices |->
           IF absolute /\ i \in indices THEN CachedInverse(i) ELSE mInverseTransforms[i]]

\* UIElement::isTouchInside
Inside(p, size) == \A axis \in {1, 2} : -size[axis] <= 2 * p[axis] /\ 2 * p[axis] <= size[axis]

-----------------------------------------------------------------------------
(* Layout *)

\* What layoutChildren makes of the sizes of the children, if it is due.
LayoutDue == mNeedsLayout /\ Has("children")
Sized == [e \in Elements |->
             IF LayoutDue /\ ~absolute /\ e \in Range(mChildren) THEN mListSize
             ELSE elementSize[e]]
StillOwn == [e \in Elements |->
                ownSize[e] /\ ~(LayoutDue /\ ~absolute /\ e \in Range(mChildren))]

LayoutChildren ==
    /\ elementSize' = Sized
    /\ ownSize' = StillOwn
    /\ mNeedsLayout' = (mNeedsLayout /\ ~LayoutDue)
    /\ UNCHANGED <<mChildren, mListSize, absolute>>

\* InputManager::resetAll cancels the touch, and the list lays out its children
\* before it hears of that.
CancelTouch ==
    /\ mTouchedChild' = None
    /\ UNCHANGED mTouchedChildIndex
    /\ IF mTouchedChild = None THEN UNCHANGED <<elementSize, ownSize, transforms>>
       ELSE /\ elementSize' = Sized
            /\ ownSize' = StillOwn
            /\ CacheInverses({mTouchedChildIndex})

\* AbstractScene::setSize: the camera replaces the size before anyone hears of it.
SetSceneSize(size, components) ==
    LET imposed == IF "camera" \in Range(components) THEN Virtual ELSE size IN
    /\ sceneSize' = imposed
    /\ mPhysicalResolution' = IF "camera" \in Range(components) THEN size ELSE mPhysicalResolution
    /\ IF "children" \in Range(components)
       THEN mListSize' = imposed /\ mNeedsLayout' = TRUE
       ELSE UNCHANGED <<mListSize, mNeedsLayout>>

-----------------------------------------------------------------------------
(* Scene and camera *)

AddSceneComponent(component) ==
    /\ ~Has(component)
    /\ mComponents' = Append(mComponents, component)
    /\ SetSceneSize(sceneSize, mComponents')
    /\ received' = NoEvent
    /\ UNCHANGED <<mScreenSize, current, mPosition, mAspectRatio, mChildren, absolute,
                   elementSize, ownSize, transforms, touched>>

\* setCurrentScene(); no finger is on a scene that is not the current one.
ShowScene ==
    /\ ~current
    /\ current' = TRUE
    /\ SetSceneSize(mScreenSize, mComponents)
    /\ received' = NoEvent
    /\ UNCHANGED <<mScreenSize, mComponents, mPosition, mAspectRatio, mChildren, absolute,
                   elementSize, ownSize, transforms, touched>>

ResizeScreen(size) ==
    /\ current
    /\ mScreenSize' = size
    /\ CancelTouch
    /\ SetSceneSize(size, mComponents)
    /\ received' = NoEvent
    /\ UNCHANGED <<current, mComponents, mPosition, mAspectRatio, mChildren, absolute>>

MoveCamera(p) ==
    /\ mPosition' = p
    /\ received' = NoEvent
    /\ UNCHANGED <<mPhysicalResolution, mAspectRatio, scene, children, transforms, touched>>

-----------------------------------------------------------------------------
(* The list of children and its layout *)

\* Mutant: a new child is laid out with the next change of the size.
InsertWithoutLayout(index, e) ==
    /\ e \notin Range(mChildren)
    /\ CancelTouch
    /\ mChildren' = InsertAt(mChildren, index, e)
    /\ mNeedsLayout' = (mNeedsLayout /\ mTouchedChild = None)
    /\ received' = NoEvent
    /\ UNCHANGED <<camera, scene, mListSize, absolute>>

InsertElement(index, e) ==
    /\ e \notin Range(mChildren)
    /\ CancelTouch
    /\ mChildren' = InsertAt(mChildren, index, e)
    /\ mNeedsLayout' = TRUE
    /\ received' = NoEvent
    /\ UNCHANGED <<camera, scene, mListSize, absolute>>

RemoveElement(index) ==
    /\ CancelTouch
    /\ mChildren' = RemoveAt(mChildren, index)
    /\ mNeedsLayout' = TRUE
    /\ received' = NoEvent
    /\ UNCHANGED <<camera, scene, mListSize, absolute>>

SetLayoutStrategy(strategy) ==
    /\ absolute' = strategy
    /\ mNeedsLayout' = TRUE
    /\ received' = NoEvent
    /\ UNCHANGED <<camera, scene, mChildren, mListSize, elementSize, ownSize, transforms,
                   touched>>

\* Mutant: the cached inverse stays valid.
SetTransformOnly(i, t) ==
    /\ mTransforms' = [mTransforms EXCEPT ![i] = t]
    /\ received' = NoEvent
    /\ UNCHANGED <<camera, scene, children, mInverseTransforms, touched>>

\* UIAbsoluteLayout::setTransform
SetTransform(i, t) ==
    /\ mTransforms' = [mTransforms EXCEPT ![i] = t]
    /\ mInverseTransforms' = [mInverseTransforms EXCEPT ![i] = None]
    /\ received' = NoEvent
    /\ UNCHANGED <<camera, scene, children, touched>>

\* UIButton::setNormalImage, UIImage::setImage: the list is not told.
ResizeElement(e, size) ==
    /\ elementSize' = [elementSize EXCEPT ![e] = size]
    /\ ownSize' = [ownSize EXCEPT ![e] = TRUE]
    /\ received' = NoEvent
    /\ UNCHANGED <<camera, scene, mChildren, mListSize, mNeedsLayout, absolute, transforms,
                   touched>>

-----------------------------------------------------------------------------
(* Frames and touches *)

\* performDraw lays out the children before it draws them. (performUpdate has
\* done so earlier in the frame; they may have changed since.)
DrawScene ==
    /\ current
    /\ LayoutChildren
    /\ received' = Event("draw", None, Zero, Zero)
    /\ UNCHANGED <<camera, scene, transforms, touched>>

\* Mutant: children are asked from the first to the last.
ReachedFirst(p) ==
    LET hit == {i \in DOMAIN mChildren : Inside(ChildPoint(i, p), Sized[mChildren[i]])} IN
    IF hit = {} THEN 0 ELSE CHOOSE i \in hit : \A j \in hit : i <= j

\* The child that takes a touch, asked from the last to the first; 0 if none does.
Reached(p) ==
    LET hit == {i \in DOMAIN mChildren : Inside(ChildPoint(i, p), Sized[mChildren[i]])} IN
    IF hit = {} THEN 0 ELSE CHOOSE i \in hit : \A j \in hit : j <= i

BeginTouch(n) ==
    /\ current
    /\ mTouchedChild = None
    /\ Has("children")
    /\ LayoutChildren
    /\ LET p == Adjusted(n)
           i == Reached(p)
       IN /\ CacheInverses((i .. Len(mChildren)) \ {0})
          /\ mTouchedChild' = (IF i = 0 THEN None ELSE mChildren[i])
          /\ mTouchedChildIndex' = (IF i = 0 THEN mTouchedChildIndex ELSE i)
          /\ received' = Event("begin", mTouchedChild', n, IF i = 0 THEN p ELSE ChildPoint(i, p))
    /\ UNCHANGED <<camera, scene>>

\* moveTouch and endTouch
MoveTouch(n, ends) ==
    /\ current
    /\ mTouchedChild # None
    /\ LayoutChildren
    /\ CacheInverses({mTouchedChildIndex})
    /\ mTouchedChild' = (IF ends THEN None ELSE mTouchedChild)
    /\ received' = Event("move", mTouchedChild, n, ChildPoint(mTouchedChildIndex, Adjusted(n)))
    /\ UNCHANGED <<camera, scene, mTouchedChildIndex>>

TreeNext ==
    \/ \E c \in {"camera", "children"} : AddSceneComponent(c)
    \/ ShowScene
    \/ \E s \in Screens : ResizeScreen(s)
    \/ \E p \in Positions : MoveCamera(p)
    \/ \E e \in Elements : \E i \in 1 .. Len(mChildren) + 1 : InsertElement(i, e)
    \/ \E i \in DOMAIN mChildren : RemoveElement(i)
    \/ \E strategy \in BOOLEAN : SetLayoutStrategy(strategy)
    \/ \E i \in Indices, t \in Transforms : SetTransform(i, t)
    \/ \E e \in Elements, s \in OwnSizes : ResizeElement(e, s)
    \/ DrawScene
    \/ \E n \in Fingers : BeginTouch(n)
    \/ \E n \in Fingers, ends \in BOOLEAN : MoveTouch(n, ends)

TreeSpec == TreeInit /\ [][TreeNext]_treeVars

-----------------------------------------------------------------------------
(* Properties *)

\* Every variable keeps its type.
TreeTypeOK ==
    /\ mScreenSize \in Screens /\ current \in BOOLEAN
    /\ mComponents \in {<<>>, <<"camera">>, <<"children">>,
                       <<"camera", "children">>, <<"children", "camera">>}
    /\ mAspectRatio \in Ratios /\ mPosition \in Positions \cup {Zero}
    /\ mChildren \in Seq(Elements) /\ IsInjective(mChildren)
    /\ mTransforms \in [Indices -> Transforms \cup {Identity}]
    /\ elementSize \in [Elements -> {Zero, Virtual} \cup Screens \cup OwnSizes]
    /\ mTouchedChild \in Elements \cup {None}

\* Child i is drawn with the product of projection, view and transform; this
\* says that its point q is seen where the finger n is.
Shows(i, q, n) ==
    LET s == IF absolute THEN Apply(mTransforms[i], q) ELSE q
        v == <<s[1] - mPosition[1], s[2] - mPosition[2]>>
    IN IF ~CameraFirst THEN s = n
       ELSE /\ 2 * v[1] - Virtual[1] = n[1] * VisibleSize[1]
            /\ 2 * v[2] - Virtual[2] = -n[2] * VisibleSize[2]

\* A child gets its touches at the point of it that is seen under the finger,
\* whatever the layout, its cached inverses, the order of the components and the
\* size of the screen are and were - as long as the camera has not been moved,
\* which touches account for in the wrong order.
Unmoved == mPosition = Zero \/ ~CameraFirst
TouchedWhereDrawn ==
    received.child # None /\ Unmoved =>
        Shows(mTouchedChildIndex, received.point, received.finger)

\* A touch begins on the topmost child whose picture is under the finger, with
\* the size that it is drawn with, and on none if there is no such child.
Covers(i, n) ==
    LET p == IF CameraFirst THEN Unproject(n) ELSE n IN
    Inside(IF absolute THEN Apply(Inverted(mTransforms[i]), p) ELSE p, elementSize[mChildren[i]])
TopmostTouched ==
    received.what = "begin" /\ Unmoved =>
        LET covering == {i \in DOMAIN mChildren : Covers(i, received.finger)} IN
        IF received.child = None THEN covering = {}
        ELSE /\ mTouchedChildIndex \in covering
             /\ mChildren[mTouchedChildIndex] = received.child
             /\ \A i \in covering : i <= mTouchedChildIndex

\* Whenever children are drawn, and whenever a touch asks them, they have the size
\* that the layout gives them in the scene as it is now: no insertion, change of
\* the layout or of the size is forgotten, wherever it came from. The exception
\* is a child that changed its own size since, which the code marks as unfinished.
LaidOutWhenDrawn ==
    /\ TreeTypeOK
    /\ received.what \in {"draw", "begin"} /\ Has("children") /\ ~absolute =>
          \A e \in Range(mChildren) : elementSize[e] = sceneSize \/ ownSize[e]
=============================================================================
