------------------------- MODULE TouchDispatchProofs -------------------------
(***************************************************************************)
(* The records of a touch agree, for any number of fingers, scenes and     *)
(* buttons. Only the current scene has touches, so that the fingers on a   *)
(* button are those of at most one list; every operation that changes a    *)
(* list or the scene first takes all fingers off, which leaves nothing for *)
(* the new list or the new scene to disagree with.                         *)
(***************************************************************************)
EXTENDS TouchDispatch, FiniteSetTheorems, WellFoundedInduction, TLAPS

\* SceneManager and ChildrenListComponent.
Routing ==
    /\ mCurrentScene \in Scenes \cup {None}
    /\ mActiveTouches \subseteq mPressedFingers
    /\ mCurrentScene = None => mActiveTouches = {}
    /\ \A s \in Scenes :
           /\ mTouchedFingers[s] \subseteq mActiveTouches
           /\ mTouchedChild[s] = None <=> mTouchedFingers[s] = {}
           /\ s # mCurrentScene => mTouchedFingers[s] = {}

\* The buttons.
InsideRouted == \A b \in Buttons : mFingersInside[b] \subseteq On(b)

IInv == TypeOK /\ Routing /\ InsideRouted /\ TouchedChildInPlace /\ FingersCounted

-----------------------------------------------------------------------------
(* Fingers of a button, and the topmost child *)

OnOf(child, fingers, b) == UNION {fingers[s] : s \in {t \in Scenes : child[t] = b}}

LEMMA OnIs ==
    /\ \A b : On(b) = OnOf(mTouchedChild, mTouchedFingers, b)
    /\ \A b : On(b)' = OnOf(mTouchedChild', mTouchedFingers', b)
BY DEF On, OnOf

\* Where only the scene c has fingers, a button has those of c or none.
LEMMA OneScene ==
    \A c, child, fingers, b :
        (\A s \in Scenes : s # c => fingers[s] = {}) =>
            OnOf(child, fingers, b) = IF c \in Scenes /\ child[c] = b THEN fingers[c] ELSE {}
BY DEF OnOf

\* What the fingers on a button are, in a state of the invariant.
LEMMA OnCurrent ==
    ASSUME IInv
    PROVE  /\ \A b \in Buttons :
                  /\ On(b) = IF mCurrentScene # None /\ mTouchedChild[mCurrentScene] = b
                             THEN mTouchedFingers[mCurrentScene] ELSE {}
                  /\ On(b) \subseteq Fingers /\ IsFiniteSet(On(b))
                  /\ Cardinality(On(b)) \in Nat
           /\ None \notin Scenes
<1>1. None \notin Scenes
  BY TouchAssumption
<1>2. \A b : On(b) = IF mCurrentScene \in Scenes /\ mTouchedChild[mCurrentScene] = b
                     THEN mTouchedFingers[mCurrentScene] ELSE {}
  BY OnIs, OneScene DEF IInv, Routing
<1>3. mCurrentScene \in Scenes <=> mCurrentScene # None
  BY <1>1 DEF IInv, Routing
<1>4. \A b : On(b) \subseteq Fingers
  BY <1>2 DEF IInv, TypeOK
<1>5. \A b : IsFiniteSet(On(b)) /\ Cardinality(On(b)) \in Nat
  BY <1>4, TouchAssumption, FS_Subset, FS_CardinalityType
<1> QED
  BY <1>1, <1>2, <1>3, <1>4, <1>5

\* A non-empty set of numbers up to n has a greatest element.
LEMMA GreatestExists ==
    ASSUME NEW n \in Nat, NEW S \in SUBSET (1 .. n), S # {}
    PROVE  \E k \in S : \A j \in S : j <= k
<1> DEFINE R == OpToRel(<, Nat)
           T == {n - k : k \in S}
<1>1. \A x, y \in Nat : x < y => <<x, y>> \in R
  BY DEF OpToRel
<1>2. T \subseteq Nat /\ T # {}
  <2>1. \A k \in S : k \in 1 .. n /\ n - k \in Nat
    OBVIOUS
  <2> QED
    BY <2>1
<1>3. IsWellFoundedOn(R, Nat)
  BY NatLessThanWellFounded
<1> HIDE DEF R
<1>4. PICK x \in T : \A y \in T : <<y, x>> \notin R
  <2> HIDE DEF T
  <2> QED
    BY <1>2, <1>3, WFMin
<1>5. PICK k \in S : x = n - k
  BY <1>4
<1>6. ASSUME NEW j \in S PROVE j <= k
  <2>1. n - j \in T /\ n - j \in Nat /\ x \in Nat
    BY <1>4, <1>2
  <2>2. ~(n - j < x)
    BY <2>1, <1>1, <1>4
  <2> QED
    BY <2>2, <1>5
<1> QED
  BY <1>6

\* Among the children that are hit, one is the topmost: the search ends with it.
LEMMA TopmostIs ==
    ASSUME TypeOK, mCurrentScene \in Scenes,
           NEW hit \in SUBSET Elements(mChildren[mCurrentScene]), hit # {}
    PROVE  /\ Topmost(hit) \in DOMAIN mChildren[mCurrentScene]
           /\ mChildren[mCurrentScene][Topmost(hit)] \in hit
           /\ \A j \in DOMAIN mChildren[mCurrentScene] :
                  mChildren[mCurrentScene][j] \in hit => j <= Topmost(hit)
<1> DEFINE list == mChildren[mCurrentScene]
           S == {k \in DOMAIN list : list[k] \in hit}
<1>1. list \in Seq(Buttons) /\ Len(list) \in Nat /\ DOMAIN list = 1 .. Len(list)
  BY DEF TypeOK
<1>2. S # {} /\ S \in SUBSET (1 .. Len(list))
  BY <1>1 DEF Elements
<1>3. \E k \in S : \A j \in S : j <= k
  <2> HIDE DEF S, list
  <2> QED
    BY <1>1, <1>2, GreatestExists
<1>4. \E k \in DOMAIN list : list[k] \in hit /\ \A j \in DOMAIN list : list[j] \in hit => j <= k
  BY <1>3
<1> QED
  BY <1>4 DEF Topmost, Current

LEMMA InitInvariant == Init => IInv
<1> SUFFICES ASSUME Init PROVE IInv
  OBVIOUS
<1>1. TypeOK
  <2>1. /\ 0 \in 0 .. PressTicks /\ 0 \in Nat
        /\ Initial \in [Scenes -> Seq(Buttons)]
    BY TouchAssumption
  <2>2. /\ mPressedFingers \subseteq Fingers /\ mActiveTouches \subseteq Fingers
        /\ mCurrentScene \in Scenes \cup {None} /\ updating \in Scenes \cup {None}
        /\ next \in Nat /\ handling \in BOOLEAN /\ nestedLayout \in BOOLEAN
    BY DEF Init
  <2>3. /\ mChildren \in [Scenes -> Seq(Buttons)]
        /\ mTouchedChild \in [Scenes -> Buttons \cup {None}]
        /\ mTouchedChildIndex \in [Scenes -> Nat]
        /\ mTouchedFingers \in [Scenes -> SUBSET Fingers]
    BY <2>1 DEF Init
  <2>4. /\ mFingersDown \in [Buttons -> Nat] /\ cancelled \in [Buttons -> Nat]
        /\ mFingersInside \in [Buttons -> SUBSET Fingers]
        /\ mClickPending \in [Buttons -> BOOLEAN]
        /\ mPressedTime \in [Buttons -> 0 .. PressTicks]
    BY <2>1 DEF Init
  <2> QED
    BY <2>2, <2>3, <2>4 DEF TypeOK
<1>2. Routing
  BY TouchAssumption DEF Init, Routing
<1>3. InsideRouted /\ TouchedChildInPlace
  BY DEF Init, InsideRouted, TouchedChildInPlace
<1>4. FingersCounted
  <2>1. \A b : On(b) = {}
    BY DEF Init, On
  <2> QED
    BY <2>1, FS_EmptySet DEF Init, FingersCounted
<1> QED
  BY <1>1, <1>2, <1>3, <1>4 DEF IInv

-----------------------------------------------------------------------------
(* A finger is put on a button *)

FrameTypes ==
    /\ updating \in Scenes \cup {None}
    /\ next \in Nat
    /\ handling \in BOOLEAN
    /\ nestedLayout \in BOOLEAN

LEMMA TrackTypes ==
    ASSUME TypeOK, NEW b \in Buttons, NEW f \in Fingers, Track(b, f)
    PROVE  /\ mFingersInside' \in [Buttons -> SUBSET Fingers]
           /\ mClickPending' \in [Buttons -> BOOLEAN]
           /\ mPressedTime' \in [Buttons -> 0 .. PressTicks]
           /\ \A x \in Buttons :
                  mFingersInside'[x] =
                      IF x = b THEN mFingersInside[x] \cup {f} ELSE mFingersInside[x]
<1>1. PressTicks \in 0 .. PressTicks
  BY TouchAssumption
<1> QED
  BY <1>1 DEF TypeOK, Track

LEMMA UntrackTypes ==
    ASSUME TypeOK, NEW b \in Buttons, NEW f \in Fingers, NEW c \in BOOLEAN, Untrack(b, f, c)
    PROVE  /\ mFingersInside' \in [Buttons -> SUBSET Fingers]
           /\ mClickPending' \in [Buttons -> BOOLEAN]
           /\ mPressedTime' \in [Buttons -> 0 .. PressTicks]
           /\ \A x \in Buttons :
                  mFingersInside'[x] =
                      IF x = b THEN mFingersInside[x] \ {f} ELSE mFingersInside[x]
BY DEF TypeOK, Untrack

LEMMA Begins ==
    ASSUME IInv, NEW c \in Scenes, c = mCurrentScene,
           NEW b \in Buttons, NEW f \in Fingers, f \notin mPressedFingers,
           NEW k \in DOMAIN mChildren[c], mChildren[c][k] = b,
           mTouchedChild[c] \in {None, b},
           ButtonBegins(b, f),
           mTouchedChild' = [mTouchedChild EXCEPT ![c] = b],
           mTouchedChildIndex' = [mTouchedChildIndex EXCEPT ![c] = k],
           mPressedFingers' = mPressedFingers \cup {f},
           mActiveTouches' = mActiveTouches \cup {f},
           UNCHANGED <<mCurrentScene, mChildren, frame, cancelled, nestedLayout>>
    PROVE  IInv'
<1>1. /\ mFingersDown' = [mFingersDown EXCEPT ![b] = @ + 1]
      /\ Track(b, f)
      /\ mTouchedFingers' = [mTouchedFingers EXCEPT ![c] = @ \cup {f}]
  BY DEF ButtonBegins, Current
<1>2. /\ mFingersInside' \in [Buttons -> SUBSET Fingers]
      /\ mClickPending' \in [Buttons -> BOOLEAN]
      /\ mPressedTime' \in [Buttons -> 0 .. PressTicks]
      /\ \A x \in Buttons :
             mFingersInside'[x] =
                 IF x = b THEN mFingersInside[x] \cup {f} ELSE mFingersInside[x]
  BY <1>1, TrackTypes DEF IInv
<1>3. k \in Nat /\ b # None
  BY TouchAssumption DEF IInv, TypeOK
<1>4. /\ mTouchedChild \in [Scenes -> Buttons \cup {None}]
      /\ mTouchedChildIndex \in [Scenes -> Nat]
      /\ mTouchedFingers \in [Scenes -> SUBSET Fingers]
      /\ mFingersDown \in [Buttons -> Nat]
  BY DEF IInv, TypeOK
<1>5. /\ mTouchedChild' \in [Scenes -> Buttons \cup {None}]
      /\ mTouchedChildIndex' \in [Scenes -> Nat]
      /\ mTouchedFingers' \in [Scenes -> SUBSET Fingers]
      /\ mFingersDown' \in [Buttons -> Nat]
  BY <1>1, <1>3, <1>4
<1>6. \A s \in Scenes :
          /\ mTouchedChild'[s] = IF s = c THEN b ELSE mTouchedChild[s]
          /\ mTouchedChildIndex'[s] = IF s = c THEN k ELSE mTouchedChildIndex[s]
          /\ mTouchedFingers'[s] =
                 IF s = c THEN mTouchedFingers[s] \cup {f} ELSE mTouchedFingers[s]
  BY <1>1, <1>4
<1>7. \A x \in Buttons : mFingersDown'[x] = IF x = b THEN mFingersDown[x] + 1 ELSE mFingersDown[x]
  BY <1>1, <1>4
<1>8. TypeOK'
  BY <1>2, <1>5 DEF IInv, TypeOK, frame
<1>9. Routing'
  <2>1. mActiveTouches \subseteq mPressedFingers /\ mTouchedFingers[c] \subseteq mActiveTouches
    BY DEF IInv, Routing
  <2>2. /\ mActiveTouches' \subseteq mPressedFingers' /\ mCurrentScene' = c
        /\ mTouchedFingers'[c] \subseteq mActiveTouches' /\ mTouchedFingers'[c] # {}
        /\ mTouchedChild'[c] # None
    BY <2>1, <1>3, <1>6
  <2>3. ASSUME NEW s \in Scenes, s # c
        PROVE  /\ mTouchedFingers'[s] \subseteq mActiveTouches'
               /\ mTouchedChild'[s] = None <=> mTouchedFingers'[s] = {}
               /\ mTouchedFingers'[s] = {}
    BY <2>3, <1>6 DEF IInv, Routing
  <2>4. c # None
    BY TouchAssumption
  <2> QED
    BY <2>2, <2>3, <2>4 DEF Routing
<1>10. \A x \in Buttons : On(x)' = IF x = b THEN On(x) \cup {f} ELSE On(x)
  <2>1. \A s \in Scenes : s # c => mTouchedFingers'[s] = {}
    BY <1>6 DEF IInv, Routing
  <2>2. \A x : On(x)' = IF mTouchedChild'[c] = x THEN mTouchedFingers'[c] ELSE {}
    <3>1. \A x : OnOf(mTouchedChild', mTouchedFingers', x) =
                     IF c \in Scenes /\ mTouchedChild'[c] = x THEN mTouchedFingers'[c] ELSE {}
      BY <2>1 DEF OnOf
    <3> QED
      BY <3>1, OnIs
  <2>3. mTouchedChild[c] = None => mTouchedFingers[c] = {}
    BY DEF IInv, Routing
  <2>4. \A x \in Buttons : On(x) = IF mTouchedChild[c] = x THEN mTouchedFingers[c] ELSE {}
    BY OnCurrent
  <2>5. \A x \in Buttons : x # None
    BY TouchAssumption
  <2> QED
    BY <2>2, <2>3, <2>4, <2>5, <1>6
<1>11. InsideRouted'
  BY <1>2, <1>10 DEF IInv, InsideRouted
<1>12. TouchedChildInPlace'
  <2>1. mChildren' = mChildren
    OBVIOUS
  <2>2. ASSUME NEW s \in Scenes, mTouchedChild'[s] # None
        PROVE  /\ mTouchedChildIndex'[s] \in DOMAIN mChildren'[s]
               /\ mChildren'[s][mTouchedChildIndex'[s]] = mTouchedChild'[s]
    <3>1. CASE s = c
      BY <3>1, <2>1, <1>6
    <3>2. CASE s # c
      BY <3>2, <2>1, <2>2, <1>6 DEF IInv, TouchedChildInPlace
    <3> QED
      BY <3>1, <3>2
  <2> QED
    BY <2>2 DEF TouchedChildInPlace
<1>13. FingersCounted'
  <2>1. ASSUME NEW x \in Buttons
        PROVE  mFingersDown'[x] = Cardinality(On(x)') + cancelled[x]
    <3>1. /\ mFingersDown[x] = Cardinality(On(x)) + cancelled[x]
          /\ IsFiniteSet(On(x)) /\ Cardinality(On(x)) \in Nat /\ cancelled[x] \in Nat
      BY OnCurrent DEF IInv, FingersCounted, TypeOK
    <3>2. f \notin On(x)
      BY OnCurrent DEF IInv, Routing
    <3>3. Cardinality(On(x) \cup {f}) = Cardinality(On(x)) + 1
      BY <3>1, <3>2, FS_AddElement
    <3>4. CASE x = b
      BY <3>1, <3>3, <3>4, <1>7, <1>10
    <3>5. CASE x # b
      BY <3>1, <3>5, <1>7, <1>10
    <3> QED
      BY <3>4, <3>5
  <2>2. cancelled' = cancelled
    OBVIOUS
  <2> QED
    BY <2>1, <2>2 DEF FingersCounted
<1> QED
  BY <1>8, <1>9, <1>11, <1>12, <1>13 DEF IInv

-----------------------------------------------------------------------------
(* Steps that leave the fingers on the buttons alone *)

LEMMA Elsewhere ==
    ASSUME IInv,
           UNCHANGED <<mCurrentScene, mChildren, mTouchedChild, mTouchedChildIndex,
                       mTouchedFingers, mFingersDown, mFingersInside, cancelled>>,
           mPressedFingers' \subseteq Fingers, mActiveTouches' \subseteq mPressedFingers',
           mCurrentScene = None => mActiveTouches' = {},
           \A s \in Scenes : mTouchedFingers[s] \subseteq mActiveTouches',
           mClickPending' \in [Buttons -> BOOLEAN],
           mPressedTime' \in [Buttons -> 0 .. PressTicks],
           FrameTypes'
    PROVE  IInv'
<1>1. TypeOK'
  BY DEF IInv, TypeOK, FrameTypes
<1>2. Routing'
  BY DEF IInv, Routing
<1>3. \A x : On(x)' = On(x)
  BY DEF On
<1>4. InsideRouted' /\ FingersCounted'
  BY <1>3 DEF IInv, InsideRouted, FingersCounted
<1>5. TouchedChildInPlace'
  BY DEF IInv, TouchedChildInPlace
<1> QED
  BY <1>1, <1>2, <1>4, <1>5 DEF IInv

LEMMA Types ==
    ASSUME IInv
    PROVE  /\ mPressedFingers \subseteq Fingers /\ mActiveTouches \subseteq mPressedFingers
           /\ mClickPending \in [Buttons -> BOOLEAN]
           /\ mPressedTime \in [Buttons -> 0 .. PressTicks]
           /\ mCurrentScene = None => mActiveTouches = {}
           /\ \A s \in Scenes : mTouchedFingers[s] \subseteq mActiveTouches
           /\ FrameTypes
BY DEF IInv, TypeOK, Routing, FrameTypes

LEMMA BeginStep ==
    ASSUME IInv, NEW f \in Fingers, FingerBegin(f)
    PROVE  IInv'
<1>1. /\ f \notin mPressedFingers
      /\ mPressedFingers' = mPressedFingers \cup {f}
      /\ UNCHANGED <<mCurrentScene, mChildren, frame, cancelled, nestedLayout>>
  BY DEF FingerBegin
<1>2. FrameTypes'
  BY <1>1, Types DEF frame, FrameTypes
<1>3. ASSUME UNCHANGED <<button, children>>,
             mActiveTouches' \in {mActiveTouches, mActiveTouches \cup {f}},
             mCurrentScene = None => mActiveTouches' = mActiveTouches
      PROVE  IInv'
  BY <1>1, <1>2, <1>3, Types, Elsewhere DEF button, children
<1>4. CASE mCurrentScene = None
  BY <1>3, <1>4 DEF FingerBegin, Current
<1>5. CASE mCurrentScene # None
  <2>1. mCurrentScene \in Scenes
    BY <1>5 DEF IInv, Routing
  <2>2. PICK hit \in SUBSET Elements(mChildren[mCurrentScene]) : BeginTouch(f, hit)
    BY <1>5 DEF FingerBegin, Current
  <2>3. CASE Touched # None /\ Touched \notin hit
    <3>1. UNCHANGED <<button, children>> /\ mActiveTouches' = mActiveTouches \cup {f}
      BY <2>2, <2>3 DEF BeginTouch, children
    <3> QED
      BY <3>1, <1>3, <1>5
  <2>4. CASE Touched = None /\ hit = {}
    <3>1. /\ UNCHANGED <<button, children>>
          /\ mActiveTouches' \in {mActiveTouches, mActiveTouches \cup {f}}
      BY <2>2, <2>4 DEF BeginTouch
    <3> QED
      BY <3>1, <1>3, <1>5
  <2>5. CASE Touched # None /\ Touched \in hit
    <3> DEFINE c == mCurrentScene
    <3>1. /\ ButtonBegins(mTouchedChild[c], f)
          /\ UNCHANGED <<mTouchedChild, mTouchedChildIndex>>
          /\ mActiveTouches' = mActiveTouches \cup {f}
      BY <2>2, <2>5 DEF BeginTouch, Touched, Current
    <3>2. /\ mTouchedChild[c] \in Buttons
          /\ mTouchedChildIndex[c] \in DOMAIN mChildren[c]
          /\ mChildren[c][mTouchedChildIndex[c]] = mTouchedChild[c]
          /\ mTouchedChild = [mTouchedChild EXCEPT ![c] = mTouchedChild[c]]
          /\ mTouchedChildIndex = [mTouchedChildIndex EXCEPT ![c] = mTouchedChildIndex[c]]
      BY <2>1, <2>5 DEF IInv, TypeOK, TouchedChildInPlace, Touched, Current
    <3> QED
      BY <2>1, <3>1, <3>2, <1>1, Begins
  <2>6. CASE Touched = None /\ hit # {}
    <3> DEFINE c == mCurrentScene
               k == Topmost(hit)
    <3>1. /\ ButtonBegins(mChildren[c][k], f)
          /\ mTouchedChild' = [mTouchedChild EXCEPT ![c] = mChildren[c][k]]
          /\ mTouchedChildIndex' = [mTouchedChildIndex EXCEPT ![c] = k]
          /\ mActiveTouches' = mActiveTouches \cup {f}
      BY <2>2, <2>6 DEF BeginTouch, Current
    <3>2. k \in DOMAIN mChildren[c] /\ mChildren[c][k] \in hit
      BY <2>1, <2>6, TopmostIs DEF IInv
    <3>3. mChildren[c][k] \in Buttons
      BY <2>1, <3>2 DEF IInv, TypeOK
    <3>4. mTouchedChild[c] = None
      BY <2>6 DEF Touched, Current
    <3> HIDE DEF k
    <3> QED
      BY <2>1, <3>1, <3>2, <3>3, <3>4, <1>1, Begins
  <2> QED
    BY <2>3, <2>4, <2>5, <2>6
<1> QED
  BY <1>4, <1>5

\* A routed finger is on the touched child of the current scene.
LEMMA RoutedIs ==
    ASSUME IInv, NEW f, Routed(f)
    PROVE  /\ mCurrentScene \in Scenes /\ f \in mTouchedFingers[mCurrentScene] /\ f \in Fingers
           /\ Touched = mTouchedChild[mCurrentScene] /\ Touched \in Buttons
           /\ On(Touched) = mTouchedFingers[mCurrentScene]
<1>1. /\ mCurrentScene \in Scenes /\ f \in mTouchedFingers[mCurrentScene] /\ f \in Fingers
      /\ Touched = mTouchedChild[mCurrentScene] /\ mCurrentScene # None
  BY DEF Routed, Current, Touched, IInv, Routing, TypeOK
<1>2. Touched \in Buttons
  BY <1>1 DEF IInv, Routing, TypeOK
<1> QED
  BY <1>1, <1>2, OnCurrent

LEMMA MoveStep ==
    ASSUME IInv, NEW f \in Fingers, FingerMove(f)
    PROVE  IInv'
<1>1. /\ Routed(f)
      /\ Track(Touched, f) \/ Untrack(Touched, f, FALSE)
      /\ UNCHANGED <<mPressedFingers, manager, mChildren, children, mFingersDown,
                     frame, cancelled, nestedLayout>>
  BY DEF FingerMove
<1>2. Touched \in Buttons /\ f \in On(Touched)
  BY <1>1, RoutedIs
<1>3. /\ mFingersInside' \in [Buttons -> SUBSET Fingers]
      /\ mClickPending' \in [Buttons -> BOOLEAN]
      /\ mPressedTime' \in [Buttons -> 0 .. PressTicks]
      /\ \A x \in Buttons :
             mFingersInside'[x] \subseteq
                 IF x = Touched THEN mFingersInside[x] \cup {f} ELSE mFingersInside[x]
  <2>1. TypeOK
    BY DEF IInv
  <2>2. CASE Track(Touched, f)
    BY <2>1, <2>2, <1>2, TrackTypes
  <2>3. CASE Untrack(Touched, f, FALSE)
    BY <2>1, <2>3, <1>2, UntrackTypes
  <2> QED
    BY <1>1, <2>2, <2>3
<1>4. UNCHANGED <<mPressedFingers, mActiveTouches, mCurrentScene, mChildren, mTouchedChild,
                  mTouchedChildIndex, mTouchedFingers, mFingersDown, cancelled>>
  BY <1>1 DEF manager, children
<1>5. TypeOK'
  BY <1>1, <1>3, <1>4 DEF IInv, TypeOK, frame
<1>6. Routing'
  BY <1>4 DEF IInv, Routing
<1>7. \A x : On(x)' = On(x)
  BY <1>4 DEF On
<1>8. InsideRouted'
  BY <1>2, <1>3, <1>7 DEF IInv, InsideRouted
<1>9. FingersCounted' /\ TouchedChildInPlace'
  BY <1>4, <1>7 DEF IInv, FingersCounted, TouchedChildInPlace
<1> QED
  BY <1>5, <1>6, <1>8, <1>9 DEF IInv

-----------------------------------------------------------------------------
(* Fingers are taken off *)

LEMMA TakenOff ==
    ASSUME IInv, mCurrentScene \in Scenes,
           NEW G \in SUBSET mTouchedFingers[mCurrentScene], G # {}, TakeOff(G)
    PROVE  /\ Touched \in Buttons /\ On(Touched) = mTouchedFingers[mCurrentScene]
           /\ mTouchedChild' \in [Scenes -> Buttons \cup {None}]
           /\ mTouchedFingers' \in [Scenes -> SUBSET Fingers]
           /\ mTouchedChildIndex' = mTouchedChildIndex
           /\ \A s \in Scenes :
                  /\ mTouchedFingers'[s] = mTouchedFingers[s] \ G
                  /\ mTouchedChild'[s] = None <=> mTouchedFingers'[s] = {}
                  /\ mTouchedChild'[s] \in {mTouchedChild[s], None}
                  /\ s # mCurrentScene => mTouchedFingers'[s] = {}
           /\ \A x \in Buttons :
                  /\ On(x)' = On(x) \ G
                  /\ x # Touched => On(x) = {}
           /\ IsFiniteSet(G) /\ Cardinality(G) \in Nat
           /\ Cardinality(On(Touched)) = Cardinality(On(Touched) \ G) + Cardinality(G)
           /\ Cardinality(On(Touched) \ G) \in Nat
<1> DEFINE c == mCurrentScene
           remaining == mTouchedFingers[c] \ G
<1>1. /\ mTouchedChild \in [Scenes -> Buttons \cup {None}]
      /\ mTouchedFingers \in [Scenes -> SUBSET Fingers]
  BY DEF IInv, TypeOK
<1>2. /\ mTouchedFingers' = [mTouchedFingers EXCEPT ![c] = remaining]
      /\ mTouchedChild' = [mTouchedChild EXCEPT ![c] = IF remaining = {} THEN None ELSE @]
      /\ mTouchedChildIndex' = mTouchedChildIndex
  BY DEF TakeOff, Current
<1>3. /\ mTouchedChild' \in [Scenes -> Buttons \cup {None}]
      /\ mTouchedFingers' \in [Scenes -> SUBSET Fingers]
  BY <1>1, <1>2
<1>4. /\ c # None /\ mTouchedChild[c] # None /\ mTouchedChild[c] \in Buttons
      /\ Touched = mTouchedChild[c] /\ None \notin Buttons
  BY <1>1, TouchAssumption DEF IInv, Routing, Touched, Current
<1>5. \A x \in Buttons : On(x) = IF x = Touched THEN mTouchedFingers[c] ELSE {}
  BY <1>4, OnCurrent
<1>6. \A s \in Scenes :
          /\ mTouchedFingers'[s] = IF s = c THEN remaining ELSE mTouchedFingers[s]
          /\ mTouchedChild'[s] =
                 IF s = c THEN (IF remaining = {} THEN None ELSE mTouchedChild[s]) ELSE mTouchedChild[s]
  BY <1>1, <1>2
<1>7. \A s \in Scenes : s # c => mTouchedFingers[s] = {} /\ mTouchedChild[s] = None
  BY DEF IInv, Routing
<1>8. \A s \in Scenes :
          /\ mTouchedFingers'[s] = mTouchedFingers[s] \ G
          /\ mTouchedChild'[s] = None <=> mTouchedFingers'[s] = {}
          /\ mTouchedChild'[s] \in {mTouchedChild[s], None}
          /\ s # c => mTouchedFingers'[s] = {}
  BY <1>4, <1>6, <1>7
<1>9. \A x \in Buttons : On(x)' = On(x) \ G
  <2>1. \A x : On(x)' = IF mTouchedChild'[c] = x THEN mTouchedFingers'[c] ELSE {}
    <3>1. \A x : OnOf(mTouchedChild', mTouchedFingers', x) =
                     IF c \in Scenes /\ mTouchedChild'[c] = x THEN mTouchedFingers'[c] ELSE {}
      BY <1>8 DEF OnOf
    <3> QED
      BY <3>1, OnIs
  <2>2. mTouchedFingers'[c] = remaining
    BY <1>6
  <2>3. mTouchedChild'[c] = IF remaining = {} THEN None ELSE Touched
    BY <1>4, <1>6
  <2> HIDE DEF c
  <2> QED
    BY <2>1, <2>2, <2>3, <1>4, <1>5
<1>10. /\ IsFiniteSet(G) /\ Cardinality(G) \in Nat
       /\ Cardinality(On(Touched)) = Cardinality(On(Touched) \ G) + Cardinality(G)
       /\ Cardinality(On(Touched) \ G) \in Nat
  <2>1. IsFiniteSet(On(Touched)) /\ Cardinality(On(Touched)) \in Nat /\ G \subseteq On(Touched)
    BY <1>4, <1>5, OnCurrent
  <2>2. IsFiniteSet(G) /\ On(Touched) \cap G = G /\ IsFiniteSet(On(Touched) \ G)
    BY <2>1, FS_Subset
  <2>3. Cardinality(On(Touched) \ G) = Cardinality(On(Touched)) - Cardinality(G)
    BY <2>1, <2>2, FS_Difference
  <2>4. Cardinality(G) \in Nat /\ Cardinality(On(Touched) \ G) \in Nat
    BY <2>2, FS_CardinalityType
  <2> QED
    BY <2>1, <2>2, <2>3, <2>4
<1> QED
  BY <1>2, <1>3, <1>4, <1>5, <1>8, <1>9, <1>10

\* The effect of FingerEnd on the button that a routed finger is lifted from.
LEMMA Lifted ==
    ASSUME IInv, NEW f \in Fingers, FingerEnd(f), Routed(f)
    PROVE  /\ Touched \in Buttons /\ f \in On(Touched) /\ TakeOff({f})
           /\ mFingersDown' = [mFingersDown EXCEPT ![Touched] = @ - 1]
           /\ mFingersDown[Touched] \in Nat \ {0}
           /\ Untrack(Touched, f, mFingersDown[Touched] = 1)
           /\ \A x \in Buttons : On(x)' = On(x) \ {f}
           /\ Cardinality(On(Touched)) = Cardinality(On(Touched) \ {f}) + 1
           /\ Cardinality(On(Touched) \ {f}) \in Nat
<1>1. /\ TakeOff({f})
      /\ mFingersDown' = [mFingersDown EXCEPT ![Touched] = @ - 1]
      /\ Untrack(Touched, f, mFingersDown[Touched] = 1)
  BY DEF FingerEnd
<1>2. Touched \in Buttons /\ f \in On(Touched) /\ mCurrentScene \in Scenes
      /\ {f} \in SUBSET mTouchedFingers[mCurrentScene] /\ {f} # {}
  BY RoutedIs
<1>3. /\ \A x \in Buttons : On(x)' = On(x) \ {f}
      /\ Cardinality(On(Touched)) = Cardinality(On(Touched) \ {f}) + Cardinality({f})
      /\ Cardinality(On(Touched) \ {f}) \in Nat
  BY <1>1, <1>2, TakenOff
<1>4. Cardinality({f}) = 1
  BY FS_Singleton
<1>5. mFingersDown[Touched] \in Nat \ {0}
  <2>1. mFingersDown[Touched] = Cardinality(On(Touched)) + cancelled[Touched]
    BY <1>2 DEF IInv, FingersCounted
  <2>2. cancelled[Touched] \in Nat
    BY <1>2 DEF IInv, TypeOK
  <2> QED
    BY <2>1, <2>2, <1>3, <1>4
<1> QED
  BY <1>1, <1>2, <1>3, <1>4, <1>5

LEMMA EndStep ==
    ASSUME IInv, NEW f \in Fingers, FingerEnd(f)
    PROVE  IInv'
<1>1. /\ f \in mPressedFingers
      /\ mPressedFingers' = mPressedFingers \ {f}
      /\ mActiveTouches' = IF mCurrentScene = None THEN mActiveTouches ELSE mActiveTouches \ {f}
      /\ UNCHANGED <<mCurrentScene, mChildren, frame, cancelled, nestedLayout>>
  BY DEF FingerEnd, Current
<1>2. /\ mPressedFingers' \subseteq Fingers /\ mActiveTouches' \subseteq mPressedFingers'
      /\ mCurrentScene = None => mActiveTouches' = {}
  BY <1>1, Types
<1>3. FrameTypes'
  BY <1>1, Types DEF frame, FrameTypes
<1>4. CASE ~Routed(f)
  <2>1. UNCHANGED <<children, button>>
    BY <1>4 DEF FingerEnd
  <2>2. \A s \in Scenes : mTouchedFingers[s] \subseteq mActiveTouches'
    BY <1>1, <1>4 DEF IInv, Routing, Routed, Current
  <2> QED
    BY <2>1, <2>2, <1>1, <1>2, <1>3, Types, Elsewhere DEF button, children
<1>5. CASE Routed(f)
  <2>1. /\ Touched \in Buttons /\ f \in On(Touched) /\ TakeOff({f})
        /\ mFingersDown' = [mFingersDown EXCEPT ![Touched] = @ - 1]
        /\ mFingersDown[Touched] \in Nat \ {0}
        /\ Untrack(Touched, f, mFingersDown[Touched] = 1)
        /\ \A x \in Buttons : On(x)' = On(x) \ {f}
        /\ Cardinality(On(Touched)) = Cardinality(On(Touched) \ {f}) + 1
        /\ Cardinality(On(Touched) \ {f}) \in Nat
    BY <1>5, Lifted
  <2>2. mCurrentScene \in Scenes /\ {f} \in SUBSET mTouchedFingers[mCurrentScene] /\ {f} # {}
    BY <1>5, RoutedIs
  <2>3. /\ mTouchedChild' \in [Scenes -> Buttons \cup {None}]
        /\ mTouchedFingers' \in [Scenes -> SUBSET Fingers]
        /\ mTouchedChildIndex' = mTouchedChildIndex
        /\ \A s \in Scenes :
               /\ mTouchedFingers'[s] = mTouchedFingers[s] \ {f}
               /\ mTouchedChild'[s] = None <=> mTouchedFingers'[s] = {}
               /\ mTouchedChild'[s] \in {mTouchedChild[s], None}
               /\ s # mCurrentScene => mTouchedFingers'[s] = {}
        /\ \A x \in Buttons : x # Touched => On(x) = {}
    BY <2>1, <2>2, TakenOff
  <2>4. /\ mFingersInside' \in [Buttons -> SUBSET Fingers]
        /\ mClickPending' \in [Buttons -> BOOLEAN]
        /\ mPressedTime' \in [Buttons -> 0 .. PressTicks]
        /\ \A x \in Buttons :
               mFingersInside'[x] =
                   IF x = Touched THEN mFingersInside[x] \ {f} ELSE mFingersInside[x]
    <3>1. (mFingersDown[Touched] = 1) \in BOOLEAN /\ TypeOK
      BY DEF IInv
    <3> QED
      BY <3>1, <2>1, UntrackTypes
  <2>5. /\ mFingersDown' \in [Buttons -> Nat]
        /\ \A x \in Buttons :
               mFingersDown'[x] = IF x = Touched THEN mFingersDown[x] - 1 ELSE mFingersDown[x]
    <3>1. mFingersDown \in [Buttons -> Nat] /\ mFingersDown[Touched] - 1 \in Nat
      BY <2>1 DEF IInv, TypeOK
    <3> QED
      BY <3>1, <2>1
  <2>6. TypeOK'
    BY <1>1, <1>2, <1>3, <2>3, <2>4, <2>5 DEF IInv, TypeOK, FrameTypes
  <2>7. Routing'
    <3>1. \A s \in Scenes : mTouchedFingers'[s] \subseteq mActiveTouches'
      BY <1>1, <2>3, Types
    <3> QED
      BY <3>1, <1>1, <1>2, <2>3 DEF IInv, Routing
  <2>8. InsideRouted'
    <3>1. ASSUME NEW x \in Buttons PROVE mFingersInside'[x] \subseteq On(x)'
      BY <2>1, <2>3, <2>4 DEF IInv, InsideRouted
    <3> QED
      BY <3>1 DEF InsideRouted
  <2>9. TouchedChildInPlace'
    BY <1>1, <2>3 DEF IInv, TouchedChildInPlace
  <2>10. FingersCounted'
    <3>1. ASSUME NEW x \in Buttons
          PROVE  mFingersDown'[x] = Cardinality(On(x)') + cancelled[x]
      <4>1. mFingersDown[x] = Cardinality(On(x)) + cancelled[x] /\ cancelled[x] \in Nat
        BY DEF IInv, FingersCounted, TypeOK
      <4>2. CASE x = Touched
        BY <4>1, <4>2, <2>1, <2>5
      <4>3. CASE x # Touched
        <5>1. On(x)' = On(x)
          BY <4>3, <2>1, <2>3
        <5> QED
          BY <5>1, <4>1, <4>3, <2>5
      <4> QED
        BY <4>2, <4>3
    <3> QED
      BY <3>1, <1>1 DEF FingersCounted
  <2> QED
    BY <2>6, <2>7, <2>8, <2>9, <2>10 DEF IInv
<1> QED
  BY <1>4, <1>5

-----------------------------------------------------------------------------
(* Cancelled touches, and what is done after all have been cancelled *)

\* What the set of fingers leaves behind, before anything else changes: all parts
\* of the invariant that do not ask for the current scene and the lists.
Agreed ==
    /\ mPressedFingers \subseteq Fingers /\ mActiveTouches \subseteq mPressedFingers
    /\ mTouchedChild \in [Scenes -> Buttons \cup {None}]
    /\ mTouchedChildIndex \in [Scenes -> Nat]
    /\ mTouchedFingers \in [Scenes -> SUBSET Fingers]
    /\ mFingersDown \in [Buttons -> Nat]
    /\ mFingersInside \in [Buttons -> SUBSET Fingers]
    /\ mClickPending \in [Buttons -> BOOLEAN]
    /\ mPressedTime \in [Buttons -> 0 .. PressTicks]
    /\ cancelled \in [Buttons -> Nat]
    /\ \A s \in Scenes :
           /\ mTouchedFingers[s] \subseteq mActiveTouches
           /\ mTouchedChild[s] = None <=> mTouchedFingers[s] = {}
    /\ InsideRouted /\ FingersCounted

LEMMA Cancelling ==
    ASSUME IInv, NEW S \in SUBSET mPressedFingers, CancelTouches(S)
    PROVE  /\ Agreed'
           /\ mPressedFingers' = mPressedFingers \ S
           /\ mTouchedChildIndex' = mTouchedChildIndex
           /\ mCurrentScene = None => mActiveTouches' = {}
           /\ \A s \in Scenes :
                  /\ mTouchedChild'[s] \in {mTouchedChild[s], None}
                  /\ s # mCurrentScene => mTouchedFingers'[s] = {}
           /\ S = mPressedFingers =>
                  mActiveTouches' = {} /\ \A s \in Scenes : mTouchedFingers'[s] = {}
<1> DEFINE G == {f \in S : Routed(f)}
<1>1. /\ mPressedFingers' = mPressedFingers \ S
      /\ mActiveTouches' = IF mCurrentScene = None THEN mActiveTouches ELSE mActiveTouches \ S
      /\ IF G = {}
         THEN UNCHANGED <<children, button, cancelled>>
         ELSE /\ TakeOff(G)
              /\ mFingersInside' = [mFingersInside EXCEPT ![Touched] = @ \ G]
              /\ cancelled' = [cancelled EXCEPT ![Touched] = @ + Cardinality(G)]
              /\ UNCHANGED <<mFingersDown, mClickPending, mPressedTime>>
  BY DEF CancelTouches, Current
<1>2. \A f : f \in G <=> f \in S /\ Routed(f)
  OBVIOUS
<1>3. \A f : Routed(f) <=> /\ mCurrentScene \in Scenes
                            /\ f \in mTouchedFingers[mCurrentScene]
  BY OnCurrent DEF Routed, Current, IInv, Routing
<1> HIDE DEF G
<1>4. /\ mPressedFingers' \subseteq Fingers /\ mActiveTouches' \subseteq mPressedFingers'
      /\ mCurrentScene = None => mActiveTouches' = {}
      /\ S = mPressedFingers => mActiveTouches' = {}
  BY <1>1, Types
<1>5. CASE G = {}
  <2>1. UNCHANGED <<mTouchedChild, mTouchedChildIndex, mTouchedFingers, mFingersDown,
                    mFingersInside, mClickPending, mPressedTime, cancelled>>
    BY <1>1, <1>5 DEF children, button
  <2>2. \A s \in Scenes : mTouchedFingers[s] \cap S = {} /\ mTouchedFingers[s] \subseteq mActiveTouches
    <3>1. \A s \in Scenes : s # mCurrentScene => mTouchedFingers[s] = {}
      BY DEF IInv, Routing
    <3>2. mCurrentScene \in Scenes => mTouchedFingers[mCurrentScene] \cap S = {}
      BY <1>2, <1>3, <1>5
    <3> QED
      BY <3>1, <3>2, Types
  <2>3. \A s \in Scenes : mTouchedFingers'[s] \subseteq mActiveTouches'
    BY <2>1, <2>2, <1>1
  <2>4. \A x : On(x)' = On(x)
    BY <2>1 DEF On
  <2>5. InsideRouted' /\ FingersCounted'
    BY <2>1, <2>4 DEF IInv, InsideRouted, FingersCounted
  <2>6. \A s \in Scenes : mTouchedChild'[s] = None <=> mTouchedFingers'[s] = {}
    BY <2>1 DEF IInv, Routing
  <2>7. Agreed'
    BY <2>1, <2>3, <2>5, <2>6, <1>4 DEF IInv, TypeOK, Agreed
  <2>8. S = mPressedFingers => \A s \in Scenes : mTouchedFingers'[s] = {}
    BY <2>3, <1>4
  <2> QED
    BY <2>1, <2>7, <2>8, <1>1, <1>4 DEF IInv, Routing
<1>6. CASE G # {}
  <2>1. mCurrentScene \in Scenes /\ G \in SUBSET mTouchedFingers[mCurrentScene] /\ TakeOff(G)
    BY <1>1, <1>2, <1>3, <1>6
  <2>2. /\ Touched \in Buttons
        /\ mTouchedChild' \in [Scenes -> Buttons \cup {None}]
        /\ mTouchedFingers' \in [Scenes -> SUBSET Fingers]
        /\ mTouchedChildIndex' = mTouchedChildIndex
        /\ \A s \in Scenes :
               /\ mTouchedFingers'[s] = mTouchedFingers[s] \ G
               /\ mTouchedChild'[s] = None <=> mTouchedFingers'[s] = {}
               /\ mTouchedChild'[s] \in {mTouchedChild[s], None}
               /\ s # mCurrentScene => mTouchedFingers'[s] = {}
        /\ \A x \in Buttons :
               /\ On(x)' = On(x) \ G
               /\ x # Touched => On(x) = {}
        /\ Cardinality(G) \in Nat
        /\ Cardinality(On(Touched)) = Cardinality(On(Touched) \ G) + Cardinality(G)
        /\ Cardinality(On(Touched) \ G) \in Nat
    BY <2>1, <1>6, TakenOff
  <2>3. /\ mFingersInside' = [mFingersInside EXCEPT ![Touched] = @ \ G]
        /\ cancelled' = [cancelled EXCEPT ![Touched] = @ + Cardinality(G)]
        /\ UNCHANGED <<mFingersDown, mClickPending, mPressedTime>>
    BY <1>1, <1>6
  <2>4. /\ mFingersInside \in [Buttons -> SUBSET Fingers]
        /\ cancelled \in [Buttons -> Nat] /\ mFingersDown \in [Buttons -> Nat]
        /\ mTouchedChildIndex \in [Scenes -> Nat]
    BY DEF IInv, TypeOK
  <2>5. /\ mFingersInside' \in [Buttons -> SUBSET Fingers]
        /\ cancelled' \in [Buttons -> Nat]
    BY <2>2, <2>3, <2>4
  <2>6. \A x \in Buttons :
            /\ mFingersInside'[x] = IF x = Touched THEN mFingersInside[x] \ G ELSE mFingersInside[x]
            /\ cancelled'[x] = IF x = Touched THEN cancelled[x] + Cardinality(G) ELSE cancelled[x]
    BY <2>3, <2>4
  <2>7. \A s \in Scenes : mTouchedFingers'[s] \subseteq mActiveTouches'
    <3>1. ASSUME NEW s \in Scenes PROVE mTouchedFingers'[s] \subseteq mActiveTouches'
      <4>1. CASE s = mCurrentScene
        <5>1. mTouchedFingers[s] \subseteq mActiveTouches /\ mTouchedFingers[s] \cap S \subseteq G
          BY <4>1, <1>2, <1>3, <2>1, Types
        <5>2. mTouchedFingers'[s] = mTouchedFingers[s] \ G
          BY <2>2
        <5> QED
          BY <5>1, <5>2, <1>1
      <4>2. CASE s # mCurrentScene
        BY <4>2, <2>2
      <4> QED
        BY <4>1, <4>2
    <3> QED
      BY <3>1
  <2>8. InsideRouted'
    <3>1. ASSUME NEW x \in Buttons PROVE mFingersInside'[x] \subseteq On(x)'
      BY <2>2, <2>6 DEF IInv, InsideRouted
    <3> QED
      BY <3>1 DEF InsideRouted
  <2>9. FingersCounted'
    <3>1. ASSUME NEW x \in Buttons
          PROVE  mFingersDown'[x] = Cardinality(On(x)') + cancelled'[x]
      <4>1. mFingersDown[x] = Cardinality(On(x)) + cancelled[x] /\ cancelled[x] \in Nat
        BY <2>4 DEF IInv, FingersCounted
      <4>2. CASE x = Touched
        <5>1. On(x)' = On(x) \ G /\ cancelled'[x] = cancelled[x] + Cardinality(G)
          BY <4>2, <2>2, <2>6
        <5>2. /\ Cardinality(On(x)) = Cardinality(On(x) \ G) + Cardinality(G)
              /\ Cardinality(G) \in Nat /\ Cardinality(On(x) \ G) \in Nat
          BY <4>2, <2>2
        <5>3. mFingersDown'[x] = mFingersDown[x]
          BY <2>3
        <5> QED
          BY <5>1, <5>2, <5>3, <4>1
      <4>3. CASE x # Touched
        <5>1. On(x)' = On(x)
          BY <4>3, <2>2
        <5> QED
          BY <5>1, <4>1, <4>3, <2>3, <2>6
      <4> QED
        BY <4>2, <4>3
    <3> QED
      BY <3>1 DEF FingersCounted
  <2>10. Agreed'
    BY <2>2, <2>3, <2>4, <2>5, <2>7, <2>8, <2>9, <1>4, Types DEF Agreed
  <2>11. S = mPressedFingers => \A s \in Scenes : mTouchedFingers'[s] = {}
    BY <2>7, <1>4
  <2> QED
    BY <2>2, <2>10, <2>11, <1>1, <1>4
<1> QED
  BY <1>5, <1>6

LEMMA CancelStep ==
    ASSUME IInv, NEW f \in Fingers, FingerCancel(f)
    PROVE  IInv'
<1>1. /\ {f} \in SUBSET mPressedFingers /\ CancelTouches({f})
      /\ UNCHANGED <<mCurrentScene, mChildren, frame, nestedLayout>>
  BY DEF FingerCancel
<1>2. /\ Agreed'
      /\ mTouchedChildIndex' = mTouchedChildIndex
      /\ mCurrentScene = None => mActiveTouches' = {}
      /\ \A s \in Scenes :
             /\ mTouchedChild'[s] \in {mTouchedChild[s], None}
             /\ s # mCurrentScene => mTouchedFingers'[s] = {}
  BY <1>1, Cancelling
<1>3. TypeOK'
  BY <1>1, <1>2, Types DEF IInv, TypeOK, Agreed, frame, FrameTypes
<1>4. Routing'
  BY <1>1, <1>2 DEF IInv, Routing, Agreed
<1>5. TouchedChildInPlace'
  BY <1>1, <1>2 DEF IInv, TouchedChildInPlace
<1> QED
  BY <1>2, <1>3, <1>4, <1>5 DEF IInv, Agreed

\* After a reset, the lists and the current scene may be any.
LEMMA ResetThen ==
    ASSUME IInv, ResetAll, UNCHANGED frame,
           mCurrentScene' \in Scenes \cup {None},
           mChildren' \in [Scenes -> Seq(Buttons)]
    PROVE  IInv'
<1>1. CancelTouches(mPressedFingers) /\ mPressedFingers \in SUBSET mPressedFingers
  BY DEF ResetAll
<1>2. /\ Agreed'
      /\ mActiveTouches' = {} /\ \A s \in Scenes : mTouchedFingers'[s] = {}
  BY <1>1, Cancelling
<1>3. nestedLayout' \in BOOLEAN
  BY DEF ResetAll
<1>4. TypeOK'
  BY <1>2, <1>3, Types DEF IInv, TypeOK, Agreed, frame, FrameTypes
<1>5. Routing'
  BY <1>2 DEF Routing, Agreed
<1>6. TouchedChildInPlace'
  BY <1>2 DEF TouchedChildInPlace, Agreed
<1> QED
  BY <1>2, <1>4, <1>5, <1>6 DEF IInv, Agreed

LEMMA ResetStep ==
    ASSUME IInv,
           \/ \E s \in Scenes \cup {None} : SwitchScene(s) \/ HandlerSwitches(s)
           \/ Resize
           \/ \E s \in Scenes :
                  \/ \E k \in DOMAIN mChildren[s] : RemoveChild(s, k)
                  \/ \E b \in Elements(Initial[s]) : InsertChild(s, b)
    PROVE  IInv'
<1>1. mChildren \in [Scenes -> Seq(Buttons)] /\ mCurrentScene \in Scenes \cup {None}
  BY DEF IInv, TypeOK
<1>2. ASSUME NEW s \in Scenes \cup {None}, SwitchScene(s) \/ HandlerSwitches(s)
      PROVE  IInv'
  <2>1. ResetAll /\ mCurrentScene' = s /\ UNCHANGED <<mChildren, frame>>
    BY <1>2 DEF SwitchScene, HandlerSwitches, SetCurrentScene
  <2> QED
    BY <2>1, <1>1, ResetThen
<1>3. CASE Resize
  BY <1>1, <1>3, ResetThen DEF Resize
<1>4. ASSUME NEW s \in Scenes, NEW k \in DOMAIN mChildren[s], RemoveChild(s, k)
      PROVE  IInv'
  <2> DEFINE list == mChildren[s]
  <2>1. /\ ResetAll /\ UNCHANGED <<mCurrentScene, frame>>
        /\ mChildren' = [mChildren EXCEPT ![s] = SubSeq(list, 1, k - 1) \o SubSeq(list, k + 1, Len(list))]
    BY <1>4 DEF RemoveChild
  <2>2. list \in Seq(Buttons) /\ Len(list) \in Nat /\ k \in 1 .. Len(list)
    BY <1>1
  <2>3. SubSeq(list, 1, k - 1) \in Seq(Buttons) /\ SubSeq(list, k + 1, Len(list)) \in Seq(Buttons)
    BY <2>2
  <2>4. SubSeq(list, 1, k - 1) \o SubSeq(list, k + 1, Len(list)) \in Seq(Buttons)
    BY <2>3
  <2> HIDE DEF list
  <2>5. mChildren' \in [Scenes -> Seq(Buttons)]
    BY <2>1, <2>4, <1>1
  <2> QED
    BY <2>1, <2>5, <1>1, ResetThen
<1>5. ASSUME NEW s \in Scenes, NEW b \in Elements(Initial[s]), InsertChild(s, b)
      PROVE  IInv'
  <2>1. /\ ResetAll /\ UNCHANGED <<mCurrentScene, frame>>
        /\ mChildren' = [mChildren EXCEPT ![s] = <<b>> \o mChildren[s]]
    BY <1>5 DEF InsertChild
  <2>2. b \in Buttons /\ mChildren[s] \in Seq(Buttons)
    BY <1>1, TouchAssumption DEF Elements
  <2>3. <<b>> \o mChildren[s] \in Seq(Buttons)
    BY <2>2
  <2>4. mChildren' \in [Scenes -> Seq(Buttons)]
    BY <2>1, <2>3, <1>1
  <2> QED
    BY <2>1, <2>4, <1>1, ResetThen
<1> QED
  BY <1>2, <1>3, <1>4, <1>5

-----------------------------------------------------------------------------
(* Frames, and the theorems *)

LEMMA FrameStepKeeps ==
    ASSUME IInv, FrameStep \/ UNCHANGED vars
    PROVE  IInv'
<1>1. ASSUME UNCHANGED <<mPressedFingers, manager, mChildren, children, mFingersDown,
                         mFingersInside, cancelled>>,
             mClickPending' \in [Buttons -> BOOLEAN],
             mPressedTime' \in [Buttons -> 0 .. PressTicks],
             FrameTypes'
      PROVE  IInv'
  BY <1>1, Types, Elsewhere DEF manager, children
<1>2. CASE UNCHANGED vars
  BY <1>1, <1>2, Types DEF vars, button, frame, FrameTypes
<1>3. CASE BeginFrame \/ SceneUpdated \/ HandlerReturns \/ EndFrame
  <2>1. UNCHANGED <<mPressedFingers, manager, mChildren, children, button, cancelled, nestedLayout>>
    BY <1>3 DEF BeginFrame, SceneUpdated, HandlerReturns, EndFrame
  <2>2. FrameTypes'
    <3>1. /\ updating \in Scenes \cup {None} /\ next \in Nat /\ handling \in BOOLEAN
          /\ nestedLayout \in BOOLEAN /\ mCurrentScene \in Scenes \cup {None}
      BY DEF IInv, TypeOK
    <3>2. /\ updating' \in {None, mCurrentScene, updating} /\ next' \in {0, 1, next, next + 1}
          /\ handling' \in {FALSE, handling} /\ nestedLayout' = nestedLayout
      BY <1>3 DEF BeginFrame, SceneUpdated, HandlerReturns, EndFrame, Current
    <3>3. updating' \in Scenes \cup {None}
      BY <3>1, <3>2
    <3>4. next' \in Nat
      <4>1. next + 1 \in Nat
        BY <3>1
      <4> QED
        BY <3>1, <3>2, <4>1
    <3>5. handling' \in BOOLEAN
      BY <3>1, <3>2
    <3>6. nestedLayout' \in BOOLEAN
      BY <3>1, <3>2
    <3> QED
      BY <3>3, <3>4, <3>5, <3>6 DEF FrameTypes
  <2> QED
    BY <2>1, <2>2, <1>1, Types DEF button
<1>4. ASSUME Iterating, next <= Len(mChildren[updating])
      PROVE  mChildren[updating][next] \in Buttons
  <2>1. updating \in Scenes /\ next \in Nat /\ next > 0
    BY <1>4 DEF Iterating, IInv, TypeOK
  <2>2. mChildren[updating] \in Seq(Buttons)
    BY <2>1 DEF IInv, TypeOK
  <2>3. next \in 1 .. Len(mChildren[updating])
    BY <2>1, <2>2, <1>4
  <2> QED
    BY <2>2, <2>3
<1>5. CASE UpdateChild
  <2> DEFINE b == mChildren[updating][next]
  <2>1. b \in Buttons
    BY <1>4, <1>5 DEF UpdateChild
  <2>2. /\ UNCHANGED <<mPressedFingers, manager, mChildren, children, mFingersDown, mFingersInside,
                       mClickPending, updating, handling, cancelled, nestedLayout>>
        /\ next' = next + 1
        /\ \/ mPressedTime[b] > 0 /\ mPressedTime' = [mPressedTime EXCEPT ![b] = @ - 1]
           \/ mPressedTime' = mPressedTime
    BY <1>5 DEF UpdateChild, button
  <2> HIDE DEF b
  <2>3. mPressedTime' \in [Buttons -> 0 .. PressTicks]
    <3>1. mPressedTime[b] > 0 => mPressedTime[b] - 1 \in 0 .. PressTicks
      BY <2>1, Types, TouchAssumption
    <3> QED
      BY <3>1, <2>1, <2>2, Types
  <2>4. FrameTypes'
    BY <2>2, Types DEF FrameTypes
  <2> QED
    BY <2>2, <2>3, <2>4, <1>1, Types
<1>6. CASE Click
  <2> DEFINE b == mChildren[updating][next]
  <2>1. b \in Buttons
    BY <1>4, <1>6 DEF Click
  <2>2. /\ UNCHANGED <<mPressedFingers, manager, mChildren, children, mFingersDown, mFingersInside,
                       mPressedTime, updating, next, cancelled, nestedLayout>>
        /\ handling' = TRUE
        /\ mClickPending' = [mClickPending EXCEPT ![b] = FALSE]
    BY <1>6 DEF Click
  <2> HIDE DEF b
  <2>3. mClickPending' \in [Buttons -> BOOLEAN]
    BY <2>1, <2>2, Types
  <2>4. FrameTypes'
    BY <2>2, Types DEF FrameTypes
  <2> QED
    BY <2>2, <2>3, <2>4, <1>1, Types
<1> QED
  BY <1>2, <1>3, <1>5, <1>6 DEF FrameStep

LEMMA NextStep == IInv /\ [Next]_vars => IInv'
BY BeginStep, MoveStep, EndStep, CancelStep, ResetStep, FrameStepKeeps
   DEF Next, Input, UserCode

LEMMA Invariance == Spec => []IInv
BY InitInvariant, NextStep, PTL DEF Spec

\* A finger inside a button is routed to it, a routed one is active, an active
\* one is pressed, and only the current scene has any: for any number of fingers,
\* scenes and buttons, in any order of touches, frames, switches and changes.
THEOREM RecordsAgree == Spec => []TouchChain
<1>1. IInv => TouchChain
  BY DEF IInv, Routing, InsideRouted, TouchChain
<1> QED
  BY <1>1, Invariance, PTL

\* mTouchedChildIndex is the index of the touched child, although children are
\* inserted and removed and the scene is switched.
THEOREM InPlace == Spec => []TouchedChildInPlace
<1>1. IInv => TouchedChildInPlace
  BY DEF IInv
<1> QED
  BY <1>1, Invariance, PTL

\* mFingersDown is the number of fingers on the button and of all the touches of it
\* that were ever cancelled.
THEOREM Counted == Spec => []FingersCounted
<1>1. IInv => FingersCounted
  BY DEF IInv
<1> QED
  BY <1>1, Invariance, PTL

-----------------------------------------------------------------------------
(* Clicks *)

Tapped(b) ==
    ~mClickPending[b] /\ mClickPending'[b] =>
        /\ On(b) # {} /\ mFingersInside[b] = On(b) /\ On(b)' = {}
        /\ cancelled[b] = 0

\* Nothing but the end of a touch makes a click due.
LEMMA OnlyEndClicks ==
    ASSUME IInv, [Next]_vars, \A f \in Fingers : ~FingerEnd(f),
           NEW b \in Buttons, mClickPending'[b]
    PROVE  mClickPending[b]
<1>1. CASE mClickPending' = mClickPending
  BY <1>1
<1>2. UNCHANGED button => mClickPending' = mClickPending
  BY DEF button
<1>3. CASE FrameStep
  <2>1. CASE Click
    BY <2>1 DEF Click, IInv, TypeOK
  <2>2. CASE ~Click
    BY <2>2, <1>1, <1>2, <1>3
       DEF FrameStep, BeginFrame, SceneUpdated, UpdateChild, HandlerReturns, EndFrame
  <2> QED
    BY <2>1, <2>2
<1>4. ASSUME NEW f \in Fingers, FingerBegin(f)
      PROVE  mClickPending' = mClickPending
  <2>1. CASE mCurrentScene = None
    BY <1>2, <1>4, <2>1 DEF FingerBegin, Current
  <2>2. CASE mCurrentScene # None
    <3>1. PICK hit \in SUBSET Elements(mChildren[mCurrentScene]) : BeginTouch(f, hit)
      BY <1>4, <2>2 DEF FingerBegin, Current
    <3> QED
      BY <3>1, <1>2 DEF BeginTouch, ButtonBegins, Track
  <2> QED
    BY <2>1, <2>2
<1>5. ASSUME NEW f \in Fingers, FingerMove(f)
      PROVE  mClickPending[b]
  <2>1. CASE Track(Touched, f)
    BY <2>1, <1>1 DEF Track
  <2>2. CASE Untrack(Touched, f, FALSE)
    <3>1. Touched \in Buttons
      BY <1>5, RoutedIs DEF FingerMove
    <3>2. mClickPending' = [mClickPending EXCEPT ![Touched] = @]
      BY <2>2, <3>1 DEF Untrack, IInv, TypeOK
    <3> QED
      BY <3>1, <3>2 DEF IInv, TypeOK
  <2> QED
    BY <1>5, <2>1, <2>2 DEF FingerMove
<1>6. ASSUME NEW S, CancelTouches(S)
      PROVE  mClickPending' = mClickPending
  BY <1>6, <1>2 DEF CancelTouches
<1>7. ASSUME NEW f \in Fingers, FingerCancel(f)
      PROVE  mClickPending' = mClickPending
  BY <1>6, <1>7 DEF FingerCancel
<1>8. CASE UserCode
  <2>1. ResetAll
    BY <1>8 DEF UserCode, SwitchScene, HandlerSwitches, SetCurrentScene, Resize,
                RemoveChild, InsertChild
  <2> QED
    BY <2>1, <1>1, <1>6 DEF ResetAll
<1>9. CASE UNCHANGED vars
  BY <1>2, <1>9, <1>1 DEF vars
<1> QED
  BY <1>1, <1>3, <1>4, <1>5, <1>7, <1>8, <1>9 DEF Next, Input

LEMMA TapStep ==
    ASSUME IInv, NEW f \in Fingers, FingerEnd(f), NEW b \in Buttons
    PROVE  Tapped(b)
<1> SUFFICES ASSUME ~mClickPending[b], mClickPending'[b]
             PROVE  /\ On(b) # {} /\ mFingersInside[b] = On(b) /\ On(b)' = {}
                    /\ cancelled[b] = 0
  BY DEF Tapped
<1>1. Routed(f)
  BY DEF FingerEnd, button
<1>2. /\ Touched \in Buttons /\ f \in On(Touched)
      /\ Untrack(Touched, f, mFingersDown[Touched] = 1)
      /\ \A x \in Buttons : On(x)' = On(x) \ {f}
      /\ Cardinality(On(Touched)) = Cardinality(On(Touched) \ {f}) + 1
      /\ Cardinality(On(Touched) \ {f}) \in Nat
  BY <1>1, Lifted
<1>3. /\ mClickPending \in [Buttons -> BOOLEAN]
      /\ mClickPending' =
             [mClickPending EXCEPT ![Touched] =
                 @ \/ (mFingersDown[Touched] = 1 /\ mFingersInside[Touched] = {f})]
  BY <1>2 DEF Untrack, IInv, TypeOK
<1>4. b = Touched
  BY <1>2, <1>3
<1>5. mFingersDown[b] = 1 /\ mFingersInside[b] = {f}
  BY <1>2, <1>3, <1>4
<1>6. mFingersDown[b] = Cardinality(On(b)) + cancelled[b] /\ cancelled[b] \in Nat
  BY DEF IInv, FingersCounted, TypeOK
<1>7. Cardinality(On(b) \ {f}) = 0 /\ cancelled[b] = 0
  BY <1>2, <1>4, <1>5, <1>6
<1>8. On(b) \ {f} = {}
  <2>1. IsFiniteSet(On(b) \ {f})
    BY OnCurrent, FS_RemoveElement
  <2> QED
    BY <2>1, <1>7, FS_EmptySet
<1>9. On(b) = {f}
  BY <1>2, <1>4, <1>8
<1> QED
  BY <1>2, <1>5, <1>7, <1>8, <1>9

\* A click is due only when the last finger on a button lifts inside it, and never
\* again once a touch of the button has been cancelled.
THEOREM ClicksAreTaps == Spec => ClickIsTap
<1>1. IInv /\ [Next]_vars => \A b \in Buttons : Tapped(b)
  <2> SUFFICES ASSUME IInv, [Next]_vars, NEW b \in Buttons PROVE Tapped(b)
    OBVIOUS
  <2>1. CASE \E f \in Fingers : FingerEnd(f)
    BY <2>1, TapStep
  <2>2. CASE \A f \in Fingers : ~FingerEnd(f)
    BY <2>2, OnlyEndClicks DEF Tapped
  <2> QED
    BY <2>1, <2>2
<1>2. (\A b \in Buttons : Tapped(b)) =>
         \A b \in Buttons :
           ~mClickPending[b] /\ mClickPending'[b] =>
               /\ On(b) # {} /\ mFingersInside[b] = On(b) /\ On(b)' = {}
               /\ cancelled[b] = 0
  BY DEF Tapped
<1> QED
  BY <1>1, <1>2, Invariance, PTL DEF Spec, ClickIsTap
=============================================================================
