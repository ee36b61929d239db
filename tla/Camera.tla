------------------------------- MODULE Camera -------------------------------
(***************************************************************************)
(* A camera, component of the scene it shows. Its matrices are calculated  *)
(* when they are asked for, and remembered until something they depend on  *)
(* changes. The size of the screen reaches it through the scene, on which  *)
(* an orthogonal camera imposes its virtual resolution in turn. Matrices   *)
(* are symbolic: a matrix is what it was calculated from.                  *)
(***************************************************************************)
EXTENDS Integers

CONSTANTS
    Sizes,      \* of the screen
    NoSize,     \* the size of a scene at first
    Lenses,     \* what the projection depends on besides the resolution: the
                \* virtual resolution and its AspectRatio, or angle and depth
    Poses       \* what the view depends on: position, or angles and target

ASSUME CameraAssumption == Lenses # {} /\ Poses # {} /\ NoSize \notin Lenses

VARIABLES
    orthogonal,         \* an OrthogonalCamera or an OrbitCamera
    screen, shown,      \* SceneManager::mScreenSize; the scene is the current one
    mSize,              \* of the scene
    added,              \* history: a component was added since the scene was
                        \* told the size of the screen
    resolution,         \* mPhysicalResolution, or the size mAspect is from
    lens, pose,
    mFlags,
    matrix,             \* mProjectionMatrix, mInverseProjectionMatrix ...
    mVisibleArea,
    handed              \* history: what was given out last, and from what the
                        \* camera should have calculated it

size == <<screen, shown, mSize, added>>
state == <<resolution, lens, pose>>
cache == <<mFlags, matrix, mVisibleArea>>
cameraVars == <<orthogonal, size, state, cache, handed>>

Matrices == {"projection", "inverseProjection", "view", "inverseView"}
Unknown == [of |-> "nothing"]

Projection(r, l) == [of |-> "projection", resolution |-> r, lens |-> l]
View(p) == [of |-> "view", pose |-> p]
InverseOf(m) == [of |-> "inverse", matrix |-> m]
Area(r, l) == [of |-> "area", resolution |-> r, lens |-> l]

\* What a matrix ought to be.
Exact(m) ==
    CASE m = "projection" -> Projection(resolution, lens)
      [] m = "inverseProjection" -> InverseOf(Projection(resolution, lens))
      [] m = "view" -> View(pose)
      [] m = "inverseView" -> InverseOf(View(pose))

Nothing == [m \in {} |-> Unknown]

CameraInit ==
    /\ orthogonal \in BOOLEAN
    /\ screen \in Sizes
    /\ shown = FALSE
    /\ mSize = NoSize
    /\ added = FALSE
    /\ lens \in Lenses
    /\ resolution = IF orthogonal THEN lens ELSE NoSize
    /\ pose \in Poses
    /\ mFlags = Matrices
    /\ matrix = [m \in Matrices |-> Unknown]
    /\ mVisibleArea = Unknown
    /\ handed = [given |-> Nothing, exact |-> Nothing]

-----------------------------------------------------------------------------
(* What the camera depends on *)

ProjectionDirty == mFlags' = mFlags \cup {"projection", "inverseProjection"}
ViewDirty == mFlags' = mFlags \cup {"view", "inverseView"}

\* Mutant: the inverse is forgotten.
SetLensForward(l) ==
    /\ lens' = l
    /\ mFlags' = mFlags \cup {"projection"}
    /\ UNCHANGED <<orthogonal, size, resolution, pose, matrix, mVisibleArea, handed>>

\* setVirtualResolution, setFovY, setNearZ, setDepthRange, and setAspectRatio of
\* an orthogonal camera; not the setters that overrule the size of the scene.
SetLens(l) ==
    /\ lens' = l
    /\ ProjectionDirty
    /\ UNCHANGED <<orthogonal, size, resolution, pose, matrix, mVisibleArea, handed>>

\* setPosition, setDistance, setHorizontalAngle, setVerticalAngle, setTarget
SetPose(p) ==
    /\ pose' = p
    /\ ViewDirty
    /\ UNCHANGED <<orthogonal, size, resolution, lens, matrix, mVisibleArea, handed>>

\* AbstractScene::setSize with the hooks of the camera. What the scene is told
\* to be and what it is then differ for an orthogonal camera.
SetSize(s) ==
    /\ resolution' = s
    /\ mSize' = IF orthogonal THEN lens ELSE s
    /\ ProjectionDirty
    /\ UNCHANGED <<lens, pose, matrix, mVisibleArea>>

\* A component is added or removed; addComponent() and removeComponent() repeat the
\* size the scene has, which need not be the size it was told.
AddComponent ==
    /\ SetSize(mSize)
    /\ added' = TRUE
    /\ UNCHANGED <<orthogonal, screen, shown, handed>>

\* Mutant: only a scene that has no size yet is told that of the screen.
ShowNew ==
    /\ ~shown
    /\ shown' = TRUE
    /\ added' = FALSE
    /\ IF mSize = NoSize THEN SetSize(screen) ELSE UNCHANGED <<mSize, state, cache>>
    /\ UNCHANGED <<orthogonal, screen, handed>>

\* setCurrentScene() with this scene, and with another one
Show ==
    /\ ~shown
    /\ shown' = TRUE
    /\ added' = FALSE
    /\ SetSize(screen)
    /\ UNCHANGED <<orthogonal, screen, handed>>

Hide ==
    /\ shown
    /\ shown' = FALSE
    /\ UNCHANGED <<orthogonal, screen, mSize, added, state, cache, handed>>

Resize(s) ==
    /\ screen' = s
    /\ IF shown THEN SetSize(s) /\ added' = FALSE ELSE UNCHANGED <<mSize, added, state, cache>>
    /\ UNCHANGED <<orthogonal, shown, handed>>

-----------------------------------------------------------------------------
(* What depends on the camera *)

\* projectionMatrix() and the others, m being those that are asked for: an
\* inverse is calculated from the matrix itself, which may have to be
\* calculated first.
Needed(asked) ==
    LET dirty == asked \cap mFlags IN
    dirty \cup (mFlags \cap
        ((IF "inverseProjection" \in dirty THEN {"projection"} ELSE {})
            \cup (IF "inverseView" \in dirty THEN {"view"} ELSE {})))

Clean(needed) == mFlags' = mFlags \ needed

Refresh(asked) ==
    LET needed == Needed(asked)
        projection == IF "projection" \in needed THEN Projection(resolution, lens)
                      ELSE matrix["projection"]
        view == IF "view" \in needed THEN View(pose) ELSE matrix["view"]
        fresh == [projection |-> projection, inverseProjection |-> InverseOf(projection),
                  view |-> view, inverseView |-> InverseOf(view)]
    IN /\ matrix' = [m \in Matrices |-> IF m \in needed THEN fresh[m] ELSE matrix[m]]
       /\ mVisibleArea' = IF "projection" \in needed /\ orthogonal
                          THEN Area(resolution, lens) ELSE mVisibleArea
       /\ Clean(needed)

Hand(asked) ==
    /\ Refresh(asked)
    /\ handed' = [given |-> [m \in asked |-> matrix'[m]],
                  exact |-> [m \in asked |-> Exact(m)]]
    /\ UNCHANGED <<orthogonal, size, state>>

\* onBeforeDrawScene sets both matrices; onBeforeTouchEvent inverts them; an
\* application may ask for any.
Draw == shown /\ Hand({"projection", "view"})
Touch == shown /\ Hand({"inverseProjection", "inverseView"})
Ask(m) == Hand({m})

\* visibleArea() calculates the projection matrix for its side effect.
VisibleArea ==
    /\ orthogonal
    /\ Refresh({"projection"})
    /\ handed' = [given |-> [m \in {"area"} |-> mVisibleArea'],
                  exact |-> [m \in {"area"} |-> Area(resolution, lens)]]
    /\ UNCHANGED <<orthogonal, size, state>>

CameraNext ==
    \/ \E l \in Lenses : SetLens(l)
    \/ \E p \in Poses : SetPose(p)
    \/ AddComponent \/ Show \/ Hide
    \/ \E s \in Sizes : Resize(s)
    \/ Draw \/ Touch \/ VisibleArea
    \/ \E m \in Matrices : Ask(m)

CameraSpec == CameraInit /\ [][CameraNext]_cameraVars

-----------------------------------------------------------------------------
(* Properties *)

\* The flags name matrices, among them all that were never calculated; sizes
\* and parameters are what they can be.
CameraTypeOK ==
    /\ orthogonal \in BOOLEAN /\ shown \in BOOLEAN /\ added \in BOOLEAN
    /\ screen \in Sizes
    /\ mSize \in Sizes \cup Lenses \cup {NoSize}
    /\ resolution \in Sizes \cup Lenses \cup {NoSize}
    /\ lens \in Lenses /\ pose \in Poses
    /\ mFlags \subseteq Matrices
    /\ DOMAIN matrix = Matrices
    /\ \A m \in Matrices \ mFlags : matrix[m] # Unknown

\* Whatever a draw, a touch or the application is given is calculated from the
\* camera as it is at that moment: no setter, and no way for the size of the
\* screen to reach the camera, leaves one of the five cached values behind.
NeverStale == handed.given = handed.exact

\* The scene that is shown is projected for the screen it is shown on, however
\* it was put together before, and whatever sizes it had while it was hidden. The
\* exception is an orthogonal camera whose scene got another component while it was
\* shown: it takes the size it imposed on the scene for that of the screen.
FitsScreen == shown => resolution = screen \/ (orthogonal /\ added)
=============================================================================
