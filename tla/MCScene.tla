------------------------------- MODULE MCScene -------------------------------
(***************************************************************************)
(* A camera with its cached matrices, or the scene around it: two buttons  *)
(* in a list, screens that are twice as high or wide as the virtual        *)
(* resolution, and a finger in the middle or in a corner of the screen.    *)
(***************************************************************************)
EXTENDS Camera, SceneTree

VARIABLE part

MCScreens == {<<8, 16>>, <<16, 8>>}
MCVirtual == <<8, 8>>
MCPositions == {<<1, 1>>}
MCFingers == {<<0, 0>>, <<-1, 1>>}
MCTransforms == {SetTranslationRotationScale(<<4, 4>>, 1, <<-1, 1>>)}
MCOwnSizes == {<<2, 2>>}

\* The two buttons are alike: nothing chooses between them.
ButtonsAlike == Permutations(Elements)

\* The other part stays as it is.
NoTree == TreeInit /\ mScreenSize = <<8, 16>> /\ mAspectRatio = "Fit"
NoCamera ==
    /\ CameraInit
    /\ orthogonal
    /\ screen = CHOOSE s \in Sizes : TRUE
    /\ lens = CHOOSE l \in Lenses : TRUE
    /\ pose = CHOOSE p \in Poses : TRUE

SceneInit ==
    \/ part = "camera" /\ CameraInit /\ NoTree
    \/ part = "tree" /\ TreeInit /\ NoCamera

SceneNext ==
    /\ \/ part = "camera" /\ CameraNext /\ UNCHANGED treeVars
       \/ part = "tree" /\ TreeNext /\ UNCHANGED cameraVars
    /\ UNCHANGED part

SceneSpec == SceneInit /\ [][SceneNext]_<<part, cameraVars, treeVars>>
=============================================================================
