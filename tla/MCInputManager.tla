--------------------------- MODULE MCInputManager ---------------------------
(***************************************************************************)
(* Two buttons, two fingers and a key; an observer that only listens and   *)
(* the scene manager behind it, whose scenes may reset everything from     *)
(* any callback.                                                           *)
(***************************************************************************)
EXTENDS InputManager

CONSTANTS right, key, listener, sceneManager

MCButtons == {Left, right}
MCFingers == {0, 1}
MCKeys == {key}
MCObservers == <<listener, sceneManager>>
MCReactive == {sceneManager}
MCReactions == {"resetAll", "touchesOn", "touchesOff", "mouseOn"}

=============================================================================
