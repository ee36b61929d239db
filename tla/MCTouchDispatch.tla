--------------------------- MODULE MCTouchDispatch ---------------------------
(***************************************************************************)
(* A menu with two buttons, and a game scene that takes the touches of its *)
(* background itself; two fingers.                                         *)
(***************************************************************************)
EXTENDS TouchDispatch, TLC

CONSTANTS f1, f2, menu, game, play, quit

MCFingers == {f1, f2}
MCScenes == {menu, game}
MCButtons == {play, quit}
MCInitial == (menu :> <<play, quit>>) @@ (game :> <<>>)
MCBackground == {game}

=============================================================================
