---------------------------- MODULE DirectDrawing ----------------------------
(***************************************************************************)
(* What a canvas promises: every vertex is drawn at once, in the order in  *)
(* which it was emitted, with the settings and the kind of primitive it    *)
(* was emitted under.                                                      *)
(***************************************************************************)
EXTENDS Sequences

CONSTANTS
    Vertices, Meshes, Types,
    Settings        \* the values of all settings of the canvas together

VARIABLES
    settings,       \* the settings in force
    screen          \* what was drawn since the screen was cleared

vars == <<settings, screen>>

Init ==
    /\ settings \in Settings
    /\ screen = <<>>

Change(s) ==
    /\ settings' = s
    /\ UNCHANGED screen

Emit(v, type) ==
    /\ screen' = Append(screen, [what |-> v, type |-> type, with |-> settings])
    /\ UNCHANGED settings

DrawMesh(m) ==
    /\ screen' = Append(screen, [what |-> m, type |-> "mesh", with |-> settings])
    /\ UNCHANGED settings

Clear ==
    /\ screen' = <<>>
    /\ UNCHANGED settings

\* A frame starts on a clear screen, with new matrices.
BeginFrame(s) ==
    /\ screen' = <<>>
    /\ settings' = s

Next ==
    \/ \E s \in Settings : Change(s) \/ BeginFrame(s)
    \/ \E v \in Vertices, t \in Types : Emit(v, t)
    \/ \E m \in Meshes : DrawMesh(m)
    \/ Clear

Spec == Init /\ [][Next]_vars

=============================================================================
