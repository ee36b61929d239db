-------------------------- MODULE MCEventDispatcher --------------------------
(***************************************************************************)
(* Two events, two handlers under two keys and a client; passes nested up  *)
(* to two deep over lists of up to three slots.                            *)
(***************************************************************************)
EXTENDS EventDispatcher

CONSTANTS clicked, resized, h1, h2, client, button, panel

MCEvents == {clicked, resized}
MCHandlers == {h1, h2}
MCClients == {client}
MCKeys == {button, panel}

=============================================================================
