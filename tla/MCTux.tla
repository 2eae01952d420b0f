------------------------------- MODULE MCTux -------------------------------
(***************************************************************************)
(* Tux with a keyboard of one key.                                         *)
(***************************************************************************)
EXTENDS Tux

MCPhysical == {[code |-> 30, e0 |-> FALSE]}
MCJunk == {R(0, {})}
=============================================================================
