------------------------------- MODULE MCBoot -------------------------------
(***************************************************************************)
(* Boot with a small keyboard: both shift keys, the control key, right     *)
(* alt, Caps Lock, the keys F1 and F11 and the left arrow.                 *)
(***************************************************************************)
EXTENDS Boot

MCPhysical ==
    {[code |-> code, e0 |-> FALSE] : code \in {42, 54, 29, 58, 59, 87}}
      \cup {[code |-> code, e0 |-> TRUE] : code \in {56, 75}}

MCJunk == {R(0, {}), P(30, FALSE)}
=============================================================================
