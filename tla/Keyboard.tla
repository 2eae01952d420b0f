------------------------------ MODULE Keyboard ------------------------------
(***************************************************************************)
(* The keyboard handler (kb.c): scan codes to keys.  kb is a record of the *)
(* static variables shift, ctrl, alt, caps (all BOOLEAN) and scan_state    *)
(* (whether the byte before was 0xE0).  A key is a record like key_t; the  *)
(* character is the code of the key and whether it is the shifted one.     *)
(***************************************************************************)
EXTENDS Integers, Sequences

PRINT_KEY_NUM == 58
Printing == (2 .. 13) \cup (16 .. 27) \cup (30 .. 41) \cup (43 .. 53) \cup {55, 57}
Letters == (16 .. 25) \cup (30 .. 38) \cup (44 .. 50)
Named == {1, 14, 15, 28}    \* KEY_ESC, KEY_BACK, KEY_TAB, KEY_ENTER

P(code, up) == [type |-> "print", mods |-> {}, key |-> code, up |-> up]
R(code, mods) == [type |-> "raw", mods |-> mods, key |-> code, up |-> FALSE]

\* The entry of a code in a map: print for a printing key, raw for a named
\* one; other codes are R(0).
Entry(code, print, raw) ==
    CASE code \in Printing -> print
      [] code \in Named -> raw
      [] OTHER -> R(0, {})

keyboard_map(code) == Entry(code, P(code, FALSE), R(code, {}))
shift_map(code) == Entry(code, P(code, TRUE), R(code, {}))
ctrl_map(code) == Entry(code, R(code, {"ctrl"}), R(code, {"ctrl"}))
alt_map(code) == Entry(code, R(code, {"alt"}), R(code, {"alt"}))

Held(kb) ==
    {m \in {"ctrl", "shift", "alt"} :
       (m = "ctrl" /\ kb.ctrl) \/ (m = "shift" /\ kb.shift) \/ (m = "alt" /\ kb.alt)}

\* Faulty variant: Caps Lock comes first here too.
Modifiers_caps(kb) == IF kb.caps THEN {} ELSE Held(kb)

\* What a function key is given.
Modifiers(kb) == Held(kb)

\* A key of the maps: caps first, then shift, ctrl, alt.
MapKey(kb, code) ==
    CASE kb.caps -> IF ~kb.shift /\ code \in Letters THEN shift_map(code) ELSE keyboard_map(code)
      [] ~kb.caps /\ kb.shift -> shift_map(code)
      [] ~kb.caps /\ ~kb.shift /\ kb.ctrl -> ctrl_map(code)
      [] ~kb.caps /\ ~kb.shift /\ ~kb.ctrl /\ kb.alt -> alt_map(code)
      [] OTHER -> keyboard_map(code)

\* The keys term_key_handler is called with for a code without prefix.  For
\* F11 and F12 it is called again, with a key that was never assigned.
Keys(kb, code, junk) ==
    CASE code \in {87, 88} -> <<R(code, {}), [junk EXCEPT !.mods = @ \cup Modifiers(kb)]>>
      [] code \in 59 .. 68 -> <<R(code, Modifiers(kb))>>
      [] code \in 0 .. PRINT_KEY_NUM - 1 -> <<MapKey(kb, code)>>
      [] OTHER -> <<>>

Plain(kb, code, pressed, junk) ==
    CASE code \in {42, 54} -> [kb |-> [kb EXCEPT !.shift = pressed], keys |-> <<>>]
      [] code = 29 -> [kb |-> [kb EXCEPT !.ctrl = pressed], keys |-> <<>>]
      [] code = 56 -> [kb |-> [kb EXCEPT !.alt = pressed], keys |-> <<>>]
      [] code = 58 -> [kb |-> [kb EXCEPT !.caps = (@ # pressed)], keys |-> <<>>]
      [] OTHER -> [kb |-> kb, keys |-> IF pressed THEN Keys(kb, code, junk) ELSE <<>>]

\* After 0xE0: right control, right alt, the arrows.
Prefixed(kb, code, pressed) ==
    CASE code = 29 -> [kb |-> [kb EXCEPT !.ctrl = pressed], keys |-> <<>>]
      [] code = 56 -> [kb |-> [kb EXCEPT !.alt = pressed], keys |-> <<>>]
      [] code \in {75, 77} /\ pressed -> [kb |-> kb, keys |-> <<R(code, {})>>]
      [] OTHER -> [kb |-> kb, keys |-> <<>>]

AfterPrefix(kb, code, pressed, state) ==
    LET r == Prefixed(kb, code, pressed) IN [r EXCEPT !.kb.scan_state = state]

Scan(kb, byte, junk, state) ==
    LET pressed == byte < 128
        code == byte % 128
    IN  IF byte = 224 THEN [kb |-> [kb EXCEPT !.scan_state = TRUE], keys |-> <<>>]
        ELSE IF kb.scan_state THEN AfterPrefix(kb, code, pressed, state)
        ELSE Plain(kb, code, pressed, junk)

\* Faulty variant: the state is not reset after a prefixed key is released.
kb_isr_late(kb, byte, junk) == Scan(kb, byte, junk, byte >= 128)

kb_isr(kb, byte, junk) == Scan(kb, byte, junk, FALSE)

=============================================================================
