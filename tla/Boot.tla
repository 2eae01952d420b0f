-------------------------------- MODULE Boot --------------------------------
(***************************************************************************)
(* The boot of the kernel (kernel.c) with the interrupt controller         *)
(* (i8259.c), the keyboard and the Tux controller (tuxctl.c, serial.c):    *)
(* the devices are set up one after the other with interrupts enabled in   *)
(* between, while keys are pressed and the clock ticks.  The keyboard, the *)
(* clock and the registers of the controllers are hardware.                *)
(***************************************************************************)
EXTENDS Keyboard, FiniteSets

CONSTANTS
    Physical,       \* keys of the keyboard: [code, e0]
    MaxHeld,        \* bound: keys held at a time
    MaxBytes,       \* bound: bytes in the keyboard
    Junk            \* keys an uninitialized key_t may be

\* Scan code set 1: 7-bit codes, released with bit 7 set; 0xE0 is the prefix,
\* so no key has the code 0x60.
ASSUME BootAssumption ==
    /\ Physical \subseteq [code : (1 .. 127) \ {96}, e0 : BOOLEAN]
    /\ MaxHeld \in Nat /\ MaxBytes \in Nat

VARIABLES
    pc,             \* the next step of entry()
    sti,            \* the interrupt flag
    masked,         \* lines masked at the controllers: 0 .. 7 master, 8 .. 15 slave
    service,        \* lines in service
    gates,          \* lines with a present gate in the IDT
    cpu,            \* the line whose handler runs, or NoLine in entry()
    kb,             \* the variables of kb.c
    held, bytes,    \* the keyboard: keys held; bytes not read, with the keys held then
    rtc,            \* the RTC raises its line
    busy,           \* tuxctl.c: a packet is not acknowledged yet
    handled,        \* history: the last byte, and what term_key_handler was called with
    crash           \* the line whose interrupt had no handler or no terminal

boot == <<pc, masked, gates, busy>>
keyboard == <<kb, held, bytes, handled>>
vars == <<boot, sti, service, cpu, keyboard, rtc, crash>>

KB_IRQ == 1
SLAVE_PIC_IRQ == 2
RTC_IRQ == 8
NoLine == -1
Lines == 0 .. 15

Init ==
    /\ pc = "pic" /\ sti = FALSE /\ masked = {} /\ service = {} /\ gates = {} /\ cpu = NoLine
    /\ kb = [shift |-> FALSE, ctrl |-> FALSE, alt |-> FALSE, caps |-> FALSE, scan_state |-> FALSE]
    /\ held = {} /\ bytes = <<>> /\ rtc = FALSE /\ busy = FALSE /\ crash = NoLine
    /\ handled = [byte |-> 0, held |-> {}, keys |-> <<>>]

(***************************************************************************)
(* The interrupt controllers.                                              *)
(***************************************************************************)
\* Unmask a line.  For a line of the slave the master's mask is combined with
\* ~ICW3_SLAVE, which is 2: bit 1, the keyboard's, and not the slave's bit 2.
enable_irq(mask, line) == IF line < 8 THEN mask \ {line} ELSE mask \ {line, KB_IRQ}

\* What an end of interrupt without a line clears: the first of a controller.
First(lines) == {line \in lines : \A other \in lines : line <= other}

\* Faulty variant: an interrupt of the slave is not ended at the master.
EndOfInterrupt_slave(line) ==
    First(service \cap (IF line < 8 THEN 0 .. 7 ELSE 8 .. 15))

\* common_isr__handle_pic, after the handler.
EndOfInterrupt(line) ==
    First(service \cap (0 .. 7)) \cup IF line < 8 THEN {} ELSE First(service \cap (8 .. 15))

Raised(line) == (line = KB_IRQ /\ bytes # <<>>) \/ (line = RTC_IRQ /\ rtc)

\* The line reaches the processor: not masked on its way, and nothing of the
\* same or a higher priority is in service or raised.
Reaches(line) ==
    /\ Raised(line) /\ line \notin masked
    /\ line >= 8 => SLAVE_PIC_IRQ \notin masked
    /\ ~\E other \in Lines : other \in service /\ (other <= line \/ line >= 8)
    /\ line >= 8 => ~(Raised(KB_IRQ) /\ KB_IRQ \notin masked)

\* An interrupt gate clears the interrupt flag.
Enter(line) ==
    /\ crash = NoLine /\ sti /\ cpu = NoLine /\ Reaches(line)
    /\ IF line \in gates
       THEN /\ cpu' = line /\ sti' = FALSE /\ UNCHANGED crash
            /\ service' = service \cup {line} \cup IF line >= 8 THEN {SLAVE_PIC_IRQ} ELSE {}
       ELSE crash' = line /\ UNCHANGED <<cpu, sti, service>>
    /\ UNCHANGED <<boot, keyboard, rtc>>

ReturnWith(line, flag) ==
    /\ cpu' = NoLine /\ sti' = flag
    /\ service' = service \ EndOfInterrupt(line)
    /\ UNCHANGED boot

\* Faulty variant: the flags are not restored.
Return_cli(line) == ReturnWith(line, FALSE)

\* The end of common_isr: iret restores the interrupt flag.
Return(line) == ReturnWith(line, TRUE)

RtcHandler ==
    /\ crash = NoLine /\ cpu = RTC_IRQ
    /\ rtc' = FALSE
    /\ Return(RTC_IRQ) /\ UNCHANGED <<keyboard, crash>>

\* kb_isr reads one byte.  A key handled before init_term may store through
\* the screen pointer that is not set yet.
KbHandler ==
    /\ crash = NoLine /\ cpu = KB_IRQ
    /\ \E junk \in Junk :
          LET r == kb_isr(kb, Head(bytes).byte, junk)
          IN  /\ kb' = r.kb
              /\ handled' = [byte |-> Head(bytes).byte, held |-> Head(bytes).held, keys |-> r.keys]
              /\ crash' \in IF r.keys # <<>> /\ pc = "term" THEN {NoLine, KB_IRQ} ELSE {NoLine}
    /\ bytes' = Tail(bytes)
    /\ Return(KB_IRQ) /\ UNCHANGED <<held, rtc>>

(***************************************************************************)
(* The steps of entry().  Each init function runs with interrupts disabled *)
(* and enables them at its end.                                            *)
(***************************************************************************)
Step(from, to) == crash = NoLine /\ cpu = NoLine /\ pc = from /\ pc' = to

SetUp(line, lines) ==
    /\ gates' = gates \cup {line}
    /\ masked' = lines
    /\ sti' = TRUE
    /\ UNCHANGED <<service, cpu, keyboard, rtc, crash, busy>>

i8259_init ==
    /\ Step("pic", "rtc")
    /\ masked' = Lines
    /\ UNCHANGED <<sti, service, gates, cpu, keyboard, rtc, busy, crash>>

\* Faulty variant: the gate is left for later.
init_rtc_late ==
    /\ Step("rtc", "kb")
    /\ masked' = enable_irq(enable_irq(masked, RTC_IRQ), SLAVE_PIC_IRQ) /\ sti' = TRUE
    /\ UNCHANGED <<gates, service, cpu, keyboard, rtc, crash, busy>>

init_rtc ==
    /\ Step("rtc", "kb")
    /\ SetUp(RTC_IRQ, enable_irq(enable_irq(masked, RTC_IRQ), SLAVE_PIC_IRQ))

init_kb == Step("kb", "term") /\ SetUp(KB_IRQ, enable_irq(masked, KB_IRQ))

\* fs_init and init_term.
init_term ==
    /\ Step("term", "tux")
    /\ sti' = TRUE
    /\ UNCHANGED <<masked, service, gates, cpu, keyboard, rtc, busy, crash>>

\* init_tuxctl: init_serial turns the interrupts of the serial port off, and
\* TUX_INIT sends the first packet.  (busy is not set before.)
init_tuxctl ==
    /\ Step("tux", "score")
    /\ busy' = TRUE
    /\ UNCHANGED <<sti, masked, service, gates, cpu, keyboard, rtc, crash>>

\* TUX_SET_SCORE: one round of the wait until the packet before is acknowledged
\* (which clears busy: module Tux), then the packet is sent.
show_score ==
    /\ crash = NoLine /\ cpu = NoLine /\ pc = "score"
    /\ pc' = IF busy THEN "score" ELSE "pit"
    /\ busy' = TRUE
    /\ UNCHANGED <<sti, masked, service, gates, cpu, keyboard, rtc, crash>>

(***************************************************************************)
(* The devices.                                                            *)
(***************************************************************************)
Scancode(key, release) ==
    LET code == [byte |-> key.code + IF release THEN 128 ELSE 0, held |-> held]
    IN  IF key.e0 THEN <<[code EXCEPT !.byte = 224], code>> ELSE <<code>>

KeyMoves(key) ==
    /\ crash = NoLine /\ pc # "pic"
    /\ \/ key \notin held /\ Cardinality(held) < MaxHeld /\ held' = held \cup {key}
       \/ key \in held /\ held' = held \ {key}
    /\ bytes' = bytes \o Scancode(key, key \in held)
    /\ Len(bytes') <= MaxBytes
    /\ UNCHANGED <<boot, sti, service, cpu, kb, handled, rtc, crash>>

Tick ==
    /\ crash = NoLine /\ pc \notin {"pic", "rtc"} /\ ~rtc
    /\ rtc' = TRUE
    /\ UNCHANGED <<boot, sti, service, cpu, keyboard, crash>>

Handlers == RtcHandler \/ KbHandler \/ \E line \in {KB_IRQ, RTC_IRQ} : Enter(line)

Boots == i8259_init \/ init_rtc \/ init_kb \/ init_term \/ init_tuxctl \/ show_score

Next == Handlers \/ Boots \/ Tick \/ \E key \in Physical : KeyMoves(key)

\* The processor takes an interrupt that reaches it and ends its handler, and
\* entry() goes on between interrupts however many come.
Spec == Init /\ [][Next]_vars /\ WF_vars(Handlers) /\ SF_vars(Boots)

----------------------------------------------------------------------------
\* An interrupt that has no gate or no terminal is the keyboard's, because a
\* key was pressed before init_kb and init_term: enable_irq for the clock
\* unmasks the keyboard too.  Once they have run no interrupt goes wrong.
EarlyKeysOnly == (crash # NoLine) => crash = KB_IRQ /\ pc \in {"kb", "term"}

\* Every interrupt is ended, at both controllers if it came through the slave:
\* outside of a handler nothing is in service that would block later ones.
ServiceEnds == cpu = NoLine => service = {}

\* A full keyboard is read again (its line is unmasked, its gate present, and
\* no handler leaves it blocked), unless an early key has stopped the kernel.
KeysAreRead == Len(bytes) = MaxBytes ~> Len(bytes) < MaxBytes \/ crash # NoLine

Down(code) == \E key \in held : key.code = code

\* No modifier sticks: when all bytes are read and a modifier is set, one of
\* its keys is held.  (The converse does not hold: releasing one of two held
\* shift keys clears shift.)
NoStuckModifier ==
    bytes = <<>> =>
        /\ ~kb.scan_state
        /\ kb.shift => Down(42) \/ Down(54)
        /\ kb.ctrl => Down(29)
        /\ kb.alt => Down(56)

\* The modifiers of a key_t whose keys are among keys, and whether the keyboard
\* has only one key for one.
IsModifier(key, mod) ==
    \/ mod = "shift" /\ key.code \in {42, 54} /\ ~key.e0
    \/ mod = "ctrl" /\ key.code = 29
    \/ mod = "alt" /\ key.code = 56
Mods == {"ctrl", "shift", "alt"}
Pressed(keys) == {mod \in Mods : \E key \in keys : IsModifier(key, mod)}
Single(mod) ==
    \A key, other \in Physical : IsModifier(key, mod) /\ IsModifier(other, mod) => key = other

\* term_key_handler switches terminals for this key: the modifiers of the
\* function key are Alt and nothing else (term.c:243, 331).
Switches(key) == key.type = "raw" /\ key.key \in 59 .. 61 /\ key.mods = {"alt"}

\* F1 to F3 switch terminals if Alt, and no other modifier key, was down when
\* they were pressed, and only then, however late the byte is read, in whatever
\* order keys were pressed and released and whether Caps Lock is on.  (Two keys
\* for one modifier share its flag, and releasing one clears it while the other
\* is held: what is said of the keys that are down is for modifiers with one.)
AltSwitches ==
    handled.byte \in 59 .. 61 /\ handled.keys # <<>> =>
        LET down == Pressed(handled.held)
            switches == Len(handled.keys) = 1 /\ Switches(handled.keys[1])
        IN  /\ Single("alt") /\ down = {"alt"} => switches
            /\ switches => "alt" \in down /\ \A mod \in down \ {"alt"} : ~Single(mod)

(***************************************************************************)
(* The inductive invariant: the processor and the controllers.             *)
(***************************************************************************)
ControlInv ==
    /\ pc \in {"pic", "rtc"} => ~sti /\ cpu = NoLine
    /\ RTC_IRQ \in gates \/ pc \in {"pic", "rtc"}
    /\ KB_IRQ \in gates \/ pc \in {"pic", "rtc", "kb"}
    /\ cpu \in {NoLine, KB_IRQ, RTC_IRQ}
    /\ cpu = KB_IRQ => bytes # <<>> /\ KB_IRQ \in gates
    /\ service = CASE cpu = NoLine -> {}
                   [] cpu = KB_IRQ -> {KB_IRQ}
                   [] cpu = RTC_IRQ -> {SLAVE_PIC_IRQ, RTC_IRQ}
    /\ EarlyKeysOnly

(***************************************************************************)
(* The inductive invariant: the bytes in the keyboard.  HeldAt(i) are the  *)
(* keys held when byte i was sent, PrefixAt(i) is whether 0xE0 came before *)
(* it; behind the last byte they are the present keys and no prefix.       *)
(***************************************************************************)
HeldAt(i) == IF i <= Len(bytes) THEN bytes[i].held ELSE held
PrefixAt(i) == IF i = 1 THEN kb.scan_state ELSE bytes[i - 1].byte = 224

\* Byte i is a prefix that another byte follows, or tells of the key that was
\* pressed or released at that time.
Sent(i) ==
    \/ /\ bytes[i].byte = 224 /\ ~PrefixAt(i)
       /\ i < Len(bytes) /\ HeldAt(i + 1) = HeldAt(i)
    \/ \E key \in Physical :
          /\ key.e0 = PrefixAt(i)
          /\ \/ bytes[i].byte = key.code /\ HeldAt(i + 1) = HeldAt(i) \cup {key}
             \/ bytes[i].byte = key.code + 128 /\ HeldAt(i + 1) = HeldAt(i) \ {key}

KbType ==
    /\ kb \in [shift : BOOLEAN, ctrl : BOOLEAN, alt : BOOLEAN, caps : BOOLEAN,
               scan_state : BOOLEAN]
    /\ held \subseteq Physical
    /\ bytes \in Seq([byte : 1 .. 255, held : SUBSET Physical])

\* What the handler has read agrees with the keys held when the next byte was
\* sent.
KeysInv ==
    /\ \A i \in 1 .. Len(bytes) : Sent(i)
    /\ ~PrefixAt(Len(bytes) + 1)
    /\ kb.shift => \E key \in HeldAt(1) : key.code \in {42, 54} /\ ~key.e0
    /\ kb.ctrl => \E key \in HeldAt(1) : key.code = 29
    /\ kb.alt => \E key \in HeldAt(1) : key.code = 56

\* The flag of a modifier with one key is exact.
ModInv == \A mod \in Mods : Single(mod) /\ mod \in Pressed(HeldAt(1)) => mod \in Held(kb)
=============================================================================
