----------------------------- MODULE BootProofs -----------------------------
(***************************************************************************)
(* Proofs about Boot, for every keyboard of scan code set 1 and every      *)
(* number of keys held and bytes waiting.                                  *)
(***************************************************************************)
EXTENDS Boot, SequenceTheorems, TLAPS

----------------------------------------------------------------------------
(***************************************************************************)
(* The keyboard.                                                           *)
(***************************************************************************)
Flags == [shift : BOOLEAN, ctrl : BOOLEAN, alt : BOOLEAN, caps : BOOLEAN, scan_state : BOOLEAN]
Byte == [byte : 1 .. 255, held : SUBSET Physical]

\* The bytes of a key.
LEMMA ScancodeFacts ==
    ASSUME KbType, NEW key \in Physical, NEW release \in BOOLEAN
    PROVE  \E b \in 1 .. 255 :
             /\ b # 224 /\ b = key.code + (IF release THEN 128 ELSE 0)
             /\ Scancode(key, release) \in Seq(Byte)
             /\ key.e0 => /\ Len(Scancode(key, release)) = 2
                          /\ Scancode(key, release)[1] = [byte |-> 224, held |-> held]
                          /\ Scancode(key, release)[2] = [byte |-> b, held |-> held]
             /\ ~key.e0 => /\ Len(Scancode(key, release)) = 1
                           /\ Scancode(key, release)[1] = [byte |-> b, held |-> held]
  <1> DEFINE b == key.code + (IF release THEN 128 ELSE 0)
             c == [byte |-> b, held |-> held]
             p == [byte |-> 224, held |-> held]
  <1>1. key.code \in 1 .. 127 /\ key.code # 96 /\ key.e0 \in BOOLEAN
    BY BootAssumption
  <1>2. b \in 1 .. 255 /\ b # 224
    BY <1>1
  <1>3. c \in Byte /\ p \in Byte
    BY <1>2 DEF KbType, Byte
  <1>4. [c EXCEPT !.byte = 224] = p
    OBVIOUS
  <1>5. Scancode(key, release) = IF key.e0 THEN <<p, c>> ELSE <<c>>
    BY <1>4 DEF Scancode
  <1> HIDE DEF c, p
  <1>6. <<p, c>> \in Seq(Byte) /\ <<c>> \in Seq(Byte)
    BY <1>3
  <1>7. ASSUME key.e0
        PROVE  /\ Scancode(key, release) \in Seq(Byte) /\ Len(Scancode(key, release)) = 2
               /\ Scancode(key, release)[1] = p /\ Scancode(key, release)[2] = c
    <2>1. Scancode(key, release) = <<p, c>>
      BY <1>5, <1>7
    <2> QED
      BY <1>6, <2>1
  <1>8. ASSUME ~key.e0
        PROVE  /\ Scancode(key, release) \in Seq(Byte) /\ Len(Scancode(key, release)) = 1
               /\ Scancode(key, release)[1] = c
    <2>1. Scancode(key, release) = <<c>>
      BY <1>5, <1>8
    <2> QED
      BY <1>6, <2>1
  <1>9. Scancode(key, release) \in Seq(Byte)
    BY <1>7, <1>8
  <1> HIDE DEF b
  <1>10. p = [byte |-> 224, held |-> held] /\ c = [byte |-> b, held |-> held]
    BY DEF p, c
  <1>11. b = key.code + (IF release THEN 128 ELSE 0)
    BY DEF b
  <1> QED
    BY <1>2, <1>7, <1>8, <1>9, <1>10, <1>11, Zenon

\* The types hold at first.
LEMMA KbTypeInit == Init => KbType
  <1> SUFFICES ASSUME Init PROVE KbType
    OBVIOUS
  <1>1. bytes \in Seq(Byte) /\ held \subseteq Physical
    BY DEF Init
  <1>2. kb \in Flags
    BY DEF Init, Flags
  <1> QED
    BY <1>1, <1>2 DEF KbType, Flags, Byte

\* What kb_isr does with a byte to the flags.  A byte is the prefix, or the
\* code of a key with the prefix read before if it has one.
LEMMA IsrPrefix ==
    ASSUME NEW k \in Flags, NEW junk
    PROVE  /\ kb_isr(k, 224, junk).kb = [k EXCEPT !.scan_state = TRUE]
           /\ kb_isr(k, 224, junk).keys = <<>>
  BY DEF kb_isr, Scan

CodeRead(k, code, pressed, r) ==
    /\ r.kb \in Flags /\ ~r.kb.scan_state
    /\ r.kb.shift = IF code \in {42, 54} /\ ~k.scan_state THEN pressed ELSE k.shift
    /\ r.kb.ctrl = IF code = 29 THEN pressed ELSE k.ctrl
    /\ r.kb.alt = IF code = 56 THEN pressed ELSE k.alt
    /\ code \in 59 .. 68 /\ r.keys # <<>> => r.keys = <<R(code, Held(k))>>

\* What kb_isr does with a byte that is no prefix.
LEMMA IsrCode ==
    ASSUME NEW k \in Flags, NEW junk, NEW code \in 0 .. 127, NEW pressed \in BOOLEAN,
           NEW byte, byte = code + (IF pressed THEN 0 ELSE 128), byte # 224
    PROVE  CodeRead(k, code, pressed, kb_isr(k, byte, junk))
  <1> DEFINE r == kb_isr(k, byte, junk)
  <1>1. byte % 128 = code /\ (byte < 128 <=> pressed)
    OBVIOUS
  <1>2. CASE k.scan_state
    <2> DEFINE q == Prefixed(k, code, pressed)
    <2>1. r = AfterPrefix(k, code, pressed, FALSE)
      <3>1. r = AfterPrefix(k, byte % 128, byte < 128, FALSE)
        BY <1>2, Zenon DEF kb_isr, Scan
      <3>2. (byte < 128) = pressed
        BY <1>1
      <3> QED
        BY <1>1, <3>1, <3>2, Zenon
    <2>2. /\ q.kb \in Flags
          /\ q.kb.shift = k.shift
          /\ q.kb.ctrl = IF code = 29 THEN pressed ELSE k.ctrl
          /\ q.kb.alt = IF code = 56 THEN pressed ELSE k.alt
          /\ code \in 59 .. 68 => q.keys = <<>>
          /\ q = [kb |-> q.kb, keys |-> q.keys]
      BY DEF Prefixed, Flags
    <2>3. r = [q EXCEPT !.kb.scan_state = FALSE]
      BY <2>1 DEF AfterPrefix
    <2> HIDE DEF q, r
    <2>4. r.kb = [q.kb EXCEPT !.scan_state = FALSE] /\ r.keys = q.keys
      BY <2>2, <2>3
    <2>5. r.kb \in Flags /\ ~r.kb.scan_state /\ r.kb.shift = q.kb.shift
          /\ r.kb.ctrl = q.kb.ctrl /\ r.kb.alt = q.kb.alt
      BY <2>2, <2>4 DEF Flags
    <2> QED
      BY <1>2, <2>2, <2>4, <2>5 DEF r, CodeRead
  <1>3. CASE ~k.scan_state
    <2>1. r = Plain(k, code, pressed, junk)
      BY <1>1, <1>3 DEF kb_isr, Scan
    <2> HIDE DEF r, CodeRead
    <2>2. CASE code \in {42, 54}
      <3>1. r = [kb |-> [k EXCEPT !.shift = pressed], keys |-> <<>>]
        BY <2>1, <2>2 DEF Plain
      <3> QED
        BY <1>3, <2>2, <3>1 DEF Flags, r, CodeRead
    <2>3. CASE code = 29
      <3>1. r = [kb |-> [k EXCEPT !.ctrl = pressed], keys |-> <<>>]
        BY <2>1, <2>3 DEF Plain
      <3> QED
        BY <1>3, <2>3, <3>1 DEF Flags, r, CodeRead
    <2>4. CASE code = 56
      <3>1. r = [kb |-> [k EXCEPT !.alt = pressed], keys |-> <<>>]
        BY <2>1, <2>4 DEF Plain
      <3> QED
        BY <1>3, <2>4, <3>1 DEF Flags, r, CodeRead
    <2>5. CASE code = 58
      <3>1. r = [kb |-> [k EXCEPT !.caps = (k.caps # pressed)], keys |-> <<>>]
        BY <2>1, <2>5 DEF Plain
      <3> QED
        BY <1>3, <2>5, <3>1 DEF Flags, r, CodeRead
    <2>6. CASE code \notin {42, 54, 29, 56, 58}
      <3>1. r = [kb |-> k, keys |-> IF pressed THEN Keys(k, code, junk) ELSE <<>>]
        BY <2>1, <2>6 DEF Plain
      <3>2. ASSUME code \in 59 .. 68 PROVE Keys(k, code, junk) = <<R(code, Held(k))>>
        <4>1. code \notin {87, 88} /\ code \notin 0 .. PRINT_KEY_NUM - 1
          BY <3>2 DEF PRINT_KEY_NUM
        <4> QED
          BY <3>2, <4>1, Zenon DEF Keys, Modifiers
      <3>3. r.kb = k /\ (r.keys = <<>> \/ r.keys = Keys(k, code, junk))
        BY <3>1
      <3> QED
        BY <1>3, <2>6, <3>2, <3>3 DEF Flags, r, CodeRead
    <2> QED
      BY <2>2, <2>3, <2>4, <2>5, <2>6
  <1> QED
    BY <1>2, <1>3 DEF Flags

\* m bytes are appended, the last one is b.
Appends(key, m, b) ==
    /\ b # 224 /\ (m = 2 <=> key.e0)
    /\ \/ b = key.code /\ held' = held \cup {key}
       \/ b = key.code + 128 /\ held' = held \ {key}
    /\ bytes' \in Seq(Byte) /\ Len(bytes') = Len(bytes) + m
    /\ \A i \in 1 .. Len(bytes) : bytes'[i] = bytes[i]
    /\ bytes'[Len(bytes) + m] = [byte |-> b, held |-> held]
    /\ m = 2 => bytes'[Len(bytes) + 1] = [byte |-> 224, held |-> held]
    /\ kb' = kb /\ held' \subseteq Physical

\* KeyMoves appends the bytes of the key.
LEMMA KeyBytes ==
    ASSUME KbType, NEW key \in Physical, KeyMoves(key)
    PROVE  \E m \in {1, 2}, b \in 1 .. 255 : Appends(key, m, b)
  <1> DEFINE release == key \in held
             code == Scancode(key, release)
  <1>1. PICK b \in 1 .. 255 :
             /\ b # 224 /\ b = key.code + (IF release THEN 128 ELSE 0)
             /\ code \in Seq(Byte)
             /\ key.e0 => /\ Len(code) = 2
                          /\ code[1] = [byte |-> 224, held |-> held]
                          /\ code[2] = [byte |-> b, held |-> held]
             /\ ~key.e0 => /\ Len(code) = 1
                           /\ code[1] = [byte |-> b, held |-> held]
    <2>1. PICK rel \in BOOLEAN : rel <=> release
      <3>1. CASE release
        BY <3>1, TRUE \in BOOLEAN, Zenon
      <3>2. CASE ~release
        BY <3>2, FALSE \in BOOLEAN, Zenon
      <3> QED
        BY <3>1, <3>2
    <2> HIDE DEF release
    <2> DEFINE sc == Scancode(key, rel)
    <2>2. rel = release
      BY <2>1 DEF release
    <2>3. \E b \in 1 .. 255 :
             /\ b # 224 /\ b = key.code + (IF rel THEN 128 ELSE 0)
             /\ sc \in Seq(Byte)
             /\ key.e0 => /\ Len(sc) = 2
                          /\ sc[1] = [byte |-> 224, held |-> held]
                          /\ sc[2] = [byte |-> b, held |-> held]
             /\ ~key.e0 => /\ Len(sc) = 1
                           /\ sc[1] = [byte |-> b, held |-> held]
      BY ScancodeFacts
    <2> QED
      BY <2>2, <2>3, Zenon
  <1>2. key.code \in 1 .. 127 /\ key.e0 \in BOOLEAN
    BY BootAssumption
  <1>3. bytes' = bytes \o code /\ kb' = kb
        /\ (release => held' = held \ {key}) /\ (~release => held' = held \cup {key})
    BY DEF KeyMoves
  <1>4. /\ release => b = key.code + 128 /\ held' = held \ {key}
        /\ ~release => b = key.code /\ held' = held \cup {key}
    <2>1. b = key.code + (IF release THEN 128 ELSE 0)
      BY <1>1, Zenon
    <2> HIDE DEF release, code
    <2>2. release => b = key.code + 128
      BY <2>1
    <2>3. ~release => b = key.code
      BY <1>2, <2>1
    <2> QED
      BY <1>3, <2>2, <2>3
  <1>5. bytes \in Seq(Byte) /\ held' \subseteq Physical
    BY <1>4 DEF KbType, Byte
  <1> HIDE DEF release, code
  <1>6. /\ bytes' \in Seq(Byte) /\ Len(bytes') = Len(bytes) + Len(code)
        /\ \A i \in 1 .. Len(bytes) : bytes'[i] = bytes[i]
        /\ \A i \in 1 .. Len(code) : bytes'[Len(bytes) + i] = code[i]
    <2>1. code \in Seq(Byte)
      BY <1>1
    <2> QED
      BY <1>3, <1>5, <2>1
  <1>7. CASE key.e0
    <2>1. Len(code) = 2 /\ code[1] = [byte |-> 224, held |-> held]
          /\ code[2] = [byte |-> b, held |-> held]
      BY <1>1, <1>7
    <2>2. bytes'[Len(bytes) + 1] = code[1] /\ bytes'[Len(bytes) + 2] = code[2]
      BY <1>6, <2>1
    <2>3. Appends(key, 2, b)
      BY <1>1, <1>3, <1>4, <1>5, <1>6, <1>7, <2>1, <2>2 DEF Appends
    <2> QED
      BY <2>3
  <1>8. CASE ~key.e0
    <2>1. Len(code) = 1 /\ code[1] = [byte |-> b, held |-> held]
      BY <1>1, <1>8
    <2>2. bytes'[Len(bytes) + 1] = code[1]
      BY <1>6, <2>1
    <2>3. Appends(key, 1, b)
      BY <1>1, <1>3, <1>4, <1>5, <1>6, <1>8, <2>1, <2>2 DEF Appends
    <2> QED
      BY <2>3
  <1> QED
    BY <1>7, <1>8

\* kb_isr reads the first byte.
LEMMA HandlerBytes ==
    ASSUME KbType, bytes # <<>>, KbHandler
    PROVE  /\ bytes' \in Seq(Byte) /\ Len(bytes') = Len(bytes) - 1 /\ Len(bytes) \in Nat \ {0}
           /\ \A i \in 1 .. Len(bytes) - 1 : bytes'[i] = bytes[i + 1]
           /\ held' = held
           /\ \E junk \in Junk :
                 /\ kb' = kb_isr(kb, bytes[1].byte, junk).kb
                 /\ handled' = [byte |-> bytes[1].byte, held |-> bytes[1].held,
                                keys |-> kb_isr(kb, bytes[1].byte, junk).keys]
  <1>1. bytes \in Seq(Byte) /\ bytes' = Tail(bytes) /\ held' = held
    BY DEF KbType, Byte, KbHandler
  <1>2. Head(bytes) = bytes[1] /\ Len(bytes) \in Nat \ {0}
    BY <1>1
  <1>3. /\ bytes' \in Seq(Byte) /\ Len(bytes') = Len(bytes) - 1
        /\ \A i \in 1 .. Len(bytes) - 1 : bytes'[i] = bytes[i + 1]
    BY <1>1, <1>2, HeadTailProperties
  <1>4. \E junk \in Junk :
            /\ kb' = kb_isr(kb, Head(bytes).byte, junk).kb
            /\ handled' = [byte |-> Head(bytes).byte, held |-> Head(bytes).held,
                           keys |-> kb_isr(kb, Head(bytes).byte, junk).keys]
    BY Zenon DEF KbHandler
  <1>5. \E junk \in Junk :
            /\ kb' = kb_isr(kb, bytes[1].byte, junk).kb
            /\ handled' = [byte |-> bytes[1].byte, held |-> bytes[1].held,
                           keys |-> kb_isr(kb, bytes[1].byte, junk).keys]
    BY <1>2, <1>4, Zenon
  <1> QED
    BY <1>1, <1>2, <1>3, <1>5

\* Every byte leaves flags.
LEMMA IsrFlags ==
    ASSUME NEW k \in Flags, NEW byte \in 1 .. 255, NEW junk
    PROVE  kb_isr(k, byte, junk).kb \in Flags
  <1>1. CASE byte = 224
    <2>1. [k EXCEPT !.scan_state = TRUE] \in Flags
      BY DEF Flags
    <2> QED
      BY <1>1, <2>1, IsrPrefix, Zenon
  <1>2. CASE byte # 224
    <2>1. PICK code \in 0 .. 127 : code = byte % 128
      OBVIOUS
    <2>2. byte = code + (IF byte < 128 THEN 0 ELSE 128)
      BY <2>1
    <2>3. PICK pressed \in BOOLEAN : pressed <=> byte < 128
      <3>1. CASE byte < 128
        BY <3>1, TRUE \in BOOLEAN, Zenon
      <3>2. CASE ~(byte < 128)
        BY <3>2, FALSE \in BOOLEAN, Zenon
      <3> QED
        BY <3>1, <3>2
    <2>4. byte = code + (IF pressed THEN 0 ELSE 128)
      BY <2>2, <2>3
    <2>5. CodeRead(k, code, pressed, kb_isr(k, byte, junk))
      BY <1>2, <2>4, IsrCode
    <2> QED
      BY <2>5 DEF CodeRead
  <1> QED
    BY <1>1, <1>2

\* Only the keyboard and its handler change the keys.
LEMMA OthersKeepKeys ==
    ASSUME [Next]_vars, ~KbHandler, ~\E key \in Physical : KeyMoves(key)
    PROVE  UNCHANGED <<kb, held, bytes, handled>>
  <1>1. CASE RtcHandler
    BY <1>1 DEF RtcHandler, keyboard
  <1>2. CASE \E line \in {KB_IRQ, RTC_IRQ} : Enter(line)
    BY <1>2 DEF Enter, keyboard
  <1>3. CASE Boots
    BY <1>3 DEF Boots, i8259_init, init_rtc, init_kb, init_term, init_tuxctl, show_score,
                SetUp, keyboard
  <1>4. CASE Tick
    BY <1>4 DEF Tick, keyboard
  <1>5. CASE UNCHANGED vars
    BY <1>5 DEF vars, keyboard
  <1> QED
    BY <1>1, <1>2, <1>3, <1>4, <1>5 DEF Next, Handlers

\* Every step keeps the types.
LEMMA KbTypeStep == KbType /\ ControlInv /\ [Next]_vars => KbType'
  <1> SUFFICES ASSUME KbType, ControlInv, [Next]_vars PROVE KbType'
    OBVIOUS
  <1>1. CASE KbHandler
    <2>1. bytes # <<>>
      BY <1>1 DEF ControlInv, KbHandler
    <2>2. /\ bytes' \in Seq(Byte) /\ held' = held /\ Len(bytes) \in Nat \ {0}
          /\ \E junk \in Junk : kb' = kb_isr(kb, bytes[1].byte, junk).kb
      BY <1>1, <2>1, HandlerBytes
    <2>3. kb \in Flags /\ bytes \in Seq(Byte)
      BY DEF KbType, Flags, Byte
    <2>4. bytes[1] \in Byte
      BY <2>2, <2>3
    <2>5. bytes[1].byte \in 1 .. 255
      BY <2>4 DEF Byte
    <2>6. kb' \in Flags
      BY <2>2, <2>3, <2>5, IsrFlags
    <2> QED
      BY <2>2, <2>6 DEF KbType, Flags, Byte
  <1>2. ASSUME NEW key \in Physical, KeyMoves(key) PROVE KbType'
    <2>1. bytes' \in Seq(Byte) /\ kb' = kb /\ held' \subseteq Physical
      BY <1>2, KeyBytes DEF Appends
    <2> QED
      BY <2>1 DEF KbType, Byte
  <1>3. CASE ~KbHandler /\ ~\E key \in Physical : KeyMoves(key)
    BY <1>3, OthersKeepKeys DEF KbType
  <1> QED
    BY <1>1, <1>2, <1>3

----------------------------------------------------------------------------
(***************************************************************************)
(* The interrupt controllers.                                              *)
(***************************************************************************)
\* The end of an interrupt clears exactly what its start set.
LEMMA EndsWhatItBegan ==
    /\ service = {KB_IRQ} => service \ EndOfInterrupt(KB_IRQ) = {}
    /\ service = {SLAVE_PIC_IRQ, RTC_IRQ} => service \ EndOfInterrupt(RTC_IRQ) = {}
  <1>1. ASSUME service = {KB_IRQ} PROVE service \ EndOfInterrupt(KB_IRQ) = {}
    <2>1. service \cap (0 .. 7) = {1}
      BY <1>1 DEF KB_IRQ
    <2>2. First({1}) = {1}
      BY DEF First
    <2> QED
      BY <1>1, <2>1, <2>2 DEF EndOfInterrupt, KB_IRQ
  <1>2. ASSUME service = {SLAVE_PIC_IRQ, RTC_IRQ} PROVE service \ EndOfInterrupt(RTC_IRQ) = {}
    <2>1. service \cap (0 .. 7) = {2} /\ service \cap (8 .. 15) = {8}
      BY <1>2 DEF SLAVE_PIC_IRQ, RTC_IRQ
    <2>2. First({2}) = {2} /\ First({8}) = {8}
      BY DEF First
    <2> QED
      BY <1>2, <2>1, <2>2 DEF EndOfInterrupt, RTC_IRQ, SLAVE_PIC_IRQ
  <1> QED
    BY <1>1, <1>2

\* The control invariant holds at first.
LEMMA ControlInit == Init => ControlInv
  BY DEF Init, ControlInv, EarlyKeysOnly, NoLine, KB_IRQ, RTC_IRQ

\* Every step of entry() and of an interrupt keeps the control invariant.
LEMMA ControlStep == KbType /\ ControlInv /\ [Next]_vars => ControlInv'
  <1> SUFFICES ASSUME KbType, ControlInv, [Next]_vars PROVE ControlInv'
    OBVIOUS
  <1> USE DEF NoLine, KB_IRQ, RTC_IRQ, SLAVE_PIC_IRQ
  <1>1. CASE RtcHandler
    <2>1. cpu = RTC_IRQ /\ cpu' = NoLine /\ service' = service \ EndOfInterrupt(RTC_IRQ)
          /\ UNCHANGED <<pc, gates, crash, bytes>>
      BY <1>1 DEF RtcHandler, Return, ReturnWith, boot, keyboard
    <2>2. service' = {}
      BY <2>1, EndsWhatItBegan DEF ControlInv
    <2> QED
      BY <2>1, <2>2 DEF ControlInv, EarlyKeysOnly
  <1>2. CASE KbHandler
    <2>1. cpu = KB_IRQ /\ cpu' = NoLine /\ service' = service \ EndOfInterrupt(KB_IRQ)
          /\ UNCHANGED <<pc, gates>> /\ crash = NoLine
      BY <1>2 DEF KbHandler, Return, ReturnWith, boot
    <2>2. service' = {}
      BY <2>1, EndsWhatItBegan DEF ControlInv
    <2>3. crash' \in {NoLine, KB_IRQ} /\ (crash' # NoLine => pc = "term")
      BY <1>2 DEF KbHandler
    <2> QED
      BY <2>1, <2>2, <2>3 DEF ControlInv, EarlyKeysOnly
  <1>3. ASSUME NEW line \in {KB_IRQ, RTC_IRQ}, Enter(line) PROVE ControlInv'
    <2>1. /\ UNCHANGED <<pc, gates, bytes>> /\ crash = NoLine /\ sti /\ cpu = NoLine
          /\ service = {} /\ Raised(line)
      BY <1>3 DEF Enter, boot, keyboard, ControlInv, Reaches
    <2>2. CASE line \in gates
      <3>1. cpu' = line /\ UNCHANGED crash
            /\ service' = service \cup {line} \cup IF line >= 8 THEN {SLAVE_PIC_IRQ} ELSE {}
        BY <1>3, <2>2 DEF Enter
      <3>2. line = KB_IRQ => bytes # <<>>
        BY <2>1 DEF Raised
      <3>3. CASE line = KB_IRQ
        BY <2>1, <2>2, <3>1, <3>2, <3>3 DEF ControlInv, EarlyKeysOnly
      <3>4. CASE line = RTC_IRQ
        BY <2>1, <2>2, <3>1, <3>4 DEF ControlInv, EarlyKeysOnly
      <3> QED
        BY <3>3, <3>4
    <2>3. CASE line \notin gates
      <3>1. crash' = line /\ UNCHANGED <<cpu, sti, service>>
        BY <1>3, <2>3 DEF Enter
      <3> QED
        BY <2>1, <2>3, <3>1 DEF ControlInv, EarlyKeysOnly
    <2> QED
      BY <2>2, <2>3
  <1>4. CASE Boots
    <2>1. /\ crash = NoLine /\ cpu = NoLine /\ UNCHANGED <<service, cpu, bytes, crash>>
          /\ service = {}
      BY <1>4 DEF Boots, i8259_init, init_rtc, init_kb, init_term, init_tuxctl, show_score,
                  Step, SetUp, keyboard, ControlInv
    <2>2. \/ pc = "pic" /\ pc' = "rtc" /\ gates' = gates /\ sti' = sti
          \/ pc = "rtc" /\ pc' = "kb" /\ gates' = gates \cup {RTC_IRQ}
          \/ pc = "kb" /\ pc' = "term" /\ gates' = gates \cup {KB_IRQ}
          \/ pc \in {"term", "tux", "score"} /\ pc' \in {"tux", "score", "pit"} /\ gates' = gates
      BY <1>4 DEF Boots, i8259_init, init_rtc, init_kb, init_term, init_tuxctl, show_score,
                  Step, SetUp
    <2> QED
      BY <2>1, <2>2 DEF ControlInv, EarlyKeysOnly
  <1>5. CASE Tick
    BY <1>5 DEF Tick, boot, keyboard, ControlInv, EarlyKeysOnly
  <1>6. ASSUME NEW key \in Physical, KeyMoves(key) PROVE ControlInv'
    <2>1. UNCHANGED <<pc, gates, sti, service, cpu, crash>>
      BY <1>6 DEF KeyMoves, boot
    <2>2. cpu = KB_IRQ => bytes' # <<>>
      <3>1. PICK m \in {1, 2}, b \in 1 .. 255 : Appends(key, m, b)
        BY <1>6, KeyBytes
      <3>2. Len(bytes) \in Nat
        BY DEF KbType
      <3> QED
        BY <3>1, <3>2 DEF Appends
    <2> QED
      BY <2>1, <2>2 DEF ControlInv, EarlyKeysOnly
  <1>7. CASE UNCHANGED vars
    BY <1>7 DEF vars, boot, keyboard, ControlInv, EarlyKeysOnly
  <1> QED
    BY <1>1, <1>2, <1>3, <1>4, <1>5, <1>6, <1>7 DEF Next, Handlers

----------------------------------------------------------------------------
(***************************************************************************)
(* The keys held and what the handler has read.                            *)
(***************************************************************************)
LEMMA KeysInit == Init => KeysInv /\ ModInv /\ AltSwitches
  BY DEF Init, KeysInv, ModInv, AltSwitches, HeldAt, PrefixAt, Pressed

\* The keys held at every byte are keys of the keyboard.
LEMMA HeldPhysical ==
    ASSUME KbType, NEW i \in 1 .. Len(bytes) + 1
    PROVE  HeldAt(i) \subseteq Physical
  <1>1. bytes \in Seq(Byte) /\ held \subseteq Physical
    BY DEF KbType, Byte
  <1>2. i <= Len(bytes) => bytes[i] \in Byte
    BY <1>1
  <1> QED
    BY <1>1, <1>2 DEF HeldAt, Byte

\* A key that moves comes behind the bytes in the keyboard.
LEMMA KeyMovesKeys ==
    ASSUME KbType, KeysInv, NEW key \in Physical, KeyMoves(key)
    PROVE  KeysInv' /\ HeldAt(1)' = HeldAt(1) /\ kb' = kb
  <1>1. PICK m \in {1, 2}, b \in 1 .. 255 : Appends(key, m, b)
    BY KeyBytes
  <1>2. PICK n \in Nat : n = Len(bytes)
    BY DEF KbType
  <1>3. /\ Len(bytes') = n + m /\ \A i \in 1 .. n : bytes'[i] = bytes[i]
        /\ bytes'[n + m] = [byte |-> b, held |-> held]
        /\ m = 2 => bytes'[n + 1] = [byte |-> 224, held |-> held]
        /\ kb' = kb /\ b # 224
    BY <1>1, <1>2 DEF Appends
  <1>4. bytes'[n + 1].held = held
    BY <1>3
  <1>5. \A i \in 1 .. n + 1 : HeldAt(i)' = HeldAt(i)
    BY <1>2, <1>3, <1>4 DEF HeldAt
  <1>6. \A i \in 1 .. n + 1 : PrefixAt(i)' = PrefixAt(i)
    BY <1>2, <1>3 DEF PrefixAt
  <1>7. ~PrefixAt(n + 1) /\ ~PrefixAt(n + 1)'
    BY <1>2, <1>6 DEF KeysInv
  <1>8. HeldAt(n + m + 1)' = held' /\ HeldAt(n + 1)' = held
        /\ HeldAt(n + m)' = held
    BY <1>3, <1>4 DEF HeldAt
  <1>9. \A i \in 1 .. n : Sent(i)'
    <2> SUFFICES ASSUME NEW i \in 1 .. n PROVE Sent(i)'
      OBVIOUS
    <2>1. Sent(i)
      BY <1>2 DEF KeysInv
    <2>2. /\ HeldAt(i)' = HeldAt(i) /\ HeldAt(i + 1)' = HeldAt(i + 1)
          /\ PrefixAt(i)' = PrefixAt(i) /\ bytes'[i] = bytes[i]
          /\ i < Len(bytes) => i < Len(bytes')
      BY <1>2, <1>3, <1>5, <1>6
    <2> QED
      BY <2>1, <2>2, Zenon DEF Sent
  <1>10. m = 2 => Sent(n + 1)'
    BY <1>3, <1>7, <1>8 DEF Sent
  <1>11. Sent(n + m)'
    <2>1. key.e0 = PrefixAt(n + m)'
      <3>1. m = 1 => PrefixAt(n + m)' = FALSE
        BY <1>7 DEF PrefixAt
      <3>2. m = 2 => PrefixAt(n + m)' = TRUE
        BY <1>3 DEF PrefixAt
      <3>3. key.e0 \in BOOLEAN /\ (m = 2 <=> key.e0)
        BY <1>1, BootAssumption DEF Appends
      <3> QED
        <4>1. CASE m = 1
          <5>1. key.e0 = FALSE
            BY <3>3, <4>1
          <5>2. PrefixAt(n + m)' = FALSE
            BY <3>1, <4>1
          <5> QED
            BY <5>1, <5>2, Zenon
        <4>2. CASE m = 2
          BY <3>2, <3>3, <4>2
        <4> QED
          BY <4>1, <4>2
    <2>2. \/ b = key.code /\ HeldAt(n + m + 1)' = HeldAt(n + m)' \cup {key}
          \/ b = key.code + 128 /\ HeldAt(n + m + 1)' = HeldAt(n + m)' \ {key}
      BY <1>1, <1>8 DEF Appends
    <2>3. bytes'[n + m].byte = b
      BY <1>3
    <2> QED
      BY <2>1, <2>2, <2>3, Zenon DEF Sent
  <1>12. \A i \in 1 .. Len(bytes') : Sent(i)'
    <2>1. ASSUME NEW i \in 1 .. Len(bytes') PROVE i \in 1 .. n \/ (m = 2 /\ i = n + 1) \/ i = n + m
      BY <1>3
    <2> QED
      BY <1>9, <1>10, <1>11, <2>1
  <1>13. (~PrefixAt(Len(bytes) + 1))'
    BY <1>3 DEF PrefixAt
  <1>14. HeldAt(1)' = HeldAt(1)
    BY <1>5
  <1> QED
    BY <1>3, <1>12, <1>13, <1>14 DEF KeysInv

\* Reading a byte moves everything to the front.
LEMMA HandlerMoves ==
    ASSUME KbType, KeysInv, bytes # <<>>, KbHandler
    PROVE  /\ \A i \in 1 .. Len(bytes) : HeldAt(i)' = HeldAt(i + 1)
           /\ \A i \in 2 .. Len(bytes) : PrefixAt(i)' = PrefixAt(i + 1)
           /\ Sent(1) /\ bytes[1].held = HeldAt(1)
  <1>1. PICK n \in Nat \ {0} : n = Len(bytes)
    BY HandlerBytes
  <1>2. Len(bytes') = n - 1 /\ (\A i \in 1 .. n - 1 : bytes'[i] = bytes[i + 1]) /\ held' = held
    BY <1>1, HandlerBytes
  <1>3. \A i \in 1 .. n : HeldAt(i)' = HeldAt(i + 1)
    BY <1>1, <1>2 DEF HeldAt
  <1>4. \A i \in 2 .. n : PrefixAt(i)' = PrefixAt(i + 1)
    BY <1>1, <1>2 DEF PrefixAt
  <1>5. Sent(1) /\ bytes[1].held = HeldAt(1)
    BY <1>1 DEF KeysInv, HeldAt
  <1> QED
    BY <1>1, <1>3, <1>4, <1>5

\* The handler reads a prefix: only scan_state changes.
LEMMA ReadPrefix ==
    ASSUME KbType, bytes # <<>>, KbHandler, bytes[1].byte = 224
    PROVE  /\ kb'.scan_state = TRUE /\ kb'.shift = kb.shift
           /\ kb'.ctrl = kb.ctrl /\ kb'.alt = kb.alt
           /\ AltSwitches'
  <1>1. kb \in Flags
    BY DEF KbType, Flags
  <1>2. PICK junk : /\ kb' = kb_isr(kb, 224, junk).kb
                    /\ handled' = [byte |-> 224, held |-> bytes[1].held,
                                   keys |-> kb_isr(kb, 224, junk).keys]
    BY HandlerBytes
  <1>3. kb' = [kb EXCEPT !.scan_state = TRUE]
    BY <1>1, <1>2, IsrPrefix
  <1>4. handled'.byte = 224
    BY <1>2
  <1> QED
    BY <1>1, <1>3, <1>4 DEF AltSwitches, Flags

\* The handler reads the code of a key that was pressed or released.
LEMMA ReadCode ==
    ASSUME KbType, bytes # <<>>, KbHandler,
           NEW code \in (1 .. 127) \ {96}, NEW pressed \in BOOLEAN,
           bytes[1].byte = code + (IF pressed THEN 0 ELSE 128)
    PROVE  /\ ~kb'.scan_state /\ kb' \in Flags
           /\ kb'.shift = IF code \in {42, 54} /\ ~kb.scan_state THEN pressed ELSE kb.shift
           /\ kb'.ctrl = IF code = 29 THEN pressed ELSE kb.ctrl
           /\ kb'.alt = IF code = 56 THEN pressed ELSE kb.alt
           /\ handled'.byte = bytes[1].byte /\ handled'.held = bytes[1].held
           /\ handled'.byte \in 59 .. 68 /\ handled'.keys # <<>> =>
                 handled'.keys = <<R(code, Held(kb))>>
  <1>1. kb \in Flags
    BY DEF KbType, Flags
  <1>2. PICK byte : byte = bytes[1].byte
    OBVIOUS
  <1>3. PICK junk : /\ kb' = kb_isr(kb, byte, junk).kb
                    /\ handled' = [byte |-> byte, held |-> bytes[1].held,
                                   keys |-> kb_isr(kb, byte, junk).keys]
    BY <1>2, HandlerBytes
  <1>4. byte = code + (IF pressed THEN 0 ELSE 128) /\ byte # 224
    BY <1>2
  <1>5. handled'.byte = byte /\ handled'.held = bytes[1].held
        /\ handled'.keys = kb_isr(kb, byte, junk).keys
    BY <1>3
  <1>6. CodeRead(kb, code, pressed, kb_isr(kb, byte, junk))
    <2>1. code \in 0 .. 127
      OBVIOUS
    <2> QED
      BY <1>1, <1>4, <2>1, IsrCode
  <1>7. byte \in 59 .. 68 => code \in 59 .. 68
    BY <1>4
  <1> QED
    BY <1>2, <1>3, <1>5, <1>6, <1>7 DEF CodeRead

\* The flags after a byte agree with the keys held at the next one, if they did
\* before.
FlagsHold(k, keys) ==
    /\ k.shift => \E key \in keys : key.code \in {42, 54} /\ ~key.e0
    /\ k.ctrl => \E key \in keys : key.code = 29
    /\ k.alt => \E key \in keys : key.code = 56

Exact(k, keys) == \A mod \in Mods : Single(mod) /\ mod \in Pressed(keys) => mod \in Held(k)

\* The flags as a set of modifiers.
LEMMA HeldIs ==
    ASSUME NEW k
    PROVE  /\ Held(k) \subseteq Mods
           /\ "shift" \in Held(k) <=> k.shift
           /\ "ctrl" \in Held(k) <=> k.ctrl
           /\ "alt" \in Held(k) <=> k.alt
  BY DEF Held, Mods

\* No flag is set without its key.
LEMMA HeldArePressed ==
    ASSUME NEW k, NEW keys, FlagsHold(k, keys)
    PROVE  Held(k) \subseteq Pressed(keys)
  BY HeldIs DEF FlagsHold, Pressed, IsModifier, Mods

\* Flags that followed the keys held before a key moved follow them after, if it
\* sets or clears the flag of its modifier and leaves the others.
LEMMA ExactMoves ==
    ASSUME NEW k, NEW l, NEW keys, keys \subseteq Physical, NEW key \in Physical,
           NEW pressed \in BOOLEAN, Exact(k, keys),
           \A mod \in Mods : mod \in Held(l) <=>
               IF IsModifier(key, mod) THEN pressed ELSE mod \in Held(k)
    PROVE  Exact(l, IF pressed THEN keys \cup {key} ELSE keys \ {key})
  <1> DEFINE after == IF pressed THEN keys \cup {key} ELSE keys \ {key}
  <1> SUFFICES ASSUME NEW mod \in Mods, Single(mod), mod \in Pressed(after) PROVE mod \in Held(l)
    BY DEF Exact
  <1>1. PICK other \in after : IsModifier(other, mod)
    BY DEF Pressed
  <1>2. CASE IsModifier(key, mod)
    <2>1. CASE pressed
      BY <1>2, <2>1
    <2>2. CASE ~pressed
      <3>1. other \in Physical /\ other # key
        BY <1>1, <2>2
      <3> QED
        BY <1>1, <1>2, <3>1 DEF Single
    <2> QED
      BY <2>1, <2>2
  <1>3. CASE ~IsModifier(key, mod)
    <2>1. other \in keys
      BY <1>1, <1>3
    <2>2. mod \in Pressed(keys)
      BY <1>1, <2>1 DEF Pressed
    <2> QED
      BY <1>3, <2>2 DEF Exact
  <1> QED
    BY <1>2, <1>3

\* A function key whose modifiers are the flags.
LEMMA SwitchesIf ==
    ASSUME NEW k, NEW keys, FlagsHold(k, keys), Exact(k, keys), NEW code \in 59 .. 61
    PROVE  /\ Single("alt") /\ Pressed(keys) = {"alt"} => Switches(R(code, Held(k)))
           /\ Switches(R(code, Held(k))) =>
                 "alt" \in Pressed(keys) /\ \A mod \in Pressed(keys) \ {"alt"} : ~Single(mod)
  <1>1. Held(k) \subseteq Pressed(keys)
    BY HeldArePressed
  <1>2. Switches(R(code, Held(k))) <=> Held(k) = {"alt"}
    BY DEF Switches, R
  <1>3. "alt" \in Mods /\ Pressed(keys) \subseteq Mods
    BY DEF Mods, Pressed
  <1> QED
    BY <1>1, <1>2, <1>3 DEF Exact

\* After a byte the flags agree with the keys held at that byte.
LEMMA HandlerFlags ==
    ASSUME KbType, KeysInv, bytes # <<>>, KbHandler
    PROVE  /\ FlagsHold(kb', HeldAt(2))
           /\ kb'.scan_state = (bytes[1].byte = 224)
           /\ ModInv => Exact(kb', HeldAt(2)) /\ AltSwitches'
  <1>1. PICK H1, H2 : H1 = HeldAt(1) /\ H2 = HeldAt(2)
    OBVIOUS
  <1>2. FlagsHold(kb, H1) /\ (ModInv => Exact(kb, H1))
    BY <1>1 DEF KeysInv, ModInv, FlagsHold, Exact
  <1>3. Sent(1) /\ bytes[1].held = H1
    BY <1>1, HandlerMoves
  <1>4. kb \in Flags /\ PrefixAt(1) = kb.scan_state
    BY DEF KbType, Flags, PrefixAt
  <1>5. CASE bytes[1].byte = 224 /\ HeldAt(2) = HeldAt(1)
    <2>1. /\ kb'.scan_state = TRUE /\ kb'.shift = kb.shift
          /\ kb'.ctrl = kb.ctrl /\ kb'.alt = kb.alt /\ AltSwitches'
      BY <1>5, ReadPrefix
    <2>2. kb'.scan_state = (bytes[1].byte = 224)
      BY <1>5, <2>1
    <2>3. FlagsHold(kb', H1)
      BY <1>2, <2>1 DEF FlagsHold
    <2>4. Held(kb') = Held(kb)
      BY <2>1 DEF Held
    <2>5. ModInv => Exact(kb', H1)
      BY <1>2, <2>4 DEF Exact
    <2> QED
      BY <1>1, <1>5, <2>1, <2>2, <2>3, <2>5
  <1>6. ASSUME NEW key \in Physical, key.e0 = PrefixAt(1),
               NEW pressed \in BOOLEAN,
               bytes[1].byte = key.code + (IF pressed THEN 0 ELSE 128),
               HeldAt(2) = IF pressed THEN HeldAt(1) \cup {key} ELSE HeldAt(1) \ {key}
        PROVE  /\ FlagsHold(kb', HeldAt(2))
               /\ kb'.scan_state = (bytes[1].byte = 224)
               /\ ModInv => Exact(kb', HeldAt(2)) /\ AltSwitches'
    <2>1. PICK code : code = key.code
      OBVIOUS
    <2>2. code \in (1 .. 127) \ {96}
      BY <2>1, BootAssumption
    <2>3. bytes[1].byte = code + (IF pressed THEN 0 ELSE 128)
      BY <1>6, <2>1
    <2>4. /\ ~kb'.scan_state /\ kb' \in Flags
          /\ kb'.shift = IF code \in {42, 54} /\ ~kb.scan_state THEN pressed ELSE kb.shift
          /\ kb'.ctrl = IF code = 29 THEN pressed ELSE kb.ctrl
          /\ kb'.alt = IF code = 56 THEN pressed ELSE kb.alt
          /\ handled'.byte = bytes[1].byte /\ handled'.held = bytes[1].held
          /\ handled'.byte \in 59 .. 68 /\ handled'.keys # <<>> =>
                handled'.keys = <<R(code, Held(kb))>>
      BY <2>2, <2>3, ReadCode
    <2>5. kb'.scan_state = (bytes[1].byte = 224)
      <3>1. kb'.scan_state = FALSE
        BY <2>4 DEF Flags
      <3>2. bytes[1].byte # 224
        BY <2>2, <2>3
      <3> QED
        BY <3>1, <3>2
    <2>6. H2 = IF pressed THEN H1 \cup {key} ELSE H1 \ {key}
      BY <1>1, <1>6
    <2>7. kb'.shift => \E k \in H2 : k.code \in {42, 54} /\ ~k.e0
      BY <1>2, <1>4, <1>6, <2>1, <2>4, <2>6 DEF FlagsHold
    <2>8. kb'.ctrl => \E k \in H2 : k.code = 29
      BY <1>2, <2>1, <2>4, <2>6 DEF FlagsHold
    <2>9. kb'.alt => \E k \in H2 : k.code = 56
      BY <1>2, <2>1, <2>4, <2>6 DEF FlagsHold
    <2>10. ASSUME ModInv PROVE Exact(kb', H2) /\ AltSwitches'
      <3>1. H1 \subseteq Physical
        BY <1>1, HeldPhysical DEF KbType
      <3>2. Exact(kb, H1)
        BY <1>2, <2>10
      <3>3. \A mod \in Mods : mod \in Held(kb') <=>
               IF IsModifier(key, mod) THEN pressed ELSE mod \in Held(kb)
        BY <1>4, <1>6, <2>1, <2>4, HeldIs DEF Mods, IsModifier
      <3>4. Exact(kb', H2)
        BY <2>6, <3>1, <3>2, <3>3, ExactMoves
      <3>5. ASSUME handled'.byte \in 59 .. 61, handled'.keys # <<>>
            PROVE  LET down == Pressed(handled'.held)
                       switches == Len(handled'.keys) = 1 /\ Switches(handled'.keys[1])
                   IN  /\ Single("alt") /\ down = {"alt"} => switches
                       /\ switches => "alt" \in down /\ \A mod \in down \ {"alt"} : ~Single(mod)
        <4>1. handled'.keys = <<R(code, Held(kb))>> /\ code \in 59 .. 61
          <5>1. PICK byte : byte = handled'.byte
            OBVIOUS
          <5>2. byte \in 59 .. 61 /\ byte \in 59 .. 68
            BY <3>5, <5>1
          <5>3. byte = code + (IF pressed THEN 0 ELSE 128)
            BY <2>3, <2>4, <5>1
          <5>4. code \in 59 .. 61
            BY <2>2, <5>2, <5>3
          <5> QED
            BY <2>4, <3>5, <5>1, <5>2, <5>4
        <4>2. Len(handled'.keys) = 1 /\ handled'.keys[1] = R(code, Held(kb))
          BY <4>1
        <4>3. /\ Single("alt") /\ Pressed(H1) = {"alt"} => Switches(R(code, Held(kb)))
              /\ Switches(R(code, Held(kb))) =>
                    "alt" \in Pressed(H1) /\ \A mod \in Pressed(H1) \ {"alt"} : ~Single(mod)
          BY <1>2, <3>2, <4>1, SwitchesIf
        <4> QED
          BY <1>3, <2>4, <4>2, <4>3
      <3> QED
        BY <3>4, <3>5 DEF AltSwitches
    <2> QED
      BY <1>1, <2>4, <2>5, <2>7, <2>8, <2>9, <2>10 DEF FlagsHold
  <1>7. CASE \E key \in Physical :
               /\ key.e0 = PrefixAt(1)
               /\ \/ bytes[1].byte = key.code /\ HeldAt(2) = HeldAt(1) \cup {key}
                  \/ bytes[1].byte = key.code + 128 /\ HeldAt(2) = HeldAt(1) \ {key}
    <2>1. PICK key \in Physical :
               /\ key.e0 = PrefixAt(1)
               /\ \/ bytes[1].byte = key.code /\ HeldAt(2) = HeldAt(1) \cup {key}
                  \/ bytes[1].byte = key.code + 128 /\ HeldAt(2) = HeldAt(1) \ {key}
      BY <1>7
    <2>2. key.code \in 1 .. 127
      BY BootAssumption
    <2>3. CASE bytes[1].byte = key.code /\ HeldAt(2) = HeldAt(1) \cup {key}
      <3>1. bytes[1].byte = key.code + (IF TRUE THEN 0 ELSE 128)
        <4>1. PICK code \in 1 .. 127 : code = key.code
          BY <2>2
        <4>2. code = code + (IF TRUE THEN 0 ELSE 128)
          OBVIOUS
        <4> QED
          BY <2>3, <4>1, <4>2, Zenon
      <3> QED
        BY <1>6, <2>1, <2>3, <3>1, TRUE \in BOOLEAN
    <2>4. CASE bytes[1].byte = key.code + 128 /\ HeldAt(2) = HeldAt(1) \ {key}
      BY <1>6, <2>1, <2>4, FALSE \in BOOLEAN
    <2> QED
      BY <2>1, <2>3, <2>4
  <1> QED
    BY <1>3, <1>5, <1>7 DEF Sent

\* The keyboard handler keeps the invariants about the keys.
LEMMA HandlerKeys ==
    ASSUME KbType, KeysInv, bytes # <<>>, KbHandler
    PROVE  KeysInv' /\ (ModInv => ModInv' /\ AltSwitches')
  <1>1. PICK n \in Nat \ {0} : n = Len(bytes)
    BY HandlerBytes
  <1>2. Len(bytes') = n - 1 /\ (\A i \in 1 .. n - 1 : bytes'[i] = bytes[i + 1])
    BY <1>1, HandlerBytes
  <1>3. HeldAt(1)' = HeldAt(2) /\ \A i \in 1 .. n : HeldAt(i)' = HeldAt(i + 1)
    BY <1>1, HandlerMoves
  <1>4. /\ FlagsHold(kb', HeldAt(2)) /\ kb'.scan_state = (bytes[1].byte = 224)
        /\ ModInv => Exact(kb', HeldAt(2)) /\ AltSwitches'
    BY HandlerFlags
  <1>5. \A i \in 1 .. n : PrefixAt(i)' = PrefixAt(i + 1)
    <2>1. PrefixAt(1)' = PrefixAt(2)
      BY <1>4 DEF PrefixAt
    <2>2. \A i \in 2 .. n : PrefixAt(i)' = PrefixAt(i + 1)
      BY <1>1, HandlerMoves
    <2> QED
      BY <2>1, <2>2
  <1>6. \A i \in 1 .. Len(bytes') : Sent(i)'
    <2> SUFFICES ASSUME NEW i \in 1 .. n - 1 PROVE Sent(i)'
      BY <1>2
    <2>1. Sent(i + 1)
      BY <1>1 DEF KeysInv
    <2>2. /\ HeldAt(i)' = HeldAt(i + 1) /\ HeldAt(i + 1)' = HeldAt(i + 1 + 1)
          /\ PrefixAt(i)' = PrefixAt(i + 1) /\ bytes'[i] = bytes[i + 1]
          /\ i + 1 < Len(bytes) => i < Len(bytes')
      BY <1>1, <1>2, <1>3, <1>5
    <2> QED
      BY <2>1, <2>2, Zenon DEF Sent
  <1>7. (~PrefixAt(Len(bytes) + 1))'
    BY <1>1, <1>2, <1>5 DEF KeysInv
  <1>8. FlagsHold(kb', HeldAt(1)') /\ (ModInv => Exact(kb', HeldAt(1)'))
    BY <1>3, <1>4
  <1> QED
    BY <1>4, <1>6, <1>7, <1>8 DEF KeysInv, ModInv, FlagsHold, Exact

\* The bytes in the keyboard stay in step with the keys held, and
\* the flag of a modifier with one key stays exact.
LEMMA KeysStep ==
    KbType /\ ControlInv /\ KeysInv /\ [Next]_vars => KeysInv'
  <1> SUFFICES ASSUME KbType, ControlInv, KeysInv, [Next]_vars PROVE KeysInv'
    OBVIOUS
  <1>1. CASE KbHandler
    <2>1. bytes # <<>>
      BY <1>1 DEF ControlInv, KbHandler
    <2> QED
      BY <1>1, <2>1, HandlerKeys
  <1>2. ASSUME NEW key \in Physical, KeyMoves(key) PROVE KeysInv'
    BY <1>2, KeyMovesKeys
  <1>3. CASE ~KbHandler /\ ~\E key \in Physical : KeyMoves(key)
    <2>1. UNCHANGED <<kb, held, bytes>>
      BY <1>3, OthersKeepKeys
    <2> QED
      BY <2>1 DEF KeysInv, Sent, HeldAt, PrefixAt
  <1> QED
    BY <1>1, <1>2, <1>3

\* Every step keeps the flags of modifiers with one key exact.
LEMMA AltStep ==
    KbType /\ ControlInv /\ KeysInv /\ ModInv /\ AltSwitches /\ [Next]_vars
        => ModInv' /\ AltSwitches'
  <1> SUFFICES ASSUME KbType, ControlInv, KeysInv, ModInv, AltSwitches, [Next]_vars
               PROVE  ModInv' /\ AltSwitches'
    OBVIOUS
  <1>1. CASE KbHandler
    <2>1. bytes # <<>>
      BY <1>1 DEF ControlInv, KbHandler
    <2> QED
      BY <1>1, <2>1, HandlerKeys
  <1>2. ASSUME NEW key \in Physical, KeyMoves(key) PROVE ModInv' /\ AltSwitches'
    <2>1. HeldAt(1)' = HeldAt(1) /\ kb' = kb /\ handled' = handled
      BY <1>2, KeyMovesKeys DEF KeyMoves
    <2> QED
      BY <2>1 DEF ModInv, AltSwitches, Held
  <1>3. CASE ~KbHandler /\ ~\E key \in Physical : KeyMoves(key)
    <2>1. UNCHANGED <<kb, held, bytes, handled>>
      BY <1>3, OthersKeepKeys
    <2> QED
      BY <2>1 DEF ModInv, AltSwitches, HeldAt, Held
  <1> QED
    BY <1>1, <1>2, <1>3
----------------------------------------------------------------------------
(***************************************************************************)
(* The theorems.                                                           *)
(***************************************************************************)
LEMMA BootInvariant == Spec => [](KbType /\ ControlInv /\ KeysInv)
  <1>1. Init => KbType /\ ControlInv /\ KeysInv
    BY KbTypeInit, ControlInit, KeysInit
  <1>2. KbType /\ ControlInv /\ KeysInv /\ [Next]_vars => (KbType /\ ControlInv /\ KeysInv)'
    BY KbTypeStep, ControlStep, KeysStep
  <1> QED
    BY <1>1, <1>2, PTL DEF Spec

\* Only a key pressed before init_kb and init_term have run can find no gate
\* or no terminal: enable_irq for the clock unmasks the keyboard (i8259.c), and
\* no other interrupt goes wrong at any time of the boot.
THEOREM EarlyInterrupts == Spec => []EarlyKeysOnly
  <1>1. ControlInv => EarlyKeysOnly
    BY DEF ControlInv
  <1> QED
    BY <1>1, BootInvariant, PTL

\* Whatever interrupts come in whatever order, the end of interrupt of
\* common_isr__handle_pic leaves nothing in service at either controller.
THEOREM InterruptsEnd == Spec => []ServiceEnds
  <1>1. ControlInv => ServiceEnds
    BY DEF ControlInv, ServiceEnds, NoLine, KB_IRQ, RTC_IRQ
  <1> QED
    BY <1>1, BootInvariant, PTL

\* For every keyboard and any number of keys held and bytes waiting, no
\* modifier of kb.c is set with none of its keys held once all bytes are read,
\* and the handler does not wait for a second byte.
THEOREM ModifiersReleased == Spec => []NoStuckModifier
  <1>1. KbType /\ KeysInv => NoStuckModifier
    <2> SUFFICES ASSUME KeysInv, bytes = <<>> PROVE
           /\ ~kb.scan_state
           /\ kb.shift => Down(42) \/ Down(54)
           /\ kb.ctrl => Down(29)
           /\ kb.alt => Down(56)
      BY DEF NoStuckModifier
    <2>1. HeldAt(1) = held /\ PrefixAt(Len(bytes) + 1) = kb.scan_state
      BY DEF HeldAt, PrefixAt
    <2> QED
      BY <2>1 DEF KeysInv, Down
  <1> QED
    BY <1>1, BootInvariant, PTL

\* On every keyboard and with any number of keys held and bytes waiting, F1 to
\* F3 switch terminals if Alt, and no other modifier key, was down when they
\* were pressed, and only then, however late the byte is read: this is the rule
\* of term_key_handler (modifiers == MOD_ALT) for the flags that kb_isr keeps.
\* For a modifier with two keys, which share a flag, only what AltSwitches says.
THEOREM AltKeySwitches == Spec => []AltSwitches
  <1>1. Init => ModInv /\ AltSwitches
    BY KeysInit
  <1>2. KbType /\ ControlInv /\ KeysInv /\ ModInv /\ AltSwitches /\ [Next]_vars
        => (ModInv /\ AltSwitches)'
    BY AltStep
  <1> QED
    BY <1>1, <1>2, BootInvariant, PTL DEF Spec
=============================================================================
