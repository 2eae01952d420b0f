-------------------------------- MODULE Tux --------------------------------
(***************************************************************************)
(* The boot with the serial port (serial.c) to which the Tux controller is *)
(* attached (tuxctl.c).  The controller acknowledges a packet it is sent   *)
(* with a packet of RX_PACKET_SIZE bytes; the port keeps them until they   *)
(* are read, and raises its line if its registers let it.                  *)
(***************************************************************************)
EXTENDS Boot

COM1_IRQ == 4
RX_PACKET_SIZE == 3

VARIABLES
    port,           \* the registers: ier (receive interrupt enabled), out2 (line connected)
    rx,             \* bytes at the port that were not read
    rx_ind,         \* serial.c: bytes of the packet read so far
    owed            \* the controller has a packet it has not acknowledged

serial == <<port, rx, rx_ind, owed>>
tuxvars == <<vars, serial>>

TuxInit ==
    /\ Init
    /\ port \in [ier : BOOLEAN, out2 : BOOLEAN] /\ rx = <<>> /\ rx_ind = 0 /\ owed = FALSE

\* init_serial writes 0 to the interrupt enable register and 3 (DTR and RTS) to
\* the modem control register; the packet of TUX_INIT is then sent.
init_serial ==
    /\ init_tuxctl
    /\ port' = [ier |-> FALSE, out2 |-> FALSE] /\ owed' = TRUE
    /\ UNCHANGED <<rx, rx_ind>>

send_score ==
    /\ show_score
    /\ owed' = (owed \/ ~busy)
    /\ UNCHANGED <<port, rx, rx_ind>>

\* The other steps of the boot, the interrupts of keyboard and clock.
Other ==
    /\ \/ i8259_init \/ init_rtc \/ init_kb \/ init_term
       \/ Handlers \/ Tick \/ \E key \in Physical : KeyMoves(key)
    /\ UNCHANGED serial

Acknowledge ==
    /\ owed /\ owed' = FALSE
    /\ rx' = rx \o <<"MTCP_ACK", "data", "data">>
    /\ UNCHANGED <<vars, port, rx_ind>>

SerialEnter ==
    /\ crash = NoLine /\ sti /\ cpu = NoLine
    /\ rx # <<>> /\ port.ier /\ port.out2 /\ COM1_IRQ \notin masked
    /\ IF COM1_IRQ \in gates
       THEN cpu' = COM1_IRQ /\ sti' = FALSE /\ service' = service \cup {COM1_IRQ} /\ UNCHANGED crash
       ELSE crash' = COM1_IRQ /\ UNCHANGED <<cpu, sti, service>>
    /\ UNCHANGED <<boot, keyboard, rtc, serial>>

\* A byte is read; the first of a packet says what it is, and an
\* acknowledgement clears busy (tuxctl_handle_packet).  The first bytes of
\* the packets here are all MTCP_ACK.
serial_isr ==
    /\ crash = NoLine /\ cpu = COM1_IRQ
    /\ rx' = Tail(rx) /\ rx_ind' = (rx_ind + 1) % RX_PACKET_SIZE
    /\ busy' = (busy /\ rx_ind' # 0)
    /\ cpu' = NoLine /\ sti' = TRUE /\ service' = service \ EndOfInterrupt(COM1_IRQ)
    /\ UNCHANGED <<pc, masked, gates, keyboard, rtc, crash, port, owed>>

TuxNext == init_serial \/ send_score \/ Other \/ Acknowledge \/ SerialEnter \/ serial_isr

\* As in Boot; the controller acknowledges what it is sent, and its interrupt is
\* taken if it goes on reaching the processor between others.
TuxSpec ==
    /\ TuxInit /\ [][TuxNext]_tuxvars
    /\ WF_tuxvars(Handlers /\ UNCHANGED serial) /\ WF_tuxvars(serial_isr)
    /\ SF_tuxvars(SerialEnter) /\ WF_tuxvars(Acknowledge)
    /\ SF_tuxvars(init_serial \/ send_score \/ (Boots /\ UNCHANGED serial))

----------------------------------------------------------------------------
\* "IRQs enabled; Data Ready & Transmit empty" (serial.c:19): the controller's
\* answer is read, so the wait of show_score for it ends.
TuxHeard == busy ~> ~busy \/ crash # NoLine
=============================================================================
