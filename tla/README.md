# TLA+ verification of the kernel in `src/student-distrib`

The program is a small x86 teaching kernel: one CPU, three terminals, at most
`MAX_PROC_NUM` processes, a timer that switches between the terminals, POSIX-like
system calls, signals, a virtualised real-time clock, a line discipline with
editing keys, a read-only file system and a per-process heap. With it come user
programs (`src/syscalls`), of which cat, ls, grep and the 2048 game are modelled.

## 1. Inventory

| Component | Source | State | Operations | Hard part |
|---|---|---|---|---|
| Scheduler / PIT | `scheduling.c` | static `cur_proc_ind`, the esp/ebp pair in each PCB, user page, `tss.esp0`, user video page | `pit_isr` | switches stacks in the middle of a C function; launches shells from inside the handler; `next_pid` may be used uninitialised |
| Process calls | `syscall.c` 12-220 | `pid_used`, PCB (`parent`, `term_ind`), `terms[].cur_pid` | execute, halt | execute returns when somebody else halts; each global is set by hand on both paths |
| Signals | `signals.c`, `idt.c`, `idt_asm.S` | `signals`, `signal_handlers` in the PCB | raise, `check_signals`, `set_handler`, `sigreturn` | a fatal signal halts from inside the return path of an unrelated interrupt |
| RTC driver | `rtc.c` | `rtc_files`, `sys_freq_pow`, per file freq/ratio/count/pos, `time_elasped` | open, close, read, write, `rtc_isr` | read and the update loop of write run with interrupts enabled |
| Descriptors | `syscall.c` 222-311 | `open_files` | open, close, read, write | reuse of a descriptor while someone holds its `FILE*` |
| Heap | `syscall.c` 366-439 | `malloc_objs`, `malloc_obj_count` | malloc, free | merging of neighbours, table limit |
| Terminal: line | `term.c` 49-86, 240-432 | line buffer, cursor, modes | key handler, read | keys arrive while the reader is switched away; every edit is repainted on the screen |
| Terminal: screen | `term.c` 88-238, 471-756 | video memory, cursor, attribute, parser state per terminal; VGA registers | write with escape sequences, putc, scroll, `switch_term` | sequences cut by writes; background terminals; the shared global `cur_term` |
| Keyboard | `kb.c` | modifiers, prefix state | `kb_isr` | two-byte codes over two interrupts |
| File system | `file_sys.c` | read-only image | open, read, directory read | block arithmetic, 32-bit offsets, names without end |
| Interrupt controller | `i8259.c`, `idt_asm.S` | masks, lines in service | `i8259_init`, `enable_irq`, end of interrupt | two cascaded chips |
| Boot | `kernel.c`, `init_*` | gates, interrupt flag | `entry` | interrupts are enabled after the first device |
| Serial, Tux controller | `serial.c`, `tuxctl.c` | busy flag, port registers, buffers | `init_tuxctl`, `show_score`, `serial_isr` | waits for an interrupt nobody enables |
| Paging, descriptors | `page.c`, `x86_desc.S` | tables | set up once | - |
| cat, ls, grep | `src/syscalls/ece391*.c` | position, buffer | loops of reads | a line across two fills of the buffer |
| 2048 | `src/syscalls/2048.c` | board, score, screen | moves, end test, drawing | loops over a flat array; the end test plays on the board |

Interaction: every interrupt and system call enters through an interrupt gate
(`idt.c`), so handlers are atomic except where the code itself executes `sti`:
the wait loops of `term_read` and `rtc_read`, and (unintended) after the critical
section of `rtc_set_pi_freq` (`rtc.c:244`) and at the end of `switch_term`
(`term.c:237`). The keyboard and RTC handlers write the PCB of a process that may
not be running (`signals`); the timer resumes whatever frame a PCB holds.

What makes each part correct:

* scheduler and processes: the running process has its own page and kernel stack;
  a context that will be loaded was saved; execute and halt nest per terminal; the
  shells survive; every terminal gets the CPU;
* signals: a pending Control-C reaches a process that computes;
* RTC: the table lists the open files; no file is faster than the clock (as long as its
  descriptor is used for nothing else); no tick is invented; a blocked read ends;
* heap: unused objects are never neighbours; live objects are disjoint, fill the heap with the
  unused ones and are reclaimed (for programs that free with care: see Heap);
* line discipline: keys do to the line what they say; a read returns the line; the
  screen shows the line, or with echo off nothing of it;
* screen: a terminal shows what was written to it, whatever happens to the others;
* files: reads deliver the file, whole and once; names are found; programs end;
* boot and keyboard: no interrupt comes too early or is never ended; no modifier sticks;
* 2048: moves push lines, the score is earned, the game ends exactly when stuck.

## 2. Modules

| Module | Models | Kind |
|---|---|---|
| `Sched` | `scheduling.c`, execute/halt, signals, Control-C, Alt-F1..F3, alarm | state machine, one action per handler |
| `SchedSti` | `Sched` plus the two windows with interrupts enabled | extension, halt cut into stores |
| `TermStacks` | abstract: a stack of programs per terminal | abstract specification |
| `MCSched` | instances, refinement mapping to `TermStacks` | TLC |
| `SchedProofs` | theorems about `Sched` | TLAPS |
| `RtcProofs`, `HeapProofs`, `TermProofs`, `TerminalsProofs`, `BootProofs` | theorems about the module of that name (`Console` in `TermProofs`) | TLAPS |
| `ProgramProofs` | theorems about `FileTools` and `Game2048` | TLAPS |
| `Induction` | induction and recursion on numbers, as lemmas about sets and functions | TLAPS |
| `Rtc`, `MCRtc` | `rtc.c` with the descriptors it uses | state machine with program counters |
| `Heap`, `MCHeap` | `syscall_malloc`, `syscall_free` | state machine |
| `Term` | `term_read`, editing keys, `addch`, `delch` | state machine |
| `LineEditor` | abstract: a text cut in two at the cursor | abstract specification |
| `Screen` | setpos, clear, scroll, back, forward, putc, puts | operators on a screen |
| `Console`, `MCTerm` | `Term` composed with `Screen`: echo and repainting; instance, refinement mapping to `LineEditor` | composition |
| `Terminals`, `MCTerminals` | `term_write`, `esc_parse`, `esc_funcs`, `switch_term` over `Screen` | state machine |
| `FileSys` | `file_sys.c` and the descriptor calls of `syscall.c` | operators on image and table |
| `FileTools`, `MCFileTools` | any program, cat, ls or grep over `FileSys` | state machine |
| `Game2048` | `2048.c` | state machine |
| `MCPrograms` | a process that runs one of the programs above | TLC |
| `Keyboard` | `kb.c` | operators on its static variables |
| `Boot`, `MCBoot` | `entry()` with `i8259.c`, keyboard, clock, `tuxctl.c` | state machine over `Keyboard` |
| `Tux`, `MCTux` | `Boot` with `serial.c` and the controller's answers | extension of `Boot` |

### Sched

A process is its pid. The variables are the globals and PCB fields of the same
name. Three things are abstracted:

* `cur` and `mode` say on whose kernel stack the CPU is and what it does there
  (user code, a wait loop, the return path, the tail of `pit_isr`);
* `page`, `esp0` and `vid` hold the owner of the mapped user page, of the stack in
  the TSS and of the user video page instead of addresses;
* `frame[p]` says what the esp/ebp saved in PCB `p` points to: the end of
  `pit_isr`, the `_syscall_execute("shell")` call inside `pit_isr`, an execute
  call that waits for its child, or nothing that may be resumed. Loading the wrong
  kind leads to mode `wild`, from which nothing is said.

`Tick` is one timer interrupt: `PitLaunch` (no process yet, start the shell),
`PitNoPid` (no pid left), `PitSame`, `PitSwitch`. A context that launched a shell and
is resumed continues behind line 51 of `scheduling.c` with `next_pid` never
assigned: `FallThrough` takes any value of the constant `UNINIT`. `HaltCur` is
shared by the system call and by `CheckSignals`, as `_syscall_halt` is. The faulty
variants next to some definitions (`HaltCur_keepEsp0`, ...) are not part of the
specification; they are used to see that the properties notice such a mistake.

Not in `Sched`: parsing and copying of the image (data), the register frame that
`check_signals` builds on the user stack, `sigreturn` (it returns to user mode like
`OtherTrap`). The initial state is the idle loop at the end of `entry()`; the
memory of PCB 0 is taken to be zero and the shell image to be valid.

`MCSched` maps this to `TermStacks`: the stack of a terminal is the chain of parents of its
foreground process (`Chains`, a recursive function of at most `MAX_PROC_NUM` steps).

### SchedSti

`rtc_set_pi_freq` and `switch_term` end with `sti()`. On the way out
`check_signals` runs with interrupts enabled and may call `_syscall_halt`, which is
cut here into its five stores.

### Rtc

Each process has a program counter and the locals of its call. A call is one step
except where interrupts are enabled: the wait loop of `rtc_read` and the update loop
of `rtc_set_pi_freq`, where every load and store of shared state is a step: the slot
(`update_slot`), the frequency of the file it points to (`update_freq`), the system's
frequency (`update_ratio`), the two stores. Frequencies are exponents of two, and `Pow2` is
the shift that turns them into counts. The ratio is a difference masked to its field
(`Ratio`, `MSK_5`), so it wraps where the code's does. The inode number of a regular file is
any of `RegInodes`, read as the same fields; a file system has fewer than 2^10 inodes, so
their count field is 0. `credit` is a history variable, the virtual ticks of a file that no
read has consumed, and `everReg` another, the descriptors that have held a regular file. That
`init_rtc` programs 8192 Hz while it records 2 Hz is outside the model, which counts interrupts
and not seconds.

Two preempted update loops can leave a ratio that belongs to an older system frequency;
`FreqCovered` states what still holds then. It is stated for descriptors that have only held
RTC files. A loop that has loaded `rtc_files[i]` may find a regular file behind the pointer
when it loads the frequency, and an RTC file again when it stores: the bits of an inode number
then become a frequency that may be above the clock, and the ratio wraps, against `rtc.c:97-98`
("the s_freq is always being a multiple of u_freq"). The model has these executions; without the
exception of `everReg` TLC refutes `FreqCovered` with one of them.

### Heap

`Addresses` is the sum the loops keep in `obj_ptr`. The table of objects has one cell more, the
first bytes of the heap, into which the shift loop of `syscall_malloc` stores when the table has
one entry left. A program keeps what it allocates in `Pointers` and may free them in any order:
`Spec`. Under it `syscall_free` is wrong in three ways: merging with the unused object in front
it adds the size of the object behind (`syscall.c:426`); it merges the last object with an entry
outside the table; and a request for 0 bytes, or the rest of size 0 of a split, has the address
of the next object, which is then not found. `heap_within` shows that the heap outgrows the 256K
that `syscall.h:10` promises. What `syscall.h:11` promises, that unused objects are never
neighbours, holds of every program all the same (`UnusedApart`; the theorem is about `Spec`):
every free merges on both sides, however wrong the sizes.

`CarefulSpec` is as much of `Spec` as leaves the sizes right: a program that never asks for 0
bytes and frees an object only while the one in front of it is in use and something is behind it.
Holes are made, reused whole (requests that are multiples of the block size included), split and
merged with the hole behind, in any order. `Disjoint`, `Tiled` and `Reclaimed` are about it.

### Term

The line buffer of one terminal. Keys come at any time; the reader is in user code or
in `term_read`. The cells behind `term_buf_count` are never read, so deleting k
characters is one shift by k. Keys typed after Return and before the reader runs
still edit the line; `LineEditor` says so too, because that is what the code does. `buf` is
what the read in progress, or the last one, has stored in the caller's buffer.

### Screen, Console, Terminals

A screen is a record: the memory `video_mem` points to, cursor, attribute, whether it is
displayed, and the VGA cursor registers. Each function of `term.c` is an operator from
screens to screens with its name, so `Console` and `Terminals` use the same `putc`.

`Console` takes the actions of `Term` and adds to each what `addch`, `delch` and the
cursor keys do to the screen. The history variable `echoed` says that the whole line was
typed with echo on and nothing else was printed into it; without that the screen cannot
show the line. Control-C is such a case: it prints `^C` and leaves the line buffer alone
(two commented lines in the code would have cleared it). Output of the program is any
character, newline, carriage return and backspace included. `ConsoleAssumption` says that a
full line fits on the screen from any column (127 characters, 25 rows of 80) and that no key
is a character that moves the cursor (`kb.c` codes Return and Backspace from 0x80 on).

`Terminals` has several terminals with one `video_mem` and a background buffer each.
`View` is a terminal together with the memory it points to and the VGA registers (`Seen`
builds the record), and `WriteBytes` is the loop of `term_write` over the bytes.
A write is one step, because it runs with interrupts off. Bytes are characters; digits,
`[`, `;`, the escape and the final letters are told apart. `ShowsWhatWasWritten` compares
with `Alone`, which says what the bytes mean without a parser: by the position of the last
escape, the first bracket behind it and the first final byte. An escape without a bracket
does not swallow what follows (it is printed), as the code has it.

### FileSys, FileTools

The image is a constant: entries, inodes, blocks. `read_data` keeps its 32-bit sum and its
signed copy of the length (`WORD` is the modulus); `Places` is the block and the offset
where its loop finds each byte. `FileTools` runs one process with a
descriptor table: prog "any" makes any sequence of calls, the others are the loops of the
programs, one step per system call (in grep also one per line of the buffer). The
byte grep looks at behind what it has filled is uninitialised at first: `junk`, a choice.
If it happens to be a newline a line across the buffer is cut in two, so `GrepFindsLines` is
stated for the other values. `ece391_strcpy` and `ece391_fdputs` stop at a NUL (`FirstNul`): a
line with one is moved and printed only up to it, so `GrepFindsLines` is about files without NUL
(`Searchable`), whatever the other files of the directory hold; it is also about lines that fit the buffer
and names that do not begin with a dot, which grep skips.

`OpenedFile` is what `fs_open` or `rtc_open` stores: for the RTC the packed ratio and the
countdown (`RTC_INODE`, `RTC_POS`), not the inode of the entry. `open` returns the index of the
descriptor for the RTC too, where the comment at `syscall.c:262-265` says 0.

### Game2048

The board, the rounds of `move_tile` (six passes over pairs of neighbours in the order of the
loops), `check_end` with its four moves on the board, the main loop from key to key. Random
numbers are choices. `BoardAssumption`: a board of up to 4 by 4, the code's size, since four shift
passes are enough for lines of four and no more; and no move once a tile is 4096 (`MaxTile`),
since `print_tile` has no case for what would come of it. Drawing is modelled by the strips of the screen each `printf` covers,
for the 4 by 4 board of the code, and by what was drawn last.

### Keyboard, Boot

`kb_isr` maps the static variables and a byte to new variables and the keys
`term_key_handler` is called with. `Boot` runs `entry()` step by step; the keyboard
(keys held, bytes not yet read), the clock and the two controllers (masks, lines in
service, priorities) are the environment, modelled as external. An interrupt whose gate is
not present, or a key handled before `init_term`, is `crash`. `term_key_handler` switches
terminals for `modifiers == MOD_ALT`, Alt and nothing else, and `AltSwitches` says when the flags
come to that. Two keys for one modifier share its flag, and releasing one clears it while the
other is held: the property takes both shift keys into account. The handler of a key is one step;
in the code `switch_term` ends with `sti` (`term.c:237`). Until its end of interrupt the keyboard's
line keeps the clock's out; behind it (`idt_asm.S:151`) an interrupt may nest in the way back,
`check_signals` and `iret`. `Boot` leaves this out; what it does to a halting process is `SchedSti`.

`enable_irq` for a line of the slave unmasks bit 1 of the master, the keyboard, because
`ICW3_SLAVE` is the number 2 and not a mask, where `i8259.c:48` says "the specified IRQ"
(`init_rtc` enables line 2 itself, so the clock works). A key pressed between `init_rtc` and `init_kb` then meets a gate that is not
present. `EarlyKeysOnly` does not rule this crash out, nor that of a key between `init_kb` and
`init_term`: it says that nothing else stops the boot.

`show_score` waits until `busy` is cleared, which `serial_isr` would do on the acknowledgement
of the packet before. `Tux` adds the serial port (its interrupt enable and the OUT2 bit of its
modem control register), the controller, and `serial_isr` under the conditions of its interrupt.
`boot_tux` shows that the answer is never read: `init_serial` writes 0 to the one register
and 3 to the other, its comment notwithstanding, and nobody unmasks line 4. (With port, line and gate
enabled the same property holds.) At this commit `tuxctl.c` includes `mtcp.h`, which the
repository does not hold; `Sched` starts behind the boot.

## 3. Runs

| Run | Bounds | Checks |
|---|---|---|
| `sched_safety` | 3 pids, 2 terminals, any `next_pid`, fault, Control-C and alarm, handlers for Control-C | `AddressSpace`, `ForegroundSaved`, `CallChains`, `RootsStay`, `OnlyUninitGoesWild` |
| `sched_terminals` | 3 pids, 2 terminals, any `next_pid`, Control-C as the only signal (`RaisedSigs = {2}`); the two liveness properties hold until the kernel resumes a context that was never saved (`~Sane`), which `OnlyUninitGoesWild` traces to `next_pid` | `ImplementsStacks`, `EveryTerminalRuns`, `CtrlCDelivered` |
| `sched_sti` | | `OwnAddressSpace` is violated: a tick inside halt |
| `rtc_safety` | 3 processes with a descriptor each, 2 slots, 2 and 4 Hz, inode numbers that read as frequency 0 and as the highest, one pending tick | `TypeOK`, `SlotsMatch`, `FreqCovered` |
| `rtc_live` | 2 processes, 2 slots, otherwise the same, two pending ticks | `NoPhantomTick`, `ReadReturns` |
| `heap_careful` | `CarefulSpec`, 6 blocks of 2 bytes, 5 entries, 4 pointers, 4 sizes | `UnusedApart`, `Disjoint`, `Tiled`, `Reclaimed` |
| `heap_within` | `Spec`, 4 blocks of 2 bytes, 4 entries, 3 pointers, 4 sizes with 0 | `WithinHeap` is violated: the merge with the object in front |
| `console` | 3 characters, a letter and a blank, screen of 2 rows of 3 | `TypeOK`, `ImplementsEditor`, `EachKey`, `ReadEnds`, `LineOnScreen`, `NoEchoHides` |
| `terminals_write` | 2 terminals of 2 by 2, 19 pieces of text and sequences, 3 writes | `ShowsWhatWasWritten`, `PlainText`, `CursorOfDisplayed` |
| `programs` | files: blocks of 2, names of 2, 2 descriptors, words of 4 bits, buffer of 3, all texts of length 0, 2 and 5, those of length 4 with NUL bytes; game: 2 by 4, tiles up to 8 | `Streams`, `OpenByName`, `PrintsAll`, `GrepFindsLines`, `ProgramsEnd`; `MoveIsPush`, `LostIsStuck`, `ScoreIsEarned`, `DrawnIsPlayed` |
| `boot_keys` | 8 keys, 3 held, 2 bytes in the keyboard | `EarlyKeysOnly`, `ServiceEnds`, `NoStuckModifier`, `AltSwitches`, `KeysAreRead` |
| `boot_tux` | 1 key | `TuxHeard` is violated: the port's interrupt is off |

Why the bounds are enough to meet the interesting cases: with three pids and two
terminals one terminal can run a program over its shell while the other has its
shell, and the table can be full both for execute and for a shell launch; every
pair of handlers meets. Two frequencies make a raise and a stale update; that any number of
raises over each other keeps `FreqCovered` is left to the proof. Three processes on two slots fill the
table. A buffer of three characters holds a word, a blank and a word.
On a screen of 2 rows of 3 a full line wraps, and scrolls when it starts low. Three writes
open, continue and end a sequence on one terminal, or interleave with another. A text of 5
bytes has three blocks and two fills of grep's buffer; words of 4 bits make `length +
offset` wrap. Rows of four are the code's, two of them make columns that are not lines of
the array; tiles up to 8 reach the goal of the instance, merges in series and a full
board. Two bytes put a prefix and its code, or the codes of two keys, in the keyboard at once, three held
keys a function key with Alt and another modifier. Four pointers over six blocks make two holes
with objects between, and fill table and heap.
Deadlock is checked except where the program may end (`programs`) or an early
key stops the kernel (the boot runs); a stopped machine and mode `wild` are explicit
stuttering steps. Symmetry over the processes (`rtc_safety`) and over the
pointers of a program (the heap runs) is used where no liveness is checked.

`ImplementsEditor` allows any editing step where a key makes one; `EachKey` ties each
key to its own step.

### Fairness

* `SF(Tick)`: the PIC latches the timer interrupt, so one that becomes possible again
  and again (interrupts are off in between) is taken; the handlers all terminate.
* `WF(FallThrough)`, `WF(CheckSignals)`: kernel code with interrupts off goes on.
* `Rtc`: `WF(rtc_isr)`, the clock ticks; `WF` of the steps inside a call, because
  `EveryTerminalRuns` says a process in a call is scheduled again and again.
* `Console`: `WF` of the end of a read, for the same reason.
* `FileTools`: `WF` of the program's next step, for the same reason.
* `Tux`: also `SF` of the serial interrupt and `WF` of the controller's answer.
* `Boot`: `WF` of taking an interrupt and of its handler; `SF` of the steps of `entry()`, which
  interrupts interrupt again and again but, being finite, always return to.

Nothing is assumed of programs or of users: a process need not make a call, a key need
not be pressed.

### What the code does not do

Observed while modelling, besides what the violation runs show (`sched_sti`, `heap_within`,
`boot_tux`), and visible in the modules:

* `scheduling.c:34` promises round robin; a context that launched a shell is resumed with
  `next_pid` never assigned (`FallThrough`), and with 0 the idle loop gets the turn of a
  terminal that has a process.
* `391_Bug_Log.txt:21-22` records that programs no longer draw on other terminals; only
  `pit_isr` sets the user video page, so after Alt-F a program draws on the displayed
  screen until its next time slice (`AltF` leaves `vid` alone).
* `rtc.c:53` says the system frequency is the maximum over the open files; `rtc_close`
  starts its search at `(uint32_t) -1` and never lowers it.
* `rtc.c:184` calls `reset_rtc_info` interrupt-safe; called from the update loop it may write
  into a descriptor that by now holds a regular file (`update_inode`, `update_pos`), or store the
  bits of an inode number as the frequency of an RTC file (`rtc.c:250-251`, `update_freq`).
* `syscall.c:264` says that `open` returns 0 for an RTC file; it returns the descriptor (`Open`).
* `i8259.c:67` unmasks the keyboard, before its gate is made, when a line of the slave is enabled
  (`enable_irq`).
* `syscall.c:345` lets `signum == SIG_SIZE` pass and stores behind `signal_handlers`; `SetHandler`
  of `Sched` has the signals that exist.
* In the middle of a line with echo off a deletion repaints the tail (`term.c:422`); `NoEchoHides` is
  about the end of the line, where the cursor is unless it was moved.
* `kb.c:149`: with Caps Lock on, Control and Alt do nothing to letters; F11 and F12 pass a key
  that was never assigned.

## 4. Proofs

Every theorem holds for all values of the constants that satisfy the `ASSUME` of the
module it is about; TLC evaluates the same assumptions on the instances of section 3.

| Module | Theorem | States |
|---|---|---|
| `SchedProofs` | `TypeCorrect`, `RunsInOwnAddressSpace`, `ForegroundAlwaysSaved`, `CallChainsHold` | `TypeOK` of `Sched`, `AddressSpace`, `ForegroundSaved`, `CallChains` |
| | `RootsAlwaysStay`, `WildOnlyFromUninit` | the action properties `RootsStay`, `OnlyUninitGoesWild` |
| | `StacksImplemented` | the refinement `ImplementsStacks` of `TermStacks` |
| | `ZeroIsHarmless` | if the indeterminate `next_pid` is always 0, no context that was never saved is loaded |
| `RtcProofs` | `RtcTypeCorrect`, `SlotsNeverLeak`, `FrequenciesCovered`, `ReadsRealTicks` | `TypeOK`, `SlotsMatch`, `FreqCovered`, `NoPhantomTick` |
| `HeapProofs` | `UnusedNeverMeet` | `UnusedApart` of `Spec`, any program |
| | `ObjectsDisjoint`, `HeapTiled`, `HeapReclaimed` | `Disjoint`, `Tiled`, `Reclaimed` of `CarefulSpec` |
| `TermProofs` | `TermTypeCorrect`, `TermRefinesEditor`, `EachKeyDoesItsEdit` | `TypeOK`, the refinement `ImplementsEditor`, `EachKey` |
| | `LineIsOnScreen`, `NoEchoShowsNothing` | `LineOnScreen` and the action property `NoEchoHides` of `Console` |
| `TerminalsProofs` | `CursorFollows`, `WritesAreApart` | `CursorOfDisplayed`, and the action property `OthersKept` |
| | `PlainTextShown`, `WrittenIsShown` | `PlainText`, `ShowsWhatWasWritten` |
| `ProgramProofs` | `FilesStream`, `FoundByName`, `ProgramsPrintAll` | `Streams`, `OpenByName`, `PrintsAll` |
| | `MovesPush`, `LostWhenStuck`, `ScoreAlwaysEarned`, `DrawnAsPlayed` | `MoveIsPush`, `LostIsStuck`, `ScoreIsEarned`, `DrawnIsPlayed` of `Game2048` |
| `BootProofs` | `EarlyInterrupts`, `InterruptsEnd`, `ModifiersReleased`, `AltKeySwitches` | `EarlyKeysOnly`, `ServiceEnds`, `NoStuckModifier`, `AltSwitches` |

### Sched

For every `MAX_PROC_NUM` in 2 .. 256, every number of terminals and every set of values of
the uninitialised `next_pid`. None of the safety properties is inductive alone. A halt loads
the frame of the parent, so one must know that the parent holds an execute frame
(`ParentInv`); a tick loads the frame of a foreground process, so it must hold one a tick
saved (`ForegroundInv`), which for a process that became foreground by a halt follows from
its being the running one (`RunningInv`); that a pid is free only if nobody waits for it
needs `WaitingInv`; and the idle loop, to which an uninitialised 0 leads, must be resumable
and never in user mode (`IdleInv`). The proof has one step per action; execute and the shell
launch share the lemmas about `StartTask`, call and signal those about `HaltCur`.

For the refinement, `StacksInv` describes the stacks without recursion: the top of a stack is
the foreground process, each element is the parent of the next, all are used and of this
terminal, and none stands twice. A sequence with these properties is the chain of parents
(two of them with the same top are equal, and none is longer than `MAX_PROC_NUM`), so it is
enough to show that execute appends to it, that halt cuts its last element off and that
everything else leaves it alone.

### Rtc

For any set of processes, numbers of descriptors and slots, and frequencies. The hard part is
the update loop, which works with a frequency and a slot it read before other processes ran:
`UpdateInv` says what is still true of its locals. On a descriptor that has only held RTC files
the frequency it reads, and then holds, is one the system frequency covered, closed and reopened
files included, and the system frequency never falls; hence the ratio it stores is the true
difference even when stale. For the others only `TypeOK` is left: every field stays within its
bits, and the wrapped ratio with it. `ReadInv` says that nobody else closes or reads the file a blocked
process waits on, so a count it has seen is still there when it takes it; `TableInv` relates
slots and open files one to one; `StopInv` is about a full table, and that a full table of
different files has `MAX_PROC_NUM` of them is a bijection between slots and files.

### Heap

For every size of heap, table and block, and every set of requests and pointers. `UnusedNeverMeet`
is about any program. Its invariant is little more than the property, since a split puts a used
object in front of the rest and a free leaves one unused object for up to three; what needs care
are the indices the shift loops move.

`Disjoint`, `Tiled` and `Reclaimed` follow from `CarefulInv`: the used entries of the table are the
live objects, one each and none empty (`Owned`), the sizes add up to the heap (`Tiled`), and no two
unused entries meet (`UnusedApart`). The last is needed for the others: a hole that is merged must
have a used entry behind it, or the table with everything freed would have several. The
addresses are a recursive sum over the table, of which the proof needs that it depends only on the
entries before an index and never falls; the lemmas about `Split` and `Freed` give the address of
every entry after them.

### Term

For every buffer size and alphabet. The mapping sends the buffer to the pair of texts before
and behind the cursor. A shift loop is a new buffer whose cells agree with those of the old
one further on; the lemmas on `Text` (join, part, append, equal cells) turn that into
statements about sequences, once, and each key is then a few lines. `TypeOK` is inductive. The
abstract editor states no fairness, so the refinement is a step simulation; `ReadEnds` stays
with TLC.

### Console

For every line, screen and alphabet that meet `ConsoleAssumption`. `ConsoleInv` strengthens
`LineOnScreen`: the cursor is on the screen, the characters of the line do not move it, and an
echoed line stands around it in consecutive cells with room for the cursor behind it. `puts` is
described in one lemma: the text stands in consecutive cells, after a number of scrolls that
move everything up. `addch` prints the rest of the line behind the new character and goes back;
`delch` prints it one cell earlier with a blank; both leave the cells before the cursor alone, or
moved up by whole rows. `NoEchoHides` is the same argument about cells: a key with echo off at
the end of a line only prints blanks.

### Terminals

For every number of terminals and size of the screen, and every set of texts. Each operator of
`Screen`, each escape sequence and each state of the parser is shown to keep a view of a terminal
a view (`Keeps`): the cursor ends on the screen, it takes the cursor of the monitor along if and
only if the terminal is displayed, and the terminal stays where it is in memory. `EnterRow`
needs a wider set of views, because it scrolls with the cursor one row below the screen. The
loop over the bytes is a recursive function, and the fact is carried through it by induction.
The invariant is `TerminalsType` with `CursorOfDisplayed`, which says that just the displayed
terminal is in video memory; without it a write in the background could reach another
terminal's memory and `OthersKept` would not follow. `TerminalsType` has the memory hold
characters with an attribute of one byte, so the arithmetic of the color sequences is proved to
stay in a byte. (`OthersKept` is the step form of what `ShowsWhatWasWritten` says of other terminals.)

`PlainText` compares with a sheet without an end. `Paper` says that a view shows the last rows of
it: the cursor is where the sheet has it, minus the rows scrolled off, and each cell holds what
was last put into its place of the sheet, or the blank it was cleared to. Each character keeps
it; a scroll moves the window by one row.

`ShowsWhatWasWritten` is in three parts. First, what an operation shows depends on what is shown
and on the parser, and not on where the terminal is in memory or on the monitor (`Alike`), so each
terminal is like a terminal of its own that was fed the same bytes, and two writes are one write of both
texts (`FedInv`, the inductive invariant). Second, `Stage` relates the state of the
parser after a byte to positions: idle if the last escape was followed by no bracket or has
met its final byte, and otherwise the arguments collected so far are those between the bracket
and here (`Collected`; the arguments are cut at the semicolons, which is a statement about the
n-th smallest element of a set). Third, by induction along the bytes, what each byte does is what
`Alone` says that it means (`FedIsAlone`).

### Files

For every image, block size, word size and set of lengths and names. `ImageAssumption`: names
of the image fill their field, are not empty and are padded with NUL; sizes are below half the
word, which an inode's `MAX_BLOCK_NUM` blocks of 4K guarantee. `CallsAssumption`: the lengths of
a read are words and the names asked for end with NUL. The loop of `read_data` decides by a
remainder when to go to the next block; `Places` is shown to be quotient and remainder of the
position at every byte, by induction, and so the bytes of a read are the next ones of the file.
That `length + offset` may wrap is covered: the result is then not the whole request, and still
a piece of the file. For names, `strncmp` over `MAX_NAME_LENGTH` bytes is shown to be
equality of the characters before the first NUL.

`ToolInv` is the invariant of cat and ls: they hold open the entry they asked for, and have
printed the file, or the lines of the names, as far as its position says; they leave their loop
only at the end (`FileReads`, `NameReads`). `FlattenMore` adds a line to what ls has printed.
`ToolsAssumption`: the buffer is below half the word (1024 bytes in the code), an argument ends
with NUL, no two files have the same name, and the file called `.` is the directory. With two
files of one name cat prints the first, and `ls` takes it for granted that `.` is a directory.

### 2048

For every board of up to 4 by 4, goal, random tile and sequence of keys. `GameInv` is the inductive
invariant: every tile has a value `print_tile` knows, the sums of `ScoreIsEarned`, not all tiles
empty, lost if stuck, and shown is what is played. `move_tile` is a chain of `6 * Rounds` rounds
(`MoveIs`), and everything is shown for one round and carried along the chain:

* A round that leaves a full board did nothing, since each change leaves an empty tile
  (`DoesFull`). So a move that changed the board leaves room for `place_tile`, and on a full board
  the four tries of `check_end`, made one on top of the other, end where they began exactly if
  each of them alone changes nothing (`EndIsStuck`).
* A round makes the board higher, read from the edge, or leaves it (`GoesHigher`). So a move that
  ends with the board it began with changed nothing on the way; with an empty tile on the board
  some direction then moves something unless all are empty (`StuckEmpty`), which a game never is.
* In the merge pass the tiles still to be visited have not been merged (`Ahead`, `DoesValued`), so
  no tile merges twice and all values stay powers of two up to 4096.
* A round touches a line only in the turn of one of its pairs, and the turns come in order from
  the edge (`RoundTurn`, `RoundElse`), so a pass over the flat array does, on each line, one pair
  after the other (`PassOnLine`, `MoveOnLine`). Shorter lines are taken as lines of four ended by
  empty tiles. A shift pass takes out the first gap, so four gather the tiles in their order
  (`ShiftGathers`, `FourPasses`); the merge pass and the last shift then agree with `Packed` and
  `Pushed` (`LastPasses`, `LinePushed`). With the rows and columns placed in the array
  (`LinesAre`), `MovePushes` is `MoveIsPush` for one direction.
* Sums over the board are a recursive function; a round changes two of its terms (`TotalTwo`), and
  what a merge adds to `Worth` is what it adds to the score (`GoesAccounts`).
* The strips of two tiles, the border and the texts are kept apart by quotient and remainder of
  the tile's number (`AreasApart`).

### Boot

For every keyboard whose scan codes are 1 .. 127 without 96 (a byte 0xE0 is only a prefix;
`BootAssumption`) and any bound on held keys and waiting bytes. `ControlInv` ties the line in
service to the handler that runs, and the gates to the step of `entry()`. The keys are an
induction along the bytes: `Sent` says that each byte in the keyboard tells of one change of the
keys held, `HeldAt` and `PrefixAt` what the situation was when it was sent, and `KeysInv` that the
flags of `kb.c` agree with the keys held at the first byte not yet read. That a modifier set
means a key held holds on every keyboard; the converse holds of each modifier with one key
(`Single`, `ModInv`), and both together give `AltSwitches` (`ExactMoves`, `SwitchesIf`).

### Induction

The provers cannot use the library's induction rules, whose parameter is an operator. `UpTo` and
`Recursion` state induction and definition by recursion for sets and functions, and are proved
from the well-foundedness of the numbers; with them `Pow2`, `Addresses`, `Places`, `atoi` and
`WriteBytes`, `puts`, the chains of parents, the sheet, `Alone`, `FlattenSeq`, `move_tile`, `Total`,
`Packed` and `Pushed`, which are recursive functions, are in reach.

### Only model-checked

* Liveness: `EveryTerminalRuns`, `CtrlCDelivered`, `ReadReturns`, `ReadEnds`, `ProgramsEnd`,
  `KeysAreRead`. The prover has no fairness.
* `GrepFindsLines`: that the lines across two fills of the buffer are put together again.

## 5. Plan

Done: the core (`Sched`, `Rtc`, `Heap`, `Term`), then screen, console, terminals, files with
their programs, the game, keyboard and boot; then the proofs of section 4.

1. Prove: `GrepFindsLines` of `FileTools`.
2. Compose: `Sched` with `Rtc` (alarm, who is scheduled inside the update loop).
3. Model: signal contexts on the user stack and `sigreturn`.

## 6. Not modelled

`boot.S`, the descriptor tables and the multiboot checks; the fixed page tables of
`init_page`; the kernel's own `printf`, used for the messages of exceptions; the bytes of the
packets of the Tux controller and its buttons; `disable_irq`, which nothing calls;
test code; the vendored `printf.c`; the user programs that only make one call after another
(shell, counter, pingpong, hello, sigtest, syserr, fish), whose calls the models allow at
any time; the emulation of the calls on Linux (`ece391emulate.c`), a test harness.
