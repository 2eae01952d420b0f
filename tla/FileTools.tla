----------------------------- MODULE FileTools -----------------------------
(***************************************************************************)
(* A process that uses the file system: one of the programs cat, ls and    *)
(* grep (syscalls/ece391*.c), or any program at all.  An action is one     *)
(* system call with what the program does until the next, or, in grep, one *)
(* line of the buffer.                                                     *)
(***************************************************************************)
EXTENDS FileSys

CONSTANTS
    BUFSIZE,        \* the buffers of cat and grep
    NL, DOT,        \* newline and '.'
    Names, Lengths, \* what any program opens, and how much it reads
    AnyImages,      \* the images it meets (some of Images)
    Args,           \* the arguments of cat and grep; <<>> if there are none
    MaxOut          \* bound: ls stops after so many bytes

\* A name is a string; a length is an unsigned number.
ASSUME CallsAssumption ==
    /\ AnyImages \subseteq Images /\ Lengths \subseteq 0 .. WORD - 1
    /\ \A name \in Names : IsSequence(name) /\ name # <<>> /\ name[Len(name)] = NUL

\* The programs: the buffer is far smaller than an int32, an argument is a
\* string, no two files of the directory have the same name, and the one
\* called "." is the directory.
ASSUME ToolsAssumption ==
    /\ BUFSIZE \in 1 .. WORD \div 2 - 1 /\ DOT # NUL
    /\ \A a \in Args : a # <<>> => IsSequence(a) /\ a[Len(a)] = NUL
    /\ \A disk \in Images : \A d, e \in Range(disk.dentries) :
          /\ Characters(d.filename) = Characters(e.filename) => d = e
          /\ Characters(d.filename) = <<DOT>> => d.filetype = "dir"

VARIABLES
    prog, args, pc, out,
    v,              \* the variables of grep
    junk,           \* what an uninitialized byte holds
    call,           \* the last call of any program, and its result
    got             \* history: what was read from a descriptor since it was opened

vars == <<image, files, prog, args, pc, out, v, junk, call, got>>
fixed == <<image, prog, args, junk>>

NoCall == [op |-> "none", name |-> <<>>, fd |-> 0, n |-> 0, ret |-> 0]

Init ==
    /\ image \in Images /\ files = [fd \in Fds |-> NoFile]
    /\ prog \in {"any", "cat", "ls", "grep"} /\ args \in Args /\ junk \in {NUL, NL}
    /\ prog \in {"any", "ls"} => args = <<>>
    /\ prog = "any" => image \in AnyImages
    /\ prog # "grep" => junk = NUL
    /\ pc = "start" /\ out = <<>> /\ call = NoCall /\ got = [fd \in Fds |-> <<>>]
    /\ v = [dir |-> 0, fd |-> 0, fname |-> <<>>, data |-> <<>>, last |-> 0, cnt |-> 0, start |-> 0]

strlen(s) == CHOOSE n \in 0 .. Len(s) - 1 : s[n + 1] = NUL /\ \A i \in 1 .. n : s[i] # NUL

syscall_getargs(nbytes) == IF args = <<>> \/ nbytes < strlen(args) + 1 THEN -1 ELSE 0

Exit(code) == pc' = code /\ UNCHANGED <<files, out, v>>

(***************************************************************************)
(* Any sequence of calls.                                                  *)
(***************************************************************************)
Open(name) ==
    LET r == syscall_open(files, name)
    IN  /\ files' = r.files
        /\ call' = [NoCall EXCEPT !.op = "open", !.name = name, !.ret = r.ret]
        /\ got' = IF r.ret = -1 THEN got ELSE [got EXCEPT ![r.ret] = <<>>]

Read(fd, n) ==
    LET r == syscall_read(files, fd, n)
    IN  /\ files' = r.files
        /\ call' = [NoCall EXCEPT !.op = "read", !.fd = fd, !.n = n, !.ret = r.ret]
        /\ got' = IF r.ret <= 0 THEN got
                  ELSE [got EXCEPT ![fd] =
                          IF files[fd].type = "dir" THEN Append(@, r.bytes) ELSE @ \o r.bytes]

Close(fd) ==
    LET r == syscall_close(files, fd)
    IN  /\ files' = r.files
        /\ call' = [NoCall EXCEPT !.op = "close", !.fd = fd, !.ret = r.ret]
        /\ UNCHANGED got

AnyCall ==
    /\ prog = "any"
    /\ \/ \E name \in Names : Open(name)
       \/ \E fd \in Fds \cup {TASK_MAX_FILES}, n \in Lengths : Read(fd, n)
       \/ \E fd \in Fds \cup {TASK_MAX_FILES} : Close(fd)
    /\ UNCHANGED <<fixed, pc, out, v>>

(***************************************************************************)
(* cat and ls.                                                             *)
(***************************************************************************)
\* Open the file, or leave with an exit code.
Begin(name, code) ==
    LET r == syscall_open(files, name)
    IN  IF r.ret = -1 THEN Exit(code)
        ELSE /\ files' = r.files /\ pc' = "read" /\ v' = [v EXCEPT !.dir = r.ret]
             /\ UNCHANGED out

CatStart == IF syscall_getargs(BUFSIZE) # 0 THEN Exit("exit3") ELSE Begin(args, "exit2")

\* One round of the loop: r is what the read did, written is printed.
CopyUnless(ended, r, written) ==
    IF ended THEN Exit("exit0")
    ELSE IF r.ret = -1 THEN Exit("exit3")
    ELSE files' = r.files /\ out' = out \o written /\ UNCHANGED <<pc, v>>

\* Faulty variant: a read that does not fill the buffer is taken for the end.
Copy_short(r, written) == CopyUnless(r.ret < BUFSIZE, r, written)

Copy(r, written) == CopyUnless(r.ret = 0, r, written)

Cat ==
    /\ prog = "cat"
    /\ \/ pc = "start" /\ CatStart
       \/ pc = "read" /\ LET r == syscall_read(files, v.dir, BUFSIZE)
                         IN  Copy(r, SubSeq(r.bytes, 1, r.ret))
    /\ UNCHANGED <<fixed, call, got>>

Ls ==
    /\ prog = "ls"
    /\ \/ pc = "start" /\ Begin(<<DOT, NUL>>, "exit2")
       \/ /\ pc = "read" /\ Len(out) <= MaxOut
          /\ LET r == syscall_read(files, v.dir, MAX_NAME_LENGTH)
             IN  Copy(r, Append(SubSeq(r.bytes, 1, r.ret), NL))
    /\ UNCHANGED <<fixed, call, got>>

(***************************************************************************)
(* grep.                                                                   *)
(***************************************************************************)
\* main: the next entry of the directory; do_one_file opens it.
GrepNext ==
    \E r \in {syscall_read(files, v.dir, MAX_NAME_LENGTH)} :
    LET name == Append(SubSeq(r.bytes, 1, r.ret), NUL)
        o == syscall_open(r.files, name)
    IN  CASE r.ret = 0 -> Exit("exit0")
          [] r.ret = -1 -> Exit("exit3")
          [] r.ret > 0 /\ name[1] = DOT -> files' = r.files /\ UNCHANGED <<pc, out, v>>
          [] r.ret > 0 /\ name[1] # DOT /\ o.ret = -1 -> Exit("exit3")
          [] OTHER -> /\ files' = o.files /\ pc' = "fill" /\ UNCHANGED out
                      /\ v' = [v EXCEPT !.fd = o.ret, !.fname = name, !.last = 0,
                                        !.data = [i \in 0 .. BUFSIZE |-> junk]]

GrepFill ==
    \E r \in {syscall_read(files, v.fd, BUFSIZE - v.last)} :
        IF r.ret = -1 THEN Exit("exit3")
        ELSE /\ files' = r.files /\ pc' = "line" /\ UNCHANGED out
             /\ v' = [v EXCEPT !.last = @ + r.ret, !.cnt = r.ret, !.start = 0,
                               !.data = [i \in 0 .. BUFSIZE |->
                                   IF i \in v.last .. v.last + r.ret - 1
                                   THEN r.bytes[i - v.last + 1] ELSE @[i]]]

\* Whether s occurs in the bytes d[from] .. d[end - 1].
Search(d, from, end, s) ==
    \E check \in from .. end - 1 :
        /\ s[1] = d[check]
        /\ strncmp([k \in 1 .. strlen(s) |-> IF check + k - 1 < end THEN d[check + k - 1] ELSE NUL],
                   s, strlen(s))

\* The first NUL of d from index i on (ece391_strcpy and ece391_fdputs stop
\* there); there is one at end.
FirstNul(d, i, end) == Min({k \in i .. end : d[k] = NUL})

\* One round of the inner loop.  An unfinished line is moved down to be
\* completed if it can be, unless the file has ended.  Only what is in front
\* of a NUL is moved or printed.
LineStep(canMove, ended) ==
    LET end == CHOOSE e \in v.start .. v.last :
                  /\ e = v.last \/ v.data[e] = NL
                  /\ \A i \in v.start .. e - 1 : v.data[i] # NL
        data == [v.data EXCEPT ![end] = NUL]
        nul == FirstNul(data, v.start, end)
        more == end + 1 < v.last
    IN  IF v.data[end] # NL /\ v.cnt # 0 /\ canMove
        THEN /\ v' = [v EXCEPT !.last = @ - v.start,
                               !.data = [i \in 0 .. BUFSIZE |->
                                   IF i + v.start <= nul THEN data[i + v.start] ELSE data[i]]]
             /\ pc' = "fill" /\ UNCHANGED <<files, out>>
        ELSE /\ out' = IF Search(data, v.start, end, args)
                       THEN Append(out, <<v.fname, [i \in 1 .. nul - v.start |-> data[v.start + i - 1]]>>)
                       ELSE out
             /\ v' = [v EXCEPT !.data = data, !.start = end + 1,
                               !.last = IF more THEN @ ELSE 0]
             /\ pc' = IF more THEN "line" ELSE IF ended THEN "read" ELSE "fill"
             /\ files' = IF ~more /\ ended THEN syscall_close(files, v.fd).files ELSE files

\* Faulty variant: an unfinished line is searched like the others.
GrepLine_cut == LineStep(FALSE, v.cnt = 0)

\* Faulty variant: the end of the file is not noticed.
GrepLine_on == LineStep(v.start # 0, FALSE)

GrepLine == LineStep(v.start # 0, v.cnt = 0)

Grep ==
    /\ prog = "grep"
    /\ \/ pc = "start" /\ IF syscall_getargs(BUFSIZE) # 0 THEN Exit("exit3") ELSE Begin(<<DOT, NUL>>, "exit2")
       \/ pc = "read" /\ GrepNext
       \/ pc = "fill" /\ GrepFill
       \/ pc = "line" /\ GrepLine
    /\ UNCHANGED <<fixed, call, got>>

Program == Cat \/ Ls \/ Grep

Next == AnyCall \/ Program

Spec == Init /\ [][Next]_vars

\* A program that can run goes on: the scheduler is fair (Sched, EveryTerminalRuns).
FairSpec == Spec /\ WF_vars(Program)

----------------------------------------------------------------------------
\* What a process has read from a descriptor since it was opened: the start of
\* the file, or the first names of the directory, as far as the position says.
ReadSoFar ==
    prog = "any" => \A fd \in Fds : files[fd].used =>
        LET file == files[fd]
        IN  /\ file.type = "reg" => got[fd] = SubSeq(Content(Inode(file.inode)), 1, file.pos)
            /\ file.type = "dir" => got[fd] = [k \in 1 .. file.pos |-> image.dentries[k].filename]

\* A read that returns 0 bytes of those asked for has reached the end of the
\* file (cat and grep stop there).  Lengths that are negative as an int32 may
\* be cut to nothing at any position but the first.
NoEarlyEnd ==
    call.op = "read" /\ call.ret = 0 /\ call.n \in 1 .. WORD \div 2 - 1 =>
        /\ files[call.fd].type = "reg" =>
              files[call.fd].pos = Inode(files[call.fd].inode).file_size
        /\ files[call.fd].type = "dir" => files[call.fd].pos = Len(image.dentries)

\* The inductive invariant: a position is in the file or the directory.
FilesInv ==
    /\ prog # "any" => call = NoCall
    /\ prog = "any" =>
          /\ image \in AnyImages
          /\ files \in [Fds -> [used : BOOLEAN, type : {"rtc", "dir", "reg"}, pos : Nat, inode : Nat]]
          /\ DOMAIN got = Fds
          /\ \A fd \in Fds : files[fd].used =>
                /\ files[fd].type = "reg" =>
                      /\ files[fd].inode < Len(image.inodes)
                      /\ files[fd].pos <= Inode(files[fd].inode).file_size
                /\ files[fd].type = "dir" => files[fd].pos <= Len(image.dentries)

\* However often a process opens, reads and closes, in pieces of whatever
\* length: it reads the file byte by byte over the block boundaries, no part
\* twice and none left out, and is told of the end when it is there.  A
\* length that makes length + offset wrap does not read past the end.
Streams == ReadSoFar /\ NoEarlyEnd

\* open finds the file whose name is the first MAX_NAME_LENGTH characters of
\* the argument (names longer than the directory holds are found by the part
\* it holds), and fails only when there is none or the table is full.  (The
\* inode field of an RTC file is not the file's: rtc_open keeps the ratio there.)
OpenByName ==
    call.op = "open" =>
        LET named == {k \in Entries : Characters(call.name) # <<>> /\
                         Characters(image.dentries[k].filename) = Characters(call.name)}
        IN  IF call.ret = -1 THEN named = {} \/ \A fd \in Fds : files[fd].used
            ELSE \E k \in named :
                    /\ files[call.ret].type = image.dentries[k].filetype
                    /\ files[call.ret].type # "rtc" =>
                          files[call.ret].inode = image.dentries[k].inode_num

\* cat prints the whole file and ls every name of the directory on a line of
\* its own, over all the reads it takes.
PrintsAll ==
    pc = "exit0" =>
        /\ prog = "cat" => \A d \in Range(image.dentries) :
              d.filetype = "reg" /\ Characters(d.filename) = Characters(args) =>
                  out = Content(Inode(d.inode_num))
        /\ prog = "ls" =>
              out = FlattenSeq([k \in Entries |-> Append(Characters(image.dentries[k].filename), NL)])

\* The lines of a text, and those with s in them.
LinesOf(text) ==
    FoldLeft(LAMBDA lines, c : IF c = NL THEN Append(lines, <<>>)
                               ELSE [lines EXCEPT ![Len(lines)] = Append(@, c)], <<<<>>>>, text)
Matching(text) ==
    SelectSeq(LinesOf(text), LAMBDA line : \E k \in 1 .. Len(line) - strlen(args) + 1 :
        SubSeq(line, k, k + strlen(args) - 1) = SubSeq(args, 1, strlen(args)))

\* The text of a regular file that grep can search: grep takes what begins
\* with '.' for a directory; a NUL ends what is moved or printed of a line; a
\* line longer than the buffer is searched in pieces.
Searchable(d) ==
    /\ d.filetype = "reg" /\ d.filename[1] # DOT
    /\ NUL \notin Range(Content(Inode(d.inode_num)))
    /\ \A line \in Range(LinesOf(Content(Inode(d.inode_num)))) : Len(line) <= BUFSIZE

\* Of every such file grep prints exactly the lines that match, in order,
\* although a line may lie across two fills of the buffer and whatever the
\* other files hold, if the byte behind the buffer, which is looked at before
\* it is ever written, does not happen to be a newline.
GrepFindsLines ==
    prog = "grep" /\ pc = "exit0" /\ junk # NL =>
        \A d \in Range(image.dentries) : Searchable(d) =>
            LET ofFile == SelectSeq(out, LAMBDA o : o[1] = Append(Characters(d.filename), NUL))
            IN  [n \in DOMAIN ofFile |-> ofFile[n][2]] = Matching(Content(Inode(d.inode_num)))

\* A program that is started ends.
ProgramsEnd == prog # "any" ~> pc \in {"exit0", "exit2", "exit3"}
=============================================================================
