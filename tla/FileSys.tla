------------------------------ MODULE FileSys ------------------------------
(***************************************************************************)
(* The read-only file system (file_sys.c) behind the file system calls of  *)
(* syscall.c: lookup of names, descriptors with their positions, reads of  *)
(* data over the blocks of a file and of directory entries.                *)
(* The image is loaded at boot and never written.  Bytes are elements of   *)
(* some set with NUL; a name is a sequence of bytes that ends with NUL or, *)
(* in the directory, is MAX_NAME_LENGTH long.                              *)
(***************************************************************************)
EXTENDS Integers, SequencesExt, FiniteSetsExt

CONSTANTS
    BLOCK_SIZE, MAX_NAME_LENGTH, TASK_MAX_FILES,
    WORD,           \* 2^32: unsigned sums are modulo WORD, signed from WORD / 2 on
    NUL,
    RTC_INODE, RTC_POS, \* what rtc_open stores: freq and ratio packed, 1 << ratio (Rtc.tla)
    Images          \* dentries: a sequence of [filename, filetype, inode_num];
                    \* inodes: of [file_size, data_blocks]; blocks: of bytes

ASSUME FileSysAssumption ==
    /\ {BLOCK_SIZE, MAX_NAME_LENGTH, TASK_MAX_FILES} \subseteq Nat \ {0}
    /\ {RTC_INODE, RTC_POS} \subseteq Nat
    /\ \A image \in Images : \A d \in Range(image.dentries) :
          /\ d.filetype \in {"rtc", "dir", "reg"}
          /\ d.inode_num \in Nat
          /\ d.filetype = "reg" => d.inode_num < Len(image.inodes)

IsSequence(s) == s \in Seq(Range(s))

\* A name of the directory fills its MAX_NAME_LENGTH bytes, is not empty and
\* padded with NUL.
FileName(s) ==
    /\ IsSequence(s) /\ Len(s) = MAX_NAME_LENGTH /\ s[1] # NUL
    /\ \A i, j \in 1 .. MAX_NAME_LENGTH : i <= j /\ s[i] = NUL => s[j] = NUL

\* An inode has room for MAX_BLOCK_NUM block numbers: sizes are far from
\* being negative as an int32.
ASSUME ImageAssumption ==
    /\ WORD \in Nat
    /\ \A image \in Images :
          /\ IsSequence(image.dentries) /\ IsSequence(image.inodes)
          /\ \A d \in Range(image.dentries) : FileName(d.filename)
          /\ \A inode \in Range(image.inodes) : inode.file_size \in 0 .. WORD \div 2 - 1

VARIABLES
    image,
    files           \* open_files of the process: the descriptors from 2 on

Fds == 2 .. TASK_MAX_FILES - 1
NoFile == [used |-> FALSE, type |-> "reg", pos |-> 0, inode |-> 0]

(***************************************************************************)
(* Strings (lib.c).                                                        *)
(***************************************************************************)
\* Whether strncmp of s and t over n bytes is 0.
strncmp(s, t, n) ==
    \A i \in 1 .. n : (\A j \in 1 .. i - 1 : s[j] # NUL) => s[i] = t[i]

\* fn_length: to the first NUL, at most MAX_NAME_LENGTH.
fn_length(s) ==
    CHOOSE n \in 0 .. MAX_NAME_LENGTH :
        /\ \A i \in 1 .. n : s[i] # NUL
        /\ n = MAX_NAME_LENGTH \/ s[n + 1] = NUL

\* strncpy of MAX_NAME_LENGTH bytes: the rest is filled with NUL.
strncpy(s) == [i \in 1 .. MAX_NAME_LENGTH |-> IF i <= fn_length(s) THEN s[i] ELSE NUL]

(***************************************************************************)
(* The directory.                                                          *)
(***************************************************************************)
Entries == DOMAIN image.dentries

\* The first entry whose name is equal over n bytes, or 0.
FirstEntry(fname, n) ==
    LET same == {i \in Entries : strncmp(image.dentries[i].filename, fname, n)}
    IN  IF fn_length(fname) = 0 \/ same = {} THEN 0 ELSE Min(same)

\* Faulty variant: only as many bytes as fname has are compared.
read_dentry_by_name_prefix(fname) == FirstEntry(fname, fn_length(fname))

read_dentry_by_name(fname) == FirstEntry(fname, MAX_NAME_LENGTH)

(***************************************************************************)
(* read_data: the bytes of an inode from an offset on.                     *)
(***************************************************************************)
Inode(n) == image.inodes[n + 1]

\* The length, cut at the end of the file; the sum may wrap, and a length that
\* is negative as a signed number copies nothing.
ActualLen(size, offset, length) ==
    LET len == IF (length + offset) % WORD > size THEN size - offset ELSE length
    IN  IF len >= WORD \div 2 THEN 0 ELSE len

\* Whether the block is switched before the byte k behind the start of the
\* first block; at that start itself only if atStart.
NewBlock(k, atStart) == k % BLOCK_SIZE = 0 /\ (k # 0 \/ atStart)

\* The loop: the block and the offset in it of every byte.
Places(offset, len, atStart) ==
    LET at[i \in 0 .. len - 1] ==
            LET next == IF i = 0 THEN <<offset \div BLOCK_SIZE, offset % BLOCK_SIZE>>
                        ELSE <<at[i - 1][1], at[i - 1][2] + 1>>
            IN  IF NewBlock(i + (offset % BLOCK_SIZE), atStart) THEN <<next[1] + 1, 0>> ELSE next
    IN  at

ByteAt(inode, place) ==
    image.blocks[inode.data_blocks[place[1] + 1] + 1][place[2] + 1]

Bytes(inode, offset, len, atStart) ==
    LET at == Places(offset, len, atStart)
    IN  [i \in 1 .. len |-> ByteAt(inode, at[i - 1])]

ReadFrom(inode_num, offset, length, atStart) ==
    LET inode == Inode(inode_num)
    IN  IF inode_num > Len(image.inodes) \/ offset >= inode.file_size THEN <<>>
        ELSE Bytes(inode, offset, ActualLen(inode.file_size, offset, length), atStart)

\* Faulty variant: a read that starts with a block goes on to the next one.
read_data_next(inode_num, offset, length) == ReadFrom(inode_num, offset, length, TRUE)

read_data(inode_num, offset, length) == ReadFrom(inode_num, offset, length, FALSE)

(***************************************************************************)
(* The operations of an open file: what they return, the bytes they store  *)
(* and the file after them.                                                *)
(***************************************************************************)
fs_file_read(file, length) ==
    LET bytes == read_data(file.inode, file.pos, length)
    IN  [ret |-> Len(bytes), bytes |-> bytes, file |-> [file EXCEPT !.pos = @ + Len(bytes)]]

\* A directory read stores MAX_NAME_LENGTH bytes whatever the length is.
fs_dir_read(file, length) ==
    IF file.pos >= Len(image.dentries) THEN [ret |-> 0, bytes |-> <<>>, file |-> file]
    ELSE LET name == strncpy(image.dentries[file.pos + 1].filename)
         IN  [ret |-> fn_length(name), bytes |-> name, file |-> [file EXCEPT !.pos = @ + 1]]

(***************************************************************************)
(* The system calls, on a descriptor table.  Reads of the RTC (Rtc.tla)    *)
(* return 0; what they do to its inode and pos is left to that module.     *)
(***************************************************************************)
\* What fs_open and rtc_open make of a descriptor.
OpenedFile(dentry) ==
    IF dentry.filetype = "rtc"
    THEN [used |-> TRUE, type |-> "rtc", pos |-> RTC_POS, inode |-> RTC_INODE]
    ELSE [used |-> TRUE, type |-> dentry.filetype, pos |-> 0, inode |-> dentry.inode_num]

syscall_open(table, name) ==
    LET entry == read_dentry_by_name(name)
        free == {fd \in Fds : ~table[fd].used}
    IN  IF entry = 0 \/ free = {} THEN [ret |-> -1, files |-> table]
        ELSE [ret |-> Min(free),
              files |-> [table EXCEPT ![Min(free)] = OpenedFile(image.dentries[entry])]]

syscall_read(table, fd, n) ==
    IF fd \notin Fds \/ ~table[fd].used THEN [ret |-> -1, bytes |-> <<>>, files |-> table]
    ELSE LET file == table[fd]
             read == CASE file.type = "reg" -> fs_file_read(file, n)
                       [] file.type = "dir" -> fs_dir_read(file, n)
                       [] file.type = "rtc" -> [ret |-> 0, bytes |-> <<>>, file |-> file]
         IN  [ret |-> read.ret, bytes |-> read.bytes, files |-> [table EXCEPT ![fd] = read.file]]

syscall_close(table, fd) ==
    IF fd \notin Fds \/ ~table[fd].used THEN [ret |-> -1, files |-> table]
    ELSE [ret |-> 0, files |-> [table EXCEPT ![fd].used = FALSE]]

----------------------------------------------------------------------------
\* What the image says: the bytes of a file, the characters of a name.
Content(inode) ==
    [k \in 1 .. inode.file_size |->
       ByteAt(inode, <<(k - 1) \div BLOCK_SIZE, (k - 1) % BLOCK_SIZE>>)]

Characters(s) == SubSeq(s, 1, fn_length(s))
=============================================================================
