---------------------------- MODULE MCFileTools ----------------------------
(***************************************************************************)
(* A directory of itself, the RTC and three files, one of them hidden; the *)
(* text of the first is varied, with NUL bytes or without, and it lies in  *)
(* blocks that do not follow each other.                                   *)
(***************************************************************************)
EXTENDS FileTools

CONSTANTS MaxText   \* bound: the length of the text

MCText(n) == [1 .. n -> {"a", "b", NL}]
MCTextNul(n) == [1 .. n -> {"a", NL, NUL}]

Entry(name, type, inode) == [filename |-> name, filetype |-> type, inode_num |-> inode]

Image(text) ==
    LET byte(k) == IF k <= Len(text) THEN text[k] ELSE NUL
    IN  [dentries |-> <<Entry(<<DOT, NUL>>, "dir", 0), Entry(<<"f", "g">>, "reg", 1),
                        Entry(<<"r", NUL>>, "rtc", 0), Entry(<<"f", NUL>>, "reg", 0),
                        Entry(<<DOT, "f">>, "reg", 0)>>,
         inodes |-> <<[file_size |-> 1, data_blocks |-> <<0, 0, 0, 0>>],
                      [file_size |-> Len(text), data_blocks |-> <<3, 1, 2, 0>>]>>,
         blocks |-> <<<<"a", NUL>>, <<byte(3), byte(4)>>, <<byte(5), byte(6)>>, <<byte(1), byte(2)>>>>]

MCImages == {Image(text) : text \in UNION {MCText(n) : n \in {0, 2, MaxText}} \cup MCTextNul(MaxText - 1)}

MCAnyImages == {Image(<<"a", NL, "b", "b", "a">>)}

MCNames == {<<NUL>>, <<DOT, NUL>>, <<"f", NUL>>, <<"f", "g", NUL>>, <<"f", "g", "h", NUL>>, <<"r", NUL>>}

MCArgs == {<<>>, <<"f", "g", NUL>>, <<"a", "b", NUL>>, <<"a", "b", "a", "b", NUL>>}
=============================================================================
