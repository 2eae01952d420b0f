------------------------------ MODULE Game2048 ------------------------------
(***************************************************************************)
(* The 2048 game (syscalls/2048.c), the program that uses the escape       *)
(* sequences and the modes of the terminal: the board and its moves, the   *)
(* end test, the turns, and what is drawn.  The random generator is a      *)
(* choice.  The code has 4 rows, 4 columns and the goal 2048.              *)
(***************************************************************************)
EXTENDS Integers, FiniteSetsExt, SequencesExt

CONSTANTS
    ROWS, COLS, GOAL,
    MaxTile         \* bound: no move once a tile is larger

\* Four shift passes are enough for lines of at most 4, and a move that starts
\* below 4096 makes no tile print_tile does not know.
ASSUME BoardAssumption == ROWS \in 2 .. 4 /\ COLS \in 2 .. 4 /\ MaxTile \in 0 .. 4095

Tiles == 0 .. ROWS * COLS - 1
Directions == {"U", "D", "R", "L"}

VARIABLES
    tile, score, reached,
    phase,          \* waiting for a key: "turn", "lost"; "end"
    shown,          \* drawn last: the board, the score and the text of print_info
    placed          \* history: how many 2s and 4s were placed in this game

gameVars == <<tile, score, reached, phase, shown, placed>>

(***************************************************************************)
(* move_tile.  All four directions work on pairs of neighbours <<to, from>> *)
(* in the order the loops visit them.                                      *)
(***************************************************************************)
Stride(dir) == IF dir \in {"U", "D"} THEN COLS ELSE 1

Rounds(dir) == ROWS * COLS - Stride(dir)

\* Faulty variant: all loops run upwards.
Index_upwards(dir, k) == k

\* The tile i of round k: the loops of 'D' and 'R' run downwards.
Index(dir, k) == IF dir \in {"U", "L"} THEN k ELSE Rounds(dir) - 1 - k

Pair(dir, i) ==
    IF dir \in {"U", "L"} THEN <<i, i + Stride(dir)>> ELSE <<i + Stride(dir), i>>

\* The tile at the end of a row has no neighbour in it (continue).
Skips(dir, i) == dir \in {"R", "L"} /\ i % COLS = COLS - 1

\* b is a board and the score gained so far.
Shift(b, p) ==
    IF b.t[p[1]] # 0 THEN b
    ELSE [t |-> [b.t EXCEPT ![p[1]] = b.t[p[2]], ![p[2]] = 0], gain |-> b.gain]

Merged(b, p, gain) ==
    IF b.t[p[1]] # b.t[p[2]] THEN b
    ELSE [t |-> [b.t EXCEPT ![p[1]] = 2 * @, ![p[2]] = 0], gain |-> b.gain + gain]

\* Faulty variant: the gain is the tile before it was doubled.
Merge_old(b, p) == Merged(b, p, b.t[p[1]])

Merge(b, p) == Merged(b, p, 2 * b.t[p[1]])

\* Tile i in pass j: passes 0 to 3 shift, pass 4 merges, pass 5 shifts again.
Round(dir, j, i, b) ==
    CASE Skips(dir, i) -> b
      [] ~Skips(dir, i) /\ j = 4 -> Merge(b, Pair(dir, i))
      [] ~Skips(dir, i) /\ j # 4 -> Shift(b, Pair(dir, i))

move_tile(t, dir) ==
    LET len == Rounds(dir)
        after[n \in 0 .. 6 * len] ==
            IF n = 0 THEN [t |-> t, gain |-> 0]
            ELSE Round(dir, (n - 1) \div len, Index(dir, (n - 1) % len), after[n - 1])
    IN  after[6 * len]

\* place_tile: a 2 or a 4 on an empty tile, if there is one.
place_tile(t) ==
    LET empty == {i \in Tiles : t[i] = 0}
    IN  IF empty = {} THEN {[t |-> t, v |-> n] : n \in {2, 4}}
        ELSE {[t |-> [t EXCEPT ![i] = n], v |-> n] : i \in empty, n \in {2, 4}}

\* The boards (of one board, one) after a move in a direction, and after all.
Moved(boards, dir) == {move_tile(b, dir).t : b \in boards}

Tried(t) == Moved(Moved(Moved(Moved({t}, "U"), "D"), "R"), "L")

Full(t) == \A i \in Tiles : t[i] # 0

\* Faulty variant: only two directions are tried.
check_end_half(t) == [over |-> Full(t) /\ Moved(Moved({t}, "U"), "D") = {t}, t |-> t]

\* Faulty variant: the moves are not taken back.
check_end_keep(t) ==
    [over |-> Full(t) /\ Tried(t) = {t},
     t |-> IF Full(t) THEN CHOOSE b \in Tried(t) : TRUE ELSE t]

\* check_end: whether the game is over, and the board it leaves: the moves are
\* tried on the board itself, one after the other, and taken back.
check_end(t) == [over |-> Full(t) /\ Tried(t) = {t}, t |-> t]

(***************************************************************************)
(* Drawing: every printf writes a strip, len columns of row y from column x *)
(* on (rows and columns count from 1, the screen has 25 rows of 80).  The  *)
(* code's board of 4 by 4 is drawn whatever part of it is played on.       *)
(***************************************************************************)
Strip(y, x, len) == [y |-> y, x |-> x, len |-> len]

print_border ==
    {Strip(6 * r, 1, 43) : r \in 1 .. 3} \cup {Strip(r, 11 * c, 1) : r \in 1 .. 23, c \in 1 .. 4}

print_info == {Strip(r, 45, 36) : r \in 3 .. 14} \cup {Strip(20, 45, 26), Strip(21, 45, 25)}

print_status == {Strip(24, 1, 79)}

\* The cases of print_tile; larger values have no colour and no padding.
Powers == <<2, 4, 8, 16, 32, 64, 128, 256, 512, 1024, 2048, 4096>>

Values == {0} \cup Range(Powers)

\* The padding before and after a number.
Padding(n) == (IF n < 100 THEN 4 ELSE 3) + (IF n < 10 THEN 5 ELSE IF n < 1000 THEN 4 ELSE 3)

Digits(n) == IF n < 10 THEN 1 ELSE IF n < 100 THEN 2 ELSE IF n < 1000 THEN 3 ELSE 4

\* A tile of value n at place i: five strips, the number in the third.
print_tile ==
    [n \in Values |-> [i \in 0 .. 15 |->
       {Strip(6 * (i \div 4) + 1 + r, 11 * (i % 4) + 1,
              IF r = 2 /\ n # 0 THEN Padding(n) + Digits(n) ELSE 10) : r \in 0 .. 4}]]

(***************************************************************************)
(* main.  From the head of the loop to the next key: end test, check for   *)
(* the goal.  (reached stays set when a new game is started.)              *)
(***************************************************************************)
LoopHead(t, drawn) ==
    LET won == \E i \in Tiles : t[i] = GOAL
        end == check_end(t)
    IN  /\ tile' = end.t
        /\ phase' = IF end.over THEN "lost" ELSE "turn"
        /\ reached' = (reached \/ (won /\ ~end.over))
        /\ shown' = [drawn EXCEPT !.info = CASE end.over -> "lose"
                                             [] ~end.over /\ reached -> "normal"
                                             [] ~end.over /\ ~reached /\ won -> "win"
                                             [] OTHER -> drawn.info]

Count(counts, n) == [counts EXCEPT ![n] = @ + 1]

\* The boards of a new game, and their history.
NewGames ==
    UNION {{[t |-> b.t, placed |-> Count(Count([n \in {2, 4} |-> 0], a.v), b.v)] :
               b \in place_tile(a.t)} : a \in place_tile([i \in Tiles |-> 0])}

\* The start label: two tiles, score 0, everything drawn.
Start(game) ==
    /\ LoopHead(game.t, [tile |-> game.t, score |-> 0, info |-> "normal"])
    /\ score' = 0
    /\ placed' = game.placed

GameInit ==
    /\ \E game \in NewGames :
          /\ tile = game.t /\ placed = game.placed
          /\ shown = [tile |-> game.t, score |-> 0, info |-> "normal"]
    /\ score = 0 /\ reached = FALSE /\ phase = "turn"

\* A direction key: a tile is placed and the board drawn only if it changed.
Move(dir) ==
    /\ \A i \in Tiles : tile[i] <= MaxTile
    /\ LET moved == move_tile(tile, dir)
       IN  /\ score' = score + moved.gain
           /\ IF moved.t = tile THEN LoopHead(tile, shown) /\ UNCHANGED placed
              ELSE \E p \in place_tile(moved.t) :
                     /\ LoopHead(p.t, [shown EXCEPT !.tile = p.t, !.score = score'])
                     /\ placed' = Count(placed, p.v)

Retry == \E game \in NewGames : Start(game)

Quit == phase' = "end" /\ UNCHANGED <<tile, score, reached, shown, placed>>

\* get_key: what a letter (small or capital) means.
get_key(letter) ==
    CASE letter = "w" -> "U" [] letter = "s" -> "D" [] letter = "d" -> "R" [] letter = "a" -> "L"
      [] letter \in {"r", "q"} -> letter [] letter \in {"i", "h"} -> "h" [] OTHER -> "x"

Turn(key) ==
    /\ phase = "turn"
    /\ \/ key \in Directions /\ Move(key)
       \/ key = "r" /\ Retry
       \/ key = "q" /\ Quit
       \/ key \in {"h", "x"} /\ LoopHead(tile, shown) /\ UNCHANGED <<score, placed>>

Lost(key) ==
    /\ phase = "lost"
    /\ \/ key = "r" /\ Retry
       \/ key = "q" /\ Quit
       \/ key \notin {"r", "q"} /\ UNCHANGED gameVars

GameNext == \E letter \in {"w", "s", "d", "a", "r", "q", "i", "h", "z"} :
    Turn(get_key(letter)) \/ Lost(get_key(letter))

GameSpec == GameInit /\ [][GameNext]_gameVars

----------------------------------------------------------------------------
(***************************************************************************)
(* What a move is, line by line.                                           *)
(***************************************************************************)
\* The tiles of a line, in the order in which they are pushed to its edge.
Lines ==
    LET rows == {[c \in 1 .. COLS |-> COLS * (r - 1) + c - 1] : r \in 1 .. ROWS}
        columns == {[r \in 1 .. ROWS |-> COLS * (r - 1) + c - 1] : c \in 1 .. COLS}
    IN  [dir \in Directions |->
           CASE dir = "L" -> rows
             [] dir = "R" -> {Reverse(line) : line \in rows}
             [] dir = "U" -> columns
             [] dir = "D" -> {Reverse(line) : line \in columns}]

\* The tiles of a line without the gaps.
Packed(values) ==
    LET upto[k \in 0 .. Len(values)] ==
            IF k = 0 THEN <<>>
            ELSE IF values[k] = 0 THEN upto[k - 1] ELSE Append(upto[k - 1], values[k])
    IN  upto[Len(values)]

\* Tiles pushed together: equal neighbours become one, nearest the edge first,
\* and a tile that has just become does not merge again.  last[m] are the last
\* m tiles, pushed.
Pushed(values) ==
    LET last[m \in 0 .. Len(values)] ==
            LET k == Len(values) - m + 1
            IN  IF m = 0 THEN <<>>
                ELSE IF m > 1 /\ values[k] = values[k + 1]
                     THEN <<2 * values[k]>> \o last[m - 2]
                     ELSE <<values[k]>> \o last[m - 1]
    IN  last[Len(values)]

\* A move pushes every line: the passes of move_tile, on the flat array and in
\* four directions, do this to every board a game can reach.
MoveIsPush ==
    phase = "turn" => \A dir \in Directions :
        LET moved == move_tile(tile, dir).t
        IN  \A line \in Lines[dir] :
               LET want == Pushed(Packed([k \in DOMAIN line |-> tile[line[k]]]))
               IN  \A k \in DOMAIN line : moved[line[k]] = IF k <= Len(want) THEN want[k] ELSE 0

\* The game is lost exactly when no direction changes the board (check_end
\* tries them one after the other on a board that is already changed).
LostIsStuck ==
    phase # "end" => (phase = "lost" <=> \A dir \in Directions : move_tile(tile, dir).t = tile)

\* What a tile of value n was worth if it was merged from 2s.
Worth(n) == IF n = 0 THEN 0 ELSE ((CHOOSE k \in DOMAIN Powers : Powers[k] = n) - 1) * n

Total(f) ==
    LET upto[n \in 0 .. ROWS * COLS] == IF n = 0 THEN 0 ELSE upto[n - 1] + f[n - 1]
    IN  upto[ROWS * COLS]

\* Nothing is lost or made up: the tiles on the board add up to the tiles
\* placed, so every changing move leaves room for its new tile, and the score
\* is what merging them was worth.
ScoreIsEarned ==
    /\ Total(tile) = 2 * placed[2] + 4 * placed[4]
    /\ score = Total([i \in Tiles |-> Worth(tile[i])]) - 4 * placed[4]

Overlap(a, b) == a.y = b.y /\ a.x < b.x + b.len /\ b.x < a.x + a.len

OnScreen(s) == s.y \in 1 .. 25 /\ s.x >= 1 /\ s.x + s.len - 1 <= 80

Separate(A, B) == \A a \in A, b \in B : ~Overlap(a, b)

TextArea == print_info \cup print_status

TileArea == UNION {print_tile[n][i] : n \in Values, i \in 0 .. 15}

\* The areas of the screen do not touch.
Areas ==
    /\ \A s \in print_border \cup TextArea \cup TileArea : OnScreen(s)
    /\ Separate(TextArea, print_border) /\ Separate(TextArea, TileArea)
    /\ Separate(TileArea, print_border)
    /\ \A i, j \in 0 .. 15 : i # j =>
          \A m, n \in Values : Separate(print_tile[m][i], print_tile[n][j])

\* What is drawn is what is played: board and score (main draws them only
\* after a change, and check_end moves the tiles about in between).  Whatever a
\* tile becomes, drawing it covers exactly what is drawn of it now, and nothing
\* that is drawn over and over touches anything else: the border is drawn
\* once, before the first game, and the screen is never cleared.
DrawnIsPlayed ==
    /\ shown.tile = tile /\ shown.score = score
    /\ Areas
    /\ \A i \in Tiles : \A n \in Values : print_tile[n][i] = print_tile[shown.tile[i]][i]
=============================================================================
