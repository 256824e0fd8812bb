------------------------------- MODULE Console -------------------------------
(***************************************************************************)
(* Console input (console.c): a ring of typed characters with a read, a    *)
(* write and an edit index, which consoleintr() fills and consoleread()    *)
(* empties, and the cursor of the screen on which it echoes.  A critical   *)
(* section of input.lock is one step; a reader that finds no input keeps   *)
(* the lock from its test of killed until it sleeps.                       *)
(***************************************************************************)
EXTENDS Integers, Sequences, SequencesExt, FiniteSetsExt

CONSTANTS
    INPUT_BUF,
    UINT,           \* r, w and e are uints: they wrap around at UINT
    COLS, ROWS,     \* 80, and the 24 rows that scroll
    Letter          \* characters without a meaning to the console

ASSUME RingAssumption == INPUT_BUF \in Nat \ {0} /\ UINT % INPUT_BUF = 0 /\ UINT > INPUT_BUF

VARIABLES
    input,          \* buf, r, w, e
    pos             \* the cursor

Char == Letter \cup {"nl", "eof"}
Key == Char \cup {"cr", "bs", "kill", "list", "none"}

Dist(from, to) == (to - from) % UINT
Move(i, d) == (i + d) % UINT

\* The characters in the ring from index i up to index j.
Ring(i, j) == [m \in 1 .. Dist(i, j) |-> input.buf[Move(i, m - 1) % INPUT_BUF]]

ConsoleInit(start, cursor) ==
    /\ input = [buf |-> [i \in 0 .. INPUT_BUF - 1 |-> "eof"], r |-> start, w |-> start, e |-> start]
    /\ pos = cursor

-----------------------------------------------------------------------------
Scroll_OnlyLast(at) == IF at \div COLS = ROWS THEN at - COLS ELSE at

\* The row below the last one that scrolls counts as the last.
Scroll(at) == IF at \div COLS >= ROWS THEN at - COLS ELSE at

\* The new cursor, after the character is stored at the old one.
cgaputc(at, c) ==
    Scroll(CASE c = "nl" -> (at + COLS) - (at % COLS)
             [] c = "bs" -> IF at > 0 THEN at - 1 ELSE at
             [] OTHER -> at + 1)

\* The cursor after n backspaces.
Erase(n) == FoldFunction(LAMBDA c, at : cgaputc(at, c), pos, [m \in 1 .. n |-> "bs"])

\* How many characters ^U takes back: up to w, or to a newline before that.
LineLength ==
    LET line == Ring(input.w, input.e)
    IN  Len(line) - SelectLastInSeq(line, LAMBDA c : c = "nl")

\* ^U and ^H erase uncommitted characters.
Erases(n) ==
    /\ input' = [input EXCEPT !.e = Move(@, -n)]
    /\ pos' = Erase(n)

Commits_OnlyLines(c) == c \in {"nl", "eof"}

\* The line is complete: w moves to e, and the readers are woken.
Commits(c) == c \in {"nl", "eof"} \/ Dist(input.r, Move(input.e, 1)) = INPUT_BUF

Inserts(c) ==
    /\ input' = [input EXCEPT !.buf[input.e % INPUT_BUF] = c, !.e = Move(@, 1),
                              !.w = IF Commits(c) THEN Move(input.e, 1) ELSE @]
    /\ pos' = cgaputc(pos, c)

HasRoom == Dist(input.r, input.e) < INPUT_BUF

\* consoleintr() for one key, with what getc() makes of it.
consoleintr(key) ==
    CASE key = "kill" -> Erases(LineLength)
      [] key = "bs" -> Erases(IF input.e # input.w THEN 1 ELSE 0)
      [] key \in Char \cup {"cr"} /\ HasRoom -> Inserts(IF key = "cr" THEN "nl" ELSE key)
      [] OTHER -> UNCHANGED <<input, pos>>

-----------------------------------------------------------------------------
(***************************************************************************)
(* consoleread(): one pass over the committed characters, for a reader     *)
(* that has got some of the n it wants.                                    *)
(***************************************************************************)
Committed == Ring(input.r, input.w)

Stop == SelectInSeq(Committed, LAMBDA c : c \in {"nl", "eof"})

\* How many characters the pass copies, at most n.
Copied(n) ==
    Min({n, IF Stop = 0 THEN Len(Committed)
            ELSE IF Committed[Stop] = "nl" THEN Stop ELSE Stop - 1})

AtEof(n) == Copied(n) < n /\ Copied(n) < Len(Committed) /\ Committed[Copied(n) + 1] = "eof"

\* The pass ends the call, or runs out of input and goes to sleep.
ReadEnds(n) ==
    \/ Copied(n) = n
    \/ AtEof(n)
    \/ Copied(n) > 0 /\ Committed[Copied(n)] = "nl"

\* ^D is taken out of the ring only by a call that has read nothing else.
ReadConsumes_Eof(n, target) == Copied(n) + (IF AtEof(n) THEN 1 ELSE 0)

ReadConsumes(n, target) ==
    Copied(n) + (IF AtEof(n) /\ Copied(n) = 0 /\ n = target THEN 1 ELSE 0)

consoleread(n, target) ==
    /\ input' = [input EXCEPT !.r = Move(@, ReadConsumes(n, target))]
    /\ UNCHANGED pos
=============================================================================
