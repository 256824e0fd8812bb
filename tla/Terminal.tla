------------------------------- MODULE Terminal ------------------------------
(***************************************************************************)
(* A pipeline on the console: cat copies what is typed into a pipe, and a  *)
(* second process reads the pipe until its end.  Either may be killed at   *)
(* any time and exits when it returns to user space; exit() closes its end *)
(* of the pipe.  The two sleep in consoleread(), pipewrite() and           *)
(* piperead(), and are woken by the keyboard, by each other and by kill(). *)
(***************************************************************************)
EXTENDS Console, Pipe

CONSTANTS
    BUFSIZE,        \* what cat asks consoleread() for
    READSIZE,       \* what the second process asks piperead() for
    MAXKEYS,        \* keys typed
    Cursor          \* where the cursor may be at the start

ASSUME SizesAssumption == {BUFSIZE, READSIZE} \subseteq Nat \ {0} /\ MAXKEYS \in Nat

VARIABLES
    pc, killed,
    buf,            \* the buffer of cat, as far as it is filled
    i,              \* the loop variable of pipewrite()
    keys,           \* how many keys have been typed
    typed,          \* history: the characters of all committed lines
    received        \* history: what the second process has read

consoleVars == <<input, pos>>
terminalVars == <<consoleVars, pipeVars, pc, killed, buf, i, keys, typed, received>>

Process == {"cat", "sink"}

TerminalInit ==
    /\ \E at \in Cursor : ConsoleInit(UINT - 1, at)
    /\ pipealloc(WRAP - 1)
    /\ pc = [p \in Process |-> "read"]
    /\ killed = [p \in Process |-> FALSE]
    /\ buf = <<>>
    /\ i = 0
    /\ keys = 0
    /\ typed = <<>>
    /\ received = <<>>

\* Who holds input.lock or p->lock between its last test and its sleep().
InputFree == pc["cat"] # "console_test"
PipeFree == pc["cat"] # "write_test" /\ pc["sink"] # "read_test"

\* The places of the two after a wakeup of the reader or the writer.
Woken(p, asleep, place) == IF pc[p] = asleep THEN place ELSE pc[p]

\* wakeup(&p->nread) in pipewrite()
ReaderWoken == Woken("sink", "read_sleep", "read")

\* A process that is killed when it returns to user space exits there.
Return(p, place) == IF killed[p] THEN "exit" ELSE place

NotEof(s) == SelectSeq(s, LAMBDA c : c # "eof")

-----------------------------------------------------------------------------
Type(key) ==
    /\ InputFree /\ keys < MAXKEYS
    /\ keys' = keys + 1
    /\ consoleintr(key)
    /\ IF input'.w # input.w
         THEN /\ pc' = [pc EXCEPT !["cat"] = Woken("cat", "console_sleep", "read")]
              /\ typed' = typed \o Ring(input.w, input.e) \o <<IF key = "cr" THEN "nl" ELSE key>>
         ELSE UNCHANGED <<pc, typed>>
    /\ UNCHANGED <<pipeVars, killed, buf, i, received>>

\* consoleread() up to its return or to the test of killed before its sleep().
CatReads ==
    /\ pc["cat"] = "read"
    /\ LET n == BUFSIZE - Len(buf)
           got == buf \o SubSeq(Committed, 1, Copied(n))
       IN  /\ consoleread(n, BUFSIZE)
           /\ IF ReadEnds(n)
                THEN /\ buf' = got
                     /\ pc' = [pc EXCEPT !["cat"] = Return("cat", IF got = <<>> THEN "exit" ELSE "write")]
                ELSE /\ buf' = IF killed["cat"] THEN <<>> ELSE got
                     /\ pc' = [pc EXCEPT !["cat"] = IF killed["cat"] THEN "exit" ELSE "console_test"]
    /\ UNCHANGED <<pipeVars, killed, i, keys, typed, received>>

CatSleeps ==
    /\ pc["cat"] = "console_test"
    /\ pc' = [pc EXCEPT !["cat"] = "console_sleep"]
    /\ UNCHANGED <<consoleVars, pipeVars, killed, buf, i, keys, typed, received>>

\* pipewrite() up to its return or to the test of killed before its sleep().
\* It wakes the reader in either case, unless it gives up.  cat does not look
\* at what write() returns.
CatWrites ==
    /\ pc["cat"] = "write" /\ PipeFree
    /\ pipewrite(buf, i)
    /\ IF WriteEnds(buf, i) \/ ~readopen \/ killed["cat"]
         THEN buf' = <<>> /\ i' = 0
         ELSE buf' = buf /\ i' = i + Stored(buf, i)
    /\ pc' = CASE WriteEnds(buf, i) ->
                    [cat |-> Return("cat", "read"), sink |-> ReaderWoken]
               [] ~WriteEnds(buf, i) /\ (~readopen \/ killed["cat"]) ->
                    [pc EXCEPT !["cat"] = Return("cat", "read")]
               [] OTHER ->
                    [cat |-> "write_test", sink |-> ReaderWoken]
    /\ UNCHANGED <<consoleVars, killed, keys, typed, received>>

CatWaits ==
    /\ pc["cat"] = "write_test"
    /\ pc' = [pc EXCEPT !["cat"] = "write_sleep"]
    /\ UNCHANGED <<consoleVars, pipeVars, killed, buf, i, keys, typed, received>>

SinkReads ==
    /\ pc["sink"] = "read" /\ PipeFree
    /\ IF ReadWaits
         THEN /\ pc' = [pc EXCEPT !["sink"] = IF killed["sink"] THEN "exit" ELSE "read_test"]
              /\ UNCHANGED <<pipeVars, received>>
         ELSE /\ piperead(READSIZE)
              /\ received' = received \o SubSeq(Contents, 1, Taken(READSIZE))
              /\ pc' = [cat |-> Woken("cat", "write_sleep", "write"),
                        sink |-> Return("sink", IF Taken(READSIZE) = 0 THEN "exit" ELSE "read")]
    /\ UNCHANGED <<consoleVars, killed, buf, i, keys, typed>>

SinkSleeps ==
    /\ pc["sink"] = "read_test"
    /\ pc' = [pc EXCEPT !["sink"] = "read_sleep"]
    /\ UNCHANGED <<consoleVars, pipeVars, killed, buf, i, keys, typed, received>>

\* exit() closes the end of the pipe that the process has open.
Exit(p) ==
    /\ pc[p] = "exit" /\ PipeFree
    /\ pipeclose(p = "cat")
    /\ pc' = [cat |-> IF p = "cat" THEN "gone" ELSE Woken("cat", "write_sleep", "write"),
              sink |-> IF p = "sink" THEN "gone" ELSE Woken("sink", "read_sleep", "read")]
    /\ buf' = IF p = "cat" THEN <<>> ELSE buf
    /\ UNCHANGED <<consoleVars, killed, i, keys, typed, received>>

\* kill() needs neither lock, so it can come between a test and the sleep().
Kill(p) ==
    /\ pc[p] # "gone" /\ ~killed[p]
    /\ killed' = [killed EXCEPT ![p] = TRUE]
    /\ pc' = [pc EXCEPT ![p] = CASE @ \in {"console_sleep", "read_sleep"} -> "read"
                                 [] @ = "write_sleep" -> "write"
                                 [] OTHER -> @]
    /\ UNCHANGED <<consoleVars, pipeVars, buf, i, keys, typed, received>>

-----------------------------------------------------------------------------
Cat == CatReads \/ CatSleeps \/ CatWrites \/ CatWaits \/ Exit("cat")
Sink == SinkReads \/ SinkSleeps \/ Exit("sink")

TerminalNext == Cat \/ Sink \/ (\E key \in Key : Type(key)) \/ (\E p \in Process : Kill(p))

-----------------------------------------------------------------------------
(***************************************************************************)
(* What is typed arrives: the second process has received, in order, what  *)
(* was committed with a newline, ^D or a full ring and not erased before   *)
(* that, except for what is still in the pipe, in the buffer of cat or in  *)
(* the console.  Something is missing only after cat has been killed or    *)
(* the reading end closed, and never from the middle.                      *)
(***************************************************************************)
Stream ==
    /\ IsPrefix(received \o Contents, NotEof(typed))
    /\ ~killed["cat"] /\ readopen =>
          received \o Contents \o SubSeq(buf, i + 1, Len(buf)) \o NotEof(Committed) = NotEof(typed)

(***************************************************************************)
(* The console cannot get stuck full: when the ring has no room for        *)
(* another key, all of it is committed and a reader can take it.           *)
(***************************************************************************)
FullIsCommitted ==
    /\ Dist(input.r, input.w) + Dist(input.w, input.e) = Dist(input.r, input.e)
    /\ Dist(input.r, input.e) <= INPUT_BUF
    /\ ~HasRoom => input.w = input.e

(***************************************************************************)
(* cgaputc() never stores outside of the screen, which has one row more    *)
(* than scroll, wherever the cursor was when the kernel started.           *)
(***************************************************************************)
CursorOnScreen == pos \in 0 .. (ROWS + 1) * COLS - 1

(***************************************************************************)
(* ^D ends the pipeline: whatever the order of reads, writes, kills and    *)
(* sleeps, some consoleread() returns 0 for it, cat exits, and the second  *)
(* process sees the end of the pipe and exits.                             *)
(***************************************************************************)
PipelineEnds == "eof" \in Range(typed) ~> pc["sink"] = "gone"
=============================================================================
