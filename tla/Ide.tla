--------------------------------- MODULE Ide ---------------------------------
(***************************************************************************)
(* The disk driver (ide.c): a queue of buffers whose head is the request   *)
(* the drive works on.  The drive is external: it executes a command, or   *)
(* fails it, at the time of its interrupt.  A critical section of idelock  *)
(* is one action; sleep() gives the lock up and sleeps in one step (Sleep  *)
(* shows that no wakeup is lost in between).                               *)
(***************************************************************************)
EXTENDS Integers, Sequences, SequencesExt

CONSTANTS
    Process, Block,
    Value,          \* contents of a block
    Buffers,        \* the NBUF buffers of the cache
    MAXFAULTS       \* commands the drive may fail

VARIABLES
    buf,            \* the buffers: blockno, flags and data
    disk,           \* contents of the blocks on the disk
    idequeue,
    drive,          \* the command the drive executes
    suspect,        \* history: blocks the drive has failed a command for
    faults,         \* how many commands it has failed
    pc, b,          \* where each process is, and the buffer it uses
    panic

ideVars == <<disk, idequeue, drive, suspect, faults>>

NoBlock == "none"
Nobody == "nobody"
Idle == [cmd |-> "none"]

Has(x, f) == f \in buf[x].flags

\* wakeup(x): who sleeps on buffer x looks again, in bget() or in iderw().
Wakeup(x) ==
    [p \in Process |-> CASE pc[p] = "bget_sleep" /\ b[p] = x -> "bget"
                         [] pc[p] = "ide_sleep" /\ b[p] = x -> "ide_woken"
                         [] OTHER -> pc[p]]

\* The sectors and the command idestart() sends; a write carries its data.
idestart(x) ==
    [cmd |-> IF Has(x, "DIRTY") THEN "write" ELSE "read",
     blockno |-> buf[x].blockno, data |-> buf[x].data]

iderw(p) ==
    /\ ~panic /\ pc[p] = "iderw"
    /\ IF ~Has(b[p], "BUSY") \/ (Has(b[p], "VALID") /\ ~Has(b[p], "DIRTY"))
         THEN panic' = TRUE /\ UNCHANGED <<idequeue, drive, pc>>
         ELSE /\ idequeue' = Append(idequeue, b[p])
              /\ drive' = IF idequeue = <<>> THEN idestart(b[p]) ELSE drive
              /\ pc' = [pc EXCEPT ![p] = "ide_sleep"]
              /\ UNCHANGED panic
    /\ UNCHANGED <<buf, disk, suspect, faults, b>>

\* The loop of iderw() behind its sleep().
iderwLoop(p) ==
    /\ ~panic /\ pc[p] = "ide_woken"
    /\ pc' = [pc EXCEPT ![p] = IF Has(b[p], "VALID") /\ ~Has(b[p], "DIRTY") THEN "held"
                               ELSE "ide_sleep"]
    /\ UNCHANGED <<buf, ideVars, b, panic>>

\* What insl() reads; idewait(1) looks at the status before, and only then.
Transfer(x, ok) == IF ok /\ ~Has(x, "DIRTY") THEN disk[buf[x].blockno] ELSE buf[x].data

\* The handler forgets to start the next request.
Finish_Idles(x, ok) ==
    /\ buf' = [buf EXCEPT ![x].data = Transfer(x, ok),
                          ![x].flags = (@ \cup {"VALID"}) \ {"DIRTY"}]
    /\ pc' = Wakeup(x)
    /\ drive' = Idle

\* The end of ideintr(): flags, wakeup() and the next request.
Finish(x, ok) ==
    /\ buf' = [buf EXCEPT ![x].data = Transfer(x, ok),
                          ![x].flags = (@ \cup {"VALID"}) \ {"DIRTY"}]
    /\ pc' = Wakeup(x)
    /\ drive' = IF idequeue' = <<>> THEN Idle ELSE idestart(Head(idequeue'))

\* The drive has executed its command and interrupts.  An interrupt that finds
\* the queue empty changes nothing.
ideintr ==
    /\ ~panic /\ drive # Idle /\ idequeue # <<>>
    /\ idequeue' = Tail(idequeue)
    /\ disk' = IF drive.cmd = "write" THEN [disk EXCEPT ![drive.blockno] = drive.data] ELSE disk
    /\ Finish(Head(idequeue), TRUE)
    /\ UNCHANGED <<suspect, faults, b, panic>>

\* The drive has failed the command: nothing is written, nothing can be read,
\* and nobody is told.
ideintrError ==
    /\ ~panic /\ drive # Idle /\ idequeue # <<>> /\ faults < MAXFAULTS
    /\ idequeue' = Tail(idequeue)
    /\ faults' = faults + 1
    /\ suspect' = suspect \cup {drive.blockno}
    /\ Finish(Head(idequeue), FALSE)
    /\ UNCHANGED <<disk, b, panic>>
=============================================================================
