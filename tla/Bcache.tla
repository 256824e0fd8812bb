-------------------------------- MODULE Bcache -------------------------------
(***************************************************************************)
(* The buffer cache (bio.c) on top of the disk driver.  Processes read     *)
(* blocks, change them, write them or leave them to the log, and release   *)
(* them.  A process uses one buffer at a time here.  A critical section of *)
(* bcache.lock is one action.                                              *)
(***************************************************************************)
EXTENDS Ide, FiniteSets, FiniteSetsExt, TLC

CONSTANTS
    MAXPINNED,      \* buffers the log keeps dirty at the same time
    Written         \* the blocks that processes change; they read all others

ASSUME BufferAssumption ==
    /\ 0 \in Value /\ Written \subseteq Block
    /\ Cardinality(Buffers) >= MAXPINNED + Cardinality(Process)

VARIABLES
    mru,            \* the list of the buffers, head.next first
    blk             \* the block each process is after

vars == <<buf, ideVars, pc, b, panic, mru, blk>>

NoBuffer == "none"

\* binit() links the empty buffers in one order; which one makes no difference.
Init ==
    /\ buf = [x \in Buffers |-> [blockno |-> NoBlock, flags |-> {}, data |-> 0]]
    /\ disk = [k \in Block |-> 0]
    /\ idequeue = <<>>
    /\ drive = Idle
    /\ suspect = {}
    /\ faults = 0
    /\ pc = [p \in Process |-> "out"]
    /\ b = [p \in Process |-> NoBuffer]
    /\ panic = FALSE
    /\ mru \in SetToSeqs(Buffers)
    /\ blk = [p \in Process |-> NoBlock]

Cached(k) == {x \in Buffers : buf[x].blockno = k}

\* Recycling starts at the least recently used end of the list.
Recyclable_Dirty == SelectInSeq(Reverse(mru), LAMBDA x : "BUSY" \notin buf[x].flags)

Recyclable == SelectInSeq(Reverse(mru), LAMBDA x : buf[x].flags \cap {"BUSY", "DIRTY"} = {})
Victim == Reverse(mru)[Recyclable]

\* bread() goes to the disk if the buffer bget() returns is not valid.
Got(p, x, valid) ==
    /\ b' = [b EXCEPT ![p] = x]
    /\ pc' = [pc EXCEPT ![p] = IF valid THEN "held" ELSE "iderw"]

\* p looks for block k: at the start, or again after its sleep().
Looks(p, k) == ~panic /\ (pc[p] = "out" \/ (pc[p] = "bget" /\ blk[p] = k))

\* The block is cached and nobody uses it.
bgetHit(p, k) ==
    /\ Looks(p, k)
    /\ \E x \in Cached(k) :
         /\ ~Has(x, "BUSY")
         /\ buf' = [buf EXCEPT ![x].flags = @ \cup {"BUSY"}]
         /\ Got(p, x, Has(x, "VALID"))
    /\ blk' = [blk EXCEPT ![p] = k]
    /\ UNCHANGED <<ideVars, panic, mru>>

\* It is in use: sleep on the buffer, and look again from the start.
bgetSleeps(p, k) ==
    /\ Looks(p, k)
    /\ \E x \in Cached(k) :
         /\ Has(x, "BUSY")
         /\ b' = [b EXCEPT ![p] = x]
    /\ pc' = [pc EXCEPT ![p] = "bget_sleep"]
    /\ blk' = [blk EXCEPT ![p] = k]
    /\ UNCHANGED <<buf, ideVars, panic, mru>>

\* It is not cached: recycle a buffer that is neither in use nor dirty.
bgetRecycles(p, k) ==
    /\ Looks(p, k) /\ Cached(k) = {}
    /\ IF Recyclable = 0 THEN panic' = TRUE /\ UNCHANGED <<buf, b, pc>>
       ELSE /\ buf' = [buf EXCEPT ![Victim].blockno = k, ![Victim].flags = {"BUSY"}]
            /\ Got(p, Victim, FALSE)
            /\ UNCHANGED panic
    /\ blk' = [blk EXCEPT ![p] = k]
    /\ UNCHANGED <<ideVars, mru>>

-----------------------------------------------------------------------------
\* The user changes the data and calls bwrite().
bwrite(p, v) ==
    /\ ~panic /\ pc[p] = "held" /\ blk[p] \in Written
    /\ buf' = [buf EXCEPT ![b[p]].data = v, ![b[p]].flags = @ \cup {"DIRTY"}]
    /\ pc' = [pc EXCEPT ![p] = "iderw"]
    /\ UNCHANGED <<ideVars, b, panic, mru, blk>>

Pinned == {x \in Buffers : Has(x, "DIRTY")}

\* The user changes the data and calls log_write(), which leaves the buffer
\* dirty until the log commits; the log's reservations bound their number.
log_write(p, v) ==
    /\ ~panic /\ pc[p] = "held" /\ blk[p] \in Written
    /\ Cardinality(Pinned \cup {b[p]}) <= MAXPINNED
    /\ buf' = [buf EXCEPT ![b[p]].data = v, ![b[p]].flags = @ \cup {"DIRTY"}]
    /\ UNCHANGED <<ideVars, pc, b, panic, mru, blk>>

brelse(p) ==
    /\ ~panic /\ pc[p] = "held"
    /\ mru' = <<b[p]>> \o Remove(mru, b[p])
    /\ buf' = [buf EXCEPT ![b[p]].flags = @ \ {"BUSY"}]
    /\ pc' = [Wakeup(b[p]) EXCEPT ![p] = "out"]
    /\ blk' = [blk EXCEPT ![p] = NoBlock]
    /\ b' = [b EXCEPT ![p] = NoBuffer]
    /\ UNCHANGED <<ideVars, panic>>

\* The steps of the driver leave the cache's list alone.
DriverRuns(p) == (iderw(p) \/ iderwLoop(p)) /\ UNCHANGED <<mru, blk>>
Interrupt == (ideintr \/ ideintrError) /\ UNCHANGED <<mru, blk>>

Next ==
    \/ \E p \in Process :
         \/ \E k \in Block : bgetHit(p, k) \/ bgetSleeps(p, k) \/ bgetRecycles(p, k)
         \/ brelse(p)
         \/ \E v \in Value : bwrite(p, v) \/ log_write(p, v)
         \/ DriverRuns(p)
    \/ Interrupt

Spec == Init /\ [][Next]_vars

Symmetry ==
    Permutations(Process) \cup Permutations(Buffers) \cup Permutations(Block \ Written)

-----------------------------------------------------------------------------
\* p is between its bget() and its brelse().
Uses(p, x) == pc[p] \in {"iderw", "ide_sleep", "ide_woken", "held"} /\ b[p] = x

(***************************************************************************)
(* Who sleeps will be woken: in bget() the buffer is in use by another     *)
(* process, in iderw() it is in the queue, and the drive works on the      *)
(* request of the head of the queue and on no other.                       *)
(***************************************************************************)
SleeperHasWaker ==
    /\ \A p \in Process :
         /\ pc[p] = "bget_sleep" => Has(b[p], "BUSY")
         /\ pc[p] = "ide_sleep" => b[p] \in Range(idequeue)
    /\ IsInjective(idequeue)
    /\ IF idequeue = <<>> THEN drive = Idle
       ELSE drive # Idle /\ drive.blockno = buf[Head(idequeue)].blockno

(***************************************************************************)
(* Cache and driver together are the abstract block store: what a process  *)
(* leaves in a block is what the next one finds there, whatever has been   *)
(* recycled and written in between, and an error stays with its block.     *)
(***************************************************************************)
Store == INSTANCE BlockStore WITH
    InitialValue <- [k \in Block |-> 0],
    value <- [k \in Block |->
        IF \E x \in Cached(k) : Has(x, "VALID")
        THEN buf[CHOOSE x \in Cached(k) : Has(x, "VALID")].data ELSE disk[k]],
    user <- [k \in Block |->
        IF \E p \in Process : blk[p] = k /\ Uses(p, b[p]) /\ Has(b[p], "VALID")
        THEN CHOOSE p \in Process : blk[p] = k /\ Uses(p, b[p]) /\ Has(b[p], "VALID") ELSE Nobody]

ImplementsStore == Store!Spec
=============================================================================
