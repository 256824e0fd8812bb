-------------------------------- MODULE Log ---------------------------------
(***************************************************************************)
(* The log of log.c: begin_op, log_write and end_op of several processes,  *)
(* the commit by the last of them, and recovery after a crash between any  *)
(* two disk writes.                                                        *)
(*                                                                         *)
(* A critical section of log.lock is one action, and so is each write of a *)
(* block to the disk, which bwrite() waits for.  A block holds a sequence  *)
(* of numbers: the header block the block numbers in lh, a data block one  *)
(* value, a block of zeroes none.  The buffer cache is external to this    *)
(* module: cache is what bread() returns, and a buffer that is not dirty   *)
(* may be recycled at any time and read again.                             *)
(***************************************************************************)
EXTENDS Integers, Sequences, FiniteSets

CONSTANTS
    Process,        \* who makes file system calls
    Block,          \* home blocks of the file system that calls write
    Value,          \* what they write
    FSSIZE,         \* size of the disk in blocks
    MAXOPBLOCKS,    \* blocks begin_op() reserves for a call
    OPBLOCKS        \* blocks a call writes at most

LOGSIZE == MAXOPBLOCKS * 3      \* capacity of log.lh.block
NBUF == MAXOPBLOCKS * 3         \* buffers in the cache
NLOG == LOGSIZE                 \* sb.nlog, the log blocks mkfs sets aside

ASSUME SizeAssumption ==
    /\ {FSSIZE, MAXOPBLOCKS, OPBLOCKS} \subseteq Nat \ {0}
    /\ NLOG < FSSIZE
ASSUME BlockAssumption == Block \subseteq 0 .. (FSSIZE - NLOG - 1)
ASSUME ValueAssumption == Value \subseteq Nat

VARIABLES
    disk,           \* contents of the blocks of the two disks
    cache,          \* what bread() returns for a block
    dirty,          \* blocks whose buffer is B_DIRTY
    dev, start,     \* log.dev, log.start
    lh,             \* log.lh, as the sequence of its first n block numbers
    outstanding,    \* log.outstanding
    stage,          \* what the committing or recovering process is doing
    tail,           \* its loop variable
    pc,             \* where a process is
    wrote,          \* the blocks its call has written
    panic           \* the message of the panic() that froze the machine, or "none"

memory == <<cache, dirty, dev, start, lh, outstanding, stage, tail, pc, wrote, panic>>
vars == <<disk, memory>>

ROOTDEV == 1
Addr == {0, ROOTDEV} \X (0 .. (FSSIZE - 1))

LogStart == FSSIZE - NLOG

\* The blocks log.c addresses.
HeadBlock == <<dev, start>>
LogBlock(i) == <<dev, start + i>>
Home(b) == <<dev, b>>

\* boot and recover come before the first system call, log and install are
\* the two loops of commit(), done its return.
Stages == {"boot", "recover", "idle", "log", "install", "done"}
committing == stage \in {"log", "install", "done"}

\* A process is outside of the file system, at the test of begin_op(), asleep
\* in it, in its call, or in the commit() of end_op().
Places == {"out", "begin", "asleep", "op", "commit"}

Content == Seq(Nat)

TypeOK ==
    /\ disk \in [Addr -> Content]
    /\ cache \in [Addr -> Content]
    /\ dirty \subseteq Addr
    /\ dev \in {0, ROOTDEV}
    /\ start \in {0, LogStart}
    /\ lh \in Seq(Block)
    /\ outstanding \in Nat
    /\ stage \in Stages
    /\ tail \in 0 .. Len(lh)
    /\ pc \in [Process -> Places]
    /\ wrote \in [Process -> SUBSET Block]
    /\ panic \in {"none", "bget: no buffers", "incorrect blockno", "log.committing"}

Init ==
    /\ disk = [a \in Addr |-> <<>>]
    /\ cache = disk
    /\ dirty = {}
    /\ dev = 0
    /\ start = 0
    /\ lh = <<>>
    /\ outstanding = 0
    /\ stage = "boot"
    /\ tail = 0
    /\ pc = [p \in Process |-> "out"]
    /\ wrote = [p \in Process |-> {}]
    /\ panic = "none"

-----------------------------------------------------------------------------
\* bread(), memmove() and bwrite(): block a gets the content v on the disk.
Put(a, v) ==
    /\ disk' = [disk EXCEPT ![a] = v]
    /\ cache' = [cache EXCEPT ![a] = v]
    /\ dirty' = dirty \ {a}

\* bget() finds every buffer dirty and none of them for block a.
NoBuffer(a) == a \notin dirty /\ Cardinality(dirty) >= NBUF

\* wakeup(&log)
Woken == [p \in Process |-> IF pc[p] = "asleep" THEN "begin" ELSE pc[p]]

Up == panic = "none" /\ stage \notin {"boot", "recover"}

-----------------------------------------------------------------------------
(***************************************************************************)
(* begin_op                                                                *)
(***************************************************************************)
\* Mutants: a call begins while a commit is under way; the call that begins is
\* not counted.
MustWait_Commits == Len(lh) + (outstanding + 1) * MAXOPBLOCKS > LOGSIZE

MustWait_OffByOne == committing \/ Len(lh) + outstanding * MAXOPBLOCKS > LOGSIZE

MustWait == committing \/ Len(lh) + (outstanding + 1) * MAXOPBLOCKS > LOGSIZE

BeginSleeps(p) ==
    /\ Up /\ pc[p] \in {"out", "begin"}
    /\ MustWait
    /\ pc' = [pc EXCEPT ![p] = "asleep"]
    /\ UNCHANGED <<disk, cache, dirty, dev, start, lh, outstanding, stage, tail, wrote, panic>>

BeginEnters(p) ==
    /\ Up /\ pc[p] \in {"out", "begin"}
    /\ ~MustWait
    /\ outstanding' = outstanding + 1
    /\ pc' = [pc EXCEPT ![p] = "op"]
    /\ wrote' = [wrote EXCEPT ![p] = {}]
    /\ UNCHANGED <<disk, cache, dirty, dev, start, lh, stage, tail, panic>>

-----------------------------------------------------------------------------
(***************************************************************************)
(* The caller changes a buffer that it holds BUSY and calls log_write.     *)
(***************************************************************************)
Logged == {lh[i] : i \in DOMAIN lh}

\* Mutant: a block that is logged already is logged again.
Modify_Twice(b, v) ==
    /\ cache' = [cache EXCEPT ![<<ROOTDEV, b>>] = <<v>>]
    /\ lh' = Append(lh, b)
    /\ dirty' = dirty \cup {<<ROOTDEV, b>>}

Modify(b, v) ==
    /\ cache' = [cache EXCEPT ![<<ROOTDEV, b>>] = <<v>>]
    /\ lh' = IF b \in Logged THEN lh ELSE Append(lh, b)
    /\ dirty' = dirty \cup {<<ROOTDEV, b>>}

\* The code does not check that the header has room left; what happens behind
\* the end of the array is not modelled.
LogWrite(p, b, v) ==
    /\ Up /\ pc[p] = "op"
    /\ Cardinality(wrote[p] \cup {b}) <= OPBLOCKS
    /\ Len(lh) <= LOGSIZE
    /\ IF NoBuffer(<<ROOTDEV, b>>)
         THEN panic' = "bget: no buffers" /\ UNCHANGED <<cache, dirty, lh>>
         ELSE Modify(b, v) /\ UNCHANGED panic
    /\ wrote' = [wrote EXCEPT ![p] = @ \cup {b}]
    /\ UNCHANGED <<disk, dev, start, outstanding, stage, tail, pc>>

-----------------------------------------------------------------------------
(***************************************************************************)
(* end_op and commit                                                       *)
(***************************************************************************)
EndOp(p) ==
    /\ Up /\ pc[p] = "op"
    /\ outstanding' = outstanding - 1
    /\ panic' = IF committing THEN "log.committing" ELSE panic
    /\ IF outstanding = 1
         THEN /\ stage' = IF Len(lh) > 0 THEN "log" ELSE "done"
              /\ tail' = 0
              /\ pc' = [pc EXCEPT ![p] = "commit"]
         ELSE /\ pc' = [Woken EXCEPT ![p] = "out"]
              /\ UNCHANGED <<stage, tail>>
    /\ UNCHANGED <<disk, cache, dirty, dev, start, lh, wrote>>

\* One round of write_log(): bread() needs a buffer for the block of the log,
\* and idestart() panics behind the end of the disk.
WriteLog ==
    /\ panic = "none" /\ stage = "log" /\ tail < Len(lh)
    /\ panic' = IF NoBuffer(LogBlock(tail + 1)) THEN "bget: no buffers"
                ELSE IF start + tail + 1 >= FSSIZE THEN "incorrect blockno"
                ELSE "none"
    /\ IF panic' = "none"
         THEN /\ Put(LogBlock(tail + 1), cache[Home(lh[tail + 1])])
              /\ tail' = tail + 1
         ELSE UNCHANGED <<disk, cache, dirty, tail>>
    /\ UNCHANGED <<dev, start, lh, outstanding, stage, pc, wrote>>

\* The real commit.
WriteHead ==
    /\ panic = "none" /\ stage = "log" /\ tail = Len(lh)
    /\ Put(HeadBlock, lh)
    /\ stage' = "install"
    /\ tail' = 0
    /\ UNCHANGED <<dev, start, lh, outstanding, pc, wrote, panic>>

\* One round of install_trans().
InstallTrans ==
    /\ panic = "none" /\ stage \in {"recover", "install"} /\ tail < Len(lh)
    /\ Put(Home(lh[tail + 1]), cache[LogBlock(tail + 1)])
    /\ tail' = tail + 1
    /\ UNCHANGED <<dev, start, lh, outstanding, stage, pc, wrote, panic>>

\* log.lh.n = 0; write_head();
ClearHead ==
    /\ panic = "none" /\ stage \in {"recover", "install"} /\ tail = Len(lh)
    /\ lh' = <<>>
    /\ Put(HeadBlock, <<>>)
    /\ stage' = IF stage = "recover" THEN "idle" ELSE "done"
    /\ tail' = 0
    /\ UNCHANGED <<dev, start, outstanding, pc, wrote, panic>>

\* Mutant: log.committing stays set.
CommitReturns_Stays(p) ==
    /\ panic = "none" /\ pc[p] = "commit" /\ stage = "done"
    /\ pc' = [Woken EXCEPT ![p] = "out"]
    /\ UNCHANGED <<disk, cache, dirty, dev, start, lh, outstanding, stage, tail, wrote, panic>>

\* The rest of end_op() after commit().
CommitReturns(p) ==
    /\ panic = "none" /\ pc[p] = "commit" /\ stage = "done"
    /\ stage' = "idle"
    /\ pc' = [Woken EXCEPT ![p] = "out"]
    /\ UNCHANGED <<disk, cache, dirty, dev, start, lh, outstanding, tail, wrote, panic>>

-----------------------------------------------------------------------------
(***************************************************************************)
(* The buffer cache, crashes and recovery                                  *)
(***************************************************************************)
\* bget() recycles a buffer that is not dirty.
Recycle(a) ==
    /\ panic = "none"
    /\ a \notin dirty
    /\ cache' = [cache EXCEPT ![a] = disk[a]]
    /\ UNCHANGED <<disk, dirty, dev, start, lh, outstanding, stage, tail, pc, wrote, panic>>

\* The machine stops at any time, or after a panic, and is started again.
Reboot ==
    /\ cache' = disk
    /\ dirty' = {}
    /\ dev' = 0
    /\ start' = 0
    /\ lh' = <<>>
    /\ outstanding' = 0
    /\ stage' = "boot"
    /\ tail' = 0
    /\ pc' = [p \in Process |-> "out"]
    /\ wrote' = [p \in Process |-> {}]
    /\ panic' = "none"
    /\ UNCHANGED disk

\* initlog(), called by the first process, up to the loop of install_trans().
InitLog ==
    /\ stage = "boot"
    /\ dev' = ROOTDEV
    /\ start' = LogStart
    /\ lh' = cache[<<ROOTDEV, LogStart>>]
    /\ stage' = "recover"
    /\ tail' = 0
    /\ UNCHANGED <<disk, cache, dirty, outstanding, pc, wrote, panic>>

-----------------------------------------------------------------------------
Call(p) ==
    \/ BeginSleeps(p) \/ BeginEnters(p) \/ EndOp(p) \/ CommitReturns(p)
    \/ \E b \in Block, v \in Value : LogWrite(p, b, v)

Next ==
    \/ \E p \in Process : Call(p)
    \/ WriteLog \/ WriteHead \/ InstallTrans \/ ClearHead
    \/ \E a \in Addr : Recycle(a)
    \/ Reboot
    \/ InitLog

Spec == Init /\ [][Next]_vars

-----------------------------------------------------------------------------
(***************************************************************************)
(* What recovery makes of a home block: its copy in the log when the       *)
(* header on the disk names it, what is at home otherwise.                 *)
(***************************************************************************)
Recovered(b) ==
    LET h == disk[<<ROOTDEV, LogStart>>]
    IN  IF \E i \in DOMAIN h : h[i] = b
          THEN disk[<<ROOTDEV, LogStart + CHOOSE i \in DOMAIN h : h[i] = b>>]
          ELSE disk[<<ROOTDEV, b>>]

Stable == [b \in Block |-> Recovered(b)]
Visible == IF stage \in {"boot", "recover"} THEN Stable
           ELSE [b \in Block |-> cache[<<ROOTDEV, b>>]]

Atomic == INSTANCE AtomicDisk WITH
    active <- {p \in Process : pc[p] = "op"},
    mem <- Visible,
    stable <- Stable,
    Empty <- <<>>

(***************************************************************************)
(* A crash never leaves part of a call on the disk: begin_op, log_write,   *)
(* end_op, commit and recover_from_log implement a disk on which groups of *)
(* calls take effect at once, wherever the machine stops.                  *)
(***************************************************************************)
ImplementsAtomicDisk == Atomic!Spec

(***************************************************************************)
(* A process asleep in begin_op() is woken: some call is still to end or   *)
(* a commit is under way, and both call wakeup(&log).                      *)
(***************************************************************************)
SleeperHasWaker ==
    \A p \in Process : pc[p] = "asleep" => outstanding > 0 \/ committing

(***************************************************************************)
(* The header never overflows its array, although the check in log_write() *)
(* is commented out: a block is logged once, it stays dirty, and there are *)
(* no more buffers than entries.                                           *)
(***************************************************************************)
LogFits == Len(lh) <= LOGSIZE

(***************************************************************************)
(* What begin_op() reserves is enough: while calls write no more than      *)
(* MAXOPBLOCKS blocks each, log_write() always finds room for them.        *)
(***************************************************************************)
ReservationHolds ==
    [][\A p \in Process, b \in Block, v \in Value :
          LogWrite(p, b, v) => panic' = "none"]_vars

-----------------------------------------------------------------------------
(***************************************************************************)
(* Calls end, disk writes complete and a woken process goes on; nothing is *)
(* assumed about when calls begin or the machine is rebooted.              *)
(***************************************************************************)
Fairness ==
    /\ \A p \in Process :
          /\ WF_vars(EndOp(p))
          /\ WF_vars(CommitReturns(p))
          /\ WF_vars(pc[p] = "begin" /\ (BeginSleeps(p) \/ BeginEnters(p)))
    /\ WF_vars(WriteLog \/ WriteHead \/ InstallTrans \/ ClearHead \/ InitLog)

FairSpec == Spec /\ Fairness

(***************************************************************************)
(* Nobody sleeps in begin_op() for ever: the calls it waits for end, the   *)
(* commit comes to its end whatever else happens, and it is woken (to find *)
(* the log full again, perhaps).                                           *)
(***************************************************************************)
SleeperWakes ==
    \A p \in Process : pc[p] = "asleep" ~> pc[p] # "asleep" \/ panic # "none"
=============================================================================
