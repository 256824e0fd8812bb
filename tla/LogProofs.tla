----------------------------- MODULE LogProofs ------------------------------
(***************************************************************************)
(* Proofs about the log, for every number of processes and blocks, every   *)
(* disk and every reservation.                                             *)
(***************************************************************************)
EXTENDS LogInv, FiniteSetTheorems, TLAPS

(***************************************************************************)
(* The blocks of the file system, the header and the blocks of the log do  *)
(* not overlap.                                                            *)
(***************************************************************************)
LEMMA Sizes ==
    /\ FSSIZE \in Nat /\ LogStart \in Nat /\ LogStart < FSSIZE
    /\ MAXOPBLOCKS \in Nat /\ MAXOPBLOCKS > 0
    /\ LOGSIZE = MAXOPBLOCKS * 3 /\ NBUF = MAXOPBLOCKS * 3
    /\ LOGSIZE \in Nat /\ NBUF \in Nat
    /\ Block \subseteq Nat /\ \A b \in Block : b < LogStart
BY SizeAssumption, BlockAssumption DEF LogStart, NLOG, LOGSIZE, NBUF

LEMMA Addresses ==
    /\ \A b \in Block : Root(b) \in Addr
    /\ Root(LogStart) \in Addr
    /\ \A i \in Nat : LogStart + i < FSSIZE => Root(LogStart + i) \in Addr
    /\ \A b \in Block : Root(b) # Root(LogStart)
    /\ \A b \in Block, i \in Nat : Root(b) # Root(LogStart + i)
    /\ \A i \in Nat \ {0} : Root(LogStart) # Root(LogStart + i)
    /\ \A i, j \in Nat : Root(LogStart + i) = Root(LogStart + j) => i = j
    /\ \A b, c \in Block : Root(b) = Root(c) => b = c
BY Sizes DEF Root, Addr, ROOTDEV

LEMMA BlockSeq == \A s \in Seq(Block) : s \in Content
<1> TAKE s \in Seq(Block)
<1>1. Len(s) \in Nat /\ DOMAIN s = 1 .. Len(s) /\ \A i \in 1 .. Len(s) : s[i] \in Block
  OBVIOUS
<1>2. s \in [1 .. Len(s) -> Nat]
  <2>1. s = [i \in 1 .. Len(s) |-> s[i]]
    BY <1>1
  <2> QED BY <1>1, <2>1, Sizes
<1> QED BY <1>1, <1>2 DEF Content

(***************************************************************************)
(* From initlog() on, log.c works on the log of the root disk.             *)
(***************************************************************************)
LEMMA Places1 ==
    ASSUME AddrInv, stage # "boot"
    PROVE  /\ HeadBlock = Root(LogStart)
           /\ \A i : LogBlock(i) = Root(LogStart + i)
           /\ \A b : Home(b) = Root(b)
BY DEF AddrInv, HeadBlock, LogBlock, Home, Root

(***************************************************************************)
(* Calls only run while no commit is under way.                            *)
(***************************************************************************)
LEMMA OpIdle ==
    ASSUME Inv, NEW p \in Process, pc[p] = "op"
    PROVE  stage = "idle" /\ outstanding > 0 /\ outstanding \in Nat
<1>1. p \in Ops
  BY DEF Ops
<1>2. IsFiniteSet(Ops) /\ outstanding = Cardinality(Ops)
  BY DEF Inv, CountInv
<1>3. outstanding # 0
  BY <1>1, <1>2, FS_EmptySet
<1>4. outstanding \in Nat
  BY <1>2, FS_CardinalityType
<1> QED BY <1>3, <1>4 DEF Inv, CountInv

(***************************************************************************)
(* Counting the calls.                                                     *)
(***************************************************************************)
LEMMA OpsChange ==
    ASSUME TypeOK, CountInv, NEW p \in Process
    PROVE  /\ pc[p] # "op" => /\ IsFiniteSet(Ops \cup {p})
                              /\ Cardinality(Ops \cup {p}) = outstanding + 1
           /\ pc[p] = "op" => /\ IsFiniteSet(Ops \ {p})
                              /\ Cardinality(Ops \ {p}) = outstanding - 1
<1>1. IsFiniteSet(Ops) /\ outstanding = Cardinality(Ops)
  BY DEF CountInv
<1>2. CASE pc[p] # "op"
  <2>1. p \notin Ops
    BY <1>2 DEF Ops
  <2> QED BY <1>1, <1>2, <2>1, FS_AddElement
<1>3. CASE pc[p] = "op"
  <2>1. p \in Ops
    BY <1>3 DEF Ops
  <2> QED BY <1>1, <1>3, <2>1, FS_RemoveElement
<1> QED BY <1>2, <1>3

LEMMA InvInit == Init => Inv
<1> SUFFICES ASSUME Init PROVE Inv
  OBVIOUS
<1> USE DEF Init
<1>1. TypeOK
  BY Sizes DEF TypeOK, Content, Stages, Places, ROOTDEV
<1>2. CountInv
  <2>1. Ops = {}
    BY DEF Ops
  <2> QED BY <2>1, FS_EmptySet DEF CountInv
<1>3. AddrInv
  BY DEF AddrInv
<1>4. header = <<>>
  BY Addresses DEF header
<1>5. HeaderInv
  BY <1>4, Sizes DEF HeaderInv
<1>6. BufferInv
  BY FS_EmptySet, Sizes DEF BufferInv
<1>7. StageInv
  BY <1>4 DEF StageInv
<1>8. SleeperHasWaker
  BY DEF SleeperHasWaker
<1> QED BY <1>1, <1>2, <1>3, <1>5, <1>6, <1>7, <1>8 DEF Inv

-----------------------------------------------------------------------------
(***************************************************************************)
(* The types, one by one.                                                  *)
(***************************************************************************)
LEMMA Types ==
    ASSUME TypeOK
    PROVE  /\ disk \in [Addr -> Content] /\ cache \in [Addr -> Content]
           /\ dirty \subseteq Addr
           /\ lh \in Seq(Block) /\ Len(lh) \in Nat /\ DOMAIN lh = 1 .. Len(lh)
           /\ tail \in Nat /\ tail <= Len(lh)
           /\ \A i \in 1 .. Len(lh) : lh[i] \in Block
           /\ outstanding \in Nat
           /\ pc \in [Process -> Places]
           /\ wrote \in [Process -> SUBSET Block]
<1>1. lh \in Seq(Block) /\ tail \in 0 .. Len(lh)
  BY DEF TypeOK
<1>2. Len(lh) \in Nat /\ DOMAIN lh = 1 .. Len(lh)
  BY <1>1
<1>3. tail \in Nat /\ tail <= Len(lh)
  BY <1>1, <1>2
<1>4. \A i \in 1 .. Len(lh) : lh[i] \in Block
  BY <1>1
<1> QED BY <1>1, <1>2, <1>3, <1>4 DEF TypeOK

LEMMA TypesPut ==
    ASSUME TypeOK, NEW a \in Addr, NEW v \in Content, Put(a, v)
    PROVE  disk' \in [Addr -> Content] /\ cache' \in [Addr -> Content] /\ dirty' \subseteq Addr
BY Types DEF Put

\* The blocks that a round of install_trans() or write_log() works on.
LEMMA TailBlocks ==
    ASSUME TypeOK, AddrInv, stage # "boot", tail < Len(lh)
    PROVE  /\ tail + 1 \in Nat /\ tail + 1 \in 1 .. Len(lh) /\ lh[tail + 1] \in Block
           /\ Home(lh[tail + 1]) = Root(lh[tail + 1]) /\ Root(lh[tail + 1]) \in Addr
           /\ LogBlock(tail + 1) = Root(LogStart + (tail + 1))
           /\ LogStart + (tail + 1) < FSSIZE => Root(LogStart + (tail + 1)) \in Addr
<1>1. tail + 1 \in Nat /\ tail + 1 \in 1 .. Len(lh)
  BY Types
<1>2. lh[tail + 1] \in Block
  BY <1>1, Types
<1> QED BY <1>1, <1>2, Places1, Addresses

(***************************************************************************)
(* Each kind of step keeps the types.                                      *)
(***************************************************************************)
LEMMA TypeStep ==
    ASSUME Inv, Next
    PROVE  TypeOK'
<1>0. TypeOK /\ AddrInv
  BY DEF Inv
<1>1. ASSUME NEW p \in Process, BeginSleeps(p) PROVE TypeOK'
  <2>1. pc' \in [Process -> Places]
    BY <1>0, <1>1, Types DEF BeginSleeps, Places
  <2> QED BY <1>0, <1>1, <2>1 DEF BeginSleeps, TypeOK
<1>2. ASSUME NEW p \in Process, BeginEnters(p) PROVE TypeOK'
  <2>1. pc' \in [Process -> Places] /\ wrote' \in [Process -> SUBSET Block] /\ outstanding' \in Nat
    BY <1>0, <1>2, Types DEF BeginEnters, Places
  <2> QED BY <1>0, <1>2, <2>1 DEF BeginEnters, TypeOK
<1>3. ASSUME NEW p \in Process, EndOp(p) PROVE TypeOK'
  <2>1. outstanding' \in Nat
    BY <1>3, OpIdle DEF EndOp
  <2>2. pc' \in [Process -> Places]
    BY <1>0, <1>3, Types, ZenonT(30) DEF EndOp, Places, Woken
  <2>3. stage' \in Stages /\ panic' \in {"none", "bget: no buffers", "incorrect blockno", "log.committing"}
    BY <1>0, <1>3 DEF EndOp, Stages, TypeOK
  <2>4. tail' \in 0 .. Len(lh)
    BY <1>0, <1>3, Types DEF EndOp
  <2> QED BY <1>0, <1>3, <2>1, <2>2, <2>3, <2>4 DEF EndOp, TypeOK
<1>4. ASSUME NEW p \in Process, CommitReturns(p) PROVE TypeOK'
  <2>1. pc' \in [Process -> Places]
    BY <1>0, <1>4, Types DEF CommitReturns, Places, Woken
  <2> QED BY <1>0, <1>4, <2>1 DEF CommitReturns, Stages, TypeOK
<1>5. ASSUME NEW p \in Process, NEW b \in Block, NEW v \in Value, LogWrite(p, b, v)
      PROVE TypeOK'
  <2>1. Root(b) \in Addr /\ v \in Nat
    BY Addresses, ValueAssumption
  <2>2. <<v>> \in Content
    BY <2>1 DEF Content
  <2>3. cache' \in [Addr -> Content] /\ dirty' \subseteq Addr
    BY <1>0, <1>5, <2>1, <2>2, Types DEF LogWrite, Modify, Root
  <2>4. lh' = lh \/ lh' = Append(lh, b)
    BY <1>5 DEF LogWrite, Modify
  <2>5. lh' \in Seq(Block) /\ tail' \in 0 .. Len(lh')
    <3>1. lh \in Seq(Block) /\ tail \in 0 .. Len(lh) /\ tail' = tail
      BY <1>0, <1>5 DEF LogWrite, TypeOK
    <3>2. Append(lh, b) \in Seq(Block) /\ Len(Append(lh, b)) = Len(lh) + 1
      BY <3>1
    <3> QED BY <2>4, <3>1, <3>2
  <2>6. wrote' \in [Process -> SUBSET Block]
    BY <1>0, <1>5, Types DEF LogWrite
  <2> QED BY <1>0, <1>5, <2>3, <2>5, <2>6 DEF LogWrite, TypeOK
<1>6. CASE WriteLog
  <2>1. CASE panic' = "none"
    <3>1. stage # "boot" /\ tail < Len(lh) /\ start = LogStart
      BY <1>0, <1>6 DEF WriteLog, AddrInv
    <3>2. LogStart + (tail + 1) < FSSIZE
      BY <1>0, <1>6, <2>1, <3>1, Types, Sizes DEF WriteLog
    <3>3. cache[Home(lh[tail + 1])] \in Content
      BY <1>0, <3>1, TailBlocks, Types
    <3>4. disk' \in [Addr -> Content] /\ cache' \in [Addr -> Content] /\ dirty' \subseteq Addr
      BY <1>0, <1>6, <2>1, <3>1, <3>2, <3>3, TailBlocks, TypesPut DEF WriteLog
    <3>5. tail' \in 0 .. Len(lh)
      BY <1>0, <1>6, <2>1, Types DEF WriteLog
    <3> QED BY <1>0, <1>6, <2>1, <3>4, <3>5 DEF WriteLog, TypeOK
  <2>2. CASE panic' # "none"
    BY <1>0, <1>6, <2>2 DEF WriteLog, TypeOK
  <2> QED BY <2>1, <2>2
<1>7. CASE WriteHead
  <2>1. HeadBlock \in Addr /\ lh \in Content
    BY <1>0, <1>7, Places1, Addresses, Types, BlockSeq DEF WriteHead
  <2>2. disk' \in [Addr -> Content] /\ cache' \in [Addr -> Content] /\ dirty' \subseteq Addr
    BY <1>0, <1>7, <2>1, TypesPut DEF WriteHead
  <2>3. tail' \in 0 .. Len(lh)
    BY <1>0, <1>7, Types DEF WriteHead
  <2> QED BY <1>0, <1>7, <2>2, <2>3 DEF WriteHead, Stages, TypeOK
<1>8. CASE InstallTrans
  <2>1. stage # "boot" /\ tail < Len(lh)
    BY <1>8 DEF InstallTrans
  <2>2. header = lh /\ LogStart + Len(header) < FSSIZE
    BY <1>8 DEF InstallTrans, Inv, StageInv, HeaderInv
  <2>3. LogStart + (tail + 1) < FSSIZE
    BY <1>0, <2>1, <2>2, Types, Sizes
  <2>4. cache[LogBlock(tail + 1)] \in Content
    BY <1>0, <2>1, <2>3, TailBlocks, Types
  <2>5. disk' \in [Addr -> Content] /\ cache' \in [Addr -> Content] /\ dirty' \subseteq Addr
    BY <1>0, <1>8, <2>1, <2>4, TailBlocks, TypesPut DEF InstallTrans
  <2>6. tail' \in 0 .. Len(lh)
    BY <1>0, <1>8, Types DEF InstallTrans
  <2> QED BY <1>0, <1>8, <2>5, <2>6 DEF InstallTrans, TypeOK
<1>9. CASE ClearHead
  <2>1. HeadBlock \in Addr
    BY <1>0, <1>9, Places1, Addresses DEF ClearHead
  <2>2. <<>> \in Content /\ <<>> \in Seq(Block) /\ 0 \in 0 .. Len(<<>>)
    BY DEF Content
  <2>3. disk' \in [Addr -> Content] /\ cache' \in [Addr -> Content] /\ dirty' \subseteq Addr
    BY <1>0, <1>9, <2>1, <2>2, TypesPut DEF ClearHead
  <2> QED BY <1>0, <1>9, <2>2, <2>3 DEF ClearHead, Stages, TypeOK
<1>10. ASSUME NEW a \in Addr, Recycle(a) PROVE TypeOK'
  <2>1. cache' \in [Addr -> Content]
    BY <1>0, <1>10, Types DEF Recycle
  <2> QED BY <1>0, <1>10, <2>1 DEF Recycle, TypeOK
<1>11. CASE Reboot
  <2>1. <<>> \in Seq(Block) /\ 0 \in 0 .. Len(<<>>)
    OBVIOUS
  <2>2. pc' \in [Process -> Places] /\ wrote' \in [Process -> SUBSET Block]
    BY <1>11 DEF Reboot, Places
  <2>3. cache' \in [Addr -> Content] /\ disk' \in [Addr -> Content] /\ dirty' \subseteq Addr
    BY <1>0, <1>11, Types DEF Reboot
  <2> QED BY <1>11, <2>1, <2>2, <2>3 DEF Reboot, Stages, TypeOK
<1>12. CASE InitLog
  <2>1. lh' = header
    BY <1>0, <1>12, Addresses DEF InitLog, Inv, BufferInv, StageInv, Root, header
  <2>2. lh' \in Seq(Block) /\ tail' \in 0 .. Len(lh')
    BY <1>12, <2>1 DEF Inv, HeaderInv, InitLog
  <2> QED BY <1>0, <1>12, <2>2 DEF InitLog, Stages, ROOTDEV, TypeOK
<1> QED BY <1>1, <1>2, <1>3, <1>4, <1>5, <1>6, <1>7, <1>8, <1>9, <1>10, <1>11, <1>12 DEF Next, Call

(***************************************************************************)
(* A step of commit() or of the recovery.                                  *)
(***************************************************************************)
Committer == WriteLog \/ WriteHead \/ InstallTrans \/ ClearHead

(***************************************************************************)
(* outstanding counts the calls, and the last one commits.                 *)
(***************************************************************************)
LEMMA CountStep ==
    ASSUME Inv, Next
    PROVE  CountInv'
<1>0. TypeOK /\ CountInv /\ pc \in [Process -> Places] /\ outstanding \in Nat
  BY Types DEF Inv
<1>1. ASSUME NEW p \in Process, BeginSleeps(p) PROVE CountInv'
  <2>1. Ops' = Ops
    BY <1>0, <1>1 DEF BeginSleeps, Ops
  <2> QED BY <1>0, <1>1, <2>1 DEF BeginSleeps, CountInv
<1>2. ASSUME NEW p \in Process, BeginEnters(p) PROVE CountInv'
  <2>1. Ops' = Ops \cup {p} /\ pc[p] # "op"
    BY <1>0, <1>2 DEF BeginEnters, Ops
  <2>2. stage = "idle"
    BY <1>0, <1>2 DEF BeginEnters, Up, MustWait, committing, TypeOK, Stages
  <2>3. IsFiniteSet(Ops') /\ outstanding' = Cardinality(Ops')
    BY <1>0, <1>2, <2>1, OpsChange, ZenonT(30) DEF BeginEnters
  <2> QED BY <1>0, <1>2, <2>2, <2>3 DEF BeginEnters, CountInv
<1>3. ASSUME NEW p \in Process, EndOp(p) PROVE CountInv'
  <2>1. Ops' = Ops \ {p} /\ pc[p] = "op"
    BY <1>0, <1>3, ZenonT(30) DEF EndOp, Ops, Woken
  <2>2. IsFiniteSet(Ops') /\ outstanding' = Cardinality(Ops')
    BY <1>0, <1>3, <2>1, OpsChange, ZenonT(30) DEF EndOp
  <2>3. stage = "idle" /\ outstanding > 0
    BY <2>1, OpIdle
  <2> QED BY <1>0, <1>3, <2>2, <2>3 DEF EndOp, CountInv
<1>4. ASSUME NEW p \in Process, CommitReturns(p) PROVE CountInv'
  <2>1. Ops' = Ops
    BY <1>0, <1>4 DEF CommitReturns, Ops, Woken
  <2>2. lh' = <<>>
    BY <1>4 DEF CommitReturns, Inv, StageInv
  <2> QED BY <1>0, <1>4, <2>1, <2>2 DEF CommitReturns, CountInv
<1>5. ASSUME NEW p \in Process, NEW b \in Block, NEW v \in Value, LogWrite(p, b, v)
      PROVE CountInv'
  <2>1. Ops' = Ops
    BY <1>5 DEF LogWrite, Ops
  <2>2. stage = "idle" /\ outstanding > 0
    BY <1>5, OpIdle DEF LogWrite
  <2>3. outstanding' = outstanding /\ stage' = stage
    BY <1>5 DEF LogWrite
  <2> QED BY <1>0, <2>1, <2>2, <2>3 DEF CountInv
<1>6. ASSUME Committer PROVE CountInv'
  <2>1. Ops' = Ops /\ outstanding' = outstanding /\ stage # "idle"
    BY <1>6 DEF Committer, WriteLog, WriteHead, InstallTrans, ClearHead, Ops
  <2>2. stage' = "idle" => lh' = <<>>
    BY <1>6 DEF Committer, WriteLog, WriteHead, InstallTrans, ClearHead
  <2> QED BY <1>0, <2>1, <2>2 DEF CountInv
<1>7. ASSUME NEW a \in Addr, Recycle(a) PROVE CountInv'
  <2>1. Ops' = Ops
    BY <1>7 DEF Recycle, Ops
  <2> QED BY <1>0, <1>7, <2>1 DEF Recycle, CountInv
<1>8. ASSUME Reboot PROVE CountInv'
  <2>1. Ops' = {}
    BY <1>8 DEF Reboot, Ops
  <2> QED BY <1>8, <2>1, FS_EmptySet DEF Reboot, CountInv
<1>9. ASSUME InitLog PROVE CountInv'
  <2>1. Ops' = Ops
    BY <1>9 DEF InitLog, Ops
  <2> QED BY <1>0, <1>9, <2>1 DEF InitLog, CountInv
<1> QED BY <1>1, <1>2, <1>3, <1>4, <1>5, <1>6, <1>7, <1>8, <1>9 DEF Next, Call, Committer

(***************************************************************************)
(* Nobody falls asleep when there is no one to wake it,  and the last one  *)
(* who could wakes everybody.                                              *)
(***************************************************************************)
LEMMA SleeperStep ==
    ASSUME Inv, Next
    PROVE  SleeperHasWaker'
<1>0. TypeOK /\ SleeperHasWaker /\ CountInv /\ pc \in [Process -> Places] /\ outstanding \in Nat
  BY Types DEF Inv
<1>1. ASSUME NEW p \in Process, BeginSleeps(p) PROVE SleeperHasWaker'
  <2>1. outstanding > 0 \/ committing
    <3>1. SUFFICES ASSUME outstanding = 0, ~committing PROVE FALSE
      BY <1>0
    <3>2. stage = "idle"
      BY <1>0, <1>1, <3>1 DEF BeginSleeps, Up, committing, TypeOK, Stages
    <3>3. Len(lh) = 0
      BY <1>0, <3>1, <3>2 DEF CountInv
    <3>4. Len(lh) + (outstanding + 1) * MAXOPBLOCKS > LOGSIZE
      BY <1>1, <3>1 DEF BeginSleeps, MustWait
    <3> QED BY <3>1, <3>3, <3>4, Sizes
  <2>2. outstanding' = outstanding /\ stage' = stage
    BY <1>1 DEF BeginSleeps
  <2> QED BY <2>1, <2>2 DEF SleeperHasWaker, committing
<1>2. ASSUME NEW p \in Process, BeginEnters(p) PROVE SleeperHasWaker'
  BY <1>0, <1>2 DEF BeginEnters, SleeperHasWaker
<1>3. ASSUME NEW p \in Process, EndOp(p) PROVE SleeperHasWaker'
  <2>1. CASE outstanding = 1
    BY <1>3, <2>1 DEF EndOp, SleeperHasWaker, committing
  <2>2. CASE outstanding # 1
    BY <1>0, <1>3, <2>2, ZenonT(30) DEF EndOp, SleeperHasWaker, Woken
  <2> QED BY <2>1, <2>2
<1>4. ASSUME NEW p \in Process, CommitReturns(p) PROVE SleeperHasWaker'
  BY <1>0, <1>4 DEF CommitReturns, SleeperHasWaker, Woken
<1>5. ASSUME NEW p \in Process, NEW b \in Block, NEW v \in Value, LogWrite(p, b, v)
      PROVE SleeperHasWaker'
  BY <1>0, <1>5 DEF LogWrite, SleeperHasWaker, committing
<1>6. ASSUME Committer PROVE SleeperHasWaker'
  <2>1. stage = "recover" => \A q \in Process : pc[q] # "asleep"
    BY <1>0 DEF SleeperHasWaker, CountInv, committing
  <2>2. pc' = pc /\ (stage = "recover" \/ stage' \in {"log", "install", "done"})
    BY <1>6 DEF Committer, WriteLog, WriteHead, InstallTrans, ClearHead
  <2> QED BY <2>1, <2>2 DEF SleeperHasWaker, committing
<1>7. ASSUME NEW a \in Addr, Recycle(a) PROVE SleeperHasWaker'
  BY <1>0, <1>7 DEF Recycle, SleeperHasWaker, committing
<1>8. ASSUME Reboot PROVE SleeperHasWaker'
  BY <1>8 DEF Reboot, SleeperHasWaker
<1>9. ASSUME InitLog PROVE SleeperHasWaker'
  BY <1>0, <1>9, SMTT(30) DEF InitLog, SleeperHasWaker, committing
<1> QED BY <1>1, <1>2, <1>3, <1>4, <1>5, <1>6, <1>7, <1>8, <1>9 DEF Next, Call, Committer

LEMMA AddrStep ==
    ASSUME Inv, Next
    PROVE  AddrInv'
BY DEF Inv, AddrInv, Next, Call, BeginSleeps, BeginEnters, EndOp, CommitReturns, LogWrite,
       WriteLog, WriteHead, InstallTrans, ClearHead, Recycle, Reboot, InitLog, Up

-----------------------------------------------------------------------------
(***************************************************************************)
(* What is on the disk and in the buffers, step by step.                   *)
(***************************************************************************)
Core == HeaderInv /\ BufferInv /\ StageInv

LEMMA CoreQuiet ==
    ASSUME Inv, UNCHANGED <<disk, cache, dirty, lh>>,
           \/ stage' = stage /\ tail' = tail
           \/ stage = "idle" /\ tail' = 0 /\ stage' = IF Len(lh) > 0 THEN "log" ELSE "done"
           \/ stage = "done" /\ stage' = "idle" /\ tail' = tail
    PROVE  Core'
<1>0. TypeOK /\ HeaderInv /\ BufferInv /\ StageInv
  BY DEF Inv
<1>1. header' = header
  BY DEF header
<1>2. HeaderInv'
  BY <1>0, <1>1, Types DEF HeaderInv
<1>3. stage' = "done" => lh = <<>>
  BY <1>0, Types DEF StageInv
<1>4. BufferInv'
  BY <1>0, <1>3 DEF BufferInv, StageInv
<1>5. StageInv'
  BY <1>0, <1>1, <1>3, Types, Sizes DEF StageInv
<1> QED BY <1>2, <1>4, <1>5 DEF Core

LEMMA CoreLogWrite ==
    ASSUME Inv, NEW p \in Process, NEW b \in Block, NEW v \in Value, LogWrite(p, b, v)
    PROVE  Core'
<1>0. TypeOK /\ HeaderInv /\ BufferInv /\ StageInv
  BY DEF Inv
<1>1. stage = "idle"
  BY OpIdle DEF LogWrite
<1>2. CASE panic' # panic
  <2>1. UNCHANGED <<disk, cache, dirty, lh, stage, tail>>
    BY <1>2 DEF LogWrite
  <2> QED BY <2>1, CoreQuiet
<1>3. CASE panic' = panic
  <2>1. ~NoBuffer(Root(b)) /\ Modify(b, v) /\ UNCHANGED <<disk, stage, tail>>
    BY <1>3 DEF LogWrite, Up, Root
  <2>2. header' = header /\ header = <<>>
    BY <1>0, <1>1, <2>1 DEF header, StageInv
  <2>3. Root(b) \in Addr
    BY Addresses
  <2>4. /\ cache' = [cache EXCEPT ![Root(b)] = <<v>>]
        /\ dirty' = dirty \cup {Root(b)}
    BY <2>1 DEF Modify, Root
  <2>5. /\ lh' \in Seq(Block)
        /\ \A i \in DOMAIN lh : i \in DOMAIN lh' /\ lh'[i] = lh[i]
        /\ \E i \in DOMAIN lh' : lh'[i] = b
        /\ \A i \in DOMAIN lh' : i \in DOMAIN lh \/ lh'[i] = b
        /\ \A i, j \in DOMAIN lh' : lh'[i] = lh'[j] => i = j
        /\ Len(lh) <= Len(lh')
    <3>1. CASE b \in Logged
      <4>1. lh' = lh
        BY <2>1, <3>1 DEF Modify
      <4> QED BY <1>0, <3>1, <4>1, Types DEF Logged, HeaderInv
    <3>2. CASE b \notin Logged
      <4>1. lh' = Append(lh, b)
        BY <2>1, <3>2 DEF Modify
      <4>2. lh \in Seq(Block) /\ Len(lh) \in Nat /\ DOMAIN lh = 1 .. Len(lh)
        BY <1>0, Types
      <4>3. /\ lh' \in Seq(Block) /\ DOMAIN lh' = 1 .. (Len(lh) + 1)
            /\ Len(lh') = Len(lh) + 1
            /\ \A i \in 1 .. Len(lh) : lh'[i] = lh[i]
            /\ lh'[Len(lh) + 1] = b
        BY <4>1, <4>2
      <4>4. \A i \in 1 .. Len(lh) : lh[i] # b
        BY <3>2, <4>2 DEF Logged
      <4>5. \A i, j \in 1 .. (Len(lh) + 1) : lh'[i] = lh'[j] => i = j
        <5> TAKE i, j \in 1 .. (Len(lh) + 1)
        <5>1. \A k, l \in 1 .. Len(lh) : lh[k] = lh[l] => k = l
          BY <1>0, <4>2, SMTT(30) DEF HeaderInv
        <5>2. (i \in 1 .. Len(lh) \/ i = Len(lh) + 1) /\ (j \in 1 .. Len(lh) \/ j = Len(lh) + 1)
          BY <4>2
        <5> QED BY <4>3, <4>4, <5>1, <5>2
      <4> QED BY <4>2, <4>3, <4>5
    <3> QED BY <3>1, <3>2
  <2>6. HeaderInv'
    BY <1>0, <2>1, <2>2, <2>5, Types DEF HeaderInv
  <2>7. IsFiniteSet(dirty') /\ Cardinality(dirty') <= NBUF
    <3>1. IsFiniteSet(dirty) /\ Cardinality(dirty) \in Nat /\ Cardinality(dirty) <= NBUF
      BY <1>0, FS_CardinalityType DEF BufferInv
    <3>2. CASE Root(b) \in dirty
      BY <2>4, <3>1, <3>2, SMTT(30)
    <3>3. CASE Root(b) \notin dirty
      <4>1. Cardinality(dirty) < NBUF
        BY <2>1, <3>1, <3>3, Sizes DEF NoBuffer
      <4>2. IsFiniteSet(dirty') /\ Cardinality(dirty') = Cardinality(dirty) + 1
        BY <2>4, <3>1, <3>3, FS_AddElement
      <4> QED BY <3>1, <4>1, <4>2, Sizes
    <3> QED BY <3>2, <3>3
  <2>8. \A a \in Addr : a \notin dirty' => cache'[a] = disk'[a]
    BY <1>0, <2>1, <2>4, Types, SMTT(30) DEF BufferInv
  <2>9. \A a \in dirty' : \E i \in DOMAIN lh' : a = Root(lh'[i])
    <3>1. \A a \in dirty : \E i \in DOMAIN lh : a = Root(lh[i])
      BY <1>0 DEF BufferInv
    <3> QED BY <2>4, <2>5, <3>1, SMTT(30)
  <2>10. \A i \in DOMAIN lh' : Root(lh'[i]) \in dirty'
    <3>1. \A i \in DOMAIN lh : Root(lh[i]) \in dirty
      BY <1>0, <1>1, SMTT(30) DEF BufferInv
    <3> QED BY <2>4, <2>5, <3>1
  <2>11. BufferInv'
    BY <1>1, <2>1, <2>7, <2>8, <2>9, <2>10, SMTT(30) DEF BufferInv
  <2>12. StageInv'
    BY <1>1, <2>1, <2>2 DEF StageInv
  <2> QED BY <2>6, <2>11, <2>12 DEF Core
<1> QED BY <1>2, <1>3

LEMMA CoreRecycle ==
    ASSUME Inv, NEW a \in Addr, Recycle(a)
    PROVE  cache' = cache /\ Core'
<1>1. cache' = cache
  BY Types DEF Recycle, Inv, BufferInv
<1> QED BY <1>1, CoreQuiet DEF Recycle

\* What Put changes.
LEMMA PutFacts ==
    ASSUME TypeOK, BufferInv, NEW a \in Addr, NEW v, Put(a, v)
    PROVE  /\ disk'[a] = v /\ cache'[a] = v /\ dirty' = dirty \ {a}
           /\ \A x \in Addr : x # a => disk'[x] = disk[x] /\ cache'[x] = cache[x]
           /\ \A x \in Addr : x \notin dirty' => cache'[x] = disk'[x]
           /\ IsFiniteSet(dirty') /\ Cardinality(dirty') <= NBUF
<1>1. disk'[a] = v /\ cache'[a] = v /\ dirty' = dirty \ {a}
  BY Types DEF Put
<1>2. \A x \in Addr : x # a => disk'[x] = disk[x] /\ cache'[x] = cache[x]
  BY Types DEF Put
<1>3. \A x \in Addr : x \notin dirty' => cache'[x] = disk'[x]
  BY <1>1, <1>2 DEF BufferInv
<1>4. IsFiniteSet(dirty) /\ Cardinality(dirty) <= NBUF
  BY DEF BufferInv
<1>5. dirty' \subseteq dirty
  BY <1>1
<1>6. IsFiniteSet(dirty') /\ Cardinality(dirty') <= Cardinality(dirty)
  BY <1>4, <1>5, FS_Subset
<1>7. Cardinality(dirty) \in Nat /\ Cardinality(dirty') \in Nat
  BY <1>4, <1>6, FS_CardinalityType
<1> QED BY <1>1, <1>2, <1>3, <1>4, <1>6, <1>7, Sizes

\* Only home blocks are dirty.
LEMMA DirtyHome ==
    ASSUME Inv, NEW a \in dirty
    PROVE  \E b \in Block : a = Root(b)
<1>1. PICK i \in DOMAIN lh : a = Root(lh[i])
  BY DEF Inv, BufferInv
<1>2. lh[i] \in Block
  BY <1>1, Types DEF Inv
<1> QED BY <1>1, <1>2

LEMMA CoreWriteLog ==
    ASSUME Inv, WriteLog
    PROVE  Core'
<1>0. TypeOK /\ AddrInv /\ HeaderInv /\ BufferInv /\ StageInv
  BY DEF Inv
<1>1. CASE panic' # "none"
  <2>1. UNCHANGED <<disk, cache, dirty, lh, stage, tail>>
    BY <1>1 DEF WriteLog
  <2> QED BY <2>1, CoreQuiet
<1>2. CASE panic' = "none"
  <2> DEFINE n == tail + 1
  <2> DEFINE a == Root(LogStart + n)
  <2>1. stage = "log" /\ stage' = stage /\ lh' = lh /\ tail' = n /\ tail < Len(lh) /\ start = LogStart
    BY <1>0, <1>2, SMTT(30) DEF WriteLog, AddrInv
  <2>2. LogStart + n < FSSIZE
    BY <1>0, <1>2, <2>1, Types, Sizes DEF WriteLog
  <2>3. n \in Nat \ {0} /\ n \in 1 .. Len(lh) /\ lh[n] \in Block /\ a \in Addr
    BY <1>0, <2>1, <2>2, Types, TailBlocks, SMTT(30)
  <2>4. Put(a, cache[Root(lh[n])])
    BY <1>0, <1>2, <2>1, TailBlocks, SMTT(30) DEF WriteLog
  <2>5. /\ disk'[a] = cache[Root(lh[n])] /\ cache'[a] = cache[Root(lh[n])] /\ dirty' = dirty \ {a}
        /\ \A x \in Addr : x # a => disk'[x] = disk[x] /\ cache'[x] = cache[x]
        /\ \A x \in Addr : x \notin dirty' => cache'[x] = disk'[x]
        /\ IsFiniteSet(dirty') /\ Cardinality(dirty') <= NBUF
    BY <1>0, <2>3, <2>4, PutFacts
  <2>6. \A b \in Block : Root(b) # a /\ Root(b) \in Addr
    BY <2>3, Addresses
  <2>7. dirty' = dirty
    BY <2>5, <2>6, DirtyHome
  <2>8. header' = header
    <3>1. Root(LogStart) # a /\ Root(LogStart) \in Addr
      BY <2>3, Addresses
    <3> QED BY <2>5, <3>1 DEF header, Root
  <2>9. \A b \in Block : cache'[Root(b)] = cache[Root(b)]
    BY <2>5, <2>6
  <2>10. HeaderInv'
    BY <1>0, <2>1, <2>3, <2>8, Types, SMTT(30) DEF HeaderInv
  <2>11. BufferInv'
    BY <1>0, <2>1, <2>5, <2>7 DEF BufferInv
  <2>12. ASSUME NEW i \in 1 .. n PROVE disk'[Root(LogStart + i)] = cache'[Root(lh'[i])]
    <3>1. i \in Nat /\ i \in 1 .. Len(lh) /\ lh[i] \in Block
      BY <1>0, <2>3, Types
    <3>2. CASE i = n
      BY <2>1, <2>5, <2>9, <3>1, <3>2, SMTT(30)
    <3>3. CASE i # n
      <4>1. i \in 1 .. tail /\ LogStart + i < FSSIZE
        BY <1>0, <2>2, <3>1, <3>3, Types, Sizes
      <4>2. Root(LogStart + i) \in Addr /\ Root(LogStart + i) # a
        BY <2>3, <3>1, <3>3, <4>1, Addresses
      <4>3. disk[Root(LogStart + i)] = cache[Root(lh[i])]
        BY <1>0, <2>1, <4>1 DEF StageInv
      <4> QED BY <2>1, <2>5, <2>9, <3>1, <4>2, <4>3
    <3> QED BY <3>2, <3>3
  <2>13. StageInv'
    BY <1>0, <2>1, <2>2, <2>8, <2>12 DEF StageInv
  <2> QED BY <2>10, <2>11, <2>13 DEF Core
<1> QED BY <1>1, <1>2

LEMMA CoreWriteHead ==
    ASSUME Inv, WriteHead
    PROVE  Core'
<1>0. TypeOK /\ AddrInv /\ HeaderInv /\ BufferInv /\ StageInv
  BY DEF Inv
<1> DEFINE a == Root(LogStart)
<1>1. stage = "log" /\ stage' = "install" /\ lh' = lh /\ tail = Len(lh) /\ tail' = 0 /\ Put(a, lh)
  BY <1>0, Places1 DEF WriteHead
<1>2. a \in Addr /\ \A b \in Block : Root(b) # a /\ Root(b) \in Addr
  BY Addresses, SMTT(30)
<1>3. /\ disk'[a] = lh /\ dirty' = dirty \ {a}
      /\ \A x \in Addr : x # a => disk'[x] = disk[x] /\ cache'[x] = cache[x]
      /\ \A x \in Addr : x \notin dirty' => cache'[x] = disk'[x]
      /\ IsFiniteSet(dirty') /\ Cardinality(dirty') <= NBUF
  BY <1>0, <1>1, <1>2, PutFacts
<1>4. dirty' = dirty
  BY <1>2, <1>3, DirtyHome
<1>5. header' = lh
  BY <1>3 DEF header, Root
<1>6. lh \in Seq(Block) /\ DOMAIN lh = 1 .. Len(lh) /\ Len(lh) \in Nat
  BY <1>0, Types
<1>7. HeaderInv'
  BY <1>0, <1>1, <1>5, <1>6 DEF HeaderInv, StageInv
<1>8. \A x \in dirty' : \E i \in DOMAIN lh' : x = Root(lh'[i]) /\ i > tail'
  BY <1>0, <1>1, <1>4, <1>6, SMTT(30) DEF BufferInv
<1>9. BufferInv'
  BY <1>1, <1>3, <1>8, SMTT(30) DEF BufferInv
<1>10. ASSUME NEW i \in DOMAIN lh' PROVE disk'[Root(LogStart + i)] = cache'[Root(lh'[i])]
  <2>1. i \in 1 .. tail /\ i \in Nat \ {0} /\ lh[i] \in Block /\ LogStart + i < FSSIZE
    BY <1>0, <1>1, <1>6, Sizes DEF StageInv
  <2>2. Root(LogStart + i) \in Addr /\ Root(LogStart + i) # a
    BY <2>1, Addresses
  <2>3. disk[Root(LogStart + i)] = cache[Root(lh[i])]
    BY <1>0, <1>1, <2>1, SMTT(30) DEF StageInv
  <2> QED BY <1>1, <1>2, <1>3, <2>1, <2>2, <2>3, SMTT(30)
<1>11. StageInv'
  BY <1>1, <1>5, <1>10 DEF StageInv
<1> QED BY <1>7, <1>9, <1>11 DEF Core

LEMMA CoreInstallTrans ==
    ASSUME Inv, InstallTrans
    PROVE  Core'
<1>0. TypeOK /\ AddrInv /\ HeaderInv /\ BufferInv /\ StageInv
  BY DEF Inv
<1> DEFINE n == tail + 1
<1> DEFINE a == Root(lh[n])
<1>1. /\ stage \in {"recover", "install"} /\ stage' = stage
      /\ lh' = lh /\ tail' = n /\ tail < Len(lh) /\ header = lh
  BY <1>0 DEF InstallTrans, StageInv
<1>2. LogStart + Len(lh) < FSSIZE
  BY <1>0, <1>1 DEF HeaderInv
<1>3. n \in Nat \ {0} /\ n \in 1 .. Len(lh) /\ lh[n] \in Block /\ a \in Addr
  BY <1>0, <1>1, Types, TailBlocks
<1>4. Put(a, cache[Root(LogStart + n)])
  BY <1>0, <1>1, TailBlocks DEF InstallTrans
<1>5. \A i \in 1 .. Len(lh) :
        /\ i \in Nat \ {0} /\ Root(LogStart + i) \in Addr /\ Root(LogStart + i) # a
        /\ Root(LogStart + i) \notin dirty /\ lh[i] \in Block /\ Root(lh[i]) \in Addr
  <2> TAKE i \in 1 .. Len(lh)
  <2>1. i \in Nat \ {0} /\ LogStart + i < FSSIZE /\ lh[i] \in Block
    BY <1>0, <1>2, Types, Sizes
  <2>2. Root(LogStart + i) \in Addr /\ \A b \in Block : Root(b) # Root(LogStart + i)
    BY <2>1, Addresses
  <2> QED BY <1>3, <2>1, <2>2, DirtyHome, Addresses
<1>6. cache[Root(LogStart + n)] = disk[Root(LogStart + n)]
  BY <1>0, <1>3, <1>5, SMTT(30) DEF BufferInv
<1>7. /\ disk'[a] = disk[Root(LogStart + n)] /\ cache'[a] = disk[Root(LogStart + n)]
      /\ dirty' = dirty \ {a}
      /\ \A x \in Addr : x # a => disk'[x] = disk[x] /\ cache'[x] = cache[x]
      /\ \A x \in Addr : x \notin dirty' => cache'[x] = disk'[x]
      /\ IsFiniteSet(dirty') /\ Cardinality(dirty') <= NBUF
  BY <1>0, <1>3, <1>4, <1>6, PutFacts, ZenonT(30)
<1>8. header' = header
  <2>1. Root(LogStart) # a /\ Root(LogStart) \in Addr
    BY <1>3, Addresses
  <2> QED BY <1>7, <2>1 DEF header, Root
<1>9. HeaderInv'
  BY <1>0, <1>1, <1>3, <1>8, Types DEF HeaderInv
<1>10. ASSUME NEW x \in dirty' PROVE \E i \in DOMAIN lh' : x = Root(lh'[i]) /\ stage' = "install" /\ i > tail'
  <2>1. PICK i \in DOMAIN lh : x = Root(lh[i]) /\ stage = "install" /\ i > tail
    BY <1>0, <1>1, <1>7, SMTT(30) DEF BufferInv
  <2>2. i # n
    BY <1>7, <2>1
  <2>3. i > n
    BY <1>0, <2>1, <2>2, Types, SMTT(30)
  <2> QED BY <1>1, <2>1, <2>3, SMTT(30)
<1>11. BufferInv'
  BY <1>1, <1>7, <1>10, SMTT(30) DEF BufferInv
<1>12. \A i \in 1 .. Len(lh) : disk'[Root(LogStart + i)] = disk[Root(LogStart + i)]
  BY <1>5, <1>7
<1>13. ASSUME stage = "install", NEW i \in DOMAIN lh
       PROVE  disk'[Root(LogStart + i)] = cache'[Root(lh[i])]
  <2>1. i \in 1 .. Len(lh)
    BY <1>0, Types
  <2>2. disk[Root(LogStart + i)] = cache[Root(lh[i])]
    BY <1>0, <1>13, SMTT(30) DEF StageInv
  <2>3. CASE Root(lh[i]) = a
    <3>1. lh[i] = lh[n]
      BY <1>3, <1>5, <2>1, <2>3, Addresses
    <3>2. i = n
      BY <1>0, <1>3, <2>1, <3>1, Types, SMTT(30) DEF HeaderInv
    <3> QED BY <1>7, <1>12, <2>1, <3>2
  <2>4. CASE Root(lh[i]) # a
    BY <1>5, <1>7, <1>12, <2>1, <2>2, <2>4
  <2> QED BY <2>3, <2>4
<1>14. ASSUME stage = "recover", NEW i \in 1 .. n
       PROVE  disk'[Root(LogStart + i)] = disk'[Root(lh[i])]
  <2>1. i \in 1 .. Len(lh) /\ (i \in 1 .. tail \/ i = n)
    BY <1>0, <1>3, Types, SMTT(30)
  <2>2. CASE Root(lh[i]) = a
    <3>1. lh[i] = lh[n]
      BY <1>3, <1>5, <2>1, <2>2, Addresses
    <3>2. i = n
      BY <1>0, <1>3, <2>1, <3>1, Types, SMTT(30) DEF HeaderInv
    <3> QED BY <1>7, <1>12, <2>1, <3>2
  <2>3. CASE Root(lh[i]) # a
    <3>1. i \in 1 .. tail
      BY <2>1, <2>3
    <3>2. disk[Root(LogStart + i)] = disk[Root(lh[i])]
      BY <1>0, <1>14, <3>1 DEF StageInv
    <3> QED BY <1>5, <1>7, <1>12, <2>1, <2>3, <3>2, ZenonT(30)
  <2> QED BY <2>2, <2>3
<1>15. StageInv'
  BY <1>1, <1>8, <1>13, <1>14 DEF StageInv
<1> QED BY <1>9, <1>11, <1>15 DEF Core

LEMMA CoreClearHead ==
    ASSUME Inv, ClearHead
    PROVE  Core'
<1>0. TypeOK /\ AddrInv /\ HeaderInv /\ BufferInv /\ StageInv
  BY DEF Inv
<1> DEFINE a == Root(LogStart)
<1>1. /\ stage \in {"recover", "install"} /\ stage' \in {"idle", "done"}
      /\ lh' = <<>> /\ tail = Len(lh) /\ tail' = 0 /\ Put(a, <<>>)
  BY <1>0, Places1 DEF ClearHead
<1>2. a \in Addr
  BY Addresses, SMTT(30)
<1>3. dirty = {}
  BY <1>0, <1>1, Types, SMTT(30) DEF BufferInv
<1>4. /\ disk'[a] = <<>> /\ dirty' = {}
      /\ \A x \in Addr : x \notin dirty' => cache'[x] = disk'[x]
      /\ IsFiniteSet(dirty') /\ Cardinality(dirty') <= NBUF
  BY <1>0, <1>1, <1>2, <1>3, PutFacts
<1>5. header' = <<>>
  BY <1>4 DEF header, Root
<1>6. HeaderInv'
  BY <1>1, <1>5, Sizes DEF HeaderInv
<1>7. BufferInv'
  BY <1>1, <1>4 DEF BufferInv
<1>8. StageInv'
  BY <1>1, <1>5 DEF StageInv
<1> QED BY <1>6, <1>7, <1>8 DEF Core

LEMMA CoreReboot ==
    ASSUME Inv, Reboot
    PROVE  Core'
<1>0. TypeOK /\ HeaderInv
  BY DEF Inv
<1>1. header' = header
  BY DEF Reboot, header
<1>2. HeaderInv'
  BY <1>0, <1>1 DEF HeaderInv, Reboot
<1>3. BufferInv'
  BY FS_EmptySet, Sizes DEF BufferInv, Reboot
<1>4. StageInv'
  BY DEF StageInv, Reboot
<1> QED BY <1>2, <1>3, <1>4 DEF Core

LEMMA CoreInitLog ==
    ASSUME Inv, InitLog
    PROVE  lh' = header /\ Core'
<1>0. TypeOK /\ HeaderInv /\ BufferInv /\ StageInv
  BY DEF Inv
<1>1. dirty = {}
  BY <1>0, SMTT(30) DEF InitLog, StageInv, BufferInv
<1>2. lh' = header /\ header' = header
  BY <1>0, <1>1, Addresses DEF InitLog, BufferInv, header, Root
<1>3. HeaderInv'
  BY <1>0, <1>2 DEF HeaderInv, InitLog
<1>4. BufferInv'
  BY <1>0, <1>1 DEF BufferInv, InitLog
<1>5. StageInv'
  BY <1>2 DEF StageInv, InitLog
<1> QED BY <1>2, <1>3, <1>4, <1>5 DEF Core

LEMMA CoreStep ==
    ASSUME Inv, Next
    PROVE  Core'
<1>1. ASSUME NEW p \in Process, BeginSleeps(p) \/ BeginEnters(p) PROVE Core'
  BY <1>1, CoreQuiet DEF BeginSleeps, BeginEnters
<1>2. ASSUME NEW p \in Process, EndOp(p) PROVE Core'
  <2>1. stage = "idle"
    BY <1>2, OpIdle DEF EndOp
  <2> QED BY <1>2, <2>1, CoreQuiet DEF EndOp
<1>3. ASSUME NEW p \in Process, CommitReturns(p) PROVE Core'
  BY <1>3, CoreQuiet DEF CommitReturns
<1> QED BY SMTT(30), <1>1, <1>2, <1>3, CoreLogWrite, CoreWriteLog, CoreWriteHead, CoreInstallTrans,
           CoreClearHead, CoreRecycle, CoreReboot, CoreInitLog DEF Next, Call

(***************************************************************************)
(* The invariant holds in every behaviour.                                 *)
(***************************************************************************)
THEOREM LogInvHolds == Spec => []Inv
<1>1. Init => Inv
  BY InvInit
<1>2. Inv /\ [Next]_vars => Inv'
  <2> SUFFICES ASSUME Inv, [Next]_vars PROVE Inv'
    OBVIOUS
  <2>1. CASE Next
    BY <2>1, TypeStep, CountStep, AddrStep, CoreStep, SleeperStep DEF Inv, Core
  <2>2. CASE UNCHANGED vars
    <3>1. UNCHANGED <<disk, cache, dirty, dev, start, lh, outstanding, stage, tail, pc, wrote, panic>>
      BY <2>2 DEF vars, memory
    <3>2. TypeOK'
      BY <3>1 DEF Inv, TypeOK
    <3>3. CountInv' /\ AddrInv' /\ SleeperHasWaker'
      BY <3>1 DEF Inv, CountInv, AddrInv, SleeperHasWaker, Ops, committing
    <3>4. Core'
      BY <3>1, CoreQuiet
    <3> QED BY <3>2, <3>3, <3>4 DEF Inv, Core
  <2> QED BY <2>1, <2>2
<1> QED BY <1>1, <1>2, PTL DEF Spec

(***************************************************************************)
(* Every variable keeps its type: in particular log.outstanding never      *)
(* becomes negative and log.lh only names blocks of the file system.       *)
(***************************************************************************)
THEOREM LogTypeCorrect == Spec => []TypeOK
<1>1. Inv => TypeOK
  BY DEF Inv
<1> QED BY <1>1, LogInvHolds, PTL

(***************************************************************************)
(* No process sleeps in begin_op() when nobody is left to wake it.         *)
(***************************************************************************)
THEOREM SleeperHasWakerHolds == Spec => []SleeperHasWaker
<1>1. Inv => SleeperHasWaker
  BY DEF Inv
<1> QED BY <1>1, LogInvHolds, PTL

(***************************************************************************)
(* log_write() never runs over the end of log.lh.block, whatever the calls *)
(* write: each entry has a dirty buffer of its own, and the cache has no   *)
(* more buffers than the header has entries.                               *)
(***************************************************************************)
THEOREM LogFitsHolds == Spec => []LogFits
<1>1. Inv => LogFits
  <2> SUFFICES ASSUME Inv PROVE LogFits
    OBVIOUS
  <2>0. TypeOK /\ HeaderInv /\ BufferInv /\ StageInv
    BY DEF Inv
  <2>1. Len(lh) \in Nat /\ DOMAIN lh = 1 .. Len(lh) /\ \A i \in 1 .. Len(lh) : lh[i] \in Block
    BY <2>0, Types
  <2>2. CASE stage \in {"idle", "log"}
    <3> DEFINE f == [i \in 1 .. Len(lh) |-> Root(lh[i])]
    <3>1. f \in [1 .. Len(lh) -> dirty]
      BY <2>0, <2>1, <2>2 DEF BufferInv
    <3>2. \A i, j \in 1 .. Len(lh) : f[i] = f[j] => i = j
      <4> TAKE i, j \in 1 .. Len(lh)
      <4> HAVE f[i] = f[j]
      <4>1. lh[i] = lh[j]
        BY <2>1, Addresses
      <4> QED BY <2>0, <2>1, <4>1 DEF HeaderInv
    <3>3. f \in Injection(1 .. Len(lh), dirty)
      BY <3>1, <3>2 DEF Injection, IsInjective
    <3>4. IsFiniteSet(dirty) /\ Cardinality(dirty) <= NBUF
      BY <2>0 DEF BufferInv
    <3> HIDE DEF f
    <3>5. Cardinality(1 .. Len(lh)) <= Cardinality(dirty)
      BY <3>3, <3>4, FS_Injection
    <3>6. Cardinality(1 .. Len(lh)) = Len(lh)
      BY <2>1, FS_Interval, SMTT(30)
    <3>7. Cardinality(dirty) \in Nat
      BY <3>4, FS_CardinalityType
    <3> QED BY <2>1, <3>4, <3>5, <3>6, <3>7, Sizes DEF LogFits
  <2>3. CASE stage \in {"boot", "done"}
    BY <2>0, <2>3, Sizes DEF StageInv, LogFits
  <2>4. CASE stage \in {"recover", "install"}
    <3>1. LogStart + Len(lh) < FSSIZE
      BY <2>0, <2>4 DEF StageInv, HeaderInv
    <3> QED BY <2>1, <3>1, Sizes DEF LogFits, LogStart, NLOG
  <2> QED BY <2>0, <2>2, <2>3, <2>4 DEF TypeOK, Stages
<1> QED BY <1>1, LogInvHolds, PTL
=============================================================================
