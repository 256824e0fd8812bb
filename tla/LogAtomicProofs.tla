-------------------------- MODULE LogAtomicProofs ---------------------------
(***************************************************************************)
(* The log implements AtomicDisk: each step of Log is a step of AtomicDisk *)
(* under the refinement mapping, or leaves its variables alone.            *)
(***************************************************************************)
EXTENDS LogProofs

(***************************************************************************)
(* What recovery makes of a block, in terms of the header.                 *)
(***************************************************************************)
DiskRecovered(d, b) ==
    LET h == d[Root(LogStart)]
    IN  IF \E i \in DOMAIN h : h[i] = b
          THEN d[Root(LogStart + CHOOSE i \in DOMAIN h : h[i] = b)]
          ELSE d[Root(b)]

LEMMA RecoveredIs ==
    /\ \A b \in Block : Recovered(b) = DiskRecovered(disk, b)
    /\ \A b \in Block : Recovered(b)' = DiskRecovered(disk', b)
BY DEF Recovered, DiskRecovered, Root

LEMMA RecoveredLogged ==
    ASSUME NEW d, NEW h, h = d[Root(LogStart)],
           \A i, j \in DOMAIN h : h[i] = h[j] => i = j,
           NEW i \in DOMAIN h
    PROVE  DiskRecovered(d, h[i]) = d[Root(LogStart + i)]
<1> DEFINE j == CHOOSE k \in DOMAIN h : h[k] = h[i]
<1>1. j \in DOMAIN h /\ h[j] = h[i]
  OBVIOUS
<1>2. j = i
  BY <1>1
<1>3. DiskRecovered(d, h[i]) = d[Root(LogStart + j)]
  BY DEF DiskRecovered
<1> QED BY <1>2, <1>3

LEMMA RecoveredHome ==
    ASSUME NEW d, NEW h, h = d[Root(LogStart)],
           NEW b, \A i \in DOMAIN h : h[i] # b
    PROVE  DiskRecovered(d, b) = d[Root(b)]
BY DEF DiskRecovered

LEMMA StableSame ==
    ASSUME \A b \in Block : DiskRecovered(disk', b) = DiskRecovered(disk, b)
    PROVE  Stable' = Stable
BY RecoveredIs DEF Stable

(***************************************************************************)
(* What a step does to the variables of AtomicDisk.                        *)
(***************************************************************************)
InMemory == [b \in Block |-> cache[Root(b)]]
Running == stage \notin {"boot", "recover"}

LEMMA VisibleIs ==
    /\ Running => Visible = InMemory
    /\ ~Running => Visible = Stable
    /\ Running' => Visible' = InMemory'
    /\ ~Running' => Visible' = Stable'
BY DEF Visible, InMemory, Running, Root

LEMMA AtomicStutter ==
    ASSUME Ops' = Ops, Visible' = Visible, Stable' = Stable
    PROVE  UNCHANGED Atomic!atomicVars
BY DEF Atomic!atomicVars, Ops

LEMMA AtomicWriteLog ==
    ASSUME Inv, WriteLog
    PROVE  Ops' = Ops /\ Visible' = Visible /\ Stable' = Stable
<1>0. TypeOK /\ AddrInv /\ HeaderInv /\ BufferInv /\ StageInv
  BY DEF Inv
<1>1. stage = "log" /\ stage' = "log" /\ tail < Len(lh) /\ Ops' = Ops /\ Running /\ Running'
  BY DEF WriteLog, Ops, Running
<1>2. CASE panic' # "none"
  <2>1. UNCHANGED <<disk, cache>>
    BY <1>2 DEF WriteLog
  <2>2. Stable' = Stable
    BY <2>1, StableSame
  <2>3. InMemory' = InMemory
    BY <2>1 DEF InMemory
  <2> QED BY <1>1, <2>2, <2>3, VisibleIs
<1>3. CASE panic' = "none"
  <2> DEFINE a == Root(LogStart + (tail + 1))
  <2>1. start = LogStart
    BY <1>0, <1>1 DEF AddrInv
  <2>2. tail + 1 \in Nat \ {0} /\ LogStart + (tail + 1) < FSSIZE
    BY <1>0, <1>3, <2>1, Types, Sizes DEF WriteLog
  <2>3. a \in Addr /\ a # Root(LogStart) /\ Root(LogStart) \in Addr /\ \A b \in Block : Root(b) \in Addr /\ Root(b) # a
    BY <2>2, Addresses
  <2>4. Put(a, cache[Root(lh[tail + 1])])
    BY <1>0, <1>1, <1>3, TailBlocks, SMTT(30) DEF WriteLog
  <2> HIDE DEF a
  <2>5. \A x \in Addr : x # a => disk'[x] = disk[x] /\ cache'[x] = cache[x]
    BY <1>0, <2>3, <2>4, PutFacts, ZenonT(30)
  <2>6. disk[Root(LogStart)] = <<>> /\ disk'[Root(LogStart)] = <<>>
    BY <1>0, <1>1, <2>3, <2>5 DEF StageInv, header
  <2>7. \A b \in Block : DiskRecovered(disk', b) = DiskRecovered(disk, b)
    <3> TAKE b \in Block
    <3>1. DiskRecovered(disk, b) = disk[Root(b)]
      BY <2>6, RecoveredHome
    <3>2. DiskRecovered(disk', b) = disk'[Root(b)]
      BY <2>6, RecoveredHome
    <3> QED BY <2>3, <2>5, <3>1, <3>2
  <2>8. InMemory' = InMemory
    BY <2>3, <2>5 DEF InMemory
  <2> QED BY <1>1, <2>7, <2>8, StableSame, VisibleIs
<1> QED BY <1>2, <1>3

\* The commit point: what is in memory becomes what a crash leaves.
LEMMA AtomicWriteHead ==
    ASSUME Inv, WriteHead
    PROVE  Ops = {} /\ Ops' = Ops /\ Visible' = Visible /\ Stable' = Visible
<1>0. TypeOK /\ CountInv /\ AddrInv /\ HeaderInv /\ BufferInv /\ StageInv
  BY DEF Inv
<1>1. stage = "log" /\ stage' = "install" /\ tail = Len(lh) /\ Put(Root(LogStart), lh)
      /\ Ops' = Ops /\ Running /\ Running'
  BY <1>0, Places1 DEF WriteHead, Ops, Running
<1>2. Ops = {}
  BY <1>0, <1>1, FS_EmptySet DEF CountInv
<1>3. Root(LogStart) \in Addr /\ \A b \in Block : Root(b) # Root(LogStart) /\ Root(b) \in Addr
  BY Addresses
<1>4. /\ disk'[Root(LogStart)] = lh
      /\ \A x \in Addr : x # Root(LogStart) => disk'[x] = disk[x] /\ cache'[x] = cache[x]
  BY <1>0, <1>1, <1>3, PutFacts
<1>5. InMemory' = InMemory
  BY <1>3, <1>4 DEF InMemory
<1>6. ASSUME NEW b \in Block PROVE DiskRecovered(disk', b) = cache[Root(b)]
  <2>1. CASE \E i \in DOMAIN lh : lh[i] = b
    <3>1. PICK i \in DOMAIN lh : lh[i] = b
      BY <2>1
    <3>2. i \in 1 .. tail /\ i \in Nat \ {0} /\ LogStart + i < FSSIZE
      BY <1>0, <1>1, <3>1, Types, Sizes DEF StageInv
    <3>3. Root(LogStart + i) \in Addr /\ Root(LogStart + i) # Root(LogStart)
      BY <3>2, Addresses
    <3>4. disk'[Root(LogStart + i)] = cache[Root(b)]
      BY <1>0, <1>1, <1>4, <3>1, <3>2, <3>3 DEF StageInv
    <3>5. DiskRecovered(disk', lh[i]) = disk'[Root(LogStart + i)]
      BY <1>0, <1>4, <3>1, RecoveredLogged DEF HeaderInv
    <3> QED BY <3>1, <3>4, <3>5
  <2>2. CASE ~ \E i \in DOMAIN lh : lh[i] = b
    <3>1. DiskRecovered(disk', b) = disk'[Root(b)]
      BY <1>4, <2>2, RecoveredHome
    <3>2. Root(b) \notin dirty
      <4>1. SUFFICES ASSUME Root(b) \in dirty PROVE FALSE
        OBVIOUS
      <4>2. PICK i \in DOMAIN lh : Root(b) = Root(lh[i])
        BY <1>0, <4>1 DEF BufferInv
      <4>3. lh[i] \in Block
        BY <1>0, <4>2, Types
      <4> QED BY <2>2, <4>2, <4>3, Addresses
    <3>3. disk[Root(b)] = cache[Root(b)]
      BY <1>0, <1>3, <3>2 DEF BufferInv
    <3> QED BY <1>3, <1>4, <3>1, <3>3
  <2> QED BY <2>1, <2>2
<1>7. Stable' = InMemory
  BY <1>6, RecoveredIs DEF Stable, InMemory
<1> QED BY <1>1, <1>2, <1>5, <1>7, VisibleIs

LEMMA AtomicInstallTrans ==
    ASSUME Inv, InstallTrans
    PROVE  Ops' = Ops /\ Visible' = Visible /\ Stable' = Stable
<1>0. TypeOK /\ AddrInv /\ HeaderInv /\ BufferInv /\ StageInv
  BY DEF Inv
<1> DEFINE n == tail + 1
<1> DEFINE a == Root(lh[n])
<1>1. /\ stage \in {"recover", "install"} /\ stage' = stage /\ Ops' = Ops
      /\ tail < Len(lh) /\ disk[Root(LogStart)] = lh /\ (Running' <=> Running)
  BY <1>0 DEF InstallTrans, StageInv, header, Ops, Running
<1>2. LogStart + Len(lh) < FSSIZE
  BY <1>0, <1>1 DEF HeaderInv, header
<1>3. n \in 1 .. Len(lh) /\ lh[n] \in Block /\ a \in Addr
  BY <1>0, <1>1, TailBlocks
<1>4. Put(a, cache[Root(LogStart + n)])
  BY <1>0, <1>1, TailBlocks, SMTT(30) DEF InstallTrans
<1>5. /\ cache'[a] = cache[Root(LogStart + n)]
      /\ \A x \in Addr : x # a => disk'[x] = disk[x] /\ cache'[x] = cache[x]
  BY <1>0, <1>3, <1>4, PutFacts
<1>6. disk'[Root(LogStart)] = lh
  BY <1>1, <1>3, <1>5, Addresses
<1>7. \A i \in 1 .. Len(lh) : Root(LogStart + i) \in Addr /\ Root(LogStart + i) # a
                              /\ Root(LogStart + i) \notin dirty
  <2> TAKE i \in 1 .. Len(lh)
  <2>1. i \in Nat \ {0} /\ LogStart + i < FSSIZE
    BY <1>0, <1>2, Types, Sizes
  <2>2. Root(LogStart + i) \in Addr /\ \A b \in Block : Root(b) # Root(LogStart + i)
    BY <2>1, Addresses
  <2> QED BY <1>3, <2>2, DirtyHome
<1>8. ASSUME NEW b \in Block PROVE DiskRecovered(disk', b) = DiskRecovered(disk, b)
  <2>1. CASE \E i \in DOMAIN lh : lh[i] = b
    <3>1. PICK i \in DOMAIN lh : lh[i] = b
      BY <2>1
    <3>2. DiskRecovered(disk', lh[i]) = disk'[Root(LogStart + i)]
      BY <1>0, <1>6, <3>1, RecoveredLogged DEF HeaderInv
    <3>3. DiskRecovered(disk, lh[i]) = disk[Root(LogStart + i)]
      BY <1>0, <1>1, <3>1, RecoveredLogged DEF HeaderInv
    <3>4. i \in 1 .. Len(lh)
      BY <1>0, Types, SMTT(30)
    <3> QED BY <1>5, <1>7, <3>1, <3>2, <3>3, <3>4
  <2>2. CASE ~ \E i \in DOMAIN lh : lh[i] = b
    <3>1. DiskRecovered(disk', b) = disk'[Root(b)]
      BY <1>6, <2>2, RecoveredHome
    <3>2. DiskRecovered(disk, b) = disk[Root(b)]
      BY <1>1, <2>2, RecoveredHome
    <3>3. lh[n] # b
      BY <1>0, <1>3, <2>2, Types
    <3>4. Root(b) # a /\ Root(b) \in Addr
      BY <1>3, <3>3, Addresses
    <3> QED BY <1>5, <3>1, <3>2, <3>4
  <2> QED BY <2>1, <2>2
<1>9. Stable' = Stable
  BY <1>8, StableSame
<1>10. CASE stage = "recover"
  BY <1>1, <1>9, <1>10, VisibleIs DEF Running
<1>11. CASE stage = "install"
  <2>1. cache[Root(LogStart + n)] = cache[a]
    <3>1. cache[Root(LogStart + n)] = disk[Root(LogStart + n)]
      BY <1>0, <1>3, <1>7 DEF BufferInv
    <3>2. n \in DOMAIN lh
      BY <1>0, <1>3, Types
    <3> QED BY <1>0, <1>11, <3>1, <3>2 DEF StageInv
  <2>2. \A x \in Addr : cache'[x] = cache[x]
    BY <1>5, <2>1
  <2>3. InMemory' = InMemory
    BY <2>2, Addresses DEF InMemory
  <2> QED BY <1>1, <1>9, <1>11, <2>3, VisibleIs DEF Running
<1> QED BY <1>1, <1>10, <1>11

\* Clearing the header changes nothing: every block it names is at home.
LEMMA AtomicClearHead ==
    ASSUME Inv, ClearHead
    PROVE  Ops' = Ops /\ Visible' = Visible /\ Stable' = Stable
<1>0. TypeOK /\ AddrInv /\ HeaderInv /\ BufferInv /\ StageInv
  BY DEF Inv
<1>1. /\ stage \in {"recover", "install"} /\ Ops' = Ops /\ Running'
      /\ tail = Len(lh) /\ disk[Root(LogStart)] = lh
      /\ Put(Root(LogStart), <<>>)
  BY <1>0, Places1, SMTT(30) DEF ClearHead, StageInv, header, Ops, Running
<1>2. Root(LogStart) \in Addr /\ \A b \in Block : Root(b) # Root(LogStart) /\ Root(b) \in Addr
  BY Addresses
<1>3. /\ disk'[Root(LogStart)] = <<>>
      /\ \A x \in Addr : x # Root(LogStart) => disk'[x] = disk[x] /\ cache'[x] = cache[x]
  BY <1>0, <1>1, <1>2, PutFacts, ZenonT(30)
<1>4. dirty = {}
  <2>1. DOMAIN lh = 1 .. tail /\ tail \in Nat
    BY <1>0, <1>1, Types
  <2>2. \A a \in dirty : \E i \in 1 .. tail : i > tail
    BY <1>0, <1>1, <2>1 DEF BufferInv
  <2> QED BY <2>1, <2>2
<1>5. \A x \in Addr : cache[x] = disk[x]
  BY <1>0, <1>4 DEF BufferInv
<1>6. ASSUME NEW b \in Block PROVE DiskRecovered(disk, b) = disk[Root(b)]
  <2>1. CASE \E i \in DOMAIN lh : lh[i] = b
    <3>1. PICK i \in DOMAIN lh : lh[i] = b
      BY <2>1
    <3>2. DiskRecovered(disk, lh[i]) = disk[Root(LogStart + i)]
      BY <1>0, <1>1, <3>1, RecoveredLogged, ZenonT(30) DEF HeaderInv
    <3>3. i \in 1 .. tail
      BY <1>0, <1>1, Types
    <3>4. disk[Root(LogStart + i)] = disk[Root(lh[i])] \/ disk[Root(LogStart + i)] = cache[Root(lh[i])]
      BY <1>0, <1>1, <3>3 DEF StageInv
    <3> QED BY <1>2, <1>5, <3>1, <3>2, <3>4
  <2>2. CASE ~ \E i \in DOMAIN lh : lh[i] = b
    BY <1>1, <2>2, RecoveredHome
  <2> QED BY <2>1, <2>2
<1>7. ASSUME NEW b \in Block PROVE DiskRecovered(disk', b) = disk[Root(b)]
  <2>1. DiskRecovered(disk', b) = disk'[Root(b)]
    BY <1>3, RecoveredHome
  <2> QED BY <1>2, <1>3, <2>1
<1>8. Stable' = Stable
  BY <1>6, <1>7, StableSame
<1>9. InMemory' = InMemory
  BY <1>2, <1>3 DEF InMemory
<1>10. InMemory = Stable
  BY <1>2, <1>5, <1>6, RecoveredIs DEF InMemory, Stable
<1> QED BY <1>1, <1>8, <1>9, <1>10, VisibleIs

\* Before the first call that follows a commit, nothing is in memory only.
LEMMA NothingPending ==
    ASSUME Inv, stage = "idle", Ops = {}
    PROVE  Visible = Stable
<1>0. TypeOK /\ CountInv /\ BufferInv /\ StageInv
  BY DEF Inv
<1>1. lh = <<>>
  BY <1>0, FS_EmptySet DEF CountInv
<1>2. \A x \in Addr : cache[x] = disk[x]
  BY <1>0, <1>1 DEF BufferInv
<1>3. disk[Root(LogStart)] = <<>>
  BY <1>0 DEF StageInv, header
<1>4. \A b \in Block : DiskRecovered(disk, b) = cache[Root(b)]
  BY <1>2, <1>3, RecoveredHome, Addresses
<1>5. InMemory = Stable
  BY <1>4, RecoveredIs DEF InMemory, Stable
<1> QED BY <1>5, VisibleIs DEF Running

\* Steps that touch neither the disk nor what is in memory.
LEMMA AtomicQuiet ==
    ASSUME UNCHANGED <<disk, cache>>, Running' <=> Running
    PROVE  Visible' = Visible /\ Stable' = Stable
<1>1. Stable' = Stable
  BY StableSame
<1>2. InMemory' = InMemory
  BY DEF InMemory
<1> QED BY <1>1, <1>2, VisibleIs

LEMMA AtomicBegin ==
    ASSUME Inv, NEW p \in Process, BeginEnters(p)
    PROVE  Atomic!Begin(p)
<1>1. stage = "idle" /\ p \notin Ops /\ UNCHANGED <<disk, cache, stage>> /\ TypeOK
  BY DEF BeginEnters, Up, MustWait, committing, Ops, Inv, TypeOK, Stages
<1>2. Ops' = Ops \cup {p}
  BY <1>1, Types DEF BeginEnters, Ops
<1>3. Visible' = Visible /\ Stable' = Stable
  BY <1>1, AtomicQuiet DEF Running
<1>4. Ops = {} => Visible = Stable
  BY <1>1, NothingPending
<1> QED BY <1>1, <1>2, <1>3, <1>4 DEF Atomic!Begin, Ops

LEMMA AtomicEnd ==
    ASSUME Inv, NEW p \in Process, EndOp(p)
    PROVE  Atomic!End(p)
<1>1. stage = "idle" /\ p \in Ops /\ UNCHANGED <<disk, cache>> /\ Running /\ Running' /\ TypeOK
  BY OpIdle DEF EndOp, Ops, Running, Inv
<1>2. Ops' = Ops \ {p}
  <2>1. ASSUME NEW q \in Process PROVE pc'[q] = "op" <=> pc[q] = "op" /\ q # p
    BY <1>1, Types, ZenonT(30) DEF EndOp, Woken
  <2> QED BY <2>1 DEF Ops
<1>3. Visible' = Visible /\ Stable' = Stable
  BY <1>1, AtomicQuiet
<1> QED BY <1>1, <1>2, <1>3 DEF Atomic!End, Ops

LEMMA AtomicLogWrite ==
    ASSUME Inv, NEW p \in Process, NEW b \in Block, NEW v \in Value, LogWrite(p, b, v)
    PROVE  Atomic!Write(p, b) \/ UNCHANGED Atomic!atomicVars
<1>1. stage = "idle" /\ p \in Ops /\ Ops' = Ops /\ UNCHANGED <<disk, stage>> /\ TypeOK
  BY OpIdle DEF LogWrite, Ops, Inv
<1>2. CASE NoBuffer(Root(b))
  <2>1. UNCHANGED cache
    BY <1>2, ZenonT(30) DEF LogWrite, Root
  <2> QED BY <1>1, <2>1, AtomicQuiet, AtomicStutter, SMTT(30) DEF Running
<1>3. CASE ~NoBuffer(Root(b))
  <2>1. cache' = [cache EXCEPT ![Root(b)] = <<v>>]
    BY <1>3 DEF LogWrite, Modify, Root
  <2>2. \A c \in Block : c # b => cache'[Root(c)] = cache[Root(c)]
    BY <1>1, <2>1, Types, Addresses, SMTT(30)
  <2>3. InMemory' = [InMemory EXCEPT ![b] = InMemory'[b]]
    BY <2>2, ZenonT(30) DEF InMemory
  <2>4. Visible = InMemory /\ Visible' = InMemory'
    BY <1>1, VisibleIs DEF Running
  <2>5. Stable' = Stable
    BY <1>1, StableSame
  <2> QED BY <1>1, <2>3, <2>4, <2>5 DEF Atomic!Write, Ops
<1> QED BY <1>2, <1>3

LEMMA AtomicReboot ==
    ASSUME Inv, Reboot
    PROVE  Atomic!Crash
<1>1. Ops' = {} /\ ~Running' /\ UNCHANGED disk
  BY DEF Reboot, Ops, Running
<1>2. Stable' = Stable
  BY <1>1, StableSame
<1> QED BY <1>1, <1>2, VisibleIs DEF Atomic!Crash, Ops

LEMMA AtomicStep ==
    ASSUME Inv, Next
    PROVE  Atomic!Next \/ UNCHANGED Atomic!atomicVars
<1>1. ASSUME NEW p \in Process, BeginSleeps(p) \/ CommitReturns(p)
      PROVE  UNCHANGED Atomic!atomicVars
  <2>1. UNCHANGED <<disk, cache>> /\ (Running' <=> Running) /\ pc \in [Process -> Places]
    BY <1>1, Types DEF BeginSleeps, CommitReturns, Running, Inv
  <2>2. ASSUME NEW q \in Process PROVE pc'[q] = "op" <=> pc[q] = "op"
    BY <1>1, <2>1, ZenonT(30) DEF BeginSleeps, CommitReturns, Woken
  <2>3. Ops' = Ops
    BY <2>2 DEF Ops
  <2> QED BY <2>1, <2>3, AtomicQuiet, AtomicStutter
<1>2. ASSUME NEW p \in Process, Call(p)
      PROVE  Atomic!Next \/ UNCHANGED Atomic!atomicVars
  <2>1. CASE BeginSleeps(p) \/ CommitReturns(p)
    BY <1>1, <2>1
  <2>2. CASE BeginEnters(p)
    BY <2>2, AtomicBegin DEF Atomic!Next
  <2>3. CASE EndOp(p)
    BY <2>3, AtomicEnd DEF Atomic!Next
  <2>4. ASSUME NEW b \in Block, NEW v \in Value, LogWrite(p, b, v)
        PROVE  Atomic!Next \/ UNCHANGED Atomic!atomicVars
    <3>1. Atomic!Write(p, b) \/ UNCHANGED Atomic!atomicVars
      BY <2>4, AtomicLogWrite
    <3> QED BY <3>1 DEF Atomic!Next
  <2> QED BY <1>2, <2>1, <2>2, <2>3, <2>4 DEF Call
<1>3. CASE WriteHead
  <2>1. Atomic!Commit
    BY <1>3, AtomicWriteHead DEF Atomic!Commit, Ops
  <2> QED BY <2>1 DEF Atomic!Next
<1>4. CASE Reboot
  BY <1>4, AtomicReboot DEF Atomic!Next
<1>5. CASE WriteLog \/ InstallTrans \/ ClearHead
  BY <1>5, AtomicWriteLog, AtomicInstallTrans, AtomicClearHead, AtomicStutter
<1>6. ASSUME NEW a \in Addr, Recycle(a) PROVE UNCHANGED Atomic!atomicVars
  <2>1. cache[a] = disk[a] /\ cache \in [Addr -> Content]
    BY <1>6, Types DEF Recycle, Inv, BufferInv
  <2>2. cache' = cache /\ UNCHANGED <<disk, stage, pc>>
    BY <1>6, <2>1, SMTT(30) DEF Recycle
  <2> QED BY <2>2, AtomicQuiet, AtomicStutter DEF Ops, Running
<1>7. CASE InitLog
  BY <1>7, AtomicQuiet, AtomicStutter DEF InitLog, Ops, Running
<1> QED BY <1>2, <1>3, <1>4, <1>5, <1>6, <1>7 DEF Next

(***************************************************************************)
(* begin_op, log_write, end_op, commit and recovery implement AtomicDisk   *)
(* for any number of processes, blocks and sizes: wherever the machine     *)
(* stops, of the calls since the last commit all writes survive or none.   *)
(***************************************************************************)
THEOREM LogImplementsAtomicDisk == Spec => ImplementsAtomicDisk
<1>1. Init => Atomic!Init
  <2> SUFFICES ASSUME Init PROVE Atomic!Init
    OBVIOUS
  <2>1. Ops = {} /\ ~Running /\ \A a \in Addr : disk[a] = <<>>
    BY DEF Init, Ops, Running
  <2>2. \A b \in Block : DiskRecovered(disk, b) = <<>>
    BY <2>1, RecoveredHome, Addresses
  <2>3. Stable = [b \in Block |-> <<>>]
    BY <2>2, RecoveredIs DEF Stable
  <2> QED BY <2>1, <2>3, VisibleIs DEF Atomic!Init, Ops
<1>2. Inv /\ [Next]_vars => [Atomic!Next]_(Atomic!atomicVars)
  <2> SUFFICES ASSUME Inv, [Next]_vars PROVE Atomic!Next \/ UNCHANGED Atomic!atomicVars
    OBVIOUS
  <2>1. CASE UNCHANGED vars
    BY <2>1, AtomicQuiet, AtomicStutter DEF vars, memory, Ops, Running
  <2> QED BY <2>1, AtomicStep
<1> QED BY <1>1, <1>2, LogInvHolds, PTL DEF Spec, ImplementsAtomicDisk, Atomic!Spec
=============================================================================
