---------------------------- MODULE StrideProofs ----------------------------
(***************************************************************************)
(* Proofs about the stride scheduler, for every table size, every set of   *)
(* cpus, every choice of tickets and every width of int.                   *)
(***************************************************************************)
EXTENDS StrideFair, StrideIdeal, TLAPS

(***************************************************************************)
(* Addition of ints gives an int.                                          *)
(***************************************************************************)
LEMMA WrapType == ASSUME NEW x \in Int PROVE Wrap(x) \in Int32
BY IntMaxAssumption DEF Wrap, Int32

(***************************************************************************)
(* Addition is exact as long as the sum fits.                              *)
(***************************************************************************)
LEMMA WrapExact == ASSUME NEW x \in Int32 PROVE Wrap(x) = x
BY IntMaxAssumption DEF Wrap, Int32

(***************************************************************************)
(* A stride is an int, and is at least 1.                                  *)
(***************************************************************************)
LEMMA StrideType ==
    ASSUME NEW t \in TICKETS \cup {300}
    PROVE  t \in Nat /\ 10000 \div t \in 1 .. INT_MAX
<1>. DEFINE q == 10000 \div t
            r == 10000 % t
            m == t * q
<1>1. t \in Nat /\ 1 <= t /\ t <= 10000
  BY TicketsAssumption
<1>2. q \in Int /\ 10000 = m + r /\ r \in Int /\ r < t
  BY <1>1
<1>3. q <= INT_MAX /\ INT_MAX \in Nat
  BY IntMaxAssumption
<1>. HIDE DEF q, r
<1>4. m \in Int /\ (q <= 0 => m <= 0)
  BY <1>1, <1>2
<1>. HIDE DEF m
<1>5. q >= 1
  BY <1>1, <1>2, <1>4
<1>6. q \in 1 .. INT_MAX
  BY <1>2, <1>3, <1>5
<1>. QED  BY <1>1, <1>6 DEF q

(***************************************************************************)
(* The slot that init occupies exists.                                     *)
(***************************************************************************)
LEMMA SlotType == 0 \in Slot /\ Slot \subseteq Nat /\ Nobody \notin Slot
BY NProcAssumption DEF Slot, Nobody

(***************************************************************************)
(* A new account is well typed.                                            *)
(***************************************************************************)
LEMMA NewAccountType ==
    ASSUME TypeOK, NEW n \in Slot, NEW t \in TICKETS \cup {300}, NewAccount(n, t)
    PROVE  /\ tickets' \in [Slot -> Nat]
           /\ stride' \in [Slot -> 0 .. INT_MAX]
           /\ pass' \in [Slot -> Int32]
           /\ limitpass' \in [Slot -> Int32]
<1>1. t \in Nat /\ 10000 \div t \in 1 .. INT_MAX
  BY StrideType
<1>2. 10000 \div t \in 0 .. INT_MAX /\ 10000 \div t \in Int32 /\ 0 \in Int32
  BY <1>1, IntMaxAssumption DEF Int32
<1>. QED  BY <1>1, <1>2 DEF NewAccount, TypeOK

(***************************************************************************)
(* Every step of the scheduler, of a handler or of a system call keeps the *)
(* fields in their types; the sums wrap inside int.                        *)
(***************************************************************************)
LEMMA TypeStep == TypeOK /\ [Next]_vars => TypeOK'
<1>. SUFFICES ASSUME TypeOK, [Next]_vars PROVE TypeOK'
  OBVIOUS
<1>. USE SlotType
<1>a. \A p \in Slot : NextPass(p) \in Int32 /\ NextLimit(p) \in Int32
  <2>. TAKE p \in Slot
  <2>1. pass[p] + stride[p] \in Int /\ limitpass[p] + pass[p] + stride[p] \in Int
    BY IntMaxAssumption DEF TypeOK, Int32
  <2>. QED  BY <2>1, WrapType DEF NextPass, NextLimit
<1>b. \A W \in SUBSET Sleeping : Awake(W) \in [Slot -> ProcState]
  BY DEF TypeOK, Awake, ProcState, Sleeping
<1>1. CASE UserInit
  BY <1>1, NewAccountType DEF UserInit, TypeOK, ProcState
<1>2. ASSUME NEW c \in CPUS, NEW t \in TICKETS, Forks(c, t) PROVE TypeOK'
  BY <1>2, NewAccountType DEF Forks, TypeOK, ProcState
<1>3. ASSUME NEW c \in CPUS, NEW m \in Slot, Dispatch(c, m) PROVE TypeOK'
  <2>1. 0 \in Int32 /\ stride[m] \in Int32
    BY IntMaxAssumption DEF TypeOK, Int32
  <2>2. pass' \in [Slot -> Int32] /\ limitpass' \in [Slot -> Int32]
    BY Zenon, <1>3, <1>a, <2>1 DEF Dispatch, Charge, TypeOK
  <2>. QED  BY Zenon, <1>3, <2>2 DEF Dispatch, TypeOK, ProcState, Panics
<1>4. ASSUME NEW c \in CPUS, NEW W \in SUBSET Sleeping, Running(c), Yield(c, W)
      PROVE  TypeOK'
  BY Zenon, <1>4, <1>a, <1>b DEF Yield, Running, TypeOK, ProcState
<1>5. ASSUME NEW c \in CPUS, NEW W \in SUBSET Sleeping, DeviceCharge(c, W)
      PROVE  TypeOK'
  BY Zenon, <1>5, <1>a, <1>b DEF DeviceCharge, Running, TypeOK
<1>6. ASSUME NEW c \in CPUS, NEW W \in SUBSET Sleeping,
             IdleInterrupt(c, W) \/ Wakeup(c, W) \/ Exit(c, W)
      PROVE  TypeOK'
  BY <1>6, <1>b DEF IdleInterrupt, Wakeup, Exit, TypeOK, ProcState
<1>7. ASSUME NEW c \in CPUS, Sleep(c) PROVE TypeOK'
  BY <1>7 DEF Sleep, TypeOK, ProcState
<1>8. ASSUME NEW c \in CPUS, NEW z \in Slot, Reap(c, z) PROVE TypeOK'
  BY <1>8 DEF Reap, TypeOK, ProcState
<1>9. CASE UNCHANGED vars
  BY <1>9 DEF vars, TypeOK
<1>. QED
  BY <1>1, <1>2, <1>3, <1>4, <1>5, <1>6, <1>7, <1>8, <1>9
     DEF Next, Timer, DeviceYield

-----------------------------------------------------------------------------
(***************************************************************************)
(* PassGap.  What the step of the history variable needs to know of a step *)
(* of the scheduler: a stride only changes when the slot is taken, and a   *)
(* process that is picked has the smallest pass and is the only one whose  *)
(* pass changes.                                                           *)
(***************************************************************************)
LEMMA StrideKept ==
    ASSUME TypeOK, [Next]_vars, NEW p \in Slot
    PROVE  Created(p) \/ stride'[p] = stride[p]
<1>1. CASE UserInit
  BY <1>1, SlotType DEF UserInit, NewAccount, Created, TypeOK
<1>2. ASSUME NEW c \in CPUS, NEW t \in TICKETS, Forks(c, t)
      PROVE  Created(p) \/ stride'[p] = stride[p]
  BY <1>2 DEF Forks, FirstUnused, NewAccount, Created, TypeOK
<1>3. CASE UNCHANGED stride
  BY <1>3
<1>. QED
  BY ZenonT(30), <1>1, <1>2, <1>3
     DEF Next, vars, Dispatch, Timer, DeviceYield, Yield, DeviceCharge,
         IdleInterrupt, Wakeup, Exit, Sleep, Reap

LEMMA PickedIsMinProc ==
    ASSUME TypeOK, [Next]_vars, NEW p \in Slot, Picked(p)
    PROVE  /\ MinProc(p)
           /\ stride'[p] = stride[p]
           /\ \A q \in Slot : q # p => pass'[q] = pass[q]
<1>. PICK c \in CPUS : proc[c] = Nobody /\ proc'[c] = p
  BY DEF Picked
<1>1. proc'[c] # proc[c]
  BY SlotType
<1>2. PICK d \in CPUS : \/ \E m \in Slot : Dispatch(d, m)
                        \/ proc'[d] = Nobody /\ proc' = [proc EXCEPT ![d] = Nobody]
  BY <1>1 DEF Next, vars, UserInit, Forks, Timer, DeviceYield, Yield,
              DeviceCharge, IdleInterrupt, Wakeup, Exit, Sleep, Reap, TypeOK
<1>3. PICK m \in Slot : Dispatch(d, m)
  BY <1>1, <1>2, SlotType DEF TypeOK
<1>4. d = c /\ m = p
  BY Zenon, <1>1, <1>3 DEF Dispatch, TypeOK
<1>. QED  BY Zenon, <1>3, <1>4 DEF Dispatch, Charge, TypeOK

LEMMA PassGapStep == FairTypeOK /\ PassGap /\ [FairNext]_fairVars => PassGap'
<1>. SUFFICES ASSUME FairTypeOK, PassGap, FairNext PROVE PassGap'
  BY DEF PassGap, fairVars, vars
<1>. USE DEF FairTypeOK
<1>. SUFFICES ASSUME NEW p \in Slot, NEW q \in peers'[p]
              PROVE  pass'[p] <= pass'[q] + stride'[p]
  BY DEF PassGap
<1>1. [Next]_vars /\ TypeOK' /\ peers'[p] = PeersAfter(p)
  BY TypeStep DEF FairNext
<1>2. q \in Slot
  BY <1>1 DEF PeersAfter
<1>3. /\ pass[p] \in Int /\ pass'[p] \in Int /\ pass[q] \in Int /\ pass'[q] \in Int
      /\ stride[p] \in Nat /\ stride'[p] \in Nat
  BY <1>1, <1>2, IntMaxAssumption DEF TypeOK, Int32
<1>4. CASE Paid(p)
  <2>1. q \in Slot /\ Live(q)
    BY <1>1, <1>4 DEF PeersAfter
  <2>2. MinProc(p) /\ stride'[p] = stride[p] /\ (q # p => pass'[q] = pass[q])
    BY <1>1, <1>2, <1>4, PickedIsMinProc DEF Paid
  <2>3. pass[p] <= pass[q]
    BY <1>3, <2>1, <2>2 DEF MinProc, Candidate
  <2>. QED  BY <1>3, <1>4, <2>2, <2>3 DEF Paid
<1>5. CASE ~Paid(p)
  <2>1. q \in peers[p] /\ q \notin Restarted /\ ~(pass'[p] > pass[p]) /\ ~Created(p)
    BY <1>1, <1>5 DEF PeersAfter
  <2>2. stride'[p] = stride[p]
    BY <1>1, <2>1, StrideKept
  <2>3. pass[q] <= pass'[q]
    BY <1>2, <1>3, <2>1 DEF Restarted
  <2>4. pass[p] <= pass[q] + stride[p]
    BY <2>1 DEF PassGap
  <2>. QED  BY <1>3, <2>1, <2>2, <2>3, <2>4
<1>. QED  BY <1>4, <1>5

(***************************************************************************)
(* Type correctness of the scheduler's state, for every width of int.      *)
(***************************************************************************)
THEOREM FairTypeCorrect == FairSpec => []FairTypeOK
<1>1. FairInit => FairTypeOK
  BY SlotType, IntMaxAssumption
     DEF FairInit, Init, FairTypeOK, TypeOK, ProcState, Panics, Int32
<1>2. FairTypeOK /\ [FairNext]_fairVars => FairTypeOK'
  <2>. SUFFICES ASSUME FairTypeOK, [FairNext]_fairVars PROVE FairTypeOK'
    OBVIOUS
  <2>1. TypeOK'
    BY TypeStep DEF FairTypeOK, FairNext, fairVars
  <2>2. peers' \in [Slot -> SUBSET Slot]
    BY DEF FairTypeOK, FairNext, fairVars, PeersAfter
  <2>. QED  BY <2>1, <2>2 DEF FairTypeOK
<1>. QED  BY <1>1, <1>2, PTL DEF FairSpec

(***************************************************************************)
(* The smallest-pass rule bounds how far a process can get ahead: by one   *)
(* of its own strides, whatever the processes do and however many cpus     *)
(* run the scheduler.                                                      *)
(***************************************************************************)
THEOREM PassGapHolds == FairSpec => []PassGap
<1>1. FairInit => PassGap
  BY DEF FairInit, PassGap
<1>. QED  BY <1>1, PassGapStep, FairTypeCorrect, PTL DEF FairSpec

-----------------------------------------------------------------------------
(***************************************************************************)
(* One cpu.  Before userinit() nothing runs; after it, slot 0 holds a live *)
(* process, because init is never the one that exits or is reaped.         *)
(***************************************************************************)
Booted ==
    \/ (\A p \in Slot : state[p] = "UNUSED") /\ proc[0] = Nobody
    \/ Live(0)

LEMMA BootedStep ==
    ASSUME CPUS = {0}, TypeOK, Booted, NoPanic, [Next]_vars
    PROVE  Booted' /\ NoPanic'
<1>. USE SlotType
<1>0. ASSUME NEW W \in SUBSET Sleeping, Live(0)
      PROVE  Awake(W)[0] \in {"SLEEPING", "RUNNABLE", "RUNNING"}
  BY <1>0 DEF Live, Awake
<1>1. CASE UserInit
  BY <1>1 DEF UserInit, NewAccount, Booted, Live, TypeOK, NoPanic
<1>2. ASSUME NEW t \in TICKETS, Forks(0, t) PROVE Booted' /\ NoPanic'
  BY <1>2 DEF Forks, FirstUnused, NewAccount, Booted, Live, TypeOK, NoPanic
<1>3. ASSUME NEW m \in Slot, Dispatch(0, m) PROVE Booted' /\ NoPanic'
  <2>1. Live(0) /\ Live(m)
    BY Zenon, <1>3 DEF Dispatch, Booted, MinProc, Candidate
  <2>. QED  BY Zenon, <1>3, <2>1 DEF Dispatch, Booted, Live, TypeOK, NoPanic
<1>4. ASSUME NEW W \in SUBSET Sleeping, Running(0), Yield(0, W)
      PROVE  Booted' /\ NoPanic'
  <2>1. Live(0)
    BY <1>4 DEF Running, Booted
  <2>. QED  BY <1>0, <1>4, <2>1 DEF Yield, Awake, Running, Booted, Live, TypeOK, NoPanic
<1>5. ASSUME NEW W \in SUBSET Sleeping,
             DeviceCharge(0, W) \/ Wakeup(0, W) \/ Exit(0, W)
      PROVE  Booted' /\ NoPanic'
  <2>1. Live(0)
    BY <1>5 DEF DeviceCharge, Running, Wakeup, Exit, Booted
  <2>. QED  BY Zenon, <1>0, <1>5, <2>1
              DEF DeviceCharge, Wakeup, Exit, Awake, Booted, Live, TypeOK, NoPanic
<1>6. ASSUME NEW W \in SUBSET Sleeping, IdleInterrupt(0, W) PROVE Booted' /\ NoPanic'
  <2>1. Live(0)
    BY Zenon, <1>6 DEF IdleInterrupt, Booted, Sleeping
  <2>. QED  BY <1>0, <1>6, <2>1 DEF IdleInterrupt, Booted, Live, NoPanic
<1>7. CASE Sleep(0)
  BY <1>7 DEF Sleep, Booted, Live, TypeOK, NoPanic
<1>8. ASSUME NEW z \in Slot, Reap(0, z) PROVE Booted' /\ NoPanic'
  BY <1>8 DEF Reap, Booted, Live, TypeOK, NoPanic
<1>9. CASE UNCHANGED vars
  BY <1>9 DEF vars, Booted, Live, NoPanic
<1>. QED
  BY <1>1, <1>2, <1>3, <1>4, <1>5, <1>6, <1>7, <1>8, <1>9
     DEF Next, Timer, DeviceYield

(***************************************************************************)
(* On one cpu scheduler() never switches to an empty or a dead slot, also  *)
(* when the counters overflow.                                             *)
(***************************************************************************)
THEOREM NoPanicOnOneCpu == ASSUME CPUS = {0} PROVE Spec => []NoPanic
<1>1. Init => TypeOK /\ Booted /\ NoPanic
  BY SlotType, IntMaxAssumption, CpusAssumption
     DEF Init, TypeOK, ProcState, Panics, Int32, Booted, NoPanic
<1>2. TypeOK /\ Booted /\ NoPanic /\ [Next]_vars => (TypeOK /\ Booted /\ NoPanic)'
  BY TypeStep, BootedStep
<1>. QED  BY <1>1, <1>2, PTL DEF Spec

-----------------------------------------------------------------------------
(***************************************************************************)
(* The refinement.  Before the first overflow no field is negative, and a  *)
(* slot in use has a stride and a limit of at least 1, so that a yield or  *)
(* a free dispatch leaves the limit above the pass.                        *)
(***************************************************************************)
Positive ==
    \A p \in Slot :
        /\ pass[p] >= 0
        /\ limitpass[p] >= 0
        /\ state[p] # "UNUSED" => stride[p] >= 1 /\ limitpass[p] >= 1

RunningInv == proc[0] # Nobody => state[proc[0]] = "RUNNING" /\ tickets[proc[0]] > 0

IdealInv == TypeOK /\ Booted /\ NoPanic /\ Positive /\ RunningInv

\* The sums are exact.
LEMMA Exact ==
    ASSUME TypeOK, Positive, NoOverflow, NEW p \in Slot
    PROVE  /\ NextPass(p) = pass[p] + stride[p]
           /\ NextLimit(p) = limitpass[p] + pass[p] + stride[p]
           /\ pass[p] \in Nat /\ limitpass[p] \in Nat /\ stride[p] \in Nat
<1>1. pass[p] \in Nat /\ limitpass[p] \in Nat /\ stride[p] \in Nat
  BY IntMaxAssumption DEF TypeOK, Int32, Positive
<1>2. pass[p] + stride[p] \in Int32 /\ limitpass[p] + pass[p] + stride[p] \in Int32
  BY <1>1, IntMaxAssumption DEF NoOverflow, Int32
<1>. QED  BY <1>1, <1>2, WrapExact DEF NextPass, NextLimit

LEMMA PositiveStep ==
    ASSUME CPUS = {0}, IdealInv, Next, NoOverflow
    PROVE  Positive'
<1>. USE SlotType DEF IdealInv
<1>0. ASSUME NEW W \in SUBSET Sleeping, NEW p \in Slot
      PROVE  state[p] = "UNUSED" <=> Awake(W)[p] = "UNUSED"
  BY <1>0 DEF Awake, Sleeping
<1>e. ASSUME NEW p \in Slot
      PROVE  /\ NextPass(p) = pass[p] + stride[p]
             /\ NextLimit(p) = limitpass[p] + pass[p] + stride[p]
             /\ pass[p] \in Nat /\ limitpass[p] \in Nat /\ stride[p] \in Nat
  BY Exact
<1>1. CASE UserInit
  <2>1. 10000 \div 300 \in 1 .. INT_MAX
    BY StrideType
  <2>. QED  BY <1>1, <2>1, IntMaxAssumption DEF UserInit, NewAccount, Positive, TypeOK
<1>2. ASSUME NEW t \in TICKETS, Forks(0, t) PROVE Positive'
  <2>1. 10000 \div t \in 1 .. INT_MAX
    BY StrideType
  <2>. QED  BY <1>2, <2>1, IntMaxAssumption DEF Forks, NewAccount, Positive, TypeOK
<1>3. ASSUME NEW m \in Slot, Dispatch(0, m) PROVE Positive'
  <2>1. Live(m)
    BY Zenon, <1>3 DEF Dispatch, Booted, MinProc, Candidate
  <2>2. stride[m] >= 1 /\ limitpass[m] >= 1
    BY <2>1 DEF Live, Positive
  <2>3. pass[m] \in Nat /\ limitpass[m] \in Nat /\ stride[m] \in Nat
    BY <1>e
  <2>4. NextPass(m) \in Nat /\ NextLimit(m) \in Nat /\ NextLimit(m) >= 1
    BY <1>e, <2>2
  <2>5. /\ pass'[m] \in Nat /\ limitpass'[m] \in Nat /\ limitpass'[m] >= 1
        /\ \A p \in Slot \ {m} : pass'[p] = pass[p] /\ limitpass'[p] = limitpass[p]
    BY Zenon, <1>3, <2>2, <2>3, <2>4 DEF Dispatch, Charge, TypeOK
  <2>6. stride' = stride /\ \A p \in Slot \ {m} : state'[p] = state[p]
    BY Zenon, <1>3 DEF Dispatch, TypeOK
  <2>. SUFFICES ASSUME NEW p \in Slot
                PROVE  /\ pass'[p] >= 0
                       /\ limitpass'[p] >= 0
                       /\ state'[p] # "UNUSED" => stride'[p] >= 1 /\ limitpass'[p] >= 1
    BY DEF Positive
  <2>7. CASE p = m
    BY <2>2, <2>5, <2>6, <2>7
  <2>8. CASE p # m
    BY <2>5, <2>6, <2>8 DEF Positive
  <2>. QED  BY <2>7, <2>8
<1>4. ASSUME NEW W \in SUBSET Sleeping, Running(0), Yield(0, W) PROVE Positive'
  <2>1. proc[0] \in Slot /\ state[proc[0]] # "UNUSED"
    BY <1>4 DEF Running, TypeOK
  <2>2. NextLimit(proc[0]) \in Nat /\ NextLimit(proc[0]) >= 1
    <3>. PICK p \in Slot : p = proc[0]
      BY Zenon, <2>1
    <3>1. limitpass[p] >= 1
      BY <2>1 DEF Positive
    <3>. QED  BY <3>1, <1>e
  <2>. QED  BY <1>0, <1>4, <2>1, <2>2 DEF Yield, Awake, Positive, TypeOK
<1>5. ASSUME NEW W \in SUBSET Sleeping, DeviceCharge(0, W) PROVE Positive'
  <2>1. PICK p \in Slot : p = proc[0]
    BY Zenon, <1>5 DEF DeviceCharge, Running, TypeOK
  <2>2. NextPass(p) \in Nat
    BY <1>e
  <2>. QED  BY <1>0, <1>5, <2>1, <2>2 DEF DeviceCharge, Positive, TypeOK
<1>6. ASSUME NEW W \in SUBSET Sleeping,
             IdleInterrupt(0, W) \/ Wakeup(0, W) \/ Exit(0, W)
      PROVE  Positive'
  <2>1. \A p \in Slot : state[p] = "UNUSED" => state'[p] = "UNUSED" \/ p = proc[0]
    BY Zenon, <1>6 DEF IdleInterrupt, Wakeup, Exit, Awake, Sleeping, TypeOK
  <2>2. Exit(0, W) => proc[0] \in Slot /\ state[proc[0]] # "UNUSED"
    BY DEF Exit, TypeOK, RunningInv
  <2>3. \A p \in Slot : state[p] = "UNUSED" => state'[p] = "UNUSED"
    BY <1>0, <1>6, <2>1, <2>2 DEF IdleInterrupt, Wakeup
  <2>. QED  BY <1>6, <2>3 DEF IdleInterrupt, Wakeup, Exit, Positive
<1>7. CASE Sleep(0)
  BY <1>7 DEF Sleep, Positive, TypeOK, RunningInv
<1>8. ASSUME NEW z \in Slot, Reap(0, z) PROVE Positive'
  BY <1>8 DEF Reap, Positive, TypeOK
<1>. QED
  BY <1>1, <1>2, <1>3, <1>4, <1>5, <1>6, <1>7, <1>8 DEF Next, Timer, DeviceYield

LEMMA RunningStep ==
    ASSUME CPUS = {0}, IdealInv, Next
    PROVE  RunningInv'
<1>. USE SlotType DEF IdealInv
<1>1. CASE UserInit
  BY <1>1 DEF UserInit, NewAccount, Booted, Live, RunningInv, TypeOK
<1>2. ASSUME NEW t \in TICKETS, Forks(0, t) PROVE RunningInv'
  BY <1>2 DEF Forks, FirstUnused, NewAccount, RunningInv, TypeOK
<1>3. ASSUME NEW m \in Slot, Dispatch(0, m) PROVE RunningInv'
  <2>1. Live(m)
    BY Zenon, <1>3 DEF Dispatch, Booted, MinProc, Candidate
  <2>. QED  BY Zenon, <1>3, <2>1 DEF Dispatch, Live, RunningInv, TypeOK
<1>4. ASSUME NEW W \in SUBSET Sleeping,
             Yield(0, W) \/ Sleep(0) \/ Exit(0, W)
      PROVE  RunningInv'
  BY <1>4 DEF Yield, Sleep, Exit, RunningInv, TypeOK
<1>5. ASSUME NEW W \in SUBSET Sleeping,
             DeviceCharge(0, W) \/ IdleInterrupt(0, W) \/ Wakeup(0, W)
      PROVE  RunningInv'
  BY ZenonT(30), <1>5 DEF DeviceCharge, IdleInterrupt, Wakeup, Awake, Sleeping, RunningInv, TypeOK
<1>6. ASSUME NEW z \in Slot, Reap(0, z) PROVE RunningInv'
  BY <1>6 DEF Reap, RunningInv, TypeOK
<1>. QED
  BY <1>1, <1>2, <1>3, <1>4, <1>5, <1>6 DEF Next, Timer, DeviceYield

\* A process whose limit has moved above its pass becomes due.
LEMMA DueUpdate ==
    ASSUME NEW m \in Slot, ~AtLimit(m)',
           \A p \in Slot \ {m} : AtLimit(p)' = AtLimit(p)
    PROVE  Due' = [Due EXCEPT ![m] = TRUE]
BY Zenon DEF Due

(***************************************************************************)
(* Every step of the scheduler, the handlers and the system calls is a     *)
(* step of the ideal scheduler or changes nothing that it can see.         *)
(***************************************************************************)
LEMMA IdealStep ==
    ASSUME CPUS = {0}, IdealInv, Next, NoOverflow
    PROVE  Ideal!Next \/ UNCHANGED Ideal!idealVars
<1>. USE SlotType DEF IdealInv
<1>e. ASSUME NEW p \in Slot
      PROVE  /\ NextPass(p) = pass[p] + stride[p]
             /\ NextLimit(p) = limitpass[p] + pass[p] + stride[p]
             /\ pass[p] \in Nat /\ limitpass[p] \in Nat /\ stride[p] \in Nat
  BY Exact
<1>w. ASSUME NEW W \in SUBSET Sleeping, state' = Awake(W), tickets' = tickets
      PROVE  LiveSet' = LiveSet
  BY Zenon, <1>w DEF LiveSet, Live, Awake, Sleeping
<1>n. ASSUME NEW n \in Slot, NEW t \in TICKETS \cup {300}, state[n] = "UNUSED",
             NewAccount(n, t), state' = [state EXCEPT ![n] = "RUNNABLE"],
             UNCHANGED <<proc, panic>>
      PROVE  Ideal!Spawn(n)
  <2>1. t \in Nat /\ t > 0 /\ 10000 \div t \in 1 .. INT_MAX
    BY StrideType, TicketsAssumption
  <2>2. LiveSet' = LiveSet \cup {n} /\ n \notin LiveSet
    BY <1>n, <2>1 DEF NewAccount, LiveSet, Live, TypeOK
  <2>3. stride'[n] \in Nat /\ stride' = [stride EXCEPT ![n] = stride'[n]]
    BY <1>n, <2>1, IntMaxAssumption DEF NewAccount, TypeOK
  <2>4. pass' = [pass EXCEPT ![n] = 0] /\ proc'[0] = proc[0]
    BY <1>n DEF NewAccount
  <2>5. Due' = [Due EXCEPT ![n] = TRUE]
    <3>1. ~AtLimit(n)'
      BY <1>n, <2>1, IntMaxAssumption DEF NewAccount, AtLimit, TypeOK
    <3>2. \A p \in Slot \ {n} : AtLimit(p)' = AtLimit(p)
      BY <1>n DEF NewAccount, AtLimit, TypeOK
    <3>. QED  BY <3>1, <3>2, DueUpdate
  <2>. QED  BY <2>2, <2>3, <2>4, <2>5 DEF Ideal!Spawn
<1>1. CASE UserInit
  BY ZenonT(30), <1>1, <1>n DEF UserInit, Ideal!Next
<1>2. ASSUME NEW t \in TICKETS, Forks(0, t) PROVE Ideal!Next
  BY Zenon, <1>2, <1>n DEF Forks, FirstUnused, Ideal!Next
<1>3. ASSUME NEW m \in Slot, Dispatch(0, m) PROVE Ideal!Next
  <2>1. Live(m) /\ Live(0)
    BY Zenon, <1>3 DEF Dispatch, Booted, MinProc, Candidate
  <2>2. /\ pass[m] \in Nat /\ limitpass[m] \in Nat /\ stride[m] \in Nat
        /\ stride[m] >= 1 /\ limitpass[m] >= 1
    BY <1>e, <2>1 DEF Live, Positive
  <2>3. Ideal!Smallest(m)
    <3>1. ASSUME NEW q \in LiveSet PROVE pass[m] <= pass[q]
      <4>1. q \in Slot /\ Live(q)
        BY <3>1 DEF LiveSet
      <4>2. pass[m] < pass[q] \/ pass[m] = pass[q]
        BY Zenon, <1>3, <4>1 DEF Dispatch, MinProc, Candidate
      <4>3. pass[q] \in Nat
        BY <1>e, <4>1
      <4>. QED  BY <2>2, <4>2, <4>3
    <3>. QED  BY <2>1, <3>1 DEF Ideal!Smallest, LiveSet
  <2>4. LiveSet' = LiveSet /\ stride' = stride /\ proc[0] = Nobody /\ proc'[0] = m
    BY Zenon, <1>3, <2>1 DEF Dispatch, LiveSet, Live, TypeOK
  <2>5. CASE AtLimit(m)
    <3>1. pass' = pass /\ limitpass' = [limitpass EXCEPT ![m] = NextLimit(m)]
      <4>1. ~(pass[m] < 0) /\ pass = [pass EXCEPT ![m] = pass[m]]
        BY <2>2 DEF TypeOK
      <4>. QED  BY Zenon, <1>3, <2>5, <4>1 DEF Dispatch, Charge
    <3>2. ~AtLimit(m)'
      BY <3>1, <1>e, <2>2 DEF AtLimit, TypeOK
    <3>3. \A p \in Slot \ {m} : AtLimit(p)' = AtLimit(p)
      BY <3>1 DEF AtLimit, TypeOK
    <3>4. Due' = [Due EXCEPT ![m] = TRUE] /\ ~Due[m]
      BY Zenon, <2>5, <3>2, <3>3 DEF Due
    <3>. QED  BY Zenon, <2>3, <2>4, <3>1, <3>4 DEF Ideal!Ride, Ideal!Next
  <2>6. CASE ~AtLimit(m)
    <3>1. pass' = [pass EXCEPT ![m] = pass[m] + stride[m]] /\ limitpass' = limitpass
      <4>1. NextPass(m) = pass[m] + stride[m] /\ ~(NextPass(m) < 0)
        BY <1>e, <2>2
      <4>2. limitpass = [limitpass EXCEPT ![m] = limitpass[m]]
        BY DEF TypeOK
      <4>. QED  BY Zenon, <1>3, <2>6, <4>1, <4>2 DEF Dispatch, Charge
    <3>2. \A p \in Slot \ {m} : AtLimit(p)' = AtLimit(p)
      BY <3>1 DEF AtLimit, TypeOK
    <3>3. Due' = [Due EXCEPT ![m] = Due'[m]] /\ Due[m]
      BY Zenon, <2>6, <3>2 DEF Due
    <3>. QED  BY Zenon, <2>3, <2>4, <3>1, <3>3 DEF Ideal!Pay, Ideal!Next
  <2>. QED  BY <2>5, <2>6
<1>4. ASSUME NEW W \in SUBSET Sleeping, Running(0), Yield(0, W) PROVE Ideal!Next
  <2>1. PICK p \in Slot : p = proc[0]
    BY Zenon, <1>4 DEF Running, TypeOK
  <2>2. stride[p] >= 1 /\ tickets[p] > 0 /\ state[p] = "RUNNING" /\ p \notin W
    BY <1>4, <2>1 DEF Running, RunningInv, Positive, Sleeping
  <2>3. limitpass' = [limitpass EXCEPT ![p] = NextLimit(p)] /\ UNCHANGED <<stride, pass>>
    BY <1>4, <2>1 DEF Yield
  <2>4. ~AtLimit(p)' /\ \A q \in Slot \ {p} : AtLimit(q)' = AtLimit(q)
    BY <1>e, <2>2, <2>3 DEF AtLimit, TypeOK
  <2>5. Due' = [Due EXCEPT ![p] = TRUE]
    BY Zenon, <2>4 DEF Due
  <2>6. LiveSet' = LiveSet /\ proc'[0] = Nobody
    BY Zenon, <1>4, <2>1, <2>2 DEF Yield, LiveSet, Live, Awake, Sleeping, TypeOK
  <2>. QED  BY Zenon, <2>1, <2>3, <2>5, <2>6 DEF Ideal!Leave, Ideal!Next
<1>5. ASSUME NEW W \in SUBSET Sleeping, DeviceCharge(0, W) PROVE Ideal!Next
  <2>1. PICK p \in Slot : p = proc[0]
    BY Zenon, <1>5 DEF DeviceCharge, Running, TypeOK
  <2>2. pass' = [pass EXCEPT ![p] = pass[p] + stride[p]] /\ ~AtLimit(p)
    BY Zenon, <1>5, <1>e, <2>1 DEF DeviceCharge
  <2>3. \A q \in Slot \ {p} : AtLimit(q)' = AtLimit(q)
    BY <1>5, <2>2 DEF DeviceCharge, AtLimit, TypeOK
  <2>4. Due' = [Due EXCEPT ![p] = Due'[p]] /\ Due[p]
    BY Zenon, <2>2, <2>3 DEF Due
  <2>5. LiveSet' = LiveSet /\ UNCHANGED <<stride, proc>>
    BY <1>5, <1>w DEF DeviceCharge
  <2>. QED  BY Zenon, <2>1, <2>2, <2>4, <2>5 DEF Ideal!Surcharge, Ideal!Next
<1>6. ASSUME NEW W \in SUBSET Sleeping, IdleInterrupt(0, W) \/ Wakeup(0, W)
      PROVE  UNCHANGED Ideal!idealVars
  BY <1>6, <1>w DEF IdleInterrupt, Wakeup, Due, AtLimit, Ideal!idealVars
<1>7. ASSUME NEW W \in SUBSET Sleeping, Exit(0, W) PROVE Ideal!Next
  <2>1. PICK p \in Slot : p = proc[0]
    BY Zenon, <1>7 DEF Exit, TypeOK
  <2>2. p \notin W
    BY <1>7, <2>1 DEF Exit, RunningInv, Sleeping
  <2>3. LiveSet' = LiveSet \ {p}
    BY Zenon, <1>7, <2>1, <2>2 DEF Exit, LiveSet, Live, Awake, Sleeping, TypeOK
  <2>4. proc'[0] = Nobody /\ UNCHANGED <<stride, pass, Due>>
    BY <1>7 DEF Exit, Due, AtLimit, TypeOK
  <2>. QED  BY <2>1, <2>3, <2>4 DEF Ideal!Retire, Ideal!Next
<1>8. CASE Sleep(0)
  <2>1. PICK p \in Slot : p = proc[0]
    BY Zenon, <1>8 DEF Sleep, TypeOK
  <2>2. LiveSet' = LiveSet
    BY <1>8, <2>1 DEF Sleep, LiveSet, Live, RunningInv, TypeOK
  <2>3. proc'[0] = Nobody /\ UNCHANGED <<stride, pass, Due>>
    BY <1>8 DEF Sleep, Due, AtLimit, TypeOK
  <2>. QED  BY <2>1, <2>2, <2>3 DEF Ideal!Leave, Ideal!Next
<1>9. ASSUME NEW z \in Slot, Reap(0, z) PROVE UNCHANGED Ideal!idealVars
  BY <1>9 DEF Reap, LiveSet, Live, Due, AtLimit, TypeOK, Ideal!idealVars
<1>. QED
  BY <1>1, <1>2, <1>3, <1>4, <1>5, <1>6, <1>7, <1>8, <1>9
     DEF Next, Timer, DeviceYield

(***************************************************************************)
(* On one cpu and until the first overflow, the code's scheduler           *)
(* implements the ideal one, for every number of processes and every       *)
(* choice of tickets.                                                      *)
(***************************************************************************)
THEOREM StrideImplementsIdeal ==
    ASSUME CPUS = {0} PROVE SpecNoOverflow => ImplementsIdeal
<1>1. Init => IdealInv /\ Ideal!Init
  <2>. SUFFICES ASSUME Init PROVE IdealInv /\ Ideal!Init
    OBVIOUS
  <2>1. TypeOK
    BY SlotType, IntMaxAssumption DEF Init, TypeOK, ProcState, Panics, Int32
  <2>2. Booted /\ NoPanic /\ Positive /\ RunningInv
    BY CpusAssumption DEF Init, Booted, NoPanic, Positive, RunningInv
  <2>3. Ideal!Init
    BY CpusAssumption, IntMaxAssumption
       DEF Init, Ideal!Init, LiveSet, Live, Due
  <2>. QED  BY <2>1, <2>2, <2>3 DEF IdealInv
<1>2. IdealInv /\ [Next /\ NoOverflow]_vars => IdealInv'
  <2>. SUFFICES ASSUME IdealInv, [Next /\ NoOverflow]_vars PROVE IdealInv'
    OBVIOUS
  <2>1. CASE Next /\ NoOverflow
    <3>1. TypeOK' /\ Booted' /\ NoPanic'
      BY <2>1, TypeStep, BootedStep DEF IdealInv
    <3>. QED  BY <2>1, <3>1, PositiveStep, RunningStep DEF IdealInv
  <2>2. CASE UNCHANGED vars
    BY <2>2 DEF vars, IdealInv, TypeOK, Booted, Live, NoPanic, Positive, RunningInv
  <2>. QED  BY <2>1, <2>2
<1>3. IdealInv /\ [Next /\ NoOverflow]_vars => [Ideal!Next]_(Ideal!idealVars)
  <2>. SUFFICES ASSUME IdealInv, [Next /\ NoOverflow]_vars
                PROVE  Ideal!Next \/ UNCHANGED Ideal!idealVars
    OBVIOUS
  <2>1. CASE UNCHANGED vars
    BY <2>1 DEF vars, LiveSet, Live, Due, AtLimit, Ideal!idealVars
  <2>. QED  BY <2>1, IdealStep
<1>. QED  BY <1>1, <1>2, <1>3, PTL DEF SpecNoOverflow, ImplementsIdeal, Ideal!Spec
=============================================================================
