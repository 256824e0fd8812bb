-------------------------------- MODULE Memory -------------------------------
(***************************************************************************)
(* Physical pages and address spaces (kalloc.c, vm.c, and the parts of     *)
(* exec.c, fork(), exit(), wait() and growproc() that use them).  Several  *)
(* processes fork, exec, grow, shrink, exit and wait while the machine     *)
(* runs out of pages.  A step lasts from one kalloc() to the next, since   *)
(* other cpus allocate in between; the frees of one call are one step.     *)
(*                                                                         *)
(* Pages are alike, so the free list is a number and a page in use is a    *)
(* place that has one.  Sizes are in units of which PGSIZE make a page.    *)
(***************************************************************************)
EXTENDS Integers, FiniteSets, FiniteSetsExt

CONSTANTS
    NPROC, NPAGES,
    PGSIZE, NPTENTRIES, NPDENTRIES,     \* NPDENTRIES counts the user part
    UINT,                               \* sizes are uints
    Growth, Shrinkage,                  \* sbrk(n) and sbrk(-n)
    Segment,                            \* sizes of the programs to exec
    Args                                \* space their arguments take

KERNBASE == PGSIZE * NPTENTRIES * NPDENTRIES
PGROUNDUP(a) == ((a + PGSIZE - 1) \div PGSIZE) * PGSIZE

ASSUME MemoryAssumption ==
    /\ {NPROC, PGSIZE, NPTENTRIES, NPDENTRIES} \subseteq Nat \ {0}
    /\ NPAGES \in Nat /\ NPAGES >= 5 /\ UINT > 2 * KERNBASE
    /\ Growth \cup Shrinkage \cup Segment \cup Args \subseteq Nat \ {0}

VARIABLES
    free,       \* the length of kmem.freelist
    state, sz,
    kstack,     \* whether a process has a kernel stack
    pgdir,      \* the address space of a process
    call,       \* the system call each process is in, with its locals
    lost,       \* history: pages that are in use nowhere and not free
    panic

vars == <<free, state, sz, kstack, pgdir, call, lost, panic>>

Process == 1 .. NPROC
Vpn == 0 .. NPTENTRIES * NPDENTRIES - 1
PDX(v) == v \div NPTENTRIES

\* A space: whether there is a directory, whether the kernel part has its
\* tables, the user tables that are there, the user page numbers that are
\* mapped, those of them with PTE_U; and as history those that clearpteu() has
\* put out of reach, and whether a page below the size may be missing.
None == [dir |-> FALSE, kernel |-> FALSE, table |-> {}, page |-> {}, user |-> {},
         guard |-> {}, damaged |-> FALSE]

Call(op, step) ==
    [op |-> op, step |-> step, child |-> 1, space |-> None, at |-> 0,
     oldsz |-> 0, newsz |-> 0, args |-> 0]

Idle == Call("none", "none")

\* userinit(): one process with one page, made by setupkvm() and inituvm().
Init ==
    /\ free = NPAGES - 5
    /\ state = [p \in Process |-> IF p = 1 THEN "RUN" ELSE "UNUSED"]
    /\ sz = [p \in Process |-> IF p = 1 THEN PGSIZE ELSE 0]
    /\ kstack = [p \in Process |-> p = 1]
    /\ pgdir = [p \in Process |->
         IF p = 1 THEN [None EXCEPT !.dir = TRUE, !.kernel = TRUE, !.table = {0}, !.page = {0}, !.user = {0}]
         ELSE None]
    /\ call = [p \in Process |-> Idle]
    /\ lost = 0
    /\ panic = FALSE

-----------------------------------------------------------------------------
One(b) == IF b THEN 1 ELSE 0

\* kalloc() succeeds.
kalloc == free > 0 /\ free' = free - 1

kfree(n) == free' = free + n

\* The page numbers deallocuvm() looks at between two sizes.  Where a table is
\* missing it skips as many pages as a table has, from where it is.
Visited(s, oldsz, newsz) ==
    LET seen[a \in 0 .. oldsz + PGSIZE * NPTENTRIES] ==
          IF a >= oldsz THEN {}
          ELSE IF PDX(a \div PGSIZE) \notin s.table THEN seen[a + PGSIZE * NPTENTRIES]
          ELSE {a \div PGSIZE} \cup seen[a + PGSIZE]
    IN  IF newsz >= oldsz THEN {} ELSE seen[PGROUNDUP(newsz)]

\* deallocuvm(): how many pages it frees, and what is left of the space.
Freed(s, oldsz, newsz) == Cardinality(Visited(s, oldsz, newsz) \cap s.page)

deallocuvm(s, oldsz, newsz) ==
    LET gone == Visited(s, oldsz, newsz)
    IN  [s EXCEPT !.page = @ \ gone, !.user = @ \ gone, !.guard = @ \ gone]

\* freevm(): how many pages it frees, tables and directory included.
freevm_KeepsTables(s) == Freed(s, KERNBASE, 0) + One(s.kernel) + One(s.dir)

freevm(s) == Freed(s, KERNBASE, 0) + Cardinality(s.table) + One(s.kernel) + One(s.dir)

HasTable(s, v) == PDX(v) \in s.table

At(p, step) == ~panic /\ state[p] = "RUN" /\ call[p].step = step

Ready(p) == ~panic /\ state[p] = "RUN" /\ call[p] = Idle

Goto(p, step) == call' = [call EXCEPT ![p].step = step]

Return(p) == call' = [call EXCEPT ![p] = Idle]

Panics == panic' = TRUE /\ UNCHANGED <<free, state, sz, kstack, pgdir, call, lost>>

\* The space that allocuvm() works on: its own for sbrk(), a new one for exec().
Grown(p) == IF call[p].op = "sbrk" THEN pgdir[p] ELSE call[p].space

\* The call returns -1: the pages of the new space are freed, and fork() gives
\* up its child with its stack.
Fails(p) ==
    /\ Return(p)
    /\ kfree(freevm(call[p].space) + One(call[p].op = "fork"))
    /\ kstack' = IF call[p].op = "fork" THEN [kstack EXCEPT ![call[p].child] = FALSE] ELSE kstack
    /\ state' = IF call[p].op = "fork" THEN [state EXCEPT ![call[p].child] = "UNUSED"] ELSE state

-----------------------------------------------------------------------------
(***************************************************************************)
(* setupkvm(), in fork() and exec()                                        *)
(***************************************************************************)
SetupDirectory(p) ==
    /\ At(p, "directory")
    /\ \/ /\ kalloc
          /\ call' = [call EXCEPT ![p].space.dir = TRUE, ![p].step = "kernel"]
          /\ UNCHANGED <<kstack, state>>
       \/ free = 0 /\ Fails(p)
    /\ UNCHANGED <<sz, pgdir, lost, panic>>

\* The kernel's mappings need tables of their own; if mappages() fails for
\* them setupkvm() forgets the directory.
SetupKernel(p) ==
    /\ At(p, "kernel")
    /\ \/ /\ kalloc
          /\ call' = [call EXCEPT ![p].space.kernel = TRUE, ![p].step = "next"]
          /\ UNCHANGED <<kstack, state, lost>>
       \/ /\ free = 0
          /\ lost' = lost + 1
          /\ Return(p)
          /\ kfree(One(call[p].op = "fork"))
          /\ kstack' = IF call[p].op = "fork" THEN [kstack EXCEPT ![call[p].child] = FALSE] ELSE kstack
          /\ state' = IF call[p].op = "fork" THEN [state EXCEPT ![call[p].child] = "UNUSED"] ELSE state
    /\ UNCHANGED <<sz, pgdir, panic>>

-----------------------------------------------------------------------------
(***************************************************************************)
(* fork(): allocproc() and copyuvm()                                       *)
(***************************************************************************)
Fork(p, q) ==
    /\ Ready(p) /\ state[q] = "UNUSED"
    /\ state' = [state EXCEPT ![q] = "EMBRYO"]
    /\ call' = [call EXCEPT ![p] = [Call("fork", "kstack") EXCEPT !.child = q]]
    /\ UNCHANGED <<free, sz, kstack, pgdir, lost, panic>>

ForkStack(p) ==
    /\ At(p, "kstack")
    /\ \/ /\ kalloc
          /\ kstack' = [kstack EXCEPT ![call[p].child] = TRUE]
          /\ Goto(p, "directory")
          /\ UNCHANGED state
       \/ /\ free = 0
          /\ state' = [state EXCEPT ![call[p].child] = "UNUSED"]
          /\ Return(p)
          /\ UNCHANGED <<free, kstack>>
    /\ UNCHANGED <<sz, pgdir, lost, panic>>

InCopy(p) == At(p, "next") /\ call[p].op = "fork"

\* The loop of copyuvm(): the next page of the parent, and a page for it.
CopyPage(p) ==
    /\ InCopy(p) /\ call[p].at * PGSIZE < sz[p] /\ call[p].at \in pgdir[p].page
    /\ \/ kalloc /\ Goto(p, "map") /\ UNCHANGED <<state, kstack>>
       \/ free = 0 /\ Fails(p)
    /\ UNCHANGED <<sz, pgdir, lost, panic>>

\* "copyuvm: pte should exist", "copyuvm: page not present"
CopyPanics(p) ==
    /\ InCopy(p) /\ call[p].at * PGSIZE < sz[p] /\ call[p].at \notin pgdir[p].page
    /\ Panics

ForkDone(p) ==
    /\ InCopy(p) /\ call[p].at * PGSIZE >= sz[p]
    /\ pgdir' = [pgdir EXCEPT ![call[p].child] = call[p].space]
    /\ sz' = [sz EXCEPT ![call[p].child] = sz[p]]
    /\ state' = [state EXCEPT ![call[p].child] = "RUN"]
    /\ Return(p)
    /\ UNCHANGED <<free, kstack, lost, panic>>

-----------------------------------------------------------------------------
(***************************************************************************)
(* mappages() for one page, in copyuvm() and allocuvm()                    *)
(***************************************************************************)
\* copyuvm() copies the flags of the parent's entry.
Flags(p) == IF call[p].op = "fork" THEN pgdir[p].user \cap {call[p].at} ELSE {call[p].at}

Guards(p) == IF call[p].op = "fork" THEN pgdir[p].guard \cap {call[p].at} ELSE {}

Enter(s, p) ==
    [s EXCEPT !.table = @ \cup {PDX(call[p].at)},
              !.page = @ \cup {call[p].at},
              !.user = @ \cup Flags(p),
              !.guard = @ \cup Guards(p)]

\* walkpgdir() allocates the table if it is not there.
MapPage(p) ==
    /\ At(p, "map")
    /\ IF HasTable(Grown(p), call[p].at) THEN UNCHANGED free ELSE kalloc
    /\ call' = [call EXCEPT ![p].step = "next", ![p].at = @ + 1,
                            ![p].space = IF call[p].op = "sbrk" THEN @ ELSE Enter(@, p)]
    /\ pgdir' = IF call[p].op = "sbrk" THEN [pgdir EXCEPT ![p] = Enter(@, p)] ELSE pgdir
    /\ UNCHANGED <<state, sz, kstack, lost, panic>>

\* No page for the table: copyuvm() gives up and forgets the page it was about
\* to map; allocuvm() does not look at the result and goes on.
MapFails(p) ==
    /\ At(p, "map") /\ ~HasTable(Grown(p), call[p].at) /\ free = 0
    /\ lost' = lost + 1
    /\ IF call[p].op = "fork" THEN Fails(p) /\ UNCHANGED pgdir
       ELSE /\ call' = [call EXCEPT ![p].step = "next", ![p].at = @ + 1,
                                    ![p].space.damaged = call[p].op # "sbrk" \/ @]
            /\ pgdir' = [pgdir EXCEPT ![p].damaged = call[p].op = "sbrk" \/ @]
            /\ UNCHANGED <<free, state, kstack>>
    /\ UNCHANGED <<sz, panic>>

-----------------------------------------------------------------------------
(***************************************************************************)
(* growproc() and allocuvm()                                               *)
(***************************************************************************)
\* The checks of allocuvm(); a wrapped sum is smaller than the old size.
Allocates(oldsz, newsz) == newsz < KERNBASE /\ newsz >= oldsz

SbrkGrows(p, n) ==
    /\ Ready(p)
    /\ LET newsz == (sz[p] + n) % UINT
       IN  /\ Allocates(sz[p], newsz)
           /\ call' = [call EXCEPT ![p] =
                 [Call("sbrk", "next") EXCEPT !.oldsz = sz[p], !.newsz = newsz,
                                              !.at = PGROUNDUP(sz[p]) \div PGSIZE]]
    /\ UNCHANGED <<free, state, sz, kstack, pgdir, lost, panic>>

\* growproc() takes the size 0 for an error of deallocuvm(), after the pages
\* are gone, and leaves sz as it was.
SbrkShrinks(p, n) ==
    /\ Ready(p)
    /\ LET newsz == (sz[p] - n) % UINT
       IN  /\ newsz < sz[p]
           /\ kfree(Freed(pgdir[p], sz[p], newsz))
           /\ pgdir' = [pgdir EXCEPT ![p] =
                 [deallocuvm(@, sz[p], newsz) EXCEPT !.damaged = newsz = 0 \/ @]]
           /\ sz' = IF newsz = 0 THEN sz ELSE [sz EXCEPT ![p] = newsz]
    /\ UNCHANGED <<state, kstack, call, lost, panic>>

InAlloc(p) == At(p, "next") /\ call[p].op \in {"sbrk", "segment", "stack"}

GrowPage_KeepsPages(p) ==
    /\ InAlloc(p) /\ call[p].at * PGSIZE < call[p].newsz
    /\ \/ kalloc /\ Goto(p, "map") /\ UNCHANGED <<state, kstack, pgdir>>
       \/ free = 0 /\ call[p].op = "sbrk" /\ Return(p) /\ UNCHANGED <<free, state, kstack, pgdir>>
       \/ free = 0 /\ call[p].op # "sbrk" /\ Fails(p) /\ UNCHANGED pgdir
    /\ UNCHANGED <<sz, lost, panic>>

\* The loop of allocuvm(); out of memory, it takes back what it has allocated,
\* and exec() frees the rest.
GrowPage(p) ==
    /\ InAlloc(p) /\ call[p].at * PGSIZE < call[p].newsz
    /\ \/ kalloc /\ Goto(p, "map") /\ UNCHANGED <<state, kstack, pgdir>>
       \/ /\ free = 0 /\ call[p].op = "sbrk"
          /\ kfree(Freed(pgdir[p], call[p].newsz, call[p].oldsz))
          /\ pgdir' = [pgdir EXCEPT ![p] = deallocuvm(@, call[p].newsz, call[p].oldsz)]
          /\ Return(p)
          /\ UNCHANGED <<state, kstack>>
       \/ free = 0 /\ call[p].op # "sbrk" /\ Fails(p) /\ UNCHANGED pgdir
    /\ UNCHANGED <<sz, lost, panic>>

SbrkDone(p) ==
    /\ InAlloc(p) /\ call[p].op = "sbrk" /\ call[p].at * PGSIZE >= call[p].newsz
    /\ sz' = [sz EXCEPT ![p] = call[p].newsz]
    /\ Return(p)
    /\ UNCHANGED <<free, state, kstack, pgdir, lost, panic>>

-----------------------------------------------------------------------------
(***************************************************************************)
(* exec()                                                                  *)
(***************************************************************************)
Exec(p, segment, args) ==
    /\ Ready(p)
    /\ call' = [call EXCEPT ![p] = [Call("segment", "directory") EXCEPT !.newsz = segment, !.args = args]]
    /\ UNCHANGED <<free, state, sz, kstack, pgdir, lost, panic>>

Load_SetsSize(p, ok) ==
    /\ InAlloc(p) /\ call[p].op = "segment" /\ call[p].at * PGSIZE >= call[p].newsz
    /\ LET top == PGROUNDUP(call[p].newsz)
       IN  IF ~ok THEN Fails(p) /\ UNCHANGED <<sz, pgdir, lost, panic>>
           ELSE /\ call' = [call EXCEPT ![p].op = "stack", ![p].oldsz = top, ![p].newsz = top + 2 * PGSIZE]
                /\ sz' = [sz EXCEPT ![p] = top]
                /\ UNCHANGED <<free, state, kstack, pgdir, lost, panic>>

\* loaduvm() after the segment is allocated: it needs the tables of its pages,
\* and it fails when the file does.  Then come the two pages for the stack.
Load(p, ok) ==
    /\ InAlloc(p) /\ call[p].op = "segment" /\ call[p].at * PGSIZE >= call[p].newsz
    /\ LET top == PGROUNDUP(call[p].newsz)
       IN  IF \E v \in 0 .. call[p].at - 1 : ~HasTable(call[p].space, v) THEN Panics
           ELSE IF ~ok \/ ~Allocates(top, top + 2 * PGSIZE)
             THEN Fails(p) /\ UNCHANGED <<sz, pgdir, lost, panic>>
           ELSE /\ call' = [call EXCEPT ![p].op = "stack", ![p].oldsz = top, ![p].newsz = top + 2 * PGSIZE]
                /\ UNCHANGED <<free, state, sz, kstack, pgdir, lost, panic>>

\* clearpteu() takes the page below the stack from the user, so copyout() of
\* too many arguments fails there; the new image replaces the old one.
ExecDone(p) ==
    /\ InAlloc(p) /\ call[p].op = "stack" /\ call[p].at * PGSIZE >= call[p].newsz
    /\ LET guard == call[p].at - 2
           first == (call[p].newsz - call[p].args) \div PGSIZE
           s == [call[p].space EXCEPT !.user = @ \ {guard}, !.guard = @ \cup {guard}]
       IN  IF \E v \in {guard, first} : ~HasTable(s, v) THEN Panics
           ELSE IF ~(first .. call[p].at - 1 \subseteq s.user)
             THEN Fails(p) /\ UNCHANGED <<sz, pgdir, lost, panic>>
           ELSE /\ pgdir' = [pgdir EXCEPT ![p] = s]
                /\ sz' = [sz EXCEPT ![p] = call[p].newsz]
                /\ kfree(freevm(pgdir[p]))
                /\ Return(p)
                /\ UNCHANGED <<state, kstack, lost, panic>>

-----------------------------------------------------------------------------
Exit(p) ==
    /\ Ready(p) /\ p # 1
    /\ state' = [state EXCEPT ![p] = "ZOMBIE"]
    /\ UNCHANGED <<free, sz, kstack, pgdir, call, lost, panic>>

\* wait() frees what a child has left; Proc says whose child it is.
Wait(p, q) ==
    /\ Ready(p) /\ state[q] = "ZOMBIE"
    /\ kfree(1 + freevm(pgdir[q]))
    /\ kstack' = [kstack EXCEPT ![q] = FALSE]
    /\ pgdir' = [pgdir EXCEPT ![q] = None]
    /\ sz' = [sz EXCEPT ![q] = 0]
    /\ state' = [state EXCEPT ![q] = "UNUSED"]
    /\ UNCHANGED <<call, lost, panic>>

Next ==
    \E p \in Process :
      \/ \E q \in Process : Fork(p, q) \/ Wait(p, q)
      \/ ForkStack(p) \/ SetupDirectory(p) \/ SetupKernel(p)
      \/ CopyPage(p) \/ CopyPanics(p) \/ ForkDone(p) \/ MapPage(p) \/ MapFails(p)
      \/ (\E n \in Growth : SbrkGrows(p, n)) \/ (\E n \in Shrinkage : SbrkShrinks(p, n))
      \/ GrowPage(p) \/ SbrkDone(p)
      \/ \E segment \in Segment, args \in Args : Exec(p, segment, args)
      \/ \E ok \in BOOLEAN : Load(p, ok)
      \/ ExecDone(p) \/ Exit(p)

Spec == Init /\ [][Next]_vars

-----------------------------------------------------------------------------
\* The pages of a space.
Pages(s) == One(s.dir) + One(s.kernel) + Cardinality(s.table) + Cardinality(s.page)

(***************************************************************************)
(* Every page of memory has exactly one use: free, kernel stack, part of   *)
(* one address space, or about to be mapped.  No call that fails for lack  *)
(* of memory, in whatever order others allocate, frees a page twice or     *)
(* keeps one, except where mappages() fails in setupkvm(), copyuvm() and   *)
(* allocuvm(), which lose the page they had just allocated.                *)
(***************************************************************************)
OneUse ==
    NPAGES = free + lost
        + MapThenSumSet(LAMBDA p : One(kstack[p]) + Pages(pgdir[p]) + Pages(call[p].space)
                                     + One(call[p].step = "map"), Process)

(***************************************************************************)
(* A process between calls has mapped exactly the pages below its size,    *)
(* and copyuvm(), loaduvm(), clearpteu() and copyout() find the entries    *)
(* that they need, unless allocuvm() has ignored a failure of mappages()   *)
(* or the process has shrunk to nothing.  The page below the stack stays   *)
(* closed to user code, in the image that exec() makes and in every copy   *)
(* that fork() makes of it.                                                *)
(***************************************************************************)
MappedBelowSize ==
    /\ \A p \in Process :
         state[p] \in {"RUN", "ZOMBIE"} /\ call[p] = Idle /\ ~pgdir[p].damaged =>
             pgdir[p].page = {v \in Vpn : v * PGSIZE < sz[p]}
    /\ \A p \in Process : pgdir[p].guard \cap pgdir[p].user = {}
    /\ panic => \E p \in Process : pgdir[p].damaged \/ call[p].space.damaged

(***************************************************************************)
(* exec() is all or nothing: the old image is as it was until the new one  *)
(* is complete, and when exec() fails.                                     *)
(***************************************************************************)
ExecKeepsImage ==
    [][\A p \in Process :
         call[p].op \in {"segment", "stack"} =>
             \/ UNCHANGED <<pgdir[p], sz[p]>>
             \/ call'[p] = Idle /\ Cardinality(pgdir'[p].page) * PGSIZE = sz'[p] /\ ~pgdir'[p].damaged
             \/ call[p].space.damaged]_vars
=============================================================================
