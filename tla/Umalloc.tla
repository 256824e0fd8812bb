------------------------------ MODULE Umalloc --------------------------------
(***************************************************************************)
(* The allocator of user programs (umalloc.c).  Memory is measured in      *)
(* headers: a block at address a is a header followed by size[a] - 1 units *)
(* of data.  The free blocks form a circular list through ptr, in address  *)
(* order, with the empty block base at address 0.  sbrk() extends the heap *)
(* upwards from address 1.                                                 *)
(***************************************************************************)
EXTENDS Naturals, FiniteSets

CONSTANTS HEADER,   \* bytes of a header
          MORE,     \* units morecore() asks for at least
          MAXHEAP,  \* units, past which sbrk() fails
          Request   \* the sizes asked for, in bytes

ASSUME UmallocAssumption ==
    HEADER \in Nat \ {0} /\ MORE \in Nat \ {0} /\ MAXHEAP \in Nat /\ Request \subseteq Nat

VARIABLE heap

Base == 0
Address == 0 .. MAXHEAP
None == MAXHEAP + 1

\* freep is None before the first malloc(); used maps the blocks handed out
\* to the bytes asked for, and only the program knows it.
UmallocInit ==
    heap = [freep |-> None, ptr |-> [a \in Address |-> None], size |-> [a \in Address |-> 0],
            brk |-> 1, used |-> [a \in Address |-> None]]

\* Where free() stops: the free block just before bp, or the last one when bp
\* lies outside the list.  The search goes round from p.
RECURSIVE Before(_, _, _)
Before(h, bp, p) ==
    LET next == h.ptr[p]
    IN  IF (bp > p /\ bp < next) \/ (p >= next /\ (bp > p \/ bp < next)) THEN p ELSE Before(h, bp, next)

\* A header that is no longer one reads as never written: nothing reads it.
Absorbed(h, a) == [h EXCEPT !.ptr[a] = None, !.size[a] = 0]

\* bp joins the block after it, then the one before it.
JoinAbove_Skips(h, bp, next) ==
    IF bp + h.size[bp] = next THEN [h EXCEPT !.ptr[bp] = h.ptr[next]] ELSE [h EXCEPT !.ptr[bp] = next]

JoinAbove(h, bp, next) ==
    IF bp + h.size[bp] = next
      THEN Absorbed([h EXCEPT !.size[bp] = @ + h.size[next], !.ptr[bp] = h.ptr[next]], next)
      ELSE [h EXCEPT !.ptr[bp] = next]

JoinBelow(h, p, bp) ==
    IF p + h.size[p] = bp
      THEN Absorbed([h EXCEPT !.size[p] = @ + h.size[bp], !.ptr[p] = h.ptr[bp]], bp)
      ELSE [h EXCEPT !.ptr[p] = bp]

free(h, bp) ==
    LET p == Before(h, bp, h.freep)
    IN  [JoinBelow(JoinAbove(h, bp, h.ptr[p]), p, bp) EXCEPT !.freep = p]

\* morecore(): the heap, or freep None for sbrk()'s failure.
morecore(h, nunits) ==
    LET nu == IF nunits < MORE THEN MORE ELSE nunits
    IN  IF h.brk + nu > MAXHEAP + 1
          THEN [h EXCEPT !.freep = None]
          ELSE free([h EXCEPT !.size[h.brk] = nu, !.brk = @ + nu], h.brk)

\* p is taken whole or gives its upper end.
Carved(h, prevp, p, nunits) ==
    LET rest == h.size[p] - nunits
    IN  IF rest = 0
          THEN [h |-> [h EXCEPT !.ptr = [@ EXCEPT ![prevp] = h.ptr[p], ![p] = None], !.freep = prevp], at |-> p]
          ELSE [h |-> [h EXCEPT !.size = [@ EXCEPT ![p] = rest, ![p + rest] = nunits], !.freep = prevp],
                at |-> p + rest]

\* The loop of malloc(): when the search is back where it started the list
\* grows, and the search goes on after the block freep then names.
RECURSIVE Search(_, _, _, _)
Search(h, prevp, p, nunits) ==
    IF h.size[p] >= nunits THEN Carved(h, prevp, p, nunits)
    ELSE IF p # h.freep THEN Search(h, p, h.ptr[p], nunits)
    ELSE LET more == morecore(h, nunits)
         IN  IF more.freep = None THEN [h |-> h, at |-> None]
             ELSE Search(more, more.freep, more.ptr[more.freep], nunits)

Units(nbytes) == (nbytes + HEADER - 1) \div HEADER + 1

\* malloc(): a null pointer leaves used alone.
Malloc(nbytes) ==
    LET h == IF heap.freep = None THEN [heap EXCEPT !.freep = Base, !.ptr[Base] = Base] ELSE heap
        found == Search(h, h.freep, h.ptr[h.freep], Units(nbytes))
    IN  heap' = IF found.at = None THEN found.h ELSE [found.h EXCEPT !.used[found.at] = nbytes]

Free(a) ==
    /\ heap.used[a] # None
    /\ heap' = [free(heap, a) EXCEPT !.used[a] = None]

UmallocNext == (\E n \in Request : Malloc(n)) \/ (\E a \in Address : Free(a))

-----------------------------------------------------------------------------
Used == {a \in Address : heap.used[a] # None}

RECURSIVE Reach(_, _)
Reach(p, seen) == IF p \in seen \/ p = None THEN seen ELSE Reach(heap.ptr[p], seen \cup {p})
FreeBlocks == Reach(heap.freep, {})

Extent(a) == a .. a + heap.size[a] - 1

\* malloc() and free() lose nothing and share nothing: the blocks handed out
\* and the blocks on the free list are disjoint and fill the heap, and each
\* block handed out has room for the bytes asked for.  The free list stays a
\* circle in address order through base, so that the search of free() ends, and
\* no two free blocks touch: free() has joined them.
HeapPartition ==
    /\ UNION {Extent(a) : a \in Used \cup FreeBlocks} = 1 .. heap.brk - 1
    /\ \A a, b \in Used \cup FreeBlocks : a # b => Extent(a) \cap Extent(b) = {}
    /\ \A a \in Used : (heap.size[a] - 1) * HEADER >= heap.used[a]
    /\ heap.freep # None =>
         /\ Base \in FreeBlocks
         /\ \A a \in FreeBlocks : heap.ptr[a] > a \/ heap.ptr[a] = Base
         /\ \A a, b \in FreeBlocks \ {Base} : a + heap.size[a] # b

=============================================================================
