--------------------------------- MODULE Pipe --------------------------------
(***************************************************************************)
(* A pipe (pipe.c): a ring of PIPESIZE bytes with two counters that only   *)
(* grow.  A critical section of p->lock is one step; a process that cannot *)
(* go on keeps the lock from its test of killed until it sleeps.           *)
(***************************************************************************)
EXTENDS Integers, Sequences, FiniteSetsExt

CONSTANTS
    PIPESIZE,
    WRAP            \* nread and nwrite are uints: they wrap around at WRAP

ASSUME PipeAssumption == PIPESIZE \in Nat \ {0} /\ WRAP % PIPESIZE = 0 /\ WRAP > PIPESIZE

VARIABLES data, nread, nwrite, readopen, writeopen

pipeVars == <<data, nread, nwrite, readopen, writeopen>>

pipealloc(start) ==
    /\ data = [i \in 0 .. PIPESIZE - 1 |-> "eof"]
    /\ nread = start /\ nwrite = start
    /\ readopen = TRUE /\ writeopen = TRUE

Fill == (nwrite - nread) % WRAP
Contents == [m \in 1 .. Fill |-> data[((nread + m - 1) % WRAP) % PIPESIZE]]

Stored_OneMore(addr, i) == Min({PIPESIZE - Fill + 1, Len(addr) - i})

\* The bytes of addr that one pass of pipewrite() stores, from the i-th on.
Stored(addr, i) == Min({PIPESIZE - Fill, Len(addr) - i})

pipewrite(addr, i) ==
    /\ data' = [x \in DOMAIN data |->
                  LET m == (x - nwrite) % PIPESIZE
                  IN  IF m < Stored(addr, i) THEN addr[i + m + 1] ELSE data[x]]
    /\ nwrite' = (nwrite + Stored(addr, i)) % WRAP
    /\ UNCHANGED <<nread, readopen, writeopen>>

WriteEnds(addr, i) == i + Stored(addr, i) = Len(addr)

\* piperead() waits for bytes as long as there may be some.
ReadWaits == nread = nwrite /\ writeopen

Taken(n) == Min({n, Fill})

piperead(n) ==
    /\ nread' = (nread + Taken(n)) % WRAP
    /\ UNCHANGED <<data, nwrite, readopen, writeopen>>

pipeclose(writable) ==
    /\ writeopen' = (writeopen /\ ~writable)
    /\ readopen' = (readopen /\ writable)
    /\ UNCHANGED <<data, nread, nwrite>>
=============================================================================
