------------------------------- MODULE LogInv -------------------------------
(***************************************************************************)
(* The inductive invariant behind the properties of Log.                   *)
(***************************************************************************)
EXTENDS Log

Ops == {p \in Process : pc[p] = "op"}

Root(b) == <<ROOTDEV, b>>
header == disk[Root(LogStart)]

\* The reservation counts the calls, there is none during a commit, and a
\* commit by the last one leaves nothing behind.
CountInv ==
    /\ IsFiniteSet(Ops)
    /\ outstanding = Cardinality(Ops)
    /\ stage # "idle" => outstanding = 0
    /\ stage = "idle" /\ outstanding = 0 => lh = <<>>

\* log.dev and log.start are set before they are used.
AddrInv == stage # "boot" => dev = ROOTDEV /\ start = LogStart

\* No block is twice in a header, and a header on the disk has its blocks in
\* the log.
HeaderInv ==
    /\ lh \in Seq(Block)
    /\ \A i, j \in DOMAIN lh : lh[i] = lh[j] => i = j
    /\ header \in Seq(Block)
    /\ \A i, j \in DOMAIN header : header[i] = header[j] => i = j
    /\ LogStart + Len(header) < FSSIZE
    /\ tail \in Nat /\ tail <= Len(lh)

\* Buffers that may be recycled hold what the disk holds; the others belong
\* to logged blocks that are not installed yet.
BufferInv ==
    /\ IsFiniteSet(dirty)
    /\ Cardinality(dirty) <= NBUF
    /\ \A a \in Addr : a \notin dirty => cache[a] = disk[a]
    /\ \A a \in dirty : \E i \in DOMAIN lh :
          /\ a = Root(lh[i])
          /\ stage \in {"idle", "log"} \/ (stage = "install" /\ i > tail)
    /\ stage \in {"idle", "log"} => \A i \in DOMAIN lh : Root(lh[i]) \in dirty

\* How far the commit or the recovery has come.
StageInv ==
    /\ stage \in {"idle", "log", "done"} => header = <<>>
    /\ stage \in {"boot", "done"} => lh = <<>>
    /\ stage \in {"recover", "install"} => header = lh
    /\ stage = "log" =>
          /\ LogStart + tail < FSSIZE
          /\ \A i \in 1 .. tail : disk[Root(LogStart + i)] = cache[Root(lh[i])]
    /\ stage = "install" =>
          \A i \in DOMAIN lh : disk[Root(LogStart + i)] = cache[Root(lh[i])]
    /\ stage = "recover" =>
          \A i \in 1 .. tail : disk[Root(LogStart + i)] = disk[Root(lh[i])]

Inv ==
    /\ TypeOK
    /\ CountInv
    /\ AddrInv
    /\ HeaderInv
    /\ BufferInv
    /\ StageInv
    /\ SleeperHasWaker
=============================================================================
