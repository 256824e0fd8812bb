----------------------------- MODULE BlockStore -----------------------------
(***************************************************************************)
(* What the buffer cache promises to the rest of the file system: every    *)
(* block has one value and at most one user at a time, who alone may       *)
(* change it.  After an error of the drive the block it was about is       *)
(* suspect, and its value may change by itself; no other block's may.      *)
(***************************************************************************)
CONSTANTS Process, Block, Nobody, InitialValue

VARIABLES value, user, suspect

storeVars == <<value, user, suspect>>

Init ==
    /\ value = InitialValue
    /\ user = [k \in Block |-> Nobody]
    /\ suspect = {}

Get(p, k) ==
    /\ user[k] = Nobody
    /\ user' = [user EXCEPT ![k] = p]
    /\ value' = [value EXCEPT ![k] = value'[k]]
    /\ value'[k] # value[k] => k \in suspect'
    /\ suspect' \in {suspect, suspect \cup {k}}

Change(p, k) ==
    /\ user[k] = p
    /\ value' = [value EXCEPT ![k] = value'[k]]
    /\ UNCHANGED <<user, suspect>>

Put(p, k) ==
    /\ user[k] = p
    /\ user' = [user EXCEPT ![k] = Nobody]
    /\ UNCHANGED <<value, suspect>>

Error(k) ==
    /\ suspect' = suspect \cup {k}
    /\ value' = [value EXCEPT ![k] = value'[k]]
    /\ UNCHANGED user

Next ==
    \E k \in Block : Error(k) \/ \E p \in Process : Get(p, k) \/ Change(p, k) \/ Put(p, k)

Spec == Init /\ [][Next]_storeVars
=============================================================================
