----------------------------- MODULE BlockStore -----------------------------
(* What the buffer cache promises its callers (kernel/bio.c, the interface *)
(* listed in its first comment): one copy of each block, which one process *)
(* at a time may read and change.                                          *)
CONSTANTS Procs, Blocks, Vals, None

VARIABLES content,   \* block -> what a reader of it sees
          owner      \* block -> the process it is given to, or None

svars == <<content, owner>>

Init == content \in [Blocks -> Vals] /\ owner = [k \in Blocks |-> None]

Take(k) == /\ owner[k] = None /\ owner'[k] \in Procs
           /\ owner' = [owner EXCEPT ![k] = owner'[k]] /\ UNCHANGED content
Change(k, v) == owner[k] # None /\ content' = [content EXCEPT ![k] = v] /\ UNCHANGED owner
Give(k) == owner[k] # None /\ owner' = [owner EXCEPT ![k] = None] /\ UNCHANGED content

Next == \E k \in Blocks : Take(k) \/ Give(k) \/ \E v \in Vals : Change(k, v)

Spec == Init /\ [][Next]_svars
=============================================================================
