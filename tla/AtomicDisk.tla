------------------------------ MODULE AtomicDisk ------------------------------
(***************************************************************************)
(* What the logging layer of kernel/log.c promises the file system: a disk *)
(* whose contents change by whole groups of system calls.                  *)
(*                                                                         *)
(*   stable   what the file system will find after a crash;                *)
(*   current  what the running system calls read and write;                *)
(*   open     the system calls between begin_op() and end_op().            *)
(*                                                                         *)
(* Writes go to current.  stable moves only by taking all of current, and  *)
(* only while no system call is half done.  A crash throws current away.   *)
(***************************************************************************)
CONSTANTS Procs, Blocks, Data

VARIABLES stable, current, open

avars == <<stable, current, open>>

Init ==
    /\ stable \in [Blocks -> Data]
    /\ current = stable
    /\ open = {}

Begin(p) ==
    /\ p \notin open
    /\ open' = open \cup {p}
    /\ UNCHANGED <<stable, current>>

Write(p, b, d) ==
    /\ p \in open
    /\ current' = [current EXCEPT ![b] = d]
    /\ UNCHANGED <<stable, open>>

End(p) ==
    /\ p \in open
    /\ open' = open \ {p}
    /\ UNCHANGED <<stable, current>>

Commit ==
    /\ open = {}
    /\ stable' = current
    /\ UNCHANGED <<current, open>>

Crash ==
    /\ current' = stable
    /\ open' = {}
    /\ UNCHANGED stable

Next ==
    \/ \E p \in Procs : Begin(p) \/ End(p)
    \/ \E p \in Procs, b \in Blocks, d \in Data : Write(p, b, d)
    \/ Commit
    \/ Crash

Spec == Init /\ [][Next]_avars

===============================================================================
