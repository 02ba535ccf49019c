-------------------------------- MODULE Fifo --------------------------------
(***************************************************************************)
(* What a pipe promises: a bounded first-in-first-out queue of bytes with  *)
(* two ends, each of which is closed once.  Bytes enter only while the     *)
(* read end is open.                                                       *)
(***************************************************************************)
EXTENDS Naturals, Sequences

CONSTANTS Bytes, Capacity
VARIABLES queue, readable, writable     \* readable, writable: the end is open

qvars == <<queue, readable, writable>>

Init == queue = <<>> /\ readable = TRUE /\ writable = TRUE

Put == /\ readable /\ writable
       /\ Len(queue) < Capacity
       /\ \E b \in Bytes : queue' = Append(queue, b)
       /\ UNCHANGED <<readable, writable>>

Get == /\ readable
       /\ queue # <<>>
       /\ queue' = Tail(queue)
       /\ UNCHANGED <<readable, writable>>

CloseRead == readable /\ readable' = FALSE /\ UNCHANGED <<queue, writable>>
CloseWrite == writable /\ writable' = FALSE /\ UNCHANGED <<queue, readable>>

Next == Put \/ Get \/ CloseRead \/ CloseWrite

Spec == Init /\ [][Next]_qvars
=============================================================================
