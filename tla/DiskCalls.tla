----------------------------- MODULE DiskCalls ------------------------------
(* What virtio_disk_rw promises (kernel/virtio_disk.c): a call carries out *)
(* its transfer exactly once, while it is under way, and then returns.     *)
CONSTANTS Procs, Vals

VARIABLES disk, data,   \* block -> its content, buffer -> its content
          call          \* process -> what its call is and whether it is done

dvars == <<disk, data, call>>

Init == disk \in [Procs -> Vals] /\ data \in [Procs -> Vals] /\ call = [p \in Procs |-> "none"]

Start(p) == /\ call[p] = "none"
            /\ \/ call' = [call EXCEPT ![p] = "read"] /\ UNCHANGED data
               \/ /\ call' = [call EXCEPT ![p] = "write"]
                  /\ \E v \in Vals : data' = [data EXCEPT ![p] = v]
            /\ UNCHANGED disk
Serve(p) == /\ \/ call[p] = "read" /\ data' = [data EXCEPT ![p] = disk[p]] /\ UNCHANGED disk
               \/ call[p] = "write" /\ disk' = [disk EXCEPT ![p] = data[p]] /\ UNCHANGED data
            /\ call' = [call EXCEPT ![p] = "served"]
Return(p) == call[p] = "served" /\ call' = [call EXCEPT ![p] = "none"] /\ UNCHANGED <<disk, data>>

Next == \E p \in Procs : Start(p) \/ Serve(p) \/ Return(p)
Spec == Init /\ [][Next]_dvars
=============================================================================
