----------------------------- MODULE VirtioDisk -----------------------------
(***************************************************************************)
(* The disk driver, kernel/virtio_disk.c, with the way its interrupt takes *)
(* through devintr (kernel/trap.c) and the PLIC (kernel/plic.c), and the   *)
(* device as the driver uses it (external).                                *)
(*                                                                         *)
(* Every process transfers a block of its own through a buffer of its own: *)
(* the buffer's sleep-lock keeps others away.  Code of a process between   *)
(* taking vdisk_lock and sleeping or returning is one step; the interrupt  *)
(* handler shares its time with the device and holds the lock from step to *)
(* step.  The ring indices are unsigned 16-bit numbers: they wrap at WIDTH, *)
(* a multiple of NUM.  On a panic everything stops.                        *)
(***************************************************************************)
EXTENDS Integers, FiniteSets, Sequences

CONSTANTS Procs, Vals, None,
          NUM, WIDTH,
          START,    \* the calls made one after another before the first state
          MaxCalls  \* bounds the calls after it

\* What the constants have to satisfy.
RingSizes == /\ NUM \in Nat /\ NUM >= 3 /\ WIDTH \in Nat /\ WIDTH > NUM /\ WIDTH % NUM = 0
             /\ START \in 0..WIDTH - 1 /\ MaxCalls \in Nat /\ None \notin Procs

Slots == 0..NUM - 1

VARIABLES free,                \* the free descriptors
          next,                \* descriptor -> the next one of its chain, or None
          ops, info,           \* head -> the command, head -> buffer and status
          avail, availIdx,     \* the ring of commands and its index
          used, usedIdx,       \* the ring of completions and its index
          used_idx,            \* how far the driver has looked in used
          devIdx, held,        \* the device: how far it looked in avail, heads it works on
          isr,                 \* the interrupt the device asks for
          intr,                \* where the handler is; it holds vdisk_lock in "loop" and "leave"
          disk, data, bdisk,   \* blocks; b->data, b->disk
          pc, idx, panic,
          calls                \* calls so far, for the bound

driver == <<free, next, ops, avail, availIdx, idx>>
device == <<used, usedIdx, devIdx, held, disk, data>>
vars == <<driver, device, info, used_idx, isr, intr, bdisk, pc, panic, calls>>

\* virtio_disk_init: the rings are zeroed and all descriptors are free.  START
\* calls one after another all use descriptor 0 and leave the rings as they were.
Init ==
    /\ free = Slots /\ next = [d \in Slots |-> None]
    /\ ops = [d \in Slots |-> [write |-> FALSE, block |-> None]]
    /\ info = [d \in Slots |-> [b |-> None, status |-> 0]]
    /\ avail = [s \in Slots |-> 0] /\ availIdx = START
    /\ used = [s \in Slots |-> 0] /\ usedIdx = START /\ used_idx = START
    /\ devIdx = START /\ held = {} /\ isr = FALSE /\ intr = "none"
    /\ \E v, w \in Vals : disk = [p \in Procs |-> v] /\ data = [p \in Procs |-> w]
    /\ bdisk = [p \in Procs |-> FALSE]
    /\ pc = [p \in Procs |-> "idle"] /\ idx = [p \in Procs |-> <<>>]
    /\ panic = FALSE /\ calls = 0

Locked == intr \in {"loop", "leave"}

\* alloc_desc, three times: the lowest free descriptors.
Lowest(n) == {d \in free : Cardinality({e \in free : e < d}) < n}
\* The free_desc calls of a failed alloc3_desc undo its allocations.
GiveBack == free' = free

\* wakeup(&disk.free[0]), by p, which goes on at l.
WakeFree(p, l) ==
    pc' = [q \in Procs |-> IF q = p THEN l ELSE IF pc[q] = "sleep_free" THEN "alloc" ELSE pc[q]]

\* The caller of virtio_disk_rw, with the content of the buffer to be written.
Start(p) ==
    /\ pc[p] = "idle" /\ calls < MaxCalls
    /\ calls' = calls + 1
    /\ \/ pc' = [pc EXCEPT ![p] = "alloc"] /\ idx' = [idx EXCEPT ![p] = <<"read">>] /\ UNCHANGED data
       \/ /\ pc' = [pc EXCEPT ![p] = "alloc"] /\ idx' = [idx EXCEPT ![p] = <<"write">>]
          /\ \E v \in Vals : data' = [data EXCEPT ![p] = v]
    /\ UNCHANGED <<free, next, ops, avail, availIdx, used, usedIdx, devIdx, held, disk,
                   info, used_idx, isr, intr, bdisk, panic>>

\* kill makes a sleeping process runnable, whatever it sleeps for.
Kill(p) ==
    /\ pc[p] \in {"sleep_b", "sleep_free"}
    /\ pc' = [pc EXCEPT ![p] = IF @ = "sleep_b" THEN "awake" ELSE "alloc"]
    /\ UNCHANGED <<driver, device, info, used_idx, isr, intr, bdisk, panic, calls>>

\* Mutant: b->disk is not set.
ForgetDisk(p) == UNCHANGED bdisk
SetDisk(p) == bdisk' = [bdisk EXCEPT ![p] = TRUE]

UsedSlot == used_idx % NUM

Bump(i) == (i + 1) % WIDTH

\* virtio_disk_rw: from alloc3_desc to the sleep on b, or the sleep for
\* descriptors; b->disk cannot be cleared before the lock is released.
Submit(p) ==
    /\ pc[p] = "alloc" /\ ~Locked
    /\ IF Cardinality(free) < 3
       THEN /\ GiveBack
            /\ IF free = {} THEN pc' = [pc EXCEPT ![p] = "sleep_free"] ELSE WakeFree(p, "sleep_free")
            /\ UNCHANGED <<next, ops, avail, availIdx, idx, info, bdisk>>
       ELSE \E d0, d1, d2 \in Lowest(3) :
            /\ d0 < d1 /\ d1 < d2
            /\ free' = free \ {d0, d1, d2}
            /\ ops' = [ops EXCEPT ![d0] = [write |-> idx[p] = <<"write">>, block |-> p]]
            /\ next' = [next EXCEPT ![d0] = d1, ![d1] = d2, ![d2] = None]
            /\ info' = [info EXCEPT ![d0] = [b |-> p, status |-> 255]]
            /\ SetDisk(p)
            /\ avail' = [avail EXCEPT ![availIdx % NUM] = d0]
            /\ availIdx' = Bump(availIdx)
            /\ idx' = [idx EXCEPT ![p] = <<d0>>]
            /\ pc' = [pc EXCEPT ![p] = "sleep_b"]
    /\ UNCHANGED <<device, used_idx, isr, intr, panic, calls>>

Chain(d) == {d, next[d], next[next[d]]}

FreeChain(d) == free \cup Chain(d)

\* virtio_disk_rw after the sleep on b: it sleeps again, or frees the chain
\* and returns.
Finish(p) ==
    /\ pc[p] = "awake" /\ ~Locked
    /\ IF bdisk[p]
       THEN pc' = [pc EXCEPT ![p] = "sleep_b"] /\ UNCHANGED <<driver, info, panic>>
       ELSE LET d == idx[p][1] IN
            /\ panic' = (Chain(d) \cap free # {})
            /\ info' = [info EXCEPT ![d].b = None]
            /\ free' = FreeChain(d)
            /\ next' = [e \in Slots |-> IF e \in Chain(d) THEN None ELSE next[e]]
            /\ idx' = [idx EXCEPT ![p] = <<>>]
            /\ WakeFree(p, "idle")
            /\ UNCHANGED <<ops, avail, availIdx>>
    /\ UNCHANGED <<device, used_idx, isr, intr, bdisk, calls>>

\* The device takes a command off the avail ring.
Fetch ==
    /\ devIdx # availIdx
    /\ held' = held \cup {avail[devIdx % NUM]}
    /\ devIdx' = Bump(devIdx)
    /\ UNCHANGED <<driver, used, usedIdx, disk, data, info, used_idx, isr, intr, bdisk, pc, panic, calls>>

\* The device carries out any command it holds and raises its interrupt.
Complete(d) ==
    /\ d \in held
    /\ held' = held \ {d}
    /\ IF ops[d].write
       THEN disk' = [disk EXCEPT ![ops[d].block] = data[ops[d].block]] /\ UNCHANGED data
       ELSE data' = [data EXCEPT ![ops[d].block] = disk[ops[d].block]] /\ UNCHANGED disk
    /\ info' = [info EXCEPT ![d].status = 0]
    /\ used' = [used EXCEPT ![usedIdx % NUM] = d]
    /\ usedIdx' = Bump(usedIdx)
    /\ isr' = TRUE
    /\ UNCHANGED <<driver, devIdx, used_idx, intr, bdisk, pc, panic, calls>>

\* devintr: plic_claim gives the interrupt to one hart, and to no other before
\* plic_complete.
Claim ==
    /\ isr /\ intr = "none"
    /\ intr' = "claimed"
    /\ UNCHANGED <<driver, device, info, used_idx, isr, bdisk, pc, panic, calls>>

\* virtio_disk_intr: it takes the lock and acknowledges the interrupt.
IntrStart ==
    /\ intr = "claimed"
    /\ intr' = "loop"
    /\ isr' = FALSE
    /\ UNCHANGED <<driver, device, info, used_idx, bdisk, pc, panic, calls>>

\* Mutant: a completion is noted without a wakeup.
NoWakeup(b) == UNCHANGED pc
Wakeup(b) == pc' = [pc EXCEPT ![b] = IF @ = "sleep_b" THEN "awake" ELSE @]

\* The loop: one completion, or the end of the ring.
IntrLoop ==
    /\ intr = "loop"
    /\ IF used_idx = usedIdx
       THEN intr' = "leave" /\ UNCHANGED <<bdisk, pc, used_idx, panic>>
       ELSE LET d == used[UsedSlot] IN
            IF info[d].status # 0 \/ info[d].b = None
            THEN panic' = TRUE /\ UNCHANGED <<bdisk, pc, used_idx, intr>>
            ELSE /\ bdisk' = [bdisk EXCEPT ![info[d].b] = FALSE]
                 /\ Wakeup(info[d].b)
                 /\ used_idx' = Bump(used_idx)
                 /\ UNCHANGED <<panic, intr>>
    /\ UNCHANGED <<driver, device, info, isr, calls>>

\* The end of the handler: the lock is released, and plic_complete.
IntrEnd ==
    /\ intr = "leave"
    /\ intr' = "none"
    /\ UNCHANGED <<driver, device, info, used_idx, isr, bdisk, pc, panic, calls>>

Intr == Claim \/ IntrStart \/ IntrLoop \/ IntrEnd
Next == /\ ~panic
        /\ \/ \E p \in Procs : Start(p) \/ Kill(p) \/ Submit(p) \/ Finish(p)
           \/ Fetch \/ \E d \in Slots : Complete(d)
           \/ Intr

Spec == Init /\ [][Next]_vars

-----------------------------------------------------------------------------

Busy(p) == pc[p] \in {"sleep_b", "awake"}

\* The panics of the driver ("free_desc 2", "virtio_disk_intr status") and
\* its use of a null info[id].b are not reached.
NoPanic == ~panic

Called == [p \in Procs |-> IF pc[p] = "idle" THEN "none"
                           ELSE IF Busy(p) /\ info[idx[p][1]].status = 0 THEN "served"
                           ELSE IF Busy(p) THEN (IF ops[idx[p][1]].write THEN "write" ELSE "read")
                           ELSE idx[p][1]]
Calls == INSTANCE DiskCalls WITH call <- Called

\* A call of virtio_disk_rw returns only after the device carried out its
\* transfer, which happens exactly once, whatever the order of completions; and
\* the driver does not panic.
DiskServesCalls == Calls!Spec /\ []NoPanic
=============================================================================
