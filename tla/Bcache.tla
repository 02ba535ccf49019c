------------------------------- MODULE Bcache -------------------------------
(***************************************************************************)
(* The buffer cache, kernel/bio.c, and the sleep-locks of its buffers,     *)
(* kernel/sleeplock.c.                                                     *)
(*                                                                         *)
(* What runs under one acquire of bcache.lock, or of a sleep-lock's own    *)
(* spin-lock, is one step.  A disk transfer is one step of its own, at its *)
(* end: the buffer is locked for as long as it lasts.  A client reads a    *)
(* block, may change it, and then either writes it to the disk or pins it  *)
(* (log_write); a pinned block is later written and unpinned (the log's    *)
(* install_trans).  A client may hold two buffers: bmap and itrunc keep    *)
(* the indirect block over balloc and bfree, write_log and install_trans   *)
(* copy between a log block and its home block.                            *)
(***************************************************************************)
EXTENDS Integers, Sequences, FiniteSets

CONSTANTS Procs, Blocks, Vals, None,
          Nests,    \* pairs of blocks: with the first in hand a client asks for the second
          NBUF

Bufs == 1..NBUF
\* The variables of type struct buf * that a process can have in use: two.
Ptrs == Procs \X {1, 2}
Other(c) == <<c[1], 3 - c[2]>>

\* What the constants have to satisfy; no client asks twice for one block.
CacheSizes == /\ NBUF \in Nat \ {0} /\ IsFiniteSet(Procs) /\ None \notin Ptrs \cup Blocks \cup Bufs
              /\ \A k \in Blocks : <<k, k>> \notin Nests

VARIABLES buf,      \* struct buf: blockno, valid, refcnt, data
          lru,      \* the list from bcache.head.next on
          lock,     \* b->lock: the pointer of the process holding it, or None
          disk,
          pc, b,    \* pointer -> where its process is in a call, and its buffer
          dirty,    \* the buffers changed since they were last written
          pinned    \* the buffers the log has pinned

vars == <<buf, lru, lock, disk, pc, b, dirty, pinned>>

\* binit: each buffer goes to the front of the list; none holds a block yet.
Init ==
    /\ disk \in [Blocks -> Vals]
    /\ buf = [i \in Bufs |-> [blockno |-> None, valid |-> FALSE, refcnt |-> 0,
                              data |-> None]]
    /\ lru = [i \in Bufs |-> NBUF + 1 - i]
    /\ lock = [i \in Bufs |-> None]
    /\ pc = [c \in Ptrs |-> "idle"] /\ b = [c \in Ptrs |-> None]
    /\ dirty = {} /\ pinned = {}

Goto(c, l) == pc' = [pc EXCEPT ![c] = l]

Cached(k) == {i \in Bufs : buf[i].blockno = k}
Unused == {i \in Bufs : buf[i].refcnt = 0}
\* The unused buffer furthest from the head of the list.
Victims == {lru[j] : j \in {j \in Bufs : \A m \in j + 1..NBUF : lru[m] \notin Unused}} \cap Unused

\* Mutant: a recycled buffer keeps the valid flag of the block it held.
KeepValid(i, k) == [buf[i] EXCEPT !.blockno = k, !.refcnt = 1]
Recycled(i, k) == [buf[i] EXCEPT !.blockno = k, !.valid = FALSE, !.refcnt = 1]

\* bget, up to release(&bcache.lock).  The first buffer of a client is its
\* pointer 1; the second is asked for with the first in hand.
Bget(c, k) ==
    /\ pc[c] = "idle"
    /\ IF pc[Other(c)] = "idle" THEN c[2] = 1 ELSE <<buf[b[Other(c)]].blockno, k>> \in Nests
    /\ IF Cached(k) # {}
       THEN \E i \in Cached(k) : /\ buf' = [buf EXCEPT ![i].refcnt = @ + 1]
                                 /\ b' = [b EXCEPT ![c] = i]
                                 /\ Goto(c, "acquire")
       ELSE IF Unused # {}
            THEN \E i \in Victims : /\ buf' = [buf EXCEPT ![i] = Recycled(i, k)]
                                    /\ b' = [b EXCEPT ![c] = i]
                                    /\ Goto(c, "acquire")
            ELSE Goto(c, "panic") /\ UNCHANGED <<buf, b>>
    /\ UNCHANGED <<lru, lock, disk, dirty, pinned>>

\* acquiresleep: one turn of its loop.
Acquiresleep(c) ==
    /\ pc[c] = "acquire"
    /\ IF lock[b[c]] = None
       THEN lock' = [lock EXCEPT ![b[c]] = c] /\ Goto(c, "bread")
       ELSE Goto(c, "asleep") /\ UNCHANGED lock
    /\ UNCHANGED <<buf, lru, disk, b, dirty, pinned>>

\* bread, once bget has returned.
Bread(c) ==
    /\ pc[c] = "bread"
    /\ buf' = [buf EXCEPT ![b[c]].valid = TRUE,
                          ![b[c]].data = IF buf[b[c]].valid THEN @ ELSE disk[buf[b[c]].blockno]]
    /\ Goto(c, "own")
    /\ UNCHANGED <<lru, lock, disk, b, dirty, pinned>>

\* The client changes b->data.
Change(c, v) ==
    /\ pc[c] = "own" /\ v # buf[b[c]].data
    /\ buf' = [buf EXCEPT ![b[c]].data = v]
    /\ dirty' = dirty \cup {b[c]}
    /\ UNCHANGED <<lru, lock, disk, pc, b, pinned>>

\* bwrite.
Bwrite(c) ==
    /\ pc[c] = "own" /\ b[c] \in dirty
    /\ disk' = [disk EXCEPT ![buf[b[c]].blockno] = buf[b[c]].data]
    /\ dirty' = dirty \ {b[c]}
    /\ UNCHANGED <<buf, lru, lock, pc, b, pinned>>

\* bunpin, once the log has written the block to its place on the disk.
Bunpin(c) ==
    /\ pc[c] = "own" /\ b[c] \in pinned /\ b[c] \notin dirty
    /\ buf' = [buf EXCEPT ![b[c]].refcnt = @ - 1]
    /\ pinned' = pinned \ {b[c]}
    /\ UNCHANGED <<lru, lock, disk, pc, b, dirty>>

\* bpin, from log_write.
Bpin(c) ==
    /\ pc[c] = "own" /\ b[c] \in dirty \ pinned
    /\ buf' = [buf EXCEPT ![b[c]].refcnt = @ + 1]
    /\ pinned' = pinned \cup {b[c]}
    /\ UNCHANGED <<lru, lock, disk, pc, b, dirty>>

\* Mutant: releasesleep wakes nobody.
NoWakeup(c) == Goto(c, "brelse")
\* wakeup(lk): every process asleep on this lock tries again.
Wakeup(c) == pc' = [d \in Ptrs |-> IF d = c THEN "brelse"
                                   ELSE IF pc[d] = "asleep" /\ b[d] = b[c] THEN "acquire"
                                   ELSE pc[d]]

\* brelse as far as releasesleep; the client does not leave a change behind
\* that is neither written nor pinned.
Releasesleep(c) ==
    /\ pc[c] = "own" /\ b[c] \notin dirty \ pinned
    /\ lock' = [lock EXCEPT ![b[c]] = None]
    /\ Wakeup(c)
    /\ UNCHANGED <<buf, lru, disk, b, dirty, pinned>>

MoveToFront(i) == <<i>> \o SelectSeq(lru, LAMBDA j : j # i)

\* Mutant: the count is dropped only when someone else uses the buffer.
KeepLastRef(i) == IF buf[i].refcnt > 1 THEN buf[i].refcnt - 1 ELSE 1
DropRef(i) == buf[i].refcnt - 1

\* The rest of brelse, under bcache.lock.
Brelse(c) ==
    /\ pc[c] = "brelse"
    /\ buf' = [buf EXCEPT ![b[c]].refcnt = DropRef(b[c])]
    /\ lru' = IF DropRef(b[c]) = 0 THEN MoveToFront(b[c]) ELSE lru
    /\ b' = [b EXCEPT ![c] = None]
    /\ Goto(c, "idle")
    /\ UNCHANGED <<lock, disk, dirty, pinned>>

\* A process is in one call at a time: its other buffer is none, or in its hands.
Turn(c) == pc[Other(c)] \in {"idle", "own"}

Step(c) == /\ Turn(c)
           /\ \/ Acquiresleep(c) \/ Bread(c) \/ Bwrite(c) \/ Bunpin(c) \/ Bpin(c)
              \/ Releasesleep(c) \/ Brelse(c)
              \/ \E k \in Blocks : Bget(c, k)
              \/ \E v \in Vals : Change(c, v)
Next == \E c \in Ptrs : Step(c)

Spec == Init /\ [][Next]_vars

-----------------------------------------------------------------------------

\* A process sleeps for a buffer's lock only while another process holds it:
\* acquiresleep and releasesleep lose no wakeup, and nobody waits for the
\* buffer that it holds itself.
NoLostWakeup == \A c \in Ptrs : pc[c] = "asleep" => lock[b[c]] # None /\ lock[b[c]][1] # c[1]

AllHeld == \A i \in Bufs : i \in pinned \/ \E d \in Ptrs : b[d] = i

\* bget panics ("bget: no buffers") only when every single buffer is pinned by
\* the log or in use by a call that has still to release it: brelse and bunpin
\* give back all that bget and bpin took.
BuffersSuffice == [][\A c \in Ptrs : pc[c] # "panic" /\ pc'[c] = "panic" => AllHeld]_vars

\* The buffer that holds the current content of a block.
Copy(k) == {i \in Cached(k) : buf[i].valid}
Holders(k) == {c \in Ptrs : pc[c] = "own" /\ buf[b[c]].blockno = k}
Content == [k \in Blocks |-> IF Copy(k) = {} THEN disk[k] ELSE buf[CHOOSE i \in Copy(k) : TRUE].data]
Owner == [k \in Blocks |-> IF Holders(k) = {} THEN None ELSE CHOOSE p \in Holders(k) : TRUE]

Store == INSTANCE BlockStore WITH Procs <- Ptrs, content <- Content, owner <- Owner

\* The cache implements a store with one copy of each block, given to one
\* process at a time: recycling a buffer loses no change, and a block is
\* never in two buffers.
CacheIsStore == Store!Spec
=============================================================================
