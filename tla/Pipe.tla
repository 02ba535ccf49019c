-------------------------------- MODULE Pipe --------------------------------
(***************************************************************************)
(* Pipes: kernel/pipe.c, with the closing of file descriptors by           *)
(* kernel/file.c.                                                          *)
(*                                                                         *)
(* pi->lock is held from one step to the next, since a kill may come       *)
(* between a test of killed and the sleep that follows it.  The counters   *)
(* nread and nwrite are unsigned and wrap at WIDTH, a multiple of          *)
(* PIPESIZE (2^32 and 512 in the code).                                    *)
(***************************************************************************)
EXTENDS Integers, Sequences

CONSTANTS Readers, Writers,   \* processes with the read, the write end open
          Bytes,
          PIPESIZE, WIDTH,
          MaxCount,           \* bound: the largest n of read and write
          None

ASSUME PipeSizes == /\ PIPESIZE \in Nat \ {0}
                    /\ WIDTH \in Nat /\ WIDTH > PIPESIZE /\ WIDTH % PIPESIZE = 0
                    /\ MaxCount \in Nat
ASSUME PipeSets == Readers \cap Writers = {} /\ None \notin Readers \cup Writers

VARIABLES data, nread, nwrite, readopen, writeopen,   \* struct pipe
          freed,      \* kfree(pi) was called
          lock,       \* the process that holds pi->lock, or None
          open,       \* the processes whose descriptor is open
          pc, n, i,   \* process -> its place in the call, and the locals
          killed

pvars == <<data, nread, nwrite, readopen, writeopen, freed>>
vars == <<pvars, lock, open, pc, n, i, killed>>

Procs == Readers \cup Writers
Labels == {"idle",
           "write", "write_copy", "write_sleep", "write_wake", "write_end",
           "read", "read_wait", "read_sleep", "read_wake", "read_copy", "read_end"}

Empty == nread = nwrite
\* Mutant: the comparison that tells a full pipe is off by one.
FullOffByOne == nwrite = (nread + PIPESIZE + 1) % WIDTH
Full == nwrite = (nread + PIPESIZE) % WIDTH

\* pipealloc: both ends open, both counters zero, data not initialised.
Init ==
    /\ data \in [0..PIPESIZE - 1 -> Bytes]
    /\ nread = 0 /\ nwrite = 0
    /\ readopen = TRUE /\ writeopen = TRUE
    /\ freed = FALSE
    /\ lock = None
    /\ open = Procs
    /\ pc = [p \in Procs |-> "idle"]
    /\ n = [p \in Procs |-> 0]
    /\ i = [p \in Procs |-> 0]
    /\ killed = [p \in Procs |-> FALSE]

Goto(p, l) == pc' = [pc EXCEPT ![p] = l]
Holds(p, l) == lock = p /\ pc[p] = l

\* A call starts with acquire(&pi->lock); an n below zero acts as zero.  A
\* process killed since usertrap tested it still starts the call.
Start(p, l) ==
    /\ p \in open /\ pc[p] = "idle"
    /\ lock = None
    /\ lock' = p
    /\ \E k \in 0..MaxCount : n' = [n EXCEPT ![p] = k]
    /\ Goto(p, l)
    /\ UNCHANGED <<pvars, open, i, killed>>

\* A call ends with release(&pi->lock); its locals go out of scope.
Finish(p) ==
    /\ lock' = None
    /\ n' = [n EXCEPT ![p] = 0]
    /\ i' = [i EXCEPT ![p] = 0]

\* The place of each process after wakeup(chan) by p, which goes on at l.
\* A woken process has still to acquire the lock again.
Woken(p, l, asleep, awake) ==
    [q \in Procs |-> IF q = p THEN l ELSE IF pc[q] = asleep THEN awake ELSE pc[q]]
WakeReaders(p, l) == pc' = Woken(p, l, "read_sleep", "read_wake")
WakeWriters(p, l) == pc' = Woken(p, l, "write_sleep", "write_wake")

----------------------------------------------------------------------------
(* pipewrite.                                                               *)

PipeWrite(p) == Start(p, "write")

\* The top of the loop: a killed writer, or one without readers, gives up.
WriteTest(p) ==
    /\ Holds(p, "write")
    /\ IF i[p] < n[p] /\ (~readopen \/ killed[p])
       THEN Goto(p, "idle") /\ Finish(p)
       ELSE /\ Goto(p, IF i[p] < n[p] THEN "write_copy" ELSE "write_end")
            /\ UNCHANGED <<lock, n, i>>
    /\ UNCHANGED <<pvars, open, killed>>

\* The pipe is full: wakeup(&pi->nread), sleep(&pi->nwrite, &pi->lock).
WriteSleep(p) ==
    /\ Holds(p, "write_copy")
    /\ Full
    /\ WakeReaders(p, "write_sleep")
    /\ lock' = None
    /\ UNCHANGED <<pvars, open, n, i, killed>>

\* A byte goes in, unless copyin fails.
WriteByte(p) ==
    /\ Holds(p, "write_copy")
    /\ ~Full
    /\ \/ /\ \E b \in Bytes : data' = [data EXCEPT ![nwrite % PIPESIZE] = b]
          /\ nwrite' = (nwrite + 1) % WIDTH
          /\ i' = [i EXCEPT ![p] = @ + 1]
          /\ Goto(p, "write")
       \/ Goto(p, "write_end") /\ UNCHANGED <<data, nwrite, i>>
    /\ UNCHANGED <<nread, readopen, writeopen, freed, lock, open, n, killed>>

WriteEnd(p) ==
    /\ Holds(p, "write_end")
    /\ WakeReaders(p, "idle")
    /\ Finish(p)
    /\ UNCHANGED <<pvars, open, killed>>

----------------------------------------------------------------------------
(* piperead.                                                                *)

PipeRead(p) == Start(p, "read")

\* The loop that waits for data: a killed reader gives up.
ReadTest(p) ==
    /\ Holds(p, "read")
    /\ IF Empty /\ writeopen /\ killed[p]
       THEN Goto(p, "idle") /\ Finish(p)
       ELSE /\ Goto(p, IF Empty /\ writeopen THEN "read_wait" ELSE "read_copy")
            /\ UNCHANGED <<lock, n, i>>
    /\ UNCHANGED <<pvars, open, killed>>

ReadSleep(p) ==
    /\ Holds(p, "read_wait")
    /\ Goto(p, "read_sleep")
    /\ lock' = None
    /\ UNCHANGED <<pvars, open, n, i, killed>>

\* A byte comes out; if copyout fails it is lost.
ReadByte(p) ==
    /\ Holds(p, "read_copy")
    /\ IF i[p] < n[p] /\ ~Empty
       THEN /\ nread' = (nread + 1) % WIDTH
            /\ \/ i' = [i EXCEPT ![p] = @ + 1] /\ UNCHANGED pc
               \/ Goto(p, "read_end") /\ UNCHANGED i
       ELSE Goto(p, "read_end") /\ UNCHANGED <<nread, i>>
    /\ UNCHANGED <<data, nwrite, readopen, writeopen, freed, lock, open, n, killed>>

\* Mutant: piperead does not wake the writers.
ReadEndNoWakeup(p) ==
    /\ Holds(p, "read_end")
    /\ Goto(p, "idle")
    /\ Finish(p)
    /\ UNCHANGED <<pvars, open, killed>>

ReadEnd(p) ==
    /\ Holds(p, "read_end")
    /\ WakeWriters(p, "idle")
    /\ Finish(p)
    /\ UNCHANGED <<pvars, open, killed>>

----------------------------------------------------------------------------
(* Waking up, closing, killing.                                             *)

\* Mutant: `if' for `while': a woken reader does not look again.
ReacquireOnce(p) ==
    /\ lock = None
    /\ pc[p] \in {"write_wake", "read_wake"}
    /\ lock' = p
    /\ Goto(p, IF pc[p] = "write_wake" THEN "write" ELSE "read_copy")
    /\ UNCHANGED <<pvars, open, n, i, killed>>

\* The end of sleep: acquire(&pi->lock), back to the loop.
Reacquire(p) ==
    /\ lock = None
    /\ pc[p] \in {"write_wake", "read_wake"}
    /\ lock' = p
    /\ Goto(p, IF pc[p] = "write_wake" THEN "write" ELSE "read")
    /\ UNCHANGED <<pvars, open, n, i, killed>>

\* Mutant: pipeclose frees the pipe when the first end is closed.
PipeCloseFrees(p) ==
    /\ IF p \in Writers
       THEN writeopen' = FALSE /\ WakeReaders(p, "idle") /\ UNCHANGED readopen
       ELSE readopen' = FALSE /\ WakeWriters(p, "idle") /\ UNCHANGED writeopen
    /\ freed' = (~readopen' \/ ~writeopen')

\* fileclose: the last descriptor of an end calls pipeclose, which wakes the
\* other end and frees the pipe when both are closed.
PipeClose(p) ==
    /\ IF p \in Writers
       THEN writeopen' = FALSE /\ WakeReaders(p, "idle") /\ UNCHANGED readopen
       ELSE readopen' = FALSE /\ WakeWriters(p, "idle") /\ UNCHANGED writeopen
    /\ freed' = (~readopen' /\ ~writeopen')

Close(p) ==
    /\ p \in open /\ pc[p] = "idle"
    /\ open' = open \ {p}
    /\ IF open' \cap (IF p \in Writers THEN Writers ELSE Readers) = {}
       THEN lock = None /\ PipeClose(p)
       ELSE UNCHANGED <<readopen, writeopen, freed, pc>>
    /\ UNCHANGED <<data, nread, nwrite, lock, n, i, killed>>

\* kill: a sleeper wakes, whatever it waits for.
Kill(p) ==
    /\ p \in open /\ ~killed[p]
    /\ killed' = [killed EXCEPT ![p] = TRUE]
    /\ Goto(p, CASE pc[p] = "write_sleep" -> "write_wake"
                 [] pc[p] = "read_sleep" -> "read_wake"
                 [] OTHER -> pc[p])
    /\ UNCHANGED <<pvars, lock, open, n, i>>

----------------------------------------------------------------------------
CallStep(p) ==
    \/ WriteTest(p) \/ WriteSleep(p) \/ WriteByte(p) \/ WriteEnd(p)
    \/ ReadTest(p) \/ ReadSleep(p) \/ ReadByte(p) \/ ReadEnd(p)
    \/ Reacquire(p)

Next ==
    \/ \E p \in Writers : PipeWrite(p)
    \/ \E p \in Readers : PipeRead(p)
    \/ \E p \in Procs : CallStep(p) \/ Close(p) \/ Kill(p)

Spec == Init /\ [][Next]_vars

----------------------------------------------------------------------------
(* Properties.                                                              *)

TypeOK ==
    /\ data \in [0..PIPESIZE - 1 -> Bytes]
    /\ nread \in 0..WIDTH - 1 /\ nwrite \in 0..WIDTH - 1
    /\ readopen \in BOOLEAN /\ writeopen \in BOOLEAN /\ freed \in BOOLEAN
    /\ lock \in Procs \cup {None}
    /\ open \subseteq Procs
    /\ pc \in [Procs -> Labels]
    /\ n \in [Procs -> 0..MaxCount] /\ i \in [Procs -> 0..MaxCount]
    /\ killed \in [Procs -> BOOLEAN]

\* A pipe is a bounded first-in-first-out queue: what piperead takes is what
\* pipewrite put, in order, across the wrap of the counters and of the buffer,
\* and no byte enters once the read end is closed.
Length == (nwrite - nread) % WIDTH
Queue == [k \in 1..Length |-> data[(nread + k - 1) % PIPESIZE]]
Promise == INSTANCE Fifo WITH queue <- Queue, readable <- readopen, writable <- writeopen,
                              Capacity <- PIPESIZE
FifoSpec == Promise!Spec

\* Nobody uses a pipe that pipeclose has freed: no call is under way, nobody is
\* asleep on it and nobody can start a call.
NoUseAfterFree ==
    freed => open = {} /\ lock = None /\ \A p \in Procs : pc[p] = "idle"

\* While pi->lock is free, a writer that sleeps waits for room and has readers:
\* no wakeup of piperead or of pipeclose is lost.
WriterNotStuck ==
    lock = None => \A p \in Writers : pc[p] = "write_sleep" => Full /\ readopen

\* While pi->lock is free, a reader that sleeps waits for data and has writers.
\* The one exception is in the code: a writer killed after its first bytes
\* returns without wakeup(&pi->nread) (pipe.c:85).
ReaderNotStuck ==
    lock = None /\ (\A w \in Writers : ~killed[w]) =>
        \A p \in Readers : pc[p] = "read_sleep" => Empty /\ writeopen

\* Nobody sleeps on a pipe on which they could go on.
NotStuck == WriterNotStuck /\ ReaderNotStuck

\* A read of at least one byte does not find the pipe empty while the write end
\* is open, with other readers at work: 0 means end of file.
EofMeansClosed ==
    [][\A p \in Readers :
          pc[p] = "read_copy" /\ pc'[p] = "read_end" /\ i'[p] = 0 /\ n[p] > 0 /\ nread' = nread
              => Empty /\ ~writeopen]_vars

----------------------------------------------------------------------------
(* The inductive invariant.                                                 *)

WriteLabels == {"write", "write_copy", "write_end"}
ReadLabels == {"read", "read_wait", "read_copy", "read_end"}

\* The labels at which a process holds the lock; only its holder is at one.
LockInv ==
    /\ \A p \in Procs : lock = p <=> pc[p] \in WriteLabels \cup ReadLabels
    /\ \A p \in Writers : pc[p] \in WriteLabels \cup {"idle", "write_sleep", "write_wake"}
    /\ \A p \in Readers : pc[p] \in ReadLabels \cup {"idle", "read_sleep", "read_wake"}

\* A process in a call has its descriptor open, and an end is open as long as
\* some process has it open.
OpenInv ==
    /\ \A p \in Procs : pc[p] # "idle" => p \in open
    /\ open \cap Readers # {} => readopen
    /\ open \cap Writers # {} => writeopen
    /\ freed => ~readopen /\ ~writeopen

\* The counts: i < n where a byte is copied, and a reader that has copied
\* nothing yet has data or has no writers.
CountOf(p) ==
    /\ i[p] <= n[p]
    /\ pc[p] = "write_copy" => i[p] < n[p]
    /\ pc[p] \in {"idle", "read", "read_wait", "read_sleep", "read_wake"} => i[p] = 0
    /\ pc[p] = "read_wait" => Empty /\ writeopen
    /\ pc[p] = "read_copy" /\ i[p] = 0 => ~(Empty /\ writeopen)
CountInv == \A p \in Procs : CountOf(p)

\* Why somebody sleeps: the pipe is full (empty), or the holder of the lock has
\* just changed that and has still to call wakeup.
WriterInv(p) ==
    /\ pc[p] \in {"write_copy", "write_sleep"} => readopen
    /\ pc[p] = "write_sleep" =>
           Full \/ \E r \in Readers : pc[r] \in {"read_copy", "read_end"}
ReaderInv(p) ==
    pc[p] = "read_sleep" =>
        /\ writeopen
        /\ \/ Empty
           \/ \E w \in Writers : pc[w] \in WriteLabels \/ killed[w]
SleepInv == (\A p \in Writers : WriterInv(p)) /\ (\A p \in Readers : ReaderInv(p))

PipeInv == TypeOK /\ LockInv /\ OpenInv /\ CountInv /\ SleepInv

=============================================================================
