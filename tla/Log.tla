---------------------------------- MODULE Log ----------------------------------
(***************************************************************************)
(* kernel/log.c over the buffer cache of kernel/bio.c: the redo log that   *)
(* makes groups of file-system calls atomic across crashes.                *)
(*                                                                         *)
(* A process runs begin_op, any number of log_writes and end_op; the last  *)
(* end_op commits.  One action is one critical section of log.lock or one  *)
(* synchronous disk write, so that processes interleave, and the machine   *)
(* can crash, everywhere they can in the code.  A crash may tear the block *)
(* being written; the header fits in one disk sector and is never torn.    *)
(***************************************************************************)
EXTENDS Integers, Sequences, FiniteSets

CONSTANTS
    Procs, Blocks, Data,
    None,           \* the block is not in the buffer cache
    LOGSIZE,        \* param.h: entries of a log header
    MAXOPBLOCKS,    \* param.h: log space begin_op reserves for a call
    NLOG,           \* sb.nlog: blocks of the on-disk log, header included
    OpBlocks,       \* distinct blocks that a file-system call writes, at most
    MaxCrashes      \* bound on the number of crashes

ASSUME LogSets ==
    IsFiniteSet(Procs) /\ IsFiniteSet(Blocks) /\ Data # {} /\ None \notin Data
ASSUME LogSizes ==
    /\ LOGSIZE \in Nat /\ MAXOPBLOCKS \in Nat /\ NLOG \in Nat
    /\ OpBlocks \in 1..MAXOPBLOCKS
    /\ MAXOPBLOCKS <= LOGSIZE
    /\ NLOG >= 2
    /\ MaxCrashes \in Nat

VARIABLES
    disk,        \* home location of every block
    logd,        \* the log blocks on disk
    hd,          \* the header block on disk: block numbers of a transaction
    lh,          \* log.lh: block numbers logged so far, in memory
    cache,       \* data of the cached blocks, None for the others
    pins,        \* references that bpin holds on a cached block
    outstanding, \* log.outstanding
    committing,  \* log.committing
    pc,          \* where each process is
    wrote,       \* blocks that the process's current call has written
    tail,        \* loop index of write_log and install_trans
    boot,        \* progress of recover_from_log, "up" when it has finished
    panicked,
    crashes

dvars == <<disk, logd, hd>>
mvars == <<lh, cache, pins>>
lvars == <<outstanding, committing>>
vars == <<disk, logd, hd, lh, cache, pins, outstanding, committing, pc, wrote,
          tail, boot, panicked, crashes>>

LogBlocks == 1..(NLOG - 1)
Logged(s) == {s[i] : i \in DOMAIN s}
Up == boot = "up" /\ ~panicked

\* What bread(b) returns: the cached copy, or else the block on disk.
View(b) == IF cache[b] # None THEN cache[b] ELSE disk[b]

States == {"idle", "asleep", "woken", "op", "commit", "write_log",
           "write_head", "install_trans", "clear", "done"}
Active == {p \in Procs : pc[p] = "op"}
Committers == {p \in Procs : pc[p] \in {"commit", "write_log", "write_head",
                                        "install_trans", "clear", "done"}}

\* mkfs has written an empty log; memory is that of a machine just switched on.
Init ==
    /\ disk \in [Blocks -> Data]
    /\ logd \in [LogBlocks -> Data]
    /\ hd = <<>>
    /\ lh = <<>>
    /\ cache = [b \in Blocks |-> None]
    /\ pins = [b \in Blocks |-> 0]
    /\ outstanding = 0
    /\ committing = FALSE
    /\ pc = [p \in Procs |-> "idle"]
    /\ wrote = [p \in Procs |-> {}]
    /\ tail = 0
    /\ boot = "read_head"
    /\ panicked = FALSE
    /\ crashes = 0

--------------------------------------------------------------------------------
(* Recovery: initlog calls recover_from_log before any file-system call.     *)

ReadHead ==
    /\ boot = "read_head"
    /\ lh' = hd
    /\ tail' = 0
    /\ boot' = "install_trans"
    /\ UNCHANGED <<dvars, cache, pins, lvars, pc, wrote, panicked, crashes>>

\* The copy of the next log block to its home location, in the cache and on disk.
InstallBlock ==
    /\ tail < Len(lh)
    /\ cache' = [cache EXCEPT ![lh[tail + 1]] = logd[tail + 1]]
    /\ disk' = [disk EXCEPT ![lh[tail + 1]] = logd[tail + 1]]
    /\ tail' = tail + 1

RecoverInstall ==
    /\ boot = "install_trans"
    /\ InstallBlock
    /\ UNCHANGED <<logd, hd, lh, pins, lvars, pc, wrote, boot, panicked, crashes>>

RecoverClear ==
    /\ boot = "install_trans"
    /\ tail = Len(lh)
    /\ lh' = <<>>
    /\ hd' = <<>>
    /\ boot' = "up"
    /\ UNCHANGED <<disk, logd, cache, pins, lvars, pc, wrote, tail, panicked,
                   crashes>>

--------------------------------------------------------------------------------
(* The buffer cache: bread loads a block, bget recycles one nobody refers to. *)

Bread(b) ==
    /\ Up
    /\ cache[b] = None
    /\ cache' = [cache EXCEPT ![b] = disk[b]]
    /\ UNCHANGED <<dvars, lh, pins, lvars, pc, wrote, tail, boot, panicked, crashes>>

Recycle(b) ==
    /\ Up
    /\ cache[b] # None
    /\ pins[b] = 0
    /\ cache' = [cache EXCEPT ![b] = None]
    /\ UNCHANGED <<dvars, lh, pins, lvars, pc, wrote, tail, boot, panicked, crashes>>

--------------------------------------------------------------------------------
(* The processes.                                                            *)

\* Mutant: begin_op leaves out what its own call may write.
NoSpaceForOthers == Len(lh) + outstanding * MAXOPBLOCKS > LOGSIZE
NoSpace == Len(lh) + (outstanding + 1) * MAXOPBLOCKS > LOGSIZE

\* wakeup(&log), with p itself moving to state s.
Wakeup(p, s) ==
    [q \in Procs |-> IF q = p THEN s
                     ELSE IF pc[q] = "asleep" THEN "woken" ELSE pc[q]]

\* One turn of begin_op's loop.
BeginOp(p) ==
    /\ Up
    /\ pc[p] \in {"idle", "woken"}
    /\ IF committing \/ NoSpace
       THEN /\ pc' = [pc EXCEPT ![p] = "asleep"]
            /\ UNCHANGED outstanding
       ELSE /\ pc' = [pc EXCEPT ![p] = "op"]
            /\ outstanding' = outstanding + 1
    /\ UNCHANGED <<dvars, mvars, committing, wrote, tail, boot, panicked, crashes>>

\* kill() makes a sleeping process runnable whatever it sleeps on.
Kill(p) ==
    /\ Up
    /\ pc[p] = "asleep"
    /\ pc' = [pc EXCEPT ![p] = "woken"]
    /\ UNCHANGED <<dvars, mvars, lvars, wrote, tail, boot, panicked, crashes>>

TooBig == Len(lh) >= LOGSIZE \/ Len(lh) >= NLOG - 1

\* Mutant: log_write does not bpin the block it adds.
LogWriteNoPin(p, b, d) ==
    /\ Up
    /\ pc[p] = "op"
    /\ Cardinality(wrote[p] \cup {b}) <= OpBlocks
    /\ wrote' = [wrote EXCEPT ![p] = @ \cup {b}]
    /\ cache' = [cache EXCEPT ![b] = d]
    /\ lh' = IF b \in Logged(lh) THEN lh ELSE Append(lh, b)
    /\ UNCHANGED <<dvars, pins, lvars, pc, tail, boot, panicked, crashes>>

\* bread(b), a change of its data, log_write(b) and brelse(b), which the
\* buffer's sleep-lock makes one step for everyone else.
LogWrite(p, b, d) ==
    /\ Up
    /\ pc[p] = "op"
    /\ Cardinality(wrote[p] \cup {b}) <= OpBlocks
    /\ wrote' = [wrote EXCEPT ![p] = @ \cup {b}]
    /\ cache' = [cache EXCEPT ![b] = d]
    /\ panicked' = (TooBig \/ outstanding < 1)
    /\ IF panicked' \/ b \in Logged(lh)
       THEN UNCHANGED <<lh, pins>>
       ELSE /\ lh' = Append(lh, b)
            /\ pins' = [pins EXCEPT ![b] = @ + 1]
    /\ UNCHANGED <<dvars, lvars, pc, tail, boot, crashes>>

\* end_op's first critical section.
EndOp(p) ==
    /\ Up
    /\ pc[p] = "op"
    /\ outstanding' = outstanding - 1
    /\ panicked' = committing
    /\ committing' = (committing \/ outstanding' = 0)
    /\ pc' = IF outstanding' = 0 THEN [pc EXCEPT ![p] = "commit"]
                                 ELSE Wakeup(p, "idle")
    /\ wrote' = [wrote EXCEPT ![p] = {}]
    /\ UNCHANGED <<dvars, mvars, tail, boot, crashes>>

Commit(p) ==
    /\ Up
    /\ pc[p] = "commit"
    /\ pc' = [pc EXCEPT ![p] = IF Len(lh) > 0 THEN "write_log" ELSE "done"]
    /\ tail' = 0
    /\ UNCHANGED <<dvars, mvars, lvars, wrote, boot, panicked, crashes>>

\* One block of write_log: bread the cached block, bwrite the log block.
WriteLog(p) ==
    /\ Up
    /\ pc[p] = "write_log"
    /\ LET b == lh[tail + 1]
       IN  /\ logd' = [logd EXCEPT ![tail + 1] = View(b)]
           /\ cache' = [cache EXCEPT ![b] = View(b)]
    /\ tail' = tail + 1
    /\ pc' = [pc EXCEPT ![p] = IF tail' < Len(lh) THEN @ ELSE "write_head"]
    /\ UNCHANGED <<disk, hd, lh, pins, lvars, wrote, boot, panicked, crashes>>

\* Mutant: commit() goes on to install_trans without writing the header.
WriteHeadSkipped(p) ==
    /\ Up
    /\ pc[p] = "write_head"
    /\ tail' = 0
    /\ pc' = [pc EXCEPT ![p] = "install_trans"]
    /\ UNCHANGED <<dvars, mvars, lvars, wrote, boot, panicked, crashes>>

\* write_head: the real commit.
WriteHead(p) ==
    /\ Up
    /\ pc[p] = "write_head"
    /\ hd' = lh
    /\ tail' = 0
    /\ pc' = [pc EXCEPT ![p] = "install_trans"]
    /\ UNCHANGED <<disk, logd, mvars, lvars, wrote, boot, panicked, crashes>>

\* One block of install_trans(0), which also drops the pin of log_write.
InstallTrans(p) ==
    /\ Up
    /\ pc[p] = "install_trans"
    /\ InstallBlock
    /\ pins' = [pins EXCEPT ![lh[tail + 1]] = @ - 1]
    /\ pc' = [pc EXCEPT ![p] = IF tail' < Len(lh) THEN @ ELSE "clear"]
    /\ UNCHANGED <<logd, hd, lh, lvars, wrote, boot, panicked, crashes>>

\* log.lh.n = 0 and the write_head that erases the transaction.
ClearHead(p) ==
    /\ Up
    /\ pc[p] = "clear"
    /\ lh' = <<>>
    /\ hd' = <<>>
    /\ pc' = [pc EXCEPT ![p] = "done"]
    /\ UNCHANGED <<disk, logd, cache, pins, lvars, wrote, tail, boot, panicked,
                   crashes>>

\* Mutant: no wakeup(&log) after the commit.
EndCommitNoWakeup(p) ==
    /\ Up
    /\ pc[p] = "done"
    /\ committing' = FALSE
    /\ pc' = [pc EXCEPT ![p] = "idle"]
    /\ UNCHANGED <<dvars, mvars, outstanding, wrote, tail, boot, panicked, crashes>>

\* end_op's second critical section.
EndCommit(p) ==
    /\ Up
    /\ pc[p] = "done"
    /\ committing' = FALSE
    /\ pc' = Wakeup(p, "idle")
    /\ UNCHANGED <<dvars, mvars, outstanding, wrote, tail, boot, panicked, crashes>>

--------------------------------------------------------------------------------
\* A crash loses memory.  The block being written may be left with anything.
Torn(f, at, writing) ==
    {f} \cup (IF writing THEN {[f EXCEPT ![at] = d] : d \in Data} ELSE {})
Installing == boot = "install_trans" \/ \E p \in Procs : pc[p] = "install_trans"
Logging == \E p \in Procs : pc[p] = "write_log"

Crash ==
    /\ crashes < MaxCrashes
    /\ crashes' = crashes + 1
    /\ disk' \in Torn(disk, lh[tail + 1], Installing /\ tail < Len(lh))
    /\ logd' \in Torn(logd, tail + 1, Logging)
    /\ hd' = hd
    /\ lh' = <<>>
    /\ cache' = [b \in Blocks |-> None]
    /\ pins' = [b \in Blocks |-> 0]
    /\ outstanding' = 0
    /\ committing' = FALSE
    /\ pc' = [p \in Procs |-> "idle"]
    /\ wrote' = [p \in Procs |-> {}]
    /\ tail' = 0
    /\ boot' = "read_head"
    /\ panicked' = FALSE

EndOpStep(p) == EndOp(p) \/ Commit(p) \/ WriteLog(p) \/ WriteHead(p)
                \/ InstallTrans(p) \/ ClearHead(p) \/ EndCommit(p)
Recovery == ReadHead \/ RecoverInstall \/ RecoverClear

Next ==
    \/ Recovery
    \/ \E b \in Blocks : Bread(b) \/ Recycle(b)
    \/ \E p \in Procs : BeginOp(p) \/ Kill(p) \/ EndOpStep(p)
    \/ \E p \in Procs, b \in Blocks, d \in Data : LogWrite(p, b, d)
    \/ Crash

Spec == Init /\ [][Next]_vars

--------------------------------------------------------------------------------
(* Properties.                                                               *)

\* The shape of the state of log.c, bio.c and the disk.
TypeOK ==
    /\ disk \in [Blocks -> Data]
    /\ logd \in [LogBlocks -> Data]
    /\ hd \in Seq(Blocks) /\ Len(hd) <= LOGSIZE /\ Len(hd) <= NLOG - 1
    /\ lh \in Seq(Blocks) /\ Len(lh) <= LOGSIZE /\ Len(lh) <= NLOG - 1
    /\ cache \in [Blocks -> Data \cup {None}]
    /\ pins \in [Blocks -> Nat]
    /\ outstanding \in Nat
    /\ committing \in BOOLEAN
    /\ pc \in [Procs -> States]
    /\ wrote \in [Procs -> SUBSET Blocks]
    /\ tail \in 0..LOGSIZE
    /\ boot \in {"read_head", "install_trans", "up"}
    /\ panicked \in BOOLEAN
    /\ crashes \in 0..MaxCrashes

\* What recover_from_log leaves at the home locations, given disk d, log blocks l
\* and header h.
RecoverFrom(d, l, h) ==
    [b \in Blocks |-> IF b \in Logged(h)
                      THEN l[CHOOSE i \in DOMAIN h : h[i] = b]
                      ELSE d[b]]
Recovered == RecoverFrom(disk, logd, hd)
Current == [b \in Blocks |-> IF boot = "up" THEN View(b) ELSE Recovered[b]]
Atomic == INSTANCE AtomicDisk
              WITH stable <- Recovered, current <- Current, open <- Active

\* Crash atomicity: whatever the interleaving of calls, cache evictions,
\* commits, crashes (also during recovery) and torn writes, what recovery finds
\* is the outcome of complete groups of calls, and calls read their own writes.
AtomicSpec == Atomic!Spec

\* log.c never panics: neither log_write ("too big a transaction", "log_write
\* outside of trans") nor end_op ("log.committing").
NoPanic == ~panicked

\* "The logging system only commits when there are no FS system calls active":
\* at most one process is in commit(), only under log.committing, and no call is
\* between begin_op and end_op then.
CommitAlone ==
    /\ committing <=> Committers # {}
    /\ \A p, q \in Committers : p = q
    /\ committing => Active = {}

\* A pin is held exactly by the logged blocks that install_trans has not written
\* home yet: none leaks, and none is dropped while the cache has the only copy.
Unpinned(p) == pc[p] \in {"install_trans", "clear"}
PinsAreExact ==
    boot = "up" =>
        \A b \in Blocks :
            pins[b] = IF \E i \in DOMAIN lh :
                            /\ lh[i] = b
                            /\ (\E p \in Procs : Unpinned(p)) => i > tail
                      THEN 1 ELSE 0

\* A buffer that bget may recycle holds what the disk holds.
RecyclableIsClean ==
    ~panicked =>
        \A b \in Blocks : pins[b] = 0 /\ cache[b] # None => cache[b] = disk[b]

\* A process asleep in begin_op has someone who will wake it: a call whose
\* end_op is to come, or a commit in progress.
SleeperHasWaker ==
    Up /\ (\E p \in Procs : pc[p] = "asleep") => committing \/ outstanding > 0

\* Write-ahead: a block's home location is written only while the on-disk header
\* lists the block, so that recovery can always redo the write.
WriteAhead == [][\A b \in Blocks : disk'[b] # disk[b] => b \in Logged(hd)]_vars

\* The inductive invariant behind the safety properties.
Injective(s) == \A i, j \in DOMAIN s : s[i] = s[j] => i = j

BootInv ==
    boot # "up" =>
        /\ ~panicked
        /\ \A p \in Procs : pc[p] = "idle"
        /\ \A b \in Blocks : pins[b] = 0
        /\ boot = "install_trans" =>
               /\ lh = hd
               /\ tail <= Len(lh)
               /\ \A i \in 1..tail : disk[lh[i]] = logd[i]

CallInv ==
    /\ outstanding = Cardinality(Active)
    /\ \A p \in Procs : pc[p] # "op" => wrote[p] = {}
    /\ ~panicked => \A p \in Procs : wrote[p] \subseteq Logged(lh)

HeaderInv ==
    /\ Injective(hd) /\ Injective(lh)
    /\ boot = "up" =>
        /\ (\A p \in Procs : pc[p] \notin {"install_trans", "clear"}) => hd = <<>>
        /\ ~committing /\ Active = {} => lh = <<>>

\* What the committer knows at each of its steps.
CommitInv ==
    \A p \in Procs :
        /\ pc[p] \in {"write_log", "install_trans"} => tail < Len(lh)
        /\ pc[p] = "write_log" => \A i \in 1..tail : logd[i] = View(lh[i])
        /\ pc[p] \in {"write_head", "install_trans", "clear"} =>
               /\ lh # <<>>
               /\ \A i \in DOMAIN lh : logd[i] = View(lh[i])
        /\ pc[p] \in {"install_trans", "clear"} =>
               /\ hd = lh
               /\ \A i \in DOMAIN lh : i <= tail => disk[lh[i]] = logd[i]
        /\ pc[p] = "clear" => tail = Len(lh)
        /\ pc[p] = "done" => lh = <<>>

PinnedIsCached == \A b \in Blocks : pins[b] > 0 => cache[b] # None

\* The structural invariant of log.c, commit step by commit step.
LogInv ==
    /\ TypeOK /\ BootInv /\ CallInv /\ HeaderInv /\ CommitInv
    /\ CommitAlone /\ PinsAreExact /\ RecyclableIsClean /\ PinnedIsCached

================================================================================
