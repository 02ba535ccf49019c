-------------------------------- MODULE Proc --------------------------------
(***************************************************************************)
(* Processes: kernel/proc.c and the killed tests of kernel/trap.c.         *)
(*                                                                         *)
(* A CPU runs either its scheduler thread or the kernel thread of a        *)
(* process.  A lock p->lock taken by one of them is released by the other: *)
(* `owner' keeps who holds each lock between two steps.  A critical        *)
(* section of a p->lock that neither switches threads nor takes another    *)
(* lock is one step, taken when that lock is free.                         *)
(*                                                                         *)
(* Left out: the memory, files and directory of a process (fork may fail   *)
(* for want of memory, exit closes files before it takes wait_lock) and    *)
(* the exit status, which only travels from exit to wait.                  *)
(***************************************************************************)
EXTENDS Integers

CONSTANTS NPROC,      \* size of the process table
          CPUs,
          None,       \* nobody holds the lock
          MaxPid,     \* bound: fork is called while nextpid <= MaxPid
          KillPids    \* the pids that user programs pass to kill

ASSUME ProcSizes == /\ NPROC \in Nat \ {0}
                    /\ MaxPid \in Nat
                    /\ KillPids \subseteq Nat
ASSUME ProcSets == None \notin CPUs

VARIABLES state, chan, killed, pid, parent,   \* struct proc
          nextpid,
          owner,      \* lock -> the CPU that holds it, or None
          cproc,      \* CPU -> c->proc, 0 for none
          mode,       \* CPU -> what it executes: "scan", the loop of scheduler; "run", cproc;
                      \* "in" and "out", the switch to and from cproc, whose lock is held
          next,       \* CPU -> scheduler's p
          spinning,   \* the CPUs whose process spins in acquire, interrupts off
          pc, at,     \* kernel thread -> its next step, the slot it is at
          arg,        \* kernel thread -> kill's pid, or the child of fork
          panicked

pvars == <<state, chan, killed, pid, parent, nextpid>>
cvars == <<cproc, mode, next>>
tvars == <<pc, at, arg>>
vars == <<pvars, owner, cvars, spinning, tvars, panicked>>

Slots == 1..NPROC
initproc == 1
WaitLock == 0                      \* wait_lock; lock q > 0 is the lock of slot q
Locks == 0..NPROC

Succ(q) == IF q = NPROC THEN 1 ELSE q + 1
\* The slot of S that a loop over the table reaches first.
First(S) == {q \in S : \A r \in S : q <= r}

\* procinit and userinit, when main has started the CPUs: the first process is
\* RUNNABLE and will start in forkret.
Init ==
    /\ state = [q \in Slots |-> IF q = initproc THEN "RUNNABLE" ELSE "UNUSED"]
    /\ chan = [q \in Slots |-> 0]
    /\ killed = [q \in Slots |-> FALSE]
    /\ pid = [q \in Slots |-> IF q = initproc THEN 1 ELSE 0]
    /\ parent = [q \in Slots |-> 0]
    /\ nextpid = 2
    /\ owner = [l \in Locks |-> None]
    /\ cproc = [c \in CPUs |-> 0]
    /\ mode = [c \in CPUs |-> "scan"]
    /\ next = [c \in CPUs |-> 1]
    /\ spinning = {}
    /\ pc = [q \in Slots |-> "forkret"]
    /\ at = [q \in Slots |-> 1]
    /\ arg = [q \in Slots |-> 0]
    /\ panicked = FALSE

----------------------------------------------------------------------------
(* The scheduler.                                                           *)

\* One slot of the scan: a RUNNABLE process is switched to with its lock held.
Scan(c) ==
    LET q == next[c] IN
    /\ mode[c] = "scan"
    /\ owner[q] = None
    /\ IF state[q] = "RUNNABLE"
       THEN /\ state' = [state EXCEPT ![q] = "RUNNING"]
            /\ cproc' = [cproc EXCEPT ![c] = q]
            /\ owner' = [owner EXCEPT ![q] = c]
            /\ mode' = [mode EXCEPT ![c] = "in"]
            /\ UNCHANGED next
       ELSE /\ next' = [next EXCEPT ![c] = Succ(q)]
            /\ UNCHANGED <<state, cproc, owner, mode>>
    /\ UNCHANGED <<chan, killed, pid, parent, nextpid, spinning, tvars, panicked>>

\* What follows swtch in sched's callers: forkret, yield and sleep release the
\* lock that the scheduler took; exit must not come back.
Resume(c) ==
    LET p == cproc[c] IN
    /\ mode[c] = "in"
    /\ mode' = [mode EXCEPT ![c] = "run"]
    /\ owner' = [owner EXCEPT ![p] = None]
    /\ chan' = IF pc[p] = "asleep" THEN [chan EXCEPT ![p] = 0] ELSE chan
    /\ pc' = [pc EXCEPT ![p] = CASE @ = "asleep" -> "wait"
                                 [] @ = "forkret" -> "user"
                                 [] OTHER -> @]
    /\ panicked' = (pc[p] = "exited")
    /\ UNCHANGED <<state, killed, pid, parent, nextpid, cproc, next, spinning, at, arg>>

\* The scheduler after swtch came back: c->proc = 0, release(&p->lock).
SwitchedOut(c) ==
    LET p == cproc[c] IN
    /\ mode[c] = "out"
    /\ mode' = [mode EXCEPT ![c] = "scan"]
    /\ cproc' = [cproc EXCEPT ![c] = 0]
    /\ owner' = [owner EXCEPT ![p] = None]
    /\ next' = [next EXCEPT ![c] = Succ(p)]
    /\ UNCHANGED <<pvars, spinning, tvars, panicked>>

\* sched(), the last conjunct of a step that gives up the CPU: it panics unless
\* p->lock is the only lock held and the state has changed.
sched(c, p) ==
    /\ mode' = [mode EXCEPT ![c] = "out"]
    /\ panicked' = \/ {l \in Locks : owner'[l] = c} # {p}
                   \/ state'[p] = "RUNNING"

----------------------------------------------------------------------------
(* Steps of the process p that runs on CPU c.                               *)

Runs(c, p) == ~panicked /\ mode[c] = "run" /\ cproc[c] = p

\* Mutant: wait takes any process for its child.
KidsAnyone(p) == {q \in Slots : q >= at[p]}

\* The children of p from slot `at' on, which wait has still to look at; and
\* whether its scan met any (wait_lock, held all along, protects parent).
Kids(p) == {q \in Slots : parent[q] = p /\ q >= at[p]}
HaveKids(p) == \E q \in Slots : parent[q] = p

\* Mutant: wait looks at its children without their locks.
NeedsNoChildLock(p) ==
    CASE pc[p] \in {"fork_parent", "exit", "wait"} -> {WaitLock}
      [] pc[p] \in {"allocproc", "kill"} -> {at[p]}
      [] pc[p] \in {"wake_init", "wake_parent"} -> {at[p]} \ {p}
      [] pc[p] = "fork_run" -> {arg[p]}
      [] pc[p] \in {"user", "ret", "zombie", "wait_sleep"} -> {p}
      [] OTHER -> {}

\* The lock that the next step of p acquires: wait_lock, a slot's, or none.
Needs(p) ==
    CASE pc[p] \in {"fork_parent", "exit", "wait"} -> {WaitLock}
      [] pc[p] \in {"allocproc", "kill"} -> {at[p]}
      [] pc[p] \in {"wake_init", "wake_parent"} -> {at[p]} \ {p}
      [] pc[p] = "fork_run" -> {arg[p]}
      [] pc[p] \in {"user", "ret", "zombie", "wait_sleep"} -> {p}
      [] pc[p] = "wait_scan" -> IF Kids(p) = {} THEN {p} ELSE First(Kids(p))
      [] OTHER -> {}

\* p is at label l and gets the lock that the step needs.
At(c, p, l) ==
    /\ Runs(c, p)
    /\ pc[p] = l
    /\ \A k \in Needs(p) : owner[k] = None
    /\ spinning' = spinning \ {c}

\* acquire finds the lock taken and spins, interrupts off, until it gets it.
Spin(c, p) ==
    /\ Runs(c, p)
    /\ \E k \in Needs(p) : owner[k] # None
    /\ spinning' = spinning \cup {c}
    /\ UNCHANGED <<pvars, owner, cvars, tvars, panicked>>

Goto(p, l) == pc' = [pc EXCEPT ![p] = l]
GotoAt(p, l, q) == Goto(p, l) /\ at' = [at EXCEPT ![p] = q]
\* The locals of a thread are reset where they go out of scope.
Leave(p, l) == GotoAt(p, l, 1) /\ arg' = [arg EXCEPT ![p] = 0]

\* Where a thread goes that calls exit: init panics ("init exiting") and stays in
\* the loop of panic, interrupts on; any other goes on to wait_lock.
exit(p) == IF p = initproc THEN "panic" ELSE "exit"

\* usertrap for a system call: a killed process exits instead.
Syscall(p, l, a) ==
    /\ Goto(p, IF killed[p] THEN exit(p) ELSE l)
    /\ arg' = [arg EXCEPT ![p] = IF killed[p] THEN 0 ELSE a]
    /\ UNCHANGED <<pvars, owner, cvars, at, panicked>>

SysFork(c, p) == At(c, p, "user") /\ nextpid <= MaxPid /\ Syscall(p, "allocproc", 0)
\* init.c waits for the shell that it has forked, and kills nobody.
SysWait(c, p) == At(c, p, "user") /\ (p = initproc => HaveKids(p)) /\ Syscall(p, "wait", 0)
SysKill(c, p) == At(c, p, "user") /\ p # initproc /\ \E n \in KillPids : Syscall(p, "kill", n)

\* The exit system call, or an exception, which usertrap answers by setkilled
\* and exit.  That of init.c follows a failed fork: see AllocProc.
SysExit(c, p) ==
    /\ At(c, p, "user")
    /\ p # initproc
    /\ killed' \in {killed, [killed EXCEPT ![p] = TRUE]}
    /\ Goto(p, "exit")
    /\ UNCHANGED <<state, chan, pid, parent, nextpid, owner, cvars, at, arg, panicked>>

\* yield: the lock taken here is released by the scheduler.
yield(c, p) ==
    /\ owner[p] = None
    /\ owner' = [owner EXCEPT ![p] = c]
    /\ state' = [state EXCEPT ![p] = "RUNNABLE"]
    /\ sched(c, p)
    /\ UNCHANGED <<chan, killed, pid, parent, nextpid, cproc, next, tvars>>

\* A timer interrupt in user space: usertrap looks at killed before it yields.
UserTimer(c, p) ==
    /\ At(c, p, "user")
    /\ IF killed[p] THEN Goto(p, exit(p)) /\ UNCHANGED <<pvars, owner, cvars, at, arg, panicked>>
                    ELSE yield(c, p)

\* A timer interrupt in the kernel, which a held lock keeps off.
KernelTimer(c, p) ==
    /\ Runs(c, p)
    /\ pc[p] # "user"
    /\ c \notin spinning
    /\ \A l \in Locks : owner[l] # c
    /\ yield(c, p)
    /\ UNCHANGED spinning

\* usertrap after the system call.
Return(c, p) ==
    /\ At(c, p, "ret")
    /\ Goto(p, IF killed[p] THEN exit(p) ELSE "user")
    /\ UNCHANGED <<pvars, owner, cvars, at, arg, panicked>>

----------------------------------------------------------------------------
(* fork.                                                                    *)

freeproc(q) ==
    /\ state' = [state EXCEPT ![q] = "UNUSED"]
    /\ pid' = [pid EXCEPT ![q] = 0]
    /\ parent' = [parent EXCEPT ![q] = 0]
    /\ chan' = [chan EXCEPT ![q] = 0]
    /\ killed' = [killed EXCEPT ![q] = FALSE]

\* fork returns -1, and init.c then calls exit.
forkFails(p) == IF p = initproc THEN exit(p) ELSE "ret"

\* One slot of allocproc's scan and, in the slot found, all that fork does under
\* its lock: out of memory, the slot is given back and its pid is lost.
AllocProc(c, p) ==
    LET q == at[p] IN
    /\ At(c, p, "allocproc")
    /\ \/ /\ state[q] = "UNUSED"
          /\ nextpid' = nextpid + 1
          /\ \/ /\ state' = [state EXCEPT ![q] = "USED"]
                /\ pid' = [pid EXCEPT ![q] = nextpid]
                /\ pc' = [pc EXCEPT ![p] = "fork_parent", ![q] = "forkret"]
                /\ arg' = [arg EXCEPT ![p] = q]
                /\ at' = [at EXCEPT ![p] = 1]
                /\ UNCHANGED <<chan, killed, parent>>
             \/ freeproc(q) /\ Leave(p, forkFails(p))
       \/ /\ state[q] # "UNUSED"
          /\ IF q = NPROC THEN Leave(p, forkFails(p))
                          ELSE GotoAt(p, "allocproc", q + 1) /\ UNCHANGED arg
          /\ UNCHANGED pvars
    /\ UNCHANGED <<owner, cvars, panicked>>

\* fork sets the parent under wait_lock, then lets the child run.
ForkParent(c, p) ==
    /\ At(c, p, "fork_parent")
    /\ parent' = [parent EXCEPT ![arg[p]] = p]
    /\ Goto(p, "fork_run")
    /\ UNCHANGED <<state, chan, killed, pid, nextpid, owner, cvars, at, arg, panicked>>

ForkRun(c, p) ==
    /\ At(c, p, "fork_run")
    /\ state' = [state EXCEPT ![arg[p]] = "RUNNABLE"]
    /\ Leave(p, "ret")
    /\ UNCHANGED <<chan, killed, pid, parent, nextpid, owner, cvars, panicked>>

----------------------------------------------------------------------------
(* exit.                                                                    *)

\* Mutant: exit takes p->lock along with wait_lock, before wakeup.
ExitLockFirst(c, p) ==
    /\ At(c, p, "exit")
    /\ owner' = [owner EXCEPT ![WaitLock] = c, ![p] = c]
    /\ Goto(p, "reparent")
    /\ UNCHANGED <<pvars, cvars, at, arg, panicked>>

\* exit up to acquire(&wait_lock), for a process other than init.
Exit(c, p) ==
    /\ At(c, p, "exit")
    /\ owner' = [owner EXCEPT ![WaitLock] = c]
    /\ Goto(p, "reparent")
    /\ UNCHANGED <<pvars, cvars, at, arg, panicked>>

\* Mutant: exit does not wake its parent.
ReparentNoWakeup(c, p) ==
    LET mine == {q \in Slots : parent[q] = p} IN
    /\ At(c, p, "reparent")
    /\ IF mine = {}
       THEN GotoAt(p, "zombie", 1) /\ UNCHANGED parent
       ELSE /\ \E q \in First(mine) : parent' = [parent EXCEPT ![q] = initproc]
            /\ GotoAt(p, "wake_init", 1)
    /\ UNCHANGED <<state, chan, killed, pid, nextpid, owner, cvars, arg, panicked>>

\* reparent: the next child goes to init, which is then woken.
Reparent(c, p) ==
    LET mine == {q \in Slots : parent[q] = p} IN
    /\ At(c, p, "reparent")
    /\ IF mine = {}
       THEN GotoAt(p, "wake_parent", 1) /\ UNCHANGED parent
       ELSE /\ \E q \in First(mine) : parent' = [parent EXCEPT ![q] = initproc]
            /\ GotoAt(p, "wake_init", 1)
    /\ UNCHANGED <<state, chan, killed, pid, nextpid, owner, cvars, arg, panicked>>

\* One slot of wakeup(ch), called by p, which then goes on at label l.
wakeup(p, ch, l) ==
    LET q == at[p] IN
    /\ state' = IF q # p /\ state[q] = "SLEEPING" /\ chan[q] = ch
                THEN [state EXCEPT ![q] = "RUNNABLE"] ELSE state
    /\ IF q = NPROC THEN GotoAt(p, l, 1) ELSE GotoAt(p, pc[p], q + 1)
    /\ UNCHANGED <<chan, killed, pid, parent, nextpid, owner, cvars, arg, panicked>>

WakeInit(c, p) == At(c, p, "wake_init") /\ wakeup(p, initproc, "reparent")
WakeParent(c, p) == At(c, p, "wake_parent") /\ wakeup(p, parent[p], "zombie")

\* exit's end: ZOMBIE under p->lock and wait_lock, then into the scheduler.
Zombie(c, p) ==
    /\ At(c, p, "zombie")
    /\ state' = [state EXCEPT ![p] = "ZOMBIE"]
    /\ owner' = [owner EXCEPT ![p] = c, ![WaitLock] = None]
    /\ Goto(p, "exited")
    /\ sched(c, p)
    /\ UNCHANGED <<chan, killed, pid, parent, nextpid, cproc, next, at, arg>>

----------------------------------------------------------------------------
(* wait and kill.                                                           *)

\* acquire(&wait_lock), at the start of wait or at the end of sleep.
Wait(c, p) ==
    /\ At(c, p, "wait")
    /\ owner' = [owner EXCEPT ![WaitLock] = c]
    /\ GotoAt(p, "wait_scan", 1)
    /\ UNCHANGED <<pvars, cvars, arg, panicked>>

\* wait looks at its next child; one that has exited is freed, unless its status
\* cannot be copied out (init.c passes no address).
WaitScan(c, p) ==
    /\ At(c, p, "wait_scan")
    /\ \E q \in First(Kids(p)) :
          \/ /\ state[q] = "ZOMBIE"
             /\ \/ freeproc(q) /\ UNCHANGED nextpid
                \/ p # initproc /\ UNCHANGED pvars
             /\ owner' = [owner EXCEPT ![WaitLock] = None]
             /\ Leave(p, "ret")
          \/ /\ state[q] # "ZOMBIE"
             /\ GotoAt(p, "wait_scan", q + 1)
             /\ UNCHANGED <<pvars, owner, arg>>
    /\ UNCHANGED <<cvars, panicked>>

\* The end of the scan: nothing to wait for, or killed, or off to sleep.
WaitEnd(c, p) ==
    /\ At(c, p, "wait_scan")
    /\ Kids(p) = {}
    /\ IF ~HaveKids(p) \/ killed[p]
       THEN Leave(p, "ret") /\ owner' = [owner EXCEPT ![WaitLock] = None]
       ELSE Leave(p, "wait_sleep") /\ UNCHANGED owner
    /\ UNCHANGED <<pvars, cvars, panicked>>

\* sleep(p, &wait_lock): p->lock is taken before wait_lock is released.
Sleep(c, p) ==
    /\ At(c, p, "wait_sleep")
    /\ owner' = [owner EXCEPT ![p] = c, ![WaitLock] = None]
    /\ chan' = [chan EXCEPT ![p] = p]
    /\ state' = [state EXCEPT ![p] = "SLEEPING"]
    /\ Goto(p, "asleep")
    /\ sched(c, p)
    /\ UNCHANGED <<killed, pid, parent, nextpid, cproc, next, at, arg>>

\* One slot of kill's scan.
Kill(c, p) ==
    LET q == at[p] IN
    /\ At(c, p, "kill")
    /\ IF pid[q] = arg[p]
       THEN /\ killed' = [killed EXCEPT ![q] = TRUE]
            /\ state' = IF state[q] = "SLEEPING" THEN [state EXCEPT ![q] = "RUNNABLE"] ELSE state
       ELSE UNCHANGED <<killed, state>>
    /\ IF pid[q] = arg[p] \/ q = NPROC
       THEN Leave(p, "ret")
       ELSE GotoAt(p, "kill", q + 1) /\ UNCHANGED arg
    /\ UNCHANGED <<chan, pid, parent, nextpid, owner, cvars, panicked>>

----------------------------------------------------------------------------
Scheduler(c) == Scan(c) \/ Resume(c) \/ SwitchedOut(c)
KernelStep(c, p) ==
    \/ Return(c, p) \/ AllocProc(c, p) \/ ForkParent(c, p) \/ ForkRun(c, p)
    \/ Exit(c, p) \/ Reparent(c, p) \/ WakeInit(c, p) \/ WakeParent(c, p) \/ Zombie(c, p)
    \/ Wait(c, p) \/ WaitScan(c, p) \/ WaitEnd(c, p) \/ Sleep(c, p) \/ Kill(c, p)
Timer(c, p) == UserTimer(c, p) \/ KernelTimer(c, p)
UserStep(c, p) == SysFork(c, p) \/ SysWait(c, p) \/ SysKill(c, p) \/ SysExit(c, p)

Next ==
    \E c \in CPUs :
        \/ ~panicked /\ Scheduler(c)
        \/ \E p \in Slots : KernelStep(c, p) \/ Spin(c, p) \/ Timer(c, p) \/ UserStep(c, p)

Spec == Init /\ [][Next]_vars

----------------------------------------------------------------------------
(* Properties.                                                              *)

\* No process is on two CPUs, a process that nobody is switching is on a CPU
\* exactly when it is RUNNING, and the slot of a process that is still on a CPU
\* (on its kernel stack) has not been freed or given away; so no panic of
\* proc.c is reached but that of init's own exit, which stops init alone: sched
\* is entered with p->lock alone and a new state, and a ZOMBIE never resumes.
OnOneCPU ==
    /\ ~panicked
    /\ \A c, d \in CPUs : cproc[c] = cproc[d] /\ cproc[c] # 0 => c = d
    /\ \A q \in Slots : owner[q] = None =>
           (state[q] = "RUNNING" <=> \E c \in CPUs : cproc[c] = q)
    /\ \A c \in CPUs : cproc[c] # 0 => state[cproc[c]] \notin {"UNUSED", "USED"}

\* While nobody holds wait_lock, every child has somebody whose wait can free it,
\* and who does not sleep through it: its parent has not exited (exit gave
\* its children to init), and a process asleep in wait has children, none of
\* them a ZOMBIE, so that no wakeup of exit or reparent was lost.
FamilyRight ==
    owner[WaitLock] = None =>
        /\ \A q \in Slots : parent[q] # 0 =>
               /\ state[q] # "UNUSED"
               /\ state[parent[q]] \notin {"UNUSED", "USED", "ZOMBIE"}
        /\ \A p \in Slots : state[p] = "SLEEPING" =>
               LET kids == {q \in Slots : parent[q] = p} IN
               /\ kids # {}
               /\ \A q \in kids : state[q] # "ZOMBIE"

\* No set of CPUs spins in acquire for locks that the CPUs of the set hold:
\* wait_lock comes before any p->lock, and nobody takes a lock twice.
Waiting(c) == IF mode[c] = "scan" THEN {next[c]}
              ELSE IF mode[c] = "run" THEN Needs(cproc[c]) ELSE {}
NoDeadlock ==
    \A S \in SUBSET CPUs :
        S = {} \/ \E c \in S : \A l \in Waiting(c) : owner[l] \notin S

\* A slot without a process is not marked killed: kill acts on "the process
\* with the given pid" (proc.c:594), and the next process of the slot starts
\* its life unharmed.
KillsProcesses == \A q \in Slots : state[q] = "UNUSED" => ~killed[q]

\* A process leaves the table only by the wait of its parent, as a ZOMBIE that
\* has left its CPU, or by a fork that fails half way, before anybody saw it.
FreedByParent ==
    [][\A q \in Slots : state[q] \notin {"UNUSED", "USED"} /\ state'[q] = "UNUSED" =>
           /\ state[q] = "ZOMBIE" /\ \A c \in CPUs : cproc[c] # q
           /\ \E c \in CPUs : owner[WaitLock] = c /\ cproc[c] = parent[q]]_vars

\* A killed process does not stay asleep: kill is to "wake process from sleep"
\* (proc.c:607) so that it exits when it returns to user space (proc.c:594).
KillInterruptsSleep == \A p \in Slots : killed[p] => state[p] # "SLEEPING"

=============================================================================
