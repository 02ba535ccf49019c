------------------------------ MODULE ProcSteps -----------------------------
(***************************************************************************)
(* Proofs about Proc, for any number of slots, CPUs and pids, whomever     *)
(* programs kill.                                                          *)
(***************************************************************************)
EXTENDS Proc, TLAPS

States == {"UNUSED", "USED", "SLEEPING", "RUNNABLE", "RUNNING", "ZOMBIE"}
Modes == {"scan", "in", "run", "out"}
Holding == {"reparent", "wake_init", "wake_parent", "zombie", "wait_scan", "wait_sleep"}
Forking == {"fork_parent", "fork_run"}
Exiting == {"exit", "reparent", "wake_init", "wake_parent", "zombie", "exited"}
Labels == Holding \cup Forking \cup Exiting
              \cup {"forkret", "user", "ret", "allocproc", "wait", "asleep", "kill", "panic"}

Types ==
    /\ state \in [Slots -> States] /\ chan \in [Slots -> Locks]
    /\ killed \in [Slots -> BOOLEAN] /\ pid \in [Slots -> Nat] /\ parent \in [Slots -> Locks]
    /\ nextpid \in Nat
    /\ owner \in [Locks -> CPUs \cup {None}]
    /\ cproc \in [CPUs -> Locks] /\ mode \in [CPUs -> Modes] /\ next \in [CPUs -> Slots]
    /\ pc \in [Slots -> Labels] /\ at \in [Slots -> 1..NPROC + 1] /\ arg \in [Slots -> Nat]
    /\ \A p \in Slots : pc[p] # "wait_scan" => at[p] \in Slots

\* What a CPU executes, and the state of its process.
CpusRight ==
    /\ \A c \in CPUs : mode[c] = "scan" <=> cproc[c] = 0
    /\ \A c, d \in CPUs : cproc[c] = cproc[d] /\ cproc[c] # 0 => c = d
    /\ \A c \in CPUs : mode[c] \in {"in", "run"} => state[cproc[c]] = "RUNNING"
    /\ \A c \in CPUs : mode[c] = "out" => state[cproc[c]] \in {"RUNNABLE", "SLEEPING", "ZOMBIE"}
    /\ \A q \in Slots : state[q] = "RUNNING" => \E c \in CPUs : cproc[c] = q /\ mode[c] # "out"

\* Between two steps the lock of a slot is held for a switch only, and wait_lock
\* by the process that is inside exit or wait.
LocksRight ==
    /\ \A q \in Slots, c \in CPUs : owner[q] = c <=> cproc[c] = q /\ mode[c] \in {"in", "out"}
    /\ \A c \in CPUs : owner[WaitLock] = c => mode[c] = "run" /\ pc[cproc[c]] \in Holding
    /\ \A p \in Slots : pc[p] \in Holding =>
           owner[WaitLock] \in CPUs /\ cproc[owner[WaitLock]] = p

\* Where a kernel thread is, and the state of its process.
ThreadsRight ==
    /\ \A p \in Slots :
           /\ state[p] = "UNUSED" => pc[p] \in {"forkret", "exited"}
           /\ state[p] = "USED" => pc[p] = "forkret"
           /\ state[p] = "SLEEPING" => pc[p] = "asleep" /\ chan[p] = p
           /\ state[p] = "ZOMBIE" => pc[p] = "exited"
           /\ pc[p] = "exited" => state[p] \in {"ZOMBIE", "UNUSED"}
    /\ \A c \in CPUs : mode[c] = "run" => pc[cproc[c]] \notin {"forkret", "asleep", "exited"}

\* A slot that fork fills is filled by one process, and is nobody's child yet.
ForksRight ==
    /\ \A p \in Slots : pc[p] \in Forking => arg[p] \in Slots /\ state[arg[p]] = "USED"
    /\ \A p \in Slots : pc[p] = "fork_parent" => parent[arg[p]] = 0
    /\ \A p, q \in Slots : pc[p] \in Forking /\ pc[q] \in Forking /\ arg[p] = arg[q] => p = q

\* init gets no further into exit than its panic.
InitRight ==
    /\ parent[initproc] = 0
    /\ state[initproc] \notin {"UNUSED", "USED"}
    /\ pc[initproc] \notin Exiting

\* Children have a parent that will wait for them.
KidsRight ==
    /\ \A q \in Slots : parent[q] # 0 =>
           state[q] # "UNUSED" /\ state[parent[q]] \notin {"UNUSED", "USED", "ZOMBIE"}
    /\ \A p \in Slots : pc[p] \in {"wake_parent", "zombie"} => \A q \in Slots : parent[q] # p
    /\ \A p \in Slots : state[p] = "SLEEPING" \/ pc[p] = "wait_sleep" =>
           \E q \in Slots : parent[q] = p

\* Nobody sleeps through the exit of a child: a process that goes to sleep has
\* seen that none is a ZOMBIE, the one that exits has woken its parent before
\* (wait_lock keeps it from going back to sleep), and the one that hands a
\* ZOMBIE over to init is about to wake init.
WakeupsRight ==
    /\ \A p, q \in Slots : parent[q] = p /\ state[q] = "ZOMBIE" =>
           /\ pc[p] # "wait_sleep"
           /\ pc[p] = "wait_scan" => q >= at[p]
    /\ \A e \in Slots :
           pc[e] = "zombie" \/ (pc[e] = "wake_parent" /\ parent[e] < at[e]) =>
               parent[e] = 0 \/ state[parent[e]] # "SLEEPING"
    /\ \A q \in Slots : state[q] = "ZOMBIE" /\ parent[q] # 0 /\ state[parent[q]] = "SLEEPING" =>
           /\ parent[q] = initproc /\ owner[WaitLock] \in CPUs
           /\ LET e == cproc[owner[WaitLock]] IN pc[e] = "wake_init" /\ at[e] = 1

\* The inductive invariant.
ProcInv ==
    /\ Types /\ ~panicked
    /\ CpusRight /\ LocksRight /\ ThreadsRight /\ ForksRight /\ InitRight
    /\ KidsRight /\ WakeupsRight

----------------------------------------------------------------------------
\* A second and a third call, for a leaf the first gives up on.
USE SMTT(30), Z3T(30), SMTT(60) DEF initproc, WaitLock

\* All that most proofs need to know of the slots and the locks.
LEMMA SlotFacts ==
    /\ 0 \notin Slots /\ 1 \in Slots /\ 0 \in Locks
    /\ \A q : q \in Locks <=> q = 0 \/ q \in Slots
    /\ None \notin CPUs
  BY ProcSizes, ProcSets DEF Slots, Locks

USE SlotFacts

LEMMA SlotNext ==
    1 \in 1..NPROC + 1 /\ \A r \in Slots : r # NPROC => r + 1 \in Slots /\ r + 1 \in 1..NPROC + 1
  BY ProcSizes DEF Slots

LEMMA InitHolds == Init => ProcInv
<1> SUFFICES ASSUME Init PROVE ProcInv
  BY ZenonT(20)
<1> USE DEF Init
<1>1. Types
  BY ProcSizes DEF Types, States, Modes, Labels
<1>2. CpusRight /\ LocksRight
  BY ZenonT(20) DEF CpusRight, LocksRight, Holding
<1>3. ThreadsRight /\ ForksRight /\ InitRight
  BY DEF ThreadsRight, ForksRight, InitRight, Forking, Exiting
<1>4. KidsRight /\ WakeupsRight
  BY ZenonT(20) DEF KidsRight, WakeupsRight
<1> QED
  BY <1>1, <1>2, <1>3, <1>4, ZenonT(20) DEF ProcInv

\* A step that changes no variable of the invariant.
LEMMA StutterHolds == ProcInv /\ UNCHANGED <<pvars, owner, cvars, tvars, panicked>> => ProcInv'
  BY DEF ProcInv, pvars, cvars, tvars, Types, CpusRight, LocksRight, ThreadsRight, ForksRight,
     InitRight, KidsRight, WakeupsRight

----------------------------------------------------------------------------
(* The scheduler.                                                           *)

LEMMA ScanHolds == ASSUME ProcInv, NEW c \in CPUs, Scan(c) PROVE ProcInv'
<1> DEFINE q == next[c]
<1>1. CASE state[q] # "RUNNABLE"
  <2>1. /\ next' = [next EXCEPT ![c] = Succ(q)]
        /\ UNCHANGED <<pvars, owner, cproc, mode, tvars, panicked>>
    BY <1>1, ZenonT(20) DEF Scan, pvars
  <2>2. next' \in [CPUs -> Slots]
    BY ProcSizes, <2>1 DEF ProcInv, Types, Succ, Slots
  <2> QED
    BY <2>1, <2>2 DEF ProcInv, pvars, tvars, Types, CpusRight, LocksRight, ThreadsRight,
       ForksRight, InitRight, KidsRight, WakeupsRight
<1>2. CASE state[q] = "RUNNABLE"
  <2> USE <1>2 DEF ProcInv
  <2>0. q \in Slots
    BY DEF Types
  <2>1. /\ mode[c] = "scan" /\ owner[q] = None
        /\ state' = [state EXCEPT ![q] = "RUNNING"]
        /\ cproc' = [cproc EXCEPT ![c] = q]
        /\ owner' = [owner EXCEPT ![q] = c]
        /\ mode' = [mode EXCEPT ![c] = "in"]
        /\ UNCHANGED <<chan, killed, pid, parent, nextpid, next, pc, at, arg, panicked>>
    BY DEF Scan, tvars
  <2> HIDE DEF q
  <2> USE <2>0, <2>1
  <2>2. Types'
    BY DEF Types, States, Modes
  <2>3. CpusRight'
    <3>1. \A d \in CPUs : cproc[d] # q
      BY DEF Types, CpusRight, LocksRight, Modes
    <3>2. /\ cproc'[c] = q /\ mode'[c] = "in" /\ state'[q] = "RUNNING"
          /\ \A d \in CPUs \ {c} : cproc'[d] = cproc[d] /\ mode'[d] = mode[d]
          /\ \A r \in Slots \ {q} : state'[r] = state[r]
      BY ZenonT(20) DEF Types
    <3> QED
      BY <3>1, <3>2 DEF CpusRight
  <2>4. LocksRight'
    BY DEF Types, LocksRight
  <2>5. ThreadsRight' /\ ForksRight' /\ InitRight'
    BY DEF ThreadsRight, ForksRight, InitRight
  <2>6. KidsRight'
    BY DEF KidsRight
  <2>7. WakeupsRight'
    BY DEF WakeupsRight, LocksRight
  <2> QED
    BY <2>2, <2>3, <2>4, <2>5, <2>6, <2>7
<1> QED
  BY <1>1, <1>2, ZenonT(20)

LEMMA ResumeHolds == ASSUME ProcInv, NEW c \in CPUs, Resume(c) PROVE ProcInv'
<1> DEFINE p == cproc[c]
<1> USE DEF ProcInv
<1>0. p \in Slots /\ state[p] = "RUNNING" /\ pc[p] # "exited" /\ pc[p] \notin Holding
  BY DEF Resume, Types, CpusRight, ThreadsRight, LocksRight
<1> DEFINE l == CASE pc[p] = "asleep" -> "wait" [] pc[p] = "forkret" -> "user" [] OTHER -> pc[p]
<1>1. /\ mode[c] = "in"
      /\ mode' = [mode EXCEPT ![c] = "run"]
      /\ owner' = [owner EXCEPT ![p] = None]
      /\ chan' = IF pc[p] = "asleep" THEN [chan EXCEPT ![p] = 0] ELSE chan
      /\ pc' = [pc EXCEPT ![p] = l]
      /\ ~panicked'
      /\ UNCHANGED <<state, killed, pid, parent, nextpid, cproc, next, at, arg>>
  <2>1. pc' = [pc EXCEPT ![p] = l]
    BY ZenonT(40) DEF Resume
  <2> QED
    BY <1>0, ZenonT(40) DEF Resume
<1>2. /\ l \in Labels \ Holding
      /\ l \in {"wait", "user", pc[p]}
      /\ l \notin {"asleep", "forkret", "exited"}
  BY <1>0, ZenonT(40) DEF Types, Labels, Holding
<1> HIDE DEF p, l
<1> USE <1>0, <1>1, <1>2
<1>3. Types'
  <2>1. chan' \in [Slots -> Locks]
    BY ZenonT(20) DEF Types
  <2> QED
    BY DEF Types, Modes, Holding
<1>4. CpusRight'
  BY DEF CpusRight
<1>p. /\ pc'[p] = l /\ \A q \in Slots \ {p} : pc'[q] = pc[q] /\ chan'[q] = chan[q]
      /\ owner'[0] = owner[0] /\ mode'[c] = "run"
      /\ \A d \in CPUs \ {c} : mode'[d] = mode[d] /\ cproc[d] # p
      /\ owner'[p] = None /\ \A q \in Slots \ {p} : owner'[q] = owner[q]
  BY DEF Types, CpusRight, p
<1>5. LocksRight'
  <2>1. \A q \in Slots, d \in CPUs : owner'[q] = d <=> cproc[d] = q /\ mode'[d] \in {"in", "out"}
    BY <1>p DEF LocksRight, p
  <2>2. \A d \in CPUs : owner'[0] = d => mode'[d] = "run" /\ pc'[cproc[d]] \in Holding
    BY DEF LocksRight
  <2> QED
    BY <2>1 DEF LocksRight
<1>6. ThreadsRight'
  BY <1>p DEF ThreadsRight, p
<1>7. ForksRight' /\ InitRight'
  BY DEF ForksRight, InitRight, Forking, Exiting
<1>8. KidsRight'
  BY DEF KidsRight
<1>9. WakeupsRight'
  BY DEF WakeupsRight, LocksRight
<1> QED
  BY <1>3, <1>4, <1>5, <1>6, <1>7, <1>8, <1>9, ZenonT(20)

LEMMA SwitchedOutHolds == ASSUME ProcInv, NEW c \in CPUs, SwitchedOut(c) PROVE ProcInv'
<1> DEFINE p == cproc[c]
<1> USE DEF ProcInv
<1>0. p \in Slots /\ state[p] # "RUNNING" /\ owner[0] # c
  BY DEF SwitchedOut, Types, CpusRight, LocksRight
<1>1. /\ mode[c] = "out"
      /\ mode' = [mode EXCEPT ![c] = "scan"]
      /\ cproc' = [cproc EXCEPT ![c] = 0]
      /\ owner' = [owner EXCEPT ![p] = None]
      /\ next' = [next EXCEPT ![c] = Succ(p)]
      /\ UNCHANGED <<pvars, tvars, panicked>>
  BY ZenonT(20) DEF SwitchedOut
<1>2. Succ(p) \in Slots
  BY <1>0, ProcSizes DEF Slots, Succ
<1>3. /\ owner'[0] = owner[0] /\ cproc'[c] = 0 /\ mode'[c] = "scan"
      /\ \A d \in CPUs \ {c} : mode'[d] = mode[d] /\ cproc'[d] = cproc[d]
  BY <1>0, <1>1, ZenonT(20) DEF Types
<1> HIDE DEF p
<1> USE <1>0, <1>1, <1>3 DEF pvars, tvars
<1>4. Types'
  BY <1>2, ZenonT(20) DEF Types, Modes
<1>5. CpusRight'
  BY DEF CpusRight
<1>6. LocksRight'
  BY DEF Types, LocksRight, p
<1>7. ThreadsRight' /\ ForksRight' /\ InitRight'
  BY DEF ThreadsRight, ForksRight, InitRight
<1>8. KidsRight' /\ WakeupsRight'
  BY DEF KidsRight, WakeupsRight
<1> QED
  BY <1>4, <1>5, <1>6, <1>7, <1>8, ZenonT(20)

----------------------------------------------------------------------------
(* Steps of a process.                                                      *)

\* A step that only moves p between the labels at which it holds no lock.
LEMMA LocalHolds ==
    ASSUME ProcInv, NEW c \in CPUs, NEW p \in Slots, Runs(c, p), pc[p] \notin Holding,
           NEW l \in {"user", "ret", "exit", "allocproc", "wait", "kill", "panic"},
           Goto(p, l), l = "exit" => p # initproc,
           at' \in [Slots -> 1..NPROC + 1], at'[p] \in Slots,
           arg' \in [Slots -> Nat],
           \A r \in Slots \ {p} : at'[r] = at[r] /\ arg'[r] = arg[r],
           killed' \in [Slots -> BOOLEAN],
           UNCHANGED <<state, chan, pid, parent, nextpid, owner, cvars, panicked>>
    PROVE  ProcInv'
<1> USE DEF ProcInv, cvars
<1>1. /\ pc'[p] = l /\ \A q \in Slots \ {p} : pc'[q] = pc[q]
      /\ mode[c] = "run" /\ cproc[c] = p /\ state[p] = "RUNNING"
  BY ZenonT(20) DEF Types, Goto, Runs, CpusRight
<1>2. Types'
  <2>1. pc' \in [Slots -> Labels]
    BY DEF Types, Goto, Labels, Exiting
  <2> QED
    BY <1>1, <2>1, ZenonT(20) DEF Types
<1>3. CpusRight' /\ LocksRight'
  BY <1>1 DEF Types, CpusRight, LocksRight, Holding
<1>4. ThreadsRight'
  BY <1>1 DEF Types, ThreadsRight, CpusRight
<1>5. ForksRight' /\ InitRight'
  BY <1>1 DEF ForksRight, InitRight, Forking, Exiting
<1>6. KidsRight'
  BY <1>1 DEF KidsRight
<1>7. WakeupsRight'
  <2>1. owner[0] \in CPUs => cproc[owner[0]] \in Slots /\ cproc[owner[0]] # p
    BY DEF Types, LocksRight, CpusRight
  <2> QED
    BY <1>1, <2>1 DEF WakeupsRight
<1> QED
  BY <1>2, <1>3, <1>4, <1>5, <1>6, <1>7, ZenonT(20)

\* A process that gives up the CPU holds no lock but its own, taken here.
LEMMA YieldHolds ==
    ASSUME ProcInv, NEW c \in CPUs, NEW p \in Slots, Runs(c, p), owner[0] # c, yield(c, p)
    PROVE  ProcInv'
<1> USE DEF ProcInv
<1>1. /\ mode[c] = "run" /\ cproc[c] = p /\ state[p] = "RUNNING"
      /\ \A q \in Slots : owner[q] # c
  BY DEF Runs, CpusRight, LocksRight
<1>2. /\ owner' = [owner EXCEPT ![p] = c] /\ state' = [state EXCEPT ![p] = "RUNNABLE"]
      /\ mode' = [mode EXCEPT ![c] = "out"]
      /\ UNCHANGED <<chan, killed, pid, parent, nextpid, cproc, next, pc, at, arg>>
  BY ZenonT(20) DEF yield, sched, tvars
<1>3. ~panicked'
  <2>1. {l \in Locks : owner'[l] = c} = {p}
    BY <1>1, <1>2, ZenonT(20) DEF Types
  <2> QED
    BY <2>1, ZenonT(20) DEF Types, yield, sched
<1>4. /\ owner'[0] = owner[0] /\ owner'[p] = c /\ state'[p] = "RUNNABLE" /\ mode'[c] = "out"
      /\ \A q \in Slots \ {p} : owner'[q] = owner[q] /\ state'[q] = state[q]
      /\ \A d \in CPUs \ {c} : mode'[d] = mode[d] /\ cproc[d] # p
  BY <1>1, <1>2, ZenonT(20) DEF Types, CpusRight
<1> USE <1>1, <1>2, <1>4
<1>5. Types'
  BY ZenonT(20) DEF Types, States, Modes
<1>6. CpusRight'
  BY DEF CpusRight
<1>7. LocksRight'
  BY DEF LocksRight
<1>8. ThreadsRight'
  BY DEF ThreadsRight
<1>9. ForksRight' /\ InitRight'
  BY DEF ForksRight, InitRight
<1>10. KidsRight' /\ WakeupsRight'
  BY DEF KidsRight, WakeupsRight
<1> QED
  BY <1>3, <1>5, <1>6, <1>7, <1>8, <1>9, <1>10, ZenonT(20)

\* What the guard of a step says of p, its CPU and the lock that it takes.
LEMMA AtLabel ==
    ASSUME NEW c \in CPUs, NEW p \in Slots, NEW l, At(c, p, l), ProcInv
    PROVE  /\ Runs(c, p) /\ mode[c] = "run" /\ cproc[c] = p /\ pc[p] = l /\ state[p] = "RUNNING"
           /\ l \in Holding => owner[0] = c
           /\ l \notin Holding => owner[0] # c
           /\ \A q \in Slots : owner[q] # c
           /\ \A d \in CPUs : d # c => cproc[d] # p
<1>1. /\ Runs(c, p) /\ mode[c] = "run" /\ cproc[c] = p /\ pc[p] = l /\ state[p] = "RUNNING"
      /\ \A q \in Slots : owner[q] # c
      /\ \A d \in CPUs : d # c => cproc[d] # p
  BY DEF At, Runs, ProcInv, CpusRight, LocksRight
<1>2. /\ l \in Holding => owner[0] = c
      /\ l \notin Holding => owner[0] # c
  BY <1>1, ZenonT(20) DEF ProcInv, LocksRight
<1> QED
  BY <1>1, <1>2, ZenonT(20)

\* The locks that a step takes are free before it.
LEMMA AtNeeds ==
    ASSUME NEW c \in CPUs, NEW p \in Slots, NEW l, At(c, p, l)
    PROVE  /\ l \in {"fork_parent", "exit", "wait"} => owner[0] = None
           /\ l = "kill" => owner[at[p]] = None
           /\ l \in {"wake_init", "wake_parent"} => at[p] = p \/ owner[at[p]] = None
           /\ l = "wait_scan" => \A q \in First(Kids(p)) : owner[q] = None
<1>1. pc[p] = l /\ \A k \in Needs(p) : owner[k] = None
  BY ZenonT(20) DEF At
<1>2. CASE l \in {"fork_parent", "exit", "wait"}
  BY <1>1, <1>2, ZenonT(20) DEF Needs
<1>3. CASE l = "kill"
  BY <1>1, <1>3, ZenonT(20) DEF Needs
<1>4. CASE l \in {"wake_init", "wake_parent"}
  BY <1>1, <1>4, ZenonT(20) DEF Needs
<1>5. CASE l = "wait_scan"
  BY <1>1, <1>5, ZenonT(20) DEF Needs, First
<1> QED
  BY <1>2, <1>3, <1>4, <1>5, ZenonT(20)

\* System calls, traps and the return to user space.
LEMMA TrapHolds ==
    ASSUME ProcInv, NEW c \in CPUs, NEW p \in Slots,
           UserStep(c, p) \/ Return(c, p) \/ Timer(c, p) \/ Spin(c, p)
    PROVE  ProcInv'
<1> USE DEF Holding
<1>k. exit(p) \in {"exit", "panic"} /\ (exit(p) = "exit" => p # initproc)
  BY DEF exit
<1>t. killed \in [Slots -> BOOLEAN] /\ at \in [Slots -> 1..NPROC + 1] /\ arg \in [Slots -> Nat]
  BY ZenonT(20) DEF ProcInv, Types
<1>a. pc[p] # "wait_scan" => at[p] \in Slots
  BY DEF ProcInv, Types
<1> USE <1>k, <1>t, <1>a
<1>1. ASSUME At(c, p, "user"), NEW l \in {"allocproc", "wait", "kill"}, NEW a \in Nat,
             Syscall(p, l, a)
      PROVE  ProcInv'
  <2> DEFINE m == IF killed[p] THEN exit(p) ELSE l
  <2>1. Runs(c, p) /\ pc[p] = "user"
    BY <1>1, AtLabel
  <2>2. /\ Goto(p, m) /\ m \in {"exit", "panic", "allocproc", "wait", "kill"}
        /\ m = "exit" => p # initproc
        /\ arg' = [arg EXCEPT ![p] = IF killed[p] THEN 0 ELSE a]
        /\ UNCHANGED <<pvars, owner, cvars, at, panicked>>
    BY <1>1, ZenonT(20) DEF Syscall
  <2>3. arg' \in [Slots -> Nat]
    BY <1>1, <2>2, ZenonT(20)
  <2>4. \A r \in Slots \ {p} : at'[r] = at[r] /\ arg'[r] = arg[r]
    BY <2>2, ZenonT(20)
  <2> HIDE DEF m
  <2> QED
    BY <2>1, <2>2, <2>3, LocalHolds DEF pvars
<1>2. CASE SysFork(c, p)
  BY <1>1, <1>2, ZenonT(20) DEF SysFork
<1>3. CASE SysWait(c, p)
  BY <1>1, <1>3, ZenonT(20) DEF SysWait
<1>4. CASE SysKill(c, p)
  BY <1>1, <1>4, ProcSizes, ZenonT(20) DEF SysKill
<1>5. CASE SysExit(c, p)
  <2>1. killed' \in [Slots -> BOOLEAN]
    <3>1. killed' = killed \/ killed' = [killed EXCEPT ![p] = TRUE]
      BY <1>5, ZenonT(20) DEF SysExit
    <3> QED
      BY <3>1, ZenonT(40)
  <2> QED
    BY <1>5, <2>1, AtLabel, LocalHolds DEF SysExit
<1>6. CASE Return(c, p)
  <2>1. Goto(p, exit(p)) \/ Goto(p, "user")
    BY <1>6, ZenonT(20) DEF Return
  <2> QED
    BY <1>6, AtLabel, LocalHolds DEF Return, pvars
<1>7. CASE UserTimer(c, p)
  <2>1. CASE killed[p]
    BY <1>7, <2>1, AtLabel, LocalHolds DEF UserTimer, pvars
  <2>2. CASE ~killed[p]
    <3>1. At(c, p, "user") /\ yield(c, p) /\ "user" \notin Holding
      BY <1>7, <2>2, ZenonT(20) DEF UserTimer, Holding
    <3>2. Runs(c, p) /\ owner[0] # c
      BY <3>1, AtLabel, ZenonT(20)
    <3> QED
      BY <3>1, <3>2, YieldHolds, ZenonT(20)
  <2> QED
    BY <2>1, <2>2, ZenonT(20)
<1>8. CASE KernelTimer(c, p)
  BY <1>8, YieldHolds, ZenonT(20) DEF KernelTimer
<1>9. CASE Spin(c, p)
  BY <1>9, StutterHolds, ZenonT(20) DEF Spin
<1> QED
  BY <1>2, <1>3, <1>4, <1>5, <1>6, <1>7, <1>8, <1>9, ZenonT(20) DEF UserStep, Timer

----------------------------------------------------------------------------
(* exit, up to giving its children away.                                   *)

LEMMA ExitHolds ==
    ASSUME ProcInv, NEW c \in CPUs, NEW p \in Slots, Exit(c, p)
    PROVE  ProcInv'
<1> USE DEF ProcInv
<1>0. /\ mode[c] = "run" /\ cproc[c] = p /\ pc[p] = "exit" /\ state[p] = "RUNNING"
      /\ \A d \in CPUs : d # c => cproc[d] # p
      /\ owner[0] = None
  BY AtLabel, AtNeeds DEF Exit
<1>1. p # initproc /\ \A r \in Slots : pc[r] \notin Holding
  BY <1>0, ZenonT(20) DEF InitRight, Exiting, LocksRight
<1>2. /\ owner' = [owner EXCEPT ![0] = c] /\ pc' = [pc EXCEPT ![p] = "reparent"] /\ ~panicked'
      /\ UNCHANGED <<pvars, cvars, at, arg>>
  BY <1>1, ZenonT(40) DEF Exit, Goto
<1>3. /\ owner'[0] = c /\ \A q \in Slots : owner'[q] = owner[q]
      /\ pc'[p] = "reparent" /\ \A r \in Slots \ {p} : pc'[r] = pc[r]
  BY <1>2, ZenonT(20) DEF Types
<1> USE <1>0, <1>1, <1>2, <1>3 DEF pvars, cvars
<1>4. Types'
  BY ZenonT(20) DEF Types, Labels, Holding
<1>5. CpusRight' /\ LocksRight'
  BY DEF CpusRight, LocksRight, Holding
<1>6. ThreadsRight'
  BY DEF ThreadsRight
<1>7. ForksRight' /\ InitRight'
  BY DEF ForksRight, InitRight, Forking
<1>8. KidsRight' /\ WakeupsRight'
  BY DEF KidsRight, WakeupsRight
<1> QED
  BY <1>4, <1>5, <1>6, <1>7, <1>8, ZenonT(20)

LEMMA ReparentHolds ==
    ASSUME ProcInv, NEW c \in CPUs, NEW p \in Slots, Reparent(c, p)
    PROVE  ProcInv'
<1> DEFINE mine == {q \in Slots : parent[q] = p}
<1> USE DEF ProcInv
<1>0. /\ mode[c] = "run" /\ cproc[c] = p /\ pc[p] = "reparent" /\ state[p] = "RUNNING"
      /\ \A d \in CPUs : d # c => cproc[d] # p
      /\ owner[0] = c
  BY AtLabel DEF Reparent, Holding
<1>1. p # initproc /\ \A r \in Slots \ {p} : pc[r] \notin Holding
  BY <1>0, ZenonT(20) DEF InitRight, Exiting, LocksRight
<1>2. UNCHANGED <<state, chan, killed, pid, nextpid, owner, cproc, mode, next, arg, panicked>>
  BY ZenonT(20) DEF Reparent, cvars
<1>3. ASSUME NEW l \in {"wake_parent", "wake_init"}, GotoAt(p, l, 1)
      PROVE  /\ pc'[p] = l /\ at'[p] = 1
             /\ \A r \in Slots \ {p} : pc'[r] = pc[r] /\ at'[r] = at[r]
             /\ pc' \in [Slots -> Labels] /\ at' \in [Slots -> 1..NPROC + 1]
             /\ CpusRight' /\ LocksRight' /\ ThreadsRight'
  <2>1. 1 \in 1..NPROC + 1
    BY SlotNext, ZenonT(20)
  <2>2. /\ pc'[p] = l /\ at'[p] = 1
        /\ \A r \in Slots \ {p} : pc'[r] = pc[r] /\ at'[r] = at[r]
        /\ pc' \in [Slots -> Labels] /\ at' \in [Slots -> 1..NPROC + 1]
    BY <1>3, <2>1, ZenonT(20) DEF GotoAt, Goto, Types, Labels, Holding
  <2>3. CpusRight' /\ LocksRight'
    BY <1>0, <1>2, <2>2 DEF CpusRight, LocksRight, Holding
  <2>4. ThreadsRight'
    BY <1>0, <1>2, <2>2 DEF Types, CpusRight, ThreadsRight
  <2> QED
    BY <2>2, <2>3, <2>4, ZenonT(20)
<1>4. parent[p] < 1 => parent[p] = 0
  <2>1. parent[p] \in Locks
    BY ZenonT(20) DEF Types
  <2> QED
    BY <2>1 DEF Locks
<1>5. CASE mine = {}
  <2>1. UNCHANGED parent /\ GotoAt(p, "wake_parent", 1)
    BY <1>5, ZenonT(20) DEF Reparent
  <2>2. /\ pc'[p] = "wake_parent" /\ at'[p] = 1
        /\ \A r \in Slots \ {p} : pc'[r] = pc[r] /\ at'[r] = at[r]
        /\ pc' \in [Slots -> Labels] /\ at' \in [Slots -> 1..NPROC + 1]
        /\ CpusRight' /\ LocksRight' /\ ThreadsRight'
    BY <1>3, <2>1, ZenonT(20)
  <2>3. Types'
    BY <1>2, <2>1, <2>2, ZenonT(20) DEF Types
  <2>4. ForksRight' /\ InitRight'
    BY <1>0, <1>1, <1>2, <2>1, <2>2 DEF ForksRight, InitRight, Forking
  <2>5. KidsRight'
    BY <1>0, <1>2, <1>5, <2>1, <2>2 DEF KidsRight
  <2>6. WakeupsRight'
    BY <1>0, <1>1, <1>2, <1>4, <2>1, <2>2 DEF WakeupsRight
  <2> QED
    BY <1>2, <2>2, <2>3, <2>4, <2>5, <2>6, ZenonT(20)
<1>6. CASE mine # {}
  <2>0. PICK q \in First(mine) : parent' = [parent EXCEPT ![q] = initproc]
    BY <1>6, ZenonT(20) DEF Reparent
  <2>1. q \in Slots /\ parent[q] = p
    BY ZenonT(20) DEF First
  <2>2. GotoAt(p, "wake_init", 1)
    BY <1>6 DEF Reparent
  <2>3. /\ pc'[p] = "wake_init" /\ at'[p] = 1
        /\ \A r \in Slots \ {p} : pc'[r] = pc[r] /\ at'[r] = at[r]
        /\ pc' \in [Slots -> Labels] /\ at' \in [Slots -> 1..NPROC + 1]
        /\ CpusRight' /\ LocksRight' /\ ThreadsRight'
    BY <1>3, <2>2, ZenonT(20)
  <2>4. /\ parent'[q] = 1 /\ \A r \in Slots \ {q} : parent'[r] = parent[r]
        /\ parent' \in [Slots -> Locks]
    BY <2>0, <2>1, ZenonT(20) DEF Types
  <2>5. Types'
    BY <1>2, <2>3, <2>4, ZenonT(20) DEF Types
  <2>9. state[1] \notin {"UNUSED", "USED", "ZOMBIE"} /\ pc[1] \notin {"wake_parent", "zombie"}
    BY ZenonT(20) DEF InitRight, ThreadsRight, Exiting
  <2>6. ForksRight' /\ InitRight'
    BY <1>0, <1>1, <1>2, <2>1, <2>3, <2>4 DEF ForksRight, InitRight, Forking
  <2>7. KidsRight'
    <3>1. \A r \in Slots : parent'[r] # 0 =>
            state'[r] # "UNUSED" /\ state'[parent'[r]] \notin {"UNUSED", "USED", "ZOMBIE"}
      BY <1>2, <2>1, <2>4, <2>9 DEF KidsRight
    <3>2. \A s \in Slots : pc'[s] \in {"wake_parent", "zombie"} => \A r \in Slots : parent'[r] # s
      BY <1>0, <2>1, <2>3, <2>4, <2>9 DEF KidsRight
    <3>3. \A s \in Slots : state'[s] = "SLEEPING" \/ pc'[s] = "wait_sleep" =>
            \E r \in Slots : parent'[r] = s
      BY <1>0, <1>2, <2>1, <2>3, <2>4 DEF KidsRight
    <3> QED
      BY <3>1, <3>2, <3>3, ZenonT(20) DEF KidsRight
  <2>8. WakeupsRight'
    BY <1>0, <1>1, <1>2, <2>1, <2>3, <2>4 DEF WakeupsRight, Holding
  <2> QED
    BY <1>2, <2>3, <2>5, <2>6, <2>7, <2>8, ZenonT(20)
<1> QED
  BY <1>5, <1>6, ZenonT(20)

=============================================================================
