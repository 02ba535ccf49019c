-------------------------------- MODULE Trap --------------------------------
(***************************************************************************)
(* Traps, spin-locks and the switching of kernel threads, as they share    *)
(* the interrupt state of a hart: kernel/trap.c, kernel/spinlock.c, the    *)
(* scheduler, sched, yield, sleep and forkret of kernel/proc.c, and what   *)
(* kernelvec.S, trampoline.S and swtch.S do to the registers modelled.     *)
(*                                                                         *)
(* A thread is the sequence of the operations it has still to do.  A trap  *)
(* puts that sequence in sepc and sret continues with what sepc holds, so  *)
(* a clobbered register sends the thread to the wrong place.  Processes    *)
(* alternate between an instruction and a system call that waits for the   *)
(* clock as sys_sleep does.  They are not killed (Proc has kill and exit)  *)
(* and do not fault; all interrupts are the timer's.                       *)
(***************************************************************************)
EXTENDS Integers, Sequences, FiniteSets, SequencesExt

CONSTANTS Harts, Procs,   \* hart 0 counts the ticks
          Tick,           \* tickslock
          None
\* What the constants have to satisfy.
Numbers == Harts \subseteq Nat /\ 0 \in Harts /\ Procs \subseteq Nat /\ Harts \cap Procs = {}

Locks == {Tick} \cup Procs

VARIABLES
    reg,    \* hart -> its registers sie, spie, spp, sepc, stvec, and the thread it runs
    cpu,    \* hart -> noff and intena of its struct cpu
    lk,     \* lock -> locked, cpu
    code,   \* thread -> the operations it has still to do
    state,  \* process -> its state
    tf,     \* process -> epc and kernel_hartid of its trapframe
    want,   \* thread -> what the last trap from U and from S interrupted (history)
    sys,    \* the processes inside a system call (history)
    panic

vars == <<reg, cpu, lk, code, state, tf, want, sys, panic>>

User(n) == << <<"user", n>> >>
acquire(l) == << <<"acquire", l>> >>
release(l) == << <<"release", l>> >>
usertrapret == << <<"intr_off">>, <<"ret">>, <<"sret", "U">> >>
yield(p) == acquire(p) \o << <<"sched", "RUNNABLE">> >> \o release(p)
sleep(p, l) == acquire(p) \o release(l) \o << <<"sched", "SLEEPING">> >> \o release(p) \o acquire(l)
wakeup(p) == FlattenSeq([i \in 1..Cardinality(Procs \ {p}) |->
    LET q == SetToSortSeq(Procs \ {p}, <)[i] IN acquire(q) \o << <<"wake", q>> >> \o release(q)])
clockintr(h, p) == IF h = 0 THEN acquire(Tick) \o wakeup(p) \o release(Tick) ELSE <<>>
forkret(p) == release(p) \o usertrapret
sys_sleep(p) == acquire(Tick) \o sleep(p, Tick) \o release(Tick)
\* One round of the scheduler's loop over the process table.
Round == << <<"intr_on">> >> \o FlattenSeq([i \in 1..Cardinality(Procs) |->
    LET p == SetToSortSeq(Procs, <)[i] IN acquire(p) \o << <<"pick", p>> >> \o release(p)])

Init ==
    /\ reg = [h \in Harts |-> [sie |-> FALSE, spie |-> FALSE, spp |-> "S", sepc |-> <<>>,
                               stvec |-> "kernelvec", cur |-> h]]
    /\ cpu = [h \in Harts |-> [noff |-> 0, intena |-> FALSE]]
    /\ lk = [l \in Locks |-> [locked |-> FALSE, cpu |-> None]]
    /\ code = [t \in Harts \cup Procs |-> IF t \in Harts THEN Round ELSE forkret(t)]
    /\ state = [p \in Procs |-> "RUNNABLE"]
    /\ tf = [p \in Procs |-> [epc |-> User(0), hart |-> None]]
    /\ want = [t \in Harts \cup Procs |-> [U |-> User(0), S |-> None]]
    /\ sys = {} /\ panic = None

Cur(h) == reg[h].cur
Op(h) == Head(code[Cur(h)])
holding(h, l) == lk[l].locked /\ lk[l].cpu = h
\* The current thread of h goes on with the operations ops.
Goes(h, ops) == code' = [code EXCEPT ![Cur(h)] = ops]
Then(h) == Tail(code[Cur(h)])
Panics(c, what) == panic' = IF c THEN what ELSE panic

\* acquire and push_off, up to intr_get.
Acquire(h) ==
    /\ Op(h)[1] = "acquire"
    /\ Goes(h, << <<"push_off", Op(h)[2], reg[h].sie>> >> \o Then(h))
    /\ UNCHANGED <<reg, cpu, lk, state, tf, want, sys, panic>>

Pushed(h, old) == [noff |-> cpu[h].noff + 1, intena |-> IF cpu[h].noff = 0 THEN old ELSE cpu[h].intena]

\* The rest of push_off, and the holding test.
Push_off(h) ==
    /\ Op(h)[1] = "push_off"
    /\ reg' = [reg EXCEPT ![h].sie = FALSE]
    /\ cpu' = [cpu EXCEPT ![h] = Pushed(h, Op(h)[3])]
    /\ Panics(holding(h, Op(h)[2]), "acquire")
    /\ Goes(h, << <<"swap", Op(h)[2]>> >> \o Then(h))
    /\ UNCHANGED <<lk, state, tf, want, sys>>

\* The atomic swap that takes the lock, and then lk->cpu.
Swap(h) ==
    /\ Op(h)[1] = "swap" /\ ~lk[Op(h)[2]].locked
    /\ lk' = [lk EXCEPT ![Op(h)[2]].locked = TRUE]
    /\ Goes(h, << <<"mark", Op(h)[2]>> >> \o Then(h))
    /\ UNCHANGED <<reg, cpu, state, tf, want, sys, panic>>
Mark(h) ==
    /\ Op(h)[1] = "mark"
    /\ lk' = [lk EXCEPT ![Op(h)[2]].cpu = h]
    /\ Goes(h, Then(h))
    /\ UNCHANGED <<reg, cpu, state, tf, want, sys, panic>>

\* The two writes of release.
Released(h, l, step) == IF step = 1 THEN [lk EXCEPT ![l].cpu = None] ELSE [lk EXCEPT ![l].locked = FALSE]

Release(h) ==
    /\ Op(h)[1] = "release"
    /\ Panics(~holding(h, Op(h)[2]), "release")
    /\ lk' = Released(h, Op(h)[2], 1)
    /\ Goes(h, << <<"unlock", Op(h)[2]>> >> \o Then(h))
    /\ UNCHANGED <<reg, cpu, state, tf, want, sys>>
\* The release of the lock and pop_off.
Unlock(h) ==
    /\ Op(h)[1] = "unlock"
    /\ lk' = Released(h, Op(h)[2], 2)
    /\ Panics(reg[h].sie \/ cpu[h].noff < 1, "pop_off")
    /\ cpu' = [cpu EXCEPT ![h].noff = @ - 1]
    /\ reg' = [reg EXCEPT ![h].sie = @ \/ (cpu[h].noff = 1 /\ cpu[h].intena)]
    /\ Goes(h, Then(h))
    /\ UNCHANGED <<state, tf, want, sys>>

\* scheduler: the start of its loop, and the look at a process it has locked.
Intr_on(h) ==
    /\ Op(h)[1] = "intr_on"
    /\ reg' = [reg EXCEPT ![h].sie = TRUE]
    /\ Goes(h, Then(h))
    /\ UNCHANGED <<cpu, lk, state, tf, want, sys, panic>>
Pick(h) ==
    /\ Op(h)[1] = "pick"
    /\ Goes(h, Then(h))
    /\ IF state[Op(h)[2]] = "RUNNABLE"
       THEN /\ state' = [state EXCEPT ![Op(h)[2]] = "RUNNING"]
            /\ reg' = [reg EXCEPT ![h].cur = Op(h)[2]]
       ELSE UNCHANGED <<state, reg>>
    /\ UNCHANGED <<cpu, lk, tf, want, sys, panic>>
Loop(h) ==
    /\ code[h] = <<>> /\ Cur(h) = h
    /\ code' = [code EXCEPT ![h] = Round]
    /\ UNCHANGED <<reg, cpu, lk, state, tf, want, sys, panic>>

\* sched, to the switch, and after it.
Sched(h) ==
    /\ Op(h)[1] = "sched"
    /\ LET p == Cur(h) IN
       /\ Panics(~holding(h, p) \/ cpu[h].noff # 1 \/ reg[h].sie, "sched")
       /\ state' = [state EXCEPT ![p] = Op(h)[2]]
       /\ Goes(h, << <<"intena", cpu[h].intena>> >> \o Then(h))
       /\ reg' = [reg EXCEPT ![h].cur = h]
    /\ UNCHANGED <<cpu, lk, tf, want, sys>>
SavedIntena(h) == Op(h)[2]
Swtched(h) ==
    /\ Op(h)[1] = "intena"
    /\ cpu' = [cpu EXCEPT ![h].intena = SavedIntena(h)]
    /\ Goes(h, Then(h))
    /\ UNCHANGED <<reg, lk, state, tf, want, sys, panic>>

\* wakeup, at a process it has locked.
Wake(h) ==
    /\ Op(h)[1] = "wake"
    /\ state' = [state EXCEPT ![Op(h)[2]] = IF @ = "SLEEPING" THEN "RUNNABLE" ELSE @]
    /\ Goes(h, Then(h))
    /\ UNCHANGED <<reg, cpu, lk, tf, want, sys, panic>>

\* The hardware takes a trap on h from mode m; ops is what sepc remembers.
TakeTrap(h, m, handler, ops) ==
    /\ Panics(reg[h].stvec # IF m = "U" THEN "uservec" ELSE "kernelvec", "stvec")
    /\ reg' = [reg EXCEPT ![h] = [@ EXCEPT !.sie = FALSE, !.spie = reg[h].sie, !.spp = m, !.sepc = code[Cur(h)]]]
    /\ Goes(h, << handler >>)
    /\ want' = [want EXCEPT ![Cur(h)][m] = ops]
    /\ UNCHANGED <<cpu, lk, state, tf, sys>>

\* A user program: an instruction, or a system call.
Instruction(h) ==
    /\ Op(h) = <<"user", 1>>
    /\ Goes(h, User(0))
    /\ UNCHANGED <<reg, cpu, lk, state, tf, want, sys, panic>>
Ecall(h) == Op(h) = <<"user", 0>> /\ TakeTrap(h, "U", <<"usertrap", TRUE>>, User(1))

\* A timer interrupt, from user mode and from the kernel.
UserInterrupt(h) == Op(h)[1] = "user" /\ TakeTrap(h, "U", <<"usertrap", FALSE>>, code[Cur(h)])
KernelInterrupt(h) ==
    /\ code[Cur(h)] # <<>> /\ Op(h)[1] # "user" /\ reg[h].sie
    /\ TakeTrap(h, "S", <<"kerneltrap">>, code[Cur(h)])

\* uservec and usertrap; uservec takes the hart's number from the trapframe.
Usertrap(h) ==
    /\ Op(h)[1] = "usertrap"
    /\ LET p == Cur(h) IN
       /\ Panics(reg[h].spp # "U" \/ tf[p].hart # h, "usertrap")
       /\ tf' = [tf EXCEPT ![p].epc = IF Op(h)[2] THEN User(1) ELSE reg[h].sepc]
       /\ reg' = [reg EXCEPT ![h].stvec = "kernelvec", ![h].sie = Op(h)[2]]
       /\ sys' = IF Op(h)[2] THEN sys \cup {p} ELSE sys
       /\ Goes(h, (IF Op(h)[2] THEN sys_sleep(p) ELSE clockintr(h, p) \o yield(p)) \o usertrapret)
    /\ UNCHANGED <<cpu, lk, state, want>>

TurnOff(h) == reg' = [reg EXCEPT ![h].sie = FALSE]
\* usertrapret: interrupts off; then stvec, the trapframe, sstatus and sepc.
Intr_off(h) ==
    /\ Op(h)[1] = "intr_off"
    /\ TurnOff(h)
    /\ sys' = sys \ {Cur(h)}
    /\ Goes(h, Then(h))
    /\ UNCHANGED <<cpu, lk, state, tf, want, panic>>
Ret(h) ==
    /\ Op(h)[1] = "ret"
    /\ reg' = [reg EXCEPT ![h] = [@ EXCEPT !.stvec = "uservec", !.spp = "U", !.spie = TRUE, !.sepc = tf[Cur(h)].epc]]
    /\ tf' = [tf EXCEPT ![Cur(h)].hart = h]
    /\ Goes(h, Then(h))
    /\ UNCHANGED <<cpu, lk, state, want, sys, panic>>

\* kerneltrap: it remembers the trap registers across devintr and yield.
Kerneltrap(h) ==
    /\ Op(h)[1] = "kerneltrap"
    /\ Panics(reg[h].spp # "S" \/ reg[h].sie, "kerneltrap")
    /\ Goes(h, (IF Cur(h) \in Procs THEN clockintr(h, Cur(h)) \o yield(Cur(h)) ELSE clockintr(h, None))
               \o << <<"restore", reg[h].sepc, reg[h].spp, reg[h].spie>>, <<"sret", "S">> >>)
    /\ UNCHANGED <<reg, cpu, lk, state, tf, want, sys>>
\* Mutant: sepc is not written back.
KeepSepc(h) == reg[h].sepc
SavedSepc(h) == Op(h)[2]
Restore(h) ==
    /\ Op(h)[1] = "restore"
    /\ reg' = [reg EXCEPT ![h] = [@ EXCEPT !.sepc = SavedSepc(h), !.spp = Op(h)[3], !.spie = Op(h)[4], !.sie = FALSE]]
    /\ Goes(h, Then(h))
    /\ UNCHANGED <<cpu, lk, state, tf, want, sys, panic>>

\* The sret of kernelvec and userret.
Sret(h) ==
    /\ Op(h)[1] = "sret"
    /\ Goes(h, reg[h].sepc)
    /\ reg' = [reg EXCEPT ![h] = [@ EXCEPT !.sie = reg[h].spie, !.spie = TRUE, !.spp = "U"]]
    /\ want' = IF Op(h)[2] = "S" THEN [want EXCEPT ![Cur(h)].S = None] ELSE want
    /\ UNCHANGED <<cpu, lk, state, tf, sys, panic>>

Step(h) ==
    \/ Loop(h)
    \/ /\ code[Cur(h)] # <<>>
       /\ \/ Acquire(h) \/ Push_off(h) \/ Swap(h) \/ Mark(h) \/ Release(h) \/ Unlock(h)
          \/ Intr_on(h) \/ Pick(h) \/ Sched(h) \/ Swtched(h) \/ Wake(h)
          \/ Instruction(h) \/ Ecall(h) \/ UserInterrupt(h) \/ KernelInterrupt(h)
          \/ Usertrap(h) \/ Intr_off(h) \/ Ret(h) \/ Kerneltrap(h) \/ Restore(h) \/ Sret(h)
Next == panic = None /\ \E h \in Harts : Step(h)
Spec == Init /\ [][Next]_vars

-----------------------------------------------------------------------------

\* No panic of acquire, release, pop_off, sched, usertrap or kerneltrap, no
\* trap through the wrong vector and no stale hart number in a trapframe: a
\* handler never asks for a lock its own hart holds, and locks, interrupt
\* state and threads move between harts together.
NoPanic == panic = None

\* An sret continues exactly what the trap interrupted, in its mode and with
\* interrupts on, although other threads trapped on the hart in between and
\* the thread may have moved to another hart.
SretRight == \A h \in Harts : \A m \in {"U", "S"} : code[Cur(h)] # <<>> /\ Op(h) = <<"sret", m>> =>
    reg[h].sepc = want[Cur(h)][m] /\ reg[h].spp = m /\ reg[h].spie

\* A system call that holds no lock and is not interrupted runs with
\* interrupts on, however often it slept and on whichever hart it woke up:
\* intena follows the thread.
InterruptsRestored == \A h \in Harts :
    Cur(h) \in sys /\ want[Cur(h)].S = None /\ cpu[h].noff = 0 => reg[h].sie

\* Where interrupts can be taken the trap vector is the one of the mode.
VectorMatchesMode == \A h \in Harts :
    LET u == code[Cur(h)] # <<>> /\ Op(h)[1] = "user" IN
    u \/ reg[h].sie => reg[h].stvec = IF u THEN "uservec" ELSE "kernelvec"

=============================================================================
