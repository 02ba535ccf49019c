------------------------------- MODULE Clock --------------------------------
(***************************************************************************)
(* The clock: ticks and clockintr of kernel/trap.c, sys_sleep and          *)
(* sys_uptime of kernel/sysproc.c.  ticks is unsigned and wraps at WIDTH   *)
(* (2^32 in the code); n is an int, so at most half of it.                 *)
(***************************************************************************)
EXTENDS Integers
CONSTANTS Sleepers, WIDTH,
          MaxLag,   \* the scheduler runs a process that can run within MaxLag ticks
          MaxNeg    \* bound: the largest -n

\* What the constants have to satisfy.
ClockSizes == WIDTH \in Nat /\ WIDTH % 2 = 0 /\ MaxLag \in 1..WIDTH \div 2 /\ MaxNeg \in Nat

VARIABLES ticks, pc, n, ticks0, killed,
          slept, lag    \* process -> ticks since its call, since it could run (history)
vars == <<ticks, pc, n, ticks0, killed, slept, lag>>

Init == /\ ticks = 0 /\ killed = {}
        /\ pc = [p \in Sleepers |-> "idle"] /\ n = [p \in Sleepers |-> 0] /\ ticks0 = [p \in Sleepers |-> 0]
        /\ slept = [p \in Sleepers |-> 0] /\ lag = [p \in Sleepers |-> 0]

\* wakeup(&ticks).
Wakeup == pc' = [p \in Sleepers |-> IF pc[p] = "sleep" THEN "test" ELSE pc[p]]

Saturate(x) == IF x > WIDTH THEN WIDTH ELSE x     \* bounds the history variable

\* clockintr on hart 0; the guard is the assumption on the scheduler.
Clockintr ==
    /\ \A p \in Sleepers : lag[p] < MaxLag
    /\ ticks' = (ticks + 1) % WIDTH
    /\ Wakeup
    /\ slept' = [p \in Sleepers |-> IF pc[p] \in {"test", "sleep"} THEN Saturate(slept[p] + 1) ELSE slept[p]]
    /\ lag' = [p \in Sleepers |-> IF pc[p] = "test" THEN lag[p] + 1 ELSE 0]
    /\ UNCHANGED <<n, ticks0, killed>>

\* sys_sleep(k): a negative k counts as 0.
Sys_sleep(p, k) ==
    /\ pc[p] = "idle"
    /\ n' = [n EXCEPT ![p] = IF k < 0 THEN 0 ELSE k]
    /\ ticks0' = [ticks0 EXCEPT ![p] = ticks]
    /\ pc' = [pc EXCEPT ![p] = "test"]
    /\ slept' = [slept EXCEPT ![p] = 0]
    /\ UNCHANGED <<ticks, killed, lag>>

\* Mutant: the deadline is compared, not the difference.
Deadline(p) == ticks < (ticks0[p] + n[p]) % WIDTH
Early(p) == (ticks - ticks0[p]) % WIDTH < n[p]

\* Its loop: return 0, return -1, or sleep.
Test(p) ==
    /\ pc[p] = "test"
    /\ pc' = [pc EXCEPT ![p] = IF Early(p) /\ p \notin killed THEN "to_sleep" ELSE IF Early(p) THEN "failed" ELSE "slept"]
    /\ lag' = [lag EXCEPT ![p] = 0]
    /\ UNCHANGED <<ticks, n, ticks0, killed, slept>>
\* sleep; tickslock is held since the test, so no tick comes in between.
Sleep(p) == pc[p] = "to_sleep" /\ pc' = [pc EXCEPT ![p] = "sleep"] /\ UNCHANGED <<ticks, n, ticks0, killed, slept, lag>>
Return(p) == /\ pc[p] \in {"slept", "failed"} /\ pc' = [pc EXCEPT ![p] = "idle"]
             /\ n' = [n EXCEPT ![p] = 0] /\ ticks0' = [ticks0 EXCEPT ![p] = 0] /\ slept' = [slept EXCEPT ![p] = 0]
             /\ UNCHANGED <<ticks, killed, lag>>
Kill(p) == /\ killed' = killed \cup {p}
           /\ pc' = [pc EXCEPT ![p] = IF @ = "sleep" THEN "test" ELSE @]
           /\ UNCHANGED <<ticks, n, ticks0, slept, lag>>

NoneToSleep == \A p \in Sleepers : pc[p] # "to_sleep"
Next == \/ NoneToSleep /\ Clockintr
        \/ \E p \in Sleepers : Kill(p) \/ Sleep(p) \/ Return(p) \/ (NoneToSleep /\ Test(p))
        \/ \E p \in Sleepers, k \in -MaxNeg..WIDTH \div 2 - 1 : NoneToSleep /\ Sys_sleep(p, k)
Spec == Init /\ [][Next]_vars

-----------------------------------------------------------------------------

\* sleep(n) returns 0 not before n ticks have passed, and it does not wait
\* longer than the scheduler allows, also when ticks wraps during the sleep.
SleepsRight == \A p \in Sleepers :
    /\ pc[p] = "slept" => slept[p] >= n[p]
    /\ pc[p] \in {"test", "sleep", "slept"} => slept[p] <= n[p] + MaxLag
=============================================================================
