----------------------------- MODULE ClockProofs -----------------------------
(***************************************************************************)
(* The result about sys_sleep and clockintr: a sleep of n ticks lasts at   *)
(* least n, and no longer than the scheduler makes it, for every number    *)
(* of processes and every width of the counter ticks.                      *)
(***************************************************************************)
EXTENDS Clock, TLAPS

-----------------------------------------------------------------------------
(* Remainders.                                                             *)

\* Between 0 and P, and one multiple of P below and above, the remainder is
\* what the subtraction of that multiple leaves.
LEMMA Wrap ==
    ASSUME NEW P \in Nat \ {0}, NEW x \in Int
    PROVE  /\ 0 <= x /\ x < P => x % P = x
           /\ -P <= x /\ x < 0 => x % P = x + P
           /\ x = P => x % P = 0
<1>1. x = P * (x \div P) + (x % P) /\ x \div P \in Int /\ x % P \in 0..P - 1
  OBVIOUS
<1> DEFINE q == x \div P
<1>2. q \in Int /\ P * q \in Int
  BY <1>1
<1> HIDE DEF q
<1>3. x = P * q + (x % P)
  BY <1>1 DEF q
<1>4. /\ q >= 1 => P * q >= P
      /\ q >= 2 => P * q >= P + P
      /\ q <= -1 => P * q <= -P
      /\ q <= -2 => P * q <= -P - P
      /\ q = 0 => P * q = 0
      /\ q = 1 => P * q = P
      /\ q = -1 => P * q = -P
  BY <1>2
<1> QED BY <1>1, <1>2, <1>3, <1>4

-----------------------------------------------------------------------------
(* The invariant.  ticks0 is subtracted modulo WIDTH, which says how long  *)
(* the process has slept only if that is less than WIDTH: n is less than   *)
(* half of it, and the scheduler adds no more than the other half.         *)

Running == {"test", "to_sleep", "sleep"}

ClockType ==
    /\ ticks \in 0..WIDTH - 1 /\ ticks0 \in [Sleepers -> 0..WIDTH - 1]
    /\ pc \in [Sleepers -> Running \cup {"idle", "slept", "failed"}]
    /\ n \in [Sleepers -> 0..WIDTH \div 2 - 1]
    /\ slept \in [Sleepers -> Nat] /\ lag \in [Sleepers -> 0..MaxLag]

SleepInv(p) ==
    /\ pc[p] \in Running => (ticks - ticks0[p]) % WIDTH = slept[p]
    /\ pc[p] = "test" => slept[p] <= n[p] + lag[p]
    /\ pc[p] \in {"to_sleep", "sleep"} => slept[p] < n[p]
    /\ pc[p] = "slept" => n[p] <= slept[p] /\ slept[p] <= n[p] + MaxLag

ClockInv == ClockType /\ \A p \in Sleepers : SleepInv(p)

\* n is an int, so the two halves of WIDTH hold a sleep and its delay.
LEMMA Halves ==
    ASSUME ClockSizes
    PROVE  /\ WIDTH \in Nat \ {0} /\ MaxLag \in Nat /\ WIDTH \div 2 \in Nat
           /\ WIDTH \div 2 + WIDTH \div 2 = WIDTH /\ MaxLag <= WIDTH \div 2
BY DEF ClockSizes

LEMMA ClockStart == ASSUME ClockSizes, Init PROVE ClockInv
<1>1. ClockType
  BY Halves DEF Init, ClockType, ClockSizes
<1>2. ASSUME NEW p \in Sleepers PROVE SleepInv(p)
  BY DEF Init, SleepInv, Running
<1> QED BY <1>1, <1>2 DEF ClockInv

\* A tick is one more for the difference, as long as a turn is not complete.
LEMMA TickCounts ==
    ASSUME NEW P \in Nat \ {0}, NEW x \in 0..P - 1, NEW y \in 0..P - 1, ((x - y) % P) + 1 < P
    PROVE  (((x + 1) % P) - y) % P = ((x - y) % P) + 1
<1>1. (x + 1) % P = IF x + 1 = P THEN 0 ELSE x + 1
  BY Wrap
<1>2. (x - y) % P = IF x >= y THEN x - y ELSE x - y + P
  BY Wrap
<1>3. CASE x + 1 = P
  <2>1. 0 - y \in Int /\ (0 - y) % P = IF y = 0 THEN 0 ELSE P - y
    BY Wrap
  <2> QED BY <1>1, <1>2, <1>3, <2>1
<1>4. CASE x + 1 # P
  <2> DEFINE d == x + 1 - y
  <2>1. d \in Int /\ d < P /\ -P <= d
    BY <1>4
  <2>2. d % P = IF d >= 0 THEN d ELSE d + P
    <3> HIDE DEF d
    <3> QED BY Wrap, <2>1
  <2> QED BY <1>1, <1>2, <1>4, <2>2
<1> QED BY <1>3, <1>4

LEMMA ClockTick ==
    ASSUME ClockSizes, ClockInv, NoneToSleep, Clockintr
    PROVE  ClockInv'
<1>1. /\ WIDTH \in Nat \ {0} /\ MaxLag \in Nat /\ WIDTH \div 2 \in Nat
      /\ WIDTH \div 2 + WIDTH \div 2 = WIDTH /\ MaxLag <= WIDTH \div 2
  BY Halves
<1>2. ClockType /\ ticks \in Int /\ ticks' = (ticks + 1) % WIDTH
  BY DEF ClockInv, Clockintr, ClockType
<1>3. ticks' \in 0..WIDTH - 1
  BY <1>1, <1>2
<1>4. ASSUME NEW p \in Sleepers
      PROVE  /\ pc'[p] = IF pc[p] = "sleep" THEN "test" ELSE pc[p]
             /\ slept'[p] = IF pc[p] \in {"test", "sleep"} THEN Saturate(slept[p] + 1) ELSE slept[p]
             /\ lag'[p] = IF pc[p] = "test" THEN lag[p] + 1 ELSE 0
             /\ n'[p] = n[p] /\ ticks0'[p] = ticks0[p]
             /\ lag[p] < MaxLag /\ pc[p] # "to_sleep"
             /\ SleepInv(p)
  BY DEF Clockintr, Wakeup, NoneToSleep, ClockInv
<1>5. ASSUME NEW p \in Sleepers
      PROVE  /\ pc[p] \in Running \cup {"idle", "slept", "failed"} /\ n[p] \in 0..WIDTH \div 2 - 1
             /\ slept[p] \in Nat /\ lag[p] \in 0..MaxLag /\ ticks0[p] \in 0..WIDTH - 1
  BY <1>2 DEF ClockType
<1>6. ASSUME NEW p \in Sleepers, pc[p] \in {"test", "sleep"}
      PROVE  slept[p] + 1 < WIDTH /\ slept'[p] = slept[p] + 1
  BY <1>1, <1>4, <1>5, <1>6 DEF SleepInv, Saturate
<1>7. ClockType'
  <2>1. slept' \in [Sleepers -> Nat]
    <3>1. \A p \in Sleepers : slept'[p] \in Nat
      BY <1>4, <1>5, <1>6
    <3> QED BY <3>1 DEF Clockintr
  <2>2. lag' \in [Sleepers -> 0..MaxLag]
    <3>1. \A p \in Sleepers : lag'[p] \in 0..MaxLag
      BY <1>1, <1>4, <1>5
    <3> QED BY <3>1 DEF Clockintr
  <2>3. pc' \in [Sleepers -> Running \cup {"idle", "slept", "failed"}]
    BY <1>5 DEF Clockintr, Wakeup, Running
  <2>4. n' \in [Sleepers -> 0..WIDTH \div 2 - 1] /\ ticks0' \in [Sleepers -> 0..WIDTH - 1]
    BY <1>2, ZenonT(20) DEF Clockintr, ClockType
  <2> QED BY <1>3, <2>1, <2>2, <2>3, <2>4 DEF ClockType
<1>8. ASSUME NEW p \in Sleepers PROVE SleepInv(p)'
  <2>1. CASE pc[p] \in {"test", "sleep"}
    <3>1. (ticks' - ticks0'[p]) % WIDTH = slept'[p]
      <4>1. (ticks - ticks0[p]) % WIDTH = slept[p]
        BY <1>4, <2>1 DEF SleepInv, Running
      <4>2. ((ticks - ticks0[p]) % WIDTH) + 1 < WIDTH
        BY <4>1, <1>6, <2>1
      <4>3. ticks \in 0..WIDTH - 1 /\ ticks0[p] \in 0..WIDTH - 1
        BY <1>2, <1>5 DEF ClockType
      <4>4. (ticks' - ticks0[p]) % WIDTH = ((ticks - ticks0[p]) % WIDTH) + 1
        BY <4>2, <4>3, <1>1, <1>2, TickCounts, ZenonT(20)
      <4> QED BY <4>1, <4>4, <1>4, <1>6, <2>1
    <3>2. pc'[p] = "test" /\ slept'[p] <= n'[p] + lag'[p]
      BY <1>4, <1>5, <1>6, <2>1 DEF SleepInv
    <3> QED BY <3>1, <3>2 DEF SleepInv, Running
  <2>2. CASE pc[p] \notin {"test", "sleep"}
    BY <1>4, <1>5, <2>2 DEF SleepInv, Running
  <2> QED BY <2>1, <2>2
<1> QED BY <1>7, <1>8 DEF ClockInv

\* The steps of one process leave the others as they are.
LEMMA OthersKept ==
    ASSUME ClockInv, ticks' = ticks, NEW p \in Sleepers,
           /\ pc'[p] = pc[p] /\ n'[p] = n[p] /\ ticks0'[p] = ticks0[p]
           /\ slept'[p] = slept[p] /\ lag'[p] = lag[p]
    PROVE  SleepInv(p)'
BY ZenonT(20) DEF ClockInv, SleepInv

LEMMA ClockStep ==
    ASSUME ClockSizes, ClockInv, NEW p \in Sleepers, Kill(p) \/ Sleep(p) \/ Return(p) \/ Test(p)
    PROVE  ClockInv'
<1>1. /\ WIDTH \in Nat \ {0} /\ MaxLag \in Nat /\ WIDTH \div 2 \in Nat
      /\ WIDTH \div 2 + WIDTH \div 2 = WIDTH /\ MaxLag <= WIDTH \div 2
  BY Halves
<1>2. ClockType /\ SleepInv(p)
  BY DEF ClockInv
<1>3. /\ pc[p] \in Running \cup {"idle", "slept", "failed"} /\ n[p] \in 0..WIDTH \div 2 - 1
      /\ slept[p] \in Nat /\ lag[p] \in 0..MaxLag /\ ticks0[p] \in 0..WIDTH - 1
  BY <1>2 DEF ClockType
<1>4. ticks' = ticks /\ ticks \in 0..WIDTH - 1
  BY <1>2 DEF Kill, Sleep, Return, Test, ClockType
<1>5. ASSUME NEW r \in Sleepers, r # p PROVE SleepInv(r)'
  <2>1. pc'[r] = pc[r] /\ n'[r] = n[r] /\ ticks0'[r] = ticks0[r] /\ slept'[r] = slept[r] /\ lag'[r] = lag[r]
    BY <1>2, <1>5 DEF Kill, Sleep, Return, Test, ClockType
  <2> QED BY <1>4, <2>1, OthersKept
<1>6. ClockType'
  BY <1>1, <1>2, <1>4 DEF Kill, Sleep, Return, Test, ClockType, Running
<1>7. SleepInv(p)'
  <2>1. CASE Kill(p) \/ Sleep(p)
    <3>1. n'[p] = n[p] /\ ticks0'[p] = ticks0[p] /\ slept'[p] = slept[p] /\ lag'[p] = lag[p]
      BY <2>1 DEF Kill, Sleep
    <3>2. \/ pc'[p] = pc[p]
          \/ pc[p] = "sleep" /\ pc'[p] = "test"
          \/ pc[p] = "to_sleep" /\ pc'[p] = "sleep"
      <4>1. CASE Kill(p)
        <5>1. pc' = [pc EXCEPT ![p] = IF pc[p] = "sleep" THEN "test" ELSE pc[p]]
          BY <4>1, ZenonT(20) DEF Kill
        <5>2. pc'[p] = IF pc[p] = "sleep" THEN "test" ELSE pc[p]
          BY <1>2, <5>1, ZenonT(20) DEF ClockType
        <5> QED BY <5>2
      <4>2. CASE Sleep(p)
        BY <1>2, <4>2 DEF Sleep, ClockType
      <4> QED BY <2>1, <4>1, <4>2
    <3> QED BY <1>2, <1>3, <1>4, <3>1, <3>2 DEF SleepInv, Running
  <2>2. CASE Return(p)
    <3>1. pc'[p] = "idle"
      BY <1>2, <2>2 DEF Return, ClockType
    <3> QED BY <3>1 DEF SleepInv, Running
  <2>3. CASE Test(p)
    <3>1. /\ n'[p] = n[p] /\ ticks0'[p] = ticks0[p] /\ slept'[p] = slept[p]
          /\ pc[p] = "test" /\ pc'[p] \in {"to_sleep", "failed", "slept"}
          /\ pc'[p] = "to_sleep" => Early(p)
          /\ pc'[p] = "slept" => ~Early(p)
      BY <1>2, <2>3 DEF Test, ClockType
    <3>2. (ticks - ticks0[p]) % WIDTH = slept[p] /\ slept[p] <= n[p] + lag[p]
      BY <1>2, <3>1 DEF SleepInv, Running
    <3>3. Early(p) <=> slept[p] < n[p]
      BY <3>2 DEF Early
    <3> QED BY <1>1, <1>3, <1>4, <3>1, <3>2, <3>3 DEF SleepInv, Running
  <2> QED BY <2>1, <2>2, <2>3
<1> QED BY <1>5, <1>6, <1>7 DEF ClockInv

LEMMA ClockCall ==
    ASSUME ClockSizes, ClockInv, NEW p \in Sleepers, NEW k \in -MaxNeg..WIDTH \div 2 - 1, Sys_sleep(p, k)
    PROVE  ClockInv'
<1>1. /\ WIDTH \in Nat \ {0} /\ MaxLag \in Nat /\ WIDTH \div 2 \in Nat /\ MaxNeg \in Nat
      /\ WIDTH \div 2 + WIDTH \div 2 = WIDTH /\ MaxLag <= WIDTH \div 2 /\ WIDTH \div 2 >= 1
  BY Halves DEF ClockSizes
<1>2. ClockType /\ ticks' = ticks /\ ticks \in 0..WIDTH - 1
  BY DEF ClockInv, ClockType, Sys_sleep
<1> DEFINE m == IF k < 0 THEN 0 ELSE k
<1>3. m \in 0..WIDTH \div 2 - 1
  BY <1>1
<1> HIDE DEF m
<1>4. /\ n' = [n EXCEPT ![p] = m] /\ ticks0' = [ticks0 EXCEPT ![p] = ticks]
      /\ pc' = [pc EXCEPT ![p] = "test"] /\ slept' = [slept EXCEPT ![p] = 0] /\ lag' = lag
  BY DEF Sys_sleep, m
<1>5. ClockType'
  BY <1>2, <1>3, <1>4 DEF ClockType, Running
<1>6. ASSUME NEW r \in Sleepers, r # p PROVE SleepInv(r)'
  <2>1. pc'[r] = pc[r] /\ n'[r] = n[r] /\ ticks0'[r] = ticks0[r] /\ slept'[r] = slept[r] /\ lag'[r] = lag[r]
    BY <1>2, <1>4, <1>6 DEF ClockType
  <2> QED BY <1>2, <2>1, OthersKept
<1>7. SleepInv(p)'
  <2>1. pc'[p] = "test" /\ n'[p] = m /\ ticks0'[p] = ticks /\ slept'[p] = 0 /\ lag'[p] \in 0..MaxLag
    BY <1>2, <1>4 DEF ClockType
  <2>2. ticks - ticks = 0 /\ 0 % WIDTH = 0
    BY <1>1, <1>2, Wrap
  <2>3. (ticks' - ticks0'[p]) % WIDTH = slept'[p]
    BY <1>2, <2>1, <2>2, ZenonT(20)
  <2>4. slept'[p] <= n'[p] + lag'[p]
    BY <1>1, <1>3, <2>1
  <2> QED BY <2>1, <2>3, <2>4, ZenonT(20) DEF SleepInv
<1> QED BY <1>5, <1>6, <1>7 DEF ClockInv

LEMMA ClockNext == ASSUME ClockSizes, ClockInv, [Next]_vars PROVE ClockInv'
<1>1. CASE NoneToSleep /\ Clockintr
  BY <1>1, ClockTick
<1>2. CASE \E p \in Sleepers : Kill(p) \/ Sleep(p) \/ Return(p) \/ Test(p)
  BY <1>2, ClockStep
<1>3. CASE \E p \in Sleepers, k \in -MaxNeg..WIDTH \div 2 - 1 : Sys_sleep(p, k)
  BY <1>3, ClockCall
<1>4. CASE UNCHANGED vars
  BY <1>4, ZenonT(20) DEF vars, ClockInv, ClockType, SleepInv
<1> QED BY <1>1, <1>2, <1>3, <1>4, ZenonT(20) DEF Next

LEMMA SleepsBounded == ASSUME ClockSizes, ClockInv PROVE SleepsRight
<1> SUFFICES ASSUME NEW p \in Sleepers
             PROVE  /\ pc[p] = "slept" => slept[p] >= n[p]
                    /\ pc[p] \in {"test", "sleep", "slept"} => slept[p] <= n[p] + MaxLag
  BY DEF SleepsRight
<1>1. SleepInv(p) /\ slept[p] \in Nat /\ lag[p] \in 0..MaxLag /\ n[p] \in 0..WIDTH \div 2 - 1 /\ MaxLag \in Nat
  BY Halves DEF ClockInv, ClockType
<1> QED BY <1>1 DEF SleepInv

\* A process that calls sleep(n) gets its result not before n ticks, and waits
\* no longer than n ticks and what the scheduler needs, whatever other
\* processes do and wherever the counter wraps: the comparison of sys_sleep is
\* the right one as long as that is less than one turn of the counter.
THEOREM SleepOnTime == ASSUME ClockSizes PROVE Spec => []SleepsRight
<1>1. Init => ClockInv
  BY ClockStart
<1>2. ClockInv /\ [Next]_vars => ClockInv'
  BY ClockNext
<1>3. ClockInv => SleepsRight
  BY SleepsBounded
<1> QED BY <1>1, <1>2, <1>3, PTL DEF Spec
=============================================================================
