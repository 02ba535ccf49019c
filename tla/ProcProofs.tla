----------------------------- MODULE ProcProofs -----------------------------
(***************************************************************************)
(* The rest of the proofs about Proc: fork, the end of exit, wait and kill *)
(* keep ProcInv, of ProcSteps, and the theorems.                           *)
(***************************************************************************)
EXTENDS ProcSteps

\* A second and a third call, for a leaf the first gives up on.
USE SlotFacts, SMTT(30), Z3T(30), SMTT(60) DEF initproc, WaitLock

----------------------------------------------------------------------------
(* fork.                                                                    *)

LEMMA AllocProcHolds ==
    ASSUME ProcInv, NEW c \in CPUs, NEW p \in Slots, AllocProc(c, p)
    PROVE  ProcInv'
<1> DEFINE q == at[p]
<1> USE DEF ProcInv
<1>0. /\ Runs(c, p) /\ mode[c] = "run" /\ cproc[c] = p /\ pc[p] = "allocproc"
      /\ state[p] = "RUNNING" /\ \A d \in CPUs : d # c => cproc[d] # p
      /\ q \in Slots /\ at \in [Slots -> 1..NPROC + 1] /\ arg \in [Slots -> Nat]
      /\ UNCHANGED <<owner, cvars, panicked>>
  <2>1. At(c, p, "allocproc") /\ q \in Slots /\ UNCHANGED <<owner, cvars, panicked>>
    BY ZenonT(20) DEF AllocProc, At, Types
  <2>2. at \in [Slots -> 1..NPROC + 1] /\ arg \in [Slots -> Nat]
    BY ZenonT(20) DEF Types
  <2> QED
    BY <2>1, <2>2, AtLabel
<1>f. forkFails(p) \in {"ret", "panic"}
  BY DEF forkFails, exit
<1>1. CASE state[q] # "UNUSED"
  <2>1. /\ UNCHANGED pvars
        /\ \/ Leave(p, forkFails(p))
           \/ q # NPROC /\ GotoAt(p, "allocproc", q + 1) /\ UNCHANGED arg
    BY <1>1, ZenonT(20) DEF AllocProc
  <2>2. /\ Goto(p, forkFails(p)) \/ Goto(p, "allocproc")
        /\ at' \in [Slots -> 1..NPROC + 1] /\ at'[p] \in Slots
        /\ arg' \in [Slots -> Nat]
        /\ \A r \in Slots \ {p} : at'[r] = at[r] /\ arg'[r] = arg[r]
    <3>1. 1 \in 1..NPROC + 1 /\ \A r \in Slots : r # NPROC => r + 1 \in Slots /\ r + 1 \in 1..NPROC + 1
      BY SlotNext, ZenonT(20)
    <3> QED
      BY <1>0, <2>1, <3>1 DEF Leave, GotoAt
  <2>3. killed \in [Slots -> BOOLEAN]
    BY ZenonT(20) DEF Types
  <2> QED
    BY <1>0, <1>f, <2>1, <2>2, <2>3, LocalHolds, ZenonT(20) DEF pvars, Holding
<1>2. CASE state[q] = "UNUSED"
  <2>0. /\ q # p /\ q # initproc /\ parent[q] = 0 /\ pc[q] \in {"forkret", "exited"}
        /\ \A r \in Slots : parent[r] # q
        /\ \A d \in CPUs : cproc[d] # q
        /\ \A r \in Slots : pc[r] \in Forking => arg[r] # q
    BY <1>0, <1>2 DEF Types, InitRight, KidsRight, CpusRight, ThreadsRight, ForksRight, Modes
  <2> HIDE DEF q
  <2>1. CASE /\ nextpid' = nextpid + 1
             /\ state' = [state EXCEPT ![q] = "USED"]
             /\ pid' = [pid EXCEPT ![q] = nextpid]
             /\ pc' = [pc EXCEPT ![p] = "fork_parent", ![q] = "forkret"]
             /\ arg' = [arg EXCEPT ![p] = q]
             /\ at' = [at EXCEPT ![p] = 1]
             /\ UNCHANGED <<chan, killed, parent>>
    <3>1. /\ state'[q] = "USED" /\ \A r \in Slots \ {q} : state'[r] = state[r]
          /\ pc'[p] = "fork_parent" /\ pc'[q] = "forkret"
          /\ \A r \in Slots \ {p, q} : pc'[r] = pc[r]
          /\ arg'[p] = q /\ at'[p] = 1
          /\ \A r \in Slots \ {p} : arg'[r] = arg[r] /\ at'[r] = at[r]
      BY <1>0, <2>1 DEF Types
    <3> USE <1>0, <2>0, <3>1 DEF cvars
    <3>2. Types'
      <4>1. q \in Nat /\ 1 \in 1..NPROC + 1
        BY ProcSizes DEF Slots
      <4>2. pc' \in [Slots -> Labels]
        BY <2>1, ZenonT(20) DEF Types, Labels, Forking
      <4>3. at' \in [Slots -> 1..NPROC + 1] /\ arg' \in [Slots -> Nat] /\ nextpid' \in Nat
        BY <2>1, <4>1 DEF Types
      <4>4. state' \in [Slots -> States] /\ pid' \in [Slots -> Nat]
        BY <2>1, ZenonT(20) DEF Types, States
      <4> QED
        BY <2>1, <4>2, <4>3, <4>4 DEF Types
    <3>3. CpusRight'
      BY DEF Types, CpusRight
    <3>9. owner[0] \in CPUs => cproc[owner[0]] \in Slots \ {p, q}
      BY DEF Types, LocksRight, CpusRight, Holding
    <3>4. LocksRight'
      <4>1. \A r \in Slots : pc'[r] \in Holding => pc[r] \in Holding
        BY ZenonT(20) DEF Holding
      <4> QED
        BY <3>9, <4>1 DEF LocksRight
    <3>5. ThreadsRight'
      BY <2>1 DEF Types, ThreadsRight, CpusRight
    <3>6. ForksRight' /\ InitRight'
      BY <2>1 DEF Types, ForksRight, InitRight, Forking, Exiting
    <3>7. KidsRight'
      BY <2>1 DEF Types, KidsRight
    <3>8. WakeupsRight'
      BY <2>1, <3>9 DEF Types, WakeupsRight
    <3> QED
      BY <3>2, <3>3, <3>4, <3>5, <3>6, <3>7, <3>8
  <2>2. CASE nextpid' = nextpid + 1 /\ freeproc(q) /\ Leave(p, forkFails(p))
    <3>1. /\ \A r \in Slots : state'[r] = state[r] /\ parent'[r] = parent[r]
          /\ \A r \in Slots \ {q} : chan'[r] = chan[r] /\ killed'[r] = killed[r] /\ pid'[r] = pid[r]
          /\ pc'[p] \in {"ret", "panic"} /\ \A r \in Slots \ {p} : pc'[r] = pc[r]
          /\ at'[p] = 1 /\ arg'[p] = 0
          /\ \A r \in Slots \ {p} : arg'[r] = arg[r] /\ at'[r] = at[r]
      BY <1>2, <1>f, <2>0, <2>2, ZenonT(20) DEF Types, freeproc, Leave, GotoAt, Goto
    <3> USE <1>0, <1>2, <2>0, <3>1 DEF cvars
    <3>2. Types'
      <4>1. 1 \in 1..NPROC + 1
        BY SlotNext, ZenonT(20)
      <4>2. /\ pc' \in [Slots -> Labels]
            /\ at' \in [Slots -> 1..NPROC + 1] /\ arg' \in [Slots -> Nat] /\ nextpid' \in Nat
        BY <1>f, <2>2, <4>1 DEF Types, Labels, Leave, GotoAt, Goto
      <4>3. /\ state' \in [Slots -> States] /\ pid' \in [Slots -> Nat]
            /\ chan' \in [Slots -> Locks] /\ parent' \in [Slots -> Locks]
        BY <2>2 DEF Types, freeproc
      <4>4. killed' \in [Slots -> BOOLEAN]
        BY <2>2, ZenonT(40) DEF Types, freeproc
      <4> QED
        BY <4>2, <4>3, <4>4, ZenonT(20) DEF Types
    <3>3. CpusRight'
      BY DEF Types, CpusRight
    <3>4. LocksRight'
      BY DEF Types, CpusRight, LocksRight, Holding
    <3>5. ThreadsRight'
      BY DEF Types, ThreadsRight, CpusRight
    <3>6. ForksRight' /\ InitRight'
      BY DEF ForksRight, InitRight, Forking, Exiting
    <3>7. KidsRight'
      BY DEF Types, KidsRight
    <3>8. WakeupsRight'
      <4>1. owner[0] \in CPUs => cproc[owner[0]] \in Slots \ {p}
        BY DEF Types, LocksRight, CpusRight, Holding
      <4>2. \A s, r \in Slots : parent'[r] = s /\ state'[r] = "ZOMBIE" =>
              pc'[s] # "wait_sleep" /\ (pc'[s] = "wait_scan" => r >= at'[s])
        BY DEF Types, WakeupsRight
      <4>3. \A e \in Slots : pc'[e] = "zombie" \/ (pc'[e] = "wake_parent" /\ parent'[e] < at'[e]) =>
              parent'[e] = 0 \/ state'[parent'[e]] # "SLEEPING"
        BY DEF Types, WakeupsRight
      <4>4. \A r \in Slots : state'[r] = "ZOMBIE" /\ parent'[r] # 0 /\ state'[parent'[r]] = "SLEEPING" =>
              /\ parent'[r] = initproc /\ owner'[WaitLock] \in CPUs
              /\ LET e == cproc'[owner'[WaitLock]] IN pc'[e] = "wake_init" /\ at'[e] = 1
        BY <4>1 DEF Types, WakeupsRight
      <4> QED
        BY <4>2, <4>3, <4>4, ZenonT(20) DEF WakeupsRight
    <3> QED
      BY <3>2, <3>3, <3>4, <3>5, <3>6, <3>7, <3>8, ZenonT(20)
  <2> QED
    BY <1>2, <2>1, <2>2, ZenonT(20) DEF AllocProc, q
<1> QED
  BY <1>1, <1>2, ZenonT(20)

LEMMA ForkParentHolds ==
    ASSUME ProcInv, NEW c \in CPUs, NEW p \in Slots, ForkParent(c, p)
    PROVE  ProcInv'
<1> DEFINE k == arg[p]
<1> USE DEF ProcInv
<1>0. /\ mode[c] = "run" /\ cproc[c] = p /\ pc[p] = "fork_parent" /\ state[p] = "RUNNING"
      /\ \A d \in CPUs : d # c => cproc[d] # p
      /\ owner[0] = None
  BY AtLabel, AtNeeds DEF ForkParent
<1>1. /\ k \in Slots /\ state[k] = "USED" /\ parent[k] = 0 /\ k # p /\ k # initproc
      /\ \A r \in Slots \ {p} : pc[r] \in Forking => arg[r] # k
      /\ \A r \in Slots : pc[r] \notin Holding
  BY <1>0 DEF ForksRight, Forking, InitRight, LocksRight
<1>2. /\ parent' = [parent EXCEPT ![k] = p] /\ pc' = [pc EXCEPT ![p] = "fork_run"]
      /\ UNCHANGED <<state, chan, killed, pid, nextpid, owner, cproc, mode, next, at, arg, panicked>>
  BY DEF ForkParent, Goto, cvars
<1> HIDE DEF k
<1>3. /\ parent'[k] = p /\ \A r \in Slots \ {k} : parent'[r] = parent[r]
      /\ pc'[p] = "fork_run" /\ \A r \in Slots \ {p} : pc'[r] = pc[r]
      /\ \A r \in Slots : pc'[r] \notin Holding
  BY <1>1, <1>2, ZenonT(20) DEF Types, Holding
<1> USE <1>0, <1>1, <1>2, <1>3
<1>4. Types'
  <2>1. pc' \in [Slots -> Labels]
    BY ZenonT(20) DEF Types, Labels, Forking
  <2> QED
    BY <2>1 DEF Types
<1>5. CpusRight' /\ LocksRight'
  BY DEF CpusRight, LocksRight
<1>6. ThreadsRight'
  BY DEF ThreadsRight
<1>7. ForksRight' /\ InitRight'
  BY DEF ForksRight, InitRight, Forking, Exiting
<1>8. KidsRight'
  BY DEF KidsRight
<1>9. WakeupsRight'
  BY DEF WakeupsRight
<1> QED
  BY <1>4, <1>5, <1>6, <1>7, <1>8, <1>9

LEMMA ForkRunHolds ==
    ASSUME ProcInv, NEW c \in CPUs, NEW p \in Slots, ForkRun(c, p)
    PROVE  ProcInv'
<1> DEFINE k == arg[p]
<1> USE DEF ProcInv
<1>0. /\ mode[c] = "run" /\ cproc[c] = p /\ pc[p] = "fork_run" /\ state[p] = "RUNNING"
      /\ \A d \in CPUs : d # c => cproc[d] # p
  BY AtLabel DEF ForkRun
<1>1. /\ k \in Slots /\ state[k] = "USED" /\ pc[k] = "forkret" /\ k # p
      /\ \A r \in Slots : parent[r] # k
      /\ \A d \in CPUs : cproc[d] # k
      /\ \A r \in Slots \ {p} : pc[r] \in Forking => arg[r] # k
  BY <1>0 DEF Types, ForksRight, Forking, CpusRight, ThreadsRight, KidsRight, Modes
<1>2. /\ state' = [state EXCEPT ![k] = "RUNNABLE"]
      /\ pc' = [pc EXCEPT ![p] = "ret"] /\ at' = [at EXCEPT ![p] = 1] /\ arg' = [arg EXCEPT ![p] = 0]
      /\ UNCHANGED <<chan, killed, pid, parent, nextpid, owner, cproc, mode, next, panicked>>
  BY DEF ForkRun, Leave, GotoAt, Goto, cvars
<1> HIDE DEF k
<1>3. /\ state'[k] = "RUNNABLE" /\ \A r \in Slots \ {k} : state'[r] = state[r]
      /\ pc'[p] = "ret"
      /\ \A r \in Slots \ {p} : pc'[r] = pc[r] /\ at'[r] = at[r] /\ arg'[r] = arg[r]
  BY <1>1, <1>2, ZenonT(20) DEF Types
<1> USE <1>0, <1>1, <1>2, <1>3
<1>4. Types'
  <2>1. 1 \in 1..NPROC + 1
    BY SlotNext, ZenonT(20)
  <2>2. pc' \in [Slots -> Labels] /\ at' \in [Slots -> 1..NPROC + 1] /\ arg' \in [Slots -> Nat]
    BY <2>1, ZenonT(20) DEF Types, Labels
  <2> QED
    BY <2>2 DEF Types, States
<1>5. CpusRight' /\ LocksRight'
  BY DEF CpusRight, LocksRight, Holding
<1>6. ThreadsRight'
  BY DEF ThreadsRight
<1>7. ForksRight' /\ InitRight'
  BY DEF ForksRight, InitRight, Forking, Exiting
<1>8. KidsRight'
  BY DEF KidsRight
<1>9. WakeupsRight'
  <2>1. owner[0] \in CPUs => cproc[owner[0]] \in Slots \ {p}
    BY DEF Types, LocksRight, CpusRight, Holding
  <2> QED
    BY DEF WakeupsRight
<1> QED
  BY <1>4, <1>5, <1>6, <1>7, <1>8, <1>9, ZenonT(20)

----------------------------------------------------------------------------
(* exit, after its children were given away.                                *)

\* The scan of wakeup, by a process that exits: all but the properties of wakeup.
LEMMA WakeupScan ==
    ASSUME ProcInv, NEW c \in CPUs, NEW p \in Slots, NEW ch,
           NEW m \in {"wake_init", "wake_parent"}, At(c, p, m),
           NEW l \in {"reparent", "zombie"}, l = "zombie" => m = "wake_parent",
           wakeup(p, ch, l)
    PROVE  /\ Types' /\ ~panicked' /\ CpusRight' /\ LocksRight' /\ ThreadsRight' /\ ForksRight'
           /\ InitRight' /\ KidsRight'
           /\ \A r \in Slots \ {at[p]} : state'[r] = state[r]
           /\ state'[at[p]] = IF state[at[p]] = "SLEEPING" /\ chan[at[p]] = ch
                              THEN "RUNNABLE" ELSE state[at[p]]
           /\ \/ at[p] # NPROC /\ pc'[p] = m /\ at'[p] = at[p] + 1
              \/ at[p] = NPROC /\ pc'[p] = l /\ at'[p] = 1
           /\ \A r \in Slots \ {p} : pc[r] \notin Holding /\ pc'[r] = pc[r] /\ at'[r] = at[r]
           /\ UNCHANGED <<parent, owner, cproc>>
<1> DEFINE q == at[p]
<1> USE DEF ProcInv
<1>0. /\ mode[c] = "run" /\ cproc[c] = p /\ pc[p] = m /\ state[p] = "RUNNING"
      /\ \A d \in CPUs : d # c => cproc[d] # p
      /\ owner[0] = c /\ (q = p \/ owner[q] = None) /\ q \in Slots
  <2>1. m \in Holding /\ q \in Slots
    BY ZenonT(20) DEF Holding, Types, At
  <2> QED
    BY <2>1, AtLabel, AtNeeds
<1>1. p # initproc /\ \A r \in Slots \ {p} : pc[r] \notin Holding
  BY <1>0, ZenonT(20) DEF InitRight, Exiting, LocksRight
<1>2. UNCHANGED <<chan, killed, pid, parent, nextpid, owner, cproc, mode, next, arg, panicked>>
  BY ZenonT(20) DEF wakeup, cvars
<1>3. /\ \A r \in Slots \ {q} : state'[r] = state[r]
      /\ state'[q] = IF state[q] = "SLEEPING" /\ chan[q] = ch THEN "RUNNABLE" ELSE state[q]
      /\ state' \in [Slots -> States]
  BY <1>0, ZenonT(20) DEF wakeup, Types, States
<1>4. /\ \/ q # NPROC /\ pc'[p] = m /\ at'[p] = q + 1
         \/ q = NPROC /\ pc'[p] = l /\ at'[p] = 1
      /\ \A r \in Slots \ {p} : pc'[r] = pc[r] /\ at'[r] = at[r]
      /\ pc' \in [Slots -> Labels] /\ at' \in [Slots -> 1..NPROC + 1] /\ at'[p] \in Slots
  <2>1. 1 \in 1..NPROC + 1 /\ \A r \in Slots : r # NPROC => r + 1 \in Slots /\ r + 1 \in 1..NPROC + 1
    BY SlotNext, ZenonT(20)
  <2> QED
    BY <1>0, <2>1 DEF wakeup, GotoAt, Goto, Types, Labels, Holding
<1> HIDE DEF q
<1> USE <1>0, <1>1, <1>2, <1>3, <1>4
<1>5. Types'
  BY ZenonT(20) DEF Types
<1>6. CpusRight'
  BY DEF Types, CpusRight
<1>7. LocksRight'
  BY DEF LocksRight, Holding
<1>8. ThreadsRight'
  BY DEF Types, CpusRight, ThreadsRight
<1>9. ForksRight' /\ InitRight'
  BY DEF ForksRight, InitRight, Forking
<1>10. KidsRight'
  <2>1. \A r \in Slots : /\ state'[r] \in {"UNUSED", "USED", "ZOMBIE", "SLEEPING"} => state'[r] = state[r]
                        /\ state'[r] # state[r] => state'[r] = "RUNNABLE"
    BY ZenonT(20)
  <2>2. pc'[p] # "wait_sleep" /\ (pc'[p] \in {"wake_parent", "zombie"} => m = "wake_parent")
    BY ZenonT(20)
  <2>3. \A r \in Slots : parent[r] # 0 => parent[r] \in Slots
    BY ZenonT(20) DEF Types
  <2> QED
    BY <2>3 DEF KidsRight
<1> QED
  BY <1>5, <1>6, <1>7, <1>8, <1>9, <1>10, ZenonT(20) DEF q

LEMMA WakeInitHolds ==
    ASSUME ProcInv, NEW c \in CPUs, NEW p \in Slots, WakeInit(c, p)
    PROVE  ProcInv'
<1> USE DEF ProcInv
<1>0. /\ At(c, p, "wake_init") /\ wakeup(p, initproc, "reparent")
      /\ cproc[c] = p /\ owner[0] = c /\ pc[p] = "wake_init"
  <2>1. At(c, p, "wake_init") /\ wakeup(p, initproc, "reparent") /\ "wake_init" \in Holding
    BY ZenonT(20) DEF WakeInit, Holding
  <2> QED
    BY <2>1, AtLabel, ZenonT(20)
<1>1. /\ Types' /\ ~panicked' /\ CpusRight' /\ LocksRight' /\ ThreadsRight' /\ ForksRight'
      /\ InitRight' /\ KidsRight'
      /\ \A r \in Slots \ {at[p]} : state'[r] = state[r]
      /\ state'[at[p]] = IF state[at[p]] = "SLEEPING" /\ chan[at[p]] = initproc
                         THEN "RUNNABLE" ELSE state[at[p]]
      /\ pc'[p] \in {"wake_init", "reparent"}
      /\ \A r \in Slots \ {p} : pc[r] \notin Holding /\ pc'[r] = pc[r] /\ at'[r] = at[r]
      /\ UNCHANGED <<parent, owner, cproc>>
  BY <1>0, WakeupScan, ZenonT(20)
<1>2. \A q \in Slots : parent[q] # 0 => parent[q] \in Slots
  BY ZenonT(20) DEF Types
<1>3. WakeupsRight'
  <2> USE <1>0, <1>1
  <2>1. state'[initproc] = "SLEEPING" => at[p] # 1
    BY DEF ThreadsRight
  <2>2. \A q \in Slots : state'[q] \in {"ZOMBIE", "SLEEPING"} => state[q] = state'[q]
    BY ZenonT(20)
  <2>3. \A q \in Slots : ~(state'[q] = "ZOMBIE" /\ parent[q] # 0 /\ state'[parent[q]] = "SLEEPING")
    BY <1>2, <2>1, <2>2 DEF WakeupsRight
  <2> QED
    BY <2>3 DEF WakeupsRight, Holding
<1> QED
  BY <1>1, <1>3, ZenonT(20)

LEMMA WakeParentHolds ==
    ASSUME ProcInv, NEW c \in CPUs, NEW p \in Slots, WakeParent(c, p)
    PROVE  ProcInv'
<1> USE DEF ProcInv
<1>0. /\ At(c, p, "wake_parent") /\ wakeup(p, parent[p], "zombie")
      /\ cproc[c] = p /\ owner[0] = c /\ pc[p] = "wake_parent"
  <2>1. At(c, p, "wake_parent") /\ wakeup(p, parent[p], "zombie") /\ "wake_parent" \in Holding
    BY ZenonT(20) DEF WakeParent, Holding
  <2> QED
    BY <2>1, AtLabel, ZenonT(20)
<1>1. /\ Types' /\ ~panicked' /\ CpusRight' /\ LocksRight' /\ ThreadsRight' /\ ForksRight'
      /\ InitRight' /\ KidsRight'
      /\ \A r \in Slots \ {at[p]} : state'[r] = state[r]
      /\ state'[at[p]] = IF state[at[p]] = "SLEEPING" /\ chan[at[p]] = parent[p]
                         THEN "RUNNABLE" ELSE state[at[p]]
      /\ \/ at[p] # NPROC /\ pc'[p] = "wake_parent" /\ at'[p] = at[p] + 1
         \/ at[p] = NPROC /\ pc'[p] = "zombie" /\ at'[p] = 1
      /\ \A r \in Slots \ {p} : pc[r] \notin Holding /\ pc'[r] = pc[r] /\ at'[r] = at[r]
      /\ UNCHANGED <<parent, owner, cproc>>
  BY <1>0, WakeupScan
<1>2. \A q \in Slots : parent[q] # 0 => parent[q] \in Slots
  BY DEF Types
<1>3. /\ at[p] = NPROC => parent[p] < at[p] \/ parent[p] = at[p]
      /\ parent[p] < at[p] + 1 => parent[p] < at[p] \/ parent[p] = at[p]
      /\ at[p] \in Slots
  <2>1. parent[p] \in Locks /\ at[p] \in Slots
    BY <1>0, ZenonT(20) DEF Types
  <2> QED
    BY <2>1 DEF Slots
<1>4. state[at[p]] = "SLEEPING" => chan[at[p]] = at[p]
  BY <1>3, ZenonT(20) DEF ThreadsRight
<1>5. WakeupsRight'
  <2> USE <1>0, <1>1
  <2>1. \A q \in Slots : state'[q] \in {"ZOMBIE", "SLEEPING"} => state[q] = state'[q]
    BY ZenonT(20)
  <2>2. \A q \in Slots : ~(state'[q] = "ZOMBIE" /\ parent[q] # 0 /\ state'[parent[q]] = "SLEEPING")
    BY <1>2, <2>1 DEF WakeupsRight
  <2>3. state'[at[p]] = "SLEEPING" => at[p] # parent[p]
    BY <1>4, ZenonT(20)
  <2>4. pc'[p] = "zombie" \/ (pc'[p] = "wake_parent" /\ parent[p] < at'[p]) =>
            parent[p] = 0 \/ state'[parent[p]] # "SLEEPING"
    BY <1>2, <1>3, <2>1, <2>3 DEF WakeupsRight
  <2> QED
    BY <2>2, <2>4 DEF WakeupsRight, Holding
<1> QED
  BY <1>1, <1>5, ZenonT(20)

LEMMA ZombieHolds ==
    ASSUME ProcInv, NEW c \in CPUs, NEW p \in Slots, Zombie(c, p)
    PROVE  ProcInv'
<1> USE DEF ProcInv
<1>0. /\ mode[c] = "run" /\ cproc[c] = p /\ pc[p] = "zombie" /\ state[p] = "RUNNING"
      /\ \A d \in CPUs : d # c => cproc[d] # p
      /\ owner[0] = c /\ \A q \in Slots : owner[q] # c
  BY AtLabel DEF Zombie, Holding
<1>1. /\ p # initproc /\ \A r \in Slots \ {p} : pc[r] \notin Holding
      /\ \A r \in Slots : parent[r] # p
      /\ parent[p] = 0 \/ state[parent[p]] # "SLEEPING"
  BY <1>0, ZenonT(20) DEF InitRight, Exiting, LocksRight, KidsRight, WakeupsRight
<1>2. /\ state' = [state EXCEPT ![p] = "ZOMBIE"]
      /\ owner' = [owner EXCEPT ![p] = c, ![0] = None]
      /\ pc' = [pc EXCEPT ![p] = "exited"] /\ mode' = [mode EXCEPT ![c] = "out"]
      /\ UNCHANGED <<chan, killed, pid, parent, nextpid, cproc, next, at, arg>>
  BY ZenonT(20) DEF Zombie, Goto, sched
<1>3. /\ state'[p] = "ZOMBIE" /\ pc'[p] = "exited" /\ mode'[c] = "out"
      /\ owner'[p] = c /\ owner'[0] = None
      /\ \A r \in Slots \ {p} : state'[r] = state[r] /\ pc'[r] = pc[r] /\ owner'[r] = owner[r]
      /\ \A d \in CPUs \ {c} : mode'[d] = mode[d]
  BY <1>2, ZenonT(20) DEF Types
<1>4. ~panicked'
  <2>1. \A l \in Locks : owner'[l] = c <=> l = p
    BY <1>0, <1>3
  <2>2. {l \in Locks : owner'[l] = c} = {p} /\ state'[p] # "RUNNING"
    BY <1>3, <2>1, ZenonT(20)
  <2>3. panicked' = \/ {l \in Locks : owner'[l] = c} # {p}
                    \/ state'[p] = "RUNNING"
    BY ZenonT(20) DEF Zombie, sched
  <2> QED
    BY <2>2, <2>3, ZenonT(40)
<1> USE <1>0, <1>1, <1>2, <1>3
<1>5. Types'
  BY DEF Types, States, Modes, Labels, Exiting
<1>6. CpusRight'
  BY DEF CpusRight
<1>7. LocksRight'
  BY DEF Types, LocksRight, Holding
<1>8. ThreadsRight'
  BY DEF ThreadsRight
<1>9. ForksRight' /\ InitRight'
  BY DEF ForksRight, InitRight, Forking
<1>10. KidsRight'
  BY DEF KidsRight
<1>11. WakeupsRight'
  <2>1. \A q \in Slots : parent[q] # 0 => parent[q] \in Slots
    BY DEF Types
  <2> QED
    BY DEF WakeupsRight, Holding
<1> QED
  BY <1>4, <1>5, <1>6, <1>7, <1>8, <1>9, <1>10, <1>11, ZenonT(20)

----------------------------------------------------------------------------
(* wait, up to its scan.                                                    *)

LEMMA WaitHolds ==
    ASSUME ProcInv, NEW c \in CPUs, NEW p \in Slots, Wait(c, p)
    PROVE  ProcInv'
<1> USE DEF ProcInv
<1>0. /\ mode[c] = "run" /\ cproc[c] = p /\ pc[p] = "wait" /\ state[p] = "RUNNING"
      /\ \A d \in CPUs : d # c => cproc[d] # p
      /\ owner[0] = None
  BY AtLabel, AtNeeds DEF Wait
<1>1. \A r \in Slots : pc[r] \notin Holding
  BY <1>0, ZenonT(20) DEF LocksRight
<1>2. /\ owner' = [owner EXCEPT ![0] = c]
      /\ pc' = [pc EXCEPT ![p] = "wait_scan"] /\ at' = [at EXCEPT ![p] = 1]
      /\ UNCHANGED <<pvars, cvars, arg, panicked>>
  BY ZenonT(20) DEF Wait, GotoAt, Goto
<1>3. /\ owner'[0] = c /\ \A q \in Slots : owner'[q] = owner[q]
      /\ pc'[p] = "wait_scan" /\ at'[p] = 1
      /\ \A r \in Slots \ {p} : pc'[r] = pc[r] /\ at'[r] = at[r]
  BY <1>2, ZenonT(20) DEF Types
<1> USE <1>0, <1>1, <1>2, <1>3 DEF pvars, cvars
<1>4. Types'
  <2>1. 1 \in 1..NPROC + 1
    BY SlotNext, ZenonT(20)
  <2> QED
    BY <2>1, ZenonT(20) DEF Types, Labels, Holding
<1>5. CpusRight' /\ LocksRight'
  BY DEF CpusRight, LocksRight, Holding
<1>6. ThreadsRight'
  BY DEF ThreadsRight
<1>7. ForksRight' /\ InitRight'
  BY DEF ForksRight, InitRight, Forking, Exiting
<1>8. KidsRight'
  BY DEF KidsRight
<1>9. WakeupsRight'
  <2>1. \A q \in Slots : q >= 1
    BY DEF Slots
  <2> QED
    BY <2>1 DEF WakeupsRight
<1> QED
  BY <1>4, <1>5, <1>6, <1>7, <1>8, <1>9, ZenonT(20)

-----------------------------------------------------------------------------
----------------------------------------------------------------------------
(* The scan of wait, sleep and kill.                                        *)

\* The end of wait: wait_lock is released.  A child may have been freed.
LEMMA WaitLeaves ==
    ASSUME ProcInv, NEW c \in CPUs, NEW p \in Slots, At(c, p, "wait_scan"),
           owner' = [owner EXCEPT ![0] = None], Leave(p, "ret"), UNCHANGED <<cvars, panicked>>,
           \/ UNCHANGED pvars
           \/ \E q \in Slots : /\ parent[q] = p /\ state[q] = "ZOMBIE" /\ owner[q] = None
                               /\ freeproc(q) /\ UNCHANGED nextpid
    PROVE  ProcInv'
<1> USE DEF ProcInv
<1>0. /\ mode[c] = "run" /\ cproc[c] = p /\ pc[p] = "wait_scan" /\ state[p] = "RUNNING"
      /\ \A d \in CPUs : d # c => cproc[d] # p
      /\ owner[0] = c
  BY AtLabel DEF Holding
<1>1. \A r \in Slots \ {p} : pc[r] \notin Holding
  BY <1>0, ZenonT(20) DEF LocksRight
<1>2. /\ pc' = [pc EXCEPT ![p] = "ret"] /\ at' = [at EXCEPT ![p] = 1] /\ arg' = [arg EXCEPT ![p] = 0]
      /\ UNCHANGED <<cproc, mode, next, panicked>>
  BY DEF Leave, GotoAt, Goto, cvars
<1>3. /\ owner'[0] = None /\ \A q \in Slots : owner'[q] = owner[q]
      /\ pc'[p] = "ret" /\ at'[p] = 1
      /\ \A r \in Slots \ {p} : pc'[r] = pc[r] /\ at'[r] = at[r] /\ arg'[r] = arg[r]
      /\ \A r \in Slots : pc'[r] \notin Holding
  BY <1>1, <1>2, ZenonT(20) DEF Types, Holding
<1>t. /\ pc' \in [Slots -> Labels] /\ at' \in [Slots -> 1..NPROC + 1] /\ arg' \in [Slots -> Nat]
      /\ owner' \in [Locks -> CPUs \cup {None}]
  <2>1. 1 \in 1..NPROC + 1
    BY SlotNext, ZenonT(20)
  <2> QED
    BY <1>2, <2>1 DEF Types, Labels
<1>4. CASE UNCHANGED pvars
  <2> USE <1>0, <1>1, <1>2, <1>3, <1>4 DEF pvars
  <2>1. Types'
    BY <1>t DEF Types
  <2>2. CpusRight' /\ LocksRight'
    BY DEF CpusRight, LocksRight
  <2>3. ThreadsRight'
    BY DEF ThreadsRight
  <2>4. ForksRight' /\ InitRight'
    BY DEF ForksRight, InitRight, Forking, Exiting
  <2>5. KidsRight' /\ WakeupsRight'
    <3>1. KidsRight'
      BY DEF KidsRight
    <3>2. WakeupsRight'
      BY DEF WakeupsRight
    <3> QED BY <3>1, <3>2, ZenonT(20)
  <2> QED
    BY <2>1, <2>2, <2>3, <2>4, <2>5
<1>5. ASSUME NEW q \in Slots, parent[q] = p, state[q] = "ZOMBIE", owner[q] = None,
             freeproc(q), UNCHANGED nextpid
      PROVE  ProcInv'
  <2>1. /\ q # p /\ q # initproc /\ pc[q] = "exited"
        /\ \A r \in Slots : parent[r] # q
        /\ \A d \in CPUs : cproc[d] # q
    BY <1>5 DEF Types, InitRight, KidsRight, CpusRight, LocksRight, ThreadsRight, Modes
  <2>2. /\ state'[q] = "UNUSED" /\ parent'[q] = 0
        /\ \A r \in Slots \ {q} : /\ state'[r] = state[r] /\ parent'[r] = parent[r]
                                 /\ chan'[r] = chan[r] /\ pid'[r] = pid[r] /\ killed'[r] = killed[r]
    BY <1>5 DEF Types, freeproc
  <2> USE <1>0, <1>1, <1>2, <1>3, <1>5, <2>1, <2>2
  <2>3. Types'
    <3>1. killed' \in [Slots -> BOOLEAN]
      BY ZenonT(40) DEF freeproc, Types
    <3>2. /\ state' \in [Slots -> States] /\ pid' \in [Slots -> Nat]
          /\ parent' \in [Slots -> Locks] /\ chan' \in [Slots -> Locks]
      BY ZenonT(20) DEF freeproc, Types, States
    <3>3. nextpid' \in Nat /\ \A r \in Slots : pc'[r] # "wait_scan" => at'[r] \in Slots
      BY DEF Types
    <3>4. cproc' \in [CPUs -> Locks] /\ mode' \in [CPUs -> Modes] /\ next' \in [CPUs -> Slots]
      BY ZenonT(20) DEF Types
    <3> QED
      BY <1>t, <3>1, <3>2, <3>3, ZenonT(40) DEF Types
  <2>4. CpusRight'
    BY DEF Types, CpusRight
  <2>9. LocksRight'
    BY DEF LocksRight
  <2>5. ThreadsRight'
    BY DEF ThreadsRight
  <2>6. ForksRight' /\ InitRight'
    BY DEF ForksRight, InitRight, Forking, Exiting
  <2>7. KidsRight'
    <3>1. \A r \in Slots : parent[r] # 0 => parent[r] \in Slots
      BY ZenonT(20) DEF Types
    <3> QED
      BY <3>1 DEF KidsRight
  <2>8. WakeupsRight'
    <3>1. \A r \in Slots : parent[r] # 0 => parent[r] \in Slots
      BY DEF Types
    <3> QED
      BY <3>1 DEF WakeupsRight
  <2> HIDE <1>0, <1>1, <1>2, <1>3, <1>5, <2>1, <2>2
  <2> QED
    BY <2>3, <2>4, <2>5, <2>6, <2>7, <2>8, <2>9
<1> QED
  BY <1>4, <1>5, ZenonT(20)

LEMMA WaitScanHolds ==
    ASSUME ProcInv, NEW c \in CPUs, NEW p \in Slots, WaitScan(c, p)
    PROVE  ProcInv'
<1>0. PICK q \in First(Kids(p)) :
         /\ \/ /\ state[q] = "ZOMBIE"
               /\ (freeproc(q) /\ UNCHANGED nextpid) \/ UNCHANGED pvars
               /\ owner' = [owner EXCEPT ![0] = None]
               /\ Leave(p, "ret")
            \/ /\ state[q] # "ZOMBIE"
               /\ GotoAt(p, "wait_scan", q + 1)
               /\ UNCHANGED <<pvars, owner, arg>>
         /\ At(c, p, "wait_scan") /\ UNCHANGED <<cvars, panicked>>
  BY DEF WaitScan
<1>1. /\ q \in Slots /\ parent[q] = p /\ q >= at[p] /\ owner[q] = None
      /\ \A r \in Slots : parent[r] = p /\ r >= at[p] => q <= r
  <2>1. owner[q] = None
    BY <1>0, AtNeeds, ZenonT(20)
  <2> QED
    BY <2>1, ZenonT(20) DEF First, Kids
<1>2. CASE state[q] = "ZOMBIE"
  BY <1>0, <1>1, <1>2, WaitLeaves, ZenonT(20)
<1>3. CASE state[q] # "ZOMBIE"
  <2> USE DEF ProcInv
  <2>0. /\ mode[c] = "run" /\ cproc[c] = p /\ pc[p] = "wait_scan" /\ owner[0] = c
        /\ \A r \in Slots \ {p} : pc[r] \notin Holding
    BY <1>0, AtLabel DEF Holding, LocksRight
  <2>1. /\ UNCHANGED <<pvars, owner, arg, cvars, panicked>>
        /\ at' = [at EXCEPT ![p] = q + 1] /\ pc' = [pc EXCEPT ![p] = "wait_scan"]
    BY <1>0, <1>3, ZenonT(20) DEF GotoAt, Goto
  <2>2. /\ at' \in [Slots -> 1..NPROC + 1] /\ at'[p] = q + 1
        /\ \A r \in Slots \ {p} : at'[r] = at[r]
    <3>1. q + 1 \in 1..NPROC + 1
      BY <1>1, ProcSizes DEF Slots
    <3> QED
      BY <2>1, <3>1, ZenonT(20) DEF Types
  <2>4. pc' = pc
    BY <2>0, <2>1, ZenonT(20) DEF Types
  <2> USE <1>1, <1>3, <2>0, <2>1, <2>2, <2>4 DEF pvars, cvars
  <2>5. Types'
    BY ZenonT(20) DEF Types
  <2>6. CpusRight' /\ LocksRight' /\ ThreadsRight' /\ ForksRight' /\ InitRight' /\ KidsRight'
    <3>1. CpusRight' /\ LocksRight'
      BY DEF CpusRight, LocksRight
    <3>2. ThreadsRight' /\ ForksRight' /\ InitRight'
      BY DEF ThreadsRight, ForksRight, InitRight
    <3>3. KidsRight'
      <4>1. KidsRight /\ parent' = parent /\ state' = state
        BY ZenonT(20)
      <4> HIDE <1>1, <1>3, <2>0, <2>1, <2>2 DEF ProcInv
      <4> QED BY <4>1, ZenonT(20) DEF KidsRight
    <3> QED BY <3>1, <3>2, <3>3, ZenonT(20)
  <2>7. WakeupsRight'
    <3>1. \A r \in Slots : parent[r] = p /\ state[r] = "ZOMBIE" => r >= at'[p]
      <4>1. ASSUME NEW r \in Slots, parent[r] = p, state[r] = "ZOMBIE" PROVE r >= at'[p]
        <5>1. r >= at[p] /\ q <= r /\ r # q
          BY <4>1, ZenonT(20) DEF WakeupsRight
        <5> QED
          BY <5>1 DEF Slots
      <4> QED
        BY <4>1, ZenonT(20)
    <3>2. \A r \in Slots : pc[r] # "wake_parent" /\ pc[r] # "wake_init"
      BY ZenonT(20) DEF Holding
    <3> QED
      BY <3>1 DEF WakeupsRight
  <2> QED
    BY <2>5, <2>6, <2>7, ZenonT(20)
<1> QED
  BY <1>2, <1>3

LEMMA WaitEndHolds ==
    ASSUME ProcInv, NEW c \in CPUs, NEW p \in Slots, WaitEnd(c, p)
    PROVE  ProcInv'
<1>1. CASE ~HaveKids(p) \/ killed[p]
  BY <1>1, WaitLeaves, ZenonT(20) DEF WaitEnd
<1>2. CASE HaveKids(p) /\ ~killed[p]
  <2>0. /\ mode[c] = "run" /\ cproc[c] = p /\ pc[p] = "wait_scan" /\ state[p] = "RUNNING"
        /\ \A d \in CPUs : d # c => cproc[d] # p
        /\ owner[0] = c
    <3>1. At(c, p, "wait_scan") /\ "wait_scan" \in Holding
      BY ZenonT(20) DEF WaitEnd, Holding
    <3> QED BY <3>1, AtLabel, ZenonT(20)
  <2> USE DEF ProcInv
  <2>1. \A r \in Slots \ {p} : pc[r] \notin Holding
    BY <2>0, ZenonT(20) DEF LocksRight
  <2>2. /\ pc' = [pc EXCEPT ![p] = "wait_sleep"] /\ at' = [at EXCEPT ![p] = 1]
        /\ arg' = [arg EXCEPT ![p] = 0]
        /\ UNCHANGED <<pvars, owner, cvars, panicked>>
    BY <1>2, ZenonT(20) DEF WaitEnd, Leave, GotoAt, Goto
  <2>3. /\ pc'[p] = "wait_sleep" /\ at'[p] = 1
        /\ \A r \in Slots \ {p} : pc'[r] = pc[r] /\ at'[r] = at[r] /\ arg'[r] = arg[r]
    BY <2>2, ZenonT(20) DEF Types
  <2>4. /\ \E q \in Slots : parent[q] = p
        /\ \A q \in Slots : parent[q] = p => state[q] # "ZOMBIE"
    BY <1>2, <2>0, ZenonT(20) DEF HaveKids, WaitEnd, Kids, WakeupsRight
  <2> USE <2>0, <2>1, <2>2, <2>3 DEF pvars, cvars
  <2>5. Types'
    <3>1. 1 \in 1..NPROC + 1
      BY SlotNext, ZenonT(20)
    <3> QED
      BY <3>1 DEF Types, Labels, Holding
  <2>6. CpusRight' /\ LocksRight'
    BY DEF CpusRight, LocksRight, Holding
  <2>7. ThreadsRight'
    BY DEF ThreadsRight
  <2>8. ForksRight' /\ InitRight'
    BY DEF ForksRight, InitRight, Forking, Exiting
  <2>9. KidsRight'
    BY <2>4 DEF KidsRight
  <2>10. WakeupsRight'
    BY <2>4 DEF WakeupsRight
  <2> QED
    BY <2>5, <2>6, <2>7, <2>8, <2>9, <2>10, ZenonT(20)
<1> QED
  BY <1>1, <1>2, ZenonT(20)

LEMMA SleepHolds ==
    ASSUME ProcInv, NEW c \in CPUs, NEW p \in Slots, Sleep(c, p)
    PROVE  ProcInv'
<1>0. /\ mode[c] = "run" /\ cproc[c] = p /\ pc[p] = "wait_sleep" /\ state[p] = "RUNNING"
      /\ \A d \in CPUs : d # c => cproc[d] # p
      /\ owner[0] = c /\ \A q \in Slots : owner[q] # c
  <2>1. At(c, p, "wait_sleep") /\ "wait_sleep" \in Holding
    BY ZenonT(20) DEF Sleep, Holding
  <2> QED BY <2>1, AtLabel, ZenonT(20)
<1> USE DEF ProcInv
<1>1. /\ \A r \in Slots \ {p} : pc[r] \notin Holding
      /\ \E q \in Slots : parent[q] = p
      /\ \A q \in Slots : parent[q] = p => state[q] # "ZOMBIE"
  BY <1>0 DEF LocksRight, KidsRight, WakeupsRight
<1>2. /\ state' = [state EXCEPT ![p] = "SLEEPING"] /\ chan' = [chan EXCEPT ![p] = p]
      /\ owner' = [owner EXCEPT ![p] = c, ![0] = None]
      /\ pc' = [pc EXCEPT ![p] = "asleep"] /\ mode' = [mode EXCEPT ![c] = "out"]
      /\ UNCHANGED <<killed, pid, parent, nextpid, cproc, next, at, arg>>
  BY ZenonT(20) DEF Sleep, Goto, sched
<1>3. /\ state'[p] = "SLEEPING" /\ pc'[p] = "asleep" /\ mode'[c] = "out" /\ chan'[p] = p
      /\ owner'[p] = c /\ owner'[0] = None
      /\ \A r \in Slots \ {p} : /\ state'[r] = state[r] /\ pc'[r] = pc[r]
                               /\ owner'[r] = owner[r] /\ chan'[r] = chan[r]
      /\ \A d \in CPUs \ {c} : mode'[d] = mode[d]
  BY <1>2, ZenonT(20) DEF Types
<1>4. ~panicked'
  <2>1. \A l \in Locks : owner'[l] = c <=> l = p
    BY <1>0, <1>3
  <2>2. {l \in Locks : owner'[l] = c} = {p} /\ state'[p] # "RUNNING"
    BY <1>3, <2>1, ZenonT(20)
  <2>3. panicked' = \/ {l \in Locks : owner'[l] = c} # {p}
                    \/ state'[p] = "RUNNING"
    BY ZenonT(20) DEF Sleep, sched
  <2> QED
    BY <2>2, <2>3, ZenonT(40)
<1> USE <1>0, <1>1, <1>2, <1>3
<1>5. Types'
  BY DEF Types, States, Modes, Labels
<1>6. CpusRight'
  BY DEF CpusRight
<1>7. LocksRight'
  BY DEF Types, LocksRight, Holding
<1>8. ThreadsRight'
  BY DEF ThreadsRight
<1>9. ForksRight' /\ InitRight'
  BY DEF ForksRight, InitRight, Forking, Exiting
<1>10. KidsRight'
  BY DEF KidsRight
<1>11. WakeupsRight'
  <2>1. \A q \in Slots : parent[q] # 0 => parent[q] \in Slots
    BY DEF Types
  <2> QED
    BY DEF WakeupsRight, Holding
<1> QED
  BY <1>4, <1>5, <1>6, <1>7, <1>8, <1>9, <1>10, <1>11, ZenonT(20)

LEMMA KillHolds ==
    ASSUME ProcInv, NEW c \in CPUs, NEW p \in Slots, Kill(c, p)
    PROVE  ProcInv'
<1> DEFINE q == at[p]
<1> USE DEF ProcInv
<1>0. /\ mode[c] = "run" /\ cproc[c] = p /\ pc[p] = "kill" /\ state[p] = "RUNNING"
      /\ \A d \in CPUs : d # c => cproc[d] # p
      /\ q \in Slots /\ owner[q] = None
  <2>1. At(c, p, "kill") /\ pc[p] = "kill"
    BY ZenonT(20) DEF Kill, At
  <2>2. q \in Slots
    BY <2>1, ZenonT(20) DEF Types
  <2> QED
    BY <2>1, <2>2, AtLabel, AtNeeds, ZenonT(20)
<1>1. UNCHANGED <<chan, pid, parent, nextpid, owner, cproc, mode, next, panicked>>
  BY ZenonT(20) DEF Kill, cvars
<1>2. killed' \in [Slots -> BOOLEAN]
  <2>1. killed' = killed \/ killed' = [killed EXCEPT ![q] = TRUE]
    BY ZenonT(20) DEF Kill
  <2>2. killed \in [Slots -> BOOLEAN]
    BY ZenonT(20) DEF Types
  <2> QED
    BY <2>1, <2>2, ZenonT(40)
<1>3. /\ \A r \in Slots \ {q} : state'[r] = state[r]
      /\ state'[q] = state[q] \/ (state[q] = "SLEEPING" /\ state'[q] = "RUNNABLE")
      /\ state' \in [Slots -> States]
  BY DEF Kill, Types, States
<1>4. /\ \/ pc'[p] = "ret"
         \/ pc'[p] = "kill" /\ arg'[p] = arg[p]
      /\ \A r \in Slots \ {p} : pc'[r] = pc[r] /\ at'[r] = at[r] /\ arg'[r] = arg[r]
      /\ pc' \in [Slots -> Labels] /\ at' \in [Slots -> 1..NPROC + 1] /\ at'[p] \in Slots
      /\ arg' \in [Slots -> Nat]
  <2>1. 1 \in 1..NPROC + 1 /\ \A r \in Slots : r # NPROC => r + 1 \in Slots /\ r + 1 \in 1..NPROC + 1
    BY SlotNext, ZenonT(20)
  <2>2. \/ Leave(p, "ret")
        \/ q # NPROC /\ GotoAt(p, "kill", q + 1) /\ UNCHANGED arg
    BY ZenonT(20) DEF Kill
  <2> QED
    BY <1>0, <2>1, <2>2 DEF Leave, GotoAt, Goto, Types, Labels
<1> HIDE DEF q
<1> USE <1>0, <1>1, <1>2, <1>3, <1>4
<1>5. Types'
  BY ZenonT(20) DEF Types
<1>6. CpusRight'
  BY DEF Types, CpusRight
<1>7. LocksRight'
  BY DEF Types, LocksRight, CpusRight, Holding
<1>8. ThreadsRight'
  BY DEF Types, CpusRight, ThreadsRight
<1>9. ForksRight' /\ InitRight'
  BY DEF ForksRight, InitRight, Forking, Exiting
<1>p. \A r \in Slots : parent[r] # 0 => parent[r] \in Slots
  BY ZenonT(20) DEF Types
<1>s. \A r \in Slots : /\ state'[r] \in {"UNUSED", "USED", "ZOMBIE", "SLEEPING"} => state'[r] = state[r]
                      /\ state'[r] # state[r] => state'[r] = "RUNNABLE"
  BY ZenonT(20)
<1>10. KidsRight'
  BY <1>p DEF KidsRight
<1>11. WakeupsRight'
  <2>1. owner[0] \in CPUs => cproc[owner[0]] \in Slots \ {p}
    BY DEF Types, LocksRight, CpusRight, Holding
  <2> QED
    BY <1>p, <2>1 DEF WakeupsRight
<1> QED
  BY <1>5, <1>6, <1>7, <1>8, <1>9, <1>10, <1>11, ZenonT(20)

----------------------------------------------------------------------------
(* The theorems.                                                            *)

LEMMA NextHolds == ASSUME ProcInv, [Next]_vars PROVE ProcInv'
<1>1. CASE UNCHANGED vars
  BY <1>1, StutterHolds, ZenonT(20) DEF vars
<1>2. ASSUME NEW c \in CPUs, Scheduler(c) PROVE ProcInv'
  BY <1>2, ScanHolds, ResumeHolds, SwitchedOutHolds, ZenonT(20) DEF Scheduler
<1>3. ASSUME NEW c \in CPUs, NEW p \in Slots,
             UserStep(c, p) \/ Timer(c, p) \/ Spin(c, p) \/ Return(c, p)
      PROVE  ProcInv'
  BY <1>3, TrapHolds, ZenonT(20)
<1>4. ASSUME NEW c \in CPUs, NEW p \in Slots, KernelStep(c, p) PROVE ProcInv'
  BY <1>3, <1>4, AllocProcHolds, ForkParentHolds, ForkRunHolds, ExitHolds, ReparentHolds,
     WakeInitHolds, WakeParentHolds, ZombieHolds, WaitHolds, WaitScanHolds, WaitEndHolds,
     SleepHolds, KillHolds, ZenonT(20) DEF KernelStep
<1> QED
  BY <1>1, <1>2, <1>3, <1>4, ZenonT(20) DEF Next

\* The inductive invariant holds in every behaviour, those in which init is
\* killed or fails to fork and panics included.
THEOREM ProcSafe == Spec => []ProcInv
<1>1. ProcInv /\ [Next]_vars => ProcInv'
  BY NextHolds, ZenonT(20)
<1> QED
  BY InitHolds, <1>1, PTL DEF Spec

\* No process is on two CPUs, only a RUNNING process is on one that is not being
\* switched, no slot is freed while its kernel stack is in use, and no panic of
\* proc.c is reached but that of init's own exit, which stops init alone.
THEOREM RunsOnOneCPU == Spec => []OnOneCPU
<1>1. ProcInv => OnOneCPU
  <2> SUFFICES ASSUME ProcInv PROVE OnOneCPU
    BY ZenonT(20)
  <2> USE DEF ProcInv
  <2>1. \A c \in CPUs : cproc[c] # 0 => cproc[c] \in Slots /\ mode[c] \in {"in", "run", "out"}
    BY DEF Types, CpusRight, Modes
  <2>2. \A q \in Slots : owner[q] = None =>
            (state[q] = "RUNNING" <=> \E c \in CPUs : cproc[c] = q)
    BY <2>1 DEF CpusRight, LocksRight
  <2> QED
    BY <2>1, <2>2 DEF OnOneCPU, CpusRight
<1> QED
  BY <1>1, ProcSafe, PTL

\* Every child has a living parent, and no process sleeps in wait while a child
\* of its is a ZOMBIE: the wakeups of exit and reparent are not lost.
THEOREM FamiliesRight == Spec => []FamilyRight
<1>1. ProcInv => FamilyRight
  BY ZenonT(20) DEF ProcInv, KidsRight, WakeupsRight, FamilyRight
<1> QED
  BY <1>1, ProcSafe, PTL

\* acquire never closes a cycle: a CPU that holds the lock of a slot is in the
\* middle of a switch and waits for nothing, the holder of wait_lock waits for
\* the lock of a slot at most.
THEOREM LocksAreOrdered == Spec => []NoDeadlock
<1>1. ProcInv => NoDeadlock
  <2> SUFFICES ASSUME ProcInv, NEW S \in SUBSET CPUs, S # {}
               PROVE  \E c \in S : \A l \in Waiting(c) : owner[l] \notin S
    BY ZenonT(20) DEF NoDeadlock
  <2> USE DEF ProcInv
  <2>1. CASE \E c \in S : mode[c] \in {"in", "out"}
    BY <2>1, ZenonT(20) DEF Waiting
  <2>2. CASE \A c \in S : mode[c] \in {"scan", "run"}
    <3>1. \A q \in Slots : owner[q] \notin S
      BY <2>2 DEF LocksRight
    <3>2. CASE owner[0] \in S
      <4> DEFINE c == owner[0]
                 p == cproc[c]
      <4>1. mode[c] = "run" /\ p \in Slots /\ pc[p] \in Holding
        BY <3>2 DEF LocksRight, Types, CpusRight
      <4>2. Needs(p) \subseteq Slots
        <5>1. CASE pc[p] = "wait_scan"
          BY <4>1, <5>1, ZenonT(20) DEF Needs, First, Kids
        <5>2. CASE pc[p] \in {"wake_init", "wake_parent"}
          BY <4>1, <5>2, ZenonT(20) DEF Needs, Types
        <5>3. CASE pc[p] \in {"zombie", "wait_sleep"}
          BY <4>1, <5>3, ZenonT(20) DEF Needs
        <5>4. CASE pc[p] = "reparent"
          BY <5>4, ZenonT(20) DEF Needs
        <5> QED
          BY <4>1, <5>1, <5>2, <5>3, <5>4, ZenonT(20) DEF Holding
      <4> QED
        BY <3>1, <3>2, <4>1, <4>2, ZenonT(20) DEF Waiting
    <3>3. CASE owner[0] \notin S
      <4>1. PICK c \in S : TRUE
        BY ZenonT(20)
      <4>2. Waiting(c) \subseteq Locks
        <5>1. CASE mode[c] = "scan"
          BY <5>1 DEF Waiting, Types
        <5>2. CASE mode[c] = "run"
          <6> DEFINE p == cproc[c]
          <6>1. p \in Slots /\ Waiting(c) = Needs(p) /\ pc[p] \notin {"forkret", "asleep", "exited"}
            BY <5>2 DEF Waiting, Types, CpusRight, ThreadsRight
          <6>3. First(Kids(p)) \subseteq Slots
            BY ZenonT(20) DEF First, Kids
          <6>4. pc[p] # "wait_scan" => at[p] \in Slots
            BY <6>1, ZenonT(20) DEF Types
          <6>5. pc[p] = "fork_run" => arg[p] \in Slots
            BY <6>1, ZenonT(20) DEF ForksRight, Forking
          <6> HIDE DEF p
          <6>6. Needs(p) \subseteq Locks
            BY <6>1, <6>3, <6>4, <6>5, ZenonT(20) DEF Needs
          <6> QED
            BY <6>1, <6>6, ZenonT(20)
        <5> QED
          BY <2>2, <5>1, <5>2, ZenonT(20)
      <4> QED
        BY <3>1, <3>3, <4>1, <4>2, ZenonT(20)
    <3> QED
      BY <3>2, <3>3, ZenonT(20)
  <2> QED
    BY <2>1, <2>2, ZenonT(20) DEF Types, Modes
<1> QED
  BY <1>1, ProcSafe, PTL

\* freeproc is called for a ZOMBIE that has left its CPU, and by its parent, which
\* holds wait_lock.
THEOREM ParentsFree == Spec => FreedByParent
<1> DEFINE Freed(q) == state[q] \notin {"UNUSED", "USED"} /\ state'[q] = "UNUSED"
           ByParent(q) == /\ state[q] = "ZOMBIE" /\ \A c \in CPUs : cproc[c] # q
                          /\ \E c \in CPUs : owner[WaitLock] = c /\ cproc[c] = parent[q]
<1>1. ProcInv /\ [Next]_vars => [\A q \in Slots : Freed(q) => ByParent(q)]_vars
  <2> SUFFICES ASSUME ProcInv, Next, NEW q \in Slots, Freed(q) PROVE ByParent(q)
    BY ZenonT(20)
  <2>t. state \in [Slots -> States]
    BY ZenonT(20) DEF ProcInv, Types
  <2> USE <2>t
  <2>1. ASSUME NEW c \in CPUs, NEW p \in Slots, WaitScan(c, p) PROVE ByParent(q)
    <3>1. PICK k \in First(Kids(p)) : state[k] = "ZOMBIE" /\ state' = [state EXCEPT ![k] = "UNUSED"]
      BY <2>1, ZenonT(20) DEF WaitScan, freeproc, pvars
    <3>2. k \in Slots /\ parent[k] = p /\ owner[k] = None
      <4>1. owner[k] = None
        BY <2>1, AtNeeds, ZenonT(20) DEF WaitScan
      <4> QED
        BY <4>1, ZenonT(20) DEF First, Kids
    <3>3. owner[0] = c /\ cproc[c] = p
      BY <2>1, AtLabel, ZenonT(20) DEF WaitScan, Holding
    <3>5. q = k
      BY <3>1, <3>2, ZenonT(20)
    <3> QED
      BY <3>1, <3>2, <3>3 DEF ProcInv, CpusRight, LocksRight, Types, Modes
  <2>2. ASSUME NEW c \in CPUs, Scheduler(c) PROVE FALSE
    BY <2>2, ZenonT(20) DEF Scheduler, Scan, Resume, SwitchedOut, pvars
  <2>3. ASSUME NEW c \in CPUs, NEW p \in Slots, UserStep(c, p) \/ Timer(c, p) \/ Spin(c, p)
        PROVE  FALSE
    BY <2>3, ZenonT(20) DEF UserStep, Timer, Spin, SysFork, SysWait, SysKill, SysExit, Syscall, UserTimer,
       KernelTimer, yield, pvars
  <2>4. ASSUME NEW c \in CPUs, NEW p \in Slots, AllocProc(c, p) PROVE FALSE
    BY <2>4, ZenonT(20) DEF AllocProc, freeproc, pvars
  <2>5. ASSUME NEW c \in CPUs, NEW p \in Slots,
               \/ Return(c, p) \/ ForkParent(c, p) \/ ForkRun(c, p) \/ Exit(c, p)
               \/ Reparent(c, p) \/ Wait(c, p) \/ WaitEnd(c, p)
        PROVE  FALSE
    BY <2>5, ZenonT(20) DEF Return, ForkParent, ForkRun, Exit, Reparent, Wait, WaitEnd, pvars
  <2>6. ASSUME NEW c \in CPUs, NEW p \in Slots,
               \/ WakeInit(c, p) \/ WakeParent(c, p) \/ Zombie(c, p) \/ Sleep(c, p) \/ Kill(c, p)
        PROVE  FALSE
    <3>1. CASE WakeInit(c, p) \/ WakeParent(c, p)
      BY <3>1, ZenonT(20) DEF WakeInit, WakeParent, wakeup
    <3>2. CASE Zombie(c, p) \/ Sleep(c, p)
      BY <3>2, ZenonT(20) DEF Zombie, Sleep
    <3>3. CASE Kill(c, p)
      BY <3>3, ZenonT(20) DEF Kill
    <3> QED
      BY <2>6, <3>1, <3>2, <3>3, ZenonT(20)
  <2> QED
    BY <2>1, <2>2, <2>3, <2>4, <2>5, <2>6, ZenonT(20) DEF Next, KernelStep
<1> QED
  BY <1>1, ProcSafe, PTL DEF Spec, FreedByParent

=============================================================================
