------------------------------ MODULE LogProofs ------------------------------
(***************************************************************************)
(* The results about log.c, for every value of the constants: its          *)
(* invariant, which every step and a crash keep; the wakeups of begin_op,  *)
(* write-ahead, that what begin_op reserves is enough for what log_write   *)
(* adds, and that it implements AtomicDisk.                                *)
(***************************************************************************)
EXTENDS Log, TLAPS

\* A second and a third call, for a leaf the first gives up on.
USE LogSets, LogSizes, SMTT(30), Z3T(30), SMTT(60)

\* The empty header, and the entries of any header.
LEMMA NoElement ==
    ASSUME NEW S
    PROVE  /\ <<>> \in Seq(S) /\ Len(<<>>) = 0
           /\ \A s \in Seq(S) : s # <<>> => Len(s) \in Nat \ {0}
OBVIOUS

LEMMA Lengths ==
    ASSUME NEW S, NEW s \in Seq(S)
    PROVE  Len(s) \in Nat /\ DOMAIN s = 1..Len(s) /\ \A i \in 1..Len(s) : s[i] \in S
OBVIOUS

\* What log.outstanding relies on: sets of processes can be counted, and one
\* process more or less changes the count by one.
Counting ==
    \A S \in SUBSET Procs :
        /\ Cardinality(S) \in Nat /\ (Cardinality(S) = 0 <=> S = {})
        /\ \A p \in Procs \ S : Cardinality(S \cup {p}) = Cardinality(S) + 1
        /\ \A p \in S : Cardinality(S \ {p}) = Cardinality(S) - 1

\* Appending a new block number to a header keeps its entries distinct.
LEMMA AppendLogged ==
    ASSUME NEW s \in Seq(Blocks), NEW b \in Blocks
    PROVE  LET t == Append(s, b)
           IN  /\ t \in Seq(Blocks)
               /\ Len(t) = Len(s) + 1
               /\ DOMAIN t = 1..(Len(s) + 1)
               /\ t[Len(s) + 1] = b
               /\ \A i \in 1..Len(s) : t[i] = s[i]
               /\ Logged(t) = Logged(s) \cup {b}
               /\ Injective(s) /\ b \notin Logged(s) => Injective(t)
<1>1. /\ Append(s, b) \in Seq(Blocks)
      /\ Len(Append(s, b)) = Len(s) + 1
      /\ DOMAIN Append(s, b) = 1..(Len(s) + 1)
      /\ Append(s, b)[Len(s) + 1] = b
      /\ \A i \in 1..Len(s) : Append(s, b)[i] = s[i]
      /\ DOMAIN s = 1..Len(s) /\ Len(s) \in Nat
  OBVIOUS
<1>2. Logged(Append(s, b)) = Logged(s) \cup {b}
  BY <1>1 DEF Logged
<1>3. Injective(s) /\ b \notin Logged(s) => Injective(Append(s, b))
  BY <1>1 DEF Logged, Injective
<1> QED BY <1>1, <1>2, <1>3

\* The calls under way are counted like any set of processes.
LEMMA ActiveCount ==
    ASSUME Counting
    PROVE  Cardinality(Active) \in Nat /\ (Cardinality(Active) = 0 <=> Active = {})
<1>1. Active \in SUBSET Procs
  BY ZenonT(40) DEF Active
<1> QED BY ZenonT(40), <1>1 DEF Counting

LEMMA OneMoreActive ==
    ASSUME Counting, NEW p \in Procs, p \notin Active
    PROVE  Cardinality(Active \cup {p}) = Cardinality(Active) + 1
<1>1. Active \in SUBSET Procs
  BY ZenonT(40) DEF Active
<1> QED BY ZenonT(40), <1>1 DEF Counting

LEMMA OneLessActive ==
    ASSUME Counting, NEW p \in Active
    PROVE  /\ Cardinality(Active \ {p}) = Cardinality(Active) - 1
           /\ Cardinality(Active \ {p}) = 0 <=> Active \ {p} = {}
<1>1. Active \in SUBSET Procs /\ Active \ {p} \in SUBSET Procs
  BY ZenonT(40) DEF Active
<1> QED BY ZenonT(40), <1>1 DEF Counting

\* The empty log of mkfs and of a machine just switched on.
LEMMA LogInit ==
    ASSUME Counting, Init PROVE LogInv
<1>1. TypeOK
  <2>1. <<>> \in Seq(Blocks) /\ Len(<<>>) = 0
    BY NoElement
  <2>2. /\ hd \in Seq(Blocks) /\ Len(hd) <= LOGSIZE /\ Len(hd) <= NLOG - 1
        /\ lh \in Seq(Blocks) /\ Len(lh) <= LOGSIZE /\ Len(lh) <= NLOG - 1
    BY <2>1 DEF Init
  <2>3. cache \in [Blocks -> Data \cup {None}] /\ pins \in [Blocks -> Nat]
    BY DEF Init
  <2>4. pc \in [Procs -> States] /\ wrote \in [Procs -> SUBSET Blocks]
    BY DEF Init, States
  <2>5. tail \in 0..LOGSIZE /\ crashes \in 0..MaxCrashes
    BY DEF Init
  <2> QED BY ZenonT(40), <2>2, <2>3, <2>4, <2>5 DEF Init, TypeOK
<1>2. Active = {} /\ Cardinality(Active) = 0
  BY ActiveCount DEF Init, Active
<1>3. BootInv /\ CallInv /\ HeaderInv
  BY <1>2 DEF Init, BootInv, CallInv, HeaderInv, Injective
<1>4. CommitInv /\ CommitAlone /\ PinsAreExact /\ RecyclableIsClean /\ PinnedIsCached
  BY <1>2 DEF Init, CommitInv, CommitAlone, Committers, PinsAreExact,
     RecyclableIsClean, PinnedIsCached
<1> QED BY <1>1, <1>3, <1>4 DEF LogInv

LEMMA BreadInv ==
    ASSUME LogInv, NEW b \in Blocks, Bread(b) PROVE LogInv'
<1> USE DEF LogInv, Bread, dvars, lvars
<1>1. TypeOK'
  BY ZenonT(20) DEF TypeOK
<1>2. BootInv' /\ CallInv' /\ HeaderInv' /\ CommitAlone' /\ PinsAreExact'
  BY DEF BootInv, CallInv, HeaderInv, CommitAlone, PinsAreExact, Up, Active, Committers, Unpinned
<1>3. \A c \in Blocks : View(c)' = View(c)
  BY DEF TypeOK, View
<1>4. CommitInv'
  BY <1>3 DEF CommitInv, TypeOK
<1>5. RecyclableIsClean' /\ PinnedIsCached'
  BY DEF TypeOK, RecyclableIsClean, PinnedIsCached, Up
<1> QED BY <1>1, <1>2, <1>4, <1>5

LEMMA RecycleInv ==
    ASSUME LogInv, NEW b \in Blocks, Recycle(b) PROVE LogInv'
<1> USE DEF LogInv, Recycle, dvars, lvars
<1>1. TypeOK'
  BY DEF TypeOK
<1>2. BootInv' /\ CallInv' /\ HeaderInv' /\ CommitAlone' /\ PinsAreExact'
  BY DEF BootInv, CallInv, HeaderInv, CommitAlone, PinsAreExact, Up, Active, Committers, Unpinned
<1>3. \A c \in Blocks : View(c)' = View(c)
  BY DEF TypeOK, View, RecyclableIsClean, Up
<1>4. CommitInv'
  BY <1>3 DEF CommitInv, TypeOK
<1>5. RecyclableIsClean' /\ PinnedIsCached'
  BY DEF TypeOK, RecyclableIsClean, PinnedIsCached, Up
<1> QED BY <1>1, <1>2, <1>4, <1>5

\* A call enters: nobody is committing then, and one more call is active.
LEMMA BeginOpInv ==
    ASSUME Counting, LogInv, NEW p \in Procs, BeginOp(p) PROVE LogInv'
<1> USE DEF LogInv, BeginOp, dvars, mvars, Up
<1>1. CASE committing \/ NoSpace
  <2>1. pc' = [pc EXCEPT ![p] = "asleep"] /\ outstanding' = outstanding
    BY <1>1, ZenonT(20)
  <2>2. /\ \A q \in Procs : pc'[q] # "asleep" => pc'[q] = pc[q]
        /\ \A q \in Procs : pc[q] \notin {"idle", "woken"} => pc'[q] = pc[q]
        /\ Active' = Active /\ Committers' = Committers
    BY <2>1, ZenonT(20) DEF TypeOK, Active, Committers
  <2>3. TypeOK'
    BY <2>1, ZenonT(20) DEF TypeOK, States
  <2>4. BootInv' /\ CallInv' /\ HeaderInv'
    BY <2>1, <2>2, ZenonT(20) DEF BootInv, CallInv, HeaderInv, TypeOK
  <2>5. CommitInv'
    BY <2>1, <2>2 DEF CommitInv, View
  <2>6. CommitAlone' /\ PinsAreExact' /\ RecyclableIsClean' /\ PinnedIsCached'
    BY <2>1, <2>2, ZenonT(20) DEF CommitAlone, PinsAreExact, RecyclableIsClean, PinnedIsCached, Unpinned
  <2> QED BY <2>3, <2>4, <2>5, <2>6
<1>2. CASE ~(committing \/ NoSpace)
  <2>1. pc' = [pc EXCEPT ![p] = "op"] /\ outstanding' = outstanding + 1
    BY <1>2, ZenonT(20)
  <2>2. /\ \A q \in Procs : pc'[q] # "op" => pc'[q] = pc[q]
        /\ \A q \in Procs : pc[q] \notin {"idle", "woken"} => pc'[q] = pc[q]
        /\ Active' = Active \cup {p} /\ p \notin Active /\ Committers' = Committers
    BY <2>1, ZenonT(20) DEF TypeOK, Active, Committers
  <2>3. TypeOK'
    BY <2>1 DEF TypeOK, States
  <2>4. outstanding' = Cardinality(Active')
    BY ZenonT(40), <2>1, <2>2, OneMoreActive DEF CallInv
  <2>5. CallInv'
    BY <2>2, <2>4, ZenonT(20) DEF CallInv
  <2>6. BootInv' /\ HeaderInv'
    BY <2>1, <2>2, ZenonT(20) DEF BootInv, HeaderInv, TypeOK
  <2>7. CommitInv'
    BY <2>1, <2>2 DEF CommitInv, View
  <2>8. CommitAlone' /\ PinsAreExact' /\ RecyclableIsClean' /\ PinnedIsCached'
    BY <1>2, <2>1, <2>2, ZenonT(20) DEF CommitAlone, PinsAreExact, RecyclableIsClean, PinnedIsCached, Unpinned
  <2> QED BY <2>3, <2>5, <2>6, <2>7, <2>8, ZenonT(20)
<1> QED BY <1>1, <1>2

LEMMA KillInv ==
    ASSUME LogInv, NEW p \in Procs, Kill(p) PROVE LogInv'
<1> USE DEF LogInv, Kill, dvars, mvars, lvars, Up
<1>1. /\ \A q \in Procs : pc'[q] # "woken" => pc'[q] = pc[q]
      /\ \A q \in Procs : pc[q] # "asleep" => pc'[q] = pc[q]
      /\ Active' = Active /\ Committers' = Committers
  BY DEF TypeOK, Active, Committers
<1>2. TypeOK'
  BY ZenonT(20) DEF TypeOK, States
<1>3. BootInv' /\ CallInv' /\ HeaderInv'
  BY <1>1, ZenonT(20) DEF BootInv, CallInv, HeaderInv, TypeOK
<1>4. CommitInv'
  BY <1>1 DEF CommitInv, View
<1>5. CommitAlone' /\ PinsAreExact' /\ RecyclableIsClean' /\ PinnedIsCached'
  BY <1>1 DEF CommitAlone, PinsAreExact, RecyclableIsClean, PinnedIsCached, Unpinned
<1> QED BY <1>2, <1>3, <1>4, <1>5, ZenonT(20)

\* While a call is active nobody commits, and the on-disk header is empty.
LEMMA CallActive ==
    ASSUME Counting, LogInv, Up, NEW p \in Procs, pc[p] = "op"
    PROVE  /\ ~committing
           /\ Committers = {}
           /\ hd = <<>>
           /\ p \in Active
           /\ outstanding >= 1
<1>1. p \in Active /\ ~committing /\ Committers = {}
  BY DEF LogInv, CommitAlone, Active
<1>2. hd = <<>>
  BY <1>1 DEF LogInv, HeaderInv, Committers, Up
<1>3. outstanding >= 1
  BY <1>1, ActiveCount DEF LogInv, CallInv
<1> QED BY <1>1, <1>2, <1>3

\* A logged block is pinned, so that only commit() ends its stay in the cache.
LEMMA LogWriteInv ==
    ASSUME Counting, LogInv, NEW p \in Procs, NEW b \in Blocks, NEW d \in Data,
           LogWrite(p, b, d)
    PROVE  LogInv'
<1> USE DEF LogInv, LogWrite, dvars, lvars
<1>1. Up /\ ~committing /\ Committers = {} /\ hd = <<>> /\ p \in Active
  BY CallActive, ZenonT(20)
<1>2. \A q \in Procs : pc[q] \in {"idle", "asleep", "woken", "op"}
  BY <1>1, ZenonT(20) DEF TypeOK, States, Committers
<1>3. Active' = Active /\ Committers' = Committers /\ Active # {}
  BY <1>1, ZenonT(20) DEF Active, Committers
<1>4. CASE panicked' \/ b \in Logged(lh)
  <2>1. lh' = lh /\ pins' = pins
    BY <1>4, ZenonT(20)
  <2>2. TypeOK'
    BY <2>1, ZenonT(20) DEF TypeOK
  <2>3. BootInv' /\ HeaderInv' /\ CommitInv' /\ CommitAlone'
    BY <1>1, <1>2, <1>3, <2>1, ZenonT(20) DEF BootInv, HeaderInv, CommitInv, CommitAlone, Up
  <2>4. CallInv'
    BY <1>2, <1>3, <1>4, <2>1, ZenonT(20) DEF CallInv, Up, TypeOK
  <2>5. PinsAreExact' /\ PinnedIsCached'
    BY <1>2, <2>1, ZenonT(20) DEF PinsAreExact, PinnedIsCached, Unpinned, TypeOK, Up
  <2>6. RecyclableIsClean'
    <3> SUFFICES ASSUME ~panicked' PROVE RecyclableIsClean'
      BY DEF RecyclableIsClean
    <3>1. pins[b] = 1
      BY <1>1, <1>2, <1>4, <2>1, ZenonT(20) DEF PinsAreExact, Logged, Unpinned, Up
    <3> QED BY <1>1, <2>1, <3>1 DEF RecyclableIsClean, TypeOK, Up
  <2> QED BY <2>2, <2>3, <2>4, <2>5, <2>6, ZenonT(20)
<1>5. CASE ~(panicked' \/ b \in Logged(lh))
  <2>1. /\ ~panicked' /\ ~TooBig /\ b \notin Logged(lh)
        /\ lh' = Append(lh, b) /\ pins' = [pins EXCEPT ![b] = @ + 1]
    BY ZenonT(40), <1>5
  <2>2. /\ lh' \in Seq(Blocks)
        /\ Len(lh') = Len(lh) + 1
        /\ DOMAIN lh' = 1..(Len(lh) + 1)
        /\ lh'[Len(lh) + 1] = b
        /\ \A i \in 1..Len(lh) : lh'[i] = lh[i]
        /\ Logged(lh') = Logged(lh) \cup {b}
        /\ Injective(lh')
        /\ DOMAIN lh = 1..Len(lh) /\ Len(lh) \in Nat
    BY <2>1, AppendLogged, Lengths DEF TypeOK, HeaderInv
  <2>3. TypeOK'
    <3>1. lh' \in Seq(Blocks) /\ Len(lh') <= LOGSIZE /\ Len(lh') <= NLOG - 1
      <4> HIDE DEF LogWrite, LogInv
      <4>1. ~TooBig
        BY <2>1, ZenonT(20)
      <4> QED BY <4>1, <2>2 DEF TooBig
    <3>2. pins' \in [Blocks -> Nat]
      BY <2>1 DEF TypeOK
    <3>3. panicked' \in BOOLEAN
      BY <2>1, ZenonT(20)
    <3> HIDE DEF LogWrite
    <3>4. /\ cache' = [cache EXCEPT ![b] = d]
          /\ wrote' = [wrote EXCEPT ![p] = @ \cup {b}]
          /\ UNCHANGED <<disk, logd, hd, outstanding, committing, pc, tail, boot,
                         crashes>>
      BY DEF LogWrite
    <3> QED BY <3>1, <3>2, <3>3, <3>4 DEF TypeOK
  <2>4. BootInv' /\ HeaderInv' /\ CommitInv' /\ CommitAlone'
    BY ZenonT(40), <1>1, <1>2, <1>3, <2>1, <2>2 DEF BootInv, HeaderInv, CommitInv, CommitAlone, Up
  <2>5. CallInv'
    BY ZenonT(40), <1>2, <1>3, <2>1, <2>2 DEF CallInv, Up, TypeOK
  <2>6. PinsAreExact'
    <3>1. \A c \in Blocks : pins[c] = IF c \in Logged(lh) THEN 1 ELSE 0
      BY <1>1, <1>2 DEF PinsAreExact, Logged, Unpinned, Up
    <3>2. \A c \in Blocks : pins'[c] = IF c \in Logged(lh') THEN 1 ELSE 0
      <4> HIDE DEF LogWrite
      <4> QED BY <2>1, <2>2, <3>1 DEF TypeOK
    <3> QED BY <1>2, <3>2 DEF PinsAreExact, Logged, Unpinned
  <2>7. RecyclableIsClean' /\ PinnedIsCached'
    BY <1>1, <2>1 DEF RecyclableIsClean, PinnedIsCached, TypeOK, Up
  <2> QED BY <2>3, <2>4, <2>5, <2>6, <2>7
<1> QED BY <1>4, <1>5, ZenonT(20)

\* The last call to end leaves no active call behind and starts the commit.
LEMMA EndOpInv ==
    ASSUME Counting, LogInv, NEW p \in Procs, EndOp(p) PROVE LogInv'
<1> USE DEF LogInv, EndOp, dvars, mvars
<1>1. Up /\ ~committing /\ Committers = {} /\ hd = <<>> /\ p \in Active /\ outstanding >= 1
  BY CallActive, ZenonT(20)
<1>2. \A q \in Procs : pc[q] \in {"idle", "asleep", "woken", "op"}
  BY <1>1, ZenonT(20) DEF TypeOK, States, Committers
<1>3. /\ pc' \in [Procs -> States]
      /\ \A q \in Procs : q # p => pc'[q] \in {pc[q], "woken"}
      /\ \A q \in Procs : q # p /\ pc[q] # "asleep" => pc'[q] = pc[q]
      /\ pc'[p] = IF outstanding' = 0 THEN "commit" ELSE "idle"
  <2>1. CASE outstanding' = 0
    BY <2>1, ZenonT(20) DEF TypeOK, States
  <2>2. CASE outstanding' # 0
    BY <2>2, ZenonT(20) DEF TypeOK, States, Wakeup
  <2> QED BY <2>1, <2>2, ZenonT(20)
<1>4. Active' = Active \ {p}
  BY <1>3, ZenonT(20) DEF Active
<1>5. outstanding' = Cardinality(Active') /\ outstanding' \in Nat
  <2>1. Cardinality(Active \ {p}) = Cardinality(Active) - 1
    BY ZenonT(40), <1>1, OneLessActive
  <2>2. outstanding = Cardinality(Active) /\ outstanding \in Nat /\ outstanding >= 1
    BY <1>1, ZenonT(20) DEF CallInv, TypeOK
  <2>3. outstanding' = outstanding - 1
    OBVIOUS
  <2> QED BY <1>4, <2>1, <2>2, <2>3
<1>6. outstanding' = 0 <=> Active' = {}
  BY ZenonT(40), <1>5, <1>4, <1>1, OneLessActive
<1>7. /\ ~panicked'
      /\ committing' <=> outstanding' = 0
      /\ Committers' = IF outstanding' = 0 THEN {p} ELSE {}
      /\ \A q \in Procs : pc'[q] \in {"idle", "asleep", "woken", "op", "commit"}
  BY ZenonT(40), <1>1, <1>2, <1>3 DEF Committers
<1>8. TypeOK'
  BY <1>3, <1>5, <1>7 DEF TypeOK
<1>9. BootInv' /\ HeaderInv' /\ CommitInv' /\ CommitAlone'
  BY <1>1, <1>6, <1>7, ZenonT(20) DEF BootInv, HeaderInv, CommitInv, CommitAlone, Up
<1>10. CallInv'
  BY <1>1, <1>3, <1>5, ZenonT(20) DEF CallInv, TypeOK, Up
<1>11. PinsAreExact' /\ RecyclableIsClean' /\ PinnedIsCached'
  BY <1>1, <1>2, <1>7, ZenonT(20) DEF PinsAreExact, RecyclableIsClean, PinnedIsCached, Unpinned, Up
<1> QED BY <1>8, <1>9, <1>10, <1>11, ZenonT(20)

\* A process in commit() is alone: no other commits and no call is active.
LEMMA Committing ==
    ASSUME LogInv, NEW p \in Committers
    PROVE  /\ committing /\ Active = {}
           /\ boot = "up"
           /\ \A q \in Procs : q # p => pc[q] \in {"idle", "asleep", "woken"}
<1>1. committing /\ Active = {} /\ p \in Procs /\ \A q \in Committers : q = p
  BY ZenonT(20) DEF LogInv, CommitAlone, Committers
<1>2. boot = "up"
  BY ZenonT(20) DEF LogInv, BootInv, Committers
<1>3. \A q \in Procs : q # p => pc[q] \in {"idle", "asleep", "woken"}
  BY <1>1, ZenonT(20) DEF LogInv, TypeOK, States, Committers, Active
<1> QED BY <1>1, <1>2, <1>3, ZenonT(20)

\* What a step that only moves the committer along keeps.
LEMMA CommitterMoves ==
    ASSUME LogInv, NEW p \in Committers, NEW s \in States,
           pc' = [pc EXCEPT ![p] = s],
           s \in {"commit", "write_log", "write_head", "install_trans", "clear", "done"},
           UNCHANGED <<outstanding, committing, wrote, boot, panicked>>
    PROVE  /\ pc' \in [Procs -> States]
           /\ pc'[p] = s
           /\ \A q \in Procs : q # p => pc'[q] \in {"idle", "asleep", "woken"}
           /\ Active' = {} /\ BootInv' /\ CommitAlone'
           /\ outstanding' = Cardinality(Active')
           /\ \A q \in Procs : pc'[q] # "op" => wrote'[q] = {}
           /\ \A q \in Procs : wrote'[q] = {}
<1>1. /\ committing /\ Active = {} /\ boot = "up" /\ p \in Procs
      /\ \A q \in Procs : q # p => pc[q] \in {"idle", "asleep", "woken"}
  BY Committing, ZenonT(20) DEF Committers
<1>2. /\ pc' \in [Procs -> States]
      /\ pc'[p] = s
      /\ \A q \in Procs : q # p => pc'[q] \in {"idle", "asleep", "woken"}
  BY <1>1, ZenonT(20) DEF LogInv, TypeOK
<1>3. Active' = {} /\ Committers' = {p}
  BY <1>1, <1>2, ZenonT(20) DEF Active, Committers
<1>4. BootInv' /\ CommitAlone'
  BY <1>1, <1>3, ZenonT(20) DEF BootInv, CommitAlone
<1>5. outstanding' = Cardinality(Active') /\ \A q \in Procs : wrote'[q] = {}
  BY <1>1, <1>3, ZenonT(20) DEF LogInv, CallInv, Active, Committers
<1> QED BY <1>2, <1>3, <1>4, <1>5, ZenonT(20)

LEMMA CommitStepInv ==
    ASSUME LogInv, NEW p \in Procs, Commit(p) PROVE LogInv'
<1> USE DEF LogInv, Commit, dvars, mvars, lvars
<1>1. p \in Committers /\ boot = "up" /\ ~panicked
  BY DEF Committers, Up
<1>2. PICK s \in {"write_log", "done"} :
          pc' = [pc EXCEPT ![p] = s] /\ (s = "write_log" <=> Len(lh) > 0)
  BY ZenonT(40)
<1>3. /\ pc' \in [Procs -> States] /\ pc'[p] = s
      /\ \A q \in Procs : q # p => pc'[q] \in {"idle", "asleep", "woken"}
      /\ Active' = {} /\ BootInv' /\ CommitAlone'
      /\ outstanding' = Cardinality(Active') /\ \A q \in Procs : wrote'[q] = {}
  BY ZenonT(40), <1>1, <1>2, CommitterMoves DEF States
<1>4. \A q \in Procs : q # p => pc[q] \in {"idle", "asleep", "woken"}
  BY <1>1, Committing, ZenonT(20)
<1>5. hd = <<>>
  BY <1>1, <1>4, ZenonT(20) DEF HeaderInv
<1>6. committing' /\ Len(lh) \in Nat /\ (Len(lh) = 0 => lh = <<>>)
  BY <1>1, Committing, NoElement DEF TypeOK
<1>7. TypeOK'
  BY <1>3 DEF TypeOK
<1>8. CallInv' /\ HeaderInv' /\ CommitInv'
  BY <1>2, <1>3, <1>5, <1>6 DEF CallInv, HeaderInv, CommitInv
<1>9. PinsAreExact' /\ RecyclableIsClean' /\ PinnedIsCached'
  BY <1>2, <1>3, <1>4, ZenonT(20) DEF PinsAreExact, RecyclableIsClean, PinnedIsCached, Unpinned
<1> QED BY <1>3, <1>7, <1>8, <1>9, ZenonT(20)

\* Before the commit point every logged block is pinned, hence cached.
LEMMA LoggedIsCached ==
    ASSUME LogInv, NEW p \in Committers, pc[p] \in {"commit", "write_log", "write_head"}
    PROVE  /\ \A b \in Blocks : pins[b] = IF b \in Logged(lh) THEN 1 ELSE 0
           /\ \A b \in Logged(lh) : cache[b] # None
<1>1. \A q \in Procs : pc[q] \notin {"install_trans", "clear"}
  BY Committing, ZenonT(20) DEF Committers
<1>2. boot = "up"
  BY Committing, ZenonT(20)
<1>3. \A b \in Blocks : pins[b] = IF b \in Logged(lh) THEN 1 ELSE 0
  BY <1>1, <1>2 DEF LogInv, PinsAreExact, Unpinned, Logged
<1>4. Logged(lh) \subseteq Blocks
  BY DEF LogInv, TypeOK, Logged
<1> QED BY <1>3, <1>4 DEF LogInv, PinnedIsCached

\* write_log: the log blocks up to tail hold what the cache holds.
LEMMA WriteLogInv ==
    ASSUME LogInv, NEW p \in Procs, WriteLog(p) PROVE LogInv'
<1> DEFINE b == lh[tail + 1]
<1> USE DEF LogInv, WriteLog, lvars
<1>1. p \in Committers /\ boot = "up" /\ ~panicked /\ pc[p] = "write_log"
  BY DEF Committers, Up
<1>2. PICK s \in {"write_log", "write_head"} :
          pc' = [pc EXCEPT ![p] = s] /\ (s = "write_log" <=> tail' < Len(lh))
  BY ZenonT(40), <1>1
<1>3. /\ pc' \in [Procs -> States] /\ pc'[p] = s
      /\ \A q \in Procs : q # p => pc'[q] \in {"idle", "asleep", "woken"}
      /\ Active' = {} /\ BootInv' /\ CommitAlone'
      /\ outstanding' = Cardinality(Active') /\ \A q \in Procs : wrote'[q] = {}
  BY ZenonT(40), <1>1, <1>2, CommitterMoves DEF States
<1>4. /\ \A q \in Procs : q # p => pc[q] \in {"idle", "asleep", "woken"}
      /\ committing
  BY <1>1, Committing, ZenonT(20)
<1>5. /\ tail < Len(lh) /\ tail \in Nat /\ tail' = tail + 1 /\ tail + 1 \in DOMAIN lh
      /\ b \in Blocks /\ b \in Logged(lh) /\ tail + 1 \in LogBlocks /\ lh # <<>>
      /\ DOMAIN lh = 1..Len(lh) /\ Len(lh) \in Nat
  BY <1>1 DEF CommitInv, TypeOK, LogBlocks, Logged
<1>6. cache[b] # None /\ cache' = cache /\ logd' = [logd EXCEPT ![tail + 1] = View(b)]
  BY <1>1, <1>5, LoggedIsCached, ZenonT(20) DEF TypeOK, View
<1>7. View(b) \in Data /\ \A c \in Blocks : View(c)' = View(c)
  BY <1>5, <1>6, ZenonT(20) DEF TypeOK, View
<1>8. TypeOK'
  <2>1. logd' \in [LogBlocks -> Data] /\ tail' \in 0..LOGSIZE
    BY <1>5, <1>6, <1>7 DEF TypeOK
  <2> QED BY ZenonT(40), <2>1, <1>3, <1>6 DEF TypeOK
<1>9. \A i \in 1..tail' : logd'[i] = View(lh[i])
  <2>1. \A i \in 1..tail : logd[i] = View(lh[i])
    BY <1>1, ZenonT(20) DEF CommitInv
  <2>2. logd \in [LogBlocks -> Data] /\ \A i \in 1..tail : i \in LogBlocks
    BY <1>5 DEF TypeOK, LogBlocks
  <2> HIDE DEF LogInv, WriteLog
  <2> QED BY <1>5, <1>6, <2>1, <2>2
<1>10. CallInv' /\ HeaderInv'
  BY <1>1, <1>2, <1>3, <1>4, ZenonT(20) DEF CallInv, HeaderInv
<1>11. CommitInv'
  <2>1. \A i \in DOMAIN lh : lh[i] \in Blocks
    BY DEF TypeOK
  <2>2. s = "write_head" => \A i \in DOMAIN lh : logd'[i] = View(lh[i])'
    BY <1>2, <1>5, <1>7, <1>9, <2>1
  <2>3. \A i \in 1..tail' : logd'[i] = View(lh[i])'
    BY <1>5, <1>7, <1>9, <2>1
  <2> QED BY ZenonT(40), <1>2, <1>3, <1>5, <2>2, <2>3 DEF CommitInv
<1>12. PinsAreExact' /\ RecyclableIsClean' /\ PinnedIsCached'
  <2>1. \A q \in Procs : ~Unpinned(q) /\ ~Unpinned(q)'
    BY <1>1, <1>2, <1>3, <1>4, ZenonT(20) DEF Unpinned
  <2> QED BY <2>1, <1>6, <1>1, ZenonT(20) DEF PinsAreExact, RecyclableIsClean, PinnedIsCached
<1> QED BY <1>3, <1>8, <1>10, <1>11, <1>12, ZenonT(20)

\* write_head: the commit point.
LEMMA WriteHeadInv ==
    ASSUME LogInv, NEW p \in Procs, WriteHead(p) PROVE LogInv'
<1> USE DEF LogInv, WriteHead, lvars, mvars
<1>1. p \in Committers /\ boot = "up" /\ ~panicked /\ pc[p] = "write_head"
  BY DEF Committers, Up
<1>3. /\ pc' \in [Procs -> States] /\ pc'[p] = "install_trans"
      /\ \A q \in Procs : q # p => pc'[q] \in {"idle", "asleep", "woken"}
      /\ Active' = {} /\ BootInv' /\ CommitAlone'
      /\ outstanding' = Cardinality(Active') /\ \A q \in Procs : wrote'[q] = {}
  BY ZenonT(40), <1>1, CommitterMoves DEF States
<1>4. /\ \A q \in Procs : q # p => pc[q] \in {"idle", "asleep", "woken"}
      /\ committing
  BY <1>1, Committing, ZenonT(20)
<1>5. lh # <<>> /\ Len(lh) \in Nat /\ Len(lh) > 0 /\ DOMAIN lh = 1..Len(lh)
  BY <1>1, NoElement DEF CommitInv, TypeOK
<1>6. TypeOK'
  BY <1>3 DEF TypeOK
<1>7. CallInv' /\ HeaderInv'
  BY <1>1, <1>3, <1>4, ZenonT(20) DEF CallInv, HeaderInv
<1>8. \A i \in DOMAIN lh : logd'[i] = View(lh[i])'
  BY <1>1, ZenonT(20) DEF CommitInv, View
<1>9. CommitInv'
  <2>1. tail' = 0 /\ hd' = lh' /\ lh' = lh
    BY ZenonT(20)
  <2>2. \A i \in DOMAIN lh : ~(i <= tail')
    BY <1>5, <2>1
  <2>3. tail' < Len(lh')
    BY <1>5, <2>1, ZenonT(20)
  <2>4. \A q \in Procs : pc'[q] \notin {"write_log", "write_head", "clear", "done"}
    BY <1>3, ZenonT(20)
  <2> HIDE DEF LogInv, WriteHead
  <2> QED BY <1>5, <1>8, <2>1, <2>2, <2>3, <2>4, ZenonT(20) DEF CommitInv
<1>10. RecyclableIsClean' /\ PinnedIsCached'
  BY ZenonT(20) DEF RecyclableIsClean, PinnedIsCached
<1>11. PinsAreExact'
  <2>1. \A c \in Blocks : pins[c] = IF \E i \in DOMAIN lh : lh[i] = c THEN 1 ELSE 0
    BY <1>1, LoggedIsCached, ZenonT(20) DEF Logged
  <2>2. tail' = 0 /\ lh' = lh /\ pins' = pins
    BY ZenonT(20)
  <2>3. \A i \in DOMAIN lh : i > tail'
    BY <1>5, <2>2
  <2> HIDE DEF LogInv, WriteHead
  <2> QED BY <2>1, <2>2, <2>3, ZenonT(20) DEF PinsAreExact
<1> QED BY <1>3, <1>6, <1>7, <1>9, <1>10, <1>11, ZenonT(20)

\* install_trans: a block goes home with the value that the cache holds.
LEMMA InstallTransInv ==
    ASSUME LogInv, NEW p \in Procs, InstallTrans(p) PROVE LogInv'
<1> DEFINE b == lh[tail + 1]
<1> DEFINE d == logd[tail + 1]
<1> USE DEF LogInv, InstallTrans, InstallBlock, lvars
<1>1. p \in Committers /\ boot = "up" /\ ~panicked /\ pc[p] = "install_trans"
  BY DEF Committers, Up
<1>2. PICK s \in {"install_trans", "clear"} :
          pc' = [pc EXCEPT ![p] = s] /\ (s = "install_trans" <=> tail' < Len(lh))
  BY ZenonT(40), <1>1
<1>3. /\ pc' \in [Procs -> States] /\ pc'[p] = s
      /\ \A q \in Procs : q # p => pc'[q] \in {"idle", "asleep", "woken"}
      /\ Active' = {} /\ BootInv' /\ CommitAlone'
      /\ outstanding' = Cardinality(Active') /\ \A q \in Procs : wrote'[q] = {}
  BY ZenonT(40), <1>1, <1>2, CommitterMoves DEF States
<1>4. /\ \A q \in Procs : q # p => pc[q] \in {"idle", "asleep", "woken"}
      /\ committing
  BY <1>1, Committing, ZenonT(20)
<1>5. /\ tail < Len(lh) /\ tail \in Nat /\ tail' = tail + 1 /\ tail + 1 \in DOMAIN lh
      /\ b \in Blocks /\ tail + 1 \in LogBlocks /\ d \in Data /\ lh # <<>>
      /\ DOMAIN lh = 1..Len(lh) /\ Len(lh) \in Nat
      /\ \A i \in DOMAIN lh : lh[i] \in Blocks
  BY <1>1 DEF CommitInv, TypeOK, LogBlocks
<1>6. /\ hd = lh
      /\ \A i \in DOMAIN lh : logd[i] = View(lh[i])
      /\ \A i \in DOMAIN lh : i <= tail => disk[lh[i]] = logd[i]
      /\ \A i, j \in DOMAIN lh : lh[i] = lh[j] => i = j
  BY <1>1, ZenonT(20) DEF CommitInv, HeaderInv, Injective
<1>7. \A c \in Blocks : View(c)' = View(c)
  <2>1. View(b) = d
    BY <1>5, <1>6, ZenonT(20)
  <2>2. disk' = [disk EXCEPT ![b] = d] /\ cache' = [cache EXCEPT ![b] = d]
    BY ZenonT(20)
  <2>3. disk \in [Blocks -> Data] /\ cache \in [Blocks -> Data \cup {None}]
    BY ZenonT(20) DEF TypeOK
  <2> HIDE DEF LogInv, InstallTrans, b, d
  <2> QED BY <1>5, <2>1, <2>2, <2>3, ZenonT(20) DEF View
<1>8. pins[b] = 1
  BY <1>1, <1>5, <1>6 DEF PinsAreExact, Unpinned
<1>9. TypeOK'
  <2>1. /\ disk' \in [Blocks -> Data] /\ cache' \in [Blocks -> Data \cup {None}]
        /\ pins' \in [Blocks -> Nat] /\ tail' \in 0..LOGSIZE
    BY <1>5, <1>8 DEF TypeOK
  <2> QED BY <2>1, <1>3, ZenonT(20) DEF TypeOK
<1>10. CallInv' /\ HeaderInv'
  BY <1>1, <1>2, <1>3, <1>4, ZenonT(20) DEF CallInv, HeaderInv
<1>11. CommitInv'
  <2>1. \A i \in DOMAIN lh : logd'[i] = View(lh[i])'
    BY <1>5, <1>6, <1>7
  <2>2. \A i \in DOMAIN lh : i <= tail' => disk'[lh[i]] = logd[i]
    <3>1. disk' = [disk EXCEPT ![b] = d] /\ disk \in [Blocks -> Data]
      BY ZenonT(20) DEF TypeOK
    <3> HIDE DEF LogInv, InstallTrans
    <3> QED BY <1>5, <1>6, <3>1
  <2>3. s = "clear" => tail' = Len(lh)
    BY <1>2, <1>5
  <2> QED BY ZenonT(40), <1>2, <1>3, <1>5, <1>6, <2>1, <2>2, <2>3 DEF CommitInv
<1>12. PinsAreExact'
  <2>1. \A c \in Blocks : pins[c] = IF \E i \in DOMAIN lh : lh[i] = c /\ i > tail
                                    THEN 1 ELSE 0
    BY <1>1, ZenonT(20) DEF PinsAreExact, Unpinned
  <2>2. \A c \in Blocks : pins'[c] = IF \E i \in DOMAIN lh : lh[i] = c /\ i > tail'
                                     THEN 1 ELSE 0
    <3>1. pins' = [pins EXCEPT ![b] = @ - 1] /\ pins \in [Blocks -> Nat]
      BY DEF TypeOK
    <3> HIDE DEF LogInv, InstallTrans
    <3>2. ~\E i \in DOMAIN lh : lh[i] = b /\ i > tail + 1
      <4>1. \A i \in DOMAIN lh : lh[i] = lh[tail + 1] => i = tail + 1
        BY <1>5, <1>6, Zenon
      <4>2. \A i \in DOMAIN lh : i > tail + 1 => i # tail + 1
        BY <1>5
      <4> QED BY <4>1, <4>2, Zenon
    <3>3. pins'[b] = 0
      BY <1>5, <1>8, <3>1
    <3>4. tail' = tail + 1
      BY <1>5, ZenonT(20)
    <3>5. ASSUME NEW c \in Blocks
          PROVE  pins'[c] = IF \E i \in DOMAIN lh : lh[i] = c /\ i > tail + 1
                            THEN 1 ELSE 0
      <4>1. CASE c = b
        BY <4>1, <3>2, <3>3, ZenonT(20)
      <4>2. CASE c # b
        <5>1. /\ pins'[c] = pins[c]
              /\ (\E i \in DOMAIN lh : lh[i] = c /\ i > tail)
                   <=> \E i \in DOMAIN lh : lh[i] = c /\ i > tail + 1
          BY <4>2, <3>1, <1>5
        <5>2. pins[c] = IF \E i \in DOMAIN lh : lh[i] = c /\ i > tail THEN 1 ELSE 0
          BY <2>1, ZenonT(20)
        <5> QED BY <5>1, <5>2, ZenonT(20)
      <4> QED BY <4>1, <4>2, ZenonT(20)
    <3> QED BY <3>4, <3>5, ZenonT(20)
  <2>3. lh' = lh /\ \E q \in Procs : Unpinned(q)'
    BY <1>2, <1>3, ZenonT(20) DEF Unpinned
  <2> HIDE DEF LogInv, InstallTrans
  <2> QED BY <2>2, <2>3, ZenonT(20) DEF PinsAreExact
<1>13. RecyclableIsClean' /\ PinnedIsCached'
  BY <1>1, <1>5, <1>8, ZenonT(20) DEF RecyclableIsClean, PinnedIsCached, TypeOK
<1> QED BY <1>3, <1>9, <1>10, <1>11, <1>12, <1>13, ZenonT(20)

\* The transaction is erased once every block is home and no pin is left.
LEMMA ClearHeadInv ==
    ASSUME LogInv, NEW p \in Procs, ClearHead(p) PROVE LogInv'
<1> USE DEF LogInv, ClearHead, lvars
<1>1. p \in Committers /\ boot = "up" /\ ~panicked /\ pc[p] = "clear"
  BY ZenonT(40) DEF Committers, Up
<1>2. <<>> \in Seq(Blocks) /\ Len(<<>>) = 0 /\ DOMAIN <<>> = {}
  BY NoElement
<1>3. /\ pc' \in [Procs -> States] /\ pc'[p] = "done"
      /\ \A q \in Procs : q # p => pc'[q] \in {"idle", "asleep", "woken"}
      /\ Active' = {} /\ BootInv' /\ CommitAlone'
      /\ outstanding' = Cardinality(Active') /\ \A q \in Procs : wrote'[q] = {}
  BY ZenonT(40), <1>1, CommitterMoves DEF States
<1>4. TypeOK'
  <2>1. /\ hd' \in Seq(Blocks) /\ Len(hd') <= LOGSIZE /\ Len(hd') <= NLOG - 1
        /\ lh' \in Seq(Blocks) /\ Len(lh') <= LOGSIZE /\ Len(lh') <= NLOG - 1
    BY <1>2
  <2> QED BY <1>3, <2>1, ZenonT(20) DEF TypeOK
<1>5. CallInv' /\ HeaderInv' /\ CommitInv'
  BY <1>1, <1>2, <1>3, ZenonT(20) DEF CallInv, HeaderInv, CommitInv, Injective
<1>6. RecyclableIsClean' /\ PinnedIsCached'
  BY ZenonT(20) DEF RecyclableIsClean, PinnedIsCached
<1>7. PinsAreExact'
  <2>1. tail = Len(lh) /\ DOMAIN lh = 1..Len(lh) /\ Len(lh) \in Nat
    BY <1>1 DEF CommitInv, TypeOK
  <2>2. \A c \in Blocks : pins[c] = 0
    BY <1>1, <2>1 DEF PinsAreExact, Unpinned
  <2> QED BY <1>2, <2>2, ZenonT(20) DEF PinsAreExact
<1> QED BY ZenonT(40), <1>3, <1>4, <1>5, <1>6, <1>7

LEMMA EndCommitInv ==
    ASSUME LogInv, NEW p \in Procs, EndCommit(p) PROVE LogInv'
<1> USE DEF LogInv, EndCommit, dvars, mvars
<1>1. p \in Committers /\ boot = "up" /\ ~panicked /\ pc[p] = "done" /\ lh = <<>>
  BY ZenonT(20) DEF Committers, Up, CommitInv
<1>2. /\ \A q \in Procs : q # p => pc[q] \in {"idle", "asleep", "woken"}
      /\ committing /\ Active = {}
  BY <1>1, Committing, ZenonT(20)
<1>3. /\ pc' \in [Procs -> States]
      /\ \A q \in Procs : pc'[q] \in {"idle", "woken"}
  BY <1>2, ZenonT(20) DEF Wakeup, TypeOK, States
<1>4. Active' = {} /\ Committers' = {}
  BY <1>3, ZenonT(20) DEF Active, Committers
<1>5. hd = <<>>
  BY <1>1, <1>2 DEF HeaderInv
<1>6. TypeOK'
  BY ZenonT(40), <1>3 DEF TypeOK
<1>7. BootInv' /\ CallInv' /\ HeaderInv' /\ CommitInv' /\ CommitAlone'
  BY ZenonT(40), <1>1, <1>2, <1>3, <1>4, <1>5
  DEF BootInv, CallInv, HeaderInv, CommitInv, CommitAlone
<1>8. PinsAreExact' /\ RecyclableIsClean' /\ PinnedIsCached'
  BY <1>1, <1>2, <1>3, ZenonT(20) DEF PinsAreExact, RecyclableIsClean, PinnedIsCached, Unpinned
<1> QED BY <1>6, <1>7, <1>8, ZenonT(20)

\* During recovery no process runs.
LEMMA Booting ==
    ASSUME LogInv, boot # "up"
    PROVE  /\ ~panicked /\ ~committing
           /\ Active = {} /\ Committers = {}
           /\ \A p \in Procs : pc[p] = "idle"
           /\ \A b \in Blocks : pins[b] = 0
<1>1. ~panicked /\ (\A p \in Procs : pc[p] = "idle") /\ \A b \in Blocks : pins[b] = 0
  BY ZenonT(20) DEF LogInv, BootInv
<1>2. Active = {} /\ Committers = {}
  BY <1>1, ZenonT(20) DEF Active, Committers
<1>3. ~committing
  BY <1>2, ZenonT(20) DEF LogInv, CommitAlone
<1> QED BY <1>1, <1>2, <1>3, ZenonT(20)

LEMMA ReadHeadInv ==
    ASSUME LogInv, ReadHead PROVE LogInv'
<1> USE DEF LogInv, ReadHead, dvars, lvars
<1>1. /\ ~panicked /\ ~committing /\ Active = {} /\ Committers = {}
      /\ \A p \in Procs : pc[p] = "idle"
      /\ \A b \in Blocks : pins[b] = 0
  BY Booting, ZenonT(20)
<1>2. Active' = Active /\ Committers' = Committers
  BY ZenonT(20) DEF Active, Committers
<1>3. TypeOK'
  BY DEF TypeOK
<1>4. BootInv' /\ HeaderInv' /\ CommitInv' /\ CommitAlone'
  <2>1. lh' = hd' /\ tail' = 0 /\ 0 <= Len(hd) /\ 1..0 = {}
    BY DEF TypeOK
  <2>2. BootInv'
    BY <1>1, <2>1, ZenonT(20) DEF BootInv
  <2>3. HeaderInv' /\ CommitInv' /\ CommitAlone'
    BY <1>1, <1>2, ZenonT(20) DEF HeaderInv, CommitInv, CommitAlone
  <2> QED BY <2>2, <2>3, ZenonT(20)
<1>5. CallInv'
  BY <1>1, <1>2, ZenonT(20) DEF CallInv
<1>6. PinsAreExact' /\ RecyclableIsClean' /\ PinnedIsCached'
  BY <1>1, ZenonT(20) DEF PinsAreExact, RecyclableIsClean, PinnedIsCached
<1> QED BY <1>3, <1>4, <1>5, <1>6, ZenonT(20)

LEMMA RecoverInstallInv ==
    ASSUME LogInv, RecoverInstall PROVE LogInv'
<1> DEFINE b == lh[tail + 1]
<1> DEFINE d == logd[tail + 1]
<1> USE DEF LogInv, RecoverInstall, InstallBlock, lvars
<1>1. /\ ~panicked /\ ~committing /\ Active = {} /\ Committers = {}
      /\ \A p \in Procs : pc[p] = "idle"
      /\ \A c \in Blocks : pins[c] = 0
  BY Booting, ZenonT(20)
<1>2. Active' = Active /\ Committers' = Committers
  BY ZenonT(20) DEF Active, Committers
<1>3. /\ tail < Len(lh) /\ tail \in Nat /\ tail' = tail + 1 /\ tail + 1 \in DOMAIN lh
      /\ b \in Blocks /\ tail + 1 \in LogBlocks /\ d \in Data /\ lh = hd
      /\ DOMAIN lh = 1..Len(lh) /\ Len(lh) \in Nat
      /\ \A i \in DOMAIN lh : lh[i] \in Blocks
      /\ \A i, j \in DOMAIN lh : lh[i] = lh[j] => i = j
      /\ \A i \in 1..tail : disk[lh[i]] = logd[i]
  BY DEF BootInv, TypeOK, LogBlocks, HeaderInv, Injective
<1>4. TypeOK'
  <2>1. /\ disk' \in [Blocks -> Data] /\ cache' \in [Blocks -> Data \cup {None}]
        /\ tail' \in 0..LOGSIZE
    BY <1>3 DEF TypeOK
  <2> QED BY <2>1, ZenonT(20) DEF TypeOK
<1>5. BootInv'
  <2>1. \A i \in 1..tail' : disk'[lh[i]] = logd[i]
    <3>1. disk' = [disk EXCEPT ![b] = d] /\ disk \in [Blocks -> Data]
      BY ZenonT(20) DEF TypeOK
    <3> HIDE DEF LogInv, RecoverInstall
    <3>2. disk'[b] = d
      BY <1>3, <3>1, ZenonT(20)
    <3>3. ASSUME NEW i \in 1..tail PROVE disk'[lh[i]] = logd[i]
      <4>1. i \in DOMAIN lh /\ lh[i] \in Blocks /\ lh[i] # b
        <5>1. i \in DOMAIN lh /\ tail + 1 \in DOMAIN lh /\ i # tail + 1
          BY <1>3
        <5> QED BY <1>3, <5>1, Zenon
      <4> QED BY <1>3, <3>1, <4>1
    <3>4. \A i \in 1..tail' : i \in 1..tail \/ i = tail + 1
      BY <1>3
    <3> HIDE DEF b, d
    <3>5. lh[tail + 1] = b /\ logd[tail + 1] = d
      BY ZenonT(20) DEF b, d
    <3> QED BY <3>2, <3>3, <3>4, <3>5, Zenon
  <2>2. /\ ~panicked' /\ lh' = lh /\ hd' = hd /\ logd' = logd /\ pins' = pins /\ pc' = pc
        /\ tail' = tail + 1
    BY <1>1, ZenonT(20)
  <2>3. tail' <= Len(lh)
    BY <1>3
  <2> HIDE DEF LogInv, RecoverInstall, InstallBlock, b, d
  <2> QED BY <1>1, <1>3, <2>1, <2>2, <2>3 DEF BootInv
<1>6. HeaderInv' /\ CommitInv' /\ CommitAlone' /\ CallInv'
  BY <1>1, <1>2, ZenonT(20) DEF HeaderInv, CommitInv, CommitAlone, CallInv
<1>7. PinsAreExact' /\ RecyclableIsClean' /\ PinnedIsCached'
  BY <1>1, <1>3, ZenonT(20) DEF PinsAreExact, RecyclableIsClean, PinnedIsCached, TypeOK
<1> QED BY <1>4, <1>5, <1>6, <1>7, ZenonT(20)

LEMMA RecoverClearInv ==
    ASSUME LogInv, RecoverClear PROVE LogInv'
<1> USE DEF LogInv, RecoverClear, lvars
<1>1. /\ ~panicked /\ ~committing /\ Active = {} /\ Committers = {}
      /\ \A p \in Procs : pc[p] = "idle"
      /\ \A b \in Blocks : pins[b] = 0
  BY ZenonT(40), Booting
<1>2. Active' = Active /\ Committers' = Committers
  BY ZenonT(20) DEF Active, Committers
<1>3. <<>> \in Seq(Blocks) /\ Len(<<>>) = 0 /\ DOMAIN <<>> = {}
  BY NoElement
<1>4. TypeOK'
  <2>1. /\ hd' \in Seq(Blocks) /\ Len(hd') <= LOGSIZE /\ Len(hd') <= NLOG - 1
        /\ lh' \in Seq(Blocks) /\ Len(lh') <= LOGSIZE /\ Len(lh') <= NLOG - 1
    BY <1>3
  <2> QED BY <2>1, ZenonT(20) DEF TypeOK
<1>5. BootInv' /\ HeaderInv' /\ CommitInv' /\ CommitAlone'
  BY <1>1, <1>2, <1>3, ZenonT(20) DEF BootInv, HeaderInv, CommitInv, CommitAlone, Injective
<1>6. CallInv'
  BY ZenonT(40), <1>1, <1>2 DEF CallInv
<1>7. PinsAreExact' /\ RecyclableIsClean' /\ PinnedIsCached'
  BY <1>1, <1>3, ZenonT(20) DEF PinsAreExact, RecyclableIsClean, PinnedIsCached
<1> QED BY <1>4, <1>5, <1>6, <1>7

\* A crash forgets everything but the disk, whose log header survives.
LEMMA CrashInv ==
    ASSUME Counting, LogInv, Crash PROVE LogInv'
<1> USE DEF LogInv, Crash
<1>1. <<>> \in Seq(Blocks) /\ Len(<<>>) = 0 /\ DOMAIN <<>> = {}
  BY NoElement
<1>2. Active' = {} /\ Committers' = {} /\ Cardinality(Active') = 0
  <2>1. {} \in SUBSET Procs
    OBVIOUS
  <2>2. Cardinality({}) = 0
    BY ZenonT(40), <2>1 DEF Counting
  <2> QED BY ZenonT(40), <2>2 DEF Active, Committers
<1>3. disk' \in [Blocks -> Data] /\ logd' \in [LogBlocks -> Data]
  BY ZenonT(40) DEF TypeOK, Torn
<1>4. TypeOK'
  <2>1. lh' \in Seq(Blocks) /\ Len(lh') <= LOGSIZE /\ Len(lh') <= NLOG - 1
    BY <1>1
  <2>2. cache' \in [Blocks -> Data \cup {None}] /\ pins' \in [Blocks -> Nat]
    BY ZenonT(20)
  <2>3. pc' \in [Procs -> States] /\ wrote' \in [Procs -> SUBSET Blocks]
    BY ZenonT(20) DEF States
  <2>4. tail' \in 0..LOGSIZE /\ crashes' \in 0..MaxCrashes
    BY DEF TypeOK
  <2> QED BY ZenonT(40), <1>3, <2>1, <2>2, <2>3, <2>4 DEF TypeOK
<1>5. BootInv' /\ HeaderInv' /\ CommitInv' /\ CommitAlone' /\ CallInv'
  BY ZenonT(40), <1>1, <1>2 DEF BootInv, HeaderInv, CommitInv, CommitAlone, CallInv, Injective
<1>6. PinsAreExact' /\ RecyclableIsClean' /\ PinnedIsCached'
  <2>1. boot' = "read_head" /\ \A b \in Blocks : pins'[b] = 0 /\ cache'[b] = None
    BY ZenonT(20)
  <2> HIDE DEF LogInv, Crash
  <2> QED BY <2>1 DEF PinsAreExact, RecyclableIsClean, PinnedIsCached
<1> QED BY <1>4, <1>5, <1>6, ZenonT(20)

LEMMA LogNext ==
    ASSUME Counting, LogInv, [Next]_vars PROVE LogInv'
<1>1. CASE Recovery
  BY <1>1, ReadHeadInv, RecoverInstallInv, RecoverClearInv, ZenonT(20) DEF Recovery
<1>2. CASE \E b \in Blocks : Bread(b) \/ Recycle(b)
  BY <1>2, BreadInv, RecycleInv, ZenonT(20)
<1>3. CASE \E p \in Procs : BeginOp(p) \/ Kill(p) \/ EndOpStep(p)
  BY <1>3, BeginOpInv, KillInv, EndOpInv, CommitStepInv, WriteLogInv, WriteHeadInv,
     InstallTransInv, ClearHeadInv, EndCommitInv, ZenonT(20) DEF EndOpStep
<1>4. CASE \E p \in Procs, b \in Blocks, d \in Data : LogWrite(p, b, d)
  BY <1>4, LogWriteInv, ZenonT(20)
<1>5. CASE Crash
  BY <1>5, CrashInv, ZenonT(20)
<1>6. CASE UNCHANGED vars
  <2> USE <1>6 DEF vars
  <2>1. TypeOK' /\ BootInv'
    BY DEF LogInv, TypeOK, BootInv
  <2>2. CallInv' /\ HeaderInv' /\ CommitAlone'
    BY ZenonT(40) DEF LogInv, CallInv, HeaderInv, CommitAlone, Active, Committers
  <2>3. CommitInv'
    BY ZenonT(20) DEF LogInv, CommitInv, View
  <2>4. PinsAreExact' /\ RecyclableIsClean' /\ PinnedIsCached'
    BY DEF LogInv, PinsAreExact, RecyclableIsClean, PinnedIsCached, Unpinned
  <2> QED BY <2>1, <2>2, <2>3, <2>4, ZenonT(20) DEF LogInv
<1> QED BY <1>1, <1>2, <1>3, <1>4, <1>5, <1>6, ZenonT(20) DEF Next

-----------------------------------------------------------------------------
(* Nobody sleeps in begin_op without a waker.                                *)

LEMMA SleeperNext ==
    ASSUME Counting, LogInv, LogInv', SleeperHasWaker, [Next]_vars PROVE SleeperHasWaker'
<1> SUFFICES ASSUME boot' = "up", ~panicked',
                    NEW r \in Procs, pc'[r] = "asleep"
             PROVE  committing' \/ outstanding' > 0
  BY DEF SleeperHasWaker, Up
<1>a. pc \in [Procs -> States] /\ outstanding \in Nat /\ outstanding' \in Nat
  BY DEF LogInv, TypeOK
<1>b. ASSUME UNCHANGED <<outstanding, committing>>, boot = "up", ~panicked, pc[r] = "asleep"
      PROVE  committing' \/ outstanding' > 0
  BY <1>b, ZenonT(20) DEF SleeperHasWaker, Up
<1>1. CASE Recovery \/ Crash
  BY <1>1, Booting, ZenonT(20) DEF Recovery, ReadHead, RecoverInstall, RecoverClear, Crash, LogInv, TypeOK
<1>2. CASE \E b \in Blocks : Bread(b) \/ Recycle(b)
  <2>1. UNCHANGED <<outstanding, committing>> /\ boot = "up" /\ ~panicked /\ pc' = pc
    BY ZenonT(40), <1>2 DEF Bread, Recycle, lvars, Up
  <2> QED BY <1>b, <2>1
<1>3. CASE \E p \in Procs : BeginOp(p)
  <2>1. PICK p \in Procs : BeginOp(p)
    BY <1>3
  <2>2. CASE committing \/ NoSpace
    <3>1. outstanding' = outstanding /\ committing' = committing /\ boot = "up"
      BY <2>1, <2>2 DEF BeginOp, Up
    <3>2. CASE outstanding = 0 /\ ~committing
      <4>1. Active = {}
        BY <3>2, ActiveCount DEF LogInv, CallInv
      <4>2. lh = <<>>
        BY <4>1, <3>1, <3>2 DEF LogInv, HeaderInv
      <4>3. Len(lh) = 0
        BY <4>2, NoElement
      <4>4. (outstanding + 1) * MAXOPBLOCKS = MAXOPBLOCKS
        BY <3>2
      <4>5. ~NoSpace
        BY <4>3, <4>4 DEF NoSpace
      <4> QED BY <2>2, <3>2, <4>5
    <3> QED BY <1>a, <3>1, <3>2
  <2>3. CASE ~(committing \/ NoSpace)
    BY <1>a, <2>1, <2>3 DEF BeginOp
  <2> QED BY <2>2, <2>3
<1>4. CASE \E p \in Procs : EndOp(p)
  <2>1. PICK p \in Procs : EndOp(p)
    BY <1>4
  <2>2. outstanding' = 0 => committing'
    BY ZenonT(40), <2>1 DEF EndOp
  <2> QED BY <1>a, <2>2
<1>5. CASE \E p \in Procs : EndCommit(p)
  BY <1>5 DEF EndCommit, Wakeup, LogInv, TypeOK
<1>6. CASE \E p \in Procs : \/ Commit(p) \/ WriteLog(p) \/ WriteHead(p)
                            \/ InstallTrans(p) \/ ClearHead(p)
  <2>1. PICK p \in Procs : \/ Commit(p) \/ WriteLog(p) \/ WriteHead(p)
                           \/ InstallTrans(p) \/ ClearHead(p)
    BY <1>6, ZenonT(20)
  <2>2. p \in Committers /\ committing' = committing
    BY <2>1 DEF Commit, WriteLog, WriteHead, InstallTrans, ClearHead, Committers, lvars
  <2> QED BY <2>2, Committing
<1>7. CASE \E p \in Procs : Kill(p)
  <2>1. PICK p \in Procs : Kill(p)
    BY <1>7
  <2>2. pc' = [pc EXCEPT ![p] = "woken"] /\ UNCHANGED <<outstanding, committing>>
        /\ boot = "up" /\ ~panicked
    BY <2>1 DEF Kill, lvars, Up
  <2>3. pc[r] = "asleep"
    BY <1>a, <2>2, ZenonT(20)
  <2> QED BY <1>b, <2>2, <2>3
<1>8. CASE \E p \in Procs, b \in Blocks, d \in Data : LogWrite(p, b, d)
  <2>1. UNCHANGED <<outstanding, committing>> /\ boot = "up" /\ ~panicked /\ pc' = pc
    BY <1>8, ZenonT(20) DEF LogWrite, lvars, Up
  <2> QED BY <1>b, <2>1
<1>9. CASE UNCHANGED vars
  BY <1>9 DEF vars, SleeperHasWaker, Up
<1> QED BY <1>1, <1>2, <1>3, <1>4, <1>5, <1>6, <1>7, <1>8, <1>9 DEF Next, EndOpStep

-------------------------------------------------------------------------------
(* Write-ahead.                                                              *)

LEMMA HomeWrite ==
    ASSUME LogInv, [Next]_vars, NEW b \in Blocks, disk'[b] # disk[b]
    PROVE  b \in Logged(hd)
<1>1. CASE RecoverInstall \/ \E p \in Procs : InstallTrans(p)
  <2>1. InstallBlock /\ hd = lh
    BY <1>1, ZenonT(20) DEF RecoverInstall, InstallTrans, LogInv, BootInv, CommitInv
  <2>2. b = lh[tail + 1] /\ tail + 1 \in DOMAIN lh
    BY <2>1 DEF InstallBlock, LogInv, TypeOK
  <2> QED BY <2>1, <2>2, ZenonT(20) DEF Logged
<1>2. CASE Crash
  <2>1. Installing /\ tail < Len(lh) /\ b = lh[tail + 1]
    BY <1>2, ZenonT(20) DEF Crash, Torn, LogInv, TypeOK
  <2>2. hd = lh /\ tail + 1 \in DOMAIN lh
    <3>1. tail \in Nat /\ lh \in Seq(Blocks)
      BY DEF LogInv, TypeOK
    <3>2. hd = lh
      BY <2>1 DEF Installing, LogInv, BootInv, CommitInv
    <3>3. Len(lh) \in Nat /\ DOMAIN lh = 1..Len(lh) /\ tail < Len(lh)
      BY <2>1, <3>1
    <3>4. tail + 1 \in DOMAIN lh
      BY <3>1, <3>3
    <3> QED BY <3>2, <3>4
  <2> QED BY <2>1, <2>2, ZenonT(20) DEF Logged
<1>3. CASE disk' = disk
  BY <1>3
<1> QED
  BY ZenonT(40), <1>1, <1>2, <1>3 DEF Next, Recovery, EndOpStep, ReadHead, RecoverClear, Bread, Recycle,
     BeginOp, Kill, EndOp, Commit, WriteLog, WriteHead, ClearHead, EndCommit, LogWrite,
     vars, dvars

-------------------------------------------------------------------------------
(* The log implements the atomic disk.  First what recovery makes of a disk,  *)
(* a log and a header, then one lemma per step that changes one of them.     *)

\* Recovery takes a block from its place in the log, or else leaves it alone.
LEMMA RecoverFromValue ==
    ASSUME NEW d, NEW l, NEW h \in Seq(Blocks), Injective(h)
    PROVE  /\ \A i \in DOMAIN h : RecoverFrom(d, l, h)[h[i]] = l[i]
           /\ \A b \in Blocks : b \notin Logged(h) => RecoverFrom(d, l, h)[b] = d[b]
<1>1. ASSUME NEW i \in DOMAIN h PROVE RecoverFrom(d, l, h)[h[i]] = l[i]
  <2>1. h[i] \in Logged(h) /\ h[i] \in Blocks
    BY DEF Logged
  <2>2. (CHOOSE j \in DOMAIN h : h[j] = h[i]) = i
    BY DEF Injective
  <2> QED BY ZenonT(40), <2>1, <2>2 DEF RecoverFrom
<1> QED BY ZenonT(40), <1>1 DEF RecoverFrom

\* A function that agrees with the log, and elsewhere with the disk, is what
\* recovery leaves.
LEMMA RecoverFromIs ==
    ASSUME NEW d, NEW l, NEW h \in Seq(Blocks), Injective(h),
           NEW f \in [Blocks -> Data],
           \A i \in DOMAIN h : f[h[i]] = l[i],
           \A b \in Blocks : b \notin Logged(h) => f[b] = d[b]
    PROVE  RecoverFrom(d, l, h) = f
<1>1. ASSUME NEW b \in Blocks PROVE RecoverFrom(d, l, h)[b] = f[b]
  <2>1. CASE b \in Logged(h)
    <3>1. PICK i \in DOMAIN h : h[i] = b
      BY <2>1, ZenonT(20) DEF Logged
    <3> QED BY <3>1, RecoverFromValue
  <2>2. CASE b \notin Logged(h)
    BY <2>2, RecoverFromValue
  <2> QED BY <2>1, <2>2
<1>2. RecoverFrom(d, l, h) = [b \in Blocks |-> RecoverFrom(d, l, h)[b]]
  BY DEF RecoverFrom
<1> QED BY <1>1, <1>2

\* With an empty header recovery leaves the disk as it is.
LEMMA RecoverFromEmpty ==
    ASSUME NEW d \in [Blocks -> Data], NEW l PROVE RecoverFrom(d, l, <<>>) = d
BY DEF RecoverFrom, Logged

\* The recovered contents and the calls' view are disk contents.
LEMMA ViewType ==
    ASSUME LogInv
    PROVE  /\ Recovered \in [Blocks -> Data]
           /\ \A b \in Blocks : View(b) \in Data
           /\ \A i \in DOMAIN hd : hd[i] \in Blocks /\ Recovered[hd[i]] = logd[i]
           /\ \A b \in Blocks : b \notin Logged(hd) => Recovered[b] = disk[b]
<1>1. \A b \in Blocks : View(b) \in Data
  BY DEF LogInv, TypeOK, View
<1>2. /\ hd \in Seq(Blocks) /\ Injective(hd)
      /\ disk \in [Blocks -> Data] /\ logd \in [LogBlocks -> Data]
      /\ \A i \in DOMAIN hd : i \in LogBlocks /\ hd[i] \in Blocks
  <2>1. /\ hd \in Seq(Blocks) /\ Len(hd) <= NLOG - 1 /\ Injective(hd)
        /\ disk \in [Blocks -> Data] /\ logd \in [LogBlocks -> Data]
    BY ZenonT(20) DEF LogInv, HeaderInv, TypeOK
  <2>2. \A i \in DOMAIN hd : i \in LogBlocks /\ hd[i] \in Blocks
    <3>1. DOMAIN hd = 1..Len(hd) /\ Len(hd) \in Nat /\ \A i \in 1..Len(hd) : hd[i] \in Blocks
      BY <2>1, Lengths
    <3>2. \A i \in 1..Len(hd) : i \in 1..(NLOG - 1)
      BY <2>1, <3>1
    <3> QED BY <3>1, <3>2 DEF LogBlocks
  <2> QED BY <2>1, <2>2, ZenonT(20)
<1>3. /\ \A i \in DOMAIN hd : Recovered[hd[i]] = logd[i]
      /\ \A b \in Blocks : b \notin Logged(hd) => Recovered[b] = disk[b]
  BY <1>2, RecoverFromValue DEF Recovered
<1>4. \A b \in Blocks : Recovered[b] \in Data
  BY <1>2, <1>3 DEF Logged
<1>5. Recovered = [b \in Blocks |-> Recovered[b]]
  BY DEF Recovered, RecoverFrom
<1> QED BY ZenonT(40), <1>1, <1>2, <1>3, <1>4, <1>5

\* Steps that leave the recovered contents, the view and the calls alone map to
\* stuttering.
LEMMA Stutters ==
    ASSUME LogInv, Recovered' = Recovered, boot = "up", boot' = "up", Active' = Active,
           \A b \in Blocks : View(b)' = View(b)
    PROVE  UNCHANGED Atomic!avars
BY DEF Atomic!avars, Current

\* A home location is written with the value that recovery would give it.
LEMMA InstallRecovers ==
    ASSUME LogInv, InstallBlock, hd = lh, UNCHANGED <<hd, logd>>
    PROVE  Recovered' = Recovered
<1> DEFINE c == lh[tail + 1]
<1>1. /\ Recovered \in [Blocks -> Data]
      /\ \A i \in DOMAIN hd : hd[i] \in Blocks /\ Recovered[hd[i]] = logd[i]
      /\ \A b \in Blocks : b \notin Logged(hd) => Recovered[b] = disk[b]
  BY ViewType, ZenonT(20)
<1>2. tail + 1 \in DOMAIN hd /\ c \in Logged(hd)
  BY DEF LogInv, TypeOK, InstallBlock, Logged
<1>3. \A b \in Blocks : b # c => disk'[b] = disk[b]
  BY ZenonT(20) DEF LogInv, TypeOK, InstallBlock
<1>4. hd' \in Seq(Blocks) /\ Injective(hd')
  BY DEF LogInv, TypeOK, HeaderInv
<1>5. \A i \in DOMAIN hd' : Recovered[hd'[i]] = logd'[i]
  BY <1>1, ZenonT(20)
<1>6. \A b \in Blocks : b \notin Logged(hd') => Recovered[b] = disk'[b]
  BY <1>1, <1>2, <1>3, ZenonT(20)
<1>7. RecoverFrom(disk', logd', hd') = Recovered
  BY <1>1, <1>4, <1>5, <1>6, RecoverFromIs
<1> QED BY <1>7 DEF Recovered

\* When every block of the header is home, the header can go.
LEMMA EraseRecovers ==
    ASSUME LogInv, hd' = <<>>, UNCHANGED <<disk, logd>>,
           \A i \in DOMAIN hd : disk[hd[i]] = logd[i]
    PROVE  Recovered' = Recovered /\ Recovered = disk
<1>1. /\ disk \in [Blocks -> Data] /\ hd \in Seq(Blocks) /\ Injective(hd)
  BY DEF LogInv, TypeOK, HeaderInv
<1>2. RecoverFrom(disk, logd, hd) = disk
  <2>1. /\ \A i \in DOMAIN hd : RecoverFrom(disk, logd, hd)[hd[i]] = logd[i]
        /\ \A b \in Blocks : b \notin Logged(hd) => RecoverFrom(disk, logd, hd)[b] = disk[b]
    BY <1>1, RecoverFromValue
  <2>2. \A b \in Blocks : RecoverFrom(disk, logd, hd)[b] = disk[b]
    BY <2>1 DEF Logged
  <2>3. RecoverFrom(disk, logd, hd) = [b \in Blocks |-> RecoverFrom(disk, logd, hd)[b]]
    BY DEF RecoverFrom
  <2> QED BY <1>1, <2>2, <2>3, ZenonT(20)
<1>3. RecoverFrom(disk', logd', hd') = disk
  BY <1>1, RecoverFromEmpty
<1> QED BY <1>2, <1>3, ZenonT(20) DEF Recovered

LEMMA RecoveryRefines ==
    ASSUME LogInv, Recovery PROVE UNCHANGED Atomic!avars
<1>1. Active = {} /\ Active' = {} /\ boot # "up" /\ \A b \in Blocks : pins[b] = 0
  BY Booting, ZenonT(20) DEF Recovery, ReadHead, RecoverInstall, RecoverClear, Active
<1>2. CASE ReadHead
  BY <1>1, <1>2, ZenonT(20) DEF ReadHead, Atomic!avars, Current, Recovered, dvars
<1>3. CASE RecoverInstall
  <2>1. Recovered' = Recovered
    BY <1>3, InstallRecovers, ZenonT(20) DEF RecoverInstall, LogInv, BootInv
  <2> QED BY <1>1, <1>3, <2>1, ZenonT(20) DEF RecoverInstall, Atomic!avars, Current
<1>4. CASE RecoverClear
  <2>1. lh = hd /\ tail = Len(lh) /\ \A i \in DOMAIN hd : disk[hd[i]] = logd[i]
    BY <1>4 DEF RecoverClear, LogInv, BootInv, TypeOK
  <2>2. Recovered' = Recovered /\ Recovered = disk
    BY <1>4, <2>1, EraseRecovers, ZenonT(20) DEF RecoverClear
  <2>3. \A b \in Blocks : View(b)' = disk[b]
    BY <1>1, <1>4, Booting, ZenonT(20) DEF RecoverClear, View, LogInv, RecyclableIsClean
  <2>4. Current' = [b \in Blocks |-> disk[b]]
    BY <1>4, <2>3 DEF RecoverClear, Current
  <2>5. Current = [b \in Blocks |-> disk[b]]
    BY <1>1, <2>2 DEF Current
  <2> QED BY <1>1, <2>2, <2>4, <2>5, ZenonT(20) DEF Atomic!avars
<1> QED BY <1>2, <1>3, <1>4, ZenonT(20) DEF Recovery

\* begin_op, log_write and end_op are the operations of AtomicDisk.
LEMMA CallRefines ==
    ASSUME LogInv, NEW p \in Procs
    PROVE  /\ BeginOp(p) => Atomic!Begin(p) \/ UNCHANGED Atomic!avars
           /\ EndOp(p) => Atomic!End(p)
           /\ \A b \in Blocks, d \in Data : LogWrite(p, b, d) => Atomic!Write(p, b, d)
<1>1. ASSUME BeginOp(p) PROVE Atomic!Begin(p) \/ UNCHANGED Atomic!avars
  <2>1. Recovered' = Recovered /\ Current' = Current
    BY <1>1 DEF BeginOp, Recovered, Current, View, dvars, mvars
  <2>2. CASE committing \/ NoSpace
    <3>1. Active' = Active
      BY <1>1, <2>2, ZenonT(20) DEF BeginOp, Active, LogInv, TypeOK
    <3> QED BY <2>1, <3>1, ZenonT(20) DEF Atomic!avars
  <2>3. CASE ~(committing \/ NoSpace)
    <3>1. Active' = Active \cup {p} /\ p \notin Active
      BY <1>1, <2>3, ZenonT(20) DEF BeginOp, Active, LogInv, TypeOK
    <3> QED BY <2>1, <3>1, ZenonT(20) DEF Atomic!Begin
  <2> QED BY <2>2, <2>3, ZenonT(20)
<1>2. ASSUME EndOp(p) PROVE Atomic!End(p)
  <2>1. Recovered' = Recovered /\ Current' = Current
    BY <1>2 DEF EndOp, Recovered, Current, View, dvars, mvars
  <2>2. p \in Active /\ Active' = Active \ {p}
    <3>1. CASE outstanding' = 0
      BY <1>2, <3>1, ZenonT(20) DEF EndOp, Active, LogInv, TypeOK
    <3>2. CASE outstanding' # 0
      BY <1>2, <3>2, ZenonT(20) DEF EndOp, Wakeup, Active, LogInv, TypeOK
    <3> QED BY <3>1, <3>2, ZenonT(20)
  <2> QED BY <2>1, <2>2, ZenonT(20) DEF Atomic!End
<1>3. ASSUME NEW b \in Blocks, NEW d \in Data, LogWrite(p, b, d) PROVE Atomic!Write(p, b, d)
  <2>1. Recovered' = Recovered /\ Active' = Active /\ p \in Active /\ boot = "up" /\ boot' = "up"
    BY <1>3, ZenonT(20) DEF LogWrite, Recovered, Active, dvars, Up
  <2>2. cache' = [cache EXCEPT ![b] = d] /\ disk' = disk
        /\ cache \in [Blocks -> Data \cup {None}]
    BY <1>3, ZenonT(20) DEF LogWrite, dvars, LogInv, TypeOK
  <2>3. \A c \in Blocks : View(c)' = IF c = b THEN d ELSE View(c)
    BY <1>3, <2>2 DEF View
  <2>4. Current' = [Current EXCEPT ![b] = d]
    BY ZenonT(40), <2>1, <2>3 DEF Current
  <2> QED BY <2>1, <2>4, ZenonT(20) DEF Atomic!Write
<1> QED BY <1>1, <1>2, <1>3

\* write_head is AtomicDisk's Commit; the other steps of commit() are invisible.
LEMMA CommitRefines ==
    ASSUME LogInv, NEW p \in Procs
    PROVE  /\ WriteHead(p) => Atomic!Commit
           /\ Commit(p) \/ WriteLog(p) \/ InstallTrans(p) \/ ClearHead(p) \/ EndCommit(p)
                  => UNCHANGED Atomic!avars
<1>1. ASSUME WriteHead(p) PROVE Atomic!Commit
  <2>1. p \in Committers /\ pc[p] = "write_head" /\ boot = "up" /\ ~panicked
    BY <1>1, ZenonT(20) DEF WriteHead, Committers, Up
  <2>2. Active = {} /\ Active' = {}
    BY <1>1, <2>1, Committing, ZenonT(20) DEF WriteHead, Active, LogInv, TypeOK
  <2>3. Current' = Current
    BY <1>1, <2>1, ZenonT(20) DEF WriteHead, Current, View, mvars
  <2>4. Current \in [Blocks -> Data] /\ \A b \in Blocks : Current[b] = View(b)
    BY <2>1, ViewType, ZenonT(20) DEF Current
  <2>5. \A i \in DOMAIN lh : Current[lh[i]] = logd[i]
    BY <2>1, <2>4 DEF LogInv, CommitInv, TypeOK
  <2>6. \A b \in Blocks : b \notin Logged(lh) => Current[b] = disk[b]
    BY <2>1, <2>4, LoggedIsCached, ZenonT(20) DEF LogInv, RecyclableIsClean, View
  <2>7. lh \in Seq(Blocks) /\ Injective(lh)
    BY ZenonT(20) DEF LogInv, TypeOK, HeaderInv
  <2>8. RecoverFrom(disk, logd, lh) = Current
    BY <2>4, <2>5, <2>6, <2>7, RecoverFromIs
  <2>9. Recovered' = Current
    BY <1>1, <2>8 DEF WriteHead, Recovered
  <2> QED BY <2>2, <2>3, <2>9, ZenonT(20) DEF Atomic!Commit
<1>2. ASSUME Commit(p) \/ WriteLog(p) \/ InstallTrans(p) \/ ClearHead(p) \/ EndCommit(p)
      PROVE  UNCHANGED Atomic!avars
  <2>1. p \in Committers /\ boot = "up" /\ boot' = "up" /\ ~panicked
    BY <1>2, ZenonT(20) DEF Commit, WriteLog, InstallTrans, ClearHead, EndCommit, Committers, Up
  <2>2. Active = {} /\ \A q \in Procs : q # p => pc[q] \in {"idle", "asleep", "woken"}
    BY <2>1, Committing, ZenonT(20)
  <2>3. Active' = {}
    <3>1. \A q \in Procs : pc'[q] # "op"
      BY ZenonT(40), <1>2, <2>2 DEF Commit, WriteLog, InstallTrans, ClearHead, EndCommit, Wakeup, LogInv, TypeOK
    <3> QED BY <3>1, ZenonT(20) DEF Active
  <2>4. CASE Commit(p) \/ EndCommit(p)
    BY <2>4, <2>1, <2>2, <2>3, ZenonT(20) DEF Commit, EndCommit, Recovered, Current, View, dvars, mvars,
       Atomic!avars
  <2>5. CASE WriteLog(p)
    <3>1. hd = <<>> /\ hd' = <<>> /\ disk' = disk /\ disk \in [Blocks -> Data]
      BY ZenonT(40), <2>1, <2>2, <2>5 DEF WriteLog, LogInv, HeaderInv, TypeOK
    <3>2. Recovered' = Recovered
      BY <3>1, RecoverFromEmpty, ZenonT(20) DEF Recovered
    <3>3. \A b \in Blocks : View(b)' = View(b)
      BY <2>5, <3>1, ViewType, ZenonT(20) DEF WriteLog, View, LogInv, TypeOK
    <3> QED BY <2>1, <2>2, <2>3, <3>2, <3>3, Stutters, ZenonT(20)
  <2>6. CASE InstallTrans(p)
    <3>1. hd = lh /\ tail + 1 \in DOMAIN lh /\ InstallBlock /\ View(lh[tail + 1]) = logd[tail + 1]
      BY <2>6 DEF InstallTrans, InstallBlock, LogInv, CommitInv, TypeOK
    <3>2. Recovered' = Recovered
      BY <2>6, <3>1, InstallRecovers DEF InstallTrans
    <3>3. \A b \in Blocks : View(b)' = View(b)
      <4> DEFINE c == lh[tail + 1]
      <4>1. c \in Blocks /\ View(c) \in Data
        BY <3>1, ViewType, ZenonT(20) DEF LogInv, TypeOK
      <4>2. /\ disk \in [Blocks -> Data] /\ cache \in [Blocks -> Data \cup {None}]
            /\ disk' = [disk EXCEPT ![c] = View(c)] /\ cache' = [cache EXCEPT ![c] = View(c)]
        BY <3>1, ZenonT(20) DEF InstallBlock, LogInv, TypeOK
      <4> HIDE DEF c
      <4> QED BY <4>1, <4>2, ZenonT(20) DEF View
    <3> QED BY <2>1, <2>2, <2>3, <3>2, <3>3, Stutters
  <2>7. CASE ClearHead(p)
    <3>1. hd = lh /\ \A i \in DOMAIN hd : disk[hd[i]] = logd[i]
      <4>1. /\ hd = lh /\ tail = Len(lh) /\ lh \in Seq(Blocks)
            /\ \A i \in DOMAIN lh : i <= tail => disk[lh[i]] = logd[i]
        BY <2>7, ZenonT(20) DEF ClearHead, LogInv, CommitInv, TypeOK
      <4> QED BY <4>1, Lengths
    <3>2. Recovered' = Recovered
      BY <2>7, <3>1, EraseRecovers, ZenonT(20) DEF ClearHead
    <3>3. \A b \in Blocks : View(b)' = View(b)
      BY <2>7 DEF ClearHead, View
    <3> QED BY <2>1, <2>2, <2>3, <3>2, <3>3, Stutters
  <2> QED BY <1>2, <2>4, <2>5, <2>6, <2>7, ZenonT(20)
<1> QED BY <1>1, <1>2

\* A crash, torn write included, loses the calls' view and nothing else.
LEMMA CrashRefines ==
    ASSUME LogInv, Crash PROVE Atomic!Crash
<1>1. Active' = {}
  BY ZenonT(20) DEF Crash, Active
<1>2. /\ Recovered \in [Blocks -> Data]
      /\ \A i \in DOMAIN hd : hd[i] \in Blocks /\ Recovered[hd[i]] = logd[i]
      /\ \A b \in Blocks : b \notin Logged(hd) => Recovered[b] = disk[b]
  BY ViewType, ZenonT(20)
<1>3. \A b \in Blocks : b \notin Logged(hd) => disk'[b] = disk[b]
  BY HomeWrite, ZenonT(20) DEF Next
<1>4. \A i \in DOMAIN hd : logd'[i] = logd[i]
  <2>1. CASE Logging
    <3>1. PICK p \in Procs : pc[p] = "write_log"
      BY <2>1 DEF Logging
    <3>2. boot = "up" /\ \A q \in Procs : pc[q] \notin {"install_trans", "clear"}
      BY <3>1, Committing, ZenonT(20) DEF Committers
    <3>3. hd = <<>>
      BY <3>2, ZenonT(20) DEF LogInv, HeaderInv
    <3> QED BY <3>3
  <2>2. CASE ~Logging
    BY <2>2, ZenonT(20) DEF Crash, Torn
  <2> QED BY <2>1, <2>2, ZenonT(20)
<1>5. hd' = hd /\ hd \in Seq(Blocks) /\ Injective(hd)
  BY ZenonT(20) DEF Crash, LogInv, TypeOK, HeaderInv
<1>6. \A i \in DOMAIN hd : Recovered[hd[i]] = logd'[i]
  BY <1>2, <1>4, ZenonT(20)
<1>7. \A b \in Blocks : b \notin Logged(hd) => Recovered[b] = disk'[b]
  BY <1>2, <1>3, ZenonT(20)
<1>8. RecoverFrom(disk', logd', hd) = Recovered
  BY <1>2, <1>5, <1>6, <1>7, RecoverFromIs
<1>9. Recovered' = Recovered
  BY <1>5, <1>8, ZenonT(20) DEF Recovered
<1>10. Current' = Recovered
  BY <1>2, <1>9, ZenonT(20) DEF Current, Crash
<1> QED BY <1>1, <1>9, <1>10, ZenonT(20) DEF Atomic!Crash

LEMMA StepRefines ==
    ASSUME LogInv, [Next]_vars PROVE [Atomic!Next]_(Atomic!avars)
<1> SUFFICES Atomic!Next \/ UNCHANGED Atomic!avars
  OBVIOUS
<1>1. CASE Recovery
  BY <1>1, RecoveryRefines, ZenonT(20)
<1>2. CASE \E b \in Blocks : Bread(b) \/ Recycle(b)
  <2>1. PICK c \in Blocks : Bread(c) \/ Recycle(c)
    BY <1>2, ZenonT(20)
  <2>2. \A b \in Blocks : View(b)' = View(b)
    BY <2>1, ZenonT(20) DEF Bread, Recycle, View, dvars, LogInv, TypeOK, RecyclableIsClean, Up
  <2>3. Recovered' = Recovered /\ Active' = Active /\ boot = "up" /\ boot' = "up"
    BY <2>1, ZenonT(20) DEF Bread, Recycle, Recovered, Active, dvars, Up
  <2> QED BY <2>2, <2>3, Stutters, ZenonT(20)
<1>3. CASE \E p \in Procs : Kill(p)
  <2>1. Recovered' = Recovered /\ Current' = Current /\ Active' = Active
    BY <1>3, ZenonT(20) DEF Kill, Recovered, Current, View, Active, dvars, mvars, LogInv, TypeOK
  <2> QED BY <2>1, ZenonT(20) DEF Atomic!avars
<1>4. CASE \E p \in Procs : BeginOp(p) \/ EndOpStep(p)
  BY <1>4, CallRefines, CommitRefines, ZenonT(20) DEF EndOpStep, Atomic!Next
<1>5. CASE \E p \in Procs, b \in Blocks, d \in Data : LogWrite(p, b, d)
  BY <1>5, CallRefines, ZenonT(20) DEF Atomic!Next
<1>6. CASE Crash
  BY <1>6, CrashRefines, ZenonT(20) DEF Atomic!Next
<1>7. CASE UNCHANGED vars
  BY <1>7 DEF vars, Atomic!avars, Recovered, Current, View, Active
<1> QED BY <1>1, <1>2, <1>3, <1>4, <1>5, <1>6, <1>7, ZenonT(20) DEF Next

LEMMA InitRefines ==
    ASSUME Counting, Init PROVE Atomic!Init
<1>1. Recovered \in [Blocks -> Data]
  BY LogInit, ViewType, ZenonT(20)
<1>2. Current = Recovered
  BY <1>1, ZenonT(20) DEF Init, Current
<1>3. Active = {}
  BY DEF Init, Active
<1> QED BY <1>1, <1>2, <1>3, ZenonT(20) DEF Atomic!Init

-------------------------------------------------------------------------------
(* Counting processes and blocks.                                            *)

INSTANCE FiniteSetTheorems

LEMMA SetsCount == Counting
<1> SUFFICES ASSUME NEW S \in SUBSET Procs
             PROVE  /\ Cardinality(S) \in Nat /\ (Cardinality(S) = 0 <=> S = {})
                    /\ \A p \in Procs \ S : Cardinality(S \cup {p}) = Cardinality(S) + 1
                    /\ \A p \in S : Cardinality(S \ {p}) = Cardinality(S) - 1
  BY ZenonT(40) DEF Counting
<1>1. IsFiniteSet(S)
  BY ZenonT(40), LogSets, FS_Subset
<1>2. Cardinality(S) \in Nat /\ (Cardinality(S) = 0 <=> S = {})
  BY ZenonT(40), <1>1, FS_CardinalityType, FS_EmptySet
<1>3. ASSUME NEW p \in Procs \ S PROVE Cardinality(S \cup {p}) = Cardinality(S) + 1
  BY ZenonT(40), <1>1, FS_AddElement
<1>4. ASSUME NEW p \in S PROVE Cardinality(S \ {p}) = Cardinality(S) - 1
  BY ZenonT(40), <1>1, FS_RemoveElement
<1> QED BY ZenonT(40), <1>2, <1>3, <1>4

LEMMA FiniteSubsets == \A S \in SUBSET Procs : IsFiniteSet(S)
BY ZenonT(40), LogSets, FS_Subset

-------------------------------------------------------------------------------
(* The invariant and what follows from it.                                   *)

\* log.c keeps its structural invariant through calls, commits and crashes.
THEOREM LogSafe == Spec => []LogInv
<1>1. Counting
  BY SetsCount, ZenonT(20)
<1>2. (Init => LogInv) /\ (LogInv /\ [Next]_vars => LogInv')
  BY <1>1, LogInit, LogNext, ZenonT(20)
<1> QED BY <1>2, PTL DEF Spec

\* The state of log.c and of the disk keeps its shape; in particular no counter
\* goes below zero and no log entry lies outside the on-disk log.
THEOREM LogTypes == Spec => []TypeOK
<1>1. LogInv => TypeOK
  BY ZenonT(20) DEF LogInv
<1> QED BY <1>1, LogSafe, PTL

\* "The logging system only commits when there are no FS system calls active".
THEOREM CommitsAlone == Spec => []CommitAlone
<1>1. LogInv => CommitAlone
  BY DEF LogInv
<1> QED BY <1>1, LogSafe, PTL

\* Exactly the logged blocks not yet home are pinned, and what the buffer cache
\* may recycle is on disk.
THEOREM CacheKeepsUpdates == Spec => [](PinsAreExact /\ RecyclableIsClean)
<1>1. LogInv => PinsAreExact /\ RecyclableIsClean
  BY DEF LogInv
<1> QED BY <1>1, LogSafe, PTL

\* A process asleep in begin_op always has an active call or a commit to wake it,
\* for any number of processes and any log size that holds one call.
THEOREM SleepersAreWatched == Spec => []SleeperHasWaker
<1>1. Init => SleeperHasWaker
  BY ZenonT(20) DEF Init, SleeperHasWaker, Up
<1>2. Spec => []LogInv
  BY LogSafe, ZenonT(20)
<1>3. LogInv /\ LogInv' /\ SleeperHasWaker /\ [Next]_vars => SleeperHasWaker'
  BY SetsCount, SleeperNext, ZenonT(20)
<1> QED BY <1>1, <1>2, <1>3, PTL DEF Spec

\* No home location is written, whole or torn, before the header that lists it.
THEOREM HomeWritesAreLogged == Spec => WriteAhead
<1>1. LogInv /\ [Next]_vars => [\A b \in Blocks : disk'[b] # disk[b] => b \in Logged(hd)]_vars
  BY HomeWrite, ZenonT(20)
<1>2. Spec => []LogInv
  BY LogSafe
<1> QED BY <1>1, <1>2, PTL DEF Spec, WriteAhead

\* The log implements the atomic disk: whatever the interleaving and wherever the
\* machine crashes, recovery finds the outcome of complete groups of calls.
THEOREM LogIsAtomic == Spec => AtomicSpec
<1>1. Spec => []LogInv
  BY LogSafe
<1>2. (Init => Atomic!Init) /\ (LogInv /\ [Next]_vars => [Atomic!Next]_(Atomic!avars))
  BY SetsCount, InitRefines, StepRefines, ZenonT(20)
<1> QED BY <1>1, <1>2, PTL DEF Spec, AtomicSpec, Atomic!Spec

-------------------------------------------------------------------------------
(* Log space.  An active call that has written k distinct blocks still holds *)
(* the reservations k+1..MAXOPBLOCKS; entries and reservations fit the log.  *)

Reserved ==
    {r \in Procs \X (1..MAXOPBLOCKS) :
        pc[r[1]] = "op" /\ r[2] > Cardinality(wrote[r[1]])}

SpaceInv == Len(lh) + Cardinality(Reserved) <= LOGSIZE

\* The reservations are finitely many, at most MAXOPBLOCKS for each active call.
LEMMA ReservedFinite ==
    LogInv =>
        /\ IsFiniteSet(Reserved) /\ Cardinality(Reserved) \in Nat
        /\ Cardinality(Reserved) <= outstanding * MAXOPBLOCKS
        /\ \A p \in Procs : IsFiniteSet(wrote[p]) /\ Cardinality(wrote[p]) \in Nat
<1> HAVE LogInv
<1>1. IsFiniteSet(1..MAXOPBLOCKS) /\ Cardinality(1..MAXOPBLOCKS) = MAXOPBLOCKS
  BY FS_Interval
<1>2. /\ IsFiniteSet(Active \X (1..MAXOPBLOCKS))
      /\ Cardinality(Active \X (1..MAXOPBLOCKS)) = Cardinality(Active) * Cardinality(1..MAXOPBLOCKS)
  BY ZenonT(40), <1>1, FiniteSubsets, FS_Product DEF Active
<1>3. Reserved \in SUBSET (Active \X (1..MAXOPBLOCKS))
  BY ZenonT(20) DEF Reserved, Active
<1>4. IsFiniteSet(Reserved) /\ Cardinality(Reserved) \in Nat
  BY <1>2, <1>3, FS_Subset, FS_CardinalityType, ZenonT(20)
<1>5. Cardinality(Reserved) <= Cardinality(Active \X (1..MAXOPBLOCKS))
  BY <1>2, <1>3, FS_Subset, ZenonT(20)
<1>6. outstanding = Cardinality(Active)
  BY ZenonT(20) DEF LogInv, CallInv
<1>7. ASSUME NEW p \in Procs PROVE IsFiniteSet(wrote[p]) /\ Cardinality(wrote[p]) \in Nat
  <2>1. wrote[p] \in SUBSET Blocks
    BY ZenonT(20) DEF LogInv, TypeOK
  <2> QED BY <2>1, FS_Subset, FS_CardinalityType, ZenonT(20)
<1> QED BY <1>1, <1>2, <1>4, <1>5, <1>6, <1>7, ZenonT(20)

LEMMA ReservedBound ==
    LogInv => Cardinality(Reserved) \in Nat /\ Cardinality(Reserved) <= outstanding * MAXOPBLOCKS
BY ReservedFinite, ZenonT(20)

\* A call within its budget finds room in the log.
LEMMA RoomInLog ==
    ASSUME LogInv, SpaceInv, NEW p \in Procs, pc[p] = "op", NEW b \in Blocks,
           Cardinality(wrote[p] \cup {b}) <= OpBlocks,
           OpBlocks < MAXOPBLOCKS, LOGSIZE - MAXOPBLOCKS + OpBlocks < NLOG - 1
    PROVE  ~TooBig
<1> DEFINE K == {p} \X ((OpBlocks + 1)..MAXOPBLOCKS)
<1>1. Cardinality(wrote[p]) <= OpBlocks /\ Cardinality(wrote[p]) \in Nat
  <2>1. IsFiniteSet(wrote[p]) /\ Cardinality(wrote[p]) \in Nat
    BY ReservedFinite, ZenonT(20)
  <2>2. Cardinality(wrote[p] \cup {b}) = IF b \in wrote[p] THEN Cardinality(wrote[p])
                                         ELSE Cardinality(wrote[p]) + 1
    BY ZenonT(40), <2>1, FS_AddElement
  <2> QED BY <2>1, <2>2
<1>2. /\ IsFiniteSet((OpBlocks + 1)..MAXOPBLOCKS)
      /\ Cardinality((OpBlocks + 1)..MAXOPBLOCKS) = MAXOPBLOCKS - OpBlocks
  <2>1. OpBlocks + 1 \in Int /\ MAXOPBLOCKS \in Int /\ ~(OpBlocks + 1 > MAXOPBLOCKS)
        /\ MAXOPBLOCKS - (OpBlocks + 1) + 1 = MAXOPBLOCKS - OpBlocks
    OBVIOUS
  <2> QED BY <2>1, FS_Interval, ZenonT(20)
<1>3. IsFiniteSet({p}) /\ Cardinality({p}) = 1
  BY ZenonT(40), FS_Singleton
<1>4. Cardinality(K) = MAXOPBLOCKS - OpBlocks
  <2>1. Cardinality(K) = Cardinality({p}) * Cardinality((OpBlocks + 1)..MAXOPBLOCKS)
    BY ZenonT(40), <1>2, <1>3, FS_Product
  <2> QED BY <1>2, <1>3, <2>1
<1>5. K \in SUBSET Reserved
  BY <1>1 DEF Reserved
<1>6. Cardinality(K) <= Cardinality(Reserved)
  BY <1>5, ReservedFinite, FS_Subset, ZenonT(20)
<1>7. Len(lh) \in Nat /\ Len(lh) <= LOGSIZE - MAXOPBLOCKS + OpBlocks
  <2>1. Cardinality(Reserved) \in Nat
    BY ReservedFinite, ZenonT(20)
  <2>2. Len(lh) \in Nat
    BY DEF LogInv, TypeOK
  <2> QED BY <1>4, <1>6, <2>1, <2>2 DEF SpaceInv
<1> QED BY <1>7 DEF TooBig

LEMMA SpaceNext ==
    ASSUME LogInv, LogInv', SpaceInv, [Next]_vars PROVE SpaceInv'
<1> DEFINE R == Cardinality(Reserved)
<1>0. (LogInv => Cardinality(Reserved) \in Nat
                 /\ Cardinality(Reserved) <= outstanding * MAXOPBLOCKS)'
  BY ReservedBound, PTL
<1>1. /\ IsFiniteSet(Reserved) /\ R \in Nat /\ R' \in Nat
      /\ Len(lh) \in Nat /\ Len(lh') \in Nat
  <2>1. IsFiniteSet(Reserved) /\ R \in Nat /\ R' \in Nat
    BY <1>0, ReservedFinite, ZenonT(20)
  <2>2. Len(lh) \in Nat /\ Len(lh') \in Nat
    BY DEF LogInv, TypeOK
  <2> QED BY <2>1, <2>2, ZenonT(20)
<1>2. ASSUME Reserved' \in SUBSET Reserved, Len(lh') <= Len(lh) PROVE SpaceInv'
  <2>1. R' <= R
    BY <1>1, <1>2, FS_Subset, ZenonT(20)
  <2> QED BY <1>1, <1>2, <2>1 DEF SpaceInv
<1>3. CASE Recovery \/ Crash
  <2>1. Active' = {}
    BY <1>3, Booting, ZenonT(20) DEF Recovery, ReadHead, RecoverInstall, RecoverClear, Crash, Active
  <2>2. Reserved' = {}
    BY <2>1, ZenonT(20) DEF Active, Reserved
  <2>3. R' = 0
    BY <2>2, FS_EmptySet, ZenonT(20)
  <2> QED BY <1>1, <2>3 DEF SpaceInv, LogInv, TypeOK
<1>4. CASE \E p \in Procs : BeginOp(p)
  <2>1. PICK p \in Procs : BeginOp(p)
    BY <1>4, ZenonT(20)
  <2>2. CASE committing \/ NoSpace
    <3>1. Reserved' \in SUBSET Reserved /\ lh' = lh
      BY <2>1, <2>2 DEF BeginOp, Reserved, mvars, LogInv, TypeOK
    <3> QED BY <1>1, <1>2, <3>1
  <2>3. CASE ~(committing \/ NoSpace)
    <3>1. outstanding' = outstanding + 1 /\ lh' = lh
      BY <2>1, <2>3, ZenonT(20) DEF BeginOp, mvars
    <3>2. R' <= outstanding' * MAXOPBLOCKS
      BY <1>0, ZenonT(20)
    <3>3. Len(lh) + (outstanding + 1) * MAXOPBLOCKS <= LOGSIZE
      BY <1>1, <2>3 DEF NoSpace, LogInv, TypeOK
    <3> QED BY <1>1, <3>1, <3>2, <3>3 DEF SpaceInv, LogInv, TypeOK
  <2> QED BY <2>2, <2>3, ZenonT(20)
<1>5. CASE \E p \in Procs, b \in Blocks, d \in Data : LogWrite(p, b, d)
  <2>1. PICK p \in Procs, b \in Blocks, d \in Data : LogWrite(p, b, d)
    BY <1>5, ZenonT(20)
  <2>2. /\ wrote' = [wrote EXCEPT ![p] = @ \cup {b}] /\ pc' = pc
        /\ pc[p] = "op" /\ wrote \in [Procs -> SUBSET Blocks]
        /\ Cardinality(wrote[p] \cup {b}) <= OpBlocks
    BY <2>1, ZenonT(20) DEF LogWrite, LogInv, TypeOK
  <2>3. /\ IsFiniteSet(wrote[p]) /\ Cardinality(wrote[p]) \in Nat
        /\ Cardinality(wrote[p] \cup {b}) = IF b \in wrote[p] THEN Cardinality(wrote[p])
                                            ELSE Cardinality(wrote[p]) + 1
    BY ZenonT(40), ReservedFinite, FS_AddElement
  <2>4. Reserved' \in SUBSET Reserved
    BY <2>2, <2>3 DEF Reserved
  <2>5. CASE lh' = lh
    BY <1>1, <1>2, <2>4, <2>5
  <2>6. CASE lh' # lh
    <3> DEFINE r == <<p, Cardinality(wrote[p]) + 1>>
    <3>1. lh' = Append(lh, b) /\ b \notin Logged(lh) /\ ~panicked
      BY <2>1, <2>6, ZenonT(20) DEF LogWrite, Up
    <3>2. Len(lh') = Len(lh) + 1
      BY <3>1, AppendLogged, ZenonT(20) DEF LogInv, TypeOK
    <3>3. b \notin wrote[p]
      BY <3>1, ZenonT(20) DEF LogInv, CallInv
    <3>4. r \in Reserved /\ r \notin Reserved'
      BY <2>2, <2>3, <3>3 DEF Reserved
    <3>5. Reserved' \in SUBSET (Reserved \ {r})
      BY <2>4, <3>4, ZenonT(20)
    <3>6. IsFiniteSet(Reserved \ {r}) /\ Cardinality(Reserved \ {r}) = R - 1
      BY <1>1, <3>4, FS_RemoveElement
    <3>7. R' <= R - 1
      BY <3>5, <3>6, FS_Subset, ZenonT(20)
    <3> QED BY <1>1, <3>2, <3>7 DEF SpaceInv
  <2> QED BY <2>5, <2>6, ZenonT(20)
<1>6. CASE \E p \in Procs : EndOp(p)
  <2>1. Reserved' \in SUBSET Reserved /\ lh' = lh
    BY <1>6 DEF EndOp, Wakeup, Reserved, mvars, LogInv, TypeOK
  <2> QED BY <1>1, <1>2, <2>1
<1>7. CASE \E p \in Procs : \/ Commit(p) \/ WriteLog(p) \/ WriteHead(p)
                            \/ InstallTrans(p) \/ EndCommit(p) \/ Kill(p)
  <2>1. Reserved' \in SUBSET Reserved /\ lh' = lh
    <3>1. pc \in [Procs -> States]
      BY ZenonT(20) DEF LogInv, TypeOK
    <3>2. lh' = lh /\ wrote' = wrote /\ \A q \in Procs : pc'[q] = "op" => pc[q] = "op"
      BY <1>7, <3>1, ZenonT(20) DEF Commit, WriteLog, WriteHead, InstallTrans, EndCommit, Kill, Wakeup, mvars
    <3> QED BY <3>2, ZenonT(20) DEF Reserved
  <2> QED BY <1>1, <1>2, <2>1
<1>8. CASE \E p \in Procs : ClearHead(p)
  <2>1. Reserved' \in SUBSET Reserved /\ lh' = <<>>
    BY <1>8, ZenonT(20) DEF ClearHead, Reserved, LogInv, TypeOK
  <2>2. Len(lh') <= Len(lh)
    BY <1>1, <2>1, NoElement
  <2> QED BY <1>2, <2>1, <2>2, ZenonT(20)
<1>9. CASE UNCHANGED vars \/ \E b \in Blocks : Bread(b) \/ Recycle(b)
  <2>1. Reserved' = Reserved /\ lh' = lh
    BY <1>9, ZenonT(20) DEF vars, Bread, Recycle, Reserved
  <2> QED BY <1>1, <1>2, <2>1
<1> QED
  BY <1>3, <1>4, <1>5, <1>6, <1>7, <1>8, <1>9, ZenonT(20) DEF Next, EndOpStep

LEMMA PanicNext ==
    ASSUME Counting, LogInv, SpaceInv, NoPanic, [Next]_vars,
           OpBlocks < MAXOPBLOCKS, LOGSIZE - MAXOPBLOCKS + OpBlocks < NLOG - 1
    PROVE  NoPanic'
<1>1. CASE \E p \in Procs, b \in Blocks, d \in Data : LogWrite(p, b, d)
  <2>1. PICK p \in Procs, b \in Blocks, d \in Data : LogWrite(p, b, d)
    BY <1>1, ZenonT(20)
  <2>2. ~TooBig
    BY <2>1, RoomInLog, ZenonT(20) DEF LogWrite
  <2>3. outstanding >= 1 /\ outstanding \in Nat
    BY <2>1, CallActive, ZenonT(20) DEF LogWrite, LogInv, TypeOK
  <2>4. ~(outstanding < 1)
    BY <2>3
  <2>5. panicked' = (TooBig \/ outstanding < 1)
    BY <2>1, ZenonT(20) DEF LogWrite
  <2> QED BY ZenonT(40), <2>2, <2>4, <2>5 DEF NoPanic
<1>2. CASE \E p \in Procs : EndOp(p)
  BY <1>2, CallActive DEF EndOp, NoPanic
<1>3. CASE panicked' = panicked \/ Crash
  BY <1>3, ZenonT(20) DEF NoPanic, Crash
<1> QED
  BY <1>1, <1>2, <1>3, ZenonT(20) DEF Next, Recovery, EndOpStep, ReadHead, RecoverInstall, RecoverClear,
     Bread, Recycle, BeginOp, Kill, Commit, WriteLog, WriteHead, InstallTrans, ClearHead,
     EndCommit, vars

\* log.c does not panic if calls leave enough of their reservation unused: one
\* block, and one more when the on-disk log has only LOGSIZE blocks in all.
THEOREM LogNeverPanics ==
    ASSUME OpBlocks < MAXOPBLOCKS, LOGSIZE - MAXOPBLOCKS + OpBlocks < NLOG - 1
    PROVE  Spec => []NoPanic
<1>1. Init => SpaceInv /\ NoPanic
  <2> SUFFICES ASSUME Init PROVE SpaceInv /\ NoPanic
    BY ZenonT(20)
  <2>1. Reserved = {}
    BY ZenonT(20) DEF Init, Reserved
  <2>2. Cardinality(Reserved) = 0 /\ Len(lh) = 0
    BY <2>1, FS_EmptySet, NoElement, ZenonT(20) DEF Init
  <2> QED BY <2>2 DEF SpaceInv, NoPanic, Init
<1>2. Spec => []LogInv
  BY LogSafe, ZenonT(20)
<1>3. LogInv /\ LogInv' /\ SpaceInv /\ NoPanic /\ [Next]_vars => SpaceInv' /\ NoPanic'
  BY SetsCount, SpaceNext, PanicNext, ZenonT(20)
<1> QED BY <1>1, <1>2, <1>3, PTL DEF Spec

===============================================================================
