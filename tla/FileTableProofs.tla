--------------------------- MODULE FileTableProofs ---------------------------
(***************************************************************************)
(* Proofs about FileTable, for any number of processes, files and          *)
(* descriptors and any inodes and pipes: every reference to a file, an     *)
(* inode or an end of a pipe is counted, and given up, exactly once.       *)
(***************************************************************************)
EXTENDS FileTable, TLAPS

\* A second and a third call, for a leaf the first gives up on.
USE SMTT(30), Z3T(30), SMTT(60)

--------------------------------------------------------------------------------
(* The inductive invariant.                                                  *)

Labels == {"run", "fields", "dup", "close", "release", "iput", "pipe", "fork", "exit", "clear"}
File == [ref : Nat, type : {"none", "inode", "pipe"}, obj : Inodes \cup Pipes \cup {0}, writable : BOOLEAN]

Types ==
    /\ ftable \in [Files -> File]
    /\ ofile \in [Procs -> [Fds -> Files \cup {0}]]
    /\ iref \in [Inodes -> Int] /\ ends \in [Pipes -> SUBSET BOOLEAN]
    /\ live \subseteq Procs /\ pc \in [Procs -> Labels]
    /\ rf \in [Procs -> Files \cup {0}] /\ wf \in [Procs -> Files \cup {0}] /\ ff \in [Procs -> File]
    /\ ip \in [Procs -> Inodes \cup {0}] /\ fd \in [Procs -> Fds \cup {0}] /\ np \in [Procs -> Procs \cup {0}]

\* The object of a file is of the kind its type says; a file without one has
\* at most one reference, that of the call which has just allocated it.
Fits(x) == /\ x.type = "inode" => x.obj \in Inodes
           /\ x.type = "pipe" => x.obj \in Pipes
           /\ x.type = "none" => x.ref <= 1 /\ x.obj = 0 /\ x.writable = FALSE
AllFit == /\ \A f \in Files : Fits(ftable[f])
          /\ \A p \in Procs : Fits(ff[p]) /\ ff[p].ref = 0

\* Which locals are in use where.
LocalsAt(p) ==
    /\ pc[p] # "run" => p \in live
    /\ pc[p] \in {"run", "exit", "fork", "dup", "iput", "clear"} => rf[p] = 0
    /\ pc[p] \in {"fields", "pipe", "close"} => rf[p] # 0
    /\ pc[p] # "close" => wf[p] = 0
    /\ pc[p] = "release" <=> ff[p].type # "none"
    /\ pc[p] \in {"run", "exit", "fork", "dup", "pipe", "clear"} => ip[p] = 0
    /\ pc[p] \in {"fields", "iput"} => ip[p] # 0
    /\ pc[p] \in {"run", "exit", "fork", "pipe", "iput"} => fd[p] = 0
    /\ pc[p] \in {"fields", "dup", "clear"} => fd[p] # 0
    /\ ip[p] # 0 /\ fd[p] # 0 => pc[p] = "fields"
Locals == \A p \in Procs : LocalsAt(p)

\* A child that fork is making belongs to one parent and does not run.
ForksAt(p) ==
    /\ pc[p] = "fork" <=> np[p] # 0
    /\ np[p] # 0 => np[p] \notin live /\ \A q \in Procs : np[q] = np[p] => q = p
Forks == \A p \in Procs : ForksAt(p)

\* What the descriptors name: a file without a type is named only by the call
\* that has still to set its fields, or by a descriptor exit has still to clear.
NamesAt(p) ==
    /\ fd[p] # 0 => ofile[p][fd[p]] # 0
    /\ pc[p] = "fields" => ofile[p][fd[p]] = rf[p]
    /\ pc[p] \in {"fields", "pipe"} => ftable[rf[p]].type = "none"
    /\ pc[p] = "dup" => \E d \in Fds \ {fd[p]} : ofile[p][d] = ofile[p][fd[p]]
    /\ \A d \in Fds : ofile[p][d] # 0 /\ ftable[ofile[p][d]].type = "none" => d = fd[p]
Names == \A p \in Procs : NamesAt(p)

\* The numbers of references, by kind.
nC(f) == Cardinality(Counted(f))
nH(h, x) == Cardinality(Holding(h, x))
nI(F, i) == Cardinality(OfInode(F, i))
nP(F, k, w) == Cardinality(OfPipe(F, k, w))
One(b) == IF b THEN 1 ELSE 0

RefsExact == \A f \in Files : /\ ftable[f].ref = nC(f) + nH(rf, f) + nH(wf, f)
                              /\ ftable[f].ref = 0 => ftable[f] = NoFile
InodesExact == \A i \in Inodes : iref[i] = nI(ftable, i) + nI(ff, i) + nH(ip, i)
PipesExact == \A k \in Pipes, w \in BOOLEAN : One(w \in ends[k]) = nP(ftable, k, w) + nP(ff, k, w)

FileInv == Types /\ AllFit /\ Locals /\ Forks /\ Names /\ RefsExact /\ InodesExact /\ PipesExact /\ ~panicked

LEMMA FileInvExact == FileInv => ObjectsExact
BY ZenonT(20) DEF FileInv, ObjectsExact, RefsExact, InodesExact, PipesExact, nC, nH, nI, nP, One

LEMMA InitInv == ASSUME FileTableSizes, Cardinality({}) = 0, Init PROVE FileInv
<1>1. initproc \in Procs
  BY ZenonT(20) DEF initproc, FileTableSizes
<1>2. NoFile \in File /\ NoFile.ref = 0 /\ NoFile.type = "none" /\ Fits(NoFile)
  BY DEF NoFile, File, Fits
<1>3. /\ \A f \in Files : ftable[f] = NoFile
      /\ \A p \in Procs : /\ pc[p] = "run" /\ rf[p] = 0 /\ wf[p] = 0 /\ ff[p] = NoFile /\ ip[p] = 0 /\ fd[p] = 0 /\ np[p] = 0
                          /\ \A d \in Fds : ofile[p][d] = 0
      /\ (\A i \in Inodes : iref[i] = 0) /\ (\A k \in Pipes : ends[k] = {}) /\ live = {initproc} /\ ~panicked
  BY ZenonT(20) DEF Init
<1>4. Types
  <2>1. "run" \in Labels /\ 0 \in Int
    BY DEF Labels
  <2>2. /\ ftable \in [Files -> File] /\ ff \in [Procs -> File]
        /\ ofile \in [Procs -> [Fds -> Files \cup {0}]]
        /\ iref \in [Inodes -> Int] /\ ends \in [Pipes -> SUBSET BOOLEAN]
    BY <1>2, <2>1, ZenonT(20) DEF Init
  <2>3. /\ live \subseteq Procs /\ pc \in [Procs -> Labels]
        /\ rf \in [Procs -> Files \cup {0}] /\ wf \in [Procs -> Files \cup {0}]
        /\ ip \in [Procs -> Inodes \cup {0}] /\ fd \in [Procs -> Fds \cup {0}] /\ np \in [Procs -> Procs \cup {0}]
    BY <1>1, <2>1, ZenonT(20) DEF Init
  <2> QED BY <2>2, <2>3, ZenonT(20) DEF Types
<1>5. AllFit
  BY <1>2, <1>3, ZenonT(20) DEF AllFit
<1>6. Locals
  BY <1>2, <1>3, ZenonT(20) DEF Locals, LocalsAt
<1>7. Forks
  BY <1>3, ZenonT(20) DEF Forks, ForksAt
<1>8. Names
  BY <1>3, ZenonT(20) DEF Names, NamesAt
<1>9. DOMAIN ftable = Files /\ DOMAIN ff = Procs
  BY ZenonT(20) DEF Init
<1>10. RefsExact
  <2>1. ASSUME NEW f \in Files PROVE ftable[f].ref = nC(f) + nH(rf, f) + nH(wf, f) /\ (ftable[f].ref = 0 => ftable[f] = NoFile)
    <3>1. f # 0
      BY DEF Files
    <3>2. Counted(f) = {}
      <4>1. ASSUME NEW x \in Counted(f) PROVE FALSE
        <5>1. x \in Procs \X Fds /\ ofile[x[1]][x[2]] = f
          BY ZenonT(20) DEF Counted
        <5>2. x[1] \in Procs /\ x[2] \in Fds
          BY <5>1, ZenonT(20)
        <5> QED BY <1>3, <3>1, <5>1, <5>2, ZenonT(20)
      <4> QED BY <4>1, ZenonT(20)
    <3>3. Holding(rf, f) = {} /\ Holding(wf, f) = {}
      BY <1>3, <3>1, ZenonT(20) DEF Holding
    <3>4. nC(f) = 0 /\ nH(rf, f) = 0 /\ nH(wf, f) = 0
      BY <3>2, <3>3, ZenonT(20) DEF nC, nH
    <3>5. ftable[f] = NoFile
      BY <1>3, ZenonT(20)
    <3> QED BY <1>2, <3>4, <3>5
  <2> QED BY <2>1, ZenonT(20) DEF RefsExact
<1>11. InodesExact
  <2>1. ASSUME NEW i \in Inodes PROVE iref[i] = nI(ftable, i) + nI(ff, i) + nH(ip, i)
    <3>1. i # 0
      BY ZenonT(20) DEF FileTableSizes
    <3>2. OfInode(ftable, i) = {} /\ OfInode(ff, i) = {} /\ Holding(ip, i) = {}
      <4>1. "none" # "inode"
        BY ZenonT(20)
      <4> QED BY <1>2, <1>3, <1>9, <3>1, <4>1, ZenonT(20) DEF OfInode, Holding
    <3>3. nI(ftable, i) = 0 /\ nI(ff, i) = 0 /\ nH(ip, i) = 0
      BY <3>2, ZenonT(20) DEF nI, nH
    <3>4. iref[i] = 0
      BY <1>3, ZenonT(20)
    <3> QED BY <3>3, <3>4
  <2> QED BY <2>1, ZenonT(20) DEF InodesExact
<1>12. PipesExact
  <2>1. ASSUME NEW k \in Pipes, NEW w \in BOOLEAN PROVE One(w \in ends[k]) = nP(ftable, k, w) + nP(ff, k, w)
    <3>1. OfPipe(ftable, k, w) = {} /\ OfPipe(ff, k, w) = {}
      <4>1. "none" # "pipe"
        BY ZenonT(20)
      <4> QED BY <1>2, <1>3, <1>9, <4>1, ZenonT(20) DEF OfPipe
    <3>2. nP(ftable, k, w) = 0 /\ nP(ff, k, w) = 0
      BY <3>1, ZenonT(20) DEF nP
    <3>3. w \notin ends[k]
      BY <1>3, ZenonT(20)
    <3> QED BY <3>2, <3>3 DEF One
  <2> QED BY <2>1, ZenonT(20) DEF PipesExact
<1> QED BY <1>3, <1>4, <1>5, <1>6, <1>7, <1>8, <1>10, <1>11, <1>12, ZenonT(20) DEF FileInv

LEMMA StutterInv == ASSUME FileInv, UNCHANGED vars PROVE FileInv'
<1>1. UNCHANGED <<ftable, ofile, iref, ends, live, pc, rf, wf, ff, ip, fd, np, panicked>>
  BY ZenonT(20) DEF vars
<1>2. Types' /\ AllFit' /\ ~panicked'
  BY <1>1, ZenonT(20) DEF FileInv, Types, AllFit
<1>3. Locals' /\ Forks'
  BY <1>1, ZenonT(20) DEF FileInv, Locals, LocalsAt, Forks, ForksAt
<1>5. Names'
  <2>1. ASSUME NEW p \in Procs PROVE NamesAt(p)'
    <3>1. NamesAt(p)
      BY ZenonT(20) DEF FileInv, Names
    <3> QED BY <1>1, <3>1, ZenonT(20) DEF NamesAt
  <2> QED BY <2>1, ZenonT(20) DEF Names
<1>4. RefsExact' /\ InodesExact' /\ PipesExact'
  BY <1>1, ZenonT(20) DEF FileInv, RefsExact, InodesExact, PipesExact, nC, Counted
<1> QED BY <1>2, <1>3, <1>4, <1>5, ZenonT(20) DEF FileInv

--------------------------------------------------------------------------------
(* Counting.  What is used of cardinalities is a hypothesis here, and is     *)
(* discharged before the theorem.                                            *)

Small(S) == S \subseteq Procs \/ S \subseteq Files \/ S \subseteq Procs \X Fds
Counting == /\ \A S : Small(S) => Cardinality(S) \in Nat /\ (Cardinality(S) = 0 => S = {})
            /\ \A S, y : Small(S) /\ y \in S => Cardinality(S \ {y}) = Cardinality(S) - 1

\* Sets that differ in one element.
LEMMA CardChange == ASSUME Counting, NEW A, NEW B, NEW y, Small(A), Small(B), A \ {y} = B \ {y}
                    PROVE  /\ Cardinality(A) \in Nat /\ Cardinality(B) \in Nat
                           /\ Cardinality(B) = Cardinality(A) - One(y \in A) + One(y \in B)
<1>1. Cardinality(A) \in Nat /\ Cardinality(B) \in Nat
  BY ZenonT(20) DEF Counting
<1>2. y \in A => Cardinality(A \ {y}) = Cardinality(A) - 1
  BY ZenonT(20) DEF Counting
<1>3. y \in B => Cardinality(B \ {y}) = Cardinality(B) - 1
  BY ZenonT(20) DEF Counting
<1>4. y \notin A => A \ {y} = A
  BY ZenonT(20)
<1>5. y \notin B => B \ {y} = B
  BY ZenonT(20)
<1> QED BY <1>1, <1>2, <1>3, <1>4, <1>5 DEF One

LEMMA HoldSmall == ASSUME Counting, NEW h, NEW x
                   PROVE  nH(h, x) \in Nat /\ (nH(h, x) = 0 => \A p \in Procs : h[p] # x)
<1>1. Small(Holding(h, x))
  BY ZenonT(20) DEF Small, Holding
<1>2. nH(h, x) \in Nat /\ (nH(h, x) = 0 => Holding(h, x) = {})
  BY <1>1, ZenonT(20) DEF Counting, nH
<1> QED BY <1>2, ZenonT(20) DEF Holding

\* A local of one process changes.
LEMMA HoldChange == ASSUME Counting, NEW p \in Procs, NEW h, NEW g, \A q \in Procs \ {p} : g[q] = h[q], NEW x
                    PROVE  nH(g, x) = nH(h, x) - One(h[p] = x) + One(g[p] = x)
<1>1. Small(Holding(h, x)) /\ Small(Holding(g, x))
  BY ZenonT(20) DEF Small, Holding
<1>2. Holding(h, x) \ {p} = Holding(g, x) \ {p}
  BY ZenonT(20) DEF Holding
<1>3. (p \in Holding(h, x) <=> h[p] = x) /\ (p \in Holding(g, x) <=> g[p] = x)
  BY ZenonT(20) DEF Holding
<1>4. nH(g, x) = nH(h, x) - One(p \in Holding(h, x)) + One(p \in Holding(g, x))
  BY <1>1, <1>2, CardChange, ZenonT(20) DEF nH
<1> QED BY <1>3, <1>4, ZenonT(20) DEF One

\* A file, or a copy of one, changes.
IsInode(x, i) == x.type = "inode" /\ x.obj = i
IsPipe(x, k, w) == x.type = "pipe" /\ x.obj = k /\ x.writable = w

LEMMA InodeChange == ASSUME Counting, NEW F, NEW G, DOMAIN G = DOMAIN F, DOMAIN F \in {Procs, Files}, NEW y \in DOMAIN F,
                            \A z \in DOMAIN F \ {y} : G[z] = F[z], NEW i
                     PROVE  nI(G, i) = nI(F, i) - One(IsInode(F[y], i)) + One(IsInode(G[y], i))
<1>1. Small(OfInode(F, i)) /\ Small(OfInode(G, i))
  BY ZenonT(20) DEF Small, OfInode
<1>2. OfInode(F, i) \ {y} = OfInode(G, i) \ {y}
  BY ZenonT(20) DEF OfInode
<1>3. (y \in OfInode(F, i) <=> IsInode(F[y], i)) /\ (y \in OfInode(G, i) <=> IsInode(G[y], i))
  BY ZenonT(20) DEF OfInode, IsInode
<1>4. nI(G, i) = nI(F, i) - One(y \in OfInode(F, i)) + One(y \in OfInode(G, i))
  BY <1>1, <1>2, CardChange, ZenonT(20) DEF nI
<1> QED BY <1>3, <1>4, ZenonT(20) DEF One

LEMMA PipeChange == ASSUME Counting, NEW F, NEW G, DOMAIN G = DOMAIN F, DOMAIN F \in {Procs, Files}, NEW y \in DOMAIN F,
                           \A z \in DOMAIN F \ {y} : G[z] = F[z], NEW k, NEW w
                    PROVE  nP(G, k, w) = nP(F, k, w) - One(IsPipe(F[y], k, w)) + One(IsPipe(G[y], k, w))
<1>1. Small(OfPipe(F, k, w)) /\ Small(OfPipe(G, k, w))
  BY ZenonT(20) DEF Small, OfPipe
<1>2. OfPipe(F, k, w) \ {y} = OfPipe(G, k, w) \ {y}
  BY ZenonT(20) DEF OfPipe
<1>3. (y \in OfPipe(F, k, w) <=> IsPipe(F[y], k, w)) /\ (y \in OfPipe(G, k, w) <=> IsPipe(G[y], k, w))
  BY ZenonT(20) DEF OfPipe, IsPipe
<1>4. nP(G, k, w) = nP(F, k, w) - One(y \in OfPipe(F, k, w)) + One(y \in OfPipe(G, k, w))
  BY <1>1, <1>2, CardChange, ZenonT(20) DEF nP
<1> QED BY <1>3, <1>4, ZenonT(20) DEF One

LEMMA ObjSmall == ASSUME Counting, NEW F, DOMAIN F \in {Procs, Files}
                  PROVE  /\ \A i : nI(F, i) \in Nat
                         /\ \A k, w : nP(F, k, w) \in Nat /\ (nP(F, k, w) = 0 => \A x \in DOMAIN F : ~IsPipe(F[x], k, w))
<1>1. \A i : Small(OfInode(F, i))
  BY ZenonT(20) DEF Small, OfInode
<1>2. \A k, w : Small(OfPipe(F, k, w))
  BY ZenonT(20) DEF Small, OfPipe
<1>3. \A k, w : nP(F, k, w) \in Nat /\ (nP(F, k, w) = 0 => OfPipe(F, k, w) = {})
  BY <1>2, ZenonT(20) DEF Counting, nP
<1>4. \A i : nI(F, i) \in Nat
  BY <1>1, ZenonT(20) DEF Counting, nI
<1> QED BY <1>3, <1>4, ZenonT(20) DEF OfPipe, IsPipe

\* One file, or one copy of a file, changes.
LEMMA FileChange ==
  ASSUME Counting, NEW F, NEW G, NEW y, DOMAIN F = Files /\ DOMAIN G = Files /\ y \in Files, \A z \in Files : z # y => G[z] = F[z]
  PROVE  /\ \A i : nI(F, i) \in Nat /\ nI(G, i) = nI(F, i) - One(IsInode(F[y], i)) + One(IsInode(G[y], i))
         /\ \A k, w : nP(F, k, w) \in Nat /\ nP(G, k, w) = nP(F, k, w) - One(IsPipe(F[y], k, w)) + One(IsPipe(G[y], k, w))
<1>1. DOMAIN G = DOMAIN F /\ DOMAIN F \in {Procs, Files} /\ y \in DOMAIN F /\ \A z \in DOMAIN F \ {y} : G[z] = F[z]
  BY ZenonT(20)
<1> QED BY <1>1, ObjSmall, InodeChange, PipeChange

LEMMA CopyChange ==
  ASSUME Counting, NEW F, NEW G, NEW y, DOMAIN F = Procs /\ DOMAIN G = Procs /\ y \in Procs, \A z \in Procs : z # y => G[z] = F[z]
  PROVE  /\ \A i : nI(F, i) \in Nat /\ nI(G, i) = nI(F, i) - One(IsInode(F[y], i)) + One(IsInode(G[y], i))
         /\ \A k, w : nP(F, k, w) \in Nat /\ nP(G, k, w) = nP(F, k, w) - One(IsPipe(F[y], k, w)) + One(IsPipe(G[y], k, w))
<1>1. DOMAIN G = DOMAIN F /\ DOMAIN F \in {Procs, Files} /\ y \in DOMAIN F /\ \A z \in DOMAIN F \ {y} : G[z] = F[z]
  BY ZenonT(20)
<1> QED BY <1>1, ObjSmall, InodeChange, PipeChange

\* A descriptor changes.
LEMMA CountedChange ==
  ASSUME Counting, NEW p \in Procs, NEW d \in Fds, NEW f,
         \A q \in Procs, e \in Fds : (q # p \/ e # d) => (ofile'[q][e] = f /\ fd'[q] # e <=> ofile[q][e] = f /\ fd[q] # e)
  PROVE  nC(f)' = nC(f) - One(ofile[p][d] = f /\ fd[p] # d) + One(ofile'[p][d] = f /\ fd'[p] # d)
<1>1. Small(Counted(f)) /\ Small(Counted(f)')
  BY ZenonT(20) DEF Small, Counted
<1>2. \A x \in Procs \X Fds : x[1] \in Procs /\ x[2] \in Fds /\ (x # <<p, d>> => x[1] # p \/ x[2] # d)
  OBVIOUS
<1>3. Counted(f) \ {<<p, d>>} = Counted(f)' \ {<<p, d>>}
  <2>1. ASSUME NEW x \in Procs \X Fds, x # <<p, d>> PROVE x \in Counted(f) <=> x \in Counted(f)'
    <3>1. x[1] \in Procs /\ x[2] \in Fds /\ (x[1] # p \/ x[2] # d)
      BY <1>2, <2>1, ZenonT(20)
    <3>2. ofile'[x[1]][x[2]] = f /\ fd'[x[1]] # x[2] <=> ofile[x[1]][x[2]] = f /\ fd[x[1]] # x[2]
      BY <3>1, ZenonT(20)
    <3> QED BY <2>1, <3>2, ZenonT(20) DEF Counted
  <2>2. Counted(f) \subseteq Procs \X Fds /\ Counted(f)' \subseteq Procs \X Fds
    BY ZenonT(20) DEF Counted
  <2> QED BY <2>1, <2>2, ZenonT(20)
<1>4. <<p, d>> \in Counted(f) <=> ofile[p][d] = f /\ fd[p] # d
  BY ZenonT(20) DEF Counted
<1>5. <<p, d>> \in Counted(f)' <=> ofile'[p][d] = f /\ fd'[p] # d
  BY ZenonT(20) DEF Counted
<1>6. nC(f)' = nC(f) - One(<<p, d>> \in Counted(f)) + One(<<p, d>> \in Counted(f)')
  <2>1. Cardinality(Counted(f)') = Cardinality(Counted(f)) - One(<<p, d>> \in Counted(f)) + One(<<p, d>> \in Counted(f)')
    BY <1>1, <1>3, CardChange
  <2> QED BY <2>1, ZenonT(20) DEF nC
<1> QED BY <1>4, <1>5, <1>6, ZenonT(20) DEF One

LEMMA CountedSame ==
  ASSUME NEW f, \A q \in Procs, e \in Fds : ofile'[q][e] = f /\ fd'[q] # e <=> ofile[q][e] = f /\ fd[q] # e
  PROVE  nC(f)' = nC(f)
<1>1. \A x \in Procs \X Fds : x[1] \in Procs /\ x[2] \in Fds
  BY ZenonT(20)
<1>2. Counted(f)' = Counted(f)
  <2>1. ASSUME NEW x \in Procs \X Fds PROVE x \in Counted(f) <=> x \in Counted(f)'
    BY <1>1, ZenonT(20) DEF Counted
  <2>2. Counted(f) \subseteq Procs \X Fds /\ Counted(f)' \subseteq Procs \X Fds
    BY ZenonT(20) DEF Counted
  <2> QED BY <2>1, <2>2, ZenonT(20)
<1> QED BY <1>2, ZenonT(20) DEF nC

LEMMA CountedSmall == ASSUME Counting, NEW f
                      PROVE  /\ nC(f) \in Nat
                             /\ nC(f) = 0 => \A p \in Procs, d \in Fds : ~(ofile[p][d] = f /\ fd[p] # d)
<1>1. Small(Counted(f))
  BY ZenonT(20) DEF Small, Counted
<1>2. nC(f) \in Nat /\ (nC(f) = 0 => Counted(f) = {})
  BY <1>1, ZenonT(20) DEF Counting, nC
<1>3. \A p \in Procs, d \in Fds : ofile[p][d] = f /\ fd[p] # d => <<p, d>> \in Counted(f)
  BY ZenonT(20) DEF Counted
<1> QED BY <1>2, <1>3, ZenonT(20)

--------------------------------------------------------------------------------
(* What the counts say.                                                      *)

\* A file without a reference is in nobody's hands.
LEMMA FreeUnused ==
  ASSUME Counting, RefsExact, NEW f \in Files, ftable[f].ref = 0
  PROVE  \A p \in Procs : rf[p] # f /\ wf[p] # f /\ \A d \in Fds : ofile[p][d] = f => fd[p] = d
<1>1. nC(f) \in Nat /\ nH(rf, f) \in Nat /\ nH(wf, f) \in Nat
  BY CountedSmall, HoldSmall, ZenonT(20)
<1>2. ftable[f].ref = nC(f) + nH(rf, f) + nH(wf, f)
  BY ZenonT(20) DEF RefsExact
<1>3. nC(f) = 0 /\ nH(rf, f) = 0 /\ nH(wf, f) = 0
  BY <1>1, <1>2
<1> QED BY <1>3, CountedSmall, HoldSmall, ZenonT(20)

\* A file with one reference that a call holds is in no other hands.
LEMMA OneHolder ==
  ASSUME Counting, RefsExact, NEW p \in Procs, rf[p] \in Files, ftable[rf[p]].ref <= 1
  PROVE  /\ \A q \in Procs : /\ rf[q] = rf[p] => q = p
                             /\ wf[q] # rf[p]
                             /\ \A d \in Fds : ofile[q][d] = rf[p] => fd[q] = d
         /\ ftable[rf[p]].ref = 1
<1> DEFINE f == rf[p]
           g == [q \in Procs |-> IF q = p THEN 0 ELSE rf[q]]
<1>0. 0 # f
  BY DEF Files
<1>1. nC(f) \in Nat /\ nH(rf, f) \in Nat /\ nH(wf, f) \in Nat /\ nH(g, f) \in Nat
  BY CountedSmall, HoldSmall, ZenonT(20)
<1>2. ftable[f].ref = nC(f) + nH(rf, f) + nH(wf, f)
  BY ZenonT(20) DEF RefsExact
<1>3. nH(g, f) = nH(rf, f) - One(rf[p] = f) + One(g[p] = f)
  <2>1. \A q \in Procs \ {p} : g[q] = rf[q]
    BY ZenonT(20)
  <2> HIDE DEF f, g
  <2> QED BY <2>1, HoldChange
<1>4. g[p] = 0 /\ \A q \in Procs : q # p => g[q] = rf[q]
  BY ZenonT(20)
<1>5. nH(g, f) = nH(rf, f) - 1
  BY <1>0, <1>1, <1>3, <1>4 DEF One
<1>6. nC(f) = 0 /\ nH(wf, f) = 0 /\ nH(g, f) = 0 /\ ftable[f].ref = 1
  BY <1>1, <1>2, <1>5
<1>7. \A q \in Procs : g[q] # f
  <2> HIDE DEF g
  <2> QED BY <1>6, HoldSmall, ZenonT(20)
<1>8. \A q \in Procs : wf[q] # f /\ \A d \in Fds : ofile[q][d] = f => fd[q] = d
  BY <1>6, CountedSmall, HoldSmall, ZenonT(20)
<1> QED BY <1>4, <1>6, <1>7, <1>8, ZenonT(20)

LEMMA Same == ASSUME NEW a \in Nat PROVE a - 0 + 0 = a
OBVIOUS

LEMMA NotZero == (\A f \in Files : f # 0) /\ (\A d \in Fds : d # 0)
BY DEF Files, Fds

LEMMA RefNat == ASSUME Types, NEW x \in Files PROVE x # 0 /\ ftable[x].ref \in Nat
<1>1. ftable[x] \in File
  BY ZenonT(20) DEF Types
<1>2. x # 0
  BY DEF Files
<1> QED BY <1>1, <1>2, ZenonT(20) DEF File

\* The references p holds change.
LEMMA GotoHolds ==
  ASSUME Counting, Types, NEW p \in Procs, NEW l, NEW r, NEW w, NEW i, NEW d, Goto(p, l, r, w, i, d)
  PROVE  /\ \A x : nH(rf', x) = nH(rf, x) - One(rf[p] = x) + One(r = x)
         /\ \A x : nH(wf', x) = nH(wf, x) - One(wf[p] = x) + One(w = x)
         /\ \A x : nH(ip', x) = nH(ip, x) - One(ip[p] = x) + One(i = x)
         /\ \A x : nH(rf, x) \in Nat /\ nH(wf, x) \in Nat /\ nH(ip, x) \in Nat
<1>1. rf'[p] = r /\ \A q \in Procs \ {p} : rf'[q] = rf[q]
  BY ZenonT(20) DEF Goto, Types
<1>2. wf'[p] = w /\ \A q \in Procs \ {p} : wf'[q] = wf[q]
  BY ZenonT(20) DEF Goto, Types
<1>3. ip'[p] = i /\ \A q \in Procs \ {p} : ip'[q] = ip[q]
  BY ZenonT(20) DEF Goto, Types
<1>4. \A x : nH(rf', x) = nH(rf, x) - One(rf[p] = x) + One(r = x)
  BY <1>1, HoldChange
<1>5. \A x : nH(wf', x) = nH(wf, x) - One(wf[p] = x) + One(w = x)
  BY <1>2, HoldChange
<1>6. \A x : nH(ip', x) = nH(ip, x) - One(ip[p] = x) + One(i = x)
  BY <1>3, HoldChange
<1> QED BY <1>4, <1>5, <1>6, HoldSmall, ZenonT(20)

Balanced(p, r, w) ==
    \A x \in Files : /\ nC(x)' \in Int
                     /\ ftable'[x].ref = ftable[x].ref + (nC(x)' - nC(x)) - One(rf[p] = x) + One(r = x) - One(wf[p] = x) + One(w = x)
                     /\ ftable'[x].ref = 0 => ftable'[x] = NoFile

LEMMA RefsBalance ==
  ASSUME Counting, Types, RefsExact, NEW p \in Procs, NEW l, NEW r, NEW w, NEW i, NEW d, Goto(p, l, r, w, i, d),
         Balanced(p, r, w)
  PROVE  RefsExact'
<1>1. /\ \A x : nH(rf', x) = nH(rf, x) - One(rf[p] = x) + One(r = x)
      /\ \A x : nH(wf', x) = nH(wf, x) - One(wf[p] = x) + One(w = x)
      /\ \A x : nH(rf, x) \in Nat /\ nH(wf, x) \in Nat
  BY GotoHolds
<1> SUFFICES ASSUME NEW x \in Files PROVE ftable'[x].ref = nC(x)' + nH(rf', x) + nH(wf', x)
  BY ZenonT(20) DEF RefsExact, Balanced
<1>2. ftable[x].ref = nC(x) + nH(rf, x) + nH(wf, x) /\ nC(x) \in Nat /\ nC(x)' \in Int
  BY CountedSmall, ZenonT(20) DEF RefsExact, Balanced
<1>3. \A b : One(b) \in Int
  BY DEF One
<1>4. nH(rf', x) = nH(rf, x) - One(rf[p] = x) + One(r = x) /\ nH(wf', x) = nH(wf, x) - One(wf[p] = x) + One(w = x)
      /\ nH(rf, x) \in Nat /\ nH(wf, x) \in Nat
  BY <1>1, ZenonT(20)
<1>5. ftable'[x].ref = ftable[x].ref + (nC(x)' - nC(x)) - One(rf[p] = x) + One(r = x) - One(wf[p] = x) + One(w = x)
  BY ZenonT(20) DEF Balanced
<1>6. One(rf[p] = x) \in Int /\ One(r = x) \in Int /\ One(wf[p] = x) \in Int /\ One(w = x) \in Int
  BY DEF One
<1> QED BY <1>2, <1>4, <1>5, <1>6

--------------------------------------------------------------------------------
(* What a step leaves alone.                                                 *)

LEMMA GotoLocals ==
  ASSUME Types, NEW p \in Procs, NEW l, NEW r, NEW w, NEW i, NEW d, Goto(p, l, r, w, i, d)
  PROVE  /\ pc'[p] = l /\ rf'[p] = r /\ wf'[p] = w /\ ip'[p] = i /\ fd'[p] = d
         /\ \A q \in Procs : q # p => /\ pc'[q] = pc[q] /\ rf'[q] = rf[q] /\ wf'[q] = wf[q]
                                      /\ ip'[q] = ip[q] /\ fd'[q] = fd[q]
BY ZenonT(20) DEF Types, Goto

LEMMA GotoTypes ==
  ASSUME Types, NEW p \in Procs, NEW l \in Labels, NEW r \in Files \cup {0}, NEW w \in Files \cup {0},
         NEW i \in Inodes \cup {0}, NEW d \in Fds \cup {0}, Goto(p, l, r, w, i, d)
  PROVE  /\ pc' \in [Procs -> Labels] /\ rf' \in [Procs -> Files \cup {0}] /\ wf' \in [Procs -> Files \cup {0}]
         /\ ip' \in [Procs -> Inodes \cup {0}] /\ fd' \in [Procs -> Fds \cup {0}]
BY ZenonT(20) DEF Types, Goto

\* The locals of the other processes are as they were.
Others(p) == \A q \in Procs : q # p => /\ pc'[q] = pc[q] /\ rf'[q] = rf[q] /\ wf'[q] = wf[q] /\ ff'[q] = ff[q]
                                       /\ ip'[q] = ip[q] /\ fd'[q] = fd[q]

LEMMA GotoOthers ==
  ASSUME Types, NEW p \in Procs, NEW l, NEW r, NEW w, NEW i, NEW d, Goto(p, l, r, w, i, d), ff' = ff
  PROVE  Others(p)
BY GotoLocals DEF Others

LEMMA OthersLocals ==
  ASSUME Locals, NEW p \in Procs, Others(p), live \ {p} \subseteq live', LocalsAt(p)'
  PROVE  Locals'
<1> SUFFICES ASSUME NEW q \in Procs, q # p PROVE LocalsAt(q)'
  BY ZenonT(20) DEF Locals
<1>1. LocalsAt(q) /\ (q \in live => q \in live')
  BY ZenonT(20) DEF Locals
<1>2. pc'[q] = pc[q] /\ rf'[q] = rf[q] /\ wf'[q] = wf[q] /\ ff'[q] = ff[q] /\ ip'[q] = ip[q] /\ fd'[q] = fd[q]
  BY ZenonT(20) DEF Others
<1> QED BY <1>1, <1>2, ZenonT(20) DEF LocalsAt

\* No child is made, and the same files have no type.
LEMMA OthersForks ==
  ASSUME Forks, NEW p \in Procs, Others(p), live' \subseteq live, np' = np, pc[p] # "fork", pc'[p] # "fork"
  PROVE  Forks'
<1> SUFFICES ASSUME NEW q \in Procs PROVE ForksAt(q)'
  BY ZenonT(20) DEF Forks
<1>1. ForksAt(q)
  BY ZenonT(20) DEF Forks
<1>2. pc'[q] = "fork" <=> pc[q] = "fork"
  BY ZenonT(20) DEF Others
<1> QED BY <1>1, <1>2, ZenonT(20) DEF ForksAt

LEMMA OthersNames ==
  ASSUME Types, Locals, Names, NEW p \in Procs, Others(p), \A q \in Procs : q # p => ofile'[q] = ofile[q],
         \A f \in Files : ftable'[f].type = ftable[f].type, NamesAt(p)'
  PROVE  Names'
<1> SUFFICES ASSUME NEW q \in Procs, q # p PROVE NamesAt(q)'
  BY ZenonT(20) DEF Names
<1>1. NamesAt(q)
  BY ZenonT(20) DEF Names
<1>2. pc'[q] = pc[q] /\ rf'[q] = rf[q] /\ fd'[q] = fd[q] /\ ofile'[q] = ofile[q]
  BY ZenonT(20) DEF Others
<1>3. rf[q] \in Files \cup {0} /\ \A d \in Fds : ofile[q][d] \in Files \cup {0}
  BY ZenonT(20) DEF Types
<1>4. pc[q] \in {"fields", "pipe"} => ftable'[rf'[q]].type = "none"
  <2>1. pc[q] \in {"fields", "pipe"} => rf[q] \in Files /\ ftable[rf[q]].type = "none"
    <3>1. pc[q] \in {"fields", "pipe"} => rf[q] # 0
      BY ZenonT(20) DEF Locals, LocalsAt
    <3> QED BY <1>1, <1>3, <3>1, ZenonT(20) DEF NamesAt
  <2> QED BY <1>2, <2>1, ZenonT(20)
<1>5. ASSUME NEW d \in Fds, ofile'[q][d] # 0, ftable'[ofile'[q][d]].type = "none" PROVE d = fd'[q]
  <2>1. ofile[q][d] \in Files /\ ftable[ofile[q][d]].type = "none"
    BY <1>2, <1>3, <1>5, ZenonT(20)
  <2> QED BY <1>1, <1>2, <2>1, <1>5, ZenonT(20) DEF NamesAt
<1> QED BY <1>1, <1>2, <1>4, <1>5, ZenonT(20) DEF NamesAt

\* Files keep what they stand for.
SameObjects(F, G) == /\ DOMAIN G = DOMAIN F
                     /\ \A x \in DOMAIN F : G[x].type = F[x].type /\ G[x].obj = F[x].obj /\ G[x].writable = F[x].writable

LEMMA SameCounts == ASSUME NEW F, NEW G, SameObjects(F, G)
                    PROVE  (\A i : nI(G, i) = nI(F, i)) /\ (\A k, w : nP(G, k, w) = nP(F, k, w))
<1>1. \A i : OfInode(G, i) = OfInode(F, i)
  BY ZenonT(20) DEF SameObjects, OfInode
<1>2. \A k, w : OfPipe(G, k, w) = OfPipe(F, k, w)
  BY ZenonT(20) DEF SameObjects, OfPipe
<1> QED BY <1>1, <1>2, ZenonT(20) DEF nI, nP

LEMMA PipesKept == ASSUME PipesExact, SameObjects(ftable, ftable'), ff' = ff, ends' = ends
                   PROVE  PipesExact'
<1>1. \A k, w : nP(ftable', k, w) = nP(ftable, k, w)
  BY SameCounts, ZenonT(20)
<1> QED BY <1>1, ZenonT(20) DEF PipesExact

LEMMA InodesKept == ASSUME InodesExact, SameObjects(ftable, ftable'), ff' = ff, iref' = iref, \A i \in Inodes : nH(ip', i) = nH(ip, i)
                    PROVE  InodesExact'
<1>1. \A i : nI(ftable', i) = nI(ftable, i)
  BY SameCounts, ZenonT(20)
<1> QED BY <1>1, ZenonT(20) DEF InodesExact

\* A step of one call that makes no child.
LEMMA Frame ==
  ASSUME FileInv, NEW p \in Procs, NEW l \in Labels, NEW r \in Files \cup {0}, NEW w \in Files \cup {0},
         NEW i \in Inodes \cup {0}, NEW d \in Fds \cup {0}, Goto(p, l, r, w, i, d), ff' = ff, np' = np, live' = live,
         l # "fork", pc[p] # "fork", LocalsAt(p)',
         ftable' \in [Files -> File], ofile' \in [Procs -> [Fds -> Files \cup {0}]], iref' \in [Inodes -> Int],
         ends' \in [Pipes -> SUBSET BOOLEAN]
  PROVE  Types' /\ Locals' /\ Forks'
<1>1. Types /\ Locals /\ Forks
  BY ZenonT(20) DEF FileInv
<1>2. Others(p)
  BY <1>1, GotoOthers, ZenonT(20)
<1>3. pc'[p] = l
  BY <1>1, GotoLocals, ZenonT(20)
<1>4. /\ pc' \in [Procs -> Labels] /\ rf' \in [Procs -> Files \cup {0}] /\ wf' \in [Procs -> Files \cup {0}]
      /\ ip' \in [Procs -> Inodes \cup {0}] /\ fd' \in [Procs -> Fds \cup {0}]
  BY <1>1, GotoTypes, ZenonT(20)
<1>5. Types'
  BY <1>1, <1>4, ZenonT(20) DEF Types
<1>6. Locals'
  BY <1>1, <1>2, OthersLocals, ZenonT(20)
<1>7. Forks'
  BY <1>1, <1>2, <1>3, OthersForks, ZenonT(20)
<1> QED BY <1>5, <1>6, <1>7, ZenonT(20)

\* The references to files and inodes stay what they are.
LEMMA RefsSame ==
  ASSUME Counting, Types, RefsExact, NEW p \in Procs, NEW l, NEW i, NEW d, Goto(p, l, rf[p], wf[p], i, d),
         ftable' = ftable, \A x \in Files : nC(x)' = nC(x)
  PROVE  RefsExact'
<1>1. rf' = rf /\ wf' = wf
  BY ZenonT(20) DEF Types, Goto
<1> QED BY <1>1, ZenonT(20) DEF RefsExact

LEMMA InodesSame ==
  ASSUME Counting, Types, InodesExact, NEW p \in Procs, NEW l, NEW r, NEW w, NEW d, Goto(p, l, r, w, ip[p], d),
         SameObjects(ftable, ftable'), ff' = ff, iref' = iref
  PROVE  InodesExact'
<1>1. ip' = ip
  BY ZenonT(20) DEF Types, Goto
<1> QED BY <1>1, InodesKept, ZenonT(20)

\* No descriptor of p is apart.
LEMMA NamesClean ==
  ASSUME NEW p \in Procs, fd'[p] = 0, pc'[p] # "fields", pc'[p] # "dup", pc'[p] # "pipe",
         \A e \in Fds : ofile'[p][e] # 0 => ftable'[ofile'[p][e]].type # "none"
  PROVE  NamesAt(p)'
BY ZenonT(20) DEF NamesAt

\* The descriptors of p are as they were, and none is apart.
LEMMA NamesKept ==
  ASSUME FileInv, NEW p \in Procs, fd[p] = 0, fd'[p] = 0, ofile' = ofile, Others(p),
         \A f \in Files : ftable'[f].type = ftable[f].type,
         pc'[p] # "fields", pc'[p] # "dup", pc'[p] = "pipe" => ftable'[rf'[p]].type = "none"
  PROVE  Names' /\ \A x : nC(x)' = nC(x)
<1>0. Types /\ Locals /\ Names /\ NamesAt(p)
  BY ZenonT(20) DEF FileInv, Names
<1>1. \A d \in Fds : ofile[p][d] \in Files \cup {0} /\ d # 0
  <2>1. ofile[p] \in [Fds -> Files \cup {0}]
    BY <1>0, ZenonT(20) DEF Types
  <2>2. \A d \in Fds : d # 0
    BY DEF Fds
  <2> QED BY <2>1, <2>2, ZenonT(20)
<1>2. \A d \in Fds : ofile[p][d] # 0 => ftable'[ofile[p][d]].type # "none"
  <2> SUFFICES ASSUME NEW d \in Fds, ofile[p][d] # 0 PROVE ftable'[ofile[p][d]].type # "none"
    BY ZenonT(20)
  <2>1. ofile[p][d] \in Files /\ ftable[ofile[p][d]].type # "none"
    BY <1>0, <1>1, ZenonT(20) DEF NamesAt
  <2> QED BY <2>1, ZenonT(20)
<1>3. NamesAt(p)'
  BY <1>2, ZenonT(20) DEF NamesAt
<1>4. Names'
  BY <1>0, <1>3, OthersNames, ZenonT(20)
<1>5. \A q \in Procs : fd'[q] = fd[q]
  BY ZenonT(20) DEF Others
<1>6. \A x : nC(x)' = nC(x)
  BY <1>5, CountedSame, ZenonT(20)
<1> QED BY <1>4, <1>6, ZenonT(20)

--------------------------------------------------------------------------------
(* Every step keeps the invariant.                                           *)

\* A copy takes over the object of a file.
Moved(p, f, c) ==
    /\ DOMAIN ftable' = Files /\ \A x \in Files : x # f => ftable'[x] = ftable[x]
    /\ DOMAIN ff' = Procs /\ \A q \in Procs : q # p => ff'[q] = ff[q]
    /\ ftable'[f].type = "none" /\ ff[p].type = "none" /\ ff'[p] = c
    /\ c.type = ftable[f].type /\ c.obj = ftable[f].obj /\ c.writable = ftable[f].writable

\* fileclose, and giving up the object of the copy.
LEMMA CloseSteps ==
  ASSUME Counting, FileTableSizes
  PROVE  /\ \A p \in Procs : FileInv /\ fileclose(p) => FileInv'
         /\ \A p \in Procs : FileInv /\ Release(p) => FileInv'
\* fileclose, and giving up the object of the copy.
<1>AfterLocals.
  ASSUME NEW p \in Procs, NEW w, p \in live', pc'[p] = After(p, w), rf'[p] = w, wf'[p] = 0, ip'[p] = ip[p], fd'[p] = fd[p],
         ff'[p].type = "none", ip[p] = 0 \/ fd[p] = 0
  PROVE  LocalsAt(p)'
  <2> USE <1>AfterLocals
  <2>1. CASE w # 0
    BY <2>1, ZenonT(20) DEF LocalsAt, After
  <2>2. CASE w = 0 /\ ip[p] # 0
    BY <2>2, ZenonT(20) DEF LocalsAt, After
  <2>3. CASE w = 0 /\ ip[p] = 0 /\ fd[p] # 0
    BY <2>3, ZenonT(20) DEF LocalsAt, After
  <2>4. CASE w = 0 /\ ip[p] = 0 /\ fd[p] = 0
    BY <2>4, ZenonT(20) DEF LocalsAt, After
  <2> QED BY <2>1, <2>2, <2>3, <2>4, ZenonT(20)
<1>AfterLabels.
  ASSUME NEW p, NEW w
  PROVE  /\ After(p, w) \in Labels /\ After(p, w) # "fork" /\ After(p, w) # "fields" /\ After(p, w) # "dup" /\ After(p, w) # "pipe"
         /\ "release" \in Labels
  BY ZenonT(20) DEF After, Labels
<1>CloseNames.
  ASSUME FileInv, NEW p \in Procs, Others(p), ofile' = ofile, fd'[p] = fd[p], pc'[p] # "fields", pc'[p] # "dup", pc'[p] # "pipe",
         \A x \in Files : \/ ftable'[x].type = ftable[x].type
                          \/ ftable'[x].type = "none" /\ \A q \in Procs, d \in Fds : ofile[q][d] = x => fd[q] = d
  PROVE  Names' /\ \A x : nC(x)' = nC(x)
  <2> USE <1>CloseNames
  <2>1. Names /\ Locals /\ ofile \in [Procs -> [Fds -> Files \cup {0}]] /\ rf \in [Procs -> Files \cup {0}]
    BY ZenonT(20) DEF FileInv, Types
  <2>2. \A q \in Procs : fd'[q] = fd[q]
    BY ZenonT(20) DEF Others
  <2>3. ASSUME NEW q \in Procs PROVE NamesAt(q)'
    <3>1. NamesAt(q) /\ LocalsAt(q)
      BY <2>1, ZenonT(20) DEF Names, Locals
    <3>2. fd'[q] = fd[q] /\ ofile'[q] = ofile[q]
      BY <2>2, ZenonT(20)
    <3>3. pc'[q] \in {"fields", "dup", "pipe"} => q # p /\ pc[q] = pc'[q] /\ rf'[q] = rf[q]
      BY ZenonT(20) DEF Others
    <3>4. pc'[q] \in {"fields", "pipe"} => rf'[q] \in Files
      BY <2>1, <3>1, <3>3, ZenonT(20) DEF LocalsAt
    <3>5. pc'[q] \in {"fields", "pipe"} => ftable'[rf'[q]].type = "none"
      BY <3>1, <3>3, <3>4, ZenonT(20) DEF NamesAt
    <3>6. ASSUME NEW e \in Fds, ofile[q][e] # 0, ftable'[ofile[q][e]].type = "none" PROVE e = fd[q]
      <4>1. ofile[q][e] \in Files
        BY <2>1, <3>6
      <4>2. CASE ftable'[ofile[q][e]].type = ftable[ofile[q][e]].type
        BY <3>1, <3>6, <4>2, ZenonT(20) DEF NamesAt
      <4>3. CASE \A s \in Procs, d \in Fds : ofile[s][d] = ofile[q][e] => fd[s] = d
        BY <4>3, ZenonT(20)
      <4> QED BY <4>1, <4>2, <4>3, ZenonT(20)
    <3> QED BY <3>1, <3>2, <3>3, <3>5, <3>6 DEF NamesAt
  <2>4. ASSUME NEW x PROVE nC(x)' = nC(x)
    BY <2>2, CountedSame, ZenonT(20)
  <2> QED BY <2>3, <2>4, ZenonT(20) DEF Names
\* A copy changes with the locals.
<1>CopyOthers.
  ASSUME Types, NEW p \in Procs, NEW l, NEW r, NEW w, NEW i, NEW d, Goto(p, l, r, w, i, d), NEW c, ff' = [ff EXCEPT ![p] = c]
  PROVE  Others(p) /\ ff'[p] = c /\ DOMAIN ff = Procs /\ DOMAIN ff' = Procs /\ \A q \in Procs : q # p => ff'[q] = ff[q]
  <2> USE <1>CopyOthers
  <2>1. \A q \in Procs : q # p => pc'[q] = pc[q] /\ rf'[q] = rf[q] /\ wf'[q] = wf[q] /\ ip'[q] = ip[q] /\ fd'[q] = fd[q]
    BY GotoLocals
  <2>2. ff \in [Procs -> File]
    BY ZenonT(20) DEF Types
  <2>3. ff'[p] = c /\ DOMAIN ff = Procs /\ DOMAIN ff' = Procs /\ \A q \in Procs : q # p => ff'[q] = ff[q]
    BY <2>2, ZenonT(20)
  <2> QED BY <2>1, <2>3, ZenonT(20) DEF Others
<1>FrameCopy.
  ASSUME FileInv, NEW p \in Procs, NEW l \in Labels, NEW r \in Files \cup {0}, NEW w \in Files \cup {0},
         Goto(p, l, r, w, ip[p], fd[p]), NEW c \in File, ff' = [ff EXCEPT ![p] = c], np' = np, live' = live, ofile' = ofile,
         l # "fork", pc[p] # "fork", LocalsAt(p)',
         ftable' \in [Files -> File], iref' \in [Inodes -> Int], ends' \in [Pipes -> SUBSET BOOLEAN]
  PROVE  Types' /\ Locals' /\ Forks'
  <2> USE <1>FrameCopy
  <2>1. Types /\ Locals /\ Forks
    BY ZenonT(20) DEF FileInv
  <2>2. Others(p)
    BY <2>1, <1>CopyOthers, ZenonT(20)
  <2>3. ip[p] \in Inodes \cup {0} /\ fd[p] \in Fds \cup {0}
    BY <2>1, ZenonT(20) DEF Types
  <2>4. /\ pc' \in [Procs -> Labels] /\ rf' \in [Procs -> Files \cup {0}] /\ wf' \in [Procs -> Files \cup {0}]
        /\ ip' \in [Procs -> Inodes \cup {0}] /\ fd' \in [Procs -> Fds \cup {0}]
    BY <2>1, <2>3, GotoTypes, ZenonT(20)
  <2>5. ff' \in [Procs -> File]
    <3>1. ff \in [Procs -> File]
      BY <2>1, ZenonT(20) DEF Types
    <3> QED BY <3>1, ZenonT(20)
  <2>6. Types'
    BY <2>1, <2>4, <2>5, ZenonT(20) DEF Types
  <2>7. Locals'
    <3>1. live \ {p} \subseteq live'
      BY ZenonT(20)
    <3> QED BY <2>1, <2>2, <3>1, OthersLocals, ZenonT(20)
  <2>8. Forks'
    <3>1. live' \subseteq live /\ pc'[p] # "fork"
      BY <2>1, GotoLocals
    <3> QED BY <2>1, <2>2, <3>1, OthersForks, ZenonT(20)
  <2> QED BY <2>6, <2>7, <2>8, ZenonT(20)
<1>AtClose.
  ASSUME Counting, FileInv, NEW p \in Procs, pc[p] = "close"
  PROVE  /\ p \in live /\ rf[p] \in Files /\ wf[p] \in Files \cup {0} /\ ff[p].type = "none" /\ (ip[p] = 0 \/ fd[p] = 0)
         /\ ftable[rf[p]] \in File /\ ftable[rf[p]].ref \in Nat /\ ftable[rf[p]].ref >= 1
  <2> USE <1>AtClose
  <2>1. LocalsAt(p) /\ rf[p] \in Files \cup {0} /\ wf[p] \in Files \cup {0} /\ RefsExact /\ Types
    BY ZenonT(20) DEF FileInv, Locals, Types
  <2>2. p \in live /\ rf[p] # 0 /\ ff[p].type = "none" /\ (ip[p] = 0 \/ fd[p] = 0)
    BY <2>1, ZenonT(20) DEF LocalsAt
  <2>3. rf[p] \in Files
    BY <2>1, <2>2, ZenonT(20)
  <2>4. ftable[rf[p]] \in File /\ ftable[rf[p]].ref \in Nat
    BY <2>1, <2>3, RefNat, ZenonT(20) DEF Types
  <2>5. ftable[rf[p]].ref = nC(rf[p]) + nH(rf, rf[p]) + nH(wf, rf[p])
    BY <2>1, <2>3, ZenonT(20) DEF RefsExact
  <2>6. nH(rf, rf[p]) \in Nat /\ nH(rf, rf[p]) # 0 /\ nH(wf, rf[p]) \in Nat
    BY HoldSmall, ZenonT(20)
  <2>7. nC(rf[p]) \in Nat
    BY CountedSmall, ZenonT(20)
  <2>8. ftable[rf[p]].ref >= 1
    BY <2>5, <2>6, <2>7
  <2> QED BY <2>1, <2>2, <2>3, <2>4, <2>8, ZenonT(20)
\* The references after a fileclose of rf.
<1>CloseRefs.
  ASSUME Counting, Types, RefsExact, NEW p \in Procs, NEW l, Goto(p, l, wf[p], 0, ip[p], fd[p]), \A x : nC(x)' = nC(x),
         \A x \in Files : ftable'[x].ref = ftable[x].ref - One(rf[p] = x) /\ (ftable'[x].ref = 0 => ftable'[x] = NoFile)
  PROVE  RefsExact'
  <2> USE <1>CloseRefs
  <2>1. ASSUME NEW x \in Files
        PROVE  /\ nC(x)' \in Int
               /\ ftable'[x].ref = ftable[x].ref + (nC(x)' - nC(x)) - One(rf[p] = x) + One(wf[p] = x) - One(wf[p] = x) + One(0 = x)
               /\ ftable'[x].ref = 0 => ftable'[x] = NoFile
    <3>1. x # 0 /\ ftable[x].ref \in Nat
      BY RefNat, ZenonT(20)
    <3>2. nC(x) \in Nat /\ nC(x)' = nC(x)
      BY CountedSmall, ZenonT(20)
    <3>3. One(0 = x) = 0 /\ One(rf[p] = x) \in Int /\ One(wf[p] = x) \in Int
      BY <3>1 DEF One
    <3>4. ftable'[x].ref = ftable[x].ref - One(rf[p] = x) /\ (ftable'[x].ref = 0 => ftable'[x] = NoFile)
      BY ZenonT(20)
    <3> QED BY <3>1, <3>2, <3>3, <3>4
  <2>2. Balanced(p, wf[p], 0)
    BY <2>1, ZenonT(20) DEF Balanced
  <2> QED BY <2>2, RefsBalance, ZenonT(20)
<1>CloseNotLast.
  ASSUME Counting, FileTableSizes, FileInv, NEW p \in Procs, pc[p] = "close", ftable[rf[p]].ref > 1, ~panicked',
         ftable' = [ftable EXCEPT ![rf[p]].ref = @ - 1], Goto(p, After(p, wf[p]), wf[p], 0, ip[p], fd[p]), ff' = ff,
         UNCHANGED <<ofile, iref, ends, live, np>>
  PROVE  FileInv'
  <2> USE <1>CloseNotLast
  <2> DEFINE f == rf[p]
             l == After(p, wf[p])
  <2>1. Types /\ AllFit /\ Locals /\ Forks /\ Names /\ RefsExact /\ InodesExact /\ PipesExact /\ ~panicked
    BY ZenonT(20) DEF FileInv
  <2>2. /\ p \in live /\ f \in Files /\ wf[p] \in Files \cup {0} /\ ff[p].type = "none" /\ (ip[p] = 0 \/ fd[p] = 0)
        /\ ftable[f] \in File /\ ftable[f].ref \in Nat
    BY <1>AtClose, ZenonT(20)
  <2>3. /\ ftable' \in [Files -> File] /\ ftable'[f].ref = ftable[f].ref - 1 /\ ftable'[f].type = ftable[f].type
        /\ ftable'[f].obj = ftable[f].obj /\ ftable'[f].writable = ftable[f].writable
        /\ \A x \in Files : x # f => ftable'[x] = ftable[x]
    <3> DEFINE R == [ftable[f] EXCEPT !.ref = @ - 1]
    <3>1. ftable' = [ftable EXCEPT ![f] = R]
      BY ZenonT(20)
    <3>2. ftable[f].ref - 1 \in Nat
      BY <2>2
    <3>3. /\ R \in File /\ R.ref = ftable[f].ref - 1 /\ R.type = ftable[f].type
          /\ R.obj = ftable[f].obj /\ R.writable = ftable[f].writable
      BY <2>2, <3>2, ZenonT(20) DEF File
    <3>4. ftable \in [Files -> File]
      BY <2>1, ZenonT(20) DEF Types
    <3> HIDE DEF R, f
    <3> QED BY <2>2, <3>1, <3>3, <3>4, ZenonT(20)
  <2>4. l \in Labels /\ l # "fork" /\ l # "fields" /\ l # "dup" /\ l # "pipe"
    BY <1>AfterLabels, ZenonT(20)
  <2>5. pc'[p] = l /\ rf'[p] = wf[p] /\ wf'[p] = 0 /\ ip'[p] = ip[p] /\ fd'[p] = fd[p]
    BY <2>1, GotoLocals
  <2>6. Others(p)
    BY <2>1, GotoOthers, ZenonT(20)
  <2>7. Names' /\ \A x : nC(x)' = nC(x)
    <3>1. \A x \in Files : ftable'[x].type = ftable[x].type
      BY <2>3, ZenonT(20)
    <3>2. pc'[p] # "fields" /\ pc'[p] # "dup" /\ pc'[p] # "pipe"
      BY <2>4, <2>5, ZenonT(20)
    <3> QED BY <2>5, <2>6, <3>1, <3>2, <1>CloseNames, ZenonT(20)
  <2>8. LocalsAt(p)'
    <3>1. p \in live' /\ ff'[p].type = "none"
      BY <2>2, ZenonT(20)
    <3> QED BY <2>2, <2>5, <3>1, <1>AfterLocals, ZenonT(20)
  <2>9. Types' /\ Locals' /\ Forks'
    <3>1. pc[p] # "fork" /\ 0 \in Files \cup {0}
      BY ZenonT(20)
    <3>2. iref' \in [Inodes -> Int] /\ ends' \in [Pipes -> SUBSET BOOLEAN] /\ ofile' \in [Procs -> [Fds -> Files \cup {0}]]
          /\ ip[p] \in Inodes \cup {0} /\ fd[p] \in Fds \cup {0}
      BY <2>1, ZenonT(20) DEF Types
    <3> HIDE DEF f
    <3> QED BY <2>2, <2>3, <2>4, <2>8, <3>1, <3>2, Frame, ZenonT(20)
  <2>10. RefsExact'
    <3>1. ASSUME NEW x \in Files
          PROVE  ftable'[x].ref = ftable[x].ref - One(rf[p] = x) /\ (ftable'[x].ref = 0 => ftable'[x] = NoFile)
      <4>1. ftable[x].ref \in Nat
        BY <2>1, RefNat, ZenonT(20)
      <4>2. ftable[x].ref = 0 => ftable[x] = NoFile
        BY <2>1, ZenonT(20) DEF RefsExact
      <4>3. CASE x = f
        BY <2>2, <2>3, <4>1, <4>3 DEF One
      <4>4. CASE x # f
        BY <2>3, <4>1, <4>2, <4>4 DEF One
      <4> QED BY <4>3, <4>4
    <3> HIDE DEF f
    <3> QED BY <2>1, <2>7, <3>1, <1>CloseRefs, ZenonT(20)
  <2>11. SameObjects(ftable, ftable')
    <3>1. DOMAIN ftable = Files /\ DOMAIN ftable' = Files
      BY <2>1, <2>3, ZenonT(20) DEF Types
    <3> HIDE DEF f
    <3> QED BY <2>3, <3>1, ZenonT(20) DEF SameObjects
  <2>12. InodesExact' /\ PipesExact'
    BY <2>1, <2>11, InodesSame, PipesKept, ZenonT(20)
  <2>13. AllFit'
    <3>1. ASSUME NEW x \in Files PROVE Fits(ftable'[x])
      <4>1. Fits(ftable[x])
        BY <2>1, ZenonT(20) DEF AllFit
      <4>2. CASE x = f
        BY <2>2, <2>3, <4>1, <4>2 DEF Fits
      <4>3. CASE x # f
        BY <2>3, <4>1, <4>3, ZenonT(20)
      <4> QED BY <4>2, <4>3, ZenonT(20)
    <3> QED BY <2>1, <3>1, ZenonT(20) DEF AllFit
  <2> QED BY <2>1, <2>7, <2>9, <2>10, <2>12, <2>13, ZenonT(20) DEF FileInv
<1>Moves.
  ASSUME Counting, Types, NEW p \in Procs, NEW f \in Files, NEW c, Moved(p, f, c)
  PROVE  /\ \A i : nI(ftable', i) + nI(ff', i) = nI(ftable, i) + nI(ff, i) /\ nI(ftable', i) \in Int /\ nI(ff', i) \in Int
                   /\ nI(ftable, i) \in Int /\ nI(ff, i) \in Int
         /\ \A k, w : nP(ftable', k, w) + nP(ff', k, w) = nP(ftable, k, w) + nP(ff, k, w)
  <2> USE <1>Moves
  <2>1. DOMAIN ftable = Files /\ DOMAIN ff = Procs
    BY ZenonT(20) DEF Types
  <2>2. /\ \A i : nI(ftable, i) \in Nat /\ nI(ftable', i) = nI(ftable, i) - One(IsInode(ftable[f], i)) + One(IsInode(ftable'[f], i))
        /\ \A k, w : nP(ftable, k, w) \in Nat
                     /\ nP(ftable', k, w) = nP(ftable, k, w) - One(IsPipe(ftable[f], k, w)) + One(IsPipe(ftable'[f], k, w))
    BY <2>1, FileChange DEF Moved
  <2>3. /\ \A i : nI(ff, i) \in Nat /\ nI(ff', i) = nI(ff, i) - One(IsInode(ff[p], i)) + One(IsInode(ff'[p], i))
        /\ \A k, w : nP(ff, k, w) \in Nat /\ nP(ff', k, w) = nP(ff, k, w) - One(IsPipe(ff[p], k, w)) + One(IsPipe(ff'[p], k, w))
    BY <2>1, CopyChange DEF Moved
  <2>4. ASSUME NEW i PROVE nI(ftable', i) + nI(ff', i) = nI(ftable, i) + nI(ff, i) /\ nI(ftable', i) \in Int /\ nI(ff', i) \in Int
                           /\ nI(ftable, i) \in Int /\ nI(ff, i) \in Int
    <3>1. One(IsInode(ftable'[f], i)) = 0 /\ One(IsInode(ff[p], i)) = 0 /\ One(IsInode(ff'[p], i)) = One(IsInode(ftable[f], i))
          /\ One(IsInode(ftable[f], i)) \in Nat
      BY ZenonT(20) DEF IsInode, One, Moved
    <3> QED BY <2>2, <2>3, <3>1
  <2>5. ASSUME NEW k, NEW w PROVE nP(ftable', k, w) + nP(ff', k, w) = nP(ftable, k, w) + nP(ff, k, w)
    <3>1. One(IsPipe(ftable'[f], k, w)) = 0 /\ One(IsPipe(ff[p], k, w)) = 0 /\ One(IsPipe(ff'[p], k, w)) = One(IsPipe(ftable[f], k, w))
          /\ One(IsPipe(ftable[f], k, w)) \in Nat
      BY ZenonT(20) DEF IsPipe, One, Moved
    <3> QED BY <2>2, <2>3, <3>1
  <2> QED BY <2>4, <2>5, ZenonT(20)
<1>CloseLast.
  ASSUME Counting, FileTableSizes, FileInv, NEW p \in Procs, pc[p] = "close", ftable[rf[p]].ref <= 1, ~panicked',
         ftable' = [ftable EXCEPT ![rf[p]] = NoFile], NEW c, c = Copied(rf[p]), ff' = [ff EXCEPT ![p] = c],
         NEW l, l = (IF ftable[rf[p]].type = "none" THEN After(p, wf[p]) ELSE "release"),
         Goto(p, l, wf[p], 0, ip[p], fd[p]), UNCHANGED <<ofile, iref, ends, live, np>>
  PROVE  FileInv'
  <2> USE <1>CloseLast
  <2> DEFINE f == rf[p]
  <2>1. Types /\ AllFit /\ Locals /\ Forks /\ Names /\ RefsExact /\ InodesExact /\ PipesExact /\ ~panicked
    BY ZenonT(20) DEF FileInv
  <2>2. /\ p \in live /\ f \in Files /\ wf[p] \in Files \cup {0} /\ ff[p].type = "none" /\ (ip[p] = 0 \/ fd[p] = 0)
        /\ ftable[f] \in File /\ ftable[f].ref \in Nat
    BY <1>AtClose, ZenonT(20)
  <2>3. NoFile \in File /\ NoFile.ref = 0 /\ NoFile.type = "none" /\ Fits(NoFile)
    BY DEF NoFile, File, Fits
  <2>4. c \in File /\ c.ref = 0 /\ c.type = ftable[f].type /\ c.obj = ftable[f].obj /\ c.writable = ftable[f].writable
    BY <2>2 DEF File, Copied
  <2>5. ftable[f].ref = 1 /\ \A q \in Procs : \A d \in Fds : ofile[q][d] = f => fd[q] = d
    BY <2>1, <2>2, OneHolder, ZenonT(20)
  <2> HIDE DEF f
  <2>6. ftable' \in [Files -> File] /\ ftable'[f] = NoFile /\ DOMAIN ftable' = Files /\ \A x \in Files : x # f => ftable'[x] = ftable[x]
    <3>1. ftable' = [ftable EXCEPT ![f] = NoFile] /\ ftable \in [Files -> File]
      BY <2>1, ZenonT(20) DEF f, Types
    <3> QED BY <2>2, <2>3, <3>1, ZenonT(20)
  <2>7. pc'[p] = l /\ rf'[p] = wf[p] /\ wf'[p] = 0 /\ ip'[p] = ip[p] /\ fd'[p] = fd[p]
    BY <2>1, GotoLocals
  <2>8. Others(p) /\ ff'[p] = c /\ DOMAIN ff = Procs /\ DOMAIN ff' = Procs /\ \A q \in Procs : q # p => ff'[q] = ff[q]
    BY <2>1, <1>CopyOthers, ZenonT(20)
  <2>9. l = IF ftable[f].type = "none" THEN After(p, wf[p]) ELSE "release"
    BY ZenonT(20) DEF f
  <2>10. l \in Labels /\ l # "fork" /\ l # "fields" /\ l # "dup" /\ l # "pipe"
    <3>1. CASE l = "release"
      BY <3>1, ZenonT(20) DEF Labels
    <3>2. CASE l = After(p, wf[p])
      BY <3>2, <1>AfterLabels, ZenonT(20)
    <3> QED BY <2>9, <3>1, <3>2, ZenonT(20)
  <2>11. Names' /\ \A x : nC(x)' = nC(x)
    <3>1. ASSUME NEW x \in Files
          PROVE  \/ ftable'[x].type = ftable[x].type
                 \/ ftable'[x].type = "none" /\ \A q \in Procs, d \in Fds : ofile[q][d] = x => fd[q] = d
      <4>1. CASE x = f
        BY <2>3, <2>5, <2>6, <4>1, ZenonT(20)
      <4>2. CASE x # f
        BY <2>6, <4>2, ZenonT(20)
      <4> QED BY <4>1, <4>2, ZenonT(20)
    <3>2. pc'[p] # "fields" /\ pc'[p] # "dup" /\ pc'[p] # "pipe"
      BY <2>7, <2>10, ZenonT(20)
    <3> QED BY <2>7, <2>8, <3>1, <3>2, <1>CloseNames, ZenonT(20)
  <2>12. LocalsAt(p)'
    <3>1. p \in live'
      BY <2>2, ZenonT(20)
    <3>2. CASE ftable[f].type = "none"
      <4>1. ff'[p].type = "none" /\ pc'[p] = After(p, wf[p])
        BY <2>4, <2>7, <2>8, <2>9, <3>2, ZenonT(20)
      <4> QED BY <2>2, <2>7, <3>1, <4>1, <1>AfterLocals, ZenonT(20)
    <3>3. CASE ftable[f].type # "none"
      <4>1. ff'[p].type # "none" /\ pc'[p] = "release"
        BY <2>4, <2>7, <2>8, <2>9, <3>3, ZenonT(20)
      <4> QED BY <2>2, <2>7, <3>1, <4>1 DEF LocalsAt
    <3> QED BY <3>2, <3>3
  <2>13. Types' /\ Locals' /\ Forks'
    <3>1. pc[p] # "fork" /\ 0 \in Files \cup {0}
      BY ZenonT(20)
    <3>2. iref' \in [Inodes -> Int] /\ ends' \in [Pipes -> SUBSET BOOLEAN]
      BY <2>1, ZenonT(20) DEF Types
    <3> QED BY <2>2, <2>4, <2>6, <2>10, <2>12, <3>1, <3>2, <1>FrameCopy, ZenonT(20)
  <2>14. RefsExact'
    <3>1. ASSUME NEW x \in Files
          PROVE  ftable'[x].ref = ftable[x].ref - One(rf[p] = x) /\ (ftable'[x].ref = 0 => ftable'[x] = NoFile)
      <4>1. ftable[x].ref \in Nat
        BY <2>1, RefNat, ZenonT(20)
      <4>2. ftable[x].ref = 0 => ftable[x] = NoFile
        BY <2>1, ZenonT(20) DEF RefsExact
      <4>3. CASE x = f
        BY <2>3, <2>5, <2>6, <4>3 DEF One, f
      <4>4. CASE x # f
        BY <2>6, <4>1, <4>2, <4>4 DEF One, f
      <4> QED BY <4>3, <4>4, ZenonT(20)
    <3> QED BY <2>1, <2>11, <3>1, <1>CloseRefs, ZenonT(20)
  <2>15. /\ \A i : nI(ftable', i) + nI(ff', i) = nI(ftable, i) + nI(ff, i) /\ nI(ftable', i) \in Int /\ nI(ff', i) \in Int
                     /\ nI(ftable, i) \in Int /\ nI(ff, i) \in Int
         /\ \A k, w : nP(ftable', k, w) + nP(ff', k, w) = nP(ftable, k, w) + nP(ff, k, w)
    <3>1. ftable'[f].type = "none"
      BY <2>3, <2>6, ZenonT(20)
    <3>2. Moved(p, f, c)
      BY <2>2, <2>4, <2>6, <2>8, <3>1, ZenonT(20) DEF Moved
    <3> QED BY <2>1, <2>2, <3>2, <1>Moves, ZenonT(20)
  <2>16. InodesExact'
    <3>1. ASSUME NEW i \in Inodes PROVE iref'[i] = nI(ftable', i) + nI(ff', i) + nH(ip', i)
      <4>1. nH(ip', i) = nH(ip, i) - One(ip[p] = i) + One(ip[p] = i) /\ nH(ip, i) \in Nat
        BY <2>1, GotoHolds
      <4>2. One(ip[p] = i) \in Int
        BY DEF One
      <4>3. nH(ip', i) = nH(ip, i)
        BY <4>1, <4>2
      <4>4. iref'[i] = nI(ftable, i) + nI(ff, i) + nH(ip, i)
        BY <2>1, ZenonT(20) DEF InodesExact
      <4> QED BY <2>15, <4>3, <4>4, ZenonT(20)
    <3> QED BY <3>1, ZenonT(20) DEF InodesExact, nI, nH, OfInode, Holding
  <2>17. PipesExact'
    <3>1. ASSUME NEW k \in Pipes, NEW w \in BOOLEAN PROVE One(w \in ends'[k]) = nP(ftable', k, w) + nP(ff', k, w)
      <4>1. One(w \in ends'[k]) = nP(ftable, k, w) + nP(ff, k, w)
        BY <2>1, ZenonT(20) DEF PipesExact
      <4> QED BY <2>15, <4>1, ZenonT(20)
    <3> QED BY <3>1, ZenonT(20) DEF PipesExact, nP, OfPipe, One
  <2>18. AllFit'
    <3>1. ASSUME NEW x \in Files PROVE Fits(ftable'[x])
      BY <2>1, <2>3, <2>6, ZenonT(20) DEF AllFit
    <3>2. Fits(c)
      <4>1. Fits(ftable[f])
        BY <2>1, <2>2, ZenonT(20) DEF AllFit
      <4> QED BY <2>4, <4>1 DEF Fits
    <3>3. ASSUME NEW q \in Procs PROVE Fits(ff'[q]) /\ ff'[q].ref = 0
      BY <2>1, <2>4, <2>8, <3>2, ZenonT(20) DEF AllFit
    <3> QED BY <3>1, <3>3, ZenonT(20) DEF AllFit, Fits
  <2> QED BY <2>1, <2>11, <2>13, <2>14, <2>16, <2>17, <2>18, ZenonT(20) DEF FileInv
<1>FilecloseStep. ASSUME Counting, FileTableSizes, FileInv, NEW p \in Procs, fileclose(p)
                       PROVE  FileInv'
  <2> USE <1>FilecloseStep
  <2>1. pc[p] = "close" /\ panicked' = (panicked \/ ftable[rf[p]].ref < 1) /\ UNCHANGED <<ofile, iref, ends, live, np>>
    BY ZenonT(20) DEF fileclose
  <2>2. ~panicked'
    <3>1. ftable[rf[p]].ref \in Nat /\ ftable[rf[p]].ref >= 1 /\ ~panicked
      BY <2>1, <1>AtClose, ZenonT(20) DEF FileInv
    <3>2. ~(ftable[rf[p]].ref < 1)
      BY <3>1
    <3> QED BY <2>1, <3>1, <3>2, ZenonT(20)
  <2>3. CASE /\ ftable[rf[p]].ref > 1
             /\ ftable' = [ftable EXCEPT ![rf[p]].ref = @ - 1]
             /\ Goto(p, After(p, wf[p]), wf[p], 0, ip[p], fd[p])
             /\ UNCHANGED ff
    BY <2>1, <2>2, <2>3, <1>CloseNotLast, ZenonT(20)
  <2>4. CASE /\ ftable[rf[p]].ref <= 1
             /\ ftable' = [ftable EXCEPT ![rf[p]] = NoFile]
             /\ ff' = [ff EXCEPT ![p] = Copied(rf[p])]
             /\ Goto(p, IF ftable[rf[p]].type = "none" THEN After(p, wf[p]) ELSE "release", wf[p], 0, ip[p], fd[p])
    <3> DEFINE c == Copied(rf[p])
               l == IF ftable[rf[p]].type = "none" THEN After(p, wf[p]) ELSE "release"
    <3>1. c = Copied(rf[p]) /\ ff' = [ff EXCEPT ![p] = c] /\ Goto(p, l, wf[p], 0, ip[p], fd[p])
          /\ l = (IF ftable[rf[p]].type = "none" THEN After(p, wf[p]) ELSE "release")
      BY <2>4, ZenonT(20)
    <3> HIDE DEF c, l
    <3> QED BY <2>1, <2>2, <2>4, <3>1, <1>CloseLast, ZenonT(20)
  <2> QED BY <2>3, <2>4, ZenonT(20) DEF fileclose
<1>AtRelease.
  ASSUME FileInv, NEW p \in Procs, pc[p] = "release"
  PROVE  /\ p \in live /\ wf[p] = 0 /\ rf[p] \in Files \cup {0} /\ (ip[p] = 0 \/ fd[p] = 0) /\ ff[p] \in File
         /\ (ff[p].type = "inode" /\ ff[p].obj \in Inodes) \/ (ff[p].type = "pipe" /\ ff[p].obj \in Pipes)
  <2> USE <1>AtRelease
  <2>1. LocalsAt(p) /\ rf[p] \in Files \cup {0} /\ ff[p] \in File /\ Fits(ff[p])
    BY ZenonT(20) DEF FileInv, Locals, Types, AllFit
  <2>2. p \in live /\ wf[p] = 0 /\ ff[p].type # "none" /\ (ip[p] = 0 \/ fd[p] = 0)
    BY <2>1, ZenonT(20) DEF LocalsAt
  <2>3. ff[p].type \in {"none", "inode", "pipe"}
    BY <2>1, ZenonT(20) DEF File
  <2> QED BY <2>1, <2>2, <2>3 DEF Fits
\* What a step that gives up the object of a copy leaves to show.
<1>Releases.
  ASSUME Counting, FileTableSizes, FileInv, NEW p \in Procs, Release(p),
         iref' \in [Inodes -> Int], ends' \in [Pipes -> SUBSET BOOLEAN],
         \A i \in Inodes : iref'[i] = iref[i] - One(IsInode(ff[p], i)),
         \A k \in Pipes, w \in BOOLEAN : One(w \in ends'[k]) = One(w \in ends[k]) - One(IsPipe(ff[p], k, w))
  PROVE  FileInv'
  <2> USE <1>Releases
  <2> DEFINE l == After(p, rf[p])
  <2>1. Types /\ AllFit /\ Locals /\ Forks /\ Names /\ RefsExact /\ InodesExact /\ PipesExact /\ ~panicked
    BY ZenonT(20) DEF FileInv
  <2>2. /\ pc[p] = "release" /\ ff' = [ff EXCEPT ![p] = NoFile] /\ pc' = [pc EXCEPT ![p] = l]
        /\ UNCHANGED <<ftable, ofile, live, rf, wf, ip, fd, np, panicked>>
    BY ZenonT(20) DEF Release
  <2>3. p \in live /\ wf[p] = 0 /\ rf[p] \in Files \cup {0} /\ (ip[p] = 0 \/ fd[p] = 0)
    BY <2>2, <1>AtRelease, ZenonT(20)
  <2>4. Goto(p, l, rf[p], wf[p], ip[p], fd[p])
    <3>1. /\ rf \in [Procs -> Files \cup {0}] /\ wf \in [Procs -> Files \cup {0}]
          /\ ip \in [Procs -> Inodes \cup {0}] /\ fd \in [Procs -> Fds \cup {0}]
      BY <2>1, ZenonT(20) DEF Types
    <3>2. rf = [rf EXCEPT ![p] = rf[p]] /\ wf = [wf EXCEPT ![p] = wf[p]] /\ ip = [ip EXCEPT ![p] = ip[p]] /\ fd = [fd EXCEPT ![p] = fd[p]]
      BY <3>1, ZenonT(20)
    <3> QED BY <2>2, <3>2, ZenonT(20) DEF Goto
  <2>5. NoFile \in File /\ NoFile.ref = 0 /\ NoFile.type = "none" /\ Fits(NoFile)
    BY DEF NoFile, File, Fits
  <2>6. l \in Labels /\ l # "fork" /\ l # "fields" /\ l # "dup" /\ l # "pipe"
    BY <1>AfterLabels, ZenonT(20)
  <2>7. Others(p) /\ ff'[p] = NoFile /\ DOMAIN ff = Procs /\ DOMAIN ff' = Procs /\ \A q \in Procs : q # p => ff'[q] = ff[q]
    BY <2>1, <2>2, <2>4, <1>CopyOthers, ZenonT(20)
  <2>8. pc'[p] = l /\ rf'[p] = rf[p] /\ wf'[p] = 0 /\ ip'[p] = ip[p] /\ fd'[p] = fd[p]
    <3>1. pc \in [Procs -> Labels]
      BY <2>1, ZenonT(20) DEF Types
    <3> HIDE DEF l
    <3> QED BY <2>2, <2>3, <3>1
  <2>9. Names' /\ \A x : nC(x)' = nC(x)
    <3>1. \A x \in Files : ftable'[x].type = ftable[x].type
      BY <2>2, ZenonT(20)
    <3>2. pc'[p] # "fields" /\ pc'[p] # "dup" /\ pc'[p] # "pipe"
      BY <2>6, <2>8, ZenonT(20)
    <3> QED BY <2>2, <2>7, <2>8, <3>1, <3>2, <1>CloseNames, ZenonT(20)
  <2>10. LocalsAt(p)'
    <3>1. p \in live' /\ ff'[p].type = "none"
      BY <2>2, <2>3, <2>5, <2>7, ZenonT(20)
    <3> QED BY <2>3, <2>8, <3>1, <1>AfterLocals, ZenonT(20)
  <2>11. Types' /\ Locals' /\ Forks'
    <3>1. pc[p] # "fork" /\ wf[p] \in Files \cup {0}
      BY <2>2, <2>3, ZenonT(20)
    <3>2. ftable' \in [Files -> File]
      BY <2>1, <2>2, ZenonT(20) DEF Types
    <3> HIDE DEF l
    <3> QED BY <2>2, <2>3, <2>4, <2>5, <2>6, <2>10, <3>1, <3>2, <1>FrameCopy, ZenonT(20)
  <2>12. RefsExact'
    BY <2>1, <2>2, <2>9, ZenonT(20) DEF RefsExact
  <2>13. /\ \A i : nI(ff, i) \in Nat /\ nI(ff', i) = nI(ff, i) - One(IsInode(ff[p], i)) + One(IsInode(ff'[p], i))
         /\ \A k, w : nP(ff, k, w) \in Nat /\ nP(ff', k, w) = nP(ff, k, w) - One(IsPipe(ff[p], k, w)) + One(IsPipe(ff'[p], k, w))
    BY <2>7, CopyChange
  <2>14. DOMAIN ftable = Files
    BY <2>1 DEF Types
  <2>15. InodesExact'
    <3>1. ASSUME NEW i \in Inodes PROVE iref'[i] = nI(ftable', i) + nI(ff', i) + nH(ip', i)
      <4>1. One(IsInode(ff'[p], i)) = 0 /\ One(IsInode(ff[p], i)) \in Nat
        BY <2>5, <2>7, ZenonT(20) DEF IsInode, One
      <4>2. nI(ff, i) \in Nat /\ nI(ff', i) = nI(ff, i) - One(IsInode(ff[p], i))
        BY <2>13, <4>1
      <4>3. nI(ftable, i) \in Nat
        BY <2>14, ObjSmall
      <4>4. nH(ip, i) \in Nat
        BY HoldSmall, ZenonT(20)
      <4>5. iref[i] = nI(ftable, i) + nI(ff, i) + nH(ip, i) /\ iref'[i] = iref[i] - One(IsInode(ff[p], i))
        BY <2>1, ZenonT(20) DEF InodesExact
      <4>6. iref'[i] = nI(ftable, i) + nI(ff', i) + nH(ip, i)
        BY <4>1, <4>2, <4>3, <4>4, <4>5
      <4> QED BY <2>2, <4>6, ZenonT(20)
    <3> QED BY <3>1, ZenonT(20) DEF InodesExact, nI, nH, OfInode, Holding
  <2>16. PipesExact'
    <3>1. ASSUME NEW k \in Pipes, NEW w \in BOOLEAN PROVE One(w \in ends'[k]) = nP(ftable', k, w) + nP(ff', k, w)
      <4>1. One(IsPipe(ff'[p], k, w)) = 0 /\ One(IsPipe(ff[p], k, w)) \in Nat
        BY <2>5, <2>7, ZenonT(20) DEF IsPipe, One
      <4>2. nP(ff, k, w) \in Nat /\ nP(ff', k, w) = nP(ff, k, w) - One(IsPipe(ff[p], k, w))
        BY <2>13, <4>1
      <4>3. nP(ftable, k, w) \in Nat
        BY <2>14, ObjSmall
      <4>4. One(w \in ends'[k]) = (nP(ftable, k, w) + nP(ff, k, w)) - One(IsPipe(ff[p], k, w))
        BY <2>1, ZenonT(20) DEF PipesExact
      <4>5. (nP(ftable, k, w) + nP(ff, k, w)) - One(IsPipe(ff[p], k, w)) = nP(ftable, k, w) + nP(ff', k, w)
        BY <4>1, <4>2, <4>3
      <4> QED BY <2>2, <4>4, <4>5, ZenonT(20)
    <3> QED BY <3>1, ZenonT(20) DEF PipesExact, nP, OfPipe, One
  <2>17. AllFit'
    <3>1. ASSUME NEW x \in Files PROVE Fits(ftable'[x])
      BY <2>1, <2>2, ZenonT(20) DEF AllFit
    <3>2. ASSUME NEW q \in Procs PROVE Fits(ff'[q]) /\ ff'[q].ref = 0
      BY <2>1, <2>5, <2>7, ZenonT(20) DEF AllFit
    <3> QED BY <3>1, <3>2, ZenonT(20) DEF AllFit, Fits
  <2> QED BY <2>1, <2>2, <2>9, <2>11, <2>12, <2>15, <2>16, <2>17, ZenonT(20) DEF FileInv
<1>ReleaseStep. ASSUME Counting, FileTableSizes, FileInv, NEW p \in Procs, Release(p)
                     PROVE  FileInv'
  <2> USE <1>ReleaseStep
  <2>1. pc[p] = "release" /\ Types /\ PipesExact
    BY ZenonT(20) DEF Release, FileInv
  <2>2. /\ ff[p] \in File
        /\ (ff[p].type = "inode" /\ ff[p].obj \in Inodes) \/ (ff[p].type = "pipe" /\ ff[p].obj \in Pipes)
    BY <2>1, <1>AtRelease, ZenonT(20)
  <2>3. iref \in [Inodes -> Int] /\ ends \in [Pipes -> SUBSET BOOLEAN]
    BY <2>1, ZenonT(20) DEF Types
  <2> DEFINE o == ff[p].obj
             v == ff[p].writable
  <2>4. CASE ff[p].type = "inode" /\ o \in Inodes
    <3>1. iref' = [iref EXCEPT ![o] = @ - 1] /\ ends' = ends
      BY <2>4, ZenonT(20) DEF Release
    <3>2. \A k \in Pipes, w \in BOOLEAN : ~IsPipe(ff[p], k, w)
      BY <2>4, ZenonT(20) DEF IsPipe
    <3>3. \A i \in Inodes : IsInode(ff[p], i) <=> i = o
      BY <2>4, ZenonT(20) DEF IsInode
    <3> HIDE DEF o
    <3>4. iref' \in [Inodes -> Int] /\ iref'[o] = iref[o] - 1 /\ \A i \in Inodes : i # o => iref'[i] = iref[i]
      BY <2>3, <2>4, <3>1
    <3>5. ASSUME NEW i \in Inodes PROVE iref'[i] = iref[i] - One(IsInode(ff[p], i))
      <4>1. iref[i] \in Int
        BY <2>3, ZenonT(20)
      <4> QED BY <3>3, <3>4, <4>1 DEF One
    <3>6. ASSUME NEW k \in Pipes, NEW w \in BOOLEAN PROVE One(w \in ends'[k]) = One(w \in ends[k]) - One(IsPipe(ff[p], k, w))
      <4>1. One(w \in ends[k]) \in Int /\ One(IsPipe(ff[p], k, w)) = 0
        BY <3>2 DEF One
      <4> QED BY <3>1, <4>1
    <3> QED BY <2>3, <3>1, <3>4, <3>5, <3>6, <1>Releases, ZenonT(20)
  <2>5. CASE ff[p].type = "pipe" /\ o \in Pipes
    <3>1. iref' = iref /\ ends' = [ends EXCEPT ![o] = @ \ {v}]
      BY <2>5, ZenonT(20) DEF Release
    <3>2. \A i \in Inodes : ~IsInode(ff[p], i)
      BY <2>5, ZenonT(20) DEF IsInode
    <3>3. \A k \in Pipes, w \in BOOLEAN : IsPipe(ff[p], k, w) <=> k = o /\ w = v
      BY <2>5, ZenonT(20) DEF IsPipe
    <3> HIDE DEF o, v
    <3>4. ends' \in [Pipes -> SUBSET BOOLEAN] /\ ends'[o] = ends[o] \ {v} /\ \A k \in Pipes : k # o => ends'[k] = ends[k]
      BY <2>3, <2>5, <3>1, ZenonT(20)
    <3>5. ASSUME NEW i \in Inodes PROVE iref'[i] = iref[i] - One(IsInode(ff[p], i))
      <4>1. iref[i] \in Int /\ One(IsInode(ff[p], i)) = 0
        BY <2>3, <3>2, ZenonT(20) DEF One
      <4> QED BY <3>1, <4>1
    <3>6. ASSUME NEW k \in Pipes, NEW w \in BOOLEAN PROVE One(w \in ends'[k]) = One(w \in ends[k]) - One(IsPipe(ff[p], k, w))
      <4>1. w \in ends'[k] <=> w \in ends[k] /\ ~IsPipe(ff[p], k, w)
        BY <3>3, <3>4, ZenonT(20)
      <4>2. IsPipe(ff[p], k, w) => w \in ends[k]
        <5>1. DOMAIN ff = Procs /\ DOMAIN ftable = Files
          BY <2>1, ZenonT(20) DEF Types
        <5>2. /\ nP(ff, k, w) \in Nat /\ nP(ftable, k, w) \in Nat
              /\ nP(ff, k, w) = 0 => \A x \in DOMAIN ff : ~IsPipe(ff[x], k, w)
          BY <5>1, ObjSmall
        <5>3. One(w \in ends[k]) = nP(ftable, k, w) + nP(ff, k, w)
          BY <2>1, ZenonT(20) DEF PipesExact
        <5>4. IsPipe(ff[p], k, w) => nP(ff, k, w) # 0
          BY <5>1, <5>2, ZenonT(20)
        <5>5. One(w \in ends[k]) # 0 => w \in ends[k]
          BY ZenonT(20) DEF One
        <5>6. nP(ff, k, w) # 0 => nP(ftable, k, w) + nP(ff, k, w) # 0
          BY <5>2
        <5> QED BY <5>3, <5>4, <5>5, <5>6, ZenonT(20)
      <4> QED BY <4>1, <4>2 DEF One
    <3> QED BY <2>3, <3>1, <3>4, <3>5, <3>6, <1>Releases, ZenonT(20)
  <2> QED BY <2>2, <2>4, <2>5, ZenonT(20)
<1> QED BY <1>FilecloseStep, <1>ReleaseStep, ZenonT(20)

\* pipealloc with one file.
LEMMA AtPipe ==
  ASSUME FileInv, NEW p \in Procs, pc[p] = "pipe"
  PROVE  /\ p \in live /\ rf[p] \in Files /\ rf[p] # 0 /\ wf[p] = 0 /\ ip[p] = 0 /\ fd[p] = 0 /\ ff[p].type = "none"
         /\ ftable[rf[p]].type = "none"
         /\ \A d \in Fds : ofile[p][d] # 0 => ftable[ofile[p][d]].type # "none"
<1>1. LocalsAt(p) /\ NamesAt(p) /\ rf \in [Procs -> Files \cup {0}]
  BY ZenonT(20) DEF FileInv, Locals, Names, Types
<1>2. p \in live /\ rf[p] # 0 /\ wf[p] = 0 /\ ip[p] = 0 /\ fd[p] = 0 /\ ff[p].type = "none"
  BY <1>1, ZenonT(20) DEF LocalsAt
<1>3. \A d \in Fds : d # 0
  BY DEF Fds
<1>4. rf[p] \in Files
  BY <1>1, <1>2, ZenonT(20)
<1> QED BY <1>1, <1>2, <1>3, <1>4, ZenonT(20) DEF NamesAt

\* R and W are its ends.
EndsOf(R, W, k) == /\ R \in File /\ R.ref = 1 /\ R.type = "pipe" /\ R.obj = k /\ R.writable = FALSE
                   /\ W \in File /\ W.ref = 1 /\ W.type = "pipe" /\ W.obj = k /\ W.writable = TRUE

\* The table after it.
Made(r, f, R, W, k) ==
    /\ EndsOf(R, W, k) /\ ftable' \in [Files -> File] /\ ftable'[r] = R /\ ftable'[f] = W
    /\ \A x \in Files : x # r /\ x # f => ftable'[x] = ftable[x]

\* Its two outcomes: descriptors, or locals a and b, get the references that
\* the table counts.
Gets(p, r, f) == /\ ofile' \in [Procs -> [Fds -> Files \cup {0}]] /\ \A q \in Procs : q # p => ofile'[q] = ofile[q]
                 /\ \A d \in Fds : ofile'[p][d] \in {ofile[p][d], r, f}
GetsRefs(r, f, a, b) == \A x \in Files : nC(x)' \in Int /\ nC(x)' - nC(x) + One(a = x) + One(b = x) = One(r = x) + One(f = x)
LeadsTo(l, a, b) == (l = "run" /\ a = 0 /\ b = 0) \/ (l = "close" /\ a # 0)

\* sys_pipe gets two descriptors.
TwoSet(p, d, e, r, f) ==
    /\ ofile' \in [Procs -> [Fds -> Files \cup {0}]] /\ (\A q \in Procs : q # p => ofile'[q] = ofile[q])
    /\ ofile'[p][d] = r /\ ofile'[p][e] = f /\ \A c \in Fds : c # d /\ c # e => ofile'[p][c] = ofile[p][c]

\* sys_pipe with a pipe.
LEMMA PipeMadeSteps ==
  ASSUME Counting, FileTableSizes
  PROVE  \A p \in Procs : FileInv /\ PipeMade(p) => FileInv'
\* pipealloc makes the pipe: its two files, which nobody else has, are its ends.
<1>AtPipeMade.
  ASSUME Counting, FileInv, NEW p \in Procs, pc[p] = "pipe", NEW r, r = rf[p], NEW f, filealloc(f)
  PROVE  /\ r \in Files /\ f \in Files /\ r # f /\ ftable[r].ref = 1 /\ ftable[r].type = "none" /\ ftable[f] = NoFile
         /\ \A q \in Procs : (rf[q] = r => q = p) /\ rf[q] # f
  <2> USE <1>AtPipeMade
  <2>1. r \in Files /\ r # 0 /\ ftable[r].type = "none"
    BY AtPipe, ZenonT(20)
  <2>2. RefsExact /\ \A x \in Files : Fits(ftable[x])
    BY ZenonT(20) DEF FileInv, AllFit
  <2>3. ftable[r].ref <= 1
    BY <2>1, <2>2, ZenonT(20) DEF Fits
  <2>4. ftable[r].ref = 1 /\ \A q \in Procs : rf[q] = r => q = p
    BY <2>1, <2>2, <2>3, OneHolder, ZenonT(20)
  <2>5. f \in Files /\ ftable[f].ref = 0
    BY ZenonT(20) DEF filealloc, First, Unref
  <2>6. ftable[f] = NoFile
    BY <2>2, <2>5, ZenonT(20) DEF RefsExact
  <2>7. \A q \in Procs : rf[q] # f
    BY <2>2, <2>5, FreeUnused, ZenonT(20)
  <2> QED BY <2>1, <2>4, <2>5, <2>6, <2>7, ZenonT(20)
<1>TwoFiles.
  ASSUME NEW F, NEW G, NEW S, F \in [Files -> S], NEW r \in Files, NEW f \in Files, r # f, NEW A \in S, NEW B \in S,
         G = [F EXCEPT ![r] = A, ![f] = B]
  PROVE  G \in [Files -> S] /\ G[r] = A /\ G[f] = B /\ \A x \in Files : x # r /\ x # f => G[x] = F[x]
  <2> USE <1>TwoFiles
  <2> DEFINE E == [F EXCEPT ![r] = A]
  <2>1. E \in [Files -> S] /\ E[r] = A /\ \A x \in Files : x # r => E[x] = F[x]
    BY ZenonT(20)
  <2>2. G = [E EXCEPT ![f] = B]
    BY ZenonT(20)
  <2> HIDE DEF E
  <2>3. [E EXCEPT ![f] = B] \in [Files -> S] /\ [E EXCEPT ![f] = B][f] = B /\ \A x \in Files : x # f => [E EXCEPT ![f] = B][x] = E[x]
    BY <2>1, ZenonT(20)
  <2>4. G \in [Files -> S] /\ G[f] = B /\ \A x \in Files : x # f => G[x] = E[x]
    BY <2>2, <2>3, ZenonT(20)
  <2> QED BY <2>1, <2>4, ZenonT(20)
<1>EndsAre. ASSUME NEW k \in Pipes PROVE EndsOf(End(k, FALSE), End(k, TRUE), k)
  BY ZenonT(20) DEF EndsOf, End, File
<1>PipeTable.
  ASSUME Types, AllFit, RefsExact, NEW r \in Files, NEW f \in Files, NEW k \in Pipes, r # f,
         ftable[r].ref = 1, ftable[r].type = "none", ftable[f] = NoFile, NEW R, NEW W, Made(r, f, R, W, k)
  PROVE  /\ \A x \in Files : Fits(ftable'[x])
         /\ \A x \in Files : ftable'[x].ref = ftable[x].ref + One(f = x) /\ (ftable'[x].ref = 0 => ftable'[x] = NoFile)
  <2> USE <1>PipeTable
  <2>1. Fits(R) /\ Fits(W) /\ R.ref = 1 /\ W.ref = 1
    BY ZenonT(20) DEF Made, EndsOf, Fits
  <2>2. (\A x \in Files : ftable[x] \in File) /\ \A x \in Files : Fits(ftable[x])
    BY ZenonT(20) DEF Types, AllFit
  <2>3. ftable'[r] = R /\ ftable'[f] = W /\ \A x \in Files : x # r /\ x # f => ftable'[x] = ftable[x]
    BY ZenonT(20) DEF Made
  <2>4. \A x \in Files : Fits(ftable'[x])
    BY <2>1, <2>2, <2>3, ZenonT(20)
  <2>5. ASSUME NEW x \in Files PROVE ftable'[x].ref = ftable[x].ref + One(f = x) /\ (ftable'[x].ref = 0 => ftable'[x] = NoFile)
    <3>1. ftable[x].ref \in Nat
      BY <2>2, ZenonT(20) DEF File
    <3>2. ftable[x].ref = 0 => ftable[x] = NoFile
      BY ZenonT(20) DEF RefsExact
    <3>3. ftable[f].ref = 0
      BY DEF NoFile
    <3>4. CASE x = r
      BY <2>1, <2>3, <3>4 DEF One
    <3>5. CASE x = f
      BY <2>1, <2>3, <3>3, <3>5 DEF One
    <3>6. CASE x # r /\ x # f
      BY <2>3, <3>1, <3>2, <3>6 DEF One
    <3> QED BY <3>4, <3>5, <3>6, ZenonT(20)
  <2> QED BY <2>4, <2>5, ZenonT(20)
<1>PipeObjects.
  ASSUME Counting, Types, PipesExact, NEW r \in Files, NEW f \in Files, NEW k \in Pipes, r # f,
         ftable[r].type = "none", ftable[f].type = "none", NEW R, NEW W, Made(r, f, R, W, k),
         ends[k] = {}, ends' = [ends EXCEPT ![k] = {TRUE, FALSE}], ff' = ff
  PROVE  /\ ends' \in [Pipes -> SUBSET BOOLEAN]
         /\ \A i : nI(ftable', i) = nI(ftable, i)
         /\ PipesExact'
  <2> USE <1>PipeObjects
  <2> DEFINE G == [x \in Files |-> IF x = r THEN R ELSE ftable[x]]
  <2>2. ftable \in [Files -> File] /\ ends \in [Pipes -> SUBSET BOOLEAN]
    BY ZenonT(20) DEF Types
  <2>3. /\ DOMAIN ftable = Files /\ DOMAIN G = Files /\ DOMAIN ftable' = Files
        /\ G[r] = R /\ G[f] = ftable[f] /\ (\A x \in Files : x # r => G[x] = ftable[x])
        /\ ftable'[f] = W /\ \A x \in Files : x # f => ftable'[x] = G[x]
    BY <2>2, ZenonT(20) DEF Made
  <2> HIDE DEF G
  <2>4. ends' \in [Pipes -> SUBSET BOOLEAN] /\ ends'[k] = {TRUE, FALSE} /\ \A x \in Pipes : x # k => ends'[x] = ends[x]
    BY <2>2, ZenonT(20)
  <2>5. /\ \A i : nI(ftable, i) \in Nat /\ nI(G, i) = nI(ftable, i) - One(IsInode(ftable[r], i)) + One(IsInode(G[r], i))
        /\ \A x, w : nP(ftable, x, w) \in Nat /\ nP(G, x, w) = nP(ftable, x, w) - One(IsPipe(ftable[r], x, w)) + One(IsPipe(G[r], x, w))
    BY <2>3, FileChange
  <2>6. /\ \A i : nI(G, i) \in Nat /\ nI(ftable', i) = nI(G, i) - One(IsInode(G[f], i)) + One(IsInode(ftable'[f], i))
        /\ \A x, w : nP(G, x, w) \in Nat /\ nP(ftable', x, w) = nP(G, x, w) - One(IsPipe(G[f], x, w)) + One(IsPipe(ftable'[f], x, w))
    BY <2>3, FileChange
  <2>7. R.type = "pipe" /\ W.type = "pipe" /\ R.obj = k /\ W.obj = k /\ R.writable = FALSE /\ W.writable = TRUE
    BY ZenonT(20) DEF Made, EndsOf
  <2>8. ASSUME NEW i PROVE nI(ftable', i) = nI(ftable, i)
    <3>1. One(IsInode(ftable[r], i)) = 0 /\ One(IsInode(G[r], i)) = 0 /\ One(IsInode(G[f], i)) = 0 /\ One(IsInode(ftable'[f], i)) = 0
      BY <2>3, <2>7, ZenonT(20) DEF IsInode, One
    <3> QED BY <2>5, <2>6, <3>1
  <2>9. ASSUME NEW x \in Pipes, NEW w \in BOOLEAN PROVE One(w \in ends'[x]) = nP(ftable', x, w) + nP(ff', x, w)
    <3>1. One(IsPipe(ftable[r], x, w)) = 0 /\ One(IsPipe(G[f], x, w)) = 0
      BY <2>3, <2>7, ZenonT(20) DEF IsPipe, One
    <3>2. One(IsPipe(G[r], x, w)) + One(IsPipe(ftable'[f], x, w)) = One(x = k) /\ One(IsPipe(G[r], x, w)) \in Int
          /\ One(IsPipe(ftable'[f], x, w)) \in Int /\ One(x = k) \in Int
      <4>1. IsPipe(G[r], x, w) <=> x = k /\ w = FALSE
        BY <2>3, <2>7, ZenonT(20) DEF IsPipe
      <4>2. IsPipe(ftable'[f], x, w) <=> x = k /\ w = TRUE
        BY <2>3, <2>7, ZenonT(20) DEF IsPipe
      <4>3. IsPipe(G[r], x, w) <=> x = k /\ ~IsPipe(ftable'[f], x, w)
        BY <4>1, <4>2, ZenonT(20)
      <4>4. IsPipe(ftable'[f], x, w) => x = k
        BY <4>2, ZenonT(20)
      <4> QED BY <4>3, <4>4 DEF One
    <3>3. nP(ftable', x, w) = nP(ftable, x, w) + One(x = k) /\ nP(ftable, x, w) \in Nat
      BY <2>5, <2>6, <3>1, <3>2
    <3>4. One(w \in ends[x]) = nP(ftable, x, w) + nP(ff, x, w) /\ ff' = ff
      BY ZenonT(20) DEF PipesExact
    <3>5. One(w \in ends'[x]) = One(w \in ends[x]) + One(x = k)
      <4>1. CASE x = k
        <5>1. w \in ends'[x] /\ w \notin ends[x]
          BY <2>4, <4>1, ZenonT(20)
        <5> QED BY <4>1, <5>1 DEF One
      <4>2. CASE x # k
        BY <2>4, <4>2 DEF One
      <4> QED BY <4>1, <4>2, ZenonT(20)
    <3>6. nP(ff, x, w) \in Nat
      <4>1. DOMAIN ff = Procs
        BY ZenonT(20) DEF Types
      <4> QED BY <4>1, ObjSmall
    <3>7. One(w \in ends'[x]) = (nP(ftable, x, w) + nP(ff, x, w)) + One(x = k) /\ nP(ff', x, w) = nP(ff, x, w)
      BY <3>4, <3>5, ZenonT(20)
    <3>8. (nP(ftable, x, w) + nP(ff, x, w)) + One(x = k) = nP(ftable', x, w) + nP(ff, x, w)
      BY <3>2, <3>3, <3>6
    <3> QED BY <3>7, <3>8, ZenonT(20)
  <2> QED BY <2>4, <2>8, <2>9, ZenonT(20) DEF PipesExact, nP, OfPipe, One
<1>PipeNames.
  ASSUME FileInv, NEW p \in Procs, pc[p] = "pipe", NEW r \in Files, NEW f \in Files, Others(p),
         \A q \in Procs : (rf[q] = r => q = p) /\ rf[q] # f,
         fd'[p] = 0, pc'[p] # "fields", pc'[p] # "dup", pc'[p] # "pipe",
         ftable'[r].type = "pipe", ftable'[f].type = "pipe", \A x \in Files : x # r /\ x # f => ftable'[x] = ftable[x],
         ofile' \in [Procs -> [Fds -> Files \cup {0}]], \A q \in Procs : q # p => ofile'[q] = ofile[q],
         \A d \in Fds : ofile'[p][d] \in {ofile[p][d], r, f}
  PROVE  Names'
  <2> USE <1>PipeNames
  <2>1. Names /\ Locals /\ ofile \in [Procs -> [Fds -> Files \cup {0}]] /\ rf \in [Procs -> Files \cup {0}]
    BY ZenonT(20) DEF FileInv, Types
  <2>2. NamesAt(p)'
    <3>1. ASSUME NEW e \in Fds, ofile'[p][e] # 0 PROVE ftable'[ofile'[p][e]].type # "none"
      <4>1. CASE ofile'[p][e] = r \/ ofile'[p][e] = f
        BY <4>1, ZenonT(20)
      <4>2. CASE ofile'[p][e] # r /\ ofile'[p][e] # f
        <5>1. ofile'[p][e] = ofile[p][e] /\ ofile'[p][e] \in Files
          BY <3>1, <4>2
        <5>2. ftable[ofile[p][e]].type # "none"
          BY <3>1, <5>1, AtPipe, ZenonT(20)
        <5>3. ftable'[ofile'[p][e]] = ftable[ofile[p][e]]
          BY <4>2, <5>1, ZenonT(20)
        <5> QED BY <5>2, <5>3, ZenonT(20)
      <4> QED BY <4>1, <4>2, ZenonT(20)
    <3> QED BY <3>1, NamesClean, ZenonT(20)
  <2>3. ASSUME NEW q \in Procs, q # p PROVE NamesAt(q)'
    <3>1. NamesAt(q) /\ LocalsAt(q)
      BY <2>1, ZenonT(20) DEF Names, Locals
    <3>2. pc'[q] = pc[q] /\ rf'[q] = rf[q] /\ fd'[q] = fd[q] /\ ofile'[q] = ofile[q]
      BY <2>3, ZenonT(20) DEF Others
    <3>3. pc[q] \in {"fields", "pipe"} => rf[q] \in Files /\ rf[q] # r /\ rf[q] # f
      BY <2>1, <2>3, <3>1, ZenonT(20) DEF LocalsAt
    <3>4. pc[q] \in {"fields", "pipe"} => ftable'[rf[q]].type = "none"
      BY <3>1, <3>3, ZenonT(20) DEF NamesAt
    <3>5. ASSUME NEW e \in Fds, ofile[q][e] # 0, ftable'[ofile[q][e]].type = "none" PROVE e = fd[q]
      <4>1. ofile[q][e] \in Files
        BY <2>1, <3>5
      <4>2. ofile[q][e] # r /\ ofile[q][e] # f
        BY <3>5, ZenonT(20)
      <4>3. ftable[ofile[q][e]].type = "none"
        BY <3>5, <4>1, <4>2, ZenonT(20)
      <4> QED BY <3>1, <3>5, <4>3, ZenonT(20) DEF NamesAt
    <3> QED BY <3>1, <3>2, <3>4, <3>5 DEF NamesAt
  <2> QED BY <2>2, <2>3, ZenonT(20) DEF Names
<1>PipeMakes.
  ASSUME Counting, FileTableSizes, FileInv, NEW p \in Procs, pc[p] = "pipe", NEW r, r = rf[p], NEW f, filealloc(f),
         NEW k \in Pipes, ends[k] = {}, ends' = [ends EXCEPT ![k] = {TRUE, FALSE}],
         NEW R, NEW W, Made(r, f, R, W, k),
         UNCHANGED <<iref, live, ff, np, panicked>>,
         NEW l \in Labels, NEW a \in Files \cup {0}, NEW b \in Files \cup {0}, Goto(p, l, a, b, 0, 0), LeadsTo(l, a, b),
         Gets(p, r, f), GetsRefs(r, f, a, b)
  PROVE  FileInv'
  <2> USE <1>PipeMakes
  <2>1. Types /\ AllFit /\ Locals /\ Forks /\ Names /\ RefsExact /\ InodesExact /\ PipesExact /\ ~panicked
    BY ZenonT(20) DEF FileInv
  <2>2. p \in live /\ wf[p] = 0 /\ ip[p] = 0 /\ fd[p] = 0 /\ ff[p].type = "none"
    BY AtPipe, ZenonT(20)
  <2>3. /\ r \in Files /\ f \in Files /\ r # f /\ ftable[r].ref = 1 /\ ftable[r].type = "none" /\ ftable[f] = NoFile
        /\ \A q \in Procs : (rf[q] = r => q = p) /\ rf[q] # f
    BY <1>AtPipeMade
  <2>5. pc'[p] = l /\ rf'[p] = a /\ wf'[p] = b /\ ip'[p] = 0 /\ fd'[p] = 0
    BY <2>1, GotoLocals
  <2>6. Others(p)
    BY <2>1, GotoOthers, ZenonT(20)
  <2>7. /\ \A x \in Files : Fits(ftable'[x])
        /\ \A x \in Files : ftable'[x].ref = ftable[x].ref + One(f = x) /\ (ftable'[x].ref = 0 => ftable'[x] = NoFile)
    BY <2>1, <2>3, <1>PipeTable, ZenonT(20)
  <2>8. ftable[f].type = "none"
    BY <2>3 DEF NoFile
  <2>9. ends' \in [Pipes -> SUBSET BOOLEAN] /\ (\A i : nI(ftable', i) = nI(ftable, i)) /\ PipesExact'
    BY <2>1, <2>3, <2>8, <1>PipeObjects, ZenonT(20)
  <2>10. /\ ftable' \in [Files -> File] /\ ftable'[r].type = "pipe" /\ ftable'[f].type = "pipe"
         /\ \A x \in Files : x # r /\ x # f => ftable'[x] = ftable[x]
    BY ZenonT(20) DEF Made, EndsOf
  <2>11. l # "fields" /\ l # "dup" /\ l # "pipe" /\ l # "fork" /\ (l = "run" \/ l = "close") /\ "pipe" # "fork"
    BY ZenonT(20) DEF LeadsTo
  <2>12. Names'
    <3>1. pc'[p] # "fields" /\ pc'[p] # "dup" /\ pc'[p] # "pipe"
      BY <2>5, <2>11, ZenonT(20)
    <3> QED BY <2>3, <2>5, <2>6, <2>10, <3>1, <1>PipeNames, ZenonT(20) DEF Gets
  <2>13. LocalsAt(p)'
    <3>1. (pc'[p] = "run" /\ rf'[p] = 0 /\ wf'[p] = 0) \/ (pc'[p] = "close" /\ rf'[p] # 0)
      BY <2>5, ZenonT(20) DEF LeadsTo
    <3>2. p \in live' /\ ff'[p].type = "none" /\ ip'[p] = 0 /\ fd'[p] = 0
      BY <2>2, <2>5, ZenonT(20)
    <3> QED BY <3>1, <3>2, ZenonT(20) DEF LocalsAt
  <2>14. Types' /\ Locals' /\ Forks'
    <3>1. pc[p] # "fork" /\ 0 \in Inodes \cup {0} /\ 0 \in Fds \cup {0}
      BY <2>11, ZenonT(20)
    <3>2. iref' \in [Inodes -> Int]
      BY <2>1, ZenonT(20) DEF Types
    <3>3. ofile' \in [Procs -> [Fds -> Files \cup {0}]]
      BY ZenonT(20) DEF Gets
    <3> QED BY <2>9, <2>10, <2>11, <2>13, <3>1, <3>2, <3>3, Frame, ZenonT(20)
  <2>15. RefsExact'
    <3>1. ASSUME NEW x \in Files
          PROVE  /\ nC(x)' \in Int
                 /\ ftable'[x].ref = ftable[x].ref + (nC(x)' - nC(x)) - One(rf[p] = x) + One(a = x) - One(wf[p] = x) + One(b = x)
                 /\ ftable'[x].ref = 0 => ftable'[x] = NoFile
      <4>1. nC(x) \in Nat /\ ftable[x] \in File
        BY <2>1, CountedSmall, ZenonT(20) DEF Types
      <4>2. x # 0 /\ ftable[x].ref \in Nat
        BY <2>1, RefNat, ZenonT(20)
      <4>3. ftable'[x].ref = ftable[x].ref + One(f = x) /\ (ftable'[x].ref = 0 => ftable'[x] = NoFile)
        BY <2>7, ZenonT(20)
      <4>4. One(wf[p] = x) = 0 /\ One(f = x) \in Int /\ One(rf[p] = x) \in Int /\ One(a = x) \in Int /\ One(b = x) \in Int
        BY <2>2, <4>2 DEF One
      <4>5. nC(x)' \in Int /\ nC(x)' - nC(x) + One(a = x) + One(b = x) = One(rf[p] = x) + One(f = x)
        BY ZenonT(20) DEF GetsRefs
      <4> DEFINE c == nC(x)'
                 n == nC(x)
                 t == ftable[x].ref
                 oa == One(a = x)
                 ob == One(b = x)
                 og == One(rf[p] = x)
                 of == One(f = x)
      <4>6. c \in Int /\ n \in Int /\ t \in Int /\ oa \in Int /\ ob \in Int /\ og \in Int /\ of \in Int /\ c - n + oa + ob = og + of
        <5>1. n \in Int /\ t \in Int
          BY <4>1, <4>2
        <5> QED BY <4>4, <4>5, <5>1, ZenonT(20)
      <4> HIDE DEF c, n, t, oa, ob, og, of
      <4>7. t + of = t + (c - n) - og + oa - 0 + ob
        BY <4>6
      <4>8. ftable'[x].ref = ftable[x].ref + (nC(x)' - nC(x)) - One(rf[p] = x) + One(a = x) - One(wf[p] = x) + One(b = x)
        BY <4>3, <4>4, <4>7, ZenonT(20) DEF c, n, t, oa, ob, og, of
      <4> QED BY <4>3, <4>5, <4>8, ZenonT(20)
    <3>2. Balanced(p, a, b)
      BY <3>1, ZenonT(20) DEF Balanced
    <3> QED BY <2>1, <3>2, RefsBalance, ZenonT(20)
  <2>16. InodesExact'
    <3>1. ASSUME NEW i \in Inodes PROVE iref'[i] = nI(ftable', i) + nI(ff', i) + nH(ip', i)
      <4>1. nH(ip', i) = nH(ip, i) - One(ip[p] = i) + One(0 = i) /\ nH(ip, i) \in Nat
        BY <2>1, GotoHolds
      <4>2. One(ip[p] = i) = 0 /\ One(0 = i) = 0
        BY <2>2, ZenonT(20) DEF FileTableSizes, One
      <4>3. nH(ip', i) = nH(ip, i)
        BY <4>1, <4>2
      <4> QED BY <2>1, <2>9, <4>3, ZenonT(20) DEF InodesExact
    <3> QED BY <3>1, ZenonT(20) DEF InodesExact, nI, nH, OfInode, Holding
  <2> QED BY <2>1, <2>7, <2>9, <2>12, <2>14, <2>15, <2>16, ZenonT(20) DEF FileInv, AllFit
<1>TwoDescriptors.
  ASSUME NEW p \in Procs, NEW r \in Files, NEW f \in Files, NEW d \in Fds, NEW e \in Fds, d # e,
         ofile \in [Procs -> [Fds -> Files \cup {0}]], ofile' = [ofile EXCEPT ![p][d] = r, ![p][e] = f]
  PROVE  TwoSet(p, d, e, r, f)
  <2> USE <1>TwoDescriptors
  <2> DEFINE M == [ofile EXCEPT ![p][d] = r]
  <2>1. /\ M \in [Procs -> [Fds -> Files \cup {0}]] /\ (\A q \in Procs : q # p => M[q] = ofile[q])
        /\ M[p][d] = r /\ \A c \in Fds : c # d => M[p][c] = ofile[p][c]
    BY ZenonT(20)
  <2>2. ofile' = [M EXCEPT ![p][e] = f]
    BY ZenonT(20)
  <2> HIDE DEF M
  <2> DEFINE N == [M EXCEPT ![p][e] = f]
  <2>3. /\ N \in [Procs -> [Fds -> Files \cup {0}]] /\ (\A q \in Procs : q # p => N[q] = M[q])
        /\ N[p][e] = f /\ \A c \in Fds : c # e => N[p][c] = M[p][c]
    BY <2>1, ZenonT(20)
  <2>4. ofile' = N
    BY <2>2, ZenonT(20)
  <2> HIDE DEF N
  <2> QED BY <2>1, <2>3, <2>4, ZenonT(20) DEF TwoSet
<1>PipeDescriptors.
  ASSUME Counting, NEW p \in Procs, NEW r \in Files, NEW f \in Files, r # f, NEW d \in Fds, NEW e \in Fds, d # e,
         ofile[p][d] = 0, ofile[p][e] = 0, TwoSet(p, d, e, r, f), \A q \in Procs : fd'[q] = fd[q], fd[p] = 0
  PROVE  Gets(p, r, f) /\ GetsRefs(r, f, 0, 0)
  <2> USE <1>PipeDescriptors
  <2>1. /\ ofile' \in [Procs -> [Fds -> Files \cup {0}]] /\ (\A q \in Procs : q # p => ofile'[q] = ofile[q])
        /\ ofile'[p][d] = r /\ ofile'[p][e] = f /\ \A c \in Fds : c # d /\ c # e => ofile'[p][c] = ofile[p][c]
    BY ZenonT(20) DEF TwoSet
  <2>2. 0 \notin Files /\ 0 \notin Fds
    BY DEF Files, Fds
  <2>3. Gets(p, r, f)
    BY <2>1, ZenonT(20) DEF Gets
  <2>4. ASSUME NEW x \in Files PROVE nC(x)' = nC(x) + One(r = x) + One(f = x) /\ nC(x) \in Nat
    <3>1. nC(x) \in Nat
      BY CountedSmall, ZenonT(20)
    <3>2. CASE x = r
      <4>1. ASSUME NEW q \in Procs, NEW c \in Fds, q # p \/ c # d
            PROVE  ofile'[q][c] = x /\ fd'[q] # c <=> ofile[q][c] = x /\ fd[q] # c
        <5>1. CASE q # p
          BY <2>1, <5>1, ZenonT(20)
        <5>2. CASE q = p /\ c = e
          <6>1. ofile'[q][c] # x /\ ofile[q][c] # x
            BY <2>1, <2>2, <3>2, <5>2
          <6> QED BY <6>1, ZenonT(20)
        <5>3. CASE q = p /\ c # e
          BY <2>1, <4>1, <5>3, ZenonT(20)
        <5> QED BY <5>1, <5>2, <5>3, ZenonT(20)
      <4>2. nC(x)' = nC(x) - One(ofile[p][d] = x /\ fd[p] # d) + One(ofile'[p][d] = x /\ fd'[p] # d)
        BY <4>1, CountedChange
      <4>3. ofile[p][d] # x /\ ofile'[p][d] = x /\ fd'[p] # d
        BY <2>1, <2>2, <3>2
      <4>4. One(ofile[p][d] = x /\ fd[p] # d) = 0 /\ One(ofile'[p][d] = x /\ fd'[p] # d) = 1 /\ One(r = x) = 1 /\ One(f = x) = 0
        BY <3>2, <4>3 DEF One
      <4> QED BY <3>1, <4>2, <4>4
    <3>3. CASE x = f
      <4>1. ASSUME NEW q \in Procs, NEW c \in Fds, q # p \/ c # e
            PROVE  ofile'[q][c] = x /\ fd'[q] # c <=> ofile[q][c] = x /\ fd[q] # c
        <5>1. CASE q # p
          BY <2>1, <5>1, ZenonT(20)
        <5>2. CASE q = p /\ c = d
          <6>1. ofile'[q][c] # x /\ ofile[q][c] # x
            BY <2>1, <2>2, <3>3, <5>2
          <6> QED BY <6>1, ZenonT(20)
        <5>3. CASE q = p /\ c # d
          BY <2>1, <4>1, <5>3, ZenonT(20)
        <5> QED BY <5>1, <5>2, <5>3, ZenonT(20)
      <4>2. nC(x)' = nC(x) - One(ofile[p][e] = x /\ fd[p] # e) + One(ofile'[p][e] = x /\ fd'[p] # e)
        BY <4>1, CountedChange
      <4>3. ofile[p][e] # x /\ ofile'[p][e] = x /\ fd'[p] # e
        BY <2>1, <2>2, <3>3
      <4>4. One(ofile[p][e] = x /\ fd[p] # e) = 0 /\ One(ofile'[p][e] = x /\ fd'[p] # e) = 1 /\ One(r = x) = 0 /\ One(f = x) = 1
        BY <3>3, <4>3, ZenonT(20) DEF One
      <4> QED BY <3>1, <4>2, <4>4
    <3>4. CASE x # r /\ x # f
      <4>1. ASSUME NEW q \in Procs, NEW c \in Fds
            PROVE  ofile'[q][c] = x /\ fd'[q] # c <=> ofile[q][c] = x /\ fd[q] # c
        <5>1. CASE q # p
          BY <2>1, <5>1, ZenonT(20)
        <5>2. CASE q = p /\ (c = d \/ c = e)
          <6>1. ofile'[q][c] # x /\ ofile[q][c] # x
            BY <2>1, <2>2, <3>4, <5>2
          <6> QED BY <6>1, ZenonT(20)
        <5>3. CASE q = p /\ c # d /\ c # e
          BY <2>1, <5>3, ZenonT(20)
        <5> QED BY <5>1, <5>2, <5>3, ZenonT(20)
      <4>2. nC(x)' = nC(x)
        BY <4>1, CountedSame, ZenonT(20)
      <4>3. One(r = x) = 0 /\ One(f = x) = 0
        BY <3>4, ZenonT(20) DEF One
      <4> QED BY <3>1, <4>2, <4>3
    <3> QED BY <3>2, <3>3, <3>4, ZenonT(20)
  <2>5. ASSUME NEW x \in Files
        PROVE  nC(x)' \in Int /\ nC(x)' - nC(x) + One(0 = x) + One(0 = x) = One(r = x) + One(f = x)
    <3>1. One(0 = x) = 0 /\ One(r = x) \in Nat /\ One(f = x) \in Nat
      BY <2>2, ZenonT(20) DEF One
    <3> QED BY <2>4, <3>1
  <2> QED BY <2>3, <2>5, ZenonT(20) DEF GetsRefs
<1>PipeMadeStep. ASSUME Counting, FileTableSizes, FileInv, NEW p \in Procs, PipeMade(p)
                      PROVE  FileInv'
  <2> USE <1>PipeMadeStep
  <2> DEFINE r == rf[p]
  <2>1. pc[p] = "pipe" /\ UNCHANGED <<iref, live, ff, np, panicked>> /\ Types
    BY ZenonT(20) DEF PipeMade, FileInv
  <2>2. PICK f \in Files, k \in Pipes :
           /\ filealloc(f) /\ ends[k] = {}
           /\ ends' = [ends EXCEPT ![k] = {TRUE, FALSE}]
           /\ ftable' = [ftable EXCEPT ![r] = End(k, FALSE), ![f] = End(k, TRUE)]
           /\ \/ \E d, e \in Fds : /\ fdalloc(p, d) /\ First(e, Free(p) \ {d})
                                   /\ ofile' = [ofile EXCEPT ![p][d] = r, ![p][e] = f]
                                   /\ Return(p)
              \/ Goto(p, "close", r, f, 0, 0) /\ UNCHANGED ofile
    BY ZenonT(20) DEF PipeMade
  <2> HIDE DEF r
  <2>3. r = rf[p]
    BY ZenonT(20) DEF r
  <2>4. r \in Files /\ f \in Files /\ r # f
    BY <2>1, <2>2, <2>3, <1>AtPipeMade, ZenonT(20)
  <2>5. Made(r, f, End(k, FALSE), End(k, TRUE), k)
    <3> DEFINE R == End(k, FALSE)
               W == End(k, TRUE)
    <3>1. EndsOf(R, W, k) /\ R \in File /\ W \in File
      BY <1>EndsAre, ZenonT(20) DEF EndsOf
    <3>2. ftable \in [Files -> File] /\ ftable' = [ftable EXCEPT ![r] = R, ![f] = W]
      BY <2>1, <2>2, ZenonT(20) DEF Types
    <3> HIDE DEF R, W
    <3>3. ftable' \in [Files -> File] /\ ftable'[r] = R /\ ftable'[f] = W /\ \A x \in Files : x # r /\ x # f => ftable'[x] = ftable[x]
      BY <2>4, <3>1, <3>2, <1>TwoFiles, ZenonT(20)
    <3>4. Made(r, f, R, W, k)
      BY <3>1, <3>3, ZenonT(20) DEF Made
    <3> QED BY <3>4, ZenonT(20) DEF R, W
  <2>6. ofile \in [Procs -> [Fds -> Files \cup {0}]] /\ r \in Files \cup {0} /\ f \in Files \cup {0} /\ 0 \in Files \cup {0}
        /\ "run" \in Labels /\ "close" \in Labels /\ r # 0
    BY <2>1, <2>4 DEF Types, Labels, Files
  <2>7. ASSUME NEW d \in Fds, NEW e \in Fds, fdalloc(p, d), First(e, Free(p) \ {d}),
               ofile' = [ofile EXCEPT ![p][d] = r, ![p][e] = f], Return(p)
        PROVE  FileInv'
    <3>1. d # e /\ ofile[p][d] = 0 /\ ofile[p][e] = 0
      BY <2>7, ZenonT(20) DEF fdalloc, First, Free
    <3>2. Goto(p, "run", 0, 0, 0, 0)
      BY <2>7, ZenonT(20) DEF Return
    <3>3. fd[p] = 0
      BY <2>1, AtPipe, ZenonT(20)
    <3>4. \A q \in Procs : fd'[q] = fd[q]
      BY <2>1, <3>2, <3>3, GotoLocals
    <3>5. Gets(p, r, f) /\ GetsRefs(r, f, 0, 0)
      <4>1. TwoSet(p, d, e, r, f)
        BY <2>4, <2>6, <2>7, <3>1, <1>TwoDescriptors, ZenonT(20)
      <4> QED BY <2>4, <3>1, <3>3, <3>4, <4>1, <1>PipeDescriptors, ZenonT(20)
    <3> DEFINE l == "run"
               a == 0
               R == End(k, FALSE)
               W == End(k, TRUE)
    <3>6. /\ l \in Labels /\ a \in Files \cup {0} /\ Goto(p, l, a, a, 0, 0) /\ GetsRefs(r, f, a, a) /\ LeadsTo(l, a, a)
          /\ Made(r, f, R, W, k)
      BY <2>5, <2>6, <3>2, <3>5, ZenonT(20) DEF LeadsTo
    <3> HIDE DEF l, a, R, W
    <3> QED BY <2>1, <2>2, <2>3, <3>5, <3>6, <1>PipeMakes, ZenonT(20)
  <2>8. ASSUME Goto(p, "close", r, f, 0, 0), UNCHANGED ofile PROVE FileInv'
    <3>1. Gets(p, r, f)
      BY <2>6, <2>8, ZenonT(20) DEF Gets
    <3>2. fd[p] = 0
      BY <2>1, AtPipe, ZenonT(20)
    <3>3. \A q \in Procs : fd'[q] = fd[q]
      BY <2>1, <2>8, <3>2, GotoLocals
    <3>4. ASSUME NEW x \in Files PROVE nC(x)' \in Int /\ nC(x)' - nC(x) + One(r = x) + One(f = x) = One(r = x) + One(f = x)
      <4>1. nC(x)' = nC(x)
        BY <2>8, <3>3, CountedSame, ZenonT(20)
      <4>2. nC(x) \in Nat
        BY CountedSmall, ZenonT(20)
      <4>3. One(r = x) \in Nat /\ One(f = x) \in Nat
        BY ZenonT(20) DEF One
      <4> QED BY <4>1, <4>2, <4>3
    <3>5. GetsRefs(r, f, r, f)
      BY <3>4, ZenonT(20) DEF GetsRefs
    <3> DEFINE l == "close"
               R == End(k, FALSE)
               W == End(k, TRUE)
    <3>6. l \in Labels /\ Goto(p, l, r, f, 0, 0) /\ LeadsTo(l, r, f) /\ Made(r, f, R, W, k)
      BY <2>5, <2>6, <2>8, ZenonT(20) DEF LeadsTo
    <3> HIDE DEF l, R, W
    <3> QED BY <2>1, <2>2, <2>3, <2>6, <3>1, <3>5, <3>6, <1>PipeMakes, ZenonT(20)
  <2> QED BY <2>2, <2>7, <2>8, ZenonT(20)
<1> QED BY <1>PipeMadeStep, ZenonT(20)

\* One more reference to a file of some type.
LEMMA More ==
  ASSUME Types, AllFit, RefsExact, NEW f \in Files, ftable[f].type # "none", filedup(f), ~panicked
  PROVE  /\ ftable' \in [Files -> File] /\ (\A x \in Files : Fits(ftable'[x])) /\ ~panicked'
         /\ SameObjects(ftable, ftable') /\ (\A x \in Files : ftable'[x].type = ftable[x].type)
         /\ \A x \in Files : ftable'[x].ref = ftable[x].ref + One(x = f)
<1>1. ftable' = [ftable EXCEPT ![f].ref = @ + 1] /\ panicked' = (panicked \/ ftable[f].ref < 1)
  BY ZenonT(20) DEF filedup
<1>2. ftable[f].ref \in Nat /\ ftable[f].ref # 0
  BY DEF Types, File, RefsExact, NoFile
<1>3. /\ ftable' \in [Files -> File]
      /\ ftable'[f].ref = ftable[f].ref + 1 /\ ftable'[f].type = ftable[f].type /\ ftable'[f].obj = ftable[f].obj
      /\ ftable'[f].writable = ftable[f].writable
      /\ \A x \in Files : x # f => ftable'[x] = ftable[x]
  <2>0. ftable \in [Files -> File]
    BY ZenonT(20) DEF Types
  <2>1. ftable'[f] = [ftable[f] EXCEPT !.ref = @ + 1] /\ \A x \in Files : x # f => ftable'[x] = ftable[x]
    BY <1>1, <2>0, ZenonT(20)
  <2>2. /\ ftable'[f].ref = ftable[f].ref + 1 /\ ftable'[f].type = ftable[f].type /\ ftable'[f].obj = ftable[f].obj
        /\ ftable'[f].writable = ftable[f].writable /\ ftable'[f] \in File
    <3>1. ftable[f] \in File
      BY <2>0, ZenonT(20)
    <3> QED BY <2>1, <3>1 DEF File
  <2>3. ftable' = [x \in Files |-> ftable'[x]]
    BY <1>1, <2>0, ZenonT(20)
  <2> QED BY <2>0, <2>1, <2>2, <2>3, ZenonT(20)
<1>4. SameObjects(ftable, ftable') /\ \A x \in Files : ftable'[x].type = ftable[x].type
  <2>1. DOMAIN ftable = Files /\ DOMAIN ftable' = Files
    BY <1>3, ZenonT(20) DEF Types
  <2> QED BY <1>3, <2>1, ZenonT(20) DEF SameObjects
<1>5. \A x \in Files : Fits(ftable'[x])
  <2>1. Fits(ftable[f])
    BY ZenonT(20) DEF AllFit
  <2>2. Fits(ftable'[f])
    BY <1>3, <2>1, ZenonT(20) DEF Fits
  <2> QED BY <1>3, <2>2, ZenonT(20) DEF AllFit
<1>6. \A x \in Files : ftable'[x].ref = ftable[x].ref + One(x = f)
  BY <1>2, <1>3 DEF One, Types, File
<1>7. ~panicked'
  <2>1. ~(ftable[f].ref < 1)
    BY <1>2
  <2> QED BY <1>1, <2>1, ZenonT(20)
<1> QED BY <1>3, <1>4, <1>5, <1>6, <1>7, ZenonT(20)

\* Only descriptor d of p, or whether it counts, changes.
LEMMA OneDescriptor ==
  ASSUME Counting, NEW p \in Procs, NEW d \in Fds, Others(p), \A q \in Procs : q # p => ofile'[q] = ofile[q],
         \A e \in Fds : e # d => ofile'[p][e] = ofile[p][e], fd[p] = 0 \/ fd[p] = d, fd'[p] = 0 \/ fd'[p] = d
  PROVE  \A x \in Files : nC(x)' = nC(x) - One(ofile[p][d] = x /\ fd[p] # d) + One(ofile'[p][d] = x /\ fd'[p] # d)
<1> SUFFICES ASSUME NEW x \in Files
             PROVE  nC(x)' = nC(x) - One(ofile[p][d] = x /\ fd[p] # d) + One(ofile'[p][d] = x /\ fd'[p] # d)
  BY ZenonT(20)
<1>1. \A e \in Fds : e # 0
  BY DEF Fds
<1>2. ASSUME NEW e \in Fds, e # d PROVE ofile'[p][e] = x /\ fd'[p] # e <=> ofile[p][e] = x /\ fd[p] # e
  <2>1. fd[p] # e /\ fd'[p] # e /\ ofile'[p][e] = ofile[p][e]
    BY <1>1, <1>2, ZenonT(20)
  <2> QED BY <2>1, ZenonT(20)
<1>3. \A q \in Procs, e \in Fds : q # p => (ofile'[q][e] = x /\ fd'[q] # e <=> ofile[q][e] = x /\ fd[q] # e)
  BY ZenonT(20) DEF Others
<1>4. \A q \in Procs, e \in Fds : (q # p \/ e # d) => (ofile'[q][e] = x /\ fd'[q] # e <=> ofile[q][e] = x /\ fd[q] # e)
  <2> SUFFICES ASSUME NEW q \in Procs, NEW e \in Fds, q # p \/ e # d
               PROVE  ofile'[q][e] = x /\ fd'[q] # e <=> ofile[q][e] = x /\ fd[q] # e
    BY ZenonT(20)
  <2>1. CASE q = p
    <3>1. e # d
      BY <2>1, ZenonT(20)
    <3> QED BY <1>2, <2>1, <3>1, ZenonT(20)
  <2>2. CASE q # p
    BY <1>3, <2>2, ZenonT(20)
  <2> QED BY <2>1, <2>2, ZenonT(20)
<1> QED BY <1>4, CountedChange

\* Between calls a process holds nothing.
LEMMA AtRun ==
  ASSUME FileInv, NEW p \in Procs, Idle(p)
  PROVE  /\ p \in live /\ pc[p] = "run" /\ rf[p] = 0 /\ wf[p] = 0 /\ ip[p] = 0 /\ fd[p] = 0 /\ ff[p].type = "none"
         /\ \A d \in Fds : ofile[p][d] # 0 => ftable[ofile[p][d]].type # "none"
<1>1. p \in live /\ pc[p] = "run"
  BY ZenonT(20) DEF Idle
<1>2. LocalsAt(p) /\ NamesAt(p)
  BY ZenonT(20) DEF FileInv, Locals, Names
<1>3. rf[p] = 0 /\ wf[p] = 0 /\ ip[p] = 0 /\ fd[p] = 0 /\ ff[p].type = "none"
  BY <1>1, <1>2, ZenonT(20) DEF LocalsAt
<1>4. \A d \in Fds : d # 0
  BY DEF Fds
<1> QED BY <1>1, <1>2, <1>3, <1>4, ZenonT(20) DEF NamesAt

\* fork.
LEMMA ForkSteps ==
  ASSUME Counting, FileTableSizes
  PROVE  /\ \A p \in Procs, q \in Procs : FileInv /\ Fork(p, q) => FileInv'
         /\ \A p \in Procs : FileInv /\ ForkDup(p) => FileInv'
         /\ \A p \in Procs : FileInv /\ Start(p) => FileInv'
\* fork.
<1>OnlyPc.
  ASSUME FileInv, NEW p \in Procs, NEW l \in Labels, pc' = [pc EXCEPT ![p] = l], l # "fields", l # "dup", l # "pipe", fd[p] = 0,
         UNCHANGED <<ftable, ofile, iref, ends, rf, wf, ff, ip, fd, panicked>>
  PROVE  /\ pc'[p] = l /\ (\A q \in Procs : q # p => pc'[q] = pc[q]) /\ Others(p) /\ pc' \in [Procs -> Labels]
         /\ Names' /\ AllFit' /\ RefsExact' /\ InodesExact' /\ PipesExact' /\ ~panicked'
  <2> USE <1>OnlyPc
  <2>1. Types /\ AllFit /\ RefsExact /\ InodesExact /\ PipesExact /\ ~panicked /\ pc \in [Procs -> Labels]
    BY ZenonT(20) DEF FileInv, Types
  <2>2. pc'[p] = l /\ (\A q \in Procs : q # p => pc'[q] = pc[q]) /\ pc' \in [Procs -> Labels]
    BY <2>1, ZenonT(20)
  <2>3. Others(p)
    BY <2>2, ZenonT(20) DEF Others
  <2>4. Names' /\ \A x : nC(x)' = nC(x)
    <3>1. \A f \in Files : ftable'[f].type = ftable[f].type
      BY ZenonT(20)
    <3>2. fd'[p] = 0 /\ pc'[p] # "fields" /\ pc'[p] # "dup" /\ pc'[p] # "pipe"
      BY <2>2, ZenonT(20)
    <3> QED BY <2>3, <3>1, <3>2, NamesKept, ZenonT(20)
  <2>5. RefsExact'
    BY <2>1, <2>4, ZenonT(20) DEF RefsExact
  <2>6. InodesExact' /\ PipesExact' /\ AllFit'
    BY <2>1, ZenonT(20) DEF InodesExact, PipesExact, AllFit
  <2> QED BY <2>1, <2>2, <2>3, <2>4, <2>5, <2>6, ZenonT(20)
<1>AtFork.
  ASSUME FileTableSizes, FileInv, NEW p \in Procs, pc[p] = "fork"
  PROVE  /\ p \in live /\ rf[p] = 0 /\ wf[p] = 0 /\ ip[p] = 0 /\ fd[p] = 0 /\ ff[p].type = "none"
         /\ np[p] \in Procs /\ np[p] \notin live /\ np[p] # p /\ np[p] # 0 /\ (\A q \in Procs : np[q] = np[p] => q = p)
         /\ pc[np[p]] = "run" /\ fd[np[p]] = 0
         /\ \A d \in Fds : ofile[p][d] # 0 => ftable[ofile[p][d]].type # "none"
  <2> USE <1>AtFork
  <2>1. LocalsAt(p) /\ ForksAt(p) /\ NamesAt(p) /\ np[p] \in Procs \cup {0}
    BY ZenonT(20) DEF FileInv, Locals, Forks, Names, Types
  <2>2. p \in live /\ rf[p] = 0 /\ wf[p] = 0 /\ ip[p] = 0 /\ fd[p] = 0 /\ ff[p].type = "none"
    BY <2>1, ZenonT(20) DEF LocalsAt
  <2>3. np[p] # 0 /\ np[p] \notin live /\ \A q \in Procs : np[q] = np[p] => q = p
    BY <2>1, ZenonT(20) DEF ForksAt
  <2>4. np[p] \in Procs /\ np[p] # p
    BY <2>1, <2>2, <2>3, ZenonT(20)
  <2>5. LocalsAt(np[p])
    BY <2>4, ZenonT(20) DEF FileInv, Locals
  <2>6. pc[np[p]] = "run" /\ fd[np[p]] = 0
    BY <2>3, <2>5, ZenonT(20) DEF LocalsAt
  <2>7. \A d \in Fds : d # 0
    BY DEF Fds
  <2>8. \A d \in Fds : ofile[p][d] # 0 => ftable[ofile[p][d]].type # "none"
    BY <2>1, <2>2, <2>7, ZenonT(20) DEF NamesAt
  <2> QED BY <2>2, <2>3, <2>4, <2>6, <2>8, ZenonT(20)
<1>ForkDupStep. ASSUME Counting, FileTableSizes, FileInv, NEW p \in Procs, ForkDup(p)
                     PROVE  FileInv'
  <2> USE <1>ForkDupStep
  <2>1. Types /\ AllFit /\ Locals /\ Forks /\ Names /\ RefsExact /\ InodesExact /\ PipesExact /\ ~panicked
    BY ZenonT(20) DEF FileInv
  <2>2. pc[p] = "fork" /\ UNCHANGED <<iref, ends, live, pc, rf, wf, ff, ip, fd, np>>
    BY ZenonT(20) DEF ForkDup
  <2>a. np[p] \in Procs
    BY <2>2, <1>AtFork, ZenonT(20)
  <2>b. PICK c \in Procs : c = np[p]
    BY <2>a, ZenonT(20)
  <2>3. PICK d \in Fds : First(d, ToCopy(p)) /\ filedup(ofile[p][d]) /\ ofile' = [ofile EXCEPT ![c][d] = ofile[p][d]]
    BY <2>b, ZenonT(20) DEF ForkDup
  <2>4. /\ p \in live /\ c \in Procs /\ c # p /\ fd[c] = 0 /\ pc[c] = "run"
        /\ \A e \in Fds : ofile[p][e] # 0 => ftable[ofile[p][e]].type # "none"
    BY <2>2, <2>b, <1>AtFork, ZenonT(20)
  <2> DEFINE f == ofile[p][d]
  <2>5. f # 0 /\ ofile[c][d] = 0
    BY <2>3, <2>b, ZenonT(20) DEF First, ToCopy
  <2>6. f \in Files /\ ftable[f].type # "none" /\ ofile \in [Procs -> [Fds -> Files \cup {0}]]
    <3>1. ofile \in [Procs -> [Fds -> Files \cup {0}]]
      BY <2>1, ZenonT(20) DEF Types
    <3>2. f \in Files \cup {0}
      BY <3>1, ZenonT(20)
    <3> QED BY <2>4, <2>5, <3>1, <3>2, ZenonT(20)
  <2>7. filedup(f) /\ ofile' = [ofile EXCEPT ![c][d] = f]
    BY <2>3, ZenonT(20)
  <2> HIDE DEF f
  <2>8. /\ ftable' \in [Files -> File] /\ (\A x \in Files : Fits(ftable'[x])) /\ ~panicked'
        /\ SameObjects(ftable, ftable') /\ (\A x \in Files : ftable'[x].type = ftable[x].type)
        /\ \A x \in Files : ftable'[x].ref = ftable[x].ref + One(x = f)
    BY <2>1, <2>6, <2>7, More, ZenonT(20)
  <2>9. /\ ofile' \in [Procs -> [Fds -> Files \cup {0}]] /\ (\A q \in Procs : q # c => ofile'[q] = ofile[q])
        /\ ofile'[c][d] = f /\ \A e \in Fds : e # d => ofile'[c][e] = ofile[c][e]
    BY <2>4, <2>6, <2>7, ZenonT(20)
  <2>10. Types' /\ Locals' /\ Forks'
    <3>1. Types'
      BY <2>1, <2>2, <2>8, <2>9, ZenonT(20) DEF Types
    <3>2. Locals' /\ Forks'
      BY <2>1, <2>2, ZenonT(20) DEF Locals, LocalsAt, Forks, ForksAt
    <3> QED BY <3>1, <3>2, ZenonT(20)
  <2>c. \A e \in Fds : e # 0
    BY DEF Fds
  <2>11. Names'
    <3>1. Others(c)
      BY <2>2, ZenonT(20) DEF Others
    <3>2. NamesAt(c)'
      <4>1. ASSUME NEW e \in Fds, ofile'[c][e] # 0 PROVE ftable'[ofile'[c][e]].type # "none"
        <5>1. CASE e = d
          BY <2>6, <2>8, <2>9, <5>1, ZenonT(20)
        <5>2. CASE e # d
          <6>1. ofile'[c][e] = ofile[c][e] /\ ofile[c][e] \in Files /\ e # 0
            BY <2>4, <2>6, <2>9, <4>1, <5>2, <2>c
          <6>2. ftable[ofile[c][e]].type # "none"
            BY <2>1, <2>4, <4>1, <6>1, ZenonT(20) DEF Names, NamesAt
          <6> QED BY <2>8, <6>1, <6>2, ZenonT(20)
        <5> QED BY <5>1, <5>2, ZenonT(20)
      <4>2. fd'[c] = 0 /\ pc'[c] # "fields" /\ pc'[c] # "dup" /\ pc'[c] # "pipe"
        BY <2>2, <2>4, ZenonT(20)
      <4> QED BY <2>4, <4>1, <4>2, NamesClean, ZenonT(20)
    <3> QED BY <2>1, <2>4, <2>8, <2>9, <3>1, <3>2, OthersNames, ZenonT(20)
  <2>12. RefsExact'
    <3>1. Others(c)
      BY <2>2, ZenonT(20) DEF Others
    <3>2. \A x \in Files : nC(x)' = nC(x) - One(ofile[c][d] = x /\ fd[c] # d) + One(ofile'[c][d] = x /\ fd'[c] # d)
      <4>1. (fd[c] = 0 \/ fd[c] = d) /\ (fd'[c] = 0 \/ fd'[c] = d)
        BY <2>2, <2>4, ZenonT(20)
      <4> QED BY <2>4, <2>9, <3>1, <4>1, OneDescriptor
    <3>3. fd[c] # d /\ fd'[c] # d
      BY <2>2, <2>4 DEF Fds
    <3>4. ASSUME NEW x \in Files
          PROVE  /\ ftable'[x].ref = nC(x)' + nH(rf', x) + nH(wf', x)
                 /\ ftable'[x].ref = 0 => ftable'[x] = NoFile
      <4>1. x # 0 /\ ftable[x].ref \in Nat
        BY <2>1, RefNat, ZenonT(20)
      <4>2. One(ofile[c][d] = x /\ fd[c] # d) = 0 /\ One(ofile'[c][d] = x /\ fd'[c] # d) = One(x = f) /\ One(x = f) \in Nat
        BY <2>5, <2>9, <3>3, <4>1, ZenonT(20) DEF One
      <4>3. nC(x) \in Nat
        BY CountedSmall, ZenonT(20)
      <4>4. nC(x)' = nC(x) + One(x = f)
        BY <3>2, <4>2, <4>3
      <4>5. ftable[x].ref = nC(x) + nH(rf, x) + nH(wf, x) /\ (ftable[x].ref = 0 => ftable[x] = NoFile) /\ rf' = rf /\ wf' = wf
        BY <2>1, <2>2, ZenonT(20) DEF RefsExact
      <4>6. nH(rf, x) \in Nat /\ nH(wf, x) \in Nat
        BY HoldSmall, ZenonT(20)
      <4>7. ftable'[x].ref = ftable[x].ref + One(x = f)
        BY <2>8, ZenonT(20)
      <4>8. ftable'[x].ref = nC(x)' + nH(rf', x) + nH(wf', x)
        BY <4>2, <4>3, <4>4, <4>5, <4>6, <4>7
      <4>9. ftable'[x].ref # 0 \/ (x # f /\ ftable[x].ref = 0)
        BY <4>1, <4>7 DEF One
      <4>10. x # f => ftable'[x] = ftable[x]
        <5>1. ftable' = [ftable EXCEPT ![f].ref = @ + 1] /\ ftable \in [Files -> File]
          BY <2>1, <2>7, ZenonT(20) DEF filedup, Types
        <5> QED BY <5>1, ZenonT(20)
      <4> QED BY <4>5, <4>8, <4>9, <4>10, ZenonT(20)
    <3> QED BY <3>4, ZenonT(20) DEF RefsExact, nH, Holding
  <2>13. InodesExact'
    <3>1. \A i \in Inodes : nH(ip', i) = nH(ip, i)
      BY <2>2, ZenonT(20)
    <3> QED BY <2>1, <2>2, <2>8, <3>1, InodesKept, ZenonT(20)
  <2>14. PipesExact'
    BY <2>1, <2>2, <2>8, PipesKept, ZenonT(20)
  <2>15. AllFit'
    BY <2>1, <2>2, <2>8, ZenonT(20) DEF AllFit
  <2> QED BY <2>8, <2>10, <2>11, <2>12, <2>13, <2>14, <2>15, ZenonT(20) DEF FileInv
<1>ForkStep. ASSUME Counting, FileTableSizes, FileInv, NEW p \in Procs, NEW q \in Procs, Fork(p, q)
                  PROVE  FileInv'
  <2> USE <1>ForkStep
  <2>1. Types /\ Locals /\ Forks
    BY ZenonT(20) DEF FileInv
  <2>2. /\ Idle(p) /\ q \notin live /\ (\A r \in Procs : np[r] # q)
        /\ pc' = [pc EXCEPT ![p] = "fork"] /\ np' = [np EXCEPT ![p] = q] /\ live' = live
        /\ UNCHANGED <<ftable, ofile, iref, ends, rf, wf, ff, ip, fd, panicked>>
    BY ZenonT(20) DEF Fork
  <2>3. p \in live /\ pc[p] = "run" /\ rf[p] = 0 /\ wf[p] = 0 /\ ip[p] = 0 /\ fd[p] = 0 /\ ff[p].type = "none"
    BY <2>2, AtRun, ZenonT(20)
  <2>4. /\ pc'[p] = "fork" /\ (\A s \in Procs : s # p => pc'[s] = pc[s]) /\ Others(p) /\ pc' \in [Procs -> Labels]
        /\ Names' /\ AllFit' /\ RefsExact' /\ InodesExact' /\ PipesExact' /\ ~panicked'
    <3> DEFINE l == "fork"
    <3>1. l \in Labels /\ l # "fields" /\ l # "dup" /\ l # "pipe" /\ pc' = [pc EXCEPT ![p] = l]
      BY <2>2, ZenonT(20) DEF Labels
    <3>2. l = "fork"
      BY ZenonT(20)
    <3> HIDE DEF l
    <3>3. /\ pc'[p] = l /\ (\A s \in Procs : s # p => pc'[s] = pc[s]) /\ Others(p) /\ pc' \in [Procs -> Labels]
          /\ Names' /\ AllFit' /\ RefsExact' /\ InodesExact' /\ PipesExact' /\ ~panicked'
      BY <2>2, <2>3, <3>1, <1>OnlyPc, ZenonT(20)
    <3> QED BY <3>2, <3>3, ZenonT(20)
  <2>5. np \in [Procs -> Procs \cup {0}]
    BY <2>1, ZenonT(20) DEF Types
  <2>6. np' \in [Procs -> Procs \cup {0}] /\ np'[p] = q /\ \A s \in Procs : s # p => np'[s] = np[s]
    BY <2>2, <2>5, ZenonT(20)
  <2>7. Types'
    BY <2>1, <2>2, <2>4, <2>6, ZenonT(20) DEF Types
  <2>8. Locals'
    <3>1. LocalsAt(p)'
      BY <2>2, <2>3, <2>4, ZenonT(20) DEF LocalsAt
    <3>2. live \ {p} \subseteq live'
      BY <2>2, ZenonT(20)
    <3> QED BY <2>1, <2>4, <3>1, <3>2, OthersLocals, ZenonT(20)
  <2>9. Forks'
    <3>1. q # 0
      BY ZenonT(20) DEF FileTableSizes
    <3>2. ForksAt(p)'
      BY <2>2, <2>4, <2>6, <3>1, ZenonT(20) DEF ForksAt
    <3>3. ASSUME NEW s \in Procs, s # p PROVE ForksAt(s)'
      <4>1. ForksAt(s) /\ pc'[s] = pc[s] /\ np'[s] = np[s] /\ np[s] # q
        BY <2>1, <2>2, <2>4, <2>6, <3>3, ZenonT(20) DEF Forks
      <4>2. \A t \in Procs : np'[t] = np[s] => np[t] = np[s]
        BY <2>6, <4>1, ZenonT(20)
      <4> QED BY <2>2, <4>1, <4>2 DEF ForksAt
    <3> QED BY <3>2, <3>3, ZenonT(20) DEF Forks
  <2> QED BY <2>4, <2>7, <2>8, <2>9, ZenonT(20) DEF FileInv
<1>StartStep. ASSUME Counting, FileTableSizes, FileInv, NEW p \in Procs, Start(p)
                   PROVE  FileInv'
  <2> USE <1>StartStep
  <2>1. Types /\ Locals /\ Forks
    BY ZenonT(20) DEF FileInv
  <2>2. /\ pc[p] = "fork" /\ live' = live \cup {np[p]}
        /\ pc' = [pc EXCEPT ![p] = "run"] /\ np' = [np EXCEPT ![p] = 0]
        /\ UNCHANGED <<ftable, ofile, iref, ends, rf, wf, ff, ip, fd, panicked>>
    BY ZenonT(20) DEF Start
  <2>3. /\ p \in live /\ rf[p] = 0 /\ wf[p] = 0 /\ ip[p] = 0 /\ fd[p] = 0 /\ ff[p].type = "none"
        /\ np[p] \in Procs /\ \A q \in Procs : np[q] = np[p] => q = p
    BY <2>2, <1>AtFork, ZenonT(20)
  <2>4. /\ pc'[p] = "run" /\ (\A s \in Procs : s # p => pc'[s] = pc[s]) /\ Others(p) /\ pc' \in [Procs -> Labels]
        /\ Names' /\ AllFit' /\ RefsExact' /\ InodesExact' /\ PipesExact' /\ ~panicked'
    <3> DEFINE l == "run"
    <3>1. l \in Labels /\ l # "fields" /\ l # "dup" /\ l # "pipe" /\ pc' = [pc EXCEPT ![p] = l]
      BY <2>2, ZenonT(20) DEF Labels
    <3>2. l = "run"
      BY ZenonT(20)
    <3> HIDE DEF l
    <3>3. /\ pc'[p] = l /\ (\A s \in Procs : s # p => pc'[s] = pc[s]) /\ Others(p) /\ pc' \in [Procs -> Labels]
          /\ Names' /\ AllFit' /\ RefsExact' /\ InodesExact' /\ PipesExact' /\ ~panicked'
      BY <2>2, <2>3, <3>1, <1>OnlyPc, ZenonT(20)
    <3> QED BY <3>2, <3>3, ZenonT(20)
  <2>5. np \in [Procs -> Procs \cup {0}] /\ live \subseteq Procs
    BY <2>1, ZenonT(20) DEF Types
  <2>6. np' \in [Procs -> Procs \cup {0}] /\ np'[p] = 0 /\ (\A s \in Procs : s # p => np'[s] = np[s]) /\ live' \subseteq Procs
    BY <2>2, <2>3, <2>5, ZenonT(20)
  <2>7. Types'
    BY <2>1, <2>2, <2>4, <2>6, ZenonT(20) DEF Types
  <2>8. Locals'
    <3>1. LocalsAt(p)'
      BY <2>2, <2>3, <2>4, ZenonT(20) DEF LocalsAt
    <3>2. live \ {p} \subseteq live'
      BY <2>2, ZenonT(20)
    <3> QED BY <2>1, <2>4, <3>1, <3>2, OthersLocals, ZenonT(20)
  <2>9. Forks'
    <3>1. ForksAt(p)'
      <4>1. "run" # "fork"
        BY ZenonT(20)
      <4> QED BY <2>4, <2>6, <4>1, ZenonT(20) DEF ForksAt
    <3>2. ASSUME NEW s \in Procs, s # p PROVE ForksAt(s)'
      <4>1. ForksAt(s) /\ pc'[s] = pc[s] /\ np'[s] = np[s] /\ np[s] # np[p]
        BY <2>1, <2>3, <2>4, <2>6, <3>2, ZenonT(20) DEF Forks
      <4>2. \A t \in Procs : np'[t] = np[s] /\ np[s] # 0 => np[t] = np[s]
        BY <2>6, <4>1, ZenonT(20)
      <4> QED BY <2>2, <4>1, <4>2 DEF ForksAt
    <3> QED BY <3>1, <3>2, ZenonT(20) DEF Forks
  <2> QED BY <2>4, <2>7, <2>8, <2>9, ZenonT(20) DEF FileInv
<1> QED BY <1>ForkDupStep, <1>ForkStep, <1>StartStep, ZenonT(20)

\* filealloc takes a file that nobody has, and gives it one reference.
LEMMA Alloc ==
  ASSUME Types, AllFit, RefsExact, NEW f, filealloc(f), ftable' = [ftable EXCEPT ![f].ref = 1]
  PROVE  /\ f \in Files /\ f # 0 /\ ftable[f] = NoFile
         /\ ftable' \in [Files -> File] /\ \A x \in Files : Fits(ftable'[x])
         /\ SameObjects(ftable, ftable') /\ (\A x \in Files : ftable'[x].type = ftable[x].type)
         /\ \A x \in Files : ftable'[x].ref = ftable[x].ref + One(x = f)
<1>1. f \in Files /\ ftable[f].ref = 0
  BY ZenonT(20) DEF filealloc, First, Unref
<1>2. ftable[f] = NoFile /\ f # 0
  BY <1>1 DEF RefsExact, Files
<1>3. /\ ftable' \in [Files -> File]
      /\ ftable'[f].ref = 1 /\ ftable'[f].type = "none" /\ ftable'[f].obj = 0 /\ ftable'[f].writable = FALSE
      /\ \A x \in Files : x # f => ftable'[x] = ftable[x]
  <2>0. ftable \in [Files -> File]
    BY ZenonT(20) DEF Types
  <2>1. ftable'[f] = [ftable[f] EXCEPT !.ref = 1] /\ \A x \in Files : x # f => ftable'[x] = ftable[x]
    BY <1>1, <2>0, ZenonT(20)
  <2>2. /\ ftable'[f].ref = 1 /\ ftable'[f].type = ftable[f].type /\ ftable'[f].obj = ftable[f].obj
        /\ ftable'[f].writable = ftable[f].writable /\ ftable'[f] \in File
    <3>1. ftable[f] \in File
      BY <1>1, <2>0, ZenonT(20)
    <3> QED BY <2>1, <3>1 DEF File
  <2>4. ftable[f].type = "none" /\ ftable[f].obj = 0 /\ ftable[f].writable = FALSE
    BY <1>2 DEF NoFile
  <2>3. ftable' = [x \in Files |-> ftable'[x]]
    BY <1>1, <2>0, ZenonT(20)
  <2> QED BY <2>0, <2>1, <2>2, <2>3, <2>4, ZenonT(20)
<1>4. SameObjects(ftable, ftable') /\ \A x \in Files : ftable'[x].type = ftable[x].type
  <2>1. DOMAIN ftable = Files /\ DOMAIN ftable' = Files
    BY <1>3, ZenonT(20) DEF Types
  <2>2. ftable[f].type = "none" /\ ftable[f].obj = 0 /\ ftable[f].writable = FALSE
    BY <1>2 DEF NoFile
  <2> QED BY <1>3, <2>1, <2>2, ZenonT(20) DEF SameObjects
<1>5. \A x \in Files : Fits(ftable'[x])
  <2>1. Fits(ftable'[f])
    BY <1>3 DEF Fits
  <2> QED BY <1>3, <2>1, ZenonT(20) DEF AllFit
<1>6. \A x \in Files : ftable'[x].ref = ftable[x].ref + One(x = f)
  BY <1>1, <1>3 DEF One, Types, File
<1> QED BY <1>1, <1>2, <1>3, <1>4, <1>5, <1>6, ZenonT(20)

\* A file is allocated and the call goes on with a reference to it, and no
\* descriptor changes.
LEMMA TakesFile ==
  ASSUME Counting, FileInv, NEW p \in Procs, NEW f, filealloc(f), ftable' = [ftable EXCEPT ![f].ref = 1],
         rf[p] = 0 /\ wf[p] = 0,
         NEW l \in Labels, NEW i \in Inodes \cup {0}, NEW d \in Fds \cup {0}, Goto(p, l, f, 0, i, d),
         \A x \in Files : nC(x)' = nC(x)
  PROVE  RefsExact'
<1>1. Types /\ AllFit /\ RefsExact
  BY ZenonT(20) DEF FileInv
<1>2. /\ f \in Files /\ f # 0 /\ ftable[f] = NoFile
      /\ ftable' \in [Files -> File] /\ \A x \in Files : Fits(ftable'[x])
      /\ SameObjects(ftable, ftable') /\ (\A x \in Files : ftable'[x].type = ftable[x].type)
      /\ \A x \in Files : ftable'[x].ref = ftable[x].ref + One(x = f)
  BY <1>1, Alloc, ZenonT(20)
<1>3. /\ \A x : nH(rf', x) = nH(rf, x) - One(rf[p] = x) + One(f = x)
      /\ \A x : nH(wf', x) = nH(wf, x) - One(wf[p] = x) + One(0 = x)
      /\ \A x : nH(rf, x) \in Nat /\ nH(wf, x) \in Nat
  BY <1>1, GotoHolds
<1> SUFFICES ASSUME NEW x \in Files
             PROVE  /\ ftable'[x].ref = nC(x)' + nH(rf', x) + nH(wf', x)
                    /\ ftable'[x].ref = 0 => ftable'[x] = NoFile
  BY ZenonT(20) DEF RefsExact
<1>4. /\ ftable[x].ref = nC(x) + nH(rf, x) + nH(wf, x)
      /\ ftable[x].ref = 0 => ftable[x] = NoFile
  BY <1>1, ZenonT(20) DEF RefsExact
<1>5. nC(x)' = nC(x) /\ nC(x) \in Nat /\ x # 0
  BY CountedSmall DEF Files
<1>6. nH(rf', x) = nH(rf, x) + One(f = x) /\ nH(wf', x) = nH(wf, x) /\ nH(rf, x) \in Nat /\ nH(wf, x) \in Nat
  BY <1>3, <1>5 DEF One
<1>7. ftable'[x].ref = ftable[x].ref + One(x = f) /\ (x # f => ftable'[x] = ftable[x])
  <2>1. x # f => ftable'[x] = ftable[x]
    BY <1>1, ZenonT(20) DEF Types
  <2> QED BY <1>2, <2>1, ZenonT(20)
<1>8. CASE x = f
  <2>1. ftable[x].ref = 0
    BY <1>2, <1>8 DEF NoFile
  <2> QED BY <2>1, <1>4, <1>5, <1>6, <1>7, <1>8 DEF One
<1>9. CASE x # f
  BY <1>9, <1>4, <1>5, <1>6, <1>7 DEF One
<1> QED BY <1>8, <1>9, ZenonT(20)

\* The descriptor d of p, which was free, names f but is not counted.
LEMMA NamesApart ==
  ASSUME FileInv, NEW p \in Procs, fd[p] = 0, NEW d \in Fds, ofile[p][d] = 0, NEW f \in Files, ofile' = [ofile EXCEPT ![p][d] = f],
         fd'[p] = d, Others(p), \A x \in Files : ftable'[x].type = ftable[x].type,
         \/ pc'[p] = "fields" /\ rf'[p] = f /\ ftable[f].type = "none"
         \/ pc'[p] = "dup" /\ \E e \in Fds : ofile[p][e] = f
  PROVE  /\ Names' /\ (\A x \in Files : nC(x)' = nC(x))
         /\ ofile' \in [Procs -> [Fds -> Files \cup {0}]]
<1>0. Types /\ Locals /\ Names /\ NamesAt(p) /\ ofile \in [Procs -> [Fds -> Files \cup {0}]]
  BY ZenonT(20) DEF FileInv, Names, Types
<1>1. f # 0 /\ \A e \in Fds : e # 0
  BY DEF Fds, Files
<1>2. /\ ofile'[p][d] = f /\ (\A e \in Fds : e # d => ofile'[p][e] = ofile[p][e]) /\ (\A q \in Procs : q # p => ofile'[q] = ofile[q])
      /\ ofile' \in [Procs -> [Fds -> Files \cup {0}]]
  BY <1>0, ZenonT(20)
<1>3. \A e \in Fds : e # d /\ ofile'[p][e] # 0 => ftable'[ofile'[p][e]].type # "none"
  <2> SUFFICES ASSUME NEW e \in Fds, e # d, ofile'[p][e] # 0 PROVE ftable'[ofile'[p][e]].type # "none"
    BY ZenonT(20)
  <2>1. ofile[p][e] \in Files /\ ftable[ofile[p][e]].type # "none" /\ ofile'[p][e] = ofile[p][e]
    BY <1>0, <1>1, <1>2 DEF NamesAt
  <2> QED BY <2>1, ZenonT(20)
<1>4. NamesAt(p)'
  <2>1. CASE pc'[p] = "fields"
    <3>1. pc'[p] # "dup" /\ pc'[p] # "pipe" /\ rf'[p] = f /\ ftable[f].type = "none"
      BY <2>1, ZenonT(20)
    <3> QED BY <1>1, <1>2, <1>3, <2>1, <3>1, ZenonT(20) DEF NamesAt
  <2>2. CASE pc'[p] = "dup"
    <3>1. PICK e \in Fds : ofile[p][e] = f
      BY <2>2, ZenonT(20)
    <3>2. e # d /\ ofile'[p][e] = ofile'[p][d]
      BY <1>1, <1>2, <3>1, ZenonT(20)
    <3>3. pc'[p] # "fields" /\ pc'[p] # "pipe"
      BY <2>2, ZenonT(20)
    <3> QED BY <1>1, <1>2, <1>3, <3>2, <3>3, ZenonT(20) DEF NamesAt
  <2> QED BY <2>1, <2>2, ZenonT(20)
<1>5. Names'
  BY <1>0, <1>2, <1>4, OthersNames, ZenonT(20)
<1>6. ASSUME NEW x \in Files PROVE nC(x)' = nC(x)
  <2>0. x # 0
    BY DEF Files
  <2>1. \A q \in Procs, e \in Fds : q # p => (ofile'[q][e] = x /\ fd'[q] # e <=> ofile[q][e] = x /\ fd[q] # e)
    BY <1>2, ZenonT(20) DEF Others
  <2>2. \A e \in Fds : ofile'[p][e] = x /\ fd'[p] # e <=> ofile[p][e] = x /\ fd[p] # e
    BY <1>1, <1>2, <2>0
  <2>3. \A q \in Procs, e \in Fds : ofile'[q][e] = x /\ fd'[q] # e <=> ofile[q][e] = x /\ fd[q] # e
    <3> SUFFICES ASSUME NEW q \in Procs, NEW e \in Fds PROVE ofile'[q][e] = x /\ fd'[q] # e <=> ofile[q][e] = x /\ fd[q] # e
      BY ZenonT(20)
    <3>1. CASE q = p
      BY <2>2, <3>1, ZenonT(20)
    <3>2. CASE q # p
      BY <2>1, <3>2, ZenonT(20)
    <3> QED BY <3>1, <3>2, ZenonT(20)
  <2> QED BY <2>3, CountedSame, ZenonT(20)
<1> QED BY <1>2, <1>5, <1>6, ZenonT(20)

\* sys_open.
LEMMA OpenSteps ==
  ASSUME Counting, FileTableSizes
  PROVE  /\ \A p \in Procs, i \in Inodes : FileInv /\ Open(p, i) => FileInv'
         /\ \A p \in Procs : FileInv /\ Fields(p) => FileInv'
         /\ \A p \in Procs : FileInv /\ Iput(p) => FileInv'
\* sys_open sets the fields of its file, which nobody else has yet.
<1>AtFields.
  ASSUME Counting, FileInv, NEW p \in Procs, pc[p] = "fields"
  PROVE  /\ p \in live /\ rf[p] \in Files /\ wf[p] = 0 /\ ip[p] \in Inodes /\ fd[p] \in Fds /\ ff[p].type = "none"
         /\ ofile[p][fd[p]] = rf[p] /\ ftable[rf[p]].type = "none" /\ ftable[rf[p]].ref = 1
         /\ \A q \in Procs : rf[q] = rf[p] => q = p
  <2> USE <1>AtFields
  <2>1. /\ LocalsAt(p) /\ NamesAt(p) /\ rf \in [Procs -> Files \cup {0}] /\ ip \in [Procs -> Inodes \cup {0}] /\ fd \in [Procs -> Fds \cup {0}]
        /\ ftable \in [Files -> File] /\ RefsExact /\ \A f \in Files : Fits(ftable[f])
    BY ZenonT(20) DEF FileInv, Locals, Names, Types, AllFit
  <2>2. p \in live /\ rf[p] # 0 /\ wf[p] = 0 /\ ip[p] # 0 /\ fd[p] # 0 /\ ff[p].type = "none"
    BY <2>1, ZenonT(20) DEF LocalsAt
  <2>3. rf[p] \in Files /\ ip[p] \in Inodes /\ fd[p] \in Fds
    BY <2>1, <2>2, ZenonT(20)
  <2>4. ofile[p][fd[p]] = rf[p] /\ ftable[rf[p]].type = "none"
    BY <2>1, ZenonT(20) DEF NamesAt
  <2>5. ftable[rf[p]].ref <= 1
    BY <2>1, <2>3, <2>4, ZenonT(20) DEF Fits
  <2>6. ftable[rf[p]].ref = 1 /\ \A q \in Procs : rf[q] = rf[p] => q = p
    BY <2>1, <2>3, <2>5, OneHolder, ZenonT(20)
  <2> QED BY <2>2, <2>3, <2>4, <2>6, ZenonT(20)
<1>FieldsStep. ASSUME Counting, FileTableSizes, FileInv, NEW p \in Procs, Fields(p)
                    PROVE  FileInv'
  <2> USE <1>FieldsStep
  <2> DEFINE f == rf[p]
             d == fd[p]
  <2>1. Types /\ AllFit /\ Locals /\ Forks /\ Names /\ RefsExact /\ InodesExact /\ PipesExact /\ ~panicked
    BY ZenonT(20) DEF FileInv
  <2>2. pc[p] = "fields" /\ Goto(p, "run", 0, 0, 0, 0) /\ UNCHANGED <<ofile, iref, ends, live, ff, np, panicked>>
    BY ZenonT(20) DEF Fields, Return
  <2>3. /\ p \in live /\ f \in Files /\ wf[p] = 0 /\ ip[p] \in Inodes /\ d \in Fds /\ ff[p].type = "none"
        /\ ofile[p][d] = f /\ ftable[f].type = "none" /\ ftable[f].ref = 1
        /\ \A q \in Procs : rf[q] = f => q = p
    BY <2>2, <1>AtFields, ZenonT(20)
  <2>4. /\ ftable' \in [Files -> File] /\ ftable'[f].ref = 1 /\ ftable'[f].type = "inode" /\ ftable'[f].obj = ip[p]
        /\ \A x \in Files : x # f => ftable'[x] = ftable[x]
    <3> DEFINE R == [ref |-> ftable[f].ref, type |-> "inode", obj |-> ip[p], writable |-> TRUE]
    <3>1. ftable' = [ftable EXCEPT ![f] = R]
      BY ZenonT(20) DEF Fields
    <3>2. R \in File /\ R.ref = 1 /\ R.type = "inode" /\ R.obj = ip[p]
      <4>1. 1 \in Nat
        OBVIOUS
      <4> QED BY <2>3, <4>1, ZenonT(20) DEF File
    <3> HIDE DEF R, f
    <3> QED BY <2>1, <2>3, <3>1, <3>2, ZenonT(20) DEF Types
  <2>5. pc'[p] = "run" /\ rf'[p] = 0 /\ wf'[p] = 0 /\ ip'[p] = 0 /\ fd'[p] = 0
    BY <2>1, <2>2, GotoLocals
  <2>6. Others(p)
    BY <2>1, <2>2, GotoOthers, ZenonT(20)
  <2>7. f # 0 /\ d # 0
    BY <2>3 DEF Files, Fds
  <2>8. /\ ofile' = ofile /\ ofile \in [Procs -> [Fds -> Files \cup {0}]] /\ rf \in [Procs -> Files \cup {0}]
        /\ \A x \in Files : ftable[x] \in File
    BY <2>1, <2>2, ZenonT(20) DEF Types
  <2> HIDE DEF f, d
  <2>9. Names'
    <3>1. NamesAt(p)'
      <4>1. ASSUME NEW e \in Fds, ofile'[p][e] # 0 PROVE ftable'[ofile'[p][e]].type # "none"
        <5>1. ofile'[p][e] \in Files /\ ofile'[p][e] = ofile[p][e]
          BY <2>8, <4>1, ZenonT(20)
        <5>2. CASE ofile[p][e] = f
          BY <2>4, <5>1, <5>2, ZenonT(20)
        <5>3. CASE ofile[p][e] # f
          <6>1. ftable[ofile[p][e]].type # "none"
            BY <2>1, <2>3, <4>1, <5>1, <5>3, ZenonT(20) DEF Names, NamesAt, d
          <6> QED BY <2>4, <5>1, <5>3, <6>1, ZenonT(20)
        <5> QED BY <5>2, <5>3, ZenonT(20)
      <4>2. pc'[p] # "fields" /\ pc'[p] # "dup" /\ pc'[p] # "pipe"
        BY <2>5
      <4> QED BY <2>5, <4>1, <4>2, NamesClean, ZenonT(20)
    <3>2. ASSUME NEW q \in Procs, q # p PROVE NamesAt(q)'
      <4>1. NamesAt(q) /\ LocalsAt(q)
        BY <2>1, ZenonT(20) DEF Names, Locals
      <4>2. pc'[q] = pc[q] /\ rf'[q] = rf[q] /\ fd'[q] = fd[q] /\ ofile'[q] = ofile[q]
        BY <2>6, <2>8, <3>2, ZenonT(20) DEF Others
      <4>3. pc[q] \in {"fields", "pipe"} => rf[q] \in Files /\ rf[q] # f
        BY <2>3, <2>8, <3>2, <4>1, ZenonT(20) DEF LocalsAt
      <4>4. pc[q] \in {"fields", "pipe"} => ftable'[rf[q]].type = "none"
        BY <2>4, <4>1, <4>3 DEF NamesAt
      <4>5. ASSUME NEW e \in Fds, ofile[q][e] # 0, ftable'[ofile[q][e]].type = "none" PROVE e = fd[q]
        <5>1. ofile[q][e] \in Files
          BY <2>8, <4>5, ZenonT(20)
        <5>2. ofile[q][e] # f
          BY <2>4, <4>5, ZenonT(20)
        <5>3. ftable[ofile[q][e]].type = "none"
          BY <2>4, <4>5, <5>1, <5>2, ZenonT(20)
        <5> QED BY <4>1, <4>5, <5>3, ZenonT(20) DEF NamesAt
      <4> QED BY <4>1, <4>2, <4>4, <4>5, ZenonT(20) DEF NamesAt
    <3> QED BY <3>1, <3>2, ZenonT(20) DEF Names
  <2>10. LocalsAt(p)'
    BY <2>2, <2>3, <2>5, ZenonT(20) DEF LocalsAt
  <2>11. Types' /\ Locals' /\ Forks'
    <3>1. "run" \in Labels /\ "run" # "fork" /\ pc[p] # "fork" /\ 0 \in Files \cup {0} /\ 0 \in Inodes \cup {0} /\ 0 \in Fds \cup {0}
      BY <2>2, ZenonT(20) DEF Labels
    <3>2. iref' \in [Inodes -> Int] /\ ends' \in [Pipes -> SUBSET BOOLEAN] /\ ofile' \in [Procs -> [Fds -> Files \cup {0}]]
      BY <2>1, <2>2, ZenonT(20) DEF Types
    <3> QED BY <2>2, <2>4, <2>10, <3>1, <3>2, Frame, ZenonT(20)
  <2>12. RefsExact'
    <3>1. \A q \in Procs : q # p => ofile'[q] = ofile[q]
      BY <2>8, ZenonT(20)
    <3>2. \A e \in Fds : e # d => ofile'[p][e] = ofile[p][e]
      BY <2>8, ZenonT(20)
    <3>3. \A x \in Files : nC(x)' = nC(x) - One(ofile[p][d] = x /\ fd[p] # d) + One(ofile'[p][d] = x /\ fd'[p] # d)
      <4>1. fd[p] = d /\ fd'[p] = 0
        BY <2>5, ZenonT(20) DEF d
      <4>2. (fd[p] = 0 \/ fd[p] = d) /\ (fd'[p] = 0 \/ fd'[p] = d) /\ d \in Fds
        BY <2>3, <4>1, ZenonT(20)
      <4> QED BY <2>6, <3>1, <3>2, <4>2, OneDescriptor
    <3>4. fd[p] = d /\ fd'[p] # d /\ ofile'[p][d] = f /\ rf[p] = f
      BY <2>3, <2>5, <2>7, <2>8, ZenonT(20) DEF d, f
    <3>5. ASSUME NEW x \in Files
          PROVE  /\ nC(x)' \in Int
                 /\ ftable'[x].ref = ftable[x].ref + (nC(x)' - nC(x)) - One(rf[p] = x) + One(0 = x) - One(wf[p] = x) + One(0 = x)
                 /\ ftable'[x].ref = 0 => ftable'[x] = NoFile
      <4>1. x # 0 /\ nC(x) \in Nat /\ ftable[x].ref \in Nat /\ (ftable[x].ref = 0 => ftable[x] = NoFile)
        BY <2>1, CountedSmall, RefNat, ZenonT(20) DEF RefsExact
      <4>2. nC(x)' = nC(x) + One(rf[p] = x)
        <5>1. One(ofile[p][d] = x /\ fd[p] # d) = 0 /\ One(ofile'[p][d] = x /\ fd'[p] # d) = One(rf[p] = x) /\ One(rf[p] = x) \in Nat
          BY <3>4, ZenonT(20) DEF One
        <5> QED BY <3>3, <4>1, <5>1
      <4>3. One(rf[p] = x) \in Nat /\ One(0 = x) = 0 /\ One(wf[p] = x) = 0
        BY <2>3, <4>1, ZenonT(20) DEF One
      <4>4. ftable'[x].ref = ftable[x].ref
        BY <2>3, <2>4, ZenonT(20)
      <4>5. ftable'[x].ref = 0 => ftable'[x] = NoFile
        BY <2>4, <4>1, <4>4
      <4> QED BY <4>1, <4>2, <4>3, <4>4, <4>5
    <3>6. Balanced(p, 0, 0)
      BY <3>5, ZenonT(20) DEF Balanced
    <3> QED BY <2>1, <2>2, <3>6, RefsBalance, ZenonT(20)
  <2>13. DOMAIN ftable = Files /\ DOMAIN ftable' = Files
    BY <2>1, <2>4, ZenonT(20) DEF Types
  <2>14. InodesExact'
    <3>1. ASSUME NEW i \in Inodes PROVE (iref'[i] = nI(ftable', i) + nI(ff', i) + nH(ip', i))
      <4>1. nI(ftable', i) = nI(ftable, i) - One(IsInode(ftable[f], i)) + One(IsInode(ftable'[f], i))
        BY <2>3, <2>4, <2>13, FileChange
      <4>2. nH(ip', i) = nH(ip, i) - One(ip[p] = i) + One(0 = i) /\ nH(ip, i) \in Nat
        BY <2>1, <2>2, GotoHolds
      <4>3. One(0 = i) = 0 /\ One(ip[p] = i) \in Nat
        BY ZenonT(20) DEF FileTableSizes, One
      <4>4. One(IsInode(ftable[f], i)) = 0 /\ One(IsInode(ftable'[f], i)) = One(ip[p] = i)
        BY <2>3, <2>4, ZenonT(20) DEF IsInode, One
      <4>5. nI(ftable, i) \in Nat /\ nI(ff, i) \in Nat
        <5>1. DOMAIN ff = Procs
          BY <2>1, ZenonT(20) DEF Types
        <5> QED BY <2>13, <5>1, ObjSmall
      <4>6. iref'[i] = nI(ftable, i) + nI(ff, i) + nH(ip, i) /\ ff' = ff
        BY <2>1, <2>2, ZenonT(20) DEF InodesExact
      <4>7. nI(ftable', i) = nI(ftable, i) - 0 + One(ip[p] = i) /\ nH(ip', i) = nH(ip, i) - One(ip[p] = i) + 0
        BY <4>1, <4>2, <4>3, <4>4, ZenonT(20)
      <4>8. nI(ftable, i) + nI(ff, i) + nH(ip, i) = (nI(ftable, i) - 0 + One(ip[p] = i)) + nI(ff, i) + (nH(ip, i) - One(ip[p] = i) + 0)
        BY <4>2, <4>3, <4>5
      <4> QED BY <4>6, <4>7, <4>8, ZenonT(20)
    <3> QED BY <3>1, ZenonT(20) DEF InodesExact, nI, nH, OfInode, Holding
  <2>15. PipesExact'
    <3>1. ASSUME NEW k \in Pipes, NEW w \in BOOLEAN PROVE nP(ftable', k, w) = nP(ftable, k, w)
      <4>1. nP(ftable', k, w) = nP(ftable, k, w) - One(IsPipe(ftable[f], k, w)) + One(IsPipe(ftable'[f], k, w))
        BY <2>3, <2>4, <2>13, FileChange
      <4>2. One(IsPipe(ftable[f], k, w)) = 0 /\ One(IsPipe(ftable'[f], k, w)) = 0
        BY <2>3, <2>4, ZenonT(20) DEF IsPipe, One
      <4>3. nP(ftable, k, w) \in Nat
        BY <2>13, ObjSmall
      <4> QED BY <4>1, <4>2, <4>3, Same, ZenonT(20)
    <3>2. ends' = ends /\ ff' = ff
      BY <2>2, ZenonT(20)
    <3>3. ASSUME NEW k \in Pipes, NEW w \in BOOLEAN PROVE One(w \in ends'[k]) = nP(ftable', k, w) + nP(ff', k, w)
      BY <2>1, <3>1, <3>2, ZenonT(20) DEF PipesExact
    <3> QED BY <3>3, ZenonT(20) DEF PipesExact, nP, OfPipe, One
  <2>16. AllFit'
    <3>1. Fits(ftable'[f])
      BY <2>3, <2>4, ZenonT(20) DEF Fits
    <3>2. ASSUME NEW x \in Files PROVE Fits(ftable'[x])
      BY <2>1, <2>4, <3>1, ZenonT(20) DEF AllFit
    <3> QED BY <2>1, <2>2, <3>2, ZenonT(20) DEF AllFit, Fits
  <2> QED BY <2>1, <2>2, <2>9, <2>11, <2>12, <2>14, <2>15, <2>16, ZenonT(20) DEF FileInv
\* namei returns a referenced inode, and the call holds it.
<1>InodesUp.
  ASSUME Counting, FileTableSizes, Types, InodesExact, NEW p \in Procs, NEW i \in Inodes, ip[p] = 0, iref' = [iref EXCEPT ![i] = @ + 1],
         SameObjects(ftable, ftable'), ff' = ff, NEW l, NEW r, NEW w, NEW d, Goto(p, l, r, w, i, d)
  PROVE  InodesExact'
  <2> USE <1>InodesUp
  <2>0. /\ \A x : nH(ip', x) = nH(ip, x) - One(ip[p] = x) + One(i = x)
        /\ \A x : nH(ip, x) \in Nat
    BY GotoHolds
  <2>1. DOMAIN ftable = Files /\ DOMAIN ff = Procs /\ iref \in [Inodes -> Int]
    BY ZenonT(20) DEF Types
  <2>2. \A j : nI(ftable', j) = nI(ftable, j) /\ nI(ftable, j) \in Nat /\ nI(ff, j) \in Nat
    BY <2>1, ObjSmall, SameCounts
  <2> SUFFICES ASSUME NEW j \in Inodes PROVE iref'[j] = nI(ftable', j) + nI(ff, j) + nH(ip', j)
    BY ZenonT(20) DEF InodesExact
  <2>3. iref[j] = nI(ftable, j) + nI(ff, j) + nH(ip, j)
    BY ZenonT(20) DEF InodesExact
  <2>4. nI(ftable', j) = nI(ftable, j) /\ nI(ftable, j) \in Nat /\ nI(ff, j) \in Nat /\ nH(ip, j) \in Nat
    BY <2>0, <2>2, ZenonT(20)
  <2>5. nH(ip', j) = nH(ip, j) + One(i = j)
    <3>1. ip[p] # j
      BY ZenonT(20) DEF FileTableSizes
    <3>2. nH(ip', j) = nH(ip, j) - One(ip[p] = j) + One(i = j)
      BY <2>0, ZenonT(20)
    <3> QED BY <3>1, <3>2, <2>4 DEF One
  <2>6. One(i = j) \in Nat /\ iref'[j] = iref[j] + One(i = j)
    <3>1. CASE i = j
      BY <2>1, <3>1, ZenonT(20) DEF One
    <3>2. CASE i # j
      <4>1. iref'[j] = iref[j] /\ iref[j] \in Int /\ One(i = j) = 0
        BY <2>1, <3>2, ZenonT(20) DEF One
      <4> QED BY <4>1
    <3> QED BY <3>1, <3>2, ZenonT(20)
  <2>7. (nI(ftable, j) + nI(ff, j) + nH(ip, j)) + One(i = j) = nI(ftable, j) + nI(ff, j) + (nH(ip, j) + One(i = j))
    BY <2>4, <2>6
  <2> QED BY <2>3, <2>4, <2>5, <2>6, <2>7, ZenonT(20)
<1>OpenNoFile.
  ASSUME Counting, FileInv, NEW p \in Procs, NEW i \in Inodes, FileTableSizes, Idle(p), iref' = [iref EXCEPT ![i] = @ + 1],
         Goto(p, "iput", 0, 0, i, 0), UNCHANGED <<ftable, ofile, ends, live, ff, np, panicked>>
  PROVE  FileInv'
  <2> USE <1>OpenNoFile
  <2>1. Types /\ AllFit /\ Locals /\ Forks /\ Names /\ RefsExact /\ InodesExact /\ PipesExact /\ ~panicked
    BY ZenonT(20) DEF FileInv
  <2>2. /\ p \in live /\ pc[p] = "run" /\ rf[p] = 0 /\ wf[p] = 0 /\ ip[p] = 0 /\ fd[p] = 0 /\ ff[p].type = "none"
    BY AtRun, ZenonT(20)
  <2>3. pc'[p] = "iput" /\ rf'[p] = 0 /\ wf'[p] = 0 /\ ip'[p] = i /\ fd'[p] = 0
    BY <2>1, GotoLocals
  <2>4. Others(p)
    BY <2>1, GotoOthers, ZenonT(20)
  <2>5. Types'
    <3>1. "iput" \in Labels /\ 0 \in Files \cup {0} /\ i \in Inodes \cup {0} /\ 0 \in Fds \cup {0}
      BY ZenonT(20) DEF Labels
    <3>2. /\ pc' \in [Procs -> Labels] /\ rf' \in [Procs -> Files \cup {0}] /\ wf' \in [Procs -> Files \cup {0}]
          /\ ip' \in [Procs -> Inodes \cup {0}] /\ fd' \in [Procs -> Fds \cup {0}]
      BY <2>1, <3>1, GotoTypes, ZenonT(20)
    <3>3. iref' \in [Inodes -> Int]
      BY <2>1 DEF Types
    <3> QED BY <2>1, <3>2, <3>3, ZenonT(20) DEF Types
  <2>6. Locals'
    <3>1. LocalsAt(p)'
      BY <2>2, <2>3, i # 0, ZenonT(20) DEF LocalsAt, FileTableSizes
    <3> QED BY <2>1, <2>4, <3>1, OthersLocals, ZenonT(20)
  <2>7. Forks'
    BY <2>1, <2>2, <2>3, <2>4, OthersForks, ZenonT(20)
  <2>8. Names' /\ \A x : nC(x)' = nC(x)
    BY <2>2, <2>3, <2>4, NamesKept, ZenonT(20)
  <2>9. /\ \A x : nH(rf', x) = nH(rf, x) - One(rf[p] = x) + One(0 = x)
        /\ \A x : nH(wf', x) = nH(wf, x) - One(wf[p] = x) + One(0 = x)
        /\ \A x : nH(ip', x) = nH(ip, x) - One(ip[p] = x) + One(i = x)
        /\ \A x : nH(rf, x) \in Nat /\ nH(wf, x) \in Nat /\ nH(ip, x) \in Nat
    BY <2>1, GotoHolds, ZenonT(20)
  <2>10. RefsExact'
    BY <2>1, <2>2, <2>8, <2>9 DEF RefsExact, One
  <2>11. InodesExact'
    <3>1. SameObjects(ftable, ftable')
      BY ZenonT(20) DEF SameObjects
    <3> QED BY <2>1, <2>2, <3>1, <1>InodesUp, ZenonT(20)
  <2>12. PipesExact'
    BY <2>1, ZenonT(20) DEF PipesExact
  <2> QED BY <2>1, <2>5, <2>6, <2>7, <2>8, <2>10, <2>11, <2>12, ZenonT(20) DEF FileInv, AllFit
<1>OpenGets.
  ASSUME Counting, FileTableSizes, FileInv, NEW p \in Procs, NEW i \in Inodes, Idle(p), iref' = [iref EXCEPT ![i] = @ + 1],
         NEW f, filealloc(f), ftable' = [ftable EXCEPT ![f].ref = 1],
         NEW l, NEW d, Goto(p, l, f, 0, i, d), (l = "close" /\ d = 0) \/ (l = "fields" /\ d \in Fds),
         ofile' \in [Procs -> [Fds -> Files \cup {0}]], UNCHANGED <<ends, live, ff, np, panicked>>,
         Names', \A x \in Files : nC(x)' = nC(x)
  PROVE  FileInv'
  <2> USE <1>OpenGets
  <2>1. Types /\ AllFit /\ Locals /\ Forks /\ Names /\ RefsExact /\ InodesExact /\ PipesExact /\ ~panicked
    BY ZenonT(20) DEF FileInv
  <2>2. /\ p \in live /\ pc[p] = "run" /\ rf[p] = 0 /\ wf[p] = 0 /\ ip[p] = 0 /\ fd[p] = 0 /\ ff[p].type = "none"
    BY AtRun, ZenonT(20)
  <2>3. pc'[p] = l /\ rf'[p] = f /\ wf'[p] = 0 /\ ip'[p] = i /\ fd'[p] = d
    BY <2>1, GotoLocals
  <2>4. Others(p)
    BY <2>1, GotoOthers, ZenonT(20)
  <2>0. /\ f \in Files /\ f # 0 /\ ftable[f] = NoFile
        /\ ftable' \in [Files -> File] /\ \A x \in Files : Fits(ftable'[x])
        /\ SameObjects(ftable, ftable')
    BY <2>1, Alloc, ZenonT(20)
  <2>a. l \in Labels /\ f \in Files \cup {0} /\ 0 \in Files \cup {0} /\ i \in Inodes \cup {0} /\ d \in Fds \cup {0}
    BY <2>0, ZenonT(20) DEF Labels
  <2>5. Types'
    <3>2. /\ pc' \in [Procs -> Labels] /\ rf' \in [Procs -> Files \cup {0}] /\ wf' \in [Procs -> Files \cup {0}]
          /\ ip' \in [Procs -> Inodes \cup {0}] /\ fd' \in [Procs -> Fds \cup {0}]
      BY <2>1, <2>a, GotoTypes, ZenonT(20)
    <3>3. iref' \in [Inodes -> Int]
      BY <2>1 DEF Types
    <3> QED BY <2>1, <2>0, <3>2, <3>3, ZenonT(20) DEF Types
  <2>6. Locals'
    <3>1. i # 0 /\ (d \in Fds => d # 0)
      BY DEF FileTableSizes, Fds
    <3>2. LocalsAt(p)'
      BY <2>0, <2>2, <2>3, <3>1, ZenonT(20) DEF LocalsAt
    <3> QED BY <2>1, <2>4, <3>2, OthersLocals, ZenonT(20)
  <2>7. Forks'
    <3>1. pc'[p] # "fork"
      BY <2>3, ZenonT(20)
    <3> QED BY <2>1, <2>2, <3>1, <2>4, OthersForks, ZenonT(20)
  <2>10. RefsExact'
    BY <2>a, <2>2, TakesFile, ZenonT(20)
  <2>11. InodesExact'
    BY <2>0, <2>1, <2>2, <1>InodesUp, ZenonT(20)
  <2>12. PipesExact'
    BY <2>0, <2>1, PipesKept, ZenonT(20)
  <2> QED BY <2>0, <2>1, <2>5, <2>6, <2>7, <2>10, <2>11, <2>12, ZenonT(20) DEF FileInv, AllFit
<1>OpenStep. ASSUME Counting, FileTableSizes, FileInv, NEW p \in Procs, NEW i \in Inodes, Open(p, i)
                  PROVE  FileInv'
  <2> USE <1>OpenStep
  <2>1. Idle(p) /\ iref' = [iref EXCEPT ![i] = @ + 1] /\ UNCHANGED <<ends, live, ff, np, panicked>>
    BY ZenonT(20) DEF Open
  <2>2. CASE Goto(p, "iput", 0, 0, i, 0) /\ UNCHANGED <<ftable, ofile>>
    BY <2>1, <2>2, <1>OpenNoFile, ZenonT(20)
  <2>3. ASSUME NEW f \in Files, filealloc(f), ftable' = [ftable EXCEPT ![f].ref = 1],
               Free(p) = {}, Goto(p, "close", f, 0, i, 0), UNCHANGED ofile
        PROVE  FileInv'
    <3>1. Types /\ AllFit /\ RefsExact /\ fd[p] = 0
      BY <2>1, AtRun, ZenonT(20) DEF FileInv
    <3>2. \A x \in Files : ftable'[x].type = ftable[x].type
      BY <2>3, <3>1, Alloc, ZenonT(20)
    <3>3. pc'[p] = "close" /\ fd'[p] = 0
      BY <2>3, <3>1, GotoLocals
    <3>4. Others(p)
      BY <2>1, <2>3, <3>1, GotoOthers, ZenonT(20)
    <3>5. Names' /\ \A x : nC(x)' = nC(x)
      BY <2>3, <3>1, <3>2, <3>3, <3>4, NamesKept, ZenonT(20)
    <3>6. ofile' \in [Procs -> [Fds -> Files \cup {0}]]
      BY <2>3, <3>1, ZenonT(20) DEF Types
    <3> DEFINE l == "close"
               d == 0
    <3>7. Goto(p, l, f, 0, i, d) /\ ((l = "close" /\ d = 0) \/ (l = "fields" /\ d \in Fds))
      BY <2>3, ZenonT(20)
    <3> HIDE DEF l, d
    <3> QED BY <2>1, <2>3, <3>5, <3>6, <3>7, <1>OpenGets, ZenonT(20)
  <2>4. ASSUME NEW f \in Files, filealloc(f), ftable' = [ftable EXCEPT ![f].ref = 1],
               NEW d \in Fds, fdalloc(p, d), ofile' = [ofile EXCEPT ![p][d] = f], Goto(p, "fields", f, 0, i, d)
        PROVE  FileInv'
    <3>1. Types /\ AllFit /\ RefsExact /\ fd[p] = 0
      BY <2>1, AtRun, ZenonT(20) DEF FileInv
    <3>2. (\A x \in Files : ftable'[x].type = ftable[x].type) /\ ftable[f] = NoFile
      BY <2>4, <3>1, Alloc, ZenonT(20)
    <3>3. pc'[p] = "fields" /\ fd'[p] = d /\ rf'[p] = f
      BY <2>4, <3>1, GotoLocals
    <3>4. Others(p)
      BY <2>1, <2>4, <3>1, GotoOthers, ZenonT(20)
    <3>5. ofile[p][d] = 0 /\ ftable[f].type = "none"
      BY <2>4, <3>2 DEF fdalloc, First, Free, NoFile
    <3>6. Names' /\ (\A x \in Files : nC(x)' = nC(x)) /\ ofile' \in [Procs -> [Fds -> Files \cup {0}]]
      BY <2>4, <3>1, <3>2, <3>3, <3>4, <3>5, NamesApart, ZenonT(20)
    <3> DEFINE l == "fields"
    <3>7. Goto(p, l, f, 0, i, d) /\ ((l = "close" /\ d = 0) \/ (l = "fields" /\ d \in Fds))
      BY <2>4, ZenonT(20)
    <3> HIDE DEF l
    <3> QED BY <2>1, <2>4, <3>6, <3>7, <1>OpenGets, ZenonT(20)
  <2> QED BY <2>2, <2>3, <2>4, ZenonT(20) DEF Open
\* A call that holds no more than an inode puts it.
<1>IputStep. ASSUME Counting, FileTableSizes, FileInv, NEW p \in Procs, Iput(p)
                  PROVE  FileInv'
  <2> USE <1>IputStep
  <2>1. Types /\ AllFit /\ Locals /\ Forks /\ Names /\ RefsExact /\ InodesExact /\ PipesExact /\ ~panicked
    BY ZenonT(20) DEF FileInv
  <2>2. /\ pc[p] = "iput" /\ iref' = [iref EXCEPT ![ip[p]] = @ - 1] /\ Goto(p, "run", 0, 0, 0, 0)
        /\ UNCHANGED <<ftable, ofile, ends, live, ff, np, panicked>>
    BY ZenonT(20) DEF Iput, Return
  <2>3. LocalsAt(p) /\ ip \in [Procs -> Inodes \cup {0}] /\ iref \in [Inodes -> Int]
    BY <2>1, ZenonT(20) DEF Locals, Types
  <2>4. p \in live /\ rf[p] = 0 /\ wf[p] = 0 /\ ip[p] # 0 /\ fd[p] = 0 /\ ff[p].type = "none"
    BY <2>2, <2>3, ZenonT(20) DEF LocalsAt
  <2> DEFINE i == ip[p]
  <2>5. i \in Inodes
    BY <2>3, <2>4, ZenonT(20)
  <2>6. pc'[p] = "run" /\ rf'[p] = 0 /\ wf'[p] = 0 /\ ip'[p] = 0 /\ fd'[p] = 0
    BY <2>1, <2>2, GotoLocals
  <2>7. Others(p)
    BY <2>1, <2>2, GotoOthers, ZenonT(20)
  <2>8. Names' /\ \A x : nC(x)' = nC(x)
    BY <2>2, <2>4, <2>6, <2>7, NamesKept, ZenonT(20)
  <2>9. LocalsAt(p)'
    BY <2>2, <2>4, <2>6, ZenonT(20) DEF LocalsAt
  <2>10. Types' /\ Locals' /\ Forks'
    <3>1. "run" \in Labels /\ "run" # "fork" /\ pc[p] # "fork" /\ 0 \in Files \cup {0} /\ 0 \in Inodes \cup {0} /\ 0 \in Fds \cup {0}
      BY <2>2, ZenonT(20) DEF Labels
    <3>2. ftable' \in [Files -> File] /\ ends' \in [Pipes -> SUBSET BOOLEAN] /\ ofile' \in [Procs -> [Fds -> Files \cup {0}]]
      BY <2>1, <2>2, ZenonT(20) DEF Types
    <3>3. iref' \in [Inodes -> Int]
      BY <2>2, <2>3, <2>5
    <3> QED BY <2>2, <2>9, <3>1, <3>2, <3>3, Frame, ZenonT(20)
  <2>11. Goto(p, "run", rf[p], wf[p], 0, 0)
    BY <2>2, <2>4, ZenonT(20)
  <2>12. RefsExact'
    BY <2>1, <2>2, <2>8, <2>11, RefsSame, ZenonT(20)
  <2>13. InodesExact'
    <3>0. \A x : nH(ip', x) = nH(ip, x) - One(ip[p] = x) + One(0 = x) /\ nH(ip, x) \in Nat
      BY <2>1, <2>2, GotoHolds
    <3>1. \A j : nI(ftable, j) \in Nat /\ nI(ff, j) \in Nat
      <4>1. DOMAIN ftable = Files /\ DOMAIN ff = Procs
        BY <2>1, ZenonT(20) DEF Types
      <4> QED BY <4>1, ObjSmall
    <3> SUFFICES ASSUME NEW j \in Inodes PROVE iref'[j] = nI(ftable, j) + nI(ff, j) + nH(ip', j)
      BY <2>2, ZenonT(20) DEF InodesExact
    <3>2. iref[j] = nI(ftable, j) + nI(ff, j) + nH(ip, j) /\ nI(ftable, j) \in Nat /\ nI(ff, j) \in Nat /\ nH(ip, j) \in Nat
      BY <2>1, <3>0, <3>1, ZenonT(20) DEF InodesExact
    <3>3. nH(ip', j) = nH(ip, j) - One(i = j)
      <4>1. j # 0
        BY ZenonT(20) DEF FileTableSizes
      <4>2. nH(ip', j) = nH(ip, j) - One(i = j) + One(0 = j)
        BY <3>0, ZenonT(20)
      <4> HIDE DEF i
      <4> QED BY <3>2, <4>1, <4>2 DEF One
    <3>4. iref'[j] = iref[j] - One(i = j)
      BY <2>2, <2>3, <2>5 DEF One
    <3>5. One(i = j) \in Nat
      BY ZenonT(20) DEF One
    <3>6. (nI(ftable, j) + nI(ff, j) + nH(ip, j)) - One(i = j) = nI(ftable, j) + nI(ff, j) + (nH(ip, j) - One(i = j))
      BY <3>2, <3>5
    <3> QED BY <3>2, <3>3, <3>4, <3>6, ZenonT(20)
  <2>14. SameObjects(ftable, ftable')
    BY <2>2, ZenonT(20) DEF SameObjects
  <2>15. PipesExact'
    BY <2>1, <2>2, <2>14, PipesKept, ZenonT(20)
  <2> QED BY <2>1, <2>2, <2>8, <2>10, <2>12, <2>13, <2>15, ZenonT(20) DEF FileInv, AllFit
<1> QED BY <1>FieldsStep, <1>OpenStep, <1>IputStep, ZenonT(20)

\* sys_pipe without a pipe.
LEMMA PipeSteps ==
  ASSUME Counting, FileTableSizes
  PROVE  /\ \A p \in Procs : FileInv /\ Pipe(p) => FileInv'
         /\ \A p \in Procs : FileInv /\ PipeFails(p) => FileInv'
<1>PipeStep. ASSUME Counting, FileTableSizes, FileInv, NEW p \in Procs, Pipe(p)
                  PROVE  FileInv'
  <2> USE <1>PipeStep
  <2>1. Types /\ AllFit /\ Locals /\ Forks /\ Names /\ RefsExact /\ InodesExact /\ PipesExact /\ ~panicked
    BY ZenonT(20) DEF FileInv
  <2>2. Idle(p) /\ UNCHANGED <<ofile, iref, ends, live, ff, np, panicked>>
    BY ZenonT(20) DEF Pipe
  <2>3. PICK f \in Files : filealloc(f) /\ ftable' = [ftable EXCEPT ![f].ref = 1] /\ Goto(p, "pipe", f, 0, 0, 0)
    BY ZenonT(20) DEF Pipe
  <2>4. p \in live /\ pc[p] = "run" /\ rf[p] = 0 /\ wf[p] = 0 /\ ip[p] = 0 /\ fd[p] = 0 /\ ff[p].type = "none"
    BY <2>2, AtRun, ZenonT(20)
  <2>5. pc'[p] = "pipe" /\ rf'[p] = f /\ wf'[p] = 0 /\ ip'[p] = 0 /\ fd'[p] = 0
    BY <2>1, <2>3, GotoLocals
  <2>6. Others(p)
    BY <2>1, <2>2, <2>3, GotoOthers, ZenonT(20)
  <2>7. /\ f # 0 /\ ftable[f] = NoFile /\ ftable' \in [Files -> File] /\ (\A x \in Files : Fits(ftable'[x]))
        /\ SameObjects(ftable, ftable') /\ (\A x \in Files : ftable'[x].type = ftable[x].type)
    BY <2>1, <2>3, Alloc, ZenonT(20)
  <2>8. Names' /\ \A x : nC(x)' = nC(x)
    <3>1. ftable'[f].type = "none"
      BY <2>7 DEF NoFile
    <3>2. pc'[p] # "fields" /\ pc'[p] # "dup" /\ (pc'[p] = "pipe" => ftable'[rf'[p]].type = "none")
      BY <2>5, <3>1, ZenonT(20)
    <3> QED BY <2>2, <2>4, <2>5, <2>6, <2>7, <3>2, NamesKept, ZenonT(20)
  <2>9. LocalsAt(p)'
    BY <2>2, <2>4, <2>5, <2>7, ZenonT(20) DEF LocalsAt
  <2>a. "pipe" \in Labels /\ "pipe" # "fork" /\ pc[p] # "fork" /\ f \in Files \cup {0} /\ 0 \in Files \cup {0} /\ 0 \in Inodes \cup {0}
        /\ 0 \in Fds \cup {0}
    BY <2>4, ZenonT(20) DEF Labels
  <2>10. Types' /\ Locals' /\ Forks'
    <3>2. iref' \in [Inodes -> Int] /\ ends' \in [Pipes -> SUBSET BOOLEAN] /\ ofile' \in [Procs -> [Fds -> Files \cup {0}]]
      BY <2>1, <2>2, ZenonT(20) DEF Types
    <3> QED BY <2>2, <2>3, <2>7, <2>9, <2>a, <3>2, Frame, ZenonT(20)
  <2>11. RefsExact'
    BY <2>3, <2>4, <2>8, <2>a, TakesFile, ZenonT(20)
  <2>12. InodesExact' /\ PipesExact'
    <3>1. Goto(p, "pipe", f, 0, ip[p], 0)
      BY <2>3, <2>4, ZenonT(20)
    <3> QED BY <2>1, <2>2, <2>7, <3>1, InodesSame, PipesKept, ZenonT(20)
  <2> QED BY <2>1, <2>2, <2>7, <2>8, <2>10, <2>11, <2>12, ZenonT(20) DEF FileInv, AllFit
\* It closes what it has: rf, and w if it is not 0.
<1>PipeGivesUp.
  ASSUME Counting, FileTableSizes, FileInv, NEW p \in Procs, pc[p] = "pipe", NEW w, w \in Files \cup {0},
         Goto(p, "close", rf[p], w, 0, 0), UNCHANGED <<ofile, iref, ends, live, ff, np, panicked>>,
         ftable' \in [Files -> File], \A x \in Files : Fits(ftable'[x]),
         SameObjects(ftable, ftable'), \A x \in Files : ftable'[x].type = ftable[x].type,
         \A x \in Files : ftable'[x].ref = ftable[x].ref + One(w = x) /\ (ftable'[x].ref = 0 => ftable'[x] = NoFile)
  PROVE  FileInv'
  <2> USE <1>PipeGivesUp
  <2>1. Types /\ AllFit /\ Locals /\ Forks /\ Names /\ RefsExact /\ InodesExact /\ PipesExact /\ ~panicked
    BY ZenonT(20) DEF FileInv
  <2>2. p \in live /\ rf[p] \in Files /\ rf[p] # 0 /\ wf[p] = 0 /\ ip[p] = 0 /\ fd[p] = 0 /\ ff[p].type = "none"
    BY AtPipe, ZenonT(20)
  <2>3. pc'[p] = "close" /\ rf'[p] = rf[p] /\ wf'[p] = w /\ ip'[p] = 0 /\ fd'[p] = 0
    BY <2>1, GotoLocals
  <2>4. Others(p)
    BY <2>1, GotoOthers, ZenonT(20)
  <2>5. Names' /\ \A x : nC(x)' = nC(x)
    <3>1. pc'[p] # "fields" /\ pc'[p] # "dup" /\ (pc'[p] = "pipe" => ftable'[rf'[p]].type = "none")
      BY <2>3, ZenonT(20)
    <3> QED BY <2>2, <2>3, <2>4, <3>1, NamesKept, ZenonT(20)
  <2>6. LocalsAt(p)'
    BY <2>2, <2>3, ZenonT(20) DEF LocalsAt
  <2>7. Types' /\ Locals' /\ Forks'
    <3>1. "close" \in Labels /\ "close" # "fork" /\ pc[p] # "fork" /\ rf[p] \in Files \cup {0} /\ 0 \in Inodes \cup {0} /\ 0 \in Fds \cup {0}
      BY <2>2, ZenonT(20) DEF Labels
    <3>2. iref' \in [Inodes -> Int] /\ ends' \in [Pipes -> SUBSET BOOLEAN] /\ ofile' \in [Procs -> [Fds -> Files \cup {0}]]
      BY <2>1, ZenonT(20) DEF Types
    <3> QED BY <2>6, <3>1, <3>2, Frame, ZenonT(20)
  <2>8. RefsExact'
    <3>1. ASSUME NEW x \in Files
          PROVE  /\ nC(x)' \in Int
                 /\ ftable'[x].ref = ftable[x].ref + (nC(x)' - nC(x)) - One(rf[p] = x) + One(rf[p] = x) - One(wf[p] = x) + One(w = x)
                 /\ ftable'[x].ref = 0 => ftable'[x] = NoFile
      <4>1. x # 0 /\ nC(x) \in Nat /\ ftable[x].ref \in Nat
        BY <2>1, CountedSmall, RefNat, ZenonT(20)
      <4>2. nC(x)' = nC(x) /\ ftable'[x].ref = ftable[x].ref + One(w = x)
        BY <2>5, ZenonT(20)
      <4>3. One(rf[p] = x) \in Int /\ One(w = x) \in Int /\ One(wf[p] = x) = 0
        BY <2>2, <4>1 DEF One
      <4>4. ftable'[x].ref = 0 => ftable'[x] = NoFile
        BY ZenonT(20)
      <4> QED BY <4>1, <4>2, <4>3, <4>4
    <3>2. Balanced(p, rf[p], w)
      BY <3>1, ZenonT(20) DEF Balanced
    <3> QED BY <2>1, <3>2, RefsBalance, ZenonT(20)
  <2>9. InodesExact' /\ PipesExact'
    <3>1. Goto(p, "close", rf[p], w, ip[p], 0)
      BY <2>2, ZenonT(20)
    <3> QED BY <2>1, <3>1, InodesSame, PipesKept, ZenonT(20)
  <2> QED BY <2>1, <2>5, <2>7, <2>8, <2>9, ZenonT(20) DEF FileInv, AllFit
<1>PipeFailsStep. ASSUME Counting, FileTableSizes, FileInv, NEW p \in Procs, PipeFails(p)
                       PROVE  FileInv'
  <2> USE <1>PipeFailsStep
  <2>1. pc[p] = "pipe" /\ UNCHANGED <<ofile, iref, ends, live, ff, np, panicked>> /\ Types /\ AllFit /\ RefsExact
    BY ZenonT(20) DEF PipeFails, FileInv
  <2>2. CASE Goto(p, "close", rf[p], 0, 0, 0) /\ UNCHANGED ftable
    <3>1. ftable' \in [Files -> File] /\ (\A x \in Files : Fits(ftable'[x])) /\ SameObjects(ftable, ftable')
      BY <2>1, <2>2, ZenonT(20) DEF Types, AllFit, SameObjects
    <3>2. ASSUME NEW x \in Files PROVE ftable'[x].ref = ftable[x].ref + One(0 = x) /\ (ftable'[x].ref = 0 => ftable'[x] = NoFile)
      <4>0. ftable[x] \in File
        BY <2>1, ZenonT(20) DEF Types
      <4>1. x # 0 /\ ftable[x].ref \in Nat
        BY <4>0 DEF Files, File
      <4>4. ftable[x].ref = 0 => ftable[x] = NoFile
        BY <2>1, ZenonT(20) DEF RefsExact
      <4>2. One(0 = x) = 0
        BY <4>1, ZenonT(20) DEF One
      <4>3. ftable'[x] = ftable[x]
        BY <2>2, ZenonT(20)
      <4> QED BY <4>1, <4>2, <4>3, <4>4
    <3>3. \A x \in Files : ftable'[x].type = ftable[x].type
      BY <2>2, ZenonT(20)
    <3> DEFINE w == 0
    <3>4. w \in Files \cup {0} /\ Goto(p, "close", rf[p], w, 0, 0)
      BY <2>2, ZenonT(20)
    <3>5. \A x \in Files : ftable'[x].ref = ftable[x].ref + One(w = x) /\ (ftable'[x].ref = 0 => ftable'[x] = NoFile)
      BY <3>2, ZenonT(20)
    <3> HIDE DEF w
    <3> QED BY <2>1, <2>2, <3>1, <3>3, <3>4, <3>5, <1>PipeGivesUp, ZenonT(20)
  <2>3. ASSUME NEW f \in Files, filealloc(f), ftable' = [ftable EXCEPT ![f].ref = 1], Goto(p, "close", rf[p], f, 0, 0)
        PROVE  FileInv'
    <3>1. /\ f # 0 /\ ftable[f] = NoFile /\ ftable' \in [Files -> File] /\ (\A x \in Files : Fits(ftable'[x]))
          /\ SameObjects(ftable, ftable') /\ (\A x \in Files : ftable'[x].type = ftable[x].type)
          /\ \A x \in Files : ftable'[x].ref = ftable[x].ref + One(x = f)
      BY <2>1, <2>3, Alloc, ZenonT(20)
    <3>2. ASSUME NEW x \in Files PROVE ftable'[x].ref = ftable[x].ref + One(f = x) /\ (ftable'[x].ref = 0 => ftable'[x] = NoFile)
      <4>1. ftable'[x].ref = ftable[x].ref + One(x = f) /\ ftable[x].ref \in Nat /\ (ftable[x].ref = 0 => ftable[x] = NoFile)
        BY <2>1, <3>1, ZenonT(20) DEF Types, File, RefsExact
      <4>2. x # f => ftable'[x] = ftable[x]
        BY <2>1, <2>3, ZenonT(20) DEF Types
      <4> QED BY <4>1, <4>2 DEF One
    <3>3. f \in Files \cup {0}
      BY <2>3, ZenonT(20)
    <3> QED BY <2>1, <2>3, <3>1, <3>2, <3>3, <1>PipeGivesUp, ZenonT(20)
  <2> QED BY <2>2, <2>3, ZenonT(20) DEF PipeFails
<1> QED BY <1>PipeStep, <1>PipeFailsStep, ZenonT(20)

LEMMA DupStep == ASSUME Counting, FileTableSizes, FileInv, NEW p \in Procs, NEW d \in Fds, Dup(p, d)
                 PROVE  FileInv'
<1>1. Types /\ AllFit /\ Locals /\ Forks /\ Names /\ RefsExact /\ InodesExact /\ PipesExact /\ ~panicked
  BY ZenonT(20) DEF FileInv
<1>2. Idle(p) /\ ofile[p][d] # 0 /\ UNCHANGED <<ftable, iref, ends, live, ff, np, panicked>>
  BY ZenonT(20) DEF Dup
<1>3. PICK e \in Fds : /\ fdalloc(p, e) /\ ofile' = [ofile EXCEPT ![p][e] = ofile[p][d]]
                       /\ Goto(p, "dup", 0, 0, 0, e)
  BY ZenonT(20) DEF Dup
<1>4. /\ p \in live /\ pc[p] = "run" /\ rf[p] = 0 /\ wf[p] = 0 /\ ip[p] = 0 /\ fd[p] = 0 /\ ff[p].type = "none"
  BY <1>2, AtRun, ZenonT(20)
<1>5. pc'[p] = "dup" /\ rf'[p] = 0 /\ wf'[p] = 0 /\ ip'[p] = 0 /\ fd'[p] = e
  BY <1>1, <1>3, GotoLocals
<1>6. Others(p)
  BY <1>1, <1>2, <1>3, GotoOthers, ZenonT(20)
<1>7. ofile[p][e] = 0 /\ ofile[p][d] \in Files /\ e # 0
  <2>1. ofile[p][e] = 0
    BY <1>3, ZenonT(20) DEF fdalloc, First, Free
  <2>2. ofile[p] \in [Fds -> Files \cup {0}]
    BY <1>1, ZenonT(20) DEF Types
  <2>3. e # 0
    BY DEF Fds
  <2> QED BY <1>2, <2>1, <2>2, <2>3, ZenonT(20)
<1>8. Names' /\ (\A x \in Files : nC(x)' = nC(x)) /\ ofile' \in [Procs -> [Fds -> Files \cup {0}]]
  <2>1. \A x \in Files : ftable'[x].type = ftable[x].type
    BY <1>2, ZenonT(20)
  <2> QED BY <1>3, <1>4, <1>5, <1>6, <1>7, <2>1, NamesApart, ZenonT(20)
<1>9. LocalsAt(p)'
  BY <1>2, <1>4, <1>5, <1>7, ZenonT(20) DEF LocalsAt
<1>10. Types' /\ Locals' /\ Forks'
  <2>1. "dup" \in Labels /\ "dup" # "fork" /\ pc[p] # "fork" /\ 0 \in Files \cup {0} /\ 0 \in Inodes \cup {0} /\ e \in Fds \cup {0}
    BY <1>4, ZenonT(20) DEF Labels
  <2>2. ftable' \in [Files -> File] /\ iref' \in [Inodes -> Int] /\ ends' \in [Pipes -> SUBSET BOOLEAN]
    BY <1>1, <1>2, ZenonT(20) DEF Types
  <2> QED BY <1>2, <1>3, <1>8, <1>9, <2>1, <2>2, Frame, ZenonT(20)
<1>11. Goto(p, "dup", rf[p], wf[p], ip[p], e)
  BY <1>3, <1>4, ZenonT(20)
<1>12. RefsExact'
  BY <1>1, <1>2, <1>8, <1>11, RefsSame, ZenonT(20)
<1>13. SameObjects(ftable, ftable')
  BY <1>2, ZenonT(20) DEF SameObjects
<1>14. InodesExact'
  BY <1>1, <1>2, <1>11, <1>13, InodesSame, ZenonT(20)
<1>15. PipesExact'
  BY <1>1, <1>2, <1>13, PipesKept, ZenonT(20)
<1> QED BY <1>1, <1>2, <1>8, <1>10, <1>12, <1>14, <1>15, ZenonT(20) DEF FileInv, AllFit

LEMMA DupCountsStep == ASSUME Counting, FileTableSizes, FileInv, NEW p \in Procs, DupCounts(p)
                       PROVE  FileInv'
<1>1. Types /\ AllFit /\ Locals /\ Forks /\ Names /\ RefsExact /\ InodesExact /\ PipesExact /\ ~panicked
  BY ZenonT(20) DEF FileInv
<1>2. /\ pc[p] = "dup" /\ filedup(ofile[p][fd[p]]) /\ Goto(p, "run", 0, 0, 0, 0)
      /\ UNCHANGED <<ofile, iref, ends, live, ff, np>>
  BY ZenonT(20) DEF DupCounts, Return
<1>3. LocalsAt(p) /\ NamesAt(p) /\ ofile[p] \in [Fds -> Files \cup {0}] /\ fd \in [Procs -> Fds \cup {0}]
  BY <1>1, ZenonT(20) DEF Locals, Names, Types
<1>4. p \in live /\ rf[p] = 0 /\ wf[p] = 0 /\ ip[p] = 0 /\ fd[p] # 0 /\ ff[p].type = "none"
  BY <1>2, <1>3, ZenonT(20) DEF LocalsAt
<1> DEFINE d == fd[p]
           f == ofile[p][d]
<1>5. d \in Fds /\ f \in Files
  <2>1. d \in Fds /\ f # 0
    BY <1>3, <1>4, ZenonT(20) DEF NamesAt
  <2> QED BY <1>3, <2>1, ZenonT(20)
<1>6. \A e \in Fds : ofile[p][e] # 0 => ftable[ofile[p][e]].type # "none"
  <2>1. PICK e \in Fds : e # d /\ ofile[p][e] = f
    BY <1>2, <1>3, ZenonT(20) DEF NamesAt
  <2>2. f # 0
    BY <1>5, NotZero, ZenonT(20)
  <2>3. ftable[f].type # "none"
    BY <1>3, <2>1, <2>2, ZenonT(20) DEF NamesAt
  <2> QED BY <1>3, <2>3, ZenonT(20) DEF NamesAt
<1>7. /\ ftable' \in [Files -> File] /\ (\A x \in Files : Fits(ftable'[x])) /\ ~panicked'
      /\ SameObjects(ftable, ftable') /\ (\A x \in Files : ftable'[x].type = ftable[x].type)
      /\ \A x \in Files : ftable'[x].ref = ftable[x].ref + One(x = f)
  <2>1. ftable[f].type # "none"
    <3>1. f # 0
      BY <1>5, NotZero, ZenonT(20)
    <3> QED BY <1>5, <1>6, <3>1, ZenonT(20)
  <2> QED BY <1>1, <1>2, <1>5, <2>1, More, ZenonT(20)
<1>8. pc'[p] = "run" /\ rf'[p] = 0 /\ wf'[p] = 0 /\ ip'[p] = 0 /\ fd'[p] = 0
  BY <1>1, <1>2, GotoLocals
<1>9. Others(p)
  BY <1>1, <1>2, GotoOthers, ZenonT(20)
<1>10. Names'
  <2>1. ASSUME NEW e \in Fds, ofile'[p][e] # 0 PROVE ftable'[ofile'[p][e]].type # "none"
    <3>1. ofile'[p][e] = ofile[p][e] /\ ofile[p][e] \in Files
      BY <1>2, <1>3, <2>1, ZenonT(20)
    <3> QED BY <1>6, <1>7, <2>1, <3>1, ZenonT(20)
  <2>2. pc'[p] # "fields" /\ pc'[p] # "dup" /\ pc'[p] # "pipe"
    BY <1>8, ZenonT(20)
  <2>3. NamesAt(p)'
    BY <1>8, <2>1, <2>2, NamesClean, ZenonT(20)
  <2> QED BY <1>1, <1>2, <1>7, <1>9, <2>3, OthersNames, ZenonT(20)
<1>11. LocalsAt(p)'
  BY <1>2, <1>4, <1>8, ZenonT(20) DEF LocalsAt
<1>12. Types' /\ Locals' /\ Forks'
  <2>1. "run" \in Labels /\ "run" # "fork" /\ pc[p] # "fork" /\ 0 \in Files \cup {0} /\ 0 \in Inodes \cup {0} /\ 0 \in Fds \cup {0}
    BY <1>2, ZenonT(20) DEF Labels
  <2>2. iref' \in [Inodes -> Int] /\ ends' \in [Pipes -> SUBSET BOOLEAN] /\ ofile' \in [Procs -> [Fds -> Files \cup {0}]]
    BY <1>1, <1>2, ZenonT(20) DEF Types
  <2> QED BY <1>2, <1>7, <1>11, <2>1, <2>2, Frame, ZenonT(20)
<1>13. RefsExact'
  <2>1. (fd[p] = 0 \/ fd[p] = d) /\ (fd'[p] = 0 \/ fd'[p] = d) /\ fd'[p] # d
    BY <1>4, <1>8, ZenonT(20)
  <2>2. \A x \in Files : nC(x)' = nC(x) - One(ofile[p][d] = x /\ fd[p] # d) + One(ofile'[p][d] = x /\ fd'[p] # d)
    <3>1. (\A q \in Procs : q # p => ofile'[q] = ofile[q]) /\ (\A e \in Fds : e # d => ofile'[p][e] = ofile[p][e])
      BY <1>2, ZenonT(20)
    <3> QED BY <1>5, <1>9, <2>1, <3>1, OneDescriptor, ZenonT(20)
  <2>3. ASSUME NEW x \in Files
        PROVE  /\ nC(x)' \in Int
               /\ ftable'[x].ref = ftable[x].ref + (nC(x)' - nC(x)) - One(rf[p] = x) + One(0 = x) - One(wf[p] = x) + One(0 = x)
               /\ ftable'[x].ref = 0 => ftable'[x] = NoFile
    <3>1. x # 0 /\ nC(x) \in Nat /\ ftable[x].ref \in Nat
      BY <1>1, CountedSmall, RefNat, ZenonT(20)
    <3>2. nC(x)' = nC(x) + One(x = f)
      <4>1. One(ofile[p][d] = x /\ fd[p] # d) = 0 /\ One(ofile'[p][d] = x /\ fd'[p] # d) = One(x = f) /\ One(x = f) \in Nat
        BY <1>2, <2>1, ZenonT(20) DEF One
      <4>2. nC(x)' = nC(x) - 0 + One(x = f)
        BY <2>2, <4>1, ZenonT(20)
      <4> HIDE DEF d, f
      <4> QED BY <3>1, <4>1, <4>2
    <3>3. ftable'[x].ref = ftable[x].ref + One(x = f)
      BY <1>7, ZenonT(20)
    <3>4. ftable'[x].ref = 0 => ftable'[x] = NoFile
      <4>1. x # f => ftable'[x] = ftable[x]
        BY <1>1, <1>2, ZenonT(20) DEF filedup, Types
      <4>2. x = f => ftable'[x].ref # 0
        BY <3>1, <3>3 DEF One
      <4> QED BY <1>1, <4>1, <4>2, ZenonT(20) DEF RefsExact
    <3> HIDE DEF f
    <3>5. One(rf[p] = x) = 0 /\ One(wf[p] = x) = 0 /\ One(0 = x) = 0 /\ One(x = f) \in Nat
      BY <1>4, <3>1, ZenonT(20) DEF One
    <3>6. nC(x)' \in Int /\ ftable'[x].ref = ftable[x].ref + (nC(x)' - nC(x)) - 0 + 0 - 0 + 0
      BY <3>1, <3>2, <3>3, <3>5
    <3> QED BY <3>4, <3>5, <3>6, ZenonT(20)
  <2>4. Balanced(p, 0, 0)
    BY <2>3, ZenonT(20) DEF Balanced
  <2> QED BY <1>1, <1>2, <2>4, RefsBalance, ZenonT(20)
<1>14. InodesExact' /\ PipesExact'
  <2>1. Goto(p, "run", 0, 0, ip[p], 0)
    BY <1>2, <1>4, ZenonT(20)
  <2> QED BY <1>1, <1>2, <1>7, <2>1, InodesSame, PipesKept, ZenonT(20)
<1> QED BY <1>1, <1>2, <1>7, <1>10, <1>12, <1>13, <1>14, ZenonT(20) DEF FileInv, AllFit

\* close and exit.
LEMMA ExitSteps ==
  ASSUME Counting, FileTableSizes
  PROVE  /\ \A p \in Procs, d \in Fds : FileInv /\ Close(p, d) => FileInv'
         /\ \A p \in Procs : FileInv /\ ExitClose(p) => FileInv'
         /\ \A p \in Procs : FileInv /\ Exit(p) => FileInv'
         /\ \A p \in Procs : FileInv /\ Clear(p) => FileInv'
         /\ \A p \in Procs : FileInv /\ Gone(p) => FileInv'
\* close and exit: the descriptor's reference becomes the call's.
<1>MovesRef.
  ASSUME Counting, Types, RefsExact, NEW p \in Procs, NEW d \in Fds, ofile[p][d] \in Files, fd[p] = 0, rf[p] = 0, wf[p] = 0,
         NEW l, NEW i, NEW e, Goto(p, l, ofile[p][d], 0, i, e), ff' = ff, ftable' = ftable,
         \A q \in Procs : q # p => ofile'[q] = ofile[q], \A c \in Fds : c # d => ofile'[p][c] = ofile[p][c],
         (ofile'[p][d] = 0 /\ e = 0) \/ e = d
  PROVE  RefsExact'
  <2> USE <1>MovesRef
  <2>1. Others(p) /\ fd'[p] = e
    <3>1. Others(p)
      BY GotoOthers, ZenonT(20)
    <3>2. fd'[p] = e
      BY ZenonT(20) DEF Goto, Types
    <3> QED BY <3>1, <3>2, ZenonT(20)
  <2>2. (fd[p] = 0 \/ fd[p] = d) /\ (fd'[p] = 0 \/ fd'[p] = d)
    BY <2>1, ZenonT(20)
  <2>3. \A x \in Files : nC(x)' = nC(x) - One(ofile[p][d] = x /\ fd[p] # d) + One(ofile'[p][d] = x /\ fd'[p] # d)
    BY <2>1, <2>2, OneDescriptor, ZenonT(20)
  <2> DEFINE f == ofile[p][d]
  <2>4. ASSUME NEW x \in Files
        PROVE  /\ nC(x)' \in Int
               /\ ftable'[x].ref = ftable[x].ref + (nC(x)' - nC(x)) - One(rf[p] = x) + One(f = x) - One(wf[p] = x) + One(0 = x)
               /\ ftable'[x].ref = 0 => ftable'[x] = NoFile
    <3>1. x # 0 /\ d # 0 /\ nC(x) \in Nat
      BY CountedSmall, NotZero, ZenonT(20)
    <3>2. ~(ofile'[p][d] = x /\ fd'[p] # d)
      BY <2>1, <3>1, ZenonT(20)
    <3>3. ofile[p][d] = x /\ fd[p] # d <=> f = x
      BY <3>1, ZenonT(20)
    <3>4. nC(x)' = nC(x) - One(f = x)
      BY <2>3, <3>1, <3>2, <3>3 DEF One
    <3>5. ftable[x].ref \in Nat /\ (ftable[x].ref = 0 => ftable[x] = NoFile)
      BY ZenonT(20) DEF Types, File, RefsExact
    <3>6. One(rf[p] = x) = 0 /\ One(wf[p] = x) = 0 /\ One(0 = x) = 0 /\ One(f = x) \in Nat
      BY <3>1, ZenonT(20) DEF One
    <3>7. ftable'[x] = ftable[x]
      BY ZenonT(20)
    <3> HIDE DEF f
    <3>8. nC(x)' \in Int /\ ftable[x].ref = ftable[x].ref + (nC(x)' - nC(x)) - 0 + One(f = x) - 0 + 0
      BY <3>1, <3>4, <3>5, <3>6
    <3> QED BY <3>5, <3>6, <3>7, <3>8, ZenonT(20)
  <2>5. Goto(p, l, f, 0, i, e)
    BY ZenonT(20)
  <2> HIDE DEF f
  <2>6. Balanced(p, f, 0)
    BY <2>4, ZenonT(20) DEF Balanced
  <2> QED BY <2>5, <2>6, RefsBalance, ZenonT(20)
<1>CloseStep. ASSUME Counting, FileTableSizes, FileInv, NEW p \in Procs, NEW d \in Fds, Close(p, d)
                   PROVE  FileInv'
  <2> USE <1>CloseStep
  <2>1. Types /\ AllFit /\ Locals /\ Forks /\ Names /\ RefsExact /\ InodesExact /\ PipesExact /\ ~panicked
    BY ZenonT(20) DEF FileInv
  <2>2. /\ Idle(p) /\ ofile[p][d] # 0 /\ ofile' = [ofile EXCEPT ![p][d] = 0]
        /\ UNCHANGED <<ftable, iref, ends, live, ff, np, panicked>>
        /\ Goto(p, "close", ofile[p][d], 0, 0, 0)
    BY ZenonT(20) DEF Close
  <2>3. ofile \in [Procs -> [Fds -> Files \cup {0}]]
    BY <2>1, ZenonT(20) DEF Types
  <2> DEFINE f == ofile[p][d]
  <2>4. f \in Files /\ f # 0
    BY <2>2, <2>3, ZenonT(20)
  <2>5. /\ p \in live /\ pc[p] = "run" /\ rf[p] = 0 /\ wf[p] = 0 /\ ip[p] = 0 /\ fd[p] = 0 /\ ff[p].type = "none"
        /\ \A e \in Fds : ofile[p][e] # 0 => ftable[ofile[p][e]].type # "none"
    BY <2>2, AtRun, ZenonT(20)
  <2>6. pc'[p] = "close" /\ rf'[p] = f /\ wf'[p] = 0 /\ ip'[p] = 0 /\ fd'[p] = 0
    BY <2>1, <2>2, GotoLocals
  <2>7. Others(p)
    BY <2>1, <2>2, GotoOthers, ZenonT(20)
  <2>8. /\ ofile'[p][d] = 0 /\ (\A e \in Fds : e # d => ofile'[p][e] = ofile[p][e]) /\ (\A q \in Procs : q # p => ofile'[q] = ofile[q])
        /\ ofile' \in [Procs -> [Fds -> Files \cup {0}]]
    BY <2>2, <2>3, ZenonT(20)
  <2>9. Names'
    <3>1. \A e \in Fds : ofile'[p][e] # 0 => ftable'[ofile'[p][e]].type # "none"
      BY <2>2, <2>5, <2>8, ZenonT(20)
    <3>2. pc'[p] # "fields" /\ pc'[p] # "dup" /\ pc'[p] # "pipe"
      BY <2>6, ZenonT(20)
    <3>3. NamesAt(p)'
      BY <2>6, <3>1, <3>2, NamesClean, ZenonT(20)
    <3>4. \A x \in Files : ftable'[x].type = ftable[x].type
      BY <2>2, ZenonT(20)
    <3> QED BY <2>1, <2>7, <2>8, <3>3, <3>4, OthersNames, ZenonT(20)
  <2>10. LocalsAt(p)'
    BY <2>2, <2>4, <2>5, <2>6, ZenonT(20) DEF LocalsAt
  <2>11. Types' /\ Locals' /\ Forks'
    <3>1. "close" \in Labels /\ "close" # "fork" /\ pc[p] # "fork" /\ f \in Files \cup {0} /\ 0 \in Files \cup {0} /\ 0 \in Inodes \cup {0}
          /\ 0 \in Fds \cup {0}
      BY <2>4, <2>5, ZenonT(20) DEF Labels
    <3>2. ftable' \in [Files -> File] /\ iref' \in [Inodes -> Int] /\ ends' \in [Pipes -> SUBSET BOOLEAN]
      BY <2>1, <2>2, ZenonT(20) DEF Types
    <3> QED BY <2>2, <2>8, <2>10, <3>1, <3>2, Frame, ZenonT(20)
  <2>12. RefsExact'
    <3>1. (ofile'[p][d] = 0 /\ 0 = 0) \/ 0 = d
      BY <2>8, ZenonT(20)
    <3>2. ofile[p][d] \in Files /\ fd[p] = 0 /\ rf[p] = 0 /\ wf[p] = 0 /\ ff' = ff /\ ftable' = ftable
      BY <2>2, <2>4, <2>5, ZenonT(20)
    <3>3. (\A q \in Procs : q # p => ofile'[q] = ofile[q]) /\ (\A c \in Fds : c # d => ofile'[p][c] = ofile[p][c])
      BY <2>8, ZenonT(20)
    <3>4. Goto(p, "close", ofile[p][d], 0, 0, 0)
      BY <2>2, ZenonT(20)
    <3> QED BY <2>1, <3>1, <3>2, <3>3, <3>4, <1>MovesRef, ZenonT(20)
  <2>13. SameObjects(ftable, ftable')
    BY <2>2, ZenonT(20) DEF SameObjects
  <2>14. InodesExact'
    <3>1. Goto(p, "close", f, 0, ip[p], 0)
      BY <2>2, <2>5, ZenonT(20)
    <3> QED BY <2>1, <2>2, <2>13, <3>1, InodesSame, ZenonT(20)
  <2>15. PipesExact'
    BY <2>1, <2>2, <2>13, PipesKept, ZenonT(20)
  <2> QED BY <2>1, <2>2, <2>9, <2>11, <2>12, <2>14, <2>15, ZenonT(20) DEF FileInv, AllFit
\* exit between two descriptors holds nothing.
<1>AtExit.
  ASSUME FileInv, NEW p \in Procs, pc[p] = "exit"
  PROVE  /\ p \in live /\ rf[p] = 0 /\ wf[p] = 0 /\ ip[p] = 0 /\ fd[p] = 0 /\ ff[p].type = "none"
         /\ \A d \in Fds : ofile[p][d] # 0 => ftable[ofile[p][d]].type # "none"
  <2> USE <1>AtExit
  <2>1. LocalsAt(p) /\ NamesAt(p)
    BY ZenonT(20) DEF FileInv, Locals, Names
  <2>2. p \in live /\ rf[p] = 0 /\ wf[p] = 0 /\ ip[p] = 0 /\ fd[p] = 0 /\ ff[p].type = "none"
    BY <2>1, ZenonT(20) DEF LocalsAt
  <2>3. \A d \in Fds : d # 0
    BY DEF Fds
  <2> QED BY <2>1, <2>2, <2>3, ZenonT(20) DEF NamesAt
<1>ExitCloseStep. ASSUME Counting, FileTableSizes, FileInv, NEW p \in Procs, ExitClose(p)
                       PROVE  FileInv'
  <2> USE <1>ExitCloseStep
  <2>1. Types /\ AllFit /\ Locals /\ Forks /\ Names /\ RefsExact /\ InodesExact /\ PipesExact /\ ~panicked
    BY ZenonT(20) DEF FileInv
  <2>2. pc[p] = "exit" /\ UNCHANGED <<ftable, ofile, iref, ends, live, ff, np, panicked>>
    BY ZenonT(20) DEF ExitClose
  <2>3. PICK d \in Fds : First(d, Fds \ Free(p)) /\ Goto(p, "close", ofile[p][d], 0, 0, d)
    BY ZenonT(20) DEF ExitClose
  <2> DEFINE f == ofile[p][d]
  <2>4. f \in Files /\ f # 0 /\ d # 0
    <3>1. ofile[p] \in [Fds -> Files \cup {0}]
      BY <2>1, ZenonT(20) DEF Types
    <3>2. f # 0
      BY <2>3, ZenonT(20) DEF First, Free
    <3>3. d # 0
      BY DEF Fds
    <3> QED BY <3>1, <3>2, <3>3
  <2>5. /\ p \in live /\ rf[p] = 0 /\ wf[p] = 0 /\ ip[p] = 0 /\ fd[p] = 0 /\ ff[p].type = "none"
        /\ \A e \in Fds : ofile[p][e] # 0 => ftable[ofile[p][e]].type # "none"
    BY <2>2, <1>AtExit, ZenonT(20)
  <2>6. pc'[p] = "close" /\ rf'[p] = f /\ wf'[p] = 0 /\ ip'[p] = 0 /\ fd'[p] = d
    BY <2>1, <2>3, GotoLocals
  <2>7. Others(p)
    BY <2>1, <2>2, <2>3, GotoOthers, ZenonT(20)
  <2>9. Names'
    <3>1. \A e \in Fds : ofile'[p][e] # 0 => ftable'[ofile'[p][e]].type # "none"
      BY <2>2, <2>5, ZenonT(20)
    <3>2. pc'[p] # "fields" /\ pc'[p] # "dup" /\ pc'[p] # "pipe"
      BY <2>6, ZenonT(20)
    <3>3. NamesAt(p)'
      BY <2>2, <2>4, <2>6, <3>1, <3>2, ZenonT(20) DEF NamesAt
    <3>4. \A x \in Files : ftable'[x].type = ftable[x].type
      BY <2>2, ZenonT(20)
    <3> QED BY <2>1, <2>2, <2>7, <3>3, <3>4, OthersNames, ZenonT(20)
  <2>10. LocalsAt(p)'
    BY <2>2, <2>4, <2>5, <2>6, ZenonT(20) DEF LocalsAt
  <2>11. Types' /\ Locals' /\ Forks'
    <3>1. "close" \in Labels /\ "close" # "fork" /\ pc[p] # "fork" /\ f \in Files \cup {0} /\ 0 \in Files \cup {0} /\ 0 \in Inodes \cup {0}
          /\ d \in Fds \cup {0}
      BY <2>2, <2>4, ZenonT(20) DEF Labels
    <3>2. /\ ftable' \in [Files -> File] /\ iref' \in [Inodes -> Int] /\ ends' \in [Pipes -> SUBSET BOOLEAN]
          /\ ofile' \in [Procs -> [Fds -> Files \cup {0}]]
      BY <2>1, <2>2, ZenonT(20) DEF Types
    <3> QED BY <2>2, <2>3, <2>10, <3>1, <3>2, Frame, ZenonT(20)
  <2>12. RefsExact'
    BY <2>1, <2>2, <2>3, <2>4, <2>5, <1>MovesRef, ZenonT(20)
  <2>13. SameObjects(ftable, ftable')
    BY <2>2, ZenonT(20) DEF SameObjects
  <2>14. InodesExact'
    <3>1. Goto(p, "close", f, 0, ip[p], d)
      BY <2>3, <2>5, ZenonT(20)
    <3> QED BY <2>1, <2>2, <2>13, <3>1, InodesSame, ZenonT(20)
  <2>15. PipesExact'
    BY <2>1, <2>2, <2>13, PipesKept, ZenonT(20)
  <2> QED BY <2>1, <2>2, <2>9, <2>11, <2>12, <2>14, <2>15, ZenonT(20) DEF FileInv, AllFit
<1>ExitStep. ASSUME Counting, FileTableSizes, FileInv, NEW p \in Procs, Exit(p)
                  PROVE  FileInv'
  <2> USE <1>ExitStep
  <2>1. Types /\ AllFit /\ Locals /\ Forks /\ Names /\ RefsExact /\ InodesExact /\ PipesExact /\ ~panicked
    BY ZenonT(20) DEF FileInv
  <2>2. Idle(p) /\ Goto(p, "exit", 0, 0, 0, 0) /\ UNCHANGED <<ftable, ofile, iref, ends, live, ff, np, panicked>>
    BY ZenonT(20) DEF Exit
  <2>3. p \in live /\ pc[p] = "run" /\ rf[p] = 0 /\ wf[p] = 0 /\ ip[p] = 0 /\ fd[p] = 0 /\ ff[p].type = "none"
    BY <2>2, AtRun, ZenonT(20)
  <2>4. pc'[p] = "exit" /\ rf'[p] = 0 /\ wf'[p] = 0 /\ ip'[p] = 0 /\ fd'[p] = 0
    BY <2>1, <2>2, GotoLocals
  <2>5. Others(p)
    BY <2>1, <2>2, GotoOthers, ZenonT(20)
  <2>6. Names' /\ \A x : nC(x)' = nC(x)
    BY <2>2, <2>3, <2>4, <2>5, NamesKept, ZenonT(20)
  <2>7. LocalsAt(p)'
    BY <2>2, <2>3, <2>4, ZenonT(20) DEF LocalsAt
  <2>8. Types' /\ Locals' /\ Forks'
    <3>1. "exit" \in Labels /\ "exit" # "fork" /\ pc[p] # "fork" /\ 0 \in Files \cup {0} /\ 0 \in Inodes \cup {0} /\ 0 \in Fds \cup {0}
      BY <2>3, ZenonT(20) DEF Labels
    <3>2. /\ ftable' \in [Files -> File] /\ iref' \in [Inodes -> Int] /\ ends' \in [Pipes -> SUBSET BOOLEAN]
          /\ ofile' \in [Procs -> [Fds -> Files \cup {0}]]
      BY <2>1, <2>2, ZenonT(20) DEF Types
    <3> QED BY <2>2, <2>7, <3>1, <3>2, Frame, ZenonT(20)
  <2>9. Goto(p, "exit", rf[p], wf[p], ip[p], 0)
    BY <2>2, <2>3, ZenonT(20)
  <2>10. RefsExact'
    BY <2>1, <2>2, <2>6, <2>9, RefsSame, ZenonT(20)
  <2>11. SameObjects(ftable, ftable')
    BY <2>2, ZenonT(20) DEF SameObjects
  <2>12. InodesExact' /\ PipesExact'
    BY <2>1, <2>2, <2>9, <2>11, InodesSame, PipesKept, ZenonT(20)
  <2> QED BY <2>1, <2>2, <2>6, <2>8, <2>10, <2>12, ZenonT(20) DEF FileInv, AllFit
<1>ClearStep. ASSUME Counting, FileTableSizes, FileInv, NEW p \in Procs, Clear(p)
                   PROVE  FileInv'
  <2> USE <1>ClearStep
  <2>1. Types /\ AllFit /\ Locals /\ Forks /\ Names /\ RefsExact /\ InodesExact /\ PipesExact /\ ~panicked
    BY ZenonT(20) DEF FileInv
  <2>2. /\ pc[p] = "clear" /\ ofile' = [ofile EXCEPT ![p][fd[p]] = 0] /\ Goto(p, "exit", 0, 0, 0, 0)
        /\ UNCHANGED <<ftable, iref, ends, live, ff, np, panicked>>
    BY ZenonT(20) DEF Clear
  <2>3. LocalsAt(p) /\ NamesAt(p) /\ ofile \in [Procs -> [Fds -> Files \cup {0}]] /\ fd \in [Procs -> Fds \cup {0}]
    BY <2>1, ZenonT(20) DEF Locals, Names, Types
  <2>4. p \in live /\ rf[p] = 0 /\ wf[p] = 0 /\ ip[p] = 0 /\ fd[p] # 0 /\ ff[p].type = "none"
    BY <2>2, <2>3, ZenonT(20) DEF LocalsAt
  <2> DEFINE d == fd[p]
  <2>5. d \in Fds
    BY <2>3, <2>4, ZenonT(20)
  <2>6. /\ ofile'[p][d] = 0 /\ (\A e \in Fds : e # d => ofile'[p][e] = ofile[p][e]) /\ (\A q \in Procs : q # p => ofile'[q] = ofile[q])
        /\ ofile' \in [Procs -> [Fds -> Files \cup {0}]]
    BY <2>2, <2>3, <2>5, ZenonT(20)
  <2>7. pc'[p] = "exit" /\ rf'[p] = 0 /\ wf'[p] = 0 /\ ip'[p] = 0 /\ fd'[p] = 0
    BY <2>1, <2>2, GotoLocals
  <2>8. Others(p)
    BY <2>1, <2>2, GotoOthers, ZenonT(20)
  <2>9. Names'
    <3>1. \A e \in Fds : ofile'[p][e] # 0 => ftable'[ofile'[p][e]].type # "none"
      <4>1. \A e \in Fds : e # d /\ ofile[p][e] # 0 => ftable[ofile[p][e]].type # "none"
        BY <2>3, ZenonT(20) DEF NamesAt
      <4> QED BY <2>2, <2>6, <4>1, ZenonT(20)
    <3>2. pc'[p] # "fields" /\ pc'[p] # "dup" /\ pc'[p] # "pipe"
      BY <2>7, ZenonT(20)
    <3>3. NamesAt(p)'
      BY <2>7, <3>1, <3>2, NamesClean, ZenonT(20)
    <3>4. \A x \in Files : ftable'[x].type = ftable[x].type
      BY <2>2, ZenonT(20)
    <3> QED BY <2>1, <2>6, <2>8, <3>3, <3>4, OthersNames, ZenonT(20)
  <2>10. LocalsAt(p)'
    BY <2>2, <2>4, <2>7, ZenonT(20) DEF LocalsAt
  <2>11. Types' /\ Locals' /\ Forks'
    <3>1. "exit" \in Labels /\ "exit" # "fork" /\ pc[p] # "fork" /\ 0 \in Files \cup {0} /\ 0 \in Inodes \cup {0} /\ 0 \in Fds \cup {0}
      BY <2>2, ZenonT(20) DEF Labels
    <3>2. ftable' \in [Files -> File] /\ iref' \in [Inodes -> Int] /\ ends' \in [Pipes -> SUBSET BOOLEAN]
      BY <2>1, <2>2, ZenonT(20) DEF Types
    <3> QED BY <2>2, <2>6, <2>10, <3>1, <3>2, Frame, ZenonT(20)
  <2>12. \A x \in Files : nC(x)' = nC(x)
    <3>1. (fd[p] = 0 \/ fd[p] = d) /\ (fd'[p] = 0 \/ fd'[p] = d)
      BY <2>7, ZenonT(20)
    <3>2. \A x \in Files : nC(x)' = nC(x) - One(ofile[p][d] = x /\ fd[p] # d) + One(ofile'[p][d] = x /\ fd'[p] # d)
      BY <2>5, <2>6, <2>8, <3>1, OneDescriptor
    <3> SUFFICES ASSUME NEW x \in Files PROVE nC(x)' = nC(x)
      BY ZenonT(20)
    <3>3. x # 0 /\ nC(x) \in Nat
      BY CountedSmall DEF Files
    <3> QED BY <2>6, <3>2, <3>3 DEF One
  <2>13. Goto(p, "exit", rf[p], wf[p], ip[p], 0)
    BY <2>2, <2>4, ZenonT(20)
  <2>14. RefsExact'
    BY <2>1, <2>2, <2>12, <2>13, RefsSame, ZenonT(20)
  <2>15. SameObjects(ftable, ftable')
    BY <2>2, ZenonT(20) DEF SameObjects
  <2>16. InodesExact' /\ PipesExact'
    BY <2>1, <2>2, <2>13, <2>15, InodesSame, PipesKept, ZenonT(20)
  <2> QED BY <2>1, <2>2, <2>9, <2>11, <2>14, <2>16, ZenonT(20) DEF FileInv, AllFit
<1>GoneStep. ASSUME Counting, FileTableSizes, FileInv, NEW p \in Procs, Gone(p)
                  PROVE  FileInv'
  <2> USE <1>GoneStep
  <2>1. Types /\ AllFit /\ Locals /\ Forks /\ Names /\ RefsExact /\ InodesExact /\ PipesExact /\ ~panicked
    BY ZenonT(20) DEF FileInv
  <2>2. /\ pc[p] = "exit" /\ live' = live \ {p} /\ Goto(p, "run", 0, 0, 0, 0)
        /\ UNCHANGED <<ftable, ofile, iref, ends, ff, np, panicked>>
    BY ZenonT(20) DEF Gone, Return
  <2>3. p \in live /\ rf[p] = 0 /\ wf[p] = 0 /\ ip[p] = 0 /\ fd[p] = 0 /\ ff[p].type = "none"
    BY <2>2, <1>AtExit, ZenonT(20)
  <2>4. pc'[p] = "run" /\ rf'[p] = 0 /\ wf'[p] = 0 /\ ip'[p] = 0 /\ fd'[p] = 0
    BY <2>1, <2>2, GotoLocals
  <2>5. Others(p)
    BY <2>1, <2>2, GotoOthers, ZenonT(20)
  <2>6. Names' /\ \A x : nC(x)' = nC(x)
    BY <2>2, <2>3, <2>4, <2>5, NamesKept, ZenonT(20)
  <2>7. LocalsAt(p)'
    BY <2>2, <2>3, <2>4, ZenonT(20) DEF LocalsAt
  <2>8. Types'
    <3>1. "run" \in Labels /\ 0 \in Files \cup {0} /\ 0 \in Inodes \cup {0} /\ 0 \in Fds \cup {0}
      BY ZenonT(20) DEF Labels
    <3>2. /\ pc' \in [Procs -> Labels] /\ rf' \in [Procs -> Files \cup {0}] /\ wf' \in [Procs -> Files \cup {0}]
          /\ ip' \in [Procs -> Inodes \cup {0}] /\ fd' \in [Procs -> Fds \cup {0}]
      BY <2>1, <2>2, <3>1, GotoTypes, ZenonT(20)
    <3> QED BY <2>1, <2>2, <3>2, ZenonT(20) DEF Types
  <2>9. Locals'
    BY <2>1, <2>2, <2>5, <2>7, OthersLocals, ZenonT(20)
  <2>10. Forks'
    <3>1. pc[p] # "fork" /\ pc'[p] # "fork" /\ live' \subseteq live
      BY <2>2, <2>4, ZenonT(20)
    <3> QED BY <2>1, <2>2, <2>5, <3>1, OthersForks, ZenonT(20)
  <2>11. Goto(p, "run", rf[p], wf[p], ip[p], 0)
    BY <2>2, <2>3, ZenonT(20)
  <2>12. RefsExact'
    BY <2>1, <2>2, <2>6, <2>11, RefsSame, ZenonT(20)
  <2>13. SameObjects(ftable, ftable')
    BY <2>2, ZenonT(20) DEF SameObjects
  <2>14. InodesExact' /\ PipesExact'
    BY <2>1, <2>2, <2>11, <2>13, InodesSame, PipesKept, ZenonT(20)
  <2> QED BY <2>1, <2>2, <2>6, <2>8, <2>9, <2>10, <2>12, <2>14, ZenonT(20) DEF FileInv, AllFit
<1> QED BY <1>CloseStep, <1>ExitCloseStep, <1>ExitStep, <1>ClearStep, <1>GoneStep, ZenonT(20)

--------------------------------------------------------------------------------
(* All steps.                                                                *)

LEMMA NextInv == ASSUME Counting, FileTableSizes, FileInv, Next PROVE FileInv'
<1>1. PICK p \in Procs : \/ Step(p) \/ Pipe(p) \/ Exit(p)
                         \/ \E i \in Inodes : Open(p, i)
                         \/ \E d \in Fds : Dup(p, d) \/ Close(p, d)
                         \/ \E q \in Procs : Fork(p, q)
  BY ZenonT(20) DEF Next
<1>2. CASE Step(p)
  <2>1. CASE Fields(p)
    BY <2>1, OpenSteps, ZenonT(20)
  <2>2. CASE DupCounts(p)
    BY <2>2, DupCountsStep, ZenonT(20)
  <2>3. CASE fileclose(p)
    BY <2>3, CloseSteps, ZenonT(20)
  <2>4. CASE Release(p)
    BY <2>4, CloseSteps, ZenonT(20)
  <2>5. CASE Iput(p)
    BY <2>5, OpenSteps, ZenonT(20)
  <2>6. CASE PipeFails(p)
    BY <2>6, PipeSteps, ZenonT(20)
  <2>7. CASE PipeMade(p)
    BY <2>7, PipeMadeSteps, ZenonT(20)
  <2>8. CASE ForkDup(p)
    BY <2>8, ForkSteps, ZenonT(20)
  <2>9. CASE Start(p)
    BY <2>9, ForkSteps, ZenonT(20)
  <2>10. CASE ExitClose(p)
    BY <2>10, ExitSteps, ZenonT(20)
  <2>11. CASE Clear(p)
    BY <2>11, ExitSteps, ZenonT(20)
  <2>12. CASE Gone(p)
    BY <2>12, ExitSteps, ZenonT(20)
  <2> QED BY <1>2, <2>1, <2>2, <2>3, <2>4, <2>5, <2>6, <2>7, <2>8, <2>9, <2>10, <2>11, <2>12, ZenonT(20) DEF Step
<1>3. CASE Pipe(p)
  BY <1>3, PipeSteps, ZenonT(20)
<1>4. CASE Exit(p)
  BY <1>4, ExitSteps, ZenonT(20)
<1>5. ASSUME NEW i \in Inodes, Open(p, i) PROVE FileInv'
  BY <1>5, OpenSteps, ZenonT(20)
<1>6. ASSUME NEW d \in Fds, Dup(p, d) PROVE FileInv'
  BY <1>6, DupStep, ZenonT(20)
<1>7. ASSUME NEW d \in Fds, Close(p, d) PROVE FileInv'
  BY <1>7, ExitSteps, ZenonT(20)
<1>8. ASSUME NEW q \in Procs, Fork(p, q) PROVE FileInv'
  BY <1>8, ForkSteps, ZenonT(20)
<1> QED BY <1>1, <1>2, <1>3, <1>4, <1>5, <1>6, <1>7, <1>8, ZenonT(20)

--------------------------------------------------------------------------------
(* The theorem.                                                              *)

INSTANCE FiniteSetTheorems

LEMMA Counts == ASSUME FileTableSizes PROVE Counting /\ Cardinality({}) = 0
<1>1. IsFiniteSet(Procs) /\ IsFiniteSet(Files) /\ IsFiniteSet(Fds)
  <2>1. 1 \in Int /\ NFILE \in Int /\ NOFILE \in Int /\ IsFiniteSet(Procs)
    BY DEF FileTableSizes
  <2> QED BY <2>1, FS_Interval, ZenonT(20) DEF Files, Fds
<1>2. IsFiniteSet(Procs \X Fds)
  BY <1>1, FS_Product, ZenonT(20)
<1>3. ASSUME NEW S, Small(S) PROVE IsFiniteSet(S)
  <2>1. S \in SUBSET Procs \/ S \in SUBSET Files \/ S \in SUBSET (Procs \X Fds)
    BY <1>3, ZenonT(20) DEF Small
  <2> QED BY <1>1, <1>2, <2>1, FS_Subset, ZenonT(20)
<1>4. ASSUME NEW S, Small(S) PROVE Cardinality(S) \in Nat /\ (Cardinality(S) = 0 => S = {})
  BY <1>3, <1>4, FS_CardinalityType, FS_EmptySet, ZenonT(20)
<1>5. ASSUME NEW S, NEW y, Small(S) /\ y \in S PROVE Cardinality(S \ {y}) = Cardinality(S) - 1
  BY <1>3, <1>5, FS_RemoveElement, ZenonT(20)
<1>6. Cardinality({}) = 0
  BY FS_EmptySet, ZenonT(20)
<1> QED BY <1>4, <1>5, <1>6, ZenonT(20) DEF Counting

\* Whatever open, dup, close, pipe, fork and exit do at once, and wherever they
\* fail: a file's count is the descriptors that name it and the calls that hold
\* it, a file without references is free, every inode and every end of a pipe
\* is given up exactly when its last file is, and neither filedup nor fileclose
\* panics.
THEOREM FilesCounted == ASSUME FileTableSizes PROVE Spec => []ObjectsExact
<1>1. Counting /\ Cardinality({}) = 0
  BY Counts, ZenonT(20)
<1>2. Init => FileInv
  BY <1>1, InitInv, ZenonT(20)
<1>3. FileInv /\ [Next]_vars => FileInv'
  BY <1>1, NextInv, StutterInv, ZenonT(20)
<1>4. FileInv => ObjectsExact
  BY FileInvExact, ZenonT(20)
<1> QED BY <1>2, <1>3, <1>4, PTL DEF Spec
=============================================================================
