---------------------------- MODULE VirtioProofs ----------------------------
(***************************************************************************)
(* Proofs about VirtioDisk, for any number of processes and descriptors    *)
(* and any width of the ring indices that is a multiple of the ring's      *)
(* size: its invariant, that the driver does not panic, and that it        *)
(* implements DiskCalls.                                                   *)
(***************************************************************************)
EXTENDS VirtioDisk, TLAPS

Labels == {"idle", "alloc", "sleep_free", "sleep_b", "awake"}

\* The shape of the state.
Types ==
    /\ free \subseteq Slots /\ held \subseteq Slots
    /\ next \in [Slots -> Slots \cup {None}]
    /\ info \in [Slots -> [b : Procs \cup {None}, status : {0, 255}]]
    /\ ops \in [Slots -> [write : BOOLEAN, block : Procs \cup {None}]]
    /\ avail \in [Slots -> Slots] /\ used \in [Slots -> Slots]
    /\ disk \in [Procs -> Vals] /\ data \in [Procs -> Vals]
    /\ bdisk \in [Procs -> BOOLEAN] /\ pc \in [Procs -> Labels]
    /\ idx \in [Procs -> Seq(Slots \cup {"read", "write"})]

\* The head of the chain of a process that has one.
D(p) == idx[p][1]
IsHead(d) == \E p \in Procs : Busy(p) /\ D(p) = d

\* A call before its command is posted knows what it wants.
AllocRight == \A p \in Procs : pc[p] \in {"alloc", "sleep_free"} =>
                  idx[p] = <<"read">> \/ idx[p] = <<"write">>

\* A call that posted its command owns a chain, and waits while it is not served.
OwnRight(p) == /\ D(p) \in Slots /\ info[D(p)].b = p /\ ops[D(p)].block = p
               /\ next[D(p)] \in Slots /\ next[next[D(p)]] \in Slots
               /\ Chain(D(p)) \cap free = {}
               /\ info[D(p)].status # 0 => bdisk[p]
BusyRight == \A p \in Procs : Busy(p) => OwnRight(p)

\* Chains have no descriptor in common.
ChainsApart == \A p, q \in Procs : Busy(p) /\ Busy(q) /\ p # q => Chain(D(p)) \cap Chain(D(q)) = {}

\* What the device works on is not served.
HeldRight == \A d \in held : IsHead(d) /\ info[d].status = 255

\* The avail ring between devIdx and availIdx, whose indices are what a and v
\* are without wrapping: different commands, none of them served or held.
PostedRight(v, a) ==
    /\ v <= a /\ devIdx = v % WIDTH /\ availIdx = a % WIDTH
    /\ \A j \in v..a - 1 : LET d == avail[j % NUM] IN IsHead(d) /\ info[d].status = 255 /\ d \notin held
    /\ \A i, j \in v..a - 1 : avail[i % NUM] = avail[j % NUM] => i = j

\* The used ring between used_idx and usedIdx: different commands, each served,
\* whose calls wait to be told.
DoneRight(k, u) ==
    /\ k <= u /\ used_idx = k % WIDTH /\ usedIdx = u % WIDTH
    /\ \A j \in k..u - 1 : LET d == used[j % NUM] IN IsHead(d) /\ info[d].status = 0 /\ bdisk[info[d].b]
    /\ \A i, j \in k..u - 1 : used[i % NUM] = used[j % NUM] => i = j

DiskInv == /\ Types /\ NoPanic /\ AllocRight /\ BusyRight /\ ChainsApart /\ HeldRight
           /\ \E v, a \in Nat : PostedRight(v, a)
           /\ \E k, u \in Nat : DoneRight(k, u)

--------------------------------------------------------------------------------
(* Remainders: positions without wrapping, and the slots they stand for.     *)

LEMMA Multiple == ASSUME NEW P \in Nat, NEW x \in Int, NEW y \in Int, x < y
                  PROVE  P * x + P <= P * y
<1>1. PICK z \in Nat : y = x + 1 + z
  <2>1. y - x - 1 \in Nat /\ y = x + 1 + (y - x - 1)
    OBVIOUS
  <2> QED BY <2>1, ZenonT(20)
<1>2. P * (x + 1 + z) = P * x + P + P * z /\ P * z >= 0
  OBVIOUS
<1> QED BY <1>1, <1>2

LEMMA Division == ASSUME NEW P \in Nat \ {0}, NEW x \in Int
                  PROVE  \E q \in Int, r \in Nat : x = P * q + r /\ r < P /\ r = x % P
<1>1. x = P * (x \div P) + (x % P) /\ x \div P \in Int /\ x % P \in Nat /\ x % P < P
  OBVIOUS
<1> QED BY <1>1, ZenonT(20)

\* Two numbers less than P apart that leave the same remainder are equal.
LEMMA SameRemainder ==
  ASSUME NEW P \in Nat \ {0}, NEW x \in Nat, NEW y \in Nat, x < y, y < x + P
  PROVE  x % P # y % P
<1>1. SUFFICES ASSUME x % P = y % P PROVE FALSE
  BY ZenonT(20)
<1>2. x \in Int /\ y \in Int
  OBVIOUS
<1>3. PICK q1 \in Int, r1 \in Nat : x = P * q1 + r1 /\ r1 = x % P
  BY ZenonT(20), <1>2, Division
<1>4. PICK q2 \in Int, r2 \in Nat : y = P * q2 + r2 /\ r2 = y % P
  BY ZenonT(20), <1>2, Division
<1>5. P * q1 \in Int /\ P * q2 \in Int /\ r1 = r2
  BY <1>1, <1>3, <1>4
<1>6. CASE q1 < q2
  <2>1. P * q1 + P <= P * q2
    BY <1>6, Multiple, ZenonT(20)
  <2> QED BY <1>3, <1>4, <1>5, <2>1
<1>7. CASE q2 < q1
  <2>1. P * q2 + P <= P * q1
    BY <1>7, Multiple, ZenonT(20)
  <2> QED BY <1>3, <1>4, <1>5, <2>1
<1>8. CASE q1 = q2
  BY <1>3, <1>4, <1>5, <1>8
<1> QED BY <1>6, <1>7, <1>8

\* Remainders are unique.
LEMMA Remainder == ASSUME NEW P \in Nat \ {0}, NEW q \in Int, NEW r \in Nat, r < P
                   PROVE  (P * q + r) % P = r
<1>1. P * q + r \in Int
  OBVIOUS
<1>2. PICK q2 \in Int, r2 \in Nat : P * q + r = P * q2 + r2 /\ r2 < P /\ r2 = (P * q + r) % P
  BY <1>1, Division, ZenonT(20)
<1>3. P * q \in Int /\ P * q2 \in Int
  OBVIOUS
<1>4. CASE q < q2
  <2>1. P * q + P <= P * q2
    BY <1>4, Multiple, ZenonT(20)
  <2> QED BY <1>2, <1>3, <2>1
<1>5. CASE q2 < q
  <2>1. P * q2 + P <= P * q
    BY <1>5, Multiple, ZenonT(20)
  <2> QED BY <1>2, <1>3, <2>1
<1>6. CASE q = q2
  BY <1>2, <1>3, <1>6
<1> QED BY <1>4, <1>5, <1>6

\* An index that wraps at WIDTH goes to the slot of its position.
LEMMA SlotOf == ASSUME RingSizes, NEW x \in Nat PROVE (x % WIDTH) % NUM = x % NUM
<1>1. NUM \in Nat \ {0} /\ WIDTH \in Nat \ {0} /\ WIDTH % NUM = 0 /\ x \in Int /\ WIDTH \in Int
  BY DEF RingSizes
<1>2. PICK m \in Int, z \in Nat : WIDTH = NUM * m + z /\ z = 0
  BY <1>1, Division, ZenonT(20)
<1>3. PICK q \in Int, r \in Nat : x = WIDTH * q + r /\ r < WIDTH /\ r = x % WIDTH
  BY <1>1, Division, ZenonT(20)
<1>4. PICK e \in Int, s \in Nat : r = NUM * e + s /\ s < NUM /\ s = r % NUM
  <2>1. r \in Int
    OBVIOUS
  <2> QED BY <1>1, <2>1, Division, ZenonT(20)
<1>5. x = NUM * (m * q + e) + s /\ m * q + e \in Int
  <2>1. WIDTH = NUM * m /\ NUM \in Int
    BY <1>1, <1>2
  <2>2. WIDTH * q = NUM * (m * q) /\ m * q \in Int
    BY <2>1
  <2>3. NUM * (m * q + e) = NUM * (m * q) + NUM * e
    BY <2>1, <2>2
  <2>4. NUM * (m * q) \in Int /\ NUM * e \in Int
    BY <2>1, <2>2
  <2>5. x = NUM * (m * q) + (NUM * e + s)
    BY <1>3, <1>4, <2>2, ZenonT(20)
  <2>6. ASSUME NEW i \in Int, NEW j \in Int, NEW k, x = i + (j + s), k = i + j PROVE x = k + s
    BY <2>6
  <2>7. x = NUM * (m * q + e) + s
    BY <2>3, <2>4, <2>5, <2>6, ZenonT(20)
  <2> QED BY <2>2, <2>7
<1>6. x % NUM = s
  BY <1>1, <1>4, <1>5, Remainder, ZenonT(20)
<1> QED BY <1>3, <1>4, <1>6, ZenonT(20)

\* An index that is incremented stands for the next position.
LEMMA BumpIs == ASSUME RingSizes, NEW x \in Nat PROVE Bump(x % WIDTH) = (x + 1) % WIDTH
<1>1. WIDTH \in Nat /\ WIDTH > 1 /\ x \in Int
  BY DEF RingSizes
<1>2. WIDTH \in Nat \ {0} /\ 0 \in Nat /\ 0 < WIDTH
  BY <1>1
<1>3. PICK q \in Int, r \in Nat : x = WIDTH * q + r /\ r < WIDTH /\ r = x % WIDTH
  BY <1>1, <1>2, Division, ZenonT(20)
<1>4. CASE r + 1 < WIDTH
  <2>1. x + 1 = WIDTH * q + (r + 1) /\ r + 1 \in Nat
    BY <1>1, <1>3
  <2>2. (x + 1) % WIDTH = r + 1
    BY <1>4, <1>2, <2>1, Remainder, ZenonT(20)
  <2>3. (r + 1) % WIDTH = r + 1
    BY <1>1, <1>4
  <2> QED BY <1>3, <2>2, <2>3, ZenonT(20) DEF Bump
<1>5. CASE r + 1 = WIDTH
  <2>1. x + 1 = WIDTH * (q + 1) + 0 /\ q + 1 \in Int
    BY <1>1, <1>3, <1>5
  <2>2. (x + 1) % WIDTH = 0
    BY <1>2, <2>1, Remainder, ZenonT(20)
  <2>3. (r + 1) % WIDTH = 0
    BY <1>1, <1>5
  <2> QED BY <1>3, <2>2, <2>3, ZenonT(20) DEF Bump
<1> QED BY <1>1, <1>3, <1>4, <1>5

LEMMA SlotIn == ASSUME RingSizes, NEW x \in Nat PROVE x % NUM \in Slots
<1>1. NUM \in Nat /\ NUM > 0
  BY DEF RingSizes
<1> QED BY <1>1 DEF Slots

\* What the proofs need of finite sets: entries of a ring that are all different,
\* and one descriptor that is none of them, leave a free place in the ring.
Windows == \A lo, hi \in Nat, ring \in [Slots -> Slots], e \in Slots :
    /\ lo <= hi
    /\ \A j \in lo..hi - 1 : ring[j % NUM] # e
    /\ \A i, j \in lo..hi - 1 : ring[i % NUM] = ring[j % NUM] => i = j
    => hi < lo + NUM

--------------------------------------------------------------------------------
(* Every step keeps the invariant.                                           *)

LEMMA DiskInit == ASSUME RingSizes PROVE Init => DiskInv
<1> SUFFICES ASSUME Init PROVE DiskInv
  OBVIOUS
<1>1. Types
  <2>1. 0 \in Slots
    BY DEF RingSizes, Slots
  <2>2. idx \in [Procs -> Seq(Slots \cup {"read", "write"})] /\ free \subseteq Slots /\ held \subseteq Slots
    BY DEF Init
  <2>3. info \in [Slots -> [b : Procs \cup {None}, status : {0, 255}]]
    BY ZenonT(20) DEF Init
  <2>4. ops \in [Slots -> [write : BOOLEAN, block : Procs \cup {None}]]
    BY ZenonT(20) DEF Init
  <2>5. /\ next \in [Slots -> Slots \cup {None}]
        /\ avail \in [Slots -> Slots] /\ used \in [Slots -> Slots]
        /\ disk \in [Procs -> Vals] /\ data \in [Procs -> Vals]
        /\ bdisk \in [Procs -> BOOLEAN] /\ pc \in [Procs -> Labels]
    BY <2>1, ZenonT(20) DEF Init, Labels
  <2> QED BY <2>2, <2>3, <2>4, <2>5, ZenonT(20) DEF Types
<1>2. \A p \in Procs : ~Busy(p)
  BY ZenonT(20) DEF Init, Busy
<1>3. NoPanic /\ AllocRight /\ BusyRight /\ ChainsApart /\ HeldRight
  BY <1>2, ZenonT(20) DEF NoPanic, AllocRight, BusyRight, ChainsApart, HeldRight, Init
<1>4. START \in Nat /\ START % WIDTH = START /\ START <= START /\ START..START - 1 = {}
  BY DEF RingSizes
<1>5. PostedRight(START, START) /\ DoneRight(START, START)
  BY <1>4, ZenonT(20) DEF PostedRight, DoneRight, Init
<1> QED BY <1>1, <1>3, <1>4, <1>5, ZenonT(20) DEF DiskInv

\* The process whose chain begins at a head.
LEMMA Owner ==
  ASSUME DiskInv, NEW d, IsHead(d)
  PROVE  \E p \in Procs : /\ Busy(p) /\ D(p) = d /\ d \in Slots /\ d \notin free
                          /\ info[d].b = p /\ ops[d].block = p
<1>1. PICK p \in Procs : Busy(p) /\ D(p) = d
  BY ZenonT(20) DEF IsHead
<1>2. OwnRight(p)
  BY <1>1, ZenonT(20) DEF DiskInv, BusyRight
<1>3. d \notin free
  BY <1>1, <1>2, ZenonT(20) DEF OwnRight, Chain
<1> QED BY <1>1, <1>2, <1>3, ZenonT(20) DEF OwnRight

\* Chains stay as they are in a step that leaves them to the same calls.
LEMMA SameChains ==
  ASSUME DiskInv, UNCHANGED <<free, next, ops, info, bdisk>>,
         \A p \in Procs : Busy(p)' = Busy(p),
         \A p \in Procs : Busy(p) => idx'[p] = idx[p]
  PROVE  BusyRight' /\ ChainsApart' /\ \A d : IsHead(d) => IsHead(d)'
<1>1. \A p \in Procs : Busy(p)' => /\ Busy(p) /\ D(p)' = D(p) /\ OwnRight(p)
                                   /\ Chain(D(p))' = Chain(D(p))
  BY ZenonT(20) DEF DiskInv, BusyRight, D, Chain
<1>2. \A p \in Procs : Busy(p)' => OwnRight(p)'
  BY <1>1, ZenonT(20) DEF OwnRight
<1>3. ChainsApart'
  BY <1>1, ZenonT(20) DEF ChainsApart, DiskInv
<1>4. \A d : IsHead(d) => IsHead(d)'
  BY ZenonT(20) DEF IsHead, D
<1> QED BY <1>2, <1>3, <1>4, ZenonT(20) DEF BusyRight

\* A step that leaves chains and rings alone.
LEMMA Quiet ==
  ASSUME DiskInv, UNCHANGED <<free, next, ops, info, bdisk, avail, availIdx, used, usedIdx,
                              used_idx, devIdx, held, disk, panic>>,
         \A p \in Procs : Busy(p)' = Busy(p),
         \A p \in Procs : Busy(p) => idx'[p] = idx[p],
         data' \in [Procs -> Vals], pc' \in [Procs -> Labels],
         idx' \in [Procs -> Seq(Slots \cup {"read", "write"})],
         AllocRight'
  PROVE  DiskInv'
<1>1. BusyRight' /\ ChainsApart' /\ \A d : IsHead(d) => IsHead(d)'
  BY SameChains, ZenonT(20)
<1>2. Types'
  BY ZenonT(20) DEF DiskInv, Types
<1>3. HeldRight'
  <2>1. HeldRight
    BY ZenonT(20) DEF DiskInv
  <2> QED BY <1>1, <2>1 DEF HeldRight
<1>6. NoPanic'
  BY DEF DiskInv, NoPanic
<1>4. \A v, a \in Nat : PostedRight(v, a) => PostedRight(v, a)'
  <2>1. SUFFICES ASSUME NEW v \in Nat, NEW a \in Nat, PostedRight(v, a) PROVE PostedRight(v, a)'
    BY ZenonT(20)
  <2> QED BY <1>1, <2>1, ZenonT(20) DEF PostedRight
<1>5. \A k, u \in Nat : DoneRight(k, u) => DoneRight(k, u)'
  BY <1>1, ZenonT(20) DEF DoneRight
<1> QED BY <1>1, <1>2, <1>3, <1>4, <1>5, <1>6, ZenonT(20) DEF DiskInv

\* The steps that leave chains and rings alone: the call begins, a kill, and
\* where the handler is.
LEMMA StartHolds == ASSUME DiskInv, NEW p \in Procs, Start(p) PROVE DiskInv'
<1>t. Types /\ AllocRight
  BY ZenonT(20) DEF DiskInv
<1>1. /\ pc[p] = "idle" /\ pc' = [pc EXCEPT ![p] = "alloc"]
      /\ idx' = [idx EXCEPT ![p] = <<"read">>] \/ idx' = [idx EXCEPT ![p] = <<"write">>]
      /\ UNCHANGED data \/ \E v \in Vals : data' = [data EXCEPT ![p] = v]
      /\ UNCHANGED <<free, next, ops, info, bdisk, avail, availIdx, used, usedIdx,
                     used_idx, devIdx, held, disk, panic>>
  BY ZenonT(20) DEF Start
<1>2. \A q \in Procs : Busy(q)' = Busy(q)
  BY <1>1, <1>t DEF Busy, Types
<1>3. \A q \in Procs : Busy(q) => idx'[q] = idx[q]
  BY <1>1, <1>t DEF Busy, Types
<1>4. data' \in [Procs -> Vals] /\ pc' \in [Procs -> Labels]
  <2>1. data \in [Procs -> Vals] /\ pc \in [Procs -> Labels] /\ "alloc" \in Labels
    BY <1>t, ZenonT(20) DEF Types, Labels
  <2> QED BY <1>1, <2>1
<1>5. idx' \in [Procs -> Seq(Slots \cup {"read", "write"})]
  <2>1. /\ <<"read">> \in Seq(Slots \cup {"read", "write"})
        /\ <<"write">> \in Seq(Slots \cup {"read", "write"})
    OBVIOUS
  <2>2. idx \in [Procs -> Seq(Slots \cup {"read", "write"})]
    BY <1>t, ZenonT(20) DEF Types
  <2>3. idx' = [idx EXCEPT ![p] = <<"read">>] \/ idx' = [idx EXCEPT ![p] = <<"write">>]
    BY <1>1, ZenonT(20)
  <2> QED BY <2>1, <2>2, <2>3, ZenonT(20)
<1>6. AllocRight'
  <2>1. /\ pc \in [Procs -> Labels] /\ idx \in [Procs -> Seq(Slots \cup {"read", "write"})]
        /\ pc' = [pc EXCEPT ![p] = "alloc"]
        /\ idx' = [idx EXCEPT ![p] = <<"read">>] \/ idx' = [idx EXCEPT ![p] = <<"write">>]
    BY <1>1, <1>t, ZenonT(20) DEF Types
  <2>2. \A q \in Procs : \/ pc'[q] = pc[q] /\ idx'[q] = idx[q]
                         \/ idx'[q] = <<"read">> \/ idx'[q] = <<"write">>
    BY <2>1, ZenonT(20)
  <2> QED BY <1>t, <2>2, ZenonT(20) DEF AllocRight
<1> QED BY <1>1, <1>2, <1>3, <1>4, <1>5, <1>6, Quiet, ZenonT(20)

\* A step which only moves processes that sleep, or go to sleep, where they are.
LEMMA Moves ==
  ASSUME DiskInv, UNCHANGED <<free, next, ops, info, bdisk, avail, availIdx, used, usedIdx,
                              used_idx, devIdx, held, disk, panic, data, idx>>,
         pc' \in [Procs -> Labels],
         \A q \in Procs : \/ pc'[q] = pc[q]
                          \/ pc[q] \in {"sleep_b", "awake"} /\ pc'[q] \in {"sleep_b", "awake"}
                          \/ pc[q] \in {"alloc", "sleep_free"} /\ pc'[q] \in {"alloc", "sleep_free"}
  PROVE  DiskInv'
<1>1. \A q \in Procs : Busy(q)' = Busy(q)
  BY SMT DEF Busy
<1>2. AllocRight'
  BY SMT DEF AllocRight, DiskInv
<1>3. data' \in [Procs -> Vals] /\ idx' \in [Procs -> Seq(Slots \cup {"read", "write"})]
  BY ZenonT(20) DEF DiskInv, Types
<1> QED BY <1>1, <1>2, <1>3, Quiet, ZenonT(20)

LEMMA KillHolds == ASSUME DiskInv, NEW p \in Procs, Kill(p) PROVE DiskInv'
<1>1. pc \in [Procs -> Labels]
  BY ZenonT(20) DEF DiskInv, Types
<1>2. /\ pc[p] \in {"sleep_b", "sleep_free"}
      /\ pc' = [pc EXCEPT ![p] = IF pc[p] = "sleep_b" THEN "awake" ELSE "alloc"]
  BY ZenonT(20) DEF Kill
<1>3. /\ pc' \in [Procs -> Labels]
      /\ \A q \in Procs : \/ pc'[q] = pc[q]
                          \/ pc[q] \in {"sleep_b", "awake"} /\ pc'[q] \in {"sleep_b", "awake"}
                          \/ pc[q] \in {"alloc", "sleep_free"} /\ pc'[q] \in {"alloc", "sleep_free"}
  BY <1>1, <1>2 DEF Labels
<1>4. UNCHANGED <<free, next, ops, info, bdisk, avail, availIdx, used, usedIdx,
                  used_idx, devIdx, held, disk, panic, data, idx>>
  BY ZenonT(20) DEF Kill, driver, device
<1> QED BY <1>3, <1>4, Moves, ZenonT(20)

LEMMA HandlerHolds ==
  ASSUME DiskInv, \/ Claim \/ IntrStart \/ IntrEnd \/ UNCHANGED vars
                  \/ IntrLoop /\ used_idx = usedIdx
  PROVE  DiskInv'
<1>1. pc \in [Procs -> Labels]
  BY ZenonT(20) DEF DiskInv, Types
<1>2. UNCHANGED <<free, next, ops, info, bdisk, avail, availIdx, used, usedIdx,
                  used_idx, devIdx, held, disk, panic, data, idx, pc>>
  BY ZenonT(20) DEF Claim, IntrStart, IntrEnd, IntrLoop, vars, driver, device
<1> QED BY <1>1, <1>2, Moves, ZenonT(20)

\* alloc3_desc finds too few descriptors.
LEMMA NoRoomHolds ==
  ASSUME DiskInv, NEW p \in Procs, Submit(p), Cardinality(free) < 3
  PROVE  DiskInv'
<1>1. pc \in [Procs -> Labels] /\ pc[p] = "alloc"
  BY ZenonT(20) DEF DiskInv, Types, Submit
<1>2. /\ UNCHANGED <<free, next, ops, info, bdisk, avail, availIdx, used, usedIdx,
                     used_idx, devIdx, held, disk, panic, data, idx>>
      /\ pc' = [pc EXCEPT ![p] = "sleep_free"] \/ WakeFree(p, "sleep_free")
  BY ZenonT(20) DEF Submit, GiveBack, device
<1>3. /\ pc' \in [Procs -> Labels]
      /\ \A q \in Procs : \/ pc'[q] = pc[q]
                          \/ pc[q] \in {"alloc", "sleep_free"} /\ pc'[q] \in {"alloc", "sleep_free"}
  BY <1>1, <1>2 DEF Labels, WakeFree
<1> QED BY <1>2, <1>3, Moves, ZenonT(20)

\* b->disk is still set after the sleep.
LEMMA AgainHolds ==
  ASSUME DiskInv, NEW p \in Procs, Finish(p), bdisk[p]
  PROVE  DiskInv'
<1>1. pc \in [Procs -> Labels] /\ pc[p] = "awake"
  BY ZenonT(20) DEF DiskInv, Types, Finish
<1>2. /\ UNCHANGED <<free, next, ops, info, bdisk, avail, availIdx, used, usedIdx,
                     used_idx, devIdx, held, disk, panic, data, idx>>
      /\ pc' = [pc EXCEPT ![p] = "sleep_b"]
  BY ZenonT(20) DEF Finish, driver, device
<1>3. /\ pc' \in [Procs -> Labels]
      /\ \A q \in Procs : \/ pc'[q] = pc[q]
                          \/ pc[q] \in {"sleep_b", "awake"} /\ pc'[q] \in {"sleep_b", "awake"}
  BY <1>1, <1>2 DEF Labels
<1> QED BY <1>2, <1>3, Moves, ZenonT(20)

\* The two windows of the invariant have witnesses.
LEMMA WindowsOf ==
  ASSUME DiskInv
  PROVE  /\ Types /\ ~panic /\ AllocRight /\ BusyRight /\ ChainsApart /\ HeldRight
         /\ \E v, a \in Nat : PostedRight(v, a)
         /\ \E k, u \in Nat : DoneRight(k, u)
BY ZenonT(20) DEF DiskInv, NoPanic

LEMMA HeldIs == ASSUME DiskInv, NEW d, d \in held PROVE IsHead(d) /\ info[d].status = 255
<1>1. HeldRight
  BY WindowsOf, ZenonT(20)
<1> QED BY <1>1 DEF HeldRight

LEMMA FetchHolds == ASSUME RingSizes, DiskInv, Fetch PROVE DiskInv'
<1>1. PICK v \in Nat, a \in Nat : PostedRight(v, a)
  BY WindowsOf, ZenonT(20)
<1> DEFINE d == avail[v % NUM]
<1>2. /\ held' = held \cup {d} /\ devIdx' = Bump(devIdx) /\ devIdx # availIdx
      /\ UNCHANGED <<free, next, ops, info, bdisk, avail, availIdx, used, usedIdx,
                     used_idx, disk, panic, data, idx, pc>>
  <2>1. devIdx % NUM = v % NUM
    BY <1>1, SlotOf, ZenonT(20) DEF PostedRight
  <2> QED BY <2>1, ZenonT(20) DEF Fetch, driver
<1>3. v # a /\ v <= a
  BY <1>1, <1>2, ZenonT(20) DEF PostedRight
<1>p. v \in v..a - 1 /\ v + 1 <= a /\ v + 1 \in Nat /\ \A j \in v + 1..a - 1 : j \in v..a - 1 /\ j # v
  BY <1>3
<1>4. IsHead(d) /\ info[d].status = 255
  BY <1>1, <1>p DEF PostedRight
<1>5. \A e : IsHead(e)' = IsHead(e)
  BY <1>2, ZenonT(20) DEF IsHead, D, Busy
<1>6. BusyRight' /\ ChainsApart'
  <2>1. \A p \in Procs : Busy(p)' = Busy(p)
    BY <1>2, ZenonT(20) DEF Busy
  <2> QED BY <1>2, <2>1, SameChains, ZenonT(20)
<1>7. Types'
  <2>1. d \in Slots
    BY <1>4, Owner, ZenonT(20)
  <2>2. Types
    BY WindowsOf, ZenonT(20)
  <2> QED BY <1>2, <2>1, <2>2 DEF Types
<1>8. NoPanic'
  BY <1>2, WindowsOf DEF NoPanic
<1>9. AllocRight'
  BY <1>2, WindowsOf, ZenonT(20) DEF AllocRight
<1>10. HeldRight'
  BY <1>2, <1>4, <1>5, WindowsOf DEF HeldRight
<1>11. PostedRight(v + 1, a)'
  <2>1. devIdx' = (v + 1) % WIDTH
    BY <1>1, <1>2, BumpIs, ZenonT(20) DEF PostedRight
  <2>2. \A j \in v + 1..a - 1 : avail[j % NUM] # d
    BY <1>1, <1>p DEF PostedRight
  <2>3. \A j \in v + 1..a - 1 : /\ IsHead(avail[j % NUM]) /\ info[avail[j % NUM]].status = 255
                                /\ avail[j % NUM] \notin held'
    BY <1>1, <1>2, <1>p, <2>2 DEF PostedRight
  <2>4. \A i, j \in v + 1..a - 1 : avail[i % NUM] = avail[j % NUM] => i = j
    BY <1>1, <1>p DEF PostedRight
  <2>5. v + 1 <= a /\ availIdx = a % WIDTH
    BY <1>1, <1>p DEF PostedRight
  <2>6. \A j \in v + 1..a - 1 : IsHead(avail[j % NUM])'
    BY <1>2, <1>5, <2>3, ZenonT(20)
  <2> QED BY <1>2, <2>1, <2>3, <2>4, <2>5, <2>6 DEF PostedRight
<1>12. \E k, u \in Nat : DoneRight(k, u)'
  <2>1. PICK k \in Nat, u \in Nat : DoneRight(k, u)
    BY WindowsOf, ZenonT(20)
  <2>2. DoneRight(k, u)'
    BY <1>2, <1>5, <2>1, ZenonT(20) DEF DoneRight
  <2> QED BY <2>2, ZenonT(20)
<1> QED BY <1>6, <1>7, <1>8, <1>9, <1>10, <1>11, <1>12, <1>p, ZenonT(20) DEF DiskInv

\* The device serves a command: the used ring has room for it, since it is not
\* among the entries the driver has still to look at.
LEMMA CompleteHolds ==
  ASSUME RingSizes, Windows, DiskInv, NEW d \in Slots, Complete(d)
  PROVE  DiskInv'
<1>1. PICK v \in Nat, a \in Nat : PostedRight(v, a)
  BY WindowsOf, ZenonT(20)
<1>2. PICK k \in Nat, u \in Nat : DoneRight(k, u)
  BY WindowsOf, ZenonT(20)
<1>3. /\ d \in held /\ held' = held \ {d}
      /\ info' = [info EXCEPT ![d].status = 0]
      /\ used' = [used EXCEPT ![u % NUM] = d] /\ usedIdx' = Bump(usedIdx)
      /\ UNCHANGED <<free, next, ops, bdisk, avail, availIdx, devIdx, used_idx, panic, idx, pc>>
  <2>1. usedIdx % NUM = u % NUM
    BY <1>2, SlotOf, ZenonT(20) DEF DoneRight
  <2> QED BY <2>1, ZenonT(20) DEF Complete, driver
<1>4. IsHead(d) /\ info[d].status = 255
  <2>1. d \in held
    BY ZenonT(20) DEF Complete
  <2> QED BY <2>1, HeldIs
<1>5. PICK p \in Procs : /\ Busy(p) /\ D(p) = d /\ d \in Slots /\ d \notin free
                         /\ info[d].b = p /\ ops[d].block = p
  BY <1>4, Owner, ZenonT(20)
<1>6. Types
  BY WindowsOf, ZenonT(20)
<1>7. /\ \A e \in Slots : info'[e].b = info[e].b
      /\ \A e \in Slots : e # d => info'[e].status = info[e].status
      /\ info'[d].status = 0
  BY <1>3, <1>6 DEF Types
<1>8. \A e : IsHead(e) <=> IsHead(e)'
  BY <1>3, ZenonT(20) DEF IsHead, D, Busy
<1>9. \A e : IsHead(e) => e \in Slots
  BY Owner, ZenonT(20)
<1>10. Types'
  <2>1. info' \in [Slots -> [b : Procs \cup {None}, status : {0, 255}]]
    <3>1. info \in [Slots -> [b : Procs \cup {None}, status : {0, 255}]]
      BY <1>6, ZenonT(20) DEF Types
    <3> QED BY <1>3, <3>1
  <2>2. disk' \in [Procs -> Vals] /\ data' \in [Procs -> Vals]
    <3>1. disk \in [Procs -> Vals] /\ data \in [Procs -> Vals]
      BY <1>6, ZenonT(20) DEF Types
    <3>2. \/ disk' = [disk EXCEPT ![p] = data[p]] /\ data' = data
          \/ data' = [data EXCEPT ![p] = disk[p]] /\ disk' = disk
      BY <1>5, ZenonT(20) DEF Complete
    <3> QED BY <3>1, <3>2
  <2>3. used' \in [Slots -> Slots] /\ held' \subseteq Slots
    BY <1>3, <1>6, ZenonT(20) DEF Types
  <2> QED BY <1>3, <1>6, <2>1, <2>2, <2>3, ZenonT(20) DEF Types
<1>11. NoPanic'
  BY <1>3, WindowsOf DEF NoPanic
<1>12. AllocRight'
  BY <1>3, WindowsOf, ZenonT(20) DEF AllocRight
<1>13. BusyRight' /\ ChainsApart'
  <2>1. \A q \in Procs : /\ Busy(q)' = Busy(q) /\ D(q)' = D(q) /\ Chain(D(q))' = Chain(D(q))
    BY <1>3, ZenonT(20) DEF Busy, D, Chain
  <2>2. \A q \in Procs : Busy(q) => OwnRight(q)
    BY WindowsOf, ZenonT(20) DEF BusyRight
  <2>3. \A q \in Procs : Busy(q) => OwnRight(q)'
    BY <1>3, <1>7, <2>1, <2>2 DEF OwnRight
  <2>4. ChainsApart'
    BY <2>1, WindowsOf, ZenonT(20) DEF ChainsApart
  <2> QED BY <2>1, <2>3, <2>4, ZenonT(20) DEF BusyRight
<1>14. HeldRight'
  BY <1>3, <1>7, <1>8, <1>9, WindowsOf DEF HeldRight
<1>15. PostedRight(v, a)'
  <2>1. \A j \in v..a - 1 : /\ IsHead(avail[j % NUM])' /\ info'[avail[j % NUM]].status = 255
                            /\ avail[j % NUM] \notin held'
    BY <1>1, <1>3, <1>7, <1>8, <1>9 DEF PostedRight
  <2>2. /\ v <= a /\ devIdx' = v % WIDTH /\ availIdx' = a % WIDTH
        /\ \A i, j \in v..a - 1 : avail'[i % NUM] = avail'[j % NUM] => i = j
    BY <1>1, <1>3, ZenonT(20) DEF PostedRight
  <2> QED BY <1>3, <2>1, <2>2 DEF PostedRight
<1>16. DoneRight(k, u + 1)'
  <2>1. /\ k <= u /\ used_idx = k % WIDTH /\ usedIdx = u % WIDTH
        /\ \A j \in k..u - 1 : /\ IsHead(used[j % NUM]) /\ info[used[j % NUM]].status = 0
                               /\ bdisk[info[used[j % NUM]].b]
        /\ \A i, j \in k..u - 1 : used[i % NUM] = used[j % NUM] => i = j
    BY <1>2, ZenonT(20) DEF DoneRight
  <2>2. \A j \in k..u - 1 : used[j % NUM] # d
    BY <1>4, <2>1
  <2>3. u < k + NUM
    <3>1. used \in [Slots -> Slots]
      BY <1>6, ZenonT(20) DEF Types
    <3> QED BY <2>1, <2>2, <3>1, ZenonT(20) DEF Windows
  <2>4. \A j \in k..u - 1 : j % NUM # u % NUM /\ j % NUM \in Slots
    <3>1. NUM \in Nat \ {0}
      BY DEF RingSizes
    <3>2. \A j \in k..u - 1 : j \in Nat /\ j < u /\ u < j + NUM
      BY <2>3, <3>1
    <3> QED BY <3>1, <3>2, SameRemainder, SlotIn, ZenonT(20)
  <2>5. u % NUM \in Slots
    BY SlotIn, ZenonT(20)
  <2>6. used'[u % NUM] = d /\ \A j \in k..u - 1 : used'[j % NUM] = used[j % NUM]
    BY <1>3, <1>6, <2>4, <2>5 DEF Types
  <2>7. \A j \in k..(u + 1) - 1 : j = u \/ j \in k..u - 1
    BY <2>1
  <2>8. \A j \in k..u - 1 : /\ IsHead(used[j % NUM]) /\ info'[used[j % NUM]].status = 0
                            /\ bdisk'[info'[used[j % NUM]].b]
    <3>1. \A j \in k..u - 1 : /\ used[j % NUM] \in Slots /\ used[j % NUM] # d
                              /\ IsHead(used[j % NUM]) /\ info[used[j % NUM]].status = 0
                              /\ bdisk[info[used[j % NUM]].b]
      BY <1>9, <2>1, <2>2, ZenonT(20)
    <3> QED BY <1>3, <1>7, <1>8, <3>1, ZenonT(20)
  <2>9. IsHead(d)' /\ info'[d].status = 0 /\ bdisk'[info'[d].b]
    <3>1. bdisk[p]
      BY <1>4, <1>5, WindowsOf DEF BusyRight, OwnRight
    <3> QED BY <1>3, <1>4, <1>5, <1>7, <1>8, <3>1
  <2>10. \A j \in k..(u + 1) - 1 : (/\ IsHead(used[j % NUM]) /\ info[used[j % NUM]].status = 0
                                    /\ bdisk[info[used[j % NUM]].b])'
    BY <1>8, <2>6, <2>7, <2>8, <2>9, ZenonT(20)
  <2>11. \A i, j \in k..(u + 1) - 1 : used'[i % NUM] = used'[j % NUM] => i = j
    BY <2>1, <2>2, <2>6, <2>7
  <2>12. k <= u + 1 /\ used_idx' = k % WIDTH /\ usedIdx' = (u + 1) % WIDTH
    <3>1. k <= u + 1
      BY <2>1
    <3> QED BY <1>3, <2>1, <3>1, BumpIs, ZenonT(20)
  <2> QED BY <2>10, <2>11, <2>12 DEF DoneRight
<1>17. u + 1 \in Nat
  OBVIOUS
<1> QED BY <1>10, <1>11, <1>12, <1>13, <1>14, <1>15, <1>16, <1>17, ZenonT(20) DEF DiskInv

\* The handler notes a completion: it is of a command that was served, whose
\* call waits for it.
LEMMA IntrLoopHolds ==
  ASSUME RingSizes, DiskInv, IntrLoop, used_idx # usedIdx
  PROVE  DiskInv'
<1>1. PICK k \in Nat, u \in Nat : DoneRight(k, u)
  BY WindowsOf, ZenonT(20)
<1> DEFINE d == used[k % NUM]
           b == info[d].b
<1>2. used[UsedSlot] = d
  <2>1. used_idx % NUM = k % NUM
    BY <1>1, SlotOf, ZenonT(20) DEF DoneRight
  <2> QED BY <2>1, ZenonT(20) DEF UsedSlot
<1>3. /\ k <= u /\ used_idx = k % WIDTH /\ usedIdx = u % WIDTH
      /\ \A j \in k..u - 1 : /\ IsHead(used[j % NUM]) /\ info[used[j % NUM]].status = 0
                             /\ bdisk[info[used[j % NUM]].b]
      /\ \A i, j \in k..u - 1 : used[i % NUM] = used[j % NUM] => i = j
  BY <1>1, ZenonT(20) DEF DoneRight
<1>4. k # u
  BY <1>3, ZenonT(20)
<1>5. /\ k \in k..u - 1 /\ k + 1 <= u /\ k + 1 \in Nat
      /\ \A j \in k + 1..u - 1 : j \in k..u - 1 /\ j # k
  BY <1>3, <1>4
<1>6. IsHead(d) /\ info[d].status = 0 /\ bdisk[b]
  BY <1>3, <1>5, ZenonT(20)
<1>7. PICK p \in Procs : Busy(p) /\ D(p) = d /\ d \in Slots /\ b = p
  BY <1>6, Owner, ZenonT(20)
<1>8. b \in Procs /\ b # None
  BY <1>7 DEF RingSizes
<1>9. Types
  BY WindowsOf, ZenonT(20)
<1> HIDE DEF d, b
<1>10. /\ bdisk' = [bdisk EXCEPT ![b] = FALSE]
       /\ pc' = [pc EXCEPT ![b] = IF pc[b] = "sleep_b" THEN "awake" ELSE pc[b]]
       /\ used_idx' = Bump(used_idx)
       /\ UNCHANGED <<panic, free, next, ops, avail, availIdx, idx, used, usedIdx, devIdx,
                      held, disk, data, info>>
  <2>1. info[d].status = 0
    BY <1>6, ZenonT(20)
  <2>2. info[used[UsedSlot]].b = b /\ info[used[UsedSlot]].status = 0
    BY <1>2, <2>1, ZenonT(20) DEF b
  <2> QED BY <1>8, <2>2, ZenonT(20) DEF IntrLoop, Wakeup, driver, device
<1>11. /\ pc \in [Procs -> Labels] /\ bdisk \in [Procs -> BOOLEAN]
  BY <1>9, ZenonT(20) DEF Types
<1>12. /\ pc' \in [Procs -> Labels]
       /\ \A q \in Procs : \/ pc'[q] = pc[q]
                           \/ pc[q] \in {"sleep_b", "awake"} /\ pc'[q] \in {"sleep_b", "awake"}
  BY <1>8, <1>10, <1>11 DEF Labels
<1>13. \A q \in Procs : Busy(q)' = Busy(q) /\ D(q)' = D(q) /\ Chain(D(q))' = Chain(D(q))
  <2>1. \A q \in Procs : Busy(q)' = Busy(q)
    BY <1>12 DEF Busy
  <2> QED BY <1>10, <2>1, ZenonT(20) DEF D, Chain
<1>14. \A e : IsHead(e)' <=> IsHead(e)
  BY <1>13, ZenonT(20) DEF IsHead
<1>15. Types'
  <2>1. bdisk' \in [Procs -> BOOLEAN]
    BY <1>8, <1>10, <1>11
  <2> QED BY <1>9, <1>10, <1>12, <2>1, ZenonT(20) DEF Types
<1>16. NoPanic'
  BY <1>10, WindowsOf DEF NoPanic
<1>17. AllocRight'
  <2>1. AllocRight
    BY WindowsOf, ZenonT(20)
  <2> QED BY <1>10, <1>12, <2>1 DEF AllocRight
<1>18. BusyRight' /\ ChainsApart'
  <2>1. \A q \in Procs : Busy(q) => OwnRight(q)
    BY WindowsOf, ZenonT(20) DEF BusyRight
  <2>2. \A q \in Procs : Busy(q) => OwnRight(q)'
    <3>1. SUFFICES ASSUME NEW q \in Procs, Busy(q) PROVE OwnRight(q)'
      BY ZenonT(20)
    <3>2. OwnRight(q)
      BY <2>1, <3>1, ZenonT(20)
    <3>3. info[D(q)].status # 0 => bdisk'[q]
      <4>1. ASSUME info[D(q)].status # 0 PROVE bdisk'[q]
        <5>1. q # b
          BY <1>6, <1>7, <4>1, ZenonT(20)
        <5>2. bdisk[q]
          BY <3>2, <4>1, ZenonT(20) DEF OwnRight
        <5> QED BY <1>10, <1>11, <5>1, <5>2
      <4> QED BY <4>1
    <3> QED BY <1>10, <1>13, <3>2, <3>3, ZenonT(20) DEF OwnRight
  <2>3. ChainsApart'
    BY <1>13, WindowsOf, ZenonT(20) DEF ChainsApart
  <2> QED BY <1>13, <2>2, <2>3, ZenonT(20) DEF BusyRight
<1>19. HeldRight'
  BY <1>10, <1>14, WindowsOf DEF HeldRight
<1>20. \E v, a \in Nat : PostedRight(v, a)'
  <2>1. PICK v \in Nat, a \in Nat : PostedRight(v, a)
    BY WindowsOf, ZenonT(20)
  <2>2. PostedRight(v, a)'
    BY <1>10, <1>14, <2>1, ZenonT(20) DEF PostedRight
  <2> QED BY <2>2, ZenonT(20)
<1>21. DoneRight(k + 1, u)'
  <2>1. used_idx' = (k + 1) % WIDTH
    BY <1>3, <1>10, BumpIs, ZenonT(20)
  <2>2. \A j \in k + 1..u - 1 : /\ IsHead(used[j % NUM]) /\ info[used[j % NUM]].status = 0
                                /\ bdisk[info[used[j % NUM]].b] /\ used[j % NUM] # d
    BY <1>3, <1>5 DEF d
  <2>3. ASSUME NEW e, IsHead(e), e # d, bdisk[info[e].b] PROVE bdisk'[info[e].b]
    <3>1. PICK q \in Procs : Busy(q) /\ D(q) = e /\ info[e].b = q
      BY <2>3, Owner, ZenonT(20)
    <3>2. q # b
      BY <1>7, <2>3, <3>1, ZenonT(20)
    <3> QED BY <1>10, <1>11, <2>3, <3>1, <3>2
  <2>4. \A j \in k + 1..u - 1 : (/\ IsHead(used[j % NUM]) /\ info[used[j % NUM]].status = 0
                                 /\ bdisk[info[used[j % NUM]].b])'
    BY <1>10, <1>14, <2>2, <2>3, ZenonT(20)
  <2>5. \A i, j \in k + 1..u - 1 : used[i % NUM] = used[j % NUM] => i = j
    BY <1>3, <1>5, ZenonT(20)
  <2> QED BY <1>3, <1>5, <1>10, <2>1, <2>4, <2>5, ZenonT(20) DEF DoneRight
<1> QED BY <1>5, <1>15, <1>16, <1>17, <1>18, <1>19, <1>20, <1>21, ZenonT(20) DEF DiskInv

\* A command is posted: its descriptors were free, so its head is in no ring,
\* and the avail ring has room for it.
LEMMA SubmitHolds ==
  ASSUME RingSizes, Windows, DiskInv, NEW p \in Procs, Submit(p), ~(Cardinality(free) < 3)
  PROVE  DiskInv'
<1>t. Types /\ ~panic /\ AllocRight /\ BusyRight /\ ChainsApart /\ HeldRight
  BY WindowsOf, ZenonT(20)
<1>1. PICK v \in Nat, a \in Nat : PostedRight(v, a)
  BY WindowsOf, ZenonT(20)
<1>2. PICK k \in Nat, u \in Nat : DoneRight(k, u)
  BY WindowsOf, ZenonT(20)
<1>3. pc[p] = "alloc" /\ ~Busy(p)
  BY ZenonT(20) DEF Submit, Busy
<1>4. PICK d0 \in free, d1 \in free, d2 \in free :
        /\ d0 < d1 /\ d1 < d2
        /\ free' = free \ {d0, d1, d2}
        /\ ops' = [ops EXCEPT ![d0] = [write |-> idx[p] = <<"write">>, block |-> p]]
        /\ next' = [next EXCEPT ![d0] = d1, ![d1] = d2, ![d2] = None]
        /\ info' = [info EXCEPT ![d0] = [b |-> p, status |-> 255]]
        /\ bdisk' = [bdisk EXCEPT ![p] = TRUE]
        /\ avail' = [avail EXCEPT ![a % NUM] = d0] /\ availIdx' = Bump(availIdx)
        /\ idx' = [idx EXCEPT ![p] = <<d0>>]
        /\ pc' = [pc EXCEPT ![p] = "sleep_b"]
  <2>1. availIdx % NUM = a % NUM
    BY <1>1, SlotOf, ZenonT(20) DEF PostedRight
  <2> QED BY <2>1, ZenonT(20) DEF Submit, Lowest, SetDisk
<1>5. UNCHANGED <<used, usedIdx, devIdx, held, disk, data, used_idx, panic>>
  BY ZenonT(20) DEF Submit, device
<1>6. d0 \in Slots /\ d1 \in Slots /\ d2 \in Slots /\ d0 # d1 /\ d0 # d2 /\ d1 # d2
  <2>1. d0 \in Slots /\ d1 \in Slots /\ d2 \in Slots
    BY <1>t, ZenonT(20) DEF Types
  <2> QED BY <1>4, <2>1 DEF Slots, RingSizes
<1>7. /\ next'[d0] = d1 /\ next'[d1] = d2
      /\ \A e \in Slots : e \notin {d0, d1, d2} => next'[e] = next[e]
      /\ next' \in [Slots -> Slots \cup {None}]
  <2>1. next \in [Slots -> Slots \cup {None}]
    BY <1>t, ZenonT(20) DEF Types
  <2> QED BY <1>4, <1>6, <2>1
<1>8. /\ info'[d0].b = p /\ info'[d0].status = 255
      /\ \A e \in Slots : e # d0 => info'[e] = info[e]
      /\ info' \in [Slots -> [b : Procs \cup {None}, status : {0, 255}]]
  <2>1. info \in [Slots -> [b : Procs \cup {None}, status : {0, 255}]]
    BY <1>t, ZenonT(20) DEF Types
  <2> QED BY <1>4, <1>6, <2>1
<1>9. /\ ops'[d0].block = p
      /\ \A e \in Slots : e # d0 => ops'[e] = ops[e]
      /\ ops' \in [Slots -> [write : BOOLEAN, block : Procs \cup {None}]]
  <2>1. ops \in [Slots -> [write : BOOLEAN, block : Procs \cup {None}]]
    BY <1>t, ZenonT(20) DEF Types
  <2>2. (idx[p] = <<"write">>) \in BOOLEAN
    BY ZenonT(20)
  <2>3. [write |-> idx[p] = <<"write">>, block |-> p] \in [write : BOOLEAN, block : Procs \cup {None}]
    BY <2>2, ZenonT(20)
  <2> QED BY <1>4, <1>6, <2>1, <2>3, ZenonT(20)
<1>10. /\ pc' \in [Procs -> Labels] /\ pc'[p] = "sleep_b" /\ \A q \in Procs : q # p => pc'[q] = pc[q]
       /\ bdisk' \in [Procs -> BOOLEAN] /\ bdisk'[p] /\ \A q \in Procs : q # p => bdisk'[q] = bdisk[q]
       /\ idx'[p] = <<d0>> /\ \A q \in Procs : q # p => idx'[q] = idx[q]
       /\ idx' \in [Procs -> Seq(Slots \cup {"read", "write"})]
  <2>1. pc \in [Procs -> Labels] /\ bdisk \in [Procs -> BOOLEAN] /\ "sleep_b" \in Labels
    BY <1>t, ZenonT(20) DEF Types, Labels
  <2>2. idx \in [Procs -> Seq(Slots \cup {"read", "write"})]
    BY <1>t, ZenonT(20) DEF Types
  <2>3. <<d0>> \in Seq(Slots \cup {"read", "write"})
    BY <1>6
  <2>4. idx'[p] = <<d0>> /\ (\A q \in Procs : q # p => idx'[q] = idx[q])
        /\ idx' \in [Procs -> Seq(Slots \cup {"read", "write"})]
    BY <1>4, <2>2, <2>3, ZenonT(20)
  <2>5. pc' \in [Procs -> Labels] /\ pc'[p] = "sleep_b" /\ \A q \in Procs : q # p => pc'[q] = pc[q]
    BY <1>4, <2>1, ZenonT(20)
  <2>6. bdisk' \in [Procs -> BOOLEAN] /\ bdisk'[p] /\ \A q \in Procs : q # p => bdisk'[q] = bdisk[q]
    BY <1>4, <2>1, ZenonT(20)
  <2> QED BY <2>4, <2>5, <2>6, ZenonT(20)
<1>11. Types'
  <2>1. avail' \in [Slots -> Slots]
    BY <1>t, <1>4, <1>6, ZenonT(20) DEF Types
  <2>2. free' \subseteq Slots
    BY <1>t, <1>4, ZenonT(20) DEF Types
  <2> QED BY <1>t, <1>5, <1>7, <1>8, <1>9, <1>10, <2>1, <2>2, ZenonT(20) DEF Types
<1>12. NoPanic'
  BY <1>t, <1>5 DEF NoPanic
<1>13. AllocRight'
  BY <1>t, <1>10 DEF AllocRight
<1>14. /\ Busy(p)' /\ D(p)' = d0 /\ Chain(D(p))' = {d0, d1, d2}
       /\ \A q \in Procs : q # p => Busy(q)' = Busy(q) /\ D(q)' = D(q)
  <2>1. Busy(p)' /\ \A q \in Procs : q # p => Busy(q)' = Busy(q)
    BY <1>10, ZenonT(20) DEF Busy
  <2>2. D(p)' = d0
    BY <1>10 DEF D
  <2>3. \A q \in Procs : q # p => D(q)' = D(q)
    BY <1>10, ZenonT(20) DEF D
  <2>4. Chain(D(p))' = {d0, d1, d2}
    BY <1>7, <2>2, ZenonT(20) DEF Chain
  <2> QED BY <2>1, <2>2, <2>3, <2>4, ZenonT(20)
\* The chains of the others are as they were.
<1>15. ASSUME NEW q \in Procs, Busy(q)
       PROVE  /\ q # p /\ OwnRight(q)' /\ Chain(D(q))' = Chain(D(q)) /\ D(q) \in Slots
              /\ Chain(D(q)) \cap {d0, d1, d2} = {} /\ D(q) # d0
  <2>1. q # p
    BY <1>3, <1>15, ZenonT(20)
  <2>2. OwnRight(q)
    BY <1>t, <1>15, ZenonT(20) DEF BusyRight
  <2>3. /\ D(q) \in Slots /\ next[D(q)] \in Slots /\ next[next[D(q)]] \in Slots
        /\ Chain(D(q)) \cap free = {}
    BY <2>2, ZenonT(20) DEF OwnRight
  <2>4. D(q) \notin {d0, d1, d2} /\ next[D(q)] \notin {d0, d1, d2} /\ next[next[D(q)]] \notin {d0, d1, d2}
    BY <1>4, <2>3 DEF Chain
  <2>5. next'[D(q)] = next[D(q)] /\ next'[next[D(q)]] = next[next[D(q)]]
    BY <1>7, <2>3, <2>4, ZenonT(20)
  <2>6. D(q)' = D(q)
    BY <1>14, <2>1, ZenonT(20)
  <2>7. Chain(D(q))' = Chain(D(q))
    BY <2>5, <2>6, ZenonT(20) DEF Chain
  <2>8. Chain(D(q)) \cap {d0, d1, d2} = {} /\ D(q) # d0
    BY <2>4, ZenonT(20) DEF Chain
  <2>9. info'[D(q)] = info[D(q)] /\ ops'[D(q)] = ops[D(q)] /\ bdisk'[q] = bdisk[q]
    BY <1>8, <1>9, <1>10, <2>1, <2>3, <2>8, ZenonT(20)
  <2>10. Chain(D(q))' \cap free' = {}
    BY <1>4, <2>3, <2>7, ZenonT(20)
  <2>11. OwnRight(q)'
    BY <2>2, <2>5, <2>6, <2>9, <2>10, ZenonT(20) DEF OwnRight
  <2> QED BY <2>1, <2>3, <2>7, <2>8, <2>11, ZenonT(20)
<1>16. BusyRight'
  <2>1. OwnRight(p)'
    <3>1. {d0, d1, d2} \cap free' = {}
      BY <1>4, ZenonT(20)
    <3>2. info'[d0].status # 0 => bdisk'[p]
      BY <1>10, ZenonT(20)
    <3> QED BY <1>6, <1>7, <1>8, <1>9, <1>14, <3>1, <3>2, ZenonT(20) DEF OwnRight
  <2> QED BY <1>14, <1>15, <2>1, ZenonT(20) DEF BusyRight
<1>17. ChainsApart'
  <2>1. SUFFICES ASSUME NEW q \in Procs, NEW r \in Procs, Busy(q)', Busy(r)', q # r
                 PROVE  Chain(D(q))' \cap Chain(D(r))' = {}
    BY ZenonT(20) DEF ChainsApart
  <2>2. CASE q # p /\ r # p
    <3>1. Busy(q) /\ Busy(r)
      BY <1>14, <2>1, <2>2, ZenonT(20)
    <3> QED BY <1>t, <1>15, <2>1, <3>1, ZenonT(20) DEF ChainsApart
  <2>3. CASE q = p
    <3>1. Busy(r)
      BY <1>14, <2>1, <2>3, ZenonT(20)
    <3> QED BY <1>14, <1>15, <2>3, <3>1, ZenonT(20)
  <2>4. CASE r = p
    <3>1. Busy(q)
      BY <1>14, <2>1, <2>4, ZenonT(20)
    <3> QED BY <1>14, <1>15, <2>4, <3>1, ZenonT(20)
  <2> QED BY <2>2, <2>3, <2>4, ZenonT(20)
<1>18. ASSUME NEW e, IsHead(e)
       PROVE  IsHead(e)' /\ e # d0 /\ e \in Slots /\ info'[e] = info[e] /\ info[e].b \in Procs \ {p}
  <2>1. PICK q \in Procs : Busy(q) /\ D(q) = e /\ info[e].b = q
    BY <1>18, Owner, ZenonT(20)
  <2>2. q # p /\ D(q) \in Slots /\ D(q) # d0
    BY <1>15, <2>1, ZenonT(20)
  <2>3. IsHead(e)'
    BY <1>14, <2>1, <2>2, ZenonT(20) DEF IsHead
  <2>4. e \in Slots /\ e # d0
    BY <2>1, <2>2, ZenonT(20)
  <2>5. info[e].b \in Procs \ {p}
    BY <2>1, <2>2, ZenonT(20)
  <2> QED BY <1>8, <2>3, <2>4, <2>5, ZenonT(20)
<1>19. HeldRight'
  BY <1>t, <1>5, <1>18 DEF HeldRight
<1>20. DoneRight(k, u)'
  <2>1. \A j \in k..u - 1 : /\ IsHead(used[j % NUM]) /\ info[used[j % NUM]].status = 0
                            /\ bdisk[info[used[j % NUM]].b]
    BY <1>2, ZenonT(20) DEF DoneRight
  <2>2. \A j \in k..u - 1 : (/\ IsHead(used[j % NUM]) /\ info[used[j % NUM]].status = 0
                             /\ bdisk[info[used[j % NUM]].b])'
    <3>1. SUFFICES ASSUME NEW j \in k..u - 1
                   PROVE  (/\ IsHead(used[j % NUM]) /\ info[used[j % NUM]].status = 0
                           /\ bdisk[info[used[j % NUM]].b])'
      BY ZenonT(20)
    <3>2. PICK e : e = used[j % NUM] /\ IsHead(e) /\ info[e].status = 0 /\ bdisk[info[e].b]
      BY <2>1, ZenonT(20)
    <3>3. IsHead(e)' /\ info'[e] = info[e] /\ bdisk'[info[e].b] = bdisk[info[e].b]
      BY <1>10, <1>18, <3>2, ZenonT(20)
    <3> QED BY <1>5, <3>2, <3>3, ZenonT(20)
  <2> QED BY <1>2, <1>5, <2>2, ZenonT(20) DEF DoneRight
<1>21. PostedRight(v, a + 1)'
  <2>1. /\ v <= a /\ devIdx = v % WIDTH /\ availIdx = a % WIDTH
        /\ \A j \in v..a - 1 : /\ IsHead(avail[j % NUM]) /\ info[avail[j % NUM]].status = 255
                               /\ avail[j % NUM] \notin held
        /\ \A i, j \in v..a - 1 : avail[i % NUM] = avail[j % NUM] => i = j
    BY <1>1, ZenonT(20) DEF PostedRight
  <2>2. \A j \in v..a - 1 : avail[j % NUM] # d0
    <3>1. \A e : IsHead(e) => e # d0
      BY <1>18, ZenonT(20)
    <3>2. \A j \in v..a - 1 : IsHead(avail[j % NUM])
      BY <2>1, ZenonT(20)
    <3> QED BY <3>1, <3>2
  <2>3. avail \in [Slots -> Slots]
    BY <1>t, ZenonT(20) DEF Types
  <2>4. a < v + NUM
    <3>1. d0 \in Slots
      BY <1>6, ZenonT(20)
    <3>2. v <= a /\ \A i, j \in v..a - 1 : avail[i % NUM] = avail[j % NUM] => i = j
      BY <2>1, ZenonT(20)
    <3> QED BY <2>2, <2>3, <3>1, <3>2, ZenonT(40) DEF Windows
  <2>5. \A j \in v..a - 1 : j % NUM # a % NUM /\ j % NUM \in Slots
    <3>1. NUM \in Nat \ {0}
      BY DEF RingSizes
    <3>2. \A j \in v..a - 1 : j \in Nat /\ j < a /\ a < j + NUM
      BY <2>4, <3>1
    <3> QED BY <3>1, <3>2, SameRemainder, SlotIn, ZenonT(20)
  <2>6. a % NUM \in Slots
    BY SlotIn, ZenonT(20)
  <2>7. avail'[a % NUM] = d0 /\ \A j \in v..a - 1 : avail'[j % NUM] = avail[j % NUM]
    BY <1>4, <2>3, <2>5, <2>6
  <2>8. \A j \in v..(a + 1) - 1 : j = a \/ j \in v..a - 1
    BY <2>1
  <2>9. \A j \in v..a - 1 : /\ IsHead(avail[j % NUM]) /\ info'[avail[j % NUM]].status = 255
                            /\ avail[j % NUM] \notin held'
    <3>1. \A j \in v..a - 1 : info'[avail[j % NUM]] = info[avail[j % NUM]]
      BY <1>18, <2>1, ZenonT(20)
    <3> QED BY <1>5, <2>1, <3>1
  <2>10. IsHead(d0)'
    BY <1>14, ZenonT(20) DEF IsHead
  <2>11. d0 \notin held'
    BY <1>t, <1>5, <1>18 DEF HeldRight
  <2>12. \A j \in v..(a + 1) - 1 : (/\ IsHead(avail[j % NUM]) /\ info[avail[j % NUM]].status = 255
                                    /\ avail[j % NUM] \notin held)'
    <3>1. \A j \in v..a - 1 : (/\ IsHead(avail[j % NUM]) /\ info[avail[j % NUM]].status = 255
                               /\ avail[j % NUM] \notin held)'
      <4>1. SUFFICES ASSUME NEW j \in v..a - 1
                     PROVE  (/\ IsHead(avail[j % NUM]) /\ info[avail[j % NUM]].status = 255
                             /\ avail[j % NUM] \notin held)'
        BY ZenonT(20)
      <4>2. PICK e : e = avail[j % NUM] /\ IsHead(e) /\ info'[e].status = 255 /\ e \notin held'
        BY <2>9
      <4>3. avail'[j % NUM] = e /\ IsHead(e)'
        BY <1>18, <2>7, <4>2, ZenonT(20)
      <4> QED BY <4>2, <4>3, ZenonT(20)
    <3>2. (/\ IsHead(avail[a % NUM]) /\ info[avail[a % NUM]].status = 255 /\ avail[a % NUM] \notin held)'
      BY <1>8, <2>7, <2>10, <2>11, ZenonT(20)
    <3> QED BY <2>8, <3>1, <3>2, ZenonT(20)
  <2>13. \A i, j \in v..(a + 1) - 1 : avail'[i % NUM] = avail'[j % NUM] => i = j
    BY <2>1, <2>2, <2>7, <2>8
  <2>14. v <= a + 1 /\ devIdx' = v % WIDTH /\ availIdx' = (a + 1) % WIDTH
    <3>1. v <= a + 1
      BY <2>1
    <3> QED BY <1>4, <1>5, <2>1, <3>1, BumpIs, ZenonT(20)
  <2> QED BY <2>12, <2>13, <2>14 DEF PostedRight
<1>22. a + 1 \in Nat
  OBVIOUS
<1> QED BY <1>11, <1>12, <1>13, <1>16, <1>17, <1>19, <1>20, <1>21, <1>22, ZenonT(20) DEF DiskInv

\* The call returns: it was told that its command is served, so its chain is in
\* no ring any more, and it gives back what only it had.
LEMMA FinishHolds ==
  ASSUME RingSizes, DiskInv, NEW p \in Procs, Finish(p), ~bdisk[p]
  PROVE  DiskInv'
<1>t. Types /\ ~panic /\ AllocRight /\ BusyRight /\ ChainsApart /\ HeldRight
  BY WindowsOf, ZenonT(20)
<1>1. PICK v \in Nat, a \in Nat : PostedRight(v, a)
  BY WindowsOf, ZenonT(20)
<1>2. PICK k \in Nat, u \in Nat : DoneRight(k, u)
  BY WindowsOf, ZenonT(20)
<1>3. pc[p] = "awake" /\ Busy(p)
  BY ZenonT(20) DEF Finish, Busy
<1>4. /\ panic' = (Chain(D(p)) \cap free # {})
      /\ info' = [info EXCEPT ![D(p)].b = None]
      /\ free' = free \cup Chain(D(p))
      /\ next' = [e \in Slots |-> IF e \in Chain(D(p)) THEN None ELSE next[e]]
      /\ idx' = [idx EXCEPT ![p] = <<>>]
      /\ WakeFree(p, "idle")
      /\ UNCHANGED <<ops, avail, availIdx, used, usedIdx, devIdx, held, disk, data, used_idx, bdisk>>
  BY ZenonT(20) DEF Finish, FreeChain, D, device
<1>5. OwnRight(p)
  BY <1>t, <1>3, ZenonT(20) DEF BusyRight
<1>6. /\ D(p) \in Slots /\ next[D(p)] \in Slots /\ next[next[D(p)]] \in Slots
      /\ Chain(D(p)) \cap free = {} /\ info[D(p)].b = p /\ info[D(p)].status = 0
  BY <1>5, ZenonT(20) DEF OwnRight
<1>7. Chain(D(p)) \subseteq Slots /\ D(p) \in Chain(D(p))
  BY <1>6, ZenonT(20) DEF Chain
<1>8. /\ \A e \in Slots : info'[e].status = info[e].status
      /\ \A e \in Slots : e # D(p) => info'[e] = info[e]
      /\ info' \in [Slots -> [b : Procs \cup {None}, status : {0, 255}]]
  <2>1. info \in [Slots -> [b : Procs \cup {None}, status : {0, 255}]]
    BY <1>t, ZenonT(20) DEF Types
  <2> QED BY <1>4, <1>6, <2>1
<1>9. pc \in [Procs -> Labels] /\ idx \in [Procs -> Seq(Slots \cup {"read", "write"})]
  BY <1>t, ZenonT(20) DEF Types
<1>10. /\ pc' \in [Procs -> Labels] /\ pc'[p] = "idle"
       /\ \A q \in Procs : q # p => \/ pc'[q] = pc[q]
                                    \/ pc[q] = "sleep_free" /\ pc'[q] = "alloc"
  BY <1>4, <1>9 DEF WakeFree, Labels
<1>11. /\ idx' \in [Procs -> Seq(Slots \cup {"read", "write"})]
       /\ \A q \in Procs : q # p => idx'[q] = idx[q]
  <2>1. <<>> \in Seq(Slots \cup {"read", "write"})
    OBVIOUS
  <2> QED BY <1>4, <1>9, <2>1, ZenonT(20)
<1>12. Types'
  <2>1. next' \in [Slots -> Slots \cup {None}]
    <3>1. next \in [Slots -> Slots \cup {None}]
      BY <1>t, ZenonT(20) DEF Types
    <3> QED BY <1>4, <3>1
  <2>2. free' \subseteq Slots
    BY <1>t, <1>4, <1>7, ZenonT(20) DEF Types
  <2> QED BY <1>t, <1>4, <1>8, <1>10, <1>11, <2>1, <2>2, ZenonT(20) DEF Types
<1>13. NoPanic'
  <2>1. panic' = (Chain(D(p)) \cap free # {}) /\ Chain(D(p)) \cap free = {}
    BY <1>4, <1>6, ZenonT(20)
  <2> QED BY <2>1, ZenonT(20) DEF NoPanic
<1>14. AllocRight'
  BY <1>t, <1>10, <1>11 DEF AllocRight
<1>15. /\ ~Busy(p)'
       /\ \A q \in Procs : q # p => Busy(q)' = Busy(q) /\ D(q)' = D(q)
  <2>1. ~Busy(p)' /\ \A q \in Procs : q # p => Busy(q)' = Busy(q)
    BY <1>10 DEF Busy
  <2> QED BY <1>11, <2>1, ZenonT(20) DEF D
\* The chains of the others are as they were.
<1>16. ASSUME NEW q \in Procs, Busy(q), q # p
       PROVE  OwnRight(q)' /\ Chain(D(q))' = Chain(D(q)) /\ D(q) \in Slots /\ D(q) # D(p)
  <2>1. OwnRight(q) /\ Chain(D(q)) \cap Chain(D(p)) = {}
    BY <1>t, <1>3, <1>16, ZenonT(20) DEF BusyRight, ChainsApart
  <2>2. /\ D(q) \in Slots /\ next[D(q)] \in Slots /\ next[next[D(q)]] \in Slots
        /\ Chain(D(q)) \cap free = {}
    BY <2>1, ZenonT(20) DEF OwnRight
  <2>3. D(q) \in Chain(D(q)) /\ next[D(q)] \in Chain(D(q)) /\ next[next[D(q)]] \in Chain(D(q))
    BY ZenonT(20) DEF Chain
  <2>4. D(q) \notin Chain(D(p)) /\ next[D(q)] \notin Chain(D(p)) /\ D(q) # D(p)
    BY <1>7, <2>1, <2>3, ZenonT(20)
  <2>5. next'[D(q)] = next[D(q)] /\ next'[next[D(q)]] = next[next[D(q)]]
    BY <1>4, <2>2, <2>4, ZenonT(20)
  <2>6. D(q)' = D(q)
    BY <1>15, <1>16, ZenonT(20)
  <2>7. Chain(D(q))' = Chain(D(q))
    BY <2>5, <2>6, ZenonT(20) DEF Chain
  <2>8. info'[D(q)] = info[D(q)] /\ ops'[D(q)] = ops[D(q)] /\ bdisk'[q] = bdisk[q]
    BY <1>4, <1>8, <2>2, <2>4, ZenonT(20)
  <2>9. Chain(D(q))' \cap free' = {}
    BY <1>4, <2>1, <2>2, <2>7, ZenonT(20)
  <2>10. OwnRight(q)'
    BY <2>1, <2>5, <2>6, <2>8, <2>9, ZenonT(20) DEF OwnRight
  <2> QED BY <2>2, <2>4, <2>7, <2>10, ZenonT(20)
<1>17. BusyRight'
  BY <1>15, <1>16, ZenonT(20) DEF BusyRight
<1>18. ChainsApart'
  <2>1. SUFFICES ASSUME NEW q \in Procs, NEW r \in Procs, Busy(q)', Busy(r)', q # r
                 PROVE  Chain(D(q))' \cap Chain(D(r))' = {}
    BY ZenonT(20) DEF ChainsApart
  <2>2. Busy(q) /\ Busy(r) /\ q # p /\ r # p
    BY <1>15, <2>1, ZenonT(20)
  <2> QED BY <1>t, <1>16, <2>1, <2>2, ZenonT(20) DEF ChainsApart
\* No ring has the chain of p: it is served, and p is not waiting.
<1>19. ASSUME NEW e, IsHead(e), e # D(p)
       PROVE  IsHead(e)' /\ info'[e] = info[e]
  <2>1. PICK q \in Procs : Busy(q) /\ D(q) = e /\ e \in Slots
    BY <1>19, Owner, ZenonT(20)
  <2>2. q # p
    BY <1>19, <2>1, ZenonT(20)
  <2>3. IsHead(e)'
    BY <1>15, <2>1, <2>2, ZenonT(20) DEF IsHead
  <2> QED BY <1>8, <1>19, <2>1, <2>3, ZenonT(20)
<1>20. HeldRight'
  BY <1>t, <1>4, <1>6, <1>19 DEF HeldRight
<1>21. PostedRight(v, a)'
  <2>1. \A j \in v..a - 1 : /\ IsHead(avail[j % NUM]) /\ info[avail[j % NUM]].status = 255
                            /\ avail[j % NUM] \notin held
    BY <1>1, ZenonT(20) DEF PostedRight
  <2>2. \A j \in v..a - 1 : avail[j % NUM] # D(p)
    BY <1>6, <2>1
  <2>3. \A j \in v..a - 1 : (/\ IsHead(avail[j % NUM]) /\ info[avail[j % NUM]].status = 255
                             /\ avail[j % NUM] \notin held)'
    <3>1. SUFFICES ASSUME NEW j \in v..a - 1
                   PROVE  (/\ IsHead(avail[j % NUM]) /\ info[avail[j % NUM]].status = 255
                           /\ avail[j % NUM] \notin held)'
      BY ZenonT(20)
    <3>2. PICK e : e = avail[j % NUM] /\ IsHead(e) /\ info[e].status = 255 /\ e \notin held /\ e # D(p)
      BY <2>1, <2>2
    <3>3. avail'[j % NUM] = e /\ IsHead(e)' /\ info'[e] = info[e] /\ e \notin held'
      BY <1>4, <1>19, <3>2
    <3>4. info'[e].status = 255
      BY <3>2, <3>3, ZenonT(20)
    <3> QED BY <3>3, <3>4, ZenonT(20)
  <2> QED BY <1>1, <1>4, <2>3, ZenonT(20) DEF PostedRight
<1>22. DoneRight(k, u)'
  <2>1. \A j \in k..u - 1 : /\ IsHead(used[j % NUM]) /\ info[used[j % NUM]].status = 0
                            /\ bdisk[info[used[j % NUM]].b]
    BY <1>2, ZenonT(20) DEF DoneRight
  <2>2. \A j \in k..u - 1 : used[j % NUM] # D(p)
    BY <1>6, <2>1, ZenonT(20)
  <2>3. \A j \in k..u - 1 : (/\ IsHead(used[j % NUM]) /\ info[used[j % NUM]].status = 0
                             /\ bdisk[info[used[j % NUM]].b])'
    <3>1. SUFFICES ASSUME NEW j \in k..u - 1
                   PROVE  (/\ IsHead(used[j % NUM]) /\ info[used[j % NUM]].status = 0
                           /\ bdisk[info[used[j % NUM]].b])'
      BY ZenonT(20)
    <3>2. PICK e : e = used[j % NUM] /\ IsHead(e) /\ info[e].status = 0 /\ bdisk[info[e].b] /\ e # D(p)
      BY <2>1, <2>2, ZenonT(20)
    <3>3. IsHead(e)' /\ info'[e] = info[e]
      BY <1>19, <3>2, ZenonT(20)
    <3>4. used' = used /\ bdisk' = bdisk
      BY <1>4, ZenonT(20)
    <3> QED BY <3>2, <3>3, <3>4, ZenonT(20)
  <2> QED BY <1>2, <1>4, <2>3, ZenonT(20) DEF DoneRight
<1> QED BY <1>12, <1>13, <1>14, <1>17, <1>18, <1>20, <1>21, <1>22, ZenonT(20) DEF DiskInv

LEMMA DiskNext == ASSUME RingSizes, Windows, DiskInv, [Next]_vars PROVE DiskInv'
<1>1. ASSUME NEW p \in Procs, Submit(p) PROVE DiskInv'
  <2>1. CASE Cardinality(free) < 3
    BY <1>1, <2>1, NoRoomHolds, ZenonT(20)
  <2>2. CASE ~(Cardinality(free) < 3)
    BY <1>1, <2>2, SubmitHolds, ZenonT(20)
  <2> QED BY <2>1, <2>2, ZenonT(20)
<1>2. ASSUME NEW p \in Procs, Finish(p) PROVE DiskInv'
  BY <1>2, AgainHolds, FinishHolds, ZenonT(20)
<1>3. ASSUME IntrLoop PROVE DiskInv'
  BY <1>3, HandlerHolds, IntrLoopHolds, ZenonT(20)
<1> QED BY <1>1, <1>2, <1>3, StartHolds, KillHolds, FetchHolds, CompleteHolds, HandlerHolds,
           ZenonT(20) DEF Next, Intr

--------------------------------------------------------------------------------
(* Every step is one of DiskCalls, or none.                                  *)

\* What a process asks of DiskCalls.
Asks(p) == IF pc[p] = "idle" THEN "none"
           ELSE IF Busy(p) /\ info[D(p)].status = 0 THEN "served"
           ELSE IF Busy(p) THEN (IF ops[D(p)].write THEN "write" ELSE "read")
           ELSE D(p)

LEMMA CalledIs == Called = [p \in Procs |-> Asks(p)]
BY ZenonT(20) DEF Called, Asks, D

\* One process asks for something else, and the others for what they did.
LEMMA OneAsks ==
  ASSUME NEW p \in Procs, \A q \in Procs : q # p => Asks(q)' = Asks(q)
  PROVE  Called' = [Called EXCEPT ![p] = Asks(p)']
<1>1. Called' = [q \in Procs |-> Asks(q)'] /\ Called = [q \in Procs |-> Asks(q)]
  BY CalledIs, ZenonT(20) DEF Called, Asks, D, Busy
<1> HIDE DEF Called, Asks
<1> QED BY <1>1, ZenonT(20)

LEMMA NoneAsks ==
  ASSUME \A q \in Procs : Asks(q)' = Asks(q), UNCHANGED <<disk, data>>
  PROVE  UNCHANGED Calls!dvars
<1>1. Called' = [q \in Procs |-> Asks(q)'] /\ Called = [q \in Procs |-> Asks(q)]
  BY CalledIs, ZenonT(20) DEF Called, Asks, D, Busy
<1>2. Called' = Called
  BY <1>1, ZenonT(20)
<1> QED BY <1>2, ZenonT(20) DEF Calls!dvars

\* A process that is where it was, as far as this matters, asks for what it did.
LEMMA SameAsk ==
  ASSUME NEW q \in Procs, idx'[q] = idx[q],
         \/ pc'[q] = pc[q]
         \/ pc[q] \in {"sleep_b", "awake"} /\ pc'[q] \in {"sleep_b", "awake"}
         \/ pc[q] \in {"alloc", "sleep_free"} /\ pc'[q] \in {"alloc", "sleep_free"},
         Busy(q) => /\ info'[D(q)].status = info[D(q)].status
                    /\ ops'[D(q)].write = ops[D(q)].write
  PROVE  Asks(q)' = Asks(q)
<1>1. Busy(q)' = Busy(q) /\ (pc'[q] = "idle" <=> pc[q] = "idle")
  BY SMT DEF Busy
<1>2. D(q)' = D(q)
  BY ZenonT(20) DEF D
<1> QED BY <1>1, <1>2, ZenonT(20) DEF Asks

LEMMA StartStep == ASSUME DiskInv, NEW p \in Procs, Start(p) PROVE Calls!Start(p)
<1>1. /\ pc[p] = "idle" /\ pc' = [pc EXCEPT ![p] = "alloc"]
      /\ \/ idx' = [idx EXCEPT ![p] = <<"read">>] /\ UNCHANGED data
         \/ /\ idx' = [idx EXCEPT ![p] = <<"write">>]
            /\ \E v \in Vals : data' = [data EXCEPT ![p] = v]
      /\ UNCHANGED <<disk, info, ops>>
  BY ZenonT(20) DEF Start
<1>2. pc \in [Procs -> Labels] /\ idx \in [Procs -> Seq(Slots \cup {"read", "write"})]
  BY ZenonT(20) DEF DiskInv, Types
<1>3. \A q \in Procs : q # p => Asks(q)' = Asks(q)
  <2>1. \A q \in Procs : q # p => pc'[q] = pc[q] /\ idx'[q] = idx[q]
    BY <1>1, <1>2, ZenonT(20)
  <2> QED BY <1>1, <2>1, SameAsk, ZenonT(20)
<1>4. Called[p] = "none"
  BY <1>1, CalledIs, ZenonT(20) DEF Asks
<1>5. pc'[p] = "alloc"
  BY <1>1, <1>2, ZenonT(20)
<1>6. Asks(p)' = idx'[p][1]
  <2>1. pc'[p] # "idle" /\ ~Busy(p)'
    BY <1>5 DEF Busy
  <2> QED BY <2>1, ZenonT(20) DEF Asks, D
<1>7. Called' = [Called EXCEPT ![p] = idx'[p][1]]
  BY <1>3, <1>6, OneAsks, ZenonT(20)
<1>8. CASE idx' = [idx EXCEPT ![p] = <<"read">>] /\ UNCHANGED data
  <2>1. idx'[p] = <<"read">>
    BY <1>2, <1>8, ZenonT(20)
  <2>2. idx'[p][1] = "read"
    BY <2>1
  <2> QED BY <1>1, <1>4, <1>7, <1>8, <2>2, ZenonT(20) DEF Calls!Start
<1>9. CASE idx' = [idx EXCEPT ![p] = <<"write">>] /\ \E v \in Vals : data' = [data EXCEPT ![p] = v]
  <2>1. idx'[p] = <<"write">>
    BY <1>2, <1>9, ZenonT(20)
  <2>2. idx'[p][1] = "write"
    BY <2>1
  <2> QED BY <1>1, <1>4, <1>7, <1>9, <2>2, ZenonT(20) DEF Calls!Start
<1> QED BY <1>1, <1>8, <1>9, ZenonT(20)

\* Steps of calls under way: asleep for descriptors, woken, killed.
LEMMA MoveStep ==
  ASSUME UNCHANGED <<ops, info, disk, data, idx>>,
         \A q \in Procs : \/ pc'[q] = pc[q]
                          \/ pc[q] \in {"sleep_b", "awake"} /\ pc'[q] \in {"sleep_b", "awake"}
                          \/ pc[q] \in {"alloc", "sleep_free"} /\ pc'[q] \in {"alloc", "sleep_free"}
  PROVE  UNCHANGED Calls!dvars
<1>1. \A q \in Procs : Asks(q)' = Asks(q)
  BY SameAsk, ZenonT(20)
<1> QED BY <1>1, NoneAsks, ZenonT(20)

LEMMA QuietStep ==
  ASSUME DiskInv,
         \/ \E p \in Procs : \/ Kill(p)
                             \/ Submit(p) /\ Cardinality(free) < 3
                             \/ Finish(p) /\ bdisk[p]
         \/ Fetch \/ Intr \/ UNCHANGED vars
  PROVE  UNCHANGED Calls!dvars
<1>t. pc \in [Procs -> Labels]
  BY ZenonT(20) DEF DiskInv, Types
<1>1. ASSUME NEW p \in Procs, Kill(p) PROVE UNCHANGED Calls!dvars
  <2>1. /\ pc[p] \in {"sleep_b", "sleep_free"}
        /\ pc' = [pc EXCEPT ![p] = IF pc[p] = "sleep_b" THEN "awake" ELSE "alloc"]
        /\ UNCHANGED <<ops, info, disk, data, idx>>
    BY <1>1, ZenonT(20) DEF Kill, driver, device
  <2>2. \A q \in Procs : \/ pc'[q] = pc[q]
                         \/ pc[q] \in {"sleep_b", "awake"} /\ pc'[q] \in {"sleep_b", "awake"}
                         \/ pc[q] \in {"alloc", "sleep_free"} /\ pc'[q] \in {"alloc", "sleep_free"}
    BY <1>t, <2>1
  <2> QED BY <2>1, <2>2, MoveStep, ZenonT(20)
<1>2. ASSUME NEW p \in Procs, Submit(p), Cardinality(free) < 3 PROVE UNCHANGED Calls!dvars
  <2>1. /\ pc[p] = "alloc" /\ (pc' = [pc EXCEPT ![p] = "sleep_free"] \/ WakeFree(p, "sleep_free"))
        /\ UNCHANGED <<ops, info, disk, data, idx>>
    BY <1>2, ZenonT(20) DEF Submit, device
  <2>2. \A q \in Procs : \/ pc'[q] = pc[q]
                         \/ pc[q] \in {"alloc", "sleep_free"} /\ pc'[q] \in {"alloc", "sleep_free"}
    BY <1>t, <2>1 DEF WakeFree
  <2> QED BY <2>1, <2>2, MoveStep, ZenonT(20)
<1>3. ASSUME NEW p \in Procs, Finish(p), bdisk[p] PROVE UNCHANGED Calls!dvars
  <2>1. /\ pc[p] = "awake" /\ pc' = [pc EXCEPT ![p] = "sleep_b"]
        /\ UNCHANGED <<ops, info, disk, data, idx>>
    BY <1>3, ZenonT(20) DEF Finish, driver, device
  <2>2. \A q \in Procs : \/ pc'[q] = pc[q]
                         \/ pc[q] \in {"sleep_b", "awake"} /\ pc'[q] \in {"sleep_b", "awake"}
    BY <1>t, <2>1
  <2> QED BY <2>1, <2>2, MoveStep, ZenonT(20)
<1>4. ASSUME Fetch \/ Claim \/ IntrStart \/ IntrEnd \/ UNCHANGED vars PROVE UNCHANGED Calls!dvars
  <2>1. UNCHANGED <<ops, info, disk, data, idx, pc>>
    BY <1>4, ZenonT(20) DEF Fetch, Claim, IntrStart, IntrEnd, vars, driver, device
  <2> QED BY <2>1, MoveStep, ZenonT(20)
<1>5. ASSUME IntrLoop PROVE UNCHANGED Calls!dvars
  <2>1. /\ UNCHANGED <<ops, info, disk, data, idx>>
        /\ \/ UNCHANGED pc
           \/ \E c : pc' = [pc EXCEPT ![c] = IF pc[c] = "sleep_b" THEN "awake" ELSE pc[c]]
    BY <1>5, ZenonT(20) DEF IntrLoop, Wakeup, driver, device
  <2>2. \A q \in Procs : \/ pc'[q] = pc[q]
                         \/ pc[q] \in {"sleep_b", "awake"} /\ pc'[q] \in {"sleep_b", "awake"}
    BY <1>t, <2>1
  <2> QED BY <2>1, <2>2, MoveStep, ZenonT(20)
<1> QED BY <1>1, <1>2, <1>3, <1>4, <1>5, ZenonT(20) DEF Intr

\* Posting a command changes nothing that DiskCalls knows of.
LEMMA SubmitStep ==
  ASSUME DiskInv, NEW p \in Procs, Submit(p), ~(Cardinality(free) < 3)
  PROVE  UNCHANGED Calls!dvars
<1>1. PICK d \in free :
        /\ ops' = [ops EXCEPT ![d] = [write |-> idx[p] = <<"write">>, block |-> p]]
        /\ info' = [info EXCEPT ![d] = [b |-> p, status |-> 255]]
        /\ idx' = [idx EXCEPT ![p] = <<d>>]
        /\ pc' = [pc EXCEPT ![p] = "sleep_b"]
  BY ZenonT(20) DEF Submit, Lowest
<1>2. UNCHANGED <<disk, data>> /\ pc[p] = "alloc"
  BY ZenonT(20) DEF Submit, device
<1>3. /\ pc \in [Procs -> Labels] /\ idx \in [Procs -> Seq(Slots \cup {"read", "write"})]
      /\ info \in [Slots -> [b : Procs \cup {None}, status : {0, 255}]]
      /\ ops \in [Slots -> [write : BOOLEAN, block : Procs \cup {None}]]
      /\ free \subseteq Slots /\ AllocRight
  BY ZenonT(20) DEF DiskInv, Types
<1>4. \A q \in Procs : q # p => Asks(q)' = Asks(q)
  <2>1. SUFFICES ASSUME NEW q \in Procs, q # p PROVE Asks(q)' = Asks(q)
    BY ZenonT(20)
  <2>2. pc'[q] = pc[q] /\ idx'[q] = idx[q]
    BY <1>1, <1>3, <2>1, ZenonT(20)
  <2>3. ASSUME Busy(q) PROVE info'[D(q)] = info[D(q)] /\ ops'[D(q)] = ops[D(q)]
    <3>1. D(q) \in Slots /\ D(q) \notin free
      BY <2>3, Owner, ZenonT(20) DEF IsHead
    <3>2. D(q) # d
      BY <3>1, ZenonT(20)
    <3> QED BY <1>1, <1>3, <3>1, <3>2, ZenonT(20)
  <2> QED BY <2>2, <2>3, SameAsk, ZenonT(20)
<1>5. d \in Slots /\ pc'[p] = "sleep_b" /\ idx'[p] = <<d>>
  <2>1. d \in Slots /\ pc'[p] = "sleep_b"
    BY <1>1, <1>3
  <2>2. idx'[p] = <<d>>
    BY <1>1, <1>3
  <2> QED BY <2>1, <2>2, ZenonT(20)
<1>6. Busy(p)' /\ pc'[p] # "idle"
  BY <1>5 DEF Busy
<1>7. D(p)' = d
  BY <1>5 DEF D
<1>8. info'[d].status # 0
  <2>1. info'[d] = [b |-> p, status |-> 255]
    BY <1>1, <1>3, <1>5, ZenonT(20)
  <2> QED BY <2>1
<1>9. ops'[d].write <=> idx[p] = <<"write">>
  <2>1. ops'[d] = [write |-> idx[p] = <<"write">>, block |-> p]
    BY <1>1, <1>3, <1>5, ZenonT(20)
  <2>2. [write |-> idx[p] = <<"write">>, block |-> p].write = (idx[p] = <<"write">>)
    BY ZenonT(20)
  <2> QED BY <2>1, <2>2, ZenonT(20)
<1>10. Asks(p)' = IF idx[p] = <<"write">> THEN "write" ELSE "read"
  BY <1>6, <1>7, <1>8, <1>9, ZenonT(20) DEF Asks
<1>11. Asks(p) = idx[p][1]
  <2>1. pc[p] # "idle" /\ ~Busy(p)
    BY <1>2 DEF Busy
  <2> QED BY <2>1, ZenonT(20) DEF Asks, D
<1>12. idx[p][1] = IF idx[p] = <<"write">> THEN "write" ELSE "read"
  <2>1. idx[p] = <<"read">> \/ idx[p] = <<"write">>
    BY <1>2, <1>3, ZenonT(20) DEF AllocRight
  <2> QED BY <2>1
<1>13. \A q \in Procs : Asks(q)' = Asks(q)
  BY <1>4, <1>10, <1>11, <1>12, ZenonT(20)
<1> QED BY <1>2, <1>13, NoneAsks, ZenonT(20)

\* The device serves what the call asked for, and only that.
LEMMA CompleteStep ==
  ASSUME DiskInv, NEW d \in Slots, Complete(d)
  PROVE  \E p \in Procs : Calls!Serve(p)
<1>1. d \in held /\ info' = [info EXCEPT ![d].status = 0] /\ UNCHANGED <<ops, idx, pc>>
  BY ZenonT(20) DEF Complete, driver
<1>2. IsHead(d) /\ info[d].status = 255
  <2>1. d \in held
    BY ZenonT(20) DEF Complete
  <2> QED BY <2>1, HeldIs
<1>3. PICK p \in Procs : /\ Busy(p) /\ D(p) = d /\ d \in Slots /\ d \notin free
                         /\ info[d].b = p /\ ops[d].block = p
  BY <1>2, Owner, ZenonT(20)
<1>4. info \in [Slots -> [b : Procs \cup {None}, status : {0, 255}]]
  BY ZenonT(20) DEF DiskInv, Types
<1>5. info'[d].status = 0 /\ \A e \in Slots : e # d => info'[e] = info[e]
  BY <1>1, <1>4
<1>6. \A q \in Procs : q # p => Asks(q)' = Asks(q)
  <2>1. SUFFICES ASSUME NEW q \in Procs, q # p PROVE Asks(q)' = Asks(q)
    BY ZenonT(20)
  <2>2. ASSUME Busy(q) PROVE info'[D(q)] = info[D(q)]
    <3>1. D(q) \in Slots /\ info[D(q)].b = q
      BY <2>2, ZenonT(20) DEF DiskInv, BusyRight, OwnRight
    <3>2. info[D(p)].b = p
      BY <1>3, ZenonT(20) DEF DiskInv, BusyRight, OwnRight
    <3>3. D(q) # d
      BY <1>3, <2>1, <3>1, <3>2, ZenonT(20)
    <3> QED BY <1>5, <3>1, <3>3, ZenonT(20)
  <2> QED BY <1>1, <2>2, SameAsk, ZenonT(20)
<1>7. pc[p] # "idle" /\ info[d].status # 0
  BY <1>2, <1>3 DEF Busy
<1>8. Busy(p)' /\ pc'[p] # "idle" /\ D(p)' = d
  BY <1>1, <1>3, <1>7, ZenonT(20) DEF Busy, D
<1>9. Called' = [Called EXCEPT ![p] = "served"]
  <2>1. Asks(p)' = "served"
    BY <1>5, <1>8, ZenonT(20) DEF Asks
  <2> QED BY <1>6, <2>1, OneAsks, ZenonT(20)
<1>10. Called[p] = IF ops[d].write THEN "write" ELSE "read"
  <2>1. Called[p] = Asks(p)
    BY CalledIs, ZenonT(20)
  <2> QED BY <1>3, <1>7, <2>1, ZenonT(20) DEF Asks
<1>11. IF ops[d].write THEN disk' = [disk EXCEPT ![p] = data[p]] /\ UNCHANGED data
                       ELSE data' = [data EXCEPT ![p] = disk[p]] /\ UNCHANGED disk
  BY <1>3, ZenonT(20) DEF Complete
<1>12. Calls!Serve(p)
  BY <1>9, <1>10, <1>11, ZenonT(20) DEF Calls!Serve
<1> QED BY <1>12, ZenonT(20)

\* A call returns only when it is served.
LEMMA FinishStep ==
  ASSUME DiskInv, NEW p \in Procs, Finish(p), ~bdisk[p]
  PROVE  Calls!Return(p)
<1>1. /\ pc[p] = "awake" /\ info' = [info EXCEPT ![D(p)].b = None]
      /\ idx' = [idx EXCEPT ![p] = <<>>] /\ WakeFree(p, "idle")
      /\ UNCHANGED <<ops, disk, data>>
  BY ZenonT(20) DEF Finish, D, device
<1>2. /\ pc \in [Procs -> Labels] /\ idx \in [Procs -> Seq(Slots \cup {"read", "write"})]
      /\ info \in [Slots -> [b : Procs \cup {None}, status : {0, 255}]]
  BY ZenonT(20) DEF DiskInv, Types
<1>3. Busy(p) /\ pc[p] # "idle"
  BY <1>1 DEF Busy
<1>4. D(p) \in Slots /\ info[D(p)].status = 0
  <2>1. OwnRight(p)
    BY <1>3, ZenonT(20) DEF DiskInv, BusyRight
  <2> QED BY <2>1, ZenonT(20) DEF OwnRight
<1>5. Called[p] = "served"
  <2>1. Called[p] = Asks(p)
    BY CalledIs, ZenonT(20)
  <2> QED BY <1>3, <1>4, <2>1, ZenonT(20) DEF Asks
<1>6. \A e \in Slots : info'[e].status = info[e].status
  BY <1>1, <1>2, <1>4
<1>7. /\ pc'[p] = "idle"
      /\ \A q \in Procs : q # p => \/ pc'[q] = pc[q]
                                   \/ pc[q] = "sleep_free" /\ pc'[q] = "alloc"
  BY <1>1, <1>2 DEF WakeFree
<1>8. \A q \in Procs : q # p => Asks(q)' = Asks(q)
  <2>1. SUFFICES ASSUME NEW q \in Procs, q # p PROVE Asks(q)' = Asks(q)
    BY ZenonT(20)
  <2>2. idx'[q] = idx[q]
    BY <1>1, <1>2, <2>1, ZenonT(20)
  <2>3. Busy(q) => info'[D(q)].status = info[D(q)].status
    <3>1. Busy(q) => D(q) \in Slots
      BY ZenonT(20) DEF DiskInv, BusyRight, OwnRight
    <3> QED BY <1>6, <3>1, ZenonT(20)
  <2> QED BY <1>1, <1>7, <2>1, <2>2, <2>3, SameAsk, ZenonT(20)
<1>9. Called' = [Called EXCEPT ![p] = "none"]
  <2>1. Asks(p)' = "none"
    BY <1>7, ZenonT(20) DEF Asks
  <2> QED BY <1>8, <2>1, OneAsks, ZenonT(20)
<1> QED BY <1>1, <1>5, <1>9, ZenonT(20) DEF Calls!Return

LEMMA CallsInit == ASSUME RingSizes, Init PROVE Calls!Init
<1>1. disk \in [Procs -> Vals] /\ data \in [Procs -> Vals]
  BY DiskInit, ZenonT(20) DEF DiskInv, Types
<1>2. \A p \in Procs : Asks(p) = "none"
  BY ZenonT(20) DEF Init, Asks
<1>3. Called = [p \in Procs |-> "none"]
  BY <1>2, CalledIs, ZenonT(20)
<1> QED BY <1>1, <1>3, ZenonT(20) DEF Calls!Init

LEMMA CallsNext == ASSUME DiskInv, [Next]_vars PROVE [Calls!Next]_(Calls!dvars)
<1>1. ASSUME NEW p \in Procs, Submit(p) PROVE UNCHANGED Calls!dvars
  BY <1>1, QuietStep, SubmitStep, ZenonT(20)
<1>2. ASSUME NEW p \in Procs, Finish(p) PROVE UNCHANGED Calls!dvars \/ Calls!Return(p)
  BY <1>2, QuietStep, FinishStep, ZenonT(20)
<1>3. ASSUME \/ \E p \in Procs : Kill(p)
             \/ Fetch \/ Intr \/ UNCHANGED vars
      PROVE UNCHANGED Calls!dvars
  BY <1>3, QuietStep, ZenonT(20)
<1> QED BY <1>1, <1>2, <1>3, StartStep, CompleteStep, ZenonT(20) DEF Next, Calls!Next

--------------------------------------------------------------------------------
(* Counting the entries of a ring, and the theorems.                         *)

INSTANCE FiniteSetTheorems

LEMMA WindowsFit == ASSUME RingSizes PROVE Windows
<1>1. SUFFICES ASSUME NEW lo \in Nat, NEW hi \in Nat, NEW ring \in [Slots -> Slots], NEW e \in Slots,
                      lo <= hi, \A j \in lo..hi - 1 : ring[j % NUM] # e,
                      \A i, j \in lo..hi - 1 : ring[i % NUM] = ring[j % NUM] => i = j,
                      ~(hi < lo + NUM)
               PROVE  FALSE
  BY ZenonT(20) DEF Windows
<1> DEFINE S == lo..hi - 1
           T == Slots \ {e}
           f == [j \in S |-> ring[j % NUM]]
<1>2. NUM \in Nat /\ NUM >= 3
  BY ZenonT(20) DEF RingSizes
<1>3. f \in [S -> T]
  <2>1. \A j \in S : j \in Nat
    OBVIOUS
  <2>2. \A j \in S : j % NUM \in Slots
    BY <2>1, SlotIn, ZenonT(20)
  <2> QED BY <1>1, <2>2, ZenonT(20)
<1>4. IsFiniteSet(Slots) /\ Cardinality(Slots) = NUM
  <2>1. 0 \in Int /\ NUM - 1 \in Int /\ ~(0 > NUM - 1) /\ (NUM - 1) - 0 + 1 = NUM
    BY <1>2
  <2> QED BY <2>1, FS_Interval, ZenonT(20) DEF Slots
<1>5. IsFiniteSet(T) /\ Cardinality(T) = NUM - 1
  BY <1>4, FS_RemoveElement, ZenonT(20)
<1>6. IsFiniteSet(S) /\ Cardinality(S) = hi - lo
  <2>1. lo \in Int /\ hi - 1 \in Int /\ ~(lo > hi - 1) /\ (hi - 1) - lo + 1 = hi - lo
    BY <1>1, <1>2
  <2> QED BY <2>1, FS_Interval, ZenonT(20)
<1>7. Cardinality(T) < Cardinality(S)
  <2>1. NUM - 1 < hi - lo
    BY <1>1, <1>2
  <2> QED BY <1>5, <1>6, <2>1, ZenonT(20)
<1> HIDE DEF S, T, f
<1>8. PICK x \in S, y \in S : x # y /\ f[x] = f[y]
  BY <1>3, <1>5, <1>6, <1>7, FS_PigeonHole, ZenonT(20)
<1> QED BY <1>1, <1>8, ZenonT(20) DEF S, f

\* The driver keeps its invariant: every descriptor has one owner, and every
\* command is in one place, on its way to the device or back.
THEOREM DiskSafe == ASSUME RingSizes PROVE Spec => []DiskInv
<1>1. Init => DiskInv
  BY DiskInit, ZenonT(20)
<1>2. DiskInv /\ [Next]_vars => DiskInv'
  BY DiskNext, WindowsFit, ZenonT(20)
<1> QED BY <1>1, <1>2, PTL DEF Spec

\* The panics of virtio_disk.c ("free_desc 2", "virtio_disk_intr status") and its
\* use of a null info[id].b are not reached.
THEOREM DriverNoPanic == ASSUME RingSizes PROVE Spec => []NoPanic
<1>1. DiskInv => NoPanic
  BY ZenonT(20) DEF DiskInv
<1> QED BY <1>1, DiskSafe, PTL

\* Whatever the order in which the device serves commands, however calls, kills
\* and interrupts interleave and wherever the 16-bit indices wrap: a call of
\* virtio_disk_rw returns only after its transfer was carried out, exactly once.
THEOREM DriverServes == ASSUME RingSizes PROVE Spec => DiskServesCalls
<1>1. Init => Calls!Init
  BY CallsInit, ZenonT(20)
<1>2. DiskInv /\ [Next]_vars => [Calls!Next]_(Calls!dvars)
  BY CallsNext, ZenonT(20)
<1> QED BY <1>1, <1>2, DiskSafe, DriverNoPanic, PTL DEF Spec, Calls!Spec, DiskServesCalls

=============================================================================
