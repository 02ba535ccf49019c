---------------------------- MODULE BcacheProofs ----------------------------
(***************************************************************************)
(* Proofs about Bcache, for any number of processes, blocks and buffers.   *)
(***************************************************************************)
EXTENDS Bcache, FiniteSetTheorems, TLAPS

\* A second and a third call, for a leaf the first gives up on.
USE SMTT(30), Z3T(30), SMTT(60)

--------------------------------------------------------------------------------
(* The inductive invariant.                                                  *)

Labels == {"idle", "acquire", "asleep", "bread", "own", "brelse", "panic"}
Refs(i) == {p \in Ptrs : b[p] = i}

Struct == [blockno : Blocks \cup {None}, valid : BOOLEAN, refcnt : Nat, data : Vals \cup {None}]

Types ==
    /\ buf \in [Bufs -> Struct]
    /\ lock \in [Bufs -> Ptrs \cup {None}]
    /\ disk \in [Blocks -> Vals]
    /\ pc \in [Ptrs -> Labels] /\ b \in [Ptrs -> Bufs \cup {None}]
    /\ dirty \subseteq Bufs /\ pinned \subseteq Bufs

\* The count of a buffer is the number of calls that use it, and one for a pin.
CountsRight ==
    \A i \in Bufs : buf[i].refcnt = Cardinality(Refs(i)) + (IF i \in pinned THEN 1 ELSE 0)

\* A block is in one buffer, and a buffer in use has a block.
OneCopy ==
    /\ \A i, j \in Bufs : buf[i].blockno = buf[j].blockno /\ buf[i].blockno # None => i = j
    /\ \A p \in Ptrs : /\ b[p] = None <=> pc[p] \in {"idle", "panic"}
                       /\ b[p] # None => buf[b[p]].blockno # None

\* A process waits for a lock only while someone holds it.
Waits == \A p \in Ptrs : pc[p] = "asleep" => lock[b[p]] \notin {None, p}

\* The lock of a buffer is held exactly by the process whose place says so, and
\* whoever waits for it waits for another.
LocksRight ==
    /\ \A i \in Bufs, p \in Ptrs : lock[i] = p <=> b[p] = i /\ pc[p] \in {"bread", "own"}
    /\ Waits

\* A valid buffer that is not dirty agrees with the disk; a dirty one is pinned,
\* or its owner has still to write or to pin it.
DataRight ==
    /\ \A p \in Ptrs : pc[p] = "own" => buf[b[p]].valid
    /\ \A i \in Bufs :
         /\ buf[i].valid => buf[i].blockno # None /\ buf[i].data \in Vals
         /\ buf[i].valid /\ i \notin dirty => buf[i].data = disk[buf[i].blockno]
         /\ i \in dirty => buf[i].valid /\ (i \in pinned \/ \E p \in Ptrs : pc[p] = "own" /\ b[p] = i)

CacheInv == Types /\ CountsRight /\ OneCopy /\ LocksRight /\ DataRight

--------------------------------------------------------------------------------
(* Reference counts.                                                         *)

\* The two pointers of a process.
LEMMA OtherPtr == \A c \in Ptrs : /\ Other(c) \in Ptrs /\ Other(c) # c /\ Other(Other(c)) = c
                                  /\ \A d \in Ptrs : d[1] = c[1] => d = c \/ d = Other(c)
  BY DEF Ptrs, Other

LEMMA RefsFinite == ASSUME CacheSizes, NEW i
                    PROVE  IsFiniteSet(Refs(i)) /\ Cardinality(Refs(i)) \in Nat
<1>1. Refs(i) \subseteq Ptrs
  BY ZenonT(20) DEF Refs
<1>2. IsFiniteSet(Ptrs)
  <2>1. IsFiniteSet({1, 2})
    <3>1. IsFiniteSet(1..2)
      <4>1. 1 \in Int /\ 2 \in Int
        OBVIOUS
      <4> QED BY <4>1, FS_Interval, ZenonT(20)
    <3>2. {1, 2} = 1..2
      OBVIOUS
    <3> QED BY <3>1, <3>2, ZenonT(20)
  <2> QED BY <2>1, FS_Product, ZenonT(20) DEF Ptrs, CacheSizes
<1> QED BY <1>1, <1>2, FS_Subset, FS_CardinalityType, ZenonT(20)

\* A buffer whose count is zero is used by no call and not pinned.
LEMMA ZeroIsUnused == ASSUME CacheSizes, CountsRight, NEW i \in Unused
                      PROVE  i \in Bufs /\ i \notin pinned /\ \A p \in Ptrs : b[p] # i
<1>1. i \in Bufs /\ buf[i].refcnt = 0
  BY ZenonT(20) DEF Unused
<1>2. Cardinality(Refs(i)) \in Nat /\ IsFiniteSet(Refs(i))
  BY RefsFinite, ZenonT(20)
<1>3. i \notin pinned /\ Cardinality(Refs(i)) = 0
  BY <1>1, <1>2 DEF CountsRight
<1>4. Refs(i) = {}
  BY <1>2, <1>3, FS_EmptySet, ZenonT(20)
<1> QED BY <1>1, <1>3, <1>4, ZenonT(20) DEF Refs

LEMMA CountsStay ==
  ASSUME CountsRight, b' = b, pinned' = pinned, \A i \in Bufs : buf'[i].refcnt = buf[i].refcnt
  PROVE  CountsRight'
BY ZenonT(20) DEF CountsRight, Refs

\* bget adds a user to the buffer it finds.
LEMMA CountsUp ==
  ASSUME CacheSizes, CountsRight, NEW p \in Ptrs, NEW i \in Bufs, b[p] = None, b \in [Ptrs -> Bufs \cup {None}],
         b' = [b EXCEPT ![p] = i], pinned' = pinned, buf'[i].refcnt = buf[i].refcnt + 1,
         \A j \in Bufs \ {i} : buf'[j].refcnt = buf[j].refcnt
  PROVE  CountsRight'
<1>1. Refs(i)' = Refs(i) \cup {p} /\ p \notin Refs(i)
  BY DEF Refs, CacheSizes
<1>2. Cardinality(Refs(i)') = Cardinality(Refs(i)) + 1
  <2>1. IsFiniteSet(Refs(i))
    BY RefsFinite
  <2> QED BY ZenonT(20), <1>1, <2>1, FS_AddElement
<1>3. \A j \in Bufs \ {i} : Refs(j)' = Refs(j)
  BY DEF Refs, CacheSizes
<1>4. Cardinality(Refs(i)) \in Nat
  BY RefsFinite
<1>5. buf'[i].refcnt = Cardinality(Refs(i)') + (IF i \in pinned' THEN 1 ELSE 0)
  BY <1>2, <1>4 DEF CountsRight
<1>6. \A j \in Bufs \ {i} : buf'[j].refcnt = Cardinality(Refs(j)') + (IF j \in pinned' THEN 1 ELSE 0)
  BY <1>3 DEF CountsRight
<1> QED BY <1>5, <1>6, ZenonT(20) DEF CountsRight

\* brelse takes one away.
LEMMA CountsDown ==
  ASSUME CacheSizes, CountsRight, NEW p \in Ptrs, NEW i \in Bufs, b[p] = i, b \in [Ptrs -> Bufs \cup {None}],
         b' = [b EXCEPT ![p] = None], pinned' = pinned, buf'[i].refcnt = buf[i].refcnt - 1,
         \A j \in Bufs \ {i} : buf'[j].refcnt = buf[j].refcnt
  PROVE  CountsRight'
<1>1. Refs(i)' = Refs(i) \ {p} /\ p \in Refs(i)
  BY DEF Refs, CacheSizes
<1>2. Cardinality(Refs(i)') = Cardinality(Refs(i)) - 1
  <2>1. IsFiniteSet(Refs(i))
    BY RefsFinite
  <2> QED BY ZenonT(20), <1>1, <2>1, FS_RemoveElement
<1>3. \A j \in Bufs \ {i} : Refs(j)' = Refs(j)
  BY DEF Refs, CacheSizes
<1>4. Cardinality(Refs(i)) \in Nat
  BY RefsFinite
<1>5. buf'[i].refcnt = Cardinality(Refs(i)') + (IF i \in pinned' THEN 1 ELSE 0)
  BY <1>2, <1>4 DEF CountsRight
<1>6. \A j \in Bufs \ {i} : buf'[j].refcnt = Cardinality(Refs(j)') + (IF j \in pinned' THEN 1 ELSE 0)
  BY <1>3 DEF CountsRight
<1> QED BY <1>5, <1>6 DEF CountsRight

\* bpin and bunpin change the count and the pin together.
LEMMA CountsPin ==
  ASSUME CacheSizes, CountsRight, NEW i \in Bufs, b' = b,
         \/ i \notin pinned /\ pinned' = pinned \cup {i} /\ buf'[i].refcnt = buf[i].refcnt + 1
         \/ i \in pinned /\ pinned' = pinned \ {i} /\ buf'[i].refcnt = buf[i].refcnt - 1,
         \A j \in Bufs \ {i} : buf'[j].refcnt = buf[j].refcnt
  PROVE  CountsRight'
<1>1. \A j \in Bufs : Refs(j)' = Refs(j)
  BY DEF Refs
<1>2. \A j \in Bufs : Cardinality(Refs(j)) \in Nat
  BY RefsFinite, ZenonT(20)
<1> QED BY <1>1, <1>2 DEF CountsRight

--------------------------------------------------------------------------------
(* Every step keeps the invariant.                                           *)

LEMMA CacheInit == CacheSizes /\ Init => CacheInv
<1> SUFFICES ASSUME CacheSizes, Init PROVE CacheInv
  BY ZenonT(20)
<1> USE DEF Init, CacheSizes
<1>1. Types
  BY ZenonT(20) DEF Types, Struct, Labels
<1>2. CountsRight
  <2>1. \A i \in Bufs : Refs(i) = {} /\ i \notin pinned
    BY ZenonT(20) DEF Refs
  <2>2. \A i \in Bufs : Cardinality(Refs(i)) = 0
    BY ZenonT(20), <2>1, FS_EmptySet
  <2>3. \A i \in Bufs : buf[i].refcnt = 0
    BY ZenonT(20)
  <2> QED BY <2>1, <2>2, <2>3 DEF CountsRight
<1>3. OneCopy /\ LocksRight /\ DataRight
  BY ZenonT(20) DEF OneCopy, LocksRight, Waits, DataRight
<1> QED BY <1>1, <1>2, <1>3, ZenonT(20) DEF CacheInv

\* What a buffer holds, whatever its count.
SameData == \A j \in Bufs : /\ buf'[j].blockno = buf[j].blockno
                            /\ buf'[j].valid = buf[j].valid
                            /\ buf'[j].data = buf[j].data

\* A process that is about to take a buffer, or a waiter, holds nothing.
LEMMA BgetHolds == ASSUME CacheSizes, CacheInv, NEW p \in Ptrs, NEW k \in Blocks, Bget(p, k)
                   PROVE  CacheInv'
<1>0. Types /\ CountsRight /\ OneCopy /\ LocksRight /\ DataRight
  BY ZenonT(20) DEF CacheInv
<1>1. /\ pc[p] = "idle" /\ b[p] = None
      /\ lock' = lock /\ disk' = disk /\ dirty' = dirty /\ pinned' = pinned
  BY <1>0, ZenonT(20) DEF Bget, OneCopy
<1>2. ASSUME NEW i \in Cached(k), buf' = [buf EXCEPT ![i].refcnt = @ + 1],
             b' = [b EXCEPT ![p] = i], Goto(p, "acquire")
      PROVE  CacheInv'
  <2>1. /\ i \in Bufs /\ buf[i].blockno = k /\ SameData
        /\ buf'[i].refcnt = buf[i].refcnt + 1 /\ \A j \in Bufs \ {i} : buf'[j].refcnt = buf[j].refcnt
    BY <1>0, <1>2 DEF Cached, SameData, Types
  <2>2. Types'
    BY <1>0, <1>1, <1>2, <2>1 DEF Types, Struct, Goto, Labels
  <2>3. CountsRight'
    <3>1. b \in [Ptrs -> Bufs \cup {None}]
      BY <1>0 DEF Types
    <3> QED BY ZenonT(20), <1>0, <1>1, <1>2, <2>1, <3>1, CountsUp
  <2>4. OneCopy'
    BY <1>0, <1>1, <1>2, <2>1 DEF Types, OneCopy, Goto, SameData, CacheSizes
  <2>5. LocksRight'
    BY <1>0, <1>1, <1>2, <2>1 DEF Types, LocksRight, Waits, Goto, CacheSizes
  <2>6. DataRight'
    BY <1>0, <1>1, <1>2, <2>1 DEF Types, DataRight, Goto, SameData
  <2> QED BY <2>2, <2>3, <2>4, <2>5, <2>6, ZenonT(20) DEF CacheInv
<1>3. ASSUME Cached(k) = {}, NEW i \in Victims, buf' = [buf EXCEPT ![i] = Recycled(i, k)],
             b' = [b EXCEPT ![p] = i], Goto(p, "acquire")
      PROVE  CacheInv'
  <2>1. i \in Unused
    BY <1>3 DEF Victims
  <2>2. i \in Bufs /\ i \notin pinned /\ \A q \in Ptrs : b[q] # i
    BY <1>0, <2>1, ZeroIsUnused
  <2>3. /\ buf'[i].blockno = k /\ buf'[i].valid = FALSE /\ buf'[i].refcnt = 1
        /\ buf'[i].data = buf[i].data /\ \A j \in Bufs \ {i} : buf'[j] = buf[j]
    BY <1>0, <1>3, <2>2 DEF Types, Recycled
  <2>4. i \notin dirty /\ buf[i].refcnt = 0
    BY <1>0, <2>1, <2>2, ZenonT(20) DEF DataRight, Unused
  <2>5. Types'
    <3>0. 1 \in Nat /\ buf[i] \in Struct
      BY <1>0, <2>2, ZenonT(20) DEF Types
    <3>1. Recycled(i, k) \in Struct
      BY ZenonT(20), <3>0 DEF Struct, Recycled
    <3> QED BY <1>0, <1>1, <1>3, <2>2, <3>1, ZenonT(20) DEF Types, Goto, Labels
  <2>6. CountsRight'
    <3>1. /\ b \in [Ptrs -> Bufs \cup {None}] /\ buf'[i].refcnt = buf[i].refcnt + 1
          /\ \A j \in Bufs \ {i} : buf'[j].refcnt = buf[j].refcnt
      BY <1>0, <2>3, <2>4 DEF Types
    <3> QED BY ZenonT(20), <1>0, <1>1, <1>3, <2>2, <3>1, CountsUp
  <2>7. OneCopy'
    BY <1>0, <1>1, <1>3, <2>2, <2>3 DEF Types, OneCopy, Goto, CacheSizes, Cached
  <2>8. LocksRight'
    BY <1>0, <1>1, <1>3, <2>2 DEF Types, LocksRight, Waits, Goto, CacheSizes
  <2>9. DataRight'
    BY <1>0, <1>1, <1>3, <2>2, <2>3, <2>4 DEF Types, DataRight, Goto
  <2> QED BY <2>5, <2>6, <2>7, <2>8, <2>9 DEF CacheInv
<1>4. ASSUME Goto(p, "panic"), UNCHANGED <<buf, b>> PROVE CacheInv'
  <2>1. Types'
    BY <1>0, <1>1, <1>4, ZenonT(20) DEF Types, Goto, Labels
  <2>2. CountsRight'
    BY <1>0, <1>1, <1>4, CountsStay, ZenonT(20)
  <2>3. OneCopy' /\ LocksRight' /\ DataRight'
    BY <1>0, <1>1, <1>4 DEF Types, OneCopy, LocksRight, Waits, DataRight, Goto, CacheSizes
  <2> QED BY <2>1, <2>2, <2>3, ZenonT(20) DEF CacheInv
<1> QED BY <1>2, <1>3, <1>4, ZenonT(20) DEF Bget

LEMMA AcquiresleepHolds == ASSUME CacheSizes, CacheInv, NEW p \in Ptrs, Acquiresleep(p)
                           PROVE  CacheInv'
<1>0. Types /\ CountsRight /\ OneCopy /\ LocksRight /\ DataRight
  BY ZenonT(20) DEF CacheInv
<1>1. /\ pc[p] = "acquire" /\ b[p] \in Bufs
      /\ buf' = buf /\ b' = b /\ disk' = disk /\ dirty' = dirty /\ pinned' = pinned
  BY <1>0, ZenonT(20) DEF Acquiresleep, OneCopy, Types
<1>2. CountsRight'
  BY <1>0, <1>1, CountsStay, ZenonT(20)
<1>3. CASE lock[b[p]] = None
  <2>1. lock' = [lock EXCEPT ![b[p]] = p] /\ pc' = [pc EXCEPT ![p] = "bread"]
    BY <1>3, ZenonT(20) DEF Acquiresleep, Goto
  <2>2. Types'
    BY <1>0, <1>1, <2>1, ZenonT(20) DEF Types, Labels
  <2>3. OneCopy' /\ DataRight'
    BY <1>0, <1>1, <2>1 DEF Types, OneCopy, DataRight
  <2>4. LocksRight'
    BY <1>0, <1>1, <1>3, <2>1 DEF Types, LocksRight, Waits, CacheSizes
  <2> QED BY <1>2, <2>2, <2>3, <2>4, ZenonT(20) DEF CacheInv
<1>4. CASE lock[b[p]] # None
  <2>1. lock' = lock /\ pc' = [pc EXCEPT ![p] = "asleep"]
    BY <1>4, ZenonT(20) DEF Acquiresleep, Goto
  <2>2. Types'
    BY <1>0, <1>1, <2>1, ZenonT(20) DEF Types, Labels
  <2>3. OneCopy' /\ DataRight'
    BY <1>0, <1>1, <2>1 DEF Types, OneCopy, DataRight
  <2>4. LocksRight'
    BY <1>0, <1>1, <1>4, <2>1 DEF Types, LocksRight, Waits, CacheSizes
  <2> QED BY <1>2, <2>2, <2>3, <2>4 DEF CacheInv
<1> QED BY <1>3, <1>4, ZenonT(20)

LEMMA BreadHolds == ASSUME CacheSizes, CacheInv, NEW p \in Ptrs, Bread(p) PROVE CacheInv'
<1>0. Types /\ CountsRight /\ OneCopy /\ LocksRight /\ DataRight
  BY DEF CacheInv
<1> DEFINE i == b[p]
<1>1. /\ pc[p] = "bread" /\ i \in Bufs /\ buf[i].blockno \in Blocks /\ pc' = [pc EXCEPT ![p] = "own"]
      /\ lock' = lock /\ b' = b /\ disk' = disk /\ dirty' = dirty /\ pinned' = pinned
  BY <1>0, ZenonT(20) DEF Bread, OneCopy, Types, Struct, Goto
<1>2. /\ buf' \in [Bufs -> Struct] /\ \A j \in Bufs \ {i} : buf'[j] = buf[j]
      /\ buf'[i].blockno = buf[i].blockno /\ buf'[i].refcnt = buf[i].refcnt
      /\ buf'[i].valid = TRUE
      /\ buf'[i].data = (IF buf[i].valid THEN buf[i].data ELSE disk[buf[i].blockno])
  <2> DEFINE x == [buf[i] EXCEPT !.valid = TRUE,
                                 !.data = IF buf[i].valid THEN buf[i].data ELSE disk[buf[i].blockno]]
  <2>1. buf[i] \in Struct /\ disk[buf[i].blockno] \in Vals
    BY <1>0, <1>1, ZenonT(20) DEF Types
  <2>2. /\ x \in Struct /\ x.blockno = buf[i].blockno /\ x.refcnt = buf[i].refcnt /\ x.valid = TRUE
        /\ x.data = (IF buf[i].valid THEN buf[i].data ELSE disk[buf[i].blockno])
    BY ZenonT(20), <2>1 DEF Struct
  <2>3. buf' = [buf EXCEPT ![i] = x]
    BY ZenonT(20), <1>0, <1>1 DEF Bread, Types
  <2> HIDE DEF x
  <2> QED BY <1>0, <1>1, <2>2, <2>3, ZenonT(20) DEF Types
<1> HIDE DEF i
<1>3. Types'
  BY <1>0, <1>1, <1>2, ZenonT(20) DEF Types, Labels
<1>4. CountsRight'
  BY <1>0, <1>1, <1>2, CountsStay, ZenonT(20)
<1>5. OneCopy' /\ LocksRight'
  BY <1>0, <1>1, <1>2 DEF Types, OneCopy, LocksRight, Waits, i
<1>6. DataRight'
  BY <1>0, <1>1, <1>2 DEF Types, OneCopy, LocksRight, DataRight, i
<1> QED BY <1>3, <1>4, <1>5, <1>6, ZenonT(20) DEF CacheInv

LEMMA ChangeHolds == ASSUME CacheSizes, CacheInv, NEW p \in Ptrs, NEW v \in Vals, Change(p, v) PROVE CacheInv'
<1>0. Types /\ CountsRight /\ OneCopy /\ LocksRight /\ DataRight
  BY DEF CacheInv
<1> DEFINE i == b[p]
<1>1. /\ pc[p] = "own" /\ i \in Bufs /\ pc' = pc /\ dirty' = dirty \cup {i}
      /\ lock' = lock /\ b' = b /\ disk' = disk /\ pinned' = pinned
  BY <1>0, ZenonT(20) DEF Change, OneCopy, Types
<1>2. /\ buf' \in [Bufs -> Struct] /\ \A j \in Bufs \ {i} : buf'[j] = buf[j]
      /\ buf'[i].blockno = buf[i].blockno /\ buf'[i].refcnt = buf[i].refcnt
      /\ buf'[i].valid = buf[i].valid /\ buf'[i].data = v
  BY <1>0, <1>1 DEF Change, Types, Struct
<1> HIDE DEF i
<1>3. Types'
  BY <1>0, <1>1, <1>2, ZenonT(20) DEF Types, Labels
<1>4. CountsRight'
  BY <1>0, <1>1, <1>2, CountsStay, ZenonT(20)
<1>5. OneCopy' /\ LocksRight'
  BY <1>0, <1>1, <1>2 DEF Types, OneCopy, LocksRight, Waits
<1>6. DataRight'
  <2>1. ASSUME NEW j \in Bufs, j # i
        PROVE  /\ buf'[j] = buf[j] /\ (j \in dirty' <=> j \in dirty)
    BY <1>1, <1>2, <2>1, ZenonT(20)
  <2>2. buf[i].valid /\ buf[i].blockno # None
    BY <1>0, <1>1, ZenonT(20) DEF DataRight, i
  <2>3. \A q \in Ptrs : pc'[q] = "own" => buf'[b'[q]].valid
    <3>1. \A q \in Ptrs : pc[q] = "own" => b[q] \in Bufs /\ buf[b[q]].valid
      BY <1>0 DEF Types, DataRight, OneCopy
    <3> QED BY ZenonT(20), <1>1, <1>2, <2>1, <2>2, <3>1
  <2> QED BY <1>0, <1>1, <1>2, <2>1, <2>2, <2>3 DEF DataRight, i
<1> QED BY <1>3, <1>4, <1>5, <1>6, ZenonT(20) DEF CacheInv

LEMMA BwriteHolds == ASSUME CacheSizes, CacheInv, NEW p \in Ptrs, Bwrite(p) PROVE CacheInv'
<1>0. Types /\ CountsRight /\ OneCopy /\ LocksRight /\ DataRight
  BY DEF CacheInv
<1> DEFINE i == b[p]
<1>1. /\ pc[p] = "own" /\ i \in Bufs /\ pc' = pc /\ dirty' = dirty \ {i} /\ buf' = buf
      /\ buf[i].blockno \in Blocks /\ buf[i].valid /\ buf[i].data \in Vals
      /\ lock' = lock /\ b' = b /\ pinned' = pinned /\ disk' = [disk EXCEPT ![buf[i].blockno] = buf[i].data]
  BY <1>0, ZenonT(20) DEF Bwrite, OneCopy, Types, Struct, DataRight
<1> HIDE DEF i
<1>3. Types'
  BY <1>0, <1>1, ZenonT(20) DEF Types
<1>4. CountsRight'
  BY <1>0, <1>1, CountsStay, ZenonT(20)
<1>5. OneCopy' /\ LocksRight'
  BY <1>0, <1>1 DEF OneCopy, LocksRight, Waits
<1>6. DataRight'
  BY <1>0, <1>1 DEF Types, Struct, OneCopy, DataRight
<1> QED BY <1>3, <1>4, <1>5, <1>6 DEF CacheInv

LEMMA PinHolds == ASSUME CacheSizes, CacheInv, NEW p \in Ptrs, Bpin(p) \/ Bunpin(p) PROVE CacheInv'
<1>0. Types /\ CountsRight /\ OneCopy /\ LocksRight /\ DataRight
  BY ZenonT(20) DEF CacheInv
<1> DEFINE i == b[p]
<1>1. /\ pc[p] = "own" /\ i \in Bufs /\ pc' = pc /\ dirty' = dirty
      /\ lock' = lock /\ b' = b /\ disk' = disk
  BY <1>0, ZenonT(20) DEF Bpin, Bunpin, OneCopy, Types
<1>2. buf[i].refcnt \in Nat /\ (i \in pinned => buf[i].refcnt > 0)
  <2>1. Cardinality(Refs(i)) \in Nat
    BY RefsFinite, ZenonT(20)
  <2> QED BY <1>0, <1>1, <2>1 DEF CountsRight
<1>3. /\ buf' \in [Bufs -> Struct] /\ SameData
      /\ \A j \in Bufs \ {i} : buf'[j].refcnt = buf[j].refcnt
      /\ \/ i \notin pinned /\ pinned' = pinned \cup {i} /\ buf'[i].refcnt = buf[i].refcnt + 1
         \/ i \in pinned /\ pinned' = pinned \ {i} /\ buf'[i].refcnt = buf[i].refcnt - 1
  <2>1. ASSUME NEW n \in Nat, buf' = [buf EXCEPT ![i].refcnt = n]
        PROVE  /\ buf' \in [Bufs -> Struct] /\ SameData /\ buf'[i].refcnt = n
               /\ \A j \in Bufs \ {i} : buf'[j].refcnt = buf[j].refcnt
    BY <1>0, <1>1, <2>1 DEF Types, Struct, SameData
  <2>2. CASE Bpin(p)
    <3>1. /\ buf' = [buf EXCEPT ![i].refcnt = buf[i].refcnt + 1]
          /\ i \notin pinned /\ pinned' = pinned \cup {i}
      BY <2>2, ZenonT(20) DEF Bpin
    <3>2. buf[i].refcnt + 1 \in Nat
      BY <1>2
    <3> QED BY <2>1, <3>1, <3>2, ZenonT(20)
  <2>3. CASE Bunpin(p)
    <3>1. /\ buf' = [buf EXCEPT ![i].refcnt = buf[i].refcnt - 1]
          /\ i \in pinned /\ pinned' = pinned \ {i}
      BY <2>3, ZenonT(20) DEF Bunpin
    <3>2. buf[i].refcnt - 1 \in Nat
      BY <1>2, <3>1
    <3> QED BY <2>1, <3>1, <3>2, ZenonT(20)
  <2> QED BY <2>2, <2>3, ZenonT(20)
<1> HIDE DEF i
<1>4. Types'
  BY <1>0, <1>1, <1>3 DEF Types
<1>5. CountsRight'
  BY ZenonT(20), <1>0, <1>1, <1>3, CountsPin
<1>6. OneCopy' /\ LocksRight'
  BY <1>0, <1>1, <1>3 DEF Types, OneCopy, LocksRight, Waits, SameData
<1>7. DataRight'
  <2>1. \A q \in Ptrs : pc'[q] = "own" => buf'[b'[q]].valid
    BY <1>0, <1>1, <1>3 DEF Types, DataRight, SameData, OneCopy
  <2>2. \A j \in Bufs \ {i} : j \in pinned' <=> j \in pinned
    BY <1>3
  <2>3. i \in dirty => \E q \in Ptrs : pc'[q] = "own" /\ b'[q] = i
    BY <1>1 DEF i
  <2> QED BY <1>0, <1>1, <1>3, <2>1, <2>2, <2>3 DEF DataRight, SameData
<1> QED BY <1>4, <1>5, <1>6, <1>7, ZenonT(20) DEF CacheInv

LEMMA ReleasesleepHolds == ASSUME CacheSizes, CacheInv, NEW p \in Ptrs, Releasesleep(p) PROVE CacheInv'
<1>0. Types /\ CountsRight /\ OneCopy /\ LocksRight /\ DataRight
  BY DEF CacheInv
<1> DEFINE i == b[p]
<1>1. /\ pc[p] = "own" /\ i \in Bufs /\ i \notin dirty \ pinned /\ lock' = [lock EXCEPT ![i] = None]
      /\ buf' = buf /\ b' = b /\ disk' = disk /\ dirty' = dirty /\ pinned' = pinned
  BY <1>0 DEF Releasesleep, OneCopy, Types
<1>2. /\ pc' \in [Ptrs -> Labels] /\ pc'[p] = "brelse"
      /\ \A q \in Ptrs \ {p} : pc'[q] = IF pc[q] = "asleep" /\ b[q] = i THEN "acquire" ELSE pc[q]
  BY <1>0 DEF Releasesleep, Wakeup, Types, Labels
<1> HIDE DEF i
<1>3. Types'
  BY <1>0, <1>1, <1>2 DEF Types
<1>4. CountsRight'
  BY <1>0, <1>1, CountsStay
<1>5. OneCopy'
  BY <1>0, <1>1, <1>2 DEF OneCopy, i
<1>6. LocksRight'
  BY <1>0, <1>1, <1>2 DEF Types, LocksRight, Waits, CacheSizes, OneCopy, i
<1>7. DataRight'
  BY <1>0, <1>1, <1>2 DEF DataRight, i
<1> QED BY <1>3, <1>4, <1>5, <1>6, <1>7 DEF CacheInv

LEMMA BrelseHolds == ASSUME CacheSizes, CacheInv, NEW p \in Ptrs, Brelse(p) PROVE CacheInv'
<1>0. Types /\ CountsRight /\ OneCopy /\ LocksRight /\ DataRight
  BY DEF CacheInv
<1> DEFINE i == b[p]
<1>1. /\ pc[p] = "brelse" /\ i \in Bufs /\ b' = [b EXCEPT ![p] = None] /\ pc' = [pc EXCEPT ![p] = "idle"]
      /\ lock' = lock /\ disk' = disk /\ dirty' = dirty /\ pinned' = pinned
  BY <1>0, ZenonT(20) DEF Brelse, OneCopy, Types, Goto
<1>2. buf[i].refcnt \in Nat /\ buf[i].refcnt > 0
  <2>1. p \in Refs(i)
    BY ZenonT(20) DEF Refs
  <2>2. Cardinality(Refs(i)) \in Nat /\ Cardinality(Refs(i)) # 0
    BY <2>1, RefsFinite, FS_EmptySet, ZenonT(20)
  <2> QED BY <1>0, <1>1, <2>2 DEF CountsRight
<1>3. /\ buf' \in [Bufs -> Struct] /\ SameData
      /\ buf'[i].refcnt = buf[i].refcnt - 1 /\ \A j \in Bufs \ {i} : buf'[j].refcnt = buf[j].refcnt
  BY <1>0, <1>1, <1>2 DEF Brelse, DropRef, Types, Struct, SameData
<1> HIDE DEF i
<1>4. Types'
  BY <1>0, <1>1, <1>3, ZenonT(20) DEF Types, Labels
<1>5. CountsRight'
  <2>1. b \in [Ptrs -> Bufs \cup {None}] /\ b[p] = i
    BY <1>0, ZenonT(20) DEF Types, i
  <2> QED BY ZenonT(20), <1>0, <1>1, <1>3, <2>1, CountsDown
<1>6. OneCopy' /\ LocksRight'
  BY <1>0, <1>1, <1>3 DEF Types, OneCopy, LocksRight, Waits, SameData, CacheSizes
<1>7. DataRight'
  <2>1. \A q \in Ptrs : /\ pc'[q] = "own" <=> pc[q] = "own"
                        /\ pc[q] = "own" => b'[q] = b[q] /\ b[q] \in Bufs
    BY <1>0, <1>1, ZenonT(20) DEF Types, OneCopy
  <2> QED BY <1>0, <1>1, <1>3, <2>1 DEF DataRight, SameData
<1> QED BY <1>4, <1>5, <1>6, <1>7 DEF CacheInv

LEMMA CacheNext == CacheSizes /\ CacheInv /\ [Next]_vars => CacheInv'
<1> SUFFICES ASSUME CacheSizes, CacheInv, [Next]_vars PROVE CacheInv'
  BY ZenonT(20)
<1>1. ASSUME NEW p \in Ptrs, Step(p) PROVE CacheInv'
  BY <1>1, BgetHolds, AcquiresleepHolds, BreadHolds, ChangeHolds, BwriteHolds, PinHolds,
     ReleasesleepHolds, BrelseHolds, ZenonT(20) DEF Step
<1>2. CASE UNCHANGED vars
  BY <1>2 DEF vars, CacheInv, Types, CountsRight, Refs, OneCopy, LocksRight, Waits, DataRight
<1> QED BY <1>1, <1>2, ZenonT(20) DEF Next

\* The cache keeps its invariant.
THEOREM CacheSafe == ASSUME CacheSizes PROVE Spec => []CacheInv
<1>1. Init => CacheInv
  BY CacheInit, ZenonT(20)
<1>2. CacheInv /\ [Next]_vars => CacheInv'
  BY CacheNext, ZenonT(20)
<1> QED BY <1>1, <1>2, PTL DEF Spec

\* The two buffers of a process are different ones.
TwoBuffers == \A p \in Ptrs : b[p] # None => b[Other(p)] # b[p]

LEMMA TwoBuffersNext == ASSUME CacheSizes, CacheInv, TwoBuffers, [Next]_vars PROVE TwoBuffers'
<1>0. Types /\ CountsRight /\ OneCopy
  BY ZenonT(20) DEF CacheInv
<1>1. ASSUME NEW p \in Ptrs, NEW i \in Bufs \cup {None}, b' = [b EXCEPT ![p] = i],
             i # None => b[Other(p)] # i
      PROVE  TwoBuffers'
  BY <1>0, <1>1, OtherPtr DEF Types, TwoBuffers
<1>2. CASE b' = b
  BY <1>2, ZenonT(20) DEF TwoBuffers
<1>3. ASSUME NEW p \in Ptrs, NEW k \in Blocks, Turn(p), Bget(p, k), b' # b PROVE TwoBuffers'
  <2> DEFINE o == Other(p)
  <2>0. o \in Ptrs
    BY OtherPtr, ZenonT(20)
  <2>1. PICK i \in Bufs : /\ b' = [b EXCEPT ![p] = i]
                          /\ i \in Unused \/ buf[i].blockno = k
    BY <1>3, ZenonT(20) DEF Bget, Cached, Victims, Unused
  <2>2. CASE i \in Unused
    <3>1. b[o] # i
      BY <1>0, <2>0, <2>2, ZeroIsUnused, ZenonT(20)
    <3> QED BY <1>1, <2>1, <3>1, ZenonT(20)
  <2>3. CASE buf[i].blockno = k /\ b[o] = i
    <3>1. pc[o] # "idle"
      BY <1>0, <2>0, <2>3, ZenonT(20) DEF OneCopy, CacheSizes
    <3>2. <<k, k>> \in Nests
      BY <1>3, <2>3, <3>1, ZenonT(20) DEF Bget
    <3> QED BY <3>2, ZenonT(20) DEF CacheSizes
  <2> HIDE DEF o
  <2>4. CASE b[o] # i
    BY <1>1, <2>1, <2>4, ZenonT(20) DEF o
  <2> QED BY <2>1, <2>2, <2>3, <2>4, ZenonT(20)
<1>4. ASSUME NEW p \in Ptrs, Brelse(p) PROVE TwoBuffers'
  BY <1>1, <1>4, ZenonT(20) DEF Brelse
<1>5. ASSUME NEW p \in Ptrs, Step(p) PROVE TwoBuffers'
  BY <1>2, <1>3, <1>4, <1>5, ZenonT(20)
     DEF Step, Acquiresleep, Bread, Bwrite, Bunpin, Bpin, Releasesleep, Change
<1> QED BY <1>2, <1>5, ZenonT(20) DEF Next, vars

\* acquiresleep and releasesleep lose no wakeup: whoever sleeps for the lock of a
\* buffer sleeps while another process holds it, however many processes, blocks
\* and buffers there are; with a buffer in hand, nobody waits for itself.
THEOREM SleepersHaveHolder == ASSUME CacheSizes PROVE Spec => []NoLostWakeup
<1>1. CacheInv /\ TwoBuffers => NoLostWakeup
  <2> SUFFICES ASSUME CacheInv, TwoBuffers, NEW c \in Ptrs, pc[c] = "asleep"
               PROVE  lock[b[c]] # None /\ lock[b[c]][1] # c[1]
    BY ZenonT(20) DEF NoLostWakeup
  <2>0. Types /\ OneCopy /\ LocksRight
    BY ZenonT(20) DEF CacheInv
  <2>1. b[c] \in Bufs /\ b[c] # None
    BY <2>0, ZenonT(20) DEF Types, OneCopy
  <2>2. lock[b[c]] \in Ptrs /\ lock[b[c]] # c /\ b[lock[b[c]]] = b[c]
    <3>1. lock[b[c]] \in Ptrs /\ lock[b[c]] # c
      <4>1. lock[b[c]] \in Ptrs \cup {None}
        BY <2>0, <2>1, ZenonT(20) DEF Types
      <4>2. lock[b[c]] \notin {None, c}
        BY <2>0, ZenonT(20) DEF LocksRight, Waits
      <4> QED BY <4>1, <4>2, ZenonT(20)
    <3> QED BY <2>0, <2>1, <3>1, ZenonT(20) DEF LocksRight
  <2>3. b[Other(c)] # b[c]
    BY <2>0, <2>1, ZenonT(20) DEF TwoBuffers
  <2>4. lock[b[c]][1] # c[1]
    BY <2>2, <2>3, OtherPtr, ZenonT(20)
  <2> QED BY <2>0, <2>1, <2>4, ZenonT(20) DEF LocksRight, Waits
<1>2. Init => TwoBuffers
  BY ZenonT(20) DEF Init, TwoBuffers
<1>3. CacheInv /\ TwoBuffers /\ [Next]_vars => TwoBuffers'
  BY TwoBuffersNext, ZenonT(20)
<1> QED BY <1>1, <1>2, <1>3, CacheSafe, PTL DEF Spec

--------------------------------------------------------------------------------
(* When bget may panic.                                                      *)

\* With no buffer free, each one is pinned or in the hands of a call.
LEMMA AllInUse == ASSUME CacheSizes, CacheInv, Unused = {}
                  PROVE  AllHeld
<1> SUFFICES ASSUME NEW i \in Bufs, i \notin pinned PROVE \E d \in Ptrs : b[d] = i
  BY ZenonT(20) DEF AllHeld
<1>1. buf[i].refcnt # 0
  BY ZenonT(20) DEF Unused
<1>2. Cardinality(Refs(i)) # 0
  BY <1>1 DEF CacheInv, CountsRight
<1>3. PICK d \in Refs(i) : TRUE
  BY <1>2, FS_EmptySet, ZenonT(20)
<1> QED BY <1>3, ZenonT(20) DEF Refs

\* bget panics ("bget: no buffers") only when every buffer is pinned by the log or
\* in use by a call that has still to release it, however many buffers, blocks and
\* processes there are and whatever a process asks for with a buffer in hand.
THEOREM PanicsOnlyWhenFull == ASSUME CacheSizes PROVE Spec => BuffersSuffice
<1>1. ASSUME CacheInv, [Next]_vars
      PROVE  [\A c \in Ptrs : pc[c] # "panic" /\ pc'[c] = "panic" => AllHeld]_vars
  <2> SUFFICES ASSUME NEW q \in Ptrs, Step(q), NEW p \in Ptrs, pc[p] # "panic", pc'[p] = "panic"
               PROVE  AllHeld
    BY <1>1, ZenonT(20) DEF Next
  <2>1. pc \in [Ptrs -> Labels]
    BY <1>1, ZenonT(20) DEF CacheInv, Types
  <2>2. \E k \in Blocks : Bget(q, k)
    <3>1. ~(Bwrite(q) \/ Bunpin(q) \/ Bpin(q) \/ \E v \in Vals : Change(q, v))
      BY ZenonT(20) DEF Bwrite, Bunpin, Bpin, Change
    <3>2. ~(Acquiresleep(q) \/ Bread(q) \/ Brelse(q))
      <4>1. ASSUME NEW l \in Labels \ {"panic"}, Goto(q, l) PROVE FALSE
        BY <2>1, <4>1, ZenonT(20) DEF Goto
      <4>2. {"acquire", "asleep", "bread", "own", "idle"} \subseteq Labels \ {"panic"}
        BY ZenonT(20) DEF Labels
      <4> QED BY ZenonT(20), <4>1, <4>2 DEF Acquiresleep, Bread, Brelse
    <3>3. ~Releasesleep(q)
      BY ZenonT(20) DEF Releasesleep, Wakeup
    <3> QED BY <3>1, <3>2, <3>3, ZenonT(20) DEF Step
  <2>3. Unused = {}
    BY <2>1, <2>2, ZenonT(20) DEF Bget, Goto
  <2> QED BY <1>1, <2>3, AllInUse, ZenonT(20)
<1> QED BY <1>1, CacheSafe, PTL DEF Spec, BuffersSuffice

--------------------------------------------------------------------------------
(* The cache implements the store of blocks.                                 *)

Valid(i, k) == buf[i].blockno = k /\ buf[i].valid
Owns(p, k) == pc[p] = "own" /\ buf[b[p]].blockno = k

\* What the mapping makes of a state: the content of a block is that of its valid
\* copy, or else that of the disk; its owner is the one process that has it.
ViewsRight ==
    /\ Content \in [Blocks -> Vals] /\ Owner \in [Blocks -> Ptrs \cup {None}]
    /\ \A k \in Blocks, i \in Bufs : Valid(i, k) => Content[k] = buf[i].data
    /\ \A k \in Blocks : (\A i \in Bufs : ~Valid(i, k)) => Content[k] = disk[k]
    /\ \A k \in Blocks, p \in Ptrs : Owns(p, k) <=> Owner[k] = p

LEMMA Views == CacheSizes => (CacheInv => ViewsRight)
<1> SUFFICES ASSUME CacheSizes, CacheInv PROVE ViewsRight
  BY ZenonT(20)
<1>0. Types /\ OneCopy /\ LocksRight /\ DataRight
  BY ZenonT(20) DEF CacheInv
<1>1. ASSUME NEW k \in Blocks
      PROVE  /\ Content[k] \in Vals
             /\ \A i \in Bufs : Valid(i, k) => Content[k] = buf[i].data
             /\ (\A i \in Bufs : ~Valid(i, k)) => Content[k] = disk[k]
  <2>0. k # None
    BY ZenonT(20) DEF CacheSizes
  <2>1. CASE \A i \in Bufs : ~Valid(i, k)
    <3>1. Copy(k) = {}
      BY <2>1, ZenonT(20) DEF Copy, Cached, Valid
    <3>2. Content[k] = disk[k]
      BY <3>1, ZenonT(20) DEF Content
    <3> QED BY <1>0, <2>1, <3>2, ZenonT(20) DEF Types
  <2>2. CASE \E i \in Bufs : Valid(i, k)
    <3>1. PICK i \in Bufs : Valid(i, k)
      BY <2>2, ZenonT(20)
    <3>2. Copy(k) = {i}
      BY <1>0, <2>0, <3>1, ZenonT(20) DEF OneCopy, Copy, Cached, Valid
    <3>3. Content[k] = buf[i].data
      BY <3>2, ZenonT(20) DEF Content
    <3>4. \A j \in Bufs : Valid(j, k) => j = i
      BY <1>0, <2>0, <3>1, ZenonT(20) DEF OneCopy, Valid
    <3>5. buf[i].data \in Vals
      BY <1>0, <3>1, ZenonT(20) DEF DataRight, Valid
    <3> QED BY <3>1, <3>3, <3>4, <3>5, ZenonT(20)
  <2> QED BY <2>1, <2>2, ZenonT(20)
<1>2. ASSUME NEW k \in Blocks
      PROVE  /\ Owner[k] \in Ptrs \cup {None}
             /\ \A p \in Ptrs : Owns(p, k) <=> Owner[k] = p
  <2>0. k # None /\ None \notin Ptrs
    BY ZenonT(20) DEF CacheSizes
  <2>1. CASE \A p \in Ptrs : ~Owns(p, k)
    <3>1. Holders(k) = {}
      BY <2>1, ZenonT(20) DEF Holders, Owns
    <3>2. Owner[k] = None
      BY <3>1, ZenonT(20) DEF Owner
    <3> QED BY <2>0, <2>1, <3>2, ZenonT(20)
  <2>2. CASE \E p \in Ptrs : Owns(p, k)
    <3>1. PICK p \in Ptrs : Owns(p, k)
      BY <2>2, ZenonT(20)
    <3>2. \A q \in Ptrs : Owns(q, k) => q = p
      BY <1>0, <2>0, <3>1 DEF Owns, OneCopy, Types, LocksRight
    <3>3. Holders(k) = {p}
      BY <3>1, <3>2, ZenonT(20) DEF Holders, Owns
    <3>4. Owner[k] = p
      BY <3>3, ZenonT(20) DEF Owner
    <3> QED BY <3>1, <3>2, <3>4, ZenonT(20)
  <2> QED BY <2>1, <2>2, ZenonT(20)
<1>3. Content \in [Blocks -> Vals]
  <2>1. Content = [k \in Blocks |-> Content[k]]
    BY DEF Content
  <2> QED BY <1>1, <2>1, ZenonT(20)
<1>4. Owner \in [Blocks -> Ptrs \cup {None}]
  <2>1. Owner = [k \in Blocks |-> Owner[k]]
    BY DEF Owner
  <2> QED BY <1>2, <2>1, ZenonT(20)
<1> QED BY <1>1, <1>2, <1>3, <1>4, ZenonT(20) DEF ViewsRight

LEMMA ViewsNext == ASSUME CacheSizes PROVE CacheInv' => ViewsRight'
<1>1. CacheInv => ViewsRight
  BY Views, ZenonT(20)
<1> QED BY <1>1, PTL

LEMMA NextViews == ASSUME CacheSizes, CacheInv, [Next]_vars PROVE ViewsRight /\ ViewsRight'
  BY CacheNext, Views, ViewsNext, ZenonT(20)

\* A step that leaves the blocks, the flags and the data of the buffers alone, and
\* the disk, leaves the content of every block.
LEMMA SameContent ==
  ASSUME ViewsRight, ViewsRight', disk' = disk,
         \A i \in Bufs, k \in Blocks : (Valid(i, k))' <=> Valid(i, k),
         \A i \in Bufs : buf[i].valid => buf'[i].data = buf[i].data
  PROVE  Content' = Content
<1>1. ASSUME NEW k \in Blocks PROVE Content'[k] = Content[k]
  <2>1. CASE \A i \in Bufs : ~Valid(i, k)
    BY <2>1, ZenonT(20) DEF ViewsRight
  <2>2. CASE \E i \in Bufs : Valid(i, k)
    BY <2>2 DEF ViewsRight, Valid
  <2> QED BY <2>1, <2>2, ZenonT(20)
<1>2. Content \in [Blocks -> Vals] /\ Content' \in [Blocks -> Vals]
  BY ZenonT(20) DEF ViewsRight
<1> QED BY <1>1, <1>2

\* A step in which nobody comes to own a buffer or gives one up.
LEMMA SameOwner ==
  ASSUME ViewsRight, ViewsRight', None \notin Ptrs,
         \A p \in Ptrs, k \in Blocks : (Owns(p, k))' <=> Owns(p, k)
  PROVE  Owner' = Owner
<1>1. ASSUME NEW k \in Blocks PROVE Owner'[k] = Owner[k]
  BY DEF ViewsRight
<1>2. Owner \in [Blocks -> Ptrs \cup {None}] /\ Owner' \in [Blocks -> Ptrs \cup {None}]
  BY ZenonT(20) DEF ViewsRight
<1> QED BY <1>1, <1>2

\* A step of the cache seen as none of the store, or as one.
StoreStep == [Store!Next]_(Store!svars)
LEMMA Stays == ASSUME Content' = Content, Owner' = Owner PROVE StoreStep
  BY ZenonT(20) DEF StoreStep, Store!svars

LEMMA BgetRefines ==
  ASSUME CacheSizes, CacheInv, ViewsRight, ViewsRight', NEW p \in Ptrs, NEW k \in Blocks, Bget(p, k)
  PROVE  StoreStep
<1>0. Types /\ CountsRight /\ OneCopy /\ LocksRight /\ DataRight /\ None \notin Ptrs
  BY ZenonT(20) DEF CacheInv, CacheSizes
<1>1. /\ pc[p] = "idle" /\ disk' = disk
      /\ \A q \in Ptrs \ {p} : pc'[q] = pc[q] /\ b'[q] = b[q]
      /\ pc'[p] # "own"
  BY ZenonT(20), <1>0 DEF Bget, Goto, Types
<1>2. CASE \A i \in Bufs : /\ buf'[i].blockno = buf[i].blockno /\ buf'[i].valid = buf[i].valid
                           /\ buf'[i].data = buf[i].data
  <2>1. \A i \in Bufs, n \in Blocks : (Valid(i, n))' <=> Valid(i, n)
    BY <1>2, ZenonT(20) DEF Valid
  <2>2. \A q \in Ptrs : pc[q] = "own" => b[q] \in Bufs
    BY <1>0, ZenonT(20) DEF Types, OneCopy
  <2>3. \A q \in Ptrs, n \in Blocks : (Owns(q, n))' <=> Owns(q, n)
    BY <1>1, <1>2, <2>2 DEF Owns
  <2>4. Content' = Content
    BY <1>1, <1>2, <2>1, SameContent, ZenonT(20)
  <2>5. Owner' = Owner
    BY <1>0, <2>3, SameOwner, ZenonT(20)
  <2> QED BY <2>4, <2>5, Stays
<1>3. ASSUME NEW i \in Unused, Cached(k) = {}, buf' = [buf EXCEPT ![i] = Recycled(i, k)] PROVE StoreStep
  <2>1. i \in Bufs /\ i \notin pinned /\ \A q \in Ptrs : b[q] # i
    BY <1>0, ZeroIsUnused, ZenonT(20)
  <2>2. /\ \A j \in Bufs \ {i} : buf'[j] = buf[j]
        /\ buf'[i].blockno = k /\ buf'[i].valid = FALSE
    <3>1. buf[i] \in Struct
      BY <1>0, <2>1, ZenonT(20) DEF Types
    <3>2. Recycled(i, k).blockno = k /\ Recycled(i, k).valid = FALSE
      BY ZenonT(20), <3>1 DEF Recycled, Struct
    <3> QED BY <1>0, <1>3, <2>1, <3>2, ZenonT(20) DEF Types
  <2>3. \A n \in Blocks : Valid(i, n) => buf[i].data = disk[n]
    BY <1>0, <2>1, ZenonT(20) DEF DataRight, Valid
  <2>4. ASSUME NEW n \in Blocks PROVE Content'[n] = Content[n]
    <3>1. ~(Valid(i, n))'
      BY <2>2, ZenonT(20) DEF Valid
    <3>2. \A j \in Bufs \ {i} : (Valid(j, n))' <=> Valid(j, n)
      BY <2>2, ZenonT(20) DEF Valid
    <3>3. CASE \E j \in Bufs \ {i} : Valid(j, n)
      BY <2>2, <3>2, <3>3 DEF ViewsRight
    <3>4. CASE \A j \in Bufs : ~Valid(j, n)
      BY <1>1, <3>1, <3>2, <3>4, ZenonT(20) DEF ViewsRight
    <3>5. CASE Valid(i, n) /\ \A j \in Bufs \ {i} : ~Valid(j, n)
      <4>1. Content[n] = disk[n]
        BY <2>1, <2>3, <3>5, ZenonT(20) DEF ViewsRight
      <4>2. \A j \in Bufs : ~(Valid(j, n))'
        BY <3>1, <3>2, <3>5, ZenonT(20)
      <4> QED BY <1>1, <4>1, <4>2, ZenonT(20) DEF ViewsRight
    <3> QED BY <3>3, <3>4, <3>5, ZenonT(20)
  <2>5. Content \in [Blocks -> Vals] /\ Content' \in [Blocks -> Vals]
    BY ZenonT(20) DEF ViewsRight
  <2>6. Content' = Content
    BY <2>4, <2>5
  <2>7. \A q \in Ptrs : pc[q] = "own" => b[q] \in Bufs \ {i}
    BY <1>0, <2>1, ZenonT(20) DEF Types, OneCopy
  <2>8. \A q \in Ptrs, n \in Blocks : (Owns(q, n))' <=> Owns(q, n)
    BY <1>1, <2>2, <2>7 DEF Owns
  <2>9. Owner' = Owner
    BY <1>0, <2>8, SameOwner, ZenonT(20)
  <2> QED BY <2>6, <2>9, Stays, ZenonT(20)
<1>4. CASE buf' = buf
  BY <1>2, <1>4, ZenonT(20)
<1>5. ASSUME NEW i \in Cached(k), buf' = [buf EXCEPT ![i].refcnt = @ + 1] PROVE StoreStep
  <2>1. i \in Bufs
    BY ZenonT(20) DEF Cached
  <2>2. \A j \in Bufs : /\ buf'[j].blockno = buf[j].blockno /\ buf'[j].valid = buf[j].valid
                        /\ buf'[j].data = buf[j].data
    BY <1>0, <1>5, <2>1 DEF Types, Struct
  <2> QED BY <1>2, <2>2, ZenonT(20)
<1> QED BY <1>3, <1>4, <1>5, ZenonT(20) DEF Bget, Victims

LEMMA QuietRefines ==
  ASSUME CacheSizes, CacheInv, ViewsRight, ViewsRight', NEW p \in Ptrs,
         Acquiresleep(p) \/ Bpin(p) \/ Bunpin(p) \/ Brelse(p)
  PROVE  StoreStep
<1>0. Types /\ OneCopy /\ None \notin Ptrs
  BY ZenonT(20) DEF CacheInv, CacheSizes
<1>1. /\ disk' = disk
      /\ \A q \in Ptrs : /\ pc'[q] = "own" <=> pc[q] = "own"
                         /\ pc[q] = "own" => b'[q] = b[q] /\ b[q] \in Bufs
  <2>1. \A q \in Ptrs : pc[q] = "own" => b[q] \in Bufs
    BY <1>0, ZenonT(20) DEF Types, OneCopy
  <2>2. CASE Bpin(p) \/ Bunpin(p)
    BY ZenonT(20), <2>1, <2>2 DEF Bpin, Bunpin
  <2>3. CASE Acquiresleep(p) \/ Brelse(p)
    BY ZenonT(20), <1>0, <2>1, <2>3 DEF Acquiresleep, Brelse, Goto, Types
  <2> QED BY <2>2, <2>3, ZenonT(20)
<1>2. \A i \in Bufs : /\ buf'[i].blockno = buf[i].blockno /\ buf'[i].valid = buf[i].valid
                      /\ buf'[i].data = buf[i].data
  BY <1>0 DEF Acquiresleep, Bpin, Bunpin, Brelse, Types, Struct
<1>3. \A i \in Bufs, n \in Blocks : (Valid(i, n))' <=> Valid(i, n)
  BY <1>2, ZenonT(20) DEF Valid
<1>4. \A q \in Ptrs, n \in Blocks : (Owns(q, n))' <=> Owns(q, n)
  BY <1>1, <1>2, ZenonT(20) DEF Owns
<1>5. Content' = Content
  BY <1>1, <1>2, <1>3, SameContent, ZenonT(20)
<1>6. Owner' = Owner
  BY <1>0, <1>4, SameOwner, ZenonT(20)
<1> QED BY <1>5, <1>6, Stays, ZenonT(20)

\* bread gives the block to its caller.
LEMMA BreadRefines ==
  ASSUME CacheSizes, CacheInv, ViewsRight, ViewsRight', NEW p \in Ptrs, Bread(p)
  PROVE  StoreStep
<1> DEFINE i == b[p]
           k == buf[i].blockno
           d == IF buf[i].valid THEN buf[i].data ELSE disk[k]
<1>0. Types /\ OneCopy /\ LocksRight /\ DataRight /\ None \notin Ptrs
  BY ZenonT(20) DEF CacheInv, CacheSizes
<1>1. /\ pc[p] = "bread" /\ i \in Bufs /\ k \in Blocks /\ pc' = [pc EXCEPT ![p] = "own"]
      /\ b' = b /\ disk' = disk
  BY <1>0, ZenonT(20) DEF Bread, OneCopy, Types, Struct, Goto
<1>2. /\ \A j \in Bufs \ {i} : buf'[j] = buf[j]
      /\ buf'[i].blockno = k /\ buf'[i].valid = TRUE /\ buf'[i].data = d
  <2> DEFINE x == [buf[i] EXCEPT !.valid = TRUE, !.data = d]
  <2>1. buf[i] \in Struct
    BY <1>0, <1>1, ZenonT(20) DEF Types
  <2>2. x.blockno = k /\ x.valid = TRUE /\ x.data = d
    BY ZenonT(20), <2>1 DEF Struct
  <2>3. buf' = [buf EXCEPT ![i] = x]
    BY ZenonT(20), <1>0, <1>1 DEF Bread, Types
  <2> HIDE DEF x, i, d
  <2> QED BY <1>0, <1>1, <2>2, <2>3, ZenonT(20) DEF Types
<1>3. ASSUME NEW q \in Ptrs, pc[q] = "own" PROVE b[q] \in Bufs \ {i} /\ q # p
  BY <1>0, <1>1, <1>3 DEF Types, OneCopy, LocksRight
<1>4. \A j \in Bufs \ {i} : buf[j].blockno # k
  BY <1>0, <1>1, ZenonT(20) DEF OneCopy, CacheSizes
<1>5. Content' = Content
  <2>1. ASSUME NEW n \in Blocks, n # k PROVE Content'[n] = Content[n]
    <3>1. \A j \in Bufs : (Valid(j, n))' <=> Valid(j, n)
      BY <1>1, <1>2, <2>1, ZenonT(20) DEF Valid
    <3>2. \A j \in Bufs : Valid(j, n) => j # i
      BY <2>1, ZenonT(20) DEF Valid
    <3>3. CASE \E j \in Bufs : Valid(j, n)
      BY <1>2, <3>1, <3>2, <3>3 DEF ViewsRight
    <3>4. CASE \A j \in Bufs : ~Valid(j, n)
      BY <1>1, <3>1, <3>4, ZenonT(20) DEF ViewsRight
    <3> QED BY <3>3, <3>4, ZenonT(20)
  <2>2. Content'[k] = d
    BY <1>1, <1>2 DEF ViewsRight, Valid
  <2>3. Content[k] = d
    <3>1. CASE buf[i].valid
      BY <1>1, <3>1 DEF ViewsRight, Valid
    <3>2. CASE ~buf[i].valid
      BY <1>1, <1>4, <3>2 DEF ViewsRight, Valid
    <3> QED BY <3>1, <3>2, ZenonT(20)
  <2>4. Content \in [Blocks -> Vals] /\ Content' \in [Blocks -> Vals]
    BY ZenonT(20) DEF ViewsRight
  <2> HIDE DEF i, k, d
  <2> QED BY <2>1, <2>2, <2>3, <2>4
<1> HIDE DEF i, k, d
<1>6. ASSUME NEW n \in Blocks, NEW q \in Ptrs PROVE (Owns(q, n))' <=> (Owns(q, n) \/ (q = p /\ n = k))
  BY <1>0, <1>1, <1>2, <1>3, ZenonT(20) DEF Owns, Types, i
<1>7. \A q \in Ptrs : ~Owns(q, k)
  BY <1>3, <1>4, ZenonT(20) DEF Owns
<1>8. Owner[k] = None
  BY <1>1, <1>7 DEF ViewsRight
<1>9. Owner' = [Owner EXCEPT ![k] = p]
  <2>1. ASSUME NEW n \in Blocks PROVE Owner'[n] = IF n = k THEN p ELSE Owner[n]
    BY <1>0, <1>6 DEF ViewsRight
  <2>2. Owner \in [Blocks -> Ptrs \cup {None}] /\ Owner' \in [Blocks -> Ptrs \cup {None}]
    BY ZenonT(20) DEF ViewsRight
  <2> QED BY <1>1, <2>1, <2>2, ZenonT(20)
<1>10. Store!Take(k)
  <2>1. Owner'[k] = p
    BY <1>1, <1>9 DEF ViewsRight
  <2> QED BY ZenonT(20), <1>1, <1>5, <1>8, <1>9, <2>1 DEF Store!Take
<1> QED BY ZenonT(20), <1>1, <1>10 DEF StoreStep, Store!Next

\* A change of the data of a buffer is one of the content of its block.
LEMMA ChangeRefines ==
  ASSUME CacheSizes, CacheInv, ViewsRight, ViewsRight', NEW p \in Ptrs, NEW v \in Vals, Change(p, v)
  PROVE  StoreStep
<1> DEFINE i == b[p]
           k == buf[i].blockno
<1>0. Types /\ OneCopy /\ DataRight /\ None \notin Ptrs
  BY ZenonT(20) DEF CacheInv, CacheSizes
<1>1. /\ pc[p] = "own" /\ i \in Bufs /\ k \in Blocks /\ pc' = pc /\ b' = b /\ disk' = disk
  BY <1>0, ZenonT(20) DEF Change, OneCopy, Types, Struct
<1>2. /\ \A j \in Bufs \ {i} : buf'[j] = buf[j]
      /\ buf'[i].blockno = k /\ buf'[i].valid = buf[i].valid /\ buf'[i].data = v
  BY <1>0, <1>1 DEF Change, Types, Struct
<1>3. buf[i].valid
  BY <1>0, <1>1, ZenonT(20) DEF DataRight
<1>4. \A q \in Ptrs : pc[q] = "own" => b[q] \in Bufs
  BY <1>0, ZenonT(20) DEF Types, OneCopy
<1>5. \A j \in Bufs : buf'[j].blockno = buf[j].blockno /\ buf'[j].valid = buf[j].valid
  BY ZenonT(20), <1>2
<1>6. \A q \in Ptrs, n \in Blocks : (Owns(q, n))' <=> Owns(q, n)
  BY <1>1, <1>4, <1>5, ZenonT(20) DEF Owns
<1>7. Owner' = Owner
  BY <1>0, <1>6, SameOwner, ZenonT(20)
<1>8. Owner[k] = p
  BY <1>1 DEF ViewsRight, Owns
<1>9. Content' = [Content EXCEPT ![k] = v]
  <2>1. \A j \in Bufs, n \in Blocks : (Valid(j, n))' <=> Valid(j, n)
    BY <1>5, ZenonT(20) DEF Valid
  <2>2. (Valid(i, k))'
    BY <1>1, <1>3, <2>1, ZenonT(20) DEF Valid
  <2>3. Content'[k] = v
    BY <1>1, <1>2, <2>2 DEF ViewsRight
  <2>4. ASSUME NEW n \in Blocks, n # k PROVE Content'[n] = Content[n]
    <3>1. \A j \in Bufs : Valid(j, n) => j # i
      BY <2>4, ZenonT(20) DEF Valid
    <3>2. CASE \E j \in Bufs : Valid(j, n)
      BY <1>2, <2>1, <3>1, <3>2 DEF ViewsRight
    <3>3. CASE \A j \in Bufs : ~Valid(j, n)
      BY <1>1, <2>1, <3>3, ZenonT(20) DEF ViewsRight
    <3> QED BY <3>2, <3>3, ZenonT(20)
  <2>5. Content \in [Blocks -> Vals] /\ Content' \in [Blocks -> Vals]
    BY ZenonT(20) DEF ViewsRight
  <2> HIDE DEF i, k
  <2> QED BY <1>1, <2>3, <2>4, <2>5, ZenonT(20)
<1> HIDE DEF i, k
<1>10. Store!Change(k, v)
  BY ZenonT(20), <1>0, <1>7, <1>8, <1>9 DEF Store!Change
<1> QED BY ZenonT(20), <1>1, <1>10 DEF StoreStep, Store!Next

LEMMA BwriteRefines ==
  ASSUME CacheSizes, CacheInv, ViewsRight, ViewsRight', NEW p \in Ptrs, Bwrite(p)
  PROVE  StoreStep
<1> DEFINE i == b[p]
           k == buf[i].blockno
<1>0. Types /\ OneCopy /\ DataRight /\ None \notin Ptrs
  BY ZenonT(20) DEF CacheInv, CacheSizes
<1>1. /\ pc[p] = "own" /\ i \in Bufs /\ k \in Blocks /\ buf[i].valid /\ pc' = pc /\ b' = b /\ buf' = buf
      /\ disk' = [disk EXCEPT ![k] = buf[i].data]
  BY <1>0, ZenonT(20) DEF Bwrite, OneCopy, Types, Struct, DataRight
<1>2. \A q \in Ptrs, n \in Blocks : (Owns(q, n))' <=> Owns(q, n)
  BY <1>1, ZenonT(20) DEF Owns
<1>3. Owner' = Owner
  BY <1>0, <1>2, SameOwner, ZenonT(20)
<1>4. \A j \in Bufs, n \in Blocks : (Valid(j, n))' <=> Valid(j, n)
  BY <1>1, ZenonT(20) DEF Valid
<1>5. Valid(i, k)
  BY <1>1, ZenonT(20) DEF Valid
<1> HIDE DEF i, k
<1>6. ASSUME NEW n \in Blocks PROVE Content'[n] = Content[n]
  <2>1. CASE \E j \in Bufs : Valid(j, n)
    BY <1>1, <1>4, <2>1 DEF ViewsRight
  <2>2. CASE \A j \in Bufs : ~Valid(j, n)
    <3>1. n # k
      BY <1>1, <1>5, <2>2, ZenonT(20)
    <3>2. disk'[n] = disk[n]
      BY <1>0, <1>1, <3>1, ZenonT(20) DEF Types
    <3> QED BY <1>4, <2>2, <3>2, ZenonT(20) DEF ViewsRight
  <2> QED BY <2>1, <2>2
<1>7. Content \in [Blocks -> Vals] /\ Content' \in [Blocks -> Vals]
  BY DEF ViewsRight
<1>8. Content' = Content
  BY <1>6, <1>7
<1> QED BY <1>3, <1>8, Stays, ZenonT(20)

\* releasesleep gives the block back.
LEMMA ReleasesleepRefines ==
  ASSUME CacheSizes, CacheInv, ViewsRight, ViewsRight', NEW p \in Ptrs, Releasesleep(p)
  PROVE  StoreStep
<1> DEFINE i == b[p]
           k == buf[i].blockno
<1>0. Types /\ OneCopy /\ DataRight /\ None \notin Ptrs
  BY DEF CacheInv, CacheSizes
<1>1. /\ pc[p] = "own" /\ i \in Bufs /\ k \in Blocks /\ b' = b /\ buf' = buf /\ disk' = disk
      /\ pc'[p] = "brelse" /\ \A q \in Ptrs \ {p} : pc'[q] = "own" <=> pc[q] = "own"
  BY <1>0, ZenonT(20) DEF Releasesleep, Wakeup, OneCopy, Types, Struct
<1>2. \A j \in Bufs, n \in Blocks : (Valid(j, n))' <=> Valid(j, n)
  BY <1>1, ZenonT(20) DEF Valid
<1>3. Content' = Content
  BY <1>1, <1>2, SameContent, ZenonT(20)
<1>4. Owns(p, k) /\ \A n \in Blocks \ {k} : ~Owns(p, n)
  BY <1>1, ZenonT(20) DEF Owns
<1>5. \A n \in Blocks, q \in Ptrs : (Owns(q, n))' <=> Owns(q, n) /\ q # p
  BY <1>1, ZenonT(20) DEF Owns
<1> HIDE DEF i, k
<1>6. Owner[k] = p
  BY <1>1, <1>4, ZenonT(20) DEF ViewsRight
<1>7. Owner' = [Owner EXCEPT ![k] = None]
  <2>1. ASSUME NEW n \in Blocks PROVE Owner'[n] = IF n = k THEN None ELSE Owner[n]
    BY <1>0, <1>4, <1>5, <1>6 DEF ViewsRight
  <2>2. Owner \in [Blocks -> Ptrs \cup {None}] /\ Owner' \in [Blocks -> Ptrs \cup {None}]
    BY DEF ViewsRight
  <2> QED BY <1>1, <2>1, <2>2, ZenonT(20)
<1>10. Store!Give(k)
  BY ZenonT(20), <1>0, <1>3, <1>6, <1>7 DEF Store!Give
<1> QED BY ZenonT(20), <1>1, <1>10 DEF StoreStep, Store!Next

LEMMA StepRefines == ASSUME CacheSizes, CacheInv, [Next]_vars PROVE StoreStep
<1>0. ViewsRight /\ ViewsRight'
  BY NextViews, ZenonT(20)
<1>1. ASSUME NEW p \in Ptrs, Step(p) PROVE StoreStep
  BY <1>0, <1>1, BgetRefines, QuietRefines, BreadRefines, ChangeRefines, BwriteRefines,
     ReleasesleepRefines, ZenonT(20) DEF Step
<1>2. CASE UNCHANGED vars
  <2>1. \A j \in Bufs, n \in Blocks : (Valid(j, n))' <=> Valid(j, n)
    BY <1>2, ZenonT(20) DEF Valid, vars
  <2>2. \A q \in Ptrs, n \in Blocks : (Owns(q, n))' <=> Owns(q, n)
    BY <1>2, ZenonT(20) DEF Owns, vars
  <2>3. Content' = Content
    BY <1>0, <1>2, <2>1, SameContent, ZenonT(20) DEF vars
  <2>4. Owner' = Owner
    BY <1>0, <2>2, SameOwner, ZenonT(20) DEF CacheSizes
  <2> QED BY <2>3, <2>4, Stays, ZenonT(20)
<1> QED BY <1>1, <1>2, ZenonT(20) DEF Next

LEMMA InitRefines == ASSUME CacheSizes, Init PROVE Store!Init
<1>1. CacheInv
  BY CacheInit, ZenonT(20)
<1>2. ViewsRight
  BY <1>1, Views, ZenonT(20)
<1>3. \A p \in Ptrs, k \in Blocks : ~Owns(p, k)
  BY ZenonT(20) DEF Init, Owns
<1>4. \A k \in Blocks : Owner[k] = None
  BY <1>2, <1>3, ZenonT(20) DEF ViewsRight
<1>5. Content \in [Blocks -> Vals] /\ Owner \in [Blocks -> Ptrs \cup {None}]
  BY <1>2, ZenonT(20) DEF ViewsRight
<1>6. Owner = [k \in Blocks |-> None]
  BY <1>4, <1>5, ZenonT(20)
<1> QED BY <1>5, <1>6, ZenonT(20) DEF Store!Init

\* The cache, its locks and its recycling of buffers are invisible: what the calls
\* read and write is a store that gives each block to one process at a time and
\* keeps what was written last.
THEOREM CacheIsBlockStore == ASSUME CacheSizes PROVE Spec => CacheIsStore
<1>1. Init => Store!Init
  BY InitRefines, ZenonT(20)
<1>2. CacheInv /\ [Next]_vars => [Store!Next]_(Store!svars)
  BY StepRefines, ZenonT(20) DEF StoreStep
<1> QED BY <1>1, <1>2, CacheSafe, PTL DEF Spec, Store!Spec, CacheIsStore

=============================================================================
