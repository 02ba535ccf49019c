------------------------------- MODULE Umalloc -------------------------------
(***************************************************************************)
(* malloc and free of user/umalloc.c.  Memory is counted in units of the   *)
(* size of a Header; base is at address 0, the heap begins at HEAP.  Each  *)
(* turn of the loops is a step.                                            *)
(***************************************************************************)
EXTENDS Integers, FiniteSets

CONSTANTS HEAP, LIMIT,      \* where the heap begins; how far the kernel lets it grow
          MINCORE,          \* 4096, the least number of units morecore asks for
          Units             \* bound: the sizes asked for, in units with the header

\* What the constants have to satisfy.
UmallocSizes == HEAP \in Nat \ {0} /\ LIMIT \in Nat /\ MINCORE \in Nat \ {0} /\ Units \subseteq Nat \ {0, 1}

base == 0
Null == -1
Addresses == 0..LIMIT

VARIABLES ptr, size,        \* address of a Header -> its fields
          freep,
          brk,              \* the end of the process's memory
          pc,               \* "idle", in the loop of "malloc", or of "free"
          p, prevp, nunits, \* of malloc
          bp, q,            \* of free: the block, and p
          back,             \* where free returns to
          core, used        \* units got from sbrk; blocks handed out: address -> units (history)
vars == <<ptr, size, freep, brk, pc, p, prevp, nunits, bp, q, back, core, used>>

Init ==
    /\ ptr = [a \in Addresses |-> Null] /\ size = [a \in Addresses |-> 0]
    /\ freep = Null /\ brk = HEAP /\ pc = "idle"
    /\ p = Null /\ prevp = Null /\ nunits = 0 /\ bp = Null /\ q = Null /\ back = "idle"
    /\ core = {} /\ used = {}

\* malloc up to its loop.
malloc(n) ==
    LET first == freep = Null IN
    /\ pc = "idle" /\ pc' = "malloc" /\ nunits' = n
    /\ ptr' = IF first THEN [ptr EXCEPT ![base] = base] ELSE ptr
    /\ freep' = IF first THEN base ELSE freep
    /\ prevp' = freep' /\ p' = ptr'[freep']
    /\ UNCHANGED <<size, brk, bp, q, back, core, used>>

\* A block that is large enough: all of it, or its tail.
\* Mutant: the head of the block is taken, its size is left.
Whole == size[p] = nunits
HeadOf == p
TailOf == IF Whole THEN p ELSE p + size[p] - nunits
Take ==
    /\ pc = "malloc" /\ size[p] >= nunits
    /\ ptr' = IF Whole THEN [ptr EXCEPT ![prevp] = ptr[p], ![p] = Null] ELSE ptr
    /\ size' = IF Whole THEN size ELSE [size EXCEPT ![p] = @ - nunits, ![TailOf] = nunits]
    /\ used' = used \cup {<<TailOf, nunits>>}
    /\ freep' = prevp /\ pc' = "idle"
    /\ p' = Null /\ prevp' = Null /\ nunits' = 0
    /\ UNCHANGED <<brk, bp, q, back, core>>
Advance ==
    /\ pc = "malloc" /\ size[p] < nunits /\ p # freep
    /\ prevp' = p /\ p' = ptr[p]
    /\ UNCHANGED <<ptr, size, freep, brk, pc, nunits, bp, q, back, core, used>>

\* morecore: sbrk, and free of what it gave.
nu == IF nunits < MINCORE THEN MINCORE ELSE nunits
morecore ==
    /\ pc = "malloc" /\ size[p] < nunits /\ p = freep
    /\ brk + nu <= LIMIT
    /\ size' = [size EXCEPT ![brk] = nu]
    /\ brk' = brk + nu /\ core' = core \cup brk..brk + nu - 1
    /\ bp' = brk /\ q' = freep /\ back' = "malloc" /\ pc' = "free"
    /\ UNCHANGED <<ptr, freep, p, prevp, nunits, used>>
NoCore ==
    /\ pc = "malloc" /\ size[p] < nunits /\ p = freep
    /\ brk + nu > LIMIT
    /\ pc' = "idle" /\ p' = Null /\ prevp' = Null /\ nunits' = 0
    /\ UNCHANGED <<ptr, size, freep, brk, bp, q, back, core, used>>

\* free: find the place, then join with the neighbours.  The fields of a
\* header that is joined to another are never read again and are cleared.
free(b) ==
    /\ pc = "idle" /\ b \in used
    /\ used' = used \ {b}
    /\ bp' = b[1] /\ q' = freep /\ back' = "idle" /\ pc' = "free"
    /\ UNCHANGED <<ptr, size, freep, brk, p, prevp, nunits, core>>
AtPlace == (bp > q /\ bp < ptr[q]) \/ (q >= ptr[q] /\ (bp > q \/ bp < ptr[q]))
Seek ==
    /\ pc = "free" /\ ~AtPlace
    /\ q' = ptr[q]
    /\ UNCHANGED <<ptr, size, freep, brk, pc, p, prevp, nunits, bp, back, core, used>>
JoinsBelow == q + size[q] = bp
JoinsAbove == bp + size[bp] = ptr[q]
Insert ==
    /\ pc = "free" /\ AtPlace
    /\ LET above == ptr[q]
           n == size[bp] + IF JoinsAbove THEN size[above] ELSE 0
           next == IF JoinsAbove THEN ptr[above] ELSE above
           last == [ptr EXCEPT ![above] = IF JoinsAbove THEN Null ELSE @]
           rest == [size EXCEPT ![above] = IF JoinsAbove THEN 0 ELSE @] IN
       /\ size' = IF JoinsBelow THEN [rest EXCEPT ![q] = @ + n, ![bp] = 0] ELSE [rest EXCEPT ![bp] = n]
       /\ ptr' = IF JoinsBelow THEN [last EXCEPT ![q] = next]
                 ELSE [last EXCEPT ![bp] = next, ![q] = bp]
    /\ freep' = q /\ pc' = back /\ bp' = Null /\ q' = Null /\ back' = "idle"
    /\ IF back = "malloc" THEN prevp' = q /\ p' = ptr'[q] ELSE UNCHANGED <<p, prevp>>
    /\ UNCHANGED <<brk, nunits, core, used>>

\* The program moves the break itself.
OwnSbrk ==
    /\ pc = "idle" /\ brk < LIMIT
    /\ brk' = brk + 1
    /\ UNCHANGED <<ptr, size, freep, pc, p, prevp, nunits, bp, q, back, core, used>>

Steps == Take \/ Advance \/ morecore \/ NoCore \/ Seek \/ Insert
Next == Steps \/ OwnSbrk \/ (\E n \in Units : malloc(n)) \/ \E b \in used : free(b)
Spec == Init /\ [][Next]_vars

-----------------------------------------------------------------------------

\* The free blocks: the headers that can be reached from freep.
RECURSIVE ReachFrom(_, _)
ReachFrom(a, seen) == IF a \in seen THEN seen ELSE ReachFrom(ptr[a], seen \cup {a})
Listed == IF freep = Null THEN {} ELSE ReachFrom(freep, {})
Space(a, n) == a..a + n - 1
Busy == used \cup (IF pc = "free" THEN {<<bp, size[bp]>>} ELSE {})

\* The units got from the kernel are divided without gap or overlap into
\* free blocks and blocks in use, and the header of a block in use keeps its
\* size: nothing is lost, handed out twice, or taken from memory that the
\* program got by its own sbrk.
Divided ==
    /\ core = UNION {Space(a, size[a]) : a \in Listed} \cup UNION {Space(b[1], b[2]) : b \in Busy}
    /\ \A a, b \in Listed : a # b => Space(a, size[a]) \cap Space(b, size[b]) = {}
    /\ \A b, c \in Busy : b # c => Space(b[1], b[2]) \cap Space(c[1], c[2]) = {}
    /\ \A a \in Listed, b \in Busy : Space(a, size[a]) \cap Space(b[1], b[2]) = {}
    /\ \A b \in used : size[b[1]] = b[2]

\* The free list is in order of address with one turn back, so that free finds
\* the place of a block, and blocks that touch have been joined.
Ordered ==
    /\ Cardinality({a \in Listed : ptr[a] <= a}) <= 1
    /\ freep # Null => base \in Listed
    /\ \A a, b \in Listed : a # b => a + size[a] # b
=============================================================================
