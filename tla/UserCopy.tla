------------------------------ MODULE UserCopy ------------------------------
(***************************************************************************)
(* Copies between the kernel and user memory: copyin, copyout and          *)
(* copyinstr of kernel/vm.c, fetchaddr and fetchstr of kernel/syscall.c.   *)
(* A step copies what lies in one page.  Addresses wrap at WIDTH, as       *)
(* 64-bit integers do.                                                     *)
(***************************************************************************)
EXTENDS Integers, Sequences, FiniteSets, FiniteSetsExt

CONSTANTS PGSIZE, MAXVA, WIDTH,
          WORD,         \* sizeof(uint64)
          Calls         \* the functions called

\* What the constants have to satisfy.
CopySizes == /\ PGSIZE \in Nat \ {0} /\ MAXVA % PGSIZE = 0 /\ WIDTH > MAXVA + PGSIZE /\ WORD \in Nat \ {0}
             /\ Calls \subseteq {"copyin", "copyout", "copyinstr", "fetchaddr", "fetchstr"}

Vpns == 0..MAXVA \div PGSIZE - 1
Addresses == 0..WIDTH - 1
\* A page: not mapped, only for the kernel (a guard page), read-only, writable.
Perms == {{}, {"R", "W"}, {"R", "U"}, {"R", "W", "U"}}

Busy == -2

VARIABLES in,       \* the arguments: call, pt: page -> permissions, umem: user memory, va, len, sz: p->sz
          umem,     \* user memory
          va, len,  \* srcva or dstva, and len or max, which the loops change
          buf,      \* what has been copied to, or from, the kernel's buffer
          result    \* Busy, then what the function returns
vars == <<in, umem, va, len, buf, result>>

\* User memory holds different bytes, for strings with zeros here and there.
Bytes(c) == IF c \in {"copyinstr", "fetchstr"} THEN {[a \in 0..MAXVA - 1 |-> IF a \in Z THEN 0 ELSE a + 1] : Z \in SUBSET (0..MAXVA - 1)}
            ELSE {[a \in 0..MAXVA - 1 |-> a + 1]}
\* fetchaddr's test of the size.  Mutant: only the start is tested.
StartOnly(addr, sz) == addr < sz
InSize(addr, sz) == addr < sz /\ (addr + WORD) % WIDTH <= sz
Init ==
    /\ \E c \in Calls, a \in Addresses, n \in 0..MAXVA + 1, s \in 0..MAXVA, pt \in [Vpns -> Perms] :
       \E b \in Bytes(c) :
         /\ c = "fetchaddr" => n = WORD
         /\ c # "fetchaddr" => s = 0
         /\ c # "copyout" => \A v \in Vpns : pt[v] # {"R", "U"}
         /\ in = [call |-> c, va |-> a, len |-> n, sz |-> s, pt |-> pt, umem |-> b]
         /\ umem = b /\ va = a /\ len = n
         /\ result = IF c = "fetchaddr" /\ ~InSize(a, s) THEN -1 ELSE Busy
    /\ buf = <<>>

PGROUNDDOWN(a) == a - (a % PGSIZE)
\* walkaddr: 0 for a page the user may not read; copyout wants a writable one.
walkaddr(a) == a < MAXVA /\ "U" \in in.pt[a \div PGSIZE]
Writable(a) == walkaddr(a) /\ "W" \in in.pt[a \div PGSIZE]
\* How much of the page is to be copied.
WholePage == PGSIZE - (va - PGROUNDDOWN(va))
Portion == IF WholePage > len THEN len ELSE WholePage

Advance(n) == len' = len - n /\ va' = (PGROUNDDOWN(va) + PGSIZE) % WIDTH
Return(r) == result' = r /\ UNCHANGED <<umem, va, len, buf>>

copyin ==
    /\ in.call \in {"copyin", "fetchaddr"} /\ result = Busy
    /\ \/ len = 0 /\ Return(0)
       \/ len > 0 /\ ~walkaddr(PGROUNDDOWN(va)) /\ Return(-1)
       \/ /\ len > 0 /\ walkaddr(PGROUNDDOWN(va))
          /\ buf' = buf \o [k \in 1..Portion |-> umem[va + k - 1]]
          /\ Advance(Portion)
          /\ UNCHANGED <<umem, result>>
    /\ UNCHANGED in

\* The kernel's bytes are 100, 101, ...
Src(k) == 99 + k
copyout ==
    /\ in.call = "copyout" /\ result = Busy
    /\ \/ len = 0 /\ Return(0)
       \/ len > 0 /\ ~Writable(PGROUNDDOWN(va)) /\ Return(-1)
       \/ /\ len > 0 /\ Writable(PGROUNDDOWN(va))
          /\ umem' = [a \in DOMAIN umem |-> IF a \in va..va + Portion - 1 THEN Src(Len(buf) + a - va + 1) ELSE umem[a]]
          /\ buf' = buf \o [k \in 1..Portion |-> Src(Len(buf) + k)]
          /\ Advance(Portion)
          /\ UNCHANGED result
    /\ UNCHANGED in

\* copyinstr: up to the first zero of the page, if there is one.
\* fetchstr returns strlen of what was copied.
Found(r) == IF in.call = "fetchstr" THEN r ELSE 0
copyinstr ==
    /\ in.call \in {"copyinstr", "fetchstr"} /\ result = Busy
    /\ \/ len = 0 /\ Return(-1)
       \/ len > 0 /\ ~walkaddr(PGROUNDDOWN(va)) /\ Return(-1)
       \/ /\ len > 0 /\ walkaddr(PGROUNDDOWN(va))
          /\ LET zeros == {k \in 1..Portion : umem[va + k - 1] = 0}
                 n == IF zeros = {} THEN Portion ELSE Min(zeros) IN
             /\ buf' = buf \o [k \in 1..n |-> umem[va + k - 1]]
             /\ Advance(IF zeros = {} THEN n ELSE n - 1)
             /\ result' = IF zeros = {} THEN result ELSE Found(Len(buf) + n - 1)
          /\ UNCHANGED umem
    /\ UNCHANGED in

Next == copyin \/ copyout \/ copyinstr
Spec == Init /\ [][Next]_vars

-----------------------------------------------------------------------------

\* Byte by byte: can the user read (write) address a?
May(a) == a < MAXVA /\ "U" \in in.pt[a \div PGSIZE] /\ (in.call = "copyout" => "W" \in in.pt[a \div PGSIZE])
Range0(n) == in.va..in.va + n - 1

\* copyin and copyout succeed exactly if the user may access every byte of the
\* range, and then have copied every byte to its place and no other; fetchaddr
\* needs the whole word below p->sz as well, for addresses near the top of the
\* address space too.
CopyRight ==
    in.call \in {"copyin", "copyout", "fetchaddr"} /\ result # Busy =>
    /\ (result = 0) <=> (\A a \in Range0(in.len) : May(a)) /\ (in.call = "fetchaddr" => in.va + WORD <= in.sz)
    /\ result = 0 /\ in.call # "copyout" => buf = [k \in 1..in.len |-> in.umem[in.va + k - 1]]
    /\ result = 0 /\ in.call = "copyout" =>
         umem = [a \in DOMAIN umem |-> IF a \in Range0(in.len) THEN Src(a - in.va + 1) ELSE in.umem[a]]

\* copyinstr succeeds exactly if a zero comes within max bytes and before the
\* first byte the user may not access; the copy ends with that zero, and
\* fetchstr returns the "length of string, not including nul" (syscall.c:23).
StringRight ==
    in.call \in {"copyinstr", "fetchstr"} /\ result # Busy =>
    LET ends == {n \in 1..in.len : (\A a \in Range0(n) : May(a)) /\ in.umem[in.va + n - 1] = 0} IN
    /\ (result # -1) <=> ends # {}
    /\ ends # {} => buf = [k \in 1..Min(ends) |-> in.umem[in.va + k - 1]]
    /\ ends # {} => result = IF in.call = "fetchstr" THEN Min(ends) - 1 ELSE 0

\* Nothing is written beyond the kernel's buffer, nor to user memory the
\* process may not write, while copying and when the copy fails half way.
StaysInBounds == /\ Len(buf) <= in.len
                 /\ \A a \in DOMAIN umem : umem[a] # in.umem[a] => May(a) /\ a \in Range0(in.len)
=============================================================================
