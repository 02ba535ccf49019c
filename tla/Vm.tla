---------------------------------- MODULE Vm ----------------------------------
(***************************************************************************)
(* User memory: the page allocator (kernel/kalloc.c), page tables          *)
(* (kernel/vm.c), and sbrk, fork, exec and the end of a process as far as  *)
(* they use them (kernel/proc.c, kernel/exec.c, kernel/sysfile.c).         *)
(*                                                                         *)
(* A call works page by page; code[p] is what p's call has still to do.    *)
(* Between two pages other processes allocate and free.  LEVELS and        *)
(* ENTRIES stand for the three levels of 512 entries; sizes are in bytes.  *)
(***************************************************************************)
EXTENDS Integers, Sequences, FiniteSets, FiniteSetsExt

CONSTANTS Procs, initproc,
          Pages,            \* page numbers the allocator starts with
          PGSIZE, LEVELS, ENTRIES, USERSTACK,
          WIDTH,            \* an address has WIDTH values
          Deltas,           \* arguments of sbrk
          Programs,         \* files to exec: sequences of segments
          MAXARG,           \* arguments of exec
          MaxCalls,         \* bound: system calls
          Others            \* sets of pages in use by the rest of the kernel

\* What the constants have to satisfy.
VmSizes == /\ Pages \subseteq Nat \ {0} /\ PGSIZE \in Nat \ {0} /\ LEVELS \in Nat \ {0}
           /\ ENTRIES \in Nat \ {0, 1} /\ ENTRIES ^ LEVELS > 2 /\ initproc \in Procs /\ Deltas \subseteq Int \ {0}

Vpns == 0..ENTRIES ^ LEVELS - 1
TRAMPOLINE == ENTRIES ^ LEVELS - 1
TRAPFRAME == TRAMPOLINE - 1
PGROUNDUP(sz) == ((sz + PGSIZE - 1) \div PGSIZE) * PGSIZE
Top(sz) == PGROUNDUP(sz) \div PGSIZE        \* sizes in pages
\* The page-table page of a level that holds the entry on the way to vpn, and
\* all that are below the root (level LEVELS - 1).
PX(level, vpn) == <<level, vpn \div ENTRIES ^ (level + 1)>>
Nodes == UNION {{PX(l, vpn) : vpn \in Vpns} : l \in 0..LEVELS - 2}

Unmapped == [pa |-> 0, perm |-> {}]
NoPages == [dir |-> [n \in Nodes |-> 0], map |-> [v \in Vpns |-> Unmapped]]
Zero == 0
Junk == -1
TrampolinePage == -1        \* the kernel's page with the trampoline code

VARIABLES m,        \* free: free pages; data: contents of pages; panic;
                    \* pt: root page of a page table -> dir: its page-table pages, map: its leaves
          proc,     \* process -> state (unused, used, live), trapframe, pagetable (0: none), sz
          new,      \* process -> pagetable and sz of the image exec or allocproc is making
          held,     \* process -> pages sys_exec holds for arguments
          other,    \* pages the rest of the kernel uses, which do not change
          code,
          calls,    \* system calls so far
          mem       \* process -> the memory it should see (history)
vars == <<m, proc, new, held, other, code, calls, mem>>

NoTable == [pagetable |-> 0, sz |-> 0]
NoProc == [state |-> "unused", trapframe |-> 0, pagetable |-> 0, sz |-> 0]

kalloc(s) == IF s.free = {} THEN [s |-> s, pa |-> 0]
             ELSE [s |-> [s EXCEPT !.free = @ \ {Min(s.free)}, !.data[Min(s.free)] = Junk], pa |-> Min(s.free)]
kfree(s, P) == [s EXCEPT !.free = @ \cup P, !.panic = @ \/ ~(P \subseteq Pages),
                         !.data = [p \in Pages |-> IF p \in P THEN Junk ELSE @[p]],
                         !.pt = [p \in Pages |-> IF p \in P THEN NoPages ELSE @[p]]]

\* walk with alloc: the page-table pages missing on the way to vpn, from the
\* top down, as far as memory goes.
walk(s, table, vpn) ==
    LET missing == {l \in 0..LEVELS - 2 : s.pt[table].dir[PX(l, vpn)] = 0}
        rank(l) == Cardinality({j \in missing : j >= l})
        page(k) == CHOOSE x \in s.free : Cardinality({y \in s.free : y <= x}) = k
        got == {l \in missing : rank(l) <= Cardinality(s.free)} IN
    [s |-> [s EXCEPT !.free = @ \ {page(rank(l)) : l \in got},
                     !.pt[table].dir = [n \in Nodes |-> IF n[1] \in got /\ n = PX(n[1], vpn) THEN page(rank(n[1])) ELSE @[n]]],
     ok |-> got = missing]

\* mappages of one page.
mappages(s, table, vpn, pa, perm) ==
    LET w == walk(s, table, vpn) IN
    IF ~w.ok THEN w
    ELSE [w EXCEPT !.s.panic = @ \/ s.pt[table].map[vpn] # Unmapped, !.s.pt[table].map[vpn] = [pa |-> pa, perm |-> perm]]

\* uvmunmap of a set of pages.
uvmunmap(s, table, V, do_free) ==
    LET t == [s EXCEPT !.panic = @ \/ \E v \in V : v \notin Vpns \/ s.pt[table].map[v] = Unmapped,
                       !.pt[table].map = [v \in Vpns |-> IF v \in V THEN Unmapped ELSE @[v]]] IN
    IF do_free THEN kfree(t, {s.pt[table].map[v].pa : v \in V}) ELSE t
\* Mutant: the new size is not rounded up.
RoundedDown(oldsz, newsz) == newsz \div PGSIZE..Top(oldsz) - 1
Given(oldsz, newsz) == Top(newsz)..Top(oldsz) - 1
uvmdealloc(s, table, oldsz, newsz) == IF newsz >= oldsz THEN s ELSE uvmunmap(s, table, Given(oldsz, newsz), TRUE)

\* freewalk: the pages of a page table, when all leaves are gone.
Mapped(s, table) == {v \in Vpns : s.pt[table].map[v] # Unmapped}
TablePages(s, table) == {table} \cup ({s.pt[table].dir[n] : n \in Nodes} \ {0})
freewalk(s, table) == kfree([s EXCEPT !.panic = @ \/ Mapped(s, table) # {}], TablePages(s, table))
uvmfree(s, table, sz) == freewalk(uvmunmap(s, table, 0..Top(sz) - 1, TRUE), table)
proc_freepagetable(s, table, sz) == uvmfree(uvmunmap(s, table, {TRAMPOLINE, TRAPFRAME}, FALSE), table, sz)

\* freeproc, as far as memory goes.
freeproc(s, p) == IF p.pagetable = 0 THEN kfree(s, {p.trapframe} \ {0})
                  ELSE proc_freepagetable(kfree(s, {p.trapframe}), p.pagetable, p.sz)

-----------------------------------------------------------------------------

Do(p, c) == code' = [code EXCEPT ![p] = c]
Rest(p) == Tail(code[p])
Idle(p) == proc[p].state = "live" /\ code[p] = <<>>
Call(p) == Idle(p) /\ calls < MaxCalls /\ calls' = calls + 1
At(p, o) == code[p] # <<>> /\ Head(code[p]).op = o
UserPage == {"R", "W", "U"}
InitPage == {"R", "W", "X", "U"}

\* uvmalloc is a loop; fail is what follows if it runs out of memory.
GrowOp(oldsz, newsz, perm, fail) ==
    [op |-> "grow", a |-> PGROUNDUP(oldsz), base |-> PGROUNDUP(oldsz), end |-> newsz, perm |-> perm, fail |-> fail]
\* proc_pagetable: the root, the trampoline, the trapframe.
proc_pagetable(q, fail) ==
    <<[op |-> "root", fail |-> fail],
      [op |-> "map", vpn |-> TRAMPOLINE, of |-> q, perm |-> {"R", "X"}, undo |-> {}, fail |-> fail],
      [op |-> "map", vpn |-> TRAPFRAME, of |-> q, perm |-> {"R", "W"}, undo |-> {TRAMPOLINE}, fail |-> fail]>>
FreeProcOp(q) == <<[op |-> "freeproc", of |-> q]>>
\* allocproc.
allocproc(q) == <<[op |-> "trapframe", of |-> q]>> \o proc_pagetable(q, FreeProcOp(q)) \o <<[op |-> "install", of |-> q]>>

\* userinit: the first process, with one page.
Init ==
    /\ other \in Others
    /\ m = [free |-> Pages \ other, pt |-> [p \in Pages |-> NoPages], data |-> [p \in Pages |-> Junk], panic |-> FALSE]
    /\ proc = [p \in Procs |-> IF p = initproc THEN [NoProc EXCEPT !.state = "used"] ELSE NoProc]
    /\ new = [p \in Procs |-> NoTable] /\ held = [p \in Procs |-> {}]
    /\ code = [p \in Procs |-> IF p = initproc THEN allocproc(p) \o <<[op |-> "uvmfirst"]>> ELSE <<>>]
    /\ mem = [p \in Procs |-> <<>>] /\ calls = 0

\* The user program stores to a page of its own.
Store(p, vpn) ==
    LET e == m.pt[proc[p].pagetable].map[vpn] IN
    /\ Idle(p) /\ {"U", "W"} \subseteq e.perm
    /\ m' = [m EXCEPT !.data[e.pa] = p]
    /\ mem' = [mem EXCEPT ![p][vpn + 1].val = p]
    /\ UNCHANGED <<proc, new, held, other, code, calls>>

\* The steps of allocproc and proc_pagetable.
Trapframe(p) ==
    /\ At(p, "trapframe")
    /\ \E k \in {kalloc(m)} :
         /\ m' = k.s /\ proc' = [proc EXCEPT ![Head(code[p]).of].trapframe = k.pa]
         /\ Do(p, IF k.pa = 0 THEN FreeProcOp(Head(code[p]).of) ELSE Rest(p))
    /\ UNCHANGED <<new, held, other, mem, calls>>
Root(p) ==
    /\ At(p, "root")
    /\ \E k \in {kalloc(m)} :
         /\ m' = k.s /\ new' = [new EXCEPT ![p] = [pagetable |-> k.pa, sz |-> 0]]
         /\ Do(p, IF k.pa = 0 THEN Head(code[p]).fail ELSE Rest(p))
    /\ UNCHANGED <<proc, held, other, mem, calls>>
Map(p) ==
    /\ At(p, "map")
    /\ LET h == Head(code[p])  t == new[p].pagetable IN
       \E g \in {mappages(m, t, h.vpn, IF h.vpn = TRAMPOLINE THEN TrampolinePage ELSE proc[h.of].trapframe, h.perm)} :
         IF g.ok THEN m' = g.s /\ Do(p, Rest(p)) /\ UNCHANGED new
         ELSE m' = uvmfree(uvmunmap(g.s, t, h.undo, FALSE), t, 0) /\ Do(p, h.fail) /\ new' = [new EXCEPT ![p] = NoTable]
    /\ UNCHANGED <<proc, held, other, mem, calls>>
Install(p) ==
    /\ At(p, "install")
    /\ proc' = [proc EXCEPT ![Head(code[p]).of].pagetable = new[p].pagetable]
    /\ new' = [new EXCEPT ![p] = NoTable] /\ Do(p, Rest(p))
    /\ UNCHANGED <<m, held, other, mem, calls>>

\* A page of uvmalloc and of uvmcopy: the page, then its mapping.
\* Mutant: the page is lost when there is none for the page table.
PageLost(s, pa) == s
PageFreed(s, pa) == kfree(s, {pa})
Page(s, table, vpn, val, perm) ==
    LET k == kalloc(s)  mp == mappages([k.s EXCEPT !.data[k.pa] = val], table, vpn, k.pa, perm) IN
    IF k.pa = 0 THEN [s |-> s, ok |-> FALSE]
    ELSE IF ~mp.ok THEN [s |-> PageFreed(mp.s, k.pa), ok |-> FALSE]
    ELSE mp
uvmfirst(p) ==
    /\ At(p, "uvmfirst")
    /\ m' = Page(m, proc[p].pagetable, 0, Zero, InitPage).s
    /\ proc' = [proc EXCEPT ![p].sz = PGSIZE, ![p].state = "live"]
    /\ mem' = [mem EXCEPT ![p] = <<[val |-> Zero, perm |-> InitPage]>>]
    /\ Do(p, Rest(p))
    /\ UNCHANGED <<new, held, other, calls>>
\* The table that grows: exec's new one, or the process's.
Table(p) == IF new[p].pagetable # 0 THEN new[p].pagetable ELSE proc[p].pagetable
Grow(p) ==
    /\ At(p, "grow")
    /\ LET h == Head(code[p])  t == Table(p) IN
       IF h.a >= h.end THEN Do(p, Rest(p)) /\ UNCHANGED m
       ELSE \E g \in {Page(m, t, h.a \div PGSIZE, Zero, h.perm)} :
              IF g.ok THEN m' = g.s /\ Do(p, <<[h EXCEPT !.a = @ + PGSIZE]>> \o Rest(p))
              ELSE m' = uvmdealloc(g.s, t, h.a, h.base) /\ Do(p, h.fail)
    /\ UNCHANGED <<proc, new, held, other, mem, calls>>

\* sbrk.
Sbrk(p, n) ==
    /\ Call(p) /\ n > 0
    /\ Do(p, <<GrowOp(proc[p].sz, (proc[p].sz + n) % WIDTH, UserPage, <<>>), [op |-> "sz", sz |-> (proc[p].sz + n) % WIDTH]>>)
    /\ UNCHANGED <<m, proc, new, held, other, mem>>
\* The new size, the result of uvmdealloc; growproc returns 0.
Shrunk(sz, n) == LET newsz == (sz + n) % WIDTH IN IF newsz >= sz THEN sz ELSE newsz
Shrink(p, n) ==
    /\ Call(p) /\ n < 0
    /\ m' = uvmdealloc(m, proc[p].pagetable, proc[p].sz, Shrunk(proc[p].sz, n))
    /\ proc' = [proc EXCEPT ![p].sz = Shrunk(@, n)]
    /\ mem' = [mem EXCEPT ![p] = SubSeq(@, 1, Top(proc'[p].sz))]
    /\ UNCHANGED <<new, held, other, code>>
SetSz(p) ==
    /\ At(p, "sz")
    /\ proc' = [proc EXCEPT ![p].sz = Head(code[p]).sz]
    /\ mem' = [mem EXCEPT ![p] = [k \in 1..Top(Head(code[p]).sz) |-> IF k \in DOMAIN @ THEN @[k] ELSE [val |-> Zero, perm |-> UserPage]]]
    /\ Do(p, Rest(p))
    /\ UNCHANGED <<m, new, held, other, calls>>

\* fork.
Fork(p, q) ==
    /\ Call(p) /\ proc[q] = NoProc
    /\ proc' = [proc EXCEPT ![q].state = "used"]
    /\ Do(p, allocproc(q) \o <<[op |-> "copy", i |-> 0, of |-> q]>>)
    /\ UNCHANGED <<m, new, held, other, mem>>
\* A page of uvmcopy, and what fork does after the last.
Copied(vpn) == 0..vpn - 1
Copy(p) ==
    /\ At(p, "copy")
    /\ LET h == Head(code[p])  q == h.of  vpn == h.i \div PGSIZE  e == m.pt[proc[p].pagetable].map[vpn] IN
       IF h.i >= proc[p].sz
       THEN /\ proc' = [proc EXCEPT ![q].state = "live", ![q].sz = proc[p].sz]
            /\ mem' = [mem EXCEPT ![q] = mem[p]]
            /\ Do(p, Rest(p)) /\ UNCHANGED m
       ELSE \E g \in {Page(m, proc[q].pagetable, vpn, m.data[e.pa], e.perm)} :
            /\ IF g.ok THEN m' = g.s /\ Do(p, <<[h EXCEPT !.i = @ + PGSIZE]>>)
               ELSE m' = uvmunmap(g.s, proc[q].pagetable, Copied(vpn), TRUE) /\ Do(p, FreeProcOp(q))
            /\ UNCHANGED <<proc, mem>>
    /\ UNCHANGED <<new, held, other, calls>>

\* freeproc, for a fork that failed and by wait for a process that exited.
FreeProc(p) ==
    /\ At(p, "freeproc")
    /\ LET q == Head(code[p]).of IN
       m' = freeproc(m, proc[q]) /\ proc' = [proc EXCEPT ![q] = NoProc] /\ mem' = [mem EXCEPT ![q] = <<>>]
    /\ Do(p, Rest(p))
    /\ UNCHANGED <<new, held, other, calls>>
Exit(p) ==
    /\ Call(p) /\ p # initproc
    /\ Do(p, FreeProcOp(p))
    /\ UNCHANGED <<m, proc, new, held, other, mem>>

\* exec: arguments, a page table, segments, the stack, the exchange.
FreeArgsOp == <<[op |-> "freeargs"]>>
Bad == <<[op |-> "bad"]>> \o FreeArgsOp
Exec(p, prog, argc) ==
    /\ Call(p)
    /\ Do(p, [k \in 1..argc |-> [op |-> "arg"]] \o <<[op |-> "header"]>> \o proc_pagetable(p, FreeArgsOp)
             \o [k \in DOMAIN prog |-> [op |-> "seg", seg |-> prog[k]]] \o <<[op |-> "stack"], [op |-> "commit", prog |-> prog]>> \o FreeArgsOp)
    /\ UNCHANGED <<m, proc, new, held, other, mem>>
\* kalloc, and fetchstr, which may fail.
Arg(p) ==
    /\ At(p, "arg")
    /\ LET k == kalloc(m) IN
       /\ m' = k.s /\ held' = [held EXCEPT ![p] = @ \cup ({k.pa} \ {0})]
       /\ \/ k.pa # 0 /\ Do(p, Rest(p))
          \/ Do(p, FreeArgsOp)
    /\ UNCHANGED <<proc, new, other, mem, calls>>
FreeArgs(p) ==
    /\ At(p, "freeargs")
    /\ m' = kfree(m, held[p]) /\ held' = [held EXCEPT ![p] = {}] /\ Do(p, Rest(p))
    /\ UNCHANGED <<proc, new, other, mem, calls>>
\* The path and the ELF header, which may be bad.
Header(p) ==
    /\ At(p, "header")
    /\ Do(p, Rest(p)) \/ Do(p, FreeArgsOp)
    /\ UNCHANGED <<m, proc, new, held, other, mem, calls>>
SegOk(g) == g.memsz >= g.filesz /\ (g.vaddr + g.memsz) % WIDTH >= g.vaddr /\ g.vaddr % PGSIZE = 0
\* A program header, which may be short or bad, and its memory.
Seg(p) ==
    /\ At(p, "seg")
    /\ LET g == Head(code[p]).seg  end == g.vaddr + g.memsz IN
       \/ Do(p, Bad)
       \/ SegOk(g) /\ Do(p, <<GrowOp(new[p].sz, end, {"R", "U"} \cup g.perm, Bad), [op |-> "newsz", sz |-> end],
                            [op |-> "load", seg |-> g]>> \o Rest(p))
    /\ UNCHANGED <<m, proc, new, held, other, mem, calls>>
\* The result of uvmalloc; 0 is taken for an error.
NewSz(p) ==
    /\ At(p, "newsz")
    /\ LET sz1 == IF Head(code[p]).sz < new[p].sz THEN new[p].sz ELSE Head(code[p]).sz IN
       /\ new' = [new EXCEPT ![p].sz = sz1]
       /\ Do(p, IF sz1 = 0 THEN Bad ELSE Rest(p))
    /\ UNCHANGED <<m, proc, held, other, mem, calls>>
\* loadseg; the file may be too short.
LoadSeg(p) ==
    /\ At(p, "load")
    /\ LET g == Head(code[p]).seg
           V == {g.vaddr \div PGSIZE + i : i \in 0..Top(g.filesz) - 1}
           pas == {m.pt[new[p].pagetable].map[vpn].pa : vpn \in V} IN
       \/ /\ m' = [m EXCEPT !.panic = @ \/ \E vpn \in V : "U" \notin m.pt[new[p].pagetable].map[vpn].perm,
                            !.data = [k \in Pages |-> IF k \in pas THEN g.val ELSE @[k]]]
          /\ Do(p, Rest(p))
       \/ Do(p, Bad) /\ UNCHANGED m
    /\ UNCHANGED <<proc, new, held, other, mem, calls>>
Stack(p) ==
    /\ At(p, "stack")
    /\ LET sz == PGROUNDUP(new[p].sz)  end == sz + (USERSTACK + 1) * PGSIZE IN
       Do(p, <<GrowOp(sz, end, UserPage, Bad), [op |-> "newsz", sz |-> end]>> \o Rest(p))
    /\ UNCHANGED <<m, proc, new, held, other, mem, calls>>
\* uvmclear, the arguments, which may not fit, and the new image.
Cleared(perm) == perm \ {"U"}
Image(prog, p) ==
    LET end(g) == Top(g.vaddr + g.memsz)
        top == Max({end(prog[k]) : k \in DOMAIN prog})
        seg(vpn) == prog[Min({k \in DOMAIN prog : vpn < end(prog[k])})]
        loads(vpn) == {k \in DOMAIN prog : vpn \in prog[k].vaddr \div PGSIZE..prog[k].vaddr \div PGSIZE + Top(prog[k].filesz) - 1} IN
    [k \in 1..top |-> [val |-> IF loads(k - 1) = {} THEN Zero ELSE prog[Max(loads(k - 1))].val, perm |-> {"R", "U"} \cup seg(k - 1).perm]]
    \o <<[val |-> Zero, perm |-> UserPage \ {"U"}]>> \o [k \in 1..USERSTACK |-> [val |-> IF k = USERSTACK THEN p ELSE Zero, perm |-> UserPage]]
Commit(p) ==
    /\ At(p, "commit")
    /\ \/ Do(p, Bad) /\ UNCHANGED <<m, proc, new, mem>>
       \/ LET t == new[p].pagetable  top == Top(new[p].sz)
              s == [m EXCEPT !.pt[t].map[top - (USERSTACK + 1)].perm = Cleared(@), !.data[m.pt[t].map[top - 1].pa] = p] IN
          /\ m' = proc_freepagetable(s, proc[p].pagetable, proc[p].sz)
          /\ proc' = [proc EXCEPT ![p].pagetable = t, ![p].sz = new[p].sz]
          /\ new' = [new EXCEPT ![p] = NoTable]
          /\ mem' = [mem EXCEPT ![p] = Image(Head(code[p]).prog, p)]
          /\ Do(p, Rest(p))
    /\ UNCHANGED <<held, other, calls>>
AllFreed(s, t) == proc_freepagetable(s, t.pagetable, t.sz)
ExecBad(p) ==
    /\ At(p, "bad")
    /\ m' = AllFreed(m, new[p])
    /\ new' = [new EXCEPT ![p] = NoTable] /\ Do(p, Rest(p))
    /\ UNCHANGED <<proc, held, other, mem, calls>>

Step(p) == \/ Trapframe(p) \/ Root(p) \/ Map(p) \/ Install(p) \/ uvmfirst(p) \/ FreeProc(p)
           \/ SetSz(p) \/ Grow(p) \/ Copy(p) \/ Arg(p) \/ FreeArgs(p) \/ Header(p) \/ Seg(p) \/ NewSz(p)
           \/ LoadSeg(p) \/ Stack(p) \/ Commit(p) \/ ExecBad(p)
Next == \E p \in Procs : \/ Step(p) \/ Exit(p)
                         \/ \E n \in Deltas : Sbrk(p, n) \/ Shrink(p, n)
                         \/ \E vpn \in Vpns : Store(p, vpn)
                         \/ \E q \in Procs : Fork(p, q)
                         \/ \E prog \in Programs, argc \in 0..MAXARG : Exec(p, prog, argc)
Spec == Init /\ [][Next]_vars

-----------------------------------------------------------------------------

\* Page tables in use, and the pages each use of memory takes.
Tables == ({proc[p].pagetable : p \in Procs} \cup {new[p].pagetable : p \in Procs}) \ {0}
Leaves == Tables \X (Vpns \ {TRAMPOLINE, TRAPFRAME})
Uses(pa) == Cardinality({p \in Procs : proc[p].trapframe = pa}) + Cardinality({p \in Procs : pa \in held[p]})
            + Cardinality({t \in Tables : pa \in TablePages(m, t)})
            + Cardinality({e \in Leaves : m.pt[e[1]].map[e[2]].pa = pa})
            + (IF pa \in other THEN 1 ELSE 0)

\* Every page of memory is free or used for exactly one thing - a page table, a
\* page of one process, a trapframe, an argument - at every point of every
\* call, whether it succeeds or runs out of memory half way.
PagesExact == \A pa \in Pages : Uses(pa) = IF pa \in m.free THEN 0 ELSE 1

\* A process between calls sees the memory the calls that succeeded gave it:
\* pages, contents and permissions, nothing more, and failed calls and other
\* processes change nothing.
MemoryRight == \A p \in Procs : Idle(p) =>
    /\ Mapped(m, proc[p].pagetable) = (0..Len(mem[p]) - 1) \cup {TRAMPOLINE, TRAPFRAME}
    /\ Len(mem[p]) = Top(proc[p].sz)
    /\ m.pt[proc[p].pagetable].map[TRAPFRAME].pa = proc[p].trapframe
    /\ \A k \in DOMAIN mem[p] : LET e == m.pt[proc[p].pagetable].map[k - 1] IN
         mem[p][k] = [val |-> m.data[e.pa], perm |-> e.perm]

\* No panic of vm.c or kalloc.c: nothing is mapped twice, nothing unmapped
\* that is not mapped, no page table freed that still maps something.
NoPanic == ~m.panic
=============================================================================
