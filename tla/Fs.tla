--------------------------------- MODULE Fs ---------------------------------
(***************************************************************************)
(* The inode table and the directory tree: iget to iput, dirlookup,        *)
(* dirlink and namex of kernel/fs.c, and the system calls of               *)
(* kernel/sysfile.c that change the tree.                                  *)
(*                                                                         *)
(* A process has the operations it has still to do in code, and the inodes *)
(* it has pointers to in reg: the C variables dp, ip and next, its working *)
(* directory and an open file.  Between two operations any other process   *)
(* may run.  mem is the copy of an inode in the table, dsk the one in its  *)
(* block, which the buffer cache keeps (Bcache) and the log makes atomic   *)
(* (Log).  The contents of directories are functions from names; those of  *)
(* files are in FileBlocks.                                                *)
(***************************************************************************)
EXTENDS Integers, Sequences, FiniteSets

CONSTANTS Procs, NINODES, Names,
          Calls,       \* the system calls a process may make
          MaxCalls,    \* bound: calls of all processes
          None

\* What the constants have to satisfy.
FsSizes == NINODES \in Nat \ {0} /\ MaxCalls \in Nat /\ {".", ".."} \subseteq Names

Inums == 1..NINODES
Root == 1
Regs == {"dp", "ip", "next", "cwd", "fd"}
Free == [type |-> "none", nlink |-> 0]

VARIABLES dsk, ents,               \* inode -> its dinode; directory -> name -> inode or 0
          mem, ref, valid, lock,   \* itable
          code, reg, calls, panic
itable == <<mem, ref, valid, lock>>
vars == <<dsk, ents, itable, code, reg, calls, panic>>

\* mkfs makes the root directory; userinit makes it the working directory.
Init ==
    /\ dsk = [i \in Inums |-> IF i = Root THEN [type |-> "DIR", nlink |-> 1] ELSE Free]
    /\ ents = [i \in Inums |-> [m \in Names |-> IF i = Root /\ m \in {".", ".."} THEN Root ELSE 0]]
    /\ mem = [i \in Inums |-> Free] /\ valid = [i \in Inums |-> FALSE] /\ lock = [i \in Inums |-> None]
    /\ ref = [i \in Inums |-> IF i = Root THEN Cardinality(Procs) ELSE 0]
    /\ reg = [p \in Procs |-> [x \in Regs |-> IF x = "cwd" THEN Root ELSE 0]]
    /\ code = [p \in Procs |-> <<>>] /\ calls = 0 /\ panic = None

Op(p) == Head(code[p])
Is(p, o) == code[p] # <<>> /\ Op(p)[1] = o
Goes(p, ops) == code' = [code EXCEPT ![p] = ops]
Then(p) == Tail(code[p])
Panics(c, what) == panic' = IF c THEN what ELSE panic
\* Mutant: iput where iunlockput is meant.
PutOnly(x) == << <<"iput", x>> >>
\* iunlockput(x), as operations.
UnlockPut(x) == << <<"iunlock", x>>, <<"iput", x>> >>

\* iget and idup: register x of p gets a reference to inode i.
Iget(p, x, i) ==
    /\ reg' = [reg EXCEPT ![p][x] = i]
    /\ ref' = [ref EXCEPT ![i] = @ + 1]
    /\ valid' = IF ref[i] = 0 THEN [valid EXCEPT ![i] = FALSE] ELSE valid

\* ilock.
Ilock(p) ==
    /\ Is(p, "ilock")
    /\ LET i == reg[p][Op(p)[2]] IN
       /\ lock[i] = None
       /\ lock' = [lock EXCEPT ![i] = p]
       /\ IF valid[i] THEN UNCHANGED <<mem, valid>>
          ELSE mem' = [mem EXCEPT ![i] = dsk[i]] /\ valid' = [valid EXCEPT ![i] = TRUE]
       /\ IF ref[i] < 1 THEN panic' = "ilock" ELSE Panics(~valid[i] /\ dsk[i].type = "none", "ilock: no type")
    /\ Goes(p, Then(p))
    /\ UNCHANGED <<dsk, ents, ref, reg, calls>>

\* iunlock.
Iunlock(p) ==
    /\ Is(p, "iunlock")
    /\ LET i == reg[p][Op(p)[2]] IN
       lock' = [lock EXCEPT ![i] = None] /\ Panics(lock[i] # p \/ ref[i] < 1, "iunlock")
    /\ Goes(p, Then(p))
    /\ UNCHANGED <<dsk, ents, mem, ref, valid, reg, calls>>

LastRef(i) == ref[i] = 1 /\ valid[i] /\ mem[i].nlink = 0

\* iput: drop the reference in x; the last one of an inode without links
\* frees it first.  To sleep for its lock would be to sleep with itable.lock.
Iput(p) ==
    /\ Is(p, "iput")
    /\ LET x == Op(p)[2]  i == reg[p][x] IN
       IF LastRef(i)
       THEN /\ Panics(lock[i] # None, "sched locks")
            /\ lock' = [lock EXCEPT ![i] = p]
            /\ Goes(p, << <<"itrunc", x>>, <<"invalid", x>>, <<"drop", x>> >> \o Then(p))
            /\ UNCHANGED <<ref, reg>>
       ELSE /\ ref' = [ref EXCEPT ![i] = @ - 1]
            /\ reg' = [reg EXCEPT ![p][x] = 0]
            /\ Goes(p, Then(p))
            /\ UNCHANGED <<lock, panic>>
    /\ UNCHANGED <<dsk, ents, mem, valid, calls>>
\* itrunc and the freeing of the dinode by iupdate.
Itrunc(p) ==
    /\ Is(p, "itrunc")
    /\ LET i == reg[p][Op(p)[2]] IN
       /\ ents' = [ents EXCEPT ![i] = [m \in Names |-> 0]]
       /\ mem' = [mem EXCEPT ![i].type = "none"]
       /\ dsk' = [dsk EXCEPT ![i] = mem'[i]]
    /\ Goes(p, Then(p))
    /\ UNCHANGED <<ref, valid, lock, reg, calls, panic>>
\* Mutant: the copy in the table stays valid.
StaysValid(i) == valid
Invalid(i) == [valid EXCEPT ![i] = FALSE]
Invalidate(p) ==
    /\ Is(p, "invalid")
    /\ LET i == reg[p][Op(p)[2]] IN valid' = Invalid(i) /\ lock' = [lock EXCEPT ![i] = None]
    /\ Goes(p, Then(p))
    /\ UNCHANGED <<dsk, ents, mem, ref, reg, calls, panic>>
Drop(p) ==
    /\ Is(p, "drop")
    /\ ref' = [ref EXCEPT ![reg[p][Op(p)[2]]] = @ - 1]
    /\ reg' = [reg EXCEPT ![p][Op(p)[2]] = 0]
    /\ Goes(p, Then(p))
    /\ UNCHANGED <<dsk, ents, mem, valid, lock, calls, panic>>

\* namex(path, parent) into register x; fail is what the caller does if it
\* returns 0 and rest if not.  The first step takes the start of the path.
Namex(path, parent, x, fail) == << <<"namex", path, parent, x, fail>> >>
Walk(path, parent, x, fail, rest) ==
    IF path # <<>> THEN << <<"ilock", x>>, <<"lookup", path, parent, x, fail>> >> \o rest
    ELSE IF parent THEN << <<"iput", x>> >> \o fail ELSE rest
NamexStart(p) ==
    /\ Is(p, "namex")
    /\ LET x == Op(p)[4]  path == Op(p)[2]  absolute == path # <<>> /\ Head(path) = "/" IN
       /\ Iget(p, x, IF absolute THEN Root ELSE reg[p]["cwd"])
       /\ Goes(p, Walk(IF absolute THEN Tail(path) ELSE path, Op(p)[3], x, Op(p)[5], Then(p)))
    /\ UNCHANGED <<dsk, ents, mem, lock, calls, panic>>
\* The body of namex's loop, with x locked.
Lookup(p) ==
    /\ Is(p, "lookup")
    /\ LET path == Op(p)[2]  parent == Op(p)[3]  x == Op(p)[4]  fail == Op(p)[5]  d == reg[p][x] IN
       IF mem[d].type # "DIR"
       THEN Goes(p, UnlockPut(x) \o fail) /\ UNCHANGED <<reg, ref, valid>>
       ELSE IF parent /\ Len(path) = 1
       THEN Goes(p, << <<"iunlock", x>> >> \o Then(p)) /\ UNCHANGED <<reg, ref, valid>>
       ELSE IF ents[d][Head(path)] = 0
       THEN Goes(p, UnlockPut(x) \o fail) /\ UNCHANGED <<reg, ref, valid>>
       ELSE /\ Iget(p, "next", ents[d][Head(path)])
            /\ Goes(p, UnlockPut(x) \o << <<"advance", x>> >> \o Walk(Tail(path), parent, x, fail, Then(p)))
    /\ UNCHANGED <<dsk, ents, mem, lock, calls, panic>>
Advance(p) ==
    /\ Is(p, "advance")
    /\ reg' = [reg EXCEPT ![p][Op(p)[2]] = reg[p]["next"], ![p]["next"] = 0]
    /\ Goes(p, Then(p))
    /\ UNCHANGED <<dsk, ents, itable, calls, panic>>

\* A change of the link count of a locked inode, and iupdate.
Links(t, i, d) == [t EXCEPT ![i].nlink = @ + d]
AddLink(p) ==
    /\ Is(p, "nlink")
    /\ LET i == reg[p][Op(p)[2]] IN
       mem' = Links(mem, i, Op(p)[3]) /\ dsk' = [dsk EXCEPT ![i] = mem'[i]]
    /\ Goes(p, Then(p))
    /\ UNCHANGED <<ents, ref, valid, lock, reg, calls, panic>>

\* sys_unlink, with dp locked.
Unlink(p) ==
    /\ Is(p, "unlink")
    /\ LET m == Op(p)[2]  i == ents[reg[p]["dp"]][m] IN
       IF m \in {".", ".."} \/ i = 0
       THEN Goes(p, UnlockPut("dp")) /\ UNCHANGED <<reg, ref, valid>>
       ELSE Iget(p, "ip", i) /\ Goes(p, << <<"ilock", "ip">>, <<"unlink2", m>> >>)
    /\ UNCHANGED <<dsk, ents, mem, lock, calls, panic>>
isdirempty(d) == \A m \in Names \ {".", ".."} : ents[d][m] = 0
\* ... and with ip locked too.
Unlink2(p) ==
    /\ Is(p, "unlink2")
    /\ LET m == Op(p)[2]  d == reg[p]["dp"]  i == reg[p]["ip"] IN
       /\ Panics(mem[i].nlink < 1, "unlink: nlink < 1")
       /\ IF mem[i].type = "DIR" /\ ~isdirempty(i)
          THEN Goes(p, UnlockPut("ip") \o UnlockPut("dp")) /\ UNCHANGED <<dsk, ents, mem>>
          ELSE /\ ents' = [ents EXCEPT ![d][m] = 0]
               /\ mem' = IF mem[i].type = "DIR" THEN Links(mem, d, -1) ELSE mem
               /\ dsk' = [dsk EXCEPT ![d] = mem'[d]]
               /\ Goes(p, UnlockPut("dp") \o << <<"nlink", "ip", -1>> >> \o UnlockPut("ip"))
    /\ UNCHANGED <<ref, valid, lock, reg, calls>>

\* sys_link, with ip locked.  What it does if it fails later: see Link2.
Bad == << <<"ilock", "ip">>, <<"nlink", "ip", -1>> >> \o UnlockPut("ip")
Link(p) ==
    /\ Is(p, "link")
    /\ IF mem[reg[p]["ip"]].type = "DIR" THEN Goes(p, UnlockPut("ip"))
       ELSE Goes(p, << <<"nlink", "ip", 1>>, <<"iunlock", "ip">> >>
                    \o Namex(Op(p)[2], TRUE, "dp", Bad) \o << <<"ilock", "dp">>, <<"link2", Op(p)[3]>> >>)
    /\ UNCHANGED <<dsk, ents, itable, reg, calls, panic>>
\* ... with dp locked; dirlink finds the name taken, fails to write, or not.
Link2(p) ==
    /\ Is(p, "link2")
    /\ LET m == Op(p)[2]  d == reg[p]["dp"] IN
       \/ /\ ents[d][m] # 0
          /\ Iget(p, "next", ents[d][m])
          /\ Goes(p, << <<"iput", "next">> >> \o UnlockPut("dp") \o Bad)
          /\ UNCHANGED ents
       \/ /\ ents[d][m] = 0
          /\ Goes(p, UnlockPut("dp") \o Bad)
          /\ UNCHANGED <<ents, reg, ref, valid>>
       \/ /\ ents[d][m] = 0
          /\ ents' = [ents EXCEPT ![d][m] = reg[p]["ip"]]
          /\ Goes(p, UnlockPut("dp") \o << <<"iput", "ip">> >>)
          /\ UNCHANGED <<reg, ref, valid>>
    /\ UNCHANGED <<dsk, mem, lock, calls, panic>>

\* create, with dp locked: the name exists, or ialloc takes the first free
\* inode; its iget is a step of its own.
Create(p) ==
    /\ Is(p, "create")
    /\ LET m == Op(p)[2]  type == Op(p)[3]  i == ents[reg[p]["dp"]][m]
           free == {j \in Inums : dsk[j].type = "none"} IN
       \/ /\ i # 0
          /\ Iget(p, "ip", i)
          /\ Goes(p, UnlockPut("dp") \o << <<"ilock", "ip">>, <<"exists", type>> >> \o Then(p))
          /\ UNCHANGED dsk
       \/ /\ i = 0 /\ free = {}
          /\ Goes(p, UnlockPut("dp"))
          /\ UNCHANGED <<dsk, reg, ref, valid>>
       \/ /\ i = 0
          /\ \E j \in free : /\ \A k \in free : j <= k
                             /\ dsk' = [dsk EXCEPT ![j] = [type |-> type, nlink |-> 0]]
                             /\ Goes(p, << <<"iget", j>>, <<"ilock", "ip">>, <<"create2", m, type>> >> \o Then(p))
          /\ UNCHANGED <<reg, ref, valid>>
    /\ UNCHANGED <<ents, mem, lock, calls, panic>>
IgetNew(p) ==
    /\ Is(p, "iget")
    /\ Iget(p, "ip", Op(p)[2])
    /\ Goes(p, Then(p))
    /\ UNCHANGED <<dsk, ents, mem, lock, calls, panic>>
Exists(p) ==
    /\ Is(p, "exists")
    /\ Goes(p, IF Op(p)[2] = "FILE" /\ mem[reg[p]["ip"]].type \in {"FILE", "DEVICE"} THEN Then(p) ELSE UnlockPut("ip"))
    /\ UNCHANGED <<dsk, ents, itable, reg, calls, panic>>
\* Mutant: a failed create leaves the link count of the inode.
FailKeepsLink == 1
FailedLinks == 0
\* create, with the new inode locked: the dirlinks succeed or one fails.
Create2(p) ==
    /\ Is(p, "create2")
    /\ LET m == Op(p)[2]  type == Op(p)[3]  i == reg[p]["ip"]  d == reg[p]["dp"]
           own == IF type = "DIR" THEN [ents EXCEPT ![i]["."] = i, ![i][".."] = d] ELSE ents
           new == [mem EXCEPT ![i].nlink = 1] IN
       \/ /\ ents' = [own EXCEPT ![d][m] = i]
          /\ mem' = IF type = "DIR" THEN Links(new, d, 1) ELSE new
          /\ dsk' = [dsk EXCEPT ![i] = mem'[i], ![d] = mem'[d]]
          /\ Goes(p, UnlockPut("dp") \o Then(p))
       \/ /\ ents' = own
          /\ mem' = [mem EXCEPT ![i].nlink = FailedLinks]
          /\ dsk' = [dsk EXCEPT ![i] = mem'[i]]
          /\ Goes(p, UnlockPut("ip") \o UnlockPut("dp"))
    /\ UNCHANGED <<ref, valid, lock, reg, calls, panic>>

\* The end of sys_open, with ip locked: filealloc or fdalloc fails, or not.
Open(p) ==
    /\ Is(p, "open")
    /\ \/ Goes(p, UnlockPut("ip")) /\ UNCHANGED reg
       \/ /\ reg[p]["fd"] = 0
          /\ reg' = [reg EXCEPT ![p]["fd"] = reg[p]["ip"], ![p]["ip"] = 0]
          /\ Goes(p, << <<"iunlock", "fd">> >>)
    /\ UNCHANGED <<dsk, ents, itable, calls, panic>>

\* sys_chdir, with ip locked, and its last assignment.
Chdir(p) ==
    /\ Is(p, "chdir")
    /\ Goes(p, IF mem[reg[p]["ip"]].type # "DIR" THEN UnlockPut("ip")
               ELSE << <<"iunlock", "ip">>, <<"iput", "cwd">>, <<"setcwd">> >>)
    /\ UNCHANGED <<dsk, ents, itable, reg, calls, panic>>
Setcwd(p) ==
    /\ Is(p, "setcwd")
    /\ reg' = [reg EXCEPT ![p]["cwd"] = reg[p]["ip"], ![p]["ip"] = 0]
    /\ Goes(p, Then(p))
    /\ UNCHANGED <<dsk, ents, itable, calls, panic>>

\* The system calls, as operations.
Last(s) == s[Len(s)]
Body(p, c) ==
    CASE c[1] = "unlink" -> Namex(c[2], TRUE, "dp", <<>>) \o << <<"ilock", "dp">>, <<"unlink", Last(c[2])>> >>
      [] c[1] = "link"   -> Namex(c[2], FALSE, "ip", <<>>) \o << <<"ilock", "ip">>, <<"link", c[3], Last(c[3])>> >>
      [] c[1] = "open"   -> Namex(c[2], FALSE, "ip", <<>>) \o << <<"ilock", "ip">>, <<"open">> >>
      [] c[1] = "creat"  -> Namex(c[2], TRUE, "dp", <<>>) \o << <<"ilock", "dp">>, <<"create", Last(c[2]), "FILE">>, <<"open">> >>
      [] c[1] = "mkdir"  -> Namex(c[2], TRUE, "dp", <<>>) \o << <<"ilock", "dp">>, <<"create", Last(c[2]), "DIR">> >> \o UnlockPut("ip")
      [] c[1] = "mknod"  -> Namex(c[2], TRUE, "dp", <<>>) \o << <<"ilock", "dp">>, <<"create", Last(c[2]), "DEVICE">> >> \o UnlockPut("ip")
      [] c[1] = "chdir"  -> Namex(c[2], FALSE, "ip", <<>>) \o << <<"ilock", "ip">>, <<"chdir">> >>
      [] c[1] = "close"  -> IF reg[p]["fd"] = 0 THEN <<>> ELSE << <<"iput", "fd">> >>
Syscall(p) ==
    /\ code[p] = <<>> /\ calls < MaxCalls
    /\ \E c \in Calls : Goes(p, Body(p, c))
    /\ calls' = calls + 1
    /\ UNCHANGED <<dsk, ents, itable, reg, panic>>

Step(p) == \/ Ilock(p) \/ Iunlock(p) \/ Iput(p) \/ Itrunc(p) \/ Invalidate(p) \/ Drop(p)
           \/ NamexStart(p) \/ Lookup(p) \/ Advance(p) \/ AddLink(p) \/ Unlink(p) \/ Unlink2(p)
           \/ Link(p) \/ Link2(p) \/ Create(p) \/ IgetNew(p) \/ Exists(p) \/ Create2(p)
           \/ Open(p) \/ Chdir(p) \/ Setcwd(p)
Next == panic = None /\ \E p \in Procs : Syscall(p) \/ Step(p)
Spec == Init /\ [][Next]_vars

-----------------------------------------------------------------------------

\* The reference count of an inode is the number of pointers to it that
\* processes have, at every step of every call, failed ones included.
RefsExact == \A i \in Inums : ref[i] = Cardinality({<<p, x>> \in Procs \X Regs : reg[p][x] = i})

\* The panics "ilock", "iunlock" and "unlink: nlink < 1" are not reached, and
\* iput never finds its last reference locked: its acquiresleep, made with
\* itable.lock held, does not sleep.
NoPanic == panic \in {None, "ilock: no type"}

Entries(i) == {<<d, m>> \in Inums \X (Names \ {".", ".."}) : ents[d][m] = i}
\* An entry of a directory, other than "." and "..", leads to an allocated
\* inode whose link count covers all its entries: nothing is freed, or taken
\* for another file by ialloc, while the tree still leads to it.
NoDangling == \A i \in Inums : Entries(i) # {} =>
    dsk[i].type # "none" /\ dsk[i].nlink >= Cardinality(Entries(i))

Quiet == \A p \in Procs : code[p] = <<>>
Reached(d) == d = Root \/ Entries(d) # {}
\* When no call is under way an inode has as many links as entries, and a
\* directory one more for each directory in it: "Number of links to inode in
\* file system", kernel/fs.h.
LinksExact == Quiet => \A i \in Inums : dsk[i].nlink =
    IF dsk[i].type = "DIR"
    THEN (IF Reached(i) THEN 1 ELSE 0) + Cardinality({m \in Names \ {".", ".."} : ents[i][m] # 0 /\ dsk[ents[i][m]].type = "DIR"})
    ELSE Cardinality(Entries(i))

\* "If that was the last reference and the inode has no links to it, free the
\* inode (and its content) on disk": no inode stays allocated without either.
OrphansFreed == Quiet => \A i \in Inums : dsk[i].type # "none" => dsk[i].nlink > 0 \/ ref[i] > 0

=============================================================================
