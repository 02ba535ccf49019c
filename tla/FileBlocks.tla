----------------------------- MODULE FileBlocks -----------------------------
(***************************************************************************)
(* The contents of files: balloc, bfree, bmap, itrunc, readi and writei of *)
(* kernel/fs.c, fileread and filewrite of kernel/file.c for inodes.  A     *)
(* transaction (begin_op to end_op, with the inode locked) is one step;    *)
(* filewrite makes several, and others may come in between.                *)
(*                                                                         *)
(* cache is a block as the buffer cache has it, which every reader sees;   *)
(* disk is what has been given to log_write.                               *)
(***************************************************************************)
EXTENDS Integers, Sequences, FiniteSets, FiniteSetsExt

CONSTANTS
    Procs, Files, Open,         \* Open[p]: the struct file p reads and writes; file f is inode f
    Blocks,                     \* numbers of the data blocks
    BSIZE, NDIRECT, NINDIRECT, MAXOPBLOCKS,
    BPB,                        \* blocks to a bitmap block
    Counts,                     \* bound: the n of read and write calls
    Torn                        \* can an unmapped page begin inside a block's worth of the user's buffer?

\* What the constants have to satisfy.
BlockSizes == /\ BSIZE \in Nat \ {0} /\ NDIRECT \in Nat /\ NINDIRECT \in Nat /\ BPB \in Nat \ {0}
              /\ Blocks \subseteq Nat \ {0} /\ MAXOPBLOCKS \in Nat /\ Torn \in BOOLEAN
              /\ Counts \subseteq Nat

MAXFILE == NDIRECT + NINDIRECT
Zeroed == [k \in 0..(IF BSIZE > NINDIRECT THEN BSIZE ELSE NINDIRECT) - 1 |-> 0]

Garbage == [k \in DOMAIN Zeroed |-> -1]     \* what a free block holds

VARIABLES fs,       \* bitmap, cache and disk of the blocks, inodes, blocks logged in the last transaction
          off,      \* open file -> f->off
          todo,     \* process -> bytes its write has still to write
          file      \* inode -> what its contents should be (history)
vars == <<fs, off, todo, file>>

Init ==
    /\ fs = [bitmap |-> {}, cache |-> [b \in Blocks |-> Garbage], disk |-> [b \in Blocks |-> Garbage],
             ino |-> [i \in Files |-> [addrs |-> [k \in 0..NDIRECT |-> 0], size |-> 0]], logged |-> {}]
    /\ off = [f \in Files |-> 0] /\ todo = [p \in Procs |-> 0] /\ file = [f \in Files |-> <<>>]

BBLOCK(b) == <<"bitmap", b \div BPB>>
IBLOCK == <<"inode", 0>>
DBLOCK(b) == <<"data", b>>
\* log_write of a data block.
log_write(s, b) == [s EXCEPT !.disk[b] = s.cache[b], !.logged = @ \cup {DBLOCK(b)}]
iupdate(s) == [s EXCEPT !.logged = @ \cup {IBLOCK}]

\* balloc: the first free block, zeroed, or 0.
bzero(s, b) == log_write([s EXCEPT !.cache[b] = Zeroed], b)
balloc(s) ==
    LET free == Blocks \ s.bitmap  b == Min(free) IN
    IF free = {} THEN [s |-> s, addr |-> 0]
    ELSE [s |-> bzero([s EXCEPT !.bitmap = @ \cup {b}, !.logged = @ \cup {BBLOCK(b)}], b), addr |-> b]

\* bfree of a set of blocks.
bfree(s, B) == [s EXCEPT !.bitmap = @ \ B, !.logged = @ \cup {BBLOCK(b) : b \in B},
                         !.cache = [b \in Blocks |-> IF b \in B THEN Garbage ELSE @[b]],
                         !.disk = [b \in Blocks |-> IF b \in B THEN Garbage ELSE @[b]]]

\* bmap: the block of inode i that holds block bn of the file; it allocates
\* the block, and the indirect block, if there is none.
Direct(s, i, k) ==
    LET a == balloc(s) IN
    IF s.ino[i].addrs[k] # 0 THEN [s |-> s, addr |-> s.ino[i].addrs[k]]
    ELSE [s |-> [a.s EXCEPT !.ino[i].addrs[k] = a.addr], addr |-> a.addr]
Entered(s, ind, k, b) == log_write([s EXCEPT !.cache[ind][k] = b], ind)
bmap(s, i, bn) ==
    IF bn < NDIRECT THEN Direct(s, i, bn)
    ELSE LET k == bn - NDIRECT  d == Direct(s, i, NDIRECT)  a == balloc(d.s) IN
         IF d.addr = 0 THEN d
         ELSE IF d.s.cache[d.addr][k] # 0 THEN [s |-> d.s, addr |-> d.s.cache[d.addr][k]]
         ELSE IF a.addr = 0 THEN a
         ELSE [s |-> Entered(a.s, d.addr, k, a.addr), addr |-> a.addr]

\* The blocks of an inode, without the indirect block, and with it.
Ind(s, i) == s.ino[i].addrs[NDIRECT]
DataBlocks(s, i) == ({s.ino[i].addrs[k] : k \in 0..NDIRECT - 1} \cup
                     (IF Ind(s, i) = 0 THEN {} ELSE {s.cache[Ind(s, i)][k] : k \in 0..NINDIRECT - 1})) \ {0}
Owned(s, i) == DataBlocks(s, i) \cup ({Ind(s, i)} \ {0})
\* itrunc.  Mutant: the indirect block itself is not freed.
DirectOnly(s, i) == DataBlocks(s, i)
Freed(s, i) == Owned(s, i)
itrunc(s, i) == iupdate([bfree(s, Freed(s, i)) EXCEPT !.ino[i] = [addrs |-> [k \in 0..NDIRECT |-> 0], size |-> 0]])

MinOf(a, b) == IF a < b THEN a ELSE b

\* The outcomes of writei's loop: bytes v to offset o of inode i, tot of n
\* done.  The copy of the m bytes that go to a block can fail, after it has
\* changed some of the buffer; no log_write follows then.
Copied(s, b, o, m, v) == [s EXCEPT !.cache[b] = [k \in DOMAIN @ |-> IF k \in (o % BSIZE)..((o % BSIZE) + m - 1) THEN v ELSE @[k]]]
RECURSIVE WriteLoop(_, _, _, _, _, _)
WriteLoop(s, i, o, tot, n, v) ==
    LET m == MinOf(n - tot, BSIZE - (o % BSIZE))
        Stop(t) == [s |-> t, tot |-> tot, off |-> o] IN
    IF tot = n THEN {Stop(s)}
    ELSE UNION {IF r.addr = 0 THEN {Stop(r.s)}
                ELSE {Stop(Copied(r.s, r.addr, o, j, v)) : j \in IF Torn THEN 0..m - 1 ELSE {0}}
                     \cup UNION {WriteLoop(t, i, o + m, tot + m, n, v) :
                                 t \in {log_write(Copied(r.s, r.addr, o, m, v), r.addr)}} :
                r \in {bmap(s, i, o \div BSIZE)}}

\* writei; its result is tot, -1 if it refuses.  Mutant: the size is not
\* raised when the write fell short.
OnlyComplete(w, n, size) == IF w.tot = n /\ w.off > size THEN w.off ELSE size
NewSize(w, n, size) == IF w.off > size THEN w.off ELSE size
writei(s, i, o, n, v) ==
    IF o > s.ino[i].size \/ o + n > MAXFILE * BSIZE THEN {[s |-> s, tot |-> -1]}
    ELSE {[s |-> iupdate([w.s EXCEPT !.ino[i].size = NewSize(w, n, @)]), tot |-> w.tot] : w \in WriteLoop(s, i, o, 0, n, v)}

\* readi: the bytes it copies out.
Byte(s, i, o) == s.cache[bmap(s, i, o \div BSIZE).addr][o % BSIZE]
readi(s, i, o, n) ==
    LET e == MinOf(n, s.ino[i].size - o) IN
    IF o > s.ino[i].size THEN <<>> ELSE [k \in 1..e |-> Byte(s, i, o + k - 1)]

\* filewrite: the call, and one of its transactions.  Mutant: no room is left
\* for the blocks of an unaligned write.
NoSlop == ((MAXOPBLOCKS - 1 - 1) \div 2) * BSIZE
max == ((MAXOPBLOCKS - 1 - 1 - 2) \div 2) * BSIZE

Call(p, n) ==
    /\ todo[p] = 0
    /\ todo' = [todo EXCEPT ![p] = n]
    /\ UNCHANGED <<fs, off, file>>

Overwrite(c, o, n, v) == [k \in 1..(IF o + n > Len(c) THEN o + n ELSE Len(c)) |-> IF k \in o + 1..o + n THEN v ELSE c[k]]
Filewrite(p) ==
    /\ todo[p] > 0
    /\ LET f == Open[p]  n1 == MinOf(todo[p], max) IN
       \E w \in writei([fs EXCEPT !.logged = {}], f, off[f], n1, p) :
          /\ fs' = w.s
          /\ off' = IF w.tot > 0 THEN [off EXCEPT ![f] = @ + w.tot] ELSE off
          /\ todo' = [todo EXCEPT ![p] = IF w.tot = n1 THEN @ - n1 ELSE 0]
          /\ file' = IF w.tot > 0 THEN [file EXCEPT ![f] = Overwrite(@, off[f], w.tot, p)] ELSE file

\* fileread.
Fileread(p, n) ==
    /\ todo[p] = 0
    /\ off' = [off EXCEPT ![Open[p]] = @ + Len(readi(fs, Open[p], @, n))]
    /\ UNCHANGED <<fs, todo, file>>

\* sys_open of the file by another process, with O_TRUNC; p opens it anew.
Truncate(f) ==
    /\ fs' = itrunc([fs EXCEPT !.logged = {}], f)
    /\ file' = [file EXCEPT ![f] = <<>>]
    /\ UNCHANGED <<off, todo>>
Reopen(f) == off[f] # 0 /\ off' = [off EXCEPT ![f] = 0] /\ UNCHANGED <<fs, todo, file>>

Next == \/ \E p \in Procs : Filewrite(p) \/ \E n \in Counts : Call(p, n) \/ Fileread(p, n)
        \/ \E f \in Files : Truncate(f) \/ Reopen(f)
Spec == Init /\ [][Next]_vars

-----------------------------------------------------------------------------

\* The bitmap marks exactly the blocks the inodes lead to, and no two inodes
\* share one, after writes that failed half way for want of blocks or of user
\* memory, and after truncation under an open file.
BlocksOwned ==
    /\ fs.bitmap = UNION {Owned(fs, f) : f \in Files}
    /\ \A f \in Files : 0 \notin Owned(fs, f) /\ Ind(fs, f) \notin DataBlocks(fs, f)
    /\ \A f, g \in Files : f # g => Owned(fs, f) \cap Owned(fs, g) = {}

\* The size of a file is that of the bytes written to it, of a write that fell
\* short those that its result counts.
SizesRight == \A f \in Files : fs.ino[f].size = Len(file[f])
\* A file holds what was written to it: at every offset readi returns the
\* bytes of the last successful write, up to the size of the file.
ContentsRight == /\ SizesRight
                 /\ \A f \in Files : \A o \in 0..Len(file[f]) :
                        readi(fs, f, o, MAXFILE * BSIZE) = SubSeq(file[f], o + 1, Len(file[f]))

\* One transaction of filewrite logs at most MAXOPBLOCKS blocks, even if every
\* bitmap block it touches is a different one.
LogFits == Cardinality(fs.logged) <= MAXOPBLOCKS

=============================================================================
