-------------------------------- MODULE Mkfs --------------------------------
(***************************************************************************)
(* mkfs/mkfs.c: how the first file system image is built.  A sector is     *)
(* BSIZE units; a directory entry, a block number and a unit of data each  *)
(* take one.  A directory entry is the number of its inode, zero if free.  *)
(***************************************************************************)
EXTENDS Integers, Sequences, FiniteSets, FiniteSetsExt

CONSTANTS BSIZE, NDIRECT, FSSIZE, LOGSIZE, NINODES, IPB, BPB,
          MaxFiles, MaxUnits    \* bounds: files on the command line, units in each
\* What the constants have to satisfy.
MkfsSizes == {BSIZE, NDIRECT, FSSIZE, LOGSIZE, NINODES, IPB, BPB} \subseteq Nat \ {0} /\ MaxFiles < NINODES - 1

NINDIRECT == BSIZE
MAXFILE == NDIRECT + NINDIRECT
ROOTINO == 1
nbitmap == FSSIZE \div BPB + 1
ninodeblocks == NINODES \div IPB + 1
inodestart == 2 + LOGSIZE
bmapstart == inodestart + ninodeblocks
nmeta == 2 + LOGSIZE + ninodeblocks + nbitmap
IBLOCK(i) == inodestart + i \div IPB
zeroes == [i \in 0..BSIZE-1 |-> 0]
NoInode == [type |-> "none", size |-> 0, addrs |-> [i \in 0..NDIRECT |-> 0]]

VARIABLES disk,         \* data sectors
          inodes,       \* the inode blocks
          bitmap,
          freeinode, freeblock,
          pc, back,     \* where main is, and where it goes on after iappend
          ino, xp, off, din,        \* of iappend: the inode, the data left, the offset, din
          file, data    \* the file that main copies; inode -> what it was given (history)
vars == <<disk, inodes, bitmap, freeinode, freeblock, pc, back, ino, xp, off, din, file, data>>

Init ==
    /\ disk = [s \in nmeta..FSSIZE-1 |-> zeroes]
    /\ inodes = [i \in 1..NINODES-1 |-> NoInode]
    /\ bitmap = {} /\ freeinode = 1 /\ freeblock = nmeta
    /\ pc = "root" /\ back = ""
    /\ ino = 0 /\ xp = <<>> /\ off = 0 /\ din = NoInode
    /\ file = 0 /\ data = [i \in 1..NINODES-1 |-> <<>>]

\* rinode and the arguments of iappend(i, s).
Start(i, s, to) ==
    /\ ino' = i /\ xp' = s /\ din' = inodes'[i] /\ off' = inodes'[i].size
    /\ pc' = "iappend" /\ back' = to
    /\ data' = [data EXCEPT ![i] = @ \o s]
ialloc(type) ==
    /\ inodes' = [inodes EXCEPT ![freeinode] = [NoInode EXCEPT !.type = type]]
    /\ freeinode' = freeinode + 1

\* The root directory; its entries . and .. are appended together.
Root ==
    /\ pc = "root"
    /\ ialloc("T_DIR")
    /\ Start(freeinode, <<ROOTINO, ROOTINO>>, "files")
    /\ UNCHANGED <<disk, bitmap, freeblock, file>>

\* Bound: the files fit on the image.
Fits == freeblock + MAXFILE + 2 < FSSIZE
File ==
    /\ pc = "files" /\ freeinode <= MaxFiles + 1 /\ Fits
    /\ ialloc("T_FILE")
    /\ file' = freeinode
    /\ Start(ROOTINO, <<freeinode>>, "read")
    /\ UNCHANGED <<disk, bitmap, freeblock>>
\* read gives up to a sector.
Read ==
    /\ pc = "read" /\ Fits
    /\ UNCHANGED inodes
    /\ \E cc \in 1..BSIZE :
         LET at == Len(data[file]) IN
         /\ at + cc <= MaxUnits
         /\ Start(file, [k \in 1..cc |-> 100 * file + at + k], "read")
    /\ UNCHANGED <<disk, bitmap, freeinode, freeblock, file>>
EndOfFile ==
    /\ pc = "read" /\ pc' = "files" /\ file' = 0
    /\ UNCHANGED <<disk, inodes, bitmap, freeinode, freeblock, back, ino, xp, off, din, data>>

\* The end of main: the size of the root, and balloc.
RootSize(n) == (n \div BSIZE + 1) * BSIZE
Marked == 0..freeblock-1
balloc ==
    /\ pc = "files"
    /\ inodes' = [inodes EXCEPT ![ROOTINO].size = RootSize(@)]
    /\ IF freeblock < BPB THEN bitmap' = Marked /\ pc' = "done" ELSE pc' = "aborted" /\ UNCHANGED bitmap
    /\ UNCHANGED <<disk, freeinode, freeblock, back, ino, xp, off, din, file, data>>

-----------------------------------------------------------------------------

\* A turn of iappend's loop.
fbn == off \div BSIZE
\* Mutant: as much as a sector holds, wherever the offset is in it.
NoOffset == Min({Len(xp), BSIZE})
n1 == Min({Len(xp), (fbn + 1) * BSIZE - off})
\* The sector s with the first n1 units of xp at the offset.
Filled(s) == [i \in 0..BSIZE-1 |-> LET k == i - (off - fbn * BSIZE) IN IF k \in 0..n1-1 THEN xp[k + 1] ELSE s[i]]
Moved == off' = off + n1 /\ xp' = SubSeq(xp, n1 + 1, Len(xp))
Rest == UNCHANGED <<inodes, bitmap, freeinode, pc, back, ino, file, data>>
Direct ==
    /\ pc = "iappend" /\ xp # <<>> /\ fbn < NDIRECT
    /\ LET new == din.addrs[fbn] = 0
           x == IF new THEN freeblock ELSE din.addrs[fbn] IN
       /\ din' = [din EXCEPT !.addrs[fbn] = x]
       /\ freeblock' = IF new THEN freeblock + 1 ELSE freeblock
       /\ disk' = [disk EXCEPT ![x] = Filled(@)]
    /\ Moved /\ Rest
Indirect ==
    /\ pc = "iappend" /\ xp # <<>> /\ fbn \in NDIRECT..MAXFILE-1
    /\ LET new == din.addrs[NDIRECT] = 0
           ind == IF new THEN freeblock ELSE din.addrs[NDIRECT]
           free1 == IF new THEN freeblock + 1 ELSE freeblock
           none == disk[ind][fbn - NDIRECT] = 0
           x == IF none THEN free1 ELSE disk[ind][fbn - NDIRECT] IN
       /\ din' = [din EXCEPT !.addrs[NDIRECT] = ind]
       /\ freeblock' = IF none THEN free1 + 1 ELSE free1
       /\ disk' = [disk EXCEPT ![ind][fbn - NDIRECT] = x, ![x] = Filled(@)]
    /\ Moved /\ Rest
TooLarge ==
    /\ pc = "iappend" /\ xp # <<>> /\ fbn >= MAXFILE
    /\ pc' = "aborted"
    /\ UNCHANGED <<disk, inodes, bitmap, freeinode, freeblock, back, ino, xp, off, din, file, data>>
winode ==
    /\ pc = "iappend" /\ xp = <<>>
    /\ inodes' = [inodes EXCEPT ![ino] = [din EXCEPT !.size = off]]
    /\ pc' = back /\ back' = ""
    /\ ino' = 0 /\ xp' = <<>> /\ off' = 0 /\ din' = NoInode
    /\ UNCHANGED <<disk, bitmap, freeinode, freeblock, file, data>>

Next == Root \/ File \/ Read \/ EndOfFile \/ balloc \/ Direct \/ Indirect \/ TooLarge \/ winode
Spec == Init /\ [][Next]_vars

-----------------------------------------------------------------------------

\* What the kernel finds: the block of the inode with that number, as bmap does.
BlockOf(i, b) == LET ip == inodes[i] IN
    IF b < NDIRECT THEN ip.addrs[b]
    ELSE IF ip.addrs[NDIRECT] = 0 THEN 0 ELSE disk[ip.addrs[NDIRECT]][b - NDIRECT]
Blocks(i) == {BlockOf(i, b) : b \in 0..MAXFILE-1} \ {0}
AllBlocks(i) == Blocks(i) \cup ({inodes[i].addrs[NDIRECT]} \ {0})
Unit(i, k) == disk[BlockOf(i, k \div BSIZE)][k % BSIZE]
Made == {i \in 1..NINODES-1 : inodes[i].type # "none"}
Between == pc \in {"files", "read", "done"}

\* Each file and the directory can be read back: every unit that was appended,
\* in its place, also where a piece crosses into the next block or the
\* indirect block; after the last entry of the root there are only free ones.
FilesRight ==
    Between => \A i \in Made :
      /\ \A k \in 0..Len(data[i])-1 : BlockOf(i, k \div BSIZE) # 0 /\ Unit(i, k) = data[i][k + 1]
      /\ i # ROOTINO => inodes[i].size = Len(data[i])
      /\ pc = "done" /\ i = ROOTINO =>
           \A k \in Len(data[i])..inodes[i].size-1 : BlockOf(i, k \div BSIZE) = 0 \/ Unit(i, k) = 0

\* On a finished image the bitmap marks the blocks before the data and those
\* that some inode uses, no other; no block is used twice, and each inode has
\* its own place before the bitmap.
BitmapRight ==
    pc = "done" =>
      /\ bitmap = 0..nmeta-1 \cup UNION {AllBlocks(i) : i \in Made}
      /\ \A i, j \in Made : i # j => AllBlocks(i) \cap AllBlocks(j) = {}
      /\ \A i \in Made : inodes[i].addrs[NDIRECT] \notin Blocks(i)
      /\ \A i \in 1..NINODES-1 : IBLOCK(i) \in inodestart..bmapstart-1

=============================================================================
