------------------------------ MODULE MCFiles -------------------------------
(***************************************************************************)
(* The file system below and above the log for TLC: the buffer cache       *)
(* (Bcache); inodes and directories (Fs), the blocks of files              *)
(* (FileBlocks).  A behaviour is one of a single part, and the variables   *)
(* of the other parts are Off; those of the cache keep their first values. *)
(***************************************************************************)
EXTENDS Bcache, TLC

CONSTANTS p1, p2, k1, k2, k3

VARIABLES part,
          dsk, ents, mem, ref, valid, ilock, code, reg, calls, panic,   \* Fs
          fs, off, todo, file                                           \* FileBlocks

Symmetry == Permutations({p1, p2})

\* k1 is the indirect block of a file; under it balloc takes the bitmap block k2
\* and clears the new block k3, bfree takes k2.
UnderIndirect == {<<k1, k2>>, <<k1, k3>>}

Names == {"a", "b", ".", ".."}
A == <<"/", "a">>
B == <<"/", "b">>
AB == <<"/", "a", "b">>
\* A file made, opened, linked, removed and made again; a directory.
FileCalls == {<<"creat", A>>, <<"close">>, <<"unlink", A>>, <<"link", A, B>>, <<"unlink", B>>, <<"mkdir", B>>}
\* Directories inside directories, and a path from the working directory.
DirCalls == {<<"mkdir", A>>, <<"mkdir", AB>>, <<"unlink", AB>>, <<"unlink", A>>, <<"mknod", AB>>,
             <<"chdir", A>>, <<"unlink", <<"b">>>>}
\* All calls but chdir, for a process that is alone.
AllCalls == FileCalls \cup {<<"mkdir", A>>, <<"mkdir", AB>>, <<"link", B, AB>>, <<"unlink", AB>>, <<"mknod", B>>,
                            <<"open", B>>, <<"unlink", <<"/">>>>, <<"open", Append(AB, "..")>>}
Tree == INSTANCE Fs WITH Procs <- {p1, p2}, NINODES <- 3, Calls <- FileCalls, MaxCalls <- 5, lock <- ilock
Dirs == INSTANCE Fs WITH Procs <- {p1, p2}, NINODES <- 3, Calls <- DirCalls, MaxCalls <- 5, lock <- ilock
Alone == INSTANCE Fs WITH Procs <- {p1}, NINODES <- 3, Calls <- AllCalls, MaxCalls <- 6, lock <- ilock

\* Writes of up to four blocks that reach the indirect block, every bitmap
\* bit in a block of its own.
Big == INSTANCE FileBlocks WITH Procs <- {1}, Files <- {1}, Open <- <<1>>, Blocks <- 1..6, BSIZE <- 2,
           NDIRECT <- 1, NINDIRECT <- 4, MAXOPBLOCKS <- 10, BPB <- 1, Counts <- {1, 8}, Torn <- FALSE
\* Processes 1 and 2 share an open file, process 3 has another, and the disk
\* is too small for both.
Full == INSTANCE FileBlocks WITH Procs <- 1..3, Files <- {1, 2}, Open <- <<1, 1, 2>>, Blocks <- 1..3, BSIZE <- 2,
           NDIRECT <- 1, NINDIRECT <- 3, MAXOPBLOCKS <- 10, BPB <- 1, Counts <- {3}, Torn <- FALSE
\* User memory can end inside a block, so that a write fails half way through it.
TornEnd == INSTANCE FileBlocks WITH Procs <- {1}, Files <- {1}, Open <- <<1>>, Blocks <- 1..6, BSIZE <- 2,
           NDIRECT <- 1, NINDIRECT <- 3, MAXOPBLOCKS <- 10, BPB <- 1, Counts <- {1, 3}, Torn <- TRUE

ASSUME Sizes == /\ Tree!FsSizes /\ Dirs!FsSizes /\ Alone!FsSizes /\ Big!BlockSizes /\ Full!BlockSizes /\ TornEnd!BlockSizes
                /\ CacheSizes

tree == <<dsk, ents, mem, ref, valid, ilock, code, reg, calls, panic>>
blocks == <<fs, off, todo, file>>
all == <<part, vars, tree, blocks>>

Off == 0
NoCache == Init /\ disk = [k \in Blocks |-> CHOOSE v \in Vals : TRUE]
NoTree == /\ dsk = Off /\ ents = Off /\ mem = Off /\ ref = Off /\ valid = Off /\ ilock = Off /\ code = Off
          /\ reg = Off /\ calls = Off /\ panic = Off
NoBlocks == fs = Off /\ off = Off /\ todo = Off /\ file = Off

FilesInit == part = "files" /\ Tree!Init /\ NoCache /\ NoBlocks
FilesNext == part = "files" /\ Tree!Next /\ UNCHANGED <<part, vars, blocks>>
FsInit == \/ FilesInit
          \/ part = "dirs" /\ Dirs!Init /\ NoCache /\ NoBlocks
          \/ part = "alone" /\ Alone!Init /\ NoCache /\ NoBlocks
          \/ part = "big" /\ Big!Init /\ NoCache /\ NoTree
          \/ part = "full" /\ Full!Init /\ NoCache /\ NoTree
          \/ part = "torn" /\ TornEnd!Init /\ NoCache /\ NoTree
          \/ part = "cache" /\ Init /\ NoTree /\ NoBlocks
FsNext == \/ FilesNext
          \/ part = "dirs" /\ Dirs!Next /\ UNCHANGED <<part, vars, blocks>>
          \/ part = "alone" /\ Alone!Next /\ UNCHANGED <<part, vars, blocks>>
          \/ part = "big" /\ Big!Next /\ UNCHANGED <<part, vars, tree>>
          \/ part = "full" /\ Full!Next /\ UNCHANGED <<part, vars, tree>>
          \/ part = "torn" /\ TornEnd!Next /\ UNCHANGED <<part, vars, tree>>
          \/ part = "cache" /\ Next /\ UNCHANGED <<part, tree, blocks>>
FsSpec == FsInit /\ [][FsNext]_all
\* Files alone.
FilesSpec == FilesInit /\ [][FilesNext]_all

-----------------------------------------------------------------------------

\* Nothing is freed, or taken for another file by ialloc, while it is in use: an
\* entry of a directory leads to an allocated inode whose link count covers all
\* its entries, and the reference count of an inode is the number of pointers
\* to it that calls hold, so that iput never frees one under another process
\* and the panics "ilock", "iunlock" and "unlink: nlink < 1" are not reached.
NoDangling == /\ part = "files" => Tree!NoDangling /\ Tree!RefsExact /\ Tree!NoPanic
              /\ part = "dirs" => Dirs!NoDangling /\ Dirs!RefsExact /\ Dirs!NoPanic
\* One process alone leaves every inode with as many links as entries lead to
\* it, after any sequence of calls, failed ones included.
LinksExact == part = "alone" => Alone!LinksExact
\* "If that was the last reference and the inode has no links to it, free the
\* inode (and its content) on disk" (fs.c), with two processes.
OrphansFreedByAll == part = "files" => Tree!OrphansFreed

\* The bitmap marks exactly the blocks the inodes lead to, and no two inodes
\* share one, after writes that failed half way and after truncation.
BlocksOwned == (part = "big" => Big!BlocksOwned) /\ (part = "full" => Full!BlocksOwned)
               /\ (part = "torn" => TornEnd!BlocksOwned)
\* A file holds what was written to it: at every offset readi returns the
\* bytes of the last successful write, up to the size of the file.  After a copy
\* that failed inside a block, and left part of it changed, the size is right.
ContentsRight == (part = "big" => Big!ContentsRight) /\ (part = "full" => Full!ContentsRight)
                 /\ (part = "torn" => TornEnd!SizesRight)
\* One transaction of filewrite logs at most MAXOPBLOCKS blocks, even if every
\* bitmap block it touches is a different one.
LogFits == part = "big" => Big!LogFits
=============================================================================
