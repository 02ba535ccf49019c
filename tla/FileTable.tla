------------------------------ MODULE FileTable ------------------------------
(***************************************************************************)
(* Open files and descriptors: filealloc, filedup and fileclose of         *)
(* kernel/file.c, and open, dup, close, pipe, fork and exit as far as they *)
(* change them (kernel/sysfile.c, pipealloc and pipeclose of               *)
(* kernel/pipe.c, kernel/proc.c).                                          *)
(*                                                                         *)
(* A step is one critical section: of ftable.lock, or of the inode or pipe *)
(* that is given up.  pc[p] is where the system call of p stands, and rf,  *)
(* wf, ff, ip, fd and np are its local variables, 0 while they are not in  *)
(* use.                                                                    *)
(***************************************************************************)
EXTENDS Integers, FiniteSets

CONSTANTS Procs, Inodes, Pipes,
          NFILE, NOFILE

\* What the constants have to satisfy; 0 stands for the null pointer.
FileTableSizes == /\ NFILE \in Nat /\ NOFILE \in Nat \ {0}
                  /\ Procs # {} /\ IsFiniteSet(Procs) /\ 0 \notin Procs /\ 0 \notin Inodes

Files == 1..NFILE
Fds == 1..NOFILE

VARIABLES ftable,   \* file -> ref, type, obj (the inode or pipe) and writable
          ofile,    \* process -> descriptor -> file, 0 if closed
          iref,     \* inode -> references to it
          ends,     \* pipe -> its open ends (TRUE: write end); {} if it is not allocated
          live,     \* processes
          pc,
          rf, wf,   \* files the call has a reference to, the one to close next first
          ff,       \* fileclose's copy of the file, until its object is given up
          ip,       \* the inode of sys_open
          fd,       \* a descriptor whose file the call has still to count, or has uncounted
          np,       \* the child of fork
          panicked
vars == <<ftable, ofile, iref, ends, live, pc, rf, wf, ff, ip, fd, np, panicked>>

initproc == CHOOSE p \in Procs : TRUE
\* An unused file; one of type FD_NONE is never asked for its other fields,
\* so they are shown as 0.
NoFile == [ref |-> 0, type |-> "none", obj |-> 0, writable |-> FALSE]
Init ==
    /\ ftable = [f \in Files |-> NoFile]
    /\ ofile = [p \in Procs |-> [d \in Fds |-> 0]]
    /\ iref = [i \in Inodes |-> 0] /\ ends = [k \in Pipes |-> {}]
    /\ live = {initproc} /\ pc = [p \in Procs |-> "run"]
    /\ rf = [p \in Procs |-> 0] /\ wf = [p \in Procs |-> 0] /\ ff = [p \in Procs |-> NoFile]
    /\ ip = [p \in Procs |-> 0] /\ fd = [p \in Procs |-> 0] /\ np = [p \in Procs |-> 0]
    /\ panicked = FALSE

First(x, S) == x \in S /\ \A y \in S : x <= y
\* filealloc takes the first file without a reference, fdalloc the first
\* descriptor without a file.
Unref == {f \in Files : ftable[f].ref = 0}
filealloc(f) == First(f, Unref)
Free(p) == {d \in Fds : ofile[p][d] = 0}
fdalloc(p, d) == First(d, Free(p))

Idle(p) == p \in live /\ pc[p] = "run"
\* p goes on at l with these locals.
Goto(p, l, r, w, i, d) ==
    /\ pc' = [pc EXCEPT ![p] = l]
    /\ rf' = [rf EXCEPT ![p] = r] /\ wf' = [wf EXCEPT ![p] = w]
    /\ ip' = [ip EXCEPT ![p] = i] /\ fd' = [fd EXCEPT ![p] = d]
Return(p) == Goto(p, "run", 0, 0, 0, 0)

\* sys_open after namei or create: with a file and a descriptor, the fields
\* are set (writable stands for any omode: fileclose asks for it only with a
\* pipe); without, what was got is given back.
Open(p, i) ==
    /\ Idle(p)
    /\ iref' = [iref EXCEPT ![i] = @ + 1]
    /\ \/ /\ Unref = {}
          /\ Goto(p, "iput", 0, 0, i, 0)
          /\ UNCHANGED <<ftable, ofile>>
       \/ \E f \in Files :
            /\ filealloc(f)
            /\ ftable' = [ftable EXCEPT ![f].ref = 1]
            /\ \/ Free(p) = {} /\ Goto(p, "close", f, 0, i, 0) /\ UNCHANGED ofile
               \/ \E d \in Fds : /\ fdalloc(p, d)
                                 /\ ofile' = [ofile EXCEPT ![p][d] = f]
                                 /\ Goto(p, "fields", f, 0, i, d)
    /\ UNCHANGED <<ends, live, ff, np, panicked>>
Fields(p) ==
    /\ pc[p] = "fields"
    /\ ftable' = [ftable EXCEPT ![rf[p]] = [ref |-> @.ref, type |-> "inode", obj |-> ip[p], writable |-> TRUE]]
    /\ Return(p)
    /\ UNCHANGED <<ofile, iref, ends, live, ff, np, panicked>>

\* sys_dup: the descriptor, then the count.
Dup(p, d) ==
    /\ Idle(p) /\ ofile[p][d] # 0
    /\ \E e \in Fds : /\ fdalloc(p, e)
                      /\ ofile' = [ofile EXCEPT ![p][e] = ofile[p][d]]
                      /\ Goto(p, "dup", 0, 0, 0, e)
    /\ UNCHANGED <<ftable, iref, ends, live, ff, np, panicked>>
filedup(f) == /\ ftable' = [ftable EXCEPT ![f].ref = @ + 1]
              /\ panicked' = (panicked \/ ftable[f].ref < 1)
DupCounts(p) ==
    /\ pc[p] = "dup"
    /\ filedup(ofile[p][fd[p]])
    /\ Return(p)
    /\ UNCHANGED <<ofile, iref, ends, live, ff, np>>

\* sys_close.
Close(p, d) ==
    /\ Idle(p) /\ ofile[p][d] # 0
    /\ ofile' = [ofile EXCEPT ![p][d] = 0]
    /\ Goto(p, "close", ofile[p][d], 0, 0, 0)
    /\ UNCHANGED <<ftable, iref, ends, live, ff, np, panicked>>

\* Where a call goes on after a fileclose: to the next one (w), to the iput of
\* a failed open, to the next descriptor of exit, or back to user space.
After(p, w) == IF w # 0 THEN "close" ELSE IF ip[p] # 0 THEN "iput" ELSE IF fd[p] # 0 THEN "clear" ELSE "run"
\* fileclose: the last close copies the file, frees the entry, and gives up
\* the object after ftable.lock is released.  Mutant: it copies the freed entry.
CopiedLate(f) == NoFile
Copied(f) == [ftable[f] EXCEPT !.ref = 0]
fileclose(p) ==
    /\ pc[p] = "close"
    /\ panicked' = (panicked \/ ftable[rf[p]].ref < 1)
    /\ \/ /\ ftable[rf[p]].ref > 1
          /\ ftable' = [ftable EXCEPT ![rf[p]].ref = @ - 1]
          /\ Goto(p, After(p, wf[p]), wf[p], 0, ip[p], fd[p])
          /\ UNCHANGED ff
       \/ /\ ftable[rf[p]].ref <= 1
          /\ ftable' = [ftable EXCEPT ![rf[p]] = NoFile]
          /\ ff' = [ff EXCEPT ![p] = Copied(rf[p])]
          /\ Goto(p, IF ftable[rf[p]].type = "none" THEN After(p, wf[p]) ELSE "release", wf[p], 0, ip[p], fd[p])
    /\ UNCHANGED <<ofile, iref, ends, live, np>>
\* iput, or pipeclose, of the copy.
Release(p) ==
    /\ pc[p] = "release"
    /\ iref' = IF ff[p].type = "inode" THEN [iref EXCEPT ![ff[p].obj] = @ - 1] ELSE iref
    /\ ends' = IF ff[p].type = "pipe" THEN [ends EXCEPT ![ff[p].obj] = @ \ {ff[p].writable}] ELSE ends
    /\ ff' = [ff EXCEPT ![p] = NoFile]
    /\ pc' = [pc EXCEPT ![p] = After(p, rf[p])]
    /\ UNCHANGED <<ftable, ofile, live, rf, wf, ip, fd, np, panicked>>
Iput(p) ==
    /\ pc[p] = "iput"
    /\ iref' = [iref EXCEPT ![ip[p]] = @ - 1]
    /\ Return(p)
    /\ UNCHANGED <<ftable, ofile, ends, live, ff, np, panicked>>

\* sys_pipe.  pipealloc takes two files, then the pipe; what it got is closed
\* if there is no second file or kalloc returns 0.
Pipe(p) ==
    /\ Idle(p)
    /\ \E f \in Files : /\ filealloc(f)
                        /\ ftable' = [ftable EXCEPT ![f].ref = 1]
                        /\ Goto(p, "pipe", f, 0, 0, 0)
    /\ UNCHANGED <<ofile, iref, ends, live, ff, np, panicked>>
PipeFails(p) ==
    /\ pc[p] = "pipe"
    /\ \/ /\ Unref = {}
          /\ Goto(p, "close", rf[p], 0, 0, 0)
          /\ UNCHANGED ftable
       \/ \E f \in Files : /\ filealloc(f)
                           /\ ftable' = [ftable EXCEPT ![f].ref = 1]
                           /\ Goto(p, "close", rf[p], f, 0, 0)
    /\ UNCHANGED <<ofile, iref, ends, live, ff, np, panicked>>
\* With a pipe: two descriptors; or, without two of them or if the copy to
\* user memory fails, none and both files are closed.
End(k, w) == [ref |-> 1, type |-> "pipe", obj |-> k, writable |-> w]
PipeMade(p) ==
    /\ pc[p] = "pipe"
    /\ \E f \in Files, k \in Pipes :
         /\ filealloc(f) /\ ends[k] = {}
         /\ ends' = [ends EXCEPT ![k] = {TRUE, FALSE}]
         /\ ftable' = [ftable EXCEPT ![rf[p]] = End(k, FALSE), ![f] = End(k, TRUE)]
         /\ \/ \E d, e \in Fds : /\ fdalloc(p, d) /\ First(e, Free(p) \ {d})
                                 /\ ofile' = [ofile EXCEPT ![p][d] = rf[p], ![p][e] = f]
                                 /\ Return(p)
            \/ Goto(p, "close", rf[p], f, 0, 0) /\ UNCHANGED ofile
    /\ UNCHANGED <<iref, live, ff, np, panicked>>

\* fork: the child's descriptors, one at a time; then the child may run.
ToCopy(p) == {d \in Fds : ofile[p][d] # 0 /\ ofile[np[p]][d] = 0}
Fork(p, q) ==
    /\ Idle(p) /\ q \notin live /\ \A r \in Procs : np[r] # q
    /\ pc' = [pc EXCEPT ![p] = "fork"] /\ np' = [np EXCEPT ![p] = q]
    /\ UNCHANGED <<ftable, ofile, iref, ends, live, rf, wf, ff, ip, fd, panicked>>
ForkDup(p) ==
    /\ pc[p] = "fork"
    /\ \E d \in Fds : /\ First(d, ToCopy(p))
                      /\ filedup(ofile[p][d])
                      /\ ofile' = [ofile EXCEPT ![np[p]][d] = ofile[p][d]]
    /\ UNCHANGED <<iref, ends, live, pc, rf, wf, ff, ip, fd, np>>
Start(p) ==
    /\ pc[p] = "fork" /\ ToCopy(p) = {}
    /\ live' = live \cup {np[p]}
    /\ pc' = [pc EXCEPT ![p] = "run"] /\ np' = [np EXCEPT ![p] = 0]
    /\ UNCHANGED <<ftable, ofile, iref, ends, rf, wf, ff, ip, fd, panicked>>

\* exit: each open descriptor is closed, then cleared; then the process is gone.
Exit(p) ==
    /\ Idle(p) /\ p # initproc
    /\ Goto(p, "exit", 0, 0, 0, 0)
    /\ UNCHANGED <<ftable, ofile, iref, ends, live, ff, np, panicked>>
ExitClose(p) ==
    /\ pc[p] = "exit"
    /\ \E d \in Fds : /\ First(d, Fds \ Free(p))
                      /\ Goto(p, "close", ofile[p][d], 0, 0, d)
    /\ UNCHANGED <<ftable, ofile, iref, ends, live, ff, np, panicked>>
Clear(p) ==
    /\ pc[p] = "clear"
    /\ ofile' = [ofile EXCEPT ![p][fd[p]] = 0]
    /\ Goto(p, "exit", 0, 0, 0, 0)
    /\ UNCHANGED <<ftable, iref, ends, live, ff, np, panicked>>
Gone(p) ==
    /\ pc[p] = "exit" /\ Free(p) = Fds
    /\ live' = live \ {p} /\ Return(p)
    /\ UNCHANGED <<ftable, ofile, iref, ends, ff, np, panicked>>

Step(p) == \/ Fields(p) \/ DupCounts(p) \/ fileclose(p) \/ Release(p) \/ Iput(p) \/ PipeFails(p) \/ PipeMade(p)
           \/ ForkDup(p) \/ Start(p) \/ ExitClose(p) \/ Clear(p) \/ Gone(p)
Next == \E p \in Procs : \/ Step(p) \/ Pipe(p) \/ Exit(p)
                         \/ \E i \in Inodes : Open(p, i)
                         \/ \E d \in Fds : Dup(p, d) \/ Close(p, d)
                         \/ \E q \in Procs : Fork(p, q)
Spec == Init /\ [][Next]_vars

-----------------------------------------------------------------------------

\* The descriptors that name f and count as a reference: not the one a dup has
\* still to count, or an exit has uncounted and not cleared yet (and not the
\* one of an open in progress, which holds the reference in rf).
Counted(f) == {x \in Procs \X Fds : ofile[x[1]][x[2]] = f /\ fd[x[1]] # x[2]}
\* The processes whose local h is x.
Holding(h, x) == {p \in Procs : h[p] = x}
\* The files, or copies of files, that stand for inode i, or for an end of pipe k.
OfInode(F, i) == {x \in DOMAIN F : F[x].type = "inode" /\ F[x].obj = i}
OfPipe(F, k, w) == {x \in DOMAIN F : F[x].type = "pipe" /\ F[x].obj = k /\ F[x].writable = w}

\* What a file stands for is given up exactly once, wherever open, pipe, dup,
\* fork and exit fail or interleave.  A file's count is the descriptors that
\* name it and the references of calls in progress; one with no reference is
\* free; an inode has one reference per file open on it and per call that has
\* still to put it; an end of a pipe is open as long as its one file, or the
\* copy of it that fileclose still has to give up; and filedup and fileclose
\* never meet a file without references.
ObjectsExact ==
    /\ \A f \in Files :
          /\ ftable[f].ref = Cardinality(Counted(f)) + Cardinality(Holding(rf, f)) + Cardinality(Holding(wf, f))
          /\ ftable[f].ref = 0 => ftable[f] = NoFile
    /\ \A i \in Inodes :
          iref[i] = Cardinality(OfInode(ftable, i)) + Cardinality(OfInode(ff, i)) + Cardinality(Holding(ip, i))
    /\ \A k \in Pipes, w \in BOOLEAN :
          (IF w \in ends[k] THEN 1 ELSE 0) = Cardinality(OfPipe(ftable, k, w)) + Cardinality(OfPipe(ff, k, w))
    /\ ~panicked
=============================================================================
