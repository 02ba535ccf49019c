------------------------------ MODULE MCShell -------------------------------
(***************************************************************************)
(* What user programs wait for, for TLC: the shell running commands        *)
(* (ShRun), the allocator (Umalloc), calls on a pipe (Pipe), sleep (Clock) *)
(* and calls on directories (Fs).  A behaviour is one of a single part, and*)
(* the variables of the other parts are Off; those of the clock keep their *)
(* first values.                                                           *)
(***************************************************************************)
EXTENDS Clock

CONSTANTS r1, r2, w1, a, None

VARIABLES part,
          proc, held, shell, typed, failed,                                                 \* ShRun
          ptr, size, freep, brk, hpc, p, prevp, nunits, bp, q, back, core, used,            \* Umalloc
          data, nread, nwrite, readopen, writeopen, freed, lock, open, ppc, pn, i, pkilled, \* Pipe
          dsk, ents, mem, ref, valid, flock, code, reg, calls, panic                        \* Fs

Exec(prog) == [type |-> "EXEC", prog |-> prog]
Pipe(l, r) == [type |-> "PIPE", left |-> l, right |-> r]
List(l, r) == [type |-> "LIST", left |-> l, right |-> r]
Back(c) == [type |-> "BACK", cmd |-> c]
Redir(c, f) == [type |-> "REDIR", cmd |-> c, fd |-> f]
gen == Exec("gen")
cat == Exec("cat")
true == Exec("true")

\* gen | cat | cat;  gen | true;  cat < f > g;  gen | (cat ; true) > f
Pipes == INSTANCE ShRun WITH NPROC <- 8, NPIPE <- 3, NOFILE <- 5, PIPESIZE <- 1, Units <- 2, MaxCommands <- 3,
             Commands <- {Pipe(gen, Pipe(cat, cat)), Pipe(gen, true), Redir(Redir(cat, 0), 1),
                          Pipe(gen, Redir(List(cat, true), 1))}
\* gen | cat | cat & ; cat < f;  gen | cat, with too few processes and pipes.
Jobs == INSTANCE ShRun WITH NPROC <- 5, NPIPE <- 2, NOFILE <- 5, PIPESIZE <- 1, Units <- 1, MaxCommands <- 2,
             Commands <- {List(Back(Pipe(gen, Pipe(cat, cat))), Redir(cat, 0)), Pipe(gen, cat)}
\* Blocks of up to five units in a heap of ten.
Heap == INSTANCE Umalloc WITH HEAP <- 2, LIMIT <- 12, MINCORE <- 4, Units <- {2, 3, 5}, pc <- hpc
\* A pipe of one byte, calls of one byte.
PipeCalls == INSTANCE Pipe WITH Readers <- {r1, r2}, Writers <- {w1}, Bytes <- {a}, PIPESIZE <- 1, WIDTH <- 2,
             MaxCount <- 1, pc <- ppc, n <- pn, killed <- pkilled
\* Two directories, made and removed by two processes.
Tree == INSTANCE Fs WITH Procs <- {r1, r2}, NINODES <- 3, Names <- {"a", "b", ".", ".."}, MaxCalls <- 4,
            Calls <- {<<"mkdir", <<"/", "a">>>>, <<"mkdir", <<"/", "a", "b">>>>, <<"unlink", <<"/", "a", "b">>>>,
                      <<"unlink", <<"/", "a">>>>},
            lock <- flock

ASSUME Sizes == Pipes!ShellSizes /\ Jobs!ShellSizes /\ Heap!UmallocSizes /\ ClockSizes /\ Tree!FsSizes

procs == <<proc, held, shell, typed, failed>>
heap == <<ptr, size, freep, brk, hpc, p, prevp, nunits, bp, q, back, core, used>>
pipe == <<data, nread, nwrite, readopen, writeopen, freed, lock, open, ppc, pn, i, pkilled>>
tree == <<dsk, ents, mem, ref, valid, flock, code, reg, calls, panic>>
all == <<part, procs, heap, pipe, vars, tree>>

Off == 0
NoProcs == proc = Off /\ held = Off /\ shell = Off /\ typed = Off /\ failed = Off
NoHeap == /\ ptr = Off /\ size = Off /\ freep = Off /\ brk = Off /\ hpc = Off /\ p = Off /\ prevp = Off /\ nunits = Off
          /\ bp = Off /\ q = Off /\ back = Off /\ core = Off /\ used = Off
NoPipe == /\ data = Off /\ nread = Off /\ nwrite = Off /\ readopen = Off /\ writeopen = Off /\ freed = Off
          /\ lock = Off /\ open = Off /\ ppc = Off /\ pn = Off /\ i = Off /\ pkilled = Off
NoTree == /\ dsk = Off /\ ents = Off /\ mem = Off /\ ref = Off /\ valid = Off /\ flock = Off /\ code = Off
          /\ reg = Off /\ calls = Off /\ panic = Off

ShInit == \/ part = "pipes" /\ Pipes!Init /\ NoHeap /\ NoPipe /\ Init /\ NoTree
          \/ part = "jobs" /\ Jobs!Init /\ NoHeap /\ NoPipe /\ Init /\ NoTree
          \/ part = "heap" /\ Heap!Init /\ NoProcs /\ NoPipe /\ Init /\ NoTree
          \/ part = "calls" /\ PipeCalls!Init /\ NoProcs /\ NoHeap /\ Init /\ NoTree
          \/ part = "time" /\ Init /\ NoProcs /\ NoHeap /\ NoPipe /\ NoTree
          \/ part = "tree" /\ Tree!Init /\ NoProcs /\ NoHeap /\ NoPipe /\ Init
ShNext == \/ part = "pipes" /\ Pipes!Next /\ UNCHANGED <<part, heap, pipe, vars, tree>>
          \/ part = "jobs" /\ Jobs!Next /\ UNCHANGED <<part, heap, pipe, vars, tree>>
          \/ part = "heap" /\ Heap!Next /\ UNCHANGED <<part, procs, pipe, vars, tree>>
          \/ part = "calls" /\ PipeCalls!Next /\ UNCHANGED <<part, procs, heap, vars, tree>>
          \/ part = "time" /\ Next /\ UNCHANGED <<part, procs, heap, pipe, tree>>
          \/ part = "tree" /\ Tree!Next /\ UNCHANGED <<part, procs, heap, pipe, vars>>

\* Fairness.  The part never changes, so that fairness of a disjunction of
\* steps of different parts is the fairness of each in its own part.
\* The scheduler runs every process, but nobody has to type.
Runs(pid) == \/ part = "pipes" /\ Pipes!Step(pid)
             \/ part = "jobs" /\ pid <= 5 /\ Jobs!Step(pid)
             \/ part = "heap" /\ pid = 1 /\ Heap!Steps
             \/ part = "time" /\ pid <= 2 /\ LET s == <<r1, r2>>[pid] IN
                                  Sleep(s) \/ Return(s) \/ (NoneToSleep /\ Test(s))
             \/ part = "tree" /\ pid <= 2 /\ panic = None /\ Tree!Step(<<r1, r2>>[pid])
\* init waits and starts shells; the clock ticks.
Goes == \/ part = "pipes" /\ (Pipes!InitWait \/ Pipes!InitFork)
        \/ part = "jobs" /\ (Jobs!InitWait \/ Jobs!InitFork)
        \/ part = "time" /\ NoneToSleep /\ Clockintr
\* A process that finds the lock of the pipe free again and again gets it.
Gets(s) == part = "calls" /\ PipeCalls!CallStep(s)
Moving == CASE part \in {"pipes", "jobs"} -> procs [] part = "heap" -> heap [] part = "calls" -> pipe
            [] part = "time" -> vars [] part = "tree" -> tree
ShSpec == /\ ShInit /\ [][ShNext]_all
          /\ \A pid \in 1..8 : WF_Moving(Runs(pid) /\ UNCHANGED part)
          /\ WF_Moving(Goes /\ UNCHANGED part)
          /\ \A s \in {r1, r2, w1} : SF_Moving(Gets(s) /\ UNCHANGED part)

-----------------------------------------------------------------------------

\* When the shell asks for the next line, all processes of the commands before
\* are over, but for those started with & and unless a fork has failed.
ForegroundDone == (part = "pipes" => Pipes!ForegroundDone) /\ (part = "jobs" => Jobs!ForegroundDone)
\* The shell comes back: every reader of a pipe sees its end, every wait finds
\* its child, also when forks and pipes fail and jobs run in the background, and
\* init starts a shell in the place of one that is gone, unless it finds no slot
\* for one or the exec of every new shell fails.
PromptAgain == /\ []<>(part = "pipes" => Pipes!Halted \/ \E l \in {"prompt", "exec"} : Pipes!Runs(shell, "SH", l))
               /\ []<>(part = "jobs" => Jobs!Halted \/ \E l \in {"prompt", "exec"} : Jobs!Runs(shell, "SH", l))

\* The units got from the kernel are divided without gap or overlap into free
\* blocks and blocks in use, and the free ones are linked in order of address
\* with one turn back, those that touch joined: malloc, free and morecore lose
\* nothing, hand out nothing twice and leave alone what the program got by its
\* own sbrk.
HeapRight == part = "heap" => Heap!Divided /\ Heap!Ordered

\* No call waits for ever.  When the last writer has closed, every piperead
\* returns, and when the last reader has, every pipewrite; sleep ends, by the
\* clock or by kill; and no two calls on directories wait for each other's
\* inode locks (a call may stop at the panic of ilock on an inode that was
\* freed under a path walk).
CallsEnd == /\ (part = "calls" /\ ~writeopen) ~> (part = "calls" /\ ppc[r1] = "idle")
            /\ (part = "calls" /\ ~readopen) ~> (part = "calls" /\ ppc[w1] = "idle")
            /\ (part = "time" /\ pc[r1] = "sleep") ~> (part = "time" /\ pc[r1] = "idle")
            /\ (part = "tree" /\ code[r1] # <<>>) ~> (part = "tree" /\ (code[r1] = <<>> \/ panic # None))
=============================================================================
