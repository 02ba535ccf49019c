-------------------------------- MODULE ShRun --------------------------------
(***************************************************************************)
(* runcmd and main of user/sh.c, and user/init.c: the processes that run a *)
(* command, their descriptors and the pipes between them.  fork, wait,     *)
(* exit, pipe, dup and close are those of the kernel, each atomic; the     *)
(* calls with which a child arranges its descriptors are one step, since   *)
(* between them it only holds more ends of pipes than after them.          *)
(***************************************************************************)
EXTENDS Integers, Sequences, FiniteSets, FiniteSetsExt

CONSTANTS NPROC, NPIPE,
          NOFILE,           \* descriptors of a process
          PIPESIZE,
          Commands,         \* bound: the commands that are typed
          MaxCommands,      \* bound: how many of them
          Units             \* bound: what the program "gen" writes
\* What the constants have to satisfy.
ShellSizes == NPROC >= 2 /\ NOFILE >= 3 /\ {NPIPE, PIPESIZE, Units} \subseteq Nat

Pids == 1..NPROC
initproc == 1
\* What a descriptor stands for: nothing, the console, a file, an end of a pipe.
Closed == 0
Console == 1
File == 2
ReadEnd(k) == 2 * k + 1
WriteEnd(k) == 2 * k + 2
Pipes == 1..NPIPE
Ends(k) == {ReadEnd(k), WriteEnd(k)}

NoCmd == [type |-> "none"]
Empty == [st |-> "none", par |-> 0, cmd |-> NoCmd, pc |-> "", fd |-> [f \in 0..NOFILE-1 |-> Closed],
          p |-> <<0, 0>>, left |-> 0, back |-> FALSE]
Stdio == [f \in 0..NOFILE-1 |-> IF f <= 2 THEN Console ELSE Closed]

VARIABLES proc,     \* pid -> st, parent, what it runs and where it is, descriptors, p,
                    \* units left to write, and if it runs in the background (history)
          held,     \* pipe -> units in it
          shell,    \* pid in main of init.c
          typed,    \* number of commands so far
          failed    \* a fork has failed (history)
vars == <<proc, held, shell, typed, failed>>

Init ==
    /\ proc = [q \in Pids |-> CASE q = 1 -> [Empty EXCEPT !.st = "run", !.pc = "wait", !.cmd = [type |-> "INIT"], !.fd = Stdio]
                                [] q = 2 -> [Empty EXCEPT !.st = "run", !.par = 1, !.pc = "prompt", !.cmd = [type |-> "SH"], !.fd = Stdio]
                                [] OTHER -> Empty]
    /\ held = [k \in Pipes |-> 0]
    /\ shell = 2 /\ typed = 0 /\ failed = FALSE

-----------------------------------------------------------------------------
\* System calls.

Free == {q \in Pids : proc[q].st = "none"}
Holders(e) == {q \in Pids : \E f \in 0..NOFILE-1 : proc[q].fd[f] = e}
close(fd, f) == [fd EXCEPT ![f] = Closed]
\* dup and open take the lowest descriptor.
Lowest(fd) == Min({f \in DOMAIN fd : fd[f] = Closed})
dup(fd, f) == [fd EXCEPT ![Lowest(fd)] = fd[f]]
Exited(pid) ==
    [q \in Pids |-> IF q = pid THEN [Empty EXCEPT !.st = "zombie", !.par = proc[q].par, !.back = proc[q].back]
                    ELSE IF proc[q].par = pid THEN [proc[q] EXCEPT !.par = initproc] ELSE proc[q]]
exit(pid) == proc' = Exited(pid) /\ UNCHANGED <<held, shell, typed, failed>>
\* fork1: the child is c, the caller becomes r; without a free slot it panics.
fork1(pid, c, r) ==
    \/ /\ Free # {}
       /\ proc' = [proc EXCEPT ![Min(Free)] = [c EXCEPT !.par = pid], ![pid] = r]
       /\ UNCHANGED <<held, shell, typed, failed>>
    \/ /\ Free = {}
       /\ proc' = Exited(pid) /\ failed' = TRUE
       /\ UNCHANGED <<held, shell, typed>>
\* wait: the caller becomes r.
wait(pid, r) ==
    LET children == {q \in Pids : proc[q].par = pid /\ proc[q].st # "none"} IN
    /\ \/ children = {} /\ proc' = [proc EXCEPT ![pid] = r]
       \/ \E z \in children : proc[z].st = "zombie" /\ proc' = [proc EXCEPT ![z] = Empty, ![pid] = r]
    /\ UNCHANGED <<held, shell, typed, failed>>

-----------------------------------------------------------------------------
\* runcmd.

Runs(pid, type, pc) == proc[pid].st = "run" /\ proc[pid].cmd.type = type /\ proc[pid].pc = pc
\* A process that runs c next, in the place of pid.
Runcmd(pid, c) == [proc[pid] EXCEPT !.cmd = c, !.pc = "start"]

\* exec, or its failure.
Exec(pid) ==
    /\ Runs(pid, "EXEC", "start")
    /\ \/ exit(pid)
       \/ /\ proc' = [proc EXCEPT ![pid].pc = "program", ![pid].left = IF proc[pid].cmd.prog = "gen" THEN Units ELSE 0]
          /\ UNCHANGED <<held, shell, typed, failed>>
\* close(rcmd->fd), and open, which may fail.
Redirected(r) == [r EXCEPT !.fd = LET fd == close(r.fd, r.cmd.fd) IN [fd EXCEPT ![Lowest(fd)] = File],
                           !.cmd = r.cmd.cmd]
Redir(pid) ==
    /\ Runs(pid, "REDIR", "start")
    /\ \/ exit(pid)
       \/ proc' = [proc EXCEPT ![pid] = Redirected(@)] /\ UNCHANGED <<held, shell, typed, failed>>
List(pid) ==
    \/ /\ Runs(pid, "LIST", "start")
       /\ fork1(pid, Runcmd(pid, proc[pid].cmd.left), [proc[pid] EXCEPT !.pc = "wait"])
    \/ /\ Runs(pid, "LIST", "wait")
       /\ wait(pid, Runcmd(pid, proc[pid].cmd.right))
Back(pid) ==
    /\ Runs(pid, "BACK", "start")
    /\ fork1(pid, [Runcmd(pid, proc[pid].cmd.cmd) EXCEPT !.back = TRUE], [proc[pid] EXCEPT !.pc = "exit"])
Done(pid) == proc[pid].st = "run" /\ proc[pid].pc = "exit" /\ exit(pid)

\* pipe(p), or its failure.
Unused == {k \in Pipes : \A e \in Ends(k) : Holders(e) = {}}
Pipe(pid) ==
    /\ Runs(pid, "PIPE", "start")
    /\ \/ /\ Unused # {} /\ Cardinality({f \in 0..NOFILE-1 : proc[pid].fd[f] = Closed}) >= 2
          /\ LET k == Min(Unused)
                 r == Lowest(proc[pid].fd)
                 fd == [proc[pid].fd EXCEPT ![r] = ReadEnd(k)]
                 w == Lowest(fd) IN
             /\ proc' = [proc EXCEPT ![pid].fd = [fd EXCEPT ![w] = WriteEnd(k)], ![pid].p = <<r, w>>, ![pid].pc = "left"]
             /\ held' = [held EXCEPT ![k] = 0]
          /\ UNCHANGED <<shell, typed, failed>>
       \/ /\ Unused = {} \/ Cardinality({f \in 0..NOFILE-1 : proc[pid].fd[f] = Closed}) < 2
          /\ exit(pid)
CloseBoth(r, fd) == [r EXCEPT !.fd = close(close(fd, r.p[1]), r.p[2]), !.p = <<0, 0>>]
\* The child's standard descriptor f becomes p[i].
Connected(r, f, i) == CloseBoth(r, dup(close(r.fd, f), r.p[i]))
Left(pid) ==
    /\ Runs(pid, "PIPE", "left")
    /\ fork1(pid, Connected(Runcmd(pid, proc[pid].cmd.left), 1, 2), [proc[pid] EXCEPT !.pc = "right"])
Right(pid) ==
    /\ Runs(pid, "PIPE", "right")
    /\ fork1(pid, Connected(Runcmd(pid, proc[pid].cmd.right), 0, 1), [proc[pid] EXCEPT !.pc = "close"])
\* Mutant: the process that waits keeps its ends.
KeepsEnds(r) == r
Closes(r) == CloseBoth(r, r.fd)
Close(pid) ==
    /\ Runs(pid, "PIPE", "close")
    /\ proc' = [proc EXCEPT ![pid] = [Closes(@) EXCEPT !.pc = "wait1"]]
    /\ UNCHANGED <<held, shell, typed, failed>>
\* Mutant: one wait is enough.
WaitsOnce == "exit"
SecondWait == "wait2"
WaitBoth(pid) ==
    \/ Runs(pid, "PIPE", "wait1") /\ wait(pid, [proc[pid] EXCEPT !.pc = SecondWait])
    \/ Runs(pid, "PIPE", "wait2") /\ wait(pid, [proc[pid] EXCEPT !.pc = "exit"])

-----------------------------------------------------------------------------
\* Programs: "gen" writes Units units to 1; "cat" copies 0 to 1; "true" exits.

PipeOf(e) == CHOOSE k \in Pipes : e \in Ends(k)
Piped(e) == e > File
Program(pid) == Runs(pid, "EXEC", "program")
Gives(pid) == proc[pid].left > 0
Write(pid) ==
    LET e == proc[pid].fd[1]
        full == Piped(e) /\ held[PipeOf(e)] = PIPESIZE IN
    /\ Program(pid) /\ Gives(pid)
    /\ \/ /\ Piped(e) => Holders(ReadEnd(PipeOf(e))) # {} /\ ~full
          /\ held' = IF Piped(e) THEN [held EXCEPT ![PipeOf(e)] = @ + 1] ELSE held
          /\ proc' = [proc EXCEPT ![pid].left = @ - 1]
          /\ UNCHANGED <<shell, typed, failed>>
       \/ /\ Piped(e) /\ Holders(ReadEnd(PipeOf(e))) = {}
          /\ exit(pid)
Read(pid) ==
    LET e == proc[pid].fd[0] IN
    /\ Program(pid) /\ ~Gives(pid) /\ proc[pid].cmd.prog = "cat"
    /\ \/ /\ Piped(e) /\ held[PipeOf(e)] > 0
          /\ held' = [held EXCEPT ![PipeOf(e)] = @ - 1]
          /\ proc' = [proc EXCEPT ![pid].left = 1]
          /\ UNCHANGED <<shell, typed, failed>>
       \/ /\ Piped(e) => held[PipeOf(e)] = 0 /\ Holders(WriteEnd(PipeOf(e))) = {}
          /\ exit(pid)
Finish(pid) == Program(pid) /\ ~Gives(pid) /\ proc[pid].cmd.prog # "cat" /\ exit(pid)

-----------------------------------------------------------------------------
\* main of the shell, and init.

\* A line: a command for a child, or the end of the input.
Type(pid) ==
    /\ Runs(pid, "SH", "prompt") /\ typed < MaxCommands
    /\ typed' = typed + 1
    /\ UNCHANGED <<held, shell>>
    /\ \/ \E c \in Commands :
            /\ Free # {} /\ UNCHANGED failed
            /\ proc' = [proc EXCEPT ![Min(Free)] = [Runcmd(pid, c) EXCEPT !.par = pid], ![pid].pc = "wait"]
       \/ Free = {} /\ failed' = TRUE /\ proc' = Exited(pid)
       \/ UNCHANGED failed /\ proc' = Exited(pid)
ShWait(pid) == Runs(pid, "SH", "wait") /\ wait(pid, [proc[pid] EXCEPT !.pc = "prompt"])

\* The wait of init: the shell is started again, other children are let go.
MayReap(z) == proc[z].par = initproc
InitWait ==
    /\ Runs(initproc, "INIT", "wait")
    /\ \E z \in Pids :
         /\ proc[z].st = "zombie" /\ MayReap(z)
         /\ proc' = [proc EXCEPT ![z] = Empty, ![initproc].pc = IF z = shell THEN "fork" ELSE "wait"]
    /\ UNCHANGED <<held, shell, typed, failed>>
\* Without a slot init exits, and panics; its child may fail to exec sh.
InitFork ==
    /\ Runs(initproc, "INIT", "fork")
    /\ \/ /\ Free # {}
          /\ shell' = Min(Free)
          /\ proc' = [proc EXCEPT ![Min(Free)] = [Empty EXCEPT !.st = "run", !.par = initproc, !.pc = "exec", !.cmd = [type |-> "SH"], !.fd = Stdio],
                                  ![initproc].pc = "wait"]
       \/ /\ Free = {}
          /\ proc' = [proc EXCEPT ![initproc].pc = "panic"] /\ UNCHANGED shell
    /\ UNCHANGED <<held, typed, failed>>
ShExec(pid) ==
    /\ Runs(pid, "SH", "exec")
    /\ \/ exit(pid)
       \/ proc' = [proc EXCEPT ![pid].pc = "prompt"] /\ UNCHANGED <<held, shell, typed, failed>>

Step(pid) ==
    \/ Exec(pid) \/ Redir(pid) \/ List(pid) \/ Back(pid) \/ Done(pid)
    \/ Pipe(pid) \/ Left(pid) \/ Right(pid) \/ Close(pid) \/ WaitBoth(pid)
    \/ Write(pid) \/ Read(pid) \/ Finish(pid) \/ ShWait(pid) \/ ShExec(pid)
Next == (\E pid \in Pids : Step(pid) \/ Type(pid)) \/ InitWait \/ InitFork
Spec == Init /\ [][Next]_vars

-----------------------------------------------------------------------------

\* When the shell asks for the next line, all processes of the commands before
\* are over, but for those started with & and unless a fork has failed: a
\* process whose second fork fails does not wait for its first child.
ForegroundDone ==
    Runs(shell, "SH", "prompt") /\ ~failed =>
      \A q \in Pids \ {initproc, shell} : proc[q].st = "run" => proc[q].back

Halted == proc[initproc].pc = "panic"
=============================================================================
