------------------------------ MODULE Console -------------------------------
(***************************************************************************)
(* Console input, kernel/console.c: consoleintr edits a line in the ring   *)
(* cons.buf, consoleread takes whole lines out of it.  consoleintr is one  *)
(* step under cons.lock; a reader holds the lock from one character to the *)
(* next.  The indices are unsigned and wrap at WIDTH (2^32 in the code), a *)
(* multiple of INPUT_BUF_SIZE.                                             *)
(***************************************************************************)
EXTENDS Integers, Sequences

CONSTANTS Readers,
          Letters, NL, CtrlD,      \* what is typed: letters, newline, end of file
          INPUT_BUF_SIZE, WIDTH,
          MaxCount,                \* bound: the largest n of a read
          None

\* What the constants have to satisfy.
ConsoleSizes == /\ INPUT_BUF_SIZE \in Nat \ {0} /\ MaxCount \in Nat
                /\ WIDTH \in Nat /\ WIDTH > INPUT_BUF_SIZE /\ WIDTH % INPUT_BUF_SIZE = 0

Chars == Letters \cup {NL, CtrlD}

VARIABLES buf, r, w, e,       \* struct cons
          lock,               \* the reader that holds cons.lock, or None
          pc, n, got,         \* reader -> its place, what it still wants, what it got
          killed
cons == <<buf, r, w, e>>
vars == <<cons, lock, pc, n, got, killed>>

Init == /\ buf = [i \in 0..INPUT_BUF_SIZE - 1 |-> None] /\ r = 0 /\ w = 0 /\ e = 0
        /\ lock = None
        /\ pc = [p \in Readers |-> "idle"] /\ n = [p \in Readers |-> 0] /\ got = [p \in Readers |-> <<>>]
        /\ killed = {}

Mod(x) == x % WIDTH
At(i) == i % INPUT_BUF_SIZE

\* Mutant: the comparison that keeps the ring from overflowing is off by one.
RoomOffByOne == Mod(e - r) <= INPUT_BUF_SIZE
Room == Mod(e - r) < INPUT_BUF_SIZE
Complete(x) == x \in {NL, CtrlD} \/ Mod(e + 1 - r) = INPUT_BUF_SIZE

\* wakeup(&cons.r).
Wakeup == pc' = [p \in Readers |-> IF pc[p] = "sleep" THEN "read" ELSE pc[p]]

\* consoleintr, for a character to be stored ...
Type(x) ==
    /\ lock = None /\ Room
    /\ buf' = [buf EXCEPT ![At(e)] = x]
    /\ e' = Mod(e + 1)
    /\ IF Complete(x) THEN w' = e' /\ Wakeup ELSE UNCHANGED <<w, pc>>
    /\ UNCHANGED <<r, lock, n, got, killed>>

\* ... for backspace ...
Backspace ==
    /\ lock = None /\ e # w
    /\ e' = Mod(e - 1)
    /\ UNCHANGED <<buf, r, w, lock, pc, n, got, killed>>

\* ... and for ^U: back to the start of the line or to a newline.
KillStop(k) == Mod(e - k) = w \/ buf[At(Mod(e - k - 1))] = NL
KillLine ==
    /\ lock = None
    /\ \E k \in 0..INPUT_BUF_SIZE : /\ KillStop(k) /\ \A j \in 0..k - 1 : ~KillStop(j)
                                    /\ e' = Mod(e - k)
    /\ UNCHANGED <<buf, r, w, lock, pc, n, got, killed>>

\* consoleread: a call for k characters.
Read(p, k) ==
    /\ pc[p] = "idle"
    /\ pc' = [pc EXCEPT ![p] = "read"]
    /\ n' = [n EXCEPT ![p] = k] /\ got' = [got EXCEPT ![p] = <<>>]
    /\ UNCHANGED <<cons, lock, killed>>

Returns(p) == pc' = [pc EXCEPT ![p] = "done"] /\ lock' = None
PutBack(p) == IF got[p] # <<>> THEN r ELSE Mod(r + 1)

\* One turn of its loop, for the holder of the lock or a reader that takes it:
\* the end, the sleep, an end of file, or a character (with fail, one that
\* cannot be copied out).
Consoleread(p, fail) ==
    /\ pc[p] = "read" /\ lock \in {None, p}
    /\ \/ /\ n[p] = 0 /\ Returns(p) /\ UNCHANGED <<cons, n, got>>
       \/ /\ n[p] > 0 /\ r = w /\ p \in killed
          /\ pc' = [pc EXCEPT ![p] = "idle"] /\ lock' = None /\ UNCHANGED <<cons, n, got>>
       \/ /\ n[p] > 0 /\ r = w /\ p \notin killed
          /\ pc' = [pc EXCEPT ![p] = "to_sleep"] /\ lock' = p /\ UNCHANGED <<cons, n, got>>
       \/ /\ n[p] > 0 /\ r # w /\ buf[At(r)] = CtrlD
          /\ r' = PutBack(p) /\ Returns(p) /\ UNCHANGED <<buf, w, e, n, got>>
       \/ /\ n[p] > 0 /\ r # w /\ buf[At(r)] # CtrlD
          /\ r' = Mod(r + 1)
          /\ IF fail THEN pc' = [pc EXCEPT ![p] = "idle"] /\ lock' = None /\ UNCHANGED <<n, got>>
             ELSE /\ got' = [got EXCEPT ![p] = Append(@, buf[At(r)])]
                  /\ n' = [n EXCEPT ![p] = @ - 1]
                  /\ IF buf[At(r)] = NL THEN Returns(p) ELSE lock' = p /\ UNCHANGED pc
          /\ UNCHANGED <<buf, w, e>>
    /\ UNCHANGED killed

\* The sleep that follows the test of killed; a kill may come in between.
Sleep(p) == /\ pc[p] = "to_sleep"
            /\ pc' = [pc EXCEPT ![p] = "sleep"] /\ lock' = None
            /\ UNCHANGED <<cons, n, got, killed>>

\* The caller has its result.
Done(p) == /\ pc[p] = "done" /\ pc' = [pc EXCEPT ![p] = "idle"] /\ got' = [got EXCEPT ![p] = <<>>]
           /\ n' = [n EXCEPT ![p] = 0]
           /\ UNCHANGED <<cons, lock, killed>>

\* kill: the flag, and a sleeper is made runnable.
Kill(p) ==
    /\ p \notin killed
    /\ killed' = killed \cup {p}
    /\ pc' = [pc EXCEPT ![p] = IF @ = "sleep" THEN "read" ELSE @]
    /\ UNCHANGED <<cons, lock, n, got>>

Next == \/ \E x \in Chars : Type(x)
        \/ Backspace \/ KillLine
        \/ \E p \in Readers : Kill(p) \/ Sleep(p) \/ Done(p) \/ \E k \in 0..MaxCount : Read(p, k)
        \/ \E p \in Readers, fail \in BOOLEAN : Consoleread(p, fail)
Spec == Init /\ [][Next]_vars

-----------------------------------------------------------------------------

Part(i, j) == [k \in 1..Mod(j - i) |-> buf[At(Mod(i + k - 1))]]
Line == INSTANCE LineInput WITH ready <- Part(r, w), edit <- Part(w, e), Ends <- {NL, CtrlD}, Size <- INPUT_BUF_SIZE

\* A reader sleeps only when there is nothing to read: no line typed while it
\* goes to sleep is missed.
NoLostWakeup == (\E p \in Readers : pc[p] = "sleep") => r = w

=============================================================================
