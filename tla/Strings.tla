------------------------------- MODULE Strings -------------------------------
(***************************************************************************)
(* The loops of kernel/string.c over a memory of bytes, where source and   *)
(* destination may overlap, and memmove of user/ulib.c.  Addresses are     *)
(* 0..SIZE-1; 0 is the byte NUL.                                           *)
(***************************************************************************)
EXTENDS Integers, Sequences, SequencesExt, FiniteSetsExt

CONSTANT SIZE
\* What the constants have to satisfy.
StringSize == SIZE \in Nat \ {0}

Places == 0..SIZE-1

\* A loop that sets m[f(i)] from m[g(i)] for each i in turn.
Loop(m, order, d, s) == FoldLeft(LAMBDA c, i : [c EXCEPT ![d + i] = c[s + i]], m, order)
Up(n) == [i \in 1..n |-> i - 1]
Down(n) == [i \in 1..n |-> n - i]

Overlaps(d, s, n) == s < d /\ s + n > d
memmove(m, d, s, n) == Loop(m, IF Overlaps(d, s, n) THEN Down(n) ELSE Up(n), d, s)
\* That of user/ulib.c.
After(d, s) == s > d
umemmove(m, d, s, n) == Loop(m, IF After(d, s) THEN Up(n) ELSE Down(n), d, s)

\* How many characters of t the loops below pass: up to n, and no further than
\* a NUL, which is one of them.
FirstNul(m, t, n) == {i \in 0..n-1 : m[t + i] = 0}
Copied(m, t, n) == IF FirstNul(m, t, n) = {} THEN n ELSE Min(FirstNul(m, t, n)) + 1
strncpy(m, s, t, n) ==
    LET k == Copied(m, t, n) IN
    [a \in Places |-> IF a \in s + k..s + n - 1 THEN 0 ELSE Loop(m, Up(k), s, t)[a]]
Room(n) == n - 1
safestrcpy(m, s, t, n) ==
    IF n <= 0 THEN m
    ELSE LET k == Copied(m, t, Room(n)) IN
         [a \in Places |-> IF a = s + k THEN 0 ELSE Loop(m, Up(k), s, t)[a]]

Stops(m, p, q, n) == {i \in 0..n-1 : m[p + i] = 0 \/ m[p + i] # m[q + i]}
strncmp(m, p, q, n) ==
    LET stops == Stops(m, p, q, n) IN
    IF stops = {} THEN 0 ELSE m[p + Min(stops)] - m[q + Min(stops)]

\* The string at a, of at most n characters.
Text(m, a, n) == LET nul == FirstNul(m, a, n) IN [i \in 1..IF nul = {} THEN n ELSE Min(nul) |-> m[a + i - 1]]
=============================================================================
