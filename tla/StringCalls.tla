----------------------------- MODULE StringCalls -----------------------------
(***************************************************************************)
(* One call of each operation of Strings on any small memory.              *)
(***************************************************************************)
EXTENDS Strings

CONSTANT Bytes
\* What the constants have to satisfy.
WithNul == Bytes \subseteq Nat /\ 0 \in Bytes

VARIABLES mem,      \* the bytes before the call
          call,     \* the arguments
          after     \* the results
vars == <<mem, call, after>>

Init ==
    /\ mem \in [Places -> Bytes]
    /\ call \in [d : Places, s : Places, n : 0..SIZE] /\ call.d + call.n <= SIZE /\ call.s + call.n <= SIZE
    /\ after = <<>>

Call ==
    /\ after = <<>>
    /\ after' = LET d == call.d s == call.s n == call.n IN
                [move |-> memmove(mem, d, s, n), umove |-> umemmove(mem, d, s, n),
                 ncpy |-> strncpy(mem, d, s, n), safe |-> safestrcpy(mem, d, s, n),
                 cmp |-> strncmp(mem, d, s, n)]
    /\ UNCHANGED <<mem, call>>
Next == Call
Spec == Init /\ [][Next]_vars

-----------------------------------------------------------------------------

Done == after # <<>>
Target == call.d..call.d + call.n - 1
SourceOf(a) == mem[call.s + (a - call.d)]
Apart == call.d + call.n <= call.s \/ call.s + call.n <= call.d

\* memmove leaves at the destination what was at the source before the call,
\* however the two overlap, and touches nothing else; in the kernel and in
\* user programs.
MovesAll ==
    Done => \A a \in Places :
              /\ after.move[a] = IF a \in Target THEN SourceOf(a) ELSE mem[a]
              /\ after.umove[a] = after.move[a]

\* For a destination apart from the source: strncpy fills exactly n bytes,
\* with NULs after the string, so that two directory entries of one name are
\* equal byte for byte; safestrcpy leaves a string that ends, and neither
\* writes outside its n bytes.
StringCopied ==
    Done /\ Apart =>
      /\ \A a \in Places \ Target : after.ncpy[a] = mem[a] /\ after.safe[a] = mem[a]
      /\ \A a \in Target : after.ncpy[a] = IF \E b \in call.d..a : SourceOf(b) = 0 THEN 0 ELSE SourceOf(a)
      /\ call.n > 0 => Text(after.safe, call.d, call.n) = Text(mem, call.s, call.n - 1)

\* strncmp is zero exactly for strings that agree in their first n characters;
\* what follows a NUL does not count.
ComparesText == Done => (after.cmp = 0 <=> Text(mem, call.d, call.n) = Text(mem, call.s, call.n))
=============================================================================
