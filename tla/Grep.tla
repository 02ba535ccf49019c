-------------------------------- MODULE Grep --------------------------------
(***************************************************************************)
(* user/grep.c: the matcher of expressions with ^ . * $, and the loop that *)
(* cuts what it reads into lines in a buffer of SIZE characters.  A string *)
(* is a sequence without its NUL; the inputs have no NUL.                  *)
(***************************************************************************)
EXTENDS Integers, Sequences, SequencesExt, FiniteSetsExt

CONSTANTS SIZE,                 \* 1024, sizeof(buf)
          Letters,
          MaxPattern, MaxInput  \* bounds: length of the expression and of the file
\* What the constants have to satisfy.
GrepSizes == SIZE \in Nat \ {0, 1}

NL == "newline"
\* The character of s at i, or NUL after the end.
At(s, i) == IF i <= Len(s) THEN s[i] ELSE "nul"

RECURSIVE matchhere(_, _), matchstar(_, _, _)
LastDollar(re) == At(re, 1) = "$" /\ Len(re) = 1
matchhere(re, text) ==
    IF re = <<>> THEN TRUE
    ELSE IF At(re, 2) = "*" THEN matchstar(re[1], SubSeq(re, 3, Len(re)), text)
    ELSE IF LastDollar(re) THEN text = <<>>
    ELSE text # <<>> /\ re[1] \in {".", text[1]} /\ matchhere(Tail(re), Tail(text))
matchstar(c, re, text) ==
    \/ matchhere(re, text)
    \/ text # <<>> /\ c \in {".", text[1]} /\ matchstar(c, re, Tail(text))
match(re, text) ==
    IF At(re, 1) = "^" THEN matchhere(Tail(re), text)
    ELSE \E i \in 1..Len(text) + 1 : matchhere(re, SubSeq(text, i, Len(text)))

-----------------------------------------------------------------------------

VARIABLES pattern, input,   \* the arguments: the expression, the file
          pos,              \* how much of the file has been read
          buf,              \* the m characters in buf
          out, pc           \* what was written; "run" or "done"
vars == <<pattern, input, pos, buf, out, pc>>

Init ==
    /\ pattern \in SeqOf(Letters \cup {"^", ".", "*", "$"}, MaxPattern)
    /\ input \in SeqOf(Letters \cup {NL}, MaxInput)
    /\ pos = 0 /\ buf = <<>> /\ out = <<>> /\ pc = "run"

\* The loop over the lines in buf: what is written, and what is kept.
RECURSIVE Lines(_)
\* Mutant: the buffer starts afresh.
Nothing(p) == <<>>
Left(p) == p
Lines(p) ==
    LET ends == {i \in 1..Len(p) : p[i] = NL} IN
    IF ends = {} THEN [out |-> <<>>, buf |-> Left(p)]
    ELSE LET q == Min(ends)
             rest == Lines(SubSeq(p, q + 1, Len(p))) IN
         [rest EXCEPT !.out = (IF match(pattern, SubSeq(p, 1, q - 1)) THEN SubSeq(p, 1, q) ELSE <<>>) \o @]

\* read gives at least one character if there is one and there is room.
Room == SIZE - Len(buf) - 1
Read ==
    /\ pc = "run" /\ pos < Len(input) /\ Room > 0
    /\ \E n \in 1..Min({Room, Len(input) - pos}) :
         \E r \in {Lines(buf \o SubSeq(input, pos + 1, pos + n))} :
           /\ pos' = pos + n
           /\ buf' = r.buf
           /\ out' = out \o r.out
    /\ UNCHANGED <<pattern, input, pc>>
Eof ==
    /\ pc = "run" /\ (pos = Len(input) \/ Room = 0)
    /\ pc' = "done"
    /\ UNCHANGED <<pattern, input, pos, buf, out>>
Next == Read \/ Eof
Spec == Init /\ [][Next]_vars

-----------------------------------------------------------------------------

\* What the expressions mean: the items of an expression each match a piece of
\* a part of the line.
RECURSIVE Items(_)
Items(re) ==
    IF re = <<>> THEN <<>>
    ELSE IF At(re, 2) = "*" THEN <<[c |-> re[1], star |-> TRUE]>> \o Items(SubSeq(re, 3, Len(re)))
    ELSE <<[c |-> re[1], star |-> FALSE]>> \o Items(Tail(re))
Piece(item, s) == (item.star \/ Len(s) = 1) /\ \A i \in 1..Len(s) : item.c \in {".", s[i]}
Means(re, text) ==
    LET head == At(re, 1) = "^"
        body == Items(IF head THEN Tail(re) ELSE re)
        tail == body # <<>> /\ Last(body) = [c |-> "$", star |-> FALSE]
        items == IF tail THEN Front(body) ELSE body
        n == Len(items) IN
    \E cut \in [0..n -> 0..Len(text)] :
      /\ head => cut[0] = 0
      /\ tail => cut[n] = Len(text)
      /\ \A i \in 1..n : cut[i - 1] <= cut[i] /\ Piece(items[i], SubSeq(text, cut[i - 1] + 1, cut[i]))

\* The matcher finds an expression exactly in the lines that contain it.
MatchRight == pc = "done" /\ (\A i \in 1..Len(input) : input[i] # NL) => match(pattern, input) = Means(pattern, input)

\* The lines of a file, and whether the buffer holds each of them.
RECURSIVE Matching(_)
Matching(s) ==
    LET ends == {i \in 1..Len(s) : s[i] = NL} IN
    IF ends = {} THEN <<>>
    ELSE (IF Means(pattern, SubSeq(s, 1, Min(ends) - 1)) THEN SubSeq(s, 1, Min(ends)) ELSE <<>>)
         \o Matching(SubSeq(s, Min(ends) + 1, Len(s)))
Fitting == \A i \in 1..Len(input) : i + SIZE - 2 <= Len(input) => \E j \in i..i + SIZE - 2 : input[j] = NL

\* However the reads cut the file, grep writes the matching lines, each once,
\* whole and in order, if every line with its newline fits the buffer; a last
\* line without newline is not written.
LinesRight == pc = "done" /\ Fitting => out = Matching(input)
\* A line longer than the buffer ends the output early, with no wrong line.
PrefixRight == IsPrefix(out, Matching(input))
=============================================================================
