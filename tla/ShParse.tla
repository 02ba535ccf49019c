------------------------------- MODULE ShParse -------------------------------
(***************************************************************************)
(* The parser of user/sh.c: a line of characters becomes a tree of         *)
(* commands, whose words are then ended with NULs in place.  A pointer     *)
(* into the line is an index; Len(line) + 1 is es.                         *)
(***************************************************************************)
EXTENDS Integers, Sequences, SequencesExt, FiniteSets, FiniteSetsExt

CONSTANTS MAXARGS,
          Chars, MaxLine        \* bounds: the characters and the longest line
\* What the constants have to satisfy.
ParseSizes == MAXARGS \in Nat \ {0}

whitespace == {" "}
symbols == {"<", "|", ">", "&", ";", "(", ")"}
NUL == "nul"

VARIABLES line,     \* the buffer
          cmd,      \* what parsecmd returned; NoCmd before
          buf       \* the buffer after it, es included
vars == <<line, cmd, buf>>

es == Len(line) + 1
At(i) == IF i < es THEN line[i] ELSE NUL
SkipWhite(i) == Min({j \in i..es : At(j) \notin whitespace})
peek(i, toks) == At(SkipWhite(i)) \in toks
\* The token at i: what it is, where it begins and ends, and where the next begins.
Greater(i) == IF At(i + 1) = ">" THEN i + 2 ELSE i + 1
WordEnd(i) == Min({j \in i..es : j = es \/ At(j) \in whitespace \cup symbols})
gettoken(i) ==
    LET q == SkipWhite(i)
        c == At(q)
        eq == CASE c = NUL -> q
                [] c = ">" -> Greater(q)
                [] c \in symbols \ {">"} -> q + 1
                [] OTHER -> WordEnd(q) IN
    [tok |-> IF c = ">" /\ eq = q + 2 THEN "+" ELSE IF c \in symbols \cup {NUL} THEN c ELSE "a",
     q |-> q, eq |-> eq, at |-> SkipWhite(eq)]

NoCmd == [type |-> "none"]
Panic == [type |-> "panic"]
word(t) == <<t.q, t.eq>>
\* The functions below map a command and a place in the line to the command
\* and the place they end with: a set of one, or none if the parser panics.
Got(c, i) == [cmd |-> c, at |-> i]
Then(S, F(_)) == UNION {F(g) : g \in S}

RECURSIVE redirs(_)
\* The redirections, in a list; parseredirs makes a tree of them.
redirs(g) ==
    IF ~peek(g.at, {"<", ">"}) THEN {Got(g.cmd, SkipWhite(g.at))}
    ELSE LET op == gettoken(g.at)
             f == gettoken(op.at) IN
         IF f.tok # "a" THEN {}
         ELSE Then({Got(Append(g.cmd, [op |-> op.tok, file |-> word(f)]), f.at)}, redirs)
redircmd(c, r) == [type |-> "REDIR", cmd |-> c, file |-> r.file,
                   mode |-> CASE r.op = "<" -> "read" [] r.op = ">" -> "truncate" [] r.op = "+" -> "append",
                   fd |-> IF r.op = "<" THEN 0 ELSE 1]
parseredirs(c, i) == Then(redirs(Got(<<>>, i)), LAMBDA g : {Got(FoldLeft(redircmd, c, g.cmd), g.at)})

RECURSIVE parseline(_), parsepipe(_), args(_), backs(_)
parseblock(i) ==
    Then(parseline(gettoken(i).at),
         LAMBDA g : IF peek(g.at, {")"}) THEN parseredirs(g.cmd, gettoken(g.at).at) ELSE {})
\* The loop of parseexec; the command is the words and the redirections so far.
TooMany(argv) == Len(argv) >= MAXARGS
args(g) ==
    LET t == gettoken(g.at)
        argv == Append(g.cmd.argv, word(t)) IN
    IF peek(g.at, {"|", ")", "&", ";"}) \/ t.tok = NUL
    THEN {Got(FoldLeft(redircmd, [type |-> "EXEC", argv |-> g.cmd.argv], g.cmd.redirs), SkipWhite(g.at))}
    ELSE IF t.tok # "a" \/ TooMany(argv) THEN {}
    ELSE Then(Then(redirs(Got(g.cmd.redirs, t.at)), LAMBDA r : {Got([argv |-> argv, redirs |-> r.cmd], r.at)}), args)
parseexec(i) ==
    IF peek(i, {"("}) THEN parseblock(i)
    ELSE Then(Then(redirs(Got(<<>>, i)), LAMBDA r : {Got([argv |-> <<>>, redirs |-> r.cmd], r.at)}), args)
\* Mutant: pipes are grouped to the left.
PipeLeft(l, r) == IF r.type = "PIPE" THEN [r EXCEPT !.left = [type |-> "PIPE", left |-> l, right |-> @]]
                  ELSE [type |-> "PIPE", left |-> l, right |-> r]
pipecmd(l, r) == [type |-> "PIPE", left |-> l, right |-> r]
listcmd(l, r) == [type |-> "LIST", left |-> l, right |-> r]
backcmd(c) == [type |-> "BACK", cmd |-> c]
parsepipe(i) ==
    Then(parseexec(i), LAMBDA l :
      IF ~peek(l.at, {"|"}) THEN {l}
      ELSE Then(parsepipe(gettoken(l.at).at), LAMBDA r : {Got(pipecmd(l.cmd, r.cmd), r.at)}))
backs(g) == IF peek(g.at, {"&"}) THEN Then({Got(backcmd(g.cmd), gettoken(g.at).at)}, backs) ELSE {g}
parseline(i) ==
    Then(Then(parsepipe(i), backs), LAMBDA l :
      IF ~peek(l.at, {";"}) THEN {l}
      ELSE Then(parseline(gettoken(l.at).at), LAMBDA r : {Got(listcmd(l.cmd, r.cmd), r.at)}))

\* Where nulterminate writes.
RECURSIVE Ends(_)
FileEnd(c) == Ends(c.cmd) \cup {c.file[2]}
Ends(c) ==
    CASE c.type = "EXEC" -> {w[2] : w \in ToSet(c.argv)}
      [] c.type = "REDIR" -> FileEnd(c)
      [] c.type \in {"PIPE", "LIST"} -> Ends(c.left) \cup Ends(c.right)
      [] c.type = "BACK" -> Ends(c.cmd)

Init == line \in SeqOf(Chars, MaxLine) /\ cmd = NoCmd /\ buf = <<>>
parsecmd ==
    /\ cmd = NoCmd
    /\ \E parsed \in {{r \in parseline(1) : SkipWhite(r.at) = es}} :
         \/ parsed = {} /\ cmd' = Panic /\ UNCHANGED buf
         \/ \E r \in parsed, ends \in {Ends(q.cmd) : q \in parsed} :
              cmd' = r.cmd /\ buf' = [i \in 1..es |-> IF i \in ends THEN NUL ELSE At(i)]
    /\ UNCHANGED line
Next == parsecmd
Spec == Init /\ [][Next]_vars

-----------------------------------------------------------------------------

\* The tokens of the line, by definition.
InWord(i) == i \in 1..Len(line) /\ line[i] \notin whitespace \cup symbols
RunOf(i) == {j \in 1..i : \A k \in j..i : line[k] = ">"}
Starts == {i \in 1..Len(line) : IF InWord(i) THEN ~InWord(i - 1)
                                ELSE IF line[i] = ">" THEN Cardinality(RunOf(i)) % 2 = 1
                                ELSE line[i] \in symbols}
Tokens == [n \in 1..Cardinality(Starts) |->
             LET i == CHOOSE i \in Starts : Cardinality({j \in Starts : j < i}) = n - 1 IN
             [at |-> i, tok |-> IF InWord(i) THEN "a"
                                ELSE IF line[i] = ">" /\ At(i + 1) = ">" THEN "+" ELSE line[i]]]
\* The grammar: the tokens i..j-1 of t make a line, a pipe, a block, ...
RECURSIVE IsLine(_, _, _), IsPipe(_, _, _), IsSimple(_, _, _, _), IsRedirs(_, _, _)
IsRedirs(t, i, j) == i = j \/ (i + 2 <= j /\ t[i].tok \in {"<", ">", "+"} /\ t[i + 1].tok = "a" /\ IsRedirs(t, i + 2, j))
IsSimple(t, i, j, n) ==
    \/ i = j
    \/ t[i].tok = "a" /\ n + 1 < MAXARGS /\ IsSimple(t, i + 1, j, n + 1)
    \/ i + 2 <= j /\ IsRedirs(t, i, i + 2) /\ IsSimple(t, i + 2, j, n)
IsBlock(t, i, j) ==
    /\ i < j /\ t[i].tok = "("
    /\ \E k \in i+1..j-1 : t[k].tok = ")" /\ IsLine(t, i + 1, k) /\ IsRedirs(t, k + 1, j)
IsCommand(t, i, j) == IsSimple(t, i, j, 0) \/ IsBlock(t, i, j)
IsPipe(t, i, j) ==
    IsCommand(t, i, j) \/ \E k \in i..j-1 : t[k].tok = "|" /\ IsCommand(t, i, k) /\ IsPipe(t, k + 1, j)
IsLine(t, i, j) ==
    \E k \in i..j : \E m \in k..j :
      /\ IsPipe(t, i, k) /\ \A n \in k..m-1 : t[n].tok = "&"
      /\ m = j \/ (t[m].tok = ";" /\ IsLine(t, m + 1, j))

Parsed == cmd \notin {NoCmd, Panic}
\* The parser takes exactly the lines of its grammar, and panics on others.
AcceptsGrammar == cmd # NoCmd => \E t \in {Tokens} : Parsed <=> IsLine(t, 1, Len(t) + 1)

\* The words of a tree, and the operators between them, in order.
RECURSIVE Yield(_)
Yield(c) ==
    CASE c.type = "EXEC" -> [i \in 1..Len(c.argv) |-> <<"a", c.argv[i][1]>>]
      [] c.type = "REDIR" ->
           Yield(c.cmd) \o <<<<CASE c.mode = "read" -> "<" [] c.mode = "truncate" -> ">" [] c.mode = "append" -> "+", 0>>,
                             <<"a", c.file[1]>>>>
      [] c.type = "PIPE" -> Yield(c.left) \o <<<<"|", 0>>>> \o Yield(c.right)
      [] c.type = "LIST" -> Yield(c.left) \o <<<<";", 0>>>> \o Yield(c.right)
      [] c.type = "BACK" -> Yield(c.cmd) \o <<<<"&", 0>>>>
RECURSIVE Bound(_)
\* In a tree without blocks, | binds more than &, and & more than ;.
Bound(c) ==
    CASE c.type = "EXEC" -> TRUE
      [] c.type = "REDIR" -> c.cmd.type \in {"EXEC", "REDIR"} /\ Bound(c.cmd)
      [] c.type = "PIPE" -> c.left.type \in {"EXEC", "REDIR"} /\ c.right.type \in {"EXEC", "REDIR", "PIPE"}
                            /\ Bound(c.left) /\ Bound(c.right)
      [] c.type = "BACK" -> c.cmd.type # "LIST" /\ Bound(c.cmd)
      [] c.type = "LIST" -> c.left.type # "LIST" /\ Bound(c.left) /\ Bound(c.right)
Plain(t) == SelectSeq(t, LAMBDA x : x.tok \notin {"(", ")"})
Shown(t) == [i \in 1..Len(t) |-> <<t[i].tok, IF t[i].tok = "a" THEN t[i].at ELSE 0>>]
\* No word follows a redirection of its command.
RedirsLast(t) == \A i \in 1..Len(t) - 2 : t[i].tok \in {"<", ">", "+"} => t[i + 2].tok # "a"

\* The tree has every word and operator of the line once, in order and bound
\* as the grammar says, so it is the only tree of the line; words that stand
\* after a redirection are gathered with the others of their command.
TreeRight ==
    Parsed => \E t \in {Tokens} :
      /\ RedirsLast(t) => Yield(cmd) = Shown(Plain(t))
      /\ ToSet(Yield(cmd)) = ToSet(Shown(Plain(t))) /\ Len(Yield(cmd)) = Len(Plain(t))
      /\ Plain(t) = t => Bound(cmd)

\* After nulterminate each word of the tree is a string of its own: its
\* characters are as they were and a NUL follows, although words are cut out
\* of one buffer and operators may touch them.
RECURSIVE Words(_)
Words(c) ==
    CASE c.type = "EXEC" -> ToSet(c.argv)
      [] c.type = "REDIR" -> Words(c.cmd) \cup {c.file}
      [] c.type \in {"PIPE", "LIST"} -> Words(c.left) \cup Words(c.right)
      [] c.type = "BACK" -> Words(c.cmd)
WordsEnd ==
    Parsed => \A w \in Words(cmd) :
      buf[w[2]] = NUL /\ w[1] < w[2] /\ \A i \in w[1]..w[2]-1 : buf[i] = line[i] /\ InWord(i)
=============================================================================
