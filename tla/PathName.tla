------------------------------ MODULE PathName ------------------------------
(***************************************************************************)
(* How a path is taken apart: skipelem and the loop of namex of            *)
(* kernel/fs.c, with the buffer of DIRSIZ characters that is compared with *)
(* directory entries and copied to them, and the name that exec gives a    *)
(* process.  What the directories hold is in the module Fs.                *)
(***************************************************************************)
EXTENDS Strings

CONSTANTS DIRSIZ, PNAME,    \* sizes of dirent.name and of proc.name
          MaxPath, MaxWord, \* bounds: the longest path, the longest name of an entry
          Letters,
          Stale             \* what the buffers hold before
\* What the constants have to satisfy.
PathSizes == DIRSIZ \in Nat \ {0} /\ PNAME \in Nat \ {0} /\ Letters \subseteq Nat \ {0, 1} /\ Stale \subseteq Letters \cup {0}

Slash == 1
\* Where the strings are in memory.
Path == 0
Name == MaxPath + 1
Word == Name + DIRSIZ
Entry == Word + MaxWord + 1
ProcName == Entry + DIRSIZ
\* What the constants have to satisfy.
AllFit == ProcName + PNAME = SIZE

Layout(path, old, word) ==
    [a \in Places |-> IF a < Name THEN (IF a < Len(path) THEN path[a + 1] ELSE 0)
                      ELSE IF a < Word THEN old
                      ELSE IF a < Entry THEN (IF a - Word < Len(word) THEN word[a - Word + 1] ELSE 0)
                      ELSE old]

VARIABLES mem,
          path,         \* where namex is in the path; -1 is the null pointer
          nameiparent,  \* namex looks for the parent
          names,        \* the elements that were looked up
          result        \* "" while namex runs, then what it returned, or "exec"
vars == <<mem, path, nameiparent, names, result>>

\* dirlink writes the entry for the word first.
Init ==
    \E s \in SeqOf(Letters \cup {Slash}, MaxPath), w \in SeqOf(Letters, MaxWord), old \in Stale :
      LET m == Layout(s, old, w) IN
      /\ w # <<>>
      /\ mem = strncpy(m, Entry, Word, DIRSIZ)
      /\ path = Path /\ nameiparent \in BOOLEAN
      /\ names = <<>> /\ result = ""

\* The first place from a on where the loop of skipelem ends.
SkipTo(a, S) == Min({b \in a..Name-1 : mem[b] \in S})
PastSlashes(a) == SkipTo(a, Letters \cup {0})
ElementEnd(a) == SkipTo(a, {Slash, 0})
\* Mutant: a short name is not ended.
NotEnded(s, len) == memmove(mem, Name, s, Min({len, DIRSIZ}))
SetName(s, len) ==
    IF len >= DIRSIZ THEN memmove(mem, Name, s, DIRSIZ)
    ELSE [memmove(mem, Name, s, len) EXCEPT ![Name + len] = 0]
NextElement(a) == PastSlashes(a)
\* One turn of namex's loop.  ip is not a directory or has no such entry: 0.
namex ==
    LET s == PastSlashes(path)
        end == ElementEnd(s) IN
    /\ result = ""
    /\ IF mem[s] = 0
       THEN /\ path' = -1
            /\ result' = IF nameiparent THEN "zero" ELSE "inode"
            /\ UNCHANGED <<mem, names>>
       ELSE /\ mem' = SetName(s, end - s)
            /\ path' = NextElement(end)
            /\ \/ result' = "missing" /\ UNCHANGED names
               \/ IF nameiparent /\ mem[path'] = 0
                  THEN result' = "parent" /\ UNCHANGED names
                  ELSE names' = Append(names, Text(mem', Name, DIRSIZ)) /\ UNCHANGED result
    /\ UNCHANGED nameiparent

namecmp(s, t) == strncmp(mem, s, t, DIRSIZ)

\* exec: the last element, for p->name.
FromNext(a) == a + 1
last == LET slashes == {a \in Path..Name-1 : mem[a] = Slash} IN
        IF slashes = {} THEN Path ELSE FromNext(Max(slashes))
exec ==
    /\ result = "" /\ names = <<>> /\ path = Path
    /\ mem' = safestrcpy(mem, ProcName, last, PNAME)
    /\ result' = "exec"
    /\ UNCHANGED <<path, nameiparent, names>>

Next == namex \/ exec
Spec == Init /\ [][Next]_vars

-----------------------------------------------------------------------------

\* The elements of the path, by definition: what is between the slashes.
Starts == {a \in Path..Name-1 : mem[a] \in Letters /\ (a = Path \/ mem[a - 1] = Slash)}
ElementAt(a) == Text([b \in Places |-> IF mem[b] = Slash THEN 0 ELSE mem[b]], a, MaxPath)
Short(s) == SubSeq(s, 1, Min({Len(s), DIRSIZ}))
Elements == [i \in 1..Cardinality(Starts) |->
               Short(ElementAt(CHOOSE a \in Starts : Cardinality({b \in Starts : b < a}) = i - 1))]
Current == Text(mem, Name, DIRSIZ)

\* namex looks up the elements of the path one after the other, cut to DIRSIZ,
\* whatever slashes are around them; for the parent it stops one early with
\* the last one in name, and gives 0 for a path without elements.
WalksElements ==
    /\ result = "" => IsPrefix(names, Elements)
    /\ result = "inode" => names = Elements
    /\ result = "parent" => Append(names, Current) = Elements
    /\ result = "zero" => Elements = <<>>

\* An entry that dirlink made matches the name exactly if the two are the same
\* in their first DIRSIZ characters, whatever the buffer held before.
EntryMatches ==
    LET n == Len(names) + IF result = "parent" THEN 1 ELSE 0 IN
    n > 0 /\ result # "missing" => (namecmp(Name, Entry) = 0 <=> Elements[n] = Text(mem, Word, DIRSIZ))

\* A process that runs a program has the program's last element as name, and
\* the name ends within its PNAME characters.
ProgramName ==
    result = "exec" =>
      LET name == Text(mem, ProcName, PNAME) IN
      /\ Len(name) < PNAME
      /\ \A a \in Path..Name-1 :
           mem[a] = 0 /\ (a = Path \/ mem[a - 1] # 0) =>
             \E k \in Path..a : /\ \A b \in k..a : mem[b] # Slash
                                /\ k = Path \/ mem[k - 1] = Slash
                                /\ name = SubSeq([i \in 1..a - k |-> mem[k + i - 1]], 1, Min({a - k, PNAME - 1}))
=============================================================================
