----------------------------- MODULE MCPrograms -----------------------------
(***************************************************************************)
(* Open files (FileTable), address spaces (Vm), copies from and to them    *)
(* (UserCopy), strings and path names (StringCalls, PathName), and the     *)
(* algorithms of mkfs, grep and the shell's parser, for TLC.  A behaviour  *)
(* is one of a single part, and the variables of the other parts are Off;  *)
(* those of the open files keep their first values.                        *)
(***************************************************************************)
EXTENDS FileTable

VARIABLES part,
          m, proc, new, held, other, code, calls, mem,                  \* Vm
          in, umem, va, len, buf, result,                               \* UserCopy
          smem, call, after,                                            \* StringCalls
          pmem, path, nameiparent, names, found,                        \* PathName
          disk, inodes, bitmap, freeinode, freeblock, mpc, back, ino,   \* Mkfs
          xp, off, din, file, data,
          pattern, input, pos, gbuf, out, gpc,                          \* Grep
          line, cmd, sbuf                                               \* ShParse

\* Two processes fork, grow and shrink until the memory is used up.
ForkMem == INSTANCE Vm WITH Procs <- {1, 2}, initproc <- 1, Pages <- 1..12, PGSIZE <- 2, LEVELS <- 2, ENTRIES <- 3,
               USERSTACK <- 1, WIDTH <- 64, Deltas <- {3, -1, -3}, Programs <- {}, MAXARG <- 0, MaxCalls <- 6,
               Others <- {{12}, 10..12}
\* Programs: text and data; two segments with a hole between them; a second
\* segment below the first; an empty one; one that wraps around.
Segment(v, ms, fs, pm) == [vaddr |-> v, memsz |-> ms, filesz |-> fs, perm |-> pm, val |-> 7]
Programs == {<<Segment(0, 3, 2, {"X"})>>, <<Segment(0, 1, 1, {"X"}), Segment(4, 2, 1, {"W"})>>,
             <<Segment(2, 2, 2, {"X"}), Segment(0, 2, 1, {"W"})>>, <<Segment(0, 0, 0, {})>>,
             <<Segment(2, 63, 1, {"X"})>>}
\* One process runs them with any number of pages left.
ExecMem == INSTANCE Vm WITH Procs <- {1}, initproc <- 1, Pages <- 1..16, PGSIZE <- 2, LEVELS <- 2, ENTRIES <- 4,
               USERSTACK <- 1, WIDTH <- 64, Deltas <- {3}, MAXARG <- 1, MaxCalls <- 2,
               Others <- {k..16 : k \in 7..17}
\* Three pages of two bytes, and addresses that wrap.
Copies == INSTANCE UserCopy WITH PGSIZE <- 2, MAXVA <- 6, WIDTH <- 9, WORD <- 2,
              Calls <- {"copyin", "copyout", "fetchaddr", "fetchstr"}
\* Six bytes: all contents, all overlaps.
Calls == INSTANCE StringCalls WITH SIZE <- 6, Bytes <- {0, 1, 2}, mem <- smem
\* Paths of up to five characters, names of up to three.
Names == INSTANCE PathName WITH DIRSIZ <- 3, PNAME <- 3, MaxPath <- 5, MaxWord <- 4, Letters <- {2, 3}, Stale <- {2},
             SIZE <- 20, mem <- pmem, result <- found
\* Images with up to three files, some larger than a file may be.
Image == INSTANCE Mkfs WITH BSIZE <- 3, NDIRECT <- 1, FSSIZE <- 32, LOGSIZE <- 2, NINODES <- 8, IPB <- 3, BPB <- 24,
             MaxFiles <- 3, MaxUnits <- 13, pc <- mpc
\* All expressions of up to four characters; files longer than the buffer.
Match == INSTANCE Grep WITH SIZE <- 8, Letters <- {"a", "b"}, MaxPattern <- 4, MaxInput <- 3, buf <- gbuf, pc <- gpc
Lines == INSTANCE Grep WITH SIZE <- 4, Letters <- {"a", "b"}, MaxPattern <- 1, MaxInput <- 6, buf <- gbuf, pc <- gpc
\* All lines of up to five characters.
Parse == INSTANCE ShParse WITH MAXARGS <- 3, Chars <- {"a", " ", "|", ">", "&", ";", "(", ")"}, MaxLine <- 5, buf <- sbuf

ASSUME Sizes == /\ ForkMem!VmSizes /\ ExecMem!VmSizes /\ Copies!CopySizes /\ Calls!StringSize /\ Calls!WithNul
                /\ Names!PathSizes /\ Names!AllFit /\ Image!MkfsSizes /\ Match!GrepSizes /\ Lines!GrepSizes
                /\ Parse!ParseSizes /\ FileTableSizes

vm == <<m, proc, new, held, other, code, calls, mem>>
copy == <<in, umem, va, len, buf, result>>
str == <<smem, call, after>>
name == <<pmem, path, nameiparent, names, found>>
image == <<disk, inodes, bitmap, freeinode, freeblock, mpc, back, ino, xp, off, din, file, data>>
grep == <<pattern, input, pos, gbuf, out, gpc>>
parse == <<line, cmd, sbuf>>
all == <<part, vars, vm, copy, str, name, image, grep, parse>>

Off == 0
NoVm == /\ m = Off /\ proc = Off /\ new = Off /\ held = Off /\ other = Off /\ code = Off /\ calls = Off /\ mem = Off
NoCopy == in = Off /\ umem = Off /\ va = Off /\ len = Off /\ buf = Off /\ result = Off
NoStr == smem = Off /\ call = Off /\ after = Off
NoName == pmem = Off /\ path = Off /\ nameiparent = Off /\ names = Off /\ found = Off
NoImage == /\ disk = Off /\ inodes = Off /\ bitmap = Off /\ freeinode = Off /\ freeblock = Off /\ mpc = Off /\ back = Off
           /\ ino = Off /\ xp = Off /\ off = Off /\ din = Off /\ file = Off /\ data = Off
NoGrep == pattern = Off /\ input = Off /\ pos = Off /\ gbuf = Off /\ out = Off /\ gpc = Off
NoParse == line = Off /\ cmd = Off /\ sbuf = Off

ProgInit == /\ Init
            /\ \/ part = "table" /\ NoVm /\ NoCopy /\ NoStr /\ NoName /\ NoImage /\ NoGrep /\ NoParse
               \/ part = "fork" /\ ForkMem!Init /\ NoCopy /\ NoStr /\ NoName /\ NoImage /\ NoGrep /\ NoParse
               \/ part = "exec" /\ ExecMem!Init /\ NoCopy /\ NoStr /\ NoName /\ NoImage /\ NoGrep /\ NoParse
               \/ part = "copy" /\ Copies!Init /\ NoVm /\ NoStr /\ NoName /\ NoImage /\ NoGrep /\ NoParse
               \/ part = "string" /\ Calls!Init /\ NoVm /\ NoCopy /\ NoName /\ NoImage /\ NoGrep /\ NoParse
               \/ part = "name" /\ Names!Init /\ NoVm /\ NoCopy /\ NoStr /\ NoImage /\ NoGrep /\ NoParse
               \/ part = "image" /\ Image!Init /\ NoVm /\ NoCopy /\ NoStr /\ NoName /\ NoGrep /\ NoParse
               \/ part = "match" /\ Match!Init /\ NoVm /\ NoCopy /\ NoStr /\ NoName /\ NoImage /\ NoParse
               \/ part = "lines" /\ Lines!Init /\ NoVm /\ NoCopy /\ NoStr /\ NoName /\ NoImage /\ NoParse
               \/ part = "parse" /\ Parse!Init /\ NoVm /\ NoCopy /\ NoStr /\ NoName /\ NoImage /\ NoGrep
ProgNext == \/ part = "table" /\ Next /\ UNCHANGED <<part, vm, copy, str, name, image, grep, parse>>
            \/ part = "fork" /\ ForkMem!Next /\ UNCHANGED <<part, vars, copy, str, name, image, grep, parse>>
            \/ part = "exec" /\ ExecMem!Next /\ UNCHANGED <<part, vars, copy, str, name, image, grep, parse>>
            \/ part = "copy" /\ Copies!Next /\ UNCHANGED <<part, vars, vm, str, name, image, grep, parse>>
            \/ part = "string" /\ Calls!Next /\ UNCHANGED <<part, vars, vm, copy, name, image, grep, parse>>
            \/ part = "name" /\ Names!Next /\ UNCHANGED <<part, vars, vm, copy, str, image, grep, parse>>
            \/ part = "image" /\ Image!Next /\ UNCHANGED <<part, vars, vm, copy, str, name, grep, parse>>
            \/ part = "match" /\ Match!Next /\ UNCHANGED <<part, vars, vm, copy, str, name, image, parse>>
            \/ part = "lines" /\ Lines!Next /\ UNCHANGED <<part, vars, vm, copy, str, name, image, parse>>
            \/ part = "parse" /\ Parse!Next /\ UNCHANGED <<part, vars, vm, copy, str, name, image, grep>>
ProgSpec == ProgInit /\ [][ProgNext]_all

-----------------------------------------------------------------------------

\* Every page of memory is free or used for exactly one thing - a page table, a
\* page of one process, a trapframe, an argument - at every point of every
\* call, whether it succeeds or runs out of memory half way.
PagesExact == (part = "fork" => ForkMem!PagesExact) /\ (part = "exec" => ExecMem!PagesExact)
\* A process between calls sees the memory the calls that succeeded gave it,
\* and failed calls and other processes change nothing; no panic of vm.c or
\* kalloc.c is reached (nothing is mapped twice or unmapped without a mapping).
MemoryRight == /\ part = "fork" => ForkMem!MemoryRight /\ ForkMem!NoPanic
               /\ part = "exec" => ExecMem!MemoryRight /\ ExecMem!NoPanic

\* copyin, copyout and copyinstr succeed exactly if the user may access every
\* byte of the range (for a string: up to its zero, within max bytes), copy
\* every byte to its place, and write nowhere else even when they fail half
\* way; fetchaddr needs the whole word below p->sz, and fetchstr returns the
\* length before the zero.
CopyRight == part = "copy" => Copies!CopyRight /\ Copies!StringRight /\ Copies!StaysInBounds

\* Names survive the kernel's string functions.  memmove, strncpy, safestrcpy
\* and strncmp do what their definitions say, with overlaps and without a NUL;
\* namex looks up the elements of a path one after the other, cut to DIRSIZ;
\* an entry dirlink made is found by exactly the names that agree in their
\* first DIRSIZ characters; exec names a process after the last element.
NamesRight == /\ part = "string" => Calls!MovesAll /\ Calls!StringCopied /\ Calls!ComparesText
              /\ part = "name" => Names!WalksElements /\ Names!EntryMatches /\ Names!ProgramName

\* An image of mkfs is a consistent file system: each file and the directory
\* read back unit by unit, also across blocks and in the indirect block, and
\* the bitmap marks exactly the blocks before the data and those of the inodes,
\* none used twice.
ImageRight == part = "image" => Image!FilesRight /\ Image!BitmapRight

\* grep writes the lines that contain the expression, each once, whole and in
\* order, however the reads cut the file, if every line fits the buffer; a
\* longer line ends the output early, with no wrong line before.
GrepRight == /\ part = "match" => Match!MatchRight
             /\ part = "lines" => Lines!LinesRight /\ Lines!PrefixRight

\* The shell's parser takes exactly the lines of its grammar; the tree has
\* every word and operator of the line once, in order and bound as the grammar
\* says; and after nulterminate each word is a string of its own.
ParserRight == part = "parse" => Parse!AcceptsGrammar /\ Parse!TreeRight /\ Parse!WordsEnd
=============================================================================
