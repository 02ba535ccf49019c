----------------------------- MODULE LineInput ------------------------------
(* What console input promises (kernel/console.c): a line is edited until  *)
(* it ends, and then its characters are read in order.                     *)
EXTENDS Naturals, Sequences
CONSTANTS Chars, Ends, Size     \* Ends: the characters that end a line
VARIABLES ready, edit           \* characters to be read, the line being edited
lvars == <<ready, edit>>

Init == ready = <<>> /\ edit = <<>>
\* A typed character is dropped when the buffer is full; the line ends with
\* an end character or when it fills the buffer.
Type(x) == /\ Len(ready) + Len(edit) < Size
           /\ IF x \in Ends \/ Len(ready) + Len(edit) + 1 = Size
              THEN ready' = ready \o Append(edit, x) /\ edit' = <<>>
              ELSE edit' = Append(edit, x) /\ UNCHANGED ready
Erase == edit # <<>> /\ edit' = SubSeq(edit, 1, Len(edit) - 1) /\ UNCHANGED ready
EraseAll == edit' = <<>> /\ UNCHANGED ready
Read == ready # <<>> /\ ready' = Tail(ready) /\ UNCHANGED edit

Next == (\E x \in Chars : Type(x)) \/ Erase \/ EraseAll \/ Read
Spec == Init /\ [][Next]_lvars
=============================================================================
