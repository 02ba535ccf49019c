----------------------------- MODULE PipeProofs -----------------------------
(***************************************************************************)
(* Proofs about Pipe, for any number of readers and writers, any buffer    *)
(* size and any width of the counters that is a multiple of it: its        *)
(* invariant, what follows from it, and that it implements Fifo.           *)
(***************************************************************************)
EXTENDS Pipe, TLAPS

\* A second and a third call, for a leaf the first gives up on.
USE PipeSizes, PipeSets, SMTT(30), Z3T(30), SMTT(60) DEF Procs

LEMMA PipeInit == Init => PipeInv
<1> SUFFICES ASSUME Init PROVE PipeInv
  OBVIOUS
<1> USE DEF Init
<1>1. TypeOK
  <2>1. /\ nread \in 0..WIDTH - 1 /\ nwrite \in 0..WIDTH - 1
        /\ n \in [Procs -> 0..MaxCount] /\ i \in [Procs -> 0..MaxCount]
    OBVIOUS
  <2>2. pc \in [Procs -> Labels]
    BY DEF Labels
  <2> QED BY ZenonT(40), <2>1, <2>2 DEF TypeOK
<1>2. LockInv /\ OpenInv
  BY DEF LockInv, OpenInv, WriteLabels, ReadLabels
<1>3. CountInv /\ SleepInv
  BY DEF CountInv, CountOf, SleepInv, WriterInv, ReaderInv, WriteLabels
<1> QED BY <1>1, <1>2, <1>3 DEF PipeInv

\* A counter stays below WIDTH.
LEMMA Wraps == ASSUME NEW k \in Nat PROVE (k + 1) % WIDTH \in 0..WIDTH - 1
  OBVIOUS

\* A counter that is incremented changes.
LEMMA Moves == ASSUME NEW k \in Nat, k < WIDTH PROVE (k + 1) % WIDTH # k
<1>1. WIDTH \in Nat /\ WIDTH > 1
  OBVIOUS
<1>2. CASE k + 1 < WIDTH
  BY <1>1, <1>2
<1>3. CASE k + 1 = WIDTH
  <2>1. (k + 1) % WIDTH = 0
    BY <1>1, <1>3
  <2> QED
    BY <1>1, <1>3, <2>1
<1> QED
  BY <1>1, <1>2, <1>3

--------------------------------------------------------------------------------
(* Every step keeps the shape of the state.                                  *)

LEMMA TypeNext == PipeInv /\ [Next]_vars => TypeOK'
<1> SUFFICES ASSUME PipeInv, [Next]_vars PROVE TypeOK'
  OBVIOUS
<1>t. TypeOK
  BY DEF PipeInv
<1>l. /\ "idle" \in Labels /\ "write" \in Labels /\ "write_copy" \in Labels
      /\ "write_sleep" \in Labels /\ "write_wake" \in Labels /\ "write_end" \in Labels
      /\ "read" \in Labels /\ "read_wait" \in Labels /\ "read_sleep" \in Labels
      /\ "read_wake" \in Labels /\ "read_copy" \in Labels /\ "read_end" \in Labels
  BY ZenonT(20) DEF Labels
<1> USE <1>t, <1>l DEF TypeOK
<1>g. ASSUME NEW p \in Procs, NEW l \in Labels, Goto(p, l) PROVE pc' \in [Procs -> Labels]
  BY <1>g DEF Goto
<1>w. ASSUME NEW p \in Procs, NEW l \in Labels, WakeReaders(p, l) \/ WakeWriters(p, l)
      PROVE  pc' \in [Procs -> Labels]
  BY ZenonT(40), <1>w DEF WakeReaders, WakeWriters, Woken
<1>f. ASSUME NEW p \in Procs, Finish(p)
      PROVE  /\ lock' \in Procs \cup {None}
             /\ n' \in [Procs -> 0..MaxCount] /\ i' \in [Procs -> 0..MaxCount]
  BY <1>f DEF Finish
<1>1. ASSUME NEW p \in Procs, NEW l \in {"write", "read"}, Start(p, l) PROVE TypeOK'
  <2>1. pc' \in [Procs -> Labels] /\ n' \in [Procs -> 0..MaxCount]
    BY <1>1, <1>g DEF Start
  <2> QED BY <1>1, <2>1 DEF Start, pvars
<1>2. ASSUME NEW p \in Procs, WriteTest(p) \/ ReadTest(p) PROVE TypeOK'
  <2>1. /\ pc' \in [Procs -> Labels] /\ lock' \in Procs \cup {None}
        /\ n' \in [Procs -> 0..MaxCount] /\ i' \in [Procs -> 0..MaxCount]
    BY ZenonT(40), <1>2, <1>g, <1>f DEF WriteTest, ReadTest
  <2> QED BY <1>2, <2>1, ZenonT(20) DEF WriteTest, ReadTest, pvars
<1>3. ASSUME NEW p \in Procs, ReadSleep(p) \/ Reacquire(p) PROVE TypeOK'
  <2>1. pc' \in [Procs -> Labels]
    BY <1>3, <1>g, ZenonT(20) DEF ReadSleep, Reacquire
  <2> QED BY <1>3, <2>1, ZenonT(20) DEF ReadSleep, Reacquire, pvars
<1>9. ASSUME NEW p \in Procs, WriteSleep(p) \/ WriteEnd(p) \/ ReadEnd(p) PROVE TypeOK'
  <2>1. /\ pc' \in [Procs -> Labels] /\ lock' \in Procs \cup {None}
        /\ n' \in [Procs -> 0..MaxCount] /\ i' \in [Procs -> 0..MaxCount]
    BY ZenonT(40), <1>9, <1>w, <1>f DEF WriteSleep, WriteEnd, ReadEnd
  <2> QED BY <1>9, <2>1, ZenonT(20) DEF WriteSleep, WriteEnd, ReadEnd, pvars
<1>4. ASSUME NEW p \in Procs, WriteByte(p) PROVE TypeOK'
  <2>1. i[p] < n[p]
    BY <1>4 DEF PipeInv, CountInv, CountOf, WriteByte, Holds
  <2>2. i[p] + 1 \in 0..MaxCount
    BY <2>1
  <2>3. (nwrite + 1) % WIDTH \in 0..WIDTH - 1
    BY Wraps
  <2>4. data' \in [0..PIPESIZE - 1 -> Bytes] /\ nwrite' \in 0..WIDTH - 1
    BY <1>4, <2>3 DEF WriteByte
  <2>5. i' \in [Procs -> 0..MaxCount] /\ pc' \in [Procs -> Labels]
    <3>1. pc' \in [Procs -> Labels]
      BY <1>4, <1>g, ZenonT(20) DEF WriteByte
    <3>2. i' = [i EXCEPT ![p] = i[p] + 1] \/ i' = i
      BY <1>4 DEF WriteByte
    <3>3. i' \in [Procs -> 0..MaxCount]
      BY <2>2, <3>2
    <3> QED BY <3>1, <3>3, ZenonT(20)
  <2> QED BY <1>4, <2>4, <2>5, ZenonT(20) DEF WriteByte
<1>5. ASSUME NEW p \in Procs, ReadByte(p) PROVE TypeOK'
  <2>1. (nread + 1) % WIDTH \in 0..WIDTH - 1
    BY Wraps
  <2>2. nread' \in 0..WIDTH - 1 /\ pc' \in [Procs -> Labels]
    BY <1>5, <1>g, <2>1, ZenonT(20) DEF ReadByte
  <2>3. i' \in [Procs -> 0..MaxCount]
    <3>1. CASE i[p] < n[p]
      <4>1. i[p] + 1 \in 0..MaxCount
        BY <3>1
      <4> QED BY <1>5, <4>1, ZenonT(20) DEF ReadByte
    <3> QED BY <1>5, <3>1, ZenonT(20) DEF ReadByte
  <2> QED BY <1>5, <2>2, <2>3, ZenonT(20) DEF ReadByte
<1>6. ASSUME NEW p \in Procs, Close(p) PROVE TypeOK'
  <2>1. pc' \in [Procs -> Labels]
    BY <1>6, <1>w DEF Close, PipeClose
  <2>2. readopen' \in BOOLEAN /\ writeopen' \in BOOLEAN /\ freed' \in BOOLEAN
    BY ZenonT(40), <1>6 DEF Close, PipeClose
  <2> QED BY <1>6, <2>1, <2>2, ZenonT(20) DEF Close
<1>7. ASSUME NEW p \in Procs, Kill(p) PROVE TypeOK'
  <2>1. pc' \in [Procs -> Labels]
    BY <1>7, <1>g, ZenonT(20) DEF Kill
  <2> QED BY <1>7, <2>1, ZenonT(20) DEF Kill, pvars
<1>8. CASE UNCHANGED vars
  BY <1>8 DEF vars, pvars
<1> QED
  BY ZenonT(40), <1>1, <1>2, <1>3, <1>4, <1>5, <1>6, <1>7, <1>8, <1>9
     DEF Next, CallStep, PipeWrite, PipeRead

--------------------------------------------------------------------------------
(* pi->lock is held exactly by the process whose place says so.              *)

LEMMA LockNext == PipeInv /\ [Next]_vars => LockInv'
<1> SUFFICES ASSUME PipeInv, [Next]_vars PROVE LockInv'
  OBVIOUS
<1>t. LockInv /\ pc \in [Procs -> Labels] /\ lock \in Procs \cup {None}
  BY ZenonT(20) DEF PipeInv, TypeOK
<1> USE <1>t DEF LockInv, WriteLabels, ReadLabels
<1>1. ASSUME NEW p \in Writers, PipeWrite(p) PROVE LockInv'
  BY <1>1, ZenonT(20) DEF PipeWrite, Start, Goto
<1>2. ASSUME NEW p \in Readers, PipeRead(p) PROVE LockInv'
  BY <1>2, ZenonT(20) DEF PipeRead, Start, Goto
<1>3. ASSUME NEW p \in Procs, WriteTest(p) PROVE LockInv'
  BY <1>3 DEF WriteTest, Holds, Goto, Finish
<1>4. ASSUME NEW p \in Procs, WriteByte(p) PROVE LockInv'
  BY <1>4, ZenonT(20) DEF WriteByte, Holds, Goto
<1>5. ASSUME NEW p \in Procs, WriteSleep(p) PROVE LockInv'
  BY <1>5, ZenonT(20) DEF WriteSleep, Holds, WakeReaders, Woken
<1>6. ASSUME NEW p \in Procs, WriteEnd(p) PROVE LockInv'
  BY <1>6, ZenonT(20) DEF WriteEnd, Holds, WakeReaders, Woken, Finish
<1>7. ASSUME NEW p \in Procs, ReadTest(p) PROVE LockInv'
  BY <1>7 DEF ReadTest, Holds, Goto, Finish
<1>8. ASSUME NEW p \in Procs, ReadSleep(p) PROVE LockInv'
  BY <1>8, ZenonT(20) DEF ReadSleep, Holds, Goto
<1>9. ASSUME NEW p \in Procs, ReadByte(p) PROVE LockInv'
  BY <1>9, ZenonT(20) DEF ReadByte, Holds, Goto
<1>10. ASSUME NEW p \in Procs, ReadEnd(p) PROVE LockInv'
  BY <1>10, ZenonT(20) DEF ReadEnd, Holds, WakeWriters, Woken, Finish
<1>11. ASSUME NEW p \in Procs, Reacquire(p) PROVE LockInv'
  BY <1>11, ZenonT(20) DEF Reacquire, Goto
<1>12. ASSUME NEW p \in Procs, Close(p) PROVE LockInv'
  BY <1>12 DEF Close, PipeClose, WakeReaders, WakeWriters, Woken
<1>13. ASSUME NEW p \in Procs, Kill(p) PROVE LockInv'
  BY <1>13, ZenonT(20) DEF Kill, Goto
<1>14. CASE UNCHANGED vars
  BY <1>14 DEF vars
<1> QED
  BY <1>1, <1>2, <1>3, <1>4, <1>5, <1>6, <1>7, <1>8, <1>9, <1>10, <1>11, <1>12, <1>13, <1>14, ZenonT(20)
     DEF Next, CallStep


--------------------------------------------------------------------------------
(* Ends stay open as long as somebody has them open.                         *)

LEMMA OpenNext == PipeInv /\ [Next]_vars => OpenInv'
<1> SUFFICES ASSUME PipeInv, [Next]_vars PROVE OpenInv'
  OBVIOUS
<1>t. OpenInv /\ pc \in [Procs -> Labels] /\ open \subseteq Procs
  BY ZenonT(20) DEF PipeInv, TypeOK
<1> USE <1>t DEF OpenInv
<1>1. ASSUME NEW p \in Writers, PipeWrite(p) PROVE OpenInv'
  BY <1>1, ZenonT(20) DEF PipeWrite, Start, Goto, pvars
<1>2. ASSUME NEW p \in Readers, PipeRead(p) PROVE OpenInv'
  BY <1>2, ZenonT(20) DEF PipeRead, Start, Goto, pvars
<1>3. ASSUME NEW p \in Procs, WriteTest(p) PROVE OpenInv'
  BY <1>3, ZenonT(20) DEF WriteTest, Holds, Goto, Finish, pvars
<1>4. ASSUME NEW p \in Procs, WriteByte(p) PROVE OpenInv'
  BY <1>4, ZenonT(20) DEF WriteByte, Holds, Goto
<1>5. ASSUME NEW p \in Procs, WriteSleep(p) PROVE OpenInv'
  BY <1>5, ZenonT(20) DEF WriteSleep, Holds, WakeReaders, Woken, pvars
<1>6. ASSUME NEW p \in Procs, WriteEnd(p) PROVE OpenInv'
  BY <1>6, ZenonT(20) DEF WriteEnd, Holds, WakeReaders, Woken, Finish, pvars
<1>7. ASSUME NEW p \in Procs, ReadTest(p) PROVE OpenInv'
  BY <1>7, ZenonT(20) DEF ReadTest, Holds, Goto, Finish, pvars
<1>8. ASSUME NEW p \in Procs, ReadSleep(p) PROVE OpenInv'
  BY <1>8, ZenonT(20) DEF ReadSleep, Holds, Goto, pvars
<1>9. ASSUME NEW p \in Procs, ReadByte(p) PROVE OpenInv'
  BY <1>9, ZenonT(20) DEF ReadByte, Holds, Goto
<1>10. ASSUME NEW p \in Procs, ReadEnd(p) PROVE OpenInv'
  BY <1>10, ZenonT(20) DEF ReadEnd, Holds, WakeWriters, Woken, Finish, pvars
<1>11. ASSUME NEW p \in Procs, Reacquire(p) PROVE OpenInv'
  BY <1>11 DEF Reacquire, Goto, pvars
<1>12. ASSUME NEW p \in Procs, Close(p) PROVE OpenInv'
  BY ZenonT(40), <1>12 DEF Close, PipeClose, WakeReaders, WakeWriters, Woken
<1>13. ASSUME NEW p \in Procs, Kill(p) PROVE OpenInv'
  BY <1>13 DEF Kill, Goto, pvars
<1>14. CASE UNCHANGED vars
  BY <1>14 DEF vars, pvars
<1> QED
  BY ZenonT(40), <1>1, <1>2, <1>3, <1>4, <1>5, <1>6, <1>7, <1>8, <1>9, <1>10, <1>11, <1>12, <1>13, <1>14
     DEF Next, CallStep

--------------------------------------------------------------------------------
(* The counts of a call.                                                     *)

LEMMA CountNext == PipeInv /\ [Next]_vars => CountInv'
<1> SUFFICES ASSUME PipeInv, [Next]_vars, NEW q \in Procs PROVE CountOf(q)'
  BY ZenonT(20) DEF CountInv
<1>t. /\ CountOf(q) /\ LockInv /\ pc \in [Procs -> Labels]
      /\ n \in [Procs -> 0..MaxCount] /\ i \in [Procs -> 0..MaxCount]
  BY ZenonT(20) DEF PipeInv, TypeOK, CountInv
<1>e. nread' = nread /\ nwrite' = nwrite => (Empty' <=> Empty)
  BY ZenonT(20) DEF Empty
<1> USE <1>t, <1>e DEF CountOf
<1>1. ASSUME NEW p \in Writers, PipeWrite(p) PROVE CountOf(q)'
  BY <1>1 DEF PipeWrite, Start, Goto, pvars
<1>2. ASSUME NEW p \in Readers, PipeRead(p) PROVE CountOf(q)'
  BY <1>2 DEF PipeRead, Start, Goto, pvars
<1>3. ASSUME NEW p \in Procs, WriteTest(p) PROVE CountOf(q)'
  BY <1>3 DEF WriteTest, Holds, Goto, Finish, pvars
<1>4. ASSUME NEW p \in Procs, WriteByte(p) PROVE CountOf(q)'
  BY <1>4 DEF WriteByte, Holds, Goto, LockInv, WriteLabels, ReadLabels
<1>5. ASSUME NEW p \in Procs, WriteSleep(p) PROVE CountOf(q)'
  BY <1>5, ZenonT(20) DEF WriteSleep, Holds, WakeReaders, Woken, pvars
<1>6. ASSUME NEW p \in Procs, WriteEnd(p) PROVE CountOf(q)'
  BY <1>6 DEF WriteEnd, Holds, WakeReaders, Woken, Finish, pvars
<1>7. ASSUME NEW p \in Procs, ReadTest(p) PROVE CountOf(q)'
  BY <1>7 DEF ReadTest, Holds, Goto, Finish, pvars
<1>8. ASSUME NEW p \in Procs, ReadSleep(p) PROVE CountOf(q)'
  BY <1>8, ZenonT(20) DEF ReadSleep, Holds, Goto, pvars
<1>9. ASSUME NEW p \in Procs, ReadByte(p) PROVE CountOf(q)'
  BY <1>9 DEF ReadByte, Holds, Goto, LockInv, WriteLabels, ReadLabels
<1>10. ASSUME NEW p \in Procs, ReadEnd(p) PROVE CountOf(q)'
  BY <1>10 DEF ReadEnd, Holds, WakeWriters, Woken, Finish, pvars
<1>11. ASSUME NEW p \in Procs, Reacquire(p) PROVE CountOf(q)'
  BY <1>11, ZenonT(20) DEF Reacquire, Goto, pvars
<1>12. ASSUME NEW p \in Procs, Close(p) PROVE CountOf(q)'
  BY <1>12 DEF Close, PipeClose, WakeReaders, WakeWriters, Woken, LockInv, WriteLabels, ReadLabels
<1>13. ASSUME NEW p \in Procs, Kill(p) PROVE CountOf(q)'
  BY <1>13, ZenonT(20) DEF Kill, Goto, pvars
<1>14. CASE UNCHANGED vars
  BY <1>14, ZenonT(20) DEF vars, pvars
<1> QED
  BY ZenonT(40), <1>1, <1>2, <1>3, <1>4, <1>5, <1>6, <1>7, <1>8, <1>9, <1>10, <1>11, <1>12, <1>13, <1>14
     DEF Next, CallStep

--------------------------------------------------------------------------------
(* Nobody sleeps without a reason.                                           *)

LEMMA WriterNext == PipeInv /\ [Next]_vars => \A q \in Writers : WriterInv(q)'
<1> SUFFICES ASSUME PipeInv, [Next]_vars, NEW q \in Writers PROVE WriterInv(q)'
  BY ZenonT(20)
<1>t. /\ WriterInv(q) /\ LockInv /\ CountInv /\ OpenInv /\ pc \in [Procs -> Labels]
      /\ killed \in [Procs -> BOOLEAN] /\ open \subseteq Procs
  BY ZenonT(20) DEF PipeInv, TypeOK, SleepInv
<1>e. nread' = nread /\ nwrite' = nwrite => (Empty' <=> Empty) /\ (Full' <=> Full)
  BY ZenonT(20) DEF Empty, Full
<1> USE <1>t, <1>e DEF WriterInv, LockInv, WriteLabels, ReadLabels
<1>1. ASSUME NEW p \in Writers, PipeWrite(p) PROVE WriterInv(q)'
  BY <1>1, ZenonT(20) DEF PipeWrite, Start, Goto, pvars
<1>2. ASSUME NEW p \in Readers, PipeRead(p) PROVE WriterInv(q)'
  BY <1>2, ZenonT(20) DEF PipeRead, Start, Goto, pvars
<1>3. ASSUME NEW p \in Procs, WriteTest(p) PROVE WriterInv(q)'
  BY <1>3 DEF WriteTest, Holds, Goto, Finish, pvars
<1>4. ASSUME NEW p \in Procs, WriteByte(p) PROVE WriterInv(q)'
  BY <1>4, ZenonT(20) DEF WriteByte, Holds, Goto
<1>5. ASSUME NEW p \in Procs, WriteSleep(p) PROVE WriterInv(q)'
  BY <1>5, ZenonT(20) DEF WriteSleep, Holds, WakeReaders, Woken, pvars
<1>6. ASSUME NEW p \in Procs, WriteEnd(p) PROVE WriterInv(q)'
  BY <1>6, ZenonT(20) DEF WriteEnd, Holds, WakeReaders, Woken, Finish, pvars
<1>7. ASSUME NEW p \in Procs, ReadTest(p) PROVE WriterInv(q)'
  BY <1>7, ZenonT(20) DEF ReadTest, Holds, Goto, Finish, pvars
<1>8. ASSUME NEW p \in Procs, ReadSleep(p) PROVE WriterInv(q)'
  BY <1>8, ZenonT(20) DEF ReadSleep, Holds, Goto, pvars
<1>9. ASSUME NEW p \in Procs, ReadByte(p) PROVE WriterInv(q)'
  BY <1>9, ZenonT(20) DEF ReadByte, Holds, Goto
<1>10. ASSUME NEW p \in Procs, ReadEnd(p) PROVE WriterInv(q)'
  BY <1>10, ZenonT(20) DEF ReadEnd, Holds, WakeWriters, Woken, Finish, pvars
<1>11. ASSUME NEW p \in Procs, Reacquire(p) PROVE WriterInv(q)'
  BY <1>11, ZenonT(20) DEF Reacquire, Goto, pvars
<1>12. ASSUME NEW p \in Procs, Close(p) PROVE WriterInv(q)'
  BY <1>12 DEF Close, PipeClose, WakeReaders, WakeWriters, Woken
<1>13. ASSUME NEW p \in Procs, Kill(p) PROVE WriterInv(q)'
  BY <1>13, ZenonT(20) DEF Kill, Goto, pvars
<1>14. CASE UNCHANGED vars
  BY <1>14, ZenonT(20) DEF vars, pvars
<1> QED
  BY <1>1, <1>2, <1>3, <1>4, <1>5, <1>6, <1>7, <1>8, <1>9, <1>10, <1>11, <1>12, <1>13, <1>14, ZenonT(20)
     DEF Next, CallStep

LEMMA ReaderNext == PipeInv /\ [Next]_vars => \A q \in Readers : ReaderInv(q)'
<1> SUFFICES ASSUME PipeInv, [Next]_vars, NEW q \in Readers PROVE ReaderInv(q)'
  BY ZenonT(20)
<1>t. /\ ReaderInv(q) /\ LockInv /\ CountInv /\ OpenInv /\ pc \in [Procs -> Labels]
      /\ killed \in [Procs -> BOOLEAN] /\ open \subseteq Procs
  BY ZenonT(20) DEF PipeInv, TypeOK, SleepInv
<1>e. nread' = nread /\ nwrite' = nwrite => (Empty' <=> Empty) /\ (Full' <=> Full)
  BY ZenonT(20) DEF Empty, Full
<1> USE <1>t, <1>e DEF ReaderInv, LockInv, WriteLabels, ReadLabels
<1>1. ASSUME NEW p \in Writers, PipeWrite(p) PROVE ReaderInv(q)'
  BY <1>1, ZenonT(20) DEF PipeWrite, Start, Goto, pvars
<1>2. ASSUME NEW p \in Readers, PipeRead(p) PROVE ReaderInv(q)'
  BY <1>2, ZenonT(20) DEF PipeRead, Start, Goto, pvars
<1>3. ASSUME NEW p \in Procs, WriteTest(p) PROVE ReaderInv(q)'
  <2>1. pc[q] = "read_sleep" => readopen
    BY ZenonT(20) DEF OpenInv
  <2>2. p \in Writers
    BY <1>3, ZenonT(20) DEF WriteTest, Holds
  <2>3. pc'[p] \in WriteLabels \/ ~readopen \/ killed[p]
    BY <1>3, ZenonT(20) DEF WriteTest, Holds, Goto
  <2>4. UNCHANGED <<nread, nwrite, killed, writeopen>> /\ pc'[q] = pc[q]
    BY <1>3, <2>2 DEF WriteTest, Goto, pvars
  <2> QED
    BY <2>1, <2>2, <2>3, <2>4, ZenonT(20)
<1>4. ASSUME NEW p \in Procs, WriteByte(p) PROVE ReaderInv(q)'
  BY <1>4, ZenonT(20) DEF WriteByte, Holds, Goto
<1>5. ASSUME NEW p \in Procs, WriteSleep(p) PROVE ReaderInv(q)'
  BY <1>5, ZenonT(20) DEF WriteSleep, Holds, WakeReaders, Woken, pvars
<1>6. ASSUME NEW p \in Procs, WriteEnd(p) PROVE ReaderInv(q)'
  BY <1>6, ZenonT(20) DEF WriteEnd, Holds, WakeReaders, Woken, Finish, pvars
<1>7. ASSUME NEW p \in Procs, ReadTest(p) PROVE ReaderInv(q)'
  BY <1>7, ZenonT(20) DEF ReadTest, Holds, Goto, Finish, pvars
<1>8. ASSUME NEW p \in Procs, ReadSleep(p) PROVE ReaderInv(q)'
  BY <1>8, ZenonT(20) DEF ReadSleep, Holds, Goto, pvars, CountInv, CountOf
<1>9. ASSUME NEW p \in Procs, ReadByte(p) PROVE ReaderInv(q)'
  BY <1>9, ZenonT(20) DEF ReadByte, Holds, Goto
<1>10. ASSUME NEW p \in Procs, ReadEnd(p) PROVE ReaderInv(q)'
  BY <1>10, ZenonT(20) DEF ReadEnd, Holds, WakeWriters, Woken, Finish, pvars
<1>11. ASSUME NEW p \in Procs, Reacquire(p) PROVE ReaderInv(q)'
  BY <1>11, ZenonT(20) DEF Reacquire, Goto, pvars
<1>12. ASSUME NEW p \in Procs, Close(p) PROVE ReaderInv(q)'
  BY <1>12 DEF Close, PipeClose, WakeReaders, WakeWriters, Woken
<1>13. ASSUME NEW p \in Procs, Kill(p) PROVE ReaderInv(q)'
  BY <1>13, ZenonT(20) DEF Kill, Goto, pvars
<1>14. CASE UNCHANGED vars
  BY <1>14, ZenonT(20) DEF vars, pvars
<1> QED
  BY <1>1, <1>2, <1>3, <1>4, <1>5, <1>6, <1>7, <1>8, <1>9, <1>10, <1>11, <1>12, <1>13, <1>14, ZenonT(20)
     DEF Next, CallStep


--------------------------------------------------------------------------------
(* The theorems.                                                             *)

LEMMA PipeNext == PipeInv /\ [Next]_vars => PipeInv'
BY TypeNext, LockNext, OpenNext, CountNext, WriterNext, ReaderNext, ZenonT(20) DEF PipeInv, SleepInv

LEMMA PipeAlways == Spec => []PipeInv
BY PipeInit, PipeNext, PTL DEF Spec

\* The counters of pipe.c stay within their width, and locals within the bounds
\* of the call, for any number of processes and any size of the pipe.
THEOREM PipeTypes == Spec => []TypeOK
<1>1. PipeInv => TypeOK
  BY ZenonT(20) DEF PipeInv
<1> QED
  BY <1>1, PipeAlways, PTL

\* pipeclose frees the page of the pipe only when no call of pipewrite or
\* piperead is in progress, nor can begin.
THEOREM PipeOutlivesCalls == Spec => []NoUseAfterFree
<1>1. ASSUME PipeInv, freed PROVE open = {} /\ lock = None /\ \A p \in Procs : pc[p] = "idle"
  <2>1. open = {}
    BY <1>1, ZenonT(20) DEF PipeInv, OpenInv, TypeOK
  <2>2. \A p \in Procs : pc[p] = "idle"
    BY <1>1, <2>1, ZenonT(20) DEF PipeInv, OpenInv
  <2>3. lock \in Procs \cup {None} /\ \A p \in Procs : lock # p
    BY <1>1, <2>2, ZenonT(20) DEF PipeInv, TypeOK, LockInv, WriteLabels, ReadLabels
  <2> QED
    BY <2>1, <2>2, <2>3, ZenonT(20)
<1>2. PipeInv => NoUseAfterFree
  BY <1>1 DEF NoUseAfterFree
<1> QED
  BY <1>2, PipeAlways, PTL

\* No wakeup(&pi->nwrite) is lost: a writer asleep with pi->lock free waits for
\* room in a pipe that has readers.
THEOREM WritersWaitForRoom == Spec => []WriterNotStuck
<1>1. ASSUME PipeInv, lock = None, NEW p \in Writers, pc[p] = "write_sleep"
      PROVE  Full /\ readopen
  <2>1. ASSUME NEW r \in Readers PROVE pc[r] \notin {"read_copy", "read_end"}
    BY <1>1, <2>1 DEF PipeInv, LockInv, ReadLabels
  <2> QED
    BY <1>1, <2>1, ZenonT(20) DEF PipeInv, SleepInv, WriterInv
<1>2. PipeInv => WriterNotStuck
  BY <1>1, ZenonT(20) DEF WriterNotStuck
<1> QED
  BY <1>2, PipeAlways, PTL

\* No wakeup(&pi->nread) is lost, but for the early return of a killed writer.
THEOREM ReadersWaitForData == Spec => []ReaderNotStuck
<1>1. ASSUME PipeInv, lock = None, \A w \in Writers : ~killed[w],
             NEW p \in Readers, pc[p] = "read_sleep"
      PROVE  Empty /\ writeopen
  <2>1. ASSUME NEW w \in Writers PROVE pc[w] \notin WriteLabels
    BY <1>1, <2>1, ZenonT(20) DEF PipeInv, LockInv
  <2> QED
    BY <1>1, <2>1, ZenonT(20) DEF PipeInv, SleepInv, ReaderInv
<1>2. PipeInv => ReaderNotStuck
  BY <1>1 DEF ReaderNotStuck
<1> QED
  BY <1>2, PipeAlways, PTL


\* No wakeup of a pipe is lost, of piperead, pipewrite or pipeclose, but for the
\* one that a killed writer leaves out (pipe.c:85).
THEOREM NobodyStuck == Spec => []NotStuck
<1>1. WriterNotStuck /\ ReaderNotStuck => NotStuck
  BY DEF NotStuck
<1> QED
  BY <1>1, WritersWaitForRoom, ReadersWaitForData, PTL

\* piperead copies nothing, from a pipe with no data, only at end of file,
\* whatever other readers took between its wakeup and its copy loop.
THEOREM ZeroIsEof == Spec => EofMeansClosed
<1> DEFINE EofStep(p) ==
      pc[p] = "read_copy" /\ pc'[p] = "read_end" /\ i'[p] = 0 /\ n[p] > 0 /\ nread' = nread
          => Empty /\ ~writeopen
<1>1. ASSUME PipeInv, [Next]_vars, NEW q \in Readers,
             pc[q] = "read_copy", pc'[q] = "read_end", i'[q] = 0, n[q] > 0, nread' = nread
      PROVE  Empty /\ ~writeopen
  <2>t. /\ pc \in [Procs -> Labels] /\ nread \in Nat /\ nread < WIDTH /\ i \in [Procs -> Nat]
        /\ n \in [Procs -> Nat] /\ LockInv /\ CountOf(q)
    BY <1>1 DEF PipeInv, TypeOK, CountInv
  <2>1. lock = q
    BY <1>1, <2>t, ZenonT(20) DEF LockInv, ReadLabels
  <2>2. ASSUME NEW p \in Procs, ReadByte(p) PROVE Empty /\ ~writeopen
    <3>1. p = q
      BY <2>1, <2>2, ZenonT(20) DEF ReadByte, Holds
    <3>2. nread' # (nread + 1) % WIDTH
      BY <1>1, <2>t, Moves, ZenonT(20)
    <3>3. i' = i /\ ~(i[q] < n[q] /\ ~Empty)
      BY <2>2, <3>1, <3>2, ZenonT(20) DEF ReadByte
    <3> QED
      BY <1>1, <2>t, <3>3, ZenonT(20) DEF CountOf
  <2>3. ASSUME NEW p \in Writers, PipeWrite(p) PROVE FALSE
    BY <1>1, <2>1, <2>3, ZenonT(20) DEF PipeWrite, Start
  <2>4. ASSUME NEW p \in Readers, PipeRead(p) PROVE FALSE
    BY <1>1, <2>1, <2>4, ZenonT(20) DEF PipeRead, Start
  <2>5. ASSUME NEW p \in Procs,
               WriteTest(p) \/ WriteSleep(p) \/ WriteByte(p) \/ WriteEnd(p)
        PROVE  FALSE
    BY <1>1, <2>1, <2>5, ZenonT(20) DEF WriteTest, WriteSleep, WriteByte, WriteEnd, Holds
  <2>6. ASSUME NEW p \in Procs, ReadTest(p) \/ ReadSleep(p) \/ ReadEnd(p) PROVE FALSE
    BY <1>1, <2>1, <2>6, ZenonT(20) DEF ReadTest, ReadSleep, ReadEnd, Holds
  <2>7. ASSUME NEW p \in Procs, Reacquire(p) PROVE FALSE
    BY <1>1, <2>1, <2>7, ZenonT(20) DEF Reacquire
  <2>8. ASSUME NEW p \in Procs, Close(p) PROVE FALSE
    BY <1>1, <2>t, <2>1, <2>8, ZenonT(20) DEF Close, PipeClose, WakeReaders, WakeWriters, Woken
  <2>9. ASSUME NEW p \in Procs, Kill(p) PROVE FALSE
    BY <1>1, <2>t, <2>9, ZenonT(20) DEF Kill, Goto
  <2>10. CASE UNCHANGED vars
    BY <1>1, <2>10, ZenonT(20) DEF vars
  <2> QED
    BY <1>1, <2>2, <2>3, <2>4, <2>5, <2>6, <2>7, <2>8, <2>9, <2>10, ZenonT(20) DEF Next, CallStep
<1>2. PipeInv /\ [Next]_vars => [\A p \in Readers : EofStep(p)]_vars
  BY <1>1, ZenonT(20)
<1> QED
  BY <1>2, PipeAlways, PTL DEF Spec, EofMeansClosed

--------------------------------------------------------------------------------
(* Pipe implements Fifo.  First what the remainder operator does, then the   *)
(* queue, then one lemma per step that changes the queue.                    *)

HIDE PipeSets
HIDE PipeSizes DEF Procs

\* Multiples of P are P apart.
LEMMA MulStep == ASSUME NEW P \in Nat, NEW a \in Int, NEW b \in Int, a < b
                 PROVE  P * a + P <= P * b
<1>1. PICK d \in Nat : b = a + 1 + d
  <2>1. b - a - 1 \in Nat /\ b = a + 1 + (b - a - 1)
    OBVIOUS
  <2> QED BY <2>1, ZenonT(20)
<1>2. P * (a + 1 + d) = P * a + P + P * d
  OBVIOUS
<1>3. P * d >= 0
  OBVIOUS
<1> QED BY <1>1, <1>2, <1>3

\* What \div and % compute: the only numbers with this property (ModIs).
LEMMA DivMod == ASSUME NEW P \in Nat \ {0}, NEW x \in Int
                PROVE  /\ x = P * (x \div P) + (x % P)
                       /\ x \div P \in Int /\ x % P \in Nat /\ x % P < P
  OBVIOUS

LEMMA ModIs == ASSUME NEW P \in Nat \ {0}, NEW q \in Int, NEW r \in Nat, r < P
               PROVE  (P * q + r) % P = r
<1> DEFINE x == P * q + r
<1>1. x \in Int /\ x = P * (x \div P) + (x % P) /\ x \div P \in Int /\ x % P \in 0..P-1
  OBVIOUS
<1>2. CASE q < x \div P
  BY <1>1, <1>2, MulStep
<1>3. CASE q > x \div P
  BY <1>1, <1>3, MulStep
<1>4. CASE q = x \div P
  BY <1>1, <1>4
<1> QED BY <1>1, <1>2, <1>3, <1>4

\* Remainders repeat.
LEMMA ModPeriod == ASSUME NEW P \in Nat \ {0}, NEW w \in Nat, w % P = 0, NEW k \in Nat
                   PROVE  (k + w) % P = k % P
<1>1. PICK d \in Int : w = P * d
  <2>1. w = P * (w \div P) + (w % P) /\ w \div P \in Int
    BY DivMod
  <2>2. w \div P \in Int /\ w = P * (w \div P)
    <3> DEFINE e == w \div P
    <3>1. P * e \in Int
      BY <2>1
    <3> HIDE DEF e
    <3> QED BY <2>1, <3>1 DEF e
  <2> QED BY <2>2, ZenonT(20)
<1>2. PICK q \in Int, r \in Nat : k = P * q + r /\ r < P /\ r = k % P
  <2>1. k \in Int
    OBVIOUS
  <2> QED BY ZenonT(20), <2>1, DivMod
<1>3. k + w = P * (q + d) + r /\ q + d \in Int
  BY <1>1, <1>2
<1>4. (P * (q + d) + r) % P = r
  BY ZenonT(20), <1>2, <1>3, ModIs
<1> QED BY ZenonT(20), <1>2, <1>3, <1>4

\* Counters wrap at WIDTH, a multiple of PIPESIZE, without a change of slot.
LEMMA SlotWraps == ASSUME NEW k \in Nat
                   PROVE  (k + WIDTH) % PIPESIZE = k % PIPESIZE
BY ZenonT(20), PipeSizes, ModPeriod

\* They do not repeat within P.
LEMMA ModDiffer == ASSUME NEW P \in Nat \ {0}, NEW k \in Nat, NEW m \in Nat, k < m, m < k + P
                   PROVE  k % P # m % P
<1>1. SUFFICES ASSUME k % P = m % P PROVE FALSE
  BY ZenonT(20)
<1>2. k \in Int /\ m \in Int
  OBVIOUS
<1>3. PICK a \in Int, r \in Nat : k = P * a + r /\ r = k % P
  BY ZenonT(20), <1>2, DivMod
<1>4. PICK b \in Int, s \in Nat : m = P * b + s /\ s = m % P
  BY ZenonT(20), <1>2, DivMod
<1>5. P * a \in Int /\ P * b \in Int /\ r = s
  BY <1>1, <1>3, <1>4
<1>6. CASE a < b
  <2>1. P * a + P <= P * b
    BY <1>6, MulStep
  <2> QED BY <1>3, <1>4, <1>5, <2>1
<1>7. CASE b < a
  <2>1. P * b + P <= P * a
    BY <1>7, MulStep, ZenonT(20)
  <2> QED BY <1>3, <1>4, <1>5, <2>1
<1>8. CASE a = b
  BY <1>3, <1>4, <1>5, <1>8
<1> QED BY <1>6, <1>7, <1>8

\* Two positions less than PIPESIZE apart lie in two slots.
LEMMA SlotsDiffer == ASSUME NEW k \in Nat, NEW m \in Nat, k < m, m < k + PIPESIZE
                     PROVE  k % PIPESIZE # m % PIPESIZE
BY ZenonT(20), PipeSizes, ModDiffer

\* The difference of two counters.
LEMMA Distance == ASSUME NEW a \in Nat, NEW b \in Nat, a < WIDTH, b < WIDTH
                  PROVE  (a - b) % WIDTH = IF b <= a THEN a - b ELSE a - b + WIDTH
<1>1. CASE b <= a
  BY <1>1, PipeSizes, ModIs, WIDTH * 0 + (a - b) = a - b
<1>2. CASE a < b
  <2>1. WIDTH * (-1) + (a - b + WIDTH) = a - b
    BY PipeSizes
  <2> QED BY <1>2, <2>1, PipeSizes, ModIs
<1> QED BY <1>1, <1>2

\* What nread++ and nwrite++ compute.
LEMMA Advance == ASSUME NEW a \in Nat, a < WIDTH
                 PROVE  (a + 1) % WIDTH = IF a + 1 < WIDTH THEN a + 1 ELSE 0
<1>1. CASE a + 1 < WIDTH
  BY <1>1, PipeSizes, ModIs, WIDTH * 0 + (a + 1) = a + 1
<1>2. CASE a + 1 = WIDTH
  BY <1>2, PipeSizes, ModIs, WIDTH * 1 + 0 = a + 1
<1> QED BY PipeSizes, <1>1, <1>2

--------------------------------------------------------------------------------
(* The queue that the counters and the buffer stand for.                     *)

\* The number of bytes in the pipe.
LEMMA LengthIs ==
  ASSUME TypeOK
  PROVE  /\ Length = IF nread <= nwrite THEN nwrite - nread ELSE nwrite - nread + WIDTH
         /\ Length \in Nat /\ Length < WIDTH
         /\ Empty <=> Length = 0
<1>1. nread \in Nat /\ nwrite \in Nat /\ nread < WIDTH /\ nwrite < WIDTH /\ WIDTH \in Nat
  BY PipeSizes DEF TypeOK
<1>2. Length = IF nread <= nwrite THEN nwrite - nread ELSE nwrite - nread + WIDTH
  BY <1>1, Distance, ZenonT(20) DEF Length
<1> QED BY <1>1, <1>2 DEF Empty

\* The pipe is full when the queue is.
LEMMA FullIs == ASSUME TypeOK PROVE Full <=> Length = PIPESIZE
<1>1. /\ nread \in Nat /\ nwrite \in Nat /\ nread < WIDTH /\ nwrite < WIDTH /\ WIDTH \in Nat
      /\ PIPESIZE \in Nat /\ PIPESIZE < WIDTH
  BY PipeSizes DEF TypeOK
<1>2. CASE nread + PIPESIZE < WIDTH
  <2>1. WIDTH * 0 + (nread + PIPESIZE) = nread + PIPESIZE
    BY <1>1
  <2>2. (nread + PIPESIZE) % WIDTH = nread + PIPESIZE
    BY <1>1, <1>2, <2>1, ModIs
  <2> QED BY <1>1, <1>2, <2>2, LengthIs DEF Full
<1>3. CASE nread + PIPESIZE >= WIDTH
  <2>1. WIDTH * 1 + (nread + PIPESIZE - WIDTH) = nread + PIPESIZE
    BY <1>1
  <2>2. (nread + PIPESIZE) % WIDTH = nread + PIPESIZE - WIDTH
    BY <1>1, <1>3, <2>1, ModIs
  <2> QED BY <1>1, <1>3, <2>2, LengthIs DEF Full
<1> QED BY <1>1, <1>2, <1>3

\* The queue has that many bytes.
LEMMA QueueType == ASSUME TypeOK
                   PROVE  Queue \in Seq(Bytes) /\ Len(Queue) = Length
<1>1. \A k \in 1..Length : (nread + k - 1) % PIPESIZE \in 0..PIPESIZE - 1
  BY PipeSizes, LengthIs DEF TypeOK
<1>2. Queue \in [1..Length -> Bytes]
  BY <1>1, ZenonT(20) DEF Queue, TypeOK
<1> QED BY <1>2, LengthIs

\* LengthIs and QueueType, of the state after a step too.
QueueRight ==
    /\ Length = IF nread <= nwrite THEN nwrite - nread ELSE nwrite - nread + WIDTH
    /\ Queue \in Seq(Bytes) /\ Len(Queue) = Length

LEMMA NextQueue == TypeOK' => QueueRight'
<1>1. TypeOK => QueueRight
  BY LengthIs, QueueType, ZenonT(20) DEF QueueRight
<1> QED BY <1>1, PTL

\* The slot that pipewrite fills is the one after the last byte of the queue.
LEMMA WriteSlot == ASSUME TypeOK
                   PROVE  nwrite % PIPESIZE = (nread + Length) % PIPESIZE
<1>1. nread \in Nat /\ nwrite \in Nat /\ WIDTH \in Nat
  BY PipeSizes DEF TypeOK
<1>2. CASE nread <= nwrite
  <2>1. nread + Length = nwrite
    BY <1>1, <1>2, LengthIs
  <2> QED BY <2>1, ZenonT(20)
<1>3. CASE nwrite < nread
  <2>1. nread + Length = nwrite + WIDTH
    BY <1>1, <1>3, LengthIs
  <2> QED BY ZenonT(20), <1>1, <2>1, SlotWraps
<1> QED BY <1>1, <1>2, <1>3

\* pipewrite puts its byte at the end of the queue.
LEMMA PutsLast ==
  ASSUME TypeOK, TypeOK', Length < PIPESIZE, NEW b \in Bytes,
         data' = [data EXCEPT ![nwrite % PIPESIZE] = b],
         nwrite' = (nwrite + 1) % WIDTH, nread' = nread
  PROVE  Length' = Length + 1 /\ Queue' = Append(Queue, b)
<1>0. /\ nread \in Nat /\ nwrite \in Nat /\ nread < WIDTH /\ nwrite < WIDTH /\ WIDTH \in Nat
      /\ PIPESIZE \in Nat /\ PIPESIZE < WIDTH
  BY PipeSizes DEF TypeOK
<1>1. nwrite' = IF nwrite + 1 < WIDTH THEN nwrite + 1 ELSE 0
  BY <1>0, Advance, ZenonT(20)
<1>2. Length' = IF nread' <= nwrite' THEN nwrite' - nread' ELSE nwrite' - nread' + WIDTH
  BY NextQueue, ZenonT(20) DEF QueueRight
<1>3. Length' = Length + 1
  BY <1>0, <1>1, <1>2, LengthIs
<1>4. ASSUME NEW k \in 1..Length PROVE Queue'[k] = Queue[k]
  <2>1. (nread + k - 1) % PIPESIZE # nwrite % PIPESIZE
    <3>1. nread + k - 1 \in Nat /\ nread + Length \in Nat
          /\ nread + k - 1 < nread + Length /\ nread + Length < nread + k - 1 + PIPESIZE
      BY <1>0, <1>4, LengthIs
    <3> QED BY ZenonT(20), <3>1, WriteSlot, SlotsDiffer
  <2>2. data'[(nread + k - 1) % PIPESIZE] = data[(nread + k - 1) % PIPESIZE]
    <3>1. (nread + k - 1) % PIPESIZE \in 0..PIPESIZE - 1
      BY <1>0, PipeSizes
    <3> QED BY ZenonT(20), <2>1, <3>1 DEF TypeOK
  <2>3. k \in 1..Length'
    BY <1>3, <1>4, LengthIs
  <2> QED BY <1>4, <2>2, <2>3, ZenonT(20) DEF Queue
<1>5. Queue'[Length + 1] = b
  <2>1. Length + 1 \in 1..Length' /\ nread + (Length + 1) - 1 = nread + Length
    BY <1>0, <1>3, LengthIs
  <2>2. Queue'[Length + 1] = data'[(nread + Length) % PIPESIZE]
    BY <2>1, ZenonT(20) DEF Queue
  <2>3. nwrite % PIPESIZE \in 0..PIPESIZE - 1
    BY <1>0, PipeSizes
  <2> QED BY ZenonT(20), <2>2, <2>3, WriteSlot DEF TypeOK
<1>6. Queue' \in Seq(Bytes) /\ Len(Queue') = Length + 1
  BY <1>3, NextQueue, ZenonT(20) DEF QueueRight
<1> HIDE DEF Queue
<1> QED BY <1>3, <1>4, <1>5, <1>6, QueueType

\* piperead takes the first byte of the queue.
LEMMA GetsFirst ==
  ASSUME TypeOK, TypeOK', Length > 0, data' = data, nwrite' = nwrite,
         nread' = (nread + 1) % WIDTH
  PROVE  Length' = Length - 1 /\ Queue' = Tail(Queue)
<1>0. /\ nread \in Nat /\ nwrite \in Nat /\ nread < WIDTH /\ nwrite < WIDTH /\ WIDTH \in Nat
      /\ PIPESIZE \in Nat /\ PIPESIZE < WIDTH
  BY PipeSizes DEF TypeOK
<1>1. nread' = IF nread + 1 < WIDTH THEN nread + 1 ELSE 0
  BY <1>0, Advance, ZenonT(20)
<1>2. Length' = IF nread' <= nwrite' THEN nwrite' - nread' ELSE nwrite' - nread' + WIDTH
  BY NextQueue, ZenonT(20) DEF QueueRight
<1>3. Length' = Length - 1
  BY <1>0, <1>1, <1>2, LengthIs
<1>4. ASSUME NEW k \in 1..Length - 1 PROVE Queue'[k] = Queue[k + 1]
  <2>1. (nread' + k - 1) % PIPESIZE = (nread + (k + 1) - 1) % PIPESIZE
    <3>1. CASE nread + 1 < WIDTH
      <4>1. nread' + k - 1 = nread + (k + 1) - 1
        BY <1>0, <1>1, <1>4, <3>1, LengthIs
      <4> QED BY <4>1, ZenonT(20)
    <3>2. CASE nread + 1 = WIDTH
      <4>1. nread' + k - 1 \in Nat /\ nread + (k + 1) - 1 = (nread' + k - 1) + WIDTH
        BY <1>0, <1>1, <1>4, <3>2, LengthIs
      <4> QED BY ZenonT(20), <4>1, SlotWraps
    <3> QED BY <1>0, <3>1, <3>2
  <2>2. k \in 1..Length' /\ k + 1 \in 1..Length
    BY <1>3, <1>4, LengthIs
  <2> QED BY <2>1, <2>2, ZenonT(20) DEF Queue
<1>5. Queue' \in Seq(Bytes) /\ Len(Queue') = Length - 1
  BY <1>3, NextQueue, ZenonT(20) DEF QueueRight
<1> HIDE DEF Queue
<1> QED BY <1>3, <1>4, <1>5, QueueType, LengthIs

--------------------------------------------------------------------------------
(* Every step of the pipe is a step of the queue.                            *)

\* The queue fits into the buffer.
Fits == Length <= PIPESIZE

Step == [Promise!Next]_(Promise!qvars)

LEMMA SameQueue == ASSUME Fits, UNCHANGED <<data, nread, nwrite>>
                   PROVE  Fits' /\ Queue' = Queue
BY ZenonT(20) DEF Fits, Queue, Length

LEMMA Stays == ASSUME Fits, UNCHANGED pvars PROVE Fits' /\ Step
BY SameQueue, ZenonT(20) DEF pvars, Step, Promise!qvars

LEMMA WriteByteRefines == ASSUME PipeInv, TypeOK', Fits, NEW p \in Procs, WriteByte(p)
                          PROVE  Fits' /\ Step
<1>0. TypeOK /\ readopen /\ writeopen
  <2>1. p \in Writers /\ p \in open
    BY ZenonT(20) DEF PipeInv, LockInv, OpenInv, WriteByte, Holds, ReadLabels, Procs
  <2> QED BY <2>1, ZenonT(20) DEF PipeInv, SleepInv, WriterInv, OpenInv, WriteByte, Holds
<1>1. Length < PIPESIZE
  BY <1>0, PipeSizes, LengthIs, FullIs DEF WriteByte, Fits
<1>2. CASE UNCHANGED <<data, nwrite>>
  BY <1>2, SameQueue, ZenonT(20) DEF WriteByte, Step, Promise!qvars
<1>3. ASSUME NEW b \in Bytes, data' = [data EXCEPT ![nwrite % PIPESIZE] = b],
             nwrite' = (nwrite + 1) % WIDTH
      PROVE  Fits' /\ Step
  <2>1. nread' = nread /\ readopen' = readopen /\ writeopen' = writeopen
    BY DEF WriteByte
  <2>2. Length' = Length + 1 /\ Queue' = Append(Queue, b)
    BY ZenonT(20), <1>0, <1>1, <1>3, <2>1, PutsLast
  <2>3. Len(Queue) < PIPESIZE
    BY <1>0, <1>1, QueueType, ZenonT(20)
  <2>4. Fits'
    BY <1>0, <1>1, <2>2, PipeSizes, LengthIs DEF Fits
  <2>5. Promise!Put
    BY <1>0, <2>1, <2>2, <2>3, ZenonT(20) DEF Promise!Put
  <2> QED BY <2>4, <2>5, ZenonT(20) DEF Step, Promise!Next
<1> QED BY <1>2, <1>3, ZenonT(20) DEF WriteByte

LEMMA ReadByteRefines == ASSUME PipeInv, TypeOK', Fits, NEW p \in Procs, ReadByte(p)
                         PROVE  Fits' /\ Step
<1>0. TypeOK /\ readopen
  <2>1. p \in Readers /\ p \in open
    BY ZenonT(20) DEF PipeInv, LockInv, OpenInv, ReadByte, Holds, WriteLabels, Procs
  <2> QED BY <2>1, ZenonT(20) DEF PipeInv, OpenInv
<1>1. data' = data /\ nwrite' = nwrite /\ readopen' = readopen /\ writeopen' = writeopen
  BY ZenonT(20) DEF ReadByte
<1>2. CASE nread' = nread
  BY <1>1, <1>2, SameQueue, ZenonT(20) DEF Step, Promise!qvars
<1>3. CASE nread' = (nread + 1) % WIDTH /\ ~Empty
  <2>1. Length > 0 /\ Length \in Nat
    BY <1>0, <1>3, LengthIs
  <2>2. Length' = Length - 1 /\ Queue' = Tail(Queue)
    BY <1>0, <1>1, <1>3, <2>1, GetsFirst, ZenonT(20)
  <2>3. Queue # <<>>
    BY <1>0, <2>1, QueueType
  <2>4. Fits'
    BY <2>1, <2>2, PipeSizes DEF Fits
  <2>5. Promise!Get
    BY <1>0, <1>1, <2>2, <2>3, ZenonT(20) DEF Promise!Get
  <2> QED BY <2>4, <2>5, ZenonT(20) DEF Step, Promise!Next
<1> QED BY <1>2, <1>3, ZenonT(20) DEF ReadByte

LEMMA CloseRefines == ASSUME PipeInv, Fits, NEW p \in Procs, Close(p)
                      PROVE  Fits' /\ Step
<1>1. Fits' /\ Queue' = Queue
  BY SameQueue, ZenonT(20) DEF Close
<1>2. CASE UNCHANGED <<readopen, writeopen>>
  BY <1>1, <1>2, ZenonT(20) DEF Step, Promise!qvars
<1>3. CASE PipeClose(p) /\ p \in Writers
  <2>1. writeopen /\ writeopen' = FALSE /\ readopen' = readopen
    BY <1>3, ZenonT(20) DEF Close, PipeClose, PipeInv, OpenInv
  <2> QED BY <1>1, <2>1, ZenonT(20) DEF Step, Promise!Next, Promise!CloseWrite
<1>4. CASE PipeClose(p) /\ p \notin Writers
  <2>1. readopen /\ readopen' = FALSE /\ writeopen' = writeopen
    BY <1>4, ZenonT(20) DEF Close, PipeClose, PipeInv, OpenInv, Procs
  <2> QED BY <1>1, <2>1, ZenonT(20) DEF Step, Promise!Next, Promise!CloseRead
<1> QED BY <1>2, <1>3, <1>4, ZenonT(20) DEF Close

LEMMA StepRefines == PipeInv /\ Fits /\ [Next]_vars => Fits' /\ Step
<1> SUFFICES ASSUME PipeInv, Fits, [Next]_vars PROVE Fits' /\ Step
  BY ZenonT(20)
<1>1. TypeOK'
  BY TypeNext, ZenonT(20)
<1>2. ASSUME NEW p \in Procs, WriteByte(p) \/ ReadByte(p) PROVE Fits' /\ Step
  BY <1>1, <1>2, WriteByteRefines, ReadByteRefines, ZenonT(20)
<1>3. ASSUME NEW p \in Procs, Close(p) PROVE Fits' /\ Step
  BY <1>3, CloseRefines, ZenonT(20)
<1>4. CASE UNCHANGED pvars
  BY <1>4, Stays, ZenonT(20)
<1>5. ASSUME NEW p \in Procs, PipeWrite(p) \/ PipeRead(p) \/ Kill(p) PROVE UNCHANGED pvars
  BY <1>5, ZenonT(20) DEF PipeWrite, PipeRead, Kill, Start
<1>6. ASSUME NEW p \in Procs,
             \/ WriteTest(p) \/ WriteSleep(p) \/ WriteEnd(p) \/ ReadTest(p)
             \/ ReadSleep(p) \/ ReadEnd(p) \/ Reacquire(p)
      PROVE  UNCHANGED pvars
  BY <1>6, ZenonT(20) DEF WriteTest, WriteSleep, WriteEnd, ReadTest, ReadSleep, ReadEnd, Reacquire
<1>7. CASE UNCHANGED vars
  BY <1>4, <1>7, ZenonT(20) DEF vars
<1> QED BY ZenonT(40), <1>2, <1>3, <1>4, <1>5, <1>6, <1>7 DEF Next, CallStep, Procs

LEMMA InitRefines == Init => Fits /\ Promise!Init
<1> SUFFICES ASSUME Init PROVE Fits /\ Promise!Init
  OBVIOUS
<1>1. TypeOK
  BY PipeInit, ZenonT(20) DEF PipeInv
<1>2. Length = 0
  BY <1>1, LengthIs, ZenonT(20) DEF Init, Empty
<1>3. Queue = <<>>
  BY <1>2 DEF Queue
<1> QED BY <1>2, <1>3, PipeSizes DEF Init, Fits, Promise!Init

\* A pipe is a bounded queue, for any size of the buffer and any width of the
\* counters that the size divides: what piperead takes out is what pipewrite put
\* in, in order, across the wraps of nread, nwrite and the buffer.
THEOREM PipeIsFifo == Spec => FifoSpec
<1>1. Spec => []Fits
  BY PipeAlways, InitRefines, StepRefines, PTL DEF Spec
<1>2. PipeInv /\ Fits /\ [Next]_vars => [Promise!Next]_(Promise!qvars)
  BY StepRefines DEF Step
<1> QED BY <1>1, <1>2, PipeAlways, InitRefines, PTL DEF Spec, FifoSpec, Promise!Spec

=============================================================================
