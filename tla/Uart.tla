-------------------------------- MODULE Uart --------------------------------
(***************************************************************************)
(* Output to the UART, kernel/uart.c, and consolewrite of kernel/console.c *)
(* which feeds it.  Writers put bytes into the ring uart_tx_buf under      *)
(* uart_tx_lock; uartstart, run by them and by the interrupt handler,      *)
(* moves them to the device; uartputc_sync goes to the device directly,    *)
(* with no lock.  The device has a FIFO (uartinit enables it), reports     *)
(* LSR_TX_IDLE when it is empty, and interrupts when it becomes empty.     *)
(***************************************************************************)
EXTENDS Integers, Sequences

CONSTANTS Writers, Echoers,          \* processes in uartputc, harts in uartputc_sync
          Intr,                      \* the interrupt handler
          Bytes, Echo,               \* bytes of the writers, of uartputc_sync
          UART_TX_BUF_SIZE, FIFO,    \* sizes of the ring and of the device's FIFO
          WIDTH, None

\* What the constants have to satisfy.
UartSizes == /\ UART_TX_BUF_SIZE \in Nat \ {0} /\ FIFO \in Nat
             /\ WIDTH \in Nat /\ WIDTH > UART_TX_BUF_SIZE /\ WIDTH % UART_TX_BUF_SIZE = 0

VARIABLES uart_tx_buf, uart_tx_w, uart_tx_r,
          lock,         \* the holder of uart_tx_lock, or None
          fifo, thri,   \* the device: bytes to send, transmit interrupt
          pc, c         \* thread -> its place and its character

tx == <<uart_tx_buf, uart_tx_w, uart_tx_r>>
vars == <<tx, lock, fifo, thri, pc, c>>
Threads == Writers \cup Echoers \cup {Intr}

Init == /\ uart_tx_buf = [s \in 0..UART_TX_BUF_SIZE - 1 |-> None] /\ uart_tx_w = 0 /\ uart_tx_r = 0
        /\ lock = None /\ fifo = <<>> /\ thri = FALSE
        /\ pc = [t \in Threads |-> "idle"] /\ c = [t \in Threads |-> None]

Goto(t, l) == pc' = [pc EXCEPT ![t] = l]

\* Mutant: the ring takes one byte too many.
FullOffByOne == uart_tx_w = (uart_tx_r + UART_TX_BUF_SIZE + 1) % WIDTH
Full == uart_tx_w = (uart_tx_r + UART_TX_BUF_SIZE) % WIDTH

\* consolewrite: the next byte of a write.
Consolewrite(p) ==
    /\ pc[p] = "idle"
    /\ \E b \in Bytes : c' = [c EXCEPT ![p] = b]
    /\ Goto(p, "put")
    /\ UNCHANGED <<tx, lock, fifo, thri>>

\* uartputc, to the call of uartstart, or to the sleep.
Uartputc(p) ==
    /\ pc[p] = "put" /\ lock = None
    /\ IF Full THEN Goto(p, "sleep") /\ UNCHANGED <<tx, lock, c>>
       ELSE /\ uart_tx_buf' = [uart_tx_buf EXCEPT ![uart_tx_w % UART_TX_BUF_SIZE] = c[p]]
            /\ uart_tx_w' = (uart_tx_w + 1) % WIDTH
            /\ lock' = p /\ Goto(p, "start") /\ c' = [c EXCEPT ![p] = None]
            /\ UNCHANGED uart_tx_r
    /\ UNCHANGED <<fifo, thri>>

\* kill makes the sleeper runnable.
Kill(p) == pc[p] = "sleep" /\ Goto(p, "put") /\ UNCHANGED <<tx, lock, fifo, thri, c>>

\* wakeup(&uart_tx_r); t goes on at l.
Wakeup(t, l) == pc' = [q \in Threads |-> IF q = t THEN l ELSE IF pc[q] = "sleep" THEN "put" ELSE pc[q]]

\* One turn of uartstart's loop, to the write of THR, or the return and the
\* release that follows it.
Uartstart(t) ==
    /\ pc[t] = "start"
    /\ IF uart_tx_w = uart_tx_r
       THEN thri' = FALSE /\ lock' = None /\ Goto(t, "idle") /\ UNCHANGED <<tx, c>>
       ELSE IF fifo # <<>>
       THEN lock' = None /\ Goto(t, "idle") /\ UNCHANGED <<tx, c, thri>>
       ELSE /\ c' = [c EXCEPT ![t] = uart_tx_buf[uart_tx_r % UART_TX_BUF_SIZE]]
            /\ uart_tx_r' = (uart_tx_r + 1) % WIDTH
            /\ Wakeup(t, "thr")
            /\ UNCHANGED <<uart_tx_buf, uart_tx_w, lock, thri>>
    /\ UNCHANGED fifo

\* WriteReg(THR, c), in uartstart and in uartputc_sync.
WriteThr(t) ==
    /\ pc[t] \in {"thr", "sync_thr"}
    /\ fifo' = Append(fifo, c[t])
    /\ thri' = FALSE
    /\ c' = [c EXCEPT ![t] = None]
    /\ Goto(t, IF pc[t] = "thr" THEN "start" ELSE "idle")
    /\ UNCHANGED <<tx, lock>>

TxIdle == fifo = <<>>
\* uartputc_sync (kernel printf, and consputc for the echo): the call, and
\* the end of its wait.
Sync(s) ==
    /\ pc[s] = "idle" /\ Goto(s, "sync")
    /\ c' = [c EXCEPT ![s] = Echo]
    /\ UNCHANGED <<tx, lock, fifo, thri>>
SyncIdle(s) == pc[s] = "sync" /\ TxIdle /\ Goto(s, "sync_thr") /\ UNCHANGED <<tx, lock, fifo, thri, c>>

\* uartintr: for output or for input (whose echo is a Sync), then the lock.
Interrupt == pc[Intr] = "idle" /\ Goto(Intr, "intr") /\ UNCHANGED <<tx, lock, fifo, thri, c>>
Uartintr == /\ pc[Intr] = "intr" /\ lock = None
            /\ lock' = Intr /\ Goto(Intr, "start")
            /\ UNCHANGED <<tx, fifo, thri, c>>

\* The device sends a byte.
Transmit == /\ fifo # <<>>
            /\ fifo' = Tail(fifo)
            /\ thri' = (thri \/ fifo' = <<>>)
            /\ UNCHANGED <<tx, lock, pc, c>>

Step(t) == Uartstart(t) \/ WriteThr(t)
Next == \/ \E p \in Writers : Consolewrite(p) \/ Uartputc(p) \/ Kill(p)
        \/ \E s \in Echoers : Sync(s) \/ SyncIdle(s)
        \/ \E t \in Threads : Step(t)
        \/ Interrupt \/ Uartintr \/ Transmit
Spec == Init /\ [][Next]_vars

-----------------------------------------------------------------------------

Pending == [i \in 1..(uart_tx_w - uart_tx_r) % WIDTH |-> uart_tx_buf[(uart_tx_r + i - 1) % UART_TX_BUF_SIZE]]
InHand == IF lock # None /\ pc[lock] = "thr" THEN <<c[lock]>> ELSE <<>>
OnTheWire == SelectSeq(fifo, LAMBDA x : x # Echo)
Queue == INSTANCE Fifo WITH queue <- OnTheWire \o InHand \o Pending, readable <- TRUE, writable <- TRUE,
                            Capacity <- UART_TX_BUF_SIZE + 1 + FIFO

\* Although uartputc_sync and uartstart test LSR_TX_IDLE without a common lock
\* the FIFO of the device never has to take more than it holds: one byte for
\* each hart that found it idle and one for the holder of uart_tx_lock.
NoOverrun == Len(fifo) <= FIFO

\* A writer sleeps in uartputc only while the ring is full.
NoLostWakeup == \A p \in Writers : pc[p] = "sleep" => Full
=============================================================================
