----------------------------- MODULE MCDevices ------------------------------
(***************************************************************************)
(* The drivers and the trap code for TLC.  They share no state at this     *)
(* level, so a behaviour is one of a single part, and the variables of the *)
(* other parts are Off; those of the disk keep their first values.         *)
(***************************************************************************)
EXTENDS VirtioDisk, TLC

CONSTANTS p1, p2, p3, v1, v2, u1, u2, a, e1, e2, Handler, Echo, NL, CtrlD, Tick

VARIABLES part,
          cbuf, r, w, e, clock, cpc, n, got, killed,                                    \* Console
          uart_tx_buf, uart_tx_w, uart_tx_r, ulock, fifo, thri, upc, c,                 \* Uart
          reg, cpu, lk, code, state, tf, want, sys, tpanic                              \* Trap

Symmetry == Permutations({p1, p2, p3}) \cup Permutations({v1, v2}) \cup Permutations({u1, u2})

\* A ring of two characters, whose indices wrap every second time round.
Input == INSTANCE Console WITH Readers <- {p1, p2}, Letters <- {a}, INPUT_BUF_SIZE <- 2, WIDTH <- 4,
            MaxCount <- 2, buf <- cbuf, lock <- clock, pc <- cpc
\* Two writers, two harts that echo, a ring of two bytes.
Output == INSTANCE Uart WITH Writers <- {p1, p2}, Echoers <- {e1, e2}, Bytes <- {u1, u2},
            UART_TX_BUF_SIZE <- 2, FIFO <- 3, WIDTH <- 4, Intr <- Handler,
            lock <- ulock, pc <- upc
\* One process that moves between two harts, two processes that share one.
Move == INSTANCE Trap WITH Harts <- {0, 1}, Procs <- {2}, panic <- tpanic
Share == INSTANCE Trap WITH Harts <- {0}, Procs <- {2, 3}, panic <- tpanic

ASSUME Sizes == /\ RingSizes /\ Input!ConsoleSizes /\ Output!UartSizes
                /\ Move!Numbers /\ Share!Numbers

input == <<cbuf, r, w, e, clock, cpc, n, got, killed>>
output == <<uart_tx_buf, uart_tx_w, uart_tx_r, ulock, fifo, thri, upc, c>>
trap == <<reg, cpu, lk, code, state, tf, want, sys, tpanic>>
all == <<part, vars, input, output, trap>>

Off == 0
NoDisk == Init /\ disk = [p \in Procs |-> CHOOSE v \in Vals : TRUE] /\ data = disk
NoInput == /\ cbuf = Off /\ r = Off /\ w = Off /\ e = Off /\ clock = Off /\ cpc = Off /\ n = Off
           /\ got = Off /\ killed = Off
NoOutput == /\ uart_tx_buf = Off /\ uart_tx_w = Off /\ uart_tx_r = Off /\ ulock = Off /\ fifo = Off
            /\ thri = Off /\ upc = Off /\ c = Off
NoTrap == /\ reg = Off /\ cpu = Off /\ lk = Off /\ code = Off /\ state = Off /\ tf = Off /\ want = Off
          /\ sys = Off /\ tpanic = Off

DevInit ==
    \/ part = "disk" /\ Init /\ NoInput /\ NoOutput /\ NoTrap
    \/ part = "input" /\ Input!Init /\ NoDisk /\ NoOutput /\ NoTrap
    \/ part = "output" /\ Output!Init /\ NoDisk /\ NoInput /\ NoTrap
    \/ part = "move" /\ Move!Init /\ NoDisk /\ NoInput /\ NoOutput
    \/ part = "share" /\ Share!Init /\ NoDisk /\ NoInput /\ NoOutput

DevNext ==
    \/ part = "disk" /\ Next /\ UNCHANGED <<part, input, output, trap>>
    \/ part = "input" /\ Input!Next /\ UNCHANGED <<part, vars, output, trap>>
    \/ part = "output" /\ Output!Next /\ UNCHANGED <<part, vars, input, trap>>
    \/ part = "move" /\ Move!Next /\ UNCHANGED <<part, vars, input, output>>
    \/ part = "share" /\ Share!Next /\ UNCHANGED <<part, vars, input, output>>
DevSpec == DevInit /\ [][DevNext]_all

-----------------------------------------------------------------------------

\* The console ring is a line editor: characters are read in the order typed,
\* each once, and only from completed lines, whatever wraps; and consoleread
\* sleeps only while there is nothing to read.
ConsoleIsLineEditor == /\ part = "input" => Input!Line!Init
                       /\ [][part = "input" => [Input!Line!Next]_(Input!Line!lvars)]_all
                       /\ [](part = "input" => Input!NoLostWakeup)

\* Bytes given to uartputc leave the device in that order, each once, whoever
\* runs uartstart and whatever uartputc_sync sends in between; although
\* the two test LSR_TX_IDLE without a common lock, the FIFO of the device
\* always has room for what they write; and uartputc sleeps only while the
\* transmit ring has no room.
UartIsFifo == /\ part = "output" => Output!Queue!Init
              /\ [][part = "output" => [Output!Queue!Put \/ Output!Queue!Get]_(Output!Queue!qvars)]_all
              /\ [](part = "output" => Output!NoOverrun /\ Output!NoLostWakeup)

\* A trap leaves what it interrupted as it was: it comes through the vector of
\* its mode, its sret continues exactly where it was taken, although other
\* threads trapped on the hart in between or the thread moved, and a system
\* call that holds no lock has interrupts on, wherever it woke up.  On the way
\* no panic of acquire, release, pop_off, sched or the trap handlers is reached.
TrapsReturn == /\ part = "move" => Move!VectorMatchesMode /\ Move!SretRight /\ Move!InterruptsRestored /\ Move!NoPanic
               /\ part = "share" => Share!SretRight /\ Share!InterruptsRestored /\ Share!NoPanic
=============================================================================
