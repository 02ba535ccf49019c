----------------------------- MODULE MCLiveness -----------------------------
(***************************************************************************)
(* What must happen in the kernel, in the end, for TLC: the log, processes,*)
(* the disk driver and the UART with the fairness of their processes and   *)
(* devices.  A behaviour is one of a single part, and the variables of the *)
(* other parts are Off; those of the log keep their first values.          *)
(* Processes are interchangeable in all parts but procs: what is stated of *)
(* p1 holds of each.                                                       *)
(***************************************************************************)
EXTENDS Log

CONSTANTS p1, p2, d1, d2, c1, Handler, Echo

VARIABLES part,
          state, chan, killed, pid, parent, nextpid, owner, cproc, mode, next, spinning, ppc, at, arg, ppanic,  \* Proc
          free, vnext, ops, info, avail, availIdx, used, usedIdx, used_idx, devIdx, held, isr, intr,            \* VirtioDisk
          vdisk, vdata, bdisk, vpc, idx, vpanic, calls,
          uart_tx_buf, uart_tx_w, uart_tx_r, lock, fifo, thri, upc, c                                          \* Uart

Procs3 == INSTANCE Proc WITH NPROC <- 3, CPUs <- {c1}, MaxPid <- 3, KillPids <- {}, pc <- ppc, panicked <- ppanic
Disk == INSTANCE VirtioDisk WITH Procs <- {p1, p2}, Vals <- {d1}, NUM <- 4, WIDTH <- 65536, START <- 65534,
            MaxCalls <- 5, next <- vnext, disk <- vdisk, data <- vdata, pc <- vpc, panic <- vpanic
Uart0 == INSTANCE Uart WITH Writers <- {p1, p2}, Echoers <- {}, Bytes <- {d1, d2}, UART_TX_BUF_SIZE <- 2, FIFO <- 1,
             WIDTH <- 4, Intr <- Handler, pc <- upc

ASSUME Sizes == Disk!RingSizes /\ Uart0!UartSizes

procs == <<state, chan, killed, pid, parent, nextpid, owner, cproc, mode, next, spinning, ppc, at, arg, ppanic>>
virtio == <<free, vnext, ops, info, avail, availIdx, used, usedIdx, used_idx, devIdx, held, isr, intr, vdisk, vdata,
            bdisk, vpc, idx, vpanic, calls>>
uart == <<uart_tx_buf, uart_tx_w, uart_tx_r, lock, fifo, thri, upc, c>>
all == <<part, vars, procs, virtio, uart>>

Off == 0
NoProcs == /\ state = Off /\ chan = Off /\ killed = Off /\ pid = Off /\ parent = Off /\ nextpid = Off /\ owner = Off
           /\ cproc = Off /\ mode = Off /\ next = Off /\ spinning = Off /\ ppc = Off /\ at = Off /\ arg = Off
           /\ ppanic = Off
NoVirtio == /\ free = Off /\ vnext = Off /\ ops = Off /\ info = Off /\ avail = Off /\ availIdx = Off /\ used = Off
            /\ usedIdx = Off /\ used_idx = Off /\ devIdx = Off /\ held = Off /\ isr = Off /\ intr = Off /\ vdisk = Off
            /\ vdata = Off /\ bdisk = Off /\ vpc = Off /\ idx = Off /\ vpanic = Off /\ calls = Off
NoUart == /\ uart_tx_buf = Off /\ uart_tx_w = Off /\ uart_tx_r = Off /\ lock = Off /\ fifo = Off /\ thri = Off
          /\ upc = Off /\ c = Off

LiveInit == \/ part = "log" /\ Init /\ NoProcs /\ NoVirtio /\ NoUart
            \/ part = "procs" /\ Procs3!Init /\ Init /\ NoVirtio /\ NoUart
            \/ part = "virtio" /\ Disk!Init /\ Init /\ NoProcs /\ NoUart
            \/ part = "uart" /\ Uart0!Init /\ Init /\ NoProcs /\ NoVirtio
LiveNext == \/ part = "log" /\ Next /\ UNCHANGED <<part, procs, virtio, uart>>
            \/ part = "procs" /\ Procs3!Next /\ UNCHANGED <<part, vars, virtio, uart>>
            \/ part = "virtio" /\ Disk!Next /\ UNCHANGED <<part, vars, procs, uart>>
            \/ part = "uart" /\ Uart0!Next /\ UNCHANGED <<part, vars, procs, virtio>>

\* Fairness.  The part never changes, so that fairness of a disjunction of
\* steps of different parts is the fairness of each in its own part.
\* A process goes on: in end_op, in virtio_disk_rw, in uartputc.
Goes(p) == \/ part = "log" /\ EndOpStep(p)
           \/ part = "virtio" /\ (Disk!Submit(p) \/ Disk!Finish(p))
           \/ part = "uart" /\ (Uart0!Step(p) \/ Uart0!Uartputc(p))
\* Boot, the scheduler and the devices go on; every completion is announced and
\* every interrupt taken in the end.
Works == \/ part = "log" /\ Recovery
         \/ part = "procs" /\ ~ppanic /\ Procs3!Scheduler(c1)
         \/ part = "virtio" /\ Disk!Fetch
         \/ part = "uart" /\ Uart0!Transmit
Completes == \/ part = "virtio" /\ \E d \in 0..3 : Disk!Complete(d)
             \/ part = "uart" /\ thri /\ Uart0!Interrupt
Handles == \/ part = "virtio" /\ Disk!Intr
           \/ part = "uart" /\ (Uart0!Uartintr \/ Uart0!Step(Handler))
\* A process that is given the CPU again and again gets to its next lock before
\* the next interrupt, and gets a lock that is released again and again.
Gets(k) == part = "procs" /\ (Procs3!KernelStep(c1, k) \/ Procs3!Spin(c1, k))
\* The timer interrupts user code, and init.c keeps calling wait while it has
\* children.
Ticks == part = "procs" /\ \E p \in Procs3!Slots : Procs3!UserTimer(c1, p)
Waits == part = "procs" /\ Procs3!SysWait(c1, Procs3!initproc)

Moving == CASE part = "log" -> vars [] part = "procs" -> procs [] part = "virtio" -> virtio
            [] part = "uart" -> uart
LiveSpec == /\ LiveInit /\ [][LiveNext]_all
            /\ \A p \in {p1, p2} : WF_Moving(Goes(p) /\ UNCHANGED part)
            /\ WF_Moving(Works /\ UNCHANGED part)
            /\ WF_Moving(Completes /\ UNCHANGED part)
            /\ WF_Moving(Handles /\ UNCHANGED part)
            /\ \A k \in 1..3 : SF_Moving(Gets(k) /\ UNCHANGED part)
            /\ SF_Moving(Ticks /\ UNCHANGED part) /\ SF_Moving(Waits /\ UNCHANGED part)

-----------------------------------------------------------------------------

\* A begin_op that found a commit under way or the log full is woken, unless
\* the machine crashes, which ends its sleep too: commits and recoveries end.
SleeperWoken == (part = "log" /\ pc[p1] = "asleep") ~> (part = "log" /\ boot = "up" /\ pc[p1] # "asleep")

\* A zombie whose parent is init is freed, unless a fork of init fails, after
\* which init.c exits and panics: reparent wakes init, which does not miss it
\* between its scan of the table and its sleep, and the scheduler does not pass
\* init by.
OrphansReaped == \A q \in 2..3 : (part = "procs" /\ state[q] = "ZOMBIE" /\ parent[q] = Procs3!initproc)
                                     ~> (part = "procs" /\ (state[q] = "UNUSED" \/ ppc[Procs3!initproc] = "panic"))

\* The devices are used to the end: a call of virtio_disk_rw that has its
\* descriptors returns, one that sleeps for descriptors is woken, as many as may
\* sleep and whoever took them first, and the oldest byte of the transmit ring leaves it, by
\* interrupts alone, also where the counters wrap.
DevicesServe == /\ (part = "virtio" /\ Disk!Busy(p1)) ~> (part = "virtio" /\ vpc[p1] = "idle")
                /\ (part = "virtio" /\ vpc[p1] = "sleep_free") ~> (part = "virtio" /\ vpc[p1] # "sleep_free")
                /\ (part = "uart" /\ uart_tx_r = 3 /\ uart_tx_w # 3) ~> (part = "uart" /\ uart_tx_r = 0)
=============================================================================
