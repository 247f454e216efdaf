---------------------------- MODULE SerialDevice ----------------------------
(***************************************************************************)
(* A serial device over one UART of the LPC4337: a task that reads, a task *)
(* that writes, the UART's ISR, two ring buffers, and one slot for a       *)
(* blocked task, which the device wakes with the event POSIXE.             *)
(*                                                                         *)
(* Bytes are numbered as they enter a ring, from 1, so that a repeated or  *)
(* misplaced one shows; the driver's own buffer is a count of bytes, which *)
(* it hands over in the order they came.  By the refinement of CircBuf a   *)
(* Put takes effect with the tail; here it is one step.  An update of the  *)
(* register IER is two: a load and a store.  The peer sends at will.       *)
(***************************************************************************)
EXTENDS Integers, Sequences, FiniteSets

CONSTANTS
  NBytes,              \* the bytes of each ring, 256 in the code
  UART_RX_FIFO_SIZE,   \* the bytes of hwbuf
  Reader, Writer,      \* the tasks that call read and write
  Higher,              \* those that preempt the other; both: in either order
  ReadLengths, WriteLengths,  \* what they ask for
  LineFast             \* the transmitter may empty while the ISR runs

Tasks == {Reader, Writer}
Isr == "isr"
NoTask == 255
Byte == 0 .. NBytes - 1

ASSUME SerialAssumption ==
  /\ NBytes \in Nat /\ NBytes > 3
  /\ UART_RX_FIFO_SIZE \in Nat \ {0}
  /\ Reader # Writer /\ Isr \notin Tasks /\ NoTask \notin Tasks
  /\ Higher \subseteq Tasks
  /\ ReadLengths \subseteq Nat \ {0} /\ WriteLengths \subseteq Nat \ {0}
  /\ LineFast \in BOOLEAN

VARIABLES
  rx, tx,    \* rxBuf and txBuf: buf, head and tail
  rxcnt,     \* how many bytes uartControl.hwbuf holds
  ier,       \* which interrupts the register IER of the UART enables
  thre,      \* the bit THRE of its line status
  blocked,   \* the slot for a blocked task: taskID and fct
  event,     \* whether POSIXE is set, for each task
  pc,        \* where each task and the ISR stand
  loaded,    \* the IER each task is about to store
  rd, wr,    \* locals of read, and of write
  conf,      \* locals of txConfirmation, in the writer and in the ISR
  received, delivered,  \* the next byte to enter rxBuf, and the next to be read
  written, sent         \* the next byte to be written, and the last one sent

rxVars == <<rx, rxcnt, rd, received, delivered>>
txVars == <<tx, wr, conf, written, sent>>
wakeVars == <<blocked, event>>
vars == <<rxVars, txVars, wakeVars, ier, thre, pc, loaded>>

Rx == INSTANCE CircBuf WITH buf <- rx.buf, head <- rx.head, tail <- rx.tail,
        put <- 0, get <- 0, got <- 0, Blocks <- {}, GetLengths <- {}
Tx == INSTANCE CircBuf WITH buf <- tx.buf, head <- tx.head, tail <- tx.tail,
        put <- 0, get <- 0, got <- 0, Blocks <- {}, GetLengths <- {}

Index == Rx!Index
Min(m, n) == IF m < n THEN m ELSE n
Ring == [buf : [Index -> Byte], head : Index, tail : Index]
Line(t) == IF t = Reader THEN "rx" ELSE "tx"

BlockPCs == {"block", "rxtxoff", "taskid", "fct", "unblock", "rxtxon", "wait", "clear"}
ConfPCs == {"confirm", "send", "more", "wake"}

TypeOK ==
  /\ rx \in Ring /\ tx \in Ring
  /\ rxcnt \in 0 .. UART_RX_FIFO_SIZE
  /\ ier \in [{"rx", "tx"} -> BOOLEAN] /\ thre \in BOOLEAN
  /\ blocked \in [taskID : Tasks \cup {NoTask}, fct : {"none", "read", "write"}]
  /\ event \in [Tasks -> BOOLEAN]
  /\ pc[Reader] \in {"app", "get", "copy", "update"} \cup BlockPCs
  /\ pc[Writer] \in {"app", "space", "put", "starttx", "txoff", "txdone", "txon"}
                    \cup ConfPCs \cup BlockPCs
  /\ pc[Isr] \in {"app", "check"} \cup ConfPCs
  /\ loaded \in [Tasks -> [{"rx", "tx"} -> BOOLEAN]]
  /\ rd \in [nbyte : Nat, raw : Nat, data : Seq(Byte)]
  /\ wr \in [left : Nat, space : Nat]
  /\ conf \in [{Writer, Isr} -> [task : Tasks \cup {NoTask}, tail : Index, raw : Nat,
                                 count : Nat, write : Nat, first : BOOLEAN]]
  /\ {received, delivered, written, sent} \subseteq Byte

EmptyRing == [buf |-> [i \in Index |-> 0], head |-> 0, tail |-> 0]
NoneEnabled == [l \in {"rx", "tx"} |-> FALSE]
NotReading == [nbyte |-> 0, raw |-> 0, data |-> <<>>]
NotConfirming == [task |-> NoTask, tail |-> 0, raw |-> 0, count |-> 0, write |-> 0, first |-> TRUE]

\* The port is open: the receive interrupt is enabled.
Init ==
  /\ rx = EmptyRing /\ tx = EmptyRing
  /\ rxcnt = 0
  /\ ier = [l \in {"rx", "tx"} |-> l = "rx"] /\ thre = TRUE
  /\ blocked = [taskID |-> NoTask, fct |-> "none"]
  /\ event = [t \in Tasks |-> FALSE]
  /\ pc = [c \in Tasks \cup {Isr} |-> "app"]
  /\ loaded = [t \in Tasks |-> NoneEnabled]
  /\ rd = NotReading /\ wr = [left |-> 0, space |-> 0]
  /\ conf = [c \in {Writer, Isr} |-> NotConfirming]
  /\ received = 1 /\ delivered = 1 /\ written = 1 /\ sent = 0

(***************************************************************************)
(* Who runs                                                                *)
(***************************************************************************)
Idle(t) == pc[t] = "app" \/ (pc[t] = "wait" /\ ~event[t])
At(t, place) ==
  /\ pc[Isr] = "app" /\ pc[t] = place
  /\ t \in Higher \/ \A u \in Tasks \ {t} : Idle(u)
Goto(c, place) == pc' = [pc EXCEPT ![c] = place]

\* IER |= or IER &= ~, as one context's load and store.
IerLoad(t, from, line, value, to) ==
  /\ At(t, from)
  /\ loaded' = [loaded EXCEPT ![t] = [ier EXCEPT ![line] = value]]
  /\ Goto(t, to)
  /\ UNCHANGED <<rxVars, txVars, wakeVars, ier, thre>>

IerStore(t, from, to) ==
  /\ At(t, from)
  /\ ier' = loaded[t]
  /\ loaded' = [loaded EXCEPT ![t] = NoneEnabled]
  /\ Goto(t, to)
  /\ UNCHANGED <<rxVars, txVars, wakeVars, thre>>

(***************************************************************************)
(* Blocking, alike in read and in write                                    *)
(***************************************************************************)
BlockIrqOff(t) ==
  \/ IerLoad(t, "block", Line(t), FALSE, "rxtxoff")
  \/ IerStore(t, "rxtxoff", "taskid")

BlockTaskID(t) ==
  /\ At(t, "taskid")
  /\ blocked' = [blocked EXCEPT !.taskID = t]
  /\ Goto(t, "fct")
  /\ UNCHANGED <<rxVars, txVars, event, ier, thre, loaded>>

BlockFct(t) ==
  /\ At(t, "fct")
  /\ blocked' = [blocked EXCEPT !.fct = IF t = Reader THEN "read" ELSE "write"]
  /\ Goto(t, "unblock")
  /\ UNCHANGED <<rxVars, txVars, event, ier, thre, loaded>>

BlockIrqOn(t) ==
  \/ IerLoad(t, "unblock", Line(t), TRUE, "rxtxon")
  \/ IerStore(t, "rxtxon", "wait")

WaitEvent(t) ==
  /\ At(t, "wait") /\ event[t]
  /\ Goto(t, "clear")
  /\ UNCHANGED <<rxVars, txVars, wakeVars, ier, thre, loaded>>

\* The reader takes what there is without a look whether there is any; the
\* writer tries again.
ClearEvent(t) ==
  /\ At(t, "clear")
  /\ event' = [event EXCEPT ![t] = FALSE]
  /\ Goto(t, IF t = Reader THEN "get" ELSE "space")
  /\ UNCHANGED <<rxVars, txVars, blocked, ier, thre, loaded>>

Block(t) == BlockIrqOff(t) \/ BlockTaskID(t) \/ BlockFct(t) \/ BlockIrqOn(t)
              \/ WaitEvent(t) \/ ClearEvent(t)

(***************************************************************************)
(* ciaaSerialDevices_read                                                  *)
(***************************************************************************)
\* With nothing to read it blocks, or, in the non blocking mode, returns EAGAIN.
Read(nbyte) ==
  /\ At(Reader, "app")
  /\ rd' = [NotReading EXCEPT !.nbyte = nbyte]
  /\ Goto(Reader, IF rx.tail # rx.head THEN "get" ELSE "block")
  /\ UNCHANGED <<rx, rxcnt, received, delivered, txVars, wakeVars, ier, thre, loaded>>

ReadAgain ==
  /\ At(Reader, "app") /\ rx.tail = rx.head
  /\ UNCHANGED vars

\* The tail is looked at once, when the lengths are set.
Get ==
  LET n == Min(rd.nbyte, Rx!Count(rx.tail))
  IN /\ At(Reader, "get")
     /\ rd' = [rd EXCEPT !.nbyte = n, !.raw = Min(n, Rx!RawCount(rx.tail))]
     /\ Goto(Reader, IF n = 0 THEN "app" ELSE "copy")
     /\ UNCHANGED <<rx, rxcnt, received, delivered, txVars, wakeVars, ier, thre, loaded>>

GetCopy ==
  /\ At(Reader, "copy")
  /\ rd' = [rd EXCEPT !.raw = 0,
              !.data = Rx!CopiedOut(rx.head, rd.raw) \o Rx!CopiedOut(0, rd.nbyte - rd.raw)]
  /\ Goto(Reader, "update")
  /\ UNCHANGED <<rx, rxcnt, received, delivered, txVars, wakeVars, ier, thre, loaded>>

\* Fault: the head goes to the tail as it is by now.
GetUpdateHeadToTail ==
  /\ At(Reader, "update")
  /\ rx' = [rx EXCEPT !.head = rx.tail]
  /\ delivered' = (delivered + rd.nbyte) % NBytes
  /\ rd' = NotReading
  /\ Goto(Reader, "app")
  /\ UNCHANGED <<rxcnt, received, txVars, wakeVars, ier, thre, loaded>>

GetUpdateHead ==
  /\ At(Reader, "update")
  /\ rx' = [rx EXCEPT !.head = (@ + rd.nbyte) % NBytes]
  /\ delivered' = (delivered + rd.nbyte) % NBytes
  /\ rd' = NotReading
  /\ Goto(Reader, "app")
  /\ UNCHANGED <<rxcnt, received, txVars, wakeVars, ier, thre, loaded>>

(***************************************************************************)
(* ciaaSerialDevices_write                                                 *)
(***************************************************************************)
Write(nbyte) ==
  /\ At(Writer, "app")
  /\ wr' = [left |-> nbyte, space |-> 0]
  /\ Goto(Writer, "space")
  /\ UNCHANGED <<rxVars, tx, conf, written, sent, wakeVars, ier, thre, loaded>>

WriteSpace ==
  /\ At(Writer, "space")
  /\ wr' = [wr EXCEPT !.space = Tx!Space(tx.head)]
  /\ Goto(Writer, "put")
  /\ UNCHANGED <<rxVars, tx, conf, written, sent, wakeVars, ier, thre, loaded>>

WritePut ==
  LET n == Min(wr.left, wr.space)
      put == [i \in Index |-> IF (i - tx.tail) % NBytes < n
                THEN (written + ((i - tx.tail) % NBytes)) % NBytes ELSE tx.buf[i]]
  IN /\ At(Writer, "put")
     /\ tx' = [tx EXCEPT !.buf = put, !.tail = (@ + n) % NBytes]
     /\ written' = (written + n) % NBytes
     /\ wr' = [left |-> wr.left - n, space |-> 0]
     /\ Goto(Writer, "starttx")
     /\ UNCHANGED <<rxVars, conf, sent, wakeVars, ier, thre, loaded>>

\* Fault: the transmit interrupt stays enabled during the confirmation.
StartTxIrqLeftOn == At(Writer, "starttx") /\ Goto(Writer, "confirm")
                      /\ UNCHANGED <<rxVars, txVars, wakeVars, ier, thre, loaded>>

\* ciaaPOSIX_IOCTL_STARTTX: the confirmation with the THRE interrupt disabled.
StartTx ==
  \/ IerLoad(Writer, "starttx", "tx", FALSE, "txoff")
  \/ IerStore(Writer, "txoff", "confirm")

StartTxEnd ==
  \/ IerLoad(Writer, "txdone", "tx", TRUE, "txon")
  \/ IerStore(Writer, "txon", IF wr.left > 0 THEN "block" ELSE "app")

(***************************************************************************)
(* ciaaSerialDevices_txConfirmation, in context c                          *)
(***************************************************************************)
Runs(c, place) == IF c = Isr THEN pc[Isr] = place ELSE At(c, place)
Confirmed(c) == Goto(c, IF c = Isr THEN "check" ELSE "txdone")

Confirm(c) ==
  LET count == Tx!Count(tx.tail)
  IN /\ Runs(c, "confirm")
     /\ IF count > 0
          THEN /\ conf' = [conf EXCEPT ![c] =
                    [task |-> blocked.taskID, tail |-> tx.tail, raw |-> Tx!RawCount(tx.tail),
                     count |-> count, write |-> 0, first |-> TRUE]]
               /\ Goto(c, "send")
          ELSE Confirmed(c) /\ UNCHANGED conf
     /\ UNCHANGED <<rxVars, tx, wr, written, sent, wakeVars, ier, thre, loaded>>

\* ciaaDriverUart_write: bytes are sent while THRE is set; a byte that goes
\* straight to the shift register leaves it set.
Sending(c) == thre /\ conf[c].write < conf[c].raw

SendByte(c) ==
  /\ Runs(c, "send") /\ Sending(c)
  /\ sent' = tx.buf[(tx.head + conf[c].write) % NBytes]
  /\ conf' = [conf EXCEPT ![c].write = @ + 1]
  /\ thre' \in BOOLEAN
  /\ UNCHANGED <<rxVars, tx, wr, written, wakeVars, ier, pc, loaded>>

\* Fault: the bytes after the wrap are left to the next confirmation.
SendEndFirstPiece(c) ==
  /\ Runs(c, "send") /\ ~Sending(c)
  /\ tx' = [tx EXCEPT !.head = (@ + conf[c].write) % NBytes]
  /\ Goto(c, "wake")
  /\ UNCHANGED <<rxVars, wr, conf, written, sent, wakeVars, ier, thre, loaded>>

\* Fault: the head is not taken back to the start of the ring.
SendEndNoWrap(c) ==
  /\ Runs(c, "send") /\ ~Sending(c)
  /\ tx' = [tx EXCEPT !.head = @ + conf[c].write]
  /\ Goto(c, "wake")
  /\ UNCHANGED <<rxVars, wr, conf, written, sent, wakeVars, ier, thre, loaded>>

\* What is left to do needs only the task that was in the slot.
SendEnd(c) ==
  LET more == conf[c].first /\ conf[c].write = conf[c].raw /\ conf[c].count > conf[c].raw
  IN /\ Runs(c, "send") /\ ~Sending(c)
     /\ tx' = [tx EXCEPT !.head = (@ + conf[c].write) % NBytes]
     /\ conf' = IF more THEN conf
                ELSE [conf EXCEPT ![c] = [NotConfirming EXCEPT !.task = conf[c].task]]
     /\ Goto(c, IF more THEN "more" ELSE "wake")
     /\ UNCHANGED <<rxVars, wr, written, sent, wakeVars, ier, thre, loaded>>

\* All before the wrap is sent, and there is more.
SendMore(c) ==
  /\ Runs(c, "more")
  /\ conf' = [conf EXCEPT ![c].raw = Tx!RawCount(conf[c].tail), ![c].write = 0, ![c].first = FALSE]
  /\ Goto(c, "send")
  /\ UNCHANGED <<rxVars, tx, wr, written, sent, wakeVars, ier, thre, loaded>>

NoneBlocked == [taskID |-> NoTask, fct |-> "none"]

\* Fault: the writer that is woken stays in the slot.
WakeWriterKeepsSlot(c) ==
  /\ Runs(c, "wake")
  /\ event' = IF conf[c].task # NoTask /\ blocked.fct = "write"
                THEN [event EXCEPT ![conf[c].task] = TRUE] ELSE event
  /\ conf' = [conf EXCEPT ![c] = NotConfirming]
  /\ Confirmed(c)
  /\ UNCHANGED <<rxVars, tx, wr, written, sent, blocked, ier, thre, loaded>>

\* A writer in the slot is woken, even if nothing was sent.  One step, for in
\* the writer's own context the slot never holds a writer (OnlyIsrWakesWriter)
\* and no task runs between the assignments of the ISR.
WakeWriter(c) ==
  /\ Runs(c, "wake")
  /\ IF conf[c].task # NoTask /\ blocked.fct = "write"
       THEN blocked' = NoneBlocked /\ event' = [event EXCEPT ![conf[c].task] = TRUE]
       ELSE UNCHANGED wakeVars
  /\ conf' = [conf EXCEPT ![c] = NotConfirming]
  /\ Confirmed(c)
  /\ UNCHANGED <<rxVars, tx, wr, written, sent, ier, thre, loaded>>

TxConfirmation(c) == Confirm(c) \/ SendByte(c) \/ SendEnd(c) \/ SendMore(c) \/ WakeWriter(c)

(***************************************************************************)
(* ciaaSerialDevices_rxIndication and the ISR                              *)
(***************************************************************************)
\* Fault: the last place of the ring is taken for none.
DriverReadNotOne(size, count) == IF size <= 1 THEN -1 ELSE Min(size, count)

\* What ciaaDriverUart_read returns for a size, with count bytes in hwbuf.
DriverRead(size, count) == IF size = 0 THEN -1 ELSE Min(size, count)

\* The bytes in hwbuf go to the ring in up to two pieces, as many as it takes,
\* and the tail moves by what the driver returned.  With the ring full that is
\* an unsigned -1: it takes the newest byte off the ring, whose number goes to
\* the next one, and counts as data too.
RxIndication(count) ==
  LET rawSpace == Rx!RawSpace(rx.head)
      space == Rx!Space(rx.head)
      first == DriverRead(rawSpace, count)
      second == IF first = rawSpace /\ space > rawSpace
                  THEN DriverRead(space - rawSpace, count - first) ELSE 0
      read == first + second
  IN /\ rx' = [rx EXCEPT !.tail = (@ + read) % NBytes,
                 !.buf = [i \in Index |->
                    IF i - rx.tail \in 0 .. first - 1 THEN (received + (i - rx.tail)) % NBytes
                    ELSE IF i < second THEN (received + (first + i)) % NBytes ELSE rx.buf[i]]]
     /\ rxcnt' = IF read > 0 THEN count - read ELSE count
     /\ received' = (received + read) % NBytes
     /\ IF read # 0 /\ blocked.taskID # NoTask /\ blocked.fct = "read"
          THEN blocked' = NoneBlocked /\ event' = [event EXCEPT ![blocked.taskID] = TRUE]
          ELSE UNCHANGED wakeVars

\* rxcnt once k more bytes are stored.  The byte after a full hwbuf is stored in
\* rxcnt itself and makes it any number; what lies behind hwbuf is left out.
Stored(k) ==
  IF rxcnt < UART_RX_FIFO_SIZE THEN {rxcnt + k} ELSE 0 .. UART_RX_FIFO_SIZE

\* The ISR finds k bytes, as many as the peer has sent: one is stored before
\* rxcnt is compared.  It looks at RDR whichever interrupt it was entered for.
IsrEnter(k) ==
  /\ pc[Isr] = "app"
  /\ (k > 0 /\ ier["rx"]) \/ (thre /\ ier["tx"])
  /\ k <= 1 \/ rxcnt + k <= UART_RX_FIFO_SIZE
  /\ IF k > 0 THEN \E count \in Stored(k) : RxIndication(count)
              ELSE UNCHANGED <<rx, rxcnt, received, wakeVars>>
  /\ Goto(Isr, IF thre /\ ier["tx"] THEN "confirm" ELSE "app")
  /\ UNCHANGED <<rd, delivered, txVars, ier, thre, loaded>>

\* THRE still set is taken for nothing left to send.
IsrCheck ==
  /\ pc[Isr] = "check"
  /\ ier' = IF thre THEN [ier EXCEPT !["tx"] = FALSE] ELSE ier
  /\ Goto(Isr, "app")
  /\ UNCHANGED <<rxVars, txVars, wakeVars, thre, loaded>>

\* The UART: its transmitter is empty again.
TransmitterEmpty ==
  /\ ~thre
  /\ LineFast \/ pc[Isr] = "app"
  /\ thre' = TRUE
  /\ UNCHANGED <<rxVars, txVars, wakeVars, ier, pc, loaded>>

ReadCall == Block(Reader) \/ Get \/ GetCopy \/ GetUpdateHead
WriteCall ==
  \/ Block(Writer) \/ WriteSpace \/ WritePut \/ StartTx \/ StartTxEnd
  \/ TxConfirmation(Writer)
IsrRun == (\E k \in 0 .. UART_RX_FIFO_SIZE : IsrEnter(k)) \/ TxConfirmation(Isr) \/ IsrCheck

Next ==
  \/ \E nbyte \in ReadLengths : Read(nbyte)
  \/ ReadAgain
  \/ ReadCall
  \/ \E nbyte \in WriteLengths : Write(nbyte)
  \/ WriteCall
  \/ IsrRun
  \/ TransmitterEmpty

Spec == Init /\ [][Next]_vars

\* Whether a task in a call can go on, as ENABLED ReadCall and ENABLED WriteCall
\* are, and whether the ISR is to go on, or to be entered for the transmitter.
CanGoOn(t) == At(t, pc[t]) /\ ~Idle(t)
IsrDue == pc[Isr] # "app" \/ (thre /\ ier["tx"])
Moves(c) == pc'[c] # pc[c]

\* The transmitter empties; the ISR runs when it is due, and a task in a call
\* gets the CPU again and again however often it is interrupted.  The last two
\* are weak and strong fairness with ENABLED written out.
Fairness ==
  /\ WF_vars(TransmitterEmpty)
  /\ <>[]IsrDue => []<><<Moves(Isr)>>_pc
  /\ \A t \in Tasks : []<>CanGoOn(t) => []<><<Moves(t)>>_pc

FairSpec == Spec /\ Fairness

(***************************************************************************)
(* Properties                                                              *)
(***************************************************************************)
\* Each byte written goes to the line once and in order, whichever of the
\* writer and the ISR sends it, around the end of the ring or not.
TxInOrder == [][\A c \in {Writer, Isr} : SendByte(c) => sent' = (sent + 1) % NBytes]_vars

\* What read returns are the bytes the ISR has put into the ring and not taken
\* off again, each once and in order, while the ISR goes on to fill the ring the
\* reader copies from, however far the peer is ahead.
RxInOrder ==
  pc[Reader] = "update" =>
    rd.data = [i \in 1 .. rd.nbyte |-> (delivered + i - 1) % NBytes]

\* The bytes a read has counted are still in the ring when it copies them and
\* when it moves the head, which does not pass the tail: although the ISR takes
\* bytes off a full ring.
TakesWhatIsThere == pc[Reader] \in {"copy", "update"} => rd.nbyte <= Rx!Count(rx.tail)

\* POSIXE is only set for a task that is about to wait for it and has not yet
\* cleared it: no event is left over to end a later wait.
NoStaleEvent == \A t \in Tasks : event[t] => pc[t] \in BlockPCs

\* A byte in the transmit ring is sent at last, with no further call.
TxDrains == []<>(tx.head = tx.tail) \/ []<><<tx.head' # tx.head>>_vars

\* ciaaSerialDevices.c: "after the wait is not needed to check if data is
\* avaibale on the buffer".  Past the wait the reader finds data.
WokenReaderHasData == pc[Reader] = "clear" => rx.tail # rx.head
=============================================================================
