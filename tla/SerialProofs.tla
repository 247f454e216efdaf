---------------------------- MODULE SerialProofs ----------------------------
(***************************************************************************)
(* Proofs about the serial device.  The rings come first: Holds says that  *)
(* a ring holds the numbered bytes from one to before another, whatever    *)
(* its head, and the lemmas take bytes from it and add bytes to it.  Then  *)
(* four inductive invariants, each on top of the types:                    *)
(*   SlotInv  the task in the slot is on its way to the wait and not yet   *)
(*            told, and a confirmation that found a writer there tells     *)
(*            nobody else;                                                 *)
(*   LostInv  a task that the slot no longer names, though it waits for    *)
(*            it, is there for good; so the writer finds itself out of     *)
(*            the slot whenever it confirms;                               *)
(*   RxInv    the receive ring holds the bytes put there and not yet read, *)
(*            and what the reader is about to take is in it;               *)
(*   TxInv    while the writer confirms the transmit interrupt is off, so  *)
(*            that one context sends at a time, and the transmit ring      *)
(*            holds the bytes written and not yet sent, those of the       *)
(*            piece being sent included.                                   *)
(***************************************************************************)
EXTENDS SerialDevice, SequenceTheorems, TLAPS

USE SerialAssumption DEF SerialAssumption

(***************************************************************************)
(* Rings of numbered bytes, for the ring of either direction               *)
(***************************************************************************)
Turn(n) == n % NBytes
Fill(r) == Turn(r.tail - r.head)
Place(r, i) == Turn(r.head + i)

\* The ring holds the bytes from first to before next, in order.
Holds(r, first, next) ==
  /\ next = Turn(first + Fill(r))
  /\ \A i \in 0 .. NBytes - 1 : i < Fill(r) => r.buf[Place(r, i)] = Turn(first + i)

LEMMA TurnFacts ==
  /\ \A n \in 0 .. NBytes - 1 : Turn(n) = n
  /\ \A n \in NBytes .. 2 * NBytes - 1 : Turn(n) = n - NBytes
  /\ \A n \in (-NBytes) .. -1 : Turn(n) = n + NBytes
  /\ \A n \in Int : Turn(n) \in 0 .. NBytes - 1
BY DEF Turn

LEMMA IndexFacts == Index = 0 .. NBytes - 1 /\ Byte = 0 .. NBytes - 1
BY DEF Index, Rx!Index, Byte

LEMMA FillIs ==
  ASSUME NEW r \in Ring
  PROVE  /\ Fill(r) = IF r.head <= r.tail THEN r.tail - r.head ELSE r.tail - r.head + NBytes
         /\ Fill(r) \in 0 .. NBytes - 1
<1>1. r.head \in 0 .. NBytes - 1 /\ r.tail \in 0 .. NBytes - 1
  BY IndexFacts DEF Ring
<1>2. r.tail - r.head \in (-NBytes) .. -1 \/ r.tail - r.head \in 0 .. NBytes - 1
  BY <1>1
<1> QED
  BY <1>1, <1>2, TurnFacts DEF Fill

\* What the operators of the ring buffer come to.
LEMMA RingOperators ==
  /\ \A t : Rx!Count(t) = Turn(t - rx.head) /\ Tx!Count(t) = Turn(t - tx.head)
  /\ \A h : Rx!Space(h) = Turn(h - rx.tail - 1) /\ Tx!Space(h) = Turn(h - tx.tail - 1)
  /\ \A t : /\ Rx!RawCount(t) = IF rx.head <= t THEN t - rx.head ELSE NBytes - rx.head
            /\ Tx!RawCount(t) = IF tx.head <= t THEN t - tx.head ELSE NBytes - tx.head
BY DEF Rx!Count, Tx!Count, Rx!Space, Tx!Space, Rx!RawCount, Tx!RawCount, Turn

LEMMA RingFacts ==
  ASSUME NEW r \in Ring
  PROVE  r.head \in 0 .. NBytes - 1 /\ r.tail \in 0 .. NBytes - 1 /\ r.buf \in [Index -> Byte]
BY IndexFacts DEF Ring

LEMMA SpaceIs ==
  ASSUME NEW r \in Ring
  PROVE  Turn(r.head - r.tail - 1) = NBytes - 1 - Fill(r)
<1>1. r.head \in 0 .. NBytes - 1 /\ r.tail \in 0 .. NBytes - 1
  BY RingFacts
<1>2. CASE r.head <= r.tail
  <2>1. r.head - r.tail - 1 \in (-NBytes) .. -1
    BY <1>1, <1>2
  <2> QED
    BY <1>1, <1>2, <2>1, TurnFacts, FillIs
<1>3. CASE r.head > r.tail
  <2>1. r.head - r.tail - 1 \in 0 .. NBytes - 1
    BY <1>1, <1>3
  <2> QED
    BY <1>1, <1>3, <2>1, TurnFacts, FillIs
<1> QED
  BY <1>1, <1>2, <1>3

LEMMA SumIs ==
  ASSUME NEW m \in 0 .. NBytes - 1, NEW n \in 0 .. NBytes
  PROVE  /\ Turn(m + n) = IF m + n < NBytes THEN m + n ELSE m + n - NBytes
         /\ Turn(m + n) \in 0 .. NBytes - 1
<1>1. m + n \in 0 .. NBytes - 1 \/ m + n \in NBytes .. 2 * NBytes - 1
  OBVIOUS
<1> QED
  BY <1>1, TurnFacts

LEMMA TurnTwice ==
  ASSUME NEW m \in 0 .. NBytes - 1, NEW n \in 0 .. NBytes - 1, NEW i \in 0 .. NBytes - 1,
         n + i <= NBytes
  PROVE  Turn(Turn(m + n) + i) = Turn(m + n + i)
<1>1. Turn(m + n) = (IF m + n < NBytes THEN m + n ELSE m + n - NBytes)
      /\ Turn(m + n) \in 0 .. NBytes - 1
  BY SumIs
<1>2. PICK k \in 0 .. NBytes - 1 : k = Turn(m + n)
  BY <1>1
<1>3. Turn(k + i) = IF k + i < NBytes THEN k + i ELSE k + i - NBytes
  BY SumIs
<1>4. n + i \in 0 .. NBytes /\ m + n + i = m + (n + i)
  OBVIOUS
<1>5. Turn(m + (n + i)) = IF m + (n + i) < NBytes THEN m + (n + i) ELSE m + (n + i) - NBytes
  BY <1>4, SumIs
<1> QED
  BY <1>1, <1>2, <1>3, <1>4, <1>5

\* Taking n bytes from the head.
LEMMA HoldsTake ==
  ASSUME NEW r \in Ring, NEW first \in Byte, NEW next, Holds(r, first, next),
         NEW n \in 0 .. Fill(r), NEW q, q = [r EXCEPT !.head = Turn(r.head + n)]
  PROVE  q \in Ring /\ Fill(q) = Fill(r) - n /\ Turn(first + n) \in Byte
         /\ Holds(q, Turn(first + n), next)
<1>1. /\ r.head \in 0 .. NBytes - 1 /\ r.tail \in 0 .. NBytes - 1 /\ first \in 0 .. NBytes - 1
      /\ Fill(r) \in 0 .. NBytes - 1
      /\ Fill(r) = IF r.head <= r.tail THEN r.tail - r.head ELSE r.tail - r.head + NBytes
  BY RingFacts, FillIs, IndexFacts
<1>2. n \in 0 .. NBytes - 1
  BY <1>1
<1>3. /\ Turn(r.head + n) = IF r.head + n < NBytes THEN r.head + n ELSE r.head + n - NBytes
      /\ Turn(r.head + n) \in 0 .. NBytes - 1 /\ Turn(first + n) \in 0 .. NBytes - 1
  BY <1>1, <1>2, SumIs
<1>4. q \in Ring
  BY <1>3, IndexFacts DEF Ring
<1>5. q.head = Turn(r.head + n) /\ q.tail = r.tail /\ q.buf = r.buf
  BY DEF Ring
<1>6. Fill(q) = IF q.head <= q.tail THEN q.tail - q.head ELSE q.tail - q.head + NBytes
  BY <1>4, FillIs
<1>7. Fill(q) = Fill(r) - n
  BY <1>1, <1>2, <1>3, <1>5, <1>6
<1>8. \A i \in 0 .. NBytes - 1 : n + i <= NBytes =>
        /\ Turn(Turn(first + n) + i) = Turn(first + (n + i))
        /\ Turn(Turn(r.head + n) + i) = Turn(r.head + (n + i))
  <2>1. ASSUME NEW i \in 0 .. NBytes - 1, n + i <= NBytes
        PROVE  /\ Turn(Turn(first + n) + i) = Turn(first + (n + i))
               /\ Turn(Turn(r.head + n) + i) = Turn(r.head + (n + i))
    <3>1. first + n + i = first + (n + i) /\ r.head + n + i = r.head + (n + i)
      BY <1>1, <1>2
    <3> QED
      BY <1>1, <1>2, <2>1, <3>1, TurnTwice
  <2> QED
    BY <2>1
<1>9. next = Turn(Turn(first + n) + Fill(q))
  <2>1. PICK k \in 0 .. NBytes - 1 : k = Fill(q) /\ n + k = Fill(r)
    BY <1>1, <1>2, <1>7
  <2>2. Turn(Turn(first + n) + k) = Turn(first + (n + k))
    BY <1>1, <1>8, <2>1
  <2> QED
    BY <2>1, <2>2 DEF Holds
<1>10. ASSUME NEW i \in 0 .. NBytes - 1, i < Fill(q)
       PROVE  q.buf[Place(q, i)] = Turn(Turn(first + n) + i)
  <2>1. n + i \in 0 .. NBytes - 1 /\ n + i < Fill(r) /\ n + i <= NBytes
    BY <1>1, <1>2, <1>7, <1>10
  <2>2. r.buf[Turn(r.head + (n + i))] = Turn(first + (n + i))
    BY <2>1 DEF Holds, Place
  <2> QED
    BY <1>5, <1>8, <2>1, <2>2 DEF Place
<1> QED
  BY <1>3, <1>4, <1>7, <1>9, <1>10, IndexFacts DEF Holds

\* Adding n bytes at the tail, which leave what the ring holds as it is.
LEMMA HoldsAdd ==
  ASSUME NEW r \in Ring, NEW first \in Byte, NEW next, Holds(r, first, next),
         NEW n \in 0 .. NBytes - 1, n + Fill(r) <= NBytes - 1,
         NEW buf \in [Index -> Byte],
         \A i \in 0 .. NBytes - 1 : i < Fill(r) => buf[Place(r, i)] = r.buf[Place(r, i)],
         \A i \in 0 .. NBytes - 1 : i < n => buf[Turn(r.tail + i)] = Turn(next + i),
         NEW q, q = [buf |-> buf, head |-> r.head, tail |-> Turn(r.tail + n)]
  PROVE  q \in Ring /\ Fill(q) = Fill(r) + n /\ Holds(q, first, Turn(next + n))
<1>1. /\ r.head \in 0 .. NBytes - 1 /\ r.tail \in 0 .. NBytes - 1 /\ first \in 0 .. NBytes - 1
      /\ Fill(r) \in 0 .. NBytes - 1
      /\ Fill(r) = IF r.head <= r.tail THEN r.tail - r.head ELSE r.tail - r.head + NBytes
  BY RingFacts, FillIs, IndexFacts
<1>2. /\ Turn(r.tail + n) = IF r.tail + n < NBytes THEN r.tail + n ELSE r.tail + n - NBytes
      /\ Turn(r.tail + n) \in 0 .. NBytes - 1
  BY <1>1, SumIs
<1>3. q \in Ring
  BY <1>1, <1>2, IndexFacts DEF Ring
<1>4. Fill(q) = IF q.head <= q.tail THEN q.tail - q.head ELSE q.tail - q.head + NBytes
  BY <1>3, FillIs
<1>5. Fill(q) = Fill(r) + n
  BY <1>1, <1>2, <1>4
<1>6. next = Turn(first + Fill(r))
  BY DEF Holds
<1>7. \A i \in 0 .. NBytes - 1 : i + Fill(r) <= NBytes => Turn(next + i) = Turn(first + (Fill(r) + i))
  <2>1. ASSUME NEW i \in 0 .. NBytes - 1, i + Fill(r) <= NBytes
        PROVE  Turn(next + i) = Turn(first + (Fill(r) + i))
    <3>1. PICK f \in 0 .. NBytes - 1 : f = Fill(r)
      BY <1>1
    <3>2. f + i <= NBytes /\ first + f + i = first + (f + i)
      BY <1>1, <2>1, <3>1
    <3>3. Turn(Turn(first + f) + i) = Turn(first + f + i)
      <4>1. first \in 0 .. NBytes - 1
        BY IndexFacts
      <4> QED
        BY <3>2, <4>1, TurnTwice
    <3> QED
      BY <1>6, <3>1, <3>2, <3>3
  <2> QED
    BY <2>1
<1>8. Turn(next + n) = Turn(first + Fill(q))
  <2>1. Turn(next + n) = Turn(first + (Fill(r) + n))
    BY <1>1, <1>7
  <2> QED
    BY <1>5, <2>1
\* A place after the old contents is one of the new ones.
<1>9. ASSUME NEW i \in 0 .. NBytes - 1, i < Fill(q)
      PROVE  buf[Place(q, i)] = Turn(first + i)
  <2>1. Place(q, i) = Place(r, i)
    BY DEF Place
  <2>2. CASE i < Fill(r)
    BY <2>1, <2>2 DEF Holds
  <2>3. CASE i >= Fill(r)
    <3>1. PICK k \in 0 .. NBytes - 1 : k < n /\ i = Fill(r) + k
      <4>1. i - Fill(r) \in 0 .. NBytes - 1 /\ i - Fill(r) < n /\ i = Fill(r) + (i - Fill(r))
        BY <1>1, <1>5, <1>9, <2>3
      <4> QED
        BY <4>1
    <3>2. buf[Turn(r.tail + k)] = Turn(next + k) /\ Turn(next + k) = Turn(first + i)
      BY <1>1, <1>7, <3>1
    <3>3. Turn(r.head + i) = Turn(r.tail + k)
      <4>1. /\ Turn(r.head + i) = IF r.head + i < NBytes THEN r.head + i ELSE r.head + i - NBytes
            /\ Turn(r.tail + k) = IF r.tail + k < NBytes THEN r.tail + k ELSE r.tail + k - NBytes
        BY <1>1, SumIs
      <4> QED
        BY <1>1, <3>1, <4>1
    <3> QED
      BY <2>1, <3>2, <3>3 DEF Place
  <2> QED
    BY <1>1, <2>2, <2>3
<1> QED
  BY <1>3, <1>5, <1>8, <1>9 DEF Holds

\* Taking the newest byte off again.
LEMMA HoldsDrop ==
  ASSUME NEW r \in Ring, NEW first \in Byte, NEW next, Holds(r, first, next), Fill(r) > 0,
         NEW q, q = [buf |-> r.buf, head |-> r.head, tail |-> Turn(r.tail - 1)]
  PROVE  q \in Ring /\ Fill(q) = Fill(r) - 1 /\ Holds(q, first, Turn(next - 1))
<1>1. /\ r.head \in 0 .. NBytes - 1 /\ r.tail \in 0 .. NBytes - 1 /\ first \in 0 .. NBytes - 1
      /\ Fill(r) \in 0 .. NBytes - 1 /\ r.buf \in [Index -> Byte]
      /\ Fill(r) = IF r.head <= r.tail THEN r.tail - r.head ELSE r.tail - r.head + NBytes
  BY RingFacts, FillIs, IndexFacts
<1>2. \A m \in 0 .. NBytes - 1 : Turn(m - 1) = IF m > 0 THEN m - 1 ELSE NBytes - 1
  <2>1. ASSUME NEW m \in 0 .. NBytes - 1
        PROVE  Turn(m - 1) = IF m > 0 THEN m - 1 ELSE NBytes - 1
    <3>1. m - 1 \in 0 .. NBytes - 1 \/ m - 1 = -1
      OBVIOUS
    <3> QED
      BY <3>1, TurnFacts
  <2> QED
    BY <2>1
<1>3. q \in Ring
  <2>1. Turn(r.tail - 1) \in Index /\ r.head \in Index
    BY <1>1, <1>2, IndexFacts
  <2> QED
    BY <1>1, <2>1 DEF Ring
<1>4. Fill(q) = IF q.head <= q.tail THEN q.tail - q.head ELSE q.tail - q.head + NBytes
  BY <1>3, FillIs
<1>5. Fill(q) = Fill(r) - 1
  BY <1>1, <1>2, <1>4
<1>6. Turn(next - 1) = Turn(first + Fill(q))
  <2>1. PICK f \in 0 .. NBytes - 1 : f = Fill(r) /\ f > 0
    BY <1>1
  <2>2. next = (IF first + f < NBytes THEN first + f ELSE first + f - NBytes)
        /\ next \in 0 .. NBytes - 1
    BY <1>1, <2>1, SumIs DEF Holds
  <2>3. Turn(first + (f - 1)) = IF first + (f - 1) < NBytes THEN first + (f - 1)
                                ELSE first + (f - 1) - NBytes
    BY <1>1, <2>1, SumIs
  <2> QED
    BY <1>1, <1>2, <1>5, <2>1, <2>2, <2>3
<1>7. \A i \in 0 .. NBytes - 1 : i < Fill(q) => q.buf[Place(q, i)] = Turn(first + i)
  BY <1>1, <1>5 DEF Holds, Place
<1> QED
  BY <1>3, <1>5, <1>6, <1>7 DEF Holds

(***************************************************************************)
(* Types, of the parts of the state that the steps change together         *)
(***************************************************************************)
ReaderPCs == {"app", "get", "copy", "update"} \cup BlockPCs
WriterPCs == {"app", "space", "put", "starttx", "txoff", "txdone", "txon"} \cup ConfPCs \cup BlockPCs
IsrPCs == {"app", "check"} \cup ConfPCs
PCs == ReaderPCs \cup WriterPCs \cup IsrPCs
ReadLocals == [nbyte : Nat, raw : Nat, data : Seq(Byte)]
ConfLocals == [task : Tasks \cup {NoTask}, tail : Index, raw : Nat, count : Nat, write : Nat,
               first : BOOLEAN]

RxTyped == rx \in Ring /\ rxcnt \in 0 .. UART_RX_FIFO_SIZE /\ rd \in ReadLocals /\ received \in Byte
           /\ delivered \in Byte
TxTyped == tx \in Ring /\ wr \in [left : Nat, space : Nat] /\ conf \in [{Writer, Isr} -> ConfLocals]
           /\ written \in Byte /\ sent \in Byte
WakeTyped == /\ blocked \in [taskID : Tasks \cup {NoTask}, fct : {"none", "read", "write"}]
             /\ event \in [Tasks -> BOOLEAN]
FlagsTyped == /\ ier \in [{"rx", "tx"} -> BOOLEAN] /\ thre \in BOOLEAN
              /\ loaded \in [Tasks -> [{"rx", "tx"} -> BOOLEAN]]
PcTyped == /\ pc \in [Tasks \cup {Isr} -> PCs]
           /\ pc[Reader] \in ReaderPCs /\ pc[Writer] \in WriterPCs /\ pc[Isr] \in IsrPCs

\* A reader that copies has looked how much there is, and where the array ends.
CopyFits ==
  pc[Reader] = "copy" =>
    /\ rd.nbyte <= NBytes /\ rd.raw <= rd.nbyte /\ rx.head + rd.raw <= NBytes
    /\ rd.raw = rd.nbyte \/ rx.head + rd.raw = NBytes

TypeInv == RxTyped /\ TxTyped /\ WakeTyped /\ FlagsTyped /\ PcTyped /\ CopyFits

LEMMA TypeInvImplies == TypeInv => TypeOK
BY DEF TypeInv, RxTyped, TxTyped, WakeTyped, FlagsTyped, PcTyped, TypeOK, ReaderPCs, WriterPCs,
       IsrPCs, ReadLocals, ConfLocals

LEMMA KeepTypes ==
  /\ RxTyped /\ UNCHANGED rxVars => RxTyped'
  /\ TxTyped /\ UNCHANGED txVars => TxTyped'
  /\ WakeTyped /\ UNCHANGED wakeVars => WakeTyped'
  /\ FlagsTyped /\ UNCHANGED <<ier, thre, loaded>> => FlagsTyped'
  /\ PcTyped /\ UNCHANGED pc => PcTyped'
  /\ CopyFits /\ UNCHANGED <<pc, rd, rx>> => CopyFits'
BY DEF RxTyped, rxVars, TxTyped, txVars, WakeTyped, wakeVars, FlagsTyped, PcTyped, CopyFits

\* Where each of the three may stand.
PlaceOf(c, place) ==
  /\ c = Reader => place \in ReaderPCs
  /\ c = Writer => place \in WriterPCs
  /\ c = Isr => place \in IsrPCs

LEMMA GotoFacts ==
  ASSUME PcTyped, NEW c \in Tasks \cup {Isr}, NEW place, PlaceOf(c, place), Goto(c, place)
  PROVE  /\ PcTyped' /\ pc'[c] = place
         /\ \A d \in Tasks \cup {Isr} : d # c => pc'[d] = pc[d]
<1>1. place \in PCs
  BY DEF PlaceOf, PCs, Tasks
<1>2. /\ pc' \in [Tasks \cup {Isr} -> PCs] /\ pc'[c] = place
      /\ \A d \in Tasks \cup {Isr} : d # c => pc'[d] = pc[d]
  BY <1>1 DEF Goto, PcTyped
<1>3. Reader \in Tasks /\ Writer \in Tasks
  BY DEF Tasks
<1> QED
  BY <1>2, <1>3 DEF PlaceOf, PcTyped

\* A step of the reader that does not go to the copy, or of another.
LEMMA GotoCopyFits ==
  ASSUME PcTyped, CopyFits, NEW c \in Tasks \cup {Isr}, NEW place, PlaceOf(c, place),
         Goto(c, place), place # "copy" \/ c # Reader,
         (rd' = rd /\ rx'.head = rx.head) \/ c = Reader
  PROVE  CopyFits'
BY GotoFacts DEF CopyFits, Tasks

(***************************************************************************)
(* Each step keeps the types                                               *)
(***************************************************************************)
LEMMA TasksFacts ==
  /\ Reader \in Tasks /\ Writer \in Tasks /\ Reader # Isr /\ Writer # Isr /\ Reader # Writer
  /\ \A t \in Tasks : t = Reader \/ t = Writer
  /\ \A t \in Tasks : Line(t) \in {"rx", "tx"}
BY DEF Tasks, Line

LEMMA IerLoadTypes ==
  ASSUME TypeInv, NEW t \in Tasks, NEW from, NEW line \in {"rx", "tx"}, NEW value \in BOOLEAN,
         NEW to, PlaceOf(t, to), to # "copy", IerLoad(t, from, line, value, to)
  PROVE  TypeInv'
<1>1. /\ Goto(t, to) /\ UNCHANGED <<rxVars, txVars, wakeVars, ier, thre>>
      /\ loaded' = [loaded EXCEPT ![t] = [ier EXCEPT ![line] = value]]
  BY DEF IerLoad
<1>2. FlagsTyped'
  BY <1>1 DEF TypeInv, FlagsTyped
<1>3. PcTyped' /\ CopyFits'
  BY <1>1, GotoFacts, GotoCopyFits DEF TypeInv, rxVars
<1> QED
  BY <1>1, <1>2, <1>3, KeepTypes DEF TypeInv

LEMMA IerStoreTypes ==
  ASSUME TypeInv, NEW t \in Tasks, NEW from, NEW to, PlaceOf(t, to), to # "copy",
         IerStore(t, from, to)
  PROVE  TypeInv'
<1>1. /\ Goto(t, to) /\ UNCHANGED <<rxVars, txVars, wakeVars, thre>>
      /\ loaded' = [loaded EXCEPT ![t] = NoneEnabled] /\ ier' = loaded[t]
  BY DEF IerStore
<1>2. FlagsTyped'
  BY <1>1 DEF TypeInv, FlagsTyped, NoneEnabled
<1>3. PcTyped' /\ CopyFits'
  BY <1>1, GotoFacts, GotoCopyFits DEF TypeInv, rxVars
<1> QED
  BY <1>1, <1>2, <1>3, KeepTypes DEF TypeInv

LEMMA BlockTypes ==
  ASSUME TypeInv, NEW t \in Tasks, Block(t)
  PROVE  TypeInv'
<1>1. \A place \in BlockPCs \cup {IF t = Reader THEN "get" ELSE "space"} :
        PlaceOf(t, place) /\ place # "copy"
  BY TasksFacts DEF PlaceOf, ReaderPCs, WriterPCs, BlockPCs
<1>2. \A place \in {"rxtxoff", "taskid", "fct", "unblock", "rxtxon", "wait", "clear"} :
        place \in BlockPCs
  BY DEF BlockPCs
<1>3. CASE BlockIrqOff(t)
  BY <1>1, <1>2, <1>3, IerLoadTypes, IerStoreTypes, TasksFacts DEF BlockIrqOff
<1>4. CASE BlockIrqOn(t)
  BY <1>1, <1>2, <1>4, IerLoadTypes, IerStoreTypes, TasksFacts DEF BlockIrqOn
<1>5. CASE BlockTaskID(t) \/ BlockFct(t) \/ WaitEvent(t) \/ ClearEvent(t)
  <2>1. PICK place \in BlockPCs \cup {IF t = Reader THEN "get" ELSE "space"} : Goto(t, place)
    BY <1>2, <1>5 DEF BlockTaskID, BlockFct, WaitEvent, ClearEvent
  <2>2. UNCHANGED <<rxVars, txVars, ier, thre, loaded>>
    BY <1>5 DEF BlockTaskID, BlockFct, WaitEvent, ClearEvent
  <2>3. PcTyped' /\ CopyFits'
    BY <1>1, <2>1, <2>2, GotoFacts, GotoCopyFits DEF TypeInv, rxVars
  <2>4. WakeTyped'
    BY <1>5 DEF TypeInv, WakeTyped, BlockTaskID, BlockFct, WaitEvent, ClearEvent, wakeVars
  <2> QED
    BY <2>2, <2>3, <2>4, KeepTypes DEF TypeInv
<1> QED
  BY <1>3, <1>4, <1>5 DEF Block

LEMMA MinFacts ==
  ASSUME NEW m \in Nat, NEW n \in Nat
  PROVE  Min(m, n) \in Nat /\ Min(m, n) <= m /\ Min(m, n) <= n
BY DEF Min

\* What the operators of the ring buffer return.
LEMMA RingTypes ==
  /\ RxTyped => /\ \A t \in Index : Rx!Count(t) \in 0 .. NBytes - 1
                                    /\ Rx!RawCount(t) \in 0 .. NBytes
                                    /\ rx.head + Rx!RawCount(t) <= NBytes
                /\ \A h \in Index : Rx!Space(h) \in 0 .. NBytes - 1
  /\ TxTyped => /\ \A t \in Index : Tx!Count(t) \in 0 .. NBytes - 1
                                    /\ Tx!RawCount(t) \in 0 .. NBytes
                                    /\ tx.head + Tx!RawCount(t) <= NBytes
                /\ \A h \in Index : Tx!Space(h) \in 0 .. NBytes - 1
<1>1. ASSUME RxTyped
      PROVE  /\ \A t \in Index : Rx!Count(t) \in 0 .. NBytes - 1
                                 /\ Rx!RawCount(t) \in 0 .. NBytes
                                 /\ rx.head + Rx!RawCount(t) <= NBytes
             /\ \A h \in Index : Rx!Space(h) \in 0 .. NBytes - 1
  <2>1. rx.head \in 0 .. NBytes - 1 /\ rx.tail \in 0 .. NBytes - 1
    BY <1>1, RingFacts DEF RxTyped
  <2>2. \A t \in 0 .. NBytes - 1 : Rx!Count(t) \in 0 .. NBytes - 1
    BY <2>1, RingOperators, TurnFacts
  <2>3. \A t \in 0 .. NBytes - 1 : /\ Rx!RawCount(t) \in 0 .. NBytes
                                    /\ rx.head + Rx!RawCount(t) <= NBytes
    BY <2>1, RingOperators
  <2>4. \A h \in 0 .. NBytes - 1 : Rx!Space(h) \in 0 .. NBytes - 1
    BY <2>1, RingOperators, TurnFacts
  <2> QED
    BY <2>2, <2>3, <2>4, IndexFacts
<1>2. ASSUME TxTyped
      PROVE  /\ \A t \in Index : Tx!Count(t) \in 0 .. NBytes - 1
                                 /\ Tx!RawCount(t) \in 0 .. NBytes
                                 /\ tx.head + Tx!RawCount(t) <= NBytes
             /\ \A h \in Index : Tx!Space(h) \in 0 .. NBytes - 1
  <2>1. tx.head \in 0 .. NBytes - 1 /\ tx.tail \in 0 .. NBytes - 1
    BY <1>2, RingFacts DEF TxTyped
  <2>2. \A t \in 0 .. NBytes - 1 : Tx!Count(t) \in 0 .. NBytes - 1
    BY <2>1, RingOperators, TurnFacts
  <2>3. \A t \in 0 .. NBytes - 1 : /\ Tx!RawCount(t) \in 0 .. NBytes
                                    /\ tx.head + Tx!RawCount(t) <= NBytes
    BY <2>1, RingOperators
  <2>4. \A h \in 0 .. NBytes - 1 : Tx!Space(h) \in 0 .. NBytes - 1
    BY <2>1, RingOperators, TurnFacts
  <2> QED
    BY <2>2, <2>3, <2>4, IndexFacts
<1> QED
  BY <1>1, <1>2

LEMMA TailsInIndex ==
  /\ RxTyped => rx.head \in Index /\ rx.tail \in Index
                /\ rx.buf \in [Index -> Byte]
  /\ TxTyped => tx.head \in Index /\ tx.tail \in Index /\ tx.buf \in [Index -> Byte]
BY DEF RxTyped, TxTyped, Ring, ReadLocals

LEMMA CopiedOutIs ==
  ASSUME RxTyped, NEW from \in Nat, NEW n \in Nat, from + n <= NBytes
  PROVE  /\ Rx!CopiedOut(from, n) \in Seq(Byte)
         /\ Len(Rx!CopiedOut(from, n)) = n
         /\ \A i \in 1 .. n : Rx!CopiedOut(from, n)[i] = rx.buf[from + i - 1]
<1>1. \A i \in 1 .. n : rx.buf[from + i - 1] \in Byte
  BY TailsInIndex, IndexFacts
<1>2. Rx!CopiedOut(from, n) \in [1 .. n -> Byte]
  BY <1>1 DEF Rx!CopiedOut
<1>3. Rx!CopiedOut(from, n) \in Seq(Byte) /\ Len(Rx!CopiedOut(from, n)) = n
  BY <1>2
<1> QED
  BY <1>2, <1>3 DEF Rx!CopiedOut

LEMMA NothingRead == NotReading \in ReadLocals
<1>1. 0 \in Index /\ <<>> \in Seq(Byte)
  BY IndexFacts
<1> QED
  BY <1>1 DEF NotReading, ReadLocals

LEMMA ReadTypes ==
  ASSUME TypeInv, (\E nbyte \in ReadLengths : Read(nbyte)) \/ Get \/ GetUpdateHead
  PROVE  TypeInv'
<1>1. RxTyped /\ PcTyped /\ CopyFits
  BY DEF TypeInv
<1>2. UNCHANGED <<txVars, wakeVars, ier, thre, loaded>>
  BY DEF Read, Get, GetUpdateHead
<1>3. \A place \in {"app", "get", "copy", "block"} : PlaceOf(Reader, place)
  BY TasksFacts DEF PlaceOf, ReaderPCs, BlockPCs
<1>4. CASE \E nbyte \in ReadLengths : Read(nbyte)
  <2>1. PICK nbyte \in ReadLengths : Read(nbyte)
    BY <1>4
  <2>2. rd' = [NotReading EXCEPT !.nbyte = nbyte] /\ UNCHANGED <<rx, rxcnt, received, delivered>>
    BY <2>1 DEF Read
  <2>3. rd' \in ReadLocals
    <3>1. nbyte \in Nat
      BY <2>1
    <3> QED
      BY <2>2, <3>1, NothingRead DEF ReadLocals
  <2>4. RxTyped'
    BY <1>1, <2>2, <2>3 DEF RxTyped
  <2>5. \E place \in {"get", "block"} : Goto(Reader, place)
    BY <2>1 DEF Read
  <2>6. PcTyped' /\ CopyFits'
    BY <1>1, <1>3, <2>5, GotoFacts, GotoCopyFits, TasksFacts
  <2> QED
    BY <1>2, <2>4, <2>6, KeepTypes DEF TypeInv
<1>5. CASE Get
  <2>1. PICK n : n = Min(rd.nbyte, Rx!Count(rx.tail))
    OBVIOUS
  <2>2. PICK raw : raw = Min(n, Rx!RawCount(rx.tail))
    OBVIOUS
  <2>3. /\ rd' = [rd EXCEPT !.nbyte = n, !.raw = raw]
        /\ Goto(Reader, IF n = 0 THEN "app" ELSE "copy")
        /\ UNCHANGED <<rx, rxcnt, received, delivered>>
    BY <1>5, <2>1, <2>2 DEF Get
  <2>4. n \in Nat /\ n <= Rx!Count(rx.tail) /\ Rx!Count(rx.tail) \in 0 .. NBytes - 1
    <3>1. rd.nbyte \in Nat /\ Rx!Count(rx.tail) \in 0 .. NBytes - 1
      BY <1>1, RingTypes, TailsInIndex DEF RxTyped, ReadLocals
    <3> QED
      BY <2>1, <3>1 DEF Min
  <2>5. /\ raw \in Nat /\ raw <= n /\ rx.head + raw <= NBytes
        /\ raw = n \/ rx.head + raw = NBytes
    <3>1. rx.head \in 0 .. NBytes - 1 /\ rx.tail \in 0 .. NBytes - 1
      BY <1>1, TailsInIndex, IndexFacts
    <3>2. /\ Rx!RawCount(rx.tail) = IF rx.head <= rx.tail THEN rx.tail - rx.head ELSE NBytes - rx.head
          /\ Rx!Count(rx.tail) = Turn(rx.tail - rx.head)
      BY RingOperators
    <3>3. CASE rx.head <= rx.tail
      <4>1. n <= rx.tail - rx.head
        BY <2>4, <3>1, <3>2, <3>3, TurnFacts
      <4>2. raw = n
        BY <2>2, <2>4, <3>1, <3>2, <3>3, <4>1 DEF Min
      <4> QED
        BY <2>4, <3>1, <4>1, <4>2
    <3>4. CASE rx.head > rx.tail
      BY <2>2, <2>4, <3>1, <3>2, <3>4 DEF Min
    <3> QED
      BY <3>1, <3>3, <3>4
  <2>6. rd' \in ReadLocals /\ rd'.nbyte = n /\ rd'.raw = raw /\ rx' = rx
    BY <1>1, <2>3, <2>4, <2>5 DEF RxTyped, ReadLocals
  <2>7. RxTyped'
    BY <1>1, <2>3, <2>6 DEF RxTyped
  <2>8. PICK place \in {"app", "copy"} : Goto(Reader, place)
    BY <2>3
  <2>9. PcTyped'
    BY <1>1, <1>3, <2>8, GotoFacts, TasksFacts
  <2>10. CopyFits'
    BY <2>4, <2>5, <2>6 DEF CopyFits
  <2> QED
    BY <1>2, <2>7, <2>9, <2>10, KeepTypes DEF TypeInv
<1>6. CASE GetUpdateHead
  <2>1. /\ rx' = [rx EXCEPT !.head = (@ + rd.nbyte) % NBytes]
        /\ delivered' = (delivered + rd.nbyte) % NBytes /\ rd' = NotReading
        /\ Goto(Reader, "app") /\ UNCHANGED <<rxcnt, received>>
    BY <1>6 DEF GetUpdateHead
  <2>2. /\ rd.nbyte \in Nat /\ delivered \in Nat /\ rx.head \in Nat
    BY <1>1, TailsInIndex, IndexFacts DEF RxTyped, ReadLocals
  <2>3. (rx.head + rd.nbyte) % NBytes \in Index /\ delivered' \in Byte
    <3>1. rx.head + rd.nbyte \in Int /\ delivered + rd.nbyte \in Int
      BY <2>2
    <3>2. Turn(rx.head + rd.nbyte) \in Index /\ Turn(delivered + rd.nbyte) \in Byte
      BY <3>1, TurnFacts, IndexFacts
    <3> QED
      BY <2>1, <3>2 DEF Turn
  <2>4. rx' \in Ring
    BY <1>1, <2>1, <2>3 DEF RxTyped, Ring
  <2>5. rd' \in ReadLocals
    BY <2>1, NothingRead
  <2>6. RxTyped'
    BY <1>1, <2>1, <2>3, <2>4, <2>5 DEF RxTyped
  <2>7. PcTyped' /\ CopyFits'
    BY <1>1, <1>3, <2>1, GotoFacts, GotoCopyFits, TasksFacts
  <2> QED
    BY <1>2, <2>6, <2>7, KeepTypes DEF TypeInv
<1> QED
  BY <1>4, <1>5, <1>6

\* The copy comes in two pieces, the first up to the end of the array.
LEMMA GetCopyFacts ==
  ASSUME TypeInv, GetCopy
  PROVE  /\ Goto(Reader, "update") /\ UNCHANGED <<rx, rxcnt, received, delivered>>
         /\ UNCHANGED <<txVars, wakeVars, ier, thre, loaded>>
         /\ rd' \in ReadLocals /\ rd'.nbyte = rd.nbyte
         /\ Len(rd'.data) = rd.nbyte
         /\ \A i \in 1 .. rd.nbyte :
              rd'.data[i] = IF i <= rd.raw THEN rx.buf[rx.head + i - 1] ELSE rx.buf[i - rd.raw - 1]
<1>1. PICK raw : raw = rd.raw
  OBVIOUS
<1>2. PICK data : data = Rx!CopiedOut(rx.head, raw) \o Rx!CopiedOut(0, rd.nbyte - raw)
  OBVIOUS
<1>3. /\ Goto(Reader, "update") /\ UNCHANGED <<rx, rxcnt, received, delivered>>
      /\ UNCHANGED <<txVars, wakeVars, ier, thre, loaded>>
      /\ rd' = [rd EXCEPT !.raw = 0, !.data = data] /\ pc[Reader] = "copy"
  BY <1>1, <1>2 DEF GetCopy, At
<1>4. RxTyped /\ rd.nbyte <= NBytes /\ rd.raw <= rd.nbyte /\ rx.head + rd.raw <= NBytes
  BY <1>3 DEF TypeInv, CopyFits
<1>5. rd \in ReadLocals /\ rd.nbyte \in Nat /\ rd.raw \in Nat /\ rx.head \in 0 .. NBytes - 1
  BY <1>4, TailsInIndex, IndexFacts DEF RxTyped, ReadLocals
<1>6. /\ raw \in Nat /\ raw <= rd.nbyte /\ rx.head + raw <= NBytes
  BY <1>1, <1>4, <1>5
<1>7. /\ Rx!CopiedOut(rx.head, raw) \in Seq(Byte) /\ Len(Rx!CopiedOut(rx.head, raw)) = raw
      /\ \A i \in 1 .. raw : Rx!CopiedOut(rx.head, raw)[i] = rx.buf[rx.head + i - 1]
  <2>1. rx.head \in Nat /\ raw \in Nat /\ rx.head + raw <= NBytes /\ RxTyped
    BY <1>4, <1>5, <1>6
  <2> QED
    BY <2>1, CopiedOutIs
<1>8. PICK m \in Nat : m = rd.nbyte - raw
  BY <1>5, <1>6
<1>9. /\ Rx!CopiedOut(0, m) \in Seq(Byte) /\ Len(Rx!CopiedOut(0, m)) = m
      /\ \A i \in 1 .. m : Rx!CopiedOut(0, m)[i] = rx.buf[0 + i - 1]
  <2>1. 0 \in Nat /\ 0 + m <= NBytes
    BY <1>4, <1>5, <1>6, <1>8
  <2> QED
    BY <1>4, <2>1, CopiedOutIs
<1>10. /\ data \in Seq(Byte) /\ Len(data) = raw + m
       /\ \A i \in 1 .. raw + m :
            data[i] = IF i <= raw THEN Rx!CopiedOut(rx.head, raw)[i] ELSE Rx!CopiedOut(0, m)[i - raw]
  <2>1. PICK a \in Seq(Byte) : a = Rx!CopiedOut(rx.head, raw)
    BY <1>7
  <2>2. PICK b \in Seq(Byte) : b = Rx!CopiedOut(0, m)
    BY <1>9
  <2>3. data = a \o b /\ Len(a) = raw /\ Len(b) = m
    BY <1>2, <1>7, <1>8, <1>9, <2>1, <2>2
  <2>4. /\ a \o b \in Seq(Byte) /\ Len(a \o b) = Len(a) + Len(b)
        /\ \A i \in 1 .. Len(a) + Len(b) :
             (a \o b)[i] = IF i <= Len(a) THEN a[i] ELSE b[i - Len(a)]
    BY ConcatProperties, Zenon
  <2> QED
    BY <2>1, <2>2, <2>3, <2>4
<1>11. rd' \in ReadLocals /\ rd'.nbyte = rd.nbyte /\ rd'.data = data
  BY <1>3, <1>5, <1>10 DEF ReadLocals
<1>12. \A i \in 1 .. rd.nbyte :
         data[i] = IF i <= raw THEN rx.buf[rx.head + i - 1] ELSE rx.buf[i - raw - 1]
  <2>1. ASSUME NEW i \in 1 .. rd.nbyte
        PROVE  data[i] = IF i <= raw THEN rx.buf[rx.head + i - 1] ELSE rx.buf[i - raw - 1]
    <3>1. CASE i <= raw
      <4>1. i \in 1 .. raw /\ i \in 1 .. raw + m
        BY <1>5, <1>6, <1>8, <3>1
      <4>2. data[i] = Rx!CopiedOut(rx.head, raw)[i]
        BY <1>10, <3>1, <4>1
      <4> QED
        BY <1>7, <3>1, <4>1, <4>2
    <3>2. CASE i > raw
      <4>1. i - raw \in 1 .. m /\ 0 + (i - raw) - 1 = i - raw - 1
        BY <1>5, <1>6, <1>8, <3>2
      <4> QED
        BY <1>5, <1>6, <1>8, <1>9, <1>10, <3>2, <4>1
    <3> QED
      BY <1>5, <1>6, <3>1, <3>2
  <2> QED
    BY <2>1
<1> QED
  BY <1>1, <1>3, <1>5, <1>6, <1>8, <1>10, <1>11, <1>12

LEMMA GetCopyTypes ==
  ASSUME TypeInv, GetCopy
  PROVE  TypeInv'
<1>1. RxTyped /\ PcTyped /\ CopyFits
  BY DEF TypeInv
<1>2. RxTyped'
  BY <1>1, GetCopyFacts DEF RxTyped
<1>3. PlaceOf(Reader, "update")
  BY TasksFacts DEF PlaceOf, ReaderPCs
<1>4. PcTyped' /\ CopyFits'
  BY <1>1, <1>3, GetCopyFacts, GotoFacts, GotoCopyFits, TasksFacts
<1> QED
  BY <1>2, <1>4, GetCopyFacts, KeepTypes DEF TypeInv

(***************************************************************************)
(* The writer and the confirmation keep the types                          *)
(***************************************************************************)
LEMMA SenderFacts ==
  /\ Writer \in {Writer, Isr} /\ Isr \in {Writer, Isr}
  /\ \A c \in {Writer, Isr} : c \in Tasks \cup {Isr} /\ c # Reader
  /\ \A c \in {Writer, Isr} : \A place \in ConfPCs \cup {IF c = Isr THEN "check" ELSE "txdone"} :
       PlaceOf(c, place) /\ place # "copy"
BY TasksFacts DEF PlaceOf, WriterPCs, IsrPCs, ConfPCs

LEMMA WriteTypes ==
  ASSUME TypeInv, (\E nbyte \in WriteLengths : Write(nbyte)) \/ WriteSpace
  PROVE  TypeInv'
<1>1. /\ UNCHANGED <<rxVars, tx, conf, written, sent, wakeVars, ier, thre, loaded>>
      /\ \E place \in {"space", "put"} : Goto(Writer, place)
  BY DEF Write, WriteSpace
<1>2. \A place \in {"space", "put"} : PlaceOf(Writer, place) /\ place # "copy"
  BY TasksFacts DEF PlaceOf, WriterPCs
<1>3. wr' \in [left : Nat, space : Nat]
  <2>1. CASE \E nbyte \in WriteLengths : Write(nbyte)
    <3>1. PICK nbyte \in WriteLengths : Write(nbyte)
      BY <2>1
    <3>2. nbyte \in Nat /\ wr' = [left |-> nbyte, space |-> 0]
      BY <3>1 DEF Write
    <3> QED
      BY <3>2
  <2>2. CASE WriteSpace
    <3>1. Tx!Space(tx.head) \in 0 .. NBytes - 1
      BY RingTypes, TailsInIndex DEF TypeInv
    <3>2. Tx!Space(tx.head) \in Nat
      BY <3>1
    <3> QED
      BY <2>2, <3>2 DEF WriteSpace, TypeInv, TxTyped
  <2> QED
    BY <2>1, <2>2
<1>4. TxTyped'
  BY <1>1, <1>3 DEF TypeInv, TxTyped
<1>5. PcTyped' /\ CopyFits'
  BY <1>1, <1>2, GotoFacts, GotoCopyFits, TasksFacts DEF TypeInv, rxVars
<1> QED
  BY <1>1, <1>4, <1>5, KeepTypes DEF TypeInv

\* What is put, and where: from the tail on, as many bytes as there are and fit.
LEMMA WritePutFacts ==
  ASSUME TypeInv, WritePut
  PROVE  /\ Goto(Writer, "starttx") /\ pc[Writer] = "put"
         /\ UNCHANGED <<rxVars, conf, sent, wakeVars, ier, thre, loaded>>
         /\ \E n \in Nat :
              /\ n = Min(wr.left, wr.space) /\ n <= wr.left /\ n <= wr.space
              /\ tx'.head = tx.head /\ tx'.tail = Turn(tx.tail + n)
              /\ tx' = [buf |-> tx'.buf, head |-> tx.head, tail |-> Turn(tx.tail + n)]
              /\ tx'.buf \in [Index -> Byte]
              /\ \A i \in Index : tx'.buf[i] = IF Turn(i - tx.tail) < n
                                                 THEN Turn(written + Turn(i - tx.tail))
                                                 ELSE tx.buf[i]
              /\ written' = Turn(written + n)
              /\ wr' = [left |-> wr.left - n, space |-> 0]
<1>1. PICK n : n = Min(wr.left, wr.space)
  OBVIOUS
<1>2. PICK put : put = [i \in Index |-> IF Turn(i - tx.tail) < n
                          THEN Turn(written + Turn(i - tx.tail)) ELSE tx.buf[i]]
  OBVIOUS
<1>3. /\ tx' = [tx EXCEPT !.buf = put, !.tail = Turn(@ + n)]
      /\ written' = Turn(written + n)
      /\ wr' = [left |-> wr.left - n, space |-> 0]
  BY <1>1, <1>2 DEF WritePut, Turn
<1>4. wr.left \in Nat /\ wr.space \in Nat
  BY DEF TypeInv, TxTyped
<1>5. n \in Nat /\ n <= wr.left /\ n <= wr.space
  BY <1>1, <1>4, MinFacts
<1>6. tx \in Ring /\ tx.buf \in [Index -> Byte] /\ tx.tail \in Index
  BY TailsInIndex DEF TypeInv, TxTyped
<1>7. put \in [Index -> Byte]
  <2>1. ASSUME NEW i \in Index
        PROVE  Turn(written + Turn(i - tx.tail)) \in Byte /\ tx.buf[i] \in Byte
    <3>1. i - tx.tail \in Int
      BY <1>6, IndexFacts
    <3>2. PICK k \in 0 .. NBytes - 1 : k = Turn(i - tx.tail)
      BY <3>1, TurnFacts
    <3>3. written + k \in Int
      BY IndexFacts DEF TypeInv, TxTyped
    <3> QED
      BY <1>6, <3>2, <3>3, TurnFacts, IndexFacts
  <2> QED
    BY <1>2, <2>1
<1>8. tx' = [buf |-> put, head |-> tx.head, tail |-> Turn(tx.tail + n)]
  BY <1>3, <1>6 DEF Ring
<1>9. tx'.buf = put /\ tx'.head = tx.head /\ tx'.tail = Turn(tx.tail + n)
  BY <1>8
<1>10. /\ Goto(Writer, "starttx") /\ pc[Writer] = "put"
       /\ UNCHANGED <<rxVars, conf, sent, wakeVars, ier, thre, loaded>>
  BY DEF WritePut, At
<1>11. \A i \in Index : tx'.buf[i] = IF Turn(i - tx.tail) < n
                                       THEN Turn(written + Turn(i - tx.tail)) ELSE tx.buf[i]
  BY <1>2, <1>9
<1> QED
  BY <1>1, <1>3, <1>5, <1>7, <1>8, <1>9, <1>10, <1>11

LEMMA WritePutTypes ==
  ASSUME TypeInv, WritePut
  PROVE  TypeInv'
<1>1. PICK n \in Nat :
        /\ n <= wr.left /\ tx'.buf \in [Index -> Byte]
        /\ tx' = [buf |-> tx'.buf, head |-> tx.head, tail |-> Turn(tx.tail + n)]
        /\ written' = Turn(written + n) /\ wr' = [left |-> wr.left - n, space |-> 0]
  BY WritePutFacts
<1>2. /\ Goto(Writer, "starttx")
      /\ UNCHANGED <<rxVars, conf, sent, wakeVars, ier, thre, loaded>>
  BY WritePutFacts
<1>3. tx.head \in Index /\ tx.tail \in 0 .. NBytes - 1 /\ written \in 0 .. NBytes - 1
  BY TailsInIndex, IndexFacts DEF TypeInv, TxTyped
<1>4. Turn(tx.tail + n) \in Index /\ written' \in Byte
  <2>1. tx.tail + n \in Int /\ written + n \in Int
    BY <1>3
  <2> QED
    BY <1>1, <2>1, TurnFacts, IndexFacts
<1>5. tx' \in Ring
  BY <1>1, <1>3, <1>4 DEF Ring
<1>6. wr' \in [left : Nat, space : Nat]
  <2>1. wr.left \in Nat
    BY DEF TypeInv, TxTyped
  <2>2. wr.left - n \in Nat
    BY <1>1, <2>1
  <2> QED
    BY <1>1, <2>2
<1>7. TxTyped'
  BY <1>2, <1>4, <1>5, <1>6 DEF TypeInv, TxTyped
<1>8. PlaceOf(Writer, "starttx")
  BY TasksFacts DEF PlaceOf, WriterPCs
<1>9. PcTyped' /\ CopyFits'
  BY <1>2, <1>8, GotoFacts, GotoCopyFits, TasksFacts DEF TypeInv, rxVars
<1> QED
  BY <1>2, <1>7, <1>9, KeepTypes DEF TypeInv

LEMMA StartTxTypes ==
  ASSUME TypeInv, StartTx \/ StartTxEnd
  PROVE  TypeInv'
<1>1. \A place \in {"txoff", "confirm", "txon", "block", "app"} :
        PlaceOf(Writer, place) /\ place # "copy"
  BY TasksFacts DEF PlaceOf, WriterPCs, ConfPCs, BlockPCs
<1>2. Writer \in Tasks /\ "tx" \in {"rx", "tx"} /\ TRUE \in BOOLEAN /\ FALSE \in BOOLEAN
  BY TasksFacts
<1>3. CASE StartTx
  BY <1>1, <1>2, <1>3, IerLoadTypes, IerStoreTypes DEF StartTx
<1>4. CASE StartTxEnd
  BY <1>1, <1>2, <1>4, IerLoadTypes, IerStoreTypes DEF StartTxEnd
<1> QED
  BY <1>3, <1>4


LEMMA ConfirmTypes ==
  ASSUME TypeInv, NEW c \in {Writer, Isr}, Confirm(c)
  PROVE  TypeInv'
<1>1. UNCHANGED <<rxVars, tx, wr, written, sent, wakeVars, ier, thre, loaded>>
  BY DEF Confirm
<1>2. PICK place \in ConfPCs \cup {IF c = Isr THEN "check" ELSE "txdone"} : Goto(c, place)
  BY DEF Confirm, Confirmed, ConfPCs
<1>3. PcTyped' /\ CopyFits'
  BY <1>1, <1>2, SenderFacts, GotoFacts, GotoCopyFits DEF TypeInv, rxVars
<1>4. conf' \in [{Writer, Isr} -> ConfLocals]
  <2>1. PICK count, raw : count = Tx!Count(tx.tail) /\ raw = Tx!RawCount(tx.tail)
    OBVIOUS
  <2>2. tx.tail \in Index /\ count \in Nat /\ raw \in Nat
    <3>1. count \in 0 .. NBytes - 1 /\ raw \in 0 .. NBytes
      BY <2>1, RingTypes, TailsInIndex DEF TypeInv
    <3> QED
      BY <3>1, TailsInIndex DEF TypeInv
  <2>3. blocked.taskID \in Tasks \cup {NoTask}
    BY DEF TypeInv, WakeTyped
  <2>4. conf \in [{Writer, Isr} -> ConfLocals]
    BY DEF TypeInv, TxTyped
  <2>5. PICK local : local = [task |-> blocked.taskID, tail |-> tx.tail, raw |-> raw,
                              count |-> count, write |-> 0, first |-> TRUE]
    OBVIOUS
  <2>6. local \in ConfLocals
    BY <2>2, <2>3, <2>5 DEF ConfLocals
  <2>7. conf' = conf \/ conf' = [conf EXCEPT ![c] = local]
    BY <2>1, <2>5 DEF Confirm
  <2> QED
    BY <2>4, <2>6, <2>7
<1>5. TxTyped'
  BY <1>1, <1>4 DEF TypeInv, TxTyped
<1> QED
  BY <1>1, <1>3, <1>5, KeepTypes DEF TypeInv

LEMMA NothingConfirmed == NotConfirming \in ConfLocals /\ NotConfirming.task = NoTask
BY IndexFacts DEF NotConfirming, ConfLocals

LEMMA SendTypes ==
  ASSUME TypeInv, NEW c \in {Writer, Isr}, SendByte(c) \/ SendEnd(c) \/ SendMore(c)
  PROVE  TypeInv'
<1>1. conf \in [{Writer, Isr} -> ConfLocals] /\ conf[c] \in ConfLocals
  BY DEF TypeInv, TxTyped
<1>2. conf[c].write \in Nat /\ conf[c].tail \in Index
  BY <1>1 DEF ConfLocals
<1>3. tx \in Ring /\ tx.head \in 0 .. NBytes - 1 /\ tx.buf \in [Index -> Byte]
  BY TailsInIndex, IndexFacts DEF TypeInv, TxTyped
<1>4. (tx.head + conf[c].write) % NBytes \in Index
  <2>1. tx.head + conf[c].write \in Int
    BY <1>2, <1>3
  <2> QED
    BY <2>1, TurnFacts, IndexFacts DEF Turn
<1>5. CASE SendByte(c)
  <2>1. UNCHANGED <<rxVars, tx, wr, written, wakeVars, ier, pc, loaded>>
    BY <1>5 DEF SendByte
  <2>2. sent' \in Byte
    BY <1>3, <1>4, <1>5 DEF SendByte
  <2>3. conf' \in [{Writer, Isr} -> ConfLocals]
    <3>1. conf' = [conf EXCEPT ![c].write = conf[c].write + 1]
      BY <1>5 DEF SendByte
    <3>2. conf[c].write + 1 \in Nat
      BY <1>2
    <3> QED
      BY <1>1, <3>1, <3>2 DEF ConfLocals
  <2>4. TxTyped'
    BY <2>1, <2>2, <2>3 DEF TypeInv, TxTyped
  <2>5. FlagsTyped'
    BY <1>5, <2>1 DEF TypeInv, FlagsTyped, SendByte
  <2>6. UNCHANGED <<rd, rx>>
    BY <2>1 DEF rxVars
  <2> QED
    BY <2>1, <2>4, <2>5, <2>6, KeepTypes DEF TypeInv
<1>6. CASE SendEnd(c)
  <2>1. UNCHANGED <<rxVars, wr, written, sent, wakeVars, ier, thre, loaded>>
    BY <1>6 DEF SendEnd
  <2>2. tx' = [tx EXCEPT !.head = (tx.head + conf[c].write) % NBytes]
    BY <1>6 DEF SendEnd
  <2>3. tx' \in Ring
    BY <1>3, <1>4, <2>2 DEF Ring
  <2>4. conf' \in [{Writer, Isr} -> ConfLocals]
    <3>1. PICK local : local = [NotConfirming EXCEPT !.task = conf[c].task]
      OBVIOUS
    <3>2. local \in ConfLocals
      BY <1>1, <3>1, NothingConfirmed DEF ConfLocals
    <3>3. conf' = conf \/ conf' = [conf EXCEPT ![c] = local]
      BY <1>6, <3>1 DEF SendEnd
    <3> QED
      BY <1>1, <3>2, <3>3
  <2>5. TxTyped'
    BY <2>1, <2>3, <2>4 DEF TypeInv, TxTyped
  <2>6. PICK place \in ConfPCs : Goto(c, place)
    BY <1>6 DEF SendEnd, ConfPCs
  <2>7. PcTyped' /\ CopyFits'
    BY <2>1, <2>6, SenderFacts, GotoFacts, GotoCopyFits DEF TypeInv, rxVars
  <2> QED
    BY <2>1, <2>5, <2>7, KeepTypes DEF TypeInv
<1>7. CASE SendMore(c)
  <2>1. UNCHANGED <<rxVars, tx, wr, written, sent, wakeVars, ier, thre, loaded>>
    BY <1>7 DEF SendMore
  <2>2. PICK raw : raw = Tx!RawCount(conf[c].tail)
    OBVIOUS
  <2>3. raw \in Nat
    <3>1. raw \in 0 .. NBytes
      BY <1>2, <2>2, RingTypes DEF TypeInv
    <3> QED
      BY <3>1
  <2>4. conf' = [conf EXCEPT ![c].raw = raw, ![c].write = 0, ![c].first = FALSE]
    BY <1>7, <2>2 DEF SendMore
  <2>5. conf' \in [{Writer, Isr} -> ConfLocals]
    BY <1>1, <2>3, <2>4 DEF ConfLocals
  <2>6. TxTyped'
    BY <2>1, <2>5 DEF TypeInv, TxTyped
  <2>7. PICK place \in ConfPCs : Goto(c, place)
    BY <1>7 DEF SendMore, ConfPCs
  <2>8. PcTyped' /\ CopyFits'
    BY <2>1, <2>7, SenderFacts, GotoFacts, GotoCopyFits DEF TypeInv, rxVars
  <2> QED
    BY <2>1, <2>6, <2>8, KeepTypes DEF TypeInv
<1> QED
  BY <1>5, <1>6, <1>7

LEMMA WakeTypes ==
  ASSUME TypeInv, NEW c \in {Writer, Isr}, WakeWriter(c)
  PROVE  TypeInv'
<1>1. UNCHANGED <<rxVars, tx, wr, written, sent, ier, thre, loaded>>
  BY DEF WakeWriter
<1>2. PICK place \in ConfPCs \cup {IF c = Isr THEN "check" ELSE "txdone"} : Goto(c, place)
  BY DEF WakeWriter, Confirmed
<1>3. PcTyped' /\ CopyFits'
  BY <1>1, <1>2, SenderFacts, GotoFacts, GotoCopyFits DEF TypeInv, rxVars
<1>4. TxTyped'
  <2>1. conf' = [conf EXCEPT ![c] = NotConfirming]
    BY DEF WakeWriter
  <2>2. conf' \in [{Writer, Isr} -> ConfLocals]
    BY <2>1, NothingConfirmed DEF TypeInv, TxTyped
  <2> QED
    BY <1>1, <2>2 DEF TypeInv, TxTyped
<1>5. WakeTyped'
  <2>1. CASE conf[c].task # NoTask /\ blocked.fct = "write"
    <3>1. conf[c].task \in Tasks
      BY <2>1 DEF TypeInv, TxTyped, ConfLocals
    <3>2. blocked' = NoneBlocked /\ event' = [event EXCEPT ![conf[c].task] = TRUE]
      BY <2>1 DEF WakeWriter
    <3> QED
      BY <3>1, <3>2 DEF TypeInv, WakeTyped, NoneBlocked
  <2>2. CASE ~(conf[c].task # NoTask /\ blocked.fct = "write")
    BY <2>2, KeepTypes DEF WakeWriter, TypeInv
  <2> QED
    BY <2>1, <2>2
<1> QED
  BY <1>1, <1>3, <1>4, <1>5, KeepTypes DEF TypeInv

LEMMA ConfirmationTypes ==
  ASSUME TypeInv, NEW c \in {Writer, Isr}, TxConfirmation(c)
  PROVE  TypeInv'
BY ConfirmTypes, SendTypes, WakeTypes DEF TxConfirmation


(***************************************************************************)
(* The ISR keeps the types                                                 *)
(***************************************************************************)
LEMMA DriverReadFacts ==
  ASSUME NEW size \in Nat, NEW n \in Nat
  PROVE  /\ DriverRead(size, n) \in Int /\ DriverRead(size, n) <= n
         /\ size = 0 => DriverRead(size, n) = -1
         /\ size > 0 => DriverRead(size, n) = Min(size, n) /\ DriverRead(size, n) \in Nat
BY DEF DriverRead, Min

LEMMA RawSpaceIs ==
  RxTyped => /\ Rx!RawSpace(rx.head) = IF rx.tail >= rx.head
                                        THEN NBytes - 1 - rx.tail + (IF rx.head > 0 THEN 1 ELSE 0)
                                        ELSE rx.head - rx.tail - 1
             /\ Rx!RawSpace(rx.head) \in Nat
             /\ rx.tail + Rx!RawSpace(rx.head) <= NBytes
<1>1. SUFFICES ASSUME RxTyped
      PROVE  /\ Rx!RawSpace(rx.head) = IF rx.tail >= rx.head
                                        THEN NBytes - 1 - rx.tail + (IF rx.head > 0 THEN 1 ELSE 0)
                                        ELSE rx.head - rx.tail - 1
             /\ Rx!RawSpace(rx.head) \in Nat
             /\ rx.tail + Rx!RawSpace(rx.head) <= NBytes
  OBVIOUS
<1>2. rx.head \in 0 .. NBytes - 1 /\ rx.tail \in 0 .. NBytes - 1
  BY <1>1, TailsInIndex, IndexFacts
<1> QED
  BY <1>2 DEF Rx!RawSpace

\* What the driver returns for the two pieces, with n bytes in hwbuf.
Pieces(n, first, second) ==
  /\ first = DriverRead(Rx!RawSpace(rx.head), n)
  /\ second = IF first = Rx!RawSpace(rx.head) /\ Rx!Space(rx.head) > Rx!RawSpace(rx.head)
                THEN DriverRead(Rx!Space(rx.head) - Rx!RawSpace(rx.head), n - first) ELSE 0

LEMMA PiecesFacts ==
  ASSUME RxTyped, NEW n \in Nat, NEW first, NEW second, Pieces(n, first, second)
  PROVE  /\ first \in Int /\ first <= n /\ second \in Nat
         /\ first + second <= n
         /\ second > 0 => first >= 0
<1>1. PICK raw : raw = Rx!RawSpace(rx.head)
  OBVIOUS
<1>2. PICK space : space = Rx!Space(rx.head)
  OBVIOUS
<1>3. raw \in Nat /\ space \in Nat
  <2>1. space \in 0 .. NBytes - 1
    BY <1>2, RingTypes, TailsInIndex
  <2> QED
    BY <1>1, <2>1, RawSpaceIs
<1>4. first = DriverRead(raw, n)
  BY <1>1 DEF Pieces
<1>5. first \in Int /\ first <= n /\ (raw = 0 => first = -1) /\ (raw > 0 => first \in Nat)
  BY <1>3, <1>4, DriverReadFacts
<1>6. second = IF first = raw /\ space > raw THEN DriverRead(space - raw, n - first) ELSE 0
  BY <1>1, <1>2 DEF Pieces
<1>7. CASE first = raw /\ space > raw
  <2>1. space - raw \in Nat /\ space - raw > 0 /\ n - first \in Nat /\ first \in Nat
    BY <1>3, <1>5, <1>7
  <2>2. second \in Nat /\ second <= n - first
    BY <1>6, <1>7, <2>1, DriverReadFacts
  <2> QED
    BY <1>3, <1>5, <2>1, <2>2
<1>8. CASE ~(first = raw /\ space > raw)
  BY <1>3, <1>5, <1>6, <1>8
<1> QED
  BY <1>7, <1>8

LEMMA IndicationFacts ==
  ASSUME RxTyped, NEW n \in Nat, RxIndication(n)
  PROVE  \E first \in Int, second \in Nat :
           /\ Pieces(n, first, second)
           /\ rx' = [buf |-> rx'.buf, head |-> rx.head, tail |-> Turn(rx.tail + (first + second))]
           /\ rx'.buf \in [Index -> Byte]
           /\ \A i \in Index :
                rx'.buf[i] = IF i - rx.tail \in 0 .. first - 1 THEN Turn(received + (i - rx.tail))
                             ELSE IF i < second THEN Turn(received + (first + i)) ELSE rx.buf[i]
           /\ rxcnt' = IF first + second > 0 THEN n - (first + second) ELSE n
           /\ received' = Turn(received + (first + second))
           /\ IF first + second # 0 /\ blocked.taskID # NoTask /\ blocked.fct = "read"
                THEN blocked' = NoneBlocked /\ event' = [event EXCEPT ![blocked.taskID] = TRUE]
                ELSE UNCHANGED wakeVars
<1>1. PICK first : first = DriverRead(Rx!RawSpace(rx.head), n)
  OBVIOUS
<1>2. PICK second :
        second = IF first = Rx!RawSpace(rx.head) /\ Rx!Space(rx.head) > Rx!RawSpace(rx.head)
                   THEN DriverRead(Rx!Space(rx.head) - Rx!RawSpace(rx.head), n - first) ELSE 0
  OBVIOUS
<1>3. Pieces(n, first, second)
  BY <1>1, <1>2 DEF Pieces
<1>4. PICK buf : buf = [i \in Index |->
                    IF i - rx.tail \in 0 .. first - 1 THEN Turn(received + (i - rx.tail))
                    ELSE IF i < second THEN Turn(received + (first + i)) ELSE rx.buf[i]]
  OBVIOUS
<1>5. /\ rx' = [rx EXCEPT !.tail = Turn(@ + (first + second)), !.buf = buf]
      /\ rxcnt' = IF first + second > 0 THEN n - (first + second) ELSE n
      /\ received' = Turn(received + (first + second))
      /\ IF first + second # 0 /\ blocked.taskID # NoTask /\ blocked.fct = "read"
           THEN blocked' = NoneBlocked /\ event' = [event EXCEPT ![blocked.taskID] = TRUE]
           ELSE UNCHANGED wakeVars
  BY <1>1, <1>2, <1>4 DEF RxIndication, Turn
<1>6. /\ first \in Int /\ second \in Nat
  BY <1>3, PiecesFacts
<1>7. rx \in Ring /\ rx.buf \in [Index -> Byte] /\ rx.tail \in 0 .. NBytes - 1
      /\ received \in 0 .. NBytes - 1
  BY TailsInIndex, IndexFacts DEF RxTyped
<1>8. buf \in [Index -> Byte]
  <2>1. ASSUME NEW i \in Index
        PROVE  (IF i - rx.tail \in 0 .. first - 1 THEN Turn(received + (i - rx.tail))
                ELSE IF i < second THEN Turn(received + (first + i)) ELSE rx.buf[i]) \in Byte
    <3>1. i \in 0 .. NBytes - 1
      BY IndexFacts
    <3>2. received + (i - rx.tail) \in Int /\ received + (first + i) \in Int
      BY <1>6, <1>7, <3>1
    <3>3. Turn(received + (i - rx.tail)) \in Byte /\ Turn(received + (first + i)) \in Byte
      BY <3>2, TurnFacts, IndexFacts
    <3> QED
      BY <1>7, <3>3
  <2> QED
    BY <1>4, <2>1
<1>9. rx' = [buf |-> buf, head |-> rx.head, tail |-> Turn(rx.tail + (first + second))]
  BY <1>5, <1>7 DEF Ring
<1>10. rx'.buf = buf
  BY <1>9
<1>11. \A i \in Index :
         rx'.buf[i] = IF i - rx.tail \in 0 .. first - 1 THEN Turn(received + (i - rx.tail))
                      ELSE IF i < second THEN Turn(received + (first + i)) ELSE rx.buf[i]
  BY <1>4, <1>10
<1> QED
  BY <1>3, <1>5, <1>6, <1>8, <1>9, <1>10, <1>11

\* The count the indication works on fits hwbuf, overrun or not.
LEMMA IsrEnterFacts ==
  ASSUME RxTyped, NEW k \in Nat, IsrEnter(k)
  PROVE  /\ pc[Isr] = "app"
         /\ \/ \E n \in 0 .. UART_RX_FIFO_SIZE : RxIndication(n)
            \/ UNCHANGED <<rx, rxcnt, received, wakeVars>>
         /\ (thre /\ ier["tx"] /\ Goto(Isr, "confirm")) \/ Goto(Isr, "app")
         /\ UNCHANGED <<rd, delivered, txVars, ier, thre, loaded>>
<1>1. k <= 1 \/ rxcnt + k <= UART_RX_FIFO_SIZE
  BY DEF IsrEnter
<1>2. rxcnt \in 0 .. UART_RX_FIFO_SIZE
  BY DEF RxTyped
<1>3. Stored(k) \subseteq 0 .. UART_RX_FIFO_SIZE
  BY <1>1, <1>2 DEF Stored
<1> QED
  BY <1>3 DEF IsrEnter

LEMMA IndicationTypes ==
  ASSUME TypeInv, NEW n \in 0 .. UART_RX_FIFO_SIZE, RxIndication(n)
  PROVE  /\ rx' \in Ring /\ rx'.head = rx.head /\ rxcnt' \in 0 .. UART_RX_FIFO_SIZE
         /\ received' \in Byte /\ WakeTyped'
<1>1. RxTyped /\ n \in Nat
  BY DEF TypeInv
<1>2. PICK first \in Int, second \in Nat :
        /\ Pieces(n, first, second)
        /\ rx' = [buf |-> rx'.buf, head |-> rx.head, tail |-> Turn(rx.tail + (first + second))]
        /\ rx'.buf \in [Index -> Byte]
        /\ rxcnt' = IF first + second > 0 THEN n - (first + second) ELSE n
        /\ received' = Turn(received + (first + second))
        /\ IF first + second # 0 /\ blocked.taskID # NoTask /\ blocked.fct = "read"
             THEN blocked' = NoneBlocked /\ event' = [event EXCEPT ![blocked.taskID] = TRUE]
             ELSE UNCHANGED wakeVars
  BY <1>1, IndicationFacts
<1>3. rx' \in Ring /\ rx'.head = rx.head
  <2>1. rx.head \in Index /\ rx.tail \in 0 .. NBytes - 1
    BY <1>1, TailsInIndex, IndexFacts
  <2>2. rx.tail + (first + second) \in Int
    BY <2>1
  <2>3. Turn(rx.tail + (first + second)) \in Index
    BY <2>2, TurnFacts, IndexFacts
  <2> QED
    BY <1>2, <2>1, <2>3 DEF Ring
<1>4. rxcnt' \in 0 .. UART_RX_FIFO_SIZE
  <2>1. first + second \in Int /\ first + second <= n
    BY <1>1, <1>2, PiecesFacts
  <2> QED
    BY <1>2, <2>1
<1>5. received' \in Byte
  <2>1. received + (first + second) \in Int
    BY <1>1, IndexFacts DEF RxTyped
  <2> QED
    BY <1>2, <2>1, TurnFacts, IndexFacts
<1>6. WakeTyped'
  <2>1. CASE first + second # 0 /\ blocked.taskID # NoTask /\ blocked.fct = "read"
    <3>1. blocked' = NoneBlocked /\ event' = [event EXCEPT ![blocked.taskID] = TRUE]
      BY <1>2, <2>1
    <3> QED
      BY <3>1 DEF TypeInv, WakeTyped, NoneBlocked
  <2>2. CASE ~(first + second # 0 /\ blocked.taskID # NoTask /\ blocked.fct = "read")
    BY <1>2, <2>2, KeepTypes DEF TypeInv
  <2> QED
    BY <2>1, <2>2
<1> QED
  BY <1>3, <1>4, <1>5, <1>6

LEMMA IsrEnterTypes ==
  ASSUME TypeInv, NEW k \in Nat, IsrEnter(k)
  PROVE  TypeInv'
<1>1. RxTyped
  BY DEF TypeInv
<1>2. UNCHANGED <<rd, delivered, txVars, ier, thre, loaded>>
  BY <1>1, IsrEnterFacts
<1>3. PICK place \in {"confirm", "app"} : Goto(Isr, place)
  BY <1>1, IsrEnterFacts
<1>4. \A p \in {"confirm", "app"} : PlaceOf(Isr, p) /\ p # "copy"
  BY TasksFacts DEF PlaceOf, IsrPCs, ConfPCs
<1>5. /\ rx' \in Ring /\ rx'.head = rx.head /\ rxcnt' \in 0 .. UART_RX_FIFO_SIZE
      /\ received' \in Byte /\ WakeTyped'
  <2>1. CASE \E n \in 0 .. UART_RX_FIFO_SIZE : RxIndication(n)
    BY <2>1, IndicationTypes
  <2>2. CASE UNCHANGED <<rx, rxcnt, received, wakeVars>>
    BY <1>1, <2>2, KeepTypes DEF TypeInv, RxTyped
  <2> QED
    BY <1>1, <2>1, <2>2, IsrEnterFacts
<1>6. PcTyped' /\ CopyFits'
  BY <1>2, <1>3, <1>4, <1>5, GotoFacts, GotoCopyFits DEF TypeInv
<1>7. RxTyped'
  BY <1>1, <1>2, <1>5 DEF RxTyped
<1> QED
  BY <1>2, <1>6, <1>7, <1>5, KeepTypes DEF TypeInv

LEMMA OtherTypes ==
  ASSUME TypeInv, IsrCheck \/ TransmitterEmpty \/ UNCHANGED vars
  PROVE  TypeInv'
<1>1. CASE IsrCheck
  <2>1. Goto(Isr, "app") /\ UNCHANGED <<rxVars, txVars, wakeVars, thre, loaded>>
    BY <1>1 DEF IsrCheck
  <2>2. FlagsTyped'
    BY <1>1 DEF IsrCheck, TypeInv, FlagsTyped
  <2>3. PlaceOf(Isr, "app")
    BY TasksFacts DEF PlaceOf, IsrPCs
  <2>4. PcTyped' /\ CopyFits'
    BY <2>1, <2>3, GotoFacts, GotoCopyFits DEF TypeInv, rxVars
  <2> QED
    BY <2>1, <2>2, <2>4, KeepTypes DEF TypeInv
<1>2. CASE TransmitterEmpty
  <2>1. UNCHANGED <<rxVars, txVars, wakeVars, ier, pc, loaded>> /\ thre' = TRUE
    BY <1>2 DEF TransmitterEmpty
  <2>2. FlagsTyped' /\ UNCHANGED <<pc, rd, rx>>
    BY <2>1 DEF TypeInv, FlagsTyped, rxVars
  <2> QED
    BY <2>1, <2>2, KeepTypes DEF TypeInv
<1>3. CASE UNCHANGED vars
  <2>1. UNCHANGED <<rxVars, txVars, wakeVars, ier, thre, pc, loaded>> /\ UNCHANGED <<pc, rd, rx>>
    BY <1>3 DEF vars, rxVars
  <2> QED
    BY <2>1, KeepTypes DEF TypeInv
<1> QED
  BY <1>1, <1>2, <1>3

LEMMA InitTypes ==
  ASSUME Init
  PROVE  TypeInv
<1>1. 0 \in Index /\ 0 \in Byte /\ 1 \in Byte /\ 0 \in 0 .. UART_RX_FIFO_SIZE
  BY IndexFacts
<1>2. EmptyRing \in Ring
  BY <1>1 DEF EmptyRing, Ring
<1>3. RxTyped
  BY <1>1, <1>2, NothingRead DEF Init, RxTyped
<1>4. TxTyped
  BY <1>1, <1>2, NothingConfirmed DEF Init, TxTyped
<1>5. WakeTyped /\ FlagsTyped
  <2>1. blocked = NoneBlocked /\ event \in [Tasks -> BOOLEAN] /\ thre = TRUE
    BY DEF Init, NoneBlocked
  <2>2. ier \in [{"rx", "tx"} -> BOOLEAN] /\ loaded \in [Tasks -> [{"rx", "tx"} -> BOOLEAN]]
    BY DEF Init, NoneEnabled
  <2> QED
    BY <2>1, <2>2 DEF WakeTyped, FlagsTyped, NoneBlocked
<1>6. PcTyped /\ CopyFits
  <2>1. "app" \in PCs /\ "app" \in ReaderPCs /\ "app" \in WriterPCs /\ "app" \in IsrPCs
    BY DEF PCs, ReaderPCs, WriterPCs, IsrPCs
  <2>2. pc[Reader] = "app" /\ pc[Writer] = "app" /\ pc[Isr] = "app"
        /\ pc \in [Tasks \cup {Isr} -> PCs]
    BY <2>1, TasksFacts DEF Init
  <2> QED
    BY <2>1, <2>2 DEF PcTyped, CopyFits
<1> QED
  BY <1>3, <1>4, <1>5, <1>6 DEF TypeInv

\* The steps, one by one: what a proof about any of them goes through.
LEMMA StepCases ==
  ASSUME [Next]_vars
  PROVE  \/ (\E nbyte \in ReadLengths : Read(nbyte)) \/ Get \/ GetCopy \/ GetUpdateHead
         \/ \E t \in Tasks : Block(t)
         \/ (\E nbyte \in WriteLengths : Write(nbyte)) \/ WriteSpace \/ WritePut
         \/ StartTx \/ StartTxEnd
         \/ \E c \in {Writer, Isr} : TxConfirmation(c)
         \/ \E k \in Nat : IsrEnter(k)
         \/ IsrCheck \/ TransmitterEmpty \/ UNCHANGED vars
BY TasksFacts DEF Next, ReadAgain, ReadCall, WriteCall, IsrRun

LEMMA NextTypes == TypeInv /\ [Next]_vars => TypeInv'
BY StepCases, ReadTypes, GetCopyTypes, BlockTypes, WriteTypes, WritePutTypes, StartTxTypes,
   ConfirmationTypes, IsrEnterTypes, OtherTypes

LEMMA TypesHold == Spec => []TypeInv
<1>1. Init => TypeInv
  BY InitTypes
<1>2. TypeInv /\ [Next]_vars => TypeInv'
  BY NextTypes
<1> QED
  BY <1>1, <1>2, PTL DEF Spec

\* Indices stay within the arrays, and no local or flag takes another value.
THEOREM TypeCorrect == Spec => []TypeOK
BY TypesHold, TypeInvImplies, PTL


(***************************************************************************)
(* The slot: who is in it waits, or is about to                            *)
(***************************************************************************)
SlotPCs == {"fct", "unblock", "rxtxon", "wait"}
AwaitPCs == SlotPCs \cup {"clear"}
SentPCs == {"send", "more", "wake"}

\* The task in the slot has not been told, and is on its way to the wait.
InSlot == \A t \in Tasks : blocked.taskID = t => pc[t] \in SlotPCs /\ ~event[t]

\* A task that has been told has still to take notice.
Told == \A t \in Tasks : event[t] => pc[t] \in AwaitPCs

\* A confirmation tells the task it found in the slot: it is still there if
\* there still is a writer.
FoundInSlot ==
  \A c \in {Writer, Isr} :
    pc[c] \in SentPCs /\ conf[c].task # NoTask /\ blocked.fct = "write"
      => conf[c].task = blocked.taskID

SlotInv == InSlot /\ Told /\ FoundInSlot

LEMMA SlotInvImplies == SlotInv => NoStaleEvent
BY DEF SlotInv, Told, NoStaleEvent, AwaitPCs, SlotPCs, BlockPCs

LEMMA RunsFacts ==
  /\ \A t, place : At(t, place) => pc[t] = place /\ pc[Isr] = "app"
  /\ \A c \in {Writer, Isr} : \A place :
       Runs(c, place) => pc[c] = place /\ (c = Writer => At(c, place))
BY TasksFacts DEF At, Runs

\* A step of c that concerns neither the slot nor the events.
LEMMA PlainSlot ==
  ASSUME TypeInv, SlotInv, UNCHANGED wakeVars, NEW c \in Tasks \cup {Isr}, NEW to, PlaceOf(c, to),
         Goto(c, to),
         \A d \in {Writer, Isr} : conf'[d].task = conf[d].task,
         c \in Tasks => pc[c] \notin AwaitPCs \/ (pc[c] \in SlotPCs /\ to \in SlotPCs),
         to \in SentPCs => pc[c] \in SentPCs
  PROVE  SlotInv'
<1>1. /\ pc'[c] = to /\ \A d \in Tasks \cup {Isr} : d # c => pc'[d] = pc[d]
  BY GotoFacts DEF TypeInv
<1>2. blocked' = blocked /\ event' = event
  BY DEF wakeVars
<1>3. SlotPCs \subseteq AwaitPCs
  BY DEF AwaitPCs
<1>4. InSlot'
  BY <1>1, <1>2, <1>3, Zenon DEF SlotInv, InSlot
<1>5. Told'
  BY <1>1, <1>2, <1>3, Zenon DEF SlotInv, Told
<1>6. FoundInSlot'
  BY <1>1, <1>2, SenderFacts DEF SlotInv, FoundInSlot
<1> QED
  BY <1>4, <1>5, <1>6 DEF SlotInv

\* The slot is emptied, and the task in it told.
LEMMA TellSlot ==
  ASSUME TypeInv, SlotInv, NEW t \in Tasks, blocked.taskID = t,
         blocked' = NoneBlocked, event' = [event EXCEPT ![t] = TRUE],
         NEW c \in {Writer, Isr}, NEW to, PlaceOf(c, to), Goto(c, to),
         c = Writer => pc[c] \notin AwaitPCs
  PROVE  SlotInv'
<1>1. /\ pc'[c] = to /\ \A d \in Tasks \cup {Isr} : d # c => pc'[d] = pc[d]
  BY GotoFacts, SenderFacts DEF TypeInv
<1>2. InSlot' /\ FoundInSlot'
  BY DEF NoneBlocked, InSlot, FoundInSlot
<1>3. pc[t] \in SlotPCs
  BY DEF SlotInv, InSlot
<1>4. SlotPCs \subseteq AwaitPCs
  BY DEF AwaitPCs
<1>5. ASSUME NEW u \in Tasks, event'[u]
      PROVE  pc'[u] \in AwaitPCs
  <2>1. pc[u] \in AwaitPCs
    <3>1. CASE u = t
      BY <1>3, <1>4, <3>1
    <3>2. CASE u # t
      <4>1. event \in [Tasks -> BOOLEAN]
        BY DEF TypeInv, WakeTyped
      <4>2. event'[u] = event[u]
        BY <3>2, <4>1
      <4> QED
        BY <1>5, <4>2 DEF SlotInv, Told
    <3> QED
      BY <3>1, <3>2
  <2>2. u # c
    BY <2>1, TasksFacts
  <2> QED
    BY <1>1, <2>1, <2>2
<1> QED
  BY <1>2, <1>5 DEF SlotInv, Told

LEMMA BlockSlot ==
  ASSUME TypeInv, SlotInv, NEW t \in Tasks, Block(t)
  PROVE  SlotInv'
<1>1. /\ pc \in [Tasks \cup {Isr} -> PCs] /\ blocked.taskID \in Tasks \cup {NoTask}
      /\ event \in [Tasks -> BOOLEAN]
      /\ blocked \in [taskID : Tasks \cup {NoTask}, fct : {"none", "read", "write"}]
  BY DEF TypeInv, PcTyped, WakeTyped
<1>2. \A place \in BlockPCs \cup {IF t = Reader THEN "get" ELSE "space"} : PlaceOf(t, place)
  BY TasksFacts DEF PlaceOf, ReaderPCs, WriterPCs, BlockPCs
<1>3. CASE BlockIrqOff(t) \/ BlockIrqOn(t)
  <2>1. PICK from, to \in BlockPCs :
          /\ pc[t] = from /\ Goto(t, to) /\ UNCHANGED <<wakeVars, txVars>>
          /\ <<from, to>> \in {<<"block", "rxtxoff">>, <<"rxtxoff", "taskid">>,
                              <<"unblock", "rxtxon">>, <<"rxtxon", "wait">>}
    BY <1>3, RunsFacts DEF BlockIrqOff, BlockIrqOn, IerLoad, IerStore, BlockPCs
  <2>2. from \notin AwaitPCs \/ (from \in SlotPCs /\ to \in SlotPCs)
    BY <2>1 DEF AwaitPCs, SlotPCs
  <2>3. to \notin SentPCs
    BY <2>1 DEF SentPCs
  <2>4. \A d \in {Writer, Isr} : conf'[d].task = conf[d].task
    BY <2>1 DEF txVars
  <2> QED
    BY <1>2, <2>1, <2>2, <2>3, <2>4, PlainSlot
<1>4. CASE BlockTaskID(t)
  <2>1. /\ pc[t] = "taskid" /\ pc[Isr] = "app" /\ Goto(t, "fct")
        /\ blocked' = [blocked EXCEPT !.taskID = t]
        /\ UNCHANGED <<txVars, event>>
    BY <1>4, RunsFacts DEF BlockTaskID
  <2>2. pc'[t] = "fct" /\ \A d \in Tasks \cup {Isr} : d # t => pc'[d] = pc[d]
    <3>1. "fct" \in BlockPCs
      BY DEF BlockPCs
    <3> QED
      BY <1>2, <2>1, <3>1, GotoFacts DEF TypeInv
  <2>3. blocked'.taskID = t /\ blocked'.fct = blocked.fct /\ event' = event /\ conf' = conf
    BY <1>1, <2>1 DEF txVars
  <2>4. ~event[t]
    BY <2>1 DEF SlotInv, Told, AwaitPCs, SlotPCs
  <2>5. InSlot'
    BY <2>2, <2>3, <2>4 DEF InSlot, SlotPCs
  <2>6. Told'
    BY <2>2, <2>3, <2>4 DEF SlotInv, Told
  <2>7. ASSUME NEW c \in {Writer, Isr}, pc'[c] \in SentPCs, conf[c].task # NoTask,
               blocked.fct = "write"
        PROVE  conf[c].task = t
    <3>1. c # t /\ pc'[c] = pc[c]
      BY <2>2, <2>7, SenderFacts DEF SentPCs
    <3>2. c = Writer /\ t = Reader
      BY <2>1, <2>7, <3>1, TasksFacts DEF SentPCs
    <3>3. conf[c].task = blocked.taskID
      BY <2>7, <3>1 DEF SlotInv, FoundInSlot
    <3>4. blocked.taskID # Writer
      BY <2>7, <3>1, <3>2, TasksFacts DEF SlotInv, InSlot, SlotPCs, SentPCs
    <3>5. blocked.taskID # Reader
      BY <2>1, <3>2, TasksFacts DEF SlotInv, InSlot, SlotPCs
    <3> QED
      BY <1>1, <2>7, <3>3, <3>4, <3>5, TasksFacts
  <2>8. FoundInSlot'
    BY <2>3, <2>7 DEF FoundInSlot
  <2> QED
    BY <2>5, <2>6, <2>8 DEF SlotInv
<1>5. CASE BlockFct(t)
  <2>1. /\ pc[t] = "fct" /\ pc[Isr] = "app" /\ Goto(t, "unblock")
        /\ blocked' = [blocked EXCEPT !.fct = IF t = Reader THEN "read" ELSE "write"]
        /\ UNCHANGED <<txVars, event>>
    BY <1>5, RunsFacts DEF BlockFct
  <2>2. pc'[t] = "unblock" /\ \A d \in Tasks \cup {Isr} : d # t => pc'[d] = pc[d]
    <3>1. "unblock" \in BlockPCs
      BY DEF BlockPCs
    <3> QED
      BY <1>2, <2>1, <3>1, GotoFacts DEF TypeInv
  <2>3. blocked'.taskID = blocked.taskID /\ event' = event /\ conf' = conf
    BY <1>1, <2>1 DEF txVars
  <2>4. blocked'.fct = IF t = Reader THEN "read" ELSE "write"
    BY <1>1, <2>1
  <2>5. InSlot' /\ Told'
    BY <2>1, <2>2, <2>3 DEF SlotInv, InSlot, Told, SlotPCs, AwaitPCs
  <2>6. FoundInSlot'
    <3>1. CASE t = Reader
      BY <2>4, <3>1 DEF FoundInSlot
    <3>2. CASE t = Writer
      <4>1. pc'[Writer] = "unblock" /\ pc'[Isr] = "app"
        BY <2>1, <2>2, <3>2, TasksFacts
      <4> QED
        BY <4>1 DEF FoundInSlot, SentPCs
    <3> QED
      BY <3>1, <3>2, TasksFacts
  <2> QED
    BY <2>5, <2>6 DEF SlotInv
<1>6. CASE WaitEvent(t)
  <2>1. /\ pc[t] = "wait" /\ event[t] /\ Goto(t, "clear") /\ UNCHANGED <<txVars, wakeVars>>
    BY <1>6, RunsFacts DEF WaitEvent
  <2>2. pc'[t] = "clear" /\ \A d \in Tasks \cup {Isr} : d # t => pc'[d] = pc[d]
    <3>1. "clear" \in BlockPCs
      BY DEF BlockPCs
    <3> QED
      BY <1>2, <2>1, <3>1, GotoFacts DEF TypeInv
  <2>3. blocked' = blocked /\ event' = event /\ conf' = conf
    BY <2>1 DEF wakeVars, txVars
  <2>4. blocked.taskID # t
    BY <2>1 DEF SlotInv, InSlot
  <2>5. InSlot' /\ Told'
    BY <2>2, <2>3, <2>4 DEF SlotInv, InSlot, Told, AwaitPCs
  <2>6. FoundInSlot'
    BY <2>2, <2>3, SenderFacts DEF SlotInv, FoundInSlot, SentPCs
  <2> QED
    BY <2>5, <2>6 DEF SlotInv
<1>7. CASE ClearEvent(t)
  <2>1. PICK to \in {"get", "space"} :
          /\ to \in BlockPCs \cup {IF t = Reader THEN "get" ELSE "space"}
          /\ pc[t] = "clear" /\ Goto(t, to) /\ event' = [event EXCEPT ![t] = FALSE]
          /\ UNCHANGED <<txVars, blocked>>
    BY <1>7, RunsFacts DEF ClearEvent
  <2>2. pc'[t] = to /\ \A d \in Tasks \cup {Isr} : d # t => pc'[d] = pc[d]
    BY <1>2, <2>1, GotoFacts DEF TypeInv
  <2>3. /\ blocked' = blocked /\ conf' = conf /\ ~event'[t]
        /\ \A u \in Tasks : u # t => event'[u] = event[u]
    BY <1>1, <2>1 DEF txVars
  <2>4. blocked.taskID # t
    BY <2>1 DEF SlotInv, InSlot, SlotPCs
  <2>5. InSlot' /\ Told'
    BY <2>2, <2>3, <2>4 DEF SlotInv, InSlot, Told
  <2>6. FoundInSlot'
    BY <2>1, <2>2, <2>3, SenderFacts DEF SlotInv, FoundInSlot, SentPCs
  <2> QED
    BY <2>5, <2>6 DEF SlotInv
<1> QED
  BY <1>3, <1>4, <1>5, <1>6, <1>7 DEF Block

\* The steps that leave the slot alone.
LEMMA OtherSlot ==
  ASSUME TypeInv, SlotInv,
         \/ (\E nbyte \in ReadLengths : Read(nbyte)) \/ Get \/ GetCopy \/ GetUpdateHead
         \/ (\E nbyte \in WriteLengths : Write(nbyte)) \/ WriteSpace \/ WritePut
         \/ StartTx \/ StartTxEnd
         \/ IsrCheck \/ TransmitterEmpty \/ UNCHANGED vars
  PROVE  SlotInv'
<1>1. CASE (\E nbyte \in ReadLengths : Read(nbyte)) \/ Get \/ GetCopy \/ GetUpdateHead
  <2>1. PICK to \in {"app", "get", "block", "copy", "update"} :
          /\ pc[Reader] \in {"app", "get", "copy", "update"} /\ Goto(Reader, to)
          /\ UNCHANGED <<wakeVars, txVars>>
    BY <1>1, RunsFacts DEF Read, Get, GetCopy, GetUpdateHead
  <2>2. PlaceOf(Reader, to) /\ to \notin SentPCs /\ pc[Reader] \notin AwaitPCs
    BY <2>1, TasksFacts DEF PlaceOf, ReaderPCs, BlockPCs, SentPCs, AwaitPCs, SlotPCs
  <2>3. \A d \in {Writer, Isr} : conf'[d].task = conf[d].task
    BY <2>1 DEF txVars
  <2> QED
    BY <2>1, <2>2, <2>3, PlainSlot, TasksFacts
<1>2. CASE \/ (\E nbyte \in WriteLengths : Write(nbyte)) \/ WriteSpace \/ WritePut
           \/ StartTx \/ StartTxEnd
  <2>1. PICK to \in {"app", "space", "put", "starttx", "txoff", "confirm", "txon", "block"} :
          /\ pc[Writer] \in {"app", "space", "put", "starttx", "txoff", "txdone", "txon"}
          /\ Goto(Writer, to) /\ UNCHANGED <<wakeVars, conf>>
    BY <1>2, RunsFacts
    DEF Write, WriteSpace, WritePut, StartTx, StartTxEnd, IerLoad, IerStore, txVars
  <2>2. PlaceOf(Writer, to) /\ to \notin SentPCs /\ pc[Writer] \notin AwaitPCs
    BY <2>1, TasksFacts DEF PlaceOf, WriterPCs, ConfPCs, BlockPCs, SentPCs, AwaitPCs, SlotPCs
  <2>3. \A d \in {Writer, Isr} : conf'[d].task = conf[d].task
    BY <2>1
  <2> QED
    BY <2>1, <2>2, <2>3, PlainSlot, TasksFacts
<1>3. CASE IsrCheck
  <2>1. Goto(Isr, "app") /\ UNCHANGED <<wakeVars, txVars>>
    BY <1>3 DEF IsrCheck
  <2>2. PlaceOf(Isr, "app") /\ "app" \notin SentPCs /\ Isr \notin Tasks
    BY TasksFacts DEF PlaceOf, IsrPCs, SentPCs
  <2>3. \A d \in {Writer, Isr} : conf'[d].task = conf[d].task
    BY <2>1 DEF txVars
  <2> QED
    BY <2>1, <2>2, <2>3, PlainSlot
<1>4. CASE TransmitterEmpty \/ UNCHANGED vars
  <2>1. UNCHANGED <<blocked, event, pc, conf>>
    BY <1>4 DEF TransmitterEmpty, vars, wakeVars, txVars
  <2> QED
    BY <2>1 DEF SlotInv, InSlot, Told, FoundInSlot
<1> QED
  BY <1>1, <1>2, <1>3, <1>4

LEMMA ConfirmationSlot ==
  ASSUME TypeInv, SlotInv, NEW c \in {Writer, Isr}, TxConfirmation(c)
  PROVE  SlotInv'
<1>1. c \in Tasks \cup {Isr} /\ conf \in [{Writer, Isr} -> ConfLocals]
  BY SenderFacts DEF TypeInv, TxTyped
<1>2. \A place \in ConfPCs \cup {IF c = Isr THEN "check" ELSE "txdone"} : PlaceOf(c, place)
  BY SenderFacts
<1>3. \A place \in ConfPCs : place \notin AwaitPCs
  BY DEF ConfPCs, AwaitPCs, SlotPCs
<1>4. "confirm" \in ConfPCs /\ \A place \in SentPCs : place \in ConfPCs
  BY DEF ConfPCs, SentPCs
<1>5. CASE Confirm(c)
  <2>1. pc[c] = "confirm" /\ UNCHANGED wakeVars
    BY <1>5, RunsFacts DEF Confirm
  <2>2. CASE Tx!Count(tx.tail) > 0
    <3>1. PICK local :
            /\ local = [task |-> blocked.taskID, tail |-> tx.tail, raw |-> Tx!RawCount(tx.tail),
                        count |-> Tx!Count(tx.tail), write |-> 0, first |-> TRUE]
            /\ conf' = [conf EXCEPT ![c] = local] /\ Goto(c, "send")
      BY <1>5, <2>2 DEF Confirm
    <3>2. "send" \in ConfPCs
      BY DEF ConfPCs
    <3>3. pc'[c] = "send" /\ \A d \in Tasks \cup {Isr} : d # c => pc'[d] = pc[d]
      BY <1>1, <1>2, <3>1, <3>2, GotoFacts DEF TypeInv
    <3>4. blocked' = blocked /\ event' = event
      BY <2>1 DEF wakeVars
    <3>5. /\ conf'[c].task = blocked.taskID
          /\ \A d \in {Writer, Isr} : d # c => conf'[d] = conf[d]
      BY <1>1, <3>1
    <3>6. FoundInSlot'
      BY <3>3, <3>4, <3>5, SenderFacts DEF SlotInv, FoundInSlot
    <3>7. \A t \in Tasks : pc[t] \in AwaitPCs => pc'[t] = pc[t]
      BY <1>3, <1>4, <2>1, <3>3
    <3>8. SlotPCs \subseteq AwaitPCs
      BY DEF AwaitPCs
    <3>9. InSlot' /\ Told'
      BY <3>4, <3>7, <3>8, Zenon DEF SlotInv, InSlot, Told
    <3> QED
      BY <3>6, <3>9 DEF SlotInv
  <2>3. CASE ~(Tx!Count(tx.tail) > 0)
    <3>1. PICK to : to = IF c = Isr THEN "check" ELSE "txdone"
      OBVIOUS
    <3>2. Goto(c, to) /\ conf' = conf
      BY <1>5, <2>3, <3>1 DEF Confirm, Confirmed
    <3>3. to \notin SentPCs /\ PlaceOf(c, to) /\ pc[c] \notin AwaitPCs
      BY <1>2, <1>3, <1>4, <2>1, <3>1 DEF SentPCs
    <3> QED
      BY <1>1, <2>1, <3>2, <3>3, PlainSlot
  <2> QED
    BY <2>2, <2>3
<1>6. CASE SendByte(c)
  <2>1. /\ conf' = [conf EXCEPT ![c].write = conf[c].write + 1]
        /\ UNCHANGED <<wakeVars, pc>>
    BY <1>6 DEF SendByte
  <2>2. \A d \in {Writer, Isr} : conf'[d].task = conf[d].task
    BY <1>1, <2>1 DEF ConfLocals
  <2>3. UNCHANGED <<blocked, event, pc>>
    BY <2>1 DEF wakeVars
  <2> QED
    BY <2>2, <2>3 DEF SlotInv, InSlot, Told, FoundInSlot
<1>7. CASE SendEnd(c) \/ SendMore(c)
  <2>1. PICK to \in SentPCs : pc[c] \in SentPCs /\ Goto(c, to) /\ UNCHANGED wakeVars
    BY <1>7, RunsFacts DEF SendEnd, SendMore, SentPCs
  <2>2. \A d \in {Writer, Isr} : conf'[d].task = conf[d].task
    <3>1. CASE SendEnd(c)
      <4>1. conf' = conf \/ conf' = [conf EXCEPT ![c] = [NotConfirming EXCEPT !.task = conf[c].task]]
        BY <3>1 DEF SendEnd
      <4>2. [NotConfirming EXCEPT !.task = conf[c].task].task = conf[c].task
        BY NothingConfirmed DEF ConfLocals
      <4> QED
        BY <1>1, <4>1, <4>2
    <3>2. CASE SendMore(c)
      BY <1>1, <3>2 DEF SendMore, ConfLocals
    <3> QED
      BY <1>7, <3>1, <3>2
  <2>3. PlaceOf(c, to) /\ pc[c] \notin AwaitPCs
    BY <1>2, <1>3, <1>4, <2>1
  <2> QED
    BY <1>1, <2>1, <2>2, <2>3, PlainSlot
<1>8. CASE WakeWriter(c)
  <2>1. PICK to : to = IF c = Isr THEN "check" ELSE "txdone"
    OBVIOUS
  <2>2. /\ pc[c] = "wake" /\ Goto(c, to) /\ conf' = [conf EXCEPT ![c] = NotConfirming]
    BY <1>8, <2>1, RunsFacts DEF WakeWriter, Confirmed
  <2>3. to \notin SentPCs /\ PlaceOf(c, to) /\ pc[c] \notin AwaitPCs /\ pc[c] \in SentPCs
    BY <1>2, <2>1, <2>2 DEF SentPCs, AwaitPCs, SlotPCs
  <2>4. CASE conf[c].task # NoTask /\ blocked.fct = "write"
    <3>1. PICK t \in Tasks : t = conf[c].task
      BY <1>1, <2>4 DEF ConfLocals
    <3>2. blocked' = NoneBlocked /\ event' = [event EXCEPT ![t] = TRUE]
      BY <1>8, <2>4, <3>1 DEF WakeWriter
    <3>3. blocked.taskID = t
      BY <2>3, <2>4, <3>1 DEF SlotInv, FoundInSlot
    <3> QED
      BY <2>2, <2>3, <3>2, <3>3, TellSlot
  <2>5. CASE ~(conf[c].task # NoTask /\ blocked.fct = "write")
    <3>1. UNCHANGED wakeVars
      BY <1>8, <2>5 DEF WakeWriter
    <3>2. blocked' = blocked /\ event' = event
      BY <3>1 DEF wakeVars
    <3>3. pc'[c] = to /\ \A d \in Tasks \cup {Isr} : d # c => pc'[d] = pc[d]
      BY <1>1, <2>2, <2>3, GotoFacts DEF TypeInv
    <3>4. \A d \in {Writer, Isr} : d # c => conf'[d] = conf[d]
      BY <1>1, <2>2
    <3>5. FoundInSlot'
      BY <2>3, <3>2, <3>3, <3>4, SenderFacts DEF SlotInv, FoundInSlot
    <3>6. \A t \in Tasks : pc[t] \in AwaitPCs => pc'[t] = pc[t]
      BY <2>3, <3>3
    <3>7. SlotPCs \subseteq AwaitPCs
      BY DEF AwaitPCs
    <3>8. InSlot' /\ Told'
      BY <3>2, <3>6, <3>7, Zenon DEF SlotInv, InSlot, Told
    <3> QED
      BY <3>5, <3>8 DEF SlotInv
  <2> QED
    BY <2>4, <2>5
<1> QED
  BY <1>5, <1>6, <1>7, <1>8 DEF TxConfirmation

LEMMA IsrEnterSlot ==
  ASSUME TypeInv, SlotInv, NEW k \in Nat, IsrEnter(k)
  PROVE  SlotInv'
<1>1. PICK to \in {"confirm", "app"} : Goto(Isr, to)
  BY IsrEnterFacts DEF TypeInv
<1>2. PlaceOf(Isr, to) /\ to \notin SentPCs /\ Isr \in {Writer, Isr} /\ Isr # Writer
      /\ Isr \notin Tasks
  BY TasksFacts DEF PlaceOf, IsrPCs, ConfPCs, SentPCs
<1>3. UNCHANGED wakeVars \/ /\ blocked.taskID # NoTask /\ blocked' = NoneBlocked
                            /\ event' = [event EXCEPT ![blocked.taskID] = TRUE]
  <2>1. CASE \E n \in 0 .. UART_RX_FIFO_SIZE : RxIndication(n)
    <3>1. PICK n \in Nat : RxIndication(n)
      BY <2>1
    <3> QED
      BY <3>1, IndicationFacts DEF TypeInv
  <2>2. CASE UNCHANGED <<rx, rxcnt, received, wakeVars>>
    BY <2>2
  <2> QED
    BY <2>1, <2>2, IsrEnterFacts DEF TypeInv
<1>4. CASE UNCHANGED wakeVars
  <2>1. \A d \in {Writer, Isr} : conf'[d].task = conf[d].task
    BY IsrEnterFacts DEF TypeInv, txVars
  <2> QED
    BY <1>1, <1>2, <1>4, <2>1, PlainSlot
<1>5. CASE /\ blocked.taskID # NoTask /\ blocked' = NoneBlocked
           /\ event' = [event EXCEPT ![blocked.taskID] = TRUE]
  <2>1. PICK t \in Tasks : t = blocked.taskID
    BY <1>5 DEF TypeInv, WakeTyped
  <2> QED
    BY <1>1, <1>2, <1>5, <2>1, TellSlot
<1> QED
  BY <1>3, <1>4, <1>5

\* POSIXE is only set for a task about to wait, and no event is left over: in
\* whatever order the tasks and the ISR find and fill the one slot.
THEOREM EventsAreAwaited == Spec => []NoStaleEvent
<1>1. ASSUME Init
      PROVE  SlotInv
  <2>1. blocked.taskID = NoTask /\ blocked.fct = "none" /\ \A t \in Tasks : ~event[t]
    BY <1>1 DEF Init
  <2> QED
    BY <2>1 DEF SlotInv, InSlot, Told, FoundInSlot
<1>2. TypeInv /\ SlotInv /\ [Next]_vars => SlotInv'
  BY StepCases, BlockSlot, OtherSlot, ConfirmationSlot, IsrEnterSlot
<1> QED
  BY <1>1, <1>2, TypesHold, SlotInvImplies, PTL DEF Spec


(***************************************************************************)
(* The writer's own confirmation finds nobody to wake                      *)
(***************************************************************************)
WaitPCs == {"unblock", "rxtxon", "wait"}
FctOf(t) == IF t = Reader THEN "read" ELSE "write"

\* A task past its part of the slot that the other has since taken: it waits
\* without end.
Lost(t) == pc[t] \in WaitPCs /\ ~event[t] /\ blocked.taskID # t

\* The slot names a function whose task does not wait: the other task is lost.
LeftOver ==
  \A t \in Tasks : \A u \in Tasks \ {t} : blocked.fct = FctOf(t) /\ pc[t] \notin WaitPCs => Lost(u)

\* Only a task that was taken for the other is told before it stores fct.
ToldEarly ==
  \A t \in Tasks : \A u \in Tasks \ {t} :
    event[t] /\ (pc[t] = "fct" \/ blocked.fct = FctOf(t)) => Lost(u)
TakenOver ==
  \A t \in Tasks : \A u \in Tasks \ {t} :
    blocked.taskID = t /\ pc[t] = "fct" => blocked.fct = "none" \/ Lost(u)

LostInv == LeftOver /\ ToldEarly /\ TakenOver

\* A step of c that concerns neither the slot nor the events nor who waits.
LEMMA PlainLost ==
  ASSUME TypeInv, LostInv, UNCHANGED wakeVars, NEW c \in Tasks \cup {Isr}, NEW to, PlaceOf(c, to),
         Goto(c, to),
         c \in Tasks => /\ pc[c] \in WaitPCs <=> to \in WaitPCs
                        /\ to # "fct"
  PROVE  LostInv'
<1>1. /\ pc'[c] = to /\ \A d \in Tasks \cup {Isr} : d # c => pc'[d] = pc[d]
  BY GotoFacts DEF TypeInv
<1>2. blocked' = blocked /\ event' = event
  BY DEF wakeVars
<1>3. \A t \in Tasks : /\ pc'[t] \in WaitPCs <=> pc[t] \in WaitPCs
                       /\ pc'[t] = "fct" => pc[t] = "fct"
  BY <1>1
<1>4. \A t \in Tasks : Lost(t) => Lost(t)'
  BY <1>2, <1>3 DEF Lost
<1>5. LeftOver' /\ ToldEarly' /\ TakenOver'
  BY <1>2, <1>3, <1>4, Zenon DEF LostInv, LeftOver, ToldEarly, TakenOver
<1> QED
  BY <1>5 DEF LostInv

\* The slot is emptied, and the task in it told.
LEMMA TellLost ==
  ASSUME TypeInv, SlotInv, LostInv, NEW t \in Tasks, blocked.taskID = t, blocked.fct # "none",
         blocked' = NoneBlocked, event' = [event EXCEPT ![t] = TRUE],
         \A d \in Tasks : pc[d] \in SlotPCs => pc'[d] = pc[d],
         \A d \in Tasks : pc'[d] = "fct" => pc[d] = "fct"
  PROVE  LostInv'
<1>1. \A v \in Tasks : FctOf(v) # "none" /\ NoTask # v
  BY DEF FctOf
<1>2. LeftOver' /\ TakenOver'
  BY <1>1 DEF NoneBlocked, LeftOver, TakenOver, FctOf
<1>3. ASSUME NEW v \in Tasks, NEW u \in Tasks \ {v}, event'[v], pc'[v] = "fct"
      PROVE  Lost(u)'
  <2>1. pc[v] = "fct"
    BY <1>3
  <2>2. event \in [Tasks -> BOOLEAN]
    BY DEF TypeInv, WakeTyped
  <2>3. Lost(u) /\ u # t
    <3>1. CASE v = t
      BY <2>1, <3>1 DEF LostInv, TakenOver
    <3>2. CASE v # t
      <4>1. event[v]
        BY <1>3, <2>2, <3>2
      <4>2. Lost(u)
        BY <2>1, <4>1 DEF LostInv, ToldEarly
      <4>3. u # t
        BY <4>2 DEF Lost
      <4> QED
        BY <4>2, <4>3
    <3> QED
      BY <3>1, <3>2
  <2>4. event'[u] = event[u] /\ pc'[u] = pc[u]
    BY <2>2, <2>3 DEF Lost, WaitPCs, SlotPCs
  <2>5. blocked'.taskID # u
    BY <1>1 DEF NoneBlocked
  <2> QED
    BY <2>3, <2>4, <2>5 DEF Lost
<1>4. ToldEarly'
  BY <1>1, <1>3 DEF ToldEarly, NoneBlocked, FctOf
<1> QED
  BY <1>2, <1>4 DEF LostInv

LEMMA BlockTaskIDLost ==
  ASSUME TypeInv, SlotInv, LostInv, NEW t \in Tasks, BlockTaskID(t)
  PROVE  LostInv'
<1>1. /\ pc[t] = "taskid" /\ Goto(t, "fct") /\ event' = event
      /\ blocked' = [blocked EXCEPT !.taskID = t]
  BY RunsFacts DEF BlockTaskID
<1>2. PlaceOf(t, "fct")
  BY TasksFacts DEF PlaceOf, ReaderPCs, WriterPCs, BlockPCs
<1>3. /\ pc'[t] = "fct" /\ \A d \in Tasks \cup {Isr} : d # t => pc'[d] = pc[d]
  BY <1>1, <1>2, GotoFacts DEF TypeInv
<1>4. blocked'.taskID = t /\ blocked'.fct = blocked.fct
      /\ blocked.fct \in {"none", "read", "write"}
  BY <1>1 DEF TypeInv, WakeTyped
<1>5. PICK u \in Tasks \ {t} : \A v \in Tasks : v = t \/ v = u
  BY TasksFacts
<1>6. ~Lost(t) /\ ~event[t] /\ pc[t] \notin WaitPCs /\ pc[t] # "fct"
  BY <1>1 DEF Lost, WaitPCs, SlotInv, Told, AwaitPCs, SlotPCs
<1>7. Lost(u) => Lost(u)'
  BY <1>1, <1>3, <1>4, <1>5 DEF Lost
<1>8. blocked.fct = FctOf(t) => Lost(u)
  BY <1>6 DEF LostInv, LeftOver
<1>9. blocked.fct = FctOf(u) => pc[u] \in WaitPCs /\ ~event[u]
  BY <1>5, <1>6 DEF LostInv, LeftOver, ToldEarly
<1>10. blocked.fct = FctOf(u) => Lost(u)'
  BY <1>1, <1>3, <1>4, <1>5, <1>9 DEF Lost
<1>11. event[u] => pc[u] # "fct"
  BY <1>5, <1>6 DEF LostInv, ToldEarly
<1>12. LeftOver'
  BY <1>3, <1>4, <1>5, <1>7, <1>8, <1>9 DEF LeftOver, FctOf
<1>13. ToldEarly'
  BY <1>1, <1>3, <1>4, <1>5, <1>6, <1>9, <1>11 DEF ToldEarly, FctOf
<1>14. blocked.fct = "none" \/ blocked.fct = FctOf(t) \/ blocked.fct = FctOf(u)
  BY <1>4, <1>5, TasksFacts DEF FctOf
<1>15. TakenOver'
  BY <1>4, <1>5, <1>7, <1>8, <1>10, <1>14 DEF TakenOver
<1> QED
  BY <1>12, <1>13, <1>15 DEF LostInv

LEMMA BlockFctLost ==
  ASSUME TypeInv, SlotInv, LostInv, NEW t \in Tasks, BlockFct(t)
  PROVE  LostInv'
<1>1. /\ pc[t] = "fct" /\ Goto(t, "unblock") /\ event' = event
      /\ blocked' = [blocked EXCEPT !.fct = FctOf(t)]
  BY RunsFacts DEF BlockFct, FctOf
<1>2. PlaceOf(t, "unblock")
  BY TasksFacts DEF PlaceOf, ReaderPCs, WriterPCs, BlockPCs
<1>3. /\ pc'[t] = "unblock" /\ \A d \in Tasks \cup {Isr} : d # t => pc'[d] = pc[d]
  BY <1>1, <1>2, GotoFacts DEF TypeInv
<1>4. blocked'.taskID = blocked.taskID /\ blocked'.fct = FctOf(t)
  BY <1>1 DEF TypeInv, WakeTyped
<1>5. PICK u \in Tasks \ {t} : \A v \in Tasks : v = t \/ v = u
  BY TasksFacts
<1>6. ~Lost(t) /\ FctOf(t) # FctOf(u) /\ pc'[t] \in WaitPCs
  BY <1>1, <1>3, <1>5, TasksFacts DEF Lost, WaitPCs, FctOf
<1>7. Lost(u) => Lost(u)'
  BY <1>1, <1>3, <1>4, <1>5 DEF Lost
<1>8. event[t] => Lost(u)
  BY <1>1 DEF LostInv, ToldEarly
<1>9. event[u] => pc[u] # "fct"
  BY <1>5, <1>6 DEF LostInv, ToldEarly
<1>10. blocked.taskID = u /\ pc[u] = "fct" => Lost(t)'
  <2>1. ASSUME blocked.taskID = u, pc[u] = "fct"
        PROVE  Lost(t)'
    <3>1. ~Lost(u)
      BY <2>1 DEF Lost, WaitPCs
    <3>2. ~event[t]
      BY <1>8, <3>1
    <3> QED
      BY <1>1, <1>4, <1>5, <1>6, <2>1, <3>2 DEF Lost
  <2> QED
    BY <2>1
<1>11. LeftOver'
  BY <1>4, <1>5, <1>6 DEF LeftOver
<1>12. ToldEarly'
  BY <1>1, <1>3, <1>4, <1>5, <1>6, <1>7, <1>8, <1>9 DEF ToldEarly
<1>13. TakenOver'
  BY <1>3, <1>4, <1>5, <1>10 DEF TakenOver
<1> QED
  BY <1>11, <1>12, <1>13 DEF LostInv

LEMMA WaitLost ==
  ASSUME TypeInv, SlotInv, LostInv, NEW t \in Tasks, WaitEvent(t)
  PROVE  LostInv'
<1>1. /\ pc[t] = "wait" /\ event[t] /\ Goto(t, "clear") /\ event' = event /\ blocked' = blocked
  BY RunsFacts DEF WaitEvent, wakeVars
<1>2. PlaceOf(t, "clear")
  BY TasksFacts DEF PlaceOf, ReaderPCs, WriterPCs, BlockPCs
<1>3. /\ pc'[t] = "clear" /\ \A d \in Tasks \cup {Isr} : d # t => pc'[d] = pc[d]
  BY <1>1, <1>2, GotoFacts DEF TypeInv
<1>4. PICK u \in Tasks \ {t} : \A v \in Tasks : v = t \/ v = u
  BY TasksFacts
<1>5. ~Lost(t)
  BY <1>1 DEF Lost
<1>6. Lost(u) => Lost(u)'
  BY <1>1, <1>3, <1>4 DEF Lost
<1>7. blocked.fct = FctOf(t) => Lost(u)
  BY <1>1 DEF LostInv, ToldEarly
<1>8. LeftOver'
  BY <1>1, <1>3, <1>4, <1>5, <1>6, <1>7 DEF LostInv, LeftOver
<1>9. ToldEarly'
  BY <1>1, <1>3, <1>4, <1>5, <1>6, <1>7 DEF LostInv, ToldEarly
<1>10. TakenOver'
  BY <1>1, <1>3, <1>4, <1>5, <1>6 DEF LostInv, TakenOver
<1> QED
  BY <1>8, <1>9, <1>10 DEF LostInv

LEMMA ClearLost ==
  ASSUME TypeInv, LostInv, NEW t \in Tasks, ClearEvent(t)
  PROVE  LostInv'
<1>1. PICK to \in {"get", "space"} :
        /\ to = (IF t = Reader THEN "get" ELSE "space") /\ Goto(t, to) /\ pc[t] = "clear"
        /\ event' = [event EXCEPT ![t] = FALSE] /\ blocked' = blocked
  BY RunsFacts DEF ClearEvent
<1>2. PlaceOf(t, to)
  BY <1>1, TasksFacts DEF PlaceOf, ReaderPCs, WriterPCs
<1>3. /\ pc'[t] = to /\ \A d \in Tasks \cup {Isr} : d # t => pc'[d] = pc[d]
  BY <1>1, <1>2, GotoFacts DEF TypeInv
<1>4. ~event'[t] /\ \A d \in Tasks : d # t => event'[d] = event[d]
  BY <1>1 DEF TypeInv, WakeTyped
<1>5. PICK u \in Tasks \ {t} : \A v \in Tasks : v = t \/ v = u
  BY TasksFacts
<1>6. ~Lost(t) /\ pc[t] \notin WaitPCs /\ pc'[t] \notin WaitPCs /\ pc'[t] # "fct"
  BY <1>1, <1>3 DEF Lost, WaitPCs
<1>7. Lost(u) => Lost(u)'
  BY <1>1, <1>3, <1>4, <1>5 DEF Lost
<1>8. LeftOver'
  BY <1>1, <1>3, <1>5, <1>6, <1>7 DEF LostInv, LeftOver
<1>9. ToldEarly'
  BY <1>1, <1>3, <1>4, <1>5, <1>6, <1>7 DEF LostInv, ToldEarly
<1>10. TakenOver'
  BY <1>1, <1>3, <1>5, <1>6, <1>7 DEF LostInv, TakenOver
<1> QED
  BY <1>8, <1>9, <1>10 DEF LostInv

LEMMA BlockLost ==
  ASSUME TypeInv, SlotInv, LostInv, NEW t \in Tasks, Block(t)
  PROVE  LostInv'
<1>1. CASE BlockIrqOff(t) \/ BlockIrqOn(t)
  <2>1. PICK to \in {"rxtxoff", "taskid", "rxtxon", "wait"} :
          /\ Goto(t, to) /\ UNCHANGED wakeVars
          /\ pc[t] \in WaitPCs <=> to \in WaitPCs
    BY <1>1, RunsFacts DEF BlockIrqOff, BlockIrqOn, IerLoad, IerStore, WaitPCs
  <2>2. PlaceOf(t, to) /\ to # "fct"
    BY <2>1, TasksFacts DEF PlaceOf, ReaderPCs, WriterPCs, BlockPCs
  <2> QED
    BY <2>1, <2>2, PlainLost
<1> QED
  BY <1>1, BlockTaskIDLost, BlockFctLost, WaitLost, ClearLost DEF Block

\* The steps that go neither through the slot nor to the wait.
LEMMA OtherLost ==
  ASSUME TypeInv, LostInv,
         \/ (\E nbyte \in ReadLengths : Read(nbyte)) \/ Get \/ GetCopy \/ GetUpdateHead
         \/ (\E nbyte \in WriteLengths : Write(nbyte)) \/ WriteSpace \/ WritePut
         \/ StartTx \/ StartTxEnd
         \/ \E c \in {Writer, Isr} : Confirm(c) \/ SendByte(c) \/ SendEnd(c) \/ SendMore(c)
         \/ IsrCheck \/ TransmitterEmpty \/ UNCHANGED vars
  PROVE  LostInv'
<1>1. CASE (\E nbyte \in ReadLengths : Read(nbyte)) \/ Get \/ GetCopy \/ GetUpdateHead
  <2>1. PICK to \in {"app", "get", "block", "copy", "update"} :
          Goto(Reader, to) /\ UNCHANGED wakeVars /\ pc[Reader] \in {"app", "get", "copy", "update"}
    BY <1>1, RunsFacts DEF Read, Get, GetCopy, GetUpdateHead
  <2>2. PlaceOf(Reader, to) /\ to \notin WaitPCs /\ pc[Reader] \notin WaitPCs /\ to # "fct"
    BY <2>1, TasksFacts DEF PlaceOf, ReaderPCs, BlockPCs, WaitPCs
  <2> QED
    BY <2>1, <2>2, PlainLost, TasksFacts
<1>2. CASE (\E nbyte \in WriteLengths : Write(nbyte)) \/ WriteSpace \/ WritePut
           \/ StartTx \/ StartTxEnd
  <2>1. PICK to \in {"app", "space", "put", "starttx", "txoff", "confirm", "txon", "block"} :
          /\ Goto(Writer, to) /\ UNCHANGED wakeVars
          /\ pc[Writer] \in {"app", "space", "put", "starttx", "txoff", "txdone", "txon"}
    BY <1>2, RunsFacts DEF Write, WriteSpace, WritePut, StartTx, StartTxEnd, IerLoad, IerStore
  <2>2. PlaceOf(Writer, to) /\ to \notin WaitPCs /\ pc[Writer] \notin WaitPCs /\ to # "fct"
    BY <2>1, TasksFacts DEF PlaceOf, WriterPCs, BlockPCs, ConfPCs, WaitPCs
  <2> QED
    BY <2>1, <2>2, PlainLost, TasksFacts
<1>3. CASE \E c \in {Writer, Isr} : Confirm(c) \/ SendByte(c) \/ SendEnd(c) \/ SendMore(c)
  <2>1. PICK c \in {Writer, Isr} : Confirm(c) \/ SendByte(c) \/ SendEnd(c) \/ SendMore(c)
    BY <1>3
  <2>2. /\ pc[c] \in ConfPCs /\ UNCHANGED wakeVars
        /\ pc' = pc \/ \E to \in ConfPCs \cup {IF c = Isr THEN "check" ELSE "txdone"} : Goto(c, to)
    BY <2>1, RunsFacts DEF Confirm, Confirmed, SendByte, SendEnd, SendMore, ConfPCs
  <2>3. CASE pc' = pc
    BY <2>2, <2>3 DEF wakeVars, LostInv, LeftOver, ToldEarly, TakenOver, Lost
  <2>4. CASE \E to \in ConfPCs \cup {IF c = Isr THEN "check" ELSE "txdone"} : Goto(c, to)
    <3>1. PICK to \in ConfPCs \cup {IF c = Isr THEN "check" ELSE "txdone"} : Goto(c, to)
      BY <2>4
    <3>2. PlaceOf(c, to) /\ to \notin WaitPCs /\ pc[c] \notin WaitPCs /\ to # "fct"
      BY <2>2, <3>1, SenderFacts DEF ConfPCs, WaitPCs
    <3> QED
      BY <2>2, <3>1, <3>2, PlainLost, SenderFacts
  <2> QED
    BY <2>2, <2>3, <2>4
<1>4. CASE IsrCheck
  <2>1. Goto(Isr, "app") /\ UNCHANGED wakeVars /\ PlaceOf(Isr, "app") /\ Isr \notin Tasks
    BY <1>4, TasksFacts DEF IsrCheck, PlaceOf, IsrPCs
  <2> QED
    BY <2>1, PlainLost
<1>5. CASE TransmitterEmpty \/ UNCHANGED vars
  <2>1. UNCHANGED <<blocked, event, pc>>
    BY <1>5 DEF TransmitterEmpty, vars, wakeVars
  <2> QED
    BY <2>1 DEF LostInv, LeftOver, ToldEarly, TakenOver, Lost
<1> QED
  BY <1>1, <1>2, <1>3, <1>4, <1>5

LEMMA WakeLost ==
  ASSUME TypeInv, SlotInv, LostInv, NEW c \in {Writer, Isr}, WakeWriter(c)
  PROVE  LostInv'
<1>1. PICK to \in {"check", "txdone"} :
        /\ to = (IF c = Isr THEN "check" ELSE "txdone") /\ Goto(c, to) /\ pc[c] = "wake"
  BY RunsFacts DEF WakeWriter, Confirmed
<1>2. PlaceOf(c, to) /\ to \notin WaitPCs /\ pc[c] \notin WaitPCs /\ to # "fct"
  BY <1>1, SenderFacts DEF WaitPCs
<1>3. CASE conf[c].task # NoTask /\ blocked.fct = "write"
  <2>1. blocked' = NoneBlocked /\ event' = [event EXCEPT ![conf[c].task] = TRUE]
    BY <1>3 DEF WakeWriter
  <2>2. PICK t \in Tasks : t = conf[c].task
    BY <1>3 DEF TypeInv, TxTyped, ConfLocals
  <2>3. blocked.taskID = t
    BY <1>1, <1>3, <2>2 DEF SlotInv, FoundInSlot, SentPCs
  <2>4. /\ pc'[c] = to /\ \A d \in Tasks \cup {Isr} : d # c => pc'[d] = pc[d]
    BY <1>1, <1>2, SenderFacts, GotoFacts DEF TypeInv
  <2>5. \A d \in Tasks : /\ pc[d] \in SlotPCs => pc'[d] = pc[d]
                         /\ pc'[d] = "fct" => pc[d] = "fct"
    BY <1>1, <2>4 DEF SlotPCs
  <2> QED
    BY <1>3, <2>1, <2>2, <2>3, <2>5, TellLost
<1>4. CASE ~(conf[c].task # NoTask /\ blocked.fct = "write")
  <2>1. UNCHANGED wakeVars
    BY <1>4 DEF WakeWriter
  <2> QED
    BY <1>1, <1>2, <2>1, PlainLost, SenderFacts
<1> QED
  BY <1>3, <1>4

LEMMA IsrEnterLost ==
  ASSUME TypeInv, SlotInv, LostInv, NEW k \in Nat, IsrEnter(k)
  PROVE  LostInv'
<1>1. PICK to \in {"confirm", "app"} : Goto(Isr, to)
  BY IsrEnterFacts DEF TypeInv
<1>2. PlaceOf(Isr, to) /\ Isr \notin Tasks
  BY TasksFacts DEF PlaceOf, IsrPCs, ConfPCs
<1>3. UNCHANGED wakeVars \/ /\ blocked.taskID # NoTask /\ blocked.fct = "read"
                            /\ blocked' = NoneBlocked
                            /\ event' = [event EXCEPT ![blocked.taskID] = TRUE]
  <2>1. CASE \E n \in 0 .. UART_RX_FIFO_SIZE : RxIndication(n)
    <3>1. PICK n \in Nat : RxIndication(n)
      BY <2>1
    <3> QED
      BY <3>1, IndicationFacts DEF TypeInv
  <2>2. CASE UNCHANGED <<rx, rxcnt, received, wakeVars>>
    BY <2>2
  <2> QED
    BY <2>1, <2>2, IsrEnterFacts DEF TypeInv
<1>4. CASE UNCHANGED wakeVars
  BY <1>1, <1>2, <1>4, PlainLost
<1>5. CASE /\ blocked.taskID # NoTask /\ blocked.fct = "read" /\ blocked' = NoneBlocked
           /\ event' = [event EXCEPT ![blocked.taskID] = TRUE]
  <2>1. PICK t \in Tasks : t = blocked.taskID
    BY <1>5 DEF TypeInv, WakeTyped
  <2>2. \A d \in Tasks : pc'[d] = pc[d]
    BY <1>1, <1>2, GotoFacts DEF TypeInv
  <2> QED
    BY <1>5, <2>1, <2>2, TellLost
<1> QED
  BY <1>3, <1>4, <1>5

\* Where the writer confirms, what the slot names it does not name as a writer.
ConfirmsAlone == pc[Writer] = "wake" => conf[Writer].task = NoTask \/ blocked.fct # "write"

LEMMA LostInvImplies == TypeInv /\ SlotInv /\ LostInv => ConfirmsAlone
<1>1. SUFFICES ASSUME TypeInv, SlotInv, LostInv, pc[Writer] = "wake", blocked.fct = "write",
                      conf[Writer].task # NoTask
               PROVE  FALSE
  BY DEF ConfirmsAlone
<1>2. conf[Writer].task \in Tasks
  BY <1>1, SenderFacts DEF TypeInv, TxTyped, ConfLocals
<1>3. conf[Writer].task = blocked.taskID
  BY <1>1, SenderFacts DEF SlotInv, FoundInSlot, SentPCs
<1>4. Lost(Reader)
  BY <1>1, TasksFacts DEF LostInv, LeftOver, FctOf, WaitPCs
<1>5. blocked.taskID # Writer
  BY <1>1, TasksFacts DEF SlotInv, InSlot, SlotPCs
<1> QED
  BY <1>2, <1>3, <1>4, <1>5, TasksFacts DEF Lost

\* In its own txConfirmation the writer never gets to the three assignments that
\* take a writer out of the slot and tell it: only the ISR does, which no task
\* preempts, so that nobody sees the slot between them.
THEOREM OnlyIsrWakesWriter == Spec => []ConfirmsAlone
<1>1. Init => SlotInv /\ LostInv
  <2>1. ASSUME Init
        PROVE  SlotInv /\ LostInv
    <3>1. blocked.taskID = NoTask /\ blocked.fct = "none" /\ \A t \in Tasks : ~event[t]
      BY <2>1 DEF Init
    <3>2. \A t \in Tasks : FctOf(t) # "none" /\ NoTask # t
      BY DEF FctOf
    <3> QED
      BY <3>1, <3>2
      DEF SlotInv, InSlot, Told, FoundInSlot, LostInv, LeftOver, ToldEarly, TakenOver
  <2> QED
    BY <2>1
<1>2. TypeInv /\ SlotInv /\ LostInv /\ [Next]_vars => SlotInv' /\ LostInv'
  <2>1. TypeInv /\ SlotInv /\ [Next]_vars => SlotInv'
    BY StepCases, BlockSlot, OtherSlot, ConfirmationSlot, IsrEnterSlot
  <2>2. TypeInv /\ SlotInv /\ LostInv /\ [Next]_vars => LostInv'
    BY StepCases, BlockLost, OtherLost, WakeLost, IsrEnterLost DEF TxConfirmation
  <2> QED
    BY <2>1, <2>2
<1> QED
  BY <1>1, <1>2, TypesHold, LostInvImplies, PTL DEF Spec


(***************************************************************************)
(* The receive ring: what it holds are the bytes put there and not read    *)
(***************************************************************************)
RxHolds == Holds(rx, delivered, received)

\* What the reader is about to take is in the ring, and will be if the ISR takes
\* a byte off a full one: it asked for less.
Taking == pc[Reader] \in {"copy", "update"} => rd.nbyte <= Fill(rx)
ReadsLess == rd.nbyte <= NBytes - 2

RxInv == RxHolds /\ Taking /\ ReadsLess /\ RxInOrder

LEMMA RxInvImplies == TypeInv /\ RxInv => RxInOrder /\ TakesWhatIsThere
<1>1. Rx!Count(rx.tail) = Fill(rx)
  BY RingOperators DEF Fill
<1> QED
  BY <1>1 DEF RxInv, Taking, TakesWhatIsThere

\* A step that leaves the ring and the reader alone.
LEMMA OtherRx ==
  ASSUME TypeInv, RxInv, UNCHANGED rxVars, pc'[Reader] = pc[Reader]
  PROVE  RxInv'
BY DEF rxVars, RxInv, RxHolds, Taking, ReadsLess, RxInOrder

\* A step of the reader that leaves the ring alone and does not go to copy or
\* update.
LEMMA ReaderRx ==
  ASSUME TypeInv, RxInv, UNCHANGED <<rx, received, delivered>>, ReadsLess', NEW to,
         PlaceOf(Reader, to), to \notin {"copy", "update"}, Goto(Reader, to)
  PROVE  RxInv'
<1>1. pc'[Reader] = to
  BY GotoFacts, TasksFacts DEF TypeInv
<1> QED
  BY <1>1 DEF RxInv, RxHolds, Taking, RxInOrder

LEMMA BlockRx ==
  ASSUME TypeInv, RxInv, NEW t \in Tasks, Block(t)
  PROVE  RxInv'
<1>1. PICK to \in BlockPCs \cup {"get", "space"} :
        /\ to \in BlockPCs \cup {IF t = Reader THEN "get" ELSE "space"}
        /\ Goto(t, to) /\ UNCHANGED rxVars
  BY DEF Block, BlockIrqOff, BlockIrqOn, IerLoad, IerStore, BlockTaskID, BlockFct, WaitEvent,
         ClearEvent, BlockPCs
<1>2. PlaceOf(t, to) /\ to \notin {"copy", "update"}
  BY <1>1, TasksFacts DEF PlaceOf, ReaderPCs, WriterPCs, BlockPCs
<1>3. CASE t = Reader
  <2>1. ReadsLess' /\ UNCHANGED <<rx, received, delivered>>
    BY <1>1 DEF RxInv, ReadsLess, rxVars
  <2> QED
    BY <1>1, <1>2, <1>3, <2>1, ReaderRx
<1>4. CASE t # Reader
  <2>1. pc'[Reader] = pc[Reader]
    BY <1>1, <1>2, <1>4, GotoFacts, TasksFacts DEF TypeInv
  <2> QED
    BY <1>1, <2>1, OtherRx
<1> QED
  BY <1>3, <1>4

LEMMA ReadRx ==
  ASSUME TypeInv, RxInv, ReadLengths \subseteq 1 .. NBytes - 2,
         \E nbyte \in ReadLengths : Read(nbyte)
  PROVE  RxInv'
<1>1. PICK nbyte \in ReadLengths : Read(nbyte)
  OBVIOUS
<1>2. PICK to \in {"get", "block"} :
        Goto(Reader, to) /\ UNCHANGED <<rx, received, delivered>>
  BY <1>1 DEF Read
<1>3. PlaceOf(Reader, to) /\ to \notin {"copy", "update"}
  BY <1>2, TasksFacts DEF PlaceOf, ReaderPCs, BlockPCs
<1>4. ReadsLess'
  <2>1. rd'.nbyte = nbyte
    BY <1>1 DEF Read, NotReading
  <2>2. nbyte \in 1 .. NBytes - 2
    OBVIOUS
  <2> QED
    BY <2>1, <2>2 DEF ReadsLess
<1> QED
  BY <1>2, <1>3, <1>4, ReaderRx

LEMMA GetRx ==
  ASSUME TypeInv, RxInv, Get
  PROVE  RxInv'
<1>1. PICK n : n = Min(rd.nbyte, Rx!Count(rx.tail))
  OBVIOUS
<1>2. /\ rd' = [rd EXCEPT !.nbyte = n, !.raw = Min(n, Rx!RawCount(rx.tail))]
      /\ Goto(Reader, IF n = 0 THEN "app" ELSE "copy")
      /\ UNCHANGED <<rx, rxcnt, received, delivered>>
  BY <1>1 DEF Get
<1>3. RxTyped /\ rd \in ReadLocals
  BY DEF TypeInv, RxTyped
<1>4. n <= Fill(rx) /\ n <= rd.nbyte /\ n \in Nat /\ rd.nbyte \in Nat
  <2>1. Rx!Count(rx.tail) = Fill(rx) /\ Rx!Count(rx.tail) \in 0 .. NBytes - 1
    BY <1>3, RingOperators, RingTypes, TailsInIndex DEF Fill
  <2>2. rd.nbyte \in Nat /\ Rx!Count(rx.tail) \in Nat
    BY <1>3, <2>1 DEF ReadLocals
  <2>3. n <= Rx!Count(rx.tail) /\ n <= rd.nbyte /\ n \in Nat
    BY <1>1, <2>2, MinFacts
  <2> QED
    BY <2>1, <2>2, <2>3
<1>5. rd'.nbyte = n
  BY <1>2, <1>3 DEF ReadLocals
<1>6. \A to \in {"app", "copy"} : PlaceOf(Reader, to)
  BY TasksFacts DEF PlaceOf, ReaderPCs
<1>7. PICK to \in {"app", "copy"} : pc'[Reader] = to
  <2>1. PICK to \in {"app", "copy"} : Goto(Reader, to)
    BY <1>2
  <2>2. pc'[Reader] = to
    BY <1>6, <2>1, GotoFacts, TasksFacts DEF TypeInv
  <2> QED
    BY <2>2
<1>8. Taking'
  BY <1>2, <1>4, <1>5, <1>7 DEF Taking
<1>9. RxInOrder'
  BY <1>7 DEF RxInOrder
<1>10. ReadsLess'
  BY <1>4, <1>5 DEF RxInv, ReadsLess
<1> QED
  BY <1>2, <1>8, <1>9, <1>10 DEF RxInv, RxHolds

\* The two pieces together are the bytes in turn from the head on.
LEMMA GetCopyRx ==
  ASSUME TypeInv, RxInv, GetCopy
  PROVE  RxInv'
<1>1. /\ Goto(Reader, "update") /\ UNCHANGED <<rx, rxcnt, received, delivered>>
      /\ rd' \in ReadLocals /\ rd'.nbyte = rd.nbyte /\ Len(rd'.data) = rd.nbyte
  BY GetCopyFacts
<1>2. pc[Reader] = "copy"
  BY DEF GetCopy, At
<1>3. rd.nbyte <= Fill(rx)
  BY <1>2 DEF RxInv, Taking
<1>4. RxTyped /\ rx \in Ring /\ rd.nbyte \in Nat /\ rd.raw \in Nat
      /\ rx.head \in 0 .. NBytes - 1 /\ Fill(rx) \in 0 .. NBytes - 1
      /\ delivered \in 0 .. NBytes - 1
  BY TailsInIndex, IndexFacts, FillIs DEF TypeInv, RxTyped, ReadLocals
<1>5. rd.nbyte \in 0 .. NBytes - 1
  BY <1>3, <1>4
<1>6. PICK raw \in Nat : raw = rd.raw
  BY <1>4
<1>7. \/ raw = rd.nbyte /\ rx.head + rd.nbyte <= NBytes
      \/ raw = NBytes - rx.head /\ raw <= rd.nbyte
  BY <1>2, <1>4, <1>6 DEF TypeInv, CopyFits
<1>8. ASSUME NEW i \in 1 .. rd.nbyte
      PROVE  rd'.data[i] = Turn(delivered + i - 1)
  <2>1. rd'.data[i] = IF i <= raw THEN rx.buf[rx.head + i - 1] ELSE rx.buf[i - raw - 1]
    BY <1>6, GetCopyFacts
  <2>2. PICK j \in 0 .. NBytes - 1 : j = i - 1 /\ j < Fill(rx) /\ j < rd.nbyte
    <3>1. i - 1 \in 0 .. NBytes - 1 /\ i - 1 < Fill(rx) /\ i - 1 < rd.nbyte
      BY <1>3, <1>4, <1>5
    <3> QED
      BY <3>1
  <2>3. rx.buf[Turn(rx.head + j)] = Turn(delivered + j)
    BY <2>2 DEF RxInv, RxHolds, Holds, Place
  <2>4. Turn(rx.head + j) = IF rx.head + j < NBytes THEN rx.head + j ELSE rx.head + j - NBytes
    BY <1>4, SumIs
  <2>5. Turn(rx.head + j) = IF i <= raw THEN rx.head + i - 1 ELSE i - raw - 1
    BY <1>4, <1>5, <1>7, <2>2, <2>4
  <2>6. delivered + i - 1 = delivered + j
    BY <1>4, <2>2
  <2> QED
    BY <2>1, <2>3, <2>5, <2>6
<1>9. rd'.data = [i \in 1 .. rd.nbyte |-> Turn(delivered + i - 1)]
  <2>1. rd'.data \in Seq(Byte)
    BY <1>1 DEF ReadLocals
  <2>2. DOMAIN rd'.data = 1 .. rd.nbyte /\ rd'.data = [i \in DOMAIN rd'.data |-> rd'.data[i]]
    BY <1>1, <1>4, <2>1
  <2> QED
    BY <1>8, <2>2
<1>10. pc'[Reader] = "update"
  <2>1. PlaceOf(Reader, "update")
    BY TasksFacts DEF PlaceOf, ReaderPCs
  <2> QED
    BY <1>1, <2>1, GotoFacts, TasksFacts DEF TypeInv
<1>11. RxInOrder'
  BY <1>1, <1>9, <1>10 DEF RxInOrder, Turn
<1>12. Taking'
  BY <1>1, <1>3, <1>10 DEF Taking
<1> QED
  BY <1>1, <1>11, <1>12 DEF RxInv, RxHolds, ReadsLess

LEMMA GetUpdateRx ==
  ASSUME TypeInv, RxInv, GetUpdateHead
  PROVE  RxInv'
<1>1. /\ pc[Reader] = "update" /\ Goto(Reader, "app") /\ received' = received /\ rd' = NotReading
      /\ rx' = [rx EXCEPT !.head = Turn(rx.head + rd.nbyte)]
      /\ delivered' = Turn(delivered + rd.nbyte)
  BY DEF GetUpdateHead, At, Turn
<1>2. rd.nbyte <= Fill(rx)
  BY <1>1 DEF RxInv, Taking
<1>3. rx \in Ring /\ delivered \in Byte /\ rd.nbyte \in Nat /\ Fill(rx) \in 0 .. NBytes - 1
  BY FillIs DEF TypeInv, RxTyped, ReadLocals
<1>4. rd.nbyte \in 0 .. Fill(rx) /\ Holds(rx, delivered, received)
  BY <1>2, <1>3 DEF RxInv, RxHolds
<1>5. Holds(rx', Turn(delivered + rd.nbyte), received)
  BY <1>1, <1>3, <1>4, HoldsTake
<1>6. RxHolds'
  BY <1>1, <1>5 DEF RxHolds
<1>7. pc'[Reader] = "app"
  <2>1. PlaceOf(Reader, "app")
    BY TasksFacts DEF PlaceOf, ReaderPCs
  <2> QED
    BY <1>1, <2>1, GotoFacts, TasksFacts DEF TypeInv
<1>8. ReadsLess'
  BY <1>1 DEF ReadsLess, NotReading
<1> QED
  BY <1>1, <1>6, <1>7, <1>8 DEF RxInv, Taking, RxInOrder

LEMMA SenderRx ==
  ASSUME TypeInv, RxInv,
         \/ (\E nbyte \in WriteLengths : Write(nbyte)) \/ WriteSpace \/ WritePut
         \/ StartTx \/ StartTxEnd
         \/ \E c \in {Writer, Isr} : TxConfirmation(c)
         \/ IsrCheck \/ TransmitterEmpty \/ UNCHANGED vars
  PROVE  RxInv'
<1>1. UNCHANGED rxVars
  BY DEF Write, WriteSpace, WritePut, StartTx, StartTxEnd, IerLoad, IerStore, TxConfirmation,
         Confirm, SendByte, SendEnd, SendMore, WakeWriter, IsrCheck, TransmitterEmpty, vars
<1>2. UNCHANGED pc \/ \E c \in {Writer, Isr} : \E to : Goto(c, to)
  BY DEF Write, WriteSpace, WritePut, StartTx, StartTxEnd, IerLoad, IerStore, TxConfirmation,
         Confirm, Confirmed, SendByte, SendEnd, SendMore, WakeWriter, IsrCheck, TransmitterEmpty,
         vars
<1>3. pc'[Reader] = pc[Reader]
  <2>1. pc \in [Tasks \cup {Isr} -> PCs]
    BY DEF TypeInv, PcTyped
  <2> QED
    BY <1>2, <2>1, SenderFacts, TasksFacts DEF Goto
<1> QED
  BY <1>1, <1>3, OtherRx


LEMMA RoomBeforeHead ==
  ASSUME NEW head \in Nat, NEW tail \in Nat, NEW raw \in Nat, tail + raw = NBytes
  PROVE  NBytes - 1 - (tail - head) - raw = head - 1
OBVIOUS

\* With room in the ring the two pieces go from the tail on and fit it.
LEMMA PiecesFit ==
  ASSUME RxTyped, NEW n \in Nat, NEW first, NEW second, Pieces(n, first, second),
         Fill(rx) < NBytes - 1
  PROVE  /\ first \in Nat /\ second \in Nat /\ first + second <= NBytes - 1 - Fill(rx)
         /\ rx.tail + first <= NBytes
         /\ rx.tail < rx.head => rx.tail + first < rx.head
         /\ second > 0 => rx.tail + first = NBytes /\ rx.head <= rx.tail /\ second < rx.head
<1>1. PICK raw : raw = Rx!RawSpace(rx.head)
  OBVIOUS
<1>2. PICK space : space = Rx!Space(rx.head)
  OBVIOUS
<1>3. rx \in Ring /\ rx.head \in 0 .. NBytes - 1 /\ rx.tail \in 0 .. NBytes - 1
  BY TailsInIndex, IndexFacts DEF RxTyped
<1>4. space = NBytes - 1 - Fill(rx)
  <2>1. space = Turn(rx.head - rx.tail - 1)
    BY <1>2, RingOperators
  <2> QED
    BY <1>3, <2>1, SpaceIs
<1>5. space = IF rx.head <= rx.tail THEN NBytes - 1 - (rx.tail - rx.head) ELSE rx.head - rx.tail - 1
  <2>1. Fill(rx) = IF rx.head <= rx.tail THEN rx.tail - rx.head ELSE rx.tail - rx.head + NBytes
    BY <1>3, FillIs
  <2> QED
    BY <1>3, <1>4, <2>1
<1>6. /\ raw = IF rx.tail >= rx.head THEN NBytes - 1 - rx.tail + (IF rx.head > 0 THEN 1 ELSE 0)
               ELSE rx.head - rx.tail - 1
      /\ raw \in Nat
  BY <1>1, RawSpaceIs
<1>7. space > 0
  BY <1>3, <1>4, FillIs
<1>8. raw > 0 /\ raw <= space /\ rx.tail + raw <= NBytes
  BY <1>3, <1>5, <1>6, <1>7
<1>9. first = DriverRead(raw, n)
  BY <1>1 DEF Pieces
<1>10. /\ first = IF raw < n THEN raw ELSE n
       /\ first \in Nat /\ first <= raw /\ first <= n
  <2>1. first = IF raw < n THEN raw ELSE n
    BY <1>6, <1>8, <1>9 DEF DriverRead, Min
  <2> QED
    BY <1>6, <2>1
<1>11. second = IF first = raw /\ space > raw THEN DriverRead(space - raw, n - first) ELSE 0
  BY <1>1, <1>2 DEF Pieces
<1>12. CASE first = raw /\ space > raw
  <2>1. PICK more \in Nat : more = space - raw /\ more > 0
    <3>1. space \in Nat
      BY <1>3, <1>5
    <3>2. space - raw \in Nat /\ space - raw > 0
      BY <1>6, <1>12, <3>1
    <3> QED
      BY <3>2
  <2>2. n - first \in Nat
    BY <1>10
  <2>3. second = DriverRead(more, n - first)
    BY <1>11, <1>12, <2>1
  <2>4. second \in Nat /\ second <= more
    BY <2>1, <2>2, <2>3 DEF DriverRead, Min
  <2>5. rx.head <= rx.tail /\ rx.head > 0 /\ rx.tail + raw = NBytes
    BY <1>3, <1>5, <1>6, <1>12
  <2>6. more <= rx.head - 1
    <3>1. space = NBytes - 1 - (rx.tail - rx.head)
      BY <1>5, <2>5
    <3>2. rx.tail + raw = NBytes
      BY <2>5
    <3>3. rx.head \in Nat /\ rx.tail \in Nat /\ raw \in Nat
      BY <1>3, <1>6
    <3>4. space - raw = rx.head - 1
      BY <3>1, <3>2, <3>3, RoomBeforeHead
    <3> QED
      BY <2>1, <3>3, <3>4
  <2>7. second < rx.head
    BY <1>3, <2>1, <2>4, <2>6
  <2>8. first + second <= space
    <3>1. space \in Nat
      BY <1>3, <1>5
    <3> QED
      BY <1>6, <1>10, <1>12, <2>1, <2>4, <3>1
  <2> QED
    BY <1>3, <1>4, <1>10, <1>12, <2>4, <2>5, <2>7, <2>8
<1>13. CASE ~(first = raw /\ space > raw)
  <2>1. second = 0
    BY <1>11, <1>13
  <2>2. rx.tail < rx.head => rx.tail + raw < rx.head
    BY <1>3, <1>6
  <2> QED
    BY <1>3, <1>4, <1>5, <1>6, <1>8, <1>10, <2>1, <2>2
<1> QED
  BY <1>12, <1>13

LEMMA IndicationRx ==
  ASSUME TypeInv, RxInv, NEW n \in Nat, RxIndication(n), Fill(rx) < NBytes - 1,
         delivered' = delivered
  PROVE  RxHolds' /\ Fill(rx) <= Fill(rx')
<1>1. RxTyped
  BY DEF TypeInv
<1>2. PICK first \in Int, second \in Nat :
        /\ Pieces(n, first, second)
        /\ rx' = [buf |-> rx'.buf, head |-> rx.head, tail |-> Turn(rx.tail + (first + second))]
        /\ rx'.buf \in [Index -> Byte]
        /\ \A i \in Index :
             rx'.buf[i] = IF i - rx.tail \in 0 .. first - 1 THEN Turn(received + (i - rx.tail))
                          ELSE IF i < second THEN Turn(received + (first + i)) ELSE rx.buf[i]
        /\ received' = Turn(received + (first + second))
  BY <1>1, IndicationFacts
<1>3. PICK k \in Int : k = first + second
  OBVIOUS
<1>4. /\ first \in Nat /\ k \in Nat /\ k <= NBytes - 1 - Fill(rx) /\ rx.tail + first <= NBytes
      /\ rx.tail < rx.head => rx.tail + first < rx.head
      /\ second > 0 => rx.tail + first = NBytes /\ rx.head <= rx.tail /\ second < rx.head
  BY <1>1, <1>2, <1>3, PiecesFit
<1>6. /\ rx \in Ring /\ rx.head \in 0 .. NBytes - 1 /\ rx.tail \in 0 .. NBytes - 1
      /\ received \in 0 .. NBytes - 1 /\ delivered \in Byte /\ Fill(rx) \in 0 .. NBytes - 1
      /\ Fill(rx) = IF rx.head <= rx.tail THEN rx.tail - rx.head ELSE rx.tail - rx.head + NBytes
  BY <1>1, TailsInIndex, IndexFacts, FillIs DEF RxTyped
<1>7. k \in 0 .. NBytes - 1 /\ k + Fill(rx) <= NBytes - 1
  BY <1>4, <1>6
<1>8. ASSUME NEW i \in 0 .. NBytes - 1, i < k
      PROVE  rx'.buf[Turn(rx.tail + i)] = Turn(received + i)
  <2>1. Turn(rx.tail + i) = IF rx.tail + i < NBytes THEN rx.tail + i ELSE rx.tail + i - NBytes
    BY <1>6, SumIs
  <2>2. PICK p \in 0 .. NBytes - 1 : p = Turn(rx.tail + i)
    BY <1>6, SumIs
  <2>5. rx'.buf[p] = IF p - rx.tail \in 0 .. first - 1 THEN Turn(received + (p - rx.tail))
                     ELSE IF p < second THEN Turn(received + (first + p)) ELSE rx.buf[p]
    BY <1>2, IndexFacts
  <2>6. CASE i < first
    <3>1. p = rx.tail + i
      BY <1>4, <1>6, <2>1, <2>2, <2>6
    <3>2. p - rx.tail = i
      BY <1>6, <3>1
    <3>3. i \in 0 .. first - 1
      BY <1>4, <2>6
    <3> QED
      BY <2>2, <2>5, <3>2, <3>3
  <2>7. CASE i >= first
    <3>1. second > 0
      BY <1>3, <1>4, <1>8, <2>7
    <3>2. rx.tail + first = NBytes /\ rx.head <= rx.tail /\ second < rx.head
      BY <1>4, <3>1
    <3>3. p = i - first
      <4>1. PICK t \in 0 .. NBytes - 1 : t = rx.tail /\ t + first = NBytes
        BY <1>6, <3>2
      <4>2. t + i >= NBytes /\ t + i - NBytes = i - first
        BY <1>4, <2>7, <4>1
      <4> QED
        BY <2>1, <2>2, <4>1, <4>2
    <3>4. p < second /\ p - rx.tail \notin 0 .. first - 1 /\ first + p = i
      BY <1>3, <1>4, <1>6, <1>8, <2>7, <3>2, <3>3
    <3> QED
      BY <2>2, <2>5, <3>4
  <2> QED
    BY <1>4, <2>6, <2>7
<1>9. ASSUME NEW i \in 0 .. NBytes - 1, i < Fill(rx)
      PROVE  rx'.buf[Place(rx, i)] = rx.buf[Place(rx, i)]
  <2>1. Turn(rx.head + i) = IF rx.head + i < NBytes THEN rx.head + i ELSE rx.head + i - NBytes
    BY <1>6, SumIs
  <2>2. PICK p \in 0 .. NBytes - 1 : p = Turn(rx.head + i)
    BY <1>6, SumIs
  <2>3. rx'.buf[p] = IF p - rx.tail \in 0 .. first - 1 THEN Turn(received + (p - rx.tail))
                     ELSE IF p < second THEN Turn(received + (first + p)) ELSE rx.buf[p]
    BY <1>2, IndexFacts
  <2>4. CASE rx.head <= rx.tail
    <3>1. p = rx.head + i /\ p < rx.tail
      BY <1>6, <1>9, <2>1, <2>2, <2>4
    <3>2. ~(p < second)
      <4>1. p >= rx.head
        BY <1>6, <3>1
      <4>2. second > 0 => second < rx.head
        BY <1>4
      <4> QED
        BY <1>6, <4>1, <4>2
    <3>3. p - rx.tail \notin 0 .. first - 1
      <4>1. p - rx.tail < 0
        BY <1>6, <3>1
      <4> QED
        BY <4>1
    <3> QED
      BY <2>2, <2>3, <3>2, <3>3 DEF Place
  <2>5. CASE rx.head > rx.tail
    <3>1. second = 0 /\ rx.tail + first < rx.head
      BY <1>4, <1>6, <2>5
    <3>2. p >= rx.head \/ p < rx.tail
      BY <1>6, <1>9, <2>1, <2>2, <2>5
    <3>3. ~(p < second)
      BY <3>1
    <3>4. p - rx.tail \notin 0 .. first - 1
      <4>1. CASE p >= rx.head
        <5>1. p - rx.tail > first - 1
          BY <1>4, <1>6, <3>1, <4>1
        <5> QED
          BY <5>1
      <4>2. CASE p < rx.tail
        <5>1. p - rx.tail < 0
          BY <1>6, <4>2
        <5> QED
          BY <5>1
      <4> QED
        BY <3>2, <4>1, <4>2
    <3> QED
      BY <2>2, <2>3, <3>3, <3>4 DEF Place
  <2> QED
    BY <1>6, <2>4, <2>5
<1>10. PICK buf \in [Index -> Byte] : buf = rx'.buf
  BY <1>2
<1>11. rx' = [buf |-> buf, head |-> rx.head, tail |-> Turn(rx.tail + k)]
  BY <1>2, <1>3, <1>10
<1>12. Holds(rx, delivered, received)
  BY DEF RxInv, RxHolds
<1>13. Fill(rx') = Fill(rx) + k /\ Holds(rx', delivered, Turn(received + k))
  <2>1. \A i \in 0 .. NBytes - 1 : i < Fill(rx) => buf[Place(rx, i)] = rx.buf[Place(rx, i)]
    BY <1>9, <1>10
  <2>2. \A i \in 0 .. NBytes - 1 : i < k => buf[Turn(rx.tail + i)] = Turn(received + i)
    BY <1>8, <1>10
  <2>3. PICK q : q = [buf |-> buf, head |-> rx.head, tail |-> Turn(rx.tail + k)]
    OBVIOUS
  <2>4. rx \in Ring /\ delivered \in Byte /\ buf \in [Index -> Byte]
    BY <1>6
  <2>5. Fill(q) = Fill(rx) + k /\ Holds(q, delivered, Turn(received + k))
    BY <1>7, <1>12, <2>1, <2>2, <2>3, <2>4, HoldsAdd
  <2> QED
    BY <1>11, <2>3, <2>5
<1>14. received' = Turn(received + k)
  BY <1>2, <1>3
<1>15. Fill(rx) <= Fill(rx')
  BY <1>4, <1>6, <1>13
<1> QED
  BY <1>13, <1>14, <1>15 DEF RxHolds

\* The ring full, the driver returns -1, and the newest byte is taken off.
LEMMA FullRx ==
  ASSUME TypeInv, RxInv, NEW n \in Nat, RxIndication(n), Fill(rx) = NBytes - 1,
         delivered' = delivered
  PROVE  RxHolds' /\ Fill(rx') = NBytes - 2
<1>1. RxTyped /\ rx \in Ring /\ delivered \in Byte /\ received \in 0 .. NBytes - 1
  BY IndexFacts DEF TypeInv, RxTyped
<1>2. PICK first \in Int, second \in Nat :
        /\ Pieces(n, first, second)
        /\ rx' = [buf |-> rx'.buf, head |-> rx.head, tail |-> Turn(rx.tail + (first + second))]
        /\ rx'.buf \in [Index -> Byte]
        /\ \A i \in Index :
             rx'.buf[i] = IF i - rx.tail \in 0 .. first - 1 THEN Turn(received + (i - rx.tail))
                          ELSE IF i < second THEN Turn(received + (first + i)) ELSE rx.buf[i]
        /\ received' = Turn(received + (first + second))
  BY <1>1, IndicationFacts
<1>3. Rx!RawSpace(rx.head) = 0
  <2>1. rx.head \in 0 .. NBytes - 1 /\ rx.tail \in 0 .. NBytes - 1
    BY <1>1, RingFacts
  <2>2. Fill(rx) = IF rx.head <= rx.tail THEN rx.tail - rx.head ELSE rx.tail - rx.head + NBytes
    BY <1>1, FillIs
  <2> QED
    BY <1>1, <2>1, <2>2, RawSpaceIs
<1>4. first = -1 /\ second = 0
  BY <1>2, <1>3 DEF Pieces, DriverRead
<1>5. rx'.buf = rx.buf
  <2>1. \A i \in Index : rx'.buf[i] = rx.buf[i]
    <3>1. ASSUME NEW i \in Index
          PROVE  rx'.buf[i] = rx.buf[i]
      <4>1. i \in 0 .. NBytes - 1 /\ ~(i < 0) /\ i - rx.tail \notin 0 .. -1 - 1
        BY IndexFacts
      <4> QED
        BY <1>2, <1>4, <4>1
    <3> QED
      BY <3>1
  <2>2. rx.buf \in [Index -> Byte]
    BY <1>1, RingFacts
  <2> QED
    BY <1>2, <2>1, <2>2
<1>6. rx.tail \in 0 .. NBytes - 1
  BY <1>1, RingFacts
<1>7. rx.tail + (first + second) = rx.tail - 1 /\ received + (first + second) = received - 1
  BY <1>1, <1>4, <1>6
<1>8. rx' = [buf |-> rx.buf, head |-> rx.head, tail |-> Turn(rx.tail - 1)]
      /\ received' = Turn(received - 1)
  BY <1>2, <1>5, <1>7
<1>9. Holds(rx, delivered, received) /\ Fill(rx) > 0
  BY DEF RxInv, RxHolds
<1>10. Holds(rx', delivered, Turn(received - 1)) /\ Fill(rx') = Fill(rx) - 1
  BY <1>1, <1>8, <1>9, HoldsDrop
<1> QED
  BY <1>8, <1>10 DEF RxHolds

LEMMA IsrEnterRx ==
  ASSUME TypeInv, RxInv, NEW k \in Nat, IsrEnter(k)
  PROVE  RxInv'
<1>1. RxTyped /\ rx \in Ring
  BY DEF TypeInv, RxTyped
<1>2. UNCHANGED <<rd, delivered>> /\ pc'[Reader] = pc[Reader]
  <2>1. PICK to \in {"confirm", "app"} : Goto(Isr, to)
    BY <1>1, IsrEnterFacts
  <2>2. PlaceOf(Isr, to)
    BY <2>1, TasksFacts DEF PlaceOf, IsrPCs, ConfPCs
  <2>3. pc'[Reader] = pc[Reader]
    BY <2>1, <2>2, GotoFacts, TasksFacts DEF TypeInv
  <2> QED
    BY <1>1, <2>3, IsrEnterFacts
<1>3. RxInOrder' /\ ReadsLess'
  BY <1>2 DEF RxInv, RxInOrder, ReadsLess
<1>4. CASE \E n \in 0 .. UART_RX_FIFO_SIZE : RxIndication(n)
  <2>1. PICK n \in 0 .. UART_RX_FIFO_SIZE : RxIndication(n) /\ n \in Nat
    BY <1>4
  <2>2. Fill(rx) \in 0 .. NBytes - 1 /\ rd.nbyte \in Nat /\ rd.nbyte <= NBytes - 2
    BY <1>1, FillIs DEF TypeInv, RxTyped, ReadLocals, RxInv, ReadsLess
  <2>3. CASE Fill(rx) < NBytes - 1
    <3>1. RxHolds' /\ Fill(rx) <= Fill(rx')
      BY <1>2, <2>1, <2>3, IndicationRx
    <3>2. Fill(rx') \in 0 .. NBytes - 1
      BY <2>1, IndicationTypes, FillIs
    <3>3. Taking'
      BY <1>2, <2>2, <3>1, <3>2 DEF RxInv, Taking
    <3> QED
      BY <1>3, <3>1, <3>3 DEF RxInv
  <2>4. CASE Fill(rx) = NBytes - 1
    <3>1. RxHolds' /\ Fill(rx') = NBytes - 2
      BY <1>2, <2>1, <2>4, FullRx
    <3>2. Taking'
      BY <1>2, <2>2, <3>1 DEF Taking
    <3> QED
      BY <1>3, <3>1, <3>2 DEF RxInv
  <2> QED
    BY <2>2, <2>3, <2>4
<1>5. CASE UNCHANGED <<rx, rxcnt, received, wakeVars>>
  BY <1>2, <1>3, <1>5 DEF RxInv, RxHolds, Taking
<1> QED
  BY <1>1, <1>4, <1>5, IsrEnterFacts

LEMMA InitRx ==
  ASSUME Init
  PROVE  RxInv
<1>1. /\ rx = EmptyRing /\ received = 1 /\ delivered = 1 /\ pc[Reader] = "app"
      /\ rd = NotReading
  BY TasksFacts DEF Init
<1>2. EmptyRing.head = 0 /\ EmptyRing.tail = 0
  BY DEF EmptyRing
<1>3. Fill(EmptyRing) = 0
  BY <1>2, TurnFacts DEF Fill
<1>4. Turn(1) = 1
  BY TurnFacts
<1>5. Holds(EmptyRing, 1, 1)
  BY <1>3, <1>4 DEF Holds
<1>6. ReadsLess
  BY <1>1 DEF ReadsLess, NotReading
<1> QED
  BY <1>1, <1>5, <1>6 DEF RxInv, RxHolds, Taking, RxInOrder

LEMMA RxInvHolds ==
  ASSUME ReadLengths \subseteq 1 .. NBytes - 2
  PROVE  Spec => []RxInv
<1>1. Init => RxInv
  BY InitRx
<1>2. TypeInv /\ RxInv /\ [Next]_vars => RxInv'
  BY StepCases, ReadRx, GetRx, GetCopyRx, GetUpdateRx, BlockRx, SenderRx, IsrEnterRx
<1> QED
  BY <1>1, <1>2, TypesHold, PTL DEF Spec

\* read returns the bytes that were put into the ring and not taken off again,
\* each once and in order, while the ISR fills the ring and takes bytes off a
\* full one, however far the peer is ahead: as long as no read asks for a whole
\* full ring.
THEOREM ReadsAreInOrder ==
  ASSUME ReadLengths \subseteq 1 .. NBytes - 2
  PROVE  Spec => []RxInOrder
BY RxInvHolds, RxInvImplies, TypesHold, PTL

\* Under the same condition the ISR takes no byte back that a read has counted,
\* and the head does not pass the tail.
THEOREM ReadsStayBehindTail ==
  ASSUME ReadLengths \subseteq 1 .. NBytes - 2
  PROVE  Spec => []TakesWhatIsThere
BY RxInvHolds, RxInvImplies, TypesHold, PTL


(***************************************************************************)
(* The transmit interrupt stays off while the writer confirms              *)
(***************************************************************************)
OneSender == pc[Writer] \in ConfPCs => ~ier["tx"] /\ pc[Isr] \notin ConfPCs

\* A reader that preempts the writer does not enable it with what it loaded.
ReaderKeepsOff ==
  pc[Writer] \in ConfPCs /\ Reader \in Higher /\ pc[Reader] \in {"rxtxoff", "rxtxon"}
    => ~loaded[Reader]["tx"]

AboutOff == pc[Writer] = "txoff" => ~loaded[Writer]["tx"]

IrqInv == OneSender /\ ReaderKeepsOff /\ AboutOff

LEMMA PlainIrq ==
  ASSUME TypeInv, IrqInv, UNCHANGED <<ier, loaded>>, NEW c \in Tasks \cup {Isr}, NEW to,
         PlaceOf(c, to), Goto(c, to),
         c = Reader => to \notin {"rxtxoff", "rxtxon"},
         c = Writer => \/ to \notin ConfPCs /\ to # "txoff"
                       \/ pc[Writer] \in ConfPCs /\ to \in ConfPCs,
         c = Isr => to \notin ConfPCs \/ pc[Writer] \notin ConfPCs
  PROVE  IrqInv'
<1>1. pc'[c] = to /\ \A d \in Tasks \cup {Isr} : d # c => pc'[d] = pc[d]
  BY GotoFacts DEF TypeInv
<1>2. "txoff" \notin ConfPCs
  BY DEF ConfPCs
<1>3. c = Reader \/ c = Writer \/ c = Isr
  BY TasksFacts
<1>4. OneSender'
  BY <1>1, <1>3, TasksFacts DEF IrqInv, OneSender
<1>5. ReaderKeepsOff'
  BY <1>1, <1>3, TasksFacts DEF IrqInv, ReaderKeepsOff
<1>6. AboutOff'
  BY <1>1, <1>2, <1>3, TasksFacts DEF IrqInv, AboutOff
<1> QED
  BY <1>4, <1>5, <1>6 DEF IrqInv

\* Both tasks together do not preempt each other.
LEMMA WhoRuns ==
  ASSUME NEW t \in Tasks, NEW place, At(t, place)
  PROVE  /\ pc[Isr] = "app" /\ pc[t] = place
         /\ t = Reader => Reader \in Higher \/ pc[Writer] \notin ConfPCs
         /\ t = Writer /\ Higher # Tasks /\ Reader \in Higher
              => pc[Reader] \notin {"rxtxoff", "rxtxon"}
<1>1. /\ pc[Isr] = "app" /\ pc[t] = place
      /\ t \in Higher \/ \A u \in Tasks \ {t} : Idle(u)
  BY DEF At
<1>2. \A u : Idle(u) => pc[u] \notin ConfPCs /\ pc[u] \notin {"rxtxoff", "rxtxon"}
  BY DEF Idle, ConfPCs
<1>3. Reader \in Higher /\ Writer \in Higher => Higher = Tasks
  BY DEF Tasks
<1> QED
  BY <1>1, <1>2, <1>3, TasksFacts

LEMMA LoadIrq ==
  ASSUME TypeInv, IrqInv, NEW t \in Tasks, NEW from, NEW line \in {"rx", "tx"},
         NEW value \in BOOLEAN, NEW to, PlaceOf(t, to), IerLoad(t, from, line, value, to),
         t = Reader => line = "rx",
         t = Writer => to \notin ConfPCs /\ (to = "txoff" => line = "tx" /\ value = FALSE)
  PROVE  IrqInv'
<1>1. /\ Goto(t, to) /\ ier' = ier
      /\ loaded' = [loaded EXCEPT ![t] = [ier EXCEPT ![line] = value]]
  BY DEF IerLoad
<1>2. pc'[t] = to /\ \A d \in Tasks \cup {Isr} : d # t => pc'[d] = pc[d]
  BY <1>1, GotoFacts DEF TypeInv
<1>3. /\ ier \in [{"rx", "tx"} -> BOOLEAN] /\ loaded \in [Tasks -> [{"rx", "tx"} -> BOOLEAN]]
  BY DEF TypeInv, FlagsTyped
<1>4. PICK load \in [{"rx", "tx"} -> BOOLEAN] :
        load = [ier EXCEPT ![line] = value] /\ load["tx"] = IF line = "tx" THEN value ELSE ier["tx"]
  <2>1. PICK load : load = [ier EXCEPT ![line] = value]
    OBVIOUS
  <2>2. load \in [{"rx", "tx"} -> BOOLEAN] /\ load["tx"] = IF line = "tx" THEN value ELSE ier["tx"]
    BY <1>3, <2>1
  <2> QED
    BY <2>1, <2>2
<1>5. loaded'[t] = load /\ \A u \in Tasks : u # t => loaded'[u] = loaded[u]
  BY <1>1, <1>3, <1>4
<1>6. CASE t = Reader
  <2>1. load["tx"] = ier["tx"]
    BY <1>4, <1>6
  <2>2. /\ pc'[Writer] = pc[Writer] /\ pc'[Isr] = pc[Isr] /\ loaded'[Reader]["tx"] = ier["tx"]
        /\ loaded'[Writer] = loaded[Writer] /\ ier' = ier
    BY <1>1, <1>2, <1>5, <1>6, <2>1, TasksFacts
  <2>3. OneSender' /\ AboutOff'
    BY <2>2 DEF IrqInv, OneSender, AboutOff
  <2>4. ReaderKeepsOff'
    BY <2>2 DEF IrqInv, OneSender, ReaderKeepsOff
  <2> QED
    BY <2>3, <2>4 DEF IrqInv
<1>7. CASE t = Writer
  <2>1. pc'[Writer] = to /\ to \notin ConfPCs /\ loaded'[Writer] = load
    BY <1>2, <1>5, <1>7
  <2>2. OneSender' /\ ReaderKeepsOff'
    BY <2>1 DEF OneSender, ReaderKeepsOff
  <2>3. AboutOff'
    BY <1>4, <1>7, <2>1 DEF AboutOff
  <2> QED
    BY <2>2, <2>3 DEF IrqInv
<1> QED
  BY <1>6, <1>7, TasksFacts

LEMMA StoreIrq ==
  ASSUME TypeInv, IrqInv, Higher # Tasks, NEW t \in Tasks, NEW from, NEW to, PlaceOf(t, to),
         IerStore(t, from, to), to # "txoff",
         t = Reader => from \in {"rxtxoff", "rxtxon"} /\ to \notin {"rxtxoff", "rxtxon"},
         t = Writer => to \notin ConfPCs \/ from = "txoff"
  PROVE  IrqInv'
<1>1. /\ At(t, from) /\ Goto(t, to) /\ ier' = loaded[t]
      /\ loaded' = [loaded EXCEPT ![t] = NoneEnabled]
  BY DEF IerStore
<1>2. pc'[t] = to /\ \A d \in Tasks \cup {Isr} : d # t => pc'[d] = pc[d]
  BY <1>1, GotoFacts DEF TypeInv
<1>3. /\ ier \in [{"rx", "tx"} -> BOOLEAN] /\ loaded \in [Tasks -> [{"rx", "tx"} -> BOOLEAN]]
  BY DEF TypeInv, FlagsTyped
<1>4. \A u \in Tasks : u # t => loaded'[u] = loaded[u]
  BY <1>1, <1>3
<1>5. pc[Isr] = "app" /\ pc[t] = from /\ "app" \notin ConfPCs
  BY <1>1, WhoRuns DEF ConfPCs
<1>6. CASE t = Reader
  <2>1. /\ pc'[Writer] = pc[Writer] /\ pc'[Isr] = "app" /\ pc'[Reader] = to
        /\ loaded'[Writer] = loaded[Writer] /\ ier' = loaded[Reader]
    BY <1>1, <1>2, <1>4, <1>5, <1>6, TasksFacts
  <2>2. pc[Writer] \in ConfPCs => ~loaded[Reader]["tx"]
    <3>1. pc[Writer] \in ConfPCs => Reader \in Higher
      BY <1>1, <1>6, WhoRuns
    <3>2. pc[Reader] \in {"rxtxoff", "rxtxon"}
      BY <1>5, <1>6
    <3> QED
      BY <3>1, <3>2 DEF IrqInv, ReaderKeepsOff
  <2>3. OneSender'
    BY <1>5, <2>1, <2>2 DEF OneSender
  <2>4. ReaderKeepsOff'
    BY <1>6, <2>1 DEF ReaderKeepsOff
  <2>5. AboutOff'
    BY <2>1 DEF IrqInv, AboutOff
  <2> QED
    BY <2>3, <2>4, <2>5 DEF IrqInv
<1>7. CASE t = Writer
  <2>1. /\ pc'[Writer] = to /\ pc'[Isr] = "app" /\ pc'[Reader] = pc[Reader]
        /\ loaded'[Reader] = loaded[Reader] /\ ier' = loaded[Writer]
    BY <1>1, <1>2, <1>4, <1>5, <1>7, TasksFacts
  <2>2. OneSender'
    BY <1>5, <1>7, <2>1 DEF IrqInv, AboutOff, OneSender
  <2>3. ReaderKeepsOff'
    BY <1>1, <1>7, <2>1, WhoRuns DEF ReaderKeepsOff
  <2>4. AboutOff'
    BY <2>1 DEF AboutOff
  <2> QED
    BY <2>2, <2>3, <2>4 DEF IrqInv
<1> QED
  BY <1>6, <1>7, TasksFacts

LEMMA BlockIrq ==
  ASSUME TypeInv, IrqInv, Higher # Tasks, NEW t \in Tasks, Block(t)
  PROVE  IrqInv'
<1>1. \A place \in BlockPCs \cup {IF t = Reader THEN "get" ELSE "space"} :
        PlaceOf(t, place) /\ place \notin ConfPCs /\ place # "txoff"
  BY TasksFacts DEF PlaceOf, ReaderPCs, WriterPCs, BlockPCs, ConfPCs
<1>2. \A place \in {"rxtxoff", "taskid", "fct", "unblock", "rxtxon", "wait", "clear"} :
        place \in BlockPCs
  BY DEF BlockPCs
<1>3. Line(t) \in {"rx", "tx"} /\ (t = Reader => Line(t) = "rx")
  BY TasksFacts DEF Line
<1>4. CASE \/ IerLoad(t, "block", Line(t), FALSE, "rxtxoff")
           \/ IerLoad(t, "unblock", Line(t), TRUE, "rxtxon")
  BY <1>1, <1>2, <1>3, <1>4, LoadIrq
<1>5. CASE IerStore(t, "rxtxoff", "taskid") \/ IerStore(t, "rxtxon", "wait")
  BY <1>1, <1>2, <1>5, StoreIrq
<1>6. CASE BlockTaskID(t) \/ BlockFct(t) \/ WaitEvent(t) \/ ClearEvent(t)
  <2>1. PICK to \in {"fct", "unblock", "clear", "get", "space"} :
          /\ to \in BlockPCs \cup {IF t = Reader THEN "get" ELSE "space"}
          /\ Goto(t, to) /\ UNCHANGED <<ier, loaded>>
    BY <1>2, <1>6 DEF BlockTaskID, BlockFct, WaitEvent, ClearEvent
  <2> QED
    BY <1>1, <2>1, PlainIrq, TasksFacts
<1> QED
  BY <1>4, <1>5, <1>6 DEF Block, BlockIrqOff, BlockIrqOn

LEMMA StartTxIrq ==
  ASSUME TypeInv, IrqInv, Higher # Tasks, StartTx \/ StartTxEnd
  PROVE  IrqInv'
<1>1. \A place \in {"txoff", "confirm", "txon", "block", "app"} : PlaceOf(Writer, place)
  BY TasksFacts DEF PlaceOf, WriterPCs, ConfPCs, BlockPCs
<1>2. \A place \in {"txoff", "txon", "block", "app"} : place \notin ConfPCs
  BY DEF ConfPCs
<1>3. Writer \in Tasks /\ Writer # Reader /\ "tx" \in {"rx", "tx"}
  BY TasksFacts
<1>4. CASE \/ IerLoad(Writer, "starttx", "tx", FALSE, "txoff")
           \/ IerLoad(Writer, "txdone", "tx", TRUE, "txon")
  BY <1>1, <1>2, <1>3, <1>4, LoadIrq
<1>5. CASE IerStore(Writer, "txoff", "confirm")
  BY <1>1, <1>3, <1>5, StoreIrq
<1>6. CASE IerStore(Writer, "txon", IF wr.left > 0 THEN "block" ELSE "app")
  <2>1. PICK to \in {"block", "app"} : IerStore(Writer, "txon", to)
    BY <1>6
  <2> QED
    BY <1>1, <1>2, <1>3, <2>1, StoreIrq
<1> QED
  BY <1>4, <1>5, <1>6 DEF StartTx, StartTxEnd

LEMMA OtherIrq ==
  ASSUME TypeInv, IrqInv,
         \/ (\E nbyte \in ReadLengths : Read(nbyte)) \/ Get \/ GetCopy \/ GetUpdateHead
         \/ (\E nbyte \in WriteLengths : Write(nbyte)) \/ WriteSpace \/ WritePut
         \/ IsrCheck \/ TransmitterEmpty \/ UNCHANGED vars
  PROVE  IrqInv'
<1>1. CASE (\E nbyte \in ReadLengths : Read(nbyte)) \/ Get \/ GetCopy \/ GetUpdateHead
  <2>1. PICK to \in {"app", "get", "block", "copy", "update"} :
          Goto(Reader, to) /\ UNCHANGED <<ier, loaded>>
    BY <1>1 DEF Read, Get, GetCopy, GetUpdateHead
  <2>2. PlaceOf(Reader, to) /\ to \notin {"rxtxoff", "rxtxon"}
    BY <2>1, TasksFacts DEF PlaceOf, ReaderPCs, BlockPCs
  <2> QED
    BY <2>1, <2>2, PlainIrq, TasksFacts
<1>2. CASE (\E nbyte \in WriteLengths : Write(nbyte)) \/ WriteSpace \/ WritePut
  <2>1. PICK to \in {"space", "put", "starttx"} : Goto(Writer, to) /\ UNCHANGED <<ier, loaded>>
    BY <1>2 DEF Write, WriteSpace, WritePut
  <2>2. PlaceOf(Writer, to) /\ to \notin ConfPCs /\ to # "txoff"
    BY <2>1, TasksFacts DEF PlaceOf, WriterPCs, ConfPCs
  <2> QED
    BY <2>1, <2>2, PlainIrq, TasksFacts
<1>3. CASE IsrCheck
  <2>1. Goto(Isr, "app") /\ loaded' = loaded
    BY <1>3 DEF IsrCheck
  <2>2. PlaceOf(Isr, "app") /\ "app" \notin ConfPCs
    BY TasksFacts DEF PlaceOf, IsrPCs, ConfPCs
  <2>3. /\ pc'[Isr] = "app" /\ pc'[Writer] = pc[Writer] /\ pc'[Reader] = pc[Reader]
    BY <2>1, <2>2, GotoFacts, TasksFacts DEF TypeInv
  <2>4. ~ier["tx"] => ~ier'["tx"]
    <3>1. ier \in [{"rx", "tx"} -> BOOLEAN]
      BY DEF TypeInv, FlagsTyped
    <3> QED
      BY <1>3, <3>1 DEF IsrCheck
  <2> QED
    BY <2>1, <2>2, <2>3, <2>4 DEF IrqInv, OneSender, ReaderKeepsOff, AboutOff
<1>4. CASE TransmitterEmpty \/ UNCHANGED vars
  <2>1. UNCHANGED <<ier, loaded, pc>>
    BY <1>4 DEF TransmitterEmpty, vars
  <2> QED
    BY <2>1 DEF IrqInv, OneSender, ReaderKeepsOff, AboutOff
<1> QED
  BY <1>1, <1>2, <1>3, <1>4

LEMMA ConfirmationIrq ==
  ASSUME TypeInv, IrqInv, NEW c \in {Writer, Isr}, TxConfirmation(c)
  PROVE  IrqInv'
<1>1. pc[c] \in ConfPCs /\ UNCHANGED <<ier, loaded>>
  BY RunsFacts DEF TxConfirmation, Confirm, SendByte, SendEnd, SendMore, WakeWriter, ConfPCs
<1>2. pc' = pc \/ \E to \in ConfPCs \cup {IF c = Isr THEN "check" ELSE "txdone"} : Goto(c, to)
  BY DEF TxConfirmation, Confirm, Confirmed, SendByte, SendEnd, SendMore, WakeWriter, ConfPCs
<1>3. CASE pc' = pc
  BY <1>1, <1>3 DEF IrqInv, OneSender, ReaderKeepsOff, AboutOff
<1>4. CASE \E to \in ConfPCs \cup {IF c = Isr THEN "check" ELSE "txdone"} : Goto(c, to)
  <2>1. PICK to \in ConfPCs \cup {IF c = Isr THEN "check" ELSE "txdone"} : Goto(c, to)
    BY <1>4
  <2>2. PlaceOf(c, to) /\ c \in Tasks \cup {Isr} /\ c # Reader
    BY <2>1, SenderFacts
  <2>3. to \in ConfPCs \/ (to \notin ConfPCs /\ to # "txoff")
    BY <2>1 DEF ConfPCs
  <2>4. c = Isr => pc[Writer] \notin ConfPCs
    BY <1>1 DEF IrqInv, OneSender
  <2> QED
    BY <1>1, <2>1, <2>2, <2>3, <2>4, PlainIrq
<1> QED
  BY <1>2, <1>3, <1>4

LEMMA IsrEnterIrq ==
  ASSUME TypeInv, IrqInv, NEW k \in Nat, IsrEnter(k)
  PROVE  IrqInv'
<1>1. UNCHANGED <<ier, loaded>> /\ ((ier["tx"] /\ Goto(Isr, "confirm")) \/ Goto(Isr, "app"))
  BY IsrEnterFacts DEF TypeInv
<1>2. PlaceOf(Isr, "confirm") /\ PlaceOf(Isr, "app") /\ "app" \notin ConfPCs
  BY TasksFacts DEF PlaceOf, IsrPCs, ConfPCs
<1>3. ier["tx"] => pc[Writer] \notin ConfPCs
  BY DEF IrqInv, OneSender
<1> QED
  BY <1>1, <1>2, <1>3, PlainIrq, TasksFacts

LEMMA NextIrq ==
  ASSUME TypeInv, IrqInv, Higher # Tasks, [Next]_vars
  PROVE  IrqInv'
BY StepCases, BlockIrq, StartTxIrq, OtherIrq, ConfirmationIrq, IsrEnterIrq


(***************************************************************************)
(* The transmit ring: what it holds are the bytes written and not yet sent *)
(***************************************************************************)
\* How many bytes the confirmation has sent that are still in the ring.
ProgressOf(p, cf) ==
  IF p[Writer] = "send" THEN cf[Writer].write
  ELSE IF p[Isr] = "send" THEN cf[Isr].write ELSE 0

\* Between the two looks of the writer the ring only gets emptier.
Room == pc[Writer] = "put" => wr.space <= NBytes - 1 - Fill(tx)

\* What a confirmation sends is in the ring, and its tail is the ring's.
Sendable ==
  \A c \in {Writer, Isr} :
    /\ pc[c] = "send" => conf[c].write <= conf[c].raw /\ conf[c].raw <= Fill(tx)
    /\ pc[c] \in {"send", "more"} => conf[c].tail = tx.tail

TxHolds ==
  \E first \in Byte : /\ Holds(tx, first, written)
                      /\ sent = Turn(first + ProgressOf(pc, conf) - 1)

DataInv == Room /\ Sendable /\ TxHolds

TxInv == IrqInv /\ DataInv

LEMMA NextByte ==
  ASSUME NEW m \in 0 .. NBytes - 1, NEW n \in 0 .. NBytes - 1
  PROVE  /\ Turn(Turn(m + n - 1) + 1) = Turn(m + n)
         /\ Turn(Turn(m + n) - 1) = Turn(m + n - 1)
<1>1. /\ Turn(m + n) = IF m + n < NBytes THEN m + n ELSE m + n - NBytes
      /\ Turn(m + n) \in 0 .. NBytes - 1
  BY SumIs
<1>2. CASE m + n = 0
  <2>1. Turn(m + n - 1) = NBytes - 1 /\ Turn(m + n) = 0
    BY <1>1, <1>2, TurnFacts
  <2>2. Turn(NBytes - 1 + 1) = 0 /\ Turn(0 - 1) = NBytes - 1
    BY TurnFacts
  <2> QED
    BY <2>1, <2>2
<1>3. CASE m + n > 0
  <2>1. PICK k \in Nat : k = m + n - 1 /\ k <= 2 * NBytes - 3
    <3>1. m + n - 1 \in Nat /\ m + n - 1 <= 2 * NBytes - 3
      BY <1>3
    <3> QED
      BY <3>1
  <2>2. Turn(k) = (IF k < NBytes THEN k ELSE k - NBytes) /\ Turn(k) \in 0 .. NBytes - 1
    <3>1. k \in 0 .. NBytes - 1 \/ k \in NBytes .. 2 * NBytes - 1
      BY <2>1
    <3> QED
      BY <3>1, TurnFacts
  <2>3. PICK t \in 0 .. NBytes - 1 : t = Turn(k)
    BY <2>2
  <2>4. Turn(t + 1) = IF t + 1 < NBytes THEN t + 1 ELSE t + 1 - NBytes
    BY SumIs
  <2>5. PICK u \in 0 .. NBytes - 1 : u = Turn(m + n)
    BY <1>1
  <2>6. Turn(u - 1) = IF u > 0 THEN u - 1 ELSE NBytes - 1
    <3>1. u - 1 \in 0 .. NBytes - 1 \/ u - 1 = -1
      OBVIOUS
    <3> QED
      BY <3>1, TurnFacts
  <2>7. Turn(t + 1) = u /\ Turn(u - 1) = t
    BY <1>1, <2>1, <2>2, <2>3, <2>4, <2>5, <2>6
  <2> QED
    BY <2>1, <2>3, <2>5, <2>7
<1> QED
  BY <1>2, <1>3

\* While c confirms nobody else does.
LEMMA OnlySender ==
  ASSUME OneSender, NEW c \in {Writer, Isr}, pc[c] \in ConfPCs
  PROVE  \A d \in {Writer, Isr} : d # c => pc[d] \notin ConfPCs
BY SenderFacts DEF OneSender

LEMMA ProgressIs ==
  ASSUME NEW p, NEW cf, NEW c \in {Writer, Isr},
         \A d \in {Writer, Isr} : d # c => p[d] # "send"
  PROVE  ProgressOf(p, cf) = IF p[c] = "send" THEN cf[c].write ELSE 0
BY TasksFacts DEF ProgressOf

\* A step that leaves the ring alone, and begins and ends no sending.
LEMMA PlainData ==
  ASSUME TypeInv, DataInv, UNCHANGED <<tx, conf, written, sent>>, NEW c \in Tasks \cup {Isr},
         NEW to, PlaceOf(c, to), Goto(c, to), pc[c] # "send", to \notin {"put", "send", "more"},
         UNCHANGED wr \/ c = Writer
  PROVE  DataInv'
<1>1. pc'[c] = to /\ \A d \in Tasks \cup {Isr} : d # c => pc'[d] = pc[d]
  BY GotoFacts DEF TypeInv
<1>2. Room'
  BY <1>1, TasksFacts DEF DataInv, Room
<1>3. Sendable'
  BY <1>1, SenderFacts DEF DataInv, Sendable
<1>4. ProgressOf(pc', conf') = ProgressOf(pc, conf)
  BY <1>1, TasksFacts DEF ProgressOf
<1>5. TxHolds'
  BY <1>4 DEF DataInv, TxHolds
<1> QED
  BY <1>2, <1>3, <1>5 DEF DataInv

LEMMA BlockData ==
  ASSUME TypeInv, DataInv, NEW t \in Tasks, Block(t)
  PROVE  DataInv'
<1>1. PICK to \in BlockPCs \cup {"get", "space"} :
        /\ to \in BlockPCs \cup {IF t = Reader THEN "get" ELSE "space"}
        /\ pc[t] \in BlockPCs /\ Goto(t, to) /\ UNCHANGED txVars
  BY RunsFacts
  DEF Block, BlockIrqOff, BlockIrqOn, IerLoad, IerStore, BlockTaskID, BlockFct, WaitEvent,
      ClearEvent, BlockPCs
<1>2. PlaceOf(t, to) /\ to \notin {"put", "send", "more"} /\ pc[t] # "send"
  BY <1>1, TasksFacts DEF PlaceOf, ReaderPCs, WriterPCs, BlockPCs
<1> QED
  BY <1>1, <1>2, PlainData DEF txVars

LEMMA OtherData ==
  ASSUME TypeInv, DataInv,
         \/ (\E nbyte \in ReadLengths : Read(nbyte)) \/ Get \/ GetCopy \/ GetUpdateHead
         \/ (\E nbyte \in WriteLengths : Write(nbyte)) \/ StartTx \/ StartTxEnd
         \/ IsrCheck \/ TransmitterEmpty \/ UNCHANGED vars
  PROVE  DataInv'
<1>1. CASE (\E nbyte \in ReadLengths : Read(nbyte)) \/ Get \/ GetCopy \/ GetUpdateHead
  <2>1. PICK to \in {"app", "get", "block", "copy", "update"} :
          /\ pc[Reader] \in {"app", "get", "copy", "update"}
          /\ Goto(Reader, to) /\ UNCHANGED txVars
    BY <1>1, RunsFacts DEF Read, Get, GetCopy, GetUpdateHead
  <2>2. PlaceOf(Reader, to) /\ to \notin {"put", "send", "more"} /\ pc[Reader] # "send"
    BY <2>1, TasksFacts DEF PlaceOf, ReaderPCs, BlockPCs
  <2> QED
    BY <2>1, <2>2, PlainData, TasksFacts DEF txVars
<1>2. CASE (\E nbyte \in WriteLengths : Write(nbyte)) \/ StartTx \/ StartTxEnd
  <2>1. PICK to \in {"space", "txoff", "confirm", "txon", "block", "app"} :
          /\ pc[Writer] \in {"app", "starttx", "txoff", "txdone", "txon"}
          /\ Goto(Writer, to) /\ UNCHANGED <<tx, conf, written, sent>>
    BY <1>2, RunsFacts DEF Write, StartTx, StartTxEnd, IerLoad, IerStore, txVars
  <2>2. PlaceOf(Writer, to) /\ to \notin {"put", "send", "more"} /\ pc[Writer] # "send"
    BY <2>1, TasksFacts DEF PlaceOf, WriterPCs, ConfPCs, BlockPCs
  <2> QED
    BY <2>1, <2>2, PlainData, TasksFacts
<1>3. CASE IsrCheck
  <2>1. pc[Isr] = "check" /\ Goto(Isr, "app") /\ UNCHANGED txVars
    BY <1>3 DEF IsrCheck
  <2>2. PlaceOf(Isr, "app")
    BY TasksFacts DEF PlaceOf, IsrPCs
  <2> QED
    BY <2>1, <2>2, PlainData DEF txVars
<1>4. CASE TransmitterEmpty \/ UNCHANGED vars
  <2>1. UNCHANGED <<tx, conf, written, sent, wr, pc>>
    BY <1>4 DEF TransmitterEmpty, vars, txVars
  <2> QED
    BY <2>1 DEF DataInv, Room, Sendable, TxHolds
<1> QED
  BY <1>1, <1>2, <1>3, <1>4

LEMMA IsrEnterData ==
  ASSUME TypeInv, DataInv, NEW k \in Nat, IsrEnter(k)
  PROVE  DataInv'
<1>1. PICK to \in {"confirm", "app"} : Goto(Isr, to) /\ UNCHANGED txVars /\ pc[Isr] = "app"
  BY IsrEnterFacts DEF TypeInv
<1>2. PlaceOf(Isr, to)
  BY <1>1, TasksFacts DEF PlaceOf, IsrPCs, ConfPCs
<1> QED
  BY <1>1, <1>2, PlainData DEF txVars

LEMMA SpaceData ==
  ASSUME TypeInv, DataInv, WriteSpace
  PROVE  DataInv'
<1>1. /\ pc[Writer] = "space" /\ Goto(Writer, "put")
      /\ wr' = [wr EXCEPT !.space = Tx!Space(tx.head)] /\ UNCHANGED <<tx, conf, written, sent>>
  BY RunsFacts, TasksFacts DEF WriteSpace
<1>2. PlaceOf(Writer, "put")
  BY TasksFacts DEF PlaceOf, WriterPCs
<1>3. pc'[Writer] = "put" /\ pc'[Isr] = pc[Isr]
  BY <1>1, <1>2, GotoFacts, TasksFacts DEF TypeInv
<1>4. Room'
  <2>1. tx \in Ring /\ wr \in [left : Nat, space : Nat]
    BY DEF TypeInv, TxTyped
  <2>2. wr'.space = NBytes - 1 - Fill(tx)
    BY <1>1, <2>1, RingOperators, SpaceIs
  <2>3. Fill(tx) \in 0 .. NBytes - 1
    BY <2>1, FillIs
  <2> QED
    BY <1>1, <2>2, <2>3 DEF Room
<1>5. Sendable'
  BY <1>1, <1>3 DEF DataInv, Sendable
<1>6. ProgressOf(pc', conf') = ProgressOf(pc, conf)
  BY <1>1, <1>3 DEF ProgressOf
<1>7. TxHolds'
  BY <1>1, <1>6 DEF DataInv, TxHolds
<1> QED
  BY <1>4, <1>5, <1>7 DEF DataInv


\* The bytes put are those to be written, and what is in the ring stays.
LEMMA PutHolds ==
  ASSUME TypeInv, DataInv, WritePut, NEW first \in Byte, Holds(tx, first, written)
  PROVE  Holds(tx', first, written')
<1>1. PICK n \in Nat :
        /\ n <= wr.space
        /\ tx' = [buf |-> tx'.buf, head |-> tx.head, tail |-> Turn(tx.tail + n)]
        /\ tx'.buf \in [Index -> Byte]
        /\ \A i \in Index : tx'.buf[i] = IF Turn(i - tx.tail) < n
                                           THEN Turn(written + Turn(i - tx.tail)) ELSE tx.buf[i]
        /\ written' = Turn(written + n)
  BY WritePutFacts
<1>2. /\ tx \in Ring /\ tx.head \in 0 .. NBytes - 1 /\ tx.tail \in 0 .. NBytes - 1
      /\ Fill(tx) \in 0 .. NBytes - 1 /\ wr.space \in Nat
      /\ Fill(tx) = IF tx.head <= tx.tail THEN tx.tail - tx.head ELSE tx.tail - tx.head + NBytes
  BY TailsInIndex, IndexFacts, FillIs DEF TypeInv, TxTyped
<1>3. wr.space <= NBytes - 1 - Fill(tx)
  BY WritePutFacts DEF DataInv, Room
<1>4. n \in 0 .. NBytes - 1 /\ n + Fill(tx) <= NBytes - 1
  BY <1>1, <1>2, <1>3
<1>5. PICK buf \in [Index -> Byte] : buf = tx'.buf
  BY <1>1
<1>6. ASSUME NEW i \in 0 .. NBytes - 1, i < n
      PROVE  buf[Turn(tx.tail + i)] = Turn(written + i)
  <2>1. PICK p \in 0 .. NBytes - 1 : p = Turn(tx.tail + i)
    BY <1>2, SumIs
  <2>2. p = IF tx.tail + i < NBytes THEN tx.tail + i ELSE tx.tail + i - NBytes
    BY <1>2, <2>1, SumIs
  <2>3. Turn(p - tx.tail) = i
    <3>1. CASE tx.tail + i < NBytes
      <4>1. p - tx.tail = i
        BY <1>2, <2>2, <3>1
      <4> QED
        BY <4>1, TurnFacts
    <3>2. CASE tx.tail + i >= NBytes
      <4>1. p - tx.tail = i - NBytes /\ i - NBytes \in (-NBytes) .. -1 /\ i - NBytes + NBytes = i
        BY <1>2, <2>2, <3>2
      <4> QED
        BY <4>1, TurnFacts
    <3> QED
      BY <1>2, <3>1, <3>2
  <2>4. buf[p] = Turn(written + i)
    BY <1>1, <1>5, <1>6, <2>3, IndexFacts
  <2> QED
    BY <2>1, <2>4
<1>7. ASSUME NEW i \in 0 .. NBytes - 1, i < Fill(tx)
      PROVE  buf[Place(tx, i)] = tx.buf[Place(tx, i)]
  <2>1. PICK p \in 0 .. NBytes - 1 : p = Turn(tx.head + i)
    BY <1>2, SumIs
  <2>2. p = IF tx.head + i < NBytes THEN tx.head + i ELSE tx.head + i - NBytes
    BY <1>2, <2>1, SumIs
  <2>3. Turn(p - tx.tail) = i - Fill(tx) + NBytes
    <3>1. CASE p < tx.tail
      <4>1. p - tx.tail \in (-NBytes) .. -1 /\ p - tx.tail + NBytes = i - Fill(tx) + NBytes
        BY <1>2, <1>7, <2>2, <3>1
      <4> QED
        BY <4>1, TurnFacts
    <3>2. CASE p >= tx.tail
      <4>1. p - tx.tail \in 0 .. NBytes - 1 /\ p - tx.tail = i - Fill(tx) + NBytes
        BY <1>2, <1>7, <2>2, <3>2
      <4> QED
        BY <4>1, TurnFacts
    <3> QED
      BY <1>2, <3>1, <3>2
  <2>4. ~(i - Fill(tx) + NBytes < n)
    BY <1>2, <1>4
  <2>5. buf[p] = tx.buf[p]
    BY <1>1, <1>5, <2>3, <2>4, IndexFacts
  <2> QED
    BY <2>1, <2>5 DEF Place
<1>8. PICK q : q = [buf |-> buf, head |-> tx.head, tail |-> Turn(tx.tail + n)]
  OBVIOUS
<1>9. \A i \in 0 .. NBytes - 1 : i < Fill(tx) => buf[Place(tx, i)] = tx.buf[Place(tx, i)]
  BY <1>7
<1>10. \A i \in 0 .. NBytes - 1 : i < n => buf[Turn(tx.tail + i)] = Turn(written + i)
  BY <1>6
<1>11. tx \in Ring
  BY <1>2
<1>12. Holds(q, first, Turn(written + n))
  BY <1>4, <1>8, <1>9, <1>10, <1>11, HoldsAdd
<1> QED
  BY <1>1, <1>5, <1>8, <1>12

LEMMA PutData ==
  ASSUME TypeInv, DataInv, WritePut
  PROVE  DataInv'
<1>1. pc[Writer] = "put" /\ pc[Isr] = "app" /\ Goto(Writer, "starttx") /\ sent' = sent
      /\ conf' = conf
  BY RunsFacts, TasksFacts DEF WritePut
<1>2. PlaceOf(Writer, "starttx")
  BY TasksFacts DEF PlaceOf, WriterPCs
<1>3. pc'[Writer] = "starttx" /\ pc'[Isr] = "app"
  BY <1>1, <1>2, GotoFacts, TasksFacts DEF TypeInv
<1>4. Room' /\ Sendable'
  BY <1>3 DEF Room, Sendable
<1>5. ProgressOf(pc', conf') = ProgressOf(pc, conf)
  BY <1>1, <1>3 DEF ProgressOf
<1>6. PICK first \in Byte : /\ Holds(tx, first, written)
                            /\ sent = Turn(first + ProgressOf(pc, conf) - 1)
  BY DEF DataInv, TxHolds
<1>7. Holds(tx', first, written')
  BY <1>6, PutHolds
<1>8. TxHolds'
  BY <1>1, <1>5, <1>6, <1>7 DEF TxHolds
<1> QED
  BY <1>4, <1>8 DEF DataInv

\* What c knows while it sends.
LEMMA SendFacts ==
  ASSUME TypeInv, OneSender, DataInv, NEW c \in {Writer, Isr}, pc[c] = "send"
  PROVE  /\ \A d \in {Writer, Isr} : d # c => pc[d] \notin ConfPCs
         /\ tx \in Ring /\ tx.head \in 0 .. NBytes - 1 /\ Fill(tx) \in 0 .. NBytes - 1
         /\ conf[c].write \in Nat /\ conf[c].raw \in Nat
         /\ conf[c].write <= conf[c].raw /\ conf[c].raw <= Fill(tx) /\ conf[c].tail = tx.tail
         /\ \E first \in 0 .. NBytes - 1 : /\ Holds(tx, first, written)
                                           /\ sent = Turn(first + conf[c].write - 1)
<1>1. "send" \in ConfPCs
  BY DEF ConfPCs
<1>2. \A d \in {Writer, Isr} : d # c => pc[d] \notin ConfPCs
  BY <1>1, OnlySender
<1>3. ProgressOf(pc, conf) = conf[c].write
  BY <1>1, <1>2, ProgressIs
<1>4. conf[c] \in ConfLocals /\ tx \in Ring
  BY DEF TypeInv, TxTyped
<1>5. conf[c].write \in Nat /\ conf[c].raw \in Nat
  BY <1>4 DEF ConfLocals
<1>6. tx.head \in 0 .. NBytes - 1 /\ Fill(tx) \in 0 .. NBytes - 1
  BY <1>4, RingFacts, FillIs
<1>7. conf[c].write <= conf[c].raw /\ conf[c].raw <= Fill(tx) /\ conf[c].tail = tx.tail
  BY DEF DataInv, Sendable
<1>8. \E first \in 0 .. NBytes - 1 : /\ Holds(tx, first, written)
                                     /\ sent = Turn(first + conf[c].write - 1)
  BY <1>3, IndexFacts DEF DataInv, TxHolds
<1> QED
  BY <1>2, <1>4, <1>5, <1>6, <1>7, <1>8

\* A step of c while it confirms, after which the others are as they were.
LEMMA SenderData ==
  ASSUME TypeInv, OneSender, Room, NEW c \in {Writer, Isr}, pc[c] \in ConfPCs,
         UNCHANGED <<wr, written>>,
         NEW to, PlaceOf(c, to), Goto(c, to), to # "put",
         Fill(tx') <= Fill(tx), Fill(tx) \in Nat, Fill(tx') \in Nat,
         to = "send" => conf'[c].write <= conf'[c].raw /\ conf'[c].raw <= Fill(tx'),
         to \in {"send", "more"} => conf'[c].tail = tx'.tail,
         NEW first \in Byte, Holds(tx', first, written),
         sent' = Turn(first + (IF to = "send" THEN conf'[c].write ELSE 0) - 1)
  PROVE  DataInv'
<1>1. \A d \in {Writer, Isr} : d # c => pc[d] \notin ConfPCs
  BY OnlySender
<1>2. /\ pc'[c] = to
      /\ \A d \in {Writer, Isr} : d # c => pc'[d] = pc[d]
  BY GotoFacts, SenderFacts DEF TypeInv
<1>3. \A d \in {Writer, Isr} : d # c => pc'[d] \notin {"send", "more"}
  BY <1>1, <1>2 DEF ConfPCs
<1>4. Room'
  <2>1. wr.space \in Nat
    BY DEF TypeInv, TxTyped
  <2> QED
    BY <1>2, <2>1, SenderFacts DEF Room
<1>5. Sendable'
  BY <1>2, <1>3 DEF Sendable
<1>6. ProgressOf(pc', conf') = IF to = "send" THEN conf'[c].write ELSE 0
  <2>1. \A d \in {Writer, Isr} : d # c => pc'[d] # "send"
    BY <1>3
  <2> QED
    BY <1>2, <2>1, ProgressIs
<1>7. TxHolds'
  BY <1>6 DEF TxHolds
<1> QED
  BY <1>4, <1>5, <1>7 DEF DataInv

LEMMA SendByteSends ==
  ASSUME TypeInv, OneSender, DataInv, NEW c \in {Writer, Isr}, SendByte(c)
  PROVE  /\ conf[c].write < conf[c].raw
         /\ sent' = Turn(sent + 1)
         /\ \E first \in 0 .. NBytes - 1 : /\ Holds(tx, first, written)
                                           /\ sent' = Turn(first + conf[c].write)
<1>1. pc[c] = "send" /\ conf[c].write < conf[c].raw
      /\ sent' = tx.buf[Turn(tx.head + conf[c].write)]
  BY RunsFacts DEF SendByte, Sending, Turn
<1>2. PICK first \in 0 .. NBytes - 1 : /\ Holds(tx, first, written)
                                       /\ sent = Turn(first + conf[c].write - 1)
  BY <1>1, SendFacts
<1>3. PICK w \in 0 .. NBytes - 1 : w = conf[c].write /\ w < Fill(tx)
  <2>1. /\ conf[c].write \in Nat /\ conf[c].raw \in Nat /\ conf[c].raw <= Fill(tx)
        /\ Fill(tx) \in 0 .. NBytes - 1
    BY <1>1, SendFacts
  <2>2. conf[c].write \in 0 .. NBytes - 1 /\ conf[c].write < Fill(tx)
    BY <1>1, <2>1
  <2> QED
    BY <2>2
<1>4. sent' = Turn(first + w)
  BY <1>1, <1>2, <1>3 DEF Holds, Place
<1>5. Turn(sent + 1) = Turn(first + w)
  BY <1>2, <1>3, NextByte
<1> QED
  BY <1>1, <1>2, <1>3, <1>4, <1>5

LEMMA SendByteData ==
  ASSUME TypeInv, OneSender, DataInv, NEW c \in {Writer, Isr}, SendByte(c)
  PROVE  DataInv'
<1>1. /\ pc[c] = "send" /\ UNCHANGED <<tx, wr, written, pc>>
      /\ conf' = [conf EXCEPT ![c].write = conf[c].write + 1]
  BY RunsFacts DEF SendByte
<1>2. /\ \A d \in {Writer, Isr} : d # c => pc[d] \notin ConfPCs
      /\ conf[c].write \in Nat /\ conf[c].raw \in Nat /\ conf[c].raw <= Fill(tx)
      /\ conf[c].tail = tx.tail
  BY <1>1, SendFacts
<1>3. /\ conf'[c].write = conf[c].write + 1 /\ conf'[c].raw = conf[c].raw
      /\ conf'[c].tail = conf[c].tail
  BY <1>1 DEF TypeInv, TxTyped, ConfLocals
<1>4. conf[c].write < conf[c].raw
  BY SendByteSends
<1>5. \A d \in {Writer, Isr} : d # c => pc'[d] \notin {"send", "more"}
  BY <1>1, <1>2 DEF ConfPCs
<1>6. Room'
  BY <1>1 DEF DataInv, Room
<1>7. Sendable'
  <2>1. conf'[c].write <= conf'[c].raw
    BY <1>2, <1>3, <1>4
  <2> QED
    BY <1>1, <1>2, <1>3, <1>5, <2>1 DEF Sendable
<1>8. TxHolds'
  <2>1. PICK first \in 0 .. NBytes - 1 : /\ Holds(tx, first, written)
                                         /\ sent' = Turn(first + conf[c].write)
    BY SendByteSends
  <2>2. ProgressOf(pc', conf') = conf[c].write + 1
    <3>1. \A d \in {Writer, Isr} : d # c => pc'[d] # "send"
      BY <1>5
    <3> QED
      BY <1>1, <1>3, <3>1, ProgressIs
  <2>3. first + (conf[c].write + 1) - 1 = first + conf[c].write
    BY <1>2
  <2> QED
    BY <1>1, <2>1, <2>2, <2>3, IndexFacts DEF TxHolds
<1> QED
  BY <1>6, <1>7, <1>8 DEF DataInv

\* The head passes the bytes sent.
LEMMA SendEndData ==
  ASSUME TypeInv, OneSender, DataInv, NEW c \in {Writer, Isr}, SendEnd(c)
  PROVE  DataInv'
<1>1. /\ pc[c] = "send" /\ UNCHANGED <<wr, written, sent>>
      /\ tx' = [tx EXCEPT !.head = Turn(tx.head + conf[c].write)]
  BY RunsFacts DEF SendEnd, Turn
<1>2. PICK to \in {"more", "wake"} : Goto(c, to) /\ (to = "more" => conf' = conf)
  BY DEF SendEnd
<1>3. PICK first \in 0 .. NBytes - 1 : /\ Holds(tx, first, written)
                                       /\ sent = Turn(first + conf[c].write - 1)
  BY <1>1, SendFacts
<1>4. PICK w \in 0 .. Fill(tx) : w = conf[c].write
  <2>1. conf[c].write \in Nat /\ conf[c].raw \in Nat /\ conf[c].write <= conf[c].raw
        /\ conf[c].raw <= Fill(tx) /\ Fill(tx) \in 0 .. NBytes - 1
    BY <1>1, SendFacts
  <2>2. conf[c].write \in 0 .. Fill(tx)
    BY <2>1
  <2> QED
    BY <2>2
<1>5. tx \in Ring /\ Fill(tx) \in 0 .. NBytes - 1 /\ conf[c].tail = tx.tail
  BY <1>1, SendFacts
<1>6. PICK q : q = [tx EXCEPT !.head = Turn(tx.head + w)]
  OBVIOUS
<1>7. q = tx' /\ q.tail = tx.tail
  BY <1>1, <1>4, <1>5, <1>6 DEF Ring
<1>8. Fill(q) = Fill(tx) - w /\ Turn(first + w) \in Byte /\ Holds(q, Turn(first + w), written)
  BY <1>3, <1>5, <1>6, HoldsTake, IndexFacts
<1>9. PICK next \in Byte : next = Turn(first + w)
  BY <1>8
<1>10. sent' = Turn(next + 0 - 1)
  <2>1. w \in 0 .. NBytes - 1
    BY <1>5
  <2>2. Turn(Turn(first + w) - 1) = Turn(first + w - 1)
    BY <2>1, NextByte
  <2>3. next + 0 - 1 = next - 1
    BY IndexFacts
  <2> QED
    BY <1>1, <1>3, <1>4, <1>9, <2>2, <2>3
<1>11. Fill(tx') <= Fill(tx) /\ Fill(tx) \in Nat /\ Fill(tx') \in Nat
  BY <1>5, <1>7, <1>8
<1>12. PlaceOf(c, to) /\ pc[c] \in ConfPCs /\ to # "put" /\ to # "send"
  BY <1>1, <1>2, SenderFacts DEF ConfPCs
<1>13. to \in {"send", "more"} => conf'[c].tail = tx'.tail
  BY <1>2, <1>5, <1>7
<1>14. Holds(tx', next, written)
  BY <1>7, <1>8, <1>9
<1>15. sent' = Turn(next + (IF to = "send" THEN conf'[c].write ELSE 0) - 1)
  BY <1>10, <1>12
<1>16. Room
  BY DEF DataInv
<1> QED
  BY <1>1, <1>2, <1>11, <1>12, <1>13, <1>14, <1>15, <1>16, SenderData

\* What the ring holds is at least what is before the end of the array.
LEMMA RawFits ==
  ASSUME TypeInv
  PROVE  Tx!RawCount(tx.tail) <= Fill(tx)
<1>1. tx \in Ring /\ tx.head \in 0 .. NBytes - 1 /\ tx.tail \in 0 .. NBytes - 1
  BY TailsInIndex, IndexFacts DEF TypeInv, TxTyped
<1>2. Tx!RawCount(tx.tail) = IF tx.head <= tx.tail THEN tx.tail - tx.head ELSE NBytes - tx.head
  BY RingOperators
<1>3. Fill(tx) = IF tx.head <= tx.tail THEN tx.tail - tx.head ELSE tx.tail - tx.head + NBytes
  BY <1>1, FillIs
<1> QED
  BY <1>1, <1>2, <1>3

\* The other steps of a confirmation send nothing.
LEMMA SendNothingData ==
  ASSUME TypeInv, OneSender, DataInv, NEW c \in {Writer, Isr},
         pc[c] \in ConfPCs, pc[c] # "send", UNCHANGED <<tx, wr, written, sent>>,
         NEW to, PlaceOf(c, to), Goto(c, to), to \notin {"put", "more"},
         to = "send" => /\ conf'[c].write = 0 /\ conf'[c].raw = Tx!RawCount(tx.tail)
                        /\ conf'[c].tail = tx.tail
  PROVE  DataInv'
<1>1. ProgressOf(pc, conf) = 0
  <2>1. \A d \in {Writer, Isr} : d # c => pc[d] # "send"
    BY OnlySender DEF ConfPCs
  <2> QED
    BY <2>1, ProgressIs
<1>2. PICK first \in Byte : Holds(tx, first, written) /\ sent = Turn(first + 0 - 1)
  BY <1>1 DEF DataInv, TxHolds
<1>3. /\ tx' = tx /\ Fill(tx) \in 0 .. NBytes - 1
  BY FillIs DEF TypeInv, TxTyped
<1>4. Fill(tx') <= Fill(tx) /\ Fill(tx) \in Nat /\ Fill(tx') \in Nat
  BY <1>3
<1>5. to = "send" => conf'[c].write <= conf'[c].raw /\ conf'[c].raw <= Fill(tx')
  <2>1. Tx!RawCount(tx.tail) <= Fill(tx) /\ Tx!RawCount(tx.tail) \in 0 .. NBytes
    BY RawFits, RingTypes, TailsInIndex DEF TypeInv
  <2> QED
    BY <1>3, <2>1
<1>6. Holds(tx', first, written)
  BY <1>2, <1>3
<1>7. sent' = Turn(first + (IF to = "send" THEN conf'[c].write ELSE 0) - 1)
  BY <1>2
<1>8. to \in {"send", "more"} => conf'[c].tail = tx'.tail
  BY <1>3
<1>9. Room
  BY DEF DataInv
<1> QED
  BY <1>4, <1>5, <1>6, <1>7, <1>8, <1>9, SenderData

LEMMA ConfirmationData ==
  ASSUME TypeInv, OneSender, DataInv, NEW c \in {Writer, Isr}, TxConfirmation(c)
  PROVE  DataInv'
<1>1. conf \in [{Writer, Isr} -> ConfLocals]
  BY DEF TypeInv, TxTyped
<1>2. \A to \in ConfPCs \cup {IF c = Isr THEN "check" ELSE "txdone"} : PlaceOf(c, to)
  BY SenderFacts
<1>3. "send" \in ConfPCs
  BY DEF ConfPCs
<1>4. CASE Confirm(c)
  <2>1. /\ pc[c] = "confirm" /\ pc[c] \in ConfPCs /\ UNCHANGED <<tx, wr, written, sent>>
    BY <1>4, RunsFacts DEF Confirm, ConfPCs
  <2>2. CASE Tx!Count(tx.tail) > 0
    <3>1. PICK local :
            /\ local = [task |-> blocked.taskID, tail |-> tx.tail, raw |-> Tx!RawCount(tx.tail),
                        count |-> Tx!Count(tx.tail), write |-> 0, first |-> TRUE]
            /\ conf' = [conf EXCEPT ![c] = local] /\ Goto(c, "send")
      BY <1>4, <2>2 DEF Confirm
    <3>2. /\ conf'[c].write = 0 /\ conf'[c].raw = Tx!RawCount(tx.tail)
          /\ conf'[c].tail = tx.tail
      BY <1>1, <3>1
    <3> QED
      BY <1>2, <1>3, <2>1, <3>1, <3>2, SendNothingData
  <2>3. CASE ~(Tx!Count(tx.tail) > 0)
    <3>1. PICK to \in {"check", "txdone"} :
            to = (IF c = Isr THEN "check" ELSE "txdone") /\ Goto(c, to)
      BY <1>4, <2>3 DEF Confirm, Confirmed
    <3> QED
      BY <1>2, <2>1, <3>1, SendNothingData
  <2> QED
    BY <2>2, <2>3
<1>5. CASE SendMore(c)
  <2>1. /\ pc[c] = "more" /\ pc[c] \in ConfPCs /\ UNCHANGED <<tx, wr, written, sent>>
        /\ Goto(c, "send")
    BY <1>5, RunsFacts DEF SendMore, ConfPCs
  <2>2. conf[c].tail = tx.tail
    BY <2>1 DEF DataInv, Sendable
  <2>3. PICK raw : raw = Tx!RawCount(tx.tail)
    OBVIOUS
  <2>4. conf' = [conf EXCEPT ![c].raw = raw, ![c].write = 0, ![c].first = FALSE]
    BY <1>5, <2>2, <2>3 DEF SendMore
  <2>5. conf'[c].write = 0 /\ conf'[c].raw = raw /\ conf'[c].tail = tx.tail
    BY <1>1, <2>2, <2>4 DEF ConfLocals
  <2> QED
    BY <1>2, <1>3, <2>1, <2>3, <2>5, SendNothingData
<1>6. CASE WakeWriter(c)
  <2>1. /\ pc[c] = "wake" /\ pc[c] \in ConfPCs /\ UNCHANGED <<tx, wr, written, sent>>
    BY <1>6, RunsFacts DEF WakeWriter, ConfPCs
  <2>2. PICK to \in {"check", "txdone"} :
          to = (IF c = Isr THEN "check" ELSE "txdone") /\ Goto(c, to)
    BY <1>6 DEF WakeWriter, Confirmed
  <2> QED
    BY <1>2, <2>1, <2>2, SendNothingData
<1> QED
  BY <1>4, <1>5, <1>6, SendByteData, SendEndData DEF TxConfirmation

LEMMA InitTx ==
  ASSUME Init
  PROVE  TxInv
<1>1. /\ tx = EmptyRing /\ written = 1 /\ sent = 0
      /\ pc[Reader] = "app" /\ pc[Writer] = "app" /\ pc[Isr] = "app"
  BY TasksFacts DEF Init
<1>2. IrqInv
  BY <1>1 DEF IrqInv, OneSender, ReaderKeepsOff, AboutOff, ConfPCs
<1>3. Room /\ Sendable
  BY <1>1 DEF Room, Sendable
<1>4. ProgressOf(pc, conf) = 0
  BY <1>1 DEF ProgressOf
<1>5. Fill(EmptyRing) = 0
  <2>1. EmptyRing.head = 0 /\ EmptyRing.tail = 0
    BY DEF EmptyRing
  <2> QED
    BY <2>1, TurnFacts DEF Fill
<1>6. Turn(1) = 1 /\ Turn(1 + 0 - 1) = 0 /\ 1 \in Byte
  BY TurnFacts, IndexFacts
<1>7. Holds(EmptyRing, 1, 1)
  BY <1>5, <1>6 DEF Holds
<1>8. TxHolds
  BY <1>1, <1>4, <1>6, <1>7 DEF TxHolds
<1> QED
  BY <1>2, <1>3, <1>8 DEF TxInv, DataInv

\* Each byte written goes to the line once and in order, whichever of the
\* writer and the ISR sends it: as long as one task at most preempts the other.
THEOREM SendsAreInOrder ==
  ASSUME Higher # Tasks
  PROVE  Spec => TxInOrder
<1>1. Init => TxInv
  BY InitTx
<1>2. TypeInv /\ TxInv /\ [Next]_vars => TxInv'
  <2>1. SUFFICES ASSUME TypeInv, TxInv, [Next]_vars
                 PROVE  TxInv'
    OBVIOUS
  <2>2. IrqInv /\ DataInv /\ OneSender
    BY <2>1 DEF TxInv, IrqInv
  <2>3. IrqInv'
    BY <2>1, <2>2, NextIrq
  <2>4. DataInv'
    BY <2>1, <2>2, StepCases, BlockData, OtherData, IsrEnterData, SpaceData, PutData,
       ConfirmationData
  <2> QED
    BY <2>3, <2>4 DEF TxInv
<1>3. TypeInv /\ TxInv /\ [Next]_vars
        => [\A c \in {Writer, Isr} : SendByte(c) => sent' = (sent + 1) % NBytes]_vars
  BY SendByteSends DEF TxInv, IrqInv, Turn
<1> QED
  BY <1>1, <1>2, <1>3, TypesHold, PTL DEF Spec, TxInOrder

=============================================================================
