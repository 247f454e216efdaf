------------------------------ MODULE CircBuf ------------------------------
(***************************************************************************)
(* ciaaLibs_CircBuf: a ring buffer that one writer fills and one reader    *)
(* empties without a lock, each in its own context (a task and an ISR).    *)
(* The writer alone moves the tail and the reader alone the head; each     *)
(* looks once at the other's index, then copies in up to two pieces, and   *)
(* moves its own index last.  The steps are the accesses to shared memory. *)
(***************************************************************************)
EXTENDS Integers, Sequences

CONSTANTS
  NBytes,      \* the bytes of the array, a power of two from 8
  Byte,        \* the values of a byte
  Blocks,      \* what the writer may put
  GetLengths   \* how much the reader may ask for

ASSUME CircBufAssumption ==
  /\ NBytes \in Nat /\ NBytes > 7
  /\ Byte # {}
  /\ Blocks \subseteq Seq(Byte)
  /\ GetLengths \subseteq Nat

VARIABLES
  buf,   \* cbuf->buf
  head,  \* cbuf->head, the next byte to read
  tail,  \* cbuf->tail, the next byte to write
  put,   \* the writer: where it stands, its data and the bytes before the wrap
  get,   \* the reader: likewise, with the bytes copied so far
  got    \* what the last circBufGet returned

vars == <<buf, head, tail, put, get, got>>

Index == 0 .. NBytes - 1
Min(m, n) == IF m < n THEN m ELSE n

TypeOK ==
  /\ buf \in [Index -> Byte]
  /\ head \in Index /\ tail \in Index
  /\ put \in [pc : {"idle", "copy", "wrap", "update"}, data : Seq(Byte), raw : Nat]
  /\ get \in [pc : {"idle", "copy", "wrap", "update"}, nbytes : Nat, raw : Nat,
              data : Seq(Byte)]
  /\ got \in Seq(Byte)

NotPutting == [pc |-> "idle", data |-> <<>>, raw |-> 0]
NotGetting == [pc |-> "idle", nbytes |-> 0, raw |-> 0, data |-> <<>>]

\* After circBufInit; the memory it is given holds whatever byte, the same
\* throughout: no byte is read before it was written.
Init ==
  /\ buf \in {[i \in Index |-> b] : b \in Byte}
  /\ head = 0 /\ tail = 0
  /\ put = NotPutting /\ get = NotGetting
  /\ got = <<>>

(***************************************************************************)
(* Space and contents.  cbuf->size is NBytes - 1, a mask: x & size is      *)
(* x % NBytes.                                                             *)
(***************************************************************************)
Space(h) == (h - tail - 1) % NBytes

\* Faults: the last place of the array is never used before the wrap, or one
\* place more than there is.
RawSpaceShort(h) == IF tail >= h THEN NBytes - 1 - tail ELSE h - tail - 1
RawSpaceLong(h) ==
  IF tail >= h THEN NBytes - tail + (IF h > 0 THEN 1 ELSE 0) ELSE h - tail - 1

RawSpace(h) ==
  IF tail >= h THEN NBytes - 1 - tail + (IF h > 0 THEN 1 ELSE 0) ELSE h - tail - 1

Count(t) == (t - head) % NBytes
RawCount(t) == IF head <= t THEN t - head ELSE NBytes - head

\* memcpy of data into the array, and of n bytes out of it, from place from on.
CopiedIn(data, from) ==
  [i \in Index |-> IF i - from \in 0 .. Len(data) - 1 THEN data[i - from + 1] ELSE buf[i]]
CopiedOut(from, n) == [i \in 1 .. n |-> buf[from + i - 1]]

(***************************************************************************)
(* circBufPut                                                              *)
(***************************************************************************)
PutBegin(data) ==
  /\ put.pc = "idle"
  /\ Space(head) >= Len(data)
  /\ put' = [pc |-> "copy", data |-> data, raw |-> RawSpace(head)]
  /\ UNCHANGED <<buf, head, tail, get, got>>

\* There is not enough space: nothing is put.
PutRefused(data) ==
  /\ put.pc = "idle"
  /\ Space(head) < Len(data)
  /\ UNCHANGED vars

PutCopy ==
  /\ put.pc = "copy"
  /\ buf' = CopiedIn(SubSeq(put.data, 1, Min(put.raw, Len(put.data))), tail)
  /\ put' = [put EXCEPT !.pc = IF put.raw >= Len(put.data) THEN "update" ELSE "wrap"]
  /\ UNCHANGED <<head, tail, get, got>>

PutWrap ==
  /\ put.pc = "wrap"
  /\ buf' = CopiedIn(SubSeq(put.data, put.raw + 1, Len(put.data)), 0)
  /\ put' = [put EXCEPT !.pc = "update"]
  /\ UNCHANGED <<head, tail, get, got>>

\* Fault: the tail does not wrap.
PutUpdateTailNoWrap ==
  /\ put.pc = "update"
  /\ tail' = tail + Len(put.data)
  /\ put' = NotPutting
  /\ UNCHANGED <<buf, head, get, got>>

PutUpdateTail ==
  /\ put.pc = "update"
  /\ tail' = (tail + Len(put.data)) % NBytes
  /\ put' = NotPutting
  /\ UNCHANGED <<buf, head, get, got>>

(***************************************************************************)
(* circBufGet                                                              *)
(***************************************************************************)
\* No more than there is, and then only if there is something.
GetBegin(nbytes) ==
  LET n == Min(nbytes, Count(tail))
  IN /\ get.pc = "idle"
     /\ n > 0
     /\ get' = [pc |-> "copy", nbytes |-> n, raw |-> RawCount(tail), data |-> <<>>]
     /\ UNCHANGED <<buf, head, tail, put, got>>

GetNothing(nbytes) ==
  /\ get.pc = "idle"
  /\ Min(nbytes, Count(tail)) = 0
  /\ UNCHANGED vars

GetCopy ==
  /\ get.pc = "copy"
  /\ get' = [get EXCEPT !.data = CopiedOut(head, Min(get.raw, get.nbytes)),
                        !.pc = IF get.nbytes <= get.raw THEN "update" ELSE "wrap"]
  /\ UNCHANGED <<buf, head, tail, put, got>>

GetWrap ==
  /\ get.pc = "wrap"
  /\ get' = [get EXCEPT !.data = @ \o CopiedOut(0, get.nbytes - get.raw), !.pc = "update"]
  /\ UNCHANGED <<buf, head, tail, put, got>>

GetUpdateHead ==
  /\ get.pc = "update"
  /\ head' = (head + get.nbytes) % NBytes
  /\ get' = NotGetting
  /\ got' = get.data
  /\ UNCHANGED <<buf, tail, put>>

Next ==
  \/ \E data \in Blocks : PutBegin(data) \/ PutRefused(data)
  \/ PutCopy \/ PutWrap \/ PutUpdateTail
  \/ \E nbytes \in GetLengths : GetBegin(nbytes) \/ GetNothing(nbytes)
  \/ GetCopy \/ GetWrap \/ GetUpdateHead

Spec == Init /\ [][Next]_vars

\* Every copy stays inside of the array, in either direction: both pieces end
\* by its last place.
CopiesInBounds ==
  /\ put.pc = "copy" => tail + Min(put.raw, Len(put.data)) <= NBytes
  /\ put.pc = "wrap" => Len(put.data) - put.raw <= NBytes
  /\ get.pc = "copy" => head + Min(get.raw, get.nbytes) <= NBytes
  /\ get.pc = "wrap" => get.nbytes - get.raw <= NBytes

\* The bytes in the buffer, oldest first.
Contents == [i \in 1 .. Count(tail) |-> buf[(head + i - 1) % NBytes]]

\* ciaaLibs_CircBuf.h: "A buffer of size 64 will can handle maximal 63 bytes".
\* However a Put and a Get overlap, the buffer is a queue: a block goes in whole
\* and in order, and what a Get returns are the oldest bytes, each once.
IsFifo == INSTANCE Fifo WITH Capacity <- NBytes - 1, queue <- Contents

ImplementsFifo == IsFifo!Spec
=============================================================================
