--------------------------- MODULE CircBufProofs ---------------------------
(***************************************************************************)
(* Proofs about the ring buffer, for every size of the array, every value  *)
(* of a byte and every block the writer may put: the copies stay inside    *)
(* of the array, and whatever the interleaving of a Put and a Get, the     *)
(* buffer is a queue.                                                      *)
(***************************************************************************)
EXTENDS CircBuf, SequenceTheorems, TLAPS

USE CircBufAssumption

(***************************************************************************)
(* Arithmetic of the indices: each % takes at most one turn off.           *)
(***************************************************************************)
LEMMA Wrapped ==
  /\ \A i \in 0 .. NBytes - 1 : i % NBytes = i
  /\ \A i \in NBytes .. 2 * NBytes - 1 : i % NBytes = i - NBytes
  /\ \A i \in (-NBytes) .. -1 : i % NBytes = i + NBytes
OBVIOUS

LEMMA WrappedSum ==
  ASSUME NEW i \in Index, NEW n \in 0 .. NBytes - 1
  PROVE  (i + n) % NBytes = IF i + n < NBytes THEN i + n ELSE i + n - NBytes
<1>1. CASE i + n < NBytes
  BY <1>1, Wrapped DEF Index
<1>2. CASE i + n >= NBytes
  BY <1>2, Wrapped DEF Index
<1> QED
  BY <1>1, <1>2 DEF Index

LEMMA CountIs ==
  ASSUME head \in Index, NEW t \in Index
  PROVE  Count(t) = IF head <= t THEN t - head ELSE t - head + NBytes
<1>1. CASE head <= t
  BY <1>1, Wrapped DEF Index, Count
<1>2. CASE t < head
  BY <1>2, Wrapped DEF Index, Count
<1> QED
  BY <1>1, <1>2 DEF Index

LEMMA SpaceIs ==
  ASSUME tail \in Index, NEW h \in Index
  PROVE  Space(h) = IF tail < h THEN h - tail - 1 ELSE h - tail - 1 + NBytes
<1>1. CASE tail < h
  BY <1>1, Wrapped DEF Index, Space
<1>2. CASE h <= tail
  BY <1>2, Wrapped DEF Index, Space
<1> QED
  BY <1>1, <1>2 DEF Index

\* The place of the i-th byte from place from on.
Place(from, i) == (from + i - 1) % NBytes

LEMMA PlaceIs ==
  ASSUME NEW from \in Index, NEW i \in 1 .. NBytes
  PROVE  /\ Place(from, i) = IF from + i - 1 < NBytes THEN from + i - 1 ELSE from + i - 1 - NBytes
         /\ Place(from, i) \in Index
<1>1. CASE from + i - 1 < NBytes
  BY <1>1, Wrapped DEF Index, Place
<1>2. CASE from + i - 1 >= NBytes
  BY <1>2, Wrapped DEF Index, Place
<1> QED
  BY <1>1, <1>2 DEF Index

(***************************************************************************)
(* The inductive invariant.  A Put between its first and its last step has *)
(* its room, though the head may have moved on since it looked; what it    *)
(* has copied stands in the free places.  A Get likewise has its bytes,    *)
(* and what it has copied are the oldest ones.                             *)
(***************************************************************************)
PutFits ==
  put.pc # "idle" =>
    /\ put.data \in Blocks
    /\ Len(put.data) + Count(tail) <= NBytes - 1
    /\ put.raw < Len(put.data) => tail + put.raw = NBytes
    /\ put.raw >= Len(put.data) => tail + Len(put.data) <= NBytes

PutCopied ==
  /\ put.pc = "wrap" =>
       /\ put.raw < Len(put.data)
       /\ \A i \in 1 .. put.raw : buf[Place(tail, i)] = put.data[i]
  /\ put.pc = "update" =>
       \A i \in 1 .. Len(put.data) : buf[Place(tail, i)] = put.data[i]

GetFits ==
  get.pc # "idle" =>
    /\ get.nbytes \in 1 .. Count(tail)
    /\ get.raw < get.nbytes => head + get.raw = NBytes
    /\ get.raw >= get.nbytes => head + get.nbytes <= NBytes

GetCopied ==
  /\ get.pc = "wrap" =>
       /\ get.raw < get.nbytes
       /\ Len(get.data) = get.raw
       /\ \A i \in 1 .. get.raw : get.data[i] = buf[Place(head, i)]
  /\ get.pc = "update" =>
       /\ Len(get.data) = get.nbytes
       /\ \A i \in 1 .. get.nbytes : get.data[i] = buf[Place(head, i)]

CircBufInv == TypeOK /\ PutFits /\ PutCopied /\ GetFits /\ GetCopied

\* The invariant is stronger than the bounds of the copies.
LEMMA InvBounds == CircBufInv => CopiesInBounds
<1> SUFFICES ASSUME CircBufInv PROVE CopiesInBounds
  OBVIOUS
<1>1. /\ head \in Index /\ tail \in Index /\ put.raw \in Nat /\ get.raw \in Nat
      /\ get.nbytes \in Nat /\ put.data \in Seq(Byte)
  BY DEF CircBufInv, TypeOK
<1>2. Len(put.data) \in Nat
  BY <1>1, LenProperties
<1>3. Count(tail) \in Index
  BY SMTT(20), <1>1, CountIs DEF Index
<1>4. /\ put.pc # "idle" =>
           /\ Len(put.data) + Count(tail) <= NBytes - 1
           /\ put.raw >= Len(put.data) => tail + Len(put.data) <= NBytes
           /\ put.raw < Len(put.data) => tail + put.raw = NBytes
      /\ put.pc = "wrap" => put.raw < Len(put.data)
  BY DEF CircBufInv, PutFits, PutCopied
<1>5. /\ get.pc # "idle" =>
           /\ get.nbytes \in 1 .. Count(tail)
           /\ get.raw >= get.nbytes => head + get.nbytes <= NBytes
           /\ get.raw < get.nbytes => head + get.raw = NBytes
      /\ get.pc = "wrap" => get.raw < get.nbytes
  BY DEF CircBufInv, GetFits, GetCopied
<1>6. /\ put.pc = "copy" => tail + Min(put.raw, Len(put.data)) <= NBytes
      /\ put.pc = "wrap" => Len(put.data) - put.raw <= NBytes
  BY <1>1, <1>2, <1>3, <1>4 DEF Min, Index
<1>7. /\ get.pc = "copy" => head + Min(get.raw, get.nbytes) <= NBytes
      /\ get.pc = "wrap" => get.nbytes - get.raw <= NBytes
  BY <1>1, <1>3, <1>5 DEF Min, Index
<1> QED
  BY <1>6, <1>7 DEF CopiesInBounds

(***************************************************************************)
(* The pieces a Put writes and the places a Get reads                      *)
(***************************************************************************)
\* A free place within the room of the Put holds no byte of the contents.
LEMMA Disjoint ==
  ASSUME head \in Index, tail \in Index,
         NEW i \in 1 .. Count(tail), NEW j \in 1 .. NBytes, j + Count(tail) <= NBytes - 1
  PROVE  Place(head, i) # Place(tail, j)
<1>1. Count(tail) = IF head <= tail THEN tail - head ELSE tail - head + NBytes
  BY CountIs
<1>2. i \in 1 .. NBytes
  BY <1>1 DEF Index
<1>3. Place(head, i) = IF head + i - 1 < NBytes THEN head + i - 1 ELSE head + i - 1 - NBytes
  BY <1>2, PlaceIs
<1>4. Place(tail, j) = IF tail + j - 1 < NBytes THEN tail + j - 1 ELSE tail + j - 1 - NBytes
  BY PlaceIs
<1> QED
  BY <1>1, <1>2, <1>3, <1>4 DEF Index

LEMMA CopiedInIs ==
  ASSUME buf \in [Index -> Byte], NEW data \in Seq(Byte), NEW from \in Index,
         from + Len(data) <= NBytes
  PROVE  /\ CopiedIn(data, from) \in [Index -> Byte]
         /\ \A i \in 1 .. Len(data) : CopiedIn(data, from)[from + i - 1] = data[i]
         /\ \A p \in Index : p \notin from .. from + Len(data) - 1 => CopiedIn(data, from)[p] = buf[p]
<1>1. Len(data) \in Nat /\ \A i \in 1 .. Len(data) : data[i] \in Byte
  BY LenProperties, ElementOfSeq
<1>2. \A p \in Index : p - from \in 0 .. Len(data) - 1 => p - from + 1 \in 1 .. Len(data)
  BY <1>1 DEF Index
<1>3. CopiedIn(data, from) \in [Index -> Byte]
  BY <1>1, <1>2 DEF CopiedIn
<1>4. ASSUME NEW i \in 1 .. Len(data)
      PROVE  CopiedIn(data, from)[from + i - 1] = data[i]
  <2>1. /\ from + i - 1 \in Index /\ (from + i - 1) - from \in 0 .. Len(data) - 1
        /\ (from + i - 1) - from + 1 = i
    BY <1>1 DEF Index
  <2> QED
    BY <2>1 DEF CopiedIn
<1>5. ASSUME NEW p \in Index, p \notin from .. from + Len(data) - 1
      PROVE  CopiedIn(data, from)[p] = buf[p]
  <2>1. p - from \notin 0 .. Len(data) - 1
    BY <1>1, <1>5 DEF Index
  <2> QED
    BY <2>1 DEF CopiedIn
<1> QED
  BY <1>3, <1>4, <1>5

\* The bytes copied out, up to the end of the array, are a sequence.
LEMMA CopiedOutIs ==
  ASSUME buf \in [Index -> Byte], NEW from \in Index, NEW n \in Nat, from + n <= NBytes
  PROVE  /\ CopiedOut(from, n) \in Seq(Byte)
         /\ Len(CopiedOut(from, n)) = n
         /\ \A i \in 1 .. n : CopiedOut(from, n)[i] = buf[from + i - 1]
<1>1. \A i \in 1 .. n : from + i - 1 \in Index
  BY DEF Index
<1>2. CopiedOut(from, n) \in [1 .. n -> Byte]
  BY <1>1 DEF CopiedOut
<1>3. CopiedOut(from, n) \in Seq(Byte)
  BY <1>2
<1>4. Len(CopiedOut(from, n)) = n
  BY <1>2, <1>3, LenProperties
<1> QED
  BY <1>3, <1>4 DEF CopiedOut

\* What the invariant says of the lengths and the places.
LEMMA Numbers ==
  ASSUME TypeOK
  PROVE  /\ head \in Index /\ tail \in Index /\ buf \in [Index -> Byte]
         /\ put.raw \in Nat /\ put.data \in Seq(Byte) /\ Len(put.data) \in Nat
         /\ get.raw \in Nat /\ get.nbytes \in Nat
         /\ Count(tail) \in 0 .. NBytes - 1
         /\ Count(tail) = IF head <= tail THEN tail - head ELSE tail - head + NBytes
<1>1. head \in Index /\ tail \in Index /\ buf \in [Index -> Byte]
  BY DEF TypeOK
<1>2. put.raw \in Nat /\ put.data \in Seq(Byte) /\ get.raw \in Nat /\ get.nbytes \in Nat
  BY DEF TypeOK
<1>3. Count(tail) = IF head <= tail THEN tail - head ELSE tail - head + NBytes
  BY <1>1, CountIs
<1> QED
  BY <1>1, <1>2, <1>3, LenProperties DEF Index

(***************************************************************************)
(* Each step keeps the invariant                                           *)
(***************************************************************************)
\* The bytes in the buffer stay where they are.
ContentsKept == \A i \in 1 .. Count(tail) : buf'[Place(head, i)] = buf[Place(head, i)]

\* What the writer's copies leave alone.
LEMMA CopyKeeps ==
  ASSUME CircBufInv, put.pc # "idle",
         NEW data \in Seq(Byte), NEW from \in Index, from + Len(data) <= NBytes,
         \A p \in from .. from + Len(data) - 1 :
           \E j \in 1 .. Len(put.data) : p = Place(tail, j),
         buf' = CopiedIn(data, from)
  PROVE  ContentsKept
<1>1. TypeOK /\ Len(put.data) + Count(tail) <= NBytes - 1
  BY DEF CircBufInv, PutFits
<1> SUFFICES ASSUME NEW i \in 1 .. Count(tail)
             PROVE  buf'[Place(head, i)] = buf[Place(head, i)]
  BY DEF ContentsKept
<1>2. \A j \in 1 .. Len(put.data) : Place(head, i) # Place(tail, j)
  <2>1. SUFFICES ASSUME NEW j \in 1 .. Len(put.data)
                 PROVE  Place(head, i) # Place(tail, j)
    OBVIOUS
  <2>2. j \in 1 .. NBytes /\ j + Count(tail) <= NBytes - 1
    BY <1>1, Numbers
  <2> QED
    BY <1>1, <2>2, Numbers, Disjoint
<1>3. Place(head, i) \in Index
  BY <1>1, Numbers, PlaceIs
<1>4. Place(head, i) \notin from .. from + Len(data) - 1
  BY <1>2
<1> QED
  BY <1>1, <1>3, <1>4, Numbers, CopiedInIs

\* A step of the writer that keeps the contents keeps what the reader has.
LEMMA GetStands ==
  ASSUME CircBufInv, ContentsKept, UNCHANGED <<head, tail, get>>
  PROVE  GetFits' /\ GetCopied'
<1>1. TypeOK /\ GetFits /\ GetCopied
  BY DEF CircBufInv
<1>2. Count(tail)' = Count(tail)
  BY DEF Count
<1>3. GetFits'
  BY <1>1, <1>2 DEF GetFits
<1>4. get.pc # "idle" => get.nbytes \in 1 .. Count(tail)
  BY <1>1 DEF GetFits
<1>5. \A i : Place(head, i)' = Place(head, i)
  BY DEF Place
<1>6. \A i \in 1 .. get.nbytes : get.pc # "idle" => i \in 1 .. Count(tail)
  BY <1>1, <1>4, Numbers
<1>7. get.pc = "wrap" => \A i \in 1 .. get.raw : i \in 1 .. get.nbytes
  BY <1>1, Numbers DEF GetCopied
<1> QED
  BY <1>1, <1>3, <1>5, <1>6, <1>7 DEF GetCopied, ContentsKept

LEMMA PutBeginInv ==
  ASSUME CircBufInv, NEW data \in Blocks, PutBegin(data)
  PROVE  CircBufInv'
<1>1. TypeOK /\ GetFits /\ GetCopied
  BY DEF CircBufInv
<1>2. /\ UNCHANGED <<buf, head, tail, get, got>>
      /\ put' = [pc |-> "copy", data |-> data, raw |-> RawSpace(head)]
      /\ Space(head) >= Len(data)
  BY DEF PutBegin
<1>3. data \in Seq(Byte) /\ Len(data) \in Nat
  BY LenProperties
<1>4. RawSpace(head) \in Nat
  BY SMTT(20), <1>1, Numbers DEF RawSpace, Index
<1>5. TypeOK'
  BY <1>1, <1>2, <1>3, <1>4 DEF TypeOK
<1>6. Count(tail)' = Count(tail)
  BY <1>2 DEF Count
<1>7. PutFits'
  <2>1. Space(head) = IF tail < head THEN head - tail - 1 ELSE head - tail - 1 + NBytes
    BY <1>1, Numbers, SpaceIs
  <2>2. Len(data) + Count(tail) <= NBytes - 1
    BY <1>1, <1>2, <1>3, <2>1, Numbers DEF Index
  <2>3. RawSpace(head) < Len(data) => tail + RawSpace(head) = NBytes
    BY SMTT(20), <1>1, <1>2, <1>3, <2>1, Numbers DEF Index, RawSpace
  <2>4. RawSpace(head) >= Len(data) => tail + Len(data) <= NBytes
    BY SMTT(20), <1>1, <1>2, <1>3, <2>1, Numbers DEF Index, RawSpace
  <2> QED
    BY <1>2, <1>6, <2>2, <2>3, <2>4 DEF PutFits
<1>8. PutCopied'
  BY <1>2 DEF PutCopied
<1>9. GetFits' /\ GetCopied'
  BY <1>1, <1>2, <1>6 DEF GetFits, GetCopied, Place
<1> QED
  BY <1>5, <1>7, <1>8, <1>9 DEF CircBufInv

LEMMA PutCopyInv ==
  ASSUME CircBufInv, PutCopy
  PROVE  CircBufInv' /\ ContentsKept
<1> DEFINE n == Min(put.raw, Len(put.data))
           piece == SubSeq(put.data, 1, n)
<1>1. TypeOK /\ PutFits /\ put.pc = "copy"
  BY DEF CircBufInv, PutCopy
<1>2. /\ UNCHANGED <<head, tail, get, got>>
      /\ buf' = CopiedIn(piece, tail)
      /\ put' = [put EXCEPT !.pc = IF put.raw >= Len(put.data) THEN "update" ELSE "wrap"]
  BY DEF PutCopy
<1>3. n \in 0 .. Len(put.data) /\ n <= put.raw /\ tail + n <= NBytes
  BY SMTT(20), <1>1, Numbers DEF PutFits, Min, Index
<1>4. piece \in Seq(Byte) /\ Len(piece) = n /\ \A i \in 1 .. n : piece[i] = put.data[i]
  <2>1. \A i \in 1 .. n : put.data[i] \in Byte
    BY <1>1, <1>3, Numbers, ElementOfSeq
  <2> QED
    BY <1>3, <2>1, SubSeqProperties
<1>5. n = Min(put.raw, Len(put.data))
  OBVIOUS
<1> HIDE DEF piece, n
<1>6. /\ buf' \in [Index -> Byte]
      /\ \A i \in 1 .. n : buf'[tail + i - 1] = put.data[i]
  BY <1>1, <1>2, <1>3, <1>4, Numbers, CopiedInIs
<1>7. ASSUME NEW i \in 1 .. n
      PROVE  Place(tail, i) = tail + i - 1
  <2>1. i \in 1 .. NBytes /\ tail + i - 1 < NBytes
    BY SMTT(20), <1>1, <1>3, Numbers DEF Index
  <2> QED
    BY <1>1, <2>1, Numbers, PlaceIs
<1>8. ContentsKept
  <2>1. ASSUME NEW p \in tail .. tail + Len(piece) - 1
        PROVE  \E j \in 1 .. Len(put.data) : p = Place(tail, j)
    <3> DEFINE j == p - tail + 1
    <3>1. tail \in Nat /\ n \in Nat /\ Len(put.data) \in Nat /\ n <= Len(put.data) /\ Len(piece) = n
      BY <1>1, <1>3, <1>4, Numbers DEF Index
    <3>2. j \in 1 .. n /\ j \in 1 .. Len(put.data) /\ tail + j - 1 = p
      BY <3>1
    <3> HIDE DEF j
    <3> QED
      BY <1>7, <3>2
  <2> QED
    BY <1>1, <1>2, <1>3, <1>4, <2>1, Numbers, CopyKeeps
<1>9. /\ put'.pc = (IF put.raw >= Len(put.data) THEN "update" ELSE "wrap")
      /\ put'.raw = put.raw /\ put'.data = put.data
      /\ put' \in [pc : {"idle", "copy", "wrap", "update"}, data : Seq(Byte), raw : Nat]
  BY <1>1, <1>2 DEF TypeOK
<1>10. TypeOK'
  BY <1>1, <1>2, <1>6, <1>9 DEF TypeOK
<1>11. Count(tail)' = Count(tail)
  BY <1>2 DEF Count
<1>12. PutFits'
  BY <1>1, <1>2, <1>9, <1>11 DEF PutFits
<1>13. PutCopied'
  <2>1. put'.pc = "update" => n = Len(put.data)
    BY <1>1, <1>3, <1>5, <1>9, Numbers DEF Min
  <2>2. put'.pc = "wrap" => n = put.raw /\ put.raw < Len(put.data)
    BY <1>1, <1>3, <1>5, <1>9, Numbers DEF Min
  <2>3. \A i : Place(tail, i)' = Place(tail, i)
    BY <1>2 DEF Place
  <2> QED
    BY <1>6, <1>7, <1>9, <2>1, <2>2, <2>3 DEF PutCopied
<1>14. GetFits' /\ GetCopied'
  BY <1>2, <1>8, GetStands
<1> QED
  BY <1>8, <1>10, <1>12, <1>13, <1>14 DEF CircBufInv

LEMMA PutWrapInv ==
  ASSUME CircBufInv, PutWrap
  PROVE  CircBufInv' /\ ContentsKept
<1> DEFINE rest == Len(put.data) - put.raw
           piece == SubSeq(put.data, put.raw + 1, Len(put.data))
<1>1. TypeOK /\ PutFits /\ PutCopied /\ put.pc = "wrap"
  BY DEF CircBufInv, PutWrap
<1>2. /\ UNCHANGED <<head, tail, get, got>>
      /\ buf' = CopiedIn(piece, 0)
      /\ put' = [put EXCEPT !.pc = "update"]
  BY DEF PutWrap
<1>3. /\ put.raw < Len(put.data) /\ tail + put.raw = NBytes
      /\ \A i \in 1 .. put.raw : buf[Place(tail, i)] = put.data[i]
      /\ Len(put.data) <= NBytes - 1
  BY <1>1, Numbers DEF PutFits, PutCopied
<1>4. rest \in Nat /\ put.raw + rest = Len(put.data)
  BY <1>1, <1>3, Numbers
<1>5. /\ piece \in Seq(Byte) /\ Len(piece) = rest
      /\ \A i \in 1 .. rest : piece[i] = put.data[put.raw + i]
  <2>1. \A i \in put.raw + 1 .. Len(put.data) : put.data[i] \in Byte
    BY <1>1, <1>3, Numbers, ElementOfSeq
  <2>2. put.raw + 1 \in Int /\ Len(put.data) \in Int
    BY <1>1, Numbers
  <2>3. /\ piece \in Seq(Byte)
        /\ Len(piece) = IF put.raw + 1 <= Len(put.data) THEN Len(put.data) - (put.raw + 1) + 1 ELSE 0
        /\ \A i \in 1 .. Len(put.data) - (put.raw + 1) + 1 : piece[i] = put.data[put.raw + 1 + i - 1]
    BY SMTT(20), <2>1, <2>2, SubSeqProperties
  <2>4. /\ Len(put.data) - (put.raw + 1) + 1 = rest /\ put.raw + 1 <= Len(put.data)
        /\ \A i \in 1 .. rest : put.raw + 1 + i - 1 = put.raw + i
    <3>1. put.raw \in Nat /\ Len(put.data) \in Nat /\ put.raw < Len(put.data)
      BY <1>1, <1>3, Numbers
    <3> QED
      BY <3>1
  <2> HIDE DEF piece, rest
  <2> QED
    BY <2>3, <2>4
<1> HIDE DEF piece, rest
<1>6. 0 \in Index /\ 0 + rest <= NBytes
  BY SMTT(20), <1>1, <1>3, <1>4, Numbers DEF Index
<1>7. /\ buf' \in [Index -> Byte]
      /\ \A i \in 1 .. rest : buf'[0 + i - 1] = put.data[put.raw + i]
      /\ \A p \in Index : p \notin 0 .. 0 + rest - 1 => buf'[p] = buf[p]
  BY <1>1, <1>2, <1>5, <1>6, Numbers, CopiedInIs
<1>8. /\ tail \in 0 .. NBytes - 1 /\ put.raw \in Nat /\ rest \in Nat
      /\ tail + put.raw = NBytes /\ put.raw + rest <= NBytes - 1
  BY <1>1, <1>3, <1>4, Numbers DEF Index
<1>9. /\ \A i \in 1 .. put.raw : Place(tail, i) = tail + i - 1
      /\ \A i \in 1 .. rest : Place(tail, put.raw + i) = i - 1
  <2>1. ASSUME NEW i \in 1 .. put.raw PROVE Place(tail, i) = tail + i - 1
    <3>1. i \in 1 .. NBytes /\ tail + i - 1 < NBytes
      BY SMTT(20), <1>1, <1>3, Numbers DEF Index
    <3> QED
      BY <1>1, <3>1, Numbers, PlaceIs
  <2>2. ASSUME NEW i \in 1 .. rest PROVE Place(tail, put.raw + i) = i - 1
    <3> DEFINE j == put.raw + i
    <3>1. /\ j \in 1 .. NBytes /\ ~(tail + j - 1 < NBytes) /\ tail + j - 1 - NBytes = i - 1
      BY SMTT(20), <1>8
    <3> HIDE DEF j
    <3>2. Place(tail, j) = i - 1
      BY <1>1, <3>1, Numbers, PlaceIs
    <3> QED
      BY <3>2 DEF j
  <2> QED
    BY <2>1, <2>2
<1>10. ContentsKept
  <2>1. ASSUME NEW p \in 0 .. 0 + Len(piece) - 1
        PROVE  \E j \in 1 .. Len(put.data) : p = Place(tail, j)
    <3>1. p + 1 \in 1 .. rest /\ put.raw + (p + 1) \in 1 .. Len(put.data)
      BY SMTT(20), <1>1, <1>3, <1>4, <1>5, Numbers
    <3> QED
      BY <1>9, <3>1
  <2> QED
    BY <1>1, <1>2, <1>5, <1>6, <2>1, CopyKeeps
<1>11. /\ put'.pc = "update" /\ put'.raw = put.raw /\ put'.data = put.data
       /\ put' \in [pc : {"idle", "copy", "wrap", "update"}, data : Seq(Byte), raw : Nat]
  BY <1>1, <1>2 DEF TypeOK
<1>12. TypeOK'
  BY <1>1, <1>2, <1>7, <1>11 DEF TypeOK
<1>13. PutFits'
  <2>1. Count(tail)' = Count(tail)
    BY <1>2 DEF Count
  <2> QED
    BY <1>1, <1>2, <1>11, <2>1 DEF PutFits
<1>14. PutCopied'
  <2>1. \A i : Place(tail, i)' = Place(tail, i)
    BY <1>2 DEF Place
  <2>2. ASSUME NEW i \in 1 .. Len(put.data)
        PROVE  buf'[Place(tail, i)] = put.data[i]
    <3>1. CASE i <= put.raw
      <4>1. i \in 1 .. put.raw /\ tail + i - 1 \in Index /\ tail + i - 1 \notin 0 .. 0 + rest - 1
        BY SMTT(20), <1>1, <1>8, <3>1, Numbers DEF Index
      <4> QED
        BY <1>3, <1>7, <1>9, <4>1
    <3>2. CASE i > put.raw
      <4>1. put.raw \in Nat /\ Len(put.data) \in Nat /\ put.raw + rest = Len(put.data)
        BY <1>1, <1>4, Numbers
      <4>2. /\ i - put.raw \in 1 .. rest /\ put.raw + (i - put.raw) = i
            /\ 0 + (i - put.raw) - 1 = (i - put.raw) - 1
        BY SMTT(20), <1>8, <3>2, <4>1
      <4> QED
        BY <1>7, <1>9, <4>2
    <3> QED
      BY <1>1, <3>1, <3>2, Numbers
  <2> QED
    BY <1>11, <2>1, <2>2 DEF PutCopied
<1>15. GetFits' /\ GetCopied'
  BY <1>2, <1>10, GetStands
<1> QED
  BY <1>10, <1>12, <1>13, <1>14, <1>15 DEF CircBufInv

LEMMA PutUpdateTailInv ==
  ASSUME CircBufInv, PutUpdateTail
  PROVE  /\ CircBufInv'
         /\ Count(tail)' = Count(tail) + Len(put.data)
         /\ \A i \in 1 .. Len(put.data) : Place(head, Count(tail) + i) = Place(tail, i)
<1>1. TypeOK /\ PutFits /\ PutCopied /\ GetFits /\ GetCopied /\ put.pc = "update"
  BY DEF CircBufInv, PutUpdateTail
<1>2. /\ UNCHANGED <<buf, head, get, got>>
      /\ tail' = (tail + Len(put.data)) % NBytes
      /\ put' = NotPutting
  BY DEF PutUpdateTail
<1>3. Len(put.data) \in 0 .. NBytes - 1 /\ Len(put.data) + Count(tail) <= NBytes - 1
  BY <1>1, Numbers DEF PutFits
<1>4. tail' = IF tail + Len(put.data) < NBytes THEN tail + Len(put.data)
              ELSE tail + Len(put.data) - NBytes
  BY <1>1, <1>2, <1>3, Numbers, WrappedSum
<1> DEFINE k == Len(put.data)
<1>5. /\ head \in 0 .. NBytes - 1 /\ tail \in 0 .. NBytes - 1 /\ k \in 0 .. NBytes - 1
      /\ Count(tail) = IF head <= tail THEN tail - head ELSE tail - head + NBytes
      /\ k + Count(tail) <= NBytes - 1
      /\ tail' = IF tail + k < NBytes THEN tail + k ELSE tail + k - NBytes
  BY <1>1, <1>3, <1>4, Numbers DEF Index
<1> HIDE DEF k
<1>6. tail' \in Index
  BY <1>5 DEF Index
<1>7. Count(tail)' = IF head <= tail' THEN tail' - head ELSE tail' - head + NBytes
  <2>1. Count(tail)' = Count(tail')
    BY <1>2 DEF Count
  <2> QED
    BY <1>1, <1>6, <2>1, Numbers, CountIs
<1>8. Count(tail)' = Count(tail) + Len(put.data)
  <2>1. Count(tail)' = Count(tail) + k
    BY <1>5, <1>7
  <2> QED
    BY <2>1 DEF k
<1>9. ASSUME NEW i \in 1 .. Len(put.data)
      PROVE  Place(head, Count(tail) + i) = Place(tail, i)
  <2> DEFINE j == Count(tail) + i
  <2>1. j \in 1 .. NBytes /\ i \in 1 .. NBytes
    BY <1>1, <1>3, Numbers
  <2>2. Place(tail, i) = IF tail + i - 1 < NBytes THEN tail + i - 1 ELSE tail + i - 1 - NBytes
    BY <1>1, <2>1, Numbers, PlaceIs
  <2>3. j = IF head <= tail THEN tail - head + i ELSE tail - head + NBytes + i
    BY <1>1, Numbers DEF Index
  <2> HIDE DEF j
  <2>4. Place(head, j) = IF head + j - 1 < NBytes THEN head + j - 1 ELSE head + j - 1 - NBytes
    BY <1>1, <2>1, Numbers, PlaceIs
  <2>5. Place(head, j) = Place(tail, i)
    BY <1>5, <2>1, <2>2, <2>3, <2>4
  <2> QED
    BY <2>5 DEF j
<1>10. TypeOK'
  <2>1. NotPutting \in [pc : {"idle", "copy", "wrap", "update"}, data : Seq(Byte), raw : Nat]
    BY EmptySeq DEF NotPutting
  <2> QED
    BY <1>1, <1>2, <1>6, <2>1 DEF TypeOK
<1>11. PutFits' /\ PutCopied'
  BY <1>2 DEF PutFits, PutCopied, NotPutting
<1>12. GetFits'
  <2>1. 1 .. Count(tail) \subseteq 1 .. Count(tail)'
    BY <1>1, <1>3, <1>8, Numbers
  <2> QED
    BY <1>1, <1>2, <2>1 DEF GetFits
<1>13. GetCopied'
  BY <1>1, <1>2 DEF GetCopied, Place
<1> QED
  BY <1>8, <1>9, <1>10, <1>11, <1>12, <1>13 DEF CircBufInv

LEMMA GetBeginInv ==
  ASSUME CircBufInv, NEW nbytes \in GetLengths, GetBegin(nbytes)
  PROVE  CircBufInv'
<1> DEFINE n == Min(nbytes, Count(tail))
<1>1. TypeOK /\ PutFits /\ PutCopied
  BY DEF CircBufInv
<1>2. /\ UNCHANGED <<buf, head, tail, put, got>>
      /\ get' = [pc |-> "copy", nbytes |-> n, raw |-> RawCount(tail), data |-> <<>>]
      /\ n > 0
  BY DEF GetBegin
<1>3. n \in 1 .. Count(tail)
  <2>1. nbytes \in Nat
    OBVIOUS
  <2> QED
    BY <1>1, <1>2, <2>1, Numbers DEF Min
<1> HIDE DEF n
<1>4. Count(tail)' = Count(tail)
  BY <1>2 DEF Count
<1>5. TypeOK'
  <2>1. RawCount(tail) \in Nat
    BY <1>1, Numbers DEF RawCount, Index
  <2>2. n \in Nat /\ <<>> \in Seq(Byte)
    BY <1>1, <1>3, EmptySeq, Numbers
  <2> QED
    BY <1>1, <1>2, <2>1, <2>2 DEF TypeOK
<1>6. PutFits' /\ PutCopied'
  BY <1>1, <1>2, <1>4 DEF PutFits, PutCopied, Place
<1>7. GetFits'
  <2>1. RawCount(tail) < n => head + RawCount(tail) = NBytes
    BY <1>1, <1>3, Numbers DEF RawCount, Index
  <2>2. RawCount(tail) >= n => head + n <= NBytes
    BY <1>1, <1>3, Numbers DEF RawCount, Index
  <2> QED
    BY <1>2, <1>3, <1>4, <2>1, <2>2 DEF GetFits
<1>8. GetCopied'
  BY <1>2 DEF GetCopied
<1> QED
  BY <1>5, <1>6, <1>7, <1>8 DEF CircBufInv

LEMMA GetCopyInv ==
  ASSUME CircBufInv, GetCopy
  PROVE  CircBufInv'
<1> DEFINE n == Min(get.raw, get.nbytes)
<1>1. TypeOK /\ PutFits /\ PutCopied /\ GetFits /\ get.pc = "copy"
  BY DEF CircBufInv, GetCopy
<1>2. /\ UNCHANGED <<buf, head, tail, put, got>>
      /\ get' = [get EXCEPT !.data = CopiedOut(head, n),
                            !.pc = IF get.nbytes <= get.raw THEN "update" ELSE "wrap"]
  BY DEF GetCopy
<1>3. /\ n \in Nat /\ n <= get.nbytes /\ head + n <= NBytes
      /\ get.raw < get.nbytes => n = get.raw
      /\ get.nbytes <= get.raw => n = get.nbytes
  BY SMTT(20), <1>1, Numbers DEF GetFits, Min, Index
<1> HIDE DEF n
<1>4. /\ CopiedOut(head, n) \in Seq(Byte) /\ Len(CopiedOut(head, n)) = n
      /\ \A i \in 1 .. n : CopiedOut(head, n)[i] = buf[head + i - 1]
  BY <1>1, <1>3, Numbers, CopiedOutIs
<1>5. ASSUME NEW i \in 1 .. n
      PROVE  Place(head, i) = head + i - 1
  <2>1. i \in 1 .. NBytes /\ head + i - 1 < NBytes
    BY <1>1, <1>3, Numbers DEF Index
  <2> QED
    BY <1>1, <2>1, Numbers, PlaceIs
<1>6. /\ get'.pc = (IF get.nbytes <= get.raw THEN "update" ELSE "wrap")
      /\ get'.raw = get.raw /\ get'.nbytes = get.nbytes /\ get'.data = CopiedOut(head, n)
      /\ get' \in [pc : {"idle", "copy", "wrap", "update"}, nbytes : Nat, raw : Nat,
                   data : Seq(Byte)]
  BY <1>1, <1>2, <1>4 DEF TypeOK
<1>7. TypeOK'
  BY <1>1, <1>2, <1>6 DEF TypeOK
<1>8. Count(tail)' = Count(tail)
  BY <1>2 DEF Count
<1>9. PutFits' /\ PutCopied'
  BY <1>1, <1>2, <1>8 DEF PutFits, PutCopied, Place
<1>10. GetFits'
  BY <1>1, <1>2, <1>6, <1>8 DEF GetFits
<1>11. GetCopied'
  <2>1. \A i : Place(head, i)' = Place(head, i)
    BY <1>2 DEF Place
  <2>2. get'.pc = "wrap" => get.raw < get.nbytes
    BY <1>1, <1>6, Numbers
  <2>3. get'.pc = "update" => get.nbytes <= get.raw
    BY <1>6
  <2> QED
    BY <1>2, <1>3, <1>4, <1>5, <1>6, <2>1, <2>2, <2>3 DEF GetCopied
<1> QED
  BY <1>7, <1>9, <1>10, <1>11 DEF CircBufInv

LEMMA GetWrapInv ==
  ASSUME CircBufInv, GetWrap
  PROVE  CircBufInv'
<1> DEFINE rest == get.nbytes - get.raw
           more == CopiedOut(0, rest)
<1>1. TypeOK /\ PutFits /\ PutCopied /\ GetFits /\ GetCopied /\ get.pc = "wrap"
  BY DEF CircBufInv, GetWrap
<1>2. /\ UNCHANGED <<buf, head, tail, put, got>>
      /\ get' = [get EXCEPT !.data = get.data \o more, !.pc = "update"]
  BY DEF GetWrap
<1>3. /\ get.raw < get.nbytes /\ Len(get.data) = get.raw /\ get.data \in Seq(Byte)
      /\ \A i \in 1 .. get.raw : get.data[i] = buf[Place(head, i)]
  BY <1>1 DEF GetCopied, TypeOK
<1>4. /\ head \in 0 .. NBytes - 1 /\ get.raw \in Nat /\ rest \in Nat /\ get.nbytes \in Nat
      /\ head + get.raw = NBytes /\ get.raw + rest = get.nbytes /\ get.nbytes <= NBytes - 1
  BY SMTT(20), <1>1, <1>3, Numbers DEF GetFits, Index
<1>5. 0 \in Index /\ 0 + rest <= NBytes
  BY <1>4 DEF Index
<1> HIDE DEF rest
<1>6. /\ more \in Seq(Byte) /\ Len(more) = rest
      /\ \A i \in 1 .. rest : more[i] = buf[0 + i - 1]
  BY <1>1, <1>4, <1>5, Numbers, CopiedOutIs
<1> HIDE DEF more
<1>7. /\ get.data \o more \in Seq(Byte)
      /\ Len(get.data \o more) = get.nbytes
      /\ \A i \in 1 .. get.nbytes :
           (get.data \o more)[i] = IF i <= get.raw THEN get.data[i] ELSE more[i - get.raw]
  <2>1. get.data \in Seq(Byte) /\ more \in Seq(Byte)
    BY <1>3, <1>6
  <2>2. Len(get.data) = get.raw /\ Len(more) = rest /\ get.raw + rest = get.nbytes
    BY <1>3, <1>4, <1>6
  <2> DEFINE both == get.data \o more
  <2>3. /\ both \in Seq(Byte)
        /\ Len(both) = Len(get.data) + Len(more)
        /\ \A i \in 1 .. Len(get.data) + Len(more) :
             both[i] = IF i <= Len(get.data) THEN get.data[i] ELSE more[i - Len(get.data)]
    BY <2>1, ConcatProperties
  <2> HIDE DEF both
  <2>4. /\ both \in Seq(Byte) /\ Len(both) = get.nbytes
        /\ \A i \in 1 .. get.nbytes :
             both[i] = IF i <= get.raw THEN get.data[i] ELSE more[i - get.raw]
    BY <2>2, <2>3
  <2> QED
    BY <2>4 DEF both
<1>8. ASSUME NEW i \in 1 .. get.nbytes
      PROVE  (get.data \o more)[i] = buf[Place(head, i)]
  <2>1. CASE i <= get.raw
    <3>1. i \in 1 .. get.raw
      BY <1>4, <2>1
    <3> QED
      BY <1>3, <1>7, <2>1, <3>1
  <2>2. CASE i > get.raw
    <3>1. /\ i - get.raw \in 1 .. rest /\ ~(i <= get.raw)
          /\ i \in 1 .. NBytes /\ ~(head + i - 1 < NBytes)
          /\ 0 + (i - get.raw) - 1 = head + i - 1 - NBytes
      BY SMTT(20), <1>4, <2>2
    <3>2. Place(head, i) = head + i - 1 - NBytes
      BY <1>1, <3>1, Numbers, PlaceIs
    <3> QED
      BY <1>6, <1>7, <3>1, <3>2
  <2>3. i <= get.raw \/ i > get.raw
    BY <1>4
  <2> QED
    BY <2>1, <2>2, <2>3
<1>9. /\ get'.pc = "update" /\ get'.raw = get.raw /\ get'.nbytes = get.nbytes
      /\ get'.data = get.data \o more
      /\ get' \in [pc : {"idle", "copy", "wrap", "update"}, nbytes : Nat, raw : Nat,
                   data : Seq(Byte)]
  BY <1>1, <1>2, <1>7 DEF TypeOK
<1>10. TypeOK'
  BY <1>1, <1>2, <1>9 DEF TypeOK
<1>11. Count(tail)' = Count(tail)
  BY <1>2 DEF Count
<1>12. PutFits' /\ PutCopied'
  BY <1>1, <1>2, <1>11 DEF PutFits, PutCopied, Place
<1>13. GetFits'
  BY <1>1, <1>2, <1>9, <1>11 DEF GetFits
<1>14. GetCopied'
  <2>1. \A i : Place(head, i)' = Place(head, i)
    BY <1>2 DEF Place
  <2> QED
    BY <1>2, <1>7, <1>8, <1>9, <2>1 DEF GetCopied
<1> QED
  BY <1>10, <1>12, <1>13, <1>14 DEF CircBufInv

LEMMA GetUpdateHeadInv ==
  ASSUME CircBufInv, GetUpdateHead
  PROVE  /\ CircBufInv'
         /\ Count(tail)' = Count(tail) - get.nbytes
         /\ \A i \in 1 .. Count(tail)' : Place(head, i)' = Place(head, get.nbytes + i)
<1>1. TypeOK /\ PutFits /\ PutCopied /\ GetFits /\ get.pc = "update"
  BY DEF CircBufInv, GetUpdateHead
<1>2. /\ UNCHANGED <<buf, tail, put>>
      /\ head' = (head + get.nbytes) % NBytes
      /\ get' = NotGetting /\ got' = get.data
  BY DEF GetUpdateHead
<1>3. get.nbytes \in 1 .. Count(tail) /\ get.nbytes \in 0 .. NBytes - 1
  BY <1>1, Numbers DEF GetFits
<1>4. head' = IF head + get.nbytes < NBytes THEN head + get.nbytes
              ELSE head + get.nbytes - NBytes
  BY <1>1, <1>2, <1>3, Numbers, WrappedSum
<1>5. head' \in Index
  <2>1. head \in 0 .. NBytes - 1 /\ get.nbytes \in 0 .. NBytes - 1
    BY <1>1, <1>3, Numbers DEF Index
  <2> QED
    BY <1>4, <2>1 DEF Index
<1>6. TypeOK'
  <2>1. NotGetting \in [pc : {"idle", "copy", "wrap", "update"}, nbytes : Nat, raw : Nat,
                        data : Seq(Byte)]
    BY EmptySeq DEF NotGetting
  <2>2. get.data \in Seq(Byte)
    BY <1>1 DEF TypeOK
  <2> QED
    BY <1>1, <1>2, <1>5, <2>1, <2>2 DEF TypeOK
<1>7. Count(tail)' = IF head' <= tail THEN tail - head' ELSE tail - head' + NBytes
  <2>1. Count(tail)' = (tail - head') % NBytes
    BY <1>2 DEF Count
  <2>2. head' \in 0 .. NBytes - 1 /\ tail \in 0 .. NBytes - 1
    BY <1>1, <1>5, Numbers DEF Index
  <2> HIDE DEF Index
  <2>3. CASE head' <= tail
    BY <2>1, <2>2, <2>3, Wrapped
  <2>4. CASE tail < head'
    BY <2>1, <2>2, <2>4, Wrapped
  <2> QED
    BY <2>2, <2>3, <2>4
<1>8. Count(tail)' = Count(tail) - get.nbytes
  <2> DEFINE n == get.nbytes
             c == Count(tail)
             d == Count(tail)'
             h == head'
  <2>1. /\ head \in 0 .. NBytes - 1 /\ tail \in 0 .. NBytes - 1 /\ n \in 1 .. c
        /\ c = IF head <= tail THEN tail - head ELSE tail - head + NBytes
        /\ d = IF h <= tail THEN tail - h ELSE tail - h + NBytes
        /\ h = IF head + n < NBytes THEN head + n ELSE head + n - NBytes
    BY <1>1, <1>3, <1>4, <1>7, Numbers DEF Index
  <2> HIDE DEF n, c, d, h
  <2>2. d = c - n
    <3>1. CASE head <= tail
      BY <2>1, <3>1
    <3>2. CASE tail < head
      BY <2>1, <3>2
    <3> QED
      BY <2>1, <3>1, <3>2
  <2> QED
    BY <2>2 DEF n, c, d
<1>9. /\ head \in 0 .. NBytes - 1 /\ get.nbytes \in 0 .. NBytes - 1 /\ head' \in 0 .. NBytes - 1
      /\ head' = IF head + get.nbytes < NBytes THEN head + get.nbytes
                 ELSE head + get.nbytes - NBytes
  BY <1>1, <1>3, <1>4, <1>5, Numbers DEF Index
<1>10. ASSUME NEW i \in 1 .. Count(tail)'
      PROVE  Place(head, i)' = Place(head, get.nbytes + i)
  <2> DEFINE j == get.nbytes + i
  <2>1. i \in 1 .. NBytes /\ j \in 1 .. NBytes /\ j = get.nbytes + i
    BY <1>1, <1>3, <1>8, Numbers
  <2> HIDE DEF j
  <2>2. Place(head, j) = IF head + j - 1 < NBytes THEN head + j - 1 ELSE head + j - 1 - NBytes
    BY <1>1, <2>1, Numbers, PlaceIs
  <2>3. Place(head', i) = IF head' + i - 1 < NBytes THEN head' + i - 1 ELSE head' + i - 1 - NBytes
    BY <1>5, <2>1, PlaceIs
  <2>4. Place(head, j) = Place(head', i)
    <3> DEFINE n == get.nbytes
               h == head'
    <3>1. /\ head \in 0 .. NBytes - 1 /\ n \in 0 .. NBytes - 1 /\ h \in 0 .. NBytes - 1
          /\ h = IF head + n < NBytes THEN head + n ELSE head + n - NBytes
          /\ i \in 1 .. NBytes /\ j \in 1 .. NBytes /\ j = n + i
      BY <1>9, <2>1
    <3> HIDE DEF n, h
    <3>2. (IF head + j - 1 < NBytes THEN head + j - 1 ELSE head + j - 1 - NBytes)
            = (IF h + i - 1 < NBytes THEN h + i - 1 ELSE h + i - 1 - NBytes)
      <4>1. CASE head + n < NBytes
        BY <3>1, <4>1
      <4>2. CASE ~(head + n < NBytes)
        BY <3>1, <4>2
      <4> QED
        BY <4>1, <4>2
    <3> QED
      BY <2>2, <2>3, <3>2 DEF h
  <2>5. Place(head, i)' = Place(head', i)
    BY DEF Place
  <2> QED
    BY <2>4, <2>5 DEF j
<1>11. PutFits'
  BY <1>1, <1>2, <1>3, <1>8, Numbers DEF PutFits
<1>12. PutCopied'
  BY <1>1, <1>2 DEF PutCopied, Place
<1>13. GetFits' /\ GetCopied'
  BY <1>2 DEF GetFits, GetCopied, NotGetting
<1> QED
  BY <1>6, <1>8, <1>10, <1>11, <1>12, <1>13 DEF CircBufInv

LEMMA InitInv == Init => CircBufInv
<1> SUFFICES ASSUME Init PROVE CircBufInv
  OBVIOUS
<1>1. PICK b \in Byte : buf = [i \in Index |-> b]
  BY DEF Init
<1>2. buf \in [Index -> Byte] /\ head \in Index /\ tail \in Index
  BY <1>1 DEF Init, Index
<1>3. <<>> \in Seq(Byte)
  BY EmptySeq
<1>4. TypeOK
  BY <1>2, <1>3 DEF Init, TypeOK, NotPutting, NotGetting
<1>5. PutFits /\ PutCopied /\ GetFits /\ GetCopied
  BY DEF Init, NotPutting, NotGetting, PutFits, PutCopied, GetFits, GetCopied
<1> QED
  BY <1>4, <1>5 DEF CircBufInv

LEMMA NextInv == CircBufInv /\ [Next]_vars => CircBufInv'
<1> SUFFICES ASSUME CircBufInv, [Next]_vars PROVE CircBufInv'
  OBVIOUS
<1>1. CASE \E data \in Blocks : PutBegin(data)
  BY <1>1, PutBeginInv
<1>2. CASE PutCopy
  BY <1>2, PutCopyInv
<1>3. CASE PutWrap
  BY <1>3, PutWrapInv
<1>4. CASE PutUpdateTail
  BY <1>4, PutUpdateTailInv
<1>5. CASE \E nbytes \in GetLengths : GetBegin(nbytes)
  BY <1>5, GetBeginInv
<1>6. CASE GetCopy
  BY <1>6, GetCopyInv
<1>7. CASE GetWrap
  BY <1>7, GetWrapInv
<1>8. CASE GetUpdateHead
  BY <1>8, GetUpdateHeadInv
<1>9. CASE UNCHANGED vars
  <2>1. UNCHANGED <<buf, head, tail, put, get, got>>
    BY <1>9 DEF vars
  <2>2. TypeOK'
    BY <2>1 DEF CircBufInv, TypeOK
  <2>3. PutFits' /\ GetFits'
    BY <2>1 DEF CircBufInv, PutFits, GetFits, Count
  <2>4. PutCopied' /\ GetCopied'
    BY <2>1 DEF CircBufInv, PutCopied, GetCopied, Place
  <2> QED
    BY <2>2, <2>3, <2>4 DEF CircBufInv
<1> QED
  BY <1>1, <1>2, <1>3, <1>4, <1>5, <1>6, <1>7, <1>8, <1>9 DEF Next, PutRefused, GetNothing

\* The bytes in the buffer and what is under way of a Put and a Get fit each
\* other after every step.
THEOREM CircBufInvariant == Spec => []CircBufInv
BY InitInv, NextInv, PTL DEF Spec

\* Every variable keeps its type: neither index leaves the array.
THEOREM TypeCorrect == Spec => []TypeOK
<1>1. CircBufInv => TypeOK
  BY DEF CircBufInv
<1> QED
  BY <1>1, CircBufInvariant, PTL

\* ciaaLibs_CircBuf.c: no memcpy of a Put or a Get reaches over the end of the
\* array, though the other side moves its index meanwhile.
THEOREM CopiesStayInside == Spec => []CopiesInBounds
BY InvBounds, CircBufInvariant, PTL

(***************************************************************************)
(* The buffer implements the queue                                         *)
(***************************************************************************)
LEMMA ContentsAre ==
  ASSUME TypeOK
  PROVE  /\ Contents \in Seq(Byte)
         /\ Len(Contents) = Count(tail)
         /\ \A i \in 1 .. Count(tail) : Contents[i] = buf[Place(head, i)]
<1>1. Contents = [i \in 1 .. Count(tail) |-> buf[Place(head, i)]]
  BY DEF Contents, Place
<1>2. ASSUME NEW i \in 1 .. Count(tail)
      PROVE  buf[Place(head, i)] \in Byte
  <2>1. i \in 1 .. NBytes
    BY Numbers
  <2> QED
    BY <2>1, Numbers, PlaceIs
<1>3. Contents \in [1 .. Count(tail) -> Byte]
  BY <1>1, <1>2
<1>4. Contents \in Seq(Byte)
  BY <1>3, Numbers
<1> QED
  BY <1>1, <1>3, <1>4, Numbers, LenProperties

\* As many bytes, in the same places, are the same contents.
LEMMA SameContents ==
  ASSUME UNCHANGED <<head, tail>>, ContentsKept
  PROVE  Contents' = Contents
<1>1. Contents = [i \in 1 .. Count(tail) |-> buf[Place(head, i)]]
  BY DEF Contents, Place
<1>2. Contents' = [i \in 1 .. Count(tail) |-> buf'[Place(head, i)]]
  BY DEF Contents, Place, Count
<1> QED
  BY <1>1, <1>2 DEF ContentsKept

\* A Put takes effect when it moves the tail.
LEMMA PutRefines ==
  ASSUME CircBufInv, PutUpdateTail
  PROVE  IsFifo!Put(put.data)
<1> DEFINE k == Len(put.data)
<1>1. TypeOK /\ TypeOK' /\ PutFits /\ PutCopied /\ put.pc = "update"
  BY PutUpdateTailInv DEF CircBufInv, PutUpdateTail
<1>2. buf' = buf /\ head' = head /\ got' = got
  BY DEF PutUpdateTail
<1>3. Count(tail)' = Count(tail) + k /\ k + Count(tail) <= NBytes - 1 /\ k \in Nat
  BY <1>1, PutUpdateTailInv, Numbers DEF PutFits
<1>4. /\ Contents' \in Seq(Byte) /\ Len(Contents') = Count(tail) + k
      /\ \A i \in 1 .. Count(tail) + k : Contents'[i] = buf[Place(head, i)]
  <2>1. /\ Contents' \in Seq(Byte) /\ Len(Contents') = Count(tail)'
        /\ \A i \in 1 .. Count(tail)' : Contents'[i] = buf'[Place(head, i)']
    <3>1. (TypeOK => /\ Contents \in Seq(Byte) /\ Len(Contents) = Count(tail)
                    /\ \A i \in 1 .. Count(tail) : Contents[i] = buf[Place(head, i)])'
      BY ContentsAre, PTL
    <3> QED
      BY <1>1, <3>1
  <2>2. \A i : Place(head, i)' = Place(head, i)
    BY <1>2 DEF Place
  <2> QED
    BY <1>2, <1>3, <2>1, <2>2
<1>5. /\ Contents \in Seq(Byte) /\ Len(Contents) = Count(tail)
      /\ \A i \in 1 .. Count(tail) : Contents[i] = buf[Place(head, i)]
  BY <1>1, ContentsAre
<1>6. \A i \in 1 .. k : buf[Place(head, Count(tail) + i)] = put.data[i]
  BY <1>1, PutUpdateTailInv DEF PutCopied
<1>7. put.data \in Seq(Byte) /\ Count(tail) \in Nat
  BY <1>1, Numbers
<1> DEFINE both == Contents \o put.data
<1>8. /\ both \in Seq(Byte) /\ Len(both) = Count(tail) + k
      /\ \A i \in 1 .. Count(tail) + k :
           both[i] = IF i <= Count(tail) THEN Contents[i] ELSE put.data[i - Count(tail)]
  <2> DEFINE c == Contents
             d == put.data
  <2>1. c \in Seq(Byte) /\ d \in Seq(Byte) /\ Len(c) = Count(tail) /\ Len(d) = k
    BY <1>5, <1>7
  <2> HIDE DEF c, d, k
  <2>2. /\ c \o d \in Seq(Byte) /\ Len(c \o d) = Len(c) + Len(d)
        /\ \A i \in 1 .. Len(c) + Len(d) :
             (c \o d)[i] = IF i <= Len(c) THEN c[i] ELSE d[i - Len(c)]
    BY <2>1, ConcatProperties
  <2>3. /\ c \o d \in Seq(Byte) /\ Len(c \o d) = Count(tail) + k
        /\ \A i \in 1 .. Count(tail) + k :
             (c \o d)[i] = IF i <= Count(tail) THEN c[i] ELSE d[i - Count(tail)]
    BY <2>1, <2>2
  <2> QED
    BY <2>3 DEF c, d
<1> HIDE DEF both, k
<1>9. ASSUME NEW i \in 1 .. Count(tail) + k
      PROVE  Contents'[i] = both[i]
  <2>1. CASE i <= Count(tail)
    <3>1. i \in 1 .. Count(tail)
      BY <1>7, <2>1
    <3> QED
      BY <1>4, <1>5, <1>8, <2>1, <3>1
  <2>2. CASE i > Count(tail)
    <3>1. i - Count(tail) \in 1 .. k /\ Count(tail) + (i - Count(tail)) = i /\ ~(i <= Count(tail))
      BY <1>3, <1>7, <2>2
    <3> QED
      BY <1>4, <1>6, <1>8, <3>1
  <2> QED
    BY <1>7, <2>1, <2>2
<1>10. Contents' = both
  BY <1>4, <1>8, <1>9, SeqEqual
<1>11. Len(Contents) + k <= NBytes - 1
  BY <1>3, <1>5, <1>7
<1> QED
  BY <1>2, <1>10, <1>11 DEF IsFifo!Put, both, k

\* A Get takes effect when it moves the head.
LEMMA GetRefines ==
  ASSUME CircBufInv, GetUpdateHead
  PROVE  IsFifo!Get(get.nbytes) /\ get.nbytes \in 1 .. NBytes - 1
<1> DEFINE n == get.nbytes
           c == Count(tail)
<1>1. TypeOK /\ TypeOK' /\ GetFits /\ GetCopied /\ get.pc = "update"
  BY GetUpdateHeadInv DEF CircBufInv, GetUpdateHead
<1>2. buf' = buf /\ got' = get.data
  BY DEF GetUpdateHead
<1>3. n \in 1 .. c /\ c \in Nat /\ c <= NBytes - 1 /\ n \in Nat /\ c - n \in Nat
  BY <1>1, Numbers DEF GetFits
<1>4. /\ Contents' \in Seq(Byte) /\ Len(Contents') = c - n
      /\ \A i \in 1 .. c - n : Contents'[i] = buf[Place(head, n + i)]
  <2>1. /\ Contents' \in Seq(Byte) /\ Len(Contents') = Count(tail)'
        /\ \A i \in 1 .. Count(tail)' : Contents'[i] = buf'[Place(head, i)']
    <3>1. (TypeOK => /\ Contents \in Seq(Byte) /\ Len(Contents) = Count(tail)
                    /\ \A i \in 1 .. Count(tail) : Contents[i] = buf[Place(head, i)])'
      BY ContentsAre, PTL
    <3> QED
      BY <1>1, <3>1
  <2>2. /\ Count(tail)' = c - n
        /\ \A i \in 1 .. c - n : Place(head, i)' = Place(head, n + i)
    BY GetUpdateHeadInv
  <2> QED
    BY <1>2, <2>1, <2>2
<1>5. /\ Contents \in Seq(Byte) /\ Len(Contents) = c
      /\ \A i \in 1 .. c : Contents[i] = buf[Place(head, i)]
  BY <1>1, ContentsAre
<1>6. /\ get.data \in Seq(Byte) /\ Len(get.data) = n
      /\ \A i \in 1 .. n : get.data[i] = buf[Place(head, i)]
  BY <1>1 DEF GetCopied, TypeOK
<1> HIDE DEF n, c
<1>7. \A i \in 1 .. c : Contents[i] \in Byte
  BY <1>5, ElementOfSeq
<1>8. SubSeq(Contents, 1, n) = get.data
  <2>1. \A i \in 1 .. n : Contents[i] \in Byte
    BY <1>3, <1>7
  <2>2. /\ SubSeq(Contents, 1, n) \in Seq(Byte) /\ Len(SubSeq(Contents, 1, n)) = n
        /\ \A i \in 1 .. n : SubSeq(Contents, 1, n)[i] = Contents[i]
    BY <1>3, <2>1, SubSeqProperties
  <2>3. \A i \in 1 .. n : SubSeq(Contents, 1, n)[i] = get.data[i]
    BY <1>3, <1>5, <1>6, <2>2
  <2> QED
    BY <1>6, <2>2, <2>3, SeqEqual
<1>9. SubSeq(Contents, n + 1, c) = Contents'
  <2>1. \A i \in n + 1 .. c : Contents[i] \in Byte
    BY <1>3, <1>7
  <2> DEFINE rest == SubSeq(Contents, n + 1, c)
  <2>2. /\ rest \in Seq(Byte)
        /\ Len(rest) = IF n + 1 <= c THEN c - (n + 1) + 1 ELSE 0
        /\ \A i \in 1 .. c - (n + 1) + 1 : rest[i] = Contents[n + 1 + i - 1]
    <3>1. n + 1 \in Int /\ c \in Int
      BY <1>3
    <3> QED
      BY <2>1, <3>1, SubSeqProperties
  <2> HIDE DEF rest
  <2>3. Len(rest) = c - n
    BY <1>3, <2>2
  <2>4. ASSUME NEW i \in 1 .. c - n
        PROVE  rest[i] = Contents'[i]
    <3>1. i \in 1 .. c - (n + 1) + 1 /\ n + 1 + i - 1 = n + i /\ n + i \in 1 .. c
      BY <1>3
    <3> QED
      BY <1>4, <1>5, <2>2, <3>1
  <2>5. rest = Contents'
    BY <1>4, <2>2, <2>3, <2>4, SeqEqual
  <2> QED
    BY <2>5 DEF rest
<1>10. n <= Len(Contents) /\ Len(Contents) = c
  BY <1>3, <1>5
<1>11. IsFifo!Get(n)
  BY <1>2, <1>8, <1>9, <1>10 DEF IsFifo!Get
<1> QED
  BY <1>3, <1>11 DEF n

LEMMA StepRefines == CircBufInv /\ [Next]_vars => [IsFifo!Next]_<<Contents, got>>
<1> SUFFICES ASSUME CircBufInv, [Next]_vars PROVE [IsFifo!Next]_<<Contents, got>>
  OBVIOUS
<1>1. CASE UNCHANGED <<buf, head, tail, got>>
  BY <1>1 DEF Contents, Count
<1>2. CASE PutCopy
  <2>1. UNCHANGED <<head, tail, got>>
    BY <1>2 DEF PutCopy
  <2> QED
    BY <1>2, <2>1, PutCopyInv, SameContents
<1>3. CASE PutWrap
  <2>1. UNCHANGED <<head, tail, got>>
    BY <1>3 DEF PutWrap
  <2> QED
    BY <1>3, <2>1, PutWrapInv, SameContents
<1>4. CASE PutUpdateTail
  <2>1. put.data \in Blocks
    BY <1>4 DEF CircBufInv, PutFits, PutUpdateTail
  <2> QED
    BY <1>4, <2>1, PutRefines DEF IsFifo!Next
<1>5. CASE GetUpdateHead
  BY <1>5, GetRefines DEF IsFifo!Next
<1> QED
  BY <1>1, <1>2, <1>3, <1>4, <1>5
  DEF Next, vars, PutBegin, PutRefused, GetBegin, GetNothing, GetCopy, GetWrap

\* ciaaLibs_CircBuf.h: the buffer holds up to size - 1 bytes; a Put and a Get
\* that interleave without a lock are those of a queue.
THEOREM BufferIsFifo == Spec => ImplementsFifo
<1>1. Init => IsFifo!Init
  <2> SUFFICES ASSUME Init PROVE Contents = <<>> /\ got = <<>>
    BY DEF IsFifo!Init
  <2>1. TypeOK
    BY InitInv DEF CircBufInv
  <2>2. Count(tail) = 0
    BY <2>1, Numbers DEF Init
  <2>3. Contents \in Seq(Byte) /\ Len(Contents) = 0
    BY <2>1, <2>2, ContentsAre
  <2> QED
    BY <2>3, EmptySeq DEF Init
<1> QED
  BY <1>1, StepRefines, CircBufInvariant, PTL DEF Spec, ImplementsFifo, IsFifo!Spec
=============================================================================
