-------------------------------- MODULE Fifo --------------------------------
(***************************************************************************)
(* What a byte buffer between one writer and one reader promises: whole    *)
(* blocks go in, if they fit, and the oldest bytes come out.               *)
(***************************************************************************)
EXTENDS Naturals, Sequences

CONSTANTS
  Blocks,    \* what the writer may put, sequences of bytes
  Capacity   \* the bytes the buffer holds at most

VARIABLES
  queue,   \* the bytes put and not yet got, oldest first
  got      \* what the last Get returned

Init == queue = <<>> /\ got = <<>>

Put(block) ==
  /\ Len(queue) + Len(block) <= Capacity
  /\ queue' = queue \o block
  /\ UNCHANGED got

Get(n) ==
  /\ n <= Len(queue)
  /\ got' = SubSeq(queue, 1, n)
  /\ queue' = SubSeq(queue, n + 1, Len(queue))

Next ==
  \/ \E block \in Blocks : Put(block)
  \/ \E n \in 1 .. Capacity : Get(n)

Spec == Init /\ [][Next]_<<queue, got>>
=============================================================================
