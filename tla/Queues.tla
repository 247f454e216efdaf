------------------------------- MODULE Queues -------------------------------
(***************************************************************************)
(* A vocabulary for queues held as sequences, oldest entry first.          *)
(***************************************************************************)
EXTENDS Naturals, Sequences, FiniteSets

\* The positions at which an element stands in a queue.
Occurrences(queue, e) == {i \in DOMAIN queue : queue[i] = e}
=============================================================================
