----------------------------- MODULE MCCircBuf -----------------------------
(***************************************************************************)
(* An instance of CircBuf for TLC: the smallest array, blocks from one     *)
(* byte to as many as the buffer holds.                                    *)
(***************************************************************************)
EXTENDS CircBuf

\* No block reads like a shifted part of another at the place they meet.
MCBlocks == {<<1>>, <<1, 2, 3>>, <<2, 1, 3, 3, 2>>, <<3, 2, 1, 2, 3, 1, 1>>, <<>>}
=============================================================================
