------------------------------ MODULE Content ------------------------------
(***************************************************************************)
(* File contents as the handlers of ulfs/scpfs.cpp see them: a sequence of *)
(* blocks.  A block stands for one iteration of a copy loop (8192 bytes on *)
(* the way in, 1024 on the way out) or for one pwrite.                     *)
(***************************************************************************)
EXTENDS Naturals, Sequences

CONSTANTS Block,  \* the block values clients write
          Zero    \* the block a hole reads as

ASSUME ZeroIsBlock == Zero \in Block

\* pwrite/write/sftp_write of one block at offset k: extends the file when k
\* is at or past its end, filling the hole with zeros.
WriteAt(c, k, b) ==
  [i \in 1..(IF k < Len(c) THEN Len(c) ELSE k + 1) |->
     IF i = k + 1 THEN b ELSE IF i <= Len(c) THEN c[i] ELSE Zero]

\* truncate/ftruncate to n blocks: cuts, or extends with zeros.
Resize(c, n) == [i \in 1..n |-> IF i <= Len(c) THEN c[i] ELSE Zero]
=============================================================================
