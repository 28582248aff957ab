------------------------------- MODULE MCUpload -------------------------------
(* Instances of Upload for TLC.                                            *)
EXTENDS Upload, TLC

(* Two blobs that make up a file of two bytes.                             *)
Halves == {[pos |-> 0, len |-> 1], [pos |-> 1, len |-> 1]}

(* A file of one byte, in a blob of its own.                               *)
Single == {[pos |-> 0, len |-> 1]}

(* A file of two bytes in one large blob, or its first byte in a small one, *)
(* for a HighWaterMark of 2.                                               *)
LargeOrSmall == {[pos |-> 0, len |-> 2], [pos |-> 0, len |-> 1]}

(* A small blob at a negative position.                                    *)
Before == {[pos |-> -1, len |-> 1]}

HalvesOrBefore == Halves \cup Before

LargeSmallOrBefore == LargeOrSmall \cup Before

(* A size may be anything a client says.                                   *)
NegativeOrTwo == {-1, 2}

Symmetry == Permutations(Keys) \cup Permutations(Drains) \cup Permutations(Requests)
=============================================================================
