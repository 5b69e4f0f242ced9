---------------------------- MODULE MCRecordStore ----------------------------
(* RecordStore with interchangeable sessions, for TLC.                       *)
EXTENDS RecordStore, TLC

Symmetry == Permutations(Sessions)
=============================================================================
