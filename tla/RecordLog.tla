------------------------------ MODULE RecordLog ------------------------------
(***************************************************************************)
(* What the recording of the proxy promises: a log that is written later.  *)
(* Records wait in the order they come, are kept in that order, each once, *)
(* and a lossy log may drop records that wait, never one that is kept.     *)
(***************************************************************************)
EXTENDS Integers, Sequences, SequencesExt

CONSTANTS Records,
          Lossy

VARIABLES pending,  \* the records that wait
          kept      \* those written

vars == <<pending, kept>>

Record(r) ==
    /\ pending' = Append(pending, r)
    /\ UNCHANGED kept

Keep(n) ==
    /\ kept' = kept \o SubSeq(pending, 1, n)
    /\ pending' = SubSeq(pending, n + 1, Len(pending))

Drop(n) ==
    /\ Lossy
    /\ pending' = RemoveAt(pending, n)
    /\ UNCHANGED kept

\* Dropping any number of the first.
DropFirst(n) ==
    /\ Lossy
    /\ pending' = SubSeq(pending, n + 1, Len(pending))
    /\ UNCHANGED kept

Init == pending = <<>> /\ kept = <<>>

Next ==
    \/ \E r \in Records : Record(r)
    \/ \E n \in 1..Len(pending) : Keep(n) \/ Drop(n) \/ DropFirst(n)

Spec == Init /\ [][Next]_vars
=============================================================================
