------------------------- MODULE LiveReplay_proofs -------------------------
(***************************************************************************)
(* Proofs about the way of a recording.  RecordStore and LiveReplay, for   *)
(* any number of sessions and records, any page size, with and without     *)
(* failures and renames: the recording is one log, a session's records     *)
(* stay in order, and a reading by offset follows the file.  ReplayClock,  *)
(* for any times and messages: a user of an agent keeps the recorded       *)
(* distances.                                                              *)
(***************************************************************************)
EXTENDS LiveReplay, ReplayClock, SequenceTheorems, FiniteSetTheorems, TLAPS

-----------------------------------------------------------------------------
(* Sequences.                                                               *)

\* Concatenation is associative, for sequences of records.
LEMMA Associative == \A s, t, u \in Seq(Records) : (s \o t) \o u = s \o (t \o u)
  BY ConcatAssociative

\* A concatenation is as long as its parts.
LEMMA Concatenated ==
    \A s, t \in Seq(Records) : s \o t \in Seq(Records) /\ Len(s \o t) = Len(s) + Len(t)
  BY ConcatProperties

\* The first element of a rest, and what is left after it.
LEMMA RestStep ==
    ASSUME NEW S, NEW s \in Seq(S), NEW d \in 0..(Len(s) - 1)
    PROVE  SubSeq(s, d + 1, Len(s)) = <<s[d + 1]>> \o SubSeq(s, d + 2, Len(s))
<1>1. d + 1 \in 1..Len(s) /\ Len(s) \in (d + 1)..Len(s)
  OBVIOUS
<1> QED
  BY <1>1, SubSeqRecursiveFirst

\* Nothing is left behind the end.
LEMMA RestEmpty ==
    ASSUME NEW S, NEW s \in Seq(S)
    PROVE  SubSeq(s, Len(s) + 1, Len(s)) = <<>>
  BY SubSeqEmpty

\* A rest is a sequence.
LEMMA RestType ==
    ASSUME NEW S, NEW s \in Seq(S), NEW m \in Nat \ {0}, NEW n \in 0..Len(s)
    PROVE  SubSeq(s, m, n) \in Seq(S)
<1>1. \A i \in m..n : s[i] \in S
  BY ElementOfSeq
<1> QED
  BY <1>1, SubSeqProperties

\* A sequence begins with n of its elements and goes on with the others.
LEMMA Split ==
    ASSUME NEW S, NEW s \in Seq(S), NEW n \in 0..Len(s)
    PROVE  SubSeq(s, 1, n) \o SubSeq(s, n + 1, Len(s)) = s
<1> DEFINE one == 1
<1>1. one \in 1..(Len(s) + 1) /\ n \in (one - 1)..Len(s) /\ Len(s) \in n..Len(s)
  BY LenProperties
<1>2. SubSeq(s, one, n) \o SubSeq(s, n + 1, Len(s)) = SubSeq(s, one, Len(s))
  <2> HIDE DEF one
  <2> QED  BY <1>1, ConcatAdjacentSubSeq
<1> QED
  BY <1>2, SubSeqFull

\* The parts of a concatenation.
LEMMA Parts ==
    ASSUME NEW S, NEW s \in Seq(S), NEW t \in Seq(S)
    PROVE  /\ SubSeq(s \o t, 1, Len(s)) = s
           /\ SubSeq(s \o t, Len(s) + 1, Len(s \o t)) = t
<1>1. s \o t \in Seq(S) /\ Len(s \o t) = Len(s) + Len(t)
  BY ConcatProperties
<1>2. SubSeq(s \o t, 1, Len(s)) = s
  <2>1. /\ SubSeq(s \o t, 1, Len(s)) \in Seq(S)
        /\ Len(SubSeq(s \o t, 1, Len(s))) = Len(s)
        /\ \A i \in 1..Len(s) : SubSeq(s \o t, 1, Len(s))[i] = (s \o t)[i]
    <3>1. \A i \in 1..Len(s) : (s \o t)[i] \in S
      BY <1>1, ElementOfSeq
    <3> QED
      BY <3>1, SubSeqProperties
  <2>2. \A i \in 1..Len(s) : (s \o t)[i] = s[i]
    BY ConcatProperties
  <2> QED
    BY <2>1, <2>2, SeqEqual
<1>3. SubSeq(s \o t, Len(s) + 1, Len(s \o t)) = t
  <2> DEFINE u == SubSeq(s \o t, Len(s) + 1, Len(s) + Len(t))
  <2>1. /\ u \in Seq(S)
        /\ Len(u) = Len(t)
        /\ \A i \in 1..Len(t) : u[i] = (s \o t)[Len(s) + i]
    <3>1. \A i \in (Len(s) + 1)..(Len(s) + Len(t)) : (s \o t)[i] \in S
      BY <1>1, ElementOfSeq
    <3> QED
      BY <3>1, SubSeqProperties
  <2>2. \A i \in 1..Len(t) : (s \o t)[Len(s) + i] = t[i]
    BY ConcatProperties
  <2> QED
    BY <1>1, <2>1, <2>2, SeqEqual
<1> QED
  BY <1>2, <1>3

\* Leaving out the element between two parts.
LEMMA RemoveMiddle ==
    ASSUME NEW S, NEW s \in Seq(S), NEW e \in S, NEW t \in Seq(S)
    PROVE  RemoveAt(s \o (<<e>> \o t), Len(s) + 1) = s \o t
<1> DEFINE u == <<e>> \o t
<1>1. <<e>> \in Seq(S) /\ Len(<<e>>) = 1
  OBVIOUS
<1>2. u \in Seq(S) /\ Len(u) = Len(t) + 1
  BY <1>1, ConcatProperties
<1>3. SubSeq(s \o u, 1, Len(s)) = s
  BY <1>2, Parts
<1>4. SubSeq((s \o <<e>>) \o t, Len(s \o <<e>>) + 1, Len((s \o <<e>>) \o t)) = t
  BY <1>1, ConcatProperties, Parts
<1>5. Len(s \o <<e>>) = Len(s) + 1 /\ (s \o <<e>>) \o t = s \o u
  BY <1>1, ConcatProperties, ConcatAssociative
<1>6. (Len(s) + 1) - 1 = Len(s)
  BY LenProperties
<1>7. SubSeq(s \o u, Len(s) + 1 + 1, Len(s \o u)) = t
  BY <1>4, <1>5
<1> HIDE DEF u
<1>8. RemoveAt(s \o u, Len(s) + 1) = s \o t
  BY <1>3, <1>6, <1>7, Zenon DEF RemoveAt
<1> QED
  BY <1>8 DEF u

\* An element between what is before it and two parts behind it may be moved to
\* what is before it, left out, or be the first.
Between(a, e, b, c) ==
    LET all == (a \o (<<e>> \o b)) \o c IN
    /\ Len(a) + 1 \in 1..Len(all)
    /\ (Append(a, e) \o b) \o c = all
    /\ RemoveAt(all, Len(a) + 1) = (a \o b) \o c
    /\ a = <<>> => /\ SubSeq(all, 1, 1) = <<e>>
                   /\ SubSeq(all, 1 + 1, Len(all)) = (a \o b) \o c

\* Between holds for all sequences of records.
LEMMA Middle == \A a, b, c \in Seq(Records) : \A e \in Records : Between(a, e, b, c)
<1> SUFFICES ASSUME NEW a \in Seq(Records), NEW b \in Seq(Records), NEW c \in Seq(Records), NEW e \in Records
             PROVE  Between(a, e, b, c)
  OBVIOUS
<1> DEFINE S == Records
<1> HIDE DEF S
<1>0. a \in Seq(S) /\ b \in Seq(S) /\ c \in Seq(S) /\ e \in S
  BY DEF S
<1> DEFINE one  == <<e>>
           bc   == b \o c
           ob   == one \o b
           tail == one \o bc
           all  == (a \o ob) \o c
<1>1. one \in Seq(S) /\ Len(one) = 1
  BY <1>0
<1>2. Append(a, e) = a \o one
  BY <1>0, AppendIsConcat
<1> HIDE DEF one
<1>3. /\ bc \in Seq(S) /\ ob \in Seq(S)
      /\ Len(bc) \in Nat /\ Len(a) \in Nat
  BY <1>0, <1>1, ConcatProperties, LenProperties
<1>4. ob \o c = tail
  BY <1>0, <1>1, ConcatAssociative
<1> HIDE DEF bc
<1>5. tail \in Seq(S) /\ Len(tail) = 1 + Len(bc)
  BY <1>0, <1>1, <1>3, ConcatProperties
<1>6. (a \o one) \o b = a \o ob
  BY <1>0, <1>1, ConcatAssociative
<1>7. SubSeq(tail, 1, Len(one)) = one /\ SubSeq(tail, Len(one) + 1, Len(tail)) = bc
  BY <1>0, <1>1, <1>3, Parts
<1>8. RemoveAt(a \o tail, Len(a) + 1) = a \o bc
  BY <1>0, <1>3, RemoveMiddle DEF one
<1> HIDE DEF ob, tail
<1>9. all = a \o tail
  <2>1. (a \o ob) \o c = a \o (ob \o c)
    BY <1>0, <1>3, ConcatAssociative
  <2> QED
    BY <1>0, <1>4, <2>1
<1>10. (a \o b) \o c = a \o bc
  BY <1>0, ConcatAssociative DEF bc
<1>11. Len(all) = Len(a) + (1 + Len(bc))
  BY <1>0, <1>5, <1>9, ConcatProperties
<1> HIDE DEF all
<1>12. Len(a) + 1 \in 1..Len(all)
  BY <1>0, <1>3, <1>11
<1>13. (Append(a, e) \o b) \o c = all
  BY <1>0, <1>2, <1>6 DEF all
<1>14. RemoveAt(all, Len(a) + 1) = (a \o b) \o c
  BY <1>0, <1>8, <1>9, <1>10
<1>15. ASSUME a = <<>>
       PROVE  SubSeq(all, 1, 1) = one /\ SubSeq(all, 1 + 1, Len(all)) = (a \o b) \o c
  <2>1. all = tail /\ (a \o b) \o c = bc
    BY <1>0, <1>3, <1>5, <1>9, <1>10, <1>15, ConcatEmptySeq
  <2> QED
    BY <1>0, <1>1, <1>7, <2>1
<1>16. all = (a \o (<<e>> \o b)) \o c
  BY DEF all, ob, one
<1> QED
  BY <1>0, <1>12, <1>13, <1>14, <1>15, <1>16 DEF one, Between

-----------------------------------------------------------------------------
(* Types and files of the store.                                            *)

\* A thread about to append has taken a time.
InHand == \A s \in Sessions : pc[s] = "push" => inHand[s] # 0

\* The old list is empty except during a flush, a transaction has rows only while
\* it is open, and the connection is closed only by a rename, without which every
\* flush has a transaction.
Files ==
    /\ fpc \in {"idle", "swap"} => lists[newrecordList] = <<>>
    /\ mysql # "begun" => txn = <<>>
    /\ rpc \in {"rename", "open"} <=> mysql = "closed"
    /\ rpc # "none" => Renames
    /\ fpc = "insert" /\ ~Renames => mysql = "begun"

Store == TypeOK /\ InHand /\ Files

\* The initial state satisfies the types and what is known of the files.
LEMMA StoreInit == Init => Store
<1> SUFFICES ASSUME Init PROVE Store
  OBVIOUS
<1>0. <<>> \in Seq(Records) /\ Len(<<>>) = 0
  BY EmptySeq
<1>1. TypeOK
  <2>1. lists \in [{"A", "B"} -> Seq(Records)] /\ lists[newrecordList] = <<>>
    BY <1>0 DEF Init, newrecordList
  <2>2. done \in 0..Len(lists[newrecordList])
    BY <1>0, <2>1 DEF Init
  <2>3. txn \in Seq(Records) /\ data \in Seq(Records) /\ renamed \in Seq(Records)
    BY <1>0 DEF Init
  <2>4. now \in 0..MaxTime /\ inHand \in [Sessions -> 0..MaxTime]
    BY TimeAssumption DEF Init
  <2>5. pc \in [Sessions -> {"idle", "record", "push"}]
    BY DEF Init
  <2> QED
    BY <2>1, <2>2, <2>3, <2>4, <2>5 DEF Init, TypeOK
<1>2. InHand /\ Files
  BY DEF Init, InHand, Files, newrecordList
<1> QED
  BY <1>1, <1>2 DEF Store

\* Relaying threads keep the types.
LEMMA RelayStore ==
    ASSUME Store, NEW s \in Sessions, Relay(s)
    PROVE  Store'
<1> USE DEF Store, TypeOK, InHand, Files, newrecordList, fileVars, writeVars
<1>1. CASE RecordOn(s)
  BY <1>1 DEF RecordOn
<1>2. CASE TakeTime(s)
  BY <1>2, TimeAssumption DEF TakeTime
<1>3. CASE NoMemory(s)
  BY <1>3 DEF NoMemory
<1>4. CASE insert_msg_to_record_list(s)
  <2> DEFINE r == [time |-> inHand[s], session |-> s]
  <2>1. r \in Records
    BY <1>4 DEF insert_msg_to_record_list, Records
  <2>2. Append(lists[recordList], r) \in Seq(Records)
    BY <2>1, AppendProperties
  <2>3. lists' = [lists EXCEPT ![recordList] = Append(@, r)]
    BY <1>4 DEF insert_msg_to_record_list
  <2>4. lists' \in [{"A", "B"} -> Seq(Records)] /\ lists'[newrecordList] = lists[newrecordList]
    <3> HIDE DEF r
    <3> QED  BY <2>2, <2>3
  <2>5. UNCHANGED <<Proxy_record, now, recordList, fpc, done, fileVars, rpc, reading, newrecordList>>
    BY <1>4 DEF insert_msg_to_record_list
  <2>6. pc' \in [Sessions -> {"idle", "record", "push"}] /\ inHand' \in [Sessions -> 0..MaxTime]
    BY <1>4, TimeAssumption DEF insert_msg_to_record_list
  <2>7. InHand'
    BY <1>4 DEF insert_msg_to_record_list
  <2> HIDE DEF r
  <2>8. TypeOK'
    BY <2>4, <2>5, <2>6
  <2>9. Files'
    BY <2>4, <2>5
  <2> QED
    BY <2>7, <2>8, <2>9
<1> QED
  BY <1>1, <1>2, <1>3, <1>4 DEF Relay

\* The main loop keeps the types, and empties the old list.
LEMMA FlushStore ==
    ASSUME Store, insert_msg_recodr_db
    PROVE  Store'
<1> DEFINE old == lists[newrecordList]
<1>0. old \in Seq(Records) /\ Len(old) \in Nat /\ recordList \in {"A", "B"}
  BY LenProperties DEF Store, TypeOK, newrecordList
<1> USE DEF Store, TypeOK, InHand, Files, newrecordList, fileVars, writeVars
<1>1. CASE TestSize
  BY <1>1 DEF TestSize
<1>2. CASE SwapLists
  <2>1. lists[recordList] \in Seq(Records) /\ 0 \in 0..Len(lists[recordList])
    BY LenProperties
  <2> QED
    BY <1>2, <2>1 DEF SwapLists
<1>3. CASE Begin
  BY <1>3 DEF Begin
<1>4. CASE insert_table
  <2>1. done + 1 \in 0..Len(old) /\ old[done + 1] \in Records
    BY <1>0, <1>4, ElementOfSeq DEF insert_table
  <2>2. Append(txn, old[done + 1]) \in Seq(Records) /\ Append(data, old[done + 1]) \in Seq(Records)
    BY <2>1, AppendProperties
  <2>3. txn' \in Seq(Records) /\ data' \in Seq(Records) /\ (mysql # "begun" => txn' = txn)
    BY <1>4, <2>2 DEF insert_table
  <2>4. done' = done + 1
    BY <1>4 DEF insert_table
  <2>5. UNCHANGED <<Proxy_record, now, pc, inHand, lists, recordList, fpc, mysql, renamed, rpc, reading, newrecordList>>
    BY <1>4 DEF insert_table
  <2> HIDE DEF old
  <2>6. TypeOK'
    BY <2>1, <2>3, <2>4, <2>5 DEF old
  <2>7. InHand' /\ Files'
    BY <2>3, <2>5
  <2> QED
    BY <2>6, <2>7
<1>5. CASE Commit
  <2>1. data \o txn \in Seq(Records) /\ <<>> \in Seq(Records) /\ Len(<<>>) = 0
    BY ConcatProperties
  <2>2. lists' \in [{"A", "B"} -> Seq(Records)] /\ lists'[newrecordList] = <<>>
    BY <1>0, <1>5, <2>1 DEF Commit
  <2>3. txn' \in Seq(Records) /\ data' \in Seq(Records)
    BY <1>5, <2>1 DEF Commit
  <2>4. mysql' \in {"open", "begun", "closed"} /\ (mysql' # "begun" => txn' = <<>>) /\ (mysql' = "closed" <=> mysql = "closed")
    BY <1>5 DEF Commit
  <2>5. done' = 0 /\ fpc' = "idle"
    BY <1>5 DEF Commit
  <2>6. UNCHANGED <<Proxy_record, now, pc, inHand, recordList, renamed, rpc, reading, newrecordList>>
    BY <1>5 DEF Commit
  <2>9. done' \in 0..Len(lists'[newrecordList']) /\ Proxy_record' \in BOOLEAN
    BY <2>1, <2>2, <2>5, <2>6
  <2>7. TypeOK'
    BY <2>2, <2>3, <2>4, <2>5, <2>6, <2>9
  <2>8. InHand' /\ Files'
    BY <2>2, <2>4, <2>5, <2>6
  <2> QED
    BY <2>7, <2>8
<1> QED
  BY <1>1, <1>2, <1>3, <1>4, <1>5 DEF insert_msg_recodr_db

\* Consoles and readers keep the types.
LEMMA ConsoleStore ==
    ASSUME Store, Console \/ BeginRead \/ EndRead
    PROVE  Store'
<1> USE DEF Store, TypeOK, InHand, Files, newrecordList, fileVars, writeVars
<1>1. ASSUME NEW record \in BOOLEAN, do_proxy_record_chang(record)
      PROVE  Store'
  BY <1>1 DEF do_proxy_record_chang
<1>2. CASE ChangeDatabaseName
  BY <1>2 DEF ChangeDatabaseName
<1>3. CASE CloseDatabase
  BY <1>3, EmptySeq DEF CloseDatabase
<1>4. CASE RenameFile
  <2>1. renamed \o data \in Seq(Records)
    BY ConcatProperties
  <2>2. renamed' \in Seq(Records) /\ data' \in Seq(Records)
    BY <1>4, <2>1, EmptySeq DEF RenameFile
  <2> QED
    BY <1>4, <2>2 DEF RenameFile
<1>5. CASE OpenDatabase
  BY <1>5 DEF OpenDatabase
<1>6. CASE BeginRead
  BY <1>6 DEF BeginRead
<1>7. CASE EndRead
  BY <1>7 DEF EndRead
<1> QED
  BY <1>1, <1>2, <1>3, <1>4, <1>5, <1>6, <1>7 DEF Console

\* Every step keeps the types and the files.
LEMMA StoreStep == Store /\ [Next]_vars => Store'
<1> SUFFICES ASSUME Store, [Next]_vars PROVE Store'
  OBVIOUS
<1>1. CASE UNCHANGED vars
  BY <1>1 DEF vars, Store, TypeOK, InHand, Files, newrecordList, fileVars, writeVars
<1>2. CASE Next
  BY <1>2, RelayStore, FlushStore, ConsoleStore DEF Next
<1> QED
  BY <1>1, <1>2

\* The types of RecordStore, for any number of sessions and records.
THEOREM StoreTypeCorrect == Spec => []TypeOK
<1>1. Spec => []Store
  BY StoreInit, StoreStep, PTL DEF Spec
<1>2. Store => TypeOK
  BY DEF Store
<1> QED
  BY <1>1, <1>2, PTL

-----------------------------------------------------------------------------
(* The store is a log: every step of it is a step of RecordLog or leaves    *)
(* what waits and what is kept.                                             *)

\* The rest of the old list, which the flush has not dealt with.
Rest == SubSeq(lists[newrecordList], done + 1, Len(lists[newrecordList]))

\* What waits and what is kept are sequences of records.
LEMMA LogTypes ==
    ASSUME Store
    PROVE  /\ Rest \in Seq(Records)
           /\ Pending \in Seq(Records)
           /\ Kept \in Seq(Records)
           /\ Pending = (txn \o Rest) \o lists[recordList]
           /\ txn \o Rest \in Seq(Records)
<1>1. /\ lists[newrecordList] \in Seq(Records)
      /\ lists[recordList] \in Seq(Records)
      /\ done + 1 \in Nat \ {0}
      /\ Len(lists[newrecordList]) \in 0..Len(lists[newrecordList])
  BY LenProperties DEF Store, TypeOK, newrecordList
<1>2. Rest \in Seq(Records)
  BY <1>1, RestType DEF Rest
<1>3. txn \in Seq(Records) /\ data \in Seq(Records) /\ renamed \in Seq(Records)
  BY DEF Store, TypeOK
<1>4. txn \o Rest \in Seq(Records)
  BY <1>2, <1>3, ConcatProperties
<1>5. (txn \o Rest) \o lists[recordList] \in Seq(Records)
  BY <1>1, <1>4, ConcatProperties
<1>6. Pending = (txn \o Rest) \o lists[recordList]
  BY DEF Pending, Rest
<1>7. Kept \in Seq(Records)
  BY <1>3, ConcatProperties DEF Kept
<1> QED
  BY <1>2, <1>4, <1>5, <1>6, <1>7

\* A step that leaves the lists, the transaction and the files leaves the log.
LEMMA SameLog ==
    ASSUME UNCHANGED <<txn, data, renamed, lists, recordList, done>>
    PROVE  Pending' = Pending /\ Kept' = Kept /\ Rest' = Rest
  BY DEF Pending, Kept, Rest, newrecordList

\* insert_msg_to_record_list appends to what waits, whatever the flush is at.
LEMMA AppendLog ==
    ASSUME Store, NEW s \in Sessions, insert_msg_to_record_list(s)
    PROVE  /\ [time |-> inHand[s], session |-> s] \in Records
           /\ Pending' = Append(Pending, [time |-> inHand[s], session |-> s])
           /\ Kept' = Kept
<1> DEFINE r == [time |-> inHand[s], session |-> s]
<1>1. r \in Records
  BY DEF insert_msg_to_record_list, Store, TypeOK, InHand, Records
<1>2. lists[recordList] \in Seq(Records)
  BY DEF Store, TypeOK
<1>3. /\ lists'[recordList] = Append(lists[recordList], r)
      /\ lists'[newrecordList] = lists[newrecordList]
      /\ recordList' = recordList /\ newrecordList' = newrecordList /\ done' = done
      /\ UNCHANGED <<txn, data, renamed>>
  BY DEF insert_msg_to_record_list, Store, TypeOK, newrecordList, fileVars
<1> HIDE DEF r
<1>4. Pending' = (txn \o Rest) \o Append(lists[recordList], r)
  BY <1>3 DEF Pending, Rest
<1>5. <<r>> \in Seq(Records)
  BY <1>1
<1>6. Append(lists[recordList], r) = lists[recordList] \o <<r>>
  BY <1>1, <1>2, AppendIsConcat
<1> DEFINE front == txn \o Rest
<1>9. front \in Seq(Records) /\ Pending = front \o lists[recordList]
  BY LogTypes
<1>10. Pending' = front \o (lists[recordList] \o <<r>>)
  BY <1>4, <1>6
<1> HIDE DEF front
<1>7. Pending' = Pending \o <<r>>
  BY <1>2, <1>5, <1>9, <1>10, Associative
<1>8. Pending' = Append(Pending, r)
  BY <1>1, <1>7, LogTypes, AppendIsConcat
<1> QED
  BY <1>1, <1>3, <1>8 DEF Kept, r

\* The exchange of the lists leaves the log: the list that becomes the new one is
\* empty.
LEMMA SwapLog ==
    ASSUME Store, SwapLists
    PROVE  Pending' = Pending /\ Kept' = Kept
<1>1. /\ lists[newrecordList] = <<>> /\ lists[recordList] \in Seq(Records)
      /\ lists' = lists /\ recordList' = newrecordList /\ newrecordList' = recordList
      /\ done' = 0 /\ UNCHANGED <<txn, data, renamed>>
  BY DEF SwapLists, Store, TypeOK, Files, newrecordList, fileVars
<1>2. Rest = <<>>
  <2>1. done = 0
    BY <1>1 DEF Store, TypeOK
  <2> QED
    BY <1>1, <2>1, EmptySeq, RestEmpty DEF Rest
<1>3. Rest' = lists[recordList]
  BY <1>1, SubSeqFull DEF Rest
<1>4. Pending' = (txn \o lists[recordList]) \o <<>>
  BY <1>1, <1>3 DEF Pending, Rest
<1>5. Pending = (txn \o <<>>) \o lists[recordList]
  BY <1>2, LogTypes
<1>6. txn \in Seq(Records)
  BY DEF Store, TypeOK
<1>7. txn \o lists[recordList] \in Seq(Records)
  BY <1>1, <1>6, ConcatProperties
<1> QED
  BY <1>1, <1>4, <1>5, <1>6, <1>7, ConcatEmptySeq DEF Kept

\* A row of the old list is moved to the transaction, which waits as well, or
\* written, or dropped.
LEMMA InsertLog ==
    ASSUME Store, insert_table
    PROVE  \/ Pending' = Pending /\ Kept' = Kept
           \/ txn = <<>> /\ Log!Keep(1) /\ 1 \in 1..Len(Pending)
           \/ (Faults \/ Renames) /\ Log!Drop(Len(txn) + 1) /\ Len(txn) + 1 \in 1..Len(Pending)
<1> DEFINE old  == lists[newrecordList]
           row  == old[done + 1]
           left == SubSeq(old, done + 2, Len(old))
           new  == lists[recordList]
<1>1. /\ old \in Seq(Records) /\ new \in Seq(Records)
      /\ txn \in Seq(Records) /\ data \in Seq(Records) /\ renamed \in Seq(Records)
      /\ done \in 0..(Len(old) - 1) /\ Len(old) \in Nat
  BY LenProperties DEF insert_table, Store, TypeOK, newrecordList
<1>2. row \in Records /\ <<row>> \in Seq(Records)
  BY <1>1, ElementOfSeq
<1>3. left \in Seq(Records)
  BY <1>1, RestType
<1>4. Rest = <<row>> \o left
  BY <1>1, RestStep DEF Rest
<1>5. /\ lists' = lists /\ recordList' = recordList /\ newrecordList' = newrecordList
      /\ done' = done + 1 /\ renamed' = renamed /\ mysql' = mysql
  BY DEF insert_table, newrecordList
<1>6. Rest' = left
  <2>1. done + 1 + 1 = done + 2
    BY <1>1
  <2> QED
    BY <1>5, <2>1 DEF Rest
<1>7. Pending = (txn \o (<<row>> \o left)) \o new
  BY <1>4, LogTypes
<1>8. Pending' = (txn' \o left) \o new
  BY <1>5, <1>6 DEF Pending, Rest
<1>9. \/ mysql = "begun" /\ txn' = Append(txn, row) /\ UNCHANGED data
      \/ mysql = "open" /\ ~reading /\ data' = Append(data, row) /\ UNCHANGED txn
      \/ (Faults \/ mysql = "closed" \/ (mysql = "open" /\ reading)) /\ UNCHANGED <<txn, data>>
  BY DEF insert_table
<1>10. fpc = "insert"
  BY DEF insert_table
<1> DEFINE all == (txn \o (<<row>> \o left)) \o new
<1>13. row \in Records /\ left \in Seq(Records) /\ new \in Seq(Records) /\ txn \in Seq(Records)
  BY <1>1, <1>2, <1>3
<1>11. /\ Len(txn) + 1 \in 1..Len(all)
       /\ (Append(txn, row) \o left) \o new = all
       /\ RemoveAt(all, Len(txn) + 1) = (txn \o left) \o new
       /\ txn = <<>> => /\ SubSeq(all, 1, 1) = <<row>>
                        /\ SubSeq(all, 1 + 1, Len(all)) = (txn \o left) \o new
  <2> HIDE DEF old, row, left, new
  <2>1. Between(txn, row, left, new)
    BY <1>13, Middle
  <2> QED
    BY <2>1 DEF Between
<1>12. Pending = all
  BY <1>7
<1> HIDE DEF old, row, left, new, all
<1>14. CASE mysql = "begun" /\ txn' = Append(txn, row) /\ UNCHANGED data
  BY <1>5, <1>8, <1>11, <1>12, <1>14 DEF Kept
<1>15. CASE mysql = "open" /\ ~reading /\ data' = Append(data, row) /\ UNCHANGED txn
  <2>1. txn = <<>> /\ Len(txn) = 0
    BY <1>15, EmptySeq DEF Store, Files
  <2>2. Kept' = Kept \o <<row>>
    <3>1. Append(data, row) = data \o <<row>>
      BY <1>1, <1>2, AppendIsConcat
    <3>2. renamed \o (data \o <<row>>) = (renamed \o data) \o <<row>>
      BY <1>1, <1>2, Associative
    <3> QED
      BY <1>5, <1>15, <3>1, <3>2 DEF Kept
  <2>3. Log!Keep(1)
    BY <1>8, <1>11, <1>12, <1>15, <2>1, <2>2 DEF Log!Keep
  <2> QED
    BY <1>11, <1>12, <2>1, <2>3
<1>16. CASE (Faults \/ mysql = "closed" \/ (mysql = "open" /\ reading)) /\ UNCHANGED <<txn, data>>
  <2>1. Faults \/ Renames
    BY <1>10, <1>16 DEF Store, TypeOK, Files
  <2>2. Pending' = RemoveAt(Pending, Len(txn) + 1)
    BY <1>8, <1>11, <1>12, <1>16
  <2>3. Kept' = Kept
    BY <1>5, <1>16 DEF Kept
  <2>4. Log!Drop(Len(txn) + 1)
    BY <2>1, <2>2, <2>3, Zenon DEF Log!Drop, Log!RemoveAt, RemoveAt
  <2> QED
    BY <1>11, <1>12, <2>1, <2>4
<1> QED
  BY <1>9, <1>14, <1>15, <1>16

\* The commit keeps the rows of the transaction.
LEMMA CommitLog ==
    ASSUME Store, Commit
    PROVE  \/ Pending' = Pending /\ Kept' = Kept
           \/ \E n \in 1..Len(Pending) : Log!Keep(n)
<1> DEFINE new == lists[recordList]
<1>1. /\ lists[newrecordList] \in Seq(Records) /\ new \in Seq(Records)
      /\ txn \in Seq(Records) /\ data \in Seq(Records) /\ renamed \in Seq(Records)
  BY DEF Store, TypeOK, newrecordList
<1>2. Rest = <<>>
  <2>1. done = Len(lists[newrecordList])
    BY DEF Commit
  <2> QED
    BY <1>1, <2>1, RestEmpty DEF Rest
<1>3. /\ lists'[newrecordList] = <<>> /\ lists'[recordList] = lists[recordList]
      /\ recordList' = recordList /\ newrecordList' = newrecordList
      /\ done' = 0 /\ renamed' = renamed
  BY DEF Commit, Store, TypeOK, newrecordList
<1>4. Rest' = <<>>
  BY <1>3, EmptySeq, SubSeqEmpty DEF Rest
<1> HIDE DEF new
<1>5. Pending = txn \o new
  BY <1>1, <1>2, LogTypes, ConcatEmptySeq DEF new
<1>6. txn' \in Seq(Records)
  BY FlushStore DEF Store, TypeOK, insert_msg_recodr_db
<1>7. Pending' = txn' \o new
  <2>1. Pending' = (txn' \o Rest') \o lists'[recordList']
    BY DEF Pending, Rest
  <2> QED
    BY <1>3, <1>4, <1>6, <2>1, ConcatEmptySeq DEF new
<1>8. CASE UNCHANGED <<txn, data>>
  BY <1>3, <1>5, <1>7, <1>8 DEF Kept
<1>9. CASE data' = data \o txn /\ txn' = <<>> /\ txn # <<>>
  <2>1. Len(txn) \in Nat \ {0}
    BY <1>1, <1>9, EmptySeq
  <2>2. Len(Pending) = Len(txn) + Len(new) /\ Len(new) \in Nat
    BY <1>1, <1>5, ConcatProperties, LenProperties
  <2>3. Pending' = new
    BY <1>1, <1>7, <1>9, ConcatEmptySeq
  <2>4. SubSeq(Pending, 1, Len(txn)) = txn /\ SubSeq(Pending, Len(txn) + 1, Len(Pending)) = new
    BY <1>1, <1>5, Parts
  <2>5. Kept' = Kept \o txn
    BY <1>1, <1>3, <1>9, Associative DEF Kept
  <2>6. Log!Keep(Len(txn))
    BY <2>3, <2>4, <2>5 DEF Log!Keep
  <2> QED
    BY <2>1, <2>2, <2>6
<1>10. CASE data' = data \o txn /\ txn' = <<>> /\ txn = <<>>
  BY <1>1, <1>8, <1>10, ConcatEmptySeq
<1> QED
  BY <1>8, <1>9, <1>10 DEF Commit

\* Closing the database drops the open transaction; the other steps of a rename
\* leave the log.
LEMMA ConsoleLog ==
    ASSUME Store, Console \/ BeginRead \/ EndRead
    PROVE  \/ Pending' = Pending /\ Kept' = Kept
           \/ \E n \in 1..Len(Pending) : Log!DropFirst(n)
<1>1. CASE (\E record \in BOOLEAN : do_proxy_record_chang(record)) \/ ChangeDatabaseName \/ OpenDatabase
           \/ BeginRead \/ EndRead
  BY <1>1, SameLog DEF do_proxy_record_chang, ChangeDatabaseName, OpenDatabase, BeginRead, EndRead, fileVars
<1>2. CASE RenameFile
  <2>1. /\ renamed \in Seq(Records) /\ data \in Seq(Records) /\ renamed \o data \in Seq(Records)
    BY ConcatProperties DEF Store, TypeOK
  <2>2. Kept' = Kept
    BY <1>2, <2>1, ConcatEmptySeq DEF RenameFile, Kept
  <2> QED
    BY <1>2, <2>2 DEF RenameFile, Pending, newrecordList
<1>3. CASE CloseDatabase
  <2> DEFINE rest == Rest \o lists[recordList]
  <2>1. Renames
    BY <1>3 DEF CloseDatabase, Store, Files
  <2>2. /\ txn \in Seq(Records) /\ Rest \in Seq(Records) /\ lists[recordList] \in Seq(Records)
        /\ rest \in Seq(Records)
    BY LogTypes, ConcatProperties DEF Store, TypeOK
  <2>3. /\ Rest' = Rest /\ lists' = lists /\ recordList' = recordList /\ newrecordList' = newrecordList
        /\ done' = done /\ txn' = <<>> /\ Kept' = Kept
    BY <1>3 DEF CloseDatabase, Rest, newrecordList, Kept
  <2>4. Pending' = rest
    <3>1. Pending' = (<<>> \o Rest) \o lists[recordList]
      BY <2>3 DEF Pending, Rest
    <3> QED
      BY <2>2, <3>1, ConcatEmptySeq
  <2>5. Pending = txn \o rest
    BY <2>2, LogTypes, Associative
  <2> HIDE DEF rest
  <2>6. CASE txn = <<>>
    BY <2>2, <2>3, <2>4, <2>5, <2>6, ConcatEmptySeq
  <2>7. CASE txn # <<>>
    <3>1. Len(txn) \in Nat \ {0}
      BY <2>2, <2>7, EmptySeq
    <3>2. Len(Pending) = Len(txn) + Len(rest) /\ Len(rest) \in Nat
      BY <2>2, <2>5, ConcatProperties, LenProperties
    <3>3. SubSeq(Pending, Len(txn) + 1, Len(Pending)) = rest
      BY <2>2, <2>5, Parts
    <3>4. Log!DropFirst(Len(txn))
      BY <2>1, <2>3, <2>4, <3>3 DEF Log!DropFirst
    <3> QED
      BY <3>1, <3>2, <3>4
  <2> QED
    BY <2>6, <2>7
<1> QED
  BY <1>1, <1>2, <1>3 DEF Console

\* What a step of the store does to the log: nothing, a record more waits, or a
\* step of RecordLog that adds none.
LEMMA LogStep ==
    ASSUME Store, [Next]_vars
    PROVE  \/ Pending' = Pending /\ Kept' = Kept
           \/ \E s \in Sessions : insert_msg_to_record_list(s)
           \/ \E n \in 1..Len(Pending) : Log!Keep(n) \/ Log!DropFirst(n)
           \/ \E n \in 1..Len(Pending) : (Faults \/ Renames) /\ Log!Drop(n)
<1>1. CASE UNCHANGED vars
  BY <1>1, SameLog DEF vars, fileVars
<1>2. ASSUME NEW s \in Sessions, RecordOn(s) \/ TakeTime(s) \/ NoMemory(s)
      PROVE  Pending' = Pending /\ Kept' = Kept
  BY <1>2, SameLog DEF RecordOn, TakeTime, NoMemory, fileVars
<1>3. CASE TestSize \/ Begin
  BY <1>3, SameLog DEF TestSize, Begin, fileVars
<1>4. CASE SwapLists
  BY <1>4, SwapLog
<1>5. CASE insert_table
  BY <1>5, InsertLog
<1>6. CASE Commit
  BY <1>6, CommitLog
<1>7. CASE Console \/ BeginRead \/ EndRead
  BY <1>7, ConsoleLog
<1> QED
  BY <1>1, <1>2, <1>3, <1>4, <1>5, <1>6, <1>7 DEF Next, Relay, insert_msg_recodr_db

\* The lists, the exchange, the transaction and the file are the log of RecordLog:
\* whatever the interleaving of relaying threads, main loop and console, a record
\* is written once, in the order it was appended, and none is lost but by a
\* failure or a rename.
THEOREM StoreImplementsLog == Spec => LogSpec
<1>1. Init => Log!Init
  <2> SUFFICES ASSUME Init PROVE Log!Init
    OBVIOUS
  <2>1. Rest = <<>> /\ lists[recordList] = <<>> /\ txn = <<>> /\ Kept = <<>> \o <<>>
    BY SubSeqEmpty, EmptySeq DEF Init, Rest, newrecordList, Kept
  <2>2. <<>> \o <<>> = <<>>
    BY EmptySeq, ConcatEmptySeq
  <2>3. Pending = <<>>
    BY <2>1, <2>2 DEF Pending, Rest
  <2> QED
    BY <2>1, <2>2, <2>3 DEF Log!Init
<1>2. Store /\ [Next]_vars => [Log!Next]_(Log!vars)
  <2> SUFFICES ASSUME Store, [Next]_vars PROVE [Log!Next]_(Log!vars)
    OBVIOUS
  <2>1. CASE Pending' = Pending /\ Kept' = Kept
    BY <2>1 DEF Log!vars
  <2>2. ASSUME NEW s \in Sessions, insert_msg_to_record_list(s)
        PROVE  Log!Next
    BY <2>2, AppendLog DEF Log!Next, Log!Record
  <2>3. ASSUME NEW n \in 1..Len(Pending), Log!Keep(n) \/ Log!Drop(n) \/ Log!DropFirst(n)
        PROVE  Log!Next
    BY <2>3 DEF Log!Next
  <2> QED
    BY <2>1, <2>2, <2>3, LogStep
<1> QED
  BY <1>1, <1>2, StoreInit, StoreStep, PTL DEF Spec, LogSpec, Log!Spec

-----------------------------------------------------------------------------
(* The order of the records.                                                *)

\* All that was recorded and is not lost, in the order of the log.
All == Kept \o Pending

\* b is a without m elements, the first of them the k-th.
Cut(a, b) ==
    \E k \in Nat \ {0}, m \in Nat :
        /\ Len(b) = Len(a) - m
        /\ \A i \in 1..Len(b) : b[i] = a[IF i < k THEN i ELSE i + m]

\* The times in a list of records are unique and past, and grow within a session.
InOrder(all) ==
    /\ \A i \in 1..Len(all) : all[i].time <= now
    /\ \A i, j \in 1..Len(all) : i # j => all[i].time # all[j].time
    /\ \A i, j \in 1..Len(all) : i < j /\ all[i].session = all[j].session => all[i].time < all[j].time

\* The time a thread has taken is past, is that of no record, and is later than
\* those of its session.
Ahead(all) ==
    /\ \A s \in Sessions : pc[s] = "push" =>
          /\ inHand[s] \in 1..now
          /\ \A i \in 1..Len(all) :
                all[i].time # inHand[s] /\ (all[i].session = s => all[i].time < inHand[s])
    /\ \A s, t \in Sessions : pc[s] = "push" /\ pc[t] = "push" /\ s # t => inHand[s] # inHand[t]

\* Without the elements left out, a list is in order as before.
LEMMA CutInOrder ==
    ASSUME NEW a \in Seq(Records), NEW b \in Seq(Records), Cut(a, b)
    PROVE  /\ InOrder(a) => InOrder(b)
           /\ Ahead(a) => Ahead(b)
<1>1. PICK k \in Nat \ {0}, m \in Nat :
        /\ Len(b) = Len(a) - m
        /\ \A i \in 1..Len(b) : b[i] = a[IF i < k THEN i ELSE i + m]
  BY DEF Cut
<1>2. Len(a) \in Nat /\ Len(b) \in Nat
  BY LenProperties
<1> DEFINE at(i) == IF i < k THEN i ELSE i + m
<1>3. \A i \in 1..Len(b) : at(i) \in 1..Len(a) /\ b[i] = a[at(i)]
  BY <1>1, <1>2
<1>4. \A i, j \in 1..Len(b) : (i < j => at(i) < at(j)) /\ (i # j => at(i) # at(j))
  BY <1>1, <1>2
<1> HIDE DEF at
<1>5. ASSUME InOrder(a) PROVE InOrder(b)
  BY <1>3, <1>4, <1>5 DEF InOrder
<1>6. ASSUME Ahead(a) PROVE Ahead(b)
  BY <1>3, <1>6 DEF Ahead
<1> QED
  BY <1>5, <1>6

\* The records of the log are sequences of records.
LEMMA AllType == Store => All \in Seq(Records)
  BY LogTypes, Concatenated DEF All

\* Keeping records leaves all of them.
LEMMA KeepAll ==
    ASSUME Store, NEW n \in 1..Len(Pending), Log!Keep(n)
    PROVE  All' = All
<1> DEFINE head == SubSeq(Pending, 1, n)
           rest == SubSeq(Pending, n + 1, Len(Pending))
<1>1. Pending \in Seq(Records) /\ Kept \in Seq(Records)
  BY LogTypes
<1>2. n \in 0..Len(Pending) /\ Len(Pending) \in Nat
  BY <1>1, LenProperties
<1>3. head \o rest = Pending
  BY <1>1, <1>2, Split
<1>4. head \in Seq(Records) /\ rest \in Seq(Records)
  BY <1>1, <1>2, RestType
<1>5. All' = (Kept \o head) \o rest
  BY DEF All, Log!Keep
<1> HIDE DEF head, rest
<1> QED
  BY <1>1, <1>3, <1>4, <1>5, Associative DEF All

\* The elements of a concatenation, in sequences of records.
LEMMA At ==
    \A s, t \in Seq(Records) : \A i \in 1..(Len(s) + Len(t)) :
        (s \o t)[i] = IF i <= Len(s) THEN s[i] ELSE t[i - Len(s)]
  BY ConcatProperties

\* Leaving out a middle part is a cut.
LEMMA CutMiddle == \A s, t, u \in Seq(Records) : Cut(s \o (t \o u), s \o u)
<1> SUFFICES ASSUME NEW s \in Seq(Records), NEW t \in Seq(Records), NEW u \in Seq(Records)
             PROVE  Cut(s \o (t \o u), s \o u)
  OBVIOUS
<1> DEFINE tu == t \o u
           a  == s \o tu
           b  == s \o u
           k  == Len(s) + 1
           m  == Len(t)
<1>1. Len(s) \in Nat /\ Len(t) \in Nat /\ Len(u) \in Nat
  BY LenProperties
<1>2. /\ tu \in Seq(Records)
      /\ Len(tu) = Len(t) + Len(u)
      /\ \A i \in 1..(Len(t) + Len(u)) : tu[i] = IF i <= Len(t) THEN t[i] ELSE u[i - Len(t)]
  BY Concatenated, At
<1> HIDE DEF tu
<1>3. /\ Len(a) = Len(s) + (Len(t) + Len(u))
      /\ \A i \in 1..(Len(s) + Len(tu)) : a[i] = IF i <= Len(s) THEN s[i] ELSE tu[i - Len(s)]
  BY <1>2, Concatenated, At
<1>4. /\ Len(b) = Len(s) + Len(u)
      /\ \A i \in 1..(Len(s) + Len(u)) : b[i] = IF i <= Len(s) THEN s[i] ELSE u[i - Len(s)]
  BY Concatenated, At
<1> HIDE DEF a, b
<1>5. ASSUME NEW i \in 1..Len(b)
      PROVE  b[i] = a[IF i < k THEN i ELSE i + m]
  <2>1. i \in 1..(Len(s) + Len(u))
    BY <1>4
  <2>2. CASE i <= Len(s)
    <3>1. i \in 1..(Len(s) + Len(tu)) /\ i < k
      BY <1>1, <1>2, <2>1, <2>2
    <3> QED
      BY <1>3, <1>4, <2>1, <2>2, <3>1
  <2>3. CASE ~(i <= Len(s))
    <3> DEFINE j == i + m
               l == j - Len(s)
    <3>1. /\ j \in 1..(Len(s) + Len(tu)) /\ ~(j <= Len(s)) /\ ~(i < k)
          /\ l \in 1..(Len(t) + Len(u)) /\ ~(l <= Len(t)) /\ l - Len(t) = i - Len(s)
      BY <1>1, <1>2, <2>1, <2>3
    <3> HIDE DEF l
    <3>2. a[j] = tu[l]
      BY <1>3, <3>1 DEF l
    <3>3. tu[l] = u[i - Len(s)]
      BY <1>2, <3>1
    <3>4. b[i] = u[i - Len(s)]
      BY <1>4, <2>1, <2>3
    <3> QED
      BY <3>1, <3>2, <3>3, <3>4
  <2> QED
    BY <2>2, <2>3
<1>6. k \in Nat \ {0} /\ m \in Nat /\ Len(b) = Len(a) - m
  BY <1>1, <1>3, <1>4
<1> QED
  BY <1>5, <1>6 DEF Cut, a, b, tu

\* Dropping the first n that wait.
LEMMA DropFirstCut ==
    ASSUME Store, NEW n \in 1..Len(Pending), Log!DropFirst(n)
    PROVE  Cut(All, All') /\ All' \in Seq(Records)
<1> DEFINE head == SubSeq(Pending, 1, n)
           rest == SubSeq(Pending, n + 1, Len(Pending))
<1>1. Pending \in Seq(Records) /\ Kept \in Seq(Records)
  BY LogTypes
<1>2. n \in 0..Len(Pending) /\ Len(Pending) \in 0..Len(Pending) /\ n + 1 \in Nat \ {0}
  BY <1>1, LenProperties
<1>3. head \o rest = Pending
  BY <1>1, <1>2, Split
<1>4. head \in Seq(Records) /\ rest \in Seq(Records)
  BY <1>1, <1>2, RestType
<1>5. All' = Kept \o rest
  BY DEF All, Log!DropFirst
<1> HIDE DEF head, rest
<1>6. All = Kept \o (head \o rest)
  BY <1>3 DEF All
<1> QED
  BY <1>1, <1>4, <1>5, <1>6, CutMiddle, Concatenated

\* Dropping the n-th that waits.
LEMMA DropCut ==
    ASSUME Store, NEW n \in 1..Len(Pending), Log!Drop(n)
    PROVE  Cut(All, All') /\ All' \in Seq(Records)
<1> DEFINE d    == n - 1
           head == SubSeq(Pending, 1, d)
           tail == SubSeq(Pending, d + 1, Len(Pending))
           one  == <<Pending[n]>>
           rest == SubSeq(Pending, n + 1, Len(Pending))
<1>1. Pending \in Seq(Records) /\ Kept \in Seq(Records) /\ Len(Pending) \in Nat
  BY LogTypes, LenProperties
<1>2. /\ d \in 0..Len(Pending) /\ d \in 0..(Len(Pending) - 1) /\ Len(Pending) \in 0..Len(Pending)
      /\ n + 1 \in Nat \ {0} /\ d + 1 = n /\ d + 2 = n + 1
  BY <1>1
<1>3. All' = Kept \o (head \o rest)
  BY Zenon DEF All, Log!Drop, Log!RemoveAt
<1>4. head \o tail = Pending
  BY <1>1, <1>2, Split
<1>5. tail = one \o rest
  <2>1. tail = <<Pending[d + 1]>> \o SubSeq(Pending, d + 2, Len(Pending))
    BY <1>1, <1>2, RestStep
  <2> QED
    BY <1>2, <2>1
<1>6. head \in Seq(Records) /\ rest \in Seq(Records)
  BY <1>1, <1>2, RestType
<1>7. one \in Seq(Records)
  <2>1. Pending[n] \in Records
    BY <1>1, ElementOfSeq
  <2> QED
    BY <2>1
<1> HIDE DEF d, head, tail, one, rest
<1>8. Kept \o head \in Seq(Records) /\ head \o rest \in Seq(Records) /\ one \o rest \in Seq(Records)
  BY <1>1, <1>6, <1>7, Concatenated
<1>9. All = (Kept \o head) \o (one \o rest)
  BY <1>1, <1>4, <1>5, <1>6, <1>8, Associative DEF All
<1>10. All' = (Kept \o head) \o rest
  BY <1>1, <1>3, <1>6, Associative
<1> QED
  BY <1>6, <1>7, <1>8, <1>9, <1>10, CutMiddle, Concatenated

\* A list is a cut of itself.
LEMMA CutSame == \A a \in Seq(Records) : Cut(a, a)
<1> SUFFICES ASSUME NEW a \in Seq(Records) PROVE Cut(a, a)
  OBVIOUS
<1>1. Len(a) \in Nat
  BY LenProperties
<1>2. /\ 1 \in Nat \ {0} /\ 0 \in Nat /\ Len(a) = Len(a) - 0
      /\ \A i \in 1..Len(a) : a[i] = a[IF i < 1 THEN i ELSE i + 0]
  BY <1>1
<1> QED
  BY <1>2 DEF Cut

\* But for a record that is appended, a step may only leave records out.
LEMMA AllStep ==
    ASSUME Store, [Next]_vars
    PROVE  \/ \E s \in Sessions : insert_msg_to_record_list(s)
           \/ Cut(All, All') /\ All' \in Seq(Records)
<1>1. CASE Pending' = Pending /\ Kept' = Kept
  <2>1. All' = All
    BY <1>1 DEF All
  <2> QED
    BY <2>1, AllType, CutSame
<1>2. ASSUME NEW n \in 1..Len(Pending), Log!Keep(n)
      PROVE  Cut(All, All') /\ All' \in Seq(Records)
  <2>1. All' = All
    BY <1>2, KeepAll
  <2> QED
    BY <2>1, AllType, CutSame
<1>3. ASSUME NEW n \in 1..Len(Pending), Log!DropFirst(n)
      PROVE  Cut(All, All') /\ All' \in Seq(Records)
  BY <1>3, DropFirstCut
<1>4. ASSUME NEW n \in 1..Len(Pending), Log!Drop(n)
      PROVE  Cut(All, All') /\ All' \in Seq(Records)
  BY <1>4, DropCut
<1> QED
  BY <1>1, <1>2, <1>3, <1>4, LogStep

\* A record that is appended comes behind all others.
LEMMA AppendAll ==
    ASSUME Store, NEW s \in Sessions, insert_msg_to_record_list(s)
    PROVE  LET r == [time |-> inHand[s], session |-> s] IN
           /\ All' \in Seq(Records)
           /\ Len(All') = Len(All) + 1
           /\ \A i \in 1..(Len(All) + 1) : All'[i] = IF i <= Len(All) THEN All[i] ELSE r
<1> DEFINE r == [time |-> inHand[s], session |-> s]
           one == <<r>>
<1>1. Pending \in Seq(Records) /\ Kept \in Seq(Records) /\ r \in Records
  BY LogTypes, AppendLog
<1>2. Kept' = Kept /\ Pending' = Append(Pending, r)
  BY AppendLog
<1> HIDE DEF r
<1>3. one \in Seq(Records) /\ Len(one) = 1 /\ one[1] = r
  BY <1>1
<1>4. Append(Pending, r) = Pending \o one
  BY <1>1, AppendIsConcat
<1> HIDE DEF one
<1>5. All' = All \o one
  <2>1. Kept' \o Pending' = Kept \o (Pending \o one)
    BY <1>2, <1>4
  <2>2. (Kept \o Pending) \o one = Kept \o (Pending \o one)
    BY <1>1, <1>3, Associative
  <2> QED
    BY <2>1, <2>2 DEF All
<1>6. All \in Seq(Records) /\ Len(All) \in Nat
  BY AllType, LenProperties
<1>7. /\ All \o one \in Seq(Records)
      /\ Len(All \o one) = Len(All) + 1
      /\ \A i \in 1..(Len(All) + 1) : (All \o one)[i] = IF i <= Len(All) THEN All[i] ELSE one[i - Len(All)]
  BY <1>3, <1>6, Concatenated, At
<1>8. \A i \in 1..(Len(All) + 1) : ~(i <= Len(All)) => i - Len(All) = 1
  BY <1>6
<1>9. /\ All' \in Seq(Records)
      /\ Len(All') = Len(All) + 1
      /\ \A i \in 1..(Len(All) + 1) : All'[i] = IF i <= Len(All) THEN All[i] ELSE r
  BY <1>3, <1>5, <1>7, <1>8
<1> QED
  BY <1>9 DEF r

\* The records are in order, and the times taken are ahead of them.
Ordered == InOrder(All) /\ Ahead(All)

\* A record keeps the order when it is appended.
LEMMA AppendOrder ==
    ASSUME Store, Ordered, NEW s \in Sessions, insert_msg_to_record_list(s)
    PROVE  Ordered'
<1> DEFINE r == [time |-> inHand[s], session |-> s]
           n == Len(All)
<1>1. /\ Len(All') = n + 1
      /\ \A i \in 1..(n + 1) : All'[i] = IF i <= n THEN All[i] ELSE r
  BY AppendAll
<1>2. n \in Nat /\ now \in Nat
  BY AllType, LenProperties, TimeAssumption DEF Store, TypeOK
<1>3. /\ now' = now /\ pc[s] = "push" /\ pc' = [pc EXCEPT ![s] = "idle"]
      /\ inHand' = [inHand EXCEPT ![s] = 0]
  BY DEF insert_msg_to_record_list
<1>4. /\ pc \in [Sessions -> {"idle", "record", "push"}] /\ inHand \in [Sessions -> 0..MaxTime]
  BY DEF Store, TypeOK
<1>5. /\ r.time \in 1..now
      /\ \A i \in 1..n : All[i].time # r.time /\ (All[i].session = r.session => All[i].time < r.time)
      /\ \A t \in Sessions : t # s /\ pc[t] = "push" => inHand[t] # r.time
      /\ r.session = s /\ r.time = inHand[s]
  BY <1>3 DEF Ordered, Ahead
<1> HIDE DEF r
<1>6. \A i \in 1..n : i \in 1..(n + 1) /\ i <= n
  BY <1>2
<1>7. n + 1 \in 1..(n + 1) /\ ~(n + 1 <= n) /\ \A i \in 1..(n + 1) : i \in 1..n \/ i = n + 1
  BY <1>2
<1>8. (\A i \in 1..n : All'[i] = All[i]) /\ All'[n + 1] = r
  BY <1>1, <1>6, <1>7
<1>9. /\ \A i \in 1..n : All[i].time <= now
      /\ \A i, j \in 1..n : i # j => All[i].time # All[j].time
      /\ \A i, j \in 1..n : i < j /\ All[i].session = All[j].session => All[i].time < All[j].time
  BY DEF Ordered, InOrder
<1> DEFINE u == All'
<1>10. (\A i \in 1..n : u[i] = All[i]) /\ u[n + 1] = r
  BY <1>8
<1> HIDE DEF u
<1>11. \A i \in 1..(n + 1) : u[i].time <= now
  BY <1>2, <1>5, <1>7, <1>9, <1>10
<1>12. \A i, j \in 1..(n + 1) : i # j => u[i].time # u[j].time
  BY <1>5, <1>7, <1>9, <1>10
<1>13. \A i, j \in 1..(n + 1) : i < j /\ u[i].session = u[j].session => u[i].time < u[j].time
  <2> SUFFICES ASSUME NEW i \in 1..(n + 1), NEW j \in 1..(n + 1), i < j, u[i].session = u[j].session
               PROVE  u[i].time < u[j].time
    OBVIOUS
  <2>1. i \in 1..n
    BY <1>2
  <2>2. CASE j \in 1..n
    BY <1>9, <1>10, <2>1, <2>2
  <2>3. CASE j = n + 1
    BY <1>5, <1>10, <2>1, <2>3
  <2> QED
    BY <1>7, <2>2, <2>3
<1>14. InOrder(All)'
  BY <1>1, <1>3, <1>11, <1>12, <1>13 DEF InOrder, u
<1>15. \A t \in Sessions : pc'[t] = "push" => t # s /\ pc[t] = "push" /\ inHand'[t] = inHand[t]
  BY <1>3, <1>4
<1>16. ASSUME NEW t \in Sessions, pc'[t] = "push"
       PROVE  /\ inHand'[t] \in 1..now
              /\ \A i \in 1..(n + 1) : u[i].time # inHand'[t] /\ (u[i].session = t => u[i].time < inHand'[t])
  <2>1. /\ inHand[t] \in 1..now
        /\ \A i \in 1..n : All[i].time # inHand[t] /\ (All[i].session = t => All[i].time < inHand[t])
    BY <1>15, <1>16 DEF Ordered, Ahead
  <2>2. t # s /\ inHand'[t] = inHand[t] /\ inHand[t] # r.time
    BY <1>5, <1>15, <1>16
  <2> QED
    BY <1>5, <1>7, <1>10, <2>1, <2>2
<1>17. \A t, v \in Sessions : pc'[t] = "push" /\ pc'[v] = "push" /\ t # v => inHand'[t] # inHand'[v]
  BY <1>15 DEF Ordered, Ahead
<1>18. Ahead(All)'
  BY <1>1, <1>3, <1>16, <1>17 DEF Ahead, u
<1> QED
  BY <1>14, <1>18 DEF Ordered

\* Leaving records out keeps the order, when no time is taken.
LEMMA CutOrder ==
    ASSUME Store, Ordered, Cut(All, All'), All' \in Seq(Records),
           now' = now, inHand' = inHand, \A s \in Sessions : pc'[s] = "push" => pc[s] = "push"
    PROVE  Ordered'
<1> DEFINE u == All'
<1>1. InOrder(u) /\ Ahead(u)
  BY AllType, CutInOrder DEF Ordered
<1> HIDE DEF u
<1>2. /\ \A i \in 1..Len(u) : u[i].time <= now'
      /\ \A i, j \in 1..Len(u) : i # j => u[i].time # u[j].time
      /\ \A i, j \in 1..Len(u) : i < j /\ u[i].session = u[j].session => u[i].time < u[j].time
  BY <1>1 DEF InOrder
<1>3. /\ \A s \in Sessions : pc'[s] = "push" =>
            /\ inHand'[s] \in 1..now'
            /\ \A i \in 1..Len(u) :
                  u[i].time # inHand'[s] /\ (u[i].session = s => u[i].time < inHand'[s])
      /\ \A s, t \in Sessions : pc'[s] = "push" /\ pc'[t] = "push" /\ s # t => inHand'[s] # inHand'[t]
  BY <1>1 DEF Ahead
<1> QED
  BY <1>2, <1>3 DEF Ordered, InOrder, Ahead, u

\* A time is taken after all others.
LEMMA TakeOrder ==
    ASSUME Store, Ordered, NEW s \in Sessions, TakeTime(s)
    PROVE  Ordered'
<1> DEFINE u == All
<1>1. All' = u
  BY SameLog DEF TakeTime, fileVars, All
<1>2. now \in Nat /\ now' = now + 1 /\ inHand' = [inHand EXCEPT ![s] = now + 1] /\ pc' = [pc EXCEPT ![s] = "push"]
  BY TimeAssumption DEF TakeTime, Store, TypeOK
<1>3. /\ pc \in [Sessions -> {"idle", "record", "push"}] /\ inHand \in [Sessions -> 0..MaxTime]
  BY DEF Store, TypeOK
<1>4. InOrder(u) /\ Ahead(u) /\ u \in Seq(Records)
  BY AllType DEF Ordered
<1> HIDE DEF u
<1>5. \A i \in 1..Len(u) : u[i].time \in Nat /\ u[i].time <= now
  <2>1. \A i \in 1..Len(u) : u[i] \in Records
    BY <1>4, ElementOfSeq
  <2> QED
    BY <1>4, <2>1, TimeAssumption DEF InOrder, Records
<1>6. \A i \in 1..Len(u) : u[i].time <= now + 1 /\ u[i].time < now + 1 /\ u[i].time # now + 1
  BY <1>2, <1>5
<1>7. \A t \in Sessions : pc'[t] = "push" =>
          \/ t = s /\ inHand'[t] = now + 1
          \/ t # s /\ pc[t] = "push" /\ inHand'[t] = inHand[t] /\ inHand[t] \in 1..now
  BY <1>2, <1>3, <1>4 DEF Ahead
<1>8. now + 1 \in 1..(now + 1) /\ \A x \in 1..now : x \in 1..(now + 1) /\ x # now + 1
  BY <1>2
<1>9. /\ \A i \in 1..Len(u) : u[i].time <= now'
      /\ \A i, j \in 1..Len(u) : i # j => u[i].time # u[j].time
      /\ \A i, j \in 1..Len(u) : i < j /\ u[i].session = u[j].session => u[i].time < u[j].time
  BY <1>2, <1>4, <1>6 DEF InOrder
<1>10. ASSUME NEW t \in Sessions, pc'[t] = "push"
       PROVE  /\ inHand'[t] \in 1..now'
              /\ \A i \in 1..Len(u) :
                    u[i].time # inHand'[t] /\ (u[i].session = t => u[i].time < inHand'[t])
  <2>1. CASE t = s /\ inHand'[t] = now + 1
    BY <1>2, <1>6, <1>8, <2>1
  <2>2. CASE t # s /\ pc[t] = "push" /\ inHand'[t] = inHand[t] /\ inHand[t] \in 1..now
    BY <1>2, <1>4, <1>8, <2>2 DEF Ahead
  <2> QED
    BY <1>7, <1>10, <2>1, <2>2
<1>11. \A t, v \in Sessions : pc'[t] = "push" /\ pc'[v] = "push" /\ t # v => inHand'[t] # inHand'[v]
  BY <1>4, <1>7, <1>8 DEF Ahead
<1> QED
  BY <1>1, <1>9, <1>10, <1>11 DEF Ordered, InOrder, Ahead

\* A step takes a time, appends a record, or leaves the times.
LEMMA ThreadStep ==
    ASSUME Store, [Next]_vars
    PROVE  \/ \E s \in Sessions : insert_msg_to_record_list(s) \/ TakeTime(s)
           \/ now' = now /\ inHand' = inHand /\ \A s \in Sessions : pc'[s] = "push" => pc[s] = "push"
<1> USE DEF writeVars
<1>1. CASE UNCHANGED vars
  BY <1>1 DEF vars
<1>2. ASSUME NEW s \in Sessions, RecordOn(s) \/ NoMemory(s)
      PROVE  now' = now /\ inHand' = inHand /\ \A t \in Sessions : pc'[t] = "push" => pc[t] = "push"
  <2>1. pc \in [Sessions -> {"idle", "record", "push"}]
    BY DEF Store, TypeOK
  <2> QED
    BY <1>2, <2>1 DEF RecordOn, NoMemory
<1>3. CASE insert_msg_recodr_db
  BY <1>3 DEF insert_msg_recodr_db, TestSize, SwapLists, Begin, insert_table, Commit
<1>4. CASE Console \/ BeginRead \/ EndRead
  BY <1>4 DEF Console, do_proxy_record_chang, ChangeDatabaseName, CloseDatabase, RenameFile, OpenDatabase,
              BeginRead, EndRead
<1> QED
  BY <1>1, <1>2, <1>3, <1>4 DEF Next, Relay

\* Every step keeps the order.
LEMMA OrderStep == Store /\ Ordered /\ [Next]_vars => Ordered'
<1> SUFFICES ASSUME Store, Ordered, [Next]_vars PROVE Ordered'
  OBVIOUS
<1>1. CASE \E s \in Sessions : insert_msg_to_record_list(s) \/ TakeTime(s)
  BY <1>1, AppendOrder, TakeOrder
<1>2. CASE ~(\E s \in Sessions : insert_msg_to_record_list(s) \/ TakeTime(s))
  <2>1. Cut(All, All') /\ All' \in Seq(Records)
    BY <1>2, AllStep
  <2> QED
    BY <1>2, <2>1, ThreadStep, CutOrder
<1> QED
  BY <1>1, <1>2

\* At first there is no record.
LEMMA OrderInit == Init => Ordered
<1> SUFFICES ASSUME Init PROVE Ordered
  OBVIOUS
<1>1. All = <<>>
  <2>1. Rest = <<>> /\ lists[recordList] = <<>> /\ txn = <<>> /\ Kept = <<>> \o <<>>
    BY SubSeqEmpty, EmptySeq DEF Init, Rest, newrecordList, Kept
  <2>2. <<>> \o <<>> = <<>>
    BY EmptySeq, ConcatEmptySeq
  <2> QED
    BY <2>1, <2>2 DEF All, Pending, Rest
<1>2. 1..Len(All) = {}
  BY <1>1, EmptySeq
<1> QED
  BY <1>2 DEF Init, Ordered, InOrder, Ahead

\* The records of a session are in the order of their times, in the file and in
\* what waits, for any number of sessions and records: a session's thread appends
\* under its lock, the lists change places only when the old one is written, and
\* a failure leaves records out but moves none.
THEOREM RecordsInOrder == Spec => []SessionOrder
<1>1. Spec => [](Store /\ Ordered)
  BY StoreInit, StoreStep, OrderInit, OrderStep, PTL DEF Spec
<1>2. Store /\ Ordered => SessionOrder
  <2> SUFFICES ASSUME Store, Ordered PROVE SessionOrder
    OBVIOUS
  <2>1. DOMAIN All = 1..Len(All)
    BY AllType, LenProperties
  <2> QED
    BY <2>1 DEF Ordered, InOrder, SessionOrder, All
<1> QED
  BY <1>1, <1>2, PTL

-----------------------------------------------------------------------------
(* The rows in the order of their times.                                    *)

\* No two rows have the same time.
Unique(rows) == \A i, j \in 1..Len(rows) : i # j => rows[i].time # rows[j].time

\* Before(rows, i) has at most Len(rows) - 1 members, more of them the later the time
\* of the row is.
LEMMA BeforeSize ==
    ASSUME NEW rows \in Seq(Records), Unique(rows)
    PROVE  /\ \A i \in 1..Len(rows) : Cardinality(Before(rows, i)) \in 0..(Len(rows) - 1)
           /\ \A i, j \in 1..Len(rows) :
                 i # j => Cardinality(Before(rows, i)) # Cardinality(Before(rows, j))
<1> DEFINE L == Len(rows)
           D == 1..L
<1>1. L \in Nat /\ DOMAIN rows = D
  BY LenProperties
<1>2. \A i \in D : rows[i].time \in Int
  <2>1. \A i \in D : rows[i] \in Records
    BY ElementOfSeq
  <2> QED
    BY <2>1, TimeAssumption DEF Records
<1>3. IsFiniteSet(D) /\ Cardinality(D) = L
  BY <1>1, FS_Interval
<1>4. \A i, j \in D : i # j => rows[i].time # rows[j].time
  BY DEF Unique
<1> HIDE DEF L, D
<1>5. ASSUME NEW i \in D
      PROVE  Before(rows, i) \in SUBSET D /\ i \notin Before(rows, i)
  BY <1>1, <1>2 DEF Before
<1>6. ASSUME NEW i \in D
      PROVE  IsFiniteSet(Before(rows, i)) /\ Cardinality(Before(rows, i)) \in 0..(L - 1)
  <2>1. /\ IsFiniteSet(Before(rows, i))
        /\ Cardinality(Before(rows, i)) <= L
        /\ L = Cardinality(Before(rows, i)) => D = Before(rows, i)
    BY <1>3, <1>5, FS_Subset
  <2>2. L # Cardinality(Before(rows, i))
    BY <1>5, <2>1
  <2>3. Cardinality(Before(rows, i)) \in Nat
    BY <2>1, FS_CardinalityType
  <2> QED
    BY <1>1, <2>1, <2>2, <2>3
<1>7. ASSUME NEW i \in D, NEW j \in D, rows[i].time < rows[j].time
      PROVE  Cardinality(Before(rows, i)) # Cardinality(Before(rows, j))
  <2>1. Before(rows, i) \in SUBSET Before(rows, j)
    BY <1>1, <1>2, <1>7 DEF Before
  <2>2. i \in Before(rows, j) /\ i \notin Before(rows, i)
    BY <1>1, <1>5, <1>7 DEF Before
  <2>3. IsFiniteSet(Before(rows, j))
    BY <1>6
  <2>4. Cardinality(Before(rows, j)) = Cardinality(Before(rows, i)) => Before(rows, j) = Before(rows, i)
    BY <2>1, <2>3, FS_Subset
  <2> QED
    BY <2>2, <2>4
<1>8. \A i, j \in D : i # j => Cardinality(Before(rows, i)) # Cardinality(Before(rows, j))
  <2> SUFFICES ASSUME NEW i \in D, NEW j \in D, i # j
               PROVE  Cardinality(Before(rows, i)) # Cardinality(Before(rows, j))
    OBVIOUS
  <2>1. rows[i].time < rows[j].time \/ rows[j].time < rows[i].time
    BY <1>2, <1>4
  <2> QED
    BY <1>7, <2>1
<1> QED
  BY <1>6, <1>8 DEF D, L

\* Every place in the order of the times is taken by one row.
LEMMA Places ==
    ASSUME NEW rows \in Seq(Records), Unique(rows)
    PROVE  \A n \in 1..Len(rows) :
              /\ Place(rows, n) \in 1..Len(rows)
              /\ Cardinality(Before(rows, Place(rows, n))) = n - 1
              /\ \A i \in 1..Len(rows) : Cardinality(Before(rows, i)) = n - 1 => i = Place(rows, n)
<1> DEFINE D == 1..Len(rows)
           rank == [i \in D |-> Cardinality(Before(rows, i)) + 1]
<1>1. Len(rows) \in Nat /\ DOMAIN rows = D
  BY LenProperties
<1>2. IsFiniteSet(D)
  BY <1>1, FS_Interval
<1>3. /\ \A i \in D : Cardinality(Before(rows, i)) \in 0..(Len(rows) - 1)
      /\ \A i, j \in D : i # j => Cardinality(Before(rows, i)) # Cardinality(Before(rows, j))
  BY BeforeSize
<1>4. rank \in [D -> D] /\ \A i, j \in D : rank[i] = rank[j] => i = j
  BY <1>1, <1>3
<1> HIDE DEF rank
<1>5. rank \in Injection(D, D)
  BY <1>4 DEF Injection, IsInjective
<1>6. rank \in Surjection(D, D)
  BY <1>2, <1>5, FS_Injection
<1> SUFFICES ASSUME NEW n \in D
             PROVE  /\ Place(rows, n) \in D
                    /\ Cardinality(Before(rows, Place(rows, n))) = n - 1
                    /\ \A i \in D : Cardinality(Before(rows, i)) = n - 1 => i = Place(rows, n)
  OBVIOUS
<1>7. PICK i \in D : rank[i] = n
  BY <1>6 DEF Surjection
<1>8. Cardinality(Before(rows, i)) = n - 1
  BY <1>1, <1>3, <1>7 DEF rank
<1>9. Place(rows, n) \in D /\ Cardinality(Before(rows, Place(rows, n))) = n - 1
  BY <1>1, <1>8 DEF Place
<1> QED
  BY <1>3, <1>9

\* In the order of their times there are as many rows.
LEMMA ByTimeType ==
    ASSUME NEW rows \in Seq(Records), Unique(rows)
    PROVE  /\ ByTime(rows) \in Seq(Records)
           /\ Len(ByTime(rows)) = Len(rows)
           /\ \A n \in 1..Len(rows) : ByTime(rows)[n] = rows[Place(rows, n)]
<1>1. Len(rows) \in Nat /\ \A i \in 1..Len(rows) : rows[i] \in Records
  BY LenProperties, ElementOfSeq
<1>2. \A n \in 1..Len(rows) : rows[Place(rows, n)] \in Records
  BY <1>1, Places
<1>3. ByTime(rows) \in [1..Len(rows) -> Records]
  BY <1>2 DEF ByTime
<1>4. \A n \in 1..Len(rows) : ByTime(rows)[n] = rows[Place(rows, n)]
  BY DEF ByTime
<1> HIDE DEF ByTime
<1> QED
  BY <1>1, <1>3, <1>4

\* Rows that are stored behind the first n leave these as they are.
LEMMA ByTimeStable ==
    ASSUME NEW rows \in Seq(Records), NEW more \in Seq(Records), Unique(rows \o more),
           NEW n \in 0..Len(rows),
           ~ \E i \in (Len(rows) + 1)..Len(rows \o more), j \in 1..n :
                (rows \o more)[i].time < ByTime(rows)[j].time
    PROVE  SubSeq(ByTime(rows \o more), 1, n) = SubSeq(ByTime(rows), 1, n)
<1> DEFINE all == rows \o more
           L   == Len(rows)
<1>1. /\ all \in Seq(Records) /\ Len(all) = L + Len(more)
      /\ \A i \in 1..(L + Len(more)) : all[i] = IF i <= L THEN rows[i] ELSE more[i - L]
  BY Concatenated, At
<1>2. L \in Nat /\ Len(more) \in Nat /\ Unique(all) /\ n \in 0..L
  BY LenProperties
<1>3. \A i \in (L + 1)..Len(all), j \in 1..n : ~(all[i].time < ByTime(rows)[j].time)
  OBVIOUS
<1> HIDE DEF all
<1>4. \A i \in 1..L : i \in 1..Len(all) /\ all[i] = rows[i]
  BY <1>1, <1>2
<1> HIDE DEF L
<1>5. Unique(rows)
  BY <1>2, <1>4 DEF Unique, L
<1>6. DOMAIN rows = 1..L /\ DOMAIN all = 1..Len(all)
  BY <1>1, LenProperties DEF L
<1>7. ASSUME NEW j \in 1..n
      PROVE  ByTime(all)[j] = ByTime(rows)[j]
  <2> DEFINE p == Place(rows, j)
  <2>1. j \in 1..L /\ j \in 1..Len(all)
    BY <1>1, <1>2
  <2>2. p \in 1..L /\ Cardinality(Before(rows, p)) = j - 1 /\ ByTime(rows)[j] = rows[p]
    BY <1>5, <2>1, Places, ByTimeType DEF L
  <2> HIDE DEF p
  <2>3. p \in 1..Len(all) /\ all[p] = rows[p]
    BY <1>4, <2>2
  <2>4. \A k \in 1..Len(all) : k \notin 1..L => ~(all[k].time < all[p].time)
    <3>1. \A k \in 1..Len(all) : k \notin 1..L => k \in (L + 1)..Len(all)
      BY <1>1, <1>2
    <3> QED
      BY <1>3, <2>2, <2>3, <3>1
  <2>5. Before(all, p) = Before(rows, p)
    BY <1>4, <1>6, <2>3, <2>4 DEF Before
  <2>6. p = Place(all, j)
    BY <1>1, <1>2, <2>1, <2>2, <2>3, <2>5, Places
  <2>7. ByTime(all)[j] = all[p]
    BY <1>1, <1>2, <2>1, <2>6, ByTimeType
  <2> QED
    BY <2>2, <2>3, <2>7
<1>8. ByTime(rows) \in Seq(Records) /\ ByTime(all) \in Seq(Records)
  BY <1>1, <1>2, <1>5, ByTimeType
<1>9. \A j \in 1..n : ByTime(rows)[j] \in Records /\ ByTime(all)[j] \in Records
  <2>1. \A j \in 1..n : j \in 1..L
    BY <1>2
  <2>2. Len(ByTime(rows)) = L /\ \A j \in 1..L : ByTime(rows)[j] \in Records
    BY <1>5, <1>8, ByTimeType, ElementOfSeq DEF L
  <2> QED
    BY <1>7, <2>1, <2>2
<1> DEFINE x == SubSeq(ByTime(all), 1, n)
           y == SubSeq(ByTime(rows), 1, n)
<1>10. n \in Int /\ 1 \in Int /\ n - 1 + 1 = n /\ (IF 1 <= n THEN n - 1 + 1 ELSE 0) = n
  BY <1>2
<1>11. x \in Seq(Records) /\ Len(x) = n /\ \A i \in 1..n : x[i] = ByTime(all)[i]
  <2>1. x \in Seq(Records) /\ Len(x) = n /\ \A i \in 1..n : x[i] = ByTime(all)[1 + i - 1]
    BY <1>9, <1>10, SubSeqProperties
  <2> QED
    BY <1>10, <2>1
<1>12. y \in Seq(Records) /\ Len(y) = n /\ \A i \in 1..n : y[i] = ByTime(rows)[i]
  <2>1. y \in Seq(Records) /\ Len(y) = n /\ \A i \in 1..n : y[i] = ByTime(rows)[1 + i - 1]
    BY <1>9, <1>10, SubSeqProperties
  <2> QED
    BY <1>10, <2>1
<1> HIDE DEF x, y
<1>13. x = y
  BY <1>7, <1>11, <1>12, SeqEqual
<1> QED
  BY <1>13 DEF x, y, all

-----------------------------------------------------------------------------
(* The task reads beside the recording.                                     *)

\* A step of the replay is a step of the store, or leaves it.
LEMMA ReplayIsStore == [ReplayNext]_allVars => [Next]_vars
<1> SUFFICES ASSUME [ReplayNext]_allVars PROVE [Next]_vars
  OBVIOUS
<1>1. CASE Recording
  BY <1>1 DEF Recording, Next, Console
<1>2. CASE task_get_record_msg \/ task_get_record_msg_rows
  BY <1>2 DEF task_get_record_msg, task_get_record_msg_rows, Next
<1>3. CASE task_push_init \/ task_get_record_msg_busy \/ task_push_record_msg
  BY <1>3 DEF task_push_init, task_get_record_msg_busy, task_push_record_msg
<1>4. CASE UNCHANGED allVars
  BY <1>4 DEF allVars
<1> QED
  BY <1>1, <1>2, <1>3, <1>4 DEF ReplayNext, Replay

\* While the database is not renamed its rows stay, and new ones come behind them.
LEMMA DataGrows ==
    ASSUME Store, Recording
    PROVE  \E more \in Seq(Records) : data' = data \o more
<1>1. data \in Seq(Records) /\ txn \in Seq(Records)
  BY DEF Store, TypeOK
<1>2. CASE data' = data
  <2>1. <<>> \in Seq(Records) /\ data \o <<>> = data
    BY <1>1, EmptySeq, ConcatEmptySeq
  <2> QED
    BY <1>2, <2>1
<1>3. CASE data' = data \o txn
  BY <1>1, <1>3
<1>4. CASE insert_table
  <2> DEFINE old == lists[newrecordList]
             row == old[done + 1]
  <2>1. old \in Seq(Records) /\ done + 1 \in 1..Len(old)
    BY <1>4 DEF insert_table, Store, TypeOK, newrecordList
  <2>2. row \in Records
    BY <2>1, ElementOfSeq
  <2>3. data' = data \/ data' = Append(data, row)
    BY <1>4 DEF insert_table
  <2> HIDE DEF row
  <2>4. Append(data, row) = data \o <<row>> /\ <<row>> \in Seq(Records)
    BY <1>1, <2>2, AppendIsConcat
  <2> QED
    BY <1>2, <2>3, <2>4
<1>5. CASE Commit
  BY <1>2, <1>3, <1>5 DEF Commit
<1>6. CASE TestSize \/ SwapLists \/ Begin
  BY <1>2, <1>6 DEF TestSize, SwapLists, Begin, fileVars
<1>7. ASSUME NEW s \in Sessions, Relay(s)
      PROVE  data' = data
  BY <1>7 DEF Relay, RecordOn, TakeTime, NoMemory, insert_msg_to_record_list, fileVars
<1>8. ASSUME NEW record \in BOOLEAN, do_proxy_record_chang(record)
      PROVE  data' = data
  BY <1>8 DEF do_proxy_record_chang, fileVars
<1> QED
  BY <1>2, <1>4, <1>5, <1>6, <1>7, <1>8 DEF Recording, insert_msg_recodr_db

\* No two rows of the file have the same time.
LEMMA UniqueData == Store /\ Ordered => Unique(data)
<1> SUFFICES ASSUME Store, Ordered PROVE Unique(data)
  OBVIOUS
<1> DEFINE r == Len(renamed)
           d == Len(data)
           k == Len(Kept)
           w == Len(Pending)
<1>1. /\ renamed \in Seq(Records) /\ data \in Seq(Records) /\ Kept \in Seq(Records) /\ Pending \in Seq(Records)
      /\ r \in Nat /\ d \in Nat /\ w \in Nat
  BY LogTypes, LenProperties DEF Store, TypeOK
<1>2. /\ k = r + d
      /\ \A i \in 1..(r + d) : Kept[i] = IF i <= r THEN renamed[i] ELSE data[i - r]
  BY <1>1, Concatenated, At DEF Kept
<1>3. /\ Len(All) = k + w
      /\ \A i \in 1..(k + w) : All[i] = IF i <= k THEN Kept[i] ELSE Pending[i - k]
  BY <1>1, Concatenated, At DEF All
<1> HIDE DEF r, d, k, w
<1>4. ASSUME NEW i \in 1..d
      PROVE  r + i \in 1..Len(All) /\ All[r + i] = data[i]
  <2>1. /\ r + i \in 1..(r + d) /\ r + i \in 1..(k + w) /\ r + i <= k /\ ~(r + i <= r) /\ (r + i) - r = i
    BY <1>1, <1>2
  <2>2. All[r + i] = Kept[r + i]
    BY <1>3, <2>1
  <2>3. Kept[r + i] = data[(r + i) - r]
    BY <1>2, <2>1
  <2> QED
    BY <1>3, <2>1, <2>2, <2>3
<1>5. \A i, j \in 1..d : i # j => r + i # r + j
  BY <1>1
<1>6. \A i, j \in 1..Len(All) : i # j => All[i].time # All[j].time
  BY DEF Ordered, InOrder
<1>7. \A i, j \in 1..d : i # j => data[i].time # data[j].time
  BY <1>4, <1>5, <1>6
<1> QED
  BY <1>7 DEF Unique, d

\* The smaller of two numbers.
LEMMA MinOfTwo ==
    ASSUME NEW a \in Int, NEW b \in Int
    PROVE  Min({a, b}) = IF a <= b THEN a ELSE b
<1> DEFINE m == IF a <= b THEN a ELSE b
<1>1. /\ m \in {a, b} /\ \A y \in {a, b} : m <= y
      /\ \A x \in {a, b} : (\A y \in {a, b} : x <= y) => x = m
  OBVIOUS
<1>2. Min({a, b}) = CHOOSE x \in {a, b} : \A y \in {a, b} : x =< y
  BY DEF Min
<1> QED
  BY <1>1, <1>2

\* A page of rows goes on where the rows before it end, and is empty only at the end.
Page(rows, n, m) ==
    /\ m \in n..Len(rows)
    /\ SubSeq(rows, n + 1, m) \in Seq(Records)
    /\ Len(SubSeq(rows, n + 1, m)) = m - n
    /\ SubSeq(rows, 1, n) \o SubSeq(rows, n + 1, m) = SubSeq(rows, 1, m)
    /\ m = n => n = Len(rows)

\* Page holds for the query of a page.
LEMMA ReadPage ==
    ASSUME NEW rows \in Seq(Records), NEW n \in 0..Len(rows)
    PROVE  Page(rows, n, Min({n + PageSize, Len(rows)}))
<1> DEFINE m == Min({n + PageSize, Len(rows)})
           one == 1
<1>1. Len(rows) \in Nat /\ PageSize \in Nat \ {0} /\ n \in Nat
  BY LenProperties, ReplayAssumption
<1>2. m = IF n + PageSize <= Len(rows) THEN n + PageSize ELSE Len(rows)
  BY <1>1, MinOfTwo
<1> HIDE DEF m
<1>3. m \in n..Len(rows) /\ m \in Nat /\ (m = n => n = Len(rows))
  BY <1>1, <1>2
<1>4. /\ n + 1 \in Nat \ {0} /\ m \in 0..Len(rows) /\ n + 1 \in Int /\ m \in Int
      /\ one \in 1..(Len(rows) + 1) /\ n \in (one - 1)..Len(rows)
      /\ (IF n + 1 <= m THEN m - (n + 1) + 1 ELSE 0) = m - n
  BY <1>1, <1>3
<1>5. SubSeq(rows, n + 1, m) \in Seq(Records)
  BY <1>4, RestType
<1>6. Len(SubSeq(rows, n + 1, m)) = m - n
  <2>1. \A i \in (n + 1)..m : rows[i] \in Records
    BY <1>1, <1>3, ElementOfSeq
  <2>2. Len(SubSeq(rows, n + 1, m)) = IF n + 1 <= m THEN m - (n + 1) + 1 ELSE 0
    BY <1>4, <2>1, SubSeqProperties
  <2> QED
    BY <1>4, <2>2
<1>7. SubSeq(rows, one, n) \o SubSeq(rows, n + 1, m) = SubSeq(rows, one, m)
  <2> HIDE DEF one
  <2> QED
    BY <1>3, <1>4, ConcatAdjacentSubSeq
<1> QED
  BY <1>3, <1>5, <1>6, <1>7 DEF Page, m

\* The types of the replay, with those of the store.
ReplayTypes ==
    /\ LoopMode \in LoopModes
    /\ stage \in {"INIT", "LOOP"}
    /\ startRow \in 0..Len(data)
    /\ tempMsg \in Seq(Records)
    /\ pushed \in Seq(Records)
    /\ stopPushRecord \in BOOLEAN
    /\ stored \in 0..Len(data)
    /\ overtaken \in BOOLEAN
    /\ busy \in BOOLEAN

\* The task reads when it has pushed the last page, a task that stops at the end has
\* read every row the file had when it began, and every row read is pushed or about to
\* be.
Pages ==
    /\ reading => tempMsg = <<>>
    /\ stage = "INIT" => ~stopPushRecord
    /\ stopPushRecord /\ ~busy => tempMsg = <<>> /\ startRow >= stored
    /\ Len(pushed) + Len(tempMsg) = startRow

\* The inductive invariant of the replay, beside those of the store.
Following == ReplayTypes /\ Pages /\ ReplayInOrder

\* The replay begins before the first row.
LEMMA FollowInit == ReplayInit => Following
<1> SUFFICES ASSUME ReplayInit PROVE Following
  OBVIOUS
<1>1. <<>> \in Seq(Records) /\ Len(<<>>) = 0 /\ <<>> \o <<>> = <<>>
  BY EmptySeq, ConcatEmptySeq
<1>2. data = <<>> /\ tempMsg = <<>> /\ pushed = <<>> /\ startRow = 0
  BY DEF ReplayInit, Init
<1>3. ReplayTypes /\ Pages
  <2>1. /\ LoopMode \in LoopModes /\ stage = "INIT" /\ stopPushRecord = FALSE /\ stored = 0
        /\ overtaken = FALSE /\ busy = FALSE /\ reading = FALSE
    BY DEF ReplayInit, Init
  <2>2. 0 \in 0..Len(data) /\ Len(pushed) + Len(tempMsg) = 0
    BY <1>1, <1>2
  <2>3. ReplayTypes
    BY <1>1, <1>2, <2>1, <2>2 DEF ReplayTypes
  <2> QED
    BY <1>2, <2>1, <2>2, <2>3 DEF Pages
<1>4. SubSeq(ByTime(data), 1, startRow) = <<>>
  BY <1>2, SubSeqEmpty
<1>5. ReplayInOrder
  BY <1>1, <1>2, <1>4 DEF ReplayInOrder
<1> QED
  BY <1>3, <1>5 DEF Following

\* What the proxy records beside does not disturb what has been read, but for a row
\* that is stored behind the offset.
LEMMA RecordFollows ==
    ASSUME Store, Following, Unique(data)', Recording, UNCHANGED LoopMode
    PROVE  Following'
<1>1. PICK more \in Seq(Records) : data' = data \o more
  BY DataGrows
<1>2. data \in Seq(Records) /\ Len(data) \in Nat /\ Len(more) \in Nat
  BY <1>1, LenProperties DEF Store, TypeOK
<1>3. Len(data') = Len(data) + Len(more)
  BY <1>1, <1>2, Concatenated
<1>4. /\ UNCHANGED <<LoopMode, stage, startRow, tempMsg, pushed, stopPushRecord, stored, busy>>
      /\ overtaken' = (overtaken \/ \E i \in Len(data) + 1..Len(data'), j \in 1..startRow :
                                        data'[i].time < ByTime(data)[j].time)
  BY DEF Recording
<1>5. reading' = reading
  BY DEF Recording, Relay, RecordOn, TakeTime, NoMemory, insert_msg_to_record_list, insert_msg_recodr_db,
         TestSize, SwapLists, Begin, insert_table, Commit, do_proxy_record_chang
<1>6. startRow \in 0..Len(data) /\ stored \in 0..Len(data) /\ overtaken \in BOOLEAN
  BY DEF Following, ReplayTypes
<1>7. overtaken' \in BOOLEAN
  BY <1>4, <1>6
<1>8. startRow \in 0..Len(data') /\ stored \in 0..Len(data')
  BY <1>2, <1>3, <1>6
<1>9. ReplayTypes'
  BY <1>4, <1>7, <1>8 DEF Following, ReplayTypes
<1>10. Pages'
  BY <1>4, <1>5 DEF Following, Pages
<1>11. ASSUME ~overtaken'
       PROVE  SubSeq(ByTime(data'), 1, startRow) = SubSeq(ByTime(data), 1, startRow)
  <2>1. ~ \E i \in (Len(data) + 1)..Len(data'), j \in 1..startRow : data'[i].time < ByTime(data)[j].time
    BY <1>4, <1>11
  <2>2. Unique(data \o more)
    BY <1>1 DEF Unique
  <2> QED
    BY <1>1, <1>2, <1>6, <2>1, <2>2, ByTimeStable
<1>12. ReplayInOrder'
  BY <1>4, <1>11 DEF Following, ReplayInOrder
<1> QED
  BY <1>9, <1>10, <1>12 DEF Following

\* A page is read.
LEMMA ReadFollows ==
    ASSUME Store, Following, Unique(data), task_get_record_msg_rows, UNCHANGED LoopMode
    PROVE  Following'
<1> DEFINE rows == ByTime(data)
           m    == Min({startRow + PageSize, Len(data)})
           page == SubSeq(rows, startRow + 1, m)
<1>1. data \in Seq(Records) /\ Len(data) \in Nat /\ startRow \in 0..Len(data) /\ stored \in 0..Len(data)
  BY LenProperties DEF Store, TypeOK, Following, ReplayTypes
<1>2. rows \in Seq(Records) /\ Len(rows) = Len(data)
  BY <1>1, ByTimeType
<1>3. Page(rows, startRow, m)
  BY <1>1, <1>2, ReadPage
<1>4. /\ startRow' = startRow + Len(page)
      /\ tempMsg' = page
      /\ stopPushRecord' = (page = <<>> /\ LoopMode # 2)
      /\ reading' = FALSE
      /\ UNCHANGED <<LoopMode, data, stage, pushed, stored, overtaken, busy>>
      /\ reading /\ stage = "LOOP"
  BY DEF task_get_record_msg_rows, ReadRows, EndRead, Pushing, fileVars
<1> HIDE DEF rows, m
<1>5. /\ m \in startRow..Len(data) /\ page \in Seq(Records) /\ Len(page) = m - startRow
      /\ SubSeq(rows, 1, startRow) \o page = SubSeq(rows, 1, m)
      /\ (m = startRow => startRow = Len(data))
  BY <1>2, <1>3 DEF Page
<1> HIDE DEF page
<1>6. startRow' = m
  BY <1>1, <1>4, <1>5
<1>7. tempMsg = <<>> /\ pushed \in Seq(Records)
  BY <1>4 DEF Following, Pages, ReplayTypes
<1>8. Len(pushed) = startRow
  BY <1>1, <1>7, EmptySeq, LenProperties DEF Following, Pages
<1>9. page = <<>> => startRow = Len(data) /\ m = startRow
  BY <1>1, <1>5, EmptySeq
<1>10. ReplayTypes'
  <2>1. startRow' \in 0..Len(data)' /\ stored' \in 0..Len(data)'
    BY <1>1, <1>4, <1>5, <1>6
  <2>2. tempMsg' \in Seq(Records) /\ stopPushRecord' \in BOOLEAN
    BY <1>4, <1>5
  <2> QED
    BY <1>4, <2>1, <2>2 DEF Following, ReplayTypes
<1>11. Pages'
  <2>1. Len(pushed') + Len(tempMsg') = startRow'
    BY <1>1, <1>4, <1>5, <1>6, <1>8
  <2>2. ASSUME page = <<>>
        PROVE  startRow' >= stored'
    <3>1. startRow' = Len(data) /\ stored' = stored
      BY <1>4, <1>6, <1>9, <2>2
    <3> QED
      BY <1>1, <3>1
  <2>3. stopPushRecord' => page = <<>> /\ tempMsg' = page
    BY <1>4
  <2> QED
    BY <1>4, <2>1, <2>2, <2>3 DEF Pages
<1>12. ReplayInOrder'
  <2> SUFFICES ASSUME ~overtaken' PROVE pushed' \o tempMsg' = SubSeq(ByTime(data'), 1, startRow')
    BY DEF ReplayInOrder
  <2>1. pushed \o <<>> = SubSeq(rows, 1, startRow)
    BY <1>4, <1>7 DEF Following, ReplayInOrder, rows
  <2>2. pushed \o <<>> = pushed
    BY <1>7, ConcatEmptySeq
  <2>3. pushed' \o tempMsg' = SubSeq(rows, 1, m)
    BY <1>4, <1>5, <2>1, <2>2
  <2> QED
    BY <1>4, <1>6, <2>3 DEF rows
<1> QED
  BY <1>10, <1>11, <1>12 DEF Following

\* A message is pushed.
LEMMA PushFollows ==
    ASSUME Store, Following, task_push_record_msg, UNCHANGED LoopMode
    PROVE  Following'
<1>1. /\ tempMsg # <<>> /\ stage = "LOOP" /\ ~stopPushRecord
      /\ pushed' = Append(pushed, Head(tempMsg)) /\ tempMsg' = Tail(tempMsg)
      /\ UNCHANGED <<LoopMode, data, reading, stage, startRow, stopPushRecord, stored, overtaken, busy>>
  BY DEF task_push_record_msg, Pushing, vars, fileVars
<1>2. tempMsg \in Seq(Records) /\ pushed \in Seq(Records) /\ startRow \in Nat
  BY LenProperties DEF Following, ReplayTypes, Store, TypeOK
<1> DEFINE h == Head(tempMsg)
           t == Tail(tempMsg)
<1>3. /\ h \in Records /\ t \in Seq(Records) /\ Len(t) = Len(tempMsg) - 1
      /\ Len(tempMsg) \in Nat /\ Len(pushed) \in Nat
  BY <1>1, <1>2, HeadTailProperties, LenProperties
<1>4. tempMsg = <<h>> \o t
  BY <1>1, <1>2
<1> HIDE DEF h, t
<1>5. <<h>> \in Seq(Records) /\ Append(pushed, h) = pushed \o <<h>>
  BY <1>2, <1>3, AppendIsConcat
<1>6. Append(pushed, h) \in Seq(Records) /\ Len(Append(pushed, h)) = Len(pushed) + 1
  BY <1>2, <1>3, AppendProperties
<1>7. Append(pushed, h) \o t = pushed \o tempMsg
  BY <1>2, <1>3, <1>4, <1>5, Associative
<1>8. pushed' = Append(pushed, h) /\ tempMsg' = t
  BY <1>1 DEF h, t
<1>9. ReplayTypes'
  BY <1>1, <1>3, <1>6, <1>8 DEF Following, ReplayTypes
<1>10. Len(pushed') + Len(tempMsg') = startRow'
  <2>1. Len(pushed) + Len(tempMsg) = startRow /\ startRow' = startRow
    BY <1>1 DEF Following, Pages
  <2>2. Len(pushed') = Len(pushed) + 1 /\ Len(tempMsg') = Len(tempMsg) - 1
    BY <1>3, <1>6, <1>8
  <2> QED
    BY <1>2, <1>3, <2>1, <2>2
<1>11. Pages'
  BY <1>1, <1>10 DEF Following, Pages
<1>12. ReplayInOrder'
  BY <1>1, <1>7, <1>8 DEF Following, ReplayInOrder
<1> QED
  BY <1>9, <1>11, <1>12 DEF Following

\* Every step keeps it.
LEMMA FollowStep ==
    Store /\ Following /\ Unique(data) /\ Unique(data)' /\ [ReplayNext]_allVars => Following'
<1> SUFFICES ASSUME Store, Following, Unique(data), Unique(data)', [ReplayNext]_allVars
             PROVE  Following'
  OBVIOUS
<1> USE DEF Following, ReplayTypes, Pages, ReplayInOrder
<1>1. CASE UNCHANGED allVars
  BY <1>1 DEF allVars, vars, replayVars, fileVars
<1>2. CASE Recording /\ UNCHANGED LoopMode
  <2> USE DEF Following
  <2> QED  BY <1>2, RecordFollows
<1>3. CASE task_push_init /\ UNCHANGED LoopMode
  <2>1. Len(data) \in 0..Len(data)
    BY LenProperties DEF Store, TypeOK
  <2> QED
    BY <1>3, <2>1 DEF task_push_init, vars, fileVars
<1>4. CASE task_get_record_msg /\ UNCHANGED LoopMode
  BY <1>4 DEF task_get_record_msg, BeginRead, replayVars, Pushing, fileVars
<1>5. CASE task_get_record_msg_rows /\ UNCHANGED LoopMode
  BY <1>5, ReadFollows
<1>6. CASE task_get_record_msg_busy /\ UNCHANGED LoopMode
  BY <1>6 DEF task_get_record_msg_busy, Pushing, vars, fileVars
<1>7. CASE task_push_record_msg /\ UNCHANGED LoopMode
  BY <1>7, PushFollows
<1> QED
  BY <1>1, <1>2, <1>3, <1>4, <1>5, <1>6, <1>7 DEF ReplayNext, Replay

\* What holds of a replay beside the recording.
LEMMA ReplayInvariant == ReplaySpec => [](Store /\ Following)
<1>1. ReplayInit => Init
  BY DEF ReplayInit
<1> QED
  BY <1>1, StoreInit, StoreStep, OrderInit, OrderStep, UniqueData, FollowInit, FollowStep, ReplayIsStore,
     PTL DEF ReplaySpec

\* The types of LiveReplay, for any number of sessions and rows and any page size.
THEOREM ReplayTypeCorrect == ReplaySpec => []ReplayTypeOK
<1>1. Store /\ Following => ReplayTypeOK
  BY DEF Store, Following, ReplayTypes, ReplayTypeOK
<1> QED
  BY <1>1, ReplayInvariant, PTL

\* Reading by offset, page by page, in a file that grows and is committed to
\* meanwhile, skips no row and repeats none while no row is stored behind the offset,
\* and a task that stops at the end has pushed every row the file had when it began,
\* unless a query met a commit; for any page size.
THEOREM ReplayFollowsTheFile == ReplaySpec => []ReplayFollows
<1>1. Store /\ Following => ReplayFollows
  <2> SUFFICES ASSUME Store, Following PROVE ReplayFollows
    OBVIOUS
  <2>1. ASSUME stopPushRecord, ~busy
        PROVE  Len(pushed) >= stored
    BY <2>1, EmptySeq, LenProperties DEF Following, Pages, ReplayTypes
  <2> QED
    BY <2>1 DEF Following, ReplayFollows, StopsAtTheEnd
<1> QED
  BY <1>1, ReplayInvariant, PTL

-----------------------------------------------------------------------------
(* The clock of a user is right whatever the times of the recording: the   *)
(* real time it shows at the last message or pause is the recorded time of *)
(* that message and what it was late, which is never negative.             *)

\* What start_real and last mean, between the messages and across pauses.
ClockMeaning ==
    /\ index = 0 => start_record = 0 /\ start_real = 0 /\ last = 0
    /\ index > 0 =>
          /\ start_real > 0
          /\ last > 0
          /\ last = restAt
          /\ late >= 0
          /\ last - start_real = (messageList[index].time - start_record) + late

ClockInv == ClockTypeOK /\ ClockMeaning

\* The present is a positive time.
LEMMA StartPositive == StartNow \in Nat /\ 0 < StartNow
<1>1. StartNow \in Nat
  BY ClockAssumption
<1>2. 0 < StartNow
  BY ClockAssumption
<1> QED BY <1>1, <1>2

\* Messages are recorded before the present.
LEMMA MessageTimes ==
    ASSUME NEW m \in Messages
    PROVE  m.time \in Nat /\ m.time < StartNow
<1>1. m.time \in RecordTimes \cup {0}
  BY DEF Messages
<1>2. CASE m.time \in RecordTimes
  BY <1>2, ClockAssumption
<1>3. CASE m.time = 0
  BY <1>3, StartPositive
<1> QED BY <1>1, <1>2, <1>3

\* The initial state satisfies the invariant of the clock.
LEMMA ClockBegins == ClockInit => ClockInv
<1> SUFFICES ASSUME ClockInit PROVE ClockInv
  OBVIOUS
<1>1. StartNow \in Nat /\ nowtime = StartNow /\ 0 < StartNow
  BY StartPositive DEF ClockInit
<1>2. messageList \in Seq(Messages) /\ Len(messageList) = 0 /\ index = 0
  BY DEF ClockInit
<1>3. 0 \in 0..nowtime /\ 0 \in 0..Len(messageList) /\ nowtime >= StartNow
  BY <1>1, <1>2
<1>4. ClockTypeOK
  <2>1. stopMessageCache \in BOOLEAN /\ ignoreErr \in BOOLEAN /\ SelfDead \in BOOLEAN /\ ended \in BOOLEAN
    BY Zenon DEF ClockInit
  <2>2. /\ index \in 0..Len(messageList) /\ start_record \in RecordTimes \cup {0} /\ start_real \in Nat
        /\ last \in 0..nowtime /\ restAt \in 0..nowtime /\ late \in Int /\ PlayMode \in Modes
    BY <1>2, <1>3 DEF ClockInit, Modes
  <2> QED BY <1>1, <1>2, <1>3, <2>1, <2>2 DEF ClockTypeOK
<1>5. ClockMeaning
  BY <1>2 DEF ClockInit, ClockMeaning
<1> QED BY <1>4, <1>5 DEF ClockInv

\* The clock when the next message is looked at.
LEMMA ClockShows ==
    ASSUME ClockInv, HasNext, index > 0
    PROVE  /\ index \in Nat /\ nowtime \in Nat /\ restAt \in Nat
           /\ start_real \in Nat /\ start_record \in Nat /\ late \in Nat
           /\ NextMessage.time \in Nat /\ messageList[index].time \in Nat
           /\ restAt - start_real = (messageList[index].time - start_record) + late
           /\ Gap = NextMessage.time - messageList[index].time
           /\ FirstOf(NextMessage) = start_record /\ OriginOf(NextMessage) = start_real
<1>1. /\ index \in 1..Len(messageList) /\ index + 1 \in 1..Len(messageList)
      /\ messageList \in Seq(Messages)
  BY DEF ClockInv, ClockTypeOK, HasNext
<1>2. messageList[index] \in Messages /\ NextMessage \in Messages
  BY <1>1 DEF NextMessage
<1>3. messageList[index].time \in Nat /\ NextMessage.time \in Nat
  BY <1>2, MessageTimes
<1>4. start_record \in Nat
  BY ClockAssumption DEF ClockInv, ClockTypeOK
<1>5. /\ index \in Nat /\ nowtime \in Nat /\ restAt \in Nat /\ start_real \in Nat /\ late \in Nat
      /\ start_real > 0
      /\ restAt - start_real = (messageList[index].time - start_record) + late
  BY DEF ClockInv, ClockTypeOK, ClockMeaning
<1>6. FirstOf(NextMessage) = start_record /\ OriginOf(NextMessage) = start_real
  BY <1>5 DEF FirstOf, OriginOf
<1> QED BY <1>3, <1>4, <1>5, <1>6 DEF Gap, NextMessage

\* A user that begins again has a clock that has not started.
LEMMA ClockRestart ==
    ASSUME ClockInv, Restart, UNCHANGED <<nowtime, taskVars>>,
           restAt' \in 0..nowtime, late' \in Int, ended' \in BOOLEAN
    PROVE  ClockInv'
<1>1. index' = 0 /\ Len(messageList') \in Nat /\ nowtime' = nowtime /\ nowtime \in Nat
  BY DEF Restart, ClockInv, ClockTypeOK, taskVars
<1>2. ClockTypeOK'
  <2>1. index' = 0 /\ start_record' = 0 /\ start_real' = 0 /\ last' = 0
    BY DEF Restart
  <2>2. index' \in 0..Len(messageList') /\ start_real' \in Nat /\ last' \in 0..nowtime' /\ restAt' \in 0..nowtime'
    BY <1>1, <2>1
  <2>3. start_record' \in RecordTimes \cup {0}
    BY <2>1
  <2>4. PlayMode' \in Modes
    BY DEF Restart, Modes
  <2>5. SelfDead' \in BOOLEAN
    BY Zenon DEF Restart
  <2> QED BY <1>1, <2>2, <2>3, <2>4, <2>5 DEF ClockInv, ClockTypeOK, taskVars
<1>3. ClockMeaning'
  BY <1>1 DEF ClockMeaning, Restart
<1> QED BY <1>2, <1>3 DEF ClockInv

\* Replaying a message that is due keeps the meaning of the clock.
LEMMA ClockPlay ==
    ASSUME ClockInv, Alive, HasNext, Due(NextMessage),
           start_record' = FirstOf(NextMessage), last' = nowtime, index' = index + 1,
           PlayMode' \in Modes, SelfDead' \in BOOLEAN,
           restAt' = nowtime, late' = Lateness, UNCHANGED <<nowtime, taskVars, ended>>
    PROVE  ClockInv'
<1> DEFINE m == NextMessage
<1>1. m \in Messages /\ m.time \in Nat /\ m.time < StartNow
  BY MessageTimes DEF ClockInv, ClockTypeOK, HasNext, NextMessage
<1>2. m.time \in RecordTimes \cup {0}
  BY <1>1 DEF Messages
<1>3. messageList' = messageList /\ index + 1 \in 1..Len(messageList) /\ messageList[index + 1] = m
  BY DEF ClockInv, ClockTypeOK, HasNext, NextMessage, taskVars
<1>4. CASE index = 0
  <2>1. FirstOf(m) = m.time /\ OriginOf(m) = nowtime
    BY <1>4 DEF ClockInv, ClockMeaning, FirstOf, OriginOf
  <2>2. start_real' = nowtime /\ start_record' = m.time /\ late' = 0
    BY <2>1, <1>1, <1>4 DEF Due, Lateness, ClockInv, ClockTypeOK
  <2> QED BY <2>2, <1>1, <1>2, <1>3, <1>4, ClockAssumption DEF ClockInv, ClockTypeOK, ClockMeaning, taskVars
<1>5. CASE index > 0
  <2>1. /\ start_real > 0 /\ last = restAt /\ late >= 0
        /\ last - start_real = (messageList[index].time - start_record) + late
        /\ start_record \in Nat /\ start_real \in Nat /\ nowtime \in Nat /\ nowtime >= StartNow
        /\ last \in 0..nowtime /\ late \in Int /\ StartNow \in Nat
        /\ messageList[index].time \in Nat
    BY <1>5, MessageTimes, ClockAssumption DEF ClockInv, ClockTypeOK, ClockMeaning
  <2>2. FirstOf(m) = start_record /\ OriginOf(m) = start_real /\ start_record' = start_record
    BY <2>1 DEF FirstOf, OriginOf
  <2>3. CASE PlayMode = "FAST"
    <3>1. start_real' = nowtime - (m.time - start_record) /\ late' = 0
      BY <2>2, <2>3 DEF Due, Lateness
    <3>2. start_real' \in Nat /\ start_real' > 0
      BY <3>1, <2>1, <1>1
    <3>3. ClockTypeOK'
      BY <3>1, <3>2, <2>1, <2>2, <1>1, <1>2, <1>3 DEF ClockInv, ClockTypeOK, taskVars
    <3>4. last' - start_real' = (m.time - start_record') + late'
      BY <3>1, <2>1, <2>2, <1>1
    <3>5. index' > 0 /\ last' > 0 /\ last' = restAt' /\ messageList'[index'] = m
      BY <2>1, <1>3, <1>5, StartPositive DEF ClockInv, ClockTypeOK
    <3>6. ClockMeaning'
      BY <3>1, <3>2, <3>4, <3>5 DEF ClockMeaning
    <3> QED BY <3>3, <3>6 DEF ClockInv
  <2>4. CASE PlayMode = "NORMAL"
    <3>1. start_real' = start_real /\ nowtime - start_real >= m.time - start_record
      BY <2>2, <2>4 DEF Due
    <3>2. late' = (nowtime - restAt) - ((m.time - messageList[index].time) - late)
      BY <2>4, <1>3, <1>5 DEF Lateness, Gap
    <3>3. late' \in Int /\ late' >= 0
      BY <3>1, <3>2, <2>1, <1>1
    <3>4. ClockTypeOK'
      BY <3>1, <3>3, <2>1, <2>2, <1>1, <1>2, <1>3 DEF ClockInv, ClockTypeOK, taskVars
    <3>5. last' - start_real' = (m.time - start_record') + late'
      <4>1. last' = nowtime /\ start_real' = start_real /\ start_record' = start_record
        BY <3>1, <2>2
      <4>2. nowtime - start_real = (m.time - start_record) + late'
        BY <3>2, <2>1, <1>1
      <4> QED BY <4>1, <4>2
    <3>6. index' > 0 /\ start_real' > 0 /\ last' > 0 /\ last' = restAt' /\ messageList'[index'] = m
      BY <3>1, <2>1, <1>3, <1>5, StartPositive DEF ClockInv, ClockTypeOK
    <3>7. ClockMeaning'
      BY <3>3, <3>5, <3>6 DEF ClockMeaning
    <3> QED BY <3>4, <3>7 DEF ClockInv
  <2> QED BY <2>3, <2>4 DEF Due
<1> QED BY <1>4, <1>5 DEF ClockInv, ClockTypeOK

\* Every step keeps the invariant of the clock.
LEMMA ClockStep == ClockInv /\ [ClockNext]_clockVars => ClockInv'
<1> SUFFICES ASSUME ClockInv, [ClockNext]_clockVars PROVE ClockInv'
  OBVIOUS
<1>1. CASE Tick
  <2>1. nowtime' = nowtime + 1 /\ nowtime \in Nat /\ last \in 0..nowtime /\ restAt \in 0..nowtime /\ nowtime >= StartNow /\ StartNow \in Nat
    BY <1>1, StartPositive DEF Tick, ClockInv, ClockTypeOK
  <2>2. nowtime' \in Nat /\ last \in 0..nowtime' /\ restAt \in 0..nowtime' /\ nowtime' >= StartNow
    BY <2>1
  <2>3. ClockTypeOK'
    BY <1>1, <2>2 DEF Tick, ClockInv, ClockTypeOK, taskVars, userVars, pointer, history
  <2>4. ClockMeaning'
    BY <1>1 DEF Tick, ClockInv, ClockMeaning, taskVars, userVars, pointer, history
  <2> QED BY <2>3, <2>4 DEF ClockInv
<1>2. ASSUME NEW m \in Messages, insert_message_by_taskId(m) PROVE ClockInv'
  <2>1. messageList' = Append(messageList, m) /\ messageList' \in Seq(Messages)
    BY <1>2 DEF insert_message_by_taskId, ClockInv, ClockTypeOK
  <2>2. Len(messageList') = Len(messageList) + 1 /\ \A i \in 1..Len(messageList) : messageList'[i] = messageList[i]
    BY <2>1 DEF ClockInv, ClockTypeOK
  <2> QED BY <1>2, <2>1, <2>2 DEF insert_message_by_taskId, ClockInv, ClockTypeOK, ClockMeaning, userVars, pointer, history
<1>3. CASE ReplayMessage
  BY <1>3, ClockPlay DEF ReplayMessage, Handler, ClockInv, ClockTypeOK
<1>4. CASE ReplayEnd
  <2>1. restAt' = nowtime /\ late' = Lateness /\ UNCHANGED <<nowtime, taskVars, ended>> /\ Alive /\ HasNext
    BY <1>4 DEF ReplayEnd
  <2>2. CASE Restart
    <3>1. late' \in Int
      <4>1. CASE index = 0
        BY <2>1, <4>1 DEF Lateness
      <4>2. CASE index > 0
        BY <2>1, <4>2, ClockShows DEF Lateness
      <4> QED BY <4>1, <4>2 DEF ClockInv, ClockTypeOK
    <3>2. restAt' \in 0..nowtime /\ ended' \in BOOLEAN
      BY <2>1 DEF ClockInv, ClockTypeOK
    <3> QED BY <2>1, <2>2, <3>1, <3>2, ClockRestart
  <2>3. CASE ~Restart
    BY <1>4, <2>1, <2>3, ClockPlay DEF ReplayEnd, ClockInv, ClockTypeOK
  <2> QED BY <2>2, <2>3
<1>5. CASE EventTimeOut
  BY <1>5 DEF EventTimeOut, Handler, ClockInv, ClockTypeOK, ClockMeaning, taskVars, pointer, history
<1>6. CASE Pause
  <2>1. /\ last \in 0..nowtime /\ nowtime \in Nat /\ start_real \in Nat /\ index \in Nat /\ restAt \in 0..nowtime
        /\ index = 0 => last = 0 /\ start_real = 0
        /\ index > 0 => last > 0 /\ start_real > 0
    BY <1>6 DEF ClockInv, ClockTypeOK, ClockMeaning
  <2>2. CASE index = 0
    <3>1. UNCHANGED <<nowtime, taskVars, pointer, ended, history>>
      BY <1>6, <2>1, <2>2 DEF Pause, update_user_time_clock, pointer, history
    <3> QED BY <1>6, <3>1 DEF Pause, Handler, ClockInv, ClockTypeOK, ClockMeaning, taskVars, pointer, history
  <2>3. CASE index > 0
    <3>1. last' = nowtime /\ restAt' = nowtime /\ start_real' = start_real + (nowtime - last) /\ nowtime > 0
      BY <1>6, <2>1, <2>3 DEF Pause, update_user_time_clock
    <3>2. start_real' \in Nat /\ start_real' > 0 /\ last' \in 0..nowtime /\ last' - start_real' = last - start_real
      BY <3>1, <2>1
    <3>3. ClockTypeOK'
      BY <1>6, <3>1, <3>2 DEF Pause, Handler, ClockInv, ClockTypeOK, taskVars
    <3>4. ClockMeaning'
      BY <1>6, <2>3, <3>1, <3>2 DEF Pause, ClockInv, ClockMeaning, taskVars
    <3> QED BY <3>3, <3>4 DEF ClockInv
  <2> QED BY <2>1, <2>2, <2>3
<1>7. CASE userWorkFunc_dead
  <2>1. CASE Restart
    BY <1>7, <2>1, ClockRestart DEF userWorkFunc_dead, ClockInv, ClockTypeOK
  <2>2. CASE ~Restart
    BY <1>7, <2>2 DEF userWorkFunc_dead, ClockInv, ClockTypeOK, ClockMeaning, taskVars, pointer
  <2> QED BY <2>1, <2>2
<1>8. CASE Callback
  BY <1>8 DEF Callback, Handler, ClockInv, ClockTypeOK, ClockMeaning, taskVars, pointer, history
<1>9. CASE task_add_user
  BY <1>9, ClockRestart DEF task_add_user, ClockInv, ClockTypeOK
<1>10. CASE UNCHANGED clockVars
  BY <1>10 DEF clockVars, ClockInv, ClockTypeOK, ClockMeaning, taskVars, userVars, pointer, history
<1> QED BY <1>1, <1>2, <1>3, <1>4, <1>5, <1>6, <1>7, <1>8, <1>9, <1>10 DEF ClockNext, userWorkFunc

\* The clock of a user (TaskManager.cpp:148-178 and :28-38) keeps its meaning for
\* every recording, number of messages and way of passing through pauses.
THEOREM ClockCorrect == ClockSpec => []ClockInv
<1>1. ClockInit => ClockInv
  BY ClockBegins
<1>2. ClockInv /\ [ClockNext]_clockVars => ClockInv'
  BY ClockStep
<1> QED BY <1>1, <1>2, PTL DEF ClockSpec

\* Type correctness of the clock.
THEOREM ClockTypeCorrect == ClockSpec => []ClockTypeOK
<1>1. ClockInv => ClockTypeOK
  BY DEF ClockInv
<1> QED BY <1>1, ClockCorrect, PTL

-----------------------------------------------------------------------------
\* What the meaning of the clock says of the steps.

\* Only a message that is due moves the pointer forward.
LEMMA ClockAdvance ==
    ASSUME ClockInv, [ClockNext]_clockVars, index' = index + 1
    PROVE  HasNext /\ Due(NextMessage)
<1>1. index \in Nat
  BY DEF ClockInv, ClockTypeOK
<1>2. index' # index /\ index' # 0
  BY <1>1
<1>3. ~Restart
  BY <1>2 DEF Restart
<1>4. ReplayMessage \/ ReplayEnd
  BY <1>2, <1>3 DEF ClockNext, userWorkFunc, clockVars, userVars, pointer, Tick, insert_message_by_taskId,
                    EventTimeOut, Pause, userWorkFunc_dead, Callback, task_add_user
<1> QED BY <1>3, <1>4 DEF ReplayMessage, ReplayEnd

\* task_get_next_message replays no message in normal mode before its recorded
\* distance from the one before has passed, except for what that one was late.
THEOREM GapCorrect == ClockSpec => GapKept
<1> DEFINE A == index > 0 /\ index' = index + 1 /\ PlayMode = "NORMAL" => nowtime - restAt >= Gap - late
<1>1. ClockInv /\ [ClockNext]_clockVars => [A]_clockVars
  <2> SUFFICES ASSUME ClockInv, [ClockNext]_clockVars, index > 0, index' = index + 1, PlayMode = "NORMAL"
               PROVE  nowtime - restAt >= Gap - late
    OBVIOUS
  <2>1. HasNext /\ Due(NextMessage)
    BY ClockAdvance
  <2>2. nowtime - start_real >= NextMessage.time - start_record
    BY <2>1, ClockShows DEF Due
  <2> QED BY <2>1, <2>2, ClockShows
<1> QED BY <1>1, ClockCorrect, PTL DEF ClockSpec, GapKept

\* An expiry of userWorkFunc in normal mode replays the first message, and every
\* one whose recorded distance from the one before or from the last pause has passed.
THEOREM DueCorrect == ClockSpec => DueIsPlayed
<1> DEFINE A == userWorkFunc /\ Alive /\ HasNext /\ PlayMode = "NORMAL" /\ (index = 0 \/ nowtime - restAt >= Gap)
                  => NextMessage.type = "LOOP" \/ index' = index + 1
<1>1. ClockInv /\ [ClockNext]_clockVars => [A]_clockVars
  <2> SUFFICES ASSUME ClockInv, userWorkFunc, Alive, HasNext, PlayMode = "NORMAL",
                      index = 0 \/ nowtime - restAt >= Gap
               PROVE  NextMessage.type = "LOOP" \/ index' = index + 1
    OBVIOUS
  <2>1. IsDue(NextMessage)
    <3>1. CASE index = 0
      <4>1. NextMessage \in Messages /\ NextMessage.time \in Nat /\ nowtime \in Nat
        BY MessageTimes DEF ClockInv, ClockTypeOK, HasNext, NextMessage
      <4>2. FirstOf(NextMessage) = NextMessage.time /\ OriginOf(NextMessage) = nowtime
        BY <3>1 DEF ClockInv, ClockMeaning, FirstOf, OriginOf
      <4> QED BY <4>1, <4>2 DEF IsDue
    <3>2. CASE index > 0
      <4>1. nowtime - start_real >= NextMessage.time - start_record
        BY <3>2, ClockShows
      <4> QED BY <4>1, <3>2, ClockShows DEF IsDue
    <3> QED BY <3>1, <3>2 DEF ClockInv, ClockTypeOK
  <2>2. ReplayMessage \/ ReplayEnd
    BY <2>1 DEF userWorkFunc, EventTimeOut, Pause, userWorkFunc_dead, Alive
  <2> QED BY <2>2 DEF ReplayMessage, ReplayEnd
<1> QED BY <1>1, ClockCorrect, PTL DEF ClockSpec, DueIsPlayed
=============================================================================
