----------------------------- MODULE RecordStore -----------------------------
(***************************************************************************)
(* The recording of the proxy (ServerProxy.cpp): the threads that relay    *)
(* traffic append records to one of two lists, the main loop exchanges the *)
(* lists and writes the other to the database in one transaction, and the  *)
(* console switches the recording and renames the database.                *)
(*                                                                         *)
(* A record is the time it was taken, which is unique, and its session.    *)
(* The traffic of a session of the proxy is relayed by one thread at a     *)
(* time, under the lock of its protocol object.  The database is its rows  *)
(* in the order of their ids; the tables it splits them into are left out. *)
(***************************************************************************)
EXTENDS Integers, Sequences, SequencesExt

CONSTANTS Sessions,   \* of the proxy
          MaxTime,    \* bound on the records taken
          Faults,     \* allocations and statements may fail
          Renames,    \* the console renames the database
          Readers     \* a task or a console reads the database

ASSUME TimeAssumption == MaxTime \in Nat
ASSUME FlagAssumption == Faults \in BOOLEAN /\ Renames \in BOOLEAN /\ Readers \in BOOLEAN

VARIABLES
    Proxy_record,
    now,          \* the time of the last record
    pc,           \* per session: where insert_msg_to_record_list stands
    inHand,       \* per session: the time of the record about to be appended
    lists,        \* the two lists ...
    recordList,   \* ... the one appended to, newrecordList is the other
    fpc,          \* where the main loop stands in insert_msg_recodr_db
    done,         \* the records of the old list it has dealt with
    mysql,        \* the connection: "open", "begun" in a transaction, "closed"
    txn,          \* rows of the transaction
    data,         \* rows of the file
    renamed,      \* rows of the files renamed before
    rpc,          \* where ChangeDatabaseName stands
    reading       \* another connection is in the middle of a query

writeVars == <<now, pc, inHand>>
fileVars  == <<mysql, txn, data, renamed>>
vars == <<Proxy_record, writeVars, lists, recordList, fpc, done, fileVars, rpc, reading>>

Records == [time : 1..MaxTime, session : Sessions]

newrecordList == IF recordList = "A" THEN "B" ELSE "A"

-----------------------------------------------------------------------------
\* The threads that relay

\* A message is relayed, a connection made or closed while recording is on.
RecordOn(s) ==
    /\ pc[s] = "idle"
    /\ Proxy_record
    /\ pc' = [pc EXCEPT ![s] = "record"]
    /\ UNCHANGED <<Proxy_record, now, inHand, lists, recordList, fpc, done, fileVars, rpc, reading>>

\* The time is taken before the lock.
TakeTime(s) ==
    /\ pc[s] = "record"
    /\ now < MaxTime
    /\ now' = now + 1
    /\ inHand' = [inHand EXCEPT ![s] = now + 1]
    /\ pc' = [pc EXCEPT ![s] = "push"]
    /\ UNCHANGED <<Proxy_record, lists, recordList, fpc, done, fileVars, rpc, reading>>

NoMemory(s) ==
    /\ Faults
    /\ pc[s] = "record"
    /\ pc' = [pc EXCEPT ![s] = "idle"]
    /\ UNCHANGED <<Proxy_record, now, inHand, lists, recordList, fpc, done, fileVars, rpc, reading>>

\* Mutant: the list is filled from its front.
insert_msg_to_record_list_Front(s) ==
    /\ pc[s] = "push"
    /\ lists' = [lists EXCEPT ![recordList] = <<[time |-> inHand[s], session |-> s]>> \o @]
    /\ inHand' = [inHand EXCEPT ![s] = 0]
    /\ pc' = [pc EXCEPT ![s] = "idle"]
    /\ UNCHANGED <<Proxy_record, now, recordList, fpc, done, fileVars, rpc, reading>>

\* Under recordListLock.
insert_msg_to_record_list(s) ==
    /\ pc[s] = "push"
    /\ lists' = [lists EXCEPT ![recordList] = Append(@, [time |-> inHand[s], session |-> s])]
    /\ inHand' = [inHand EXCEPT ![s] = 0]
    /\ pc' = [pc EXCEPT ![s] = "idle"]
    /\ UNCHANGED <<Proxy_record, now, recordList, fpc, done, fileVars, rpc, reading>>

-----------------------------------------------------------------------------
\* The main loop

\* Mutant: the test of the time since the last flush is dropped.
FlushDue_Size == Len(lists[recordList]) > 2

\* More than 10 records, or one and 5 seconds since the last flush, which come.
FlushDue == lists[recordList] # <<>>

\* Without the lock.
TestSize ==
    /\ fpc = "idle"
    /\ FlushDue
    /\ fpc' = "swap"
    /\ UNCHANGED <<Proxy_record, writeVars, lists, recordList, done, fileVars, rpc, reading>>

\* Under recordListLock.
SwapLists ==
    /\ fpc = "swap"
    /\ recordList' = newrecordList
    /\ done' = 0
    /\ fpc' = "begin"
    /\ UNCHANGED <<Proxy_record, writeVars, lists, fileVars, rpc, reading>>

Begin ==
    /\ fpc = "begin"
    /\ mysql' = IF mysql = "open" THEN "begun" ELSE mysql
    /\ fpc' = "insert"
    /\ UNCHANGED <<Proxy_record, writeVars, lists, recordList, done, txn, data, renamed, rpc, reading>>

\* insert_table, again after a cratet_table when it failed: a row of the
\* transaction, or of the file outside of one, which fails while another
\* connection reads; without a connection it fails.
insert_table ==
    /\ fpc = "insert"
    /\ done < Len(lists[newrecordList])
    /\ LET row == lists[newrecordList][done + 1] IN
          \/ mysql = "begun" /\ txn' = Append(txn, row) /\ UNCHANGED data
          \/ mysql = "open" /\ ~reading /\ data' = Append(data, row) /\ UNCHANGED txn
          \/ (Faults \/ mysql = "closed" \/ (mysql = "open" /\ reading)) /\ UNCHANGED <<txn, data>>
    /\ done' = done + 1
    /\ UNCHANGED <<Proxy_record, writeVars, lists, recordList, fpc, mysql, renamed, rpc, reading>>

\* Mutant: the old list is not cleared.
Commit_NoClear ==
    /\ fpc = "insert"
    /\ done = Len(lists[newrecordList])
    /\ \/ /\ mysql = "begun" /\ ~reading
          /\ data' = data \o txn
          /\ txn' = <<>>
          /\ mysql' = "open"
       \/ /\ mysql # "begun" \/ Faults \/ reading
          /\ UNCHANGED <<mysql, txn, data>>
    /\ done' = 0
    /\ fpc' = "idle"
    /\ UNCHANGED <<Proxy_record, writeVars, lists, recordList, renamed, rpc, reading>>

\* The transaction is committed, or stays open when that fails, as it does while
\* another connection reads (SQLITE_BUSY); the old list is cleared all the same.
Commit ==
    /\ fpc = "insert"
    /\ done = Len(lists[newrecordList])
    /\ \/ /\ mysql = "begun" /\ ~reading
          /\ data' = data \o txn
          /\ txn' = <<>>
          /\ mysql' = "open"
       \/ /\ mysql # "begun" \/ Faults \/ reading
          /\ UNCHANGED <<mysql, txn, data>>
    /\ lists' = [lists EXCEPT ![newrecordList] = <<>>]
    /\ done' = 0
    /\ fpc' = "idle"
    /\ UNCHANGED <<Proxy_record, writeVars, recordList, renamed, rpc, reading>>

-----------------------------------------------------------------------------
\* Consoles

do_proxy_record_chang(record) ==
    /\ Proxy_record' = record
    /\ UNCHANGED <<writeVars, lists, recordList, fpc, done, fileVars, rpc, reading>>

ChangeDatabaseName ==
    /\ Renames
    /\ rpc = "none"
    /\ ~Proxy_record
    /\ rpc' = "close"
    /\ UNCHANGED <<Proxy_record, writeVars, lists, recordList, fpc, done, fileVars, reading>>

\* sqlite3_close rolls an open transaction back.
CloseDatabase ==
    /\ rpc = "close"
    /\ mysql' = "closed"
    /\ txn' = <<>>
    /\ rpc' = "rename"
    /\ UNCHANGED <<Proxy_record, writeVars, lists, recordList, fpc, done, data, renamed, reading>>

\* rename: the rows go with the file; it may fail.
RenameFile ==
    /\ rpc = "rename"
    /\ \/ data' = <<>> /\ renamed' = renamed \o data
       \/ UNCHANGED <<data, renamed>>
    /\ rpc' = "open"
    /\ UNCHANGED <<Proxy_record, writeVars, lists, recordList, fpc, done, mysql, txn, reading>>

OpenDatabase ==
    /\ rpc = "open"
    /\ mysql' = "open"
    /\ rpc' = "none"
    /\ UNCHANGED <<Proxy_record, writeVars, lists, recordList, fpc, done, txn, data, renamed, reading>>

-----------------------------------------------------------------------------
\* Queries on connections of their own: task_get_record_msg, do_proxy_record_list.
BeginRead ==
    /\ Readers
    /\ ~reading
    /\ reading' = TRUE
    /\ UNCHANGED <<Proxy_record, writeVars, lists, recordList, fpc, done, fileVars, rpc>>

EndRead ==
    /\ reading
    /\ reading' = FALSE
    /\ UNCHANGED <<Proxy_record, writeVars, lists, recordList, fpc, done, fileVars, rpc>>

-----------------------------------------------------------------------------
Init ==
    /\ Proxy_record = FALSE
    /\ now = 0
    /\ pc = [s \in Sessions |-> "idle"]
    /\ inHand = [s \in Sessions |-> 0]
    /\ lists = [l \in {"A", "B"} |-> <<>>]
    /\ recordList = "A"
    /\ fpc = "idle"
    /\ done = 0
    /\ mysql = "open"
    /\ txn = <<>>
    /\ data = <<>>
    /\ renamed = <<>>
    /\ rpc = "none"
    /\ reading = FALSE

Relay(s) == RecordOn(s) \/ TakeTime(s) \/ NoMemory(s) \/ insert_msg_to_record_list(s)

insert_msg_recodr_db == TestSize \/ SwapLists \/ Begin \/ insert_table \/ Commit

Console ==
    \/ \E record \in BOOLEAN : do_proxy_record_chang(record)
    \/ ChangeDatabaseName
    \/ CloseDatabase
    \/ RenameFile
    \/ OpenDatabase

Next ==
    \/ \E s \in Sessions : Relay(s)
    \/ insert_msg_recodr_db
    \/ Console
    \/ BeginRead
    \/ EndRead

Spec == Init /\ [][Next]_vars

-----------------------------------------------------------------------------
\* Type invariant of the variables above.
TypeOK ==
    /\ Proxy_record \in BOOLEAN
    /\ now \in 0..MaxTime
    /\ pc \in [Sessions -> {"idle", "record", "push"}]
    /\ inHand \in [Sessions -> 0..MaxTime]
    /\ lists \in [{"A", "B"} -> Seq(Records)]
    /\ recordList \in {"A", "B"}
    /\ fpc \in {"idle", "swap", "begin", "insert"}
    /\ done \in 0..Len(lists[newrecordList])
    /\ mysql \in {"open", "begun", "closed"}
    /\ txn \in Seq(Records)
    /\ data \in Seq(Records)
    /\ renamed \in Seq(Records)
    /\ rpc \in {"none", "close", "rename", "open"}
    /\ reading \in BOOLEAN

\* The rows that survive the program.
Kept == renamed \o data

\* The records appended and not yet written, in the order they will be.
Pending ==
    txn \o SubSeq(lists[newrecordList], done + 1, Len(lists[newrecordList])) \o lists[recordList]

Log == INSTANCE RecordLog WITH Lossy <- Faults \/ Renames,
                               pending <- Pending, kept <- Kept

\* The two lists, the exchange and the transaction behave as one log: whatever is
\* appended during a flush, records are written in the order they were appended,
\* each once; and without failures and renames none is lost.
LogSpec == Log!Spec

\* What is known of a session is in the order it happened: the times of its
\* records grow, in the file as in what waits, although a time is taken before
\* the lock and the list is written by another thread.
SessionOrder ==
    LET all == Kept \o Pending IN
    \A i, j \in DOMAIN all : i < j /\ all[i].session = all[j].session => all[i].time < all[j].time

\* Every record appended is written in the end, to the file or to a transaction
\* that is open.
EveryRecordWritten ==
    \A t \in 1..MaxTime :
        (\E s \in Sessions : inHand[s] = t) ~> \E i \in DOMAIN (Kept \o txn) : (Kept \o txn)[i].time = t
=============================================================================
