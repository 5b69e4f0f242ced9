----------------------------- MODULE LiveReplay -----------------------------
(***************************************************************************)
(* A running task reads the messages it replays from the database, here    *)
(* while the proxy may still be recording into it: the thread of the task  *)
(* (ServerConsole.cpp) beside RecordStore.  It reads a page of rows in the *)
(* order of their times, beginning where the last page ended, pushes them  *)
(* one by one to the agents and asks for the next page.                    *)
(*                                                                         *)
(* One task on the current database, which is not renamed, and memory for  *)
(* every message; that consoles stop it is in TaskConsole.  When a message *)
(* is due only delays its push.                                            *)
(***************************************************************************)
EXTENDS RecordStore

CONSTANTS LoopModes,  \* 0 and 1 stop at the end, 2 goes on
          PageSize    \* rows of a query: 100

ASSUME ReplayAssumption == LoopModes \subseteq 0..2 /\ PageSize \in Nat \ {0}

VARIABLES
    LoopMode,        \* as the task was created
    stage,           \* of the task: "INIT", "LOOP"
    startRow,        \* rows read
    tempMsg,         \* messages of the last page, to push
    pushed,          \* history: messages pushed to the agents
    stopPushRecord,
    stored,          \* history: rows the file had when the task began
    overtaken,       \* history: a row was stored that is older than one read
    busy             \* history: a query failed because of a commit

replayVars == <<stage, startRow, tempMsg, pushed, stopPushRecord, stored, overtaken, busy>>
allVars == <<vars, LoopMode, replayVars>>

\* The rows in the order of their times, no two of which are equal: the n-th is
\* the one with n - 1 before it.
Before(rows, i) == {k \in DOMAIN rows : rows[k].time < rows[i].time}
Place(rows, n)  == CHOOSE i \in DOMAIN rows : Cardinality(Before(rows, i)) = n - 1
ByTime(rows)    == [n \in 1..Len(rows) |-> rows[Place(rows, n)]]

-----------------------------------------------------------------------------
\* task_push_init opens the database.
task_push_init ==
    /\ stage = "INIT"
    /\ stage' = "LOOP"
    /\ stored' = Len(data)
    /\ UNCHANGED <<vars, startRow, tempMsg, pushed, stopPushRecord, overtaken, busy>>

\* The query is refused while a commit holds the file.
CommitUnderWay == mysql = "begun" /\ fpc = "insert" /\ done = Len(lists[newrecordList])

Pushing == stage = "LOOP" /\ ~stopPushRecord

task_get_record_msg ==
    /\ Pushing
    /\ tempMsg = <<>>
    /\ BeginRead
    /\ UNCHANGED replayVars

\* Mutant: the offset moves by a whole page.
ReadRows_FullPage ==
    LET rows == SubSeq(ByTime(data), startRow + 1, Min({startRow + PageSize, Len(data)})) IN
    /\ startRow' = Min({startRow + PageSize, MaxTime})
    /\ tempMsg' = rows
    /\ stopPushRecord' = (rows = <<>> /\ LoopMode # 2)

\* Mutant: no order by.
ReadRows_ByRowid ==
    LET rows == SubSeq(data, startRow + 1, Min({startRow + PageSize, Len(data)})) IN
    /\ startRow' = startRow + Len(rows)
    /\ tempMsg' = rows
    /\ stopPushRecord' = (rows = <<>> /\ LoopMode # 2)

\* Mutant: the end of the file stops a task that replays live, too.
ReadRows_AlwaysStops ==
    LET rows == SubSeq(ByTime(data), startRow + 1, Min({startRow + PageSize, Len(data)})) IN
    /\ startRow' = startRow + Len(rows)
    /\ tempMsg' = rows
    /\ stopPushRecord' = (rows = <<>>)

\* " order by recordtime limit startRow,100", up to task_stop_push_msg.
ReadRows ==
    LET rows == SubSeq(ByTime(data), startRow + 1, Min({startRow + PageSize, Len(data)})) IN
    /\ startRow' = startRow + Len(rows)
    /\ tempMsg' = rows
    /\ stopPushRecord' = (rows = <<>> /\ LoopMode # 2)

task_get_record_msg_rows ==
    /\ Pushing
    /\ reading
    /\ ReadRows
    /\ EndRead
    /\ UNCHANGED <<stage, pushed, stored, overtaken, busy>>

\* No row, as at the end of the file.
task_get_record_msg_busy ==
    /\ Pushing
    /\ tempMsg = <<>>
    /\ ~reading
    /\ CommitUnderWay
    /\ stopPushRecord' = (LoopMode # 2)
    /\ busy' = TRUE
    /\ UNCHANGED <<vars, stage, startRow, tempMsg, pushed, stored, overtaken>>

task_push_record_msg ==
    /\ Pushing
    /\ tempMsg # <<>>
    /\ pushed' = Append(pushed, Head(tempMsg))
    /\ tempMsg' = Tail(tempMsg)
    /\ UNCHANGED <<vars, stage, startRow, stopPushRecord, stored, overtaken, busy>>

-----------------------------------------------------------------------------
\* The recording goes on beside.
Recording ==
    /\ (\E s \in Sessions : Relay(s)) \/ insert_msg_recodr_db
           \/ \E record \in BOOLEAN : do_proxy_record_chang(record)
    /\ overtaken' = (overtaken \/ \E i \in Len(data) + 1..Len(data'), j \in 1..startRow :
                                      data'[i].time < ByTime(data)[j].time)
    /\ UNCHANGED <<stage, startRow, tempMsg, pushed, stopPushRecord, stored, busy>>

ReplayInit ==
    /\ Init
    /\ LoopMode \in LoopModes
    /\ stage = "INIT"
    /\ startRow = 0
    /\ tempMsg = <<>>
    /\ pushed = <<>>
    /\ stopPushRecord = FALSE
    /\ stored = 0
    /\ overtaken = FALSE
    /\ busy = FALSE

Replay ==
    \/ task_push_init
    \/ task_get_record_msg
    \/ task_get_record_msg_rows
    \/ task_get_record_msg_busy
    \/ task_push_record_msg

ReplayNext == (Recording \/ Replay) /\ UNCHANGED LoopMode

ReplaySpec == ReplayInit /\ [][ReplayNext]_allVars

\* The thread of the task runs, the main loop goes on, and a thread that relays
\* finishes what it has begun.
FairReplaySpec ==
    /\ ReplaySpec
    /\ WF_allVars(Replay /\ UNCHANGED LoopMode)
    /\ WF_vars(insert_msg_recodr_db)
    /\ \A s \in Sessions : WF_vars(insert_msg_to_record_list(s))

-----------------------------------------------------------------------------
\* Type invariant, with that of RecordStore.
ReplayTypeOK ==
    /\ TypeOK
    /\ LoopMode \in LoopModes
    /\ stage \in {"INIT", "LOOP"}
    /\ startRow \in 0..Len(data)
    /\ tempMsg \in Seq(Records)
    /\ pushed \in Seq(Records)
    /\ stopPushRecord \in BOOLEAN
    /\ stored \in 0..Len(data)
    /\ overtaken \in BOOLEAN
    /\ busy \in BOOLEAN

\* Reading by offset in a growing file skips no row and repeats none, as long as
\* no row is stored behind the offset: what is pushed or about to be is the
\* beginning of the file in the order of time, up to the offset.
ReplayInOrder == ~overtaken => pushed \o tempMsg = SubSeq(ByTime(data), 1, startRow)

\* A task that stops at the end has pushed at least the rows the file had when it
\* began, unless a query met a commit.
StopsAtTheEnd == stopPushRecord /\ ~busy /\ ~overtaken => Len(pushed) >= stored

\* A replay follows the file from the beginning to the end, page by page, although
\* the file grows and is committed to meanwhile.
ReplayFollows == ReplayInOrder /\ StopsAtTheEnd

\* A task that goes on (LoopMode 2) while the proxy records pushes every row that
\* is stored.
StoredIsPushed ==
    \A t \in 1..MaxTime : LoopMode = 2 /\ stage = "LOOP" /\ (\E i \in DOMAIN data : data[i].time = t)
        ~> overtaken \/ (\E i \in DOMAIN pushed : pushed[i].time = t)
=============================================================================
