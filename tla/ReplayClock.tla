----------------------------- MODULE ReplayClock -----------------------------
(***************************************************************************)
(* The clock of a user of an agent (TaskManager.cpp): which message of its *)
(* task it replays next and when, through pauses, fast forward, errors and *)
(* the end of the recording.  The messages come while it replays.          *)
(*                                                                         *)
(* The timer expires at any time; the code of the user, a DLL, changes the *)
(* mode and declares the user dead in its events and in the callbacks of   *)
(* its sockets, all under its lock.  The clock runs to MaxNow.             *)
(***************************************************************************)
EXTENDS Integers, Sequences

CONSTANTS RecordTimes,  \* times of recorded messages
          StartNow,     \* the time now, far behind them
          MaxNow,
          MaxMessages   \* bound on the messages of the task

ASSUME ClockAssumption ==
    /\ RecordTimes \subseteq Nat
    /\ StartNow \in Nat \ {0}
    /\ MaxNow \in Nat
    /\ \A t \in RecordTimes : t < StartNow
ASSUME MessageAssumption == MaxMessages \in Nat

VARIABLES
    nowtime,           \* GetSysTimeMicros
    messageList,       \* of the task
    stopMessageCache,
    ignoreErr,         \* a user that fails begins again
    PlayMode,          \* "NORMAL", "PAUSE", "FAST"
    SelfDead,
    index,             \* MsgPointer: messages replayed,
    start_record,      \* ... the time of the first,
    start_real,        \* ... when it was replayed, moved by what is to be left out,
    last,              \* ... and the time of the last message or pause
    ended,             \* the user waits in userDes, without a timer
    restAt,            \* history: when the last message was replayed or a pause seen
    late               \* history: how late the last message was

pointer  == <<index, start_record, start_real, last>>
userVars == <<PlayMode, SelfDead, pointer, ended>>
history  == <<restAt, late>>
taskVars == <<messageList, stopMessageCache, ignoreErr>>
clockVars == <<nowtime, taskVars, userVars, history>>

Modes    == {"NORMAL", "PAUSE", "FAST"}
Messages == [type : {"PLAY", "LOOP", "END"}, time : RecordTimes \cup {0}]

-----------------------------------------------------------------------------
\* Time and the messages of the server

Tick ==
    /\ nowtime < MaxNow
    /\ nowtime' = nowtime + 1
    /\ UNCHANGED <<taskVars, userVars, history>>

\* A message is ignored behind the one that ends the recording (TYPE_REINIT),
\* which has no time of its own.
insert_message_by_taskId(m) ==
    /\ Len(messageList) < MaxMessages
    /\ ~stopMessageCache
    /\ m.type # "PLAY" => m.time = 0
    /\ m.type = "PLAY" => m.time \in RecordTimes
    /\ messageList' = Append(messageList, m)
    /\ stopMessageCache' = (m.type # "PLAY")
    /\ UNCHANGED <<nowtime, ignoreErr, userVars, history>>

-----------------------------------------------------------------------------
\* The user

\* Mutant: the pointer is not reset.
Restart_KeepsPointer ==
    /\ PlayMode' \in Modes /\ SelfDead' \in BOOLEAN
    /\ index' = 0
    /\ UNCHANGED <<start_record, start_real, last>>

\* ReInit(proto, true): the user is alive and in normal mode, unless its code says
\* otherwise in EventReset and EventInit.
Restart ==
    /\ PlayMode' \in Modes /\ SelfDead' \in BOOLEAN
    /\ index' = 0 /\ start_record' = 0 /\ start_real' = 0 /\ last' = 0

\* The events and callbacks of the user.
Handler == PlayMode' \in Modes /\ SelfDead' \in {SelfDead, TRUE}

FirstOf(m)  == IF start_real = 0 THEN m.time ELSE start_record
OriginOf(m) == IF start_real = 0 THEN nowtime ELSE start_real

\* task_get_next_message finds that m is due: fast forward moves the clock, so
\* that it is due now.
Due(m) ==
    \/ PlayMode = "FAST" /\ start_real' = nowtime - (m.time - FirstOf(m))
    \/ /\ PlayMode = "NORMAL"
       /\ nowtime - OriginOf(m) >= m.time - FirstOf(m)
       /\ start_real' = OriginOf(m)

IsDue(m) == PlayMode = "FAST" \/ nowtime - OriginOf(m) >= m.time - FirstOf(m)

Alive == ~ended /\ ~SelfDead
HasNext == index < Len(messageList)
NextMessage == messageList[index + 1]

\* The recorded distance of the next message from the one before.
Gap == messageList[index + 1].time - messageList[index].time

\* How late the next message is when it is replayed now.
Lateness == IF index = 0 \/ PlayMode = "FAST" THEN 0 ELSE (nowtime - restAt) - (Gap - late)

\* An expiry replays the next message: connect, send or close, ...
ReplayMessage ==
    /\ Alive
    /\ HasNext
    /\ NextMessage.type = "PLAY"
    /\ Due(NextMessage)
    /\ start_record' = FirstOf(NextMessage)
    /\ last' = nowtime
    /\ index' = index + 1
    /\ Handler
    /\ restAt' = nowtime
    /\ late' = Lateness
    /\ UNCHANGED <<nowtime, taskVars, ended>>

\* ... or the end of the recording, after which the user begins again or is dead.
ReplayEnd ==
    /\ Alive
    /\ HasNext
    /\ PlayMode # "PAUSE" /\ IsDue(NextMessage)
    /\ \/ NextMessage.type = "LOOP" /\ Restart
       \/ /\ NextMessage.type = "END"
          /\ Due(NextMessage)
          /\ start_record' = FirstOf(NextMessage)
          /\ last' = nowtime
          /\ index' = index + 1
          /\ SelfDead' = TRUE
          /\ UNCHANGED PlayMode
    /\ restAt' = nowtime
    /\ late' = Lateness
    /\ UNCHANGED <<nowtime, taskVars, ended>>

\* No message is due.
EventTimeOut ==
    /\ Alive
    /\ PlayMode # "PAUSE"
    /\ HasNext => ~IsDue(NextMessage)
    /\ Handler
    /\ UNCHANGED <<nowtime, taskVars, pointer, ended, history>>

\* Mutant: the clock is not moved.
update_user_time_clock_KeepsStart ==
    /\ UNCHANGED start_real
    /\ last' = IF last > 0 THEN nowtime ELSE last

update_user_time_clock ==
    /\ start_real' = IF last > 0 THEN start_real + (nowtime - last) ELSE start_real
    /\ last' = IF last > 0 THEN nowtime ELSE last

\* An expiry while the user pauses.
Pause ==
    /\ Alive
    /\ PlayMode = "PAUSE"
    /\ Handler
    /\ update_user_time_clock
    /\ restAt' = IF index > 0 THEN nowtime ELSE restAt
    /\ UNCHANGED <<nowtime, taskVars, index, start_record, ended, late>>

\* An expiry of a dead user: it begins again, or ends with its timer.
userWorkFunc_dead ==
    /\ ~ended
    /\ SelfDead
    /\ \/ ignoreErr /\ Restart /\ UNCHANGED ended
       \/ ~ignoreErr /\ ended' = TRUE /\ UNCHANGED <<PlayMode, SelfDead, pointer>>
    /\ UNCHANGED <<nowtime, taskVars, restAt, late>>

\* A callback of a socket of the user.
Callback ==
    /\ Handler
    /\ UNCHANGED <<nowtime, taskVars, pointer, ended, history>>

\* task_add_user takes the user again.
task_add_user ==
    /\ ended
    /\ Restart
    /\ ended' = FALSE
    /\ UNCHANGED <<nowtime, taskVars, restAt, late>>

-----------------------------------------------------------------------------
ClockInit ==
    /\ nowtime = StartNow
    /\ messageList = <<>>
    /\ stopMessageCache = FALSE
    /\ ignoreErr \in BOOLEAN
    /\ PlayMode \in Modes /\ SelfDead \in BOOLEAN
    /\ index = 0 /\ start_record = 0 /\ start_real = 0 /\ last = 0
    /\ ended = FALSE
    /\ restAt = 0
    /\ late = 0

userWorkFunc == ReplayMessage \/ ReplayEnd \/ EventTimeOut \/ Pause \/ userWorkFunc_dead

ClockNext ==
    \/ Tick
    \/ \E m \in Messages : insert_message_by_taskId(m)
    \/ userWorkFunc
    \/ Callback
    \/ task_add_user

ClockSpec == ClockInit /\ [][ClockNext]_clockVars

-----------------------------------------------------------------------------
\* Type invariant of the variables above.
ClockTypeOK ==
    /\ nowtime \in Nat /\ nowtime >= StartNow
    /\ messageList \in Seq(Messages)
    /\ stopMessageCache \in BOOLEAN
    /\ ignoreErr \in BOOLEAN
    /\ PlayMode \in Modes
    /\ SelfDead \in BOOLEAN
    /\ index \in 0..Len(messageList)
    /\ start_record \in RecordTimes \cup {0}
    /\ start_real \in Nat
    /\ last \in 0..nowtime
    /\ ended \in BOOLEAN
    /\ restAt \in 0..nowtime
    /\ late \in Int

\* In normal mode a message follows the one before it, and the last pause after
\* that, by no less than it did in the recording; only what the one before was
\* late may be caught up.  Pauses, fast forward and late arrivals change nothing.
GapKept ==
    [][index > 0 /\ index' = index + 1 /\ PlayMode = "NORMAL" => nowtime - restAt >= Gap - late]_clockVars

\* The first message, and every one whose distance from the one before, or from
\* the last pause, has passed, is replayed by the next expiry: pauses, fast forward
\* and beginning again do not leave the clock behind.
DueIsPlayed ==
    [][userWorkFunc /\ Alive /\ HasNext /\ PlayMode = "NORMAL" /\ (index = 0 \/ nowtime - restAt >= Gap)
        => NextMessage.type = "LOOP" \/ index' = index + 1]_clockVars
=============================================================================
