------------------------------ MODULE TaskPush ------------------------------
(***************************************************************************)
(* How a running task of the server hands its users out to the agents:     *)
(* the thread of ServerConsole.cpp, the map of agents of ServerStress.cpp, *)
(* the connections between them and the tasks the agents then run.         *)
(*                                                                         *)
(* An agent keeps its tasks when it loses the server and comes back on a   *)
(* new connection; the server drops the old one on its own.  One task and  *)
(* one project: agents of other projects are skipped everywhere.  What a   *)
(* console and the network may do is bounded by MaxEvents; the answers of  *)
(* the file synchronisation come at any time.                              *)
(***************************************************************************)
EXTENDS Integers, FiniteSets, Sequences, SequencesExt

CONSTANTS Agents,
          Socks,      \* connections (HSOCKET)
          FirstTotal, \* the totalUser the configuration is created with
          MaxTotal,   \* bound on totalUser
          OnceUser,   \* users added at a time
          Half,       \* userCount is an int16_t: 32768
          MaxEvents,  \* bound on what consoles and the network do
          NULL

ASSUME NumberAssumption ==
    /\ MaxTotal \in Nat /\ FirstTotal \in 0..MaxTotal
    /\ OnceUser \in Nat \ {0}
    /\ Half \in Nat \ {0}
    /\ MaxEvents \in Nat
ASSUME SetAssumption == IsFiniteSet(Agents) /\ IsFiniteSet(Socks)

VARIABLES
    totalUser,    \* of the configuration
    stage,        \* of the running task
    pc,           \* where its thread stands, "none" without a running task
    userCount,    \* the users it has handed out
    once_user,    \* those it is about to hand out ...
    client_count, \* ... and to how many agents
    ready,        \* per connection: its entry in StressClientMap
    sock,         \* per agent: StressHsocket
    chan,         \* per connection: the commands under way to the agent
    task,         \* per agent: its task, NULL without one
    lost,         \* history, per agent: a connection was lost since its task began
    steady,       \* history: the agents are those of task_push_init, all ready
    events

taskVars == <<totalUser, stage, pc, userCount, once_user, client_count>>
vars == <<taskVars, ready, sock, chan, task, lost, steady, events>>

Commands == [cmd : {"create"}, n : Nat] \cup [cmd : {"change", "finish"}, n : Int]
Tasks    == [told : Int, users : Nat, workers : 1..2]

ASSUME NullAssumption == NULL \notin Socks \cup Tasks

\* What the server knows of a connection: nothing, a report is under way, or an
\* entry in the map.
Entries == {"DEFAULT", "READY", "FAIL"}
InMap   == {s \in Socks : ready[s] \in Entries}
Willing == {s \in InMap : ready[s] # "FAIL"}

Owner(s)  == {a \in Agents : sock[a] = s}
FreeSocks == {s \in Socks : ready[s] = "none" /\ Owner(s) = {}}

Event == events < MaxEvents /\ events' = events + 1

\* What a command does to the task of an agent.  A create that finds the task
\* adds its users and starts a second worker on it.
Handle(t, m) ==
    CASE m.cmd = "create" /\ t = NULL -> [told |-> m.n, users |-> m.n, workers |-> 1]
      [] m.cmd = "create" /\ t # NULL -> [told |-> t.told + m.n, users |-> t.users + m.n, workers |-> 2]
      [] m.cmd = "change" /\ t # NULL -> [t EXCEPT !.told = @ + m.n, !.users = IF m.n <= 0 THEN @ ELSE @ + m.n]
      [] OTHER -> NULL

\* The task an agent has after the commands under way.
Drained(a) == IF sock[a] = NULL THEN task[a] ELSE FoldLeft(Handle, task[a], chan[sock[a]])

\* C division, towards zero.
Quotient(x, y)  == IF x >= 0 THEN x \div y ELSE -((-x) \div y)
Remainder(x, y) == x - y * Quotient(x, y)

Wrap(n) == ((n + Half) % (2 * Half)) - Half

-----------------------------------------------------------------------------
\* Handing users out

\* Mutant: only a positive remainder is shared, as in task_push_init.
Shares_Positive(n, count, S) ==
    LET a == Quotient(n, count)
        b == Max({Remainder(n, count), 0})
    IN  {[s \in S |-> IF s \in E THEN a + 1 ELSE a] :
            E \in {T \in SUBSET S : Cardinality(T) = Min({b, Cardinality(S)})}}

\* The users each connection of S gets when n are divided by count: the
\* remainder goes one by one to the first in the map, whose order is that of
\* addresses.  task_push_init, which hands out n >= 0, has the case b > 0 only.
Shares(n, count, S) ==
    LET a    == Quotient(n, count)
        b    == Remainder(n, count)
        unit == IF b < 0 THEN -1 ELSE 1
    IN  {[s \in S |-> IF s \in E THEN a + unit ELSE a] :
            E \in {T \in SUBSET S : Cardinality(T) = Min({b * unit, Cardinality(S)})}}

\* HsocketSend of msg[s] to each connection s in S: what a dead one is sent is lost.
Send(S, msg) ==
    chan' = [s \in Socks |-> IF s \in S /\ Owner(s) # {} THEN Append(chan[s], msg[s]) ELSE chan[s]]

task_client_count == Cardinality({s \in Socks : ready[s] = "READY"})

\* Mutant: the users to take back are not booked.
OnceCount_Increase ==
    LET left_user == totalUser - userCount IN
    IF left_user < 0 THEN 0 ELSE IF left_user > OnceUser THEN OnceUser ELSE left_user

\* The users the next round is for: task_add_once_user, which books them.
OnceCount ==
    LET left_user == totalUser - userCount IN
    IF left_user > OnceUser THEN OnceUser ELSE left_user

\* Every agent known to the server is ready, connected and without this task.
AllReady ==
    \A s \in InMap : ready[s] = "READY" /\ \E a \in Owner(s) : Drained(a) = NULL

\* task_push_init, up to the lock: without agents the task ends, without users
\* to add the thread comes back.
task_push_init ==
    /\ pc = "run" /\ stage = "INIT"
    /\ IF task_client_count = 0
       THEN stage' = "CLEAN" /\ UNCHANGED <<pc, userCount, once_user, client_count>>
       ELSE /\ OnceCount # 0
            /\ userCount' = Wrap(userCount + OnceCount)
            /\ once_user' = OnceCount
            /\ client_count' = task_client_count
            /\ pc' = "init"
            /\ UNCHANGED stage
    /\ steady' = AllReady
    /\ UNCHANGED <<totalUser, ready, sock, chan, task, lost, events>>

\* Under StressClientMapLock: the agents that have not failed get the task.
task_push_init_send ==
    /\ pc = "init"
    /\ \E share \in Shares(once_user, client_count, Willing) :
          Send(Willing, [s \in Willing |-> [cmd |-> "create", n |-> share[s]]])
    /\ stage' = "LOOP"
    /\ pc' = "run"
    /\ once_user' = 0 /\ client_count' = 0
    /\ UNCHANGED <<totalUser, userCount, ready, sock, task, lost, steady, events>>

\* task_push_add_once_user, spaceTime after the last: what is booked without a
\* ready agent reaches nobody.
task_push_add_once_user ==
    /\ pc = "run" /\ stage = "LOOP"
    /\ InMap # {}
    /\ OnceCount # 0
    /\ userCount' = Wrap(userCount + OnceCount)
    /\ IF task_client_count = 0
       THEN UNCHANGED <<pc, once_user, client_count>>
       ELSE /\ once_user' = OnceCount
            /\ client_count' = task_client_count
            /\ pc' = "add"
    /\ UNCHANGED <<totalUser, stage, ready, sock, chan, task, lost, steady, events>>

task_push_add_send ==
    /\ pc = "add"
    /\ \E share \in Shares(once_user, client_count, Willing) :
          Send(Willing, [s \in Willing |-> [cmd |-> "change", n |-> share[s]]])
    /\ pc' = "run"
    /\ once_user' = 0 /\ client_count' = 0
    /\ UNCHANGED <<totalUser, stage, userCount, ready, sock, task, lost, steady, events>>

\* Mutant: an agent that has failed since is not told.
task_push_over_Ready ==
    /\ pc = "run" /\ stage = "CLEAN"
    /\ Send(Willing, [s \in Willing |-> [cmd |-> "finish", n |-> 0]])
    /\ stage' = "OVER"
    /\ pc' = "none"
    /\ userCount' = 0
    /\ steady' = FALSE
    /\ UNCHANGED <<totalUser, once_user, client_count, ready, sock, task, lost, events>>

\* task_push_over: every agent in the map is told, the thread ends and its
\* TaskRuning is freed.
task_push_over ==
    /\ pc = "run" /\ stage = "CLEAN"
    /\ Send(InMap, [s \in InMap |-> [cmd |-> "finish", n |-> 0]])
    /\ stage' = "OVER"
    /\ pc' = "none"
    /\ userCount' = 0
    /\ steady' = FALSE
    /\ UNCHANGED <<totalUser, once_user, client_count, ready, sock, task, lost, events>>

-----------------------------------------------------------------------------
\* Consoles

task_run ==
    /\ Event
    /\ pc = "none"
    /\ pc' = "run"
    /\ stage' = "INIT"
    /\ userCount' = 0
    /\ steady' = FALSE
    /\ UNCHANGED <<totalUser, once_user, client_count, ready, sock, chan, task, lost>>

task_stop ==
    /\ pc # "none"
    /\ stage' = "CLEAN"
    /\ UNCHANGED <<totalUser, pc, userCount, once_user, client_count, ready, sock, chan, task, lost, steady, events>>

\* Mutant: the total may become negative.
task_user_Unclamped(count) ==
    /\ Event
    /\ totalUser + count <= MaxTotal
    /\ totalUser' = totalUser + count
    /\ UNCHANGED <<stage, pc, userCount, once_user, client_count, ready, sock, chan, task, lost, steady>>

task_user(count) ==
    /\ Event
    /\ totalUser + count <= MaxTotal
    /\ totalUser' = IF totalUser + count < 0 THEN 0 ELSE totalUser + count
    /\ UNCHANGED <<stage, pc, userCount, once_user, client_count, ready, sock, chan, task, lost, steady>>

\* do_sync_files: every agent must synchronise again.
do_sync_files ==
    /\ Event
    /\ ready' = [s \in Socks |-> IF s \in InMap THEN "DEFAULT" ELSE ready[s]]
    /\ steady' = FALSE
    /\ UNCHANGED <<taskVars, sock, chan, task, lost>>

-----------------------------------------------------------------------------
\* Agents

\* ClientProtocol connects and sends its report.
ConnectionMade(a, s) ==
    /\ sock[a] = NULL
    /\ s \in FreeSocks
    /\ sock' = [sock EXCEPT ![a] = s]
    /\ ready' = [ready EXCEPT ![s] = "reported"]
    /\ UNCHANGED <<taskVars, chan, task, lost, steady, events>>

server_cmd_1(s) ==
    /\ ready[s] = "reported"
    /\ ready' = [ready EXCEPT ![s] = "DEFAULT"]
    /\ steady' = FALSE
    /\ UNCHANGED <<taskVars, sock, chan, task, lost, events>>

\* The agent has synchronised its files, or failed to.
server_cmd_11(s, r) ==
    /\ s \in InMap
    /\ ready' = [ready EXCEPT ![s] = r]
    /\ steady' = (steady /\ ready[s] = r)
    /\ UNCHANGED <<taskVars, sock, chan, task, lost, events>>

\* The server loses the connection.
StressConnectionClosed(s) ==
    /\ ready[s] # "none"
    /\ \/ Owner(s) = {} /\ UNCHANGED events
       \/ Owner(s) # {} /\ Event
    /\ ready' = [ready EXCEPT ![s] = "none"]
    /\ lost' = [a \in Agents |-> lost[a] \/ (a \in Owner(s) /\ task[a] # NULL)]
    /\ steady' = FALSE
    /\ UNCHANGED <<taskVars, sock, chan, task>>

\* The agent loses it, with what is under way.
ConnectionClosed(a) ==
    /\ sock[a] # NULL
    /\ \/ ready[sock[a]] = "none" /\ UNCHANGED events
       \/ ready[sock[a]] # "none" /\ Event
    /\ sock' = [sock EXCEPT ![a] = NULL]
    /\ chan' = [chan EXCEPT ![sock[a]] = <<>>]
    /\ lost' = [lost EXCEPT ![a] = (task[a] # NULL)]
    /\ steady' = FALSE
    /\ UNCHANGED <<taskVars, ready, task>>

\* The agent handles a command of the server.
CheckRequest(a) ==
    /\ sock[a] # NULL
    /\ chan[sock[a]] # <<>>
    /\ LET m == Head(chan[sock[a]]) IN
          /\ task' = [task EXCEPT ![a] = Handle(@, m)]
          /\ lost' = [lost EXCEPT ![a] = task'[a] # NULL /\ (@ \/ (task[a] = NULL /\ ready[sock[a]] = "none"))]
    /\ chan' = [chan EXCEPT ![sock[a]] = Tail(@)]
    /\ UNCHANGED <<taskVars, ready, sock, steady, events>>

-----------------------------------------------------------------------------
Init ==
    /\ totalUser = FirstTotal
    /\ stage = "OVER"
    /\ pc = "none"
    /\ userCount = 0
    /\ once_user = 0
    /\ client_count = 0
    /\ ready = [s \in Socks |-> "none"]
    /\ sock = [a \in Agents |-> NULL]
    /\ chan = [s \in Socks |-> <<>>]
    /\ task = [a \in Agents |-> NULL]
    /\ lost = [a \in Agents |-> FALSE]
    /\ steady = FALSE
    /\ events = 0

ThreadStep ==
    \/ task_push_init
    \/ task_push_init_send
    \/ task_push_add_once_user
    \/ task_push_add_send
    \/ task_push_over

Console ==
    \/ task_run
    \/ task_stop
    \/ \E count \in ((-MaxTotal)..MaxTotal) \ {0} : task_user(count)
    \/ do_sync_files

AgentStep(a) ==
    \/ \E s \in Socks : ConnectionMade(a, s)
    \/ ConnectionClosed(a)
    \/ CheckRequest(a)

ServerStep(s) ==
    \/ server_cmd_1(s)
    \/ \E r \in {"READY", "FAIL"} : server_cmd_11(s, r)
    \/ StressConnectionClosed(s)

Next ==
    \/ ThreadStep
    \/ Console
    \/ \E a \in Agents : AgentStep(a)
    \/ \E s \in Socks : ServerStep(s)

Spec == Init /\ [][Next]_vars

\* The thread of the task runs and the agents handle what reaches them.
FairSpec == Spec /\ WF_vars(ThreadStep) /\ \A a \in Agents : WF_vars(CheckRequest(a))

-----------------------------------------------------------------------------
\* Type invariant of the variables above.
TypeOK ==
    /\ totalUser \in 0..MaxTotal
    /\ stage \in {"INIT", "LOOP", "CLEAN", "OVER"}
    /\ pc \in {"none", "run", "init", "add"}
    /\ userCount \in (-Half)..(Half - 1)
    /\ once_user \in Int
    /\ client_count \in 0..Cardinality(Socks)
    /\ ready \in [Socks -> Entries \cup {"none", "reported"}]
    /\ sock \in [Agents -> Socks \cup {NULL}]
    /\ chan \in [Socks -> Seq(Commands)]
    /\ task \in [Agents -> Tasks \cup {NULL}]
    /\ lost \in [Agents -> BOOLEAN]
    /\ steady \in BOOLEAN
    /\ events \in 0..MaxEvents

\* A create never finds its task on the agent, which would then be driven by two
\* worker threads, unless a connection was lost: the server has told every agent
\* to finish before, whatever became of its file synchronisation since.
OneWorker == \A a \in Agents : task[a] # NULL /\ ~lost[a] => task[a].workers = 1

\* An agent that keeps its connection does not go on with a task that has ended.
StopReaches ==
    \A a \in Agents : task[a] # NULL /\ ~lost[a] /\ pc = "none" =>
        \E i \in DOMAIN chan[sock[a]] : chan[sock[a]][i].cmd = "finish"

\* An agent that keeps its connection begins and ends with the task, however often
\* it runs and whatever becomes of the file synchronisation meanwhile.
AgentsFollow == OneWorker /\ StopReaches

\* The agents in the map that run the task, once they have what is under way.
Runners == {a \in Agents : sock[a] \in InMap /\ Drained(a) # NULL}

Told == MapThenSumSet(LAMBDA a : Drained(a).told, Runners)

\* As long as the agents stay those of task_push_init, they are told of the users
\* the server has booked, neither more nor fewer, through every division and its
\* remainder, and however often the total goes up and down.
BookedIsTold ==
    steady /\ pc = "run" /\ stage # "INIT" => (Told - userCount) % (2 * Half) = 0

\* As long as the agents stay the same a task that is not stopped hands out what
\* the pages ask for.
TotalIsTold == []<>(pc = "none" \/ stage = "CLEAN" \/ ~steady \/ Told = totalUser)
=============================================================================
