--------------------------- MODULE TaskPush_proofs ---------------------------
(***************************************************************************)
(* Proofs about TaskPush, for any agents, connections, totals and number   *)
(* of events: an agent that keeps its connection begins and ends with the  *)
(* task, and while the agents stay the same they are told of the users the *)
(* server has booked.                                                      *)
(***************************************************************************)
EXTENDS TaskPush, SequenceTheorems, FiniteSetTheorems, TLAPS

\* What the thread knows at each statement.
Counts ==
    /\ pc \in {"init", "add"} => client_count > 0
    /\ pc = "init" => stage \in {"INIT", "CLEAN"} /\ once_user > 0
    /\ pc = "run" /\ stage = "INIT" => userCount = 0
    /\ pc = "add" => stage # "INIT"

Types == TypeOK /\ Counts

\* A connection has one agent, nothing is under way on one that nobody has or that
\* has not reported, and a task that came over it is still known to the server.
Links ==
    /\ \A a, b \in Agents : sock[a] = sock[b] /\ sock[a] # NULL => a = b
    /\ \A s \in Socks : Owner(s) = {} \/ ready[s] = "reported" => chan[s] = <<>>
    /\ \A a \in Agents : task[a] # NULL /\ ~lost[a] => sock[a] \in InMap

\* The last an agent hears is that the task has ended.
Over(a) ==
    LET q == chan[sock[a]] IN
    IF q = <<>> THEN task[a] = NULL \/ lost[a] ELSE q[Len(q)].cmd = "finish"

\* So it is for every agent in the map before the thread sends a task.
Beginning == pc \in {"none", "init"} \/ (pc = "run" /\ stage = "INIT")
Quiet == Beginning => \A a \in Agents : sock[a] \in InMap => Over(a)

Finished(q, i, j) == \E k \in DOMAIN q : i < k /\ k < j /\ q[k].cmd = "finish"

\* Between two tasks under way to an agent, and before the first when the agent
\* has one that it did not lose the connection with, is the end of one.
Separate(a) ==
    LET q == chan[sock[a]] IN
    /\ \A i, j \in DOMAIN q : i < j /\ q[i].cmd = "create" /\ q[j].cmd = "create" => Finished(q, i, j)
    /\ task[a] # NULL /\ ~lost[a] => \A j \in DOMAIN q : q[j].cmd = "create" => Finished(q, 0, j)

Separated == \A a \in Agents : sock[a] # NULL => Separate(a)

Following == Types /\ Links /\ Quiet /\ Separated /\ OneWorker
-----------------------------------------------------------------------------
\* Operators

\* The constants are numbers.
LEMMA Numbers ==
    /\ MaxTotal \in Nat /\ FirstTotal \in 0..MaxTotal /\ OnceUser \in Nat /\ OnceUser > 0
    /\ Half \in Nat /\ Half > 0 /\ MaxEvents \in Nat
BY NumberAssumption

\* An int16_t.
LEMMA WrapType == ASSUME NEW n \in Int PROVE Wrap(n) \in (-Half)..(Half - 1)
<1> DEFINE m == 2 * Half
<1>1. m \in Nat /\ m > 0
  BY Numbers
<1>2. (n + Half) % m \in 0..(m - 1)
  <2> HIDE DEF m
  <2>1. n + Half \in Int
    BY Numbers
  <2> QED BY <1>1, <2>1
<1> QED BY <1>1, <1>2, Numbers DEF Wrap

\* The quotient and remainder of the division by a positive number.
LEMMA Division ==
    ASSUME NEW n \in Int, NEW d \in Nat, d > 0
    PROVE  n \div d \in Int /\ n % d \in 0..(d - 1) /\ n % d = n - d * (n \div d)
OBVIOUS

\* A quotient of C is an integer, and not negative when what is divided is not.
LEMMA QuotientType ==
    ASSUME NEW x \in Int, NEW y \in Nat \ {0}
    PROVE  Quotient(x, y) \in Int /\ (x >= 0 => Quotient(x, y) \in Nat)
BY DEF Quotient

\* A share is an integer, and none is negative when what is shared is not.
LEMMA SharesType ==
    ASSUME NEW n \in Int, NEW count \in Nat \ {0}, NEW S, NEW share \in Shares(n, count, S)
    PROVE  share \in [S -> Int] /\ (n >= 0 => share \in [S -> Nat])
<1> DEFINE a == Quotient(n, count)
           b == Remainder(n, count)
           unit == IF b < 0 THEN -1 ELSE 1
<1>1. PICK E : share = [s \in S |-> IF s \in E THEN a + unit ELSE a]
  BY DEF Shares
<1>2. a \in Int /\ (n >= 0 => a \in Nat)
  BY QuotientType
<1>3. n >= 0 => b >= 0
  <2> SUFFICES ASSUME n >= 0 PROVE b >= 0
    OBVIOUS
  <2>1. a = n \div count
    BY DEF Quotient
  <2>2. n % count >= 0 /\ n % count = n - count * (n \div count)
    BY Division
  <2>3. b = n % count
    BY <2>1, <2>2 DEF Remainder
  <2> QED BY <2>2, <2>3
<1> HIDE DEF b
<1>4. unit \in Int /\ (n >= 0 => unit = 1)
  <2>1. CASE b < 0
    <3>1. ~(n >= 0)
      <4>1. Quotient(n, count) \in Int
        BY QuotientType
      <4>2. b \in Int
        BY <4>1 DEF Remainder, b
      <4> QED BY <1>3, <2>1, <4>2
    <3> QED BY <2>1, <3>1
  <2>2. CASE ~(b < 0)
    BY <2>2
  <2> QED BY <2>1, <2>2
<1> HIDE DEF a, unit
<1>5. \A s \in S : share[s] \in Int /\ (n >= 0 => share[s] \in Nat)
  BY <1>1, <1>2, <1>4
<1> QED BY <1>1, <1>5

\* Queues of commands stay queues of commands when commands are sent.
LEMMA SendType ==
    ASSUME NEW S, NEW msg, \A s \in S : msg[s] \in Commands, chan \in [Socks -> Seq(Commands)], Send(S, msg)
    PROVE  chan' \in [Socks -> Seq(Commands)]
BY AppendProperties DEF Send

\* What a command makes of the task of an agent.
LEMMA HandleEffect ==
    ASSUME NEW t \in Tasks \cup {NULL}, NEW m \in Commands
    PROVE  /\ m.cmd \in {"create", "change", "finish"}
           /\ m.cmd = "create" /\ t = NULL =>
                 Handle(t, m) \in Tasks /\ Handle(t, m).told = m.n /\ Handle(t, m).workers = 1
           /\ m.cmd = "create" /\ t # NULL =>
                 Handle(t, m) \in Tasks /\ Handle(t, m).told = t.told + m.n
           /\ m.cmd = "change" /\ t # NULL =>
                 /\ Handle(t, m) \in Tasks /\ Handle(t, m).told = t.told + m.n
                 /\ Handle(t, m).workers = t.workers
           /\ m.cmd = "finish" \/ (m.cmd = "change" /\ t = NULL) => Handle(t, m) = NULL
<1>1. m.n \in Int /\ m.cmd \in {"create", "change", "finish"} /\ (m.cmd = "create" => m.n \in Nat)
  BY DEF Commands
<1>2. CASE t = NULL
  BY <1>1, <1>2 DEF Handle, Tasks
<1>3. CASE t # NULL
  <2>1. t \in Tasks /\ t.told \in Int /\ t.users \in Nat /\ t.workers \in 1..2
    BY <1>3 DEF Tasks
  <2>2. CASE m.cmd = "create"
    BY <1>1, <1>3, <2>1, <2>2 DEF Handle, Tasks
  <2>3. CASE m.cmd = "change"
    <3> DEFINE u == IF m.n <= 0 THEN t.users ELSE t.users + m.n
    <3>1. u \in Nat
      BY <1>1, <2>1
    <3>2. Handle(t, m) = [t EXCEPT !.told = t.told + m.n, !.users = IF m.n <= 0 THEN t.users ELSE t.users + m.n]
      BY <1>3, <2>3 DEF Handle
    <3>3. t = [told |-> t.told, users |-> t.users, workers |-> t.workers]
      BY <2>1 DEF Tasks
    <3> HIDE DEF u
    <3>4. Handle(t, m) = [told |-> t.told + m.n, users |-> u, workers |-> t.workers]
      BY <3>2, <3>3 DEF u
    <3> QED BY <1>1, <1>3, <2>1, <2>3, <3>1, <3>4 DEF Tasks
  <2>4. CASE m.cmd = "finish"
    BY <1>3, <2>4 DEF Handle
  <2> QED BY <1>1, <2>2, <2>3, <2>4
<1> QED BY <1>2, <1>3

\* A command makes a task, or none, of a task or none.
LEMMA HandleType ==
    ASSUME NEW t \in Tasks \cup {NULL}, NEW m \in Commands
    PROVE  Handle(t, m) \in Tasks \cup {NULL}
BY HandleEffect

\* There are no more ready agents than connections.
LEMMA CountType == task_client_count \in 0..Cardinality(Socks)
<1> DEFINE R == {s \in Socks : ready[s] = "READY"}
<1>1. IsFiniteSet(Socks) /\ R \subseteq Socks
  BY SetAssumption
<1>2. Cardinality(R) <= Cardinality(Socks) /\ Cardinality(R) \in Nat /\ Cardinality(Socks) \in Nat
  BY <1>1, FS_Subset, FS_CardinalityType
<1> QED BY <1>2 DEF task_client_count

\* A round is a number, and not negative before the first one.
LEMMA OnceType == ASSUME Types PROVE OnceCount \in Int /\ (userCount = 0 => OnceCount >= 0)
BY Numbers DEF OnceCount, Types, TypeOK

-----------------------------------------------------------------------------
\* Type correctness

\* The initial state satisfies the types.
LEMMA TypeInit == Init => Types
<1> SUFFICES ASSUME Init PROVE Types
  OBVIOUS
<1>1. Cardinality(Socks) \in Nat
  BY SetAssumption, FS_CardinalityType
<1>2. /\ totalUser \in 0..MaxTotal /\ userCount \in (-Half)..(Half - 1) /\ once_user \in Int
      /\ client_count \in 0..Cardinality(Socks) /\ events \in 0..MaxEvents
  BY <1>1, Numbers DEF Init
<1>3. /\ stage \in {"INIT", "LOOP", "CLEAN", "OVER"} /\ pc \in {"none", "run", "init", "add"}
      /\ sock \in [Agents -> Socks \cup {NULL}] /\ chan \in [Socks -> Seq(Commands)]
      /\ task \in [Agents -> Tasks \cup {NULL}] /\ ready \in [Socks -> Entries \cup {"none", "reported"}]
  BY DEF Init
<1>4. lost \in [Agents -> BOOLEAN] /\ steady \in BOOLEAN
  BY Zenon DEF Init
<1>5. Counts
  BY DEF Init, Counts
<1> QED BY <1>2, <1>3, <1>4, <1>5 DEF Types, TypeOK

\* The first round keeps the types.
LEMMA InitSendType == ASSUME Types, task_push_init_send PROVE Types'
<1>1. /\ once_user \in Nat /\ client_count \in Nat \ {0} /\ Cardinality(Socks) \in Nat
  BY SetAssumption, FS_CardinalityType DEF Types, TypeOK, Counts, task_push_init_send
<1>2. PICK share \in Shares(once_user, client_count, Willing) :
        Send(Willing, [s \in Willing |-> [cmd |-> "create", n |-> share[s]]])
  BY DEF task_push_init_send
<1>3. share \in [Willing -> Nat]
  BY <1>1, SharesType
<1>4. chan' \in [Socks -> Seq(Commands)]
  <2> DEFINE msg == [s \in Willing |-> [cmd |-> "create", n |-> share[s]]]
  <2>1. \A s \in Willing : msg[s] \in Commands
    BY <1>3 DEF Commands
  <2> QED BY <1>2, <2>1, SendType DEF Types, TypeOK
<1> QED BY <1>1, <1>4 DEF Types, TypeOK, Counts, task_push_init_send

\* A later round keeps the types.
LEMMA AddSendType == ASSUME Types, task_push_add_send PROVE Types'
<1>1. /\ once_user \in Int /\ client_count \in Nat \ {0} /\ Cardinality(Socks) \in Nat
  BY SetAssumption, FS_CardinalityType DEF Types, TypeOK, Counts, task_push_add_send
<1>2. PICK share \in Shares(once_user, client_count, Willing) :
        Send(Willing, [s \in Willing |-> [cmd |-> "change", n |-> share[s]]])
  BY DEF task_push_add_send
<1>3. share \in [Willing -> Int]
  BY <1>1, SharesType
<1>4. chan' \in [Socks -> Seq(Commands)]
  <2> DEFINE msg == [s \in Willing |-> [cmd |-> "change", n |-> share[s]]]
  <2>1. \A s \in Willing : msg[s] \in Commands
    BY <1>3 DEF Commands
  <2> QED BY <1>2, <2>1, SendType DEF Types, TypeOK
<1> QED BY <1>1, <1>4 DEF Types, TypeOK, Counts, task_push_add_send

\* The thread's steps keep the types.
LEMMA ThreadType == ASSUME Types, ThreadStep PROVE Types'
<1>0. Cardinality(Socks) \in Nat /\ task_client_count \in 0..Cardinality(Socks)
  BY SetAssumption, FS_CardinalityType, CountType
<1>1. CASE task_push_init
  <2>1. userCount = 0 /\ OnceCount \in Int /\ (OnceCount # 0 => OnceCount > 0)
    BY <1>1, OnceType DEF Types, Counts, task_push_init
  <2>2. Wrap(userCount + OnceCount) \in (-Half)..(Half - 1)
    BY <2>1, WrapType
  <2>3. steady' \in BOOLEAN
    BY <1>1, Zenon DEF task_push_init, AllReady
  <2>4. CASE task_client_count = 0
    BY <1>1, <2>3, <2>4 DEF Types, TypeOK, Counts, task_push_init
  <2>5. CASE task_client_count # 0
    BY <1>0, <1>1, <2>1, <2>2, <2>3, <2>5 DEF Types, TypeOK, Counts, task_push_init
  <2> QED BY <2>4, <2>5
<1>2. CASE task_push_init_send
  BY <1>2, InitSendType
<1>3. CASE task_push_add_once_user
  <2>0. OnceCount \in Int /\ userCount + OnceCount \in Int
    BY OnceType, Numbers DEF Types, TypeOK
  <2>1. Wrap(userCount + OnceCount) \in (-Half)..(Half - 1)
    BY <2>0, WrapType
  <2>2. CASE task_client_count = 0
    BY <1>3, <2>0, <2>1, <2>2 DEF Types, TypeOK, Counts, task_push_add_once_user
  <2>3. CASE task_client_count # 0
    BY <1>0, <1>3, <2>0, <2>1, <2>3 DEF Types, TypeOK, Counts, task_push_add_once_user
  <2> QED BY <2>2, <2>3
<1>4. CASE task_push_add_send
  BY <1>4, AddSendType
<1>5. CASE task_push_over
  <2>1. chan' \in [Socks -> Seq(Commands)]
    <3> DEFINE msg == [s \in InMap |-> [cmd |-> "finish", n |-> 0]]
    <3>1. \A s \in InMap : msg[s] \in Commands
      BY DEF Commands
    <3> QED BY <1>5, <3>1, SendType DEF task_push_over, Types, TypeOK
  <2>2. 0 \in (-Half)..(Half - 1)
    BY Numbers
  <2> QED BY <1>5, <2>1, <2>2 DEF Types, TypeOK, Counts, task_push_over
<1> QED BY <1>1, <1>2, <1>3, <1>4, <1>5 DEF ThreadStep

\* The consoles' steps keep the types.
LEMMA ConsoleType == ASSUME Types, Console PROVE Types'
<1>1. CASE task_run
  <2>1. 0 \in (-Half)..(Half - 1) /\ events' \in 0..MaxEvents
    BY <1>1, Numbers DEF task_run, Event, Types, TypeOK
  <2> QED BY <1>1, <2>1 DEF Types, TypeOK, Counts, task_run
<1>2. CASE task_stop
  BY <1>2 DEF Types, TypeOK, Counts, task_stop
<1>3. ASSUME NEW count \in ((-MaxTotal)..MaxTotal) \ {0}, task_user(count) PROVE Types'
  <2>1. events' \in 0..MaxEvents /\ totalUser' \in 0..MaxTotal
    BY <1>3, Numbers DEF task_user, Event, Types, TypeOK
  <2> QED BY <1>3, <2>1 DEF Types, TypeOK, Counts, task_user
<1>4. CASE do_sync_files
  <2>1. events' \in 0..MaxEvents
    BY <1>4, Numbers DEF do_sync_files, Event, Types, TypeOK
  <2>2. ready' \in [Socks -> Entries \cup {"none", "reported"}]
    BY <1>4 DEF do_sync_files, Types, TypeOK, Entries
  <2> QED BY <1>4, <2>1, <2>2 DEF Types, TypeOK, Counts, do_sync_files, taskVars
<1> QED BY <1>1, <1>2, <1>3, <1>4 DEF Console

\* The agents' steps keep the types.
LEMMA AgentType == ASSUME Types, NEW a \in Agents, AgentStep(a) PROVE Types'
<1>1. ASSUME NEW s \in Socks, ConnectionMade(a, s) PROVE Types'
  BY <1>1 DEF Types, TypeOK, Counts, ConnectionMade, taskVars
<1>2. CASE ConnectionClosed(a)
  <2>1. events' \in 0..MaxEvents
    BY <1>2, Numbers DEF ConnectionClosed, Event, Types, TypeOK
  <2>2. chan' \in [Socks -> Seq(Commands)] /\ sock' \in [Agents -> Socks \cup {NULL}]
    BY <1>2 DEF ConnectionClosed, Types, TypeOK
  <2>3. lost' \in [Agents -> BOOLEAN]
    <3>1. lost' = [lost EXCEPT ![a] = (task[a] # NULL)] /\ lost \in [Agents -> BOOLEAN]
      BY <1>2 DEF ConnectionClosed, Types, TypeOK
    <3> QED BY <3>1, Zenon
  <2> QED BY <1>2, <2>1, <2>2, <2>3 DEF Types, TypeOK, Counts, ConnectionClosed, taskVars
<1>3. CASE CheckRequest(a)
  <2> DEFINE q == chan[sock[a]]
             m == Head(q)
  <2>1. sock[a] \in Socks /\ q \in Seq(Commands) /\ q # <<>>
    BY <1>3 DEF CheckRequest, Types, TypeOK
  <2>2. m \in Commands /\ Tail(q) \in Seq(Commands)
    BY <2>1, HeadTailProperties
  <2>3. task[a] \in Tasks \cup {NULL}
    BY DEF Types, TypeOK
  <2>4. Handle(task[a], m) \in Tasks \cup {NULL}
    BY <2>2, <2>3, HandleType
  <2>5. task' \in [Agents -> Tasks \cup {NULL}] /\ chan' \in [Socks -> Seq(Commands)]
    <3>1. task' = [task EXCEPT ![a] = Handle(task[a], m)] /\ chan' = [chan EXCEPT ![sock[a]] = Tail(q)]
      BY <1>3 DEF CheckRequest
    <3> HIDE DEF m, q
    <3> QED BY <2>1, <2>2, <2>4, <3>1 DEF Types, TypeOK
  <2>6. lost' \in [Agents -> BOOLEAN]
    <3>1. PICK b \in BOOLEAN : lost' = [lost EXCEPT ![a] = b]
      BY <1>3, Zenon DEF CheckRequest
    <3> QED BY <3>1, Zenon DEF Types, TypeOK
  <2> QED BY <1>3, <2>5, <2>6 DEF Types, TypeOK, Counts, CheckRequest, taskVars
<1> QED BY <1>1, <1>2, <1>3 DEF AgentStep

\* The steps of the server's connections keep the types.
LEMMA ServerType == ASSUME Types, NEW s \in Socks, ServerStep(s) PROVE Types'
<1>1. CASE server_cmd_1(s)
  BY <1>1 DEF Types, TypeOK, Counts, server_cmd_1, taskVars, Entries
<1>2. ASSUME NEW r \in {"READY", "FAIL"}, server_cmd_11(s, r) PROVE Types'
  <2>1. steady' \in BOOLEAN
    BY <1>2, Zenon DEF server_cmd_11
  <2> QED BY <1>2, <2>1 DEF Types, TypeOK, Counts, server_cmd_11, taskVars, Entries
<1>3. CASE StressConnectionClosed(s)
  <2>1. events' \in 0..MaxEvents
    BY <1>3, Numbers DEF StressConnectionClosed, Event, Types, TypeOK
  <2>2. lost' \in [Agents -> BOOLEAN]
    BY <1>3, Zenon DEF StressConnectionClosed
  <2> QED BY <1>3, <2>1, <2>2 DEF Types, TypeOK, Counts, StressConnectionClosed, taskVars
<1> QED BY <1>1, <1>2, <1>3 DEF ServerStep

\* Every step keeps the types.
LEMMA TypeStep == Types /\ [Next]_vars => Types'
<1> SUFFICES ASSUME Types, [Next]_vars PROVE Types'
  OBVIOUS
<1>1. CASE UNCHANGED vars
  BY <1>1 DEF Types, TypeOK, Counts, vars, taskVars
<1> QED BY <1>1, ThreadType, ConsoleType, AgentType, ServerType DEF Next

\* Type correctness: the users handed out stay those of an int16_t and no command
\* creates a task with a negative number of users (ServerConsole.cpp:96-152).
THEOREM TypeCorrect == Spec => []TypeOK
<1>1. Types => TypeOK
  BY DEF Types
<1> QED BY <1>1, TypeInit, TypeStep, PTL DEF Spec

-----------------------------------------------------------------------------
\* The agents follow the task

\* In the initial state nobody has a task.
LEMMA FollowInit == Init => Following
<1> SUFFICES ASSUME Init PROVE Following
  OBVIOUS
<1>1. Types
  BY TypeInit
<1>2. \A a \in Agents : task[a] = NULL /\ sock[a] = NULL
  BY DEF Init
<1>3. \A s \in Socks : chan[s] = <<>> /\ ready[s] = "none"
  BY DEF Init
<1>4. NULL \notin InMap
  BY NullAssumption DEF InMap
<1> QED BY <1>1, <1>2, <1>3, <1>4 DEF Following, Links, Quiet, Separated, OneWorker

\* Steps that change no command, task or connection of an agent: what is known of
\* connections, and where the thread stands.
LEMMA SameStep ==
    ASSUME Following, Types', UNCHANGED <<sock, chan, task>>, Beginning' => Beginning,
           \A a \in Agents : lost[a] => lost'[a],
           \A s \in Socks : ready'[s] = "reported" => ready[s] = "reported",
           \A s \in InMap' : s \in InMap \/ ready[s] = "reported",
           \A a \in Agents : task[a] # NULL /\ ~lost'[a] => sock[a] \in InMap'
    PROVE  Following'
<1>1. Links'
  BY DEF Following, Links, Owner
<1>2. Quiet'
  <2> SUFFICES ASSUME Beginning', NEW a \in Agents, sock[a] \in InMap' PROVE Over(a)'
    BY DEF Quiet
  <2>1. CASE sock[a] \in InMap
    <3>1. Over(a)
      BY <2>1 DEF Following, Quiet
    <3> QED BY <3>1 DEF Over
  <2>2. CASE sock[a] \notin InMap
    <3>1. ready[sock[a]] = "reported" /\ sock[a] \in Socks
      BY <2>2 DEF InMap
    <3>2. chan[sock[a]] = <<>> /\ (task[a] = NULL \/ lost[a])
      BY <2>2, <3>1 DEF Following, Links
    <3> QED BY <3>2 DEF Over
  <2> QED BY <2>1, <2>2
<1>3. Separated'
  <2> SUFFICES ASSUME NEW a \in Agents, sock[a] # NULL PROVE Separate(a)'
    BY DEF Separated
  <2>1. Separate(a)
    BY DEF Following, Separated
  <2> QED BY <2>1 DEF Separate, Finished
<1>4. OneWorker'
  BY DEF Following, OneWorker
<1> QED BY <1>1, <1>2, <1>3, <1>4 DEF Following

\* What is sent to the agents in the map.
LEMMA SendStep ==
    ASSUME Following, Types', UNCHANGED <<ready, sock, task, lost>>,
           NEW S, S \subseteq InMap, NEW msg, \A s \in S : msg[s] \in Commands, Send(S, msg),
           \A s \in S : msg[s].cmd = "create" => Beginning,
           Beginning' => S = InMap /\ \A s \in S : msg[s].cmd = "finish"
    PROVE  Following'
<1>1. \A s \in Socks : (s \in S /\ Owner(s) # {}) \/ chan'[s] = chan[s]
  BY DEF Send
<1>2. \A s \in S : Owner(s) # {} => chan'[s] = Append(chan[s], msg[s]) /\ s \in Socks
  BY DEF Send, InMap
<1>3. \A s \in Socks : chan[s] \in Seq(Commands)
  BY DEF Following, Types, TypeOK
<1>4. Links'
  <2>1. \A s \in Socks : Owner(s)' = Owner(s)
    BY DEF Owner
  <2>2. \A s \in S : ready[s] # "reported"
    BY DEF InMap, Entries
  <2>3. InMap' = InMap
    BY DEF InMap
  <2> QED BY <1>1, <2>1, <2>2, <2>3 DEF Following, Links
<1>5. Quiet'
  <2> SUFFICES ASSUME Beginning', NEW a \in Agents, sock[a] \in InMap' PROVE Over(a)'
    BY DEF Quiet
  <2>1. sock[a] \in S /\ Owner(sock[a]) # {} /\ msg[sock[a]].cmd = "finish" /\ sock[a] \in Socks
    BY DEF InMap, Owner
  <2>2. chan'[sock[a]] = Append(chan[sock[a]], msg[sock[a]])
    BY <1>2, <2>1
  <2>3. Len(chan'[sock[a]]) = Len(chan[sock[a]]) + 1 /\ chan'[sock[a]][Len(chan[sock[a]]) + 1] = msg[sock[a]]
    BY <1>3, <2>1, <2>2
  <2> QED BY <1>3, <2>1, <2>2, <2>3 DEF Over
<1>6. Separated'
  <2> SUFFICES ASSUME NEW a \in Agents, sock[a] # NULL PROVE Separate(a)'
    BY DEF Separated
  <2> DEFINE s == sock[a]
             q == chan[s]
  <2>1. Separate(a) /\ s \in Socks
    BY DEF Following, Separated, Types, TypeOK
  <2>2. CASE chan'[s] = q
    BY <2>1, <2>2 DEF Separate, Finished
  <2>3. CASE s \in S /\ Owner(s) # {}
    <3> DEFINE m == msg[s]
               k == Len(q)
    <3>1. chan'[s] = Append(q, m) /\ q \in Seq(Commands) /\ k \in Nat
      BY <1>2, <1>3, <2>1, <2>3
    <3>2. /\ DOMAIN chan'[s] = 1..(k + 1) /\ DOMAIN q = 1..k
          /\ \A i \in 1..k : chan'[s][i] = q[i]
          /\ chan'[s][k + 1] = m
      BY <3>1
    <3>3. m.cmd = "create" => Over(a)
      BY <2>3 DEF Following, Quiet
    <3> HIDE DEF q, m
    <3>4. ASSUME NEW i \in DOMAIN chan'[s], NEW j \in DOMAIN chan'[s], i < j,
                 chan'[s][i].cmd = "create", chan'[s][j].cmd = "create"
          PROVE  Finished(chan'[s], i, j)
      <4>1. i \in 1..k /\ q[i].cmd = "create"
        BY <3>1, <3>2, <3>4
      <4>2. CASE j \in 1..k
        <5>1. Finished(q, i, j)
          BY <2>1, <3>2, <3>4, <4>1, <4>2 DEF Separate, q
        <5> QED BY <3>1, <3>2, <5>1 DEF Finished
      <4>3. CASE j = k + 1
        <5>1. q # <<>> /\ q[k].cmd = "finish" /\ k \in DOMAIN q
          BY <3>2, <3>3, <3>4, <4>1, <4>3 DEF Over, q
        <5>2. i # k
          BY <4>1, <5>1
        <5> QED BY <3>1, <3>2, <4>1, <4>3, <5>1, <5>2 DEF Finished
      <4> QED BY <3>1, <3>2, <4>2, <4>3
    <3>5. ASSUME task[a] # NULL, ~lost[a], NEW j \in DOMAIN chan'[s], chan'[s][j].cmd = "create"
          PROVE  Finished(chan'[s], 0, j)
      <4>1. CASE j \in 1..k
        <5>1. Finished(q, 0, j)
          BY <2>1, <3>2, <3>5, <4>1 DEF Separate, q
        <5> QED BY <3>1, <3>2, <5>1 DEF Finished
      <4>2. CASE j = k + 1
        <5>1. q # <<>> /\ q[k].cmd = "finish" /\ k \in 1..k
          BY <3>1, <3>2, <3>3, <3>5, <4>2 DEF Over, q
        <5> QED BY <3>1, <3>2, <4>2, <5>1 DEF Finished
      <4> QED BY <3>1, <3>2, <4>1, <4>2
    <3> QED BY <3>4, <3>5 DEF Separate
  <2> QED BY <1>1, <2>1, <2>2, <2>3
<1>7. OneWorker'
  BY DEF Following, OneWorker
<1> QED BY <1>4, <1>5, <1>6, <1>7 DEF Following

\* An agent that connects has nothing under way, and a task only with a lost link.
LEMMA MadeStep == ASSUME Following, Types', NEW a \in Agents, NEW s \in Socks, ConnectionMade(a, s) PROVE Following'
<1>1. /\ sock[a] = NULL /\ ready[s] = "none" /\ Owner(s) = {} /\ s # NULL
      /\ sock' = [sock EXCEPT ![a] = s] /\ ready' = [ready EXCEPT ![s] = "reported"]
      /\ UNCHANGED <<taskVars, chan, task, lost>>
  BY NullAssumption DEF ConnectionMade, FreeSocks
<1>2. /\ sock \in [Agents -> Socks \cup {NULL}] /\ ready \in [Socks -> Entries \cup {"none", "reported"}]
      /\ NULL \notin Socks
  BY NullAssumption DEF Following, Types, TypeOK
<1>3. InMap' = InMap /\ s \notin InMap /\ NULL \notin InMap
  BY <1>1, <1>2 DEF InMap, Entries
<1>4. /\ sock'[a] = s /\ (task[a] = NULL \/ lost[a]) /\ chan[s] = <<>>
      /\ \A b \in Agents : b # a => sock'[b] = sock[b] /\ sock[b] # s
  BY <1>1, <1>2, <1>3 DEF Following, Links, Owner
<1>5. Links'
  <2>1. ASSUME NEW b \in Agents, NEW c \in Agents, sock'[b] = sock'[c], sock'[b] # NULL PROVE b = c
    BY <1>1, <1>4, <2>1 DEF Following, Links
  <2>2. ASSUME NEW t \in Socks, Owner(t)' = {} \/ ready'[t] = "reported" PROVE chan'[t] = <<>>
    <3>1. CASE t = s
      BY <1>1, <1>4, <3>1
    <3>2. CASE t # s
      <4>1. Owner(t)' = Owner(t) /\ ready'[t] = ready[t]
        BY <1>1, <1>2, <1>4, <3>2 DEF Owner
      <4> QED BY <1>1, <2>2, <4>1 DEF Following, Links
    <3> QED BY <3>1, <3>2
  <2>3. ASSUME NEW b \in Agents, task'[b] # NULL, ~lost'[b] PROVE sock'[b] \in InMap'
    BY <1>1, <1>3, <1>4, <2>3 DEF Following, Links
  <2> QED BY <2>1, <2>2, <2>3 DEF Links
<1>6. Quiet'
  <2> SUFFICES ASSUME Beginning', NEW b \in Agents, sock'[b] \in InMap' PROVE Over(b)'
    BY DEF Quiet
  <2>1. b # a /\ sock'[b] = sock[b] /\ Beginning
    BY <1>1, <1>3, <1>4 DEF Beginning, taskVars
  <2>2. Over(b)
    BY <1>3, <2>1 DEF Following, Quiet
  <2> QED BY <1>1, <2>1, <2>2 DEF Over
<1>7. Separated'
  <2> SUFFICES ASSUME NEW b \in Agents, sock'[b] # NULL PROVE Separate(b)'
    BY DEF Separated
  <2>1. CASE b = a
    BY <1>1, <1>4, <2>1 DEF Separate
  <2>2. CASE b # a
    BY <1>1, <1>4, <2>2 DEF Following, Separated, Separate, Finished
  <2> QED BY <2>1, <2>2
<1>8. OneWorker'
  BY <1>1 DEF Following, OneWorker
<1> QED BY <1>5, <1>6, <1>7, <1>8 DEF Following

\* An agent that loses its link loses what is under way, and is counted as lost.
LEMMA LostStep == ASSUME Following, Types', NEW a \in Agents, ConnectionClosed(a) PROVE Following'
<1> DEFINE s == sock[a]
<1>1. /\ s # NULL /\ sock' = [sock EXCEPT ![a] = NULL] /\ chan' = [chan EXCEPT ![s] = <<>>]
      /\ lost' = [lost EXCEPT ![a] = (task[a] # NULL)] /\ UNCHANGED <<taskVars, ready, task>>
  BY DEF ConnectionClosed
<1>2. /\ sock \in [Agents -> Socks \cup {NULL}] /\ chan \in [Socks -> Seq(Commands)] /\ s \in Socks
      /\ lost \in [Agents -> BOOLEAN]
  BY <1>1 DEF Following, Types, TypeOK
<1>3. InMap' = InMap /\ NULL \notin InMap
  BY <1>1, NullAssumption DEF InMap
<1>4. sock'[a] = NULL /\ chan'[s] = <<>> /\ (task[a] # NULL => lost'[a])
  BY <1>1, <1>2
<1>5. \A b \in Agents : b # a => sock'[b] = sock[b] /\ lost'[b] = lost[b] /\ sock[b] # s
  BY <1>1, <1>2 DEF Following, Links
<1>6. \A t \in Socks : t # s => chan'[t] = chan[t]
  BY <1>1, <1>2
<1>7. Links'
  <2>1. ASSUME NEW b \in Agents, NEW c \in Agents, sock'[b] = sock'[c], sock'[b] # NULL PROVE b = c
    BY <1>4, <1>5, <2>1 DEF Following, Links
  <2>2. ASSUME NEW t \in Socks, Owner(t)' = {} \/ ready'[t] = "reported" PROVE chan'[t] = <<>>
    <3>1. CASE t = s
      BY <1>4, <3>1
    <3>2. CASE t # s
      <4>1. Owner(t)' = Owner(t) /\ ready'[t] = ready[t]
        BY <1>1, <1>2, <1>4, <1>5, <3>2, NullAssumption DEF Owner
      <4> QED BY <1>6, <2>2, <3>2, <4>1 DEF Following, Links
    <3> QED BY <3>1, <3>2
  <2>3. ASSUME NEW b \in Agents, task'[b] # NULL, ~lost'[b] PROVE sock'[b] \in InMap'
    BY <1>1, <1>3, <1>4, <1>5, <2>3 DEF Following, Links
  <2> QED BY <2>1, <2>2, <2>3 DEF Links
<1>8. Quiet'
  <2> SUFFICES ASSUME Beginning', NEW b \in Agents, sock'[b] \in InMap' PROVE Over(b)'
    BY DEF Quiet
  <2>1. b # a /\ sock'[b] = sock[b] /\ lost'[b] = lost[b] /\ Beginning /\ sock[b] \in Socks /\ sock[b] # s
    BY <1>1, <1>3, <1>4, <1>5 DEF Beginning, taskVars, InMap
  <2>2. Over(b) /\ chan'[sock[b]] = chan[sock[b]]
    BY <1>3, <1>6, <2>1 DEF Following, Quiet
  <2> QED BY <1>1, <2>1, <2>2 DEF Over
<1>9. Separated'
  <2> SUFFICES ASSUME NEW b \in Agents, sock'[b] # NULL PROVE Separate(b)'
    BY DEF Separated
  <2>1. b # a /\ sock'[b] = sock[b] /\ lost'[b] = lost[b] /\ sock[b] \in Socks /\ sock[b] # s
    BY <1>2, <1>4, <1>5
  <2>2. Separate(b) /\ chan'[sock[b]] = chan[sock[b]]
    BY <1>6, <2>1 DEF Following, Separated
  <2> QED BY <1>1, <2>1, <2>2 DEF Separate, Finished
<1>10. OneWorker'
  <2> SUFFICES ASSUME NEW b \in Agents, task[b] # NULL, ~lost'[b] PROVE task[b].workers = 1
    BY <1>1 DEF OneWorker
  <2> QED BY <1>4, <1>5 DEF Following, OneWorker
<1> QED BY <1>7, <1>8, <1>9, <1>10 DEF Following

\* An agent that handles a command keeps the ends between the creates behind it.
LEMMA HandleStep == ASSUME Following, Types', NEW a \in Agents, CheckRequest(a) PROVE Following'
<1> DEFINE s == sock[a]
           q == chan[s]
           m == Head(q)
<1>1. /\ s # NULL /\ q # <<>>
      /\ task' = [task EXCEPT ![a] = Handle(task[a], m)]
      /\ lost' = [lost EXCEPT ![a] = task'[a] # NULL /\ (lost[a] \/ (task[a] = NULL /\ ready[s] = "none"))]
      /\ chan' = [chan EXCEPT ![s] = Tail(q)] /\ UNCHANGED <<taskVars, ready, sock>>
  BY DEF CheckRequest
<1>2. /\ chan \in [Socks -> Seq(Commands)] /\ s \in Socks /\ q \in Seq(Commands)
      /\ task \in [Agents -> Tasks \cup {NULL}] /\ lost \in [Agents -> BOOLEAN]
      /\ ready[s] \in Entries \cup {"none", "reported"}
  BY <1>1 DEF Following, Types, TypeOK
<1>3. InMap' = InMap
  BY <1>1 DEF InMap
<1>4. /\ chan'[s] = Tail(q) /\ task'[a] = Handle(task[a], m)
      /\ lost'[a] = (task'[a] # NULL /\ (lost[a] \/ (task[a] = NULL /\ ready[s] = "none")))
  BY <1>1, <1>2
<1>5. \A b \in Agents : b # a => task'[b] = task[b] /\ lost'[b] = lost[b] /\ sock[b] # s
  BY <1>1, <1>2 DEF Following, Links
<1>6. \A t \in Socks : t # s => chan'[t] = chan[t]
  BY <1>1, <1>2
<1>7. /\ m \in Commands /\ m = q[1] /\ 1 \in DOMAIN q /\ Len(q) \in Nat /\ Len(q) > 0
      /\ Tail(q) \in Seq(Commands) /\ Len(Tail(q)) = Len(q) - 1 /\ DOMAIN q = 1..Len(q)
      /\ \A i \in 1..(Len(q) - 1) : Tail(q)[i] = q[i + 1]
  BY <1>1, <1>2, HeadTailProperties
<1>8. m.cmd \in {"create", "change", "finish"}
  BY <1>7 DEF Commands
<1> HIDE DEF q, m
<1>9. /\ task[a] \in Tasks \cup {NULL} /\ task'[a] \in Tasks \cup {NULL}
      /\ m.cmd = "create" /\ task[a] = NULL =>
            task'[a].workers = 1 /\ lost'[a] = (lost[a] \/ ready[s] = "none")
      /\ m.cmd = "create" /\ task[a] # NULL => lost'[a] = lost[a]
      /\ m.cmd = "change" /\ task[a] # NULL => task'[a].workers = task[a].workers /\ lost'[a] = lost[a]
      /\ m.cmd = "finish" \/ (m.cmd = "change" /\ task[a] = NULL) => task'[a] = NULL
  <2>1. task[a] \in Tasks \cup {NULL} /\ NULL \notin Tasks /\ lost[a] \in BOOLEAN
    BY <1>2, NullAssumption
  <2>2. task'[a] \in Tasks \cup {NULL}
    BY <1>4, <1>7, <2>1, HandleType
  <2> QED BY <1>4, <1>7, <2>1, <2>2, HandleEffect
\* The rest of the queue.
<1>10. \A j \in DOMAIN Tail(q) : j + 1 \in DOMAIN q /\ Tail(q)[j] = q[j + 1] /\ j \in Nat /\ j > 0
  BY <1>7
<1>11. ASSUME NEW i \in Nat, NEW j \in Nat, Finished(q, i + 1, j + 1) PROVE Finished(Tail(q), i, j)
  <2>1. PICK k \in DOMAIN q : i + 1 < k /\ k < j + 1 /\ q[k].cmd = "finish"
    BY <1>11 DEF Finished
  <2>2. k - 1 \in DOMAIN Tail(q) /\ i < k - 1 /\ k - 1 < j /\ Tail(q)[k - 1] = q[k]
    BY <1>7, <2>1
  <2> QED BY <2>1, <2>2 DEF Finished
<1>12. Links'
  <2>1. ASSUME NEW t \in Socks, Owner(t)' = {} \/ ready'[t] = "reported" PROVE chan'[t] = <<>>
    <3>1. Owner(t)' = Owner(t) /\ ready'[t] = ready[t]
      BY <1>1 DEF Owner
    <3>2. chan[t] = <<>>
      BY <2>1, <3>1 DEF Following, Links
    <3>3. t # s
      BY <1>1, <3>2 DEF q
    <3> QED BY <1>6, <3>2, <3>3
  <2>2. ASSUME NEW b \in Agents, task'[b] # NULL, ~lost'[b] PROVE sock'[b] \in InMap'
    <3>1. CASE b # a
      BY <1>1, <1>3, <1>5, <2>2, <3>1 DEF Following, Links
    <3>2. CASE b = a /\ task[a] # NULL
      <4>1. ~lost[a]
        BY <1>4, <2>2, <3>2
      <4> QED BY <1>1, <1>3, <3>2, <4>1 DEF Following, Links
    <3>3. CASE b = a /\ task[a] = NULL
      <4>1. ready[s] # "none"
        BY <1>4, <2>2, <3>3
      <4>2. ready[s] # "reported"
        BY <1>1, <1>2 DEF Following, Links, q
      <4> QED BY <1>1, <1>2, <1>3, <3>3, <4>1, <4>2 DEF InMap
    <3> QED BY <3>1, <3>2, <3>3
  <2> QED BY <1>1, <2>1, <2>2 DEF Following, Links
<1>13. Quiet'
  <2> SUFFICES ASSUME Beginning', NEW b \in Agents, sock'[b] \in InMap' PROVE Over(b)'
    BY DEF Quiet
  <2>1. Over(b) /\ sock'[b] = sock[b] /\ sock[b] \in Socks
    BY <1>1, <1>3 DEF Following, Quiet, Beginning, taskVars, InMap
  <2>2. CASE b # a
    BY <1>5, <1>6, <2>1, <2>2 DEF Over
  <2>3. CASE b = a
    <3>1. q[Len(q)].cmd = "finish"
      BY <1>1, <2>1, <2>3 DEF Over, q
    <3>2. CASE Len(q) = 1
      <4>1. Tail(q) = <<>>
        <5>1. Tail(q) \in Seq(Commands) /\ Len(Tail(q)) = 0
          BY <1>7, <3>2
        <5> QED BY <5>1, EmptySeq
      <4>2. task'[a] = NULL
        BY <1>7, <1>9, <3>1, <3>2
      <4> QED BY <1>1, <1>4, <2>3, <4>1, <4>2 DEF Over
    <3>3. CASE Len(q) # 1
      <4>1. Tail(q) # <<>> /\ Tail(q)[Len(Tail(q))] = q[Len(q)]
        <5>1. Len(Tail(q)) = Len(q) - 1 /\ Len(q) - 1 \in 1..(Len(q) - 1) /\ (Len(q) - 1) + 1 = Len(q)
          BY <1>7, <3>3
        <5>2. Tail(q)[Len(q) - 1] = q[Len(q)]
          BY <1>7, <5>1
        <5>3. Tail(q) # <<>>
          <6> SUFFICES ASSUME Tail(q) = <<>> PROVE FALSE
            OBVIOUS
          <6>1. Len(Tail(q)) = 0
            BY EmptySeq
          <6>2. Len(Tail(q)) # 0
            BY <1>7, <5>1
          <6> QED BY <6>1, <6>2
        <5> QED BY <5>1, <5>2, <5>3
      <4> QED BY <1>1, <1>4, <2>3, <3>1, <4>1 DEF Over
    <3> QED BY <3>2, <3>3
  <2> QED BY <2>2, <2>3
<1>14. Separated'
  <2> SUFFICES ASSUME NEW b \in Agents, sock[b] # NULL PROVE Separate(b)'
    BY <1>1 DEF Separated
  <2>1. Separate(b) /\ sock[b] \in Socks
    BY DEF Following, Separated, Types, TypeOK
  <2>2. CASE b # a
    BY <1>1, <1>5, <1>6, <2>1, <2>2 DEF Separate, Finished
  <2>3. CASE b = a
    <3>1. ASSUME NEW i \in DOMAIN Tail(q), NEW j \in DOMAIN Tail(q), i < j,
                 Tail(q)[i].cmd = "create", Tail(q)[j].cmd = "create"
          PROVE  Finished(Tail(q), i, j)
      <4>1. Finished(q, i + 1, j + 1)
        BY <1>10, <2>1, <2>3, <3>1 DEF Separate, q
      <4> QED BY <1>10, <1>11, <4>1
    <3>2. ASSUME task'[a] # NULL, ~lost'[a], NEW j \in DOMAIN Tail(q), Tail(q)[j].cmd = "create"
          PROVE  Finished(Tail(q), 0, j)
      <4>1. m.cmd # "finish"
        BY <1>9, <3>2
      <4>2. Finished(q, 1, j + 1)
        <5>1. CASE task[a] # NULL
          <6>1. Finished(q, 0, j + 1)
            <7>1. ~lost[a]
              BY <1>4, <3>2, <5>1
            <7> QED BY <1>10, <2>1, <2>3, <3>2, <5>1, <7>1 DEF Separate, q
          <6> QED BY <1>7, <4>1, <6>1 DEF Finished
        <5>2. CASE task[a] = NULL
          <6>1. q[1].cmd = "create"
            BY <1>7, <1>8, <1>9, <3>2, <5>2
          <6> QED BY <1>7, <1>10, <2>1, <2>3, <3>2, <6>1 DEF Separate, q
        <5> QED BY <5>1, <5>2
      <4> QED BY <1>10, <1>11, <4>2
    <3> QED BY <1>1, <1>4, <2>3, <3>1, <3>2 DEF Separate
  <2> QED BY <2>2, <2>3
<1>15. OneWorker'
  <2> SUFFICES ASSUME NEW b \in Agents, task'[b] # NULL, ~lost'[b] PROVE task'[b].workers = 1
    BY DEF OneWorker
  <2>1. CASE b # a
    BY <1>5, <2>1 DEF Following, OneWorker
  <2>2. CASE b = a /\ task[a] = NULL
    BY <1>8, <1>9, <2>2
  <2>3. CASE b = a /\ task[a] # NULL
    <3>1. ~lost[a] /\ task[a].workers = 1
      BY <1>4, <2>3 DEF Following, OneWorker
    <3>2. m.cmd # "create"
      <4>1. Separate(a)
        BY <1>1 DEF Following, Separated
      <4>2. ~Finished(q, 0, 1)
        BY <1>7 DEF Finished
      <4> QED BY <1>7, <2>3, <3>1, <4>1, <4>2 DEF Separate, q
    <3> QED BY <1>8, <1>9, <2>3, <3>1, <3>2
  <2> QED BY <2>1, <2>2, <2>3
<1> QED BY <1>12, <1>13, <1>14, <1>15 DEF Following

\* Every step keeps the invariant of AgentsFollow.
LEMMA FollowStep == Following /\ [Next]_vars => Following'
<1> SUFFICES ASSUME Following, [Next]_vars PROVE Following'
  OBVIOUS
<1>0. Types' /\ Types /\ Links
  BY TypeStep DEF Following
<1>1. CASE UNCHANGED vars
  BY <1>0, <1>1, SameStep DEF vars, taskVars, Beginning, InMap, Links
<1>2. CASE task_push_init
  BY <1>0, <1>2, SameStep DEF task_push_init, Beginning, InMap, Links
<1>3. CASE task_push_init_send
  <2>1. PICK share \in Shares(once_user, client_count, Willing) :
          Send(Willing, [s \in Willing |-> [cmd |-> "create", n |-> share[s]]])
    BY <1>3 DEF task_push_init_send
  <2> DEFINE msg == [s \in Willing |-> [cmd |-> "create", n |-> share[s]]]
  <2>2. Willing \subseteq InMap /\ \A s \in Willing : msg[s] \in Commands /\ msg[s].cmd = "create"
    <3>1. once_user \in Nat /\ client_count \in Nat \ {0}
      BY <1>0, <1>3, SetAssumption, FS_CardinalityType DEF Types, TypeOK, Counts, task_push_init_send
    <3>2. share \in [Willing -> Nat]
      BY <2>1, <3>1, SharesType
    <3> QED BY <3>2 DEF Willing, Commands
  <2>3. Beginning /\ ~Beginning' /\ UNCHANGED <<ready, sock, task, lost>>
    BY <1>3 DEF task_push_init_send, Beginning
  <2> HIDE DEF msg
  <2> QED BY <1>0, <2>1, <2>2, <2>3, SendStep DEF msg
<1>4. CASE task_push_add_once_user
  BY <1>0, <1>4, SameStep DEF task_push_add_once_user, Beginning, InMap, Links
<1>5. CASE task_push_add_send
  <2>1. PICK share \in Shares(once_user, client_count, Willing) :
          Send(Willing, [s \in Willing |-> [cmd |-> "change", n |-> share[s]]])
    BY <1>5 DEF task_push_add_send
  <2> DEFINE msg == [s \in Willing |-> [cmd |-> "change", n |-> share[s]]]
  <2>2. Willing \subseteq InMap /\ \A s \in Willing : msg[s] \in Commands /\ msg[s].cmd = "change"
    <3>1. once_user \in Int /\ client_count \in Nat \ {0}
      BY <1>0, <1>5, SetAssumption, FS_CardinalityType DEF Types, TypeOK, Counts, task_push_add_send
    <3>2. share \in [Willing -> Int]
      BY <2>1, <3>1, SharesType
    <3> QED BY <3>2 DEF Willing, Commands
  <2>3. ~Beginning' /\ UNCHANGED <<ready, sock, task, lost>>
    BY <1>0, <1>5 DEF task_push_add_send, Beginning, Types, Counts
  <2> HIDE DEF msg
  <2> QED BY <1>0, <2>1, <2>2, <2>3, SendStep DEF msg
<1>6. CASE task_push_over
  <2> DEFINE msg == [s \in InMap |-> [cmd |-> "finish", n |-> 0]]
  <2>1. \A s \in InMap : msg[s] \in Commands /\ msg[s].cmd = "finish"
    BY DEF Commands
  <2>2. Send(InMap, msg) /\ UNCHANGED <<ready, sock, task, lost>>
    BY <1>6 DEF task_push_over
  <2> HIDE DEF msg
  <2> QED BY <1>0, <2>1, <2>2, SendStep
<1>7. CASE task_run
  BY <1>0, <1>7, SameStep DEF task_run, Beginning, InMap, Links
<1>8. CASE task_stop
  BY <1>0, <1>8, SameStep DEF task_stop, Beginning, InMap, Links
<1>9. ASSUME NEW count \in ((-MaxTotal)..MaxTotal) \ {0}, task_user(count) PROVE Following'
  BY <1>0, <1>9, SameStep DEF task_user, Beginning, InMap, Links
<1>10. CASE do_sync_files
  <2>1. InMap' = InMap /\ \A s \in Socks : ready'[s] = "reported" => ready[s] = "reported"
    BY <1>10 DEF do_sync_files, InMap, Entries
  <2> QED BY <1>0, <1>10, <2>1, SameStep DEF do_sync_files, Beginning, taskVars, Links
<1>11. ASSUME NEW a \in Agents, NEW s \in Socks, ConnectionMade(a, s) PROVE Following'
  BY <1>0, <1>11, MadeStep
<1>12. ASSUME NEW a \in Agents, ConnectionClosed(a) PROVE Following'
  BY <1>0, <1>12, LostStep
<1>13. ASSUME NEW a \in Agents, CheckRequest(a) PROVE Following'
  BY <1>0, <1>13, HandleStep
<1>14. ASSUME NEW s \in Socks, server_cmd_1(s) PROVE Following'
  <2>1. InMap' = InMap \cup {s} /\ \A t \in Socks : ready'[t] = "reported" => ready[t] = "reported"
    BY <1>0, <1>14 DEF server_cmd_1, InMap, Entries, Types, TypeOK
  <2> QED BY <1>0, <1>14, <2>1, SameStep DEF server_cmd_1, Beginning, taskVars, Links
<1>15. ASSUME NEW s \in Socks, NEW r \in {"READY", "FAIL"}, server_cmd_11(s, r) PROVE Following'
  <2>1. InMap' = InMap /\ \A t \in Socks : ready'[t] = "reported" => ready[t] = "reported"
    BY <1>0, <1>15 DEF server_cmd_11, InMap, Entries, Types, TypeOK
  <2> QED BY <1>0, <1>15, <2>1, SameStep DEF server_cmd_11, Beginning, taskVars, Links
<1>16. ASSUME NEW s \in Socks, StressConnectionClosed(s) PROVE Following'
  <2>1. InMap' = InMap \ {s} /\ \A t \in Socks : ready'[t] = "reported" => ready[t] = "reported"
    BY <1>0, <1>16 DEF StressConnectionClosed, InMap, Entries, Types, TypeOK
  <2>2. ASSUME NEW a \in Agents, task[a] # NULL, ~lost'[a] PROVE ~lost[a] /\ sock[a] # s
    <3>1. lost'[a] = (lost[a] \/ (a \in Owner(s) /\ task[a] # NULL))
      BY <1>16 DEF StressConnectionClosed
    <3> QED BY <2>2, <3>1 DEF Owner
  <2>3. \A a \in Agents : lost[a] => lost'[a]
    BY <1>16 DEF StressConnectionClosed
  <2> QED BY <1>0, <1>16, <2>1, <2>2, <2>3, SameStep DEF StressConnectionClosed, Beginning, taskVars, Links
<1> QED BY <1>1, <1>2, <1>3, <1>4, <1>5, <1>6, <1>7, <1>8, <1>9, <1>10, <1>11, <1>12, <1>13, <1>14, <1>15, <1>16
        DEF Next, ThreadStep, Console, AgentStep, ServerStep

\* An agent that keeps its connection has one worker thread for the task, which a
\* create never finds (TaskManager.cpp:367), and is told to finish when it ends
\* (ServerConsole.cpp:194), for any agents, connections and synchronisations.
THEOREM AgentsFollowHolds == Spec => []AgentsFollow
<1>1. Following => AgentsFollow
  <2> SUFFICES ASSUME Following, NEW a \in Agents, task[a] # NULL, ~lost[a], pc = "none"
               PROVE  \E i \in DOMAIN chan[sock[a]] : chan[sock[a]][i].cmd = "finish"
    BY DEF AgentsFollow, StopReaches, Following
  <2>1. sock[a] \in InMap /\ Over(a)
    BY DEF Following, Links, Quiet, Beginning
  <2>2. chan[sock[a]] \in Seq(Commands)
    BY <2>1 DEF InMap, Following, Types, TypeOK
  <2> QED BY <2>1, <2>2 DEF Over
<1> QED BY <1>1, FollowInit, FollowStep, PTL DEF Spec

-----------------------------------------------------------------------------
\* Induction, sums and folds

\* Induction on a set of numbers.
LEMMA Induction ==
    ASSUME NEW B, 0 \in B, \A n \in Nat : n \in B => n + 1 \in B
    PROVE  Nat \subseteq B
<1> DEFINE R == OpToRel(<, Nat)
           D == Nat \ B
<1> SUFFICES ASSUME D # {} PROVE FALSE
  OBVIOUS
<1>1. D \subseteq Nat /\ IsWellFoundedOn(R, Nat)
  BY NatLessThanWellFounded
<1> HIDE DEF D, R
<1>2. PICK m \in D : \A k \in D : ~(<<k, m>> \in R)
  BY <1>1, WFMin
<1>3. m \in Nat /\ m \notin B /\ \A k \in D : ~(k < m)
  BY <1>1, <1>2 DEF R, D, OpToRel
<1>4. m # 0 /\ m - 1 \in Nat /\ m - 1 < m
  BY <1>3
<1>5. m - 1 \in B
  BY <1>3, <1>4 DEF D
<1> QED BY <1>3, <1>4, <1>5

\* What a fold over the subsets of S computes, with ch the choice of the element.
Recursive(f, S, base, G, ch, n) ==
    \A s \in SUBSET S : Cardinality(s) <= n =>
        f[s] = IF s = {} THEN base ELSE G[<<ch[s], f[s \ {ch[s]}]>>]

Folds(f, S, base, G, ch) ==
    \A s \in SUBSET S : f[s] = IF s = {} THEN base ELSE G[<<ch[s], f[s \ {ch[s]}]>>]

\* There is a function that folds G over every subset of a finite set.
LEMMA Recursion ==
    ASSUME NEW S, IsFiniteSet(S), NEW V, NEW base \in V, NEW G \in [S \X V -> V], NEW ch,
           \A s \in SUBSET S : s # {} => ch[s] \in s
    PROVE  \E f \in [SUBSET S -> V] : Folds(f, S, base, G, ch)
<1> DEFINE B == {n \in Nat : \E f \in [SUBSET S -> V] : Recursive(f, S, base, G, ch, n)}
<1>1. 0 \in B
  <2> DEFINE f == [s \in SUBSET S |-> base]
  <2>1. \A s \in SUBSET S : Cardinality(s) <= 0 => s = {}
    <3> TAKE s \in SUBSET S
    <3>1. IsFiniteSet(s) /\ Cardinality(s) \in Nat
      BY FS_Subset, FS_CardinalityType
    <3> QED BY <3>1, FS_EmptySet
  <2>2. f \in [SUBSET S -> V] /\ Recursive(f, S, base, G, ch, 0)
    BY <2>1 DEF Recursive
  <2> QED BY <2>2
<1>2. ASSUME NEW n \in Nat, n \in B PROVE n + 1 \in B
  <2>1. PICK f \in [SUBSET S -> V] : Recursive(f, S, base, G, ch, n)
    BY <1>2
  <2> DEFINE g == [s \in SUBSET S |-> IF s = {} THEN base ELSE G[<<ch[s], f[s \ {ch[s]}]>>]]
  <2>2. g \in [SUBSET S -> V]
    <3> SUFFICES ASSUME NEW s \in SUBSET S, s # {} PROVE G[<<ch[s], f[s \ {ch[s]}]>>] \in V
      OBVIOUS
    <3>1. ch[s] \in S /\ f[s \ {ch[s]}] \in V
      OBVIOUS
    <3> QED BY <3>1
  <2>3. ASSUME NEW s \in SUBSET S, Cardinality(s) <= n PROVE g[s] = f[s]
    BY <2>1, <2>3 DEF Recursive
  <2>0. \A s \in SUBSET S : g[s] = IF s = {} THEN base ELSE G[<<ch[s], f[s \ {ch[s]}]>>]
    OBVIOUS
  <2> HIDE DEF g
  <2>4. ASSUME NEW s \in SUBSET S, Cardinality(s) <= n + 1, s # {}
        PROVE  g[s] = G[<<ch[s], g[s \ {ch[s]}]>>]
    <3> DEFINE x == ch[s]
    <3>1. IsFiniteSet(s) /\ x \in s /\ Cardinality(s) \in Nat
      BY <2>4, FS_Subset, FS_CardinalityType
    <3> HIDE DEF x
    <3>2. Cardinality(s \ {x}) = Cardinality(s) - 1
      BY <3>1, FS_RemoveElement
    <3>3. s \ {x} \in SUBSET S /\ Cardinality(s \ {x}) <= n
      BY <2>4, <3>1, <3>2
    <3>4. g[s \ {x}] = f[s \ {x}]
      BY <2>3, <3>3
    <3> QED BY <2>4, <2>0, <3>4 DEF x
  <2>5. Recursive(g, S, base, G, ch, n + 1)
    <3>1. {} \in SUBSET S /\ g[{}] = base
      BY <2>0
    <3> QED BY <2>4, <3>1 DEF Recursive
  <2> QED BY <2>2, <2>5
<1> HIDE DEF B
<1>3. Cardinality(S) \in B
  BY <1>1, <1>2, Induction, FS_CardinalityType
<1>4. PICK f \in [SUBSET S -> V] : Recursive(f, S, base, G, ch, Cardinality(S))
  BY <1>3 DEF B
<1>5. \A s \in SUBSET S : Cardinality(s) <= Cardinality(S)
  BY FS_Subset
<1> QED BY <1>4, <1>5 DEF Recursive, Folds

-----------------------------------------------------------------------------
\* Sums

First(s)   == CHOOSE x \in s : TRUE
SumOver(g, S)  == MapThenSumSet(LAMBDA x : g[x], S)

\* f is the sum of g over each subset of S.
AddsUp(f, g, S) ==
    /\ f[{}] = 0
    /\ \A s \in SUBSET S : s # {} => f[s] = g[First(s)] + f[s \ {First(s)}]

\* The element of a set that a fold takes first is in it.
LEMMA FirstIn == \A s : s # {} => First(s) \in s
BY DEF First

\* There is a function that gives the sum over every subset.
LEMMA SumExists ==
    ASSUME NEW S, IsFiniteSet(S), NEW g \in [S -> Int]
    PROVE  \E f \in [SUBSET S -> Int] : AddsUp(f, g, S)
<1> DEFINE G == [p \in S \X Int |-> g[p[1]] + p[2]]
           ch == [s \in SUBSET S |-> First(s)]
<1>1. G \in [S \X Int -> Int] /\ \A s \in SUBSET S : s # {} => ch[s] \in s
  BY FirstIn
<1>2. \A x \in S, n \in Int : G[<<x, n>>] = g[x] + n
  OBVIOUS
<1>3. \A s \in SUBSET S : ch[s] = First(s)
  OBVIOUS
<1>0. 0 \in Int
  OBVIOUS
<1> HIDE DEF G, ch
<1>4. PICK f \in [SUBSET S -> Int] : Folds(f, S, 0, G, ch)
  BY <1>0, <1>1, Recursion
<1>5. f[{}] = 0
  BY <1>4 DEF Folds
<1>6. ASSUME NEW s \in SUBSET S, s # {} PROVE f[s] = g[First(s)] + f[s \ {First(s)}]
  <2>1. First(s) \in S /\ f[s \ {First(s)}] \in Int
    BY <1>6, FirstIn
  <2> QED BY <1>2, <1>3, <1>4, <1>6, <2>1 DEF Folds
<1> QED BY <1>5, <1>6 DEF AddsUp

\* A sum over subsets of a finite set is determined by how it adds up.
LEMMA SumUnique ==
    ASSUME NEW S, IsFiniteSet(S), NEW g, NEW f, NEW h, AddsUp(f, g, S), AddsUp(h, g, S)
    PROVE  f[S] = h[S]
<1> DEFINE B == {n \in Nat : \A s \in SUBSET S : Cardinality(s) <= n => f[s] = h[s]}
<1>1. 0 \in B
  <2> SUFFICES ASSUME NEW s \in SUBSET S, Cardinality(s) <= 0 PROVE f[s] = h[s]
    OBVIOUS
  <2>1. s = {}
    BY FS_Subset, FS_CardinalityType, FS_EmptySet
  <2> QED BY <2>1 DEF AddsUp
<1>2. ASSUME NEW n \in Nat, n \in B PROVE n + 1 \in B
  <2> SUFFICES ASSUME NEW s \in SUBSET S, Cardinality(s) <= n + 1 PROVE f[s] = h[s]
    OBVIOUS
  <2> DEFINE x == First(s)
  <2>1. CASE s = {}
    BY <2>1 DEF AddsUp
  <2>2. CASE s # {}
    <3>1. IsFiniteSet(s) /\ x \in s /\ Cardinality(s) \in Nat
      BY <2>2, FirstIn, FS_Subset, FS_CardinalityType
    <3> HIDE DEF x
    <3>2. Cardinality(s \ {x}) = Cardinality(s) - 1
      BY <3>1, FS_RemoveElement
    <3>3. s \ {x} \in SUBSET S /\ Cardinality(s \ {x}) <= n
      BY <3>1, <3>2
    <3>4. f[s \ {x}] = h[s \ {x}]
      BY <1>2, <3>3
    <3> QED BY <2>2, <3>4 DEF AddsUp, x
  <2> QED BY <2>1, <2>2
<1> HIDE DEF B
<1>3. Cardinality(S) \in B
  BY <1>1, <1>2, Induction, FS_CardinalityType
<1> QED BY <1>3, FS_CardinalityType DEF B

\* MapThenSumSet adds up.
LEMMA SumFold ==
    ASSUME NEW S, IsFiniteSet(S), NEW g \in [S -> Int]
    PROVE  \E f \in [SUBSET S -> Int] : AddsUp(f, g, S) /\ SumOver(g, S) = f[S]
<1> DEFINE Def(h) == [s \in SUBSET S |-> IF s = {} THEN 0 ELSE g[First(s)] + h[s \ {First(s)}]]
           c == CHOOSE h : h = Def(h)
<1>1. PICK f \in [SUBSET S -> Int] : AddsUp(f, g, S)
  BY SumExists
<1>2. f = Def(f)
  BY <1>1 DEF AddsUp
<1>3. c = Def(c)
  <2> HIDE DEF Def
  <2> QED BY <1>2, Zenon
<1>4. AddsUp(c, g, S)
  <2> HIDE DEF c
  <2> QED BY <1>3 DEF AddsUp
<1>5. SumOver(g, S) = c[S]
  BY DEF SumOver, MapThenSumSet, MapThenFoldSet, First
<1> HIDE DEF c
<1>6. c[S] = f[S]
  BY <1>1, <1>4, SumUnique
<1> QED BY <1>1, <1>5, <1>6

\* Nothing but zeros adds up to zero.
LEMMA SumZero ==
    ASSUME NEW S, IsFiniteSet(S)
    PROVE  SumOver([x \in S |-> 0], S) = 0
<1> DEFINE g == [x \in S |-> 0]
           z == [s \in SUBSET S |-> 0]
<1>1. AddsUp(z, g, S)
  BY FirstIn DEF AddsUp
<1>2. PICK f \in [SUBSET S -> Int] : AddsUp(f, g, S) /\ SumOver(g, S) = f[S]
  <2>1. g \in [S -> Int]
    OBVIOUS
  <2> HIDE DEF g
  <2> QED BY <2>1, SumFold
<1> HIDE DEF g
<1>3. z[S] = 0
  OBVIOUS
<1> HIDE DEF z
<1>4. f[S] = z[S]
  BY <1>1, <1>2, SumUnique
<1> QED BY <1>2, <1>3, <1>4 DEF g

\* h is g with c more for each of S, and u more for those in E.
Gives(g, h, S, E, c, u) == \A x \in S : h[x] = g[x] + (IF x \in E THEN c + u ELSE c)

\* A sum grows by what each member and each member of E is given.
LEMMA SumShares ==
    ASSUME NEW S, IsFiniteSet(S), NEW g \in [S -> Int], NEW h \in [S -> Int], NEW E,
           NEW c \in Int, NEW u \in Int, Gives(g, h, S, E, c, u)
    PROVE  /\ SumOver(g, S) \in Int /\ SumOver(h, S) \in Int
           /\ SumOver(h, S) = SumOver(g, S) + (c * Cardinality(S) + u * Cardinality(S \cap E))
<1>1. PICK f \in [SUBSET S -> Int] : AddsUp(f, g, S) /\ SumOver(g, S) = f[S]
  BY SumFold
<1>2. PICK r \in [SUBSET S -> Int] : AddsUp(r, h, S) /\ SumOver(h, S) = r[S]
  BY SumFold
<1> DEFINE k(s) == c * Cardinality(s) + u * Cardinality(s \cap E)
           t == [s \in SUBSET S |-> f[s] + k(s)]
<1>3. \A s \in SUBSET S : IsFiniteSet(s) /\ IsFiniteSet(s \cap E)
                          /\ Cardinality(s) \in Nat /\ Cardinality(s \cap E) \in Nat
  <2> TAKE s \in SUBSET S
  <2>1. IsFiniteSet(s) /\ s \cap E \in SUBSET S
    BY FS_Subset
  <2>2. IsFiniteSet(s \cap E)
    BY <2>1, FS_Subset
  <2> QED BY <2>1, <2>2, FS_CardinalityType
<1>4. k({}) = 0
  <2>1. {} \cap E = {} /\ Cardinality({}) = 0
    BY FS_EmptySet
  <2> QED BY <2>1
<1>5. ASSUME NEW s \in SUBSET S, NEW x \in s
      PROVE  k(s) = (IF x \in E THEN c + u ELSE c) + k(s \ {x}) /\ k(s) \in Int /\ k(s \ {x}) \in Int
  <2> DEFINE n == Cardinality(s \ {x})
             m == Cardinality((s \ {x}) \cap E)
  <2>1. Cardinality(s) = n + 1 /\ n \in Nat
    <3>1. IsFiniteSet(s) /\ Cardinality(s) \in Nat /\ s \ {x} \in SUBSET S
      BY <1>3
    <3>2. Cardinality(s \ {x}) = Cardinality(s) - 1
      BY <3>1, FS_RemoveElement
    <3>3. Cardinality(s \ {x}) \in Nat
      BY <1>3, <3>1, Zenon
    <3> HIDE DEF n
    <3>4. n = Cardinality(s) - 1 /\ n \in Nat
      BY <3>2, <3>3, Zenon DEF n
    <3> QED BY <3>1, <3>4
  <2>2. m \in Nat /\ Cardinality(s \cap E) = IF x \in E THEN m + 1 ELSE m
    <3>1. IsFiniteSet(s \cap E) /\ Cardinality(s \cap E) \in Nat /\ s \ {x} \in SUBSET S
      BY <1>3
    <3>2. (s \ {x}) \cap E = (s \cap E) \ {x}
      OBVIOUS
    <3>3. Cardinality((s \cap E) \ {x}) = IF x \in s \cap E THEN Cardinality(s \cap E) - 1 ELSE Cardinality(s \cap E)
      BY <3>1, FS_RemoveElement
    <3>4. m \in Nat
      BY <1>3, <3>1, Zenon
    <3>5. m = Cardinality((s \cap E) \ {x})
      BY <3>2, Zenon
    <3> HIDE DEF m
    <3> QED BY <3>1, <3>3, <3>4, <3>5
  <2> HIDE DEF n, m
  <2>3. c * (n + 1) = c * n + c /\ u * (m + 1) = u * m + u /\ c * n \in Int /\ u * m \in Int
    BY <2>1, <2>2
  <2>4. k(s \ {x}) = c * n + u * m
    BY DEF n, m
  <2>5. k(s) = c * (n + 1) + u * (IF x \in E THEN m + 1 ELSE m)
    BY <2>1, <2>2
  <2> HIDE DEF k
  <2> QED BY <2>1, <2>2, <2>3, <2>4, <2>5
<1>6. AddsUp(t, h, S)
  <2>1. t[{}] = 0
    BY <1>1, <1>4 DEF AddsUp
  <2>2. ASSUME NEW s \in SUBSET S, s # {} PROVE t[s] = h[First(s)] + t[s \ {First(s)}]
    <3> DEFINE x == First(s)
               y == s \ {x}
    <3>1. x \in s /\ x \in S /\ y \in SUBSET S
      BY <2>2, FirstIn
    <3>2. f[s] = g[x] + f[y] /\ f[y] \in Int /\ g[x] \in Int
      BY <1>1, <2>2, <3>1 DEF AddsUp
    <3> HIDE DEF x, y
    <3>3. k(s) = (IF x \in E THEN c + u ELSE c) + k(y) /\ k(s) \in Int /\ k(y) \in Int
      BY <1>5, <3>1 DEF y
    <3>4. h[x] = g[x] + (IF x \in E THEN c + u ELSE c)
      BY <3>1 DEF Gives
    <3>5. t[s] = f[s] + k(s) /\ t[y] = f[y] + k(y)
      BY <3>1
    <3> HIDE DEF k, t
    <3>6. t[s] = h[x] + t[y]
      <4> DEFINE e == IF x \in E THEN c + u ELSE c
      <4>1. e \in Int
        OBVIOUS
      <4> HIDE DEF e
      <4> QED BY <3>2, <3>3, <3>4, <3>5, <4>1 DEF e
    <3> QED BY <3>6 DEF x, y
  <2> QED BY <2>1, <2>2 DEF AddsUp
<1>7. t[S] = f[S] + k(S)
  OBVIOUS
<1> HIDE DEF t
<1>8. r[S] = t[S]
  BY <1>2, <1>6, SumUnique
<1> QED BY <1>1, <1>2, <1>7, <1>8

-----------------------------------------------------------------------------
\* What a queue makes of a task

Queues == Seq(Commands)
Held   == Tasks \cup {NULL}

Taken(t, q) == FoldLeft(Handle, t, q)

\* f is what the commands with the numbers in each set make of t.
Takes(f, t, q) ==
    /\ f[{}] = t
    /\ \A s \in SUBSET DOMAIN q : s # {} => f[s] = Handle(f[s \ {Max(s)}], q[Max(s)])

\* A set of numbers up to n has a greatest one.
LEMMA MaxIn ==
    ASSUME NEW n \in Nat, NEW s \in SUBSET (1..n), s # {}
    PROVE  Max(s) \in s /\ \A y \in s : Max(s) >= y
<1> DEFINE B == {k \in Nat : \A r \in SUBSET (1..k) : r # {} => \E x \in r : \A y \in r : x >= y}
<1>1. 0 \in B
  <2>1. 1..0 = {}
    OBVIOUS
  <2> QED BY <2>1
<1>2. ASSUME NEW k \in Nat, k \in B PROVE k + 1 \in B
  <2> SUFFICES ASSUME NEW r \in SUBSET (1..(k + 1)), r # {} PROVE \E x \in r : \A y \in r : x >= y
    OBVIOUS
  <2>1. CASE k + 1 \in r
    BY <2>1
  <2>2. CASE k + 1 \notin r
    <3>1. r \in SUBSET (1..k)
      BY <2>2
    <3> QED BY <1>2, <3>1
  <2> QED BY <2>1, <2>2
<1> HIDE DEF B
<1>3. n \in B
  BY <1>1, <1>2, Induction
<1>4. \E x \in s : \A y \in s : x >= y
  BY <1>3 DEF B
<1> QED BY <1>4 DEF Max

\* The greatest of 1..n is n.
LEMMA MaxLast == ASSUME NEW n \in Nat, n > 0 PROVE Max(1..n) = n /\ (1..n) \ {n} = 1..(n - 1)
<1>1. 1..n \in SUBSET (1..n) /\ 1..n # {} /\ n \in 1..n
  OBVIOUS
<1>2. Max(1..n) \in 1..n /\ Max(1..n) >= n
  BY <1>1, MaxIn
<1> QED BY <1>2

\* There is a function that gives the task after every set of commands of a queue.
LEMMA TakesExists ==
    ASSUME NEW q \in Queues, NEW t \in Held
    PROVE  \E f \in [SUBSET DOMAIN q -> Held] : Takes(f, t, q)
<1> DEFINE S  == DOMAIN q
           G  == [p \in S \X Held |-> Handle(p[2], q[p[1]])]
           ch == [s \in SUBSET S |-> Max(s)]
<1>1. S = 1..Len(q) /\ Len(q) \in Nat /\ \A i \in S : q[i] \in Commands
  BY DEF Queues
<1>2. IsFiniteSet(S)
  BY <1>1, FS_Interval
<1>3. G \in [S \X Held -> Held]
  BY <1>1, HandleType DEF Held
<1>4. \A s \in SUBSET S : s # {} => ch[s] \in s
  BY <1>1, MaxIn
<1>5. \A i \in S, v \in Held : G[<<i, v>>] = Handle(v, q[i])
  OBVIOUS
<1>6. \A s \in SUBSET S : ch[s] = Max(s)
  OBVIOUS
<1> HIDE DEF G, ch, S
<1>7. PICK f \in [SUBSET S -> Held] : Folds(f, S, t, G, ch)
  BY <1>2, <1>3, <1>4, Recursion
<1>8. f[{}] = t
  BY <1>7 DEF Folds
<1>9. ASSUME NEW s \in SUBSET S, s # {} PROVE f[s] = Handle(f[s \ {Max(s)}], q[Max(s)])
  <2>1. Max(s) \in S /\ f[s \ {Max(s)}] \in Held /\ ch[s] = Max(s)
    BY <1>4, <1>6, <1>9
  <2> QED BY <1>5, <1>7, <1>9, <2>1 DEF Folds
<1> QED BY <1>7, <1>8, <1>9 DEF Takes, S

\* FoldLeft takes the commands in turn.
LEMMA TakenFold ==
    ASSUME NEW q \in Queues, NEW t \in Held
    PROVE  \E f : Takes(f, t, q) /\ Taken(t, q) = f[DOMAIN q]
<1> DEFINE Def(h) == [s \in SUBSET DOMAIN q |-> IF s = {} THEN t ELSE Handle(h[s \ {Max(s)}], q[Max(s)])]
           c == CHOOSE h : h = Def(h)
<1>1. PICK f \in [SUBSET DOMAIN q -> Held] : Takes(f, t, q)
  BY TakesExists
<1>2. f = Def(f)
  BY <1>1 DEF Takes
<1>3. c = Def(c)
  <2> HIDE DEF Def
  <2> QED BY <1>2, Zenon
<1>4. Takes(c, t, q)
  <2> HIDE DEF c
  <2> QED BY <1>3 DEF Takes
<1>5. Taken(t, q) = c[DOMAIN q]
  BY DEF Taken, FoldLeft, MapThenFoldSet
<1> QED BY <1>4, <1>5

\* Queues with the same beginning make the same of it.
LEMMA SameBeginning ==
    ASSUME NEW q \in Queues, NEW p \in Queues, NEW t, NEW f, NEW h, Takes(f, t, q), Takes(h, t, p),
           NEW n \in Nat, n <= Len(q), n <= Len(p), \A i \in 1..n : q[i] = p[i]
    PROVE  f[1..n] = h[1..n]
<1> DEFINE B == {k \in Nat : k <= n => f[1..k] = h[1..k]}
<1>1. 0 \in B
  <2>1. 1..0 = {}
    OBVIOUS
  <2> QED BY <2>1 DEF Takes
<1>2. ASSUME NEW k \in Nat, k \in B PROVE k + 1 \in B
  <2> SUFFICES ASSUME k + 1 <= n PROVE f[1..(k + 1)] = h[1..(k + 1)]
    OBVIOUS
  <2>1. Max(1..(k + 1)) = k + 1 /\ (1..(k + 1)) \ {k + 1} = 1..k
    BY MaxLast
  <2>2. /\ 1..(k + 1) \in SUBSET DOMAIN q /\ 1..(k + 1) \in SUBSET DOMAIN p /\ 1..(k + 1) # {}
        /\ q[k + 1] = p[k + 1]
    <3>1. DOMAIN q = 1..Len(q) /\ DOMAIN p = 1..Len(p) /\ Len(q) \in Nat /\ Len(p) \in Nat
      BY DEF Queues
    <3>2. 1..(k + 1) \subseteq 1..Len(q) /\ 1..(k + 1) \subseteq 1..Len(p) /\ k + 1 \in 1..(k + 1) /\ k + 1 \in 1..n
      BY <3>1
    <3> QED BY <3>1, <3>2
  <2>3. f[1..(k + 1)] = Handle(f[1..k], q[k + 1])
    BY <2>1, <2>2 DEF Takes
  <2>4. h[1..(k + 1)] = Handle(h[1..k], p[k + 1])
    BY <2>1, <2>2 DEF Takes
  <2>5. f[1..k] = h[1..k]
    BY <1>2
  <2> QED BY <2>2, <2>3, <2>4, <2>5
<1> HIDE DEF B
<1>3. n \in B
  BY <1>1, <1>2, Induction
<1> QED BY <1>3 DEF B

\* No command leaves a task as it is.
LEMMA TakenEmpty == ASSUME NEW t \in Held PROVE Taken(t, <<>>) = t
<1>1. <<>> \in Queues /\ DOMAIN <<>> = {}
  BY DEF Queues
<1>2. PICK f : Takes(f, t, <<>>) /\ Taken(t, <<>>) = f[DOMAIN <<>>]
  BY <1>1, TakenFold
<1> QED BY <1>1, <1>2 DEF Takes

\* A command sent last is handled last.
LEMMA TakenAppend ==
    ASSUME NEW q \in Queues, NEW t \in Held, NEW m \in Commands
    PROVE  Taken(t, Append(q, m)) = Handle(Taken(t, q), m)
<1> DEFINE p == Append(q, m)
           n == Len(q)
<1>1. /\ p \in Queues /\ n \in Nat /\ Len(p) = n + 1 /\ p[n + 1] = m /\ \A i \in 1..n : q[i] = p[i]
      /\ DOMAIN q = 1..n /\ DOMAIN p = 1..(n + 1)
  BY DEF Queues
<1> HIDE DEF p, n
<1>2. PICK f : Takes(f, t, q) /\ Taken(t, q) = f[DOMAIN q]
  BY TakenFold
<1>3. PICK h : Takes(h, t, p) /\ Taken(t, p) = h[DOMAIN p]
  BY <1>1, TakenFold
<1>4. n <= Len(q) /\ n <= Len(p)
  BY <1>1 DEF n
<1>5. f[1..n] = h[1..n]
  BY <1>1, <1>2, <1>3, <1>4, SameBeginning
<1>6. Max(1..(n + 1)) = n + 1 /\ (1..(n + 1)) \ {n + 1} = 1..n /\ 1..(n + 1) # {}
  <2>1. n + 1 \in Nat /\ n + 1 > 0 /\ (n + 1) - 1 = n /\ n + 1 \in 1..(n + 1)
    BY <1>1
  <2>2. Max(1..(n + 1)) = n + 1 /\ (1..(n + 1)) \ {n + 1} = 1..((n + 1) - 1)
    BY <2>1, MaxLast
  <2> QED BY <2>1, <2>2
<1>7. h[1..(n + 1)] = Handle(h[1..n], p[n + 1])
  BY <1>1, <1>3, <1>6 DEF Takes
<1> QED BY <1>1, <1>2, <1>3, <1>5, <1>7 DEF p

\* A queue of commands makes a task, or none, of a task or none.
LEMMA TakenType == ASSUME NEW q \in Queues, NEW t \in Held PROVE Taken(t, q) \in Held
<1>1. PICK f \in [SUBSET DOMAIN q -> Held] : Takes(f, t, q)
  BY TakesExists
<1>2. PICK h : Takes(h, t, q) /\ Taken(t, q) = h[DOMAIN q]
  BY TakenFold
<1>3. Len(q) \in Nat /\ DOMAIN q = 1..Len(q)
  BY DEF Queues
<1>4. f[1..Len(q)] = h[1..Len(q)]
  BY <1>1, <1>2, <1>3, SameBeginning
<1>5. f[DOMAIN q] \in Held
  BY <1>1
<1> QED BY <1>2, <1>3, <1>4, <1>5

\* The first of a queue may be taken at once.
LEMMA TakenHead ==
    ASSUME NEW q \in Queues, q # <<>>, NEW t \in Held
    PROVE  Taken(Handle(t, Head(q)), Tail(q)) = Taken(t, q)
<1> DEFINE P(n) == \A p \in Queues : p # <<>> /\ Len(p) = n + 1 => Taken(Handle(t, Head(p)), Tail(p)) = Taken(t, p)
           B == {n \in Nat : P(n)}
<1>0. \A p \in Queues : p # <<>> => /\ Head(p) \in Commands /\ Tail(p) \in Queues /\ Len(p) \in Nat /\ Len(p) > 0
                                     /\ Handle(t, Head(p)) \in Held
  BY HeadTailProperties, HandleType DEF Queues, Held
<1>1. 0 \in B
  <2> SUFFICES ASSUME NEW p \in Queues, p # <<>>, Len(p) = 1
               PROVE  Taken(Handle(t, Head(p)), Tail(p)) = Taken(t, p)
    OBVIOUS
  <2>1. PICK f \in Queues, m \in Commands : p = Append(f, m)
    BY SequenceEmptyOrAppend DEF Queues
  <2>2. f = <<>>
    <3>1. Len(f) \in Nat /\ Len(p) = Len(f) + 1
      BY <2>1, AppendProperties, LenProperties DEF Queues
    <3>2. Len(f) = 0 /\ f \in Seq(Commands)
      BY <2>1, <3>1 DEF Queues
    <3> QED BY <3>2, EmptySeq
  <2>3. Head(p) = m /\ Tail(p) = <<>>
    BY <2>1, <2>2, HeadTailAppend DEF Queues
  <2>4. Taken(Handle(t, m), <<>>) = Handle(t, m)
    BY <1>0, <2>3, TakenEmpty
  <2>5. Taken(t, Append(f, m)) = Handle(t, m)
    BY <2>2, TakenEmpty, TakenAppend
  <2> QED BY <2>1, <2>3, <2>4, <2>5
<1>2. ASSUME NEW n \in Nat, n \in B PROVE n + 1 \in B
  <2> SUFFICES ASSUME NEW p \in Queues, p # <<>>, Len(p) = (n + 1) + 1
               PROVE  Taken(Handle(t, Head(p)), Tail(p)) = Taken(t, p)
    OBVIOUS
  <2>1. PICK f \in Queues, m \in Commands : p = Append(f, m)
    BY SequenceEmptyOrAppend DEF Queues
  <2>2. Len(f) = n + 1 /\ f # <<>>
    <3>1. Len(f) \in Nat /\ Len(p) = Len(f) + 1
      BY <2>1, AppendProperties, LenProperties DEF Queues
    <3>2. Len(f) = n + 1
      BY <3>1
    <3> QED BY <3>2, EmptySeq
  <2>3. Head(p) = Head(f) /\ Tail(p) = Append(Tail(f), m)
    BY <2>1, <2>2, HeadTailAppend DEF Queues
  <2>4. Taken(Handle(t, Head(f)), Tail(f)) = Taken(t, f)
    BY <1>2, <2>2
  <2>5. Taken(Handle(t, Head(f)), Append(Tail(f), m)) = Handle(Taken(Handle(t, Head(f)), Tail(f)), m)
    BY <1>0, <2>2, TakenAppend
  <2>6. Taken(t, p) = Handle(Taken(t, f), m)
    BY <2>1, TakenAppend
  <2> QED BY <2>3, <2>4, <2>5, <2>6
<1> HIDE DEF B
<1>3. Len(q) - 1 \in B
  <2>1. Len(q) - 1 \in Nat
    BY <1>0
  <2> QED BY <1>1, <1>2, <2>1, Induction
<1> QED BY <1>0, <1>3 DEF B

-----------------------------------------------------------------------------
\* What is booked is told

Whole(x) == \E k \in Int : x = k * (2 * Half)

\* The agents are those of task_push_init, and each is or will be told its share of
\* what is booked.
Even ==
    /\ pc \in {"none", "run"} => once_user = 0
    /\ steady =>
          /\ pc # "none" /\ ~(pc = "run" /\ stage = "INIT")
          /\ \A s \in InMap : ready[s] = "READY" /\ Owner(s) # {}
          /\ \A a \in Agents : sock[a] \in InMap => (Drained(a) = NULL <=> pc = "init")
          /\ pc \in {"init", "add"} => client_count = Cardinality(InMap)
          /\ Whole((Told + once_user) - userCount)

Booking == Following /\ Even

Sharers == {a \in Agents : sock[a] \in InMap}

\* A multiple leaves no remainder.
LEMMA WholeMod == ASSUME NEW x \in Int, Whole(x) PROVE x % (2 * Half) = 0
<1> DEFINE m == 2 * Half
           q == x \div m
           r == x % m
<1>1. m \in Nat /\ m > 0
  BY Numbers
<1>2. PICK k \in Int : x = k * m
  BY DEF Whole
<1> HIDE DEF m
<1>3. q \in Int /\ r \in 0..(m - 1) /\ r = x - m * q
  BY <1>1, Division
<1> HIDE DEF q, r
<1> DEFINE d == k - q
<1>4. d \in Int /\ r = m * d
  BY <1>1, <1>2, <1>3
<1> HIDE DEF d
<1>5. d >= 1 => m * d >= m
  BY <1>1, <1>4
<1>6. d <= -1 => m * d <= -m
  BY <1>1, <1>4
<1>7. d = 0
  BY <1>1, <1>3, <1>4, <1>5, <1>6
<1>8. r = 0
  BY <1>1, <1>4, <1>7
<1> QED BY <1>8 DEF r, m

\* What an int16_t leaves of a number differs from it by a multiple of 2 * Half.
LEMMA WrapWhole == ASSUME NEW n \in Int PROVE Whole(n - Wrap(n))
<1> DEFINE m == 2 * Half
           x == n + Half
           q == x \div m
<1>1. m \in Nat /\ m > 0 /\ x \in Int /\ Half \in Nat
  BY Numbers
<1>2. Wrap(n) = (x % m) - Half
  BY DEF Wrap
<1>3. x = n + Half
  OBVIOUS
<1> HIDE DEF m, x
<1>4. q \in Int /\ x % m \in Int /\ x % m = x - m * q
  BY <1>1, Division
<1> HIDE DEF q
<1>5. n - Wrap(n) = q * m
  BY <1>1, <1>2, <1>3, <1>4
<1> QED BY <1>4, <1>5 DEF Whole, m

\* Multiples add up to a multiple.
LEMMA WholeAdd == ASSUME NEW x \in Int, NEW y \in Int, Whole(x), Whole(y) PROVE Whole(x + y)
<1> DEFINE m == 2 * Half
<1>1. m \in Nat
  BY Numbers
<1>2. PICK k \in Int : x = k * m
  BY DEF Whole
<1>3. PICK l \in Int : y = l * m
  BY DEF Whole
<1> HIDE DEF m
<1>4. x + y = (k + l) * m /\ k + l \in Int
  BY <1>1, <1>2, <1>3
<1> QED BY <1>4 DEF Whole, m

\* The shares add up to what is handed out.
LEMMA SharesSum ==
    ASSUME NEW n \in Int, NEW S, IsFiniteSet(S), Cardinality(S) > 0, NEW share \in Shares(n, Cardinality(S), S)
    PROVE  \E c \in Int, u \in Int, E \in SUBSET S :
              /\ share = [s \in S |-> IF s \in E THEN c + u ELSE c]
              /\ n = c * Cardinality(S) + u * Cardinality(E)
<1> DEFINE count == Cardinality(S)
           a == Quotient(n, count)
           b == Remainder(n, count)
           u == IF b < 0 THEN -1 ELSE 1
<1>1. count \in Nat /\ count > 0
  BY FS_CardinalityType
<1>2. PICK E \in SUBSET S : /\ Cardinality(E) = Min({b * u, count})
                           /\ share = [s \in S |-> IF s \in E THEN a + u ELSE a]
  BY DEF Shares
<1> HIDE DEF count
<1>3. a \in Int /\ b \in Int /\ n = count * a + b /\ -count < b /\ b < count
  <2>1. a \in Int
    BY <1>1, QuotientType
  <2>2. b = n - count * a
    BY DEF Remainder
  <2>3. CASE n >= 0
    <3>1. a = n \div count
      BY <2>3 DEF Quotient
    <3>2. n % count \in 0..(count - 1) /\ n % count = n - count * (n \div count)
      BY <1>1, Division
    <3> HIDE DEF a, b
    <3>3. b = n % count
      BY <2>2, <3>1, <3>2
    <3> QED BY <1>1, <2>1, <2>2, <3>2, <3>3
  <2>4. CASE ~(n >= 0)
    <3> DEFINE x == -n
    <3>1. a = -(x \div count) /\ x \in Int
      BY <2>4 DEF Quotient
    <3>2. x \div count \in Int /\ x % count \in 0..(count - 1) /\ x % count = x - count * (x \div count)
      BY <1>1, <3>1, Division
    <3>3. n = -x
      OBVIOUS
    <3> HIDE DEF a, b, x
    <3>4. b = -(x % count)
      BY <1>1, <2>1, <2>2, <3>1, <3>2, <3>3
    <3> QED BY <1>1, <2>1, <2>2, <3>2, <3>4
  <2> QED BY <2>3, <2>4
<1> HIDE DEF a, b
<1>4. u \in Int /\ b * u \in Nat /\ b * u < count /\ u * (b * u) = b
  <2>1. CASE b < 0
    <3>1. u = -1 /\ b * u = -b /\ u * (b * u) = b
      BY <1>3, <2>1
    <3> QED BY <1>1, <1>3, <2>1, <3>1
  <2>2. CASE ~(b < 0)
    <3>1. u = 1 /\ b * u = b /\ u * (b * u) = b
      BY <1>3, <2>2
    <3> QED BY <1>1, <1>3, <2>2, <3>1
  <2> QED BY <2>1, <2>2
<1> HIDE DEF u
<1> DEFINE e == b * u
<1>5. Min({e, count}) = e
  <2>1. e \in Nat /\ e < count
    BY <1>4
  <2> HIDE DEF e
  <2> QED BY <1>1, <2>1 DEF Min
<1>6. Cardinality(E) = e
  BY <1>2, <1>5
<1>7. n = a * count + u * Cardinality(E)
  <2>1. u * Cardinality(E) = b
    BY <1>4, <1>6
  <2>2. count * a = a * count
    BY <1>1, <1>3
  <2> QED BY <1>1, <1>3, <2>1, <2>2
<1> QED BY <1>2, <1>3, <1>4, <1>7 DEF count

-----------------------------------------------------------------------------
\* The told users as a sum over a function

\* Drained, by the connection of the agent.
LEMMA DrainedNow == \A a : Drained(a) = IF sock[a] = NULL THEN task[a] ELSE Taken(task[a], chan[sock[a]])
BY DEF Drained, Taken

\* The same after a step.
LEMMA DrainedNext ==
    \A a : Drained(a)' = IF sock'[a] = NULL THEN task'[a] ELSE Taken(task'[a], chan'[sock'[a]])
BY DEF Drained, Taken

\* An agent will have a task or none.
LEMMA DrainedType ==
    ASSUME Types, NEW a \in Agents
    PROVE  Drained(a) \in Held /\ (Drained(a) # NULL => Drained(a) \in Tasks /\ Drained(a).told \in Int)
<1>1. task[a] \in Held /\ (sock[a] # NULL => chan[sock[a]] \in Queues)
  BY DEF Types, TypeOK, Held, Queues
<1>2. Drained(a) \in Held
  BY <1>1, DrainedNow, TakenType
<1> QED BY <1>2 DEF Held, Tasks

\* The agents that run the task are finitely many.
LEMMA RunnersFinite == IsFiniteSet(Runners)
<1>1. Runners \in SUBSET Agents
  BY DEF Runners
<1> QED BY <1>1, SetAssumption, FS_Subset

ToldOf  == [a \in Runners |-> Drained(a).told]
ToldSum == Told = SumOver(ToldOf, Runners) /\ Told \in Int

\* What the agents are told is a sum over a function, as the lemmas on sums want it.
LEMMA ToldIs == Types => ToldSum
<1> SUFFICES ASSUME Types PROVE ToldSum
  OBVIOUS
<1> DEFINE S == Runners
           g == [a \in S |-> Drained(a).told]
           Def(h) == [s \in SUBSET S |-> IF s = {} THEN 0 ELSE Drained(First(s)).told + h[s \ {First(s)}]]
           c == CHOOSE h : h = Def(h)
<1>1. IsFiniteSet(S) /\ g \in [S -> Int] /\ \A a \in S : g[a] = Drained(a).told
  BY RunnersFinite, DrainedType DEF Runners
<1>2. Told = c[S]
  BY DEF Told, MapThenSumSet, MapThenFoldSet, First
<1> HIDE DEF S, g
<1>3. PICK f \in [SUBSET S -> Int] : AddsUp(f, g, S) /\ SumOver(g, S) = f[S]
  BY <1>1, SumFold
<1>4. f = Def(f)
  <2>1. \A s \in SUBSET S : s # {} => f[s] = Drained(First(s)).told + f[s \ {First(s)}]
    BY <1>1, <1>3, FirstIn DEF AddsUp
  <2> QED BY <1>3, <2>1 DEF AddsUp
<1>5. c = Def(c)
  <2> HIDE DEF Def
  <2> QED BY <1>4, Zenon
<1>6. AddsUp(c, g, S)
  <2> HIDE DEF c
  <2>1. \A s \in SUBSET S : s # {} => g[First(s)] = Drained(First(s)).told
    BY <1>1, FirstIn
  <2> QED BY <1>5, <2>1 DEF AddsUp
<1> HIDE DEF c, Def
<1>7. c[S] = f[S]
  BY <1>1, <1>3, <1>6, SumUnique
<1> QED BY <1>2, <1>3, <1>7 DEF g, S, ToldSum, ToldOf

\* The same after a step.
LEMMA ToldNext == Types' => ToldSum'
BY ToldIs, PTL

\* Steps after which the same agents have the same task.
LEMMA ToldSame ==
    ASSUME Types, Types', Runners' = Runners, \A a \in Runners : Drained(a)' = Drained(a)
    PROVE  Told' = Told
<1>1. ToldOf' = ToldOf
  BY DEF ToldOf
<1>2. Told = SumOver(ToldOf, Runners) /\ Told' = SumOver(ToldOf', Runners')
  BY ToldIs, ToldNext DEF ToldSum
<1> QED BY <1>1, <1>2

\* Nobody is told of no users.
LEMMA ToldNobody == ASSUME Types, Runners = {} PROVE Told = 0
<1>1. ToldOf = [a \in {} |-> 0]
  BY DEF ToldOf
<1>2. Told = SumOver([a \in {} |-> 0], {})
  BY <1>1, ToldIs DEF ToldSum
<1> QED BY <1>2, SumZero, FS_EmptySet

\* As each connection of the map has one agent, connections and agents are counted alike.
LEMMA SharerCount ==
    ASSUME Types, Links, \A s \in InMap : Owner(s) # {}, NEW E \in SUBSET InMap
    PROVE  Cardinality({a \in Sharers : sock[a] \in E}) = Cardinality(E)
<1> DEFINE D == {a \in Sharers : sock[a] \in E}
           f == [a \in D |-> sock[a]]
<1>1. D \in SUBSET Agents /\ IsFiniteSet(D)
  <2>1. D \in SUBSET Agents
    BY DEF Sharers
  <2> HIDE DEF D
  <2> QED BY <2>1, SetAssumption, FS_Subset
<1>2. NULL \notin InMap
  BY NullAssumption DEF InMap
<1>3. f \in Bijection(D, E)
  <2>1. f \in [D -> E]
    OBVIOUS
  <2>2. \A a, b \in D : f[a] = f[b] => a = b
    BY <1>2 DEF Links, Sharers
  <2>3. \A s \in E : \E a \in D : f[a] = s
    BY DEF Owner, Sharers
  <2> HIDE DEF D, f
  <2> QED BY <2>1, <2>2, <2>3 DEF Bijection, Injection, Surjection, IsInjective
<1> HIDE DEF D, f
<1>4. ExistsBijection(D, E)
  BY <1>3 DEF ExistsBijection
<1> QED BY <1>1, <1>4, FS_Bijection DEF D

\* Every sharer is told its share.
LEMMA ToldShares ==
    ASSUME Types, Types', Links, \A s \in InMap : Owner(s) # {}, InMap # {},
           NEW n \in Int, NEW share \in Shares(n, Cardinality(InMap), InMap),
           Runners' = Sharers,
           \/ Runners = {} /\ \A a \in Sharers : Drained(a)'.told = share[sock[a]]
           \/ Runners = Sharers /\ \A a \in Sharers : Drained(a)'.told = Drained(a).told + share[sock[a]]
    PROVE  Told' = Told + n
<1>1. IsFiniteSet(InMap) /\ Cardinality(InMap) \in Nat /\ Cardinality(InMap) > 0
  <2>1. InMap \in SUBSET Socks
    BY DEF InMap
  <2>2. IsFiniteSet(InMap)
    BY <2>1, SetAssumption, FS_Subset
  <2> QED BY <2>2, FS_CardinalityType, FS_EmptySet
<1>2. PICK c \in Int, u \in Int, E \in SUBSET InMap :
        /\ share = [s \in InMap |-> IF s \in E THEN c + u ELSE c]
        /\ n = c * Cardinality(InMap) + u * Cardinality(E)
  BY <1>1, SharesSum
<1> DEFINE D == {a \in Sharers : sock[a] \in E}
           g == IF Runners = {} THEN [a \in Sharers |-> 0] ELSE ToldOf
           h == ToldOf'
<1>3. \A a \in Sharers : sock[a] \in InMap /\ a \in Agents /\ (a \in D <=> sock[a] \in E)
  BY DEF Sharers
<1>4. IsFiniteSet(Sharers)
  <2>1. Sharers \in SUBSET Agents
    BY DEF Sharers
  <2> QED BY <2>1, SetAssumption, FS_Subset
<1>5. h \in [Sharers -> Int]
  <2>1. \A a \in Sharers : share[sock[a]] \in Int
    BY <1>2, <1>3
  <2>2. Runners = Sharers => \A a \in Sharers : Drained(a).told \in Int
    BY <1>3, DrainedType DEF Runners
  <2>3. \A a \in Sharers : Drained(a)'.told \in Int
    BY <2>1, <2>2
  <2> QED BY <2>3 DEF ToldOf
<1>6. g \in [Sharers -> Int] /\ Told = SumOver(g, Sharers)
  <2>1. CASE Runners = {}
    <3>1. g = [a \in Sharers |-> 0]
      BY <2>1
    <3>2. Told = 0
      BY <2>1, ToldNobody
    <3> QED BY <1>4, <3>1, <3>2, SumZero
  <2>2. CASE Runners # {}
    <3>1. g = ToldOf /\ Runners = Sharers
      BY <2>2
    <3>2. \A a \in Sharers : Drained(a).told \in Int
      BY <1>3, <3>1, DrainedType DEF Runners
    <3> QED BY <3>1, <3>2, ToldIs DEF ToldOf, ToldSum
  <2> QED BY <2>1, <2>2
<1>7. Gives(g, h, Sharers, D, c, u)
  <2> SUFFICES \A a \in Sharers : h[a] = g[a] + (IF a \in D THEN c + u ELSE c)
    BY DEF Gives
  <2> TAKE a \in Sharers
  <2>1. share[sock[a]] = IF a \in D THEN c + u ELSE c
    BY <1>2, <1>3
  <2>2. h[a] = Drained(a)'.told
    BY DEF ToldOf
  <2>3. CASE Runners = {}
    <3>1. g[a] = 0 /\ Drained(a)'.told = share[sock[a]]
      BY <2>3
    <3>2. share[sock[a]] \in Int
      BY <1>2, <1>3
    <3> HIDE DEF g, h, D
    <3> QED BY <2>1, <2>2, <3>1, <3>2
  <2>4. CASE Runners # {}
    <3>1. g[a] = Drained(a).told /\ Drained(a)'.told = Drained(a).told + share[sock[a]]
      BY <2>4 DEF ToldOf
    <3> HIDE DEF g, h, D
    <3> QED BY <2>1, <2>2, <3>1
  <2> QED BY <2>3, <2>4
<1>8. Cardinality(D) = Cardinality(E) /\ Sharers \cap D = D
  BY SharerCount
<1>9. Cardinality(Sharers) = Cardinality(InMap)
  <2>1. Sharers = {a \in Sharers : sock[a] \in InMap} /\ InMap \in SUBSET InMap
    BY DEF Sharers
  <2> QED BY <2>1, SharerCount
<1> HIDE DEF D, g, h
<1>10. /\ SumOver(g, Sharers) \in Int
       /\ SumOver(h, Sharers) = SumOver(g, Sharers) + (c * Cardinality(Sharers) + u * Cardinality(Sharers \cap D))
  <2>1. c \in Int /\ u \in Int
    OBVIOUS
  <2>2. g \in [Sharers -> Int]
    BY <1>6
  <2> QED BY <1>4, <1>5, <2>2, <1>7, <2>1, SumShares
<1>11. Told' = SumOver(h, Sharers)
  BY ToldNext DEF ToldSum, h
<1> QED BY <1>2, <1>6, <1>8, <1>9, <1>10, <1>11

-----------------------------------------------------------------------------
\* The steps

\* In the initial state nothing is booked.
LEMMA EvenInit == Init => Even
BY DEF Init, Even

\* Steps that change the task of no agent, whatever is under way.
LEMMA EvenSame ==
    ASSUME Booking, Types', InMap' = InMap, steady' => steady, pc # "none" => pc' # "none",
           \A a \in Sharers : Drained(a)' = Drained(a), Sharers' = Sharers,
           \A s \in InMap : ready[s] = "READY" /\ Owner(s) # {} => ready'[s] = "READY" /\ Owner(s)' # {},
           UNCHANGED <<pc, userCount, once_user, client_count>>, stage' = "INIT" => stage = "INIT"
    PROVE  Even'
<1>1. Types
  BY DEF Booking, Following
<1>2. Runners' = Runners /\ \A a \in Runners : Drained(a)' = Drained(a)
  BY DEF Runners, Sharers
<1>3. Told' = Told
  BY <1>1, <1>2, ToldSame
<1>4. pc \in {"none", "run"} => once_user' = 0
  BY DEF Booking, Even
<1>5. SUFFICES ASSUME steady'
               PROVE  /\ pc # "none" /\ ~(pc = "run" /\ stage' = "INIT")
                      /\ \A s \in InMap : ready'[s] = "READY" /\ Owner(s)' # {}
                      /\ \A a \in Sharers : (Drained(a)' = NULL <=> pc = "init")
                      /\ pc \in {"init", "add"} => client_count = Cardinality(InMap)
                      /\ Whole((Told' + once_user) - userCount)
  BY <1>4 DEF Even, Sharers, Whole
<1>6. steady
  BY <1>5
<1> QED BY <1>3, <1>6 DEF Booking, Even, Sharers

\* Once the agents have changed only once_user is left to say.
LEMMA EvenOff == ASSUME ~steady', Even, pc' \in {"none", "run"} => once_user' = 0 PROVE Even'
BY DEF Even

\* task_push_init finds every agent ready and without the task.
LEMMA BeginStep == ASSUME Booking, Types', task_push_init PROVE Even'
<1>1. /\ pc = "run" /\ stage = "INIT" /\ steady' = AllReady /\ once_user = 0 /\ userCount = 0
      /\ UNCHANGED <<ready, sock, chan, task>> /\ Types /\ Links
  BY DEF task_push_init, Booking, Following, Even, Types, Counts
<1>2. pc' \in {"none", "run"} => once_user' = 0
  BY <1>1 DEF task_push_init
<1>3. CASE ~AllReady
  BY <1>1, <1>2, <1>3, EvenOff DEF Booking
<1>4. CASE AllReady
  <2>1. InMap' = InMap /\ \A a \in Agents : Drained(a)' = Drained(a)
    <3>1. InMap' = InMap
      BY <1>1 DEF InMap
    <3> QED BY <1>1, <3>1, DrainedNow, DrainedNext
  <2>2. \A s \in InMap : ready[s] = "READY" /\ Owner(s) # {}
    BY <1>4 DEF AllReady
  <2>3. \A a \in Agents : sock[a] \in InMap => Drained(a) = NULL
    <3> SUFFICES ASSUME NEW a \in Agents, sock[a] \in InMap PROVE Drained(a) = NULL
      OBVIOUS
    <3>1. PICK b \in Owner(sock[a]) : Drained(b) = NULL
      BY <1>4 DEF AllReady
    <3>2. b = a
      BY <1>1, <3>1, NullAssumption DEF Owner, Links, InMap
    <3> QED BY <3>1, <3>2
  <2>4. Runners = {} /\ Runners' = {}
    BY <1>1, <2>1, <2>3 DEF Runners
  <2>5. Told' = 0
    <3>1. Told = 0 /\ Told' = Told
      BY <1>1, <2>4, ToldNobody, ToldSame
    <3> QED BY <3>1
  <2>6. {s \in Socks : ready[s] = "READY"} = InMap
    BY <2>2 DEF InMap, Entries
  <2>7. IsFiniteSet(InMap)
    <3>1. InMap \in SUBSET Socks
      BY DEF InMap
    <3> QED BY <3>1, SetAssumption, FS_Subset
  <2>8. \A s \in InMap : ready'[s] = "READY" /\ Owner(s)' # {}
    BY <1>1, <2>2 DEF Owner
  <2>9. CASE task_client_count = 0
    <3>1. InMap = {}
      BY <2>6, <2>7, <2>9, FS_EmptySet DEF task_client_count
    <3>2. stage' = "CLEAN" /\ pc' = "run" /\ userCount' = 0 /\ once_user' = 0
      BY <1>1, <2>9 DEF task_push_init
    <3>3. Whole((Told' + once_user') - userCount')
      BY <2>5, <3>2, Numbers DEF Whole
    <3> QED BY <2>1, <3>1, <3>2, <3>3 DEF Even
  <2>10. CASE task_client_count # 0
    <3>1. /\ userCount' = Wrap(OnceCount) /\ once_user' = OnceCount /\ pc' = "init" /\ OnceCount \in Int
          /\ client_count' = Cardinality(InMap)
      <4>1. OnceCount \in Int /\ 0 + OnceCount = OnceCount
        BY <1>1, OnceType
      <4> QED BY <1>1, <2>6, <2>10, <4>1 DEF task_push_init, task_client_count
    <3>2. Whole((Told' + once_user') - userCount')
      <4>1. Whole(OnceCount - Wrap(OnceCount))
        BY <3>1, WrapWhole
      <4>2. (0 + OnceCount) - Wrap(OnceCount) = OnceCount - Wrap(OnceCount)
        BY <3>1
      <4> QED BY <2>5, <3>1, <4>1, <4>2
    <3>3. \A a \in Agents : sock'[a] \in InMap' => Drained(a)' = NULL
      BY <1>1, <2>1, <2>3
    <3> QED BY <2>1, <2>8, <3>1, <3>2, <3>3 DEF Even
  <2> QED BY <2>9, <2>10
<1> QED BY <1>3, <1>4

\* A round of users is booked before it is sent.
LEMMA RoundStep == ASSUME Booking, Types', task_push_add_once_user PROVE Even'
<1>1. /\ pc = "run" /\ stage = "LOOP" /\ InMap # {} /\ userCount' = Wrap(userCount + OnceCount) /\ once_user = 0
      /\ UNCHANGED <<stage, ready, sock, chan, task, steady>> /\ Types
  BY DEF task_push_add_once_user, Booking, Following, Even
<1>2. pc' \in {"none", "run"} => once_user' = 0
  BY <1>1 DEF task_push_add_once_user
<1>3. CASE ~steady
  BY <1>1, <1>2, <1>3, EvenOff DEF Booking
<1>4. CASE steady
  <2>1. InMap' = InMap /\ \A a \in Agents : Drained(a)' = Drained(a)
    <3>1. InMap' = InMap
      BY <1>1 DEF InMap
    <3> QED BY <1>1, <3>1, DrainedNow, DrainedNext
  <2>2. /\ \A s \in InMap : ready[s] = "READY" /\ Owner(s) # {}
        /\ \A a \in Agents : sock[a] \in InMap => Drained(a) # NULL
        /\ Whole((Told + 0) - userCount)
    BY <1>1, <1>4 DEF Booking, Even
  <2>3. Runners' = Runners
    BY <1>1, <2>1 DEF Runners
  <2>4. Told' = Told /\ Told \in Int
    <3>1. \A a \in Runners : Drained(a)' = Drained(a)
      BY <2>1 DEF Runners
    <3> QED BY <1>1, <2>3, <3>1, ToldSame, ToldIs DEF ToldSum
  <2>5. {s \in Socks : ready[s] = "READY"} = InMap
    BY <2>2 DEF InMap, Entries
  <2>6. task_client_count = Cardinality(InMap) /\ task_client_count # 0
    <3>1. InMap \in SUBSET Socks
      BY DEF InMap
    <3>2. IsFiniteSet(InMap)
      BY <3>1, SetAssumption, FS_Subset
    <3> QED BY <1>1, <2>5, <3>2, FS_EmptySet DEF task_client_count
  <2>7. pc' = "add" /\ once_user' = OnceCount /\ client_count' = Cardinality(InMap)
    BY <2>6 DEF task_push_add_once_user
  <2>8. Whole((Told' + once_user') - userCount')
    <3> DEFINE x == userCount
               o == OnceCount
    <3>1. x \in Int /\ o \in Int
      BY <1>1, OnceType, Numbers DEF Types, TypeOK
    <3> HIDE DEF x, o
    <3>2. Wrap(x + o) \in Int /\ Whole((x + o) - Wrap(x + o))
      <4>1. x + o \in Int
        BY <3>1
      <4> QED BY <4>1, WrapType, WrapWhole, Numbers
    <3>3. Whole(Told - x)
      <4>1. (Told + 0) - x = Told - x
        BY <2>4, <3>1
      <4> QED BY <2>2, <4>1 DEF x
    <3>4. (Told + o) - Wrap(x + o) = (Told - x) + ((x + o) - Wrap(x + o))
      BY <2>4, <3>1, <3>2
    <3>5. Whole((Told - x) + ((x + o) - Wrap(x + o)))
      <4>1. Told - x \in Int /\ (x + o) - Wrap(x + o) \in Int
        BY <2>4, <3>1, <3>2
      <4> QED BY <3>2, <3>3, <4>1, WholeAdd
    <3> QED BY <1>1, <2>4, <2>7, <3>4, <3>5 DEF x, o
  <2>9. /\ \A s \in InMap' : ready'[s] = "READY" /\ Owner(s)' # {}
        /\ \A a \in Agents : sock'[a] \in InMap' => Drained(a)' # NULL
    BY <1>1, <2>1, <2>2 DEF Owner
  <2> QED BY <1>1, <2>1, <2>7, <2>8, <2>9 DEF Even
<1> QED BY <1>3, <1>4

\* What an agent is sent adds its share to what it is told.
LEMMA SharerTold ==
    ASSUME Booking, NEW c \in {"create", "change"}, pc \in {"init", "add"}, pc = "init" <=> c = "create",
           steady, NEW share \in Shares(once_user, client_count, Willing),
           Send(Willing, [s \in Willing |-> [cmd |-> c, n |-> share[s]]]),
           UNCHANGED <<sock, task>>, NEW a \in Sharers
    PROVE  /\ Drained(a)' \in Tasks
           /\ Drained(a)'.told = IF pc = "init" THEN share[sock[a]] ELSE Drained(a).told + share[sock[a]]
<1> DEFINE s == sock[a]
           q == chan[s]
           msg == [r \in Willing |-> [cmd |-> c, n |-> share[r]]]
           m == msg[s]
<1>1. /\ Types /\ a \in Agents /\ s \in InMap /\ s \in Socks /\ s # NULL /\ Owner(s) # {} /\ s \in Willing
      /\ (Drained(a) = NULL <=> pc = "init")
  BY NullAssumption DEF Booking, Following, Even, Sharers, Willing, InMap
<1>2. once_user \in Int /\ client_count \in Nat \ {0} /\ (pc = "init" => once_user >= 0)
  BY <1>1, SetAssumption, FS_CardinalityType DEF Types, TypeOK, Counts
<1>3. share \in [Willing -> Int] /\ (pc = "init" => share \in [Willing -> Nat])
  BY <1>2, SharesType
<1>4. m \in Commands /\ m.cmd = c /\ m.n = share[s]
  BY <1>1, <1>3 DEF Commands
<1>5. q \in Queues /\ task[a] \in Held /\ Drained(a) \in Held
  BY <1>1, DrainedType DEF Types, TypeOK, Queues, Held
<1>6. chan'[s] = Append(q, m)
  BY <1>1 DEF Send
<1> HIDE DEF m, msg, q, s
<1>7. Drained(a)' = Taken(task[a], Append(q, m)) /\ Drained(a) = Taken(task[a], q)
  BY <1>1, <1>6, DrainedNow, DrainedNext DEF q, s
<1>8. Drained(a)' = Handle(Drained(a), m)
  BY <1>4, <1>5, <1>7, TakenAppend
<1>9. Drained(a) \in Tasks \cup {NULL}
  BY <1>5 DEF Held
<1> QED BY <1>1, <1>4, <1>8, <1>9, HandleEffect DEF s

\* A round reaches every agent it was divided by.
LEMMA SentStep ==
    ASSUME Booking, Types', NEW c \in {"create", "change"}, pc \in {"init", "add"}, pc = "init" <=> c = "create",
           NEW share \in Shares(once_user, client_count, Willing),
           Send(Willing, [s \in Willing |-> [cmd |-> c, n |-> share[s]]]),
           pc' = "run", stage' # "INIT", once_user' = 0,
           UNCHANGED <<userCount, ready, sock, task, steady>>
    PROVE  Even'
<1>1. CASE ~steady
  BY <1>1, EvenOff DEF Booking
<1>2. CASE steady
  <2>1. /\ Types /\ Links
        /\ \A s \in InMap : ready[s] = "READY" /\ Owner(s) # {}
        /\ \A a \in Agents : sock[a] \in InMap => (Drained(a) = NULL <=> pc = "init")
        /\ client_count = Cardinality(InMap)
        /\ Whole((Told + once_user) - userCount)
    BY <1>2 DEF Booking, Following, Even
  <2>2. Willing = InMap /\ InMap' = InMap /\ Sharers' = Sharers
    BY <2>1 DEF Willing, InMap, Sharers
  <2>3. InMap # {}
    BY <2>1, FS_EmptySet DEF Types, Counts
  <2>4. \A a \in Sharers : /\ Drained(a)' \in Tasks /\ Drained(a)' # NULL
                          /\ Drained(a)'.told = IF pc = "init" THEN share[sock[a]] ELSE Drained(a).told + share[sock[a]]
    BY <1>2, SharerTold, NullAssumption
  <2>5. Runners = (IF pc = "init" THEN {} ELSE Sharers)
    BY <2>1 DEF Runners, Sharers
  <2>6. Runners' = Sharers
    BY <2>2, <2>4 DEF Runners, Sharers
  <2>7. \/ Runners = {} /\ \A a \in Sharers : Drained(a)'.told = share[sock[a]]
        \/ Runners = Sharers /\ \A a \in Sharers : Drained(a)'.told = Drained(a).told + share[sock[a]]
    BY <2>4, <2>5
  <2>8. share \in Shares(once_user, Cardinality(InMap), InMap) /\ once_user \in Int
    BY <2>1, <2>2 DEF Types, TypeOK
  <2>9. Told' = Told + once_user
    BY <2>1, <2>3, <2>6, <2>7, <2>8, ToldShares
  <2>10. Whole((Told' + once_user') - userCount')
    <3>1. (Told' + 0) - userCount = (Told + once_user) - userCount
      <4>1. Told \in Int /\ userCount \in Int
        BY <2>1, ToldIs, Numbers DEF Types, TypeOK, ToldSum
      <4> QED BY <2>8, <2>9, <4>1
    <3> QED BY <2>1, <3>1
  <2>11. \A a \in Agents : sock'[a] \in InMap' => Drained(a)' # NULL
    BY <2>2, <2>4 DEF Sharers
  <2>12. \A s \in InMap' : ready'[s] = "READY" /\ Owner(s)' # {}
    BY <2>1, <2>2 DEF Owner
  <2> QED BY <2>10, <2>11, <2>12 DEF Even
<1> QED BY <1>1, <1>2

\* A command under way and the same command handled make the same task.
LEMMA RequestStep == ASSUME Booking, Types', NEW a \in Agents, CheckRequest(a) PROVE Even'
<1> DEFINE s == sock[a]
           q == chan[s]
<1>1. /\ s # NULL /\ q # <<>>
      /\ task' = [task EXCEPT ![a] = Handle(task[a], Head(q))]
      /\ chan' = [chan EXCEPT ![s] = Tail(q)] /\ UNCHANGED <<taskVars, ready, sock, steady>>
  BY DEF CheckRequest
<1>2. /\ Types /\ Links /\ chan \in [Socks -> Seq(Commands)] /\ s \in Socks /\ task \in [Agents -> Held]
  BY <1>1 DEF Booking, Following, Types, TypeOK, Held
<1>3. InMap' = InMap /\ Sharers' = Sharers /\ \A t \in Socks : Owner(t)' = Owner(t)
  BY <1>1 DEF InMap, Sharers, Owner
<1>4. Drained(a)' = Drained(a)
  <2>1. Taken(Handle(task[a], Head(q)), Tail(q)) = Taken(task[a], q)
    BY <1>1, <1>2, TakenHead DEF Queues
  <2>2. task'[a] = Handle(task[a], Head(q)) /\ chan'[s] = Tail(q) /\ sock'[a] = s
    BY <1>1, <1>2
  <2> QED BY <1>1, <2>1, <2>2, DrainedNow, DrainedNext
<1>5. ASSUME NEW b \in Agents, b # a PROVE Drained(b)' = Drained(b)
  <2>1. task'[b] = task[b] /\ sock'[b] = sock[b]
    BY <1>1, <1>2, <1>5
  <2>2. CASE sock[b] = NULL
    BY <2>1, <2>2, DrainedNow, DrainedNext
  <2>3. CASE sock[b] # NULL
    <3>1. sock[b] # s /\ sock[b] \in Socks
      BY <1>2, <1>5, <2>3 DEF Links, Types, TypeOK
    <3>2. chan'[sock[b]] = chan[sock[b]]
      BY <1>1, <1>2, <3>1
    <3> QED BY <2>1, <2>3, <3>2, DrainedNow, DrainedNext
  <2> QED BY <2>2, <2>3
<1>6. \A b \in Sharers : Drained(b)' = Drained(b)
  BY <1>4, <1>5 DEF Sharers
<1>7. \A t \in InMap : ready[t] = "READY" /\ Owner(t) # {} => ready'[t] = "READY" /\ Owner(t)' # {}
  BY <1>1, <1>3 DEF InMap
<1> QED BY <1>1, <1>3, <1>6, <1>7, EvenSame DEF taskVars

\* Who connects is not in the map yet.
LEMMA NewcomerStep ==
    ASSUME Booking, Types', NEW a \in Agents, NEW s \in Socks, ConnectionMade(a, s) PROVE Even'
<1>1. /\ sock[a] = NULL /\ ready[s] = "none" /\ Owner(s) = {} /\ s # NULL
      /\ sock' = [sock EXCEPT ![a] = s] /\ ready' = [ready EXCEPT ![s] = "reported"]
      /\ UNCHANGED <<taskVars, chan, task, steady>>
  BY NullAssumption DEF ConnectionMade, FreeSocks
<1>2. /\ sock \in [Agents -> Socks \cup {NULL}] /\ ready \in [Socks -> Entries \cup {"none", "reported"}]
      /\ NULL \notin Socks
  BY NullAssumption DEF Booking, Following, Types, TypeOK
<1>3. InMap' = InMap /\ s \notin InMap /\ NULL \notin InMap
  BY <1>1, <1>2 DEF InMap, Entries
<1>4. sock'[a] = s /\ \A b \in Agents : b # a => sock'[b] = sock[b]
  BY <1>1, <1>2
<1>5. Sharers' = Sharers /\ a \notin Sharers
  BY <1>1, <1>3, <1>4 DEF Sharers
<1>6. \A b \in Sharers : Drained(b)' = Drained(b)
  BY <1>1, <1>4, <1>5, DrainedNow, DrainedNext DEF Sharers
<1>7. ASSUME NEW t \in InMap, ready[t] = "READY", Owner(t) # {} PROVE ready'[t] = "READY" /\ Owner(t)' # {}
  <2>1. ready'[t] = "READY"
    BY <1>1, <1>2, <1>3, <1>7 DEF InMap
  <2>2. PICK b \in Agents : sock[b] = t
    BY <1>7 DEF Owner
  <2>3. b # a /\ sock'[b] = t
    BY <1>1, <1>3, <1>4, <2>2
  <2> QED BY <2>1, <2>3 DEF Owner
<1> QED BY <1>1, <1>3, <1>5, <1>6, <1>7, EvenSame DEF taskVars

\* Steps of the others that leave the agents and their tasks alone.
LEMMA IdleStep ==
    ASSUME Booking, Types', UNCHANGED <<pc, userCount, once_user, client_count, sock, chan, task>>,
           steady' => steady, InMap' = InMap, \A s \in InMap : ready[s] = "READY" /\ steady' => ready'[s] = "READY",
           stage' = "INIT" => stage = "INIT"
    PROVE  Even'
<1>1. CASE ~steady'
  BY <1>1, EvenOff DEF Booking, Even
<1>2. CASE steady'
  <2>1. Sharers' = Sharers /\ \A a \in Sharers : Drained(a)' = Drained(a)
    BY DrainedNow, DrainedNext DEF Sharers
  <2>2. \A s \in InMap : Owner(s)' = Owner(s)
    BY DEF Owner
  <2> QED BY <1>2, <2>1, <2>2, EvenSame
<1> QED BY <1>1, <1>2

\* Every step keeps the invariant of BookedIsTold.
LEMMA BookingStep == Booking /\ [Next]_vars => Booking'
<1> SUFFICES ASSUME Booking, [Next]_vars PROVE Even'
  BY FollowStep DEF Booking
<1>0. Types' /\ Types /\ Even
  BY FollowStep DEF Booking, Following
<1>1. CASE UNCHANGED vars
  BY <1>0, <1>1, IdleStep DEF vars, taskVars, InMap
<1>2. CASE task_push_init
  BY <1>0, <1>2, BeginStep
<1>3. CASE task_push_init_send
  BY <1>0, <1>3, SentStep DEF task_push_init_send
<1>4. CASE task_push_add_once_user
  BY <1>0, <1>4, RoundStep
<1>5. CASE task_push_add_send
  <2>1. stage # "INIT"
    BY <1>0, <1>5 DEF Types, Counts, task_push_add_send
  <2> QED BY <1>0, <1>5, <2>1, SentStep DEF task_push_add_send
<1>6. CASE task_push_over
  BY <1>0, <1>6, EvenOff DEF task_push_over, Even
<1>7. CASE task_run
  BY <1>0, <1>7, EvenOff DEF task_run, Even
<1>8. CASE task_stop
  BY <1>0, <1>8, IdleStep DEF task_stop, InMap
<1>9. ASSUME NEW count \in ((-MaxTotal)..MaxTotal) \ {0}, task_user(count) PROVE Even'
  BY <1>0, <1>9, IdleStep DEF task_user, InMap
<1>10. CASE do_sync_files
  BY <1>0, <1>10, EvenOff DEF do_sync_files, taskVars, Even
<1>11. ASSUME NEW a \in Agents, NEW s \in Socks, ConnectionMade(a, s) PROVE Even'
  BY <1>0, <1>11, NewcomerStep
<1>12. ASSUME NEW a \in Agents, ConnectionClosed(a) PROVE Even'
  BY <1>0, <1>12, EvenOff DEF ConnectionClosed, taskVars, Even
<1>13. ASSUME NEW a \in Agents, CheckRequest(a) PROVE Even'
  BY <1>0, <1>13, RequestStep
<1>14. ASSUME NEW s \in Socks, server_cmd_1(s) PROVE Even'
  BY <1>0, <1>14, EvenOff DEF server_cmd_1, taskVars, Even
<1>15. ASSUME NEW s \in Socks, NEW r \in {"READY", "FAIL"}, server_cmd_11(s, r) PROVE Even'
  <2>1. /\ InMap' = InMap /\ (steady' => steady /\ ready[s] = r)
        /\ \A t \in InMap : ready[t] = "READY" /\ steady' => ready'[t] = "READY"
    BY <1>0, <1>15 DEF server_cmd_11, InMap, Entries, Types, TypeOK
  <2>2. UNCHANGED <<pc, stage, userCount, once_user, client_count, sock, chan, task>>
    BY <1>15 DEF server_cmd_11, taskVars
  <2> QED BY <1>0, <2>1, <2>2, IdleStep
<1>16. ASSUME NEW s \in Socks, StressConnectionClosed(s) PROVE Even'
  BY <1>0, <1>16, EvenOff DEF StressConnectionClosed, taskVars, Even
<1> QED BY <1>1, <1>2, <1>3, <1>4, <1>5, <1>6, <1>7, <1>8, <1>9, <1>10, <1>11, <1>12, <1>13, <1>14, <1>15, <1>16
        DEF Next, ThreadStep, Console, AgentStep, ServerStep

\* While the agents of task_push_init stay connected and ready, each is told its
\* share of every round (ServerConsole.cpp:62): what they are told is what userCount
\* books, up to the width of an int16_t, for any agents, totals and changes of them.
THEOREM BookedIsToldHolds == Spec => []BookedIsTold
<1>1. Init => Booking
  BY FollowInit, EvenInit DEF Booking
<1>2. Booking => BookedIsTold
  <2> SUFFICES ASSUME Booking, steady, pc = "run", stage # "INIT" PROVE (Told - userCount) % (2 * Half) = 0
    BY DEF BookedIsTold
  <2>1. Types /\ once_user = 0 /\ Whole((Told + once_user) - userCount)
    BY DEF Booking, Following, Even
  <2>2. Told \in Int /\ userCount \in Int
    BY <2>1, ToldIs, Numbers DEF Types, TypeOK, ToldSum
  <2>3. (Told + 0) - userCount = Told - userCount /\ Told - userCount \in Int
    BY <2>2
  <2> QED BY <2>1, <2>3, WholeMod
<1> QED BY <1>1, <1>2, BookingStep, PTL DEF Spec
=============================================================================
