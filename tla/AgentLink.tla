----------------------------- MODULE AgentLink -----------------------------
(***************************************************************************)
(* An agent and its server on Windows: the connection the agent keeps      *)
(* (ClientProtocol.cpp, SheepsFactory.cpp) and the synchronisation of the  *)
(* project's files that makes it READY (ClientProtocolSub.cpp,             *)
(* ServerStress.cpp).  The server sends the list of its files; the agent   *)
(* asks for those that differ, chunk by chunk and in order, and reports    *)
(* that it is done.                                                        *)
(*                                                                         *)
(* The agent's main thread connects, stores the handle and sends heartbeats *)
(* without a lock; reactor threads run its callbacks under the lock of its *)
(* protocol.  A thread of the server answers on a connection in two sends, *)
(* a head and a body; the thread of a task sends whole commands on the     *)
(* same connection and takes no lock of it.  A file is a sequence of       *)
(* chunks, a chunk is the version of the file it was read from.            *)
(***************************************************************************)
EXTENDS Integers, Sequences

CONSTANTS Sizes,        \* per file, the chunks in each of its successive versions
          MaxEvents     \* bound on what networks, disks, users and consoles do

ASSUME SizesAssumption ==
    Sizes \in Seq(Seq(Nat)) /\ \A f \in DOMAIN Sizes : Sizes[f] # <<>>
ASSUME MaxEventsAssumption == MaxEvents \in Nat

Files == DOMAIN Sizes           \* in the order of updatefile
Links == 1 .. MaxEvents + 1     \* connections: each end of one is an event
NULL  == 0

VARIABLES
    own,            \* whether the agent is in the process of the server
    \* the agent
    StressHsocket, TaskManagerRuning,
    ClientRun, ClientRuning,
    main,           \* where its main thread stands
    arg,            \* the handle it is about to store or to use
    state,          \* "ok", "spin" with the lock of the protocol, "crashed"
    updatefile,     \* [Files -> Nat \cup {-1}]: offset, -1 when not in the map
    handle,         \* [Files -> {"closed", "open", "leaked"}]
    local,          \* [Files -> Seq(version) \cup {Absent}]: its disk
    \* the connections
    link,           \* the agent's end, and whether the server has seen the end
    known,          \* [Links -> BOOLEAN]: the server has it
    request, answer, \* what is under way in each direction
    body,           \* the answer whose body the server is about to send
    ready,          \* its entry in StressClientMap, "none" without one
    sent,           \* the list of files sent on it
    \* the server
    content,        \* [Files -> version]: its disk
    upfilestr,      \* the list it has built, empty before the first
    \* histories
    late,           \* a handle was stored after the last callback of its connection
    missed,         \* a stop came while the main thread was making a connection
    refused,        \* a file could not be opened
    events

agentVars == <<own, StressHsocket, TaskManagerRuning, ClientRun, ClientRuning, main, arg>>
syncVars  == <<updatefile, handle, local>>
wireVars  == <<request, answer, body>>
servVars  == <<known, ready, sent, content, upfilestr>>
vars == <<agentVars, state, syncVars, link, wireVars, servVars, late, missed, refused, events>>

Absent == <<-1>>
Short  == -2            \* in a file of the agent: a chunk that was not written whole
Size(f, v) == Sizes[f][v]
Image(f, v) == [i \in 1 .. Size(f, v) |-> v]

Event == events < MaxEvents /\ events' = events + 1

\* What is on the wire.  A Head carries what its Body means.
Answer(cmd, f, v) == [part |-> "head", cmd |-> cmd, file |-> f, ver |-> v]
Body == [part |-> "body"]
Task == [part |-> "whole"]

Alive(k) == link[k] \in {"connecting", "aborted", "up", "closing"}

Init ==
    /\ StressHsocket = NULL /\ TaskManagerRuning = FALSE
    /\ ClientRun = TRUE /\ ClientRuning = TRUE
    /\ main = "idle" /\ arg = NULL /\ state = "ok"
    /\ updatefile = [f \in Files |-> -1]
    /\ handle = [f \in Files |-> "closed"]
    /\ own \in BOOLEAN
    /\ local = [f \in Files |-> IF own THEN Image(f, 1) ELSE Absent]
    /\ link = [k \in Links |-> "none"]
    /\ known = [k \in Links |-> FALSE]
    /\ request = [k \in Links |-> <<>>]
    /\ answer = [k \in Links |-> <<>>]
    /\ body = [k \in Links |-> FALSE]
    /\ ready = [k \in Links |-> "none"]
    /\ sent = [k \in Links |-> <<>>]
    /\ content = [f \in Files |-> 1]
    /\ upfilestr = <<>>
    /\ late = FALSE /\ missed = FALSE /\ refused = FALSE /\ events = 0

-----------------------------------------------------------------------------
\* The agent's main thread: FactoryLoop

ClientInit ==
    /\ state # "crashed" /\ main = "idle"
    /\ ClientRun /\ ~ClientRuning
    /\ ClientRuning' = TRUE
    /\ missed' = FALSE
    /\ UNCHANGED <<own, StressHsocket, TaskManagerRuning, ClientRun, main, arg, state,
                   syncVars, link, wireVars, servVars, late, refused, events>>

\* ClientLoop tests ClientRuning, without a lock, and enters Loop, ...
ClientLoop ==
    /\ state # "crashed" /\ main = "idle"
    /\ ClientRuning
    /\ main' = "loop"
    /\ UNCHANGED <<own, StressHsocket, TaskManagerRuning, ClientRun, ClientRuning, arg, state,
                   syncVars, link, wireVars, servVars, late, missed, refused, events>>

\* ... which looks the name of the server up when it has no handle, or sends a
\* heartbeat when 30 s are over.
Loop ==
    /\ state # "crashed" /\ main = "loop"
    /\ \/ /\ StressHsocket = NULL
          /\ main' = "connect" /\ UNCHANGED arg
       \/ /\ StressHsocket # NULL /\ TaskManagerRuning
          /\ main' = "send" /\ arg' = StressHsocket
       \/ /\ StressHsocket # NULL
          /\ main' = "idle" /\ UNCHANGED arg
    /\ UNCHANGED <<own, StressHsocket, TaskManagerRuning, ClientRun, ClientRuning, state,
                   syncVars, link, wireVars, servVars, late, missed, refused, events>>

\* The name is known: HsocketConnect, whoever has stopped the agent meanwhile.
Connect ==
    /\ state # "crashed" /\ main = "connect"
    /\ \E k \in Links :
          /\ link[k] = "none" /\ \A j \in 1 .. k - 1 : link[j] # "none"
          /\ link' = [link EXCEPT ![k] = "connecting"]
          /\ arg' = k
    /\ main' = "store"
    /\ missed' = (missed \/ ~ClientRuning)
    /\ UNCHANGED <<own, StressHsocket, TaskManagerRuning, ClientRun, ClientRuning, state,
                   syncVars, wireVars, servVars, late, refused, events>>

\* What HsocketConnect returned is stored; its callbacks may have run by now.
StoreHandle ==
    /\ state # "crashed" /\ main = "store"
    /\ StressHsocket' = arg
    /\ late' = (late \/ link[arg] = "down")
    /\ main' = "idle" /\ arg' = NULL
    /\ UNCHANGED <<own, TaskManagerRuning, ClientRun, ClientRuning, state, syncVars, link,
                   wireVars, servVars, missed, refused, events>>

\* A freed connection is used: the program goes on or ends.
Use(k) == IF link[k] = "down" THEN state' \in {state, "crashed"} ELSE UNCHANGED state

\* The heartbeat is sent; the server answers and does nothing else.
SendHeartbeat ==
    /\ state # "crashed" /\ main = "send"
    /\ Use(arg)
    /\ main' = "idle" /\ arg' = NULL
    /\ UNCHANGED <<own, StressHsocket, TaskManagerRuning, ClientRun, ClientRuning,
                   syncVars, link, wireVars, servVars, late, missed, refused, events>>

-----------------------------------------------------------------------------
\* A console stops the agent of its own process, or starts it again.  That agent
\* has the server's files, which are not edited here.

Closing(k) ==
    [link EXCEPT ![k] = CASE @ = "connecting" -> "aborted" [] @ = "up" -> "closing" [] OTHER -> @]

\* Destroy, in the console's thread: it closes the handle that is stored.
Destroy ==
    IF StressHsocket # NULL
    THEN Use(StressHsocket) /\ link' = Closing(StressHsocket)
    ELSE UNCHANGED <<state, link>>

\* Mutant: the handle is cleared when it is closed.
ClientRunOrStop_Forgets ==
    /\ own /\ state # "crashed"
    /\ Event
    /\ IF ClientRuning
       THEN /\ ClientRun' = FALSE /\ ClientRuning' = FALSE
            /\ Destroy
            /\ missed' = \E k \in Links : Alive(k) /\ k # StressHsocket
       ELSE /\ ClientRun' = TRUE
            /\ UNCHANGED <<ClientRuning, state, link, missed>>
    /\ StressHsocket' = IF ClientRuning THEN NULL ELSE StressHsocket
    /\ UNCHANGED <<own, TaskManagerRuning, main, arg, syncVars, wireVars,
                   servVars, late, refused>>

\* Mutant: Destroy is left to the loop.
ClientRunOrStop_Leaves ==
    /\ own /\ state # "crashed"
    /\ Event
    /\ IF ClientRuning
       THEN /\ ClientRun' = FALSE /\ ClientRuning' = FALSE
            /\ UNCHANGED <<state, link>>
            /\ missed' = \E k \in Links : Alive(k) /\ k # StressHsocket
       ELSE /\ ClientRun' = TRUE
            /\ UNCHANGED <<ClientRuning, state, link, missed>>
    /\ UNCHANGED <<own, StressHsocket, TaskManagerRuning, main, arg, syncVars, wireVars,
                   servVars, late, refused>>

ClientRunOrStop ==
    /\ own /\ state # "crashed"
    /\ Event
    /\ IF ClientRuning
       THEN /\ ClientRun' = FALSE /\ ClientRuning' = FALSE
            /\ Destroy
            /\ missed' = \E k \in Links : Alive(k) /\ k # StressHsocket
       ELSE /\ ClientRun' = TRUE
            /\ UNCHANGED <<ClientRuning, state, link, missed>>
    /\ UNCHANGED <<own, StressHsocket, TaskManagerRuning, main, arg, syncVars, wireVars,
                   servVars, late, refused>>

-----------------------------------------------------------------------------
\* The agent's callbacks, under the lock of its protocol

ConnectionMade(k) ==
    /\ state = "ok"
    /\ link[k] \in {"connecting", "aborted"}
    /\ link' = [link EXCEPT ![k] = IF @ = "aborted" THEN "closing" ELSE "up"]
    /\ StressHsocket' = k /\ TaskManagerRuning' = TRUE
    /\ known' = [known EXCEPT ![k] = TRUE]
    /\ request' = [request EXCEPT ![k] = <<[cmd |-> 1]>>]
    /\ UNCHANGED <<own, ClientRun, ClientRuning, main, arg, state, syncVars, answer, body,
                   ready, sent, content, upfilestr, late, missed, refused, events>>

\* Mutant: the handle is only forgotten when a connection was made.
ConnectionFailed_Keeps(k) ==
    /\ state = "ok"
    /\ \/ link[k] = "connecting" /\ Event
       \/ link[k] = "aborted" /\ UNCHANGED events
    /\ link' = [link EXCEPT ![k] = "down"]
    /\ UNCHANGED <<own, StressHsocket, TaskManagerRuning, ClientRun, ClientRuning, main, arg, state,
                   syncVars, wireVars, servVars, late, missed, refused>>

ConnectionFailed(k) ==
    /\ state = "ok"
    /\ \/ link[k] = "connecting" /\ Event
       \/ link[k] = "aborted" /\ UNCHANGED events
    /\ link' = [link EXCEPT ![k] = "down"]
    /\ StressHsocket' = NULL
    /\ UNCHANGED <<own, TaskManagerRuning, ClientRun, ClientRuning, main, arg, state,
                   syncVars, wireVars, servVars, late, missed, refused>>

ConnectionClosed(k) ==
    /\ state = "ok"
    /\ link[k] = "closing"
    /\ link' = [link EXCEPT ![k] = "down"]
    /\ answer' = [answer EXCEPT ![k] = <<>>]
    /\ StressHsocket' = NULL /\ TaskManagerRuning' = FALSE
    /\ UNCHANGED <<own, ClientRun, ClientRuning, main, arg, state, syncVars, request, body,
                   servVars, late, missed, refused, events>>

\* What an agent sends on a connection that is up.
Send(k, m) ==
    request' = IF link[k] = "up" THEN [request EXCEPT ![k] = Append(@, m)] ELSE request

\* sendUpfileMsg: the next chunk of the first file of the map, or the report.
sendUpfileMsg(k, map) ==
    \/ /\ \A f \in Files : map[f] = -1
       /\ \E ret \in {0, -1} : Send(k, [cmd |-> 11, ret |-> ret])
    \/ \E f \in Files :
          /\ map[f] # -1 /\ \A g \in Files : map[g] # -1 => f <= g
          /\ Send(k, [cmd |-> 10, file |-> f, off |-> map[f],
                      size |-> IF map[f] < Size(f, sent[k][f]) THEN 1 ELSE 0])

\* Mutant: a file that is there is not fetched.
client_cmd_9_sync_files_Exists(k) ==
    LET map == [f \in Files |-> IF local[f] # Absent THEN -1 ELSE 0]
    IN  /\ updatefile' = map
        /\ handle' = [f \in Files |-> IF handle[f] = "closed" THEN "closed" ELSE "leaked"]
        /\ sendUpfileMsg(k, map)
        /\ UNCHANGED <<local, refused, events>>

\* client_cmd_9_sync_files: the files whose md5 differs are to be fetched.  The
\* files of an unfinished synchronisation stay open, and have no md5 then: what
\* fopen_s has opened for writing is not shared.
client_cmd_9_sync_files(k) ==
    LET map == [f \in Files |-> IF handle[f] = "closed" /\ local[f] = Image(f, sent[k][f])
                               THEN -1 ELSE 0]
    IN  /\ updatefile' = map
        /\ handle' = [f \in Files |-> IF handle[f] = "closed" THEN "closed" ELSE "leaked"]
        /\ sendUpfileMsg(k, map)
        /\ UNCHANGED <<local, refused, events>>

\* A chunk is written, or what is left of it when the disk is full: nobody looks at
\* what fwrite returns.  After the last one the file is closed and leaves the map.
Write(f, v, map) ==
    /\ \E x \in {v, Short} :
          /\ local' = [local EXCEPT ![f] = Append(IF handle[f] = "open" THEN @ ELSE <<>>, x)]
          /\ IF x = Short THEN Event ELSE UNCHANGED events
    /\ updatefile' = map
    /\ handle' = [handle EXCEPT ![f] = IF map[f] = -1 THEN "closed" ELSE "open"]
    /\ UNCHANGED refused

Rest(k, f) ==
    [updatefile EXCEPT ![f] = IF @ + 1 = Size(f, sent[k][f]) THEN -1 ELSE @ + 1]

\* Mutant: the next file is not asked for.
client_cmd_10_download_file_Stops(k, f, v) ==
    /\ Write(f, v, Rest(k, f))
    /\ IF Rest(k, f)[f] = -1 THEN UNCHANGED request ELSE sendUpfileMsg(k, Rest(k, f))

\* client_cmd_10_download_file.  fopen_s for writing fails, like it may for any
\* reason, while the process has the file open: nothing is asked for any more.
client_cmd_10_download_file(k, f, v) ==
    IF updatefile[f] # -1 /\ handle[f] # "leaked"
    THEN \/ Write(f, v, Rest(k, f)) /\ sendUpfileMsg(k, Rest(k, f))
         \/ handle[f] = "closed" /\ Event /\ refused' = TRUE /\ UNCHANGED <<syncVars, request>>
    ELSE UNCHANGED <<syncVars, request, refused, events>>

\* CheckReq of ClientProtocol.  A command between a head and its body is taken for
\* the body: it is no JSON, and the loop never ends.
CheckReq(k) ==
    /\ state = "ok"
    /\ link[k] \in {"up", "closing"}
    /\ \/ /\ Len(answer[k]) >= 1 /\ answer[k][1] = Task
          /\ answer' = [answer EXCEPT ![k] = Tail(@)]
          /\ UNCHANGED <<state, syncVars, request, refused, events>>
       \/ /\ Len(answer[k]) >= 2 /\ answer[k][1].part = "head" /\ answer[k][2] = Body
          /\ answer' = [answer EXCEPT ![k] = SubSeq(@, 3, Len(@))]
          /\ LET m == answer[k][1] IN
             \/ m.cmd = 9 /\ client_cmd_9_sync_files(k)
             \/ m.cmd = 10 /\ client_cmd_10_download_file(k, m.file, m.ver)
          /\ UNCHANGED state
       \/ /\ Len(answer[k]) >= 2 /\ answer[k][1].part = "head" /\ answer[k][2] = Task
          /\ state' = "spin"
          /\ UNCHANGED <<answer, syncVars, request, refused, events>>
    /\ UNCHANGED <<agentVars, link, body, servVars, late, missed>>

-----------------------------------------------------------------------------
\* The server

\* sync_files: the list is built anew, or it is the one of the last 10 s.
sync_files(k) ==
    /\ \/ upfilestr' = content
       \/ upfilestr # <<>> /\ UNCHANGED upfilestr
    /\ sent' = [sent EXCEPT ![k] = upfilestr']

\* MsgSend, its first send.
MsgSend(k, m) ==
    /\ answer' = IF link[k] = "up" THEN [answer EXCEPT ![k] = Append(@, m)] ELSE answer
    /\ body' = [body EXCEPT ![k] = TRUE]

server_cmd_1_report_client_info(k) ==
    /\ ready' = [ready EXCEPT ![k] = "DEFAULT"]
    /\ sync_files(k)
    /\ MsgSend(k, Answer(9, 0, 0))
    /\ UNCHANGED <<refused, events>>

\* An empty chunk is not answered; what is read behind the end of the file is
\* whatever the buffer held.
server_cmd_10_download_file(k, m) ==
    /\ \/ /\ m.size > 0
          /\ MsgSend(k, Answer(10, m.file, IF m.off < Size(m.file, content[m.file])
                                          THEN content[m.file] ELSE 0))
          /\ UNCHANGED <<refused, events>>
       \/ /\ m.size = 0
          /\ UNCHANGED <<answer, body, refused, events>>
       \/ /\ Event /\ refused' = TRUE
          /\ UNCHANGED <<answer, body>>
    /\ UNCHANGED <<ready, sent, upfilestr>>

server_cmd_11_sync_files_over(k, m) ==
    /\ ready' = [ready EXCEPT ![k] = IF m.ret = 0 THEN "READY" ELSE "FAIL"]
    /\ UNCHANGED <<sent, upfilestr, answer, body, refused, events>>

\* CheckStressRequest, when the answer to the last request is sent.
CheckStressRequest(k) ==
    /\ known[k] /\ ~body[k] /\ request[k] # <<>>
    /\ request' = [request EXCEPT ![k] = Tail(@)]
    /\ LET m == Head(request[k]) IN
       \/ m.cmd = 1 /\ server_cmd_1_report_client_info(k)
       \/ m.cmd = 10 /\ server_cmd_10_download_file(k, m)
       \/ m.cmd = 11 /\ server_cmd_11_sync_files_over(k, m)
    /\ UNCHANGED <<agentVars, state, syncVars, link, known, content, late, missed>>

\* MsgSend, its second send.
MsgSendBody(k) ==
    /\ body[k]
    /\ body' = [body EXCEPT ![k] = FALSE]
    /\ answer' = IF link[k] = "up" THEN [answer EXCEPT ![k] = Append(@, Body)] ELSE answer
    /\ UNCHANGED <<agentVars, state, syncVars, link, request, servVars, late, missed, refused, events>>

StressConnectionClosed(k) ==
    /\ known[k] /\ ~body[k]
    /\ link[k] \in {"closing", "down"}
    /\ known' = [known EXCEPT ![k] = FALSE]
    /\ ready' = [ready EXCEPT ![k] = "none"]
    /\ request' = [request EXCEPT ![k] = <<>>]
    /\ UNCHANGED <<agentVars, state, syncVars, link, answer, body, sent, content,
                   upfilestr, late, missed, refused, events>>

\* The thread of a task sends a command to an agent that is not FAIL.
TaskCommand(k) ==
    /\ known[k] /\ ready[k] \in {"DEFAULT", "READY"}
    /\ Event
    /\ answer' = IF link[k] = "up" THEN [answer EXCEPT ![k] = Append(@, Task)] ELSE answer
    /\ UNCHANGED <<agentVars, state, syncVars, link, request, body, servVars, late, missed, refused>>

-----------------------------------------------------------------------------
\* The environment

ConnectionLost(k) ==
    /\ link[k] = "up"
    /\ Event
    /\ link' = [link EXCEPT ![k] = "closing"]
    /\ UNCHANGED <<agentVars, state, syncVars, wireVars, servVars, late, missed, refused>>

FileChanges(f) ==
    /\ ~own /\ content[f] < Len(Sizes[f])
    /\ Event
    /\ content' = [content EXCEPT ![f] = @ + 1]
    /\ UNCHANGED <<agentVars, state, syncVars, link, wireVars, known, ready, sent,
                   upfilestr, late, missed, refused>>

\* Of an open file any part may have reached the disk.
OnDisk(f) ==
    IF handle[f] = "closed" THEN {local[f]}
    ELSE {SubSeq(local[f], 1, n) : n \in 0 .. Len(local[f])}

\* The agent's process ends and begins anew.
Restart ==
    /\ ~own
    /\ Event
    /\ StressHsocket' = NULL /\ TaskManagerRuning' = FALSE
    /\ ClientRun' = TRUE /\ ClientRuning' = TRUE
    /\ main' = "idle" /\ arg' = NULL /\ state' = "ok"
    /\ updatefile' = [f \in Files |-> -1]
    /\ handle' = [f \in Files |-> "closed"]
    /\ local' \in {d \in [Files -> UNION {OnDisk(f) : f \in Files}] : \A f \in Files : d[f] \in OnDisk(f)}
    /\ link' = [k \in Links |-> IF Alive(k) THEN "down" ELSE link[k]]
    /\ answer' = [k \in Links |-> <<>>]
    /\ late' = FALSE /\ missed' = FALSE /\ refused' = FALSE
    /\ UNCHANGED <<own, request, body, servVars>>

-----------------------------------------------------------------------------
Next ==
    \/ ClientInit \/ ClientLoop \/ Loop \/ Connect \/ StoreHandle \/ SendHeartbeat
    \/ ClientRunOrStop \/ Restart
    \/ \E k \in Links :
          \/ ConnectionMade(k) \/ ConnectionFailed(k) \/ ConnectionClosed(k) \/ CheckReq(k)
          \/ CheckStressRequest(k) \/ MsgSendBody(k) \/ StressConnectionClosed(k)
          \/ TaskCommand(k) \/ ConnectionLost(k)
    \/ \E f \in Files : FileChanges(f)

Spec == Init /\ [][Next]_vars

\* The threads go on; a connect ends, and succeeds unless a failure is one of the
\* events; both ends learn that a connection is over.
Fairness ==
    /\ WF_vars(ClientInit)
    /\ WF_vars(ClientLoop \/ Loop \/ Connect \/ StoreHandle \/ SendHeartbeat)
    /\ \A k \in Links :
          /\ WF_vars(ConnectionMade(k) \/ ConnectionFailed(k))
          /\ WF_vars(ConnectionClosed(k)) /\ WF_vars(CheckReq(k))
          /\ WF_vars(CheckStressRequest(k)) /\ WF_vars(MsgSendBody(k))
          /\ WF_vars(StressConnectionClosed(k))

FairSpec == Spec /\ Fairness

-----------------------------------------------------------------------------
TypeOK ==
    /\ own \in BOOLEAN
    /\ StressHsocket \in Links \cup {NULL} /\ TaskManagerRuning \in BOOLEAN
    /\ ClientRun \in BOOLEAN /\ ClientRuning \in BOOLEAN
    /\ main \in {"idle", "loop", "connect", "store", "send"} /\ arg \in Links \cup {NULL}
    /\ state \in {"ok", "spin", "crashed"}
    /\ updatefile \in [Files -> Nat \cup {-1}]
    /\ handle \in [Files -> {"closed", "open", "leaked"}]
    /\ local \in [Files -> Seq(Int)]
    /\ link \in [Links -> {"none", "connecting", "aborted", "up", "closing", "down"}]
    /\ known \in [Links -> BOOLEAN] /\ body \in [Links -> BOOLEAN]
    /\ ready \in [Links -> {"none", "DEFAULT", "READY", "FAIL"}]
    /\ late \in BOOLEAN /\ missed \in BOOLEAN /\ refused \in BOOLEAN
    /\ events \in 0 .. MaxEvents

\* The file is that version, but for chunks that were not written whole.
Holds(file, f, v) == DOMAIN file = 1 .. Size(f, v) /\ \A i \in DOMAIN file : file[i] \in {v, Short}

\* An agent has one connection: the handle is forgotten only in the last callback
\* of its connection.
OneLink == \A j, k \in Links : Alive(j) /\ Alive(k) => j = k

\* An agent the server calls READY has each file as the server's list named it,
\* whatever interrupted earlier synchronisations, unless the server's file has
\* changed since the list was built or the agent's disk was full.
ReadyHasFiles ==
    \A k \in Links : link[k] = "up" /\ ready[k] = "READY" =>
        \A f \in Files : content[f] = sent[k][f] => Holds(local[f], f, content[f])

\* Where the code gives the synchronisation up without a word: a file that could
\* not be opened, an empty file, a file left open by an earlier connection.
Stalled(k) ==
    \/ refused
    \/ \E f \in Files :
          /\ updatefile[f] # -1
          /\ handle[f] = "leaked" \/ (sent[k] # <<>> /\ Size(f, sent[k][f]) = 0)

Synchronised(k) == link[k] # "up" \/ ready[k] \in {"READY", "FAIL"}

\* An agent that stays connected becomes READY or FAIL, unless it ends in one of
\* the cases above, or met a command between the head and the body of an answer.
SyncEnds ==
    \A k \in Links :
        [](known[k] => <>(Synchronised(k) \/ [](Stalled(k) \/ state # "ok")))

\* An agent that runs is connected again after each end of a connection, unless
\* its main thread stored a handle too late.
AgentReturns ==
    []<>(\/ \E k \in Links : link[k] = "up"
         \/ ~ClientRuning \/ late \/ state # "ok")

\* A console's stop ends the connection, unless it came while the main thread was
\* making one: between its tests and the connect, or before the handle was stored.
StopDisconnects ==
    ~ClientRun ~> ClientRun \/ missed \/ state # "ok" \/ \A k \in Links : ~Alive(k)
============================================================================
