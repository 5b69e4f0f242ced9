--------------------------- MODULE AgentLink_proofs ---------------------------
(***************************************************************************)
(* Proofs about AgentLink, for any files, chunks and number of events: the *)
(* agent has one connection at a time, although its main thread stores and *)
(* uses the handle without the lock its callbacks hold.                    *)
(***************************************************************************)
EXTENDS AgentLink, SequenceTheorems, TLAPS

\* What is on the wire, and the versions of the files.
Requests ==
    [cmd : {1}] \cup [cmd : {11}, ret : {0, -1}]
        \cup [cmd : {10}, file : Files, off : Nat, size : {0, 1}]
Answers ==
    {Body, Task} \cup [part : {"head"}, cmd : {9}, file : {0}, ver : {0}]
        \cup [part : {"head"}, cmd : {10}, file : Files, ver : Nat]
Wired ==
    /\ request \in [Links -> Seq(Requests)]
    /\ answer \in [Links -> Seq(Answers)]
    /\ content \in [Files -> Nat]
    /\ main = "store" => arg \in Links
Types == TypeOK /\ Wired

\* A connection that is not over is the one of the handle, or about to be.
Held ==
    /\ \A k \in Links : Alive(k) => StressHsocket = k \/ (main = "store" /\ arg = k)
    /\ main = "store" => \A k \in Links : Alive(k) => k = arg
    /\ main = "connect" => \A k \in Links : ~Alive(k)

-----------------------------------------------------------------------------
\* Connections and files are numbers, and no file is empty.
LEMMA Names ==
    /\ NULL \notin Links /\ Links \subseteq Nat
    /\ Files \subseteq Nat /\ 0 \notin Files
    /\ \A f \in Files : Sizes[f] \in Seq(Nat) /\ Sizes[f] # <<>>
BY SizesAssumption, MaxEventsAssumption DEF NULL, Links, Files

\* A file that is not there is a sequence of chunks too.
LEMMA AbsentType == Absent \in Seq(Int)
BY DEF Absent

\* A file as it was listed is a sequence of chunks.
LEMMA ImageType == ASSUME NEW f \in Files PROVE Image(f, 1) \in Seq(Int)
<1>1. Size(f, 1) \in Nat
  BY Names DEF Size
<1>2. Image(f, 1) \in [1 .. Size(f, 1) -> Int]
  BY DEF Image
<1> QED  BY <1>1, <1>2, SeqDef

\* The initial state satisfies the types.
LEMMA TypeInit == Init => Types
<1> SUFFICES ASSUME Init PROVE Types
  OBVIOUS
<1>1. local \in [Files -> Seq(Int)]
  BY AbsentType, ImageType DEF Init
<1>2. request \in [Links -> Seq(Requests)] /\ answer \in [Links -> Seq(Answers)]
  BY DEF Init
<1>3. 0 \in 0 .. MaxEvents
  BY MaxEventsAssumption
<1>4. TypeOK
  BY <1>1, <1>3 DEF Init, TypeOK
<1>5. Wired
  BY <1>2 DEF Init, Wired
<1> QED  BY <1>4, <1>5 DEF Types

\* The variables a step may change, one or two at a time.
LEMMA SendType ==
    ASSUME Types, NEW k \in Links, NEW m \in Requests, Send(k, m)
    PROVE  request' \in [Links -> Seq(Requests)]
<1>1. Append(request[k], m) \in Seq(Requests)
  BY DEF Types, Wired
<1> QED  BY <1>1 DEF Types, Wired, Send

\* What is asked for is a request.
LEMMA UpfileType ==
    ASSUME Types, NEW k \in Links, NEW map \in [Files -> Nat \cup {-1}], sendUpfileMsg(k, map)
    PROVE  request' \in [Links -> Seq(Requests)]
<1>1. ASSUME NEW ret \in {0, -1}, Send(k, [cmd |-> 11, ret |-> ret])
      PROVE  request' \in [Links -> Seq(Requests)]
  <2>1. [cmd |-> 11, ret |-> ret] \in Requests
    BY DEF Requests
  <2> QED  BY <1>1, <2>1, SendType
<1>2. ASSUME NEW f \in Files, map[f] # -1, NEW size \in {0, 1},
             Send(k, [cmd |-> 10, file |-> f, off |-> map[f], size |-> size])
      PROVE  request' \in [Links -> Seq(Requests)]
  <2>1. [cmd |-> 10, file |-> f, off |-> map[f], size |-> size] \in Requests
    BY <1>2 DEF Requests
  <2> QED  BY <1>2, <2>1, SendType
<1> QED  BY <1>1, <1>2 DEF sendUpfileMsg

\* Queues of answers stay queues of answers.
LEMMA AnswerType ==
    ASSUME Types, NEW k \in Links, NEW m \in Answers,
           answer' = IF link[k] = "up" THEN [answer EXCEPT ![k] = Append(@, m)] ELSE answer
    PROVE  answer' \in [Links -> Seq(Answers)]
<1>1. Append(answer[k], m) \in Seq(Answers)
  BY DEF Types, Wired
<1> QED  BY <1>1 DEF Types, Wired

\* Files on the agent's disk.
LEMMA WriteType ==
    ASSUME Types, NEW f \in Files, NEW v \in Nat, NEW map \in [Files -> Nat \cup {-1}], Write(f, v, map)
    PROVE  /\ local' \in [Files -> Seq(Int)]
           /\ updatefile' \in [Files -> Nat \cup {-1}]
           /\ handle' \in [Files -> {"closed", "open", "leaked"}]
           /\ UNCHANGED refused /\ events' \in 0 .. MaxEvents
<1>1. PICK x \in {v, Short} :
         /\ local' = [local EXCEPT ![f] = Append(IF handle[f] = "open" THEN @ ELSE <<>>, x)]
         /\ IF x = Short THEN Event ELSE UNCHANGED events
  BY DEF Write
<1>2. Append(local[f], x) \in Seq(Int) /\ Append(<<>>, x) \in Seq(Int)
  BY DEF Types, TypeOK, Short
<1>3. local' \in [Files -> Seq(Int)]
  BY <1>1, <1>2 DEF Types, TypeOK
<1>4. events' \in 0 .. MaxEvents
  BY <1>1, MaxEventsAssumption DEF Types, TypeOK, Event
<1> QED  BY <1>3, <1>4 DEF Types, TypeOK, Write

\* What is left of the map of files when a chunk has come.
LEMMA RestType ==
    ASSUME Types, NEW k, NEW f \in Files PROVE Rest(k, f) \in [Files -> Nat \cup {-1}]
<1>1. updatefile[f] \in Nat \cup {-1}
  BY DEF Types, TypeOK
<1>2. updatefile[f] + 1 \in Nat
  BY <1>1
<1>3. (IF updatefile[f] + 1 = Size(f, sent[k][f]) THEN -1 ELSE updatefile[f] + 1) \in Nat \cup {-1}
  BY <1>2
<1> QED  BY <1>3 DEF Types, TypeOK, Rest

\* The handler of a list of files keeps the types.
LEMMA Cmd9Type ==
    ASSUME Types, NEW k \in Links, client_cmd_9_sync_files(k)
    PROVE  /\ request' \in [Links -> Seq(Requests)]
           /\ local' \in [Files -> Seq(Int)]
           /\ updatefile' \in [Files -> Nat \cup {-1}]
           /\ handle' \in [Files -> {"closed", "open", "leaked"}]
           /\ UNCHANGED <<refused, events>>
<1> DEFINE map == [f \in Files |-> IF handle[f] = "closed" /\ local[f] = Image(f, sent[k][f])
                                  THEN -1 ELSE 0]
<1>1. map \in [Files -> Nat \cup {-1}]
  OBVIOUS
<1>2. request' \in [Links -> Seq(Requests)]
  BY <1>1, UpfileType DEF client_cmd_9_sync_files
<1> QED  BY <1>1, <1>2 DEF client_cmd_9_sync_files, Types, TypeOK

\* The handler of a chunk keeps the types.
LEMMA Cmd10Type ==
    ASSUME Types, NEW k \in Links, NEW f \in Files, NEW v \in Nat, client_cmd_10_download_file(k, f, v)
    PROVE  /\ request' \in [Links -> Seq(Requests)]
           /\ local' \in [Files -> Seq(Int)]
           /\ updatefile' \in [Files -> Nat \cup {-1}]
           /\ handle' \in [Files -> {"closed", "open", "leaked"}]
           /\ refused' \in BOOLEAN /\ events' \in 0 .. MaxEvents
<1>1. CASE Write(f, v, Rest(k, f)) /\ sendUpfileMsg(k, Rest(k, f))
  BY <1>1, RestType, WriteType, UpfileType DEF Types, TypeOK
<1>2. CASE Event /\ refused' = TRUE /\ UNCHANGED <<syncVars, request>>
  BY <1>2, MaxEventsAssumption DEF Types, TypeOK, Wired, Event, syncVars
<1>3. CASE UNCHANGED <<syncVars, request, refused, events>>
  BY <1>3 DEF Types, TypeOK, Wired, syncVars
<1> QED  BY <1>1, <1>2, <1>3 DEF client_cmd_10_download_file

-----------------------------------------------------------------------------
\* Every step keeps the types.
LEMMA TypeStep == Types /\ [Next]_vars => Types'
<1> SUFFICES ASSUME Types, [Next]_vars PROVE Types'
  OBVIOUS
<1> USE DEF agentVars, syncVars, wireVars, servVars
<1>0. ASSUME Event PROVE events' \in 0 .. MaxEvents
  BY <1>0, MaxEventsAssumption DEF Event, Types, TypeOK
<1>1. CASE ClientInit
  BY <1>1 DEF ClientInit, Types, TypeOK, Wired
<1>2. CASE ClientLoop
  BY <1>2 DEF ClientLoop, Types, TypeOK, Wired
<1>19. CASE Loop
  BY <1>19 DEF Loop, Types, TypeOK, Wired
<1>20. CASE Connect
  <2>1. missed' \in BOOLEAN /\ arg' \in Links
    BY <1>20 DEF Connect, Types, TypeOK
  <2> QED  BY <1>20, <2>1 DEF Connect, Types, TypeOK, Wired
<1>3. CASE StoreHandle
  <2>1. arg \in Links /\ late' \in BOOLEAN
    BY <1>3 DEF StoreHandle, Types, TypeOK, Wired
  <2> QED  BY <1>3, <2>1 DEF StoreHandle, Types, TypeOK, Wired
<1>4. CASE SendHeartbeat
  BY <1>4 DEF SendHeartbeat, Use, Types, TypeOK, Wired
<1>5. CASE ClientRunOrStop
  <2>1. events' \in 0 .. MaxEvents
    BY <1>0, <1>5 DEF ClientRunOrStop
  <2>2. missed' \in BOOLEAN
    BY <1>5 DEF ClientRunOrStop, Types, TypeOK
  <2>3. link' \in [Links -> {"none", "connecting", "aborted", "up", "closing", "down"}]
    BY <1>5 DEF ClientRunOrStop, Destroy, Closing, Types, TypeOK
  <2>4. state' \in {"ok", "spin", "crashed"}
    BY <1>5 DEF ClientRunOrStop, Destroy, Use, Types, TypeOK
  <2>5. ClientRun' \in BOOLEAN /\ ClientRuning' \in BOOLEAN
    BY <1>5 DEF ClientRunOrStop, Types, TypeOK
  <2> QED  BY <1>5, <2>1, <2>2, <2>3, <2>4, <2>5 DEF ClientRunOrStop, Types, TypeOK, Wired
<1>6. CASE Restart
  <2>1. events' \in 0 .. MaxEvents
    BY <1>0, <1>6 DEF Restart
  <2>2. ASSUME NEW f \in Files, NEW d \in OnDisk(f) PROVE d \in Seq(Int)
    <3>1. local[f] \in Seq(Int)
      BY DEF Types, TypeOK
    <3>2. \A n \in 0 .. Len(local[f]) : SubSeq(local[f], 1, n) \in Seq(Int)
      BY <3>1
    <3> QED  BY <2>2, <3>1, <3>2 DEF OnDisk
  <2>3. local' \in [Files -> Seq(Int)]
    BY <1>6, <2>2 DEF Restart
  <2>4. link' \in [Links -> {"none", "connecting", "aborted", "up", "closing", "down"}]
    BY <1>6 DEF Restart, Types, TypeOK
  <2>5. answer' \in [Links -> Seq(Answers)]
    BY <1>6 DEF Restart
  <2> QED  BY <1>6, <2>1, <2>3, <2>4, <2>5 DEF Restart, Types, TypeOK, Wired
<1>7. ASSUME NEW k \in Links, ConnectionMade(k) PROVE Types'
  <2>1. <<[cmd |-> 1]>> \in Seq(Requests)
    BY DEF Requests
  <2>2. request' \in [Links -> Seq(Requests)]
    BY <1>7, <2>1 DEF ConnectionMade, Types, Wired
  <2> QED  BY <1>7, <2>2 DEF ConnectionMade, Types, TypeOK, Wired
<1>8. ASSUME NEW k \in Links, ConnectionFailed(k) PROVE Types'
  <2>1. events' \in 0 .. MaxEvents
    BY <1>0, <1>8 DEF ConnectionFailed, Types, TypeOK
  <2> QED  BY <1>8, <2>1 DEF ConnectionFailed, Types, TypeOK, Wired
<1>9. ASSUME NEW k \in Links, ConnectionClosed(k) PROVE Types'
  <2>1. answer' \in [Links -> Seq(Answers)]
    BY <1>9 DEF ConnectionClosed, Types, Wired
  <2> QED  BY <1>9, <2>1 DEF ConnectionClosed, Types, TypeOK, Wired
<1>10. ASSUME NEW k \in Links, CheckReq(k) PROVE Types'
  <2>1. answer[k] \in Seq(Answers)
    BY DEF Types, Wired
  <2>2. Tail(answer[k]) \in Seq(Answers) \/ Len(answer[k]) = 0
    BY <2>1
  <2>3. Len(answer[k]) >= 2 => SubSeq(answer[k], 3, Len(answer[k])) \in Seq(Answers)
    BY <2>1
  <2>4. answer' \in [Links -> Seq(Answers)]
    <3>1. CASE Len(answer[k]) >= 1 /\ answer' = [answer EXCEPT ![k] = Tail(@)]
      BY <2>2, <3>1 DEF Types, Wired
    <3>2. CASE Len(answer[k]) >= 2 /\ answer' = [answer EXCEPT ![k] = SubSeq(@, 3, Len(@))]
      BY <2>3, <3>2 DEF Types, Wired
    <3>3. CASE UNCHANGED answer
      BY <3>3 DEF Types, Wired
    <3> QED  BY <1>10, <3>1, <3>2, <3>3 DEF CheckReq
  <2>5. /\ request' \in [Links -> Seq(Requests)]
        /\ local' \in [Files -> Seq(Int)]
        /\ updatefile' \in [Files -> Nat \cup {-1}]
        /\ handle' \in [Files -> {"closed", "open", "leaked"}]
        /\ refused' \in BOOLEAN /\ events' \in 0 .. MaxEvents
        /\ state' \in {"ok", "spin", "crashed"}
    <3>1. CASE UNCHANGED <<syncVars, request, refused, events>>
      BY <1>10, <3>1 DEF CheckReq, Types, TypeOK, Wired
    <3>2. CASE client_cmd_9_sync_files(k) /\ UNCHANGED state
      BY <3>2, Cmd9Type DEF Types, TypeOK
    <3>3. CASE /\ Len(answer[k]) >= 2 /\ answer[k][1].part = "head" /\ answer[k][1].cmd = 10
               /\ client_cmd_10_download_file(k, answer[k][1].file, answer[k][1].ver)
               /\ UNCHANGED state
      <4>1. answer[k][1] \in Answers
        BY <2>1, <3>3
      <4>2. answer[k][1].file \in Files /\ answer[k][1].ver \in Nat
        BY <3>3, <4>1 DEF Answers, Body, Task
      <4> QED  BY <3>3, <4>2, Cmd10Type DEF Types, TypeOK
    <3> QED  BY <1>10, <3>1, <3>2, <3>3 DEF CheckReq
  <2> QED  BY <1>10, <2>4, <2>5 DEF CheckReq, Types, TypeOK, Wired
<1>11. ASSUME NEW k \in Links, CheckStressRequest(k) PROVE Types'
  <2>1. request[k] \in Seq(Requests) /\ request[k] # <<>>
    BY <1>11 DEF CheckStressRequest, Types, Wired
  <2>2. Head(request[k]) \in Requests /\ Tail(request[k]) \in Seq(Requests)
    BY <2>1
  <2>3. request' \in [Links -> Seq(Requests)]
    BY <1>11, <2>2 DEF CheckStressRequest, Types, Wired
  <2> DEFINE m == Head(request[k])
  <2>4. CASE server_cmd_1_report_client_info(k)
    <3>1. Answer(9, 0, 0) \in Answers
      BY DEF Answer, Answers
    <3>2. answer' \in [Links -> Seq(Answers)] /\ body' \in [Links -> BOOLEAN]
      BY <2>4, <3>1, AnswerType DEF server_cmd_1_report_client_info, MsgSend, Types, TypeOK
    <3>3. ready' \in [Links -> {"none", "DEFAULT", "READY", "FAIL"}] /\ UNCHANGED <<refused, events>>
      BY <2>4 DEF server_cmd_1_report_client_info, Types, TypeOK
    <3> QED  BY <1>11, <2>3, <3>2, <3>3 DEF CheckStressRequest, Types, TypeOK, Wired
  <2>5. CASE m.cmd = 10 /\ server_cmd_10_download_file(k, m)
    <3>1. m.file \in Files
      BY <2>2, <2>5 DEF Requests
    <3>2. ASSUME NEW v \in Nat PROVE Answer(10, m.file, v) \in Answers
      BY <3>1 DEF Answer, Answers
    <3>3. (IF m.off < Size(m.file, content[m.file]) THEN content[m.file] ELSE 0) \in Nat
      BY <3>1 DEF Types, Wired
    <3>4. answer' \in [Links -> Seq(Answers)] /\ body' \in [Links -> BOOLEAN]
      <4>1. CASE UNCHANGED <<answer, body>>
        BY <4>1 DEF Types, TypeOK, Wired
      <4>2. CASE MsgSend(k, Answer(10, m.file, IF m.off < Size(m.file, content[m.file])
                                               THEN content[m.file] ELSE 0))
        BY <3>2, <3>3, <4>2, AnswerType DEF MsgSend, Types, TypeOK
      <4> QED  BY <2>5, <4>1, <4>2 DEF server_cmd_10_download_file
    <3>5. refused' \in BOOLEAN /\ events' \in 0 .. MaxEvents
      BY <1>0, <2>5 DEF server_cmd_10_download_file, Types, TypeOK
    <3> QED  BY <1>11, <2>3, <2>5, <3>4, <3>5 DEF CheckStressRequest, server_cmd_10_download_file,
                                                  Types, TypeOK, Wired
  <2>6. CASE server_cmd_11_sync_files_over(k, m)
    BY <1>11, <2>3, <2>6 DEF CheckStressRequest, server_cmd_11_sync_files_over, Types, TypeOK, Wired
  <2> QED  BY <1>11, <2>4, <2>5, <2>6 DEF CheckStressRequest
<1>12. ASSUME NEW k \in Links, MsgSendBody(k) PROVE Types'
  <2>1. answer' \in [Links -> Seq(Answers)]
    BY <1>12, AnswerType DEF MsgSendBody, Answers
  <2> QED  BY <1>12, <2>1 DEF MsgSendBody, Types, TypeOK, Wired
<1>13. ASSUME NEW k \in Links, StressConnectionClosed(k) PROVE Types'
  <2>1. request' \in [Links -> Seq(Requests)]
    BY <1>13 DEF StressConnectionClosed, Types, Wired
  <2> QED  BY <1>13, <2>1 DEF StressConnectionClosed, Types, TypeOK, Wired
<1>14. ASSUME NEW k \in Links, TaskCommand(k) PROVE Types'
  <2>1. answer' \in [Links -> Seq(Answers)]
    BY <1>14, AnswerType DEF TaskCommand, Answers
  <2> QED  BY <1>0, <1>14, <2>1 DEF TaskCommand, Types, TypeOK, Wired
<1>15. ASSUME NEW k \in Links, ConnectionLost(k) PROVE Types'
  BY <1>0, <1>15 DEF ConnectionLost, Types, TypeOK, Wired
<1>16. ASSUME NEW f \in Files, FileChanges(f) PROVE Types'
  BY <1>0, <1>16 DEF FileChanges, Types, TypeOK, Wired
<1>17. CASE UNCHANGED vars
  BY <1>17 DEF vars, Types, TypeOK, Wired
<1> QED  BY <1>1, <1>2, <1>3, <1>4, <1>5, <1>6, <1>7, <1>8, <1>9, <1>10, <1>11, <1>12, <1>13, <1>19, <1>20,
            <1>14, <1>15, <1>16, <1>17 DEF Next

\* Every variable keeps its type, with what is on the wire.
THEOREM TypeCorrect == Spec => []TypeOK
<1>1. Types => TypeOK
  BY DEF Types
<1> QED  BY TypeInit, TypeStep, <1>1, PTL DEF Spec

-----------------------------------------------------------------------------
\* In the initial state there is no connection.
LEMMA HeldInit == Init => OneLink /\ Held
BY DEF Init, OneLink, Held, Alive

\* Every step keeps the one connection known.
LEMMA HeldStep == Types /\ OneLink /\ Held /\ [Next]_vars => OneLink' /\ Held'
<1> SUFFICES ASSUME Types, OneLink, Held, [Next]_vars PROVE OneLink' /\ Held'
  OBVIOUS
<1> USE Names DEF agentVars, syncVars, wireVars, servVars, Types, TypeOK, Wired, OneLink, Held, Alive
<1>1. CASE UNCHANGED <<StressHsocket, main, arg, link>>
  BY <1>1
<1>2. CASE ClientLoop \/ Loop
  <2>1. StressHsocket = NULL => main = "store" \/ \A k \in Links : ~Alive(k)
    OBVIOUS
  <2> QED  BY <1>2, <2>1 DEF ClientLoop, Loop
<1>11. CASE Connect
  <2>1. \A j \in Links : ~Alive(j)
    BY <1>11 DEF Connect
  <2>2. PICK k \in Links : link' = [link EXCEPT ![k] = "connecting"] /\ arg' = k
    BY <1>11 DEF Connect
  <2>3. main' = "store" /\ \A j \in Links : Alive(j)' => j = k
    BY <1>11, <2>1, <2>2 DEF Connect
  <2> QED  BY <2>2, <2>3
<1>3. CASE StoreHandle
  BY <1>3 DEF StoreHandle
<1>4. CASE SendHeartbeat
  BY <1>4 DEF SendHeartbeat
<1>5. CASE ClientRunOrStop
  <2>1. UNCHANGED <<StressHsocket, main, arg>>
    BY <1>5 DEF ClientRunOrStop
  <2>2. \A k \in Links : Alive(k)' <=> Alive(k)
    BY <1>5 DEF ClientRunOrStop, Destroy, Closing
  <2> QED  BY <2>1, <2>2
<1>6. CASE Restart
  BY <1>6 DEF Restart
<1>7. ASSUME NEW k \in Links, ConnectionMade(k) PROVE OneLink' /\ Held'
  BY <1>7 DEF ConnectionMade
<1>8. ASSUME NEW k \in Links, ConnectionFailed(k) PROVE OneLink' /\ Held'
  BY <1>8 DEF ConnectionFailed
<1>9. ASSUME NEW k \in Links, ConnectionClosed(k) PROVE OneLink' /\ Held'
  BY <1>9 DEF ConnectionClosed
<1>10. ASSUME NEW k \in Links, ConnectionLost(k) PROVE OneLink' /\ Held'
  BY <1>10 DEF ConnectionLost
<1> QED  BY <1>1, <1>2, <1>3, <1>4, <1>5, <1>6, <1>7, <1>8, <1>9, <1>10, <1>11
         DEF Next, vars, ClientInit, CheckReq, CheckStressRequest, MsgSendBody,
             StressConnectionClosed, TaskCommand, FileChanges

\* An agent never has two connections, although Loop tests, connects and stores the
\* handle without the lock under which the callbacks forget it.
THEOREM OneLinkHolds == Spec => []OneLink
BY TypeInit, TypeStep, HeldInit, HeldStep, PTL DEF Spec

-----------------------------------------------------------------------------
(* The synchronisation.                                                     *)

\* A list of files the server has sent: versions its files have or had.
Listed(k) == sent[k] \in [Files -> Nat] /\ \A f \in Files : sent[k][f] <= content[f]

\* The server's list is of versions its files have or had.
ListOld ==
    /\ upfilestr # <<>> => upfilestr \in [Files -> Nat] /\ \A f \in Files : upfilestr[f] <= content[f]
    /\ DOMAIN sent = Links

\* A connection that was not made yet has carried nothing.
Fresh ==
    \A k \in Links : link[k] \in {"none", "connecting", "aborted"} =>
        answer[k] = <<>> /\ request[k] = <<>> /\ ready[k] = "none" /\ ~known[k] /\ ~body[k]

\* Of the answers under way none, or only h, is an answer of the synchronisation.
NoHead(q)  == \A i \in 1 .. Len(q) : q[i] \in {Body, Task}
Only(q, h) == \E i \in 1 .. Len(q) : q[i] = h /\ \A j \in 1 .. Len(q) : j # i => q[j] \in {Body, Task}

\* A file of the map whose version did not change has been written up to its offset,
\* and one that is not in the map is as it was listed; but for a full disk.
Partial(f, v) ==
    IF updatefile[f] = -1
    THEN Holds(local[f], f, v)
    ELSE /\ handle[f] = "open" =>
               Len(local[f]) = updatefile[f] /\ \A i \in 1 .. Len(local[f]) : local[f][i] \in {v, Short}
         /\ handle[f] = "closed" => updatefile[f] = 0

Syncing(k) == Listed(k) /\ \A f \in Files : content[f] = sent[k][f] => Partial(f, sent[k][f])

Fetched(k) == Listed(k) /\ \A f \in Files : content[f] = sent[k][f] => Holds(local[f], f, sent[k][f])

\* What a request, or an answer, of the synchronisation means.
Requested(k, m) ==
    \/ m.cmd = 1 /\ ready[k] = "none"
    \/ /\ m.cmd = 10 /\ Syncing(k) /\ ready[k] = "DEFAULT"
       /\ updatefile[m.file] = m.off
       /\ m.size > 0 => m.off < Size(m.file, sent[k][m.file])
    \/ m.cmd = 11 /\ Fetched(k)

Answered(k, h) ==
    /\ ready[k] = "DEFAULT"
    /\ \/ h.cmd = 9 /\ Listed(k)
       \/ /\ h.cmd = 10 /\ Syncing(k)
          /\ updatefile[h.file] # -1
          /\ content[h.file] = sent[k][h.file] =>
                h.ver = content[h.file] /\ updatefile[h.file] < Size(h.file, sent[k][h.file])

\* On a connection that is up one thing at a time is asked for or answered.
Conversation(k) ==
    \/ /\ NoHead(answer[k])
       /\ \E m \in Requests : request[k] = <<m>> /\ Requested(k, m)
    \/ /\ request[k] = <<>>
       /\ \E h \in Answers : h.part = "head" /\ Only(answer[k], h) /\ Answered(k, h)
    \/ /\ request[k] = <<>> /\ NoHead(answer[k])
       /\ ready[k] = "READY" => Fetched(k)

Sync == ListOld /\ Fresh /\ \A k \in Links : link[k] = "up" => Conversation(k)

\* Answers that are no heads, and the one that is.
LEMMA Parts ==
    /\ Body \in Answers /\ Task \in Answers
    /\ \A x \in {Body, Task} : x.part # "head"
BY DEF Body, Task, Answers

\* Behind the answers under way comes a body, a command of a task or a head.
LEMMA Appended ==
    ASSUME NEW q \in Seq(Answers), NEW x \in Answers
    PROVE  /\ NoHead(q) /\ x \in {Body, Task} => NoHead(Append(q, x))
           /\ \A h : Only(q, h) /\ x \in {Body, Task} => Only(Append(q, x), h)
           /\ NoHead(q) => Only(Append(q, x), x)
<1> DEFINE a == Append(q, x)
           n == Len(q)
<1>1. n \in Nat /\ Len(a) = n + 1 /\ a[n + 1] = x /\ \A i \in 1 .. n : a[i] = q[i]
  BY AppendProperties, LenProperties
<1> HIDE DEF a
<1>2. n + 1 \in 1 .. (n + 1) /\ \A i \in 1 .. (n + 1) : i \in 1 .. n \/ i = n + 1
  BY <1>1
<1>3. \A i \in 1 .. n : i \in 1 .. (n + 1) /\ i # n + 1
  BY <1>1
<1> HIDE DEF n
<1>4. ASSUME NoHead(q), x \in {Body, Task} PROVE NoHead(a)
  BY <1>1, <1>2, <1>4 DEF NoHead, n
<1>5. ASSUME NEW h, Only(q, h), x \in {Body, Task} PROVE Only(a, h)
  <2>1. PICK i \in 1 .. n : q[i] = h /\ \A j \in 1 .. n : j # i => q[j] \in {Body, Task}
    BY <1>5 DEF Only, n
  <2>2. i \in 1 .. Len(a) /\ a[i] = h /\ \A j \in 1 .. Len(a) : j # i => a[j] \in {Body, Task}
    BY <1>1, <1>2, <1>3, <1>5, <2>1
  <2> QED  BY <2>2 DEF Only
<1>6. ASSUME NoHead(q) PROVE Only(a, x)
  <2>1. \A j \in 1 .. Len(a) : j # n + 1 => a[j] \in {Body, Task}
    BY <1>1, <1>2, <1>6 DEF NoHead, n
  <2> QED  BY <1>1, <1>2, <2>1 DEF Only
<1> QED  BY <1>4, <1>5, <1>6 DEF a

\* What is left when the first answer, or a head with its body, is taken.
LEMMA Taken ==
    ASSUME NEW q \in Seq(Answers), Len(q) >= 1
    PROVE  /\ NoHead(q) => q[1] \in {Body, Task} /\ NoHead(Tail(q))
           /\ \A h : Only(q, h) /\ q[1] \in {Body, Task} /\ h \notin {Body, Task} => Only(Tail(q), h)
           /\ \A h : Only(q, h) /\ Len(q) >= 2 /\ q[1] \notin {Body, Task} =>
                 q[1] = h /\ NoHead(SubSeq(q, 3, Len(q)))
<1> DEFINE n == Len(q)
           t == Tail(q)
<1>1. n \in Nat /\ n >= 1 /\ 1 \in 1 .. n
  BY LenProperties
<1>2. Len(t) = n - 1 /\ \A i \in 1 .. (n - 1) : t[i] = q[i + 1]
  <2>1. q # <<>>
    BY <1>1, EmptySeq
  <2> QED  BY <1>1, <2>1, HeadTailProperties
<1> HIDE DEF t
<1>3. \A i \in 1 .. (n - 1) : i + 1 \in 1 .. n
  BY <1>1
<1>4. ASSUME NoHead(q) PROVE q[1] \in {Body, Task} /\ NoHead(t)
  BY <1>1, <1>2, <1>3, <1>4 DEF NoHead
<1>5. ASSUME NEW h, Only(q, h), q[1] \in {Body, Task}, h \notin {Body, Task} PROVE Only(t, h)
  <2>1. PICK i \in 1 .. n : q[i] = h /\ \A j \in 1 .. n : j # i => q[j] \in {Body, Task}
    BY <1>5 DEF Only
  <2>2. i # 1
    BY <1>5, <2>1
  <2>3. i - 1 \in 1 .. (n - 1) /\ (i - 1) + 1 = i
    BY <1>1, <2>1, <2>2
  <2>4. \A j \in 1 .. (n - 1) : j # i - 1 => j + 1 # i
    BY <1>1, <2>1
  <2>5. t[i - 1] = h
    BY <1>2, <2>1, <2>3
  <2>6. \A j \in 1 .. (n - 1) : j # i - 1 => t[j] \in {Body, Task}
    BY <1>2, <1>3, <2>1, <2>4
  <2> QED  BY <1>2, <2>3, <2>5, <2>6 DEF Only
<1>6. ASSUME NEW h, Only(q, h), n >= 2, q[1] \notin {Body, Task}
      PROVE  q[1] = h /\ NoHead(SubSeq(q, 3, n))
  <2>1. PICK i \in 1 .. n : q[i] = h /\ \A j \in 1 .. n : j # i => q[j] \in {Body, Task}
    BY <1>6 DEF Only
  <2>2. i = 1
    BY <1>1, <1>6, <2>1
  <2>3. \A j \in 3 .. n : q[j] \in Answers /\ j \in 1 .. n /\ j # 1
    BY <1>1, ElementOfSeq
  <2>4. n \in Int /\ 3 \in Int
    BY <1>1
  <2> DEFINE r == SubSeq(q, 3, n)
  <2>5. Len(r) = (IF 3 <= n THEN n - 3 + 1 ELSE 0) /\ \A j \in 1 .. n - 3 + 1 : r[j] = q[3 + j - 1]
    BY <2>3, <2>4, SubSeqProperties
  <2> HIDE DEF r
  <2>6. \A j \in 1 .. Len(r) : j \in 1 .. n - 3 + 1 /\ 3 + j - 1 \in 3 .. n
    BY <1>1, <2>5
  <2>7. NoHead(r)
    BY <2>1, <2>2, <2>3, <2>5, <2>6 DEF NoHead
  <2> QED  BY <2>1, <2>2, <2>7 DEF r
<1> QED  BY <1>4, <1>5, <1>6 DEF t

\* A conversation goes on that a step leaves alone.
LEMMA SameConversation ==
    ASSUME NEW k \in Links, Conversation(k),
           request'[k] = request[k], answer'[k] = answer[k], ready'[k] = ready[k], sent'[k] = sent[k],
           UNCHANGED <<content, updatefile, handle, local>>
    PROVE  Conversation(k)'
<1>1. Listed(k)' <=> Listed(k)
  BY DEF Listed
<1>2. \A f \in Files : \A v : Partial(f, v)' <=> Partial(f, v)
  BY DEF Partial
<1>3. (Syncing(k)' <=> Syncing(k)) /\ (Fetched(k)' <=> Fetched(k))
  BY <1>1, <1>2 DEF Syncing, Fetched
<1>4. \A m : Requested(k, m)' <=> Requested(k, m)
  BY <1>3 DEF Requested
<1>5. \A h : Answered(k, h)' <=> Answered(k, h)
  BY <1>1, <1>3 DEF Answered
<1> QED  BY <1>3, <1>4, <1>5 DEF Conversation

\* A body or a command of a task under way does not disturb it.
LEMMA MoreConversation ==
    ASSUME Types, NEW k \in Links, Conversation(k), NEW x \in {Body, Task},
           answer'[k] = Append(answer[k], x),
           UNCHANGED <<request, ready, sent, content, updatefile, handle, local>>
    PROVE  Conversation(k)'
<1>0. answer[k] \in Seq(Answers) /\ x \in Answers
  BY Parts DEF Types, Wired
<1>1. Listed(k)' <=> Listed(k)
  BY DEF Listed
<1>2. \A f \in Files : \A v : Partial(f, v)' <=> Partial(f, v)
  BY DEF Partial
<1>3. (Syncing(k)' <=> Syncing(k)) /\ (Fetched(k)' <=> Fetched(k))
  BY <1>1, <1>2 DEF Syncing, Fetched
<1>4. \A m : Requested(k, m)' <=> Requested(k, m)
  BY <1>3 DEF Requested
<1>5. \A h : Answered(k, h)' <=> Answered(k, h)
  BY <1>1, <1>3 DEF Answered
<1>6. NoHead(answer[k]) => NoHead(answer'[k])
  BY <1>0, Appended
<1>7. \A h : Only(answer[k], h) => Only(answer'[k], h)
  BY <1>0, Appended
<1> QED  BY <1>3, <1>4, <1>5, <1>6, <1>7 DEF Conversation

\* An agent that has nothing under way asks for the next chunk or reports.
LEMMA NextRequest ==
    ASSUME Types, NEW k \in Links, link[k] = "up", request[k] = <<>>,
           sendUpfileMsg(k, updatefile'), Syncing(k)', ready'[k] = "DEFAULT", NoHead(answer'[k]),
           updatefile' \in [Files -> Nat \cup {-1}], UNCHANGED sent
    PROVE  Conversation(k)'
<1>1. ASSUME NEW m \in Requests, Send(k, m) PROVE request'[k] = <<m>>
  <2>1. request'[k] = Append(request[k], m)
    BY <1>1 DEF Send, Types, Wired
  <2> QED  BY <2>1
<1>2. ASSUME \A f \in Files : updatefile'[f] = -1, NEW ret \in {0, -1}, Send(k, [cmd |-> 11, ret |-> ret])
      PROVE  Conversation(k)'
  <2> DEFINE m == [cmd |-> 11, ret |-> ret]
  <2>1. m \in Requests /\ m.cmd = 11
    BY DEF Requests
  <2>2. Fetched(k)'
    BY <1>2 DEF Syncing, Partial, Fetched
  <2> HIDE DEF m
  <2>3. Requested(k, m)'
    BY <2>1, <2>2 DEF Requested
  <2>4. request'[k] = <<m>>
    BY <1>1, <1>2, <2>1 DEF m
  <2> QED  BY <2>1, <2>3, <2>4 DEF Conversation
<1>3. ASSUME NEW f \in Files, updatefile'[f] # -1,
             Send(k, [cmd |-> 10, file |-> f, off |-> updatefile'[f],
                      size |-> IF updatefile'[f] < Size(f, sent[k][f]) THEN 1 ELSE 0])
      PROVE  Conversation(k)'
  <2>1. PICK off \in Nat : off = updatefile'[f]
    BY <1>3
  <2>2. PICK size \in {0, 1} : size = IF off < Size(f, sent[k][f]) THEN 1 ELSE 0
    OBVIOUS
  <2> DEFINE m == [cmd |-> 10, file |-> f, off |-> off, size |-> size]
  <2>3. m \in Requests /\ m.cmd = 10 /\ m.file = f /\ m.off = off /\ m.size = size
    BY DEF Requests
  <2>4. request'[k] = <<m>>
    BY <1>1, <1>3, <2>1, <2>2, <2>3
  <2> HIDE DEF m
  <2>5. m.size > 0 => m.off < Size(m.file, sent'[k][m.file])
    BY <2>2, <2>3
  <2>6. Requested(k, m)'
    BY <2>1, <2>3, <2>5 DEF Requested
  <2> QED  BY <2>3, <2>4, <2>6 DEF Conversation
<1> QED  BY <1>2, <1>3 DEF sendUpfileMsg

\* client_cmd_9_sync_files begins the synchronisation with the list that was sent.
LEMMA ListBegins ==
    ASSUME Types, NEW k \in Links, link[k] = "up", request[k] = <<>>, Listed(k),
           client_cmd_9_sync_files(k), ready[k] = "DEFAULT", NoHead(answer'[k]),
           UNCHANGED <<ready, sent, content>>
    PROVE  Conversation(k)'
<1> DEFINE map == [f \in Files |-> IF handle[f] = "closed" /\ local[f] = Image(f, sent[k][f])
                                  THEN -1 ELSE 0]
<1>1. map \in [Files -> Nat \cup {-1}] /\ updatefile' = map /\ sendUpfileMsg(k, map) /\ local' = local
  BY DEF client_cmd_9_sync_files
<1>2. \A f \in Files : handle'[f] \in {"closed", "leaked"}
  BY DEF client_cmd_9_sync_files
<1>3. \A f \in Files : (updatefile'[f] = -1 /\ local[f] = Image(f, sent[k][f])) \/ updatefile'[f] = 0
  BY <1>1
<1> HIDE DEF map
<1>4. ASSUME NEW f \in Files PROVE Partial(f, sent[k][f])'
  <2>1. CASE updatefile'[f] = 0
    BY <1>2, <2>1 DEF Partial
  <2>2. CASE updatefile'[f] = -1 /\ local[f] = Image(f, sent[k][f])
    <3>1. Holds(local[f], f, sent[k][f])
      BY <2>2 DEF Holds, Image
    <3> QED  BY <1>1, <1>2, <2>2, <3>1 DEF Partial
  <2> QED  BY <1>3, <2>1, <2>2
<1>5. Syncing(k)'
  BY <1>4 DEF Syncing, Listed
<1> QED  BY <1>1, <1>5, NextRequest

\* client_cmd_10_download_file goes on with a chunk.
LEMMA ChunkWritten ==
    ASSUME Types, NEW k \in Links, NEW f \in Files, NEW v \in Nat,
           Syncing(k), updatefile[f] # -1, handle[f] # "leaked",
           content[f] = sent[k][f] => v = content[f] /\ updatefile[f] < Size(f, sent[k][f]),
           Write(f, v, Rest(k, f)), UNCHANGED <<sent, content>>
    PROVE  Syncing(k)'
<1>0. PICK x \in {v, Short} :
         local' = [local EXCEPT ![f] = Append(IF handle[f] = "open" THEN @ ELSE <<>>, x)]
  BY DEF Write
<1> DEFINE was == IF handle[f] = "open" THEN local[f] ELSE <<>>
           new == Append(was, x)
           u   == updatefile[f]
<1>1. /\ local' = [local EXCEPT ![f] = new]
      /\ updatefile' = Rest(k, f)
      /\ handle' = [handle EXCEPT ![f] = IF Rest(k, f)[f] = -1 THEN "closed" ELSE "open"]
  BY <1>0 DEF Write, Types, TypeOK
<1>2. /\ local \in [Files -> Seq(Int)] /\ updatefile \in [Files -> Nat \cup {-1}]
      /\ handle \in [Files -> {"closed", "open", "leaked"}]
      /\ u \in Nat
  BY DEF Types, TypeOK
<1>3. Rest(k, f) = [updatefile EXCEPT ![f] = IF u + 1 = Size(f, sent[k][f]) THEN -1 ELSE u + 1]
  BY DEF Rest
<1>4. was \in Seq(Int) /\ Len(was) \in Nat
  BY <1>2, EmptySeq, LenProperties
<1> HIDE DEF was, u
<1>5. /\ Len(new) = Len(was) + 1 /\ new \in Seq(Int)
      /\ new[Len(was) + 1] = x /\ \A i \in 1 .. Len(was) : new[i] = was[i]
  BY <1>4, AppendProperties DEF Short
<1> HIDE DEF new
<1>6. ASSUME NEW g \in Files, g # f, content[g] = sent[k][g] PROVE Partial(g, sent[k][g])'
  <2>1. local'[g] = local[g] /\ updatefile'[g] = updatefile[g] /\ handle'[g] = handle[g]
    BY <1>1, <1>2, <1>3, <1>6
  <2>2. Partial(g, sent[k][g])
    BY <1>6 DEF Syncing
  <2> QED  BY <2>1, <2>2 DEF Partial
<1>7. ASSUME content[f] = sent[k][f] PROVE Partial(f, sent[k][f])'
  <2> DEFINE s == Size(f, v)
  <2>1. v = sent[k][f] /\ u < s /\ Partial(f, v)
    BY <1>7 DEF Syncing, u
  <2>2. Len(was) = u /\ \A i \in 1 .. Len(was) : was[i] \in {v, Short}
    <3>1. CASE handle[f] = "open"
      BY <2>1, <3>1 DEF Partial, was, u
    <3>2. CASE handle[f] = "closed"
      BY <2>1, <3>2, EmptySeq DEF Partial, was, u
    <3> QED  BY <1>2, <3>1, <3>2
  <2>3. Len(new) = u + 1 /\ \A i \in 1 .. (u + 1) : new[i] \in {v, Short}
    <3>1. \A i \in 1 .. (u + 1) : i \in 1 .. u \/ i = u + 1
      BY <1>2
    <3> QED  BY <1>5, <2>2, <3>1
  <2>4. local'[f] = new /\ updatefile'[f] = IF u + 1 = s THEN -1 ELSE u + 1
    BY <1>1, <1>2, <1>3, <2>1
  <2>5. CASE u + 1 = s
    <3>1. Holds(new, f, v)
      BY <1>5, <2>3, <2>5 DEF Holds
    <3> QED  BY <2>1, <2>4, <2>5, <3>1 DEF Partial
  <2>6. CASE u + 1 # s
    <3>1. updatefile'[f] = u + 1 /\ updatefile'[f] # -1 /\ handle'[f] = "open"
      BY <1>1, <1>2, <1>3, <2>1, <2>4, <2>6
    <3> QED  BY <2>1, <2>3, <2>4, <3>1 DEF Partial
  <2> QED  BY <2>5, <2>6
<1>8. Listed(k)'
  BY DEF Syncing, Listed
<1> QED  BY <1>6, <1>7, <1>8 DEF Syncing

\* CheckReq on a connection that is up.
LEMMA AgentAnswers ==
    ASSUME Types, NEW k \in Links, link[k] = "up", Conversation(k), CheckReq(k)
    PROVE  Conversation(k)'
<1> DEFINE q == answer[k]
<1>0. q \in Seq(Answers) /\ UNCHANGED <<ready, sent, content>>
  BY DEF Types, Wired, CheckReq, servVars
<1>1. CASE Len(q) >= 1 /\ q[1] = Task /\ answer' = [answer EXCEPT ![k] = Tail(@)] /\ UNCHANGED <<syncVars, request>>
  <2>1. answer'[k] = Tail(q)
    BY <1>1 DEF Types, Wired
  <2>2. /\ NoHead(q) => NoHead(Tail(q))
        /\ \A h : Only(q, h) /\ h \notin {Body, Task} => Only(Tail(q), h)
    BY <1>0, <1>1, Taken
  <2>3. \A h : h.part = "head" => h \notin {Body, Task}
    BY Parts
  <2>4. Listed(k)' <=> Listed(k)
    BY <1>0 DEF Listed
  <2>5. \A f \in Files : \A v : Partial(f, v)' <=> Partial(f, v)
    BY <1>1 DEF Partial, syncVars
  <2>6. (Syncing(k)' <=> Syncing(k)) /\ (Fetched(k)' <=> Fetched(k))
    BY <1>0, <1>1, <2>4, <2>5 DEF Syncing, Fetched, syncVars
  <2>7. \A m : Requested(k, m)' <=> Requested(k, m)
    BY <1>0, <1>1, <2>6 DEF Requested, syncVars
  <2>8. \A h : Answered(k, h)' <=> Answered(k, h)
    BY <1>0, <1>1, <2>4, <2>6 DEF Answered, syncVars
  <2> QED  BY <1>0, <1>1, <2>1, <2>2, <2>3, <2>6, <2>7, <2>8 DEF Conversation, syncVars
<1>2. CASE UNCHANGED <<answer, syncVars, request>>
  BY <1>0, <1>2, SameConversation DEF syncVars
<1>3. ASSUME Len(q) >= 2, q[1].part = "head", answer' = [answer EXCEPT ![k] = SubSeq(@, 3, Len(@))],
             \/ q[1].cmd = 9 /\ client_cmd_9_sync_files(k)
             \/ q[1].cmd = 10 /\ client_cmd_10_download_file(k, q[1].file, q[1].ver)
      PROVE  Conversation(k)'
  <2>1. q[1] \notin {Body, Task} /\ q[1] \in Answers
    BY <1>0, <1>3, Parts, ElementOfSeq
  <2>2. ~NoHead(q)
    BY <1>0, <1>3, <2>1, Taken
  <2>3. /\ request[k] = <<>> /\ Answered(k, q[1]) /\ NoHead(SubSeq(q, 3, Len(q)))
    <3>1. PICK h \in Answers : h.part = "head" /\ Only(q, h) /\ Answered(k, h) /\ request[k] = <<>>
      BY <2>2 DEF Conversation
    <3>2. q[1] = h /\ NoHead(SubSeq(q, 3, Len(q)))
      BY <1>0, <1>3, <2>1, <3>1, Taken
    <3> QED  BY <3>1, <3>2
  <2>4. answer'[k] = SubSeq(q, 3, Len(q))
    BY <1>3 DEF Types, Wired
  <2>5. CASE q[1].cmd = 9 /\ client_cmd_9_sync_files(k)
    <3>1. Listed(k) /\ ready[k] = "DEFAULT"
      BY <2>3, <2>5 DEF Answered
    <3> QED  BY <1>0, <2>3, <2>4, <2>5, <3>1, ListBegins
  <2>6. CASE q[1].cmd = 10 /\ client_cmd_10_download_file(k, q[1].file, q[1].ver)
    <3> DEFINE f == q[1].file
               v == q[1].ver
    <3>1. f \in Files /\ v \in Nat
      BY <1>3, <2>1, <2>6 DEF Answers, Body, Task
    <3>2. /\ Syncing(k) /\ updatefile[f] # -1 /\ ready[k] = "DEFAULT"
          /\ content[f] = sent[k][f] => v = content[f] /\ updatefile[f] < Size(f, sent[k][f])
      BY <2>3, <2>6 DEF Answered
    <3> HIDE DEF f, v
    <3>3. CASE handle[f] # "leaked" /\ Write(f, v, Rest(k, f)) /\ sendUpfileMsg(k, Rest(k, f))
      <4>1. Syncing(k)'
        BY <1>0, <3>1, <3>2, <3>3, ChunkWritten
      <4>2. updatefile' = Rest(k, f) /\ updatefile' \in [Files -> Nat \cup {-1}]
        BY <3>1, <3>3, RestType DEF Write
      <4> QED  BY <1>0, <2>3, <2>4, <3>2, <3>3, <4>1, <4>2, NextRequest
    <3>4. CASE UNCHANGED <<syncVars, request>>
      BY <1>0, <2>3, <2>4, <3>2, <3>4 DEF Conversation
    <3> QED  BY <2>6, <3>3, <3>4 DEF client_cmd_10_download_file, f, v
  <2> QED  BY <1>3, <2>5, <2>6
<1> QED  BY <1>1, <1>2, <1>3 DEF CheckReq

\* CheckStressRequest on a connection that is up.
LEMMA ServerAnswers ==
    ASSUME Types, ListOld, NEW k \in Links, link[k] = "up", Conversation(k), CheckStressRequest(k)
    PROVE  Conversation(k)'
<1>1. request[k] # <<>> /\ request' = [request EXCEPT ![k] = Tail(@)] /\ UNCHANGED <<content, updatefile, handle, local>>
  BY DEF CheckStressRequest, syncVars
<1>2. PICK m \in Requests : request[k] = <<m>> /\ Requested(k, m) /\ NoHead(answer[k])
  BY <1>1 DEF Conversation
<1>3. request'[k] = <<>> /\ Head(request[k]) = m
  BY <1>1, <1>2 DEF Types, Wired
<1>4. answer[k] \in Seq(Answers) /\ ready \in [Links -> {"none", "DEFAULT", "READY", "FAIL"}]
  BY DEF Types, TypeOK, Wired
<1>5. ASSUME NEW h \in Answers, h.part = "head", MsgSend(k, h), Answered(k, h)'
      PROVE  Conversation(k)'
  <2>1. answer'[k] = Append(answer[k], h)
    BY <1>5 DEF MsgSend, Types, Wired
  <2>2. Only(answer'[k], h)
    BY <1>2, <1>4, <1>5, <2>1, Appended
  <2> QED  BY <1>3, <1>5, <2>2 DEF Conversation
<1>6. CASE server_cmd_1_report_client_info(k)
  <2> DEFINE h == Answer(9, 0, 0)
  <2>1. h \in Answers /\ h.part = "head" /\ h.cmd = 9
    BY DEF Answer, Answers
  <2>2. ready'[k] = "DEFAULT" /\ MsgSend(k, h) /\ sent'[k] = upfilestr'
    BY <1>4, <1>6 DEF server_cmd_1_report_client_info, sync_files, ListOld
  <2>3. upfilestr' \in [Files -> Nat] /\ \A f \in Files : upfilestr'[f] <= content[f]
    BY <1>6 DEF server_cmd_1_report_client_info, sync_files, ListOld, Types, Wired
  <2>4. Listed(k)'
    BY <1>1, <2>2, <2>3 DEF Listed
  <2> HIDE DEF h
  <2>5. Answered(k, h)'
    BY <2>1, <2>2, <2>4 DEF Answered
  <2> QED  BY <1>5, <2>1, <2>2, <2>5
<1>7. CASE m.cmd = 10 /\ server_cmd_10_download_file(k, m)
  <2>1. /\ Syncing(k) /\ ready[k] = "DEFAULT" /\ updatefile[m.file] = m.off
        /\ m.size > 0 => m.off < Size(m.file, sent[k][m.file])
    BY <1>2, <1>7 DEF Requested
  <2>2. m.file \in Files /\ m.off \in Nat
    BY <1>2, <1>7 DEF Requests
  <2>3. UNCHANGED <<ready, sent>>
    BY <1>7 DEF server_cmd_10_download_file
  <2>4. Syncing(k)'
    <3>1. Listed(k)'
      BY <1>1, <2>1, <2>3 DEF Syncing, Listed
    <3>2. \A f \in Files : \A v : Partial(f, v)' <=> Partial(f, v)
      BY <1>1 DEF Partial
    <3> QED  BY <1>1, <2>1, <2>3, <3>1, <3>2 DEF Syncing
  <2>5. CASE UNCHANGED answer
    BY <1>2, <1>3, <2>1, <2>3, <2>5 DEF Conversation
  <2>6. PICK v \in Nat : v = IF m.off < Size(m.file, content[m.file]) THEN content[m.file] ELSE 0
    BY <2>2 DEF Types, Wired
  <2>7. CASE m.size > 0 /\ MsgSend(k, Answer(10, m.file, v))
    <3> DEFINE h == Answer(10, m.file, v)
    <3>1. h \in Answers /\ h.part = "head" /\ h.cmd = 10 /\ h.file = m.file /\ h.ver = v
      BY <2>2 DEF Answer, Answers
    <3> HIDE DEF h
    <3>2. content[m.file] = sent[k][m.file] =>
             v = content[m.file] /\ updatefile[m.file] < Size(m.file, sent[k][m.file])
      BY <2>1, <2>6, <2>7
    <3>3. updatefile[m.file] # -1
      BY <2>1, <2>2
    <3>4. Answered(k, h)'
      BY <1>1, <2>1, <2>3, <2>4, <3>1, <3>2, <3>3 DEF Answered
    <3> QED  BY <1>5, <2>7, <3>1, <3>4 DEF h
  <2> QED  BY <1>7, <2>5, <2>6, <2>7 DEF server_cmd_10_download_file
<1>8. CASE m.cmd = 11 /\ server_cmd_11_sync_files_over(k, m)
  <2>1. UNCHANGED <<sent, answer>> /\ Fetched(k)
    BY <1>2, <1>8 DEF server_cmd_11_sync_files_over, Requested
  <2>2. Fetched(k)'
    BY <1>1, <2>1 DEF Fetched, Listed
  <2> QED  BY <1>2, <1>3, <2>1, <2>2 DEF Conversation
<1> QED  BY <1>3, <1>6, <1>7, <1>8 DEF CheckStressRequest

\* A file changes: what was listed of it is old from then on.
LEMMA FileConversation ==
    ASSUME Types, NEW k \in Links, Conversation(k), NEW f \in Files, FileChanges(f)
    PROVE  Conversation(k)'
<1>1. content \in [Files -> Nat] /\ content' = [content EXCEPT ![f] = content[f] + 1]
  BY DEF FileChanges, Types, Wired
<1>2. UNCHANGED <<request, answer, ready, sent, updatefile, handle, local>>
  BY DEF FileChanges, wireVars, syncVars
<1>3. \A g \in Files : content'[g] = IF g = f THEN content[g] + 1 ELSE content[g]
  BY <1>1
<1>4. ASSUME Listed(k)
      PROVE  Listed(k)' /\ \A g \in Files : content'[g] = sent[k][g] => content[g] = sent[k][g]
  <2>1. sent[k] \in [Files -> Nat] /\ \A g \in Files : sent[k][g] <= content[g]
    BY <1>4 DEF Listed
  <2>2. \A g \in Files : sent[k][g] <= content'[g] /\ (content'[g] = sent[k][g] => content[g] = sent[k][g])
    BY <1>1, <1>3, <2>1
  <2> QED  BY <1>2, <2>1, <2>2 DEF Listed
<1>5. \A g \in Files : \A v : Partial(g, v)' <=> Partial(g, v)
  BY <1>2 DEF Partial
<1>6. (Syncing(k) => Syncing(k)') /\ (Fetched(k) => Fetched(k)')
  BY <1>2, <1>4, <1>5 DEF Syncing, Fetched
<1>7. \A m : Requested(k, m) => Requested(k, m)'
  BY <1>2, <1>6 DEF Requested
<1>8. ASSUME NEW h \in Answers, h.part = "head", Answered(k, h) PROVE Answered(k, h)'
  <2>1. CASE h.cmd = 9 /\ Listed(k)
    BY <1>2, <1>4, <1>8, <2>1 DEF Answered
  <2>2. CASE h.cmd = 10 /\ Syncing(k)
    <3>1. h.file \in Files
      BY <1>8, <2>2 DEF Answers, Body, Task
    <3>2. content'[h.file] = sent[k][h.file] => content[h.file] = sent[k][h.file] /\ content'[h.file] = content[h.file]
      BY <1>4, <2>2, <3>1 DEF Syncing
    <3> QED  BY <1>2, <1>6, <1>8, <2>2, <3>1, <3>2 DEF Answered
  <2> QED  BY <1>8, <2>1, <2>2 DEF Answered
<1> QED  BY <1>2, <1>6, <1>7, <1>8 DEF Conversation

-----------------------------------------------------------------------------
\* In the initial state nothing is under way.
LEMMA SyncInit == Init => Sync
BY DEF Init, Sync, ListOld, Fresh

\* Every step keeps the lists old.
LEMMA ListStep == Types /\ ListOld /\ [Next]_vars => ListOld'
<1> SUFFICES ASSUME Types, ListOld, [Next]_vars PROVE ListOld'
  OBVIOUS
<1> USE DEF servVars
<1>1. CASE UNCHANGED <<upfilestr, sent, content>>
  BY <1>1 DEF ListOld
<1>2. ASSUME NEW k \in Links, CheckStressRequest(k) PROVE ListOld'
  <2>1. CASE sync_files(k) /\ content' = content
    BY <2>1 DEF sync_files, ListOld, Types, Wired
  <2> QED  BY <1>1, <1>2, <2>1 DEF CheckStressRequest, server_cmd_1_report_client_info,
                                   server_cmd_10_download_file, server_cmd_11_sync_files_over
<1>3. ASSUME NEW f \in Files, FileChanges(f) PROVE ListOld'
  <2>1. content \in [Files -> Nat] /\ content' = [content EXCEPT ![f] = content[f] + 1] /\ UNCHANGED <<upfilestr, sent>>
    BY <1>3 DEF FileChanges, Types, Wired
  <2>2. \A g \in Files : content[g] \in Nat /\ content'[g] \in {content[g], content[g] + 1}
    BY <2>1
  <2>3. ASSUME upfilestr # <<>>
        PROVE  upfilestr \in [Files -> Nat] /\ \A g \in Files : upfilestr[g] <= content'[g]
    <3>1. upfilestr \in [Files -> Nat] /\ \A g \in Files : upfilestr[g] <= content[g]
      BY <2>3 DEF ListOld
    <3> QED  BY <2>2, <3>1
  <2> QED  BY <2>1, <2>3 DEF ListOld
<1> QED  BY <1>1, <1>2, <1>3
         DEF Next, vars, ClientInit, ClientLoop, Loop, Connect, StoreHandle, SendHeartbeat, ClientRunOrStop, Restart, ConnectionMade,
             ConnectionFailed, ConnectionClosed, CheckReq, MsgSendBody, StressConnectionClosed, TaskCommand,
             ConnectionLost

\* Every step keeps connections not made yet fresh.
LEMMA FreshStep == Types /\ Fresh /\ [Next]_vars => Fresh'
<1> SUFFICES ASSUME Types, Fresh, [Next]_vars PROVE Fresh'
  OBVIOUS
<1> USE DEF agentVars, wireVars, servVars, syncVars, Types, TypeOK, Wired
<1> DEFINE Early == {"none", "connecting", "aborted"}
<1>1. CASE /\ UNCHANGED <<answer, request, ready, known, body>>
           /\ \A k \in Links : link'[k] \in Early => link[k] \in Early
  BY <1>1 DEF Fresh
<1>2. ASSUME NEW k \in Links, link[k] \notin Early, UNCHANGED link,
             \A j \in Links \ {k} : /\ answer'[j] = answer[j] /\ request'[j] = request[j] /\ ready'[j] = ready[j]
                                    /\ known'[j] = known[j] /\ body'[j] = body[j]
      PROVE  Fresh'
  BY <1>2 DEF Fresh
<1>3. CASE Connect
  BY <1>1, <1>3 DEF Connect
<1>4. CASE ClientRunOrStop
  BY <1>1, <1>4 DEF ClientRunOrStop, Destroy, Closing
<1>5. CASE Restart
  BY <1>5 DEF Restart, Fresh, Alive
<1>6. ASSUME NEW k \in Links, ConnectionMade(k) PROVE Fresh'
  BY <1>6 DEF ConnectionMade, Fresh
<1>7. ASSUME NEW k \in Links, ConnectionFailed(k) \/ ConnectionLost(k) PROVE Fresh'
  BY <1>1, <1>7 DEF ConnectionFailed, ConnectionLost
<1>8. ASSUME NEW k \in Links, ConnectionClosed(k) PROVE Fresh'
  BY <1>8 DEF ConnectionClosed, Fresh
<1>9. ASSUME NEW k \in Links, CheckReq(k) PROVE Fresh'
  <2>1. /\ link[k] \in {"up", "closing"} /\ UNCHANGED <<link, ready, known, body>>
        /\ \A j \in Links \ {k} : answer'[j] = answer[j]
    BY <1>9 DEF CheckReq
  <2>2. \A j \in Links \ {k} : request'[j] = request[j]
    BY <1>9 DEF CheckReq, client_cmd_9_sync_files, client_cmd_10_download_file, sendUpfileMsg, Send
  <2> QED  BY <1>2, <2>1, <2>2
<1>10. ASSUME NEW k \in Links, CheckStressRequest(k) PROVE Fresh'
  <2>1. link[k] \notin Early
    BY <1>10 DEF CheckStressRequest, Fresh
  <2>2. UNCHANGED <<link, known>> /\ \A j \in Links \ {k} : request'[j] = request[j]
    BY <1>10 DEF CheckStressRequest
  <2>3. \A j \in Links \ {k} : answer'[j] = answer[j] /\ ready'[j] = ready[j] /\ body'[j] = body[j]
    BY <1>10 DEF CheckStressRequest, server_cmd_1_report_client_info, server_cmd_10_download_file,
                 server_cmd_11_sync_files_over, MsgSend
  <2> QED  BY <1>2, <2>1, <2>2, <2>3
<1>11. ASSUME NEW k \in Links, MsgSendBody(k) \/ StressConnectionClosed(k) \/ TaskCommand(k) PROVE Fresh'
  BY <1>2, <1>11 DEF MsgSendBody, StressConnectionClosed, TaskCommand, Fresh
<1> QED  BY <1>1, <1>3, <1>4, <1>5, <1>6, <1>7, <1>8, <1>9, <1>10, <1>11
         DEF Next, vars, ClientInit, ClientLoop, Loop, StoreHandle, SendHeartbeat, FileChanges

\* Every step keeps the conversation of a connection that stays or comes up.
LEMMA ConversationStep ==
    ASSUME Types, OneLink, Sync, [Next]_vars, NEW k \in Links, link'[k] = "up"
    PROVE  Conversation(k)'
<1> USE DEF agentVars, wireVars, servVars, syncVars
<1>0. link[k] = "up" => Conversation(k)
  BY DEF Sync
<1>1. CASE link[k] = "up" /\ UNCHANGED <<request, answer, ready, sent, content, updatefile, handle, local>>
  BY <1>0, <1>1, SameConversation
<1>2. CASE ClientInit \/ ClientLoop \/ Loop \/ Connect \/ StoreHandle \/ SendHeartbeat \/ ClientRunOrStop
  <2>1. link[k] = "up"
    BY <1>2 DEF ClientInit, ClientLoop, Loop, Connect, StoreHandle, SendHeartbeat, ClientRunOrStop,
                Destroy, Closing, Types, TypeOK
  <2> QED  BY <1>1, <1>2, <2>1 DEF ClientInit, ClientLoop, Loop, Connect, StoreHandle, SendHeartbeat,
                                   ClientRunOrStop
<1>3. ASSUME Restart PROVE FALSE
  BY <1>3 DEF Restart, Alive
<1>4. ASSUME NEW j \in Links, ConnectionMade(j) PROVE Conversation(k)'
  <2>1. CASE j = k
    <3> DEFINE m == [cmd |-> 1]
    <3>1. m \in Requests /\ m.cmd = 1
      BY DEF Requests
    <3>2. request'[k] = <<m>> /\ UNCHANGED <<answer, ready>>
      BY <1>4, <2>1 DEF ConnectionMade, Types, Wired
    <3>3. answer[k] = <<>> /\ ready[k] = "none"
      BY <1>4, <2>1 DEF ConnectionMade, Sync, Fresh
    <3>4. NoHead(answer'[k])
      BY <3>2, <3>3, EmptySeq DEF NoHead
    <3> HIDE DEF m
    <3>5. Requested(k, m)'
      BY <3>1, <3>2, <3>3 DEF Requested
    <3> QED  BY <3>1, <3>2, <3>4, <3>5 DEF Conversation
  <2>2. ASSUME j # k PROVE FALSE
    <3>1. link[k] = "up"
      BY <1>4, <2>2 DEF ConnectionMade, Types, TypeOK
    <3> QED  BY <1>4, <2>2, <3>1 DEF ConnectionMade, OneLink, Alive
  <2> QED  BY <2>1, <2>2
<1>5. ASSUME NEW j \in Links, ConnectionFailed(j) \/ ConnectionLost(j) PROVE Conversation(k)'
  <2>1. link[k] = "up"
    BY <1>5 DEF ConnectionFailed, ConnectionLost, Types, TypeOK
  <2> QED  BY <1>1, <1>5, <2>1 DEF ConnectionFailed, ConnectionLost
<1>6. ASSUME NEW j \in Links, ConnectionClosed(j) PROVE Conversation(k)'
  <2>1. link[k] = "up" /\ j # k
    BY <1>6 DEF ConnectionClosed, Types, TypeOK
  <2> QED  BY <1>0, <1>6, <2>1, SameConversation DEF ConnectionClosed, Types, Wired
<1>7. ASSUME NEW j \in Links, CheckReq(j) PROVE Conversation(k)'
  <2>1. link[k] = "up" /\ link[j] \in {"up", "closing"}
    BY <1>7 DEF CheckReq
  <2>2. j = k
    BY <2>1 DEF OneLink, Alive
  <2> QED  BY <1>0, <1>7, <2>1, <2>2, AgentAnswers
<1>8. ASSUME NEW j \in Links, CheckStressRequest(j) PROVE Conversation(k)'
  <2>1. link[k] = "up"
    BY <1>8 DEF CheckStressRequest
  <2>2. CASE j = k
    BY <1>0, <1>8, <2>1, <2>2, ServerAnswers DEF Sync
  <2>3. CASE j # k
    <3>1. UNCHANGED <<content, updatefile, handle, local>> /\ request'[k] = request[k]
      BY <1>8, <2>3 DEF CheckStressRequest, Types, Wired
    <3>2. answer'[k] = answer[k] /\ ready'[k] = ready[k] /\ sent'[k] = sent[k]
      BY <1>8, <2>3 DEF CheckStressRequest, server_cmd_1_report_client_info, server_cmd_10_download_file,
                        server_cmd_11_sync_files_over, MsgSend, sync_files, Types, TypeOK, Wired, Sync, ListOld
    <3> QED  BY <1>0, <2>1, <3>1, <3>2, SameConversation
  <2> QED  BY <2>2, <2>3
<1>9. ASSUME NEW j \in Links, NEW x \in {Body, Task},
             answer' = IF link[j] = "up" THEN [answer EXCEPT ![j] = Append(@, x)] ELSE answer,
             UNCHANGED <<link, request, ready, sent, content, updatefile, handle, local>>
      PROVE  Conversation(k)'
  <2>1. CASE j = k
    <3>1. answer'[k] = Append(answer[k], x)
      BY <1>9, <2>1 DEF Types, Wired
    <3> QED  BY <1>0, <1>9, <3>1, MoreConversation
  <2>2. CASE j # k
    <3>1. answer'[k] = answer[k]
      BY <1>9, <2>2
    <3> QED  BY <1>0, <1>9, <3>1, SameConversation
  <2> QED  BY <2>1, <2>2
<1>10. ASSUME NEW j \in Links, MsgSendBody(j) \/ TaskCommand(j) PROVE Conversation(k)'
  BY <1>9, <1>10 DEF MsgSendBody, TaskCommand
<1>11. ASSUME NEW j \in Links, StressConnectionClosed(j) PROVE Conversation(k)'
  <2>1. link[k] = "up" /\ j # k
    BY <1>11 DEF StressConnectionClosed
  <2> QED  BY <1>0, <1>11, <2>1, SameConversation DEF StressConnectionClosed, Types, Wired
<1>12. ASSUME NEW f \in Files, FileChanges(f) PROVE Conversation(k)'
  <2>1. link[k] = "up"
    BY <1>12 DEF FileChanges
  <2> QED  BY <1>0, <1>12, <2>1, FileConversation
<1>13. CASE UNCHANGED vars
  BY <1>1, <1>13 DEF vars
<1> QED  BY <1>2, <1>3, <1>4, <1>5, <1>6, <1>7, <1>8, <1>10, <1>11, <1>12, <1>13 DEF Next

\* Every step keeps the invariant of ReadyHasFiles.
LEMMA SyncStep == Types /\ OneLink /\ Sync /\ [Next]_vars => Sync'
BY ListStep, FreshStep, ConversationStep DEF Sync

\* An agent that is READY has every file as its list named it, but for chunks a full
\* disk did not take, for any files and
\* any number of connections lost, tasks' commands and restarts: nothing but the answer
\* to its last request is under way, its files are asked for chunk by chunk in order,
\* and it reports only when none is left, so that no answer of an earlier
\* synchronisation and no chunk of another version is taken for one that was asked for.
THEOREM ReadyHasFilesHolds == Spec => []ReadyHasFiles
<1>1. Sync => ReadyHasFiles
  <2> SUFFICES ASSUME Sync, NEW k \in Links, link[k] = "up", ready[k] = "READY"
               PROVE  \A f \in Files : content[f] = sent[k][f] => Holds(local[f], f, content[f])
    BY DEF ReadyHasFiles
  <2>1. Conversation(k)
    BY DEF Sync
  <2>2. Fetched(k)
    BY <2>1 DEF Conversation, Requested, Answered
  <2> QED  BY <2>2 DEF Fetched
<1> QED  BY TypeInit, TypeStep, HeldInit, HeldStep, SyncInit, SyncStep, <1>1, PTL DEF Spec
============================================================================
