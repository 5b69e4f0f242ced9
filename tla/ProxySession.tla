---------------------------- MODULE ProxySession ----------------------------
(***************************************************************************)
(* One session of the SOCKS5 proxy: the ServerProtocol object, its up to   *)
(* three sockets, and the threads of the reactor that serve them           *)
(* (ServerProxy.cpp, ServerProtocol.cpp, EpollReactor.cpp).                *)
(*                                                                         *)
(* A socket is armed for one event at a time.  The thread that gets the    *)
(* event reads, waits for the lock of the object, runs the callback, lets  *)
(* the lock go and arms the socket again; nothing but an event of this     *)
(* socket tells the callback's end from the arming, and they are one step. *)
(* The byte do_read clears after arming is a step of its own.              *)
(*                                                                         *)
(* Left out: what the messages say, peers that are consoles or agents, and *)
(* the failure of a malloc.  A UDP socket that is "fin" has received the   *)
(* empty datagram that do_read_udp takes for the end.                      *)
(***************************************************************************)
EXTENDS Integers, Sequences, FiniteSets

CONSTANTS MaxSocks,   \* sockets the session may open; then no descriptor is left
          MaxData,    \* messages all peers send together
          Retry,      \* connects tried again, 3 in the code
          Faults      \* a socket may be refused for want of a descriptor

ASSUME SockAssumption == MaxSocks \in Nat /\ MaxSocks > 1
ASSUME BoundAssumption == MaxData \in Nat /\ Retry \in Nat /\ Faults \in BOOLEAN

VARIABLES
    peerType, initSock, proxySock, udpClientSock, proxyStat, proxytype, retry,
    sockCount,
    deleted,        \* the object is freed
    ProxyMap,       \* its keys: the sockets of the clients being relayed
    sock,           \* the sockets and the threads that serve them
    budget,         \* messages the peers may still send
    records,        \* session records (types 0 and 2) recorded
    Proxy_record,
    stuck,          \* a thread repeats a send for ever, with the lock held
    crashed         \* the process is gone

info == <<peerType, proxyStat, proxytype, retry>>
pointers == <<initSock, proxySock, udpClientSock>>
books == <<ProxyMap, records, Proxy_record>>
vars == <<info, pointers, sockCount, deleted, books, sock, budget, stuck, crashed>>

Socks == 1..MaxSocks
NULL  == 0

\* Where the thread serving a socket stands.  Waiting for the lock of the object:
Waiting == {"made", "recv", "close"}
\* close callback run ("last": it was the last socket), released:
Past == {"none", "gone", "last", "freed"}
SockType == [pc : {"idle"} \cup Waiting \cup Past,
             _epoll_type : {"CONNECT", "READ"},
             udp : BOOLEAN,
             link : {"connecting", "open", "fin", "reset"},   \* as the kernel sees it
             in : BOOLEAN,           \* there is something to receive
             shut : BOOLEAN,         \* shut down for reading
             armed : BOOLEAN,
             locked : BOOLEAN]       \* _recv_buf.lock_flag still set by do_read

Blank == [pc |-> "none", _epoll_type |-> "READ", udp |-> FALSE, link |-> "open",
          in |-> FALSE, shut |-> FALSE, armed |-> FALSE, locked |-> FALSE]

\* Sockets whose close has not reached the object.
Open == {s \in Socks : sock[s].pc \notin Past}

Init ==
    /\ peerType = "UNKNOWN" /\ proxyStat = "INIT" /\ proxytype = "TCP" /\ retry = Retry
    /\ initSock = NULL /\ proxySock = NULL /\ udpClientSock = NULL
    /\ sockCount = 0 /\ deleted = FALSE /\ ProxyMap = {}
    /\ sock = [s \in Socks |-> Blank]
    /\ budget = MaxData
    /\ records = <<>> /\ Proxy_record \in BOOLEAN
    /\ stuck = FALSE /\ crashed = FALSE

-----------------------------------------------------------------------------
\* What the calls of the reactor do to the sockets f

\* The end of a handler: the socket is armed again, for reading.
Rearm(f, s) == [f EXCEPT ![s].pc = "idle", ![s].armed = TRUE, ![s]._epoll_type = "READ"]

\* do_read arms first and clears the flag last.
RearmRead(f, s) ==
    [f EXCEPT ![s].pc = "idle", ![s].armed = TRUE, ![s]._epoll_type = "READ", ![s].locked = TRUE]

\* shutdown(SHUT_RD) gives up a connect under way; NULL is nobody.
HsocketClose(f, S) ==
    [s \in Socks |-> IF s \in S
                     THEN [f[s] EXCEPT !.shut = TRUE,
                                       !.link = IF @ = "connecting" THEN "reset" ELSE @]
                     ELSE f[s]]

\* The allocation takes the next unused socket.
Fresh(s) == sock[s].pc = "none" /\ \A t \in Socks : t < s => sock[t].pc # "none"
NoneLeft == Faults \/ \A s \in Socks : sock[s].pc # "none"

EpollConnectExTCP(f, s) ==
    [f EXCEPT ![s] = [Blank EXCEPT !.pc = "idle", !.armed = TRUE,
                                   !._epoll_type = "CONNECT", !.link = "connecting"]]

EpollConnectExUDP(f, s) ==
    [f EXCEPT ![s] = [Blank EXCEPT !.pc = "idle", !.armed = TRUE, !.udp = TRUE]]

\* A send on a TCP connection that is reset never returns.
Spins(s) == s # NULL /\ ~sock[s].udp /\ sock[s].link = "reset"

-----------------------------------------------------------------------------
\* The peers and the network

PeerSends(s) ==
    /\ sock[s].pc \notin Past /\ sock[s].link = "open" /\ ~sock[s].in /\ budget > 0
    /\ sock' = [sock EXCEPT ![s].in = TRUE]
    /\ budget' = budget - 1

PeerCloses(s) ==
    /\ sock[s].pc \notin Past /\ sock[s].link = "open"
    /\ sock' = [sock EXCEPT ![s].link = "fin"]
    /\ UNCHANGED budget

PeerResets(s) ==
    /\ sock[s].pc \notin Past /\ sock[s].link \in {"open", "fin"} /\ ~sock[s].udp
    /\ sock' = [sock EXCEPT ![s].link = "reset"]
    /\ UNCHANGED budget

\* A connect is accepted, or refused or timed out.
PeerAnswers(s) ==
    /\ sock[s].pc \notin Past /\ sock[s].link = "connecting"
    /\ \E l \in {"open", "reset"} : sock' = [sock EXCEPT ![s].link = l]
    /\ UNCHANGED budget

Peer(s) ==
    /\ PeerSends(s) \/ PeerCloses(s) \/ PeerResets(s) \/ PeerAnswers(s)
    /\ UNCHANGED <<info, pointers, sockCount, deleted, books, stuck, crashed>>

-----------------------------------------------------------------------------
\* The threads, up to the lock of the object

\* The object is made for the connection; the callback of a new one keeps it.
do_accpet ==
    /\ peerType = "UNKNOWN" /\ sock[1].pc = "none"
    /\ sock' = Rearm(sock, 1)
    /\ sockCount' = sockCount + 1
    /\ initSock' = 1
    /\ UNCHANGED <<info, proxySock, udpClientSock, deleted, books, budget, stuck, crashed>>

Triggered(s) == sock[s].pc = "idle" /\ sock[s].armed

Serve(s, pc) == sock' = [sock EXCEPT ![s].pc = pc, ![s].armed = FALSE]

\* An event other than EPOLLIN or EPOLLOUT: the connection is reset or never came.
HangUp(s) ==
    /\ Triggered(s) /\ sock[s].link = "reset"
    /\ Serve(s, "close")

check_connect_events(s) ==
    /\ Triggered(s) /\ sock[s]._epoll_type = "CONNECT" /\ sock[s].link \in {"open", "fin"}
    /\ Serve(s, "made")

Readable(s) ==
    /\ Triggered(s) /\ sock[s]._epoll_type = "READ" /\ sock[s].link # "reset"
    /\ sock[s].in \/ sock[s].link = "fin" \/ sock[s].shut

\* The flag of the thread before is still up: this one returns, and the socket
\* stays disarmed.
EventDropped(s) ==
    /\ Readable(s) /\ sock[s].locked
    /\ sock' = [sock EXCEPT ![s].armed = FALSE]

\* The bytes, or the end.
do_read(s) ==
    /\ Readable(s) /\ ~sock[s].locked
    /\ sock' = [sock EXCEPT ![s].pc = IF sock[s].in THEN "recv" ELSE "close",
                            ![s].in = FALSE, ![s].armed = FALSE]

Event(s) ==
    /\ HangUp(s) \/ check_connect_events(s) \/ EventDropped(s) \/ do_read(s)
    /\ UNCHANGED <<info, pointers, sockCount, deleted, books, budget, stuck, crashed>>

\* The thread of the event before clears the flag, of a socket that may be freed.
ClearFlag(s) ==
    /\ sock[s].locked
    /\ sock' = [sock EXCEPT ![s].locked = FALSE]
    /\ IF sock[s].pc = "freed" THEN crashed' \in BOOLEAN ELSE UNCHANGED crashed
    /\ UNCHANGED <<info, pointers, sockCount, deleted, books, budget, stuck>>

-----------------------------------------------------------------------------
\* The callbacks, with the lock of the object

Callback(s, pc) == sock[s].pc = pc /\ ~stuck

Recorded(t) == records' = IF Proxy_record THEN Append(records, t) ELSE records

\* The proxy is connected and its sockets are f, then g: the client is told and
\* listed, without a look at whether its end of the session is still there.
ProxyConnectionMade(f, g, type) ==
    \/ /\ initSock = NULL
       /\ crashed' = TRUE
       /\ UNCHANGED <<proxyStat, ProxyMap, records, sock, stuck>>
    \/ /\ Spins(initSock)
       /\ proxyStat' = "CONNECTED" /\ stuck' = TRUE
       /\ sock' = f
       /\ UNCHANGED <<ProxyMap, records, crashed>>
    \/ /\ initSock # NULL /\ ~Spins(initSock)
       /\ proxyStat' = "CONNECTED"
       /\ ProxyMap' = ProxyMap \cup {initSock}
       /\ IF type = "TCP" THEN Recorded(0) ELSE UNCHANGED records
       /\ sock' = g
       /\ UNCHANGED <<stuck, crashed>>

ConnectionMade(s) ==
    /\ Callback(s, "made") /\ proxyStat = "CONNECTING"
    /\ ProxyConnectionMade(sock, Rearm(sock, s), "TCP")
    /\ UNCHANGED <<peerType, proxytype, retry, pointers, sockCount, deleted, Proxy_record, budget>>

FromClient(s) == Callback(s, "recv") /\ s = initSock

\* The first byte is no peer's: every message after it closes the socket again.
CheckRequest(s) ==
    /\ FromClient(s) /\ peerType \in {"UNKNOWN", "UNDEFINE"}
    /\ peerType' = "UNDEFINE"
    /\ sock' = HsocketClose(RearmRead(sock, s), {s})
    /\ UNCHANGED <<proxyStat, proxytype, retry, pointers, sockCount, deleted, books, budget, stuck, crashed>>

\* A request that is not complete, or came while connecting, stays in the buffer.
CheckPoxyRequest(s) ==
    /\ FromClient(s) /\ peerType # "UNDEFINE" /\ proxyStat # "CONNECTED"
    /\ peerType' = "PROXY"
    /\ sock' = RearmRead(sock, s)
    /\ UNCHANGED <<proxyStat, proxytype, retry, pointers, sockCount, deleted, books, budget, stuck, crashed>>

\* The end of a callback of s that sends to t.
SendTo(t, s) ==
    /\ stuck' = Spins(t)
    /\ sock' = IF Spins(t) THEN sock ELSE RearmRead(sock, s)

ProxyAuthRequest(s) ==
    /\ FromClient(s) /\ peerType # "UNDEFINE" /\ proxyStat = "INIT"
    /\ peerType' = "PROXY" /\ proxyStat' = "AUTHED"
    /\ SendTo(s, s)
    /\ UNCHANGED <<proxytype, retry, pointers, sockCount, deleted, books, budget, crashed>>

ProxyConnectRequest(s) ==
    /\ FromClient(s) /\ proxyStat = "AUTHED"
    /\ proxyStat' = "CONNECTING" /\ proxytype' = "TCP"
    /\ \/ \E n \in Socks :
             /\ Fresh(n)
             /\ proxySock' = n /\ sockCount' = sockCount + 1
             /\ sock' = RearmRead(EpollConnectExTCP(sock, n), s)
       \/ /\ NoneLeft
          /\ sock' = HsocketClose(RearmRead(sock, s), {s})
          /\ UNCHANGED <<proxySock, sockCount>>
    /\ UNCHANGED <<peerType, retry, initSock, udpClientSock, deleted, books, budget, stuck, crashed>>

\* A UDP session listens for its client; a socket that is refused is used all the same.
ProxyConnectRequestUDP(s) ==
    /\ FromClient(s) /\ proxyStat = "AUTHED"
    /\ proxytype' = "UDP"
    /\ \/ \E n \in Socks :
             /\ Fresh(n)
             /\ udpClientSock' = n /\ sockCount' = sockCount + 1
             /\ LET f == EpollConnectExUDP(sock, n)
                IN  ProxyConnectionMade(f, RearmRead(f, s), "UDP")
       \/ /\ NoneLeft
          /\ crashed' = TRUE
          /\ UNCHANGED <<proxyStat, udpClientSock, sockCount, ProxyMap, records, sock, stuck>>
    /\ UNCHANGED <<peerType, retry, initSock, proxySock, deleted, Proxy_record, budget>>

ProxyRemoteRequest(s) ==
    /\ FromClient(s) /\ proxyStat = "CONNECTED"
    /\ SendTo(proxySock, s)
    /\ UNCHANGED <<info, pointers, sockCount, deleted, books, budget, crashed>>

FromProxy(s) ==
    /\ Callback(s, "recv") /\ s = proxySock
    /\ SendTo(IF proxytype = "TCP" THEN initSock ELSE udpClientSock, s)
    /\ UNCHANGED <<info, pointers, sockCount, deleted, books, budget, crashed>>

\* The first datagram opens the socket to its server; of a socket that is not bound
\* EpollConnectExUDP and HsocketConnect both release the memory.
FromUdpClient(s) ==
    /\ Callback(s, "recv") /\ s = udpClientSock
    /\ \/ \E n \in Socks :
             /\ proxySock = NULL /\ Fresh(n)
             /\ proxySock' = n /\ sockCount' = sockCount + 1
             /\ sock' = RearmRead(EpollConnectExUDP(sock, n), s)
             /\ UNCHANGED crashed
       \/ /\ proxySock # NULL \/ NoneLeft
          /\ sock' = RearmRead(sock, s)
          /\ IF proxySock = NULL THEN crashed' \in BOOLEAN ELSE UNCHANGED crashed
          /\ UNCHANGED <<proxySock, sockCount>>
    /\ UNCHANGED <<info, initSock, udpClientSock, deleted, books, budget, stuck>>

-----------------------------------------------------------------------------
\* do_close: the count and the callback, with the lock

\* Mutant: the object goes with the socket of its client.
Leave_Client(f, s) == [f EXCEPT ![s].pc = IF s = initSock THEN "last" ELSE "gone"]

\* The thread keeps whether it counted the last socket.
Leave(f, s) == [f EXCEPT ![s].pc = IF sockCount = 1 THEN "last" ELSE "gone"]

Closing(s, type) == Callback(s, "close") /\ sock[s]._epoll_type = type

\* Mutant: the socket of the new attempt is not counted.
ProxyConnectionFailed_Uncounted(s) ==
    /\ Closing(s, "CONNECT")
    /\ proxyStat = "CONNECTING" /\ initSock # NULL /\ retry > 0
    /\ retry' = retry - 1
    /\ \E n \in Socks :
          /\ Fresh(n)
          /\ proxySock' = n /\ sockCount' = sockCount - 1
          /\ sock' = Leave(EpollConnectExTCP(sock, n), s)
    /\ UNCHANGED <<peerType, proxyStat, proxytype, initSock, udpClientSock, deleted, books, budget, stuck, crashed>>

\* The connect is tried again while the client is there and retry lasts.
ProxyConnectionFailed(s) ==
    /\ Closing(s, "CONNECT")
    /\ proxyStat = "CONNECTING" /\ initSock # NULL /\ retry > 0
    /\ retry' = retry - 1
    /\ \/ \E n \in Socks :
             /\ Fresh(n) /\ sockCount > 1
             /\ proxySock' = n /\ UNCHANGED sockCount
             /\ sock' = Leave(EpollConnectExTCP(sock, n), s)
       \/ /\ NoneLeft \/ sockCount = 1
          /\ proxySock' = NULL /\ sockCount' = sockCount - 1
          /\ sock' = HsocketClose(Leave(sock, s), {initSock})
    /\ UNCHANGED <<peerType, proxyStat, proxytype, initSock, udpClientSock, deleted, books, budget, stuck, crashed>>

\* Mutant: the client is not told.
ProxyGivesUp_Silent(s) ==
    /\ Closing(s, "CONNECT")
    /\ proxyStat # "CONNECTING" \/ initSock = NULL \/ retry = 0
    /\ sockCount' = sockCount - 1
    /\ proxySock' = NULL
    /\ sock' = Leave(sock, s)
    /\ UNCHANGED <<info, initSock, udpClientSock, deleted, books, budget, stuck, crashed>>

ProxyGivesUp(s) ==
    /\ Closing(s, "CONNECT")
    /\ proxyStat # "CONNECTING" \/ initSock = NULL \/ retry = 0
    /\ sockCount' = sockCount - 1
    /\ proxySock' = NULL
    /\ sock' = HsocketClose(Leave(sock, s), {initSock})
    /\ UNCHANGED <<info, initSock, udpClientSock, deleted, books, budget, stuck, crashed>>

\* Mutant: each socket records an end.
EndRecorded_Each ==
    IF proxyStat = "CONNECTED" /\ proxytype = "TCP" THEN Recorded(2) ELSE UNCHANGED records

\* The end of the session is recorded by the last of its sockets.
EndRecorded ==
    IF initSock' = NULL /\ proxySock' = NULL /\ udpClientSock' = NULL
       /\ proxyStat = "CONNECTED" /\ proxytype = "TCP"
    THEN Recorded(2) ELSE UNCHANGED records

ProxyClosed(s) ==
    /\ s = proxySock /\ proxySock' = NULL
    /\ sock' = HsocketClose(Leave(sock, s), {initSock, udpClientSock})
    /\ UNCHANGED <<initSock, udpClientSock, ProxyMap>>

\* Mutant: the other end is left open.
ClientClosed_Leaves(s) ==
    /\ s = initSock /\ initSock' = NULL
    /\ ProxyMap' = ProxyMap \ {s}
    /\ sock' = HsocketClose(Leave(sock, s), {udpClientSock})
    /\ UNCHANGED <<proxySock, udpClientSock>>

ClientClosed(s) ==
    /\ s = initSock /\ initSock' = NULL
    /\ ProxyMap' = ProxyMap \ {s}
    /\ sock' = HsocketClose(Leave(sock, s), {proxySock, udpClientSock})
    /\ UNCHANGED <<proxySock, udpClientSock>>

UdpClientClosed(s) ==
    /\ s = udpClientSock /\ udpClientSock' = NULL
    /\ sock' = HsocketClose(Leave(sock, s), {initSock, proxySock})
    /\ UNCHANGED <<initSock, proxySock, ProxyMap>>

ProxyConnectionClosed(s) ==
    /\ Closing(s, "READ") /\ peerType = "PROXY"
    /\ sockCount' = sockCount - 1
    /\ ProxyClosed(s) \/ ClientClosed(s) \/ UdpClientClosed(s)
    /\ EndRecorded
    /\ UNCHANGED <<info, deleted, Proxy_record, budget, stuck, crashed>>

\* Of a peer that never was a proxy's client.
ConnectionClosed(s) ==
    /\ Closing(s, "READ") /\ peerType # "PROXY"
    /\ sockCount' = sockCount - 1
    /\ initSock' = IF peerType = "UNKNOWN" THEN NULL ELSE initSock
    /\ sock' = Leave(sock, s)
    /\ UNCHANGED <<info, proxySock, udpClientSock, deleted, books, budget, stuck, crashed>>

\* do_close, without the lock: the socket is freed, and the object after the last.
do_close(s) ==
    /\ sock[s].pc \in {"gone", "last"}
    /\ sock' = [sock EXCEPT ![s] = [Blank EXCEPT !.pc = "freed", !.locked = sock[s].locked]]
    /\ deleted' = (deleted \/ sock[s].pc = "last")
    /\ UNCHANGED <<info, pointers, sockCount, books, budget, stuck, crashed>>

Step(s) ==
    \/ ConnectionMade(s)
    \/ CheckRequest(s) \/ CheckPoxyRequest(s) \/ ProxyAuthRequest(s)
    \/ ProxyConnectRequest(s) \/ ProxyConnectRequestUDP(s)
    \/ ProxyRemoteRequest(s) \/ FromProxy(s) \/ FromUdpClient(s)
    \/ ProxyConnectionFailed(s) \/ ProxyGivesUp(s)
    \/ ProxyConnectionClosed(s) \/ ConnectionClosed(s) \/ do_close(s)

\* The console turns the recording on or off.
Record ==
    /\ Proxy_record' = ~Proxy_record
    /\ UNCHANGED <<info, pointers, sockCount, deleted, ProxyMap, records, sock, budget, stuck, crashed>>

Next ==
    /\ ~crashed
    /\ \/ do_accpet \/ Record
       \/ \E s \in Socks : Peer(s) \/ Event(s) \/ ClearFlag(s) \/ Step(s)

Spec == Init /\ [][Next]_vars

\* Every worker thread goes on, and a connect is answered or times out.  The
\* peers need not send, close or reset anything.
Fairness ==
    \A s \in Socks :
       /\ WF_vars(~crashed /\ (Event(s) \/ Step(s)))
       /\ WF_vars(~crashed /\ ClearFlag(s))
       /\ WF_vars(~crashed /\ PeerAnswers(s) /\ Peer(s))

FairSpec == Spec /\ Fairness

-----------------------------------------------------------------------------
TypeOK ==
    /\ peerType \in {"UNKNOWN", "UNDEFINE", "PROXY"}
    /\ proxyStat \in {"INIT", "AUTHED", "CONNECTING", "CONNECTED"}
    /\ proxytype \in {"TCP", "UDP"}
    /\ retry \in 0..Retry
    /\ initSock \in Socks \cup {NULL} /\ proxySock \in Socks \cup {NULL}
    /\ udpClientSock \in Socks \cup {NULL}
    /\ sockCount \in 0..MaxSocks
    /\ ProxyMap \subseteq Socks
    /\ sock \in [Socks -> SockType]
    /\ budget \in 0..MaxData
    /\ records \in Seq({0, 2})
    /\ deleted \in BOOLEAN /\ Proxy_record \in BOOLEAN
    /\ stuck \in BOOLEAN /\ crashed \in BOOLEAN

\* The object counts exactly the sockets that have not been taken from it: the
\* count do_close deletes the object by is never ahead of a connect or behind it.
CountIsOpen == sockCount = Cardinality(Open)

\* The object's three pointers are exactly its open sockets: none of them is
\* freed, and no socket of the session is forgotten, with nobody left to close it.
PointersAreOpen ==
    peerType # "UNDEFINE" => {initSock, proxySock, udpClientSock} \ {NULL} = Open

\* The thread that counted the last socket, and deletes the object, is alone:
\* no other waits for the object's lock or will be given an event of it.
DeletedAlone ==
    \A s \in Socks : deleted \/ sock[s].pc = "last" =>
        \A t \in Socks \ {s} : sock[t].pc \in {"none", "gone", "freed"}

\* do_proxy_addr_list reads the object behind every entry of ProxyMap: an entry
\* stands for the client's open socket, so its object is there.
ListedIsAlive == \A s \in ProxyMap : s = initSock /\ s \in Open /\ ~deleted

\* The three records of which sockets a session has are right: the count that
\* decides its end, its pointers, and the map the console reads.
SocketsMatch == CountIsOpen /\ PointersAreOpen /\ ListedIsAlive

\* A session is recorded as opened and then as closed, each at most once, and as
\* closed only when none of its sockets is left.
RecordsPaired ==
    /\ records \in {<<>>, <<0>>, <<2>>, <<0, 2>>}
    /\ \A i \in DOMAIN records : records[i] = 2 => Open = {}

\* A socket that nobody serves or will be woken for.
Deaf(s) == sock[s].pc = "idle" /\ ~sock[s].armed

\* What the code lets go wrong for good: a send repeated for ever, a process
\* that is gone, an event dropped.
Broken == stuck \/ crashed \/ \E s \in Socks : Deaf(s)

\* When the client has closed or reset its connection, every socket of the
\* session is closed and the object is deleted, unless the code is broken.
SessionEnds == (\E s \in Socks : s = initSock /\ sock[s].link # "open") ~> (deleted \/ Broken)

\* A connect request is answered, or the client is closed, after at most Retry
\* more attempts, unless the code is broken.
RequestAnswered ==
    (proxyStat = "CONNECTING") ~> (proxyStat = "CONNECTED" \/ initSock = NULL \/ Broken)

\* EpollReactor.cpp, at the shutdown of HsocketClose: to close the descriptor at
\* once would raise no event, "so a shutdown is needed".  Of a process that has not
\* crashed or lost the lock of the object, it says that the event of the shutdown
\* comes: the socket is closed.
ShutdownIsNotified ==
    \A s \in Socks : sock[s].shut ~> (s \notin Open \/ stuck \/ crashed)
=============================================================================
