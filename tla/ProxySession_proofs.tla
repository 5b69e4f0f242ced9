------------------------ MODULE ProxySession_proofs ------------------------
(***************************************************************************)
(* Proofs about ProxySession, for every number of sockets and retries.     *)
(*                                                                         *)
(* The operators on the sockets change the threads (pc) and the events     *)
(* (_epoll_type) of a few sockets: EffectOf... say which.  Core, the       *)
(* inductive invariant, speaks of nothing else of the sockets.             *)
(***************************************************************************)
EXTENDS ProxySession, FiniteSetTheorems, TLAPS

Table == [Socks -> SockType]

\* f and g agree on threads and events outside S.
Agree(f, g, S) ==
    \A t \in Socks \ S : g[t].pc = f[t].pc /\ g[t]._epoll_type = f[t]._epoll_type

LEMMA BlankType ==
    /\ Blank \in SockType
    /\ [Blank EXCEPT !.pc = "idle", !.armed = TRUE, !._epoll_type = "CONNECT", !.link = "connecting"] \in SockType
    /\ [Blank EXCEPT !.pc = "idle", !.armed = TRUE, !.udp = TRUE] \in SockType
BY DEF Blank, SockType, Past, Waiting

LEMMA EffectOfRearm ==
    ASSUME NEW f \in Table, NEW s \in Socks
    PROVE  /\ Rearm(f, s) \in Table
           /\ Agree(f, Rearm(f, s), {s})
           /\ Rearm(f, s)[s].pc = "idle" /\ Rearm(f, s)[s]._epoll_type = "READ"
<1>1. f[s] \in SockType
  BY DEF Table
<1>2. [[[f[s] EXCEPT !.pc = "idle"] EXCEPT !.armed = TRUE] EXCEPT !._epoll_type = "READ"] \in SockType
  BY <1>1 DEF SockType
<1>3. Rearm(f, s) \in Table
  BY <1>2 DEF Rearm, Table
<1> QED  BY <1>1, <1>3 DEF Rearm, Agree, Table, SockType

LEMMA EffectOfRearmRead ==
    ASSUME NEW f \in Table, NEW s \in Socks
    PROVE  /\ RearmRead(f, s) \in Table
           /\ Agree(f, RearmRead(f, s), {s})
           /\ RearmRead(f, s)[s].pc = "idle" /\ RearmRead(f, s)[s]._epoll_type = "READ"
<1>1. f[s] \in SockType
  BY DEF Table
<1>2. [[[[f[s] EXCEPT !.pc = "idle"] EXCEPT !.armed = TRUE] EXCEPT !._epoll_type = "READ"]
         EXCEPT !.locked = TRUE] \in SockType
  BY <1>1 DEF SockType
<1>3. RearmRead(f, s) \in Table
  BY <1>2 DEF RearmRead, Table
<1> QED  BY <1>1, <1>3 DEF RearmRead, Agree, Table, SockType

LEMMA EffectOfClose ==
    ASSUME NEW f \in Table, NEW S
    PROVE  HsocketClose(f, S) \in Table /\ Agree(f, HsocketClose(f, S), {})
BY DEF HsocketClose, Agree, Table, SockType

LEMMA EffectOfConnectTCP ==
    ASSUME NEW f \in Table, NEW n \in Socks
    PROVE  /\ EpollConnectExTCP(f, n) \in Table
           /\ Agree(f, EpollConnectExTCP(f, n), {n})
           /\ EpollConnectExTCP(f, n)[n].pc = "idle"
BY BlankType DEF EpollConnectExTCP, Agree, Table, Blank

LEMMA EffectOfConnectUDP ==
    ASSUME NEW f \in Table, NEW n \in Socks
    PROVE  /\ EpollConnectExUDP(f, n) \in Table
           /\ Agree(f, EpollConnectExUDP(f, n), {n})
           /\ EpollConnectExUDP(f, n)[n].pc = "idle"
           /\ EpollConnectExUDP(f, n)[n]._epoll_type = "READ"
BY BlankType DEF EpollConnectExUDP, Agree, Table, Blank

LEMMA EffectOfLeave ==
    ASSUME NEW f \in Table, NEW s \in Socks
    PROVE  /\ Leave(f, s) \in Table
           /\ Agree(f, Leave(f, s), {s})
           /\ Leave(f, s)[s].pc = IF sockCount = 1 THEN "last" ELSE "gone"
BY DEF Leave, Agree, Table, SockType, Past

-----------------------------------------------------------------------------
\* The inductive invariant.

\* TypeOK, but for the bound of sockCount, which follows from CountIsOpen.
Types ==
    /\ peerType \in {"UNKNOWN", "UNDEFINE", "PROXY"}
    /\ proxyStat \in {"INIT", "AUTHED", "CONNECTING", "CONNECTED"}
    /\ proxytype \in {"TCP", "UDP"}
    /\ retry \in 0..Retry
    /\ initSock \in Socks \cup {NULL} /\ proxySock \in Socks \cup {NULL}
    /\ udpClientSock \in Socks \cup {NULL}
    /\ sockCount \in Int
    /\ ProxyMap \subseteq Socks
    /\ sock \in Table
    /\ budget \in 0..MaxData
    /\ records \in Seq({0, 2})
    /\ deleted \in BOOLEAN /\ Proxy_record \in BOOLEAN
    /\ stuck \in BOOLEAN /\ crashed \in BOOLEAN

Pointers == {initSock, proxySock, udpClientSock} \ {NULL}

\* An open socket is pointed to; a peer that is dropped keeps a dead pointer.
Roles ==
    /\ Open \subseteq Pointers
    /\ peerType # "UNDEFINE" => Pointers \subseteq Open

Distinct ==
    /\ initSock # NULL => initSock # proxySock /\ initSock # udpClientSock
    /\ proxySock # NULL => proxySock # udpClientSock

Stages ==
    /\ peerType # "PROXY" => proxyStat = "INIT"
    /\ proxyStat \in {"INIT", "AUTHED"} => proxySock = NULL /\ udpClientSock = NULL

ConnectIsProxy == \A s \in Open : sock[s]._epoll_type = "CONNECT" => s = proxySock

\* The first socket is the first to be used.
Begun == sock[1].pc = "none" => ~deleted /\ \A s \in Socks : sock[s].pc = "none"

Alone ==
    /\ deleted => \A s \in Socks : sock[s].pc \in {"none", "gone", "freed"}
    /\ \A s \in Socks : sock[s].pc = "last" =>
          \A t \in Socks \ {s} : sock[t].pc \in {"none", "gone", "freed"}

Core == Roles /\ Distinct /\ Stages /\ ConnectIsProxy /\ Begun /\ Alone /\ CountIsOpen

-----------------------------------------------------------------------------
\* The sockets are finite, and so counted one by one.

LEMMA OneIsSock == 1 \in Socks /\ NULL \notin Socks
BY SockAssumption DEF Socks, NULL

LEMMA OpenFinite ==
    /\ IsFiniteSet(Open) /\ Open \subseteq Socks
    /\ Cardinality(Open) \in 0..MaxSocks
<1>1. IsFiniteSet(Socks) /\ Cardinality(Socks) = MaxSocks
  BY SockAssumption, FS_Interval DEF Socks
<1>2. Open \in SUBSET Socks
  BY DEF Open
<1>3. IsFiniteSet(Open) /\ Cardinality(Open) <= MaxSocks
  BY <1>1, <1>2, FS_Subset
<1>4. Cardinality(Open) \in Nat
  BY <1>3, FS_CardinalityType
<1> QED  BY <1>2, <1>3, <1>4, SockAssumption

\* An open socket is counted; the only one when the count is 1.
LEMMA CountOfOne ==
    ASSUME CountIsOpen, NEW s \in Open
    PROVE  sockCount >= 1 /\ (sockCount = 1 => Open = {s})
<1>1. IsFiniteSet(Open) /\ sockCount \in Nat
  BY OpenFinite, SockAssumption DEF CountIsOpen
<1>2. sockCount # 0
  BY <1>1, FS_EmptySet DEF CountIsOpen
<1>3. sockCount = 1 => \E x : Open = {x}
  BY <1>1, FS_Singleton DEF CountIsOpen
<1> QED  BY <1>1, <1>2, <1>3

-----------------------------------------------------------------------------
\* The four ways in which a step changes what Core speaks of.

\* It opens and closes nothing.
LEMMA StepSame ==
    ASSUME Core, Open' = Open, sock[1].pc # "none",
           \A t \in Socks \ Open : sock'[t].pc = sock[t].pc,
           UNCHANGED <<pointers, sockCount, deleted>>,
           peerType = "UNDEFINE" => peerType' = "UNDEFINE",
           ConnectIsProxy', Stages'
    PROVE  Core'
<1>1. Roles' /\ Distinct' /\ CountIsOpen'
  BY DEF Core, Roles, Pointers, pointers, Distinct, CountIsOpen
<1>2. \A t \in Socks : t \in Open <=> sock'[t].pc \notin Past
  BY DEF Open
<1>3. Begun'
  BY <1>2, OneIsSock DEF Open, Begun, Past
<1>4. \A t \in Open : sock[t].pc \notin Past
  BY DEF Open
<1>5. Alone'
  <2>1. \A t \in Open : ~deleted /\ \A s \in Socks : sock[s].pc # "last"
    BY <1>4 DEF Core, Alone, Past, Open
  <2> QED  BY <2>1, <1>2 DEF Core, Alone, Past
<1> QED  BY <1>1, <1>3, <1>5 DEF Core

\* It opens n.
LEMMA StepGrow ==
    ASSUME Core, NEW n \in Socks, sock[n].pc = "none", Open # {},
           Open' = Open \cup {n}, Pointers' = Pointers \cup {n},
           \A t \in Socks \ (Open \cup {n}) : sock'[t].pc = sock[t].pc,
           sockCount' = sockCount + 1, UNCHANGED deleted,
           peerType = "UNDEFINE" => peerType' = "UNDEFINE",
           Distinct', ConnectIsProxy', Stages'
    PROVE  Core'
<1>1. Roles'
  BY DEF Core, Roles
<1>2. n \notin Open
  BY DEF Open, Past
<1>3. CountIsOpen'
  BY <1>2, OpenFinite, FS_AddElement DEF Core, CountIsOpen
<1>4. ~deleted /\ sock[1].pc # "none" /\ \A s \in Socks : sock[s].pc # "last"
  BY OneIsSock DEF Core, Alone, Begun, Open, Past
<1>5. \A t \in Socks : t \in Open \cup {n} <=> sock'[t].pc \notin Past
  BY DEF Open
<1>6. Begun' /\ Alone'
  BY <1>4, <1>5, OneIsSock DEF Begun, Alone, Past
<1> QED  BY <1>1, <1>3, <1>6 DEF Core

\* It closes s.
LEMMA StepShrink ==
    ASSUME Core, NEW s \in Open,
           Open' = Open \ {s}, Roles',
           sock'[s].pc = IF sockCount = 1 THEN "last" ELSE "gone",
           \A t \in Socks \ Open : sock'[t].pc = sock[t].pc,
           sockCount' = sockCount - 1, UNCHANGED deleted,
           Distinct', ConnectIsProxy', Stages'
    PROVE  Core'
<1>1. CountIsOpen'
  BY OpenFinite, FS_RemoveElement DEF Core, CountIsOpen
<1>2. ~deleted /\ sock[1].pc # "none" /\ \A t \in Socks : sock[t].pc # "last"
  BY OneIsSock DEF Core, Alone, Begun, Open, Past
<1>3. sockCount = 1 => Open = {s}
  BY CountOfOne DEF Core
<1>4. \A t \in Socks : t \in Open \ {s} <=> sock'[t].pc \notin Past
  BY DEF Open
<1>5. Begun'
  <2>1. sock'[1].pc # "none"
    BY <1>2, <1>4, OneIsSock DEF Past
  <2> QED  BY <2>1 DEF Begun
<1>6. ~deleted'
  BY <1>2
<1>7. \A t \in Socks : sock'[t].pc = "last" => t = s /\ Open = {s}
  BY <1>2, <1>3, <1>4 DEF Past
<1>8. Open = {s} => \A t \in Socks \ {s} : sock'[t].pc \in {"none", "gone", "freed"}
  <2>1. \A t \in Socks \ Open : sock[t].pc \in {"none", "gone", "freed"}
    BY <1>2 DEF Open, Past
  <2> QED  BY <2>1
<1>9. Alone'
  BY <1>6, <1>7, <1>8 DEF Alone
<1> QED  BY <1>1, <1>5, <1>9 DEF Core

\* It closes s and opens n.
LEMMA StepSwap ==
    ASSUME Core, NEW s \in Open, NEW n \in Socks, sock[n].pc = "none",
           Open' = (Open \ {s}) \cup {n}, Roles',
           sock'[s].pc = "gone",
           \A t \in Socks \ (Open \cup {n}) : sock'[t].pc = sock[t].pc,
           UNCHANGED <<sockCount, deleted>>,
           Distinct', ConnectIsProxy', Stages'
    PROVE  Core'
<1>1. n \notin Open
  BY DEF Open, Past
<1>2. CountIsOpen'
  <2>1. /\ IsFiniteSet(Open \ {s}) /\ Cardinality(Open \ {s}) = Cardinality(Open) - 1
        /\ Cardinality((Open \ {s}) \cup {n}) = Cardinality(Open \ {s}) + 1
    BY <1>1, OpenFinite, FS_RemoveElement, FS_AddElement
  <2> QED  BY <2>1, OpenFinite, SockAssumption DEF Core, CountIsOpen
<1>3. ~deleted /\ sock[1].pc # "none" /\ \A t \in Socks : sock[t].pc # "last"
  BY OneIsSock DEF Core, Alone, Begun, Open, Past
<1>4. \A t \in Socks : t \in Open' <=> sock'[t].pc \notin Past
  BY DEF Open
<1>5. Begun' /\ Alone'
  BY <1>3, <1>4, OneIsSock DEF Begun, Alone, Past
<1> QED  BY <1>2, <1>5 DEF Core

-----------------------------------------------------------------------------
\* What the actions have in common.

LEMMA AgreeTwice ==
    ASSUME NEW f, NEW g, NEW h, NEW S, NEW T, Agree(f, g, S), Agree(g, h, T)
    PROVE  Agree(f, h, S \cup T)
BY DEF Agree

\* A callback runs for an open socket.
LEMMA ServedIsOpen ==
    ASSUME Core, NEW s \in Socks, sock[s].pc \in Waiting \cup {"idle"}
    PROVE  s \in Open /\ sock[1].pc # "none"
BY OneIsSock DEF Core, Begun, Open, Waiting, Past

\* A step that touches the threads of open sockets only, and closes none.
LEMMA ServeKeeps ==
    ASSUME NEW S \in SUBSET Open, Agree(sock, sock', S),
           \A s \in S : sock'[s].pc \notin Past /\ sock'[s]._epoll_type \in {"READ", sock[s]._epoll_type}
    PROVE  /\ Open' = Open
           /\ \A t \in Socks \ Open : sock'[t].pc = sock[t].pc
           /\ ConnectIsProxy /\ UNCHANGED proxySock => ConnectIsProxy'
<1>1. \A t \in Socks : sock'[t].pc \in Past <=> sock[t].pc \in Past
  BY DEF Agree, Open
<1>2. Open' = Open
  BY <1>1 DEF Open
<1>3. \A t \in Socks \ Open : sock'[t].pc = sock[t].pc
  BY DEF Agree
<1>4. \A t \in Open : sock'[t]._epoll_type = "CONNECT" => sock[t]._epoll_type = "CONNECT"
  BY DEF Agree, Open
<1> QED  BY <1>2, <1>3, <1>4 DEF ConnectIsProxy

LEMMA EffectOfSendTo ==
    ASSUME sock \in Table, NEW s \in Socks, NEW t, SendTo(t, s), sock[s].pc \notin Past
    PROVE  /\ sock' \in Table /\ Agree(sock, sock', {s})
           /\ sock'[s].pc \notin Past /\ sock'[s]._epoll_type \in {"READ", sock[s]._epoll_type}
<1>1. CASE Spins(t)
  BY <1>1 DEF SendTo, Agree
<1>2. CASE ~Spins(t)
  BY <1>2, EffectOfRearmRead DEF SendTo, Past
<1> QED  BY <1>1, <1>2

LEMMA EffectOfPeer ==
    ASSUME sock \in Table, NEW s \in Socks, Peer(s)
    PROVE  sock' \in Table /\ Agree(sock, sock', {})
<1>1. sock[s] \in SockType
  BY DEF Table
<1>2. CASE PeerSends(s)
  BY <1>1, <1>2 DEF PeerSends, Table, SockType, Agree
<1>3. CASE PeerCloses(s)
  BY <1>1, <1>3 DEF PeerCloses, Table, SockType, Agree
<1>4. CASE PeerResets(s)
  BY <1>1, <1>4 DEF PeerResets, Table, SockType, Agree
<1>5. CASE PeerAnswers(s)
  <2> PICK l \in {"open", "reset"} : sock' = [sock EXCEPT ![s].link = l]
    BY <1>5 DEF PeerAnswers
  <2> QED  BY <1>1 DEF Table, SockType, Agree
<1> QED  BY <1>2, <1>3, <1>4, <1>5 DEF Peer

LEMMA EffectOfEvent ==
    ASSUME sock \in Table, NEW s \in Socks, Event(s)
    PROVE  /\ sock' \in Table /\ Agree(sock, sock', {s})
           /\ sock[s].pc = "idle"
           /\ sock'[s].pc \notin Past /\ sock'[s]._epoll_type = sock[s]._epoll_type
<1>1. sock[s] \in SockType
  BY DEF Table
<1>2. sock[s].pc = "idle"
  BY DEF Event, HangUp, check_connect_events, EventDropped, do_read, Readable, Triggered
<1>3. \A pc \in Waiting : [[sock[s] EXCEPT !.pc = pc] EXCEPT !.armed = FALSE] \in SockType
  BY <1>1 DEF SockType
<1>4. \A pc \in Waiting : Serve(s, pc) =>
        /\ sock' \in Table /\ Agree(sock, sock', {s})
        /\ sock'[s].pc = pc /\ sock'[s]._epoll_type = sock[s]._epoll_type
  <2> SUFFICES ASSUME NEW pc \in Waiting, Serve(s, pc)
               PROVE  /\ sock' \in Table /\ Agree(sock, sock', {s})
                      /\ sock'[s].pc = pc /\ sock'[s]._epoll_type = sock[s]._epoll_type
    OBVIOUS
  <2>1. sock' = [sock EXCEPT ![s] = [[sock[s] EXCEPT !.pc = pc] EXCEPT !.armed = FALSE]]
    BY DEF Serve, Table
  <2> QED  BY <1>1, <1>3, <2>1 DEF Table, SockType, Agree
<1>5. CASE HangUp(s)
  BY <1>2, <1>4, <1>5 DEF HangUp, Waiting, Past
<1>6. CASE check_connect_events(s)
  BY <1>2, <1>4, <1>6 DEF check_connect_events, Waiting, Past
<1>7. CASE EventDropped(s)
  BY <1>1, <1>2, <1>7 DEF EventDropped, Table, SockType, Agree, Past
<1>8. CASE do_read(s)
  <2> DEFINE p == IF sock[s].in THEN "recv" ELSE "close"
             r == [[[sock[s] EXCEPT !.pc = p] EXCEPT !.in = FALSE] EXCEPT !.armed = FALSE]
  <2>1. p \in Waiting
    BY DEF Waiting
  <2>2. r \in SockType /\ r.pc = p /\ r._epoll_type = sock[s]._epoll_type
    BY <1>1, <2>1 DEF SockType
  <2>3. sock' = [sock EXCEPT ![s] = r]
    BY <1>8 DEF do_read, Table
  <2> HIDE DEF r, p
  <2> QED  BY <1>2, <2>1, <2>2, <2>3 DEF Table, Agree, Waiting, Past
<1> QED  BY <1>5, <1>6, <1>7, <1>8 DEF Event

LEMMA EffectOfClearFlag ==
    ASSUME sock \in Table, NEW s \in Socks, ClearFlag(s)
    PROVE  sock' \in Table /\ Agree(sock, sock', {})
BY DEF ClearFlag, Table, SockType, Agree

-----------------------------------------------------------------------------
\* Types is inductive on its own.

LEMMA TypesInit == Init => Types
<1> SUFFICES ASSUME Init PROVE Types
  OBVIOUS
<1>1. sock \in Table
  BY DEF Init, Table, Blank, SockType, Past, Waiting
<1>2. retry \in 0..Retry /\ budget \in 0..MaxData
  BY BoundAssumption DEF Init
<1>3. records \in Seq({0, 2})
  BY DEF Init
<1>4. /\ sockCount \in Int /\ ProxyMap \subseteq Socks
      /\ initSock = NULL /\ proxySock = NULL /\ udpClientSock = NULL
  BY DEF Init
<1>5. /\ peerType = "UNKNOWN" /\ proxyStat = "INIT" /\ proxytype = "TCP"
      /\ deleted = FALSE /\ Proxy_record \in BOOLEAN /\ stuck = FALSE /\ crashed = FALSE
  BY DEF Init
<1> QED  BY <1>1, <1>2, <1>3, <1>4, <1>5 DEF Types

LEMMA RecordedType ==
    ASSUME records \in Seq({0, 2}), NEW t \in {0, 2}, Recorded(t)
    PROVE  records' \in Seq({0, 2})
BY DEF Recorded

LEMMA MadeTypes ==
    ASSUME Types, NEW f \in Table, NEW g \in Table, NEW type, ProxyConnectionMade(f, g, type)
    PROVE  /\ sock' \in Table /\ records' \in Seq({0, 2}) /\ ProxyMap' \subseteq Socks
           /\ proxyStat' \in {"INIT", "AUTHED", "CONNECTING", "CONNECTED"}
           /\ stuck' \in BOOLEAN /\ crashed' \in BOOLEAN
<1>1. CASE initSock = NULL /\ crashed' = TRUE /\ UNCHANGED <<proxyStat, ProxyMap, records, sock, stuck>>
  BY <1>1 DEF Types
<1>2. CASE /\ proxyStat' = "CONNECTED" /\ stuck' = TRUE /\ sock' = f
           /\ UNCHANGED <<ProxyMap, records, crashed>>
  BY <1>2 DEF Types
<1>3. CASE /\ initSock # NULL /\ proxyStat' = "CONNECTED" /\ ProxyMap' = ProxyMap \cup {initSock}
           /\ IF type = "TCP" THEN Recorded(0) ELSE UNCHANGED records
           /\ sock' = g /\ UNCHANGED <<stuck, crashed>>
  <2>1. records' \in Seq({0, 2})
    BY <1>3, RecordedType DEF Types
  <2> QED  BY <1>3, <2>1 DEF Types
<1> QED  BY <1>1, <1>2, <1>3 DEF ProxyConnectionMade

LEMMA TypesStep == Types /\ [Next]_vars => Types'
<1> SUFFICES ASSUME Types, [Next]_vars PROVE Types'
  OBVIOUS
<1> USE DEF info, pointers, books
<1>0. sock \in Table /\ 1 \in Socks
  BY OneIsSock DEF Types
<1>1. CASE UNCHANGED vars
  BY <1>1 DEF Types, vars
<1>2. CASE do_accpet
  <2>1. sock' \in Table
    BY <1>0, <1>2, EffectOfRearm DEF do_accpet
  <2> QED  BY <1>0, <1>2, <2>1 DEF do_accpet, Types
<1>3. CASE Record
  BY <1>3 DEF Record, Types
<1>4. ASSUME NEW s \in Socks, Peer(s) PROVE Types'
  <2>1. sock' \in Table
    BY <1>0, <1>4, EffectOfPeer
  <2>2. budget' \in 0..MaxData
    BY <1>4, BoundAssumption DEF Types, Peer, PeerSends, PeerCloses, PeerResets, PeerAnswers
  <2> QED  BY <1>4, <2>1, <2>2 DEF Peer, Types
<1>5. ASSUME NEW s \in Socks, Event(s) PROVE Types'
  <2>1. sock' \in Table
    BY <1>0, <1>5, EffectOfEvent
  <2> QED  BY <1>5, <2>1 DEF Event, Types
<1>6. ASSUME NEW s \in Socks, ClearFlag(s) PROVE Types'
  <2>1. sock' \in Table
    BY <1>0, <1>6, EffectOfClearFlag
  <2>2. crashed' \in BOOLEAN
    BY <1>6 DEF ClearFlag, Types
  <2> QED  BY <1>6, <2>1, <2>2 DEF ClearFlag, Types
<1>7. ASSUME NEW s \in Socks, Step(s) PROVE Types'
  <2>1. /\ Rearm(sock, s) \in Table /\ RearmRead(sock, s) \in Table /\ Leave(sock, s) \in Table
        /\ \A S : HsocketClose(RearmRead(sock, s), S) \in Table /\ HsocketClose(Leave(sock, s), S) \in Table
    BY <1>0, EffectOfRearm, EffectOfRearmRead, EffectOfLeave, EffectOfClose
  <2>2. \A n \in Socks : /\ RearmRead(EpollConnectExTCP(sock, n), s) \in Table
                         /\ EpollConnectExUDP(sock, n) \in Table
                         /\ RearmRead(EpollConnectExUDP(sock, n), s) \in Table
                         /\ Leave(EpollConnectExTCP(sock, n), s) \in Table
    BY <1>0, EffectOfRearmRead, EffectOfLeave, EffectOfConnectTCP, EffectOfConnectUDP
  <2>3. CASE ConnectionMade(s)
    <3>1. ProxyConnectionMade(sock, Rearm(sock, s), "TCP")
      BY <2>3 DEF ConnectionMade
    <3> QED  BY <1>0, <2>1, <2>3, <3>1, MadeTypes DEF ConnectionMade, Types
  <2>4. CASE CheckRequest(s)
    BY <2>1, <2>4 DEF CheckRequest, Types
  <2>5. CASE CheckPoxyRequest(s)
    BY <2>1, <2>5 DEF CheckPoxyRequest, Types
  <2>6. \A t : SendTo(t, s) => sock' \in Table /\ stuck' \in BOOLEAN
    BY <1>0, <2>1 DEF SendTo, Spins
  <2>7. CASE ProxyAuthRequest(s)
    BY <2>6, <2>7 DEF ProxyAuthRequest, Types
  <2>8. CASE ProxyConnectRequest(s)
    BY <2>1, <2>2, <2>8 DEF ProxyConnectRequest, Types
  <2>9. CASE ProxyConnectRequestUDP(s)
    <3>1. CASE /\ NoneLeft /\ crashed' = TRUE
               /\ UNCHANGED <<proxyStat, udpClientSock, sockCount, ProxyMap, records, sock, stuck>>
      BY <2>9, <3>1 DEF ProxyConnectRequestUDP, Types
    <3>2. ASSUME NEW n \in Socks, udpClientSock' = n, sockCount' = sockCount + 1,
                 ProxyConnectionMade(EpollConnectExUDP(sock, n), RearmRead(EpollConnectExUDP(sock, n), s), "UDP")
          PROVE  Types'
      <4>1. /\ sock' \in Table /\ records' \in Seq({0, 2}) /\ ProxyMap' \subseteq Socks
            /\ proxyStat' \in {"INIT", "AUTHED", "CONNECTING", "CONNECTED"}
            /\ stuck' \in BOOLEAN /\ crashed' \in BOOLEAN
        BY <2>2, <3>2, MadeTypes
      <4> QED  BY <2>9, <3>2, <4>1 DEF ProxyConnectRequestUDP, Types
    <3> QED  BY <2>9, <3>1, <3>2 DEF ProxyConnectRequestUDP
  <2>10. CASE ProxyRemoteRequest(s)
    BY <2>6, <2>10 DEF ProxyRemoteRequest, Types
  <2>11. CASE FromProxy(s)
    BY <2>6, <2>11 DEF FromProxy, Types
  <2>12. CASE FromUdpClient(s)
    <3>1. crashed' \in BOOLEAN
      BY <2>12 DEF FromUdpClient, Types
    <3> QED  BY <2>1, <2>2, <2>12, <3>1 DEF FromUdpClient, Types
  <2>13. CASE ProxyConnectionFailed(s)
    <3>1. retry' \in 0..Retry
      BY <2>13, BoundAssumption DEF ProxyConnectionFailed, Types
    <3> QED  BY <2>1, <2>2, <2>13, <3>1 DEF ProxyConnectionFailed, Types
  <2>14. CASE ProxyGivesUp(s)
    BY <2>1, <2>14 DEF ProxyGivesUp, Types
  <2>15. CASE ProxyConnectionClosed(s)
    <3>1. records' \in Seq({0, 2})
      BY <2>15, RecordedType DEF ProxyConnectionClosed, EndRecorded, Types
    <3>2. /\ sock' \in Table /\ ProxyMap' \subseteq Socks
          /\ initSock' \in Socks \cup {NULL} /\ proxySock' \in Socks \cup {NULL}
          /\ udpClientSock' \in Socks \cup {NULL}
      BY <2>1, <2>15 DEF ProxyConnectionClosed, ProxyClosed, ClientClosed, UdpClientClosed, Types
    <3> QED  BY <2>15, <3>1, <3>2 DEF ProxyConnectionClosed, Types
  <2>16. CASE ConnectionClosed(s)
    BY <2>1, <2>16 DEF ConnectionClosed, Types
  <2>17. CASE do_close(s)
    <3>1. sock[s] \in SockType
      BY <1>0 DEF Table
    <3>2. [Blank EXCEPT !.pc = "freed", !.locked = sock[s].locked] \in SockType
      <4>1. sock[s].locked \in BOOLEAN
        BY <3>1 DEF SockType
      <4> QED  BY <4>1 DEF SockType, Past, Waiting, Blank
    <3>3. sock' \in Table
      BY <1>0, <2>17, <3>2 DEF do_close, Table
    <3> QED  BY <2>17, <3>3 DEF do_close, Types
  <2> QED
    BY <1>7, <2>3, <2>4, <2>5, <2>7, <2>8, <2>9, <2>10, <2>11, <2>12, <2>13, <2>14, <2>15, <2>16, <2>17
    DEF Step
<1> QED  BY <1>1, <1>2, <1>3, <1>4, <1>5, <1>6, <1>7 DEF Next

-----------------------------------------------------------------------------
\* Core is inductive, given Types.  First the steps that open and close nothing.

LEMMA CoreInit == Init => Core
<1> SUFFICES ASSUME Init PROVE Core
  OBVIOUS
<1>1. \A s \in Socks : sock[s].pc = "none"
  BY DEF Init, Blank
<1>2. Open = {}
  BY <1>1 DEF Open, Past
<1>3. initSock = NULL /\ proxySock = NULL /\ udpClientSock = NULL
  BY DEF Init
<1>4. Roles /\ Distinct
  BY <1>2, <1>3 DEF Roles, Distinct, Pointers
<1>5. Stages /\ sockCount = 0 /\ ~deleted
  BY DEF Init, Stages
<1>6. CountIsOpen
  BY <1>2, <1>5, FS_EmptySet DEF CountIsOpen
<1>7. ConnectIsProxy /\ Begun /\ Alone
  BY <1>1, <1>2, <1>5 DEF ConnectIsProxy, Begun, Alone
<1> QED  BY <1>4, <1>5, <1>6, <1>7 DEF Core

\* A callback that keeps the sockets and the pointers.
LEMMA CallbackKeepsCore ==
    ASSUME Core, NEW s \in Open, sock[1].pc # "none", Agree(sock, sock', {s}),
           sock'[s].pc \notin Past, sock'[s]._epoll_type \in {"READ", sock[s]._epoll_type},
           UNCHANGED <<pointers, sockCount, deleted>>,
           peerType = "UNDEFINE" => peerType' = "UNDEFINE", Stages'
    PROVE  Core'
<1>1. Open' = Open /\ (\A t \in Socks \ Open : sock'[t].pc = sock[t].pc) /\ ConnectIsProxy'
  BY ServeKeeps DEF Core, pointers
<1> QED  BY <1>1, StepSame

LEMMA PeerKeepsCore ==
    ASSUME Types, Core, NEW s \in Socks, Peer(s)
    PROVE  Core'
<1>1. Agree(sock, sock', {}) /\ UNCHANGED <<info, pointers, sockCount, deleted>>
  BY EffectOfPeer DEF Types, Peer
<1>2. s \in Open /\ sock[1].pc # "none"
  BY OneIsSock DEF Peer, PeerSends, PeerCloses, PeerResets, PeerAnswers, Core, Begun, Open, Past
<1>3. Open' = Open /\ (\A t \in Socks \ Open : sock'[t].pc = sock[t].pc) /\ ConnectIsProxy'
  BY <1>1, ServeKeeps DEF Core, pointers
<1>4. Stages' /\ peerType' = peerType
  BY <1>1 DEF Core, Stages, info, pointers
<1> QED  BY <1>1, <1>2, <1>3, <1>4, StepSame

LEMMA EventKeepsCore ==
    ASSUME Types, Core, NEW s \in Socks, Event(s)
    PROVE  Core'
<1>1. /\ Agree(sock, sock', {s}) /\ sock[s].pc = "idle"
      /\ sock'[s].pc \notin Past /\ sock'[s]._epoll_type = sock[s]._epoll_type
  BY EffectOfEvent DEF Types
<1>2. s \in Open /\ sock[1].pc # "none"
  BY <1>1, ServedIsOpen
<1>3. UNCHANGED <<info, pointers, sockCount, deleted>>
  BY DEF Event
<1>4. Stages' /\ peerType' = peerType
  BY <1>3 DEF Core, Stages, info, pointers
<1> QED  BY <1>1, <1>2, <1>3, <1>4, CallbackKeepsCore

\* The sockets are as they were, to Core.
LEMMA IdleKeepsCore ==
    ASSUME Core, \A t \in Socks : sock'[t].pc = sock[t].pc /\ sock'[t]._epoll_type = sock[t]._epoll_type,
           UNCHANGED <<peerType, proxyStat, pointers, sockCount, deleted>>
    PROVE  Core'
<1>1. Open' = Open
  BY DEF Open
<1>2. Roles' /\ Distinct' /\ Stages' /\ CountIsOpen' /\ ConnectIsProxy'
  BY <1>1 DEF Core, Roles, Pointers, Distinct, Stages, CountIsOpen, ConnectIsProxy, pointers, Open
<1>3. Begun' /\ Alone'
  BY OneIsSock DEF Core, Begun, Alone
<1> QED  BY <1>2, <1>3 DEF Core

LEMMA RequestKeepsCore ==
    ASSUME Types, Core, NEW s \in Socks,
           CheckRequest(s) \/ CheckPoxyRequest(s) \/ ProxyAuthRequest(s)
           \/ ProxyRemoteRequest(s) \/ FromProxy(s)
    PROVE  Core'
<1>0. s \in Open /\ sock[1].pc # "none" /\ sock \in Table
  BY ServedIsOpen DEF Waiting, CheckRequest, CheckPoxyRequest, ProxyAuthRequest, ProxyRemoteRequest,
     FromProxy, FromClient, Callback, Types
<1>1. sock[s].pc \notin Past
  BY <1>0 DEF Open
<1>2. /\ Agree(sock, RearmRead(sock, s), {s}) /\ RearmRead(sock, s) \in Table
      /\ RearmRead(sock, s)[s].pc \notin Past /\ RearmRead(sock, s)[s]._epoll_type = "READ"
  BY <1>0, EffectOfRearmRead DEF Past
<1>3. CASE CheckRequest(s)
  <2>1. Agree(RearmRead(sock, s), sock', {})
    BY <1>2, <1>3, EffectOfClose DEF CheckRequest
  <2>2. /\ Agree(sock, sock', {s})
        /\ sock'[s].pc \notin Past /\ sock'[s]._epoll_type = "READ"
    BY <1>2, <2>1 DEF Agree
  <2>3. Stages'
    BY <1>3 DEF CheckRequest, Core, Stages, pointers
  <2> QED  BY <1>0, <1>3, <2>2, <2>3, CallbackKeepsCore DEF CheckRequest
<1>4. CASE CheckPoxyRequest(s)
  <2>1. Stages' /\ peerType # "UNDEFINE"
    BY <1>4 DEF CheckPoxyRequest, Core, Stages, pointers
  <2> QED  BY <1>0, <1>2, <1>4, <2>1, CallbackKeepsCore DEF CheckPoxyRequest
<1>5. \A t : SendTo(t, s) =>
         /\ Agree(sock, sock', {s})
         /\ sock'[s].pc \notin Past /\ sock'[s]._epoll_type \in {"READ", sock[s]._epoll_type}
  BY <1>0, <1>1, EffectOfSendTo
<1>6. CASE ProxyAuthRequest(s)
  <2>1. Stages' /\ peerType # "UNDEFINE"
    BY <1>6 DEF ProxyAuthRequest, Core, Stages, pointers
  <2> QED  BY <1>0, <1>5, <1>6, <2>1, CallbackKeepsCore DEF ProxyAuthRequest
<1>7. CASE ProxyRemoteRequest(s) \/ FromProxy(s)
  <2>1. UNCHANGED <<info, pointers, sockCount, deleted>> /\ \E t : SendTo(t, s)
    BY <1>7 DEF ProxyRemoteRequest, FromProxy
  <2>2. Stages' /\ peerType' = peerType
    BY <2>1 DEF info, pointers, Core, Stages
  <2> QED  BY <1>0, <1>5, <2>1, <2>2, CallbackKeepsCore
<1> QED  BY <1>3, <1>4, <1>6, <1>7

LEMMA ConnectionMadeKeepsCore ==
    ASSUME Types, Core, NEW s \in Socks, ConnectionMade(s)
    PROVE  Core'
<1>0. s \in Open /\ sock[1].pc # "none" /\ sock \in Table
  BY ServedIsOpen DEF Waiting, ConnectionMade, Callback, Types
<1>1. sock[s].pc \notin Past
  BY <1>0 DEF Open
<1>2. /\ Agree(sock, Rearm(sock, s), {s})
      /\ Rearm(sock, s)[s].pc \notin Past /\ Rearm(sock, s)[s]._epoll_type = "READ"
  BY <1>0, EffectOfRearm DEF Past
<1>3. sock' = sock \/ sock' = Rearm(sock, s)
  BY DEF ConnectionMade, ProxyConnectionMade
<1>4. /\ Agree(sock, sock', {s})
      /\ sock'[s].pc \notin Past /\ sock'[s]._epoll_type \in {"READ", sock[s]._epoll_type}
  BY <1>1, <1>2, <1>3 DEF Agree
<1>5. /\ UNCHANGED <<peerType, pointers, sockCount, deleted>>
      /\ proxyStat = "CONNECTING" /\ proxyStat' \in {"CONNECTING", "CONNECTED"}
  BY DEF ConnectionMade, ProxyConnectionMade
<1>6. Stages'
  BY <1>5 DEF Core, Stages
<1> QED  BY <1>0, <1>4, <1>5, <1>6, CallbackKeepsCore

-----------------------------------------------------------------------------
\* The steps that open a socket.

\* What a step does to Open, by what it does to the threads.
LEMMA OpenAfter ==
    ASSUME NEW S \in SUBSET Socks, NEW N \in SUBSET S, Agree(sock, sock', S),
           \A t \in S : sock'[t].pc \notin Past <=> t \in N
    PROVE  Open' = (Open \ S) \cup N
<1>1. \A t \in Socks : sock'[t].pc \notin Past <=> t \in (Open \ S) \cup N
  BY DEF Agree, Open
<1> QED  BY <1>1 DEF Open

\* A callback of s, which stays open, opens n for one of the empty pointers.
LEMMA OpenKeepsCore ==
    ASSUME Core, NEW s \in Open, NEW n \in Socks, sock[n].pc = "none",
           Agree(sock, sock', {s, n}),
           sock'[s].pc = "idle" /\ sock'[s]._epoll_type = "READ", sock'[n].pc = "idle",
           peerType = "PROXY", peerType' = "PROXY", Stages',
           UNCHANGED <<initSock, deleted>>, sockCount' = sockCount + 1,
           proxySock = NULL,
           \/ proxySock' = n /\ UNCHANGED udpClientSock
           \/ /\ udpClientSock = NULL /\ udpClientSock' = n /\ UNCHANGED proxySock
              /\ sock'[n]._epoll_type = "READ"
    PROVE  Core'
<1>1. n \notin Open /\ n # NULL /\ s # n /\ Open \subseteq Socks
  BY OneIsSock DEF Open, Past
<1>2. Open' = Open \cup {n}
  <2>1. Open' = (Open \ {s, n}) \cup {s, n}
    BY <1>1, OpenAfter DEF Past
  <2> QED  BY <1>1, <2>1
<1>3. Pointers = Open
  BY DEF Core, Roles
<1>4. Pointers' = Pointers \cup {n}
  BY <1>1 DEF Pointers
<1>5. n \notin {initSock, proxySock, udpClientSock}
  BY <1>1, <1>3 DEF Pointers
<1>6. Distinct'
  BY <1>1, <1>5 DEF Core, Distinct
<1>7. \A t \in Socks \ (Open \cup {n}) : sock'[t].pc = sock[t].pc
  BY DEF Agree
<1>8. ConnectIsProxy'
  <2>1. \A t \in Open : sock[t]._epoll_type # "CONNECT"
    BY <1>1, OneIsSock DEF Core, ConnectIsProxy
  <2>2. \A t \in Open \ {s} : sock'[t]._epoll_type = sock[t]._epoll_type
    BY <1>1 DEF Agree
  <2>3. \A t \in Open' : sock'[t]._epoll_type = "CONNECT" => t = n /\ n = proxySock'
    BY <1>2, <2>1, <2>2
  <2> QED  BY <2>3 DEF ConnectIsProxy
<1> QED  BY <1>2, <1>4, <1>6, <1>7, <1>8, StepGrow

LEMMA ConnectRequestKeepsCore ==
    ASSUME Types, Core, NEW s \in Socks, ProxyConnectRequest(s)
    PROVE  Core'
<1>0. s \in Open /\ sock[1].pc # "none" /\ sock \in Table
  BY ServedIsOpen DEF Waiting, ProxyConnectRequest, FromClient, Callback, Types
<1>1. /\ peerType = "PROXY" /\ peerType' = "PROXY"
      /\ proxySock = NULL /\ udpClientSock = NULL /\ proxyStat' = "CONNECTING"
      /\ UNCHANGED <<initSock, udpClientSock, deleted>>
  BY DEF ProxyConnectRequest, Core, Stages, Types
<1>2. Stages'
  BY <1>1 DEF Stages
<1>3. CASE /\ sock' = HsocketClose(RearmRead(sock, s), {s})
           /\ UNCHANGED <<proxySock, sockCount>>
  <2>1. /\ RearmRead(sock, s) \in Table /\ Agree(sock, RearmRead(sock, s), {s})
        /\ RearmRead(sock, s)[s].pc = "idle" /\ RearmRead(sock, s)[s]._epoll_type = "READ"
    BY <1>0, EffectOfRearmRead
  <2>2. Agree(RearmRead(sock, s), sock', {})
    BY <1>3, <2>1, EffectOfClose
  <2>3. /\ Agree(sock, sock', {s})
        /\ sock'[s].pc \notin Past /\ sock'[s]._epoll_type = "READ"
    BY <1>0, <2>1, <2>2 DEF Agree, Past, Open
  <2> QED  BY <1>0, <1>1, <1>2, <1>3, <2>3, CallbackKeepsCore DEF pointers
<1>4. ASSUME NEW n \in Socks, Fresh(n), proxySock' = n, sockCount' = sockCount + 1,
             sock' = RearmRead(EpollConnectExTCP(sock, n), s)
      PROVE  Core'
  <2> DEFINE f == EpollConnectExTCP(sock, n)
  <2>1. s \in Socks /\ sock[n].pc = "none" /\ s # n
    BY <1>0, <1>4 DEF Fresh, Open, Past
  <2>2. f \in Table /\ Agree(sock, f, {n}) /\ f[n].pc = "idle"
    BY <1>0, EffectOfConnectTCP
  <2>3. /\ Agree(f, sock', {s})
        /\ sock'[s].pc = "idle" /\ sock'[s]._epoll_type = "READ"
    BY <1>4, <2>1, <2>2, EffectOfRearmRead
  <2>4. Agree(sock, sock', {s, n}) /\ sock'[n].pc = "idle"
    BY <2>1, <2>2, <2>3 DEF Agree
  <2> QED  BY <1>0, <1>1, <1>2, <1>4, <2>1, <2>3, <2>4, OpenKeepsCore
<1> QED  BY <1>3, <1>4 DEF ProxyConnectRequest

LEMMA FromUdpClientKeepsCore ==
    ASSUME Types, Core, NEW s \in Socks, FromUdpClient(s)
    PROVE  Core'
<1>0. s \in Open /\ sock[1].pc # "none" /\ sock \in Table
  BY ServedIsOpen DEF Waiting, FromUdpClient, Callback, Types
<1>1. udpClientSock # NULL
  BY OneIsSock DEF FromUdpClient
<1>2. /\ peerType = "PROXY" /\ UNCHANGED <<peerType, proxyStat, initSock, udpClientSock, deleted>>
      /\ proxyStat \in {"CONNECTING", "CONNECTED"}
  BY <1>1 DEF FromUdpClient, info, Core, Stages, Types
<1>3. Stages'
  BY <1>2 DEF Stages
<1>4. CASE sock' = RearmRead(sock, s) /\ UNCHANGED <<proxySock, sockCount>>
  <2>1. /\ Agree(sock, sock', {s})
        /\ sock'[s].pc \notin Past /\ sock'[s]._epoll_type = "READ"
    BY <1>0, <1>4, EffectOfRearmRead DEF Past
  <2> QED  BY <1>0, <1>2, <1>3, <1>4, <2>1, CallbackKeepsCore DEF pointers
<1>5. ASSUME NEW n \in Socks, proxySock = NULL, Fresh(n), proxySock' = n, sockCount' = sockCount + 1,
             sock' = RearmRead(EpollConnectExUDP(sock, n), s)
      PROVE  Core'
  <2> DEFINE f == EpollConnectExUDP(sock, n)
  <2>1. sock[n].pc = "none" /\ s # n
    BY <1>0, <1>5 DEF Fresh, Open, Past
  <2>2. f \in Table /\ Agree(sock, f, {n}) /\ f[n].pc = "idle"
    BY <1>0, EffectOfConnectUDP
  <2>3. /\ Agree(f, sock', {s})
        /\ sock'[s].pc = "idle" /\ sock'[s]._epoll_type = "READ"
    BY <1>5, <2>2, EffectOfRearmRead
  <2>4. Agree(sock, sock', {s, n}) /\ sock'[n].pc = "idle"
    BY <2>1, <2>2, <2>3 DEF Agree
  <2> QED  BY <1>0, <1>2, <1>3, <1>5, <2>1, <2>3, <2>4, OpenKeepsCore
<1> QED  BY <1>4, <1>5 DEF FromUdpClient

LEMMA ConnectRequestUDPKeepsCore ==
    ASSUME Types, Core, NEW s \in Socks, ProxyConnectRequestUDP(s)
    PROVE  Core'
<1>0. s \in Open /\ sock[1].pc # "none" /\ sock \in Table
  BY ServedIsOpen DEF Waiting, ProxyConnectRequestUDP, FromClient, Callback, Types
<1>1. /\ peerType = "PROXY" /\ peerType' = "PROXY" /\ s = initSock
      /\ proxySock = NULL /\ udpClientSock = NULL
      /\ UNCHANGED <<initSock, proxySock, deleted>>
  BY DEF ProxyConnectRequestUDP, FromClient, Core, Stages, Types
<1>2. CASE /\ NoneLeft /\ crashed' = TRUE
           /\ UNCHANGED <<proxyStat, udpClientSock, sockCount, ProxyMap, records, sock, stuck>>
  <2>1. \A t \in Socks : sock'[t].pc = sock[t].pc /\ sock'[t]._epoll_type = sock[t]._epoll_type
    BY <1>2
  <2> QED  BY <1>1, <1>2, <2>1, IdleKeepsCore DEF pointers
<1>3. ASSUME NEW n \in Socks, Fresh(n), udpClientSock' = n, sockCount' = sockCount + 1,
             ProxyConnectionMade(EpollConnectExUDP(sock, n), RearmRead(EpollConnectExUDP(sock, n), s), "UDP")
      PROVE  Core'
  <2> DEFINE f == EpollConnectExUDP(sock, n)
             g == RearmRead(f, s)
  <2>1. sock[n].pc = "none" /\ s # n
    BY <1>0, <1>3 DEF Fresh, Open, Past
  <2>2. f \in Table /\ Agree(sock, f, {n}) /\ f[n].pc = "idle" /\ f[n]._epoll_type = "READ"
    BY <1>0, EffectOfConnectUDP
  <2>3. Agree(f, g, {s}) /\ g[s].pc = "idle" /\ g[s]._epoll_type = "READ"
    BY <2>2, EffectOfRearmRead
  <2>4. proxyStat' = "CONNECTED" /\ (sock' = f \/ sock' = g)
    BY <1>1, <1>3, OneIsSock DEF ProxyConnectionMade
  <2>5. Stages'
    BY <1>1, <2>4 DEF Stages
  <2>6. CASE sock' = g
    <3>1. Agree(sock, sock', {s, n}) /\ sock'[n].pc = "idle" /\ sock'[n]._epoll_type = "READ"
      BY <2>1, <2>2, <2>3, <2>6 DEF Agree
    <3> HIDE DEF f, g
    <3> QED  BY <1>0, <1>1, <1>3, <2>1, <2>3, <2>5, <2>6, <3>1, OpenKeepsCore
  <2>7. CASE sock' = f
    <3> HIDE DEF f, g
    <3>1. /\ n \notin Open /\ n # NULL /\ Open \subseteq Socks
          /\ sock'[n].pc \notin Past /\ sock'[n]._epoll_type = "READ" /\ Agree(sock, sock', {n})
      BY <2>1, <2>2, <2>7, OneIsSock DEF Open, Past
    <3>2. Open' = Open \cup {n}
      <4>1. Open' = (Open \ {n}) \cup {n}
        BY <3>1, OpenAfter
      <4> QED  BY <3>1, <4>1
    <3>3. Pointers = Open
      BY <1>1 DEF Core, Roles
    <3>4. Pointers' = Pointers \cup {n} /\ n # initSock
      BY <1>1, <1>3, <3>1, <3>3 DEF Pointers
    <3>5. Distinct'
      BY <1>1, <1>3, <3>1, <3>4 DEF Core, Distinct
    <3>6. (\A t \in Socks \ (Open \cup {n}) : sock'[t].pc = sock[t].pc) /\ ConnectIsProxy'
      BY <1>1, <3>1, <3>2 DEF Agree, Core, ConnectIsProxy
    <3>7. Open # {} /\ UNCHANGED deleted
      BY <1>0, <1>1
    <3> QED  BY <1>1, <1>3, <2>1, <2>5, <3>2, <3>4, <3>5, <3>6, <3>7, StepGrow
  <2> QED  BY <2>4, <2>6, <2>7
<1> QED  BY <1>2, <1>3 DEF ProxyConnectRequestUDP

-----------------------------------------------------------------------------
\* The steps that close a socket.

\* The close of s leaves the others as they are; S are shut down.
LEMMA EffectOfLeaving ==
    ASSUME sock \in Table, NEW s \in Open,
           \/ sock' = Leave(sock, s)
           \/ \E S : sock' = HsocketClose(Leave(sock, s), S)
    PROVE  /\ Agree(sock, sock', {s})
           /\ sock'[s].pc = IF sockCount = 1 THEN "last" ELSE "gone"
           /\ Open' = Open \ {s}
           /\ \A t \in Socks \ Open : sock'[t].pc = sock[t].pc
<1>0. s \in Socks
  BY DEF Open
<1>1. /\ Leave(sock, s) \in Table /\ Agree(sock, Leave(sock, s), {s})
      /\ Leave(sock, s)[s].pc = IF sockCount = 1 THEN "last" ELSE "gone"
  BY <1>0, EffectOfLeave
<1>2. sock' = Leave(sock, s) \/ Agree(Leave(sock, s), sock', {})
  BY <1>1, EffectOfClose
<1>3. /\ Agree(sock, sock', {s})
      /\ sock'[s].pc = IF sockCount = 1 THEN "last" ELSE "gone"
  BY <1>0, <1>1, <1>2 DEF Agree
<1>4. Open' = (Open \ {s}) \cup {}
  BY <1>0, <1>3, OpenAfter DEF Past
<1> QED  BY <1>3, <1>4 DEF Agree

\* Every close that opens nothing.
LEMMA LeavingKeepsCore ==
    ASSUME Types, Core, NEW s \in Open,
           \/ sock' = Leave(sock, s)
           \/ \E S : sock' = HsocketClose(Leave(sock, s), S),
           sockCount' = sockCount - 1, UNCHANGED <<peerType, proxyStat, deleted>>,
           \/ s = proxySock /\ proxySock' = NULL /\ UNCHANGED <<initSock, udpClientSock>>
           \/ s = initSock /\ initSock' = NULL /\ UNCHANGED <<proxySock, udpClientSock>>
           \/ s = udpClientSock /\ udpClientSock' = NULL /\ UNCHANGED <<initSock, proxySock>>
           \/ s = initSock /\ peerType = "UNDEFINE" /\ UNCHANGED pointers
    PROVE  Core'
<1>1. /\ Agree(sock, sock', {s})
      /\ sock'[s].pc = IF sockCount = 1 THEN "last" ELSE "gone"
      /\ Open' = Open \ {s}
      /\ \A t \in Socks \ Open : sock'[t].pc = sock[t].pc
  BY EffectOfLeaving DEF Types
<1>2. s \in Socks /\ s # NULL /\ Open \subseteq Socks
  BY OneIsSock DEF Open
<1>3. Distinct'
  BY DEF Core, Distinct, pointers
<1>4. Stages'
  BY DEF Core, Stages, pointers
<1>5. Roles'
  <2>1. Pointers' = Pointers \ {s} \/ (peerType = "UNDEFINE" /\ Pointers' = Pointers)
    BY <1>2 DEF Core, Distinct, Pointers, pointers
  <2> QED  BY <1>1, <2>1 DEF Core, Roles
<1>6. ConnectIsProxy'
  <2>1. \A t \in Open \ {s} : sock'[t]._epoll_type = sock[t]._epoll_type
    BY <1>1, <1>2 DEF Agree
  <2>2. \A t \in Open \ {s} : t = proxySock => proxySock' = proxySock
    BY DEF pointers
  <2> QED  BY <1>1, <2>1, <2>2 DEF Core, ConnectIsProxy
<1> QED  BY <1>1, <1>3, <1>4, <1>5, <1>6, StepShrink

\* A connect that failed belongs to the proxy.
LEMMA FailedIsProxy ==
    ASSUME Types, Core, NEW s \in Socks, Closing(s, "CONNECT")
    PROVE  /\ s \in Open /\ s = proxySock /\ sock[1].pc # "none"
           /\ peerType = "PROXY" /\ proxyStat \in {"CONNECTING", "CONNECTED"}
<1>1. s \in Open /\ sock[1].pc # "none"
  BY ServedIsOpen DEF Closing, Callback, Waiting
<1>2. s = proxySock
  BY <1>1 DEF Closing, Core, ConnectIsProxy
<1> QED  BY <1>1, <1>2, OneIsSock DEF Core, Stages, Types

LEMMA ConnectionFailedKeepsCore ==
    ASSUME Types, Core, NEW s \in Socks, ProxyConnectionFailed(s)
    PROVE  Core'
<1>0. /\ s \in Open /\ s = proxySock /\ sock[1].pc # "none"
      /\ peerType = "PROXY" /\ proxyStat \in {"CONNECTING", "CONNECTED"}
  BY FailedIsProxy DEF ProxyConnectionFailed
<1>1. UNCHANGED <<peerType, proxyStat, initSock, udpClientSock, deleted>>
  BY DEF ProxyConnectionFailed
<1>2. CASE /\ proxySock' = NULL /\ sockCount' = sockCount - 1
           /\ sock' = HsocketClose(Leave(sock, s), {initSock})
  BY <1>0, <1>1, <1>2, LeavingKeepsCore
<1>3. ASSUME NEW n \in Socks, Fresh(n), sockCount > 1,
             proxySock' = n, UNCHANGED sockCount, sock' = Leave(EpollConnectExTCP(sock, n), s)
      PROVE  Core'
  <2> DEFINE f == EpollConnectExTCP(sock, n)
  <2>1. sock[n].pc = "none" /\ s # n /\ n \notin Open /\ Open \subseteq Socks
    BY <1>0, <1>3 DEF Fresh, Open, Past
  <2>2. f \in Table /\ Agree(sock, f, {n}) /\ f[n].pc = "idle"
    BY EffectOfConnectTCP DEF Types
  <2>3. sockCount # 1
    BY <1>3 DEF Types
  <2>4. Agree(f, sock', {s}) /\ sock'[s].pc = "gone"
    BY <1>3, <2>2, <2>3, EffectOfLeave
  <2>5. Agree(sock, sock', {s, n}) /\ sock'[n].pc = "idle"
    BY <2>1, <2>2, <2>4 DEF Agree
  <2> HIDE DEF f
  <2>6. Open' = (Open \ {s, n}) \cup {n}
    <3>1. {s, n} \in SUBSET Socks /\ {n} \in SUBSET {s, n}
      BY <1>0, <2>1
    <3>2. \A t \in {s, n} : sock'[t].pc \notin Past <=> t \in {n}
      BY <2>1, <2>4, <2>5 DEF Past
    <3> QED  BY <2>5, <3>1, <3>2, OpenAfter
  <2>7. Pointers = Open
    BY <1>0 DEF Core, Roles
  <2>8. Pointers' = (Pointers \ {s}) \cup {n}
    BY <1>0, <1>1, <1>3, <2>1, OneIsSock DEF Core, Distinct, Pointers
  <2>9. Roles'
    BY <2>1, <2>6, <2>7, <2>8 DEF Roles
  <2>10. Distinct'
    <3>1. n \notin {initSock, udpClientSock}
      BY <2>1, <2>7, OneIsSock DEF Pointers
    <3> QED  BY <1>1, <1>3, <3>1 DEF Core, Distinct
  <2>11. ConnectIsProxy'
    <3>1. \A t \in Open \ {s} : sock'[t]._epoll_type # "CONNECT"
      BY <1>0, <2>1, <2>5 DEF Agree, Core, ConnectIsProxy
    <3> QED  BY <1>3, <2>6, <3>1 DEF ConnectIsProxy
  <2>12. Stages'
    BY <1>0, <1>1 DEF Stages
  <2>13. /\ Open' = (Open \ {s}) \cup {n}
         /\ \A t \in Socks \ (Open \cup {n}) : sock'[t].pc = sock[t].pc
    BY <2>1, <2>5, <2>6, <1>0 DEF Agree
  <2> QED  BY <1>0, <1>1, <1>3, <2>1, <2>4, <2>9, <2>10, <2>11, <2>12, <2>13, StepSwap
<1> QED  BY <1>2, <1>3 DEF ProxyConnectionFailed

LEMMA ClosesKeepCore ==
    ASSUME Types, Core, NEW s \in Socks,
           ProxyGivesUp(s) \/ ProxyConnectionClosed(s) \/ ConnectionClosed(s)
    PROVE  Core'
<1>0. s \in Open
  BY ServedIsOpen DEF Waiting, Closing, Callback, ProxyGivesUp, ProxyConnectionClosed, ConnectionClosed
<1>1. CASE ProxyGivesUp(s)
  <2>1. s = proxySock
    BY <1>1, FailedIsProxy DEF ProxyGivesUp
  <2> QED  BY <1>0, <1>1, <2>1, LeavingKeepsCore DEF ProxyGivesUp, info
<1>2. CASE ProxyConnectionClosed(s)
  <2>1. sockCount' = sockCount - 1 /\ UNCHANGED <<peerType, proxyStat, deleted>>
    BY <1>2 DEF ProxyConnectionClosed, info
  <2>2. CASE ProxyClosed(s)
    BY <1>0, <2>1, <2>2, LeavingKeepsCore DEF ProxyClosed
  <2>3. CASE ClientClosed(s)
    BY <1>0, <2>1, <2>3, LeavingKeepsCore DEF ClientClosed
  <2>4. CASE UdpClientClosed(s)
    BY <1>0, <2>1, <2>4, LeavingKeepsCore DEF UdpClientClosed
  <2> QED  BY <1>2, <2>2, <2>3, <2>4 DEF ProxyConnectionClosed
<1>3. CASE ConnectionClosed(s)
  <2>1. proxySock = NULL /\ udpClientSock = NULL /\ peerType # "PROXY"
    BY <1>3 DEF ConnectionClosed, Core, Stages
  <2>2. s = initSock
    BY <1>0, <2>1 DEF Core, Roles, Pointers
  <2>3. \/ initSock' = NULL /\ UNCHANGED <<proxySock, udpClientSock>>
        \/ peerType = "UNDEFINE" /\ UNCHANGED pointers
    BY <1>3, <2>1 DEF ConnectionClosed, pointers, Types
  <2>4. /\ sockCount' = sockCount - 1 /\ UNCHANGED <<peerType, proxyStat, deleted>>
        /\ sock' = Leave(sock, s)
    BY <1>3 DEF ConnectionClosed, info
  <2> QED  BY <1>0, <2>2, <2>3, <2>4, LeavingKeepsCore
<1> QED  BY <1>1, <1>2, <1>3

-----------------------------------------------------------------------------
\* The first and the last step of an object.

LEMMA AcceptKeepsCore ==
    ASSUME Types, Core, do_accpet
    PROVE  Core'
<1>1. \A s \in Socks : sock[s].pc = "none"
  BY DEF do_accpet, Core, Begun
<1>2. Open = {} /\ sockCount = 0 /\ ~deleted
  <2>1. Open = {}
    BY <1>1 DEF Open, Past
  <2> QED  BY <2>1, FS_EmptySet DEF do_accpet, Core, CountIsOpen, Begun
<1>3. /\ Agree(sock, sock', {1})
      /\ sock'[1].pc = "idle" /\ sock'[1]._epoll_type = "READ"
  BY OneIsSock, EffectOfRearm DEF do_accpet, Types
<1>4. Open' = {1}
  <2>1. Open' = (Open \ {1}) \cup {1}
    BY <1>3, OneIsSock, OpenAfter DEF Past
  <2> QED  BY <1>2, <2>1
<1>5. /\ UNCHANGED <<peerType, proxyStat, proxySock, udpClientSock, deleted>>
      /\ proxySock = NULL /\ udpClientSock = NULL /\ initSock' = 1 /\ sockCount' = 1
  BY <1>2 DEF do_accpet, info, Core, Stages
<1>6. Roles' /\ Distinct' /\ Stages'
  BY <1>4, <1>5, OneIsSock DEF Core, Roles, Distinct, Stages, Pointers
<1>7. CountIsOpen'
  BY <1>4, <1>5, FS_Singleton DEF CountIsOpen
<1>8. ConnectIsProxy' /\ Begun'
  BY <1>3, <1>4 DEF ConnectIsProxy, Begun
<1>9. Alone'
  BY <1>1, <1>2, <1>3, <1>5 DEF Alone, Agree
<1> QED  BY <1>6, <1>7, <1>8, <1>9 DEF Core

LEMMA do_closeKeepsCore ==
    ASSUME Types, Core, NEW s \in Socks, do_close(s)
    PROVE  Core'
<1>1. Agree(sock, sock', {s}) /\ sock'[s].pc = "freed"
  BY DEF do_close, Types, Table, Agree, Blank
<1>2. /\ sock[s].pc \in {"gone", "last"} /\ UNCHANGED <<peerType, proxyStat, pointers, sockCount>>
      /\ deleted' = (deleted \/ sock[s].pc = "last")
  BY DEF do_close, info
<1>3. Open' = Open
  <2>1. Open' = (Open \ {s}) \cup {}
    BY <1>1, OpenAfter DEF Past
  <2> QED  BY <1>2, <2>1 DEF Open, Past
<1>4. Roles' /\ Distinct' /\ Stages' /\ CountIsOpen'
  BY <1>2, <1>3 DEF Core, Roles, Pointers, Distinct, Stages, CountIsOpen, pointers
<1>5. ConnectIsProxy'
  <2>1. s \notin Open
    BY <1>2 DEF Open, Past
  <2> QED  BY <1>1, <1>2, <1>3, <2>1 DEF Core, ConnectIsProxy, Agree, pointers, Open
<1>6. Begun'
  BY <1>1, <1>2, OneIsSock DEF Core, Begun, Agree
<1>7. Alone'
  BY <1>1, <1>2 DEF Core, Alone, Agree
<1> QED  BY <1>4, <1>5, <1>6, <1>7 DEF Core

LEMMA CoreStep == Types /\ Core /\ [Next]_vars => Core'
<1> SUFFICES ASSUME Types, Core, [Next]_vars PROVE Core'
  OBVIOUS
<1>1. CASE UNCHANGED vars \/ Record
  <2>1. /\ UNCHANGED <<peerType, proxyStat, pointers, sockCount, deleted>>
        /\ \A t \in Socks : sock'[t].pc = sock[t].pc /\ sock'[t]._epoll_type = sock[t]._epoll_type
    BY <1>1 DEF vars, Record, info
  <2> QED  BY <2>1, IdleKeepsCore
<1>2. CASE do_accpet
  BY <1>2, AcceptKeepsCore
<1>3. ASSUME NEW s \in Socks, Peer(s) \/ Event(s) PROVE Core'
  BY <1>3, PeerKeepsCore, EventKeepsCore
<1>4. ASSUME NEW s \in Socks, ClearFlag(s) PROVE Core'
  <2>1. Agree(sock, sock', {}) /\ UNCHANGED <<peerType, proxyStat, pointers, sockCount, deleted>>
    BY <1>4, EffectOfClearFlag DEF Types, ClearFlag, info
  <2> QED  BY <2>1, IdleKeepsCore DEF Agree
<1>5. ASSUME NEW s \in Socks, Step(s) PROVE Core'
  BY <1>5, ConnectionMadeKeepsCore, RequestKeepsCore, ConnectRequestKeepsCore,
     ConnectRequestUDPKeepsCore, FromUdpClientKeepsCore, ConnectionFailedKeepsCore,
     ClosesKeepCore, do_closeKeepsCore DEF Step
<1> QED  BY <1>1, <1>2, <1>3, <1>4, <1>5 DEF Next

\* Types and Core together, in every behaviour.
LEMMA Invariance == Spec => [](Types /\ Core)
<1>1. Init => Types /\ Core
  BY TypesInit, CoreInit
<1>2. Types /\ Core /\ [Next]_vars => Types' /\ Core'
  BY TypesStep, CoreStep
<1> QED  BY <1>1, <1>2, PTL DEF Spec

-----------------------------------------------------------------------------
\* What follows for the specification.

\* The variables keep their types; the count never leaves 0..MaxSocks, so that
\* the decrement of do_close finds a socket to take off.
THEOREM TypeCorrect == Spec => []TypeOK
<1>1. Types /\ Core => TypeOK
  <2> SUFFICES ASSUME Types, Core PROVE TypeOK
    OBVIOUS
  <2>1. sockCount \in 0..MaxSocks
    BY OpenFinite DEF Core, CountIsOpen
  <2> QED  BY <2>1 DEF Types, TypeOK, Table
<1> QED  BY <1>1, Invariance, PTL

\* sockCount is the number of the object's open sockets, through connects that
\* are tried again and sockets that close each other.
THEOREM CountCorrect == Spec => []CountIsOpen
<1>1. Core => CountIsOpen
  BY DEF Core
<1> QED  BY <1>1, Invariance, PTL

\* initSock, proxySock and udpClientSock are exactly the open sockets of a
\* session: no pointer is to a freed socket, and none is lost.
THEOREM PointersCorrect == Spec => []PointersAreOpen
<1>1. Core => PointersAreOpen
  BY DEF Core, Roles, Pointers, PointersAreOpen
<1> QED  BY <1>1, Invariance, PTL

\* When do_close deletes the object, no other thread holds or awaits its lock,
\* and no socket can bring another there.
THEOREM DeletionCorrect == Spec => []DeletedAlone
<1>1. Core => DeletedAlone
  BY DEF Core, Alone, DeletedAlone
<1> QED  BY <1>1, Invariance, PTL

-----------------------------------------------------------------------------
\* The list of the console.

\* Only the client of a connected proxy is listed.
Listed == ProxyMap # {} => ProxyMap = {initSock} /\ initSock # NULL /\ proxyStat = "CONNECTED"

LEMMA ListedInit == Init => Listed
BY DEF Init, Listed

LEMMA ListedStep == Types /\ Core /\ Listed /\ [Next]_vars => Listed'
<1> SUFFICES ASSUME Types, Core, Listed, [Next]_vars PROVE Listed'
  OBVIOUS
<1> USE DEF Listed
<1>1. CASE UNCHANGED vars \/ Record
  BY <1>1 DEF vars, info, pointers, books, Record
<1>2. CASE do_accpet
  BY <1>2 DEF do_accpet, Core, Stages, books
<1>3. ASSUME NEW s \in Socks, Peer(s) \/ Event(s) \/ ClearFlag(s) PROVE Listed'
  BY <1>3 DEF Peer, Event, ClearFlag, info, pointers, books
<1>4. ASSUME NEW f, NEW g, NEW type, ProxyConnectionMade(f, g, type), UNCHANGED initSock PROVE Listed'
  BY <1>4 DEF ProxyConnectionMade
<1>5. ASSUME NEW s \in Socks, Step(s) PROVE Listed'
  <2>1. CASE ConnectionMade(s)
    BY <1>4, <2>1 DEF ConnectionMade, pointers
  <2>2. CASE \/ CheckRequest(s) \/ CheckPoxyRequest(s) \/ ProxyAuthRequest(s)
             \/ ProxyRemoteRequest(s) \/ FromProxy(s) \/ FromUdpClient(s)
             \/ ProxyConnectionFailed(s) \/ ProxyGivesUp(s) \/ do_close(s)
    BY <2>2 DEF CheckRequest, CheckPoxyRequest, ProxyAuthRequest, ProxyRemoteRequest, FromProxy,
       FromUdpClient, ProxyConnectionFailed, ProxyGivesUp, do_close, info, pointers, books
  <2>3. CASE ProxyConnectRequest(s)
    BY <2>3 DEF ProxyConnectRequest, books
  <2>4. CASE ProxyConnectRequestUDP(s)
    BY <1>4, <2>4 DEF ProxyConnectRequestUDP
  <2>5. CASE ProxyConnectionClosed(s)
    BY <2>5 DEF ProxyConnectionClosed, ProxyClosed, ClientClosed, UdpClientClosed, info
  <2>6. CASE ConnectionClosed(s)
    BY <2>6 DEF ConnectionClosed, Core, Stages, books
  <2> QED  BY <1>5, <2>1, <2>2, <2>3, <2>4, <2>5, <2>6 DEF Step
<1> QED  BY <1>1, <1>2, <1>3, <1>5 DEF Next

\* Every entry of ProxyMap that a console reads the object behind is the client's
\* socket, open, and the object is there.
THEOREM ListCorrect == Spec => []ListedIsAlive
<1>1. Types /\ Core /\ Listed => ListedIsAlive
  <2> SUFFICES ASSUME Types, Core, Listed, NEW s \in ProxyMap
               PROVE  s = initSock /\ s \in Open /\ ~deleted
    BY DEF ListedIsAlive
  <2>1. s = initSock /\ s # NULL /\ peerType = "PROXY"
    BY DEF Listed, Core, Stages
  <2>2. s \in Open
    BY <2>1 DEF Core, Roles, Pointers
  <2> QED  BY <2>1, <2>2 DEF Core, Alone, Open, Past
<1> QED  BY <1>1, ListedInit, ListedStep, Invariance, PTL DEF Spec

\* The count of a session, its pointers and the console's map are right about
\* which of its sockets are open.
THEOREM SocketsMatchHolds == Spec => []SocketsMatch
BY CountCorrect, PointersCorrect, ListCorrect, PTL DEF SocketsMatch

-----------------------------------------------------------------------------
\* The record of the session.

\* Nothing is recorded before the proxy is connected, and no end while a socket is open.
Paired ==
    /\ proxyStat # "CONNECTED" => records = <<>>
    /\ records \in {<<>>, <<0>>, <<2>>, <<0, 2>>}
    /\ Open # {} => records \in {<<>>, <<0>>}

LEMMA PairedInit == Init => Paired
<1> SUFFICES ASSUME Init PROVE Paired
  OBVIOUS
<1>1. records = <<>>
  BY DEF Init
<1> QED  BY <1>1 DEF Paired

\* A step that records nothing.
LEMMA QuietKeepsPaired ==
    ASSUME Paired, UNCHANGED records, proxyStat' = "CONNECTED" \/ proxyStat # "CONNECTED",
           Open # {} \/ Open' \subseteq Open \/ records = <<>>
    PROVE  Paired'
BY DEF Paired

LEMMA MadeKeepsPaired ==
    ASSUME Paired, Open # {}, proxyStat # "CONNECTED", NEW f, NEW g, NEW type,
           ProxyConnectionMade(f, g, type)
    PROVE  Paired'
<1>1. records = <<>>
  BY DEF Paired
<1>2. CASE UNCHANGED records
  BY <1>1, <1>2, QuietKeepsPaired
<1>3. CASE proxyStat' = "CONNECTED" /\ Recorded(0)
  <2>1. records' = <<>> \/ records' = <<0>>
    BY <1>1, <1>3 DEF Recorded
  <2> QED  BY <1>3, <2>1 DEF Paired
<1> QED  BY <1>2, <1>3 DEF ProxyConnectionMade

LEMMA AppendTwo == Append(<<>>, 2) = <<2>> /\ Append(<<0>>, 2) = <<0, 2>>
<1>1. Append(<<>>, 2) = <<2>>
  OBVIOUS
<1>2. /\ Append(<<0>>, 2) \in Seq(Int) /\ Len(Append(<<0>>, 2)) = 2
      /\ Append(<<0>>, 2)[1] = 0 /\ Append(<<0>>, 2)[2] = 2
  OBVIOUS
<1>3. ASSUME NEW r \in Seq(Int), Len(r) = 2, r[1] = 0, r[2] = 2 PROVE r = <<0, 2>>
  BY <1>3
<1> QED  BY <1>1, <1>2, <1>3

LEMMA PairedStep == Types /\ Core /\ Core' /\ Paired /\ [Next]_vars => Paired'
<1> SUFFICES ASSUME Types, Core, Core', Paired, [Next]_vars PROVE Paired'
  OBVIOUS
<1>1. CASE UNCHANGED vars \/ Record
  <2>1. UNCHANGED <<records, proxyStat, sock>>
    BY <1>1 DEF vars, Record, info, books
  <2>2. Open' = Open
    BY <2>1 DEF Open
  <2> QED  BY <2>1, <2>2, QuietKeepsPaired DEF Paired
<1>2. CASE do_accpet
  <2>1. proxyStat = "INIT" /\ proxyStat' = proxyStat /\ records' = records
    BY <1>2 DEF do_accpet, Core, Stages, info, books
  <2> QED  BY <2>1, QuietKeepsPaired DEF Paired
<1>3. ASSUME NEW s \in Socks, Peer(s) \/ Event(s) \/ ClearFlag(s) PROVE Paired'
  <2>1. UNCHANGED <<records, proxyStat>>
    BY <1>3 DEF Peer, Event, ClearFlag, info, books
  <2>2. Agree(sock, sock', {}) \/ s \in Open
    BY <1>3, EffectOfPeer, EffectOfEvent, EffectOfClearFlag, ServedIsOpen DEF Types
  <2>3. Agree(sock, sock', {}) => Open' \subseteq Open
    BY DEF Agree, Open
  <2> QED  BY <2>1, <2>2, <2>3 DEF Paired
<1>4. ASSUME NEW s \in Socks, Step(s) PROVE Paired'
  <2>1. CASE do_close(s)
    <3>1. UNCHANGED <<records, proxyStat>>
      BY <2>1 DEF do_close, info, books
    <3>2. Open' \subseteq Open
      BY <2>1 DEF do_close, Open, Past, Types, Table, Blank
    <3> QED  BY <3>1, <3>2 DEF Paired
  <2>2. CASE ConnectionMade(s)
    <3>1. s \in Open
      BY <2>2, ServedIsOpen DEF ConnectionMade, Callback, Waiting
    <3> QED  BY <2>2, <3>1, MadeKeepsPaired DEF ConnectionMade
  <2>3. CASE ProxyConnectRequestUDP(s)
    <3>1. s \in Open
      BY <2>3, ServedIsOpen DEF ProxyConnectRequestUDP, FromClient, Callback, Waiting
    <3>2. CASE UNCHANGED <<records, proxyStat>>
      BY <3>1, <3>2 DEF Paired
    <3> QED  BY <2>3, <3>1, <3>2, MadeKeepsPaired DEF ProxyConnectRequestUDP
  <2>4. CASE \/ CheckRequest(s) \/ CheckPoxyRequest(s) \/ ProxyRemoteRequest(s)
             \/ FromProxy(s) \/ FromUdpClient(s)
             \/ ProxyConnectionFailed(s) \/ ProxyGivesUp(s) \/ ConnectionClosed(s)
    <3>1. UNCHANGED <<records, proxyStat>>
      BY <2>4 DEF CheckRequest, CheckPoxyRequest, ProxyRemoteRequest, FromProxy, FromUdpClient,
         ProxyConnectionFailed, ProxyGivesUp, ConnectionClosed, info, books
    <3>2. s \in Open
      BY <2>4, ServedIsOpen DEF CheckRequest, CheckPoxyRequest, ProxyRemoteRequest, FromProxy,
         FromUdpClient, ProxyConnectionFailed, ProxyGivesUp, ConnectionClosed, FromClient, Closing,
         Callback, Waiting
    <3> QED  BY <3>1, <3>2 DEF Paired
  <2>5. CASE ProxyAuthRequest(s) \/ ProxyConnectRequest(s)
    <3>1. UNCHANGED records /\ proxyStat # "CONNECTED"
      BY <2>5 DEF ProxyAuthRequest, ProxyConnectRequest, books
    <3> QED  BY <3>1, QuietKeepsPaired DEF Paired
  <2>6. CASE ProxyConnectionClosed(s)
    <3>1. s \in Open /\ proxyStat' = proxyStat
      BY <2>6, ServedIsOpen DEF ProxyConnectionClosed, Closing, Callback, Waiting, info
    <3>2. CASE UNCHANGED records
      BY <3>1, <3>2 DEF Paired
    <3>3. CASE /\ initSock' = NULL /\ proxySock' = NULL /\ udpClientSock' = NULL
               /\ proxyStat = "CONNECTED" /\ Recorded(2)
      <4>1. Open' = {}
        BY <3>3 DEF Core, Roles, Pointers
      <4>2. records = <<>> \/ records = <<0>>
        BY <3>1 DEF Paired
      <4>3. records' = records \/ records' = <<2>> \/ records' = <<0, 2>>
        BY <3>3, <4>2, AppendTwo DEF Recorded
      <4> QED  BY <3>1, <3>3, <4>1, <4>2, <4>3 DEF Paired
    <3> QED  BY <2>6, <3>2, <3>3 DEF ProxyConnectionClosed, EndRecorded
  <2> QED  BY <1>4, <2>1, <2>2, <2>3, <2>4, <2>5, <2>6 DEF Step
<1> QED  BY <1>1, <1>2, <1>3, <1>4 DEF Next

\* The end of a session is recorded at most once, after its beginning, by the
\* close of its last socket; recording may be switched on and off in between.
THEOREM RecordsCorrect == Spec => []RecordsPaired
<1>1. Paired => RecordsPaired
  <2> SUFFICES ASSUME Paired PROVE RecordsPaired
    OBVIOUS
  <2>1. ASSUME NEW i \in DOMAIN records, records[i] = 2 PROVE Open = {}
    <3>1. records # <<>> /\ records # <<0>>
      BY <2>1
    <3> QED  BY <3>1 DEF Paired
  <2> QED  BY <2>1 DEF RecordsPaired, Paired
<1>2. Types /\ Core /\ (Types /\ Core)' /\ Paired /\ [Next]_vars => Paired'
  BY PairedStep
<1> QED  BY <1>1, <1>2, PairedInit, Invariance, PTL DEF Spec

=============================================================================
