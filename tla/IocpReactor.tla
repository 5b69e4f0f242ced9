---------------------------- MODULE IocpReactor ----------------------------
(***************************************************************************)
(* The Windows reactor (IOCPReactor.cpp): connections driven by a          *)
(* completion port.  A connection has one operation at a time in the       *)
(* kernel (accept, connect or receive); the worker thread that takes its   *)
(* completion runs a callback of the connection's object under the         *)
(* object's lock and posts the next receive, or takes the connection out   *)
(* of service.  So the state of a connection is the place of its operation *)
(* or of the thread that works for it.                                     *)
(*                                                                         *)
(* Two kinds of objects own connections.  ServerProtocol is created for an *)
(* accepted client, named here by that client's connection, and is deleted *)
(* by the thread that takes away its last connection.  A user of a task    *)
(* (ReplayProtocol) is run by its timer as well, and destroy_task of       *)
(* TaskManager.cpp ends it.  What their callbacks decide is left open:     *)
(* while a callback runs it may connect and close as it likes.             *)
(***************************************************************************)
EXTENDS Integers, FiniteSets

CONSTANTS MaxSocks,     \* bound: the connections made in a behaviour
          Slots,        \* the accepts posted by FactoryRun, one per CPU
          Faults,       \* whether allocations and AcceptEx may fail
          NULL

ASSUME MaxSocksAssumption == MaxSocks \in Nat
ASSUME FaultsAssumption == Faults \in BOOLEAN
ASSUME NULLAssumption == NULL \notin Int \cup Slots

Socks == 1 .. MaxSocks      \* IOCP_SOCKETs, in the order of their allocation
User == 0                   \* the user of a task
Protos == {User} \cup Socks
Timer == -1                 \* the thread that runs the timer of the user

VARIABLES
    pc,         \* [Socks -> Places]: where the connection's operation is
    fd,         \* [Socks -> {"open", "null", "invalid"}]: IocpSock->fd
    owner,      \* [Socks -> Protos \cup {NULL}]: IocpSock->_user
    made,       \* [Socks -> BOOLEAN]: the object may use the connection
    last,       \* [Socks -> BOOLEAN]: left_count = 0 in the thread's Close
    lock,       \* [Protos -> Socks \cup {Timer, NULL}]: who holds the lock
    sockCount,  \* [Protos -> Int]
    slot,       \* [Slots -> {"posted", "serving", "repost", "lost"}]
    accepted,   \* [Socks -> Slots \cup {NULL}]: whose thread PostRecv returns to
    deleted,    \* the objects that have been deleted
    user        \* the life of the user: "live", "stopped", "wait", "over"

conn == <<pc, fd, owner, made, last>>
accepts == <<slot, accepted>>
vars == <<pc, fd, owner, made, last, lock, sockCount, slot, accepted, deleted, user>>

Places == {"unused",                    \* not allocated
           "connecting", "recving",     \* ConnectEx, WSARecv in the kernel
           "gotMade", "gotData",        \* a thread waits for the lock
           "inMade", "inData", "inEnd", \* in a callback, with the lock
           "post",                      \* about to call PostRecv
           "closing",                   \* in Close, waiting for the lock
           "release", "freed"}

\* Close tests fd before it takes the lock (:152).
CloseEntry(s) == IF fd[s] # "invalid" THEN "closing" ELSE "release"

\* The connections sockCount stands for.
Counted(s) == pc[s] \notin {"unused", "inEnd", "release", "freed"} /\ fd[s] # "invalid"
CountedOf(p) == {s \in Socks : owner[s] = p /\ Counted(s)}

\* NewIOCP_Socket.
New(s) == pc[s] = "unused" /\ \A t \in 1 .. s - 1 : pc[t] # "unused"

TypeOK ==
    /\ pc \in [Socks -> Places]
    /\ fd \in [Socks -> {"open", "null", "invalid"}]
    /\ owner \in [Socks -> Protos \cup {NULL}]
    /\ made \in [Socks -> BOOLEAN] /\ last \in [Socks -> BOOLEAN]
    /\ lock \in [Protos -> Socks \cup {Timer, NULL}]
    /\ sockCount \in [Protos -> Int]
    /\ slot \in [Slots -> {"posted", "serving", "repost", "lost"}]
    /\ accepted \in [Socks -> Slots \cup {NULL}]
    /\ deleted \subseteq Protos
    /\ user \in {"live", "stopped", "wait", "over"}

Init ==
    /\ pc = [s \in Socks |-> "unused"]
    /\ fd = [s \in Socks |-> "null"]
    /\ owner = [s \in Socks |-> NULL]
    /\ made = [s \in Socks |-> FALSE]
    /\ last = [s \in Socks |-> FALSE]
    /\ lock = [p \in Protos |-> NULL]
    /\ sockCount = [p \in Protos |-> 0]
    /\ slot = [a \in Slots |-> "posted"]
    /\ accepted = [s \in Socks |-> NULL]
    /\ deleted = {}
    /\ user = "live"

-----------------------------------------------------------------------------
\* AcceptEx has completed.  AceeptClient makes the connection and its object and
\* runs ConnectionMade; or a failure, of the accept or of an allocation, sends
\* the thread to Close, which drops the buffer and posts the accept again.
AceeptClient(a, s) ==
    /\ slot[a] = "posted"
    /\ New(s)
    /\ pc' = [pc EXCEPT ![s] = "inMade"]
    /\ fd' = [fd EXCEPT ![s] = "open"]
    /\ owner' = [owner EXCEPT ![s] = s]
    /\ made' = [made EXCEPT ![s] = TRUE]
    /\ sockCount' = [sockCount EXCEPT ![s] = 1]
    /\ lock' = [lock EXCEPT ![s] = s]
    /\ slot' = [slot EXCEPT ![a] = "serving"]
    /\ accepted' = [accepted EXCEPT ![s] = a]
    /\ UNCHANGED <<last, deleted, user>>

AcceptFails(a) ==
    /\ Faults
    /\ slot[a] = "posted"
    /\ slot' = [slot EXCEPT ![a] = "repost"]
    /\ UNCHANGED <<conn, accepted, lock, sockCount, deleted, user>>

\* PostAcceptClient; when it fails it returns, and nobody posts this accept again.
PostAcceptClient(a) ==
    /\ slot[a] = "repost"
    /\ \/ slot' = [slot EXCEPT ![a] = "posted"]
       \/ Faults /\ slot' = [slot EXCEPT ![a] = "lost"]
    /\ UNCHANGED <<conn, accepted, lock, sockCount, deleted, user>>

\* The thread that accepted s goes on to PostAcceptClient when PostRecv returns.
AcceptorGoesOn(s) ==
    /\ slot' = [a \in Slots |-> IF a = accepted[s] THEN "repost" ELSE slot[a]]
    /\ accepted' = [accepted EXCEPT ![s] = NULL]

-----------------------------------------------------------------------------
\* A worker thread takes the completion of s's operation.  It may be a success
\* that was queued before the socket was closed.
ProcessIO(s) ==
    /\ pc[s] \in {"connecting", "recving"}
    /\ pc' = [pc EXCEPT ![s] =
                 IF fd[s] = "invalid" THEN "release"
                 ELSE IF pc[s] = "connecting" THEN "gotMade" ELSE "gotData"]
    /\ UNCHANGED <<fd, owner, made, last, lock, sockCount, accepts, deleted, user>>

\* The operation failed, or the peer closed the connection.
OperationFails(s) ==
    /\ pc[s] \in {"connecting", "recving"}
    /\ pc' = [pc EXCEPT ![s] = CloseEntry(s)]
    /\ UNCHANGED <<fd, owner, made, last, lock, sockCount, accepts, deleted, user>>

\* Mutant: fd is tested before the lock only.
EnterCallback_Untested(s) ==
    /\ pc[s] \in {"gotMade", "gotData"}
    /\ lock[owner[s]] = NULL
    /\ pc' = [pc EXCEPT ![s] = IF @ = "gotMade" THEN "inMade" ELSE "inData"]
    /\ made' = [made EXCEPT ![s] = TRUE]
    /\ lock' = [lock EXCEPT ![owner[s]] = s]
    /\ UNCHANGED <<fd, owner, last, sockCount, accepts, deleted, user>>

\* Mutant: a thread that finds its socket closed just returns.
EnterCallback_Returns(s) ==
    /\ fd[s] # "invalid"
    /\ EnterCallback_Untested(s)

\* ProcessIO with the lock: the second test of fd, then the callback.
EnterCallback(s) ==
    /\ pc[s] \in {"gotMade", "gotData"}
    /\ lock[owner[s]] = NULL
    /\ IF fd[s] # "invalid"
       THEN /\ pc' = [pc EXCEPT ![s] = IF @ = "gotMade" THEN "inMade" ELSE "inData"]
            /\ made' = [made EXCEPT ![s] = TRUE]
            /\ lock' = [lock EXCEPT ![owner[s]] = s]
       ELSE /\ pc' = [pc EXCEPT ![s] = "release"]
            /\ UNCHANGED <<made, lock>>
    /\ UNCHANGED <<fd, owner, last, sockCount, accepts, deleted, user>>

\* Mutant: fd is tested before the lock only.
EnterClose_Untested(s) ==
    /\ pc[s] = "closing"
    /\ lock[owner[s]] = NULL
    /\ pc' = [pc EXCEPT ![s] = "inEnd"]
    /\ sockCount' = [sockCount EXCEPT ![owner[s]] = @ - 1]
    /\ last' = [last EXCEPT ![s] = sockCount[owner[s]] = 1]
    /\ lock' = [lock EXCEPT ![owner[s]] = s]
    /\ UNCHANGED <<fd, owner, made, accepts, deleted, user>>

\* Close with the lock: the second test of fd, the count, and ConnectionFailed or
\* ConnectionClosed.
EnterClose(s) ==
    /\ pc[s] = "closing"
    /\ lock[owner[s]] = NULL
    /\ IF fd[s] # "invalid"
       THEN /\ pc' = [pc EXCEPT ![s] = "inEnd"]
            /\ sockCount' = [sockCount EXCEPT ![owner[s]] = @ - 1]
            /\ last' = [last EXCEPT ![s] = sockCount[owner[s]] = 1]
            /\ lock' = [lock EXCEPT ![owner[s]] = s]
       ELSE /\ pc' = [pc EXCEPT ![s] = "release"]
            /\ UNCHANGED <<sockCount, last, lock>>
    /\ UNCHANGED <<fd, owner, made, accepts, deleted, user>>

LeaveCallback(s) ==
    /\ pc[s] \in {"inMade", "inData", "inEnd"}
    /\ pc' = [pc EXCEPT ![s] = IF @ = "inEnd" THEN "release" ELSE "post"]
    /\ lock' = [lock EXCEPT ![owner[s]] = NULL]
    /\ UNCHANGED <<fd, owner, made, last, sockCount, accepts, deleted, user>>

\* The next receive is posted, or refused: the socket was closed, the connection
\* is broken, or the buffer cannot grow.
PostRecv(s) ==
    /\ pc[s] = "post"
    /\ \/ /\ fd[s] = "open"
          /\ pc' = [pc EXCEPT ![s] = "recving"]
          /\ AcceptorGoesOn(s)
       \/ /\ pc' = [pc EXCEPT ![s] = CloseEntry(s)]
          /\ UNCHANGED accepts
    /\ UNCHANGED <<fd, owner, made, last, lock, sockCount, deleted, user>>

\* Mutant: the count is read again after the lock was given back.
Release_ReadsAgain(s) ==
    /\ pc[s] = "release"
    /\ pc' = [pc EXCEPT ![s] = "freed"]
    /\ fd' = [fd EXCEPT ![s] = "invalid"]
    /\ made' = [made EXCEPT ![s] = FALSE]
    /\ last' = [last EXCEPT ![s] = FALSE]
    /\ deleted' = IF sockCount[owner[s]] = 0 /\ owner[s] # User
                  THEN deleted \cup {owner[s]} ELSE deleted
    /\ AcceptorGoesOn(s)
    /\ UNCHANGED <<owner, lock, sockCount, user>>

\* Mutant: PostRecv tells of a failure, and the caller stops there.
Release_Stops(s) ==
    /\ pc[s] = "release"
    /\ pc' = [pc EXCEPT ![s] = "freed"]
    /\ fd' = [fd EXCEPT ![s] = "invalid"]
    /\ made' = [made EXCEPT ![s] = FALSE]
    /\ last' = [last EXCEPT ![s] = FALSE]
    /\ deleted' = IF last[s] /\ owner[s] # User THEN deleted \cup {owner[s]} ELSE deleted
    /\ UNCHANGED <<owner, lock, sockCount, accepts, user>>

\* The rest of Close: CloseSocket, DeleteProtocol by the thread that counted the
\* last connection of a server's object, and the connection is freed.
Release(s) ==
    /\ pc[s] = "release"
    /\ pc' = [pc EXCEPT ![s] = "freed"]
    /\ fd' = [fd EXCEPT ![s] = "invalid"]
    /\ made' = [made EXCEPT ![s] = FALSE]
    /\ last' = [last EXCEPT ![s] = FALSE]
    /\ deleted' = IF last[s] /\ owner[s] # User THEN deleted \cup {owner[s]} ELSE deleted
    /\ AcceptorGoesOn(s)
    /\ UNCHANGED <<owner, lock, sockCount, user>>

-----------------------------------------------------------------------------
\* What the code of an object does while it has the lock.
Busy(p) == lock[p] # NULL

\* Mutant: an object without connections may still connect.
HsocketConnect_Any(p, s) ==
    /\ Busy(p)
    /\ New(s)
    /\ \E place \in {"connecting", "recving"} :
           /\ pc' = [pc EXCEPT ![s] = place]
           /\ made' = [made EXCEPT ![s] = place = "recving"]
    /\ fd' = [fd EXCEPT ![s] = "open"]
    /\ owner' = [owner EXCEPT ![s] = p]
    /\ sockCount' = [sockCount EXCEPT ![p] = @ + 1]
    /\ UNCHANGED <<last, lock, accepts, deleted, user>>

\* HsocketConnect: an object without connections that a server made gets none.
\* TCP waits for ConnectEx, UDP receives at once.
HsocketConnect(p, s) ==
    /\ Busy(p)
    /\ New(s)
    /\ p = User \/ sockCount[p] # 0
    /\ \E place \in {"connecting", "recving"} :
           /\ pc' = [pc EXCEPT ![s] = place]
           /\ made' = [made EXCEPT ![s] = place = "recving"]
    /\ fd' = [fd EXCEPT ![s] = "open"]
    /\ owner' = [owner EXCEPT ![s] = p]
    /\ sockCount' = [sockCount EXCEPT ![p] = @ + 1]
    /\ UNCHANGED <<last, lock, accepts, deleted, user>>

\* ServerProtocol closes one of its connections: the callback of the end follows.
HsocketClose(p, s) ==
    /\ Busy(p)
    /\ p # User
    /\ s \in CountedOf(p) /\ fd[s] = "open"
    /\ fd' = [fd EXCEPT ![s] = "null"]
    /\ UNCHANGED <<pc, owner, made, last, lock, sockCount, accepts, deleted, user>>

\* A user gives a connection up: it is counted out here, and no callback follows.
TaskUserSocketClose(s) ==
    /\ Busy(User)
    /\ s \in CountedOf(User)
    /\ fd' = [fd EXCEPT ![s] = "invalid"]
    /\ sockCount' = [sockCount EXCEPT ![User] = @ - 1]
    /\ UNCHANGED <<pc, owner, made, last, lock, accepts, deleted, user>>

-----------------------------------------------------------------------------
\* The timer of the user runs userWorkFunc, under the user's lock.
TimerRuns ==
    /\ user = "live"
    /\ lock[User] = NULL
    /\ lock' = [lock EXCEPT ![User] = Timer]
    /\ UNCHANGED <<conn, sockCount, accepts, deleted, user>>

TimerEnds ==
    /\ lock[User] = Timer
    /\ lock' = [lock EXCEPT ![User] = NULL]
    /\ UNCHANGED <<conn, sockCount, accepts, deleted, user>>

\* taskWorkerThread: DeleteTimerQueueEx waits for a timer that is running.
DeleteTimers ==
    /\ user = "live"
    /\ lock[User] # Timer
    /\ user' = "stopped"
    /\ UNCHANGED <<conn, lock, sockCount, accepts, deleted>>

\* destroy_task: EventDestroy, under the lock, closes all connections of the user
\* (CloseAllConnection of UserProtocol.cpp).
EventDestroy ==
    /\ user = "stopped"
    /\ lock[User] = NULL
    /\ fd' = [s \in Socks |-> IF s \in CountedOf(User) THEN "invalid" ELSE fd[s]]
    /\ sockCount' = [sockCount EXCEPT ![User] = @ - Cardinality(CountedOf(User))]
    /\ user' = "wait"
    /\ UNCHANGED <<pc, owner, made, last, lock, accepts, deleted>>

\* After its wait, in which the connections that are over have left the reactor,
\* destroy_task frees the user, or leaks it when connections are counted.
DestroyUser ==
    /\ user = "wait"
    /\ \A s \in Socks : owner[s] = User /\ ~Counted(s) => pc[s] = "freed"
    /\ user' = "over"
    /\ deleted' = IF sockCount[User] = 0 THEN deleted \cup {User} ELSE deleted
    /\ UNCHANGED <<conn, lock, sockCount, accepts>>

-----------------------------------------------------------------------------
Thread(s) ==
    \/ ProcessIO(s) \/ OperationFails(s) \/ EnterCallback(s) \/ EnterClose(s)
    \/ LeaveCallback(s) \/ PostRecv(s) \/ Release(s)

Next ==
    \/ \E s \in Socks : Thread(s)
    \/ \E a \in Slots : AcceptFails(a) \/ PostAcceptClient(a)
    \/ \E a \in Slots, s \in Socks : AceeptClient(a, s)
    \/ \E p \in Protos, s \in Socks : HsocketConnect(p, s) \/ HsocketClose(p, s)
    \/ \E s \in Socks : TaskUserSocketClose(s)
    \/ TimerRuns \/ TimerEnds \/ DeleteTimers \/ EventDestroy \/ DestroyUser

Spec == Init /\ [][Next]_vars

\* A callback returns and a thread goes on; the system completes the operation of
\* a socket that was closed; a thread that waits for a lock gets it some time
\* however often others take it.  Nothing is said of the peers: an operation of
\* an open socket may stay for ever.
Fairness ==
    /\ \A s \in Socks :
           /\ WF_vars(fd[s] # "open" /\ (ProcessIO(s) \/ OperationFails(s)))
           /\ WF_vars(LeaveCallback(s) \/ PostRecv(s) \/ Release(s))
           /\ SF_vars(EnterCallback(s) \/ EnterClose(s))
    /\ \A a \in Slots : WF_vars(PostAcceptClient(a))
    /\ WF_vars(TimerEnds)

FairSpec == Spec /\ Fairness

-----------------------------------------------------------------------------
\* The count of an object is the number of its connections that have not been
\* taken from it, by Close or by the object: the last one to leave is known, and
\* the count destroy_task looks at is that of the connections left.
CountIsOpen == \A p \in Protos : sockCount[p] = Cardinality(CountedOf(p))

\* The thread that deletes a server's object is alone with it: no other thread
\* holds or waits for its lock, will be given a completion for it, or deletes it.
Gone(s) == pc[s] = "freed" \/ (pc[s] = "release" /\ ~last[s])
DeletedAlone ==
    \A s \in Socks :
        /\ owner[s] \in deleted \ {User} => Gone(s)
        /\ pc[s] = "release" /\ last[s] /\ owner[s] # User =>
               \A t \in Socks \ {s} : owner[t] = owner[s] => Gone(t)

\* destroy_task frees the user, it does not leak it, and then no callback of it
\* runs or can come: the tests under the lock keep a thread that waited for
\* EventDestroy from calling the user, which could open a connection again.
UserEndsClean ==
    user = "over" =>
        /\ User \in deleted
        /\ lock[User] = NULL
        /\ \A s \in Socks : owner[s] = User => pc[s] = "freed"

\* What SessionLife calls the state of a connection.
LifeOf(s) ==
    IF pc[s] = "unused" THEN "unused"
    ELSE IF ~Counted(s) THEN "over"
    ELSE IF made[s] THEN "open" ELSE "opening"

Life == INSTANCE SessionLife WITH
    Servers <- Socks, Clients <- {User},
    life <- [s \in Socks |-> LifeOf(s)], freed <- deleted

\* The reactor is what SessionLife promises: no event for a connection that is
\* over, no connection for an object that has none left, an object freed once.
LifeSpec == Life!Spec

\* A connection that either side of the program closed leaves the reactor and is
\* freed, whatever its operation was doing.
ClosedIsFreed ==
    \A s \in Socks : (pc[s] # "unused" /\ fd[s] # "open") ~> (pc[s] = "freed")

\* The thread that accepted a client posts its accept again, whatever becomes of
\* the client, unless the posting fails.
AcceptReturns ==
    \A a \in Slots : slot[a] = "serving" ~> slot[a] \in {"posted", "lost"}
============================================================================
