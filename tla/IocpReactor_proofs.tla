------------------------ MODULE IocpReactor_proofs ------------------------
(***************************************************************************)
(* Proofs about IocpReactor, for every number of connections and accepts:  *)
(* the count of an object, who deletes it, and how a user ends.            *)
(*                                                                         *)
(* Most actions leave alone which connections are counted; EffectOf... say *)
(* which set the others change and how, so that the count is followed by   *)
(* FS_AddElement and FS_RemoveElement.                                     *)
(***************************************************************************)
EXTENDS IocpReactor, FiniteSetTheorems, TLAPS

LEMMA Names ==
    /\ Socks \subseteq Int /\ Protos \subseteq Int
    /\ NULL \notin Socks /\ NULL \notin Protos /\ NULL # Timer
    /\ User \notin Socks /\ Timer \notin Socks /\ Timer \notin Protos
BY MaxSocksAssumption, NULLAssumption DEF Socks, Protos, User, Timer

LEMMA CountedFinite ==
    ASSUME NEW p
    PROVE  IsFiniteSet(CountedOf(p)) /\ CountedOf(p) \subseteq Socks
<1>1. IsFiniteSet(Socks)
  BY MaxSocksAssumption, FS_Interval DEF Socks
<1>2. CountedOf(p) \in SUBSET Socks
  BY DEF CountedOf
<1> QED  BY <1>1, <1>2, FS_Subset

-----------------------------------------------------------------------------
\* A connection that is allocated has an object.
Owned == \A s \in Socks : owner[s] = NULL <=> pc[s] = "unused"

Typed == TypeOK /\ Owned

LEMMA TypeInit == Init => Typed
<1> SUFFICES ASSUME Init PROVE Typed
  OBVIOUS
<1>1. sockCount \in [Protos -> Int]
  BY DEF Init
<1>2. lock \in [Protos -> Socks \cup {Timer, NULL}]
  BY DEF Init
<1>3. Owned
  BY DEF Init, Owned
<1> QED  BY <1>1, <1>2, <1>3 DEF Init, TypeOK, Typed, Places

LEMMA TypeStep == Typed /\ [Next]_vars => Typed'
<1> SUFFICES ASSUME Typed, [Next]_vars PROVE Typed'
  OBVIOUS
<1> USE Names DEF Typed, Owned, TypeOK, accepts, conn
<1>1. ASSUME NEW s \in Socks, ProcessIO(s) PROVE Typed'
  BY <1>1 DEF ProcessIO, Places
<1>2. ASSUME NEW s \in Socks, OperationFails(s) PROVE Typed'
  BY <1>2 DEF OperationFails, CloseEntry, Places
<1>3. ASSUME NEW s \in Socks, EnterCallback(s) PROVE Typed'
  <2>1. owner[s] \in Protos /\ pc' \in [Socks -> Places] /\ Owned'
    BY <1>3 DEF EnterCallback, Places
  <2>2. lock' \in [Protos -> Socks \cup {Timer, NULL}] /\ made' \in [Socks -> BOOLEAN]
    <3>1. CASE fd[s] # "invalid"
      <4>1. lock' = [lock EXCEPT ![owner[s]] = s] /\ made' = [made EXCEPT ![s] = TRUE]
        BY <1>3, <3>1 DEF EnterCallback
      <4> QED  BY <2>1, <4>1
    <3>2. CASE fd[s] = "invalid"
      BY <1>3, <3>2 DEF EnterCallback
    <3> QED  BY <3>1, <3>2
  <2> QED  BY <1>3, <2>1, <2>2 DEF EnterCallback
<1>4. ASSUME NEW s \in Socks, EnterClose(s) PROVE Typed'
  <2>1. owner[s] \in Protos /\ pc' \in [Socks -> Places] /\ Owned'
    BY <1>4 DEF EnterClose, Places
  <2>2. lock' \in [Protos -> Socks \cup {Timer, NULL}]
    BY <1>4, <2>1 DEF EnterClose
  <2>3. sockCount[owner[s]] - 1 \in Int /\ (sockCount[owner[s]] = 1) \in BOOLEAN
    <3>1. owner[s] \in Protos
      BY <2>1
    <3>2. sockCount[owner[s]] \in Int
      BY <3>1
    <3> QED  BY <3>2
  <2>5. last' \in [Socks -> BOOLEAN]
    BY <1>4, <2>3 DEF EnterClose
  <2>4. sockCount' \in [Protos -> Int]
    BY <1>4, <2>3 DEF EnterClose
  <2> QED  BY <1>4, <2>1, <2>2, <2>4, <2>5 DEF EnterClose
<1>5. ASSUME NEW s \in Socks, LeaveCallback(s) PROVE Typed'
  BY <1>5 DEF LeaveCallback, Places
<1>6. ASSUME NEW s \in Socks, PostRecv(s) PROVE Typed'
  BY <1>6 DEF PostRecv, CloseEntry, AcceptorGoesOn, Places
<1>7. ASSUME NEW s \in Socks, Release(s) PROVE Typed'
  <2>1. owner[s] \in Protos /\ pc' \in [Socks -> Places] /\ Owned'
    BY <1>7 DEF Release, Places
  <2>2. deleted' \subseteq Protos
    BY <1>7, <2>1 DEF Release
  <2>3. slot' \in [Slots -> {"posted", "serving", "repost", "lost"}]
        /\ accepted' \in [Socks -> Slots \cup {NULL}]
    BY <1>7 DEF Release, AcceptorGoesOn
  <2> QED  BY <1>7, <2>1, <2>2, <2>3 DEF Release
<1>8. ASSUME NEW a \in Slots, AcceptFails(a) \/ PostAcceptClient(a) PROVE Typed'
  BY <1>8 DEF AcceptFails, PostAcceptClient
<1>9. ASSUME NEW a \in Slots, NEW s \in Socks, AceeptClient(a, s) PROVE Typed'
  BY <1>9 DEF AceeptClient, New, Places, Protos
<1>10. ASSUME NEW p \in Protos, NEW s \in Socks, HsocketConnect(p, s) PROVE Typed'
  <2>1. sockCount[p] + 1 \in Int
    OBVIOUS
  <2>2. sockCount' \in [Protos -> Int]
    BY <1>10, <2>1 DEF HsocketConnect
  <2>3. PICK place \in {"connecting", "recving"} :
           pc' = [pc EXCEPT ![s] = place] /\ made' = [made EXCEPT ![s] = place = "recving"]
    BY <1>10 DEF HsocketConnect
  <2>4. pc' \in [Socks -> Places] /\ made' \in [Socks -> BOOLEAN]
    BY <2>3 DEF Places
  <2>5. owner' \in [Socks -> Protos \cup {NULL}] /\ Owned'
    BY <1>10, <2>3 DEF HsocketConnect
  <2> QED  BY <1>10, <2>2, <2>4, <2>5 DEF HsocketConnect
<1>11. ASSUME NEW p \in Protos, NEW s \in Socks, HsocketClose(p, s) PROVE Typed'
  BY <1>11 DEF HsocketClose
<1>12. ASSUME NEW s \in Socks, TaskUserSocketClose(s) PROVE Typed'
  <2>1. User \in Protos /\ sockCount[User] - 1 \in Int
    BY DEF Protos
  <2>2. sockCount' \in [Protos -> Int]
    BY <1>12, <2>1 DEF TaskUserSocketClose
  <2> QED  BY <1>12, <2>2 DEF TaskUserSocketClose
<1>13. CASE TimerRuns \/ TimerEnds
  BY <1>13 DEF TimerRuns, TimerEnds
<1>14. CASE DeleteTimers
  BY <1>14 DEF DeleteTimers
<1>15. CASE EventDestroy
  <2>1. Cardinality(CountedOf(User)) \in Nat
    BY CountedFinite, FS_CardinalityType
  <2>2. User \in Protos /\ sockCount[User] - Cardinality(CountedOf(User)) \in Int
    BY <2>1 DEF Protos
  <2>3. sockCount' \in [Protos -> Int]
    BY <1>15, <2>2 DEF EventDestroy
  <2> QED  BY <1>15, <2>3 DEF EventDestroy
<1>16. CASE DestroyUser
  BY <1>16 DEF DestroyUser, Protos
<1>17. CASE UNCHANGED vars
  BY <1>17 DEF vars
<1> QED  BY <1>1, <1>2, <1>3, <1>4, <1>5, <1>6, <1>7, <1>8, <1>9, <1>10, <1>11, <1>12,
            <1>13, <1>14, <1>15, <1>16, <1>17 DEF Next, Thread

\* Type correctness: TypeOK holds in every state.
THEOREM TypeCorrect == Spec => []TypeOK
<1>1. Typed => TypeOK
  BY DEF Typed
<1> QED  BY TypeInit, TypeStep, <1>1, PTL DEF Spec

-----------------------------------------------------------------------------
\* The rest of the inductive invariant.

Inside == {"inMade", "inData", "inEnd"}

\* A server's object is named by its first connection.
Born ==
    /\ \A s \in Socks : owner[s] \in Socks => owner[owner[s]] = owner[s]
    /\ \A p \in Socks : p \in deleted => owner[p] = p

\* The holder of a lock is the connection whose callback runs, or the timer.
Locked ==
    /\ \A p \in Protos, s \in Socks : lock[p] = s <=> owner[s] = p /\ pc[s] \in Inside
    /\ \A p \in Protos : lock[p] = Timer => p = User

\* Only a user's connections become invalid before they are freed.
ServersOpen == \A s \in Socks : owner[s] \in Socks /\ fd[s] = "invalid" => pc[s] = "freed"

\* left_count = 0 is known from the callback of the end to the release, and only
\* to one thread of an object, which is then alone.
Alone ==
    /\ \A s \in Socks : last[s] => pc[s] \in {"inEnd", "release"}
    /\ \A s, t \in Socks : last[s] /\ owner[s] \in Socks /\ t # s /\ owner[t] = owner[s] => Gone(t)
    /\ \A s \in Socks : owner[s] \in deleted \ {User} => Gone(s)

\* From EventDestroy on nothing of the user runs, or will.
Ending ==
    /\ user = "stopped" => lock[User] # Timer
    /\ user \in {"wait", "over"} => lock[User] = NULL /\ CountedOf(User) = {}
    /\ User \in deleted => user = "over"
    /\ user = "over" => User \in deleted /\ \A s \in Socks : owner[s] = User => pc[s] = "freed"

Core == Typed /\ Born /\ Locked /\ ServersOpen /\ Alone /\ Ending /\ CountIsOpen

-----------------------------------------------------------------------------
\* Which connections are counted after a step.

\* A step that takes or gives no count.
Quiet == owner' = owner /\ sockCount' = sockCount /\ \A t \in Socks : Counted(t)' = Counted(t)

LEMMA QuietSteps ==
    ASSUME Typed, ServersOpen,
           \/ \E s \in Socks : \/ ProcessIO(s) \/ OperationFails(s) \/ EnterCallback(s)
                               \/ EnterClose(s) /\ fd[s] = "invalid"
                               \/ LeaveCallback(s) \/ PostRecv(s) \/ Release(s)
           \/ \E a \in Slots : AcceptFails(a) \/ PostAcceptClient(a)
           \/ \E p \in Protos, s \in Socks : HsocketClose(p, s)
           \/ TimerRuns \/ TimerEnds \/ DeleteTimers \/ DestroyUser \/ UNCHANGED vars
    PROVE  Quiet
<1> USE DEF Typed, TypeOK, Quiet, Counted
<1>1. ASSUME NEW s \in Socks, ProcessIO(s) PROVE Quiet
  BY <1>1 DEF ProcessIO
<1>2. ASSUME NEW s \in Socks, OperationFails(s) PROVE Quiet
  BY <1>2 DEF OperationFails, CloseEntry
<1>3. ASSUME NEW s \in Socks, EnterCallback(s) PROVE Quiet
  BY <1>3 DEF EnterCallback
<1>4. ASSUME NEW s \in Socks, EnterClose(s), fd[s] = "invalid" PROVE Quiet
  BY <1>4 DEF EnterClose
<1>5. ASSUME NEW s \in Socks, LeaveCallback(s) PROVE Quiet
  BY <1>5 DEF LeaveCallback
<1>6. ASSUME NEW s \in Socks, PostRecv(s) PROVE Quiet
  BY <1>6 DEF PostRecv, CloseEntry
<1>7. ASSUME NEW s \in Socks, Release(s) PROVE Quiet
  BY <1>7 DEF Release
<1>8. ASSUME NEW p \in Protos, NEW s \in Socks, HsocketClose(p, s) PROVE Quiet
  BY <1>8 DEF HsocketClose, CountedOf
<1>9. ASSUME NEW a \in Slots, AcceptFails(a) \/ PostAcceptClient(a) PROVE Quiet
  BY <1>9 DEF AcceptFails, PostAcceptClient, conn
<1>10. CASE TimerRuns \/ TimerEnds \/ DeleteTimers \/ DestroyUser \/ UNCHANGED vars
  BY <1>10 DEF TimerRuns, TimerEnds, DeleteTimers, DestroyUser, vars, conn
<1> QED  BY <1>1, <1>2, <1>3, <1>4, <1>5, <1>6, <1>7, <1>8, <1>9, <1>10

LEMMA QuietCount == ASSUME Quiet, CountIsOpen PROVE CountIsOpen' /\ \A p : CountedOf(p)' = CountedOf(p)
<1>1. \A p : CountedOf(p)' = CountedOf(p)
  BY DEF Quiet, CountedOf
<1> QED  BY <1>1 DEF Quiet, CountIsOpen

LEMMA RemovedCount ==
    ASSUME Typed, CountIsOpen, NEW p \in Protos, NEW s \in CountedOf(p),
           owner' = owner, \A t \in Socks \ {s} : Counted(t)' = Counted(t), ~Counted(s)',
           sockCount' = [sockCount EXCEPT ![p] = @ - 1]
    PROVE  /\ CountIsOpen'
           /\ CountedOf(p)' = CountedOf(p) \ {s}
           /\ \A q \in Protos \ {p} : CountedOf(q)' = CountedOf(q)
<1>1. CountedOf(p)' = CountedOf(p) \ {s}
  BY DEF CountedOf
<1>2. \A q \in Protos \ {p} : CountedOf(q)' = CountedOf(q)
  BY DEF CountedOf
<1>3. Cardinality(CountedOf(p) \ {s}) = Cardinality(CountedOf(p)) - 1
  BY CountedFinite, FS_RemoveElement
<1>4. sockCount \in [Protos -> Int]
  BY DEF Typed, TypeOK
<1>5. sockCount[p] = Cardinality(CountedOf(p))
  BY DEF CountIsOpen
<1>6. sockCount'[p] = Cardinality(CountedOf(p)')
  BY <1>1, <1>3, <1>4, <1>5
<1>7. \A q \in Protos \ {p} : sockCount'[q] = Cardinality(CountedOf(q)')
  BY <1>2, <1>4 DEF CountIsOpen
<1> QED  BY <1>1, <1>2, <1>6, <1>7 DEF CountIsOpen

LEMMA AddedCount ==
    ASSUME Typed, CountIsOpen, NEW p \in Protos, NEW s \in Socks,
           pc[s] = "unused", owner' = [owner EXCEPT ![s] = p],
           \A t \in Socks \ {s} : Counted(t)' = Counted(t), Counted(s)',
           sockCount' = [sockCount EXCEPT ![p] = @ + 1]
    PROVE  /\ CountIsOpen'
           /\ CountedOf(p)' = CountedOf(p) \cup {s}
           /\ \A q \in Protos \ {p} : CountedOf(q)' = CountedOf(q)
<1>0. owner \in [Socks -> Protos \cup {NULL}] /\ ~Counted(s)
  BY DEF Typed, TypeOK, Counted
<1>1. CountedOf(p)' = CountedOf(p) \cup {s} /\ s \notin CountedOf(p)
  BY <1>0 DEF CountedOf
<1>2. \A q \in Protos \ {p} : CountedOf(q)' = CountedOf(q)
  BY <1>0 DEF CountedOf
<1>3. Cardinality(CountedOf(p) \cup {s}) = Cardinality(CountedOf(p)) + 1
  BY <1>1, CountedFinite, FS_AddElement
<1>4. sockCount \in [Protos -> Int]
  BY DEF Typed, TypeOK
<1>5. sockCount[p] = Cardinality(CountedOf(p))
  BY DEF CountIsOpen
<1>6. sockCount'[p] = Cardinality(CountedOf(p)')
  BY <1>1, <1>3, <1>4, <1>5
<1>7. \A q \in Protos \ {p} : sockCount'[q] = Cardinality(CountedOf(q)')
  BY <1>2, <1>4 DEF CountIsOpen
<1> QED  BY <1>1, <1>2, <1>6, <1>7 DEF CountIsOpen

\* An object that has a counted connection has not been deleted, and no thread
\* is about to delete it.
LEMMA CountedIsAlive ==
    ASSUME Typed, Alone, NEW p \in Socks, NEW c \in CountedOf(p)
    PROVE  p \notin deleted /\ \A s \in Socks : owner[s] = p => ~last[s]
<1>1. c \in Socks /\ owner[c] = p /\ Counted(c) /\ ~Gone(c)
  BY DEF CountedOf, Counted, Gone
<1>2. p # User
  BY Names
<1> QED  BY <1>1, <1>2 DEF Alone, Counted

\* The counts are non-negative, and zero for an object without connections.
LEMMA CountZero ==
    ASSUME CountIsOpen, NEW p \in Protos
    PROVE  /\ sockCount[p] = 0 <=> CountedOf(p) = {}
           /\ \A s \in CountedOf(p) : sockCount[p] = 1 => CountedOf(p) = {s}
<1>1. sockCount[p] = Cardinality(CountedOf(p)) /\ IsFiniteSet(CountedOf(p))
  BY CountedFinite DEF CountIsOpen
<1>2. sockCount[p] = 0 <=> CountedOf(p) = {}
  BY <1>1, FS_EmptySet
<1>3. ASSUME NEW s \in CountedOf(p), sockCount[p] = 1 PROVE CountedOf(p) = {s}
  <2>1. PICK x : CountedOf(p) = {x}
    BY <1>1, <1>3, FS_Singleton
  <2> QED  BY <2>1
<1> QED  BY <1>2, <1>3

-----------------------------------------------------------------------------
LEMMA CoreInit == Init => Core
<1> SUFFICES ASSUME Init PROVE Core
  OBVIOUS
<1>1. \A p : CountedOf(p) = {}
  BY DEF Init, CountedOf, Counted
<1>2. CountIsOpen
  BY <1>1, FS_EmptySet DEF Init, CountIsOpen
<1>3. Typed
  BY TypeInit
<1>4. Born /\ Locked /\ ServersOpen
  BY Names DEF Init, Born, Locked, ServersOpen, Inside
<1>5. Alone /\ Ending
  BY DEF Init, Alone, Ending
<1> QED  BY <1>2, <1>3, <1>4, <1>5 DEF Core

LEMMA ProcessIOStep ==
    ASSUME Core, NEW s \in Socks, ProcessIO(s) PROVE Core'
<1>1. Typed'
  BY TypeStep DEF Core, Next, Thread
<1>2. Quiet /\ CountIsOpen' /\ \A p : CountedOf(p)' = CountedOf(p)
  BY QuietSteps, QuietCount DEF Core
<1> USE DEF Core, Typed, TypeOK
<1>3. Born' /\ ServersOpen'
  BY Names DEF ProcessIO, Born, ServersOpen
<1>4. Locked'
  BY Names DEF ProcessIO, Locked, Inside
<1>5. Alone'
  BY Names DEF ProcessIO, Alone, Gone
<1>6. Ending'
  BY <1>2, Names DEF ProcessIO, Ending, Locked, Inside, CountedOf, Counted, Protos
<1> QED  BY <1>1, <1>2, <1>3, <1>4, <1>5, <1>6

LEMMA OperationFailsStep ==
    ASSUME Core, NEW s \in Socks, OperationFails(s) PROVE Core'
<1>1. Typed'
  BY TypeStep DEF Core, Next, Thread
<1>2. Quiet /\ CountIsOpen' /\ \A p : CountedOf(p)' = CountedOf(p)
  BY QuietSteps, QuietCount DEF Core
<1> USE DEF Core, Typed, TypeOK
<1>3. Born' /\ ServersOpen'
  BY Names DEF OperationFails, CloseEntry, Born, ServersOpen
<1>4. Locked'
  BY Names DEF OperationFails, CloseEntry, Locked, Inside
<1>5. Alone'
  BY Names DEF OperationFails, CloseEntry, Alone, Gone
<1>6. Ending'
  BY <1>2, Names DEF OperationFails, CloseEntry, Ending, Locked, Inside, CountedOf, Counted, Protos
<1> QED  BY <1>1, <1>2, <1>3, <1>4, <1>5, <1>6

LEMMA EnterCallbackStep ==
    ASSUME Core, NEW s \in Socks, EnterCallback(s) PROVE Core'
<1>1. Typed'
  BY TypeStep DEF Core, Next, Thread
<1>2. Quiet /\ CountIsOpen' /\ \A p : CountedOf(p)' = CountedOf(p)
  BY QuietSteps, QuietCount DEF Core
<1> USE DEF Core, Typed, TypeOK
<1>3. Born' /\ ServersOpen'
  BY Names DEF EnterCallback, Born, ServersOpen
<1>4. Locked'
  BY Names DEF EnterCallback, Locked, Inside
<1>5. Alone'
  BY Names DEF EnterCallback, Alone, Gone
<1>6. Ending'
  <2>1. CASE owner[s] = User /\ fd[s] # "invalid"
    <3>1. s \in CountedOf(User)
      BY <2>1 DEF EnterCallback, CountedOf, Counted
    <3>2. user \notin {"wait", "over"} /\ user' = user
      BY <3>1 DEF Ending, EnterCallback
    <3>3. lock'[User] = s
      BY <2>1, Names DEF EnterCallback, Protos
    <3> QED  BY <3>2, <3>3, Names DEF Ending, EnterCallback
  <2>2. CASE owner[s] = User /\ fd[s] = "invalid"
    <3>1. user # "over"
      BY <2>2 DEF Ending, EnterCallback
    <3> QED  BY <1>2, <2>2, <3>1 DEF Ending, EnterCallback
  <2>3. CASE owner[s] # User
    <3>1. lock'[User] = lock[User]
      BY <2>3, Names DEF EnterCallback, Protos
    <3> QED  BY <1>2, <2>3, <3>1 DEF Ending, EnterCallback
  <2> QED  BY <2>1, <2>2, <2>3
<1> QED  BY <1>1, <1>2, <1>3, <1>4, <1>5, <1>6

LEMMA LeaveCallbackStep ==
    ASSUME Core, NEW s \in Socks, LeaveCallback(s) PROVE Core'
<1>1. Typed'
  BY TypeStep DEF Core, Next, Thread
<1>2. Quiet /\ CountIsOpen' /\ \A p : CountedOf(p)' = CountedOf(p)
  BY QuietSteps, QuietCount DEF Core
<1> USE DEF Core, Typed, TypeOK
<1>3. Born' /\ ServersOpen'
  BY Names DEF LeaveCallback, Born, ServersOpen
<1>4. Locked'
  BY Names DEF LeaveCallback, Locked, Inside
<1>5. Alone'
  BY Names DEF LeaveCallback, Alone, Gone
<1>6. Ending'
  BY <1>2, Names DEF LeaveCallback, Ending, Locked, Inside, CountedOf, Counted, Protos
<1> QED  BY <1>1, <1>2, <1>3, <1>4, <1>5, <1>6

LEMMA PostRecvStep ==
    ASSUME Core, NEW s \in Socks, PostRecv(s) PROVE Core'
<1>1. Typed'
  BY TypeStep DEF Core, Next, Thread
<1>2. Quiet /\ CountIsOpen' /\ \A p : CountedOf(p)' = CountedOf(p)
  BY QuietSteps, QuietCount DEF Core
<1> USE DEF Core, Typed, TypeOK
<1>3. Born' /\ ServersOpen'
  BY Names DEF PostRecv, CloseEntry, Born, ServersOpen
<1>4. Locked'
  BY Names DEF PostRecv, CloseEntry, Locked, Inside
<1>5. Alone'
  BY Names DEF PostRecv, CloseEntry, Alone, Gone
<1>6. Ending'
  BY <1>2, Names DEF PostRecv, CloseEntry, Ending, Locked, Inside, CountedOf, Counted, Protos
<1> QED  BY <1>1, <1>2, <1>3, <1>4, <1>5, <1>6

LEMMA ReleaseStep ==
    ASSUME Core, NEW s \in Socks, Release(s) PROVE Core'
<1>1. Typed'
  BY TypeStep DEF Core, Next, Thread
<1>2. Quiet /\ CountIsOpen' /\ \A p : CountedOf(p)' = CountedOf(p)
  BY QuietSteps, QuietCount DEF Core
<1> USE DEF Core, Typed, TypeOK
<1>3. Born' /\ ServersOpen'
  BY Names DEF Release, Born, ServersOpen
<1>4. Locked'
  BY Names DEF Release, Locked, Inside
<1>5. Alone'
  <2>1. /\ pc[s] = "release" /\ pc' = [pc EXCEPT ![s] = "freed"]
        /\ last' = [last EXCEPT ![s] = FALSE] /\ owner' = owner
    BY DEF Release
  <2>2. owner[s] \in Protos
    BY <2>1 DEF Owned
  <2>3. \A t \in Socks : Gone(t) => Gone(t)'
    BY <2>1 DEF Gone
  <2>4. Gone(s)'
    BY <2>1 DEF Gone
  <2>5. \A t \in Socks : last'[t] => pc'[t] \in {"inEnd", "release"}
    BY <2>1 DEF Alone
  <2>6. \A u, t \in Socks :
          last'[u] /\ owner'[u] \in Socks /\ t # u /\ owner'[t] = owner'[u] => Gone(t)'
    BY <2>1, <2>3 DEF Alone
  <2>7. \A t \in Socks : owner'[t] \in deleted' \ {User} => Gone(t)'
    <3>1. CASE last[s] /\ owner[s] # User
      <4>1. owner[s] \in Socks /\ deleted' = deleted \cup {owner[s]}
        BY <3>1, <2>2 DEF Protos, Release
      <4> QED  BY <2>1, <2>3, <2>4, <3>1, <4>1 DEF Alone
    <3>2. CASE ~(last[s] /\ owner[s] # User)
      BY <2>1, <2>3, <3>2 DEF Alone, Release
    <3> QED  BY <3>1, <3>2
  <2> QED  BY <2>5, <2>6, <2>7 DEF Alone
<1>6. Ending'
  BY <1>2, Names DEF Release, Ending, Locked, Inside, CountedOf, Counted, Protos
<1> QED  BY <1>1, <1>2, <1>3, <1>4, <1>5, <1>6

LEMMA HsocketCloseStep ==
    ASSUME Core, NEW p \in Protos, NEW s \in Socks, HsocketClose(p, s) PROVE Core'
<1>1. Typed'
  BY TypeStep DEF Core, Next, Thread
<1>2. Quiet /\ CountIsOpen' /\ \A q : CountedOf(q)' = CountedOf(q)
  BY QuietSteps, QuietCount DEF Core
<1> USE DEF Core, Typed, TypeOK
<1>3. Born' /\ ServersOpen'
  BY Names DEF HsocketClose, Born, ServersOpen
<1>4. Locked'
  BY Names DEF HsocketClose, Locked, Inside
<1>5. Alone'
  BY Names DEF HsocketClose, Alone, Gone
<1>6. Ending'
  BY <1>2, Names DEF HsocketClose, Ending, Locked, Inside, CountedOf, Counted, Protos
<1> QED  BY <1>1, <1>2, <1>3, <1>4, <1>5, <1>6

LEMMA AcceptsStep ==
    ASSUME Core, NEW a \in Slots, (AcceptFails(a) \/ PostAcceptClient(a)) PROVE Core'
<1>1. Typed'
  BY TypeStep DEF Core, Next, Thread
<1>2. Quiet /\ CountIsOpen' /\ \A p : CountedOf(p)' = CountedOf(p)
  BY QuietSteps, QuietCount DEF Core
<1> USE DEF Core, Typed, TypeOK
<1>3. Born' /\ ServersOpen'
  BY Names DEF AcceptFails, PostAcceptClient, conn, Born, ServersOpen
<1>4. Locked'
  BY Names DEF AcceptFails, PostAcceptClient, conn, Locked, Inside
<1>5. Alone'
  BY Names DEF AcceptFails, PostAcceptClient, conn, Alone, Gone
<1>6. Ending'
  BY <1>2, Names DEF AcceptFails, PostAcceptClient, conn, Ending, Locked, Inside, CountedOf, Counted, Protos
<1> QED  BY <1>1, <1>2, <1>3, <1>4, <1>5, <1>6

LEMMA TimersStep ==
    ASSUME Core, (TimerRuns \/ TimerEnds \/ DeleteTimers) PROVE Core'
<1>1. Typed'
  BY TypeStep DEF Core, Next, Thread
<1>2. Quiet /\ CountIsOpen' /\ \A p : CountedOf(p)' = CountedOf(p)
  BY QuietSteps, QuietCount DEF Core
<1> USE DEF Core, Typed, TypeOK
<1>3. Born' /\ ServersOpen'
  BY Names DEF TimerRuns, TimerEnds, DeleteTimers, conn, Born, ServersOpen
<1>4. Locked'
  BY Names DEF TimerRuns, TimerEnds, DeleteTimers, conn, Locked, Inside
<1>5. Alone'
  BY Names DEF TimerRuns, TimerEnds, DeleteTimers, conn, Alone, Gone
<1>6. Ending'
  BY <1>2, Names DEF TimerRuns, TimerEnds, DeleteTimers, conn, Ending, Locked, Inside, CountedOf, Counted, Protos
<1> QED  BY <1>1, <1>2, <1>3, <1>4, <1>5, <1>6

LEMMA DestroyUserStep ==
    ASSUME Core, DestroyUser PROVE Core'
<1>1. Typed'
  BY TypeStep DEF Core, Next, Thread
<1>2. Quiet /\ CountIsOpen' /\ \A p : CountedOf(p)' = CountedOf(p)
  BY QuietSteps, QuietCount DEF Core
<1> USE DEF Core, Typed, TypeOK
<1>3. Born' /\ ServersOpen'
  BY Names DEF DestroyUser, conn, Born, ServersOpen
<1>4. Locked'
  BY Names DEF DestroyUser, conn, Locked, Inside
<1>5. Alone'
  BY Names DEF DestroyUser, conn, Alone, Gone
<1>6. Ending'
  <2>1. user = "wait" /\ lock[User] = NULL /\ CountedOf(User) = {}
    BY DEF DestroyUser, Ending
  <2>2. sockCount[User] = 0
    BY <2>1, CountZero DEF Protos
  <2>3. \A s \in Socks : owner[s] = User => pc[s] = "freed"
    BY <2>1 DEF DestroyUser, CountedOf
  <2> QED  BY <1>2, <2>1, <2>2, <2>3 DEF DestroyUser, conn, Ending
<1> QED  BY <1>1, <1>2, <1>3, <1>4, <1>5, <1>6

LEMMA StutterStep ==
    ASSUME Core, UNCHANGED vars PROVE Core'
<1>1. Typed'
  BY TypeStep DEF Core, Next, Thread
<1>2. Quiet /\ CountIsOpen' /\ \A p : CountedOf(p)' = CountedOf(p)
  BY QuietSteps, QuietCount DEF Core
<1> USE DEF Core, Typed, TypeOK
<1>3. Born' /\ ServersOpen'
  BY Names DEF vars, Born, ServersOpen
<1>4. Locked'
  BY Names DEF vars, Locked, Inside
<1>5. Alone'
  BY Names DEF vars, Alone, Gone
<1>6. Ending'
  BY <1>2, Names DEF vars, Ending, Locked, Inside, CountedOf, Counted, Protos
<1> QED  BY <1>1, <1>2, <1>3, <1>4, <1>5, <1>6

-----------------------------------------------------------------------------
\* The steps that take or give counts.

LEMMA AceeptClientStep ==
    ASSUME Core, NEW a \in Slots, NEW s \in Socks, AceeptClient(a, s) PROVE Core'
<1>1. Typed'
  BY TypeStep DEF Core, Next
<1> USE DEF Core, Typed, TypeOK
<1>2. pc[s] = "unused" /\ owner[s] = NULL /\ s \in Protos
  BY DEF AceeptClient, New, Owned, Protos
<1>3. \A t \in Socks : owner[t] # s
  BY <1>2, Names DEF Born
<1>4. CountedOf(s) = {} /\ sockCount[s] = 0
  BY <1>2, <1>3, CountZero DEF CountedOf
<1>5. sockCount' = [sockCount EXCEPT ![s] = @ + 1]
  BY <1>2, <1>4 DEF AceeptClient
<1>6. (\A t \in Socks \ {s} : Counted(t)' = Counted(t)) /\ Counted(s)'
  BY DEF AceeptClient, Counted
<1>7. CountIsOpen' /\ \A q \in Protos \ {s} : CountedOf(q)' = CountedOf(q)
  BY <1>2, <1>5, <1>6, AddedCount DEF AceeptClient
<1>8. Born' /\ ServersOpen'
  BY <1>2, <1>3, Names DEF AceeptClient, Born, ServersOpen
<1>9. Locked'
  BY <1>2, <1>3, Names DEF AceeptClient, Locked, Inside
<1>10. s \notin deleted /\ ~last[s]
  BY <1>2, Names DEF Born, Alone
<1>11. Alone'
  BY <1>2, <1>3, <1>10, Names DEF AceeptClient, Alone, Gone
<1>12. lock'[User] = lock[User] /\ CountedOf(User)' = CountedOf(User)
  BY <1>7, Names DEF AceeptClient, Protos
<1>13. Ending'
  BY <1>12, Names DEF AceeptClient, Ending
<1> QED  BY <1>1, <1>7, <1>8, <1>9, <1>11, <1>13

LEMMA HsocketConnectStep ==
    ASSUME Core, NEW p \in Protos, NEW s \in Socks, HsocketConnect(p, s) PROVE Core'
<1>1. Typed'
  BY TypeStep DEF Core, Next
<1> USE DEF Core, Typed, TypeOK
<1>2. pc[s] = "unused" /\ owner[s] = NULL
  BY DEF HsocketConnect, New, Owned
<1>3. PICK place \in {"connecting", "recving"} : pc' = [pc EXCEPT ![s] = place]
  BY DEF HsocketConnect
<1>4. (\A t \in Socks \ {s} : Counted(t)' = Counted(t)) /\ Counted(s)'
  BY <1>3 DEF HsocketConnect, Counted
<1>5. /\ CountIsOpen'
      /\ \A q \in Protos \ {p} : CountedOf(q)' = CountedOf(q)
  BY <1>2, <1>4, AddedCount DEF HsocketConnect
<1>6. p \in Socks => \E c \in Socks : owner[c] = p
  <2>1. CASE p \in Socks
    <3>1. CountedOf(p) # {}
      BY <2>1, Names, CountZero DEF HsocketConnect
    <3> QED  BY <3>1 DEF CountedOf
  <2> QED  BY <2>1
<1>7. Born' /\ ServersOpen'
  BY <1>2, <1>3, <1>6, Names DEF HsocketConnect, Born, ServersOpen
<1>8. Locked'
  BY <1>2, <1>3, Names DEF HsocketConnect, Locked, Inside
<1>9. p \in Socks => p \notin deleted /\ \A t \in Socks : owner[t] = p => ~last[t]
  BY Names, CountZero, CountedIsAlive DEF HsocketConnect
<1>10. p = User \/ p \in Socks
  BY DEF Protos
<1>11. ~last[s]
  BY <1>2 DEF Alone
<1>12. Alone'
  <2>1. \A t \in Socks \ {s} : Gone(t)' = Gone(t)
    BY <1>3 DEF HsocketConnect, Gone
  <2>2. /\ owner' = [owner EXCEPT ![s] = p] /\ last' = last /\ deleted' = deleted
    BY DEF HsocketConnect
  <2> QED  BY <1>2, <1>3, <1>9, <1>10, <1>11, <2>1, <2>2, Names DEF Alone
<1>13. Ending'
  <2>1. CASE p = User
    <3>1. user \notin {"wait", "over"}
      BY <2>1 DEF HsocketConnect, Busy, Ending
    <3> QED  BY <3>1 DEF HsocketConnect, Ending
  <2>2. CASE p # User
    <3>1. CountedOf(User)' = CountedOf(User)
      BY <1>5, <2>2 DEF Protos
    <3> QED  BY <1>2, <2>2, <3>1, <1>3 DEF HsocketConnect, Ending
  <2> QED  BY <2>1, <2>2
<1> QED  BY <1>1, <1>5, <1>7, <1>8, <1>12, <1>13

LEMMA TaskUserSocketCloseStep ==
    ASSUME Core, NEW s \in Socks, TaskUserSocketClose(s) PROVE Core'
<1>1. Typed'
  BY TypeStep DEF Core, Next
<1> USE DEF Core, Typed, TypeOK
<1>2. User \in Protos /\ s \in CountedOf(User)
  BY DEF TaskUserSocketClose, Protos
<1>3. (\A t \in Socks \ {s} : Counted(t)' = Counted(t)) /\ ~Counted(s)'
  BY DEF TaskUserSocketClose, Counted
<1>4. CountIsOpen' /\ CountedOf(User)' = CountedOf(User) \ {s}
  BY <1>2, <1>3, RemovedCount DEF TaskUserSocketClose
<1>5. Born' /\ Locked'
  BY DEF TaskUserSocketClose, Born, Locked
<1>6. ServersOpen'
  BY <1>2, Names DEF TaskUserSocketClose, ServersOpen, CountedOf
<1>7. Alone'
  BY DEF TaskUserSocketClose, Alone, Gone
<1>8. Ending'
  BY <1>4 DEF TaskUserSocketClose, Ending
<1> QED  BY <1>1, <1>4, <1>5, <1>6, <1>7, <1>8

LEMMA EnterCloseStep ==
    ASSUME Core, NEW s \in Socks, EnterClose(s) PROVE Core'
<1>1. Typed'
  BY TypeStep DEF Core, Next, Thread
<1> USE DEF Core, Typed, TypeOK
<1>2. pc[s] = "closing" /\ lock[owner[s]] = NULL /\ owner[s] \in Protos
  BY DEF EnterClose, Owned
<1>3. CASE fd[s] = "invalid"
  <2>1. CountIsOpen' /\ \A p : CountedOf(p)' = CountedOf(p)
    BY <1>3, QuietSteps, QuietCount
  <2>2. pc' = [pc EXCEPT ![s] = "release"] /\ UNCHANGED <<sockCount, last, lock>>
    BY <1>3 DEF EnterClose
  <2>3. Born' /\ ServersOpen' /\ Locked'
    BY <1>2, <1>3, <2>2, Names DEF EnterClose, Born, ServersOpen, Locked, Inside
  <2>4. Alone'
    BY <1>2, <2>2 DEF EnterClose, Alone, Gone
  <2>5. Ending'
    BY <1>2, <2>1, <2>2 DEF EnterClose, Ending
  <2> QED  BY <1>1, <2>1, <2>3, <2>4, <2>5
<1>4. CASE fd[s] # "invalid"
  <2> DEFINE p == owner[s]
  <2>1. s \in CountedOf(p)
    BY <1>2, <1>4 DEF CountedOf, Counted
  <2>2. /\ pc' = [pc EXCEPT ![s] = "inEnd"] /\ last' = [last EXCEPT ![s] = sockCount[p] = 1]
        /\ sockCount' = [sockCount EXCEPT ![p] = @ - 1] /\ lock' = [lock EXCEPT ![p] = s]
    BY <1>4 DEF EnterClose
  <2>3. (\A t \in Socks \ {s} : Counted(t)' = Counted(t)) /\ ~Counted(s)'
    BY <2>2 DEF EnterClose, Counted
  <2>4. /\ CountIsOpen'
        /\ \A q \in Protos \ {p} : CountedOf(q)' = CountedOf(q)
    <3> HIDE DEF p
    <3>1. p \in Protos
      BY <1>2 DEF p
    <3> QED  BY <2>1, <2>2, <2>3, <3>1, RemovedCount DEF EnterClose
  <2>5. Born' /\ ServersOpen'
    BY <1>2, <1>4, <2>2 DEF EnterClose, Born, ServersOpen
  <2>6. Locked'
    BY <1>2, <2>2, Names DEF EnterClose, Locked, Inside
  <2>7. \A t \in Socks : last'[t] => pc'[t] \in {"inEnd", "release"}
    BY <2>2 DEF Alone
  <2>8. \A t \in Socks : Gone(t) => Gone(t)'
    BY <1>2, <2>2 DEF Gone
  <2>9. p \in Socks => p \notin deleted /\ \A t \in Socks : owner[t] = p => ~last[t]
    BY <2>1, CountedIsAlive
  <2>10. ASSUME sockCount[p] = 1, p \in Socks, NEW t \in Socks, t # s, owner[t] = p
         PROVE  Gone(t)'
    <3>1. ~Counted(t)
      BY <1>2, <2>1, <2>10, CountZero DEF CountedOf
    <3>2. pc[t] # "inEnd"
      <4>1. p \in Protos /\ lock[p] # t
        BY <1>2, Names
      <4>2. owner[t] = p /\ (lock[p] = t <=> owner[t] = p /\ pc[t] \in Inside)
        BY <2>10, <4>1 DEF Locked
      <4> QED  BY <4>1, <4>2 DEF Inside
    <3>3. pc[t] # "unused"
      BY <2>10, Names DEF Owned
    <3>4. pc[t] \in {"release", "freed"}
      BY <2>10, <3>1, <3>2, <3>3 DEF Counted, ServersOpen
    <3> QED  BY <2>2, <2>8, <2>9, <2>10, <3>4 DEF Gone
  <2>11. \A u, t \in Socks :
           last'[u] /\ owner'[u] \in Socks /\ t # u /\ owner'[t] = owner'[u] => Gone(t)'
    <3> SUFFICES ASSUME NEW u \in Socks, NEW t \in Socks,
                        last'[u], owner'[u] \in Socks, t # u, owner'[t] = owner'[u]
                 PROVE  Gone(t)'
      OBVIOUS
    <3>1. owner' = owner
      BY DEF EnterClose
    <3>2. CASE u = s
      BY <2>2, <2>10, <3>1, <3>2
    <3>3. CASE u # s
      BY <2>2, <2>8, <3>1, <3>3 DEF Alone
    <3> QED  BY <3>2, <3>3
  <2>12. \A t \in Socks : owner'[t] \in deleted' \ {User} => Gone(t)'
    BY <2>8 DEF EnterClose, Alone
  <2>13. Ending'
    <3>1. CASE p = User
      <4>1. user \notin {"wait", "over"} /\ user' = user /\ lock'[User] # Timer
        BY <1>2, <2>1, <2>2, <3>1, Names DEF Ending, EnterClose
      <4> QED  BY <4>1 DEF Ending, EnterClose
    <3>2. CASE p # User
      <4>1. CountedOf(User)' = CountedOf(User)
        BY <2>4, <3>2 DEF Protos
      <4> QED  BY <1>2, <2>2, <3>2, <4>1 DEF EnterClose, Ending
    <3> QED  BY <3>1, <3>2
  <2> QED  BY <1>1, <2>4, <2>5, <2>6, <2>7, <2>11, <2>12, <2>13 DEF Alone
<1> QED  BY <1>3, <1>4

LEMMA EventDestroyStep ==
    ASSUME Core, EventDestroy PROVE Core'
<1>1. Typed'
  BY TypeStep DEF Core, Next
<1> USE DEF Core, Typed, TypeOK
<1>2. /\ fd' = [s \in Socks |-> IF s \in CountedOf(User) THEN "invalid" ELSE fd[s]]
      /\ UNCHANGED <<pc, owner, made, last, lock, deleted>>
  BY DEF EventDestroy
<1>3. CountedOf(User)' = {}
  BY <1>2 DEF CountedOf, Counted
<1>4. \A q \in Protos \ {User} : CountedOf(q)' = CountedOf(q)
  BY <1>2 DEF CountedOf, Counted
<1>5. User \in Protos /\ sockCount[User] = Cardinality(CountedOf(User))
  BY DEF Protos, CountIsOpen
<1>6. sockCount'[User] = 0 /\ \A q \in Protos \ {User} : sockCount'[q] = sockCount[q]
  <2>1. Cardinality(CountedOf(User)) \in Nat
    BY CountedFinite, FS_CardinalityType
  <2> QED  BY <1>5, <2>1 DEF EventDestroy
<1>7. CountIsOpen'
  <2>1. Cardinality({}) = 0
    BY FS_EmptySet
  <2> QED  BY <1>3, <1>4, <1>5, <1>6, <2>1 DEF CountIsOpen
<1>8. Born' /\ Locked' /\ Alone'
  BY <1>2 DEF Born, Locked, Alone, Gone
<1>9. ServersOpen'
  BY <1>2, Names DEF ServersOpen, CountedOf
<1>10. Ending'
  BY <1>2, <1>3 DEF EventDestroy, Ending
<1> QED  BY <1>1, <1>7, <1>8, <1>9, <1>10

LEMMA CoreStep == Core /\ [Next]_vars => Core'
<1> SUFFICES ASSUME Core, [Next]_vars PROVE Core'
  OBVIOUS
<1>1. ASSUME NEW s \in Socks, Thread(s) PROVE Core'
  BY <1>1, ProcessIOStep, OperationFailsStep, EnterCallbackStep, EnterCloseStep,
     LeaveCallbackStep, PostRecvStep, ReleaseStep DEF Thread
<1>2. CASE \E a \in Slots : AcceptFails(a) \/ PostAcceptClient(a)
  BY <1>2, AcceptsStep
<1>3. CASE \E a \in Slots, s \in Socks : AceeptClient(a, s)
  BY <1>3, AceeptClientStep
<1>4. CASE \E p \in Protos, s \in Socks : HsocketConnect(p, s) \/ HsocketClose(p, s)
  BY <1>4, HsocketConnectStep, HsocketCloseStep
<1>5. CASE \E s \in Socks : TaskUserSocketClose(s)
  BY <1>5, TaskUserSocketCloseStep
<1>6. CASE TimerRuns \/ TimerEnds \/ DeleteTimers \/ EventDestroy \/ DestroyUser
  BY <1>6, TimersStep, EventDestroyStep, DestroyUserStep
<1>7. CASE UNCHANGED vars
  BY <1>7, StutterStep
<1> QED  BY <1>1, <1>2, <1>3, <1>4, <1>5, <1>6, <1>7 DEF Next

-----------------------------------------------------------------------------
\* The count of an object is the number of the connections it still answers for.
THEOREM CountCorrect == Spec => []CountIsOpen
<1>1. Core => CountIsOpen
  BY DEF Core
<1> QED  BY CoreInit, CoreStep, <1>1, PTL DEF Spec

\* The thread that deletes an object is alone with it, and nobody follows.
THEOREM DeleterIsAlone == Spec => []DeletedAlone
<1>1. Core => DeletedAlone
  <2> SUFFICES ASSUME Core PROVE DeletedAlone
    OBVIOUS
  <2>1. ASSUME NEW s \in Socks, pc[s] = "release", last[s], owner[s] # User,
               NEW t \in Socks \ {s}, owner[t] = owner[s]
        PROVE  Gone(t)
    <3>1. owner[s] \in Socks
      BY <2>1 DEF Core, Typed, TypeOK, Owned, Protos
    <3> QED  BY <2>1, <3>1 DEF Core, Alone
  <2>2. \A s \in Socks : owner[s] \in deleted \ {User} => Gone(s)
    BY DEF Core, Alone
  <2> QED  BY <2>1, <2>2 DEF DeletedAlone
<1> QED  BY CoreInit, CoreStep, <1>1, PTL DEF Spec

\* destroy_task frees the user once its connections have left the reactor.
THEOREM UserIsFreed == Spec => []UserEndsClean
<1>1. Core => UserEndsClean
  BY DEF Core, Ending, UserEndsClean
<1> QED  BY CoreInit, CoreStep, <1>1, PTL DEF Spec

-----------------------------------------------------------------------------
\* The refinement of SessionLife.

LEMMA LiveIsCounted == ASSUME NEW p \in Protos PROVE Life!LiveOf(p) = CountedOf(p)
BY DEF Life!LiveOf, LifeOf, CountedOf, Counted

\* A quiet step that makes nothing and frees nothing is not seen.
LEMMA Unseen ==
    ASSUME Quiet, deleted' = deleted,
           \A t \in Socks : pc'[t] = "unused" <=> pc[t] = "unused",
           \A t \in Socks : Counted(t) => made'[t] = made[t]
    PROVE  UNCHANGED Life!vars
<1>1. \A t \in Socks : LifeOf(t)' = LifeOf(t)
  BY DEF LifeOf, Quiet
<1> QED  BY <1>1 DEF Life!vars, Quiet

LEMMA OverStep ==
    ASSUME NEW p \in Protos, NEW S \in SUBSET CountedOf(p), S # {},
           owner' = owner, made' = made, deleted' = deleted,
           \A t \in Socks : pc'[t] = "unused" <=> pc[t] = "unused",
           \A t \in Socks : Counted(t)' <=> Counted(t) /\ t \notin S
    PROVE  Life!Next
<1>1. \A t \in Socks : LifeOf(t)' = IF t \in S THEN "over" ELSE LifeOf(t)
  <2> SUFFICES ASSUME NEW t \in Socks
               PROVE  LifeOf(t)' = IF t \in S THEN "over" ELSE LifeOf(t)
    OBVIOUS
  <2>1. CASE t \in S
    <3>1. Counted(t) /\ ~Counted(t)' /\ pc[t] # "unused"
      BY <2>1 DEF CountedOf, Counted
    <3> QED  BY <2>1, <3>1 DEF LifeOf
  <2>2. CASE t \notin S
    BY <2>2 DEF LifeOf
  <2> QED  BY <2>1, <2>2
<1>2. [t \in Socks |-> LifeOf(t)'] = [t \in Socks |-> IF t \in S THEN "over" ELSE [u \in Socks |-> LifeOf(u)][t]]
  BY <1>1
<1>3. Life!Over(p)
  BY <1>2, LiveIsCounted DEF Life!Over
<1> QED  BY <1>3, Names DEF Life!Next, Protos

LEMMA LifeStep == Core /\ [Next]_vars => [Life!Next]_(Life!vars)
<1> SUFFICES ASSUME Core, [Next]_vars PROVE Life!Next \/ UNCHANGED Life!vars
  OBVIOUS
<1> USE DEF Core, Typed, TypeOK
<1>1. ASSUME NEW s \in Socks, ProcessIO(s) \/ OperationFails(s) \/ LeaveCallback(s) \/ PostRecv(s)
      PROVE  UNCHANGED Life!vars
  <2>1. Quiet
    BY <1>1, QuietSteps
  <2> QED  BY <1>1, <2>1, Unseen DEF ProcessIO, OperationFails, LeaveCallback, PostRecv, CloseEntry
<1>2. ASSUME NEW s \in Socks, EnterCallback(s) PROVE Life!Next \/ UNCHANGED Life!vars
  <2>1. Quiet
    BY <1>2, QuietSteps
  <2>2. \A t \in Socks : pc'[t] = "unused" <=> pc[t] = "unused"
    BY <1>2 DEF EnterCallback
  <2>3. CASE fd[s] = "invalid" \/ made[s]
    <3>1. \A t \in Socks : made'[t] = made[t]
      BY <1>2, <2>3 DEF EnterCallback
    <3> QED  BY <1>2, <2>1, <2>2, <3>1, Unseen DEF EnterCallback
  <2>4. CASE fd[s] # "invalid" /\ ~made[s]
    <3>1. Counted(s) /\ made' = [made EXCEPT ![s] = TRUE]
      BY <1>2, <2>4 DEF EnterCallback, Counted
    <3>2. \A t \in Socks : LifeOf(t)' = IF t = s THEN "open" ELSE LifeOf(t)
      BY <2>1, <2>2, <3>1 DEF LifeOf, Quiet, Counted
    <3>3. LifeOf(s) = "opening"
      BY <2>4, <3>1 DEF LifeOf, Counted
    <3>4. [t \in Socks |-> LifeOf(t)'] = [[t \in Socks |-> LifeOf(t)] EXCEPT ![s] = "open"]
      BY <3>2
    <3>5. Life!Made(s)
      BY <1>2, <3>3, <3>4 DEF Life!Made, EnterCallback
    <3> QED  BY <3>5 DEF Life!Next
  <2> QED  BY <2>3, <2>4
<1>3. ASSUME NEW s \in Socks, EnterClose(s) PROVE Life!Next \/ UNCHANGED Life!vars
  <2>1. CASE fd[s] = "invalid"
    <3>1. Quiet
      BY <1>3, <2>1, QuietSteps
    <3> QED  BY <1>3, <2>1, <3>1, Unseen DEF EnterClose
  <2>2. CASE fd[s] # "invalid"
    <3>1. owner[s] \in Protos /\ {s} \in SUBSET CountedOf(owner[s])
      BY <1>3, <2>2 DEF EnterClose, Owned, CountedOf, Counted
    <3>2. \A t \in Socks : pc'[t] = "unused" <=> pc[t] = "unused"
      BY <1>3 DEF EnterClose
    <3>3. \A t \in Socks : Counted(t)' <=> Counted(t) /\ t \notin {s}
      BY <1>3, <2>2 DEF EnterClose, Counted
    <3> QED  BY <1>3, <3>1, <3>2, <3>3, OverStep DEF EnterClose
  <2> QED  BY <2>1, <2>2
<1>4. ASSUME NEW s \in Socks, Release(s) PROVE Life!Next \/ UNCHANGED Life!vars
  <2>1. Quiet /\ pc[s] = "release" /\ ~Counted(s)
    BY <1>4, QuietSteps DEF Release, Counted
  <2>2. \A t \in Socks : LifeOf(t)' = LifeOf(t)
    BY <1>4, <2>1 DEF Release, LifeOf, Quiet
  <2>3. CASE last[s] /\ owner[s] # User
    <3>1. owner[s] \in Socks /\ owner[s] \in Protos
      BY <2>1, <2>3 DEF Owned, Protos
    <3>2. owner[s] \notin deleted
      BY <2>1, <2>3 DEF Alone, Gone
    <3>3. CountedOf(owner[s]) = {}
      BY <2>1, <2>3, <3>1 DEF Alone, Gone, CountedOf, Counted
    <3>4. Life!Free(owner[s])
      BY <1>4, <2>2, <2>3, <3>1, <3>2, <3>3, LiveIsCounted DEF Life!Free, Release
    <3> QED  BY <3>1, <3>4 DEF Life!Next
  <2>4. CASE ~(last[s] /\ owner[s] # User)
    BY <1>4, <2>2, <2>4 DEF Release, Life!vars
  <2> QED  BY <2>3, <2>4
<1>5. ASSUME NEW a \in Slots, NEW s \in Socks, AceeptClient(a, s) PROVE Life!Next
  <2>1. pc[s] = "unused" /\ owner[s] = NULL
    BY <1>5 DEF AceeptClient, New, Owned
  <2>2. \A t \in Socks : owner[t] # s
    BY <2>1, Names DEF Born
  <2>3. \A t \in Socks : LifeOf(t)' = IF t = s THEN "open" ELSE LifeOf(t)
    BY <1>5, <2>1 DEF AceeptClient, LifeOf, Counted
  <2>4. [t \in Socks |-> LifeOf(t)'] = [[t \in Socks |-> LifeOf(t)] EXCEPT ![s] = "open"]
    BY <2>3
  <2>5. LifeOf(s) = "unused"
    BY <2>1 DEF LifeOf
  <2>6. Life!Accept(s, s)
    BY <1>5, <2>2, <2>4, <2>5 DEF AceeptClient, Life!Accept
  <2> QED  BY <2>6 DEF Life!Next
<1>6. ASSUME NEW p \in Protos, NEW s \in Socks, HsocketConnect(p, s) PROVE Life!Next
  <2>1. pc[s] = "unused" /\ LifeOf(s) = "unused"
    BY <1>6 DEF HsocketConnect, New, LifeOf
  <2>2. p \in Socks => CountedOf(p) # {} /\ p \notin deleted
    BY <1>6, Names, CountZero, CountedIsAlive DEF HsocketConnect
  <2>3. p = User => p \notin deleted
    BY <1>6 DEF HsocketConnect, Busy, Ending
  <2>4. PICK place \in {"connecting", "recving"} :
          pc' = [pc EXCEPT ![s] = place] /\ made' = [made EXCEPT ![s] = place = "recving"]
    BY <1>6 DEF HsocketConnect
  <2> DEFINE l == IF place = "recving" THEN "open" ELSE "opening"
  <2>5. \A t \in Socks : LifeOf(t)' = IF t = s THEN l ELSE LifeOf(t)
    BY <1>6, <2>1, <2>4 DEF HsocketConnect, LifeOf, Counted
  <2>6. [t \in Socks |-> LifeOf(t)'] = [[t \in Socks |-> LifeOf(t)] EXCEPT ![s] = l]
    BY <2>5
  <2>7. Life!Connect(s, p)
    BY <1>6, <2>1, <2>2, <2>3, <2>6, LiveIsCounted DEF HsocketConnect, Life!Connect, Protos
  <2> QED  BY <2>7 DEF Life!Next, Protos
<1>7. ASSUME NEW s \in Socks, TaskUserSocketClose(s) PROVE Life!Next
  <2>1. User \in Protos /\ {s} \in SUBSET CountedOf(User)
    BY <1>7 DEF TaskUserSocketClose, Protos
  <2>2. \A t \in Socks : Counted(t)' <=> Counted(t) /\ t \notin {s}
    BY <1>7 DEF TaskUserSocketClose, Counted
  <2> QED  BY <1>7, <2>1, <2>2, OverStep DEF TaskUserSocketClose
<1>8. ASSUME EventDestroy PROVE Life!Next \/ UNCHANGED Life!vars
  <2>1. \A t \in Socks : Counted(t)' <=> Counted(t) /\ t \notin CountedOf(User)
    BY <1>8 DEF EventDestroy, Counted, CountedOf
  <2>2. CASE CountedOf(User) # {}
    BY <1>8, <2>1, <2>2, OverStep DEF EventDestroy, Protos
  <2>3. CASE CountedOf(User) = {}
    <3>1. \A t \in Socks : LifeOf(t)' = LifeOf(t)
      BY <1>8, <2>1, <2>3 DEF EventDestroy, LifeOf
    <3> QED  BY <1>8, <3>1 DEF EventDestroy, Life!vars
  <2> QED  BY <2>2, <2>3
<1>9. ASSUME DestroyUser PROVE Life!Next
  <2>1. Quiet /\ User \in Protos
    BY <1>9, QuietSteps DEF Protos
  <2>2. CountedOf(User) = {} /\ User \notin deleted /\ sockCount[User] = 0
    BY <1>9, <2>1, CountZero DEF DestroyUser, Ending
  <2>3. \A t \in Socks : LifeOf(t)' = LifeOf(t)
    BY <1>9, <2>1 DEF DestroyUser, conn, LifeOf, Counted
  <2>4. Life!Free(User)
    BY <1>9, <2>1, <2>2, <2>3, LiveIsCounted, Names DEF Life!Free, DestroyUser, conn
  <2> QED  BY <2>4 DEF Life!Next
<1>10. ASSUME \/ \E a \in Slots : AcceptFails(a) \/ PostAcceptClient(a)
              \/ \E p \in Protos, s \in Socks : HsocketClose(p, s)
              \/ TimerRuns \/ TimerEnds \/ DeleteTimers \/ UNCHANGED vars
       PROVE  UNCHANGED Life!vars
  <2>1. Quiet
    BY <1>10, QuietSteps
  <2>2. deleted' = deleted /\ made' = made /\ pc' = pc
    BY <1>10 DEF AcceptFails, PostAcceptClient, HsocketClose, TimerRuns, TimerEnds, DeleteTimers,
                 vars, conn
  <2> QED  BY <2>1, <2>2, Unseen
<1> QED  BY <1>1, <1>2, <1>3, <1>4, <1>5, <1>6, <1>7, <1>8, <1>9, <1>10 DEF Next, Thread

\* The completion port reactor implements SessionLife.
THEOREM ReactorImplementsLife == Spec => LifeSpec
<1>1. Init => Life!Init
  BY DEF Init, Life!Init, LifeOf
<1> QED  BY <1>1, CoreInit, CoreStep, LifeStep, PTL DEF Spec, LifeSpec, Life!Spec
===========================================================================
