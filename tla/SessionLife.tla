---------------------------- MODULE SessionLife ----------------------------
(***************************************************************************)
(* What a reactor promises to the objects that own its connections.  A     *)
(* connection is opened for an object, perhaps established later, and is   *)
(* over exactly once.  An object that a server created for a client lives  *)
(* on its connections: it may open more of them only while it has one, and *)
(* it is freed when the last one is over, after which nothing happens to   *)
(* any of its connections.                                                 *)
(***************************************************************************)
CONSTANTS Socks,        \* the connections
          Servers,      \* the objects made for a client of the server
          Clients,      \* the objects the program made itself
          NULL

VARIABLES life,         \* [Socks -> {"unused", "opening", "open", "over"}]
          owner,        \* the object of a connection
          freed         \* the objects that are gone

vars == <<life, owner, freed>>

LiveOf(p) == {s \in Socks : owner[s] = p /\ life[s] \in {"opening", "open"}}

Init ==
    /\ life = [s \in Socks |-> "unused"]
    /\ owner = [s \in Socks |-> NULL]
    /\ freed = {}

\* A client comes in: a new object with its first connection.
Accept(s, p) ==
    /\ life[s] = "unused"
    /\ \A t \in Socks : owner[t] # p
    /\ life' = [life EXCEPT ![s] = "open"]
    /\ owner' = [owner EXCEPT ![s] = p]
    /\ UNCHANGED freed

\* An object opens a connection: TCP is established later, UDP is at once.
Connect(s, p) ==
    /\ life[s] = "unused"
    /\ p \notin freed
    /\ p \in Servers => LiveOf(p) # {}
    /\ \E l \in {"opening", "open"} : life' = [life EXCEPT ![s] = l]
    /\ owner' = [owner EXCEPT ![s] = p]
    /\ UNCHANGED freed

Made(s) ==
    /\ life[s] = "opening"
    /\ life' = [life EXCEPT ![s] = "open"]
    /\ UNCHANGED <<owner, freed>>

\* Connections of one object are over: each was refused, lost, or given up by
\* its object, which may give up all it has in one step.
Over(p) ==
    \E S \in SUBSET LiveOf(p) :
        /\ S # {}
        /\ life' = [s \in Socks |-> IF s \in S THEN "over" ELSE life[s]]
        /\ UNCHANGED <<owner, freed>>

Free(p) ==
    /\ p \notin freed
    /\ LiveOf(p) = {}
    /\ p \in Servers => \E s \in Socks : owner[s] = p
    /\ freed' = freed \cup {p}
    /\ UNCHANGED <<life, owner>>

Next ==
    \/ \E s \in Socks : Made(s)
    \/ \E s \in Socks, p \in Servers : Accept(s, p)
    \/ \E s \in Socks, p \in Servers \cup Clients : Connect(s, p)
    \/ \E p \in Servers \cup Clients : Over(p) \/ Free(p)

Spec == Init /\ [][Next]_vars
============================================================================
