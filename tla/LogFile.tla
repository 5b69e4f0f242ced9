------------------------------- MODULE LogFile -------------------------------
(***************************************************************************)
(* The log files of the process on Linux (third/log.c): an array of slots  *)
(* that create_new_task and the start of an agent fill, that the worker    *)
(* threads of tasks clear (destroy_task) and that the main loop scans for  *)
(* files to rotate, each with the number of a descriptor of the process.   *)
(* A slot has a lock, but whether it is free is read without it, and       *)
(* filling and clearing the slot overwrite the lock as well.               *)
(*                                                                         *)
(* Descriptors are numbers the system gives out again once they are        *)
(* closed; the sockets of the process take their numbers from the same     *)
(* table.  What a log contains is left out, but for whether it is due:     *)
(* by its time, which the slot keeps, or by its size, which the system     *)
(* knows of the descriptor.                                                *)
(***************************************************************************)
EXTENDS Integers, FiniteSets

CONSTANTS MaxLogs,  \* bound: the logs registered in a behaviour
          MaxLog,   \* slots of LogArray: 256
          MaxFd,    \* the limit of descriptors
          Threads,  \* that register logs: 2 when a console starts the agent again
          Faults    \* whether opening a file may fail for another reason

ASSUME MaxLogsAssumption == MaxLogs \in Nat
ASSUME MaxLogAssumption == MaxLog \in Nat \ {0}
ASSUME MaxFdAssumption == MaxFd \in Nat
ASSUME ThreadsAssumption == Threads \in Nat \ {0}
ASSUME FaultsAssumption == Faults \in BOOLEAN

Logs  == 1 .. MaxLogs       \* in the order of their registration
Slots == 0 .. MaxLog - 1
Fds   == 1 .. MaxFd

VARIABLES
    filefd,     \* [Slots -> Fds \cup {0}], 0 in a free slot
    Lock,       \* [Slots -> BOOLEAN]
    timeDue,    \* [Slots -> BOOLEAN]: RotateTime has passed
    CurLogID,
    fds,        \* [Fds -> Slots \cup {Free, Other}]: the table of the process
    big,        \* [Fds -> BOOLEAN]: the file is longer than RotateSize
    logfd,      \* [Logs -> Slots \cup {-1}]: what RegisterLog returned
    pc,         \* [Logs -> ...]: where its task stands
    spc, si,    \* ScanLogs, and the slot it is at
    newFile,    \* the descriptor ShiftFile has opened
    failed,     \* history: ShiftFile could not open a file
    raced,      \* history: a lock was given back that another thread had, or
                \* two logs were registered at a time
    foreign     \* history: a descriptor was closed that was not the slot's

table == <<filefd, Lock, timeDue, CurLogID>>
scan == <<spc, si, newFile>>
vars == <<filefd, Lock, timeDue, CurLogID, fds, big, logfd, pc, spc, si, newFile, failed, raced, foreign>>

Free  == -1
Other == -2

\* The first free slot that RegisterLogInternal finds from CurLogID on.
Next1(s) == (s + 1) % MaxLog
FreeSlots == {s \in Slots : filefd[s] = 0}
Distance(s) == (s - CurLogID + MaxLog) % MaxLog
FirstFree(s) == s \in FreeSlots /\ \A t \in FreeSlots : Distance(s) <= Distance(t)

\* The system gives out the lowest number that is free.
Lowest(fd) == fds[fd] = Free /\ \A e \in 1 .. fd - 1 : fds[e] # Free

\* OpenLogFile for slot s; of an old file that is continued FileGrows tells later.
Open(s, fd) ==
    /\ Lowest(fd)
    /\ fds' = [fds EXCEPT ![fd] = s]
    /\ big' = [big EXCEPT ![fd] = FALSE]

OpenFails == Faults \/ \A fd \in Fds : fds[fd] # Free

\* close: whatever has the number now is closed; 0 is the standard input.
Close(s) ==
    /\ fds' = [fd \in Fds |-> IF fd = filefd[s] THEN Free ELSE fds[fd]]
    /\ big' = [fd \in Fds |-> fd # filefd[s] /\ big[fd]]
    /\ foreign' = (foreign \/ filefd[s] = 0 \/ fds[filefd[s]] # s)

Init ==
    /\ filefd = [s \in Slots |-> 0]
    /\ Lock = [s \in Slots |-> FALSE]
    /\ timeDue = [s \in Slots |-> FALSE]
    /\ CurLogID = 0
    /\ fds = [fd \in Fds |-> Free]
    /\ big = [fd \in Fds |-> FALSE]
    /\ logfd = [l \in Logs |-> -1]
    /\ pc = [l \in Logs |-> "new"]
    /\ spc = "look" /\ si = 0 /\ newFile = 0
    /\ failed = FALSE /\ raced = FALSE /\ foreign = FALSE

-----------------------------------------------------------------------------
\* RegisterLog, in the thread that handles the agent's commands and, when a console
\* starts the agent again, in the main thread

Registering == {l \in Logs : pc[l] \in {"lock", "open"}}

\* The search for a free slot; without one the task has no log.
RegisterLog(l) ==
    /\ pc[l] = "new" /\ \A k \in 1 .. l - 1 : pc[k] # "new"
    /\ Cardinality(Registering) < Threads
    /\ raced' = (raced \/ Registering # {})
    /\ \/ /\ FreeSlots = {}
          /\ pc' = [pc EXCEPT ![l] = "use"]
          /\ UNCHANGED <<CurLogID, logfd>>
       \/ \E s \in Slots :
             /\ FirstFree(s)
             /\ CurLogID' = s
             /\ logfd' = [logfd EXCEPT ![l] = s]
             /\ pc' = [pc EXCEPT ![l] = "lock"]
    /\ UNCHANGED <<filefd, Lock, timeDue, fds, big, scan, failed, foreign>>

\* LOGLOCK, and the memcpy that fills the slot and overwrites the lock with 0.
RegisterLog_copy(l) ==
    /\ pc[l] = "lock"
    /\ ~Lock[logfd[l]]
    /\ filefd' = [filefd EXCEPT ![logfd[l]] = 0]
    /\ timeDue' = [timeDue EXCEPT ![logfd[l]] = FALSE]
    /\ pc' = [pc EXCEPT ![l] = "open"]
    /\ UNCHANGED <<Lock, CurLogID, fds, big, logfd, scan, failed, raced, foreign>>

\* Mutant: the lock is still held when RegisterLog returns.
RegisterLog_open_Locked(l) ==
    /\ pc[l] = "open"
    /\ LET s == logfd[l] IN
       \/ \E fd \in Fds :
             /\ Open(s, fd)
             /\ filefd' = [filefd EXCEPT ![s] = fd]
             /\ Lock' = [Lock EXCEPT ![s] = TRUE]
             /\ CurLogID' = Next1(s)
             /\ UNCHANGED <<logfd, raced>>
       \/ /\ OpenFails
          /\ Lock' = [Lock EXCEPT ![s] = FALSE]
          /\ raced' = (raced \/ Lock[s])
          /\ logfd' = [logfd EXCEPT ![l] = -1]
          /\ UNCHANGED <<filefd, CurLogID, fds, big>>
    /\ pc' = [pc EXCEPT ![l] = "use"]
    /\ UNCHANGED <<timeDue, scan, failed, foreign>>

\* The file is opened; when that fails the slot stays free, and LOGUNLOCK gives
\* back a lock that may be another's by now.
RegisterLog_open(l) ==
    /\ pc[l] = "open"
    /\ LET s == logfd[l] IN
       \/ \E fd \in Fds :
             /\ Open(s, fd)
             /\ filefd' = [filefd EXCEPT ![s] = fd]
             /\ CurLogID' = Next1(s)
             /\ UNCHANGED <<Lock, logfd, raced>>
       \/ /\ OpenFails
          /\ Lock' = [Lock EXCEPT ![s] = FALSE]
          /\ raced' = (raced \/ Lock[s])
          /\ logfd' = [logfd EXCEPT ![l] = -1]
          /\ UNCHANGED <<filefd, CurLogID, fds, big>>
    /\ pc' = [pc EXCEPT ![l] = "use"]
    /\ UNCHANGED <<timeDue, scan, failed, foreign>>

-----------------------------------------------------------------------------
\* CloseLog, by the thread that ends the task, when nobody writes to it any more

\* LOGLOCK and close, when there is a log.
CloseLog(l) ==
    /\ pc[l] = "use"
    /\ IF logfd[l] = -1
       THEN /\ pc' = [pc EXCEPT ![l] = "gone"]
            /\ UNCHANGED <<Lock, fds, big, foreign>>
       ELSE /\ ~Lock[logfd[l]]
            /\ Lock' = [Lock EXCEPT ![logfd[l]] = TRUE]
            /\ Close(logfd[l])
            /\ pc' = [pc EXCEPT ![l] = "clear"]
    /\ UNCHANGED <<filefd, timeDue, CurLogID, logfd, scan, failed, raced>>

\* memset: the slot is free, and so is its lock.
CloseLog_clear(l) ==
    /\ pc[l] = "clear"
    /\ filefd' = [filefd EXCEPT ![logfd[l]] = 0]
    /\ Lock' = [Lock EXCEPT ![logfd[l]] = FALSE]
    /\ timeDue' = [timeDue EXCEPT ![logfd[l]] = FALSE]
    /\ pc' = [pc EXCEPT ![l] = "unlock"]
    /\ UNCHANGED <<CurLogID, fds, big, logfd, scan, failed, raced, foreign>>

\* LOGUNLOCK, of a lock that may be another's by now.
CloseLog_unlock(l) ==
    /\ pc[l] = "unlock"
    /\ Lock' = [Lock EXCEPT ![logfd[l]] = FALSE]
    /\ pc' = [pc EXCEPT ![l] = "gone"]
    /\ raced' = (raced \/ Lock[logfd[l]])
    /\ UNCHANGED <<filefd, timeDue, CurLogID, fds, big, logfd, scan, failed, foreign>>

-----------------------------------------------------------------------------
\* ScanLogs, in the main loop

\* A free slot is passed over.
ScanLogs_look ==
    /\ spc = "look"
    /\ IF filefd[si] = 0
       THEN si' = Next1(si) /\ UNCHANGED spc
       ELSE spc' = "try" /\ UNCHANGED si
    /\ UNCHANGED <<table, fds, big, logfd, pc, newFile, failed, raced, foreign>>

\* ShiftFile up to rename.
ShiftFile ==
    /\ Close(si)
    /\ UNCHANGED <<filefd, timeDue, CurLogID, logfd, pc, si, newFile, failed, raced>>

NoShift == UNCHANGED <<filefd, timeDue, CurLogID, fds, big, logfd, pc, newFile, failed, raced, foreign>>

\* LOGTRYLOCK, and the test of the time: the slot may be free, or have another
\* log, by now.
ScanLogs_try ==
    /\ spc = "try"
    /\ IF Lock[si]
       THEN spc' = "look" /\ si' = Next1(si) /\ UNCHANGED Lock /\ NoShift
       ELSE /\ Lock' = [Lock EXCEPT ![si] = TRUE]
            /\ IF timeDue[si]
               THEN spc' = "timeOpen" /\ ShiftFile
               ELSE spc' = "size" /\ UNCHANGED si /\ NoShift

\* The end of ShiftFile; when it fails the slot keeps the number it has closed,
\* and its size is looked at, too.
ScanLogs_timeOpen ==
    /\ spc = "timeOpen"
    /\ \/ \E fd \in Fds :
             /\ Open(si, fd)
             /\ newFile' = fd
             /\ timeDue' = [timeDue EXCEPT ![si] = FALSE]
             /\ spc' = "store"
             /\ UNCHANGED failed
       \/ /\ OpenFails
          /\ failed' = TRUE
          /\ spc' = "size"
          /\ UNCHANGED <<newFile, timeDue, fds, big>>
    /\ UNCHANGED <<filefd, Lock, CurLogID, logfd, pc, si, raced, foreign>>

\* fstat of the number; of 0, in a slot that is free by now, there is no size.
ScanLogs_size ==
    /\ spc = "size"
    /\ IF filefd[si] \in Fds /\ fds[filefd[si]] # Free /\ big[filefd[si]]
       THEN spc' = "sizeOpen" /\ ShiftFile
       ELSE spc' = "unlock" /\ UNCHANGED si /\ NoShift
    /\ UNCHANGED Lock

ScanLogs_sizeOpen ==
    /\ spc = "sizeOpen"
    /\ \/ \E fd \in Fds :
             /\ Open(si, fd)
             /\ newFile' = fd
             /\ spc' = "store"
             /\ UNCHANGED failed
       \/ /\ OpenFails
          /\ failed' = TRUE
          /\ spc' = "unlock"
          /\ UNCHANGED <<newFile, fds, big>>
    /\ UNCHANGED <<table, logfd, pc, si, raced, foreign>>

\* Mutant: the new number is not stored.
ScanLogs_unlock_Forgets ==
    /\ spc \in {"store", "unlock"}
    /\ newFile' = 0
    /\ Lock' = [Lock EXCEPT ![si] = FALSE]
    /\ spc' = "look"
    /\ si' = Next1(si)
    /\ UNCHANGED <<filefd, timeDue, CurLogID, fds, big, logfd, pc, failed, raced, foreign>>

\* The number of a new file is stored, and LOGUNLOCK.
ScanLogs_unlock ==
    /\ spc \in {"store", "unlock"}
    /\ filefd' = IF spc = "store" THEN [filefd EXCEPT ![si] = newFile] ELSE filefd
    /\ newFile' = 0
    /\ Lock' = [Lock EXCEPT ![si] = FALSE]
    /\ spc' = "look"
    /\ si' = Next1(si)
    /\ UNCHANGED <<timeDue, CurLogID, fds, big, logfd, pc, failed, raced, foreign>>

-----------------------------------------------------------------------------
\* The environment: sockets, time and what is written.

SocketOpens(fd) ==
    /\ Lowest(fd)
    /\ fds' = [fds EXCEPT ![fd] = Other]
    /\ UNCHANGED <<table, big, logfd, pc, scan, failed, raced, foreign>>

SocketCloses(fd) ==
    /\ fds[fd] = Other
    /\ fds' = [fds EXCEPT ![fd] = Free]
    /\ UNCHANGED <<table, big, logfd, pc, scan, failed, raced, foreign>>

TimePasses(s) ==
    /\ filefd[s] # 0 /\ ~timeDue[s]
    /\ timeDue' = [timeDue EXCEPT ![s] = TRUE]
    /\ UNCHANGED <<filefd, Lock, CurLogID, fds, big, logfd, pc, scan, failed, raced, foreign>>

FileGrows(fd) ==
    /\ fds[fd] \in Slots /\ ~big[fd]
    /\ big' = [big EXCEPT ![fd] = TRUE]
    /\ UNCHANGED <<table, fds, logfd, pc, scan, failed, raced, foreign>>

-----------------------------------------------------------------------------
ScanLogs ==
    \/ ScanLogs_look \/ ScanLogs_try \/ ScanLogs_timeOpen
    \/ ScanLogs_size \/ ScanLogs_sizeOpen \/ ScanLogs_unlock

Task(l) ==
    \/ RegisterLog(l) \/ RegisterLog_copy(l) \/ RegisterLog_open(l)
    \/ CloseLog(l) \/ CloseLog_clear(l) \/ CloseLog_unlock(l)

Next ==
    \/ ScanLogs
    \/ \E l \in Logs : Task(l)
    \/ \E fd \in Fds : SocketOpens(fd) \/ SocketCloses(fd) \/ FileGrows(fd)
    \/ \E s \in Slots : TimePasses(s)

Spec == Init /\ [][Next]_vars

\* The main loop and the threads that are in log.c go on; one that spins for a
\* lock gets it some time, however often the scan takes it.
Fairness ==
    /\ WF_vars(ScanLogs)
    /\ \A l \in Logs :
          /\ SF_vars(RegisterLog_copy(l))
          /\ WF_vars(RegisterLog_open(l) \/ CloseLog_clear(l) \/ CloseLog_unlock(l))

FairSpec == Spec /\ Fairness

-----------------------------------------------------------------------------
TypeOK ==
    /\ filefd \in [Slots -> Fds \cup {0}]
    /\ Lock \in [Slots -> BOOLEAN]
    /\ timeDue \in [Slots -> BOOLEAN]
    /\ CurLogID \in Slots
    /\ fds \in [Fds -> Slots \cup {Free, Other}]
    /\ big \in [Fds -> BOOLEAN]
    /\ logfd \in [Logs -> Slots \cup {-1}]
    /\ pc \in [Logs -> {"new", "lock", "open", "use", "clear", "unlock", "gone"}]
    /\ spc \in {"look", "try", "timeOpen", "size", "sizeOpen", "store", "unlock"}
    /\ si \in Slots
    /\ newFile \in Fds \cup {0}
    /\ failed \in BOOLEAN /\ raced \in BOOLEAN /\ foreign \in BOOLEAN

\* Two logs never have the same slot, although a slot is taken for free without
\* its lock and while CloseLog still has to give the lock back.
Has(l) == pc[l] \in {"use", "clear"} /\ logfd[l] # -1
SlotIsOwn ==
    ~raced =>
        /\ \A l \in Logs : Has(l) => filefd[logfd[l]] # 0
        /\ \A k, l \in Logs : Has(k) /\ Has(l) /\ logfd[k] = logfd[l] => k = l

\* No descriptor is closed that belongs to a socket or another log, and none of
\* the log's own is left behind, unless a rotation failed: the slot then keeps a
\* number it has closed.
OnlyOwnClosed ==
    ~raced /\ ~failed =>
        /\ ~foreign
        /\ \A fd \in Fds : fds[fd] \in Slots =>
              fd = filefd[fds[fd]] \/ (spc = "store" /\ si = fds[fd] /\ fd = newFile)

\* What the slots and the table of descriptors say of each other, as long as no
\* two threads met in a slot in one of the ways the locks leave open (raced).
DescriptorsAreOwn == SlotIsOwn /\ OnlyOwnClosed

\* A log that is due is rotated or closed, unless its file cannot be opened, and
\* no slot stays locked, so that a task's CloseLog comes to its end.
LogsGoOn ==
    \A s \in Slots :
        /\ []<>(~timeDue[s] \/ failed)
        /\ []<>~Lock[s]
============================================================================
