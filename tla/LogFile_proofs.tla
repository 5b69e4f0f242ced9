---------------------------- MODULE LogFile_proofs ----------------------------
(***************************************************************************)
(* Proofs about LogFile, for every number of logs, slots, descriptors and  *)
(* registering threads: slots and descriptors are each one log's own, as   *)
(* long as no two threads met in a slot.                                   *)
(***************************************************************************)
EXTENDS LogFile, TLAPS

\* The slot of a task that is in log.c, and what is stored in a slot.
Slotted ==
    /\ \A l \in Logs : pc[l] \in {"lock", "open", "clear", "unlock"} => logfd[l] \in Slots
    /\ \A l \in Logs : pc[l] = "new" => logfd[l] = -1
    /\ \A s \in Slots : timeDue[s] => filefd[s] # 0
    /\ spc = "store" => newFile \in Fds

Typed == TypeOK /\ Slotted

\* The scan has the lock of its slot.
Scanning == spc \notin {"look", "try"}
Shifting == spc \in {"timeOpen", "sizeOpen", "store"}

\* As long as no two threads met: who has a slot, and who has its lock.
Registers ==
    /\ \A k, l \in Registering : k = l
    /\ \A l \in Registering : filefd[logfd[l]] = 0
Owns ==
    /\ \A l \in Logs : Has(l) => filefd[logfd[l]] # 0
    /\ \A k, l \in Logs : Has(k) /\ Has(l) /\ logfd[k] = logfd[l] => k = l
Locked ==
    /\ \A l \in Logs : pc[l] = "clear" => Lock[logfd[l]] /\ ~(Scanning /\ si = logfd[l])
    /\ Scanning => Lock[si]
    /\ Shifting => filefd[si] # 0
Apart == Registers /\ Owns /\ Locked

\* As long as no rotation failed either: the descriptors of a slot.
Closed(s) == (\E l \in Logs : pc[l] = "clear" /\ logfd[l] = s) \/ (Shifting /\ si = s)
Kept ==
    /\ ~foreign
    /\ \A fd \in Fds : fds[fd] \in Slots =>
          fd = filefd[fds[fd]] \/ (spc = "store" /\ si = fds[fd] /\ fd = newFile)
    /\ \A s \in Slots : filefd[s] # 0 => fds[filefd[s]] = s \/ Closed(s)
    /\ spc \in {"timeOpen", "sizeOpen"} => \A fd \in Fds : fds[fd] # si
    /\ spc = "store" => \A fd \in Fds : (fds[fd] = si) <=> (fd = newFile)
    /\ \A l \in Logs : pc[l] = "clear" => \A fd \in Fds : fds[fd] # logfd[l]

Inv ==
    /\ Typed
    /\ ~raced => Apart
    /\ ~raced /\ ~failed => Kept

-----------------------------------------------------------------------------
LEMMA Names ==
    /\ Slots \subseteq Nat /\ 0 \in Slots /\ Fds \subseteq Nat /\ 0 \notin Fds
    /\ Free \notin Slots /\ Other \notin Slots /\ -1 \notin Slots /\ Free # Other
    /\ \A s \in Slots : Next1(s) \in Slots
BY MaxLogAssumption, MaxFdAssumption DEF Slots, Fds, Free, Other, Next1

\* What OpenLogFile and close do to the table of descriptors.
LEMMA OpenType ==
    ASSUME Typed, NEW s \in Slots, NEW fd \in Fds, Open(s, fd)
    PROVE  /\ fds' \in [Fds -> Slots \cup {Free, Other}] /\ big' \in [Fds -> BOOLEAN]
           /\ fds[fd] = Free /\ fds'[fd] = s
           /\ \A e \in Fds \ {fd} : fds'[e] = fds[e]
BY DEF Open, Lowest, Typed, TypeOK

LEMMA CloseType ==
    ASSUME Typed, NEW s \in Slots, Close(s)
    PROVE  /\ fds' \in [Fds -> Slots \cup {Free, Other}] /\ big' \in [Fds -> BOOLEAN]
           /\ foreign' \in BOOLEAN
           /\ \A e \in Fds : fds'[e] = IF e = filefd[s] THEN Free ELSE fds[e]
<1>1. fds' \in [Fds -> Slots \cup {Free, Other}] /\ \A e \in Fds : fds'[e] = IF e = filefd[s] THEN Free ELSE fds[e]
  BY DEF Close, Typed, TypeOK
<1>2. \A e \in Fds : (e # filefd[s] /\ big[e]) \in BOOLEAN
  OBVIOUS
<1>3. big' \in [Fds -> BOOLEAN]
  BY <1>2 DEF Close
<1>4. foreign' \in BOOLEAN
  BY DEF Close
<1> QED  BY <1>1, <1>3, <1>4

LEMMA ShiftType ==
    ASSUME Typed, ShiftFile, Lock' \in [Slots -> BOOLEAN],
           spc' \in {"timeOpen", "sizeOpen"}
    PROVE  Typed'
<1>1. si \in Slots /\ Close(si)
  BY DEF Typed, TypeOK, ShiftFile
<1>2. fds' \in [Fds -> Slots \cup {Free, Other}] /\ big' \in [Fds -> BOOLEAN] /\ foreign' \in BOOLEAN
  BY <1>1, CloseType
<1> QED  BY <1>2 DEF Typed, TypeOK, Slotted, ShiftFile

LEMMA TypeInit == Init => Typed
BY Names DEF Init, Typed, TypeOK, Slotted

LEMMA TypeStep == Typed /\ [Next]_vars => Typed'
<1> SUFFICES ASSUME Typed, [Next]_vars PROVE Typed'
  OBVIOUS
<1> USE Names DEF Typed, TypeOK, Slotted, table, scan
<1>1. ASSUME NEW l \in Logs, RegisterLog(l) PROVE Typed'
  <2>1. raced' \in BOOLEAN
    BY <1>1 DEF RegisterLog
  <2>2. CASE pc' = [pc EXCEPT ![l] = "use"] /\ UNCHANGED <<CurLogID, logfd>>
    BY <1>1, <2>1, <2>2 DEF RegisterLog
  <2>3. ASSUME NEW s \in Slots, CurLogID' = s, logfd' = [logfd EXCEPT ![l] = s],
               pc' = [pc EXCEPT ![l] = "lock"]
        PROVE  Typed'
    BY <1>1, <2>1, <2>3 DEF RegisterLog
  <2> QED  BY <1>1, <2>2, <2>3 DEF RegisterLog
<1>2. ASSUME NEW l \in Logs, RegisterLog_copy(l) PROVE Typed'
  BY <1>2 DEF RegisterLog_copy
<1>3. ASSUME NEW l \in Logs, RegisterLog_open(l) PROVE Typed'
  <2>1. logfd[l] \in Slots
    BY <1>3 DEF RegisterLog_open
  <2>2. ASSUME NEW fd \in Fds, Open(logfd[l], fd), filefd' = [filefd EXCEPT ![logfd[l]] = fd],
               CurLogID' = Next1(logfd[l]), UNCHANGED <<Lock, logfd, raced>>
        PROVE  Typed'
    <3>1. fds' \in [Fds -> Slots \cup {Free, Other}] /\ big' \in [Fds -> BOOLEAN]
      BY <2>1, <2>2, OpenType
    <3> QED  BY <1>3, <2>1, <2>2, <3>1 DEF RegisterLog_open
  <2>3. CASE /\ Lock' = [Lock EXCEPT ![logfd[l]] = FALSE]
             /\ raced' = (raced \/ Lock[logfd[l]])
             /\ logfd' = [logfd EXCEPT ![l] = -1]
             /\ UNCHANGED <<filefd, CurLogID, fds, big>>
    <3>1. raced' \in BOOLEAN
      BY <2>3
    <3> QED  BY <1>3, <2>3, <3>1 DEF RegisterLog_open
  <2> QED  BY <1>3, <2>2, <2>3 DEF RegisterLog_open
<1>4. ASSUME NEW l \in Logs, CloseLog(l) PROVE Typed'
  <2>1. CASE logfd[l] = -1
    BY <1>4, <2>1 DEF CloseLog
  <2>2. CASE logfd[l] # -1
    <3>1. logfd[l] \in Slots /\ Close(logfd[l])
      BY <1>4, <2>2 DEF CloseLog
    <3> QED  BY <1>4, <2>2, <3>1, CloseType DEF CloseLog
  <2> QED  BY <2>1, <2>2
<1>5. ASSUME NEW l \in Logs, CloseLog_clear(l) PROVE Typed'
  BY <1>5 DEF CloseLog_clear
<1>6. ASSUME NEW l \in Logs, CloseLog_unlock(l) PROVE Typed'
  <2>1. raced' \in BOOLEAN
    BY <1>6 DEF CloseLog_unlock
  <2> QED  BY <1>6, <2>1 DEF CloseLog_unlock
<1>7. CASE ScanLogs_look
  BY <1>7 DEF ScanLogs_look
<1>8. CASE ScanLogs_try
  <2>1. Lock' \in [Slots -> BOOLEAN] /\ si' \in Slots
    BY <1>8 DEF ScanLogs_try, ShiftFile, NoShift
  <2>2. spc' \in {"look", "timeOpen", "size"}
    BY <1>8 DEF ScanLogs_try
  <2>3. CASE ShiftFile
    BY <1>8, <2>1, <2>3, ShiftType DEF ScanLogs_try, NoShift
  <2>4. CASE NoShift
    BY <2>1, <2>2, <2>4 DEF NoShift
  <2> QED  BY <1>8, <2>3, <2>4 DEF ScanLogs_try
<1>9. CASE ScanLogs_timeOpen
  <2>1. ASSUME NEW fd \in Fds, Open(si, fd), newFile' = fd,
               timeDue' = [timeDue EXCEPT ![si] = FALSE], spc' = "store", UNCHANGED failed
        PROVE  Typed'
    BY <1>9, <2>1, OpenType DEF ScanLogs_timeOpen
  <2>2. CASE failed' = TRUE /\ spc' = "size" /\ UNCHANGED <<newFile, timeDue, fds, big>>
    BY <1>9, <2>2 DEF ScanLogs_timeOpen
  <2> QED  BY <1>9, <2>1, <2>2 DEF ScanLogs_timeOpen
<1>10. CASE ScanLogs_size
  <2>1. spc' \in {"sizeOpen", "unlock"} /\ si' = si /\ Lock' = Lock
    BY <1>10 DEF ScanLogs_size, ShiftFile
  <2>2. CASE ShiftFile /\ spc' = "sizeOpen"
    BY <2>1, <2>2, ShiftType
  <2>3. CASE NoShift
    BY <2>1, <2>3 DEF NoShift
  <2> QED  BY <1>10, <2>2, <2>3 DEF ScanLogs_size
<1>11. CASE ScanLogs_sizeOpen
  <2>1. ASSUME NEW fd \in Fds, Open(si, fd), newFile' = fd, spc' = "store", UNCHANGED failed
        PROVE  Typed'
    BY <1>11, <2>1, OpenType DEF ScanLogs_sizeOpen
  <2>2. CASE failed' = TRUE /\ spc' = "unlock" /\ UNCHANGED <<newFile, fds, big>>
    BY <1>11, <2>2 DEF ScanLogs_sizeOpen
  <2> QED  BY <1>11, <2>1, <2>2 DEF ScanLogs_sizeOpen
<1>12. CASE ScanLogs_unlock
  BY <1>12 DEF ScanLogs_unlock
<1>13. ASSUME NEW fd \in Fds, SocketOpens(fd) \/ SocketCloses(fd) PROVE Typed'
  BY <1>13 DEF SocketOpens, SocketCloses
<1>14. ASSUME NEW fd \in Fds, FileGrows(fd) PROVE Typed'
  BY <1>14 DEF FileGrows
<1>15. ASSUME NEW s \in Slots, TimePasses(s) PROVE Typed'
  BY <1>15 DEF TimePasses
<1>16. CASE UNCHANGED vars
  BY <1>16 DEF vars
<1> QED  BY <1>1, <1>2, <1>3, <1>4, <1>5, <1>6, <1>7, <1>8, <1>9, <1>10, <1>11, <1>12,
            <1>13, <1>14, <1>15, <1>16 DEF Next, Task, ScanLogs

\* Type correctness: TypeOK holds in every state.
THEOREM TypeCorrect == Spec => []TypeOK
<1>1. Typed => TypeOK
  BY DEF Typed
<1> QED  BY TypeInit, TypeStep, <1>1, PTL DEF Spec
-----------------------------------------------------------------------------
\* A lock that was given back was the slot's, and the history does not forget.
LEMMA RacedStays == Typed /\ [Next]_vars /\ ~raced' => ~raced
BY DEF Typed, TypeOK, Next, Task, ScanLogs, RegisterLog, RegisterLog_copy, RegisterLog_open,
       CloseLog, CloseLog_clear, CloseLog_unlock, ScanLogs_look, ScanLogs_try, ScanLogs_timeOpen,
       ScanLogs_size, ScanLogs_sizeOpen, ScanLogs_unlock, ShiftFile, NoShift,
       SocketOpens, SocketCloses, FileGrows, TimePasses, vars

\* Giving back a lock that nobody has changes nothing.
LEMMA UnlockOfFree ==
    ASSUME Typed, NEW s \in Slots, ~raced', raced' = (raced \/ Lock[s]),
           Lock' = [Lock EXCEPT ![s] = FALSE]
    PROVE  Lock' = Lock
<1>1. Lock \in [Slots -> BOOLEAN] /\ ~Lock[s]
  BY DEF Typed, TypeOK
<1>2. Lock[s] = FALSE
  BY <1>1
<1> QED  BY <1>1, <1>2

LEMMA ApartInit == Init => Apart
BY DEF Init, Apart, Registers, Owns, Locked, Registering, Has, Scanning, Shifting

LEMMA ApartStep == Typed /\ Apart /\ [Next]_vars /\ ~raced' => Apart'
<1> SUFFICES ASSUME Typed, Apart, [Next]_vars, ~raced' PROVE Apart'
  OBVIOUS
<1> USE Names DEF Typed, TypeOK, Slotted, Apart, Registers, Owns, Locked, Registering, Has,
                  Scanning, Shifting, table, scan
<1>1. ASSUME NEW l \in Logs, RegisterLog(l) PROVE Apart'
  <2>1. Registering = {}
    BY <1>1 DEF RegisterLog
  <2>2. CASE pc' = [pc EXCEPT ![l] = "use"] /\ UNCHANGED <<CurLogID, logfd>>
    BY <1>1, <2>1, <2>2 DEF RegisterLog
  <2>3. ASSUME NEW s \in Slots, FirstFree(s), logfd' = [logfd EXCEPT ![l] = s],
               pc' = [pc EXCEPT ![l] = "lock"]
        PROVE  Apart'
    BY <1>1, <2>1, <2>3 DEF RegisterLog, FirstFree, FreeSlots
  <2> QED  BY <1>1, <2>2, <2>3 DEF RegisterLog
<1>2. ASSUME NEW l \in Logs, RegisterLog_copy(l) PROVE Apart'
  <2>1. filefd' = filefd
    BY <1>2 DEF RegisterLog_copy
  <2> QED  BY <1>2, <2>1 DEF RegisterLog_copy
<1>3. ASSUME NEW l \in Logs, RegisterLog_open(l) PROVE Apart'
  <2>1. logfd[l] \in Slots /\ filefd[logfd[l]] = 0 /\ Registering = {l} /\ Registering' = {}
    BY <1>3 DEF RegisterLog_open
  <2>2. ASSUME NEW fd \in Fds, filefd' = [filefd EXCEPT ![logfd[l]] = fd],
               UNCHANGED <<Lock, logfd, raced>>
        PROVE  Apart'
    BY <1>3, <2>1, <2>2 DEF RegisterLog_open
  <2>3. CASE /\ Lock' = [Lock EXCEPT ![logfd[l]] = FALSE]
             /\ raced' = (raced \/ Lock[logfd[l]])
             /\ logfd' = [logfd EXCEPT ![l] = -1]
             /\ UNCHANGED <<filefd, CurLogID, fds, big>>
    <3>1. Lock' = Lock
      BY <2>1, <2>3, UnlockOfFree
    <3> QED  BY <1>3, <2>1, <2>3, <3>1 DEF RegisterLog_open
  <2> QED  BY <1>3, <2>2, <2>3 DEF RegisterLog_open
<1>4. ASSUME NEW l \in Logs, CloseLog(l) PROVE Apart'
  <2>1. CASE logfd[l] = -1
    BY <1>4, <2>1 DEF CloseLog
  <2>2. CASE logfd[l] # -1
    <3> DEFINE s == logfd[l]
    <3>1. /\ s \in Slots /\ ~Lock[s] /\ Lock' = [Lock EXCEPT ![s] = TRUE]
          /\ pc[l] = "use" /\ pc' = [pc EXCEPT ![l] = "clear"]
          /\ UNCHANGED <<filefd, logfd, spc, si, newFile>>
      BY <1>4, <2>2 DEF CloseLog
    <3>2. ~(Scanning /\ si = s)
      BY <3>1
    <3>3. Registers' /\ Owns'
      BY <3>1
    <3>4. Locked'
      BY <3>1, <3>2
    <3> QED  BY <3>3, <3>4
  <2> QED  BY <2>1, <2>2
<1>5. ASSUME NEW l \in Logs, CloseLog_clear(l) PROVE Apart'
  BY <1>5 DEF CloseLog_clear
<1>6. ASSUME NEW l \in Logs, CloseLog_unlock(l) PROVE Apart'
  <2>1. Lock' = Lock
    BY <1>6, UnlockOfFree DEF CloseLog_unlock
  <2> QED  BY <1>6, <2>1 DEF CloseLog_unlock
<1>7. CASE ScanLogs_look
  BY <1>7 DEF ScanLogs_look
<1>8. CASE ScanLogs_try
  <2>1. CASE Lock[si]
    BY <1>8, <2>1 DEF ScanLogs_try, NoShift
  <2>2. CASE ~Lock[si]
    <3>1. /\ Lock' = [Lock EXCEPT ![si] = TRUE] /\ si' = si
          /\ UNCHANGED <<filefd, logfd, pc>>
          /\ spc' = "timeOpen" => filefd[si] # 0
          /\ spc' \in {"timeOpen", "size"}
      BY <1>8, <2>2 DEF ScanLogs_try, ShiftFile, NoShift
    <3>2. Registers' /\ Owns'
      BY <3>1
    <3>3. \A l \in Logs : pc[l] = "clear" => logfd[l] # si
      BY <2>2
    <3>4. Locked'
      BY <3>1, <3>3
    <3> QED  BY <3>2, <3>4
  <2> QED  BY <2>1, <2>2
<1>9. CASE ScanLogs_timeOpen
  BY <1>9 DEF ScanLogs_timeOpen
<1>10. CASE ScanLogs_size
  BY <1>10 DEF ScanLogs_size, ShiftFile, NoShift
<1>11. CASE ScanLogs_sizeOpen
  BY <1>11 DEF ScanLogs_sizeOpen
<1>12. CASE ScanLogs_unlock
  BY <1>12 DEF ScanLogs_unlock
<1>13. ASSUME NEW fd \in Fds, SocketOpens(fd) \/ SocketCloses(fd) \/ FileGrows(fd) PROVE Apart'
  BY <1>13 DEF SocketOpens, SocketCloses, FileGrows
<1>14. ASSUME NEW s \in Slots, TimePasses(s) PROVE Apart'
  BY <1>14 DEF TimePasses
<1>15. CASE UNCHANGED vars
  BY <1>15 DEF vars
<1> QED  BY <1>1, <1>2, <1>3, <1>4, <1>5, <1>6, <1>7, <1>8, <1>9, <1>10, <1>11, <1>12,
            <1>13, <1>14, <1>15 DEF Next, Task, ScanLogs

-----------------------------------------------------------------------------
\* The slot whose descriptor is closed has it, and nobody else is told of it.
LEMMA CloseKept ==
    ASSUME Typed, Kept, NEW s \in Slots, filefd[s] # 0, ~Closed(s), Close(s)
    PROVE  /\ ~foreign'
           /\ \A e \in Fds : fds'[e] \in Slots => fds'[e] = fds[e] /\ fds'[e] # s
           /\ \A e \in Fds : fds[e] # s => fds'[e] = fds[e]
           /\ \A t \in Slots \ {s} :
                 filefd[t] # 0 => fds'[filefd[t]] = t \/ Closed(t)
<1>1. filefd[s] \in Fds /\ fds[filefd[s]] = s /\ ~foreign
  BY DEF Typed, TypeOK, Kept
<1>2. \A e \in Fds : fds'[e] = IF e = filefd[s] THEN Free ELSE fds[e]
  BY CloseType
<1>3. ~foreign'
  BY <1>1, Names DEF Close
<1>4. ASSUME NEW e \in Fds, fds'[e] \in Slots PROVE fds'[e] = fds[e] /\ fds'[e] # s
  <2>1. e # filefd[s] /\ fds'[e] = fds[e]
    BY <1>2, <1>4, Names
  <2>2. CASE fds[e] = s
    <3>1. spc = "store" /\ si = s
      BY <2>1, <2>2 DEF Kept
    <3> QED  BY <3>1 DEF Closed, Shifting
  <2> QED  BY <2>1, <2>2
<1>5. \A e \in Fds : fds[e] # s => fds'[e] = fds[e]
  BY <1>1, <1>2
<1>6. ASSUME NEW t \in Slots \ {s}, filefd[t] # 0 PROVE fds'[filefd[t]] = t \/ Closed(t)
  <2>1. filefd[t] \in Fds /\ (fds[filefd[t]] = t \/ Closed(t))
    BY <1>6 DEF Typed, TypeOK, Kept
  <2> QED  BY <2>1, <1>5
<1> QED  BY <1>3, <1>4, <1>5, <1>6

\* A new descriptor is its slot's alone.
LEMMA OpenKept ==
    ASSUME Typed, Kept, NEW s \in Slots, NEW fd \in Fds, Open(s, fd),
           \A e \in Fds : fds[e] # s
    PROVE  /\ \A e \in Fds : (fds'[e] = s) <=> (e = fd)
           /\ \A e \in Fds : fds'[e] # s => fds'[e] = fds[e]
           /\ \A e \in Fds : fds[e] \in Slots => fds'[e] = fds[e]
           /\ \A t \in Slots \ {s} :
                 filefd[t] # 0 => fds'[filefd[t]] = t \/ Closed(t)
<1>1. fds[fd] = Free /\ fds'[fd] = s /\ \A e \in Fds \ {fd} : fds'[e] = fds[e]
  BY OpenType
<1>2. \A e \in Fds : (fds'[e] = s) <=> (e = fd)
  BY <1>1
<1>3. \A e \in Fds : fds'[e] # s => fds'[e] = fds[e]
  BY <1>1
<1>4. \A e \in Fds : fds[e] \in Slots => fds'[e] = fds[e]
  BY <1>1, Names
<1>5. ASSUME NEW t \in Slots \ {s}, filefd[t] # 0 PROVE fds'[filefd[t]] = t \/ Closed(t)
  <2>1. filefd[t] \in Fds /\ (fds[filefd[t]] = t \/ Closed(t))
    BY <1>5 DEF Typed, TypeOK, Kept
  <2> QED  BY <2>1, <1>4
<1> QED  BY <1>2, <1>3, <1>4, <1>5

LEMMA KeptInit == Init => Kept
BY Names DEF Init, Kept, Closed, Shifting

LEMMA FailedStays == Typed /\ [Next]_vars /\ ~failed' => ~failed
BY DEF Typed, TypeOK, Next, Task, ScanLogs, RegisterLog, RegisterLog_copy, RegisterLog_open,
       CloseLog, CloseLog_clear, CloseLog_unlock, ScanLogs_look, ScanLogs_try, ScanLogs_timeOpen,
       ScanLogs_size, ScanLogs_sizeOpen, ScanLogs_unlock, ShiftFile, NoShift,
       SocketOpens, SocketCloses, FileGrows, TimePasses, vars

LEMMA KeptStep == Typed /\ Apart /\ Kept /\ [Next]_vars /\ ~raced' /\ ~failed' => Kept'
<1> SUFFICES ASSUME Typed, Apart, Kept, [Next]_vars, ~raced', ~failed' PROVE Kept'
  OBVIOUS
<1> USE Names DEF Typed, TypeOK, Slotted, table, scan
<1>1. ASSUME NEW l \in Logs, RegisterLog(l) PROVE Kept'
  <2>1. /\ UNCHANGED <<filefd, fds, scan, foreign>>
        /\ \A k \in Logs : (pc'[k] = "clear") <=> (pc[k] = "clear")
        /\ \A k \in Logs : pc[k] = "clear" => logfd'[k] = logfd[k]
    BY <1>1 DEF RegisterLog
  <2> QED  BY <2>1 DEF Kept, Closed, Shifting
<1>2. ASSUME NEW l \in Logs, RegisterLog_copy(l) PROVE Kept'
  <2>1. /\ UNCHANGED <<fds, scan, foreign, logfd>>
        /\ \A k \in Logs : (pc'[k] = "clear") <=> (pc[k] = "clear")
        /\ filefd' = filefd
    BY <1>2 DEF RegisterLog_copy, Apart, Registers, Registering
  <2> QED  BY <2>1 DEF Kept, Closed, Shifting
<1>3. ASSUME NEW l \in Logs, RegisterLog_open(l) PROVE Kept'
  <2> DEFINE s == logfd[l]
  <2>1. /\ s \in Slots /\ UNCHANGED <<scan, foreign>>
        /\ \A k \in Logs : (pc'[k] = "clear") <=> (pc[k] = "clear")
        /\ \A k \in Logs : pc[k] = "clear" => logfd'[k] = logfd[k]
    BY <1>3 DEF RegisterLog_open
  <2>2. \A t \in Slots : Closed(t)' <=> Closed(t)
    BY <2>1 DEF Closed, Shifting
  <2>3. filefd[s] = 0
    BY <1>3 DEF RegisterLog_open, Apart, Registers, Registering
  <2>4. ~Closed(s)
    BY <2>3 DEF Closed, Apart, Locked, Owns, Has
  <2>5. ASSUME NEW fd \in Fds, Open(s, fd), filefd' = [filefd EXCEPT ![s] = fd] PROVE Kept'
    <3>1. \A e \in Fds : fds[e] # s
      BY <2>1, <2>3, <2>4 DEF Kept, Closed, Shifting
    <3>2. /\ \A e \in Fds : (fds'[e] = s) <=> (e = fd)
          /\ \A e \in Fds : fds'[e] # s => fds'[e] = fds[e]
          /\ \A e \in Fds : fds[e] \in Slots => fds'[e] = fds[e]
          /\ \A t \in Slots \ {s} : filefd[t] # 0 => fds'[filefd[t]] = t \/ Closed(t)
      BY <2>1, <2>5, <3>1, OpenKept
    <3>3. filefd'[s] = fd /\ \A t \in Slots \ {s} : filefd'[t] = filefd[t]
      BY <2>1, <2>5
    <3>4. (Shifting => si # s) /\ \A k \in Logs : pc[k] = "clear" => logfd[k] # s
      BY <2>4 DEF Closed
    <3>5. ASSUME NEW e \in Fds, fds'[e] \in Slots
          PROVE  e = filefd'[fds'[e]] \/ (spc' = "store" /\ si' = fds'[e] /\ e = newFile')
      <4>1. CASE fds'[e] = s
        BY <3>2, <3>3, <4>1
      <4>2. CASE fds'[e] # s
        <5>1. fds'[e] = fds[e] /\ filefd'[fds[e]] = filefd[fds[e]]
          BY <3>2, <3>3, <3>5, <4>2
        <5> QED  BY <2>1, <3>5, <5>1 DEF Kept
      <4> QED  BY <4>1, <4>2
    <3>6. \A t \in Slots : filefd'[t] # 0 => fds'[filefd'[t]] = t \/ Closed(t)'
      BY <2>2, <3>2, <3>3
    <3>7. spc' \in {"timeOpen", "sizeOpen"} => \A e \in Fds : fds'[e] # si'
      BY <2>1, <3>2, <3>4 DEF Kept, Shifting
    <3>8. spc' = "store" => \A e \in Fds : (fds'[e] = si') <=> (e = newFile')
      BY <2>1, <3>2, <3>4 DEF Kept, Shifting
    <3>9. \A k \in Logs : pc'[k] = "clear" => \A e \in Fds : fds'[e] # logfd'[k]
      BY <2>1, <3>2, <3>4 DEF Kept
    <3> QED  BY <2>1, <3>5, <3>6, <3>7, <3>8, <3>9 DEF Kept
  <2>6. CASE UNCHANGED <<filefd, fds>>
    BY <2>1, <2>2, <2>6 DEF Kept
  <2> QED  BY <1>3, <2>5, <2>6 DEF RegisterLog_open
<1>4. ASSUME NEW l \in Logs, CloseLog(l) PROVE Kept'
  <2>1. CASE logfd[l] = -1
    <3>1. /\ UNCHANGED <<filefd, fds, logfd, scan, foreign>>
          /\ \A k \in Logs : (pc'[k] = "clear") <=> (pc[k] = "clear")
      BY <1>4, <2>1 DEF CloseLog
    <3> QED  BY <3>1 DEF Kept, Closed, Shifting
  <2>2. CASE logfd[l] # -1
    <3> DEFINE s == logfd[l]
    <3>1. /\ s \in Slots /\ Close(s) /\ UNCHANGED <<filefd, logfd, scan>>
          /\ ~Lock[s] /\ pc[l] = "use"
          /\ \A k \in Logs : (pc'[k] = "clear") <=> (pc[k] = "clear" \/ k = l)
      BY <1>4, <2>2 DEF CloseLog
    <3>2. filefd[s] # 0 /\ ~Closed(s)
      BY <2>2, <3>1 DEF Apart, Owns, Locked, Has, Closed, Shifting, Scanning
    <3>3. /\ ~foreign'
          /\ \A e \in Fds : fds'[e] \in Slots => fds'[e] = fds[e] /\ fds'[e] # s
          /\ \A e \in Fds : fds[e] # s => fds'[e] = fds[e]
          /\ \A t \in Slots \ {s} : filefd[t] # 0 => fds'[filefd[t]] = t \/ Closed(t)
      BY <3>1, <3>2, CloseKept
    <3>4. \A t \in Slots : Closed(t)' <=> (Closed(t) \/ t = s)
      BY <3>1 DEF Closed, Shifting
    <3>5. Shifting => si # s
      BY <3>2 DEF Closed
    <3>6. \A t \in Slots : filefd'[t] # 0 => fds'[filefd'[t]] = t \/ Closed(t)'
      BY <3>1, <3>3, <3>4
    <3>7. spc' \in {"timeOpen", "sizeOpen"} => \A e \in Fds : fds'[e] # si'
      BY <3>1, <3>3 DEF Kept
    <3>8. spc' = "store" => \A e \in Fds : (fds'[e] = si') <=> (e = newFile')
      BY <3>1, <3>3, <3>5 DEF Kept, Shifting
    <3>9. \A k \in Logs : pc'[k] = "clear" => \A e \in Fds : fds'[e] # logfd'[k]
      BY <3>1, <3>3 DEF Kept
    <3> QED  BY <3>1, <3>3, <3>6, <3>7, <3>8, <3>9 DEF Kept
  <2> QED  BY <2>1, <2>2
<1>5. ASSUME NEW l \in Logs, CloseLog_clear(l) PROVE Kept'
  <2> DEFINE s == logfd[l]
  <2>1. /\ s \in Slots /\ pc[l] = "clear" /\ UNCHANGED <<fds, logfd, scan, foreign>>
        /\ filefd' = [filefd EXCEPT ![s] = 0]
        /\ \A k \in Logs : (pc'[k] = "clear") <=> (pc[k] = "clear" /\ k # l)
    BY <1>5 DEF CloseLog_clear
  <2>2. \A e \in Fds : fds[e] # s
    BY <2>1 DEF Kept
  <2>3. \A t \in Slots \ {s} : filefd'[t] = filefd[t] /\ (Closed(t)' <=> Closed(t))
    BY <2>1 DEF Closed, Shifting
  <2>4. \A e \in Fds : fds'[e] \in Slots =>
           e = filefd'[fds'[e]] \/ (spc' = "store" /\ si' = fds'[e] /\ e = newFile')
    BY <2>1, <2>2, <2>3 DEF Kept
  <2>5. \A t \in Slots : filefd'[t] # 0 => fds'[filefd'[t]] = t \/ Closed(t)'
    BY <2>1, <2>3 DEF Kept
  <2> QED  BY <2>1, <2>4, <2>5 DEF Kept
<1>6. ASSUME NEW l \in Logs, CloseLog_unlock(l) PROVE Kept'
  <2>1. /\ UNCHANGED <<filefd, fds, logfd, scan, foreign>>
        /\ \A k \in Logs : (pc'[k] = "clear") <=> (pc[k] = "clear")
    BY <1>6 DEF CloseLog_unlock
  <2> QED  BY <2>1 DEF Kept, Closed, Shifting
<1>7. ASSUME spc \notin {"timeOpen", "sizeOpen", "store"},
             spc' \notin {"timeOpen", "sizeOpen", "store"},
             UNCHANGED <<filefd, fds, logfd, pc, foreign>>
      PROVE  Kept'
  BY <1>7 DEF Kept, Closed, Shifting
<1>8. ASSUME spc \notin {"timeOpen", "sizeOpen", "store"}, filefd[si] # 0,
             \A k \in Logs : pc[k] = "clear" => logfd[k] # si,
             ShiftFile, spc' \in {"timeOpen", "sizeOpen"}
      PROVE  Kept'
  <2>1. Close(si) /\ si' = si /\ UNCHANGED <<filefd, logfd, pc, newFile>>
    BY <1>8 DEF ShiftFile
  <2>2. ~Closed(si)
    BY <1>8 DEF Closed, Shifting
  <2>3. /\ ~foreign'
        /\ \A e \in Fds : fds'[e] \in Slots => fds'[e] = fds[e] /\ fds'[e] # si
        /\ \A t \in Slots \ {si} : filefd[t] # 0 => fds'[filefd[t]] = t \/ Closed(t)
    BY <1>8, <2>1, <2>2, CloseKept
  <2>4. \A t \in Slots : Closed(t)' <=> (Closed(t) \/ t = si)
    BY <1>8, <2>1 DEF Closed, Shifting
  <2>5. \A t \in Slots : filefd'[t] # 0 => fds'[filefd'[t]] = t \/ Closed(t)'
    BY <2>1, <2>3, <2>4
  <2> QED  BY <1>8, <2>1, <2>3, <2>5 DEF Kept
<1>9. ASSUME NEW fd \in Fds, spc \in {"timeOpen", "sizeOpen"}, Open(si, fd), newFile' = fd,
             spc' = "store", UNCHANGED <<filefd, logfd, pc, si, foreign>>
      PROVE  Kept'
  <2>1. \A e \in Fds : fds[e] # si
    BY <1>9 DEF Kept
  <2>2. /\ \A e \in Fds : (fds'[e] = si) <=> (e = fd)
        /\ \A e \in Fds : fds'[e] # si => fds'[e] = fds[e]
        /\ \A t \in Slots \ {si} : filefd[t] # 0 => fds'[filefd[t]] = t \/ Closed(t)
    BY <1>9, <2>1, OpenKept
  <2>3. \A t \in Slots : (Closed(t)' <=> Closed(t)) /\ Closed(si)'
    BY <1>9 DEF Closed, Shifting
  <2>4. \A k \in Logs : pc[k] = "clear" => logfd[k] # si
    BY <1>9 DEF Apart, Locked, Scanning
  <2>5. \A t \in Slots : filefd'[t] # 0 => fds'[filefd'[t]] = t \/ Closed(t)'
    BY <1>9, <2>2, <2>3
  <2>6. \A e \in Fds : fds'[e] \in Slots =>
           e = filefd'[fds'[e]] \/ (spc' = "store" /\ si' = fds'[e] /\ e = newFile')
    BY <1>9, <2>2 DEF Kept
  <2>7. \A k \in Logs : pc'[k] = "clear" => \A e \in Fds : fds'[e] # logfd'[k]
    BY <1>9, <2>2, <2>4 DEF Kept
  <2> QED  BY <1>9, <2>2, <2>5, <2>6, <2>7 DEF Kept
<1>10. CASE ScanLogs_look
  BY <1>7, <1>10 DEF ScanLogs_look
<1>11. CASE ScanLogs_try
  <2>1. CASE Lock[si] \/ ~timeDue[si]
    BY <1>7, <1>11, <2>1 DEF ScanLogs_try, NoShift
  <2>2. CASE ~Lock[si] /\ timeDue[si]
    <3>1. \A k \in Logs : pc[k] = "clear" => logfd[k] # si
      BY <2>2 DEF Apart, Locked
    <3> QED  BY <1>8, <1>11, <2>2, <3>1 DEF ScanLogs_try
  <2> QED  BY <2>1, <2>2
<1>12. CASE ScanLogs_timeOpen
  BY <1>9, <1>12 DEF ScanLogs_timeOpen
<1>13. CASE ScanLogs_size
  <2>1. \A k \in Logs : pc[k] = "clear" => logfd[k] # si
    BY <1>13 DEF ScanLogs_size, Apart, Locked, Scanning
  <2>2. CASE spc' = "sizeOpen" /\ ShiftFile /\ filefd[si] \in Fds
    BY <1>8, <1>13, <2>1, <2>2 DEF ScanLogs_size
  <2>3. CASE spc' = "unlock" /\ NoShift
    BY <1>7, <1>13, <2>3 DEF ScanLogs_size, NoShift
  <2> QED  BY <1>13, <2>2, <2>3 DEF ScanLogs_size
<1>14. CASE ScanLogs_sizeOpen
  BY <1>9, <1>14 DEF ScanLogs_sizeOpen
<1>15. CASE ScanLogs_unlock
  <2>1. spc' = "look" /\ UNCHANGED <<fds, logfd, pc, foreign>>
    BY <1>15 DEF ScanLogs_unlock
  <2>2. CASE spc = "unlock"
    BY <1>7, <1>15, <2>1, <2>2 DEF ScanLogs_unlock
  <2>3. CASE spc = "store"
    <3>1. filefd'[si] = newFile /\ newFile \in Fds /\ \A t \in Slots \ {si} : filefd'[t] = filefd[t]
      BY <1>15, <2>3 DEF ScanLogs_unlock
    <3>2. \A e \in Fds : (fds[e] = si) <=> (e = newFile)
      BY <2>3 DEF Kept
    <3>3. \A t \in Slots \ {si} : Closed(t)' <=> Closed(t)
      BY <2>1, <2>3 DEF Closed, Shifting
    <3>4. \A e \in Fds : fds'[e] \in Slots => e = filefd'[fds'[e]]
      BY <2>1, <3>1, <3>2 DEF Kept
    <3>5. \A t \in Slots : filefd'[t] # 0 => fds'[filefd'[t]] = t \/ Closed(t)'
      BY <2>1, <3>1, <3>2, <3>3 DEF Kept
    <3> QED  BY <2>1, <3>4, <3>5 DEF Kept
  <2> QED  BY <1>15, <2>2, <2>3 DEF ScanLogs_unlock
<1>16. ASSUME NEW fd \in Fds, SocketOpens(fd) \/ SocketCloses(fd) PROVE Kept'
  <2>1. /\ fds[fd] \notin Slots /\ fds'[fd] \notin Slots /\ \A e \in Fds \ {fd} : fds'[e] = fds[e]
        /\ UNCHANGED <<filefd, logfd, pc, scan, foreign>>
    BY <1>16 DEF SocketOpens, SocketCloses, Lowest
  <2>2. \A t \in Slots : Closed(t)' <=> Closed(t)
    BY <2>1 DEF Closed, Shifting
  <2>3. \A t \in Slots : \A e \in Fds : (fds'[e] = t) <=> (fds[e] = t)
    BY <2>1
  <2>4. \A e \in Fds : fds'[e] \in Slots => fds[e] = fds'[e]
    BY <2>1
  <2>5. \A t \in Slots : filefd'[t] # 0 => fds'[filefd'[t]] = t \/ Closed(t)'
    <3>1. \A t \in Slots : filefd[t] # 0 => filefd[t] \in Fds /\ (fds[filefd[t]] = t \/ Closed(t))
      BY DEF Kept
    <3> QED  BY <2>1, <2>2, <2>3, <3>1
  <2> QED  BY <2>1, <2>3, <2>4, <2>5 DEF Kept
<1>17. CASE UNCHANGED <<filefd, fds, logfd, pc, scan, foreign>>
  BY <1>17 DEF Kept, Closed, Shifting
<1>18. ASSUME NEW fd \in Fds, FileGrows(fd) PROVE Kept'
  BY <1>17, <1>18 DEF FileGrows
<1>19. ASSUME NEW s \in Slots, TimePasses(s) PROVE Kept'
  BY <1>17, <1>19 DEF TimePasses
<1>20. CASE UNCHANGED vars
  BY <1>17, <1>20 DEF vars
<1> QED  BY <1>1, <1>2, <1>3, <1>4, <1>5, <1>6, <1>10, <1>11, <1>12, <1>13, <1>14, <1>15,
            <1>16, <1>18, <1>19, <1>20 DEF Next, Task, ScanLogs

-----------------------------------------------------------------------------
LEMMA InvInit == Init => Inv
BY TypeInit, ApartInit, KeptInit DEF Inv

LEMMA InvStep == Inv /\ [Next]_vars => Inv'
BY TypeStep, ApartStep, KeptStep, RacedStays, FailedStays DEF Inv

\* Two logs never have one slot, and no descriptor is closed or left behind that
\* is another's (DescriptorsAreOwn): as long as no two threads met in a slot,
\* CloseLog, RegisterLog and the scan keep apart by the locks, although they
\* read whether a slot is free without them.
THEOREM DescriptorsCorrect == Spec => []DescriptorsAreOwn
<1>1. Inv => DescriptorsAreOwn
  BY DEF Inv, Apart, Owns, Kept, DescriptorsAreOwn, SlotIsOwn, OnlyOwnClosed
<1> QED  BY InvInit, InvStep, <1>1, PTL DEF Spec
=============================================================================
