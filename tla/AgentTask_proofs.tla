-------------------------- MODULE AgentTask_proofs --------------------------
(***************************************************************************)
(* Proofs about AgentTask, for any sets of users, timers, reactor threads  *)
(* and worker threads (so also for an id that is created twice).           *)
(***************************************************************************)
EXTENDS AgentTask, TLAPS

-----------------------------------------------------------------------------
(* The inductive invariant.  OneOpenTimer, OwnTimer and EndedUserIsIdle     *)
(* need to know who may hold a user: its timer designates it, or the        *)
(* command handler is about to store that timer, or a thread is ending it,  *)
(* or the list of ended users has it.                                       *)

\* The handler has a user left to add while it adds one.
Counted == hpc \in {"timer", "store"} => hLeft > 0

\* Past "running" nobody adds users; before, no worker touches the timers.
Phases ==
    /\ hpc # "idle" => status = "running"
    /\ \A w \in Workers : wpc[w] \notin {"none", "poll"} => status \notin {"none", "running"}

\* A user that was not created yet is untouched.
Untouched ==
    \A u \in Users : u \notin userAll =>
        hueTimer[u] = NULL /\ ~sock[u] /\ ~SelfDead[u] /\ userDes[u] = 0

\* The list of ended users, without what follows from the other parts.
Ended ==
    \A u \in Users : userDes[u] > 0 =>
        userDes[u] = 1 /\ u \in userAll /\ hueTimer[u] = NULL /\ ~sock[u]

\* A timer that exists belongs to a user, and an open one is known as that
\* user's timer, or is about to be.
OpenTimerKnown ==
    \A t \in Timers : tstate[t] # "free" =>
        /\ towner[t] \in userAll
        /\ isClose[t] \/ hueTimer[towner[t]] = t \/ (hpc = "store" /\ hTimer = t)

\* hue->timer is a timer of that user.  While the task runs it is allocated,
\* and closed only when the thread that closed it is about to reset it.
TimerPointer ==
    \A u \in Users : hueTimer[u] # NULL =>
        LET t == hueTimer[u] IN
        /\ tstate[t] # "free" => towner[t] = u
        /\ status \in {"none", "running"} => tstate[t] # "free"
        /\ status \in {"none", "running"} /\ isClose[t] =>
              \E th \in Threads : pc[th] = "null" /\ onTimer[th] = t

\* Each busy thread has a firing timer to itself.
ThreadTimer ==
    /\ \A th \in Threads : pc[th] # "wait" =>
          onTimer[th] \in Timers /\ tstate[onTimer[th]] = "firing"
    /\ \A r, s \in Threads : pc[r] # "wait" /\ pc[s] # "wait" /\ onTimer[r] = onTimer[s] => r = s

\* What a thread in userWorkFunc knows of its user.
ThreadUser ==
    \A th \in Threads :
        /\ pc[th] = "work" =>
              hueTimer[UserOf(th)] = onTimer[th] \/ (hpc = "store" /\ hTimer = onTimer[th])
        /\ pc[th] \in {"delete", "null"} => hueTimer[UserOf(th)] = onTimer[th]
        /\ pc[th] = "push" => hueTimer[UserOf(th)] = NULL
        /\ pc[th] = "null" => isClose[onTimer[th]]
        /\ pc[th] \in {"delete", "null", "push"} =>
              ~sock[UserOf(th)] /\ userDes[UserOf(th)] = 0

\* One thread at a time works on a user.
OneCallback ==
    \A r, s \in Threads, u \in Users : InCallback(r, u) /\ InCallback(s, u) => r = s

\* The user the handler is adding is nobody else's; if its new timer has fired
\* already, that was the first time and the user was alive.
Added ==
    hpc \in {"timer", "store"} =>
        /\ hUser \in userAll
        /\ hueTimer[hUser] = NULL
        /\ userDes[hUser] = 0
        /\ hpc = "timer" =>
              /\ ~SelfDead[hUser] /\ ~sock[hUser]
              /\ \A th \in Threads : ~InCallback(th, hUser)
        /\ hpc = "store" =>
              /\ hTimer \in Timers
              /\ tstate[hTimer] # "free" /\ ~isClose[hTimer] /\ towner[hTimer] = hUser
              /\ tstate[hTimer] = "new" => ~SelfDead[hUser] /\ ~sock[hUser]
              /\ \A th \in Threads : InCallback(th, hUser) =>
                    pc[th] = "work" /\ ~SelfDead[hUser] /\ ~sock[hUser]

IInv ==
    /\ TypeOK
    /\ Counted
    /\ Phases
    /\ Untouched
    /\ Ended
    /\ OpenTimerKnown
    /\ TimerPointer
    /\ ThreadTimer
    /\ ThreadUser
    /\ OneCallback
    /\ Added

-----------------------------------------------------------------------------
(* Type correctness.                                                        *)

\* Every command, and every step of the handler, keeps the types.
LEMMA HandlerTypes ==
    ASSUME TypeOK, Counted, Command \/ HandlerStep
    PROVE  TypeOK' /\ Counted'
<1> USE MaxAddAssumption
    DEF TypeOK, Counted, taskVars, userVars, timerVars, threadVars, handlerVars, workerVars,
        HandlerSteps, WorkerSteps, Statuses, TimerStates
<1>1. CASE Command
  BY <1>1 DEF Command, create_new_task, task_add_user_by_taskid, stop_task_by_id
<1>2. ASSUME NEW u \in Users, ReviveUser(u)
      PROVE  TypeOK' /\ Counted'
  BY <1>2 DEF ReviveUser
<1>3. ASSUME NEW u \in Users, CreateUser(u)
      PROVE  TypeOK' /\ Counted'
  BY <1>3 DEF CreateUser
<1>4. ASSUME NEW t \in Timers, TimerCreate(t)
      PROVE  TypeOK' /\ Counted'
  BY <1>4 DEF TimerCreate
<1>5. CASE CreateFails
  BY <1>5 DEF CreateFails
<1>6. CASE TimerCreateFails
  <2>1. hLeft' \in 0..MaxAdd
    BY <1>6 DEF TimerCreateFails
  <2>2. hueTimer' \in [Users -> Timers \cup {NULL}]
    BY <1>6 DEF TimerCreateFails
  <2> QED  BY <1>6, <2>1, <2>2 DEF TimerCreateFails
<1>7. CASE StoreTimer
  <2>1. hLeft' \in 0..MaxAdd
    BY <1>7 DEF StoreTimer
  <2>2. hueTimer' \in [Users -> Timers \cup {NULL}]
    BY <1>7 DEF StoreTimer
  <2> QED  BY <1>7, <2>1, <2>2 DEF StoreTimer
<1>8. CASE AddUserDone
  BY <1>8 DEF AddUserDone
<1> QED  BY <1>1, <1>2, <1>3, <1>4, <1>5, <1>6, <1>7, <1>8 DEF HandlerStep

\* Every step of a reactor thread, and do_close, keeps the types.
LEMMA ThreadTypes ==
    ASSUME TypeOK, Counted,
           \/ \E t \in Timers : TimerEvent(t)
           \/ \E th \in Threads : ThreadStep(th)
           \/ \E u \in Users : do_close(u)
    PROVE  TypeOK' /\ Counted'
<1> USE DEF TypeOK, Counted, taskVars, userVars, timerVars, threadVars, handlerVars, workerVars,
        ThreadSteps, TimerStates
<1>1. ASSUME NEW th \in Threads, NEW t \in Timers, ReleaseTimer(th, t)
      PROVE  TypeOK' /\ Counted'
  BY <1>1 DEF ReleaseTimer
<1>2. ASSUME NEW th \in Threads, NEW t \in Timers, FireTimer(th, t)
      PROVE  TypeOK' /\ Counted'
  BY <1>2 DEF FireTimer
<1>3. ASSUME NEW th \in Threads, userWorkFunc(th)
      PROVE  TypeOK' /\ Counted'
  BY <1>3 DEF userWorkFunc, Loop
<1>4. ASSUME NEW th \in Threads, WorkTimerDelete(th) \/ WorkTimerNull(th)
      PROVE  TypeOK' /\ Counted'
  BY <1>4 DEF WorkTimerDelete, WorkTimerNull
<1>5. ASSUME NEW th \in Threads, push_userDes_back(th) \/ Rearm(th)
      PROVE  TypeOK' /\ Counted'
  BY <1>5 DEF push_userDes_back, Rearm
<1>6. ASSUME NEW u \in Users, do_close(u)
      PROVE  TypeOK' /\ Counted'
  BY <1>6 DEF do_close
<1> QED  BY <1>1, <1>2, <1>3, <1>4, <1>5, <1>6 DEF TimerEvent, ThreadStep

\* Every step of a worker thread keeps the types.
LEMMA WorkerTypes ==
    ASSUME TypeOK, Counted, NEW w \in Workers, WorkerStep(w)
    PROVE  TypeOK' /\ Counted'
<1> USE DEF TypeOK, Counted, taskVars, userVars, timerVars, threadVars, handlerVars, workerVars,
        WorkerSteps, Statuses
<1>1. ASSUME NEW u \in Users, WorkerLoadTimer(w, u)
      PROVE  TypeOK' /\ Counted'
  BY <1>1 DEF WorkerLoadTimer
<1>2. ASSUME NEW u \in Users, EventDestroy(w, u)
      PROVE  TypeOK' /\ Counted'
  BY <1>2 DEF EventDestroy
<1>3. CASE WorkerTimerDelete(w)
  BY <1>3 DEF WorkerTimerDelete
<1>4. CASE WorkerSeesStop(w) \/ FreeMessages(w)
  BY <1>4 DEF WorkerSeesStop, FreeMessages
<1>5. CASE StartWait(w) \/ WaitOver(w) \/ FreeTask(w)
  BY <1>5 DEF StartWait, WaitOver, FreeTask
<1> QED  BY <1>1, <1>2, <1>3, <1>4, <1>5 DEF WorkerStep

\* The initial state and every step keep the types.
LEMMA TypeInit == Init => TypeOK /\ Counted
<1> SUFFICES ASSUME Init  PROVE TypeOK /\ Counted
  OBVIOUS
<1>1. /\ userDes \in [Users -> Nat]
      /\ SelfDead \in [Users -> BOOLEAN]
      /\ sock \in [Users -> BOOLEAN]
      /\ hueTimer \in [Users -> Timers \cup {NULL}]
  BY DEF Init
<1>2. /\ tstate \in [Timers -> TimerStates]
      /\ towner \in [Timers -> Users \cup {NULL}]
      /\ isClose \in [Timers -> BOOLEAN]
      /\ pc \in [Threads -> ThreadSteps]
      /\ onTimer \in [Threads -> Timers \cup {NULL}]
  BY DEF Init, TimerStates, ThreadSteps
<1>3. /\ wpc \in [Workers -> WorkerSteps]
      /\ wTodo \in [Workers -> SUBSET Users]
      /\ wTimer \in [Workers -> Timers \cup {NULL}]
  BY DEF Init, WorkerSteps
<1>4. /\ status \in Statuses /\ userAll \subseteq Users
      /\ hpc \in HandlerSteps /\ hLeft \in 0..MaxAdd
      /\ hUser \in Users \cup {NULL} /\ hTimer \in Timers \cup {NULL}
  BY MaxAddAssumption DEF Init, Statuses, HandlerSteps
<1>5. ignoreErr \in BOOLEAN /\ hNew \in BOOLEAN
  BY DEF Init
<1>6. Counted
  BY DEF Init, Counted
<1> QED  BY <1>1, <1>2, <1>3, <1>4, <1>5, <1>6 DEF TypeOK

LEMMA TypeNext == TypeOK /\ Counted /\ [Next]_vars => TypeOK' /\ Counted'
<1> SUFFICES ASSUME TypeOK, Counted, [Next]_vars  PROVE TypeOK' /\ Counted'
  OBVIOUS
<1>1. CASE UNCHANGED vars
  BY <1>1 DEF vars, taskVars, userVars, timerVars, threadVars, handlerVars, workerVars,
     TypeOK, Counted
<1> QED  BY <1>1, HandlerTypes, ThreadTypes, WorkerTypes DEF Next

\* Type correctness of the agent's task.
THEOREM TypeCorrect == Spec => []TypeOK
  BY TypeInit, TypeNext, PTL DEF Spec

-----------------------------------------------------------------------------
(* Every action preserves the inductive invariant.  The first step of each  *)
(* proof is what the action leaves alone, or keeps by itself; the others    *)
(* are the parts it disturbs.                                               *)

\* A create only starts the handler: a running task keeps its users.
LEMMA create_new_task_Step ==
    ASSUME IInv, TypeOK', Counted', NEW n \in 0..MaxAdd, NEW err \in BOOLEAN, create_new_task(n, err)
    PROVE  IInv'
<1> USE NullAssumption
    DEF IInv, TypeOK, create_new_task,
        taskVars, userVars, timerVars, threadVars, handlerVars, workerVars
<1>1. Phases' /\ Untouched' /\ Ended' /\ OpenTimerKnown' /\ TimerPointer'
      /\ ThreadTimer' /\ ThreadUser' /\ OneCallback' /\ Added'
  BY DEF Phases, Untouched, Ended, OpenTimerKnown, TimerPointer, ThreadTimer,
         ThreadUser, OneCallback, Added, InCallback, UserOf
<1> QED  BY <1>1

\* Adding users only starts the handler.
LEMMA task_add_user_by_taskid_Step ==
    ASSUME IInv, TypeOK', Counted', NEW n \in 0..MaxAdd, task_add_user_by_taskid(n)
    PROVE  IInv'
<1> USE NullAssumption
    DEF IInv, TypeOK, task_add_user_by_taskid,
        taskVars, userVars, timerVars, threadVars, handlerVars, workerVars
<1>1. Phases' /\ Untouched' /\ Ended' /\ OpenTimerKnown' /\ TimerPointer'
      /\ ThreadTimer' /\ ThreadUser' /\ OneCallback' /\ Added'
  BY DEF Phases, Untouched, Ended, OpenTimerKnown, TimerPointer, ThreadTimer,
         ThreadUser, OneCallback, Added, InCallback, UserOf
<1> QED  BY <1>1

\* A stop changes the status, with no user being added.
LEMMA stop_task_by_id_Step ==
    ASSUME IInv, TypeOK', Counted', stop_task_by_id
    PROVE  IInv'
<1> USE NullAssumption
    DEF IInv, TypeOK, stop_task_by_id,
        taskVars, userVars, timerVars, threadVars, handlerVars, workerVars
<1>1. Phases' /\ Untouched' /\ Ended' /\ OpenTimerKnown' /\ TimerPointer'
      /\ ThreadTimer' /\ ThreadUser' /\ OneCallback' /\ Added'
  BY DEF Phases, Untouched, Ended, OpenTimerKnown, TimerPointer, ThreadTimer,
         ThreadUser, OneCallback, Added, InCallback, UserOf
<1> QED  BY <1>1

\* A revival takes the user from the list into the handler's hands.
LEMMA ReviveUser_Step ==
    ASSUME IInv, TypeOK', Counted', NEW u \in Users, ReviveUser(u)
    PROVE  IInv'
<1> USE NullAssumption
    DEF IInv, TypeOK, ReviveUser,
        taskVars, userVars, timerVars, threadVars, handlerVars, workerVars
<1>1. Phases' /\ Untouched' /\ Ended' /\ OpenTimerKnown'
      /\ TimerPointer' /\ ThreadTimer' /\ ThreadUser' /\ OneCallback'
  BY DEF Phases, Untouched, Ended, OpenTimerKnown, TimerPointer, ThreadTimer,
         ThreadUser, OneCallback, InCallback, UserOf
\* the user comes from userDes, where no thread and no timer has it
<1>2. Added'
  BY DEF Added, Ended, ThreadTimer, ThreadUser, InCallback, UserOf
<1> QED  BY <1>1, <1>2

\* A new user is in the handler's hands only.
LEMMA CreateUser_Step ==
    ASSUME IInv, TypeOK', Counted', NEW u \in Users, CreateUser(u)
    PROVE  IInv'
<1> USE NullAssumption
    DEF IInv, TypeOK, CreateUser,
        taskVars, userVars, timerVars, threadVars, handlerVars, workerVars
<1>1. Phases' /\ Untouched' /\ Ended' /\ OpenTimerKnown'
      /\ TimerPointer' /\ ThreadTimer' /\ ThreadUser' /\ OneCallback'
  BY DEF Phases, Untouched, Ended, OpenTimerKnown, TimerPointer, ThreadTimer,
         ThreadUser, OneCallback, InCallback, UserOf
\* a user outside userAll has no timer, so no thread works on it
<1>2. Added'
  BY DEF Added, OpenTimerKnown, ThreadTimer, Untouched, InCallback, UserOf
<1> QED  BY <1>1, <1>2

\* An iteration that fails to create a user changes nothing.
LEMMA CreateFails_Step ==
    ASSUME IInv, TypeOK', Counted', CreateFails
    PROVE  IInv'
<1> USE NullAssumption
    DEF IInv, TypeOK, CreateFails,
        taskVars, userVars, timerVars, threadVars, handlerVars, workerVars
<1>1. Phases' /\ Untouched' /\ Ended' /\ OpenTimerKnown' /\ TimerPointer'
      /\ ThreadTimer' /\ ThreadUser' /\ OneCallback' /\ Added'
  BY DEF Phases, Untouched, Ended, OpenTimerKnown, TimerPointer, ThreadTimer,
         ThreadUser, OneCallback, Added, InCallback, UserOf
<1> QED  BY <1>1

\* A new timer, of the user being added, that only the handler knows.
LEMMA TimerCreate_Step ==
    ASSUME IInv, TypeOK', Counted', NEW t \in Timers, TimerCreate(t)
    PROVE  IInv'
<1> USE NullAssumption
    DEF IInv, TypeOK, TimerCreate,
        taskVars, userVars, timerVars, threadVars, handlerVars, workerVars
<1>1. Phases' /\ Untouched' /\ Ended' /\ ThreadTimer'
  BY DEF Phases, Untouched, Ended, ThreadTimer
\* the new timer is in the handler's hands; the user had no other
<1>2. OpenTimerKnown'
  BY DEF OpenTimerKnown, Added, InCallback, UserOf
\* the task runs, so no user still points at the free timer that is reused
<1>3. TimerPointer'
  BY DEF TimerPointer, Phases
\* no thread is busy with a free timer
<1>4. ThreadUser'
  BY DEF ThreadUser, ThreadTimer, InCallback, UserOf
<1>5. OneCallback'
  BY DEF OneCallback, ThreadTimer, InCallback, UserOf
<1>6. Added'
  BY DEF Added, ThreadTimer, InCallback, UserOf
<1> QED  BY <1>1, <1>2, <1>3, <1>4, <1>5, <1>6

\* Without a timer the user is left with nothing.
LEMMA TimerCreateFails_Step ==
    ASSUME IInv, TypeOK', Counted', TimerCreateFails
    PROVE  IInv'
<1> USE NullAssumption
    DEF IInv, TypeOK, TimerCreateFails,
        taskVars, userVars, timerVars, threadVars, handlerVars, workerVars
<1>1. Phases' /\ Untouched' /\ Ended' /\ TimerPointer'
      /\ ThreadTimer' /\ OneCallback' /\ Added'
  BY DEF Phases, Untouched, Ended, TimerPointer, ThreadTimer, OneCallback,
         Added, InCallback, UserOf
\* hue->timer was NULL already
<1>2. OpenTimerKnown'
  BY DEF OpenTimerKnown, Added, InCallback, UserOf
<1>3. ThreadUser'
  BY DEF ThreadUser, Added, InCallback, UserOf
<1> QED  BY <1>1, <1>2, <1>3

\* The handler gives the user its timer.
LEMMA StoreTimer_Step ==
    ASSUME IInv, TypeOK', Counted', StoreTimer
    PROVE  IInv'
<1> USE NullAssumption
    DEF IInv, TypeOK, StoreTimer,
        taskVars, userVars, timerVars, threadVars, handlerVars, workerVars
<1>1. Phases' /\ ThreadTimer' /\ OneCallback' /\ Added'
  BY DEF Phases, ThreadTimer, OneCallback, Added, InCallback, UserOf
\* the user is in userAll
<1>2. Untouched'
  BY DEF Untouched, Added, InCallback, UserOf
\* the user is not in userDes
<1>3. Ended'
  BY DEF Ended, Added, InCallback, UserOf
\* no open timer is forgotten: the pointer it overwrites is NULL
<1>4. OpenTimerKnown'
  BY DEF OpenTimerKnown, Added, InCallback, UserOf
\* the timer is allocated, open and the user's
<1>5. TimerPointer'
  BY DEF TimerPointer, Added, InCallback, UserOf
\* a thread that already runs the timer finds it in hue->timer
<1>6. ThreadUser'
  BY DEF ThreadUser, Added, ThreadTimer, InCallback, UserOf
<1> QED  BY <1>1, <1>2, <1>3, <1>4, <1>5, <1>6

\* The handler is done; a worker thread may start.
LEMMA AddUserDone_Step ==
    ASSUME IInv, TypeOK', Counted', AddUserDone
    PROVE  IInv'
<1> USE NullAssumption
    DEF IInv, TypeOK, AddUserDone,
        taskVars, userVars, timerVars, threadVars, handlerVars, workerVars
<1>1. Phases' /\ Untouched' /\ Ended' /\ OpenTimerKnown' /\ TimerPointer'
      /\ ThreadTimer' /\ ThreadUser' /\ OneCallback' /\ Added'
  BY DEF Phases, Untouched, Ended, OpenTimerKnown, TimerPointer, ThreadTimer,
         ThreadUser, OneCallback, Added, InCallback, UserOf
<1> QED  BY <1>1

\* Nothing refers to a timer that is released, while the task runs.
LEMMA ReleaseTimer_Step ==
    ASSUME IInv, TypeOK', Counted', NEW th \in Threads, NEW t \in Timers, ReleaseTimer(th, t)
    PROVE  IInv'
<1> USE NullAssumption
    DEF IInv, TypeOK, ReleaseTimer, Due,
        taskVars, userVars, timerVars, threadVars, handlerVars, workerVars
<1>1. Phases' /\ Untouched' /\ Ended' /\ OpenTimerKnown'
      /\ ThreadTimer' /\ OneCallback' /\ Added'
  BY DEF Phases, Untouched, Ended, OpenTimerKnown, ThreadTimer, OneCallback,
         Added, InCallback, UserOf
\* while the task runs a closed timer that is still in hue->timer is firing, not due
<1>2. TimerPointer'
  BY DEF TimerPointer, ThreadTimer
\* no busy thread has the timer
<1>3. ThreadUser'
  BY DEF ThreadUser, ThreadTimer, InCallback, UserOf
<1> QED  BY <1>1, <1>2, <1>3

\* An open timer starts the one callback of its user.
LEMMA FireTimer_Step ==
    ASSUME IInv, TypeOK', Counted', NEW th \in Threads, NEW t \in Timers, FireTimer(th, t)
    PROVE  IInv'
<1> USE NullAssumption
    DEF IInv, TypeOK, FireTimer, Due, Held,
        taskVars, userVars, timerVars, threadVars, handlerVars, workerVars
<1>1. Phases' /\ Untouched' /\ Ended'
      /\ OpenTimerKnown' /\ TimerPointer' /\ ThreadTimer'
  BY DEF Phases, Untouched, Ended, OpenTimerKnown, TimerPointer, ThreadTimer
\* an open timer is known as its user's
<1>2. ThreadUser'
  BY DEF ThreadUser, OpenTimerKnown, InCallback, UserOf
\* another callback on the user would run on the same timer
<1>3. OneCallback'
  BY DEF OneCallback, Added, OpenTimerKnown, ThreadTimer, ThreadUser,
         InCallback, UserOf
\* the timer the handler has not stored is Held: it fires as a new one only
<1>4. Added'
  BY DEF Added, OpenTimerKnown, InCallback, UserOf
<1> QED  BY <1>1, <1>2, <1>3, <1>4

\* The callback replays, revives or ends its user.
LEMMA userWorkFunc_Step ==
    ASSUME IInv, TypeOK', Counted', NEW th \in Threads, userWorkFunc(th)
    PROVE  IInv'
<1> USE NullAssumption
    DEF IInv, TypeOK, userWorkFunc, Loop,
        taskVars, userVars, timerVars, threadVars, handlerVars, workerVars
<1>1. Phases' /\ OpenTimerKnown' /\ TimerPointer'
      /\ ThreadTimer' /\ OneCallback'
  BY DEF Phases, OpenTimerKnown, TimerPointer, ThreadTimer, OneCallback,
         InCallback, UserOf
\* the timer's user is in userAll
<1>2. Untouched'
  BY DEF Untouched, Added, ThreadTimer, ThreadUser, InCallback, UserOf
\* hue->timer of a user in callback is set, or the handler has the user
<1>3. Ended'
  BY DEF Ended, Added, ThreadTimer, ThreadUser, InCallback, UserOf
\* the thread that ends a user has its timer in hue->timer
<1>4. ThreadUser'
  BY DEF ThreadUser, Added, Ended, OpenTimerKnown, ThreadTimer, InCallback,
         UserOf
\* at its first expiry the user the handler adds is alive
<1>5. Added'
  BY DEF Added, ThreadTimer, ThreadUser, InCallback, UserOf
<1> QED  BY <1>1, <1>2, <1>3, <1>4, <1>5

\* The ending thread closes its own timer.
LEMMA WorkTimerDelete_Step ==
    ASSUME IInv, TypeOK', Counted', NEW th \in Threads, WorkTimerDelete(th)
    PROVE  IInv'
<1> USE NullAssumption
    DEF IInv, TypeOK, WorkTimerDelete,
        taskVars, userVars, timerVars, threadVars, handlerVars, workerVars
<1>1. Phases' /\ Untouched' /\ Ended' /\ OpenTimerKnown'
      /\ ThreadTimer' /\ ThreadUser' /\ OneCallback'
  BY DEF Phases, Untouched, Ended, OpenTimerKnown, ThreadTimer, ThreadUser,
         OneCallback, InCallback, UserOf
\* the timer it closes is its own, and it resets the pointer next
<1>2. TimerPointer'
  BY DEF TimerPointer, ThreadUser, InCallback, UserOf
\* its own timer is not the one the handler has just created
<1>3. Added'
  BY DEF Added, ThreadUser, InCallback, UserOf
<1> QED  BY <1>1, <1>2, <1>3

\* The ending thread forgets its closed timer.
LEMMA WorkTimerNull_Step ==
    ASSUME IInv, TypeOK', Counted', NEW th \in Threads, WorkTimerNull(th)
    PROVE  IInv'
<1> USE NullAssumption
    DEF IInv, TypeOK, WorkTimerNull,
        taskVars, userVars, timerVars, threadVars, handlerVars, workerVars
<1>1. Phases' /\ Untouched' /\ Ended' /\ TimerPointer'
      /\ ThreadTimer' /\ OneCallback' /\ Added'
  BY DEF Phases, Untouched, Ended, TimerPointer, ThreadTimer, OneCallback,
         Added, InCallback, UserOf
\* the timer it forgets is closed
<1>2. OpenTimerKnown'
  BY DEF OpenTimerKnown, ThreadUser, InCallback, UserOf
\* no other thread works on the user
<1>3. ThreadUser'
  BY DEF ThreadUser, OneCallback, InCallback, UserOf
<1> QED  BY <1>1, <1>2, <1>3

\* The ended user enters the list once.
LEMMA push_userDes_back_Step ==
    ASSUME IInv, TypeOK', Counted', NEW th \in Threads, push_userDes_back(th)
    PROVE  IInv'
<1> USE NullAssumption
    DEF IInv, TypeOK, push_userDes_back,
        taskVars, userVars, timerVars, threadVars, handlerVars, workerVars
<1>1. Phases' /\ OpenTimerKnown' /\ TimerPointer'
      /\ ThreadTimer' /\ OneCallback' /\ Added'
  BY DEF Phases, OpenTimerKnown, TimerPointer, ThreadTimer, OneCallback,
         Added, InCallback, UserOf
\* the user is in userAll
<1>2. Untouched'
  BY DEF Untouched, OpenTimerKnown, ThreadTimer, UserOf
\* the user was in the list no time, and has neither timer nor socket
<1>3. Ended'
  BY DEF Ended, OpenTimerKnown, ThreadTimer, ThreadUser, InCallback, UserOf
\* no other thread is ending the user
<1>4. ThreadUser'
  BY DEF ThreadUser, OneCallback, InCallback, UserOf
<1> QED  BY <1>1, <1>2, <1>3, <1>4

\* The callback is over and its timer armed again.
LEMMA Rearm_Step ==
    ASSUME IInv, TypeOK', Counted', NEW th \in Threads, Rearm(th)
    PROVE  IInv'
<1> USE NullAssumption
    DEF IInv, TypeOK, Rearm,
        taskVars, userVars, timerVars, threadVars, handlerVars, workerVars
<1>1. Phases' /\ Untouched' /\ Ended' /\ ThreadTimer'
      /\ ThreadUser' /\ OneCallback' /\ Added'
  BY DEF Phases, Untouched, Ended, ThreadTimer, ThreadUser, OneCallback,
         Added, InCallback, UserOf
\* the timer it arms again was firing
<1>2. OpenTimerKnown'
  BY DEF OpenTimerKnown, ThreadTimer
<1>3. TimerPointer'
  BY DEF TimerPointer, ThreadTimer
<1> QED  BY <1>1, <1>2, <1>3

\* Only a user with a socket has one closed.
LEMMA do_close_Step ==
    ASSUME IInv, TypeOK', Counted', NEW u \in Users, do_close(u)
    PROVE  IInv'
<1> USE NullAssumption
    DEF IInv, TypeOK, do_close,
        taskVars, userVars, timerVars, threadVars, handlerVars, workerVars
<1>1. Phases' /\ Untouched' /\ Ended' /\ OpenTimerKnown' /\ TimerPointer'
      /\ ThreadTimer' /\ ThreadUser' /\ OneCallback' /\ Added'
  BY DEF Phases, Untouched, Ended, OpenTimerKnown, TimerPointer, ThreadTimer,
         ThreadUser, OneCallback, Added, InCallback, UserOf
<1> QED  BY <1>1

\* A worker thread leaves its poll when the task is stopped.
LEMMA WorkerSeesStop_Step ==
    ASSUME IInv, TypeOK', Counted', NEW w \in Workers, WorkerSeesStop(w)
    PROVE  IInv'
<1> USE NullAssumption
    DEF IInv, TypeOK, WorkerSeesStop,
        taskVars, userVars, timerVars, threadVars, handlerVars, workerVars
<1>1. Phases' /\ Untouched' /\ Ended' /\ OpenTimerKnown' /\ TimerPointer'
      /\ ThreadTimer' /\ ThreadUser' /\ OneCallback' /\ Added'
  BY DEF Phases, Untouched, Ended, OpenTimerKnown, TimerPointer, ThreadTimer,
         ThreadUser, OneCallback, Added, InCallback, UserOf
<1> QED  BY <1>1

\* Reading a pointer disturbs nothing.
LEMMA WorkerLoadTimer_Step ==
    ASSUME IInv, TypeOK', Counted', NEW w \in Workers, NEW u \in Users, WorkerLoadTimer(w, u)
    PROVE  IInv'
<1> USE NullAssumption
    DEF IInv, TypeOK, WorkerLoadTimer,
        taskVars, userVars, timerVars, threadVars, handlerVars, workerVars
<1>1. Phases' /\ Untouched' /\ Ended' /\ OpenTimerKnown' /\ TimerPointer'
      /\ ThreadTimer' /\ ThreadUser' /\ OneCallback' /\ Added'
  BY DEF Phases, Untouched, Ended, OpenTimerKnown, TimerPointer, ThreadTimer,
         ThreadUser, OneCallback, Added, InCallback, UserOf
<1> QED  BY <1>1

\* Sockets are only closed.
LEMMA EventDestroy_Step ==
    ASSUME IInv, TypeOK', Counted', NEW w \in Workers, NEW u \in Users, EventDestroy(w, u)
    PROVE  IInv'
<1> USE NullAssumption
    DEF IInv, TypeOK, EventDestroy,
        taskVars, userVars, timerVars, threadVars, handlerVars, workerVars
<1>1. Phases' /\ Untouched' /\ Ended' /\ OpenTimerKnown' /\ TimerPointer'
      /\ ThreadTimer' /\ ThreadUser' /\ OneCallback' /\ Added'
  BY DEF Phases, Untouched, Ended, OpenTimerKnown, TimerPointer, ThreadTimer,
         ThreadUser, OneCallback, Added, InCallback, UserOf
<1> QED  BY <1>1

\* After the stop a worker may close any timer.
LEMMA WorkerTimerDelete_Step ==
    ASSUME IInv, TypeOK', Counted', NEW w \in Workers, WorkerTimerDelete(w)
    PROVE  IInv'
<1> USE NullAssumption
    DEF IInv, TypeOK, WorkerTimerDelete,
        taskVars, userVars, timerVars, threadVars, handlerVars, workerVars
<1>1. Phases' /\ Untouched' /\ Ended' /\ OpenTimerKnown'
      /\ ThreadTimer' /\ ThreadUser' /\ OneCallback'
  BY DEF Phases, Untouched, Ended, OpenTimerKnown, ThreadTimer, ThreadUser,
         OneCallback, InCallback, UserOf
\* the task runs no more
<1>2. TimerPointer'
  BY DEF TimerPointer, Phases
\* nobody is being added any more
<1>3. Added'
  BY DEF Added, Phases, InCallback, UserOf
<1> QED  BY <1>1, <1>2, <1>3

\* The last steps of destroy_task change the worker's place and the status only.
LEMMA destroy_task_Step ==
    ASSUME IInv, TypeOK', Counted', NEW w \in Workers,
           FreeMessages(w) \/ StartWait(w) \/ WaitOver(w) \/ FreeTask(w)
    PROVE  IInv'
<1> USE NullAssumption
    DEF IInv, TypeOK, FreeMessages, StartWait, WaitOver, FreeTask,
        taskVars, userVars, timerVars, threadVars, handlerVars, workerVars
<1>1. Phases' /\ Untouched' /\ Ended' /\ OpenTimerKnown' /\ TimerPointer' /\ ThreadTimer'
  BY DEF Phases, Untouched, Ended, OpenTimerKnown, TimerPointer, ThreadTimer
<1>2. ThreadUser' /\ OneCallback' /\ Added'
  BY DEF ThreadUser, OneCallback, Added, InCallback, UserOf
<1> QED  BY <1>1, <1>2

-----------------------------------------------------------------------------
(* The invariant and what follows from it.                                  *)

LEMMA IInvInit == Init => IInv
<1> SUFFICES ASSUME Init  PROVE IInv
  OBVIOUS
<1>1. TypeOK /\ Counted
  BY TypeInit
<1>2. Phases /\ Untouched /\ Ended /\ OpenTimerKnown /\ TimerPointer
  BY DEF Init, Phases, Untouched, Ended, OpenTimerKnown, TimerPointer
<1>3. ThreadTimer /\ ThreadUser /\ OneCallback /\ Added
  BY DEF Init, ThreadTimer, ThreadUser, OneCallback, Added, InCallback
<1> QED  BY <1>1, <1>2, <1>3 DEF IInv

LEMMA IInvNext == IInv /\ [Next]_vars => IInv'
<1> SUFFICES ASSUME IInv, [Next]_vars  PROVE IInv'
  OBVIOUS
<1>1. TypeOK' /\ Counted'
  BY TypeNext DEF IInv
<1>2. CASE Command
  BY <1>1, <1>2, create_new_task_Step, task_add_user_by_taskid_Step, stop_task_by_id_Step
  DEF Command
<1>3. CASE HandlerStep
  BY <1>1, <1>3, ReviveUser_Step, CreateUser_Step, CreateFails_Step, TimerCreate_Step,
     TimerCreateFails_Step, StoreTimer_Step, AddUserDone_Step
  DEF HandlerStep
<1>4. CASE \E t \in Timers : TimerEvent(t)
  BY <1>1, <1>4, ReleaseTimer_Step, FireTimer_Step DEF TimerEvent
<1>5. CASE \E th \in Threads : ThreadStep(th)
  BY <1>1, <1>5, userWorkFunc_Step, WorkTimerDelete_Step, WorkTimerNull_Step,
     push_userDes_back_Step, Rearm_Step
  DEF ThreadStep
<1>6. CASE \E u \in Users : do_close(u)
  BY <1>1, <1>6, do_close_Step
<1>7. CASE \E w \in Workers : WorkerStep(w)
  BY <1>1, <1>7, WorkerSeesStop_Step, WorkerLoadTimer_Step, EventDestroy_Step,
     WorkerTimerDelete_Step, destroy_task_Step
  DEF WorkerStep
<1>8. CASE UNCHANGED vars
  <2> USE <1>1, <1>8
      DEF IInv, vars, taskVars, userVars, timerVars, threadVars, handlerVars, workerVars
  <2>1. Phases' /\ Untouched' /\ Ended' /\ OpenTimerKnown' /\ TimerPointer' /\ ThreadTimer'
    BY DEF Phases, Untouched, Ended, OpenTimerKnown, TimerPointer, ThreadTimer
  <2>2. ThreadUser' /\ OneCallback' /\ Added'
    BY DEF ThreadUser, OneCallback, Added, InCallback, UserOf
  <2> QED  BY <2>1, <2>2
<1> QED  BY <1>2, <1>3, <1>4, <1>5, <1>6, <1>7, <1>8 DEF Next

LEMMA InvariantHolds == Spec => []IInv
  BY IInvInit, IInvNext, PTL DEF Spec

\* A user is driven by at most one open timer, however the commands, the
\* callbacks and the worker threads interleave.
THEOREM OneOpenTimerHolds == Spec => []OneOpenTimer
<1>1. IInv => OneOpenTimer
  BY NullAssumption DEF IInv, TypeOK, OpenTimerKnown, Added, OneOpenTimer, Open
<1> QED  BY <1>1, InvariantHolds, PTL

\* The thread that ends a user deletes and forgets its own timer.
THEOREM OwnTimerHolds == Spec => []OwnTimer
<1>1. IInv => OwnTimer
  BY DEF IInv, ThreadUser, OwnTimer
<1> QED  BY <1>1, InvariantHolds, PTL

\* Each user has one open timer, which is the one its thread deletes.
THEOREM TimersAreOwnHolds == Spec => []TimersAreOwn
BY OneOpenTimerHolds, OwnTimerHolds, PTL DEF TimersAreOwn

\* A user in userDes is there once, and neither a timer, nor a callback, nor a
\* socket can reach it while task_add_user revives it without its lock.
THEOREM EndedUserIsIdleHolds == Spec => []EndedUserIsIdle
<1>1. IInv => EndedUserIsIdle
  <2> SUFFICES ASSUME IInv, NEW u \in Users, userDes[u] > 0
               PROVE  /\ userDes[u] = 1 /\ u \in userAll /\ hueTimer[u] = NULL /\ ~sock[u]
                      /\ \A t \in Timers : Open(t) => towner[t] # u
                      /\ \A th \in Threads : ~InCallback(th, u)
    BY DEF EndedUserIsIdle
  <2>1. userDes[u] = 1 /\ u \in userAll /\ hueTimer[u] = NULL /\ ~sock[u]
    BY DEF IInv, Ended
  <2>2. hpc \in {"timer", "store"} => hUser # u
    BY DEF IInv, TypeOK, Added
  <2>3. \A t \in Timers : Open(t) => towner[t] # u
    BY <2>1, <2>2, NullAssumption DEF IInv, TypeOK, OpenTimerKnown, Added, Open
  <2>4. \A th \in Threads : ~InCallback(th, u)
    BY <2>1, <2>2, NullAssumption DEF IInv, TypeOK, ThreadTimer, ThreadUser, Added,
       InCallback, UserOf
  <2> QED  BY <2>1, <2>3, <2>4
<1> QED  BY <1>1, InvariantHolds, PTL

-----------------------------------------------------------------------------
(* The end of a task whose id was created once (one taskWorkerThread): what *)
(* taskWorkerThread and destroy_task may rely on although they share no     *)
(* lock with the reactor threads.                                           *)

\* create_new_task ran once for the id.
OneCreate == \A v, w \in Workers : v = w

\* The worker thread has not read the timer of the user.
Unvisited(u) ==
    \A w \in Workers :
        wpc[w] \in {"none", "poll"} \/ (wpc[w] \in {"close", "store"} /\ u \in wTodo[w])

\* Until the worker thread has visited a user, hue->timer is allocated, and
\* closed only when the thread that closed it is about to reset it.
Pointer ==
    \A u \in Users : hueTimer[u] # NULL /\ Unvisited(u) =>
        LET t == hueTimer[u] IN
        /\ tstate[t] # "free"
        /\ isClose[t] => \E th \in Threads : pc[th] = "null" /\ onTimer[th] = t

\* The timer the worker thread has read is allocated, is the timer of a user it
\* has visited, and was not closed if it never fired.
Loaded ==
    \A w \in Workers : wpc[w] = "store" =>
        /\ wTimer[w] \in Timers
        /\ tstate[wTimer[w]] # "free"
        /\ towner[wTimer[w]] \notin wTodo[w]
        /\ tstate[wTimer[w]] = "new" => ~isClose[wTimer[w]]

\* An open timer is one the worker thread has still to close.
Closing ==
    \A w \in Workers, t \in Timers : Open(t) =>
        \/ wpc[w] \in {"none", "poll"}
        \/ wpc[w] \in {"close", "store"} /\ towner[t] \in wTodo[w]
        \/ wpc[w] = "store" /\ wTimer[w] = t

\* After the wait no timer is left.
Waited ==
    \A w \in Workers : wpc[w] \in {"free", "done"} => \A t \in Timers : tstate[t] = "free"

StopInv == Pointer /\ Loaded /\ Closing /\ Waited

-----------------------------------------------------------------------------
(* The steps that disturb no part of StopInv, or keep each part by itself.   *)

\* The command handler works only before the worker thread closes timers, and
\* these steps create none.
LEMMA StopHandlerSteps ==
    ASSUME OneCreate, IInv, StopInv, TypeOK'
    PROVE  /\ \A n \in 0..MaxAdd, err \in BOOLEAN : create_new_task(n, err) => StopInv'
           /\ \A n \in 0..MaxAdd : task_add_user_by_taskid(n) => StopInv'
           /\ stop_task_by_id => StopInv'
           /\ \A u \in Users : ReviveUser(u) => StopInv'
           /\ \A u \in Users : CreateUser(u) => StopInv'
           /\ CreateFails => StopInv'
           /\ TimerCreateFails => StopInv'
           /\ AddUserDone => StopInv'
<1> USE NullAssumption
    DEF OneCreate, IInv, TypeOK, StopInv, Pointer, Loaded, Closing, Waited,
        Unvisited, Open, InCallback, UserOf,
        taskVars, userVars, timerVars, threadVars, handlerVars, workerVars
<1>1. ASSUME NEW n \in 0..MaxAdd, NEW err \in BOOLEAN, create_new_task(n, err)
      PROVE  StopInv'
  BY <1>1 DEF create_new_task, Phases
<1>2. ASSUME NEW n \in 0..MaxAdd, task_add_user_by_taskid(n)
      PROVE  StopInv'
  BY <1>2 DEF task_add_user_by_taskid
<1>3. CASE stop_task_by_id
  BY <1>3 DEF stop_task_by_id
<1>4. ASSUME NEW u \in Users, ReviveUser(u)
      PROVE  StopInv'
  BY <1>4 DEF ReviveUser
<1>5. ASSUME NEW u \in Users, CreateUser(u)
      PROVE  StopInv'
  BY <1>5 DEF CreateUser
<1>6. CASE CreateFails
  BY <1>6 DEF CreateFails
<1>7. CASE TimerCreateFails
  BY <1>7 DEF TimerCreateFails
<1>8. CASE AddUserDone
  BY <1>8 DEF AddUserDone
<1> QED  BY <1>1, <1>2, <1>3, <1>4, <1>5, <1>6, <1>7, <1>8

\* A callback neither opens nor releases a timer.
LEMMA StopReactorSteps ==
    ASSUME OneCreate, IInv, StopInv, TypeOK'
    PROVE  /\ \A th \in Threads, t \in Timers : FireTimer(th, t) => StopInv'
           /\ \A th \in Threads : userWorkFunc(th) => StopInv'
           /\ \A th \in Threads : push_userDes_back(th) => StopInv'
           /\ \A u \in Users : do_close(u) => StopInv'
<1> USE NullAssumption
    DEF OneCreate, IInv, TypeOK, StopInv, Pointer, Loaded, Closing, Waited,
        Unvisited, Open, InCallback, UserOf,
        taskVars, userVars, timerVars, threadVars, handlerVars, workerVars
<1>1. ASSUME NEW th \in Threads, NEW t \in Timers, FireTimer(th, t)
      PROVE  StopInv'
  BY <1>1 DEF FireTimer, Due, Held
<1>2. ASSUME NEW th \in Threads, userWorkFunc(th)
      PROVE  StopInv'
  BY <1>2 DEF userWorkFunc, Loop
<1>3. ASSUME NEW th \in Threads, push_userDes_back(th)
      PROVE  StopInv'
  BY <1>3 DEF push_userDes_back
<1>4. ASSUME NEW u \in Users, do_close(u)
      PROVE  StopInv'
  BY <1>4 DEF do_close
<1> QED  BY <1>1, <1>2, <1>3, <1>4

\* These steps of the worker thread follow the closing loop.
LEMMA StopWorkerSteps ==
    ASSUME OneCreate, IInv, StopInv, TypeOK'
    PROVE  /\ \A w \in Workers, u \in Users : EventDestroy(w, u) => StopInv'
           /\ \A w \in Workers : FreeMessages(w) => StopInv'
           /\ \A w \in Workers : StartWait(w) => StopInv'
           /\ \A w \in Workers : FreeTask(w) => StopInv'
<1> USE NullAssumption
    DEF OneCreate, IInv, TypeOK, StopInv, Pointer, Loaded, Closing, Waited,
        Unvisited, Open, InCallback, UserOf,
        taskVars, userVars, timerVars, threadVars, handlerVars, workerVars
<1>1. ASSUME NEW w \in Workers, NEW u \in Users, EventDestroy(w, u)
      PROVE  StopInv'
  BY <1>1 DEF EventDestroy
<1>2. ASSUME NEW w \in Workers, FreeMessages(w)
      PROVE  StopInv'
  BY <1>2 DEF FreeMessages
<1>3. ASSUME NEW w \in Workers, StartWait(w)
      PROVE  StopInv'
  BY <1>3 DEF StartWait
<1>4. ASSUME NEW w \in Workers, FreeTask(w)
      PROVE  StopInv'
  BY <1>4 DEF FreeTask
<1> QED  BY <1>1, <1>2, <1>3, <1>4

-----------------------------------------------------------------------------
(* The steps that disturb a part of StopInv.                                 *)

\* A timer is created only while the task runs.
LEMMA TimerCreate_Stop ==
    ASSUME OneCreate, IInv, StopInv, TypeOK', NEW t \in Timers, TimerCreate(t)
    PROVE  StopInv'
<1> USE NullAssumption
    DEF OneCreate, IInv, TypeOK, StopInv, Unvisited, Open, TimerCreate,
        taskVars, userVars, timerVars, threadVars, handlerVars, workerVars
<1>1. Pointer' /\ Loaded'
  BY DEF Pointer, Loaded
\* the task runs: no worker thread has started to close
<1>2. Closing'
  BY DEF Closing, Phases
<1>3. Waited'
  BY DEF Waited, Phases
<1> QED  BY <1>1, <1>2, <1>3

\* The stored timer is allocated.
LEMMA StoreTimer_Stop ==
    ASSUME OneCreate, IInv, StopInv, TypeOK', StoreTimer
    PROVE  StopInv'
<1> USE NullAssumption
    DEF OneCreate, IInv, TypeOK, StopInv, Unvisited, Open, StoreTimer,
        taskVars, userVars, timerVars, threadVars, handlerVars, workerVars
<1>1. Loaded' /\ Closing' /\ Waited'
  BY DEF Loaded, Closing, Waited
\* the timer is allocated and open
<1>2. Pointer'
  BY DEF Pointer, Added, InCallback, UserOf
<1> QED  BY <1>1, <1>2

\* A timer that can be released is one nobody will read.
LEMMA ReleaseTimer_Stop ==
    ASSUME OneCreate, IInv, StopInv, TypeOK', NEW th \in Threads, NEW t \in Timers, ReleaseTimer(th, t)
    PROVE  StopInv'
<1> USE NullAssumption
    DEF OneCreate, IInv, TypeOK, StopInv, Unvisited, Open, ReleaseTimer, Due, Held,
        taskVars, userVars, timerVars, threadVars, handlerVars, workerVars
<1>1. Loaded' /\ Closing' /\ Waited'
  BY DEF Loaded, Closing, Waited
\* a closed timer that a user still points at is firing, not due
<1>2. Pointer'
  BY DEF Pointer, ThreadTimer
<1> QED  BY <1>1, <1>2

\* A callback that ends its user closes its own timer.
LEMMA WorkTimerDelete_Stop ==
    ASSUME OneCreate, IInv, StopInv, TypeOK', NEW th \in Threads, WorkTimerDelete(th)
    PROVE  StopInv'
<1> USE NullAssumption
    DEF OneCreate, IInv, TypeOK, StopInv, Unvisited, Open, WorkTimerDelete, UserOf,
        taskVars, userVars, timerVars, threadVars, handlerVars, workerVars
<1>1. Closing' /\ Waited'
  BY DEF Closing, Waited
\* the timer it closes is its own, and it resets the pointer next
<1>2. Pointer'
  BY DEF Pointer, ThreadUser, InCallback, UserOf
\* the timer it closes is firing, so it is not new
<1>3. Loaded'
  BY DEF Loaded, ThreadTimer, ThreadUser, InCallback, UserOf
<1> QED  BY <1>1, <1>2, <1>3

\* ... and resets its own pointer.
LEMMA WorkTimerNull_Stop ==
    ASSUME OneCreate, IInv, StopInv, TypeOK', NEW th \in Threads, WorkTimerNull(th)
    PROVE  StopInv'
<1> USE NullAssumption
    DEF OneCreate, IInv, TypeOK, StopInv, Unvisited, Open, WorkTimerNull, UserOf,
        taskVars, userVars, timerVars, threadVars, handlerVars, workerVars
<1>1. Loaded' /\ Closing' /\ Waited'
  BY DEF Loaded, Closing, Waited
\* only its own user points at its timer
<1>2. Pointer'
  BY DEF Pointer, TimerPointer
<1> QED  BY <1>1, <1>2

\* A timer is armed again only if it was firing.
LEMMA Rearm_Stop ==
    ASSUME OneCreate, IInv, StopInv, TypeOK', NEW th \in Threads, Rearm(th)
    PROVE  StopInv'
<1> USE NullAssumption
    DEF OneCreate, IInv, TypeOK, StopInv, Unvisited, Open, Rearm,
        taskVars, userVars, timerVars, threadVars, handlerVars, workerVars
<1>1. Pointer' /\ Loaded'
  BY DEF Pointer, Loaded
\* the timer it arms again was firing, so it existed
<1>2. Closing'
  BY DEF Closing, ThreadTimer
<1>3. Waited'
  BY DEF Waited, ThreadTimer
<1> QED  BY <1>1, <1>2, <1>3

\* The closing loop starts with every user unvisited.
LEMMA WorkerSeesStop_Stop ==
    ASSUME OneCreate, IInv, StopInv, TypeOK', NEW w \in Workers, WorkerSeesStop(w)
    PROVE  StopInv'
<1> USE NullAssumption
    DEF OneCreate, IInv, TypeOK, StopInv, Unvisited, Open, WorkerSeesStop,
        taskVars, userVars, timerVars, threadVars, handlerVars, workerVars
<1>1. Pointer' /\ Loaded' /\ Waited'
  BY DEF Pointer, Loaded, Waited
\* every timer belongs to a user of userAll
<1>2. Closing'
  BY DEF Closing, OpenTimerKnown
<1> QED  BY <1>1, <1>2

\* The worker thread reads the timer of a user.
LEMMA WorkerLoadTimer_Stop ==
    ASSUME OneCreate, IInv, StopInv, TypeOK', NEW w \in Workers, NEW u \in Users, WorkerLoadTimer(w, u)
    PROVE  StopInv'
<1> USE NullAssumption
    DEF OneCreate, IInv, TypeOK, StopInv, Unvisited, Open, WorkerLoadTimer,
        taskVars, userVars, timerVars, threadVars, handlerVars, workerVars
<1>1. Pointer' /\ Waited'
  BY DEF Pointer, Waited
\* the user was not visited, so its timer is allocated
<1>2. Loaded'
  BY DEF Loaded, Pointer, ThreadTimer, TimerPointer
\* an open timer of the user is the one just read: nobody adds users now
<1>3. Closing'
  BY DEF Closing, OpenTimerKnown, Phases
<1> QED  BY <1>1, <1>2, <1>3

\* The worker thread closes the timer it has read.
LEMMA WorkerTimerDelete_Stop ==
    ASSUME OneCreate, IInv, StopInv, TypeOK', NEW w \in Workers, WorkerTimerDelete(w)
    PROVE  StopInv'
<1> USE NullAssumption
    DEF OneCreate, IInv, TypeOK, StopInv, Unvisited, Open, WorkerTimerDelete,
        taskVars, userVars, timerVars, threadVars, handlerVars, workerVars
<1>1. Loaded' /\ Closing' /\ Waited'
  BY DEF Loaded, Closing, Waited
\* the timer it closes belongs to a user it has visited
<1>2. Pointer'
  BY DEF Pointer, Loaded, TimerPointer
<1> QED  BY <1>1, <1>2

\* The wait of destroy_task is over.
LEMMA WaitOver_Stop ==
    ASSUME OneCreate, IInv, StopInv, TypeOK', NEW w \in Workers, WaitOver(w)
    PROVE  StopInv'
<1> USE NullAssumption
    DEF OneCreate, IInv, TypeOK, StopInv, Unvisited, Open, WaitOver, Quiet,
        taskVars, userVars, timerVars, threadVars, handlerVars, workerVars
<1>1. Pointer' /\ Loaded' /\ Closing'
  BY DEF Pointer, Loaded, Closing
\* no timer is open, and the wait outlasts the closed ones
<1>2. Waited'
  BY DEF Waited, Closing
<1> QED  BY <1>1, <1>2

-----------------------------------------------------------------------------
(* The invariant and what follows from it.                                   *)

LEMMA StopInvInit == Init => StopInv
  BY DEF Init, StopInv, Pointer, Loaded, Closing, Waited, Open

LEMMA StopInvNext == OneCreate /\ IInv /\ TypeOK' /\ StopInv /\ [Next]_vars => StopInv'
<1> SUFFICES ASSUME OneCreate, IInv, TypeOK', StopInv, [Next]_vars  PROVE StopInv'
  OBVIOUS
<1>1. CASE Command
  BY <1>1, StopHandlerSteps DEF Command
<1>2. CASE HandlerStep
  BY <1>2, StopHandlerSteps, TimerCreate_Stop, StoreTimer_Stop DEF HandlerStep
<1>3. CASE \E t \in Timers : TimerEvent(t)
  BY <1>3, StopReactorSteps, ReleaseTimer_Stop DEF TimerEvent
<1>4. CASE \E th \in Threads : ThreadStep(th)
  BY <1>4, StopReactorSteps, WorkTimerDelete_Stop, WorkTimerNull_Stop, Rearm_Stop
  DEF ThreadStep
<1>5. CASE \E u \in Users : do_close(u)
  BY <1>5, StopReactorSteps
<1>6. CASE \E w \in Workers : WorkerStep(w)
  BY <1>6, StopWorkerSteps, WorkerSeesStop_Stop, WorkerLoadTimer_Stop,
     WorkerTimerDelete_Stop, WaitOver_Stop
  DEF WorkerStep
<1>7. CASE UNCHANGED vars
  BY <1>7 DEF StopInv, Pointer, Loaded, Closing, Waited, Unvisited, Open,
     vars, taskVars, userVars, timerVars, threadVars, handlerVars, workerVars
<1> QED  BY <1>1, <1>2, <1>3, <1>4, <1>5, <1>6, <1>7 DEF Next

LEMMA StopInvHolds ==
    ASSUME OneCreate
    PROVE  Spec => [](IInv /\ StopInv)
<1>1. IInv /\ StopInv /\ [Next]_vars => (IInv /\ StopInv)'
  BY OneCreate, IInvNext, StopInvNext DEF IInv
<1> QED  BY <1>1, IInvInit, StopInvInit, PTL DEF Spec

\* The worker thread never writes into a timer that was released, although it
\* reads the pointer and writes through it without a lock.
THEOREM WorkerTimerAllocatedHolds ==
    ASSUME OneCreate
    PROVE  Spec => []WorkerTimerAllocated
<1>1. StopInv => WorkerTimerAllocated
  BY DEF StopInv, Loaded, WorkerTimerAllocated
<1> QED  BY <1>1, StopInvHolds, PTL

\* No timer refers to a user, and no reactor thread is in a callback, when
\* destroy_task frees the users and the task.
THEOREM NoTimerAfterFreeHolds ==
    ASSUME OneCreate
    PROVE  Spec => []NoTimerAfterFree
<1>1. IInv /\ StopInv => NoTimerAfterFree
  BY DEF IInv, TypeOK, StopInv, Waited, ThreadTimer, NoTimerAfterFree
<1> QED  BY <1>1, StopInvHolds, PTL

\* The worker thread of a stopped task uses no timer that was released, and frees
\* nothing that a timer or a reactor thread still refers to.
THEOREM NothingFreedIsUsedHolds ==
    ASSUME OneCreate
    PROVE  Spec => []NothingFreedIsUsed
BY WorkerTimerAllocatedHolds, NoTimerAfterFreeHolds, PTL DEF NothingFreedIsUsed

\* No callback starts after destroy_task has freed the messages.
THEOREM NoNewCallbackHolds ==
    ASSUME OneCreate
    PROVE  Spec => NoNewCallback
<1> DEFINE Idle == \A th \in Threads : pc[th] = "wait" => pc'[th] = "wait"
<1>1. ASSUME IInv, StopInv, [Next]_vars
      PROVE  [MessagesFreed => Idle]_vars
  <2> SUFFICES ASSUME Next, MessagesFreed, NEW th \in Threads, pc[th] = "wait"
               PROVE  pc'[th] = "wait"
    BY <1>1
  <2>1. \A t \in Timers : ~Open(t)
    BY <1>1 DEF MessagesFreed, StopInv, Closing
  <2>2. CASE Command
    BY <2>2 DEF Command, create_new_task, task_add_user_by_taskid, stop_task_by_id, threadVars
  <2>3. CASE HandlerStep
    BY <2>3 DEF HandlerStep, ReviveUser, CreateUser, CreateFails, TimerCreate,
       TimerCreateFails, StoreTimer, AddUserDone, threadVars
  <2>4. CASE \E t \in Timers : TimerEvent(t)
    BY <2>1, <2>4 DEF TimerEvent, ReleaseTimer, FireTimer, Due, Open, threadVars
  <2>5. CASE \E r \in Threads : ThreadStep(r)
    BY <1>1, <2>5 DEF IInv, TypeOK, ThreadStep, userWorkFunc, WorkTimerDelete, WorkTimerNull,
       push_userDes_back, Rearm
  <2>6. CASE \E u \in Users : do_close(u)
    BY <2>6 DEF do_close, threadVars
  <2>7. CASE \E w \in Workers : WorkerStep(w)
    BY <2>7 DEF WorkerStep, WorkerSeesStop, WorkerLoadTimer, EventDestroy, WorkerTimerDelete,
       FreeMessages, StartWait, WaitOver, FreeTask, threadVars
  <2> QED  BY <2>2, <2>3, <2>4, <2>5, <2>6, <2>7 DEF Next
<1> QED  BY <1>1, StopInvHolds, PTL DEF Spec, NoNewCallback
=============================================================================
