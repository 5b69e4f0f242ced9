----------------------------- MODULE AgentTask -----------------------------
(***************************************************************************)
(* One task of the agent: TaskManager.cpp with the timers of               *)
(* EpollReactor.cpp that drive its users.                                  *)
(*                                                                         *)
(* Three kinds of threads meet on a task and share no common lock:         *)
(*   - the handler of the server's commands (create_new_task, stop_task_   *)
(*     by_id, task_add_user_by_taskid).  Commands of one link are handled  *)
(*     one at a time, under the lock of the link's protocol object;        *)
(*   - the reactor threads, which take an expired timer of a user and run  *)
(*     userWorkFunc under that user's lock;                                *)
(*   - taskWorkerThread, which polls the status and, once the task is      *)
(*     stopped, closes the timers and destroys the task.                   *)
(*                                                                         *)
(* The order of the records in userDes is left out (it is a bag: how often *)
(* each user is in the list), and so are the messages: what Loop does with *)
(* one is the choice of Loop among the ways it may leave the user.         *)
(*                                                                         *)
(* Timing.  A thread that stands between two adjacent instructions does    *)
(* not stand there for a whole timer period (timer_loop, 500 ms), and the  *)
(* wait of destroy_task (10 s) covers the last expiry of a closed timer.   *)
(* See Held and Quiet; nothing else is assumed about time.                 *)
(***************************************************************************)
EXTENDS Integers, FiniteSets

CONSTANTS Users,    \* user objects (with their UserEvent) the memory allows
          Timers,   \* timer HSOCKETs the descriptor limit allows
          Threads,  \* reactor threads (sub_work_thread)
          Workers,  \* taskWorkerThreads: one per create of the id
          MaxAdd,   \* the most users one command adds
          NULL

ASSUME NullAssumption == NULL \notin Users \cup Timers
ASSUME MaxAddAssumption == MaxAdd \in Nat

VARIABLES
    status,     \* of the task: "none" before create, "gone" after destroy_task
    ignoreErr,  \* t_task_config.ignoreErr
    userAll,    \* users created for the task
    userDes,    \* how often a user is in the list of ended users
    SelfDead,   \* per user
    sock,       \* per user: sockCount > 0
    hueTimer,   \* per user: HUserEvent.timer
    tstate,     \* per timer: "free", "new", "armed" or "firing"
    towner,     \* per timer: HSOCKET._user
    isClose,    \* per timer: HSOCKET._is_close
    pc,         \* per reactor thread: where it stands in do_timer_callback
    onTimer,    \* per reactor thread: the timer it handles
    hpc,        \* where the command handler stands in task_add_user
    hNew,       \* it runs create_new_task, which starts a worker thread
    hLeft,      \* users it still has to add
    hUser,      \* the user it adds
    hTimer,     \* the timer TimerCreate returned to it
    wpc,        \* per taskWorkerThread: where it stands
    wTodo,      \* per taskWorkerThread: users its loop has not visited
    wTimer      \* per taskWorkerThread: the timer pointer it has loaded

taskVars   == <<status, ignoreErr, userAll, userDes>>
userVars   == <<SelfDead, sock>>
timerVars  == <<tstate, towner, isClose>>
threadVars == <<pc, onTimer>>
handlerVars == <<hpc, hNew, hLeft, hUser, hTimer>>
workerVars == <<wpc, wTodo, wTimer>>
vars == <<taskVars, userVars, hueTimer, timerVars, threadVars, handlerVars, workerVars>>

Statuses     == {"none", "running", "cleaning", "gone"}
TimerStates  == {"free", "new", "armed", "firing"}
ThreadSteps  == {"wait", "work", "delete", "null", "push", "rearm"}
HandlerSteps == {"idle", "take", "timer", "store"}
WorkerSteps  == {"none", "poll", "close", "store", "destroy", "sleep", "free", "done"}

\* Timers a thread is about to write to, or to publish, in its next instruction.
\* By then no second period of that timer has passed.
Held == {wTimer[w] : w \in {v \in Workers : wpc[v] = "store"}} \cup
        (IF hpc = "store" THEN {hTimer} ELSE {})

\* 10 s after the timers were closed: every closed timer has expired once more
\* and its callback, if one was running, has returned.
Quiet == \A t \in Timers : isClose[t] => tstate[t] = "free"

-----------------------------------------------------------------------------
\* The command handler

\* create_new_task: the task of that id, a new one or the one that runs
\* (getTask_by_taskId), takes the parameters; n users are added, and then a
\* taskWorkerThread is started.  Bound: Workers creates.
create_new_task(n, err) ==
    /\ status \in {"none", "running"}
    /\ hpc = "idle"
    /\ \E w \in Workers : wpc[w] = "none"
    /\ status' = "running"
    /\ ignoreErr' = err
    /\ hpc' = "take"
    /\ hNew' = TRUE
    /\ hLeft' = n
    /\ UNCHANGED <<userAll, userDes, userVars, hueTimer, timerVars, threadVars,
                   hUser, hTimer, workerVars>>

\* task_add_user_by_taskid: an unknown id is ignored, and so is a count <= 0.
task_add_user_by_taskid(n) ==
    /\ status = "running"
    /\ hpc = "idle"
    /\ n > 0
    /\ hpc' = "take"
    /\ hNew' = FALSE
    /\ hLeft' = n
    /\ UNCHANGED <<taskVars, userVars, hueTimer, timerVars, threadVars,
                   hUser, hTimer, workerVars>>

\* task_add_user, first half of an iteration: an ended user is taken from the
\* list and revived with ReInit(user, true) ...
ReviveUser(u) ==
    /\ hpc = "take"
    /\ hLeft > 0
    /\ userDes[u] > 0
    /\ userDes' = [userDes EXCEPT ![u] = @ - 1]
    /\ SelfDead' = [SelfDead EXCEPT ![u] = FALSE]
    /\ sock' = [sock EXCEPT ![u] = FALSE]
    /\ hpc' = "timer"
    /\ hUser' = u
    /\ UNCHANGED <<status, ignoreErr, userAll, hueTimer, timerVars, threadVars, hNew,
                   hLeft, hTimer, workerVars>>

\* ... and when there is none a user is created and enters userAll.
CreateUser(u) ==
    /\ hpc = "take"
    /\ hLeft > 0
    /\ \A v \in Users : userDes[v] = 0
    /\ u \notin userAll
    /\ userAll' = userAll \cup {u}
    /\ hpc' = "timer"
    /\ hUser' = u
    /\ UNCHANGED <<status, ignoreErr, userDes, userVars, hueTimer, timerVars, threadVars, hNew,
                   hLeft, hTimer, workerVars>>

\* Out of memory for another user: the iteration does nothing.
CreateFails ==
    /\ hpc = "take"
    /\ hLeft > 0
    /\ \A v \in Users : userDes[v] = 0
    /\ userAll = Users
    /\ hLeft' = hLeft - 1
    /\ UNCHANGED <<taskVars, userVars, hueTimer, timerVars, threadVars, hNew,
                   hpc, hUser, hTimer, workerVars>>

\* TimerCreate: the timer is in the epoll set, and may expire, before the
\* handler has stored it in ue->timer.
TimerCreate(t) ==
    /\ hpc = "timer"
    /\ tstate[t] = "free"
    /\ tstate' = [tstate EXCEPT ![t] = "new"]
    /\ towner' = [towner EXCEPT ![t] = hUser]
    /\ isClose' = [isClose EXCEPT ![t] = FALSE]
    /\ hpc' = "store"
    /\ hTimer' = t
    /\ UNCHANGED <<taskVars, userVars, hueTimer, threadVars, hNew, hLeft, hUser, workerVars>>

StoreTimer ==
    /\ hpc = "store"
    /\ hueTimer' = [hueTimer EXCEPT ![hUser] = hTimer]
    /\ hpc' = "take"
    /\ hLeft' = hLeft - 1
    /\ hUser' = NULL
    /\ hTimer' = NULL
    /\ UNCHANGED <<taskVars, userVars, timerVars, threadVars, hNew, workerVars>>

\* TimerCreate found no descriptor: ue->timer = NULL and nothing drives the user.
TimerCreateFails ==
    /\ hpc = "timer"
    /\ \A t \in Timers : tstate[t] # "free"
    /\ hueTimer' = [hueTimer EXCEPT ![hUser] = NULL]
    /\ hpc' = "take"
    /\ hLeft' = hLeft - 1
    /\ hUser' = NULL
    /\ UNCHANGED <<taskVars, userVars, timerVars, threadVars, hNew, hTimer, workerVars>>

\* The loop of task_add_user is over; create_new_task then runs run_task_thread.
AddUserDone ==
    /\ hpc = "take"
    /\ hLeft = 0
    /\ hpc' = "idle"
    /\ IF hNew
       THEN \E w \in Workers : wpc[w] = "none" /\ wpc' = [wpc EXCEPT ![w] = "poll"]
       ELSE UNCHANGED wpc
    /\ UNCHANGED <<taskVars, userVars, hueTimer, timerVars, threadVars,
                   hNew, hLeft, hUser, hTimer, wTodo, wTimer>>

stop_task_by_id ==
    /\ status = "running"
    /\ hpc = "idle"
    /\ status' = "cleaning"
    /\ UNCHANGED <<ignoreErr, userAll, userDes, userVars, hueTimer, timerVars, threadVars,
                   handlerVars, workerVars>>

-----------------------------------------------------------------------------
\* The reactor threads

Due(t) == tstate[t] = "new" \/ (tstate[t] = "armed" /\ t \notin Held)

\* do_timer_callback, a timer that was deleted: epoll_del, close, release_hsock.
ReleaseTimer(th, t) ==
    /\ pc[th] = "wait"
    /\ Due(t)
    /\ isClose[t]
    /\ tstate' = [tstate EXCEPT ![t] = "free"]
    /\ towner' = [towner EXCEPT ![t] = NULL]
    /\ isClose' = [isClose EXCEPT ![t] = FALSE]
    /\ UNCHANGED <<taskVars, userVars, hueTimer, threadVars, handlerVars, workerVars>>

\* do_timer_callback, a live timer: EPOLLONESHOT disarms it and _callback runs.
FireTimer(th, t) ==
    /\ pc[th] = "wait"
    /\ Due(t)
    /\ ~isClose[t]
    /\ tstate' = [tstate EXCEPT ![t] = "firing"]
    /\ pc' = [pc EXCEPT ![th] = "work"]
    /\ onTimer' = [onTimer EXCEPT ![th] = t]
    /\ UNCHANGED <<taskVars, userVars, hueTimer, towner, isClose, handlerVars, workerVars>>

UserOf(th) == towner[onTimer[th]]

\* Loop on a live user: no message or a send leaves it as it is, a connect
\* opens a socket, a failed connect or a final reset ends the user, a close or
\* a looping reset closes sockets.
Loop(u) ==
    \/ UNCHANGED userVars
    \/ /\ sock' = [sock EXCEPT ![u] = TRUE]
       /\ UNCHANGED SelfDead
    \/ /\ SelfDead' = [SelfDead EXCEPT ![u] = TRUE]
       /\ UNCHANGED sock
    \/ /\ sock' = [sock EXCEPT ![u] = FALSE]
       /\ UNCHANGED SelfDead

\* userWorkFunc, its locked part.
userWorkFunc(th) ==
    LET u == UserOf(th) IN
    /\ pc[th] = "work"
    /\ \/ /\ ~SelfDead[u]
          /\ Loop(u)
          /\ pc' = [pc EXCEPT ![th] = "rearm"]
       \/ /\ SelfDead[u]
          /\ ignoreErr
          /\ SelfDead' = [SelfDead EXCEPT ![u] = FALSE]
          /\ sock' = [sock EXCEPT ![u] = FALSE]
          /\ pc' = [pc EXCEPT ![th] = "rearm"]
       \/ /\ SelfDead[u]
          /\ ~ignoreErr
          /\ sock' = [sock EXCEPT ![u] = FALSE]
          /\ pc' = [pc EXCEPT ![th] = "delete"]
          /\ UNCHANGED SelfDead
    /\ UNCHANGED <<taskVars, hueTimer, timerVars, onTimer, handlerVars, workerVars>>

\* Mutant: the ended user is pushed before its timer pointer is reset.
WorkTimerDelete_PushFirst(th) ==
    /\ pc[th] = "delete"
    /\ isClose' = [isClose EXCEPT ![hueTimer[UserOf(th)]] = TRUE]
    /\ userDes' = [userDes EXCEPT ![UserOf(th)] = 1]
    /\ pc' = [pc EXCEPT ![th] = "null"]
    /\ UNCHANGED <<status, ignoreErr, userAll, userVars, hueTimer, tstate, towner, onTimer,
                   handlerVars, workerVars>>

\* Mutant: the timer of an ended user is not deleted.
WorkTimerDelete_Forgotten(th) ==
    /\ pc[th] = "delete"
    /\ pc' = [pc EXCEPT ![th] = "null"]
    /\ UNCHANGED <<taskVars, userVars, hueTimer, timerVars, onTimer, handlerVars, workerVars>>

\* userWorkFunc after the unlock: TimerDelete(hue->timer) ...
WorkTimerDelete(th) ==
    /\ pc[th] = "delete"
    /\ isClose' = [isClose EXCEPT ![hueTimer[UserOf(th)]] = TRUE]
    /\ pc' = [pc EXCEPT ![th] = "null"]
    /\ UNCHANGED <<taskVars, userVars, hueTimer, tstate, towner, onTimer, handlerVars, workerVars>>

\* ... hue->timer = NULL ...
WorkTimerNull(th) ==
    /\ pc[th] = "null"
    /\ hueTimer' = [hueTimer EXCEPT ![UserOf(th)] = NULL]
    /\ pc' = [pc EXCEPT ![th] = "push"]
    /\ UNCHANGED <<taskVars, userVars, timerVars, onTimer, handlerVars, workerVars>>

\* Mutant: the ended user is not put in userDes.
push_userDes_back_Forgotten(th) ==
    /\ pc[th] = "push"
    /\ pc' = [pc EXCEPT ![th] = "rearm"]
    /\ UNCHANGED <<taskVars, userVars, hueTimer, timerVars, onTimer, handlerVars, workerVars>>

\* ... push_userDes_back(task, hue).
push_userDes_back(th) ==
    /\ pc[th] = "push"
    /\ userDes' = [userDes EXCEPT ![UserOf(th)] = @ + 1]
    /\ pc' = [pc EXCEPT ![th] = "rearm"]
    /\ UNCHANGED <<status, ignoreErr, userAll, userVars, hueTimer, timerVars, onTimer,
                   handlerVars, workerVars>>

\* Mutant: the one-shot timer is not armed again after its callback.
Rearm_Forgotten(th) ==
    /\ pc[th] = "rearm"
    /\ pc' = [pc EXCEPT ![th] = "wait"]
    /\ onTimer' = [onTimer EXCEPT ![th] = NULL]
    /\ UNCHANGED <<taskVars, userVars, hueTimer, timerVars, handlerVars, workerVars>>

\* epoll_mod_read at the end of do_timer_callback.
Rearm(th) ==
    /\ pc[th] = "rearm"
    /\ tstate' = [tstate EXCEPT ![onTimer[th]] = "armed"]
    /\ pc' = [pc EXCEPT ![th] = "wait"]
    /\ onTimer' = [onTimer EXCEPT ![th] = NULL]
    /\ UNCHANGED <<taskVars, userVars, hueTimer, towner, isClose, handlerVars, workerVars>>

\* do_close on a socket of the user, under the user's lock: ConnectionClosed, or
\* ConnectionFailed, which ends the user.  Other sockets of the user may remain.
do_close(u) ==
    /\ sock[u]
    /\ \E more, failed \in BOOLEAN :
          /\ sock' = [sock EXCEPT ![u] = more]
          /\ SelfDead' = [SelfDead EXCEPT ![u] = @ \/ failed]
    /\ UNCHANGED <<taskVars, hueTimer, timerVars, threadVars, handlerVars, workerVars>>

-----------------------------------------------------------------------------
\* taskWorkerThread and destroy_task

WorkerSeesStop(w) ==
    /\ wpc[w] = "poll"
    /\ status \notin {"none", "running"}
    /\ wpc' = [wpc EXCEPT ![w] = "close"]
    /\ wTodo' = [wTodo EXCEPT ![w] = userAll]
    /\ UNCHANGED <<taskVars, userVars, hueTimer, timerVars, threadVars, handlerVars, wTimer>>

\* Mutant: the closing loop passes over users that have ended.
WorkerLoadTimer_LiveOnly(w, u) ==
    /\ wpc[w] = "close"
    /\ u \in wTodo[w]
    /\ wTodo' = [wTodo EXCEPT ![w] = @ \ {u}]
    /\ IF hueTimer[u] = NULL \/ SelfDead[u]
       THEN UNCHANGED <<wpc, wTimer>>
       ELSE /\ wpc' = [wpc EXCEPT ![w] = "store"]
            /\ wTimer' = [wTimer EXCEPT ![w] = hueTimer[u]]
    /\ UNCHANGED <<taskVars, userVars, hueTimer, timerVars, threadVars, handlerVars>>

\* if ((*iter)->timer) ...: the compiled loop reads the pointer once.
WorkerLoadTimer(w, u) ==
    /\ wpc[w] = "close"
    /\ u \in wTodo[w]
    /\ wTodo' = [wTodo EXCEPT ![w] = @ \ {u}]
    /\ IF hueTimer[u] = NULL
       THEN UNCHANGED <<wpc, wTimer>>
       ELSE /\ wpc' = [wpc EXCEPT ![w] = "store"]
            /\ wTimer' = [wTimer EXCEPT ![w] = hueTimer[u]]
    /\ UNCHANGED <<taskVars, userVars, hueTimer, timerVars, threadVars, handlerVars>>

\* ... TimerDelete((*iter)->timer).
WorkerTimerDelete(w) ==
    /\ wpc[w] = "store"
    /\ isClose' = [isClose EXCEPT ![wTimer[w]] = TRUE]
    /\ wpc' = [wpc EXCEPT ![w] = "close"]
    /\ wTimer' = [wTimer EXCEPT ![w] = NULL]
    /\ UNCHANGED <<taskVars, userVars, hueTimer, tstate, towner, threadVars, handlerVars, wTodo>>

\* destroy_task: messageList is deleted first.
FreeMessages(w) ==
    /\ wpc[w] = "close"
    /\ wTodo[w] = {}
    /\ wpc' = [wpc EXCEPT ![w] = "destroy"]
    /\ wTodo' = [wTodo EXCEPT ![w] = userAll]
    /\ UNCHANGED <<taskVars, userVars, hueTimer, timerVars, threadVars, handlerVars, wTimer>>

\* EventDestroy of one user, under its lock.
EventDestroy(w, u) ==
    /\ wpc[w] = "destroy"
    /\ u \in wTodo[w]
    /\ wTodo' = [wTodo EXCEPT ![w] = @ \ {u}]
    /\ sock' = [sock EXCEPT ![u] = FALSE]
    /\ UNCHANGED <<taskVars, SelfDead, hueTimer, timerVars, threadVars, handlerVars, wpc, wTimer>>

StartWait(w) ==
    /\ wpc[w] = "destroy"
    /\ wTodo[w] = {}
    /\ wpc' = [wpc EXCEPT ![w] = "sleep"]
    /\ UNCHANGED <<taskVars, userVars, hueTimer, timerVars, threadVars, handlerVars, wTodo, wTimer>>

\* Mutant: destroy_task does not wait.
WaitOver_NoWait(w) ==
    /\ wpc[w] = "sleep"
    /\ wpc' = [wpc EXCEPT ![w] = "free"]
    /\ UNCHANGED <<taskVars, userVars, hueTimer, timerVars, threadVars, handlerVars, wTodo, wTimer>>

WaitOver(w) ==
    /\ wpc[w] = "sleep"
    /\ Quiet
    /\ wpc' = [wpc EXCEPT ![w] = "free"]
    /\ UNCHANGED <<taskVars, userVars, hueTimer, timerVars, threadVars, handlerVars, wTodo, wTimer>>

\* The users without sockets are destroyed (the others leak), their UserEvents,
\* the lists and the task itself are freed.
FreeTask(w) ==
    /\ wpc[w] = "free"
    /\ wpc' = [wpc EXCEPT ![w] = "done"]
    /\ status' = "gone"
    /\ UNCHANGED <<ignoreErr, userAll, userDes, userVars, hueTimer, timerVars, threadVars,
                   handlerVars, wTodo, wTimer>>

-----------------------------------------------------------------------------
Init ==
    /\ status = "none"
    /\ ignoreErr = FALSE
    /\ userAll = {}
    /\ userDes = [u \in Users |-> 0]
    /\ SelfDead = [u \in Users |-> FALSE]
    /\ sock = [u \in Users |-> FALSE]
    /\ hueTimer = [u \in Users |-> NULL]
    /\ tstate = [t \in Timers |-> "free"]
    /\ towner = [t \in Timers |-> NULL]
    /\ isClose = [t \in Timers |-> FALSE]
    /\ pc = [th \in Threads |-> "wait"]
    /\ onTimer = [th \in Threads |-> NULL]
    /\ hpc = "idle"
    /\ hNew = FALSE
    /\ hLeft = 0
    /\ hUser = NULL
    /\ hTimer = NULL
    /\ wpc = [w \in Workers |-> "none"]
    /\ wTodo = [w \in Workers |-> {}]
    /\ wTimer = [w \in Workers |-> NULL]

HandlerStep ==
    \/ \E u \in Users : ReviveUser(u) \/ CreateUser(u)
    \/ \E t \in Timers : TimerCreate(t)
    \/ CreateFails \/ TimerCreateFails \/ StoreTimer \/ AddUserDone

Command ==
    \/ \E n \in 0..MaxAdd, err \in BOOLEAN : create_new_task(n, err)
    \/ \E n \in 0..MaxAdd : task_add_user_by_taskid(n)
    \/ stop_task_by_id

TimerEvent(t) == \E th \in Threads : ReleaseTimer(th, t) \/ FireTimer(th, t)

ThreadStep(th) ==
    \/ userWorkFunc(th)
    \/ WorkTimerDelete(th)
    \/ WorkTimerNull(th)
    \/ push_userDes_back(th)
    \/ Rearm(th)

WorkerStep(w) ==
    \/ WorkerSeesStop(w)
    \/ \E u \in Users : WorkerLoadTimer(w, u) \/ EventDestroy(w, u)
    \/ WorkerTimerDelete(w)
    \/ FreeMessages(w)
    \/ StartWait(w)
    \/ WaitOver(w)
    \/ FreeTask(w)

Next ==
    \/ Command
    \/ HandlerStep
    \/ \E t \in Timers : TimerEvent(t)
    \/ \E th \in Threads : ThreadStep(th)
    \/ \E u \in Users : do_close(u)
    \/ \E w \in Workers : WorkerStep(w)

Spec == Init /\ [][Next]_vars

\* The threads run, and epoll serves the expired timers in turn: a timer that
\* is due again and again is not passed over for ever.
Fairness ==
    /\ WF_vars(HandlerStep)
    /\ \A w \in Workers : WF_vars(WorkerStep(w))
    /\ \A th \in Threads : WF_vars(ThreadStep(th))
    /\ \A t \in Timers : SF_vars(TimerEvent(t))

FairSpec == Spec /\ Fairness

-----------------------------------------------------------------------------
\* Type invariant of the variables above.
TypeOK ==
    /\ status \in Statuses
    /\ ignoreErr \in BOOLEAN
    /\ userAll \subseteq Users
    /\ userDes \in [Users -> Nat]
    /\ SelfDead \in [Users -> BOOLEAN]
    /\ sock \in [Users -> BOOLEAN]
    /\ hueTimer \in [Users -> Timers \cup {NULL}]
    /\ tstate \in [Timers -> TimerStates]
    /\ towner \in [Timers -> Users \cup {NULL}]
    /\ isClose \in [Timers -> BOOLEAN]
    /\ pc \in [Threads -> ThreadSteps]
    /\ onTimer \in [Threads -> Timers \cup {NULL}]
    /\ hpc \in HandlerSteps
    /\ hNew \in BOOLEAN
    /\ hLeft \in 0..MaxAdd
    /\ hUser \in Users \cup {NULL}
    /\ hTimer \in Timers \cup {NULL}
    /\ wpc \in [Workers -> WorkerSteps]
    /\ wTodo \in [Workers -> SUBSET Users]
    /\ wTimer \in [Workers -> Timers \cup {NULL}]

\* A timer that exists and that nobody has deleted.
Open(t) == tstate[t] # "free" /\ ~isClose[t]

\* The user whose callback a reactor thread is running.
InCallback(th, u) == pc[th] \in {"work", "delete", "null", "push"} /\ UserOf(th) = u

\* A user is driven by one timer at most, so two reactor threads never replay
\* the messages of one user (task_add_user revives a user whose old timer may
\* not have been released yet).
OneOpenTimer ==
    \A s, t \in Timers : Open(s) /\ Open(t) /\ towner[s] = towner[t] => s = t

\* The thread that ends a user deletes, and forgets, the timer it runs on: the
\* order of userWorkFunc (delete, NULL, then push_userDes_back) keeps the timer
\* of a revival from being deleted, or its pointer from being overwritten.
OwnTimer ==
    \A th \in Threads : pc[th] \in {"delete", "null"} => hueTimer[UserOf(th)] = onTimer[th]

\* What ties users and timers together while reactor threads end users that the
\* command handler revives.
TimersAreOwn == OneOpenTimer /\ OwnTimer

\* A user in userDes is there once and nothing works on it: no open timer, no
\* callback, no socket.  task_add_user relies on it, for it runs ReInit on the
\* user without taking the user's lock.
EndedUserIsIdle ==
    \A u \in Users : userDes[u] > 0 =>
        /\ userDes[u] = 1
        /\ u \in userAll
        /\ hueTimer[u] = NULL
        /\ ~sock[u]
        /\ \A t \in Timers : Open(t) => towner[t] # u
        /\ \A th \in Threads : ~InCallback(th, u)

\* taskWorkerThread writes _is_close into a timer it has read from a UserEvent
\* without a lock: the HSOCKET is still allocated, whatever the user did since.
WorkerTimerAllocated ==
    \A w \in Workers : wpc[w] = "store" => tstate[wTimer[w]] # "free"

\* When destroy_task frees the users and the task, no timer refers to a user
\* and no reactor thread is in a callback.
NoTimerAfterFree ==
    (\E w \in Workers : wpc[w] \in {"free", "done"}) =>
        /\ \A t \in Timers : tstate[t] = "free"
        /\ \A th \in Threads : pc[th] = "wait"

\* The worker thread touches no timer that is gone, and nothing is left that would
\* touch what it frees.
NothingFreedIsUsed == WorkerTimerAllocated /\ NoTimerAfterFree

\* Once destroy_task has freed the messages no callback starts any more: only
\* callbacks that had passed the check of _is_close before may still be running.
MessagesFreed == \E w \in Workers : wpc[w] \in {"destroy", "sleep", "free", "done"}

NoNewCallback ==
    [][MessagesFreed => \A th \in Threads : pc[th] = "wait" => pc'[th] = "wait"]_vars

\* A stopped task is destroyed: no timer keeps destroy_task waiting.
StopCompletes == status = "cleaning" ~> status = "gone"

\* A user that ended, of a task that does not ignore errors, is offered for
\* revival (userDes), unless the task is stopped or a reset brought it back.
DeadUserIsOffered ==
    \A u \in Users :
        (status = "running" /\ ~ignoreErr /\ SelfDead[u]) ~>
            (userDes[u] > 0 \/ ~SelfDead[u] \/ status # "running")
=============================================================================
