---------------------------- MODULE TaskConsole ----------------------------
(***************************************************************************)
(* The tasks of the server: ServerConsole.cpp.                             *)
(*                                                                         *)
(* TaskCfg holds the configurations by id, TaskRun the running tasks by    *)
(* id; ids come from a counter that wraps and then from a pool.  Consoles  *)
(* are web pages: each request is handled on its own connection, so two    *)
(* consoles are handled in parallel.  A running task is a thread           *)
(* (task_runing_thread) that switches on its stage; a stop request writes  *)
(* that stage from a console.                                              *)
(*                                                                         *)
(* What a task sends to the agents is left to TaskPush: here task_push_    *)
(* init chooses among its outcomes.  TaskCfg.find and TaskRun.find without *)
(* a lock are single steps.                                                *)
(***************************************************************************)
EXTENDS Integers, FiniteSets

CONSTANTS MaxId,     \* the largest id: 255 (uint8_t)
          Cfgs,      \* memory cells for TaskConfig
          Runs,      \* memory cells for TaskRuning
          Consoles,  \* requests handled in parallel
          NULL

ASSUME MaxIdAssumption == MaxId \in Nat \ {0}
ASSUME NullAssumption == NULL \notin Cfgs \cup Runs

VARIABLES
    taskIndex,      \* the next new id, 0 once it has wrapped
    taskIndexPool,  \* ids of deleted tasks
    TaskCfg,        \* per id: its configuration
    TaskRun,        \* per id: its running task
    taskID,         \* per TaskConfig cell: its id, 0 while the cell is free
    taskState,      \* per TaskConfig cell
    taskCfg,        \* per TaskRuning cell: its configuration
    stage,          \* per TaskRuning cell
    tempMsg,        \* per TaskRuning cell: the list of messages
    rpc,            \* per TaskRuning cell: where its thread stands
    late,           \* per TaskRuning cell: a stop was written over STAGE_OVER
    cpc,            \* per console: where its request stands
    cid,            \* per console: the id of its request
    ccfg            \* per console: the configuration it has found

idVars      == <<taskIndex, taskIndexPool>>
cfgVars     == <<TaskCfg, taskID>>
runVars     == <<taskCfg, stage, tempMsg, rpc, late>>
consoleVars == <<cpc, cid, ccfg>>
vars == <<idVars, cfgVars, taskState, TaskRun, runVars, consoleVars>>

Ids        == 1..MaxId
TaskStates == {"UNSTART", "RUNING", "STOP"}
Stages     == {"INIT", "LOOP", "CLEAN", "OVER"}
ListStates == {"null", "alloc", "freed"}
ThreadSteps  == {"none", "check", "switch", "init", "alloc", "over", "leave", "erase", "free", "crashed"}
ConsoleSteps == {"idle", "find", "insert", "delete"}

FreeCfgs == {k \in Cfgs : taskID[k] = 0}
FreeRuns == {r \in Runs : rpc[r] = "none"}

\* What a read of k->taskID returns: anything when the cell is free.
ReadTaskID(k) == IF taskID[k] = 0 THEN Ids ELSE {taskID[k]}

-----------------------------------------------------------------------------
\* Requests of the consoles

\* The id of a new task: the counter as long as it has not wrapped, then the
\* smallest id of the pool.  Without either the request is dropped.
NewId(id) ==
    \/ /\ taskIndex # 0
       /\ id = taskIndex
       /\ taskIndex' = (taskIndex + 1) % (MaxId + 1)
       /\ UNCHANGED taskIndexPool
    \/ /\ taskIndex = 0
       /\ id \in taskIndexPool
       /\ \A i \in taskIndexPool : id <= i
       /\ taskIndexPool' = taskIndexPool \ {id}
       /\ UNCHANGED taskIndex

\* do_console_task_create, under TaskCfgLock.
task_create(id, k) ==
    /\ NewId(id)
    /\ k \in FreeCfgs
    /\ taskID' = [taskID EXCEPT ![k] = id]
    /\ taskState' = [taskState EXCEPT ![k] = "UNSTART"]
    /\ TaskCfg' = [TaskCfg EXCEPT ![id] = IF @ = NULL THEN k ELSE @]
    /\ UNCHANGED <<TaskRun, runVars, consoleVars>>

\* Mutant: the id is lost.
task_create_fails_Leaks(id) ==
    /\ NewId(id)
    /\ FreeCfgs # {}
    /\ UNCHANGED <<cfgVars, taskState, TaskRun, runVars, consoleVars>>

\* The same without memory for its lists: the new id goes to the pool.
task_create_fails(id) ==
    /\ \/ /\ taskIndex # 0
          /\ id = taskIndex
          /\ taskIndex' = (taskIndex + 1) % (MaxId + 1)
          /\ taskIndexPool' = taskIndexPool \cup {id}
       \/ /\ taskIndex = 0
          /\ id \in taskIndexPool
          /\ UNCHANGED idVars
    /\ FreeCfgs # {}
    /\ UNCHANGED <<cfgVars, taskState, TaskRun, runVars, consoleVars>>

\* Mutant: a task that is running may be deleted.
task_delete_Unchecked(c, id) ==
    /\ cpc[c] = "idle"
    /\ cpc' = [cpc EXCEPT ![c] = "delete"]
    /\ cid' = [cid EXCEPT ![c] = id]
    /\ UNCHANGED <<idVars, cfgVars, taskState, TaskRun, runVars, ccfg>>

\* do_console_task_delete: refused while the task is in TaskRun ...
task_delete(c, id) ==
    /\ cpc[c] = "idle"
    /\ TaskRun[id] = NULL
    /\ cpc' = [cpc EXCEPT ![c] = "delete"]
    /\ cid' = [cid EXCEPT ![c] = id]
    /\ UNCHANGED <<idVars, cfgVars, taskState, TaskRun, runVars, ccfg>>

\* ... and then, under TaskCfgLock, the configuration goes and its id is free.
task_delete_erase(c) ==
    LET k == TaskCfg[cid[c]] IN
    /\ cpc[c] = "delete"
    /\ IF k = NULL
       THEN UNCHANGED <<taskIndexPool, cfgVars>>
       ELSE /\ taskIndexPool' = taskIndexPool \cup {taskID[k]}
            /\ taskID' = [taskID EXCEPT ![k] = 0]
            /\ TaskCfg' = [TaskCfg EXCEPT ![cid[c]] = NULL]
    /\ cpc' = [cpc EXCEPT ![c] = "idle"]
    /\ UNCHANGED <<taskIndex, taskState, TaskRun, runVars, cid, ccfg>>

\* do_console_task_run: refused while the task is in TaskRun ...
task_run(c, id) ==
    /\ cpc[c] = "idle"
    /\ TaskRun[id] = NULL
    /\ cpc' = [cpc EXCEPT ![c] = "find"]
    /\ cid' = [cid EXCEPT ![c] = id]
    /\ UNCHANGED <<idVars, cfgVars, taskState, TaskRun, runVars, ccfg>>

\* ... or when there is no such configuration, or no memory.
task_run_find(c) ==
    /\ cpc[c] = "find"
    /\ IF TaskCfg[cid[c]] = NULL \/ FreeRuns = {}
       THEN cpc' = [cpc EXCEPT ![c] = "idle"] /\ UNCHANGED ccfg
       ELSE /\ cpc' = [cpc EXCEPT ![c] = "insert"]
            /\ ccfg' = [ccfg EXCEPT ![c] = TaskCfg[cid[c]]]
    /\ UNCHANGED <<idVars, cfgVars, taskState, TaskRun, runVars, cid>>

\* The running task enters TaskRun under TaskRunLock (std::map::insert keeps an
\* entry that is there) and its thread starts.
task_run_insert(c, r) ==
    /\ cpc[c] = "insert"
    /\ r \in FreeRuns
    /\ \E id \in ReadTaskID(ccfg[c]) :
          TaskRun' = [TaskRun EXCEPT ![id] = IF @ = NULL THEN r ELSE @]
    /\ taskCfg' = [taskCfg EXCEPT ![r] = ccfg[c]]
    /\ stage' = [stage EXCEPT ![r] = "INIT"]
    /\ tempMsg' = [tempMsg EXCEPT ![r] = "null"]
    /\ rpc' = [rpc EXCEPT ![r] = "check"]
    /\ late' = [late EXCEPT ![r] = FALSE]
    /\ cpc' = [cpc EXCEPT ![c] = "idle"]
    /\ ccfg' = [ccfg EXCEPT ![c] = NULL]
    /\ UNCHANGED <<idVars, cfgVars, taskState, cid>>

\* do_console_task_stop, under TaskRunLock.
task_stop(id) ==
    /\ TaskRun[id] # NULL
    /\ stage' = [stage EXCEPT ![TaskRun[id]] = "CLEAN"]
    /\ late' = [late EXCEPT ![TaskRun[id]] = @ \/ stage[TaskRun[id]] = "OVER"]
    /\ UNCHANGED <<idVars, cfgVars, taskState, TaskRun, taskCfg, tempMsg, rpc, consoleVars>>

-----------------------------------------------------------------------------
\* The thread of a running task

\* while (runtask->stage < STAGE_OVER)
task_runing_thread(r) ==
    /\ rpc[r] = "check"
    /\ rpc' = [rpc EXCEPT ![r] = IF stage[r] = "OVER" THEN "erase" ELSE "switch"]
    /\ UNCHANGED <<idVars, cfgVars, taskState, TaskRun, taskCfg, stage, tempMsg, late, consoleVars>>

\* switch (runtask->stage), after the sleep.  A task in LOOP pushes users and
\* messages, which leaves all of this as it is.
task_runing(r) ==
    /\ rpc[r] = "switch"
    /\ rpc' = [rpc EXCEPT ![r] = CASE stage[r] = "INIT"  -> "init"
                                   [] stage[r] = "CLEAN" -> "over"
                                   [] OTHER              -> "check"]
    /\ UNCHANGED <<idVars, cfgVars, taskState, TaskRun, taskCfg, stage, tempMsg, late, consoleVars>>

\* task_push_init: no agents, nobody to add, or the agents are told and the
\* stage is LOOP, whatever a console has written since the switch.
task_push_init(r) ==
    /\ rpc[r] = "init"
    /\ \/ /\ stage' = [stage EXCEPT ![r] = "CLEAN"]
          /\ rpc' = [rpc EXCEPT ![r] = "check"]
       \/ /\ rpc' = [rpc EXCEPT ![r] = "check"]
          /\ UNCHANGED stage
       \/ /\ stage' = [stage EXCEPT ![r] = "LOOP"]
          /\ rpc' = [rpc EXCEPT ![r] = "alloc"]
    /\ UNCHANGED <<idVars, cfgVars, taskState, TaskRun, taskCfg, tempMsg, late, consoleVars>>

\* Its end: the list of messages, or CLEAN when there is no memory for it.
task_push_init_list(r) ==
    /\ rpc[r] = "alloc"
    /\ \/ /\ tempMsg' = [tempMsg EXCEPT ![r] = "alloc"]
          /\ taskState' = [taskState EXCEPT ![taskCfg[r]] = "RUNING"]
          /\ UNCHANGED stage
       \/ /\ stage' = [stage EXCEPT ![r] = "CLEAN"]
          /\ UNCHANGED <<tempMsg, taskState>>
    /\ rpc' = [rpc EXCEPT ![r] = "check"]
    /\ UNCHANGED <<idVars, cfgVars, TaskRun, taskCfg, late, consoleVars>>

\* task_push_over: the agents are told, the list is freed, the pointer stays.  A
\* second call uses the freed list and frees it, dbsql and dbConn again, which may
\* crash the server; without a list there was no dbsql and no dbConn either.
task_push_over(r) ==
    /\ rpc[r] = "over"
    /\ taskState' = [taskState EXCEPT ![taskCfg[r]] = "STOP"]
    /\ tempMsg' = [tempMsg EXCEPT ![r] = IF @ = "null" THEN @ ELSE "freed"]
    /\ \E next \in {"leave"} \cup IF tempMsg[r] = "freed" THEN {"crashed"} ELSE {} :
          rpc' = [rpc EXCEPT ![r] = next]
    /\ UNCHANGED <<idVars, cfgVars, TaskRun, taskCfg, stage, late, consoleVars>>

\* Mutant: the stage stays CLEAN.
task_push_over_end_Stays(r) ==
    /\ rpc[r] = "leave"
    /\ rpc' = [rpc EXCEPT ![r] = "check"]
    /\ UNCHANGED <<idVars, cfgVars, taskState, TaskRun, taskCfg, stage, tempMsg, late, consoleVars>>

task_push_over_end(r) ==
    /\ rpc[r] = "leave"
    /\ stage' = [stage EXCEPT ![r] = "OVER"]
    /\ rpc' = [rpc EXCEPT ![r] = "check"]
    /\ UNCHANGED <<idVars, cfgVars, taskState, TaskRun, taskCfg, tempMsg, late, consoleVars>>

\* The end of the thread: TaskRun.erase(runtask->taskCfg->taskID), under
\* TaskRunLock ...
task_erase(r) ==
    /\ rpc[r] = "erase"
    /\ \E id \in ReadTaskID(taskCfg[r]) : TaskRun' = [TaskRun EXCEPT ![id] = NULL]
    /\ rpc' = [rpc EXCEPT ![r] = "free"]
    /\ UNCHANGED <<idVars, cfgVars, taskState, taskCfg, stage, tempMsg, late, consoleVars>>

\* ... and sheeps_free(runtask).
task_free(r) ==
    /\ rpc[r] = "free"
    /\ rpc' = [rpc EXCEPT ![r] = "none"]
    /\ UNCHANGED <<idVars, cfgVars, taskState, TaskRun, taskCfg, stage, tempMsg, late, consoleVars>>

-----------------------------------------------------------------------------
Init ==
    /\ taskIndex = 1
    /\ taskIndexPool = {}
    /\ TaskCfg = [id \in Ids |-> NULL]
    /\ TaskRun = [id \in Ids |-> NULL]
    /\ taskID = [k \in Cfgs |-> 0]
    /\ taskState = [k \in Cfgs |-> "UNSTART"]
    /\ taskCfg = [r \in Runs |-> NULL]
    /\ stage = [r \in Runs |-> "INIT"]
    /\ tempMsg = [r \in Runs |-> "null"]
    /\ rpc = [r \in Runs |-> "none"]
    /\ late = [r \in Runs |-> FALSE]
    /\ cpc = [c \in Consoles |-> "idle"]
    /\ cid = [c \in Consoles |-> 1]
    /\ ccfg = [c \in Consoles |-> NULL]

\* The server is gone, and every thread with it.
Crashed == \E r \in Runs : rpc[r] = "crashed"

Request ==
    /\ ~Crashed
    /\ \/ \E id \in Ids, k \in Cfgs : task_create(id, k)
       \/ \E id \in Ids : task_create_fails(id)
       \/ \E c \in Consoles, id \in Ids : task_delete(c, id) \/ task_run(c, id)
       \/ \E id \in Ids : task_stop(id)

RequestStep(c) ==
    /\ ~Crashed
    /\ \/ task_delete_erase(c)
       \/ task_run_find(c)
       \/ \E r \in Runs : task_run_insert(c, r)

ThreadStep(r) ==
    /\ ~Crashed
    /\ \/ task_runing_thread(r)
       \/ task_runing(r)
       \/ task_push_init(r)
       \/ task_push_init_list(r)
       \/ task_push_over(r)
       \/ task_push_over_end(r)
       \/ task_erase(r)
       \/ task_free(r)

Next ==
    \/ Request
    \/ \E c \in Consoles : RequestStep(c)
    \/ \E r \in Runs : ThreadStep(r)

Spec == Init /\ [][Next]_vars

\* The threads of the running tasks run.
FairSpec == Spec /\ \A r \in Runs : WF_vars(ThreadStep(r))

-----------------------------------------------------------------------------
\* Type invariant of the variables above.
TypeOK ==
    /\ taskIndex \in 0..MaxId
    /\ taskIndexPool \subseteq Ids
    /\ TaskCfg \in [Ids -> Cfgs \cup {NULL}]
    /\ TaskRun \in [Ids -> Runs \cup {NULL}]
    /\ taskID \in [Cfgs -> 0..MaxId]
    /\ taskState \in [Cfgs -> TaskStates]
    /\ taskCfg \in [Runs -> Cfgs \cup {NULL}]
    /\ stage \in [Runs -> Stages]
    /\ tempMsg \in [Runs -> ListStates]
    /\ rpc \in [Runs -> ThreadSteps]
    /\ late \in [Runs -> BOOLEAN]
    /\ cpc \in [Consoles -> ConsoleSteps]
    /\ cid \in [Consoles -> Ids]
    /\ ccfg \in [Consoles -> Cfgs \cup {NULL}]

\* The counter has not come to this id yet.
Fresh(id) == taskIndex # 0 /\ taskIndex <= id

\* No id is lost and none is given twice, through the wrap of the counter and
\* the failures of do_console_task_create: each is fresh, in the pool or that of
\* exactly one configuration, and a configuration is found under its own id.
IdsConserved ==
    /\ \A id \in Ids :
          /\ Fresh(id) => id \notin taskIndexPool /\ TaskCfg[id] = NULL
          /\ id \in taskIndexPool => TaskCfg[id] = NULL
          /\ Fresh(id) \/ id \in taskIndexPool \/ TaskCfg[id] # NULL
          /\ TaskCfg[id] # NULL => taskID[TaskCfg[id]] = id
    /\ \A k \in Cfgs : taskID[k] # 0 => TaskCfg[taskID[k]] = k

\* The thread uses its TaskRuning and its configuration.
Alive(r) == rpc[r] \notin {"none", "free"}

\* With one console: the thread of a running task is the one in TaskRun, so that
\* a stop reaches it, and its configuration has not been deleted under it.
RunRegistered ==
    \A r \in Runs : Alive(r) =>
        /\ taskID[taskCfg[r]] # 0
        /\ TaskCfg[taskID[taskCfg[r]]] = taskCfg[r]
        /\ TaskRun[taskID[taskCfg[r]]] = r

\* With one console: an entry of TaskRun is a running task that has not been freed
\* (do_console_task_stop writes into it), under the id of its configuration.
StopFindsThread ==
    \A id \in Ids : TaskRun[id] # NULL =>
        /\ Alive(TaskRun[id])
        /\ taskID[taskCfg[TaskRun[id]]] = id

\* With one console: a task that the pages show as running is in TaskRun.
ShownAsRunning ==
    \A k \in Cfgs : taskID[k] # 0 /\ taskState[k] = "RUNING" => TaskRun[taskID[k]] # NULL

\* With one console, what the map of running tasks, their threads and the pages
\* know of a task agrees.
RunningIsRegistered == RunRegistered /\ StopFindsThread /\ ShownAsRunning

\* The list is there while the thread pushes from it (task_push_record_msg does not
\* test the pointer), and task_push_over frees it once, unless a stop has been
\* written over the STAGE_OVER of the first call.
ListInUse ==
    \A r \in Runs :
        /\ rpc[r] = "switch" /\ stage[r] = "LOOP" => tempMsg[r] = "alloc"
        /\ rpc[r] = "over" /\ tempMsg[r] = "freed" => late[r]

Stopped(r) == stage[r] = "CLEAN" /\ Alive(r)
Ends(r)    == stage[r] = "OVER" \/ rpc[r] \in {"erase", "free", "none"}

\* The server went down in the task_push_over that a stop over STAGE_OVER had called.
LateCrash == \E r \in Runs : rpc[r] = "crashed" /\ late[r]

\* A stop that does not come while the thread is in task_push_init ends the task,
\* but for a server that a late stop has brought down.
StopEnds == \A r \in Runs : (Stopped(r) /\ rpc[r] # "init") ~> (Ends(r) \/ LateCrash)

\* Every stop that is answered with OK ends the task, with the same exception: what
\* the console page shows at once when the button is pressed.
EveryStopEnds == \A r \in Runs : Stopped(r) ~> (Ends(r) \/ LateCrash)
=============================================================================
