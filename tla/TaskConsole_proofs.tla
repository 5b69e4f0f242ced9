------------------------- MODULE TaskConsole_proofs -------------------------
(***************************************************************************)
(* Proofs about TaskConsole, for every number of ids, memory cells and     *)
(* consoles.                                                               *)
(*                                                                         *)
(* IdsConserved is inductive together with TypeOK.  What is said of        *)
(* running tasks needs OneConsole: two requests that run and delete one    *)
(* task in parallel both pass the test of TaskRun, made without its lock.  *)
(***************************************************************************)
EXTENDS TaskConsole, TLAPS

\* The counter of ids wraps to 0.
LEMMA NextIndex ==
    ASSUME NEW i \in 0..MaxId
    PROVE  (i + 1) % (MaxId + 1) = IF i = MaxId THEN 0 ELSE i + 1
<1> USE MaxIdAssumption
<1>1. CASE i = MaxId
  BY <1>1
<1>2. CASE i < MaxId
  <2>1. \A x, y \in Int : y > 0 /\ 0 <= x /\ x < y => x % y = x
    OBVIOUS
  <2> QED  BY <2>1, <1>2
<1> QED  BY <1>1, <1>2

-----------------------------------------------------------------------------
\* Types.

LEMMA TypeInit == Init => TypeOK
BY MaxIdAssumption
   DEF Init, TypeOK, Ids, TaskStates, Stages, ListStates, ThreadSteps, ConsoleSteps

LEMMA TypeNewId ==
    ASSUME TypeOK, NEW id \in Ids, NewId(id)
    PROVE  taskIndex' \in 0..MaxId /\ taskIndexPool' \subseteq Ids
<1>1. taskIndex \in 0..MaxId /\ (taskIndex + 1) % (MaxId + 1) \in 0..MaxId
  BY MaxIdAssumption, NextIndex DEF TypeOK
<1> QED  BY <1>1 DEF TypeOK, NewId

LEMMA TypeCreate ==
    ASSUME TypeOK, NEW id \in Ids, NEW k \in Cfgs, task_create(id, k)
    PROVE  TypeOK'
<1>1. NewId(id) /\ Ids \subseteq 0..MaxId
  BY MaxIdAssumption DEF task_create, Ids
<1> QED  BY <1>1, TypeNewId DEF TypeOK, task_create, runVars, consoleVars, TaskStates

LEMMA TypeCreateFails ==
    ASSUME TypeOK, NEW id \in Ids, task_create_fails(id)
    PROVE  TypeOK'
<1>1. taskIndex' \in 0..MaxId /\ taskIndexPool' \subseteq Ids
  <2>1. taskIndex \in 0..MaxId /\ (taskIndex + 1) % (MaxId + 1) \in 0..MaxId
    BY MaxIdAssumption, NextIndex DEF TypeOK
  <2> QED  BY <2>1 DEF TypeOK, task_create_fails, idVars
<1> QED  BY <1>1 DEF TypeOK, task_create_fails, cfgVars, runVars, consoleVars

LEMMA TypeErase ==
    ASSUME TypeOK, IdsConserved, NEW c \in Consoles, task_delete_erase(c)
    PROVE  TypeOK'
<1> USE DEF TypeOK, cfgVars, runVars, ConsoleSteps, task_delete_erase
<1>1. CASE TaskCfg[cid[c]] = NULL
  BY <1>1
<1>2. CASE TaskCfg[cid[c]] # NULL
  <2>1. taskID[TaskCfg[cid[c]]] \in Ids /\ 0 \in 0..MaxId
    BY <1>2, MaxIdAssumption DEF IdsConserved
  <2> QED  BY <1>2, <2>1
<1> QED  BY <1>1, <1>2

\* The other steps leave the ids and the configurations alone.
LEMMA TypeRequest ==
    ASSUME TypeOK, NEW id \in Ids,
           (\E c \in Consoles : task_delete(c, id) \/ task_run(c, id)) \/ task_stop(id)
    PROVE  TypeOK' /\ UNCHANGED <<idVars, cfgVars>>
<1> USE DEF TypeOK, idVars, cfgVars, runVars, consoleVars
<1>1. ASSUME NEW c \in Consoles, task_delete(c, id)  PROVE TypeOK' /\ UNCHANGED <<idVars, cfgVars>>
  BY <1>1 DEF task_delete, ConsoleSteps
<1>2. ASSUME NEW c \in Consoles, task_run(c, id)  PROVE TypeOK' /\ UNCHANGED <<idVars, cfgVars>>
  BY <1>2 DEF task_run, ConsoleSteps
<1>3. CASE task_stop(id)
  BY <1>3 DEF task_stop, Stages
<1> QED  BY <1>1, <1>2, <1>3

LEMMA TypeRun ==
    ASSUME TypeOK, NEW c \in Consoles,
           task_run_find(c) \/ \E r \in Runs : task_run_insert(c, r)
    PROVE  TypeOK' /\ UNCHANGED <<idVars, cfgVars>>
<1> USE DEF TypeOK, idVars, cfgVars, runVars, ConsoleSteps
<1>1. CASE task_run_find(c)
  BY <1>1 DEF task_run_find
<1>2. ASSUME NEW r \in Runs, task_run_insert(c, r)
      PROVE  TypeOK' /\ UNCHANGED <<idVars, cfgVars>>
  <2>1. PICK id \in ReadTaskID(ccfg[c]) :
          TaskRun' = [TaskRun EXCEPT ![id] = IF @ = NULL THEN r ELSE @]
    BY <1>2 DEF task_run_insert
  <2>2. TaskRun' \in [Ids -> Runs \cup {NULL}]
    BY <2>1
  <2>3. ccfg[c] \in Cfgs \cup {NULL}
    OBVIOUS
  <2> QED  BY <1>2, <2>2, <2>3 DEF task_run_insert, Stages, ListStates, ThreadSteps
<1> QED  BY <1>1, <1>2

LEMMA TypeThread ==
    ASSUME TypeOK, NEW r \in Runs, ThreadStep(r)
    PROVE  TypeOK' /\ UNCHANGED <<idVars, cfgVars>>
<1> USE DEF TypeOK, idVars, cfgVars, consoleVars, ThreadSteps
<1>1. CASE task_runing_thread(r)
  BY <1>1 DEF task_runing_thread
<1>2. CASE task_runing(r)
  BY <1>2 DEF task_runing
<1>3. CASE task_push_init(r)
  BY <1>3 DEF task_push_init, Stages
<1>4. CASE task_push_init_list(r)
  BY <1>4 DEF task_push_init_list, Stages, ListStates, TaskStates
<1>5. CASE task_push_over(r)
  <2>1. PICK next \in {"leave", "crashed"} : rpc' = [rpc EXCEPT ![r] = next]
    BY <1>5 DEF task_push_over
  <2> QED  BY <1>5, <2>1 DEF task_push_over, ListStates, TaskStates
<1>6. CASE task_push_over_end(r)
  BY <1>6 DEF task_push_over_end, Stages
<1>7. CASE task_erase(r)
  BY <1>7 DEF task_erase
<1>8. CASE task_free(r)
  BY <1>8 DEF task_free
<1> QED  BY <1>1, <1>2, <1>3, <1>4, <1>5, <1>6, <1>7, <1>8 DEF ThreadStep

-----------------------------------------------------------------------------
\* Ids.

LEMMA IdsInit == Init => IdsConserved
BY MaxIdAssumption DEF Init, IdsConserved, Fresh, Ids

\* The id of a new task was that of nobody, and no other id moves.
LEMMA NewIdIsUnused ==
    ASSUME TypeOK, IdsConserved, NEW id \in Ids, NewId(id)
    PROVE  /\ TaskCfg[id] = NULL
           /\ ~Fresh(id)'
           /\ id \notin taskIndexPool'
           /\ \A i \in Ids : i # id => (Fresh(i)' <=> Fresh(i))
           /\ \A i \in Ids : i # id => (i \in taskIndexPool' <=> i \in taskIndexPool)
<1> USE MaxIdAssumption DEF TypeOK, IdsConserved, Fresh, Ids
<1>1. CASE taskIndex # 0 /\ id = taskIndex /\ UNCHANGED taskIndexPool
           /\ taskIndex' = (taskIndex + 1) % (MaxId + 1)
  <2>1. taskIndex' = IF taskIndex = MaxId THEN 0 ELSE taskIndex + 1
    BY <1>1, NextIndex
  <2> QED  BY <1>1, <2>1
<1>2. CASE taskIndex = 0 /\ id \in taskIndexPool /\ taskIndexPool' = taskIndexPool \ {id}
           /\ UNCHANGED taskIndex
  BY <1>2
<1> QED  BY <1>1, <1>2 DEF NewId

LEMMA IdsCreate ==
    ASSUME TypeOK, IdsConserved, NEW id \in Ids, NEW k \in Cfgs, task_create(id, k)
    PROVE  IdsConserved'
<1>1. /\ NewId(id)
      /\ k \in FreeCfgs
      /\ TaskCfg' = [TaskCfg EXCEPT ![id] = k]
      /\ taskID' = [taskID EXCEPT ![k] = id]
  BY NewIdIsUnused DEF task_create
<1>2. \A i \in Ids : TaskCfg'[i] = IF i = id THEN k ELSE TaskCfg[i]
  BY <1>1 DEF TypeOK
<1>3. \A j \in Cfgs : taskID'[j] = IF j = k THEN id ELSE taskID[j]
  BY <1>1 DEF TypeOK
<1>4. k # NULL /\ taskID[k] = 0 /\ id # 0
  BY <1>1, NullAssumption, MaxIdAssumption DEF FreeCfgs, Ids
<1>5. ASSUME NEW i \in Ids
      PROVE  /\ Fresh(i)' => i \notin taskIndexPool' /\ TaskCfg'[i] = NULL
             /\ i \in taskIndexPool' => TaskCfg'[i] = NULL
             /\ Fresh(i)' \/ i \in taskIndexPool' \/ TaskCfg'[i] # NULL
             /\ TaskCfg'[i] # NULL => taskID'[TaskCfg'[i]] = i
  <2>1. CASE i = id
    <3>1. ~Fresh(i)' /\ i \notin taskIndexPool'
      BY <1>1, <2>1, NewIdIsUnused
    <3>2. TaskCfg'[i] = k /\ taskID'[k] = i
      BY <1>2, <1>3, <2>1
    <3> QED  BY <1>4, <3>1, <3>2
  <2>2. CASE i # id
    <3>1. TaskCfg[i] # NULL => TaskCfg[i] \in Cfgs /\ TaskCfg[i] # k
      BY <1>4, <2>2, MaxIdAssumption DEF IdsConserved, TypeOK, Ids
    <3>2. (Fresh(i)' <=> Fresh(i)) /\ (i \in taskIndexPool' <=> i \in taskIndexPool)
      BY <1>1, <2>2, NewIdIsUnused DEF Fresh
    <3>3. TaskCfg'[i] = TaskCfg[i] /\ (TaskCfg[i] # NULL => taskID'[TaskCfg[i]] = taskID[TaskCfg[i]])
      BY <1>2, <1>3, <2>2, <3>1
    <3>4. /\ Fresh(i) => i \notin taskIndexPool /\ TaskCfg[i] = NULL
          /\ i \in taskIndexPool => TaskCfg[i] = NULL
          /\ Fresh(i) \/ i \in taskIndexPool \/ TaskCfg[i] # NULL
          /\ TaskCfg[i] # NULL => taskID[TaskCfg[i]] = i
      BY DEF IdsConserved
    <3> QED  BY <3>2, <3>3, <3>4
  <2> QED  BY <2>1, <2>2
<1>6. ASSUME NEW j \in Cfgs, taskID'[j] # 0
      PROVE  TaskCfg'[taskID'[j]] = j
  <2>1. CASE j = k
    BY <1>2, <1>3, <2>1
  <2>2. CASE j # k
    <3>1. taskID[j] # 0 /\ taskID'[j] = taskID[j] /\ taskID[j] \in Ids
      BY <1>3, <1>6, <2>2, MaxIdAssumption DEF TypeOK, Ids
    <3>2. TaskCfg[taskID[j]] = j /\ j # NULL
      BY <3>1, NullAssumption DEF IdsConserved
    <3>3. taskID[j] # id
      BY <1>1, <3>2, NewIdIsUnused
    <3> QED  BY <1>2, <3>1, <3>2, <3>3
  <2> QED  BY <2>1, <2>2
<1> QED  BY <1>5, <1>6 DEF IdsConserved

LEMMA IdsCreateFails ==
    ASSUME TypeOK, IdsConserved, NEW id \in Ids, task_create_fails(id)
    PROVE  IdsConserved'
<1> USE MaxIdAssumption DEF TypeOK, task_create_fails, Fresh, Ids, cfgVars
<1>1. CASE taskIndex # 0
  <2>1. taskIndex' = IF taskIndex = MaxId THEN 0 ELSE taskIndex + 1
    BY <1>1, NextIndex
  <2>2. TaskCfg[id] = NULL /\ id = taskIndex /\ taskIndexPool' = taskIndexPool \cup {id}
    BY <1>1 DEF IdsConserved
  <2> QED  BY <1>1, <2>1, <2>2 DEF IdsConserved
<1>2. CASE taskIndex = 0
  BY <1>2 DEF IdsConserved, idVars
<1> QED  BY <1>1, <1>2

LEMMA IdsErase ==
    ASSUME TypeOK, IdsConserved, NEW c \in Consoles, task_delete_erase(c)
    PROVE  IdsConserved'
<1>1. CASE TaskCfg[cid[c]] = NULL
  BY <1>1 DEF IdsConserved, task_delete_erase, Fresh, cfgVars
<1>2. CASE TaskCfg[cid[c]] # NULL
  <2> DEFINE k == TaskCfg[cid[c]]
             id == cid[c]
  <2>1. id \in Ids /\ k \in Cfgs /\ taskID[k] = id /\ ~Fresh(id)
    BY <1>2 DEF TypeOK, IdsConserved
  <2>2. /\ taskIndexPool' = taskIndexPool \cup {id}
        /\ taskID' = [taskID EXCEPT ![k] = 0]
        /\ TaskCfg' = [TaskCfg EXCEPT ![id] = NULL]
        /\ taskIndex' = taskIndex
    BY <1>2, <2>1 DEF task_delete_erase
  <2>3. \A i \in Ids : TaskCfg'[i] = IF i = id THEN NULL ELSE TaskCfg[i]
    BY <2>2 DEF TypeOK
  <2>4. \A j \in Cfgs : taskID'[j] = IF j = k THEN 0 ELSE taskID[j]
    BY <2>2 DEF TypeOK
  <2> HIDE DEF k, id
  <2>5. \A i \in Ids : TaskCfg[i] # NULL /\ i # id => TaskCfg[i] \in Cfgs /\ TaskCfg[i] # k
    BY <2>1 DEF IdsConserved, TypeOK
  <2>6. \A j \in Cfgs : j # k /\ taskID[j] # 0 => taskID[j] \in Ids /\ taskID[j] # id
    BY <2>1, MaxIdAssumption DEF IdsConserved, TypeOK, Ids, k, id
  <2> QED  BY <2>1, <2>2, <2>3, <2>4, <2>5, <2>6 DEF IdsConserved, Fresh
<1> QED  BY <1>1, <1>2

LEMMA IdsNext == TypeOK /\ IdsConserved /\ [Next]_vars => TypeOK' /\ IdsConserved'
<1> SUFFICES ASSUME TypeOK, IdsConserved, [Next]_vars  PROVE TypeOK' /\ IdsConserved'
  OBVIOUS
<1>1. ASSUME TypeOK', UNCHANGED <<idVars, cfgVars>>  PROVE TypeOK' /\ IdsConserved'
  BY <1>1 DEF IdsConserved, Fresh, idVars, cfgVars
<1>2. CASE \E id \in Ids, k \in Cfgs : task_create(id, k)
  BY <1>2, TypeCreate, IdsCreate
<1>3. CASE \E id \in Ids : task_create_fails(id)
  BY <1>3, TypeCreateFails, IdsCreateFails
<1>4. CASE \E id \in Ids : (\E c \in Consoles : task_delete(c, id) \/ task_run(c, id)) \/ task_stop(id)
  BY <1>1, <1>4, TypeRequest
<1>5. CASE \E c \in Consoles : task_delete_erase(c)
  BY <1>5, TypeErase, IdsErase
<1>6. CASE \E c \in Consoles : task_run_find(c) \/ \E r \in Runs : task_run_insert(c, r)
  BY <1>1, <1>6, TypeRun
<1>7. CASE \E r \in Runs : ThreadStep(r)
  BY <1>1, <1>7, TypeThread
<1>8. CASE UNCHANGED vars
  BY <1>8 DEF vars, TypeOK, IdsConserved, Fresh, idVars, cfgVars, runVars, consoleVars
<1> QED  BY <1>2, <1>3, <1>4, <1>5, <1>6, <1>7, <1>8 DEF Next, Request, RequestStep

-----------------------------------------------------------------------------
\* One console: the running tasks.

OneConsole == \A c, d \in Consoles : c = d

\* A request between its test of TaskRun and its write: nobody else has made a
\* running task of that id, and the configuration it found is there.
RequestOK ==
    \A c \in Consoles :
        /\ cpc[c] \in {"find", "delete"} => TaskRun[cid[c]] = NULL
        /\ cpc[c] = "insert" => /\ ccfg[c] \in Cfgs
                               /\ taskID[ccfg[c]] # 0
                               /\ TaskRun[taskID[ccfg[c]]] = NULL

\* A thread that has called task_push_over has set the state of its task.
OverIsShown ==
    \A r \in Runs : Alive(r) =>
        /\ rpc[r] \in {"leave", "erase"} \/ stage[r] = "OVER"
               => taskState[taskCfg[r]] # "RUNING"
        /\ rpc[r] \in {"switch", "init", "alloc"} => stage[r] # "OVER"

\* The thread leaves task_push_init with a list, or with a stage that ends it, and
\* a thread whose list is freed leaves its loop unless a stop came too late.
ListInv ==
    \A r \in Runs :
        /\ stage[r] = "LOOP" =>
               rpc[r] = "alloc" \/ (rpc[r] \in {"check", "switch"} /\ tempMsg[r] = "alloc")
        /\ rpc[r] \in {"init", "alloc"} \/ stage[r] = "INIT" => tempMsg[r] = "null"
        /\ rpc[r] = "alloc" => stage[r] # "INIT"
        /\ rpc[r] \in {"switch", "init", "alloc", "over", "leave"} => stage[r] # "OVER"
        /\ tempMsg[r] = "freed" /\ ~late[r] =>
               \/ rpc[r] = "check" /\ stage[r] = "OVER"
               \/ rpc[r] \in {"leave", "erase", "free", "none", "crashed"}

\* A thread that runs has a configuration.
HasCfg == \A r \in Runs : Alive(r) => taskCfg[r] \in Cfgs

\* Inductive with one console, together with TypeOK and IdsConserved.
RunInv == /\ HasCfg
          /\ RunRegistered
          /\ StopFindsThread
          /\ RequestOK
          /\ ShownAsRunning
          /\ OverIsShown

\* One lemma for each action: RunInv holds after it.  A new configuration is that
\* of no thread: its cell was free.
LEMMA RunCreate ==
    ASSUME OneConsole, TypeOK, TypeOK', IdsConserved, IdsConserved', RunInv,
           NEW id \in Ids, NEW k \in Cfgs, task_create(id, k)
    PROVE  RunInv'
BY DEF RunInv, HasCfg, RunRegistered, StopFindsThread, RequestOK, ShownAsRunning,
       OverIsShown, TypeOK, IdsConserved, Alive, runVars, consoleVars, task_create, FreeCfgs

LEMMA RunCreateFails ==
    ASSUME OneConsole, TypeOK, TypeOK', IdsConserved, IdsConserved', RunInv,
           NEW id \in Ids, task_create_fails(id)
    PROVE  RunInv'
BY DEF RunInv, HasCfg, RunRegistered, StopFindsThread, RequestOK, ShownAsRunning,
       OverIsShown, Alive, cfgVars, runVars, consoleVars, task_create_fails

LEMMA RunDelete ==
    ASSUME OneConsole, TypeOK, TypeOK', IdsConserved, IdsConserved', RunInv,
           NEW c \in Consoles, NEW id \in Ids, task_delete(c, id)
    PROVE  RunInv'
BY DEF RunInv, HasCfg, RunRegistered, StopFindsThread, RequestOK, ShownAsRunning,
       OverIsShown, TypeOK, Alive, cfgVars, runVars, task_delete

\* The configuration that goes has no thread: its request has seen TaskRun[id] = NULL
\* and, the only one, has not been overtaken.
LEMMA RunErase ==
    ASSUME OneConsole, TypeOK, TypeOK', IdsConserved, IdsConserved', RunInv,
           NEW c \in Consoles, task_delete_erase(c)
    PROVE  RunInv'
<1>1. HasCfg'
  BY DEF RunInv, HasCfg, Alive, runVars, task_delete_erase
<1>2. RunRegistered'
  BY NullAssumption
    DEF RunInv, HasCfg, RunRegistered, RequestOK, TypeOK, IdsConserved, Alive, cfgVars,
        runVars, task_delete_erase
<1>3. StopFindsThread'
  BY DEF RunInv, HasCfg, StopFindsThread, RequestOK, TypeOK, IdsConserved, Alive, cfgVars,
         runVars, task_delete_erase
<1>4. RequestOK'
  BY DEF RequestOK, TypeOK, OneConsole, task_delete_erase
<1>5. ShownAsRunning'
  BY DEF RunInv, ShownAsRunning, TypeOK, cfgVars, task_delete_erase
<1>6. OverIsShown'
  BY DEF RunInv, OverIsShown, Alive, runVars, task_delete_erase
<1> QED  BY <1>1, <1>2, <1>3, <1>4, <1>5, <1>6 DEF RunInv

LEMMA RunRun ==
    ASSUME OneConsole, TypeOK, TypeOK', IdsConserved, IdsConserved', RunInv,
           NEW c \in Consoles, NEW id \in Ids, task_run(c, id)
    PROVE  RunInv'
BY DEF RunInv, HasCfg, RunRegistered, StopFindsThread, RequestOK, ShownAsRunning,
       OverIsShown, TypeOK, Alive, cfgVars, runVars, task_run

LEMMA RunRunFind ==
    ASSUME OneConsole, TypeOK, TypeOK', IdsConserved, IdsConserved', RunInv,
           NEW c \in Consoles, task_run_find(c)
    PROVE  RunInv'
BY DEF RunInv, HasCfg, RunRegistered, StopFindsThread, RequestOK, ShownAsRunning,
       OverIsShown, TypeOK, IdsConserved, Alive, cfgVars, runVars, Ids, task_run_find

\* The new thread is alone with its configuration.
LEMMA RunRunInsert ==
    ASSUME OneConsole, TypeOK, TypeOK', IdsConserved, IdsConserved', RunInv,
           NEW c \in Consoles, NEW r \in Runs, task_run_insert(c, r)
    PROVE  RunInv'
BY NullAssumption
  DEF RunInv, HasCfg, RunRegistered, StopFindsThread, RequestOK, ShownAsRunning, OverIsShown,
      TypeOK, IdsConserved, Alive, cfgVars, OneConsole, task_run_insert, FreeRuns, ReadTaskID

LEMMA RunStop ==
    ASSUME OneConsole, TypeOK, TypeOK', IdsConserved, IdsConserved', RunInv,
           NEW id \in Ids, task_stop(id)
    PROVE  RunInv'
BY DEF RunInv, HasCfg, RunRegistered, StopFindsThread, RequestOK, ShownAsRunning,
       OverIsShown, Alive, cfgVars, consoleVars, task_stop

LEMMA RunThread ==
    ASSUME OneConsole, TypeOK, TypeOK', IdsConserved, IdsConserved', RunInv,
           NEW r \in Runs, task_runing_thread(r)
    PROVE  RunInv'
BY DEF RunInv, HasCfg, RunRegistered, StopFindsThread, RequestOK, ShownAsRunning,
       OverIsShown, Alive, cfgVars, consoleVars, task_runing_thread

LEMMA RunSwitch ==
    ASSUME OneConsole, TypeOK, TypeOK', IdsConserved, IdsConserved', RunInv,
           NEW r \in Runs, task_runing(r)
    PROVE  RunInv'
BY DEF RunInv, HasCfg, RunRegistered, StopFindsThread, RequestOK, ShownAsRunning,
       OverIsShown, Alive, cfgVars, consoleVars, task_runing

LEMMA RunPushInit ==
    ASSUME OneConsole, TypeOK, TypeOK', IdsConserved, IdsConserved', RunInv,
           NEW r \in Runs, task_push_init(r)
    PROVE  RunInv'
<1>1. \A q \in Runs : /\ q # r => rpc'[q] = rpc[q] /\ stage'[q] = stage[q]
                      /\ q = r => rpc'[q] \in {"check", "alloc"} /\ stage'[q] # "OVER"
  BY DEF RunInv, OverIsShown, TypeOK, Alive, task_push_init
<1>2. Alive(r) /\ (\A q \in Runs : Alive(q)' <=> Alive(q))
      /\ UNCHANGED <<idVars, cfgVars, taskState, TaskRun, taskCfg, tempMsg, consoleVars>>
  BY <1>1 DEF Alive, task_push_init
<1>3. HasCfg' /\ RunRegistered'
  BY <1>2 DEF RunInv, HasCfg, RunRegistered, cfgVars
<1>4. StopFindsThread'
  BY <1>1, <1>2 DEF RunInv, StopFindsThread, TypeOK, cfgVars, Alive
<1>5. RequestOK' /\ ShownAsRunning'
  BY <1>2 DEF RunInv, RequestOK, ShownAsRunning, cfgVars, consoleVars
<1>6. OverIsShown'
  BY <1>1, <1>2 DEF RunInv, OverIsShown
<1> QED  BY <1>3, <1>4, <1>5, <1>6 DEF RunInv

\* The task becomes RUNING while its thread is in TaskRun.
LEMMA RunPushInitList ==
    ASSUME OneConsole, TypeOK, TypeOK', IdsConserved, IdsConserved', RunInv,
           NEW r \in Runs, task_push_init_list(r)
    PROVE  RunInv'
<1>1. CASE tempMsg' = [tempMsg EXCEPT ![r] = "alloc"] /\ UNCHANGED stage
           /\ taskState' = [taskState EXCEPT ![taskCfg[r]] = "RUNING"]
  <2>1. /\ Alive(r) /\ taskCfg[r] \in Cfgs /\ stage[r] # "OVER" /\ rpc'[r] = "check"
        /\ TaskRun[taskID[taskCfg[r]]] # NULL
        /\ \A k \in Cfgs : k # taskCfg[r] => taskState'[k] = taskState[k]
        /\ \A q \in Runs : q # r => rpc'[q] = rpc[q] /\ (Alive(q) => taskCfg[q] # taskCfg[r])
        /\ UNCHANGED <<stage, taskCfg, TaskRun, taskID>>
    BY <1>1, NullAssumption
       DEF RunInv, RunRegistered, OverIsShown, TypeOK, Alive, cfgVars, task_push_init_list
  <2>2. HasCfg' /\ RunRegistered' /\ StopFindsThread'
    BY <1>1 DEF RunInv, HasCfg, RunRegistered, StopFindsThread, Alive, cfgVars, task_push_init_list
  <2>3. RequestOK'
    BY <1>1 DEF RunInv, RequestOK, cfgVars, consoleVars, task_push_init_list
  <2>4. ShownAsRunning' /\ OverIsShown'
    BY <2>1 DEF RunInv, HasCfg, ShownAsRunning, OverIsShown, Alive
  <2> QED  BY <2>2, <2>3, <2>4 DEF RunInv
<1>2. CASE stage' = [stage EXCEPT ![r] = "CLEAN"]
           /\ UNCHANGED <<tempMsg, taskState>>
  BY <1>2 DEF RunInv, HasCfg, RunRegistered, StopFindsThread, RequestOK, ShownAsRunning,
              OverIsShown, Alive, cfgVars, consoleVars, task_push_init_list
<1> QED  BY <1>1, <1>2 DEF task_push_init_list

LEMMA RunPushOver ==
    ASSUME OneConsole, TypeOK, TypeOK', IdsConserved, IdsConserved', RunInv,
           NEW r \in Runs, task_push_over(r)
    PROVE  RunInv'
BY DEF RunInv, HasCfg, RunRegistered, StopFindsThread, RequestOK, ShownAsRunning,
       OverIsShown, TypeOK, Alive, cfgVars, consoleVars, task_push_over

LEMMA RunPushOverEnd ==
    ASSUME OneConsole, TypeOK, TypeOK', IdsConserved, IdsConserved', RunInv,
           NEW r \in Runs, task_push_over_end(r)
    PROVE  RunInv'
BY DEF RunInv, HasCfg, RunRegistered, StopFindsThread, RequestOK, ShownAsRunning,
       OverIsShown, Alive, cfgVars, consoleVars, task_push_over_end

\* The entry that goes is the thread's own.
LEMMA RunTaskErase ==
    ASSUME OneConsole, TypeOK, TypeOK', IdsConserved, IdsConserved', RunInv,
           NEW r \in Runs, task_erase(r)
    PROVE  RunInv'
BY DEF RunInv, HasCfg, RunRegistered, StopFindsThread, RequestOK, ShownAsRunning,
       OverIsShown, TypeOK, IdsConserved, Alive, cfgVars, consoleVars, idVars, task_erase,
       ReadTaskID

LEMMA RunFree ==
    ASSUME OneConsole, TypeOK, TypeOK', IdsConserved, IdsConserved', RunInv,
           NEW r \in Runs, task_free(r)
    PROVE  RunInv'
BY DEF RunInv, HasCfg, RunRegistered, StopFindsThread, RequestOK, ShownAsRunning,
       OverIsShown, Alive, cfgVars, consoleVars, task_free

LEMMA RunNext ==
    ASSUME OneConsole, TypeOK, TypeOK', IdsConserved, IdsConserved', RunInv, [Next]_vars
    PROVE  RunInv'
<1>1. CASE Request
  BY <1>1, RunCreate, RunCreateFails, RunDelete, RunRun, RunStop DEF Request
<1>2. CASE \E c \in Consoles : RequestStep(c)
  BY <1>2, RunErase, RunRunFind, RunRunInsert DEF RequestStep
<1>3. CASE \E r \in Runs : ThreadStep(r)
  BY <1>3, RunThread, RunSwitch, RunPushInit, RunPushInitList, RunPushOver, RunPushOverEnd,
     RunTaskErase, RunFree DEF ThreadStep
<1>4. CASE UNCHANGED vars
  BY <1>4 DEF vars, idVars, cfgVars, runVars, consoleVars, RunInv, HasCfg, RunRegistered,
              StopFindsThread, RequestOK, ShownAsRunning, OverIsShown, Alive
<1> QED  BY <1>1, <1>2, <1>3, <1>4 DEF Next

LEMMA RunInit == Init => RunInv
BY NullAssumption
   DEF Init, RunInv, HasCfg, RunRegistered, StopFindsThread, RequestOK, ShownAsRunning,
       OverIsShown, Alive, Ids

\* The list does not depend on the number of consoles.
LEMMA ListNext == TypeOK /\ ListInv /\ [Next]_vars => ListInv'
<1> SUFFICES ASSUME TypeOK, ListInv, [Next]_vars  PROVE ListInv'
  OBVIOUS
<1> USE DEF TypeOK, ListInv
<1>1. ASSUME UNCHANGED <<stage, rpc, tempMsg, late>>  PROVE ListInv'
  BY <1>1
<1>2. CASE Request
  <2>1. ASSUME NEW id \in Ids, task_stop(id)  PROVE ListInv'
    BY <2>1 DEF task_stop
  <2> QED  BY <1>1, <1>2, <2>1
           DEF Request, task_create, task_create_fails, task_delete, task_run, runVars
<1>3. CASE \E c \in Consoles : RequestStep(c)
  BY <1>1, <1>3 DEF RequestStep, task_delete_erase, task_run_find, task_run_insert, runVars
<1>4. ASSUME NEW r \in Runs, ThreadStep(r)  PROVE ListInv'
  <2>1. CASE task_runing_thread(r) \/ task_runing(r)
    BY <2>1 DEF task_runing_thread, task_runing
  <2>2. CASE task_push_init(r)
    BY <2>2 DEF task_push_init
  <2>3. CASE task_push_init_list(r)
    BY <2>3 DEF task_push_init_list
  <2>4. CASE task_push_over(r)
    <3>1. PICK next \in {"leave", "crashed"} : rpc' = [rpc EXCEPT ![r] = next]
      BY <2>4 DEF task_push_over
    <3> QED  BY <2>4, <3>1 DEF task_push_over
  <2>6. CASE task_push_over_end(r)
    BY <2>6 DEF task_push_over_end
  <2>5. CASE task_erase(r) \/ task_free(r)
    BY <2>5 DEF task_erase, task_free
  <2> QED  BY <1>4, <2>1, <2>2, <2>3, <2>4, <2>5, <2>6 DEF ThreadStep
<1>5. CASE UNCHANGED vars
  BY <1>1, <1>5 DEF vars, runVars
<1> QED  BY <1>2, <1>3, <1>4, <1>5 DEF Next

-----------------------------------------------------------------------------
\* The theorems.

\* The variables keep their types.
THEOREM TypeCorrect == Spec => []TypeOK
<1>1. Init => TypeOK /\ IdsConserved
  BY TypeInit, IdsInit
<1>2. (TypeOK /\ IdsConserved) /\ [Next]_vars => (TypeOK /\ IdsConserved)'
  BY IdsNext
<1> QED  BY <1>1, <1>2, PTL DEF Spec

\* No id is lost and none is given twice: taskIndex, taskIndexPool and TaskCfg
\* under TaskCfgLock, for any number of ids and of consoles.
THEOREM IdsConservedHolds == Spec => []IdsConserved
<1>1. Init => TypeOK /\ IdsConserved
  BY TypeInit, IdsInit
<1>2. (TypeOK /\ IdsConserved) /\ [Next]_vars => (TypeOK /\ IdsConserved)'
  BY IdsNext
<1> QED  BY <1>1, <1>2, PTL DEF Spec

LEMMA RunInvHolds ==
    ASSUME OneConsole
    PROVE  Spec => [](TypeOK /\ IdsConserved /\ RunInv)
<1>1. Init => TypeOK /\ IdsConserved /\ RunInv
  BY TypeInit, IdsInit, RunInit
<1>2. (TypeOK /\ IdsConserved /\ RunInv) /\ [Next]_vars => (TypeOK /\ IdsConserved /\ RunInv)'
  BY OneConsole, IdsNext, RunNext
<1> QED  BY <1>1, <1>2, PTL DEF Spec

\* With one console a stop reaches the thread of the task, and a task is not
\* deleted while its thread runs (task_runing_thread, do_console_task_delete).
THEOREM RunRegisteredHolds ==
    ASSUME OneConsole
    PROVE  Spec => []RunRegistered
<1>1. RunInv => RunRegistered
  BY DEF RunInv
<1> QED  BY <1>1, RunInvHolds, PTL

\* With one console do_console_task_stop writes into a TaskRuning that has not been
\* freed.
THEOREM StopFindsThreadHolds ==
    ASSUME OneConsole
    PROVE  Spec => []StopFindsThread
<1>1. RunInv => StopFindsThread
  BY DEF RunInv
<1> QED  BY <1>1, RunInvHolds, PTL

\* With one console a task that is shown as running is in TaskRun.
THEOREM ShownAsRunningHolds ==
    ASSUME OneConsole
    PROVE  Spec => []ShownAsRunning
<1>1. RunInv => ShownAsRunning
  BY DEF RunInv
<1> QED  BY <1>1, RunInvHolds, PTL

\* With one console TaskRun, the threads and the pages agree on what runs.
THEOREM RunningIsRegisteredHolds ==
    ASSUME OneConsole
    PROVE  Spec => []RunningIsRegistered
BY RunRegisteredHolds, StopFindsThreadHolds, ShownAsRunningHolds, PTL DEF RunningIsRegistered

\* For any number of consoles a thread in STAGE_LOOP has a list of messages, and
\* task_push_over frees it once, unless a stop was written over STAGE_OVER.
THEOREM ListInUseHolds == Spec => []ListInUse
<1>1. Init => ListInv
  BY DEF Init, ListInv
<1>2. ListInv => ListInUse
  BY DEF ListInv, ListInUse
<1> QED  BY <1>1, <1>2, ListNext, TypeCorrect, PTL DEF Spec
=============================================================================
