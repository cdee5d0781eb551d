------------------------------ MODULE HubProofs ------------------------------
(***************************************************************************)
(* On the shared reactor the hub implements the task tracker, for any      *)
(* names, messages and number of requests.                                 *)
(***************************************************************************)
EXTENDS Hub, TLAPS

\* The table of the task tracker holds records, so a handler that completes
\* none of them leaves each as it is.
TasksTyped == tasks \subseteq Tasks!Task

\* The stranded handler walks an empty list.
LEMMA StrandedNothing ==
  ASSUME TasksTyped, NEW id \in strandedTimers, HandleStrandedMsgs(id)
  PROVE  UNCHANGED Tasks!taskVars
<1>1. CASE UNCHANGED taskVars
  BY <1>1 DEF taskVars, Tasks!taskVars
<1>2. CASE Tasks!CompleteStranded({})
  <2>1. \A t \in tasks : [t EXCEPT !.completed = t.completed] = t
    BY DEF TasksTyped, Tasks!Task
  <2>2. tasks' = {[t EXCEPT !.completed = t.completed] : t \in tasks}
    BY <1>2 DEF Tasks!CompleteStranded
  <2>3. tasks' = tasks
    BY <2>1, <2>2
  <2> QED
    BY <1>2, <2>3 DEF Tasks!CompleteStranded, Tasks!taskVars
<1> QED
  BY <1>1, <1>2 DEF HandleStrandedMsgs, Outstanding

LEMMA StepOfTasks == TasksTyped /\ [Next]_vars => [Tasks!Next]_(Tasks!taskVars)
<1> SUFFICES ASSUME TasksTyped, [Next]_vars
             PROVE  Tasks!Next \/ UNCHANGED Tasks!taskVars
  OBVIOUS
<1>1. UNCHANGED taskVars => UNCHANGED Tasks!taskVars
  BY DEF taskVars, Tasks!taskVars
<1>2. ASSUME NEW q \in Queue, UnregisterEngine(q) \/ \E h \in Heart : RegisterEngine(q, h)
      PROVE  UNCHANGED taskVars
  BY <1>2 DEF RegisterEngine, UnregisterEngine
<1>3. ASSUME NEW t \in purgeTimers, PurgeStalledRegistration(t)
      PROVE  UNCHANGED taskVars
  BY <1>3 DEF PurgeStalledRegistration
<1>4. ASSUME NEW h \in Heart, HandlePong(h)
      PROVE  UNCHANGED taskVars
  BY <1>4 DEF HandlePong
<1>5. CASE Beat \/ UNCHANGED vars
  BY <1>1, <1>5 DEF Beat, vars
<1>6. CASE MonitorTraffic
  BY <1>6 DEF MonitorTraffic, Tasks!Next
<1>7. ASSUME NEW id \in strandedTimers, HandleStrandedMsgs(id)
      PROVE  UNCHANGED Tasks!taskVars
  BY <1>7, StrandedNothing
<1>8. ASSUME NEW ids \in SUBSET Tasks!Msg, NEW I \in SUBSET Eid,
             NEW done \in SUBSET ids, PurgeResults(ids, done, I)
      PROVE  Tasks!Next
  BY <1>8 DEF PurgeResults, Tasks!Next
<1> QED
  BY <1>1, <1>2, <1>3, <1>4, <1>5, <1>6, <1>7, <1>8 DEF Next

LEMMA TasksKeepType ==
  ASSUME TasksTyped, [Tasks!Next]_(Tasks!taskVars)
  PROVE  TasksTyped'
<1> USE DEF TasksTyped, Tasks!Task, Tasks!Msg
<1>1. ASSUME NEW id \in Tasks!Msg, NEW e \in Eid \cup {Tasks!NoEid},
             Tasks!SaveRequest(id, e)
      PROVE  TasksTyped'
  BY <1>1 DEF Tasks!SaveRequest, Tasks!Insert
<1>2. ASSUME NEW id \in Tasks!Msg, NEW e \in Eid, NEW dated \in BOOLEAN,
             NEW started \in BOOLEAN,
             \/ Tasks!SaveTaskResult(id, e, dated, started)
             \/ Tasks!SaveTaskDestination(id, e)
      PROVE  TasksTyped'
  BY <1>2 DEF Tasks!SaveTaskResult, Tasks!SaveTaskDestination,
              Tasks!Completed, Tasks!Moved
<1>3. ASSUME NEW id \in Tasks!Msg, NEW dated \in BOOLEAN,
             Tasks!SaveQueueResult(id, dated)
      PROVE  TasksTyped'
  BY <1>3 DEF Tasks!SaveQueueResult, Tasks!Completed
<1>4. CASE tasks' \subseteq tasks
  BY <1>4
<1> QED
  BY <1>1, <1>2, <1>3, <1>4
     DEF Tasks!Next, Tasks!taskVars, Tasks!SaveQueueRequest, Tasks!SaveTaskRequest,
         Tasks!PurgeAll, Tasks!PurgeResults, Tasks!Erase

\* The engine tracker's queries, callbacks and timers take the task tracker
\* nowhere the traffic and the purges would not take it.
THEOREM HubImplementsTaskTracker == Spec => ImplementsTaskTracker
<1>1. Init => Tasks!Init /\ TasksTyped
  BY DEF Init, Tasks!Init, TasksTyped
<1>2. TasksTyped /\ [Next]_vars => TasksTyped'
  BY StepOfTasks, TasksKeepType
<1> QED
  BY <1>1, <1>2, StepOfTasks, PTL DEF Spec, ImplementsTaskTracker, Tasks!Spec
=============================================================================
