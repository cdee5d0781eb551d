--------------------------------- MODULE Hub ---------------------------------
(***************************************************************************)
(* The hub as one process: the engine tracker with its heart monitor       *)
(* (Registration) and the task tracker (TaskTracker) on one reactor.  Most *)
(* handlers touch one of them.  The timer of _handle_stranded_msgs reads   *)
(* the engine tracker and completes tasks; a purge query erases tasks and, *)
(* unless it stops at a pending id, engines.                               *)
(***************************************************************************)
EXTENDS Integers, FiniteSets

CONSTANTS Heart, Queue, MaxId, MuxMsg, TaskMsg

VARIABLES
  hearts, responses, onProbation,
  nextId, incoming, engines, deadEngines, purgeTimers, strandedTimers,
  acked, announced,
  tasks, pending, allCompleted, unassigned, requests, undated

Eid == 0..(MaxId - 1)

Engines == INSTANCE Registration
Tasks == INSTANCE TaskTracker

engineVars == <<hearts, responses, onProbation, nextId, incoming, engines,
                deadEngines, purgeTimers, strandedTimers, acked, announced>>
taskVars == <<tasks, pending, allCompleted, unassigned, requests, undated>>
vars == <<engineVars, taskVars>>

Init ==
  /\ Engines!Init
  /\ Tasks!Init

-----------------------------------------------------------------------------
\* The queries and timers that stay within one tracker.
RegisterEngine(q, h) ==
  Engines!RegisterEngine(q, h) /\ UNCHANGED taskVars
PurgeStalledRegistration(t) ==
  Engines!PurgeStalledRegistration(t) /\ UNCHANGED taskVars
HandlePong(h) == Engines!HandlePong(h) /\ UNCHANGED taskVars
Beat == Engines!Beat /\ UNCHANGED taskVars
UnregisterEngine(q) ==
  Engines!UnregisterEngine(q) /\ UNCHANGED taskVars

\* dispatch_monitor_traffic: the copy of a message of the two queues.
MonitorTraffic ==
  /\ \/ \E id \in MuxMsg, e \in Eid : Tasks!SaveQueueRequest(id, e)
     \/ \E id \in MuxMsg, dated \in BOOLEAN :
          Tasks!SaveQueueResult(id, dated)
     \/ \E id \in TaskMsg, e \in Eid \cup {Tasks!NoEid} :
          Tasks!SaveTaskRequest(id, e)
     \/ \E id \in TaskMsg, e \in Eid, dated, started \in BOOLEAN :
          Tasks!SaveTaskResult(id, e, dated, started)
     \/ \E id \in TaskMsg, e \in Eid : Tasks!SaveTaskDestination(id, e)
  /\ UNCHANGED engineVars

\* ec.queues, "messages known to be on an engine": nothing ever fills it.
Outstanding(ec) == {}

\* A timer that takes ids out of pending without completing their records.
StrandedOnlyForgotten(id) ==
  /\ Engines!HandleStrandedMsgs(id)
  /\ pending' = pending \ {t.id : t \in {u \in tasks : u.eid = id}}
  /\ UNCHANGED <<tasks, allCompleted, unassigned, requests, undated>>
\* _handle_stranded_msgs; an engine that is gone by now is left alone.
HandleStrandedMsgs(id) ==
  /\ Engines!HandleStrandedMsgs(id)
  /\ IF id \in Engines!Ids(engines)
     THEN \E ec \in engines :
            ec.id = id /\ Tasks!CompleteStranded(Outstanding(ec))
     ELSE UNCHANGED taskVars

\* purge_results: everything; or the ids in front of the first pending one;
\* or all the ids, and after them the engines of I.
PurgeResults(ids, done, I) ==
  \/ Tasks!PurgeAll /\ UNCHANGED engineVars
  \/ /\ Tasks!PurgeResults(ids, done)
     /\ IF ids \cap pending = {} THEN Engines!PurgeEngines(I)
                                 ELSE UNCHANGED engineVars

Next ==
  \/ \E q \in Queue, h \in Heart : RegisterEngine(q, h)
  \/ \E t \in purgeTimers : PurgeStalledRegistration(t)
  \/ \E h \in Heart : HandlePong(h)
  \/ Beat
  \/ \E q \in Queue : UnregisterEngine(q)
  \/ MonitorTraffic
  \/ \E id \in strandedTimers : HandleStrandedMsgs(id)
  \/ \E ids \in SUBSET Tasks!Msg, I \in SUBSET Eid :
       \E done \in SUBSET ids : PurgeResults(ids, done, I)

Spec == Init /\ [][Next]_vars

-----------------------------------------------------------------------------
\* On the shared reactor the task tracker still does what it does alone, so
\* what holds of TaskTracker holds of the hub: the failure of an engine, its
\* late timer and a purge that goes on to the engines take it to no place the
\* traffic and the purges of tasks would not take it.
ImplementsTaskTracker == Tasks!Spec

\* _handle_stranded_msgs's comment: it handles "messages known to be on an
\* engine when the engine unregisters", by completing them with "Engine died
\* while running task".
StrandedCompleted ==
  [][\A id \in strandedTimers \ strandedTimers' :
       \A t \in tasks' : t.eid = id => ~Tasks!Waiting(t)]_vars
=============================================================================
