----------------------------- MODULE TaskTracker -----------------------------
(***************************************************************************)
(* The hub's task tracker (controller/hub.cpp, controller/task_set.hpp):   *)
(* the table of tasks and the three sets of message ids beside it, updated *)
(* by the copies of the queues' traffic the monitor socket receives and by *)
(* the clients' purge requests.                                            *)
(*                                                                         *)
(* The queue devices are not part of the repository.  Their traffic may    *)
(* reach the hub in any order, lose a message or repeat one: each handler  *)
(* is enabled for every id at any time.  The times of a result are         *)
(* optional, and from_iso_string throws where one is absent: the handler   *)
(* ends there, with what it changed before.  Nobody catches the exception, *)
(* it leaves the hub's loop, which its owner may run again.  A request     *)
(* without its time throws before it changes anything and is no action.    *)
(***************************************************************************)
EXTENDS Integers, FiniteSets

CONSTANTS
  MuxMsg,   \* ids of the messages that travel through the MUX queue
  TaskMsg,  \* ids of the messages that travel through the Task queue
  Eid       \* the engine ids that headers name

ASSUME MsgAssumption == MuxMsg \cap TaskMsg = {}
ASSUME EidAssumption == Eid \subseteq Nat

VARIABLES
  tasks,         \* m_ttracker.tasks
  pending,       \* m_ttracker.pending
  allCompleted,  \* m_ttracker.all_completed
  unassigned,    \* m_ttracker.unassigned
  requests,      \* history: requests seen per id, 2 standing for more
  undated        \* history: ids whose last result had no completion time

taskVars == <<tasks, pending, allCompleted, unassigned, requests, undated>>

Msg == MuxMsg \cup TaskMsg
NoEid == -1  \* the engine_uuid of a task without engine
\* The fields of struct task the handlers decide on; of a time they only ask
\* whether it is_not_a_date_time.
Task == [id : Msg, eid : Eid \cup {NoEid},
         completed : {"not_a_date_time", "date"}]
Waiting(t) == t.completed = "not_a_date_time"

\* The index on id is unique.
IdsUnique == \A t, u \in tasks : t.id = u.id => t = u

TypeOK ==
  /\ tasks \subseteq Task
  /\ IdsUnique
  /\ pending \subseteq Msg
  /\ allCompleted \subseteq Msg
  /\ unassigned \subseteq TaskMsg
  /\ requests \in [Msg -> 0..2]
  /\ undated \subseteq Msg

Init ==
  /\ tasks = {}
  /\ pending = {}
  /\ allCompleted = {}
  /\ unassigned = {}
  /\ requests = [id \in Msg |-> 0]
  /\ undated = {}

TaskIds == {t.id : t \in tasks}

-----------------------------------------------------------------------------
\* A table whose index on id is not unique, as those of engine_set.hpp on the
\* names are not.
InsertNonUnique(t) == tasks \cup {t}
\* tasks.insert: the index on id is unique, the first record stays.
Insert(t) == IF t.id \in TaskIds THEN tasks ELSE tasks \cup {t}

SaveRequest(id, e) ==
  /\ tasks' = Insert([id |-> id, eid |-> e,
                      completed |-> "not_a_date_time"])
  /\ pending' = pending \cup {id}
  /\ requests' = [requests EXCEPT ![id] = IF @ < 2 THEN @ + 1 ELSE 2]
  /\ undated' = undated \ {id}
  /\ UNCHANGED allCompleted

SaveQueueRequest(id, e) ==
  /\ SaveRequest(id, e)
  /\ UNCHANGED unassigned

\* hub.cpp marks the requests that name an engine, not the others.
SaveTaskRequest(id, e) ==
  /\ SaveRequest(id, e)
  /\ unassigned' = IF e # NoEid THEN unassigned \cup {id} ELSE unassigned

\* The record of id completed, and given the engine e.
Completed(T, id) ==
  {[id |-> t.id, eid |-> t.eid,
    completed |-> IF t.id = id THEN "date" ELSE t.completed] : t \in T}
Moved(T, id, e) ==
  {[id |-> t.id, eid |-> IF t.id = id THEN e ELSE t.eid,
    completed |-> t.completed] : t \in T}

\* A tracker that completes the sets without moving the id out of pending.
MoveKeepsPending(id) ==
  /\ pending' = pending
  /\ allCompleted' = IF id \in pending THEN allCompleted \cup {id}
                                       ELSE allCompleted
\* A tracker that takes the id out of pending and does not file it.
MoveForgets(id) ==
  /\ pending' = pending \ {id}
  /\ UNCHANGED allCompleted
\* The sets change only while the id is pending, the record "anyway".
MoveToCompleted(id) ==
  /\ pending' = pending \ {id}
  /\ allCompleted' = IF id \in pending THEN allCompleted \cup {id}
                                       ELSE allCompleted

\* A result for an id without record is dropped: it changes nothing.  Without
\* a completion time the handler throws before it reaches the record.
SaveQueueResult(id, dated) ==
  /\ id \in TaskIds
  /\ MoveToCompleted(id)
  /\ tasks' = IF dated THEN Completed(tasks, id) ELSE tasks
  /\ undated' = IF dated THEN undated \ {id} ELSE undated \cup {id}
  /\ UNCHANGED <<unassigned, requests>>

\* A task result that leaves its id in unassigned, as a queue result does.
TaskResultStaysUnassigned(id, e, dated, started) ==
  /\ SaveQueueResult(id, dated)
\* The result also says which engine ran the task; without a start time the
\* handler throws before it moves the record there.
SaveTaskResult(id, e, dated, started) ==
  /\ id \in TaskIds
  /\ unassigned' = unassigned \ {id}
  /\ MoveToCompleted(id)
  /\ tasks' = IF ~dated THEN tasks
              ELSE IF ~started THEN Completed(tasks, id)
              ELSE Moved(Completed(tasks, id), id, e)
  /\ undated' = IF dated THEN undated \ {id} ELSE undated \cup {id}
  /\ UNCHANGED requests

SaveTaskDestination(id, e) ==
  /\ id \in TaskIds
  /\ unassigned' = unassigned \ {id}
  /\ tasks' = Moved(tasks, id, e)
  /\ UNCHANGED <<pending, allCompleted, requests, undated>>

-----------------------------------------------------------------------------
Erase(ids) == tasks' = {t \in tasks : t.id \notin ids}

\* purge_results(all) clears the table and nothing beside it.
PurgeAll ==
  /\ tasks' = {}
  /\ UNCHANGED <<pending, allCompleted, unassigned, requests, undated>>

\* A purge that notices a pending id only after erasing its record.
PurgeChecksLate(ids, done) ==
  /\ done \subseteq ids
  /\ ids \cap pending = {} => done = ids
  /\ Erase(done)
  /\ UNCHANGED <<pending, allCompleted, unassigned, requests, undated>>
\* purge_results(msg_ids) walks the list and stops at the first pending id:
\* done are the ids in front of it, all of them when none is pending.
PurgeResults(ids, done) ==
  /\ done \subseteq ids \ pending
  /\ ids \cap pending = {} => done = ids
  /\ Erase(done)
  /\ UNCHANGED <<pending, allCompleted, unassigned, requests, undated>>

Next ==
  \/ \E id \in MuxMsg, e \in Eid : SaveQueueRequest(id, e)
  \/ \E id \in MuxMsg, dated \in BOOLEAN : SaveQueueResult(id, dated)
  \/ \E id \in TaskMsg, e \in Eid \cup {NoEid} : SaveTaskRequest(id, e)
  \/ \E id \in TaskMsg, e \in Eid, dated, started \in BOOLEAN :
       SaveTaskResult(id, e, dated, started)
  \/ \E id \in TaskMsg, e \in Eid : SaveTaskDestination(id, e)
  \/ PurgeAll
  \/ \E ids \in SUBSET Msg : \E done \in SUBSET ids : PurgeResults(ids, done)

Spec == Init /\ [][Next]_taskVars

-----------------------------------------------------------------------------
\* The body of _handle_stranded_msgs for the ids outstanding on a dead engine.
CompleteStranded(ids) ==
  /\ pending' = pending \ ids
  /\ allCompleted' = allCompleted \cup ids
  /\ tasks' = {[t EXCEPT !.completed = IF t.id \in ids THEN "date" ELSE @] :
                 t \in tasks}
  /\ UNCHANGED <<unassigned, requests, undated>>

\* What get_results answers for an id.
ResultStatus(id) ==
  IF id \notin TaskIds THEN "unknown"
  ELSE IF \E t \in tasks : t.id = id /\ ~Waiting(t) THEN "COMPLETED"
  ELSE "PENDING"

-----------------------------------------------------------------------------
\* The record of a task and the sets of ids agree, whatever order requests,
\* results, destinations and purges come in and wherever a handler throws: a
\* completed record's id is in all_completed; one without completion time is
\* pending, or its last result had no completion time.  So every record's id
\* is pending or completed, and the branch of the result handlers that logs
\* "unknown message ID finished" is never taken.
TaskStateAgrees ==
  \A t \in tasks :
    IF Waiting(t)
    THEN t.id \in pending \/ t.id \in undated \cap allCompleted
    ELSE t.id \in allCompleted

\* An id that was submitted once is never both pending and completed.
PendingXorCompleted ==
  \A id \in pending \cap allCompleted : requests[id] > 1

\* Nothing is unassigned that is not pending: a result and a destination both
\* take the id out of unassigned.
UnassignedPending == unassigned \subseteq pending

\* get_results reports the life of each task as a client expects it; a record
\* left waiting while its id is completed is the lifecycle's UNDATED.
Status(id) ==
  IF ResultStatus(id) = "PENDING" /\ id \notin pending THEN "UNDATED"
  ELSE ResultStatus(id)
Lifecycle == INSTANCE TaskLifecycle WITH status <- [id \in Msg |-> Status(id)]
ImplementsLifecycle == Lifecycle!Spec
=============================================================================
