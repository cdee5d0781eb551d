-------------------------- MODULE TaskTrackerProofs --------------------------
(***************************************************************************)
(* TaskTracker for any messages and engines: its types, the agreement of   *)
(* the table with the sets beside it, and that get_results shows each task *)
(* the life TaskLifecycle describes.                                       *)
(***************************************************************************)
EXTENDS TaskTracker, TLAPS

-----------------------------------------------------------------------------
\* The inductive invariant.  What is pending or completed was requested.
Requested == \A id \in pending \cup allCompleted : requests[id] >= 1

IInv ==
  /\ TypeOK
  /\ Requested
  /\ TaskStateAgrees
  /\ PendingXorCompleted
  /\ UnassignedPending

-----------------------------------------------------------------------------
\* A step's effect on the table as far as ids and completion go: the records
\* of U are those of T, with the ones of id completed if c.
Tracks(T, U, id, c) ==
  /\ U \in SUBSET Task
  /\ \A t \in T : \E u \in U :
       /\ u.id = t.id
       /\ u.completed = IF c /\ t.id = id THEN "date" ELSE t.completed
  /\ \A u \in U : \E t \in T :
       /\ u.id = t.id
       /\ u.completed = IF c /\ t.id = id THEN "date" ELSE t.completed
  /\ \A u, v \in U : u.id = v.id => u = v

\* What the two operators on the table do to its records.
LEMMA CompletedTracks ==
  ASSUME NEW T \in SUBSET Task, \A t, u \in T : t.id = u.id => t = u, NEW id
  PROVE  Tracks(T, Completed(T, id), id, TRUE)
<1> DEFINE f(t) == [id |-> t.id, eid |-> t.eid,
                    completed |-> IF t.id = id THEN "date" ELSE t.completed]
<1>1. \A t \in T :
        /\ f(t) \in Task /\ f(t) \in Completed(T, id) /\ f(t).id = t.id
        /\ f(t).completed = IF t.id = id THEN "date" ELSE t.completed
  BY DEF Completed, Task
<1>2. \A u \in Completed(T, id) : \E t \in T : u = f(t)
  BY DEF Completed
<1> HIDE DEF f
<1>3. Completed(T, id) \in SUBSET Task
  BY <1>1, <1>2
<1>4. \A u, v \in Completed(T, id) : u.id = v.id => u = v
  BY <1>1, <1>2
<1> QED
  BY <1>1, <1>2, <1>3, <1>4 DEF Tracks

LEMMA MovedTracks ==
  ASSUME NEW T \in SUBSET Task, \A t, u \in T : t.id = u.id => t = u, NEW id,
         NEW e \in Eid
  PROVE  Tracks(T, Moved(T, id, e), id, FALSE)
<1> DEFINE f(t) == [id |-> t.id, eid |-> IF t.id = id THEN e ELSE t.eid,
                    completed |-> t.completed]
<1>1. \A t \in T :
        /\ f(t) \in Task /\ f(t) \in Moved(T, id, e) /\ f(t).id = t.id
        /\ f(t).completed = t.completed
  BY DEF Moved, Task
<1>2. \A u \in Moved(T, id, e) : \E t \in T : u = f(t)
  BY DEF Moved
<1> HIDE DEF f
<1>3. Moved(T, id, e) \in SUBSET Task
  BY <1>1, <1>2
<1>4. \A u, v \in Moved(T, id, e) : u.id = v.id => u = v
  BY <1>1, <1>2
<1> QED
  BY <1>1, <1>2, <1>3, <1>4 DEF Tracks

\* A handler that throws before it reaches the record.
LEMMA LeftTracks ==
  ASSUME NEW T \in SUBSET Task, \A t, u \in T : t.id = u.id => t = u, NEW id
  PROVE  Tracks(T, T, id, FALSE)
BY DEF Tracks

LEMMA CompletedMovedTracks ==
  ASSUME NEW T \in SUBSET Task, \A t, u \in T : t.id = u.id => t = u, NEW id,
         NEW e \in Eid
  PROVE  Tracks(T, Moved(Completed(T, id), id, e), id, TRUE)
<1> DEFINE C == Completed(T, id)
<1>1. Tracks(T, C, id, TRUE)
  BY CompletedTracks
<1>2. C \in SUBSET Task /\ \A t, u \in C : t.id = u.id => t = u
  BY <1>1 DEF Tracks
<1> HIDE DEF C
<1>3. Tracks(C, Moved(C, id, e), id, FALSE)
  BY <1>2, MovedTracks
<1>4. Tracks(T, Moved(C, id, e), id, TRUE)
  BY <1>1, <1>3 DEF Tracks
<1> QED
  BY <1>4 DEF C

-----------------------------------------------------------------------------
LEMMA InitInv == Init => IInv
BY DEF Init, IInv, TypeOK, IdsUnique, Requested, TaskStateAgrees,
       PendingXorCompleted, UnassignedPending, Msg

\* A request enters the table if its id is new there, and pending anyway.
LEMMA RequestKeeps ==
  ASSUME IInv, NEW id \in Msg, NEW e \in Eid \cup {NoEid}, SaveRequest(id, e),
         unassigned' = unassigned \/ (unassigned' = unassigned \cup {id} /\ id \in TaskMsg)
  PROVE  IInv'
<1> DEFINE t == [id |-> id, eid |-> e, completed |-> "not_a_date_time"]
<1> USE DEF IInv
<1>1. t \in Task /\ t.id = id /\ Waiting(t)
  BY DEF Task, Waiting
<1>2. tasks' = IF id \in TaskIds THEN tasks ELSE tasks \cup {t}
  BY <1>1 DEF SaveRequest, Insert
<1> HIDE DEF t
<1>3. /\ pending' = pending \cup {id}
      /\ allCompleted' = allCompleted
      /\ undated' = undated \ {id}
  BY DEF SaveRequest
<1>4. /\ requests' \in [Msg -> 0..2]
      /\ \A i \in Msg : requests'[i] >= requests[i]
      /\ requests'[id] >= 1
      /\ requests[id] >= 1 => requests'[id] > 1
  BY DEF SaveRequest, TypeOK
<1>5. IdsUnique'
  BY <1>1, <1>2 DEF TypeOK, IdsUnique, TaskIds
<1>6. TypeOK'
  BY <1>1, <1>2, <1>3, <1>4, <1>5 DEF TypeOK, Msg
<1>7. UnassignedPending'
  BY <1>3 DEF UnassignedPending
<1>8. Requested'
  <2> SUFFICES ASSUME NEW i \in pending' \cup allCompleted'
               PROVE  requests'[i] >= 1
    BY DEF Requested
  <2>1. CASE i = id
    BY <2>1, <1>4
  <2>2. CASE i # id
    <3>1. i \in Msg /\ requests[i] \in 0..2 /\ requests[i] >= 1
      BY <2>2, <1>3 DEF Requested, TypeOK
    <3> QED
      BY <3>1, <1>4
  <2> QED
    BY <2>1, <2>2
<1>9. TaskStateAgrees'
  BY <1>1, <1>2, <1>3 DEF TaskStateAgrees
<1>10. PendingXorCompleted'
  <2> SUFFICES ASSUME NEW i \in pending' \cap allCompleted'
               PROVE  requests'[i] > 1
    BY DEF PendingXorCompleted
  <2>1. i \in Msg /\ requests[i] \in 0..2 /\ requests[i] >= 1
    BY <1>3 DEF Requested, TypeOK
  <2>2. CASE i = id
    BY <2>1, <2>2, <1>4
  <2>3. CASE i # id
    BY <2>1, <2>3, <1>3, <1>4 DEF PendingXorCompleted
  <2> QED
    BY <2>2, <2>3
<1> QED
  BY <1>5, <1>6, <1>7, <1>8, <1>9, <1>10

\* A result moves the id, and completes the record if it comes that far.
LEMMA ResultKeeps ==
  ASSUME IInv, NEW id \in Msg, NEW dated \in BOOLEAN, MoveToCompleted(id),
         undated' = (IF dated THEN undated \ {id} ELSE undated \cup {id}),
         UNCHANGED requests, Tracks(tasks, tasks', id, dated),
         unassigned' = unassigned \ {id} \/ (unassigned' = unassigned /\ id \in MuxMsg)
  PROVE  IInv'
<1> USE DEF IInv
<1>1. /\ pending' = pending \ {id}
      /\ allCompleted' = IF id \in pending THEN allCompleted \cup {id}
                                           ELSE allCompleted
  BY DEF MoveToCompleted
<1>2. TypeOK'
  <2>1. IdsUnique' /\ tasks' \in SUBSET Task
    BY DEF IdsUnique, Tracks
  <2> QED
    BY <1>1, <2>1 DEF TypeOK
<1>3. UnassignedPending'
  BY <1>1, MsgAssumption DEF TypeOK, UnassignedPending
<1>4. Requested' /\ PendingXorCompleted'
  BY <1>1 DEF Requested, PendingXorCompleted
<1>5. TaskStateAgrees'
  <2> SUFFICES ASSUME NEW u \in tasks'
               PROVE  IF Waiting(u)
                      THEN u.id \in pending' \/ u.id \in undated' \cap allCompleted'
                      ELSE u.id \in allCompleted'
    BY DEF TaskStateAgrees
  <2>1. PICK t \in tasks :
          /\ u.id = t.id
          /\ u.completed = IF dated /\ t.id = id THEN "date" ELSE t.completed
    BY DEF Tracks
  <2>2. t.id \in pending \/ t.id \in allCompleted
    BY DEF TaskStateAgrees
  <2>3. CASE t.id = id
    <3>1. id \in allCompleted'
      BY <1>1, <2>2, <2>3
    <3> QED
      BY <2>1, <2>3, <3>1 DEF Waiting
  <2>4. CASE t.id # id
    <3>1. Waiting(u) <=> Waiting(t)
      BY <2>1, <2>4 DEF Waiting
    <3> QED
      BY <1>1, <2>1, <2>4, <3>1 DEF TaskStateAgrees
  <2> QED
    BY <2>3, <2>4
<1> QED
  BY <1>2, <1>3, <1>4, <1>5

\* A destination only moves the record.
LEMMA DestinationKeeps ==
  ASSUME IInv, NEW id \in Msg, NEW e \in Eid, SaveTaskDestination(id, e)
  PROVE  IInv'
<1> USE DEF IInv
<1>1. Tracks(tasks, tasks', id, FALSE)
  BY MovedTracks DEF SaveTaskDestination, TypeOK, IdsUnique
<1>2. /\ UNCHANGED <<pending, allCompleted, requests, undated>>
      /\ unassigned' \subseteq unassigned
  BY DEF SaveTaskDestination
<1>3. TypeOK'
  <2>1. IdsUnique' /\ tasks' \in SUBSET Task
    BY <1>1 DEF IdsUnique, Tracks
  <2> QED
    BY <1>2, <2>1 DEF TypeOK
<1>4. TaskStateAgrees'
  BY <1>1, <1>2 DEF TaskStateAgrees, Tracks, Waiting
<1> QED
  BY <1>2, <1>3, <1>4 DEF Requested, PendingXorCompleted, UnassignedPending

\* Records may leave the table at any time.
LEMMA EraseKeeps ==
  ASSUME IInv, tasks' \subseteq tasks,
         UNCHANGED <<pending, allCompleted, unassigned, requests, undated>>
  PROVE  IInv'
BY DEF IInv, TypeOK, IdsUnique, Requested, TaskStateAgrees,
       PendingXorCompleted, UnassignedPending

\* What the two result handlers do to the table, by the times they find.
LEMMA QueueResultTracks ==
  ASSUME TypeOK, NEW id, NEW dated \in BOOLEAN, SaveQueueResult(id, dated)
  PROVE  Tracks(tasks, tasks', id, dated)
<1> tasks \in SUBSET Task /\ \A t, u \in tasks : t.id = u.id => t = u
  BY DEF TypeOK, IdsUnique
<1>1. CASE dated
  BY <1>1, CompletedTracks DEF SaveQueueResult
<1>2. CASE ~dated
  BY <1>2, LeftTracks DEF SaveQueueResult
<1> QED
  BY <1>1, <1>2

LEMMA TaskResultTracks ==
  ASSUME TypeOK, NEW id, NEW e \in Eid, NEW dated \in BOOLEAN,
         NEW started \in BOOLEAN, SaveTaskResult(id, e, dated, started)
  PROVE  Tracks(tasks, tasks', id, dated)
<1> tasks \in SUBSET Task /\ \A t, u \in tasks : t.id = u.id => t = u
  BY DEF TypeOK, IdsUnique
<1>1. CASE ~dated
  BY <1>1, LeftTracks DEF SaveTaskResult
<1>2. CASE dated /\ ~started
  BY <1>2, CompletedTracks DEF SaveTaskResult
<1>3. CASE dated /\ started
  BY <1>3, CompletedMovedTracks DEF SaveTaskResult
<1> QED
  BY <1>1, <1>2, <1>3

LEMMA InvNext == IInv /\ [Next]_taskVars => IInv'
<1> SUFFICES ASSUME IInv, [Next]_taskVars
             PROVE  IInv'
  OBVIOUS
<1>0. TypeOK
  BY DEF IInv
<1>1. ASSUME NEW id \in MuxMsg, NEW e \in Eid, SaveQueueRequest(id, e)
      PROVE  IInv'
  BY <1>1, RequestKeeps DEF SaveQueueRequest, Msg
<1>2. ASSUME NEW id \in MuxMsg, NEW dated \in BOOLEAN,
             SaveQueueResult(id, dated)
      PROVE  IInv'
  <2>1. Tracks(tasks, tasks', id, dated)
    BY <1>0, <1>2, QueueResultTracks
  <2> QED
    BY <1>2, <2>1, ResultKeeps DEF SaveQueueResult, Msg
<1>3. ASSUME NEW id \in TaskMsg, NEW e \in Eid \cup {NoEid},
             SaveTaskRequest(id, e)
      PROVE  IInv'
  BY <1>3, RequestKeeps DEF SaveTaskRequest, Msg
<1>4. ASSUME NEW id \in TaskMsg, NEW e \in Eid, NEW dated \in BOOLEAN,
             NEW started \in BOOLEAN, SaveTaskResult(id, e, dated, started)
      PROVE  IInv'
  <2>1. Tracks(tasks, tasks', id, dated)
    BY <1>0, <1>4, TaskResultTracks
  <2> QED
    BY <1>4, <2>1, ResultKeeps DEF SaveTaskResult, Msg
<1>5. ASSUME NEW id \in TaskMsg, NEW e \in Eid, SaveTaskDestination(id, e)
      PROVE  IInv'
  BY <1>5, DestinationKeeps DEF Msg
<1>6. CASE PurgeAll
  BY <1>6, EraseKeeps DEF PurgeAll
<1>7. ASSUME NEW ids \in SUBSET Msg, NEW done \in SUBSET ids,
             PurgeResults(ids, done)
      PROVE  IInv'
  BY <1>7, EraseKeeps DEF PurgeResults, Erase
<1>8. CASE UNCHANGED taskVars
  BY <1>8, EraseKeeps DEF taskVars
<1> QED
  BY <1>1, <1>2, <1>3, <1>4, <1>5, <1>6, <1>7, <1>8 DEF Next

LEMMA InvCorrect == Spec => []IInv
BY InitInv, InvNext, PTL DEF Spec

-----------------------------------------------------------------------------
\* Each variable of the task tracker keeps its type.
THEOREM TypeCorrect == Spec => []TypeOK
<1>1. IInv => TypeOK
  BY DEF IInv
<1> QED
  BY <1>1, InvCorrect, PTL

\* A completed record's id is in all_completed; the others are pending, or
\* their last result had no completion time; in whatever order the monitor's
\* messages and the purges come and wherever a result's handler throws.
THEOREM TaskStatesAgree == Spec => []TaskStateAgrees
<1>1. IInv => TaskStateAgrees
  BY DEF IInv
<1> QED
  BY <1>1, InvCorrect, PTL

\* Only a repeated request makes an id pending and completed at once.
THEOREM PendingOrCompleted == Spec => []PendingXorCompleted
<1>1. IInv => PendingXorCompleted
  BY DEF IInv
<1> QED
  BY <1>1, InvCorrect, PTL

\* Nothing is unassigned that is not pending.
THEOREM UnassignedArePending == Spec => []UnassignedPending
<1>1. IInv => UnassignedPending
  BY DEF IInv
<1> QED
  BY <1>1, InvCorrect, PTL

-----------------------------------------------------------------------------
\* What a step of the table does to the answers of get_results.
LEMMA StatusMoved ==
  ASSUME NEW id, Tracks(tasks, tasks', id, FALSE)
  PROVE  \A i \in Msg : ResultStatus(i)' = ResultStatus(i)
<1> SUFFICES ASSUME NEW i \in Msg
             PROVE  ResultStatus(i)' = ResultStatus(i)
  OBVIOUS
<1>1. i \in TaskIds' <=> i \in TaskIds
  BY DEF Tracks, TaskIds
<1>2. (\E t \in tasks : t.id = i /\ ~Waiting(t))'
        <=> \E t \in tasks : t.id = i /\ ~Waiting(t)
  BY DEF Tracks, Waiting
<1> QED
  BY <1>1, <1>2 DEF ResultStatus

LEMMA StatusCompleted ==
  ASSUME NEW id \in TaskIds, Tracks(tasks, tasks', id, TRUE)
  PROVE  \A i \in Msg :
           ResultStatus(i)' = IF i = id THEN "COMPLETED" ELSE ResultStatus(i)
<1> SUFFICES ASSUME NEW i \in Msg
             PROVE  ResultStatus(i)'
                      = IF i = id THEN "COMPLETED" ELSE ResultStatus(i)
  OBVIOUS
<1>1. i \in TaskIds' <=> i \in TaskIds
  BY DEF Tracks, TaskIds
<1>2. CASE i = id
  <2>1. \E t \in tasks' : t.id = i /\ t.completed = "date"
    BY <1>2 DEF Tracks, TaskIds
  <2> QED
    BY <1>1, <1>2, <2>1 DEF ResultStatus, Waiting
<1>3. CASE i # id
  <2>1. (\E t \in tasks : t.id = i /\ ~Waiting(t))'
          <=> \E t \in tasks : t.id = i /\ ~Waiting(t)
    BY <1>3 DEF Tracks, Waiting
  <2> QED
    BY <1>1, <1>3, <2>1 DEF ResultStatus
<1> QED
  BY <1>2, <1>3

\* A result completes the task, or moves its id without completing it.
LEMMA ResultStep ==
  ASSUME NEW id \in Msg, id \in TaskIds, NEW dated \in BOOLEAN,
         Tracks(tasks, tasks', id, dated), MoveToCompleted(id)
  PROVE  [Lifecycle!Next]_[i \in Msg |-> Status(i)]
<1>1. ResultStatus(id) \in {"PENDING", "COMPLETED"}
  BY DEF ResultStatus
<1>2. pending' = pending \ {id}
  BY DEF MoveToCompleted
<1>3. CASE dated
  <2>1. \A i \in Msg :
          ResultStatus(i)' = IF i = id THEN "COMPLETED" ELSE ResultStatus(i)
    BY <1>3, StatusCompleted
  <2>2. \A i \in Msg : Status(i)' = IF i = id THEN "COMPLETED" ELSE Status(i)
    BY <1>2, <2>1 DEF Status
  <2>3. CASE Status(id) \in {"PENDING", "UNDATED"}
    BY <2>2, <2>3 DEF Lifecycle!Next, Lifecycle!Complete
  <2>4. CASE Status(id) = "COMPLETED"
    BY <2>2, <2>4
  <2> QED
    BY <1>1, <2>3, <2>4 DEF Status
<1>4. CASE ~dated
  <2>1. \A i \in Msg : ResultStatus(i)' = ResultStatus(i)
    BY <1>4, StatusMoved
  <2>2. \A i \in Msg : i # id => Status(i)' = Status(i)
    BY <1>2, <2>1 DEF Status
  <2>3. CASE Status(id) = "PENDING"
    <3>1. Status(id)' = "UNDATED"
      BY <1>1, <1>2, <2>1, <2>3 DEF Status
    <3> QED
      BY <2>2, <2>3, <3>1 DEF Lifecycle!Next, Lifecycle!Interrupt
  <2>4. CASE Status(id) # "PENDING"
    <3>1. Status(id)' = Status(id)
      BY <1>1, <1>2, <2>1, <2>4 DEF Status
    <3> QED
      BY <2>2, <3>1
  <2> QED
    BY <2>3, <2>4
<1> QED
  BY <1>3, <1>4

\* A request submits a task that is unknown or whose result had no date, or
\* leaves it as it is.
LEMMA RequestStep ==
  ASSUME NEW id \in Msg, NEW e, SaveRequest(id, e)
  PROVE  [Lifecycle!Next]_[i \in Msg |-> Status(i)]
<1> DEFINE t == [id |-> id, eid |-> e, completed |-> "not_a_date_time"]
<1>1. tasks' = (IF id \in TaskIds THEN tasks ELSE tasks \cup {t})
      /\ t.id = id /\ Waiting(t)
  BY DEF SaveRequest, Insert, Waiting
<1>2. pending' = pending \cup {id}
  BY DEF SaveRequest
<1> HIDE DEF t
<1>3. \A i \in Msg : i # id => ResultStatus(i)' = ResultStatus(i)
  BY <1>1 DEF ResultStatus, TaskIds
<1>4. \A i \in Msg : i # id => Status(i)' = Status(i)
  BY <1>2, <1>3 DEF Status
<1>5. CASE ResultStatus(id) = "COMPLETED"
  <2>0. tasks' = tasks
    BY <1>1, <1>5 DEF ResultStatus
  <2>1. ResultStatus(id)' = "COMPLETED"
    BY <1>5, <2>0 DEF ResultStatus, TaskIds
  <2>2. Status(id)' = Status(id)
    BY <1>5, <2>1 DEF Status
  <2> QED
    BY <1>4, <2>2
<1>6. CASE ResultStatus(id) # "COMPLETED"
  <2>1. ResultStatus(id)' = "PENDING"
    BY <1>1, <1>6 DEF ResultStatus, TaskIds
  <2>2. Status(id)' = "PENDING"
    BY <1>2, <2>1 DEF Status
  <2>3. Status(id) \in {"unknown", "UNDATED", "PENDING"}
    BY <1>6 DEF ResultStatus, Status
  <2>4. CASE Status(id) \in {"unknown", "UNDATED"}
    BY <1>4, <2>2, <2>4 DEF Lifecycle!Next, Lifecycle!Submit
  <2>5. CASE Status(id) = "PENDING"
    BY <1>4, <2>2, <2>5
  <2> QED
    BY <2>3, <2>4, <2>5
<1> QED
  BY <1>5, <1>6

\* A purge by ids forgets only tasks that are not pending.
LEMMA PurgeStep ==
  ASSUME NEW ids \in SUBSET Msg, NEW done \in SUBSET ids,
         PurgeResults(ids, done)
  PROVE  Lifecycle!Next
<1>1. /\ tasks' = {t \in tasks : t.id \notin done}
      /\ done \cap pending = {} /\ pending' = pending
  BY DEF PurgeResults, Erase
<1>2. \A i \in done : Status(i) # "PENDING"
  BY <1>1 DEF Status
<1>3. \A i \in Msg :
        ResultStatus(i)' = IF i \in done THEN "unknown" ELSE ResultStatus(i)
  BY <1>1 DEF ResultStatus, TaskIds
<1>4. \A i \in Msg :
        Status(i)' = IF i \in done THEN "unknown" ELSE Status(i)
  BY <1>1, <1>3 DEF Status
<1>5. Lifecycle!Purge(done)
  BY <1>2, <1>4 DEF Lifecycle!Purge
<1> QED
  BY <1>5 DEF Lifecycle!Next

\* What get_results answers about an id follows TaskLifecycle: unknown,
\* PENDING, COMPLETED, and back to unknown only by a purge.
THEOREM TrackerImplementsLifecycle == Spec => ImplementsLifecycle
<1>1. Init => Lifecycle!Init
  BY DEF Init, Lifecycle!Init, Status, ResultStatus, TaskIds
<1>2. IInv /\ [Next]_taskVars
        => [Lifecycle!Next]_[id \in Msg |-> Status(id)]
  <2> DEFINE status == [id \in Msg |-> Status(id)]
  <2> SUFFICES ASSUME IInv, [Next]_taskVars
               PROVE  [Lifecycle!Next]_status
    OBVIOUS
  <2>0. TypeOK
    BY DEF IInv
  <2> HIDE DEF status
  <2>1. ASSUME NEW id \in MuxMsg, NEW e \in Eid, SaveQueueRequest(id, e)
        PROVE  [Lifecycle!Next]_status
    BY <2>1, RequestStep DEF SaveQueueRequest, Msg, status
  <2>2. ASSUME NEW id \in MuxMsg, NEW dated \in BOOLEAN,
               SaveQueueResult(id, dated)
        PROVE  [Lifecycle!Next]_status
    <3>1. Tracks(tasks, tasks', id, dated)
      BY <2>0, <2>2, QueueResultTracks
    <3> QED
      BY <2>2, <3>1, ResultStep DEF SaveQueueResult, Msg, status
  <2>3. ASSUME NEW id \in TaskMsg, NEW e \in Eid \cup {NoEid},
               SaveTaskRequest(id, e)
        PROVE  [Lifecycle!Next]_status
    BY <2>3, RequestStep DEF SaveTaskRequest, Msg, status
  <2>4. ASSUME NEW id \in TaskMsg, NEW e \in Eid, NEW dated \in BOOLEAN,
               NEW started \in BOOLEAN, SaveTaskResult(id, e, dated, started)
        PROVE  [Lifecycle!Next]_status
    <3>1. Tracks(tasks, tasks', id, dated)
      BY <2>0, <2>4, TaskResultTracks
    <3> QED
      BY <2>4, <3>1, ResultStep DEF SaveTaskResult, Msg, status
  <2>5. ASSUME NEW id \in TaskMsg, NEW e \in Eid, SaveTaskDestination(id, e)
        PROVE  [Lifecycle!Next]_status
    <3>1. Tracks(tasks, tasks', id, FALSE)
      BY <2>0, <2>5, MovedTracks DEF SaveTaskDestination, TypeOK, IdsUnique
    <3>2. \A i \in Msg : ResultStatus(i)' = ResultStatus(i)
      BY <3>1, StatusMoved
    <3>3. \A i \in Msg : Status(i)' = Status(i)
      BY <2>5, <3>2 DEF SaveTaskDestination, Status
    <3> QED
      BY <3>3 DEF status
  <2>6. CASE PurgeAll
    <3>1. \A i \in Msg : Status(i)' = "unknown"
      BY <2>6 DEF PurgeAll, Status, ResultStatus, TaskIds
    <3>2. Lifecycle!PurgeAll
      BY <3>1 DEF Lifecycle!PurgeAll
    <3> QED
      BY <3>2 DEF Lifecycle!Next
  <2>7. ASSUME NEW ids \in SUBSET Msg, NEW done \in SUBSET ids,
               PurgeResults(ids, done)
        PROVE  [Lifecycle!Next]_status
    BY <2>7, PurgeStep
  <2>8. CASE UNCHANGED taskVars
    BY <2>8 DEF taskVars, status, Status, ResultStatus, TaskIds
  <2> QED
    BY <2>1, <2>2, <2>3, <2>4, <2>5, <2>6, <2>7, <2>8 DEF Next
<1> QED
  BY <1>1, <1>2, InvCorrect, PTL DEF Spec, ImplementsLifecycle, Lifecycle!Spec
=============================================================================
