---------------------------- MODULE TaskLifecycle ----------------------------
(***************************************************************************)
(* What a client of the hub may conclude from get_results about one        *)
(* message id: it is unknown, PENDING or COMPLETED; it completes once and  *)
(* stays completed until it is purged; a pending task is forgotten only    *)
(* when everything is.  UNDATED is hidden from the client, who is told     *)
(* PENDING: a result arrived and could not be recorded.  Such a task is    *)
(* not waited for, so a purge may forget it; a later result completes it.  *)
(* TaskTracker implements this module.                                     *)
(***************************************************************************)

CONSTANT Msg

VARIABLE status

Status == {"unknown", "PENDING", "UNDATED", "COMPLETED"}

Init == status = [id \in Msg |-> "unknown"]

Submit(id) ==
  /\ status[id] \in {"unknown", "UNDATED"}
  /\ status' = [status EXCEPT ![id] = "PENDING"]

Complete(id) ==
  /\ status[id] \in {"PENDING", "UNDATED"}
  /\ status' = [status EXCEPT ![id] = "COMPLETED"]

Interrupt(id) ==
  /\ status[id] = "PENDING"
  /\ status' = [status EXCEPT ![id] = "UNDATED"]

Purge(S) ==
  /\ \A id \in S : status[id] # "PENDING"
  /\ status' = [id \in Msg |-> IF id \in S THEN "unknown" ELSE status[id]]

PurgeAll == status' = [id \in Msg |-> "unknown"]

Next ==
  \/ \E id \in Msg : Submit(id) \/ Complete(id) \/ Interrupt(id)
  \/ \E S \in SUBSET Msg : Purge(S)
  \/ PurgeAll

Spec == Init /\ [][Next]_status
=============================================================================
