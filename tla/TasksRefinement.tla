-------------------------- MODULE TasksRefinement --------------------------
(***************************************************************************)
(* Tasks implements TaskService: the row of a task is its status, whatever *)
(* its runtime record and the goroutines that race for the row are doing.  *)
(***************************************************************************)
EXTENDS Tasks

StatusOf(t) ==
    CASE rows[t] = None -> "absent"
      [] rows[t] = Gone -> "gone"
      [] IsOpen(t)      -> "open"
      [] OTHER          -> rows[t].status

Told(task, answer) ==
    CASE answer \in Open       -> [task |-> task, status |-> "open"]
      [] answer \in Terminal   -> [task |-> task, status |-> answer]
      [] answer = "notfound"   -> [task |-> task, status |-> "gone"]
      [] OTHER                 -> None

Service == INSTANCE TaskService WITH
    Calls   <- Submits \cup Cancels,
    status  <- [t \in TaskIds |-> StatusOf(t)],
    request <- [t \in TaskIds |-> IF Stored(t) THEN rows[t].key ELSE None],
    told    <- [c \in Submits \cup Cancels |->
                  IF c \in Submits THEN Told(subs[c].task, subs[c].answer)
                                   ELSE Told(cans[c].task, cans[c].answer)],
    failures <- clock.failures

(* Every behaviour of submissions, executions, cancellations, retention    *)
(* and restarts is one of the service: one task for a request id, one      *)
(* outcome for a task, and answers that say what is so, but for a stored   *)
(* task that is "not found" when the read of that very answer fails        *)
(* (SubmitTask, executeTask, CancelTask, getTaskByID, task.go).            *)
ImplementsService == Service!ServiceSpec

=============================================================================
