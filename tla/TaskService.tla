---------------------------- MODULE TaskService ----------------------------
(***************************************************************************)
(* What the console promises of tasks, without rows, runtime records or    *)
(* goroutines: a task is open until it has one outcome, the outcome stays  *)
(* until the task is forgotten, a request id belongs to one task at a      *)
(* time, and a call is told of a task what is true of it when the call is  *)
(* answered.  The one exception is a task that is called gone although it  *)
(* is kept: each such answer takes a failure of the storage of its own.    *)
(***************************************************************************)
EXTENDS Naturals

CONSTANTS TaskIds,  \* ids of tasks
          Keys,     \* pairs of owner and request id
          Calls,    \* submissions and cancellations
          None

VARIABLES status,   \* of every task
          request,  \* the request id of a task that is kept, or None
          told,     \* what a call was told of which task, or None
          failures  \* how often the storage has failed

serviceVars == <<status, request, told, failures>>

Outcomes == {"succeeded", "failed", "timeout", "canceled"}

ServiceInit ==
    /\ status = [t \in TaskIds |-> "absent"]
    /\ request = [t \in TaskIds |-> None]
    /\ told = [c \in Calls |-> None]
    /\ failures = 0

Accept(t) ==
    /\ status[t] = "absent"
    /\ status' = [status EXCEPT ![t] = "open"]
    /\ \E key \in Keys \cup {None} :
         /\ key # None => \A u \in TaskIds : request[u] # key
         /\ request' = [request EXCEPT ![t] = key]
    /\ UNCHANGED <<told, failures>>

Settle(t) ==
    /\ status[t] = "open"
    /\ \E outcome \in Outcomes : status' = [status EXCEPT ![t] = outcome]
    /\ UNCHANGED <<request, told, failures>>

(* The service starts anew: no open task is left behind.                   *)
FailOpen ==
    /\ status' = [t \in TaskIds |-> IF status[t] = "open" THEN "failed" ELSE status[t]]
    /\ UNCHANGED <<request, told, failures>>

Forget(S) ==
    /\ \A t \in S : status[t] \in Outcomes
    /\ status' = [t \in TaskIds |-> IF t \in S THEN "gone" ELSE status[t]]
    /\ request' = [t \in TaskIds |-> IF t \in S THEN None ELSE request[t]]
    /\ UNCHANGED <<told, failures>>

Tell(c) ==
    /\ told[c] = None
    /\ \E t \in TaskIds :
         /\ status[t] # "absent"
         /\ told' = [told EXCEPT ![c] = [task |-> t, status |-> status[t]]]
    /\ UNCHANGED <<status, request, failures>>

(* A failure of the storage, which changes no task; a call whose read      *)
(* fails is told that its task is gone.                                    *)
Fail ==
    /\ failures' = failures + 1
    /\ UNCHANGED <<status, request, told>>

Misread(c) ==
    /\ told[c] = None
    /\ \E t \in TaskIds :
         /\ status[t] # "absent"
         /\ told' = [told EXCEPT ![c] = [task |-> t, status |-> "gone"]]
    /\ failures' = failures + 1
    /\ UNCHANGED <<status, request>>

ServiceNext ==
    \/ \E S \in SUBSET TaskIds : Forget(S)
    \/ \E t \in TaskIds : Accept(t) \/ Settle(t)
    \/ \E c \in Calls : Tell(c) \/ Misread(c)
    \/ FailOpen \/ Fail

ServiceSpec == ServiceInit /\ [][ServiceNext]_serviceVars

(* An outcome that anybody was told is the outcome of the task for ever.   *)
ToldForGood ==
    \A c \in Calls : told[c] # None =>
        (told[c].status \in Outcomes =>
            status[told[c].task] \in {told[c].status, "gone"})
=============================================================================
