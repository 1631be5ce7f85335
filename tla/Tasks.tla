------------------------------- MODULE Tasks -------------------------------
(***************************************************************************)
(* Tasks of the console (console/internal/grpcserver/task.go): submission  *)
(* with a request id that makes it idempotent, the goroutine that executes *)
(* the task, cancellation, retention and the restart of the console.       *)
(*                                                                         *)
(* A task lives in two places that are never changed together: its row in  *)
(* SQLite, which decides its status, and its runtime record in s.tasks,    *)
(* whose context stops the execution and whose channel done wakes those    *)
(* who wait.  Every database statement and every critical section of       *)
(* tasksMu is a step of its own.                                           *)
(***************************************************************************)
EXTENDS Integers, FiniteSets

CONSTANTS TaskIds,      \* ids that newTaskIDFn draws
          Keys,         \* pairs of owner and request id
          Submits,      \* calls of SubmitTask
          Cancels,      \* calls of CancelTask
          None,
          Gone,         \* a row that was deleted
          Modes,        \* TaskMode values that are used
          Kinds,        \* "dispatch", and "immediate" for immediateResult
          Skews,        \* how far clocks of workers lag behind
          Retention,    \* taskRetention
          PruneInterval,\* inlineTaskPruneMinInterval
          MaxAttempts,  \* maxAttempts of dispatchCommand
          MaxFailures,  \* bound of the statements that fail
          MaxRestarts,  \* bound of the restarts
          MaxFaults,    \* bound of both together
          MaxTime       \* bound of the clock

VARIABLES rows,          \* the table tasks
          runtimes,      \* taskRecord of every task
          reservations,  \* taskRequestReservations
          execs,         \* goroutines of executeTask
          subs,          \* calls of SubmitTask
          cans,          \* calls of CancelTask
          clock          \* now, lastInlineTaskPruneUnixMs and the bounds

vars == <<rows, runtimes, reservations, execs, subs, cans, clock>>

-----------------------------------------------------------------------------
Open == {"queued", "dispatched", "running"}

Terminal == {"succeeded", "failed", "timeout", "canceled"}

(* A row; done is the console's time at which its outcome was known (a     *)
(* history of the model, not a column).                                    *)
Row == [key     : Keys \cup {None},
        status  : Open \cup Terminal,
        command : 0 .. MaxAttempts,
        expires : Int,
        done    : Nat]

(* taskRecord: "live" in s.tasks, "cancelled" in s.tasks with its context  *)
(* cancelled, "closed" removed with its context cancelled and done closed. *)
Runtime == {"unset", "live", "cancelled", "closed"}

Registered(t) == runtimes[t] \in {"live", "cancelled"}

(* The locals of executeTask: the status it is going to write, the time at *)
(* which the result came (None: the time of the write), how much the       *)
(* worker's completed_unix_ms lags, and what follows completeTaskRuntime.  *)
Exec == [pc      : {"none", "mark", "pick", "send", "sent", "abort", "wait",
                    "write", "complete", "fallback", "alarm", "end"},
         attempt : 0 .. MaxAttempts,
         want    : Terminal \cup {None},
         at      : Nat \cup {None},
         skew    : Skews \cup {0},
         then    : {"end", "fallback", "alarm"}]

NoExec == [pc |-> "none", attempt |-> 0, want |-> None, at |-> None,
           skew |-> 0, then |-> "end"]

Answers == Open \cup Terminal \cup {"busy", "error", "notfound"}

(* The locals of SubmitTask; runtime is whether it has a runtime record,   *)
(* held is requestReserved.                                                *)
Sub == [pc      : {"idle", "reserve", "lookup", "create", "immediate",
                   "load", "register", "runtime", "resolve", "wait", "read",
                   "done"},
        key     : Keys \cup {None},
        mode    : Modes \cup {None},
        kind    : Kinds \cup {None},
        task    : TaskIds \cup {None},
        runtime : BOOLEAN,
        held    : BOOLEAN,
        at      : Nat,
        answer  : Answers \cup {None}]

NoSub == [pc |-> "idle", key |-> None, mode |-> None, kind |-> None,
          task |-> None, runtime |-> FALSE, held |-> FALSE, at |-> 0,
          answer |-> None]

Can == [pc     : {"idle", "write", "complete", "read", "done"},
        task   : TaskIds \cup {None},
        wrote  : {"applied", "skipped", "failed"},
        answer : Answers \cup {None}]

NoCan == [pc |-> "idle", task |-> None, wrote |-> "skipped", answer |-> None]

Clock == [now      : 1 .. MaxTime + 1,
          pruned   : Nat,
          failures : 0 .. MaxFailures,
          restarts : 0 .. MaxRestarts]

ASSUME TasksAssumption ==
    /\ None # Gone /\ {None, Gone} \cap (TaskIds \cup Keys) = {}
    /\ None \notin Row \cup Answers /\ Gone \notin Row
    /\ Modes \subseteq {"sync", "async", "auto"}
    /\ Kinds \subseteq {"dispatch", "immediate"}
    /\ Skews \subseteq Nat
    /\ Retention \in Nat \ {0} /\ PruneInterval \in Nat \ {0}
    /\ MaxAttempts \in Nat \ {0}
    /\ {MaxFailures, MaxRestarts, MaxFaults, MaxTime} \subseteq Nat

Init ==
    /\ rows = [t \in TaskIds |-> None]
    /\ runtimes = [t \in TaskIds |-> "unset"]
    /\ reservations = {}
    /\ execs = [t \in TaskIds |-> NoExec]
    /\ subs = [q \in Submits |-> NoSub]
    /\ cans = [c \in Cancels |-> NoCan]
    /\ clock = [now |-> 1, pruned |-> 0, failures |-> 0, restarts |-> 0]

-----------------------------------------------------------------------------
(* The table tasks.                                                        *)

Stored(t) == rows[t] \notin {None, Gone}

IsOpen(t) == Stored(t) /\ rows[t].status \in Open

IsTerminal(t) == Stored(t) /\ rows[t].status \in Terminal

MoreFaults == clock.failures + clock.restarts < MaxFaults

(* A statement that fails changes no row.                                  *)
StatementFails ==
    /\ clock.failures < MaxFailures /\ MoreFaults
    /\ clock' = [clock EXCEPT !.failures = @ + 1]
    /\ UNCHANGED rows

(* Mutant: an UPDATE WHERE task_id = ? only.                               *)
UpdatableWhenStored(t) == Stored(t)

(* The guard of every UPDATE: status IN ('queued', 'dispatched',           *)
(* 'running').                                                             *)
Updatable(t) == IsOpen(t)

(* An UPDATE of the row of t to row: it is applied, it affects no row, or  *)
(* it fails.                                                               *)
Update(t, row, result) ==
    \/ /\ result = "applied"
       /\ Updatable(t)
       /\ rows' = [rows EXCEPT ![t] = row]
       /\ UNCHANGED clock
    \/ /\ result = "skipped"
       /\ ~ Updatable(t)
       /\ UNCHANGED <<rows, clock>>
    \/ /\ result = "failed"
       /\ StatementFails

(* The row that each statement writes.                                     *)
QueuedRow(key) ==
    [key |-> key, status |-> "queued", command |-> 0, expires |-> 0, done |-> 0]
DispatchedRow(row) == [row EXCEPT !.status = "dispatched"]
RunningRow(row, command) == [row EXCEPT !.status = "running", !.command = command]
TerminalRow(row, status, at, expires) ==
    [row EXCEPT !.status = status, !.expires = expires, !.done = at]

MarkTaskDispatched(t, result) == Update(t, DispatchedRow(rows[t]), result)

MarkTaskRunning(t, command, result) ==
    Update(t, RunningRow(rows[t], command), result)

(* Mutant: expires_at_unix_ms is not set.                                  *)
MarkTaskTerminalUndated(t, status, at, skew, result) ==
    Update(t, [rows[t] EXCEPT !.status = status, !.done = at], result)

(* completedAt is the time at, on a clock that lags by skew.               *)
MarkTaskTerminal(t, status, at, skew, result) ==
    Update(t, TerminalRow(rows[t], status, at, at - skew + Retention), result)

(* MarkNonTerminalTasksFailedOnStartup                                     *)
FailedOnStartup(t) ==
    IF IsOpen(t)
      THEN TerminalRow(rows[t], "failed", clock.now, clock.now + Retention)
      ELSE rows[t]

(* Mutant: a cut-off that lies ahead of the clock.                         *)
ExpiredEarly(t) == IsTerminal(t) /\ rows[t].expires <= clock.now + 1

(* status IN (...terminal...) AND expires_at_unix_ms > 0 AND               *)
(* expires_at_unix_ms <= now.                                              *)
Expired(t) ==
    IsTerminal(t) /\ rows[t].expires > 0 /\ rows[t].expires <= clock.now

(* DELETE FROM tasks.                                                      *)
DeleteExpiredTasks ==
    rows' = [t \in TaskIds |-> IF Expired(t) THEN Gone ELSE rows[t]]

(* maybePruneExpiredTasks: at most once per interval, counted from the     *)
(* last attempt.                                                           *)
MaybePruneExpiredTasks ==
    IF clock.pruned > 0 /\ clock.now - clock.pruned < PruneInterval
      THEN UNCHANGED <<rows, clock>>
      ELSE \/ /\ clock' = [clock EXCEPT !.pruned = clock.now]
              /\ DeleteExpiredTasks
           \/ /\ clock.failures < MaxFailures /\ MoreFaults
              /\ clock' = [clock EXCEPT !.pruned = clock.now, !.failures = @ + 1]
              /\ UNCHANGED rows

(* getTaskByID: a SELECT that fails reads as a row that is missing.        *)
GetTaskByID(t, answer) ==
    \/ /\ answer = IF Stored(t) THEN rows[t].status ELSE "notfound"
       /\ UNCHANGED <<rows, clock>>
    \/ /\ answer = "notfound"
       /\ StatementFails

(* Mutant: the channel done is left open.                                  *)
CancelTaskRuntime(t) ==
    runtimes' = [runtimes EXCEPT ![t] = IF @ = "live" THEN "cancelled" ELSE @]

(* finishTask removes the runtime record, cancels its context and closes   *)
(* its channel whatever the outcome of its statement.                      *)
CompleteTaskRuntime(t) ==
    runtimes' = [runtimes EXCEPT ![t] = IF @ = "unset" THEN @ ELSE "closed"]

-----------------------------------------------------------------------------
(* SubmitTask.                                                             *)

SubAt(q, pc) == subs[q].pc = pc

SubGoto(q, pc) == subs' = [subs EXCEPT ![q].pc = pc]

(* SubmitTask returns; the deferred function drops a reservation that is   *)
(* still held.                                                             *)
Return(q, answer) ==
    /\ subs' = [subs EXCEPT ![q].pc = "done", ![q].answer = answer,
                            ![q].held = FALSE]
    /\ reservations' = IF subs[q].held THEN reservations \ {subs[q].key}
                                       ELSE reservations

(* The request is valid; expired rows are pruned first.                    *)
SubmitTask(q, key, mode, kind) ==
    /\ SubAt(q, "idle")
    /\ MaybePruneExpiredTasks
    /\ subs' = [subs EXCEPT ![q] =
                  [NoSub EXCEPT !.pc = IF key = None THEN "create" ELSE "reserve",
                                !.key = key, !.mode = mode, !.kind = kind]]
    /\ UNCHANGED <<runtimes, reservations, execs, cans>>

(* A request id that another call reserved is answered with                *)
(* ErrTaskRequestInProgress.                                               *)
ReserveRequest(q) ==
    /\ SubAt(q, "reserve")
    /\ \/ /\ subs[q].key \in reservations
          /\ Return(q, "busy")
       \/ /\ subs[q].key \notin reservations
          /\ reservations' = reservations \cup {subs[q].key}
          /\ subs' = [subs EXCEPT ![q].pc = "lookup", ![q].held = TRUE]
    /\ UNCHANGED <<rows, runtimes, execs, cans, clock>>

RowsOf(key) == {t \in TaskIds : Stored(t) /\ rows[t].key = key}

(* getTaskByOwnerAndRequest: a read that fails finds nothing.              *)
LookUpRequest(q) ==
    /\ SubAt(q, "lookup")
    /\ \/ \E t \in RowsOf(subs[q].key) :
             /\ subs' = [subs EXCEPT ![q].pc = "runtime", ![q].task = t]
             /\ UNCHANGED <<rows, clock>>
       \/ /\ RowsOf(subs[q].key) = {}
          /\ SubGoto(q, "create")
          /\ UNCHANGED <<rows, clock>>
       \/ /\ StatementFails
          /\ SubGoto(q, "create")
    /\ UNCHANGED <<runtimes, reservations, execs, cans>>

(* Mutant: the join finds no runtime record.                               *)
JoinWithoutRuntime(q) ==
    /\ SubAt(q, "runtime")
    /\ SubGoto(q, "resolve")
    /\ UNCHANGED <<rows, runtimes, reservations, execs, cans, clock>>

(* getTaskRuntime of a task that exists already.                           *)
JoinRuntime(q) ==
    /\ SubAt(q, "runtime")
    /\ subs' = [subs EXCEPT ![q].pc = "resolve",
                            ![q].runtime = Registered(subs[q].task)]
    /\ UNCHANGED <<rows, runtimes, reservations, execs, cans, clock>>

(* No worker is available for the capability, or the INSERT fails, or the  *)
(* look-up that follows its conflict does.                                 *)
RefuseTask(q) ==
    /\ SubAt(q, "create")
    /\ Return(q, "error")
    /\ \/ subs[q].kind = "dispatch" /\ UNCHANGED <<rows, clock>>
       \/ StatementFails
    /\ UNCHANGED <<runtimes, execs, cans>>

(* Mutant: no unique index on owner_id and request_id.                     *)
NeverConflicts(key) == FALSE

(* idx_tasks_owner_request_unique.                                         *)
Conflicts(key) == key # None /\ RowsOf(key) # {}

(* InsertTask; on a conflict of the unique index the call joins the task   *)
(* that has the request id.                                                *)
InsertTask(q) ==
    /\ SubAt(q, "create")
    /\ \/ /\ ~ Conflicts(subs[q].key)
          /\ \E t \in TaskIds :
                /\ rows[t] = None
                /\ rows' = [rows EXCEPT ![t] = QueuedRow(subs[q].key)]
                /\ subs' = [subs EXCEPT ![q].task = t, ![q].at = clock.now,
                      ![q].pc = IF subs[q].kind = "immediate"
                                  THEN "immediate" ELSE "register"]
       \/ /\ Conflicts(subs[q].key)
          /\ \E t \in RowsOf(subs[q].key) :
                subs' = [subs EXCEPT ![q].pc = "runtime", ![q].task = t]
          /\ UNCHANGED rows
    /\ UNCHANGED <<runtimes, reservations, execs, cans, clock>>

(* A task with an immediate result has no runtime record: when the         *)
(* statement fails, its row stays queued.                                  *)
FinishImmediate(q) ==
    /\ SubAt(q, "immediate")
    /\ \E result \in {"applied", "skipped", "failed"} :
          /\ MarkTaskTerminal(subs[q].task, "succeeded", subs[q].at, 0, result)
          /\ IF result = "applied"
               THEN /\ subs' = [subs EXCEPT ![q].pc = "load", ![q].held = FALSE]
                    /\ reservations' = reservations \ {subs[q].key}
               ELSE Return(q, "error")
    /\ UNCHANGED <<runtimes, execs, cans>>

(* A completed task that cannot be read again is an internal error.        *)
LoadCompleted(q) ==
    /\ SubAt(q, "load")
    /\ \E answer \in Answers :
          /\ GetTaskByID(subs[q].task, answer)
          /\ Return(q, IF answer = "notfound" THEN "error" ELSE answer)
    /\ UNCHANGED <<runtimes, execs, cans>>

(* setTaskRuntime, the end of the reservation and go executeTask.          *)
StartTask(q) ==
    /\ SubAt(q, "register")
    /\ runtimes' = [runtimes EXCEPT ![subs[q].task] = "live"]
    /\ reservations' = reservations \ {subs[q].key}
    /\ execs' = [execs EXCEPT ![subs[q].task].pc = "mark"]
    /\ subs' = [subs EXCEPT ![q].pc = "resolve", ![q].held = FALSE,
                            ![q].runtime = TRUE]
    /\ UNCHANGED <<rows, cans, clock>>

(* resolveSubmitTaskResult up to its wait.                                 *)
ResolveSubmit(q) ==
    /\ SubAt(q, "resolve")
    /\ \E answer \in Answers :
          /\ GetTaskByID(subs[q].task, answer)
          /\ IF subs[q].mode = "async" \/ answer \notin Open
               THEN Return(q, answer)
               ELSE /\ SubGoto(q, IF subs[q].runtime THEN "wait" ELSE "read")
                    /\ UNCHANGED reservations
    /\ UNCHANGED <<runtimes, execs, cans>>

(* waitDone: done is closed, or the timer of mode auto fires.              *)
WakeSubmit(q) ==
    /\ SubAt(q, "wait")
    /\ subs[q].mode # "auto" => runtimes[subs[q].task] = "closed"
    /\ SubGoto(q, "read")
    /\ UNCHANGED <<rows, runtimes, reservations, execs, cans, clock>>

(* waitDone: the client has left.                                          *)
AbandonSubmit(q) ==
    /\ SubAt(q, "wait")
    /\ Return(q, "error")
    /\ UNCHANGED <<rows, runtimes, execs, cans, clock>>

AnswerSubmit(q) ==
    /\ SubAt(q, "read")
    /\ \E answer \in Answers :
          GetTaskByID(subs[q].task, answer) /\ Return(q, answer)
    /\ UNCHANGED <<runtimes, execs, cans>>

-----------------------------------------------------------------------------
(* executeTask.                                                            *)

ExecAt(t, pc) == execs[t].pc = pc

ExecGoto(t, pc) == execs' = [execs EXCEPT ![t].pc = pc]

(* The task is to be finished with a status.                               *)
ExecFinish(t, status, at, skew) ==
    execs' = [execs EXCEPT ![t].pc = "write", ![t].want = status,
                           ![t].at = at, ![t].skew = skew]

(* markTaskDispatched: a task that is terminal is left alone.              *)
ExecMarkDispatched(t) ==
    /\ ExecAt(t, "mark")
    /\ \E result \in {"applied", "skipped", "failed"} :
          /\ MarkTaskDispatched(t, result)
          /\ ExecGoto(t, CASE result = "applied" -> "pick"
                           [] result = "skipped" -> "end"
                           [] result = "failed"  -> "fallback")
    /\ UNCHANGED <<runtimes, reservations, subs, cans>>

(* The head of the loop of dispatchCommand tests the context.              *)
ExecPick(t) ==
    /\ ExecAt(t, "pick")
    /\ IF runtimes[t] = "live"
         THEN ExecGoto(t, "send")
         ELSE ExecFinish(t, "canceled", None, 0)
    /\ UNCHANGED <<rows, runtimes, reservations, subs, cans, clock>>

(* A command is enqueued, or no worker takes it: with an earlier           *)
(* rejection, an error of the worker or none at all the task fails, and    *)
(* its context may have ended meanwhile.                                   *)
ExecSend(t) ==
    /\ ExecAt(t, "send")
    /\ \/ execs' = [execs EXCEPT ![t].pc = "sent", ![t].attempt = @ + 1]
       \/ ExecFinish(t, "failed", None, 0)
       \/ ExecFinish(t, "timeout", None, 0)
       \/ runtimes[t] # "live" /\ ExecFinish(t, "canceled", None, 0)
    /\ UNCHANGED <<rows, runtimes, reservations, subs, cans, clock>>

(* onDispatched: markTaskRunning.                                          *)
ExecMarkRunning(t) ==
    /\ ExecAt(t, "sent")
    /\ \E result \in {"applied", "skipped", "failed"} :
          /\ MarkTaskRunning(t, execs[t].attempt, result)
          /\ execs' = [execs EXCEPT
                ![t].pc = IF result = "applied" THEN "wait" ELSE "abort",
                ![t].then = IF result = "failed" THEN "fallback" ELSE "end"]
    /\ UNCHANGED <<runtimes, reservations, subs, cans>>

(* onDispatched: the context of a task that could not be marked is         *)
(* cancelled, if its record is still in s.tasks.                           *)
ExecAbort(t) ==
    /\ ExecAt(t, "abort")
    /\ runtimes' = [runtimes EXCEPT ![t] = IF @ = "live" THEN "cancelled" ELSE @]
    /\ ExecGoto(t, execs[t].then)
    /\ UNCHANGED <<rows, reservations, subs, cans, clock>>

(* The result of the command: a payload, whose owner scope may be invalid, *)
(* with the worker's completion time; an error; a rejection for capacity   *)
(* that another worker may take; the deadline; the cancellation.           *)
ExecResult(t) ==
    /\ ExecAt(t, "wait")
    /\ \/ \E status \in {"succeeded", "failed"}, skew \in Skews :
             ExecFinish(t, status, clock.now, skew)
       \/ ExecFinish(t, "failed", None, 0)
       \/ execs[t].attempt < MaxAttempts /\ ExecGoto(t, "pick")
       \/ ExecFinish(t, "timeout", None, 0)
       \/ runtimes[t] # "live" /\ ExecFinish(t, "canceled", None, 0)
    /\ UNCHANGED <<rows, runtimes, reservations, subs, cans, clock>>

(* Mutant: a statement that fails is only logged.                          *)
AfterWriteUnhandled(result) == "end"

(* ErrTaskTransitionNotApplied ends executeTask, an error of the database  *)
(* leads to failTaskOnPersistenceError.                                    *)
AfterWrite(result) == IF result = "failed" THEN "fallback" ELSE "end"

(* finishTask: the statement.                                              *)
ExecWrite(t) ==
    /\ ExecAt(t, "write")
    /\ \E result \in {"applied", "skipped", "failed"} :
          /\ MarkTaskTerminal(t, execs[t].want,
                IF execs[t].at = None THEN clock.now ELSE execs[t].at,
                execs[t].skew, result)
          /\ execs' = [execs EXCEPT ![t].pc = "complete",
                                    ![t].then = AfterWrite(result)]
    /\ UNCHANGED <<runtimes, reservations, subs, cans>>

(* failTaskOnPersistenceError: the statement of its finishTask.  Anything  *)
(* but success calls criticalPersistenceFailureFn.                         *)
ExecFallback(t) ==
    /\ ExecAt(t, "fallback")
    /\ \E result \in {"applied", "skipped", "failed"} :
          /\ MarkTaskTerminal(t, "failed", clock.now, 0, result)
          /\ execs' = [execs EXCEPT ![t].pc = "complete",
                ![t].then = IF result = "applied" THEN "end" ELSE "alarm"]
    /\ UNCHANGED <<runtimes, reservations, subs, cans>>

(* finishTask: completeTaskRuntime.                                        *)
ExecComplete(t) ==
    /\ ExecAt(t, "complete")
    /\ CompleteTaskRuntime(t)
    /\ ExecGoto(t, execs[t].then)
    /\ UNCHANGED <<rows, reservations, subs, cans, clock>>

(* criticalPersistenceFailureFn, which does nothing by default.            *)
ExecAlarm(t) ==
    /\ ExecAt(t, "alarm")
    /\ ExecGoto(t, "end")
    /\ UNCHANGED <<rows, runtimes, reservations, subs, cans, clock>>

-----------------------------------------------------------------------------
(* CancelTask.  A client knows the ids that SubmitTask answered.           *)

Known == {subs[q].task : q \in {p \in Submits :
             SubAt(p, "done") /\ subs[p].answer \in Open \cup Terminal}}

CancelReturn(c, answer) ==
    cans' = [cans EXCEPT ![c].pc = "done", ![c].answer = answer]

(* A task that is not found or that is terminal ends the call.             *)
CancelTask(c, t) ==
    /\ cans[c].pc = "idle"
    /\ t \in Known
    /\ \E answer \in Answers :
          /\ GetTaskByID(t, answer)
          /\ cans' = [cans EXCEPT ![c] =
                IF answer \in Open
                  THEN [NoCan EXCEPT !.pc = "write", !.task = t]
                  ELSE [NoCan EXCEPT !.pc = "done", !.task = t, !.answer = answer]]
    /\ UNCHANGED <<runtimes, reservations, execs, subs>>

CancelWrite(c) ==
    /\ cans[c].pc = "write"
    /\ \E result \in {"applied", "skipped", "failed"} :
          /\ MarkTaskTerminal(cans[c].task, "canceled", clock.now, 0, result)
          /\ cans' = [cans EXCEPT ![c].pc = "complete", ![c].wrote = result]
    /\ UNCHANGED <<runtimes, reservations, execs, subs>>

(* Mutant: the record is left to executeTask.                              *)
CancelLeavesRuntime(c) ==
    /\ cans[c].pc = "complete"
    /\ cans' = [cans EXCEPT ![c].pc = "read"]
    /\ UNCHANGED <<rows, runtimes, reservations, execs, subs, clock>>

CancelComplete(c) ==
    /\ cans[c].pc = "complete"
    /\ CompleteTaskRuntime(cans[c].task)
    /\ cans' = [cans EXCEPT ![c].pc = "read"]
    /\ UNCHANGED <<rows, reservations, execs, subs, clock>>

(* The row is read again, unless the statement has failed.                 *)
CancelAnswer(c) ==
    /\ cans[c].pc = "read"
    /\ \/ /\ cans[c].wrote = "failed"
          /\ CancelReturn(c, "error")
          /\ UNCHANGED <<rows, clock>>
       \/ /\ cans[c].wrote # "failed"
          /\ \E answer \in Answers :
                GetTaskByID(cans[c].task, answer) /\ CancelReturn(c, answer)
    /\ UNCHANGED <<runtimes, reservations, execs, subs>>

-----------------------------------------------------------------------------
(* The console stops at any point and starts again: what it kept in memory *)
(* is lost, clients get no answer, and persistence.Open fails the tasks    *)
(* that are not terminal (MarkNonTerminalTasksFailedOnStartup).            *)
RestartConsole ==
    /\ clock.restarts < MaxRestarts /\ MoreFaults
    /\ clock' = [clock EXCEPT !.restarts = @ + 1, !.pruned = 0]
    /\ rows' = [t \in TaskIds |-> FailedOnStartup(t)]
    /\ runtimes' = [t \in TaskIds |->
                      IF runtimes[t] = "unset" THEN "unset" ELSE "closed"]
    /\ reservations' = {}
    /\ execs' = [t \in TaskIds |->
                   IF ExecAt(t, "none") THEN NoExec ELSE [NoExec EXCEPT !.pc = "end"]]
    /\ subs' = [q \in Submits |->
                  IF subs[q].pc \in {"idle", "done"} THEN subs[q]
                    ELSE [subs[q] EXCEPT !.pc = "done", !.answer = "error",
                                         !.held = FALSE]]
    /\ cans' = [c \in Cancels |->
                  IF cans[c].pc \in {"idle", "done"} THEN cans[c]
                    ELSE [cans[c] EXCEPT !.pc = "done", !.answer = "error"]]

(* startTaskPruner: every minute; a pass that finds nothing is a stutter.  *)
PruneExpiredTasks ==
    /\ \E t \in TaskIds : Expired(t)
    /\ DeleteExpiredTasks
    /\ UNCHANGED <<runtimes, reservations, execs, subs, cans, clock>>

Tick ==
    /\ clock.now < MaxTime
    /\ clock' = [clock EXCEPT !.now = @ + 1]
    /\ UNCHANGED <<rows, runtimes, reservations, execs, subs, cans>>

SubmitStep(q) ==
    \/ ReserveRequest(q) \/ LookUpRequest(q) \/ JoinRuntime(q)
    \/ RefuseTask(q) \/ InsertTask(q) \/ FinishImmediate(q) \/ LoadCompleted(q)
    \/ StartTask(q) \/ ResolveSubmit(q) \/ WakeSubmit(q) \/ AnswerSubmit(q)

ExecStep(t) ==
    \/ ExecMarkDispatched(t) \/ ExecPick(t) \/ ExecSend(t)
    \/ ExecMarkRunning(t) \/ ExecAbort(t) \/ ExecResult(t)
    \/ ExecWrite(t) \/ ExecFallback(t) \/ ExecComplete(t) \/ ExecAlarm(t)

CancelStep(c) == CancelWrite(c) \/ CancelComplete(c) \/ CancelAnswer(c)

Next ==
    \/ \E q \in Submits, key \in Keys \cup {None}, mode \in Modes, kind \in Kinds :
          SubmitTask(q, key, mode, kind)
    \/ \E q \in Submits : SubmitStep(q) \/ AbandonSubmit(q)
    \/ \E t \in TaskIds : ExecStep(t)
    \/ \E c \in Cancels, t \in TaskIds : CancelTask(c, t)
    \/ \E c \in Cancels : CancelStep(c)
    \/ RestartConsole
    \/ PruneExpiredTasks
    \/ Tick

Spec == Init /\ [][Next]_vars

(* Goroutines that can proceed do; a command that was sent ends at its     *)
(* deadline at the latest; the pruner ticks; time passes.  Nobody has to   *)
(* submit or cancel, no client has to leave, no console has to restart.    *)
FairSpec ==
    /\ Spec
    /\ \A q \in Submits : WF_vars(SubmitStep(q))
    /\ \A t \in TaskIds : WF_vars(ExecStep(t))
    /\ \A c \in Cancels : WF_vars(CancelStep(c))
    /\ WF_vars(PruneExpiredTasks)
    /\ WF_vars(Tick)

-----------------------------------------------------------------------------
TypeOK ==
    /\ rows \in [TaskIds -> Row \cup {None, Gone}]
    /\ runtimes \in [TaskIds -> Runtime]
    /\ reservations \subseteq Keys
    /\ execs \in [TaskIds -> Exec]
    /\ subs \in [Submits -> Sub]
    /\ cans \in [Cancels -> Can]
    /\ clock \in Clock

(* A task reaches one terminal status and keeps it, with its command,      *)
(* until its row is deleted: completion, time-out, cancellation, the       *)
(* fallback and the restart race for a row, and the late ones lose.        *)
TerminalFinal ==
    [][\A t \in TaskIds : IsTerminal(t) => rows'[t] \in {rows[t], Gone}]_vars

(* "request_id: optional dedupe key" (docs/API.md:934): calls with one     *)
(* request id are given one task, for as long as its row is kept, also     *)
(* when the look-up of the request id fails.                               *)
SameRequestSameTask ==
    \A p, q \in Submits :
       /\ subs[p].key # None /\ subs[p].key = subs[q].key
       /\ subs[p].task # None /\ subs[q].task # None
       /\ Stored(subs[p].task) /\ Stored(subs[q].task)
       => subs[p].task = subs[q].task

(* A call in mode sync that is answered with a task is answered with a     *)
(* task that is complete, whether it created the task or joined it, as     *)
(* long as no statement fails.                                             *)
SyncAnswersComplete ==
    clock.failures = 0 =>
       \A q \in Submits : subs[q].mode = "sync" => subs[q].answer \notin Open

(* A runtime record does not outlive the execution of its task: when       *)
(* executeTask returns because another call finished the task, that call   *)
(* removes the record.                                                     *)
RuntimeReleased ==
    \A t \in TaskIds :
       Registered(t) => \/ ~ ExecAt(t, "end")
                        \/ \E c \in Cancels : /\ cans[c].task = t
                                              /\ cans[c].pc = "complete"

(* "terminal tasks are retained for CONSOLE_TASK_RETENTION_DAYS"           *)
(* (console/README.md:292): a row is deleted only when its retention is    *)
(* over, counted from when the console knew the outcome.                   *)
RetentionKept ==
    [][\A t \in TaskIds :
         (Stored(t) /\ rows'[t] = Gone) =>
            IsTerminal(t) /\ rows[t].done + Retention <= clock.now]_vars

(* Everyone who waits for a task is answered.                              *)
WaitersAnswered ==
    \A q \in Submits : SubAt(q, "wait") ~> SubAt(q, "done")

(* Every task that was handed to executeTask becomes terminal, even when   *)
(* one statement fails: the fallback of executeTask records the failure.   *)
TasksSettle ==
    \A t \in TaskIds : (IsOpen(t) /\ ~ ExecAt(t, "none")) ~> ~ IsOpen(t)

(* "cleaned by periodic pruner" (console/README.md:292): the row of a      *)
(* task whose retention is over is deleted, also when nobody submits a     *)
(* task any more.                                                          *)
ExpiredCleaned ==
    \A t \in TaskIds :
       (IsTerminal(t) /\ rows[t].done + Retention <= clock.now) ~> rows[t] = Gone

(* TestFailTaskOnPersistenceErrorTriggersCriticalHookWhenFallbackAlsoFails *)
(* (task_persistence_test.go:141): the critical hook is for a task that    *)
(* could not be made terminal.                                             *)
AlarmMeansStranded ==
    [][\A t \in TaskIds :
         (ExecAt(t, "fallback") /\ execs'[t].then = "alarm") => IsOpen(t)]_vars

=============================================================================
