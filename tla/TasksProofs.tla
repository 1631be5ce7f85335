---------------------------- MODULE TasksProofs ----------------------------
(***************************************************************************)
(* What Tasks keeps, for any tasks, request ids, calls, retention and any  *)
(* number of failing statements and restarts: one task per request id,     *)
(* complete answers, and runtime records that end with their execution.    *)
(***************************************************************************)
EXTENDS Tasks, TLAPS

(* The locals of executeTask, SubmitTask and CancelTask are set when they  *)
(* are used, and a call has an answer only at its end.                     *)
ExecShape(e) ==
    /\ e.pc = "none" => e = NoExec
    /\ e.pc \in {"mark", "pick", "send"} => e.attempt < MaxAttempts
    /\ e.pc = "write" => e.want \in Terminal

SubShape(r) ==
    /\ r.pc \in {"immediate", "load", "register", "runtime", "resolve", "wait", "read"}
          => r.task # None
    /\ r.pc \in {"reserve", "lookup", "runtime"} => r.key # None
    /\ r.pc # "done" => r.answer = None
    /\ r.pc \in {"idle", "done"} => ~ r.held

CanShape(r) ==
    /\ r.pc \in {"write", "complete", "read"} => r.task # None
    /\ r.pc # "done" => r.answer = None

Shaped ==
    /\ TypeOK
    /\ \A t \in TaskIds : ExecShape(execs[t])
    /\ \A q \in Submits : SubShape(subs[q])
    /\ \A c \in Cancels : CanShape(cans[c])

(* A task that was created and is not open any more.                       *)
Settled(t) == rows[t] # None /\ ~ IsOpen(t)

(* The call is about to hand its new task to executeTask or to finish it.  *)
Creating(q) == subs[q].pc \in {"immediate", "register"}

(* Nobody but the creating call knows its task.                            *)
OwnTask(q) ==
    /\ IsOpen(subs[q].task) /\ runtimes[subs[q].task] = "unset"
    /\ \A p \in Submits : subs[p].task = subs[q].task => p = q
    /\ \A c \in Cancels : cans[c].task # subs[q].task

SubInv(q) ==
    /\ subs[q].task # None =>
         /\ rows[subs[q].task] # None
         /\ Stored(subs[q].task) => rows[subs[q].task].key = subs[q].key
    /\ subs[q].held => subs[q].key \in reservations
    /\ subs[q].pc \in {"lookup", "runtime"} => subs[q].held
    /\ SubAt(q, "create") \/ Creating(q) => subs[q].held \/ subs[q].key = None
    /\ Creating(q) => OwnTask(q)

Finishing(t) ==
    \/ ExecAt(t, "complete")
    \/ \E c \in Cancels : cans[c].task = t /\ cans[c].pc = "complete"

ExecInv(t) ==
    /\ ExecAt(t, "none") <=> runtimes[t] = "unset"
    /\ ~ ExecAt(t, "none") => rows[t] # None
    /\ ExecAt(t, "abort") => \/ execs[t].then = "fallback"
                             \/ execs[t].then = "end" /\ ~ IsOpen(t)
    /\ ExecAt(t, "alarm") => ~ Registered(t)
    /\ ExecAt(t, "end") /\ Registered(t) => ~ IsOpen(t)
    /\ Registered(t) /\ ~ IsOpen(t) => Finishing(t)

CanInv(c) == cans[c].task # None => rows[cans[c].task] # None

OneHolder ==
    \A p, q \in Submits :
       subs[p].held /\ subs[q].held /\ subs[p].key = subs[q].key => p = q

OneRowPerKey ==
    \A t, u \in TaskIds :
       /\ Stored(t) /\ Stored(u)
       /\ rows[t].key = rows[u].key /\ rows[t].key # None
       => t = u

(* As long as no statement has failed: an open task is being created or    *)
(* executed, and those who found no runtime record, or a closed one, found *)
(* a task that is settled.                                                 *)
CleanTask(t) ==
    /\ IsOpen(t) /\ runtimes[t] = "unset" =>
          \E q \in Submits : Creating(q) /\ subs[q].task = t
    /\ runtimes[t] = "closed" \/ ExecAt(t, "complete") => Settled(t)
    /\ execs[t].pc \notin {"fallback", "alarm"}
    /\ execs[t].pc \in {"abort", "complete"} => execs[t].then = "end"

CleanCan(c) == cans[c].pc = "complete" => Settled(cans[c].task)

CleanSub(q) ==
    /\ SubAt(q, "resolve") /\ ~ subs[q].runtime => Settled(subs[q].task)
    /\ SubAt(q, "read") \/ SubAt(q, "load") =>
          (subs[q].mode = "sync" => Settled(subs[q].task))
    /\ subs[q].mode = "sync" => subs[q].answer \notin Open

Clean ==
    /\ \A t \in TaskIds : CleanTask(t)
    /\ \A c \in Cancels : CleanCan(c)
    /\ \A q \in Submits : CleanSub(q)

IInv ==
    /\ Shaped
    /\ \A q \in Submits : SubInv(q)
    /\ \A t \in TaskIds : ExecInv(t)
    /\ \A c \in Cancels : CanInv(c)
    /\ OneHolder
    /\ OneRowPerKey
    /\ clock.failures = 0 => Clean

-----------------------------------------------------------------------------
(* An UPDATE, whatever its result, leaves the table and the clock typed.   *)
LEMMA UpdateTyped ==
    ASSUME TypeOK, NEW t \in TaskIds, NEW row, NEW result,
           IsOpen(t) => row \in Row, Update(t, row, result)
    PROVE  rows' \in [TaskIds -> Row \cup {None, Gone}] /\ clock' \in Clock
<1> USE TasksAssumption DEF TypeOK, Clock
<1>1. CASE result = "applied"
  BY <1>1 DEF Update, Updatable
<1>2. CASE result = "skipped"
  BY <1>2, Zenon DEF Update
<1>3. CASE result = "failed"
  BY <1>3 DEF Update, StatementFails
<1> QED BY <1>1, <1>2, <1>3, Zenon DEF Update

(* An open task has a row.                                                 *)
LEMMA OpenRow ==
    ASSUME TypeOK, NEW t \in TaskIds, IsOpen(t)
    PROVE  rows[t] \in Row
  BY Zenon DEF TypeOK, IsOpen, Stored

(* The time is a number.                                                   *)
LEMMA NowIsNat == ASSUME TypeOK PROVE clock.now \in Nat
<1>1. MaxTime \in Nat
  BY TasksAssumption, Zenon
<1> QED BY <1>1 DEF TypeOK, Clock

(* The pruner keeps the types of rows and clock.                           *)
LEMMA PruneTyped ==
    ASSUME TypeOK, MaybePruneExpiredTasks
    PROVE  rows' \in [TaskIds -> Row \cup {None, Gone}] /\ clock' \in Clock
<1>1. CASE UNCHANGED <<rows, clock>>
  BY <1>1, Zenon DEF TypeOK
<1>2. CASE clock' = [clock EXCEPT !.pruned = clock.now] /\ DeleteExpiredTasks
  <2>1. clock' \in Clock
    BY <1>2, NowIsNat, Zenon DEF TypeOK, Clock
  <2> QED BY <1>2, <2>1, Zenon DEF TypeOK, DeleteExpiredTasks
<1>3. CASE /\ clock.failures < MaxFailures /\ UNCHANGED rows
           /\ clock' = [clock EXCEPT !.pruned = clock.now, !.failures = @ + 1]
  <2>1. MaxFailures \in Nat
    BY TasksAssumption, Zenon
  <2>2. clock.now \in Nat /\ clock \in Clock
    BY NowIsNat, Zenon DEF TypeOK
  <2>3. clock.failures + 1 \in 0 .. MaxFailures
    BY <1>3, <2>1, <2>2 DEF Clock
  <2>4. clock' \in Clock
    BY <1>3, <2>2, <2>3, Zenon DEF Clock
  <2> QED BY <1>3, <2>4, Zenon DEF TypeOK
<1> QED BY <1>1, <1>2, <1>3, Zenon DEF MaybePruneExpiredTasks

(* A read answers with a status or with "notfound"; unless it fails, an    *)
(* open status is that of an open row.                                     *)
LEMMA ReadTyped ==
    ASSUME TypeOK, NEW t \in TaskIds, NEW answer, GetTaskByID(t, answer)
    PROVE  /\ rows' \in [TaskIds -> Row \cup {None, Gone}] /\ clock' \in Clock
           /\ UNCHANGED <<rows, clock>> \/ StatementFails
           /\ answer \in Answers
           /\ answer \in Open => IsOpen(t) /\ UNCHANGED <<rows, clock>>
<1>1. "notfound" \in Answers /\ "notfound" \notin Open
  BY Zenon DEF Answers, Open
<1>2. CASE /\ answer = IF Stored(t) THEN rows[t].status ELSE "notfound"
           /\ UNCHANGED <<rows, clock>>
  <2>1. Stored(t) => rows[t].status \in Answers
    BY Zenon DEF TypeOK, Stored, Row, Answers
  <2> QED BY <1>1, <1>2, <2>1, Zenon DEF TypeOK, IsOpen
<1>3. CASE answer = "notfound" /\ StatementFails
  <2>1. rows' = rows /\ clock' \in Clock
    <3>1. clock.failures < MaxFailures /\ clock \in Clock /\ MaxFailures \in Nat
      BY <1>3, TasksAssumption, Zenon DEF StatementFails, TypeOK
    <3>2. clock.failures + 1 \in 0 .. MaxFailures
      BY <3>1 DEF Clock
    <3> QED BY <1>3, <3>1, <3>2, Zenon DEF StatementFails, Clock
  <2> QED BY <1>1, <1>3, <2>1, Zenon DEF TypeOK
<1> QED BY <1>2, <1>3, Zenon DEF GetTaskByID

(* The rows the three statements write are rows.                           *)
LEMMA DispatchedTyped ==
    ASSUME TypeOK, NEW t \in TaskIds, NEW result, MarkTaskDispatched(t, result)
    PROVE  rows' \in [TaskIds -> Row \cup {None, Gone}] /\ clock' \in Clock
<1>1. IsOpen(t) => DispatchedRow(rows[t]) \in Row
  BY OpenRow, Zenon DEF DispatchedRow, Row, Open
<1> QED BY <1>1, UpdateTyped, Zenon DEF MarkTaskDispatched

(* So does markTaskRunning ...                                             *)
LEMMA RunningTyped ==
    ASSUME TypeOK, NEW t \in TaskIds, NEW command \in 0 .. MaxAttempts,
           NEW result, MarkTaskRunning(t, command, result)
    PROVE  rows' \in [TaskIds -> Row \cup {None, Gone}] /\ clock' \in Clock
<1>1. IsOpen(t) => RunningRow(rows[t], command) \in Row
  BY OpenRow, Zenon DEF RunningRow, Row, Open
<1> QED BY <1>1, UpdateTyped, Zenon DEF MarkTaskRunning

(* ... and markTaskTerminal.                                               *)
LEMMA TerminalTyped ==
    ASSUME TypeOK, NEW t \in TaskIds, NEW status \in Terminal, NEW at \in Nat,
           NEW skew \in Nat, NEW result,
           MarkTaskTerminal(t, status, at, skew, result)
    PROVE  rows' \in [TaskIds -> Row \cup {None, Gone}] /\ clock' \in Clock
<1>1. at - skew + Retention \in Int
  BY TasksAssumption
<1>2. IsOpen(t) => TerminalRow(rows[t], status, at, at - skew + Retention) \in Row
  BY OpenRow, <1>1, Zenon DEF TerminalRow, Row
<1> QED BY <1>2, UpdateTyped, Zenon DEF MarkTaskTerminal

-----------------------------------------------------------------------------
(* The shape of the records along every step: of a call of SubmitTask, of  *)
(* executeTask and of a call of CancelTask.                                *)
LEMMA SubStepShaped ==
    ASSUME Shaped, NEW q \in Submits, NEW r \in Sub, SubShape(r),
           subs' = [subs EXCEPT ![q] = r],
           rows' \in [TaskIds -> Row \cup {None, Gone}],
           clock' \in Clock, reservations' \subseteq Keys,
           UNCHANGED <<runtimes, execs, cans>>
    PROVE  Shaped'
  BY Zenon DEF Shaped, TypeOK

(* A step of an execution that leaves its locals well formed.              *)
LEMMA ExecStepShaped ==
    ASSUME Shaped, NEW t \in TaskIds, NEW e \in Exec, ExecShape(e),
           execs' = [execs EXCEPT ![t] = e],
           rows' \in [TaskIds -> Row \cup {None, Gone}],
           clock' \in Clock, runtimes' \in [TaskIds -> Runtime],
           UNCHANGED <<reservations, subs, cans>>
    PROVE  Shaped'
  BY Zenon DEF Shaped, TypeOK

(* A step of a cancellation that leaves its locals well formed.            *)
LEMMA CanStepShaped ==
    ASSUME Shaped, NEW c \in Cancels, NEW r \in Can, CanShape(r),
           cans' = [cans EXCEPT ![c] = r],
           rows' \in [TaskIds -> Row \cup {None, Gone}],
           clock' \in Clock, runtimes' \in [TaskIds -> Runtime],
           UNCHANGED <<reservations, subs, execs>>
    PROVE  Shaped'
  BY Zenon DEF Shaped, TypeOK

(* Assignments to the locals of SubmitTask keep their types.               *)
LEMMA SubAnswered ==
    ASSUME NEW s \in Sub, NEW answer \in Answers
    PROVE  [s EXCEPT !.pc = "done", !.answer = answer, !.held = FALSE] \in Sub
  BY Zenon DEF Sub

(* The locals of a submission that has a task.                             *)
LEMMA SubCreated ==
    ASSUME NEW s \in Sub, NEW t \in TaskIds, NEW at \in Nat,
           NEW pc \in {"immediate", "register"}
    PROVE  [s EXCEPT !.task = t, !.at = at, !.pc = pc] \in Sub
  BY Zenon DEF Sub

(* An answer is filed and a reservation of the call is dropped.            *)
LEMMA ReturnShaped ==
    ASSUME Shaped, NEW q \in Submits, NEW answer \in Answers, Return(q, answer),
           rows' \in [TaskIds -> Row \cup {None, Gone}], clock' \in Clock,
           UNCHANGED <<runtimes, execs, cans>>
    PROVE  Shaped'
<1> DEFINE r == [subs[q] EXCEPT !.pc = "done", !.answer = answer, !.held = FALSE]
<1>1. subs[q] \in Sub
  BY Zenon DEF Shaped, TypeOK
<1>2. r \in Sub
  BY <1>1, SubAnswered, Zenon
<1>3. r.pc = "done" /\ ~ r.held
  BY <1>1, Zenon DEF Sub
<1>4. SubShape(r)
  BY <1>3, Zenon DEF SubShape
<1>5. subs' = [subs EXCEPT ![q] = r] /\ reservations' \subseteq Keys
  BY Zenon DEF Return, Shaped, TypeOK
<1> QED BY <1>2, <1>4, <1>5, SubStepShaped, Zenon

(* A submission that goes on with the task it has.                         *)
LEMMA SubGotoShaped ==
    ASSUME Shaped, NEW q \in Submits, NEW pc, SubGoto(q, pc),
           pc \in {"create", "wait", "read", "resolve"},
           subs[q].pc # "done", pc # "create" => subs[q].task # None,
           rows' \in [TaskIds -> Row \cup {None, Gone}], clock' \in Clock,
           UNCHANGED <<runtimes, reservations, execs, cans>>
    PROVE  Shaped'
<1> DEFINE r == [subs[q] EXCEPT !.pc = pc]
<1>1. subs[q] \in Sub /\ SubShape(subs[q])
  BY Zenon DEF Shaped, TypeOK
<1>2. r \in Sub /\ SubShape(r)
  BY <1>1, ZenonT(30) DEF Sub, SubShape
<1> QED BY <1>2, SubStepShaped, Zenon DEF SubGoto, Shaped, TypeOK

(* SubmitTask and its steps; the task it starts was not executed before.   *)
LEMMA SubmitShaped ==
    ASSUME Shaped, NEW q \in Submits,
           \/ \E key \in Keys \cup {None}, mode \in Modes, kind \in Kinds :
                SubmitTask(q, key, mode, kind)
           \/ SubmitStep(q)
           \/ AbandonSubmit(q),
           SubAt(q, "register") => execs[subs[q].task] = NoExec
    PROVE  Shaped'
<1> USE TasksAssumption
<1>1. subs[q] \in Sub /\ SubShape(subs[q])
  BY Zenon DEF Shaped, TypeOK
<1>2. /\ rows \in [TaskIds -> Row \cup {None, Gone}] /\ clock \in Clock
      /\ reservations \subseteq Keys
  BY Zenon DEF Shaped, TypeOK
<1>3. ASSUME NEW key \in Keys \cup {None}, NEW mode \in Modes, NEW kind \in Kinds,
             SubmitTask(q, key, mode, kind)
      PROVE  Shaped'
  <2> DEFINE r == [NoSub EXCEPT !.pc = IF key = None THEN "create" ELSE "reserve",
                                !.key = key, !.mode = mode, !.kind = kind]
  <2>1. r \in Sub /\ SubShape(r)
    BY ZenonT(30) DEF Sub, SubShape, NoSub
  <2>2. rows' \in [TaskIds -> Row \cup {None, Gone}] /\ clock' \in Clock
    BY <1>3, PruneTyped, Zenon DEF SubmitTask, Shaped
  <2>3. subs' = [subs EXCEPT ![q] = r] /\ UNCHANGED <<runtimes, reservations, execs, cans>>
    BY <1>3, Zenon DEF SubmitTask
  <2> QED BY <1>2, <2>1, <2>2, <2>3, SubStepShaped, Zenon
<1>4. CASE ReserveRequest(q)
  <2>1. CASE Return(q, "busy") /\ UNCHANGED <<rows, runtimes, execs, cans, clock>>
    BY <1>2, <2>1, ReturnShaped, Zenon DEF Answers
  <2>2. CASE /\ subs' = [subs EXCEPT ![q].pc = "lookup", ![q].held = TRUE]
             /\ reservations' = reservations \cup {subs[q].key}
             /\ UNCHANGED <<rows, runtimes, execs, cans, clock>>
    <3> DEFINE r == [subs[q] EXCEPT !.pc = "lookup", !.held = TRUE]
    <3>1. subs[q].pc = "reserve"
      BY <1>4, Zenon DEF ReserveRequest, SubAt
    <3>2. r \in Sub /\ SubShape(r) /\ subs[q].key \in Keys
      BY <1>1, <3>1, Zenon DEF Sub, SubShape
    <3>3. subs' = [subs EXCEPT ![q] = r]
      BY <2>2, Zenon DEF Shaped, TypeOK
    <3>4. reservations' \subseteq Keys
      BY <1>2, <2>2, <3>2, Zenon
    <3> QED BY <1>2, <2>2, <3>2, <3>3, <3>4, SubStepShaped, Zenon
  <2> QED BY <1>4, <2>1, <2>2, Zenon DEF ReserveRequest
<1>5. ASSUME NEW t \in TaskIds, SubAt(q, "lookup") \/ SubAt(q, "create"),
             subs[q].key # None,
             subs' = [subs EXCEPT ![q].pc = "runtime", ![q].task = t],
             UNCHANGED <<rows, runtimes, reservations, execs, cans, clock>>
      PROVE  Shaped'
  <2> DEFINE r == [subs[q] EXCEPT !.pc = "runtime", !.task = t]
  <2>1. r \in Sub /\ SubShape(r)
    BY <1>1, <1>5, Zenon DEF Sub, SubShape, SubAt
  <2>2. subs' = [subs EXCEPT ![q] = r]
    BY <1>5, Zenon DEF Shaped, TypeOK
  <2> QED BY <1>2, <1>5, <2>1, <2>2, SubStepShaped, Zenon
<1>6. CASE LookUpRequest(q)
  <2>1. subs[q].pc = "lookup" /\ subs[q].key # None
    BY <1>1, <1>6, Zenon DEF LookUpRequest, SubAt, SubShape
  <2>2. CASE SubGoto(q, "create")
    <3>1. rows' \in [TaskIds -> Row \cup {None, Gone}] /\ clock' \in Clock
      BY <1>2, <1>6 DEF LookUpRequest, StatementFails, Clock
    <3> QED BY <1>6, <2>1, <2>2, <3>1, SubGotoShaped, Zenon DEF LookUpRequest
  <2>3. CASE ~ SubGoto(q, "create")
    BY <1>5, <1>6, <2>1, <2>3, Zenon DEF LookUpRequest, RowsOf
  <2> QED BY <2>2, <2>3, Zenon
<1>7. CASE JoinRuntime(q)
  <2> DEFINE r == [subs[q] EXCEPT !.pc = "resolve",
                                  !.runtime = Registered(subs[q].task)]
  <2>1. Registered(subs[q].task) \in BOOLEAN
    BY DEF Registered
  <2>2. r \in Sub /\ SubShape(r)
    BY <1>1, <1>7, <2>1, ZenonT(30) DEF Sub, SubShape, JoinRuntime, SubAt
  <2>3. subs' = [subs EXCEPT ![q] = r]
    BY <1>7, Zenon DEF JoinRuntime, Shaped, TypeOK
  <2> QED BY <1>2, <1>7, <2>2, <2>3, SubStepShaped, Zenon DEF JoinRuntime
<1>8. CASE RefuseTask(q)
  <2>1. rows' \in [TaskIds -> Row \cup {None, Gone}] /\ clock' \in Clock
    BY <1>2, <1>8 DEF RefuseTask, StatementFails, Clock
  <2> QED BY <1>8, <2>1, ReturnShaped, Zenon DEF RefuseTask, Answers
<1>9. CASE InsertTask(q)
  <2>1. CASE Conflicts(subs[q].key)
    BY <1>5, <1>9, <2>1, Zenon DEF InsertTask, RowsOf, Conflicts
  <2>2. CASE ~ Conflicts(subs[q].key)
    <3>1. PICK t \in TaskIds :
             /\ rows' = [rows EXCEPT ![t] = QueuedRow(subs[q].key)]
             /\ subs' = [subs EXCEPT ![q].task = t, ![q].at = clock.now,
                      ![q].pc = IF subs[q].kind = "immediate"
                                  THEN "immediate" ELSE "register"]
      BY <1>9, <2>2, Zenon DEF InsertTask
    <3> DEFINE r == [subs[q] EXCEPT !.task = t, !.at = clock.now,
                      !.pc = IF subs[q].kind = "immediate"
                                  THEN "immediate" ELSE "register"]
    <3>2. clock.now \in Nat /\ subs[q].pc = "create" /\ t # None
      BY <1>9, NowIsNat, Zenon DEF InsertTask, SubAt, Shaped
    <3>7. r \in Sub
      <4> DEFINE pc == IF subs[q].kind = "immediate" THEN "immediate" ELSE "register"
      <4>1. pc \in {"immediate", "register"}
        BY Zenon
      <4>2. r = [subs[q] EXCEPT !.task = t, !.at = clock.now, !.pc = pc]
        BY Zenon
      <4> HIDE DEF pc
      <4> QED BY <1>1, <3>2, <4>1, <4>2, SubCreated, Zenon
    <3>8. r.pc \in {"immediate", "register"} /\ r.task = t /\ r.answer = subs[q].answer
      BY <1>1, <3>2, Zenon DEF Sub
    <3>6. r \in Sub /\ SubShape(r)
      BY <1>1, <3>2, <3>7, <3>8, Zenon DEF SubShape
    <3>3. QueuedRow(subs[q].key) \in Row
      BY <1>1 DEF QueuedRow, Row, Open, Sub
    <3>4. rows' \in [TaskIds -> Row \cup {None, Gone}]
      BY <1>2, <3>1, <3>3, Zenon
    <3>5. subs' = [subs EXCEPT ![q] = r]
      BY <3>1, Zenon DEF Shaped, TypeOK
    <3> QED BY <1>2, <1>9, <3>4, <3>5, <3>6, SubStepShaped, Zenon DEF InsertTask
  <2> QED BY <2>1, <2>2, Zenon
<1>10. CASE FinishImmediate(q)
  <2>1. subs[q].pc = "immediate" /\ subs[q].task \in TaskIds /\ subs[q].at \in Nat
    BY <1>1, <1>10, Zenon DEF FinishImmediate, SubAt, SubShape, Sub
  <2>2. PICK result \in {"applied", "skipped", "failed"} :
          /\ MarkTaskTerminal(subs[q].task, "succeeded", subs[q].at, 0, result)
          /\ IF result = "applied"
               THEN /\ subs' = [subs EXCEPT ![q].pc = "load", ![q].held = FALSE]
                    /\ reservations' = reservations \ {subs[q].key}
               ELSE Return(q, "error")
    BY <1>10, Zenon DEF FinishImmediate
  <2>3. rows' \in [TaskIds -> Row \cup {None, Gone}] /\ clock' \in Clock
    <3>1. "succeeded" \in Terminal /\ 0 \in Nat
      BY Zenon DEF Terminal
    <3> QED BY <2>1, <2>2, <3>1, TerminalTyped, Zenon DEF Shaped
  <2>4. CASE result = "applied"
    <3> DEFINE r == [subs[q] EXCEPT !.pc = "load", !.held = FALSE]
    <3>1. r \in Sub /\ SubShape(r)
      BY <1>1, <2>1, ZenonT(30) DEF Sub, SubShape
    <3>2. subs' = [subs EXCEPT ![q] = r] /\ reservations' \subseteq Keys
      BY <1>2, <2>2, <2>4, ZenonT(30) DEF Shaped, TypeOK
    <3> QED BY <1>10, <2>3, <3>1, <3>2, SubStepShaped, Zenon DEF FinishImmediate
  <2>5. CASE result # "applied"
    BY <1>10, <2>2, <2>3, <2>5, ReturnShaped, Zenon DEF FinishImmediate, Answers
  <2> QED BY <2>4, <2>5, Zenon
<1>11. CASE StartTask(q)
  <2> DEFINE r == [subs[q] EXCEPT !.pc = "resolve", !.held = FALSE, !.runtime = TRUE]
  <2>1. subs[q].task \in TaskIds
    BY <1>1, <1>11, Zenon DEF StartTask, SubAt, SubShape, Sub
  <2>2. r \in Sub /\ SubShape(r)
    BY <1>1, <1>11, <2>1, ZenonT(30) DEF Sub, SubShape, StartTask, SubAt
  <2>3. subs' = [subs EXCEPT ![q] = r]
    BY <1>11, Zenon DEF StartTask, Shaped, TypeOK
  <2> DEFINE e == [execs[subs[q].task] EXCEPT !.pc = "mark"]
  <2>4. e \in Exec /\ ExecShape(e)
    BY <1>11, TasksAssumption DEF StartTask, SubAt, Exec, NoExec, ExecShape
  <2>5. /\ execs' = [execs EXCEPT ![subs[q].task] = e]
        /\ runtimes' \in [TaskIds -> Runtime]
        /\ reservations' \subseteq Keys
    BY <1>2, <1>11, Zenon DEF StartTask, Shaped, TypeOK, Runtime
  <2> HIDE DEF e, r
  <2>6. subs' \in [Submits -> Sub] /\ \A p \in Submits : SubShape(subs'[p])
    BY <2>2, <2>3, Zenon DEF Shaped, TypeOK
  <2>7. execs' \in [TaskIds -> Exec] /\ \A t \in TaskIds : ExecShape(execs'[t])
    BY <2>1, <2>4, <2>5, Zenon DEF Shaped, TypeOK
  <2>8. rows' = rows /\ cans' = cans /\ clock' = clock
    BY <1>11, Zenon DEF StartTask
  <2> QED BY <2>5, <2>6, <2>7, <2>8, Zenon DEF Shaped, TypeOK
<1>12. CASE ResolveSubmit(q)
  <2>1. subs[q].pc = "resolve" /\ subs[q].task \in TaskIds /\ subs[q].task # None
    BY <1>1, <1>12, Zenon DEF ResolveSubmit, SubAt, SubShape, Sub
  <2>2. PICK answer \in Answers :
          /\ GetTaskByID(subs[q].task, answer)
          /\ IF subs[q].mode = "async" \/ answer \notin Open
               THEN Return(q, answer)
               ELSE /\ SubGoto(q, IF subs[q].runtime THEN "wait" ELSE "read")
                    /\ UNCHANGED reservations
    BY <1>12, Zenon DEF ResolveSubmit
  <2>3. rows' \in [TaskIds -> Row \cup {None, Gone}] /\ clock' \in Clock
    BY <2>1, <2>2, ReadTyped, Zenon DEF Shaped
  <2>4. CASE Return(q, answer)
    BY <1>12, <2>3, <2>4, ReturnShaped, Zenon DEF ResolveSubmit
  <2>5. CASE ~ Return(q, answer)
    BY <1>12, <2>1, <2>2, <2>3, <2>5, SubGotoShaped, Zenon DEF ResolveSubmit
  <2> QED BY <2>4, <2>5, Zenon
<1>13. CASE WakeSubmit(q)
  BY <1>1, <1>2, <1>13, SubGotoShaped, Zenon DEF WakeSubmit, SubAt, SubShape
<1>14. CASE AbandonSubmit(q)
  BY <1>2, <1>14, ReturnShaped, Zenon DEF AbandonSubmit, Answers
<1>15. CASE AnswerSubmit(q) \/ LoadCompleted(q)
  <2>1. subs[q].task \in TaskIds
    BY <1>1, <1>15, Zenon DEF AnswerSubmit, LoadCompleted, SubAt, SubShape, Sub
  <2>2. PICK answer \in Answers :
          /\ GetTaskByID(subs[q].task, answer)
          /\ Return(q, answer) \/ Return(q, IF answer = "notfound" THEN "error" ELSE answer)
    BY <1>15, Zenon DEF AnswerSubmit, LoadCompleted
  <2>3. rows' \in [TaskIds -> Row \cup {None, Gone}] /\ clock' \in Clock
    BY <2>1, <2>2, ReadTyped, Zenon DEF Shaped
  <2>4. (IF answer = "notfound" THEN "error" ELSE answer) \in Answers
    BY Zenon DEF Answers
  <2> QED BY <1>15, <2>2, <2>3, <2>4, ReturnShaped, Zenon DEF AnswerSubmit, LoadCompleted
<1> QED
  BY <1>3, <1>4, <1>6, <1>7, <1>8, <1>9, <1>10, <1>11, <1>12, <1>13, <1>14,
     <1>15, Zenon DEF SubmitStep

(* The steps of executeTask.                                               *)
LEMMA ExecutionShaped ==
    ASSUME Shaped, NEW t \in TaskIds, ExecStep(t)
    PROVE  Shaped'
<1>1. execs[t] \in Exec /\ ExecShape(execs[t])
  BY Zenon DEF Shaped, TypeOK
<1>2. /\ rows \in [TaskIds -> Row \cup {None, Gone}] /\ clock \in Clock
      /\ runtimes \in [TaskIds -> Runtime] /\ execs \in [TaskIds -> Exec]
      /\ clock.now \in Nat
  BY NowIsNat, Zenon DEF Shaped, TypeOK
<1>3. ASSUME NEW status \in Terminal, NEW at \in Nat \cup {None},
             NEW skew \in Skews \cup {0}, ExecFinish(t, status, at, skew),
             UNCHANGED <<rows, runtimes, reservations, subs, cans, clock>>
      PROVE  Shaped'
  <2> DEFINE e == [execs[t] EXCEPT !.pc = "write", !.want = status, !.at = at,
                                   !.skew = skew]
  <2>1. e \in Exec /\ ExecShape(e)
    BY <1>1, ZenonT(30) DEF Exec, ExecShape
  <2>2. execs' = [execs EXCEPT ![t] = e]
    BY <1>2, <1>3, Zenon DEF ExecFinish
  <2> QED BY <1>2, <1>3, <2>1, <2>2, ExecStepShaped, Zenon
<1>4. ASSUME NEW pc \in {"pick", "send", "end", "fallback", "alarm"},
             pc \in {"pick", "send"} => execs[t].attempt < MaxAttempts,
             ExecGoto(t, pc), rows' \in [TaskIds -> Row \cup {None, Gone}],
             clock' \in Clock, runtimes' \in [TaskIds -> Runtime],
             UNCHANGED <<reservations, subs, cans>>
      PROVE  Shaped'
  <2> DEFINE e == [execs[t] EXCEPT !.pc = pc]
  <2>1. e \in Exec /\ ExecShape(e)
    BY <1>1, <1>4, ZenonT(30) DEF Exec, ExecShape
  <2>2. execs' = [execs EXCEPT ![t] = e]
    BY <1>4, Zenon DEF ExecGoto
  <2> QED BY <1>4, <2>1, <2>2, ExecStepShaped, Zenon
<1>5. ASSUME NEW pc \in {"abort", "wait", "complete"},
             NEW then \in {"end", "fallback", "alarm"},
             execs' = [execs EXCEPT ![t].pc = pc, ![t].then = then],
             rows' \in [TaskIds -> Row \cup {None, Gone}], clock' \in Clock,
             UNCHANGED <<runtimes, reservations, subs, cans>>
      PROVE  Shaped'
  <2> DEFINE e == [execs[t] EXCEPT !.pc = pc, !.then = then]
  <2>1. e \in Exec /\ ExecShape(e)
    BY <1>1, <1>5, ZenonT(30) DEF Exec, ExecShape
  <2>2. execs' = [execs EXCEPT ![t] = e]
    BY <1>2, <1>5, Zenon
  <2> QED BY <1>2, <1>5, <2>1, <2>2, ExecStepShaped, Zenon
<1>6. CASE ExecMarkDispatched(t)
  <2>1. PICK result \in {"applied", "skipped", "failed"} :
          /\ MarkTaskDispatched(t, result)
          /\ ExecGoto(t, CASE result = "applied" -> "pick"
                           [] result = "skipped" -> "end"
                           [] result = "failed"  -> "fallback")
    BY <1>6, Zenon DEF ExecMarkDispatched
  <2>2. rows' \in [TaskIds -> Row \cup {None, Gone}] /\ clock' \in Clock
    BY <2>1, DispatchedTyped, Zenon DEF Shaped
  <2>3. execs[t].attempt < MaxAttempts
    BY <1>1, <1>6, Zenon DEF ExecMarkDispatched, ExecAt, ExecShape
  <2> QED BY <1>2, <1>4, <1>6, <2>1, <2>2, <2>3, Zenon DEF ExecMarkDispatched
<1>7. CASE ExecPick(t)
  <2>1. execs[t].attempt < MaxAttempts
    BY <1>1, <1>7, Zenon DEF ExecPick, ExecAt, ExecShape
  <2> QED BY <1>2, <1>3, <1>4, <1>7, <2>1, Zenon DEF ExecPick, Terminal
<1>8. CASE ExecSend(t)
  <2>1. execs[t].attempt < MaxAttempts
    BY <1>1, <1>8, Zenon DEF ExecSend, ExecAt, ExecShape
  <2>2. CASE execs' = [execs EXCEPT ![t].pc = "sent", ![t].attempt = @ + 1]
    <3> DEFINE e == [execs[t] EXCEPT !.pc = "sent", !.attempt = @ + 1]
    <3>1. execs[t].attempt + 1 \in 0 .. MaxAttempts
      BY <1>1, <2>1, TasksAssumption DEF Exec
    <3>2. e \in Exec /\ ExecShape(e)
      BY <1>1, <3>1, Zenon DEF Exec, ExecShape
    <3>3. execs' = [execs EXCEPT ![t] = e]
      BY <1>2, <2>2, Zenon
    <3> QED BY <1>2, <1>8, <3>2, <3>3, ExecStepShaped, Zenon DEF ExecSend
  <2>3. CASE ~ (execs' = [execs EXCEPT ![t].pc = "sent", ![t].attempt = @ + 1])
    BY <1>3, <1>8, <2>3, Zenon DEF ExecSend, Terminal
  <2> QED BY <2>2, <2>3, Zenon
<1>9. CASE ExecMarkRunning(t)
  <2>1. PICK result \in {"applied", "skipped", "failed"} :
          /\ MarkTaskRunning(t, execs[t].attempt, result)
          /\ execs' = [execs EXCEPT
                ![t].pc = IF result = "applied" THEN "wait" ELSE "abort",
                ![t].then = IF result = "failed" THEN "fallback" ELSE "end"]
    BY <1>9, Zenon DEF ExecMarkRunning
  <2>2. rows' \in [TaskIds -> Row \cup {None, Gone}] /\ clock' \in Clock
    BY <1>1, <2>1, RunningTyped, Zenon DEF Shaped, Exec
  <2> QED BY <1>5, <1>9, <2>1, <2>2, Zenon DEF ExecMarkRunning
<1>10. CASE ExecAbort(t)
  <2>1. runtimes' \in [TaskIds -> Runtime]
    BY <1>2, <1>10, Zenon DEF ExecAbort, Runtime
  <2>2. execs[t].then \in {"end", "fallback", "alarm"}
    BY <1>1, Zenon DEF Exec
  <2> QED BY <1>2, <1>4, <1>10, <2>1, <2>2, Zenon DEF ExecAbort
<1>11. CASE ExecResult(t)
  <2>1. CASE execs[t].attempt < MaxAttempts /\ ExecGoto(t, "pick")
    BY <1>2, <1>4, <1>11, <2>1, Zenon DEF ExecResult
  <2>2. CASE ~ (execs[t].attempt < MaxAttempts /\ ExecGoto(t, "pick"))
    <3>1. {"succeeded", "failed", "timeout", "canceled"} \subseteq Terminal
      BY Zenon DEF Terminal
    <3> QED BY <1>2, <1>3, <1>11, <2>2, <3>1, Zenon DEF ExecResult
  <2> QED BY <2>1, <2>2, Zenon
<1>12. CASE ExecWrite(t)
  <2>1. PICK result \in {"applied", "skipped", "failed"} :
          /\ MarkTaskTerminal(t, execs[t].want,
                IF execs[t].at = None THEN clock.now ELSE execs[t].at,
                execs[t].skew, result)
          /\ execs' = [execs EXCEPT ![t].pc = "complete",
                                    ![t].then = AfterWrite(result)]
    BY <1>12, Zenon DEF ExecWrite
  <2>2. /\ (IF execs[t].at = None THEN clock.now ELSE execs[t].at) \in Nat
        /\ execs[t].skew \in Nat /\ execs[t].want \in Terminal
    BY <1>1, <1>2, <1>12, TasksAssumption DEF Exec, ExecShape, ExecWrite, ExecAt
  <2>3. rows' \in [TaskIds -> Row \cup {None, Gone}] /\ clock' \in Clock
    BY <2>1, <2>2, TerminalTyped, Zenon DEF Shaped
  <2> QED BY <1>5, <1>12, <2>1, <2>3, Zenon DEF ExecWrite, AfterWrite
<1>13. CASE ExecFallback(t)
  <2>1. PICK result \in {"applied", "skipped", "failed"} :
          /\ MarkTaskTerminal(t, "failed", clock.now, 0, result)
          /\ execs' = [execs EXCEPT ![t].pc = "complete",
                ![t].then = IF result = "applied" THEN "end" ELSE "alarm"]
    BY <1>13, Zenon DEF ExecFallback
  <2>2. "failed" \in Terminal /\ 0 \in Nat
    BY Zenon DEF Terminal
  <2>3. rows' \in [TaskIds -> Row \cup {None, Gone}] /\ clock' \in Clock
    BY <1>2, <2>1, <2>2, TerminalTyped, Zenon DEF Shaped
  <2> QED BY <1>5, <1>13, <2>1, <2>3, Zenon DEF ExecFallback
<1>14. CASE ExecComplete(t)
  <2>1. runtimes' \in [TaskIds -> Runtime]
    BY <1>2, <1>14, Zenon DEF ExecComplete, CompleteTaskRuntime, Runtime
  <2>2. execs[t].then \in {"end", "fallback", "alarm"}
    BY <1>1, Zenon DEF Exec
  <2> QED BY <1>2, <1>4, <1>14, <2>1, <2>2, Zenon DEF ExecComplete
<1>15. CASE ExecAlarm(t)
  BY <1>2, <1>4, <1>15, Zenon DEF ExecAlarm
<1> QED
  BY <1>6, <1>7, <1>8, <1>9, <1>10, <1>11, <1>12, <1>13, <1>14, <1>15, Zenon DEF ExecStep

(* CancelTask and its steps.                                               *)
LEMMA CancellationShaped ==
    ASSUME Shaped, NEW c \in Cancels,
           CancelStep(c) \/ \E t \in TaskIds : CancelTask(c, t)
    PROVE  Shaped'
<1>1. cans[c] \in Can /\ CanShape(cans[c])
  BY Zenon DEF Shaped, TypeOK
<1>2. /\ rows \in [TaskIds -> Row \cup {None, Gone}] /\ clock \in Clock
      /\ runtimes \in [TaskIds -> Runtime] /\ cans \in [Cancels -> Can]
      /\ clock.now \in Nat
  BY NowIsNat, Zenon DEF Shaped, TypeOK
<1>3. ASSUME NEW t \in TaskIds, CancelTask(c, t)
      PROVE  Shaped'
  <2>1. PICK answer \in Answers :
          /\ GetTaskByID(t, answer)
          /\ cans' = [cans EXCEPT ![c] =
                IF answer \in Open
                  THEN [NoCan EXCEPT !.pc = "write", !.task = t]
                  ELSE [NoCan EXCEPT !.pc = "done", !.task = t, !.answer = answer]]
    BY <1>3, Zenon DEF CancelTask
  <2>2. rows' \in [TaskIds -> Row \cup {None, Gone}] /\ clock' \in Clock
    BY <2>1, ReadTyped, Zenon DEF Shaped
  <2>3. /\ [NoCan EXCEPT !.pc = "write", !.task = t] \in Can
        /\ CanShape([NoCan EXCEPT !.pc = "write", !.task = t])
    BY TasksAssumption, Zenon DEF Can, CanShape, NoCan
  <2>4. /\ [NoCan EXCEPT !.pc = "done", !.task = t, !.answer = answer] \in Can
        /\ CanShape([NoCan EXCEPT !.pc = "done", !.task = t, !.answer = answer])
    BY TasksAssumption, Zenon DEF Can, CanShape, NoCan
  <2> QED BY <1>2, <1>3, <2>1, <2>2, <2>3, <2>4, CanStepShaped, Zenon DEF CancelTask
<1>4. CASE CancelWrite(c)
  <2>1. PICK result \in {"applied", "skipped", "failed"} :
          /\ MarkTaskTerminal(cans[c].task, "canceled", clock.now, 0, result)
          /\ cans' = [cans EXCEPT ![c].pc = "complete", ![c].wrote = result]
    BY <1>4, Zenon DEF CancelWrite
  <2>2. "canceled" \in Terminal /\ 0 \in Nat /\ cans[c].task \in TaskIds
    BY <1>1, <1>4, Zenon DEF Terminal, Can, CanShape, CancelWrite
  <2>3. rows' \in [TaskIds -> Row \cup {None, Gone}] /\ clock' \in Clock
    BY <1>2, <2>1, <2>2, TerminalTyped, Zenon DEF Shaped
  <2> DEFINE r == [cans[c] EXCEPT !.pc = "complete", !.wrote = result]
  <2>4. r \in Can /\ CanShape(r)
    BY <1>1, <1>4, Zenon DEF Can, CanShape, CancelWrite
  <2>5. cans' = [cans EXCEPT ![c] = r]
    BY <1>2, <2>1, Zenon
  <2> QED BY <1>2, <1>4, <2>3, <2>4, <2>5, CanStepShaped, Zenon DEF CancelWrite
<1>5. CASE CancelComplete(c)
  <2> DEFINE r == [cans[c] EXCEPT !.pc = "read"]
  <2>1. r \in Can /\ CanShape(r)
    BY <1>1, <1>5, Zenon DEF Can, CanShape, CancelComplete
  <2>2. runtimes' \in [TaskIds -> Runtime]
    BY <1>2, <1>5, Zenon DEF CancelComplete, CompleteTaskRuntime, Runtime
  <2> QED BY <1>2, <1>5, <2>1, <2>2, CanStepShaped, Zenon DEF CancelComplete
<1>6. CASE CancelAnswer(c)
  <2>1. cans[c].task \in TaskIds
    BY <1>1, <1>6, Zenon DEF Can, CanShape, CancelAnswer
  <2>2. PICK answer \in Answers :
          /\ CancelReturn(c, answer)
          /\ UNCHANGED <<rows, clock>> \/ GetTaskByID(cans[c].task, answer)
    <3>1. "error" \in Answers
      BY Zenon DEF Answers
    <3> QED BY <1>6, <3>1, Zenon DEF CancelAnswer
  <2>3. rows' \in [TaskIds -> Row \cup {None, Gone}] /\ clock' \in Clock
    BY <1>2, <2>1, <2>2, ReadTyped, Zenon DEF Shaped
  <2> DEFINE r == [cans[c] EXCEPT !.pc = "done", !.answer = answer]
  <2>5. r \in Can /\ CanShape(r)
    BY <1>1, Zenon DEF Can, CanShape
  <2>6. cans' = [cans EXCEPT ![c] = r]
    BY <1>2, <2>2, Zenon DEF CancelReturn
  <2> QED BY <1>2, <1>6, <2>3, <2>5, <2>6, CanStepShaped, Zenon DEF CancelAnswer
<1> QED BY <1>3, <1>4, <1>5, <1>6, Zenon DEF CancelStep

(* A restart, the pruner, the clock and a step that changes nothing.       *)
LEMMA RestShaped ==
    ASSUME Shaped, RestartConsole \/ PruneExpiredTasks \/ Tick \/ UNCHANGED vars
    PROVE  Shaped'
<1>1. CASE RestartConsole
  <2>1. rows' \in [TaskIds -> Row \cup {None, Gone}]
    <3>1. ASSUME NEW t \in TaskIds
          PROVE  FailedOnStartup(t) \in Row \cup {None, Gone}
      <4>1. CASE IsOpen(t)
        <5>1. clock.now \in Nat /\ clock.now + Retention \in Int /\ "failed" \in Terminal
          BY NowIsNat, TasksAssumption DEF Shaped, Terminal
        <5>2. rows[t] \in Row
          BY <4>1, OpenRow, Zenon DEF Shaped
        <5> QED BY <4>1, <5>1, <5>2, Zenon DEF FailedOnStartup, TerminalRow, Row
      <4>2. CASE ~ IsOpen(t)
        BY <4>2, Zenon DEF FailedOnStartup, Shaped, TypeOK
      <4> QED BY <4>1, <4>2, Zenon
    <3> QED BY <1>1, <3>1, Zenon DEF RestartConsole
  <2>2. clock' \in Clock /\ reservations' \subseteq Keys
    <3>1. MaxRestarts \in Nat /\ clock \in Clock /\ clock.restarts < MaxRestarts
      BY <1>1, TasksAssumption, Zenon DEF RestartConsole, Shaped, TypeOK
    <3>2. clock.restarts + 1 \in 0 .. MaxRestarts
      BY <3>1 DEF Clock
    <3> QED BY <1>1, <3>1, <3>2, Zenon DEF RestartConsole, Clock
  <2>3. runtimes' \in [TaskIds -> Runtime]
    BY <1>1, Zenon DEF RestartConsole, Runtime
  <2>4. execs' \in [TaskIds -> Exec] /\ \A t \in TaskIds : ExecShape(execs'[t])
    <3>1. NoExec \in Exec /\ [NoExec EXCEPT !.pc = "end"] \in Exec
      BY TasksAssumption DEF Exec, NoExec
    <3>2. ExecShape(NoExec) /\ ExecShape([NoExec EXCEPT !.pc = "end"])
      BY TasksAssumption, Zenon DEF ExecShape, NoExec
    <3> QED BY <1>1, <3>1, <3>2, Zenon DEF RestartConsole
  <2>5. subs' \in [Submits -> Sub] /\ \A q \in Submits : SubShape(subs'[q])
    <3>1. ASSUME NEW q \in Submits
          PROVE  subs'[q] \in Sub /\ SubShape(subs'[q])
      <4>1. subs[q] \in Sub /\ SubShape(subs[q])
        BY Zenon DEF Shaped, TypeOK
      <4> DEFINE r == [subs[q] EXCEPT !.pc = "done", !.answer = "error",
                                      !.held = FALSE]
      <4>4. "error" \in Answers
        BY Zenon DEF Answers
      <4>5. r \in Sub
        BY <4>1, <4>4, SubAnswered, Zenon
      <4>6. r.pc = "done" /\ ~ r.held
        BY <4>1, Zenon DEF Sub
      <4>2. r \in Sub /\ SubShape(r)
        BY <4>5, <4>6, Zenon DEF SubShape
      <4>3. subs'[q] = subs[q] \/ subs'[q] = r
        BY <1>1, Zenon DEF RestartConsole
      <4> HIDE DEF r
      <4> QED BY <4>1, <4>2, <4>3, Zenon
    <3> QED BY <1>1, <3>1, Zenon DEF RestartConsole
  <2>6. cans' \in [Cancels -> Can] /\ \A c \in Cancels : CanShape(cans'[c])
    <3>1. ASSUME NEW c \in Cancels
          PROVE  cans'[c] \in Can /\ CanShape(cans'[c])
      <4>1. cans[c] \in Can /\ CanShape(cans[c])
        BY Zenon DEF Shaped, TypeOK
      <4>2. [cans[c] EXCEPT !.pc = "done", !.answer = "error"] \in Can
        BY <4>1, Zenon DEF Can, Answers
      <4>3. CanShape([cans[c] EXCEPT !.pc = "done", !.answer = "error"])
        BY <4>1, Zenon DEF Can, CanShape
      <4>4. \/ cans'[c] = cans[c]
            \/ cans'[c] = [cans[c] EXCEPT !.pc = "done", !.answer = "error"]
        BY <1>1, Zenon DEF RestartConsole
      <4> QED BY <4>1, <4>2, <4>3, <4>4, Zenon
    <3> QED BY <1>1, <3>1, Zenon DEF RestartConsole
  <2> QED BY <2>1, <2>2, <2>3, <2>4, <2>5, <2>6, Zenon DEF Shaped, TypeOK
<1>2. CASE PruneExpiredTasks
  BY <1>2, Zenon DEF PruneExpiredTasks, DeleteExpiredTasks, Shaped, TypeOK
<1>3. CASE Tick
  <2>1. MaxTime \in Nat /\ clock \in Clock /\ clock.now < MaxTime
    BY <1>3, TasksAssumption, Zenon DEF Tick, Shaped, TypeOK
  <2>2. clock.now + 1 \in 1 .. MaxTime + 1
    BY <2>1 DEF Clock
  <2>3. clock' \in Clock
    BY <1>3, <2>1, <2>2, Zenon DEF Tick, Clock
  <2> QED BY <1>3, <2>3, Zenon DEF Tick, Shaped, TypeOK
<1>4. CASE UNCHANGED vars
  BY <1>4, Zenon DEF vars, Shaped, TypeOK
<1> QED BY <1>1, <1>2, <1>3, <1>4, Zenon

-----------------------------------------------------------------------------
(* What any step may do to a row: it does not come back, keeps its request *)
(* id, and does not open again.                                            *)
RowKept(t) ==
    /\ rows[t] # None => rows'[t] # None
    /\ Stored(t)' /\ rows[t] # None => Stored(t) /\ rows'[t].key = rows[t].key
    /\ IsOpen(t)' /\ rows[t] # None => IsOpen(t)

(* An UPDATE changes one row, and that one only when it is open.           *)
LEMMA UpdateKeeps ==
    ASSUME TypeOK, NEW t \in TaskIds, NEW row, NEW result,
           IsOpen(t) => row \in Row /\ row.key = rows[t].key,
           Update(t, row, result)
    PROVE  /\ RowKept(t)
           /\ rows[t] = None => rows'[t] = None
           /\ \A u \in TaskIds : u # t => rows'[u] = rows[u]
           /\ clock'.failures = 0 => clock.failures = 0 /\ result # "failed"
           /\ result = "applied" => IsOpen(t) /\ rows'[t] = row
           /\ result # "applied" => rows' = rows
           /\ result = "skipped" => ~ IsOpen(t)
           /\ result = "failed" => clock'.failures # 0
<1> USE TasksAssumption
<1>1. CASE result = "applied"
  BY <1>1, Zenon DEF Update, Updatable, RowKept, Stored, IsOpen, TypeOK
<1>2. CASE result = "skipped"
  BY <1>2, Zenon DEF Update, Updatable, RowKept, Stored, IsOpen
<1>3. CASE result = "failed"
  <2>1. rows' = rows /\ clock'.failures = clock.failures + 1 /\ clock.failures \in Nat
    BY <1>3 DEF Update, StatementFails, TypeOK, Clock
  <2> QED BY <1>3, <2>1 DEF RowKept, Stored, IsOpen
<1> QED BY <1>1, <1>2, <1>3, Zenon DEF Update

(* markTaskDispatched changes an open row only, and leaves it open ...     *)
LEMMA DispatchedKeeps ==
    ASSUME TypeOK, NEW t \in TaskIds, NEW result, MarkTaskDispatched(t, result)
    PROVE  /\ RowKept(t)
           /\ rows[t] = None => rows'[t] = None
           /\ \A u \in TaskIds : u # t => rows'[u] = rows[u]
           /\ clock'.failures = 0 => clock.failures = 0 /\ result # "failed"
           /\ IsOpen(t)' <=> IsOpen(t)
           /\ result = "skipped" => ~ IsOpen(t)
<1>1. IsOpen(t) => /\ DispatchedRow(rows[t]) \in Row
                   /\ DispatchedRow(rows[t]).key = rows[t].key
                   /\ DispatchedRow(rows[t]).status \in Open
  BY OpenRow, Zenon DEF DispatchedRow, Row, Open
<1> QED BY <1>1, UpdateKeeps, TasksAssumption DEF MarkTaskDispatched, IsOpen, Stored

(* ... so does markTaskRunning ...                                         *)
LEMMA RunningKeeps ==
    ASSUME TypeOK, NEW t \in TaskIds, NEW command \in 0 .. MaxAttempts,
           NEW result, MarkTaskRunning(t, command, result)
    PROVE  /\ RowKept(t)
           /\ rows[t] = None => rows'[t] = None
           /\ \A u \in TaskIds : u # t => rows'[u] = rows[u]
           /\ clock'.failures = 0 => clock.failures = 0 /\ result # "failed"
           /\ IsOpen(t)' <=> IsOpen(t)
           /\ result = "skipped" => ~ IsOpen(t)
<1>1. IsOpen(t) => /\ RunningRow(rows[t], command) \in Row
                   /\ RunningRow(rows[t], command).key = rows[t].key
                   /\ RunningRow(rows[t], command).status \in Open
  BY OpenRow, Zenon DEF RunningRow, Row, Open
<1> QED BY <1>1, UpdateKeeps, TasksAssumption DEF MarkTaskRunning, IsOpen, Stored

(* ... and markTaskTerminal closes it, if the statement succeeds.          *)
LEMMA TerminalKeeps ==
    ASSUME TypeOK, NEW t \in TaskIds, NEW status \in Terminal, NEW at \in Nat,
           NEW skew \in Nat, NEW result,
           MarkTaskTerminal(t, status, at, skew, result)
    PROVE  /\ RowKept(t)
           /\ rows[t] = None => rows'[t] = None
           /\ \A u \in TaskIds : u # t => rows'[u] = rows[u]
           /\ clock'.failures = 0 => clock.failures = 0 /\ result # "failed"
           /\ result # "failed" => ~ IsOpen(t)'
           /\ result # "applied" => rows' = rows
           /\ result = "applied" => IsOpen(t) /\ rows'[t].status = status
<1> DEFINE row == TerminalRow(rows[t], status, at, at - skew + Retention)
<1>1. at - skew + Retention \in Int
  BY TasksAssumption
<1>2. IsOpen(t) => row \in Row /\ row.key = rows[t].key /\ row.status = status
  BY OpenRow, <1>1, Zenon DEF TerminalRow, Row
<1>3. status \notin Open
  BY Zenon DEF Open, Terminal
<1>4. Update(t, row, result)
  BY Zenon DEF MarkTaskTerminal
<1> HIDE DEF row
<1>5. result \in {"applied", "skipped", "failed"}
  BY <1>4, Zenon DEF Update
<1>6. result = "applied" => rows'[t] = row /\ IsOpen(t)
  BY <1>2, <1>4, UpdateKeeps, Zenon
<1> QED BY <1>2, <1>3, <1>4, <1>5, <1>6, UpdateKeeps, Zenon DEF IsOpen, Stored

-----------------------------------------------------------------------------
(* A step that touches task t only, which nobody is creating.              *)
TouchesOnly(t) ==
    /\ \A u \in TaskIds : u # t => /\ rows'[u] = rows[u]
                                   /\ runtimes'[u] = runtimes[u]
                                   /\ execs'[u] = execs[u]
    /\ RowKept(t) /\ (rows[t] = None => rows'[t] = None)
    /\ \A q \in Submits : Creating(q) => subs[q].task # t
    /\ clock'.failures = 0 => clock.failures = 0
    /\ UNCHANGED <<subs, reservations>>

(* A call of CancelTask that moves is one about t.                         *)
CansTouch(t) ==
    \A c \in Cancels : cans'[c] # cans[c] =>
        /\ cans'[c].task = t
        /\ cans[c].task = t \/ cans[c].pc # "complete"

(* A step on one existing task leaves submissions and cancellations right. *)
LEMMA TouchKeepsSubs ==
    ASSUME IInv, NEW t \in TaskIds, TouchesOnly(t), CansTouch(t), rows[t] # None,
           Shaped'
    PROVE  /\ \A q \in Submits : SubInv(q)'
           /\ \A c \in Cancels : CanInv(c)'
           /\ OneHolder' /\ OneRowPerKey'
           /\ clock'.failures = 0 => \A q \in Submits : CleanSub(q)'
<1>1. \A u \in TaskIds : RowKept(u) /\ (rows[u] = None => rows'[u] = None)
  BY Zenon DEF TouchesOnly, RowKept, Stored, IsOpen
<1>2. \A q \in Submits : subs[q].task \in TaskIds \cup {None}
  BY Zenon DEF IInv, Shaped, TypeOK, Sub
<1>3. \A c \in Cancels : cans[c].task \in TaskIds \cup {None}
  BY Zenon DEF IInv, Shaped, TypeOK, Can
<1>4. ASSUME NEW q \in Submits
      PROVE  SubInv(q)'
  <2>1. SubInv(q) /\ SubShape(subs[q])
    BY Zenon DEF IInv, Shaped
  <2>2. CASE ~ Creating(q)
    BY <1>1, <1>2, <2>1, <2>2, Zenon DEF SubInv, RowKept, TouchesOnly, Creating, SubAt
  <2>3. CASE Creating(q)
    <3>1. subs[q].task \in TaskIds /\ subs[q].task # t
      BY <1>2, <2>1, <2>3, Zenon DEF TouchesOnly, Creating, SubShape
    <3>2. /\ rows'[subs[q].task] = rows[subs[q].task]
          /\ runtimes'[subs[q].task] = runtimes[subs[q].task]
      BY <3>1, Zenon DEF TouchesOnly
    <3>3. \A c \in Cancels : cans'[c].task # subs[q].task
      BY <2>1, <2>3, <3>1, Zenon DEF SubInv, OwnTask, CansTouch
    <3> QED BY <2>1, <2>3, <3>1, <3>2, <3>3, Zenon DEF SubInv, OwnTask, TouchesOnly, Creating,
               SubAt, IsOpen, Stored
  <2> QED BY <2>2, <2>3, Zenon
<1>5. \A c \in Cancels : CanInv(c)'
  BY <1>1, <1>3, Zenon DEF IInv, CanInv, RowKept, CansTouch
<1>6. OneHolder'
  BY Zenon DEF IInv, OneHolder, TouchesOnly
<1>7. OneRowPerKey'
  BY <1>1, Zenon DEF IInv, OneRowPerKey, RowKept, Stored
<1>8. ASSUME clock'.failures = 0, NEW q \in Submits
      PROVE  CleanSub(q)'
  <2>1. CleanSub(q) /\ SubShape(subs[q])
    BY <1>8, Zenon DEF IInv, Clean, Shaped, TouchesOnly
  <2> QED BY <1>1, <1>2, <2>1, Zenon DEF CleanSub, Settled, RowKept, SubAt, TouchesOnly, SubShape
<1> QED BY <1>4, <1>5, <1>6, <1>7, <1>8, Zenon

(* It keeps the invariant if it keeps that of the task.                    *)
LEMMA TouchKeeps ==
    ASSUME IInv, NEW t \in TaskIds, TouchesOnly(t), CansTouch(t), rows[t] # None,
           Shaped', ExecInv(t)',
           clock'.failures = 0 => /\ CleanTask(t)'
                                  /\ \A c \in Cancels : cans'[c] # cans[c] => CleanCan(c)'
    PROVE  IInv'
<1>1. ASSUME NEW u \in TaskIds, u # t
      PROVE  ExecInv(u)'
  <2>1. Finishing(u) => Finishing(u)'
    BY <1>1, Zenon DEF Finishing, CansTouch, TouchesOnly, ExecAt
  <2>2. ExecInv(u)
    BY Zenon DEF IInv
  <2> QED BY <1>1, <2>1, <2>2, Zenon DEF ExecInv, TouchesOnly, ExecAt, Registered, IsOpen, Stored
<1>2. ASSUME clock'.failures = 0, NEW u \in TaskIds, u # t
      PROVE  CleanTask(u)'
  <2>1. CleanTask(u)
    BY <1>2, Zenon DEF IInv, Clean, TouchesOnly
  <2> QED BY <1>2, <2>1, Zenon DEF CleanTask, TouchesOnly, ExecAt, Settled, IsOpen, Stored,
             Creating
<1>3. ASSUME clock'.failures = 0, NEW c \in Cancels
      PROVE  CleanCan(c)'
  <2>1. CleanCan(c) /\ CanShape(cans[c]) /\ cans[c].task \in TaskIds \cup {None}
    BY <1>3, Zenon DEF IInv, Clean, TouchesOnly, Shaped, TypeOK, Can
  <2>2. \A u \in TaskIds : RowKept(u)
    BY Zenon DEF TouchesOnly, RowKept, Stored, IsOpen
  <2> QED BY <1>3, <2>1, <2>2, Zenon DEF CleanCan, Settled, RowKept, CanShape
<1> QED BY <1>1, <1>2, <1>3, TouchKeepsSubs, Zenon DEF IInv, Clean

(* executeTask runs for tasks that nobody is creating any more.            *)
LEMMA ExecutedNotCreated ==
    ASSUME IInv, NEW t \in TaskIds, ~ ExecAt(t, "none")
    PROVE  /\ \A q \in Submits : Creating(q) => subs[q].task # t
           /\ runtimes[t] # "unset" /\ rows[t] # None
  BY ZenonT(30) DEF IInv, SubInv, OwnTask, ExecInv

(* The steps of executeTask keep the invariant.                            *)
LEMMA ExecutionKeeps ==
    ASSUME IInv, NEW t \in TaskIds, ExecStep(t)
    PROVE  IInv'
<1>1. Shaped' /\ Shaped /\ TypeOK
  BY ExecutionShaped, Zenon DEF IInv, Shaped
<1>2. /\ ~ ExecAt(t, "none") /\ UNCHANGED <<reservations, subs, cans>>
      /\ \E e : execs' = [execs EXCEPT ![t] = e]
  BY ZenonT(30) DEF ExecStep, ExecMarkDispatched, ExecPick, ExecSend, ExecMarkRunning, ExecAbort,
         ExecResult, ExecWrite, ExecFallback, ExecComplete, ExecAlarm, ExecAt,
         ExecGoto, ExecFinish
<1>3. /\ \A q \in Submits : Creating(q) => subs[q].task # t
      /\ CansTouch(t) /\ (\A c \in Cancels : cans'[c] = cans[c])
  BY <1>2, ExecutedNotCreated, Zenon DEF CansTouch
<1>4. /\ execs \in [TaskIds -> Exec] /\ execs' \in [TaskIds -> Exec]
      /\ runtimes \in [TaskIds -> Runtime] /\ rows[t] # None
      /\ execs[t] \in Exec /\ execs'[t] \in Exec /\ ExecShape(execs[t])
      /\ clock.now \in Nat
  BY <1>1, <1>2, ExecutedNotCreated, NowIsNat, Zenon DEF Shaped, TypeOK
<1>5. /\ ExecInv(t) /\ runtimes[t] # "unset"
      /\ clock.failures = 0 => CleanTask(t)
  BY <1>2, Zenon DEF IInv, ExecInv, Clean
<1>6. ASSUME RowKept(t), \A u \in TaskIds : u # t => rows'[u] = rows[u],
             \A u \in TaskIds : u # t => runtimes'[u] = runtimes[u],
             clock'.failures = 0 => clock.failures = 0
      PROVE  TouchesOnly(t)
  BY <1>2, <1>3, <1>4, <1>6, Zenon DEF TouchesOnly
<1>7. CASE ExecMarkDispatched(t)
  <2>1. PICK result \in {"applied", "skipped", "failed"} :
          /\ MarkTaskDispatched(t, result)
          /\ ExecGoto(t, CASE result = "applied" -> "pick"
                           [] result = "skipped" -> "end"
                           [] result = "failed"  -> "fallback")
    BY <1>7, Zenon DEF ExecMarkDispatched
  <2>2. TouchesOnly(t) /\ (IsOpen(t)' <=> IsOpen(t)) /\ (result = "skipped" => ~ IsOpen(t))
        /\ (clock'.failures = 0 => result # "failed")
    BY <1>1, <1>6, <1>7, <2>1, DispatchedKeeps, Zenon DEF ExecMarkDispatched
  <2>3. /\ ExecAt(t, "mark") /\ runtimes' = runtimes
        /\ execs'[t].pc \in {"pick", "end", "fallback"}
        /\ execs'[t].pc = "end" => ~ IsOpen(t)
        /\ clock'.failures = 0 => execs'[t].pc # "fallback"
    <3>1. execs' = [execs EXCEPT ![t].pc = CASE result = "applied" -> "pick"
                                             [] result = "skipped" -> "end"
                                             [] result = "failed"  -> "fallback"]
      BY <2>1, Zenon DEF ExecGoto
    <3>2. CASE result = "applied"
      BY <1>4, <1>7, <2>2, <3>1, <3>2 DEF ExecMarkDispatched, Exec
    <3>3. CASE result = "skipped"
      BY <1>4, <1>7, <2>2, <3>1, <3>3 DEF ExecMarkDispatched, Exec
    <3>4. CASE result = "failed"
      BY <1>4, <1>7, <2>2, <3>1, <3>4 DEF ExecMarkDispatched, Exec
    <3> QED BY <2>1, <3>2, <3>3, <3>4, Zenon
  <2>4. ExecInv(t)'
    BY <1>2, <1>4, <1>5, <2>2, <2>3, Zenon DEF ExecInv, ExecAt, Registered, Finishing,
                                       TouchesOnly, RowKept
  <2>5. clock'.failures = 0 => CleanTask(t)'
    BY <1>4, <1>5, <2>2, <2>3, Zenon DEF CleanTask, ExecAt, TouchesOnly, RowKept, Settled
  <2> QED BY <1>3, <1>4, <1>1, <1>2, <1>5, <2>2, <2>3, <2>4, <2>5, TouchKeeps, Zenon
<1>8. ASSUME execs[t].pc \in {"pick", "send", "wait"},
             execs'[t].pc \in {"pick", "send", "sent", "write"},
             UNCHANGED <<rows, runtimes, reservations, subs, cans, clock>>
      PROVE  IInv'
  <2>1. TouchesOnly(t)
    BY <1>6, <1>8, Zenon DEF RowKept, Stored, IsOpen
  <2>2. ExecInv(t)'
    BY <1>4, <1>5, <1>8, Zenon DEF ExecInv, ExecAt, Registered, Finishing, IsOpen, Stored
  <2>3. clock'.failures = 0 => CleanTask(t)'
    BY <1>5, <1>8, Zenon DEF CleanTask, ExecAt, Settled, IsOpen, Stored
  <2> QED BY <1>3, <1>4, <1>1, <1>5, <1>8, <2>1, <2>2, <2>3, TouchKeeps, Zenon
<1>9. CASE ExecPick(t)
  <2>1. execs[t].pc = "pick" /\ execs'[t].pc \in {"send", "write"}
    BY <1>4, <1>9 DEF ExecPick, ExecAt, ExecGoto, ExecFinish, Exec
  <2> QED BY <1>8, <1>9, <2>1, Zenon DEF ExecPick
<1>10. CASE ExecSend(t)
  <2>1. execs[t].pc = "send" /\ execs'[t].pc \in {"sent", "write"}
    BY <1>4, <1>10 DEF ExecSend, ExecAt, ExecFinish, Exec
  <2> QED BY <1>8, <1>10, <2>1, Zenon DEF ExecSend
<1>11. CASE ExecResult(t)
  <2>1. execs[t].pc = "wait" /\ execs'[t].pc \in {"pick", "write"}
    BY <1>4, <1>11 DEF ExecResult, ExecAt, ExecGoto, ExecFinish, Exec
  <2> QED BY <1>8, <1>11, <2>1, Zenon DEF ExecResult
<1>12. CASE ExecMarkRunning(t)
  <2>1. PICK result \in {"applied", "skipped", "failed"} :
          /\ MarkTaskRunning(t, execs[t].attempt, result)
          /\ execs' = [execs EXCEPT
                ![t].pc = IF result = "applied" THEN "wait" ELSE "abort",
                ![t].then = IF result = "failed" THEN "fallback" ELSE "end"]
    BY <1>12, Zenon DEF ExecMarkRunning
  <2>2. execs[t].attempt \in 0 .. MaxAttempts
    BY <1>4, Zenon DEF Exec
  <2>3. /\ TouchesOnly(t) /\ (IsOpen(t)' <=> IsOpen(t))
        /\ result = "skipped" => ~ IsOpen(t)
        /\ clock'.failures = 0 => result # "failed"
    BY <1>1, <1>6, <1>12, <2>1, <2>2, RunningKeeps DEF ExecMarkRunning
  <2>4. /\ ExecAt(t, "sent") /\ runtimes' = runtimes
        /\ \/ execs'[t].pc = "wait"
           \/ execs'[t].pc = "abort" /\ execs'[t].then = "fallback"
              /\ clock'.failures # 0
           \/ execs'[t].pc = "abort" /\ execs'[t].then = "end" /\ ~ IsOpen(t)
    BY <1>4, <1>12, <2>1, <2>3 DEF ExecMarkRunning, Exec
  <2>5. ExecInv(t)'
    BY <1>2, <1>4, <1>5, <2>3, <2>4, Zenon DEF ExecInv, ExecAt, Registered, Finishing,
                                       TouchesOnly, RowKept
  <2>6. clock'.failures = 0 => CleanTask(t)'
    BY <1>4, <1>5, <2>3, <2>4, Zenon DEF CleanTask, ExecAt, TouchesOnly, RowKept, Settled
  <2> QED BY <1>3, <1>4, <1>1, <1>2, <1>5, <2>3, <2>4, <2>5, <2>6, TouchKeeps, Zenon
<1>13. CASE ExecAbort(t)
  <2>1. /\ ExecAt(t, "abort") /\ execs'[t].pc = execs[t].then
        /\ UNCHANGED <<rows, clock>>
        /\ runtimes'[t] # "unset" /\ (runtimes'[t] = "closed" <=> runtimes[t] = "closed")
        /\ \A u \in TaskIds : u # t => runtimes'[u] = runtimes[u]
    BY <1>4, <1>5, <1>13 DEF ExecAbort, ExecGoto, Exec, Runtime
  <2>2. /\ execs[t].then \in {"end", "fallback"}
        /\ execs[t].then = "end" => ~ IsOpen(t)
        /\ clock.failures = 0 => execs[t].then = "end"
    BY <1>5, <2>1, Zenon DEF ExecInv, CleanTask, ExecAt
  <2>3. TouchesOnly(t)
    BY <1>6, <2>1, Zenon DEF RowKept, Stored, IsOpen
  <2>4. (IsOpen(t)' <=> IsOpen(t)) /\ (Registered(t)' <=> Registered(t))
    BY <1>4, <1>5, <2>1, <1>1, Zenon DEF IsOpen, Stored, Registered, Runtime, TypeOK, Shaped
  <2>5. ExecInv(t)'
    BY <1>2, <1>4, <1>5, <2>1, <2>2, <2>4, Zenon DEF ExecInv, ExecAt, Finishing
  <2>6. clock'.failures = 0 => CleanTask(t)'
    BY <1>5, <2>1, <2>2, <2>4, Zenon DEF CleanTask, ExecAt, Settled
  <2> QED BY <1>3, <1>4, <1>1, <1>2, <2>1, <2>3, <2>5, <2>6, TouchKeeps, Zenon
<1>14. ASSUME NEW status \in Terminal, NEW at \in Nat, NEW skew \in Nat, NEW result,
              MarkTaskTerminal(t, status, at, skew, result),
              execs'[t].pc = "complete", runtimes' = runtimes,
              clock.failures = 0 /\ result # "failed" => execs'[t].then = "end"
       PROVE  IInv'
  <2>1. /\ TouchesOnly(t)
        /\ clock'.failures = 0 => /\ clock.failures = 0
                                  /\ ~ IsOpen(t)' /\ execs'[t].then = "end"
    BY <1>1, <1>6, <1>14, TerminalKeeps
  <2>2. rows'[t] # None
    BY <1>4, <2>1, Zenon DEF TouchesOnly, RowKept
  <2>3. ExecInv(t)'
    BY <1>5, <1>14, <2>2, Zenon DEF ExecInv, ExecAt, Finishing
  <2>4. clock'.failures = 0 => CleanTask(t)'
    BY <1>5, <1>14, <2>1, <2>2, Zenon DEF CleanTask, ExecAt, Settled
  <2> QED BY <1>3, <1>4, <1>1, <1>2, <1>5, <1>14, <2>1, <2>3, <2>4, TouchKeeps, Zenon
<1>15. CASE ExecWrite(t)
  <2>1. PICK result \in {"applied", "skipped", "failed"} :
          /\ MarkTaskTerminal(t, execs[t].want,
                IF execs[t].at = None THEN clock.now ELSE execs[t].at,
                execs[t].skew, result)
          /\ execs' = [execs EXCEPT ![t].pc = "complete",
                                    ![t].then = AfterWrite(result)]
    BY <1>15, Zenon DEF ExecWrite
  <2>2. Skews \subseteq Nat
    BY TasksAssumption, Zenon
  <2>3. /\ execs[t].want \in Terminal /\ execs[t].skew \in Nat
        /\ (IF execs[t].at = None THEN clock.now ELSE execs[t].at) \in Nat
    BY <1>4, <1>15, <2>2 DEF ExecWrite, ExecAt, ExecShape, Exec
  <2>4. /\ execs'[t].pc = "complete" /\ runtimes' = runtimes
        /\ result # "failed" => execs'[t].then = "end"
    BY <1>4, <1>15, <2>1 DEF ExecWrite, AfterWrite, Exec
  <2> QED BY <1>14, <2>1, <2>3, <2>4, Zenon
<1>16. CASE ExecFallback(t)
  <2>1. PICK result \in {"applied", "skipped", "failed"} :
          /\ MarkTaskTerminal(t, "failed", clock.now, 0, result)
          /\ execs' = [execs EXCEPT ![t].pc = "complete",
                ![t].then = IF result = "applied" THEN "end" ELSE "alarm"]
    BY <1>16, Zenon DEF ExecFallback
  <2>2. "failed" \in Terminal /\ 0 \in Nat
    BY Zenon DEF Terminal
  <2>3. clock.failures # 0
    BY <1>5, <1>16, Zenon DEF ExecFallback, ExecAt, CleanTask
  <2>4. execs'[t].pc = "complete" /\ runtimes' = runtimes
    BY <1>4, <1>16, <2>1 DEF ExecFallback, Exec
  <2> QED BY <1>4, <1>14, <2>1, <2>2, <2>3, <2>4, Zenon
<1>17. CASE ExecComplete(t)
  <2>1. /\ ExecAt(t, "complete") /\ execs'[t].pc = execs[t].then
        /\ execs[t].then \in {"end", "fallback", "alarm"}
        /\ UNCHANGED <<rows, clock>> /\ runtimes'[t] = "closed"
        /\ \A u \in TaskIds : u # t => runtimes'[u] = runtimes[u]
    BY <1>4, <1>5, <1>17 DEF ExecComplete, CompleteTaskRuntime, ExecGoto, Exec
  <2>2. TouchesOnly(t)
    BY <1>6, <2>1, Zenon DEF RowKept, Stored, IsOpen
  <2>3. ExecInv(t)'
    BY <1>4, <2>1, Zenon DEF ExecInv, ExecAt, Registered
  <2>4. clock'.failures = 0 => CleanTask(t)'
    BY <1>5, <2>1, Zenon DEF CleanTask, ExecAt, Settled, IsOpen, Stored
  <2> QED BY <1>3, <1>4, <1>1, <1>2, <2>1, <2>2, <2>3, <2>4, TouchKeeps, Zenon
<1>18. CASE ExecAlarm(t)
  <2>1. /\ ExecAt(t, "alarm") /\ execs'[t].pc = "end"
        /\ UNCHANGED <<rows, runtimes, clock>>
    BY <1>4, <1>18 DEF ExecAlarm, ExecGoto, Exec
  <2>2. TouchesOnly(t)
    BY <1>6, <2>1, Zenon DEF RowKept, Stored, IsOpen
  <2>3. ExecInv(t)'
    BY <1>4, <1>5, <2>1, Zenon DEF ExecInv, ExecAt, Registered
  <2>4. clock'.failures = 0 => CleanTask(t)'
    BY <1>5, <2>1, Zenon DEF CleanTask, ExecAt
  <2> QED BY <1>3, <1>4, <1>1, <1>2, <1>5, <2>1, <2>2, <2>3, <2>4, TouchKeeps, Zenon
<1> QED
  BY <1>7, <1>9, <1>10, <1>11, <1>12, <1>13, <1>15, <1>16, <1>17, <1>18, Zenon DEF ExecStep

(* A statement that fails is counted.                                      *)
LEMMA ReadKeepsClock ==
    ASSUME TypeOK, UNCHANGED <<rows, clock>> \/ StatementFails
    PROVE  rows' = rows /\ (clock'.failures = 0 => clock.failures = 0)
<1>1. CASE UNCHANGED <<rows, clock>>
  BY <1>1, Zenon
<1>2. CASE StatementFails
  <2>1. clock'.failures = clock.failures + 1 /\ clock.failures \in Nat
    BY <1>2 DEF StatementFails, TypeOK, Clock
  <2> QED BY <1>2, <2>1 DEF StatementFails
<1> QED BY <1>1, <1>2, Zenon

(* The steps of CancelTask keep the invariant.                             *)
LEMMA CancellationKeeps ==
    ASSUME IInv, NEW c \in Cancels,
           CancelStep(c) \/ \E t \in TaskIds : CancelTask(c, t)
    PROVE  IInv'
<1>1. Shaped' /\ Shaped /\ TypeOK
  BY CancellationShaped, Zenon DEF IInv, Shaped
<1>2. /\ cans \in [Cancels -> Can] /\ cans[c] \in Can /\ CanShape(cans[c])
      /\ runtimes \in [TaskIds -> Runtime]
      /\ clock.now \in Nat
  BY <1>1, NowIsNat, Zenon DEF Shaped, TypeOK
<1>3. CASE \E t \in TaskIds : CancelTask(c, t)
  <2>1. PICK t \in TaskIds : CancelTask(c, t)
    BY <1>3, Zenon
  <2>2. PICK p \in Submits : subs[p].task = t /\ subs[p].pc = "done"
    BY <2>1, Zenon DEF CancelTask, Known, SubAt
  <2>3. \A q \in Submits : Creating(q) => subs[q].task # t
    BY <2>2, Zenon DEF IInv, SubInv, OwnTask, Creating
  <2>9. PICK answer \in Answers :
          /\ GetTaskByID(t, answer)
          /\ cans' = [cans EXCEPT ![c] =
                IF answer \in Open
                  THEN [NoCan EXCEPT !.pc = "write", !.task = t]
                  ELSE [NoCan EXCEPT !.pc = "done", !.task = t, !.answer = answer]]
    BY <2>1, Zenon DEF CancelTask
  <2>10. rows' = rows /\ (clock'.failures = 0 => clock.failures = 0)
    BY <1>1, <2>9, ReadTyped, ReadKeepsClock, Zenon
  <2>11. rows[t] # None
    BY <2>2, TasksAssumption, Zenon DEF IInv, SubInv
  <2>4. /\ UNCHANGED <<rows, runtimes, reservations, execs, subs>>
        /\ clock'.failures = 0 => clock.failures = 0
        /\ rows[t] # None
        /\ \A d \in Cancels : d # c => cans'[d] = cans[d]
        /\ cans[c].pc = "idle" /\ cans'[c].pc \in {"write", "done"} /\ cans'[c].task = t
    BY <1>2, <2>1, <2>9, <2>10, <2>11, Zenon DEF CancelTask, NoCan
  <2>5. TouchesOnly(t) /\ CansTouch(t)
    BY <2>3, <2>4, Zenon DEF TouchesOnly, CansTouch, RowKept, Stored, IsOpen
  <2>6. ExecInv(t)'
    BY <2>4 DEF IInv, ExecInv, ExecAt, Registered, Finishing, IsOpen, Stored
  <2>7. clock'.failures = 0 => CleanTask(t)'
    BY <2>4 DEF IInv, Clean, CleanTask, ExecAt, Settled, IsOpen, Stored, Creating
  <2>8. \A d \in Cancels : cans'[d] # cans[d] => CleanCan(d)'
    BY <2>4, Zenon DEF CleanCan
  <2> QED BY <1>1, <2>4, <2>5, <2>6, <2>7, <2>8, TouchKeeps, Zenon
<1>4. CASE CancelStep(c)
  <2>1. cans[c].pc \in {"write", "complete", "read"}
    BY <1>4, Zenon DEF CancelStep, CancelWrite, CancelComplete, CancelAnswer
  <2>t. PICK t \in TaskIds : t = cans[c].task
    BY <1>2, <2>1, Zenon DEF CanShape, Can
  <2>2. t \in TaskIds /\ rows[t] # None
    BY <1>2, <2>1, <2>t, Zenon DEF IInv, CanInv, CanShape, Can
  <2>3. \A q \in Submits : Creating(q) => subs[q].task # t
    BY <2>t, Zenon DEF IInv, SubInv, OwnTask
  <2>4. /\ UNCHANGED <<reservations, subs, execs>>
        /\ \A d \in Cancels : d # c => cans'[d] = cans[d]
        /\ cans'[c].task = t
    BY <1>2, <1>4, <2>t DEF CancelStep, CancelWrite, CancelComplete, CancelAnswer,
                      CancelReturn, Can
  <2>5. CansTouch(t)
    BY <2>4, <2>t, Zenon DEF CansTouch
  <2>6. ExecInv(t) /\ (clock.failures = 0 => CleanTask(t) /\ CleanCan(c))
    BY <2>2, Zenon DEF IInv, Clean
  <2>7. CASE CancelWrite(c)
    <3>1. PICK result \in {"applied", "skipped", "failed"} :
            /\ MarkTaskTerminal(t, "canceled", clock.now, 0, result)
            /\ cans' = [cans EXCEPT ![c].pc = "complete", ![c].wrote = result]
      BY <2>7, <2>t, Zenon DEF CancelWrite
    <3>2. "canceled" \in Terminal /\ 0 \in Nat
      BY Zenon DEF Terminal
    <3>3. /\ RowKept(t) /\ (rows[t] = None => rows'[t] = None)
          /\ \A u \in TaskIds : u # t => rows'[u] = rows[u]
          /\ clock'.failures = 0 => clock.failures = 0 /\ result # "failed"
          /\ result # "failed" => ~ IsOpen(t)'
      BY <1>1, <1>2, <2>2, <3>1, <3>2, TerminalKeeps
    <3>4. runtimes' = runtimes /\ cans'[c].pc = "complete"
      BY <1>2, <2>7, <3>1, Zenon DEF CancelWrite, Can
    <3>5. TouchesOnly(t)
      BY <2>3, <2>4, <3>3, <3>4, Zenon DEF TouchesOnly
    <3>6. ExecInv(t)'
      BY <2>2, <2>4, <2>6, <3>3, <3>4, Zenon DEF ExecInv, ExecAt, Registered, Finishing, RowKept
    <3>7. clock'.failures = 0 => CleanTask(t)'
      BY <2>2, <2>4, <2>6, <3>3, <3>4, Zenon DEF CleanTask, ExecAt, Settled, RowKept, Creating
    <3>8. clock'.failures = 0 => \A d \in Cancels : cans'[d] # cans[d] => CleanCan(d)'
      BY <2>2, <2>4, <3>3, Zenon DEF CleanCan, Settled, RowKept
    <3> QED BY <1>1, <2>2, <2>5, <3>5, <3>6, <3>7, <3>8, TouchKeeps, Zenon
  <2>8. CASE CancelComplete(c)
    <3>1. /\ UNCHANGED <<rows, clock>> /\ cans[c].pc = "complete"
          /\ cans'[c].pc = "read"
          /\ \A u \in TaskIds : u # t => runtimes'[u] = runtimes[u]
          /\ runtimes'[t] = IF runtimes[t] = "unset" THEN "unset" ELSE "closed"
      BY <1>2, <2>2, <2>8, <2>t, Zenon DEF CancelComplete, CompleteTaskRuntime, Can
    <3>2. TouchesOnly(t)
      BY <2>3, <2>4, <3>1, Zenon DEF TouchesOnly, RowKept, Stored, IsOpen
    <3>3. ExecInv(t)'
      BY <2>4, <2>6, <3>1, Zenon DEF ExecInv, ExecAt, Registered, IsOpen, Stored
    <3>4. clock'.failures = 0 => CleanTask(t)'
      BY <2>4, <2>6, <3>1, <2>t, Zenon DEF CleanTask, CleanCan, ExecAt, Settled, IsOpen, Stored, Creating
    <3>5. \A d \in Cancels : cans'[d] # cans[d] => CleanCan(d)'
      BY <2>4, <3>1, Zenon DEF CleanCan
    <3> QED BY <1>1, <2>2, <2>5, <3>2, <3>3, <3>4, <3>5, TouchKeeps, Zenon
  <2>9. CASE CancelAnswer(c)
    <3>6. PICK answer \in Answers :
            /\ CancelReturn(c, answer)
            /\ UNCHANGED <<rows, clock>> \/ GetTaskByID(t, answer)
      <4>1. "error" \in Answers
        BY Zenon DEF Answers
      <4> QED BY <2>9, <2>t, <4>1, Zenon DEF CancelAnswer
    <3>7. UNCHANGED <<rows, clock>> \/ StatementFails
      BY <1>1, <2>2, <3>6, ReadTyped, Zenon
    <3>1. /\ UNCHANGED <<rows, runtimes>> /\ cans[c].pc = "read"
          /\ clock'.failures = 0 => clock.failures = 0
          /\ cans'[c].pc = "done"
      BY <1>1, <1>2, <2>9, <3>6, <3>7, ReadKeepsClock, Zenon DEF CancelAnswer, CancelReturn, Can
    <3>2. TouchesOnly(t)
      BY <2>3, <2>4, <3>1, Zenon DEF TouchesOnly, RowKept, Stored, IsOpen
    <3>3. ExecInv(t)'
      BY <2>4, <2>6, <3>1, Zenon DEF ExecInv, ExecAt, Registered, Finishing, IsOpen, Stored
    <3>4. clock'.failures = 0 => CleanTask(t)'
      BY <2>4, <2>6, <3>1, Zenon DEF CleanTask, ExecAt, Settled, IsOpen, Stored, Creating
    <3>5. \A d \in Cancels : cans'[d] # cans[d] => CleanCan(d)'
      BY <2>4, <3>1, Zenon DEF CleanCan
    <3> QED BY <1>1, <2>2, <2>5, <3>2, <3>3, <3>4, <3>5, TouchKeeps, Zenon
  <2> QED BY <1>4, <2>7, <2>8, <2>9, Zenon DEF CancelStep
<1> QED BY <1>3, <1>4, Zenon

-----------------------------------------------------------------------------
(* A step may fail a statement, delete settled rows or change nothing in   *)
(* the table: every open row stays as it is.                               *)
TableKept ==
    /\ \A u \in TaskIds : RowKept(u) /\ (rows[u] = None => rows'[u] = None)
    /\ \A u \in TaskIds : IsOpen(u) => rows'[u] = rows[u]
    /\ clock'.failures = 0 => clock.failures = 0

(* Other calls of SubmitTask are left alone, and keep what they reserved.  *)
OthersKept(q) ==
    /\ \A p \in Submits : p # q => subs'[p] = subs[p]
    /\ \A p \in Submits : p # q /\ subs[p].held => subs[p].key \in reservations'
    /\ subs'[q].held => \A p \in Submits : p # q /\ subs[p].held => subs[p].key # subs'[q].key

(* A reservation has one holder whatever one submission does.              *)
LEMMA OneHolderKept ==
    ASSUME OneHolder, NEW q \in Submits, OthersKept(q)
    PROVE  OneHolder'
<1> SUFFICES ASSUME NEW p \in Submits, NEW r \in Submits,
                    subs'[p].held, subs'[r].held, subs'[p].key = subs'[r].key
             PROVE  p = r
  BY Zenon DEF OneHolder
<1> QED BY Zenon DEF OneHolder, OthersKept

(* A call that creates no task keeps the invariant if it keeps its own.    *)
LEMMA QuietSubmitKeeps ==
    ASSUME IInv, NEW q \in Submits, TableKept, OthersKept(q),
           UNCHANGED <<runtimes, execs, cans>>, Shaped',
           ~ Creating(q), ~ Creating(q)',
           \A p \in Submits : p # q /\ Creating(p) => subs'[q].task # subs[p].task,
           SubInv(q)', clock'.failures = 0 => CleanSub(q)'
    PROVE  IInv'
<1>1. \A u \in TaskIds : IsOpen(u)' <=> IsOpen(u)
  BY Zenon DEF TableKept, RowKept, IsOpen, Stored
<1>2. /\ \A p \in Submits : subs[p].task \in TaskIds \cup {None}
      /\ \A c \in Cancels : cans[c].task \in TaskIds \cup {None}
  BY Zenon DEF IInv, Shaped, TypeOK, Sub, Can
<1>3. ASSUME NEW p \in Submits
      PROVE  SubInv(p)'
  <2>1. SUFFICES ASSUME p # q PROVE SubInv(p)'
    BY Zenon
  <2>2. SubInv(p) /\ subs'[p] = subs[p] /\ SubShape(subs[p])
    BY <2>1, Zenon DEF IInv, OthersKept, Shaped
  <2>3. /\ subs[p].task # None =>
             /\ rows'[subs[p].task] # None
             /\ Stored(subs[p].task)' => rows'[subs[p].task].key = subs[p].key
        /\ subs[p].held => subs[p].key \in reservations'
    <3>1. subs[p].task # None => RowKept(subs[p].task)
      BY <1>2, Zenon DEF TableKept
    <3> QED BY <2>1, <2>2, <3>1, Zenon DEF SubInv, RowKept, OthersKept, Stored
  <2>4. CASE ~ Creating(p)
    BY <2>2, <2>3, <2>4, Zenon DEF SubInv, Creating, SubAt, Stored
  <2>5. CASE Creating(p)
    <3>1. subs[p].task \in TaskIds /\ OwnTask(p) /\ subs'[q].task # subs[p].task
      BY <1>2, <2>1, <2>2, <2>5, Zenon DEF SubInv, SubShape, Creating
    <3>2. PICK t \in TaskIds : t = subs[p].task
      BY <3>1, Zenon
    <3>3. IsOpen(t)' /\ runtimes'[t] = "unset"
      BY <1>1, <3>1, <3>2, Zenon DEF OwnTask
    <3>4. \A r \in Submits : subs'[r].task = t => r = p
      BY <3>1, <3>2, Zenon DEF OwnTask, OthersKept
    <3>5. \A c \in Cancels : cans'[c].task # t
      BY <3>1, <3>2, Zenon DEF OwnTask
    <3>6. OwnTask(p)'
      BY <2>2, <3>2, <3>3, <3>4, <3>5, Zenon DEF OwnTask, IsOpen, Stored
    <3> QED BY <2>2, <2>3, <2>5, <3>6, Zenon DEF SubInv, Creating, SubAt, Stored
  <2> QED BY <2>4, <2>5, Zenon
<1>4. ASSUME NEW t \in TaskIds
      PROVE  ExecInv(t)'
  BY <1>1, Zenon DEF IInv, ExecInv, ExecAt, Registered, Finishing, TableKept, RowKept
<1>5. \A c \in Cancels : CanInv(c)'
  BY <1>2, Zenon DEF IInv, CanInv, TableKept, RowKept
<1>6. OneHolder'
  BY OneHolderKept, Zenon DEF IInv
<1>7. OneRowPerKey'
  BY Zenon DEF IInv, OneRowPerKey, TableKept, RowKept, Stored
<1>8. ASSUME clock'.failures = 0
      PROVE  Clean'
  <2>1. Clean /\ \A u \in TaskIds : Settled(u) => Settled(u)'
    BY <1>1, <1>8, Zenon DEF IInv, TableKept, RowKept, Settled
  <2>2. ASSUME NEW t \in TaskIds
        PROVE  CleanTask(t)'
    <3>1. IsOpen(t)' /\ runtimes'[t] = "unset" =>
             \E p \in Submits : Creating(p)' /\ subs'[p].task = t
      BY <1>1, <2>1 DEF Clean, CleanTask, OthersKept, Creating
    <3> QED BY <2>1, <3>1, Zenon DEF Clean, CleanTask, ExecAt
  <2>3. ASSUME NEW c \in Cancels
        PROVE  CleanCan(c)'
    <3>1. CleanCan(c) /\ CanShape(cans[c])
      BY <2>1, Zenon DEF Clean, IInv, Shaped
    <3>2. CASE cans[c].pc = "complete"
      <4>1. cans[c].task \in TaskIds /\ Settled(cans[c].task)
        BY <1>2, <3>1, <3>2, Zenon DEF CleanCan, CanShape
      <4> QED BY <2>1, <4>1, Zenon DEF CleanCan, Settled, IsOpen, Stored
    <3> QED BY <3>2, Zenon DEF CleanCan
  <2>4. ASSUME NEW p \in Submits
        PROVE  CleanSub(p)'
    <3>1. SUFFICES ASSUME p # q PROVE CleanSub(p)'
      BY <1>8, Zenon
    <3>2. CleanSub(p) /\ SubShape(subs[p]) /\ subs'[p] = subs[p]
      BY <2>1, <3>1, Zenon DEF Clean, IInv, Shaped, OthersKept
    <3>3. CASE SubAt(p, "resolve") \/ SubAt(p, "read") \/ SubAt(p, "load")
      <4>1. subs[p].task \in TaskIds
        BY <1>2, <3>2, <3>3, Zenon DEF SubShape, SubAt
      <4> QED BY <2>1, <3>2, <4>1, Zenon DEF CleanSub, Settled, IsOpen, Stored, SubAt
    <3> QED BY <3>2, <3>3, Zenon DEF CleanSub, SubAt
  <2> QED BY <2>2, <2>3, <2>4, Zenon DEF Clean
<1> QED BY <1>3, <1>4, <1>5, <1>6, <1>7, <1>8, Zenon DEF IInv

(* A read, and a statement that fails, keep the table.                     *)
LEMMA ReadKeepsTable ==
    ASSUME TypeOK, UNCHANGED <<rows, clock>> \/ StatementFails
    PROVE  TableKept
  BY ReadKeepsClock, Zenon DEF TableKept, RowKept, Stored, IsOpen

(* DELETE FROM tasks takes settled rows only.                              *)
LEMMA DeleteKeepsTable ==
    ASSUME TypeOK, DeleteExpiredTasks, clock'.failures = clock.failures
    PROVE  TableKept
<1>1. ASSUME NEW u \in TaskIds
      PROVE  /\ RowKept(u) /\ (rows[u] = None => rows'[u] = None)
             /\ IsOpen(u) => rows'[u] = rows[u]
  <2>1. rows'[u] = IF Expired(u) THEN Gone ELSE rows[u]
    BY Zenon DEF DeleteExpiredTasks
  <2>2. None # Gone /\ Open \cap Terminal = {}
    BY TasksAssumption, Zenon DEF Open, Terminal
  <2> QED BY <2>1, <2>2, Zenon DEF RowKept, Stored, IsOpen, Expired, IsTerminal
<1> QED BY <1>1, Zenon DEF TableKept

(* The pruner removes terminal rows only.                                  *)
LEMMA PruneKeepsTable ==
    ASSUME TypeOK, MaybePruneExpiredTasks
    PROVE  TableKept
<1>1. CASE UNCHANGED <<rows, clock>>
  BY <1>1, ReadKeepsTable, Zenon
<1>2. CASE clock' = [clock EXCEPT !.pruned = clock.now] /\ DeleteExpiredTasks
  <2>1. clock'.failures = clock.failures
    BY <1>2, Zenon DEF TypeOK, Clock
  <2> QED BY <1>2, <2>1, DeleteKeepsTable, Zenon
<1>3. CASE /\ UNCHANGED rows
           /\ clock' = [clock EXCEPT !.pruned = clock.now, !.failures = @ + 1]
  <2>1. clock'.failures # 0
    BY <1>3 DEF TypeOK, Clock
  <2> QED BY <1>3, <2>1, Zenon DEF TableKept, RowKept, Stored, IsOpen
<1> QED BY <1>1, <1>2, <1>3, Zenon DEF MaybePruneExpiredTasks

(* A return of SubmitTask drops the reservation of the call and no other.  *)
LEMMA ReturnKeeps ==
    ASSUME IInv, NEW q \in Submits, NEW answer \in Answers, Return(q, answer),
           TableKept, UNCHANGED <<runtimes, execs, cans>>, Shaped', ~ Creating(q),
           clock'.failures = 0 /\ subs[q].mode = "sync" => answer \notin Open
    PROVE  IInv'
<1>1. subs \in [Submits -> Sub] /\ subs[q] \in Sub /\ SubInv(q)
  BY Zenon DEF IInv, Shaped, TypeOK
<1>2. /\ subs'[q].pc = "done" /\ subs'[q].answer = answer /\ subs'[q].held = FALSE
      /\ subs'[q].task = subs[q].task /\ subs'[q].key = subs[q].key
      /\ subs'[q].mode = subs[q].mode
      /\ \A p \in Submits : p # q => subs'[p] = subs[p]
  BY <1>1, Zenon DEF Return, Sub
<1>3. OthersKept(q)
  <2>1. ASSUME NEW p \in Submits, p # q, subs[p].held
        PROVE  subs[p].key \in reservations'
    BY <2>1, Zenon DEF Return, IInv, SubInv, OneHolder
  <2> QED BY <1>2, <2>1, Zenon DEF OthersKept
<1>4. ~ Creating(q)'
  BY <1>2, Zenon DEF Creating
<1>5. \A p \in Submits : p # q /\ Creating(p) => subs'[q].task # subs[p].task
  BY <1>2 DEF IInv, SubInv, OwnTask
<1>6. SubInv(q)'
  <2>1. PICK t \in TaskIds \cup {None} : t = subs[q].task
    BY <1>1, Zenon DEF Sub
  <2>2. t # None => RowKept(t)
    BY Zenon DEF TableKept
  <2>3. t # None => /\ rows'[t] # None
                    /\ Stored(t)' => rows'[t].key = subs[q].key
    BY <1>1, <2>1, <2>2, Zenon DEF SubInv, RowKept, Stored
  <2> QED BY <1>2, <2>1, <2>3, Zenon DEF SubInv, SubAt, Creating, Stored
<1>7. clock'.failures = 0 => CleanSub(q)'
  BY <1>2, Zenon DEF CleanSub, SubAt
<1> QED BY <1>3, <1>4, <1>5, <1>6, <1>7, QuietSubmitKeeps, Zenon

(* SubmitTask goes on with what it has.                                    *)
LEMMA GoesOnKeeps ==
    ASSUME IInv, NEW q \in Submits, TableKept,
           UNCHANGED <<runtimes, execs, cans, reservations>>, Shaped', ~ Creating(q),
           \A p \in Submits : p # q => subs'[p] = subs[p],
           subs'[q].pc \in {"create", "resolve", "wait", "read"},
           subs'[q].pc = "create" => subs[q].held,
           subs'[q].task = subs[q].task, subs'[q].key = subs[q].key,
           subs'[q].held = subs[q].held,
           clock'.failures = 0 => CleanSub(q)'
    PROVE  IInv'
<1>1. subs[q] \in Sub /\ SubInv(q)
  BY Zenon DEF IInv, Shaped, TypeOK
<1>2. OthersKept(q)
  BY Zenon DEF OthersKept, IInv, SubInv, OneHolder
<1>3. ~ Creating(q)'
  BY Zenon DEF Creating
<1>4. \A p \in Submits : p # q /\ Creating(p) => subs'[q].task # subs[p].task
  BY DEF IInv, SubInv, OwnTask
<1>5. SubInv(q)'
  <2>1. PICK t \in TaskIds \cup {None} : t = subs[q].task
    BY <1>1, Zenon DEF Sub
  <2>2. t # None => RowKept(t)
    BY Zenon DEF TableKept
  <2>3. t # None => /\ rows'[t] # None
                    /\ Stored(t)' => rows'[t].key = subs[q].key
    BY <1>1, <2>1, <2>2, Zenon DEF SubInv, RowKept, Stored
  <2>4. subs'[q].pc \notin {"lookup", "runtime"}
    BY Zenon
  <2> QED BY <1>1, <1>3, <2>1, <2>3, <2>4, Zenon DEF SubInv, SubAt, Stored
<1> QED BY <1>2, <1>3, <1>4, <1>5, QuietSubmitKeeps, Zenon

(* SubmitTask joins the task that has its request id: nobody else can be   *)
(* creating that task, as the request id is reserved.                      *)
LEMMA JoinsKeeps ==
    ASSUME IInv, NEW q \in Submits, NEW t \in RowsOf(subs[q].key),
           subs' = [subs EXCEPT ![q].pc = "runtime", ![q].task = t],
           UNCHANGED <<rows, clock, runtimes, execs, cans, reservations>>,
           Shaped', subs[q].pc \in {"lookup", "create"}, subs[q].key # None
    PROVE  IInv'
<1>1. /\ subs \in [Submits -> Sub] /\ subs[q] \in Sub /\ SubInv(q) /\ TypeOK
      /\ SubShape(subs[q])
  BY Zenon DEF IInv, Shaped, TypeOK
<1>2. t \in TaskIds /\ Stored(t) /\ rows[t].key = subs[q].key /\ rows[t] # None
  BY Zenon DEF RowsOf, Stored
<1>3. subs[q].held /\ ~ Creating(q)
  BY <1>1, Zenon DEF SubInv, SubAt, Creating
<1>4. /\ subs'[q].pc = "runtime" /\ subs'[q].task = t /\ subs'[q].key = subs[q].key
      /\ subs'[q].held = subs[q].held /\ subs'[q].answer = subs[q].answer
      /\ \A p \in Submits : p # q => subs'[p] = subs[p]
  BY <1>1, Zenon DEF Sub
<1>10. \A p \in Submits : subs[p].held => subs[p].key \in reservations
  BY Zenon DEF IInv, SubInv
<1>5. OthersKept(q)
  BY <1>3, <1>4, <1>10, Zenon DEF OthersKept, IInv, OneHolder
<1>6. ASSUME NEW p \in Submits, p # q, Creating(p), subs[p].task = t
      PROVE  FALSE
  <2>1. SubInv(p) /\ t # None
    BY <1>2, TasksAssumption, Zenon DEF IInv
  <2>2. subs[p].key = subs[q].key /\ (subs[p].held \/ subs[p].key = None)
    BY <1>2, <1>6, <2>1, Zenon DEF SubInv
  <2> QED BY <1>3, <1>6, <2>2, Zenon DEF IInv, OneHolder
<1>7. SubInv(q)'
  <2>1. Stored(t)' /\ rows'[t] # None /\ rows'[t].key = subs[q].key
    BY <1>2, Zenon DEF Stored
  <2>2. ~ Creating(q)' /\ ~ SubAt(q, "create")'
    BY <1>4, Zenon DEF Creating, SubAt
  <2> QED BY <1>1, <1>3, <1>4, <2>1, <2>2 DEF SubInv, Stored
<1>8. CleanSub(q)'
  <2>1. None \notin Open
    BY TasksAssumption, Zenon DEF Answers
  <2>2. subs[q].answer = None
    BY <1>1, Zenon DEF SubShape
  <2> QED BY <1>4, <2>1, <2>2, Zenon DEF CleanSub, SubAt
<1>9. TableKept /\ ~ Creating(q)'
  BY <1>1, <1>4, ReadKeepsTable, Zenon DEF Creating
<1> QED BY <1>3, <1>4, <1>5, <1>6, <1>7, <1>8, <1>9, QuietSubmitKeeps, Zenon

(* The call that created a task hands it on; it is the only one to know it.*)
LEMMA CreatorKeeps ==
    ASSUME IInv, NEW q \in Submits, NEW t \in TaskIds, Creating(q), subs[q].task = t,
           \A u \in TaskIds : u # t => /\ rows'[u] = rows[u]
                                       /\ runtimes'[u] = runtimes[u]
                                       /\ execs'[u] = execs[u],
           RowKept(t), UNCHANGED cans, Shaped', ~ Creating(q)',
           \A p \in Submits : p # q => subs'[p] = subs[p],
           subs'[q].pc \notin {"create", "lookup", "runtime"},
           subs'[q].task = t, subs'[q].key = subs[q].key, subs'[q].held = FALSE,
           reservations' = reservations \ {subs[q].key},
           ExecInv(t)',
           clock'.failures = 0 => clock.failures = 0 /\ CleanTask(t)' /\ CleanSub(q)'
    PROVE  IInv'
<1>1. /\ \A p \in Submits : subs[p].task \in TaskIds \cup {None}
      /\ \A c \in Cancels : cans[c].task \in TaskIds \cup {None}
      /\ reservations \subseteq Keys
  BY Zenon DEF IInv, Shaped, TypeOK, Sub, Can
<1>2. SubInv(q) /\ OwnTask(q) /\ t # None /\ rows[t] # None
  BY TasksAssumption, Zenon DEF IInv, SubInv
<1>3. /\ \A p \in Submits : p # q => subs[p].task # t
      /\ \A c \in Cancels : cans[c].task # t
  BY <1>2, Zenon DEF OwnTask
<1>4. OthersKept(q)
  <2>1. ASSUME NEW p \in Submits, p # q, subs[p].held
        PROVE  subs[p].key \in reservations'
    <3>1. subs[p].key \in reservations /\ subs[p].key # None
      BY <1>1, <2>1, TasksAssumption, Zenon DEF IInv, SubInv
    <3>2. subs[q].held \/ subs[q].key = None
      BY <1>2, Zenon DEF SubInv
    <3> QED BY <2>1, <3>1, <3>2, Zenon DEF IInv, OneHolder
  <2> QED BY <2>1, Zenon DEF OthersKept
<1>5. ASSUME NEW p \in Submits
      PROVE  SubInv(p)'
  <2>1. CASE p = q
    BY <1>2, <2>1, Zenon DEF SubInv, RowKept, SubAt, Stored
  <2>2. CASE p # q
    <3>1. /\ SubInv(p) /\ SubShape(subs[p]) /\ subs'[p] = subs[p]
          /\ subs[p].held => subs[p].key \in reservations'
      BY <1>4, <2>2, Zenon DEF IInv, Shaped, OthersKept
    <3>2. PICK u \in TaskIds \cup {None} : u = subs[p].task
      BY <1>1, Zenon
    <3>3. u # None => rows'[u] = rows[u] /\ runtimes'[u] = runtimes[u]
      BY <1>3, <2>2, <3>2, Zenon
    <3>4. u # None => rows'[u] # None /\ (Stored(u)' => rows'[u].key = subs[p].key)
      BY <3>1, <3>2, <3>3, Zenon DEF SubInv, Stored
    <3>5. CASE ~ Creating(p)
      BY <3>1, <3>2, <3>4, <3>5, Zenon DEF SubInv, Creating, SubAt, Stored
    <3>6. CASE Creating(p)
      <4>1. OwnTask(p) /\ u # None
        BY <3>1, <3>2, <3>6, Zenon DEF SubInv, SubShape, Creating
      <4>2. IsOpen(u)' /\ runtimes'[u] = "unset"
        BY <3>2, <3>3, <4>1, Zenon DEF OwnTask, IsOpen, Stored
      <4>3. \A r \in Submits : subs'[r].task = u => r = p
        BY <1>3, <3>2, <4>1 DEF OwnTask
      <4>4. OwnTask(p)'
        BY <3>1, <3>2, <4>1, <4>2, <4>3, ZenonT(30) DEF OwnTask, IsOpen, Stored
      <4> QED BY <3>1, <3>2, <3>4, <3>6, <4>4, Zenon DEF SubInv, Creating, SubAt, Stored
    <3> QED BY <3>5, <3>6, Zenon
  <2> QED BY <2>1, <2>2, Zenon
<1>6. ASSUME NEW u \in TaskIds
      PROVE  ExecInv(u)'
  BY <1>3 DEF IInv, ExecInv, ExecAt, Registered, Finishing, IsOpen, Stored
<1>7. \A c \in Cancels : CanInv(c)'
  BY <1>1, <1>3, ZenonT(30) DEF IInv, CanInv
<1>8. OneHolder'
  BY <1>4, OneHolderKept, Zenon DEF IInv
<1>9. OneRowPerKey'
  BY <1>2 DEF IInv, OneRowPerKey, RowKept, Stored
<1>10. ASSUME clock'.failures = 0
       PROVE  Clean'
  <2>1. Clean
    BY <1>10, Zenon DEF IInv
  <2>2. ASSUME NEW u \in TaskIds, u # t
        PROVE  CleanTask(u)'
    BY <2>1, <2>2 DEF Clean, CleanTask, ExecAt, Settled, IsOpen, Stored, Creating
  <2>3. ASSUME NEW c \in Cancels
        PROVE  CleanCan(c)'
    <3>1. CleanCan(c) /\ CanShape(cans[c])
      BY <2>1, Zenon DEF Clean, IInv, Shaped
    <3> QED BY <1>1, <1>3, <3>1, Zenon DEF CleanCan, CanShape, Settled, IsOpen, Stored
  <2>4. ASSUME NEW p \in Submits, p # q
        PROVE  CleanSub(p)'
    <3>1. CleanSub(p) /\ SubShape(subs[p]) /\ subs'[p] = subs[p]
      BY <2>1, <2>4, Zenon DEF Clean, IInv, Shaped
    <3>2. PICK u \in TaskIds \cup {None} : u = subs[p].task
      BY <1>1, Zenon
    <3>3. u # None => (Settled(u)' <=> Settled(u))
      BY <1>3, <2>4, <3>2, Zenon DEF Settled, IsOpen, Stored
    <3> QED BY <3>1, <3>2, <3>3, Zenon DEF CleanSub, SubShape, SubAt, Settled, IsOpen, Stored
  <2> QED BY <1>10, <2>2, <2>3, <2>4, Zenon DEF Clean
<1> QED BY <1>5, <1>6, <1>7, <1>8, <1>9, <1>10, Zenon DEF IInv

(* InsertTask: an id that nobody knows, for a request id that no row has.  *)
LEMMA InsertKeeps ==
    ASSUME IInv, NEW q \in Submits, NEW t \in TaskIds, SubAt(q, "create"),
           ~ Conflicts(subs[q].key), rows[t] = None,
           rows' = [rows EXCEPT ![t] = QueuedRow(subs[q].key)],
           subs' = [subs EXCEPT ![q].task = t, ![q].at = clock.now,
                      ![q].pc = IF subs[q].kind = "immediate"
                                  THEN "immediate" ELSE "register"],
           UNCHANGED <<runtimes, reservations, execs, cans, clock>>, Shaped'
    PROVE  IInv'
<1>1. /\ \A p \in Submits : subs[p].task \in TaskIds \cup {None}
      /\ \A c \in Cancels : cans[c].task \in TaskIds \cup {None}
      /\ subs \in [Submits -> Sub] /\ subs[q] \in Sub
      /\ rows \in [TaskIds -> Row \cup {None, Gone}]
      /\ SubShape(subs[q]) /\ SubInv(q)
  BY Zenon DEF IInv, Shaped, TypeOK, Sub, Can
<1>2. /\ subs'[q].pc \in {"immediate", "register"} /\ subs'[q].task = t
      /\ subs'[q].key = subs[q].key /\ subs'[q].held = subs[q].held
      /\ subs'[q].answer = None
      /\ \A p \in Submits : p # q => subs'[p] = subs[p]
  BY <1>1, ZenonT(30) DEF Sub, SubShape, SubAt
<1>3. /\ \A u \in TaskIds : u # t => rows'[u] = rows[u]
      /\ rows'[t].key = subs[q].key /\ rows'[t].status = "queued"
      /\ rows'[t] \in Row
  <2>1. QueuedRow(subs[q].key) \in Row
    BY <1>1, TasksAssumption DEF QueuedRow, Row, Sub, Open
  <2> QED BY <1>1, <2>1, Zenon DEF QueuedRow
<1>4. rows'[t] # None /\ Stored(t)' /\ IsOpen(t)'
  BY <1>3, TasksAssumption, Zenon DEF Stored, IsOpen, Open
<1>5. /\ \A p \in Submits : subs[p].task # t
      /\ \A c \in Cancels : cans[c].task # t
      /\ t # None
  BY TasksAssumption, Zenon DEF IInv, SubInv, CanInv
<1>6. ExecAt(t, "none") /\ runtimes[t] = "unset"
  BY Zenon DEF IInv, ExecInv
<1>7. OthersKept(q)
  BY <1>2, Zenon DEF OthersKept, IInv, SubInv, OneHolder
<1>8. ASSUME NEW p \in Submits
      PROVE  SubInv(p)'
  <2>1. CASE p = q
    <3>1. OwnTask(q)'
      BY <1>2, <1>4, <1>5, <1>6, ZenonT(30) DEF OwnTask, IsOpen, Stored
    <3>2. subs[q].held \/ subs[q].key = None
      BY <1>1, Zenon DEF SubInv
    <3> QED BY <1>1, <1>2, <1>3, <1>4, <2>1, <3>1, <3>2 DEF SubInv, SubAt, Creating, Stored
  <2>2. CASE p # q
    <3>1. /\ SubInv(p) /\ SubShape(subs[p]) /\ subs'[p] = subs[p]
          /\ subs[p].held => subs[p].key \in reservations'
      BY <1>2, <1>7, <2>2, Zenon DEF IInv, Shaped, OthersKept
    <3>2. PICK u \in TaskIds \cup {None} : u = subs[p].task
      BY <1>1, Zenon
    <3>3. u # t /\ (u # None => rows'[u] = rows[u])
      BY <1>3, <1>5, <3>2, Zenon
    <3>4. u # None => rows'[u] # None /\ (Stored(u)' => rows'[u].key = subs[p].key)
      BY <3>1, <3>2, <3>3, Zenon DEF SubInv, Stored
    <3>5. CASE ~ Creating(p)
      BY <3>1, <3>2, <3>4, <3>5, Zenon DEF SubInv, Creating, SubAt, Stored
    <3>6. CASE Creating(p)
      <4>1. OwnTask(p) /\ u # None
        BY <3>1, <3>2, <3>6, Zenon DEF SubInv, SubShape, Creating
      <4>2. IsOpen(u)' /\ runtimes'[u] = "unset"
        BY <3>2, <3>3, <4>1, Zenon DEF OwnTask, IsOpen, Stored
      <4>3. \A r \in Submits : subs'[r].task = u => r = p
        BY <1>2, <3>2, <3>3, <4>1, Zenon DEF OwnTask
      <4>4. OwnTask(p)'
        BY <3>1, <3>2, <4>1, <4>2, <4>3, Zenon DEF OwnTask, IsOpen, Stored
      <4> QED BY <3>1, <3>2, <3>4, <3>6, <4>4, Zenon DEF SubInv, Creating, SubAt, Stored
    <3> QED BY <3>5, <3>6, Zenon
  <2> QED BY <2>1, <2>2, Zenon
<1>9. ASSUME NEW u \in TaskIds
      PROVE  ExecInv(u)'
  <2>1. CASE u = t
    BY <1>6, <2>1, Zenon DEF ExecInv, ExecAt, Registered
  <2>2. CASE u # t
    BY <1>3, <2>2, ZenonT(30) DEF IInv, ExecInv, ExecAt, Registered, Finishing, IsOpen, Stored
  <2> QED BY <2>1, <2>2, Zenon
<1>10. \A c \in Cancels : CanInv(c)'
  BY <1>1, <1>3, <1>5, Zenon DEF IInv, CanInv
<1>11. OneHolder'
  BY <1>7, OneHolderKept, Zenon DEF IInv
<1>12. OneRowPerKey'
  <2>1. subs[q].key # None =>
          \A u \in TaskIds : Stored(u) => rows[u].key # subs[q].key
    BY Zenon DEF Conflicts, RowsOf
  <2> QED BY <1>3, <2>1 DEF IInv, OneRowPerKey, Stored
<1>13. ASSUME clock'.failures = 0
       PROVE  Clean'
  <2>1. Clean
    BY <1>13, Zenon DEF IInv
  <2>2. ASSUME NEW u \in TaskIds
        PROVE  CleanTask(u)'
    <3>1. CASE u = t
      <4>1. \E p \in Submits : Creating(p)' /\ subs'[p].task = t
        BY <1>2, Zenon DEF Creating
      <4>2. execs[t] = NoExec
        BY <1>6, Zenon DEF IInv, Shaped, ExecShape, ExecAt
      <4> QED BY <1>6, <3>1, <4>1, <4>2, Zenon DEF CleanTask, ExecAt, NoExec
    <3>2. CASE u # t
      <4>1. CleanTask(u) /\ (IsOpen(u)' <=> IsOpen(u)) /\ (Settled(u)' <=> Settled(u))
        BY <1>3, <2>1, <3>2, Zenon DEF Clean, Settled, IsOpen, Stored
      <4>2. \A p \in Submits : Creating(p) => p # q
        BY Zenon DEF Creating, SubAt
      <4> QED BY <1>2, <4>1, <4>2, Zenon DEF CleanTask, ExecAt, Creating
    <3> QED BY <3>1, <3>2, Zenon
  <2>3. ASSUME NEW c \in Cancels
        PROVE  CleanCan(c)'
    <3>1. CleanCan(c) /\ CanShape(cans[c])
      BY <2>1, Zenon DEF Clean, IInv, Shaped
    <3> QED BY <1>1, <1>3, <1>5, <3>1, Zenon DEF CleanCan, CanShape, Settled, IsOpen, Stored
  <2>4. ASSUME NEW p \in Submits
        PROVE  CleanSub(p)'
    <3>1. CASE p = q
      <4>1. None \notin Open
        BY TasksAssumption, Zenon DEF Answers
      <4> QED BY <1>2, <3>1, <4>1, Zenon DEF CleanSub, SubAt
    <3>2. CASE p # q
      <4>1. CleanSub(p) /\ SubShape(subs[p]) /\ subs'[p] = subs[p]
        BY <1>2, <2>1, <3>2, Zenon DEF Clean, IInv, Shaped
      <4>2. PICK u \in TaskIds \cup {None} : u = subs[p].task
        BY <1>1, Zenon
      <4>3. u # None => (Settled(u)' <=> Settled(u))
        BY <1>3, <1>5, <4>2, Zenon DEF Settled, IsOpen, Stored
      <4> QED BY <4>1, <4>2, <4>3, Zenon DEF CleanSub, SubShape, SubAt, Settled, IsOpen, Stored
    <3> QED BY <3>1, <3>2, Zenon
  <2> QED BY <2>2, <2>3, <2>4, Zenon DEF Clean
<1> QED BY <1>8, <1>9, <1>10, <1>11, <1>12, <1>13, Zenon DEF IInv

(* The steps of SubmitTask keep the invariant.                             *)
LEMMA SubmissionKeeps ==
    ASSUME IInv, NEW q \in Submits,
           \/ \E key \in Keys \cup {None}, mode \in Modes, kind \in Kinds :
                SubmitTask(q, key, mode, kind)
           \/ SubmitStep(q)
           \/ AbandonSubmit(q)
    PROVE  IInv'
<1>1. /\ Shaped /\ TypeOK /\ SubInv(q)
      /\ subs \in [Submits -> Sub] /\ subs[q] \in Sub /\ SubShape(subs[q])
      /\ clock.failures = 0 => Clean
  BY Zenon DEF IInv, Shaped, TypeOK
<1>2. SubAt(q, "register") => execs[subs[q].task] = NoExec
  BY <1>1, ZenonT(30) DEF SubInv, Creating, OwnTask, IInv, Shaped, ExecInv, ExecShape, ExecAt,
              SubAt, Sub, SubShape
<1>3. Shaped'
  BY <1>1, <1>2, SubmitShaped, Zenon
<1>4. None \notin Open /\ {"busy", "error", "notfound"} \subseteq Answers
      /\ {"busy", "error", "notfound"} \cap Open = {}
  BY TasksAssumption, Zenon DEF Answers, Open
<1>5. UNCHANGED <<rows, clock>> => TableKept
  BY <1>1, ReadKeepsTable, Zenon
<1>6. ASSUME NEW key \in Keys \cup {None}, NEW mode \in Modes, NEW kind \in Kinds,
             SubmitTask(q, key, mode, kind)
      PROVE  IInv'
  <2>1. TableKept
    BY <1>1, <1>6, PruneKeepsTable, Zenon DEF SubmitTask
  <2>2. /\ subs'[q].pc \in {"create", "reserve"} /\ subs'[q].key = key
        /\ subs'[q].pc = "create" => key = None
        /\ subs'[q].task = None /\ subs'[q].held = FALSE /\ subs'[q].answer = None
        /\ \A p \in Submits : p # q => subs'[p] = subs[p]
        /\ SubAt(q, "idle")
    BY <1>1, <1>6, Zenon DEF SubmitTask, NoSub
  <2>3. OthersKept(q)
    BY <1>6, <2>2, Zenon DEF SubmitTask, OthersKept, IInv, SubInv
  <2>4. \A p \in Submits : p # q /\ Creating(p) => subs'[q].task # subs[p].task
    BY <2>2, Zenon DEF IInv, Shaped, SubShape, Creating
  <2>5. SubInv(q)' /\ ~ Creating(q) /\ ~ Creating(q)'
    BY <2>2, Zenon DEF SubInv, SubAt, Creating
  <2>6. CleanSub(q)'
    BY <1>4, <2>2, Zenon DEF CleanSub, SubAt
  <2> QED BY <1>3, <1>6, <2>1, <2>3, <2>4, <2>5, <2>6, QuietSubmitKeeps, Zenon DEF SubmitTask
<1>7. CASE ReserveRequest(q)
  <2>1. CASE Return(q, "busy")
    BY <1>3, <1>4, <1>5, <1>7, <2>1, ReturnKeeps, Zenon DEF ReserveRequest, SubAt, Creating
  <2>2. CASE /\ subs[q].key \notin reservations
             /\ reservations' = reservations \cup {subs[q].key}
             /\ subs' = [subs EXCEPT ![q].pc = "lookup", ![q].held = TRUE]
    <3>1. /\ subs'[q].pc = "lookup" /\ subs'[q].key = subs[q].key /\ subs'[q].held = TRUE
          /\ subs'[q].task = subs[q].task /\ subs'[q].answer = None
          /\ \A p \in Submits : p # q => subs'[p] = subs[p]
          /\ SubAt(q, "reserve") /\ UNCHANGED <<rows, clock, runtimes, execs, cans>>
      BY <1>1, <1>7, <2>2, Zenon DEF ReserveRequest, Sub, SubShape, SubAt
    <3>9. \A p \in Submits : subs[p].held => subs[p].key \in reservations
      BY Zenon DEF IInv, SubInv
    <3>2. OthersKept(q)
      BY <2>2, <3>1, <3>9, Zenon DEF OthersKept
    <3>3. \A p \in Submits : p # q /\ Creating(p) => subs'[q].task # subs[p].task
      BY <3>1 DEF IInv, SubInv, OwnTask
    <3>4. ~ Creating(q) /\ ~ Creating(q)'
      BY <3>1, Zenon DEF SubAt, Creating
    <3>5. SubInv(q)'
      BY <1>1, <2>2, <3>1, <3>4 DEF SubInv, SubAt, Stored
    <3>6. CleanSub(q)'
      BY <1>4, <3>1, Zenon DEF CleanSub, SubAt
    <3> QED BY <1>3, <1>5, <3>1, <3>2, <3>3, <3>4, <3>5, <3>6, QuietSubmitKeeps, Zenon
  <2> QED BY <1>7, <2>1, <2>2, Zenon DEF ReserveRequest
<1>8. CASE LookUpRequest(q)
  <2>1. /\ SubAt(q, "lookup") /\ subs[q].key # None /\ subs[q].held /\ ~ Creating(q)
        /\ UNCHANGED <<runtimes, reservations, execs, cans>>
    BY <1>1, <1>8, Zenon DEF LookUpRequest, SubAt, SubShape, SubInv, Creating
  <2>2. CASE /\ SubGoto(q, "create")
             /\ UNCHANGED <<rows, clock>> \/ StatementFails
    <3>1. /\ subs'[q].pc = "create" /\ subs'[q].task = subs[q].task
          /\ subs'[q].key = subs[q].key /\ subs'[q].held = subs[q].held
          /\ subs'[q].answer = None
          /\ \A p \in Submits : p # q => subs'[p] = subs[p]
      BY <1>1, <2>1, <2>2, Zenon DEF SubGoto, Sub, SubShape, SubAt
    <3>2. CleanSub(q)'
      BY <1>4, <3>1, Zenon DEF CleanSub, SubAt
    <3>3. TableKept
      BY <1>1, <2>2, ReadKeepsTable, Zenon
    <3> QED BY <1>3, <2>1, <3>1, <3>2, <3>3, GoesOnKeeps, Zenon
  <2>3. ASSUME NEW t \in RowsOf(subs[q].key),
               subs' = [subs EXCEPT ![q].pc = "runtime", ![q].task = t],
               UNCHANGED <<rows, clock>>
        PROVE  IInv'
    BY <1>3, <2>1, <2>3, JoinsKeeps, Zenon DEF SubAt
  <2> QED BY <1>8, <2>2, <2>3, Zenon DEF LookUpRequest
<1>9. CASE JoinRuntime(q)
  <2>1. PICK t \in TaskIds : t = subs[q].task
    BY <1>1, <1>9, Zenon DEF JoinRuntime, SubAt, SubShape, Sub
  <2>2. /\ SubAt(q, "runtime") /\ ~ Creating(q) /\ subs[q].answer = None
        /\ UNCHANGED <<rows, clock, runtimes, reservations, execs, cans>>
        /\ subs'[q].pc = "resolve" /\ subs'[q].task = t
        /\ subs'[q].key = subs[q].key /\ subs'[q].held = subs[q].held
        /\ subs'[q].answer = None /\ subs'[q].runtime = Registered(t)
        /\ \A p \in Submits : p # q => subs'[p] = subs[p]
    BY <1>1, <1>9, <2>1, Zenon DEF JoinRuntime, SubAt, SubShape, Sub, Creating
  <2>3. ASSUME clock.failures = 0, ~ Registered(t)
        PROVE  Settled(t)
    <3>1. CleanTask(t) /\ rows[t] # None /\ runtimes[t] \in Runtime
      BY <1>1, <2>1, <2>3, TasksAssumption, Zenon DEF Clean, SubInv, TypeOK
    <3>2. CASE runtimes[t] = "closed"
      BY <3>1, <3>2, Zenon DEF CleanTask
    <3>3. CASE runtimes[t] = "unset"
      <4>1. ~ IsOpen(t)
        BY <2>1, <2>2, <3>1, <3>3 DEF CleanTask, IInv, SubInv, OwnTask
      <4> QED BY <3>1, <4>1, Zenon DEF Settled
    <3> QED BY <2>3, <3>1, <3>2, <3>3, Zenon DEF Registered, Runtime
  <2>4. clock'.failures = 0 => CleanSub(q)'
    BY <1>4, <2>2, <2>3, Zenon DEF CleanSub, SubAt, Settled, IsOpen, Stored
  <2> QED BY <1>3, <1>5, <2>1, <2>2, <2>4, GoesOnKeeps, Zenon
<1>10. CASE RefuseTask(q)
  <2>1. /\ Return(q, "error") /\ ~ Creating(q) /\ UNCHANGED <<runtimes, execs, cans>>
        /\ UNCHANGED <<rows, clock>> \/ StatementFails
    BY <1>10, Zenon DEF RefuseTask, SubAt, Creating
  <2>2. TableKept
    BY <1>1, <2>1, ReadKeepsTable, Zenon
  <2> QED BY <1>3, <1>4, <2>1, <2>2, ReturnKeeps, Zenon
<1>11. CASE InsertTask(q)
  <2>1. SubAt(q, "create") /\ UNCHANGED <<runtimes, reservations, execs, cans, clock>>
    BY <1>11, Zenon DEF InsertTask
  <2>2. CASE ~ Conflicts(subs[q].key)
    BY <1>3, <1>11, <2>1, <2>2, InsertKeeps, Zenon DEF InsertTask
  <2>3. CASE Conflicts(subs[q].key)
    <3>1. PICK t \in RowsOf(subs[q].key) :
            /\ subs' = [subs EXCEPT ![q].pc = "runtime", ![q].task = t]
            /\ UNCHANGED rows
      BY <1>11, <2>3, Zenon DEF InsertTask
    <3>2. subs[q].key # None
      BY <2>3, Zenon DEF Conflicts
    <3> QED BY <1>3, <2>1, <3>1, <3>2, JoinsKeeps, Zenon DEF SubAt
  <2> QED BY <2>2, <2>3, Zenon
<1>12. ASSUME Creating(q)
       PROVE  /\ OwnTask(q) /\ subs[q].task \in TaskIds /\ subs[q].answer = None
              /\ subs[q].held \/ subs[q].key = None
              /\ ~ subs[q].held => reservations \ {subs[q].key} = reservations
  <2>1. /\ OwnTask(q) /\ subs[q].task \in TaskIds /\ subs[q].answer = None
        /\ subs[q].held \/ subs[q].key = None
    BY <1>1, <1>12, Zenon DEF SubInv, SubShape, Sub, Creating
  <2>2. reservations \subseteq Keys /\ None \notin Keys
    BY <1>1, TasksAssumption, Zenon DEF TypeOK
  <2> QED BY <2>1, <2>2, Zenon
<1>13. CASE FinishImmediate(q)
  <2>1. Creating(q)
    BY <1>13, Zenon DEF FinishImmediate, SubAt, Creating
  <2>2. PICK t \in TaskIds : t = subs[q].task
    BY <1>12, <2>1, Zenon
  <2>3. PICK result \in {"applied", "skipped", "failed"} :
          /\ MarkTaskTerminal(t, "succeeded", subs[q].at, 0, result)
          /\ IF result = "applied"
               THEN /\ subs' = [subs EXCEPT ![q].pc = "load", ![q].held = FALSE]
                    /\ reservations' = reservations \ {subs[q].key}
               ELSE Return(q, "error")
    BY <1>13, <2>2, Zenon DEF FinishImmediate
  <2>4. "succeeded" \in Terminal /\ 0 \in Nat /\ subs[q].at \in Nat
    BY <1>1, Zenon DEF Terminal, Sub
  <2>5. /\ RowKept(t) /\ \A u \in TaskIds : u # t => rows'[u] = rows[u]
        /\ clock'.failures = 0 => clock.failures = 0 /\ result # "failed"
        /\ result # "failed" => ~ IsOpen(t)'
        /\ result # "applied" => rows' = rows
    BY <1>1, <2>3, <2>4, TerminalKeeps
  <2>6. IsOpen(t) /\ runtimes[t] = "unset" /\ result # "skipped" /\ rows[t] # None
    BY <1>12, <2>1, <2>2, <2>5, Zenon DEF OwnTask, IsOpen, Stored
  <2>7. /\ subs'[q].pc = IF result = "applied" THEN "load" ELSE "done"
        /\ subs'[q].task = t /\ subs'[q].key = subs[q].key /\ subs'[q].held = FALSE
        /\ \A p \in Submits : p # q => subs'[p] = subs[p]
        /\ result = "applied" => subs'[q].answer = None
        /\ UNCHANGED <<runtimes, execs, cans>>
    BY <1>1, <1>12, <1>13, <2>1, <2>2, <2>3 DEF FinishImmediate, Return, Sub
  <2>8. reservations' = reservations \ {subs[q].key}
    BY <1>12, <2>1, <2>3, Zenon DEF Return
  <2>9. ExecInv(t) /\ rows'[t] # None
    BY <2>5, <2>6, Zenon DEF IInv, RowKept
  <2>10. ExecInv(t)'
    BY <2>6, <2>7, <2>9, Zenon DEF ExecInv, ExecAt, Registered
  <2>11. clock'.failures = 0 => CleanTask(t)' /\ CleanSub(q)'
    <3>1. SUFFICES ASSUME clock'.failures = 0
                   PROVE  CleanTask(t)' /\ CleanSub(q)'
      BY Zenon
    <3>2. CleanTask(t) /\ result = "applied" /\ ~ IsOpen(t)'
      BY <1>1, <2>3, <2>5, <2>6, <3>1, Zenon DEF Clean
    <3>3. CleanTask(t)'
      BY <2>6, <2>7, <2>9, <3>2, Zenon DEF CleanTask, ExecAt, Settled
    <3>4. CleanSub(q)'
      BY <1>4, <2>7, <2>9, <3>2, Zenon DEF CleanSub, SubAt, Settled, IsOpen, Stored
    <3> QED BY <3>3, <3>4, Zenon
  <2>12. ~ Creating(q)' /\ subs'[q].pc \notin {"create", "lookup", "runtime"}
    BY <2>7, Zenon DEF Creating
  <2> QED BY <1>3, <2>1, <2>2, <2>5, <2>7, <2>8, <2>10, <2>11, <2>12, CreatorKeeps, Zenon
<1>14. CASE StartTask(q)
  <2>1. Creating(q)
    BY <1>14, Zenon DEF StartTask, SubAt, Creating
  <2>2. PICK t \in TaskIds : t = subs[q].task
    BY <1>12, <2>1, Zenon
  <2>3. /\ UNCHANGED <<rows, cans, clock>> /\ runtimes'[t] = "live"
        /\ execs'[t].pc = "mark" /\ execs'[t].then = execs[t].then
        /\ \A u \in TaskIds : u # t => runtimes'[u] = runtimes[u] /\ execs'[u] = execs[u]
        /\ reservations' = reservations \ {subs[q].key}
    BY <1>1, <1>14, <2>2 DEF StartTask, TypeOK, Exec
  <2>4. /\ subs'[q].pc = "resolve" /\ subs'[q].runtime = TRUE
        /\ subs'[q].task = t /\ subs'[q].key = subs[q].key /\ subs'[q].held = FALSE
        /\ \A p \in Submits : p # q => subs'[p] = subs[p]
        /\ subs'[q].answer = None
    BY <1>1, <1>12, <1>14, <2>1, <2>2, Zenon DEF StartTask, Sub
  <2>5. IsOpen(t) /\ rows[t] # None
    BY <1>12, <2>1, <2>2, Zenon DEF OwnTask, IsOpen, Stored
  <2>6. RowKept(t) /\ IsOpen(t)' /\ rows'[t] # None
    BY <2>3, <2>5, Zenon DEF RowKept, IsOpen, Stored
  <2>7. ExecInv(t)' /\ CleanTask(t)'
    BY <2>3, <2>6, Zenon DEF ExecInv, CleanTask, ExecAt
  <2>8. CleanSub(q)' /\ ~ Creating(q)'
    BY <1>4, <2>4, Zenon DEF CleanSub, SubAt, Creating
  <2>9. subs'[q].pc \notin {"create", "lookup", "runtime"}
    BY <2>4, Zenon
  <2> QED BY <1>3, <2>1, <2>2, <2>3, <2>4, <2>6, <2>7, <2>8, <2>9, CreatorKeeps, Zenon
<1>15. ASSUME NEW answer \in Answers, NEW told \in {answer, "error"},
              GetTaskByID(subs[q].task, answer), Return(q, told),
              UNCHANGED <<runtimes, execs, cans>>, ~ Creating(q), subs[q].task # None,
              clock.failures = 0 /\ subs[q].mode = "sync" => ~ IsOpen(subs[q].task)
       PROVE  IInv'
  <2>1. subs[q].task \in TaskIds
    BY <1>1, <1>15, Zenon DEF Sub
  <2>2. /\ UNCHANGED <<rows, clock>> \/ StatementFails
        /\ answer \in Open => IsOpen(subs[q].task) /\ UNCHANGED <<rows, clock>>
    BY <1>1, <1>15, <2>1, ReadTyped, Zenon
  <2>3. TableKept
    BY <1>1, <2>2, ReadKeepsTable, Zenon
  <2>4. told \in Answers
    BY <1>4, <1>15, Zenon
  <2>5. clock'.failures = 0 /\ subs[q].mode = "sync" => told \notin Open
    BY <1>4, <1>15, <2>2, Zenon
  <2> QED BY <1>3, <1>15, <2>3, <2>4, <2>5, ReturnKeeps, Zenon
<1>16. CASE ResolveSubmit(q)
  <2>1. /\ SubAt(q, "resolve") /\ ~ Creating(q) /\ subs[q].task # None
        /\ subs[q].task \in TaskIds
        /\ subs[q].answer = None /\ UNCHANGED <<runtimes, execs, cans>>
    BY <1>1, <1>16, Zenon DEF ResolveSubmit, SubAt, Creating, SubShape, Sub
  <2>4. PICK answer \in Answers :
          /\ GetTaskByID(subs[q].task, answer)
          /\ IF subs[q].mode = "async" \/ answer \notin Open
               THEN Return(q, answer)
               ELSE /\ SubGoto(q, IF subs[q].runtime THEN "wait" ELSE "read")
                    /\ UNCHANGED reservations
    BY <1>16, Zenon DEF ResolveSubmit
  <2>5. /\ UNCHANGED <<rows, clock>> \/ StatementFails
        /\ answer \in Open => IsOpen(subs[q].task) /\ UNCHANGED <<rows, clock>>
    BY <1>1, <2>1, <2>4, ReadTyped, Zenon
  <2>2. CASE subs[q].mode = "async" \/ answer \notin Open
    <3>1. TableKept
      BY <1>1, <2>5, ReadKeepsTable, Zenon
    <3>2. clock'.failures = 0 /\ subs[q].mode = "sync" => answer \notin Open
      BY <2>2
    <3> QED BY <1>3, <2>1, <2>2, <2>4, <3>1, <3>2, ReturnKeeps, Zenon
  <2>3. CASE ~ (subs[q].mode = "async" \/ answer \notin Open)
    <3>1. /\ subs' = [subs EXCEPT ![q].pc = IF subs[q].runtime THEN "wait" ELSE "read"]
          /\ UNCHANGED <<reservations, rows, clock>> /\ IsOpen(subs[q].task)
      BY <2>3, <2>4, <2>5, Zenon DEF SubGoto
    <3>2. /\ subs'[q].pc = IF subs[q].runtime THEN "wait" ELSE "read"
          /\ subs'[q].task = subs[q].task /\ subs'[q].key = subs[q].key
          /\ subs'[q].held = subs[q].held /\ subs'[q].answer = None
          /\ \A p \in Submits : p # q => subs'[p] = subs[p]
      BY <1>1, <2>1, <3>1, ZenonT(30) DEF Sub
    <3>3. clock'.failures = 0 => subs[q].runtime
      BY <1>1, <2>1, <3>1, Zenon DEF Clean, CleanSub, Settled
    <3>4. clock'.failures = 0 => CleanSub(q)'
      BY <1>4, <3>2, <3>3, Zenon DEF CleanSub, SubAt
    <3> QED BY <1>3, <1>5, <2>1, <3>1, <3>2, <3>4, GoesOnKeeps
  <2> QED BY <2>2, <2>3, Zenon
<1>17. CASE WakeSubmit(q)
  <2>1. PICK t \in TaskIds : t = subs[q].task
    BY <1>1, <1>17, Zenon DEF WakeSubmit, SubAt, SubShape, Sub
  <2>2. /\ SubAt(q, "wait") /\ ~ Creating(q) /\ subs[q].answer = None
        /\ UNCHANGED <<rows, runtimes, reservations, execs, cans, clock>>
        /\ subs[q].mode = "sync" => runtimes[t] = "closed"
    BY <1>1, <1>17, <2>1, Zenon DEF WakeSubmit, SubAt, Creating, SubShape
  <2>3. /\ subs'[q].pc = "read" /\ subs'[q].mode = subs[q].mode
        /\ subs'[q].task = t /\ subs'[q].key = subs[q].key
        /\ subs'[q].held = subs[q].held /\ subs'[q].answer = None
        /\ \A p \in Submits : p # q => subs'[p] = subs[p]
    BY <1>1, <1>17, <2>1, <2>2, ZenonT(30) DEF WakeSubmit, SubGoto, Sub
  <2>4. clock.failures = 0 /\ subs[q].mode = "sync" => Settled(t)
    BY <1>1, <2>2, Zenon DEF Clean, CleanTask
  <2>5. clock'.failures = 0 => CleanSub(q)'
    BY <1>4, <2>2, <2>3, <2>4, Zenon DEF CleanSub, SubAt, Settled, IsOpen, Stored
  <2> QED BY <1>3, <1>5, <2>1, <2>2, <2>3, <2>5, GoesOnKeeps, Zenon
<1>18. CASE AbandonSubmit(q)
  BY <1>3, <1>4, <1>5, <1>18, ReturnKeeps, Zenon DEF AbandonSubmit, SubAt, Creating
<1>19. CASE AnswerSubmit(q) \/ LoadCompleted(q)
  <2>1. /\ SubAt(q, "read") \/ SubAt(q, "load")
        /\ ~ Creating(q) /\ subs[q].task # None /\ UNCHANGED <<runtimes, execs, cans>>
    BY <1>1, <1>19, Zenon DEF AnswerSubmit, LoadCompleted, SubAt, Creating, SubShape
  <2>2. clock.failures = 0 /\ subs[q].mode = "sync" => ~ IsOpen(subs[q].task)
    BY <1>1, <2>1, Zenon DEF Clean, CleanSub, Settled
  <2>3. PICK answer \in Answers :
          /\ GetTaskByID(subs[q].task, answer)
          /\ Return(q, answer) \/ Return(q, IF answer = "notfound" THEN "error" ELSE answer)
    BY <1>19, Zenon DEF AnswerSubmit, LoadCompleted
  <2>4. PICK told \in {answer, "error"} : Return(q, told)
    BY <2>3, Zenon
  <2> QED BY <1>15, <2>1, <2>2, <2>3, <2>4, Zenon
<1> QED
  BY <1>6, <1>7, <1>8, <1>9, <1>10, <1>11, <1>13, <1>14, <1>16, <1>17, <1>18, <1>19, Zenon
     DEF SubmitStep

(* Init, the restart, the pruner and the clock.                            *)
LEMMA InitKeeps == Init => IInv
<1> SUFFICES ASSUME Init PROVE IInv
  BY Zenon
<1>1. /\ NoExec \in Exec /\ ExecShape(NoExec)
      /\ NoSub \in Sub /\ SubShape(NoSub)
      /\ NoCan \in Can /\ CanShape(NoCan)
  BY TasksAssumption DEF NoExec, Exec, ExecShape, NoSub, Sub, SubShape, NoCan, Can,
                         CanShape
<1>2. clock \in Clock
  <2>1. MaxFailures \in Nat /\ MaxRestarts \in Nat /\ MaxTime \in Nat
    BY TasksAssumption, Zenon
  <2> QED BY <2>1 DEF Init, Clock
<1>3. Shaped
  BY <1>1, <1>2, Zenon DEF Init, Shaped, TypeOK, Runtime
<1>4. /\ \A q \in Submits : subs[q].pc = "idle" /\ subs[q].task = None /\ ~ subs[q].held
                            /\ subs[q].answer = None
      /\ \A t \in TaskIds : rows[t] = None /\ runtimes[t] = "unset"
                            /\ execs[t].pc = "none"
      /\ \A c \in Cancels : cans[c].task = None /\ cans[c].pc = "idle"
  BY Zenon DEF Init, NoSub, NoExec, NoCan
<1>5. \A q \in Submits : SubInv(q)
  BY <1>4, Zenon DEF SubInv, SubAt, Creating
<1>6. \A t \in TaskIds : ExecInv(t) /\ CleanTask(t)
  BY <1>4, Zenon DEF ExecInv, CleanTask, ExecAt, Registered, IsOpen, Stored
<1>7. (\A c \in Cancels : CanInv(c) /\ CleanCan(c)) /\ OneHolder /\ OneRowPerKey
  BY <1>4, Zenon DEF CanInv, CleanCan, OneHolder, OneRowPerKey, Stored
<1>8. \A q \in Submits : CleanSub(q)
  <2>1. None \notin Open
    BY TasksAssumption, Zenon DEF Answers
  <2> QED BY <1>4, <2>1, Zenon DEF CleanSub, SubAt
<1> QED BY <1>3, <1>5, <1>6, <1>7, <1>8, Zenon DEF IInv, Clean

(* The pruner, the clock and a stutter leave the calls alone.              *)
LEMMA IdleKeeps ==
    ASSUME IInv, TableKept, Shaped',
           UNCHANGED <<runtimes, reservations, execs, subs, cans>>
    PROVE  IInv'
<1>1. \A u \in TaskIds : IsOpen(u)' <=> IsOpen(u)
  BY Zenon DEF TableKept, RowKept, IsOpen, Stored
<1>2. \A u \in TaskIds : Settled(u) => Settled(u)'
  BY <1>1, Zenon DEF TableKept, RowKept, Settled
<1>3. /\ \A p \in Submits : subs[p].task \in TaskIds \cup {None}
      /\ \A c \in Cancels : cans[c].task \in TaskIds \cup {None}
  BY Zenon DEF IInv, Shaped, TypeOK, Sub, Can
<1>4. ASSUME NEW p \in Submits
      PROVE  SubInv(p)'
  <2>1. SubInv(p) /\ SubShape(subs[p])
    BY Zenon DEF IInv, Shaped
  <2>2. PICK u \in TaskIds \cup {None} : u = subs[p].task
    BY <1>3, Zenon
  <2>3. u # None => RowKept(u) /\ (IsOpen(u)' <=> IsOpen(u))
    BY <1>1, Zenon DEF TableKept
  <2>4. u # None => rows'[u] # None /\ (Stored(u)' => rows'[u].key = subs[p].key)
    BY <2>1, <2>2, <2>3, Zenon DEF SubInv, RowKept, Stored
  <2>5. CASE ~ Creating(p)
    BY <2>1, <2>2, <2>4, <2>5, Zenon DEF SubInv, Creating, SubAt, Stored
  <2>6. CASE Creating(p)
    <3>1. OwnTask(p) /\ u # None
      BY <2>1, <2>2, <2>6, Zenon DEF SubInv, SubShape, Creating
    <3>2. IsOpen(u)'
      BY <2>2, <2>3, <3>1, Zenon DEF OwnTask, IsOpen, Stored
    <3>3. OwnTask(p)'
      BY <2>2, <3>1, <3>2, Zenon DEF OwnTask, IsOpen, Stored
    <3> QED BY <2>1, <2>2, <2>4, <2>6, <3>3, Zenon DEF SubInv, Creating, SubAt, Stored
  <2> QED BY <2>5, <2>6, Zenon
<1>5. ASSUME NEW t \in TaskIds
      PROVE  ExecInv(t)'
  BY <1>1, Zenon DEF IInv, ExecInv, ExecAt, Registered, Finishing, TableKept, RowKept
<1>6. (\A c \in Cancels : CanInv(c)') /\ OneHolder'
  BY <1>3, Zenon DEF IInv, CanInv, TableKept, RowKept, OneHolder
<1>7. OneRowPerKey'
  BY Zenon DEF IInv, OneRowPerKey, TableKept, RowKept, Stored
<1>8. ASSUME clock'.failures = 0
      PROVE  Clean'
  <2>1. Clean
    BY <1>8, Zenon DEF IInv, TableKept
  <2>2. \A t \in TaskIds : CleanTask(t)'
    BY <1>1, <1>2, <2>1, ZenonT(30) DEF Clean, CleanTask, ExecAt, Creating
  <2>3. ASSUME NEW c \in Cancels
        PROVE  CleanCan(c)'
    <3>1. CleanCan(c) /\ CanShape(cans[c])
      BY <2>1, Zenon DEF Clean, IInv, Shaped
    <3> QED BY <1>2, <1>3, <3>1, Zenon DEF CleanCan, CanShape, Settled, IsOpen, Stored
  <2>4. ASSUME NEW p \in Submits
        PROVE  CleanSub(p)'
    <3>1. CleanSub(p) /\ SubShape(subs[p])
      BY <2>1, Zenon DEF Clean, IInv, Shaped
    <3>2. PICK u \in TaskIds \cup {None} : u = subs[p].task
      BY <1>3, Zenon
    <3>3. u # None /\ Settled(u) => Settled(u)'
      BY <1>2, Zenon
    <3> QED BY <3>1, <3>2, <3>3, Zenon DEF CleanSub, SubShape, SubAt, Settled, IsOpen, Stored
  <2> QED BY <2>2, <2>3, <2>4, Zenon DEF Clean
<1> QED BY <1>4, <1>5, <1>6, <1>7, <1>8, Zenon DEF IInv

(* The restart: no task is open, no call is under way.                     *)
LEMMA RestartKeeps ==
    ASSUME IInv, RestartConsole
    PROVE  IInv'
<1>1. Shaped' /\ Shaped /\ TypeOK
  BY RestShaped, Zenon DEF IInv, Shaped
<1>2. ASSUME NEW u \in TaskIds
      PROVE  /\ RowKept(u) /\ (rows[u] = None => rows'[u] = None)
             /\ ~ IsOpen(u)'
  <2>1. rows'[u] = FailedOnStartup(u)
    BY Zenon DEF RestartConsole
  <2>2. CASE IsOpen(u)
    <3>1. rows[u] \in Row /\ Retention \in Nat /\ clock.now \in Nat
      <4>1. Retention \in Nat
        BY TasksAssumption, Zenon
      <4> QED BY <1>1, <2>2, <4>1, OpenRow, NowIsNat, Zenon
    <3>2. /\ rows'[u].key = rows[u].key /\ rows'[u].status = "failed"
          /\ rows'[u] \in Row
      <4>1. clock.now + Retention \in Int /\ "failed" \in Terminal
        BY <3>1 DEF Terminal
      <4> QED BY <2>1, <2>2, <3>1, <4>1, Zenon DEF FailedOnStartup, TerminalRow, Row
    <3>3. rows'[u] \notin {None, Gone} /\ "failed" \notin Open
      BY <3>2, TasksAssumption, Zenon DEF Open
    <3> QED BY <2>2, <3>2, <3>3, Zenon DEF RowKept, IsOpen, Stored
  <2>3. CASE ~ IsOpen(u)
    BY <2>1, <2>3, Zenon DEF FailedOnStartup, RowKept, IsOpen, Stored
  <2> QED BY <2>2, <2>3, Zenon
<1>3. /\ \A p \in Submits : subs[p].task \in TaskIds \cup {None}
      /\ \A c \in Cancels : cans[c].task \in TaskIds \cup {None}
  BY <1>1, Zenon DEF TypeOK, Sub, Can
<1>4. ASSUME NEW p \in Submits
      PROVE  /\ subs'[p].pc \in {"idle", "done"} /\ subs'[p].key = subs[p].key
             /\ subs'[p].task = subs[p].task /\ subs'[p].mode = subs[p].mode
             /\ ~ subs'[p].held
             /\ subs'[p].answer \in {subs[p].answer, "error"}
  <2>1. subs[p] \in Sub /\ (subs[p].pc \in {"idle", "done"} => ~ subs[p].held)
    BY <1>1, Zenon DEF Shaped, TypeOK, SubShape
  <2>2. subs'[p] = IF subs[p].pc \in {"idle", "done"} THEN subs[p]
                     ELSE [subs[p] EXCEPT !.pc = "done", !.answer = "error", !.held = FALSE]
    BY Zenon DEF RestartConsole
  <2> QED BY <2>1, <2>2, ZenonT(30) DEF Sub
<1>5. \A c \in Cancels : cans'[c].pc \in {"idle", "done"} /\ cans'[c].task = cans[c].task
  BY <1>1, Zenon DEF RestartConsole, TypeOK, Can
<1>6. \A u \in TaskIds :
        /\ runtimes'[u] = IF runtimes[u] = "unset" THEN "unset" ELSE "closed"
        /\ execs'[u].pc = IF ExecAt(u, "none") THEN "none" ELSE "end"
  BY Zenon DEF RestartConsole, NoExec
<1>7. ASSUME NEW p \in Submits
      PROVE  SubInv(p)'
  <2>1. PICK u \in TaskIds \cup {None} : u = subs[p].task
    BY <1>3, Zenon
  <2>2. u # None => RowKept(u) /\ rows[u] # None /\ (Stored(u) => rows[u].key = subs[p].key)
    BY <1>2, <2>1, Zenon DEF IInv, SubInv
  <2>3. u # None => rows'[u] # None /\ (Stored(u)' => rows'[u].key = subs[p].key)
    BY <2>2, Zenon DEF RowKept
  <2> QED BY <1>4, <2>1, <2>3, Zenon DEF SubInv, SubAt, Creating, Stored
<1>8. ASSUME NEW t \in TaskIds
      PROVE  ExecInv(t)'
  <2>1. ExecInv(t) /\ RowKept(t)
    BY <1>2, Zenon DEF IInv
  <2> QED BY <1>6, <2>1, Zenon DEF ExecInv, ExecAt, Registered, RowKept
<1>9. (\A c \in Cancels : CanInv(c)') /\ OneHolder'
  BY <1>2, <1>3, <1>4, <1>5, ZenonT(30) DEF IInv, CanInv, RowKept, OneHolder
<1>10. OneRowPerKey'
  BY <1>2, Zenon DEF IInv, OneRowPerKey, RowKept, Stored
<1>11. ASSUME clock'.failures = 0
       PROVE  Clean'
  <2>1. Clean
    BY <1>1, <1>11, Zenon DEF IInv, RestartConsole, TypeOK, Clock
  <2>2. ASSUME NEW t \in TaskIds
        PROVE  CleanTask(t)'
    <3>1. RowKept(t) /\ ~ IsOpen(t)' /\ ExecInv(t)
      BY <1>2, Zenon DEF IInv
    <3> QED BY <1>6, <3>1, Zenon DEF CleanTask, ExecAt, Settled, RowKept, ExecInv
  <2>3. \A c \in Cancels : CleanCan(c)'
    BY <1>5, Zenon DEF CleanCan
  <2>4. ASSUME NEW p \in Submits
        PROVE  CleanSub(p)'
    <3>1. "error" \notin Open /\ CleanSub(p)
      BY <2>1, Zenon DEF Open, Clean
    <3> QED BY <1>4, <3>1, Zenon DEF CleanSub, SubAt
  <2> QED BY <2>2, <2>3, <2>4, Zenon DEF Clean
<1> QED BY <1>1, <1>7, <1>8, <1>9, <1>10, <1>11, Zenon DEF IInv

(* Every step keeps the invariant.                                         *)
LEMMA NextKeeps == IInv /\ [Next]_vars => IInv'
<1> SUFFICES ASSUME IInv, [Next]_vars PROVE IInv'
  BY Zenon
<1>1. Shaped /\ TypeOK
  BY Zenon DEF IInv, Shaped
<1>2. ASSUME NEW q \in Submits,
             \/ \E key \in Keys \cup {None}, mode \in Modes, kind \in Kinds :
                  SubmitTask(q, key, mode, kind)
             \/ SubmitStep(q)
             \/ AbandonSubmit(q)
      PROVE  IInv'
  BY <1>2, SubmissionKeeps, Zenon
<1>3. ASSUME NEW t \in TaskIds, ExecStep(t)
      PROVE  IInv'
  BY <1>3, ExecutionKeeps, Zenon
<1>4. ASSUME NEW c \in Cancels, CancelStep(c) \/ \E t \in TaskIds : CancelTask(c, t)
      PROVE  IInv'
  BY <1>4, CancellationKeeps, Zenon
<1>5. CASE RestartConsole
  BY <1>5, RestartKeeps, Zenon
<1>6. CASE PruneExpiredTasks
  <2>1. TableKept /\ UNCHANGED <<runtimes, reservations, execs, subs, cans>>
    BY <1>1, <1>6, DeleteKeepsTable, Zenon DEF PruneExpiredTasks
  <2> QED BY <1>1, <1>6, <2>1, RestShaped, IdleKeeps, Zenon
<1>7. CASE Tick
  <2>1. clock'.failures = clock.failures /\ rows' = rows
    BY <1>1, <1>7, Zenon DEF Tick, TypeOK, Clock
  <2>2. TableKept
    BY <2>1, Zenon DEF TableKept, RowKept, Stored, IsOpen
  <2> QED BY <1>1, <1>7, <2>2, RestShaped, IdleKeeps, Zenon DEF Tick
<1>8. CASE UNCHANGED vars
  <2>1. TableKept /\ UNCHANGED <<runtimes, reservations, execs, subs, cans>>
    BY <1>1, <1>8, ReadKeepsTable, Zenon DEF vars
  <2> QED BY <1>1, <1>8, <2>1, RestShaped, IdleKeeps, Zenon
<1> QED BY <1>2, <1>3, <1>4, <1>5, <1>6, <1>7, <1>8, Zenon DEF Next

-----------------------------------------------------------------------------
(* The invariant holds always.                                             *)
THEOREM Invariant == Spec => []IInv
  BY InitKeeps, NextKeeps, PTL DEF Spec

(* Rows, runtime records, reservations and the locals of all calls are of  *)
(* their types.                                                            *)
THEOREM TypeCorrect == Spec => []TypeOK
<1>1. IInv => TypeOK
  BY Zenon DEF IInv, Shaped
<1> QED BY <1>1, Invariant, PTL

(* One task per request id, whatever calls race and whatever look-up       *)
(* fails (SubmitTask, task.go).                                            *)
THEOREM RequestsDeduplicated == Spec => []SameRequestSameTask
<1>1. IInv => SameRequestSameTask
  <2> SUFFICES ASSUME IInv, NEW p \in Submits, NEW q \in Submits,
                      subs[p].key # None, subs[p].key = subs[q].key,
                      subs[p].task # None, subs[q].task # None,
                      Stored(subs[p].task), Stored(subs[q].task)
               PROVE  subs[p].task = subs[q].task
    BY Zenon DEF SameRequestSameTask
  <2>1. subs[p].task \in TaskIds /\ subs[q].task \in TaskIds
    BY Zenon DEF IInv, Shaped, TypeOK, Sub
  <2> QED BY <2>1, Zenon DEF IInv, SubInv, OneRowPerKey
<1> QED BY <1>1, Invariant, PTL

(* A call in mode sync is answered with a complete task as long as no      *)
(* statement fails (resolveSubmitTaskResult, task.go).                     *)
THEOREM SyncCallsComplete == Spec => []SyncAnswersComplete
<1>1. IInv => SyncAnswersComplete
  BY Zenon DEF IInv, Clean, CleanSub, SyncAnswersComplete
<1> QED BY <1>1, Invariant, PTL

(* A runtime record ends with its execution, or a cancellation is about to *)
(* remove it (executeTask, completeTaskRuntime, task.go).                  *)
THEOREM RecordsReleased == Spec => []RuntimeReleased
<1>1. IInv => RuntimeReleased
  <2> SUFFICES ASSUME IInv, NEW t \in TaskIds, Registered(t), ExecAt(t, "end")
               PROVE  \E c \in Cancels : cans[c].task = t /\ cans[c].pc = "complete"
    BY Zenon DEF RuntimeReleased
  <2>1. ExecInv(t)
    BY Zenon DEF IInv
  <2> QED BY <2>1, Zenon DEF ExecInv, Finishing, ExecAt
<1> QED BY <1>1, Invariant, PTL

=============================================================================
