------------------------- MODULE TasksServiceProofs -------------------------
(***************************************************************************)
(* What the steps of Tasks do to the table and tell the callers, and what  *)
(* follows from it: one outcome per task, rows that are kept for their     *)
(* retention, and the service of TaskService.                              *)
(***************************************************************************)
EXTENDS TasksProofs, TasksRefinement

(* What a step does to the table: nothing, an INSERT, an UPDATE of an open *)
(* row, a DELETE, or the statement of the start-up.  A row that becomes    *)
(* terminal gets the date its retention ends, on the clock of its worker.  *)
Dated(row) ==
    row.status \in Terminal =>
        \E skew \in Skews \cup {0} : row.expires = row.done - skew + Retention

UpdatesRow(t) ==
    \E row \in Row : /\ IsOpen(t) /\ row.key = rows[t].key /\ Dated(row)
                     /\ rows' = [rows EXCEPT ![t] = row]

InsertsRow(t) ==
    \E key \in Keys \cup {None} : /\ rows[t] = None /\ ~ Conflicts(key)
                                  /\ rows' = [rows EXCEPT ![t] = QueuedRow(key)]

TableStep ==
    \/ rows' = rows
    \/ \E t \in TaskIds : UpdatesRow(t) \/ InsertsRow(t)
    \/ DeleteExpiredTasks
    \/ rows' = [t \in TaskIds |-> FailedOnStartup(t)]

(* What a step tells: nothing, or the row of its task to one call, in a    *)
(* step that leaves the table alone; "notfound" may be a failing statement *)
(* instead, which is counted.                                              *)
Untold == {None, "busy", "error"}

NoFailure == clock'.failures = clock.failures

OneFailure == clock'.failures = clock.failures + 1 /\ rows' = rows

KeepsAnswer(before, after) ==
    \/ before.answer \in Untold /\ after.answer \in Untold
    \/ after.answer = before.answer /\ after.task = before.task

TellsRow(before, after) ==
    /\ before.answer = None
    /\ after.task \in TaskIds /\ rows[after.task] # None
    /\ \/ /\ after.answer = IF Stored(after.task) THEN rows[after.task].status
                                                  ELSE "notfound"
          /\ NoFailure
       \/ after.answer = "notfound" /\ OneFailure

AnswersKept ==
    /\ \A q \in Submits : KeepsAnswer(subs[q], subs'[q])
    /\ \A c \in Cancels : KeepsAnswer(cans[c], cans'[c])

SubTold ==
    /\ UNCHANGED <<rows, cans>>
    /\ \E q \in Submits : /\ TellsRow(subs[q], subs'[q])
                          /\ \A p \in Submits : p # q => subs'[p] = subs[p]

CanTold ==
    /\ UNCHANGED <<rows, subs>>
    /\ \E c \in Cancels : /\ TellsRow(cans[c], cans'[c])
                          /\ \A d \in Cancels : d # c => cans'[d] = cans[d]

(* A step that fails a statement changes no row.                           *)
TableEffect == TableStep /\ (NoFailure \/ OneFailure)

Effect == TableEffect /\ (AnswersKept \/ SubTold \/ CanTold)

(* A statement that fails, or none at all.                                 *)
LEMMA FailureCounted ==
    ASSUME TypeOK, UNCHANGED <<rows, clock>> \/ StatementFails
    PROVE  TableEffect
<1>1. CASE UNCHANGED <<rows, clock>>
  BY <1>1, Zenon DEF TableEffect, TableStep, NoFailure
<1>2. CASE StatementFails
  <2>1. OneFailure
    BY <1>2 DEF StatementFails, TypeOK, Clock, OneFailure
  <2> QED BY <2>1, Zenon DEF TableEffect, TableStep, OneFailure
<1> QED BY <1>1, <1>2

(* A read: what it answers, and what it counts.                            *)
LEMMA ReadEffect ==
    ASSUME TypeOK, NEW t \in TaskIds, NEW answer, GetTaskByID(t, answer)
    PROVE  /\ rows' = rows /\ TableEffect
           /\ \/ /\ answer = IF Stored(t) THEN rows[t].status ELSE "notfound"
                 /\ NoFailure
              \/ answer = "notfound" /\ OneFailure
<1>1. CASE /\ answer = IF Stored(t) THEN rows[t].status ELSE "notfound"
           /\ UNCHANGED <<rows, clock>>
  BY <1>1, FailureCounted, Zenon DEF NoFailure
<1>2. CASE answer = "notfound" /\ StatementFails
  <2>1. OneFailure
    BY <1>2 DEF StatementFails, TypeOK, Clock, OneFailure
  <2> QED BY <1>2, <2>1, FailureCounted, Zenon DEF OneFailure
<1> QED BY <1>1, <1>2, Zenon DEF GetTaskByID

(* An UPDATE.                                                              *)
LEMMA UpdateEffect ==
    ASSUME NEW t \in TaskIds, NEW row, NEW result,
           IsOpen(t) => row \in Row /\ row.key = rows[t].key /\ Dated(row),
           TypeOK, Update(t, row, result)
    PROVE  TableEffect
<1>1. CASE result = "applied"
  BY <1>1 DEF Update, Updatable, TableEffect, TableStep, UpdatesRow, NoFailure
<1>2. CASE result # "applied"
  BY <1>2, FailureCounted DEF Update
<1> QED BY <1>1, <1>2

(* Writing the progress of an open task leaves it open.                    *)
LEMMA OpenEffect ==
    ASSUME TypeOK, NEW t \in TaskIds, NEW command \in 0 .. MaxAttempts, NEW result,
           MarkTaskDispatched(t, result) \/ MarkTaskRunning(t, command, result)
    PROVE  TableEffect
<1>1. ASSUME IsOpen(t), NEW row \in {DispatchedRow(rows[t]), RunningRow(rows[t], command)}
      PROVE  row \in Row /\ row.key = rows[t].key /\ Dated(row)
  <2>1. rows[t] \in Row
    BY <1>1, OpenRow
  <2>2. row \in Row /\ row.key = rows[t].key /\ row.status \in Open
    <3>1. CASE row = DispatchedRow(rows[t])
      BY <2>1, <3>1 DEF DispatchedRow, Row, Open
    <3>2. CASE row = RunningRow(rows[t], command)
      BY <2>1, <3>2, Zenon DEF RunningRow, Row, Open
    <3> QED BY <1>1, <3>1, <3>2
  <2>3. Open \cap Terminal = {}
    BY DEF Open, Terminal
  <2> QED BY <2>2, <2>3 DEF Dated
<1> QED BY <1>1, UpdateEffect DEF MarkTaskDispatched, MarkTaskRunning

(* Writing an outcome settles one open task, or nothing.                   *)
LEMMA TerminalEffect ==
    ASSUME TypeOK, NEW t \in TaskIds, NEW status \in Terminal, NEW at \in Nat,
           NEW skew \in Skews \cup {0}, NEW result,
           MarkTaskTerminal(t, status, at, skew, result)
    PROVE  TableEffect
<1> DEFINE row == TerminalRow(rows[t], status, at, at - skew + Retention)
<1>1. skew \in Nat /\ Retention \in Nat
  BY TasksAssumption
<1>2. at - skew + Retention \in Int
  BY <1>1
<1>3. ASSUME IsOpen(t)
      PROVE  /\ row \in Row /\ row.key = rows[t].key /\ row.done = at
             /\ row.expires = at - skew + Retention
  BY <1>2, <1>3, OpenRow, Zenon DEF TerminalRow, Row
<1>4. Update(t, row, result)
  BY DEF MarkTaskTerminal
<1> HIDE DEF row
<1>5. IsOpen(t) => Dated(row)
  BY <1>3 DEF Dated
<1> QED BY <1>3, <1>4, <1>5, UpdateEffect

(* Every step has such an effect.                                          *)
LEMMA ExecutionEffect ==
    ASSUME Shaped, NEW t \in TaskIds, ExecStep(t)
    PROVE  TableEffect /\ UNCHANGED <<subs, cans>>
<1>1. /\ TypeOK /\ execs[t] \in Exec /\ ExecShape(execs[t])
      /\ execs[t].attempt \in 0 .. MaxAttempts /\ execs[t].skew \in Skews \cup {0}
      /\ execs[t].at \in Nat \cup {None} /\ clock.now \in Nat
  BY NowIsNat DEF Shaped, TypeOK, Exec
<1>2. UNCHANGED <<subs, cans>>
  BY DEF ExecStep, ExecMarkDispatched, ExecPick, ExecSend, ExecMarkRunning, ExecAbort,
         ExecResult, ExecWrite, ExecFallback, ExecComplete, ExecAlarm
<1>3. CASE ExecMarkDispatched(t) \/ ExecMarkRunning(t)
  BY <1>1, <1>3, OpenEffect DEF ExecMarkDispatched, ExecMarkRunning
<1>4. CASE ExecWrite(t)
  <2>1. execs[t].want \in Terminal
    BY <1>1, <1>4 DEF ExecWrite, ExecAt, ExecShape
  <2>2. (IF execs[t].at = None THEN clock.now ELSE execs[t].at) \in Nat
    BY <1>1
  <2> QED BY <1>1, <1>4, <2>1, <2>2, TerminalEffect DEF ExecWrite
<1>5. CASE ExecFallback(t)
  <2>1. "failed" \in Terminal
    BY DEF Terminal
  <2> QED BY <1>1, <1>5, <2>1, TerminalEffect, SMTT(30) DEF ExecFallback
<1>6. ASSUME UNCHANGED <<rows, clock>>
      PROVE  TableEffect
  BY <1>1, <1>6, FailureCounted
<1> QED
  BY <1>2, <1>3, <1>4, <1>5, <1>6 DEF ExecStep, ExecPick, ExecSend, ExecAbort,
     ExecResult, ExecComplete, ExecAlarm

(* What a cancellation does to rows and answers.                           *)
LEMMA CancellationEffect ==
    ASSUME IInv, NEW c \in Cancels,
           CancelStep(c) \/ \E t \in TaskIds : CancelTask(c, t)
    PROVE  Effect
<1>1. /\ TypeOK /\ cans \in [Cancels -> Can] /\ cans[c] \in Can /\ CanShape(cans[c])
      /\ clock.now \in Nat /\ CanInv(c)
  BY NowIsNat DEF IInv, Shaped, TypeOK
<1>2. subs' = subs /\ \A d \in Cancels : d # c => cans'[d] = cans[d]
  BY <1>1, Zenon DEF CancelStep, CancelTask, CancelWrite, CancelComplete, CancelAnswer,
     CancelReturn
<1>3. ASSUME KeepsAnswer(cans[c], cans'[c])
      PROVE  AnswersKept
  BY <1>2, <1>3 DEF AnswersKept, KeepsAnswer
<1>4. CASE CancelComplete(c)
  <2>1. /\ UNCHANGED <<rows, clock>> /\ cans'[c].answer = cans[c].answer
        /\ cans[c].pc # "done"
    BY <1>1, <1>4 DEF CancelComplete, Can
  <2>2. KeepsAnswer(cans[c], cans'[c])
    BY <1>1, <2>1 DEF KeepsAnswer, Untold, CanShape
  <2> QED BY <1>1, <1>3, <2>1, <2>2, FailureCounted DEF Effect
<1>7. ASSUME NEW t \in TaskIds, CancelTask(c, t)
      PROVE  Effect
  <2>1. PICK answer \in Answers :
          /\ GetTaskByID(t, answer)
          /\ cans' = [cans EXCEPT ![c] =
                IF answer \in Open
                  THEN [NoCan EXCEPT !.pc = "write", !.task = t]
                  ELSE [NoCan EXCEPT !.pc = "done", !.task = t, !.answer = answer]]
    BY <1>7, Zenon DEF CancelTask
  <2>2. cans[c].pc = "idle" /\ cans[c].answer = None /\ rows[t] # None
    <3>1. PICK q \in Submits : subs[q].task = t
      BY <1>7, Zenon DEF CancelTask, Known
    <3>2. SubInv(q) /\ t # None
      BY TasksAssumption, Zenon DEF IInv
    <3>3. cans[c].pc = "idle"
      BY <1>7 DEF CancelTask
    <3>4. cans[c].answer = None
      BY <1>1, <3>3 DEF CanShape
    <3> QED BY <3>1, <3>2, <3>3, <3>4 DEF SubInv
  <2>3. /\ rows' = rows /\ TableEffect
        /\ \/ /\ answer = IF Stored(t) THEN rows[t].status ELSE "notfound"
              /\ NoFailure
           \/ answer = "notfound" /\ OneFailure
    BY <1>1, <2>1, ReadEffect, Zenon
  <2>4. CASE answer \in Open
    <3>1. cans'[c].answer = None
      BY <1>1, <2>1, <2>4 DEF NoCan
    <3>2. KeepsAnswer(cans[c], cans'[c])
      BY <2>2, <3>1 DEF KeepsAnswer, Untold
    <3> QED BY <1>3, <2>3, <3>2 DEF Effect
  <2>5. CASE answer \notin Open
    <3>1. cans'[c].answer = answer /\ cans'[c].task = t
      BY <1>1, <2>1, <2>5 DEF NoCan
    <3>2. TellsRow(cans[c], cans'[c])
      BY <2>2, <2>3, <3>1, Zenon DEF TellsRow
    <3> QED BY <1>2, <2>3, <3>2 DEF Effect, CanTold
  <2> QED BY <2>4, <2>5
<1>5. CASE CancelWrite(c)
  <2>1. cans'[c].answer = cans[c].answer /\ cans[c].pc = "write"
    BY <1>1, <1>5 DEF CancelWrite, Can
  <2>2. KeepsAnswer(cans[c], cans'[c])
    BY <1>1, <2>1 DEF KeepsAnswer, Untold, CanShape
  <2>3. "canceled" \in Terminal /\ cans[c].task \in TaskIds
    BY <1>1, <2>1 DEF Terminal, Can, CanShape
  <2>4. TableEffect
    BY <1>1, <1>5, <2>3, TerminalEffect, Zenon DEF CancelWrite
  <2> QED BY <1>3, <2>2, <2>4 DEF Effect
<1>6. CASE CancelAnswer(c)
  <2>1. cans[c].pc = "read"
    BY <1>6 DEF CancelAnswer
  <2>2. cans[c].answer = None /\ cans[c].task \in TaskIds /\ rows[cans[c].task] # None
    BY <1>1, <2>1 DEF CanShape, Can, CanInv
  <2>3. CASE CancelReturn(c, "error") /\ UNCHANGED <<rows, clock>>
    <3>1. cans'[c].answer = "error"
      BY <1>1, <2>3 DEF CancelReturn, Can
    <3>2. KeepsAnswer(cans[c], cans'[c])
      BY <2>2, <3>1 DEF KeepsAnswer, Untold
    <3> QED BY <1>1, <1>3, <2>3, <3>2, FailureCounted DEF Effect
  <2>4. ASSUME NEW answer \in Answers, GetTaskByID(cans[c].task, answer),
               CancelReturn(c, answer)
        PROVE  Effect
    <3>5. PICK t \in TaskIds : t = cans[c].task /\ GetTaskByID(t, answer)
      BY <2>2, <2>4, Zenon
    <3>6. TypeOK /\ GetTaskByID(t, answer)
      BY <1>1, <3>5, Zenon
    <3>1. /\ rows' = rows /\ TableEffect
          /\ \/ /\ answer = IF Stored(t) THEN rows[t].status ELSE "notfound"
                /\ NoFailure
             \/ answer = "notfound" /\ OneFailure
      BY <3>6, ReadEffect, Zenon
    <3>2. cans'[c].answer = answer /\ cans'[c].task = t /\ rows[t] # None
      BY <1>1, <2>2, <2>4, <3>5 DEF CancelReturn, Can
    <3>3. TellsRow(cans[c], cans'[c])
      BY <2>2, <3>1, <3>2, Zenon DEF TellsRow
    <3>4. rows' = rows /\ TableEffect
      BY <3>1
    <3> QED BY <1>2, <3>3, <3>4 DEF Effect, CanTold
  <2> QED BY <1>6, <2>3, <2>4, Zenon DEF CancelAnswer
<1> QED BY <1>4, <1>5, <1>6, <1>7 DEF CancelStep

(* What a submission does to rows and answers.                             *)
LEMMA SubmissionEffect ==
    ASSUME IInv, NEW q \in Submits,
           \/ \E key \in Keys \cup {None}, mode \in Modes, kind \in Kinds :
                SubmitTask(q, key, mode, kind)
           \/ SubmitStep(q)
           \/ AbandonSubmit(q)
    PROVE  Effect
<1>1. /\ TypeOK /\ subs \in [Submits -> Sub] /\ subs[q] \in Sub /\ SubShape(subs[q])
      /\ SubInv(q)
  BY DEF IInv, Shaped, TypeOK
<1>2. cans' = cans /\ \A p \in Submits : p # q => subs'[p] = subs[p]
  BY <1>1 DEF SubmitTask, SubmitStep, AbandonSubmit, ReserveRequest, LookUpRequest,
         JoinRuntime, RefuseTask, InsertTask, FinishImmediate, StartTask, ResolveSubmit,
         WakeSubmit, AnswerSubmit, LoadCompleted, Return, SubGoto
<1>3. ASSUME subs[q].answer = None, subs'[q].answer \in Untold
      PROVE  AnswersKept
  BY <1>2, <1>3 DEF AnswersKept, KeepsAnswer, Untold
<1>4. ASSUME subs[q].pc # "done", subs'[q].answer \in {subs[q].answer, "busy", "error"},
             TableEffect
      PROVE  Effect
  <2>1. subs[q].answer = None
    BY <1>1, <1>4 DEF SubShape
  <2>2. subs'[q].answer \in Untold
    BY <1>4, <2>1 DEF Untold
  <2> QED BY <1>3, <1>4, <2>1, <2>2 DEF Effect
<1>5. UNCHANGED <<rows, clock>> \/ StatementFails => TableEffect
  BY <1>1, FailureCounted
<1>6. ASSUME NEW key \in Keys \cup {None}, NEW mode \in Modes, NEW kind \in Kinds,
             SubmitTask(q, key, mode, kind)
      PROVE  Effect
  <2>1. subs[q].pc = "idle" /\ subs'[q].answer = None /\ MaybePruneExpiredTasks
    BY <1>1, <1>6 DEF SubmitTask, SubAt, NoSub
  <2>2. subs[q].answer = None /\ TableEffect
    <3>1. CASE UNCHANGED <<rows, clock>>
      BY <1>1, <1>5, <2>1, <3>1 DEF SubShape
    <3>2. CASE clock' = [clock EXCEPT !.pruned = clock.now] /\ DeleteExpiredTasks
      <4>1. NoFailure
        BY <1>1, <3>2 DEF TypeOK, Clock, NoFailure
      <4> QED BY <1>1, <2>1, <3>2, <4>1 DEF SubShape, TableEffect, TableStep
    <3>3. CASE /\ clock' = [clock EXCEPT !.pruned = clock.now, !.failures = @ + 1]
               /\ UNCHANGED rows
      <4>1. OneFailure
        BY <1>1, <3>3 DEF TypeOK, Clock, OneFailure
      <4> QED BY <1>1, <2>1, <3>3, <4>1 DEF SubShape, TableEffect, TableStep
    <3> QED BY <2>1, <3>1, <3>2, <3>3, Zenon DEF MaybePruneExpiredTasks
  <2> QED BY <1>4, <2>1, <2>2
<1>7. CASE ReserveRequest(q) \/ JoinRuntime(q) \/ WakeSubmit(q)
           \/ StartTask(q) \/ AbandonSubmit(q)
  <2>1. /\ UNCHANGED <<rows, clock>> /\ subs[q].pc # "done"
        /\ subs'[q].answer \in {subs[q].answer, "busy", "error"}
    BY <1>1, <1>7 DEF ReserveRequest, JoinRuntime, WakeSubmit, StartTask, AbandonSubmit,
       Return, SubGoto, SubAt, Sub
  <2> QED BY <1>4, <1>5, <2>1
<1>8. CASE LookUpRequest(q) \/ RefuseTask(q)
  <2>1. /\ UNCHANGED <<rows, clock>> \/ StatementFails
        /\ subs[q].pc # "done" /\ subs'[q].answer \in {subs[q].answer, "error"}
    BY <1>1, <1>8 DEF LookUpRequest, RefuseTask, Return, SubGoto, SubAt, Sub
  <2> QED BY <1>4, <1>5, <2>1
<1>9. CASE InsertTask(q)
  <2>1. /\ subs[q].pc # "done" /\ subs'[q].answer = subs[q].answer
        /\ subs[q].key \in Keys \cup {None}
    <3>1. subs[q].pc = "create" /\ subs[q].key \in Keys \cup {None}
      BY <1>1, <1>9 DEF InsertTask, SubAt, Sub
    <3>2. CASE \E t \in TaskIds :
                 subs' = [subs EXCEPT ![q].task = t, ![q].at = clock.now,
                            ![q].pc = IF subs[q].kind = "immediate"
                                        THEN "immediate" ELSE "register"]
      BY <1>1, <3>1, <3>2 DEF Sub
    <3>3. CASE \E t \in RowsOf(subs[q].key) :
                 subs' = [subs EXCEPT ![q].pc = "runtime", ![q].task = t]
      BY <1>1, <3>1, <3>3 DEF Sub
    <3> QED BY <1>9, <3>2, <3>3 DEF InsertTask
  <2>2. TableEffect
    BY <1>9, <2>1 DEF InsertTask, TableEffect, TableStep, InsertsRow, NoFailure
  <2> QED BY <1>4, <2>1, <2>2
<1>10. CASE FinishImmediate(q)
  <2>1. PICK result \in {"applied", "skipped", "failed"} :
          /\ MarkTaskTerminal(subs[q].task, "succeeded", subs[q].at, 0, result)
          /\ IF result = "applied"
               THEN /\ subs' = [subs EXCEPT ![q].pc = "load", ![q].held = FALSE]
                    /\ reservations' = reservations \ {subs[q].key}
               ELSE Return(q, "error")
    BY <1>10 DEF FinishImmediate
  <2>2. subs[q].pc = "immediate" /\ subs'[q].answer \in {subs[q].answer, "error"}
    BY <1>1, <1>10, <2>1 DEF FinishImmediate, Return, SubAt, Sub
  <2>3. "succeeded" \in Terminal /\ subs[q].task \in TaskIds /\ subs[q].at \in Nat
    BY <1>1, <2>2 DEF Terminal, Sub, SubShape
  <2>4. TableEffect
    BY <1>1, <2>1, <2>3, TerminalEffect, Zenon
  <2> QED BY <1>4, <2>2, <2>4
<1>11. ASSUME NEW answer \in Answers, GetTaskByID(subs[q].task, answer),
              subs[q].pc \in {"resolve", "read", "load"}
       PROVE  /\ TableEffect /\ rows' = rows /\ subs[q].answer = None
              /\ Return(q, answer) => Effect
  <2>1. subs[q].answer = None /\ subs[q].task \in TaskIds /\ rows[subs[q].task] # None
    BY <1>1, <1>11 DEF SubShape, Sub, SubInv
  <2>4. PICK t \in TaskIds : t = subs[q].task /\ GetTaskByID(t, answer)
    BY <1>11, <2>1, Zenon
  <2>5. TypeOK /\ GetTaskByID(t, answer)
    BY <1>1, <2>4, Zenon
  <2>2. /\ rows' = rows /\ TableEffect
        /\ \/ /\ answer = IF Stored(t) THEN rows[t].status ELSE "notfound"
              /\ NoFailure
           \/ answer = "notfound" /\ OneFailure
    BY <2>5, ReadEffect, Zenon
  <2>3. ASSUME Return(q, answer)
        PROVE  Effect
    <3>1. subs'[q].task = t /\ subs'[q].answer = answer /\ rows[t] # None
      BY <1>1, <2>1, <2>3, <2>4 DEF Return, Sub
    <3>2. TellsRow(subs[q], subs'[q])
      BY <2>1, <2>2, <3>1, Zenon DEF TellsRow
    <3>3. rows' = rows /\ TableEffect
      BY <2>2
    <3> QED BY <1>2, <3>2, <3>3 DEF Effect, SubTold
  <2> QED BY <2>1, <2>2, <2>3
<1>12. CASE ResolveSubmit(q)
  <2>1. PICK answer \in Answers :
          /\ GetTaskByID(subs[q].task, answer)
          /\ \/ Return(q, answer)
             \/ SubGoto(q, IF subs[q].runtime THEN "wait" ELSE "read")
    BY <1>12, Zenon DEF ResolveSubmit
  <2>2. subs[q].pc = "resolve" /\ subs[q].pc # "done"
    BY <1>12 DEF ResolveSubmit, SubAt
  <2>3. CASE SubGoto(q, IF subs[q].runtime THEN "wait" ELSE "read")
    <3>1. subs'[q].answer = subs[q].answer
      BY <1>1, <2>3 DEF SubGoto, Sub
    <3> QED BY <1>4, <1>11, <2>1, <2>2, <3>1
  <2> QED BY <1>11, <2>1, <2>2, <2>3
<1>13. CASE AnswerSubmit(q)
  BY <1>11, <1>13 DEF AnswerSubmit, SubAt
<1>14. CASE LoadCompleted(q)
  <2>1. PICK answer \in Answers :
          /\ GetTaskByID(subs[q].task, answer)
          /\ Return(q, IF answer = "notfound" THEN "error" ELSE answer)
    BY <1>14, Zenon DEF LoadCompleted
  <2>2. subs[q].pc = "load" /\ subs[q].pc # "done"
    BY <1>14 DEF LoadCompleted, SubAt
  <2>3. CASE answer = "notfound"
    <3>1. subs'[q].answer = "error"
      BY <1>1, <2>1, <2>3 DEF Return, Sub
    <3> QED BY <1>4, <1>11, <2>1, <2>2, <3>1
  <2>4. CASE answer # "notfound"
    <3>1. Return(q, answer)
      BY <2>1, <2>4
    <3> QED BY <1>11, <2>1, <2>2, <3>1
  <2> QED BY <2>3, <2>4
<1> QED
  BY <1>6, <1>7, <1>8, <1>9, <1>10, <1>12, <1>13, <1>14 DEF SubmitStep

(* Every step has one of the effects.                                      *)
LEMMA StepEffect == IInv /\ [Next]_vars => Effect
<1> SUFFICES ASSUME IInv, [Next]_vars PROVE Effect
  OBVIOUS
<1>1. /\ Shaped /\ TypeOK
      /\ \A q \in Submits : subs[q].pc # "done" => subs[q].answer = None
      /\ \A c \in Cancels : cans[c].pc # "done" => cans[c].answer = None
  BY DEF IInv, Shaped, SubShape, CanShape
<1>2. ASSUME UNCHANGED <<subs, cans>>
      PROVE  AnswersKept
  BY <1>2 DEF AnswersKept, KeepsAnswer
<1>3. ASSUME NEW t \in TaskIds, ExecStep(t)
      PROVE  Effect
  BY <1>1, <1>2, <1>3, ExecutionEffect DEF Effect
<1>4. CASE RestartConsole
  <2>1. TableEffect
    <3>1. NoFailure
      BY <1>1, <1>4 DEF RestartConsole, TypeOK, Clock, NoFailure
    <3> QED BY <1>4, <3>1 DEF RestartConsole, TableEffect, TableStep
  <2>2. ASSUME NEW q \in Submits
        PROVE  KeepsAnswer(subs[q], subs'[q])
    <3>1. subs'[q] = IF subs[q].pc \in {"idle", "done"} THEN subs[q]
                       ELSE [subs[q] EXCEPT !.pc = "done", !.answer = "error", !.held = FALSE]
      BY <1>4 DEF RestartConsole
    <3>2. CASE subs[q].pc \in {"idle", "done"}
      BY <3>1, <3>2 DEF KeepsAnswer
    <3>3. CASE subs[q].pc \notin {"idle", "done"}
      <4>1. subs[q].answer = None /\ subs'[q].answer = "error"
        BY <1>1, <3>1, <3>3 DEF TypeOK, Sub
      <4> QED BY <4>1 DEF KeepsAnswer, Untold
    <3> QED BY <3>2, <3>3
  <2>3. ASSUME NEW c \in Cancels
        PROVE  KeepsAnswer(cans[c], cans'[c])
    <3>1. cans'[c] = IF cans[c].pc \in {"idle", "done"} THEN cans[c]
                       ELSE [cans[c] EXCEPT !.pc = "done", !.answer = "error"]
      BY <1>4 DEF RestartConsole
    <3>2. CASE cans[c].pc \in {"idle", "done"}
      BY <3>1, <3>2 DEF KeepsAnswer
    <3>3. CASE cans[c].pc \notin {"idle", "done"}
      <4>1. cans[c].answer = None /\ cans'[c].answer = "error"
        BY <1>1, <3>1, <3>3 DEF TypeOK, Can
      <4> QED BY <4>1 DEF KeepsAnswer, Untold
    <3> QED BY <3>2, <3>3
  <2> QED BY <2>1, <2>2, <2>3 DEF Effect, AnswersKept
<1>5. CASE PruneExpiredTasks \/ Tick \/ UNCHANGED vars
  <2>1. TableEffect /\ UNCHANGED <<subs, cans>>
    <3>1. NoFailure
      BY <1>1, <1>5 DEF PruneExpiredTasks, Tick, vars, TypeOK, Clock, NoFailure
    <3> QED BY <1>5, <3>1 DEF PruneExpiredTasks, Tick, vars, TableEffect, TableStep
  <2> QED BY <1>2, <2>1 DEF Effect
<1> QED
  BY <1>3, <1>4, <1>5, SubmissionEffect, CancellationEffect DEF Next

-----------------------------------------------------------------------------
(* The start-up makes an open row a failed one.                            *)
LEMMA StartupRow ==
    ASSUME TypeOK, NEW t \in TaskIds, IsOpen(t)
    PROVE  /\ FailedOnStartup(t) \in Row /\ FailedOnStartup(t).key = rows[t].key
           /\ FailedOnStartup(t).status = "failed" /\ Dated(FailedOnStartup(t))
<1> DEFINE row == TerminalRow(rows[t], "failed", clock.now, clock.now + Retention)
<1>1. Retention \in Nat
  BY TasksAssumption
<1>2. /\ clock.now \in Nat /\ clock.now + Retention \in Int /\ "failed" \in Terminal
      /\ clock.now + Retention = clock.now - 0 + Retention
  BY <1>1, NowIsNat DEF Terminal
<1>3. /\ row \in Row /\ row.key = rows[t].key /\ row.status = "failed"
      /\ row.done = clock.now /\ row.expires = clock.now + Retention
  BY <1>2, OpenRow, Zenon DEF TerminalRow, Row
<1> HIDE DEF row
<1>4. Dated(row)
  BY <1>2, <1>3 DEF Dated
<1>5. FailedOnStartup(t) = row
  BY DEF FailedOnStartup, row
<1> QED BY <1>3, <1>4, <1>5

(* What happens to one row in a step.                                      *)
LEMMA RowStep ==
    ASSUME TypeOK, TableStep, NEW t \in TaskIds
    PROVE  \/ rows'[t] = rows[t]
           \/ rows[t] = None /\ rows'[t] \in Row /\ Dated(rows'[t])
           \/ IsOpen(t) /\ rows'[t] \in Row /\ Dated(rows'[t])
           \/ Expired(t) /\ rows'[t] = Gone
<1>1. CASE rows' = rows
  BY <1>1
<1>2. ASSUME NEW u \in TaskIds, UpdatesRow(u)
      PROVE  rows'[t] = rows[t] \/ (IsOpen(t) /\ rows'[t] \in Row /\ Dated(rows'[t]))
  BY <1>2 DEF UpdatesRow, TypeOK
<1>3. ASSUME NEW u \in TaskIds, InsertsRow(u)
      PROVE  \/ rows'[t] = rows[t]
             \/ rows[t] = None /\ rows'[t] \in Row /\ Dated(rows'[t])
  <2>1. PICK key \in Keys \cup {None} :
          rows[u] = None /\ rows' = [rows EXCEPT ![u] = QueuedRow(key)]
    BY <1>3, Zenon DEF InsertsRow
  <2>2. MaxAttempts \in Nat
    BY TasksAssumption
  <2>3. QueuedRow(key) \in Row /\ QueuedRow(key).status = "queued"
    BY <2>2 DEF QueuedRow, Row, Open
  <2>4. Dated(QueuedRow(key))
    BY <2>3 DEF Dated, Terminal
  <2> QED BY <2>1, <2>3, <2>4 DEF TypeOK
<1>4. CASE DeleteExpiredTasks
  BY <1>4 DEF DeleteExpiredTasks
<1>5. CASE rows' = [u \in TaskIds |-> FailedOnStartup(u)]
  <2>1. rows'[t] = FailedOnStartup(t)
    BY <1>5
  <2>2. CASE IsOpen(t)
    BY <2>1, <2>2, StartupRow
  <2>3. CASE ~ IsOpen(t)
    BY <2>1, <2>3 DEF FailedOnStartup
  <2> QED BY <2>2, <2>3
<1> QED BY <1>1, <1>2, <1>3, <1>4, <1>5 DEF TableStep

(* One outcome per task: completion, time-out, cancellation, the fallback  *)
(* and the restart race for a row, and the late ones lose.                 *)
THEOREM OutcomesFinal == Spec => TerminalFinal
<1>1. IInv /\ [Next]_vars =>
        [\A t \in TaskIds : IsTerminal(t) => rows'[t] \in {rows[t], Gone}]_vars
  <2> SUFFICES ASSUME IInv, [Next]_vars, NEW t \in TaskIds, IsTerminal(t)
               PROVE  rows'[t] \in {rows[t], Gone}
    OBVIOUS
  <2>1. TypeOK /\ TableStep
    BY StepEffect DEF IInv, Shaped, Effect, TableEffect
  <2>2. ~ IsOpen(t) /\ rows[t] # None
    BY DEF IsTerminal, IsOpen, Stored, Open, Terminal
  <2> QED BY <2>1, <2>2, RowStep
<1> QED BY <1>1, Invariant, PTL DEF Spec, TerminalFinal

(* Every terminal row is dated.                                            *)
RowsDated == \A t \in TaskIds : Stored(t) => Dated(rows[t])

(* "terminal tasks are retained for CONSOLE_TASK_RETENTION_DAYS": no row   *)
(* is deleted earlier, for any interleaving of the pruner with writes of   *)
(* outcomes, when the workers' clocks agree with the console's.            *)
THEOREM RetentionCorrect ==
    ASSUME Skews \subseteq {0}
    PROVE  Spec => RetentionKept
<1>1. Init => RowsDated
  BY DEF Init, RowsDated, Stored
<1>2. IInv /\ RowsDated /\ [Next]_vars => RowsDated'
  <2> SUFFICES ASSUME IInv, RowsDated, [Next]_vars, NEW t \in TaskIds, Stored(t)'
               PROVE  Dated(rows'[t])
    BY DEF RowsDated, Dated
  <2>1. TypeOK /\ TableStep
    BY StepEffect DEF IInv, Shaped, Effect, TableEffect
  <2> QED BY <2>1, RowStep DEF RowsDated, Stored
<1>3. IInv /\ RowsDated /\ [Next]_vars =>
        [\A t \in TaskIds : (Stored(t) /\ rows'[t] = Gone) =>
            IsTerminal(t) /\ rows[t].done + Retention <= clock.now]_vars
  <2> SUFFICES ASSUME IInv, RowsDated, [Next]_vars, NEW t \in TaskIds, Stored(t),
                      rows'[t] = Gone
               PROVE  IsTerminal(t) /\ rows[t].done + Retention <= clock.now
    OBVIOUS
  <2>1. TypeOK /\ TableStep
    BY StepEffect DEF IInv, Shaped, Effect, TableEffect
  <2>2. Gone \notin Row
    BY TasksAssumption
  <2>3. Expired(t)
    BY <2>1, <2>2, RowStep DEF Stored
  <2>4. rows[t] \in Row /\ Dated(rows[t]) /\ rows[t].status \in Terminal
    BY <2>1, <2>3 DEF TypeOK, Stored, RowsDated, Expired, IsTerminal
  <2>5. Retention \in Nat /\ rows[t].done \in Nat
    BY <2>4, TasksAssumption DEF Row
  <2>6. rows[t].expires = rows[t].done + Retention
    BY <2>4, <2>5 DEF Dated
  <2> QED BY <2>3, <2>6 DEF Expired
<1> QED BY <1>1, <1>2, <1>3, Invariant, PTL DEF Spec, RetentionKept

-----------------------------------------------------------------------------
(* The refinement of TaskService: what the row of a task says of it.       *)
RowStatus(row) ==
    CASE row = None         -> "absent"
      [] row = Gone         -> "gone"
      [] row \notin {None, Gone} /\ row.status \in Open -> "open"
      [] OTHER              -> row.status

RowRequest(row) == IF row \notin {None, Gone} THEN row.key ELSE None

(* The abstract status and request id of a row.                            *)
LEMMA RowStatusIs ==
    /\ RowStatus(None) = "absent" /\ RowStatus(Gone) = "gone"
    /\ RowRequest(None) = None /\ RowRequest(Gone) = None
    /\ \A row \in Row :
         /\ row.status \in Open => RowStatus(row) = "open"
         /\ row.status \in Terminal => RowStatus(row) = row.status
         /\ row.status \in Open \cup Terminal
         /\ RowRequest(row) = row.key
<1>1. None # Gone /\ None \notin Row /\ Gone \notin Row
  BY TasksAssumption
<1>2. RowStatus(None) = "absent" /\ RowRequest(None) = None /\ RowRequest(Gone) = None
  BY <1>1 DEF RowStatus, RowRequest
<1>3. RowStatus(Gone) = "gone"
  BY <1>1 DEF RowStatus
<1>4. ASSUME NEW row \in Row
      PROVE  /\ row.status \in Open => RowStatus(row) = "open"
             /\ row.status \in Terminal => RowStatus(row) = row.status
             /\ row.status \in Open \cup Terminal
             /\ RowRequest(row) = row.key
  <2>1. row # None /\ row # Gone
    BY <1>1
  <2>2. row.status \in Open \cup Terminal
    BY DEF Row
  <2>3. row.status \in Terminal => row.status \notin Open
    BY DEF Open, Terminal
  <2>4. row.status \in Open => RowStatus(row) = "open"
    BY <2>1 DEF RowStatus
  <2>5. row.status \in Terminal => RowStatus(row) = row.status
    BY <2>1, <2>3 DEF RowStatus
  <2> QED BY <2>1, <2>2, <2>4, <2>5 DEF RowRequest
<1> QED BY <1>2, <1>3, <1>4

(* The abstract answer for what a call was told.                           *)
LEMMA ToldIs ==
    ASSUME NEW task
    PROVE  /\ \A answer \in Open : Told(task, answer) = [task |-> task, status |-> "open"]
           /\ \A answer \in Terminal : Told(task, answer) = [task |-> task, status |-> answer]
           /\ Told(task, "notfound") = [task |-> task, status |-> "gone"]
           /\ \A answer \in Untold : Told(task, answer) = None
<1>1. None \notin Open /\ None \notin Terminal /\ None # "notfound"
  BY TasksAssumption DEF Answers
<1>2. \A answer \in Open : Told(task, answer) = [task |-> task, status |-> "open"]
  BY DEF Told, Open, Terminal
<1>3. \A answer \in Terminal : Told(task, answer) = [task |-> task, status |-> answer]
  BY DEF Told, Open, Terminal
<1>4. Told(task, "notfound") = [task |-> task, status |-> "gone"]
  BY DEF Told, Open, Terminal
<1>5. ASSUME NEW answer \in Untold
      PROVE  Told(task, answer) = None
  <2>1. answer \notin Open /\ answer \notin Terminal /\ answer # "notfound"
    <3>1. "busy" \notin Open \cup Terminal /\ "error" \notin Open \cup Terminal
      BY DEF Open, Terminal
    <3> QED BY <1>1, <3>1 DEF Untold
  <2> QED BY <2>1 DEF Told
<1> QED BY <1>2, <1>3, <1>4, <1>5

(* The state of the service.                                               *)
StatusMap == [t \in TaskIds |-> StatusOf(t)]
RequestMap == [t \in TaskIds |-> IF Stored(t) THEN rows[t].key ELSE None]
ToldMap == [c \in Submits \cup Cancels |->
              IF c \in Submits THEN Told(subs[c].task, subs[c].answer)
                               ELSE Told(cans[c].task, cans[c].answer)]

(* The refinement mapping, in both states of a step, in terms of rows.     *)
LEMMA MapsAre ==
    /\ StatusMap = [t \in TaskIds |-> RowStatus(rows[t])]
    /\ RequestMap = [t \in TaskIds |-> RowRequest(rows[t])]
    /\ StatusMap' = [t \in TaskIds |-> RowStatus(rows'[t])]
    /\ RequestMap' = [t \in TaskIds |-> RowRequest(rows'[t])]
<1>1. \A t \in TaskIds : StatusOf(t) = RowStatus(rows[t])
  BY DEF StatusOf, RowStatus, IsOpen, Stored
<1>2. \A t \in TaskIds : StatusOf(t)' = RowStatus(rows'[t])
  BY DEF StatusOf, RowStatus, IsOpen, Stored
<1> QED BY <1>1, <1>2 DEF StatusMap, RequestMap, RowRequest, Stored

(* Answers that are kept tell nothing.                                     *)
LEMMA ToldKept == AnswersKept => ToldMap' = ToldMap
<1> SUFFICES ASSUME AnswersKept PROVE ToldMap' = ToldMap
  OBVIOUS
<1>1. \A q \in Submits :
        Told(subs'[q].task, subs'[q].answer) = Told(subs[q].task, subs[q].answer)
  BY ToldIs DEF AnswersKept, KeepsAnswer
<1>2. \A c \in Cancels :
        Told(cans'[c].task, cans'[c].answer) = Told(cans[c].task, cans[c].answer)
  BY ToldIs, ZenonT(30) DEF AnswersKept, KeepsAnswer
<1> QED BY <1>1, <1>2 DEF ToldMap

(* A read of a row tells what is so, or has failed.                        *)
LEMMA ReadTells ==
    ASSUME TypeOK, NEW before, NEW after, TellsRow(before, after)
    PROVE  /\ StatusMap[after.task] # "absent"
           /\ Told(before.task, before.answer) = None
           /\ \/ /\ Told(after.task, after.answer)
                      = [task |-> after.task, status |-> StatusMap[after.task]]
                 /\ NoFailure
              \/ /\ Told(after.task, after.answer) = [task |-> after.task, status |-> "gone"]
                 /\ OneFailure
<1> DEFINE t == after.task
<1>1. t \in TaskIds /\ rows[t] \in Row \cup {Gone} /\ before.answer = None
  BY DEF TellsRow, TypeOK
<1>2. StatusMap[t] = RowStatus(rows[t])
  BY <1>1, MapsAre
<1>3. Told(before.task, before.answer) = None
  BY <1>1, ToldIs DEF Untold
<1>4. CASE rows[t] = Gone
  <2>1. after.answer = "notfound" /\ (NoFailure \/ OneFailure)
    BY <1>4 DEF TellsRow, Stored
  <2>2. Told(t, after.answer) = [task |-> t, status |-> "gone"] /\ StatusMap[t] = "gone"
    BY <1>2, <1>4, <2>1, RowStatusIs, ToldIs
  <2> QED BY <1>3, <2>1, <2>2
<1>5. CASE rows[t] \in Row
  <2>1. Stored(t)
    BY <1>5, TasksAssumption DEF Stored
  <2>5. StatusMap[t] # "absent"
    <3>1. "absent" \notin Terminal
      BY DEF Terminal
    <3> QED BY <1>2, <1>5, <3>1, RowStatusIs
  <2>6. CASE after.answer = "notfound" /\ OneFailure
    <3>1. Told(t, after.answer) = [task |-> t, status |-> "gone"]
      BY <2>6, ToldIs
    <3> QED BY <1>3, <2>5, <2>6, <3>1
  <2>2. CASE after.answer = rows[t].status /\ NoFailure
    <3>3. CASE rows[t].status \in Open
      <4>1. StatusMap[t] = "open"
        BY <1>2, <1>5, <3>3, RowStatusIs
      <4>2. Told(t, after.answer) = [task |-> t, status |-> "open"]
        BY <2>2, <3>3, ToldIs
      <4> QED BY <1>3, <2>2, <2>5, <4>1, <4>2
    <3>4. CASE rows[t].status \in Terminal
      <4>1. StatusMap[t] = rows[t].status
        BY <1>2, <1>5, <3>4, RowStatusIs
      <4>2. Told(t, after.answer) = [task |-> t, status |-> rows[t].status]
        BY <2>2, <3>4, ToldIs
      <4> QED BY <1>3, <2>2, <2>5, <4>1, <4>2
    <3> QED BY <1>5, <3>3, <3>4, RowStatusIs
  <2> QED BY <2>1, <2>2, <2>6 DEF TellsRow
<1> QED BY <1>1, <1>4, <1>5

(* What a call is told is a step of the service.                           *)
LEMMA TellRefines ==
    ASSUME NEW c \in Submits \cup Cancels, NEW t \in TaskIds,
           StatusMap' = StatusMap, RequestMap' = RequestMap,
           ToldMap[c] = None, StatusMap[t] # "absent",
           \/ /\ ToldMap' = [ToldMap EXCEPT ![c] = [task |-> t, status |-> StatusMap[t]]]
              /\ NoFailure
           \/ /\ ToldMap' = [ToldMap EXCEPT ![c] = [task |-> t, status |-> "gone"]]
              /\ OneFailure
    PROVE  Service!ServiceNext
<1>1. CASE /\ ToldMap' = [ToldMap EXCEPT ![c] = [task |-> t, status |-> StatusMap[t]]]
           /\ NoFailure
  <2>1. Service!Tell(c)
    BY <1>1, Zenon DEF Service!Tell, StatusMap, RequestMap, ToldMap, NoFailure
  <2> QED BY <2>1 DEF Service!ServiceNext
<1>2. CASE /\ ToldMap' = [ToldMap EXCEPT ![c] = [task |-> t, status |-> "gone"]]
           /\ OneFailure
  <2>1. Service!Misread(c)
    BY <1>2, Zenon DEF Service!Misread, StatusMap, RequestMap, ToldMap, OneFailure
  <2> QED BY <2>1 DEF Service!ServiceNext
<1> QED BY <1>1, <1>2

(* Every effect is a step of the service, or none.                         *)
LEMMA EffectRefines ==
    ASSUME TypeOK, Effect
    PROVE  [Service!ServiceNext]_(Service!serviceVars)
<1>1. rows' = rows => StatusMap' = StatusMap /\ RequestMap' = RequestMap
  BY MapsAre
<1>2. /\ rows \in [TaskIds -> Row \cup {None, Gone}]
      /\ \A t \in TaskIds : IsOpen(t) => rows[t] \in Row /\ RowStatus(rows[t]) = "open"
  BY OpenRow, RowStatusIs DEF TypeOK, IsOpen
<1>3. ASSUME ToldMap' = ToldMap, NoFailure, NEW t \in TaskIds, UpdatesRow(t)
      PROVE  \/ StatusMap' = StatusMap /\ RequestMap' = RequestMap
             \/ Service!Settle(t)
  <2>1. PICK row \in Row : /\ IsOpen(t) /\ row.key = rows[t].key
                           /\ rows' = [rows EXCEPT ![t] = row]
    BY <1>3, Zenon DEF UpdatesRow
  <2>2. /\ rows'[t] = row /\ \A u \in TaskIds : u # t => rows'[u] = rows[u]
        /\ RowRequest(row) = RowRequest(rows[t])
    BY <1>2, <2>1, RowStatusIs
  <2>3. RequestMap' = RequestMap
    BY <2>2, MapsAre
  <2>4. CASE row.status \in Open
    <3>1. RowStatus(row) = RowStatus(rows[t])
      BY <1>2, <2>1, <2>4, RowStatusIs
    <3>2. StatusMap' = StatusMap
      BY <2>2, <3>1, MapsAre
    <3> QED BY <2>3, <3>2
  <2>5. CASE row.status \in Terminal
    <3>1. RowStatus(row) \in Terminal /\ StatusMap[t] = "open"
      BY <1>2, <2>1, <2>5, RowStatusIs, MapsAre
    <3>2. StatusMap' = [StatusMap EXCEPT ![t] = RowStatus(row)]
      BY <2>2, MapsAre
    <3> QED BY <1>3, <2>3, <3>1, <3>2, Zenon DEF Service!Settle, Service!Outcomes, Terminal,
               StatusMap, RequestMap, ToldMap, NoFailure
  <2> QED BY <2>4, <2>5, RowStatusIs
<1>4. ASSUME ToldMap' = ToldMap, NoFailure, NEW t \in TaskIds, InsertsRow(t)
      PROVE  Service!Accept(t)
  <2>1. PICK key \in Keys \cup {None} : /\ rows[t] = None /\ ~ Conflicts(key)
                                        /\ rows' = [rows EXCEPT ![t] = QueuedRow(key)]
    BY <1>4, Zenon DEF InsertsRow
  <2>2. /\ rows'[t] = QueuedRow(key) /\ \A u \in TaskIds : u # t => rows'[u] = rows[u]
    BY <1>2, <2>1
  <2>3. MaxAttempts \in Nat
    BY TasksAssumption
  <2>4. /\ QueuedRow(key) \in Row /\ QueuedRow(key).status \in Open
        /\ QueuedRow(key).key = key
    BY <2>3 DEF QueuedRow, Row, Open
  <2>5. RowStatus(QueuedRow(key)) = "open" /\ RowRequest(QueuedRow(key)) = key
    BY <2>4, RowStatusIs
  <2>6. /\ StatusMap[t] = "absent" /\ StatusMap' = [StatusMap EXCEPT ![t] = "open"]
        /\ RequestMap' = [RequestMap EXCEPT ![t] = key]
    <3>1. StatusMap[t] = "absent"
      BY <2>1, RowStatusIs, MapsAre
    <3>2. StatusMap' = [StatusMap EXCEPT ![t] = "open"]
      BY <2>2, <2>5, MapsAre
    <3>3. RequestMap' = [RequestMap EXCEPT ![t] = key]
      BY <2>2, <2>5, MapsAre
    <3> QED BY <3>1, <3>2, <3>3
  <2>7. key # None => \A u \in TaskIds : RequestMap[u] # key
    BY <2>1 DEF Conflicts, RowsOf, RequestMap, Stored
  <2> QED BY <1>4, <2>6, <2>7, Zenon DEF Service!Accept, StatusMap, RequestMap, ToldMap, NoFailure
<1>5. ASSUME ToldMap' = ToldMap, NoFailure, DeleteExpiredTasks
      PROVE  \E S \in SUBSET TaskIds : Service!Forget(S)
  <2> DEFINE X == {t \in TaskIds : Expired(t)}
  <2>0. X \in SUBSET TaskIds /\ \A t \in TaskIds : t \in X <=> Expired(t)
    BY Zenon
  <2> HIDE DEF X
  <2>3. PICK S \in SUBSET TaskIds : \A t \in TaskIds : t \in S <=> Expired(t)
    BY <2>0, Zenon
  <2>1. \A t \in TaskIds : rows'[t] = IF t \in S THEN Gone ELSE rows[t]
    BY <1>5, <2>3 DEF DeleteExpiredTasks
  <2>2. \A t \in S : StatusMap[t] \in Terminal
    BY <1>2, <2>3, RowStatusIs, MapsAre DEF Expired, IsTerminal, Stored
  <2>4. /\ StatusMap' = [t \in TaskIds |-> IF t \in S THEN "gone" ELSE StatusMap[t]]
        /\ RequestMap' = [t \in TaskIds |-> IF t \in S THEN None ELSE RequestMap[t]]
    BY <2>1, MapsAre, RowStatusIs
  <2>5. Service!Forget(S)
    BY <1>5, <2>2, <2>4 DEF Service!Forget, Service!Outcomes, Terminal, StatusMap,
       RequestMap, ToldMap, NoFailure
  <2> QED BY <2>3, <2>5
<1>6. ASSUME ToldMap' = ToldMap, NoFailure, rows' = [t \in TaskIds |-> FailedOnStartup(t)]
      PROVE  Service!FailOpen
  <2>1. ASSUME NEW t \in TaskIds
        PROVE  /\ RowStatus(rows'[t]) = IF RowStatus(rows[t]) = "open" THEN "failed"
                                          ELSE RowStatus(rows[t])
               /\ RowRequest(rows'[t]) = RowRequest(rows[t])
    <3>1. rows'[t] = FailedOnStartup(t)
      BY <1>6
    <3>2. CASE IsOpen(t)
      <4>1. /\ rows'[t] \in Row /\ rows'[t].key = rows[t].key
            /\ rows'[t].status = "failed" /\ "failed" \in Terminal
        BY <3>1, <3>2, StartupRow DEF Terminal
      <4> QED BY <1>2, <3>2, <4>1, RowStatusIs
    <3>3. CASE ~ IsOpen(t)
      <4>1. rows'[t] = rows[t]
        BY <3>1, <3>3 DEF FailedOnStartup
      <4>2. RowStatus(rows[t]) # "open"
        <5>1. rows[t] \in Row => rows[t].status \in Terminal /\ rows[t].status # "open"
          <6>1. rows[t] \in Row => Stored(t)
            BY TasksAssumption DEF Stored
          <6>2. rows[t] \in Row => rows[t].status \in Terminal
            BY <3>3, <6>1, RowStatusIs DEF IsOpen
          <6> QED BY <6>2 DEF Terminal
        <5> QED BY <1>2, <5>1, RowStatusIs
      <4> QED BY <4>1, <4>2
    <3> QED BY <3>2, <3>3
  <2>2. /\ StatusMap' = [t \in TaskIds |-> IF StatusMap[t] = "open" THEN "failed"
                                             ELSE StatusMap[t]]
        /\ RequestMap' = RequestMap
    BY <2>1, MapsAre
  <2> QED BY <1>6, <2>2 DEF Service!FailOpen, StatusMap, RequestMap, ToldMap, NoFailure
<1>10. ASSUME ToldMap' = ToldMap
       PROVE  [Service!ServiceNext]_(Service!serviceVars)
  <2>1. ASSUME StatusMap' = StatusMap, RequestMap' = RequestMap, NoFailure
        PROVE  UNCHANGED Service!serviceVars
    BY <1>10, <2>1 DEF StatusMap, RequestMap, ToldMap, NoFailure, Service!serviceVars
  <2>2. CASE OneFailure
    <3>1. StatusMap' = StatusMap /\ RequestMap' = RequestMap
      BY <1>1, <2>2 DEF OneFailure
    <3>2. Service!Fail
      BY <1>10, <2>2, <3>1, Zenon DEF Service!Fail, OneFailure, StatusMap, RequestMap,
         ToldMap
    <3> QED BY <3>2 DEF Service!ServiceNext
  <2>3. CASE NoFailure
    BY <1>1, <1>3, <1>4, <1>5, <1>6, <1>10, <2>1, <2>3
       DEF Effect, TableEffect, TableStep, Service!ServiceNext
  <2> QED BY <2>2, <2>3 DEF Effect, TableEffect
<1>7. CASE AnswersKept
  BY <1>7, <1>10, ToldKept
<1>8. CASE SubTold
  <2>1. PICK q \in Submits : /\ TellsRow(subs[q], subs'[q])
                             /\ \A p \in Submits : p # q => subs'[p] = subs[p]
    BY <1>8 DEF SubTold
  <2>2. PICK t \in TaskIds : t = subs'[q].task
    BY <2>1 DEF TellsRow
  <2> DEFINE new == Told(subs'[q].task, subs'[q].answer)
  <2>3. /\ StatusMap[t] # "absent" /\ ToldMap[q] = None
        /\ \/ new = [task |-> t, status |-> StatusMap[t]] /\ NoFailure
           \/ new = [task |-> t, status |-> "gone"] /\ OneFailure
    BY <2>1, <2>2, ReadTells DEF ToldMap
  <2>4. ToldMap' = [ToldMap EXCEPT ![q] = new]
    BY <1>8, <2>1, Zenon DEF ToldMap, SubTold
  <2>5. StatusMap' = StatusMap /\ RequestMap' = RequestMap
    BY <1>1, <1>8 DEF SubTold
  <2> QED BY <2>3, <2>4, <2>5, TellRefines
<1>9. CASE CanTold
  <2>1. PICK c \in Cancels : /\ TellsRow(cans[c], cans'[c])
                             /\ \A d \in Cancels : d # c => cans'[d] = cans[d]
    BY <1>9 DEF CanTold
  <2>2. PICK t \in TaskIds : t = cans'[c].task
    BY <2>1 DEF TellsRow
  <2> DEFINE new == Told(cans'[c].task, cans'[c].answer)
  <2>3. /\ StatusMap[t] # "absent" /\ Told(cans[c].task, cans[c].answer) = None
        /\ \/ new = [task |-> t, status |-> StatusMap[t]] /\ NoFailure
           \/ new = [task |-> t, status |-> "gone"] /\ OneFailure
    BY <2>1, <2>2, ReadTells
  <2>5. StatusMap' = StatusMap /\ RequestMap' = RequestMap
    BY <1>1, <1>9 DEF CanTold
  <2>6. CASE c \in Submits
    BY <1>9, <1>10, <2>1, <2>6 DEF ToldMap, CanTold
  <2>7. CASE c \notin Submits
    <3>1. ToldMap[c] = None /\ ToldMap' = [ToldMap EXCEPT ![c] = new]
      BY <1>9, <2>1, <2>3, <2>7, Zenon DEF ToldMap, CanTold
    <3> QED BY <2>3, <2>5, <3>1, TellRefines
  <2> QED BY <2>6, <2>7
<1> QED BY <1>7, <1>8, <1>9 DEF Effect

(* Tasks implements the service of TaskService: one task for a request id, *)
(* one outcome for a task, and answers that say what is so, whatever       *)
(* submissions, executions, cancellations, prunes and restarts race; only  *)
(* an answer whose own read failed may call a stored task not found.       *)
THEOREM ServiceImplemented == Spec => ImplementsService
<1>1. Init => Service!ServiceInit
  <2> SUFFICES ASSUME Init PROVE Service!ServiceInit
    OBVIOUS
  <2>1. \A t \in TaskIds : rows[t] = None
    BY DEF Init
  <2>2. StatusMap = [t \in TaskIds |-> "absent"] /\ RequestMap = [t \in TaskIds |-> None]
    BY <2>1, MapsAre, RowStatusIs
  <2>3. /\ \A q \in Submits : Told(subs[q].task, subs[q].answer) = None
        /\ \A c \in Cancels : Told(cans[c].task, cans[c].answer) = None
    BY ToldIs DEF Init, NoSub, NoCan, Untold
  <2>4. ToldMap = [c \in Submits \cup Cancels |-> None]
    BY <2>3 DEF ToldMap
  <2>5. clock.failures = 0
    BY DEF Init
  <2> QED BY <2>2, <2>4, <2>5 DEF Service!ServiceInit, StatusMap, RequestMap, ToldMap
<1>2. IInv /\ [Next]_vars => [Service!ServiceNext]_(Service!serviceVars)
  BY StepEffect, EffectRefines DEF IInv, Shaped
<1> QED
  BY <1>1, <1>2, Invariant, PTL DEF Spec, ImplementsService, Service!ServiceSpec

=============================================================================
