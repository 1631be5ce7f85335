-------------------------- MODULE TaskServiceProofs --------------------------
(***************************************************************************)
(* Every service of tasks keeps its word: what TaskService promises beyond *)
(* its steps, for any sets of tasks, request ids and calls.                *)
(***************************************************************************)
EXTENDS TaskService, TLAPS

Statuses == {"absent", "open", "gone"} \cup Outcomes

ServiceTypeOK ==
    /\ status \in [TaskIds -> Statuses]
    /\ request \in [TaskIds -> Keys \cup {None}]
    /\ told \in [Calls -> [task : TaskIds, status : Statuses] \cup {None}]

(* The variables keep their types along every step of the service.         *)
LEMMA ServiceTypes == ServiceSpec => []ServiceTypeOK
<1>1. ServiceInit => ServiceTypeOK
  BY DEF ServiceInit, ServiceTypeOK, Statuses
<1>2. ServiceTypeOK /\ [ServiceNext]_serviceVars => ServiceTypeOK'
  <2> SUFFICES ASSUME ServiceTypeOK, [ServiceNext]_serviceVars
               PROVE  ServiceTypeOK'
    OBVIOUS
  <2> USE DEF ServiceTypeOK, Statuses
  <2>1. ASSUME NEW t \in TaskIds, Accept(t)
        PROVE  ServiceTypeOK'
    BY <2>1 DEF Accept
  <2>2. ASSUME NEW t \in TaskIds, Settle(t)
        PROVE  ServiceTypeOK'
    BY <2>2 DEF Settle
  <2>3. CASE FailOpen
    BY <2>3 DEF FailOpen, Outcomes
  <2>4. ASSUME NEW S \in SUBSET TaskIds, Forget(S)
        PROVE  ServiceTypeOK'
    BY <2>4 DEF Forget
  <2>5. ASSUME NEW c \in Calls, Tell(c)
        PROVE  ServiceTypeOK'
    BY <2>5 DEF Tell
  <2>7. ASSUME NEW c \in Calls, Misread(c)
        PROVE  ServiceTypeOK'
    BY <2>7 DEF Misread
  <2>6. CASE Fail \/ UNCHANGED serviceVars
    BY <2>6 DEF Fail, serviceVars
  <2> QED
    BY <2>1, <2>2, <2>3, <2>4, <2>5, <2>6, <2>7 DEF ServiceNext
<1> QED
  BY <1>1, <1>2, PTL DEF ServiceSpec

(* A call that was told an outcome of a task was told it for good: no      *)
(* later settlement, restart or submission gives the task another one.     *)
THEOREM OutcomesToldForGood == ServiceSpec => []ToldForGood
<1>1. ServiceInit => ToldForGood
  BY DEF ServiceInit, ToldForGood
<1>2. ServiceTypeOK /\ ToldForGood /\ [ServiceNext]_serviceVars => ToldForGood'
  <2> SUFFICES ASSUME ServiceTypeOK, ToldForGood, [ServiceNext]_serviceVars,
                      NEW c \in Calls, told'[c] # None,
                      told'[c].status \in Outcomes
               PROVE  status'[told'[c].task] \in {told'[c].status, "gone"}
    BY DEF ToldForGood
  <2> USE DEF ServiceTypeOK, ToldForGood, Statuses, Outcomes
  <2>1. ASSUME NEW t \in TaskIds, Accept(t)
        PROVE  status'[told'[c].task] \in {told'[c].status, "gone"}
    BY <2>1 DEF Accept
  <2>2. ASSUME NEW t \in TaskIds, Settle(t)
        PROVE  status'[told'[c].task] \in {told'[c].status, "gone"}
    BY <2>2 DEF Settle
  <2>3. CASE FailOpen
    BY <2>3 DEF FailOpen
  <2>4. ASSUME NEW S \in SUBSET TaskIds, Forget(S)
        PROVE  status'[told'[c].task] \in {told'[c].status, "gone"}
    BY <2>4 DEF Forget
  <2>5. ASSUME NEW d \in Calls, Tell(d)
        PROVE  status'[told'[c].task] \in {told'[c].status, "gone"}
    BY <2>5 DEF Tell
  <2>7. ASSUME NEW d \in Calls, Misread(d)
        PROVE  status'[told'[c].task] \in {told'[c].status, "gone"}
    BY <2>7 DEF Misread
  <2>6. CASE Fail \/ UNCHANGED serviceVars
    BY <2>6 DEF Fail, serviceVars
  <2> QED
    BY <2>1, <2>2, <2>3, <2>4, <2>5, <2>6, <2>7 DEF ServiceNext
<1> QED
  BY <1>1, <1>2, ServiceTypes, PTL DEF ServiceSpec
=============================================================================
