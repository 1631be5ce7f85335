------------------------------ MODULE Ownership ------------------------------
(***************************************************************************)
(* What an authenticated request may reach: the workers and the terminal   *)
(* sessions of its account (console/internal/grpcserver:                   *)
(* task_owner_scope.go, task_worker_sys_routing.go, listing and deletion   *)
(* in terminal_session_routes.go; console/internal/httpapi: the worker,    *)
(* session, task and command handlers and the MCP tools).  Composed with   *)
(* Accounts, which says as whom a request is let in.                       *)
(*                                                                         *)
(* An identifier is the sequence of its colon-separated fields: an account *)
(* id is one field (acc_ and hexadecimal digits, or the derived JIT id),   *)
(* a session id chosen by a client may have several.  Dispatch to a worker *)
(* is one step here; TerminalDispatch, WorkerConnection and Tasks have     *)
(* its detail.  Connections are not state here: a worker that was          *)
(* provisioned may be connected or not at any time, and the connection of  *)
(* a deleted one is closed only after its rows are gone.                   *)
(***************************************************************************)
EXTENDS Accounts, Sequences

CONSTANTS WorkerIds,    \* node ids, drawn at random
          ExternalIds,  \* session ids a client may choose
          GeneratedIds  \* ids newTerminalSessionID draws

VARIABLES workers,  \* workers provisioned so far, [WorkerIds -> labels or None]
          retired,  \* those whose rows were deleted: a UUID is not drawn again
          boxes     \* confirmed routes of sessions, with who asked for them

ownVars == <<workers, retired, boxes>>
allVars == <<vars, ownVars>>

Obx == "obx"  \* taskOwnerScopePrefix
CU == "CU"    \* the default computerUseSessionIDPrefix is "CU:"

Labelled == [owner : Ids, type : {"normal", "sys"}]
AllIds == ExternalIds \cup GeneratedIds

ASSUME OwnershipAssumption ==
    /\ AllIds \subseteq Seq(UNION {{e[i] : i \in 1..Len(e)} : e \in AllIds})
    /\ <<>> \notin AllIds /\ ExternalIds \cap GeneratedIds = {}
    /\ \A e \in GeneratedIds : Len(e) = 1
    /\ None \notin Labelled \cup AllIds \cup Ids \cup WorkerIds

------------------------------------------------------------------------------
(* Identifiers (task_owner_scope.go).                                      *)

(* Mutant: the scope leaves out the account.                               *)
ScopeByPrefix(o, e) == <<Obx>> \o e
ScopeTerminalSessionID(o, e) == <<Obx, o>> \o e

(* Mutant: the fields are split from the right.                            *)
ParseFromRight(id) ==
    IF Len(id) >= 3 /\ id[1] = Obx
    THEN {[account |-> id[Len(id) - 1], session |-> <<id[Len(id)]>>]} ELSE {}
(* SplitN(id, ":", 3): the account, and all the rest.                      *)
ParseScopedTerminalSessionID(id) ==
    IF Len(id) >= 3 /\ id[1] = Obx
    THEN {[account |-> id[2], session |-> SubSeq(id, 3, Len(id))]} ELSE {}

UnscopeTerminalSessionID(o, id) ==
    IF Len(id) >= 3 /\ SubSeq(id, 1, 2) = <<Obx, o>>
    THEN SubSeq(id, 3, Len(id)) ELSE None

IsComputerUseSessionID(e) == Len(e) >= 2 /\ e[1] = CU

(* Only the capabilities that name a session have it restored.             *)
Terminal == {"terminalExec", "terminalResource"}
RestoreTaskResultOwnerScope(o, cap, id) ==
    IF cap \in Terminal THEN UnscopeTerminalSessionID(o, id) ELSE id

------------------------------------------------------------------------------
(* The registry's view of workers (registry/store_query.go).               *)

Listed == Present(workers) \ retired
GetByNodeID(w) == {w} \cap Listed
ListFilteredViews(o, type) ==
    {w \in Listed : workers[w].owner = o /\ workers[w].type = type}

(* Mutant: any account's worker-sys will do.                               *)
AnySysTarget(o, w) == \E v \in GetByNodeID(w) : workers[v].type = "sys"
ValidateWorkerSysTarget(o, w) ==
    \E v \in GetByNodeID(w) : workers[v] = [owner |-> o, type |-> "sys"]

(* A non-administrator manages the workers ListScoped shows.               *)
MayDelete(o, admin, w) == admin \/ w \in ListFilteredViews(o, "sys")

(* parseScoped... over the route table; an administrator lists them all.   *)
ListTerminalSessions(o) ==
    {v \in UNION {ParseScopedTerminalSessionID(b.id) : b \in boxes} :
        o # None => v.account = o}

------------------------------------------------------------------------------
(* What a front end submits: capability, session id or none, whether a     *)
(* missing session is to be created, worker or none, and whether the       *)
(* console can decode the payload.                                         *)

Input(cap, e, create, w) ==
    [cap |-> cap, ext |-> e, create |-> create, worker |-> w, decodes |-> TRUE]

TerminalCommand ==
    {Input("terminalExec", e, c, None) : e \in ExternalIds \cup {None}, c \in BOOLEAN}
ComputerUseCommand ==
    {Input("computerUse", None, FALSE, w) : w \in WorkerIds \cup {None}}
(* readImage and exportFile choose the capability by the reserved prefix.  *)
ResourceCapability(e) ==
    IF IsComputerUseSessionID(e) THEN "readImage" ELSE "terminalResource"
HandleMCPReadImageTool ==
    {Input(ResourceCapability(e), e, FALSE, None) : e \in ExternalIds}
(* POST /tasks takes any capability that is not internal.                  *)
SubmitTaskHandler ==
    TerminalCommand \cup ComputerUseCommand
        \cup {Input("readImage", e, FALSE, None) : e \in ExternalIds}
        \cup {Input("terminalResource", e, FALSE, None) : e \in ExternalIds}

(* POST /tasks takes any JSON: ext is the session the worker may read in a *)
(* payload that is not of the form the console expects.                    *)
UndecodedInput(cap, e) == [Input(cap, e, FALSE, None) EXCEPT !.decodes = FALSE]
Undecoded ==
    {UndecodedInput(cap, e) : cap \in Terminal \cup {"readImage"}, e \in ExternalIds}

Inputs == SubmitTaskHandler \cup HandleMCPReadImageTool \cup Undecoded

(* prepareTaskInput: the capability to dispatch and the worker it is for,  *)
(* an answer that needs no worker, or a refusal.                           *)
Prepared(cap, w) == [verdict |-> "dispatch", cap |-> cap, worker |-> w]
NoDispatch(v) == [verdict |-> v, cap |-> None, worker |-> None]
TargetOf(o, cap, w) ==
    IF ValidateWorkerSysTarget(o, w) THEN Prepared(cap, w) ELSE NoDispatch("invalid")
PrepareTaskInput(o, in) ==
    CASE in.cap = "computerUse" /\ in.worker = None -> NoDispatch("list")
      [] in.cap = "computerUse" /\ in.worker # None ->
           TargetOf(o, "computerUse", in.worker)
      [] in.cap = "readImage" /\ ~IsComputerUseSessionID(in.ext) ->
           Prepared("terminalResource", None)
      [] in.cap = "readImage" /\ IsComputerUseSessionID(in.ext) ->
           TargetOf(o, "readImage", in.ext[2])
      [] in.cap = "terminalExec" /\ in.create /\ in.ext # None ->
           IF IsComputerUseSessionID(in.ext) THEN NoDispatch("invalid")
           ELSE Prepared(in.cap, None)
      [] OTHER -> Prepared(in.cap, None)

(* scopeTaskInputByOwner: an execution without a session gets a new one,   *)
(* and what does not decode is forwarded as it is.                         *)
SessionFor(in) ==
    IF in.cap = "terminalExec" /\ in.ext = None
    THEN GeneratedIds \ {b.ext : b \in boxes} ELSE {in.ext}
Scoped(in, cap) == cap \in Terminal /\ in.decodes
ScopeTaskInputByOwner(o, in, cap, e) ==
    IF Scoped(in, cap) THEN ScopeTerminalSessionID(o, e) ELSE e

(* dispatchCommand knows the session of a payload it can decode only.      *)
TaskPlace(in, cap) ==
    CASE cap \in Terminal /\ ~in.decodes -> "forward"
      [] in.decodes /\ (in.create \/ (in.cap = "terminalExec" /\ in.ext = None)) ->
           "create"
      [] OTHER -> "dispatch"

------------------------------------------------------------------------------
(* Task submission by the owner of a token.                                *)

(* SubmitTask up to the dispatch; the second submission of readImage is    *)
(* the first one's, with another action.                                   *)
SubmitTask(q) ==
    /\ At(q, "owner") /\ UNCHANGED <<rows, sessions, ended, ownVars>>
    /\ \E in \in IF req[q].arg = None THEN Inputs
                 ELSE {Input(ResourceCapability(req[q].arg), req[q].arg, FALSE, None)} :
         LET o == req[q].who
             prepared == PrepareTaskInput(o, in)
         IN  \/ /\ prepared.verdict # "dispatch" /\ Answer(q, prepared.verdict)
             \/ /\ prepared.verdict = "dispatch"
                /\ \E e \in SessionFor(in) :
                     Become(q, [req[q] EXCEPT
                       !.pc = TaskPlace(in, prepared.cap),
                       !.method = prepared.cap, !.value = prepared.worker,
                       !.arg = e,
                       !.draw = ScopeTaskInputByOwner(o, in, prepared.cap, e)])

(* Rows are read when the candidates are listed, the connection is used    *)
(* later: a worker deleted in between may still take the command.          *)
NormalWorkers == {w \in Present(workers) : workers[w].type = "normal"}
Bound(id) == {b \in boxes : b.id = id}
Finish(q, a) == Answer(q, a) /\ UNCHANGED ownVars
(* callResourceCapability returns to the tool: validate comes before read. *)
Succeed(q) ==
    \/ Finish(q, "done")
    \/ /\ req[q].method \in {"terminalResource", "readImage"} /\ req[q].tries = 0
       /\ Become(q, [Idle EXCEPT !.pc = "owner", !.who = req[q].who, !.tries = 1,
                                 !.arg = req[q].arg])
       /\ UNCHANGED ownVars

(* dispatchCommand to the target, to the session's worker, or to a worker  *)
(* that creates the session; the worker may be offline.                    *)
Dispatch(q) ==
    /\ \E pc \in {"dispatch", "create"} : At(q, pc)
    /\ UNCHANGED <<rows, sessions, ended>>
    /\ \/ Finish(q, "offline")
       \/ req[q].value # None /\ req[q].value \in Present(workers) /\ Succeed(q)
       \/ req[q].value = None /\ Bound(req[q].draw) # {} /\ Succeed(q)
       \/ /\ req[q].value = None /\ Bound(req[q].draw) = {}
          /\ req[q].pc = "dispatch" /\ Finish(q, "noSession")
       \/ /\ req[q].value = None /\ Bound(req[q].draw) = {} /\ req[q].pc = "create"
          /\ \E w \in NormalWorkers :
               boxes' = boxes \cup {[id |-> req[q].draw, by |-> req[q].who,
                                     ext |-> req[q].arg, at |-> w]}
          /\ Answer(q, "done") /\ UNCHANGED <<workers, retired>>

(* A payload that was not scoped goes to any worker, without a route.  The *)
(* worker refuses it, or reads a session in it (its decoder is its own)    *)
(* and answers with that id; an answer outside the account's scope fails   *)
(* the task.                                                               *)
Forward(q) ==
    /\ At(q, "forward") /\ UNCHANGED <<rows, sessions, ended>>
    /\ \/ Finish(q, "failed")
       \/ /\ RestoreTaskResultOwnerScope(req[q].who, req[q].method, req[q].draw) # None
          /\ NormalWorkers # {} /\ Finish(q, "done")

(* A session ends: its lease runs out.                                     *)
SessionExpires ==
    /\ \E b \in boxes : boxes' = boxes \ {b}
    /\ UNCHANGED <<vars, workers, retired>>

------------------------------------------------------------------------------
(* The dashboard's sessions and workers.                                   *)

(* resolveConsoleSessionOwner with an account_id: the administrator's word *)
(* is taken, another account's id is not found.                            *)
ResolveConsoleSessionOwner(q, o) == req[q].admin \/ req[q].who = o

GetTerminalSession(o, e) == Bound(ScopeTerminalSessionID(o, e))

(* GetSession, RenewSessionLease: the session as found, or not found.      *)
LookupSession(q) ==
    /\ At(q, "open") /\ UNCHANGED <<rows, sessions, ended>>
    /\ \E o \in Ids, e \in AllIds :
         Finish(q, IF ResolveConsoleSessionOwner(q, o) /\ GetTerminalSession(o, e) # {}
                   THEN "found" ELSE "notFound")

DeleteTerminalSession(q) ==
    /\ At(q, "open") /\ UNCHANGED <<rows, sessions, ended, workers, retired>>
    /\ \E o \in Ids, e \in AllIds :
         /\ ResolveConsoleSessionOwner(q, o) /\ GetTerminalSession(o, e) # {}
         /\ boxes' = boxes \ GetTerminalSession(o, e)
         /\ Become(q, [Idle EXCEPT !.answer = "deleted"])

(* CreateWorker: normal workers are the administrator's to create.         *)
CreateWorker(q) ==
    /\ At(q, "open") /\ UNCHANGED <<rows, sessions, ended, retired, boxes>>
    /\ \E type \in {"normal", "sys"} :
         \/ /\ ~req[q].admin /\ type = "normal"
            /\ Answer(q, "forbidden") /\ UNCHANGED workers
         \/ /\ req[q].admin \/ type = "sys"
            /\ \E w \in WorkerIds :
                 /\ workers[w] = None
                 /\ workers' = [workers EXCEPT ![w] =
                                  [owner |-> req[q].who, type |-> type]]
            /\ Answer(q, "created")

(* DeleteWorker: the check of the labels, then the removal.                *)
DeleteWorker(q) ==
    /\ At(q, "open") /\ UNCHANGED <<rows, sessions, ended, ownVars>>
    /\ \E w \in WorkerIds :
         IF MayDelete(req[q].who, req[q].admin, w)
         THEN Become(q, [req[q] EXCEPT !.pc = "unprovision", !.arg = w])
         ELSE Answer(q, "notFound")
(* DeleteProvisionedWorker: the routes under terminalRoutesMu, where the   *)
(* store may fail, then credentials and row; the connection is closed last.*)
DeleteRoutesByNode(q) ==
    /\ At(q, "unprovision") /\ UNCHANGED <<rows, sessions, ended, workers, retired>>
    /\ \/ boxes' = {b \in boxes : b.at # req[q].arg} /\ Goto(q, "unlist")
       \/ boxes' = boxes /\ Answer(q, "error")
DeleteProvisionedWorker(q) ==
    /\ At(q, "unlist") /\ UNCHANGED <<rows, sessions, ended, workers, boxes>>
    /\ retired' = retired \cup GetByNodeID(req[q].arg)
    /\ Answer(q, IF GetByNodeID(req[q].arg) = {} THEN "notFound" ELSE "deleted")

------------------------------------------------------------------------------
(* What a history of the console leaves: no worker, or the administrator's *)
(* normal worker, with or without a worker-sys and a session of another    *)
(* account.                                                                *)
OneField == {e \in ExternalIds : Len(e) = 1}
UsedWorkers(a, w, v, sys) ==
    workers = [Empty(WorkerIds) EXCEPT
                 ![w] = [owner |-> a, type |-> "normal"], ![v] = sys]
UsedBoxes(u, w, E) ==
    boxes = {[id |-> ScopeTerminalSessionID(u, e), by |-> u,
              ext |-> e, at |-> w] : e \in E}
OwnershipInit ==
    /\ Init /\ retired = {}
    /\ IF ~started THEN workers = Empty(WorkerIds) /\ boxes = {}
       ELSE \E a, u \in Present(accounts), w, v \in WorkerIds :
              /\ accounts[a].admin /\ ~accounts[u].admin /\ w # v
              /\ \E sys \in {None, [owner |-> u, type |-> "sys"]} :
                   UsedWorkers(a, w, v, sys)
              /\ \E E \in SUBSET OneField : UsedBoxes(u, w, E)

OwnershipNext ==
    \/ Next /\ UNCHANGED ownVars
    \/ SessionExpires
    \/ \E q \in Requests :
         \/ SubmitTask(q) \/ Dispatch(q) \/ Forward(q)
         \/ LookupSession(q) \/ DeleteTerminalSession(q)
         \/ CreateWorker(q) \/ DeleteWorker(q)
         \/ DeleteRoutesByNode(q) \/ DeleteProvisionedWorker(q)

OwnershipSpec == OwnershipInit /\ [][OwnershipNext]_allVars

------------------------------------------------------------------------------
(* Workers and terminal sessions are well formed: a session's worker was   *)
(* provisioned, and one session has one record.                            *)
OwnershipTypeOK ==
    /\ TypeOK
    /\ workers \in [WorkerIds -> Labelled \cup {None}]
    /\ retired \subseteq Present(workers)
    /\ \A b \in boxes : b.ext \in AllIds /\ b.by \in Ids /\ b.at \in Present(workers)
    /\ \A b, c \in boxes : b.id = c.id => b = c

(* A task whose payload the console scoped reaches no session but one its  *)
(* account asked for, and the worker's answer names it by the id the       *)
(* client used, whatever ids clients choose: ids with colons, or that look *)
(* like another account's scoped id (scopeTerminalSessionID).  Of a task   *)
(* it forwarded unscoped the console only says that an answer it hands on  *)
(* names no session of another account (restoreTaskResultOwnerScope).      *)
SessionsPrivate ==
    \A q \in Requests :
        LET r == req[q]
            named == RestoreTaskResultOwnerScope(r.who, r.method, r.draw)
            own == \A b \in Bound(r.draw) : b.by = r.who
        IN  /\ r.pc \in {"dispatch", "create"} /\ r.value = None => own /\ named = r.arg
            /\ r.pc = "forward" /\ named # None => own

(* An account's listing shows exactly the sessions it asked for, under the *)
(* ids it chose, none of them under the prefix reserved for worker-sys     *)
(* targets (ListTerminalSessions, prepareTaskInput).                       *)
ListingExact ==
    \A o \in Ids :
        /\ {v.session : v \in ListTerminalSessions(o)}
             = {b.ext : b \in {c \in boxes : c.by = o}}
        /\ \A v \in ListTerminalSessions(o) : ~IsComputerUseSessionID(v.session)

(* A worker-sys runs commands for its own account only, the one deleted    *)
(* since the check included, and a worker is deleted by the administrator  *)
(* or, a worker-sys, by its account, although check and use are separate   *)
(* steps (validateWorkerSysTarget and dispatch, GetByNodeID and            *)
(* DeleteProvisionedWorker).                                               *)
OwnWorkersOnly ==
    [][\A q \in Requests, w \in WorkerIds :
         LET own == workers[w] = [owner |-> req[q].who, type |-> "sys"]
             ran == /\ req[q].pc = "dispatch" /\ req[q].value = w
                    /\ req'[q].answer = "done" \/ req'[q].pc = "owner"
             removed == /\ req[q].pc = "unlist" /\ req[q].arg = w
                        /\ w \in retired' \ retired
         IN  (ran => own) /\ (removed => req[q].admin \/ own)]_allVars
==============================================================================
