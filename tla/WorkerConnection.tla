-------------------------- MODULE WorkerConnection --------------------------
(***************************************************************************)
(* One worker and its connections to the console: the Connect handler of   *)
(* grpcserver/service_connect.go, the session object and its slots, queues *)
(* and pending commands (session_runtime.go), the worker's registry row    *)
(* and credential, and the client loop of the Docker and Sys workers       *)
(* (worker-*/internal/runner/session_client.go), joined by a stream that   *)
(* may break.  What a connection does to terminal routes is the subject of *)
(* TerminalDispatch and is left out here.                                  *)
(*                                                                         *)
(* Ages count clock ticks since an instant and stop at OfflineTTL + 1, the *)
(* first age that is too old.                                              *)
(***************************************************************************)
EXTENDS Integers, Sequences, FiniteSets

CONSTANTS
    Conns,        \* streams; the name stands for the session id, and is used again once forgotten
    Commands,     \* calls of dispatchCommandAttempt
    None,
    Setups,       \* pairs of a worker connection conflict policy and a kind of worker
    MaxInflight,  \* commands a worker takes at a time
    OfflineTTL,   \* ticks without a heartbeat before a session may be superseded
    ControlCap,   \* capacity of controlOutbound
    CommandCap,   \* capacity of commandOutbound
    MaxFaults,    \* bound on breaks, late answers, failed statements, crashes and removals
    MaxEvents,    \* bound on faults and calls together
    Faults        \* the faults of a run, a subset of {"break", "late", "store", "crash", "removal"}

ASSUME ConnectionAssumption ==
    /\ Setups \subseteq {"reject", "replace"} \X {"docker", "sys"}
    /\ Faults \subseteq {"break", "late", "store", "crash", "removal"}
    /\ MaxInflight \in Nat \ {0}
    /\ OfflineTTL \in Nat
    /\ ControlCap \in Nat \ {0}
    /\ CommandCap \in Nat \ {0}
    /\ MaxFaults \in Nat /\ MaxEvents \in Nat

VARIABLES
    policy,   \* the policy the console was started with
    kind,     \* the kind of the worker
    conn,     \* per stream: the handler, its session object and its writer
    current,  \* the session filed under the worker's id in RegistryService.sessions
    row,      \* the worker's row in worker_nodes, or None
    cred,     \* whether the credential is in memory and in worker_credentials
    admin,    \* how far the provisioning or the removal of the worker is
    cmd,      \* per command: its caller, its pending entry and its result channel
    worker,   \* the client loop of the worker
    up,       \* frames on each stream to the console
    cut,      \* the streams that ended or broke
    faults    \* faults so far

console == <<conn, current, row, cred, admin, cmd>>
wires   == <<up, cut>>
setup   == <<policy, kind>>
vars    == <<setup, console, worker, wires, faults>>

\* The session a row names although it is over and forgotten.
Past == "past"

Ages      == 0 .. OfflineTTL + 1
Older(a)  == IF a > OfflineTTL THEN a ELSE a + 1
Expired(a) == a > OfflineTTL

Events == faults + Cardinality({d \in Commands : cmd[d].pc # "idle"})

Fault(f) == /\ f \in Faults
            /\ faults < MaxFaults /\ Events < MaxEvents
            /\ faults' = faults + 1

-----------------------------------------------------------------------------
(* The registry: worker_nodes and worker_credentials.                      *)

\* A row whose session is None is offline whatever its age.
Row(session, provisioned, age) ==
    [session |-> session, provisioned |-> provisioned, age |-> age]

InsertProvisionedWorkerNodeIfAbsent(r) ==
    IF r = None THEN Row(None, TRUE, OfflineTTL + 1) ELSE r

UpsertWorkerNode(c, provisioned, age) == Row(c, provisioned, age)

UpdateWorkerHeartbeatBySession(r, c) ==
    IF r # None /\ r.session = c THEN [r EXCEPT !.age = 0] ELSE r

ClearWorkerSessionByNodeAndSession(r, c) ==
    IF r # None /\ r.session = c THEN [r EXCEPT !.session = None] ELSE r

ClearWorkerSessionByNode(r) ==
    IF r # None THEN [r EXCEPT !.session = None] ELSE r

ClearAllWorkerSessions(r) ==
    IF r # None /\ r.session # None THEN [r EXCEPT !.session = None] ELSE r

DeleteOfflineRuntimeWorkers(r) ==
    IF r # None /\ ~r.provisioned /\ Expired(r.age) THEN None ELSE r

-----------------------------------------------------------------------------
(* The session object of a stream.                                         *)

NoSession ==
    [pc |-> "free", done |-> FALSE, ready |-> FALSE, control |-> <<>>, commands |-> <<>>,
     writer |-> "off", inflight |-> 0, draining |-> FALSE, age |-> 0, old |-> None, provisioned |-> FALSE]

\* A Sys worker declares no terminalExec and is ready at once.
NewActiveSessionAt ==
    [NoSession EXCEPT !.pc = "hello", !.ready = kind # "docker"]

\* The holders of a slot of session c: acquired but not yet registered, or
\* with an entry in its pending map.
Pending(c) == {d \in Commands : cmd[d].conn = c /\ cmd[d].entry = "pending"}
Holders(c) == Pending(c) \cup {d \in Commands : cmd[d].conn = c /\ cmd[d].pc = "acquired"}

TryAcquireCapability(s) == s.inflight < MaxInflight

ReleaseCapability(s) ==
    IF s.inflight > 0 THEN [s EXCEPT !.inflight = @ - 1] ELSE s

\* resolvePending and unregisterPending act on an entry that is still there:
\* they delete it, release its slot and close its channel.
Takes(d, result) ==
    /\ cmd[d].entry = "pending"
    /\ cmd' = [cmd EXCEPT ![d].entry = "gone", ![d].ch = result]
    /\ conn' = [conn EXCEPT ![cmd[d].conn] = ReleaseCapability(@)]

\* close ends the session and its writer; the entries it finds in the
\* pending map are then taken, released and answered with the error.
Closed(c) ==
    IF conn[c].done THEN conn[c]
    ELSE [conn[c] EXCEPT !.done = TRUE, !.control = <<>>, !.commands = <<>>, !.writer = "stopped",
                         !.draining = Pending(c) # {}]

DrainPending(c) ==
    /\ conn[c].draining
    /\ cmd' = [d \in Commands |->
                 IF d \in Pending(c) THEN [cmd[d] EXCEPT !.entry = "gone", !.ch = "error"] ELSE cmd[d]]
    /\ conn' = [conn EXCEPT ![c].inflight = @ - Cardinality(Pending(c)), ![c].draining = FALSE]
    /\ UNCHANGED <<setup, current, row, cred, admin, worker, wires, faults>>

\* The state of a worker that is not connected.
Down == [pc |-> "down", conn |-> None, running |-> {}, beat |-> "timer", acks |-> 0, missed |-> 0]

Init ==
    /\ \E s \in Setups : policy = s[1] /\ kind = s[2]
    /\ conn = [c \in Conns |-> NoSession]
    /\ current = None
    /\ row = None
    /\ cred = [mem |-> FALSE, db |-> FALSE]
    /\ admin = [pc |-> "none", session |-> None]
    /\ cmd = [d \in Commands |-> [pc |-> "idle", conn |-> None, entry |-> "none", ch |-> "empty"]]
    /\ worker = Down
    /\ up = [c \in Conns |-> <<>>]
    /\ cut = {}
    /\ faults = 0

-----------------------------------------------------------------------------
(* Provisioning and removal of the worker.                                 *)

\* CreateProvisionedWorkerForOwner seeds the row, then files the credential
\* in memory and in SQLite; its caller learns the secret at the end.
SeedWorker ==
    /\ admin.pc = "none"
    /\ row' = InsertProvisionedWorkerNodeIfAbsent(row)
    /\ admin' = [admin EXCEPT !.pc = "seeded"]
    /\ UNCHANGED <<setup, conn, current, cred, cmd, worker, wires, faults>>

PutCredentialIfAbsent ==
    /\ admin.pc = "seeded"
    /\ ~cred.mem
    /\ cred' = [cred EXCEPT !.mem = TRUE]
    /\ admin' = [admin EXCEPT !.pc = "cached"]
    /\ UNCHANGED <<setup, conn, current, row, cmd, worker, wires, faults>>

PutCredentialHashIfAbsent ==
    /\ admin.pc = "cached"
    /\ \/ /\ cred' = [cred EXCEPT !.db = TRUE]
          /\ admin' = [admin EXCEPT !.pc = "ready"]
          /\ UNCHANGED <<row, faults>>
       \/ /\ Fault("store")
          /\ cred' = [cred EXCEPT !.mem = FALSE]
          /\ row' = None
          /\ admin' = [admin EXCEPT !.pc = "lost"]
    /\ UNCHANGED <<setup, conn, current, cmd, worker, wires>>

\* DeleteProvisionedWorker, one statement at a time.
DeleteCredential ==
    /\ admin.pc = "ready"
    /\ Fault("removal")
    /\ cred' = [cred EXCEPT !.mem = FALSE]
    /\ admin' = [admin EXCEPT !.pc = "deletingHash"]
    /\ UNCHANGED <<setup, conn, current, row, cmd, worker, wires>>

DeleteWorkerCredentialByNode ==
    /\ admin.pc = "deletingHash"
    /\ cred' = [cred EXCEPT !.db = FALSE]
    /\ admin' = [admin EXCEPT !.pc = "deletingNode"]
    /\ UNCHANGED <<setup, conn, current, row, cmd, worker, wires, faults>>

DeleteWorkerNodeByID ==
    /\ admin.pc = "deletingNode"
    /\ row' = None
    /\ admin' = [admin EXCEPT !.pc = "disconnecting"]
    /\ UNCHANGED <<setup, conn, current, cred, cmd, worker, wires, faults>>

\* disconnectWorker forgets the session, clears the row, and closes the
\* session that it found.
DisconnectWorker ==
    /\ admin.pc = "disconnecting"
    /\ current' = None
    /\ admin' = [pc |-> "clearing", session |-> current]
    /\ UNCHANGED <<setup, conn, row, cred, cmd, worker, wires, faults>>

ClearSessionByNode ==
    /\ admin.pc = "clearing"
    /\ row' = ClearWorkerSessionByNode(row)
    /\ admin' = [admin EXCEPT !.pc = "closing"]
    /\ UNCHANGED <<setup, conn, current, cred, cmd, worker, wires, faults>>

CloseRevoked ==
    /\ admin.pc = "closing"
    /\ conn' = [c \in Conns |-> IF c = admin.session THEN Closed(c) ELSE conn[c]]
    /\ admin' = [pc |-> "removed", session |-> None]
    /\ UNCHANGED <<setup, current, row, cred, cmd, worker, wires, faults>>

\* startOfflinePruner
PruneOffline ==
    /\ row' = DeleteOfflineRuntimeWorkers(row)
    /\ row' # row
    /\ UNCHANGED <<setup, conn, current, cred, admin, cmd, worker, wires, faults>>

-----------------------------------------------------------------------------
(* The Connect handler of stream c.                                        *)

\* The handler returns and the stream ends.
Return(c) == /\ conn' = [conn EXCEPT ![c] = [Closed(c) EXCEPT !.pc = "gone", !.age = 0]]
             /\ up' = [up EXCEPT ![c] = <<>>]
             /\ cut' = cut \cup {c}

GetCredential(c) ==
    /\ conn[c].pc = "opened"
    /\ \/ /\ cred.mem
          /\ conn' = [conn EXCEPT ![c] = NewActiveSessionAt]
          /\ UNCHANGED <<up, cut>>
       \/ /\ ~cred.mem /\ cred.db
          /\ conn' = [conn EXCEPT ![c].pc = "caching"]
          /\ UNCHANGED <<up, cut>>
       \/ /\ c \in cut \/ (~cred.mem /\ ~cred.db)
          /\ Return(c)
    /\ UNCHANGED <<setup, current, row, cred, admin, cmd, worker, faults>>

\* A hash read from SQLite is put into memory afterwards.
CacheCredential(c) ==
    /\ conn[c].pc = "caching"
    /\ cred' = [cred EXCEPT !.mem = TRUE]
    /\ conn' = [conn EXCEPT ![c] = NewActiveSessionAt]
    /\ UNCHANGED <<setup, current, row, admin, cmd, worker, wires, faults>>

\* Mutant: only a session that was closed gives way.
ClaimableOnceClosed == \A c \in Conns : c = current => conn[c].done

\* A claim succeeds unless a session is open and was heard from in time.
Claimable ==
    \A c \in Conns : c = current => conn[c].done \/ Expired(conn[c].age)

ClaimSessionIfAvailable(c) ==
    /\ conn[c].pc = "hello"
    /\ policy = "reject"
    /\ \/ /\ Claimable
          /\ current' = c
          /\ conn' = [x \in Conns |->
                        IF x = c THEN [conn[c] EXCEPT !.pc = "filed"]
                        ELSE IF x = current THEN Closed(x) ELSE conn[x]]
          /\ UNCHANGED <<up, cut>>
       \/ /\ ~Claimable
          /\ Return(c)
          /\ UNCHANGED current
    /\ UNCHANGED <<setup, row, cred, admin, cmd, worker, faults>>

\* Mutant: the session that was replaced is forgotten.
SwapForgetting(c) ==
    /\ conn[c].pc = "hello"
    /\ policy = "replace"
    /\ current' = c
    /\ conn' = [conn EXCEPT ![c].pc = "swapped"]
    /\ UNCHANGED <<setup, row, cred, admin, cmd, worker, wires, faults>>

SwapSession(c) ==
    /\ conn[c].pc = "hello"
    /\ policy = "replace"
    /\ current' = c
    /\ conn' = [conn EXCEPT ![c].pc = "swapped", ![c].old = current]
    /\ UNCHANGED <<setup, row, cred, admin, cmd, worker, wires, faults>>

CloseReplaced(c) ==
    /\ conn[c].pc = "swapped"
    /\ conn' = [x \in Conns |->
                  IF x = c THEN [conn[c] EXCEPT !.pc = "filed", !.old = None]
                  ELSE IF x = conn[c].old THEN Closed(x) ELSE conn[x]]
    /\ UNCHANGED <<setup, current, row, cred, admin, cmd, worker, wires, faults>>

\* Upsert reads the row, and then writes it in a transaction.
UpsertReads(c) ==
    /\ conn[c].pc = "filed"
    /\ conn' = [conn EXCEPT ![c].pc = "upserting",
                            ![c].provisioned = row # None /\ row.provisioned]
    /\ UNCHANGED <<setup, current, row, cred, admin, cmd, worker, wires, faults>>

\* Once the row is written the writer starts.  An error ends the handler.
UpsertWrites(c) ==
    /\ conn[c].pc = "upserting"
    /\ \/ /\ row' = UpsertWorkerNode(c, conn[c].provisioned, conn[c].age)
          /\ conn' = [conn EXCEPT ![c].pc = "registered", ![c].provisioned = FALSE,
                                  ![c].writer = IF conn[c].done THEN "stopped" ELSE "control"]
          /\ UNCHANGED faults
       \/ /\ Fault("store")
          /\ conn' = [conn EXCEPT ![c].pc = "leaving"]
          /\ UNCHANGED row
    /\ UNCHANGED <<setup, current, cred, admin, cmd, worker, wires>>

\* enqueueControl: the frame is queued while there is room and the session
\* is open; a queue that stays full, or a closed session, ends the handler.
EnqueueControl(s, frame, next) ==
    IF s.done \/ Len(s.control) = ControlCap
    THEN [s EXCEPT !.pc = "leaving"]
    ELSE [s EXCEPT !.control = Append(@, frame), !.pc = next]

SendConnectAck(c) ==
    /\ conn[c].pc = "registered"
    /\ conn' = [conn EXCEPT ![c] = EnqueueControl(@, "connectAck", "serving")]
    /\ UNCHANGED <<setup, current, row, cred, admin, cmd, worker, wires, faults>>

Receives(c) == /\ conn[c].pc = "serving"
               /\ up[c] # <<>>
               /\ up' = [up EXCEPT ![c] = Tail(@)]

\* TouchWithSession fails once the row is gone or names another session.
HandleHeartbeat(c) ==
    /\ Receives(c)
    /\ Head(up[c]) = "heartbeat"
    /\ row' = UpdateWorkerHeartbeatBySession(row, c)
    /\ conn' = IF row # None /\ row.session = c
               THEN [conn EXCEPT ![c] =
                       EnqueueControl([@ EXCEPT !.age = 0], "heartbeatAck", "serving")]
               ELSE [conn EXCEPT ![c].pc = "leaving"]
    /\ UNCHANGED <<setup, current, cred, admin, cmd, worker, cut, faults>>

\* A result that nobody waits for any more is dropped.
HandleCommandResult(c) ==
    /\ Receives(c)
    /\ Head(up[c]) \in Commands
    /\ \/ Takes(Head(up[c]), "result")
       \/ cmd[Head(up[c])].entry # "pending" /\ UNCHANGED <<cmd, conn>>
    /\ UNCHANGED <<setup, current, row, cred, admin, worker, cut, faults>>

\* The acknowledgement is queued before the session becomes ready.
HandleRecoveryReport(c) ==
    /\ Receives(c)
    /\ Head(up[c]) = "report"
    /\ conn' = [conn EXCEPT ![c] = EnqueueControl(@, "recoveryAck", "recovered")]
    /\ UNCHANGED <<setup, current, row, cred, admin, cmd, worker, cut, faults>>

MarkRecoveryComplete(c) ==
    /\ conn[c].pc = "recovered"
    /\ conn' = [conn EXCEPT ![c].pc = "serving", ![c].ready = TRUE]
    /\ UNCHANGED <<setup, current, row, cred, admin, cmd, worker, wires, faults>>

\* The loop ends when the session is closed or the stream or writer failed.
EndLoop(c) ==
    /\ conn[c].pc = "serving"
    /\ conn[c].done \/ c \in cut \/ conn[c].writer = "failed"
    /\ conn' = [conn EXCEPT ![c].pc = "leaving"]
    /\ UNCHANGED <<setup, current, row, cred, admin, cmd, worker, wires, faults>>

\* removeSession forgets the session only if it is still the worker's own.
RemoveSession(c) ==
    /\ conn[c].pc = "leaving"
    /\ IF current = c
       THEN /\ current' = None
            /\ conn' = [conn EXCEPT ![c].pc = "clearing"]
       ELSE /\ conn' = [conn EXCEPT ![c].pc = "closing"]
            /\ UNCHANGED current
    /\ UNCHANGED <<setup, row, cred, admin, cmd, worker, wires, faults>>

ClearSession(c) ==
    /\ conn[c].pc = "clearing"
    /\ conn' = [conn EXCEPT ![c].pc = "closing"]
    /\ \/ /\ row' = ClearWorkerSessionByNodeAndSession(row, c)
          /\ UNCHANGED faults
       \/ /\ Fault("store")
          /\ UNCHANGED row
    /\ UNCHANGED <<setup, current, cred, admin, cmd, worker, wires>>

CloseSession(c) ==
    /\ conn[c].pc = "closing"
    /\ Return(c)
    /\ UNCHANGED <<setup, current, row, cred, admin, cmd, worker, faults>>

\* A stream nothing but the row refers to any more is forgotten, and its
\* name is free: the row then names a session of the past.
Forget(c) ==
    /\ conn[c].pc = "gone"
    /\ current # c /\ worker.conn # c
    /\ admin.session # c /\ \A x \in Conns : conn[x].old # c
    /\ \A d \in Commands : cmd[d].conn = c => cmd[d].pc = "done"
    /\ conn' = [conn EXCEPT ![c] = NoSession]
    /\ cmd' = [d \in Commands |-> IF cmd[d].conn = c THEN [cmd[d] EXCEPT !.conn = None] ELSE cmd[d]]
    /\ row' = IF row # None /\ row.session = c THEN [row EXCEPT !.session = Past] ELSE row
    /\ cut' = cut \ {c}
    /\ UNCHANGED <<setup, current, cred, admin, worker, up, faults>>

-----------------------------------------------------------------------------
(* The frames a worker receives.  A frame is received when it is written:  *)
(* what is under way is still in the queues of the session.                *)

\* The session of the worker ends: commands that still run report to
\* nobody, and the stream is closed.
EndSession == /\ worker' = Down
              /\ cut' = cut \cup {worker.conn}

\* A frame other than the one the handshake waits for ends the session.
ReceiveConnectAck(frame) ==
    /\ worker.pc = "connecting"
    /\ \/ /\ frame = "connectAck"
          /\ worker' = [worker EXCEPT !.pc = IF kind = "docker" THEN "recovering" ELSE "serving"]
          /\ UNCHANGED <<up, cut>>
       \/ /\ frame # "connectAck"
          /\ EndSession
          /\ UNCHANGED up

ReceiveRecoveryAck(frame) ==
    /\ worker.pc = "reporting"
    /\ \/ /\ frame = "recoveryAck"
          /\ worker' = [worker EXCEPT !.pc = "serving"]
          /\ UNCHANGED <<up, cut>>
       \/ /\ frame # "recoveryAck"
          /\ EndSession
          /\ UNCHANGED up

\* receiverLoop
ReceiveHeartbeatAck(frame) ==
    /\ worker.pc = "serving"
    /\ frame = "heartbeatAck"
    /\ worker' = IF worker.beat = "ack" THEN [worker EXCEPT !.beat = "timer", !.missed = 0]
                 ELSE [worker EXCEPT !.acks = @ + 1]
    /\ UNCHANGED <<up, cut>>

\* A Sys worker has slots of its own and answers session_busy without one.
TryAcquireSlot == kind = "docker" \/ Cardinality(worker.running) < MaxInflight

HandleCommandDispatch(d) ==
    /\ worker.pc = "serving"
    /\ d \in Commands
    /\ \/ /\ TryAcquireSlot
          /\ worker' = [worker EXCEPT !.running = @ \cup {d}]
          /\ UNCHANGED up
       \/ /\ ~TryAcquireSlot
          /\ up' = [up EXCEPT ![worker.conn] = Append(@, d)]
          /\ UNCHANGED worker
    /\ UNCHANGED cut

Receive(frame) ==
    \/ ReceiveConnectAck(frame) \/ ReceiveRecoveryAck(frame)
    \/ ReceiveHeartbeatAck(frame) \/ HandleCommandDispatch(frame)

-----------------------------------------------------------------------------
(* The writer of stream c and the calls that send commands.                *)

\* Send on a broken stream is lost, or reports the failure.
SendFrame(c, s, frame, next) ==
    \/ /\ c \notin cut
       /\ Receive(frame)
       /\ conn' = [conn EXCEPT ![c] = [s EXCEPT !.writer = next]]
    \/ /\ c \in cut
       /\ \E w \in {next, "failed"} : conn' = [conn EXCEPT ![c] = [s EXCEPT !.writer = w]]
       /\ UNCHANGED <<worker, up, cut>>

SendControl(c, next) ==
    /\ conn[c].control # <<>>
    /\ SendFrame(c, [conn[c] EXCEPT !.control = Tail(@)], Head(conn[c].control), next)

\* The first select of writerLoop does not wait.
PollControl(c) ==
    /\ conn[c].writer = "control"
    /\ \/ SendControl(c, "any")
       \/ /\ conn[c].control = <<>>
          /\ conn' = [conn EXCEPT ![c].writer = "any"]
          /\ UNCHANGED <<worker, up, cut>>
    /\ UNCHANGED <<setup, current, row, cred, admin, cmd, faults>>

\* The second takes whichever of its channels is ready.
WriteNext(c) ==
    /\ conn[c].writer = "any"
    /\ \/ SendControl(c, "control")
       \/ /\ conn[c].commands # <<>>
          /\ SendFrame(c, [conn[c] EXCEPT !.commands = Tail(@)], Head(conn[c].commands), "control")
    /\ UNCHANGED <<setup, current, row, cred, admin, cmd, faults>>

\* pickSessionForNodeAndCapability: a slot of the worker's session, if that
\* is ready and has one; the session may be closed or superseded since.
PickSession(d) ==
    /\ cmd[d].pc = "idle" /\ Events < MaxEvents
    /\ current # None
    /\ conn[current].ready
    /\ IF TryAcquireCapability(conn[current])
       THEN /\ conn' = [conn EXCEPT ![current].inflight = @ + 1]
            /\ cmd' = [cmd EXCEPT ![d].pc = "acquired", ![d].conn = current]
       ELSE /\ cmd' = [cmd EXCEPT ![d].pc = "done"]
            /\ UNCHANGED conn
    /\ UNCHANGED <<setup, current, row, cred, admin, worker, wires, faults>>

\* Mutant: the entry is filed whether or not the session is closed.
RegisterAnyway(d) ==
    /\ cmd[d].pc = "acquired"
    /\ cmd' = [cmd EXCEPT ![d].pc = "registered", ![d].entry = "pending"]
    /\ UNCHANGED <<setup, conn, current, row, cred, admin, worker, wires, faults>>

\* A closed session refuses the entry, and the caller gives the slot back.
RegisterPending(d) ==
    /\ cmd[d].pc = "acquired"
    /\ LET c == cmd[d].conn IN
       IF conn[c].done
       THEN /\ conn' = [conn EXCEPT ![c] = ReleaseCapability(@)]
            /\ cmd' = [cmd EXCEPT ![d].pc = "done"]
       ELSE /\ cmd' = [cmd EXCEPT ![d].pc = "registered", ![d].entry = "pending"]
            /\ UNCHANGED conn
    /\ UNCHANGED <<setup, current, row, cred, admin, worker, wires, faults>>

\* A caller that is about to queue its command when the session closes may
\* find both cases of the select ready: the command then goes nowhere.
EnqueueCommand(d) ==
    /\ cmd[d].pc = "registered"
    /\ LET c == cmd[d].conn IN
       \/ /\ conn[c].done
          /\ cmd' = [cmd EXCEPT ![d].pc = "returning"]
          /\ UNCHANGED conn
       \/ /\ Len(conn[c].commands) < CommandCap
          /\ conn' = IF conn[c].done THEN conn ELSE [conn EXCEPT ![c].commands = Append(@, d)]
          /\ cmd' = [cmd EXCEPT ![d].pc = "waiting"]
    /\ UNCHANGED <<setup, current, row, cred, admin, worker, wires, faults>>

\* The caller's context ends while it queues the command or waits.
CommandExpires(d) ==
    /\ cmd[d].pc \in {"registered", "waiting"}
    /\ cmd' = [cmd EXCEPT ![d].pc = "returning"]
    /\ UNCHANGED <<setup, conn, current, row, cred, admin, worker, wires, faults>>

TakeResult(d) ==
    /\ cmd[d].pc = "waiting"
    /\ cmd[d].ch # "empty"
    /\ cmd' = [cmd EXCEPT ![d].pc = "returning"]
    /\ UNCHANGED <<setup, conn, current, row, cred, admin, worker, wires, faults>>

\* Mutant: the slot is released whether or not the entry is still there.
UnregisterAlways(d) ==
    /\ cmd[d].pc = "returning"
    /\ cmd' = [cmd EXCEPT ![d] = [@ EXCEPT !.pc = "done", !.entry = "gone", !.ch = "closed"]]
    /\ conn' = [conn EXCEPT ![cmd[d].conn] = ReleaseCapability(@)]
    /\ UNCHANGED <<setup, current, row, cred, admin, worker, wires, faults>>

\* The deferred unregisterPending.
UnregisterPending(d) ==
    /\ cmd[d].pc = "returning"
    /\ \/ /\ cmd[d].entry = "pending"
          /\ cmd' = [cmd EXCEPT ![d] = [@ EXCEPT !.pc = "done", !.entry = "gone", !.ch = "closed"]]
          /\ conn' = [conn EXCEPT ![cmd[d].conn] = ReleaseCapability(@)]
       \/ /\ cmd[d].entry # "pending"
          /\ cmd' = [cmd EXCEPT ![d].pc = "done"]
          /\ UNCHANGED conn
    /\ UNCHANGED <<setup, current, row, cred, admin, worker, wires, faults>>

-----------------------------------------------------------------------------
(* The worker: runSession, its receiver and its heartbeats, and Run, which *)
(* calls it again after each session.                                      *)

\* The operator starts the worker with the secret of the provisioned worker.
RunSession(c) ==
    /\ worker.pc = "down"
    /\ admin.pc \notin {"none", "seeded", "cached", "lost"}
    /\ conn[c].pc = "free"
    /\ worker' = [Down EXCEPT !.pc = "connecting", !.conn = c]
    /\ conn' = [conn EXCEPT ![c].pc = "opened"]
    /\ UNCHANGED <<setup, current, row, cred, admin, cmd, wires, faults>>

Post(frame) == up' = [up EXCEPT ![worker.conn] = IF worker.conn \in cut THEN @ ELSE Append(@, frame)]

SendRecoveryReport ==
    /\ worker.pc = "recovering"
    /\ Post("report")
    /\ worker' = [worker EXCEPT !.pc = "reporting"]
    /\ UNCHANGED <<setup, console, cut, faults>>

\* The console will not answer on this stream any more.
Silent == worker.conn \in cut \/ conn[worker.conn].done

\* CallTimeout runs out during the handshake or the recovery: the console
\* is silent, or answers too late.
HandshakeTimesOut ==
    /\ worker.pc \in {"connecting", "recovering", "reporting"}
    /\ (Silent /\ UNCHANGED faults) \/ (~Silent /\ Fault("late"))
    /\ EndSession
    /\ UNCHANGED <<setup, console, up>>

FinishCommand(d) ==
    /\ worker.pc = "serving"
    /\ d \in worker.running
    /\ Post(d)
    /\ worker' = [worker EXCEPT !.running = @ \ {d}]
    /\ UNCHANGED <<setup, console, cut, faults>>

\* The stream reports an error to the receiver or the sender.
StreamFails ==
    /\ worker.pc # "down"
    /\ worker.conn \in cut
    /\ EndSession
    /\ UNCHANGED <<setup, console, up, faults>>

\* heartbeatLoop: an acknowledgement that came late counts for the next
\* heartbeat.
SendHeartbeat ==
    /\ worker.pc = "serving"
    /\ worker.beat = "timer"
    /\ Post("heartbeat")
    /\ worker' = IF worker.acks > 0 THEN [worker EXCEPT !.acks = @ - 1, !.missed = 0]
                 ELSE [worker EXCEPT !.beat = "ack"]
    /\ UNCHANGED <<setup, console, cut, faults>>

HeartbeatAckTimesOut ==
    /\ worker.pc = "serving"
    /\ worker.beat = "ack"
    /\ (Silent /\ UNCHANGED faults) \/ (~Silent /\ Fault("late"))
    /\ IF worker.missed = 0
       THEN /\ worker' = [worker EXCEPT !.missed = 1, !.beat = "timer"]
            /\ UNCHANGED cut
       ELSE EndSession
    /\ UNCHANGED <<setup, console, up>>

-----------------------------------------------------------------------------
(* The stream, the clock and the console process.                          *)

BreakStream(c) ==
    /\ conn[c].pc \notin {"free", "gone"}
    /\ c \notin cut
    /\ Fault("break")
    /\ cut' = cut \cup {c}
    /\ UNCHANGED <<setup, console, worker, up>>

\* The age of a session matters until its row is written, and while it is open.
Ageing(s) == \/ s.pc \in {"hello", "swapped", "filed", "upserting"}
             \/ s.pc \in {"registered", "serving", "recovered"} /\ ~s.done

Tick ==
    /\ conn' = [c \in Conns |-> IF Ageing(conn[c]) THEN [conn[c] EXCEPT !.age = Older(@)] ELSE conn[c]]
    /\ row' = IF row = None THEN None ELSE [row EXCEPT !.age = Older(@)]
    /\ <<conn, row>>' # <<conn, row>>
    /\ UNCHANGED <<setup, current, cred, admin, cmd, worker, wires, faults>>

\* The console dies and starts again: Open clears the sessions of all rows,
\* and the credentials are loaded, or, if that fails, read when needed.  A
\* provisioning or removal that was under way is lost with the process.
RestartConsole ==
    /\ Fault("crash")
    /\ conn' = [c \in Conns |-> IF conn[c].pc = "free" THEN conn[c]
                                ELSE [NoSession EXCEPT !.pc = "gone", !.done = TRUE]]
    /\ cut' = cut \cup {c \in Conns : conn[c].pc # "free"}
    /\ current' = None
    /\ row' = ClearAllWorkerSessions(row)
    /\ \E loaded \in BOOLEAN : cred' = [cred EXCEPT !.mem = cred.db /\ loaded]
    /\ admin' = [pc |-> IF cred.db THEN "ready" ELSE "lost", session |-> None]
    /\ cmd' = [d \in Commands |-> IF cmd[d].pc = "idle" THEN cmd[d]
                                  ELSE [cmd[d] EXCEPT !.pc = "done", !.entry = "gone"]]
    /\ up' = [c \in Conns |-> <<>>]
    /\ UNCHANGED <<setup, worker>>

-----------------------------------------------------------------------------
Provision == SeedWorker \/ PutCredentialIfAbsent \/ PutCredentialHashIfAbsent

Remove == \/ DeleteWorkerCredentialByNode \/ DeleteWorkerNodeByID
          \/ DisconnectWorker \/ ClearSessionByNode \/ CloseRevoked

Handshake(c) ==
    \/ GetCredential(c) \/ CacheCredential(c)
    \/ ClaimSessionIfAvailable(c) \/ SwapSession(c) \/ CloseReplaced(c)
    \/ UpsertReads(c) \/ UpsertWrites(c) \/ SendConnectAck(c)

Serve(c) ==
    \/ HandleHeartbeat(c) \/ HandleCommandResult(c)
    \/ HandleRecoveryReport(c) \/ MarkRecoveryComplete(c)

Leave(c) == RemoveSession(c) \/ ClearSession(c) \/ CloseSession(c) \/ DrainPending(c)

Writer(c) == PollControl(c) \/ WriteNext(c)

Call(d) == \/ RegisterPending(d) \/ EnqueueCommand(d)
           \/ TakeResult(d) \/ UnregisterPending(d)

Next ==
    \/ Provision \/ DeleteCredential \/ Remove \/ PruneOffline
    \/ \E c \in Conns :
         \/ Handshake(c) \/ Serve(c) \/ EndLoop(c) \/ Leave(c)
         \/ Forget(c) \/ Writer(c)
         \/ RunSession(c) \/ BreakStream(c)
    \/ \E d \in Commands :
         PickSession(d) \/ Call(d) \/ CommandExpires(d) \/ FinishCommand(d)
    \/ SendRecoveryReport \/ HandshakeTimesOut \/ StreamFails
    \/ SendHeartbeat \/ HeartbeatAckTimesOut
    \/ Tick \/ RestartConsole

Spec == Init /\ [][Next]_vars

\* Goroutines that can step do, streams deliver what they hold, timers fire,
\* and the worker's loop connects again.  Nothing is assumed of callers, of
\* the operator, of faults, or of the console noticing a broken stream.
Fairness ==
    /\ WF_vars(Provision) /\ WF_vars(Remove) /\ WF_vars(PruneOffline) /\ WF_vars(Tick)
    /\ \A c \in Conns :
         /\ WF_vars(Handshake(c)) /\ WF_vars(Serve(c)) /\ WF_vars(Leave(c))
         /\ WF_vars(EndLoop(c) /\ (conn[c].done \/ conn[c].writer = "failed"))
         /\ WF_vars(Forget(c)) /\ WF_vars(Writer(c))
    /\ \A d \in Commands : WF_vars(Call(d))
    /\ WF_vars(\E c \in Conns : RunSession(c))
    /\ WF_vars(SendRecoveryReport) /\ WF_vars(HandshakeTimesOut /\ Silent)
    /\ WF_vars(SendHeartbeat) /\ WF_vars(HeartbeatAckTimesOut /\ Silent)

FairSpec == Spec /\ Fairness

-----------------------------------------------------------------------------
TypeOK ==
    /\ setup \in Setups
    /\ conn \in [Conns ->
         [pc : {"free", "opened", "caching", "hello", "swapped", "filed", "upserting", "registered",
                "serving", "recovered", "leaving", "clearing", "closing", "gone"},
          done : BOOLEAN, ready : BOOLEAN,
          control : Seq({"connectAck", "heartbeatAck", "recoveryAck"}),
          commands : Seq(Commands),
          writer : {"off", "control", "any", "stopped", "failed"},
          inflight : 0 .. MaxInflight, draining : BOOLEAN, age : Ages,
          old : Conns \cup {None}, provisioned : BOOLEAN]]
    /\ \A c \in Conns : Len(conn[c].control) <= ControlCap /\ Len(conn[c].commands) <= CommandCap
    /\ current \in Conns \cup {None}
    /\ row \in {None} \cup [session : Conns \cup {None, Past}, provisioned : BOOLEAN, age : Ages]
    /\ cred \in [mem : BOOLEAN, db : BOOLEAN]
    /\ admin \in [pc : {"none", "seeded", "cached", "ready", "lost", "deletingHash", "deletingNode",
                        "disconnecting", "clearing", "closing", "removed"},
                  session : Conns \cup {None}]
    /\ cmd \in [Commands ->
         [pc : {"idle", "acquired", "registered", "waiting", "returning", "done"},
          conn : Conns \cup {None}, entry : {"none", "pending", "gone"},
          ch : {"empty", "result", "error", "closed"}]]
    /\ worker \in [pc : {"down", "connecting", "recovering", "reporting", "serving"},
                   conn : Conns \cup {None}, running : SUBSET Commands,
                   beat : {"timer", "ack"}, acks : 0 .. 2, missed : 0 .. 1]
    /\ up \in [Conns -> Seq({"heartbeat", "report"} \cup Commands)]
    /\ cut \subseteq Conns
    /\ faults \in 0 .. MaxFaults

\* The slots in use of a session are exactly those of its holders: a result,
\* the caller's return and the closing of the session race for the entry of
\* a command and one of them gives its slot back (releaseCapability,
\* session_runtime.go:296).
SlotsExact ==
    \A c \in Conns : conn[c].inflight = Cardinality(Holders(c))

\* A caller that waits for a result has one once its session has been
\* closed, although it may register and queue its command while the session
\* closes (registerPending, close); and it never finds its channel closed
\* without one, so that the branch of dispatchCommandAttempt for that case
\* (service_dispatch.go:337) is not taken.
WaitersAnswered ==
    \A d \in Commands : cmd[d].pc = "waiting" =>
        /\ cmd[d].ch # "closed"
        /\ conn[cmd[d].conn].done /\ ~conn[cmd[d].conn].draining => cmd[d].ch # "empty"

\* A session that serves and is open can be found: it is the current one,
\* or the handler that replaced it or the removal of the worker is about to
\* close it (swapSession, claimSessionIfAvailable, disconnectWorker).
OpenSessionsFound ==
    \A c \in Conns :
        conn[c].pc \in {"registered", "serving", "recovered"} /\ ~conn[c].done =>
            \/ current = c
            \/ \E x \in Conns : conn[x].old = c
            \/ admin.session = c

\* The worker serves on the session the console files under its id, the
\* console may dispatch to it, and its row names that session.
Established ==
    /\ worker.pc = "serving"
    /\ current = worker.conn
    /\ conn[current].ready /\ ~conn[current].done
    /\ row # None /\ row.session = current

\* Once faults end, a worker that is provisioned is connected and stays so,
\* whatever half-open streams, superseded handlers and late handshakes are
\* left over, and although nobody may notice that a stream broke.
ConnectionRestored == <>[](admin.pc = "ready" => Established)
-----------------------------------------------------------------------------
\* What the documentation says, and the console does not do.

\* "a terminal-capable worker must reconcile every Console candidate and
\* receive a recovery acknowledgement before it becomes dispatchable"
\* (console/README.md:70): no command is written to the stream of a worker
\* that still waits for its acknowledgement (writerLoop,
\* service_connect.go:469).
HandshakeFirst ==
    [][\A c \in Conns :
         c \notin cut /\ conn[c].commands # <<>> /\ conn'[c].commands = Tail(conn[c].commands)
            /\ ~conn'[c].done => worker.pc = "serving"]_vars
=============================================================================
