-------------------------- MODULE TerminalDispatch --------------------------
(***************************************************************************)
(* The goroutines of the console that share the route table: requests that *)
(* dispatch a terminal command (service_dispatch.go), renew or delete a    *)
(* session (terminal_session_lease.go, terminal_session_routes.go), worker *)
(* connections with their recovery handshake (service_connect.go), the     *)
(* pruner, the removal of a provisioned worker and a console restart.      *)
(*                                                                         *)
(* A step is what a goroutine does between two points where another one    *)
(* can run: one critical section of terminalRoutesMu or sessionsMu, and    *)
(* the reads that cannot change meanwhile.                                 *)
(***************************************************************************)
EXTENDS RouteTable, FiniteSets

CONSTANTS Requests,        \* goroutines that serve an API request
          Conns,           \* worker connections, each used once
          None,            \* no connection, node or session
          Policy,          \* workerConnectionPolicy
          MaxTime,         \* bound of the clock
          MaxReservations, \* bound of terminalRouteReservationSeq
          MaxUses,         \* bound of ProvisionalUses
          Leases,          \* lease_expires_unix_ms a worker may answer with
          Kinds,           \* the requests that are made
          Faults           \* what goes wrong, besides the worker's errors

ASSUME TerminalDispatchAssumption ==
    /\ None \notin Conns \cup Nodes \cup Sessions
    /\ Policy \in {"replace", "reject"}
    /\ MaxTime \in Nat /\ MaxReservations \in Nat /\ MaxUses \in Nat
    /\ Leases \subseteq Nat
    /\ Cardinality(Nodes) \in Nat /\ IsFiniteSet(Requests)
    /\ Kinds \subseteq {"exec", "resource", "renew", "delete"}
    /\ Faults \subseteq {"store", "disconnect", "removal", "restart"}

VARIABLES tbl,          \* the route table
          now,          \* nowFn, in ticks
          cur,          \* RegistryService.sessions: node -> connection
          conns,        \* activeSession and the progress of its Connect
          reqs,         \* the requests in progress
          provisioned   \* the credential of a worker: yes, deleting, no

vars == <<tbl, now, cur, conns, reqs, provisioned>>

(* Connect: new, hello (credential accepted), claimed (reject policy: in   *)
(* the map), begun (recovery begun, not yet in the map), loop, removed     *)
(* (out of the map, routes not yet marked), gone.                          *)
ConnPhases == {"new", "hello", "claimed", "begun", "loop", "removed", "gone"}

Conn == [node   : Nodes \cup {None},
         phase  : ConnPhases,
         ready  : BOOLEAN,                 \* recoveryComplete
         closed : BOOLEAN,                 \* done is closed
         t      : Nat,                     \* now, read after the hello frame
         cands  : [Sessions -> Nat]]       \* recoveryCandidates

NewConn == [node |-> None, phase |-> "new", ready |-> FALSE,
            closed |-> FALSE, t |-> 0, cands |-> [s \in Sessions |-> 0]]

Gone(n) == [NewConn EXCEPT !.node = n, !.phase = "gone", !.closed = TRUE]

ReqPhases == {"idle", "pick", "looked", "claimed", "stale", "choose",
              "chosen", "bound", "sent", "answered", "target", "delete"}

(* An idle request keeps nothing.                                          *)
Idle == [phase |-> "idle", kind |-> "none", s |-> None, t |-> 0,
         conn |-> None, node |-> None, res |-> 0, tried |-> {},
         left |-> 0, round |-> 0]

Req == [phase : ReqPhases \ {"idle"},
        kind  : {"exec", "resource", "renew", "delete"},
        s     : Sessions,
        t     : Nat,                       \* now, read when the pick began
        conn  : Conns \cup {None},       \* the acquired activeSession
        node  : Nodes \cup {None},
        res   : Nat,                       \* the route reservation held
        tried : SUBSET Nodes,              \* attemptedNodeIDs
        left  : Nat,                       \* attempts still allowed
        round : {0, 1, 2}]                 \* reserveAttempt
(* t and round are 0 once a worker is bound: they are not read again.      *)

Init ==
    /\ tbl = EmptyTable
    /\ now = 1
    /\ cur = [n \in Nodes |-> None]
    /\ conns = [c \in Conns |-> NewConn]
    /\ reqs = [d \in Requests |-> Idle]
    /\ provisioned = [n \in Nodes |-> "yes"]

(* getSession(n) is present, ready and offers the capability.              *)
Usable(n) == cur[n] # None /\ conns[cur[n]].ready

(* The outcomes of a call to the store.                                    *)
StoreOK == IF "store" \in Faults THEN BOOLEAN ELSE {TRUE}

Step(d, upd) == reqs' = [reqs EXCEPT ![d] = upd]
Return(d) == Step(d, Idle)

-----------------------------------------------------------------------------
(* pickSessionForDispatch                                                  *)

(* dispatchCommand is entered.  A terminalExec may use as many attempts as *)
(* the registry lists online workers, at least one; the list depends on    *)
(* heartbeats the model does not follow.                                   *)
StartDispatch(d, kind, s, attempts) ==
    /\ reqs[d] = Idle
    /\ kind \in Kinds
    /\ kind = "resource" => attempts = 1
    /\ Step(d, [Idle EXCEPT !.phase = "pick", !.kind = kind, !.s = s,
                            !.left = attempts])
    /\ UNCHANGED <<tbl, now, cur, conns, provisioned>>

(* The context ended before the next attempt.                              *)
PickCancelled(d) ==
    /\ reqs[d].phase = "pick"
    /\ Return(d)
    /\ UNCHANGED <<tbl, now, cur, conns, provisioned>>

(* maybePruneTerminalSessionRoutes (rate limited: prune or not), then the  *)
(* snapshot; a confirmed route must be ready on a ready worker.            *)
LookUp(d, prune, okPrune, ok) ==
    LET r  == reqs[d]
        t1 == IF prune THEN PruneRoutes(tbl, now, okPrune) ELSE tbl
    IN  /\ r.phase = "pick"
        /\ tbl' = SnapshotRoute(t1, r.s, now, ok)
        /\ IF /\ SnapshotFinds(t1, r.s, now)
              /\ t1.routes[r.s].res = 0
              /\ ~(t1.routes[r.s].state = "ready" /\ Usable(t1.routes[r.s].node))
           THEN Return(d)
           ELSE Step(d, [r EXCEPT !.phase = "looked", !.t = now])
        /\ UNCHANGED <<now, cur, conns, provisioned>>

(* claimTerminalSessionRoute; a route on a worker already tried is a       *)
(* conflict, and the use just counted is released again.                   *)
Claim(d) ==
    LET r == reqs[d] IN
    /\ r.phase = "looked"
    /\ HasRoute(tbl, r.s) => tbl.routes[r.s].uses < MaxUses
    /\ IF ~HasRoute(tbl, r.s)
       THEN /\ Step(d, [r EXCEPT !.phase = "choose", !.round = 0])
            /\ UNCHANGED tbl
       ELSE LET route == tbl.routes[r.s]
                t1    == ClaimRoute(tbl, r.s, r.t)
            IN  IF route.node \in r.tried
                THEN /\ tbl' = ClearReservation(t1, r.s, route.node, route.res)
                     /\ Return(d)
                ELSE /\ tbl' = t1
                     /\ Step(d, [r EXCEPT !.phase = "claimed", !.round = 0,
                                          !.node = route.node,
                                          !.res = route.res])
    /\ UNCHANGED <<now, cur, conns, provisioned>>

(* pickSessionForNodeAndCapability on the route's worker: a slot is taken. *)
PickBound(d) ==
    LET r == reqs[d] IN
    /\ r.phase = "claimed"
    /\ Usable(r.node)
    /\ Step(d, [r EXCEPT !.phase = "bound", !.conn = cur[r.node],
                         !.t = 0, !.round = 0])
    /\ UNCHANGED <<tbl, now, cur, conns, provisioned>>

(* ... or all its slots are in use: ErrNoWorkerCapacity.                   *)
PickFull(d) ==
    LET r == reqs[d] IN
    /\ r.phase = "claimed"
    /\ Usable(r.node)
    /\ tbl' = ClearReservation(tbl, r.s, r.node, r.res)
    /\ Return(d)
    /\ UNCHANGED <<now, cur, conns, provisioned>>

(* ... or it is not there: ErrNoCapabilityWorker.  The claim of a          *)
(* confirmed route ends the request; otherwise the route is to be cleared. *)
PickOffline(d) ==
    LET r == reqs[d] IN
    /\ r.phase = "claimed"
    /\ ~Usable(r.node)
    /\ IF r.res = 0 /\ r.round = 0
       THEN Return(d)
       ELSE Step(d, [r EXCEPT !.phase = "stale"])
    /\ UNCHANGED <<tbl, now, cur, conns, provisioned>>

(* clearTerminalSessionRoute on the way to tryReserveAndPick, or in its    *)
(* loop; an error of the store is ignored.                                 *)
ClearStale(d, ok) ==
    LET r == reqs[d] IN
    /\ r.phase = "stale"
    /\ tbl' = ClearRoute(tbl, r.s, r.node, ok)
    /\ IF r.round = 2 THEN Return(d)
       ELSE Step(d, [r EXCEPT !.phase = "choose", !.node = None, !.res = 0])
    /\ UNCHANGED <<now, cur, conns, provisioned>>

(* pickSessionForCapability: any ready worker that was not tried, listed   *)
(* online and with a free slot; the order of preference is not modelled.   *)
Choose(d, n) ==
    LET r == reqs[d] IN
    /\ r.phase = "choose"
    /\ Usable(n) /\ n \notin r.tried
    /\ Step(d, [r EXCEPT !.phase = "chosen", !.conn = cur[n],
                         !.round = r.round + 1])
    /\ UNCHANGED <<tbl, now, cur, conns, provisioned>>

(* None is listed, or none has a free slot.                                *)
ChooseNone(d) ==
    /\ reqs[d].phase = "choose"
    /\ Return(d)
    /\ UNCHANGED <<tbl, now, cur, conns, provisioned>>

(* reserveTerminalSessionRoute.  When another request routed the session   *)
(* first, the slot is released and that request's worker is followed.      *)
Reserve(d) ==
    LET r    == reqs[d]
        mine == conns[r.conn].node
        t1   == ReserveRoute(tbl, r.s, mine, r.t)
        node == t1.routes[r.s].node
        res  == t1.routes[r.s].res
    IN  /\ r.phase = "chosen"
        /\ IF HasRoute(tbl, r.s) THEN tbl.routes[r.s].uses < MaxUses
           ELSE tbl.seq < MaxReservations
        /\ IF node # mine /\ node \in r.tried
           THEN /\ tbl' = ClearReservation(t1, r.s, node, res)
                /\ Return(d)
           ELSE /\ tbl' = t1
                /\ Step(d, IF node = mine
                           THEN [r EXCEPT !.phase = "bound", !.node = node,
                                          !.res = res, !.t = 0, !.round = 0]
                           ELSE [r EXCEPT !.phase = "claimed", !.node = node,
                                          !.res = res, !.conn = None])
        /\ UNCHANGED <<now, cur, conns, provisioned>>

-----------------------------------------------------------------------------
(* dispatchCommandAttempt                                                  *)

(* registerPending and enqueueCommand succeed.                             *)
Send(d) ==
    LET r == reqs[d] IN
    /\ r.phase = "bound"
    /\ ~conns[r.conn].closed
    /\ Step(d, [r EXCEPT !.phase = "sent", !.tried = r.tried \cup {r.node},
                         !.left = r.left - 1])
    /\ UNCHANGED <<tbl, now, cur, conns, provisioned>>

(* No command id, the connection is closed, or the context ended while the *)
(* outbound queue was full: the reservation is rolled back.                *)
SendFails(d) ==
    LET r == reqs[d] IN
    /\ r.phase = "bound"
    /\ tbl' = ClearReservation(tbl, r.s, r.node, r.res)
    /\ Return(d)
    /\ UNCHANGED <<now, cur, conns, provisioned>>

(* The command was sent and no answer is used: onDispatched failed, the    *)
(* context ended (also when an answer is there: select picks either), or   *)
(* the connection closed, or the worker reported another error.  None of   *)
(* them proves that the session was not created.                           *)
NoProof(d) ==
    LET r == reqs[d] IN
    /\ r.phase \in {"sent", "answered"}
    /\ tbl' = IF r.res # 0
              THEN ConfirmRoute(tbl, r.s, r.node, r.res, now) ELSE tbl
    /\ Return(d)
    /\ UNCHANGED <<now, cur, conns, provisioned>>

(* resolvePending: the receive loop hands the worker's result over.        *)
Answer(d) ==
    LET r == reqs[d] IN
    /\ r.phase = "sent"
    /\ conns[r.conn].phase = "loop" /\ ~conns[r.conn].closed
    /\ Step(d, [r EXCEPT !.phase = "answered"])
    /\ UNCHANGED <<tbl, now, cur, conns, provisioned>>

(* The worker succeeded.  terminalExec and the lease renewal persist the   *)
(* route, and fail without a rollback when the lease is missing, the route *)
(* changed hands or the store fails; the renewal then looks its route up   *)
(* again.  terminalResource confirms in memory.                            *)
Success(d, lease, ok, okAfter) ==
    LET r  == reqs[d]
        t1 == CommitRoute(tbl, r.s, r.node, r.res, lease, now)
    IN
    /\ r.phase = "answered"
    /\ tbl' = IF r.kind = "resource"
              THEN ConfirmRoute(tbl, r.s, r.node, r.res, now)
              ELSE IF /\ lease > 0 /\ ok
                      /\ OwnsRoute(tbl, r.s, r.node, r.res)
                      /\ ~UpsertConflict(tbl, r.s, r.node)
                   THEN IF r.kind = "exec" THEN t1
                        ELSE SnapshotRoute(t1, r.s, now, okAfter)
                   ELSE tbl
    /\ Return(d)
    /\ UNCHANGED <<now, cur, conns, provisioned>>

(* session_not_found                                                       *)
NotFound(d, ok) ==
    LET r == reqs[d] IN
    /\ r.phase = "answered"
    /\ tbl' = IF r.res # 0 THEN ClearReservation(tbl, r.s, r.node, r.res)
              ELSE ClearRoute(tbl, r.s, r.node, ok)
    /\ Return(d)
    /\ UNCHANGED <<now, cur, conns, provisioned>>

(* Mistake: the attempts left are not counted.                             *)
CapacityExceededUncounted(d) ==
    LET r == reqs[d] IN
    /\ r.phase = "answered"
    /\ tbl' = ClearReservation(tbl, r.s, r.node, r.res)
    /\ IF r.kind = "exec" /\ ReservationRemoved(tbl, r.s, r.node, r.res)
       THEN Step(d, [Idle EXCEPT !.phase = "pick", !.kind = r.kind, !.s = r.s,
                                 !.tried = r.tried, !.left = r.left])
       ELSE Return(d)
    /\ UNCHANGED <<now, cur, conns, provisioned>>

(* session_capacity_exceeded: try another worker only if this request was  *)
(* the last user of its reservation, so that the route is gone.            *)
CapacityExceeded(d) ==
    LET r == reqs[d] IN
    /\ r.phase = "answered"
    /\ tbl' = ClearReservation(tbl, r.s, r.node, r.res)
    /\ IF /\ r.kind = "exec" /\ r.left > 0
          /\ ReservationRemoved(tbl, r.s, r.node, r.res)
       THEN Step(d, [Idle EXCEPT !.phase = "pick", !.kind = r.kind, !.s = r.s,
                                 !.tried = r.tried, !.left = r.left])
       ELSE Return(d)
    /\ UNCHANGED <<now, cur, conns, provisioned>>

-----------------------------------------------------------------------------
(* RenewTerminalSessionLease and DeleteTerminalSession                     *)

(* GetTerminalSession must find a confirmed, active and ready route; the   *)
(* renewal is then dispatched to that worker without a reservation.        *)
StartRenew(d, s, ok) ==
    /\ reqs[d] = Idle
    /\ "renew" \in Kinds
    /\ tbl' = SnapshotRoute(tbl, s, now, ok)
    /\ IF /\ SnapshotFinds(tbl, s, now)
          /\ ConfirmedActive(tbl.routes[s], now)
          /\ tbl.routes[s].state = "ready"
       THEN Step(d, [Idle EXCEPT !.phase = "target", !.kind = "renew", !.s = s,
                                 !.node = tbl.routes[s].node, !.left = 1])
       ELSE UNCHANGED reqs
    /\ UNCHANGED <<now, cur, conns, provisioned>>

(* The worker is picked, or it is not there, full, or the context ended.   *)
PickTarget(d) ==
    LET r == reqs[d] IN
    /\ r.phase = "target"
    /\ \/ /\ Usable(r.node)
          /\ Step(d, [r EXCEPT !.phase = "bound", !.conn = cur[r.node]])
       \/ Return(d)
    /\ UNCHANGED <<tbl, now, cur, conns, provisioned>>

(* DeleteTerminalSession looks the route up and clears it in a second      *)
(* critical section.                                                       *)
StartDelete(d, s, ok) ==
    /\ reqs[d] = Idle
    /\ "delete" \in Kinds
    /\ tbl' = SnapshotRoute(tbl, s, now, ok)
    /\ IF SnapshotFinds(tbl, s, now) /\ ConfirmedActive(tbl.routes[s], now)
       THEN Step(d, [Idle EXCEPT !.phase = "delete", !.kind = "delete", !.s = s,
                                 !.node = tbl.routes[s].node])
       ELSE UNCHANGED reqs
    /\ UNCHANGED <<now, cur, conns, provisioned>>

FinishDelete(d, ok) ==
    LET r == reqs[d] IN
    /\ r.phase = "delete"
    /\ tbl' = ClearRoute(tbl, r.s, r.node, ok)
    /\ Return(d)
    /\ UNCHANGED <<now, cur, conns, provisioned>>

(* ListTerminalSessions, and the periodic pruner.                          *)
ListSessions(prune, okPrune, ok) ==
    /\ tbl' = ListRoutes(IF prune THEN PruneRoutes(tbl, now, okPrune) ELSE tbl,
                         now, ok)
    /\ UNCHANGED <<now, cur, conns, reqs, provisioned>>

Prune(ok) ==
    /\ tbl' = PruneRoutes(tbl, now, ok)
    /\ UNCHANGED <<now, cur, conns, reqs, provisioned>>

-----------------------------------------------------------------------------
(* Connect                                                                 *)

SetConn(c, upd) == conns' = [conns EXCEPT ![c] = upd]

(* The hello frame names a provisioned worker.                             *)
Hello(c, n) ==
    /\ conns[c].phase = "new"
    /\ provisioned[n] # "no"
    /\ SetConn(c, [NewConn EXCEPT !.node = n, !.phase = "hello", !.t = now])
    /\ UNCHANGED <<tbl, now, cur, reqs, provisioned>>

(* claimSessionIfAvailable (reject policy).  A current connection whose    *)
(* heartbeat is overdue is closed and replaced; which ones are overdue is  *)
(* left open.                                                              *)
ClaimConnection(c) ==
    LET n == conns[c].node IN
    /\ Policy = "reject" /\ conns[c].phase = "hello"
    /\ \/ /\ cur' = [cur EXCEPT ![n] = c]
          /\ conns' = [k \in Conns |->
                IF k = c THEN [conns[c] EXCEPT !.phase = "claimed"]
                ELSE IF k = cur[n] THEN [conns[k] EXCEPT !.closed = TRUE]
                ELSE conns[k]]
       \/ /\ cur[n] # None
          /\ ~conns[cur[n]].closed
          /\ SetConn(c, Gone(n))
          /\ UNCHANGED cur
    /\ UNCHANGED <<tbl, now, reqs, provisioned>>

BeginPhase == IF Policy = "reject" THEN "claimed" ELSE "hello"

(* beginTerminalSessionRecoveryWithError and setRecoveryCandidates.        *)
BeginConnection(c) ==
    LET k == conns[c] IN
    /\ k.phase = BeginPhase
    /\ tbl' = BeginRecovery(tbl, k.node, k.t)
    /\ SetConn(c, [k EXCEPT !.cands = CandidateLeases(tbl, k.node, k.t),
                            !.t = 0,
                            !.phase = IF Policy = "reject" THEN "loop"
                                      ELSE "begun"])
    /\ UNCHANGED <<now, cur, reqs, provisioned>>

(* swapSession (replace policy) and the close of the connection replaced.  *)
SwapConnection(c) ==
    LET n == conns[c].node IN
    /\ conns[c].phase = "begun"
    /\ cur' = [cur EXCEPT ![n] = c]
    /\ conns' = [k \in Conns |->
          IF k = c THEN [conns[c] EXCEPT !.phase = "loop"]
          ELSE IF k = cur[n] THEN [conns[k] EXCEPT !.closed = TRUE]
          ELSE conns[k]]
    /\ UNCHANGED <<tbl, now, reqs, provisioned>>

(* A recovery report is applied, also when the connection was closed while *)
(* the frame waited.  The connection becomes ready once the ack is queued, *)
(* which fails on a closed one.  The candidates are only used again to     *)
(* compare a repeated report, which changes nothing.                       *)
Report(c, recovered) ==
    LET k == conns[c] IN
    /\ k.phase = "loop" /\ ~k.ready
    /\ ~RecoveryMoved(tbl, k.node, k.cands)
    /\ recovered \subseteq {s \in Sessions : k.cands[s] > 0}
    /\ tbl' = ApplyRecovery(tbl, k.node, k.cands, recovered, now)
    /\ SetConn(c, [k EXCEPT !.ready = ~k.closed, !.cands = NewConn.cands])
    /\ UNCHANGED <<now, cur, reqs, provisioned>>

(* Connect returns: the stream or the writer ended, the connection was     *)
(* closed, a frame or a report was refused, the registration or the        *)
(* deletion of expired candidates failed.  removeSession takes the session *)
(* out of the map if it is the current one.                                *)
LeaveConnection(c) ==
    LET k == conns[c] IN
    /\ \/ k.phase = "loop" /\ ("disconnect" \in Faults \/ k.closed)
       \/ /\ "store" \in Faults
          /\ k.phase = BeginPhase
          /\ RecoveryExpired(tbl, k.node, k.t) # {}
    /\ IF cur[k.node] = c
       THEN /\ cur' = [cur EXCEPT ![k.node] = None]
            /\ SetConn(c, [k EXCEPT !.phase = "removed", !.t = 0])
       ELSE /\ SetConn(c, Gone(k.node))
            /\ UNCHANGED cur
    /\ UNCHANGED <<tbl, now, reqs, provisioned>>

(* ... marks the routes of the worker unavailable in a second critical     *)
(* section, and closes the session.                                        *)
MarkRoutes(c) ==
    LET k == conns[c] IN
    /\ k.phase = "removed"
    /\ tbl' = MarkUnavailable(tbl, k.node)
    /\ SetConn(c, Gone(k.node))
    /\ UNCHANGED <<now, cur, reqs, provisioned>>

-----------------------------------------------------------------------------
(* DeleteProvisionedWorker, and the restart of the console                 *)

(* deleteTerminalSessionRoutesByNode; nothing else happens if it fails.    *)
DeleteWorkerRoutes(n) ==
    /\ "removal" \in Faults
    /\ provisioned[n] = "yes"
    /\ tbl' = DeleteRoutesByNode(tbl, n)
    /\ provisioned' = [provisioned EXCEPT ![n] = "deleting"]
    /\ UNCHANGED <<now, cur, conns, reqs>>

(* The credential and the node are deleted, and the worker disconnected.   *)
RevokeWorker(n) ==
    /\ provisioned[n] = "deleting"
    /\ provisioned' = [provisioned EXCEPT ![n] = "no"]
    /\ cur' = [cur EXCEPT ![n] = None]
    /\ conns' = [k \in Conns |->
          IF k = cur[n] THEN [conns[k] EXCEPT !.closed = TRUE] ELSE conns[k]]
    /\ UNCHANGED <<tbl, now, reqs>>

(* The process dies; main restores the routes before it serves anything.   *)
Restart ==
    /\ "restart" \in Faults
    /\ tbl' = RestoreTerminalSessionRoutes(tbl, now)
    /\ cur' = [n \in Nodes |-> None]
    /\ conns' = [c \in Conns |-> IF conns[c].phase = "new" THEN NewConn
                                 ELSE Gone(conns[c].node)]
    /\ reqs' = [d \in Requests |-> Idle]
    /\ provisioned' = [n \in Nodes |-> IF provisioned[n] = "no" THEN "no"
                                       ELSE "yes"]
    /\ UNCHANGED now

Tick ==
    /\ now < MaxTime
    /\ now' = now + 1
    /\ UNCHANGED <<tbl, cur, conns, reqs, provisioned>>

-----------------------------------------------------------------------------
PickStep(d) ==
    \/ PickCancelled(d)
    \/ \E prune \in BOOLEAN, okPrune, ok \in StoreOK : LookUp(d, prune, okPrune, ok)
    \/ Claim(d)
    \/ PickBound(d) \/ PickFull(d) \/ PickOffline(d)
    \/ \E ok \in StoreOK : ClearStale(d, ok)
    \/ \E n \in Nodes : Choose(d, n)
    \/ ChooseNone(d)
    \/ Reserve(d)
    \/ PickTarget(d)

AttemptStep(d) ==
    \/ Send(d) \/ SendFails(d)
    \/ NoProof(d)
    \/ Answer(d)
    \/ \E lease \in Leases, ok, okAfter \in StoreOK : Success(d, lease, ok, okAfter)
    \/ \E ok \in StoreOK : NotFound(d, ok)
    \/ CapacityExceeded(d)

RequestStep(d) ==
    \/ PickStep(d)
    \/ AttemptStep(d)
    \/ \E ok \in StoreOK : FinishDelete(d, ok)

StartRequest(d) ==
    \/ \E kind \in {"exec", "resource"}, s \in Sessions,
          attempts \in 1..Cardinality(Nodes) : StartDispatch(d, kind, s, attempts)
    \/ \E s \in Sessions, ok \in StoreOK : StartRenew(d, s, ok)
    \/ \E s \in Sessions, ok \in StoreOK : StartDelete(d, s, ok)

ConnectionStep(c) ==
    \/ \E n \in Nodes : Hello(c, n)
    \/ ClaimConnection(c)
    \/ BeginConnection(c)
    \/ SwapConnection(c)
    \/ \E recovered \in SUBSET Sessions : Report(c, recovered)
    \/ LeaveConnection(c)
    \/ MarkRoutes(c)

ConsoleStep ==
    \/ \E prune \in BOOLEAN, okPrune, ok \in StoreOK : ListSessions(prune, okPrune, ok)
    \/ \E ok \in StoreOK : Prune(ok)
    \/ \E n \in Nodes : DeleteWorkerRoutes(n) \/ RevokeWorker(n)
    \/ Restart
    \/ Tick

Next ==
    \/ \E d \in Requests : RequestStep(d) \/ StartRequest(d)
    \/ \E c \in Conns : ConnectionStep(c)
    \/ ConsoleStep

Spec == Init /\ [][Next]_vars

-----------------------------------------------------------------------------
TypeOK ==
    /\ tbl \in Table
    /\ now \in Nat
    /\ cur \in [Nodes -> Conns \cup {None}]
    /\ conns \in [Conns -> Conn]
    /\ reqs \in [Requests -> Req \cup {Idle}]
    /\ provisioned \in [Nodes -> {"yes", "deleting", "no"}]

(* The index that recovery, disconnection and worker removal walk agrees   *)
(* with the routes (terminal_session_routes.go:433, 490, 687).             *)
RoutesIndexed == IndexExact(tbl)

(* Whatever the interleaving, failed store calls and restarts included, no *)
(* row outlives its route, names another worker, or stores a provisional   *)
(* route or a longer lease.                                                *)
PersistedRoutesBacked == RowsBacked(tbl)

(* The requests that count on a provisional route.                         *)
Holding(r) == r.phase \in {"claimed", "stale", "bound", "sent", "answered"}

Holders(s, res) ==
    {d \in Requests : /\ Holding(reqs[d])
                      /\ reqs[d].s = s /\ reqs[d].res = res}

(* "The route is removed only after every dispatch sharing the reservation *)
(* failed" (terminal_session_routes.go:607).  As long as the store works   *)
(* and workers answer with a lease, a provisional route counts exactly the *)
(* requests that hold its reservation, so that the last one to give up     *)
(* removes it and no session stays pinned to a worker without it.          *)
ProvisionalUsesExact ==
    \A s \in Sessions : Provisional(tbl, s) =>
        tbl.routes[s].uses = Cardinality(Holders(s, tbl.routes[s].res))

(* A lease is never shortened: while a session stays routed, the lease in  *)
(* memory (within one run of the console) and the stored one only grow,    *)
(* whether a worker answers late, renews, or is asked to recover.          *)
LeaseNeverShortened ==
    [][\A s \in Sessions :
          /\ HasRoute(tbl, s) /\ HasRoute(tbl', s) =>
                Restart \/ tbl'.routes[s].lease >= tbl.routes[s].lease
          /\ tbl.rows[s] # NoRow /\ tbl'.rows[s] # NoRow =>
                tbl'.rows[s].lease >= tbl.rows[s].lease]_vars

(* A session that keeps a route keeps its worker: no step, the restart     *)
(* included, rebinds it in place; a request that lost the race for the     *)
(* reservation follows the worker of the request that won it.              *)
Sticky ==
    [][\A s \in Sessions :
          HasRoute(tbl, s) /\ HasRoute(tbl', s) =>
             tbl'.routes[s].node = tbl.routes[s].node]_vars

-----------------------------------------------------------------------------
(* What comments and docs of the repository say, and the code does not do. *)

(* "A zero reservation ID may only refresh an already-confirmed route on   *)
(* the same node" (terminal_session_routes.go:245): a result that holds no *)
(* reservation leaves a provisional route as it is.                        *)
ZeroReservationRefreshesConfirmed ==
    [][\A d \in Requests :
          LET r == reqs[d] IN
          (/\ r.phase = "answered" /\ reqs'[d] = Idle
           /\ r.res = 0 /\ Provisional(tbl, r.s) /\ HasRoute(tbl', r.s))
          => tbl'.routes[r.s] = tbl.routes[r.s] \/ Restart]_vars

(* A confirmed route "is always pinned to its worker, not reassigned for   *)
(* capacity or because the worker is offline" (docs/plan/CONSOLE_SESSION_  *)
(* RECOVERY_PLAN.zh-CN.md:70): a request that found the worker offline     *)
(* does not delete an active confirmed route.                              *)
OfflineKeepsConfirmedRoute ==
    [][\A d \in Requests :
          LET r == reqs[d] IN
          (/\ r.phase = "stale" /\ reqs'[d].phase \in {"idle", "choose"}
           /\ RoutedTo(tbl, r.s, r.node)
           /\ ConfirmedActive(tbl.routes[r.s], now))
          => HasRoute(tbl', r.s) \/ Restart]_vars

(* A route is unavailable while "the worker is offline or the route is     *)
(* being reconciled" (same document, line 69): once the current connection *)
(* is ready and no other one of that worker is at work on its routes, the  *)
(* active confirmed routes of the worker are ready.                        *)
ReconciledRoutesReady ==
    \A s \in Sessions :
        (/\ HasRoute(tbl, s) /\ ConfirmedActive(tbl.routes[s], now)
         /\ Usable(tbl.routes[s].node)
         /\ \A c \in Conns : conns[c].node = tbl.routes[s].node =>
               c = cur[conns[c].node] \/ conns[c].phase \in {"hello", "gone"})
        => tbl.routes[s].state = "ready"

(* Deleting a provisioned worker deletes its routes from SQLite and memory *)
(* (same document, line 77 and 82): a removed worker has no stored route.  *)
RemovedWorkerHasNoRoutes ==
    \A n \in Nodes, s \in Sessions :
        provisioned[n] = "no" /\ tbl.rows[s] # NoRow => tbl.rows[s].node # n

=============================================================================
