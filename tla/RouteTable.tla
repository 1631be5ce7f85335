----------------------------- MODULE RouteTable -----------------------------
(***************************************************************************)
(* The console's table of sticky terminal-session routes                   *)
(* (console/internal/grpcserver/terminal_session_routes.go) together with  *)
(* the SQLite table behind it (registry/store_terminal_session_routes.go). *)
(*                                                                         *)
(* A table is a record                                                     *)
(*   routes  terminalSessionToNode: a route or NoRoute for every session,  *)
(*   index   terminalNodeToSessionIDIndex: the sessions filed under a node,*)
(*   rows    the rows of terminal_session_routes, NoRow where none exists, *)
(*   seq     terminalRouteReservationSeq.                                  *)
(*                                                                         *)
(* Every function of the Go file runs under terminalRoutesMu from its      *)
(* first read to its last write, database call included, so each one is an *)
(* operator from a table to the next table.  A database call that may fail *)
(* is an argument ok; a failed call leaves the rows as they were.          *)
(***************************************************************************)
EXTENDS Integers

CONSTANTS Nodes,      \* worker node ids
          Sessions,   \* scoped terminal session ids
          NoRoute,    \* the absence of a key in terminalSessionToNode
          NoRow,      \* the absence of a row
          RouteTTL    \* terminalRouteTTL, in ticks of the clock

RecoveryStates == {"ready", "unavailable", "reconciling"}

(* terminalSessionRoute.  lease = 0: no lease yet; res # 0: provisional;   *)
(* cres is ConfirmedReservationID and uses is ProvisionalUses.             *)
Route == [node  : Nodes,
          used  : Nat,
          lease : Nat,
          state : RecoveryStates,
          res   : Nat,
          cres  : Nat,
          uses  : Nat]

Row == [node : Nodes, lease : Nat, used : Nat]

ASSUME RouteTableAssumption ==
    /\ NoRoute \notin Route
    /\ NoRow \notin Row
    /\ RouteTTL \in Nat

Table == [routes : [Sessions -> Route \cup {NoRoute}],
          index  : [Nodes -> SUBSET Sessions],
          rows   : [Sessions -> Row \cup {NoRow}],
          seq    : Nat]

EmptyTable == [routes |-> [s \in Sessions |-> NoRoute],
               index  |-> [n \in Nodes |-> {}],
               rows   |-> [s \in Sessions |-> NoRow],
               seq    |-> 0]

HasRoute(t, s) == t.routes[s] # NoRoute
RoutedTo(t, s, n) == HasRoute(t, s) /\ t.routes[s].node = n
Provisional(t, s) == HasRoute(t, s) /\ t.routes[s].res # 0
Later(a, b) == IF a < b THEN b ELSE a

-----------------------------------------------------------------------------
(* Building blocks: one route overwritten, routes and rows deleted.        *)

PutRoute(t, s, r) == [t EXCEPT !.routes = [@ EXCEPT ![s] = r]]

(* Mistake: the reverse index is not updated.                              *)
DeleteRoutesKeepingIndex(t, S) ==
    [t EXCEPT
       !.routes = [s \in Sessions |-> IF s \in S THEN NoRoute ELSE t.routes[s]]]

(* deleteTerminalSessionRouteLocked, for a set of sessions.                *)
DeleteRoutes(t, S) ==
    [t EXCEPT
       !.routes = [s \in Sessions |-> IF s \in S THEN NoRoute ELSE t.routes[s]],
       !.index  = [n \in Nodes |->
                     t.index[n] \ {s \in S : RoutedTo(t, s, n)}]]

(* DeleteTerminalSessionRoute(s): DELETE ... WHERE session and node match. *)
DeleteRows(t, S) ==
    [t EXCEPT
       !.rows = [s \in Sessions |->
                   IF s \in S /\ t.rows[s] # NoRow
                              /\ RoutedTo(t, s, t.rows[s].node)
                   THEN NoRow ELSE t.rows[s]]]

DeleteExpiredRows(t, now) ==
    [t EXCEPT
       !.rows = [s \in Sessions |->
                   IF t.rows[s] # NoRow /\ t.rows[s].lease <= now
                   THEN NoRow ELSE t.rows[s]]]

(* UpsertTerminalSessionRoute: MAX of the leases and of the last uses.     *)
UpsertRow(t, s, row) ==
    [t EXCEPT
       !.rows = [@ EXCEPT ![s] =
                   IF t.rows[s] = NoRow THEN row
                   ELSE [node  |-> row.node,
                         lease |-> Later(t.rows[s].lease, row.lease),
                         used  |-> Later(t.rows[s].used, row.used)]]]

(* The upsert changes no row, and reports ErrTerminalSessionRouteNode-     *)
(* Conflict, when the stored row belongs to another node.                  *)
UpsertConflict(t, s, n) == t.rows[s] # NoRow /\ t.rows[s].node # n

-----------------------------------------------------------------------------
(* RestoreTerminalSessionRoutes, run on an empty memory at startup.        *)
RestoreTerminalSessionRoutes(t, now) ==
    LET kept == DeleteExpiredRows(t, now).rows IN
    [routes |-> [s \in Sessions |->
                   IF kept[s] = NoRow THEN NoRoute
                   ELSE [node |-> kept[s].node, used |-> kept[s].used,
                         lease |-> kept[s].lease, state |-> "unavailable",
                         res |-> 0, cres |-> 0, uses |-> 0]],
     index  |-> [n \in Nodes |->
                   {s \in Sessions : kept[s] # NoRow /\ kept[s].node = n}],
     rows   |-> kept,
     seq    |-> 0]

(* Mistake: the dispatch that joins a reservation is not counted.          *)
ClaimRouteUncounted(t, s, now) ==
    PutRoute(t, s, [t.routes[s] EXCEPT !.used = now])

(* claimTerminalSessionRoute on an existing route: refresh it, and join    *)
(* its reservation while it is provisional.                                *)
ClaimRoute(t, s, now) ==
    LET r == t.routes[s] IN
    PutRoute(t, s, [r EXCEPT !.used = now,
                             !.uses = IF r.res # 0 THEN r.uses + 1 ELSE r.uses])

(* Mistake: a provisional route is filed over the one that exists.         *)
ReserveRouteOverwriting(t, s, n, now) ==
    [routes |-> [t.routes EXCEPT ![s] =
                   [node |-> n, used |-> now, lease |-> 0,
                    state |-> "ready", res |-> t.seq + 1,
                    cres |-> 0, uses |-> 1]],
     index  |-> [m \in Nodes |-> IF m = n THEN t.index[m] \cup {s}
                                 ELSE t.index[m] \ {s}],
     rows   |-> t.rows,
     seq    |-> t.seq + 1]

(* reserveTerminalSessionRoute: join the route that exists, or file a      *)
(* provisional one under a fresh reservation.                              *)
ReserveRoute(t, s, n, now) ==
    IF HasRoute(t, s)
    THEN ClaimRoute(t, s, now)
    ELSE [routes |-> [t.routes EXCEPT ![s] =
                        [node |-> n, used |-> now, lease |-> 0,
                         state |-> "ready", res |-> t.seq + 1,
                         cres |-> 0, uses |-> 1]],
          index  |-> [t.index EXCEPT ![n] = @ \cup {s}],
          rows   |-> t.rows,
          seq    |-> t.seq + 1]

(* The condition under which confirmTerminalSessionRoute and               *)
(* commitConfirmedTerminalSessionRoute accept a dispatch's reservation.    *)
OwnsRoute(t, s, n, res) ==
    /\ RoutedTo(t, s, n)
    /\ t.routes[s].res = res \/ t.routes[s].cres = res

(* confirmTerminalSessionRoute: confirmation in memory only.               *)
ConfirmRoute(t, s, n, res, now) ==
    LET r == t.routes[s] IN
    IF ~OwnsRoute(t, s, n, res) THEN t
    ELSE IF res = 0 THEN PutRoute(t, s, [r EXCEPT !.used = now])
    ELSE PutRoute(t, s, [r EXCEPT !.used = now, !.res = 0,
                                  !.cres = res, !.uses = 0])

(* Mistake: the lease the worker answered with replaces a later one.       *)
CommitRouteLatest(t, s, n, res, lease, now) ==
    LET r == t.routes[s]
    IN  PutRoute(UpsertRow(t, s, [node |-> n, lease |-> lease, used |-> now]), s,
                 [r EXCEPT !.lease = lease, !.used = now, !.state = "ready",
                           !.res = 0, !.uses = 0,
                           !.cres = IF res # 0 THEN res ELSE r.cres])

(* commitConfirmedTerminalSessionRoute when OwnsRoute holds and the upsert *)
(* succeeds; in every other case the table does not change.                *)
CommitRoute(t, s, n, res, lease, now) ==
    LET r   == t.routes[s]
        max == Later(r.lease, lease)
    IN  PutRoute(UpsertRow(t, s, [node |-> n, lease |-> max, used |-> now]), s,
                 [r EXCEPT !.lease = max, !.used = now, !.state = "ready",
                           !.res = 0, !.uses = 0,
                           !.cres = IF res # 0 THEN res ELSE r.cres])

Expired(r, now) == r.lease > 0 /\ r.lease <= now

(* terminalSessionRouteSnapshot: what it finds, and the expired route it   *)
(* deletes on the way (kept, but still not found, when the store fails).   *)
SnapshotFinds(t, s, now) == HasRoute(t, s) /\ ~Expired(t.routes[s], now)

SnapshotRoute(t, s, now, ok) ==
    IF HasRoute(t, s) /\ Expired(t.routes[s], now) /\ ok
    THEN DeleteRoutes(DeleteRows(t, {s}), {s})
    ELSE t

(* isConfirmedActiveTerminalSessionRoute.                                  *)
ConfirmedActive(r, now) == r.res = 0 /\ r.lease > now

-----------------------------------------------------------------------------
(* beginTerminalSessionRecoveryWithError.                                  *)

RoutesOf(t, n) == {s \in t.index[n] : RoutedTo(t, s, n)}

(* The lease a worker is asked to honour; a route without one gets the TTL.*)
EffectiveLease(r) ==
    IF r.lease = 0 /\ RouteTTL > 0 THEN r.used + RouteTTL ELSE r.lease

RecoveryCandidates(t, n, now) ==
    {s \in RoutesOf(t, n) : /\ t.routes[s].res = 0
                            /\ EffectiveLease(t.routes[s]) > now}

RecoveryExpired(t, n, now) ==
    {s \in RoutesOf(t, n) \ RecoveryCandidates(t, n, now) :
        t.routes[s].lease > 0}

(* Candidate leases as sent in the ConnectAck, 0 for a session not sent.   *)
CandidateLeases(t, n, now) ==
    [s \in Sessions |-> IF s \in RecoveryCandidates(t, n, now)
                        THEN EffectiveLease(t.routes[s]) ELSE 0]

BeginRecovery(t, n, now) ==
    LET cands   == RecoveryCandidates(t, n, now)
        expired == RecoveryExpired(t, n, now)
        t1      == DeleteRoutes(DeleteRows(t, expired), expired)
    IN  [t1 EXCEPT !.routes =
            [s \in Sessions |->
               IF s \in cands
               THEN [t.routes[s] EXCEPT !.lease = EffectiveLease(t.routes[s]),
                                        !.state = "reconciling"]
               ELSE t1.routes[s]]]

(* applyTerminalSessionRecoveryReport of a report that covers exactly the  *)
(* candidates; recovered is the set reported RECOVERED.  A candidate whose *)
(* route moved to another worker makes the report invalid.                 *)
RecoveryMoved(t, n, cands) ==
    \E s \in Sessions : cands[s] > 0 /\ HasRoute(t, s) /\ t.routes[s].node # n

RecoveryLost(t, n, cands, recovered, now) ==
    {s \in Sessions : /\ cands[s] > 0
                      /\ RoutedTo(t, s, n)
                      /\ s \notin recovered \/ cands[s] <= now}

ApplyRecovery(t, n, cands, recovered, now) ==
    LET lost   == RecoveryLost(t, n, cands, recovered, now)
        stored == {s \in lost : t.routes[s].lease > 0}
        t1     == DeleteRoutes(DeleteRows(t, stored), lost)
    IN  [t1 EXCEPT !.routes =
            [s \in Sessions |->
               IF cands[s] > 0 /\ RoutedTo(t, s, n) /\ s \notin lost
               THEN [t.routes[s] EXCEPT !.state = "ready", !.used = now]
               ELSE t1.routes[s]]]

(* markTerminalSessionRoutesUnavailable.                                   *)
MarkUnavailable(t, n) ==
    LET mine == RoutesOf(t, n)
        t1   == DeleteRoutes(t, {s \in mine : t.routes[s].res # 0})
    IN  [t1 EXCEPT !.routes =
            [s \in Sessions |->
               IF s \in mine /\ t.routes[s].res = 0
               THEN [t.routes[s] EXCEPT !.state = "unavailable"]
               ELSE t1.routes[s]]]

-----------------------------------------------------------------------------
(* clearTerminalSessionRouteReservation and its three results.             *)
HoldsReservation(t, s, n, res) ==
    res # 0 /\ RoutedTo(t, s, n) /\ t.routes[s].res = res

ReservationRemoved(t, s, n, res) ==
    HoldsReservation(t, s, n, res) /\ t.routes[s].uses <= 1

ClearReservation(t, s, n, res) ==
    IF ~HoldsReservation(t, s, n, res) THEN t
    ELSE IF t.routes[s].uses > 1
         THEN PutRoute(t, s, [t.routes[s] EXCEPT !.uses = @ - 1])
         ELSE DeleteRoutes(t, {s})

(* clearTerminalSessionRoute fails when there is a lease, hence a row to   *)
(* delete, and the store fails.                                            *)
ClearFails(t, s, n, ok) == RoutedTo(t, s, n) /\ t.routes[s].lease > 0 /\ ~ok

(* Mistake: the route is dropped and its row stays.                        *)
ClearRouteKeepingRow(t, s, n, ok) ==
    IF RoutedTo(t, s, n) THEN DeleteRoutes(t, {s}) ELSE t

ClearRoute(t, s, n, ok) ==
    IF ~RoutedTo(t, s, n) \/ ClearFails(t, s, n, ok) THEN t
    ELSE DeleteRoutes(IF t.routes[s].lease > 0 THEN DeleteRows(t, {s}) ELSE t,
                      {s})

(* deleteTerminalSessionRoutesByNode, when the store succeeds.             *)
DeleteRoutesByNode(t, n) ==
    DeleteRoutes([t EXCEPT !.rows = [s \in Sessions |->
                    IF t.rows[s] # NoRow /\ t.rows[s].node = n
                    THEN NoRow ELSE t.rows[s]]],
                 RoutesOf(t, n))

(* Mistake: expired routes are dropped although their rows were not.       *)
PruneRoutesUnchecked(t, now, ok) ==
    DeleteRoutes(IF ok THEN DeleteExpiredRows(t, now) ELSE t,
        {s \in Sessions :
            /\ HasRoute(t, s)
            /\ IF t.routes[s].lease > 0
               THEN t.routes[s].lease <= now
               ELSE RouteTTL > 0 /\ t.routes[s].used <= now - RouteTTL})

(* PruneExpiredTerminalSessionRoutes: leased routes follow the rows, the   *)
(* others live RouteTTL past their last use.                               *)
PruneRoutes(t, now, ok) ==
    DeleteRoutes(IF ok THEN DeleteExpiredRows(t, now) ELSE t,
        {s \in Sessions :
            /\ HasRoute(t, s)
            /\ IF t.routes[s].lease > 0
               THEN t.routes[s].lease <= now /\ ok
               ELSE RouteTTL > 0 /\ t.routes[s].used <= now - RouteTTL})

(* The deletion of expired routes in ListTerminalSessions.                 *)
ListRoutes(t, now, ok) ==
    LET expired == {s \in Sessions : HasRoute(t, s) /\ Expired(t.routes[s], now)}
    IN  IF ok THEN DeleteRoutes(DeleteRows(t, expired), expired) ELSE t

-----------------------------------------------------------------------------
(* Consistency of the table, kept by every operator above.                 *)

(* The reverse index files exactly the routed sessions: begin-recovery,    *)
(* mark-unavailable and delete-by-node walk the index, so a session missing*)
(* from it would survive them and a stale one would be filed twice.        *)
IndexExact(t) ==
    \A n \in Nodes, s \in Sessions : s \in t.index[n] <=> RoutedTo(t, s, n)

(* Every persisted row is backed by a confirmed route in memory on the     *)
(* same worker whose lease is at least the stored one: no delete path can  *)
(* drop the route and leave the row to come back at the next restart, and  *)
(* a provisional route is never persisted.                                 *)
RowsBacked(t) ==
    \A s \in Sessions : t.rows[s] # NoRow =>
        /\ RoutedTo(t, s, t.rows[s].node)
        /\ t.routes[s].res = 0
        /\ t.rows[s].lease > 0
        /\ t.rows[s].lease <= t.routes[s].lease

(* A provisional route has no lease, no confirmed reservation and at least *)
(* one dispatch counted on it; reservations come from the sequence.        *)
RouteShape(r, seq) ==
    /\ r.res <= seq /\ r.cres <= seq
    /\ r.res # 0 => r.lease = 0 /\ r.cres = 0 /\ r.uses >= 1
    /\ r.res = 0 => r.uses = 0

RoutesShaped(t) ==
    \A s \in Sessions : HasRoute(t, s) => RouteShape(t.routes[s], t.seq)

TableConsistent(t) ==
    /\ t \in Table
    /\ IndexExact(t)
    /\ RowsBacked(t)
    /\ RoutesShaped(t)

=============================================================================
