---------------------------- MODULE PreviewRoutes ----------------------------
(***************************************************************************)
(* Public preview routes (console/internal/httpapi/proxy_routes.go and     *)
(* grpcserver/proxy_routes.go) composed with the table of terminal-session *)
(* routes they depend on (RouteTable) and with account deletion.           *)
(*                                                                         *)
(* A preview route lives twice: in the handler's map, under h.mu, and as a *)
(* row of proxy_routes.  The row has two foreign keys with ON DELETE       *)
(* CASCADE, to its account and to (session, worker) of the terminal route. *)
(* Whoever deletes an account or a terminal route lets SQLite drop the     *)
(* rows first and revokes the routes in memory afterwards, one call of     *)
(* RevokeSessionRoutes per session, while still holding terminalRoutesMu;  *)
(* route creation inserts the row first and files it in memory afterwards, *)
(* while still holding h.mu.  These orders interleave here.                *)
(***************************************************************************)
EXTENDS RouteTable, FiniteSets

CONSTANTS Keys,             \* route keys the random generator can draw
          Owners,           \* account ids
          OwnerOf(_),       \* the owner part of a scoped session id
          Calls,            \* concurrent POST requests
          Gateways,         \* concurrent gateway authorisations
          None,
          ProxyTTL,         \* CONSOLE_PROXY_ROUTE_TTL
          TokenTTL,         \* proxyRouteTokenTTL
          LeaseTTL,         \* lease a worker grants a terminal session
          MaxPerAccount,
          MaxPerSession,
          MaxTime,          \* bound on the clock
          MaxReservations,  \* bound on terminalRouteReservationSeq
          Faults            \* subset of {"store", "crash", "removal",
                            \*            "offline", "recreate"}

VARIABLES table,     \* the terminal-session routes, memory and rows
          revoking,  \* sessions the holder of terminalRoutesMu has yet to
                     \* revoke; empty when the lock is free
          rows,      \* proxy_routes
          routes,    \* ProxyRouteHandler.routes
          mu,        \* the call that holds h.mu between row and map, or None
          call,      \* POST requests in progress
          gate,      \* gateway authorisations in progress
          accounts,  \* accounts that exist
          removing,  \* accounts deleted from SQLite, not yet revoked
          cands,     \* recovery candidates of each connected worker
          online,    \* workers whose connection supports the proxy
          pruned,    \* time of a pruning whose rows are deleted, or None
          gone,      \* keys of routes that an operation removed
          now

vars == <<table, revoking, rows, routes, mu, call, gate, accounts,
          removing, cands, online, pruned, gone, now>>

(* proxyRouteRecord; the port and the two spellings of the session id are  *)
(* the caller's and are left out.                                          *)
Record == [owner : Owners, session : Sessions, node : Nodes,
           created : 0..MaxTime, expires : Nat]

ASSUME PreviewAssumption ==
    /\ \A s \in Sessions : OwnerOf(s) \in Owners
    /\ None \notin Record \cup Calls \cup Nat
    /\ IsFiniteSet(Keys) /\ MaxTime \in Nat
    /\ ProxyTTL \in Nat \ {0} /\ TokenTTL \in Nat /\ LeaseTTL \in Nat \ {0}
    /\ MaxPerAccount \in Nat \ {0} /\ MaxPerSession \in Nat \ {0}

Idle == [pc |-> "idle"]
NoLeases == [s \in Sessions |-> 0]

Init ==
    /\ table = EmptyTable /\ revoking = {}
    /\ rows = [k \in Keys |-> None] /\ routes = [k \in Keys |-> None]
    /\ mu = None
    /\ call = [c \in Calls |-> Idle] /\ gate = [g \in Gateways |-> Idle]
    /\ accounts = Owners /\ removing = {}
    /\ cands = [n \in Nodes |-> NoLeases] /\ online = Nodes
    /\ pruned = None /\ gone = {}
    /\ now = 0

-----------------------------------------------------------------------------
(* The rows.                                                               *)

(* Both foreign keys of proxy_routes.                                      *)
Referenced(r, terminal, accts) ==
    /\ r.owner \in accts
    /\ terminal[r.session] # NoRow /\ terminal[r.session].node = r.node

Cascade(terminal, accts) ==
    [k \in Keys |-> IF rows[k] # None /\ Referenced(rows[k], terminal, accts)
                    THEN rows[k] ELSE None]

(* DELETE FROM proxy_routes WHERE expires_at_unix_ms <= ?                  *)
DeleteExpiredProxyRoutes(rs, t) ==
    [k \in Keys |-> IF rs[k] # None /\ rs[k].expires <= t THEN None ELSE rs[k]]

(* What Store.InsertProxyRoute demands of the terminal row.                *)
TerminalRowAccepts(s, n, created) ==
    /\ table.rows[s] # NoRow
    /\ table.rows[s].node = n
    /\ table.rows[s].lease > created

-----------------------------------------------------------------------------
(* The map of the handler.                                                 *)

PruneLocked(t) ==
    [k \in Keys |-> IF routes[k] # None /\ routes[k].expires <= t
                    THEN None ELSE routes[k]]

(* The map after dropping the keys of K, and the keys that went missing.   *)
Without(rs, K) == [k \in Keys |-> IF k \in K THEN None ELSE rs[k]]

Missing(rs) == {k \in Keys : routes[k] # None /\ rs[k] = None}

SetRoutes(rs) == routes' = rs /\ gone' = gone \cup Missing(rs)

KeysOfSession(s) == {k \in Keys : routes[k] # None /\ routes[k].session = s}
KeysOfOwner(o) == {k \in Keys : routes[k] # None /\ routes[k].owner = o}

-----------------------------------------------------------------------------
(* The terminal routes.  Every function of terminal_session_routes.go runs *)
(* under terminalRoutesMu: the table changes, SQLite drops the preview     *)
(* rows of the deleted terminal rows, and the lock is kept until the       *)
(* sessions that lost their route are revoked one by one.                  *)

(* Mistake: a route is dropped and its previews are not revoked.           *)
LostUnrevoked(t) == {}

(* The sessions deleteTerminalSessionRouteLocked is called for.            *)
Lost(t) == {s \in Sessions : HasRoute(table, s) /\ ~HasRoute(t, s)}

(* The terminal session of a record has a confirmed route to its worker.   *)
Confirmed(t, r) == RoutedTo(t, r.session, r.node) /\ ~Provisional(t, r.session)

(* History: when the terminal route of a request that found it ended last. *)
Watched(t) ==
    [g \in Gateways |->
        IF /\ gate[g].pc \in {"mapped", "granted"}
           /\ Confirmed(table, gate[g].record) /\ ~Confirmed(t, gate[g].record)
          THEN [gate[g] EXCEPT !.ended = now] ELSE gate[g]]

UnderRoutesLock(t) ==
    /\ revoking = {}
    /\ table' = t
    /\ revoking' = Lost(t)
    /\ rows' = Cascade(t.rows, accounts)
    /\ gate' = Watched(t)

StoreWorks(ok) == ok \/ "store" \in Faults

(* RevokeSessionRoutes, called by deleteTerminalSessionRouteLocked.        *)
RevokeSessionRoutes(s) ==
    /\ s \in revoking /\ mu = None
    /\ SetRoutes(Without(routes, KeysOfSession(s)))
    /\ revoking' = revoking \ {s}
    /\ UNCHANGED <<table, rows, mu, call, gate, accounts,
                   removing, cands, online, pruned, now>>

(* A terminal command reserves a route and its success confirms it.        *)
ReserveSession(s, n) ==
    /\ n \in online /\ table.seq < MaxReservations /\ ~HasRoute(table, s)
    /\ UnderRoutesLock(ReserveRoute(table, s, n, now))
    /\ UNCHANGED <<routes, mu, call, accounts,
                   removing, cands, online, pruned, gone, now>>

ConfirmSession(s) ==
    /\ HasRoute(table, s)
    /\ LET r == table.routes[s] IN
       /\ r.node \in online /\ r.lease < now + LeaseTTL
       /\ UnderRoutesLock(CommitRoute(table, s, r.node, r.res, now + LeaseTTL,
                                      now))
    /\ UNCHANGED <<routes, mu, call, accounts,
                   removing, cands, online, pruned, gone, now>>

(* A dispatch that ends without an answer after its command was sent, or a *)
(* terminalResource command, confirms the route in memory only: there is   *)
(* no lease yet, and no row.                                               *)
ConfirmInMemory(s) ==
    /\ Provisional(table, s)
    /\ LET r == table.routes[s] IN
       UnderRoutesLock(ConfirmRoute(table, s, r.node, r.res, now))
    /\ UNCHANGED <<routes, mu, call, accounts,
                   removing, cands, online, pruned, gone, now>>

(* DeleteTerminalSession and the answer session_not_found both clear the   *)
(* route; the pruner deletes the expired ones.                             *)
ClearSession(s, ok) ==
    /\ HasRoute(table, s) /\ StoreWorks(ok)
    /\ UnderRoutesLock(ClearRoute(table, s, table.routes[s].node, ok))
    /\ UNCHANGED <<routes, mu, call, accounts,
                   removing, cands, online, pruned, gone, now>>

PruneSessions(ok) ==
    /\ StoreWorks(ok)
    /\ UnderRoutesLock(PruneRoutes(table, now, ok))
    /\ UNCHANGED <<routes, mu, call, accounts,
                   removing, cands, online, pruned, gone, now>>

(* The worker's connection ends, comes back and reports what it recovered. *)
WorkerLost(n) ==
    /\ "offline" \in Faults /\ (n \in online \/ cands[n] # NoLeases)
    /\ UnderRoutesLock(MarkUnavailable(table, n))
    /\ online' = online \ {n}
    /\ cands' = [cands EXCEPT ![n] = NoLeases]
    /\ UNCHANGED <<routes, mu, call, accounts, removing, pruned, gone, now>>

WorkerConnects(n) ==
    /\ n \notin online /\ cands[n] = NoLeases
    /\ UnderRoutesLock(BeginRecovery(table, n, now))
    /\ cands' = [cands EXCEPT ![n] = CandidateLeases(table, n, now)]
    /\ online' = IF cands'[n] = NoLeases THEN online \cup {n} ELSE online
    /\ UNCHANGED <<routes, mu, call, accounts,
                   removing, pruned, gone, now>>

WorkerRecovers(n, recovered) ==
    /\ cands[n] # NoLeases
    /\ UnderRoutesLock(ApplyRecovery(table, n, cands[n], recovered, now))
    /\ online' = online \cup {n}
    /\ cands' = [cands EXCEPT ![n] = NoLeases]
    /\ UNCHANGED <<routes, mu, call, accounts,
                   removing, pruned, gone, now>>

(* DeleteProvisionedWorker removes the worker's routes and nothing else    *)
(* under the lock.  The rows of the worker go next and its connection      *)
(* last: until then, and for a connection that was authenticated before,   *)
(* the worker still takes commands, which is what ReserveSession,          *)
(* WorkerLost and WorkerConnects say of any worker.                        *)
RemoveWorkerRoutes(n) ==
    /\ "removal" \in Faults
    /\ \E s \in Sessions : RoutedTo(table, s, n)
    /\ UnderRoutesLock(DeleteRoutesByNode(table, n))
    /\ UNCHANGED <<routes, mu, call, accounts, removing, cands, online, pruned,
                   gone, now>>

-----------------------------------------------------------------------------
(* proxyTerminalSessionWorker and sessionSupportsProxy.  The pruning that  *)
(* precedes the look-up is rate limited and is the action PruneSessions.   *)

ProxyWorkerIs(s, n, at) ==
    /\ SnapshotFinds(table, s, at)
    /\ table.routes[s].node = n
    /\ table.routes[s].res = 0
    /\ table.routes[s].state = "ready"

SupportsProxy(n) == n \in online

(* The snapshot deletes a route whose lease has run out, and finds nothing.*)
SnapshotExpired(s, ok) ==
    /\ HasRoute(table, s) /\ ~SnapshotFinds(table, s, now) /\ StoreWorks(ok)
    /\ UnderRoutesLock(SnapshotRoute(table, s, now, ok))
    /\ UNCHANGED <<routes, mu, call, accounts,
                   removing, cands, online, pruned, gone, now>>

-----------------------------------------------------------------------------
(* POST: Create resolves the session without h.mu, the route under         *)
(* terminalRoutesMu and the connection afterwards; createRoute takes h.mu, *)
(* prunes, counts, inserts the row and files the record.                   *)

ResolveProxySession(c, s, n) ==
    /\ call[c] = Idle /\ revoking = {}
    /\ ProxyWorkerIs(s, n, now)
    /\ call' = [call EXCEPT ![c] = [pc |-> "mapped", session |-> s, node |-> n]]
    /\ UNCHANGED <<table, revoking, rows, routes, mu, gate, accounts, removing,
                   cands, online, pruned, gone, now>>

CheckConnection(c) ==
    /\ call[c].pc = "mapped"
    /\ call' = [call EXCEPT ![c] =
                   IF SupportsProxy(call[c].node)
                     THEN [pc |-> "resolved", session |-> call[c].session,
                           node |-> call[c].node, at |-> now]
                     ELSE Idle]
    /\ UNCHANGED <<table, revoking, rows, routes, mu, gate, accounts, removing,
                   cands, online, pruned, gone, now>>

AccountFull(rs, o) ==
    Cardinality({k \in Keys : rs[k] # None /\ rs[k].owner = o}) >= MaxPerAccount

(* Mistake: the limit is off by one.                                       *)
SessionOverfull(rs, s) ==
    Cardinality({k \in Keys : rs[k] # None /\ rs[k].session = s}) > MaxPerSession

SessionFull(rs, s) ==
    Cardinality({k \in Keys : rs[k] # None /\ rs[k].session = s}) >= MaxPerSession

NewRecord(q) == [owner |-> OwnerOf(q.session), session |-> q.session,
                 node |-> q.node, created |-> q.at,
                 expires |-> q.at + ProxyTTL]

(* A key is taken when it is in the map, or when ON CONFLICT DO NOTHING    *)
(* makes the insertion a no-op because a row has it.                       *)
Drawable(rs) == {k \in Keys : rs[k] = None /\ rows[k] = None}

(* The insertion fails at its foreign keys or at the terminal row's check, *)
(* or every one of the eight keys drawn is taken.                          *)
InsertRefused(q, rs) ==
    \/ ~TerminalRowAccepts(q.session, q.node, q.at)
    \/ OwnerOf(q.session) \notin accounts
    \/ Drawable(rs) # Keys
    \/ "store" \in Faults

InsertRow(c) ==
    LET q  == call[c]
        rs == PruneLocked(q.at)
        s  == q.session IN
    /\ q.pc = "resolved" /\ mu = None
    /\ ~AccountFull(rs, OwnerOf(s)) /\ ~SessionFull(rs, s)
    /\ TerminalRowAccepts(s, q.node, q.at) /\ OwnerOf(s) \in accounts
    /\ \E k \in Drawable(rs) :
         /\ rows' = [rows EXCEPT ![k] = NewRecord(q)]
         /\ call' = [call EXCEPT ![c] = [pc |-> "inserted", key |-> k,
                                         record |-> NewRecord(q)]]
         /\ gone' = (gone \cup Missing(rs)) \ {k}
    /\ routes' = rs
    /\ mu' = c
    /\ UNCHANGED <<table, revoking, gate, accounts,
                   removing, cands, online, pruned, now>>

Unlock == mu' = None

FileRoute(c) ==
    /\ call[c].pc = "inserted"
    /\ routes' = [routes EXCEPT ![call[c].key] = call[c].record]
    /\ Unlock
    /\ call' = [call EXCEPT ![c] = Idle]
    /\ UNCHANGED <<table, revoking, rows, gate, accounts,
                   removing, cands, online, pruned, gone, now>>

RefuseCreation(c) ==
    LET q  == call[c]
        rs == PruneLocked(q.at) IN
    /\ q.pc = "resolved" /\ mu = None
    /\ \/ AccountFull(rs, OwnerOf(q.session))
       \/ SessionFull(rs, q.session)
       \/ InsertRefused(q, rs)
    /\ SetRoutes(rs)
    /\ call' = [call EXCEPT ![c] = Idle]
    /\ UNCHANGED <<table, revoking, rows, mu, gate,
                   accounts, removing, cands, online, pruned, now>>

-----------------------------------------------------------------------------
(* GET and DELETE.                                                         *)

List ==
    /\ mu = None /\ PruneLocked(now) # routes
    /\ SetRoutes(PruneLocked(now))
    /\ UNCHANGED <<table, revoking, rows, mu, call, gate,
                   accounts, removing, cands, online, pruned, now>>

(* Mistake: the route leaves the map only.                                 *)
KeepRow(k, ok) == rows

(* DELETE ... WHERE route_key = ? AND owner_id = ?                         *)
DeleteRow(k, ok) == IF ok THEN [rows EXCEPT ![k] = None] ELSE rows

(* deleteRoute: the row first; a store failure leaves the route in place.  *)
Delete(o, k, ok) ==
    LET rs == PruneLocked(now) IN
    /\ mu = None /\ StoreWorks(ok)
    /\ rs[k] # None /\ rs[k].owner = o
    /\ SetRoutes(IF ok THEN Without(rs, {k}) ELSE rs)
    /\ rows' = DeleteRow(k, ok)
    /\ UNCHANGED <<table, revoking, mu, call, gate,
                   accounts, removing, cands, online, pruned, now>>

(* PruneExpired, once a minute: rows, then the map at the same time.       *)
PruneRows ==
    /\ pruned = None
    /\ rows' = DeleteExpiredProxyRoutes(rows, now)
    /\ rows' # rows \/ PruneLocked(now) # routes
    /\ pruned' = now
    /\ UNCHANGED <<table, revoking, routes, mu, call,
                   gate, accounts, removing, cands, online, gone, now>>

PruneMap ==
    /\ pruned # None /\ mu = None
    /\ SetRoutes(PruneLocked(pruned))
    /\ pruned' = None
    /\ UNCHANGED <<table, revoking, rows, mu, call, gate,
                   accounts, removing, cands, online, now>>

-----------------------------------------------------------------------------
(* The gateway's authorisation: getRoute under h.mu, then                  *)
(* AuthorizeProxyRoute, which reads the clock, the terminal route under    *)
(* terminalRoutesMu and the connection, one after the other.               *)

GetRoute(g, k) ==
    LET rs == PruneLocked(now) IN
    /\ gate[g] = Idle /\ mu = None /\ rs[k] # None
    /\ SetRoutes(rs)
    /\ gate' = [gate EXCEPT ![g] = [pc |-> "found", record |-> rs[k],
                                    at |-> now, ended |-> None]]
    /\ UNCHANGED <<table, revoking, rows, mu, call, accounts, removing, cands,
                   online, pruned, now>>

(* Mistake: the record read before h.mu was released is trusted.           *)
UnexpiredRecord(r, at) == r.expires > at

Authorized(r, at) == r.expires > at /\ ProxyWorkerIs(r.session, r.node, at)

(* The clock was read at some time before terminalRoutesMu was taken.      *)
AuthorizeProxyRoute(g) ==
    /\ gate[g].pc = "found" /\ revoking = {}
    /\ \E at \in gate[g].at .. now :
         gate' = [gate EXCEPT ![g] =
                    IF Authorized(gate[g].record, at)
                      THEN [gate[g] EXCEPT !.pc = "mapped", !.at = at] ELSE Idle]
    /\ UNCHANGED <<table, revoking, rows, routes, mu, call, accounts, removing,
                   cands, online, pruned, gone, now>>

Earlier(a, b) == IF a < b THEN a ELSE b

(* The expiry a token is signed with.                                      *)
TokenExpiry(q) == Earlier(q.at + TokenTTL, q.record.expires)

(* The mode, direct or by token, is what the hello of the connection said. *)
(* authorizeDirectProxyRoute waits for its terminalProxy command, which    *)
(* may answer or fail at any later time and hands out no token.            *)
SignToken(g) ==
    /\ gate[g].pc = "mapped"
    /\ \/ /\ SupportsProxy(gate[g].record.node)
          /\ gate' = [gate EXCEPT ![g].pc = "granted"]
       \/ gate' = [gate EXCEPT ![g] = Idle]
    /\ UNCHANGED <<table, revoking, rows, routes, mu, call, accounts, removing,
                   cands, online, pruned, gone, now>>

(* The gateway is done with the token.                                     *)
Respond(g) ==
    /\ gate[g].pc = "granted"
    /\ gate' = [gate EXCEPT ![g] = Idle]
    /\ UNCHANGED <<table, revoking, rows, routes, mu, call, accounts, removing,
                   cands, online, pruned, gone, now>>

-----------------------------------------------------------------------------
(* DeleteAccount: SQLite first, RevokeOwnerRoutes next.  A JIT account has *)
(* an id derived from its token and can be created again.                  *)

DeleteAccount(o) ==
    /\ "removal" \in Faults /\ o \in accounts
    /\ accounts' = accounts \ {o}
    /\ rows' = Cascade(table.rows, accounts')
    /\ removing' = removing \cup {o}
    /\ UNCHANGED <<table, revoking, routes, mu, call,
                   gate, cands, online, pruned, gone, now>>

RevokeOwnerRoutes(o) ==
    /\ o \in removing /\ mu = None
    /\ SetRoutes(Without(routes, KeysOfOwner(o)))
    /\ removing' = removing \ {o}
    /\ UNCHANGED <<table, revoking, rows, mu, call, gate,
                   accounts, cands, online, pruned, now>>

(* Fault "recreate": the account comes back before it is revoked.          *)
EnsureJITAccount(o) ==
    /\ o \notin accounts /\ (o \in removing => "recreate" \in Faults)
    /\ accounts' = accounts \cup {o}
    /\ UNCHANGED <<table, revoking, rows, routes, mu,
                   call, gate, removing, cands, online, pruned, gone, now>>

-----------------------------------------------------------------------------
(* The console stops at any point and starts again: the terminal routes    *)
(* are restored first, the preview routes from what SQLite still holds.    *)

Restore(rs) == DeleteExpiredProxyRoutes(rs, now)

RestartConsole ==
    LET t == RestoreTerminalSessionRoutes(table, now) IN
    /\ "crash" \in Faults
    /\ table' = t /\ revoking' = {}
    /\ rows' = Restore(Cascade(t.rows, accounts))
    /\ routes' = rows'
    /\ mu' = None
    /\ call' = [c \in Calls |-> Idle] /\ gate' = [g \in Gateways |-> Idle]
    /\ cands' = [n \in Nodes |-> NoLeases] /\ online' = {}
    /\ removing' = {} /\ pruned' = None
    /\ UNCHANGED <<accounts, gone, now>>

Tick ==
    /\ now < MaxTime
    /\ now' = now + 1
    /\ UNCHANGED <<table, revoking, rows, routes, mu,
                   call, gate, accounts, removing, cands, online, pruned,
                   gone>>

Next ==
    \/ \E s \in Sessions : \/ RevokeSessionRoutes(s)
                           \/ ConfirmSession(s) \/ ConfirmInMemory(s)
                           \/ \E ok \in BOOLEAN : ClearSession(s, ok)
                           \/ \E ok \in BOOLEAN : SnapshotExpired(s, ok)
                           \/ \E n \in Nodes : ReserveSession(s, n)
    \/ \E ok \in BOOLEAN : PruneSessions(ok)
    \/ \E n \in Nodes : \/ WorkerLost(n) \/ WorkerConnects(n)
                        \/ RemoveWorkerRoutes(n)
                        \/ \E R \in SUBSET Sessions : WorkerRecovers(n, R)
    \/ \E c \in Calls : \/ \E s \in Sessions, n \in Nodes :
                             ResolveProxySession(c, s, n)
                        \/ CheckConnection(c) \/ InsertRow(c) \/ FileRoute(c) \/ RefuseCreation(c)
    \/ List \/ PruneRows \/ PruneMap
    \/ \E o \in Owners : \/ \E k \in Keys, ok \in BOOLEAN : Delete(o, k, ok)
                         \/ DeleteAccount(o) \/ RevokeOwnerRoutes(o)
                         \/ EnsureJITAccount(o)
    \/ \E g \in Gateways : \/ \E k \in Keys : GetRoute(g, k)
                           \/ AuthorizeProxyRoute(g) \/ SignToken(g)
                           \/ Respond(g)
    \/ RestartConsole
    \/ Tick

Spec == Init /\ [][Next]_vars

-----------------------------------------------------------------------------
(* Types.                                                                  *)
TypeOK ==
    /\ table \in Table /\ TableConsistent(table)
    /\ revoking \subseteq Sessions /\ removing \subseteq Owners
    /\ accounts \subseteq Owners /\ online \subseteq Nodes
    /\ \A k \in Keys : /\ rows[k] \in Record \cup {None}
                       /\ routes[k] \in Record \cup {None}
    /\ mu \in Calls \cup {None}
    /\ mu # None => call[mu].pc = "inserted"
    /\ \A c \in Calls : call[c].pc = "inserted" => mu = c

(* createRoute counts under h.mu, and Restore loads only what was counted  *)
(* once: no account and no session ever holds more active routes than      *)
(* CONSOLE_PROXY_ROUTE_MAX_PER_ACCOUNT and ..._PER_SESSION, not even after *)
(* a restart.                                                              *)
LimitsKept ==
    LET active == {k \in Keys : routes[k] # None /\ routes[k].expires > now} IN
    /\ \A o \in Owners :
         Cardinality({k \in active : routes[k].owner = o}) <= MaxPerAccount
    /\ \A s \in Sessions :
         Cardinality({k \in active : routes[k].session = s}) <= MaxPerSession

(* A route that the gateway can still find is backed by its row, hence by  *)
(* an existing account and a persisted terminal route on the same worker,  *)
(* unless the operation that deleted the row is about to revoke it.        *)
RoutesPersisted ==
    \A k \in Keys :
        routes[k] # None /\ routes[k].expires > now =>
            \/ rows[k] = routes[k]
            \/ routes[k].session \in revoking
            \/ routes[k].owner \in removing

(* A route that was deleted, revoked or pruned is never found again under  *)
(* its key, not even after a restart: no removal leaves a row behind that  *)
(* Restore would bring back.                                               *)
RemovedStaysRemoved == \A k \in gone : routes[k] = None

(* A token outlives the terminal route it was signed for by no more than   *)
(* proxyRouteTokenTTL, whatever happens between the reading of the preview *)
(* route, of the clock, of the terminal route and of the connection: the   *)
(* terminal session still has its confirmed route to the worker the token  *)
(* names, or had it while the request was served and the token ends within *)
(* that time after the route did.  No token outlives its preview route.    *)
GrantsBacked ==
    \A g \in Gateways : gate[g].pc = "granted" =>
        LET r == gate[g].record IN
        /\ \/ Confirmed(table, r)
           \/ /\ gate[g].ended # None
              /\ TokenExpiry(gate[g]) <= gate[g].ended + TokenTTL
        /\ TokenExpiry(gate[g]) <= r.expires

=============================================================================
