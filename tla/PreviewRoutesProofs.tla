------------------------ MODULE PreviewRoutesProofs ------------------------
(***************************************************************************)
(* What PreviewRoutes keeps, for any keys, accounts, sessions, workers,    *)
(* requests and limits: a route that can be found has its row, a removed   *)
(* route stays removed, the limits hold across restarts, and no token      *)
(* outlives its terminal route by more than its own lifetime.              *)
(***************************************************************************)
EXTENDS PreviewRoutes, RouteTableProofs

(* The requests that are between their row and the map, for the key k.     *)
Filing(k) == {c \in Calls : call[c].pc = "inserted" /\ call[c].key = k}

(* The unexpired records that stand, or are about to stand, under a key.   *)
Live(k) ==
    {r \in {rows[k], routes[k]} \cup {call[c].record : c \in Filing(k)} :
        r # None /\ r.expires > now}

OwnerKeys(o) == {k \in Keys : \E r \in Live(k) : r.owner = o}
SessionKeys(s) == {k \in Keys : \E r \in Live(k) : r.session = s}

Mapping == [pc : {"mapped"}, session : Sessions, node : Nodes]
Resolved == [pc : {"resolved"}, session : Sessions, node : Nodes, at : 0 .. MaxTime]
Inserted == [pc : {"inserted"}, key : Keys, record : Record]

CallShape(c) ==
    /\ call[c].pc \in {"idle", "mapped", "resolved", "inserted"}
    /\ call[c].pc = "mapped" => call[c] \in Mapping
    /\ call[c].pc = "resolved" => call[c] \in Resolved /\ call[c].at <= now
    /\ call[c].pc = "inserted" => call[c] \in Inserted /\ mu = c

(* The leases of a row and of its route are the same.                      *)
LeasesExact(t) ==
    \A s \in Sessions : t.rows[s] # NoRow => t.rows[s].lease = t.routes[s].lease

TableShaped ==
    /\ TableConsistent(table) /\ LeasesExact(table)
    /\ revoking \subseteq Sessions

WorkersShaped ==
    online \subseteq Nodes /\ DOMAIN cands = Nodes

AccountsShaped == removing \subseteq Owners /\ accounts \subseteq Owners

MapsShaped ==
    /\ rows \in [Keys -> Record \cup {None}]
    /\ routes \in [Keys -> Record \cup {None}]
    /\ gone \subseteq Keys

CallsShaped ==
    /\ call \in [Calls -> [pc : {"idle"}] \cup Mapping \cup Resolved \cup Inserted]
    /\ \A c \in Calls : CallShape(c)
    /\ mu \in Calls \cup {None} /\ (mu # None => call[mu].pc = "inserted")

ClockShaped ==
    /\ now \in 0 .. MaxTime
    /\ pruned \in Nat \cup {None} /\ (pruned # None => pruned <= now)

Shaped ==
    /\ TableShaped /\ WorkersShaped /\ AccountsShaped /\ MapsShaped
    /\ CallsShaped /\ ClockShaped

(* The foreign keys of proxy_routes, and the sessions being revoked, which *)
(* have no terminal row any more.                                          *)
RowsReferenced ==
    /\ \A k \in Keys : rows[k] # None => Referenced(rows[k], table.rows, accounts)
    /\ \A s \in revoking : table.rows[s] = NoRow

(* A record is in the map, or about to be filed there.                     *)
Backed(r, k) ==
    r.expires > now => \/ rows[k] = r
                       \/ r.session \in revoking
                       \/ r.owner \in removing

KeyInv(k) ==
    /\ rows[k] # None /\ routes[k] # None => rows[k] = routes[k]
    /\ routes[k] # None => Backed(routes[k], k)
    /\ \A c \in Filing(k) : /\ routes[k] = None
                            /\ rows[k] \in {None, call[c].record}
                            /\ Backed(call[c].record, k)

(* Unless a deleted account is made anew before it is revoked: a row that  *)
(* Restore would load is in the map or about to be, no removed key is, and *)
(* the limits count the rows too.                                          *)
RowsLoaded ==
    \A k \in Keys : rows[k] # None /\ rows[k].expires > now =>
                       routes[k] = rows[k] \/ Filing(k) # {}

GoneAbsent == \A k \in gone : routes[k] = None /\ Filing(k) = {}

(* The counting of keys: a fact about the constant Keys.                   *)
KeysCountable ==
    /\ Cardinality({}) = 0
    /\ \A B \in SUBSET Keys :
         /\ Cardinality(B) \in Nat
         /\ \A A \in SUBSET B : Cardinality(A) <= Cardinality(B)
         /\ \A k \in Keys : Cardinality(B \cup {k}) <= Cardinality(B) + 1

WithinLimits ==
    /\ KeysCountable
    /\ \A o \in Owners : Cardinality(OwnerKeys(o)) <= MaxPerAccount
    /\ \A s \in Sessions : Cardinality(SessionKeys(s)) <= MaxPerSession

Exact == removing \cap accounts = {} /\ RowsLoaded /\ GoneAbsent /\ WithinLimits

IInv ==
    /\ Shaped
    /\ RowsReferenced
    /\ \A k \in Keys : KeyInv(k)
    /\ "recreate" \notin Faults => Exact

-----------------------------------------------------------------------------
(* A session that loses its terminal row, or whose row moves, loses its    *)
(* route too, so that it is revoked; the leases stay the same.             *)
Follows(t, u) ==
    \A s \in Sessions :
       /\ u.rows[s] # NoRow => u.rows[s].lease = u.routes[s].lease
       /\ t.rows[s] # NoRow =>
            \/ u.rows[s] # NoRow /\ u.rows[s].node = t.rows[s].node
            \/ HasRoute(t, s) /\ ~HasRoute(u, s)

Stays(t, u, s) ==
    /\ u.rows[s] = t.rows[s]
    /\ t.rows[s] # NoRow => u.routes[s].lease = t.routes[s].lease

Goes(u, s) == u.rows[s] = NoRow /\ ~HasRoute(u, s)

(* What is known of a session that has a row.                              *)
LEMMA RowFacts ==
    ASSUME NEW t, TableConsistent(t), NEW s \in Sessions, t.rows[s] # NoRow
    PROVE  /\ t.rows[s] \in Row /\ t.routes[s] \in Route /\ HasRoute(t, s)
           /\ t.routes[s].node = t.rows[s].node /\ t.routes[s].res = 0
           /\ t.rows[s].lease > 0
<1>1. RoutedTo(t, s, t.rows[s].node) /\ t.routes[s].res = 0 /\ t.rows[s].lease > 0
  BY Zenon DEF TableConsistent, RowsBacked
<1>2. t.rows \in [Sessions -> Row \cup {NoRow}]
      /\ t.routes \in [Sessions -> Route \cup {NoRoute}]
  BY Zenon DEF TableConsistent, Table
<1> QED BY <1>1, <1>2, Zenon DEF RoutedTo, HasRoute

(* A table follows another if every session's route and row stay or go.    *)
LEMMA StaysOrGoes ==
    ASSUME NEW t, TableConsistent(t), LeasesExact(t), NEW u,
           \A s \in Sessions : Stays(t, u, s) \/ Goes(u, s)
    PROVE  Follows(t, u)
<1> SUFFICES ASSUME NEW s \in Sessions
             PROVE  /\ u.rows[s] # NoRow => u.rows[s].lease = u.routes[s].lease
                    /\ t.rows[s] # NoRow =>
                         \/ u.rows[s] # NoRow /\ u.rows[s].node = t.rows[s].node
                         \/ HasRoute(t, s) /\ ~HasRoute(u, s)
  BY Zenon DEF Follows
<1>1. t.rows[s] # NoRow => HasRoute(t, s)
  BY RowFacts, Zenon
<1> QED BY <1>1, Zenon DEF Stays, Goes, LeasesExact

(* The claim of a free session, and the two confirmations.                 *)
LEMMA ReserveFollows ==
    ASSUME NEW t, TableConsistent(t), LeasesExact(t), NEW s \in Sessions,
           NEW n \in Nodes, NEW now0 \in Nat, ~HasRoute(t, s)
    PROVE  Follows(t, ReserveRoute(t, s, n, now0))
<1> DEFINE u == ReserveRoute(t, s, n, now0)
<1>1. t.rows[s] = NoRow /\ t.routes \in [Sessions -> Route \cup {NoRoute}]
  BY RowFacts, Zenon DEF TableConsistent, Table
<1>2. u.rows = t.rows /\ \A v \in Sessions : v # s => u.routes[v] = t.routes[v]
  BY <1>1, Zenon DEF ReserveRoute
<1> HIDE DEF u
<1>3. \A v \in Sessions : Stays(t, u, v)
  BY <1>1, <1>2, Zenon DEF Stays
<1> QED BY <1>3, StaysOrGoes, Zenon DEF u

(* Putting a route with the lease its row has.                             *)
LEMMA PutFollows ==
    ASSUME NEW t, TableConsistent(t), LeasesExact(t), NEW s \in Sessions,
           NEW r, t.rows[s] # NoRow => r.lease = t.routes[s].lease
    PROVE  Follows(t, PutRoute(t, s, r))
<1> DEFINE u == PutRoute(t, s, r)
<1>1. t \in Table
  BY Zenon DEF TableConsistent
<1>2. u.rows = t.rows /\ u.routes = [t.routes EXCEPT ![s] = r]
  BY <1>1, Zenon DEF PutRoute, Table
<1>3. t.routes \in [Sessions -> Route \cup {NoRoute}]
  BY <1>1, Zenon DEF Table
<1> HIDE DEF u
<1>4. \A v \in Sessions : Stays(t, u, v)
  BY <1>2, <1>3, Zenon DEF Stays
<1> QED BY <1>4, StaysOrGoes, Zenon DEF u

(* Confirming a provisional route in memory.                               *)
LEMMA ConfirmFollows ==
    ASSUME NEW t, TableConsistent(t), LeasesExact(t), NEW s \in Sessions,
           Provisional(t, s), NEW now0
    PROVE  Follows(t, ConfirmRoute(t, s, t.routes[s].node, t.routes[s].res, now0))
<1> DEFINE r == [t.routes[s] EXCEPT !.used = now0, !.res = 0,
                                    !.cres = t.routes[s].res, !.uses = 0]
<1>1. t.rows[s] = NoRow
  BY RouteFacts, Zenon DEF Provisional
<1>2. ConfirmRoute(t, s, t.routes[s].node, t.routes[s].res, now0) = PutRoute(t, s, r)
  BY Zenon DEF ConfirmRoute, OwnsRoute, RoutedTo, Provisional
<1> QED BY <1>1, <1>2, PutFollows, Zenon

(* Committing a route with its lease, in memory and in its row.            *)
LEMMA CommitFollows ==
    ASSUME NEW t, TableConsistent(t), LeasesExact(t), NEW s \in Sessions,
           HasRoute(t, s), NEW lease \in Nat, NEW now0 \in Nat
    PROVE  Follows(t, CommitRoute(t, s, t.routes[s].node, t.routes[s].res, lease, now0))
<1> DEFINE o == t.routes[s]
           max == Later(o.lease, lease)
           u == CommitRoute(t, s, o.node, o.res, lease, now0)
<1>1. /\ t \in Table /\ t.routes \in [Sessions -> Route \cup {NoRoute}]
      /\ t.rows \in [Sessions -> Row \cup {NoRow}]
  BY Zenon DEF TableConsistent, Table
<1>2. o.lease \in Nat
  BY RouteFacts, Zenon DEF Route
<1>3. max \in Nat /\ Later(o.lease, max) = max
  BY <1>2, Zenon DEF Later
<1>4. ASSUME NEW v \in Sessions, v # s
      PROVE  u.rows[v] = t.rows[v] /\ u.routes[v] = t.routes[v]
  BY <1>1, <1>4, Zenon DEF CommitRoute, PutRoute, UpsertRow, Table
<1>5. u.routes[s].lease = max
  BY <1>1, RouteFacts DEF CommitRoute, PutRoute, UpsertRow, Table, Route
<1>6. u.rows[s] = IF t.rows[s] = NoRow
                  THEN [node |-> o.node, lease |-> max, used |-> now0]
                  ELSE [node |-> o.node, lease |-> Later(t.rows[s].lease, max),
                        used |-> Later(t.rows[s].used, now0)]
  BY <1>1, Zenon DEF CommitRoute, PutRoute, UpsertRow, Table
<1>7. t.rows[s] # NoRow => t.rows[s].lease = o.lease /\ t.rows[s].node = o.node
  BY RowFacts, Zenon DEF LeasesExact
<1> HIDE DEF u, max
<1>8. u.rows[s].lease = max /\ u.rows[s].node = o.node
  BY <1>3, <1>6, <1>7
<1>9. t.rows[s] # NoRow => u.rows[s] # NoRow
  <2> SUFFICES ASSUME t.rows[s] # NoRow PROVE u.rows[s] # NoRow
    BY Zenon
  <2> DEFINE w == Later(t.rows[s].used, now0)
             l == Later(t.rows[s].lease, max)
  <2>1. t.rows[s] \in Row /\ o.node \in Nodes
    BY RowFacts, Zenon DEF Row
  <2>2. w \in Nat /\ l \in Nat
    BY <1>3, <2>1, Zenon DEF Row, Later
  <2> HIDE DEF w, l
  <2>3. [node |-> o.node, lease |-> l, used |-> w] \in Row
    BY <2>1, <2>2, Zenon DEF Row
  <2> QED BY <1>6, <2>3, RouteTableAssumption, Zenon DEF l, w
<1>10. u.rows[s].lease = u.routes[s].lease
  BY <1>5, <1>8, Zenon
<1>11. ASSUME NEW v \in Sessions
       PROVE  /\ u.rows[v] # NoRow => u.rows[v].lease = u.routes[v].lease
              /\ t.rows[v] # NoRow =>
                    u.rows[v] # NoRow /\ u.rows[v].node = t.rows[v].node
  <2>1. CASE v = s
    BY <1>7, <1>8, <1>9, <1>10, <2>1, Zenon
  <2>2. CASE v # s
    BY <1>4, <2>2, Zenon DEF LeasesExact
  <2> QED BY <2>1, <2>2, Zenon
<1> QED BY <1>11, Zenon DEF Follows, u

(* Routes deleted together with their rows, and others rewritten in place. *)
LEMMA DeletedFollows ==
    ASSUME NEW t, TableConsistent(t), LeasesExact(t),
           NEW S \in SUBSET Sessions, NEW D \in SUBSET S,
           \A s \in S \ D : t.rows[s] = NoRow,
           NEW R \in [Sessions -> Route \cup {NoRoute}],
           \A s \in S : R[s] = NoRoute,
           \A s \in Sessions \ S :
              t.rows[s] # NoRow => R[s].lease = t.routes[s].lease
    PROVE  Follows(t, [DeleteRoutes(DeleteRows(t, D), S) EXCEPT !.routes = R])
<1> DEFINE w == DeleteRows(t, D)
           u == [DeleteRoutes(w, S) EXCEPT !.routes = R]
<1>1. t \in Table /\ t.rows \in [Sessions -> Row \cup {NoRow}]
  BY Zenon DEF TableConsistent, Table
<1>2. w \in Table /\ \A s \in D : w.rows[s] = NoRow
  BY DeleteRowsConsistent DEF TableConsistent
<1>3. \A s \in Sessions \ D : w.rows[s] = t.rows[s]
  BY <1>1, Zenon DEF DeleteRows, Table
<1> HIDE DEF w
<1>4. u.rows = w.rows /\ u.routes = R
  BY <1>2, Zenon DEF DeleteRoutes, Table
<1> HIDE DEF u
<1>5. ASSUME NEW s \in Sessions
      PROVE  Stays(t, u, s) \/ Goes(u, s)
  <2>1. CASE s \in S
    <3>1. u.rows[s] = NoRow
      BY <1>2, <1>3, <1>4, <2>1, Zenon
    <3> QED BY <1>4, <2>1, <3>1, Zenon DEF Goes, HasRoute
  <2>2. CASE s \notin S
    BY <1>3, <1>4, <2>2, Zenon DEF Stays
  <2> QED BY <2>1, <2>2, Zenon
<1> QED BY <1>5, StaysOrGoes, Zenon DEF u, w

(* Deleting routes, and the rows of those that have one.                   *)
LEMMA DroppedFollows ==
    ASSUME NEW t, TableConsistent(t), LeasesExact(t),
           NEW S \in SUBSET Sessions, NEW D \in SUBSET S,
           \A s \in S \ D : t.rows[s] = NoRow
    PROVE  Follows(t, DeleteRoutes(DeleteRows(t, D), S))
<1> DEFINE w == DeleteRows(t, D)
           u == DeleteRoutes(w, S)
<1>1. t \in Table /\ t.routes \in [Sessions -> Route \cup {NoRoute}]
  BY Zenon DEF TableConsistent, Table
<1>2. w \in Table /\ w.routes = t.routes
  BY DeleteRowsConsistent, Zenon DEF TableConsistent
<1>3. \A s \in Sessions : u.routes[s] = IF s \in S THEN NoRoute ELSE t.routes[s]
  BY <1>1, RoutesAfterDelete
<1>4. u.routes \in [Sessions -> Route \cup {NoRoute}] /\ u = [u EXCEPT !.routes = u.routes]
  <2> HIDE DEF w
  <2> QED BY <1>1, <1>2, Zenon DEF DeleteRoutes, Table
<1> HIDE DEF u
<1>5. Follows(t, [u EXCEPT !.routes = u.routes])
  BY <1>3, <1>4, DeletedFollows, Zenon DEF u
<1> QED BY <1>4, <1>5, Zenon DEF u

(* Every table follows itself.                                             *)
LEMMA NothingFollows ==
    ASSUME NEW t, TableConsistent(t), LeasesExact(t)
    PROVE  Follows(t, t)
<1>1. \A s \in Sessions : Stays(t, t, s)
  BY Zenon DEF Stays
<1> QED BY <1>1, StaysOrGoes, Zenon

(* The look-up that drops an expired route.                                *)
LEMMA SnapshotFollows ==
    ASSUME NEW t, TableConsistent(t), LeasesExact(t), NEW s \in Sessions,
           NEW now0, NEW ok
    PROVE  Follows(t, SnapshotRoute(t, s, now0, ok))
<1>1. Follows(t, DeleteRoutes(DeleteRows(t, {s}), {s}))
  BY DroppedFollows, Zenon
<1> QED BY <1>1, NothingFollows, Zenon DEF SnapshotRoute

(* Clearing the route of a session.                                        *)
LEMMA ClearFollows ==
    ASSUME NEW t, TableConsistent(t), LeasesExact(t), NEW s \in Sessions,
           NEW n, NEW ok
    PROVE  Follows(t, ClearRoute(t, s, n, ok))
<1>1. CASE ~RoutedTo(t, s, n) \/ ClearFails(t, s, n, ok)
  BY <1>1, NothingFollows, Zenon DEF ClearRoute
<1>2. CASE RoutedTo(t, s, n) /\ t.routes[s].lease > 0 /\ ~ClearFails(t, s, n, ok)
  <2>1. Follows(t, DeleteRoutes(DeleteRows(t, {s}), {s}))
    BY DroppedFollows, Zenon
  <2> QED BY <1>2, <2>1, Zenon DEF ClearRoute
<1>3. CASE RoutedTo(t, s, n) /\ ~(t.routes[s].lease > 0) /\ ~ClearFails(t, s, n, ok)
  <2>1. t.routes[s] \in Route
    BY <1>3, RouteFacts, Zenon DEF RoutedTo
  <2>2. t.rows[s] = NoRow
    BY <1>3, <2>1, RouteFacts DEF RoutedTo, Route
  <2>3. t \in Table
    BY Zenon DEF TableConsistent
  <2>4. DeleteRows(t, {}) = t
    BY <2>3, Zenon DEF Table, DeleteRows
  <2>5. Follows(t, DeleteRoutes(DeleteRows(t, {}), {s}))
    BY <2>2, DroppedFollows, Zenon
  <2> QED BY <1>3, <2>4, <2>5, Zenon DEF ClearRoute
<1> QED BY <1>1, <1>2, <1>3, Zenon

(* Losing a worker marks its routes.                                       *)
LEMMA MarkFollows ==
    ASSUME NEW t, TableConsistent(t), LeasesExact(t), NEW n \in Nodes
    PROVE  Follows(t, MarkUnavailable(t, n))
<1> DEFINE mine == RoutesOf(t, n)
           S == {s \in mine : t.routes[s].res # 0}
           u == DeleteRoutes(DeleteRows(t, {}), S)
           F(s) == [t.routes[s] EXCEPT !.state = "unavailable"]
           R == [s \in Sessions |->
                   IF s \in mine /\ t.routes[s].res = 0 THEN F(s)
                   ELSE u.routes[s]]
<1>1. t \in Table /\ t.routes \in [Sessions -> Route \cup {NoRoute}]
  BY Zenon DEF TableConsistent, Table
<1>2. DeleteRows(t, {}) = t
  BY <1>1, Zenon DEF Table, DeleteRows
<1>3. MarkUnavailable(t, n) = [u EXCEPT !.routes = R]
  BY <1>2, Zenon DEF MarkUnavailable
<1>4. mine \in SUBSET Sessions /\ \A s \in mine : HasRoute(t, s)
  BY RoutesOfFacts, Zenon DEF RoutedTo
<1> HIDE DEF mine
<1>5. S \in SUBSET Sessions /\ \A s \in S : t.rows[s] = NoRow
  BY <1>4, RouteFacts, Zenon
<1>6. \A s \in Sessions :
         u.routes[s] = IF s \in S THEN NoRoute ELSE t.routes[s]
  <2> HIDE DEF S
  <2> QED BY <1>1, <1>5, RoutesAfterDelete
<1> HIDE DEF u
<1>7. ASSUME NEW s \in Sessions, HasRoute(t, s)
      PROVE  F(s) \in Route /\ F(s).lease = t.routes[s].lease
  <2>1. t.routes[s] \in Route
    BY <1>7, RouteFacts, Zenon
  <2> QED BY <2>1, Zenon DEF Route, RecoveryStates
<1> HIDE DEF F
<1>8. R \in [Sessions -> Route \cup {NoRoute}]
  BY <1>1, <1>4, <1>6, <1>7, Zenon
<1>9. \A s \in S : R[s] = NoRoute
  BY <1>5, <1>6, Zenon
<1>10. \A s \in Sessions \ S : t.rows[s] # NoRow => R[s].lease = t.routes[s].lease
  BY <1>4, <1>6, <1>7, Zenon
<1> HIDE DEF R, S
<1>11. Follows(t, [u EXCEPT !.routes = R])
  BY <1>5, <1>8, <1>9, <1>10, DeletedFollows, Zenon DEF u
<1> QED BY <1>3, <1>11, Zenon

(* The start of a worker's recovery.                                       *)
LEMMA BeginFollows ==
    ASSUME NEW t, TableConsistent(t), LeasesExact(t), NEW n \in Nodes,
           NEW now0 \in Nat
    PROVE  Follows(t, BeginRecovery(t, n, now0))
<1> DEFINE can == RecoveryCandidates(t, n, now0)
           S == RecoveryExpired(t, n, now0)
           u == DeleteRoutes(DeleteRows(t, S), S)
           F(s) == [t.routes[s] EXCEPT !.lease = EffectiveLease(t.routes[s]),
                                       !.state = "reconciling"]
           R == [s \in Sessions |-> IF s \in can THEN F(s) ELSE u.routes[s]]
<1>1. t \in Table /\ t.routes \in [Sessions -> Route \cup {NoRoute}]
  BY Zenon DEF TableConsistent, Table
<1>2. BeginRecovery(t, n, now0) = [u EXCEPT !.routes = R]
  BY Zenon DEF BeginRecovery
<1>3. /\ can \in SUBSET Sessions /\ S \in SUBSET Sessions
      /\ \A s \in can : HasRoute(t, s) /\ s \notin S
  BY RoutesOfFacts, Zenon DEF RecoveryCandidates, RecoveryExpired, RoutedTo
<1> HIDE DEF can, S
<1>4. \A s \in Sessions :
         u.routes[s] = IF s \in S THEN NoRoute ELSE t.routes[s]
  BY <1>1, <1>3, RoutesAfterDelete
<1> HIDE DEF u
<1>5. ASSUME NEW s \in Sessions, HasRoute(t, s)
      PROVE  /\ F(s) \in Route
             /\ t.rows[s] # NoRow => F(s).lease = t.routes[s].lease
  <2> DEFINE e == EffectiveLease(t.routes[s])
  <2>1. t.routes[s] \in Route /\ (t.routes[s].lease = 0 => t.rows[s] = NoRow)
    BY <1>5, RouteFacts, Zenon
  <2>2. e \in Nat /\ (t.rows[s] # NoRow => e = t.routes[s].lease)
    <3>1. t.routes[s].lease \in Nat /\ t.routes[s].used \in Nat
      BY <2>1, Zenon DEF Route
    <3> QED BY <2>1, <3>1, RouteTableAssumption DEF EffectiveLease
  <2> HIDE DEF e
  <2>3. F(s) \in Route /\ F(s).lease = e
    BY <2>1, <2>2, Zenon DEF Route, RecoveryStates, e
  <2> QED BY <2>2, <2>3, Zenon
<1> HIDE DEF F
<1>6. R \in [Sessions -> Route \cup {NoRoute}]
  BY <1>1, <1>3, <1>4, <1>5, Zenon
<1>7. \A s \in S : R[s] = NoRoute
  BY <1>3, <1>4, Zenon
<1>8. \A s \in Sessions \ S : t.rows[s] # NoRow => R[s].lease = t.routes[s].lease
  BY <1>3, <1>4, <1>5, Zenon
<1> HIDE DEF R
<1>9. Follows(t, [u EXCEPT !.routes = R])
  BY <1>3, <1>6, <1>7, <1>8, DeletedFollows, Zenon DEF u
<1> QED BY <1>2, <1>9, Zenon

(* The report of a recovered worker.                                       *)
LEMMA ApplyFollows ==
    ASSUME NEW t, TableConsistent(t), LeasesExact(t), NEW n \in Nodes,
           NEW leases, NEW recovered, NEW now0 \in Nat
    PROVE  Follows(t, ApplyRecovery(t, n, leases, recovered, now0))
<1> DEFINE S == RecoveryLost(t, n, leases, recovered, now0)
           D == {s \in S : t.routes[s].lease > 0}
           u == DeleteRoutes(DeleteRows(t, D), S)
           F(s) == [t.routes[s] EXCEPT !.state = "ready", !.used = now0]
           K(s) == leases[s] > 0 /\ RoutedTo(t, s, n) /\ s \notin S
           R == [s \in Sessions |-> IF K(s) THEN F(s) ELSE u.routes[s]]
<1>1. t \in Table /\ t.routes \in [Sessions -> Route \cup {NoRoute}]
  BY Zenon DEF TableConsistent, Table
<1>2. ApplyRecovery(t, n, leases, recovered, now0) = [u EXCEPT !.routes = R]
  BY Zenon DEF ApplyRecovery
<1>3. /\ S \in SUBSET Sessions /\ \A s \in S : HasRoute(t, s)
      /\ \A s \in Sessions : K(s) => HasRoute(t, s) /\ s \notin S
  BY Zenon DEF RecoveryLost, RoutedTo
<1> HIDE DEF S, K
<1>4. \A s \in S \ D : t.rows[s] = NoRow
  <2> SUFFICES ASSUME NEW s \in S, ~(t.routes[s].lease > 0)
               PROVE  t.rows[s] = NoRow
    BY Zenon
  <2>1. t.routes[s] \in Route
    BY <1>3, RouteFacts, Zenon
  <2>2. t.routes[s].lease = 0
    BY <2>1 DEF Route
  <2> QED BY <1>3, <2>2, RouteFacts, Zenon
<1>5. D \in SUBSET S
  BY Zenon
<1> HIDE DEF D
<1>6. \A s \in Sessions :
         u.routes[s] = IF s \in S THEN NoRoute ELSE t.routes[s]
  BY <1>1, <1>3, <1>5, RoutesAfterDelete
<1> HIDE DEF u
<1>7. ASSUME NEW s \in Sessions, HasRoute(t, s)
      PROVE  F(s) \in Route /\ F(s).lease = t.routes[s].lease
  <2>1. t.routes[s] \in Route
    BY <1>7, RouteFacts, Zenon
  <2> QED BY <2>1, Zenon DEF Route, RecoveryStates
<1> HIDE DEF F
<1>8. R \in [Sessions -> Route \cup {NoRoute}]
  BY <1>1, <1>3, <1>6, <1>7, Zenon
<1>9. \A s \in S : R[s] = NoRoute
  BY <1>3, <1>6, Zenon
<1>10. \A s \in Sessions \ S : t.rows[s] # NoRow => R[s].lease = t.routes[s].lease
  BY <1>3, <1>6, <1>7, Zenon
<1> HIDE DEF R
<1>11. Follows(t, [u EXCEPT !.routes = R])
  BY <1>3, <1>4, <1>5, <1>8, <1>9, <1>10, DeletedFollows, Zenon DEF u
<1> QED BY <1>2, <1>11, Zenon

(* The rows go by their node, the routes by the index: the same sessions.  *)
LEMMA ByNodeFollows ==
    ASSUME NEW t, TableConsistent(t), LeasesExact(t), NEW n \in Nodes
    PROVE  Follows(t, DeleteRoutesByNode(t, n))
<1> DEFINE S == RoutesOf(t, n)
           W == [s \in Sessions |-> IF t.rows[s] # NoRow /\ t.rows[s].node = n
                                    THEN NoRow ELSE t.rows[s]]
           u == DeleteRoutesByNode(t, n)
<1>1. t \in Table
  BY Zenon DEF TableConsistent
<1>2. u = DeleteRoutes([t EXCEPT !.rows = W], S)
  BY Zenon DEF DeleteRoutesByNode
<1>3. /\ S \in SUBSET Sessions
      /\ \A s \in Sessions : s \in S <=> RoutedTo(t, s, n)
  BY RoutesOfFacts, Zenon
<1> HIDE DEF S, W
<1>4. /\ u.rows = W
      /\ \A s \in Sessions : u.routes[s] = IF s \in S THEN NoRoute ELSE t.routes[s]
  BY <1>1, <1>2 DEF DeleteRoutes, Table
<1>5. \A s \in Sessions : W[s] = IF t.rows[s] # NoRow /\ t.rows[s].node = n
                                 THEN NoRow ELSE t.rows[s]
  BY Zenon DEF W
<1> HIDE DEF u
<1>6. ASSUME NEW s \in Sessions
      PROVE  Stays(t, u, s) \/ Goes(u, s)
  <2>1. t.rows[s] # NoRow => t.routes[s].node = t.rows[s].node /\ HasRoute(t, s)
    BY RowFacts, Zenon
  <2>2. CASE s \in S
    BY <1>3, <1>4, <1>5, <2>1, <2>2, Zenon DEF Goes, HasRoute, RoutedTo
  <2>3. CASE s \notin S
    BY <1>3, <1>4, <1>5, <2>1, <2>3, Zenon DEF Stays, RoutedTo
  <2> QED BY <2>2, <2>3, Zenon
<1> QED BY <1>6, StaysOrGoes, Zenon DEF u

(* A row and its route run out together.                                   *)
LEMMA PruneFollows ==
    ASSUME NEW t, TableConsistent(t), LeasesExact(t), NEW now0 \in Nat,
           NEW ok \in BOOLEAN
    PROVE  Follows(t, PruneRoutes(t, now0, ok))
<1> DEFINE w == IF ok THEN DeleteExpiredRows(t, now0) ELSE t
           Old(s) == IF t.routes[s].lease > 0
                     THEN t.routes[s].lease <= now0 /\ ok
                     ELSE RouteTTL > 0 /\ t.routes[s].used <= now0 - RouteTTL
           S == {s \in Sessions : HasRoute(t, s) /\ Old(s)}
           u == PruneRoutes(t, now0, ok)
<1>1. t \in Table
  BY Zenon DEF TableConsistent
<1>2. u = DeleteRoutes(w, S)
  BY Zenon DEF PruneRoutes
<1>3. /\ w \in Table /\ w.routes = t.routes
      /\ \A s \in Sessions :
            w.rows[s] = IF ok /\ t.rows[s] # NoRow /\ t.rows[s].lease <= now0
                        THEN NoRow ELSE t.rows[s]
  <2>1. CASE ok
    BY <1>1, <2>1, DeleteExpiredRowsConsistent, Zenon
       DEF DeleteExpiredRows, Table, TableConsistent
  <2> QED BY <1>1, <2>1, Zenon
<1>4. \A s \in Sessions : s \in S <=> HasRoute(t, s) /\ Old(s)
  BY Zenon
<1> HIDE DEF w, S
<1>5. /\ u.rows = w.rows
      /\ \A s \in Sessions : u.routes[s] = IF s \in S THEN NoRoute ELSE t.routes[s]
  BY <1>2, <1>3 DEF DeleteRoutes, Table
<1> HIDE DEF u
<1>6. ASSUME NEW s \in Sessions
      PROVE  Stays(t, u, s) \/ Goes(u, s)
  <2>1. t.rows[s] # NoRow =>
           /\ HasRoute(t, s) /\ t.rows[s].lease = t.routes[s].lease
           /\ t.rows[s].lease > 0
    BY RowFacts, Zenon DEF LeasesExact
  <2> HIDE DEF S
  <2>2. CASE t.rows[s] # NoRow /\ ok /\ t.rows[s].lease <= now0
    <3>1. s \in S
      BY <1>4, <2>1, <2>2, Zenon
    <3> QED BY <1>3, <1>5, <2>2, <3>1, Zenon DEF Goes, HasRoute
  <2>3. CASE t.rows[s] # NoRow /\ ~(ok /\ t.rows[s].lease <= now0)
    <3>1. s \notin S
      BY <1>4, <2>1, <2>3, Zenon
    <3> QED BY <1>3, <1>5, <2>3, <3>1, Zenon DEF Stays
  <2>4. CASE t.rows[s] = NoRow
    BY <1>3, <1>5, <2>4, Zenon DEF Stays
  <2> QED BY <2>2, <2>3, <2>4, Zenon
<1> QED BY <1>6, StaysOrGoes, Zenon DEF u

(* A restart loads the rows that are left, with their leases.              *)
LEMMA RestoreExact ==
    ASSUME NEW t, TableConsistent(t), NEW now0 \in Nat
    PROVE  LET u == RestoreTerminalSessionRoutes(t, now0) IN
           /\ LeasesExact(u)
           /\ \A s \in Sessions : u.rows[s] # NoRow => u.rows[s] = t.rows[s]
<1> DEFINE kept == DeleteExpiredRows(t, now0).rows
           u == RestoreTerminalSessionRoutes(t, now0)
<1>1. t \in Table
  BY Zenon DEF TableConsistent
<1>2. \A s \in Sessions : kept[s] # NoRow => kept[s] = t.rows[s]
  BY <1>1, Zenon DEF DeleteExpiredRows, Table
<1>3. /\ u.rows = kept
      /\ \A s \in Sessions : kept[s] # NoRow => u.routes[s].lease = kept[s].lease
  BY Zenon DEF RestoreTerminalSessionRoutes
<1> HIDE DEF kept, u
<1>4. LeasesExact(u) /\ \A s \in Sessions : u.rows[s] # NoRow => u.rows[s] = t.rows[s]
  BY <1>2, <1>3, Zenon DEF LeasesExact
<1> QED BY <1>4, Zenon DEF u

-----------------------------------------------------------------------------
(* Steps that file nothing: keys lose their row or their route, and no row *)
(* that is left and unexpired loses its route, unless its account is back. *)
Shrinks ==
    /\ now' >= now
    /\ \A k \in Keys :
         /\ rows'[k] \in {rows[k], None} /\ routes'[k] \in {routes[k], None}
         /\ /\ "recreate" \notin Faults
            /\ rows'[k] # None /\ rows'[k].expires > now'
            => routes'[k] = routes[k]
    /\ \A c \in Calls : \/ call'[c] = call[c]
                        \/ call[c].pc # "inserted" /\ call'[c].pc # "inserted"
    /\ gone' \subseteq gone \cup Missing(routes')
    /\ "recreate" \notin Faults /\ removing \cap accounts = {}
          => removing' \cap accounts' = {}
    /\ \A k \in Keys, r \in Record :
         /\ routes'[k] = r \/ \E c \in Filing(k) : call[c].record = r
         /\ Backed(r, k)
         => Backed(r, k)'

(* Fewer keys keep a limit.                                                *)
LEMMA FewerKeys ==
    ASSUME KeysCountable, NEW A \in SUBSET Keys, NEW B \in SUBSET A,
           NEW n \in Nat, Cardinality(A) <= n
    PROVE  Cardinality(B) <= n
<1>1. /\ Cardinality(A) \in Nat /\ Cardinality(B) \in Nat
      /\ Cardinality(B) <= Cardinality(A)
  BY Zenon DEF KeysCountable
<1> QED BY <1>1

(* A step that leaves no more unexpired records keeps the limits.          *)
LEMMA LimitsShrink ==
    ASSUME WithinLimits, \A k \in Keys : Live(k)' \subseteq Live(k)
    PROVE  WithinLimits'
<1>1. ASSUME NEW o \in Owners PROVE Cardinality(OwnerKeys(o)') <= MaxPerAccount
  <2>1. OwnerKeys(o) \in SUBSET Keys /\ OwnerKeys(o)' \in SUBSET OwnerKeys(o)
    BY Zenon DEF OwnerKeys
  <2> QED BY <2>1, FewerKeys, PreviewAssumption, Zenon DEF WithinLimits
<1>2. ASSUME NEW s \in Sessions PROVE Cardinality(SessionKeys(s)') <= MaxPerSession
  <2>1. SessionKeys(s) \in SUBSET Keys /\ SessionKeys(s)' \in SUBSET SessionKeys(s)
    BY Zenon DEF SessionKeys
  <2> QED BY <2>1, FewerKeys, PreviewAssumption, Zenon DEF WithinLimits
<1>3. KeysCountable'
  BY Zenon DEF WithinLimits, KeysCountable
<1> QED BY <1>1, <1>2, <1>3, Zenon DEF WithinLimits

(* None is no record.                                                      *)
LEMMA NoneIsNoRecord == \A r \in Record : r # None
  BY PreviewAssumption, Zenon

(* A step that only removes leaves the creations in progress as they are.  *)
LEMMA FilingKept ==
    ASSUME Shrinks, NEW k
    PROVE  Filing(k)' = Filing(k) /\ \A c \in Filing(k) : call'[c] = call[c]
  BY Zenon DEF Shrinks, Filing

(* Who is filing a record has the mutex.                                   *)
LEMMA FilingRecord ==
    ASSUME CallsShaped, NEW k \in Keys, NEW c \in Filing(k)
    PROVE  call[c].record \in Record /\ c \in Calls /\ mu = c
  BY Zenon DEF CallsShaped, CallShape, Filing, Inserted

(* A step that only removes rows and routes keeps the invariant.           *)
LEMMA ShrinksKeeps ==
    ASSUME IInv, Shaped', RowsReferenced', Shrinks
    PROVE  IInv'
<1>1. ASSUME NEW k \in Keys
      PROVE  Filing(k)' = Filing(k) /\ \A c \in Filing(k) : call'[c] = call[c]
  BY FilingKept, Zenon
<1>2. ASSUME NEW k \in Keys
      PROVE  /\ rows'[k] \in {rows[k], None} /\ routes'[k] \in {routes[k], None}
             /\ routes[k] \in Record \cup {None} /\ rows[k] \in Record \cup {None}
  BY Zenon DEF Shrinks, IInv, Shaped, MapsShaped
<1>3. ASSUME NEW k \in Keys PROVE KeyInv(k)'
  <2>1. KeyInv(k)
    BY Zenon DEF IInv
  <2>2. ASSUME routes'[k] # None PROVE Backed(routes[k], k)'
    <3>1. routes'[k] = routes[k] /\ routes[k] \in Record /\ Backed(routes[k], k)
      BY <1>2, <2>1, <2>2, Zenon DEF KeyInv
    <3> DEFINE r == routes[k]
    <3>2. Backed(r, k) /\ routes'[k] = r /\ r \in Record
      BY <3>1, Zenon
    <3> HIDE DEF r
    <3>3. ASSUME NEW q \in Record, routes'[k] = q, Backed(q, k)
          PROVE  Backed(q, k)'
      BY <3>3, Zenon DEF Shrinks
    <3> QED BY <3>2, <3>3, Zenon DEF Backed
  <2>3. ASSUME NEW c \in Filing(k) PROVE Backed(call[c].record, k)'
    <3>1. call'[c] = call[c] /\ call[c].record \in Record /\ Backed(call[c].record, k)
      BY <1>1, <2>1, FilingRecord, Zenon DEF KeyInv, IInv, Shaped
    <3>2. ASSUME NEW q \in Record, call[c].record = q, Backed(q, k)
          PROVE  Backed(q, k)'
      BY <3>2, Zenon DEF Shrinks
    <3> QED BY <3>1, <3>2, Zenon DEF Backed
  <2>4. rows'[k] # None /\ routes'[k] # None => rows'[k] = routes'[k]
    BY <1>2, <2>1, Zenon DEF KeyInv
  <2>5. ASSUME NEW c \in Filing(k)
        PROVE  routes'[k] = None /\ rows'[k] \in {None, call'[c].record}
    BY <1>1, <1>2, <2>1, Zenon DEF KeyInv
  <2> QED BY <1>1, <2>2, <2>3, <2>4, <2>5, Zenon DEF KeyInv
<1>4. ASSUME Exact, "recreate" \notin Faults PROVE Exact'
  <2>1. removing' \cap accounts' = {}
    BY <1>4, Zenon DEF Shrinks, Exact
  <2>2. RowsLoaded'
    <3> SUFFICES ASSUME NEW k \in Keys, rows'[k] # None, rows'[k].expires > now'
                 PROVE  routes'[k] = rows'[k] \/ Filing(k)' # {}
      BY Zenon DEF RowsLoaded
    <3>1. rows'[k] = rows[k] /\ rows[k] \in Record /\ routes'[k] = routes[k]
      BY <1>2, <1>4, Zenon DEF Shrinks
    <3>2. rows[k].expires > now
      <4>1. rows[k].expires \in Nat
        BY <3>1, Zenon DEF Record
      <4> QED BY <3>1, <4>1 DEF Shrinks, IInv, Shaped, ClockShaped
    <3> QED BY <1>1, <1>4, <3>1, <3>2, Zenon DEF Exact, RowsLoaded
  <2>3. GoneAbsent'
    <3> SUFFICES ASSUME NEW k \in gone' PROVE routes'[k] = None /\ Filing(k)' = {}
      BY Zenon DEF GoneAbsent
    <3>1. k \in Keys
      BY Zenon DEF Shaped, MapsShaped
    <3>2. CASE k \in gone
      BY <1>1, <1>2, <1>4, <3>1, <3>2, Zenon DEF Exact, GoneAbsent
    <3>3. CASE k \notin gone
      <4>1. routes[k] # None /\ routes'[k] = None
        BY <3>3, Zenon DEF Shrinks, Missing
      <4>2. KeyInv(k)
        BY <3>1, Zenon DEF IInv
      <4> QED BY <1>1, <3>1, <4>1, <4>2, Zenon DEF KeyInv
    <3> QED BY <3>2, <3>3, Zenon
  <2>4. WithinLimits'
    <3>1. ASSUME NEW k \in Keys, NEW r \in Live(k)' PROVE r \in Live(k)
      <4>1. r # None /\ r.expires > now'
        BY Zenon DEF Live
      <4>2. r \in {rows'[k], routes'[k]} \cup {call'[c].record : c \in Filing(k)'}
        BY Zenon DEF Live
      <4>3. r \in {rows[k], routes[k]} \cup {call[c].record : c \in Filing(k)}
        BY <1>1, <1>2, <4>1, <4>2, ZenonT(30)
      <4>4. r \in Record
        BY <1>2, <4>1, <4>3, FilingRecord DEF IInv, Shaped
      <4>5. r.expires > now
        <5>1. r.expires \in Nat
          BY <4>4, Zenon DEF Record
        <5> QED BY <4>1, <5>1 DEF Shrinks, IInv, Shaped, ClockShaped
      <4> QED BY <4>1, <4>3, <4>5, Zenon DEF Live
    <3> QED BY <1>4, <3>1, LimitsShrink, Zenon DEF Exact
  <2> QED BY <2>1, <2>2, <2>3, <2>4, Zenon DEF Exact
<1> QED BY <1>3, <1>4, Zenon DEF IInv

(* Which state each part of the shape reads.                               *)
LEMMA ShapesRead ==
    /\ TableShaped /\ UNCHANGED <<table, revoking>> => TableShaped'
    /\ WorkersShaped /\ UNCHANGED <<online, cands>> => WorkersShaped'
    /\ AccountsShaped /\ UNCHANGED <<accounts, removing>> => AccountsShaped'
    /\ MapsShaped /\ UNCHANGED <<rows, routes, gone>> => MapsShaped'
    /\ CallsShaped /\ UNCHANGED <<call, mu, now>> => CallsShaped'
    /\ ClockShaped /\ UNCHANGED <<now, pruned>> => ClockShaped'
<1>1. TableShaped /\ UNCHANGED <<table, revoking>> => TableShaped'
  BY Zenon DEF TableShaped
<1>2. WorkersShaped /\ UNCHANGED <<online, cands>> => WorkersShaped'
  BY Zenon DEF WorkersShaped
<1>3. AccountsShaped /\ UNCHANGED <<accounts, removing>> => AccountsShaped'
  BY Zenon DEF AccountsShaped
<1>4. MapsShaped /\ UNCHANGED <<rows, routes, gone>> => MapsShaped'
  BY Zenon DEF MapsShaped
<1>5. CallsShaped /\ UNCHANGED <<call, mu, now>> => CallsShaped'
  BY Zenon DEF CallsShaped, CallShape
<1>6. ClockShaped /\ UNCHANGED <<now, pruned>> => ClockShaped'
  BY Zenon DEF ClockShaped
<1> QED BY <1>1, <1>2, <1>3, <1>4, <1>5, <1>6, Zenon

(* A key has a record or none, in the table and in the map.                *)
LEMMA MapFacts ==
    ASSUME MapsShaped, NEW k \in Keys
    PROVE  rows[k] \in Record \cup {None} /\ routes[k] \in Record \cup {None}
  BY Zenon DEF MapsShaped

(* A step under terminalRoutesMu: every preview row that SQLite drops      *)
(* belongs to a session that is about to be revoked.                       *)
LEMMA TableStepKeeps ==
    ASSUME IInv, NEW t, TableConsistent(t), Follows(table, t), UnderRoutesLock(t),
           WorkersShaped',
           UNCHANGED <<routes, mu, call, accounts, removing, pruned, gone, now>>
    PROVE  IInv'
<1> USE DEF UnderRoutesLock
<1>1. /\ TableShaped /\ AccountsShaped /\ MapsShaped /\ CallsShaped
      /\ ClockShaped
  BY Zenon DEF IInv, Shaped
<1>2. ASSUME NEW k \in Keys
      PROVE  rows'[k] = IF rows[k] # None /\ Referenced(rows[k], t.rows, accounts)
                        THEN rows[k] ELSE None
  BY Zenon DEF Cascade
<1>3. rows' \in [Keys -> Record \cup {None}]
  BY <1>1, MapFacts, Zenon DEF Cascade
<1>4. \A s \in Lost(t) : s \in Sessions /\ t.rows[s] = NoRow
  BY RowFacts, Zenon DEF Lost
<1>5. Shaped'
  <2>1. TableShaped'
    BY <1>4, Zenon DEF TableShaped, LeasesExact, Follows
  <2>2. MapsShaped'
    BY <1>1, <1>3, Zenon DEF MapsShaped
  <2> QED BY <1>1, <2>1, <2>2, ShapesRead, Zenon DEF Shaped
<1>6. RowsReferenced'
  BY <1>2, <1>4, Zenon DEF RowsReferenced, Referenced
<1>7. ASSUME NEW k \in Keys, NEW r \in Record, Backed(r, k)
      PROVE  Backed(r, k)'
  <2> SUFFICES ASSUME r.expires > now, r.owner \notin removing, r.session \notin Lost(t)
               PROVE  rows'[k] = r
    BY Zenon DEF Backed
  <2>1. rows[k] = r
    BY <1>7, Zenon DEF Backed
  <2>2. r # None /\ r.session \in Sessions
    BY NoneIsNoRecord, Zenon DEF Record
  <2>3. Referenced(r, table.rows, accounts)
    BY <2>1, <2>2, Zenon DEF IInv, RowsReferenced
  <2>4. Referenced(r, t.rows, accounts)
    BY <2>2, <2>3, Zenon DEF Referenced, Follows, Lost
  <2> QED BY <1>2, <2>1, <2>2, <2>4, Zenon
<1>8. now' >= now
  BY <1>1 DEF ClockShaped
<1>9. Shrinks
  BY <1>2, <1>7, <1>8, Zenon DEF Shrinks
<1> QED BY <1>5, <1>6, <1>9, ShrinksKeeps, Zenon

(* Steps on the route of one terminal session.                             *)
LEMMA SessionStepKeeps ==
    ASSUME IInv, NEW s \in Sessions,
           \/ ConfirmSession(s) \/ ConfirmInMemory(s)
           \/ \E ok \in BOOLEAN : ClearSession(s, ok)
           \/ \E ok \in BOOLEAN : SnapshotExpired(s, ok)
           \/ \E n \in Nodes : ReserveSession(s, n)
    PROVE  IInv'
<1>1. TableConsistent(table) /\ LeasesExact(table) /\ WorkersShaped /\ now \in Nat
  BY DEF IInv, Shaped, TableShaped, ClockShaped
<1>2. UNCHANGED <<online, cands, routes, mu, call, accounts,
                  removing, pruned, gone, now>>
  BY Zenon DEF ConfirmSession, ConfirmInMemory, ClearSession, SnapshotExpired,
               ReserveSession
<1>3. WorkersShaped'
  BY <1>1, <1>2, ShapesRead, Zenon
<1>4. ASSUME NEW t, TableConsistent(t), Follows(table, t), UnderRoutesLock(t)
      PROVE  IInv'
  BY <1>2, <1>3, <1>4, TableStepKeeps, Zenon
<1> DEFINE r == table.routes[s]
<1>5. HasRoute(table, s) => r \in Route /\ r.res \in Nat /\ r.node \in Nodes
  BY <1>1, RouteFacts, Zenon DEF Route
<1>6. CASE ConfirmSession(s)
  <2> DEFINE t == CommitRoute(table, s, r.node, r.res, now + LeaseTTL, now)
  <2>1. HasRoute(table, s) /\ UnderRoutesLock(t)
    BY <1>6, Zenon DEF ConfirmSession
  <2>2. now + LeaseTTL \in Nat /\ now + LeaseTTL > 0
    BY <1>1, PreviewAssumption
  <2>3. OwnsRoute(table, s, r.node, r.res)
    BY <2>1, Zenon DEF OwnsRoute, RoutedTo
  <2>4. TableConsistent(t)
    BY <1>1, <1>5, <2>1, <2>2, <2>3, CommitConsistent, Zenon
  <2>5. Follows(table, t)
    BY <1>1, <2>1, <2>2, CommitFollows, Zenon
  <2> QED BY <1>4, <2>1, <2>4, <2>5, Zenon
<1>7. CASE ConfirmInMemory(s)
  <2> DEFINE t == ConfirmRoute(table, s, r.node, r.res, now)
  <2>1. Provisional(table, s) /\ UnderRoutesLock(t)
    BY <1>7, Zenon DEF ConfirmInMemory
  <2>2. TableConsistent(t)
    BY <1>1, <1>5, <2>1, ConfirmConsistent, Zenon DEF Provisional
  <2>3. Follows(table, t)
    BY <1>1, <2>1, ConfirmFollows, Zenon
  <2> QED BY <1>4, <2>1, <2>2, <2>3, Zenon
<1>8. ASSUME NEW ok \in BOOLEAN, ClearSession(s, ok) PROVE IInv'
  <2> DEFINE t == ClearRoute(table, s, r.node, ok)
  <2>1. UnderRoutesLock(t)
    BY <1>8, Zenon DEF ClearSession
  <2>2. TableConsistent(t) /\ Follows(table, t)
    BY <1>1, ClearConsistent, ClearFollows, Zenon
  <2> QED BY <1>4, <2>1, <2>2, Zenon
<1>9. ASSUME NEW ok \in BOOLEAN, SnapshotExpired(s, ok) PROVE IInv'
  <2> DEFINE t == SnapshotRoute(table, s, now, ok)
  <2>1. UnderRoutesLock(t)
    BY <1>9, Zenon DEF SnapshotExpired
  <2>2. TableConsistent(t) /\ Follows(table, t)
    BY <1>1, SnapshotConsistent, SnapshotFollows, Zenon
  <2> QED BY <1>4, <2>1, <2>2, Zenon
<1>10. ASSUME NEW n \in Nodes, ReserveSession(s, n) PROVE IInv'
  <2> DEFINE t == ReserveRoute(table, s, n, now)
  <2>1. ~HasRoute(table, s) /\ UnderRoutesLock(t)
    BY <1>10, Zenon DEF ReserveSession
  <2>2. TableConsistent(t) /\ Follows(table, t)
    BY <1>1, <2>1, ReserveConsistent, ReserveFollows, Zenon
  <2> QED BY <1>4, <2>1, <2>2, Zenon
<1> QED BY <1>6, <1>7, <1>8, <1>9, <1>10, Zenon

(* The pruner of terminal routes.                                          *)
LEMMA PruneStepKeeps ==
    ASSUME IInv, NEW ok \in BOOLEAN, PruneSessions(ok)
    PROVE  IInv'
<1> DEFINE t == PruneRoutes(table, now, ok)
<1>1. TableConsistent(table) /\ LeasesExact(table) /\ WorkersShaped /\ now \in Nat
  BY DEF IInv, Shaped, TableShaped, ClockShaped
<1>2. /\ UnderRoutesLock(t)
      /\ UNCHANGED <<online, cands, routes, mu, call, accounts,
                     removing, pruned, gone, now>>
  BY Zenon DEF PruneSessions
<1>3. WorkersShaped'
  BY <1>1, <1>2, ShapesRead, Zenon
<1>4. TableConsistent(t) /\ Follows(table, t)
  BY <1>1, PruneConsistent, PruneFollows, Zenon
<1> QED BY <1>2, <1>3, <1>4, TableStepKeeps, Zenon

(* Workers leave, connect, recover and are removed.                        *)
LEMMA WorkerStepKeeps ==
    ASSUME IInv, NEW n \in Nodes,
           \/ WorkerLost(n) \/ WorkerConnects(n) \/ RemoveWorkerRoutes(n)
           \/ \E R \in SUBSET Sessions : WorkerRecovers(n, R)
    PROVE  IInv'
<1>1. TableConsistent(table) /\ LeasesExact(table) /\ WorkersShaped /\ now \in Nat
  BY DEF IInv, Shaped, TableShaped, ClockShaped
<1>2. UNCHANGED <<routes, mu, call, accounts, removing, pruned, gone, now>>
  BY Zenon DEF WorkerLost, WorkerConnects, RemoveWorkerRoutes, WorkerRecovers
<1>3. ASSUME NEW t, TableConsistent(t), Follows(table, t), UnderRoutesLock(t),
             WorkersShaped'
      PROVE  IInv'
  BY <1>2, <1>3, TableStepKeeps, Zenon
<1>4. CASE WorkerLost(n)
  <2>1. UnderRoutesLock(MarkUnavailable(table, n))
    BY <1>4, Zenon DEF WorkerLost
  <2>2. TableConsistent(MarkUnavailable(table, n))
        /\ Follows(table, MarkUnavailable(table, n))
    BY <1>1, MarkUnavailableConsistent, MarkFollows, Zenon
  <2>3. WorkersShaped'
    BY <1>1, <1>4, Zenon DEF WorkerLost, WorkersShaped
  <2> QED BY <1>3, <2>1, <2>2, <2>3, Zenon
<1>5. CASE WorkerConnects(n)
  <2>1. UnderRoutesLock(BeginRecovery(table, n, now))
    BY <1>5, Zenon DEF WorkerConnects
  <2>2. TableConsistent(BeginRecovery(table, n, now))
        /\ Follows(table, BeginRecovery(table, n, now))
    BY <1>1, BeginRecoveryConsistent, BeginFollows, Zenon
  <2>3. WorkersShaped'
    <3> DEFINE l == CandidateLeases(table, n, now)
    <3>1. /\ cands' = [cands EXCEPT ![n] = l]
          /\ online' = online \/ online' = online \cup {n}
      BY <1>5, Zenon DEF WorkerConnects
    <3> HIDE DEF l
    <3> QED BY <1>1, <3>1, Zenon DEF WorkersShaped
  <2> QED BY <1>3, <2>1, <2>2, <2>3, Zenon
<1>6. CASE RemoveWorkerRoutes(n)
  <2>1. UnderRoutesLock(DeleteRoutesByNode(table, n))
    BY <1>6, Zenon DEF RemoveWorkerRoutes
  <2>2. TableConsistent(DeleteRoutesByNode(table, n))
        /\ Follows(table, DeleteRoutesByNode(table, n))
    BY <1>1, DeleteRoutesByNodeConsistent, ByNodeFollows, Zenon
  <2>3. WorkersShaped'
    BY <1>1, <1>6, Zenon DEF RemoveWorkerRoutes, WorkersShaped
  <2> QED BY <1>3, <2>1, <2>2, <2>3, Zenon
<1>7. ASSUME NEW R \in SUBSET Sessions, WorkerRecovers(n, R) PROVE IInv'
  <2> DEFINE t == ApplyRecovery(table, n, cands[n], R, now)
  <2>1. UnderRoutesLock(t)
    BY <1>7, Zenon DEF WorkerRecovers
  <2>2. TableConsistent(t) /\ Follows(table, t)
    BY <1>1, ApplyRecoveryConsistent, ApplyFollows, Zenon
  <2>3. WorkersShaped'
    <3>1. cands' = [cands EXCEPT ![n] = NoLeases] /\ online' = online \cup {n}
      BY <1>1, <1>7, Zenon DEF WorkerRecovers, WorkersShaped
    <3> QED BY <1>1, <3>1, Zenon DEF WorkersShaped
  <2> QED BY <1>3, <2>1, <2>2, <2>3, Zenon
<1> QED BY <1>4, <1>5, <1>6, <1>7, Zenon

-----------------------------------------------------------------------------
(* Steps of the handler under h.mu that only drop routes from the map.     *)

(* While the mutex is free no creation is between its row and its record.  *)
LEMMA NobodyFiles ==
    ASSUME CallsShaped, mu = None
    PROVE  /\ \A c \in Calls : call[c].pc # "inserted"
           /\ \A k : Filing(k) = {}
<1>1. \A c \in Calls : call[c].pc # "inserted"
  BY PreviewAssumption, Zenon DEF CallsShaped, CallShape
<1> QED BY <1>1, Zenon DEF Filing

(* The records that stay are not the ones whose revocation ends here.      *)
LEMMA MapStepKeeps ==
    ASSUME IInv, NEW rs, SetRoutes(rs), mu = None,
           UNCHANGED <<table, accounts, now, mu>>,
           revoking' \subseteq revoking, removing' \subseteq removing,
           rs \in [Keys -> Record \cup {None}],
           rows' \in [Keys -> Record \cup {None}],
           \A k \in Keys : rs[k] \in {routes[k], None} /\ rows'[k] \in {rows[k], None},
           \A k \in Keys : rs[k] # None /\ rs[k].expires > now =>
              /\ rows'[k] = rows[k]
              /\ rs[k].session \notin revoking \ revoking'
              /\ rs[k].owner \notin removing \ removing',
           \A k \in Keys : "recreate" \notin Faults /\ rs[k] # routes[k] =>
              rows'[k] = None \/ ~(rows'[k].expires > now),
           WorkersShaped', CallsShaped', ClockShaped'
    PROVE  IInv'
<1>1. TableShaped /\ AccountsShaped /\ MapsShaped /\ CallsShaped /\ ClockShaped
      /\ RowsReferenced
  BY Zenon DEF IInv, Shaped
<1>2. /\ routes' = rs /\ gone' = gone \cup Missing(rs)
  BY Zenon DEF SetRoutes
<1>3. Shaped'
  <2>1. TableShaped' /\ AccountsShaped'
    BY <1>1, Zenon DEF TableShaped, AccountsShaped
  <2>2. MapsShaped'
    BY <1>1, <1>2, Zenon DEF MapsShaped, Missing
  <2> QED BY <2>1, <2>2, Zenon DEF Shaped
<1>4. RowsReferenced'
  BY <1>1, Zenon DEF RowsReferenced
<1>5. (\A c \in Calls : call[c].pc # "inserted" /\ call'[c].pc # "inserted")
      /\ \A k : Filing(k) = {}
  <2>1. (\A c \in Calls : call[c].pc # "inserted") /\ \A k : Filing(k) = {}
    BY <1>1, NobodyFiles, Zenon
  <2>2. \A c \in Calls : call'[c].pc # "inserted"
    BY PreviewAssumption, Zenon DEF CallsShaped, CallShape
  <2> QED BY <2>1, <2>2, Zenon
<1>6. ASSUME NEW k \in Keys, NEW r \in Record, routes'[k] = r, Backed(r, k)
      PROVE  Backed(r, k)'
  <2> SUFFICES ASSUME r.expires > now
               PROVE  rows'[k] = r \/ r.session \in revoking' \/ r.owner \in removing'
    BY Zenon DEF Backed
  <2>1. r # None /\ rs[k] = r
    BY <1>2, <1>6, NoneIsNoRecord, Zenon
  <2> QED BY <1>6, <2>1, Zenon DEF Backed
<1>7. ASSUME NEW k \in Keys, "recreate" \notin Faults, rows'[k] # None,
             rows'[k].expires > now'
      PROVE  routes'[k] = routes[k]
  BY <1>2, <1>7, Zenon
<1>8. now' >= now
  BY <1>1 DEF ClockShaped
<1>9. gone' \subseteq gone \cup Missing(routes')
  BY <1>2, Zenon
<1>10. removing \cap accounts = {} => removing' \cap accounts' = {}
  BY Zenon
<1>11. \A k \in Keys : rows'[k] \in {rows[k], None} /\ routes'[k] \in {routes[k], None}
  BY <1>2, Zenon
<1>12. Shrinks
  BY <1>5, <1>6, <1>7, <1>8, <1>9, <1>10, <1>11, Zenon DEF Shrinks
<1> QED BY <1>3, <1>4, <1>12, ShrinksKeeps, Zenon

(* Pruning the map up to a time that has passed.                           *)
LEMMA PrunedFacts ==
    ASSUME IInv, NEW t \in Nat, t <= now
    PROVE  LET rs == PruneLocked(t) IN
           /\ rs \in [Keys -> Record \cup {None}]
           /\ \A k \in Keys :
                /\ rs[k] \in {routes[k], None}
                /\ rs[k] # routes[k] => rows[k] = None \/ ~(rows[k].expires > now)
<1>1. MapsShaped /\ now \in Nat
  BY DEF IInv, Shaped, ClockShaped
<1> DEFINE rs == PruneLocked(t)
<1>2. \A k \in Keys : rs[k] = IF routes[k] # None /\ routes[k].expires <= t
                              THEN None ELSE routes[k]
  BY Zenon DEF PruneLocked
<1>3. rs \in [Keys -> Record \cup {None}]
  BY <1>1, MapFacts, Zenon DEF PruneLocked
<1> HIDE DEF rs
<1>4. ASSUME NEW k \in Keys
      PROVE  /\ rs[k] \in {routes[k], None}
             /\ rs[k] # routes[k] => rows[k] = None \/ ~(rows[k].expires > now)
  <2>1. KeyInv(k)
    BY Zenon DEF IInv
  <2>2. routes[k] # None => routes[k].expires \in Nat
    BY <1>1, MapFacts, Zenon DEF Record
  <2> QED BY <1>1, <1>2, <2>1, <2>2 DEF KeyInv
<1> QED BY <1>3, <1>4, Zenon DEF rs

(* List, and the prunings that precede the other steps.                    *)
LEMMA PruneMapKeeps ==
    ASSUME IInv, NEW t \in Nat, t <= now, mu = None, SetRoutes(PruneLocked(t)),
           UNCHANGED <<table, revoking, rows, mu, accounts, removing, now>>,
           WorkersShaped', CallsShaped', ClockShaped'
    PROVE  IInv'
<1> DEFINE rs == PruneLocked(t)
<1>1. /\ rs \in [Keys -> Record \cup {None}]
      /\ \A k \in Keys :
           /\ rs[k] \in {routes[k], None}
           /\ rs[k] # routes[k] => rows[k] = None \/ ~(rows[k].expires > now)
  BY PrunedFacts, Zenon
<1>2. rows \in [Keys -> Record \cup {None}]
  BY Zenon DEF IInv, Shaped, MapsShaped
<1>3. SetRoutes(rs)
  BY Zenon
<1> HIDE DEF rs
<1> QED BY <1>1, <1>2, <1>3, MapStepKeeps, Zenon

(* A call that is answered.                                                *)
LEMMA CallIdles ==
    ASSUME CallsShaped, NEW c \in Calls, call[c].pc # "inserted",
           call' = [call EXCEPT ![c] = Idle], UNCHANGED <<mu, now>>
    PROVE  CallsShaped'
<1>1. Idle.pc = "idle" /\ Idle \in [pc : {"idle"}]
  BY Zenon DEF Idle
<1>2. call' \in [Calls -> [pc : {"idle"}] \cup Mapping \cup Resolved \cup Inserted]
  BY <1>1, Zenon DEF CallsShaped
<1>3. \A d \in Calls : call'[d] = IF d = c THEN Idle ELSE call[d]
  BY Zenon DEF CallsShaped
<1>4. \A d \in Calls : CallShape(d)'
  BY <1>1, <1>3, Zenon DEF CallsShaped, CallShape
<1> QED BY <1>1, <1>2, <1>3, <1>4, Zenon DEF CallsShaped

(* Handlers that only remove expired records, or nothing.                  *)
LEMMA HandlerStepKeeps ==
    ASSUME IInv,
           \/ List \/ PruneMap
           \/ \E c \in Calls : RefuseCreation(c)
           \/ \E g \in Gateways, k \in Keys : GetRoute(g, k)
    PROVE  IInv'
<1>1. /\ WorkersShaped /\ CallsShaped /\ ClockShaped
      /\ now \in Nat /\ now <= now /\ MapsShaped
  BY DEF IInv, Shaped, ClockShaped
<1>2. CASE List
  <2>1. mu = None /\ SetRoutes(PruneLocked(now))
        /\ UNCHANGED <<table, revoking, rows, mu, accounts, removing, now>>
        /\ UNCHANGED <<online, cands, call, pruned>>
    BY <1>2, Zenon DEF List
  <2>2. WorkersShaped' /\ CallsShaped' /\ ClockShaped'
    BY <1>1, <2>1, ShapesRead, Zenon
  <2> QED BY <1>1, <2>1, <2>2, PruneMapKeeps, Zenon
<1>3. CASE PruneMap
  <2>1. pruned # None /\ mu = None /\ SetRoutes(PruneLocked(pruned)) /\ pruned' = None
        /\ UNCHANGED <<table, revoking, rows, mu, accounts, removing, now>>
        /\ UNCHANGED <<online, cands, call>>
    BY <1>3, Zenon DEF PruneMap
  <2>2. pruned \in Nat /\ pruned <= now
    BY <1>1, <2>1, Zenon DEF ClockShaped
  <2>3. WorkersShaped' /\ CallsShaped'
    BY <1>1, <2>1, ShapesRead, Zenon
  <2>4. ClockShaped'
    BY <1>1, <2>1, Zenon DEF ClockShaped
  <2> QED BY <2>1, <2>2, <2>3, <2>4, PruneMapKeeps, Zenon
<1>4. ASSUME NEW c \in Calls, RefuseCreation(c) PROVE IInv'
  <2> DEFINE t == call[c].at
  <2>1. call[c].pc = "resolved" /\ mu = None /\ SetRoutes(PruneLocked(t))
        /\ call' = [call EXCEPT ![c] = Idle]
        /\ UNCHANGED <<table, revoking, rows, mu, accounts, removing, now>>
        /\ UNCHANGED <<online, cands, pruned>>
    BY <1>4, Zenon DEF RefuseCreation
  <2>2. t \in Nat /\ t <= now
    BY <1>1, <2>1, PreviewAssumption DEF CallsShaped, CallShape, Resolved
  <2>3. WorkersShaped' /\ ClockShaped'
    BY <1>1, <2>1, ShapesRead, Zenon
  <2>4. CallsShaped'
    BY <1>1, <2>1, CallIdles, Zenon
  <2> HIDE DEF t
  <2> QED BY <2>1, <2>2, <2>3, <2>4, PruneMapKeeps, Zenon
<1>5. ASSUME NEW g \in Gateways, NEW k \in Keys, GetRoute(g, k) PROVE IInv'
  <2>1. mu = None /\ SetRoutes(PruneLocked(now))
        /\ UNCHANGED <<table, revoking, rows, mu, accounts, removing, now>>
        /\ UNCHANGED <<online, cands, call, pruned>>
    BY <1>5, Zenon DEF GetRoute
  <2>2. WorkersShaped' /\ CallsShaped' /\ ClockShaped'
    BY <1>1, <2>1, ShapesRead, Zenon
  <2> QED BY <1>1, <2>1, <2>2, PruneMapKeeps, Zenon
<1> QED BY <1>2, <1>3, <1>4, <1>5, Zenon

(* The row goes before the route, and both go when the store works.        *)
LEMMA DeleteKeeps ==
    ASSUME IInv, NEW o \in Owners, NEW k \in Keys, NEW ok \in BOOLEAN,
           Delete(o, k, ok)
    PROVE  IInv'
<1> DEFINE rs == PruneLocked(now)
           us == IF ok THEN Without(rs, {k}) ELSE rs
<1>1. /\ WorkersShaped /\ CallsShaped /\ ClockShaped
      /\ now \in Nat /\ now <= now
      /\ rows \in [Keys -> Record \cup {None}]
  BY DEF IInv, Shaped, ClockShaped, MapsShaped
<1>2. /\ mu = None /\ SetRoutes(us) /\ rows' = DeleteRow(k, ok)
      /\ UNCHANGED <<table, revoking, mu, accounts, removing, now>>
      /\ UNCHANGED <<online, cands, call, pruned>>
  BY Zenon DEF Delete
<1>3. /\ rs \in [Keys -> Record \cup {None}]
      /\ \A q \in Keys :
           /\ rs[q] \in {routes[q], None}
           /\ rs[q] # routes[q] => rows[q] = None \/ ~(rows[q].expires > now)
  BY <1>1, PrunedFacts, Zenon
<1> HIDE DEF rs
<1>4. /\ us \in [Keys -> Record \cup {None}]
      /\ \A q \in Keys : us[q] = IF ok /\ q = k THEN None ELSE rs[q]
  BY <1>3, Zenon DEF Without
<1> HIDE DEF us
<1>5. /\ rows' \in [Keys -> Record \cup {None}]
      /\ \A q \in Keys : rows'[q] = IF ok /\ q = k THEN None ELSE rows[q]
  BY <1>1, <1>2, Zenon DEF DeleteRow
<1>6. WorkersShaped' /\ CallsShaped' /\ ClockShaped'
  BY <1>1, <1>2, ShapesRead, Zenon
<1>7. \A q \in Keys :
        /\ us[q] \in {routes[q], None} /\ rows'[q] \in {rows[q], None}
        /\ us[q] # None => rows'[q] = rows[q]
        /\ us[q] # routes[q] => rows'[q] = None \/ ~(rows'[q].expires > now)
  BY <1>3, <1>4, <1>5, Zenon
<1> QED BY <1>2, <1>4, <1>5, <1>6, <1>7, MapStepKeeps, Zenon

(* A session in revoking has no terminal row, so its routes have no row.   *)
LEMMA RevokeSessionKeeps ==
    ASSUME IInv, NEW s \in Sessions, RevokeSessionRoutes(s)
    PROVE  IInv'
<1> DEFINE rs == Without(routes, KeysOfSession(s))
<1>1. /\ WorkersShaped /\ CallsShaped /\ ClockShaped /\ MapsShaped
      /\ RowsReferenced
  BY Zenon DEF IInv, Shaped
<1>2. /\ mu = None /\ SetRoutes(rs) /\ s \in revoking /\ revoking' = revoking \ {s}
      /\ UNCHANGED <<table, rows, mu, accounts, removing, now>>
      /\ UNCHANGED <<online, cands, call, pruned>>
  BY Zenon DEF RevokeSessionRoutes
<1>3. \A k \in Keys : rs[k] = IF routes[k] # None /\ routes[k].session = s
                              THEN None ELSE routes[k]
  BY Zenon DEF Without, KeysOfSession
<1>4. rs \in [Keys -> Record \cup {None}] /\ rows \in [Keys -> Record \cup {None}]
  BY <1>1, Zenon DEF MapsShaped, Without
<1> HIDE DEF rs
<1>5. WorkersShaped' /\ CallsShaped' /\ ClockShaped'
  BY <1>1, <1>2, ShapesRead, Zenon
<1>6. ASSUME NEW k \in Keys, rs[k] # routes[k] PROVE rows[k] = None
  <2>1. KeyInv(k) /\ routes[k] # None /\ routes[k].session = s
    BY <1>3, <1>6, Zenon DEF IInv
  <2> QED BY <1>1, <1>2, <2>1, Zenon DEF KeyInv, RowsReferenced, Referenced
<1>7. \A k \in Keys : /\ rs[k] \in {routes[k], None}
                      /\ rs[k] # None => rs[k].session # s
  BY <1>3, Zenon
<1>8. revoking' \subseteq revoking /\ revoking \ revoking' = {s}
      /\ removing \ removing' = {} /\ removing' \subseteq removing
  BY <1>2, Zenon
<1> QED BY <1>2, <1>4, <1>5, <1>6, <1>7, <1>8, MapStepKeeps, Zenon

(* An owner in removing has no row, unless the account came back.          *)
LEMMA RevokeOwnerKeeps ==
    ASSUME IInv, NEW o \in Owners, RevokeOwnerRoutes(o)
    PROVE  IInv'
<1> DEFINE rs == Without(routes, KeysOfOwner(o))
<1>1. /\ WorkersShaped /\ CallsShaped /\ ClockShaped /\ MapsShaped
      /\ RowsReferenced /\ ("recreate" \notin Faults => removing \cap accounts = {})
  BY Zenon DEF IInv, Shaped, Exact
<1>2. /\ mu = None /\ SetRoutes(rs) /\ o \in removing /\ removing' = removing \ {o}
      /\ UNCHANGED <<table, revoking, rows, mu, accounts, now>>
      /\ UNCHANGED <<online, cands, call, pruned>>
  BY Zenon DEF RevokeOwnerRoutes
<1>3. \A k \in Keys : rs[k] = IF routes[k] # None /\ routes[k].owner = o
                              THEN None ELSE routes[k]
  BY Zenon DEF Without, KeysOfOwner
<1>4. rs \in [Keys -> Record \cup {None}] /\ rows \in [Keys -> Record \cup {None}]
  BY <1>1, Zenon DEF MapsShaped, Without
<1> HIDE DEF rs
<1>5. WorkersShaped' /\ CallsShaped' /\ ClockShaped'
  BY <1>1, <1>2, ShapesRead, Zenon
<1>6. ASSUME NEW k \in Keys, "recreate" \notin Faults, rs[k] # routes[k]
      PROVE  rows[k] = None
  <2>1. KeyInv(k) /\ routes[k] # None /\ routes[k].owner = o
    BY <1>3, <1>6, Zenon DEF IInv
  <2>2. o \notin accounts
    BY <1>1, <1>2, <1>6, Zenon
  <2> QED BY <1>1, <2>1, <2>2, Zenon DEF KeyInv, RowsReferenced, Referenced
<1>7. \A k \in Keys : /\ rs[k] \in {routes[k], None}
                      /\ rs[k] # None => rs[k].owner # o
  BY <1>3, Zenon
<1>8. removing' \subseteq removing /\ removing \ removing' = {o}
      /\ revoking \ revoking' = {} /\ revoking' \subseteq revoking
  BY <1>2, Zenon
<1> QED BY <1>2, <1>4, <1>5, <1>6, <1>7, <1>8, MapStepKeeps, Zenon

-----------------------------------------------------------------------------
(* The other steps that file nothing.                                      *)

(* A step that leaves rows and records alone.                              *)
LEMMA QuietKeeps ==
    ASSUME IInv, Shaped', UNCHANGED <<table, revoking, rows, routes, gone, accounts,
                                      removing, now>>,
           \A c \in Calls : \/ call'[c] = call[c]
                            \/ call[c].pc # "inserted" /\ call'[c].pc # "inserted"
    PROVE  IInv'
<1>1. now' >= now
  BY DEF IInv, Shaped, ClockShaped
<1>2. RowsReferenced'
  BY Zenon DEF IInv, RowsReferenced, Referenced
<1>3. \A k \in Keys, r \in Record : Backed(r, k) => Backed(r, k)'
  BY Zenon DEF Backed
<1>4. Shrinks
  BY <1>1, <1>3, Zenon DEF Shrinks
<1> QED BY <1>2, <1>4, ShrinksKeeps, Zenon

(* The session of a creation is resolved before the mutex is taken.        *)
LEMMA ResolveKeeps ==
    ASSUME IInv, NEW c \in Calls, NEW s \in Sessions, NEW n \in Nodes,
           ResolveProxySession(c, s, n)
    PROVE  IInv'
<1> DEFINE q == [pc |-> "mapped", session |-> s, node |-> n]
<1>1. /\ TableShaped /\ WorkersShaped /\ AccountsShaped /\ MapsShaped /\ CallsShaped
      /\ ClockShaped
  BY Zenon DEF IInv, Shaped
<1>2. /\ call[c] = Idle /\ call' = [call EXCEPT ![c] = q]
      /\ UNCHANGED <<table, revoking, rows, routes, gone, accounts, removing, now>>
      /\ UNCHANGED <<online, cands, mu, pruned>>
  BY Zenon DEF ResolveProxySession
<1>3. q \in Mapping /\ q.pc = "mapped"
  BY DEF Mapping
<1> HIDE DEF q
<1>4. call[c].pc = "idle"
  BY <1>2 DEF Idle
<1>5. /\ call' \in [Calls -> [pc : {"idle"}] \cup Mapping \cup Resolved \cup Inserted]
      /\ \A d \in Calls : call'[d] = IF d = c THEN q ELSE call[d]
  BY <1>1, <1>2, <1>3, Zenon DEF CallsShaped
<1>6. CallsShaped'
  <2>1. \A d \in Calls : CallShape(d)'
    BY <1>1, <1>2, <1>3, <1>5, Zenon DEF CallsShaped, CallShape
  <2> QED BY <1>1, <1>2, <1>4, <1>5, <2>1, Zenon DEF CallsShaped
<1>7. Shaped'
  BY <1>1, <1>2, <1>6, ShapesRead, Zenon DEF Shaped
<1>8. \A d \in Calls : \/ call'[d] = call[d]
                       \/ call[d].pc # "inserted" /\ call'[d].pc # "inserted"
  BY <1>3, <1>4, <1>5, Zenon
<1> QED BY <1>2, <1>7, <1>8, QuietKeeps, Zenon

(* A connection that is looked up after the route.                         *)
LEMMA CheckKeeps ==
    ASSUME IInv, NEW c \in Calls, CheckConnection(c)
    PROVE  IInv'
<1> DEFINE q == [pc |-> "resolved", session |-> call[c].session,
                 node |-> call[c].node, at |-> now]
<1>1. /\ TableShaped /\ WorkersShaped /\ AccountsShaped /\ MapsShaped /\ CallsShaped
      /\ ClockShaped
  BY Zenon DEF IInv, Shaped
<1>2. /\ call[c].pc = "mapped"
      /\ call' = [call EXCEPT ![c] = q] \/ call' = [call EXCEPT ![c] = Idle]
      /\ UNCHANGED <<table, revoking, rows, routes, gone, accounts, removing, now>>
      /\ UNCHANGED <<online, cands, mu, pruned>>
  BY Zenon DEF CheckConnection
<1>3. /\ q \in Resolved /\ q.pc = "resolved" /\ q.at = now /\ now <= now
      /\ Idle.pc = "idle"
  BY <1>1, <1>2 DEF Mapping, Resolved, ClockShaped, CallsShaped, CallShape, Idle
<1> HIDE DEF q
<1>4. call[c].pc # "inserted"
  BY <1>2
<1>5. CASE call' = [call EXCEPT ![c] = q]
  <2>1. /\ call' \in [Calls -> [pc : {"idle"}] \cup Mapping \cup Resolved \cup Inserted]
        /\ \A d \in Calls : call'[d] = IF d = c THEN q ELSE call[d]
    BY <1>1, <1>3, <1>5, Zenon DEF CallsShaped
  <2>2. CallsShaped'
    <3>1. \A d \in Calls : CallShape(d)'
      BY <1>1, <1>2, <1>3, <2>1, Zenon DEF CallsShaped, CallShape
    <3> QED BY <1>1, <1>2, <1>4, <2>1, <3>1, Zenon DEF CallsShaped
  <2>3. Shaped'
    BY <1>1, <1>2, <2>2, ShapesRead, Zenon DEF Shaped
  <2>4. \A d \in Calls : \/ call'[d] = call[d]
                         \/ call[d].pc # "inserted" /\ call'[d].pc # "inserted"
    BY <1>3, <1>4, <2>1, Zenon
  <2> QED BY <1>2, <2>3, <2>4, QuietKeeps, Zenon
<1>6. CASE call' = [call EXCEPT ![c] = Idle]
  <2>1. CallsShaped'
    BY <1>1, <1>2, <1>4, <1>6, CallIdles, Zenon
  <2>2. Shaped'
    BY <1>1, <1>2, <2>1, ShapesRead, Zenon DEF Shaped
  <2>3. \A d \in Calls : \/ call'[d] = call[d]
                         \/ call[d].pc # "inserted" /\ call'[d].pc # "inserted"
    BY <1>1, <1>3, <1>4, <1>6, Zenon DEF CallsShaped
  <2> QED BY <1>2, <2>2, <2>3, QuietKeeps, Zenon
<1> QED BY <1>2, <1>5, <1>6, Zenon

(* A request through the gateway reads only.                               *)
LEMMA GateKeeps ==
    ASSUME IInv, NEW g \in Gateways,
           AuthorizeProxyRoute(g) \/ SignToken(g) \/ Respond(g)
    PROVE  IInv'
<1>1. /\ TableShaped /\ WorkersShaped /\ AccountsShaped /\ MapsShaped /\ CallsShaped
      /\ ClockShaped
  BY Zenon DEF IInv, Shaped
<1>2. /\ UNCHANGED <<table, revoking, rows, routes, gone, accounts, removing, now>>
      /\ UNCHANGED <<online, cands, mu, call, pruned>>
  BY Zenon DEF AuthorizeProxyRoute, SignToken, Respond
<1>3. Shaped'
  BY <1>1, <1>2, ShapesRead, Zenon DEF Shaped
<1> QED BY <1>2, <1>3, QuietKeeps, Zenon

(* The pruner deletes the expired rows.                                    *)
LEMMA PruneRowsKeeps ==
    ASSUME IInv, PruneRows
    PROVE  IInv'
<1>1. /\ TableShaped /\ WorkersShaped /\ AccountsShaped /\ MapsShaped /\ CallsShaped
      /\ ClockShaped /\ RowsReferenced
  BY Zenon DEF IInv, Shaped
<1>2. /\ rows' = DeleteExpiredProxyRoutes(rows, now) /\ pruned' = now
      /\ UNCHANGED <<table, revoking, routes, gone, accounts, removing, now>>
      /\ UNCHANGED <<online, cands, mu, call>>
  BY Zenon DEF PruneRows
<1>3. now' >= now /\ now \in Nat
  BY <1>1, <1>2 DEF ClockShaped
<1>4. /\ rows' \in [Keys -> Record \cup {None}]
      /\ \A k \in Keys : rows'[k] = IF rows[k] # None /\ rows[k].expires <= now
                                    THEN None ELSE rows[k]
  BY <1>1, <1>2, MapFacts, Zenon DEF DeleteExpiredProxyRoutes
<1>5. Shaped'
  <2>1. MapsShaped'
    BY <1>1, <1>2, <1>4, Zenon DEF MapsShaped
  <2>2. ClockShaped'
    BY <1>1, <1>2, <1>3, Zenon DEF ClockShaped
  <2> QED BY <1>1, <1>2, <2>1, <2>2, ShapesRead, Zenon DEF Shaped
<1>6. RowsReferenced'
  BY <1>1, <1>2, <1>4, Zenon DEF RowsReferenced, Referenced
<1>7. ASSUME NEW k \in Keys, NEW r \in Record, Backed(r, k) PROVE Backed(r, k)'
  <2>1. r.expires \in Nat
    BY Zenon DEF Record
  <2> QED BY <1>2, <1>3, <1>4, <1>7, <2>1 DEF Backed
<1>8. Shrinks
  BY <1>2, <1>3, <1>4, <1>7, Zenon DEF Shrinks
<1> QED BY <1>5, <1>6, <1>8, ShrinksKeeps, Zenon

(* The rows that go with an account belong to an owner about to be revoked.*)
LEMMA DeleteAccountKeeps ==
    ASSUME IInv, NEW o \in Owners, DeleteAccount(o)
    PROVE  IInv'
<1>1. /\ TableShaped /\ WorkersShaped /\ AccountsShaped /\ MapsShaped /\ CallsShaped
      /\ ClockShaped /\ RowsReferenced
  BY Zenon DEF IInv, Shaped
<1>2. /\ accounts' = accounts \ {o} /\ removing' = removing \cup {o}
      /\ rows' = Cascade(table.rows, accounts')
      /\ UNCHANGED <<table, revoking, routes, gone, now>>
      /\ UNCHANGED <<online, cands, mu, call, pruned>>
  BY Zenon DEF DeleteAccount
<1>3. now' >= now
  BY <1>1, <1>2 DEF ClockShaped
<1>4. /\ rows' \in [Keys -> Record \cup {None}]
      /\ \A k \in Keys :
           rows'[k] = IF rows[k] # None /\ Referenced(rows[k], table.rows, accounts')
                      THEN rows[k] ELSE None
  BY <1>1, <1>2, MapFacts, Zenon DEF Cascade
<1>5. Shaped'
  <2>1. MapsShaped'
    BY <1>1, <1>2, <1>4, Zenon DEF MapsShaped
  <2>2. AccountsShaped'
    BY <1>1, <1>2, Zenon DEF AccountsShaped
  <2> QED BY <1>1, <1>2, <2>1, <2>2, ShapesRead, Zenon DEF Shaped
<1>6. RowsReferenced'
  BY <1>1, <1>2, <1>4, Zenon DEF RowsReferenced, Referenced
<1>7. ASSUME NEW k \in Keys, NEW r \in Record, Backed(r, k) PROVE Backed(r, k)'
  <2> SUFFICES ASSUME r.expires > now, r.owner \notin removing \cup {o},
                      r.session \notin revoking
               PROVE  rows'[k] = r
    BY <1>2, Zenon DEF Backed
  <2>1. rows[k] = r /\ r # None
    BY <1>7, NoneIsNoRecord, Zenon DEF Backed
  <2>2. Referenced(r, table.rows, accounts)
    BY <1>1, <2>1, Zenon DEF RowsReferenced
  <2>3. Referenced(r, table.rows, accounts')
    BY <1>2, <2>2, Zenon DEF Referenced
  <2> QED BY <1>4, <2>1, <2>3, Zenon
<1>8. removing \cap accounts = {} => removing' \cap accounts' = {}
  BY <1>2, Zenon
<1>9. Shrinks
  BY <1>2, <1>3, <1>4, <1>7, <1>8, Zenon DEF Shrinks
<1> QED BY <1>5, <1>6, <1>9, ShrinksKeeps, Zenon

(* An account is made, or made anew.                                       *)
LEMMA EnsureAccountKeeps ==
    ASSUME IInv, NEW o \in Owners, EnsureJITAccount(o)
    PROVE  IInv'
<1>1. /\ TableShaped /\ WorkersShaped /\ AccountsShaped /\ MapsShaped /\ CallsShaped
      /\ ClockShaped /\ RowsReferenced
  BY Zenon DEF IInv, Shaped
<1>2. /\ accounts' = accounts \cup {o} /\ (o \in removing => "recreate" \in Faults)
      /\ UNCHANGED <<table, revoking, rows, routes, gone, removing, now>>
      /\ UNCHANGED <<online, cands, mu, call, pruned>>
  BY Zenon DEF EnsureJITAccount
<1>3. now' >= now
  BY <1>1, <1>2 DEF ClockShaped
<1>4. AccountsShaped'
  BY <1>1, <1>2, Zenon DEF AccountsShaped
<1>5. Shaped'
  BY <1>1, <1>2, <1>4, ShapesRead, Zenon DEF Shaped
<1>6. RowsReferenced'
  BY <1>1, <1>2, Zenon DEF RowsReferenced, Referenced
<1>7. \A k \in Keys, r \in Record : Backed(r, k) => Backed(r, k)'
  BY <1>2, Zenon DEF Backed
<1>8. "recreate" \notin Faults /\ removing \cap accounts = {}
         => removing' \cap accounts' = {}
  BY <1>2, Zenon
<1>9. Shrinks
  BY <1>2, <1>3, <1>7, <1>8, Zenon DEF Shrinks
<1> QED BY <1>5, <1>6, <1>9, ShrinksKeeps, Zenon

(* Time passes: rows and records expire together.                          *)
LEMMA TickKeeps ==
    ASSUME IInv, Tick
    PROVE  IInv'
<1>1. /\ TableShaped /\ WorkersShaped /\ AccountsShaped /\ MapsShaped /\ CallsShaped
      /\ ClockShaped /\ RowsReferenced
  BY Zenon DEF IInv, Shaped
<1>2. /\ now < MaxTime /\ now' = now + 1
      /\ UNCHANGED <<table, revoking, rows, routes, gone, accounts, removing>>
      /\ UNCHANGED <<online, cands, mu, call, pruned>>
  BY Zenon DEF Tick
<1>3. now \in Nat /\ now' \in 0 .. MaxTime /\ now' >= now
  BY <1>1, <1>2, PreviewAssumption DEF ClockShaped
<1>4. CallsShaped'
  <2>1. ASSUME NEW c \in Calls PROVE CallShape(c)'
    <3>1. CallShape(c)
      BY <1>1, Zenon DEF CallsShaped
    <3>2. call[c].pc = "resolved" => call[c].at \in Nat
      BY <3>1, PreviewAssumption DEF CallShape, Resolved
    <3> QED BY <1>2, <1>3, <3>1, <3>2 DEF CallShape
  <2> QED BY <1>1, <1>2, <2>1, Zenon DEF CallsShaped
<1>5. ClockShaped'
  BY <1>1, <1>2, <1>3 DEF ClockShaped
<1>6. Shaped'
  BY <1>1, <1>2, <1>4, <1>5, ShapesRead, Zenon DEF Shaped
<1>7. RowsReferenced'
  BY <1>1, <1>2, Zenon DEF RowsReferenced, Referenced
<1>8. ASSUME NEW k \in Keys, NEW r \in Record, Backed(r, k) PROVE Backed(r, k)'
  <2>1. r.expires \in Nat
    BY Zenon DEF Record
  <2> QED BY <1>2, <1>3, <1>8, <2>1 DEF Backed
<1>9. Shrinks
  BY <1>2, <1>3, <1>8, Zenon DEF Shrinks
<1> QED BY <1>6, <1>7, <1>9, ShrinksKeeps, Zenon

-----------------------------------------------------------------------------
(* The steps that fill the map: the row, the record, and a restart.        *)

(* createRoute files the record of the row it inserted.                    *)
LEMMA FileRouteKeeps ==
    ASSUME IInv, NEW c \in Calls, FileRoute(c)
    PROVE  IInv'
<1> DEFINE k0 == call[c].key
           rec == call[c].record
<1>1. /\ TableShaped /\ WorkersShaped /\ AccountsShaped /\ MapsShaped /\ CallsShaped
      /\ ClockShaped /\ RowsReferenced
  BY Zenon DEF IInv, Shaped
<1>2. /\ call[c].pc = "inserted" /\ routes' = [routes EXCEPT ![k0] = rec]
      /\ mu' = None /\ call' = [call EXCEPT ![c] = Idle]
      /\ UNCHANGED <<table, revoking, rows, gone, accounts, removing, now>>
      /\ UNCHANGED <<online, cands, pruned>>
  BY Zenon DEF FileRoute, Unlock
<1>3. k0 \in Keys /\ rec \in Record /\ mu = c
  BY <1>1, <1>2, Zenon DEF CallsShaped, CallShape, Inserted
<1>4. \A d \in Calls : call[d].pc = "inserted" => d = c
  BY <1>1, <1>3, Zenon DEF CallsShaped, CallShape
<1>5. Filing(k0) = {c} /\ \A k : k # k0 => Filing(k) = {}
  BY <1>2, <1>4, Zenon DEF Filing
<1>6. \A d \in Calls : call'[d] = IF d = c THEN Idle ELSE call[d]
  BY <1>1, <1>2, Zenon DEF CallsShaped
<1>7. \A d \in Calls : call'[d].pc # "inserted"
  BY <1>4, <1>6 DEF Idle
<1>8. \A k : Filing(k)' = {}
  BY <1>7, Zenon DEF Filing
<1> HIDE DEF k0, rec
<1>9. /\ routes' \in [Keys -> Record \cup {None}]
      /\ \A k \in Keys : routes'[k] = IF k = k0 THEN rec ELSE routes[k]
  BY <1>1, <1>2, <1>3, Zenon DEF MapsShaped
<1>10. Shaped'
  <2>1. MapsShaped'
    BY <1>1, <1>2, <1>9, Zenon DEF MapsShaped
  <2>2. CallsShaped'
    <3>1. Idle.pc = "idle" /\ Idle \in [pc : {"idle"}]
      BY Zenon DEF Idle
    <3>2. call' \in [Calls -> [pc : {"idle"}] \cup Mapping \cup Resolved \cup Inserted]
      BY <1>1, <1>2, <3>1, Zenon DEF CallsShaped
    <3>3. ASSUME NEW d \in Calls PROVE CallShape(d)'
      <4>1. CASE d = c
        BY <1>6, <3>1, <4>1, Zenon DEF CallShape
      <4>2. CASE d # c
        BY <1>1, <1>2, <1>4, <1>6, <4>2, Zenon DEF CallsShaped, CallShape
      <4> QED BY <4>1, <4>2, Zenon
    <3> QED BY <1>2, <3>2, <3>3, Zenon DEF CallsShaped
  <2> QED BY <1>1, <1>2, <2>1, <2>2, ShapesRead, Zenon DEF Shaped
<1>11. RowsReferenced'
  BY <1>1, <1>2, Zenon DEF RowsReferenced, Referenced
<1>12. KeyInv(k0) /\ rows[k0] \in {None, rec} /\ Backed(rec, k0)
  BY <1>3, <1>5, Zenon DEF IInv, KeyInv, rec
<1>13. ASSUME NEW k \in Keys PROVE KeyInv(k)'
  <2>1. CASE k = k0
    <3>1. rows'[k] # None => rows'[k] = routes'[k]
      BY <1>2, <1>9, <1>12, <2>1, Zenon
    <3>2. Backed(routes[k], k)'
      BY <1>2, <1>9, <1>12, <2>1, Zenon DEF Backed
    <3> QED BY <1>8, <3>1, <3>2, Zenon DEF KeyInv
  <2>2. CASE k # k0
    BY <1>2, <1>8, <1>9, <2>2, Zenon DEF IInv, KeyInv, Backed
  <2> QED BY <2>1, <2>2, Zenon
<1>14. ASSUME Exact PROVE Exact'
  <2>1. RowsLoaded'
    BY <1>2, <1>5, <1>9, <1>12, <1>14, Zenon DEF Exact, RowsLoaded
  <2>2. GoneAbsent'
    <3>1. k0 \notin gone
      BY <1>5, <1>14, Zenon DEF Exact, GoneAbsent
    <3> QED BY <1>1, <1>2, <1>8, <1>9, <1>14, <3>1, Zenon DEF Exact, GoneAbsent, MapsShaped
  <2>3. ASSUME NEW k \in Keys PROVE Live(k)' \subseteq Live(k)
    <3> SUFFICES ASSUME NEW r \in Live(k)' PROVE r \in Live(k)
      BY Zenon
    <3>1. r \in {rows'[k], routes'[k]} /\ r # None /\ r.expires > now
      BY <1>2, <1>8, Zenon DEF Live
    <3>2. r \in {rows[k], routes[k]} \cup {call[d].record : d \in Filing(k)}
      BY <1>2, <1>5, <1>9, <3>1, Zenon DEF rec
    <3> QED BY <3>1, <3>2, Zenon DEF Live
  <2> QED BY <1>2, <1>14, <2>1, <2>2, <2>3, LimitsShrink, Zenon DEF Exact
<1> QED BY <1>10, <1>11, <1>13, <1>14, Zenon DEF IInv

(* Restore loads the rows, and what was removed has none.                  *)
LEMMA RestartKeeps ==
    ASSUME IInv, RestartConsole
    PROVE  IInv'
<1> DEFINE t == RestoreTerminalSessionRoutes(table, now)
           rs == Cascade(t.rows, accounts)
<1>1. /\ TableShaped /\ WorkersShaped /\ AccountsShaped /\ MapsShaped /\ CallsShaped
      /\ ClockShaped /\ RowsReferenced
  BY Zenon DEF IInv, Shaped
<1>2. /\ table' = t /\ revoking' = {} /\ rows' = Restore(rs) /\ routes' = rows'
      /\ mu' = None /\ call' = [c \in Calls |-> Idle]
      /\ gate' = [g \in Gateways |-> Idle]
      /\ cands' = [n \in Nodes |-> NoLeases] /\ online' = {}
      /\ removing' = {} /\ pruned' = None
      /\ UNCHANGED <<accounts, gone, now>>
  BY Zenon DEF RestartConsole
<1>3. TableConsistent(t) /\ LeasesExact(t) /\ now \in Nat
  <2>1. TableConsistent(table) /\ now \in Nat
    BY <1>1 DEF TableShaped, ClockShaped
  <2> QED BY <2>1, RestoreConsistent, RestoreExact, Zenon
<1> HIDE DEF t
<1>4. \A k \in Keys : rs[k] = IF rows[k] # None /\ Referenced(rows[k], t.rows, accounts)
                              THEN rows[k] ELSE None
  BY Zenon DEF Cascade
<1> HIDE DEF rs
<1>5. \A k \in Keys : rows'[k] = IF rs[k] # None /\ rs[k].expires <= now
                                 THEN None ELSE rs[k]
  BY <1>2, Zenon DEF Restore, DeleteExpiredProxyRoutes
<1>6. ASSUME NEW k \in Keys
      PROVE  /\ rows'[k] \in Record \cup {None}
             /\ rows'[k] # None => /\ rows'[k] = rows[k] /\ rows[k].expires > now
                                   /\ Referenced(rows[k], t.rows, accounts)
  <2>1. rows[k] # None => rows[k] \in Record /\ rows[k].expires \in Nat
    BY <1>1, MapFacts, Zenon DEF Record
  <2> QED BY <1>3, <1>4, <1>5, <2>1
<1>7. rows' \in [Keys -> Record \cup {None}]
  <2>1. rows' = [k \in Keys |-> rows'[k]]
    BY <1>2, Zenon DEF Restore, DeleteExpiredProxyRoutes
  <2> QED BY <1>6, <2>1, Zenon
<1>8. Idle.pc = "idle" /\ Idle \in [pc : {"idle"}]
  BY Zenon DEF Idle
<1>9. Shaped'
  <2>1. TableShaped'
    BY <1>2, <1>3, Zenon DEF TableShaped
  <2>2. WorkersShaped' /\ AccountsShaped' /\ ClockShaped'
    BY <1>1, <1>2, Zenon DEF WorkersShaped, AccountsShaped, ClockShaped
  <2>3. MapsShaped'
    BY <1>1, <1>2, <1>7, Zenon DEF MapsShaped
  <2>4. CallsShaped'
    BY <1>2, <1>8, Zenon DEF CallsShaped, CallShape
  <2> QED BY <2>1, <2>2, <2>3, <2>4, Zenon DEF Shaped
<1>10. \A k : Filing(k)' = {}
  BY <1>2, <1>8, Zenon DEF Filing
<1>11. RowsReferenced'
  BY <1>2, <1>6, Zenon DEF RowsReferenced, Referenced
<1>12. \A k \in Keys : KeyInv(k)'
  BY <1>2, <1>10, Zenon DEF KeyInv, Backed
<1>13. ASSUME Exact PROVE Exact'
  <2>1. RowsLoaded'
    BY <1>2, Zenon DEF RowsLoaded
  <2>2. GoneAbsent'
    <3> SUFFICES ASSUME NEW k \in gone PROVE rows'[k] = None
      BY <1>2, <1>10, Zenon DEF GoneAbsent
    <3>1. k \in Keys /\ routes[k] = None /\ Filing(k) = {}
      BY <1>1, <1>13, Zenon DEF MapsShaped, Exact, GoneAbsent
    <3> QED BY <1>6, <1>13, <3>1 DEF Exact, RowsLoaded
  <2>3. ASSUME NEW k \in Keys PROVE Live(k)' \subseteq Live(k)
    <3> SUFFICES ASSUME NEW r \in Live(k)' PROVE r \in Live(k)
      BY Zenon
    <3>1. r = rows'[k] /\ r # None
      BY <1>2, <1>10, Zenon DEF Live
    <3>2. r = rows[k] /\ r.expires > now
      BY <1>6, <3>1, Zenon
    <3> QED BY <3>1, <3>2, Zenon DEF Live
  <2> QED BY <1>2, <1>13, <2>1, <2>2, <2>3, LimitsShrink, Zenon DEF Exact
<1> QED BY <1>9, <1>11, <1>12, <1>13, Zenon DEF IInv

(* One key more than a set that was below the limit.                       *)
LEMMA OneMore ==
    ASSUME KeysCountable, NEW B \in SUBSET Keys, NEW k \in Keys, NEW n \in Nat,
           ~(Cardinality(B) >= n), NEW A \in SUBSET (B \cup {k})
    PROVE  Cardinality(A) <= n
<1> DEFINE C == B \cup {k}
<1>1. C \in SUBSET Keys
  BY Zenon
<1>2. /\ Cardinality(A) \in Nat /\ Cardinality(A) <= Cardinality(C)
      /\ Cardinality(B) \in Nat /\ Cardinality(C) <= Cardinality(B) + 1
      /\ Cardinality(C) \in Nat
  BY <1>1, Zenon DEF KeysCountable
<1> HIDE DEF C
<1> QED BY <1>2

(* The row is inserted under h.mu, after the pruned map was counted: the   *)
(* map holds every row that is still good, so that counting it is enough.  *)
LEMMA InsertRowKeeps ==
    ASSUME IInv, NEW c \in Calls, InsertRow(c)
    PROVE  IInv'
<1> DEFINE q == call[c]
           rs == PruneLocked(q.at)
           s == q.session
           o == OwnerOf(s)
           rec == NewRecord(q)
<1>1. /\ TableShaped /\ WorkersShaped /\ AccountsShaped /\ MapsShaped /\ CallsShaped
      /\ ClockShaped /\ RowsReferenced
  BY Zenon DEF IInv, Shaped
<1>2. /\ q.pc = "resolved" /\ mu = None
      /\ ~AccountFull(rs, o) /\ ~SessionFull(rs, s)
      /\ TerminalRowAccepts(s, q.node, q.at) /\ o \in accounts
      /\ routes' = rs /\ mu' = c
      /\ UNCHANGED <<table, revoking, accounts, removing, now>>
      /\ UNCHANGED <<online, cands, pruned>>
  BY Zenon DEF InsertRow
<1>3. PICK k0 \in Drawable(rs) :
         /\ rows' = [rows EXCEPT ![k0] = rec]
         /\ call' = [call EXCEPT ![c] = [pc |-> "inserted", key |-> k0, record |-> rec]]
         /\ gone' = (gone \cup Missing(rs)) \ {k0}
  BY Zenon DEF InsertRow
<1>4. /\ s \in Sessions /\ q.node \in Nodes /\ q.at \in 0 .. MaxTime
      /\ q.at \in Nat /\ q.at <= now /\ o \in Owners
  <2>1. q \in Resolved /\ q.at <= now
    BY <1>1, <1>2, Zenon DEF CallsShaped, CallShape
  <2> QED BY <2>1, PreviewAssumption DEF Resolved
<1>5. /\ rec \in Record /\ rec.owner = o /\ rec.session = s /\ rec.node = q.node
      /\ rec # None
  <2>1. q.at + ProxyTTL \in Nat
    BY <1>4, PreviewAssumption
  <2>2. rec \in Record /\ rec.owner = o /\ rec.session = s /\ rec.node = q.node
    BY <1>4, <2>1, Zenon DEF NewRecord, Record
  <2> QED BY <2>2, NoneIsNoRecord, Zenon
<1>6. /\ rs \in [Keys -> Record \cup {None}]
      /\ \A k \in Keys :
           /\ rs[k] \in {routes[k], None}
           /\ rs[k] # routes[k] => rows[k] = None \/ ~(rows[k].expires > now)
  BY <1>4, PrunedFacts, Zenon
<1>7. k0 \in Keys /\ rs[k0] = None /\ rows[k0] = None
  BY Zenon DEF Drawable
<1>8. \A k : Filing(k) = {}
  BY <1>1, <1>2, NobodyFiles, Zenon
<1>9. \A d \in Calls : call[d].pc # "inserted"
  BY <1>1, <1>2, NobodyFiles, Zenon
<1> DEFINE w == [pc |-> "inserted", key |-> k0, record |-> rec]
<1> HIDE DEF rs, rec, s, o, q
<1>10. w \in Inserted /\ w.pc = "inserted" /\ w.key = k0 /\ w.record = rec
  BY <1>5, <1>7, Zenon DEF Inserted
<1>11. call' = [call EXCEPT ![c] = w]
  BY <1>3, Zenon
<1> HIDE DEF w
<1>12. /\ call' \in [Calls -> [pc : {"idle"}] \cup Mapping \cup Resolved \cup Inserted]
       /\ \A d \in Calls : call'[d] = IF d = c THEN w ELSE call[d]
  BY <1>1, <1>10, <1>11, Zenon DEF CallsShaped
<1>13. \A k : Filing(k)' = IF k = k0 THEN {c} ELSE {}
  BY <1>9, <1>10, <1>12, Zenon DEF Filing
<1>14. /\ rows' \in [Keys -> Record \cup {None}]
       /\ \A k \in Keys : rows'[k] = IF k = k0 THEN rec ELSE rows[k]
  BY <1>1, <1>3, <1>5, <1>7, Zenon DEF MapsShaped
<1>15. Shaped'
  <2>1. MapsShaped'
    BY <1>1, <1>2, <1>3, <1>6, <1>14, Zenon DEF MapsShaped, Missing
  <2>2. \A d \in Calls : CallShape(d)'
    BY <1>1, <1>2, <1>9, <1>10, <1>12, Zenon DEF CallsShaped, CallShape
  <2>3. CallsShaped'
    BY <1>2, <1>10, <1>12, <2>2, Zenon DEF CallsShaped
  <2> QED BY <1>1, <1>2, <2>1, <2>3, ShapesRead, Zenon DEF Shaped
<1>16. RowsReferenced'
  <2>1. Referenced(rec, table.rows, accounts)
    BY <1>2, <1>5, Zenon DEF Referenced, TerminalRowAccepts
  <2> QED BY <1>1, <1>2, <1>14, <2>1, Zenon DEF RowsReferenced, Referenced
<1>17. ASSUME NEW k \in Keys PROVE KeyInv(k)'
  <2>1. CASE k = k0
    <3>1. routes'[k] = None /\ rows'[k] = rec /\ Filing(k)' = {c}
      BY <1>2, <1>7, <1>13, <1>14, <2>1, Zenon
    <3>2. call'[c].record = rec
      BY <1>10, <1>12, Zenon
    <3>3. Backed(call[c].record, k)'
      BY <3>1, <3>2, Zenon DEF Backed
    <3> QED BY <3>1, <3>2, <3>3, Zenon DEF KeyInv
  <2>2. CASE k # k0
    <3>1. rows'[k] = rows[k] /\ routes'[k] \in {routes[k], None} /\ Filing(k)' = {}
      BY <1>2, <1>6, <1>13, <1>14, <2>2, Zenon
    <3>2. KeyInv(k)
      BY Zenon DEF IInv
    <3> QED BY <1>2, <3>1, <3>2, Zenon DEF KeyInv, Backed
  <2> QED BY <2>1, <2>2, Zenon
<1>18. ASSUME Exact PROVE Exact'
  <2>1. ASSUME NEW k \in Keys, rows[k] # None, rows[k].expires > now
        PROVE  rs[k] = rows[k]
    BY <1>6, <1>8, <1>18, <2>1, Zenon DEF Exact, RowsLoaded
  <2>2. RowsLoaded'
    BY <1>2, <1>13, <1>14, <2>1, Zenon DEF RowsLoaded
  <2>3. GoneAbsent'
    <3> SUFFICES ASSUME NEW k \in gone' PROVE rs[k] = None /\ Filing(k)' = {}
      BY <1>2, Zenon DEF GoneAbsent
    <3>1. k # k0 /\ k \in Keys /\ (k \in gone \/ k \in Missing(rs))
      BY <1>1, <1>3, Zenon DEF MapsShaped, Missing
    <3>2. k \in gone => routes[k] = None
      BY <1>18, Zenon DEF Exact, GoneAbsent
    <3> QED BY <1>6, <1>13, <3>1, <3>2, Zenon DEF Missing
  <2>4. ASSUME NEW k \in Keys, NEW r \in Live(k)'
        PROVE  /\ k = k0 => r = rec
               /\ k # k0 => r = rs[k] /\ r # None /\ r \in Live(k)
    <3>1. r \in {rows'[k], rs[k]} \cup {call'[d].record : d \in Filing(k)'}
          /\ r # None /\ r.expires > now
      BY <1>2, Zenon DEF Live
    <3>2. CASE k = k0
      <4>1. call'[c].record = rec
        BY <1>10, <1>12, Zenon
      <4> QED BY <1>7, <1>13, <1>14, <3>1, <3>2, <4>1, Zenon
    <3>3. CASE k # k0
      <4>1. r \in {rows[k], rs[k]}
        BY <1>13, <1>14, <3>1, <3>3, Zenon
      <4>2. r = rs[k]
        BY <2>1, <3>1, <4>1, Zenon
      <4>3. r = routes[k]
        BY <1>6, <3>1, <4>2, Zenon
      <4> QED BY <3>1, <3>3, <4>2, <4>3, Zenon DEF Live
    <3> QED BY <3>2, <3>3, Zenon
  <2>5. ASSUME NEW x \in Owners PROVE Cardinality(OwnerKeys(x)') <= MaxPerAccount
    <3>1. CASE x = o
      <4> DEFINE B == {k \in Keys : rs[k] # None /\ rs[k].owner = o}
      <4>1. ~(Cardinality(B) >= MaxPerAccount) /\ B \in SUBSET Keys
        BY <1>2, Zenon DEF AccountFull
      <4>2. OwnerKeys(x)' \in SUBSET (B \cup {k0})
        BY <2>4, <3>1, Zenon DEF OwnerKeys
      <4> QED BY <1>7, <1>18, <4>1, <4>2, OneMore, PreviewAssumption, Zenon
                 DEF Exact, WithinLimits
    <3>2. CASE x # o
      <4>1. OwnerKeys(x)' \subseteq OwnerKeys(x) /\ OwnerKeys(x) \in SUBSET Keys
        BY <1>5, <2>4, <3>2, Zenon DEF OwnerKeys
      <4> QED BY <1>18, <4>1, FewerKeys, PreviewAssumption, Zenon DEF Exact, WithinLimits
    <3> QED BY <3>1, <3>2, Zenon
  <2>6. ASSUME NEW x \in Sessions PROVE Cardinality(SessionKeys(x)') <= MaxPerSession
    <3>1. CASE x = s
      <4> DEFINE B == {k \in Keys : rs[k] # None /\ rs[k].session = s}
      <4>1. ~(Cardinality(B) >= MaxPerSession) /\ B \in SUBSET Keys
        BY <1>2, Zenon DEF SessionFull
      <4>2. SessionKeys(x)' \in SUBSET (B \cup {k0})
        BY <2>4, <3>1, Zenon DEF SessionKeys
      <4> QED BY <1>7, <1>18, <4>1, <4>2, OneMore, PreviewAssumption, Zenon
                 DEF Exact, WithinLimits
    <3>2. CASE x # s
      <4>1. SessionKeys(x)' \subseteq SessionKeys(x) /\ SessionKeys(x) \in SUBSET Keys
        BY <1>5, <2>4, <3>2, Zenon DEF SessionKeys
      <4> QED BY <1>18, <4>1, FewerKeys, PreviewAssumption, Zenon DEF Exact, WithinLimits
    <3> QED BY <3>1, <3>2, Zenon
  <2>7. WithinLimits'
    <3>1. KeysCountable'
      BY <1>18, Zenon DEF Exact, WithinLimits, KeysCountable
    <3> QED BY <2>5, <2>6, <3>1, Zenon DEF WithinLimits
  <2> QED BY <1>2, <1>18, <2>2, <2>3, <2>7, Zenon DEF Exact
<1> QED BY <1>15, <1>16, <1>17, <1>18, Zenon DEF IInv

-----------------------------------------------------------------------------
(* Every step keeps the invariant.                                         *)
LEMMA NextKeeps == IInv /\ [Next]_vars => IInv'
<1> SUFFICES ASSUME IInv, [Next]_vars PROVE IInv'
  BY Zenon
<1>1. CASE UNCHANGED vars
  <2>1. Shaped'
    BY <1>1, ShapesRead, Zenon DEF IInv, Shaped, vars
  <2> QED BY <1>1, <2>1, QuietKeeps, Zenon DEF vars
<1>2. ASSUME NEW s \in Sessions, RevokeSessionRoutes(s) PROVE IInv'
  BY <1>2, RevokeSessionKeeps, Zenon
<1>3. ASSUME NEW s \in Sessions,
             \/ ConfirmSession(s) \/ ConfirmInMemory(s)
             \/ \E ok \in BOOLEAN : ClearSession(s, ok)
             \/ \E ok \in BOOLEAN : SnapshotExpired(s, ok)
             \/ \E n \in Nodes : ReserveSession(s, n)
      PROVE  IInv'
  BY <1>3, SessionStepKeeps, Zenon
<1>4. ASSUME NEW ok \in BOOLEAN, PruneSessions(ok) PROVE IInv'
  BY <1>4, PruneStepKeeps, Zenon
<1>5. ASSUME NEW n \in Nodes,
             \/ WorkerLost(n) \/ WorkerConnects(n) \/ RemoveWorkerRoutes(n)
             \/ \E R \in SUBSET Sessions : WorkerRecovers(n, R)
      PROVE  IInv'
  BY <1>5, WorkerStepKeeps, Zenon
<1>6. ASSUME NEW c \in Calls, NEW s \in Sessions, NEW n \in Nodes,
             ResolveProxySession(c, s, n)
      PROVE  IInv'
  BY <1>6, ResolveKeeps, Zenon
<1>7. ASSUME NEW c \in Calls, InsertRow(c) PROVE IInv'
  BY <1>7, InsertRowKeeps, Zenon
<1>8. ASSUME NEW c \in Calls, FileRoute(c) PROVE IInv'
  BY <1>8, FileRouteKeeps, Zenon
<1>9. ASSUME \/ List \/ PruneMap
             \/ \E c \in Calls : RefuseCreation(c)
             \/ \E g \in Gateways, k \in Keys : GetRoute(g, k)
      PROVE  IInv'
  BY <1>9, HandlerStepKeeps, Zenon
<1>10. CASE PruneRows
  BY <1>10, PruneRowsKeeps, Zenon
<1>11. ASSUME NEW o \in Owners, NEW k \in Keys, NEW ok \in BOOLEAN, Delete(o, k, ok)
       PROVE  IInv'
  BY <1>11, DeleteKeeps, Zenon
<1>12. ASSUME NEW o \in Owners, DeleteAccount(o) PROVE IInv'
  BY <1>12, DeleteAccountKeeps, Zenon
<1>13. ASSUME NEW o \in Owners, RevokeOwnerRoutes(o) PROVE IInv'
  BY <1>13, RevokeOwnerKeeps, Zenon
<1>14. ASSUME NEW o \in Owners, EnsureJITAccount(o) PROVE IInv'
  BY <1>14, EnsureAccountKeeps, Zenon
<1>15. ASSUME NEW g \in Gateways, AuthorizeProxyRoute(g) \/ SignToken(g) \/ Respond(g)
       PROVE  IInv'
  BY <1>15, GateKeeps, Zenon
<1>18. ASSUME NEW c \in Calls, CheckConnection(c) PROVE IInv'
  BY <1>18, CheckKeeps, Zenon
<1>16. CASE RestartConsole
  BY <1>16, RestartKeeps, Zenon
<1>17. CASE Tick
  BY <1>17, TickKeeps, Zenon
<1> QED BY <1>1, <1>2, <1>3, <1>4, <1>5, <1>6, <1>7, <1>8, <1>9, <1>10, <1>11,
           <1>12, <1>13, <1>14, <1>15, <1>16, <1>17, <1>18, Zenon DEF Next

-----------------------------------------------------------------------------
FS == INSTANCE FiniteSetTheorems

(* There are finitely many keys, so they can be counted.                   *)
LEMMA AllKeysCountable == KeysCountable
<1>1. /\ \A T : FS!Cardinality(T) = Cardinality(T)
      /\ \A T : FS!IsFiniteSet(T) = IsFiniteSet(T)
  BY DEF Cardinality, FS!Cardinality, IsFiniteSet, FS!IsFiniteSet
<1>2. FS!IsFiniteSet(Keys)
  BY <1>1, PreviewAssumption, Zenon
<1>3. FS!Cardinality({}) = 0
  BY FS!FS_EmptySet, Zenon
<1>4. ASSUME NEW B \in SUBSET Keys
      PROVE  /\ FS!Cardinality(B) \in Nat
             /\ \A A \in SUBSET B : FS!Cardinality(A) <= FS!Cardinality(B)
             /\ \A k \in Keys : FS!Cardinality(B \cup {k}) <= FS!Cardinality(B) + 1
  <2>1. FS!IsFiniteSet(B)
    BY <1>2, FS!FS_Subset, Zenon
  <2>2. FS!Cardinality(B) \in Nat
    BY <2>1, FS!FS_CardinalityType, Zenon
  <2>3. \A A \in SUBSET B : FS!Cardinality(A) <= FS!Cardinality(B)
    BY <2>1, FS!FS_Subset, Zenon
  <2>4. \A k \in Keys : FS!Cardinality(B \cup {k}) =
            IF k \in B THEN FS!Cardinality(B) ELSE FS!Cardinality(B) + 1
    BY <2>1, FS!FS_AddElement, Zenon
  <2> HIDE DEF FS!Cardinality
  <2>5. \A k \in Keys : FS!Cardinality(B \cup {k}) <= FS!Cardinality(B) + 1
    BY <2>2, <2>4
  <2> QED BY <2>2, <2>3, <2>5, Zenon
<1> QED BY <1>1, <1>3, <1>4, Zenon DEF KeysCountable

(* Initially there is nothing.                                             *)
LEMMA InitEstablishes == Init => IInv
<1> SUFFICES ASSUME Init PROVE IInv
  BY Zenon
<1>1. TableConsistent(table) /\ LeasesExact(table) /\ \A s \in Sessions : table.rows[s] = NoRow
  BY EmptyTableConsistent, Zenon DEF Init, EmptyTable, LeasesExact
<1>2. Idle.pc = "idle" /\ Idle \in [pc : {"idle"}]
  BY Zenon DEF Idle
<1>3. Shaped
  <2>1. TableShaped /\ WorkersShaped /\ AccountsShaped /\ MapsShaped
    BY <1>1, Zenon DEF Init, TableShaped, WorkersShaped, AccountsShaped, MapsShaped
  <2>2. CallsShaped
    BY <1>2, Zenon DEF Init, CallsShaped, CallShape
  <2>3. ClockShaped
    BY PreviewAssumption DEF Init, ClockShaped
  <2> QED BY <2>1, <2>2, <2>3, Zenon DEF Shaped
<1>4. \A k \in Keys : rows[k] = None /\ routes[k] = None
  BY Zenon DEF Init
<1>5. \A k : Filing(k) = {}
  BY <1>2, Zenon DEF Init, Filing
<1>6. RowsReferenced /\ (\A k \in Keys : KeyInv(k)) /\ RowsLoaded /\ GoneAbsent
  BY <1>4, <1>5, Zenon DEF Init, RowsReferenced, KeyInv, RowsLoaded, GoneAbsent
<1>7. WithinLimits
  <2>1. \A k \in Keys : Live(k) = {}
    BY <1>4, <1>5, Zenon DEF Live
  <2>2. \A o \in Owners : OwnerKeys(o) = {}
    BY <2>1, Zenon DEF OwnerKeys
  <2>3. \A s \in Sessions : SessionKeys(s) = {}
    BY <2>1, Zenon DEF SessionKeys
  <2>4. KeysCountable
    BY AllKeysCountable
  <2>5. Cardinality({}) = 0
    BY <2>4, Zenon DEF KeysCountable
  <2>6. /\ \A o \in Owners : Cardinality(OwnerKeys(o)) <= MaxPerAccount
        /\ \A s \in Sessions : Cardinality(SessionKeys(s)) <= MaxPerSession
    <3>1. 0 <= MaxPerAccount /\ 0 <= MaxPerSession
      BY PreviewAssumption
    <3> QED BY <2>2, <2>3, <2>5, <3>1, Zenon
  <2> QED BY <2>4, <2>6, Zenon DEF WithinLimits
<1>8. removing \cap accounts = {}
  BY Zenon DEF Init
<1> QED BY <1>3, <1>6, <1>7, <1>8, Zenon DEF IInv, Exact

(* Whatever the rows, the map, the requests and the terminal routes do in  *)
(* whatever order, they stay related as IInv says.                         *)
THEOREM Invariant == Spec => []IInv
  BY InitEstablishes, NextKeeps, PTL DEF Spec

(* A route that getRoute can find is backed by its row in proxy_routes,    *)
(* unless whoever deleted the row is about to revoke it, with any faults.  *)
THEOREM RoutesBackedByRows == Spec => []RoutesPersisted
<1>1. IInv => RoutesPersisted
  BY Zenon DEF IInv, KeyInv, Backed, RoutesPersisted
<1> QED BY Invariant, <1>1, PTL

(* No removal leaves a row behind that Restore would load, for any number  *)
(* of crashes, when no deleted account is made anew before it is revoked.  *)
THEOREM RemovalIsFinal ==
    ASSUME "recreate" \notin Faults
    PROVE  Spec => []RemovedStaysRemoved
<1>1. IInv => RemovedStaysRemoved
  BY Zenon DEF IInv, Exact, GoneAbsent, RemovedStaysRemoved
<1> QED BY Invariant, <1>1, PTL

(* The limits that createRoute checks hold at every moment, restarts       *)
(* included, on the same condition.                                        *)
THEOREM RoutesWithinLimits ==
    ASSUME "recreate" \notin Faults
    PROVE  Spec => []LimitsKept
<1>1. IInv => LimitsKept
  <2> SUFFICES ASSUME IInv PROVE LimitsKept
    BY Zenon
  <2> DEFINE active == {k \in Keys : routes[k] # None /\ routes[k].expires > now}
  <2>1. WithinLimits
    BY Zenon DEF IInv, Exact
  <2>2. \A k \in active : routes[k] \in Live(k)
    BY Zenon DEF Live
  <2>3. ASSUME NEW o \in Owners
        PROVE  Cardinality({k \in active : routes[k].owner = o}) <= MaxPerAccount
    <3>1. /\ OwnerKeys(o) \in SUBSET Keys
          /\ {k \in active : routes[k].owner = o} \in SUBSET OwnerKeys(o)
      BY <2>2, Zenon DEF OwnerKeys
    <3> QED BY <2>1, <3>1, FewerKeys, PreviewAssumption, Zenon DEF WithinLimits
  <2>4. ASSUME NEW s \in Sessions
        PROVE  Cardinality({k \in active : routes[k].session = s}) <= MaxPerSession
    <3>1. /\ SessionKeys(s) \in SUBSET Keys
          /\ {k \in active : routes[k].session = s} \in SUBSET SessionKeys(s)
      BY <2>2, Zenon DEF SessionKeys
    <3> QED BY <2>1, <3>1, FewerKeys, PreviewAssumption, Zenon DEF WithinLimits
  <2> QED BY <2>3, <2>4, Zenon DEF LimitsKept
<1> QED BY Invariant, <1>1, PTL

-----------------------------------------------------------------------------
(* Tokens.  A request has read the clock no later than now; once it found  *)
(* the terminal route, the route stands or has ended since that reading.   *)
Gate == [pc : {"found", "mapped", "granted"}, record : Record, at : Nat,
         ended : Nat \cup {None}]

GateOK(q, t, m) ==
    q # Idle => /\ q \in Gate /\ q.at <= m
                /\ q.pc # "found" => \/ Confirmed(t, q.record)
                                     \/ q.ended \in Nat /\ q.at <= q.ended

GatesOK == /\ DOMAIN gate = Gateways
           /\ \A g \in Gateways : GateOK(gate[g], table, now)

(* A step on the terminal routes notes the end of a route.                 *)
LEMMA WatchedOK ==
    ASSUME GatesOK, now \in Nat, NEW t, UnderRoutesLock(t), now' = now
    PROVE  GatesOK'
<1>1. table' = t /\ gate' = Watched(t)
  BY Zenon DEF UnderRoutesLock
<1>2. ASSUME NEW g \in Gateways
      PROVE  GateOK(gate'[g], t, now)
  <2> DEFINE q == gate[g]
             ends == /\ q.pc \in {"mapped", "granted"}
                     /\ Confirmed(table, q.record) /\ ~Confirmed(t, q.record)
  <2>1. gate'[g] = IF ends THEN [q EXCEPT !.ended = now] ELSE q
    BY <1>1, Zenon DEF Watched
  <2>2. GateOK(q, table, now)
    BY Zenon DEF GatesOK
  <2>3. CASE ends
    <3>1. q # Idle /\ q \in Gate /\ q.at <= now
      BY <2>2, <2>3 DEF GateOK, Idle
    <3>2. gate'[g] \in Gate /\ gate'[g].ended = now /\ gate'[g].at = q.at
      BY <2>1, <2>3, <3>1 DEF Gate
    <3> QED BY <3>1, <3>2, Zenon DEF GateOK
  <2>4. CASE ~ends
    <3>1. gate'[g] = q
      BY <2>1, <2>4, Zenon
    <3>2. q \in Gate /\ q.pc # "found" => q.pc \in {"mapped", "granted"}
      BY DEF Gate
    <3>3. ~Confirmed(t, q.record) /\ q \in Gate /\ q.pc # "found"
            => ~Confirmed(table, q.record)
      BY <2>4, <3>2, Zenon
    <3> HIDE DEF q, ends
    <3> QED BY <2>2, <3>1, <3>3, Zenon DEF GateOK
  <2> QED BY <2>3, <2>4, Zenon
<1>3. DOMAIN gate' = Gateways
  BY <1>1, Zenon DEF Watched
<1> QED BY <1>1, <1>2, <1>3, Zenon DEF GatesOK

(* One request moves on.                                                   *)
LEMMA GateMoves ==
    ASSUME GatesOK, NEW g \in Gateways, NEW q, GateOK(q, table, now),
           gate' = [gate EXCEPT ![g] = q], table' = table, now' = now
    PROVE  GatesOK'
<1>1. \A h \in Gateways : gate'[h] = IF h = g THEN q ELSE gate[h]
  BY Zenon DEF GatesOK
<1>2. \A h \in Gateways : GateOK(gate'[h], table, now)
  BY <1>1, Zenon DEF GatesOK
<1> QED BY <1>2, Zenon DEF GatesOK

(* The steps of a request.                                                 *)
LEMMA RequestOK ==
    ASSUME IInv, GatesOK, NEW g \in Gateways,
           \/ \E k \in Keys : GetRoute(g, k)
           \/ AuthorizeProxyRoute(g) \/ SignToken(g) \/ Respond(g)
    PROVE  GatesOK'
<1>a. table' = table /\ now' = now
  BY Zenon DEF GetRoute, AuthorizeProxyRoute, SignToken, Respond
<1>b. now \in Nat /\ now <= now
  BY PreviewAssumption DEF IInv, Shaped, ClockShaped
<1>1. table' = table /\ now' = now /\ now \in Nat /\ now <= now
  BY <1>a, <1>b, Zenon
<1>2. GateOK(gate[g], table, now) /\ GateOK(Idle, table, now)
  BY Zenon DEF GatesOK, GateOK
<1>3. ASSUME gate[g].pc # "idle"
      PROVE  /\ gate[g] \in Gate /\ gate[g].at <= now
             /\ gate[g].pc # "found" => \/ Confirmed(table, gate[g].record)
                                        \/ /\ gate[g].ended \in Nat
                                           /\ gate[g].at <= gate[g].ended
  <2>1. gate[g] # Idle
    BY <1>3 DEF Idle
  <2> QED BY <1>2, <2>1, Zenon DEF GateOK
<1>4. ASSUME NEW k \in Keys, GetRoute(g, k) PROVE GatesOK'
  <2> DEFINE rs == PruneLocked(now)
             q  == [pc |-> "found", record |-> rs[k], at |-> now, ended |-> None]
  <2>1. gate' = [gate EXCEPT ![g] = q] /\ rs[k] # None
    BY <1>4, Zenon DEF GetRoute
  <2>2. rs[k] \in Record
    <3>1. rs \in [Keys -> Record \cup {None}]
      BY <1>1, PrunedFacts, Zenon
    <3> HIDE DEF rs
    <3> QED BY <2>1, <3>1, Zenon
  <2> HIDE DEF rs
  <2>3. q \in Gate /\ q.pc = "found" /\ q.at <= now
    BY <1>1, <2>2 DEF Gate
  <2> HIDE DEF q
  <2>4. GateOK(q, table, now)
    BY <2>3, Zenon DEF GateOK
  <2> QED BY <1>1, <2>1, <2>4, GateMoves, Zenon
<1>5. CASE AuthorizeProxyRoute(g)
  <2>1. PICK at \in gate[g].at .. now :
          gate' = [gate EXCEPT ![g] =
                     IF Authorized(gate[g].record, at)
                       THEN [gate[g] EXCEPT !.pc = "mapped", !.at = at] ELSE Idle]
    BY <1>5, Zenon DEF AuthorizeProxyRoute
  <2>2. gate[g].pc = "found" /\ gate[g].pc # "idle"
    BY <1>5 DEF AuthorizeProxyRoute
  <2>3. CASE Authorized(gate[g].record, at)
    <3> DEFINE q == [gate[g] EXCEPT !.pc = "mapped", !.at = at]
    <3>1. gate[g] \in Gate
      BY <1>3, <2>2, Zenon
    <3>a. at \in Nat /\ at <= now
      <4>1. gate[g].at \in Nat
        BY <3>1 DEF Gate
      <4> QED BY <1>1, <4>1
    <3>2. q \in Gate /\ q.at <= now /\ q.record = gate[g].record
      BY <3>1, <3>a DEF Gate
    <3>3. Confirmed(table, gate[g].record)
      BY <2>3, Zenon DEF Authorized, ProxyWorkerIs, SnapshotFinds, Confirmed, RoutedTo,
         Provisional
    <3>4. gate' = [gate EXCEPT ![g] = q]
      BY <2>1, <2>3, Zenon
    <3> HIDE DEF q
    <3>5. GateOK(q, table, now)
      BY <3>2, <3>3, Zenon DEF GateOK
    <3> QED BY <1>1, <3>4, <3>5, GateMoves, Zenon
  <2>4. CASE ~Authorized(gate[g].record, at)
    <3>1. gate' = [gate EXCEPT ![g] = Idle]
      BY <2>1, <2>4, Zenon
    <3> QED BY <1>1, <1>2, <3>1, GateMoves, Zenon
  <2> QED BY <2>3, <2>4, Zenon
<1>6. CASE SignToken(g)
  <2> DEFINE q == [gate[g] EXCEPT !.pc = "granted"]
  <2>1. /\ gate[g].pc = "mapped" /\ gate[g].pc # "idle" /\ gate[g].pc # "found"
        /\ gate' = [gate EXCEPT ![g] = q] \/ gate' = [gate EXCEPT ![g] = Idle]
    BY <1>6 DEF SignToken
  <2>2. /\ gate[g] \in Gate /\ gate[g].at <= now
        /\ \/ Confirmed(table, gate[g].record)
           \/ gate[g].ended \in Nat /\ gate[g].at <= gate[g].ended
    BY <1>3, <2>1, Zenon
  <2>3. q \in Gate /\ q.at = gate[g].at /\ q.ended = gate[g].ended
        /\ q.record = gate[g].record
    BY <2>2 DEF Gate
  <2> HIDE DEF q
  <2>4. GateOK(q, table, now)
    BY <2>2, <2>3, Zenon DEF GateOK
  <2> QED BY <1>1, <1>2, <2>1, <2>4, GateMoves, Zenon
<1>7. CASE Respond(g)
  <2>1. gate' = [gate EXCEPT ![g] = Idle]
    BY <1>7, Zenon DEF Respond
  <2> QED BY <1>1, <1>2, <2>1, GateMoves, Zenon
<1> QED BY <1>4, <1>5, <1>6, <1>7, Zenon

(* Every step keeps the requests in order.                                 *)
LEMMA GatesKept == IInv /\ GatesOK /\ [Next]_vars => GatesOK'
<1> SUFFICES ASSUME IInv, GatesOK, [Next]_vars PROVE GatesOK'
  BY Zenon
<1>1. now \in Nat
  BY DEF IInv, Shaped, ClockShaped
<1>2. ASSUME UNCHANGED <<gate, table, now>> PROVE GatesOK'
  BY <1>2, Zenon DEF GatesOK
<1>3. ASSUME NEW t, UnderRoutesLock(t), now' = now PROVE GatesOK'
  BY <1>1, <1>3, WatchedOK, Zenon
<1>4. CASE UNCHANGED vars
  BY <1>2, <1>4, Zenon DEF vars
<1>5. ASSUME NEW s \in Sessions,
             \/ RevokeSessionRoutes(s) \/ ConfirmSession(s) \/ ConfirmInMemory(s)
             \/ \E ok \in BOOLEAN : ClearSession(s, ok)
             \/ \E ok \in BOOLEAN : SnapshotExpired(s, ok)
             \/ \E n \in Nodes : ReserveSession(s, n)
      PROVE  GatesOK'
  BY <1>2, <1>3, <1>5, Zenon DEF RevokeSessionRoutes, ConfirmSession, ConfirmInMemory,
     ClearSession, SnapshotExpired, ReserveSession
<1>6. ASSUME NEW n \in Nodes,
             \/ WorkerLost(n) \/ WorkerConnects(n) \/ RemoveWorkerRoutes(n)
             \/ \E R \in SUBSET Sessions : WorkerRecovers(n, R)
      PROVE  GatesOK'
  BY <1>3, <1>6, Zenon DEF WorkerLost, WorkerConnects, RemoveWorkerRoutes, WorkerRecovers
<1>7. ASSUME NEW c \in Calls,
             \/ \E s \in Sessions, n \in Nodes : ResolveProxySession(c, s, n)
             \/ CheckConnection(c) \/ InsertRow(c) \/ FileRoute(c) \/ RefuseCreation(c)
      PROVE  GatesOK'
  BY <1>2, <1>7, Zenon DEF ResolveProxySession, CheckConnection, InsertRow, FileRoute,
     RefuseCreation
<1>8. ASSUME \/ List \/ PruneRows \/ PruneMap
             \/ \E ok \in BOOLEAN : PruneSessions(ok)
      PROVE  GatesOK'
  BY <1>2, <1>3, <1>8, Zenon DEF List, PruneRows, PruneMap, PruneSessions
<1>9. ASSUME NEW o \in Owners,
             \/ \E k \in Keys, ok \in BOOLEAN : Delete(o, k, ok)
             \/ DeleteAccount(o) \/ RevokeOwnerRoutes(o) \/ EnsureJITAccount(o)
      PROVE  GatesOK'
  BY <1>2, <1>9, Zenon DEF Delete, DeleteAccount, RevokeOwnerRoutes, EnsureJITAccount
<1>10. CASE RestartConsole
  BY <1>10, Zenon DEF RestartConsole, GatesOK, GateOK
<1>11. CASE Tick
  <2>1. gate' = gate /\ table' = table /\ now' = now + 1
    BY <1>11, Zenon DEF Tick
  <2>2. ASSUME NEW g \in Gateways PROVE GateOK(gate[g], table, now + 1)
    <3>1. GateOK(gate[g], table, now)
      BY Zenon DEF GatesOK
    <3>2. gate[g] \in Gate /\ gate[g].at <= now => gate[g].at <= now + 1
      BY <1>1 DEF Gate
    <3> QED BY <3>1, <3>2, Zenon DEF GateOK
  <2> QED BY <2>1, <2>2, Zenon DEF GatesOK
<1>12. ASSUME NEW g \in Gateways,
              \/ \E k \in Keys : GetRoute(g, k)
              \/ AuthorizeProxyRoute(g) \/ SignToken(g) \/ Respond(g)
       PROVE  GatesOK'
  BY <1>12, RequestOK, Zenon
<1> QED BY <1>4, <1>5, <1>6, <1>7, <1>8, <1>9, <1>10, <1>11, <1>12, Zenon DEF Next

(* However the removal of a terminal route falls between the steps of a    *)
(* request, the token it is answered with ends within proxyRouteTokenTTL   *)
(* of the end of the route, and with its preview route.                    *)
THEOREM TokensBacked == Spec => []GrantsBacked
<1>1. Init => GatesOK
  BY Zenon DEF Init, GatesOK, GateOK
<1>2. GatesOK => GrantsBacked
  <2> SUFFICES ASSUME GatesOK, NEW g \in Gateways, gate[g].pc = "granted"
               PROVE  /\ \/ Confirmed(table, gate[g].record)
                         \/ /\ gate[g].ended # None
                            /\ TokenExpiry(gate[g]) <= gate[g].ended + TokenTTL
                      /\ TokenExpiry(gate[g]) <= gate[g].record.expires
    BY Zenon DEF GrantsBacked
  <2>1. gate[g] # Idle /\ gate[g].pc # "found" /\ GateOK(gate[g], table, now)
    BY DEF Idle, GatesOK
  <2>2. /\ gate[g] \in Gate
        /\ \/ Confirmed(table, gate[g].record)
           \/ gate[g].ended \in Nat /\ gate[g].at <= gate[g].ended
    BY <2>1, Zenon DEF GateOK
  <2>3. gate[g].at \in Nat /\ gate[g].record.expires \in Nat /\ TokenTTL \in Nat
    BY <2>2, PreviewAssumption DEF Gate, Record
  <2>4. /\ TokenExpiry(gate[g]) <= gate[g].record.expires
        /\ TokenExpiry(gate[g]) <= gate[g].at + TokenTTL
        /\ TokenExpiry(gate[g]) \in Nat
    BY <2>3 DEF TokenExpiry, Earlier
  <2>5. ASSUME gate[g].ended \in Nat, gate[g].at <= gate[g].ended
        PROVE  gate[g].ended # None /\ TokenExpiry(gate[g]) <= gate[g].ended + TokenTTL
    BY <2>3, <2>4, <2>5, PreviewAssumption
  <2> QED BY <2>2, <2>4, <2>5, Zenon
<1> QED BY <1>1, <1>2, GatesKept, Invariant, PTL DEF Spec

=============================================================================
