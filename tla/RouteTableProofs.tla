-------------------------- MODULE RouteTableProofs --------------------------
(* Every operation of the route table keeps it consistent.                 *)
EXTENDS RouteTable, TLAPS

(* Overwriting routes in place is harmless when no route moves, shortens   *)
(* its lease or turns provisional again.                                   *)
LEMMA RoutesRewritten ==
    ASSUME NEW t, TableConsistent(t),
           NEW R \in [Sessions -> Route \cup {NoRoute}],
           \A s \in Sessions : R[s] = NoRoute <=> t.routes[s] = NoRoute,
           \A s \in Sessions : t.routes[s] # NoRoute =>
              /\ R[s].node = t.routes[s].node
              /\ R[s].lease >= t.routes[s].lease
              /\ t.routes[s].res = 0 => R[s].res = 0
              /\ RouteShape(R[s], t.seq)
    PROVE  TableConsistent([t EXCEPT !.routes = R])
<1> DEFINE u == [t EXCEPT !.routes = R]
<1>1. /\ t \in Table
      /\ u \in Table
      /\ u.routes = R /\ u.index = t.index /\ u.rows = t.rows /\ u.seq = t.seq
  BY DEF TableConsistent, Table
<1>2. IndexExact(u)
  BY <1>1 DEF TableConsistent, IndexExact, RoutedTo, HasRoute
<1>3. RowsBacked(u)
  <2> SUFFICES ASSUME NEW s \in Sessions, t.rows[s] # NoRow
               PROVE  /\ RoutedTo(u, s, t.rows[s].node)
                      /\ R[s].res = 0
                      /\ t.rows[s].lease > 0
                      /\ t.rows[s].lease <= R[s].lease
    BY <1>1 DEF RowsBacked
  <2>1. /\ t.routes[s] # NoRoute /\ t.routes[s].node = t.rows[s].node
        /\ t.routes[s].res = 0
        /\ t.rows[s].lease > 0 /\ t.rows[s].lease <= t.routes[s].lease
    BY DEF TableConsistent, RowsBacked, RoutedTo, HasRoute
  <2>2. t.routes[s] \in Route /\ R[s] \in Route /\ t.rows[s] \in Row
    BY <1>1, <2>1 DEF Table
  <2>3. t.routes[s].lease \in Nat /\ R[s].lease \in Nat /\ t.rows[s].lease \in Nat
    BY <2>2 DEF Route, Row
  <2> QED BY <1>1, <2>1, <2>3 DEF RoutedTo, HasRoute
<1>4. RoutesShaped(u)
  BY <1>1 DEF RoutesShaped, HasRoute
<1> QED BY <1>1, <1>2, <1>3, <1>4 DEF TableConsistent

(* The same for a single route.                                            *)
LEMMA RouteRewritten ==
    ASSUME NEW t, TableConsistent(t),
           NEW s \in Sessions, HasRoute(t, s),
           NEW r \in Route,
           r.node = t.routes[s].node,
           r.lease >= t.routes[s].lease,
           t.routes[s].res = 0 => r.res = 0,
           RouteShape(r, t.seq)
    PROVE  TableConsistent(PutRoute(t, s, r))
<1> DEFINE R == [t.routes EXCEPT ![s] = r]
<1>1. t \in Table /\ RoutesShaped(t) /\ NoRoute \notin Route
  BY RouteTableAssumption DEF TableConsistent
<1>2. t.routes \in [Sessions -> Route \cup {NoRoute}]
  BY <1>1 DEF Table
<1>3. R \in [Sessions -> Route \cup {NoRoute}]
  BY <1>2
<1>4. \A x \in Sessions : R[x] = NoRoute <=> t.routes[x] = NoRoute
  BY <1>1, <1>2 DEF HasRoute
<1>5. ASSUME NEW x \in Sessions, t.routes[x] # NoRoute
      PROVE  /\ R[x].node = t.routes[x].node
             /\ R[x].lease >= t.routes[x].lease
             /\ t.routes[x].res = 0 => R[x].res = 0
             /\ RouteShape(R[x], t.seq)
  <2>1. t.routes[x] \in Route /\ t.routes[x].lease \in Nat
    BY <1>2, <1>5 DEF Route
  <2>2. RouteShape(t.routes[x], t.seq)
    BY <1>1, <1>5 DEF RoutesShaped, HasRoute
  <2> QED BY <1>2, <2>1, <2>2
<1>6. PutRoute(t, s, r) = [t EXCEPT !.routes = R]
  BY <1>1 DEF PutRoute, Table
<1> HIDE DEF R
<1>7. TableConsistent([t EXCEPT !.routes = R])
  BY <1>3, <1>4, <1>5, RoutesRewritten
<1> QED BY <1>6, <1>7

(* What a consistent table says of a routed session.                       *)
LEMMA RouteFacts ==
    ASSUME NEW t, TableConsistent(t), NEW s \in Sessions, HasRoute(t, s)
    PROVE  /\ t.routes[s] \in Route
           /\ RouteShape(t.routes[s], t.seq)
           /\ t.routes[s].res # 0 => t.rows[s] = NoRow
           /\ t.routes[s].lease = 0 => t.rows[s] = NoRow
<1>1. t.routes \in [Sessions -> Route \cup {NoRoute}]
      /\ t.rows \in [Sessions -> Row \cup {NoRow}]
  BY DEF TableConsistent, Table
<1>2. t.routes[s] \in Route /\ RouteShape(t.routes[s], t.seq)
  BY <1>1 DEF HasRoute, TableConsistent, RoutesShaped
<1>3. ASSUME t.rows[s] # NoRow
      PROVE  t.routes[s].res = 0 /\ t.routes[s].lease # 0
  <2>1. t.rows[s].lease \in Nat /\ t.routes[s].lease \in Nat
    BY <1>1, <1>2, <1>3 DEF Row, Route
  <2> QED BY <1>3, <2>1 DEF TableConsistent, RowsBacked
<1> QED BY <1>2, <1>3

(* Deleting routes that have no row.                                       *)
LEMMA RoutesDeleted ==
    ASSUME NEW t, TableConsistent(t),
           NEW S \in SUBSET Sessions,
           \A s \in S : t.rows[s] = NoRow
    PROVE  TableConsistent(DeleteRoutes(t, S))
<1> DEFINE u == DeleteRoutes(t, S)
           R == [s \in Sessions |-> IF s \in S THEN NoRoute ELSE t.routes[s]]
           X == [n \in Nodes |-> t.index[n] \ {s \in S : RoutedTo(t, s, n)}]
<1>1. t \in Table /\ IndexExact(t) /\ RowsBacked(t) /\ RoutesShaped(t)
  BY DEF TableConsistent
<1>2. /\ t.routes \in [Sessions -> Route \cup {NoRoute}]
      /\ t.index \in [Nodes -> SUBSET Sessions]
  BY <1>1 DEF Table
<1>3. R \in [Sessions -> Route \cup {NoRoute}] /\ X \in [Nodes -> SUBSET Sessions]
  BY <1>2
<1>4. /\ u.routes = R /\ u.index = X
      /\ u.rows = t.rows /\ u.seq = t.seq /\ u \in Table
  BY <1>1, <1>3 DEF DeleteRoutes, Table
<1> HIDE DEF u
<1>5. IndexExact(u)
  BY <1>1, <1>2, <1>4 DEF IndexExact, RoutedTo, HasRoute
<1>6. RowsBacked(u)
  BY <1>1, <1>2, <1>4 DEF RowsBacked, RoutedTo, HasRoute
<1>7. RoutesShaped(u)
  BY <1>1, <1>4 DEF RoutesShaped, HasRoute
<1> QED BY <1>4, <1>5, <1>6, <1>7 DEF TableConsistent, u

(* Deleting any rows at all.                                               *)
LEMMA RowsDeleted ==
    ASSUME NEW t, TableConsistent(t),
           NEW W \in [Sessions -> Row \cup {NoRow}],
           \A s \in Sessions : W[s] = NoRow \/ W[s] = t.rows[s]
    PROVE  TableConsistent([t EXCEPT !.rows = W])
<1> DEFINE u == [t EXCEPT !.rows = W]
<1>1. t \in Table /\ IndexExact(t) /\ RowsBacked(t) /\ RoutesShaped(t)
  BY DEF TableConsistent
<1>2. /\ u.routes = t.routes /\ u.index = t.index
      /\ u.rows = W /\ u.seq = t.seq /\ u \in Table
  BY <1>1 DEF Table
<1> HIDE DEF u
<1>3. IndexExact(u)
  BY <1>1, <1>2 DEF IndexExact, RoutedTo, HasRoute
<1>4. RowsBacked(u)
  BY <1>1, <1>2 DEF RowsBacked, RoutedTo, HasRoute
<1>5. RoutesShaped(u)
  BY <1>1, <1>2 DEF RoutesShaped, HasRoute
<1> QED BY <1>2, <1>3, <1>4, <1>5 DEF TableConsistent, u

(* Deleting rows of routed sessions: memory is untouched.                  *)
LEMMA DeleteRowsConsistent ==
    ASSUME NEW t, TableConsistent(t), NEW S \in SUBSET Sessions
    PROVE  LET u == DeleteRows(t, S) IN
           /\ TableConsistent(u)
           /\ u.routes = t.routes /\ u.index = t.index /\ u.seq = t.seq
           /\ \A s \in S : u.rows[s] = NoRow
<1> DEFINE W == [s \in Sessions |->
                   IF s \in S /\ t.rows[s] # NoRow
                              /\ RoutedTo(t, s, t.rows[s].node)
                   THEN NoRow ELSE t.rows[s]]
           u == DeleteRows(t, S)
<1>1. t \in Table /\ RowsBacked(t)
  BY DEF TableConsistent
<1>2. t.rows \in [Sessions -> Row \cup {NoRow}]
  BY <1>1 DEF Table
<1>3. W \in [Sessions -> Row \cup {NoRow}]
  BY <1>2
<1>4. TableConsistent([t EXCEPT !.rows = W])
  BY <1>3, RowsDeleted, Zenon
<1>5. u = [t EXCEPT !.rows = W]
  BY DEF DeleteRows
<1>6. u.routes = t.routes /\ u.index = t.index /\ u.seq = t.seq /\ u.rows = W
  BY <1>1, <1>5 DEF Table
<1>7. \A s \in S : u.rows[s] = NoRow
  BY <1>1, <1>6 DEF RowsBacked
<1> QED BY <1>4, <1>5, <1>6, <1>7

(* Deleting the expired rows leaves none for a route that has expired.     *)
LEMMA DeleteExpiredRowsConsistent ==
    ASSUME NEW t, TableConsistent(t), NEW now \in Nat
    PROVE  LET u == DeleteExpiredRows(t, now) IN
           /\ TableConsistent(u)
           /\ u.routes = t.routes /\ u.index = t.index /\ u.seq = t.seq
           /\ \A s \in Sessions : HasRoute(t, s) /\ t.routes[s].lease <= now
                                  => u.rows[s] = NoRow
<1> DEFINE W == [s \in Sessions |->
                   IF t.rows[s] # NoRow /\ t.rows[s].lease <= now
                   THEN NoRow ELSE t.rows[s]]
           u == DeleteExpiredRows(t, now)
<1>1. t \in Table /\ RowsBacked(t)
  BY DEF TableConsistent
<1>2. t.rows \in [Sessions -> Row \cup {NoRow}]
      /\ t.routes \in [Sessions -> Route \cup {NoRoute}]
  BY <1>1 DEF Table
<1>3. W \in [Sessions -> Row \cup {NoRow}]
  BY <1>2
<1>4. TableConsistent([t EXCEPT !.rows = W])
  BY <1>3, RowsDeleted, Zenon
<1>5. u = [t EXCEPT !.rows = W]
  BY DEF DeleteExpiredRows
<1>6. u.routes = t.routes /\ u.index = t.index /\ u.seq = t.seq /\ u.rows = W
  BY <1>1, <1>5 DEF Table
<1>7. ASSUME NEW s \in Sessions, HasRoute(t, s), t.routes[s].lease <= now
      PROVE  u.rows[s] = NoRow
  <2>1. CASE t.rows[s] = NoRow
    BY <2>1, <1>6
  <2>2. CASE t.rows[s] # NoRow
    <3>1. t.rows[s].lease \in Nat /\ t.routes[s].lease \in Nat
      BY <1>2, <1>7, <2>2 DEF Row, Route, HasRoute
    <3>2. t.rows[s].lease <= t.routes[s].lease
      BY <1>1, <2>2 DEF RowsBacked
    <3> QED BY <1>6, <1>7, <2>2, <3>1, <3>2
  <2> QED BY <2>1, <2>2
<1> QED BY <1>4, <1>5, <1>6, <1>7

-----------------------------------------------------------------------------
(* The operations, one by one.                                             *)

(* A console that starts on an empty database.                             *)
LEMMA EmptyTableConsistent == TableConsistent(EmptyTable)
BY DEF EmptyTable, TableConsistent, Table, IndexExact, RowsBacked,
       RoutesShaped, RoutedTo, HasRoute

(* Forget the memory and read the rows back.                               *)
LEMMA RestoreConsistent ==
    ASSUME NEW t, TableConsistent(t), NEW now \in Nat
    PROVE  TableConsistent(RestoreTerminalSessionRoutes(t, now))
<1> DEFINE W == DeleteExpiredRows(t, now).rows
           R == [s \in Sessions |->
                   IF W[s] = NoRow THEN NoRoute
                   ELSE [node |-> W[s].node, used |-> W[s].used,
                         lease |-> W[s].lease, state |-> "unavailable",
                         res |-> 0, cres |-> 0, uses |-> 0]]
           X == [n \in Nodes |->
                   {s \in Sessions : W[s] # NoRow /\ W[s].node = n}]
           u == RestoreTerminalSessionRoutes(t, now)
<1>1. /\ W \in [Sessions -> Row \cup {NoRow}]
      /\ \A s \in Sessions : W[s] # NoRow => W[s].lease > 0
  <2>1. TableConsistent(DeleteExpiredRows(t, now))
    BY DeleteExpiredRowsConsistent
  <2> QED BY <2>1 DEF TableConsistent, Table, RowsBacked
<1>2. u.routes = R /\ u.index = X /\ u.rows = W /\ u.seq = 0
  BY DEF RestoreTerminalSessionRoutes
<1> HIDE DEF W
<1>3. ASSUME NEW s \in Sessions, W[s] # NoRow
      PROVE  R[s] \in Route /\ R[s] # NoRoute /\ W[s].lease \in Nat
  <2>1. W[s].node \in Nodes /\ W[s].used \in Nat /\ W[s].lease \in Nat
    BY <1>1, <1>3 DEF Row
  <2>2. R[s] \in Route
    BY <1>3, <2>1 DEF Route, RecoveryStates
  <2> QED BY <2>1, <2>2, RouteTableAssumption
<1>4. R \in [Sessions -> Route \cup {NoRoute}] /\ X \in [Nodes -> SUBSET Sessions]
  BY <1>3
<1>5. u \in Table
  BY <1>1, <1>2, <1>4 DEF Table, RestoreTerminalSessionRoutes, W
<1> HIDE DEF u
<1>6. IndexExact(u)
  <2> SUFFICES ASSUME NEW n \in Nodes, NEW s \in Sessions
               PROVE  s \in u.index[n] <=> RoutedTo(u, s, n)
    BY DEF IndexExact
  <2>1. s \in u.index[n] <=> W[s] # NoRow /\ W[s].node = n
    BY <1>2
  <2>2. CASE W[s] = NoRow
    BY <1>2, <2>1, <2>2 DEF RoutedTo, HasRoute
  <2>3. CASE W[s] # NoRow
    <3>1. R[s] # NoRoute /\ R[s].node = W[s].node
      BY <1>3, <2>3
    <3> QED BY <1>2, <2>1, <2>3, <3>1 DEF RoutedTo, HasRoute
  <2> QED BY <2>2, <2>3
<1>7. RowsBacked(u)
  BY <1>1, <1>2, <1>3 DEF RowsBacked, RoutedTo, HasRoute
<1>8. RoutesShaped(u)
  BY <1>2, <1>3 DEF RoutesShaped, RouteShape, HasRoute
<1> QED BY <1>5, <1>6, <1>7, <1>8 DEF TableConsistent, u

(* A claim refreshes the route and may count one more use.                 *)
LEMMA ClaimConsistent ==
    ASSUME NEW t, TableConsistent(t), NEW s \in Sessions, HasRoute(t, s),
           NEW now \in Nat
    PROVE  TableConsistent(ClaimRoute(t, s, now))
<1> DEFINE o == t.routes[s]
           k == IF o.res # 0 THEN o.uses + 1 ELSE o.uses
           r == [o EXCEPT !.used = now, !.uses = k]
<1>1. o \in Route /\ RouteShape(o, t.seq)
  BY RouteFacts
<1>2. k \in Nat /\ o.lease \in Nat
  BY <1>1 DEF Route
<1>3. RouteShape(r, t.seq)
  BY <1>1 DEF RouteShape, Route
<1>4. ClaimRoute(t, s, now) = PutRoute(t, s, r)
  BY DEF ClaimRoute
<1> HIDE DEF k
<1>5. r \in Route /\ r.node = o.node /\ r.lease = o.lease /\ r.res = o.res
  BY <1>1, <1>2, Zenon DEF Route
<1>6. r.lease >= o.lease
  BY <1>2, <1>5
<1> HIDE DEF r
<1> QED BY <1>3, <1>4, <1>5, <1>6, RouteRewritten

(* A reservation joins a route or files a provisional one.                 *)
LEMMA ReserveConsistent ==
    ASSUME NEW t, TableConsistent(t), NEW s \in Sessions, NEW n \in Nodes,
           NEW now \in Nat
    PROVE  TableConsistent(ReserveRoute(t, s, n, now))
<1>1. CASE HasRoute(t, s)
  BY <1>1, ClaimConsistent DEF ReserveRoute
<1>2. CASE ~HasRoute(t, s)
  <2> DEFINE r == [node |-> n, used |-> now, lease |-> 0, state |-> "ready",
                   res |-> t.seq + 1, cres |-> 0, uses |-> 1]
             R == [t.routes EXCEPT ![s] = r]
             X == [t.index EXCEPT ![n] = @ \cup {s}]
             u == ReserveRoute(t, s, n, now)
  <2>1. /\ t \in Table /\ IndexExact(t) /\ RowsBacked(t) /\ RoutesShaped(t)
        /\ t.seq \in Nat
        /\ t.routes \in [Sessions -> Route \cup {NoRoute}]
        /\ t.index \in [Nodes -> SUBSET Sessions]
    BY DEF TableConsistent, Table
  <2>2. r \in Route /\ r # NoRoute
    BY <2>1, RouteTableAssumption DEF Route, RecoveryStates
  <2>3. R \in [Sessions -> Route \cup {NoRoute}] /\ X \in [Nodes -> SUBSET Sessions]
    BY <2>1, <2>2
  <2>4. /\ u.routes = R /\ u.index = X /\ u.rows = t.rows /\ u.seq = t.seq + 1
        /\ u \in Table
    <3>1. u = [routes |-> R, index |-> X, rows |-> t.rows, seq |-> t.seq + 1]
      BY <1>2 DEF ReserveRoute
    <3> HIDE DEF R, X, u
    <3> QED BY <2>1, <2>3, <3>1 DEF Table
  <2>5. t.rows[s] = NoRow
    BY <1>2, <2>1 DEF RowsBacked, RoutedTo
  <2> HIDE DEF u
  <2>6. IndexExact(u)
    BY <1>2, <2>1, <2>2, <2>4 DEF IndexExact, RoutedTo, HasRoute
  <2>7. RowsBacked(u)
    BY <2>1, <2>4, <2>5 DEF RowsBacked, RoutedTo, HasRoute
  <2>8. RoutesShaped(u)
    <3> SUFFICES ASSUME NEW x \in Sessions, R[x] # NoRoute
                 PROVE  RouteShape(R[x], t.seq + 1)
      BY <2>4 DEF RoutesShaped, HasRoute
    <3>1. CASE x = s
      BY <2>1, <3>1 DEF RouteShape
    <3>2. CASE x # s
      BY <2>1, <3>2 DEF RoutesShaped, RouteShape, HasRoute, Route
    <3> QED BY <3>1, <3>2
  <2> QED BY <2>4, <2>6, <2>7, <2>8 DEF TableConsistent, u
<1> QED BY <1>1, <1>2

(* A confirmation in memory writes no row.                                 *)
LEMMA ConfirmConsistent ==
    ASSUME NEW t, TableConsistent(t), NEW s \in Sessions, NEW n,
           NEW res \in Nat, NEW now \in Nat
    PROVE  TableConsistent(ConfirmRoute(t, s, n, res, now))
<1> DEFINE o == t.routes[s]
<1>1. CASE ~OwnsRoute(t, s, n, res)
  BY <1>1 DEF ConfirmRoute
<1>2. CASE OwnsRoute(t, s, n, res)
  <2>1. /\ HasRoute(t, s) /\ o \in Route /\ RouteShape(o, t.seq)
        /\ o.res = res \/ o.cres = res
    BY <1>2, RouteFacts DEF OwnsRoute, RoutedTo
  <2>2. CASE res = 0
    <3> DEFINE r == [o EXCEPT !.used = now]
    <3>1. /\ r \in Route /\ r.node = o.node /\ r.lease >= o.lease
          /\ r.res = o.res /\ RouteShape(r, t.seq)
      BY <2>1 DEF Route, RouteShape
    <3>2. ConfirmRoute(t, s, n, res, now) = PutRoute(t, s, r)
      BY <1>2, <2>2 DEF ConfirmRoute
    <3> HIDE DEF r
    <3> QED BY <2>1, <3>1, <3>2, RouteRewritten
  <2>3. CASE res # 0
    <3> DEFINE r == [o EXCEPT !.used = now, !.res = 0, !.cres = res, !.uses = 0]
    <3>1. /\ r \in Route /\ r.node = o.node /\ r.lease = o.lease
          /\ r.res = 0 /\ r.cres = res /\ r.uses = 0 /\ o.lease \in Nat
      BY <2>1, Zenon DEF Route
    <3>3. r.lease >= o.lease /\ RouteShape(r, t.seq)
      BY <2>1, <2>3, <3>1 DEF Route, RouteShape, TableConsistent, Table
    <3>2. ConfirmRoute(t, s, n, res, now) = PutRoute(t, s, r)
      BY <1>2, <2>3 DEF ConfirmRoute
    <3> HIDE DEF r
    <3> QED BY <2>1, <3>1, <3>2, <3>3, RouteRewritten
  <2> QED BY <2>2, <2>3
<1> QED BY <1>1, <1>2

(* The row is written before the route, and with the route's own lease.    *)
LEMMA CommitConsistent ==
    ASSUME NEW t, TableConsistent(t), NEW s \in Sessions, NEW n \in Nodes,
           NEW res \in Nat, NEW lease \in Nat, NEW now \in Nat,
           OwnsRoute(t, s, n, res), lease > 0
    PROVE  TableConsistent(CommitRoute(t, s, n, res, lease, now))
<1> DEFINE o == t.routes[s]
           max == Later(o.lease, lease)
           new == [node |-> n, lease |-> max, used |-> now]
           row == IF t.rows[s] = NoRow THEN new
                  ELSE [node  |-> n,
                        lease |-> Later(t.rows[s].lease, max),
                        used  |-> Later(t.rows[s].used, now)]
           c == IF res # 0 THEN res ELSE o.cres
           r == [o EXCEPT !.lease = max, !.used = now, !.state = "ready",
                          !.res = 0, !.uses = 0, !.cres = c]
           W == [t.rows EXCEPT ![s] = row]
           R == [t.routes EXCEPT ![s] = r]
           u == CommitRoute(t, s, n, res, lease, now)
<1>1. /\ t \in Table /\ IndexExact(t) /\ RowsBacked(t) /\ RoutesShaped(t)
      /\ t.seq \in Nat
      /\ t.routes \in [Sessions -> Route \cup {NoRoute}]
      /\ t.rows \in [Sessions -> Row \cup {NoRow}]
  BY DEF TableConsistent, Table
<1>2. /\ HasRoute(t, s) /\ o \in Route /\ RouteShape(o, t.seq) /\ o.node = n
      /\ o.res = res \/ o.cres = res
  BY RouteFacts DEF OwnsRoute, RoutedTo
<1>3. /\ max \in Nat /\ max > 0 /\ max >= o.lease /\ o.lease \in Nat
      /\ c \in Nat /\ c <= t.seq
  BY <1>1, <1>2 DEF Later, Route, RouteShape
<1>4. row \in Row /\ row.node = n /\ row.lease = max
  <2>1. CASE t.rows[s] = NoRow
    BY <1>3, <2>1 DEF Row
  <2>2. CASE t.rows[s] # NoRow
    <3>1. t.rows[s].lease \in Nat /\ t.rows[s].used \in Nat
      BY <1>1, <2>2 DEF Row
    <3>2. t.rows[s].lease <= o.lease
      BY <1>1, <2>2 DEF RowsBacked
    <3>3. Later(t.rows[s].lease, max) = max
      BY <1>2, <1>3, <3>1, <3>2 DEF Later, Route
    <3>4. Later(t.rows[s].used, now) \in Nat
      BY <3>1 DEF Later
    <3> HIDE DEF max
    <3> QED BY <1>3, <2>2, <3>3, <3>4 DEF Row
  <2> QED BY <2>1, <2>2
<1>5. /\ u.routes = R /\ u.index = t.index /\ u.rows = W /\ u.seq = t.seq
      /\ u = [[t EXCEPT !.rows = W] EXCEPT !.routes = R]
  <2>1. UpsertRow(t, s, new) = [t EXCEPT !.rows = W]
    BY DEF UpsertRow
  <2>2. u = PutRoute(UpsertRow(t, s, new), s, r)
    BY DEF CommitRoute
  <2> HIDE DEF W, r, new, u
  <2>3. [t EXCEPT !.rows = W].routes = t.routes
    BY <1>1 DEF Table
  <2>4. u = [[t EXCEPT !.rows = W] EXCEPT !.routes = R]
    BY <2>1, <2>2, <2>3 DEF PutRoute
  <2> HIDE DEF R
  <2> QED BY <1>1, <2>4 DEF Table
<1> HIDE DEF row, max, c
<1>6. /\ r \in Route /\ r # NoRoute /\ r.node = n /\ r.lease = max
      /\ r.res = 0 /\ r.cres = c /\ r.uses = 0
  <2>1. /\ r \in Route /\ r.node = o.node /\ r.lease = max
        /\ r.res = 0 /\ r.cres = c /\ r.uses = 0
    BY <1>2, <1>3, Zenon DEF Route, RecoveryStates
  <2> QED BY <1>2, <2>1, RouteTableAssumption
<1> HIDE DEF r
<1>7. R \in [Sessions -> Route \cup {NoRoute}] /\ W \in [Sessions -> Row \cup {NoRow}]
  BY <1>1, <1>4, <1>6
<1>8. u \in Table
  <2> HIDE DEF R, W, u
  <2> QED BY <1>1, <1>5, <1>7, Zenon DEF Table
<1> HIDE DEF u
<1>9. IndexExact(u)
  BY <1>1, <1>2, <1>5, <1>6 DEF IndexExact, RoutedTo, HasRoute
<1>10. RowsBacked(u)
  <2> SUFFICES ASSUME NEW x \in Sessions, W[x] # NoRow
               PROVE  /\ R[x] # NoRoute /\ R[x].node = W[x].node
                      /\ R[x].res = 0
                      /\ W[x].lease > 0 /\ W[x].lease <= R[x].lease
    BY <1>5 DEF RowsBacked, RoutedTo, HasRoute
  <2>1. CASE x = s
    BY <1>1, <1>3, <1>4, <1>6, <2>1
  <2>2. CASE x # s
    BY <1>1, <2>2 DEF RowsBacked, RoutedTo, HasRoute
  <2> QED BY <2>1, <2>2
<1>11. RoutesShaped(u)
  <2> SUFFICES ASSUME NEW x \in Sessions, R[x] # NoRoute
               PROVE  RouteShape(R[x], t.seq)
    BY <1>5 DEF RoutesShaped, HasRoute
  <2>1. CASE x = s
    BY <1>1, <1>3, <1>6, <2>1 DEF RouteShape
  <2>2. CASE x # s
    BY <1>1, <2>2 DEF RoutesShaped, HasRoute
  <2> QED BY <2>1, <2>2
<1> QED BY <1>8, <1>9, <1>10, <1>11 DEF TableConsistent, u

(* Deleting routes with their rows: the shape shared by the snapshot, the  *)
(* clear, the list and both recovery steps.                                *)
LEMMA RoutesAndRowsDeleted ==
    ASSUME NEW t, TableConsistent(t),
           NEW S \in SUBSET Sessions, NEW D \in SUBSET Sessions,
           \A s \in S \ D : t.rows[s] = NoRow
    PROVE  TableConsistent(DeleteRoutes(DeleteRows(t, D), S))
<1> DEFINE u == DeleteRows(t, D)
<1>1. /\ TableConsistent(u)
      /\ \A s \in D : u.rows[s] = NoRow
  BY DeleteRowsConsistent
<1>2. \A s \in S \ D : u.rows[s] = NoRow
  BY DEF DeleteRows, TableConsistent, Table
<1> HIDE DEF u
<1>3. \A s \in S : u.rows[s] = NoRow
  BY <1>1, <1>2
<1>4. TableConsistent(DeleteRoutes(u, S))
  BY <1>1, <1>3, RoutesDeleted
<1> QED BY <1>4 DEF u

(* The look-up of a route, which deletes an expired one.                   *)
LEMMA SnapshotConsistent ==
    ASSUME NEW t, TableConsistent(t), NEW s \in Sessions, NEW now, NEW ok
    PROVE  TableConsistent(SnapshotRoute(t, s, now, ok))
<1>1. TableConsistent(DeleteRoutes(DeleteRows(t, {s}), {s}))
  BY RoutesAndRowsDeleted
<1> QED BY <1>1 DEF SnapshotRoute

(* The listing of sessions, which deletes the expired ones.                *)
LEMMA ListConsistent ==
    ASSUME NEW t, TableConsistent(t), NEW now, NEW ok
    PROVE  TableConsistent(ListRoutes(t, now, ok))
<1> DEFINE E == {s \in Sessions : HasRoute(t, s) /\ Expired(t.routes[s], now)}
<1>1. TableConsistent(DeleteRoutes(DeleteRows(t, E), E))
  <2> HIDE DEF E
  <2>1. E \in SUBSET Sessions
    BY DEF E
  <2> QED BY <2>1, RoutesAndRowsDeleted
<1> QED BY <1>1 DEF ListRoutes

(* A use is given back; the last one removes the provisional route.        *)
LEMMA ClearReservationConsistent ==
    ASSUME NEW t, TableConsistent(t), NEW s \in Sessions, NEW n, NEW res
    PROVE  TableConsistent(ClearReservation(t, s, n, res))
<1> DEFINE o == t.routes[s]
<1>1. CASE ~HoldsReservation(t, s, n, res)
  BY <1>1 DEF ClearReservation
<1>2. CASE HoldsReservation(t, s, n, res)
  <2>1. /\ HasRoute(t, s) /\ o \in Route /\ RouteShape(o, t.seq)
        /\ o.res # 0 /\ t.rows[s] = NoRow
    BY <1>2, RouteFacts DEF HoldsReservation, RoutedTo
  <2>2. CASE o.uses > 1
    <3> DEFINE r == [o EXCEPT !.uses = @ - 1]
    <3>1. o.uses - 1 \in Nat /\ o.lease \in Nat /\ o.uses \in Nat
      BY <2>1, <2>2 DEF Route
    <3>2. /\ r \in Route /\ r.node = o.node /\ r.lease = o.lease
          /\ r.res = o.res /\ r.cres = o.cres /\ r.uses = o.uses - 1
      BY <2>1, <3>1 DEF Route
    <3>3. RouteShape(r, t.seq) /\ r.lease >= o.lease
      BY <2>1, <2>2, <3>1, <3>2 DEF RouteShape
    <3>4. ClearReservation(t, s, n, res) = PutRoute(t, s, r)
      BY <1>2, <2>2 DEF ClearReservation
    <3> HIDE DEF r
    <3> QED BY <2>1, <3>2, <3>3, <3>4, RouteRewritten
  <2>3. CASE ~(o.uses > 1)
    <3>1. TableConsistent(DeleteRoutes(t, {s}))
      BY <2>1, RoutesDeleted
    <3> QED BY <1>2, <2>3, <3>1 DEF ClearReservation
  <2> QED BY <2>2, <2>3
<1> QED BY <1>1, <1>2

(* A route is cleared, its row first when it has one.                      *)
LEMMA ClearConsistent ==
    ASSUME NEW t, TableConsistent(t), NEW s \in Sessions, NEW n, NEW ok
    PROVE  TableConsistent(ClearRoute(t, s, n, ok))
<1>1. CASE ~RoutedTo(t, s, n) \/ ClearFails(t, s, n, ok)
  BY <1>1 DEF ClearRoute
<1>2. CASE RoutedTo(t, s, n) /\ ~ClearFails(t, s, n, ok)
  <2>1. CASE t.routes[s].lease > 0
    <3>1. TableConsistent(DeleteRoutes(DeleteRows(t, {s}), {s}))
      BY RoutesAndRowsDeleted
    <3> QED BY <1>2, <2>1, <3>1 DEF ClearRoute
  <2>2. CASE ~(t.routes[s].lease > 0)
    <3>1. HasRoute(t, s) /\ t.routes[s] \in Route
      BY <1>2, RouteFacts DEF RoutedTo
    <3>2. t.routes[s].lease = 0
      BY <2>2, <3>1 DEF Route
    <3>3. t.rows[s] = NoRow
      BY <3>1, <3>2, RouteFacts
    <3>4. TableConsistent(DeleteRoutes(t, {s}))
      BY <3>3, RoutesDeleted
    <3> QED BY <1>2, <2>2, <3>4 DEF ClearRoute
  <2> QED BY <2>1, <2>2
<1> QED BY <1>1, <1>2

(* What remains in memory after routes were deleted with their rows.       *)
LEMMA RoutesAfterDelete ==
    ASSUME NEW t, t \in Table, NEW S \in SUBSET Sessions,
           NEW D \in SUBSET Sessions, NEW s \in Sessions
    PROVE  LET u == DeleteRoutes(DeleteRows(t, D), S) IN
           /\ u.routes[s] = IF s \in S THEN NoRoute ELSE t.routes[s]
           /\ u.seq = t.seq
BY DEF DeleteRoutes, DeleteRows, Table

(* Delete some routes with their rows, and change others in place: both    *)
(* recovery steps and the loss of a connection.                            *)
LEMMA DeletedAndRewritten ==
    ASSUME NEW t, TableConsistent(t),
           NEW S \in SUBSET Sessions, NEW D \in SUBSET Sessions,
           \A s \in S \ D : t.rows[s] = NoRow,
           NEW R \in [Sessions -> Route \cup {NoRoute}],
           \A s \in Sessions :
              R[s] = NoRoute <=> s \in S \/ t.routes[s] = NoRoute,
           \A s \in Sessions : R[s] # NoRoute =>
              /\ R[s].node = t.routes[s].node
              /\ R[s].lease >= t.routes[s].lease
              /\ t.routes[s].res = 0 => R[s].res = 0
              /\ RouteShape(R[s], t.seq)
    PROVE  TableConsistent([DeleteRoutes(DeleteRows(t, D), S) EXCEPT !.routes = R])
<1> DEFINE u == DeleteRoutes(DeleteRows(t, D), S)
<1>1. TableConsistent(u)
  BY RoutesAndRowsDeleted
<1>2. t \in Table
  BY DEF TableConsistent
<1>3. \A s \in Sessions :
         /\ u.routes[s] = IF s \in S THEN NoRoute ELSE t.routes[s]
         /\ u.seq = t.seq
  BY <1>2, RoutesAfterDelete
<1> HIDE DEF u
<1>4. TableConsistent([u EXCEPT !.routes = R])
  <2>1. \A s \in Sessions : R[s] = NoRoute <=> u.routes[s] = NoRoute
    BY <1>3
  <2>2. \A s \in Sessions : u.routes[s] # NoRoute =>
           /\ R[s].node = u.routes[s].node
           /\ R[s].lease >= u.routes[s].lease
           /\ u.routes[s].res = 0 => R[s].res = 0
           /\ RouteShape(R[s], u.seq)
    BY <1>3
  <2> QED BY <1>1, <2>1, <2>2, RoutesRewritten
<1> QED BY <1>4 DEF u

(* The routes a worker's index lists, in a consistent table.               *)
LEMMA RoutesOfFacts ==
    ASSUME NEW t, TableConsistent(t), NEW n \in Nodes
    PROVE  /\ RoutesOf(t, n) \in SUBSET Sessions
           /\ \A s \in RoutesOf(t, n) : RoutedTo(t, s, n)
           /\ \A s \in Sessions : RoutedTo(t, s, n) => s \in RoutesOf(t, n)
<1>1. t \in Table /\ IndexExact(t)
  BY DEF TableConsistent
<1>2. t.index[n] \in SUBSET Sessions
  BY <1>1 DEF Table
<1> QED BY <1>1, <1>2 DEF IndexExact, RoutesOf

(* Provisional routes of the worker go, the confirmed ones are flagged.    *)
LEMMA MarkUnavailableConsistent ==
    ASSUME NEW t, TableConsistent(t), NEW n \in Nodes
    PROVE  TableConsistent(MarkUnavailable(t, n))
<1> DEFINE mine == RoutesOf(t, n)
           S == {s \in mine : t.routes[s].res # 0}
           u == DeleteRoutes(DeleteRows(t, {}), S)
           F(s) == [t.routes[s] EXCEPT !.state = "unavailable"]
           R == [s \in Sessions |->
                   IF s \in mine /\ t.routes[s].res = 0 THEN F(s)
                   ELSE u.routes[s]]
<1>1. t \in Table /\ t.routes \in [Sessions -> Route \cup {NoRoute}]
  BY DEF TableConsistent, Table
<1>2. DeleteRows(t, {}) = t
  BY <1>1 DEF Table, DeleteRows
<1>3. MarkUnavailable(t, n) = [u EXCEPT !.routes = R]
  BY <1>2, Zenon DEF MarkUnavailable
<1>4. mine \in SUBSET Sessions /\ \A s \in mine : HasRoute(t, s)
  BY RoutesOfFacts DEF RoutedTo
<1> HIDE DEF mine
<1>5. S \in SUBSET Sessions /\ \A s \in S : t.rows[s] = NoRow
  BY <1>4, RouteFacts
<1>6. \A s \in Sessions :
         u.routes[s] = IF s \in S THEN NoRoute ELSE t.routes[s]
  <2> HIDE DEF S
  <2> QED BY <1>1, <1>5, RoutesAfterDelete
<1> HIDE DEF u
<1>7. ASSUME NEW s \in Sessions, HasRoute(t, s)
      PROVE  /\ F(s) \in Route /\ F(s).node = t.routes[s].node
             /\ F(s).lease = t.routes[s].lease /\ F(s).res = t.routes[s].res
             /\ F(s).cres = t.routes[s].cres /\ F(s).uses = t.routes[s].uses
             /\ t.routes[s].lease \in Nat
             /\ RouteShape(t.routes[s], t.seq) /\ F(s) # NoRoute
  <2>1. t.routes[s] \in Route /\ RouteShape(t.routes[s], t.seq)
    BY <1>7, RouteFacts
  <2>2. F(s) \in Route
    BY <2>1 DEF Route, RecoveryStates
  <2> QED BY <2>1, <2>2, RouteTableAssumption DEF Route
<1> HIDE DEF F
<1>8. \A s \in Sessions : HasRoute(t, s) => RouteShape(F(s), t.seq)
  BY <1>7 DEF RouteShape
<1>9. R \in [Sessions -> Route \cup {NoRoute}]
  BY <1>1, <1>4, <1>6, <1>7
<1>10. ASSUME NEW s \in Sessions
       PROVE  R[s] = IF s \in mine /\ t.routes[s].res = 0 THEN F(s)
                     ELSE IF s \in S THEN NoRoute ELSE t.routes[s]
  BY <1>6
<1> HIDE DEF R
<1>11. \A s \in Sessions : R[s] = NoRoute <=> s \in S \/ t.routes[s] = NoRoute
  BY <1>4, <1>7, <1>10 DEF HasRoute
<1>12. \A s \in Sessions : R[s] # NoRoute =>
          /\ R[s].node = t.routes[s].node
          /\ R[s].lease >= t.routes[s].lease
          /\ t.routes[s].res = 0 => R[s].res = 0
          /\ RouteShape(R[s], t.seq)
  BY <1>4, <1>7, <1>8, <1>10 DEF HasRoute
<1> HIDE DEF S
<1>13. TableConsistent([u EXCEPT !.routes = R])
  BY <1>5, <1>9, <1>11, <1>12, DeletedAndRewritten DEF u
<1> QED BY <1>3, <1>13

(* Expired candidates go with their rows; the others wait for the report.  *)
LEMMA BeginRecoveryConsistent ==
    ASSUME NEW t, TableConsistent(t), NEW n \in Nodes, NEW now \in Nat
    PROVE  TableConsistent(BeginRecovery(t, n, now))
<1> DEFINE cands == RecoveryCandidates(t, n, now)
           S == RecoveryExpired(t, n, now)
           u == DeleteRoutes(DeleteRows(t, S), S)
           F(s) == [t.routes[s] EXCEPT !.lease = EffectiveLease(t.routes[s]),
                                       !.state = "reconciling"]
           R == [s \in Sessions |-> IF s \in cands THEN F(s) ELSE u.routes[s]]
<1>1. t \in Table /\ t.routes \in [Sessions -> Route \cup {NoRoute}]
  BY DEF TableConsistent, Table
<1>2. BeginRecovery(t, n, now) = [u EXCEPT !.routes = R]
  BY DEF BeginRecovery
<1>3. /\ cands \in SUBSET Sessions /\ S \in SUBSET Sessions
      /\ \A s \in cands : HasRoute(t, s) /\ t.routes[s].res = 0 /\ s \notin S
      /\ \A s \in S : HasRoute(t, s)
  BY RoutesOfFacts DEF RecoveryCandidates, RecoveryExpired, RoutedTo
<1> HIDE DEF cands, S
<1>4. \A s \in Sessions :
         u.routes[s] = IF s \in S THEN NoRoute ELSE t.routes[s]
  BY <1>1, <1>3, RoutesAfterDelete
<1> HIDE DEF u
<1>5. ASSUME NEW s \in Sessions, HasRoute(t, s)
      PROVE  /\ F(s) \in Route /\ F(s).node = t.routes[s].node
             /\ F(s).lease >= t.routes[s].lease /\ F(s).res = t.routes[s].res
             /\ F(s).cres = t.routes[s].cres /\ F(s).uses = t.routes[s].uses
             /\ t.routes[s].lease \in Nat
             /\ RouteShape(t.routes[s], t.seq) /\ F(s) # NoRoute
  <2> DEFINE e == EffectiveLease(t.routes[s])
  <2>1. t.routes[s] \in Route /\ RouteShape(t.routes[s], t.seq)
    BY <1>5, RouteFacts
  <2>2. e \in Nat /\ e >= t.routes[s].lease
    <3>1. t.routes[s].lease \in Nat /\ t.routes[s].used \in Nat
      BY <2>1 DEF Route
    <3> QED BY <3>1, RouteTableAssumption DEF EffectiveLease
  <2> HIDE DEF e
  <2>3. /\ F(s) \in Route /\ F(s).node = t.routes[s].node
        /\ F(s).lease = e /\ F(s).res = t.routes[s].res
        /\ F(s).cres = t.routes[s].cres /\ F(s).uses = t.routes[s].uses
    BY <2>1, <2>2, Zenon DEF Route, RecoveryStates, e
  <2> QED BY <2>1, <2>2, <2>3, RouteTableAssumption, Zenon DEF Route
<1> HIDE DEF F
<1>6. \A s \in cands : RouteShape(F(s), t.seq)
  BY <1>3, <1>5 DEF RouteShape
<1>7. R \in [Sessions -> Route \cup {NoRoute}]
  BY <1>1, <1>3, <1>4, <1>5
<1>8. ASSUME NEW s \in Sessions
      PROVE  R[s] = IF s \in cands THEN F(s)
                    ELSE IF s \in S THEN NoRoute ELSE t.routes[s]
  BY <1>4
<1> HIDE DEF R
<1>9. \A s \in Sessions : R[s] = NoRoute <=> s \in S \/ t.routes[s] = NoRoute
  BY <1>3, <1>5, <1>8 DEF HasRoute
<1>10. \A s \in Sessions : R[s] # NoRoute =>
          /\ R[s].node = t.routes[s].node
          /\ R[s].lease >= t.routes[s].lease
          /\ t.routes[s].res = 0 => R[s].res = 0
          /\ RouteShape(R[s], t.seq)
  BY <1>3, <1>5, <1>6, <1>8 DEF HasRoute
<1>11. TableConsistent([u EXCEPT !.routes = R])
  BY <1>3, <1>7, <1>9, <1>10, DeletedAndRewritten DEF u
<1> QED BY <1>2, <1>11

(* Lost sessions go with their rows, the recovered ones become ready.      *)
LEMMA ApplyRecoveryConsistent ==
    ASSUME NEW t, TableConsistent(t), NEW n \in Nodes, NEW now \in Nat,
           NEW cands, NEW recovered
    PROVE  TableConsistent(ApplyRecovery(t, n, cands, recovered, now))
<1> DEFINE S == RecoveryLost(t, n, cands, recovered, now)
           D == {s \in S : t.routes[s].lease > 0}
           u == DeleteRoutes(DeleteRows(t, D), S)
           F(s) == [t.routes[s] EXCEPT !.state = "ready", !.used = now]
           K(s) == cands[s] > 0 /\ RoutedTo(t, s, n) /\ s \notin S
           R == [s \in Sessions |-> IF K(s) THEN F(s) ELSE u.routes[s]]
<1>1. t \in Table /\ t.routes \in [Sessions -> Route \cup {NoRoute}]
  BY DEF TableConsistent, Table
<1>2. ApplyRecovery(t, n, cands, recovered, now) = [u EXCEPT !.routes = R]
  BY DEF ApplyRecovery
<1>3. /\ S \in SUBSET Sessions /\ \A s \in S : HasRoute(t, s)
      /\ \A s \in Sessions : K(s) => HasRoute(t, s) /\ s \notin S
  BY DEF RecoveryLost, RoutedTo
<1> HIDE DEF S, K
<1>4. \A s \in S \ D : t.rows[s] = NoRow
  <2> SUFFICES ASSUME NEW s \in S, ~(t.routes[s].lease > 0)
               PROVE  t.rows[s] = NoRow
    OBVIOUS
  <2>1. t.routes[s] \in Route
    BY <1>3, RouteFacts
  <2>2. t.routes[s].lease = 0
    BY <2>1 DEF Route
  <2> QED BY <1>3, <2>2, RouteFacts
<1>5. D \in SUBSET Sessions
  BY <1>3
<1> HIDE DEF D
<1>6. \A s \in Sessions :
         u.routes[s] = IF s \in S THEN NoRoute ELSE t.routes[s]
  BY <1>1, <1>3, <1>5, RoutesAfterDelete
<1> HIDE DEF u
<1>7. ASSUME NEW s \in Sessions, HasRoute(t, s)
      PROVE  /\ F(s) \in Route /\ F(s).node = t.routes[s].node
             /\ F(s).lease = t.routes[s].lease /\ F(s).res = t.routes[s].res
             /\ F(s).cres = t.routes[s].cres /\ F(s).uses = t.routes[s].uses
             /\ t.routes[s].lease \in Nat
             /\ RouteShape(t.routes[s], t.seq) /\ F(s) # NoRoute
  <2>1. t.routes[s] \in Route /\ RouteShape(t.routes[s], t.seq)
    BY <1>7, RouteFacts
  <2>2. F(s) \in Route
    BY <2>1, Zenon DEF Route, RecoveryStates
  <2> QED BY <2>1, <2>2, RouteTableAssumption, Zenon DEF Route
<1> HIDE DEF F
<1>8. \A s \in Sessions : HasRoute(t, s) => RouteShape(F(s), t.seq)
  BY <1>7 DEF RouteShape
<1>9. R \in [Sessions -> Route \cup {NoRoute}]
  BY <1>1, <1>3, <1>6, <1>7
<1>10. ASSUME NEW s \in Sessions
       PROVE  R[s] = IF K(s) THEN F(s)
                     ELSE IF s \in S THEN NoRoute ELSE t.routes[s]
  BY <1>6
<1> HIDE DEF R
<1>11. \A s \in Sessions : R[s] = NoRoute <=> s \in S \/ t.routes[s] = NoRoute
  BY <1>3, <1>7, <1>10 DEF HasRoute
<1>12. \A s \in Sessions : R[s] # NoRoute =>
          /\ R[s].node = t.routes[s].node
          /\ R[s].lease >= t.routes[s].lease
          /\ t.routes[s].res = 0 => R[s].res = 0
          /\ RouteShape(R[s], t.seq)
  <2> SUFFICES ASSUME NEW s \in Sessions, R[s] # NoRoute
               PROVE  /\ R[s].node = t.routes[s].node
                      /\ R[s].lease >= t.routes[s].lease
                      /\ t.routes[s].res = 0 => R[s].res = 0
                      /\ RouteShape(R[s], t.seq)
    OBVIOUS
  <2>1. HasRoute(t, s)
    BY <1>11 DEF HasRoute
  <2>2. t.routes[s].lease \in Nat /\ RouteShape(t.routes[s], t.seq)
    BY <1>7, <2>1
  <2>3. CASE K(s)
    <3>1. R[s] = F(s)
      BY <1>10, <2>3
    <3>2. /\ F(s).node = t.routes[s].node /\ F(s).lease = t.routes[s].lease
          /\ F(s).res = t.routes[s].res
      BY <1>7, <2>1
    <3>3. RouteShape(F(s), t.seq)
      BY <1>8, <2>1
    <3> QED BY <2>2, <3>1, <3>2, <3>3
  <2>4. CASE ~K(s)
    <3>1. R[s] = t.routes[s]
      BY <1>10, <2>4
    <3> QED BY <2>2, <3>1
  <2> QED BY <2>3, <2>4
<1>13. TableConsistent([u EXCEPT !.routes = R])
  BY <1>3, <1>4, <1>5, <1>9, <1>11, <1>12, DeletedAndRewritten DEF u
<1> QED BY <1>2, <1>13

(* The rows go by their own node, the routes by the index.                 *)
LEMMA DeleteRoutesByNodeConsistent ==
    ASSUME NEW t, TableConsistent(t), NEW n \in Nodes
    PROVE  TableConsistent(DeleteRoutesByNode(t, n))
<1> DEFINE W == [s \in Sessions |->
                   IF t.rows[s] # NoRow /\ t.rows[s].node = n
                   THEN NoRow ELSE t.rows[s]]
           u == [t EXCEPT !.rows = W]
<1>1. t \in Table /\ t.rows \in [Sessions -> Row \cup {NoRow}] /\ RowsBacked(t)
  BY DEF TableConsistent, Table
<1>2. /\ W \in [Sessions -> Row \cup {NoRow}]
      /\ \A s \in Sessions : W[s] = NoRow \/ W[s] = t.rows[s]
  BY <1>1
<1>3. \A s \in RoutesOf(t, n) : W[s] = NoRow
  <2>1. /\ RoutesOf(t, n) \in SUBSET Sessions
        /\ \A s \in RoutesOf(t, n) : RoutedTo(t, s, n)
    BY RoutesOfFacts
  <2> QED BY <1>1, <2>1 DEF RowsBacked, RoutedTo
<1>4. DeleteRoutesByNode(t, n) = DeleteRoutes(u, RoutesOf(t, n))
  BY DEF DeleteRoutesByNode
<1>5. RoutesOf(t, n) \in SUBSET Sessions
  BY RoutesOfFacts
<1> HIDE DEF W
<1>6. TableConsistent(u) /\ u.rows = W
  BY <1>1, <1>2, RowsDeleted DEF Table
<1> HIDE DEF u
<1> QED BY <1>3, <1>4, <1>5, <1>6, RoutesDeleted

(* A leased route goes only with its row, the others have none.            *)
LEMMA PruneConsistent ==
    ASSUME NEW t, TableConsistent(t), NEW now \in Nat, NEW ok \in BOOLEAN
    PROVE  TableConsistent(PruneRoutes(t, now, ok))
<1> DEFINE u == IF ok THEN DeleteExpiredRows(t, now) ELSE t
           S == {s \in Sessions :
                   /\ HasRoute(t, s)
                   /\ IF t.routes[s].lease > 0
                      THEN t.routes[s].lease <= now /\ ok
                      ELSE RouteTTL > 0 /\ t.routes[s].used <= now - RouteTTL}
<1>1. /\ TableConsistent(u)
      /\ ok => \A s \in Sessions : HasRoute(t, s) /\ t.routes[s].lease <= now
                                   => u.rows[s] = NoRow
  BY DeleteExpiredRowsConsistent
<1>2. \A s \in Sessions : t.rows[s] = NoRow => u.rows[s] = NoRow
  BY DEF DeleteExpiredRows, TableConsistent, Table
<1>3. PruneRoutes(t, now, ok) = DeleteRoutes(u, S)
  BY DEF PruneRoutes
<1> HIDE DEF u
<1>4. \A s \in S : u.rows[s] = NoRow
  <2> SUFFICES ASSUME NEW s \in S PROVE u.rows[s] = NoRow
    OBVIOUS
  <2>1. t.routes[s] \in Route /\ HasRoute(t, s) /\ s \in Sessions
    BY RouteFacts
  <2>2. CASE t.routes[s].lease > 0
    BY <1>1, <2>1, <2>2
  <2>3. CASE ~(t.routes[s].lease > 0)
    <3>1. t.routes[s].lease = 0
      BY <2>1, <2>3 DEF Route
    <3> HIDE DEF S
    <3> QED BY <1>2, <2>1, <3>1, RouteFacts
  <2> QED BY <2>2, <2>3
<1>5. S \in SUBSET Sessions
  OBVIOUS
<1> HIDE DEF S
<1> QED BY <1>1, <1>3, <1>4, <1>5, RoutesDeleted

-----------------------------------------------------------------------------
(* What an operator may do to a session: drop what there is ...            *)
Drops(t, u) ==
    /\ u.seq = t.seq
    /\ \A s \in Sessions : /\ u.routes[s] \in {t.routes[s], NoRoute}
                           /\ u.rows[s] \in {t.rows[s], NoRow}

(* ... or go on with it: the route stays on its worker, no lease shrinks,  *)
(* and a route that is still provisional has the same users.               *)
Evolves(t, u) ==
    /\ u.seq = t.seq
    /\ \A s \in Sessions :
         /\ HasRoute(u, s) => /\ RoutedTo(t, s, u.routes[s].node)
                              /\ u.routes[s].lease >= t.routes[s].lease
         /\ Provisional(u, s) => /\ u.routes[s].res = t.routes[s].res
                                 /\ u.routes[s].uses = t.routes[s].uses
         /\ t.rows[s] # NoRow /\ u.rows[s] # NoRow =>
              u.rows[s].lease >= t.rows[s].lease

(* Leases are numbers.                                                     *)
LEMMA LeaseFacts ==
    ASSUME NEW t, TableConsistent(t), NEW s \in Sessions
    PROVE  /\ HasRoute(t, s) => t.routes[s].lease \in Nat
           /\ t.rows[s] # NoRow => t.rows[s].lease \in Nat
<1>1. /\ t.routes \in [Sessions -> Route \cup {NoRoute}]
      /\ t.rows \in [Sessions -> Row \cup {NoRow}]
  BY Zenon DEF TableConsistent, Table
<1>2. HasRoute(t, s) => t.routes[s] \in Route
  BY <1>1, Zenon DEF HasRoute
<1>3. t.rows[s] # NoRow => t.rows[s] \in Row
  BY <1>1, Zenon
<1> QED BY <1>2, <1>3 DEF Route, Row

(* Dropping is one way to go on, and may follow any other.                 *)
LEMMA DropsEvolve ==
    ASSUME NEW t, TableConsistent(t), NEW u, Drops(t, u)
    PROVE  Evolves(t, u)
<1> SUFFICES ASSUME NEW s \in Sessions
             PROVE  /\ HasRoute(u, s) => /\ RoutedTo(t, s, u.routes[s].node)
                                         /\ u.routes[s].lease >= t.routes[s].lease
                    /\ Provisional(u, s) => /\ u.routes[s].res = t.routes[s].res
                                            /\ u.routes[s].uses = t.routes[s].uses
                    /\ t.rows[s] # NoRow /\ u.rows[s] # NoRow =>
                         u.rows[s].lease >= t.rows[s].lease
  BY Zenon DEF Evolves, Drops
<1>1. /\ HasRoute(t, s) => t.routes[s].lease >= t.routes[s].lease
      /\ t.rows[s] # NoRow => t.rows[s].lease >= t.rows[s].lease
  BY LeaseFacts
<1>2. /\ HasRoute(u, s) => u.routes[s] = t.routes[s] /\ HasRoute(t, s)
      /\ u.rows[s] # NoRow => u.rows[s] = t.rows[s]
  BY Zenon DEF Drops, HasRoute
<1> QED BY <1>1, <1>2, Zenon DEF RoutedTo, Provisional

(* Dropping routes and rows comes after anything that evolves the table.   *)
LEMMA DropsFollow ==
    ASSUME NEW t, NEW u, Evolves(t, u), NEW v, Drops(u, v)
    PROVE  Evolves(t, v)
<1> SUFFICES ASSUME NEW s \in Sessions
             PROVE  /\ HasRoute(v, s) => /\ RoutedTo(t, s, v.routes[s].node)
                                         /\ v.routes[s].lease >= t.routes[s].lease
                    /\ Provisional(v, s) => /\ v.routes[s].res = t.routes[s].res
                                            /\ v.routes[s].uses = t.routes[s].uses
                    /\ t.rows[s] # NoRow /\ v.rows[s] # NoRow =>
                         v.rows[s].lease >= t.rows[s].lease
  BY Zenon DEF Evolves, Drops
<1>1. /\ HasRoute(v, s) => v.routes[s] = u.routes[s] /\ HasRoute(u, s)
      /\ v.rows[s] # NoRow => v.rows[s] = u.rows[s]
  BY Zenon DEF Drops, HasRoute
<1> QED BY <1>1, Zenon DEF Evolves, Provisional

(* Every table drops nothing from itself.                                  *)
LEMMA NothingDrops ==
    ASSUME NEW t
    PROVE  Drops(t, t)
  BY Zenon DEF Drops

(* Deleting routes, and the rows of some sessions.                         *)
LEMMA DeletedDrops ==
    ASSUME NEW t, t \in Table, NEW w, w \in Table, NEW S,
           w.routes = t.routes, w.seq = t.seq,
           \A s \in Sessions : w.rows[s] \in {t.rows[s], NoRow}
    PROVE  Drops(t, DeleteRoutes(w, S))
<1> DEFINE u == DeleteRoutes(w, S)
<1>1. /\ u.seq = w.seq /\ u.rows = w.rows
      /\ \A s \in Sessions : u.routes[s] = IF s \in S THEN NoRoute ELSE w.routes[s]
  BY DEF DeleteRoutes, Table
<1> HIDE DEF u
<1>2. Drops(t, u)
  BY <1>1, Zenon DEF Drops
<1> QED BY <1>2 DEF u

(* Deleting rows and routes only drops.                                    *)
LEMMA DeleteRowsDrops ==
    ASSUME NEW t, t \in Table, NEW D, NEW S
    PROVE  Drops(t, DeleteRoutes(DeleteRows(t, D), S))
<1> DEFINE w == DeleteRows(t, D)
<1>1. /\ w \in Table /\ w.routes = t.routes /\ w.seq = t.seq
      /\ \A s \in Sessions : w.rows[s] \in {t.rows[s], NoRow}
  BY DEF DeleteRows, Table
<1> HIDE DEF w
<1> QED BY <1>1, DeletedDrops DEF w

(* So does the look-up of an expired route ...                             *)
LEMMA SnapshotDrops ==
    ASSUME NEW t, t \in Table, NEW s, NEW now, NEW ok
    PROVE  Drops(t, SnapshotRoute(t, s, now, ok))
  BY DeleteRowsDrops, NothingDrops, Zenon DEF SnapshotRoute

(* ... the clearing of a session's route ...                               *)
LEMMA ClearDrops ==
    ASSUME NEW t, t \in Table, NEW s, NEW n, NEW ok
    PROVE  Drops(t, ClearRoute(t, s, n, ok))
<1>1. Drops(t, DeleteRoutes(DeleteRows(t, {s}), {s}))
  BY DeleteRowsDrops, Zenon
<1>2. Drops(t, DeleteRoutes(t, {s}))
  BY DeletedDrops, Zenon
<1> QED BY <1>1, <1>2, NothingDrops, Zenon DEF ClearRoute

(* ... the pruner ...                                                      *)
LEMMA PruneDrops ==
    ASSUME NEW t, t \in Table, NEW now, NEW ok
    PROVE  Drops(t, PruneRoutes(t, now, ok))
<1> DEFINE w == DeleteExpiredRows(t, now)
<1>1. /\ w \in Table /\ w.routes = t.routes /\ w.seq = t.seq
      /\ \A s \in Sessions : w.rows[s] \in {t.rows[s], NoRow}
  BY DEF DeleteExpiredRows, Table
<1> HIDE DEF w
<1>2. \A S : Drops(t, DeleteRoutes(w, S)) /\ Drops(t, DeleteRoutes(t, S))
  BY <1>1, DeletedDrops, Zenon
<1> QED BY <1>2, Zenon DEF PruneRoutes, w

(* ... a listing ...                                                       *)
LEMMA ListDrops ==
    ASSUME NEW t, t \in Table, NEW now, NEW ok
    PROVE  Drops(t, ListRoutes(t, now, ok))
  BY DeleteRowsDrops, NothingDrops, Zenon DEF ListRoutes

(* ... and the removal of a worker.                                        *)
LEMMA ByNodeDrops ==
    ASSUME NEW t, t \in Table, NEW n
    PROVE  Drops(t, DeleteRoutesByNode(t, n))
<1> DEFINE w == [t EXCEPT !.rows = [s \in Sessions |->
                    IF t.rows[s] # NoRow /\ t.rows[s].node = n
                    THEN NoRow ELSE t.rows[s]]]
<1>1. /\ w \in Table /\ w.routes = t.routes /\ w.seq = t.seq
      /\ \A s \in Sessions : w.rows[s] \in {t.rows[s], NoRow}
  BY DEF Table
<1>2. DeleteRoutesByNode(t, n) = DeleteRoutes(w, RoutesOf(t, n))
  BY Zenon DEF DeleteRoutesByNode
<1> HIDE DEF w
<1> QED BY <1>1, <1>2, DeletedDrops, Zenon

(* One route goes on.                                                      *)
LEMMA PutEvolves ==
    ASSUME NEW t, TableConsistent(t), NEW s \in Sessions, HasRoute(t, s),
           NEW r \in Route,
           r.node = t.routes[s].node, r.lease >= t.routes[s].lease,
           r.res # 0 => r.res = t.routes[s].res /\ r.uses = t.routes[s].uses,
           NEW u, u.seq = t.seq, u.routes = [t.routes EXCEPT ![s] = r],
           \A x \in Sessions : t.rows[x] # NoRow =>
              u.rows[x] = NoRow \/ u.rows[x].lease >= t.rows[x].lease
    PROVE  Evolves(t, u)
<1> SUFFICES ASSUME NEW x \in Sessions
             PROVE  /\ HasRoute(u, x) => /\ RoutedTo(t, x, u.routes[x].node)
                                         /\ u.routes[x].lease >= t.routes[x].lease
                    /\ Provisional(u, x) => /\ u.routes[x].res = t.routes[x].res
                                            /\ u.routes[x].uses = t.routes[x].uses
                    /\ t.rows[x] # NoRow /\ u.rows[x] # NoRow =>
                         u.rows[x].lease >= t.rows[x].lease
  BY Zenon DEF Evolves
<1>1. t.routes \in [Sessions -> Route \cup {NoRoute}]
  BY Zenon DEF TableConsistent, Table
<1>2. u.routes[x] = IF x = s THEN r ELSE t.routes[x]
  BY <1>1, Zenon
<1>3. CASE x = s
  BY <1>2, <1>3, Zenon DEF HasRoute, RoutedTo, Provisional
<1>4. CASE x # s
  <2>1. HasRoute(t, x) => t.routes[x].lease >= t.routes[x].lease
    BY LeaseFacts
  <2> QED BY <1>2, <1>4, <2>1, Zenon DEF HasRoute, RoutedTo, Provisional
<1> QED BY <1>3, <1>4, Zenon

(* Rows that are the same have their leases.                               *)
LEMMA SameRows ==
    ASSUME NEW t, TableConsistent(t), NEW W, W = t.rows
    PROVE  \A x \in Sessions : t.rows[x] # NoRow =>
              W[x] = NoRow \/ W[x].lease >= t.rows[x].lease
<1>1. \A x \in Sessions : t.rows[x] # NoRow => t.rows[x].lease \in Nat
  BY LeaseFacts, Zenon
<1> QED BY <1>1

(* Confirming in memory ends the reservation.                              *)
LEMMA ConfirmEvolves ==
    ASSUME NEW t, TableConsistent(t), NEW s \in Sessions, NEW n,
           NEW res \in Nat, NEW now \in Nat
    PROVE  /\ Evolves(t, ConfirmRoute(t, s, n, res, now))
           /\ ~HoldsReservation(ConfirmRoute(t, s, n, res, now), s, n, res)
<1> DEFINE o == t.routes[s]
           a == [o EXCEPT !.used = now]
           b == [o EXCEPT !.used = now, !.res = 0, !.cres = res, !.uses = 0]
           A == [t EXCEPT !.routes = [t.routes EXCEPT ![s] = a]]
           B == [t EXCEPT !.routes = [t.routes EXCEPT ![s] = b]]
<1>1. t \in Table /\ t.routes \in [Sessions -> Route \cup {NoRoute}]
  BY DEF TableConsistent, Table
<1>2. CASE ~OwnsRoute(t, s, n, res)
  <2>1. ConfirmRoute(t, s, n, res, now) = t
    BY <1>2, Zenon DEF ConfirmRoute
  <2>2. Evolves(t, t)
    BY DropsEvolve, NothingDrops, Zenon
  <2>3. ~HoldsReservation(t, s, n, res)
    BY <1>2, Zenon DEF HoldsReservation, OwnsRoute
  <2> QED BY <2>1, <2>2, <2>3, Zenon
<1>3. CASE OwnsRoute(t, s, n, res)
  <2>1. HasRoute(t, s)
    BY <1>3, Zenon DEF OwnsRoute, RoutedTo
  <2>2. o \in Route
    BY <2>1, RouteFacts, Zenon
  <2>3. /\ a \in Route /\ a.node = o.node /\ a.lease = o.lease
        /\ a.res = o.res /\ a.uses = o.uses
        /\ b \in Route /\ b.node = o.node /\ b.lease = o.lease /\ b.res = 0
    BY <2>2, Zenon DEF Route
  <2>3a. o.lease >= o.lease
    BY <2>2 DEF Route
  <2>4. /\ A.seq = t.seq /\ A.rows = t.rows
        /\ A.routes = [t.routes EXCEPT ![s] = a]
        /\ B.seq = t.seq /\ B.rows = t.rows
        /\ B.routes = [t.routes EXCEPT ![s] = b]
        /\ B.routes[s] = b
    BY <1>1, Zenon DEF Table
  <2>5. ConfirmRoute(t, s, n, res, now) = IF res = 0 THEN A ELSE B
    BY <1>3, Zenon DEF ConfirmRoute, PutRoute
  <2> HIDE DEF a, b, A, B
  <2>5a. \A x \in Sessions : t.rows[x] # NoRow =>
            t.rows[x] = NoRow \/ t.rows[x].lease >= t.rows[x].lease
    BY SameRows, Zenon
  <2>6. Evolves(t, A)
    BY <2>1, <2>3, <2>3a, <2>4, <2>5a, PutEvolves
  <2>7. Evolves(t, B)
    BY <2>1, <2>3, <2>3a, <2>4, <2>5a, PutEvolves
  <2>8. res # 0 => ~HoldsReservation(B, s, n, res)
    BY <2>3, <2>4, Zenon DEF HoldsReservation
  <2>9. res = 0 => ~HoldsReservation(A, s, n, res)
    BY Zenon DEF HoldsReservation
  <2> QED BY <2>5, <2>6, <2>7, <2>8, <2>9, Zenon
<1> QED BY <1>2, <1>3, Zenon

(* Committing a lease extends it and ends the reservation.                 *)
LEMMA CommitEvolves ==
    ASSUME NEW t, TableConsistent(t), NEW s \in Sessions, NEW n,
           NEW res \in Nat, NEW lease \in Nat, NEW now \in Nat,
           OwnsRoute(t, s, n, res)
    PROVE  LET u == CommitRoute(t, s, n, res, lease, now) IN
           Evolves(t, u) /\ ~Provisional(u, s)
<1> DEFINE o == t.routes[s]
           max == Later(o.lease, lease)
           b == [o EXCEPT !.lease = max, !.used = now, !.state = "ready",
                          !.res = 0, !.uses = 0,
                          !.cres = IF res # 0 THEN res ELSE o.cres]
           row == [node |-> n, lease |-> max, used |-> now]
           W == [t.rows EXCEPT ![s] =
                   IF t.rows[s] = NoRow THEN row
                   ELSE [node  |-> row.node,
                         lease |-> Later(t.rows[s].lease, row.lease),
                         used  |-> Later(t.rows[s].used, row.used)]]
           u == [t EXCEPT !.rows = W, !.routes = [t.routes EXCEPT ![s] = b]]
<1>1. /\ t \in Table /\ t.routes \in [Sessions -> Route \cup {NoRoute}]
      /\ t.rows \in [Sessions -> Row \cup {NoRow}]
  BY DEF TableConsistent, Table
<1>2. HasRoute(t, s)
  BY Zenon DEF OwnsRoute, RoutedTo
<1>3. o \in Route
  BY <1>2, RouteFacts, Zenon
<1>4. max \in Nat /\ max >= o.lease
  BY <1>3 DEF Route, Later
<1>5. u = CommitRoute(t, s, n, res, lease, now)
  BY <1>1 DEF CommitRoute, PutRoute, UpsertRow, Table
<1>6. /\ u.seq = t.seq /\ u.rows = W
      /\ u.routes = [t.routes EXCEPT ![s] = b] /\ u.routes[s] = b
  BY <1>1, Zenon DEF Table
<1>7. (IF res # 0 THEN res ELSE o.cres) \in Nat
  BY <1>3 DEF Route
<1> HIDE DEF max
<1>8. /\ b \in Route /\ b.node = o.node /\ b.lease = max /\ b.res = 0
  BY <1>3, <1>4, <1>7, Zenon DEF Route, RecoveryStates
<1>9. \A x \in Sessions : t.rows[x] # NoRow =>
         W[x] = NoRow \/ W[x].lease >= t.rows[x].lease
  <2> SUFFICES ASSUME NEW x \in Sessions, t.rows[x] # NoRow
               PROVE  W[x].lease >= t.rows[x].lease
    BY Zenon
  <2>1. t.rows[x].lease \in Nat
    BY LeaseFacts, Zenon
  <2>2. CASE x = s
    <3>1. W[x].lease = Later(t.rows[s].lease, max)
      BY <1>1, <2>2
    <3> HIDE DEF W
    <3> QED BY <1>4, <2>1, <2>2, <3>1 DEF Later
  <2>3. CASE x # s
    <3>1. W[x] = t.rows[x]
      BY <1>1, <2>3, Zenon
    <3> HIDE DEF W
    <3> QED BY <2>1, <3>1
  <2> QED BY <2>2, <2>3, Zenon
<1> HIDE DEF o, b, W, u
<1>10. Evolves(t, u)
  BY <1>2, <1>4, <1>6, <1>8, <1>9, PutEvolves, ZenonT(40) DEF o
<1>11. ~Provisional(u, s)
  BY <1>6, <1>8, Zenon DEF Provisional
<1> QED BY <1>5, <1>10, <1>11, Zenon

(* Some routes go on and the rest is dropped.                              *)
LEMMA RewritesEvolve ==
    ASSUME NEW t, TableConsistent(t), NEW w, Drops(t, w), w \in Table,
           NEW R \in [Sessions -> Route \cup {NoRoute}],
           \A s \in Sessions :
              \/ R[s] = w.routes[s]
              \/ /\ HasRoute(t, s)
                 /\ R[s].node = t.routes[s].node
                 /\ R[s].lease >= t.routes[s].lease
                 /\ R[s].res = t.routes[s].res /\ R[s].uses = t.routes[s].uses
    PROVE  Evolves(t, [w EXCEPT !.routes = R])
<1> DEFINE u == [w EXCEPT !.routes = R]
<1>1. u.seq = w.seq /\ u.rows = w.rows /\ u.routes = R
  BY DEF Table
<1> HIDE DEF u
<1>2. Evolves(t, w)
  BY DropsEvolve, Zenon
<1> SUFFICES ASSUME NEW s \in Sessions
             PROVE  /\ HasRoute(u, s) => /\ RoutedTo(t, s, u.routes[s].node)
                                         /\ u.routes[s].lease >= t.routes[s].lease
                    /\ Provisional(u, s) => /\ u.routes[s].res = t.routes[s].res
                                            /\ u.routes[s].uses = t.routes[s].uses
                    /\ t.rows[s] # NoRow /\ u.rows[s] # NoRow =>
                         u.rows[s].lease >= t.rows[s].lease
  BY <1>1, <1>2, Zenon DEF Evolves, u
<1>3. CASE R[s] = w.routes[s]
  BY <1>1, <1>2, <1>3, ZenonT(30) DEF Evolves, HasRoute, Provisional
<1>4. CASE R[s] # w.routes[s]
  BY <1>1, <1>2, <1>4, Zenon DEF Evolves, RoutedTo
<1> QED BY <1>3, <1>4, Zenon

(* Marking a worker's routes unavailable moves and shortens none.          *)
LEMMA MarkEvolves ==
    ASSUME NEW t, TableConsistent(t), NEW n \in Nodes
    PROVE  Evolves(t, MarkUnavailable(t, n))
<1> DEFINE mine == RoutesOf(t, n)
           w == DeleteRoutes(t, {s \in mine : t.routes[s].res # 0})
           F(s) == [t.routes[s] EXCEPT !.state = "unavailable"]
           R == [s \in Sessions |-> IF s \in mine /\ t.routes[s].res = 0
                                    THEN F(s) ELSE w.routes[s]]
<1>1. t \in Table /\ t.routes \in [Sessions -> Route \cup {NoRoute}]
  BY DEF TableConsistent, Table
<1>2. Drops(t, w)
  BY <1>1, DeletedDrops, Zenon
<1>3. w \in Table
  BY <1>1 DEF DeleteRoutes, Table
<1>4. MarkUnavailable(t, n) = [w EXCEPT !.routes = R]
  BY Zenon DEF MarkUnavailable
<1>5. ASSUME NEW s \in Sessions, HasRoute(t, s)
      PROVE  /\ F(s) \in Route
             /\ F(s).node = t.routes[s].node /\ F(s).lease >= t.routes[s].lease
             /\ F(s).res = t.routes[s].res /\ F(s).uses = t.routes[s].uses
  <2>1. t.routes[s] \in Route
    BY <1>5, RouteFacts, Zenon
  <2> QED BY <2>1 DEF Route, RecoveryStates
<1>6. \A s \in Sessions : s \in mine => HasRoute(t, s)
  BY Zenon DEF RoutesOf, RoutedTo
<1> HIDE DEF mine, w, F
<1>7. \A s \in Sessions : w.routes[s] \in Route \cup {NoRoute}
  BY <1>3, Zenon DEF Table
<1>8. R \in [Sessions -> Route \cup {NoRoute}]
  BY <1>5, <1>6, <1>7, Zenon
<1>9. \A s \in Sessions : R[s] = w.routes[s] \/ (HasRoute(t, s) /\ R[s] = F(s))
  BY <1>6, Zenon
<1> HIDE DEF R
<1>10. \A s \in Sessions :
          \/ R[s] = w.routes[s]
          \/ /\ HasRoute(t, s)
             /\ R[s].node = t.routes[s].node
             /\ R[s].lease >= t.routes[s].lease
             /\ R[s].res = t.routes[s].res /\ R[s].uses = t.routes[s].uses
  BY <1>5, <1>9, Zenon
<1>11. Evolves(t, [w EXCEPT !.routes = R])
  BY <1>2, <1>3, <1>8, <1>10, RewritesEvolve, Zenon
<1> QED BY <1>4, <1>11, Zenon

(* The start of a recovery moves and shortens none.                        *)
LEMMA BeginEvolves ==
    ASSUME NEW t, TableConsistent(t), NEW n \in Nodes, NEW now \in Nat
    PROVE  Evolves(t, BeginRecovery(t, n, now))
<1> DEFINE C == RecoveryCandidates(t, n, now)
           X == RecoveryExpired(t, n, now)
           w == DeleteRoutes(DeleteRows(t, X), X)
           F(s) == [t.routes[s] EXCEPT !.lease = EffectiveLease(t.routes[s]),
                                       !.state = "reconciling"]
           R == [s \in Sessions |-> IF s \in C THEN F(s) ELSE w.routes[s]]
<1>1. t \in Table /\ t.routes \in [Sessions -> Route \cup {NoRoute}]
  BY DEF TableConsistent, Table
<1>2. Drops(t, w)
  BY <1>1, DeleteRowsDrops, Zenon
<1>3. w \in Table
  <2>1. DeleteRows(t, X) \in Table
    BY <1>1 DEF DeleteRows, Table
  <2> QED BY <2>1 DEF DeleteRoutes, Table
<1>4. BeginRecovery(t, n, now) = [w EXCEPT !.routes = R]
  BY Zenon DEF BeginRecovery
<1>5. ASSUME NEW s \in Sessions, HasRoute(t, s)
      PROVE  /\ F(s) \in Route
             /\ F(s).node = t.routes[s].node /\ F(s).lease >= t.routes[s].lease
             /\ F(s).res = t.routes[s].res /\ F(s).uses = t.routes[s].uses
  <2>1. t.routes[s] \in Route
    BY <1>5, RouteFacts, Zenon
  <2>2. /\ EffectiveLease(t.routes[s]) \in Nat
        /\ EffectiveLease(t.routes[s]) >= t.routes[s].lease
    BY <2>1, RouteTableAssumption DEF EffectiveLease, Route
  <2> QED BY <2>1, <2>2, Zenon DEF Route, RecoveryStates
<1>6. \A s \in Sessions : s \in C => HasRoute(t, s)
  BY Zenon DEF RecoveryCandidates, RoutesOf, RoutedTo
<1> HIDE DEF C, w, F
<1>7. \A s \in Sessions : w.routes[s] \in Route \cup {NoRoute}
  BY <1>3, Zenon DEF Table
<1>8. R \in [Sessions -> Route \cup {NoRoute}]
  BY <1>5, <1>6, <1>7, Zenon
<1>9. \A s \in Sessions : R[s] = w.routes[s] \/ (HasRoute(t, s) /\ R[s] = F(s))
  BY <1>6, Zenon
<1> HIDE DEF R
<1>10. \A s \in Sessions :
          \/ R[s] = w.routes[s]
          \/ /\ HasRoute(t, s)
             /\ R[s].node = t.routes[s].node
             /\ R[s].lease >= t.routes[s].lease
             /\ R[s].res = t.routes[s].res /\ R[s].uses = t.routes[s].uses
  BY <1>5, <1>9, Zenon
<1>11. Evolves(t, [w EXCEPT !.routes = R])
  BY <1>2, <1>3, <1>8, <1>10, RewritesEvolve, Zenon
<1> QED BY <1>4, <1>11, Zenon

(* The report of a recovery moves and shortens none.                       *)
LEMMA ApplyEvolves ==
    ASSUME NEW t, TableConsistent(t), NEW n \in Nodes, NEW cands,
           NEW recovered, NEW now \in Nat
    PROVE  Evolves(t, ApplyRecovery(t, n, cands, recovered, now))
<1> DEFINE L == RecoveryLost(t, n, cands, recovered, now)
           D == {s \in L : t.routes[s].lease > 0}
           w == DeleteRoutes(DeleteRows(t, D), L)
           F(s) == [t.routes[s] EXCEPT !.state = "ready", !.used = now]
           R == [s \in Sessions |->
                   IF cands[s] > 0 /\ RoutedTo(t, s, n) /\ s \notin L
                   THEN F(s) ELSE w.routes[s]]
<1>1. t \in Table /\ t.routes \in [Sessions -> Route \cup {NoRoute}]
  BY DEF TableConsistent, Table
<1>2. Drops(t, w)
  BY <1>1, DeleteRowsDrops, Zenon
<1>3. w \in Table
  <2>1. DeleteRows(t, D) \in Table
    BY <1>1 DEF DeleteRows, Table
  <2> QED BY <2>1 DEF DeleteRoutes, Table
<1>4. ApplyRecovery(t, n, cands, recovered, now) = [w EXCEPT !.routes = R]
  BY Zenon DEF ApplyRecovery
<1>5. ASSUME NEW s \in Sessions, HasRoute(t, s)
      PROVE  /\ F(s) \in Route
             /\ F(s).node = t.routes[s].node /\ F(s).lease >= t.routes[s].lease
             /\ F(s).res = t.routes[s].res /\ F(s).uses = t.routes[s].uses
  <2>1. t.routes[s] \in Route
    BY <1>5, RouteFacts, Zenon
  <2>2. t.routes[s].lease >= t.routes[s].lease
    BY <2>1 DEF Route
  <2>3. F(s).lease = t.routes[s].lease
    BY <2>1, Zenon DEF Route
  <2> QED BY <2>1, <2>2, <2>3, Zenon DEF Route, RecoveryStates
<1>6. \A s \in Sessions : RoutedTo(t, s, n) => HasRoute(t, s)
  BY Zenon DEF RoutedTo
<1> HIDE DEF L, w, F
<1>7. \A s \in Sessions : w.routes[s] \in Route \cup {NoRoute}
  BY <1>3, Zenon DEF Table
<1>8. R \in [Sessions -> Route \cup {NoRoute}]
  BY <1>5, <1>6, <1>7, Zenon
<1>9. \A s \in Sessions : R[s] = w.routes[s] \/ (HasRoute(t, s) /\ R[s] = F(s))
  BY <1>6, Zenon
<1> HIDE DEF R
<1>10. \A s \in Sessions :
          \/ R[s] = w.routes[s]
          \/ /\ HasRoute(t, s)
             /\ R[s].node = t.routes[s].node
             /\ R[s].lease >= t.routes[s].lease
             /\ R[s].res = t.routes[s].res /\ R[s].uses = t.routes[s].uses
  BY <1>5, <1>9, Zenon
<1>11. Evolves(t, [w EXCEPT !.routes = R])
  BY <1>2, <1>3, <1>8, <1>10, RewritesEvolve, Zenon
<1> QED BY <1>4, <1>11, Zenon

-----------------------------------------------------------------------------
(* Only the number of dispatches on a session's route changes, to k.       *)
Counts(t, u, s, k) ==
    /\ u.seq = t.seq /\ u.rows = t.rows
    /\ \A x \in Sessions : x # s => u.routes[x] = t.routes[x]
    /\ HasRoute(t, s) /\ HasRoute(u, s)
    /\ u.routes[s].node = t.routes[s].node
    /\ u.routes[s].lease = t.routes[s].lease
    /\ u.routes[s].res = t.routes[s].res
    /\ u.routes[s].uses = k

(* A step that changes the count of one route moves and shortens none.     *)
LEMMA CountsSteady ==
    ASSUME NEW t, TableConsistent(t), NEW s \in Sessions, NEW k, NEW u,
           Counts(t, u, s, k)
    PROVE  /\ t.routes[s].res = 0 \/ k = t.routes[s].uses => Evolves(t, u)
           /\ \A x \in Sessions :
                /\ HasRoute(u, x) => /\ RoutedTo(t, x, u.routes[x].node)
                                     /\ u.routes[x].lease >= t.routes[x].lease
                /\ t.rows[x] # NoRow /\ u.rows[x] # NoRow =>
                     u.rows[x].lease >= t.rows[x].lease
<1>1. \A x \in Sessions :
         /\ HasRoute(u, x) => /\ RoutedTo(t, x, u.routes[x].node)
                              /\ u.routes[x].lease = t.routes[x].lease
         /\ u.rows[x] = t.rows[x]
  <2> TAKE x \in Sessions
  <2>1. CASE x = s
    BY <2>1, Zenon DEF Counts, RoutedTo
  <2>2. CASE x # s
    BY <2>2, Zenon DEF Counts, RoutedTo, HasRoute
  <2> QED BY <2>1, <2>2, Zenon
<1>2. \A x \in Sessions :
         /\ HasRoute(t, x) => t.routes[x].lease >= t.routes[x].lease
         /\ t.rows[x] # NoRow => t.rows[x].lease >= t.rows[x].lease
  BY LeaseFacts
<1>3. \A x \in Sessions :
         /\ HasRoute(u, x) => /\ RoutedTo(t, x, u.routes[x].node)
                              /\ u.routes[x].lease >= t.routes[x].lease
         /\ t.rows[x] # NoRow /\ u.rows[x] # NoRow =>
              u.rows[x].lease >= t.rows[x].lease
  BY <1>1, <1>2, Zenon DEF RoutedTo
<1>4. ASSUME t.routes[s].res = 0 \/ k = t.routes[s].uses,
             NEW x \in Sessions, Provisional(u, x)
      PROVE  /\ u.routes[x].res = t.routes[x].res
             /\ u.routes[x].uses = t.routes[x].uses
  <2>1. CASE x = s
    BY <1>4, <2>1, Zenon DEF Counts, Provisional
  <2>2. CASE x # s
    BY <2>2, Zenon DEF Counts
  <2> QED BY <2>1, <2>2, Zenon
<1>5. u.seq = t.seq
  BY Zenon DEF Counts
<1> QED BY <1>3, <1>4, <1>5, Zenon DEF Evolves

(* The route joined: one more dispatch counts on it while it is            *)
(* provisional.                                                            *)
LEMMA ClaimCounts ==
    ASSUME NEW t, TableConsistent(t), NEW s \in Sessions, HasRoute(t, s),
           NEW now \in Nat
    PROVE  Counts(t, ClaimRoute(t, s, now), s,
                  IF t.routes[s].res # 0 THEN t.routes[s].uses + 1
                                         ELSE t.routes[s].uses)
<1> DEFINE o == t.routes[s]
           k == IF o.res # 0 THEN o.uses + 1 ELSE o.uses
           r == [o EXCEPT !.used = now, !.uses = k]
           u == [t EXCEPT !.routes = [t.routes EXCEPT ![s] = r]]
<1>1. t \in Table /\ t.routes \in [Sessions -> Route \cup {NoRoute}]
  BY DEF TableConsistent, Table
<1>2. o \in Route
  BY RouteFacts, Zenon
<1>3. k \in Nat
  BY <1>2 DEF Route
<1>4. ClaimRoute(t, s, now) = u
  BY Zenon DEF ClaimRoute, PutRoute
<1> HIDE DEF k
<1>5. /\ r \in Route /\ r.node = o.node /\ r.lease = o.lease
      /\ r.res = o.res /\ r.uses = k
  BY <1>2, <1>3, Zenon DEF Route
<1>6. r # NoRoute
  BY <1>5, RouteTableAssumption, Zenon
<1> HIDE DEF r
<1>7. /\ u.seq = t.seq /\ u.rows = t.rows /\ u.routes[s] = r
      /\ \A x \in Sessions : x # s => u.routes[x] = t.routes[x]
  BY <1>1 DEF Table
<1> HIDE DEF u
<1>8. Counts(t, u, s, k)
  BY <1>5, <1>6, <1>7, Zenon DEF Counts, HasRoute
<1> QED BY <1>4, <1>8, Zenon DEF k

(* One dispatch gives up: it is counted no more, and the last one takes    *)
(* the route with it.                                                      *)
LEMMA ClearReservationCounts ==
    ASSUME NEW t, TableConsistent(t), NEW s \in Sessions, NEW n, NEW res
    PROVE  LET u == ClearReservation(t, s, n, res) IN
           /\ ~HoldsReservation(t, s, n, res) => u = t
           /\ HoldsReservation(t, s, n, res) =>
                IF t.routes[s].uses > 1
                THEN Counts(t, u, s, t.routes[s].uses - 1)
                ELSE Drops(t, u) /\ ~HasRoute(u, s)
<1> DEFINE o == t.routes[s]
           k == o.uses - 1
           r == [o EXCEPT !.uses = k]
           u == [t EXCEPT !.routes = [t.routes EXCEPT ![s] = r]]
           v == DeleteRoutes(t, {s})
<1>1. t \in Table /\ t.routes \in [Sessions -> Route \cup {NoRoute}]
  BY DEF TableConsistent, Table
<1>2. CASE ~HoldsReservation(t, s, n, res)
  BY <1>2, Zenon DEF ClearReservation
<1>3. CASE HoldsReservation(t, s, n, res) /\ o.uses > 1
  <2>1. HasRoute(t, s)
    BY <1>3, Zenon DEF HoldsReservation, RoutedTo
  <2>2. o \in Route
    BY <2>1, RouteFacts, Zenon
  <2>3. k \in Nat
    BY <1>3, <2>2 DEF Route
  <2>4. ClearReservation(t, s, n, res) = u
    BY <1>3, Zenon DEF ClearReservation, PutRoute
  <2> HIDE DEF k
  <2>5. /\ r \in Route /\ r.node = o.node /\ r.lease = o.lease
        /\ r.res = o.res /\ r.uses = k
    BY <2>2, <2>3, Zenon DEF Route
  <2>6. r # NoRoute
    BY <2>5, RouteTableAssumption, Zenon
  <2> HIDE DEF r
  <2>7. /\ u.seq = t.seq /\ u.rows = t.rows /\ u.routes[s] = r
        /\ \A x \in Sessions : x # s => u.routes[x] = t.routes[x]
    BY <1>1 DEF Table
  <2> HIDE DEF u
  <2>8. Counts(t, u, s, k)
    BY <2>1, <2>5, <2>6, <2>7, Zenon DEF Counts, HasRoute
  <2> QED BY <1>3, <2>4, <2>8, Zenon DEF k
<1>4. CASE HoldsReservation(t, s, n, res) /\ ~(o.uses > 1)
  <2>1. ClearReservation(t, s, n, res) = v
    BY <1>4, Zenon DEF ClearReservation
  <2>2. Drops(t, v)
    BY <1>1, DeletedDrops, Zenon
  <2>3. ~HasRoute(v, s)
    BY <1>1 DEF HasRoute, DeleteRoutes, Table
  <2> HIDE DEF v
  <2> QED BY <1>4, <2>1, <2>2, <2>3, Zenon
<1> QED BY <1>2, <1>3, <1>4, Zenon

(* Joining a route and giving it back at once changes no count.            *)
LEMMA ClaimGivenBack ==
    ASSUME NEW t, TableConsistent(t), NEW s \in Sessions, HasRoute(t, s),
           NEW now \in Nat
    PROVE  Evolves(t, ClearReservation(ClaimRoute(t, s, now), s,
                                       t.routes[s].node, t.routes[s].res))
<1> DEFINE o == t.routes[s]
           u == ClaimRoute(t, s, now)
           v == ClearReservation(u, s, o.node, o.res)
<1>1. TableConsistent(u)
  BY ClaimConsistent, Zenon
<1>2. Counts(t, u, s, IF o.res # 0 THEN o.uses + 1 ELSE o.uses)
  BY ClaimCounts, Zenon
<1>3. o \in Route /\ RouteShape(o, t.seq)
  BY RouteFacts, Zenon
<1> HIDE DEF u
<1>4. CASE o.res = 0
  <2>1. v = u
    BY <1>4, Zenon DEF ClearReservation, HoldsReservation
  <2>2. Evolves(t, u)
    BY <1>2, <1>4, CountsSteady, Zenon
  <2> QED BY <2>1, <2>2, Zenon DEF u
<1>5. CASE o.res # 0
  <2>1. u.routes[s].uses = o.uses + 1 /\ HoldsReservation(u, s, o.node, o.res)
    BY <1>2, <1>5, Zenon DEF Counts, HoldsReservation, RoutedTo
  <2>2. u.routes[s].uses > 1 /\ u.routes[s].uses - 1 = o.uses
    BY <1>3, <1>5, <2>1 DEF RouteShape, Route
  <2>3. Counts(u, v, s, o.uses)
    <3>1. Counts(u, v, s, u.routes[s].uses - 1)
      BY <1>1, <2>1, <2>2, ClearReservationCounts, Zenon
    <3> HIDE DEF v
    <3> QED BY <2>2, <3>1
  <2>4. Counts(t, v, s, o.uses)
    <3> HIDE DEF v
    <3> QED BY <1>2, <2>3, Zenon DEF Counts
  <2>5. Evolves(t, v)
    BY <2>4, CountsSteady, Zenon
  <2> QED BY <2>5, Zenon DEF u
<1> QED BY <1>4, <1>5, Zenon

(* A fresh reservation.                                                    *)
LEMMA ReserveFresh ==
    ASSUME NEW t, TableConsistent(t), NEW s \in Sessions, ~HasRoute(t, s),
           NEW n, NEW now, NEW u, u = ReserveRoute(t, s, n, now)
    PROVE  /\ u.seq = t.seq + 1 /\ u.rows = t.rows
           /\ \A x \in Sessions : x # s => u.routes[x] = t.routes[x]
           /\ u.routes[s].node = n /\ u.routes[s].res = t.seq + 1
           /\ u.routes[s].uses = 1
<1> DEFINE r == [node |-> n, used |-> now, lease |-> 0, state |-> "ready",
                 res |-> t.seq + 1, cres |-> 0, uses |-> 1]
           R == [t.routes EXCEPT ![s] = r]
           I == [t.index EXCEPT ![n] = @ \cup {s}]
           v == [routes |-> R, index |-> I, rows |-> t.rows, seq |-> t.seq + 1]
<1>1. t.routes \in [Sessions -> Route \cup {NoRoute}]
  BY Zenon DEF TableConsistent, Table
<1>2. u = v
  BY Zenon DEF ReserveRoute
<1>3. r.node = n /\ r.res = t.seq + 1 /\ r.uses = 1
  BY Zenon
<1>4. R[s] = r /\ \A x \in Sessions : x # s => R[x] = t.routes[x]
  BY <1>1, Zenon
<1> HIDE DEF r, R, I
<1>5. v.seq = t.seq + 1 /\ v.rows = t.rows /\ v.routes = R
  BY Zenon
<1> HIDE DEF v
<1> QED BY <1>2, <1>3, <1>4, <1>5, Zenon

(* The restored table: every route comes from a row that was backed by a   *)
(* route on the same worker, and none is provisional.                      *)
LEMMA RestoreSteady ==
    ASSUME NEW t, TableConsistent(t), NEW now \in Nat
    PROVE  LET u == RestoreTerminalSessionRoutes(t, now) IN
           \A s \in Sessions :
              /\ HasRoute(u, s) => RoutedTo(t, s, u.routes[s].node)
              /\ ~Provisional(u, s)
              /\ u.rows[s] \in {t.rows[s], NoRow}
<1> DEFINE K == DeleteExpiredRows(t, now).rows
           F(s) == [node |-> K[s].node, used |-> K[s].used,
                    lease |-> K[s].lease, state |-> "unavailable",
                    res |-> 0, cres |-> 0, uses |-> 0]
           R == [s \in Sessions |-> IF K[s] = NoRow THEN NoRoute ELSE F(s)]
           I == [n \in Nodes |-> {s \in Sessions : K[s] # NoRow /\ K[s].node = n}]
           u == [routes |-> R, index |-> I, rows |-> K, seq |-> 0]
<1>1. u = RestoreTerminalSessionRoutes(t, now)
  BY Zenon DEF RestoreTerminalSessionRoutes
<1>2. \A s \in Sessions : K[s] \in {t.rows[s], NoRow}
  BY DEF DeleteExpiredRows, TableConsistent, Table
<1> HIDE DEF K
<1>3. \A s \in Sessions : F(s).node = K[s].node /\ F(s).res = 0
  BY Zenon
<1> HIDE DEF F, I
<1>4. /\ u.rows = K
      /\ \A s \in Sessions : u.routes[s] = IF K[s] = NoRow THEN NoRoute ELSE F(s)
  BY Zenon
<1> HIDE DEF u
<1>5. \A s \in Sessions : HasRoute(u, s) =>
         /\ u.routes[s].node = K[s].node /\ u.routes[s].res = 0
         /\ K[s] # NoRow
  BY <1>3, <1>4, Zenon DEF HasRoute
<1>6. \A s \in Sessions : HasRoute(u, s) => RoutedTo(t, s, u.routes[s].node)
  BY <1>2, <1>5, Zenon DEF TableConsistent, RowsBacked
<1> QED BY <1>1, <1>2, <1>4, <1>5, <1>6, Zenon DEF Provisional

=============================================================================
