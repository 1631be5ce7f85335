----------------------- MODULE TerminalDispatchProofs -----------------------
(***************************************************************************)
(* The route table is consistent in every state of the console, for any    *)
(* workers, sessions, requests, connections, bounds and faults.            *)
(*                                                                         *)
(* The inductive invariant adds to the type invariant and the consistency  *)
(* of the table what a goroutine knows from the steps it has taken.        *)
(***************************************************************************)
EXTENDS TerminalDispatch, RouteTableProofs

RequestShape(r) ==
    /\ r.phase \in {"claimed", "stale", "bound", "sent", "answered",
                    "target", "delete"} => r.node \in Nodes
    /\ r.phase \in {"chosen", "bound", "sent", "answered"} =>
          r.conn \in Conns /\ conns[r.conn].phase # "new"
    /\ r.phase \in {"pick", "looked", "claimed", "stale", "choose", "chosen",
                    "bound", "target"} => r.left >= 1
    /\ r.phase = "choose" => r.round < 2

ConnectionsShaped ==
    /\ \A c \in Conns : conns[c].phase # "new" => conns[c].node \in Nodes
    /\ \A n \in Nodes : cur[n] # None => conns[cur[n]].phase # "new"

IInv ==
    /\ TypeOK
    /\ TableConsistent(tbl)
    /\ \A d \in Requests : RequestShape(reqs[d])
    /\ ConnectionsShaped

-----------------------------------------------------------------------------
(* A step of a request: the table stays consistent and the new state of    *)
(* the request is sound.                                                   *)
LEMMA RequestStepKeeps ==
    ASSUME IInv, NEW d \in Requests, NEW upd \in Req \cup {Idle},
           RequestShape(upd), Step(d, upd), TableConsistent(tbl'),
           UNCHANGED <<now, cur, conns, provisioned>>
    PROVE  IInv'
<1>1. /\ reqs \in [Requests -> Req \cup {Idle}]
      /\ reqs' = [reqs EXCEPT ![d] = upd]
  BY DEF IInv, TypeOK, Step
<1>2. reqs' \in [Requests -> Req \cup {Idle}]
  BY <1>1
<1>3. TypeOK'
  BY <1>2 DEF IInv, TypeOK, TableConsistent
<1>4. \A e \in Requests : RequestShape(reqs'[e])
  BY <1>1 DEF IInv
<1>5. \A e \in Requests : RequestShape(reqs[e])'
  BY <1>4 DEF RequestShape
<1>6. ConnectionsShaped'
  BY DEF IInv, ConnectionsShaped
<1> QED BY <1>3, <1>5, <1>6 DEF IInv

(* A request that returns leaves nothing to prove but the table.           *)
LEMMA ReturnKeeps ==
    ASSUME IInv, NEW d \in Requests, Return(d), TableConsistent(tbl'),
           UNCHANGED <<now, cur, conns, provisioned>>
    PROVE  IInv'
<1>1. Idle \in Req \cup {Idle} /\ RequestShape(Idle)
  BY DEF RequestShape, Idle
<1> QED BY <1>1, RequestStepKeeps DEF Return

(* What a request in progress knows.                                       *)
LEMMA RequestFacts ==
    ASSUME IInv, NEW d \in Requests, reqs[d].phase # "idle"
    PROVE  /\ reqs[d] \in Req
           /\ RequestShape(reqs[d])
           /\ reqs[d].s \in Sessions
           /\ TableConsistent(tbl) /\ now \in Nat
<1>1. reqs[d] \in Req \cup {Idle}
  BY DEF IInv, TypeOK
<1>2. reqs[d] \in Req
  BY <1>1 DEF Idle
<1> QED BY <1>2 DEF IInv, TypeOK, Req

(* The worker a ready connection serves.                                   *)
LEMMA UsableFacts ==
    ASSUME IInv, NEW n \in Nodes, Usable(n)
    PROVE  cur[n] \in Conns /\ conns[cur[n]].phase # "new"
<1>1. cur[n] \in Conns \cup {None} /\ cur[n] # None
  BY DEF IInv, TypeOK, Usable
<1> QED BY <1>1 DEF IInv, ConnectionsShaped

(* The session is routed after a claim or a reservation.                   *)
LEMMA ReserveRoutes ==
    ASSUME NEW t, TableConsistent(t), NEW s \in Sessions, NEW n \in Nodes,
           NEW t0 \in Nat
    PROVE  ReserveRoute(t, s, n, t0).routes[s] \in Route
<1>1. t \in Table /\ t.routes \in [Sessions -> Route \cup {NoRoute}] /\ t.seq \in Nat
  BY DEF TableConsistent, Table
<1>2. CASE HasRoute(t, s)
  <2> DEFINE o == t.routes[s]
             k == IF o.res # 0 THEN o.uses + 1 ELSE o.uses
             r == [o EXCEPT !.used = t0, !.uses = k]
             R == [t.routes EXCEPT ![s] = r]
  <2>1. o \in Route
    BY <1>2, RouteFacts
  <2>2. k \in Nat
    BY <2>1 DEF Route
  <2>3. ReserveRoute(t, s, n, t0) = [t EXCEPT !.routes = R]
    BY <1>2 DEF ReserveRoute, ClaimRoute, PutRoute
  <2> HIDE DEF k
  <2>4. r \in Route
    BY <2>1, <2>2, Zenon DEF Route
  <2> HIDE DEF r
  <2>5. R[s] = r
    BY <1>1
  <2> HIDE DEF R
  <2> QED BY <1>1, <2>3, <2>4, <2>5 DEF Table
<1>3. CASE ~HasRoute(t, s)
  BY <1>1, <1>3 DEF ReserveRoute, Route, RecoveryStates
<1> QED BY <1>2, <1>3

-----------------------------------------------------------------------------
(* One lemma per step of pickSessionForDispatch.                           *)

(* A dispatch begins with at least one attempt.                            *)
LEMMA StartDispatchKeeps ==
    ASSUME IInv, NEW d \in Requests, NEW kind \in {"exec", "resource"},
           NEW s \in Sessions, NEW attempts \in 1..Cardinality(Nodes),
           StartDispatch(d, kind, s, attempts)
    PROVE  IInv'
<1> DEFINE u == [Idle EXCEPT !.phase = "pick", !.kind = kind, !.s = s,
                             !.left = attempts]
<1>1. attempts \in Nat /\ attempts >= 1
  <2>1. Cardinality(Nodes) \in Nat
    BY TerminalDispatchAssumption
  <2> QED BY <2>1
<1>2. u \in Req
  BY <1>1, Zenon DEF Idle, Req, ReqPhases
<1>3. RequestShape(u)
  BY <1>1 DEF RequestShape, Idle
<1>4. TableConsistent(tbl')
  BY DEF StartDispatch, IInv
<1>5. Step(d, u) /\ UNCHANGED <<now, cur, conns, provisioned>>
  BY DEF StartDispatch
<1> HIDE DEF u
<1> QED BY <1>2, <1>3, <1>4, <1>5, RequestStepKeeps

(* The prune, the snapshot and the check of a confirmed route.             *)
LEMMA LookUpKeeps ==
    ASSUME IInv, NEW d \in Requests, NEW prune \in BOOLEAN,
           NEW okPrune \in BOOLEAN, NEW ok \in BOOLEAN,
           LookUp(d, prune, okPrune, ok)
    PROVE  IInv'
<1> DEFINE r == reqs[d]
           t1 == IF prune THEN PruneRoutes(tbl, now, okPrune) ELSE tbl
           u == [r EXCEPT !.phase = "looked", !.t = now]
<1>1. r.phase = "pick" /\ tbl' = SnapshotRoute(t1, r.s, now, ok)
  BY DEF LookUp
<1>2. /\ r \in Req /\ RequestShape(r) /\ r.s \in Sessions
      /\ TableConsistent(tbl) /\ now \in Nat
  BY <1>1, RequestFacts
<1>3. TableConsistent(t1)
  BY <1>2, PruneConsistent
<1> HIDE DEF t1
<1>4. TableConsistent(tbl')
  BY <1>1, <1>2, <1>3, SnapshotConsistent
<1>5. UNCHANGED <<now, cur, conns, provisioned>> /\ (Return(d) \/ Step(d, u))
  BY DEF LookUp
<1>6. u \in Req /\ RequestShape(u)
  <2>1. u \in Req
    BY <1>2, Zenon DEF Req, ReqPhases
  <2> QED BY <1>1, <1>2, <2>1 DEF RequestShape, Req
<1> HIDE DEF u, r
<1> QED BY <1>4, <1>5, <1>6, ReturnKeeps, RequestStepKeeps

(* Joining a route, or giving the use back when its worker was tried.      *)
LEMMA ClaimKeeps ==
    ASSUME IInv, NEW d \in Requests, Claim(d)
    PROVE  IInv'
<1> DEFINE r == reqs[d]
           o == tbl.routes[r.s]
           t1 == ClaimRoute(tbl, r.s, r.t)
           u == [r EXCEPT !.phase = "choose", !.round = 0]
           v == [r EXCEPT !.phase = "claimed", !.round = 0,
                          !.node = o.node, !.res = o.res]
<1>1. r.phase = "looked" /\ UNCHANGED <<now, cur, conns, provisioned>>
  BY DEF Claim
<1>2. /\ r \in Req /\ RequestShape(r) /\ r.s \in Sessions /\ r.t \in Nat
      /\ TableConsistent(tbl) /\ now \in Nat
  <2>1. r \in Req
    BY <1>1, RequestFacts
  <2> QED BY <1>1, <2>1, RequestFacts DEF Req
<1>3. CASE ~HasRoute(tbl, r.s)
  <2>1. Step(d, u) /\ tbl' = tbl
    BY <1>3 DEF Claim
  <2>2. u \in Req
    BY <1>2, Zenon DEF Req, ReqPhases
  <2>3. RequestShape(u)
    BY <1>1, <1>2 DEF RequestShape, Req
  <2> HIDE DEF u
  <2> QED BY <1>1, <1>2, <2>1, <2>2, <2>3, RequestStepKeeps
<1>4. CASE HasRoute(tbl, r.s)
  <2>1. o \in Route /\ o.node \in Nodes /\ o.res \in Nat
    BY <1>2, <1>4, RouteFacts DEF Route
  <2>2. TableConsistent(t1)
    BY <1>2, <1>4, ClaimConsistent
  <2>3. TableConsistent(ClearReservation(t1, r.s, o.node, o.res))
    BY <1>2, <2>2, ClearReservationConsistent
  <2>4. v \in Req
    BY <1>2, <2>1, Zenon DEF Req, ReqPhases
  <2>5. RequestShape(v)
    BY <1>1, <1>2, <2>1 DEF RequestShape, Req
  <2>6. \/ tbl' = ClearReservation(t1, r.s, o.node, o.res) /\ Return(d)
        \/ tbl' = t1 /\ Step(d, v)
    BY <1>4 DEF Claim
  <2> HIDE DEF v, t1, o
  <2> QED BY <1>1, <2>2, <2>3, <2>4, <2>5, <2>6, ReturnKeeps, RequestStepKeeps
<1> QED BY <1>3, <1>4

(* The worker of the claimed route: taken, full or gone.                   *)
LEMMA PickClaimedKeeps ==
    ASSUME IInv, NEW d \in Requests,
           PickBound(d) \/ PickFull(d) \/ PickOffline(d)
    PROVE  IInv'
<1> DEFINE r == reqs[d]
           u == [r EXCEPT !.phase = "bound", !.conn = cur[r.node],
                          !.t = 0, !.round = 0]
           v == [r EXCEPT !.phase = "stale"]
<1>1. r.phase = "claimed" /\ UNCHANGED <<now, cur, conns, provisioned>>
  BY DEF PickBound, PickFull, PickOffline
<1>2. /\ r \in Req /\ RequestShape(r) /\ r.s \in Sessions
      /\ TableConsistent(tbl) /\ now \in Nat /\ r.node \in Nodes
  BY <1>1, RequestFacts DEF RequestShape
<1>3. CASE PickBound(d)
  <2>1. Step(d, u) /\ tbl' = tbl /\ Usable(r.node)
    BY <1>3 DEF PickBound
  <2>2. cur[r.node] \in Conns /\ conns[cur[r.node]].phase # "new"
    BY <1>2, <2>1, UsableFacts
  <2>3. u \in Req /\ u.conn = cur[r.node] /\ u.phase = "bound"
        /\ u.node = r.node /\ u.left = r.left
    BY <1>2, <2>2, Zenon DEF Req, ReqPhases
  <2>4. RequestShape(u)
    BY <1>1, <1>2, <2>2, <2>3 DEF RequestShape
  <2> HIDE DEF u
  <2> QED BY <1>1, <1>2, <2>1, <2>3, <2>4, RequestStepKeeps
<1>4. CASE PickFull(d)
  <2>1. tbl' = ClearReservation(tbl, r.s, r.node, r.res) /\ Return(d)
    BY <1>4 DEF PickFull
  <2>2. TableConsistent(tbl')
    BY <1>2, <2>1, ClearReservationConsistent
  <2> QED BY <1>1, <2>1, <2>2, ReturnKeeps
<1>5. CASE PickOffline(d)
  <2>1. tbl' = tbl /\ (Return(d) \/ Step(d, v))
    BY <1>5 DEF PickOffline
  <2>2. v \in Req
    BY <1>2 DEF Req, ReqPhases
  <2>3. RequestShape(v)
    BY <1>1, <1>2 DEF RequestShape, Req
  <2> HIDE DEF v
  <2> QED BY <1>1, <1>2, <2>1, <2>2, <2>3, ReturnKeeps, RequestStepKeeps
<1> QED BY <1>3, <1>4, <1>5

(* A stale route is cleared; after the second reservation the pick fails.  *)
LEMMA ClearStaleKeeps ==
    ASSUME IInv, NEW d \in Requests, NEW ok \in BOOLEAN, ClearStale(d, ok)
    PROVE  IInv'
<1> DEFINE r == reqs[d]
           u == [r EXCEPT !.phase = "choose", !.node = None, !.res = 0]
<1>1. /\ r.phase = "stale" /\ tbl' = ClearRoute(tbl, r.s, r.node, ok)
      /\ UNCHANGED <<now, cur, conns, provisioned>>
  BY DEF ClearStale
<1>2. /\ r \in Req /\ RequestShape(r) /\ r.s \in Sessions
      /\ TableConsistent(tbl)
  BY <1>1, RequestFacts
<1>3. TableConsistent(tbl')
  BY <1>1, <1>2, ClearConsistent
<1>4. CASE r.round = 2
  <2>1. Return(d)
    BY <1>4 DEF ClearStale
  <2> QED BY <1>1, <1>3, <2>1, ReturnKeeps
<1>5. CASE r.round # 2
  <2>1. Step(d, u)
    BY <1>5 DEF ClearStale
  <2>2. /\ u \in Req /\ u.phase = "choose" /\ u.round = r.round
        /\ u.left = r.left /\ r.round \in {0, 1, 2}
    BY <1>2, Zenon DEF Req, ReqPhases
  <2>3. RequestShape(u)
    BY <1>1, <1>2, <1>5, <2>2 DEF RequestShape
  <2> HIDE DEF u
  <2> QED BY <1>1, <1>3, <2>1, <2>2, <2>3, RequestStepKeeps
<1> QED BY <1>4, <1>5

(* A worker is picked for a session without a route.                       *)
LEMMA ChooseKeeps ==
    ASSUME IInv, NEW d \in Requests, NEW n \in Nodes, Choose(d, n)
    PROVE  IInv'
<1> DEFINE r == reqs[d]
           u == [r EXCEPT !.phase = "chosen", !.conn = cur[n],
                          !.round = r.round + 1]
<1>1. /\ r.phase = "choose" /\ tbl' = tbl /\ Usable(n) /\ Step(d, u)
      /\ UNCHANGED <<now, cur, conns, provisioned>>
  BY DEF Choose
<1>2. r \in Req /\ RequestShape(r) /\ TableConsistent(tbl)
  BY <1>1, RequestFacts
<1>3. cur[n] \in Conns /\ conns[cur[n]].phase # "new"
  BY <1>1, UsableFacts
<1>4. r.round + 1 \in {0, 1, 2}
  BY <1>1, <1>2 DEF RequestShape, Req
<1>5. /\ u \in Req /\ u.phase = "chosen" /\ u.conn = cur[n]
      /\ u.left = r.left
  BY <1>2, <1>3, <1>4, ZenonT(30) DEF Req, ReqPhases
<1>6. RequestShape(u)
  BY <1>1, <1>2, <1>3, <1>5 DEF RequestShape
<1> HIDE DEF u
<1> QED BY <1>1, <1>2, <1>5, <1>6, RequestStepKeeps

(* The session is reserved on the chosen worker, or followed elsewhere.    *)
LEMMA ReserveKeeps ==
    ASSUME IInv, NEW d \in Requests, Reserve(d)
    PROVE  IInv'
<1> DEFINE r == reqs[d]
           mine == conns[r.conn].node
           t1 == ReserveRoute(tbl, r.s, mine, r.t)
           node == t1.routes[r.s].node
           res == t1.routes[r.s].res
           u == [r EXCEPT !.phase = "bound", !.node = node,
                          !.res = res, !.t = 0, !.round = 0]
           v == [r EXCEPT !.phase = "claimed", !.node = node,
                          !.res = res, !.conn = None]
<1>1. r.phase = "chosen" /\ UNCHANGED <<now, cur, conns, provisioned>>
  BY DEF Reserve
<1>2. /\ r \in Req /\ RequestShape(r) /\ r.s \in Sessions
      /\ TableConsistent(tbl)
  BY <1>1, RequestFacts
<1>3. mine \in Nodes /\ r.t \in Nat /\ r.conn \in Conns
      /\ conns[r.conn].phase # "new"
  <2>1. r.conn \in Conns /\ conns[r.conn].phase # "new"
    BY <1>1, <1>2 DEF RequestShape
  <2> QED BY <1>2, <2>1 DEF IInv, ConnectionsShaped, Req
<1>4. \/ tbl' = ClearReservation(t1, r.s, node, res) /\ Return(d)
      \/ tbl' = t1 /\ (Step(d, u) \/ Step(d, v))
  BY DEF Reserve
<1> HIDE DEF mine
<1>5. TableConsistent(t1)
  BY <1>2, <1>3, ReserveConsistent
<1>6. node \in Nodes /\ res \in Nat
  <2>1. t1.routes[r.s] \in Route
    BY <1>2, <1>3, ReserveRoutes
  <2> HIDE DEF t1
  <2> QED BY <2>1 DEF Route
<1>7. TableConsistent(ClearReservation(t1, r.s, node, res))
  <2> HIDE DEF t1, node, res
  <2> QED BY <1>2, <1>5, ClearReservationConsistent
<1> HIDE DEF t1, node, res
<1>8. u \in Req /\ u.phase = "bound" /\ u.node = node
      /\ u.conn = r.conn /\ u.left = r.left
  BY <1>2, <1>6, Zenon DEF Req, ReqPhases
<1>9. v \in Req /\ v.phase = "claimed" /\ v.node = node /\ v.left = r.left
  BY <1>2, <1>6, Zenon DEF Req, ReqPhases
<1> HIDE DEF u, v
<1>10. RequestShape(u) /\ RequestShape(v)
  BY <1>1, <1>2, <1>3, <1>6, <1>8, <1>9 DEF RequestShape
<1> QED BY <1>1, <1>4, <1>5, <1>7, <1>8, <1>9, <1>10, ReturnKeeps,
           RequestStepKeeps

(* The worker of a renewal.                                                *)
LEMMA PickTargetKeeps ==
    ASSUME IInv, NEW d \in Requests, PickTarget(d)
    PROVE  IInv'
<1> DEFINE r == reqs[d]
           u == [r EXCEPT !.phase = "bound", !.conn = cur[r.node]]
<1>1. /\ r.phase = "target" /\ tbl' = tbl
      /\ UNCHANGED <<now, cur, conns, provisioned>>
      /\ Return(d) \/ (Usable(r.node) /\ Step(d, u))
  BY DEF PickTarget
<1>2. r \in Req /\ RequestShape(r) /\ TableConsistent(tbl) /\ r.node \in Nodes
  BY <1>1, RequestFacts DEF RequestShape
<1>3. CASE Return(d)
  BY <1>1, <1>2, <1>3, ReturnKeeps
<1>4. CASE Usable(r.node) /\ Step(d, u)
  <2>1. cur[r.node] \in Conns /\ conns[cur[r.node]].phase # "new"
    BY <1>2, <1>4, UsableFacts
  <2>2. u \in Req /\ u.phase = "bound" /\ u.conn = cur[r.node]
        /\ u.node = r.node /\ u.left = r.left
    BY <1>2, <2>1, Zenon DEF Req, ReqPhases
  <2>3. RequestShape(u)
    BY <1>1, <1>2, <2>1, <2>2 DEF RequestShape
  <2> HIDE DEF u
  <2> QED BY <1>1, <1>2, <1>4, <2>2, <2>3, RequestStepKeeps
<1> QED BY <1>1, <1>3, <1>4

-----------------------------------------------------------------------------
(* The steps of dispatchCommandAttempt, of the renewal and of the deletion.*)

(* A sent command uses up one of the attempts that were left.              *)
LEMMA SendKeeps ==
    ASSUME IInv, NEW d \in Requests, Send(d)
    PROVE  IInv'
<1> DEFINE r == reqs[d]
           u == [r EXCEPT !.phase = "sent", !.tried = r.tried \cup {r.node},
                          !.left = r.left - 1]
<1>1. /\ r.phase = "bound" /\ tbl' = tbl /\ Step(d, u)
      /\ UNCHANGED <<now, cur, conns, provisioned>>
  BY DEF Send
<1>2. /\ r \in Req /\ RequestShape(r) /\ TableConsistent(tbl)
      /\ r.node \in Nodes /\ r.left >= 1 /\ r.conn \in Conns
  BY <1>1, RequestFacts DEF RequestShape
<1>3. r.left - 1 \in Nat /\ r.tried \cup {r.node} \in SUBSET Nodes
  BY <1>2 DEF Req
<1>4. u \in Req /\ u.phase = "sent" /\ u.conn = r.conn /\ u.node = r.node
  BY <1>2, <1>3, Zenon DEF Req, ReqPhases
<1>5. RequestShape(u)
  BY <1>1, <1>2, <1>4 DEF RequestShape
<1> HIDE DEF u
<1> QED BY <1>1, <1>2, <1>4, <1>5, RequestStepKeeps

(* The answer is handed over.                                              *)
LEMMA AnswerKeeps ==
    ASSUME IInv, NEW d \in Requests, Answer(d)
    PROVE  IInv'
<1> DEFINE r == reqs[d]
           u == [r EXCEPT !.phase = "answered"]
<1>1. /\ r.phase = "sent" /\ tbl' = tbl /\ Step(d, u)
      /\ UNCHANGED <<now, cur, conns, provisioned>>
  BY DEF Answer
<1>2. r \in Req /\ RequestShape(r) /\ TableConsistent(tbl)
  BY <1>1, RequestFacts
<1>3. u \in Req /\ u.phase = "answered" /\ u.conn = r.conn /\ u.node = r.node
  BY <1>2 DEF Req, ReqPhases
<1>4. RequestShape(u)
  BY <1>1, <1>2, <1>3 DEF RequestShape
<1> HIDE DEF u
<1> QED BY <1>1, <1>2, <1>3, <1>4, RequestStepKeeps

(* The steps that end an attempt and the request with it.                  *)
LEMMA EndOfAttemptKeeps ==
    ASSUME IInv, NEW d \in Requests, NEW lease \in Nat, NEW ok \in BOOLEAN,
           NEW okAfter \in BOOLEAN,
           \/ SendFails(d) \/ NoProof(d) \/ NotFound(d, ok)
           \/ Success(d, lease, ok, okAfter)
    PROVE  IInv'
<1> DEFINE r == reqs[d]
<1>1. /\ r.phase \in {"bound", "sent", "answered"} /\ Return(d)
      /\ UNCHANGED <<now, cur, conns, provisioned>>
  BY DEF SendFails, NoProof, Success, NotFound
<1>2. /\ r \in Req /\ RequestShape(r) /\ TableConsistent(tbl) /\ now \in Nat
      /\ r.s \in Sessions /\ r.node \in Nodes /\ r.res \in Nat
  <2>1. r \in Req /\ RequestShape(r)
    BY <1>1, RequestFacts
  <2> QED BY <1>1, <2>1, RequestFacts DEF RequestShape, Req
<1>4. TableConsistent(ClearReservation(tbl, r.s, r.node, r.res))
  BY <1>2, ClearReservationConsistent
<1>5. TableConsistent(ConfirmRoute(tbl, r.s, r.node, r.res, now))
  BY <1>2, ConfirmConsistent
<1>6. TableConsistent(ClearRoute(tbl, r.s, r.node, ok))
  BY <1>2, ClearConsistent
<1>7. lease > 0 /\ OwnsRoute(tbl, r.s, r.node, r.res) =>
         TableConsistent(CommitRoute(tbl, r.s, r.node, r.res, lease, now))
  BY <1>2, CommitConsistent, Zenon
<1>8. CASE SendFails(d)
  BY <1>1, <1>4, <1>8, ReturnKeeps DEF SendFails
<1>9. CASE NoProof(d)
  BY <1>1, <1>2, <1>5, <1>9, ReturnKeeps DEF NoProof
<1>10. CASE Success(d, lease, ok, okAfter)
  <2> DEFINE t1 == CommitRoute(tbl, r.s, r.node, r.res, lease, now)
  <2>1. /\ \/ tbl' = ConfirmRoute(tbl, r.s, r.node, r.res, now) \/ tbl' = tbl
           \/ /\ lease > 0 /\ OwnsRoute(tbl, r.s, r.node, r.res)
              /\ tbl' = t1 \/ tbl' = SnapshotRoute(t1, r.s, now, okAfter)
    BY <1>10 DEF Success
  <2> HIDE DEF t1
  <2>2. TableConsistent(t1) => TableConsistent(SnapshotRoute(t1, r.s, now, okAfter))
    BY <1>2, SnapshotConsistent
  <2>3. TableConsistent(tbl')
    BY <1>2, <1>5, <1>7, <2>1, <2>2 DEF t1
  <2> QED BY <1>1, <2>3, ReturnKeeps
<1>11. CASE NotFound(d, ok)
  BY <1>1, <1>4, <1>6, <1>11, ReturnKeeps DEF NotFound
<1> QED BY <1>8, <1>9, <1>10, <1>11

(* A worker without capacity: another attempt, if any is left.             *)
LEMMA CapacityExceededKeeps ==
    ASSUME IInv, NEW d \in Requests, CapacityExceeded(d)
    PROVE  IInv'
<1> DEFINE r == reqs[d]
           u == [Idle EXCEPT !.phase = "pick", !.kind = r.kind, !.s = r.s,
                             !.tried = r.tried, !.left = r.left]
<1>1. /\ r.phase = "answered"
      /\ tbl' = ClearReservation(tbl, r.s, r.node, r.res)
      /\ UNCHANGED <<now, cur, conns, provisioned>>
      /\ Return(d) \/ (r.left > 0 /\ Step(d, u))
  BY DEF CapacityExceeded
<1>2. r \in Req /\ TableConsistent(tbl) /\ r.s \in Sessions
  BY <1>1, RequestFacts
<1>3. TableConsistent(tbl')
  BY <1>1, <1>2, ClearReservationConsistent
<1>4. CASE Return(d)
  BY <1>1, <1>3, <1>4, ReturnKeeps
<1>5. CASE r.left > 0 /\ Step(d, u)
  <2>1. u \in Req /\ u.phase = "pick" /\ u.left = r.left /\ r.left \in Nat
    BY <1>2, ZenonT(30) DEF Req, ReqPhases, Idle
  <2>2. RequestShape(u)
    BY <1>5, <2>1 DEF RequestShape
  <2> HIDE DEF u
  <2> QED BY <1>1, <1>3, <1>5, <2>1, <2>2, RequestStepKeeps
<1> QED BY <1>1, <1>4, <1>5

(* A renewal or a deletion begins by looking the route up.                 *)
LEMMA StartLookUpKeeps ==
    ASSUME IInv, NEW d \in Requests, NEW s \in Sessions, NEW ok \in BOOLEAN,
           StartRenew(d, s, ok) \/ StartDelete(d, s, ok)
    PROVE  IInv'
<1> DEFINE n == tbl.routes[s].node
           u == [Idle EXCEPT !.phase = "target", !.kind = "renew", !.s = s,
                             !.node = n, !.left = 1]
           v == [Idle EXCEPT !.phase = "delete", !.kind = "delete", !.s = s,
                             !.node = n]
<1>1. /\ tbl' = SnapshotRoute(tbl, s, now, ok) /\ reqs[d] = Idle
      /\ UNCHANGED <<now, cur, conns, provisioned>>
      /\ \/ UNCHANGED reqs
         \/ HasRoute(tbl, s) /\ (Step(d, u) \/ Step(d, v))
  BY DEF StartRenew, StartDelete, SnapshotFinds
<1>2. TableConsistent(tbl) /\ reqs \in [Requests -> Req \cup {Idle}]
  BY DEF IInv, TypeOK
<1>3. TableConsistent(tbl')
  BY <1>1, <1>2, SnapshotConsistent
<1>4. CASE UNCHANGED reqs
  <2>1. Return(d)
    BY <1>1, <1>2, <1>4 DEF Return, Step
  <2> QED BY <1>1, <1>3, <2>1, ReturnKeeps
<1>5. CASE HasRoute(tbl, s) /\ (Step(d, u) \/ Step(d, v))
  <2>1. n \in Nodes
    BY <1>2, <1>5, RouteFacts DEF Route
  <2> HIDE DEF n
  <2>2. u \in Req /\ u.phase = "target" /\ u.node = n /\ u.left = 1
    BY <2>1, Zenon DEF Req, ReqPhases, Idle
  <2>3. v \in Req /\ v.phase = "delete" /\ v.node = n
    BY <2>1, TerminalDispatchAssumption, Zenon DEF Req, ReqPhases, Idle
  <2> HIDE DEF u, v
  <2>4. RequestShape(u) /\ RequestShape(v)
    BY <2>1, <2>2, <2>3 DEF RequestShape
  <2> QED BY <1>1, <1>3, <1>5, <2>2, <2>3, <2>4, RequestStepKeeps
<1> QED BY <1>1, <1>4, <1>5

(* ... and the deletion ends by clearing it.                               *)
LEMMA FinishDeleteKeeps ==
    ASSUME IInv, NEW d \in Requests, NEW ok \in BOOLEAN, FinishDelete(d, ok)
    PROVE  IInv'
<1>1. /\ reqs[d].phase = "delete" /\ Return(d)
      /\ tbl' = ClearRoute(tbl, reqs[d].s, reqs[d].node, ok)
      /\ UNCHANGED <<now, cur, conns, provisioned>>
  BY DEF FinishDelete
<1>2. TableConsistent(tbl')
  BY <1>1, RequestFacts, ClearConsistent
<1> QED BY <1>1, <1>2, ReturnKeeps

-----------------------------------------------------------------------------
(* Connections.                                                            *)

(* Connections that move on from "new" and keep naming a worker.           *)
LEMMA ConnectionsKeep ==
    ASSUME IInv, TableConsistent(tbl'), UNCHANGED <<now, reqs>>,
           cur' \in [Nodes -> Conns \cup {None}],
           conns' \in [Conns -> Conn],
           provisioned' \in [Nodes -> {"yes", "deleting", "no"}],
           \A c \in Conns : conns[c].phase # "new" => conns'[c].phase # "new",
           \A c \in Conns : conns'[c].phase # "new" => conns'[c].node \in Nodes,
           \A n \in Nodes : cur'[n] # None => conns'[cur'[n]].phase # "new"
    PROVE  IInv'
<1>1. TypeOK'
  BY DEF IInv, TypeOK, TableConsistent
<1>2. ConnectionsShaped'
  BY DEF ConnectionsShaped
<1>3. ASSUME NEW d \in Requests
      PROVE  RequestShape(reqs[d])'
  <2>1. RequestShape(reqs[d]) /\ reqs'[d] = reqs[d]
    BY DEF IInv
  <2> QED BY <2>1 DEF RequestShape
<1> QED BY <1>1, <1>2, <1>3 DEF IInv

(* One connection moves on; it may leave the map.                          *)
LEMMA ConnectionKeeps ==
    ASSUME IInv, TableConsistent(tbl'), UNCHANGED <<now, reqs, provisioned>>,
           NEW c \in Conns, NEW k \in Conn, SetConn(c, k),
           k.phase # "new", k.node \in Nodes,
           \/ cur' = cur
           \/ \E n \in Nodes : cur' = [cur EXCEPT ![n] = None]
    PROVE  IInv'
<1>1. /\ cur \in [Nodes -> Conns \cup {None}] /\ conns \in [Conns -> Conn]
      /\ provisioned \in [Nodes -> {"yes", "deleting", "no"}]
      /\ ConnectionsShaped /\ conns' = [conns EXCEPT ![c] = k]
  BY DEF IInv, TypeOK, SetConn
<1>2. conns' \in [Conns -> Conn] /\ cur' \in [Nodes -> Conns \cup {None}]
  BY <1>1
<1>3. /\ \A e \in Conns : conns[e].phase # "new" => conns'[e].phase # "new"
      /\ \A e \in Conns : conns'[e].phase # "new" => conns'[e].node \in Nodes
  BY <1>1 DEF ConnectionsShaped
<1>4. \A n \in Nodes : cur'[n] # None => cur'[n] = cur[n] /\ cur[n] \in Conns
  BY <1>1
<1>5. \A n \in Nodes : cur'[n] # None => conns'[cur'[n]].phase # "new"
  BY <1>1, <1>3, <1>4 DEF ConnectionsShaped
<1> QED BY <1>1, <1>2, <1>3, <1>5, ConnectionsKeep

(* A connection becomes the current one and the one it replaces is closed. *)
LEMMA ReplacementKeeps ==
    ASSUME IInv, UNCHANGED <<tbl, now, reqs, provisioned>>,
           NEW c \in Conns, conns[c].phase # "new",
           NEW p \in ConnPhases \ {"new"},
           cur' = [cur EXCEPT ![conns[c].node] = c],
           conns' = [k \in Conns |->
               IF k = c THEN [conns[c] EXCEPT !.phase = p]
               ELSE IF k = cur[conns[c].node] THEN [conns[k] EXCEPT !.closed = TRUE]
               ELSE conns[k]]
    PROVE  IInv'
<1>1. /\ cur \in [Nodes -> Conns \cup {None}] /\ conns \in [Conns -> Conn]
      /\ provisioned \in [Nodes -> {"yes", "deleting", "no"}]
      /\ ConnectionsShaped /\ TableConsistent(tbl)
  BY DEF IInv, TypeOK
<1>2. conns[c].node \in Nodes
  BY <1>1 DEF ConnectionsShaped
<1>3. \A k \in Conns :
         /\ conns'[k] \in Conn /\ conns'[k].node = conns[k].node
         /\ conns'[k].phase = IF k = c THEN p ELSE conns[k].phase
  <2>1. TAKE k \in Conns
  <2>2. conns[k] \in Conn
    BY <1>1
  <2>3. conns'[k] \in {[conns[k] EXCEPT !.phase = p],
                       [conns[k] EXCEPT !.closed = TRUE], conns[k]}
    BY <2>1
  <2> QED BY <2>1, <2>2, <2>3, Zenon DEF Conn
<1>4. conns' \in [Conns -> Conn]
  BY <1>3
<1>5. /\ cur' \in [Nodes -> Conns \cup {None}]
      /\ \A n \in Nodes : cur'[n] = c \/ cur'[n] = cur[n]
  BY <1>1, <1>2
<1>6. /\ \A k \in Conns : conns[k].phase # "new" => conns'[k].phase # "new"
      /\ \A k \in Conns : conns'[k].phase # "new" => conns'[k].node \in Nodes
  BY <1>1, <1>2, <1>3 DEF ConnectionsShaped
<1>7. \A n \in Nodes : cur'[n] # None => conns'[cur'[n]].phase # "new"
  BY <1>1, <1>5, <1>6 DEF ConnectionsShaped
<1> QED BY <1>1, <1>4, <1>5, <1>6, <1>7, ConnectionsKeep

(* What a connection past its hello frame knows.                           *)
LEMMA ConnectionFacts ==
    ASSUME IInv, NEW c \in Conns, conns[c].phase # "new"
    PROVE  conns[c] \in Conn /\ conns[c].node \in Nodes /\ now \in Nat
           /\ TableConsistent(tbl)
BY DEF IInv, TypeOK, ConnectionsShaped

(* A connection that is over.                                              *)
LEMMA GoneFacts ==
    ASSUME NEW n \in Nodes
    PROVE  Gone(n) \in Conn /\ Gone(n).phase = "gone" /\ Gone(n).node = n
BY Zenon DEF Gone, NewConn, Conn, ConnPhases

(* The candidates of a recovery carry leases.                              *)
LEMMA CandidatesTyped ==
    ASSUME NEW t, TableConsistent(t), NEW n \in Nodes, NEW t0 \in Nat
    PROVE  CandidateLeases(t, n, t0) \in [Sessions -> Nat]
<1> SUFFICES ASSUME NEW s \in Sessions, s \in RecoveryCandidates(t, n, t0)
             PROVE  EffectiveLease(t.routes[s]) \in Nat
  BY DEF CandidateLeases
<1>1. RoutedTo(t, s, n)
  BY RoutesOfFacts DEF RecoveryCandidates
<1>2. t.routes[s] \in Route
  BY <1>1, RouteFacts DEF RoutedTo
<1>3. t.routes[s].lease \in Nat /\ t.routes[s].used \in Nat
  BY <1>2 DEF Route
<1> QED BY <1>3, RouteTableAssumption DEF EffectiveLease

(* Hello, the claim or swap of the map entry, and the begin of recovery.   *)
LEMMA ConnectKeeps ==
    ASSUME IInv, NEW c \in Conns, NEW n \in Nodes,
           Hello(c, n) \/ ClaimConnection(c) \/ BeginConnection(c)
                       \/ SwapConnection(c)
    PROVE  IInv'
<1> DEFINE k == conns[c]
<1>1. CASE Hello(c, n)
  <2> DEFINE u == [NewConn EXCEPT !.node = n, !.phase = "hello", !.t = now]
  <2>1. u \in Conn /\ u.phase = "hello" /\ u.node = n
    BY Zenon DEF NewConn, Conn, ConnPhases, IInv, TypeOK
  <2>2. SetConn(c, u) /\ UNCHANGED <<tbl, now, cur, reqs, provisioned>>
    BY <1>1 DEF Hello
  <2>3. TableConsistent(tbl')
    BY <2>2 DEF IInv
  <2> HIDE DEF u
  <2> QED BY <2>1, <2>2, <2>3, ConnectionKeeps
<1>2. CASE ClaimConnection(c)
  <2>1. k.phase = "hello" /\ UNCHANGED <<tbl, now, reqs, provisioned>>
    BY <1>2 DEF ClaimConnection
  <2>2. k.node \in Nodes /\ TableConsistent(tbl')
    BY <2>1, ConnectionFacts
  <2>3. CASE SetConn(c, Gone(k.node)) /\ cur' = cur
    BY <2>1, <2>2, <2>3, GoneFacts, ConnectionKeeps
  <2>4. CASE ~(SetConn(c, Gone(k.node)) /\ cur' = cur)
    <3>1. /\ cur' = [cur EXCEPT ![k.node] = c]
          /\ conns' = [e \in Conns |->
                IF e = c THEN [conns[c] EXCEPT !.phase = "claimed"]
                ELSE IF e = cur[k.node] THEN [conns[e] EXCEPT !.closed = TRUE]
                ELSE conns[e]]
      BY <1>2, <2>4 DEF ClaimConnection
    <3>2. "claimed" \in ConnPhases \ {"new"}
      BY DEF ConnPhases
    <3> QED BY <2>1, <3>1, <3>2, ReplacementKeeps, Zenon
  <2> QED BY <2>3, <2>4
<1>3. CASE BeginConnection(c)
  <2> DEFINE u == [k EXCEPT !.cands = CandidateLeases(tbl, k.node, k.t),
                            !.t = 0,
                            !.phase = IF Policy = "reject" THEN "loop"
                                      ELSE "begun"]
  <2>1. /\ k.phase \in {"claimed", "hello"} /\ SetConn(c, u)
        /\ tbl' = BeginRecovery(tbl, k.node, k.t)
        /\ UNCHANGED <<now, cur, reqs, provisioned>>
    BY <1>3 DEF BeginConnection, BeginPhase
  <2>2. k \in Conn /\ k.node \in Nodes /\ k.t \in Nat /\ TableConsistent(tbl)
    BY <2>1, ConnectionFacts DEF Conn
  <2>3. TableConsistent(tbl')
    BY <2>1, <2>2, BeginRecoveryConsistent
  <2>4. CandidateLeases(tbl, k.node, k.t) \in [Sessions -> Nat]
    BY <2>2, CandidatesTyped
  <2>5. u \in Conn /\ u.phase # "new" /\ u.node = k.node
    BY <2>2, <2>4, Zenon DEF Conn, ConnPhases
  <2> HIDE DEF u
  <2> QED BY <2>1, <2>2, <2>3, <2>5, ConnectionKeeps
<1>4. CASE SwapConnection(c)
  <2>1. /\ k.phase = "begun" /\ UNCHANGED <<tbl, now, reqs, provisioned>>
        /\ cur' = [cur EXCEPT ![k.node] = c]
        /\ conns' = [e \in Conns |->
              IF e = c THEN [conns[c] EXCEPT !.phase = "loop"]
              ELSE IF e = cur[k.node] THEN [conns[e] EXCEPT !.closed = TRUE]
              ELSE conns[e]]
    BY <1>4 DEF SwapConnection
  <2>2. "loop" \in ConnPhases \ {"new"}
    BY DEF ConnPhases
  <2> QED BY <2>1, <2>2, ReplacementKeeps, Zenon
<1> QED BY <1>1, <1>2, <1>3, <1>4

(* The recovery report, and the two halves of removeSession.               *)
LEMMA ConnectedKeeps ==
    ASSUME IInv, NEW c \in Conns, NEW recovered \in SUBSET Sessions,
           Report(c, recovered) \/ LeaveConnection(c) \/ MarkRoutes(c)
    PROVE  IInv'
<1> DEFINE k == conns[c]
<1>1. /\ k.phase \in {"loop", "claimed", "hello", "removed"}
      /\ UNCHANGED <<now, reqs, provisioned>>
  BY DEF Report, LeaveConnection, MarkRoutes, BeginPhase
<1>2. k \in Conn /\ k.node \in Nodes /\ now \in Nat /\ TableConsistent(tbl)
  BY <1>1, ConnectionFacts
<1>3. CASE Report(c, recovered)
  <2> DEFINE u == [k EXCEPT !.ready = ~k.closed, !.cands = NewConn.cands]
  <2>1. /\ tbl' = ApplyRecovery(tbl, k.node, k.cands, recovered, now)
        /\ cur' = cur /\ SetConn(c, u)
    BY <1>3 DEF Report
  <2>2. TableConsistent(tbl')
    BY <1>2, <2>1, ApplyRecoveryConsistent
  <2>3. u \in Conn /\ u.phase = k.phase /\ u.node = k.node
    BY <1>2, Zenon DEF Conn, NewConn
  <2> HIDE DEF u
  <2> QED BY <1>1, <1>2, <2>1, <2>2, <2>3, ConnectionKeeps
<1>4. CASE LeaveConnection(c)
  <2> DEFINE u == [k EXCEPT !.phase = "removed", !.t = 0]
  <2>1. /\ tbl' = tbl
        /\ \/ cur' = [cur EXCEPT ![k.node] = None] /\ SetConn(c, u)
           \/ cur' = cur /\ SetConn(c, Gone(k.node))
    BY <1>4 DEF LeaveConnection
  <2>2. u \in Conn /\ u.phase = "removed" /\ u.node = k.node
    BY <1>2, Zenon DEF Conn, ConnPhases
  <2> HIDE DEF u
  <2> QED BY <1>1, <1>2, <2>1, <2>2, GoneFacts, ConnectionKeeps
<1>5. CASE MarkRoutes(c)
  <2>1. /\ tbl' = MarkUnavailable(tbl, k.node) /\ cur' = cur
        /\ SetConn(c, Gone(k.node))
    BY <1>5 DEF MarkRoutes
  <2>2. TableConsistent(tbl')
    BY <1>2, <2>1, MarkUnavailableConsistent
  <2> QED BY <1>1, <1>2, <2>1, <2>2, GoneFacts, ConnectionKeeps
<1> QED BY <1>3, <1>4, <1>5

-----------------------------------------------------------------------------
(* The console's own steps.                                                *)

(* Only the table and the clock move.                                      *)
LEMMA TableStepKeeps ==
    ASSUME IInv, TableConsistent(tbl'), now' \in Nat,
           UNCHANGED <<cur, conns, reqs, provisioned>>
    PROVE  IInv'
<1>1. TypeOK'
  BY DEF IInv, TypeOK, TableConsistent
<1>2. ASSUME NEW d \in Requests PROVE RequestShape(reqs[d])'
  BY DEF IInv, RequestShape
<1>3. ConnectionsShaped'
  BY DEF IInv, ConnectionsShaped
<1> QED BY <1>1, <1>2, <1>3 DEF IInv

(* The listing, the pruner and the clock.                                  *)
LEMMA HousekeepingKeeps ==
    ASSUME IInv, NEW prune \in BOOLEAN, NEW okPrune \in BOOLEAN,
           NEW ok \in BOOLEAN,
           ListSessions(prune, okPrune, ok) \/ Prune(ok) \/ Tick
    PROVE  IInv'
<1>1. TableConsistent(tbl) /\ now \in Nat
  BY DEF IInv, TypeOK
<1>2. TableConsistent(PruneRoutes(tbl, now, ok))
      /\ TableConsistent(PruneRoutes(tbl, now, okPrune))
  BY <1>1, PruneConsistent
<1>3. CASE ListSessions(prune, okPrune, ok)
  <2> DEFINE t1 == IF prune THEN PruneRoutes(tbl, now, okPrune) ELSE tbl
  <2>1. TableConsistent(t1)
    BY <1>1, <1>2
  <2>2. tbl' = ListRoutes(t1, now, ok)
        /\ UNCHANGED <<now, cur, conns, reqs, provisioned>>
    BY <1>3 DEF ListSessions
  <2> HIDE DEF t1
  <2> QED BY <1>1, <2>1, <2>2, ListConsistent, TableStepKeeps
<1>4. CASE Prune(ok)
  BY <1>1, <1>2, <1>4, TableStepKeeps DEF Prune
<1>5. CASE Tick
  <2>1. now' \in Nat /\ TableConsistent(tbl')
        /\ UNCHANGED <<cur, conns, reqs, provisioned>>
    BY <1>1, <1>5 DEF Tick
  <2> QED BY <2>1, TableStepKeeps
<1> QED BY <1>3, <1>4, <1>5

(* The removal of a provisioned worker.                                    *)
LEMMA RemovalKeeps ==
    ASSUME IInv, NEW n \in Nodes, DeleteWorkerRoutes(n) \/ RevokeWorker(n)
    PROVE  IInv'
<1>1. /\ cur \in [Nodes -> Conns \cup {None}] /\ conns \in [Conns -> Conn]
      /\ provisioned \in [Nodes -> {"yes", "deleting", "no"}]
      /\ ConnectionsShaped /\ TableConsistent(tbl)
  BY DEF IInv, TypeOK
<1>2. CASE DeleteWorkerRoutes(n)
  <2>1. /\ tbl' = DeleteRoutesByNode(tbl, n)
        /\ provisioned' = [provisioned EXCEPT ![n] = "deleting"]
        /\ UNCHANGED <<now, cur, conns, reqs>>
    BY <1>2 DEF DeleteWorkerRoutes
  <2>2. TableConsistent(tbl')
    BY <1>1, <2>1, DeleteRoutesByNodeConsistent
  <2>3. provisioned' \in [Nodes -> {"yes", "deleting", "no"}]
    BY <1>1, <2>1
  <2> QED BY <1>1, <2>1, <2>2, <2>3, ConnectionsKeep DEF ConnectionsShaped
<1>3. CASE RevokeWorker(n)
  <2>1. /\ provisioned' = [provisioned EXCEPT ![n] = "no"]
        /\ cur' = [cur EXCEPT ![n] = None]
        /\ conns' = [k \in Conns |-> IF k = cur[n]
              THEN [conns[k] EXCEPT !.closed = TRUE] ELSE conns[k]]
        /\ UNCHANGED <<tbl, now, reqs>>
    BY <1>3 DEF RevokeWorker
  <2>2. \A k \in Conns : /\ conns'[k] \in Conn
                         /\ conns'[k].node = conns[k].node
                         /\ conns'[k].phase = conns[k].phase
    <3>1. TAKE k \in Conns
    <3>2. conns[k] \in Conn
      BY <1>1
    <3>3. conns'[k] \in {[conns[k] EXCEPT !.closed = TRUE], conns[k]}
      BY <2>1
    <3> QED BY <3>2, <3>3, Zenon DEF Conn
  <2>3. conns' \in [Conns -> Conn]
    BY <2>1, <2>2
  <2>4. /\ provisioned' \in [Nodes -> {"yes", "deleting", "no"}]
        /\ cur' \in [Nodes -> Conns \cup {None}]
        /\ \A m \in Nodes : cur'[m] # None => cur'[m] = cur[m] /\ cur[m] \in Conns
    BY <1>1, <2>1
  <2>5. /\ \A c \in Conns : conns[c].phase # "new" => conns'[c].phase # "new"
        /\ \A c \in Conns : conns'[c].phase # "new" => conns'[c].node \in Nodes
        /\ \A m \in Nodes : cur'[m] # None => conns'[cur'[m]].phase # "new"
    BY <1>1, <2>2, <2>4 DEF ConnectionsShaped
  <2> QED BY <1>1, <2>1, <2>3, <2>4, <2>5, ConnectionsKeep
<1> QED BY <1>2, <1>3

(* A restart: the rows are all that is left.                               *)
LEMMA RestartKeeps ==
    ASSUME IInv, Restart
    PROVE  IInv'
<1>1. /\ conns \in [Conns -> Conn] /\ ConnectionsShaped /\ now \in Nat
      /\ TableConsistent(tbl)
      /\ provisioned \in [Nodes -> {"yes", "deleting", "no"}]
  BY DEF IInv, TypeOK
<1>2. TableConsistent(tbl')
  BY <1>1, RestoreConsistent DEF Restart
<1>3. \A c \in Conns : /\ conns'[c] \in Conn
                       /\ conns'[c].phase # "new" => conns'[c].node \in Nodes
  <2>1. TAKE c \in Conns
  <2>2. conns'[c] = IF conns[c].phase = "new" THEN NewConn ELSE Gone(conns[c].node)
    BY DEF Restart
  <2>3. NewConn \in Conn /\ NewConn.phase = "new"
    BY DEF NewConn, Conn, ConnPhases
  <2>4. conns[c].phase # "new" => conns[c].node \in Nodes
    BY <1>1 DEF ConnectionsShaped
  <2> QED BY <2>2, <2>3, <2>4, GoneFacts
<1>4. /\ conns' \in [Conns -> Conn]
      /\ cur' \in [Nodes -> Conns \cup {None}] /\ \A n \in Nodes : cur'[n] = None
      /\ reqs' \in [Requests -> Req \cup {Idle}]
      /\ \A d \in Requests : reqs'[d] = Idle
      /\ provisioned' \in [Nodes -> {"yes", "deleting", "no"}]
      /\ now' = now
  BY <1>1, <1>3 DEF Restart
<1>5. TypeOK'
  BY <1>1, <1>2, <1>4 DEF TypeOK, TableConsistent
<1>6. ASSUME NEW d \in Requests
      PROVE  RequestShape(reqs[d])'
  <2>1. reqs'[d].phase = "idle"
    BY <1>4 DEF Idle
  <2> QED BY <2>1 DEF RequestShape
<1>7. ConnectionsShaped'
  BY <1>3, <1>4 DEF ConnectionsShaped
<1> QED BY <1>2, <1>5, <1>6, <1>7 DEF IInv

-----------------------------------------------------------------------------
(* The invariant holds when the console starts on an empty database.       *)
LEMMA InitIInv == Init => IInv
<1> SUFFICES ASSUME Init PROVE IInv
  OBVIOUS
<1>1. TableConsistent(tbl)
  BY EmptyTableConsistent DEF Init
<1>2. NewConn \in Conn /\ NewConn.phase = "new"
  BY DEF NewConn, Conn, ConnPhases
<1>3. /\ conns \in [Conns -> Conn] /\ \A c \in Conns : conns[c].phase = "new"
      /\ cur \in [Nodes -> Conns \cup {None}] /\ \A n \in Nodes : cur[n] = None
      /\ reqs \in [Requests -> Req \cup {Idle}]
      /\ \A d \in Requests : reqs[d] = Idle
      /\ provisioned \in [Nodes -> {"yes", "deleting", "no"}] /\ now \in Nat
  BY <1>2 DEF Init
<1>4. TypeOK
  BY <1>1, <1>3 DEF TypeOK, TableConsistent
<1>5. ASSUME NEW d \in Requests
      PROVE  RequestShape(reqs[d])
  <2>1. reqs[d].phase = "idle"
    BY <1>3 DEF Idle
  <2> QED BY <2>1 DEF RequestShape
<1>6. ConnectionsShaped
  BY <1>3 DEF ConnectionsShaped
<1> QED BY <1>1, <1>4, <1>5, <1>6 DEF IInv

(* Every step of every goroutine preserves it.                             *)
LEMMA NextIInv == IInv /\ [Next]_vars => IInv'
<1> SUFFICES ASSUME IInv, [Next]_vars PROVE IInv'
  OBVIOUS
<1>1. TableConsistent(tbl) /\ StoreOK \subseteq BOOLEAN
  BY Zenon DEF IInv, StoreOK
<1>2. CASE UNCHANGED vars
  BY <1>1, <1>2, TableStepKeeps DEF vars, IInv, TypeOK
<1>3. ASSUME NEW d \in Requests, PickStep(d) PROVE IInv'
  <2>1. CASE PickCancelled(d) \/ ChooseNone(d)
    BY <1>1, <2>1, ReturnKeeps DEF PickCancelled, ChooseNone
  <2>2. CASE \E prune \in BOOLEAN, okPrune, ok \in StoreOK :
                LookUp(d, prune, okPrune, ok)
    BY <1>1, <2>2, LookUpKeeps
  <2>3. CASE \E ok \in StoreOK : ClearStale(d, ok)
    BY <1>1, <2>3, ClearStaleKeeps
  <2> QED BY <1>3, <2>1, <2>2, <2>3, ClaimKeeps, PickClaimedKeeps, ChooseKeeps,
             ReserveKeeps, PickTargetKeeps DEF PickStep
<1>4. ASSUME NEW d \in Requests, AttemptStep(d) PROVE IInv'
  <2>1. CASE SendFails(d) \/ NoProof(d)
    <3>1. 0 \in Nat /\ TRUE \in BOOLEAN
      OBVIOUS
    <3> QED BY <2>1, <3>1, EndOfAttemptKeeps, Zenon
  <2>2. CASE \E lease \in Leases, ok, okAfter \in StoreOK :
                Success(d, lease, ok, okAfter)
    <3>1. PICK lease \in Leases, ok \in StoreOK, okAfter \in StoreOK :
             Success(d, lease, ok, okAfter)
      BY <2>2
    <3>2. lease \in Nat /\ ok \in BOOLEAN /\ okAfter \in BOOLEAN
      BY <1>1, TerminalDispatchAssumption
    <3> QED BY <3>1, <3>2, EndOfAttemptKeeps
  <2>3. CASE \E ok \in StoreOK : NotFound(d, ok)
    <3>1. PICK ok \in StoreOK : NotFound(d, ok)
      BY <2>3
    <3>2. 0 \in Nat /\ ok \in BOOLEAN
      BY <1>1
    <3> QED BY <3>1, <3>2, EndOfAttemptKeeps
  <2> QED BY <1>4, <2>1, <2>2, <2>3, SendKeeps, AnswerKeeps,
             CapacityExceededKeeps DEF AttemptStep
<1>5. ASSUME NEW d \in Requests, RequestStep(d) PROVE IInv'
  BY <1>1, <1>3, <1>4, <1>5, FinishDeleteKeeps DEF RequestStep
<1>6. ASSUME NEW d \in Requests, StartRequest(d) PROVE IInv'
  BY <1>1, <1>6, StartDispatchKeeps, StartLookUpKeeps DEF StartRequest
<1>7. ASSUME NEW c \in Conns, ConnectionStep(c) PROVE IInv'
  <2>1. CASE \E n \in Nodes : Hello(c, n)
    BY <2>1, ConnectKeeps
  <2>2. CASE ClaimConnection(c) \/ BeginConnection(c) \/ SwapConnection(c)
    <3>1. conns[c].phase # "new"
      BY <2>2 DEF ClaimConnection, BeginConnection, SwapConnection, BeginPhase
    <3>2. conns[c].node \in Nodes
      BY <3>1, ConnectionFacts
    <3> QED BY <2>2, <3>2, ConnectKeeps
  <2>3. CASE \E recovered \in SUBSET Sessions : Report(c, recovered)
    BY <2>3, ConnectedKeeps
  <2>4. CASE LeaveConnection(c) \/ MarkRoutes(c)
    <3>1. {} \in SUBSET Sessions
      OBVIOUS
    <3> QED BY <2>4, <3>1, ConnectedKeeps
  <2> QED BY <1>7, <2>1, <2>2, <2>3, <2>4 DEF ConnectionStep
<1>8. ASSUME ConsoleStep PROVE IInv'
  <2>1. CASE \E prune \in BOOLEAN, okPrune, ok \in StoreOK :
                ListSessions(prune, okPrune, ok)
    BY <1>1, <2>1, HousekeepingKeeps
  <2>2. CASE (\E ok \in StoreOK : Prune(ok)) \/ Tick
    <3>1. TRUE \in BOOLEAN
      OBVIOUS
    <3> QED BY <1>1, <2>2, <3>1, HousekeepingKeeps, Zenon
  <2> QED BY <1>8, <2>1, <2>2, RemovalKeeps, RestartKeeps DEF ConsoleStep
<1> QED BY <1>2, <1>5, <1>6, <1>7, <1>8 DEF Next

(* The inductive invariant holds throughout.                               *)
LEMMA AlwaysIInv == Spec => []IInv
BY InitIInv, NextIInv, PTL DEF Spec

(* The state is well typed in every interleaving: a retried dispatch never *)
(* runs out of attempts it still uses (service_dispatch.go:145-220), and   *)
(* no route, row or connection is left half filled in.                     *)
THEOREM TypeCorrect == Spec => []TypeOK
<1>1. IInv => TypeOK
  BY DEF IInv
<1> QED BY <1>1, AlwaysIInv, PTL

(* The reverse index is exact, for any number of workers and sessions: the *)
(* recovery, the disconnection and the removal of a worker reach all its   *)
(* routes and no other's (terminal_session_routes.go:419-504, 668-696).    *)
THEOREM IndexCorrect == Spec => []RoutesIndexed
<1>1. IInv => RoutesIndexed
  BY DEF IInv, TableConsistent, RoutesIndexed
<1> QED BY <1>1, AlwaysIInv, PTL

(* Every stored row is backed by a confirmed route of the same worker with *)
(* at least its lease, whatever fails: SQLite never resurrects a session   *)
(* the console had dropped while it was running.                           *)
THEOREM PersistenceCorrect == Spec => []PersistedRoutesBacked
<1>1. IInv => PersistedRoutesBacked
  BY DEF IInv, TableConsistent, PersistedRoutesBacked
<1> QED BY <1>1, AlwaysIInv, PTL

=============================================================================
