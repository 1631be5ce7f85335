------------------------- MODULE TerminalStepProofs -------------------------
(***************************************************************************)
(* What a step of the console may do to a route: a session keeps its       *)
(* worker and its lease while it is routed, and a provisional route counts *)
(* exactly the requests that hold its reservation.                         *)
(***************************************************************************)
EXTENDS TerminalDispatchProofs

(* A session that stays routed keeps its worker and never loses lease.     *)
Steady(t, u) ==
    \A s \in Sessions :
       /\ HasRoute(t, s) /\ HasRoute(u, s) =>
            /\ u.routes[s].node = t.routes[s].node
            /\ u.routes[s].lease >= t.routes[s].lease
       /\ t.rows[s] # NoRow /\ u.rows[s] # NoRow =>
            u.rows[s].lease >= t.rows[s].lease

(* A request knows the worker of the provisional route it counts on, and   *)
(* its reservation was handed out; a renewal has none.                     *)
HolderShape(r) ==
    /\ r.phase = "target" => r.res = 0
    /\ Holding(r) =>
         /\ r.res <= tbl.seq
         /\ Provisional(tbl, r.s) /\ tbl.routes[r.s].res = r.res =>
              tbl.routes[r.s].node = r.node

(* The counting of requests.                                               *)
Countable ==
    \A S \in SUBSET Requests, d \in Requests :
       /\ d \notin S => Cardinality(S \cup {d}) = Cardinality(S) + 1
       /\ d \in S => Cardinality(S \ {d}) = Cardinality(S) - 1
       /\ Cardinality({d}) = 1

CountsExact ==
    /\ Countable
    /\ \A d \in Requests : HolderShape(reqs[d])
    /\ ProvisionalUsesExact

-----------------------------------------------------------------------------
(* The three ways a table changes under a request all keep it steady.      *)
LEMMA EvolvesSteady ==
    ASSUME NEW t, NEW u, Evolves(t, u)
    PROVE  Steady(t, u)
BY Zenon DEF Evolves, Steady, RoutedTo

(* A step that changes the count of a route moves and shortens none.       *)
LEMMA CountingSteady ==
    ASSUME NEW t, TableConsistent(t), NEW s \in Sessions, NEW k, NEW u,
           Counts(t, u, s, k)
    PROVE  Steady(t, u)
<1>1. \A x \in Sessions :
         /\ HasRoute(u, x) => /\ RoutedTo(t, x, u.routes[x].node)
                              /\ u.routes[x].lease >= t.routes[x].lease
         /\ t.rows[x] # NoRow /\ u.rows[x] # NoRow =>
              u.rows[x].lease >= t.rows[x].lease
  BY CountsSteady, Zenon
<1> QED BY <1>1, Zenon DEF Steady, RoutedTo

(* A route for a session that had none disturbs no other.                  *)
LEMMA FreshSteady ==
    ASSUME NEW t, TableConsistent(t), NEW s \in Sessions, ~HasRoute(t, s),
           NEW u, u.rows = t.rows,
           \A x \in Sessions : x # s => u.routes[x] = t.routes[x]
    PROVE  Steady(t, u)
<1>1. \A x \in Sessions :
         /\ HasRoute(t, x) => t.routes[x].lease >= t.routes[x].lease
         /\ t.rows[x] # NoRow => t.rows[x].lease >= t.rows[x].lease
  BY LeaseFacts
<1> QED BY <1>1, Zenon DEF Steady

(* Releasing a reservation counts one dispatch less, or drops the route.   *)
LEMMA ReleaseSteady ==
    ASSUME NEW t, TableConsistent(t), NEW s \in Sessions, NEW n, NEW res
    PROVE  Steady(t, ClearReservation(t, s, n, res))
<1>1. Steady(t, t)
  BY NothingDrops, DropsEvolve, EvolvesSteady, Zenon
<1>2. \A u : Drops(t, u) => Steady(t, u)
  BY DropsEvolve, EvolvesSteady, Zenon
<1>3. \A u, k : Counts(t, u, s, k) => Steady(t, u)
  BY CountingSteady, Zenon
<1> QED BY <1>1, <1>2, <1>3, ClearReservationCounts, Zenon

-----------------------------------------------------------------------------
(* The steps that leave every reservation as it is or confirm it.          *)

(* The pick looks the route up, clears a stale one, or leaves it alone.    *)
LEMMA PickEvolves ==
    ASSUME IInv, NEW d \in Requests,
           \/ PickCancelled(d) \/ ChooseNone(d) \/ PickBound(d)
           \/ PickOffline(d) \/ PickTarget(d)
           \/ \E prune \in BOOLEAN, okPrune, ok \in StoreOK :
                 LookUp(d, prune, okPrune, ok)
           \/ \E ok \in StoreOK : ClearStale(d, ok)
           \/ \E n \in Nodes : Choose(d, n)
    PROVE  Evolves(tbl, tbl')
<1>1. TableConsistent(tbl) /\ tbl \in Table
  BY Zenon DEF IInv, TableConsistent
<1>2. Drops(tbl, tbl)
  BY NothingDrops, Zenon
<1>3. CASE \E prune \in BOOLEAN, okPrune, ok \in StoreOK :
              LookUp(d, prune, okPrune, ok)
  <2>1. PICK prune \in BOOLEAN, okPrune \in StoreOK, ok \in StoreOK :
           LookUp(d, prune, okPrune, ok)
    BY <1>3, Zenon
  <2> DEFINE t1 == IF prune THEN PruneRoutes(tbl, now, okPrune) ELSE tbl
  <2>2. reqs[d].phase = "pick" /\ tbl' = SnapshotRoute(t1, reqs[d].s, now, ok)
    BY <2>1, Zenon DEF LookUp
  <2>3. now \in Nat /\ okPrune \in BOOLEAN
    BY Zenon DEF IInv, TypeOK, StoreOK
  <2>4. TableConsistent(t1) /\ Drops(tbl, t1)
    <3>1. TableConsistent(PruneRoutes(tbl, now, okPrune))
      BY <1>1, <2>3, PruneConsistent
    <3>2. Drops(tbl, PruneRoutes(tbl, now, okPrune))
      BY <1>1, PruneDrops, Zenon
    <3> QED BY <1>1, <1>2, <3>1, <3>2, Zenon
  <2> HIDE DEF t1
  <2>5. Drops(t1, tbl')
    BY <2>2, <2>4, SnapshotDrops, Zenon DEF TableConsistent
  <2> QED BY <1>1, <2>4, <2>5, DropsEvolve, DropsFollow, Zenon
<1>4. CASE \E ok \in StoreOK : ClearStale(d, ok)
  <2>1. Drops(tbl, tbl')
    BY <1>1, <1>4, ClearDrops, Zenon DEF ClearStale
  <2> QED BY <1>1, <2>1, DropsEvolve, Zenon
<1>5. CASE tbl' = tbl
  BY <1>1, <1>2, <1>5, DropsEvolve, Zenon
<1> QED BY <1>3, <1>4, <1>5, Zenon DEF PickCancelled, ChooseNone, PickBound,
           PickOffline, PickTarget, Choose

(* What a request that holds a route knows.                                *)
LEMMA HoldingFacts ==
    ASSUME IInv, NEW d \in Requests, Holding(reqs[d])
    PROVE  /\ TableConsistent(tbl) /\ now \in Nat
           /\ reqs[d].s \in Sessions /\ reqs[d].node \in Nodes
           /\ reqs[d].res \in Nat
<1>1. /\ reqs[d] \in Req /\ RequestShape(reqs[d]) /\ reqs[d].s \in Sessions
      /\ TableConsistent(tbl) /\ now \in Nat
  BY RequestFacts DEF Holding
<1>2. reqs[d].res \in Nat
  BY <1>1, Zenon DEF Req
<1>3. reqs[d].node \in Nodes
  BY <1>1, Zenon DEF RequestShape, Holding
<1> QED BY <1>1, <1>2, <1>3, Zenon

(* The outcome of an attempt that keeps the route, or clears a confirmed   *)
(* one.                                                                    *)
LEMMA AttemptEvolves ==
    ASSUME IInv, NEW d \in Requests,
           \/ Send(d) \/ Answer(d) \/ NoProof(d)
           \/ \E lease \in Leases, ok, okAfter \in StoreOK :
                 Success(d, lease, ok, okAfter)
           \/ \E ok \in StoreOK : NotFound(d, ok) /\ reqs[d].res = 0
    PROVE  Evolves(tbl, tbl')
<1> DEFINE r == reqs[d]
           C == ConfirmRoute(tbl, r.s, r.node, r.res, now)
<1>1. /\ TableConsistent(tbl) /\ now \in Nat /\ r.s \in Sessions
      /\ r.node \in Nodes /\ r.res \in Nat
  <2>1. Holding(r)
    BY Zenon DEF Send, Answer, NoProof, Success, NotFound, Holding
  <2> QED BY <2>1, HoldingFacts, Zenon
<1>2. Evolves(tbl, tbl) /\ Evolves(tbl, C)
  BY <1>1, NothingDrops, DropsEvolve, ConfirmEvolves, Zenon
<1>3. CASE Send(d) \/ Answer(d) \/ NoProof(d)
  BY <1>2, <1>3, Zenon DEF Send, Answer, NoProof
<1>4. CASE \E lease \in Leases, ok, okAfter \in StoreOK :
              Success(d, lease, ok, okAfter)
  <2>1. PICK lease \in Leases, ok \in StoreOK, okAfter \in StoreOK :
           Success(d, lease, ok, okAfter)
    BY <1>4, Zenon
  <2> DEFINE t1 == CommitRoute(tbl, r.s, r.node, r.res, lease, now)
  <2>2. \/ tbl' = C \/ tbl' = tbl
        \/ /\ lease > 0 /\ OwnsRoute(tbl, r.s, r.node, r.res)
           /\ tbl' = t1 \/ tbl' = SnapshotRoute(t1, r.s, now, okAfter)
    BY <2>1, Zenon DEF Success
  <2>3. CASE lease > 0 /\ OwnsRoute(tbl, r.s, r.node, r.res)
    <3>1. lease \in Nat
      BY TerminalDispatchAssumption, Zenon
    <3>2. Evolves(tbl, t1) /\ TableConsistent(t1)
      BY <1>1, <2>3, <3>1, CommitEvolves, CommitConsistent, Zenon
    <3> HIDE DEF t1
    <3>3. Evolves(tbl, SnapshotRoute(t1, r.s, now, okAfter))
      BY <3>2, SnapshotDrops, DropsFollow, Zenon DEF TableConsistent
    <3> QED BY <1>2, <2>2, <3>2, <3>3, Zenon
  <2> QED BY <1>2, <2>2, <2>3, Zenon
<1>5. CASE \E ok \in StoreOK : NotFound(d, ok) /\ r.res = 0
  <2>1. Drops(tbl, tbl')
    BY <1>1, <1>5, ClearDrops, Zenon DEF NotFound, TableConsistent
  <2> QED BY <1>1, <2>1, DropsEvolve, Zenon
<1> QED BY <1>3, <1>4, <1>5, Zenon

(* A request begins, or a deletion ends.                                   *)
LEMMA StartEvolves ==
    ASSUME IInv, NEW d \in Requests,
           StartRequest(d) \/ \E ok \in StoreOK : FinishDelete(d, ok)
    PROVE  Evolves(tbl, tbl')
<1>1. TableConsistent(tbl) /\ tbl \in Table
  BY Zenon DEF IInv, TableConsistent
<1>2. Drops(tbl, tbl)
  BY NothingDrops, Zenon
<1>3. CASE \E s \in Sessions, ok \in StoreOK :
              StartRenew(d, s, ok) \/ StartDelete(d, s, ok)
  BY <1>1, <1>3, SnapshotDrops, DropsEvolve, Zenon DEF StartRenew, StartDelete
<1>4. CASE \E kind \in {"exec", "resource"}, s \in Sessions,
              attempts \in 1..Cardinality(Nodes) :
              StartDispatch(d, kind, s, attempts)
  BY <1>1, <1>2, <1>4, DropsEvolve, Zenon DEF StartDispatch
<1>5. CASE \E ok \in StoreOK : FinishDelete(d, ok)
  BY <1>1, <1>5, ClearDrops, DropsEvolve, Zenon DEF FinishDelete
<1> QED BY <1>3, <1>4, <1>5, Zenon DEF StartRequest

(* A connection begins a recovery, reports, or leaves.                     *)
LEMMA ConnectionEvolves ==
    ASSUME IInv, NEW c \in Conns, ConnectionStep(c)
    PROVE  Evolves(tbl, tbl') /\ reqs' = reqs
<1> DEFINE k == conns[c]
<1>1. TableConsistent(tbl) /\ now \in Nat
  BY Zenon DEF IInv, TypeOK
<1>2. Evolves(tbl, tbl)
  BY <1>1, NothingDrops, DropsEvolve, Zenon
<1>3. CASE BeginConnection(c)
  <2>1. /\ k.phase \in {"claimed", "hello"} /\ reqs' = reqs
        /\ tbl' = BeginRecovery(tbl, k.node, k.t)
    BY <1>3, Zenon DEF BeginConnection, BeginPhase
  <2>2. k.node \in Nodes /\ k \in Conn
    BY <2>1, ConnectionFacts
  <2>3. k.t \in Nat
    BY <2>2, Zenon DEF Conn
  <2> QED BY <1>1, <2>1, <2>2, <2>3, BeginEvolves, Zenon
<1>4. CASE \E recovered \in SUBSET Sessions : Report(c, recovered)
  <2>1. PICK recovered \in SUBSET Sessions : Report(c, recovered)
    BY <1>4, Zenon
  <2>2. /\ k.phase = "loop" /\ reqs' = reqs
        /\ tbl' = ApplyRecovery(tbl, k.node, k.cands, recovered, now)
    BY <2>1, Zenon DEF Report
  <2>3. k.node \in Nodes
    BY <2>2, ConnectionFacts
  <2> QED BY <1>1, <2>2, <2>3, ApplyEvolves, Zenon
<1>5. CASE MarkRoutes(c)
  <2>1. /\ k.phase = "removed" /\ reqs' = reqs
        /\ tbl' = MarkUnavailable(tbl, k.node)
    BY <1>5, Zenon DEF MarkRoutes
  <2>2. k.node \in Nodes
    BY <2>1, ConnectionFacts
  <2> QED BY <1>1, <2>1, <2>2, MarkEvolves, Zenon
<1>6. CASE tbl' = tbl /\ reqs' = reqs
  BY <1>2, <1>6, Zenon
<1> QED BY <1>3, <1>4, <1>5, <1>6, Zenon DEF ConnectionStep, Hello,
           ClaimConnection, SwapConnection, LeaveConnection

(* The console's own steps, a restart excepted.                            *)
LEMMA ConsoleEvolves ==
    ASSUME IInv, ConsoleStep, ~Restart
    PROVE  Evolves(tbl, tbl') /\ reqs' = reqs
<1>1. TableConsistent(tbl) /\ now \in Nat /\ tbl \in Table
  BY Zenon DEF IInv, TypeOK
<1>2. Drops(tbl, tbl)
  BY NothingDrops, Zenon
<1>3. CASE \E prune \in BOOLEAN, okPrune, ok \in StoreOK :
              ListSessions(prune, okPrune, ok)
  <2>1. PICK prune \in BOOLEAN, okPrune \in StoreOK, ok \in StoreOK :
           ListSessions(prune, okPrune, ok)
    BY <1>3, Zenon
  <2> DEFINE t1 == IF prune THEN PruneRoutes(tbl, now, okPrune) ELSE tbl
  <2>2. tbl' = ListRoutes(t1, now, ok) /\ reqs' = reqs
    BY <2>1, Zenon DEF ListSessions
  <2>3. TableConsistent(t1) /\ Drops(tbl, t1)
    <3>1. okPrune \in BOOLEAN
      BY Zenon DEF StoreOK
    <3>2. TableConsistent(PruneRoutes(tbl, now, okPrune))
      BY <1>1, <3>1, PruneConsistent
    <3>3. Drops(tbl, PruneRoutes(tbl, now, okPrune))
      BY <1>1, PruneDrops, Zenon
    <3> QED BY <1>1, <1>2, <3>2, <3>3, Zenon
  <2> HIDE DEF t1
  <2>4. Drops(t1, tbl')
    BY <2>2, <2>3, ListDrops, Zenon DEF TableConsistent
  <2> QED BY <1>1, <2>2, <2>3, <2>4, DropsEvolve, DropsFollow, Zenon
<1>4. CASE \E ok \in StoreOK : Prune(ok)
  BY <1>1, <1>4, PruneDrops, DropsEvolve, Zenon DEF Prune
<1>5. CASE \E n \in Nodes : DeleteWorkerRoutes(n)
  BY <1>1, <1>5, ByNodeDrops, DropsEvolve, Zenon DEF DeleteWorkerRoutes
<1>6. CASE (\E n \in Nodes : RevokeWorker(n)) \/ Tick
  BY <1>1, <1>2, <1>6, DropsEvolve, Zenon DEF RevokeWorker, Tick
<1> QED BY <1>3, <1>4, <1>5, <1>6, Zenon DEF ConsoleStep

-----------------------------------------------------------------------------
(* Counting the holders of a reservation.                                  *)

Holds(r, s, res) == Holding(r) /\ r.s = s /\ r.res = res
HoldersAmong(R, s, res) == {d \in Requests : Holds(R[d], s, res)}

(* ProvisionalUsesExact, in both states of a step, in terms of the         *)
(* holders.                                                                *)
LEMMA UsesRead ==
    /\ ProvisionalUsesExact <=>
         \A s \in Sessions : Provisional(tbl, s) =>
            tbl.routes[s].uses =
               Cardinality(HoldersAmong(reqs, s, tbl.routes[s].res))
    /\ ProvisionalUsesExact' <=>
         \A s \in Sessions : Provisional(tbl', s) =>
            tbl'.routes[s].uses =
               Cardinality(HoldersAmong(reqs', s, tbl'.routes[s].res))
<1>1. \A s, res : Holders(s, res) = HoldersAmong(reqs, s, res)
  BY Zenon DEF Holders, HoldersAmong, Holds
<1>2. ProvisionalUsesExact' <=>
         \A s \in Sessions : Provisional(tbl', s) =>
            tbl'.routes[s].uses =
               Cardinality(HoldersAmong(reqs', s, tbl'.routes[s].res))
  BY DEF ProvisionalUsesExact, Holders, HoldersAmong, Holds, Holding,
         Provisional, HasRoute
<1> QED BY <1>1, <1>2, Zenon DEF ProvisionalUsesExact

(* The table goes on, and the requests that count on a route that is still *)
(* provisional are the same.                                               *)
LEMMA CountsKept ==
    ASSUME IInv, CountsExact, Evolves(tbl, tbl'),
           \A e \in Requests :
              /\ reqs'[e].phase = "target" => reqs'[e].res = 0
              /\ Holding(reqs'[e]) =>
                    \/ /\ Holds(reqs[e], reqs'[e].s, reqs'[e].res)
                       /\ reqs[e].node = reqs'[e].node
                    \/ ~Holding(reqs[e]) /\ reqs'[e].res = 0
              /\ Holding(reqs[e]) /\ ~Holding(reqs'[e]) =>
                    ~(/\ Provisional(tbl', reqs[e].s)
                      /\ tbl'.routes[reqs[e].s].res = reqs[e].res)
    PROVE  CountsExact'
<1>1. tbl'.seq = tbl.seq /\ tbl.seq \in Nat
  BY DEF Evolves, IInv, TypeOK, Table
<1>2. \A s \in Sessions : Provisional(tbl', s) =>
         /\ Provisional(tbl, s) /\ tbl'.routes[s].res = tbl.routes[s].res
         /\ tbl'.routes[s].uses = tbl.routes[s].uses
         /\ tbl'.routes[s].node = tbl.routes[s].node
         /\ tbl'.routes[s].res # 0
  BY Zenon DEF Evolves, Provisional, RoutedTo
<1>3. \A e \in Requests : Holding(reqs'[e]) /\ reqs'[e].res # 0 =>
         /\ Holding(reqs[e]) /\ reqs[e].s = reqs'[e].s
         /\ reqs[e].res = reqs'[e].res /\ reqs[e].node = reqs'[e].node
  BY Zenon DEF Holds
<1>4. \A e \in Requests : Holding(reqs[e]) => reqs[e].s \in Sessions
  BY HoldingFacts, Zenon
<1>5. ASSUME NEW e \in Requests
      PROVE  HolderShape(reqs[e])'
  <2>1. HolderShape(reqs[e])
    BY Zenon DEF CountsExact
  <2>2. CASE Holding(reqs'[e]) /\ reqs'[e].res # 0
    <3>1. /\ Holding(reqs[e]) /\ reqs[e].s = reqs'[e].s /\ reqs[e].s \in Sessions
          /\ reqs[e].res = reqs'[e].res /\ reqs[e].node = reqs'[e].node
      BY <1>3, <1>4, <2>2, Zenon
    <3>2. reqs'[e].res <= tbl'.seq
      BY <1>1, <2>1, <3>1, Zenon DEF HolderShape
    <3>3. Provisional(tbl', reqs'[e].s) /\ tbl'.routes[reqs'[e].s].res = reqs'[e].res
             => tbl'.routes[reqs'[e].s].node = reqs'[e].node
      BY <1>2, <2>1, <3>1, Zenon DEF HolderShape
    <3> QED BY <3>2, <3>3, Zenon DEF HolderShape, Holding
  <2>3. CASE Holding(reqs'[e]) /\ reqs'[e].res = 0
    <3>1. reqs'[e].s \in Sessions => ~(Provisional(tbl', reqs'[e].s)
                                       /\ tbl'.routes[reqs'[e].s].res = 0)
      BY <1>2, Zenon
    <3>2. 0 <= tbl'.seq
      BY <1>1
    <3> QED BY <2>3, <3>1, <3>2, Zenon DEF HolderShape, Holding, Provisional
  <2>4. CASE ~Holding(reqs'[e])
    BY <2>4, Zenon DEF HolderShape, Holding
  <2> QED BY <2>2, <2>3, <2>4, Zenon
<1>6. ASSUME NEW s \in Sessions, Provisional(tbl', s)
      PROVE  tbl'.routes[s].uses =
                Cardinality(HoldersAmong(reqs', s, tbl'.routes[s].res))
  <2>1. PICK res : /\ Provisional(tbl, s) /\ tbl.routes[s].res = res
                   /\ tbl'.routes[s].res = res /\ res # 0
                   /\ tbl'.routes[s].uses = tbl.routes[s].uses
    BY <1>2, <1>6, Zenon
  <2>2. \A e \in Requests : Holds(reqs'[e], s, res) <=> Holds(reqs[e], s, res)
    <3> TAKE e \in Requests
    <3>1. Holds(reqs'[e], s, res) => Holds(reqs[e], s, res)
      BY <1>3, <2>1, Zenon DEF Holds
    <3>2. ASSUME Holds(reqs[e], s, res) PROVE Holds(reqs'[e], s, res)
      <4>1. Holding(reqs'[e])
        BY <1>6, <2>1, <3>2, Zenon DEF Holds
      <4> QED BY <2>1, <3>2, <4>1, Zenon DEF Holds
    <3> QED BY <3>1, <3>2, Zenon
  <2>3. HoldersAmong(reqs', s, res) = HoldersAmong(reqs, s, res)
    BY <2>2, Zenon DEF HoldersAmong
  <2>4. tbl.routes[s].uses = Cardinality(HoldersAmong(reqs, s, res))
    BY <2>1, UsesRead, Zenon DEF CountsExact
  <2> QED BY <2>1, <2>3, <2>4, Zenon
<1>7. ProvisionalUsesExact'
  BY <1>6, UsesRead, Zenon
<1>8. Countable'
  BY Zenon DEF CountsExact, Countable
<1> QED BY <1>5, <1>7, <1>8, Zenon DEF CountsExact

(* One request takes a step, or none does.                                 *)
LEMMA StepCounts ==
    ASSUME IInv, CountsExact, Evolves(tbl, tbl'), NEW d \in Requests,
           NEW upd, Step(d, upd),
           upd.phase = "target" => upd.res = 0,
           Holding(upd) =>
              \/ /\ Holds(reqs[d], upd.s, upd.res)
                 /\ reqs[d].node = upd.node
              \/ ~Holding(reqs[d]) /\ upd.res = 0,
           Holding(reqs[d]) /\ ~Holding(upd) =>
              ~(/\ Provisional(tbl', reqs[d].s)
                /\ tbl'.routes[reqs[d].s].res = reqs[d].res)
    PROVE  CountsExact'
<1>1. reqs \in [Requests -> Req \cup {Idle}] /\ reqs' = [reqs EXCEPT ![d] = upd]
  BY Zenon DEF IInv, TypeOK, Step
<1>2. reqs'[d] = upd /\ \A e \in Requests : e # d => reqs'[e] = reqs[e]
  BY <1>1, Zenon
<1>3. \A e \in Requests :
         /\ reqs'[e].phase = "target" => reqs'[e].res = 0
         /\ Holding(reqs'[e]) =>
               \/ /\ Holds(reqs[e], reqs'[e].s, reqs'[e].res)
                  /\ reqs[e].node = reqs'[e].node
               \/ ~Holding(reqs[e]) /\ reqs'[e].res = 0
         /\ Holding(reqs[e]) /\ ~Holding(reqs'[e]) =>
               ~(/\ Provisional(tbl', reqs[e].s)
                 /\ tbl'.routes[reqs[e].s].res = reqs[e].res)
  <2> TAKE e \in Requests
  <2>1. CASE e = d
    BY <1>2, <2>1, Zenon
  <2>2. CASE e # d
    BY <1>2, <2>2, Zenon DEF Holds, CountsExact, HolderShape
  <2> QED BY <2>1, <2>2, Zenon
<1> QED BY <1>3, CountsKept, Zenon

(* Counts stay exact in a step that no request takes.                      *)
LEMMA QuietCounts ==
    ASSUME IInv, CountsExact, Evolves(tbl, tbl'), reqs' = reqs
    PROVE  CountsExact'
<1>1. \A e \in Requests :
         /\ reqs'[e].phase = "target" => reqs'[e].res = 0
         /\ Holding(reqs'[e]) =>
               \/ /\ Holds(reqs[e], reqs'[e].s, reqs'[e].res)
                  /\ reqs[e].node = reqs'[e].node
               \/ ~Holding(reqs[e]) /\ reqs'[e].res = 0
         /\ Holding(reqs[e]) /\ ~Holding(reqs'[e]) =>
               ~(/\ Provisional(tbl', reqs[e].s)
                 /\ tbl'.routes[reqs[e].s].res = reqs[e].res)
  BY Zenon DEF Holds, CountsExact, HolderShape
<1> QED BY <1>1, CountsKept, Zenon

(* A session whose route, and whose holders, a step of request d leaves    *)
(* alone.                                                                  *)
LEMMA OthersKept ==
    ASSUME IInv, CountsExact, NEW d \in Requests, NEW s \in Sessions,
           reqs' = [reqs EXCEPT ![d] = reqs'[d]],
           \A x \in Sessions : x # s => tbl'.routes[x] = tbl.routes[x],
           Holding(reqs[d]) => reqs[d].s = s,
           Holding(reqs'[d]) => reqs'[d].s = s
    PROVE  \A x \in Sessions : x # s =>
              /\ Provisional(tbl', x) => Provisional(tbl, x)
              /\ \A res : HoldersAmong(reqs', x, res) = HoldersAmong(reqs, x, res)
              /\ Provisional(tbl', x) => tbl'.routes[x].uses =
                    Cardinality(HoldersAmong(reqs', x, tbl'.routes[x].res))
<1>1. \A e \in Requests : e # d => reqs'[e] = reqs[e]
  BY Zenon DEF IInv, TypeOK
<1> TAKE x \in Sessions
<1> HAVE x # s
<1>2. \A e \in Requests : \A res :
         Holds(reqs'[e], x, res) <=> Holds(reqs[e], x, res)
  <2>1. \A res : ~Holds(reqs'[d], x, res) /\ ~Holds(reqs[d], x, res)
    BY Zenon DEF Holds
  <2> QED BY <1>1, <2>1, Zenon
<1>3. \A res : HoldersAmong(reqs', x, res) = HoldersAmong(reqs, x, res)
  BY <1>2, Zenon DEF HoldersAmong
<1>4. Provisional(tbl', x) => Provisional(tbl, x) /\ tbl'.routes[x] = tbl.routes[x]
  BY Zenon DEF Provisional, HasRoute
<1> QED BY <1>3, <1>4, UsesRead, Zenon DEF CountsExact

(* What the requests other than d know stays true.                         *)
LEMMA OthersShaped ==
    ASSUME IInv, CountsExact, NEW d \in Requests,
           reqs' = [reqs EXCEPT ![d] = reqs'[d]],
           tbl'.seq \in Nat, tbl'.seq >= tbl.seq,
           \A e \in Requests :
              (/\ e # d /\ Holding(reqs[e])
               /\ Provisional(tbl', reqs[e].s)
               /\ tbl'.routes[reqs[e].s].res = reqs[e].res) =>
              /\ Provisional(tbl, reqs[e].s)
              /\ tbl.routes[reqs[e].s].res = reqs[e].res
              /\ tbl'.routes[reqs[e].s].node = tbl.routes[reqs[e].s].node
    PROVE  \A e \in Requests : e # d => HolderShape(reqs[e])'
<1> SUFFICES ASSUME NEW e \in Requests, e # d
             PROVE  HolderShape(reqs[e])'
  BY Zenon
<1>1. reqs'[e] = reqs[e] /\ HolderShape(reqs[e])
  BY Zenon DEF IInv, TypeOK, CountsExact
<1>2. CASE Holding(reqs[e])
  <2>1. reqs[e].res \in Nat /\ tbl.seq \in Nat
    BY <1>2, HoldingFacts, Zenon DEF TableConsistent, Table
  <2>2. reqs[e].res <= tbl.seq
    BY <1>1, <1>2, Zenon DEF HolderShape
  <2>3. reqs[e].res <= tbl'.seq
    BY <2>1, <2>2
  <2> QED BY <1>1, <1>2, <2>3, Zenon DEF HolderShape, Holding
<1>3. CASE ~Holding(reqs[e])
  BY <1>1, <1>3, Zenon DEF HolderShape, Holding
<1> QED BY <1>2, <1>3, Zenon

(* Request d joins the reservation of a provisional route.                 *)
LEMMA JoinCounts ==
    ASSUME IInv, CountsExact, NEW d \in Requests, NEW s \in Sessions,
           reqs' = [reqs EXCEPT ![d] = reqs'[d]],
           Provisional(tbl, s), ~Holding(reqs[d]),
           Counts(tbl, tbl', s, tbl.routes[s].uses + 1),
           Holds(reqs'[d], s, tbl.routes[s].res),
           reqs'[d].node = tbl.routes[s].node
    PROVE  CountsExact'
<1> DEFINE res == tbl.routes[s].res
           H == HoldersAmong(reqs, s, res)
<1>1. /\ tbl'.seq = tbl.seq
      /\ \A x \in Sessions : x # s => tbl'.routes[x] = tbl.routes[x]
      /\ tbl'.routes[s].res = res /\ tbl'.routes[s].uses = tbl.routes[s].uses + 1
      /\ tbl'.routes[s].node = tbl.routes[s].node
  BY Zenon DEF Counts
<1>2. tbl.seq \in Nat /\ res <= tbl.seq /\ tbl.seq >= tbl.seq
  BY RouteFacts DEF IInv, TableConsistent, Table, Provisional, RouteShape
<1>3. \A e \in Requests : e # d => reqs'[e] = reqs[e]
  BY Zenon DEF IInv, TypeOK
<1>4. HoldersAmong(reqs', s, res) = H \cup {d} /\ d \notin H
  <2>1. \A e \in Requests : Holds(reqs'[e], s, res) <=> Holds(reqs[e], s, res) \/ e = d
    BY <1>3, Zenon DEF Holds
  <2> QED BY <2>1, Zenon DEF HoldersAmong, Holds
<1>5. Cardinality(H \cup {d}) = Cardinality(H) + 1
  <2>1. H \in SUBSET Requests
    BY Zenon DEF HoldersAmong
  <2> QED BY <1>4, <2>1, Zenon DEF CountsExact, Countable
<1>6. tbl.routes[s].uses = Cardinality(H)
  BY UsesRead, Zenon DEF CountsExact
<1>7. tbl'.routes[s].uses = Cardinality(HoldersAmong(reqs', s, tbl'.routes[s].res))
  BY <1>1, <1>4, <1>5, <1>6, Zenon
<1>8. \A x \in Sessions : x # s /\ Provisional(tbl', x) => tbl'.routes[x].uses =
         Cardinality(HoldersAmong(reqs', x, tbl'.routes[x].res))
  BY <1>1, OthersKept, Zenon DEF Holds
<1>9. ProvisionalUsesExact'
  BY <1>7, <1>8, UsesRead, Zenon
<1>10. \A e \in Requests : e # d => HolderShape(reqs[e])'
  <2>1. \A e \in Requests :
           (/\ e # d /\ Holding(reqs[e])
            /\ Provisional(tbl', reqs[e].s)
            /\ tbl'.routes[reqs[e].s].res = reqs[e].res) =>
           /\ Provisional(tbl, reqs[e].s)
           /\ tbl.routes[reqs[e].s].res = reqs[e].res
           /\ tbl'.routes[reqs[e].s].node = tbl.routes[reqs[e].s].node
    <3>1. \A e \in Requests : Holding(reqs[e]) => reqs[e].s \in Sessions
      BY HoldingFacts, Zenon
    <3> QED BY <1>1, <3>1, Zenon DEF Provisional, HasRoute
  <2> QED BY <1>1, <1>2, <2>1, OthersShaped, Zenon
<1>11. HolderShape(reqs[d])'
  BY <1>1, <1>2, Zenon DEF HolderShape, Holds, Holding
<1>12. Countable'
  BY Zenon DEF CountsExact, Countable
<1> QED BY <1>9, <1>10, <1>11, <1>12, Zenon DEF CountsExact

(* Request d opens a reservation: nobody else holds its number.            *)
LEMMA OpenCounts ==
    ASSUME IInv, CountsExact, NEW d \in Requests, NEW s \in Sessions,
           reqs' = [reqs EXCEPT ![d] = reqs'[d]],
           ~HasRoute(tbl, s), ~Holding(reqs[d]),
           tbl'.seq = tbl.seq + 1,
           \A x \in Sessions : x # s => tbl'.routes[x] = tbl.routes[x],
           tbl'.routes[s].res = tbl.seq + 1, tbl'.routes[s].uses = 1,
           Holds(reqs'[d], s, tbl.seq + 1),
           reqs'[d].node = tbl'.routes[s].node
    PROVE  CountsExact'
<1> DEFINE res == tbl.seq + 1
<1>1. tbl.seq \in Nat
  BY Zenon DEF IInv, TableConsistent, Table
<1>2. tbl'.seq \in Nat /\ tbl'.seq >= tbl.seq /\ res <= tbl'.seq
  BY <1>1
<1>3. \A e \in Requests : e # d => reqs'[e] = reqs[e]
  BY Zenon DEF IInv, TypeOK
<1>4. \A e \in Requests : Holding(reqs[e]) => reqs[e].res # res
  <2> SUFFICES ASSUME NEW e \in Requests, Holding(reqs[e])
               PROVE  reqs[e].res # res
    BY Zenon
  <2>1. reqs[e].res <= tbl.seq
    BY Zenon DEF CountsExact, HolderShape
  <2> QED BY <1>1, <2>1
<1>5. HoldersAmong(reqs', s, res) = {d}
  <2>1. \A e \in Requests : Holds(reqs'[e], s, res) <=> e = d
    BY <1>3, <1>4, Zenon DEF Holds
  <2> HIDE DEF res
  <2> QED BY <2>1, Zenon DEF HoldersAmong
<1>6. tbl'.routes[s].uses = Cardinality(HoldersAmong(reqs', s, tbl'.routes[s].res))
  <2>1. Cardinality({d}) = 1
    BY Zenon DEF CountsExact, Countable
  <2> HIDE DEF res
  <2>2. tbl'.routes[s].res = res
    BY Zenon DEF res
  <2> QED BY <1>5, <2>1, <2>2, Zenon
<1>7. \A x \in Sessions : x # s /\ Provisional(tbl', x) => tbl'.routes[x].uses =
         Cardinality(HoldersAmong(reqs', x, tbl'.routes[x].res))
  BY OthersKept, Zenon DEF Holds
<1>8. ProvisionalUsesExact'
  BY <1>6, <1>7, UsesRead, Zenon
<1>9. \A e \in Requests : e # d => HolderShape(reqs[e])'
  <2>1. \A e \in Requests :
           (/\ e # d /\ Holding(reqs[e])
            /\ Provisional(tbl', reqs[e].s)
            /\ tbl'.routes[reqs[e].s].res = reqs[e].res) =>
           /\ Provisional(tbl, reqs[e].s)
           /\ tbl.routes[reqs[e].s].res = reqs[e].res
           /\ tbl'.routes[reqs[e].s].node = tbl.routes[reqs[e].s].node
    <3>1. \A e \in Requests : Holding(reqs[e]) => reqs[e].s \in Sessions
      BY HoldingFacts, Zenon
    <3> QED BY <1>4, <3>1, ZenonT(30) DEF Provisional, HasRoute
  <2> QED BY <1>2, <2>1, OthersShaped, Zenon
<1>10. HolderShape(reqs[d])'
  BY <1>2, Zenon DEF HolderShape, Holds, Holding
<1>12. Countable'
  BY Zenon DEF CountsExact, Countable
<1> QED BY <1>8, <1>9, <1>10, <1>12, Zenon DEF CountsExact

(* Request d gives its reservation up.                                     *)
LEMMA ReleaseCounts ==
    ASSUME IInv, CountsExact, NEW d \in Requests, Holding(reqs[d]),
           reqs' = [reqs EXCEPT ![d] = reqs'[d]],
           ~Holding(reqs'[d]), reqs'[d].phase # "target",
           tbl' = ClearReservation(tbl, reqs[d].s, reqs[d].node, reqs[d].res)
    PROVE  CountsExact'
<1>1. PICK s \in Sessions, n \in Nodes, res \in Nat :
         reqs[d].s = s /\ reqs[d].node = n /\ reqs[d].res = res
  BY HoldingFacts, Zenon
<1>2. TableConsistent(tbl) /\ tbl.seq \in Nat /\ tbl.seq >= tbl.seq
  BY DEF IInv, TableConsistent, Table
<1>3. \A e \in Requests : e # d => reqs'[e] = reqs[e]
  BY Zenon DEF IInv, TypeOK
<1>4. /\ ~HoldsReservation(tbl, s, n, res) => tbl' = tbl
      /\ HoldsReservation(tbl, s, n, res) =>
           IF tbl.routes[s].uses > 1
           THEN Counts(tbl, tbl', s, tbl.routes[s].uses - 1)
           ELSE Drops(tbl, tbl') /\ ~HasRoute(tbl', s)
  BY <1>1, <1>2, ClearReservationCounts, Zenon
<1>5. Provisional(tbl, s) /\ tbl.routes[s].res = res => HoldsReservation(tbl, s, n, res)
  <2>1. HolderShape(reqs[d])
    BY Zenon DEF CountsExact
  <2> QED BY <1>1, <2>1, Zenon DEF HolderShape, HoldsReservation, RoutedTo,
             Provisional
<1>6. CASE Evolves(tbl, tbl') /\ ~(Provisional(tbl', s) /\ tbl'.routes[s].res = res)
  BY <1>1, <1>6, StepCounts, Zenon DEF Step
<1>7. CASE ~HoldsReservation(tbl, s, n, res)
  BY <1>2, <1>4, <1>5, <1>6, <1>7, NothingDrops, DropsEvolve, Zenon
<1>8. CASE HoldsReservation(tbl, s, n, res) /\ ~(tbl.routes[s].uses > 1)
  BY <1>2, <1>4, <1>6, <1>8, DropsEvolve, Zenon DEF Provisional
<1>9. CASE HoldsReservation(tbl, s, n, res) /\ tbl.routes[s].uses > 1
  <2> DEFINE H == HoldersAmong(reqs, s, res)
  <2>1. Counts(tbl, tbl', s, tbl.routes[s].uses - 1)
    BY <1>4, <1>9, Zenon
  <2>2. /\ tbl'.seq = tbl.seq
        /\ \A x \in Sessions : x # s => tbl'.routes[x] = tbl.routes[x]
        /\ tbl'.routes[s].res = res
        /\ tbl'.routes[s].uses = tbl.routes[s].uses - 1
        /\ tbl'.routes[s].node = tbl.routes[s].node
        /\ tbl.routes[s].res = res /\ Provisional(tbl, s)
    BY <1>9, <2>1, Zenon DEF Counts, HoldsReservation, Provisional, RoutedTo
  <2>3. HoldersAmong(reqs', s, res) = H \ {d} /\ d \in H
    <3>1. \A e \in Requests : Holds(reqs'[e], s, res) <=> Holds(reqs[e], s, res) /\ e # d
      BY <1>3, Zenon DEF Holds
    <3>2. Holds(reqs[d], s, res)
      BY <1>1, Zenon DEF Holds
    <3> QED BY <3>1, <3>2, Zenon DEF HoldersAmong
  <2>4. Cardinality(H \ {d}) = Cardinality(H) - 1
    <3>1. H \in SUBSET Requests
      BY Zenon DEF HoldersAmong
    <3> QED BY <2>3, <3>1, Zenon DEF CountsExact, Countable
  <2>5. tbl.routes[s].uses = Cardinality(H)
    BY <2>2, UsesRead, Zenon DEF CountsExact
  <2>6. tbl'.routes[s].uses = Cardinality(HoldersAmong(reqs', s, tbl'.routes[s].res))
    BY <2>2, <2>3, <2>4, <2>5, Zenon
  <2>7. \A x \in Sessions : x # s /\ Provisional(tbl', x) => tbl'.routes[x].uses =
           Cardinality(HoldersAmong(reqs', x, tbl'.routes[x].res))
    BY <1>1, <2>2, OthersKept, Zenon
  <2>8. ProvisionalUsesExact'
    BY <2>6, <2>7, UsesRead, Zenon
  <2>9. \A e \in Requests : e # d => HolderShape(reqs[e])'
    <3>1. \A e \in Requests :
             (/\ e # d /\ Holding(reqs[e])
              /\ Provisional(tbl', reqs[e].s)
              /\ tbl'.routes[reqs[e].s].res = reqs[e].res) =>
             /\ Provisional(tbl, reqs[e].s)
             /\ tbl.routes[reqs[e].s].res = reqs[e].res
             /\ tbl'.routes[reqs[e].s].node = tbl.routes[reqs[e].s].node
      <4>1. \A e \in Requests : Holding(reqs[e]) => reqs[e].s \in Sessions
        BY HoldingFacts, Zenon
      <4> QED BY <2>2, <4>1, ZenonT(30) DEF Provisional, HasRoute
    <3> QED BY <1>2, <2>2, <3>1, OthersShaped, Zenon
  <2>10. HolderShape(reqs[d])'
    BY Zenon DEF HolderShape, Holding
  <2>11. Countable'
    BY Zenon DEF CountsExact, Countable
  <2> QED BY <2>8, <2>9, <2>10, <2>11, Zenon DEF CountsExact
<1> QED BY <1>7, <1>8, <1>9, Zenon

-----------------------------------------------------------------------------
(* Claim and Reserve: the request joins a route, opens a reservation, or   *)
(* gives the use back because the worker was tried before.                 *)
LEMMA JoinedCounts ==
    ASSUME IInv, NEW d \in Requests, NEW s \in Sessions, NEW t0 \in Nat,
           HasRoute(tbl, s), ~Holding(reqs[d]),
           NEW upd, Step(d, upd),
           \/ /\ tbl' = ClaimRoute(tbl, s, t0)
              /\ Holds(upd, s, tbl.routes[s].res)
              /\ upd.node = tbl.routes[s].node
           \/ /\ tbl' = ClearReservation(ClaimRoute(tbl, s, t0), s,
                                         tbl.routes[s].node, tbl.routes[s].res)
              /\ upd = Idle
    PROVE  Steady(tbl, tbl') /\ (CountsExact => CountsExact')
<1> DEFINE o == tbl.routes[s]
<1>1. TableConsistent(tbl) /\ reqs \in [Requests -> Req \cup {Idle}]
  BY Zenon DEF IInv, TypeOK
<1>2. reqs' = [reqs EXCEPT ![d] = upd] /\ reqs'[d] = upd
  BY <1>1, Zenon DEF Step
<1>4. ASSUME CountsExact, Evolves(tbl, tbl'), upd.phase # "target",
             Holding(upd) => upd.res = 0
      PROVE  CountsExact'
  BY <1>4, StepCounts, Zenon
<1>5. CASE tbl' = ClearReservation(ClaimRoute(tbl, s, t0), s, o.node, o.res)
           /\ upd = Idle
  <2>1. Evolves(tbl, tbl')
    BY <1>1, <1>5, ClaimGivenBack, Zenon
  <2>2. upd.phase = "idle"
    BY <1>5, Zenon DEF Idle
  <2>3. upd.phase # "target" /\ ~Holding(upd)
    BY <2>2 DEF Holding
  <2> QED BY <1>4, <2>1, <2>3, EvolvesSteady, Zenon
<1>6. CASE /\ tbl' = ClaimRoute(tbl, s, t0) /\ Holds(upd, s, o.res)
           /\ upd.node = o.node
  <2>1. Counts(tbl, tbl', s, IF o.res # 0 THEN o.uses + 1 ELSE o.uses)
    BY <1>1, <1>6, ClaimCounts, Zenon
  <2>2. Steady(tbl, tbl')
    BY <1>1, <2>1, CountingSteady, Zenon
  <2>3. upd.phase # "target"
    BY <1>6 DEF Holds, Holding
  <2>4. ASSUME CountsExact, o.res = 0 PROVE CountsExact'
    <3>1. Evolves(tbl, tbl')
      BY <1>1, <2>1, <2>4, CountsSteady, Zenon
    <3> QED BY <1>4, <1>6, <2>3, <2>4, <3>1, Zenon DEF Holds
  <2>5. ASSUME CountsExact, o.res # 0 PROVE CountsExact'
    <3>1. Counts(tbl, tbl', s, o.uses + 1) /\ Provisional(tbl, s)
      BY <2>1, <2>5, Zenon DEF Provisional
    <3> QED BY <1>2, <1>6, <2>5, <3>1, JoinCounts, Zenon
  <2> QED BY <2>2, <2>4, <2>5, Zenon
<1> QED BY <1>5, <1>6, Zenon

(* Only d's entry changes, and a request that returns holds nothing.       *)
LEMMA IdleFacts == Idle.phase = "idle" /\ ~Holding(Idle)
BY DEF Idle, Holding

(* Claiming a provisional route counts one more holder.                    *)
LEMMA ClaimCounting ==
    ASSUME IInv, NEW d \in Requests, Claim(d)
    PROVE  Steady(tbl, tbl') /\ (CountsExact => CountsExact')
<1> DEFINE r == reqs[d]
           o == tbl.routes[r.s]
           t1 == ClaimRoute(tbl, r.s, r.t)
           u == [r EXCEPT !.phase = "choose", !.round = 0]
           v == [r EXCEPT !.phase = "claimed", !.round = 0,
                          !.node = o.node, !.res = o.res]
<1>1. r.phase = "looked" /\ ~Holding(r)
  BY DEF Claim, Holding
<1>2. r \in Req /\ r.s \in Sessions /\ TableConsistent(tbl)
  BY <1>1, RequestFacts
<1>3. CASE ~HasRoute(tbl, r.s)
  <2>1. Step(d, u) /\ tbl' = tbl
    BY <1>3, Zenon DEF Claim
  <2>2. u.phase = "choose"
    BY <1>2, Zenon DEF Req
  <2>3. Evolves(tbl, tbl')
    BY <1>2, <2>1, NothingDrops, DropsEvolve, Zenon
  <2>4. u.phase # "target" /\ ~Holding(u)
    BY <2>2 DEF Holding
  <2> HIDE DEF u, r
  <2> QED BY <1>1, <2>1, <2>3, <2>4, StepCounts, EvolvesSteady, Zenon DEF r
<1>4. CASE HasRoute(tbl, r.s)
  <2>1. \/ tbl' = ClearReservation(t1, r.s, o.node, o.res) /\ Step(d, Idle)
        \/ tbl' = t1 /\ Step(d, v)
    BY <1>4, Zenon DEF Claim, Return
  <2>2. v.phase = "claimed" /\ v.s = r.s /\ v.node = o.node /\ v.res = o.res
        /\ r.t \in Nat
    BY <1>2, Zenon DEF Req
  <2>3. Holds(v, r.s, o.res)
    BY <2>2, Zenon DEF Holds, Holding
  <2> HIDE DEF v
  <2> QED BY <1>1, <1>2, <1>4, <2>1, <2>2, <2>3, JoinedCounts, Zenon
<1> QED BY <1>3, <1>4, Zenon

(* Reserving a route counts its first holder.                              *)
LEMMA ReserveCounting ==
    ASSUME IInv, NEW d \in Requests, Reserve(d)
    PROVE  Steady(tbl, tbl') /\ (CountsExact => CountsExact')
<1> DEFINE r == reqs[d]
           mine == conns[r.conn].node
           t1 == ReserveRoute(tbl, r.s, mine, r.t)
           node == t1.routes[r.s].node
           res == t1.routes[r.s].res
           u == [r EXCEPT !.phase = "bound", !.node = node,
                          !.res = res, !.t = 0, !.round = 0]
           v == [r EXCEPT !.phase = "claimed", !.node = node,
                          !.res = res, !.conn = None]
<1>1. r.phase = "chosen" /\ ~Holding(r)
  BY DEF Reserve, Holding
<1>2. r \in Req /\ r.s \in Sessions /\ TableConsistent(tbl)
  BY <1>1, RequestFacts
<1>3. r.t \in Nat
  BY <1>2, Zenon DEF Req
<1>4. \/ /\ node # mine
         /\ tbl' = ClearReservation(t1, r.s, node, res) /\ Step(d, Idle)
      \/ tbl' = t1 /\ (Step(d, u) \/ Step(d, v))
  BY Zenon DEF Reserve, Return
<1>5. /\ Holds(u, r.s, res) /\ u.node = node
      /\ Holds(v, r.s, res) /\ v.node = node
  <2> HIDE DEF node, res
  <2>1. /\ u.phase = "bound" /\ u.s = r.s /\ u.res = res /\ u.node = node
        /\ v.phase = "claimed" /\ v.s = r.s /\ v.res = res /\ v.node = node
    BY <1>2, Zenon DEF Req
  <2> QED BY <2>1, Zenon DEF Holds, Holding
<1> HIDE DEF u, v
<1>6. CASE HasRoute(tbl, r.s)
  <2>1. t1 = ClaimRoute(tbl, r.s, r.t)
    BY <1>6, Zenon DEF ReserveRoute
  <2>2. PICK k : Counts(tbl, ClaimRoute(tbl, r.s, r.t), r.s, k)
    BY <1>2, <1>3, <1>6, ClaimCounts, Zenon
  <2>3. node = tbl.routes[r.s].node /\ res = tbl.routes[r.s].res
    <3> HIDE DEF t1
    <3> QED BY <2>1, <2>2, Zenon DEF Counts
  <2> HIDE DEF t1, node, res
  <2> QED BY <1>1, <1>2, <1>3, <1>4, <1>5, <1>6, <2>1, <2>3, JoinedCounts, Zenon
<1>7. CASE ~HasRoute(tbl, r.s)
  <2>1. /\ t1.seq = tbl.seq + 1 /\ t1.rows = tbl.rows
        /\ \A x \in Sessions : x # r.s => t1.routes[x] = tbl.routes[x]
        /\ node = mine /\ res = tbl.seq + 1 /\ t1.routes[r.s].uses = 1
    <3>1. t1 = ReserveRoute(tbl, r.s, mine, r.t)
      BY Zenon
    <3> HIDE DEF t1, r, mine
    <3> QED BY <1>2, <1>7, <3>1, ReserveFresh
  <2> HIDE DEF t1, r
  <2>2. tbl' = t1 /\ (Step(d, u) \/ Step(d, v))
    BY <1>4, <2>1, Zenon
  <2>3. Steady(tbl, tbl')
    <3>1. /\ tbl'.rows = tbl.rows
          /\ \A x \in Sessions : x # r.s => tbl'.routes[x] = tbl.routes[x]
      BY <2>1, <2>2, Zenon
    <3> QED BY <1>2, <1>7, <3>1, FreshSteady
  <2>4. reqs' = [reqs EXCEPT ![d] = reqs'[d]] /\ reqs'[d] \in {u, v}
    <3>1. reqs \in [Requests -> Req \cup {Idle}]
      BY Zenon DEF IInv, TypeOK
    <3> QED BY <2>2, <3>1, Zenon DEF Step
  <2>5. Holds(reqs'[d], r.s, tbl.seq + 1) /\ reqs'[d].node = t1.routes[r.s].node
    BY <1>5, <2>1, <2>4, Zenon
  <2>6. CountsExact => CountsExact'
    <3>1. /\ tbl'.seq = tbl.seq + 1
          /\ \A x \in Sessions : x # r.s => tbl'.routes[x] = tbl.routes[x]
          /\ tbl'.routes[r.s].res = tbl.seq + 1 /\ tbl'.routes[r.s].uses = 1
          /\ reqs'[d].node = tbl'.routes[r.s].node
      BY <2>1, <2>2, <2>5, Zenon DEF res
    <3> QED BY <1>1, <1>2, <1>7, <2>4, <2>5, <3>1, OpenCounts, Zenon DEF r
  <2> QED BY <2>3, <2>6, Zenon
<1> QED BY <1>6, <1>7, Zenon

-----------------------------------------------------------------------------
(* The other steps of a request.                                           *)

(* A request that holds nothing before and after, or holds the same.       *)
LEMMA PickCounting ==
    ASSUME IInv, CountsExact, NEW d \in Requests,
           \/ PickCancelled(d) \/ ChooseNone(d) \/ PickBound(d)
           \/ PickTarget(d)
           \/ \E prune \in BOOLEAN, okPrune, ok \in StoreOK :
                 LookUp(d, prune, okPrune, ok)
           \/ \E n \in Nodes : Choose(d, n)
    PROVE  CountsExact'
<1> DEFINE r == reqs[d]
<1>1. Evolves(tbl, tbl')
  BY PickEvolves, Zenon
<1>2. r \in Req /\ HolderShape(r)
  <2>1. r.phase # "idle"
    BY DEF PickCancelled, ChooseNone, PickBound, PickTarget, LookUp, Choose
  <2> QED BY <2>1, RequestFacts, Zenon DEF CountsExact
<1>3. ASSUME NEW upd, Step(d, upd), ~Holding(r), ~Holding(upd),
             upd.phase # "target"
      PROVE  CountsExact'
  BY <1>1, <1>3, StepCounts, Zenon
<1>4. CASE PickCancelled(d) \/ ChooseNone(d)
  <2>1. Step(d, Idle) /\ r.phase \in {"pick", "choose"}
    BY <1>4, Zenon DEF PickCancelled, ChooseNone, Return
  <2>2. ~Holding(r)
    BY <2>1 DEF Holding
  <2> QED BY <1>3, <2>1, <2>2, IdleFacts
<1>5. CASE PickBound(d)
  <2> DEFINE u == [r EXCEPT !.phase = "bound", !.conn = cur[r.node],
                            !.t = 0, !.round = 0]
  <2>1. r.phase = "claimed" /\ Step(d, u)
    BY <1>5, Zenon DEF PickBound
  <2>2. u.phase = "bound" /\ u.s = r.s /\ u.res = r.res /\ u.node = r.node
    BY <1>2, Zenon DEF Req
  <2>3. Holding(r) /\ Holding(u)
    BY <2>1, <2>2, Zenon DEF Holding
  <2> HIDE DEF u
  <2>4. u.phase # "target"
    BY <2>2
  <2> QED BY <1>1, <2>1, <2>2, <2>3, <2>4, StepCounts, Zenon DEF Holds
<1>6. CASE PickTarget(d)
  <2> DEFINE u == [r EXCEPT !.phase = "bound", !.conn = cur[r.node]]
  <2>1. r.phase = "target" /\ (Step(d, u) \/ Step(d, Idle))
    BY <1>6, Zenon DEF PickTarget, Return
  <2>2. u.phase = "bound" /\ u.res = r.res
    BY <1>2, Zenon DEF Req
  <2> HIDE DEF u
  <2>3. ~Holding(r) /\ u.phase # "target" /\ r.res = 0
    BY <1>2, <2>1, <2>2 DEF Holding, HolderShape
  <2>4. CASE Step(d, u)
    BY <1>1, <2>2, <2>3, <2>4, StepCounts, Zenon
  <2>5. CASE Step(d, Idle)
    BY <1>3, <2>3, <2>5, IdleFacts
  <2> QED BY <2>1, <2>4, <2>5, Zenon
<1>7. CASE \E prune \in BOOLEAN, okPrune, ok \in StoreOK :
              LookUp(d, prune, okPrune, ok)
  <2> DEFINE u == [r EXCEPT !.phase = "looked", !.t = now]
  <2>1. r.phase = "pick" /\ (Step(d, u) \/ Step(d, Idle))
    BY <1>7, Zenon DEF LookUp, Return
  <2>2. u.phase = "looked"
    BY <1>2, Zenon DEF Req
  <2> HIDE DEF u
  <2>3. ~Holding(r) /\ ~Holding(u) /\ u.phase # "target"
    BY <2>1, <2>2 DEF Holding
  <2> QED BY <1>3, <2>1, <2>3, IdleFacts
<1>8. CASE \E n \in Nodes : Choose(d, n)
  <2>1. PICK n \in Nodes : Choose(d, n)
    BY <1>8, Zenon
  <2> DEFINE u == [r EXCEPT !.phase = "chosen", !.conn = cur[n],
                            !.round = r.round + 1]
  <2>2. r.phase = "choose" /\ Step(d, u)
    BY <2>1, Zenon DEF Choose
  <2>3. u.phase = "chosen"
    BY <1>2, Zenon DEF Req
  <2> HIDE DEF u
  <2>4. ~Holding(r) /\ ~Holding(u) /\ u.phase # "target"
    BY <2>2, <2>3 DEF Holding
  <2> QED BY <1>3, <2>2, <2>4, Zenon
<1> QED BY <1>4, <1>5, <1>6, <1>7, <1>8, Zenon

(* The worker of a claimed route is gone: the request ends when its route  *)
(* was confirmed, and otherwise clears it, which drops a provisional one.  *)
LEMMA OfflineCounting ==
    ASSUME IInv, CountsExact, NEW d \in Requests,
           PickOffline(d) \/ \E ok \in StoreOK : ClearStale(d, ok)
    PROVE  CountsExact'
<1> DEFINE r == reqs[d]
<1>1. Evolves(tbl, tbl')
  BY PickEvolves, Zenon
<1>2. r.phase \in {"claimed", "stale"}
  BY Zenon DEF PickOffline, ClearStale
<1>3. Holding(r) /\ r.phase # "idle"
  BY <1>2 DEF Holding
<1>4. /\ r \in Req /\ HolderShape(r) /\ TableConsistent(tbl)
      /\ r.s \in Sessions
  BY <1>3, RequestFacts, Zenon DEF CountsExact
<1>5. CASE PickOffline(d)
  <2> DEFINE u == [r EXCEPT !.phase = "stale"]
  <2>1. (r.res = 0 /\ Step(d, Idle)) \/ Step(d, u)
    BY <1>5, Zenon DEF PickOffline, Return
  <2>2. u.phase = "stale" /\ u.s = r.s /\ u.res = r.res /\ u.node = r.node
    BY <1>4, Zenon DEF Req
  <2> HIDE DEF u
  <2>3. Holding(u) /\ u.phase # "target"
    BY <2>2 DEF Holding
  <2>4. CASE Step(d, u)
    BY <1>1, <1>3, <2>2, <2>3, <2>4, StepCounts, Zenon DEF Holds
  <2>5. CASE r.res = 0 /\ Step(d, Idle)
    <3>1. Idle.phase # "target"
      BY IdleFacts
    <3> QED BY <1>1, <2>5, <3>1, IdleFacts, StepCounts, Zenon DEF Provisional
  <2> QED BY <2>1, <2>4, <2>5, Zenon
<1>6. CASE \E ok \in StoreOK : ClearStale(d, ok)
  <2>1. PICK ok \in StoreOK : ClearStale(d, ok)
    BY <1>6, Zenon
  <2> DEFINE u == [r EXCEPT !.phase = "choose", !.node = None, !.res = 0]
  <2>2. /\ tbl' = ClearRoute(tbl, r.s, r.node, ok)
        /\ Step(d, Idle) \/ Step(d, u)
    BY <2>1, Zenon DEF ClearStale, Return
  <2>3. u.phase = "choose"
    BY <1>4, Zenon DEF Req
  <2> HIDE DEF u
  <2>4. ~Holding(u) /\ u.phase # "target" /\ Idle.phase # "target"
    BY <2>3, IdleFacts DEF Holding
  <2>5. ~(Provisional(tbl', r.s) /\ tbl'.routes[r.s].res = r.res)
    <3> SUFFICES ASSUME Provisional(tbl', r.s), tbl'.routes[r.s].res = r.res
                 PROVE  FALSE
      BY Zenon
    <3>1. Provisional(tbl, r.s) /\ tbl.routes[r.s].res = r.res
      BY <1>1, <1>4, Zenon DEF Evolves, Provisional, RoutedTo
    <3>2. RoutedTo(tbl, r.s, r.node)
      BY <1>3, <1>4, <3>1, Zenon DEF HolderShape, RoutedTo, Provisional
    <3>3. ~(tbl.routes[r.s].lease > 0)
      <4>1. HasRoute(tbl, r.s) /\ tbl.routes[r.s].res # 0
        BY <3>1, Zenon DEF Provisional
      <4>2. RouteShape(tbl.routes[r.s], tbl.seq)
        BY <1>4, <4>1, RouteFacts, Zenon
      <4> QED BY <4>1, <4>2 DEF RouteShape
    <3>4. tbl' = DeleteRoutes(tbl, {r.s})
      BY <2>2, <3>2, <3>3, Zenon DEF ClearRoute, ClearFails
    <3>5. ~HasRoute(tbl', r.s)
      <4>1. tbl \in Table
        BY <1>4, Zenon DEF TableConsistent
      <4> QED BY <1>4, <3>4, <4>1 DEF DeleteRoutes, HasRoute, Table
    <3> QED BY <3>5, Zenon DEF Provisional
  <2>6. CASE Step(d, u)
    BY <1>1, <2>4, <2>5, <2>6, StepCounts, Zenon
  <2>7. CASE Step(d, Idle)
    BY <1>1, <2>4, <2>5, <2>7, IdleFacts, StepCounts, Zenon
  <2> QED BY <2>2, <2>6, <2>7, Zenon
<1> QED BY <1>5, <1>6, Zenon

(* The command is sent, and answered.                                      *)
LEMMA SendCounting ==
    ASSUME IInv, CountsExact, NEW d \in Requests, Send(d) \/ Answer(d)
    PROVE  CountsExact'
<1> DEFINE r == reqs[d]
           u == [r EXCEPT !.phase = "sent", !.tried = r.tried \cup {r.node},
                          !.left = r.left - 1]
           v == [r EXCEPT !.phase = "answered"]
<1>1. Evolves(tbl, tbl')
  BY AttemptEvolves, Zenon
<1>2. r.phase \in {"bound", "sent"} /\ (Step(d, u) \/ Step(d, v))
  BY Zenon DEF Send, Answer
<1>3. Holding(r) /\ r.phase # "idle"
  BY <1>2 DEF Holding
<1>4. r \in Req
  BY <1>3, RequestFacts, Zenon
<1>5. /\ u.phase = "sent" /\ u.s = r.s /\ u.res = r.res /\ u.node = r.node
      /\ v.phase = "answered" /\ v.s = r.s /\ v.res = r.res /\ v.node = r.node
  BY <1>4, Zenon DEF Req
<1> HIDE DEF u, v
<1>6. Holding(u) /\ u.phase # "target" /\ Holding(v) /\ v.phase # "target"
  BY <1>5 DEF Holding
<1>7. CASE Step(d, u)
  BY <1>1, <1>3, <1>5, <1>6, <1>7, StepCounts, Zenon DEF Holds
<1>8. CASE Step(d, v)
  BY <1>1, <1>3, <1>5, <1>6, <1>8, StepCounts, Zenon DEF Holds
<1> QED BY <1>2, <1>7, <1>8, Zenon

(* Whatever proves that a session may exist confirms its route; with a     *)
(* store that works and workers that answer with a lease, so does success. *)
LEMMA OutcomeCounting ==
    ASSUME "store" \notin Faults, 0 \notin Leases,
           IInv, CountsExact, NEW d \in Requests,
           \/ NoProof(d)
           \/ \E lease \in Leases, ok, okAfter \in StoreOK :
                 Success(d, lease, ok, okAfter)
           \/ \E ok \in StoreOK : NotFound(d, ok) /\ reqs[d].res = 0
    PROVE  CountsExact'
<1> DEFINE r == reqs[d]
<1>1. Evolves(tbl, tbl')
  BY AttemptEvolves, Zenon
<1>2. Holding(r) /\ Step(d, Idle)
  BY Zenon DEF NoProof, Success, NotFound, Holding, Return
<1>3. /\ HolderShape(r) /\ TableConsistent(tbl) /\ now \in Nat
      /\ r.s \in Sessions /\ r.node \in Nodes /\ r.res \in Nat
  BY <1>2, HoldingFacts, Zenon DEF CountsExact
<1>4. SUFFICES ASSUME Provisional(tbl', r.s), tbl'.routes[r.s].res = r.res
               PROVE  FALSE
  <2>1. Idle.phase # "target"
    BY IdleFacts
  <2> QED BY <1>1, <1>2, <2>1, IdleFacts, StepCounts, Zenon
<1>5. /\ Provisional(tbl, r.s) /\ tbl.routes[r.s].res = r.res
      /\ r.res # 0 /\ RoutedTo(tbl', r.s, r.node) /\ RoutedTo(tbl, r.s, r.node)
  <2>1. /\ Provisional(tbl, r.s) /\ tbl.routes[r.s].res = r.res /\ r.res # 0
        /\ tbl'.routes[r.s].node = tbl.routes[r.s].node
    BY <1>1, <1>3, <1>4, Zenon DEF Evolves, Provisional, RoutedTo
  <2>2. tbl.routes[r.s].node = r.node
    BY <1>2, <1>3, <2>1, Zenon DEF HolderShape
  <2> QED BY <1>4, <2>1, <2>2, Zenon DEF Provisional, RoutedTo
<1>6. tbl' # ConfirmRoute(tbl, r.s, r.node, r.res, now)
  <2>1. ~HoldsReservation(ConfirmRoute(tbl, r.s, r.node, r.res, now),
                          r.s, r.node, r.res)
    BY <1>3, ConfirmEvolves, Zenon
  <2>2. HoldsReservation(tbl', r.s, r.node, r.res)
    BY <1>4, <1>5, Zenon DEF HoldsReservation
  <2> QED BY <2>1, <2>2, Zenon
<1>7. CASE NoProof(d)
  BY <1>5, <1>6, <1>7, Zenon DEF NoProof
<1>8. CASE \E lease \in Leases, ok, okAfter \in StoreOK :
              Success(d, lease, ok, okAfter)
  <2>1. PICK lease \in Leases, ok \in StoreOK, okAfter \in StoreOK :
           Success(d, lease, ok, okAfter)
    BY <1>8, Zenon
  <2> DEFINE t1 == CommitRoute(tbl, r.s, r.node, r.res, lease, now)
  <2>2. lease \in Nat /\ lease > 0 /\ ok
    BY TerminalDispatchAssumption, SMT DEF StoreOK
  <2>3. OwnsRoute(tbl, r.s, r.node, r.res)
    BY <1>5, Zenon DEF OwnsRoute
  <2>4. ~UpsertConflict(tbl, r.s, r.node)
    <3>1. tbl.rows[r.s] = NoRow
      BY <1>3, <1>5, RouteFacts, Zenon DEF Provisional
    <3> QED BY <3>1, Zenon DEF UpsertConflict
  <2>5. tbl' = t1 \/ tbl' = SnapshotRoute(t1, r.s, now, okAfter)
    BY <1>6, <2>1, <2>2, <2>3, <2>4, Zenon DEF Success
  <2>6. ~Provisional(t1, r.s) /\ TableConsistent(t1)
    BY <1>3, <2>2, <2>3, CommitEvolves, CommitConsistent, Zenon
  <2> HIDE DEF t1
  <2>7. Drops(t1, tbl')
    BY <2>5, <2>6, NothingDrops, SnapshotDrops, Zenon DEF TableConsistent
  <2> QED BY <1>3, <1>4, <2>6, <2>7, Zenon DEF Drops, Provisional, HasRoute
<1>9. CASE \E ok \in StoreOK : NotFound(d, ok) /\ r.res = 0
  BY <1>5, <1>9, Zenon
<1> QED BY <1>7, <1>8, <1>9, Zenon

(* The steps that give a reservation up.                                   *)
LEMMA GiveUpCounting ==
    ASSUME IInv, NEW d \in Requests,
           \/ PickFull(d) \/ SendFails(d) \/ CapacityExceeded(d)
           \/ \E ok \in StoreOK : NotFound(d, ok) /\ reqs[d].res # 0
    PROVE  Steady(tbl, tbl') /\ (CountsExact => CountsExact')
<1> DEFINE r == reqs[d]
           u == [Idle EXCEPT !.phase = "pick", !.kind = r.kind, !.s = r.s,
                             !.tried = r.tried, !.left = r.left]
<1>1. /\ tbl' = ClearReservation(tbl, r.s, r.node, r.res)
      /\ Step(d, Idle) \/ Step(d, u)
  BY Zenon DEF PickFull, SendFails, CapacityExceeded, NotFound, Return
<1>2. Holding(r)
  BY Zenon DEF PickFull, SendFails, CapacityExceeded, NotFound, Holding
<1>3. u.phase = "pick"
  BY Zenon DEF Idle
<1> HIDE DEF u
<1>4. ~Holding(u) /\ u.phase # "target" /\ Idle.phase # "target"
  BY <1>3, IdleFacts DEF Holding
<1>5. reqs' = [reqs EXCEPT ![d] = reqs'[d]] /\ reqs'[d] \in {Idle, u}
  <2>1. reqs \in [Requests -> Req \cup {Idle}]
    BY Zenon DEF IInv, TypeOK
  <2> QED BY <1>1, <2>1, Zenon DEF Step
<1>6. TableConsistent(tbl) /\ r.s \in Sessions
  BY <1>2, HoldingFacts, Zenon
<1>7. Steady(tbl, tbl')
  BY <1>1, <1>6, ReleaseSteady, Zenon
<1>8. ~Holding(reqs'[d]) /\ reqs'[d].phase # "target"
  BY <1>4, <1>5, IdleFacts, Zenon
<1> QED BY <1>1, <1>2, <1>5, <1>7, <1>8, ReleaseCounts, Zenon

(* A request begins, or a deletion ends.                                   *)
LEMMA StartCounting ==
    ASSUME IInv, CountsExact, NEW d \in Requests,
           StartRequest(d) \/ \E ok \in StoreOK : FinishDelete(d, ok)
    PROVE  CountsExact'
<1>1. Evolves(tbl, tbl')
  BY StartEvolves, Zenon
<1>2. CASE reqs' = reqs
  BY <1>1, <1>2, QuietCounts, Zenon
<1>3. ASSUME NEW upd, Step(d, upd), ~Holding(reqs[d]), ~Holding(upd),
             upd.phase = "target" => upd.res = 0
      PROVE  CountsExact'
  BY <1>1, <1>3, StepCounts, Zenon
<1>4. CASE \E ok \in StoreOK : FinishDelete(d, ok)
  <2>1. reqs[d].phase = "delete" /\ Step(d, Idle)
    BY <1>4, Zenon DEF FinishDelete, Return
  <2>2. ~Holding(reqs[d]) /\ Idle.phase # "target"
    BY <2>1, IdleFacts DEF Holding
  <2> QED BY <1>3, <2>1, <2>2, IdleFacts, Zenon
<1>5. CASE \E kind \in {"exec", "resource"}, s \in Sessions,
              attempts \in 1..Cardinality(Nodes) :
              StartDispatch(d, kind, s, attempts)
  <2>1. PICK kind, s, attempts : StartDispatch(d, kind, s, attempts)
    BY <1>5, Zenon
  <2> DEFINE u == [Idle EXCEPT !.phase = "pick", !.kind = kind, !.s = s,
                               !.left = attempts]
  <2>2. reqs[d] = Idle /\ Step(d, u)
    BY <2>1, Zenon DEF StartDispatch
  <2>3. u.phase = "pick"
    BY Zenon DEF Idle
  <2> HIDE DEF u
  <2>4. ~Holding(u) /\ u.phase # "target"
    BY <2>3 DEF Holding
  <2> QED BY <1>3, <2>2, <2>4, IdleFacts, Zenon
<1>6. CASE \E s \in Sessions, ok \in StoreOK :
              StartRenew(d, s, ok) \/ StartDelete(d, s, ok)
  <2>1. PICK s, ok : StartRenew(d, s, ok) \/ StartDelete(d, s, ok)
    BY <1>6, Zenon
  <2> DEFINE n == tbl.routes[s].node
             u == [Idle EXCEPT !.phase = "target", !.kind = "renew", !.s = s,
                               !.node = n, !.left = 1]
             v == [Idle EXCEPT !.phase = "delete", !.kind = "delete", !.s = s,
                               !.node = n]
  <2>2. /\ reqs[d] = Idle
        /\ reqs' = reqs \/ Step(d, u) \/ Step(d, v)
    BY <2>1, Zenon DEF StartRenew, StartDelete
  <2>3. u.phase = "target" /\ u.res = 0 /\ v.phase = "delete"
    BY Zenon DEF Idle
  <2> HIDE DEF u, v
  <2>4. ~Holding(u) /\ ~Holding(v) /\ v.phase # "target"
    BY <2>3 DEF Holding
  <2> QED BY <1>2, <1>3, <2>2, <2>3, <2>4, IdleFacts, Zenon
<1> QED BY <1>4, <1>5, <1>6, Zenon DEF StartRequest

-----------------------------------------------------------------------------
(* Every step.                                                             *)

(* A restart routes a session only where it was routed, forgets every      *)
(* reservation and leaves the stored leases alone.                         *)
LEMMA RestartSteady ==
    ASSUME IInv, Restart
    PROVE  \A s \in Sessions :
              /\ HasRoute(tbl', s) => RoutedTo(tbl, s, tbl'.routes[s].node)
              /\ ~Provisional(tbl', s)
              /\ tbl.rows[s] # NoRow /\ tbl'.rows[s] # NoRow =>
                    tbl'.rows[s].lease >= tbl.rows[s].lease
<1>1. TableConsistent(tbl) /\ now \in Nat
  BY Zenon DEF IInv, TypeOK
<1> DEFINE u == RestoreTerminalSessionRoutes(tbl, now)
<1>2. \A s \in Sessions :
         /\ HasRoute(u, s) => RoutedTo(tbl, s, u.routes[s].node)
         /\ ~Provisional(u, s)
         /\ u.rows[s] \in {tbl.rows[s], NoRow}
  BY <1>1, RestoreSteady, Zenon
<1>3. tbl' = u
  BY Zenon DEF Restart
<1> HIDE DEF u
<1>4. \A s \in Sessions : tbl.rows[s] # NoRow =>
         tbl.rows[s].lease >= tbl.rows[s].lease
  BY <1>1, LeaseFacts
<1> QED BY <1>2, <1>3, <1>4, Zenon

(* No step but a restart rebinds a routed session or shortens a lease.     *)
LEMMA NextSteady ==
    ASSUME IInv, [Next]_vars, ~Restart
    PROVE  Steady(tbl, tbl')
<1>1. Evolves(tbl, tbl') => Steady(tbl, tbl')
  BY EvolvesSteady, Zenon
<1>2. CASE UNCHANGED vars
  BY <1>1, <1>2, NothingDrops, DropsEvolve, Zenon DEF vars, IInv
<1>3. ASSUME NEW d \in Requests, PickStep(d) PROVE Steady(tbl, tbl')
  BY <1>1, <1>3, PickEvolves, ClaimCounting, ReserveCounting, GiveUpCounting,
     Zenon DEF PickStep
<1>4. ASSUME NEW d \in Requests, AttemptStep(d) PROVE Steady(tbl, tbl')
  <2>1. CASE \E ok \in StoreOK : NotFound(d, ok)
    BY <1>1, <2>1, AttemptEvolves, GiveUpCounting, Zenon
  <2> QED BY <1>1, <1>4, <2>1, AttemptEvolves, GiveUpCounting, Zenon
             DEF AttemptStep
<1>5. ASSUME NEW d \in Requests, RequestStep(d) \/ StartRequest(d)
      PROVE  Steady(tbl, tbl')
  BY <1>1, <1>3, <1>4, <1>5, StartEvolves, Zenon DEF RequestStep
<1>6. ASSUME NEW c \in Conns, ConnectionStep(c) PROVE Steady(tbl, tbl')
  BY <1>1, <1>6, ConnectionEvolves, Zenon
<1>7. CASE ConsoleStep
  BY <1>1, <1>7, ConsoleEvolves, Zenon
<1> QED BY <1>2, <1>5, <1>6, <1>7, Zenon DEF Next

(* The counts stay exact while the store works and every lease is positive.*)
LEMMA NextCounts ==
    ASSUME "store" \notin Faults, 0 \notin Leases,
           IInv, CountsExact, [Next]_vars
    PROVE  CountsExact'
<1>1. CASE UNCHANGED vars
  <2>1. Evolves(tbl, tbl')
    BY <1>1, NothingDrops, DropsEvolve, Zenon DEF vars, IInv
  <2> QED BY <1>1, <2>1, QuietCounts, Zenon DEF vars
<1>2. ASSUME NEW d \in Requests, PickStep(d) PROVE CountsExact'
  BY <1>2, PickCounting, OfflineCounting, ClaimCounting, ReserveCounting,
     GiveUpCounting, Zenon DEF PickStep
<1>3. ASSUME NEW d \in Requests, AttemptStep(d) PROVE CountsExact'
  <2>1. CASE \E ok \in StoreOK : NotFound(d, ok)
    BY <2>1, OutcomeCounting, GiveUpCounting, Zenon
  <2>2. CASE \E lease \in Leases, ok, okAfter \in StoreOK :
                Success(d, lease, ok, okAfter)
    BY <2>2, OutcomeCounting, Zenon
  <2> QED BY <1>3, <2>1, <2>2, SendCounting, OutcomeCounting, GiveUpCounting,
             Zenon DEF AttemptStep
<1>4. ASSUME NEW d \in Requests, RequestStep(d) \/ StartRequest(d)
      PROVE  CountsExact'
  BY <1>2, <1>3, <1>4, StartCounting, Zenon DEF RequestStep
<1>5. ASSUME NEW c \in Conns, ConnectionStep(c) PROVE CountsExact'
  BY <1>5, ConnectionEvolves, QuietCounts, Zenon
<1>6. CASE ConsoleStep /\ ~Restart
  BY <1>6, ConsoleEvolves, QuietCounts, Zenon
<1>7. CASE Restart
  <2>1. \A s \in Sessions : ~Provisional(tbl', s)
    BY <1>7, RestartSteady, Zenon
  <2>2. \A d \in Requests : reqs'[d] = Idle
    BY <1>7, Zenon DEF Restart
  <2>3. Idle.phase # "target" /\ ~Holding(Idle)
    BY IdleFacts
  <2>4. \A d \in Requests : HolderShape(reqs[d])'
    BY <2>2, <2>3, Zenon DEF HolderShape
  <2>5. ProvisionalUsesExact'
    BY <2>1, UsesRead, Zenon
  <2>6. Countable'
    BY Zenon DEF CountsExact, Countable
  <2> QED BY <2>4, <2>5, <2>6, Zenon DEF CountsExact
<1> QED BY <1>1, <1>4, <1>5, <1>6, <1>7, Zenon DEF Next

-----------------------------------------------------------------------------
FS == INSTANCE FiniteSetTheorems

(* There are finitely many requests, so they can be counted one by one.    *)
LEMMA RequestsCountable == Countable
<1> SUFFICES ASSUME NEW S \in SUBSET Requests, NEW d \in Requests
             PROVE  /\ d \notin S => Cardinality(S \cup {d}) = Cardinality(S) + 1
                    /\ d \in S => Cardinality(S \ {d}) = Cardinality(S) - 1
                    /\ Cardinality({d}) = 1
  BY Zenon DEF Countable
<1>0. /\ \A T : FS!Cardinality(T) = Cardinality(T)
      /\ \A T : FS!IsFiniteSet(T) = IsFiniteSet(T)
  BY DEF Cardinality, FS!Cardinality, IsFiniteSet, FS!IsFiniteSet
<1>1. FS!IsFiniteSet(S)
  <2>1. FS!IsFiniteSet(Requests)
    BY <1>0, TerminalDispatchAssumption, Zenon
  <2> QED BY <2>1, FS!FS_Subset, Zenon
<1>2. FS!Cardinality(S \cup {d}) = IF d \in S THEN FS!Cardinality(S)
                                 ELSE FS!Cardinality(S) + 1
  BY <1>1, FS!FS_AddElement, Zenon
<1>3. FS!Cardinality(S \ {d}) = IF d \in S THEN FS!Cardinality(S) - 1
                              ELSE FS!Cardinality(S)
  BY <1>1, FS!FS_RemoveElement, Zenon
<1>4. FS!Cardinality({d}) = 1
  BY FS!FS_Singleton, Zenon
<1> QED BY <1>0, <1>2, <1>3, <1>4, Zenon

(* Initially nothing is routed and no request runs.                        *)
LEMMA InitCounts == Init => CountsExact
<1> SUFFICES ASSUME Init PROVE CountsExact
  OBVIOUS
<1>1. \A s \in Sessions : ~Provisional(tbl, s)
  BY Zenon DEF Init, EmptyTable, Provisional, HasRoute
<1>2. \A d \in Requests : reqs[d] = Idle
  BY Zenon DEF Init
<1>3. Idle.phase # "target" /\ ~Holding(Idle)
  BY IdleFacts
<1>4. \A d \in Requests : HolderShape(reqs[d])
  BY <1>2, <1>3, Zenon DEF HolderShape
<1> QED BY <1>1, <1>4, RequestsCountable, Zenon DEF CountsExact, ProvisionalUsesExact

(* A session that keeps a route keeps its worker, for any number of        *)
(* workers, sessions and dispatches, failed store calls, recoveries and    *)
(* restarts included: the dispatch that loses the race for a reservation   *)
(* (service_dispatch.go:193-225) follows the one that won it, and nothing  *)
(* rebinds a session in place.                                             *)
THEOREM SessionsStick == Spec => Sticky
<1> DEFINE Keeps == \A s \in Sessions :
                       HasRoute(tbl, s) /\ HasRoute(tbl', s) =>
                          tbl'.routes[s].node = tbl.routes[s].node
<1>1. IInv /\ [Next]_vars => [Keeps]_vars
  <2> SUFFICES ASSUME IInv, [Next]_vars PROVE Keeps
    OBVIOUS
  <2>1. CASE Restart
    BY <2>1, RestartSteady, Zenon DEF RoutedTo
  <2>2. CASE ~Restart
    BY <2>2, NextSteady, Zenon DEF Steady
  <2> QED BY <2>1, <2>2, Zenon
<1> QED BY <1>1, AlwaysIInv, PTL DEF Spec, Sticky

(* No step shortens a lease, in memory within one run of the console and   *)
(* in SQLite across runs: a late answer or a recovery only extends it      *)
(* (terminal_session_routes.go:244-323).                                   *)
THEOREM LeasesGrow == Spec => LeaseNeverShortened
<1> DEFINE Keeps == \A s \in Sessions :
             /\ HasRoute(tbl, s) /\ HasRoute(tbl', s) =>
                  Restart \/ tbl'.routes[s].lease >= tbl.routes[s].lease
             /\ tbl.rows[s] # NoRow /\ tbl'.rows[s] # NoRow =>
                  tbl'.rows[s].lease >= tbl.rows[s].lease
<1>1. IInv /\ [Next]_vars => [Keeps]_vars
  <2> SUFFICES ASSUME IInv, [Next]_vars PROVE Keeps
    OBVIOUS
  <2>1. CASE Restart
    BY <2>1, RestartSteady, Zenon
  <2>2. CASE ~Restart
    BY <2>2, NextSteady, Zenon DEF Steady
  <2> QED BY <2>1, <2>2, Zenon
<1> QED BY <1>1, AlwaysIInv, PTL DEF Spec, LeaseNeverShortened

(* While the store works and every confirmed result carries a lease, the   *)
(* count of a provisional route is the number of dispatches that hold its  *)
(* reservation: it is dropped when the last of them gives up and never     *)
(* under one that still runs (terminal_session_routes.go:163-242).         *)
THEOREM UsesCounted ==
    ASSUME "store" \notin Faults, 0 \notin Leases
    PROVE  Spec => []ProvisionalUsesExact
<1> DEFINE Counted == IInv /\ CountsExact
<1>1. Init => Counted
  BY InitIInv, InitCounts, Zenon
<1>2. Counted /\ [Next]_vars => Counted'
  BY NextIInv, NextCounts, Zenon
<1>3. Counted => ProvisionalUsesExact
  BY Zenon DEF CountsExact
<1> HIDE DEF Counted
<1> QED BY <1>1, <1>2, <1>3, PTL DEF Spec

=============================================================================
