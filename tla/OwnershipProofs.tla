--------------------------- MODULE OwnershipProofs ---------------------------
(***************************************************************************)
(* What Accounts and Ownership keep, for any accounts, secrets, workers,   *)
(* requests and session ids: a secret has its account, a just-in-time      *)
(* caller is itself, sessions end where the handlers say so, and a request *)
(* reaches the terminal sessions and the workers of its own account only.  *)
(***************************************************************************)
EXTENDS Ownership, Integers, TLAPS

Fields == {"pc", "who", "admin", "method", "arg", "value", "draw", "tries",
           "before", "answer"}

(* The session ids drawn so far: the deleted ones and those of the map.    *)
Drawn(map, gone) == gone \cup Present(map)

-----------------------------------------------------------------------------
(* The rows: every secret has its account, never the just-in-time one, and *)
(* a value of its own; names are unique; nobody knows a password of the    *)
(* just-in-time account; and before the first start there is nothing.      *)
SecretInv(tab, accts) ==
    /\ tab \in [SecretIds -> Secret \cup {None}]
    /\ \A i \in SecretIds : tab[i] # None =>
         /\ accts[tab[i].account] # None /\ tab[i].account # JitId
         /\ \A j \in SecretIds :
              tab[j] # None /\ tab[i].value = tab[j].value => i = j

NamesInv ==
    /\ accounts \in [Ids -> Account \cup {None}]
    /\ \A a, b \in Ids :
         accounts[a] # None /\ accounts[b] # None
            /\ accounts[a].name = accounts[b].name => a = b
    /\ accounts[JitId] # None => accounts[JitId].password = NoPassword
    /\ spent \subseteq RandomIds

HasAdmin == \E a \in Ids : accounts[a] # None /\ accounts[a].admin
StartInv ==
    HasAdmin \/ /\ ~started /\ \A q \in Requests : req[q].pc = "idle"
                /\ \A i \in SecretIds : keys[i] = None /\ tokens[i] = None

(* The session ids in use are an initial segment, hence createSession      *)
(* draws a new one; no session belongs to the just-in-time account.        *)
SessionInv ==
    /\ sessions \in [SessionIds -> SessionAccount \cup {None}]
    /\ ended \subseteq SessionIds
    /\ \E n \in 0..MaxSessions : Drawn(sessions, ended) = 1..n
    /\ \A s \in SessionIds : sessions[s] # None => sessions[s].account \in RandomIds

-----------------------------------------------------------------------------
(* What a request carries, by the place of its handler.                    *)
Cookie == {"login", "update", "drop", "renew", "keyName", "keyHash", "keyId",
           "key", "tokenName", "tokenHash", "tokenId", "token"}

RequestShape(r) ==
    /\ DOMAIN r = Fields /\ r.admin \in BOOLEAN /\ r.tries \in 0..(MaxTries - 1)
    /\ r.pc # "idle" => r.answer = None
    /\ r.pc \in Cookie \/ (r.pc = "open" /\ r.method = "cookie") => r.who \in RandomIds
    /\ r.pc \in {"open", "owner", "dispatch", "create", "forward", "keyed",
                "unprovision", "unlist"} =>
         r.who \in Ids
    /\ r.pc = "jit" => r.who = None
    /\ r.pc = "jitFound" => r.who = JitId
    /\ r.method = "dashboard-jit" => r.who \in {JitId, None}
    /\ r.pc \in {"insert", "clashId", "clashName"} => r.arg \in Names
    /\ r.pc \in {"insert", "clashId", "clashName", "update"} => r.value \in Passwords
    /\ r.pc \in {"keyName", "keyHash", "keyId", "key"} => r.arg \in Labels
    /\ r.pc \in {"tokenName", "tokenHash", "tokenId", "token"} =>
         r.arg \in Labels /\ r.value \in Values
    /\ r.pc = "owner" => r.arg \in ExternalIds \cup {None}
    /\ r.pc \in {"dispatch", "create"} =>
         /\ r.value = None =>
              /\ r.method \in Terminal /\ r.arg \in AllIds
              /\ r.draw = ScopeTerminalSessionID(r.who, r.arg)
         /\ r.method \in {"terminalResource", "readImage"} => r.arg \in ExternalIds
    /\ r.pc = "create" /\ r.value = None => ~IsComputerUseSessionID(r.arg)
    /\ r.pc = "forward" => r.method \in Terminal

(* The sessions ChangePassword and DeleteAccount are to end are the        *)
(* account's as long as they are there.                                    *)
Ending(r, map, gone) ==
    /\ r.before \subseteq Drawn(map, gone)
    /\ r.pc \in {"update", "drop"} =>
         \A s \in r.before : map[s] # None => map[s].account = r.who
    /\ r.pc = "revoke" =>
         \A s \in r.before : map[s] # None => map[s].account = r.arg
    /\ r.pc = "renew" => \A s \in r.before : map[s] = None

(* A worker that was checked is still the account's, deleted or not.       *)
Own(r, w, labels) == labels[w] = [owner |-> r.who, type |-> "sys"]
Targeting(r, labels) ==
    /\ r.pc \in {"dispatch", "create"} /\ r.value # None =>
         r.value \in WorkerIds /\ Own(r, r.value, labels)
    /\ r.pc \in {"unprovision", "unlist"} =>
         r.arg \in WorkerIds /\ (r.admin \/ Own(r, r.arg, labels))

RequestInv ==
    /\ req = [q \in Requests |-> req[q]]
    /\ \A q \in Requests : RequestShape(req[q])
    /\ \A q \in Requests : Ending(req[q], sessions, ended)
    /\ \A q \in Requests : Targeting(req[q], workers)

-----------------------------------------------------------------------------
WorkerInv ==
    /\ workers \in [WorkerIds -> Labelled \cup {None}]
    /\ retired \subseteq WorkerIds /\ \A w \in retired : workers[w] # None

BoxShape(b) ==
    /\ b.by \in Ids /\ b.ext \in AllIds /\ ~IsComputerUseSessionID(b.ext)
    /\ b.id = ScopeTerminalSessionID(b.by, b.ext)
BoxInv ==
    /\ \A b \in boxes : BoxShape(b)
    /\ \A b \in boxes : b.at \in WorkerIds /\ workers[b.at] # None
    /\ \A b, c \in boxes : b.id = c.id => b = c

Bounds == made \in 0..MaxRequests /\ restarts \in 0..MaxRestarts

(* Facts about counting that hold of the constants.                        *)
Countable ==
    /\ Cardinality({}) = 0
    /\ \A a \in Ids : Cardinality({a}) = 1
    /\ \A S \in SUBSET Ids : Cardinality(S) = 0 => S = {}
    /\ \A n \in Nat : Cardinality(1..n) = n

IInv ==
    /\ NamesInv /\ SecretInv(keys, accounts) /\ SecretInv(tokens, accounts) /\ StartInv
    /\ SessionInv /\ RequestInv /\ WorkerInv /\ BoxInv /\ Bounds

-----------------------------------------------------------------------------
(* A request's step: what it carries afterwards, and what it changed.      *)

(* A session is dropped or kept, and a new one gets a new id.              *)
SessionsEvolve ==
    \A s \in Drawn(sessions, ended) :
       s \in Drawn(sessions', ended') /\ sessions'[s] \in {sessions[s], None}

(* A worker keeps its labels, for no id is drawn twice.                    *)
WorkersEvolve ==
    \A w \in WorkerIds : workers'[w] = workers[w] \/ workers[w] = None

(* What the other requests carry stays true.                               *)
LEMMA RequestKept ==
    ASSUME RequestInv, WorkerInv, NEW q \in Requests, NEW u,
           req' = [req EXCEPT ![q] = u], RequestShape(u),
           Ending(u, sessions', ended'), Targeting(u, workers'),
           SessionsEvolve, WorkersEvolve
    PROVE  RequestInv'
<1>1. /\ DOMAIN req = Requests /\ req = [p \in Requests |-> req[p]]
      /\ \A p \in Requests : req'[p] = IF p = q THEN u ELSE req[p]
  BY Zenon DEF RequestInv
<1>2. req' = [p \in Requests |-> req'[p]]
  BY <1>1, Zenon
<1>3. \A p \in Requests : RequestShape(req'[p])
  BY <1>1, Zenon DEF RequestInv
<1>4. ASSUME NEW p \in Requests PROVE Ending(req'[p], sessions', ended')
  <2> DEFINE r == req[p]
  <2>1. Ending(r, sessions, ended)
    BY Zenon DEF RequestInv
  <2> HIDE DEF r
  <2>2. Ending(r, sessions', ended')
    BY <2>1, Zenon DEF Ending, SessionsEvolve
  <2> QED BY <1>1, <2>2, Zenon DEF r
<1>5. ASSUME NEW p \in Requests PROVE Targeting(req'[p], workers')
  <2> DEFINE r == req[p]
  <2>1. Targeting(r, workers) /\ RequestShape(r)
    BY Zenon DEF RequestInv
  <2> HIDE DEF r
  <2>2. ASSUME NEW w \in WorkerIds, Own(r, w, workers), r.who \in Ids
        PROVE  Own(r, w, workers')
    <3>1. [owner |-> r.who, type |-> "sys"] # None
      BY <2>2, OwnershipAssumption DEF Labelled
    <3> QED BY <2>2, <3>1, Zenon DEF Own, WorkersEvolve
  <2>3. r.pc \in {"dispatch", "create", "unprovision", "unlist"} => r.who \in Ids
    BY <2>1 DEF RequestShape
  <2>4. Targeting(r, workers')
    BY <2>1, <2>2, <2>3, Zenon DEF Targeting
  <2> QED BY <1>1, <2>4, Zenon DEF r
<1> QED BY <1>2, <1>3, <1>4, <1>5, Zenon DEF RequestInv

(* A request runs only once there is an administrator.                     *)
LEMMA Running ==
    ASSUME IInv, NEW q \in Requests, started \/ req[q].pc # "idle"
    PROVE  HasAdmin
BY Zenon DEF IInv, StartInv

(* A step of a request that keeps the rows, the sessions, the workers and  *)
(* the boxes in order keeps the invariant.                                 *)
LEMMA StepKeeps ==
    ASSUME IInv, NEW q \in Requests, NEW u,
           req' = [req EXCEPT ![q] = u], RequestShape(u),
           Ending(u, sessions', ended'), Targeting(u, workers'),
           SessionsEvolve, WorkersEvolve,
           NamesInv', SecretInv(keys', accounts'), SecretInv(tokens', accounts'),
           HasAdmin', SessionInv', WorkerInv', BoxInv', Bounds'
    PROVE  IInv'
<1>1. RequestInv'
  BY RequestKept, Zenon DEF IInv
<1>2. StartInv'
  BY Zenon DEF StartInv
<1>3. (SecretInv(keys, accounts))' /\ (SecretInv(tokens, accounts))'
  BY Zenon DEF SecretInv
<1> QED BY <1>1, <1>2, <1>3, Zenon DEF IInv

(* What a step leaves alone stays in order.                                *)
LEMMA SessionsStay ==
    ASSUME IInv, UNCHANGED <<sessions, ended>>
    PROVE  SessionsEvolve /\ SessionInv'
<1>1. SessionsEvolve
  BY Zenon DEF SessionsEvolve
<1>2. SessionInv'
  BY Zenon DEF IInv, SessionInv
<1> QED BY <1>1, <1>2

(* A step of accounts and sessions leaves workers and terminal sessions    *)
(* alone.                                                                  *)
LEMMA WorkersStay ==
    ASSUME IInv, UNCHANGED ownVars
    PROVE  WorkersEvolve /\ WorkerInv' /\ BoxInv'
<1>1. workers' = workers /\ retired' = retired /\ boxes' = boxes
  BY Zenon DEF ownVars
<1>2. WorkersEvolve
  BY <1>1, Zenon DEF WorkersEvolve
<1>3. WorkerInv' /\ BoxInv'
  BY <1>1, Zenon DEF IInv, WorkerInv, BoxInv, BoxShape
<1> QED BY <1>2, <1>3

(* A step that writes no row leaves what holds of the tables.              *)
LEMMA RowsStay ==
    ASSUME IInv, UNCHANGED rows
    PROVE  /\ NamesInv' /\ (HasAdmin => HasAdmin')
           /\ SecretInv(keys', accounts') /\ SecretInv(tokens', accounts')
<1>1. accounts' = accounts /\ keys' = keys /\ tokens' = tokens /\ spent' = spent
  BY Zenon DEF rows
<1>2. NamesInv' /\ (HasAdmin => HasAdmin')
  BY <1>1, Zenon DEF IInv, NamesInv, HasAdmin
<1> QED BY <1>1, <1>2, Zenon DEF IInv

(* The counters of a request's arrival and of its later steps.             *)
Paced(q) == Arrived(q) \/ \E pc : pc # "idle" /\ At(q, pc)
(* Requests are made while the console serves: there is an administrator.  *)
LEMMA PaceKeeps ==
    ASSUME IInv, NEW q \in Requests, Paced(q)
    PROVE  HasAdmin /\ Bounds'
<1>1. HasAdmin
  BY Running, Zenon DEF Paced, Arrived, Arrives, At
<1>2. made \in 0..MaxRequests /\ restarts \in 0..MaxRestarts
  BY Zenon DEF IInv, Bounds
<1>3. CASE Arrived(q)
  <2>1. made < MaxRequests /\ made' = made + 1 /\ restarts' = restarts
    BY <1>3, Zenon DEF Arrived, Arrives
  <2> QED BY <1>1, <1>2, <2>1, AccountsAssumption DEF Bounds
<1>4. CASE \E pc : At(q, pc)
  BY <1>1, <1>2, <1>4, Zenon DEF Bounds, At
<1> QED BY <1>3, <1>4, Zenon DEF Paced

(* A step that only reads, whatever the request carries on.                *)
LEMMA ReadKeeps ==
    ASSUME IInv, NEW q \in Requests, Paced(q), NEW u,
           req' = [req EXCEPT ![q] = u], RequestShape(u),
           Ending(u, sessions, ended), Targeting(u, workers),
           UNCHANGED <<rows, sessions, ended, ownVars>>
    PROVE  IInv'
<1>1. /\ UNCHANGED rows /\ UNCHANGED <<sessions, ended>> /\ UNCHANGED ownVars
      /\ workers' = workers /\ retired' = retired
  BY Zenon DEF ownVars
<1>2. HasAdmin /\ Bounds'
  BY PaceKeeps, Zenon
<1> QED BY <1>1, <1>2, RowsStay, SessionsStay, WorkersStay, StepKeeps, Zenon

(* A request that has answered, or has not been made, carries nothing.     *)
LEMMA Resting ==
    ASSUME NEW u, DOMAIN u = Fields, u.pc = "idle", u.admin = FALSE, u.tries = 0,
           u.method = None, u.who = None, u.before = {},
           NEW map, NEW gone, NEW labels
    PROVE  RequestShape(u) /\ Ending(u, map, gone) /\ Targeting(u, labels)
<1>1. RequestShape(u)
  <2>1. 0 \in 0..(MaxTries - 1)
    BY AccountsAssumption
  <2> QED BY <2>1, Zenon DEF RequestShape, Cookie
<1>2. Ending(u, map, gone) /\ Targeting(u, labels)
  BY Zenon DEF Ending, Targeting
<1> QED BY <1>1, <1>2, Zenon

(* An answered request carries nothing to be remembered.                   *)
LEMMA Answered ==
    ASSUME NEW a, NEW map, NEW gone, NEW labels
    PROVE  LET u == [Idle EXCEPT !.answer = a] IN
           RequestShape(u) /\ Ending(u, map, gone) /\ Targeting(u, labels)
<1> DEFINE u == [Idle EXCEPT !.answer = a]
<1>1. /\ DOMAIN u = Fields /\ u.pc = "idle" /\ u.admin = FALSE /\ u.tries = 0
      /\ u.method = None /\ u.who = None /\ u.before = {}
  BY Zenon DEF Idle, Fields
<1> HIDE DEF u
<1>2. RequestShape(u) /\ Ending(u, map, gone) /\ Targeting(u, labels)
  BY <1>1, Resting, Zenon
<1> QED BY <1>2, Zenon DEF u

-----------------------------------------------------------------------------
(* Authentication.                                                         *)

(* What the middleware leaves: a caller, and no more.                      *)
LEMMA Admitted ==
    ASSUME NEW u, DOMAIN u = Fields, u.who \in Ids, u.admin \in BOOLEAN,
           u.pc \in {"open", "owner", "keyed", "login"},
           u.pc = "login" \/ u.method = "cookie" => u.who \in RandomIds,
           u.method = "dashboard-jit" => u.who = JitId,
           u.tries = 0, u.before = {}, u.arg = None, u.answer = None,
           NEW map, NEW gone, NEW labels
    PROVE  RequestShape(u) /\ Ending(u, map, gone) /\ Targeting(u, labels)
<1>2. 0 \in 0..(MaxTries - 1)
  BY AccountsAssumption
<1>3. Ending(u, map, gone) /\ Targeting(u, labels)
  BY DEF Ending, Targeting
<1>4. ASSUME u.pc = "open" PROVE RequestShape(u)
  BY <1>2, <1>4, Zenon DEF RequestShape, Cookie
<1>5. ASSUME u.pc = "owner" PROVE RequestShape(u)
  BY <1>2, <1>5, Zenon DEF RequestShape, Cookie
<1>6. ASSUME u.pc = "keyed" PROVE RequestShape(u)
  BY <1>2, <1>6, Zenon DEF RequestShape, Cookie
<1>7. ASSUME u.pc = "login" PROVE RequestShape(u)
  BY <1>2, <1>7, Zenon DEF RequestShape, Cookie
<1> QED BY <1>3, <1>4, <1>5, <1>6, <1>7, Zenon

(* The records that Login, the cookie, an API key, a trusted token and a   *)
(* just-in-time token lead to.                                             *)
Admission(pc, who, admin, method) ==
    {[Idle EXCEPT !.pc = pc, !.who = who],
     [Idle EXCEPT !.pc = pc, !.who = who, !.admin = admin],
     [Idle EXCEPT !.pc = pc, !.who = who, !.admin = admin, !.method = method]}
(* The fields of a request that was just let in.                           *)
LEMMA IdleRead ==
    ASSUME NEW pc, NEW who, NEW admin \in BOOLEAN, NEW method, NEW u,
           u \in Admission(pc, who, admin, method)
    PROVE  /\ DOMAIN u = Fields /\ u.pc = pc /\ u.who = who
           /\ u.admin \in BOOLEAN /\ u.method \in {None, method}
           /\ u.tries = 0 /\ u.before = {} /\ u.arg = None /\ u.answer = None
<1> DEFINE a == [Idle EXCEPT !.pc = pc, !.who = who]
           b == [Idle EXCEPT !.pc = pc, !.who = who, !.admin = admin]
           c == [Idle EXCEPT !.pc = pc, !.who = who, !.admin = admin,
                             !.method = method]
           Read(v) == /\ DOMAIN v = Fields /\ v.pc = pc /\ v.who = who
                      /\ v.admin \in BOOLEAN /\ v.method \in {None, method}
                      /\ v.tries = 0 /\ v.before = {} /\ v.arg = None
                      /\ v.answer = None
<1>1. Read(a)
  BY Zenon DEF Idle, Fields
<1>2. Read(b)
  BY Zenon DEF Idle, Fields
<1>3. Read(c)
  BY Zenon DEF Idle, Fields
<1> QED BY <1>1, <1>2, <1>3, Zenon DEF Admission

(* What the rows and the sessions hold.                                    *)
LEMMA RowFacts ==
    ASSUME IInv
    PROVE  /\ \A a \in Ids : accounts[a] # None =>
                accounts[a].admin \in BOOLEAN /\ accounts[a].name \in Names
           /\ \A k \in SecretIds : keys[k] # None => keys[k].account \in RandomIds
           /\ \A k \in SecretIds : tokens[k] # None => tokens[k].account \in RandomIds
           /\ \A s \in SessionIds : sessions[s] # None =>
                sessions[s].account \in RandomIds /\ sessions[s].admin \in BOOLEAN
           /\ RandomIds \subseteq Ids /\ JitId \in Ids /\ JitId \notin RandomIds
           /\ DOMAIN accounts = Ids /\ DOMAIN keys = SecretIds
           /\ DOMAIN tokens = SecretIds /\ DOMAIN sessions = SessionIds
<1>1. RandomIds \subseteq Ids /\ JitId \in Ids /\ JitId \notin RandomIds
  BY AccountsAssumption, Zenon DEF Ids
<1>2. /\ accounts \in [Ids -> Account \cup {None}]
      /\ sessions \in [SessionIds -> SessionAccount \cup {None}]
      /\ keys \in [SecretIds -> Secret \cup {None}]
      /\ tokens \in [SecretIds -> Secret \cup {None}]
  BY Zenon DEF IInv, NamesInv, SecretInv, SessionInv
<1>3. \A a \in Ids : accounts[a] # None =>
         accounts[a].admin \in BOOLEAN /\ accounts[a].name \in Names
  BY <1>2, Zenon DEF Account
<1>4. /\ \A k \in SecretIds : keys[k] # None => keys[k].account \in RandomIds
      /\ \A k \in SecretIds : tokens[k] # None => tokens[k].account \in RandomIds
  BY <1>2, Zenon DEF IInv, SecretInv, Secret, Ids
<1>5. \A s \in SessionIds : sessions[s] # None =>
         sessions[s].account \in RandomIds /\ sessions[s].admin \in BOOLEAN
  BY <1>2, Zenon DEF IInv, SessionInv, SessionAccount
<1> QED BY <1>1, <1>2, <1>3, <1>4, <1>5, Zenon

(* A request that answers and changes nothing.                             *)
LEMMA AnswerKeeps ==
    ASSUME IInv, NEW q \in Requests, Paced(q), NEW a, Answer(q, a),
           UNCHANGED <<rows, sessions, ended, ownVars>>
    PROVE  IInv'
<1> DEFINE u == [Idle EXCEPT !.answer = a]
<1>1. req' = [req EXCEPT ![q] = u]
  BY Zenon DEF Answer, Become
<1>2. /\ RequestShape(u) /\ Ending(u, sessions, ended)
      /\ Targeting(u, workers)
  BY Answered, Zenon
<1> HIDE DEF u
<1> QED BY <1>1, <1>2, ReadKeeps, Zenon

(* The middleware: a caller is let in as the account its credential is of, *)
(* and only the login and the cookie, which are never the just-in-time     *)
(* account's, lead to what needs a password or a session.                  *)
LEMMA AdmissionKeeps ==
    ASSUME IInv, NEW q \in Requests, Paced(q), NEW u,
           req' = [req EXCEPT ![q] = u],
           NEW pc \in {"open", "owner", "keyed", "login"}, NEW who \in Ids,
           NEW admin \in BOOLEAN, NEW method,
           u \in Admission(pc, who, admin, method),
           pc = "login" \/ method = "cookie" => who \in RandomIds,
           method = "dashboard-jit" => who = JitId,
           UNCHANGED <<rows, sessions, ended, ownVars>>
    PROVE  IInv'
<1>1. \A x \in Admission(pc, who, admin, method) :
         /\ DOMAIN x = Fields /\ x.pc = pc /\ x.who = who
         /\ x.admin \in BOOLEAN /\ x.method \in {None, method}
         /\ x.tries = 0 /\ x.before = {} /\ x.arg = None /\ x.answer = None
  BY IdleRead
<1>2. /\ DOMAIN u = Fields /\ u.pc = pc /\ u.who = who
      /\ u.admin \in BOOLEAN /\ u.method \in {None, method}
      /\ u.tries = 0 /\ u.before = {} /\ u.arg = None /\ u.answer = None
  BY <1>1, Zenon
<1>3. /\ u.pc = "login" \/ u.method = "cookie" => u.who \in RandomIds
      /\ u.method = "dashboard-jit" => u.who = JitId
  BY <1>2, AccountsAssumption, Zenon
<1>4. /\ RequestShape(u) /\ Ending(u, sessions, ended)
      /\ Targeting(u, workers)
  BY <1>2, <1>3, Admitted, Zenon
<1> QED BY <1>4, ReadKeeps, Zenon

(* Login up to the verification of the password.                           *)
LEMMA LoginKeeps ==
    ASSUME IInv, NEW q \in Requests, UNCHANGED ownVars, Login(q)
    PROVE  IInv'
<1>1. Paced(q) /\ UNCHANGED <<rows, sessions, ended, ownVars>>
  BY Zenon DEF Login, Paced
<1>2. PICK n \in Names, p \in Passwords :
         \/ Answer(q, "unauthorized")
         \/ \E a \in GetAccountByUsernameKey(n) :
              /\ VerifyPassword(accounts[a], p)
              /\ Become(q, [Idle EXCEPT !.pc = "login", !.who = a,
                                        !.admin = accounts[a].admin])
  BY Zenon DEF Login
<1>3. CASE Answer(q, "unauthorized")
  BY <1>1, <1>3, AnswerKeeps, Zenon
<1>4. ASSUME NEW a \in GetAccountByUsernameKey(n), VerifyPassword(accounts[a], p),
             Become(q, [Idle EXCEPT !.pc = "login", !.who = a,
                                    !.admin = accounts[a].admin])
      PROVE  IInv'
  <2> DEFINE u == [Idle EXCEPT !.pc = "login", !.who = a,
                               !.admin = accounts[a].admin]
  <2>1. a \in Ids /\ accounts[a] # None /\ accounts[a].admin \in BOOLEAN
    BY <1>4, RowFacts, Zenon DEF GetAccountByUsernameKey, Present
  <2>2. a \in RandomIds
    BY <1>4, <2>1, Zenon DEF VerifyPassword, IInv, NamesInv, Ids
  <2>3. u \in Admission("login", a, accounts[a].admin, None)
    BY Zenon DEF Admission
  <2>4. req' = [req EXCEPT ![q] = u]
    BY <1>4, Zenon DEF Become
  <2> HIDE DEF u
  <2> QED BY <1>1, <2>1, <2>2, <2>3, <2>4, AccountsAssumption, AdmissionKeeps, Zenon
<1> QED BY <1>2, <1>3, <1>4, Zenon

(* An API key or a trusted token found by its hash names a registered      *)
(* account.                                                                *)
LEMMA KeyAuthKeeps ==
    ASSUME IInv, NEW q \in Requests, UNCHANGED ownVars,
           LookupAPIKey(q) \/ RequireToken(q)
    PROVE  IInv'
<1>1. Paced(q) /\ UNCHANGED <<rows, sessions, ended, ownVars>>
  BY Zenon DEF LookupAPIKey, RequireToken, Paced
<1>2. \/ Answer(q, "unauthorized")
      \/ \E k \in Present(keys) :
            Become(q, [Idle EXCEPT !.pc = "keyed", !.who = keys[k].account])
      \/ \E k \in Present(tokens) :
            Become(q, [Idle EXCEPT !.pc = "owner", !.who = tokens[k].account])
  BY Zenon DEF LookupAPIKey, RequireToken, GetAPIKeyByHash,
               GetTrustedTokenByHash, Owned
<1>3. CASE Answer(q, "unauthorized")
  BY <1>1, <1>3, AnswerKeeps, Zenon
<1>4. ASSUME NEW pc \in {"keyed", "owner"}, NEW who \in Ids,
             Become(q, [Idle EXCEPT !.pc = pc, !.who = who])
      PROVE  IInv'
  <2> DEFINE u == [Idle EXCEPT !.pc = pc, !.who = who]
  <2>1. u \in Admission(pc, who, FALSE, None) /\ FALSE \in BOOLEAN
    BY Zenon DEF Admission
  <2>2. req' = [req EXCEPT ![q] = u]
    BY <1>4, Zenon DEF Become
  <2>3. pc \in {"open", "owner", "keyed", "login"} /\ pc # "login"
    BY <1>4
  <2> HIDE DEF u
  <2> QED BY <1>1, <2>1, <2>2, <2>3, AccountsAssumption, AdmissionKeeps, Zenon
<1>5. /\ \A k \in Present(keys) : keys[k].account \in Ids
      /\ \A k \in Present(tokens) : tokens[k].account \in Ids
  BY RowFacts, Zenon DEF Present
<1> QED BY <1>2, <1>3, <1>4, <1>5, Zenon

(* The second query of RequireAuth.                                        *)
LEMMA RequireAuthKeeps ==
    ASSUME IInv, NEW q \in Requests, UNCHANGED ownVars, RequireAuth(q)
    PROVE  IInv'
<1> DEFINE r == req[q]
<1>1. At(q, "keyed") /\ UNCHANGED <<rows, sessions, ended, ownVars>>
  BY Zenon DEF RequireAuth
<1>2. Paced(q) /\ r.pc = "keyed"
  BY <1>1 DEF Paced, At
<1>3. r.who \in Ids
  BY <1>2 DEF IInv, RequestInv, RequestShape
<1>4. CASE Answer(q, "unauthorized")
  BY <1>1, <1>2, <1>4, AnswerKeeps, Zenon
<1>5. CASE /\ accounts[r.who] # None
           /\ Authenticated(q, r.who, accounts[r.who].admin, "api-key")
  <2> DEFINE u == [Idle EXCEPT !.pc = "open", !.who = r.who,
                     !.admin = accounts[r.who].admin, !.method = "api-key"]
  <2>1. accounts[r.who].admin \in BOOLEAN
    BY <1>3, <1>5, RowFacts, Zenon
  <2>2. u \in Admission("open", r.who, accounts[r.who].admin, "api-key")
    BY Zenon DEF Admission
  <2>3. req' = [req EXCEPT ![q] = u]
    BY <1>5, Zenon DEF Authenticated, Become
  <2>4. /\ "open" \in {"open", "owner", "keyed", "login"}
        /\ "open" = "login" \/ "api-key" = "cookie" => r.who \in RandomIds
        /\ "api-key" = "dashboard-jit" => r.who = JitId
    OBVIOUS
  <2> HIDE DEF u, r
  <2> QED BY <1>1, <1>2, <1>3, <2>1, <2>2, <2>3, <2>4, AdmissionKeeps, Zenon
<1> QED BY <1>4, <1>5, Zenon DEF RequireAuth, GetAccountByID

(* A request that waits for the just-in-time account, or has it.           *)
LEMMA JitShape ==
    ASSUME NEW u, DOMAIN u = Fields, u.admin \in BOOLEAN, u.answer = None,
           \/ u.pc = "jit" /\ u.who = None
           \/ u.pc = "jitFound" /\ u.who = JitId,
           u.tries \in 0..(MaxTries - 1),
           NEW map, NEW gone, u.before \subseteq Drawn(map, gone),
           NEW labels
    PROVE  RequestShape(u) /\ Ending(u, map, gone) /\ Targeting(u, labels)
<1>1. ASSUME u.pc = "jit", u.who = None PROVE RequestShape(u)
  BY <1>1, Zenon DEF RequestShape, Cookie
<1>2. ASSUME u.pc = "jitFound", u.who = JitId PROVE RequestShape(u)
  BY <1>2, Zenon DEF RequestShape, Cookie
<1>3. Ending(u, map, gone) /\ Targeting(u, labels)
  BY DEF Ending, Targeting
<1> QED BY <1>1, <1>2, <1>3, Zenon

(* A verified JIT token, with its account there or not.                    *)
LEMMA VerifyJITKeeps ==
    ASSUME IInv, NEW q \in Requests, UNCHANGED ownVars, VerifyJIT(q)
    PROVE  IInv'
<1>1. Paced(q) /\ UNCHANGED <<rows, sessions, ended, ownVars>>
  BY Zenon DEF VerifyJIT, Paced
<1>2. PICK method \in {"jit", "dashboard-jit"} :
         req' = [req EXCEPT ![q] =
                   [Idle EXCEPT !.method = method,
                                !.pc = IF GetAccountByID(JitId) = None
                                       THEN "jit" ELSE "jitFound",
                                !.who = IF GetAccountByID(JitId) = None
                                        THEN None ELSE JitId]]
  BY Zenon DEF VerifyJIT, Become
<1> DEFINE u == [Idle EXCEPT !.method = method,
                             !.pc = IF GetAccountByID(JitId) = None
                                    THEN "jit" ELSE "jitFound",
                             !.who = IF GetAccountByID(JitId) = None
                                     THEN None ELSE JitId]
<1>3. /\ DOMAIN u = Fields /\ u.admin = FALSE /\ u.answer = None /\ u.tries = 0
      /\ u.before = {}
      /\ u.pc = IF GetAccountByID(JitId) = None THEN "jit" ELSE "jitFound"
      /\ u.who = IF GetAccountByID(JitId) = None THEN None ELSE JitId
  BY Zenon DEF Idle, Fields
<1>4. req' = [req EXCEPT ![q] = u]
  BY <1>2, Zenon
<1> HIDE DEF u
<1>5. 0 \in 0..(MaxTries - 1) /\ {} \subseteq Drawn(sessions, ended)
  BY AccountsAssumption
<1>6. /\ RequestShape(u) /\ Ending(u, sessions, ended)
      /\ Targeting(u, workers)
  BY <1>3, <1>5, JitShape, Zenon
<1> QED BY <1>1, <1>4, <1>6, ReadKeeps, Zenon

(* A new account: its id and its name were free.                           *)
LEMMA InsertAccountKeeps ==
    ASSUME IInv, NEW a \in Ids, NEW row \in Account,
           ~AccountConflict(a, row.name), InsertAccount(a, row),
           a = JitId => row.password = NoPassword,
           UNCHANGED <<keys, tokens, spent>>
    PROVE  /\ NamesInv' /\ (HasAdmin => HasAdmin')
           /\ SecretInv(keys', accounts') /\ SecretInv(tokens', accounts')
<1>1. /\ accounts \in [Ids -> Account \cup {None}] /\ DOMAIN accounts = Ids
      /\ row # None
  BY AccountsAssumption, Zenon DEF IInv, NamesInv
<1>2. /\ accounts' = [accounts EXCEPT ![a] = row]
      /\ accounts[a] = None
      /\ \A b \in Ids : accounts[b] # None => accounts[b].name # row.name
  BY <1>1, Zenon DEF InsertAccount, AccountConflict, GetAccountByUsernameKey, Present
<1>3. /\ accounts' \in [Ids -> Account \cup {None}]
      /\ \A b \in Ids : accounts'[b] = IF b = a THEN row ELSE accounts[b]
  BY <1>1, <1>2, Zenon
<1>4. JitId \in Ids
  BY Zenon DEF Ids
<1>5. NamesInv'
  BY <1>2, <1>3, <1>4, ZenonT(30) DEF IInv, NamesInv
<1>6. HasAdmin => HasAdmin'
  BY <1>2, <1>3, Zenon DEF HasAdmin
<1>7. \A tab : SecretInv(tab, accounts) => SecretInv(tab, accounts')
  <2> SUFFICES ASSUME NEW tab, SecretInv(tab, accounts)
               PROVE  SecretInv(tab, accounts')
    BY Zenon
  <2>1. \A i \in SecretIds : tab[i] # None => tab[i].account \in Ids
    BY Zenon DEF SecretInv, Secret
  <2> QED BY <1>1, <1>3, <2>1, Zenon DEF SecretInv
<1> QED BY <1>5, <1>6, <1>7, Zenon DEF IInv

(* A step that changes rows, and keeps them in order.                      *)
LEMMA RowStepKeeps ==
    ASSUME IInv, NEW q \in Requests, Paced(q), NEW u,
           req' = [req EXCEPT ![q] = u], RequestShape(u),
           Ending(u, sessions, ended), Targeting(u, workers),
           NamesInv', HasAdmin => HasAdmin',
           SecretInv(keys', accounts'), SecretInv(tokens', accounts'),
           UNCHANGED <<sessions, ended, ownVars>>
    PROVE  IInv'
<1>1. /\ UNCHANGED <<sessions, ended>> /\ UNCHANGED ownVars
      /\ workers' = workers /\ retired' = retired
  BY Zenon DEF ownVars
<1>2. HasAdmin /\ Bounds'
  BY PaceKeeps, Zenon
<1> QED BY <1>1, <1>2, SessionsStay, WorkersStay, StepKeeps, Zenon

(* The facts about the request at hand.                                    *)
LEMMA Carried ==
    ASSUME IInv, NEW q \in Requests
    PROVE  /\ RequestShape(req[q]) /\ Ending(req[q], sessions, ended)
           /\ Targeting(req[q], workers)
           /\ DOMAIN req[q] = Fields /\ req[q].admin \in BOOLEAN
           /\ req[q].tries \in 0..(MaxTries - 1)
           /\ req[q].before \subseteq Drawn(sessions, ended)
BY Zenon DEF IInv, RequestInv, RequestShape, Ending

(* ensureJITAccount finds the account, makes it or refuses the token.      *)
LEMMA EnsureJITKeeps ==
    ASSUME IInv, NEW q \in Requests, UNCHANGED ownVars, EnsureJITAccount(q)
    PROVE  IInv'
<1> DEFINE r == req[q]
           jit == [name |-> JitName, password |-> NoPassword, admin |-> FALSE]
           u == [r EXCEPT !.pc = "jitFound", !.who = JitId]
<1>1. /\ At(q, "jit")
      /\ UNCHANGED <<keys, tokens, spent>>
      /\ UNCHANGED <<sessions, ended, ownVars>>
  BY Zenon DEF EnsureJITAccount
<1>2. Paced(q) /\ r.pc = "jit"
  BY <1>1 DEF Paced, At
<1>3. r.answer = None
  BY <1>2, Carried DEF RequestShape
<1>4. /\ DOMAIN u = Fields /\ u.pc = "jitFound" /\ u.who = JitId
      /\ u.admin = r.admin /\ u.answer = None /\ u.tries = r.tries
      /\ u.before = r.before
  BY <1>3, Carried, Zenon DEF Fields
<1> HIDE DEF u
<1>5. /\ RequestShape(u) /\ Ending(u, sessions, ended)
      /\ Targeting(u, workers)
  BY <1>4, Carried, JitShape, Zenon
<1>6. \/ /\ UNCHANGED rows
         /\ req' = [req EXCEPT ![q] = u] \/ Answer(q, "unauthorized")
      \/ /\ ~AccountConflict(JitId, JitName) /\ InsertAccount(JitId, jit)
         /\ req' = [req EXCEPT ![q] = u]
  BY Zenon DEF EnsureJITAccount, Become, rows, u
<1>7. CASE UNCHANGED rows /\ Answer(q, "unauthorized")
  BY <1>1, <1>2, <1>7, AnswerKeeps, Zenon
<1>8. CASE UNCHANGED rows /\ req' = [req EXCEPT ![q] = u]
  BY <1>1, <1>2, <1>5, <1>8, ReadKeeps, Zenon
<1>9. CASE /\ ~AccountConflict(JitId, JitName) /\ InsertAccount(JitId, jit)
           /\ req' = [req EXCEPT ![q] = u]
  <2>1. /\ jit \in Account /\ jit.name = JitName /\ jit.password = NoPassword
        /\ JitId \in Ids
    BY AccountsAssumption, Zenon DEF Account, Ids
  <2> HIDE DEF jit
  <2>2. /\ NamesInv' /\ (HasAdmin => HasAdmin')
        /\ SecretInv(keys', accounts') /\ SecretInv(tokens', accounts')
    BY <1>1, <1>9, <2>1, InsertAccountKeeps, Zenon
  <2> QED BY <1>1, <1>2, <1>5, <1>9, <2>2, RowStepKeeps, Zenon
<1> QED BY <1>6, <1>7, <1>8, <1>9, Zenon

(* The request goes on as the JIT account.                                 *)
LEMMA AdmitJITKeeps ==
    ASSUME IInv, NEW q \in Requests, UNCHANGED ownVars, AdmitJIT(q)
    PROVE  IInv'
<1> DEFINE r == req[q]
           u == [Idle EXCEPT !.pc = "owner", !.who = r.who]
           v == [Idle EXCEPT !.pc = "open", !.who = r.who, !.admin = FALSE,
                             !.method = "dashboard-jit"]
<1>1. At(q, "jitFound") /\ UNCHANGED <<rows, sessions, ended, ownVars>>
  BY Zenon DEF AdmitJIT
<1>2. Paced(q) /\ r.pc = "jitFound"
  BY <1>1 DEF Paced, At
<1>3. r.who = JitId
  BY <1>2, Carried DEF RequestShape
<1>4. req' = [req EXCEPT ![q] = u] \/ req' = [req EXCEPT ![q] = v]
  BY Zenon DEF AdmitJIT, Owned, Authenticated, Become
<1>5. /\ u \in Admission("owner", r.who, FALSE, None)
      /\ v \in Admission("open", r.who, FALSE, "dashboard-jit")
  BY Zenon DEF Admission
<1>6. /\ "owner" \in {"open", "owner", "keyed", "login"} /\ "owner" # "login"
      /\ "open" \in {"open", "owner", "keyed", "login"} /\ "open" # "login"
      /\ "dashboard-jit" # "cookie" /\ FALSE \in BOOLEAN
  OBVIOUS
<1>7. JitId \in Ids /\ None # "cookie" /\ None # "dashboard-jit"
  BY AccountsAssumption, Zenon DEF Ids
<1> HIDE DEF u, v, r
<1>8. CASE req' = [req EXCEPT ![q] = u]
  BY <1>1, <1>2, <1>3, <1>5, <1>6, <1>7, <1>8, AdmissionKeeps, Zenon
<1>9. CASE req' = [req EXCEPT ![q] = v]
  BY <1>1, <1>2, <1>3, <1>5, <1>6, <1>7, <1>9, AdmissionKeeps, Zenon
<1> QED BY <1>4, <1>8, <1>9, Zenon

(* A refusal, or a request that only reads.                                *)
LEMMA ReadsKeeps ==
    ASSUME IInv, NEW q \in Requests, UNCHANGED ownVars, Reads(q)
    PROVE  IInv'
<1>1. Paced(q)
  BY DEF Reads, Paced, At
<1> QED BY <1>1, AnswerKeeps, Zenon DEF Reads

-----------------------------------------------------------------------------
(* The session map.                                                        *)

(* Sessions that are dropped stay drawn.                                   *)
LEMMA DropEvolves ==
    ASSUME IInv, NEW S, S \subseteq Present(sessions), Drop(S)
    PROVE  /\ SessionsEvolve /\ SessionInv'
           /\ \A s \in S : sessions'[s] = None
           /\ Drawn(sessions', ended') = Drawn(sessions, ended)
<1>1. /\ sessions \in [SessionIds -> SessionAccount \cup {None}]
      /\ ended \subseteq SessionIds /\ DOMAIN sessions = SessionIds
  BY Zenon DEF IInv, SessionInv
<1>2. S \subseteq SessionIds
  BY <1>1, Zenon DEF Present
<1>3. /\ DOMAIN sessions' = SessionIds
      /\ \A s \in SessionIds : sessions'[s] = IF s \in S THEN None ELSE sessions[s]
      /\ ended' = ended \cup S
  BY Zenon DEF Drop
<1>4. sessions' \in [SessionIds -> SessionAccount \cup {None}]
  BY <1>1, <1>3, Zenon DEF Drop
<1>5. Drawn(sessions', ended') = Drawn(sessions, ended)
  BY <1>1, <1>2, <1>3, Zenon DEF Drawn, Present
<1>6. SessionsEvolve
  BY <1>1, <1>3, <1>5, Zenon DEF SessionsEvolve, Drawn, Present
<1>7. /\ ended' \subseteq SessionIds
      /\ \A s \in SessionIds : sessions'[s] # None => sessions'[s].account \in RandomIds
      /\ \E n \in 0..MaxSessions : Drawn(sessions', ended') = 1..n
  BY <1>1, <1>2, <1>3, <1>5, Zenon DEF IInv, SessionInv
<1>8. SessionInv'
  BY <1>4, <1>7, Zenon DEF SessionInv
<1> QED BY <1>2, <1>3, <1>5, <1>6, <1>8, Zenon

(* A session that is created has an id nobody had.                         *)
LEMMA CreateEvolves ==
    ASSUME Countable, IInv, NEW who \in RandomIds, NEW admin \in BOOLEAN,
           CreateSession(who, admin)
    PROVE  SessionsEvolve /\ SessionInv'
<1>1. /\ sessions \in [SessionIds -> SessionAccount \cup {None}]
      /\ ended \subseteq SessionIds /\ DOMAIN sessions = SessionIds
  BY Zenon DEF IInv, SessionInv
<1>2. PICK n \in 0..MaxSessions : Drawn(sessions, ended) = 1..n
  BY Zenon DEF IInv, SessionInv
<1> DEFINE s == Cardinality(ended \cup Present(sessions)) + 1
           account == [account |-> who, admin |-> admin]
<1>3. /\ s \in SessionIds /\ sessions' = [sessions EXCEPT ![s] = account]
      /\ ended' = ended
  BY Zenon DEF CreateSession
<1>4. n \in Nat /\ MaxSessions \in Nat
  BY <1>2, AccountsAssumption
<1>5. Cardinality(ended \cup Present(sessions)) = n
  BY <1>2, <1>4, Zenon DEF Drawn, Countable
<1>6. s = n + 1
  BY <1>5
<1> HIDE DEF s
<1>7. account \in SessionAccount /\ account.account = who /\ account # None
  <2>1. who \in Ids
    BY RowFacts, Zenon
  <2>2. account \in SessionAccount /\ account.account = who
    BY <2>1, Zenon DEF SessionAccount
  <2> QED BY <2>2, AccountsAssumption, Zenon
<1> HIDE DEF account
<1>8. /\ sessions' \in [SessionIds -> SessionAccount \cup {None}]
      /\ DOMAIN sessions' = SessionIds
      /\ \A t \in SessionIds : sessions'[t] = IF t = s THEN account ELSE sessions[t]
  BY <1>1, <1>3, <1>7, Zenon
<1>9. s \notin Drawn(sessions, ended)
  BY <1>2, <1>4, <1>6
<1>10. Drawn(sessions', ended') = Drawn(sessions, ended) \cup {s}
  BY <1>1, <1>3, <1>7, <1>8, Zenon DEF Drawn, Present
<1>11. n + 1 \in 0..MaxSessions /\ (1..n) \cup {n + 1} = 1..(n + 1)
  BY <1>3, <1>4, <1>6 DEF SessionIds
<1>12. \E m \in 0..MaxSessions : Drawn(sessions', ended') = 1..m
  BY <1>2, <1>6, <1>10, <1>11, Zenon
<1>13. SessionsEvolve
  BY <1>1, <1>8, <1>9, <1>10, Zenon DEF SessionsEvolve, Drawn, Present
<1>14. \A t \in SessionIds : sessions'[t] # None => sessions'[t].account \in RandomIds
  BY <1>7, <1>8, Zenon DEF IInv, SessionInv
<1>15. SessionInv'
  BY <1>1, <1>3, <1>8, <1>12, <1>14, Zenon DEF SessionInv
<1> QED BY <1>13, <1>15

(* A step that changes the session map, and keeps it in order.             *)
LEMMA SessionStepKeeps ==
    ASSUME IInv, NEW q \in Requests, Paced(q), NEW u,
           req' = [req EXCEPT ![q] = u], RequestShape(u),
           Ending(u, sessions', ended'), Targeting(u, workers),
           SessionsEvolve, SessionInv', UNCHANGED rows, UNCHANGED ownVars
    PROVE  IInv'
<1>1. workers' = workers /\ retired' = retired
  BY Zenon DEF ownVars
<1>2. HasAdmin /\ Bounds'
  BY PaceKeeps, Zenon
<1> QED BY <1>1, <1>2, RowsStay, WorkersStay, StepKeeps, Zenon

(* ... after which the request has answered.                               *)
LEMMA SessionAnswerKeeps ==
    ASSUME IInv, NEW q \in Requests, Paced(q), NEW a, Answer(q, a),
           SessionsEvolve, SessionInv', UNCHANGED rows, UNCHANGED ownVars
    PROVE  IInv'
<1> DEFINE u == [Idle EXCEPT !.answer = a]
<1>1. req' = [req EXCEPT ![q] = u]
  BY Zenon DEF Answer, Become
<1>2. /\ RequestShape(u) /\ Ending(u, sessions', ended')
      /\ Targeting(u, workers)
  BY Answered, Zenon
<1> HIDE DEF u
<1> QED BY <1>1, <1>2, SessionStepKeeps, Zenon

(* The session cookie: whose it is, or an expired session that is dropped. *)
LEMMA SessionStateKeeps ==
    ASSUME IInv, NEW q \in Requests, UNCHANGED ownVars, SessionState(q)
    PROVE  IInv'
<1>1. Paced(q) /\ UNCHANGED rows
  BY Zenon DEF SessionState, Paced
<1>2. PICK s \in Present(sessions) :
         \/ /\ Authenticated(q, sessions[s].account, sessions[s].admin, "cookie")
            /\ UNCHANGED <<sessions, ended>>
         \/ Drop({s}) /\ Answer(q, "unauthorized")
  BY Zenon DEF SessionState
<1>3. /\ sessions[s].account \in RandomIds /\ sessions[s].admin \in BOOLEAN
      /\ sessions[s].account \in Ids
  BY RowFacts, Zenon DEF Present
<1>4. CASE /\ Authenticated(q, sessions[s].account, sessions[s].admin, "cookie")
           /\ UNCHANGED <<sessions, ended>>
  <2> DEFINE who == sessions[s].account
             admin == sessions[s].admin
             u == [Idle EXCEPT !.pc = "open", !.who = who, !.admin = admin,
                               !.method = "cookie"]
  <2>1. u \in Admission("open", who, admin, "cookie")
    BY Zenon DEF Admission
  <2>2. req' = [req EXCEPT ![q] = u]
    BY <1>4, Zenon DEF Authenticated, Become
  <2>3. /\ "open" \in {"open", "owner", "keyed", "login"}
        /\ "cookie" = "dashboard-jit" => who = JitId
    OBVIOUS
  <2>4. /\ "open" = "login" \/ "cookie" = "cookie" => who \in RandomIds
        /\ who \in Ids /\ admin \in BOOLEAN
    BY <1>3
  <2>5. UNCHANGED <<rows, sessions, ended, ownVars>>
    BY <1>1, <1>4, Zenon
  <2> HIDE DEF u, who, admin
  <2> QED BY <1>1, <2>1, <2>2, <2>3, <2>4, <2>5, AdmissionKeeps, Zenon
<1>5. CASE Drop({s}) /\ Answer(q, "unauthorized")
  <2>1. {s} \subseteq Present(sessions)
    BY <1>2, Zenon
  <2>2. SessionsEvolve /\ SessionInv'
    BY <1>5, <2>1, DropEvolves, Zenon
  <2> QED BY <1>1, <1>5, <2>2, SessionAnswerKeeps, Zenon
<1> QED BY <1>2, <1>4, <1>5, Zenon

(* Login's createSession, and Logout.                                      *)
LEMMA LoginLogoutKeeps ==
    ASSUME Countable, IInv, NEW q \in Requests, UNCHANGED ownVars,
           FinishLogin(q) \/ Logout(q)
    PROVE  IInv'
<1>1. CASE FinishLogin(q)
  <2>1. /\ At(q, "login") /\ CreateSession(req[q].who, req[q].admin)
        /\ Answer(q, "session") /\ UNCHANGED rows
    BY <1>1, Zenon DEF FinishLogin
  <2>2. Paced(q) /\ req[q].pc = "login"
    BY <2>1 DEF Paced, At
  <2>3. req[q].who \in RandomIds /\ req[q].admin \in BOOLEAN
    BY <2>2, Carried DEF RequestShape, Cookie
  <2>4. SessionsEvolve /\ SessionInv'
    BY <2>1, <2>3, CreateEvolves, Zenon
  <2> QED BY <2>1, <2>2, <2>4, SessionAnswerKeeps, Zenon
<1>2. CASE Logout(q)
  <2>1. PICK s \in SessionIds : DeleteSession(s)
    BY <1>2, Zenon DEF Logout
  <2>2. Paced(q) /\ Answer(q, "done") /\ UNCHANGED rows
    BY <1>2, Zenon DEF Logout, Paced
  <2> DEFINE S == {s} \cap Present(sessions)
  <2>3. S \subseteq Present(sessions) /\ Drop(S)
    BY <2>1, Zenon DEF DeleteSession
  <2> HIDE DEF S
  <2>4. SessionsEvolve /\ SessionInv'
    BY <2>3, DropEvolves, Zenon
  <2> QED BY <2>2, <2>4, SessionAnswerKeeps, Zenon
<1> QED BY <1>1, <1>2

-----------------------------------------------------------------------------
(* The insert loops.                                                       *)

InsertLoop == {"insert", "clashId", "clashName"}
KeyLoop == {"keyName", "keyHash", "keyId", "key"}
TokenLoop == {"tokenName", "tokenHash", "tokenId", "token"}

(* What every running request carries, and what one in a loop does.        *)
Base(u) ==
    /\ DOMAIN u = Fields /\ u.admin \in BOOLEAN /\ u.tries \in 0..(MaxTries - 1)
    /\ u.answer = None /\ (u.method = "dashboard-jit" => u.who \in {JitId, None})
InLoop(u) ==
    \/ u.pc \in InsertLoop /\ u.arg \in Names /\ u.value \in Passwords
    \/ u.pc \in KeyLoop /\ u.who \in RandomIds /\ u.arg \in Labels
    \/ u.pc \in TokenLoop /\ u.who \in RandomIds /\ u.arg \in Labels
                          /\ u.value \in Values

(* A request in progress has what every pc asks for.                       *)
LEMMA Based ==
    ASSUME NEW r, RequestShape(r), r.pc # "idle"
    PROVE  Base(r)
BY Zenon DEF RequestShape, Base

(* A request in an insert loop carries the row to insert.                  *)
LEMMA LoopRead ==
    ASSUME NEW r, RequestShape(r), r.pc \in InsertLoop \cup KeyLoop \cup TokenLoop
    PROVE  Base(r) /\ InLoop(r)
<1>1. r.pc # "idle"
  BY DEF InsertLoop, KeyLoop, TokenLoop
<1>2. /\ r.pc \in InsertLoop => r.arg \in Names /\ r.value \in Passwords
      /\ r.pc \in KeyLoop => r.arg \in Labels
      /\ r.pc \in TokenLoop => r.arg \in Labels /\ r.value \in Values
      /\ r.pc \in Cookie => r.who \in RandomIds
  BY DEF RequestShape, InsertLoop, KeyLoop, TokenLoop
<1>3. r.pc \in KeyLoop \cup TokenLoop => r.pc \in Cookie
  BY DEF KeyLoop, TokenLoop, Cookie
<1>5. InLoop(r)
  BY <1>2, <1>3, Zenon DEF InLoop
<1> QED BY <1>1, <1>5, Based, Zenon

(* A request that carries the row to insert may be anywhere in its loop.   *)
LEMMA LoopShape ==
    ASSUME NEW u, Base(u), InLoop(u), NEW map, NEW gone,
           u.before \subseteq Drawn(map, gone), NEW labels
    PROVE  RequestShape(u) /\ Ending(u, map, gone) /\ Targeting(u, labels)
<1>1. u.pc \in InsertLoop \cup KeyLoop \cup TokenLoop
  BY Zenon DEF InLoop
<1>2. Ending(u, map, gone) /\ Targeting(u, labels)
  BY <1>1 DEF Ending, Targeting, InsertLoop, KeyLoop, TokenLoop
<1>3. u.pc \notin {"idle", "open", "owner", "dispatch", "create", "forward", "keyed",
                   "unprovision", "unlist", "jit", "jitFound", "update"}
  BY <1>1 DEF InsertLoop, KeyLoop, TokenLoop
<1>4. /\ u.pc \in Cookie => u.pc \in KeyLoop \cup TokenLoop \cup {"login", "update", "drop", "renew"}
      /\ u.pc \notin {"login", "update", "drop", "renew"}
  BY <1>1 DEF Cookie, InsertLoop, KeyLoop, TokenLoop
<1>5. /\ u.pc \in InsertLoop => u.pc \notin KeyLoop \cup TokenLoop
      /\ u.pc \in KeyLoop => u.pc \notin InsertLoop \cup TokenLoop
      /\ u.pc \in TokenLoop => u.pc \notin InsertLoop \cup KeyLoop
  BY DEF InsertLoop, KeyLoop, TokenLoop
<1>6. /\ u.pc \in Cookie => u.who \in RandomIds
      /\ u.pc \in InsertLoop => u.arg \in Names /\ u.value \in Passwords
      /\ u.pc \in KeyLoop => u.arg \in Labels
      /\ u.pc \in TokenLoop => u.arg \in Labels /\ u.value \in Values
  BY <1>4, <1>5, Zenon DEF InLoop
<1>7. u.pc \in {"insert", "clashId", "clashName", "update"} => u.pc \in InsertLoop
  BY <1>3, Zenon DEF InsertLoop
<1>8. RequestShape(u)
  BY <1>3, <1>6, <1>7, Zenon DEF RequestShape, Base, InsertLoop, KeyLoop, TokenLoop
<1> QED BY <1>2, <1>8

(* A turn of a loop goes on in the same loop, or answers.                  *)
LEMMA TurnKeeps ==
    ASSUME IInv, NEW q \in Requests, Paced(q),
           NEW G \in {InsertLoop, KeyLoop, TokenLoop}, req[q].pc \in G,
           NEW pc \in G, NEW last, Again(q, pc, last) \/ Goto(q, pc),
           UNCHANGED <<rows, sessions, ended, ownVars>>
    PROVE  IInv'
<1> DEFINE r == req[q]
           again == [r EXCEPT !.pc = pc, !.tries = @ + 1, !.draw = None]
           on == [r EXCEPT !.pc = pc]
<1>1. Base(r) /\ InLoop(r) /\ r.before \subseteq Drawn(sessions, ended)
  BY Carried, LoopRead, Zenon
<1>2. /\ DOMAIN again = Fields /\ again.pc = pc /\ again.tries = r.tries + 1
      /\ again.who = r.who /\ again.admin = r.admin /\ again.method = r.method
      /\ again.arg = r.arg /\ again.value = r.value /\ again.before = r.before
      /\ again.answer = r.answer
  BY <1>1, Zenon DEF Base, Fields
<1>3. /\ DOMAIN on = Fields /\ on.pc = pc /\ on.tries = r.tries
      /\ on.who = r.who /\ on.admin = r.admin /\ on.method = r.method
      /\ on.arg = r.arg /\ on.value = r.value /\ on.before = r.before
      /\ on.answer = r.answer
  BY <1>1, Zenon DEF Base, Fields
<1>4. \/ Answer(q, last)
      \/ r.tries + 1 < MaxTries /\ req' = [req EXCEPT ![q] = again]
      \/ req' = [req EXCEPT ![q] = on]
  BY Zenon DEF Again, Goto, Become
<1> HIDE DEF again, on
<1>5. ASSUME NEW u, DOMAIN u = Fields, u.pc = pc, u.tries \in 0..(MaxTries - 1),
             u.who = r.who, u.admin = r.admin, u.method = r.method, u.arg = r.arg,
             u.value = r.value, u.before = r.before, u.answer = r.answer,
             req' = [req EXCEPT ![q] = u]
      PROVE  IInv'
  <2>1. Base(u)
    BY <1>1, <1>5, Zenon DEF Base
  <2>2. r.pc \in InsertLoop \/ r.pc \in KeyLoop \/ r.pc \in TokenLoop
    BY <1>1, Zenon DEF InLoop
  <2>3. /\ r.pc \in InsertLoop => r.pc \notin KeyLoop \cup TokenLoop
        /\ r.pc \in KeyLoop => r.pc \notin InsertLoop \cup TokenLoop
        /\ r.pc \in TokenLoop => r.pc \notin InsertLoop \cup KeyLoop
    BY DEF InsertLoop, KeyLoop, TokenLoop
  <2>4. InLoop(u)
    BY <1>1, <1>5, <2>2, <2>3, Zenon DEF InLoop
  <2>5. /\ RequestShape(u) /\ Ending(u, sessions, ended)
        /\ Targeting(u, workers)
    BY <1>1, <1>5, <2>1, <2>4, LoopShape, Zenon
  <2> QED BY <1>5, <2>5, ReadKeeps, Zenon
<1>6. r.tries \in 0..(MaxTries - 1)
  BY <1>1, Zenon DEF Base
<1>7. r.tries + 1 < MaxTries => r.tries + 1 \in 0..(MaxTries - 1)
  BY <1>6, AccountsAssumption
<1> HIDE DEF r
<1>8. CASE r.tries + 1 < MaxTries /\ req' = [req EXCEPT ![q] = again]
  BY <1>2, <1>5, <1>7, <1>8, Zenon
<1>9. CASE req' = [req EXCEPT ![q] = on]
  BY <1>3, <1>5, <1>6, <1>9, Zenon
<1>10. CASE Answer(q, last)
  BY <1>10, AnswerKeeps, Zenon
<1> QED BY <1>4, <1>8, <1>9, <1>10, Zenon

(* Register and the retries of its insert: a free id and name, or a clash. *)
LEMMA InsertTurnKeeps ==
    ASSUME IInv, NEW q \in Requests, UNCHANGED ownVars,
           Register(q) \/ CreateAccountWithRetry(q)
    PROVE  IInv'
<1> DEFINE r == req[q]
<1>1. /\ UNCHANGED <<keys, tokens, spent>> /\ UNCHANGED <<sessions, ended, ownVars>>
      /\ At(q, "open") \/ At(q, "insert")
  BY Zenon DEF Register, CreateAccountWithRetry, RequireAdmin
<1>2. Paced(q) /\ r.pc \in {"open", "insert"}
  BY <1>1 DEF Paced, At
<1>3. Base(r) /\ r.before \subseteq Drawn(sessions, ended)
  <2>1. r.pc # "idle"
    BY <1>2
  <2> QED BY <2>1, Carried, Based, Zenon
<1>4. r.pc = "insert" => r.arg \in Names /\ r.value \in Passwords
  BY Carried DEF RequestShape
<1>5. PICK a \in RandomIds, n \in Names, p \in Passwords : InsertTurn(q, a, n, p)
  <2>1. CASE Register(q)
    BY <2>1, Zenon DEF Register
  <2>2. CASE CreateAccountWithRetry(q)
    <3>1. r.pc = "insert"
      BY <2>2 DEF CreateAccountWithRetry, At
    <3> QED BY <1>4, <2>2, <3>1, Zenon DEF CreateAccountWithRetry
  <2> QED BY <2>1, <2>2
<1> DEFINE row == [name |-> n, password |-> p, admin |-> FALSE]
           u == [r EXCEPT !.pc = "clashId", !.arg = n, !.value = p, !.draw = a]
           v == [Idle EXCEPT !.answer = "created"]
<1>6. \/ /\ ~AccountConflict(a, n) /\ req' = [req EXCEPT ![q] = v]
         /\ InsertAccount(a, row)
      \/ UNCHANGED accounts /\ req' = [req EXCEPT ![q] = u]
  BY <1>5, Zenon DEF InsertTurn, Answer, Become
<1>7. /\ RequestShape(v) /\ Ending(v, sessions, ended)
      /\ Targeting(v, workers)
  BY Answered, Zenon
<1>8. /\ DOMAIN u = Fields /\ u.pc = "clashId" /\ u.arg = n /\ u.value = p
      /\ u.who = r.who /\ u.admin = r.admin /\ u.method = r.method
      /\ u.tries = r.tries /\ u.before = r.before /\ u.answer = r.answer
  BY <1>3, Zenon DEF Base, Fields
<1>9. row \in Account /\ row.name = n
  BY Zenon DEF Account
<1> HIDE DEF u, v, row
<1>10. /\ RequestShape(u) /\ Ending(u, sessions, ended)
       /\ Targeting(u, workers)
  <2>1. Base(u)
    BY <1>3, <1>8, Zenon DEF Base
  <2>2. InLoop(u)
    BY <1>5, <1>8, Zenon DEF InLoop, InsertLoop
  <2>3. u.before \subseteq Drawn(sessions, ended)
    BY <1>3, <1>8, Zenon
  <2> QED BY <2>1, <2>2, <2>3, LoopShape, Zenon
<1>11. CASE /\ ~AccountConflict(a, n) /\ req' = [req EXCEPT ![q] = v]
            /\ InsertAccount(a, row)
  <2>1. a \in Ids /\ a # JitId
    BY <1>5, RowFacts, Zenon
  <2>2. /\ NamesInv' /\ (HasAdmin => HasAdmin')
        /\ SecretInv(keys', accounts') /\ SecretInv(tokens', accounts')
    BY <1>1, <1>9, <1>11, <2>1, InsertAccountKeeps, Zenon
  <2> QED BY <1>1, <1>2, <1>7, <1>11, <2>2, RowStepKeeps, Zenon
<1>12. CASE UNCHANGED accounts /\ req' = [req EXCEPT ![q] = u]
  <2>1. UNCHANGED <<rows, sessions, ended, ownVars>>
    BY <1>1, <1>12, Zenon DEF rows
  <2> QED BY <1>2, <1>10, <1>12, <2>1, ReadKeeps, Zenon
<1> QED BY <1>6, <1>11, <1>12, Zenon

(* The classification of a conflict reads, and repeats the turn or not.    *)
LEMMA ClassifyKeeps ==
    ASSUME IInv, NEW q \in Requests, UNCHANGED ownVars,
           \/ ClassifyAccountInsertConflict(q)
           \/ ClassifyAPIKeyInsertConflict(q)
           \/ ClassifyTrustedTokenInsertConflict(q)
    PROVE  IInv'
<1> DEFINE Turn(G) == /\ \E pc \in G : At(q, pc)
                      /\ \/ \E a : Answer(q, a)
                         \/ \E pc \in G : \E a : Again(q, pc, a) \/ Goto(q, pc)
<1>1. UNCHANGED <<rows, sessions, ended, ownVars>>
  BY Zenon DEF ClassifyAccountInsertConflict, ClassifyAPIKeyInsertConflict,
               ClassifyTrustedTokenInsertConflict
<1>2. PICK G \in {InsertLoop, KeyLoop, TokenLoop} : Turn(G)
  <2>1. ClassifyAccountInsertConflict(q) => Turn(InsertLoop)
    BY Zenon DEF ClassifyAccountInsertConflict, InsertLoop
  <2>2. ClassifyAPIKeyInsertConflict(q) => Turn(KeyLoop)
    BY Zenon DEF ClassifyAPIKeyInsertConflict, KeyLoop
  <2>3. ClassifyTrustedTokenInsertConflict(q) => Turn(TokenLoop)
    BY Zenon DEF ClassifyTrustedTokenInsertConflict, TokenLoop
  <2> QED BY <2>1, <2>2, <2>3, Zenon
<1>3. Paced(q) /\ req[q].pc \in G
  <2>1. PICK pc \in G : At(q, pc)
    BY <1>2, Zenon
  <2>2. pc # "idle"
    BY DEF InsertLoop, KeyLoop, TokenLoop
  <2> QED BY <2>1, <2>2, Zenon DEF Paced, At
<1>4. CASE \E a : Answer(q, a)
  BY <1>1, <1>3, <1>4, AnswerKeeps, Zenon
<1>5. CASE \E pc \in G : \E a : Again(q, pc, a) \/ Goto(q, pc)
  BY <1>1, <1>3, <1>5, TurnKeeps, Zenon
<1> QED BY <1>2, <1>4, <1>5, Zenon

-----------------------------------------------------------------------------
(* API keys and trusted tokens.                                            *)

(* A new secret: its id and its value were free and its account is there.  *)
LEMMA SecretInserted ==
    ASSUME NEW tab, NEW accts, SecretInv(tab, accts), NEW k \in SecretIds,
           NEW row \in Secret, k \notin Present(tab),
           \A i \in Present(tab) : tab[i].value # row.value,
           accts[row.account] # None, row.account # JitId
    PROVE  SecretInv([tab EXCEPT ![k] = row], accts)
<1> DEFINE new == [tab EXCEPT ![k] = row]
<1>1. tab \in [SecretIds -> Secret \cup {None}] /\ DOMAIN tab = SecretIds
  BY Zenon DEF SecretInv
<1>2. /\ new \in [SecretIds -> Secret \cup {None}]
      /\ \A i \in SecretIds : new[i] = IF i = k THEN row ELSE tab[i]
  BY <1>1, Zenon
<1>3. \A i \in SecretIds : tab[i] # None => tab[i].value # row.value
  BY <1>1, Zenon DEF Present
<1> HIDE DEF new
<1>4. \A i \in SecretIds : new[i] # None =>
         accts[new[i].account] # None /\ new[i].account # JitId
  BY <1>2, Zenon DEF SecretInv
<1>5. ASSUME NEW i \in SecretIds, NEW j \in SecretIds, new[i] # None, new[j] # None,
             new[i].value = new[j].value
      PROVE  i = j
  <2>1. CASE i = k /\ j # k
    <3>1. new[i] = row /\ new[j] = tab[j]
      BY <1>2, <2>1, Zenon
    <3> QED BY <1>3, <1>5, <3>1, Zenon
  <2>2. CASE i # k /\ j = k
    <3>1. new[i] = tab[i] /\ new[j] = row
      BY <1>2, <2>2, Zenon
    <3> QED BY <1>3, <1>5, <3>1, Zenon
  <2>3. CASE i # k /\ j # k
    <3>1. new[i] = tab[i] /\ new[j] = tab[j]
      BY <1>2, <2>3, Zenon
    <3>2. tab[i] # None /\ tab[j] # None /\ tab[i].value = tab[j].value
      BY <1>5, <3>1, Zenon
    <3> QED BY <3>2, Zenon DEF SecretInv
  <2> QED BY <2>1, <2>2, <2>3, Zenon
<1>6. SecretInv(new, accts)
  BY <1>2, <1>4, <1>5, Zenon DEF SecretInv
<1> QED BY <1>6 DEF new

(* Secrets that are removed leave the others as they were.                 *)
LEMMA SecretRemoved ==
    ASSUME NEW tab, NEW accts, SecretInv(tab, accts), NEW new,
           new = [i \in SecretIds |-> new[i]],
           \A i \in SecretIds : new[i] \in {tab[i], None}
    PROVE  SecretInv(new, accts)
<1>1. new \in [SecretIds -> Secret \cup {None}]
  BY Zenon DEF SecretInv
<1>2. \A i \in SecretIds : new[i] # None => tab[i] # None /\ new[i] = tab[i]
  BY Zenon
<1>3. ASSUME NEW i \in SecretIds, new[i] # None
      PROVE  /\ accts[new[i].account] # None /\ new[i].account # JitId
             /\ \A j \in SecretIds :
                  new[j] # None /\ new[i].value = new[j].value => i = j
  <2>1. tab[i] # None /\ new[i] = tab[i]
    BY <1>2, <1>3, Zenon
  <2>2. /\ accts[tab[i].account] # None /\ tab[i].account # JitId
        /\ \A j \in SecretIds :
             tab[j] # None /\ tab[i].value = tab[j].value => i = j
    BY <2>1, Zenon DEF SecretInv
  <2> QED BY <1>2, <2>1, <2>2, Zenon
<1> QED BY <1>1, <1>3, Zenon DEF SecretInv

(* A turn of either loop, on the request's side.                           *)
Turning(r, pc, from) == {[r EXCEPT !.pc = pc], [r EXCEPT !.pc = pc, !.method = from]}
(* One turn of a secret's insert loop leaves a request answered or in the  *)
(* loop.                                                                   *)
LEMMA SecretTurned ==
    ASSUME IInv, NEW q \in Requests, req[q].pc # "idle", req[q].who \in RandomIds,
           NEW pc \in {"keyName", "tokenName"}, NEW from,
           from = "dashboard-jit" => req[q].who \in {JitId, None},
           NEW row, row.label \in Labels, row.value \in Values, NEW k, NEW base,
           base \in Turning(req[q], pc, from),
           NEW conflicts, SecretTurn(q, conflicts, k, row, base)
    PROVE  \E u : /\ req' = [req EXCEPT ![q] = u]
                  /\ RequestShape(u) /\ Ending(u, sessions, ended)
                  /\ Targeting(u, workers)
<1> DEFINE r == req[q]
           l == row.label
           v == row.value
           u == [base EXCEPT !.arg = row.label, !.value = row.value, !.draw = k]
<1>1. Base(r) /\ r.before \subseteq Drawn(sessions, ended)
  BY Carried, Based, Zenon
<1>2. /\ DOMAIN base = Fields /\ base.pc = pc /\ base.who = r.who
      /\ base.admin = r.admin /\ base.method \in {r.method, from}
      /\ base.tries = r.tries /\ base.before = r.before /\ base.answer = r.answer
  BY <1>1, Zenon DEF Base, Fields, Turning
<1>4. CASE req' = [req EXCEPT ![q] = u]
  <2>1. /\ DOMAIN u = Fields /\ u.pc = pc /\ u.who = r.who /\ u.arg = l
        /\ u.value = v /\ u.admin = r.admin /\ u.method \in {r.method, from}
        /\ u.tries = r.tries /\ u.before = r.before /\ u.answer = r.answer
    BY <1>2, Zenon DEF Fields
  <2> HIDE DEF u, l, v
  <2>2. Base(u)
    BY <1>1, <2>1, Zenon DEF Base
  <2>3. InLoop(u)
    BY <2>1, Zenon DEF InLoop, KeyLoop, TokenLoop, l, v
  <2>4. u.before \subseteq Drawn(sessions, ended)
    BY <1>1, <2>1, Zenon
  <2>5. /\ RequestShape(u) /\ Ending(u, sessions, ended)
        /\ Targeting(u, workers)
    BY <2>2, <2>3, <2>4, LoopShape, Zenon
  <2> QED BY <1>4, <2>5, Zenon
<1>5. CASE \E a : Answer(q, a)
  <2>1. PICK a : req' = [req EXCEPT ![q] = [Idle EXCEPT !.answer = a]]
    BY <1>5, Zenon DEF Answer, Become
  <2> DEFINE w == [Idle EXCEPT !.answer = a]
  <2>2. /\ RequestShape(w) /\ Ending(w, sessions, ended)
        /\ Targeting(w, workers)
    BY Answered, Zenon
  <2>3. req' = [req EXCEPT ![q] = w]
    BY <2>1
  <2> HIDE DEF w
  <2> QED BY <2>2, <2>3, Zenon
<1> QED BY <1>4, <1>5, Zenon DEF SecretTurn, Become

(* One turn of createAPIKey.                                               *)
LEMMA KeyTurnKeeps ==
    ASSUME IInv, NEW q \in Requests, UNCHANGED ownVars, Paced(q),
           req[q].pc # "idle", req[q].who \in RandomIds,
           NEW l \in Labels, NEW v \in Values, KeyTurn(q, l, v)
    PROVE  IInv'
<1> DEFINE r == req[q]
           row == [account |-> r.who, label |-> l, value |-> v]
           base == [r EXCEPT !.pc = "keyName"]
<1>1. /\ UNCHANGED <<accounts, tokens, spent>>
      /\ UNCHANGED <<sessions, ended, ownVars>>
  BY Zenon DEF KeyTurn
<1>2. PICK k \in SecretIds :
         /\ SecretTurn(q, APIKeyConflict(k, row), k, row, base)
         /\ \/ /\ ~APIKeyConflict(k, row) /\ accounts[r.who] # None
               /\ keys' = [keys EXCEPT ![k] = row]
            \/ UNCHANGED keys
  BY Zenon DEF KeyTurn, GetAccountByID, InsertAPIKey
<1>3. /\ row \in Secret /\ row.account = r.who /\ row.value = v
      /\ r.who # JitId
  BY RowFacts, Zenon DEF Secret
<1>4. PICK u : /\ req' = [req EXCEPT ![q] = u]
               /\ RequestShape(u) /\ Ending(u, sessions, ended)
               /\ Targeting(u, workers)
  <2>1. "keyName" \in {"keyName", "tokenName"}
    OBVIOUS
  <2>2. base \in Turning(req[q], "keyName", None)
    BY Zenon DEF Turning
  <2>3. None = "dashboard-jit" => req[q].who \in {JitId, None}
    BY AccountsAssumption, Zenon
  <2> DEFINE conflicts == APIKeyConflict(k, row)
  <2>4. /\ SecretTurn(q, conflicts, k, row, base)
        /\ row.label \in Labels /\ row.value \in Values
    BY <1>2, Zenon
  <2> HIDE DEF base, conflicts, row
  <2> QED BY <2>1, <2>2, <2>3, <2>4, SecretTurned, Zenon
<1> HIDE DEF row
<1>5. SecretInv(keys', accounts)
  <2>1. SecretInv(keys, accounts)
    BY Zenon DEF IInv
  <2>2. CASE /\ ~APIKeyConflict(k, row) /\ accounts[r.who] # None
             /\ keys' = [keys EXCEPT ![k] = row]
    <3>1. k \notin Present(keys) /\ \A i \in Present(keys) : keys[i].value # row.value
      BY <2>2, Zenon DEF APIKeyConflict, GetAPIKeyByID, GetAPIKeyByHash
    <3>2. accounts[row.account] # None /\ row.account # JitId
      BY <1>3, <2>2, Zenon
    <3>3. SecretInv([keys EXCEPT ![k] = row], accounts)
      BY <1>2, <1>3, <2>1, <3>1, <3>2, SecretInserted, Zenon
    <3> QED BY <2>2, <3>3
  <2> QED BY <1>2, <2>1, <2>2
<1>6. /\ NamesInv' /\ (HasAdmin => HasAdmin')
      /\ SecretInv(keys', accounts') /\ SecretInv(tokens', accounts')
  <2>1. accounts' = accounts /\ tokens' = tokens /\ spent' = spent
    BY <1>1
  <2>2. NamesInv' /\ (HasAdmin => HasAdmin')
    BY <2>1, Zenon DEF IInv, NamesInv, HasAdmin
  <2> QED BY <1>5, <2>1, <2>2, Zenon DEF IInv
<1> QED BY <1>1, <1>4, <1>6, RowStepKeeps, Zenon

(* One turn of createToken.                                                *)
LEMMA TokenTurnKeeps ==
    ASSUME IInv, NEW q \in Requests, UNCHANGED ownVars, Paced(q),
           req[q].pc # "idle", req[q].who \in RandomIds,
           NEW from, from = "dashboard-jit" => req[q].who \in {JitId, None},
           NEW l \in Labels, NEW v \in Values, TokenTurn(q, from, l, v)
    PROVE  IInv'
<1> DEFINE r == req[q]
           row == [account |-> r.who, label |-> l, value |-> v]
           base == [r EXCEPT !.pc = "tokenName", !.method = from]
<1>1. /\ UNCHANGED <<accounts, keys, spent>>
      /\ UNCHANGED <<sessions, ended, ownVars>>
  BY Zenon DEF TokenTurn
<1>2. PICK k \in SecretIds :
         /\ SecretTurn(q, TrustedTokenConflict(k, row), k, row, base)
         /\ \/ /\ ~TrustedTokenConflict(k, row) /\ accounts[r.who] # None
               /\ tokens' = [tokens EXCEPT ![k] = row]
            \/ UNCHANGED tokens
  BY Zenon DEF TokenTurn, GetAccountByID, InsertTrustedToken
<1>3. /\ row \in Secret /\ row.account = r.who /\ row.value = v
      /\ r.who # JitId
  BY RowFacts, Zenon DEF Secret
<1>4. PICK u : /\ req' = [req EXCEPT ![q] = u]
               /\ RequestShape(u) /\ Ending(u, sessions, ended)
               /\ Targeting(u, workers)
  <2>1. "tokenName" \in {"keyName", "tokenName"}
    OBVIOUS
  <2>2. base \in Turning(req[q], "tokenName", from)
    BY Zenon DEF Turning
  <2> DEFINE conflicts == TrustedTokenConflict(k, row)
  <2>4. /\ SecretTurn(q, conflicts, k, row, base)
        /\ row.label \in Labels /\ row.value \in Values
    BY <1>2, Zenon
  <2> HIDE DEF base, conflicts, row
  <2> QED BY <2>1, <2>2, <2>4, SecretTurned, Zenon
<1> HIDE DEF row
<1>5. SecretInv(tokens', accounts)
  <2>1. SecretInv(tokens, accounts)
    BY Zenon DEF IInv
  <2>2. CASE /\ ~TrustedTokenConflict(k, row) /\ accounts[r.who] # None
             /\ tokens' = [tokens EXCEPT ![k] = row]
    <3>1. k \notin Present(tokens) /\ \A i \in Present(tokens) : tokens[i].value # row.value
      BY <2>2, Zenon DEF TrustedTokenConflict, GetTrustedTokenByID, GetTrustedTokenByHash
    <3>2. accounts[row.account] # None /\ row.account # JitId
      BY <1>3, <2>2, Zenon
    <3>3. SecretInv([tokens EXCEPT ![k] = row], accounts)
      BY <1>2, <1>3, <2>1, <3>1, <3>2, SecretInserted, Zenon
    <3> QED BY <2>2, <3>3
  <2> QED BY <1>2, <2>1, <2>2
<1>6. /\ NamesInv' /\ (HasAdmin => HasAdmin')
      /\ SecretInv(keys', accounts') /\ SecretInv(tokens', accounts')
  <2>1. accounts' = accounts /\ keys' = keys /\ spent' = spent
    BY <1>1
  <2>2. NamesInv' /\ (HasAdmin => HasAdmin')
    BY <2>1, Zenon DEF IInv, NamesInv, HasAdmin
  <2> QED BY <1>5, <2>1, <2>2, Zenon DEF IInv
<1> QED BY <1>1, <1>4, <1>6, RowStepKeeps, Zenon

(* The handlers of both secrets.                                           *)
LEMMA CreateSecretKeeps ==
    ASSUME IInv, NEW q \in Requests, UNCHANGED ownVars,
           CreateAPIKey(q) \/ RetryAPIKey(q) \/ CreateToken(q) \/ RetryToken(q)
    PROVE  IInv'
<1> DEFINE r == req[q]
<1>1. \/ At(q, "open") /\ r.method = "cookie"
      \/ At(q, "key") \/ At(q, "token")
  BY Zenon DEF CreateAPIKey, RetryAPIKey, CreateToken, RetryToken,
               RequireCookieSession
<1>2. Paced(q) /\ r.pc # "idle"
  BY <1>1 DEF Paced, At
<1>3. r.who \in RandomIds
  BY <1>1, Carried DEF At, RequestShape, Cookie
<1>4. r.method = "dashboard-jit" => r.who \in {JitId, None}
  BY Carried, Zenon DEF RequestShape
<1>5. CASE CreateAPIKey(q)
  BY <1>2, <1>3, <1>5, KeyTurnKeeps, Zenon DEF CreateAPIKey
<1>6. CASE RetryAPIKey(q)
  <2>1. r.pc = "key"
    BY <1>6, Zenon DEF RetryAPIKey, At
  <2>2. r.arg \in Labels
    BY <2>1, Carried DEF RequestShape
  <2> QED BY <1>2, <1>3, <1>6, <2>2, KeyTurnKeeps, Zenon DEF RetryAPIKey
<1>7. CASE CreateToken(q)
  <2>1. PICK from \in {"given", "generated"}, l \in Labels, v \in Values :
           TokenTurn(q, from, l, v)
    BY <1>7, Zenon DEF CreateToken
  <2>2. from = "dashboard-jit" => r.who \in {JitId, None}
    BY <2>1
  <2> QED BY <1>2, <1>3, <2>1, <2>2, TokenTurnKeeps, Zenon
<1>8. CASE RetryToken(q)
  <2>1. r.pc = "token"
    BY <1>8, Zenon DEF RetryToken, At
  <2>2. r.arg \in Labels /\ r.value \in Values
    BY <2>1, Carried DEF RequestShape
  <2>3. PICK v \in Values : TokenTurn(q, r.method, r.arg, v)
    BY <1>8, <2>2, Zenon DEF RetryToken
  <2> QED BY <1>2, <1>3, <1>4, <2>2, <2>3, TokenTurnKeeps, Zenon
<1> QED BY <1>5, <1>6, <1>7, <1>8

(* A row that is deleted, if it is the account's.                          *)
LEMMA DeleteSecretKeeps ==
    ASSUME IInv, NEW q \in Requests, UNCHANGED ownVars,
           DeleteAPIKey(q) \/ DeleteToken(q)
    PROVE  IInv'
<1>1. /\ At(q, "open") /\ UNCHANGED <<accounts, spent>>
      /\ UNCHANGED <<sessions, ended, ownVars>> /\ Answer(q, "done")
  BY Zenon DEF DeleteAPIKey, DeleteToken, RequireCookieSession
<1>2. Paced(q)
  BY <1>1 DEF Paced
<1> DEFINE u == [Idle EXCEPT !.answer = "done"]
<1>3. /\ RequestShape(u) /\ Ending(u, sessions, ended)
      /\ Targeting(u, workers) /\ req' = [req EXCEPT ![q] = u]
  BY <1>1, Answered, Zenon DEF Answer, Become
<1> HIDE DEF u
<1>4. SecretInv(keys, accounts) /\ SecretInv(tokens, accounts)
  BY Zenon DEF IInv
<1>5. SecretInv(keys', accounts)
  <2>1. CASE UNCHANGED keys
    BY <1>4, <2>1
  <2>2. CASE \E k \in SecretIds : DeleteAPIKeyByIDAndAccount(k, req[q].who)
    <3>1. /\ keys' = [i \in SecretIds |-> keys'[i]]
          /\ \A i \in SecretIds : keys'[i] \in {keys[i], None}
      BY <1>4, <2>2, Zenon DEF DeleteAPIKeyByIDAndAccount, SecretInv
    <3> QED BY <1>4, <3>1, SecretRemoved, Zenon
  <2> QED BY <2>1, <2>2, Zenon DEF DeleteAPIKey, DeleteToken
<1>6. SecretInv(tokens', accounts)
  <2>1. CASE UNCHANGED tokens
    BY <1>4, <2>1
  <2>2. CASE \E k \in SecretIds : DeleteTrustedTokenByIDAndAccount(k, req[q].who)
    <3>1. /\ tokens' = [i \in SecretIds |-> tokens'[i]]
          /\ \A i \in SecretIds : tokens'[i] \in {tokens[i], None}
      BY <1>4, <2>2, Zenon DEF DeleteTrustedTokenByIDAndAccount, SecretInv
    <3> QED BY <1>4, <3>1, SecretRemoved, Zenon
  <2> QED BY <2>1, <2>2, Zenon DEF DeleteAPIKey, DeleteToken
<1>7. /\ NamesInv' /\ (HasAdmin => HasAdmin')
      /\ SecretInv(keys', accounts') /\ SecretInv(tokens', accounts')
  <2>1. accounts' = accounts /\ spent' = spent
    BY <1>1
  <2>2. NamesInv' /\ (HasAdmin => HasAdmin')
    BY <2>1, Zenon DEF IInv, NamesInv, HasAdmin
  <2> QED BY <1>5, <1>6, <2>1, <2>2, Zenon
<1> QED BY <1>1, <1>2, <1>3, <1>7, RowStepKeeps, Zenon

-----------------------------------------------------------------------------
(* ChangePassword and DeleteAccount.                                       *)

(* The sessions of an account.                                             *)
LEMMA SessionsOfAccount ==
    ASSUME IInv, NEW a
    PROVE  /\ SessionsOf(a) \subseteq Present(sessions)
           /\ SessionsOf(a) \subseteq Drawn(sessions, ended)
           /\ \A s \in SessionsOf(a) : sessions[s].account = a
           /\ \A s \in Drawn(sessions, ended) :
                 sessions[s] # None /\ sessions[s].account = a => s \in SessionsOf(a)
<1>1. DOMAIN sessions = SessionIds /\ Drawn(sessions, ended) \subseteq SessionIds
  BY Zenon DEF IInv, SessionInv, Drawn, Present
<1> QED BY <1>1, Zenon DEF SessionsOf, Present, Drawn

(* What the handlers carry, once the account is known.                     *)
LEMMA HandlerShape ==
    ASSUME NEW u, Base(u), NEW map, NEW gone,
           u.before \subseteq Drawn(map, gone),
           \/ /\ u.pc = "update" /\ u.value \in Passwords /\ u.who \in RandomIds
              /\ \A s \in u.before : map[s] # None => map[s].account = u.who
           \/ /\ u.pc = "drop" /\ u.who \in RandomIds
              /\ \A s \in u.before : map[s] # None => map[s].account = u.who
           \/ /\ u.pc = "renew" /\ u.who \in RandomIds
              /\ \A s \in u.before : map[s] = None
           \/ /\ u.pc = "revoke"
              /\ \A s \in u.before : map[s] # None => map[s].account = u.arg,
           NEW labels
    PROVE  RequestShape(u) /\ Ending(u, map, gone) /\ Targeting(u, labels)
<1>1. u.pc \in {"update", "drop", "renew", "revoke"}
  BY Zenon
<1>2. Targeting(u, labels)
  BY <1>1 DEF Targeting
<1>3. Ending(u, map, gone)
  <2>1. CASE u.pc \in {"update", "drop"}
    BY <2>1, Zenon DEF Ending
  <2>2. CASE u.pc = "renew"
    BY <2>2, Zenon DEF Ending
  <2>3. CASE u.pc = "revoke"
    BY <2>3, Zenon DEF Ending
  <2> QED BY <1>1, <2>1, <2>2, <2>3, Zenon
<1>4. /\ u.pc = "update" => u.value \in Passwords
      /\ u.pc # "revoke" => u.who \in RandomIds
  BY Zenon
<1>5. ASSUME u.pc = "update" PROVE RequestShape(u)
  BY <1>4, <1>5, Zenon DEF RequestShape, Base, Cookie
<1>6. ASSUME u.pc = "drop" PROVE RequestShape(u)
  BY <1>4, <1>6, Zenon DEF RequestShape, Base, Cookie
<1>7. ASSUME u.pc = "renew" PROVE RequestShape(u)
  BY <1>4, <1>7, Zenon DEF RequestShape, Base, Cookie
<1>8. ASSUME u.pc = "revoke" PROVE RequestShape(u)
  BY <1>4, <1>8, Zenon DEF RequestShape, Base, Cookie
<1> QED BY <1>1, <1>2, <1>3, <1>5, <1>6, <1>7, <1>8, Zenon

(* The rows after UpdateAccountPasswordByID ...                            *)
LEMMA PasswordKeeps ==
    ASSUME IInv, NEW a \in RandomIds, accounts[a] # None, NEW p \in Passwords,
           UpdateAccountPasswordByID(a, p), UNCHANGED <<keys, tokens, spent>>
    PROVE  /\ NamesInv' /\ (HasAdmin => HasAdmin')
           /\ SecretInv(keys', accounts') /\ SecretInv(tokens', accounts')
<1>1. /\ accounts \in [Ids -> Account \cup {None}] /\ DOMAIN accounts = Ids
      /\ a \in Ids /\ a # JitId /\ JitId \in Ids
  BY RowFacts, Zenon DEF IInv, NamesInv
<1> DEFINE row == [accounts[a] EXCEPT !.password = p]
<1>2. accounts[a] \in Account
  BY <1>1, Zenon
<1>3. row \in Account /\ row.name = accounts[a].name /\ row.admin = accounts[a].admin
  BY <1>2, Zenon DEF Account
<1>4. accounts' = [accounts EXCEPT ![a] = row]
  BY Zenon DEF UpdateAccountPasswordByID
<1>5. row # None
  BY <1>3, AccountsAssumption, Zenon
<1> HIDE DEF row
<1>6. /\ accounts' \in [Ids -> Account \cup {None}]
      /\ \A b \in Ids : accounts'[b] = IF b = a THEN row ELSE accounts[b]
  BY <1>1, <1>3, <1>4, Zenon
<1>7. /\ \A b \in Ids : accounts'[b] # None <=> accounts[b] # None
      /\ \A b \in Ids : accounts[b] # None =>
           /\ accounts'[b].name = accounts[b].name
           /\ accounts'[b].admin = accounts[b].admin
  BY <1>3, <1>5, <1>6, Zenon
<1>8. accounts'[JitId] = accounts[JitId]
  BY <1>1, <1>6, Zenon
<1>9. NamesInv'
  <2>1. NamesInv /\ spent' = spent
    BY Zenon DEF IInv
  <2>2. ASSUME NEW b \in Ids, NEW c \in Ids, accounts'[b] # None, accounts'[c] # None,
               accounts'[b].name = accounts'[c].name
        PROVE  b = c
    <3>1. accounts[b] # None /\ accounts[c] # None
      BY <1>7, <2>2, Zenon
    <3>2. accounts[b].name = accounts[c].name
      BY <1>7, <2>2, <3>1, Zenon
    <3> QED BY <2>1, <3>1, <3>2, Zenon DEF NamesInv
  <2>3. accounts'[JitId] # None => accounts'[JitId].password = NoPassword
    BY <1>8, <2>1, Zenon DEF NamesInv
  <2>4. spent' \subseteq RandomIds
    BY <2>1, Zenon DEF NamesInv
  <2> QED BY <1>6, <2>2, <2>3, <2>4, Zenon DEF NamesInv
<1>10. HasAdmin => HasAdmin'
  BY <1>7, Zenon DEF HasAdmin
<1>11. \A tab : SecretInv(tab, accounts) => SecretInv(tab, accounts')
  <2> SUFFICES ASSUME NEW tab, SecretInv(tab, accounts)
               PROVE  SecretInv(tab, accounts')
    BY Zenon
  <2>1. \A i \in SecretIds : tab[i] # None => tab[i].account \in Ids
    BY Zenon DEF SecretInv, Secret
  <2> QED BY <1>7, <2>1, Zenon DEF SecretInv
<1> QED BY <1>9, <1>10, <1>11, Zenon DEF IInv

(* ... and after DeleteNonAdminAccountByID, which takes the secrets along. *)
LEMMA RemovalKeeps ==
    ASSUME IInv, NEW a \in Ids, accounts[a] # None, ~accounts[a].admin,
           DeleteNonAdminAccountByID(a)
    PROVE  /\ NamesInv' /\ (HasAdmin => HasAdmin')
           /\ SecretInv(keys', accounts') /\ SecretInv(tokens', accounts')
<1>1. accounts \in [Ids -> Account \cup {None}] /\ DOMAIN accounts = Ids
  BY RowFacts, Zenon DEF IInv, NamesInv
<1>2. /\ accounts' = [accounts EXCEPT ![a] = None]
      /\ spent' = spent \cup ({a} \cap RandomIds)
      /\ keys' = Without(keys, a) /\ tokens' = Without(tokens, a)
  BY Zenon DEF DeleteNonAdminAccountByID
<1>3. /\ accounts' \in [Ids -> Account \cup {None}]
      /\ \A b \in Ids : accounts'[b] = IF b = a THEN None ELSE accounts[b]
  BY <1>1, <1>2, Zenon
<1>4. spent' \subseteq RandomIds /\ JitId \in Ids
  BY <1>2, RowFacts, Zenon DEF IInv, NamesInv
<1>5. NamesInv'
  <2>1. NamesInv
    BY Zenon DEF IInv
  <2>2. \A b \in Ids : accounts'[b] # None =>
           accounts[b] # None /\ accounts'[b] = accounts[b]
    BY <1>3, Zenon
  <2>3. ASSUME NEW b \in Ids, NEW c \in Ids, accounts'[b] # None, accounts'[c] # None,
               accounts'[b].name = accounts'[c].name
        PROVE  b = c
    <3>1. /\ accounts[b] # None /\ accounts[c] # None
          /\ accounts[b].name = accounts[c].name
      BY <2>2, <2>3, Zenon
    <3> QED BY <2>1, <3>1, Zenon DEF NamesInv
  <2>4. accounts'[JitId] # None => accounts'[JitId].password = NoPassword
    BY <1>4, <2>1, <2>2, Zenon DEF NamesInv
  <2> QED BY <1>3, <1>4, <2>3, <2>4, Zenon DEF NamesInv
<1>6. HasAdmin => HasAdmin'
  BY <1>3, Zenon DEF HasAdmin
<1>7. \A tab : SecretInv(tab, accounts) => SecretInv(Without(tab, a), accounts')
  <2> SUFFICES ASSUME NEW tab, SecretInv(tab, accounts)
               PROVE  SecretInv(Without(tab, a), accounts')
    BY Zenon
  <2> DEFINE new == Without(tab, a)
  <2>1. /\ DOMAIN tab = SecretIds
        /\ \A i \in SecretIds : tab[i] # None => tab[i].account \in Ids
    BY Zenon DEF SecretInv, Secret
  <2>2. /\ new = [i \in SecretIds |-> new[i]]
        /\ \A i \in SecretIds : new[i] \in {tab[i], None}
        /\ \A i \in SecretIds : new[i] # None => new[i] = tab[i] /\ tab[i].account # a
    BY <2>1, Zenon DEF Without
  <2> HIDE DEF new
  <2>3. SecretInv(new, accounts)
    BY <2>2, SecretRemoved, Zenon
  <2>4. \A i \in SecretIds : new[i] # None => accounts'[new[i].account] # None
    <3> SUFFICES ASSUME NEW i \in SecretIds, new[i] # None
                 PROVE  accounts'[new[i].account] # None
      BY Zenon
    <3>1. new[i].account \in Ids /\ new[i].account # a
      BY <2>1, <2>2, Zenon
    <3>2. accounts[new[i].account] # None
      BY <2>3, Zenon DEF SecretInv
    <3> QED BY <1>3, <3>1, <3>2, Zenon
  <2>5. SecretInv(new, accounts')
    BY <2>3, <2>4, Zenon DEF SecretInv
  <2> QED BY <2>5 DEF new
<1> QED BY <1>2, <1>5, <1>6, <1>7, Zenon DEF IInv

(* ChangePassword up to the dropping of the sessions.                      *)
LEMMA ChangePasswordKeeps ==
    ASSUME IInv, NEW q \in Requests, UNCHANGED ownVars, ChangePassword(q)
    PROVE  IInv'
<1> DEFINE r == req[q]
           row == accounts[r.who]
<1>1. At(q, "open") /\ r.method = "cookie" /\ UNCHANGED rows
  BY Zenon DEF ChangePassword, RequireCookieSession
<1>2. Paced(q) /\ r.pc = "open"
  BY <1>1 DEF Paced, At
<1>3. r.who \in RandomIds /\ r.who \in Ids
  BY <1>1, <1>2, Carried DEF RequestShape
<1>4. Base(r)
  BY <1>2, Carried, Based
<1>5. CASE DeleteSessionsByAccountID(r.who) /\ Answer(q, "unauthorized")
  <2>1. SessionsEvolve /\ SessionInv'
    BY <1>5, SessionsOfAccount, DropEvolves, Zenon DEF DeleteSessionsByAccountID
  <2> QED BY <1>1, <1>2, <1>5, <2>1, SessionAnswerKeeps, Zenon
<1>6. CASE UNCHANGED <<sessions, ended>> /\ Answer(q, "unauthorized")
  <2>1. UNCHANGED <<rows, sessions, ended, ownVars>>
    BY <1>1, <1>6
  <2> QED BY <1>2, <1>6, <2>1, AnswerKeeps, Zenon
<1>7. ASSUME row # None, UNCHANGED <<sessions, ended>>, NEW new \in Passwords,
             Become(q, [r EXCEPT !.pc = "update", !.value = new,
                                 !.admin = row.admin, !.before = SessionsOf(r.who)])
      PROVE  IInv'
  <2> DEFINE u == [r EXCEPT !.pc = "update", !.value = new,
                            !.admin = row.admin, !.before = SessionsOf(r.who)]
  <2>1. row.admin \in BOOLEAN
    BY <1>3, <1>7, RowFacts, Zenon
  <2>2. /\ DOMAIN u = Fields /\ u.pc = "update" /\ u.value = new
        /\ u.admin = row.admin /\ u.before = SessionsOf(r.who) /\ u.who = r.who
        /\ u.method = r.method /\ u.tries = r.tries /\ u.answer = r.answer
    BY <1>4, Zenon DEF Base, Fields
  <2>3. req' = [req EXCEPT ![q] = u]
    BY <1>7, Zenon DEF Become
  <2> HIDE DEF u
  <2>4. Base(u)
    BY <1>4, <2>1, <2>2, Zenon DEF Base
  <2>5. /\ u.before \subseteq Drawn(sessions, ended)
        /\ \A s \in u.before : sessions[s] # None => sessions[s].account = u.who
    <3>1. /\ SessionsOf(r.who) \subseteq Drawn(sessions, ended)
          /\ \A s \in SessionsOf(r.who) : sessions[s].account = r.who
      BY SessionsOfAccount, Zenon
    <3> QED BY <2>2, <3>1, Zenon
  <2>6. /\ RequestShape(u) /\ Ending(u, sessions, ended)
        /\ Targeting(u, workers)
    BY <1>3, <1>7, <2>2, <2>4, <2>5, HandlerShape, Zenon
  <2>7. UNCHANGED <<rows, sessions, ended, ownVars>>
    BY <1>1, <1>7
  <2> QED BY <1>2, <2>3, <2>6, <2>7, ReadKeeps, Zenon
<1> QED BY <1>5, <1>6, <1>7, Zenon DEF ChangePassword, GetAccountByID

(* The rest of ChangePassword: the update, the dropping of the sessions    *)
(* the account had, and the new session.                                   *)
LEMMA UpdatePasswordKeeps ==
    ASSUME IInv, NEW q \in Requests, UNCHANGED ownVars, UpdatePassword(q)
    PROVE  IInv'
<1> DEFINE r == req[q]
           u == [r EXCEPT !.pc = "drop"]
<1>1. At(q, "update") /\ UNCHANGED <<keys, tokens, spent>>
  BY Zenon DEF UpdatePassword
<1>2. Paced(q) /\ r.pc = "update"
  BY <1>1 DEF Paced, At
<1>3. r.who \in RandomIds /\ r.value \in Passwords
  BY <1>2, Carried DEF RequestShape, Cookie
<1>4. /\ Base(r) /\ r.before \subseteq Drawn(sessions, ended)
      /\ \A s \in r.before : sessions[s] # None => sessions[s].account = r.who
  <2>1. r.pc # "idle" /\ r.pc \in {"update", "drop"}
    BY <1>2
  <2> QED BY <2>1, Carried, Based, Zenon DEF Ending
<1>5. CASE /\ UNCHANGED accounts /\ DeleteSessionsByAccountID(r.who)
           /\ Answer(q, "unauthorized")
  <2>1. SessionsEvolve /\ SessionInv'
    BY <1>5, SessionsOfAccount, DropEvolves, Zenon DEF DeleteSessionsByAccountID
  <2>2. UNCHANGED rows
    BY <1>1, <1>5 DEF rows
  <2> QED BY <1>2, <1>5, <2>1, <2>2, SessionAnswerKeeps, Zenon
<1>6. CASE /\ accounts[r.who] # None /\ UpdateAccountPasswordByID(r.who, r.value)
           /\ Goto(q, "drop") /\ UNCHANGED <<sessions, ended>>
  <2>1. /\ NamesInv' /\ (HasAdmin => HasAdmin')
        /\ SecretInv(keys', accounts') /\ SecretInv(tokens', accounts')
    BY <1>1, <1>3, <1>6, PasswordKeeps, Zenon
  <2>2. /\ DOMAIN u = Fields /\ u.pc = "drop" /\ u.admin = r.admin
        /\ u.before = r.before /\ u.who = r.who /\ u.method = r.method
        /\ u.tries = r.tries /\ u.answer = r.answer
    BY <1>4, Zenon DEF Base, Fields
  <2>3. req' = [req EXCEPT ![q] = u]
    BY <1>6, Zenon DEF Goto, Become
  <2> HIDE DEF u
  <2>4. Base(u)
    BY <1>4, <2>2, Zenon DEF Base
  <2>5. /\ u.before \subseteq Drawn(sessions, ended) /\ u.who \in RandomIds
        /\ \A s \in u.before : sessions[s] # None => sessions[s].account = u.who
    BY <1>3, <1>4, <2>2, Zenon
  <2>6. /\ RequestShape(u) /\ Ending(u, sessions, ended)
        /\ Targeting(u, workers)
    BY <2>2, <2>4, <2>5, HandlerShape, Zenon
  <2>7. UNCHANGED <<sessions, ended, ownVars>>
    BY <1>6
  <2> QED BY <1>2, <2>1, <2>3, <2>6, <2>7, RowStepKeeps, Zenon
<1> QED BY <1>5, <1>6, Zenon DEF UpdatePassword, GetAccountByID

(* deleteSessionsByAccountID after the update: the sessions noted are      *)
(* gone.                                                                   *)
LEMMA RotateSessionsKeeps ==
    ASSUME IInv, NEW q \in Requests, UNCHANGED ownVars, RotateSessions(q)
    PROVE  IInv'
<1> DEFINE r == req[q]
           u == [r EXCEPT !.pc = "renew"]
           S == SessionsOf(r.who)
<1>1. At(q, "drop") /\ Drop(S) /\ Goto(q, "renew") /\ UNCHANGED rows
  BY Zenon DEF RotateSessions, DeleteSessionsByAccountID
<1>2. Paced(q) /\ r.pc = "drop"
  BY <1>1 DEF Paced, At
<1>3. r.who \in RandomIds
  BY <1>2, Carried DEF RequestShape, Cookie
<1>4. /\ Base(r) /\ r.before \subseteq Drawn(sessions, ended)
      /\ \A s \in r.before : sessions[s] # None => sessions[s].account = r.who
  <2>1. r.pc # "idle" /\ r.pc \in {"update", "drop"}
    BY <1>2
  <2> QED BY <2>1, Carried, Based, Zenon DEF Ending
<1>5. /\ S \subseteq Present(sessions)
      /\ \A s \in Drawn(sessions, ended) :
            sessions[s] # None /\ sessions[s].account = r.who => s \in S
  BY SessionsOfAccount, Zenon
<1> HIDE DEF S
<1>6. /\ SessionsEvolve /\ SessionInv' /\ \A s \in S : sessions'[s] = None
      /\ Drawn(sessions', ended') = Drawn(sessions, ended)
  BY <1>1, <1>5, DropEvolves, Zenon
<1>7. \A s \in r.before : sessions'[s] = None
  BY <1>4, <1>5, <1>6, Zenon DEF SessionsEvolve
<1>8. /\ DOMAIN u = Fields /\ u.pc = "renew" /\ u.admin = r.admin
      /\ u.before = r.before /\ u.who = r.who /\ u.method = r.method
      /\ u.tries = r.tries /\ u.answer = r.answer
  BY <1>4, Zenon DEF Base, Fields
<1>9. req' = [req EXCEPT ![q] = u]
  BY <1>1, Zenon DEF Goto, Become
<1> HIDE DEF u
<1>10. Base(u)
  BY <1>4, <1>8, Zenon DEF Base
<1>11. /\ u.before \subseteq Drawn(sessions', ended') /\ u.who \in RandomIds
       /\ \A s \in u.before : sessions'[s] = None
  BY <1>3, <1>4, <1>6, <1>7, <1>8, Zenon
<1>12. /\ RequestShape(u) /\ Ending(u, sessions', ended')
       /\ Targeting(u, workers)
  BY <1>8, <1>10, <1>11, HandlerShape, Zenon
<1> QED BY <1>1, <1>2, <1>6, <1>9, <1>12, SessionStepKeeps, Zenon

(* createSession for who changed the password draws a new id.              *)
LEMMA RenewSessionKeeps ==
    ASSUME Countable, IInv, NEW q \in Requests, UNCHANGED ownVars, RenewSession(q)
    PROVE  IInv'
<1>1. /\ At(q, "renew") /\ CreateSession(req[q].who, req[q].admin)
      /\ Answer(q, "changed") /\ UNCHANGED rows
  BY Zenon DEF RenewSession
<1>2. Paced(q) /\ req[q].pc = "renew"
  BY <1>1 DEF Paced, At
<1>3. req[q].who \in RandomIds /\ req[q].admin \in BOOLEAN
  BY <1>2, Carried DEF RequestShape, Cookie
<1>4. SessionsEvolve /\ SessionInv'
  BY <1>1, <1>3, CreateEvolves, Zenon
<1> QED BY <1>1, <1>2, <1>4, SessionAnswerKeeps, Zenon

(* DeleteAccount: the row with its secrets, then the sessions.             *)
LEMMA DeleteAccountKeeps ==
    ASSUME IInv, NEW q \in Requests, UNCHANGED ownVars, DeleteAccount(q)
    PROVE  IInv'
<1> DEFINE r == req[q]
<1>1. At(q, "open") /\ UNCHANGED <<sessions, ended, ownVars>>
  BY Zenon DEF DeleteAccount, RequireAdmin
<1>2. Paced(q) /\ r.pc = "open" /\ r.pc # "idle"
  BY <1>1 DEF Paced, At
<1>3. Base(r)
  BY <1>2, Carried, Based, Zenon
<1>4. CASE Answer(q, "notDeleted") /\ UNCHANGED rows
  <2>1. UNCHANGED <<rows, sessions, ended, ownVars>>
    BY <1>1, <1>4
  <2> QED BY <1>2, <1>4, <2>1, AnswerKeeps, Zenon
<1>5. ASSUME NEW a \in Ids, accounts[a] # None, ~accounts[a].admin,
             DeleteNonAdminAccountByID(a),
             Become(q, [r EXCEPT !.pc = "revoke", !.arg = a,
                                 !.before = SessionsOf(a)])
      PROVE  IInv'
  <2> DEFINE u == [r EXCEPT !.pc = "revoke", !.arg = a, !.before = SessionsOf(a)]
  <2>1. /\ NamesInv' /\ (HasAdmin => HasAdmin')
        /\ SecretInv(keys', accounts') /\ SecretInv(tokens', accounts')
    BY <1>5, RemovalKeeps, Zenon
  <2>2. /\ DOMAIN u = Fields /\ u.pc = "revoke" /\ u.arg = a /\ u.admin = r.admin
        /\ u.before = SessionsOf(a) /\ u.who = r.who /\ u.method = r.method
        /\ u.tries = r.tries /\ u.answer = r.answer
    BY <1>3, Zenon DEF Base, Fields
  <2>3. req' = [req EXCEPT ![q] = u]
    BY <1>5, Zenon DEF Become
  <2> HIDE DEF u
  <2>4. Base(u)
    BY <1>3, <2>2, Zenon DEF Base
  <2>5. /\ u.before \subseteq Drawn(sessions, ended)
        /\ \A s \in u.before : sessions[s] # None => sessions[s].account = u.arg
    <3>1. /\ SessionsOf(a) \subseteq Drawn(sessions, ended)
          /\ \A s \in SessionsOf(a) : sessions[s].account = a
      BY SessionsOfAccount, Zenon
    <3> QED BY <2>2, <3>1, Zenon
  <2>6. /\ RequestShape(u) /\ Ending(u, sessions, ended)
        /\ Targeting(u, workers)
    BY <2>2, <2>4, <2>5, HandlerShape, Zenon
  <2> QED BY <1>1, <1>2, <2>1, <2>3, <2>6, RowStepKeeps, Zenon
<1> QED BY <1>4, <1>5, Zenon DEF DeleteAccount

(* deleteSessionsByAccountID after the deletion of the account.            *)
LEMMA RevokeAccountKeeps ==
    ASSUME IInv, NEW q \in Requests, UNCHANGED ownVars, RevokeAccount(q)
    PROVE  IInv'
<1>1. /\ At(q, "revoke") /\ DeleteSessionsByAccountID(req[q].arg)
      /\ Answer(q, "deleted") /\ UNCHANGED rows
  BY Zenon DEF RevokeAccount
<1>2. Paced(q)
  BY <1>1 DEF Paced
<1>3. SessionsEvolve /\ SessionInv'
  BY <1>1, SessionsOfAccount, DropEvolves, Zenon DEF DeleteSessionsByAccountID
<1> QED BY <1>1, <1>2, <1>3, SessionAnswerKeeps, Zenon

-----------------------------------------------------------------------------
(* Start-up and restart.                                                   *)

(* The first start finds no administrator, hence no secret either.         *)
LEMMA StartKeeps ==
    ASSUME Countable, IInv, UNCHANGED ownVars, InitializeAdminAccount
    PROVE  IInv'
<1> DEFINE Admins == {a \in Present(accounts) : accounts[a].admin}
<1>1. /\ UNCHANGED <<tokens, spent>> /\ UNCHANGED <<sessions, ended>>
      /\ UNCHANGED req /\ UNCHANGED <<made, restarts>>
  BY Zenon DEF InitializeAdminAccount
<1>2. /\ accounts \in [Ids -> Account \cup {None}] /\ DOMAIN accounts = Ids
      /\ Admins \subseteq Ids /\ (HasAdmin <=> Admins # {})
  BY RowFacts, Zenon DEF IInv, NamesInv, Present, HasAdmin
<1>3. /\ SessionInv' /\ WorkerInv' /\ BoxInv' /\ Bounds' /\ RequestInv'
  <2>1. SessionInv' /\ WorkerInv' /\ BoxInv'
    BY <1>1, SessionsStay, WorkersStay, Zenon
  <2>2. workers' = workers /\ retired' = retired
    BY Zenon DEF ownVars
  <2> QED BY <1>1, <2>1, <2>2, Zenon DEF IInv, Bounds, RequestInv
<1>4. CASE CountAdminAccounts > 0 /\ UNCHANGED <<accounts, keys>>
  <2>1. HasAdmin
    <3>1. Cardinality(Admins) > 0
      BY <1>4 DEF CountAdminAccounts
    <3>2. Cardinality({}) = 0
      BY DEF Countable
    <3> HIDE DEF Admins
    <3>3. Admins # {}
      BY <3>1, <3>2
    <3> QED BY <1>2, <3>3, Zenon
  <2>2. UNCHANGED rows
    BY <1>1, <1>4 DEF rows
  <2>3. /\ NamesInv' /\ HasAdmin'
        /\ SecretInv(keys', accounts') /\ SecretInv(tokens', accounts')
    BY <2>1, <2>2, RowsStay, Zenon
  <2>4. (SecretInv(keys, accounts))' /\ (SecretInv(tokens, accounts))'
    BY <2>3, Zenon DEF SecretInv
  <2> QED BY <1>3, <2>3, <2>4, Zenon DEF IInv, StartInv
<1>5. ASSUME CountAdminAccounts = 0, NEW a \in RandomIds, NEW n \in Names,
             NEW p \in Passwords, ~AccountConflict(a, n),
             InsertAccount(a, [name |-> n, password |-> p, admin |-> TRUE]),
             \/ UNCHANGED keys
             \/ \E k \in SecretIds, l \in Labels, v \in Values :
                  InsertAPIKey(k, [account |-> a, label |-> l, value |-> v])
      PROVE  IInv'
  <2> DEFINE row == [name |-> n, password |-> p, admin |-> TRUE]
  <2>1. row \in Account /\ row.name = n /\ row.admin
    BY Zenon DEF Account
  <2>2. row # None
    BY <2>1, AccountsAssumption, Zenon
  <2>3. InsertAccount(a, row) /\ ~AccountConflict(a, row.name)
    BY <1>5, <2>1, Zenon
  <2>4. a \in Ids /\ a # JitId /\ JitId \in Ids
    BY <1>5, RowFacts, Zenon
  <2> HIDE DEF row
  <2>5. /\ accounts' = [accounts EXCEPT ![a] = row]
        /\ \A b \in Ids : accounts[b] # None => accounts[b].name # row.name
    BY <1>2, <2>3, Zenon DEF InsertAccount, AccountConflict,
                              GetAccountByUsernameKey, Present
  <2>6. /\ accounts' \in [Ids -> Account \cup {None}]
        /\ \A b \in Ids : accounts'[b] = IF b = a THEN row ELSE accounts[b]
    BY <1>2, <2>1, <2>4, <2>5, Zenon
  <2>7. NamesInv'
    BY <1>1, <2>4, <2>5, <2>6, Zenon DEF IInv, NamesInv
  <2>8. HasAdmin'
    BY <2>1, <2>2, <2>4, <2>6, Zenon DEF HasAdmin
  <2>9. \A i \in SecretIds : keys[i] = None /\ tokens[i] = None
    <3>1. Cardinality(Admins) = 0
      BY <1>5 DEF CountAdminAccounts
    <3>2. Admins = {}
      BY <1>2, <3>1, Zenon DEF Countable
    <3> QED BY <1>2, <3>2, Zenon DEF IInv, StartInv
  <2>10. SecretInv(keys, accounts') /\ SecretInv(tokens, accounts')
    BY <2>9, Zenon DEF IInv, SecretInv
  <2>11. SecretInv(keys', accounts')
    <3>1. CASE UNCHANGED keys
      BY <2>10, <3>1
    <3>2. ASSUME NEW k \in SecretIds, NEW l \in Labels, NEW v \in Values,
                 InsertAPIKey(k, [account |-> a, label |-> l, value |-> v])
          PROVE  SecretInv(keys', accounts')
      <4> DEFINE key == [account |-> a, label |-> l, value |-> v]
      <4>1. key \in Secret /\ key.account = a
        BY <2>4, Zenon DEF Secret
      <4>2. keys' = [keys EXCEPT ![k] = key]
        BY <3>2, Zenon DEF InsertAPIKey
      <4> HIDE DEF key
      <4>3. k \notin Present(keys) /\ \A i \in Present(keys) : keys[i].value # key.value
        BY <2>9, RowFacts, Zenon DEF Present
      <4>4. accounts'[key.account] # None /\ key.account # JitId
        BY <2>2, <2>4, <2>6, <4>1, Zenon
      <4>5. SecretInv([keys EXCEPT ![k] = key], accounts')
        BY <2>10, <3>2, <4>1, <4>3, <4>4, SecretInserted, Zenon
      <4> QED BY <4>2, <4>5
    <3> QED BY <1>5, <3>1, <3>2, Zenon
  <2>12. (SecretInv(keys, accounts))' /\ (SecretInv(tokens, accounts))'
    BY <1>1, <2>10, <2>11, Zenon DEF SecretInv
  <2> QED BY <1>3, <2>7, <2>8, <2>12, Zenon DEF IInv, StartInv
<1> QED BY <1>4, <1>5, Zenon DEF InitializeAdminAccount

(* A restart ends every session and every request.                         *)
LEMMA RestartKeeps ==
    ASSUME IInv, UNCHANGED ownVars, RestartConsole
    PROVE  IInv'
<1>1. /\ started /\ restarts < MaxRestarts /\ restarts' = restarts + 1
      /\ Drop(Present(sessions)) /\ req' = [q \in Requests |-> Idle]
      /\ UNCHANGED rows /\ UNCHANGED made
  BY Zenon DEF RestartConsole
<1>2. SessionInv' /\ WorkerInv' /\ BoxInv'
  BY <1>1, DropEvolves, WorkersStay, Zenon
<1>3. HasAdmin
  BY <1>1, Zenon DEF IInv, StartInv
<1>4. /\ NamesInv' /\ HasAdmin'
      /\ SecretInv(keys', accounts') /\ SecretInv(tokens', accounts')
  BY <1>1, <1>3, RowsStay, Zenon
<1>5. (SecretInv(keys, accounts))' /\ (SecretInv(tokens, accounts))'
  BY <1>4, Zenon DEF SecretInv
<1>6. Bounds'
  <2>1. made \in 0..MaxRequests /\ restarts \in 0..MaxRestarts
    BY Zenon DEF IInv, Bounds
  <2> QED BY <1>1, <2>1, AccountsAssumption DEF Bounds
<1>7. RequestInv'
  <2>1. /\ DOMAIN Idle = Fields /\ Idle.pc = "idle" /\ Idle.admin = FALSE
        /\ Idle.tries = 0 /\ Idle.method = None /\ Idle.who = None
        /\ Idle.before = {}
    BY Zenon DEF Idle, Fields
  <2>3. /\ RequestShape(Idle) /\ Ending(Idle, sessions', ended')
        /\ Targeting(Idle, workers')
    BY <2>1, Resting, Zenon
  <2>4. \A q \in Requests : req'[q] = Idle
    BY <1>1, Zenon
  <2>5. req' = [q \in Requests |-> req'[q]]
    BY <1>1, <2>4, Zenon
  <2> QED BY <2>3, <2>4, <2>5, Zenon DEF RequestInv
<1> QED BY <1>2, <1>4, <1>5, <1>6, <1>7, Zenon DEF IInv, StartInv

(* Every step of Accounts.                                                 *)
LEMMA AccountsKeep ==
    ASSUME Countable, IInv, Next, UNCHANGED ownVars
    PROVE  IInv'
<1>1. CASE InitializeAdminAccount
  BY <1>1, StartKeeps, Zenon
<1>2. CASE RestartConsole
  BY <1>2, RestartKeeps, Zenon
<1>3. ASSUME NEW q \in Requests,
             \/ Login(q) \/ FinishLogin(q) \/ Logout(q)
             \/ SessionState(q) \/ LookupAPIKey(q) \/ RequireAuth(q)
             \/ RequireToken(q)
             \/ VerifyJIT(q) \/ EnsureJITAccount(q) \/ AdmitJIT(q)
             \/ Reads(q)
      PROVE  IInv'
  BY <1>3, LoginKeeps, LoginLogoutKeeps, SessionStateKeeps, KeyAuthKeeps,
     RequireAuthKeeps, VerifyJITKeeps, EnsureJITKeeps, AdmitJITKeeps,
     ReadsKeeps, Zenon
<1>4. ASSUME NEW q \in Requests,
             \/ Register(q) \/ CreateAccountWithRetry(q)
             \/ ClassifyAccountInsertConflict(q)
             \/ ChangePassword(q) \/ UpdatePassword(q)
             \/ RotateSessions(q) \/ RenewSession(q)
             \/ DeleteAccount(q) \/ RevokeAccount(q)
      PROVE  IInv'
  BY <1>4, InsertTurnKeeps, ClassifyKeeps, ChangePasswordKeeps,
     UpdatePasswordKeeps, RotateSessionsKeeps, RenewSessionKeeps,
     DeleteAccountKeeps, RevokeAccountKeeps, Zenon
<1>5. ASSUME NEW q \in Requests,
             \/ CreateAPIKey(q) \/ RetryAPIKey(q)
             \/ ClassifyAPIKeyInsertConflict(q) \/ DeleteAPIKey(q)
             \/ CreateToken(q) \/ RetryToken(q)
             \/ ClassifyTrustedTokenInsertConflict(q) \/ DeleteToken(q)
      PROVE  IInv'
  BY <1>5, CreateSecretKeeps, ClassifyKeeps, DeleteSecretKeeps, Zenon
<1> QED BY <1>1, <1>2, <1>3, <1>4, <1>5, Zenon DEF Next

-----------------------------------------------------------------------------
(* Identifiers.                                                            *)

Pieces == UNION {{e[i] : i \in 1..Len(e)} : e \in AllIds}
Parts == Pieces \cup {Obx} \cup Ids

(* A scoped id starts with the prefix and the account, and the rest is the *)
(* client's id, colons included (scopeTerminalSessionID).                  *)
LEMMA ScopeFacts ==
    ASSUME NEW o \in Ids, NEW e \in AllIds
    PROVE  LET id == ScopeTerminalSessionID(o, e) IN
           /\ Len(id) >= 3 /\ id[1] = Obx /\ id[2] = o
           /\ SubSeq(id, 3, Len(id)) = e /\ SubSeq(id, 1, 2) = <<Obx, o>>
<1> DEFINE s == <<Obx, o>> \o e
<1>1. Obx \in Parts /\ o \in Parts
  BY Zenon DEF Parts
<1>2. e \in Seq(Parts) /\ e # <<>>
  <2>1. e \in Seq(Pieces) /\ e # <<>>
    BY OwnershipAssumption DEF Pieces
  <2>2. \A x \in Pieces : x \in Parts
    BY Zenon DEF Parts
  <2> QED BY <2>1, <2>2
<1> HIDE DEF Parts
<1>3. /\ s \in Seq(Parts) /\ Len(s) = Len(e) + 2 /\ Len(e) \in Nat \ {0}
      /\ s[1] = Obx /\ s[2] = o
  BY <1>1, <1>2
<1>4. SubSeq(s, 3, Len(s)) = e
  BY <1>1, <1>2
<1> HIDE DEF s
<1>5. SubSeq(s, 1, 2) = <<Obx, o>>
  <2>1. SubSeq(s, 1, 2) = [i \in 1..2 |-> s[i]]
    BY <1>3
  <2>2. <<Obx, o>> = [i \in 1..2 |-> IF i = 1 THEN Obx ELSE o]
    OBVIOUS
  <2>3. [i \in 1..2 |-> IF i = 1 THEN Obx ELSE o] = [i \in 1..2 |-> s[i]]
    BY <1>3
  <2> QED BY <2>1, <2>2, <2>3, Zenon
<1>6. Len(s) >= 3
  BY <1>3
<1> QED BY <1>3, <1>4, <1>5, <1>6, Zenon DEF s, ScopeTerminalSessionID

(* Two accounts never share a scoped id.                                   *)
LEMMA ScopeInjective ==
    ASSUME NEW o \in Ids, NEW e \in AllIds, NEW p \in Ids, NEW f \in AllIds,
           ScopeTerminalSessionID(o, e) = ScopeTerminalSessionID(p, f)
    PROVE  o = p /\ e = f
<1> DEFINE s == ScopeTerminalSessionID(o, e)
           t == ScopeTerminalSessionID(p, f)
<1>1. s[2] = o /\ SubSeq(s, 3, Len(s)) = e
  BY ScopeFacts, Zenon
<1>2. t[2] = p /\ SubSeq(t, 3, Len(t)) = f
  BY ScopeFacts, Zenon
<1>3. s = t
  OBVIOUS
<1> HIDE DEF s, t
<1> QED BY <1>1, <1>2, <1>3, Zenon

(* Parsing and restoring undo the scoping.                                 *)
LEMMA ScopeUndone ==
    ASSUME NEW o \in Ids, NEW e \in AllIds
    PROVE  LET id == ScopeTerminalSessionID(o, e) IN
           /\ ParseScopedTerminalSessionID(id) = {[account |-> o, session |-> e]}
           /\ UnscopeTerminalSessionID(o, id) = e
<1> DEFINE id == ScopeTerminalSessionID(o, e)
<1>1. /\ Len(id) >= 3 /\ id[1] = Obx /\ id[2] = o
      /\ SubSeq(id, 3, Len(id)) = e /\ SubSeq(id, 1, 2) = <<Obx, o>>
  BY ScopeFacts, Zenon
<1> HIDE DEF id
<1>2. ParseScopedTerminalSessionID(id) = {[account |-> o, session |-> e]}
  BY <1>1, Zenon DEF ParseScopedTerminalSessionID
<1>3. UnscopeTerminalSessionID(o, id) = e
  BY <1>1, Zenon DEF UnscopeTerminalSessionID
<1> QED BY <1>2, <1>3, Zenon DEF id

(* The records under a scoped id are the account's.                        *)
LEMMA BoundOwn ==
    ASSUME IInv, NEW o \in Ids, NEW e \in AllIds,
           NEW b \in Bound(ScopeTerminalSessionID(o, e))
    PROVE  b.by = o /\ b.ext = e
<1>1. b \in boxes /\ b.id = ScopeTerminalSessionID(o, e)
  BY Zenon DEF Bound
<1>2. BoxShape(b)
  BY <1>1, Zenon DEF IInv, BoxInv
<1>3. /\ b.by \in Ids /\ b.ext \in AllIds
      /\ ScopeTerminalSessionID(b.by, b.ext) = ScopeTerminalSessionID(o, e)
  BY <1>1, <1>2, Zenon DEF BoxShape
<1>4. \A x \in Ids, y \in AllIds :
         ScopeTerminalSessionID(x, y) = ScopeTerminalSessionID(o, e) => x = o /\ y = e
  BY ScopeInjective, Zenon
<1> QED BY <1>3, <1>4, Zenon

-----------------------------------------------------------------------------
(* Tasks.                                                                  *)

(* What a front end can submit.                                            *)
InputShape(in) ==
    \/ /\ in.cap = "terminalExec" /\ in.ext \in ExternalIds \cup {None}
       /\ in.create \in BOOLEAN /\ (in.ext = None => in.decodes)
    \/ /\ in.cap = "computerUse" /\ in.ext = None /\ in.create = FALSE
       /\ in.worker \in WorkerIds \cup {None}
    \/ /\ in.cap \in {"readImage", "terminalResource"} /\ in.ext \in ExternalIds
       /\ in.create = FALSE

(* What a front end submits, the second submission of readImage included.  *)
LEMMA InputShapes ==
    ASSUME NEW in, \/ in \in Inputs
                   \/ \E e \in ExternalIds :
                         in = Input(ResourceCapability(e), e, FALSE, None)
    PROVE  InputShape(in)
<1>1. \A e : ResourceCapability(e) \in {"readImage", "terminalResource"}
  BY Zenon DEF ResourceCapability
<1>2. CASE in \in TerminalCommand
  <2>1. PICK e \in ExternalIds \cup {None}, c \in BOOLEAN :
           in = Input("terminalExec", e, c, None)
    BY <1>2 DEF TerminalCommand
  <2>2. in.cap = "terminalExec" /\ in.ext = e /\ in.create = c /\ in.decodes
    BY <2>1, Zenon DEF Input
  <2> QED BY <2>1, <2>2, Zenon DEF InputShape
<1>3. CASE in \in ComputerUseCommand
  <2>1. PICK w \in WorkerIds \cup {None} : in = Input("computerUse", None, FALSE, w)
    BY <1>3, Zenon DEF ComputerUseCommand
  <2>2. in.cap = "computerUse" /\ in.ext = None /\ in.create = FALSE /\ in.worker = w
    BY <2>1, Zenon DEF Input
  <2> QED BY <2>1, <2>2, Zenon DEF InputShape
<1>4. ASSUME NEW cap \in {"readImage", "terminalResource"}, NEW e \in ExternalIds,
             in = Input(cap, e, FALSE, None)
      PROVE  InputShape(in)
  <2>1. in.cap = cap /\ in.ext = e /\ in.create = FALSE
    BY <1>4, Zenon DEF Input
  <2> QED BY <1>4, <2>1, Zenon DEF InputShape
<1>6. CASE in \in Undecoded
  <2>1. PICK cap \in Terminal \cup {"readImage"}, e \in ExternalIds :
           in = UndecodedInput(cap, e)
    BY <1>6 DEF Undecoded
  <2>2. in.cap = cap /\ in.ext = e /\ in.create = FALSE
    BY <2>1, Zenon DEF UndecodedInput, Input
  <2>3. /\ cap \in {"terminalExec", "terminalResource", "readImage"}
        /\ e # None
    BY OwnershipAssumption DEF Terminal, AllIds
  <2> QED BY <2>1, <2>2, <2>3, Zenon DEF InputShape
<1>5. CASE in \in Inputs
  <2> DEFINE Images == {Input("readImage", e, FALSE, None) : e \in ExternalIds}
             Resources ==
                {Input("terminalResource", e, FALSE, None) : e \in ExternalIds}
  <2>1. CASE in \in HandleMCPReadImageTool
    BY <1>1, <1>4, <2>1, Zenon DEF HandleMCPReadImageTool
  <2>2. CASE in \in Images \/ in \in Resources
    BY <1>4, <2>2, Zenon
  <2> HIDE DEF Images, Resources
  <2>3. \/ in \in TerminalCommand \/ in \in ComputerUseCommand
        \/ in \in Images \/ in \in Resources \/ in \in HandleMCPReadImageTool
        \/ in \in Undecoded
    BY <1>5, Zenon DEF Inputs, SubmitTaskHandler, Images, Resources
  <2> QED BY <1>2, <1>3, <1>6, <2>1, <2>2, <2>3, Zenon
<1> QED BY <1>1, <1>4, <1>5, Zenon

(* What prepareTaskInput lets through: a session of the account, never     *)
(* created under the reserved prefix, or a worker-sys of the account.      *)
LetThrough(o, in, p) ==
    /\ \/ p.worker = None /\ p.cap \in Terminal
       \/ ValidateWorkerSysTarget(o, p.worker)
    /\ p.cap # "dashboard-jit"
    /\ p.cap \in {"terminalResource", "readImage"} => in.ext \in ExternalIds
    /\ p.worker = None /\ in.ext = None => in.cap = "terminalExec"
    /\ p.worker = None /\ in.create /\ in.ext # None =>
         ~IsComputerUseSessionID(in.ext)
(* What prepareTaskInput lets through.                                     *)
LEMMA PreparedTask ==
    ASSUME NEW o, NEW in, InputShape(in),
           PrepareTaskInput(o, in).verdict = "dispatch"
    PROVE  LetThrough(o, in, PrepareTaskInput(o, in))
<1> DEFINE p == PrepareTaskInput(o, in)
<1>1. /\ \A v : v # "dispatch" => NoDispatch(v).verdict # "dispatch"
      /\ \A x, cap, w : x = Prepared(cap, w) => x.cap = cap /\ x.worker = w
  <2>1. \A v : NoDispatch(v).verdict = v
    BY Zenon DEF NoDispatch
  <2>2. \A cap, w : Prepared(cap, w).cap = cap /\ Prepared(cap, w).worker = w
    BY Zenon DEF Prepared
  <2> QED BY <2>1, <2>2
<1>2. "list" # "dispatch" /\ "invalid" # "dispatch"
  OBVIOUS
<1>3. \A cap, w : TargetOf(o, cap, w).verdict = "dispatch" =>
         /\ ValidateWorkerSysTarget(o, w)
         /\ TargetOf(o, cap, w) = Prepared(cap, w)
  BY <1>1, <1>2, Zenon DEF TargetOf
<1>4. None \notin ExternalIds
  BY OwnershipAssumption, Zenon DEF AllIds
<1>5. CASE in.cap = "computerUse" /\ in.worker = None
  <2>1. p = NoDispatch("list")
    BY <1>5 DEF PrepareTaskInput
  <2> QED BY <1>1, <1>2, <2>1, Zenon
<1>6. CASE in.cap = "computerUse" /\ in.worker # None
  <2>1. p = TargetOf(o, "computerUse", in.worker)
    BY <1>6 DEF PrepareTaskInput
  <2>2. p = Prepared("computerUse", in.worker) /\ ValidateWorkerSysTarget(o, in.worker)
    BY <1>3, <2>1, Zenon
  <2>5. p.cap = "computerUse" /\ p.worker = in.worker
    BY <1>1, <2>2, Zenon
  <2>3. /\ p.cap = "computerUse" /\ p.worker = in.worker
        /\ ValidateWorkerSysTarget(o, p.worker)
    BY <2>2, <2>5, Zenon
  <2>4. "computerUse" \notin {"terminalResource", "readImage", "dashboard-jit"}
    OBVIOUS
  <2> QED BY <1>6, <2>3, <2>4, Zenon DEF LetThrough
<1>7. CASE in.cap = "readImage"
  <2>1. in.ext \in ExternalIds /\ in.ext # None /\ in.create = FALSE
    BY <1>4, <1>7 DEF InputShape
  <2>2. CASE ~IsComputerUseSessionID(in.ext)
    <3>1. p = Prepared("terminalResource", None)
      BY <1>7, <2>2 DEF PrepareTaskInput
    <3>2. p.cap = "terminalResource" /\ p.worker = None
      BY <1>1, <3>1, Zenon
    <3>3. p.cap \in Terminal /\ p.cap # "dashboard-jit"
      BY <3>2 DEF Terminal
    <3> QED BY <2>1, <3>2, <3>3, Zenon DEF LetThrough
  <2>3. CASE IsComputerUseSessionID(in.ext)
    <3>1. p = TargetOf(o, "readImage", in.ext[2])
      BY <1>7, <2>3 DEF PrepareTaskInput
    <3>2. /\ p = Prepared("readImage", in.ext[2])
          /\ ValidateWorkerSysTarget(o, in.ext[2])
      BY <1>3, <3>1, Zenon
    <3>5. p.cap = "readImage" /\ p.worker = in.ext[2]
      BY <1>1, <3>2, Zenon
    <3>3. p.cap = "readImage" /\ ValidateWorkerSysTarget(o, p.worker)
      BY <3>2, <3>5, Zenon
    <3>4. "readImage" # "dashboard-jit"
      OBVIOUS
    <3> QED BY <2>1, <3>3, <3>4, Zenon DEF LetThrough
  <2> QED BY <2>2, <2>3
<1>8. CASE in.cap = "terminalExec" /\ in.create /\ in.ext # None
  <2>1. p = IF IsComputerUseSessionID(in.ext) THEN NoDispatch("invalid")
            ELSE Prepared(in.cap, None)
    BY <1>8 DEF PrepareTaskInput
  <2>2. ~IsComputerUseSessionID(in.ext) /\ p = Prepared(in.cap, None)
    BY <1>1, <1>2, <2>1, Zenon
  <2>3. p.cap = "terminalExec" /\ p.worker = None
    BY <1>1, <1>8, <2>2
  <2>4. /\ p.cap \in Terminal
        /\ p.cap \notin {"terminalResource", "readImage", "dashboard-jit"}
    BY <2>3 DEF Terminal
  <2> QED BY <1>8, <2>2, <2>3, <2>4, Zenon DEF LetThrough
<1>9. CASE /\ in.cap \in {"terminalExec", "terminalResource"}
           /\ ~(in.cap = "terminalExec" /\ in.create /\ in.ext # None)
  <2>1. p = Prepared(in.cap, None)
    BY <1>9 DEF PrepareTaskInput
  <2>2. p.cap = in.cap /\ p.worker = None
    BY <1>1, <2>1, Zenon
  <2>3. p.cap \in Terminal /\ p.cap # "dashboard-jit"
    BY <1>9, <2>2 DEF Terminal
  <2>4. in.cap # "terminalExec" => in.ext \in ExternalIds /\ in.create = FALSE
    BY <1>9 DEF InputShape
  <2>5. "terminalExec" \notin {"terminalResource", "readImage"}
    OBVIOUS
  <2> QED BY <1>4, <1>9, <2>2, <2>3, <2>4, <2>5, Zenon DEF LetThrough
<1> QED BY <1>5, <1>6, <1>7, <1>8, <1>9, Zenon DEF InputShape

(* What a submitted task carries.                                          *)
LEMMA TaskShape ==
    ASSUME NEW u, Base(u), u.pc \in {"dispatch", "create", "forward"}, u.who \in Ids,
           u.pc # "forward" /\ u.value = None => /\ u.method \in Terminal /\ u.arg \in AllIds
                             /\ u.draw = ScopeTerminalSessionID(u.who, u.arg),
           u.method \in {"terminalResource", "readImage"} => u.arg \in ExternalIds,
           u.pc = "create" /\ u.value = None => ~IsComputerUseSessionID(u.arg),
           u.pc = "forward" => u.method \in Terminal,
           NEW map, NEW gone, u.before \subseteq Drawn(map, gone),
           NEW labels,
           u.value # None => u.value \in WorkerIds /\ Own(u, u.value, labels)
    PROVE  RequestShape(u) /\ Ending(u, map, gone) /\ Targeting(u, labels)
<1>1. Ending(u, map, gone)
  BY DEF Ending
<1>2. Targeting(u, labels)
  <2>1. u.pc \notin {"unprovision", "unlist"}
    OBVIOUS
  <2> QED BY <2>1, Zenon DEF Targeting
<1>3. ASSUME u.pc = "dispatch" PROVE RequestShape(u)
  BY <1>3, Zenon DEF RequestShape, Base, Cookie
<1>4. ASSUME u.pc = "create" PROVE RequestShape(u)
  BY <1>4, Zenon DEF RequestShape, Base, Cookie
<1>5. ASSUME u.pc = "forward" PROVE RequestShape(u)
  BY <1>5, Zenon DEF RequestShape, Base, Cookie
<1> QED BY <1>1, <1>2, <1>3, <1>4, <1>5, Zenon

(* SubmitTask: the input is prepared and scoped for the caller.            *)
LEMMA SubmitTaskKeeps ==
    ASSUME IInv, NEW q \in Requests, SubmitTask(q)
    PROVE  IInv'
<1> DEFINE r == req[q]
<1>1. At(q, "owner") /\ UNCHANGED <<rows, sessions, ended, ownVars>>
  BY Zenon DEF SubmitTask
<1>2. Paced(q) /\ r.pc = "owner" /\ r.pc # "idle"
  BY <1>1 DEF Paced, At
<1>3. /\ Base(r) /\ r.before \subseteq Drawn(sessions, ended)
  BY <1>2, Carried, Based, Zenon
<1>4. r.who \in Ids /\ r.arg \in ExternalIds \cup {None}
  BY <1>2, Carried DEF RequestShape
<1> DEFINE Prep(in) == PrepareTaskInput(r.who, in)
           Sent(in, e) == [r EXCEPT
              !.pc = TaskPlace(in, Prep(in).cap),
              !.method = Prep(in).cap, !.value = Prep(in).worker, !.arg = e,
              !.draw = ScopeTaskInputByOwner(r.who, in, Prep(in).cap, e)]
<1>5. PICK in :
         /\ in \in IF r.arg = None THEN Inputs
                   ELSE {Input(ResourceCapability(r.arg), r.arg, FALSE, None)}
         /\ \/ Answer(q, Prep(in).verdict)
            \/ /\ Prep(in).verdict = "dispatch"
               /\ \E e \in SessionFor(in) : Become(q, Sent(in, e))
  BY Zenon DEF SubmitTask
<1>6. InputShape(in)
  BY <1>4, <1>5, InputShapes, Zenon
<1>7. CASE Answer(q, Prep(in).verdict)
  BY <1>1, <1>2, <1>7, AnswerKeeps, Zenon
<1>8. ASSUME Prep(in).verdict = "dispatch", NEW e \in SessionFor(in),
             Become(q, Sent(in, e))
      PROVE  IInv'
  <2> DEFINE p == Prep(in)
             u == Sent(in, e)
  <2>1. LetThrough(r.who, in, p)
    BY <1>6, <1>8, PreparedTask, Zenon
  <2>2. /\ DOMAIN u = Fields /\ u.who = r.who /\ u.admin = r.admin
        /\ u.pc = TaskPlace(in, p.cap)
        /\ u.method = p.cap /\ u.value = p.worker /\ u.arg = e
        /\ u.draw = ScopeTaskInputByOwner(r.who, in, p.cap, e)
        /\ u.tries = r.tries /\ u.before = r.before /\ u.answer = r.answer
    BY <1>3, Zenon DEF Base, Fields
  <2>3. req' = [req EXCEPT ![q] = u]
    BY <1>8, Zenon DEF Become
  <2> HIDE DEF p, u
  <2>4. Base(u)
    BY <1>3, <2>1, <2>2, Zenon DEF Base, LetThrough
  <2>15. /\ u.pc \in {"dispatch", "create", "forward"}
         /\ u.pc # "forward" /\ p.cap \in Terminal => in.decodes
         /\ u.pc = "forward" => u.method \in Terminal
         /\ u.pc = "create" => in.create \/ (in.cap = "terminalExec" /\ in.ext = None)
    BY <2>2 DEF TaskPlace
  <2>5. /\ in.cap = "terminalExec" /\ in.ext = None => e \in GeneratedIds
        /\ ~(in.cap = "terminalExec" /\ in.ext = None) => e = in.ext
    BY <1>8, Zenon DEF SessionFor
  <2>6. in.ext \in ExternalIds \cup {None} /\ in.create \in BOOLEAN
    BY <1>6, Zenon DEF InputShape
  <2>7. /\ None \notin ExternalIds /\ None \notin WorkerIds
        /\ \A x \in GeneratedIds : ~IsComputerUseSessionID(x)
    <3>1. None \notin ExternalIds /\ None \notin WorkerIds
      BY OwnershipAssumption, Zenon DEF AllIds
    <3>2. \A x \in GeneratedIds : Len(x) = 1
      BY OwnershipAssumption, Zenon
    <3>3. \A x \in GeneratedIds : ~(Len(x) >= 2)
      BY <3>2
    <3> QED BY <3>1, <3>3, Zenon DEF IsComputerUseSessionID
  <2>8. u.value = None => p.cap \in Terminal
    <3>1. ~ValidateWorkerSysTarget(r.who, None)
      BY <2>7, Zenon DEF ValidateWorkerSysTarget, GetByNodeID, Listed, Present, IInv,
                         WorkerInv
    <3> QED BY <2>1, <2>2, <3>1, Zenon DEF LetThrough
  <2>9. u.pc # "forward" /\ u.value = None =>
           /\ u.method \in Terminal /\ u.arg \in AllIds
           /\ u.draw = ScopeTerminalSessionID(u.who, u.arg)
    BY <2>1, <2>2, <2>5, <2>6, <2>8, <2>15, Zenon
       DEF LetThrough, ScopeTaskInputByOwner, Scoped, AllIds
  <2>10. u.method \in {"terminalResource", "readImage"} => u.arg \in ExternalIds
    BY <2>1, <2>2, <2>5, <2>7, Zenon DEF LetThrough
  <2>11. u.pc = "create" /\ u.value = None => ~IsComputerUseSessionID(u.arg)
    BY <2>1, <2>2, <2>5, <2>7, <2>15, Zenon DEF LetThrough
  <2>12. u.value # None =>
            u.value \in WorkerIds /\ Own(u, u.value, workers)
    BY <2>1, <2>2, Zenon DEF LetThrough, ValidateWorkerSysTarget, GetByNodeID,
                             Listed, Present, Own, IInv, WorkerInv
  <2>13. u.pc \in {"dispatch", "create", "forward"} /\ u.who \in Ids
         /\ u.before \subseteq Drawn(sessions, ended)
    BY <1>3, <1>4, <2>2, <2>15, Zenon
  <2>14. /\ RequestShape(u) /\ Ending(u, sessions, ended)
         /\ Targeting(u, workers)
    BY <2>4, <2>9, <2>10, <2>11, <2>12, <2>13, <2>15, TaskShape, Zenon
  <2> QED BY <1>1, <1>2, <2>3, <2>14, ReadKeeps, Zenon
<1> QED BY <1>5, <1>7, <1>8, Zenon

-----------------------------------------------------------------------------
(* The workers and the terminal sessions.                                  *)

(* A step that changes workers or sessions, and keeps them in order.       *)
LEMMA OwnStepKeeps ==
    ASSUME IInv, NEW q \in Requests, Paced(q), NEW a, Answer(q, a),
           WorkersEvolve, WorkerInv', BoxInv',
           UNCHANGED <<rows, sessions, ended>>
    PROVE  IInv'
<1> DEFINE u == [Idle EXCEPT !.answer = a]
<1>1. /\ RequestShape(u) /\ Ending(u, sessions', ended')
      /\ Targeting(u, workers') /\ req' = [req EXCEPT ![q] = u]
  BY Answered, Zenon DEF Answer, Become
<1> HIDE DEF u
<1>2. UNCHANGED rows /\ UNCHANGED <<sessions, ended>>
  OBVIOUS
<1>3. HasAdmin /\ Bounds'
  BY PaceKeeps, Zenon
<1> QED BY <1>1, <1>2, <1>3, RowsStay, SessionsStay, StepKeeps, Zenon

(* Sessions that end leave the others as they were.                        *)
LEMMA BoxesEnd ==
    ASSUME IInv, boxes' \subseteq boxes, UNCHANGED <<workers, retired>>
    PROVE  WorkersEvolve /\ WorkerInv' /\ BoxInv'
<1>1. workers' = workers /\ retired' = retired
  OBVIOUS
<1>2. WorkersEvolve
  BY <1>1, Zenon DEF WorkersEvolve
<1>3. WorkerInv'
  BY <1>1, Zenon DEF IInv, WorkerInv
<1>4. BoxInv'
  <2>1. \A b : (BoxShape(b))' <=> BoxShape(b)
    BY Zenon DEF BoxShape
  <2> QED BY <1>1, <2>1, Zenon DEF IInv, BoxInv
<1> QED BY <1>2, <1>3, <1>4

(* Dispatch: to the checked worker, to the session's worker, or to one     *)
(* that creates the session.                                               *)
LEMMA DispatchKeeps ==
    ASSUME IInv, NEW q \in Requests, Dispatch(q)
    PROVE  IInv'
<1> DEFINE r == req[q]
<1>1. /\ At(q, "dispatch") \/ At(q, "create")
      /\ UNCHANGED <<rows, sessions, ended>>
  BY Zenon DEF Dispatch
<1>2. Paced(q) /\ r.pc \in {"dispatch", "create"}
  BY <1>1 DEF Paced, At
<1>3. /\ r.who \in Ids
      /\ r.method \in {"terminalResource", "readImage"} => r.arg \in ExternalIds
      /\ r.value = None => /\ r.arg \in AllIds
                           /\ r.draw = ScopeTerminalSessionID(r.who, r.arg)
      /\ r.value = None /\ r.pc = "create" => ~IsComputerUseSessionID(r.arg)
  BY <1>2, Carried DEF RequestShape
<1>4. CASE \E a : Answer(q, a) /\ UNCHANGED ownVars
  <2>1. UNCHANGED <<rows, sessions, ended, ownVars>>
    BY <1>1, <1>4
  <2> QED BY <1>2, <1>4, <2>1, AnswerKeeps, Zenon
<1>5. CASE /\ r.method \in {"terminalResource", "readImage"}
           /\ Become(q, [Idle EXCEPT !.pc = "owner", !.who = r.who, !.tries = 1,
                                     !.arg = r.arg])
           /\ UNCHANGED ownVars
  <2> DEFINE u == [Idle EXCEPT !.pc = "owner", !.who = r.who, !.tries = 1,
                               !.arg = r.arg]
  <2>1. /\ DOMAIN u = Fields /\ u.pc = "owner" /\ u.who = r.who /\ u.tries = 1
        /\ u.arg = r.arg /\ u.admin = FALSE /\ u.method = None /\ u.before = {}
        /\ u.answer = None
    BY Zenon DEF Idle, Fields
  <2>2. req' = [req EXCEPT ![q] = u]
    BY <1>5, Zenon DEF Become
  <2> HIDE DEF u
  <2>3. 1 \in 0..(MaxTries - 1)
    BY AccountsAssumption
  <2>4. u.who \in Ids /\ u.arg \in ExternalIds /\ u.method # "dashboard-jit"
    BY <1>3, <1>5, <2>1, AccountsAssumption, Zenon
  <2>5. RequestShape(u)
    BY <2>1, <2>3, <2>4, Zenon DEF RequestShape, Cookie
  <2>6. Ending(u, sessions, ended) /\ Targeting(u, workers)
    BY <2>1 DEF Ending, Targeting
  <2>7. UNCHANGED <<rows, sessions, ended, ownVars>>
    BY <1>1, <1>5
  <2> QED BY <1>2, <2>2, <2>5, <2>6, <2>7, ReadKeeps, Zenon
<1>6. ASSUME r.value = None, Bound(r.draw) = {}, r.pc = "create",
             NEW w \in NormalWorkers,
             boxes' = boxes \cup {[id |-> r.draw, by |-> r.who,
                                   ext |-> r.arg, at |-> w]},
             Answer(q, "done"), UNCHANGED <<workers, retired>>
      PROVE  IInv'
  <2> DEFINE new == [id |-> r.draw, by |-> r.who, ext |-> r.arg, at |-> w]
  <2>1. workers' = workers /\ retired' = retired /\ boxes' = boxes \cup {new}
    BY <1>6
  <2>2. new.id = r.draw /\ new.by = r.who /\ new.ext = r.arg /\ new.at = w
    BY Zenon
  <2> HIDE DEF new
  <2>3. WorkersEvolve
    BY <2>1, Zenon DEF WorkersEvolve
  <2>4. WorkerInv'
    BY <2>1, Zenon DEF IInv, WorkerInv
  <2>5. w \in WorkerIds /\ workers[w] # None
    BY <1>6, Zenon DEF NormalWorkers, Present, IInv, WorkerInv
  <2>6. BoxShape(new)
    BY <1>3, <1>6, <2>2, Zenon DEF BoxShape
  <2>7. \A b \in boxes : b.id # new.id
    BY <1>6, <2>2, Zenon DEF Bound
  <2>8. BoxInv'
    <3>1. \A b \in boxes' : BoxShape(b)
      BY <2>1, <2>6, Zenon DEF IInv, BoxInv
    <3>2. \A b \in boxes' : (BoxShape(b))'
      BY <3>1, Zenon DEF BoxShape
    <3>3. \A b \in boxes' : b.at \in WorkerIds /\ workers'[b.at] # None
      BY <2>1, <2>2, <2>5, Zenon DEF IInv, BoxInv
    <3>4. \A b, c \in boxes' : b.id = c.id => b = c
      BY <2>1, <2>7, Zenon DEF IInv, BoxInv
    <3> QED BY <3>2, <3>3, <3>4, Zenon DEF BoxInv
  <2> QED BY <1>1, <1>2, <1>6, <2>3, <2>4, <2>8, OwnStepKeeps, Zenon
<1> QED BY <1>4, <1>5, <1>6, Zenon DEF Dispatch, Succeed, Finish

(* A task that was forwarded as it is changes nothing in the console.      *)
LEMMA ForwardKeeps ==
    ASSUME IInv, NEW q \in Requests, Forward(q)
    PROVE  IInv'
<1>1. At(q, "forward") /\ UNCHANGED <<rows, sessions, ended>>
  BY Zenon DEF Forward
<1>2. Paced(q)
  BY <1>1 DEF Paced
<1>3. PICK a : Answer(q, a) /\ UNCHANGED ownVars
  BY Zenon DEF Forward, Finish
<1>4. UNCHANGED <<rows, sessions, ended, ownVars>>
  BY <1>1, <1>3
<1> QED BY <1>2, <1>3, <1>4, AnswerKeeps, Zenon

(* The dashboard's lookups and deletions of a session, and its expiry.     *)
LEMMA DashboardSessionKeeps ==
    ASSUME IInv, NEW q \in Requests, LookupSession(q) \/ DeleteTerminalSession(q)
    PROVE  IInv'
<1>1. At(q, "open") /\ UNCHANGED <<rows, sessions, ended>>
  BY Zenon DEF LookupSession, DeleteTerminalSession
<1>2. Paced(q)
  BY <1>1 DEF Paced
<1>3. CASE LookupSession(q)
  <2>1. PICK a : Answer(q, a) /\ UNCHANGED ownVars
    BY <1>3, Zenon DEF LookupSession, Finish
  <2>2. UNCHANGED <<rows, sessions, ended, ownVars>>
    BY <1>1, <2>1
  <2> QED BY <1>2, <2>1, <2>2, AnswerKeeps, Zenon
<1>4. CASE DeleteTerminalSession(q)
  <2>1. /\ boxes' \subseteq boxes /\ UNCHANGED <<workers, retired>>
        /\ Answer(q, "deleted")
    BY <1>4, Zenon DEF DeleteTerminalSession, Answer
  <2>2. WorkersEvolve /\ WorkerInv' /\ BoxInv'
    BY <2>1, BoxesEnd, Zenon
  <2> QED BY <1>1, <1>2, <2>1, <2>2, OwnStepKeeps, Zenon
<1> QED BY <1>3, <1>4

(* A session whose lease runs out leaves the others.                       *)
LEMMA SessionExpiresKeeps ==
    ASSUME IInv, SessionExpires
    PROVE  IInv'
<1>1. boxes' \subseteq boxes /\ UNCHANGED <<workers, retired>> /\ UNCHANGED vars
  BY Zenon DEF SessionExpires
<1>2. WorkerInv' /\ BoxInv'
  BY <1>1, BoxesEnd, Zenon
<1>3. /\ accounts' = accounts /\ keys' = keys /\ tokens' = tokens /\ spent' = spent
      /\ sessions' = sessions /\ ended' = ended /\ req' = req /\ started' = started
      /\ made' = made /\ restarts' = restarts
      /\ workers' = workers /\ retired' = retired
  BY <1>1, Zenon DEF vars
<1>4. /\ NamesInv' /\ StartInv' /\ SessionInv' /\ Bounds'
  BY <1>3, Zenon DEF IInv, NamesInv, StartInv, HasAdmin, SessionInv, Bounds
<1>5. (SecretInv(keys, accounts))' /\ (SecretInv(tokens, accounts))'
  BY <1>3, Zenon DEF IInv, SecretInv
<1>6. RequestInv'
  BY <1>3, Zenon DEF IInv, RequestInv
<1> QED BY <1>2, <1>4, <1>5, <1>6, Zenon DEF IInv

(* A worker is created under an id no worker has had.                      *)
LEMMA CreateWorkerKeeps ==
    ASSUME IInv, NEW q \in Requests, CreateWorker(q)
    PROVE  IInv'
<1> DEFINE r == req[q]
<1>1. /\ At(q, "open") /\ UNCHANGED <<rows, sessions, ended>>
      /\ retired' = retired /\ boxes' = boxes
  BY Zenon DEF CreateWorker
<1>2. Paced(q) /\ r.pc = "open"
  BY <1>1 DEF Paced, At
<1>3. r.who \in Ids
  BY <1>2, Carried DEF RequestShape
<1>4. CASE Answer(q, "forbidden") /\ UNCHANGED workers
  <2>1. UNCHANGED <<rows, sessions, ended, ownVars>>
    BY <1>1, <1>4 DEF ownVars
  <2> QED BY <1>2, <1>4, <2>1, AnswerKeeps, Zenon
<1>5. ASSUME NEW type \in {"normal", "sys"}, NEW w \in WorkerIds,
             workers[w] = None,
             workers' = [workers EXCEPT ![w] = [owner |-> r.who, type |-> type]],
             Answer(q, "created")
      PROVE  IInv'
  <2> DEFINE labels == [owner |-> r.who, type |-> type]
  <2>1. labels \in Labelled
    BY <1>3, <1>5, Zenon DEF Labelled
  <2>2. labels # None
    BY <2>1, OwnershipAssumption, Zenon
  <2>3. workers' = [workers EXCEPT ![w] = labels]
    BY <1>5
  <2> HIDE DEF labels
  <2>4. /\ workers \in [WorkerIds -> Labelled \cup {None}]
        /\ retired \subseteq WorkerIds /\ \A v \in retired : workers[v] # None
    BY Zenon DEF IInv, WorkerInv
  <2>5. /\ workers' \in [WorkerIds -> Labelled \cup {None}]
        /\ \A v \in WorkerIds : workers'[v] = IF v = w THEN labels ELSE workers[v]
    BY <2>1, <2>3, <2>4, Zenon
  <2>6. WorkersEvolve
    BY <1>1, <1>5, <2>5, Zenon DEF WorkersEvolve
  <2>7. WorkerInv'
    BY <1>1, <1>5, <2>4, <2>5, Zenon DEF WorkerInv
  <2>8. BoxInv'
    <3>1. \A b : (BoxShape(b))' <=> BoxShape(b)
      BY Zenon DEF BoxShape
    <3>2. \A b \in boxes : b.at \in WorkerIds /\ workers'[b.at] # None
      BY <1>5, <2>2, <2>5, Zenon DEF IInv, BoxInv
    <3> QED BY <1>1, <3>1, <3>2, Zenon DEF IInv, BoxInv
  <2> QED BY <1>1, <1>2, <1>5, <2>6, <2>7, <2>8, OwnStepKeeps, Zenon
<1> QED BY <1>4, <1>5, Zenon DEF CreateWorker

(* DeleteWorker: the check ...                                             *)
LEMMA DeleteWorkerKeeps ==
    ASSUME IInv, NEW q \in Requests, DeleteWorker(q)
    PROVE  IInv'
<1> DEFINE r == req[q]
<1>1. At(q, "open") /\ UNCHANGED <<rows, sessions, ended, ownVars>>
  BY Zenon DEF DeleteWorker
<1>2. Paced(q) /\ r.pc = "open" /\ r.pc # "idle"
  BY <1>1 DEF Paced, At
<1>3. r.who \in Ids
  BY <1>2, Carried DEF RequestShape
<1>4. Base(r) /\ r.before \subseteq Drawn(sessions, ended)
  BY <1>2, Carried, Based, Zenon
<1>5. CASE Answer(q, "notFound")
  BY <1>1, <1>2, <1>5, AnswerKeeps, Zenon
<1>6. ASSUME NEW w \in WorkerIds, MayDelete(r.who, r.admin, w),
             Become(q, [r EXCEPT !.pc = "unprovision", !.arg = w])
      PROVE  IInv'
  <2> DEFINE u == [r EXCEPT !.pc = "unprovision", !.arg = w]
  <2>1. /\ DOMAIN u = Fields /\ u.pc = "unprovision" /\ u.arg = w /\ u.who = r.who
        /\ u.admin = r.admin /\ u.method = r.method /\ u.tries = r.tries
        /\ u.before = r.before /\ u.answer = r.answer
    BY <1>4, Zenon DEF Base, Fields
  <2>2. req' = [req EXCEPT ![q] = u]
    BY <1>6, Zenon DEF Become
  <2> HIDE DEF u
  <2>3. Base(u)
    BY <1>4, <2>1, Zenon DEF Base
  <2>4. RequestShape(u)
    BY <1>3, <2>1, <2>3, Zenon DEF RequestShape, Base, Cookie
  <2>5. Ending(u, sessions, ended)
    <3>1. u.pc \notin {"update", "drop", "renew", "revoke"}
      BY <2>1
    <3> QED BY <1>4, <2>1, <3>1, Zenon DEF Ending
  <2>6. u.admin \/ Own(u, w, workers)
    <3>1. CASE r.admin
      BY <2>1, <3>1, Zenon
    <3>2. CASE w \in ListFilteredViews(r.who, "sys")
      <4>1. /\ workers[w] # None /\ workers[w].owner = r.who
            /\ workers[w].type = "sys"
        BY <3>2, Zenon DEF ListFilteredViews, Listed, Present
      <4>2. workers[w] \in Labelled
        BY <1>6, <4>1, Zenon DEF IInv, WorkerInv
      <4>3. workers[w] = [owner |-> r.who, type |-> "sys"]
        BY <4>1, <4>2 DEF Labelled
      <4> QED BY <2>1, <4>3, Zenon DEF Own
    <3> QED BY <1>6, <3>1, <3>2, Zenon DEF MayDelete
  <2>7. Targeting(u, workers)
    <3>1. u.pc \notin {"dispatch", "create"}
      BY <2>1
    <3> QED BY <1>6, <2>1, <2>6, <3>1, Zenon DEF Targeting
  <2> QED BY <1>1, <1>2, <2>2, <2>4, <2>5, <2>7, ReadKeeps, Zenon
<1> QED BY <1>5, <1>6, Zenon DEF DeleteWorker

(* ... the removal of the worker's routes ...                              *)
LEMMA RemoveRoutesKeeps ==
    ASSUME IInv, NEW q \in Requests, DeleteRoutesByNode(q)
    PROVE  IInv'
<1> DEFINE r == req[q]
<1>1. /\ At(q, "unprovision") /\ UNCHANGED <<rows, sessions, ended>>
      /\ UNCHANGED <<workers, retired>> /\ boxes' \subseteq boxes
  BY Zenon DEF DeleteRoutesByNode
<1>2. Paced(q) /\ r.pc = "unprovision" /\ r.pc # "idle"
  BY <1>1 DEF Paced, At
<1>3. WorkersEvolve /\ WorkerInv' /\ BoxInv'
  BY <1>1, BoxesEnd, Zenon
<1>4. CASE Answer(q, "error")
  BY <1>1, <1>2, <1>3, <1>4, OwnStepKeeps, Zenon
<1>5. CASE Goto(q, "unlist")
  <2> DEFINE u == [r EXCEPT !.pc = "unlist"]
  <2>1. Base(r) /\ r.before \subseteq Drawn(sessions, ended) /\ r.who \in Ids
    <3>1. r.who \in Ids
      BY <1>2, Carried DEF RequestShape
    <3> QED BY <1>2, <3>1, Carried, Based, Zenon
  <2>2. r.arg \in WorkerIds /\ (r.admin \/ Own(r, r.arg, workers))
    BY <1>2, Carried, Zenon DEF Targeting
  <2>3. /\ DOMAIN u = Fields /\ u.pc = "unlist" /\ u.arg = r.arg /\ u.who = r.who
        /\ u.admin = r.admin /\ u.method = r.method /\ u.tries = r.tries
        /\ u.before = r.before /\ u.answer = r.answer
    BY <2>1, Zenon DEF Base, Fields
  <2>4. req' = [req EXCEPT ![q] = u]
    BY <1>5, Zenon DEF Goto, Become
  <2> HIDE DEF u
  <2>5. Base(u)
    BY <2>1, <2>3, Zenon DEF Base
  <2>6. RequestShape(u)
    BY <2>1, <2>3, <2>5, Zenon DEF RequestShape, Base, Cookie
  <2>7. /\ u.pc \notin {"update", "drop", "renew", "revoke"}
        /\ u.pc \notin {"dispatch", "create"}
    BY <2>3
  <2>8. workers' = workers /\ sessions' = sessions /\ ended' = ended
    BY <1>1
  <2>9. Ending(u, sessions', ended')
    BY <2>1, <2>3, <2>7, <2>8, Zenon DEF Ending
  <2>10. Targeting(u, workers')
    BY <2>2, <2>3, <2>7, <2>8, Zenon DEF Targeting, Own
  <2>11. HasAdmin /\ Bounds'
    BY <1>2, PaceKeeps, Zenon
  <2>12. UNCHANGED rows /\ UNCHANGED <<sessions, ended>>
    BY <1>1
  <2> QED BY <1>3, <2>4, <2>6, <2>9, <2>10, <2>11, <2>12, RowsStay, SessionsStay,
             StepKeeps, Zenon
<1> QED BY <1>4, <1>5, Zenon DEF DeleteRoutesByNode

(* ... and the removal of its rows, for good.                              *)
LEMMA RemoveWorkerKeeps ==
    ASSUME IInv, NEW q \in Requests, DeleteProvisionedWorker(q)
    PROVE  IInv'
<1>1. /\ At(q, "unlist") /\ UNCHANGED <<rows, sessions, ended>>
      /\ workers' = workers /\ retired' = retired \cup GetByNodeID(req[q].arg)
      /\ boxes' = boxes /\ \E a : Answer(q, a)
  BY Zenon DEF DeleteProvisionedWorker
<1>2. Paced(q)
  BY <1>1 DEF Paced
<1>3. WorkersEvolve
  BY <1>1, Zenon DEF WorkersEvolve
<1>4. WorkerInv'
  BY <1>1, Zenon DEF IInv, WorkerInv, GetByNodeID, Listed, Present
<1>5. BoxInv'
  <2>1. \A b : (BoxShape(b))' <=> BoxShape(b)
    BY Zenon DEF BoxShape
  <2> QED BY <1>1, <2>1, Zenon DEF IInv, BoxInv
<1> QED BY <1>1, <1>2, <1>3, <1>4, <1>5, OwnStepKeeps, Zenon

(* Every step of Ownership.                                                *)
LEMMA NextKeeps ==
    ASSUME Countable, IInv, OwnershipNext
    PROVE  IInv'
<1>1. CASE Next /\ UNCHANGED ownVars
  BY <1>1, AccountsKeep, Zenon
<1>2. CASE SessionExpires
  BY <1>2, SessionExpiresKeeps, Zenon
<1>3. ASSUME NEW q \in Requests,
             \/ SubmitTask(q) \/ Dispatch(q) \/ Forward(q)
             \/ LookupSession(q) \/ DeleteTerminalSession(q)
             \/ CreateWorker(q) \/ DeleteWorker(q)
             \/ DeleteRoutesByNode(q) \/ DeleteProvisionedWorker(q)
      PROVE  IInv'
  BY <1>3, SubmitTaskKeeps, DispatchKeeps, ForwardKeeps, DashboardSessionKeeps,
     CreateWorkerKeeps, DeleteWorkerKeeps, RemoveRoutesKeeps, RemoveWorkerKeeps, Zenon
<1> QED BY <1>1, <1>2, <1>3, Zenon DEF OwnershipNext

(* A step that changes nothing.                                            *)
LEMMA StutterKeeps ==
    ASSUME IInv, UNCHANGED allVars
    PROVE  IInv'
<1>1. /\ accounts' = accounts /\ keys' = keys /\ tokens' = tokens /\ spent' = spent
      /\ sessions' = sessions /\ ended' = ended /\ req' = req /\ started' = started
      /\ made' = made /\ restarts' = restarts
      /\ workers' = workers /\ retired' = retired /\ boxes' = boxes
  BY Zenon DEF allVars, vars, ownVars
<1>2. /\ NamesInv' /\ StartInv' /\ SessionInv' /\ Bounds' /\ WorkerInv'
  BY <1>1, Zenon DEF IInv, NamesInv, StartInv, HasAdmin, SessionInv, Bounds, WorkerInv
<1>3. BoxInv'
  BY <1>1, Zenon DEF IInv, BoxInv, BoxShape
<1>4. (SecretInv(keys, accounts))' /\ (SecretInv(tokens, accounts))'
  BY <1>1, Zenon DEF IInv, SecretInv
<1>5. RequestInv'
  BY <1>1, Zenon DEF IInv, RequestInv
<1> QED BY <1>2, <1>3, <1>4, <1>5, Zenon DEF IInv

-----------------------------------------------------------------------------
(* The initial states.                                                     *)

(* Initially no request is in progress.                                    *)
LEMMA IdleInit ==
    ASSUME req = [q \in Requests |-> Idle]
    PROVE  RequestInv /\ \A q \in Requests : req[q].pc = "idle"
<1>1. /\ DOMAIN Idle = Fields /\ Idle.pc = "idle" /\ Idle.admin = FALSE
      /\ Idle.tries = 0 /\ Idle.method = None /\ Idle.who = None
      /\ Idle.before = {}
  BY Zenon DEF Idle, Fields
<1>2. /\ RequestShape(Idle) /\ Ending(Idle, sessions, ended)
      /\ Targeting(Idle, workers)
  BY <1>1, Resting, Zenon
<1>3. \A q \in Requests : req[q] = Idle
  BY Zenon
<1>4. req = [q \in Requests |-> req[q]]
  BY <1>3, Zenon
<1> QED BY <1>1, <1>2, <1>3, <1>4, Zenon DEF RequestInv

(* The rows and sessions of a console that has run.                        *)
LEMMA UsedInit ==
    ASSUME NEW a \in RandomIds, NEW u \in RandomIds, NEW n \in Names, NEW m \in Names,
           NEW k \in SecretIds, NEW v \in Values, NEW l \in Labels,
           NEW p \in Passwords, UsedRows(a, u, n, m, k, v, l, p),
           ended = {}, spent = {}
    PROVE  /\ NamesInv /\ HasAdmin /\ SessionInv
           /\ SecretInv(keys, accounts) /\ SecretInv(tokens, accounts)
<1> DEFINE ra == [name |-> n, password |-> p, admin |-> TRUE]
           ru == [name |-> m, password |-> p, admin |-> FALSE]
           ka == [account |-> a, label |-> l, value |-> v]
           ku == [account |-> u, label |-> l, value |-> v]
           sa == [account |-> a, admin |-> TRUE]
           su == [account |-> u, admin |-> FALSE]
<1>1. a \in Ids /\ u \in Ids /\ a # JitId /\ u # JitId /\ JitId \in Ids
  BY AccountsAssumption, Zenon DEF Ids
<1>2. /\ ra \in Account /\ ra.name = n /\ ra.admin
      /\ ru \in Account /\ ru.name = m
  BY Zenon DEF Account
<1>3. /\ ka \in Secret /\ ka.account = a /\ ku \in Secret /\ ku.account = u
      /\ sa \in SessionAccount /\ sa.account = a
      /\ su \in SessionAccount /\ su.account = u
  BY <1>1, Zenon DEF Secret, SessionAccount
<1>4. /\ ra # None /\ ru # None
      /\ \A x \in Secret \cup SessionAccount : x # None
  BY <1>2, AccountsAssumption, Zenon
<1>5. /\ a # u /\ n # m
      /\ accounts = [Empty(Ids) EXCEPT ![a] = ra, ![u] = ru]
      /\ keys = [Empty(SecretIds) EXCEPT ![k] = ka]
      /\ tokens = [Empty(SecretIds) EXCEPT ![k] = ku]
      /\ sessions = [Empty(SessionIds) EXCEPT ![1] = sa, ![2] = su]
  BY Zenon DEF UsedRows
<1> HIDE DEF ra, ru, ka, ku, sa, su
<1>6. /\ accounts \in [Ids -> Account \cup {None}]
      /\ \A x \in Ids : accounts[x] = IF x = u THEN ru ELSE IF x = a THEN ra ELSE None
  <2> DEFINE one == [Empty(Ids) EXCEPT ![a] = ra]
  <2>1. /\ one \in [Ids -> Account \cup {None}]
        /\ \A x \in Ids : one[x] = IF x = a THEN ra ELSE None
    BY <1>1, <1>2, Zenon DEF Empty
  <2>2. accounts = [one EXCEPT ![u] = ru]
    BY <1>5
  <2> HIDE DEF one
  <2> QED BY <1>1, <1>2, <2>1, <2>2, Zenon
<1>7. NamesInv
  BY <1>1, <1>2, <1>5, <1>6, Zenon DEF NamesInv
<1>8. HasAdmin
  <2>1. accounts[a] = ra
    BY <1>1, <1>5, <1>6, Zenon
  <2> QED BY <1>1, <1>2, <1>4, <2>1, Zenon DEF HasAdmin
<1>9. \A x \in RandomIds, key \in Secret :
         accounts[x] # None /\ key.account = x =>
            SecretInv([Empty(SecretIds) EXCEPT ![k] = key], accounts)
  <2> SUFFICES ASSUME NEW x \in RandomIds, NEW key \in Secret, accounts[x] # None,
                      key.account = x
               PROVE  SecretInv([Empty(SecretIds) EXCEPT ![k] = key], accounts)
    BY Zenon
  <2> DEFINE tab == [Empty(SecretIds) EXCEPT ![k] = key]
  <2>1. /\ tab \in [SecretIds -> Secret \cup {None}]
        /\ \A i \in SecretIds : tab[i] = IF i = k THEN key ELSE None
    BY Zenon DEF Empty
  <2>2. x # JitId
    BY AccountsAssumption, Zenon
  <2> HIDE DEF tab
  <2>3. SecretInv(tab, accounts)
    BY <2>1, <2>2, Zenon DEF SecretInv
  <2> QED BY <2>3 DEF tab
<1>10. accounts[a] # None /\ accounts[u] # None
  BY <1>1, <1>4, <1>6, Zenon
<1>11. SecretInv(keys, accounts) /\ SecretInv(tokens, accounts)
  <2>1. SecretInv([Empty(SecretIds) EXCEPT ![k] = ka], accounts)
    BY <1>3, <1>9, <1>10, Zenon
  <2>2. SecretInv([Empty(SecretIds) EXCEPT ![k] = ku], accounts)
    BY <1>3, <1>9, <1>10, Zenon
  <2>3. /\ keys = [Empty(SecretIds) EXCEPT ![k] = ka]
        /\ tokens = [Empty(SecretIds) EXCEPT ![k] = ku]
    BY <1>5
  <2> QED BY <2>1, <2>2, <2>3
<1>12. SessionInv
  <2>1. /\ 1 \in SessionIds /\ 2 \in SessionIds /\ 1 # 2 /\ 2 \in 0..MaxSessions
        /\ 1..2 = {1, 2}
    BY AccountsAssumption DEF SessionIds
  <2>2. /\ sessions \in [SessionIds -> SessionAccount \cup {None}]
        /\ \A s \in SessionIds :
             sessions[s] = IF s = 2 THEN su ELSE IF s = 1 THEN sa ELSE None
    <3> DEFINE one == [Empty(SessionIds) EXCEPT ![1] = sa]
    <3>1. /\ one \in [SessionIds -> SessionAccount \cup {None}]
          /\ \A s \in SessionIds : one[s] = IF s = 1 THEN sa ELSE None
      BY <1>3, <2>1, Zenon DEF Empty
    <3>2. sessions = [one EXCEPT ![2] = su]
      BY <1>5
    <3> HIDE DEF one
    <3> QED BY <1>3, <2>1, <3>1, <3>2, Zenon
  <2>3. Present(sessions) = {1, 2}
    <3>1. sa # None /\ su # None /\ DOMAIN sessions = SessionIds
      BY <1>3, <1>4, <2>2, Zenon
    <3>2. \A s : s \in Present(sessions) <=> s \in {1, 2}
      BY <2>1, <2>2, <3>1 DEF Present
    <3> QED BY <3>2, Zenon
  <2>4. Drawn(sessions, ended) = 1..2
    BY <2>1, <2>3, Zenon DEF Drawn
  <2>5. \A s \in SessionIds : sessions[s] # None => sessions[s].account \in RandomIds
    BY <1>3, <2>2, Zenon
  <2> QED BY <2>1, <2>2, <2>4, <2>5, Zenon DEF SessionInv
<1> QED BY <1>7, <1>8, <1>11, <1>12

(* ... and of one that has not.                                            *)
LEMMA FreshInit ==
    ASSUME accounts = Empty(Ids), keys = Empty(SecretIds),
           tokens = Empty(SecretIds), sessions = Empty(SessionIds),
           ended = {}, spent = {}
    PROVE  /\ NamesInv /\ SessionInv
           /\ SecretInv(keys, accounts) /\ SecretInv(tokens, accounts)
           /\ \A i \in SecretIds : keys[i] = None /\ tokens[i] = None
<1>1. /\ \A x \in Ids : accounts[x] = None
      /\ \A i \in SecretIds : keys[i] = None /\ tokens[i] = None
      /\ \A s \in SessionIds : sessions[s] = None
      /\ accounts \in [Ids -> Account \cup {None}]
      /\ keys \in [SecretIds -> Secret \cup {None}]
      /\ tokens \in [SecretIds -> Secret \cup {None}]
      /\ sessions \in [SessionIds -> SessionAccount \cup {None}]
  BY Zenon DEF Empty
<1>2. JitId \in Ids
  BY Zenon DEF Ids
<1>3. NamesInv
  BY <1>1, <1>2, Zenon DEF NamesInv
<1>4. SecretInv(keys, accounts) /\ SecretInv(tokens, accounts)
  BY <1>1, Zenon DEF SecretInv
<1>5. SessionInv
  <2>1. 0 \in 0..MaxSessions /\ 1..0 = {}
    BY AccountsAssumption
  <2>2. Present(sessions) = {}
    BY <1>1, Zenon DEF Present
  <2>3. Drawn(sessions, ended) = 1..0
    BY <2>1, <2>2, Zenon DEF Drawn
  <2> QED BY <1>1, <2>1, <2>3, Zenon DEF SessionInv
<1> QED BY <1>1, <1>3, <1>4, <1>5

(* The workers and sessions of a console that has run.                     *)
LEMMA UsedOwn ==
    ASSUME DOMAIN accounts = Ids, NEW a \in Present(accounts),
           NEW u \in Present(accounts), NEW w \in WorkerIds, NEW v \in WorkerIds,
           w # v, NEW sys \in {None, [owner |-> u, type |-> "sys"]},
           UsedWorkers(a, w, v, sys), NEW E \in SUBSET OneField, UsedBoxes(u, w, E),
           retired = {}
    PROVE  WorkerInv /\ BoxInv
<1> DEFINE na == [owner |-> a, type |-> "normal"]
           Box(e) == [id |-> ScopeTerminalSessionID(u, e), by |-> u,
                      ext |-> e, at |-> w]
<1>1. a \in Ids /\ u \in Ids
  BY Zenon DEF Present
<1>2. na \in Labelled /\ sys \in Labelled \cup {None}
  BY <1>1 DEF Labelled
<1>3. na # None
  BY <1>2, OwnershipAssumption, Zenon
<1>4. workers = [Empty(WorkerIds) EXCEPT ![w] = na, ![v] = sys]
  BY Zenon DEF UsedWorkers
<1> HIDE DEF na
<1>5. /\ workers \in [WorkerIds -> Labelled \cup {None}]
      /\ workers[w] = na
  BY <1>2, <1>4, Zenon DEF Empty
<1>6. WorkerInv
  BY <1>5, Zenon DEF WorkerInv
<1>7. \A e : /\ Box(e).id = ScopeTerminalSessionID(u, e) /\ Box(e).by = u
             /\ Box(e).ext = e /\ Box(e).at = w
  BY Zenon
<1>8. \A b \in boxes : \E e \in E : b = Box(e)
  BY Zenon DEF UsedBoxes
<1> HIDE DEF Box
<1>9. \A e \in E : e \in AllIds /\ ~IsComputerUseSessionID(e)
  <2>1. \A e \in E : e \in ExternalIds /\ Len(e) = 1
    BY Zenon DEF OneField
  <2>2. ASSUME NEW e \in E PROVE ~(Len(e) >= 2)
    <3>1. Len(e) = 1
      BY <2>1, Zenon
    <3> QED BY <3>1
  <2> QED BY <2>1, <2>2, Zenon DEF IsComputerUseSessionID, AllIds
<1>10. \A b \in boxes : BoxShape(b) /\ b.at = w
  <2> SUFFICES ASSUME NEW b \in boxes PROVE BoxShape(b) /\ b.at = w
    BY Zenon
  <2>1. PICK e \in E : b = Box(e)
    BY <1>8, Zenon
  <2>2. b.id = ScopeTerminalSessionID(u, e) /\ b.by = u /\ b.ext = e /\ b.at = w
    BY <1>7, <2>1
  <2> QED BY <1>1, <1>9, <2>2, Zenon DEF BoxShape
<1>11. ASSUME NEW b \in boxes, NEW c \in boxes, b.id = c.id PROVE b = c
  <2>1. PICK e \in E : b = Box(e)
    BY <1>8, Zenon
  <2>2. PICK f \in E : c = Box(f)
    BY <1>8, Zenon
  <2>3. ScopeTerminalSessionID(u, e) = ScopeTerminalSessionID(u, f)
    BY <1>7, <1>11, <2>1, <2>2, Zenon
  <2>4. u \in Ids /\ e \in AllIds /\ f \in AllIds
    BY <1>1, <1>9, Zenon
  <2>5. e = f
    BY <2>3, <2>4, ScopeInjective
  <2> QED BY <2>1, <2>2, <2>5
<1>12. BoxInv
  BY <1>3, <1>5, <1>10, <1>11, Zenon DEF BoxInv
<1> QED BY <1>6, <1>12

(* The initial states satisfy the invariant, a new database or a used one. *)
LEMMA InitEstablishes ==
    ASSUME OwnershipInit
    PROVE  IInv
<1>1. /\ ended = {} /\ spent = {} /\ req = [q \in Requests |-> Idle]
      /\ made = 0 /\ restarts = 0 /\ retired = {} /\ Init
  BY Zenon DEF OwnershipInit, Init
<1>2. RequestInv /\ \A q \in Requests : req[q].pc = "idle"
  BY <1>1, IdleInit, Zenon
<1>3. Bounds
  BY <1>1, AccountsAssumption DEF Bounds
<1>4. CASE /\ accounts = Empty(Ids) /\ keys = Empty(SecretIds)
           /\ tokens = Empty(SecretIds) /\ sessions = Empty(SessionIds)
           /\ started = FALSE
  <2>1. /\ NamesInv /\ SessionInv
        /\ SecretInv(keys, accounts) /\ SecretInv(tokens, accounts)
        /\ \A i \in SecretIds : keys[i] = None /\ tokens[i] = None
    BY <1>1, <1>4, FreshInit, Zenon
  <2>2. StartInv
    BY <1>2, <1>4, <2>1, Zenon DEF StartInv
  <2>3. workers = Empty(WorkerIds) /\ boxes = {}
    BY <1>4, Zenon DEF OwnershipInit
  <2>4. WorkerInv /\ BoxInv
    BY <1>1, <2>3, Zenon DEF WorkerInv, BoxInv, Empty
  <2> QED BY <1>2, <1>3, <2>1, <2>2, <2>4, Zenon DEF IInv
<1>5. CASE started = TRUE /\ NamesInv /\ HasAdmin /\ SessionInv
           /\ SecretInv(keys, accounts) /\ SecretInv(tokens, accounts)
  <2>1. DOMAIN accounts = Ids
    BY <1>5, Zenon DEF NamesInv
  <2>2. WorkerInv /\ BoxInv
    <3>1. PICK a \in Present(accounts), u \in Present(accounts),
               w \in WorkerIds, v \in WorkerIds :
             /\ w # v
             /\ \E sys \in {None, [owner |-> u, type |-> "sys"]} :
                  UsedWorkers(a, w, v, sys)
             /\ \E E \in SUBSET OneField : UsedBoxes(u, w, E)
      BY <1>5, Zenon DEF OwnershipInit
    <3> QED BY <1>1, <2>1, <3>1, UsedOwn, Zenon
  <2> QED BY <1>2, <1>3, <1>5, <2>2, Zenon DEF IInv, StartInv
<1>6. \/ /\ accounts = Empty(Ids) /\ keys = Empty(SecretIds)
         /\ tokens = Empty(SecretIds) /\ sessions = Empty(SessionIds)
         /\ started = FALSE
      \/ /\ started = TRUE /\ NamesInv /\ HasAdmin /\ SessionInv
         /\ SecretInv(keys, accounts) /\ SecretInv(tokens, accounts)
  <2>1. CASE started = TRUE
    <3>1. PICK a \in RandomIds, u \in RandomIds, n \in Names, m \in Names,
               k \in SecretIds, v \in Values, l \in Labels, p \in Passwords :
            UsedRows(a, u, n, m, k, v, l, p)
      BY <1>1, <2>1, Zenon DEF Init
    <3> QED BY <1>1, <2>1, <3>1, UsedInit, Zenon
  <2>2. CASE started # TRUE
    BY <1>1, <2>2, Zenon DEF Init
  <2> QED BY <2>1, <2>2, Zenon
<1> QED BY <1>4, <1>5, <1>6, Zenon

-----------------------------------------------------------------------------
(* What the invariant says.                                                *)

(* The invariant gives the property of API keys and tokens ...             *)
LEMMA SecretsFollow ==
    ASSUME IInv
    PROVE  SecretsOwned
<1>1. \A tab : SecretInv(tab, accounts) =>
         \A i \in Present(tab) :
            /\ accounts[tab[i].account] # None
            /\ \A j \in Present(tab) : tab[i].value = tab[j].value => i = j
  <2> SUFFICES ASSUME NEW tab, SecretInv(tab, accounts), NEW i \in Present(tab)
               PROVE  /\ accounts[tab[i].account] # None
                      /\ \A j \in Present(tab) : tab[i].value = tab[j].value => i = j
    BY Zenon
  <2>1. DOMAIN tab = SecretIds
    BY Zenon DEF SecretInv
  <2> QED BY <2>1, Zenon DEF SecretInv, Present
<1> QED BY <1>1, Zenon DEF IInv, SecretsOwned

(* ... of JIT accounts ...                                                 *)
LEMMA JitFollows ==
    ASSUME IInv
    PROVE  JitActsAsItself
<1>1. \A q \in Requests :
         req[q].pc = "jitFound" \/ req[q].method = "dashboard-jit" =>
            req[q].who \in {JitId, None}
  <2> SUFFICES ASSUME NEW q \in Requests,
                      req[q].pc = "jitFound" \/ req[q].method = "dashboard-jit"
               PROVE  req[q].who \in {JitId, None}
    BY Zenon
  <2> QED BY Carried, Zenon DEF RequestShape
<1>2. \A s \in Present(sessions) : sessions[s].account # JitId
  BY RowFacts, Zenon DEF Present
<1>3. /\ \A i \in Present(keys) : keys[i].account # JitId
      /\ \A i \in Present(tokens) : tokens[i].account # JitId
  BY RowFacts, Zenon DEF Present
<1> QED BY <1>1, <1>2, <1>3, Zenon DEF JitActsAsItself

(* ... of the sessions a request reaches: the scope of an id can be undone *)
(* ...                                                                     *)
LEMMA PrivacyFollows ==
    ASSUME IInv
    PROVE  SessionsPrivate
<1>1. ASSUME NEW q \in Requests, req[q].pc \in {"dispatch", "create"},
             req[q].value = None
      PROVE  /\ \A b \in Bound(req[q].draw) : b.by = req[q].who
             /\ RestoreTaskResultOwnerScope(req[q].who, req[q].method, req[q].draw)
                  = req[q].arg
  <2>1. /\ req[q].who \in Ids /\ req[q].arg \in AllIds /\ req[q].method \in Terminal
        /\ req[q].draw = ScopeTerminalSessionID(req[q].who, req[q].arg)
    BY <1>1, Carried DEF RequestShape
  <2>2. \A b \in Bound(ScopeTerminalSessionID(req[q].who, req[q].arg)) :
           b.by = req[q].who
    <3>1. \A o \in Ids, e \in AllIds : \A b \in Bound(ScopeTerminalSessionID(o, e)) :
             b.by = o
      BY BoundOwn, Zenon
    <3> QED BY <2>1, <3>1, Zenon
  <2>3. UnscopeTerminalSessionID(req[q].who,
           ScopeTerminalSessionID(req[q].who, req[q].arg)) = req[q].arg
    BY <2>1, ScopeUndone, Zenon
  <2> QED BY <2>1, <2>2, <2>3, Zenon DEF RestoreTaskResultOwnerScope
<1>2. ASSUME NEW q \in Requests, req[q].pc = "forward",
             RestoreTaskResultOwnerScope(req[q].who, req[q].method, req[q].draw) # None,
             NEW b \in Bound(req[q].draw)
      PROVE  b.by = req[q].who
  <2>1. req[q].method \in Terminal
    BY <1>2, Carried DEF RequestShape
  <2>2. SubSeq(req[q].draw, 1, 2) = <<Obx, req[q].who>>
    BY <1>2, <2>1, Zenon DEF RestoreTaskResultOwnerScope, UnscopeTerminalSessionID
  <2>3. /\ b.by \in Ids /\ b.ext \in AllIds
        /\ req[q].draw = ScopeTerminalSessionID(b.by, b.ext)
    BY <1>2, Zenon DEF Bound, IInv, BoxInv, BoxShape
  <2>4. SubSeq(ScopeTerminalSessionID(b.by, b.ext), 1, 2) = <<Obx, b.by>>
    BY <2>3, ScopeFacts, Zenon
  <2>5. <<Obx, b.by>> = <<Obx, req[q].who>>
    BY <2>2, <2>3, <2>4, Zenon
  <2> QED BY <2>5
<1> QED BY <1>1, <1>2, Zenon DEF SessionsPrivate

(* ... of the listings, for the same reason ...                            *)
LEMMA ListingFollows ==
    ASSUME IInv
    PROVE  ListingExact
<1> SUFFICES ASSUME NEW o \in Ids
             PROVE  /\ {v.session : v \in ListTerminalSessions(o)}
                         = {b.ext : b \in {c \in boxes : c.by = o}}
                    /\ \A v \in ListTerminalSessions(o) :
                          ~IsComputerUseSessionID(v.session)
  BY Zenon DEF ListingExact
<1> DEFINE View(b) == [account |-> b.by, session |-> b.ext]
<1>1. o # None
  BY OwnershipAssumption, Zenon
<1>2. \A b \in boxes : /\ b.by \in Ids /\ b.ext \in AllIds
                       /\ ~IsComputerUseSessionID(b.ext)
                       /\ b.id = ScopeTerminalSessionID(b.by, b.ext)
  BY Zenon DEF IInv, BoxInv, BoxShape
<1>3. \A b \in boxes : ParseScopedTerminalSessionID(b.id) = {View(b)}
  <2> SUFFICES ASSUME NEW b \in boxes
               PROVE  ParseScopedTerminalSessionID(b.id) = {View(b)}
    BY Zenon
  <2>1. b.by \in Ids /\ b.ext \in AllIds
    BY <1>2, Zenon
  <2>2. ParseScopedTerminalSessionID(ScopeTerminalSessionID(b.by, b.ext)) = {View(b)}
    BY <2>1, ScopeUndone, Zenon
  <2> QED BY <1>2, <2>2, Zenon
<1>4. \A b, v : v = View(b) => v.account = b.by /\ v.session = b.ext
  OBVIOUS
<1> HIDE DEF View
<1>5. \A v : v \in ListTerminalSessions(o) <=>
               \E b \in boxes : v = View(b) /\ b.by = o
  <2>1. \A v : v \in ListTerminalSessions(o) <=>
           /\ \E b \in boxes : v \in ParseScopedTerminalSessionID(b.id)
           /\ v.account = o
    BY <1>1, Zenon DEF ListTerminalSessions
  <2>2. \A v : \A b \in boxes :
           v \in ParseScopedTerminalSessionID(b.id) <=> v = View(b)
    BY <1>3, Zenon
  <2>3. ASSUME NEW v \in ListTerminalSessions(o)
        PROVE  \E b \in boxes : v = View(b) /\ b.by = o
    <3>1. v.account = o /\ \E b \in boxes : v = View(b)
      BY <2>1, <2>2, <2>3, Zenon
    <3>2. PICK b \in boxes : v = View(b)
      BY <3>1, Zenon
    <3>3. b.by = o
      BY <1>4, <3>1, <3>2, Zenon
    <3> QED BY <3>2, <3>3, Zenon
  <2>4. ASSUME NEW v, NEW b \in boxes, v = View(b), b.by = o
        PROVE  v \in ListTerminalSessions(o)
    <3>1. v.account = o
      BY <1>4, <2>4, Zenon
    <3> QED BY <2>1, <2>2, <2>4, <3>1, Zenon
  <2> QED BY <2>3, <2>4, Zenon
<1>6. \A v \in ListTerminalSessions(o) : ~IsComputerUseSessionID(v.session)
  <2> SUFFICES ASSUME NEW v \in ListTerminalSessions(o)
               PROVE  ~IsComputerUseSessionID(v.session)
    BY Zenon
  <2>1. PICK b \in boxes : v = View(b)
    BY <1>5, Zenon
  <2>2. v.session = b.ext
    BY <1>4, <2>1, Zenon
  <2>3. ~IsComputerUseSessionID(b.ext)
    BY <1>2, Zenon
  <2> QED BY <2>2, <2>3, Zenon
<1>7. \A x : x \in {v.session : v \in ListTerminalSessions(o)} <=>
               x \in {b.ext : b \in {c \in boxes : c.by = o}}
  <2>1. \A x : x \in {v.session : v \in ListTerminalSessions(o)} <=>
                 \E b \in boxes : b.by = o /\ x = b.ext
    <3>1. \A x : x \in {v.session : v \in ListTerminalSessions(o)} <=>
                   \E v \in ListTerminalSessions(o) : x = v.session
      BY Zenon
    <3>2. ASSUME NEW v \in ListTerminalSessions(o)
          PROVE  \E b \in boxes : b.by = o /\ v.session = b.ext
      <4>1. PICK b \in boxes : v = View(b) /\ b.by = o
        BY <1>5, <3>2, Zenon
      <4>2. v.session = b.ext
        BY <1>4, <4>1, Zenon
      <4> QED BY <4>1, <4>2, Zenon
    <3>3. ASSUME NEW b \in boxes, b.by = o
          PROVE  \E v \in ListTerminalSessions(o) : b.ext = v.session
      <4>1. View(b) \in ListTerminalSessions(o)
        BY <1>5, <3>3, Zenon
      <4>2. View(b).session = b.ext
        BY <1>4, Zenon
      <4> QED BY <4>1, <4>2, Zenon
    <3>4. ASSUME NEW x, x \in {v.session : v \in ListTerminalSessions(o)}
          PROVE  \E b \in boxes : b.by = o /\ x = b.ext
      <4>1. PICK v \in ListTerminalSessions(o) : x = v.session
        BY <3>1, <3>4, Zenon
      <4> QED BY <3>2, <4>1, Zenon
    <3>5. ASSUME NEW x, NEW b \in boxes, b.by = o, x = b.ext
          PROVE  x \in {v.session : v \in ListTerminalSessions(o)}
      BY <3>1, <3>3, <3>5, Zenon
    <3> QED BY <3>4, <3>5, Zenon
  <2> QED BY <2>1, Zenon
<1> QED BY <1>6, <1>7, Zenon

(* ... and the types.                                                      *)
LEMMA TypesFollow ==
    ASSUME Countable, IInv
    PROVE  OwnershipTypeOK
<1>1. \A n \in Names : Cardinality(GetAccountByUsernameKey(n)) <= 1
  <2> SUFFICES ASSUME NEW n \in Names
               PROVE  Cardinality(GetAccountByUsernameKey(n)) <= 1
    BY Zenon
  <2> DEFINE S == GetAccountByUsernameKey(n)
  <2>1. S \subseteq Ids /\ \A a, b \in S : a = b
    BY RowFacts, Zenon DEF GetAccountByUsernameKey, Present, IInv, NamesInv
  <2> HIDE DEF S
  <2>2. S = {} \/ \E a \in Ids : S = {a}
    BY <2>1, Zenon
  <2>3. Cardinality(S) = 0 \/ Cardinality(S) = 1
    BY <2>2, Zenon DEF Countable
  <2> QED BY <2>3 DEF S
<1>2. \A b \in boxes : b.ext \in AllIds /\ b.by \in Ids /\ b.at \in Present(workers)
  <2>1. DOMAIN workers = WorkerIds
    BY Zenon DEF IInv, WorkerInv
  <2> QED BY <2>1, Zenon DEF IInv, BoxInv, BoxShape, Present
<1>3. TypeOK
  BY <1>1, Zenon DEF TypeOK, IInv, NamesInv, SecretInv, SessionInv, RequestInv,
                     RequestShape, Bounds
<1>4. retired \subseteq Present(workers)
  BY Zenon DEF IInv, WorkerInv, Present
<1> QED BY <1>2, <1>3, <1>4, Zenon DEF OwnershipTypeOK, IInv, WorkerInv, BoxInv

-----------------------------------------------------------------------------
(* What a step may never do.  A step is a step of at most one request, and *)
(* where ChangePassword and DeleteAccount answer and a task is dispatched  *)
(* only one action is possible.                                            *)

Moved(q) ==
    /\ \E u : Become(q, u)
    /\ req[q].pc = "renew" => RenewSession(q)
    /\ req[q].pc = "revoke" => RevokeAccount(q)
    /\ req[q].pc = "dispatch" => Dispatch(q)

(* A step of a request that is neither of the three.                       *)
LEMMA MovedElsewhere ==
    ASSUME NEW q, req[q].pc \notin {"renew", "revoke", "dispatch"},
           \E u : Become(q, u)
    PROVE  Moved(q)
BY Zenon DEF Moved

(* Arrival and authentication.                                             *)
LEMMA EntryMoves ==
    ASSUME NEW q \in Requests,
           \/ Login(q) \/ FinishLogin(q) \/ Logout(q)
           \/ SessionState(q) \/ LookupAPIKey(q) \/ RequireAuth(q)
           \/ RequireToken(q) \/ VerifyJIT(q) \/ EnsureJITAccount(q) \/ AdmitJIT(q)
           \/ Reads(q)
    PROVE  Moved(q)
<1>1. req[q].pc \in {"idle", "login", "keyed", "jit", "jitFound", "open", "owner"}
  BY Zenon DEF Login, FinishLogin, Logout, SessionState, LookupAPIKey, RequireAuth,
       RequireToken, VerifyJIT, EnsureJITAccount, AdmitJIT, Reads, Arrived, Arrives, At
<1>2. ASSUME Login(q) \/ FinishLogin(q) \/ Logout(q) \/ SessionState(q)
      PROVE  \E u : Become(q, u)
  BY <1>2, Zenon DEF Login, FinishLogin, Logout, SessionState, Answer, Authenticated
<1>3. ASSUME LookupAPIKey(q) \/ RequireAuth(q) \/ RequireToken(q)
      PROVE  \E u : Become(q, u)
  BY <1>3, Zenon DEF LookupAPIKey, RequireAuth, RequireToken, Answer, Authenticated, Owned
<1>4. ASSUME VerifyJIT(q) \/ EnsureJITAccount(q) \/ AdmitJIT(q) \/ Reads(q)
      PROVE  \E u : Become(q, u)
  BY <1>4, Zenon DEF VerifyJIT, EnsureJITAccount, AdmitJIT, Reads, Answer,
                     Authenticated, Owned
<1>5. \E u : Become(q, u)
  BY <1>2, <1>3, <1>4, Zenon
<1>6. req[q].pc \notin {"renew", "revoke", "dispatch"}
  BY <1>1
<1> QED BY <1>5, <1>6, MovedElsewhere, Zenon

(* The handlers of accounts and sessions.                                  *)
LEMMA HandlerMoves ==
    ASSUME NEW q \in Requests,
           \/ Register(q) \/ CreateAccountWithRetry(q)
           \/ ClassifyAccountInsertConflict(q)
           \/ ChangePassword(q) \/ UpdatePassword(q) \/ RotateSessions(q)
           \/ DeleteAccount(q)
    PROVE  Moved(q)
<1>1. req[q].pc \in {"open", "insert", "clashId", "clashName", "update", "drop"}
  BY Zenon DEF Register, CreateAccountWithRetry, ClassifyAccountInsertConflict,
       ChangePassword, UpdatePassword, RotateSessions, DeleteAccount,
       RequireAdmin, RequireCookieSession, At
<1>2. ASSUME Register(q) \/ CreateAccountWithRetry(q)
             \/ ClassifyAccountInsertConflict(q)
      PROVE  \E u : Become(q, u)
  BY <1>2, Zenon DEF Register, CreateAccountWithRetry, InsertTurn,
                     ClassifyAccountInsertConflict, Again, Goto, Answer
<1>3. ASSUME \/ ChangePassword(q) \/ UpdatePassword(q) \/ RotateSessions(q)
             \/ DeleteAccount(q)
      PROVE  \E u : Become(q, u)
  BY <1>3, Zenon DEF ChangePassword, UpdatePassword, RotateSessions, DeleteAccount,
                     Goto, Answer
<1>4. \E u : Become(q, u)
  BY <1>2, <1>3, Zenon
<1>5. req[q].pc \notin {"renew", "revoke", "dispatch"}
  BY <1>1
<1> QED BY <1>4, <1>5, MovedElsewhere, Zenon

(* The handlers of API keys and trusted tokens.                            *)
LEMMA SecretMoves ==
    ASSUME NEW q \in Requests,
           \/ CreateAPIKey(q) \/ RetryAPIKey(q)
           \/ ClassifyAPIKeyInsertConflict(q) \/ DeleteAPIKey(q)
           \/ CreateToken(q) \/ RetryToken(q)
           \/ ClassifyTrustedTokenInsertConflict(q) \/ DeleteToken(q)
    PROVE  Moved(q)
<1>1. req[q].pc \in {"open", "key", "keyName", "keyHash", "keyId",
                     "token", "tokenName", "tokenHash", "tokenId"}
  BY Zenon DEF CreateAPIKey, RetryAPIKey, ClassifyAPIKeyInsertConflict, DeleteAPIKey,
       CreateToken, RetryToken, ClassifyTrustedTokenInsertConflict, DeleteToken,
       RequireCookieSession, At
<1>2. \A c, k, row, r : SecretTurn(q, c, k, row, r) => \E u : Become(q, u)
  BY Zenon DEF SecretTurn, Answer
<1>3. \A l, v : KeyTurn(q, l, v) => \E u : Become(q, u)
  BY <1>2, Zenon DEF KeyTurn
<1>4. \A f, l, v : TokenTurn(q, f, l, v) => \E u : Become(q, u)
  BY <1>2, ZenonT(30) DEF TokenTurn
<1>5. ASSUME CreateAPIKey(q) \/ RetryAPIKey(q) \/ CreateToken(q) \/ RetryToken(q)
      PROVE  \E u : Become(q, u)
  BY <1>3, <1>4, <1>5, Zenon DEF CreateAPIKey, RetryAPIKey, CreateToken, RetryToken
<1>6. ASSUME \/ ClassifyAPIKeyInsertConflict(q) \/ DeleteAPIKey(q)
             \/ ClassifyTrustedTokenInsertConflict(q) \/ DeleteToken(q)
      PROVE  \E u : Become(q, u)
  BY <1>6, Zenon DEF ClassifyAPIKeyInsertConflict, DeleteAPIKey,
       ClassifyTrustedTokenInsertConflict, DeleteToken, Again, Goto, Answer
<1>7. \E u : Become(q, u)
  BY <1>5, <1>6, Zenon
<1>8. req[q].pc \notin {"renew", "revoke", "dispatch"}
  BY <1>1
<1> QED BY <1>7, <1>8, MovedElsewhere, Zenon

(* The steps that end a password change and the removal of an account.     *)
LEMMA EndMoves ==
    ASSUME NEW q \in Requests, RenewSession(q) \/ RevokeAccount(q)
    PROVE  Moved(q)
<1>1. \E u : Become(q, u)
  BY Zenon DEF RenewSession, RevokeAccount, Answer
<1>2. CASE RenewSession(q)
  <2>1. req[q].pc = "renew"
    BY <1>2, Zenon DEF RenewSession, At
  <2> QED BY <1>1, <1>2, <2>1, Zenon DEF Moved
<1>3. CASE RevokeAccount(q)
  <2>1. req[q].pc = "revoke"
    BY <1>3, Zenon DEF RevokeAccount, At
  <2> QED BY <1>1, <1>3, <2>1, Zenon DEF Moved
<1> QED BY <1>2, <1>3, Zenon

(* Tasks, terminal sessions and workers.                                   *)
LEMMA OwnMoves ==
    ASSUME NEW q \in Requests,
           \/ SubmitTask(q) \/ Dispatch(q) \/ Forward(q)
           \/ LookupSession(q) \/ DeleteTerminalSession(q)
           \/ CreateWorker(q) \/ DeleteWorker(q)
           \/ DeleteRoutesByNode(q) \/ DeleteProvisionedWorker(q)
    PROVE  Moved(q)
<1>1. CASE Dispatch(q)
  <2>1. \E u : Become(q, u)
    BY <1>1, Zenon DEF Dispatch, Succeed, Finish, Answer
  <2>2. req[q].pc # "renew" /\ req[q].pc # "revoke"
    <3>1. req[q].pc \in {"dispatch", "create"}
      BY <1>1, Zenon DEF Dispatch, At
    <3> QED BY <3>1
  <2> QED BY <1>1, <2>1, <2>2, Zenon DEF Moved
<1>2. ASSUME \/ SubmitTask(q) \/ Forward(q)
             \/ LookupSession(q) \/ DeleteTerminalSession(q)
             \/ CreateWorker(q) \/ DeleteWorker(q)
             \/ DeleteRoutesByNode(q) \/ DeleteProvisionedWorker(q)
      PROVE  Moved(q)
  <2>1. req[q].pc \in {"owner", "open", "forward", "unprovision", "unlist"}
    BY <1>2, Zenon DEF SubmitTask, Forward, LookupSession, DeleteTerminalSession,
         CreateWorker, DeleteWorker, DeleteRoutesByNode, DeleteProvisionedWorker, At
  <2>2. \E u : Become(q, u)
    BY <1>2, Zenon DEF SubmitTask, Forward, LookupSession, DeleteTerminalSession,
         CreateWorker, DeleteWorker, DeleteRoutesByNode, DeleteProvisionedWorker,
         Finish, Answer, Goto
  <2>3. req[q].pc \notin {"renew", "revoke", "dispatch"}
    BY <2>1
  <2> QED BY <2>2, <2>3, MovedElsewhere, Zenon
<1> QED BY <1>1, <1>2, Zenon

(* Every step of Ownership.                                                *)
LEMMA NextMoves ==
    ASSUME OwnershipNext
    PROVE  \/ req' = req \/ RestartConsole
           \/ \E q \in Requests : Moved(q)
<1>1. CASE Next
  <2>1. CASE InitializeAdminAccount
    BY <2>1, Zenon DEF InitializeAdminAccount
  <2>2. ASSUME NEW q \in Requests,
               \/ Login(q) \/ FinishLogin(q) \/ Logout(q)
               \/ SessionState(q) \/ LookupAPIKey(q) \/ RequireAuth(q)
               \/ RequireToken(q)
               \/ VerifyJIT(q) \/ EnsureJITAccount(q) \/ AdmitJIT(q)
               \/ Reads(q)
               \/ Register(q) \/ CreateAccountWithRetry(q)
               \/ ClassifyAccountInsertConflict(q)
               \/ ChangePassword(q) \/ UpdatePassword(q)
               \/ RotateSessions(q) \/ RenewSession(q)
               \/ DeleteAccount(q) \/ RevokeAccount(q)
               \/ CreateAPIKey(q) \/ RetryAPIKey(q)
               \/ ClassifyAPIKeyInsertConflict(q) \/ DeleteAPIKey(q)
               \/ CreateToken(q) \/ RetryToken(q)
               \/ ClassifyTrustedTokenInsertConflict(q) \/ DeleteToken(q)
        PROVE  Moved(q)
    BY <2>2, EntryMoves, HandlerMoves, SecretMoves, EndMoves, Zenon
  <2> QED BY <1>1, <2>1, <2>2, Zenon DEF Next
<1>2. CASE SessionExpires
  BY <1>2, Zenon DEF SessionExpires, vars
<1>3. ASSUME NEW q \in Requests,
             \/ SubmitTask(q) \/ Dispatch(q) \/ Forward(q)
             \/ LookupSession(q) \/ DeleteTerminalSession(q)
             \/ CreateWorker(q) \/ DeleteWorker(q)
             \/ DeleteRoutesByNode(q) \/ DeleteProvisionedWorker(q)
      PROVE  Moved(q)
  BY <1>3, OwnMoves, Zenon
<1> QED BY <1>1, <1>2, <1>3, Zenon DEF OwnershipNext

(* A request that is not the one to step stays as it is.                   *)
LEMMA OthersStay ==
    ASSUME IInv, NEW q \in Requests, NEW p \in Requests, Moved(p), p # q
    PROVE  req'[q] = req[q]
<1>1. DOMAIN req = Requests
  BY Zenon DEF IInv, RequestInv
<1> QED BY <1>1, Zenon DEF Moved, Become

(* A password change or removal that ends has ended the sessions: the      *)
(* step of SessionsEnd.                                                    *)
LEMMA EndSteps ==
    ASSUME Countable, IInv, OwnershipNext, NEW q \in Requests,
           req[q].pc \in {"renew", "revoke"}, req'[q].pc = "idle"
    PROVE  req[q].before \cap Present(sessions') = {}
<1>0. req[q].pc # "idle" /\ req[q].before \subseteq Drawn(sessions, ended)
  <2>1. req[q].pc # "idle"
    OBVIOUS
  <2> QED BY <2>1, Carried, Zenon
<1>1. CASE req' = req
  BY <1>0, <1>1, Zenon
<1>2. CASE RestartConsole
  <2>1. Drop(Present(sessions))
    BY <1>2, Zenon DEF RestartConsole
  <2>2. \A s \in Present(sessions) : sessions'[s] = None
    BY <2>1, DropEvolves, Zenon
  <2>3. /\ DOMAIN sessions' = SessionIds /\ DOMAIN sessions = SessionIds
        /\ \A s \in SessionIds : s \notin Present(sessions) => sessions'[s] = sessions[s]
    BY <2>1, RowFacts, Zenon DEF Drop
  <2> QED BY <2>2, <2>3, Zenon DEF Present
<1>3. ASSUME NEW p \in Requests, Moved(p), p # q
      PROVE  FALSE
  BY <1>0, <1>3, OthersStay, Zenon
<1>4. CASE Moved(q)
  <2>1. CASE req[q].pc = "renew"
    <3>1. CreateSession(req[q].who, req[q].admin)
      BY <1>4, <2>1, Zenon DEF Moved, RenewSession
    <3>2. req[q].who \in RandomIds /\ req[q].admin \in BOOLEAN
      BY <2>1, Carried DEF RequestShape, Cookie
    <3>3. SessionsEvolve
      BY <3>1, <3>2, CreateEvolves, Zenon
    <3>4. \A s \in req[q].before : sessions[s] = None
      BY <2>1, Carried, Zenon DEF Ending
    <3>5. \A s \in req[q].before : sessions'[s] = None
      BY <1>0, <3>3, <3>4, Zenon DEF SessionsEvolve
    <3> QED BY <3>5, Zenon DEF Present
  <2>2. CASE req[q].pc = "revoke"
    <3>1. Drop(SessionsOf(req[q].arg))
      BY <1>4, <2>2, Zenon DEF Moved, RevokeAccount, DeleteSessionsByAccountID
    <3>2. SessionsOf(req[q].arg) \subseteq Present(sessions)
      BY SessionsOfAccount, Zenon
    <3>3. SessionsEvolve /\ \A s \in SessionsOf(req[q].arg) : sessions'[s] = None
      BY <3>1, <3>2, DropEvolves, Zenon
    <3>4. \A s \in req[q].before : sessions[s] # None => sessions[s].account = req[q].arg
      BY <2>2, Carried, Zenon DEF Ending
    <3>5. \A s \in req[q].before : sessions[s] # None => s \in SessionsOf(req[q].arg)
      BY <1>0, <3>4, SessionsOfAccount, Zenon
    <3>6. \A s \in req[q].before : sessions'[s] = None
      BY <1>0, <3>3, <3>5, Zenon DEF SessionsEvolve
    <3> QED BY <3>6, Zenon DEF Present
  <2> QED BY <2>1, <2>2, Zenon
<1> QED BY <1>1, <1>2, <1>3, <1>4, NextMoves, Zenon

(* A worker-sys that ran a command is the account's: the first half of     *)
(* OwnWorkersOnly.                                                         *)
LEMMA RunSteps ==
    ASSUME IInv, NEW q \in Requests, NEW w \in WorkerIds,
           req[q].pc = "dispatch", req[q].value = w
    PROVE  workers[w] = [owner |-> req[q].who, type |-> "sys"]
<1>1. w # None
  BY OwnershipAssumption, Zenon
<1>2. Targeting(req[q], workers) /\ req[q].value # None
  BY <1>1, Carried, Zenon
<1> QED BY <1>2, Zenon DEF Targeting, Own

(* A worker is removed for who may remove it: the second half.             *)
LEMMA RemoveSteps ==
    ASSUME IInv, NEW q \in Requests, NEW w \in WorkerIds,
           req[q].pc = "unlist", req[q].arg = w
    PROVE  req[q].admin \/ workers[w] = [owner |-> req[q].who, type |-> "sys"]
BY Carried, Zenon DEF Targeting, Own

-----------------------------------------------------------------------------
(* The theorems.                                                           *)

FS == INSTANCE FiniteSetTheorems

(* There are finitely many ids, so they can be counted.                    *)
LEMMA CountableHolds == Countable
<1>1. /\ \A T : FS!Cardinality(T) = Cardinality(T)
      /\ \A T : FS!IsFiniteSet(T) = IsFiniteSet(T)
  BY DEF Cardinality, FS!Cardinality, IsFiniteSet, FS!IsFiniteSet
<1>2. FS!IsFiniteSet(Ids)
  <2>1. FS!IsFiniteSet(RandomIds)
    BY <1>1, AccountsAssumption, Zenon
  <2> QED BY <2>1, FS!FS_AddElement, Zenon DEF Ids
<1>3. FS!Cardinality({}) = 0 /\ \A a \in Ids : FS!Cardinality({a}) = 1
  BY FS!FS_EmptySet, FS!FS_Singleton, Zenon
<1>4. ASSUME NEW S \in SUBSET Ids, FS!Cardinality(S) = 0
      PROVE  S = {}
  <2>1. FS!IsFiniteSet(S)
    BY <1>2, FS!FS_Subset, Zenon
  <2> QED BY <1>4, <2>1, FS!FS_EmptySet, Zenon
<1>5. ASSUME NEW n \in Nat
      PROVE  FS!Cardinality(1..n) = n
  <2>1. 1 \in Int /\ n \in Int
    OBVIOUS
  <2>2. FS!Cardinality(1..n) = IF 1 > n THEN 0 ELSE n - 1 + 1
    BY <2>1, FS!FS_Interval, Zenon
  <2> HIDE DEF FS!Cardinality
  <2> QED BY <2>2
<1> QED BY <1>1, <1>3, <1>4, <1>5, Zenon DEF Countable

(* The inductive invariant: what the tables, the session map, the worker   *)
(* registry and every request in progress satisfy after every statement.   *)
THEOREM Invariant == OwnershipSpec => []IInv
<1>1. OwnershipInit => IInv
  BY InitEstablishes, Zenon
<1>2. IInv /\ [OwnershipNext]_allVars => IInv'
  BY CountableHolds, NextKeeps, StutterKeeps, Zenon
<1> QED BY <1>1, <1>2, PTL DEF OwnershipSpec

(* Tables, sessions, workers and terminal sessions are well formed: no     *)
(* username is taken twice, no insert loop runs past its limit and no two  *)
(* routes share a session id, also when a worker is deleted between the    *)
(* steps of a dispatch (createAccountWithRetry,                            *)
(* reserveTerminalSessionRoute).                                           *)
THEOREM TypeCorrect == OwnershipSpec => []OwnershipTypeOK
<1>1. IInv => OwnershipTypeOK
  BY CountableHolds, TypesFollow, Zenon
<1> QED BY <1>1, Invariant, PTL

(* An API key or trusted token never outlives its account, and no two of a *)
(* kind have the same value, although the insert runs long after the       *)
(* middleware looked the account up (createAPIKey, createToken).           *)
THEOREM SecretsAlwaysOwned == OwnershipSpec => []SecretsOwned
<1>1. IInv => SecretsOwned
  BY SecretsFollow, Zenon
<1> QED BY <1>1, Invariant, PTL

(* A JIT token acts for the account derived from it or not at all, whoever *)
(* registered the derived username (ensureJITAccount).                     *)
THEOREM JitNeverImpersonates == OwnershipSpec => []JitActsAsItself
<1>1. IInv => JitActsAsItself
  BY JitFollows, Zenon
<1> QED BY <1>1, Invariant, PTL

(* A task the console scoped reaches no terminal session but its account's,*)
(* whatever id the client chose, and the answer to a task it could not     *)
(* decode names no other (scopeTerminalSessionID,                          *)
(* restoreTaskResultOwnerScope).                                           *)
THEOREM SessionsStayPrivate == OwnershipSpec => []SessionsPrivate
<1>1. IInv => SessionsPrivate
  BY PrivacyFollows, Zenon
<1> QED BY <1>1, Invariant, PTL

(* A listing shows the sessions of the account, all of them and no other   *)
(* (ListTerminalSessions, parseScopedTerminalSessionID).                   *)
THEOREM ListingsExact == OwnershipSpec => []ListingExact
<1>1. IInv => ListingExact
  BY ListingFollows, Zenon
<1> QED BY <1>1, Invariant, PTL

(* When a password change or the removal of an account reports success, no *)
(* session that was there when it began is left (ChangePassword,           *)
(* DeleteAccount).                                                         *)
THEOREM RevocationEndsSessions == OwnershipSpec => SessionsEnd
<1> DEFINE Ends == \A q \in Requests :
             req[q].pc \in {"renew", "revoke"} /\ req'[q].pc = "idle" =>
                 req[q].before \cap Present(sessions') = {}
<1>1. IInv /\ [OwnershipNext]_allVars => [Ends]_vars
  <2> SUFFICES ASSUME IInv, [OwnershipNext]_allVars, ~UNCHANGED vars
               PROVE  Ends
    OBVIOUS
  <2>1. OwnershipNext
    BY Zenon DEF allVars
  <2> QED BY <2>1, CountableHolds, EndSteps, Zenon
<1> QED BY <1>1, Invariant, PTL DEF OwnershipSpec, SessionsEnd

(* No worker-sys runs a command for another account and no account but the *)
(* administrator's removes another's worker, although the check and the    *)
(* use are separate steps (validateWorkerSysTarget, DeleteWorker).         *)
THEOREM WorkersServeOwners == OwnershipSpec => OwnWorkersOnly
<1> DEFINE Serves == \A q \in Requests, w \in WorkerIds :
         LET own == workers[w] = [owner |-> req[q].who, type |-> "sys"]
             ran == /\ req[q].pc = "dispatch" /\ req[q].value = w
                    /\ req'[q].answer = "done" \/ req'[q].pc = "owner"
             removed == /\ req[q].pc = "unlist" /\ req[q].arg = w
                        /\ w \in retired' \ retired
         IN  (ran => own) /\ (removed => req[q].admin \/ own)
<1>1. IInv /\ [OwnershipNext]_allVars => [Serves]_allVars
  <2> SUFFICES ASSUME IInv, OwnershipNext
               PROVE  Serves
    OBVIOUS
  <2> QED BY RunSteps, RemoveSteps, Zenon
<1> QED BY <1>1, Invariant, PTL DEF OwnershipSpec, OwnWorkersOnly

==============================================================================
