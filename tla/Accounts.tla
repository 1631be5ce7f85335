------------------------------- MODULE Accounts -------------------------------
(***************************************************************************)
(* Accounts, dashboard sessions, API keys, trusted tokens and just-in-time *)
(* accounts of the console (console/internal/httpapi: console_auth*.go,    *)
(* api_keys_auth.go, mcp_auth.go, jit_auth.go), with the SQLite queries    *)
(* behind them.                                                            *)
(*                                                                         *)
(* A request is authenticated first and handled later, and a handler makes *)
(* several queries: each query, each critical section of sessionMu and     *)
(* each transaction is one step here, so that requests interleave between  *)
(* them.  SQLite runs on one connection, hence a statement or transaction  *)
(* is atomic.  The wall clock is left out: an expired session is a choice  *)
(* of sessionState.                                                        *)
(***************************************************************************)
EXTENDS Naturals, FiniteSets

CONSTANTS RandomIds,    \* account ids accountIDGenerator can draw
          JitId,        \* account id deriveJITAccountIdentity computes
          Names,        \* usernames, as keys
          JitName,      \* the username derived together with JitId
          Passwords,
          Labels,       \* names of API keys and tokens
          SecretIds,    \* ids of API keys and tokens
          Values,       \* API key and token values; their hashes are theirs
          MaxSessions,  \* bound on the sessions created
          Requests,     \* concurrent requests
          None,
          MaxTries,     \* the 8 of the insert loops
          MaxRequests,  \* bound on the requests made
          MaxRestarts   \* bound on console restarts

VARIABLES accounts,  \* table accounts, [Ids -> row or None]
          keys,      \* table api_keys
          tokens,    \* table trusted_tokens
          sessions,  \* ConsoleAuth.sessions
          ended,     \* session ids that have been deleted
          spent,     \* random account ids of deleted accounts
          req,       \* the requests in progress
          started,   \* NewRouter serves requests
          made, restarts

vars == <<accounts, keys, tokens, sessions, ended, spent, req, started,
          made, restarts>>
rows == <<accounts, keys, tokens, spent>>

SessionIds == 1..MaxSessions  \* randomHex(32): numbered as they are drawn
Ids == RandomIds \cup {JitId}
NoPassword == "jit"   \* jitAccountHashAlgo: no password verifies against it

Account == [name : Names, password : Passwords \cup {NoPassword},
            admin : BOOLEAN]
Secret == [account : Ids, label : Labels, value : Values]
SessionAccount == [account : Ids, admin : BOOLEAN]

Idle == [pc |-> "idle", who |-> None, admin |-> FALSE, method |-> None,
         arg |-> None, value |-> None, draw |-> None, tries |-> 0,
         before |-> {}, answer |-> None]

ASSUME AccountsAssumption ==
    /\ JitId \notin RandomIds /\ JitName \in Names
    /\ NoPassword \notin Passwords
    /\ None \notin Account \cup Secret \cup SessionAccount
    /\ None \notin {"cookie", "dashboard-jit", "done"}
    /\ MaxTries \in Nat \ {0, 1} /\ MaxSessions \in Nat \ {0, 1}
    /\ MaxRequests \in Nat /\ MaxRestarts \in Nat /\ IsFiniteSet(RandomIds)

(* A database and session map some history of the console leaves: nothing  *)
(* yet, or one administrator and one registered account, each with a       *)
(* session, the administrator with an API key and the other with a token.  *)
Empty(S) == [x \in S |-> None]
UsedRows(a, u, n, m, k, v, l, p) ==
    /\ a # u /\ n # m /\ JitName \notin {n, m}
    /\ accounts = [Empty(Ids) EXCEPT
         ![a] = [name |-> n, password |-> p, admin |-> TRUE],
         ![u] = [name |-> m, password |-> p, admin |-> FALSE]]
    /\ keys = [Empty(SecretIds) EXCEPT
         ![k] = [account |-> a, label |-> l, value |-> v]]
    /\ tokens = [Empty(SecretIds) EXCEPT
         ![k] = [account |-> u, label |-> l, value |-> v]]
    /\ sessions = [Empty(SessionIds) EXCEPT
         ![1] = [account |-> a, admin |-> TRUE],
         ![2] = [account |-> u, admin |-> FALSE]]
Init ==
    /\ \/ /\ accounts = Empty(Ids) /\ keys = Empty(SecretIds)
          /\ tokens = Empty(SecretIds) /\ sessions = Empty(SessionIds)
          /\ started = FALSE
       \/ \E a, u \in RandomIds, n, m \in Names,
             k \in SecretIds, v \in Values, l \in Labels, p \in Passwords :
            UsedRows(a, u, n, m, k, v, l, p) /\ started = TRUE
    /\ ended = {} /\ spent = {} /\ req = [q \in Requests |-> Idle]
    /\ made = 0 /\ restarts = 0

------------------------------------------------------------------------------
(* The queries (console/internal/persistence/sqlc).                        *)

Present(tab) == {i \in DOMAIN tab : tab[i] # None}

CountAdminAccounts == Cardinality({a \in Present(accounts) : accounts[a].admin})
GetAccountByID(a) == accounts[a]
GetAccountByUsernameKey(n) == {a \in Present(accounts) : accounts[a].name = n}

(* A row whose id or username is taken violates a constraint.              *)
AccountConflict(a, n) == accounts[a] # None \/ GetAccountByUsernameKey(n) # {}
InsertAccount(a, row) == accounts' = [accounts EXCEPT ![a] = row]
UpdateAccountPasswordByID(a, p) == accounts' = [accounts EXCEPT ![a].password = p]

(* Mutant: the foreign keys do not cascade.                                *)
KeepSecrets(a) ==
    /\ accounts' = [accounts EXCEPT ![a] = None]
    /\ spent' = spent \cup ({a} \cap RandomIds)
    /\ UNCHANGED <<keys, tokens>>
(* The secrets of the account go with it: ON DELETE CASCADE.               *)
Without(tab, a) ==
    [i \in DOMAIN tab |-> IF tab[i] # None /\ tab[i].account = a
                          THEN None ELSE tab[i]]
DeleteNonAdminAccountByID(a) ==
    /\ accounts' = [accounts EXCEPT ![a] = None]
    /\ spent' = spent \cup ({a} \cap RandomIds)
    /\ keys' = Without(keys, a) /\ tokens' = Without(tokens, a)

GetAPIKeyByAccountAndNameKey(a, l) ==
    {k \in Present(keys) : keys[k].account = a /\ keys[k].label = l}
GetAPIKeyByHash(v) == {k \in Present(keys) : keys[k].value = v}
GetAPIKeyByID(k) == {k} \cap Present(keys)
(* The three unique columns an insert can violate.                         *)
APIKeyConflict(k, row) ==
    \/ GetAPIKeyByID(k) # {} \/ GetAPIKeyByHash(row.value) # {}
    \/ GetAPIKeyByAccountAndNameKey(row.account, row.label) # {}
InsertAPIKey(k, row) == keys' = [keys EXCEPT ![k] = row]
DeleteAPIKeyByIDAndAccount(k, a) ==
    keys' = [keys EXCEPT ![k] =
               IF keys[k] # None /\ keys[k].account = a THEN None ELSE @]

GetTrustedTokenByAccountAndNameKey(a, l) ==
    {k \in Present(tokens) : tokens[k].account = a /\ tokens[k].label = l}
GetTrustedTokenByHash(v) == {k \in Present(tokens) : tokens[k].value = v}
GetTrustedTokenByID(k) == {k} \cap Present(tokens)
TrustedTokenConflict(k, row) ==
    \/ GetTrustedTokenByID(k) # {} \/ GetTrustedTokenByHash(row.value) # {}
    \/ GetTrustedTokenByAccountAndNameKey(row.account, row.label) # {}
InsertTrustedToken(k, row) == tokens' = [tokens EXCEPT ![k] = row]
DeleteTrustedTokenByIDAndAccount(k, a) ==
    tokens' = [tokens EXCEPT ![k] =
                 IF tokens[k] # None /\ tokens[k].account = a THEN None ELSE @]

------------------------------------------------------------------------------
(* The session map, under sessionMu.                                       *)

SessionsOf(a) == {s \in Present(sessions) : sessions[s].account = a}
Drop(S) ==
    /\ sessions' = [s \in SessionIds |-> IF s \in S THEN None ELSE sessions[s]]
    /\ ended' = ended \cup S
CreateSession(a, admin) ==
    LET s == Cardinality(ended \cup Present(sessions)) + 1
    IN  /\ s \in SessionIds
        /\ sessions' = [sessions EXCEPT ![s] = [account |-> a, admin |-> admin]]
        /\ UNCHANGED ended
DeleteSession(s) == Drop({s} \cap Present(sessions))
(* Mutant: the sessions of the account are left to expire.                 *)
LeaveSessions(a) == UNCHANGED <<sessions, ended>>
DeleteSessionsByAccountID(a) == Drop(SessionsOf(a))

------------------------------------------------------------------------------
(* Requests: arrival, answer and the step in between.                      *)

Arrives(q) == started /\ req[q].pc = "idle" /\ made < MaxRequests
Become(q, r) == req' = [req EXCEPT ![q] = r]
Answer(q, a) == Become(q, [Idle EXCEPT !.answer = a])
Goto(q, pc) == Become(q, [req[q] EXCEPT !.pc = pc])
At(q, pc) == req[q].pc = pc /\ UNCHANGED <<made, started, restarts>>
Arrived(q) == Arrives(q) /\ made' = made + 1 /\ UNCHANGED <<started, restarts>>

(* setRequestSessionAccount: what the middleware leaves for the handler.   *)
Authenticated(q, a, admin, method) ==
    Become(q, [Idle EXCEPT !.pc = "open", !.who = a, !.admin = admin,
                           !.method = method])

------------------------------------------------------------------------------
(* Start-up and restart.                                                   *)

(* InitializeAdminAccount: the first start creates the administrator, and  *)
(* its initial API key if one is configured, in one transaction.           *)
InitializeAdminAccount ==
    /\ ~started /\ started' = TRUE
    /\ \/ CountAdminAccounts > 0 /\ UNCHANGED <<accounts, keys>>
       \/ /\ CountAdminAccounts = 0
          /\ \E a \in RandomIds \ spent, n \in Names, p \in Passwords :
               /\ ~AccountConflict(a, n)
               /\ InsertAccount(a, [name |-> n, password |-> p, admin |-> TRUE])
               /\ \/ UNCHANGED keys
                  \/ \E k \in SecretIds, l \in Labels, v \in Values :
                       InsertAPIKey(k, [account |-> a, label |-> l, value |-> v])
    /\ UNCHANGED <<tokens, sessions, ended, spent, req, made, restarts>>

(* Sessions live in memory only; requests in progress are cut.             *)
RestartConsole ==
    /\ started /\ restarts < MaxRestarts
    /\ started' = FALSE /\ restarts' = restarts + 1
    /\ Drop(Present(sessions))
    /\ req' = [q \in Requests |-> Idle]
    /\ UNCHANGED <<rows, made>>

------------------------------------------------------------------------------
(* Authentication.                                                         *)

(* verifyPassword: only an account with a bcrypt hash has a password.      *)
VerifyPassword(row, p) == row.password # NoPassword /\ row.password = p

(* Login up to the verification of the password ...                        *)
Login(q) ==
    /\ Arrived(q)
    /\ \E n \in Names, p \in Passwords :
         LET found == {a \in GetAccountByUsernameKey(n) :
                         VerifyPassword(accounts[a], p)}
         IN  \/ found = {} /\ Answer(q, "unauthorized")
             \/ \E a \in found :
                  Become(q, [Idle EXCEPT !.pc = "login", !.who = a,
                                         !.admin = accounts[a].admin])
    /\ UNCHANGED <<rows, sessions, ended>>

(* ... and from createSession on.                                          *)
FinishLogin(q) ==
    /\ At(q, "login")
    /\ CreateSession(req[q].who, req[q].admin)
    /\ Answer(q, "session") /\ UNCHANGED rows

Logout(q) ==
    /\ Arrived(q) /\ \E s \in SessionIds : DeleteSession(s)
    /\ Answer(q, "done") /\ UNCHANGED rows

(* RequireAuth with the session cookie: sessionState drops a session that  *)
(* has expired.                                                            *)
SessionState(q) ==
    /\ Arrived(q) /\ UNCHANGED rows
    /\ \E s \in Present(sessions) :
         \/ /\ Authenticated(q, sessions[s].account, sessions[s].admin, "cookie")
            /\ UNCHANGED <<sessions, ended>>
         \/ Drop({s}) /\ Answer(q, "unauthorized")

(* RequireAuth with an API key: two queries.                               *)
LookupAPIKey(q) ==
    /\ Arrived(q)
    /\ \E v \in Values :
         LET found == GetAPIKeyByHash(v)
         IN  \/ found = {} /\ Answer(q, "unauthorized")
             \/ \E k \in found :
                  Become(q, [Idle EXCEPT !.pc = "keyed", !.who = keys[k].account])
    /\ UNCHANGED <<rows, sessions, ended>>
RequireAuth(q) ==
    /\ At(q, "keyed")
    /\ LET row == GetAccountByID(req[q].who)
       IN  IF row = None THEN Answer(q, "unauthorized")
           ELSE Authenticated(q, req[q].who, row.admin, "api-key")
    /\ UNCHANGED <<rows, sessions, ended>>

(* The execution channel only takes the owner of the request.              *)
Owned(q, a) == Become(q, [Idle EXCEPT !.pc = "owner", !.who = a])

(* requireToken with a trusted token.                                      *)
RequireToken(q) ==
    /\ Arrived(q)
    /\ \E v \in Values :
         LET found == GetTrustedTokenByHash(v)
         IN  \/ found = {} /\ Answer(q, "unauthorized")
             \/ \E k \in found : Owned(q, tokens[k].account)
    /\ UNCHANGED <<rows, sessions, ended>>

(* A verified JIT token, of the execution channel or of the dashboard's.   *)
VerifyJIT(q) ==
    /\ Arrived(q)
    /\ \E method \in {"jit", "dashboard-jit"} :
         Become(q, [Idle EXCEPT !.method = method,
                                !.pc = IF GetAccountByID(JitId) = None
                                       THEN "jit" ELSE "jitFound",
                                !.who = IF GetAccountByID(JitId) = None
                                        THEN None ELSE JitId])
    /\ UNCHANGED <<rows, sessions, ended>>

(* Mutant: on a conflict the transaction settles for whoever has the name. *)
EnsureJITByName(q) ==
    /\ At(q, "jit")
    /\ LET there == GetAccountByUsernameKey(JitName)
       IN  \/ /\ there # {} /\ UNCHANGED accounts
             /\ \E a \in there :
                   Become(q, [req[q] EXCEPT !.pc = "jitFound", !.who = a])
          \/ /\ there = {}
             /\ InsertAccount(JitId, [name |-> JitName, password |-> NoPassword,
                                      admin |-> FALSE])
             /\ Become(q, [req[q] EXCEPT !.pc = "jitFound", !.who = JitId])
    /\ UNCHANGED <<keys, tokens, spent, sessions, ended>>
(* ensureJITAccount's transaction: find the account by id, or insert it;   *)
(* a username somebody else registered refuses the token.                  *)
EnsureJITAccount(q) ==
    /\ At(q, "jit")
    /\ LET jit == [name |-> JitName, password |-> NoPassword, admin |-> FALSE]
           ok == [req[q] EXCEPT !.pc = "jitFound", !.who = JitId]
       IN  \/ /\ GetAccountByID(JitId) # None
             /\ UNCHANGED accounts /\ Become(q, ok)
          \/ /\ ~AccountConflict(JitId, JitName)
             /\ InsertAccount(JitId, jit) /\ Become(q, ok)
          \/ /\ GetAccountByID(JitId) = None /\ AccountConflict(JitId, JitName)
             /\ UNCHANGED accounts /\ Answer(q, "unauthorized")
    /\ UNCHANGED <<keys, tokens, spent, sessions, ended>>

(* The dashboard goes on, and never as an administrator.                   *)
AdmitJIT(q) ==
    /\ At(q, "jitFound")
    /\ IF req[q].method = "jit" THEN Owned(q, req[q].who)
       ELSE Authenticated(q, req[q].who, FALSE, "dashboard-jit")
    /\ UNCHANGED <<rows, sessions, ended>>

------------------------------------------------------------------------------
(* The handlers, from the middleware's verdict on.                         *)

RequireCookieSession(q) == At(q, "open") /\ req[q].method = "cookie"
RequireAdmin(q) == At(q, "open") /\ req[q].admin

(* A refusal by a middleware, or a request that only reads.                *)
Reads(q) ==
    /\ \E pc \in {"open", "owner"} : At(q, pc)
    /\ Answer(q, "done")
    /\ UNCHANGED <<rows, sessions, ended>>

(* One turn of createAccountWithRetry's loop: a constraint error is        *)
(* classified by two further queries.                                      *)
InsertTurn(q, a, n, p) ==
    \/ /\ ~AccountConflict(a, n) /\ Answer(q, "created")
       /\ InsertAccount(a, [name |-> n, password |-> p, admin |-> FALSE])
    \/ /\ AccountConflict(a, n) /\ UNCHANGED accounts
       /\ Become(q, [req[q] EXCEPT !.pc = "clashId", !.arg = n, !.value = p,
                                   !.draw = a])

Register(q) ==
    /\ RequireAdmin(q)
    /\ \E a \in RandomIds \ spent, n \in Names, p \in Passwords :
         InsertTurn(q, a, n, p)
    /\ UNCHANGED <<keys, tokens, spent, sessions, ended>>
CreateAccountWithRetry(q) ==
    /\ At(q, "insert")
    /\ \E a \in RandomIds \ spent : InsertTurn(q, a, req[q].arg, req[q].value)
    /\ UNCHANGED <<keys, tokens, spent, sessions, ended>>

(* A turn that is to be repeated: the loop makes MaxTries of them.         *)
Again(q, pc, last) ==
    IF req[q].tries + 1 < MaxTries
    THEN Become(q, [req[q] EXCEPT !.pc = pc, !.tries = @ + 1, !.draw = None])
    ELSE Answer(q, last)

ClassifyAccountInsertConflict(q) ==
    /\ \/ /\ At(q, "clashId")
          /\ IF GetAccountByID(req[q].draw) # None THEN Again(q, "insert", "failed")
             ELSE Goto(q, "clashName")
       \/ /\ At(q, "clashName")
          /\ Answer(q, IF GetAccountByUsernameKey(req[q].arg) # {}
                       THEN "conflict" ELSE "failed")
    /\ UNCHANGED <<rows, sessions, ended>>

(* ChangePassword: read and verify, update, drop the sessions, create one. *)
ChangePassword(q) ==
    /\ RequireCookieSession(q) /\ UNCHANGED rows
    /\ LET row == GetAccountByID(req[q].who)
       IN  \/ /\ row = None /\ DeleteSessionsByAccountID(req[q].who)
              /\ Answer(q, "unauthorized")
           \/ /\ row # None /\ UNCHANGED <<sessions, ended>>
              /\ \E p, new \in Passwords :
                   IF VerifyPassword(row, p)
                   THEN Become(q, [req[q] EXCEPT !.pc = "update", !.value = new,
                                     !.admin = row.admin,
                                     !.before = SessionsOf(req[q].who)])
                   ELSE Answer(q, "unauthorized")
UpdatePassword(q) ==
    /\ At(q, "update") /\ UNCHANGED <<keys, tokens, spent>>
    /\ \/ /\ GetAccountByID(req[q].who) = None /\ UNCHANGED accounts
          /\ DeleteSessionsByAccountID(req[q].who) /\ Answer(q, "unauthorized")
       \/ /\ GetAccountByID(req[q].who) # None
          /\ UpdateAccountPasswordByID(req[q].who, req[q].value)
          /\ Goto(q, "drop") /\ UNCHANGED <<sessions, ended>>
RotateSessions(q) ==
    /\ At(q, "drop") /\ DeleteSessionsByAccountID(req[q].who)
    /\ Goto(q, "renew") /\ UNCHANGED rows
RenewSession(q) ==
    /\ At(q, "renew") /\ CreateSession(req[q].who, req[q].admin)
    /\ Answer(q, "changed") /\ UNCHANGED rows

(* DeleteAccount: the row, then (proxy routes and) sessions.               *)
DeleteAccount(q) ==
    /\ RequireAdmin(q) /\ UNCHANGED <<sessions, ended>>
    /\ \E a \in Ids \ {req[q].who} :
         \/ /\ accounts[a] # None /\ ~accounts[a].admin
            /\ DeleteNonAdminAccountByID(a)
            /\ Become(q, [req[q] EXCEPT !.pc = "revoke", !.arg = a,
                                        !.before = SessionsOf(a)])
         \/ /\ accounts[a] # None => accounts[a].admin
            /\ Answer(q, "notDeleted") /\ UNCHANGED rows
RevokeAccount(q) ==
    /\ At(q, "revoke") /\ DeleteSessionsByAccountID(req[q].arg)
    /\ Answer(q, "deleted") /\ UNCHANGED rows

------------------------------------------------------------------------------
(* API keys and trusted tokens: the same loop over two tables.  A row      *)
(* whose account is gone fails the foreign key, which is not retried.      *)

SecretTurn(q, conflicts, k, row, r) ==
    IF conflicts THEN Become(q, [r EXCEPT !.arg = row.label, !.value = row.value,
                                          !.draw = k])
    ELSE Answer(q, IF GetAccountByID(row.account) = None THEN "failed"
                   ELSE "created")

KeyTurn(q, l, v) ==
    /\ \E k \in SecretIds :
         LET row == [account |-> req[q].who, label |-> l, value |-> v]
             conflicts == APIKeyConflict(k, row)
         IN  /\ SecretTurn(q, conflicts, k, row, [req[q] EXCEPT !.pc = "keyName"])
             /\ IF ~conflicts /\ GetAccountByID(row.account) # None
                THEN InsertAPIKey(k, row) ELSE UNCHANGED keys
    /\ UNCHANGED <<accounts, tokens, spent, sessions, ended>>
CreateAPIKey(q) ==
    RequireCookieSession(q) /\ \E l \in Labels, v \in Values : KeyTurn(q, l, v)
RetryAPIKey(q) ==
    At(q, "key") /\ \E v \in Values : KeyTurn(q, req[q].arg, v)

ClassifyAPIKeyInsertConflict(q) ==
    /\ \/ /\ At(q, "keyName")
          /\ IF GetAPIKeyByAccountAndNameKey(req[q].who, req[q].arg) # {}
             THEN Answer(q, "conflict") ELSE Goto(q, "keyHash")
       \/ /\ At(q, "keyHash")
          /\ IF GetAPIKeyByHash(req[q].value) # {}
             THEN Again(q, "key", "failed") ELSE Goto(q, "keyId")
       \/ /\ At(q, "keyId")
          /\ IF GetAPIKeyByID(req[q].draw) # {}
             THEN Again(q, "key", "failed") ELSE Answer(q, "failed")
    /\ UNCHANGED <<rows, sessions, ended>>

DeleteAPIKey(q) ==
    /\ RequireCookieSession(q)
    /\ \E k \in SecretIds : DeleteAPIKeyByIDAndAccount(k, req[q].who)
    /\ Answer(q, "done")
    /\ UNCHANGED <<accounts, tokens, spent, sessions, ended>>

(* A token value is generated, and drawn anew on every turn, or given.     *)
TokenTurn(q, from, l, v) ==
    /\ \E k \in SecretIds :
         LET row == [account |-> req[q].who, label |-> l, value |-> v]
             conflicts == TrustedTokenConflict(k, row)
         IN  /\ SecretTurn(q, conflicts, k, row,
                           [req[q] EXCEPT !.pc = "tokenName", !.method = from])
             /\ IF ~conflicts /\ GetAccountByID(row.account) # None
                THEN InsertTrustedToken(k, row) ELSE UNCHANGED tokens
    /\ UNCHANGED <<accounts, keys, spent, sessions, ended>>
CreateToken(q) ==
    /\ RequireCookieSession(q)
    /\ \E from \in {"given", "generated"}, l \in Labels, v \in Values :
         TokenTurn(q, from, l, v)
RetryToken(q) ==
    /\ At(q, "token")
    /\ \E v \in IF req[q].method = "given" THEN {req[q].value} ELSE Values :
         TokenTurn(q, req[q].method, req[q].arg, v)

ClassifyTrustedTokenInsertConflict(q) ==
    LET last == IF req[q].method = "given" THEN "conflict" ELSE "failed"
    IN  /\ \/ /\ At(q, "tokenName")
              /\ IF GetTrustedTokenByAccountAndNameKey(req[q].who, req[q].arg) # {}
                 THEN Answer(q, "conflict") ELSE Goto(q, "tokenHash")
           \/ /\ At(q, "tokenHash")
              /\ IF GetTrustedTokenByHash(req[q].value) = {} THEN Goto(q, "tokenId")
                 ELSE IF req[q].method = "given" THEN Answer(q, "conflict")
                 ELSE Again(q, "token", last)
           \/ /\ At(q, "tokenId")
              /\ IF GetTrustedTokenByID(req[q].draw) # {}
                 THEN Again(q, "token", last) ELSE Answer(q, "failed")
        /\ UNCHANGED <<rows, sessions, ended>>

DeleteToken(q) ==
    /\ RequireCookieSession(q)
    /\ \E k \in SecretIds : DeleteTrustedTokenByIDAndAccount(k, req[q].who)
    /\ Answer(q, "done")
    /\ UNCHANGED <<accounts, keys, spent, sessions, ended>>

------------------------------------------------------------------------------
Next ==
    \/ InitializeAdminAccount
    \/ RestartConsole
    \/ \E q \in Requests :
         \/ Login(q) \/ FinishLogin(q) \/ Logout(q)
         \/ SessionState(q) \/ LookupAPIKey(q) \/ RequireAuth(q)
         \/ RequireToken(q)
         \/ VerifyJIT(q) \/ EnsureJITAccount(q) \/ AdmitJIT(q)
         \/ Reads(q)
         \/ Register(q) \/ CreateAccountWithRetry(q)
         \/ ClassifyAccountInsertConflict(q)
         \/ ChangePassword(q) \/ UpdatePassword(q)
         \/ RotateSessions(q) \/ RenewSession(q)
         \/ DeleteAccount(q) \/ RevokeAccount(q)
         \/ CreateAPIKey(q) \/ RetryAPIKey(q)
         \/ ClassifyAPIKeyInsertConflict(q) \/ DeleteAPIKey(q)
         \/ CreateToken(q) \/ RetryToken(q)
         \/ ClassifyTrustedTokenInsertConflict(q) \/ DeleteToken(q)

Spec == Init /\ [][Next]_vars

------------------------------------------------------------------------------
(* Tables, sessions and requests are well formed, usernames are unique and *)
(* no insert loop makes more than MaxTries turns.                          *)
TypeOK ==
    /\ accounts \in [Ids -> Account \cup {None}]
    /\ keys \in [SecretIds -> Secret \cup {None}]
    /\ tokens \in [SecretIds -> Secret \cup {None}]
    /\ sessions \in [SessionIds -> SessionAccount \cup {None}]
    /\ ended \subseteq SessionIds /\ spent \subseteq RandomIds
    /\ \A n \in Names : Cardinality(GetAccountByUsernameKey(n)) <= 1
    /\ \A q \in Requests : req[q].tries \in 0..(MaxTries - 1)
    /\ made \in 0..MaxRequests /\ restarts \in 0..MaxRestarts

(* An API key or trusted token never outlives the account it authenticates *)
(* (createAPIKey and createToken run long after the middleware checked the *)
(* account, and may race DeleteAccount), and its value names one row.      *)
SecretsOwned ==
    \A tab \in {keys, tokens} : \A i \in Present(tab) :
        /\ accounts[tab[i].account] # None
        /\ \A j \in Present(tab) : tab[i].value = tab[j].value => i = j

(* A request with a JIT token acts for the account derived from its        *)
(* issuer and subject or not at all, also when somebody registered the     *)
(* derived username (ensureJITAccount), and such an account has neither a  *)
(* password nor a session nor a secret of its own.                         *)
JitActsAsItself ==
    /\ \A q \in Requests :
         req[q].pc = "jitFound" \/ req[q].method = "dashboard-jit" => 
             req[q].who \in {JitId, None}
    /\ \A s \in Present(sessions) : sessions[s].account # JitId
    /\ \A tab \in {keys, tokens} : \A i \in Present(tab) : tab[i].account # JitId

(* When ChangePassword or DeleteAccount reports success, no session of the *)
(* account that was there when it began is left (deleteSessionsByAccountID *)
(* after the update of the row).                                           *)
SessionsEnd ==
    [][\A q \in Requests :
         req[q].pc \in {"renew", "revoke"} /\ req'[q].pc = "idle" =>
             req[q].before \cap Present(sessions') = {}]_vars
==============================================================================
