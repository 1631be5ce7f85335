----------------------------- MODULE E2BSessions -----------------------------
(***************************************************************************)
(* Terminal sessions of the E2B bridge worker (worker/worker-bridge-e2b:   *)
(* internal/runner/terminal_exec.go, terminal_resource.go,                 *)
(* session_recovery.go, python_runtime.go, internal/e2b/client.go).        *)
(*                                                                         *)
(* A session's sandbox lives at a remote service that ends it by itself at *)
(* a timeout, so a lease exists three times: as the worker wants it, as it *)
(* last confirmed it, and as the remote timeout it believes in.  A critical *)
(* section of m.mu is one step, and so is the moment a remote call takes   *)
(* effect: a call that creates a sandbox, sets its timeout or connects to  *)
(* it may take effect and still fail, its answer late or unreadable.       *)
(* Sessions are objects that a request keeps a pointer to while it         *)
(* releases them by their id.                                              *)
(***************************************************************************)
EXTENDS Naturals, FiniteSets

CONSTANTS Keys,         \* session ids
          Requests,     \* concurrent commands
          None,
          TTLs,         \* lease_ttl_sec, in ticks
          Deadlines,    \* time a command is given, in ticks
          MaxActive,    \* WORKER_TERMINAL_MAX_ACTIVE_SESSIONS
          MaxInflight,  \* per session
          Faults,       \* subset of {"restart", "reconnect", "killFails", "dies"}
          MaxTime, MaxRequests  \* bounds

VARIABLES now,
          map,        \* m.sessions: key -> object or None
          obj,        \* the session objects made so far
          box,        \* the sandboxes at the remote service
          reserved,   \* activeSessionReservations
          retiring,   \* retired sessions whose cleanup is running
          req,        \* commands in progress
          closing,    \* the stage Close has reached
          collected,  \* sessions Close took from the map and still counts
          ready,      \* recovery is acknowledged: commands may arrive
          recovery,   \* recoverOne in progress, or None
          pending,    \* candidates not yet recovered
          told,       \* lease per session the console has last heard of
          made,       \* requests so far
          faulted     \* the one fault there has been, or None

vars == <<now, map, obj, box, reserved, retiring, req, closing, collected,
          ready, recovery, pending, told, made, faulted>>
manager == <<map, obj, reserved, retiring>>
link == <<closing, collected, ready, recovery, pending, faulted>>

(* A request makes at most one session, a recovery one for each key.       *)
Objects == 1..(MaxRequests + Cardinality(Keys))
Boxes == Objects
Time == 0..MaxTime
Later(t) == IF t > MaxTime THEN MaxTime ELSE t  \* time ends at the bound
Larger(a, b) == IF a < b THEN b ELSE a

Session == [key : Keys, sandbox : Boxes \cup {None}, desired : Time,
            confirmed : Time, remote : Time, inflight : 0..MaxRequests,
            destroying : BOOLEAN, state : {"creating", "ready", "failed"},
            lock : Requests \cup {None}]
(* lost: the timeout a sandbox had when the call that made it failed.      *)
Sandbox == [key : Keys \cup {None}, until : Time, killed : BOOLEAN,
            died : BOOLEAN, lost : Time \cup {None}]
Retired == [box : Boxes \cup {None}, slot : BOOLEAN, by : Requests \cup {"janitor"},
            killed : BOOLEAN]

ASSUME E2BAssumption ==
    /\ None \notin Keys \cup Requests \cup Nat \cup Session \cup Sandbox
    /\ {MaxActive, MaxInflight, MaxTime, MaxRequests} \subseteq Nat
    /\ TTLs \cup Deadlines \subseteq Nat \ {0}

Idle == [pc |-> "idle", kind |-> None, key |-> None, object |-> None, box |-> None,
         deadline |-> 0, lease |-> 0, target |-> 0, cancelled |-> FALSE]

Init ==
    /\ now = 0 /\ map = [k \in Keys |-> None] /\ obj = <<>> /\ box = <<>>
    /\ reserved = 0 /\ retiring = {} /\ req = [q \in Requests |-> Idle]
    /\ closing = "open" /\ collected = 0 /\ ready = TRUE /\ recovery = None /\ pending = {}
    /\ told = [k \in Keys |-> 0] /\ made = 0 /\ faulted = None

------------------------------------------------------------------------------
(* The remote service (internal/e2b/client.go).                            *)

Alive(b) == ~box[b].killed /\ ~box[b].died /\ box[b].until > now

CreateWithMetadata(k, until) ==
    box' = [b \in 1..(Cardinality(DOMAIN box) + 1) |->
              IF b \in DOMAIN box THEN box[b]
              ELSE [key |-> k, until |-> until, killed |-> FALSE, died |-> FALSE,
                    lost |-> None]]
NewBox == Cardinality(DOMAIN box) + 1
(* The caller of a creation that fails does not know the sandbox it made.  *)
Lose(b) == box' = [box EXCEPT ![b].lost = box[b].until]
SetTimeout(b, until) == box' = [box EXCEPT ![b].until = until]
Connect(b, until) == box' = [box EXCEPT ![b].until = Larger(until, now)]
KillEffect(b) ==
    IF b = None THEN UNCHANGED <<box, faulted>>
    ELSE \/ box' = [box EXCEPT ![b].killed = TRUE, ![b].until = 0] /\ UNCHANGED faulted
         \/ /\ "killFails" \in Faults /\ faulted = None /\ faulted' = "killFails"
            /\ UNCHANGED box
List(k) == {b \in DOMAIN box : box[b].key = k /\ Alive(b)}

(* A sandbox ends before its time.                                         *)
SandboxDies ==
    /\ "dies" \in Faults /\ faulted = None
    /\ \E b \in DOMAIN box : Alive(b) /\ box' = [box EXCEPT ![b].died = TRUE]
    /\ faulted' = "dies"
    /\ UNCHANGED <<now, manager, req, closing, collected, ready, recovery, pending, told, made>>

------------------------------------------------------------------------------
(* Requests: the context of a command, its answer, its release.            *)

Become(q, r) == req' = [req EXCEPT ![q] = r]
At(q, pc) == req[q].pc = pc /\ UNCHANGED <<link, made>>
(* Its deadline has passed, or the connection it came over is gone.        *)
ContextDone(q) == req[q].cancelled \/ req[q].deadline <= now

(* A successful answer tells the console the lease.                        *)
Tell(q, lease) ==
    told' = IF req[q].cancelled \/ req[q].kind = "resource" THEN told
            ELSE [told EXCEPT ![req[q].key] = Larger(@, lease)]
Answer(q) == Become(q, Idle)

Retire(o, slot, who) ==
    retiring \cup {[box |-> obj[o].sandbox, slot |-> slot, by |-> who,
                    killed |-> FALSE]}

(* releaseSession and releaseAndDestroySession: by id, whatever object it  *)
(* names now.  The last to leave a session that is to be destroyed cleans  *)
(* it up.                                                                  *)
Leave(q, destroy, ok) ==
    LET k == req[q].key
        o == map[k]
        unlocked == [obj EXCEPT ![req[q].object].lock = IF @ = q THEN None ELSE @]
    IN  IF o = None
        THEN /\ Answer(q)
             /\ obj' = unlocked /\ UNCHANGED <<map, retiring, told>>
        ELSE LET left == IF obj[o].inflight > 0 THEN obj[o].inflight - 1 ELSE 0
                 dying == destroy \/ obj[o].destroying
             IN  /\ obj' = [unlocked EXCEPT ![o].inflight = left,
                                            ![o].destroying = dying]
                 /\ IF ok THEN Tell(q, obj[o].confirmed) ELSE UNCHANGED told
                 /\ IF dying /\ left = 0
                    THEN /\ map' = [map EXCEPT ![k] = None]
                         /\ retiring' = Retire(o, TRUE, q)
                         /\ Become(q, [Idle EXCEPT !.pc = "cleanup"])
                    ELSE Answer(q) /\ UNCHANGED <<map, retiring>>

------------------------------------------------------------------------------
(* claimSession.                                                           *)

CapacityAvailableLocked == MaxActive = 0 \/ reserved < MaxActive

Fresh == Cardinality(DOMAIN obj) + 1
WithObject(s) == [o \in 1..Fresh |-> IF o = Fresh THEN s ELSE obj[o]]
NewSession(k, lease) ==
    [key |-> k, sandbox |-> None, desired |-> lease, confirmed |-> 0,
     remote |-> 0, inflight |-> 1, destroying |-> FALSE, state |-> "creating",
     lock |-> None]

ExpiredIdle(o) == obj[o].inflight = 0 /\ obj[o].confirmed <= now

Refused(q) == Answer(q) /\ UNCHANGED <<manager, told, box>>

(* The three ways an existing entry is treated, and a missing one.  From   *)
(* then on the session's desired lease counts, not the command's.          *)
ReplaceExpired(q, r, create) ==
    LET o == map[r.key]
    IN  IF create
        THEN /\ map' = [map EXCEPT ![r.key] = Fresh]
             /\ obj' = WithObject(NewSession(r.key, r.lease))
             /\ retiring' = Retire(o, FALSE, q)
             /\ Become(q, [r EXCEPT !.pc = "create", !.object = Fresh, !.lease = 0])
        ELSE /\ map' = [map EXCEPT ![r.key] = None] /\ UNCHANGED obj
             /\ retiring' = Retire(o, TRUE, q)
             /\ Become(q, [Idle EXCEPT !.pc = "cleanup"])
JoinSession(q, r) ==
    LET o == map[r.key]
    IN  IF obj[o].inflight >= MaxInflight THEN Answer(q) /\ UNCHANGED obj
        ELSE /\ obj' = [obj EXCEPT ![o].inflight = @ + 1,
                                   ![o].desired = Larger(@, r.lease)]
             /\ Become(q, [r EXCEPT !.pc = "wait", !.object = o, !.lease = 0])
NewSessionLocked(q, r) ==
    IF CapacityAvailableLocked
    THEN /\ map' = [map EXCEPT ![r.key] = Fresh]
         /\ obj' = WithObject(NewSession(r.key, r.lease))
         /\ reserved' = reserved + 1
         /\ Become(q, [r EXCEPT !.pc = "create", !.object = Fresh, !.lease = 0])
    ELSE Answer(q) /\ UNCHANGED <<map, obj, reserved>>

ClaimSession(q, r, create) ==
    LET o == map[r.key]
        there == o # None /\ closing = "open"
    IN  /\ \/ closing # "open" /\ Refused(q)
           \/ /\ there /\ ~obj[o].destroying /\ ExpiredIdle(o)
              /\ ReplaceExpired(q, r, create) /\ UNCHANGED reserved
           \/ /\ there /\ ~obj[o].destroying /\ ~ExpiredIdle(o)
              /\ JoinSession(q, r) /\ UNCHANGED <<map, reserved, retiring>>
           \/ /\ closing = "open" /\ o = None /\ create
              /\ NewSessionLocked(q, r) /\ UNCHANGED retiring
           \/ /\ closing = "open"
              /\ IF o = None THEN ~create ELSE obj[o].destroying
              /\ Refused(q)
        /\ UNCHANGED <<box, told>>

(* A session id is the console's; without one the id is new, which is the  *)
(* case of a key that has no entry.                                        *)
Execute(q, r, create) == ClaimSession(q, r, create)
ResolveResource(q, r) == ClaimSession(q, r, FALSE)

(* RenewLease enters a ready session directly, and whatever its load.      *)
RenewLease(q, r) ==
    LET o == map[r.key]
        live == IF o = None THEN FALSE
                ELSE /\ ~obj[o].destroying /\ obj[o].sandbox # None
                     /\ obj[o].confirmed > now
    IN  /\ IF closing = "open" /\ live
           THEN /\ obj' = [obj EXCEPT ![o].inflight = @ + 1,
                                      ![o].desired = Larger(@, r.lease)]
                /\ Become(q, [r EXCEPT !.pc = "sync", !.object = o, !.lease = 0])
           ELSE Answer(q) /\ UNCHANGED obj
        /\ UNCHANGED <<map, reserved, retiring, told, box>>

(* A command dispatched to the worker, with the deadline of its context.   *)
Arrives(q) ==
    /\ ready /\ req[q].pc = "idle" /\ made < MaxRequests
    /\ made' = made + 1 /\ UNCHANGED <<now, link>>
Arrival(kind, k, lease) ==
    {[Idle EXCEPT !.kind = kind, !.key = k, !.lease = lease,
                  !.deadline = Later(now + d)] : d \in Deadlines}

TerminalExecCommand(q) ==
    /\ Arrives(q)
    /\ \E k \in Keys, t \in TTLs, create \in BOOLEAN :
         \E r \in Arrival("exec", k, Later(now + t)) : Execute(q, r, create)
TerminalResourceCommand(q) ==
    /\ Arrives(q)
    /\ \E k \in Keys : \E r \in Arrival("resource", k, 0) : ResolveResource(q, r)
TerminalLeaseRenewCommand(q) ==
    /\ Arrives(q)
    /\ \E k \in Keys, t \in TTLs :
         \E r \in Arrival("renew", k, Later(now + t)) : RenewLease(q, r)
PythonExecCommand(q) ==
    /\ Arrives(q) /\ UNCHANGED <<manager, box, told>>
    /\ \E r \in Arrival("python", None, 0) : Become(q, [r EXCEPT !.pc = "pythonCreate"])

------------------------------------------------------------------------------
(* awaitSessionReady.                                                      *)

(* The creator reads the lease the sandbox is to have; with an inherited   *)
(* slot the old sandbox goes before the new one is created ...             *)
StartCreate(q) ==
    /\ At(q, "create") /\ \A r \in retiring : r.by # q
    /\ Become(q, [req[q] EXCEPT !.pc = "creating",
                                !.target = obj[req[q].object].desired])
    /\ UNCHANGED <<now, manager, box, told>>
(* ... the service makes it ...                                            *)
CreateSandbox(q) ==
    /\ At(q, "creating")
    /\ CreateWithMetadata(req[q].key, req[q].target)
    /\ Become(q, [req[q] EXCEPT !.pc = "created", !.box = NewBox])
    /\ UNCHANGED <<now, manager, told>>
(* ... and the session has it, or the creation fails, before or after the  *)
(* sandbox was made; then the gate opens for those who wait.               *)
SandboxCreated(q) ==
    /\ At(q, "created")
    /\ LET lease == req[q].target
       IN  obj' = [obj EXCEPT ![req[q].object].sandbox = req[q].box,
                              ![req[q].object].confirmed = lease,
                              ![req[q].object].remote = lease,
                              ![req[q].object].state = "ready"]
    /\ Become(q, [req[q] EXCEPT !.pc = "sync", !.box = None, !.target = 0])
    /\ UNCHANGED <<now, map, reserved, retiring, box, told>>
CreateFails(q) ==
    /\ \/ At(q, "creating") /\ UNCHANGED box
       \/ At(q, "created") /\ Lose(req[q].box)
    /\ obj' = [obj EXCEPT ![req[q].object].state = "failed"]
    /\ Become(q, [req[q] EXCEPT !.pc = "failed", !.box = None, !.target = 0])
    /\ UNCHANGED <<now, map, reserved, retiring, told>>
DestroyFailed(q) ==
    /\ At(q, "failed") /\ Leave(q, TRUE, FALSE)
    /\ UNCHANGED <<now, reserved, box>>
AwaitSessionReady(q) ==
    /\ At(q, "wait") /\ UNCHANGED <<now, reserved, box>>
    /\ LET state == obj[req[q].object].state
       IN  \/ /\ state = "ready" /\ Become(q, [req[q] EXCEPT !.pc = "sync"])
              /\ UNCHANGED <<map, obj, retiring, told>>
           \/ state = "failed" /\ Leave(q, FALSE, FALSE)
           \/ state = "creating" /\ ContextDone(q) /\ Leave(q, FALSE, FALSE)

------------------------------------------------------------------------------
(* syncSandboxTimeout: the lock is held over the call.                     *)

TargetOf(q) == Larger(obj[req[q].object].desired, req[q].deadline)
AfterSync(q) == IF req[q].kind = "renew" THEN "leave" ELSE "run"

(* Mutant: the lease counts as confirmed before the remote call.           *)
ConfirmFirst(q) ==
    /\ At(q, "sync") /\ obj[req[q].object].lock = None
    /\ LET o == req[q].object
           s == obj[o]
       IN  IF s.remote >= TargetOf(q)
           THEN /\ obj' = [obj EXCEPT ![o].confirmed = Larger(@, s.desired)]
                /\ Become(q, [req[q] EXCEPT !.pc = AfterSync(q)])
           ELSE /\ obj' = [obj EXCEPT ![o].lock = q,
                                      ![o].confirmed = Larger(@, s.desired)]
                /\ Become(q, [req[q] EXCEPT !.pc = "set", !.lease = s.desired,
                                            !.target = TargetOf(q)])
    /\ UNCHANGED <<now, map, reserved, retiring, box, told>>
SyncSandboxTimeout(q) ==
    /\ At(q, "sync") /\ obj[req[q].object].lock = None
    /\ LET o == req[q].object
           s == obj[o]
       IN  IF s.remote >= TargetOf(q)
           THEN /\ obj' = [obj EXCEPT ![o].confirmed = Larger(@, s.desired)]
                /\ Become(q, [req[q] EXCEPT !.pc = AfterSync(q)])
           ELSE /\ obj' = [obj EXCEPT ![o].lock = q]
                /\ Become(q, [req[q] EXCEPT !.pc = "set", !.lease = s.desired,
                                            !.target = TargetOf(q)])
    /\ UNCHANGED <<now, map, reserved, retiring, box, told>>
SetSandboxTimeout(q) ==
    /\ At(q, "set") /\ Alive(obj[req[q].object].sandbox)
    /\ SetTimeout(obj[req[q].object].sandbox, req[q].target)
    /\ Become(q, [req[q] EXCEPT !.pc = "answered"])
    /\ UNCHANGED <<now, manager, told>>
TimeoutSet(q) ==
    /\ At(q, "answered")
    /\ LET o == req[q].object
       IN  obj' = [obj EXCEPT ![o].remote = Larger(@, req[q].target),
                              ![o].confirmed = Larger(@, req[q].lease),
                              ![o].lock = None]
    /\ Become(q, [req[q] EXCEPT !.pc = AfterSync(q), !.target = 0, !.lease = 0])
    /\ UNCHANGED <<now, map, reserved, retiring, box, told>>
(* Not found and, but for a renewal, cancelled destroy the session; a      *)
(* timeout that was set may still be reported as one that was not.         *)
TimeoutNotSet(q) ==
    /\ At(q, "set") \/ At(q, "answered")
    /\ UNCHANGED <<now, reserved, box>>
    /\ \/ At(q, "set") /\ ~Alive(obj[req[q].object].sandbox) /\ Leave(q, TRUE, FALSE)
       \/ ContextDone(q) /\ Leave(q, req[q].kind # "renew", FALSE)
       \/ Leave(q, FALSE, FALSE)
LeaveRenewed(q) ==
    /\ At(q, "leave") /\ Leave(q, FALSE, TRUE) /\ UNCHANGED <<now, reserved, box>>

------------------------------------------------------------------------------
(* The command, or the probe and transfer of a file.                       *)

(* What a command in a sandbox comes back with.                            *)
RunOutcomes(q, b) ==
    {"error"} \cup (IF Alive(b) THEN {"ok"} ELSE {"notFound"})
              \cup (IF ContextDone(q) THEN {"deadline"} ELSE {})
(* A file request to a sandbox that is gone reads as a missing file.       *)
ReadFileOutcomes(q, b) ==
    {"error"} \cup (IF Alive(b) THEN {"ok"} ELSE {})
              \cup (IF ContextDone(q) THEN {"deadline"} ELSE {})
(* An export goes through the worker or is a command of its own.           *)
ExportResource(q, b) == ReadFileOutcomes(q, b) \cup RunOutcomes(q, b)

(* Execute and ResolveResource from there: cancelled and not found destroy *)
(* the session.                                                            *)
Finish(q, outcome) ==
    Leave(q, outcome \in {"notFound", "deadline"}, outcome = "ok")

Run(q) ==
    /\ At(q, "run") /\ UNCHANGED <<now, reserved, box>>
    /\ \E outcome \in RunOutcomes(q, obj[req[q].object].sandbox) : Finish(q, outcome)
ResourceProbed(q) ==
    /\ At(q, "run") /\ req[q].kind = "resource"
    /\ Alive(obj[req[q].object].sandbox)
    /\ Become(q, [req[q] EXCEPT !.pc = "transfer"])
    /\ UNCHANGED <<now, manager, box, told>>
ResourceTransfer(q) ==
    /\ At(q, "transfer") /\ UNCHANGED <<now, reserved, box>>
    /\ LET b == obj[req[q].object].sandbox
       IN  \E outcome \in ReadFileOutcomes(q, b) \cup ExportResource(q, b) :
             Finish(q, outcome)

(* pythonExec: a sandbox of its own for the time of one command.  Again    *)
(* the creation may fail before or after the sandbox was made.             *)
PythonCreate(q) ==
    /\ At(q, "pythonCreate")
    /\ CreateWithMetadata(None, req[q].deadline)
    /\ Become(q, [req[q] EXCEPT !.pc = "pythonRun", !.box = NewBox])
    /\ UNCHANGED <<now, manager, told>>
PythonCreateFails(q) ==
    /\ \/ At(q, "pythonCreate") /\ UNCHANGED box
       \/ At(q, "pythonRun") /\ Lose(req[q].box)
    /\ Answer(q) /\ UNCHANGED <<now, manager, told>>
(* Mutant: a run that fails returns before its sandbox is killed.          *)
PythonFailsEarly(q) ==
    /\ req[q].pc = "pythonRun" /\ Answer(q)
    /\ KillEffect(req[q].box) \/ UNCHANGED <<box, faulted>>
    /\ UNCHANGED <<now, manager, closing, collected, ready, recovery, pending,
                   told, made>>
(* However the run ends, the deferred kill follows.                        *)
PythonRun(q) ==
    /\ req[q].pc = "pythonRun" /\ KillEffect(req[q].box) /\ Answer(q)
    /\ UNCHANGED <<now, manager, closing, collected, ready, recovery, pending,
                   told, made>>

------------------------------------------------------------------------------
(* cleanupRetiredSession: one actor cleans up one session after another.   *)

KillSandbox ==
    /\ \E r \in retiring :
         /\ ~r.killed /\ \A s \in retiring : s.by = r.by => ~s.killed
         /\ KillEffect(r.box)
         /\ retiring' = (retiring \ {r}) \cup
              (IF r.slot THEN {[r EXCEPT !.killed = TRUE]} ELSE {})
    /\ UNCHANGED <<now, map, obj, reserved, req, closing, collected, ready,
                   recovery, pending, told, made>>
ReleaseSlot ==
    /\ \E r \in retiring :
         /\ r.killed /\ retiring' = retiring \ {r}
         /\ reserved' = IF reserved > 0 THEN reserved - 1 ELSE 0
    /\ UNCHANGED <<now, map, obj, box, req, link, told, made>>
CleanedUp(q) ==
    /\ At(q, "cleanup") /\ \A r \in retiring : r.by # q
    /\ Answer(q) /\ UNCHANGED <<now, manager, box, told>>

(* Mutant: the janitor does not look at the commands in flight.            *)
ExpiredAnyway(o) ==
    ~obj[o].destroying /\ obj[o].state = "ready" /\ obj[o].confirmed <= now
ExpiredForJanitor(o) ==
    ~obj[o].destroying /\ obj[o].inflight = 0 /\ obj[o].confirmed <= now

(* cleanupExpiredSessions; the loop waits until the last round is done,    *)
(* and may begin another one until Close has stopped it.                   *)
CleanupExpiredSessions ==
    /\ closing \in {"open", "closed"} /\ \A r \in retiring : r.by # "janitor"
    /\ LET expired == {k \in Keys : map[k] # None} \cap
                      {k \in Keys : map[k] \in DOMAIN obj => ExpiredForJanitor(map[k])}
       IN  /\ expired # {}
           /\ map' = [k \in Keys |-> IF k \in expired THEN None ELSE map[k]]
           /\ retiring' = retiring \cup
                {[box |-> obj[map[k]].sandbox, slot |-> TRUE, by |-> "janitor",
                  killed |-> FALSE] : k \in expired}
    /\ UNCHANGED <<now, obj, reserved, box, req, link, told, made>>

------------------------------------------------------------------------------
(* Close, which leaves the sandboxes to be recovered.                      *)

Creating(q) == req[q].pc \in {"create", "creating", "created", "failed"}
Stage(from, to) ==
    /\ closing = from /\ closing' = to
    /\ UNCHANGED <<now, obj, retiring, req, ready, recovery, pending, faulted,
                   box, told, made>>
Close ==
    /\ "restart" \in Faults /\ Stage("open", "closed")
    /\ UNCHANGED <<map, reserved, collected>>
FinishClose ==
    \/ /\ \A r \in retiring : r.by # "janitor"
       /\ \A q \in Requests : ~Creating(q)
       /\ Stage("closed", "collected")
       /\ collected' = Cardinality({k \in Keys : map[k] # None})
       /\ map' = [k \in Keys |-> None] /\ UNCHANGED reserved
    \/ /\ retiring = {} /\ Stage("collected", "done")
       /\ reserved' = IF reserved > collected THEN reserved - collected ELSE 0
       /\ collected' = 0 /\ UNCHANGED map

(* The process ends, in order or not, and another one starts.              *)
Restart ==
    /\ "restart" \in Faults /\ faulted = None /\ faulted' = "restart"
    /\ map' = [k \in Keys |-> None] /\ obj' = <<>> /\ reserved' = 0 /\ retiring' = {}
    /\ req' = [q \in Requests |-> Idle] /\ closing' = "open" /\ collected' = 0
    /\ ready' = FALSE /\ recovery' = None
    /\ pending' = {k \in Keys : told[k] > now}
    /\ UNCHANGED <<now, box, told, made>>

(* The connection is lost and made anew while the process goes on: the     *)
(* commands that came over it are cancelled, not awaited.                  *)
Reconnect ==
    /\ "reconnect" \in Faults /\ faulted = None /\ faulted' = "reconnect" /\ closing = "open"
    /\ req' = [q \in Requests |-> [req[q] EXCEPT !.cancelled = req[q].pc # "idle"]]
    /\ ready' = FALSE /\ pending' = {k \in Keys : told[k] > now}
    /\ UNCHANGED <<now, manager, box, closing, collected, recovery, told, made>>

------------------------------------------------------------------------------
(* recoverOne, for the console's candidates in turn.                       *)

ResetLease(o, lease) ==
    obj' = [obj EXCEPT ![o].desired = lease, ![o].confirmed = lease,
                       ![o].remote = lease]
(* The result for a candidate; the console forgets what is not recovered.  *)
Settle(k, recovered) ==
    /\ recovery' = None /\ pending' = pending \ {k}
    /\ told' = IF recovered THEN told ELSE [told EXCEPT ![k] = 0]

BeginRecoverOne ==
    /\ recovery = None
    /\ \E k \in pending :
         LET known == IF map[k] = None THEN FALSE ELSE ~obj[map[k]].destroying
         IN  \/ /\ closing # "open" \/ told[k] <= now
                /\ Settle(k, FALSE) /\ UNCHANGED obj
             \/ /\ closing = "open" /\ told[k] > now /\ known
                /\ Settle(k, TRUE) /\ ResetLease(map[k], told[k])
             \/ /\ closing = "open" /\ told[k] > now /\ ~known
                /\ recovery' = [key |-> k, lease |-> told[k], box |-> None]
                /\ UNCHANGED <<obj, pending, told>>
    /\ UNCHANGED <<now, map, box, reserved, retiring, req, closing, collected, ready, made,
                   faulted>>

(* List and Connect, as the service answers: several matches are killed,   *)
(* and a connection that fails may have set the timeout.                   *)
ConnectSandbox ==
    /\ recovery # None /\ recovery.box = None
    /\ LET found == List(recovery.key)
       IN  \/ /\ Cardinality(found) > 1 /\ Settle(recovery.key, FALSE)
              /\ box' = [b \in DOMAIN box |->
                           IF b \in found THEN [box[b] EXCEPT !.killed = TRUE, !.until = 0]
                           ELSE box[b]]
           \/ /\ Cardinality(found) = 1
              /\ \E b \in found :
                   /\ Connect(b, recovery.lease)
                   /\ recovery' = [recovery EXCEPT !.box = b]
              /\ UNCHANGED <<pending, told>>
           \/ /\ Cardinality(found) = 1 /\ Settle(recovery.key, FALSE)
              /\ \E b \in found : Connect(b, recovery.lease)
           \/ Settle(recovery.key, FALSE) /\ UNCHANGED box
    /\ UNCHANGED <<now, manager, req, closing, collected, ready, made, faulted>>

(* Mutant: the recovered session takes no slot.                            *)
InsertUncounted(k) ==
    /\ map' = [map EXCEPT ![k] = Fresh] /\ UNCHANGED reserved
    /\ obj' = WithObject([NewSession(k, recovery.lease) EXCEPT
         !.sandbox = recovery.box, !.confirmed = recovery.lease,
         !.remote = recovery.lease, !.inflight = 0, !.state = "ready"])
InsertRecovered(k) ==
    /\ map' = [map EXCEPT ![k] = Fresh] /\ reserved' = reserved + 1
    /\ obj' = WithObject([NewSession(k, recovery.lease) EXCEPT
         !.sandbox = recovery.box, !.confirmed = recovery.lease,
         !.remote = recovery.lease, !.inflight = 0, !.state = "ready"])
RecoverOne ==
    /\ recovery # None /\ recovery.box # None
    /\ LET k == recovery.key
           o == map[k]
           same == IF o = None THEN FALSE
                   ELSE obj[o].sandbox = recovery.box /\ ~obj[o].destroying
       IN  \/ /\ closing = "open" /\ o = None
              /\ Settle(k, TRUE) /\ InsertRecovered(k)
           \/ /\ closing = "open" /\ same
              /\ Settle(k, TRUE) /\ ResetLease(o, recovery.lease)
              /\ UNCHANGED <<map, reserved>>
           \/ /\ ~same /\ (closing = "open" => o # None)
              /\ Settle(k, FALSE) /\ UNCHANGED <<map, obj, reserved>>
    /\ UNCHANGED <<now, retiring, box, req, closing, collected, ready, made, faulted>>

RecoveryAck ==
    /\ ~ready /\ pending = {} /\ recovery = None /\ ready' = TRUE
    /\ UNCHANGED <<now, manager, box, req, closing, collected, recovery, pending, told, made,
                   faulted>>

------------------------------------------------------------------------------
Tick ==
    /\ now < MaxTime /\ now' = now + 1
    /\ UNCHANGED <<manager, box, req, link, told, made>>

(* Every behaviour of a bounded instance ends here: all commands answered  *)
(* and all slots returned.  Any other last state is a deadlock.            *)
Finished ==
    /\ made = MaxRequests /\ now = MaxTime /\ ready /\ retiring = {} /\ reserved = 0
    /\ \A q \in Requests : req[q].pc = "idle"
    /\ UNCHANGED vars

RequestStep(q) ==
    \/ StartCreate(q) \/ CreateSandbox(q) \/ SandboxCreated(q)
    \/ CreateFails(q) \/ DestroyFailed(q) \/ AwaitSessionReady(q)
    \/ SyncSandboxTimeout(q) \/ SetSandboxTimeout(q) \/ TimeoutSet(q) \/ TimeoutNotSet(q)
    \/ LeaveRenewed(q) \/ Run(q) \/ ResourceProbed(q) \/ ResourceTransfer(q)
    \/ PythonCreate(q) \/ PythonCreateFails(q) \/ PythonRun(q) \/ CleanedUp(q)
ManagerStep == KillSandbox \/ ReleaseSlot \/ CleanupExpiredSessions \/ FinishClose
RecoveryStep == BeginRecoverOne \/ ConnectSandbox \/ RecoverOne \/ RecoveryAck

Next ==
    \/ \E q \in Requests :
         \/ TerminalExecCommand(q) \/ TerminalResourceCommand(q)
         \/ TerminalLeaseRenewCommand(q) \/ PythonExecCommand(q)
         \/ RequestStep(q)
    \/ ManagerStep \/ RecoveryStep
    \/ Close \/ Restart \/ Reconnect \/ SandboxDies \/ Tick \/ Finished

Spec == Init /\ [][Next]_vars

------------------------------------------------------------------------------
(* Types.  New sessions keep within WORKER_TERMINAL_MAX_ACTIVE_SESSIONS;   *)
(* recovery does not ask and may add one slot for each key.                *)
E2BTypeOK ==
    /\ now \in Time /\ reserved \in Nat
    /\ MaxActive > 0 => reserved <= MaxActive + Cardinality(Keys)
    /\ DOMAIN obj \subseteq Objects /\ DOMAIN box \subseteq Boxes
    /\ \A o \in DOMAIN obj : obj[o] \in Session
    /\ \A b \in DOMAIN box : box[b] \in Sandbox
    /\ \A k \in Keys : map[k] \in DOMAIN obj \cup {None}
    /\ retiring \subseteq Retired
    /\ pending \subseteq Keys /\ told \in [Keys -> Time]

(* The slots in use are those of the sessions the manager has, of the      *)
(* retired ones whose sandbox is still being killed, and of those Close    *)
(* has collected: no path of a command, the janitor, Close or a recovery   *)
(* loses a slot or returns one twice.                                      *)
CapacityAccounted ==
    reserved = Cardinality({k \in Keys : map[k] # None})
             + Cardinality({r \in retiring : r.slot})
             + collected

(* A lease the worker has confirmed is never longer than the timeout the   *)
(* remote service holds for the sandbox, whatever renewals, commands and   *)
(* cleanups overlap and also after a restart's recovery.  A reconnection   *)
(* is left out: the recovery that follows it takes the console's lease for *)
(* a session it knows without asking the service.                          *)
LeaseBacked ==
    faulted # "reconnect" =>
        \A k \in Keys : map[k] # None =>
            LET s == obj[map[k]]
            IN  s.sandbox # None /\ ~s.destroying =>
                    s.confirmed <= box[s.sandbox].until

(* The worker does not kill a sandbox while a command it accepted runs in  *)
(* it: not on a sibling's timeout, not when the lease expires.  Again but  *)
(* for a reconnection, whose recovery may find the sandbox of a command    *)
(* that is just being cancelled.                                           *)
CommandsKeepSandbox ==
    faulted # "reconnect" =>
        \A q \in Requests : req[q].pc \in {"run", "transfer"} =>
            ~box[obj[req[q].object].sandbox].killed

(* A live sandbox is one the worker has in its map, is killing, or has     *)
(* just created for a command that still runs.  One more is possible: a    *)
(* creation that failed at the worker after the service had carried it out *)
(* leaves a sandbox nobody kills (the session is destroyed with a nil      *)
(* sandbox), and that one ends at the timeout it was made with: no lease   *)
(* of another command is added to it.  Not so once the worker has closed   *)
(* or started anew or the service refused a kill; and a reconnection's     *)
(* recovery may connect to a lost sandbox and extend it.                   *)
SandboxesOwned ==
    \A b \in DOMAIN box : Alive(b) =>
        \/ \E k \in Keys : map[k] # None /\ obj[map[k]].sandbox = b
        \/ \E r \in retiring : r.box = b /\ ~r.killed
        \/ \E q \in Requests : req[q].box = b
        \/ box[b].lost # None /\ (faulted = "reconnect" \/ box[b].until = box[b].lost)
        \/ closing # "open" \/ faulted \in {"restart", "killFails"}
==============================================================================
