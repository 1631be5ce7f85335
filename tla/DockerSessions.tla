--------------------------- MODULE DockerSessions ---------------------------
(***************************************************************************)
(* The terminal sessions of the Docker worker                              *)
(* (worker/worker-docker/internal/runner/terminal_exec.go and              *)
(* session_recovery.go): commands that create, share and leave sessions,   *)
(* lease timers, the janitor, the recovery that follows a reconnect,       *)
(* shutdown and the restart of the process.                                *)
(*                                                                         *)
(* mgr is what terminalSessionManager.mu protects:                         *)
(*   sessions  the map from session ids to terminalSession structs,        *)
(*   structs   the structs themselves, each allocated once: goroutines and *)
(*             timers keep pointers to structs that left the map,          *)
(*   active    activeSessionReservations.                                  *)
(* A container is named after its session id, so two structs of one id     *)
(* mean the same container.                                                *)
(***************************************************************************)
EXTENDS Integers, FiniteSets

CONSTANTS Ids,          \* session ids
          Structs,      \* terminalSession structs that can be allocated
          Commands,     \* goroutines that run a command
          Recoveries,   \* goroutines that run Recover
          None,
          MaxInflight,  \* sessionMaxInflight
          MaxActive,    \* maxActiveSessions, 0: unlimited
          TTLs,         \* lease durations that are asked for
          MaxTime,      \* bound of the clock
          Preserve,     \* preserveOnClose
          Faults        \* what happens: see Faulty

ASSUME DockerSessionsAssumption ==
    /\ None \notin Ids \cup Structs
    /\ IsFiniteSet(Structs)
    /\ MaxInflight \in Nat \ {0} /\ MaxActive \in Nat
    /\ TTLs \subseteq Nat \ {0} /\ MaxTime \in Nat
    /\ Preserve \in BOOLEAN
    /\ Faults \subseteq {"remove", "linger", "discovery", "close", "restart"}

VARIABLES mgr, containers, cmds, recs, closing, now

vars == <<mgr, containers, cmds, recs, closing, now>>

-----------------------------------------------------------------------------
(* terminalSession.  clean follows cleanupSession: "remove" while the      *)
(* container is to be removed, "release" while the capacity reservation    *)
(* is; a struct is "held" by Close after it emptied the map.               *)
Struct == [id       : Ids,
           lease    : Nat,
           timer    : BOOLEAN,
           inflight : Nat,
           dying    : BOOLEAN,   \* destroying
           ready    : BOOLEAN,   \* the channel ready is closed
           failed   : BOOLEAN,   \* initErr # nil
           cap      : BOOLEAN,   \* capacityReserved
           clean    : {"no", "held", "remove", "release", "done"}]

Manager == [sessions : [Ids -> Structs \cup {None}],
            structs  : [Structs -> Struct \cup {None}],
            active   : Nat]

EmptyManager == [sessions |-> [s \in Ids |-> None],
                 structs  |-> [o \in Structs |-> None],
                 active   |-> 0]

Allocated(m) == {o \in Structs : m.structs[o] # None}
Filed(m) == {o \in Allocated(m) : m.sessions[m.structs[o].id] = o}
Serving(m, o) == o \in Filed(m) /\ ~m.structs[o].dying

(* newSessionLocked, and the installation of a recovered session.          *)
NewSession(m, s, o, lease, inflight, ready) ==
    [sessions |-> [m.sessions EXCEPT ![s] = o],
     structs  |-> [m.structs EXCEPT ![o] =
                     [id |-> s, lease |-> lease, timer |-> TRUE,
                      inflight |-> inflight, dying |-> FALSE,
                      ready |-> ready, failed |-> FALSE, cap |-> TRUE,
                      clean |-> "no"]],
     active   |-> m.active + 1]

(* The session leaves the map and its cleanup starts.                      *)
Retire(m, S) ==
    [m EXCEPT
       !.sessions = [s \in Ids |-> IF m.sessions[s] \in S THEN None
                                   ELSE m.sessions[s]],
       !.structs  = [o \in Structs |->
                       IF o \in S
                       THEN [m.structs[o] EXCEPT !.dying = TRUE, !.timer = FALSE,
                                                 !.clean = "remove"]
                       ELSE m.structs[o]]]

Update(m, o, rec) == [m EXCEPT !.structs = [@ EXCEPT ![o] = rec]]

Left(n) == IF n > 0 THEN n - 1 ELSE 0

(* releaseSession: whatever session has the id now gives a slot back.      *)
ReleaseSession(m, s) ==
    LET o == m.sessions[s]
        x == [m.structs[o] EXCEPT !.inflight = Left(@)]
    IN  IF o = None THEN m
        ELSE IF x.dying /\ x.inflight = 0 THEN Retire(Update(m, o, x), {o})
        ELSE Update(m, o, x)

(* releaseAndDestroySession                                                *)
ReleaseAndDestroySession(m, s) ==
    LET o == m.sessions[s]
        x == [m.structs[o] EXCEPT !.inflight = Left(@), !.dying = TRUE,
                                  !.timer = FALSE]
    IN  IF o = None THEN m
        ELSE IF x.inflight = 0 THEN Retire(Update(m, o, x), {o})
        ELSE Update(m, o, x)

(* A lease is only moved forward, and its timer with it.                   *)
ExtendLease(m, o, target) ==
    IF m.structs[o].lease < target
    THEN Update(m, o, [m.structs[o] EXCEPT !.lease = target, !.timer = TRUE])
    ELSE m

(* Recovery adopts the console's lease, whichever is later.                *)
AdoptLease(m, o, lease) ==
    Update(m, o, [m.structs[o] EXCEPT !.lease = lease, !.timer = TRUE])

(* releaseCapacityReservation                                              *)
ReleaseCapacityReservation(m, o) ==
    [Update(m, o, [m.structs[o] EXCEPT !.cap = FALSE, !.clean = "done"])
     EXCEPT !.active = IF m.structs[o].cap THEN Left(@) ELSE @]

-----------------------------------------------------------------------------
IdleCommand == [phase |-> "idle", s |-> None, o |-> None]
Creating == {"create", "start", "undo", "failed", "check", "inactive",
             "discard", "clean"}
IdleRecovery == [phase |-> "idle", todo |-> {}, cands |-> [s \in Ids |-> 0],
                 cur |-> None, found |-> {}, t |-> 0]

Init ==
    /\ mgr = EmptyManager
    /\ containers = [s \in Ids |-> "none"]
    /\ cmds = [c \in Commands |-> IdleCommand]
    /\ recs = [r \in Recoveries |-> IdleRecovery]
    /\ closing = "open"
    /\ now = 0

Go(c, phase) == cmds' = [cmds EXCEPT ![c].phase = phase]
Return(c) == cmds' = [cmds EXCEPT ![c] = IdleCommand]

(* sessionIsActive                                                         *)
Active(o) == Serving(mgr, o) /\ closing = "open"

(* forceRemoveContainer only logs a failure of docker rm: the container is *)
(* left behind.                                                            *)
ForceRemove(s) ==
    \/ containers' = [containers EXCEPT ![s] = "none"]
    \/ /\ "remove" \in Faults
       /\ containers' = [containers EXCEPT
                           ![s] = IF @ = "none" THEN "none" ELSE "left"]

PublishReady(o, failed) ==
    Update(mgr, o, [mgr.structs[o] EXCEPT !.ready = TRUE, !.failed = failed])

-----------------------------------------------------------------------------
(* Execute and ResolveResource                                             *)

(* claimSession finds the session with a free slot.  ResolveResource asks  *)
(* for no lease (target = 0).                                              *)
JoinSession(c, s, target) ==
    LET o == mgr.sessions[s]
        x == mgr.structs[o]
    IN  /\ cmds[c] = IdleCommand /\ closing = "open"
        /\ o # None /\ ~x.dying /\ x.inflight < MaxInflight
        /\ mgr' = ExtendLease(Update(mgr, o, [x EXCEPT !.inflight = @ + 1]),
                              o, target)
        /\ cmds' = [cmds EXCEPT ![c] = [phase |-> "wait", s |-> s, o |-> o]]
        /\ UNCHANGED <<containers, recs, closing, now>>

(* claimSession creates it; a dying session still owns its id.             *)
CreateSession(c, s, o, target) ==
    /\ cmds[c] = IdleCommand /\ closing = "open"
    /\ mgr.sessions[s] = None
    /\ MaxActive > 0 => mgr.active < MaxActive
    /\ mgr.structs[o] = None
    /\ mgr' = NewSession(mgr, s, o, target, 1, FALSE)
    /\ cmds' = [cmds EXCEPT ![c] = [phase |-> "create", s |-> s, o |-> o]]
    /\ UNCHANGED <<containers, recs, closing, now>>

(* docker create: fails when the name is taken, or for any other reason.   *)
(* A client that gives up may leave the container to be created.           *)
DockerCreate(c) ==
    LET x == cmds[c] IN
    /\ x.phase = "create"
    /\ \/ /\ containers[x.s] = "none"
          /\ containers' = [containers EXCEPT ![x.s] = "created"]
          /\ Go(c, "start")
          /\ UNCHANGED mgr
       \/ /\ \/ UNCHANGED containers
             \/ /\ "linger" \in Faults /\ containers[x.s] = "none"
                /\ containers' = [containers EXCEPT ![x.s] = "left"]
          /\ Go(c, "failed")
          /\ mgr' = PublishReady(x.o, TRUE)
    /\ UNCHANGED <<recs, closing, now>>

(* docker start, and the inspection of the address.                        *)
DockerStart(c) ==
    LET x == cmds[c] IN
    /\ x.phase = "start"
    /\ \/ /\ containers[x.s] # "none"
          /\ containers' = [containers EXCEPT ![x.s] = "running"]
          /\ mgr' = PublishReady(x.o, FALSE)
          /\ Go(c, "check")
       \/ /\ Go(c, "undo")
          /\ UNCHANGED <<mgr, containers>>
    /\ UNCHANGED <<recs, closing, now>>

UndoCreate(c) ==
    LET x == cmds[c] IN
    /\ x.phase = "undo"
    /\ ForceRemove(x.s)
    /\ mgr' = PublishReady(x.o, TRUE)
    /\ Go(c, "failed")
    /\ UNCHANGED <<recs, closing, now>>

(* The creator failed: it leaves and destroys, and waits for the cleanup   *)
(* if it was the last.                                                     *)
CreateFailed(c) ==
    LET x == cmds[c]
        o == mgr.sessions[x.s]
    IN  /\ x.phase = "failed"
        /\ mgr' = ReleaseAndDestroySession(mgr, x.s)
        /\ IF o # None /\ mgr'.sessions[x.s] = None
           THEN cmds' = [cmds EXCEPT ![c] = [x EXCEPT !.phase = "clean",
                                                      !.o = o]]
           ELSE Return(c)
        /\ UNCHANGED <<containers, recs, closing, now>>

CheckCreated(c) ==
    LET x == cmds[c] IN
    /\ x.phase = "check"
    /\ Go(c, IF Active(x.o) THEN "exec" ELSE "inactive")
    /\ UNCHANGED <<mgr, containers, recs, closing, now>>

(* Mistake: a session that was already cleaned up is left alone, with the  *)
(* container created since.                                                *)
DropInactiveOnly(c) ==
    LET x == cmds[c] IN
    /\ x.phase = "inactive"
    /\ IF x.o \in Filed(mgr)
       THEN mgr' = Retire(mgr, {x.o}) /\ Go(c, "clean")
       ELSE Return(c) /\ UNCHANGED mgr
    /\ UNCHANGED <<containers, recs, closing, now>>

(* cleanupInactiveCreatedSession                                           *)
DropInactive(c) ==
    LET x == cmds[c] IN
    /\ x.phase = "inactive"
    /\ IF x.o \in Filed(mgr)
       THEN mgr' = Retire(mgr, {x.o}) /\ Go(c, "clean")
       ELSE Go(c, "discard") /\ UNCHANGED mgr
    /\ UNCHANGED <<containers, recs, closing, now>>

DiscardContainer(c) ==
    /\ cmds[c].phase = "discard"
    /\ ForceRemove(cmds[c].s)
    /\ Return(c)
    /\ UNCHANGED <<mgr, recs, closing, now>>

Cleaned(c) ==
    /\ cmds[c].phase = "clean"
    /\ mgr.structs[cmds[c].o].clean = "done"
    /\ Return(c)
    /\ UNCHANGED <<mgr, containers, recs, closing, now>>

(* awaitSessionReady of a command that joined.  It leaves without giving   *)
(* its slot back when the session is not active any more.                  *)
AwaitReady(c) ==
    LET x == cmds[c]
        o == mgr.structs[x.o]
    IN  /\ x.phase = "wait"
        /\ o.ready
        /\ mgr' = IF o.failed THEN ReleaseSession(mgr, x.s) ELSE mgr
        /\ IF ~o.failed /\ Active(x.o) THEN Go(c, "exec") ELSE Return(c)
        /\ UNCHANGED <<containers, recs, closing, now>>

(* Its context ends first.                                                 *)
AwaitCancelled(c) ==
    /\ cmds[c].phase = "wait"
    /\ mgr' = ReleaseSession(mgr, cmds[c].s)
    /\ Return(c)
    /\ UNCHANGED <<containers, recs, closing, now>>

(* docker exec ended, with a result or an error of docker.                 *)
ExecEnds(c) ==
    /\ cmds[c].phase = "exec"
    /\ mgr' = ReleaseSession(mgr, cmds[c].s)
    /\ Return(c)
    /\ UNCHANGED <<containers, recs, closing, now>>

(* It timed out, was cancelled, or found no container.                     *)
ExecAborted(c) ==
    /\ cmds[c].phase = "exec"
    /\ mgr' = ReleaseAndDestroySession(mgr, cmds[c].s)
    /\ Return(c)
    /\ UNCHANGED <<containers, recs, closing, now>>

RenewLease(s, target) ==
    LET o == mgr.sessions[s] IN
    /\ closing = "open"
    /\ o # None /\ Serving(mgr, o) /\ mgr.structs[o].lease > now
    /\ mgr' = ExtendLease(mgr, o, target)
    /\ UNCHANGED <<containers, cmds, recs, closing, now>>

-----------------------------------------------------------------------------
(* The end of a session                                                    *)

Expired(o) == Serving(mgr, o) /\ mgr.structs[o].lease <= now

(* Mistake: a session with commands is left to its last command.           *)
ExpireSessionLeaseIdle(o) ==
    /\ closing = "open"
    /\ Expired(o) /\ mgr.structs[o].timer
    /\ mgr' = IF mgr.structs[o].inflight = 0 THEN Retire(mgr, {o})
              ELSE Update(mgr, o, [mgr.structs[o] EXCEPT !.timer = FALSE])
    /\ UNCHANGED <<containers, cmds, recs, closing, now>>

(* expireSessionLease, called by the timer.                                *)
ExpireSessionLease(o) ==
    /\ closing = "open"
    /\ Expired(o) /\ mgr.structs[o].timer
    /\ mgr' = Retire(mgr, {o})
    /\ UNCHANGED <<containers, cmds, recs, closing, now>>

(* cleanupExpiredSessions, called by the janitor until Close has stopped   *)
(* it.                                                                     *)
CleanupExpiredSessions ==
    LET S == {o \in Structs : Expired(o)} IN
    /\ closing \in {"open", "closed"}
    /\ S # {}
    /\ mgr' = Retire(mgr, S)
    /\ UNCHANGED <<containers, cmds, recs, closing, now>>

(* ResolveProxyTarget meets an expired session.                            *)
ResolveProxyTarget(s) ==
    LET o == mgr.sessions[s] IN
    /\ o # None /\ Expired(o)
    /\ mgr.structs[o].ready /\ ~mgr.structs[o].failed
    /\ mgr' = Retire(mgr, {o})
    /\ UNCHANGED <<containers, cmds, recs, closing, now>>

(* Mistake: the cleanup gives up when the container cannot be removed.     *)
RemoveContainerOrStop(o) ==
    LET x == mgr.structs[o] IN
    /\ o \in Allocated(mgr) /\ x.clean = "remove"
    /\ ForceRemove(x.id)
    /\ mgr' = Update(mgr, o, [x EXCEPT !.clean =
                 IF containers'[x.id] = "none" THEN "release" ELSE "done"])
    /\ UNCHANGED <<cmds, recs, closing, now>>

(* cleanupSession: the container by its name, then the capacity.           *)
RemoveContainer(o) ==
    LET x == mgr.structs[o] IN
    /\ o \in Allocated(mgr) /\ x.clean = "remove"
    /\ ForceRemove(x.id)
    /\ mgr' = Update(mgr, o, [x EXCEPT !.clean = "release"])
    /\ UNCHANGED <<cmds, recs, closing, now>>

ReleaseCapacity(o) ==
    /\ o \in Allocated(mgr) /\ mgr.structs[o].clean = "release"
    /\ mgr' = ReleaseCapacityReservation(mgr, o)
    /\ UNCHANGED <<containers, cmds, recs, closing, now>>

-----------------------------------------------------------------------------
(* Recover                                                                 *)

GoOn(r, rec) == recs' = [recs EXCEPT ![r] = rec]

(* The console's candidates with their leases (0: not a candidate).        *)
StartRecovery(r, cands) ==
    /\ recs[r] = IdleRecovery
    /\ GoOn(r, [IdleRecovery EXCEPT !.phase = "next", !.cands = cands, !.t = now,
                                    !.todo = {s \in Ids : cands[s] > 0}])
    /\ UNCHANGED <<mgr, containers, cmds, closing, now>>

(* recoverOne up to its first unlock: an expired candidate loses its       *)
(* container, a session that is known adopts the lease.                    *)
RecoverNext(r, s) ==
    LET x == recs[r]
        o == mgr.sessions[s]
    IN  /\ x.phase = "next" /\ s \in x.todo
        /\ \/ /\ x.cands[s] <= x.t
              /\ ForceRemove(s)
              /\ GoOn(r, [x EXCEPT !.todo = @ \ {s}])
              /\ UNCHANGED mgr
           \/ /\ x.cands[s] > x.t /\ closing # "open"
              /\ GoOn(r, [x EXCEPT !.todo = @ \ {s}])
              /\ UNCHANGED <<mgr, containers>>
           \/ /\ x.cands[s] > x.t /\ closing = "open"
              /\ IF o # None /\ Serving(mgr, o)
                 THEN /\ mgr' = AdoptLease(mgr, o, x.cands[s])
                      /\ GoOn(r, [x EXCEPT !.todo = @ \ {s}, !.found = @ \cup {s}])
                 ELSE /\ GoOn(r, [x EXCEPT !.phase = "inspect", !.cur = s])
                      /\ UNCHANGED mgr
              /\ UNCHANGED containers
        /\ UNCHANGED <<cmds, closing, now>>

(* docker inspect, ps and start.  A container whose labels or status are   *)
(* not as they should be is removed; a failure is final or tried again.    *)
InspectContainer(r) ==
    LET x == recs[r] IN
    /\ x.phase = "inspect"
    /\ \/ /\ containers[x.cur] # "none"
          /\ containers' = [containers EXCEPT ![x.cur] = "running"]
          /\ GoOn(r, [x EXCEPT !.phase = "install"])
       \/ /\ containers[x.cur] # "none"
          /\ ForceRemove(x.cur)
          /\ GoOn(r, [x EXCEPT !.phase = "next", !.todo = @ \ {x.cur}, !.cur = None])
       \/ /\ \E todo \in {x.todo, x.todo \ {x.cur}} :
                GoOn(r, [x EXCEPT !.phase = "next", !.todo = todo, !.cur = None])
          /\ UNCHANGED containers
    /\ UNCHANGED <<mgr, cmds, closing, now>>

(* Mistake: the map is not looked at again after the container was.        *)
InstallRecoveredUnchecked(r, o) ==
    LET x == recs[r] IN
    /\ x.phase = "install"
    /\ mgr.structs[o] = None
    /\ mgr' = NewSession(mgr, x.cur, o, x.cands[x.cur], 0, TRUE)
    /\ GoOn(r, [x EXCEPT !.phase = "next", !.todo = @ \ {x.cur}, !.cur = None,
                         !.found = @ \cup {x.cur}])
    /\ UNCHANGED <<containers, cmds, closing, now>>

(* The second critical section of recoverOneAttempt.  A recovered session  *)
(* is counted, but the capacity is not checked.                            *)
InstallRecovered(r, o) ==
    LET x     == recs[r]
        other == mgr.sessions[x.cur]
        done  == [x EXCEPT !.phase = "next", !.todo = @ \ {x.cur}, !.cur = None]
        found == [done EXCEPT !.found = @ \cup {x.cur}]
    IN  /\ x.phase = "install"
        /\ \/ /\ closing # "open" \/ (other # None /\ ~Serving(mgr, other))
              /\ GoOn(r, done)
              /\ UNCHANGED mgr
           \/ /\ closing = "open" /\ other # None /\ Serving(mgr, other)
              /\ mgr' = AdoptLease(mgr, other, x.cands[x.cur])
              /\ GoOn(r, found)
           \/ /\ closing = "open" /\ other = None
              /\ mgr.structs[o] = None
              /\ mgr' = NewSession(mgr, x.cur, o, x.cands[x.cur], 0, TRUE)
              /\ GoOn(r, found)
        /\ UNCHANGED <<containers, cmds, closing, now>>

(* Mistake: only the candidates that were not recovered are removed.       *)
ListOrphansOfCandidates(r) ==
    LET x == recs[r] IN
    /\ x.phase = "next" /\ x.todo = {}
    /\ GoOn(r, [IdleRecovery EXCEPT !.phase = "orphans",
                  !.todo = {s \in Ids : x.cands[s] > 0} \ x.found])
    /\ UNCHANGED <<mgr, containers, cmds, closing, now>>

(* cleanupOrphanContainers lists the containers once, then removes those   *)
(* that were not recovered, one by one (in todo).  The list fails when the *)
(* worker is shutting down: its context is cancelled before Close.         *)
ListOrphans(r) ==
    LET x == recs[r] IN
    /\ x.phase = "next" /\ x.todo = {}
    /\ \/ /\ closing = "open"
          /\ GoOn(r, [IdleRecovery EXCEPT !.phase = "orphans",
                      !.todo = {s \in Ids : containers[s] # "none"} \ x.found])
       \/ /\ "discovery" \in Faults \/ closing # "open"
          /\ GoOn(r, IdleRecovery)
    /\ UNCHANGED <<mgr, containers, cmds, closing, now>>

RemoveOrphan(r, s) ==
    LET x == recs[r] IN
    /\ x.phase = "orphans" /\ s \in x.todo
    /\ ForceRemove(s)
    /\ GoOn(r, [x EXCEPT !.todo = @ \ {s}])
    /\ UNCHANGED <<mgr, cmds, closing, now>>

RecoveryDone(r) ==
    /\ recs[r].phase = "orphans" /\ recs[r].todo = {}
    /\ GoOn(r, IdleRecovery)
    /\ UNCHANGED <<mgr, containers, cmds, closing, now>>

-----------------------------------------------------------------------------
(* Close, and the end of the process                                       *)

BeginClose ==
    /\ "close" \in Faults /\ closing = "open"
    /\ closing' = "closed"
    /\ UNCHANGED <<mgr, containers, cmds, recs, now>>

(* createWG.Wait, then the map is emptied.                                 *)
TakeSessions ==
    /\ closing = "closed"
    /\ \A c \in Commands : cmds[c].phase \notin Creating
    /\ closing' = "taken"
    /\ mgr' = [mgr EXCEPT
          !.sessions = EmptyManager.sessions,
          !.structs  = [o \in Structs |->
                          IF o \in Filed(mgr)
                          THEN [mgr.structs[o] EXCEPT !.timer = FALSE,
                                                      !.clean = "held"]
                          ELSE mgr.structs[o]]]
    /\ UNCHANGED <<containers, cmds, recs, now>>

(* Mistake: Close counts the sessions it took among those it waits for.    *)
NoCleanupNorHeld == \A o \in Allocated(mgr) :
                       mgr.structs[o].clean \notin {"held", "remove", "release"}

NoCleanup == \A o \in Allocated(mgr) :
                mgr.structs[o].clean \notin {"remove", "release"}

(* cleanupWG.Wait, then the sessions taken are given up one by one.        *)
CloseSession(o) ==
    /\ closing = "taken" /\ NoCleanup
    /\ o \in Allocated(mgr) /\ mgr.structs[o].clean = "held"
    /\ mgr' = IF Preserve THEN ReleaseCapacityReservation(mgr, o)
              ELSE Update(mgr, o, [mgr.structs[o] EXCEPT !.clean = "remove"])
    /\ UNCHANGED <<containers, cmds, recs, closing, now>>

EndClose ==
    /\ closing = "taken" /\ NoCleanup
    /\ \A o \in Allocated(mgr) : mgr.structs[o].clean # "held"
    /\ closing' = "down"
    /\ UNCHANGED <<mgr, containers, cmds, recs, now>>

(* The process dies, closed or not, and starts anew beside its containers. *)
Restart ==
    /\ "restart" \in Faults
    /\ mgr' = EmptyManager
    /\ cmds' = [c \in Commands |-> IdleCommand]
    /\ recs' = [r \in Recoveries |-> IdleRecovery]
    /\ closing' = "open"
    /\ UNCHANGED <<containers, now>>

Tick ==
    /\ now < MaxTime
    /\ now' = now + 1
    /\ UNCHANGED <<mgr, containers, cmds, recs, closing>>

-----------------------------------------------------------------------------
Targets == {now + ttl : ttl \in TTLs}

CreatorStep(c) ==
    \/ DockerCreate(c) \/ DockerStart(c) \/ UndoCreate(c) \/ CreateFailed(c)
    \/ CheckCreated(c) \/ DropInactive(c) \/ DiscardContainer(c) \/ Cleaned(c)

CommandStep(c) ==
    \/ CreatorStep(c)
    \/ AwaitReady(c) \/ AwaitCancelled(c)
    \/ ExecEnds(c) \/ ExecAborted(c)

StartCommand(c) ==
    \E s \in Ids :
        \/ \E target \in Targets \cup {0} : JoinSession(c, s, target)
        \/ \E o \in Structs, target \in Targets : CreateSession(c, s, o, target)

SessionStep(o) ==
    \/ ExpireSessionLease(o)
    \/ RemoveContainer(o)
    \/ ReleaseCapacity(o)
    \/ CloseSession(o)

RecoveryStep(r) ==
    \/ \E s \in Ids : RecoverNext(r, s)
    \/ InspectContainer(r)
    \/ \E o \in Structs : InstallRecovered(r, o)
    \/ ListOrphans(r)
    \/ \E s \in Ids : RemoveOrphan(r, s)
    \/ RecoveryDone(r)

CloseStep == TakeSessions \/ EndClose

Next ==
    \/ \E c \in Commands : CommandStep(c) \/ StartCommand(c)
    \/ \E s \in Ids, target \in Targets : RenewLease(s, target)
    \/ \E s \in Ids : ResolveProxyTarget(s)
    \/ \E o \in Structs : SessionStep(o)
    \/ CleanupExpiredSessions
    \/ \E r \in Recoveries :
          \/ RecoveryStep(r)
          \/ \E cands \in [Ids -> {0} \cup Targets \cup {now}] : StartRecovery(r, cands)
    \/ BeginClose \/ CloseStep
    \/ Restart
    \/ Tick

Spec == Init /\ [][Next]_vars

(* Goroutines go on, docker commands end (each has a deadline) and armed   *)
(* timers fire.  Nothing makes a client send commands, and the janitor is  *)
(* not relied upon.                                                        *)
Fairness ==
    /\ \A c \in Commands : WF_vars(CommandStep(c))
    /\ \A o \in Structs : WF_vars(SessionStep(o))
    /\ WF_vars(CloseStep)

FairSpec == Spec /\ Fairness

-----------------------------------------------------------------------------
TypeOK ==
    /\ mgr \in Manager
    /\ containers \in [Ids -> {"none", "created", "running", "left"}]
    /\ cmds \in [Commands -> [phase : Creating \cup {"idle", "wait", "exec"},
                              s : Ids \cup {None}, o : Structs \cup {None}]]
    /\ recs \in [Recoveries ->
                   [phase : {"idle", "next", "inspect", "install", "orphans"},
                    todo : SUBSET Ids, cands : [Ids -> Nat],
                    cur : Ids \cup {None}, found : SUBSET Ids, t : Nat]]
    /\ closing \in {"open", "closed", "taken", "down"}
    /\ now \in Nat

(* activeSessionReservations, which the worker reports to the console and  *)
(* checks against its limit, is the number of sessions in the map plus     *)
(* those whose cleanup has not finished: no path leaks a reservation or    *)
(* gives one back twice, and no session is overwritten in the map.         *)
CapacityAccounted ==
    mgr.active = Cardinality({o \in Allocated(mgr) :
        o \in Filed(mgr) \/ mgr.structs[o].clean \in {"held", "remove", "release"}})

(* While the process lives, no container is forgotten unless docker itself *)
(* failed to remove it: one that exists belongs to a session in the map or *)
(* in Close, to a cleanup that has yet to remove it, or to a command that  *)
(* created it and has yet to find out whether its session is still there   *)
(* (terminal_exec.go:723-783).                                             *)
ContainersOwned ==
    \A s \in Ids : containers[s] \in {"created", "running"} =>
        \/ mgr.sessions[s] # None
        \/ \E o \in Allocated(mgr) :
              /\ mgr.structs[o].id = s
              /\ \/ mgr.structs[o].clean \in {"held", "remove"}
                 \/ closing \in {"taken", "down"}
        \/ \E c \in Commands :
              /\ cmds[c].s = s
              /\ cmds[c].phase \in {"start", "undo", "check", "inactive", "discard"}

(* When Recover returns it has adopted or removed every container that a   *)
(* restart of the process left behind, even if commands ran meanwhile.     *)
RecoveryLeavesNoOrphan ==
    [][\A r \in Recoveries : RecoveryDone(r) => ContainersOwned]_vars

(* "lease expiry is an immediate hard boundary" (terminal_exec.go:124): a  *)
(* session whose lease is over leaves the map, whatever its commands do,   *)
(* unless the lease was extended first.                                    *)
LeaseIsBoundary ==
    \A o \in Structs :
        (closing = "open" /\ Expired(o)) ~> (~Expired(o) \/ closing # "open")

(* A session that left the map gives its capacity back, so that a worker   *)
(* at its limit accepts sessions again.                                    *)
CapacityReturned ==
    \A o \in Structs :
        (o \in Allocated(mgr) /\ mgr.structs[o].clean = "remove")
        ~> (o \in Allocated(mgr) /\ ~mgr.structs[o].cap)

(* Close does not hang on its two wait groups, whatever runs meanwhile.    *)
CloseCompletes == closing = "closed" ~> closing = "down"

-----------------------------------------------------------------------------
(* What comments of the code say, and the code does not do.                *)

Holds(c, o) == cmds[c].phase # "idle" /\ cmds[c].o = o

(* "Non-lease failures wait for inflight to drain"                         *)
(* (terminal_exec.go:123-124): a session that waits for its commands       *)
(* before it is destroyed still has one.                                   *)
DyingSessionsDrain ==
    \A o \in Filed(mgr) : mgr.structs[o].dying => \E c \in Commands : Holds(c, o)

(* "one command's timeout cannot kill its siblings"                        *)
(* (terminal_exec.go:829-831): a command that is aborted retires no        *)
(* session that another command is running in.                             *)
TimeoutSparesSiblings ==
    [][\A c \in Commands : ExecAborted(c) =>
          \A o \in Filed(mgr) \ Filed(mgr)' :
             \A k \in Commands \ {c} : ~(cmds[k].phase = "exec" /\ cmds[k].o = o)]_vars

(* "Sessions pending destruction still own their id, so they are reported  *)
(* as missing rather than being silently replaced" (terminal_exec.go:682): *)
(* no session is filed under an id whose previous session is still being   *)
(* cleaned up.                                                             *)
PendingDestructionOwnsId ==
    \A o, p \in Allocated(mgr) :
        o \in Filed(mgr) /\ p # o /\ mgr.structs[p].id = mgr.structs[o].id
            => mgr.structs[p].clean \notin {"remove", "release"}

=============================================================================
