---------------------------- MODULE TunnelClient ----------------------------
(***************************************************************************)
(* The main loop of the tunnel client (internal/app/app.go, realtime.go):  *)
(* it synchronizes the device with the control center when a poll ticker   *)
(* or a pushed event asks for it, applies what it receives through the     *)
(* agent supervisor, saves the state, and ends when the device is revoked. *)
(* The realtime goroutine, the heartbeat goroutine, the control center and *)
(* crashes interleave with every network call of the main goroutine.       *)
(*                                                                         *)
(* The supervisor appears by what Supervisor.tla shows of it: an Apply     *)
(* commits, leaves the old agent alone, or restores the last-known-good    *)
(* configuration; Tick stops the agent on an expired lease and restarts it *)
(* from the last-known-good file.  The last-known-good files keep their    *)
(* steps, because a crash may fall between them: the promotion, and the    *)
(* two halves of the deletion of the previous file.  A lease is told apart *)
(* as absent ("none"), good, low (less than 15 minutes left) and over.     *)
(***************************************************************************)
EXTENDS Naturals, Sequences

CONSTANTS
    MaxVersion,     \* bound: configurations the control center publishes
    MaxAttempts,    \* maximumAttempts of retryTransient
    MaxCrashes,     \* bound: crashes of the client
    Revocable,      \* the control center may revoke the device
    Push            \* the realtime endpoint can be reached

ASSUME TunnelClientAssumption ==
    /\ MaxVersion \in Nat \ {0} /\ MaxAttempts \in Nat \ {0}
    /\ MaxCrashes \in Nat /\ {Revocable, Push} \subseteq BOOLEAN

VARIABLES
    server,     \* control center: published version, device and session standing
    main,       \* the main goroutine: step and the locals of synchronize
    state,      \* model.State in memory
    disk,       \* state.json, and the last-known-good files, modified last first
    snapshot,   \* AppliedConfigVersion in the copy the heartbeat goroutine reads
    reported,   \* applied_config_version of the last heartbeat
    agent,      \* the version the running agent serves, 0 when none runs
    signal,     \* syncSignals holds a signal
    rt,         \* the realtime goroutine
    crashes,
    asked       \* history: the version published when a sync was last served or failed

vars == <<server, main, state, disk, snapshot, reported, agent, signal, rt, crashes, asked>>

-----------------------------------------------------------------------------
Versions == 0 .. MaxVersion
Leases == {"none", "good", "low", "over"}
MainSteps == {"off", "boot", "login", "new", "select", "request", "answered", "relogin",
              "apply", "promoted"}
State == [last: Versions, applied: Versions, lease: Leases, revoked: BOOLEAN]
Idle(s) == [step |-> s, attempt |-> 0, retried |-> FALSE, first |-> FALSE,
            sent |-> "unsent", full |-> FALSE, lease |-> FALSE, version |-> 0]
NoRealtime == [step |-> "none", event |-> 0, seen |-> 0]
Older(l) == CASE l = "good" -> "low" [] l = "low" -> "over" [] OTHER -> l

Init ==
    /\ server = [version |-> 1, device |-> "ok", session |-> FALSE]
    /\ main = Idle("off") /\ agent = 0 /\ signal = FALSE
    /\ state = [last |-> 0, applied |-> 0, lease |-> "none", revoked |-> FALSE]
    /\ disk = [state |-> state, files |-> <<>>]
    /\ snapshot = 0 /\ reported = 0 /\ crashes = 0 /\ asked = 0
    /\ rt = NoRealtime

\* Mutant: the heartbeat reports the version received.
Save_SnapshotLast(s) ==
    /\ state' = s /\ snapshot' = s.last
    /\ \/ disk' = [disk EXCEPT !.state = s]
       \/ UNCHANGED disk

\* saveState: refresh the snapshot, then write state.json, which may fail.
Save(s) ==
    /\ state' = s /\ snapshot' = s.applied
    /\ \/ disk' = [disk EXCEPT !.state = s]
       \/ UNCHANGED disk

\* The last-known-good file that New adopts: the one modified last.
Adopted ==
    IF disk.files = <<>> THEN [version |-> 0, good |-> TRUE] ELSE Head(disk.files)

\* What Supervisor.Tick and a failed Apply may start again, or fail to.  An agent
\* exits at once on a file that secureDelete has overwritten.
Restartable ==
    IF state.lease \in {"good", "low"} /\ Adopted.good THEN {0, Adopted.version} ELSE {0}

\* Run returns: its deferred calls stop the goroutines and the agent.
Leave ==
    /\ main' = Idle("off") /\ agent' = 0 /\ signal' = FALSE
    /\ rt' = NoRealtime

-----------------------------------------------------------------------------
(* Start-up *)

\* Run loads the state and begins to discover and authenticate.
Start ==
    /\ main.step = "off"
    /\ main' = Idle("boot")
    /\ state' = disk.state /\ snapshot' = disk.state.applied
    /\ UNCHANGED <<server, disk, reported, agent, signal, rt, crashes, asked>>

\* Mutant: the attempt limit is not checked.
BootRetry_NoLimit ==
    /\ main.step \in {"boot", "login"}
    /\ main' = [main EXCEPT !.attempt = @ + 1] /\ UNCHANGED <<agent, signal, rt>>
    /\ UNCHANGED <<server, state, disk, snapshot, reported, crashes, asked>>

\* Discover or DeviceLogin fails for a passing reason.  Each has a retryTransient
\* of its own, which counts its attempts from the start.
BootRetry ==
    /\ main.step \in {"boot", "login"}
    /\ IF main.attempt + 1 >= MaxAttempts
       THEN Leave
       ELSE main' = [main EXCEPT !.attempt = @ + 1] /\ UNCHANGED <<agent, signal, rt>>
    /\ UNCHANGED <<server, state, disk, snapshot, reported, crashes, asked>>

\* Discover is answered, and DeviceLogin is next.
BootDiscovered ==
    /\ main.step = "boot"
    /\ main' = Idle("login")
    /\ UNCHANGED <<server, state, disk, snapshot, reported, agent, signal, rt, crashes, asked>>

\* Mutant: the agent is started before the answer of DeviceLogin is looked at.
BootLogin_TickFirst ==
    /\ main.step = "login"
    /\ server' = [server EXCEPT !.session = server.device = "ok"]
    /\ main' = [Idle("new") EXCEPT !.version = Adopted.version]
    /\ agent' \in Restartable
    /\ UNCHANGED <<state, disk, snapshot, signal, rt>>
    /\ UNCHANGED <<reported, crashes, asked>>

\* DeviceLogin is answered.  A rejected device is saved as revoked and Run ends
\* before any agent is started; otherwise agent.New adopts the file modified last.
BootLogin ==
    /\ main.step = "login"
    /\ IF server.device = "revoked"
       THEN /\ Save([state EXCEPT !.revoked = TRUE]) /\ Leave
            /\ UNCHANGED server
       ELSE /\ server' = [server EXCEPT !.session = TRUE]
            /\ main' = [Idle("new") EXCEPT !.version = Adopted.version]
            /\ UNCHANGED <<state, disk, snapshot, agent, signal, rt>>
    /\ UNCHANGED <<reported, crashes, asked>>

\* secureDelete of the last-known-good file that is not kept, by New and after a
\* promotion: it is overwritten, which makes it the one modified last, and removed.
SecureDelete ==
    /\ main.step \in {"new", "promoted"} /\ Len(disk.files) = 2
    /\ disk' = [disk EXCEPT !.files = IF @[1].version = main.version
                                      THEN <<[@[2] EXCEPT !.good = FALSE], @[1]>>
                                      ELSE <<@[2]>>]
    /\ UNCHANGED <<server, main, state, snapshot, reported, agent, signal, rt, crashes, asked>>

\* New returns; when a lease is stored, the first Tick may restart the agent.
BootTick ==
    /\ main.step = "new" /\ Len(disk.files) < 2
    /\ main' = [Idle("request") EXCEPT !.first = TRUE]
    /\ IF state.lease = "none"
       THEN UNCHANGED <<state, disk, snapshot, agent>>
       ELSE agent' \in Restartable /\ Save(state)
    /\ UNCHANGED <<server, reported, signal, rt, crashes, asked>>

-----------------------------------------------------------------------------
(* synchronize *)

\* select takes the poll ticker, or the pending signal.
PollTick ==
    /\ main.step = "select"
    /\ main' = Idle("request")
    /\ UNCHANGED <<server, state, disk, snapshot, reported, agent, signal, rt, crashes, asked>>

SignalTaken ==
    /\ main.step = "select" /\ signal
    /\ main' = Idle("request") /\ signal' = FALSE
    /\ UNCHANGED <<server, state, disk, snapshot, reported, agent, rt, crashes, asked>>

\* The lease synchronize reports: none unless the agent is running now.
SendSync ==
    /\ main.step = "request" /\ main.sent = "unsent"
    /\ main' = [main EXCEPT !.sent = IF agent # 0 THEN state.lease ELSE "none"]
    /\ UNCHANGED <<server, state, disk, snapshot, reported, agent, signal, rt, crashes, asked>>

\* Mutant: the signal channel is drained after the synchronization.
Return_Drains(s) ==
    /\ Save(s)
    /\ main' = Idle("select")
    /\ rt' = IF main.first THEN [rt EXCEPT !.step = "dial"] ELSE rt
    /\ signal' = FALSE

\* synchronize returns, with or without an error that synchronizeAndReport only
\* notes.  After the first synchronization the realtime goroutine starts.
Return(s) ==
    /\ Save(s)
    /\ main' = Idle("select")
    /\ rt' = IF main.first THEN [rt EXCEPT !.step = "dial"] ELSE rt
    /\ UNCHANGED signal

\* Mutant: a revocation is an error like any other.
EndRevoked_Continues == Return(state) /\ UNCHANGED agent

\* ErrRevoked: the agent is stopped and Run ends.
EndRevoked == Save([state EXCEPT !.revoked = TRUE]) /\ Leave

\* The control center serves client.Sync.  The answer is a full one when the device
\* reported an older version; it carries a lease then, and when the reported lease
\* is absent or runs low.  Newer versions may be published while it is under way.
SyncServed ==
    /\ main.step = "request" /\ main.sent # "unsent"
    /\ server.device = "ok" /\ server.session
    /\ LET full == state.last # server.version
       IN  main' = [main EXCEPT !.step = "answered", !.full = full, !.version = server.version,
                                !.lease = full \/ main.sent # "good"]
    /\ asked' = server.version
    /\ UNCHANGED <<server, state, disk, snapshot, reported, agent, signal, rt, crashes>>

\* client.Sync returns the answer: applyFullSyncState.
SyncAnswered ==
    /\ main.step = "answered"
    /\ main' = [main EXCEPT !.step = "apply"]
    /\ state' = IF main.full THEN [state EXCEPT !.last = main.version] ELSE state
    /\ UNCHANGED <<server, disk, snapshot, reported, agent, signal, rt, crashes, asked>>

\* client.Sync fails in transit, or with SESSION_REVOKED after the one re-login.
SyncFailed ==
    /\ \/ main.step = "request" /\ main.sent # "unsent" /\ asked' = server.version
       \/ main.step = "answered" /\ UNCHANGED asked
    /\ Return(state) /\ UNCHANGED agent
    /\ UNCHANGED <<server, reported, crashes>>

\* Mutant: a revoked session is an error like any other.
SyncSessionRevoked_Never == FALSE /\ UNCHANGED vars

\* SESSION_REVOKED, once per synchronization: log the device in again.
SyncSessionRevoked ==
    /\ main.step = "request" /\ main.sent # "unsent" /\ ~main.retried
    /\ server.device = "revoked" \/ ~server.session
    /\ main' = [main EXCEPT !.step = "relogin"]
    /\ UNCHANGED <<server, state, disk, snapshot, reported, agent, signal, rt, crashes, asked>>

\* DEVICE_REVOKED or USER_DISABLED.
SyncDeviceRevoked ==
    /\ main.step = "request" /\ main.sent # "unsent"
    /\ server.device = "revoked"
    /\ EndRevoked
    /\ UNCHANGED <<server, reported, crashes, asked>>

\* DeviceLogin inside synchronize: accepted, rejected, or failed in transit.
Relogin ==
    /\ main.step = "relogin"
    /\ \/ /\ server.device = "ok"
          /\ server' = [server EXCEPT !.session = TRUE]
          /\ main' = [main EXCEPT !.step = "request", !.sent = "unsent", !.retried = TRUE]
          /\ UNCHANGED <<state, disk, snapshot, agent, signal, rt>>
       \/ /\ server.device = "revoked"
          /\ EndRevoked /\ UNCHANGED server
       \/ /\ Return(state) /\ UNCHANGED <<agent, server>>
    /\ asked' = IF main'.step = "select" THEN server.version ELSE asked
    /\ UNCHANGED <<reported, crashes>>

\* The second half of synchronize.  needsLease looks at the agent again.
NeedsLease == agent = 0 \/ state.lease \in {"none", "low", "over"}
ApplyNow == main.step = "apply" /\ (main.full \/ NeedsLease)

\* Nothing to apply: save and go on.
SyncNothing ==
    /\ main.step = "apply" /\ ~main.full /\ ~NeedsLease
    /\ Return(state) /\ UNCHANGED agent
    /\ UNCHANGED <<server, reported, crashes, asked>>

\* The response carries no lease, because the agent died after it was reported.
SyncNoLease ==
    /\ ApplyNow /\ ~main.lease
    /\ Return(state) /\ UNCHANGED agent
    /\ UNCHANGED <<server, reported, crashes, asked>>

\* Mutant: the pending file is not renamed.
ApplyPromotes_NoRename ==
    /\ ApplyNow /\ main.lease
    /\ Return([state EXCEPT !.applied = main.version, !.lease = "good"])
    /\ agent' = main.version
    /\ UNCHANGED <<server, reported, crashes, asked>>

\* Supervisor.Apply: the new agent has run for three seconds and its file is
\* promoted by a rename, which replaces the file of the same version.
ApplyPromotes ==
    /\ ApplyNow /\ main.lease
    /\ LET others == SelectSeq(disk.files, LAMBDA f : f.version # main.version)
       IN  disk' = [disk EXCEPT
                      !.files = <<[version |-> main.version, good |-> TRUE]>> \o others]
    /\ agent' = main.version
    /\ main' = [main EXCEPT !.step = "promoted"]
    /\ UNCHANGED <<server, state, snapshot, reported, signal, rt, crashes, asked>>

\* The previous file is deleted (SecureDelete); the record in memory is committed
\* and the state saved.
ApplyCommits ==
    /\ main.step = "promoted" /\ Len(disk.files) = 1
    /\ Return([state EXCEPT !.applied = main.version, !.lease = "good"])
    /\ UNCHANGED <<server, reported, agent, crashes, asked>>

\* Supervisor.Apply fails: the old agent runs on, comes back, or stays down.
ApplyFails ==
    /\ ApplyNow /\ main.lease
    /\ agent' \in {agent} \cup Restartable
    /\ Return(state)
    /\ UNCHANGED <<server, reported, crashes, asked>>

\* supervisorTicker: Tick stops the agent on an expired lease, and restarts it
\* from the last-known-good file otherwise.
Tick ==
    /\ main.step = "select"
    /\ \/ state.lease = "over" /\ agent' = 0
       \/ state.lease # "over" /\ agent' \in IF agent = 0 THEN Restartable ELSE {agent}
    /\ Save(state)
    /\ UNCHANGED <<server, main, reported, signal, rt, crashes, asked>>

\* ctx is done.  Before the loop Run returns at once; a synchronization in
\* progress fails first (SyncFailed, ApplyFails) and select is reached.
Shutdown ==
    /\ \/ main.step \in {"boot", "login"} /\ UNCHANGED <<state, disk, snapshot>>
       \/ main.step = "select" /\ Save(state)
    /\ Leave
    /\ UNCHANGED <<server, reported, crashes, asked>>

-----------------------------------------------------------------------------
(* The heartbeat and realtime goroutines *)

Heartbeat ==
    /\ main.step \notin {"off", "boot", "login", "new"} /\ ~main.first
    /\ reported' = snapshot
    /\ UNCHANGED <<server, main, state, disk, snapshot, agent, signal, rt, crashes, asked>>

\* The WebSocket upgrade succeeds and the server confirms the subscription.
RtConnected ==
    /\ Push /\ rt.step = "dial" /\ server.device = "ok" /\ server.session
    /\ rt' = [rt EXCEPT !.step = "live"]
    /\ UNCHANGED <<server, main, state, disk, snapshot, reported, agent, signal, crashes, asked>>

\* A business event: requestSynchronization, which never blocks.
RtEvent ==
    /\ rt.step = "live" /\ rt.event # 0
    /\ signal' = TRUE /\ rt' = [rt EXCEPT !.event = 0, !.seen = rt.event]
    /\ UNCHANGED <<server, main, state, disk, snapshot, reported, agent, crashes, asked>>

\* The upgrade is refused: log in again and dial at once.  A rejected device
\* wakes the main loop and ends the goroutine; a passing failure backs off.
RtUnauthorized ==
    /\ Push /\ rt.step = "dial" /\ (server.device = "revoked" \/ ~server.session)
    /\ \/ /\ server.device = "ok"
          /\ server' = [server EXCEPT !.session = TRUE]
          /\ UNCHANGED <<rt, signal>>
       \/ /\ server.device = "revoked"
          /\ rt' = [NoRealtime EXCEPT !.seen = rt.seen] /\ signal' = TRUE
          /\ UNCHANGED server
       \/ /\ rt' = [rt EXCEPT !.step = "backoff"]
          /\ UNCHANGED <<server, signal>>
    /\ UNCHANGED <<main, state, disk, snapshot, reported, agent, crashes, asked>>

\* The connection ends or cannot be made; events in transit are lost.
RtLost ==
    /\ rt.step \in {"dial", "live"}
    /\ rt' = [rt EXCEPT !.step = "backoff", !.event = 0]
    /\ UNCHANGED <<server, main, state, disk, snapshot, reported, agent, signal, crashes, asked>>

RtBackoff ==
    /\ rt.step = "backoff"
    /\ rt' = [rt EXCEPT !.step = "dial"]
    /\ UNCHANGED <<server, main, state, disk, snapshot, reported, agent, signal, crashes, asked>>

-----------------------------------------------------------------------------
(* The control center, the agent, time and crashes *)

Publish ==
    /\ server.version < MaxVersion
    /\ server' = [server EXCEPT !.version = @ + 1]
    /\ rt' = IF rt.step = "live" THEN [rt EXCEPT !.event = server.version + 1] ELSE rt
    /\ UNCHANGED <<main, state, disk, snapshot, reported, agent, signal, crashes, asked>>

RevokeSession ==
    /\ server.session
    /\ server' = [server EXCEPT !.session = FALSE]
    /\ UNCHANGED <<main, state, disk, snapshot, reported, agent, signal, rt, crashes, asked>>

RevokeDevice ==
    /\ Revocable /\ server.device = "ok"
    /\ server' = [server EXCEPT !.device = "revoked", !.session = FALSE]
    /\ UNCHANGED <<main, state, disk, snapshot, reported, agent, signal, rt, crashes, asked>>

AgentDies ==
    /\ agent # 0 /\ agent' = 0
    /\ UNCHANGED <<server, main, state, disk, snapshot, reported, signal, rt, crashes, asked>>

\* Time passes for the lease in memory and the one on disk, which may be older.
LeaseAges ==
    /\ \/ state' = [state EXCEPT !.lease = Older(@)]
       \/ disk.state # state /\ UNCHANGED state
    /\ disk' = [disk EXCEPT !.state.lease = Older(@)]
    /\ UNCHANGED <<server, main, snapshot, reported, agent, signal, rt, crashes, asked>>

Crash ==
    /\ main.step # "off" /\ crashes < MaxCrashes /\ crashes' = crashes + 1
    /\ Leave
    /\ UNCHANGED <<server, state, disk, snapshot, reported, asked>>

Next ==
    \/ Start \/ BootRetry \/ BootDiscovered \/ BootLogin \/ SecureDelete \/ BootTick
    \/ PollTick \/ SignalTaken \/ SendSync \/ SyncServed \/ SyncAnswered \/ SyncFailed
    \/ SyncSessionRevoked \/ SyncDeviceRevoked \/ Relogin \/ SyncNothing \/ SyncNoLease
    \/ ApplyPromotes \/ ApplyCommits \/ ApplyFails \/ Tick \/ Shutdown
    \/ Heartbeat \/ RtConnected \/ RtEvent \/ RtUnauthorized \/ RtLost \/ RtBackoff
    \/ Publish \/ RevokeSession \/ RevokeDevice \/ AgentDies \/ LeaseAges \/ Crash

Spec == Init /\ [][Next]_vars

\* What the main goroutine does next, the calls that fail included.
MainStep ==
    \/ BootRetry \/ BootDiscovered \/ BootLogin \/ SecureDelete \/ BootTick
    \/ PollTick \/ SignalTaken \/ SendSync \/ SyncFailed \/ Relogin
    \/ SyncNothing \/ SyncNoLease \/ ApplyFails \/ ApplyCommits

\* The main goroutine is scheduled and its timers fire.  A call tried again and
\* again is answered in the end, and an Apply tried again and again does not fail
\* for ever.  Nothing is assumed of the realtime goroutine: the poll alone has to
\* do.  The control center does not revoke the session again for ever.  Nobody has
\* to start the client again once Run has returned.
Fairness ==
    /\ WF_vars(MainStep) /\ WF_vars(LeaseAges /\ state' # state)
    /\ SF_vars(SyncServed) /\ SF_vars(SyncAnswered)
    /\ SF_vars(SyncSessionRevoked \/ SyncDeviceRevoked)
    /\ SF_vars(Relogin /\ main'.step # "select")
    /\ SF_vars(ApplyPromotes)
    /\ <>[][~RevokeSession]_vars

FairSpec == Spec /\ Fairness

-----------------------------------------------------------------------------
(* Properties *)

\* The types of the state; each retryTransient counts no further than its limit,
\* and there are never more than two last-known-good files.
TypeOK ==
    /\ server \in [version: Versions, device: {"ok", "revoked"}, session: BOOLEAN]
    /\ main \in [step: MainSteps, attempt: 0 .. MaxAttempts - 1, retried: BOOLEAN,
                 first: BOOLEAN, sent: Leases \cup {"unsent"}, full: BOOLEAN,
                 lease: BOOLEAN, version: Versions]
    /\ state \in State /\ DOMAIN disk = {"state", "files"} /\ disk.state \in State
    /\ Len(disk.files) <= 2
    /\ \A i \in DOMAIN disk.files : disk.files[i] \in [version: Versions \ {0}, good: BOOLEAN]
    /\ snapshot \in Versions /\ reported \in Versions /\ asked \in Versions
    /\ agent \in Versions /\ signal \in BOOLEAN /\ crashes \in 0 .. MaxCrashes
    /\ rt \in [step: {"none", "dial", "live", "backoff"}, event: Versions,
               seen: Versions]

\* An event that arrives while a synchronization is under way is not lost in the
\* capacity-one channel (requestSynchronization, realtime.go): either the signal
\* is still pending, or a request that the control center has not served yet will
\* be answered with the version the event announced.  An answer that was computed
\* before the event, and is still on its way, does not count.
EventNotLost ==
    rt.seen > asked => signal \/ main.step \in {"request", "relogin"}

\* The version a heartbeat reports as applied is one whose configuration was
\* promoted before, so that a restart runs at least it: the snapshot never runs
\* ahead of Supervisor.Apply, whatever fails or crashes.  The exception is a crash
\* in the middle of secureDelete, after which New adopts the overwritten file and
\* deletes the promoted one (NewestUsed of Supervisor): no file is readable then.
ReportedIsPromoted == Adopted.good => reported <= Adopted.version

\* The version state.json calls applied can be started from the disk: the save
\* that follows Apply is behind the promotion, also across a crash between them,
\* with the same exception.
SavedIsPromoted == Adopted.good => disk.state.applied <= Adopted.version

\* Once a revocation has been written to state.json, no later run of the client
\* starts the agent, although its lease and its last-known-good file are still
\* good: Run authenticates before it makes the supervisor.
RevokedNotRestarted == [][disk.state.revoked /\ agent = 0 => agent' = 0]_vars

\* A revoked device stops serving for good, without help from the realtime
\* channel and however often the client is started again.
RevokedStops == server.device = "revoked" ~> [](agent = 0)

\* As long as Run goes on, the last published configuration is applied in the end
\* unless the device is revoked, also when events and answers are lost, the session
\* is revoked and Apply fails for a while.  Run returns when its context is done or
\* start-up has used up its attempts; none of its callers calls it again by itself.
PublishedIsApplied ==
    server.version = MaxVersion ~>
        state.applied = MaxVersion \/ server.device = "revoked" \/ main.step = "off"

\* What the comment at app.go:294 says of the poll, that it is the fallback by
\* which configuration changes are applied: a poll that ends well leaves the
\* version it was answered applied.
PollIsFallback ==
    main.step = "apply" /\ ~main.full /\ ~NeedsLease => state.applied = main.version
=============================================================================
