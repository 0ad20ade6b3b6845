----------------------------- MODULE RemoteHost -----------------------------
(***************************************************************************)
(* The remote-desktop host service (internal/remotehost): the approval of  *)
(* a session by a local decision or automatically, its start in the native *)
(* engine, its stop from any side, and the signed proofs that it stopped.  *)
(* Approvals, local decisions and the signaling loop are goroutines that   *)
(* share s.mu, under which every action here is atomic, and s.engineMu,    *)
(* held across the engine calls that prepare, start and close.             *)
(*                                                                         *)
(* One session of the control center, whose connection epoch grows when    *)
(* the controller reconnects, and one local grant are modelled.  A         *)
(* runningSession is a member of Runs, in the order they are made.  The    *)
(* generation counter is the set of the goroutines for which it still has  *)
(* the value they read.  The list of pending decisions, which is only      *)
(* displayed, and the messages between the peers are left out.             *)
(***************************************************************************)
EXTENDS Integers, FiniteSets, Sequences

CONSTANTS
    Approvers,      \* goroutines in approveSession
    Users,          \* goroutines of local decisions (SetEnabled, RevokeGrant...)
    Loop,           \* the goroutine of Run
    MaxEpoch,       \* bound: connection epochs
    MaxSeq,         \* bound: lease sequence numbers
    MaxRuns,        \* bound: sessions installed as active
    MaxInbox,       \* bound: undelivered session messages of the control center
    Persistent,     \* the grant is a persistent one
    MayRestore      \* bound: whether the control center may be restored meanwhile

ASSUME RemoteHostAssumption ==
    /\ {MaxEpoch, MaxSeq, MaxRuns, MaxInbox} \subseteq Nat \ {0}
    /\ {Persistent, MayRestore} \subseteq BOOLEAN
    /\ Approvers \cap Users = {} /\ Loop \notin Approvers \cup Users

VARIABLES
    server,     \* control center: epoch, state and lease sequence of the session
    inbox,      \* session messages on their way to the loop
    loop,       \* Run: its phase, RefreshKeys in it, the session it renews, s.republished
    fresh,      \* who finds s.generation as it read it
    disabled,   \* s.disabled
    store,      \* the protected store: enabled, and the grant
    runs,       \* the runningSession records
    made,       \* how many have been made
    active,     \* s.active, 0 for nil
    appr,       \* the approvals
    user,       \* the local decisions
    stop,       \* the progress of Stop in each goroutine
    engineMu,   \* the goroutine that holds s.engineMu, or Nobody
    engine,     \* the native worker: alive, exited, session (epoch) and phase
    closed,     \* native closed events that wait for the loop
    owed        \* the store's close acknowledgments: epoch -> sequence, or None

vars == <<server, inbox, loop, fresh, disabled, store, runs, made, active, appr, user, stop,
          engineMu, engine, closed, owed>>

-----------------------------------------------------------------------------
Threads == Approvers \cup Users \cup {Loop}
Nobody == 0
None == -1
Epochs == 1 .. MaxEpoch
Runs == 1 .. MaxRuns
NoRun == [epoch |-> 0, seq |-> 0, lease |-> "none", started |-> FALSE, closing |-> FALSE,
          cancelled |-> FALSE, stopped |-> FALSE, superseded |-> FALSE]
IdleApproval == [pc |-> "idle", epoch |-> 0, run |-> 0]
NoStop == [pc |-> "none", run |-> 0]

Init ==
    /\ server = [epoch |-> 1, state |-> "pending", seq |-> 0]
    /\ inbox = <<>> /\ fresh = {}
    /\ loop = [state |-> "down", keys |-> "none", renewing |-> 0, republished |-> FALSE]
    /\ disabled = FALSE /\ store = [enabled |-> TRUE, grant |-> "live"]
    /\ runs = [r \in Runs |-> NoRun] /\ made = 0 /\ active = 0
    /\ appr = [a \in Approvers |-> IdleApproval]
    /\ user = [u \in Users |-> "idle"]
    /\ stop = [t \in Threads |-> NoStop]
    /\ engineMu = Nobody
    /\ engine = [alive |-> TRUE, exited |-> FALSE, epoch |-> 0, phase |-> "none"]
    /\ closed = {} /\ owed = [e \in Epochs |-> None]

-----------------------------------------------------------------------------
(* The native worker (native/remote/webrtc/host_worker.cpp) and its adapter *)

Media(e) == engine.epoch = e /\ engine.phase = "running"
Open == engine.phase \in {"prepared", "running"}

\* The session of the worker closes and reports it; closed twice, it reports once.
CloseNative(en) == [en EXCEPT !.phase = IF @ \in {"prepared", "running"} THEN "closed" ELSE @]
ClosedEvent == IF Open THEN closed \cup {engine.epoch} ELSE closed

\* Engine.fail: queued events are dropped and no call succeeds any more.
Die == engine' = [engine EXCEPT !.alive = FALSE] /\ closed' = {}

\* Engine.Close of an epoch: an unknown session is no error and has no event.
EngineClose(e) ==
    /\ engine.alive
    /\ engine' = IF engine.epoch = e THEN CloseNative(engine) ELSE engine
    /\ closed' = IF engine.epoch = e THEN ClosedEvent ELSE closed

\* The peer leaves, the lease runs out or the media fail: the worker closes.
NativeCloses ==
    /\ engine.alive /\ Open
    /\ engine' = CloseNative(engine) /\ closed' = ClosedEvent
    /\ UNCHANGED <<server, inbox, loop, fresh, disabled, store, runs, made, active, appr, user, stop,
                   engineMu, owed>>

\* The worker crashes, or a call to it times out.
EngineDies ==
    /\ engine.alive /\ Die
    /\ UNCHANGED <<server, inbox, loop, fresh, disabled, store, runs, made, active, appr, user, stop,
                   engineMu, owed>>

\* The process is reaped, which ends its media.
EngineExits ==
    /\ ~engine.alive /\ ~engine.exited
    /\ engine' = [engine EXCEPT !.exited = TRUE, !.phase = "none"]
    /\ UNCHANGED <<server, inbox, loop, fresh, disabled, store, runs, made, active, appr, user, stop,
                   engineMu, closed, owed>>

-----------------------------------------------------------------------------
(* Stop *)

Cancel(r) == [runs EXCEPT ![r].closing = TRUE, ![r].cancelled = TRUE]

\* The locked part of stopLocal, by goroutine t: whatever session is active now.
StopLocal(t) ==
    /\ fresh' = {}
    /\ IF active = 0
       THEN UNCHANGED <<runs, stop>>
       ELSE /\ runs' = Cancel(active)
            /\ stop' = [stop EXCEPT ![t] = [pc |-> "close", run |-> active]]

\* Mutant: a session that does not count as started is not closed in the worker.
StopClose_StartedOnly(t) ==
    /\ stop[t].pc = "close" /\ engineMu = Nobody
    /\ IF engine.alive /\ runs[stop[t].run].started
       THEN EngineClose(runs[stop[t].run].epoch)
       ELSE UNCHANGED <<engine, closed>>
    /\ stop' = [stop EXCEPT ![t].pc = IF engine.alive THEN "report" ELSE "confirm"]
    /\ UNCHANGED <<server, inbox, loop, fresh, disabled, store, runs, made, active, appr, user, engineMu, owed>>

\* Engine.Close in stopLocal, under s.engineMu.
StopClose(t) ==
    /\ stop[t].pc = "close" /\ engineMu = Nobody
    /\ IF engine.alive
       THEN /\ EngineClose(runs[stop[t].run].epoch)
            /\ stop' = [stop EXCEPT ![t].pc = "report"]
       ELSE /\ stop' = [stop EXCEPT ![t].pc = "confirm"] /\ UNCHANGED <<engine, closed>>
    /\ UNCHANGED <<server, inbox, loop, fresh, disabled, store, runs, made, active, appr, user, engineMu, owed>>

\* recordStopped: the proof is stored and the slot freed, for this session only.
RecordStopped(r) ==
    IF active # r \/ runs[r].stopped
    THEN UNCHANGED <<runs, active, owed>>
    ELSE /\ runs' = [runs EXCEPT ![r].stopped = TRUE, ![r].closing = TRUE]
         /\ active' = 0
         /\ owed' = IF runs[r].superseded \/ owed[runs[r].epoch] >= runs[r].seq
                    THEN owed
                    ELSE [owed EXCEPT ![runs[r].epoch] = runs[r].seq]

\* The store is disabled before SetEnabled waits for anything else.
Disabling(t) == t \in Users /\ user[t] = "disabling"

\* Mutant: a failed Engine.Close counts as the worker's exit.
StopConfirm_NotReaped(t) ==
    /\ stop[t].pc = "confirm" /\ ~Disabling(t)
    /\ RecordStopped(stop[t].run)
    /\ stop' = [stop EXCEPT ![t] = NoStop]
    /\ UNCHANGED <<server, inbox, loop, fresh, disabled, store, made, appr, user, engineMu, engine, closed>>

\* confirmEngineStopped, after Engine.Close has failed: the worker is reaped
\* within five seconds, or nothing is known.
StopConfirm(t) ==
    /\ stop[t].pc = "confirm" /\ ~Disabling(t)
    /\ \/ /\ engine.exited
          /\ RecordStopped(stop[t].run)
          /\ stop' = [stop EXCEPT ![t] = NoStop]
       \/ /\ stop' = [stop EXCEPT ![t].pc = "report"]
          /\ UNCHANGED <<runs, active, owed>>
    /\ UNCHANGED <<server, inbox, loop, fresh, disabled, store, made, appr, user, engineMu, engine, closed>>

Settled(r) == active # r \/ runs[r].stopped \/ runs[r].superseded

\* The server sends a session message on the open connection, if there is one.
Push(kind, e) ==
    IF loop.state = "up"
    THEN Len(inbox) < MaxInbox /\ inbox' = Append(inbox, [kind |-> kind, epoch |-> e])
    ELSE UNCHANGED inbox

\* requestSessionClose: the report is bound to the epoch and may not arrive.
StopReport(t) ==
    /\ stop[t].pc = "report" /\ ~Disabling(t)
    /\ stop' = [stop EXCEPT ![t] = NoStop]
    /\ \/ UNCHANGED <<server, inbox>>
       \/ /\ ~Settled(stop[t].run) /\ server.epoch = runs[stop[t].run].epoch
          /\ server.state \in {"pending", "authorized"}
          /\ server' = [server EXCEPT !.state = IF @ = "pending" THEN "closed" ELSE "closing"]
          /\ Push("closed", server.epoch)
    /\ UNCHANGED <<loop, fresh, disabled, store, runs, made, active, appr, user, engineMu, engine, closed, owed>>

-----------------------------------------------------------------------------
(* approveSession *)

\* What the store has to say before an approval goes on, and before a renewal.
Authorized == store.enabled /\ store.grant = "live"

\* The test under s.mu before and after each call to the worker.
Stale(a) ==
    active # appr[a].run \/ runs[appr[a].run].closing \/ a \notin fresh \/ disabled

At(a, pc) == appr[a].pc = pc
Goto(a, pc) == appr' = [appr EXCEPT ![a].pc = pc]

\* The generation is read, the session loaded, and the grant found to allow it.
ApproveLoad(a) ==
    /\ At(a, "idle") /\ ~disabled /\ Authorized
    /\ server.state = "pending"
    /\ made + Cardinality({b \in Approvers : At(b, "loaded")}) < MaxRuns
    /\ appr' = [appr EXCEPT ![a] = [pc |-> "loaded", epoch |-> server.epoch, run |-> 0]]
    /\ fresh' = fresh \cup {a}
    /\ UNCHANGED <<server, inbox, loop, disabled, store, runs, made, active, user, stop,
                   engineMu, engine, closed, owed>>

\* The session becomes the active one, unless the host is busy.
ApproveInstall(a) ==
    /\ At(a, "loaded")
    /\ IF active # 0 \/ a \notin fresh \/ disabled
       THEN /\ appr' = [appr EXCEPT ![a] = IdleApproval]
            /\ fresh' = fresh \ {a}
            /\ UNCHANGED <<runs, made, active>>
       ELSE /\ UNCHANGED fresh
            /\ made' = made + 1 /\ active' = made'
            /\ runs' = [runs EXCEPT ![made'] = [NoRun EXCEPT !.epoch = appr[a].epoch]]
            /\ appr' = [appr EXCEPT ![a].pc = "installed", ![a].run = made']
    /\ UNCHANGED <<server, inbox, loop, disabled, store, user, stop, engineMu, engine, closed, owed>>

\* Mutant: a stale approval returns without unlocking s.engineMu.
PrepareCheck_KeepsLock(a) ==
    /\ At(a, "installed") /\ engineMu = Nobody
    /\ Goto(a, IF Stale(a) THEN "failed" ELSE "preparing") /\ engineMu' = a
    /\ UNCHANGED <<server, inbox, loop, fresh, disabled, store, runs, made, active, user, stop,
                   engine, closed, owed>>

PrepareCheck(a) ==
    /\ At(a, "installed") /\ engineMu = Nobody
    /\ IF Stale(a)
       THEN Goto(a, "failed") /\ UNCHANGED engineMu
       ELSE Goto(a, "preparing") /\ engineMu' = a
    /\ UNCHANGED <<server, inbox, loop, fresh, disabled, store, runs, made, active, user, stop,
                   engine, closed, owed>>

\* Engine.PrepareSession replaces the worker's session, or is rejected: before the
\* old one is touched, when the worker cannot make the identity of the new one, or
\* after it has been closed.  A cancelled call ends the worker.
PrepareCall(a) ==
    /\ At(a, "preparing") /\ engineMu' = Nobody
    /\ \/ /\ engine.alive /\ ~runs[appr[a].run].cancelled
          /\ engine' = [engine EXCEPT !.epoch = appr[a].epoch, !.phase = "prepared"]
          /\ closed' = ClosedEvent
          /\ Goto(a, "prepared")
       \/ /\ engine.alive /\ ~runs[appr[a].run].cancelled
          /\ engine' = CloseNative(engine) /\ closed' = ClosedEvent
          /\ Goto(a, "failed")
       \/ /\ engine.alive /\ runs[appr[a].run].cancelled
          /\ Die /\ Goto(a, "failed")
       \/ /\ engine.alive => ~runs[appr[a].run].cancelled
          /\ Goto(a, "failed") /\ UNCHANGED <<engine, closed>>
    /\ UNCHANGED <<server, inbox, loop, fresh, disabled, store, runs, made, active, user, stop, owed>>

\* The grant is bound to the session in the store, which checks it again.
ApproveBind(a) ==
    /\ At(a, "prepared")
    /\ \/ Authorized /\ Goto(a, "bound")
       \/ Goto(a, "failed")
    /\ UNCHANGED <<server, inbox, loop, fresh, disabled, store, runs, made, active, user, stop,
                   engineMu, engine, closed, owed>>

\* The decision is posted; the answer may be lost after it took effect.
ApproveDecide(a) ==
    /\ At(a, "bound")
    /\ \/ /\ server.epoch = appr[a].epoch /\ server.state = "pending"
          /\ server' = [server EXCEPT !.state = "authorized", !.seq = 1]
          /\ \/ ~runs[appr[a].run].cancelled /\ Goto(a, "decided")
             \/ Goto(a, "failed")
       \/ Goto(a, "failed") /\ UNCHANGED server
    /\ UNCHANGED <<inbox, loop, fresh, disabled, store, runs, made, active, user, stop,
                   engineMu, engine, closed, owed>>

\* checkAuthority looks at the store once more; then the relay servers are asked for.
ApproveCheck(a) ==
    /\ At(a, "decided")
    /\ \/ Authorized /\ Goto(a, "checked")
       \/ Goto(a, "failed")
    /\ UNCHANGED <<server, inbox, loop, fresh, disabled, store, runs, made, active, user, stop,
                   engineMu, engine, closed, owed>>

StartCheck(a) ==
    /\ At(a, "checked") /\ engineMu = Nobody
    /\ IF Stale(a)
       THEN Goto(a, "failed") /\ UNCHANGED <<engineMu, runs>>
       ELSE /\ Goto(a, "starting") /\ engineMu' = a
            /\ runs' = [runs EXCEPT ![appr[a].run].lease = "good", ![appr[a].run].seq = 1]
    /\ UNCHANGED <<server, inbox, loop, fresh, disabled, store, made, active, user, stop,
                   engine, closed, owed>>

\* Engine.Start; a worker that rejects it closes the session.
StartCall(a) ==
    /\ At(a, "starting")
    /\ \/ /\ engine.alive /\ engine.epoch = appr[a].epoch /\ engine.phase = "prepared"
          /\ engine' = [engine EXCEPT !.phase = "running"] /\ UNCHANGED closed
          /\ Goto(a, "started")
       \/ /\ EngineClose(appr[a].epoch) /\ Goto(a, "rejected")
       \/ /\ engine.alive /\ runs[appr[a].run].cancelled
          /\ Die /\ Goto(a, "rejected")
       \/ /\ ~engine.alive /\ Goto(a, "rejected") /\ UNCHANGED <<engine, closed>>
    /\ UNCHANGED <<server, inbox, loop, fresh, disabled, store, runs, made, active, user, stop,
                   engineMu, owed>>

\* The session counts as started unless it was stopped during the call.
StartDone(a) ==
    /\ At(a, "started") \/ At(a, "rejected")
    /\ engineMu' = Nobody
    /\ IF At(a, "started") /\ ~Stale(a)
       THEN runs' = [runs EXCEPT ![appr[a].run].started = TRUE] /\ Goto(a, "flush")
       ELSE UNCHANGED runs /\ Goto(a, "failed")
    /\ UNCHANGED <<server, inbox, loop, fresh, disabled, store, made, active, user, stop,
                   engine, closed, owed>>

\* flushPeer hands over the messages that waited; it ends the approval.
ApproveFlush(a) ==
    /\ At(a, "flush")
    /\ \/ /\ active = appr[a].run /\ ~runs[appr[a].run].closing
          /\ appr' = [appr EXCEPT ![a] = IdleApproval] /\ fresh' = fresh \ {a}
       \/ Goto(a, "failed") /\ UNCHANGED fresh
    /\ UNCHANGED <<server, inbox, loop, disabled, store, runs, made, active, user, stop,
                   engineMu, engine, closed, owed>>

\* The deferred Stop of an approval that did not succeed.
ApproveFail(a) ==
    /\ At(a, "failed")
    /\ StopLocal(a)
    /\ Goto(a, "stopping")
    /\ UNCHANGED <<server, inbox, loop, disabled, store, made, active, user, engineMu, engine, closed, owed>>

ApproveEnd(a) ==
    /\ At(a, "stopping") /\ stop[a] = NoStop
    /\ appr' = [appr EXCEPT ![a] = IdleApproval]
    /\ UNCHANGED <<server, inbox, loop, fresh, disabled, store, runs, made, active, user, stop,
                   engineMu, engine, closed, owed>>

-----------------------------------------------------------------------------
(* Local decisions *)

Free(u) == user[u] = "idle" /\ stop[u] = NoStop
UserGoes(u, pc) == user' = [user EXCEPT ![u] = pc]

UserStop(u) ==
    /\ Free(u) /\ StopLocal(u)
    /\ UNCHANGED <<server, inbox, loop, disabled, store, made, active, appr, user,
                   engineMu, engine, closed, owed>>

\* SetEnabled(false), and DisableLocally, which moves the generation on here as well.
DisableBegin(u) ==
    /\ Free(u) /\ disabled' = TRUE
    /\ fresh' \in {fresh, {}} /\ UserGoes(u, "disable")
    /\ UNCHANGED <<server, inbox, loop, store, runs, made, active, appr, stop,
                   engineMu, engine, closed, owed>>

\* Mutant: only a session that counts as started is stopped.
DisableStop_StartedOnly(u) ==
    /\ user[u] = "disable" /\ UserGoes(u, "disabling")
    /\ IF active # 0 /\ runs[active].started THEN StopLocal(u) ELSE UNCHANGED <<fresh, runs, stop>>
    /\ UNCHANGED <<server, inbox, loop, disabled, store, made, active, appr,
                   engineMu, engine, closed, owed>>

\* The session is stopped before the store is written.
DisableStop(u) ==
    /\ user[u] = "disable" /\ StopLocal(u) /\ UserGoes(u, "disabling")
    /\ UNCHANGED <<server, inbox, loop, disabled, store, made, active, appr,
                   engineMu, engine, closed, owed>>

\* The store is disabled, and a persistent grant withdrawn with it.
DisabledStore ==
    [enabled |-> FALSE,
     grant |-> IF Persistent /\ store.grant = "live" THEN "withdrawn" ELSE store.grant]

\* The store is written once Engine.Close has returned; DisableLocally ends here.
DisableStore(u) ==
    /\ user[u] = "disabling" /\ stop[u].pc # "close"
    /\ store' = DisabledStore
    /\ \/ UserGoes(u, "publishing") /\ UNCHANGED stop
       \/ UserGoes(u, "idle") /\ stop' = [stop EXCEPT ![u] = NoStop]
    /\ UNCHANGED <<server, inbox, loop, fresh, disabled, runs, made, active, appr,
                   engineMu, engine, closed, owed>>

\* SetEnabled(false) publishes the capabilities last, and writes the store again.
DisablePublish(u) ==
    /\ user[u] = "publishing" /\ stop[u] = NoStop /\ UserGoes(u, "idle")
    /\ store' \in {store, [store EXCEPT !.enabled = FALSE]}
    /\ UNCHANGED <<server, inbox, loop, fresh, disabled, runs, made, active, appr, stop,
                   engineMu, engine, closed, owed>>

\* SetEnabled(true) reads the generation, publishes, and compares it: by goroutine t.
Enabled(t) ==
    /\ store' = [store EXCEPT !.enabled = t \in fresh]
    /\ disabled' = (disabled /\ t \notin fresh)

EnableBegin(u) ==
    /\ Free(u) /\ UserGoes(u, "enabling") /\ fresh' = fresh \cup {u}
    /\ UNCHANGED <<server, inbox, loop, disabled, store, runs, made, active, appr, stop,
                   engineMu, engine, closed, owed>>

EnableEnd(u) ==
    /\ user[u] = "enabling" /\ UserGoes(u, "idle") /\ fresh' = fresh \ {u}
    /\ \/ engine.alive /\ Enabled(u)
       \/ UNCHANGED <<store, disabled>>
    /\ UNCHANGED <<server, inbox, loop, runs, made, active, appr, stop, engineMu, engine, closed, owed>>

\* RevokeGrant: the tombstone is stored, then the active session is looked at.
RevokeStore(u) ==
    /\ Free(u) /\ store.grant = "live"
    /\ store' = [store EXCEPT !.grant = "revoked"] /\ UserGoes(u, "revoking")
    /\ UNCHANGED <<server, inbox, loop, fresh, disabled, runs, made, active, appr, stop,
                   engineMu, engine, closed, owed>>

\* Mutant: only a session that counts as started is stopped.
RevokeStop_StartedOnly(u) ==
    /\ user[u] = "revoking" /\ UserGoes(u, "idle")
    /\ IF active # 0 /\ runs[active].started THEN StopLocal(u) ELSE UNCHANGED <<fresh, runs, stop>>
    /\ UNCHANGED <<server, inbox, loop, disabled, store, made, active, appr,
                   engineMu, engine, closed, owed>>

RevokeStop(u) ==
    /\ user[u] = "revoking" /\ UserGoes(u, "idle")
    /\ IF active # 0 THEN StopLocal(u) ELSE UNCHANGED <<fresh, runs, stop>>
    /\ UNCHANGED <<server, inbox, loop, disabled, store, made, active, appr,
                   engineMu, engine, closed, owed>>

\* disableFixedLocally: the active session is looked at, then the tombstone is stored.
FixedRead(u) ==
    /\ Free(u) /\ store.grant = "live"
    /\ UserGoes(u, IF active # 0 THEN "fixed stop" ELSE "fixed")
    /\ UNCHANGED <<server, inbox, loop, fresh, disabled, store, runs, made, active, appr, stop,
                   engineMu, engine, closed, owed>>

FixedRevoke(u) ==
    /\ user[u] \in {"fixed", "fixed stop"} /\ UserGoes(u, "idle")
    /\ store' = [store EXCEPT !.grant = IF @ = "live" THEN "fixed revoked" ELSE @]
    /\ IF user[u] = "fixed stop" THEN StopLocal(u) ELSE UNCHANGED <<fresh, runs, stop>>
    /\ UNCHANGED <<server, inbox, loop, disabled, made, active, appr, engineMu, engine, closed, owed>>

-----------------------------------------------------------------------------
(* Run *)

LoopFree == stop[Loop] = NoStop /\ loop.renewing = 0 /\ loop.keys = "none"
NothingOwed == \A e \in Epochs : owed[e] = None
LoopGoes(state) == loop' = [loop EXCEPT !.state = state]
KeysGo(keys) == loop' = [loop EXCEPT !.keys = keys]

\* Run finds the host enabled and the worker ready, and asks for the server's keys.
LoopBegin ==
    /\ loop.state = "down" /\ LoopFree /\ store.enabled /\ engine.alive
    /\ loop' = [loop EXCEPT !.state = "connecting", !.keys = "asked"]
    /\ UNCHANGED <<server, inbox, fresh, disabled, store, runs, made, active, appr, user, stop,
                   engineMu, engine, closed, owed>>

\* Run finds the host disabled or the worker not ready, for whatever reason the
\* worker gives, and returns at once; its deferred Stop runs all the same.
LoopRefused ==
    /\ loop.state = "down" /\ LoopFree /\ StopLocal(Loop)
    /\ UNCHANGED <<server, inbox, loop, disabled, store, made, active, appr, user,
                   engineMu, engine, closed, owed>>

\* RefreshKeys, before Run connects and before a lease is renewed: the keys are of
\* the restore epoch the store knows.
KeysSame ==
    /\ loop.keys = "asked" /\ KeysGo(IF loop.state = "up" THEN "same" ELSE "none")
    /\ UNCHANGED <<server, inbox, fresh, disabled, store, runs, made, active, appr, user, stop,
                   engineMu, engine, closed, owed>>

\* RefreshKeys: the control center has been restored.  The store is disabled, unless
\* its update fails,
KeysChanged ==
    /\ MayRestore /\ loop.keys = "asked" /\ KeysGo("changed")
    /\ store' \in {DisabledStore, store}
    /\ UNCHANGED <<server, inbox, fresh, disabled, runs, made, active, appr, user, stop,
                   engineMu, engine, closed, owed>>

\* then the Service,
KeysDisabled ==
    /\ loop.keys = "changed" /\ KeysGo("disabled") /\ disabled' = TRUE
    /\ UNCHANGED <<server, inbox, fresh, store, runs, made, active, appr, user, stop,
                   engineMu, engine, closed, owed>>

\* Mutant: only a session that counts as started is stopped.
KeysStop_StartedOnly ==
    /\ loop.keys = "disabled" /\ KeysGo("stopped")
    /\ IF active # 0 /\ runs[active].started THEN StopLocal(Loop) ELSE UNCHANGED <<fresh, runs, stop>>
    /\ UNCHANGED <<server, inbox, disabled, store, made, active, appr, user,
                   engineMu, engine, closed, owed>>

\* and whatever session is active is stopped.
KeysStop ==
    /\ loop.keys = "disabled" /\ KeysGo("stopped") /\ StopLocal(Loop)
    /\ UNCHANGED <<server, inbox, disabled, store, made, active, appr, user,
                   engineMu, engine, closed, owed>>

\* tick stops the session once more and goes on; Run, connecting, returns (LoopFails).
KeysEnd ==
    /\ loop.keys = "stopped" /\ loop.state = "up" /\ stop[Loop] = NoStop
    /\ loop' = [loop EXCEPT !.keys = "none", !.renewing = 0] /\ StopLocal(Loop)
    /\ UNCHANGED <<server, inbox, disabled, store, made, active, appr, user,
                   engineMu, engine, closed, owed>>

\* The first connection publishes the capabilities again: SetEnabled(true).
LoopRepublish ==
    /\ loop.state = "connecting" /\ LoopFree /\ ~loop.republished /\ NothingOwed
    /\ LoopGoes("enabling") /\ fresh' = fresh \cup {Loop}
    /\ UNCHANGED <<server, inbox, disabled, store, runs, made, active, appr, user, stop,
                   engineMu, engine, closed, owed>>

LoopEnabled ==
    /\ loop.state = "enabling" /\ fresh' = fresh \ {Loop}
    /\ \/ /\ engine.alive /\ Enabled(Loop)
          /\ loop' = [loop EXCEPT !.state = "online", !.republished = Loop \in fresh]
       \/ LoopGoes("online") /\ UNCHANGED <<store, disabled>>
    /\ UNCHANGED <<server, inbox, runs, made, active, appr, user, stop, engineMu, engine, closed, owed>>

\* The server has accepted the connection and nothing is owed to it.
LoopUp ==
    /\ loop.state = "online" \/ (loop.state = "connecting" /\ loop.republished)
    /\ LoopFree /\ NothingOwed /\ LoopGoes("up")
    /\ UNCHANGED <<server, inbox, fresh, disabled, store, runs, made, active, appr, user, stop,
                   engineMu, engine, closed, owed>>

\* Any error ends Run, whose deferred Stop closes the active session; the
\* connection's unread messages are lost.
LoopFails ==
    /\ loop.state # "down" /\ stop[Loop] = NoStop /\ loop.keys \notin {"changed", "disabled"}
    /\ loop' = [loop EXCEPT !.state = "down", !.keys = "none", !.renewing = 0] /\ inbox' = <<>>
    /\ StopLocal(Loop)
    /\ UNCHANGED <<server, disabled, store, made, active, appr, user, engineMu, engine, closed, owed>>

\* Mutant: a closed event is taken for the active session's.
LoopClosed_AnyEpoch(e) ==
    /\ loop.state \in {"online", "up"} /\ LoopFree /\ e \in closed
    /\ closed' = closed \ {e}
    /\ IF active # 0 THEN RecordStopped(active) ELSE UNCHANGED <<runs, active, owed>>
    /\ UNCHANGED <<server, inbox, loop, fresh, disabled, store, made, appr, user, stop, engineMu, engine>>

\* handleEngine: the native session has closed.
LoopClosed(e) ==
    /\ loop.state \in {"online", "up"} /\ LoopFree /\ e \in closed
    /\ closed' = closed \ {e}
    /\ IF active # 0 /\ runs[active].epoch = e
       THEN RecordStopped(active)
       ELSE UNCHANGED <<runs, active, owed>>
    /\ UNCHANGED <<server, inbox, loop, fresh, disabled, store, made, appr, user, stop, engineMu, engine>>

\* handleServer: the session has ended at the server.
LoopServerClosed ==
    /\ loop.state = "up" /\ LoopFree
    /\ inbox # <<>> /\ Head(inbox).kind = "closed" /\ inbox' = Tail(inbox)
    /\ IF active # 0 /\ runs[active].epoch = Head(inbox).epoch
       THEN StopLocal(Loop)
       ELSE UNCHANGED <<fresh, runs, stop>>
    /\ UNCHANGED <<server, loop, disabled, store, made, active, appr, user, engineMu, engine, closed, owed>>

\* handleServer: the controller asks for the session, or asks again after it has
\* reconnected, which supersedes the active one.
LoopRequest ==
    /\ loop.state = "up" /\ LoopFree /\ store.grant = "live"
    /\ inbox # <<>> /\ Head(inbox).kind = "request" /\ inbox' = Tail(inbox)
    /\ IF active # 0 /\ runs[active].epoch < Head(inbox).epoch
       THEN /\ fresh' = {}
            /\ runs' = [Cancel(active) EXCEPT ![active].superseded = TRUE]
            /\ stop' = [stop EXCEPT ![Loop] = [pc |-> "supersede", run |-> active]]
       ELSE UNCHANGED <<fresh, runs, stop>>
    /\ UNCHANGED <<server, loop, disabled, store, made, active, appr, user, engineMu, engine, closed, owed>>

LoopSupersede ==
    /\ stop[Loop].pc = "supersede" /\ engineMu = Nobody
    /\ stop' = [stop EXCEPT ![Loop] = NoStop]
    /\ EngineClose(runs[stop[Loop].run].epoch) \/ (~engine.alive /\ UNCHANGED <<engine, closed>>)
    /\ UNCHANGED <<server, inbox, loop, fresh, disabled, store, runs, made, active, appr, user,
                   engineMu, owed>>

\* Mutant: a stopped session waits for its closed event, however old its lease.
LoopExpired_Waits ==
    /\ loop.state = "up" /\ LoopFree /\ active # 0 /\ runs[active].lease = "over"
    /\ ~runs[active].closing /\ StopLocal(Loop)
    /\ UNCHANGED <<server, inbox, loop, disabled, store, made, active, appr, user,
                   engineMu, engine, closed, owed>>

\* tick: a lease that is over ends the session, and frees the host if it has
\* been stopped already.
LoopExpired ==
    /\ loop.state = "up" /\ LoopFree /\ active # 0 /\ runs[active].lease = "over"
    /\ IF runs[active].closing
       THEN active' = 0 /\ UNCHANGED <<fresh, runs, stop>>
       ELSE StopLocal(Loop) /\ UNCHANGED active
    /\ UNCHANGED <<server, inbox, loop, disabled, store, made, appr, user, engineMu, engine, closed, owed>>

\* tick: a lease is due for renewal, and RefreshKeys comes first.
LoopRenew ==
    /\ loop.state = "up" /\ LoopFree /\ active # 0
    /\ runs[active].started /\ ~runs[active].closing /\ runs[active].lease = "good"
    /\ runs[active].seq < MaxSeq
    /\ loop' = [loop EXCEPT !.keys = "asked", !.renewing = active]
    /\ UNCHANGED <<server, inbox, fresh, disabled, store, runs, made, active, appr, user, stop,
                   engineMu, engine, closed, owed>>

\* The server renews the lease of the session the tick has seen,
RenewServed ==
    /\ loop.keys = "same" /\ KeysGo("none")
    /\ server.epoch = runs[loop.renewing].epoch /\ server.state = "authorized"
    /\ server.seq = runs[loop.renewing].seq
    /\ server' = [server EXCEPT !.seq = @ + 1]
    /\ UNCHANGED <<inbox, fresh, disabled, store, runs, made, active, appr, user, stop,
                   engineMu, engine, closed, owed>>

\* the worker gets it, and the session its new deadline, unless it was stopped.
LoopRenewed ==
    /\ loop.renewing # 0 /\ loop.keys = "none" /\ Authorized
    /\ engine.alive /\ Media(runs[loop.renewing].epoch)
    /\ loop' = [loop EXCEPT !.renewing = 0]
    /\ runs' = IF active = loop.renewing /\ ~runs[active].closing
               THEN [runs EXCEPT ![active].seq = @ + 1, ![active].lease = "good"] ELSE runs
    /\ UNCHANGED <<server, inbox, fresh, disabled, store, made, active, appr, user, stop,
                   engineMu, engine, closed, owed>>

\* sendCloseAck, by whoever recorded the proof and by every flushOwedAcks.
SendCloseAck(e) ==
    /\ owed[e] # None
    /\ \/ /\ server.epoch > e \/ server.state = "closed"
          /\ owed' = [owed EXCEPT ![e] = None] /\ UNCHANGED <<server, inbox>>
       \/ /\ server.epoch = e /\ server.state # "closed" /\ server.seq = owed[e]
          /\ server' = [server EXCEPT !.state = "closed"] /\ Push("closed", e)
          /\ owed' = [owed EXCEPT ![e] = None]
       \/ /\ server.epoch = e /\ server.state # "closed" /\ server.seq > owed[e]
          /\ owed' = [owed EXCEPT ![e] = server.seq] /\ UNCHANGED <<server, inbox>>
    /\ UNCHANGED <<loop, fresh, disabled, store, runs, made, active, appr, user, stop,
                   engineMu, engine, closed>>

-----------------------------------------------------------------------------
(* The control center, and time *)

\* The controller reconnects: a new epoch that has to be approved again.
Reconnect ==
    /\ server.state # "closed" /\ server.epoch < MaxEpoch
    /\ server' = [epoch |-> server.epoch + 1, state |-> "pending", seq |-> 0]
    /\ Push("request", server.epoch + 1)
    /\ UNCHANGED <<loop, fresh, disabled, store, runs, made, active, appr, user, stop,
                   engineMu, engine, closed, owed>>

\* The controller leaves, or the session expires.
ServerCloses ==
    /\ server.state # "closed"
    /\ server' = [server EXCEPT !.state = "closed"] /\ Push("closed", server.epoch)
    /\ UNCHANGED <<loop, fresh, disabled, store, runs, made, active, appr, user, stop,
                   engineMu, engine, closed, owed>>

LeaseOver(r) ==
    /\ runs[r].lease = "good" /\ runs' = [runs EXCEPT ![r].lease = "over"]
    /\ UNCHANGED <<server, inbox, loop, fresh, disabled, store, made, active, appr, user, stop,
                   engineMu, engine, closed, owed>>

-----------------------------------------------------------------------------
Approve(a) ==
    \/ ApproveLoad(a) \/ ApproveInstall(a) \/ PrepareCheck(a) \/ PrepareCall(a)
    \/ ApproveBind(a) \/ ApproveDecide(a) \/ ApproveCheck(a) \/ StartCheck(a)
    \/ StartCall(a) \/ StartDone(a) \/ ApproveFlush(a) \/ ApproveFail(a) \/ ApproveEnd(a)

Decide(u) ==
    \/ UserStop(u) \/ DisableBegin(u) \/ DisableStop(u) \/ DisableStore(u) \/ DisablePublish(u)
    \/ EnableBegin(u) \/ EnableEnd(u) \/ RevokeStore(u) \/ RevokeStop(u)
    \/ FixedRead(u) \/ FixedRevoke(u)

Run ==
    \/ LoopBegin \/ LoopRefused \/ LoopRepublish \/ LoopEnabled \/ LoopUp \/ LoopFails
    \/ KeysSame \/ KeysChanged \/ KeysDisabled \/ KeysStop \/ KeysEnd
    \/ \E e \in Epochs : LoopClosed(e)
    \/ LoopServerClosed \/ LoopRequest \/ LoopSupersede
    \/ LoopExpired \/ LoopRenew \/ RenewServed \/ LoopRenewed

Next ==
    \/ \E a \in Approvers : Approve(a)
    \/ \E u \in Users : Decide(u)
    \/ Run
    \/ \E t \in Threads : StopClose(t) \/ StopConfirm(t) \/ StopReport(t)
    \/ \E e \in Epochs : SendCloseAck(e)
    \/ NativeCloses \/ EngineDies \/ EngineExits
    \/ Reconnect \/ ServerCloses
    \/ \E r \in Runs : LeaseOver(r)

Spec == Init /\ [][Next]_vars

\* An approval does not stop half way: its calls have timeouts.
ApprovalStep(a) == ~At(a, "idle") /\ Approve(a)
\* Neither does a Stop, whose close waits for s.engineMu.
StopStep(t) == StopClose(t) \/ StopConfirm(t) \/ StopReport(t)
\* Run is called again after every error, its calls end, and the closed event
\* channel of a failed worker ends it.
LoopConnects == LoopBegin \/ LoopRepublish \/ LoopEnabled \/ LoopUp
RenewalEnds == RenewServed \/ LoopRenewed \/ (loop.renewing # 0 /\ LoopFails)
RefreshEnds ==
    KeysSame \/ KeysDisabled \/ KeysStop \/ KeysEnd \/ (loop.keys = "stopped" /\ LoopFails)

\* What the code does by itself, and what time does; nothing is asked of the worker.
Fairness ==
    /\ \A a \in Approvers : WF_vars(ApprovalStep(a))
    /\ \A t \in Threads : WF_vars(StopStep(t))
    /\ \A e \in Epochs : WF_vars(SendCloseAck(e))
    /\ \A r \in Runs : WF_vars(LeaseOver(r))
    /\ WF_vars(LoopConnects) /\ WF_vars(RefreshEnds) /\ WF_vars(RenewalEnds)
    /\ WF_vars(LoopExpired)
    /\ WF_vars(LoopServerClosed \/ LoopRequest) /\ WF_vars(LoopSupersede)
    /\ WF_vars(~engine.alive /\ LoopFails)

FairSpec == Spec /\ Fairness

\* The worker's closed events are read as well, and a failed worker is reaped.
ReportingSpec ==
    FairSpec /\ WF_vars(EngineExits) /\ \A e \in Epochs : WF_vars(LoopClosed(e))

-----------------------------------------------------------------------------
(* Properties *)

ApprovalSteps == {"idle", "loaded", "installed", "preparing", "prepared", "bound", "decided",
                  "checked", "starting", "started", "rejected", "flush", "failed", "stopping"}
UserSteps == {"idle", "disable", "disabling", "publishing", "enabling", "revoking", "fixed", "fixed stop"}

\* The variables have the types of the Service's fields; s.engineMu is held by
\* exactly the approval that is inside a prepare or start call.
TypeOK ==
    /\ server \in [epoch : Epochs, state : {"pending", "authorized", "closing", "closed"},
                   seq : 0 .. MaxSeq]
    /\ inbox \in Seq([kind : {"request", "closed"}, epoch : Epochs]) /\ Len(inbox) <= MaxInbox
    /\ loop \in [state : {"down", "connecting", "enabling", "online", "up"},
                 keys : {"none", "asked", "same", "changed", "disabled", "stopped"},
                 renewing : 0 .. MaxRuns, republished : BOOLEAN]
    /\ fresh \subseteq Threads /\ disabled \in BOOLEAN
    /\ store \in [enabled : BOOLEAN, grant : {"live", "withdrawn", "revoked", "fixed revoked"}]
    /\ runs \in [Runs -> [epoch : 0 .. MaxEpoch, seq : 0 .. MaxSeq, lease : {"none", "good", "over"},
                          started : BOOLEAN, closing : BOOLEAN, cancelled : BOOLEAN,
                          stopped : BOOLEAN, superseded : BOOLEAN]]
    /\ made \in 0 .. MaxRuns /\ active \in 0 .. made
    /\ appr \in [Approvers -> [pc : ApprovalSteps, epoch : 0 .. MaxEpoch, run : 0 .. MaxRuns]]
    /\ user \in [Users -> UserSteps]
    /\ stop \in [Threads -> [pc : {"none", "close", "confirm", "report", "supersede"},
                             run : 0 .. MaxRuns]]
    /\ engineMu \in Approvers \cup {Nobody}
    /\ \A a \in Approvers :
         (engineMu = a) <=> appr[a].pc \in {"preparing", "starting", "started", "rejected"}
    /\ engine \in [alive : BOOLEAN, exited : BOOLEAN, epoch : 0 .. MaxEpoch,
                   phase : {"none", "prepared", "running", "closed"}]
    /\ closed \subseteq Epochs
    /\ owed \in [Epochs -> None .. MaxSeq]

\* While the worker captures, the Service knows the session as its active one,
\* so that a Stop reaches it; the one exception is a session that tick has
\* released because its lease is over.  A late closed event or a late exit proof
\* must not clear a session that replaced the one it is about (close_ack.go:184).
NoOrphanMedia ==
    engine.alive /\ engine.phase = "running" =>
        \E r \in Runs : runs[r].epoch = engine.epoch /\ (active = r \/ runs[r].lease = "over")

\* A session that was told to stop while the worker captures is about to be
\* closed there by some goroutine: no order of Stop and of the approval's
\* prepare and start leaves media running that nobody will close.
StopReachesWorker ==
    engine.alive /\ active # 0 /\ runs[active].closing /\ Media(runs[active].epoch) =>
        \E t \in Threads : stop[t].run = active /\ stop[t].pc \in {"close", "supersede"}

\* Once RevokeGrant has looked at the active session, no session of the revoked
\* grant counts as started without being closed, however far its approval was
\* when the tombstone was stored.
RevokedNotServed ==
    store.grant = "revoked" /\ (\A u \in Users : user[u] # "revoking") /\ active # 0 =>
        (runs[active].started => runs[active].closing)

\* A proof that an epoch stopped is first recorded when the worker does not
\* capture for it: after its closed event or its confirmed exit, never because a
\* call to the worker failed.
ProofWhenStopped ==
    [][\A e \in Epochs : owed[e] = None /\ owed'[e] # None => ~Media(e)]_vars

\* Once SetEnabled(false), DisableLocally or a restored control center has disabled
\* the host and looked at the active session, media that the worker still captures
\* are about to be closed by some goroutine, however far the approval was; the one
\* exception is a session released because its lease is over.
DisabledStopsMedia ==
    /\ disabled /\ (\A u \in Users : user[u] # "disable") /\ loop.keys # "disabled"
    /\ engine.alive /\ engine.phase = "running"
    => \E r \in Runs :
         /\ runs[r].epoch = engine.epoch
         /\ \/ runs[r].lease = "over"
            \/ \E t \in Threads : stop[t].run = r /\ stop[t].pc \in {"close", "supersede"}

\* A session that has been stopped frees the host, once signaling stays up: it
\* does not stay busy (run.go:247).
StopFreesHost ==
    <>[](loop.state = "up") =>
        \A r \in Runs : (active = r /\ runs[r].closing) ~> (active # r)

\* The same for a session whose approval got as far as its lease: its end frees
\* the host even when the worker never reports that it closed.
LeasedStopFreesHost ==
    <>[](loop.state = "up") =>
        \A r \in Runs : (active = r /\ runs[r].closing /\ runs[r].lease # "none") ~> (active # r)

\* An approval ends, whatever it is overtaken by: nobody keeps s.engineMu, for
\* which every Stop and every other approval waits.
ApprovalEnds == \A a \in Approvers : ~At(a, "idle") ~> At(a, "idle")

\* A host whose store has been disabled is enabled again only by a local decision
\* to enable it ("Closing wins against concurrent approval and enabling",
\* internal/remotehost/README.md:50).
DisableWins ==
    [][~store.enabled /\ store'.enabled => \E u \in Users : user[u] = "enabling"]_vars

-----------------------------------------------------------------------------
(* Three more statements of internal/remotehost/README.md (lines 65, 63 and *)
(* 50) that the model does not satisfy, kept for reference                  *)

\* No stopped proof is held for an epoch the worker captures for.
NoProofForRunning == \A e \in Epochs : owed[e] # None => ~Media(e)

\* An approval that fails stops the session it installed, and no other.
FailureStopsOwn ==
    [][\A a \in Approvers :
         appr[a].pc = "failed" /\ appr'[a].pc = "stopping" => active \in {0, appr[a].run}]_vars

\* Once the fixed password has been disabled, no session of its grants counts as
\* started without being closed.
FixedRevokedNotServed ==
    store.grant = "fixed revoked" /\ active # 0 => (runs[active].started => runs[active].closing)
=============================================================================
