# Verification of the Home Tunnel client

TLA+ models of the Go parts of the repository in which several goroutines,
processes and machines meet: the supervisor of the tunnel agent, the main loop
that keeps a device in step with the control center, and the remote-desktop host
service of the earlier releases. TLC checks them on small instances; TLAPS proves
the central results about the supervisor for every value of its constants. Paths
below are relative to `src/`. Section 1 says what the packaged product consists
of and which part of it the models reach.

## 1. The system

| Part | Sources | State | Operations | Talks to |
|---|---|---|---|---|
| Agent supervisor | `internal/agent` | the agent process, last-known-good (lkg) file, lease, restart counters | New, Apply, Tick, Stop, exit goroutine | agent process, runtime directory |
| Managed agent | `agent/main.go` | an embedded FRP client | verify, run | supervisor |
| Main loop | `internal/app/app.go`, `realtime.go` | `model.State`, sync signal, heartbeat snapshot | synchronize, tick, heartbeat, realtime loop, Enroll, AdoptRegistration | API, supervisor, state file |
| API client, WebSocket | `internal/api`, `internal/realtime` | session tokens, one connection | login, refresh, sync, heartbeat, read event | control center |
| State store | `internal/state` | `state.json`, credential vault | Load, Save | disk |
| Remote host service | `internal/remotehost` | the active session, generation, protected store | approve, stop, enable, revoke, Run, close acknowledgments | control center, engine |
| Native engine | `internal/remoteengine`, `native/remote` | worker process, pending calls, event queue | prepare, start, close, events | remote host |
| Controller side | `internal/remote` | window sessions, received files | focus, close, receive | GUI |
| Windows service host | `internal/windowshost` | Windows session machine | session events, worker supervision | operating system |
| GUI server | `internal/gui`, `internal/desktop` | local HTTP server, approval popup | local decisions | remote host, main loop |
| Tunnel helper | `cmd/homedesk-tunnel-helper` | its standard input and output | inspect, register, run | main loop, desktop |
| Desktop: tunnel runtime | `client/src/homedesk_tunnel_runtime.rs` | job, owner, serial, stopped owners, view | command, stop, status | tunnel helper, `state.json` |
| Desktop: account | `client/src/nestlink_auth.rs`, `nestlink_browser.rs` | login, tokens, permit | log in, refresh, revoke | control center, remote control |
| Desktop: remote control | `client/src/server/connection.rs` and most of `client/` | connections | host and controller | account, peers |

The packaged product is the desktop program of `client/` with a runtime directory
that `build/tunnel/build-runtime.py` fills: the agent, `homedesk-tunnel-helper` and
`nestlink-browser-helper`. `client/` is derived from RustDesk, but it is not only
upstream code: the `homedesk_*.rs` and `nestlink_*.rs` files (2,400 lines) are this
repository's own, and the rest is changed in places. The two halves meet in
`homedesk_tunnel_runtime.rs`, which verifies and spawns the tunnel helper on a state
path it chooses, kills its job or process group when a command, a stop or a lost
permission asks for it, and reads `agent_state` from the `state.json` that the
helper writes. The helper runs `app.Run` once and starts neither a GUI nor remote
control (`cmd/homedesk-tunnel-helper/main.go:1`). So `Supervisor` and `TunnelClient`
model what runs in that helper; to them the desktop is whoever starts Run and may
kill it at any point.

`internal/remotehost`, `internal/remoteengine`, `internal/windowshost` and
`internal/gui` belong to the releases before 13. They are compiled and tested, but
the packaging that ships `home-tunnel-gui` is under `docs/legacy/packaging`, which "no
current build or release workflow executes". The remote-desktop host of the current
product is `client/src/server/connection.rs`, whose connections end when the
account's permit is revoked (line 690). `RemoteHost` says nothing about that one.

The main goroutine of `Run` calls the supervisor; the supervisor starts one agent
and a goroutine that waits for it. A realtime goroutine wakes the main one
through a channel of capacity one and a heartbeat goroutine reads a snapshot of
its state. Inside home-tunnel-gui the remote host runs one `Run` loop, automatic
approvals in goroutines of their own, and local decisions of the GUI, of which stop
and disable do not queue behind the others.

What is hard here: an Apply that fails after it stopped the old agent; a
crash between two file operations; an agent that exits while it is being stopped;
configuration events that arrive during a synchronization; revocation while the
lease is still good; a remote session stopped while its approval is inside a call
to the native worker; events of one connection epoch that are read during the next;
proofs that are retried. `PROJECT.json` lists each hazard at its line.

What correct means: at most one agent, stopped when its lease ends; a restart finds
exactly the configuration that was promoted; nothing is lost between an event
and the configuration it announces; a revoked device stops for good; no media
that nobody would stop; no proof that media stopped while they run; a local
decision to close wins; every operation ends.

## 2. Modules

### Supervisor (`Supervisor.tla`, `MCSupervisor.tla`, `SupervisorProofs.tla`)

`operationMu` serialises New, Apply, Tick and Stop, so one operation is in flight:
`op` is its program counter with its locals. The exit goroutine, the agent,
the ticker, time, the cancelled context and a crash interleave between its steps.

| Variable | Code |
|---|---|
| `lkg`, `newest`, `pending` | `lkg-*.toml` with the lease inside, the file with the latest modification time, `pending-*.toml` |
| `lastKnownGood`, `leaseExpiry`, `applying`, `stopping`, restart counters | the fields of `Supervisor` |
| `process` | `processRecord`: set, live, its configuration, allow lists and lease |
| `cached`, `stored` | `CachedConnections` and lease of the state in memory and in `state.json` |
| `tick` | the age of the value that waits in the ticker's channel |

Apply is verify, stop the old agent, launch the trial, settle for three seconds,
rename (`ApplyPromote`), zero and remove the previous file (`ApplyZero`,
`ApplyRemove`), `ApplyCommit`; the failures go through `undo` and `ApplyRestore`.
New picks the newest lkg file and purges the others with the same two steps.
Times are kept relative to now (`Advance` ages all of them), which keeps the
state finite without a bound on the clock. A configuration is its version; its
allow lists are the sets `Need[v]`. The control center may give every Apply a lease
of another length (`Leases`), one that is over at once included.

Three history variables record how the deadline in memory and the promoted file
are related: `promoted` is the version promoted last, `current` says that the
deadline is that of the last promotion, and `synced` the same of the deadline in
`state.json`. They decide no step; only properties and proofs read them.

A crash takes the agent with it, as the Windows job object does and as the desktop
does when it kills the helper's process group. A helper that dies alone on another
system leaves its agent behind, since `process_other.go` does nothing; that is listed
as a hazard. A failing `os.Remove` is not modelled.

### TunnelClient (`TunnelClient.tla`, `MCTunnelClient.tla`)

`main` is the main goroutine with the locals of `synchronize`, `rt` the realtime
goroutine, `server` the control center, `disk` the state file and the lkg files in
the order of their modification. Start-up is discovery and login, each with its
own retry loop, `agent.New` and the first Tick. Every network call is a separate
begin and end, between which the others move; a synchronization is served
(`SyncServed`) before it is answered (`SyncAnswered`), so that the answer may be older
than what has been published since. The supervisor appears by what
`Supervisor.tla` shows of it: Apply commits, leaves the old agent alone or restores
it; Tick stops or restarts. Its file operations stay separate steps, the rename
(`ApplyPromotes`) and the two halves of `secureDelete` (`SecureDelete`), because a
crash between them is what the properties about the disk are about. A lease is
absent, good, low (under 15 minutes) or over, and ages.

### RemoteHost (`RemoteHost.tla`, `MCRemoteHost.tla`)

An action is what one goroutine does under one hold of `s.mu`, or one engine
call under `s.engineMu`. `appr[a]` is `approveSession`: load, install, prepare,
bind, decision, check, start, or the failure path with its rejection and its
deferred Stop. `stop[t]` is the progress of Stop in goroutine `t` (close, confirm,
report). `user[u]` is a local decision: stop, disable in its four steps, enable,
revoke a grant, disable the fixed password. `loop` is `Run` with its early returns
(`LoopRefused`), the key refresh before it connects and before it renews
(`KeysSame`, or `KeysChanged`, `KeysDisabled` and `KeysStop` when the control center
has been restored), its republication, reading of messages and events, tick and
renewal. Disabling, by whichever way, withdraws a persistent grant as well
(`Persistent` says which kind the grant is). `owed`
holds the acknowledgments of `close_ack.go`. The worker in `engine` and the control center
in `server` are modelled from how this code uses them, and from
`host_worker.cpp`.

One session of the control center (with growing connection epochs) and one grant
are modelled. The generation counter, which is only compared for equality, is the
set `fresh` of goroutines for which it still has the value they read. Left
out: the pending list (display only), peer messages, unattended access, the limit
of 64 acknowledgments and of 32 engine calls, and failing writes of the protected
store.

## 3. Runs

Each run is `tlc -config <cfg> <module>`; sizes are distinct states.

| Run | Configuration | Shows | Size |
|---|---|---|---|
| supervisor_safety | `MCSupervisor.cfg` | files, lease, counters and process stay consistent (6 properties) | 4.7 M |
| supervisor_liveness | `MCSupervisorLive.cfg` | `ExpiredAgentStops`, `ShutdownCompletes`, `ApplyReturns` | 69 k |
| client_safety | `MCTunnelClient.cfg` | `EventNotLost`, `ReportedIsPromoted`, `SavedIsPromoted`, `RevokedNotRestarted` | 648 k |
| client_liveness | `MCTunnelClientLive.cfg` | `RevokedStops`, `PublishedIsApplied` | 80 k |
| host_decisions | `MCRemoteHost.cfg` | `RevokedNotServed`, `DisabledStopsMedia` | 3.1 M |
| host_approvals | `MCRemoteHostApprovals.cfg` | `StopReachesWorker`, `DisabledStopsMedia` | 3.1 M |
| host_reconnect | `MCRemoteHostReconnect.cfg` | `NoOrphanMedia`, `ProofWhenStopped` | 3.1 M |
| host_liveness | `MCRemoteHostLive.cfg` | `LeasedStopFreesHost`, `ApprovalEnds` | 156 k |

The other four runs are expected to end with a counterexample (section 5).

Bounds, and why they suffice to meet the interesting cases:

- Supervisor: two versions give a previous and a next configuration in both orders,
  with allow lists that differ; leases of no, one and two units let a shorter one
  follow a longer one and the reverse, and one be over before it is used (the
  liveness run has none and two); two failures pass the limit of one, so the
  cooldown begins and ends; one crash falls between any two file operations. The
  proofs remove these bounds for what they cover.
- TunnelClient: two versions let an event announce a version during the
  synchronization of the other, and an answer be older than an event; one crash
  falls between any two of rename, overwriting, removal, save and report. The
  liveness run leaves out crashes and the realtime endpoint for its size.
- RemoteHost: the cost is in the product of goroutines, so three instances
  divide the interleavings: one approval against one local decision, two
  approvals against each other, and one approval over two epochs, two leases and
  two installed sessions; the signaling loop and worker failures are in all. A
  restored control center (`MayRestore`), which multiplies the states by up to four,
  is in host_approvals, host_liveness and the two runs of section 5, and a local
  disable in host_decisions, so both ways to disable the host are checked. The grant is
  persistent in host_decisions and host_approvals, where disabling withdraws it.
  `Approvers` is symmetric in the run with two; that run checks no
  liveness.
- `CHECK_DEADLOCK FALSE` only where there are no local users: with a dead worker
  and everything settled, nothing is left to happen.

Fairness, and its justification:

- Supervisor: the main goroutine is scheduled within an operation (`OpStep`), an
  agent that was interrupted exits (it is killed after eight seconds), the
  ticker fires and time passes. Tick and the done context have strong fairness
  because Go's `select` chooses at random among ready cases.
- TunnelClient: the main goroutine is scheduled and its timers fire. A call that is
  repeated is answered in the end and an Apply that is repeated does not fail for
  ever; the control center does not revoke sessions for ever. Nothing is assumed of
  the realtime channel, and nobody is assumed to start the client again: the GUI
  (`gui/server.go:162`), the helper and the desktop that spawned it
  (`homedesk_tunnel_runtime.rs:305`) all let it end. `PublishedIsApplied` is therefore
  about a Run that goes on.
- RemoteHost: calls of approvals, of Stop and of a key refresh have timeouts, time
  ends leases. Run is called again after errors as long as the store is enabled
  (`gui/remote.go:249`); after a change of keys only a local decision enables it.
  `FairSpec` asks nothing of the worker; `ReportingSpec` (used only for a
  counterexample, which it makes stronger) adds that its events are read.

Every property has a mutant: a definition next to the one it alters, such as
`StopDone_NoWait` or `LoopClosed_AnyEpoch`, with a plausible mistake under which
the property fails.

## 4. Proofs

`SupervisorProofs.tla`, about `Spec` of `Supervisor.tla`, for all constants that
satisfy `SupervisorAssumption` and `DelayAssumption` (the latter states that powers
of two up to `MaxShift` are bounded by the last one, which the provers do not know):

| Theorem | Statement |
|---|---|
| `TypeCorrect` | `[]TypeOK` |
| `LeaseSafety` | `[]LeaseCovered`: outside an operation the agent runs on exactly the lease at whose end Tick stops it, unless a crash or a failed save has left `state.json` behind the promoted file |
| `LkgFileUnique` | `[]OneLkgFile`: when idle, the lkg files are exactly the one on record |
| `LaunchSafety` | `LaunchUnopposed`: no agent is started beside another |
| `CooldownSafety` | `[]CooldownCurrent`: no end of a cooldown outlives the failures that began it |
| `ExitsUncounted` | `IntendedExitUncounted`: an exit on trial or on request is not booked as a restart failure |
| `SupervisorInvariant` | `[]IInv` |

None of these is inductive alone. `IInv` adds `DiskPart` (which files exist while
each step is next: only a promotion and start-up may see two), `LeasePart` (while
the deadline is `current`, it is the lease inside the lkg file on record, and
while it is `synced`, so is the one in `state.json`), `ApplyPart` (the locals of
Apply agree with the fields while the mutex is held) and `AgentPart` (at which
steps an agent may exist and in which mode). One lemma per part shows that each
action keeps it; `LeaseCovered` for restore then follows from
`op.leaseBefore = leaseExpiry`, and `LaunchUnopposed` from "no process while launch,
restore or purge is next". Nothing is assumed of the lengths of leases: a shorter
one may follow a longer one. What `current` leaves out is real. After a crash between
the rename and the save, New starts the promoted file with the deadline of the older
lease, so until the first Apply the agent is stopped by a deadline that is not its
own, earlier or later.

Only model-checked: everything about TunnelClient and RemoteHost; all liveness,
which the prover does not do.

## 5. Where code and text disagree

| Run | The text | What happens |
|---|---|---|
| supervisor_crash_in_delete | `supervisor.go:91` "only the newest one is ever used" | a crash in `secureDelete` makes the zeroed previous file the newest |
| client_poll_fallback | `app.go:294` the poll "stays as the fallback" | after a failed Apply, polls are told that nothing changed until the lease is low |
| host_busy_without_lease | `run.go:247` waiting "would keep the host busy" | a session stopped before it was prepared keeps the slot |
| host_republish_race | `remotehost/README.md:50` "Closing wins" | Run republishes an enabled mark it read before the disable |

Four more were met while modelling and have no run:

- `realtime.go:47` says "one device re-login"; the loop logs in again and dials at
  once as often as the handshake is refused.
- `remotehost/README.md:65` "Only native closed or verified process exit supplies a
  stopped acknowledgment": an undelivered proof with sequence zero is signed
  again, at `close_ack.go:243`, for the lease of a later approval of the same epoch
  (`NoProofForRunning`).
- `remotehost/README.md:63` "cannot close a replacement": the deferred Stop at
  `host.go:409` names no session and stops the active one (`FailureStopsOwn`).
- `remotehost/README.md:50` "Closing wins": `access.go:95` looks at the active session
  before the tombstones are written (`FixedRevokedNotServed`).

The last three are stated at the end of `RemoteHost.tla`; a configuration that
names one as an invariant or property reproduces it, with one approval and two
sessions for the first, two approvals for the second, and one approval and one
user for the third.

## 6. Not modelled, and the plan

Text processing (validation of configurations, encodings, signatures), WebRTC
media, capture and input, window-system and Win32 calls and entry points are left
out: I/O or data without control that a model would add to. `PROJECT.json` gives the
reason for each part.

None of `client/` is modelled. That is a gap, not a judgement that there is nothing
to check: the tunnel runtime (owner, serial and stop against the thread that spawns
the helper) and the account (permit and revocation against logins and refreshes)
are small and concurrent, and they are the next candidates. The remote-control code
proper, 145,000 lines of Rust and 97,000 of Dart, is out of reach as a whole.

Next, in this order:

1. `CloseAck`: debt that outlives a crash and a replacement Service, the limit of 64,
   failing writes.
2. `AgentHost`: an abstract specification of what the supervisor promises the main
   loop, implemented by `Supervisor` (refinement) and used by `TunnelClient`.
3. `EngineQueue`: the bounded, coalescing event queue and the call table of the
   engine adapter.
4. `StateStore`: load, merge and replace of `state.json`, Enroll and adoption.
   `ApiSession`: token refresh against lost answers.
5. `DesktopMachine`, `SessionManager`, `FileReceiver`; then access, pairing and
   keyset verification of the remote host, and the GUI's account change.
6. Proofs: the invariants of `TunnelClient`, `StopReachesWorker` and `NoOrphanMedia` of `RemoteHost`, and the
   refinement.

Planned runs: `AgentHost` is a property of supervisor_safety and needs none of its
own. `CloseAck` takes two sessions, one crash and a limit of two; `EngineQueue` two
transfers and limits of two; `StateStore` two writers and one crash;
`DesktopMachine` two Windows sessions. Each is one run of its own, since none shares
state with another; host_approvals gives way to host_decisions where a run is
better spent on a new part.
