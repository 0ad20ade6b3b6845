----------------------------- MODULE Supervisor -----------------------------
(***************************************************************************)
(* The agent supervisor (internal/agent/supervisor.go): it applies the     *)
(* configurations the control center sends by running the managed FRP      *)
(* agent on them, keeps the last configuration that worked in a            *)
(* last-known-good file, restarts an agent that dies, and stops it when    *)
(* its lease runs out.  Apply, Tick and Stop run one at a time on the main *)
(* goroutine; the goroutine that waits for the agent process, the agent    *)
(* itself, the clock and a crash of the client interleave with their steps.*)
(*                                                                         *)
(* Every point in time is kept as the time left until it, so that Advance  *)
(* lets one unit pass by ageing all of them.  Ageing ends at -TickAge, the *)
(* oldest supervisor tick that the model tells apart.                      *)
(***************************************************************************)
EXTENDS Integers, FiniteSets

CONSTANTS
    Versions,             \* configuration versions, positive numbers
    Entries,              \* custom domains and remote ports a configuration may use
    Need,                 \* Need[v]: the entries the connections of version v use
    Leases,               \* what a lease may have left when a response brings it
    LeaseMargin,          \* Apply and restore want at least this much (one minute)
    RestartFailureLimit,  \* restartFailureLimit
    RestartCooldown,      \* restartCooldown
    MaxShift,             \* largest exponent of the restart delay (5 in the code)
    TickAge,              \* bound: age of a tick that waited in the ticker channel
    MaxFailures,          \* bound: more restart failures in a row are not told apart
    MaxCrashes,           \* bound: crashes of the client process
    NoTime                \* the zero time.Time

ASSUME SupervisorAssumption ==
    /\ Versions \subseteq Nat \ {0}
    /\ Need \in [Versions \cup {0} -> SUBSET Entries] /\ Need[0] = {}
    /\ Leases \subseteq Int /\ LeaseMargin \in Int
    /\ RestartFailureLimit \in Nat /\ RestartCooldown \in Nat \ {0}
    /\ MaxShift \in Nat /\ TickAge \in Nat /\ MaxCrashes \in Nat
    /\ MaxFailures \in Nat /\ MaxFailures > RestartFailureLimit /\ MaxFailures >= MaxShift
    /\ NoTime \notin Int

\* What the proofs need to know of the restart delays.
ASSUME DelayAssumption ==
    \A n \in 0 .. MaxShift : 2 ^ n \in Nat /\ 2 ^ n <= 2 ^ MaxShift

VARIABLES
    lkg,              \* runtimeDir: the lkg-<version>.toml files
    newest,           \* the version whose lkg file was modified last, 0 for none
    pending,          \* a pending-*.toml file of the Apply in flight exists
    lastKnownGood,    \* Supervisor.lastKnownGood as a version, 0 for ""
    leaseExpiry,      \* Supervisor.leaseExpiry, and State.LeaseExpiresAt with it
    allowed,          \* the version the allow lists were collected from
    process,          \* Supervisor.process and the agent behind it
    stopping, applying,
    restartFailures, nextRestart,
    cooldownEnds,     \* restartGaveUpAt + restartCooldown
    op,               \* the operation on the main goroutine and its locals
    cached,           \* the version of State.CachedConnections
    stored,           \* LeaseExpiresAt and CachedConnections in state.json
    cancelled,        \* the context of Run is done
    tick,             \* age of the tick waiting in supervisorTicker.C, -1 for none
    crashes,          \* crashes so far
    promoted,         \* history: the version Apply promoted last
    synced,           \* history: state.json was saved after that promotion
    current           \* history: leaseExpiry comes from that promotion

disk == <<lkg, newest, pending>>
restarts == <<restartFailures, nextRestart, cooldownEnds>>
agent == <<process, stopping, applying>>
world == <<cached, stored, cancelled, crashes>>
history == <<promoted, synced, current>>
vars == <<disk, lastKnownGood, leaseExpiry, allowed, agent, restarts, op, world,
          tick, history>>

-----------------------------------------------------------------------------
(* Data *)

Time == Int \cup {NoTime}
File == [there: BOOLEAN, readable: BOOLEAN, lease: Time]
NoFile == [there |-> FALSE, readable |-> FALSE, lease |-> NoTime]
Agent == [set: BOOLEAN, live: BOOLEAN, version: Nat, readable: BOOLEAN,
          lease: Time, allow: Nat]
NoAgent == [set |-> FALSE, live |-> FALSE, version |-> 0, readable |-> FALSE,
            lease |-> NoTime, allow |-> 0]
Steps == {"down", "purge", "idle", "verify", "halt", "launch", "settle", "promote",
          "scrub", "commit", "undo", "restore", "stop"}
Op == [step: Steps, version: Nat, lease: Time, lkg: Nat, leaseBefore: Time, allow: Nat]
At(s) == [step |-> s, version |-> 0, lease |-> NoTime, lkg |-> 0,
          leaseBefore |-> NoTime, allow |-> 0]

\* A deadline after one more unit of time.
Age(t) == IF t = NoTime \/ t = -TickAge THEN t ELSE t - 1
\* t.Before(time.Now().Add(time.Minute)); the zero time is before any other.
Short(t) == t = NoTime \/ t < LeaseMargin
Min2(m, n) == IF m < n THEN m ELSE n
\* Mutant: the exponent is not capped.
Delay_Uncapped(n) == 2 ^ n
\* 1 << min(restartFailures, 5) seconds.
Delay(n) == 2 ^ Min2(n, MaxShift)

LkgFiles == {v \in Versions : lkg[v].there}
\* validateManagedSurface and loadManagedConfig: what the agent runs on.
Accepts(p) == p.readable /\ Need[p.version] \subseteq Need[p.allow]

Init ==
    /\ lkg = [v \in Versions |-> NoFile] /\ newest = 0 /\ pending = FALSE
    /\ lastKnownGood = 0 /\ leaseExpiry = NoTime /\ allowed = 0
    /\ process = NoAgent /\ stopping = FALSE /\ applying = FALSE
    /\ restartFailures = 0 /\ nextRestart = -TickAge /\ cooldownEnds = NoTime
    /\ op = At("down") /\ cached = 0
    /\ stored = [lease |-> NoTime, version |-> 0]
    /\ cancelled = FALSE /\ tick = -1 /\ crashes = 0 /\ promoted = 0
    /\ synced = TRUE /\ current = FALSE

-----------------------------------------------------------------------------
(* The agent process and the goroutine of start that waits for it *)

\* The agent gives up: it refuses its configuration, or fails at any time.
AgentExit ==
    /\ process.live
    /\ process' = [process EXCEPT !.live = FALSE]
    /\ UNCHANGED <<disk, lastKnownGood, leaseExpiry, allowed, stopping, applying,
                   restarts, op, world, tick, history>>

\* command.Wait returned: clear the record and book an unexpected exit.
Reap ==
    /\ process.set /\ ~process.live
    /\ process' = NoAgent /\ applying' = FALSE
    /\ IF stopping \/ applying
       THEN UNCHANGED restarts
       ELSE /\ restartFailures' = Min2(restartFailures + 1, MaxFailures)
            /\ nextRestart' = Delay(restartFailures + 1)
            /\ UNCHANGED cooldownEnds
    /\ UNCHANGED <<disk, lastKnownGood, leaseExpiry, allowed, stopping, op, world,
                   tick, history>>

\* start(path of version v, flag) once command.Start succeeded.
Launched(v, readable, lease, flag) ==
    /\ process' = [set |-> TRUE, live |-> TRUE, version |-> v, readable |-> readable,
                   lease |-> lease, allow |-> allowed]
    /\ applying' = flag

\* Mutant: the agent is not signalled.
Halt_NoSignal(s) ==
    /\ op' = [op EXCEPT !.step = s]
    /\ applying' = FALSE /\ UNCHANGED <<process, stopping>>

\* The first half of stopProcess: the record is read and the agent signalled.
\* The goroutine moves to step s, where StopDone waits for record.done.
Halt(s) ==
    /\ op' = [op EXCEPT !.step = s]
    /\ IF process.set
       THEN stopping' = TRUE /\ UNCHANGED <<process, applying>>
       ELSE applying' = FALSE /\ UNCHANGED <<process, stopping>>

-----------------------------------------------------------------------------
(* Apply *)

\* Entry to Apply with the response for version v and a lease with l left.  With
\* a short lease the agent is stopped; an unusable agent binary, a CA file that
\* cannot be written or a configuration that cannot be rendered change nothing.
ApplyBegin(v, l) ==
    /\ op.step = "idle" /\ ~cancelled
    /\ cached' = v
    /\ \/ l < LeaseMargin /\ Halt("stop")
          /\ UNCHANGED <<disk, allowed>>
       \/ l >= LeaseMargin
          /\ UNCHANGED <<disk, allowed, op, agent>>
       \/ l >= LeaseMargin
          /\ allowed' = v /\ pending' = TRUE
          /\ op' = [step |-> "verify", version |-> v, lease |-> l, lkg |-> lastKnownGood,
                    leaseBefore |-> leaseExpiry, allow |-> allowed]
          /\ UNCHANGED <<lkg, newest, agent>>
    /\ UNCHANGED <<lastKnownGood, leaseExpiry, restarts, stored, cancelled, crashes,
                   tick, history>>

\* The deferred functions of Apply on an error return: the pending file is
\* deleted first, the previous allow lists come back last.
GiveUp ==
    /\ pending' = FALSE /\ allowed' = op.allow /\ op' = At("idle")
    /\ UNCHANGED <<lkg, newest>>

\* The verify run of the agent accepts the pending file, and stopProcess begins.
ApplyVerified ==
    /\ op.step = "verify"
    /\ Halt("halt")
    /\ UNCHANGED <<disk, lastKnownGood, leaseExpiry, allowed, restarts, world, tick,
                   history>>

\* The verify run fails, times out, or is cancelled: the old agent is not touched.
ApplyRejected ==
    /\ op.step = "verify"
    /\ GiveUp
    /\ UNCHANGED <<lastKnownGood, leaseExpiry, agent, restarts, world, tick, history>>

\* start(pending, true); when command.Start fails the previous agent comes back.
Trial(flag) ==
    /\ op.step = "launch"
    /\ \/ Launched(op.version, TRUE, op.lease, flag) /\ op' = [op EXCEPT !.step = "settle"]
       \/ op' = [op EXCEPT !.step = "restore"] /\ UNCHANGED <<process, applying>>
    /\ UNCHANGED <<disk, lastKnownGood, leaseExpiry, allowed, stopping, restarts, world,
                   tick, history>>

\* Mutant: the trial run is not marked as one.
ApplyStart_NotApplying == Trial(FALSE)
ApplyStart == Trial(TRUE)

\* record.done arrives before the three seconds are over.
ApplyExited ==
    /\ op.step = "settle" /\ ~process.set
    /\ op' = [op EXCEPT !.step = "restore"]
    /\ UNCHANGED <<disk, lastKnownGood, leaseExpiry, allowed, agent, restarts, world,
                   tick, history>>

\* ctx.Done wins the select, or os.Rename fails: stop the new agent, then restore.
ApplyAbandoned ==
    /\ op.step = "promote" \/ (op.step = "settle" /\ cancelled)
    /\ Halt("undo")
    /\ UNCHANGED <<disk, lastKnownGood, leaseExpiry, allowed, restarts, world, tick,
                   history>>

\* The three seconds are over with no exit seen.
ApplySettled ==
    /\ op.step = "settle"
    /\ op' = [op EXCEPT !.step = "promote"]
    /\ UNCHANGED <<disk, lastKnownGood, leaseExpiry, allowed, agent, restarts, world,
                   tick, history>>

\* secureDelete, first half: the file is overwritten with zeroes, which makes it
\* the file modified last.
Zero(v, s) ==
    /\ lkg' = [lkg EXCEPT ![v].readable = FALSE] /\ newest' = v
    /\ op' = [op EXCEPT !.step = s, !.lkg = v]

\* secureDelete, second half: os.Remove.
Remove(v) ==
    /\ lkg' = [lkg EXCEPT ![v] = NoFile]
    /\ newest' \in IF LkgFiles \ {v} = {} THEN {0} ELSE LkgFiles \ {v}

\* os.Rename(pending, lkg) succeeds; the new file is the one modified last.
Promote(s) ==
    /\ op.step = "promote"
    /\ lkg' = [lkg EXCEPT ![op.version] = [there |-> TRUE, readable |-> TRUE,
                                           lease |-> op.lease]]
    /\ newest' = op.version /\ pending' = FALSE
    /\ promoted' = op.version /\ synced' = FALSE /\ current' = FALSE
    /\ op' = [op EXCEPT !.step = s]
    /\ UNCHANGED <<lastKnownGood, leaseExpiry, allowed, agent, restarts, world, tick>>

\* Mutant: the previous file is not deleted.
ApplyPromote_KeepsPrevious == Promote("commit")
ApplyPromote == Promote(IF op.lkg \in {0, op.version} THEN "commit" ELSE "scrub")

\* secureDelete(previousConfig) in its two halves.
ApplyZero ==
    /\ op.step = "scrub" /\ lkg[op.lkg].readable
    /\ Zero(op.lkg, "scrub")
    /\ UNCHANGED <<pending, lastKnownGood, leaseExpiry, allowed, agent, restarts, world,
                   tick, history>>

ApplyRemove ==
    /\ op.step = "scrub" /\ ~lkg[op.lkg].readable
    /\ Remove(op.lkg)
    /\ op' = [op EXCEPT !.step = "commit"]
    /\ UNCHANGED <<pending, lastKnownGood, leaseExpiry, allowed, agent, restarts, world,
                   tick, history>>

\* The block under mu that makes the new configuration the supervisor's own.
Commit(cooldown) ==
    /\ op.step = "commit"
    /\ lastKnownGood' = op.version /\ leaseExpiry' = op.lease
    /\ restartFailures' = 0 /\ nextRestart' = -TickAge /\ cooldownEnds' = cooldown
    /\ applying' = FALSE /\ op' = At("idle") /\ current' = TRUE
    /\ UNCHANGED <<disk, allowed, process, stopping, world, tick, promoted, synced>>

\* Mutant: restartGaveUpAt is not reset.
ApplyCommit_KeepsGaveUp == Commit(cooldownEnds)
ApplyCommit == Commit(NoTime)

\* restore(previousConfig, previousLease) and the error return of Apply.  The
\* previous agent is started before the deferred functions run, so with the
\* allow lists of the configuration that failed.
Restore(lease) ==
    /\ op.step = "restore"
    /\ GiveUp
    /\ \/ /\ op.lkg # 0 /\ ~Short(op.leaseBefore) /\ lkg[op.lkg].there
          /\ Launched(op.lkg, lkg[op.lkg].readable, lkg[op.lkg].lease, FALSE)
          /\ lastKnownGood' = op.lkg /\ leaseExpiry' = lease
       \/ UNCHANGED <<process, applying, lastKnownGood, leaseExpiry>>
    /\ UNCHANGED <<stopping, restarts, world, tick, history>>

\* Mutant: the previous agent is restored under the new lease.
ApplyRestore_NewLease == Restore(op.lease)
ApplyRestore == Restore(op.leaseBefore)

-----------------------------------------------------------------------------
(* stopProcess, Tick and Stop *)

\* The rest of StopDone, once it need not wait.
StopReturns ==
    /\ op.step \in {"halt", "undo", "stop"}
    /\ stopping' = FALSE /\ applying' = FALSE
    /\ op' = IF op.step = "stop" THEN At("idle")
             ELSE [op EXCEPT !.step = IF op.step = "halt" THEN "launch" ELSE "restore"]
    /\ UNCHANGED <<disk, lastKnownGood, leaseExpiry, allowed, process, restarts, world,
                   tick, history>>

\* Mutant: stopProcess returns without waiting for record.done.
StopDone_NoWait == StopReturns
\* Mutant: stopProcess waits for record.done even when there is no record.
StopDone_NilRecord == stopping /\ ~process.set /\ StopReturns

\* record.done arrived, if there was a record to wait for.
StopDone == (stopping => ~process.set) /\ StopReturns

\* One supervisorTicker value reaches Tick.  Its time lies "tick" units back.
TickBegin == op.step = "idle" /\ tick >= 0 /\ tick' = -1
\* Mutant: a running agent is found Online before the lease is looked at.
Expired_RunningFirst == leaseExpiry # NoTime /\ leaseExpiry + tick <= 0 /\ ~process.set
Expired == leaseExpiry # NoTime /\ leaseExpiry + tick <= 0
CanRestart == ~Expired /\ ~process.set /\ lastKnownGood # 0 /\ leaseExpiry # NoTime

TickExpired ==
    /\ TickBegin /\ Expired
    /\ Halt("stop")
    /\ UNCHANGED <<disk, lastKnownGood, leaseExpiry, allowed, restarts, world, history>>

\* Online or Offline: the agent is running, or there is nothing to run.
TickNothing ==
    /\ TickBegin /\ ~Expired /\ ~CanRestart
    /\ UNCHANGED <<disk, lastKnownGood, leaseExpiry, allowed, agent, restarts, op, world,
                   history>>

\* The restart limit is exceeded: begin the cooldown, or go on waiting for its end.
TickCooldown ==
    /\ TickBegin /\ CanRestart /\ restartFailures > RestartFailureLimit
    /\ IF cooldownEnds = NoTime
       THEN cooldownEnds' = RestartCooldown - tick
       ELSE cooldownEnds + tick > 0 /\ UNCHANGED cooldownEnds
    /\ UNCHANGED <<disk, lastKnownGood, leaseExpiry, allowed, agent, restartFailures,
                   nextRestart, op, world, history>>

\* The limit is not exceeded, or its cooldown is over and the counters start
\* afresh.  When the restart is due (the test uses the value nextRestart had on
\* entry) the agent starts or command.Start fails.  Otherwise, and when the
\* agent binary does not pass inspectAgent, nothing is started.
TickRestart ==
    LET fresh == restartFailures > RestartFailureLimit
        failures == IF fresh THEN 0 ELSE restartFailures
        due == nextRestart + tick <= 0
        kept == IF fresh THEN -TickAge ELSE nextRestart
    IN  /\ TickBegin /\ CanRestart
        /\ fresh => cooldownEnds # NoTime /\ cooldownEnds + tick <= 0
        /\ \/ /\ due
              /\ Launched(lastKnownGood, lkg[lastKnownGood].readable,
                          lkg[lastKnownGood].lease, FALSE)
              /\ restartFailures' = failures /\ nextRestart' = kept
           \/ /\ due
              /\ restartFailures' = failures + 1 /\ nextRestart' = Delay(failures + 1)
              /\ UNCHANGED <<process, applying>>
           \/ /\ restartFailures' = failures /\ nextRestart' = kept
              /\ UNCHANGED <<process, applying>>
        /\ cooldownEnds' = IF fresh THEN NoTime ELSE cooldownEnds
        /\ UNCHANGED <<disk, lastKnownGood, leaseExpiry, allowed, stopping, op, world,
                       history>>

\* Stop, as Run calls it when the device is revoked or its context is done.
Stop ==
    /\ op.step = "idle"
    /\ Halt("stop")
    /\ UNCHANGED <<disk, lastKnownGood, leaseExpiry, allowed, restarts, world, tick,
                   history>>

-----------------------------------------------------------------------------
(* The caller, the clock, and crashes *)

\* saveState after an operation; when store.Save fails the file keeps its content.
SaveState ==
    /\ op.step = "idle"
    /\ stored' = [lease |-> leaseExpiry, version |-> cached] /\ synced' = current
    /\ UNCHANGED <<disk, lastKnownGood, leaseExpiry, allowed, agent, restarts, op, cached,
                   cancelled, crashes, tick, promoted, current>>

Cancel ==
    /\ op.step # "down" /\ cancelled' = TRUE
    /\ UNCHANGED <<disk, lastKnownGood, leaseExpiry, allowed, agent, restarts, op, cached,
                   stored, crashes, tick, history>>

\* What the process that ends takes with it.
Forget ==
    /\ op' = At("down") /\ process' = NoAgent /\ stopping' = FALSE /\ applying' = FALSE
    /\ lastKnownGood' = 0 /\ leaseExpiry' = NoTime /\ allowed' = 0 /\ cached' = 0
    /\ restartFailures' = 0 /\ nextRestart' = -TickAge /\ cooldownEnds' = NoTime
    /\ cancelled' = FALSE /\ tick' = -1 /\ current' = FALSE
    /\ UNCHANGED <<disk, promoted>>

\* Run returns once Stop has returned on a done context.
Exit ==
    /\ op.step = "idle" /\ cancelled /\ ~process.set
    /\ Forget /\ UNCHANGED crashes
    /\ \/ stored' = [lease |-> leaseExpiry, version |-> cached] /\ synced' = current
       \/ UNCHANGED <<stored, synced>>

\* The client dies between any two steps, its agent with it (the job object of
\* process_windows.go, the control group of the service elsewhere).
Crash ==
    /\ op.step # "down" /\ crashes < MaxCrashes
    /\ crashes' = crashes + 1
    /\ Forget /\ UNCHANGED <<stored, synced>>

\* New: adopt the lkg file modified last, and delete the others one by one.
New ==
    /\ op.step = "down"
    /\ leaseExpiry' = stored.lease /\ allowed' = stored.version /\ cached' = stored.version
    /\ lastKnownGood' = newest /\ current' = synced
    /\ op' = At("purge")
    /\ UNCHANGED <<disk, agent, restarts, stored, cancelled, crashes, tick, promoted, synced>>

NewZero ==
    /\ op.step = "purge"
    /\ \E v \in LkgFiles \ {lastKnownGood} : lkg[v].readable /\ Zero(v, "purge")
    /\ UNCHANGED <<pending, lastKnownGood, leaseExpiry, allowed, agent, restarts, world,
                   tick, history>>

NewRemove ==
    /\ op.step = "purge"
    /\ \E v \in LkgFiles \ {lastKnownGood} : ~lkg[v].readable /\ Remove(v)
    /\ UNCHANGED <<pending, lastKnownGood, leaseExpiry, allowed, agent, restarts, op, world,
                   tick, history>>

NewDone ==
    /\ op.step = "purge" /\ LkgFiles \subseteq {lastKnownGood}
    /\ op' = At("idle")
    /\ tick' = IF leaseExpiry = NoTime THEN -1 ELSE 0
    /\ UNCHANGED <<disk, lastKnownGood, leaseExpiry, allowed, agent, restarts, world,
                   history>>

\* supervisorTicker fires; the channel keeps the first tick nobody has taken.
TickerFires ==
    /\ op.step # "down" /\ tick = -1
    /\ tick' = 0
    /\ UNCHANGED <<disk, lastKnownGood, leaseExpiry, allowed, agent, restarts, op, world,
                   history>>

\* One unit of time passes.
Advance ==
    /\ tick < TickAge
    /\ lkg' = [v \in Versions |-> [lkg[v] EXCEPT !.lease = Age(@)]]
    /\ leaseExpiry' = Age(leaseExpiry)
    /\ process' = [process EXCEPT !.lease = Age(@)]
    /\ nextRestart' = Age(nextRestart) /\ cooldownEnds' = Age(cooldownEnds)
    /\ op' = [op EXCEPT !.lease = Age(@), !.leaseBefore = Age(@)]
    /\ stored' = [stored EXCEPT !.lease = Age(@)]
    /\ tick' = IF tick = -1 THEN -1 ELSE tick + 1
    /\ UNCHANGED <<newest, pending, lastKnownGood, allowed, stopping, applying,
                   restartFailures, cached, cancelled, crashes, history>>

Next ==
    \/ AgentExit \/ Reap
    \/ \E v \in Versions, l \in Leases : ApplyBegin(v, l)
    \/ ApplyVerified \/ ApplyRejected \/ ApplyStart \/ ApplyExited \/ ApplyAbandoned
    \/ ApplySettled \/ ApplyPromote \/ ApplyZero \/ ApplyRemove \/ ApplyCommit
    \/ ApplyRestore
    \/ StopDone \/ TickExpired \/ TickNothing \/ TickCooldown \/ TickRestart \/ Stop
    \/ SaveState \/ Cancel \/ Exit \/ Crash
    \/ New \/ NewZero \/ NewRemove \/ NewDone
    \/ TickerFires \/ Advance

Spec == Init /\ [][Next]_vars

\* An agent that refuses its configuration exits, and so does one that has been
\* interrupted (and killed after eight seconds).
AgentMustExit == AgentExit /\ (stopping \/ ~Accepts(process))
\* The main goroutine never stays between two steps of an operation.
OpStep ==
    \/ ApplyVerified \/ ApplyRejected \/ ApplyStart \/ ApplyExited \/ ApplyAbandoned
    \/ ApplySettled \/ ApplyPromote \/ ApplyZero \/ ApplyRemove \/ ApplyCommit
    \/ ApplyRestore \/ StopDone \/ NewZero \/ NewRemove \/ NewDone
TickStep == TickExpired \/ TickNothing \/ TickCooldown \/ TickRestart

\* select takes a waiting tick sooner or later, however often Apply runs as well;
\* once the context is done it takes that case sooner or later.
Fairness ==
    /\ WF_vars(AgentMustExit) /\ WF_vars(Reap) /\ WF_vars(OpStep)
    /\ WF_vars(TickerFires) /\ WF_vars(Advance) /\ SF_vars(TickStep)
    /\ SF_vars(cancelled /\ process.set /\ Stop) /\ SF_vars(Exit)
FairSpec == Spec /\ Fairness

-----------------------------------------------------------------------------
(* Properties *)

\* The type of every variable.
TypeOK ==
    /\ lkg \in [Versions -> File] /\ newest \in Versions \cup {0}
    /\ pending \in BOOLEAN /\ lastKnownGood \in Versions \cup {0}
    /\ leaseExpiry \in Time /\ allowed \in Versions \cup {0}
    /\ process \in Agent /\ stopping \in BOOLEAN /\ applying \in BOOLEAN
    /\ restartFailures \in 0 .. MaxFailures /\ cooldownEnds \in Time
    /\ nextRestart \in -TickAge .. 2 ^ MaxShift
    /\ op \in Op /\ cached \in Versions \cup {0}
    /\ stored \in [lease: Time, version: Versions \cup {0}]
    /\ cancelled \in BOOLEAN /\ tick \in -1 .. TickAge /\ crashes \in 0 .. MaxCrashes
    /\ promoted \in Versions \cup {0} /\ synced \in BOOLEAN /\ current \in BOOLEAN

\* Whatever crashes interrupted, the supervisor that Run drives owns exactly one
\* last-known-good file, the one Tick and restore will start the agent on: Apply
\* and New leave no other file with a lease token behind.
OneLkgFile == op.step = "idle" => LkgFiles = {lastKnownGood} \ {0}

\* The steps between which the supervisor's own record is the one in force.
Settled == op.step \in {"idle", "stop", "verify", "halt"}

\* Outside the trial run of Apply the agent runs on exactly the lease at whose end
\* Tick stops it, whatever leases follow each other and whatever Apply fails at:
\* a restore or a restart never pairs one lease's file with another's deadline.
\* The exception is a process that started on a state.json older than the last
\* promotion, because of a crash or a failed save in between: until its first
\* Apply it goes by the deadline of the older lease.
LeaseCovered ==
    Settled /\ process.set /\ current =>
        leaseExpiry # NoTime /\ process.lease = leaseExpiry

\* The last-known-good file is the configuration that was promoted last, also
\* after a crash (comment in New: "only the newest one is ever used").
NewestUsed == op.step = "idle" => lastKnownGood = promoted

\* An agent is started only when the previous one is gone: the "agent process is
\* already running" branch of start is never taken.
LaunchUnopposed ==
    [][process.set /\ process'.set =>
         process'.version = process.version /\ process'.allow = process.allow]_vars

\* An agent that exits on trial in Apply, or because stopProcess ended it, is not
\* booked as a restart failure.
IntendedExitUncounted ==
    [][op.step \in {"settle", "promote", "scrub", "commit"} \/ stopping =>
         restartFailures' <= restartFailures]_vars

\* No end of a cooldown is left over from an earlier series of failures: it would
\* cut the next pause short, or let Tick restart the agent without any pause.  A
\* failed Apply leaves the counters to the configuration it restores.
CooldownCurrent ==
    cooldownEnds # NoTime =>
        cooldownEnds <= RestartCooldown /\ restartFailures > RestartFailureLimit

\* Once the lease is over, Tick stops the agent or Apply brings a new lease.
ExpiredAgentStops ==
    LET over == leaseExpiry # NoTime /\ leaseExpiry <= 0
    IN  (process.live /\ over) ~> (~process.live \/ ~over)

\* A done context ends Run with the agent stopped, whatever operation it meets.
ShutdownCompletes == cancelled ~> (op.step = "down" /\ ~process.set)

\* Apply returns: no outcome of its trial run leaves it waiting for the agent.
ApplyReturns == op.step = "verify" ~> op.step \in {"idle", "down"}
-----------------------------------------------------------------------------
(* The inductive invariant behind OneLkgFile, LeaseCovered and the two action
   properties *)

\* The files on disk while each step is next.
DiskPart ==
    /\ newest \in LkgFiles \cup {0} /\ (newest = 0 => LkgFiles = {})
    /\ op.step = "purge" => /\ lastKnownGood \in LkgFiles \cup {0}
                            /\ lastKnownGood = 0 => LkgFiles = {}
    /\ op.step \notin {"down", "purge", "scrub", "commit"} =>
          LkgFiles = {lastKnownGood} \ {0}
    /\ op.step = "scrub" => /\ op.lkg \in Versions \ {op.version}
                            /\ LkgFiles = {op.lkg, op.version}
    /\ op.step = "commit" => LkgFiles = {op.version}

\* Every file has a lease: the one in state.json when that was saved after the
\* last promotion, and the deadline in memory when that comes from it.
LeasePart ==
    /\ \A v \in LkgFiles : lkg[v].lease # NoTime
    /\ synced => \A v \in LkgFiles : lkg[v].lease = stored.lease
    /\ current => \A v \in LkgFiles : lkg[v].lease = leaseExpiry

\* The locals of Apply while it runs.
ApplyPart ==
    op.step \notin {"down", "purge", "idle", "stop"} =>
        /\ op.version \in Versions /\ op.allow \in Versions \cup {0}
        /\ op.lkg = lastKnownGood /\ op.leaseBefore = leaseExpiry
        /\ op.lease # NoTime
        /\ op.step \in {"scrub", "commit"} =>
              lkg[op.version].lease = op.lease /\ ~synced /\ ~current

\* The agent while each step is next.
AgentPart ==
    /\ op.step \in {"down", "purge", "launch", "restore"} => ~process.set
    /\ op.step \in {"halt", "undo", "stop"} /\ process.set => stopping
    /\ stopping => op.step \in {"halt", "undo", "stop"}
    /\ op.step \in {"settle", "promote", "scrub", "commit"} /\ process.set =>
          applying /\ process.lease = op.lease
    /\ process.live => process.set

\* The conjunction of the parts is preserved by every step.
IInv == TypeOK /\ DiskPart /\ LeasePart /\ ApplyPart /\ AgentPart /\ LeaseCovered

=============================================================================
