-------------------------- MODULE SupervisorProofs --------------------------
(***************************************************************************)
(* Proofs about Supervisor for every value of its constants.  IInv is      *)
(* shown inductive one part at a time: each lemma below takes one part     *)
(* through every action, with one step per action that can disturb it and  *)
(* one step for all the actions that leave the variables it reads alone.   *)
(***************************************************************************)
EXTENDS Supervisor, TLAPS

-----------------------------------------------------------------------------
(* The types of the values the actions put together *)

\* The restart delays lie in the range TypeOK gives nextRestart.
LEMMA DelayType ==
    /\ -TickAge \in -TickAge .. 2 ^ MaxShift
    /\ \A n \in Nat : Delay(n) \in -TickAge .. 2 ^ MaxShift
<1>1. 2 ^ MaxShift \in Nat
  BY SupervisorAssumption, DelayAssumption
<1>2. \A n \in Nat : Delay(n) \in 0 .. 2 ^ MaxShift
  BY <1>1, SupervisorAssumption, DelayAssumption DEF Delay, Min2
<1>. QED  BY <1>1, <1>2, SupervisorAssumption

\* Ageing keeps a deadline a deadline.
LEMMA AgeType == \A t \in Time : Age(t) \in Time
BY SupervisorAssumption DEF Age, Time

\* Ageing does not turn a deadline into none.
LEMMA AgeSet == \A t \in Time : t # NoTime => Age(t) # NoTime
BY SupervisorAssumption DEF Age, Time

\* A goroutine between operations holds no locals.
LEMMA AtType == \A s \in Steps : At(s) \in Op
BY SupervisorAssumption DEF At, Op, Time

\* The first half of stopProcess keeps the types of what it touches.
LEMMA HaltType ==
    ASSUME TypeOK, NEW s \in Steps, Halt(s)
    PROVE  op' \in Op /\ process' \in Agent /\ stopping' \in BOOLEAN /\ applying' \in BOOLEAN
<1>1. op' \in Op
  BY DEF TypeOK, Halt, Op
<1>2. process' \in Agent /\ stopping' \in BOOLEAN /\ applying' \in BOOLEAN
  BY Zenon DEF TypeOK, Halt
<1>. QED  BY <1>1, <1>2

\* start makes a process record.
LEMMA LaunchedType ==
    ASSUME NEW v \in Versions, NEW r \in BOOLEAN, NEW l \in Time, NEW f \in BOOLEAN,
           Launched(v, r, l, f), TypeOK
    PROVE  process' \in Agent /\ applying' \in BOOLEAN
BY SupervisorAssumption DEF TypeOK, Launched, Agent

\* The error return of Apply restores the allow lists it found.
LEMMA GiveUpType ==
    ASSUME TypeOK, ApplyPart, op.step \in {"restore", "verify"}, GiveUp
    PROVE  pending' \in BOOLEAN /\ allowed' \in Versions \cup {0} /\ op' \in Op
BY AtType, Zenon DEF TypeOK, ApplyPart, GiveUp, Steps

\* The end of the client process leaves well-typed initial values.
LEMMA ForgetType ==
    ASSUME TypeOK, Forget, crashes' \in 0 .. MaxCrashes, synced' \in BOOLEAN,
           stored' \in [lease: Time, version: Versions \cup {0}]
    PROVE  TypeOK'
<1>1. process' \in Agent
  BY SupervisorAssumption DEF Forget, NoAgent, Agent, Time
<1>2. op' \in Op
  BY AtType DEF Forget, Steps
<1>3. /\ nextRestart' \in -TickAge .. 2 ^ MaxShift /\ restartFailures' \in 0 .. MaxFailures
      /\ cooldownEnds' \in Time /\ leaseExpiry' \in Time /\ tick' \in -1 .. TickAge
  BY DelayType, SupervisorAssumption DEF Forget, Time
<1>. QED  BY <1>1, <1>2, <1>3, Zenon DEF TypeOK, Forget, disk

-----------------------------------------------------------------------------
(* TypeOK *)

\* Every step of the supervisor keeps the variables in their types.
LEMMA TypeStep == IInv /\ [Next]_vars => TypeOK'
<1>. SUFFICES ASSUME IInv, [Next]_vars PROVE TypeOK'
  OBVIOUS
<1>. USE DEF IInv, history
<1>1. CASE AgentExit
  <2>1. process' \in Agent
    BY <1>1, Zenon DEF AgentExit, TypeOK, Agent
  <2>. QED  BY <1>1, <2>1 DEF AgentExit, TypeOK, disk, restarts, world
<1>2. CASE Reap
  <2>1. process' \in Agent
    BY <1>2, SupervisorAssumption DEF Reap, NoAgent, Agent, Time
  <2>2. restartFailures' \in 0 .. MaxFailures /\ nextRestart' \in -TickAge .. 2 ^ MaxShift
    BY <1>2, DelayType, SupervisorAssumption DEF Reap, TypeOK, restarts, Min2
  <2>. QED  BY <1>2, <2>1, <2>2, ZenonT(30) DEF Reap, TypeOK, disk, restarts, world
<1>3. ASSUME NEW v \in Versions, NEW l \in Leases, ApplyBegin(v, l)
      PROVE  TypeOK'
  <2>1. op' \in Op /\ process' \in Agent /\ stopping' \in BOOLEAN /\ applying' \in BOOLEAN
    <3>1. CASE Halt("stop")
      BY <3>1, HaltType DEF Steps
    <3>2. CASE UNCHANGED <<op, agent>>
      BY <3>2 DEF TypeOK, agent
    <3>3. CASE /\ l >= LeaseMargin /\ UNCHANGED agent
               /\ op' = [step |-> "verify", version |-> v, lease |-> l,
                         lkg |-> lastKnownGood, leaseBefore |-> leaseExpiry,
                         allow |-> allowed]
      BY <3>3, SupervisorAssumption DEF TypeOK, Op, Steps, Time, agent
    <3>. QED  BY <1>3, <3>1, <3>2, <3>3 DEF ApplyBegin
  <2>2. allowed' \in Versions \cup {0} /\ pending' \in BOOLEAN /\ UNCHANGED <<lkg, newest>>
    BY <1>3, Zenon DEF ApplyBegin, TypeOK, disk
  <2>. QED  BY <1>3, <2>1, <2>2 DEF ApplyBegin, TypeOK, restarts
<1>4. CASE ApplyVerified
  BY <1>4, HaltType DEF ApplyVerified, TypeOK, Steps, disk, restarts, world
<1>5. CASE ApplyRejected
  BY <1>5, GiveUpType, ZenonT(30) DEF ApplyRejected, GiveUp, TypeOK, agent, restarts, world
<1>6. CASE ApplyStart
  <2>1. process' \in Agent /\ applying' \in BOOLEAN
    BY <1>6, LaunchedType, Zenon DEF ApplyStart, Trial, TypeOK, ApplyPart, Op
  <2>2. op' \in Op
    BY <1>6, Zenon DEF ApplyStart, Trial, TypeOK, Op, Steps
  <2>. QED  BY <1>6, <2>1, <2>2 DEF ApplyStart, Trial, TypeOK, disk, restarts, world
<1>7. CASE ApplyExited \/ ApplySettled
  <2>1. op' \in Op
    BY <1>7 DEF ApplyExited, ApplySettled, TypeOK, Op, Steps
  <2>. QED  BY <1>7, <2>1 DEF ApplyExited, ApplySettled, TypeOK, disk, agent, restarts, world
<1>8. CASE ApplyAbandoned
  BY <1>8, HaltType DEF ApplyAbandoned, TypeOK, Steps, disk, restarts, world
<1>9. CASE ApplyPromote
  <2>1. lkg' \in [Versions -> File]
    BY <1>9 DEF ApplyPromote, Promote, TypeOK, ApplyPart, Op, File
  <2>2. op' \in Op
    BY <1>9 DEF ApplyPromote, Promote, TypeOK, Op, Steps
  <2>. QED  BY <1>9, <2>1, <2>2, Zenon DEF ApplyPromote, Promote, TypeOK, ApplyPart, agent, restarts, world
<1>10. CASE ApplyZero
  <2>1. lkg' \in [Versions -> File]
    BY <1>10, ZenonT(30) DEF ApplyZero, Zero, TypeOK, DiskPart, File
  <2>2. op' \in Op
    BY <1>10, SupervisorAssumption, Zenon DEF ApplyZero, Zero, TypeOK, DiskPart, Op, Steps
  <2>. QED  BY <1>10, <2>1, <2>2 DEF ApplyZero, Zero, TypeOK, DiskPart, agent, restarts, world
<1>11. CASE ApplyRemove
  <2>1. lkg' \in [Versions -> File] /\ newest' \in Versions \cup {0}
    BY <1>11, SupervisorAssumption
    DEF ApplyRemove, Remove, TypeOK, DiskPart, LkgFiles, File, NoFile, Time
  <2>2. op' \in Op
    BY <1>11 DEF ApplyRemove, TypeOK, Op, Steps
  <2>. QED  BY <1>11, <2>1, <2>2 DEF ApplyRemove, TypeOK, agent, restarts, world
<1>12. CASE ApplyCommit
  <2>1. op' \in Op /\ leaseExpiry' \in Time /\ lastKnownGood' \in Versions
    BY <1>12, AtType DEF ApplyCommit, Commit, TypeOK, ApplyPart, Op, Steps
  <2>2. /\ nextRestart' \in -TickAge .. 2 ^ MaxShift /\ restartFailures' \in 0 .. MaxFailures
        /\ cooldownEnds' \in Time
    BY <1>12, DelayType, SupervisorAssumption DEF ApplyCommit, Commit, Time
  <2>. QED  BY <1>12, <2>1, <2>2, Zenon DEF ApplyCommit, Commit, TypeOK, disk, world
<1>13. CASE ApplyRestore
  <2>1. process' \in Agent /\ applying' \in BOOLEAN
    <3>1. CASE UNCHANGED <<process, applying>>
      BY <3>1 DEF TypeOK
    <3>2. CASE /\ op.lkg # 0
               /\ Launched(op.lkg, lkg[op.lkg].readable, lkg[op.lkg].lease, FALSE)
      <4>1. op.lkg \in Versions
        BY <1>13, <3>2 DEF ApplyRestore, Restore, ApplyPart, TypeOK
      <4>2. lkg[op.lkg].readable \in BOOLEAN /\ lkg[op.lkg].lease \in Time
        BY <4>1 DEF TypeOK, File
      <4>. QED  BY <3>2, <4>1, <4>2, LaunchedType, Zenon
    <3>. QED  BY <1>13, <3>1, <3>2, Zenon DEF ApplyRestore, Restore
  <2>2. lastKnownGood' \in Versions \cup {0} /\ leaseExpiry' \in Time
    BY <1>13, Zenon DEF ApplyRestore, Restore, ApplyPart, TypeOK
  <2>. QED  BY <1>13, <2>1, <2>2, GiveUpType, Zenon
       DEF ApplyRestore, Restore, GiveUp, TypeOK, restarts, world
<1>14. CASE StopDone
  <2>1. op' \in Op
    BY <1>14, AtType DEF StopDone, StopReturns, TypeOK, Op, Steps
  <2>. QED  BY <1>14, <2>1, Zenon DEF StopDone, StopReturns, TypeOK, disk, restarts, world
<1>15. CASE TickExpired \/ Stop
  <2>1. tick' \in -1 .. TickAge
    BY <1>15, SupervisorAssumption DEF TickExpired, Stop, TickBegin, TypeOK
  <2>. QED  BY <1>15, <2>1, HaltType DEF TickExpired, Stop, TypeOK, Steps, disk, restarts, world
<1>16. CASE TickNothing \/ TickerFires
  <2>1. tick' \in -1 .. TickAge
    BY <1>16, SupervisorAssumption DEF TickNothing, TickerFires, TickBegin
  <2>. QED  BY <1>16, <2>1 DEF TickNothing, TickerFires, TypeOK, disk, agent, restarts, world
<1>17. CASE TickCooldown
  <2>1. cooldownEnds' \in Time /\ tick' \in -1 .. TickAge
    BY <1>17, SupervisorAssumption DEF TickCooldown, TickBegin, TypeOK, Time
  <2>. QED  BY <1>17, <2>1 DEF TickCooldown, TypeOK, disk, agent, world
<1>18. CASE TickRestart
  <2>1. /\ lastKnownGood \in Versions /\ lkg[lastKnownGood].readable \in BOOLEAN
        /\ lkg[lastKnownGood].lease \in Time
    BY <1>18 DEF TickRestart, TypeOK, File, CanRestart
  <2>2. \/ Launched(lastKnownGood, lkg[lastKnownGood].readable, lkg[lastKnownGood].lease, FALSE)
        \/ UNCHANGED <<process, applying>>
    BY <1>18, Zenon DEF TickRestart
  <2>3. process' \in Agent /\ applying' \in BOOLEAN
    BY <2>1, <2>2, LaunchedType, Zenon DEF TypeOK
  <2>4. restartFailures' \in 0 .. MaxFailures /\ nextRestart' \in -TickAge .. 2 ^ MaxShift
    <3>. DEFINE failures == IF restartFailures > RestartFailureLimit THEN 0 ELSE restartFailures
    <3>1. failures \in 0 .. RestartFailureLimit
      BY SupervisorAssumption DEF TypeOK
    <3>2. Delay(failures + 1) \in -TickAge .. 2 ^ MaxShift
      BY <3>1, DelayType, SupervisorAssumption
    <3>3. restartFailures' \in {failures, failures + 1}
      BY <1>18, Zenon DEF TickRestart
    <3>4. nextRestart' \in {-TickAge, nextRestart, Delay(failures + 1)}
      BY <1>18, Zenon DEF TickRestart
    <3>5. restartFailures' \in 0 .. MaxFailures
      BY <3>1, <3>3, SupervisorAssumption
    <3>. QED  BY <3>2, <3>4, <3>5, DelayType DEF TypeOK
  <2>5. tick' \in -1 .. TickAge /\ cooldownEnds' \in Time
    BY <1>18, SupervisorAssumption DEF TickRestart, TypeOK, TickBegin, Time
  <2>. QED  BY <1>18, <2>3, <2>4, <2>5 DEF TickRestart, TypeOK, disk, world
<1>19. CASE SaveState \/ Cancel
  <2>1. stored' \in [lease: Time, version: Versions \cup {0}]
    BY <1>19 DEF SaveState, Cancel, TypeOK
  <2>2. cancelled' \in BOOLEAN
    BY <1>19, Zenon DEF SaveState, Cancel, TypeOK
  <2>. QED  BY <1>19, <2>1, <2>2 DEF SaveState, Cancel, TypeOK, disk, agent, restarts
<1>20. CASE Exit
  BY <1>20, ForgetType DEF Exit, TypeOK
<1>21. CASE Crash
  BY <1>21, ForgetType, SupervisorAssumption DEF Crash, TypeOK
<1>22. CASE New
  BY <1>22, AtType DEF New, TypeOK, Steps, disk, agent, restarts
<1>23. CASE NewZero
  <2>1. PICK v \in LkgFiles \ {lastKnownGood} : lkg[v].readable /\ Zero(v, "purge")
    BY <1>23 DEF NewZero
  <2>2. lkg' \in [Versions -> File]
    BY <2>1, ZenonT(30) DEF TypeOK, Zero, LkgFiles, File
  <2>3. op' \in Op
    BY <2>1, SupervisorAssumption, Zenon DEF TypeOK, Zero, LkgFiles, Op, Steps
  <2>. QED  BY <1>23, <2>1, <2>2, <2>3
       DEF NewZero, TypeOK, LkgFiles, Zero, agent, restarts, world
<1>24. CASE NewRemove
  <2>1. PICK v \in LkgFiles \ {lastKnownGood} : Remove(v)
    BY <1>24 DEF NewRemove
  <2>2. lkg' \in [Versions -> File] /\ newest' \in Versions \cup {0}
    BY <2>1, SupervisorAssumption DEF Remove, TypeOK, LkgFiles, File, NoFile, Time
  <2>. QED  BY <1>24, <2>2 DEF NewRemove, TypeOK, agent, restarts, world
<1>25. CASE NewDone
  <2>1. op' \in Op /\ tick' \in -1 .. TickAge
    BY <1>25, AtType, SupervisorAssumption DEF NewDone, Steps
  <2>. QED  BY <1>25, <2>1 DEF NewDone, TypeOK, disk, agent, restarts, world
<1>26. CASE Advance
  <2>1. lkg' \in [Versions -> File]
    <3>. SUFFICES ASSUME NEW v \in Versions
                  PROVE  [lkg[v] EXCEPT !.lease = Age(lkg[v].lease)] \in File
      BY <1>26 DEF Advance
    <3>. QED  BY AgeType DEF TypeOK, File
  <2>2. /\ process' \in Agent /\ op' \in Op
        /\ stored' \in [lease: Time, version: Versions \cup {0}]
    BY <1>26, AgeType, Zenon DEF Advance, TypeOK, Agent, Op
  <2>3. leaseExpiry' \in Time /\ cooldownEnds' \in Time
    BY <1>26, AgeType DEF Advance, TypeOK
  <2>4. nextRestart' \in -TickAge .. 2 ^ MaxShift /\ tick' \in -1 .. TickAge
    <3>1. nextRestart \in -TickAge .. 2 ^ MaxShift /\ tick \in -1 .. TickAge
      BY DEF TypeOK
    <3>2. /\ nextRestart' = Age(nextRestart) /\ tick < TickAge
          /\ tick' = IF tick = -1 THEN -1 ELSE tick + 1
      BY <1>26 DEF Advance
    <3>3. 2 ^ MaxShift \in Nat /\ TickAge \in Nat
      BY SupervisorAssumption, DelayAssumption
    <3>. HIDE DEF IInv
    <3>. QED  BY <3>1, <3>2, <3>3 DEF Age
  <2>. QED  BY <1>26, <2>1, <2>2, <2>3, <2>4 DEF Advance, TypeOK
<1>27. CASE UNCHANGED vars
  BY <1>27 DEF vars, TypeOK, disk, agent, restarts, world
<1>. QED
  BY <1>1, <1>2, <1>3, <1>4, <1>5, <1>6, <1>7, <1>8, <1>9, <1>10, <1>11, <1>12, <1>13,
     <1>14, <1>15, <1>16, <1>17, <1>18, <1>19, <1>20, <1>21, <1>22, <1>23, <1>24, <1>25,
     <1>26, <1>27 DEF Next

-----------------------------------------------------------------------------
(* DiskPart *)

\* secureDelete in Apply leaves the promoted file alone on disk.
LEMMA RemoveLeavesNew == IInv /\ ApplyRemove => LkgFiles' = {op.version}
BY DEF IInv, DiskPart, ApplyPart, TypeOK, LkgFiles, ApplyRemove, Remove, NoFile

\* Apply, New and their interruption by a crash keep the files as described.
LEMMA DiskStep == IInv /\ [Next]_vars => DiskPart'
<1>. SUFFICES ASSUME IInv, [Next]_vars PROVE DiskPart'
  OBVIOUS
<1>. USE DEF IInv
<1>1. CASE AgentExit \/ Reap \/ TickNothing \/ TickCooldown \/ TickRestart \/ SaveState
           \/ Cancel \/ TickerFires \/ UNCHANGED vars
  <2>1. UNCHANGED <<lkg, newest, lastKnownGood, op>>
    BY <1>1, Zenon DEF AgentExit, Reap, TickNothing, TickCooldown, TickRestart, SaveState, Cancel,
       TickerFires, vars, disk
  <2>. QED  BY <2>1 DEF DiskPart, LkgFiles
<1>2. ASSUME NEW v \in Versions, NEW l \in Leases, ApplyBegin(v, l)
      PROVE  DiskPart'
  BY <1>2 DEF ApplyBegin, Halt, TypeOK, Op, disk, DiskPart, LkgFiles
<1>3. CASE ApplyVerified \/ ApplyAbandoned \/ TickExpired \/ Stop
  BY <1>3 DEF ApplyVerified, ApplyAbandoned, TickExpired, TickBegin, Stop, Halt, TypeOK, Op,
     disk, DiskPart, LkgFiles
<1>4. CASE ApplyStart \/ ApplyExited \/ ApplySettled
  BY <1>4, Zenon DEF ApplyStart, Trial, ApplyExited, ApplySettled, TypeOK, Op, disk, DiskPart, LkgFiles
<1>17. CASE ApplyRejected
  BY <1>17 DEF ApplyRejected, GiveUp, At, DiskPart, LkgFiles
<1>5. CASE ApplyPromote
  BY <1>5, SupervisorAssumption
  DEF ApplyPromote, Promote, TypeOK, Op, ApplyPart, DiskPart, LkgFiles
<1>6. CASE ApplyZero
  BY <1>6, SupervisorAssumption DEF ApplyZero, Zero, TypeOK, Op, File, DiskPart, LkgFiles
<1>7. CASE ApplyRemove
  <2>1. op'.step = "commit" /\ op'.version = op.version /\ op.version # 0
    BY <1>7, SupervisorAssumption DEF ApplyRemove, TypeOK, Op, ApplyPart
  <2>2. newest' = op.version
    BY <1>7 DEF ApplyRemove, Remove, DiskPart
  <2>. QED  BY <1>7, <2>1, <2>2, RemoveLeavesNew DEF DiskPart
<1>8. CASE ApplyCommit
  BY <1>8, SupervisorAssumption DEF ApplyCommit, Commit, At, TypeOK, Op, ApplyPart, disk,
     DiskPart, LkgFiles
<1>9. CASE ApplyRestore
  BY <1>9, ZenonT(30) DEF ApplyRestore, Restore, GiveUp, At, TypeOK, Op, ApplyPart, DiskPart, LkgFiles
<1>10. CASE StopDone
  BY <1>10 DEF StopDone, StopReturns, At, TypeOK, Op, disk, DiskPart, LkgFiles
<1>11. CASE Exit \/ Crash
  BY <1>11 DEF Exit, Crash, Forget, At, disk, DiskPart, LkgFiles
<1>12. CASE New
  BY <1>12 DEF New, At, disk, DiskPart, LkgFiles
<1>13. CASE NewZero
  BY <1>13, SupervisorAssumption DEF NewZero, Zero, TypeOK, Op, File, DiskPart, LkgFiles
<1>14. CASE NewRemove
  BY <1>14, SupervisorAssumption DEF NewRemove, Remove, NoFile, TypeOK, DiskPart, LkgFiles
<1>15. CASE NewDone
  BY <1>15, SupervisorAssumption DEF NewDone, At, disk, DiskPart, LkgFiles
<1>16. CASE Advance
  <2>1. LkgFiles' = LkgFiles
    BY <1>16 DEF Advance, TypeOK, File, LkgFiles
  <2>. QED  BY <1>16, <2>1 DEF Advance, TypeOK, Op, DiskPart
<1>. QED
  BY <1>1, <1>2, <1>3, <1>4, <1>5, <1>6, <1>7, <1>8, <1>9, <1>10, <1>11, <1>12, <1>13,
     <1>14, <1>15, <1>16, <1>17 DEF Next

-----------------------------------------------------------------------------
(* LeasePart *)

\* Files, state.json and the deadline in memory keep agreeing on the lease.
LEMMA LeaseStep == IInv /\ [Next]_vars => LeasePart'
<1>. SUFFICES ASSUME IInv, [Next]_vars PROVE LeasePart'
  OBVIOUS
<1>. USE DEF IInv, history
<1>1. CASE UNCHANGED <<lkg, leaseExpiry, stored, synced, current>>
  BY <1>1 DEF LeasePart, LkgFiles
<1>2. CASE ApplyPromote
  BY <1>2 DEF ApplyPromote, Promote, TypeOK, ApplyPart, LeasePart, LkgFiles
<1>3. CASE ApplyZero \/ NewZero
  <2>1. LkgFiles' = LkgFiles /\ \A v \in Versions : lkg'[v].lease = lkg[v].lease
    <3>1. PICK u : lkg' = [lkg EXCEPT ![u].readable = FALSE]
      BY <1>3, Zenon DEF ApplyZero, NewZero, Zero
    <3>. QED  BY <3>1 DEF TypeOK, File, LkgFiles
  <2>2. UNCHANGED <<leaseExpiry, stored, synced, current>>
    BY <1>3, Zenon DEF ApplyZero, NewZero, world, history
  <2>. QED  BY <2>1, <2>2 DEF LeasePart, LkgFiles
<1>4. CASE ApplyRemove \/ NewRemove
  <2>1. LkgFiles' \subseteq LkgFiles /\ \A v \in LkgFiles' : lkg'[v] = lkg[v]
    BY <1>4 DEF ApplyRemove, NewRemove, Remove, NoFile, TypeOK, LkgFiles
  <2>2. UNCHANGED <<leaseExpiry, stored, synced, current>>
    BY <1>4, Zenon DEF ApplyRemove, NewRemove, world, history
  <2>. QED  BY <2>1, <2>2 DEF LeasePart
<1>5. CASE ApplyCommit
  <2>1. lkg[op.version].lease = op.lease /\ LkgFiles = {op.version} /\ ~synced
    BY <1>5, Zenon DEF ApplyCommit, Commit, ApplyPart, DiskPart
  <2>2. leaseExpiry' = op.lease /\ lkg' = lkg /\ LkgFiles' = LkgFiles /\ synced' = synced
    BY <1>5, SMTT(30) DEF ApplyCommit, Commit, disk, LkgFiles
  <2>. QED  BY <2>1, <2>2 DEF LeasePart
<1>6. CASE ApplyRestore
  <2>1. UNCHANGED <<lkg, leaseExpiry, stored, synced, current>>
    BY <1>6, Zenon DEF ApplyRestore, Restore, GiveUp, ApplyPart, world, history
  <2>. QED  BY <1>1, <2>1
<1>7. CASE SaveState
  BY <1>7 DEF SaveState, LeasePart, LkgFiles, disk
<1>8. CASE Exit
  BY <1>8 DEF Exit, Forget, LeasePart, LkgFiles, disk
<1>9. CASE Crash
  BY <1>9 DEF Crash, Forget, LeasePart, LkgFiles, disk
<1>10. CASE New
  BY <1>10 DEF New, LeasePart, LkgFiles, disk
<1>11. CASE Advance
  <2>1. LkgFiles' = LkgFiles /\ \A v \in Versions : lkg'[v].lease = Age(lkg[v].lease)
    BY <1>11 DEF Advance, TypeOK, File, LkgFiles
  <2>2. /\ leaseExpiry' = Age(leaseExpiry) /\ stored'.lease = Age(stored.lease)
        /\ UNCHANGED <<synced, current>>
    BY <1>11 DEF Advance, TypeOK, history
  <2>3. \A v \in LkgFiles : Age(lkg[v].lease) # NoTime
    BY AgeSet DEF TypeOK, File, LeasePart, LkgFiles
  <2>. QED  BY <2>1, <2>2, <2>3, Zenon DEF LeasePart, LkgFiles
<1>12. CASE UNCHANGED vars
  BY <1>1, <1>12 DEF vars, disk, world, history
<1>13. CASE \E v \in Versions, l \in Leases : ApplyBegin(v, l)
  BY <1>1, <1>13 DEF ApplyBegin, disk, history
<1>. QED
  BY <1>1, <1>2, <1>3, <1>4, <1>5, <1>6, <1>7, <1>8, <1>9, <1>10, <1>11, <1>12, <1>13, Zenon
  DEF Next, AgentExit, Reap, ApplyVerified, ApplyRejected, GiveUp, ApplyStart, Trial,
      ApplyExited, ApplyAbandoned, ApplySettled, StopDone, StopReturns, TickExpired,
      TickNothing, TickCooldown, TickRestart, Stop, Cancel, NewDone, TickerFires, disk, world,
      history

-----------------------------------------------------------------------------
(* ApplyPart *)

\* The locals of Apply stay the ones it captured.
LEMMA ApplyStep == IInv /\ [Next]_vars => ApplyPart'
<1>. SUFFICES ASSUME IInv, [Next]_vars PROVE ApplyPart'
  OBVIOUS
<1>. USE DEF IInv, history
<1>1. CASE AgentExit \/ Reap \/ TickNothing \/ TickCooldown \/ TickRestart \/ Cancel
           \/ TickerFires \/ UNCHANGED vars
  BY <1>1, Zenon DEF AgentExit, Reap, TickNothing, TickCooldown, TickRestart, Cancel, TickerFires,
     vars, disk, world, ApplyPart
<1>2. ASSUME NEW v \in Versions, NEW l \in Leases, ApplyBegin(v, l)
      PROVE  ApplyPart'
  BY <1>2, SupervisorAssumption
  DEF ApplyBegin, Halt, TypeOK, Op, LeasePart, ApplyPart, Time
<1>3. CASE ApplyVerified \/ ApplyAbandoned \/ TickExpired \/ Stop
  BY <1>3 DEF ApplyVerified, ApplyAbandoned, TickExpired, Stop, Halt, TypeOK, Op, world,
     ApplyPart
<1>4. CASE ApplyStart \/ ApplyExited \/ ApplySettled
  BY <1>4, ZenonT(30) DEF ApplyStart, Trial, ApplyExited, ApplySettled, TypeOK, Op, world, ApplyPart
<1>5. CASE ApplyRejected \/ ApplyCommit \/ ApplyRestore
  <2>1. op' = At("idle")
    BY <1>5, ZenonT(30) DEF ApplyRejected, ApplyCommit, Commit, ApplyRestore, Restore, GiveUp
  <2>. QED  BY <2>1 DEF At, ApplyPart
<1>6. CASE ApplyPromote
  BY <1>6 DEF ApplyPromote, Promote, TypeOK, Op, world, ApplyPart
<1>7. CASE ApplyZero
  BY <1>7 DEF ApplyZero, Zero, TypeOK, File, Op, world, DiskPart, ApplyPart
<1>8. CASE ApplyRemove
  BY <1>8 DEF ApplyRemove, Remove, TypeOK, Op, world, DiskPart, ApplyPart
<1>9. CASE StopDone
  BY <1>9 DEF StopDone, StopReturns, At, TypeOK, Op, world, ApplyPart
<1>10. CASE SaveState \/ Exit \/ Crash \/ New \/ NewDone
  BY <1>10 DEF SaveState, Exit, Crash, Forget, New, NewDone, At, ApplyPart
<1>11. CASE NewZero \/ NewRemove
  BY <1>11, ZenonT(30) DEF NewZero, Zero, NewRemove, TypeOK, Op, ApplyPart
<1>12. CASE Advance
  <2>1. /\ op'.step = op.step /\ op'.version = op.version /\ op'.allow = op.allow
        /\ op'.lkg = op.lkg /\ op'.lease = Age(op.lease)
        /\ op'.leaseBefore = Age(op.leaseBefore)
    BY <1>12 DEF Advance, TypeOK, Op
  <2>2. /\ leaseExpiry' = Age(leaseExpiry) /\ stored'.lease = Age(stored.lease)
        /\ lastKnownGood' = lastKnownGood
        /\ \A v \in Versions : lkg'[v].lease = Age(lkg[v].lease)
    BY <1>12 DEF Advance, TypeOK, File
  <2>. SUFFICES ASSUME op.step \notin {"down", "purge", "idle", "stop"} PROVE ApplyPart'
    BY <2>1 DEF ApplyPart
  <2>3. Age(op.lease) # NoTime
    BY AgeSet DEF TypeOK, Op, ApplyPart
  <2>4. UNCHANGED <<synced, current>>
    BY <1>12 DEF Advance, history
  <2>. QED  BY <2>1, <2>2, <2>3, <2>4, Zenon DEF ApplyPart
<1>. QED
  BY <1>1, <1>2, <1>3, <1>4, <1>5, <1>6, <1>7, <1>8, <1>9, <1>10, <1>11, <1>12 DEF Next

-----------------------------------------------------------------------------
(* AgentPart and LeaseCovered *)

\* The process record agrees with the step of the main goroutine.
LEMMA AgentStep == IInv /\ [Next]_vars => AgentPart'
<1>. SUFFICES ASSUME IInv, [Next]_vars PROVE AgentPart'
  OBVIOUS
<1>. USE DEF IInv
<1>1. CASE TickNothing \/ TickCooldown \/ SaveState \/ Cancel \/ TickerFires \/ UNCHANGED vars
  BY <1>1, SMTT(30) DEF TickNothing, TickCooldown, SaveState, Cancel, TickerFires, vars, agent, AgentPart
<1>2. CASE AgentExit \/ Reap
  BY <1>2 DEF AgentExit, Reap, NoAgent, TypeOK, Agent, AgentPart
<1>3. ASSUME NEW v \in Versions, NEW l \in Leases, ApplyBegin(v, l)
      PROVE  AgentPart'
  BY <1>3 DEF ApplyBegin, Halt, TypeOK, Op, agent, AgentPart
<1>4. CASE ApplyVerified \/ ApplyAbandoned \/ TickExpired \/ Stop
  BY <1>4 DEF ApplyVerified, ApplyAbandoned, TickExpired, TickBegin, Stop, Halt, TypeOK, Op,
     AgentPart
<1>5. CASE ApplyStart
  BY <1>5 DEF ApplyStart, Trial, Launched, TypeOK, Op, AgentPart
<1>6. CASE ApplyExited \/ ApplySettled \/ ApplyRejected
  BY <1>6, SMTT(30) DEF ApplyExited, ApplySettled, ApplyRejected, GiveUp, At, TypeOK, Op, agent, AgentPart
<1>7. CASE ApplyPromote \/ ApplyZero \/ ApplyRemove
  <2>1. /\ op.step \in {"promote", "scrub"} /\ op'.step \in {"scrub", "commit"}
        /\ op'.lease = op.lease /\ UNCHANGED agent
    BY <1>7, ZenonT(30) DEF ApplyPromote, Promote, ApplyZero, Zero, ApplyRemove, TypeOK, Op
  <2>. QED  BY <2>1 DEF agent, AgentPart
<1>8. CASE ApplyCommit
  BY <1>8, Zenon DEF ApplyCommit, Commit, At, AgentPart
<1>9. CASE ApplyRestore
  <2>1. op.step = "restore" /\ op' = At("idle") /\ stopping' = stopping
    BY <1>9, Zenon DEF ApplyRestore, Restore, GiveUp
  <2>2. process' = process \/ process'.set
    BY <1>9 DEF ApplyRestore, Restore, Launched
  <2>. QED  BY <2>1, <2>2 DEF At, AgentPart
<1>10. CASE StopDone
  BY <1>10, SMTT(30) DEF StopDone, StopReturns, At, TypeOK, Op, AgentPart
<1>11. CASE TickRestart
  BY <1>11, SMTT(30) DEF TickRestart, TickBegin, Launched, AgentPart
<1>12. CASE Exit \/ Crash
  BY <1>12, SMTT(30) DEF Exit, Crash, Forget, At, NoAgent, AgentPart
<1>13. CASE New \/ NewDone \/ NewRemove
  BY <1>13, SMTT(30) DEF New, NewDone, NewRemove, At, agent, AgentPart
<1>14. CASE NewZero
  BY <1>14 DEF NewZero, Zero, TypeOK, Op, agent, AgentPart
<1>15. CASE Advance
  <2>1. /\ process'.set = process.set /\ process'.live = process.live
        /\ process'.lease = Age(process.lease)
    BY <1>15 DEF Advance, TypeOK, Agent
  <2>2. op'.step = op.step /\ op'.lease = Age(op.lease)
    BY <1>15 DEF Advance, TypeOK, Op
  <2>. QED  BY <1>15, <2>1, <2>2 DEF Advance, AgentPart
<1>. QED
  BY <1>1, <1>2, <1>3, <1>4, <1>5, <1>6, <1>7, <1>8, <1>9, <1>10, <1>11, <1>12, <1>13,
     <1>14, <1>15, SMTT(30) DEF Next

\* No step puts an agent under the deadline of another lease than its own.
LEMMA CoveredStep == IInv /\ [Next]_vars => LeaseCovered'
<1>. SUFFICES ASSUME IInv, [Next]_vars PROVE LeaseCovered'
  OBVIOUS
<1>. USE DEF IInv, history
<1>1. CASE TickNothing \/ TickCooldown \/ SaveState \/ Cancel \/ TickerFires \/ UNCHANGED vars
  BY <1>1 DEF TickNothing, TickCooldown, SaveState, Cancel, TickerFires, vars, agent,
     LeaseCovered, Settled
<1>2. CASE AgentExit \/ Reap
  <2>1. process'.set => process.set /\ process'.lease = process.lease
    BY <1>2 DEF AgentExit, Reap, NoAgent, TypeOK, Agent
  <2>2. UNCHANGED <<op, leaseExpiry, current>>
    BY <1>2, Zenon DEF AgentExit, Reap
  <2>. QED  BY <2>1, <2>2, Zenon DEF LeaseCovered, Settled
<1>3. ASSUME NEW v \in Versions, NEW l \in Leases, ApplyBegin(v, l)
      PROVE  LeaseCovered'
  BY <1>3 DEF ApplyBegin, Halt, TypeOK, Op, agent, LeaseCovered, Settled
<1>4. CASE ApplyVerified \/ ApplyAbandoned \/ TickExpired \/ Stop
  BY <1>4 DEF ApplyVerified, ApplyAbandoned, TickExpired, TickBegin, Stop, Halt, TypeOK, Op,
     LeaseCovered, Settled
<1>5. CASE ApplyStart \/ ApplyExited \/ ApplySettled
  BY <1>5, Zenon DEF ApplyStart, Trial, ApplyExited, ApplySettled, TypeOK, Op, LeaseCovered, Settled
<1>6. CASE ApplyRejected
  BY <1>6 DEF ApplyRejected, GiveUp, At, agent, LeaseCovered, Settled
<1>7. CASE ApplyPromote \/ ApplyZero \/ ApplyRemove \/ NewZero
  BY <1>7, ZenonT(30) DEF ApplyPromote, Promote, ApplyZero, ApplyRemove, NewZero, Zero, TypeOK, Op,
     LeaseCovered, Settled
<1>8. CASE ApplyCommit
  BY <1>8 DEF ApplyCommit, Commit, At, TypeOK, Op, Time, ApplyPart, AgentPart,
     LeaseCovered, Settled
<1>9. CASE ApplyRestore
  <2>1. CASE UNCHANGED process
    BY <1>9, <2>1 DEF ApplyRestore, Restore, AgentPart, LeaseCovered
  <2>2. CASE /\ op.lkg # 0 /\ ~Short(op.leaseBefore) /\ leaseExpiry' = op.leaseBefore
             /\ Launched(op.lkg, lkg[op.lkg].readable, lkg[op.lkg].lease, FALSE)
    <3>1. op.lkg \in LkgFiles /\ op.leaseBefore = leaseExpiry /\ leaseExpiry # NoTime
      BY <1>9, <2>2 DEF ApplyRestore, Restore, ApplyPart, DiskPart, Short
    <3>2. process'.lease = lkg[op.lkg].lease /\ current' = current
      BY <1>9, <2>2 DEF ApplyRestore, Restore, Launched
    <3>. QED  BY <2>2, <3>1, <3>2, Zenon DEF LeasePart, LeaseCovered
  <2>. QED  BY <1>9, <2>1, <2>2, Zenon DEF ApplyRestore, Restore
<1>10. CASE StopDone
  BY <1>10 DEF StopDone, StopReturns, At, TypeOK, Op, AgentPart, LeaseCovered, Settled
<1>11. CASE TickRestart
  <2>1. CASE UNCHANGED process
    BY <1>11, <2>1 DEF TickRestart, LeaseCovered, Settled
  <2>2. CASE Launched(lastKnownGood, lkg[lastKnownGood].readable,
                      lkg[lastKnownGood].lease, FALSE)
    <3>1. lastKnownGood \in LkgFiles /\ leaseExpiry # NoTime /\ leaseExpiry' = leaseExpiry
      BY <1>11 DEF TickRestart, TickBegin, CanRestart, DiskPart
    <3>2. process'.lease = lkg[lastKnownGood].lease /\ current' = current
      BY <1>11, <2>2 DEF TickRestart, Launched
    <3>. QED  BY <2>2, <3>1, <3>2, Zenon DEF LeasePart, LeaseCovered
  <2>. QED  BY <1>11, <2>1, <2>2, Zenon DEF TickRestart
<1>12. CASE Exit \/ Crash
  BY <1>12 DEF Exit, Crash, Forget, At, NoAgent, LeaseCovered, Settled
<1>13. CASE New \/ NewDone \/ NewRemove
  BY <1>13 DEF New, NewDone, NewRemove, At, agent, AgentPart, LeaseCovered, Settled
<1>14. CASE Advance
  <2>1. /\ process'.set = process.set /\ process'.lease = Age(process.lease)
        /\ op'.step = op.step /\ leaseExpiry' = Age(leaseExpiry) /\ current' = current
    BY <1>14 DEF Advance, TypeOK, Agent, Op
  <2>2. leaseExpiry # NoTime => Age(leaseExpiry) # NoTime
    BY AgeSet DEF TypeOK
  <2>. QED  BY <2>1, <2>2, Zenon DEF LeaseCovered, Settled
<1>. QED
  BY <1>1, <1>2, <1>3, <1>4, <1>5, <1>6, <1>7, <1>8, <1>9, <1>10, <1>11, <1>12, <1>13,
     <1>14 DEF Next

-----------------------------------------------------------------------------
(* The theorems *)

\* The initial state, with no file, no state and no agent, satisfies IInv.
LEMMA InitIInv == Init => IInv
<1>. SUFFICES ASSUME Init PROVE IInv
  OBVIOUS
<1>1. TypeOK
  <2>1. op \in Op /\ process \in Agent /\ lkg \in [Versions -> File]
    BY AtType, SupervisorAssumption DEF Init, Steps, NoAgent, Agent, NoFile, File, Time
  <2>2. nextRestart \in -TickAge .. 2 ^ MaxShift /\ tick \in -1 .. TickAge
    BY DelayType, SupervisorAssumption DEF Init
  <2>3. leaseExpiry \in Time /\ cooldownEnds \in Time
        /\ stored \in [lease: Time, version: Versions \cup {0}]
    BY DEF Init, Time
  <2>4. restartFailures \in 0 .. MaxFailures /\ crashes \in 0 .. MaxCrashes
    BY SupervisorAssumption DEF Init
  <2>. QED  BY <2>1, <2>2, <2>3, <2>4, Zenon DEF Init, TypeOK
<1>2. LkgFiles = {}
  BY DEF Init, LkgFiles, NoFile
<1>. QED  BY <1>1, <1>2 DEF Init, IInv, DiskPart, LeasePart, ApplyPart, AgentPart, LeaseCovered,
          Settled, At, NoAgent

\* The conjunction of the parts is an invariant of the supervisor.
THEOREM SupervisorInvariant == Spec => []IInv
<1>1. IInv /\ [Next]_vars => IInv'
  BY TypeStep, DiskStep, LeaseStep, ApplyStep, AgentStep, CoveredStep DEF IInv
<1>. QED  BY InitIInv, <1>1, PTL DEF Spec

\* For all versions, leases and crashes, the supervisor's variables have their types.
THEOREM TypeCorrect == Spec => []TypeOK
BY SupervisorInvariant, PTL DEF IInv

\* For all versions, all sequences of leases and all crashes, an agent outside the
\* trial run of Apply has the lease at whose end Tick stops it, unless the client
\* started on a state.json older than the last promotion.
THEOREM LeaseSafety == Spec => []LeaseCovered
BY SupervisorInvariant, PTL DEF IInv

\* For all versions, leases and crashes, an idle supervisor owns exactly the one
\* file that lastKnownGood names.
THEOREM LkgFileUnique == Spec => []OneLkgFile
<1>1. IInv => OneLkgFile
  BY DEF IInv, DiskPart, OneLkgFile
<1>. QED  BY <1>1, SupervisorInvariant, PTL

\* start never meets an agent that is still there.
THEOREM LaunchSafety == Spec => LaunchUnopposed
<1>1. IInv /\ [Next]_vars =>
        [process.set /\ process'.set =>
           process'.version = process.version /\ process'.allow = process.allow]_vars
  <2>. SUFFICES ASSUME IInv, Next, process.set, process'.set
                PROVE  process'.version = process.version /\ process'.allow = process.allow
    OBVIOUS
  <2>. USE DEF IInv
  <2>1. CASE UNCHANGED process
    BY <2>1
  <2>2. CASE AgentExit \/ Reap
    BY <2>2 DEF AgentExit, Reap, NoAgent, TypeOK, Agent
  <2>3. CASE ApplyStart \/ ApplyRestore \/ TickRestart
    BY <2>3, Zenon DEF ApplyStart, Trial, ApplyRestore, Restore, TickRestart, CanRestart, AgentPart
  <2>4. CASE Exit \/ Crash
    BY <2>4 DEF Exit, Crash, Forget, NoAgent
  <2>5. CASE Advance
    BY <2>5 DEF Advance, TypeOK, Agent
  <2>6. CASE \E v \in Versions, l \in Leases : ApplyBegin(v, l)
    BY <2>1, <2>6 DEF ApplyBegin, Halt, agent
  <2>. QED
    BY <2>1, <2>2, <2>3, <2>4, <2>5, <2>6, Zenon
    DEF Next, ApplyVerified, ApplyRejected, ApplyExited, ApplyAbandoned, ApplySettled,
        ApplyPromote, Promote, ApplyZero, ApplyRemove, ApplyCommit, Commit, StopDone,
        StopReturns, TickExpired, TickNothing, TickCooldown, Stop, Halt, SaveState, Cancel,
        New, NewZero, NewRemove, NewDone, TickerFires, agent
<1>. QED  BY <1>1, SupervisorInvariant, PTL DEF Spec, LaunchUnopposed

-----------------------------------------------------------------------------
(* The restart counters *)

\* What changes the counters: an exit nobody asked for, a commit, a tick that finds no
\* agent, the end of the client, and time.
LEMMA CountersQuiet ==
  [Next]_vars =>
      \/ UNCHANGED restarts
      \/ Reap \/ ApplyCommit \/ TickCooldown \/ TickRestart \/ Exit \/ Crash \/ Advance
BY Zenon DEF Next, AgentExit, ApplyBegin, ApplyVerified, ApplyRejected, ApplyStart, Trial,
   ApplyExited, ApplyAbandoned, ApplySettled, ApplyPromote, Promote, ApplyZero, ApplyRemove,
   ApplyRestore, Restore, StopDone, StopReturns, TickExpired, TickNothing, Stop, SaveState,
   Cancel, New, NewZero, NewRemove, NewDone, TickerFires, vars

\* No step leaves a cooldown behind that its failures do not justify.
LEMMA CooldownStep == TypeOK /\ CooldownCurrent /\ [Next]_vars => CooldownCurrent'
<1>. SUFFICES ASSUME TypeOK, CooldownCurrent, [Next]_vars, cooldownEnds' # NoTime
              PROVE  cooldownEnds' <= RestartCooldown /\ restartFailures' > RestartFailureLimit
  BY DEF CooldownCurrent
<1>0. /\ restartFailures \in Nat /\ RestartFailureLimit \in Nat /\ RestartCooldown \in Nat
      /\ MaxFailures \in Nat /\ MaxFailures > RestartFailureLimit /\ TickAge \in Nat
      /\ NoTime \notin Int /\ cooldownEnds \in Time /\ tick \in Int
  BY SupervisorAssumption DEF TypeOK
<1>1. CASE UNCHANGED restarts
  BY <1>1 DEF CooldownCurrent, restarts
<1>2. CASE Reap
  BY <1>0, <1>2 DEF CooldownCurrent, Reap, restarts, Min2
<1>3. CASE ApplyCommit \/ Exit \/ Crash
  BY <1>3 DEF ApplyCommit, Commit, Exit, Crash, Forget
<1>4. CASE TickCooldown
  BY <1>0, <1>4 DEF CooldownCurrent, TickCooldown, TickBegin
<1>5. CASE TickRestart
  BY <1>0, <1>5 DEF CooldownCurrent, TickRestart
<1>6. CASE Advance
  BY <1>0, <1>6 DEF CooldownCurrent, Advance, Age, Time
<1>. QED  BY <1>1, <1>2, <1>3, <1>4, <1>5, <1>6, CountersQuiet

\* For all versions, limits and crashes, a cooldown belongs to the failures counted
\* now (restartGaveUpAt in Tick and Apply).
THEOREM CooldownSafety == Spec => []CooldownCurrent
<1>1. Init => CooldownCurrent
  BY DEF Init, CooldownCurrent
<1>2. IInv => TypeOK
  BY DEF IInv
<1>. QED  BY <1>1, <1>2, CooldownStep, SupervisorInvariant, PTL DEF Spec

\* For all versions, limits and crashes, neither the exit of the agent on trial nor
\* one that stopProcess brings about counts as a failure (the goroutine of start).
THEOREM ExitsUncounted == Spec => IntendedExitUncounted
<1>1. IInv /\ [Next]_vars =>
        [op.step \in {"settle", "promote", "scrub", "commit"} \/ stopping =>
           restartFailures' <= restartFailures]_vars
  <2>. SUFFICES ASSUME IInv, [Next]_vars,
                       op.step \in {"settle", "promote", "scrub", "commit"} \/ stopping
                PROVE  restartFailures' <= restartFailures
    OBVIOUS
  <2>0. restartFailures \in Nat
    BY SupervisorAssumption DEF IInv, TypeOK
  <2>1. CASE UNCHANGED restarts \/ TickCooldown \/ Advance
    BY <2>0, <2>1 DEF restarts, TickCooldown, Advance
  <2>2. CASE Reap
    BY <2>0, <2>2 DEF IInv, AgentPart, Reap, restarts
  <2>3. CASE ApplyCommit \/ Exit \/ Crash
    BY <2>0, <2>3 DEF ApplyCommit, Commit, Exit, Crash, Forget
  <2>4. CASE TickRestart
    BY <2>4 DEF IInv, AgentPart, TickRestart, TickBegin
  <2>. QED  BY <2>1, <2>2, <2>3, <2>4, CountersQuiet
<1>. QED  BY <1>1, SupervisorInvariant, PTL DEF Spec, IntendedExitUncounted

=============================================================================
