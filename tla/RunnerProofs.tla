---------------------------- MODULE RunnerProofs ----------------------------
(***************************************************************************)
(* Proofs about RunnerPool and RunnerLaunch, for any finite set of VMs,    *)
(* any pools, demand and disturbances.                                     *)
(***************************************************************************)
EXTENDS RunnerLaunch, FiniteSetTheorems, TLAPS

-----------------------------------------------------------------------------
(* Type correctness.                                                       *)

LEMMA LeastOfThree ==
  ASSUME NEW a \in Nat, NEW b \in Nat, NEW c \in Nat
  PROVE  /\ Least({a, b, c}) \in {a, b, c}
         /\ Least({a, b, c}) <= a /\ Least({a, b, c}) <= b /\ Least({a, b, c}) <= c
<1>1. \E x \in {a, b, c} : \A y \in {a, b, c} : x <= y
  <2>1. CASE a <= b /\ a <= c BY <2>1
  <2>2. CASE b <= a /\ b <= c BY <2>2
  <2>3. CASE c <= a /\ c <= b BY <2>3
  <2> QED BY <2>1, <2>2, <2>3
<1> QED BY <1>1, Zenon DEF Least

LEMMA LeastOfTwo ==
  ASSUME NEW a \in Nat, NEW b \in Nat
  PROVE  Least({a, b}) = IF a <= b THEN a ELSE b
<1> DEFINE m == IF a <= b THEN a ELSE b
<1>1. m \in {a, b} /\ \A y \in {a, b} : m <= y
  OBVIOUS
<1>2. Least({a, b}) \in {a, b} /\ \A y \in {a, b} : Least({a, b}) <= y
  BY <1>1, Zenon DEF Least
<1> QED BY <1>1, <1>2

LEMMA GreatestOfThree ==
  ASSUME NEW a \in Nat, NEW b \in Nat, NEW c \in Nat
  PROVE  Greatest({a, b, c}) \in {a, b, c} /\ Greatest({a, b, c}) >= a
<1>1. \E x \in {a, b, c} : \A y \in {a, b, c} : x >= y
  <2>1. CASE a >= b /\ a >= c BY <2>1
  <2>2. CASE b >= a /\ b >= c BY <2>2
  <2>3. CASE c >= a /\ c >= b BY <2>3
  <2> QED BY <2>1, <2>2, <2>3
<1> QED BY <1>1, Zenon DEF Greatest

(* The most members a pool may have, and the fewest it promises.           *)
Cap == IF pool.kind = "warm" THEN pool.size ELSE ResolveRunnerScaling(pool).maxConcurrent
Floor ==
  IF pool.kind = "warm" THEN pool.size
  ELSE Least({ResolveRunnerScaling(pool).minIdle, ResolveRunnerScaling(pool).maxConcurrent})

(* What a pass creates fits under the cap with what it counted, and a pass *)
(* that creates nothing has counted the members the pool promises.         *)
LEMMA ToCreateBounds ==
  ASSUME pool \in PoolSpecs, NEW active \in Nat, NEW depth \in Nat, NEW demand \in Nat
  PROVE  /\ Cap \in Nat /\ Floor \in Nat
         /\ ToCreate(active, depth, demand) \in Nat
         /\ ToCreate(active, depth, demand) > 0 => active + ToCreate(active, depth, demand) <= Cap
         /\ ToCreate(active, depth, demand) = 0 => active >= Floor
<1>1. CASE pool.kind = "warm"
  <2>1. pool.size \in Nat
    BY <1>1, PoolAssumption, Zenon DEF ImpWarmPoolSpec, RunnerScalingSpec
  <2> QED BY <1>1, <2>1 DEF ToCreate, Minus, Cap, Floor
<1>2. CASE pool.kind # "warm"
  <2> DEFINE s == ResolveRunnerScaling(pool)
             d == Greatest({s.minIdle, IF s.polling THEN depth ELSE 0, IF s.webhook THEN demand ELSE 0})
  <2>1. pool \in RunnerScalingSpec
    BY <1>2, PoolAssumption, Zenon DEF ImpWarmPoolSpec
  <2>2. s.minIdle \in Nat /\ s.maxConcurrent \in Nat /\ s.scaleUpStep \in Nat \ {0}
    BY <2>1 DEF RunnerScalingSpec, ResolveRunnerScaling, OrElse
  <2> HIDE DEF s
  <2>3. d \in Nat /\ d >= s.minIdle
    BY <2>2, GreatestOfThree
  <2> HIDE DEF d
  <2> DEFINE n == Least({Minus(d, active), Minus(s.maxConcurrent, active), s.scaleUpStep})
  <2>4. ToCreate(active, depth, demand) = n
    BY <1>2, Zenon DEF ToCreate, s, d
  <2>5. Minus(d, active) \in Nat /\ Minus(s.maxConcurrent, active) \in Nat
    BY <2>2, <2>3 DEF Minus
  <2>6. /\ n \in {Minus(d, active), Minus(s.maxConcurrent, active), s.scaleUpStep}
        /\ n <= Minus(s.maxConcurrent, active)
    BY <2>2, <2>5, LeastOfThree, Zenon
  <2> HIDE DEF n
  <2>7. Cap = s.maxConcurrent /\ Floor = IF s.minIdle <= s.maxConcurrent THEN s.minIdle ELSE s.maxConcurrent
    BY <1>2, <2>2, LeastOfTwo, Zenon DEF Cap, Floor, s
  <2> QED BY <2>2, <2>3, <2>4, <2>5, <2>6, <2>7 DEF Minus
<1> QED BY <1>1, <1>2, Zenon

LEMMA ActiveCount ==
  ASSUME NEW c
  PROVE  IsFiniteSet(Active(c)) /\ Cardinality(Active(c)) \in Nat
BY VMsAssumption, FS_Subset, FS_CardinalityType, Zenon DEF Active

LEMMA InitType == Init => TypeOK
<1> SUFFICES ASSUME Init PROVE TypeOK
  BY Zenon
<1>1. Absent \in ImpVM /\ NoLaunch \in Launch
  BY Zenon DEF Absent, ImpVM, NoLaunch, Launch, Results
<1>2. PoolTypeOK
  BY <1>1, Zenon DEF Init, PoolInit, PoolTypeOK
<1> QED BY <1>1, <1>2, Zenon DEF Init, TypeOK

(* Reconcile sets out to create what ToCreate says, for some depth and     *)
(* demand.                                                                 *)
LEMMA PassCount ==
  ASSUME Reconcile
  PROVE  \E depth \in 0..MaxDemand, demand \in 0..MaxDemand :
           LET n == ToCreate(Cardinality(Active(OpVMs)), depth, demand)
           IN  /\ op' = IF n = 0 THEN Idle ELSE [pc |-> "create", left |-> n]
               /\ overcount' = (overcount \/ (n > 0 /\ OpVMs # vm))
<1>1. PICK n \in Creations :
        /\ op' = IF n = 0 THEN Idle ELSE [pc |-> "create", left |-> n]
        /\ overcount' = (overcount \/ (n > 0 /\ OpVMs # vm))
  BY Zenon DEF Reconcile
<1>2. PICK depth \in 0..MaxDemand, demand \in 0..MaxDemand :
        n = ToCreate(Cardinality(Active(OpVMs)), depth, demand)
  <2>1. n \in Creations
    BY <1>1, Zenon
  <2> QED
    BY <2>1 DEF Creations
<1> QED
  BY <1>1, <1>2, Zenon

(* The fields of a VM as the handlers set them.                            *)
LEMMA UpdateType ==
  ASSUME NEW o \in ImpVM
  PROVE  /\ \A b \in BOOLEAN : [o EXCEPT !.deleting = b] \in ImpVM
         /\ [o EXCEPT !.ref = TRUE] \in ImpVM /\ [o EXCEPT !.accepted = TRUE] \in ImpVM
         /\ \A x \in {0, 1} : [o EXCEPT !.exit = x] \in ImpVM
         /\ \A p \in {"Pending", "Running", "Succeeded", "Failed", "Terminating", "gone"} :
              [o EXCEPT !.phase = p] \in ImpVM
BY Zenon DEF ImpVM, Terminal

LEMMA HappensType ==
  ASSUME events \in Nat, NEW kind, Happens(kind)
  PROVE  events' \in Nat
BY DEF Happens

LEMMA ContinueType ==
  ASSUME NEW left \in Nat \ {0}, Continue(left)
  PROVE  op' \in Pass \cup {Idle}
BY DEF Continue, Pass

LEMMA WriteType ==
  ASSUME TypeOK, NEW v \in VMs, NEW new \in ImpVM, Write(v, new)
  PROVE  vm' \in [VMs -> ImpVM] /\ todo' \subseteq VMs /\ queued' \in BOOLEAN
BY Zenon DEF TypeOK, PoolTypeOK, Write

LEMMA PoolType ==
  ASSUME TypeOK, PoolNext, UNCHANGED launchVars
  PROVE  TypeOK'
<1> SUFFICES PoolTypeOK'
  BY Zenon DEF TypeOK, launchVars
<1> USE DEF TypeOK, PoolTypeOK
<1>1. CASE Reconcile
  <2>1. PICK depth \in 0..MaxDemand, demand \in 0..MaxDemand :
          LET n == ToCreate(Cardinality(Active(OpVMs)), depth, demand)
          IN  /\ op' = IF n = 0 THEN Idle ELSE [pc |-> "create", left |-> n]
              /\ overcount' = (overcount \/ (n > 0 /\ OpVMs # vm))
    BY <1>1, PassCount, Zenon
  <2>2. ToCreate(Cardinality(Active(OpVMs)), depth, demand) \in Nat
    BY ToCreateBounds, ActiveCount, BoundAssumption
  <2>3. op' \in Pass \cup {Idle} /\ overcount' \in BOOLEAN
    BY <2>1, <2>2, Zenon DEF Pass
  <2>4. vm' \in [VMs -> ImpVM]
    BY <1>1, UpdateType, Zenon DEF Reconcile
  <2>5. todo' \subseteq VMs /\ queued' \in BOOLEAN
    BY <1>1, Zenon DEF Reconcile, ToAgent
  <2> QED BY <1>1, <2>3, <2>4, <2>5, Zenon DEF Reconcile
<1>2. CASE Wait
  BY <1>2, Zenon DEF Wait
<1>3. CASE CreateVM
  <2>1. op.left \in Nat \ {0}
    BY <1>3 DEF CreateVM, Pass, Idle
  <2>2. events' \in Nat
    BY <1>3, HappensType, Zenon DEF CreateVM
  <2>3. ASSUME NEW v \in VMs, vm' = [vm EXCEPT ![v].phase = "Pending"]
        PROVE  vm' \in [VMs -> ImpVM]
    BY <2>3, UpdateType, Zenon
  <2>4. vm' \in [VMs -> ImpVM] /\ todo' \subseteq VMs /\ queued' \in BOOLEAN
    BY <1>3, <2>3, Zenon DEF CreateVM, ToAgent, ToPool, GiveUp
  <2>5. op' \in Pass \cup {Idle}
    <3>1. \A v \in VMs : [pc |-> "mint", vm |-> v, left |-> op.left] \in Pass
      BY <2>1, Zenon DEF Pass
    <3> QED BY <1>3, <2>1, <3>1, ContinueType, ZenonT(60) DEF CreateVM, GiveUp
  <2> QED BY <1>3, <2>2, <2>4, <2>5, Zenon DEF CreateVM
<1>4. ASSUME NEW v \in VMs, Rollback(v)
      PROVE  vm' \in [VMs -> ImpVM] /\ todo' \subseteq VMs /\ stranded' \subseteq VMs
  <2>1. [vm[v] EXCEPT !.deleting = Exists(v)] \in ImpVM
    BY UpdateType, Exists(v) \in BOOLEAN, Zenon DEF Exists
  <2>2. vm' \in [VMs -> ImpVM]
    BY <1>4, <2>1, Zenon DEF Rollback
  <2> QED BY <1>4, <2>2, Zenon DEF Rollback, ToAgent
<1>5. CASE MintRunnerConfig
  <2>1. op.vm \in VMs /\ [op EXCEPT !.pc = "patch"] \in Pass
    BY <1>5 DEF MintRunnerConfig, Pass, Idle
  <2> QED BY <1>4, <1>5, <2>1, HappensType, Zenon DEF MintRunnerConfig, GiveUp
<1>6. CASE PatchRunnerSecretReference
  <2>1. op.vm \in VMs /\ op.left \in Nat \ {0}
    BY <1>6 DEF PatchRunnerSecretReference, Pass, Idle
  <2>2. Continue(op.left) \/ GiveUp
    BY <1>6, Zenon DEF PatchRunnerSecretReference
  <2>3. op' \in Pass \cup {Idle}
    BY <2>1, <2>2, ContinueType, Zenon DEF GiveUp
  <2>4. [vm EXCEPT ![op.vm].ref = TRUE] \in [VMs -> ImpVM]
    BY <2>1, UpdateType, Zenon
  <2> QED
    BY <1>4, <1>6, <2>1, <2>3, <2>4, HappensType, Zenon
    DEF PatchRunnerSecretReference, ToAgent, ToPool, GiveUp
<1>7. ASSUME NEW v \in VMs, Expire(v) PROVE PoolTypeOK'
  <2>1. vm' \in [VMs -> ImpVM]
    BY <1>7, UpdateType, Zenon DEF Expire
  <2> QED BY <1>7, <2>1, HappensType, Zenon DEF Expire, ToAgent, ToPool
<1>13. ASSUME NEW v \in VMs, HandleFailed(v) PROVE PoolTypeOK'
  <2>1. [vm[v] EXCEPT !.phase = "Pending"] \in ImpVM
    BY UpdateType, Zenon
  <2>2. vm' \in [VMs -> ImpVM]
    BY <1>13, <2>1, Zenon DEF HandleFailed
  <2> QED BY <1>13, <2>2, HappensType, Zenon DEF HandleFailed, ToAgent, ToPool
<1>8. CASE OpCrash
  BY <1>8 DEF OpCrash, Happens, Pass, Idle
<1>9. CASE PoolTimer
  BY <1>9, Zenon DEF PoolTimer
<1>10. CASE ElectBase
  BY <1>10, Zenon DEF ElectBase
<1>11. CASE OpFreeze
  BY <1>11 DEF OpFreeze, Happens
<1>12. CASE OpCatchUp
  BY <1>12, Zenon DEF OpCatchUp
<1> QED
  BY <1>1, <1>2, <1>3, <1>5, <1>6, <1>7, <1>8, <1>9, <1>10, <1>11, <1>12, <1>13, Zenon DEF PoolNext

(* What handleRunning does to its VM after the handoff.                    *)
LEMMA SettleEffect ==
  ASSUME TypeOK, NEW v \in VMs, NEW alive \in {"Running", "Failed"}, Settle(v, alive),
         AgVMs[v].phase = "Running"
  PROVE  /\ vm' \in [VMs -> ImpVM] /\ todo' \subseteq VMs /\ queued' \in BOOLEAN
         /\ vm' = vm \/ (Exists(v) /\ \E p \in Terminal : vm' = [vm EXCEPT ![v].phase = p])
         /\ vm'[v].phase = "Running" => alive = "Running"
         /\ todo \ {v} \subseteq todo' /\ todo' \subseteq todo
         /\ queued => queued'
         /\ opCache = Live => queued' \/ vm' = vm
<1> USE DEF TypeOK, PoolTypeOK
<1> DEFINE phase == IF guest[v] = "dead" THEN "Succeeded" ELSE alive
<1>0. vm \in [VMs -> ImpVM] /\ vm[v] \in ImpVM
  BY Zenon
<1>1. phase \in {"Succeeded", "Running", "Failed"} /\ (phase = "Running" => alive = "Running")
  BY Zenon
<1>2. CASE Exists(v) /\ phase # "Running"
  <2>1. vm' = [vm EXCEPT ![v].phase = phase] /\ ToPool /\ (todo' = todo \/ todo' = todo \ {v})
    BY <1>2, Zenon DEF Settle
  <2>2. phase \in Terminal
    BY <1>1, <1>2 DEF Terminal
  <2> HIDE DEF phase
  <2>3. [vm[v] EXCEPT !.phase = phase] \in ImpVM /\ [vm[v] EXCEPT !.phase = phase].phase = phase
    BY <1>0, <1>1, UpdateType, Zenon DEF ImpVM
  <2>4. vm' \in [VMs -> ImpVM] /\ vm'[v].phase = phase
    BY <1>0, <2>1, <2>3, Zenon
  <2> QED BY <1>2, <2>1, <2>2, <2>4, Zenon DEF ToPool
<1>3. CASE ~(Exists(v) /\ phase # "Running")
  <2>1. todo' = todo \ {v} /\ UNCHANGED <<vm, queued>>
    BY <1>3, Zenon DEF Settle
  <2> QED BY <1>1, <1>3, <2>1, Zenon DEF Exists
<1> QED BY <1>2, <1>3, Zenon

(* What handleRunning does to the launch.                                  *)
LEMMA RunningHandoff ==
  ASSUME NEW v \in VMs, HandleRunning(v)
  PROVE  LET c == AgVMs[v]
         IN  \/ /\ Settle(v, "Running") /\ unmarked' = unmarked /\ events' = events
                /\ MaybeLaunchRunner(v, c)
                /\ outdated' = IF c.ref /\ launch[v] = NoLaunch /\ c # vm[v]
                               THEN outdated \cup {v} ELSE outdated
             \/ /\ Settle(v, "Failed") /\ unmarked' = unmarked /\ Happens("rpc")
                /\ UNCHANGED <<launch, marks, outdated>>
             \/ /\ Settle(v, "Running") /\ unmarked' = unmarked \cup {v} /\ Happens("rpc")
                /\ UNCHANGED <<launch, marks, outdated>>
BY Zenon DEF HandleRunning, NoVSOCK

(* What handleScheduled writes, and what it does to the launch.            *)
LEMMA ScheduledHandoff ==
  ASSUME NEW v \in VMs, HandleScheduled(v)
  PROVE  LET new == [vm[v] EXCEPT !.phase = "Running"]
             failed == [vm[v] EXCEPT !.phase = "Failed"]
         IN  \/ /\ Write(v, new) /\ unmarked' = unmarked /\ events' = events
                /\ MaybeLaunchRunner(v, new)
             \/ /\ Write(v, failed) /\ unmarked' = unmarked /\ UNCHANGED <<launch, marks>>
                /\ Happens("rpc") \/ Happens("startfail")
             \/ /\ Write(v, new) /\ unmarked' = unmarked \cup {v} /\ UNCHANGED <<launch, marks>>
                /\ Happens("rpc")
BY Zenon DEF HandleScheduled, NoVSOCK

LEMMA MaybeLaunchType ==
  ASSUME TypeOK, NEW v \in VMs, NEW c \in ImpVM, MaybeLaunchRunner(v, c)
  PROVE  launch' \in [VMs -> Launch] /\ marks' \in [VMs -> SUBSET Results]
<1>1. Begin(c) \in Launch /\ Verdict(c) \subseteq Results
  BY Zenon DEF Launch, NoLaunch, Begin, Verdict, Results
<1>2. marks[v] \cup Verdict(c) \in SUBSET Results
  BY <1>1, Zenon DEF TypeOK
<1> QED BY <1>1, <1>2, Zenon DEF MaybeLaunchRunner, TypeOK

LEMMA LaunchType ==
  ASSUME TypeOK, NEW v \in VMs,
         \/ HandleScheduled(v) \/ HandleRunning(v) \/ Ignore(v)
         \/ HandleDeletion(v) \/ HandleTerminating(v)
         \/ GetSecretAndDial(v) \/ RecordAccepted(v) \/ Exec(v) \/ ExecReturns(v)
         \/ RecordOutcome(v) \/ DeleteSecret(v) \/ FinishRunnerLaunch(v)
         \/ RunnerExits(v) \/ GuestDies(v)
  PROVE  TypeOK'
<1> USE DEF TypeOK, PoolTypeOK
<1>1. vm[v] \in ImpVM /\ AgVMs[v] \in ImpVM /\ launch[v] \in Launch /\ code[v] \in {0, 1}
  BY Zenon DEF AgVMs
<1>2. NoLaunch \in Launch
  BY Zenon DEF Launch, NoLaunch
<1>3. /\ launch[v].pc # "cleanup" =>
           \A pc \in {"accept", "exec", "wait", "record"} : Goes(v, pc) => launch' \in [VMs -> Launch]
      /\ \A res \in Results : CleansUp(v, res) => launch' \in [VMs -> Launch]
      /\ launch[v].pc = "cleanup" => launch[v].res \in Results
      /\ \A res \in Results : Returns(v, res) => launch' \in [VMs -> Launch]
  <2>1. launch[v].pc # "cleanup" =>
          \A pc \in {"accept", "exec", "wait", "record"} : [launch[v] EXCEPT !.pc = pc] \in Launch
    BY <1>1, Zenon DEF Launch
  <2>2. \A res \in Results : [pc |-> "cleanup", res |-> res] \in Launch
    BY Zenon DEF Launch
  <2>3. launch[v].pc = "cleanup" => launch[v].res \in Results
    BY <1>1, Zenon DEF Launch
  <2> HIDE DEF TypeOK, PoolTypeOK
  <2>4. launch \in [VMs -> Launch]
    BY Zenon DEF TypeOK
  <2>5. ASSUME launch[v].pc # "cleanup", NEW pc \in {"accept", "exec", "wait", "record"}, Goes(v, pc)
        PROVE  launch' \in [VMs -> Launch]
    BY <2>1, <2>4, <2>5, Zenon DEF Goes
  <2>6. ASSUME NEW res \in Results PROVE CleansUp(v, res) \/ Returns(v, res) => launch' \in [VMs -> Launch]
    BY <1>2, <2>2, <2>4, Zenon DEF CleansUp, Returns
  <2> QED BY <2>3, <2>5, <2>6, Zenon
<1>a. ASSUME NEW res \in Results, Returns(v, res) PROVE marks' \in [VMs -> SUBSET Results]
  <2>1. marks \in [VMs -> SUBSET Results] /\ marks[v] \cup {res} \in SUBSET Results
    BY Zenon
  <2> HIDE DEF TypeOK, PoolTypeOK
  <2> QED BY <1>a, <2>1, Zenon DEF Returns
<1>b. {"ok", "err"} = Results
  BY Zenon DEF Results
<1>4. CASE HandleScheduled(v)
  <2>1. \A p \in {"Running", "Failed"} : [vm[v] EXCEPT !.phase = p] \in ImpVM
    BY <1>1, UpdateType, Zenon
  <2>2. \E new \in ImpVM : Write(v, new)
    BY <1>4, <2>1, ScheduledHandoff, Zenon
  <2>3. vm' \in [VMs -> ImpVM] /\ todo' \subseteq VMs /\ queued' \in BOOLEAN
    BY <2>2, WriteType, Zenon
  <2>4. launch' \in [VMs -> Launch] /\ marks' \in [VMs -> SUBSET Results]
    BY <1>4, <2>1, ScheduledHandoff, MaybeLaunchType, Zenon
  <2>5. unmarked' \subseteq VMs /\ events' \in Nat
    BY <1>4, ScheduledHandoff, HappensType, Zenon
  <2>6. guest' \in [VMs -> {"off", "up", "busy", "over", "dead"}]
    BY <1>4, Zenon DEF HandleScheduled
  <2>7. UNCHANGED <<poolRest, secret, code, runs, outdated, kept>>
    BY <1>4, Zenon DEF HandleScheduled
  <2> QED BY <2>3, <2>4, <2>5, <2>6, <2>7, Zenon DEF poolRest
<1>5. CASE HandleRunning(v)
  <2>1. AgVMs[v].phase = "Running" /\ UNCHANGED <<poolRest, secret, guest, code, runs, kept>>
    BY <1>5, Zenon DEF HandleRunning
  <2>2. \E alive \in {"Running", "Failed"} : Settle(v, alive)
    BY <1>5, RunningHandoff, Zenon
  <2>3. vm' \in [VMs -> ImpVM] /\ todo' \subseteq VMs /\ queued' \in BOOLEAN
    BY <2>1, <2>2, SettleEffect, Zenon
  <2>4. launch' \in [VMs -> Launch] /\ marks' \in [VMs -> SUBSET Results]
    BY <1>1, <1>5, RunningHandoff, MaybeLaunchType, Zenon
  <2>5. unmarked' \subseteq VMs /\ outdated' \subseteq VMs /\ events' \in Nat
    BY <1>5, RunningHandoff, HappensType, Zenon
  <2> QED BY <2>1, <2>3, <2>4, <2>5, Zenon DEF poolRest
<1>6. CASE Ignore(v)
  BY <1>6, Zenon DEF Ignore, poolVars, launchVars
<1>7. CASE HandleDeletion(v)
  <2>1. [vm[v] EXCEPT !.phase = "Terminating"] \in ImpVM
    BY <1>1, UpdateType, Zenon
  <2> QED BY <1>7, <2>1, WriteType, Zenon DEF HandleDeletion, poolRest, launchVars
<1>8. CASE HandleTerminating(v)
  <2>1. vm' \in [VMs -> ImpVM]
    BY <1>1, <1>8, UpdateType, Zenon DEF HandleTerminating
  <2>2. secret' \in [VMs -> {"none", "stored", "deleted"}]
    BY <1>8, Zenon DEF HandleTerminating
  <2> QED BY <1>8, <2>1, <2>2, Zenon DEF HandleTerminating, ToPool, poolRest
<1>9. CASE GetSecretAndDial(v)
  <2>1. launch' \in [VMs -> Launch] /\ marks' \in [VMs -> SUBSET Results]
    BY <1>3, <1>9, <1>a, <1>b, Zenon DEF GetSecretAndDial, Goes
  <2> QED BY <1>9, <2>1, HappensType, Zenon DEF GetSecretAndDial, poolVars
<1>10. CASE RecordAccepted(v)
  <2>1. [vm[v] EXCEPT !.accepted = TRUE] \in ImpVM
    BY <1>1, UpdateType, Zenon
  <2>2. launch' \in [VMs -> Launch] /\ marks' \in [VMs -> SUBSET Results]
    BY <1>3, <1>10, <1>a, <1>b, Zenon DEF RecordAccepted, Goes
  <2>3. vm' \in [VMs -> ImpVM] /\ todo' \subseteq VMs /\ queued' \in BOOLEAN
    BY <1>10, <2>1, WriteType, Zenon DEF RecordAccepted, Unwritten
  <2> QED BY <1>10, <2>2, <2>3, HappensType, Zenon DEF RecordAccepted, poolRest
<1>11. CASE Exec(v)
  <2>1. launch' \in [VMs -> Launch] /\ marks' \in [VMs -> SUBSET Results]
    BY <1>3, <1>11, <1>b, Zenon DEF Exec, Goes, CleansUp
  <2>2. runs' \in [VMs -> Nat] /\ guest' \in [VMs -> {"off", "up", "busy", "over", "dead"}]
    BY <1>11 DEF Exec
  <2> QED BY <1>11, <2>1, <2>2, Zenon DEF Exec, poolVars
<1>12. CASE ExecReturns(v)
  <2>1. launch' \in [VMs -> Launch] /\ marks' \in [VMs -> SUBSET Results]
    BY <1>3, <1>12, <1>b, Zenon DEF ExecReturns, Goes, CleansUp
  <2>2. code' \in [VMs -> {0, 1}]
    BY <1>12, Zenon DEF ExecReturns
  <2> QED BY <1>12, <2>1, <2>2, HappensType, Zenon DEF ExecReturns, poolVars
<1>13. CASE RecordOutcome(v)
  <2>1. [vm[v] EXCEPT !.exit = code[v]] \in ImpVM
    BY <1>1, UpdateType, Zenon
  <2>2. launch' \in [VMs -> Launch] /\ marks' = marks
    BY <1>3, <1>13, <1>b, Zenon DEF RecordOutcome, CleansUp
  <2>3. vm' \in [VMs -> ImpVM] /\ todo' \subseteq VMs /\ queued' \in BOOLEAN
    BY <1>13, <2>1, WriteType, Zenon DEF RecordOutcome, Unwritten
  <2> QED BY <1>13, <2>2, <2>3, HappensType, Zenon DEF RecordOutcome, poolRest
<1>14. CASE DeleteSecret(v)
  <2>1. launch' \in [VMs -> Launch] /\ marks' \in [VMs -> SUBSET Results]
    BY <1>3, <1>14, <1>a, Zenon DEF DeleteSecret
  <2>2. secret' \in [VMs -> {"none", "stored", "deleted"}] /\ kept' \subseteq VMs
    BY <1>14, Zenon DEF DeleteSecret
  <2> QED BY <1>14, <2>1, <2>2, HappensType, Zenon DEF DeleteSecret, poolRest
<1>15. CASE FinishRunnerLaunch(v)
  <2>1. \A p \in {"Succeeded", "Failed"} : [vm[v] EXCEPT !.phase = p] \in ImpVM
    BY <1>1, UpdateType, Zenon
  <2>2. Unwritten \/ \E new \in ImpVM : Write(v, new)
    BY <1>15, <2>1, Zenon DEF FinishRunnerLaunch
  <2>3. vm' \in [VMs -> ImpVM] /\ todo' \subseteq VMs /\ queued' \in BOOLEAN
    BY <2>2, WriteType, Zenon DEF Unwritten
  <2>4. unmarked' \subseteq VMs /\ events' \in Nat
    <3>1. unmarked' = unmarked \/ unmarked' = unmarked \cup {v}
      BY <1>15, Zenon DEF FinishRunnerLaunch
    <3>2. events' = events \/ Happens("api")
      BY <1>15, Zenon DEF FinishRunnerLaunch
    <3> QED BY <3>1, <3>2, HappensType, Zenon
  <2>6. PICK res : marks' = [marks EXCEPT ![v] = @ \ {res}]
    BY <1>15, Zenon DEF FinishRunnerLaunch
  <2>7. marks' \in [VMs -> SUBSET Results]
    BY <2>6, Zenon
  <2>5. UNCHANGED <<poolRest, secret, guest, code, runs, launch, outdated, kept>>
    BY <1>15, Zenon DEF FinishRunnerLaunch
  <2> QED BY <2>3, <2>4, <2>5, <2>7, Zenon DEF poolRest
<1>16. CASE RunnerExits(v)
  BY <1>16 DEF RunnerExits, poolVars
<1>17. CASE GuestDies(v)
  BY <1>17, HappensType, Zenon DEF GuestDies, poolVars
<1> QED
  BY <1>4, <1>5, <1>6, <1>7, <1>8, <1>9, <1>10, <1>11, <1>12, <1>13, <1>14, <1>15, <1>16, <1>17, Zenon

LEMMA AgentType ==
  ASSUME TypeOK, AgCrash \/ AgFreeze \/ AgCatchUp
  PROVE  TypeOK'
<1> USE HappensType DEF TypeOK, PoolTypeOK
<1>1. NoLaunch \in Launch
  BY Zenon DEF Launch, NoLaunch, Results
<1>2. CASE AgCrash
  BY <1>1, <1>2, Zenon DEF AgCrash, poolVars
<1>3. CASE AgFreeze
  BY <1>3, Zenon DEF AgFreeze, poolVars, launchVars
<1>4. CASE AgCatchUp
  BY <1>4, Zenon DEF AgCatchUp, poolVars, launchVars
<1> QED BY <1>2, <1>3, <1>4, Zenon

LEMMA TypeStep == TypeOK /\ [Next]_vars => TypeOK'
<1>1. TypeOK /\ UNCHANGED vars => TypeOK'
  BY Zenon DEF TypeOK, PoolTypeOK, vars, poolVars, launchVars
<1> QED BY <1>1, PoolType, LaunchType, AgentType, Zenon DEF Next

-----------------------------------------------------------------------------
(* What a step does to one VM.                                             *)

(* The operator creates VM w, sets its reference, deletes it or has it     *)
(* start again, and leaves the rest of it to the agent.                    *)
LEMMA PoolEffect ==
  ASSUME TypeOK, PoolNext, NEW w \in VMs
  PROVE  /\ vm'[w].accepted = vm[w].accepted /\ vm'[w].exit = vm[w].exit
         /\ \/ vm'[w].phase = vm[w].phase
            \/ CreateVM /\ vm[w].phase = "absent" /\ vm'[w].phase = "Pending"
            \/ Exists(w) /\ vm'[w].phase = "Pending" /\ w \in returned'
         /\ returned \subseteq returned'
         /\ \/ vm'[w].ref = vm[w].ref
            \/ vm'[w].ref /\ Exists(w) /\ op.pc = "patch" /\ op.vm = w /\ op'.pc \in {"idle", "create"}
         /\ Exists(w) /\ vm[w].deleting => vm'[w].deleting
         /\ secret'[w] = secret[w] \/ (op.pc = "mint" /\ op.vm = w)
         /\ op'.pc \in {"mint", "patch"} =>
              \/ op.pc \in {"mint", "patch"} /\ op'.vm = op.vm
              \/ vm[op'.vm].phase = "absent" /\ vm'[op'.vm].phase = "Pending"
         /\ agCache' = agCache
<1> USE DEF TypeOK, PoolTypeOK
<1>0. vm[w] \in ImpVM
  BY Zenon
<1>a. op.pc \in {"create", "mint", "patch"} => op \in Pass
  BY DEF Idle
<1>1. CASE Reconcile
  <2>1. vm'[w] \in {vm[w], [vm[w] EXCEPT !.deleting = TRUE]}
    BY <1>1, Zenon DEF Reconcile
  <2>2. op'.pc \in {"idle", "create"} /\ UNCHANGED <<secret, agCache, returned>>
    BY <1>1 DEF Reconcile, Idle
  <2> QED BY <1>0, <2>1, <2>2 DEF ImpVM
<1>2. CASE Wait \/ PoolTimer \/ ElectBase \/ OpFreeze \/ OpCatchUp
  BY <1>2, Zenon DEF Wait, PoolTimer, ElectBase, OpFreeze, OpCatchUp, Idle
<1>3. CASE CreateVM
  <2>a. ASSUME NEW v \in VMs, vm[v].phase = "absent", vm' = [vm EXCEPT ![v].phase = "Pending"]
        PROVE  vm'[w] = vm[w] \/ (vm[w].phase = "absent" /\ vm'[w] = [vm[w] EXCEPT !.phase = "Pending"])
    BY <2>a, Zenon
  <2>1. vm'[w] = vm[w] \/ (vm[w].phase = "absent" /\ vm'[w] = [vm[w] EXCEPT !.phase = "Pending"])
    BY <1>3, <2>a, Zenon DEF CreateVM
  <2>b. Continue(op.left) \/ GiveUp => op'.pc \in {"idle", "create"}
    BY DEF Continue, GiveUp, Idle
  <2>2. op'.pc \in {"mint", "patch"} => vm[op'.vm].phase = "absent" /\ vm'[op'.vm].phase = "Pending"
    <3>1. CASE GiveUp
      BY <2>b, <3>1, Zenon
    <3>2. ASSUME NEW v \in VMs, vm[v].phase = "absent", vm' = [vm EXCEPT ![v].phase = "Pending"],
                 Continue(op.left) \/ op' = [pc |-> "mint", vm |-> v, left |-> op.left]
          PROVE  op'.pc \in {"mint", "patch"} => vm[op'.vm].phase = "absent" /\ vm'[op'.vm].phase = "Pending"
      <4>1. vm'[v].phase = "Pending"
        BY <3>2 DEF ImpVM
      <4> QED BY <2>b, <3>2, <4>1
    <3> QED BY <1>3, <3>1, <3>2, Zenon DEF CreateVM
  <2>3. UNCHANGED <<secret, agCache, returned>>
    BY <1>3, Zenon DEF CreateVM
  <2> QED BY <1>0, <1>3, <2>1, <2>2, <2>3, Zenon DEF ImpVM, Exists
<1>4. ASSUME NEW v \in VMs, Rollback(v)
      PROVE  vm'[w] = vm[w] \/ vm'[w] = [vm[w] EXCEPT !.deleting = Exists(w)]
  BY <1>4 DEF Rollback
<1>5. CASE MintRunnerConfig
  <2>1. op \in Pass /\ op.vm \in VMs
    BY <1>5, <1>a, Zenon DEF MintRunnerConfig, Pass
  <2>2. vm'[w] = vm[w] \/ vm'[w] = [vm[w] EXCEPT !.deleting = Exists(w)]
    BY <1>4, <1>5, <2>1, Zenon DEF MintRunnerConfig
  <2>3. op'.pc \in {"mint", "patch"} => op'.vm = op.vm
    BY <1>5, <2>1 DEF MintRunnerConfig, GiveUp, Idle, Pass
  <2>4. secret'[w] = secret[w] \/ (op.pc = "mint" /\ op.vm = w)
    BY <1>5, <2>1, Zenon DEF MintRunnerConfig
  <2> QED BY <1>0, <1>5, <2>2, <2>3, <2>4 DEF ImpVM, MintRunnerConfig
<1>6. CASE PatchRunnerSecretReference
  <2>1. op \in Pass /\ op.vm \in VMs
    BY <1>6, <1>a, Zenon DEF PatchRunnerSecretReference, Pass
  <2>2. \/ vm'[w] = vm[w] \/ vm'[w] = [vm[w] EXCEPT !.deleting = Exists(w)]
        \/ vm'[w] = [vm[w] EXCEPT !.ref = TRUE] /\ op.vm = w /\ Exists(w)
    <3>1. CASE Rollback(op.vm)
      BY <1>4, <2>1, <3>1, Zenon
    <3>2. CASE Exists(op.vm) /\ vm' = [vm EXCEPT ![op.vm].ref = TRUE]
      BY <2>1, <3>2, Zenon
    <3> QED BY <1>6, <3>1, <3>2, Zenon DEF PatchRunnerSecretReference
  <2>3. op'.pc \in {"idle", "create"}
    BY <1>6 DEF PatchRunnerSecretReference, Continue, GiveUp, Idle
  <2> QED BY <1>0, <1>6, <2>2, <2>3 DEF ImpVM, PatchRunnerSecretReference
<1>7. ASSUME NEW v \in VMs, Expire(v)
      PROVE  /\ vm'[w] = vm[w] \/ vm'[w] = [vm[w] EXCEPT !.deleting = TRUE]
             /\ UNCHANGED <<op, secret, agCache, returned>>
  BY <1>7, Zenon DEF Expire
<1>8. CASE \E v \in VMs : Expire(v)
  BY <1>0, <1>7, <1>8 DEF ImpVM
<1>10. ASSUME NEW v \in VMs, HandleFailed(v)
       PROVE  /\ vm'[w] = vm[w] \/ (Exists(w) /\ w \in returned' /\ vm'[w] = [vm[w] EXCEPT !.phase = "Pending"])
              /\ UNCHANGED <<op, secret, agCache>> /\ returned \subseteq returned'
  BY <1>10, Zenon DEF HandleFailed
<1>11. CASE \E v \in VMs : HandleFailed(v)
  <2>1. /\ vm'[w] = vm[w] \/ (Exists(w) /\ w \in returned' /\ vm'[w] = [vm[w] EXCEPT !.phase = "Pending"])
        /\ UNCHANGED <<op, secret, agCache>> /\ returned \subseteq returned'
    BY <1>10, <1>11, Zenon
  <2>2. vm'[w].deleting = vm[w].deleting /\ vm'[w].ref = vm[w].ref
        /\ vm'[w].accepted = vm[w].accepted /\ vm'[w].exit = vm[w].exit
    BY <1>0, <2>1 DEF ImpVM
  <2>3. vm'[w].phase = vm[w].phase \/ (Exists(w) /\ vm'[w].phase = "Pending" /\ w \in returned')
    BY <1>0, <2>1 DEF ImpVM
  <2> QED BY <2>1, <2>2, <2>3, Zenon
<1>9. CASE OpCrash
  BY <1>9, Zenon DEF OpCrash, Idle
<1> QED
  BY <1>1, <1>2, <1>3, <1>5, <1>6, <1>8, <1>9, <1>11, Zenon DEF PoolNext

LaunchStep(v) ==
  \/ HandleScheduled(v) \/ HandleRunning(v) \/ Ignore(v)
  \/ HandleDeletion(v) \/ HandleTerminating(v)
  \/ GetSecretAndDial(v) \/ RecordAccepted(v) \/ Exec(v) \/ ExecReturns(v)
  \/ RecordOutcome(v) \/ DeleteSecret(v) \/ FinishRunnerLaunch(v)
  \/ RunnerExits(v) \/ GuestDies(v)

(* A handler, a launch or a guest touches one VM.                          *)
LEMMA OthersUntouched ==
  ASSUME TypeOK, NEW v \in VMs, LaunchStep(v), NEW w \in VMs, w # v
  PROVE  /\ vm'[w] = vm[w] /\ secret'[w] = secret[w] /\ launch'[w] = launch[w]
         /\ marks'[w] = marks[w] /\ guest'[w] = guest[w] /\ runs'[w] = runs[w]
         /\ w \in outdated' <=> w \in outdated
         /\ w \in kept' <=> w \in kept
         /\ w \in unmarked' <=> w \in unmarked
         /\ w \in todo' <=> w \in todo
         /\ UNCHANGED <<op, agCache, returned>>
<1> USE DEF TypeOK, PoolTypeOK
<1>a. \A c : MaybeLaunchRunner(v, c) \/ UNCHANGED <<launch, marks>> =>
        launch'[w] = launch[w] /\ marks'[w] = marks[w]
  BY Zenon DEF MaybeLaunchRunner
<1>1. CASE HandleScheduled(v)
  <2>1. launch'[w] = launch[w] /\ marks'[w] = marks[w] /\ (w \in unmarked' <=> w \in unmarked)
    BY <1>1, <1>a, ScheduledHandoff, Zenon
  <2>2. \E new : Write(v, new)
    BY <1>1, ScheduledHandoff, Zenon
  <2>3. vm'[w] = vm[w] /\ (w \in todo' <=> w \in todo)
    BY <2>2, Zenon DEF Write
  <2>4. guest'[w] = guest[w] /\ UNCHANGED <<poolRest, secret, code, runs, outdated, kept>>
    BY <1>1, Zenon DEF HandleScheduled
  <2> QED BY <2>1, <2>3, <2>4, Zenon DEF poolRest
<1>2. CASE HandleRunning(v)
  <2>1. launch'[w] = launch[w] /\ marks'[w] = marks[w]
    BY <1>2, <1>a, RunningHandoff, Zenon
  <2>5. unmarked' = unmarked \/ unmarked' = unmarked \cup {v}
    BY <1>2, RunningHandoff, Zenon
  <2>6. outdated' = outdated \/ outdated' = outdated \cup {v}
    BY <1>2, RunningHandoff, Zenon
  <2>2. AgVMs[v].phase = "Running" /\ UNCHANGED <<poolRest, secret, guest, code, runs, kept>>
    BY <1>2, Zenon DEF HandleRunning
  <2>3. \E alive \in {"Running", "Failed"} : Settle(v, alive)
    BY <1>2, RunningHandoff, Zenon
  <2>4. /\ vm' = vm \/ \E p \in Terminal : vm' = [vm EXCEPT ![v].phase = p]
        /\ todo \ {v} \subseteq todo' /\ todo' \subseteq todo
    BY <2>2, <2>3, SettleEffect, Zenon
  <2>7. vm'[w] = vm[w]
    BY <2>4, Zenon
  <2> QED BY <2>1, <2>2, <2>4, <2>5, <2>6, <2>7, Zenon DEF poolRest
<1>3. CASE Ignore(v)
  BY <1>3, Zenon DEF Ignore, poolVars, launchVars
<1>4. CASE HandleDeletion(v)
  BY <1>4, Zenon DEF HandleDeletion, Write, poolRest, launchVars
<1>5. CASE HandleTerminating(v)
  BY <1>5, Zenon DEF HandleTerminating, poolRest
<1>6. CASE GetSecretAndDial(v)
  BY <1>6, Zenon DEF GetSecretAndDial, Goes, Returns, poolVars
<1>7. CASE RecordAccepted(v)
  BY <1>7, Zenon DEF RecordAccepted, Write, Unwritten, Goes, Returns, poolRest
<1>8. CASE Exec(v)
  BY <1>8 DEF Exec, Goes, CleansUp, poolVars
<1>9. CASE ExecReturns(v)
  BY <1>9, Zenon DEF ExecReturns, Goes, CleansUp, poolVars
<1>10. CASE RecordOutcome(v)
  BY <1>10, Zenon DEF RecordOutcome, Write, Unwritten, CleansUp, poolRest
<1>11. CASE DeleteSecret(v)
  BY <1>11, Zenon DEF DeleteSecret, Returns, poolRest
<1>12. CASE FinishRunnerLaunch(v)
  BY <1>12 DEF FinishRunnerLaunch, Write, Unwritten, poolRest
<1>13. CASE RunnerExits(v)
  BY <1>13, Zenon DEF RunnerExits, poolVars
<1>14. CASE GuestDies(v)
  BY <1>14, Zenon DEF GuestDies, poolVars
<1> QED
  BY <1>1, <1>2, <1>3, <1>4, <1>5, <1>6, <1>7, <1>8, <1>9, <1>10, <1>11, <1>12, <1>13, <1>14, ZenonT(60) DEF LaunchStep

(* What the agent's handlers and launches do to their VM: its phase only   *)
(* goes on, and the pool hears of a change if its cache is not behind.     *)
LEMMA LaunchEffect ==
  ASSUME TypeOK, NEW v \in VMs, LaunchStep(v)
  PROVE  /\ vm'[v].deleting = vm[v].deleting /\ vm'[v].ref = vm[v].ref
         /\ \/ vm'[v].phase = vm[v].phase
            \/ vm[v].phase = "Pending" /\ vm'[v].phase = "Running"
            \/ Exists(v) /\ vm'[v].phase \notin {"absent", "Pending", "Running"}
         /\ queued => queued'
         /\ opCache = Live => queued' \/ vm' = vm
         /\ UNCHANGED <<pool, elected, op, opCache, overcount, stranded, returned, agCache>>
<1> USE DEF TypeOK, PoolTypeOK
<1>0. vm \in [VMs -> ImpVM] /\ vm[v] \in ImpVM
  BY Zenon
<1>1. ASSUME NEW new, Write(v, new)
      PROVE  vm'[v] = new /\ (queued => queued') /\ (opCache = Live => queued' \/ vm' = vm)
  <2>1. new = vm[v] => vm' = vm
    BY <1>0, <1>1, Zenon DEF Write
  <2> QED BY <1>0, <1>1, <2>1, Zenon DEF Write
<1>2. CASE HandleScheduled(v)
  <2>1. \E p \in {"Running", "Failed"} : Write(v, [vm[v] EXCEPT !.phase = p])
    BY <1>2, ScheduledHandoff, Zenon
  <2>2. PICK p \in {"Running", "Failed"} : vm'[v] = [vm[v] EXCEPT !.phase = p]
    BY <2>1, <1>1, Zenon
  <2>3. (queued => queued') /\ (opCache = Live => queued' \/ vm' = vm)
    BY <2>1, <1>1, Zenon
  <2> QED BY <1>0, <1>2, <2>2, <2>3, Zenon DEF HandleScheduled, poolRest, ImpVM, Exists
<1>3. CASE HandleRunning(v)
  <2>1. \E alive \in {"Running", "Failed"} : Settle(v, alive)
    BY <1>3, RunningHandoff, Zenon
  <2>2. AgVMs[v].phase = "Running" /\ UNCHANGED poolRest
    BY <1>3, Zenon DEF HandleRunning
  <2>4. /\ vm' = vm \/ (Exists(v) /\ \E p \in Terminal : vm' = [vm EXCEPT ![v].phase = p])
        /\ queued => queued'
        /\ opCache = Live => queued' \/ vm' = vm
    BY <2>1, <2>2, SettleEffect, Zenon
  <2>3. vm'[v] = vm[v] \/ (Exists(v) /\ \E p \in Terminal : vm'[v] = [vm[v] EXCEPT !.phase = p])
    BY <1>0, <2>4, Zenon
  <2> QED BY <1>0, <2>2, <2>3, <2>4, Zenon DEF poolRest, ImpVM, Terminal
<1>4. CASE HandleDeletion(v)
  <2>1. Write(v, [vm[v] EXCEPT !.phase = "Terminating"]) /\ Exists(v)
    BY <1>4, Zenon DEF HandleDeletion
  <2>2. vm'[v] = [vm[v] EXCEPT !.phase = "Terminating"]
        /\ (queued => queued') /\ (opCache = Live => queued' \/ vm' = vm)
    BY <1>1, <2>1, Zenon
  <2>3. UNCHANGED <<pool, elected, op, opCache, overcount, stranded, returned, agCache>>
    BY <1>4, Zenon DEF HandleDeletion, poolRest
  <2> QED BY <1>0, <2>1, <2>2, <2>3, Zenon DEF ImpVM
<1>5. CASE HandleTerminating(v)
  <2>1. vm'[v] = [vm[v] EXCEPT !.phase = "gone"] /\ Exists(v)
    BY <1>0, <1>5, Zenon DEF HandleTerminating, Exists
  <2>2. (queued => queued') /\ (opCache = Live => queued')
    BY <1>5, Zenon DEF HandleTerminating, ToPool
  <2>3. UNCHANGED <<pool, elected, op, opCache, overcount, stranded, returned, agCache>>
    BY <1>5, Zenon DEF HandleTerminating, poolRest
  <2> QED BY <1>0, <2>1, <2>2, <2>3, Zenon DEF ImpVM
<1>6. CASE RecordAccepted(v)
  <2>1. Unwritten \/ Write(v, [vm[v] EXCEPT !.accepted = TRUE])
    BY <1>6, Zenon DEF RecordAccepted
  <2> QED BY <1>0, <1>1, <1>6, <2>1 DEF RecordAccepted, Unwritten, poolRest, ImpVM
<1>7. CASE RecordOutcome(v)
  <2>1. Unwritten \/ Write(v, [vm[v] EXCEPT !.exit = code[v]])
    BY <1>7, Zenon DEF RecordOutcome
  <2> QED BY <1>0, <1>1, <1>7, <2>1 DEF RecordOutcome, Unwritten, poolRest, ImpVM
<1>8. CASE FinishRunnerLaunch(v)
  <2>1. Unwritten \/ (Exists(v) /\ \E p \in {"Succeeded", "Failed"} : Write(v, [vm[v] EXCEPT !.phase = p]))
    BY <1>8, Zenon DEF FinishRunnerLaunch
  <2>2. vm'[v] = vm[v] \/ (Exists(v) /\ \E p \in {"Succeeded", "Failed"} : vm'[v] = [vm[v] EXCEPT !.phase = p])
    BY <1>1, <2>1, Zenon DEF Unwritten
  <2>3. (queued => queued') /\ (opCache = Live => queued' \/ vm' = vm)
    BY <1>1, <2>1, Zenon DEF Unwritten
  <2> QED BY <1>0, <1>8, <2>2, <2>3, Zenon DEF FinishRunnerLaunch, poolRest, ImpVM
<1>9. CASE Ignore(v) \/ GetSecretAndDial(v) \/ Exec(v) \/ ExecReturns(v) \/ RunnerExits(v) \/ GuestDies(v)
  BY <1>9, Zenon DEF Ignore, GetSecretAndDial, Exec, ExecReturns, RunnerExits, GuestDies, poolVars
<1>10. CASE DeleteSecret(v)
  BY <1>10, Zenon DEF DeleteSecret, poolRest
<1> QED
  BY <1>2, <1>3, <1>4, <1>5, <1>6, <1>7, <1>8, <1>9, <1>10, Zenon DEF LaunchStep

-----------------------------------------------------------------------------
(* The handoff.                                                            *)

HandedOver == {"exec", "wait", "record", "cleanup"}

(* A copy in the agent's cache is behind the VM, never ahead of it.        *)
CopyBehind(v) == AgVMs[v].ref => vm[v].ref

(* A launch needs the reference, and what is handed over was marked.       *)
MarkersInOrder(v) ==
  /\ vm[v].phase = "absent" => ~vm[v].ref
  /\ vm[v].accepted \/ launch[v] # NoLaunch => vm[v].ref
  /\ launch[v].pc \in HandedOver \/ runs[v] > 0 => vm[v].accepted

(* Once the handoff is marked, its Secret is spent: it is deleted, or kept *)
(* by an error, or the launch that spends it is under way, or it died with *)
(* an agent whose successor reads the mark.  A launch that is ahead of the *)
(* mark all the same has an outdated copy.                                 *)
SecretSpent(v) ==
  vm[v].accepted =>
    /\ secret[v] = "stored" => v \in kept \/ launch[v].pc \in HandedOver \/ AgVMs[v].accepted
    /\ launch[v].pc \in {"get", "accept"} => v \in outdated /\ (secret[v] = "stored" => v \in kept)
    /\ launch[v].pc = "accept" => v \in kept
    /\ launch[v].pc = "exec" /\ runs[v] > 0 => v \in outdated \cap kept

Handoff(v) ==
  /\ CopyBehind(v) /\ MarkersInOrder(v) /\ SecretSpent(v)
  /\ runs[v] > 1 => v \in outdated \cap kept

(* The configuration of a VM is minted before the VM refers to it.         *)
MintedOnce == op.pc \in {"mint", "patch"} => ~vm[op.vm].ref

HandoffInv == TypeOK /\ MintedOnce /\ \A v \in VMs : Handoff(v)

LEMMA HandoffInit == Init => HandoffInv
<1> SUFFICES ASSUME Init PROVE HandoffInv
  BY Zenon
<1>1. ASSUME NEW v \in VMs PROVE Handoff(v)
  <2>1. vm[v] = Absent /\ AgVMs[v] = Absent /\ launch[v] = NoLaunch /\ runs[v] = 0
    BY Zenon DEF Init, PoolInit, AgVMs
  <2> QED BY <2>1 DEF Handoff, CopyBehind, MarkersInOrder, SecretSpent, Absent, HandedOver, NoLaunch
<1>2. MintedOnce
  BY Zenon DEF Init, PoolInit, MintedOnce, Idle
<1> QED BY <1>1, <1>2, InitType, Zenon DEF HandoffInv

LEMMA HandoffPool ==
  ASSUME HandoffInv, PoolNext, UNCHANGED launchVars
  PROVE  HandoffInv'
<1>1. TypeOK /\ TypeOK'
  BY PoolType, Zenon DEF HandoffInv
<1>2. ASSUME NEW w \in VMs PROVE Handoff(w)'
  <2>1. Handoff(w) /\ (op.pc \in {"mint", "patch"} /\ op.vm = w => ~vm[w].ref)
    BY Zenon DEF HandoffInv, MintedOnce
  <2>2. /\ vm'[w].accepted = vm[w].accepted
        /\ vm'[w].phase = "absent" => vm[w].phase = "absent"
        /\ vm'[w].ref = vm[w].ref \/ (vm'[w].ref /\ Exists(w) /\ op.pc = "patch" /\ op.vm = w)
        /\ secret'[w] = secret[w] \/ (op.pc = "mint" /\ op.vm = w)
        /\ agCache' = agCache
    BY <1>1, PoolEffect, Zenon
  <2>3. UNCHANGED <<launch, runs, outdated, kept>>
    BY Zenon DEF launchVars
  <2>4. \/ AgVMs[w] = vm[w] /\ AgVMs'[w] = vm'[w]
        \/ AgVMs'[w] = AgVMs[w]
    BY <2>2, Zenon DEF AgVMs
  <2>5. CopyBehind(w)'
    BY <2>1, <2>2, <2>4, Zenon DEF Handoff, CopyBehind
  <2>6. MarkersInOrder(w)'
    <3>1. vm'[w].phase = "absent" => vm'[w].ref = vm[w].ref
      BY <2>2, Zenon DEF Exists
    <3> QED BY <2>1, <2>2, <2>3, <3>1, Zenon DEF Handoff, MarkersInOrder
  <2>7. SecretSpent(w)'
    BY <2>1, <2>2, <2>3, <2>4, Zenon DEF Handoff, MarkersInOrder, SecretSpent
  <2> QED BY <2>1, <2>3, <2>5, <2>6, <2>7, Zenon DEF Handoff
<1>3. MintedOnce'
  <2> SUFFICES ASSUME op'.pc \in {"mint", "patch"} PROVE ~vm'[op'.vm].ref
    BY Zenon DEF MintedOnce
  <2>1. op'.vm \in VMs
    BY <1>1 DEF TypeOK, PoolTypeOK, Pass, Idle
  <2>2. /\ \/ op.pc \in {"mint", "patch"} /\ op'.vm = op.vm
           \/ vm[op'.vm].phase = "absent"
        /\ vm'[op'.vm].ref = vm[op'.vm].ref
    BY <1>1, <2>1, PoolEffect, Zenon
  <2> QED BY <2>1, <2>2, Zenon DEF HandoffInv, MintedOnce, Handoff, MarkersInOrder
<1> QED BY <1>1, <1>2, <1>3, Zenon DEF HandoffInv

LEMMA CopyBehindKept ==
  ASSUME NEW v \in VMs, CopyBehind(v), agCache' = agCache, vm[v].ref => vm'[v].ref
  PROVE  CopyBehind(v)'
BY Zenon DEF CopyBehind, AgVMs

(* A step that leaves the launch of VM v, its marks and its Secret alone,  *)
(* or takes the Secret away.                                               *)
LEMMA HandoffKept ==
  ASSUME NEW v \in VMs, Handoff(v), agCache' = agCache,
         vm'[v].ref = vm[v].ref, vm'[v].accepted = vm[v].accepted,
         vm'[v].phase = "absent" => vm[v].phase = "absent",
         launch'[v] = launch[v], runs'[v] = runs[v], outdated' = outdated, kept' = kept,
         secret'[v] = secret[v] \/ secret'[v] # "stored"
  PROVE  Handoff(v)'
<1>1. CopyBehind(v)'
  BY CopyBehindKept, Zenon DEF Handoff
<1>2. MarkersInOrder(v)'
  BY Zenon DEF Handoff, MarkersInOrder
<1>3. AgVMs'[v] = AgVMs[v] \/ (AgVMs[v] = vm[v] /\ AgVMs'[v] = vm'[v])
  BY Zenon DEF AgVMs
<1>4. SecretSpent(v)'
  BY <1>3, Zenon DEF Handoff, SecretSpent
<1> QED BY <1>1, <1>2, <1>4, Zenon DEF Handoff

(* A step of the launch of VM v that writes no mark and starts no runner.  *)
LEMMA HandoffGoes ==
  ASSUME NEW v \in VMs, Handoff(v), agCache' = agCache, vm'[v].phase = vm[v].phase,
         vm'[v].ref = vm[v].ref, vm'[v].accepted = vm[v].accepted, launch[v] # NoLaunch,
         runs'[v] = runs[v], outdated' = outdated, kept \subseteq kept',
         \/ launch[v].pc \in {"get", "accept"} /\ launch'[v] = NoLaunch /\ secret' = secret
         \/ launch[v].pc = "get" /\ launch'[v].pc = "accept" /\ secret' = secret /\ secret[v] = "stored"
         \/ launch[v].pc \in HandedOver /\ launch'[v].pc \in HandedOver \ {"exec"} /\ secret' = secret
         \/ launch[v].pc = "cleanup" /\ launch'[v] = NoLaunch /\ (secret'[v] = "deleted" \/ v \in kept')
  PROVE  Handoff(v)'
<1>0. launch'[v] = NoLaunch => launch'[v].pc = "idle"
  BY DEF NoLaunch
<1>1. CopyBehind(v)'
  BY CopyBehindKept, Zenon DEF Handoff
<1>2. MarkersInOrder(v)'
  BY <1>0, Zenon DEF Handoff, MarkersInOrder, HandedOver
<1>3. AgVMs'[v] = AgVMs[v] \/ (AgVMs[v] = vm[v] /\ AgVMs'[v] = vm'[v])
  BY Zenon DEF AgVMs
<1>4. SecretSpent(v)'
  BY <1>0, <1>3, Zenon DEF Handoff, SecretSpent, HandedOver
<1> QED BY <1>1, <1>2, <1>4, Zenon DEF Handoff

LEMMA HandoffLaunch ==
  ASSUME HandoffInv, NEW v \in VMs, LaunchStep(v)
  PROVE  HandoffInv'
<1>1. TypeOK /\ TypeOK'
  BY LaunchType, Zenon DEF HandoffInv, LaunchStep
<1>2. ASSUME NEW w \in VMs, w # v PROVE Handoff(w)'
  <2>1. AgVMs'[w] = AgVMs[w] /\ Handoff(w)
    BY <1>1, <1>2, OthersUntouched, Zenon DEF AgVMs, HandoffInv
  <2> QED
    BY <1>1, <1>2, <2>1, OthersUntouched, Zenon DEF Handoff, CopyBehind, MarkersInOrder, SecretSpent
<1>3. /\ vm \in [VMs -> ImpVM] /\ launch \in [VMs -> Launch] /\ runs \in [VMs -> Nat]
      /\ secret \in [VMs -> {"none", "stored", "deleted"}]
      /\ vm[v] \in ImpVM /\ Handoff(v)
  BY <1>1, Zenon DEF TypeOK, PoolTypeOK, HandoffInv
<1>4. /\ agCache' = agCache /\ op' = op /\ vm'[v].ref = vm[v].ref
      /\ vm'[v].phase = "absent" => vm[v].phase = "absent"
  BY <1>1, LaunchEffect, Zenon
<1>5. MintedOnce'
  <2> SUFFICES ASSUME op.pc \in {"mint", "patch"} PROVE ~vm'[op.vm].ref
    BY <1>4, Zenon DEF MintedOnce
  <2>1. op.vm \in VMs
    BY <1>1 DEF TypeOK, PoolTypeOK, Pass, Idle
  <2>2. vm'[op.vm].ref = vm[op.vm].ref
    BY <1>1, <1>4, <2>1, OthersUntouched, Zenon
  <2> QED BY <2>2, Zenon DEF HandoffInv, MintedOnce
<1>6. SUFFICES Handoff(v)'
  BY <1>1, <1>2, <1>5, Zenon DEF HandoffInv
<1>7. AgVMs'[v] = AgVMs[v] \/ (AgVMs[v] = vm[v] /\ AgVMs'[v] = vm'[v])
  BY <1>4, Zenon DEF AgVMs
<1>8. CASE HandleScheduled(v)
  <2> DEFINE new == [vm[v] EXCEPT !.phase = "Running"]
  <2>1. UNCHANGED <<runs, secret, outdated, kept>>
    BY <1>8, Zenon DEF HandleScheduled
  <2>2. \E p \in {"Running", "Failed"} : Write(v, [vm[v] EXCEPT !.phase = p])
    BY <1>8, ScheduledHandoff, Zenon
  <2>3. vm'[v].accepted = vm[v].accepted
    BY <1>3, <2>2 DEF Write, ImpVM
  <2>5. CASE launch'[v] = launch[v]
    BY <1>3, <1>4, <2>1, <2>3, <2>5, HandoffKept, Zenon
  <2>6. CASE launch'[v] # launch[v]
    <3>1. launch[v] = NoLaunch /\ new.ref /\ launch'[v] = Begin(new)
      BY <1>3, <1>8, <2>6, ScheduledHandoff, Zenon DEF MaybeLaunchRunner
    <3>a. ~new.accepted /\ Begin(new) = [pc |-> "get", res |-> "none"]
      BY <2>6, <3>1, Zenon DEF Begin
    <3>b. launch'[v].pc = "get"
      BY <3>1, <3>a
    <3>c. ~vm[v].accepted
      BY <1>3, <3>a DEF ImpVM
    <3>d. vm[v].ref
      BY <1>3, <3>1 DEF ImpVM
    <3>2. launch'[v].pc = "get" /\ ~vm[v].accepted /\ vm[v].ref
      BY <3>b, <3>c, <3>d, Zenon
    <3>3. CopyBehind(v)'
      BY <1>3, <1>4, CopyBehindKept, Zenon DEF Handoff
    <3>4. MarkersInOrder(v)'
      BY <1>3, <1>4, <2>1, <2>3, <3>2, Zenon DEF Handoff, MarkersInOrder, HandedOver
    <3>5. SecretSpent(v)'
      BY <2>3, <3>2, Zenon DEF SecretSpent
    <3> QED BY <1>3, <2>1, <3>3, <3>4, <3>5, Zenon DEF Handoff
  <2> QED BY <2>5, <2>6, Zenon
<1>9. CASE HandleRunning(v)
  <2> DEFINE c == AgVMs[v]
  <2>1. c.phase = "Running" /\ UNCHANGED <<runs, secret, kept>>
    BY <1>9, Zenon DEF HandleRunning
  <2>2. \E alive \in {"Running", "Failed"} : Settle(v, alive)
    BY <1>9, RunningHandoff, Zenon
  <2>3. vm'[v].accepted = vm[v].accepted
    <3>1. vm' = vm \/ \E p \in Terminal : vm' = [vm EXCEPT ![v].phase = p]
      BY <1>1, <2>1, <2>2, SettleEffect, Zenon
    <3> QED BY <1>3, <3>1 DEF ImpVM
  <2>4. CopyBehind(v)'
    BY <1>3, <1>4, CopyBehindKept, Zenon DEF Handoff
  <2>5. CASE launch'[v] = launch[v] /\ outdated' = outdated
    BY <1>3, <1>4, <2>1, <2>3, <2>5, HandoffKept, Zenon
  <2>6. CASE c.ref /\ launch[v] = NoLaunch /\ launch'[v] = Begin(c)
             /\ outdated' = IF c # vm[v] THEN outdated \cup {v} ELSE outdated
    <3>a. launch'[v] = NoLaunch \/ (launch'[v] = [pc |-> "get", res |-> "none"] /\ ~c.accepted)
      BY <2>6, Zenon DEF Begin
    <3>1. launch'[v] = NoLaunch \/ (launch'[v].pc = "get" /\ ~c.accepted)
      BY <3>a
    <3>2. launch'[v] = NoLaunch => launch'[v].pc = "idle"
      BY DEF NoLaunch
    <3>3. MarkersInOrder(v)'
      BY <1>3, <1>4, <2>1, <2>3, <2>6, <3>1, <3>2, Zenon DEF Handoff, CopyBehind, MarkersInOrder, HandedOver
    <3>4. launch'[v].pc = "get" /\ vm[v].accepted => v \in outdated' /\ (secret[v] = "stored" => v \in kept)
      BY <1>3, <2>6, <3>1, <3>2 DEF Handoff, SecretSpent, HandedOver, NoLaunch
    <3>5. SecretSpent(v)'
      BY <1>3, <1>7, <2>1, <2>3, <2>6, <3>1, <3>2, <3>4 DEF Handoff, SecretSpent, HandedOver, NoLaunch
    <3>6. runs'[v] > 1 => v \in outdated' \cap kept'
      BY <1>3, <2>1, <2>6, Zenon DEF Handoff
    <3> QED BY <2>4, <3>3, <3>5, <3>6, Zenon DEF Handoff
  <2>7. \/ launch'[v] = launch[v] /\ outdated' = outdated
        \/ c.ref /\ launch[v] = NoLaunch /\ launch'[v] = Begin(c)
           /\ outdated' = IF c # vm[v] THEN outdated \cup {v} ELSE outdated
    BY <1>3, <1>9, RunningHandoff, Zenon DEF MaybeLaunchRunner
  <2> QED BY <2>5, <2>6, <2>7, Zenon
<1>10. CASE Ignore(v) \/ RunnerExits(v) \/ GuestDies(v)
  BY <1>3, <1>4, <1>10, HandoffKept, Zenon DEF Ignore, RunnerExits, GuestDies, poolVars, launchVars
<1>11. CASE HandleDeletion(v) \/ HandleTerminating(v)
  <2>1. vm'[v].accepted = vm[v].accepted
    BY <1>3, <1>11 DEF HandleDeletion, HandleTerminating, Write, ImpVM
  <2>2. UNCHANGED <<launch, runs, outdated, kept>> /\ (secret'[v] = secret[v] \/ secret'[v] # "stored")
    BY <1>3, <1>11, Zenon DEF HandleDeletion, HandleTerminating, launchVars
  <2> QED BY <1>3, <1>4, <2>1, <2>2, HandoffKept, Zenon
<1>12. CASE GetSecretAndDial(v) \/ ExecReturns(v)
  <2>1. launch[v] # NoLaunch /\ UNCHANGED <<vm, runs, secret, outdated, kept>>
    BY <1>12 DEF GetSecretAndDial, ExecReturns, NoLaunch, poolVars
  <2>2. \/ launch[v].pc = "get" /\ launch'[v] = NoLaunch
        \/ launch[v].pc = "get" /\ launch'[v].pc = "accept" /\ secret[v] = "stored"
        \/ launch[v].pc \in HandedOver /\ launch'[v].pc \in HandedOver \ {"exec"}
    BY <1>3, <1>12 DEF GetSecretAndDial, ExecReturns, Goes, CleansUp, Returns, Launch, HandedOver
  <2> QED BY <1>3, <1>4, <2>1, <2>2, HandoffGoes, Zenon
<1>13. CASE RecordAccepted(v)
  <2>1. launch[v].pc = "accept" /\ UNCHANGED <<runs, secret, outdated, kept>>
    BY <1>13, Zenon DEF RecordAccepted
  <2>2. CASE Unwritten /\ Returns(v, "err")
    BY <1>3, <1>4, <2>1, <2>2, HandoffGoes DEF Unwritten, Returns, NoLaunch
  <2>3. CASE Write(v, [vm[v] EXCEPT !.accepted = TRUE]) /\ Goes(v, "exec")
    <3>1. vm'[v].accepted /\ vm'[v].phase = vm[v].phase /\ launch'[v].pc = "exec"
      BY <1>3, <2>3, Zenon DEF Write, Goes, ImpVM, Launch
    <3>2. launch[v] # NoLaunch /\ launch'[v] # NoLaunch
      BY <2>1, <3>1 DEF NoLaunch
    <3>3. CopyBehind(v)'
      BY <1>3, <1>4, <3>1, CopyBehindKept, Zenon DEF Handoff
    <3>4. MarkersInOrder(v)'
      BY <1>3, <1>4, <2>1, <3>1, <3>2, Zenon DEF Handoff, MarkersInOrder
    <3>5. runs[v] > 0 => v \in outdated \cap kept
      BY <1>3, <2>1, Zenon DEF Handoff, MarkersInOrder, SecretSpent
    <3>6. SecretSpent(v)'
      BY <2>1, <3>1, <3>5, Zenon DEF SecretSpent, HandedOver
    <3> QED BY <1>3, <2>1, <3>3, <3>4, <3>6, Zenon DEF Handoff
  <2> QED BY <1>13, <2>2, <2>3, Zenon DEF RecordAccepted
<1>14. CASE Exec(v)
  <2>1. launch[v].pc = "exec" /\ UNCHANGED <<vm, secret, outdated, kept>>
    BY <1>14, Zenon DEF Exec, poolVars
  <2>2. launch'[v].pc \in {"cleanup", "wait"} /\ runs'[v] \in {runs[v], runs[v] + 1}
    BY <1>3, <1>14 DEF Exec, Goes, CleansUp, Launch
  <2>3. CopyBehind(v)'
    BY <1>3, <1>4, <2>1, CopyBehindKept, Zenon DEF Handoff
  <2>4. MarkersInOrder(v)'
    BY <1>3, <2>1, <2>2 DEF Handoff, MarkersInOrder, HandedOver, NoLaunch
  <2>5. SecretSpent(v)'
    BY <2>1, <2>2, Zenon DEF SecretSpent, HandedOver
  <2>6. runs'[v] > 1 => v \in outdated \cap kept
    BY <1>3, <2>1, <2>2 DEF Handoff, MarkersInOrder, SecretSpent, HandedOver
  <2> QED BY <2>1, <2>3, <2>4, <2>5, <2>6, Zenon DEF Handoff
<1>15. CASE RecordOutcome(v)
  <2>1. launch[v].pc = "record" /\ launch'[v].pc = "cleanup" /\ UNCHANGED <<runs, secret, outdated, kept>>
    BY <1>3, <1>15, Zenon DEF RecordOutcome, CleansUp
  <2>2. vm'[v].phase = vm[v].phase /\ vm'[v].accepted = vm[v].accepted
    BY <1>3, <1>15 DEF RecordOutcome, Write, Unwritten, ImpVM
  <2> QED BY <1>3, <1>4, <2>1, <2>2, HandoffGoes DEF HandedOver, NoLaunch
<1>16. CASE DeleteSecret(v)
  <2>1. launch[v].pc = "cleanup" /\ launch'[v] = NoLaunch /\ UNCHANGED <<vm, runs, outdated>>
    BY <1>3, <1>16, Zenon DEF DeleteSecret, Returns
  <2>2. kept \subseteq kept' /\ (secret'[v] = "deleted" \/ v \in kept')
    BY <1>3, <1>16, Zenon DEF DeleteSecret
  <2> QED BY <1>3, <1>4, <2>1, <2>2, HandoffGoes DEF NoLaunch
<1>17. CASE FinishRunnerLaunch(v)
  <2>1. UNCHANGED <<launch, runs, secret, outdated, kept>>
    BY <1>17, Zenon DEF FinishRunnerLaunch
  <2>2. Unwritten \/ \E p \in {"Succeeded", "Failed"} : Write(v, [vm[v] EXCEPT !.phase = p])
    BY <1>17, Zenon DEF FinishRunnerLaunch
  <2>3. vm'[v].accepted = vm[v].accepted
    BY <1>3, <2>2 DEF Write, Unwritten, ImpVM
  <2> QED BY <1>3, <1>4, <2>1, <2>3, HandoffKept, Zenon
<1> QED
  BY <1>8, <1>9, <1>10, <1>11, <1>12, <1>13, <1>14, <1>15, <1>16, <1>17, Zenon DEF LaunchStep

LEMMA HandoffAgent ==
  ASSUME HandoffInv, AgCrash \/ AgFreeze \/ AgCatchUp
  PROVE  HandoffInv'
<1>1. TypeOK'
  BY AgentType, Zenon DEF HandoffInv
<1>2. UNCHANGED <<vm, secret, op, runs, outdated, kept>>
  BY Zenon DEF AgCrash, AgFreeze, AgCatchUp, poolVars, launchVars
<1>3. ASSUME NEW v \in VMs PROVE Handoff(v)'
  <2>1. Handoff(v)
    BY Zenon DEF HandoffInv
  <2>2. launch'[v] = launch[v] \/ launch'[v] = NoLaunch
    BY Zenon DEF AgCrash, AgFreeze, AgCatchUp, launchVars
  <2>3. AgVMs'[v] = vm'[v]
    BY <1>2, Zenon DEF AgCrash, AgFreeze, AgCatchUp, AgVMs
  <2>4. CopyBehind(v)' /\ MarkersInOrder(v)' /\ SecretSpent(v)'
    BY <1>2, <2>1, <2>2, <2>3 DEF Handoff, CopyBehind, MarkersInOrder, SecretSpent, HandedOver, NoLaunch
  <2> QED BY <1>2, <2>1, <2>4, Zenon DEF Handoff
<1> QED BY <1>1, <1>2, <1>3, Zenon DEF HandoffInv, MintedOnce

LEMMA HandoffStep == HandoffInv /\ [Next]_vars => HandoffInv'
<1>1. HandoffInv /\ UNCHANGED vars => HandoffInv'
  BY DEF vars, poolVars, launchVars, HandoffInv, TypeOK, PoolTypeOK, MintedOnce, Handoff, CopyBehind,
         MarkersInOrder, SecretSpent, AgVMs
<1> QED BY <1>1, HandoffPool, HandoffLaunch, HandoffAgent, Zenon DEF Next, LaunchStep

(* A runner is started at most once, however crashes of the agent, lost    *)
(* answers, retries and lagging caches fall, unless Launcher.Run was given *)
(* an outdated copy and the Secret before could not be deleted.            *)
THEOREM NeverReplayed == Spec => []HandedOverOnce
<1>1. HandoffInv => HandedOverOnce
  BY Zenon DEF HandoffInv, Handoff, HandedOverOnce
<1> QED BY HandoffInit, HandoffStep, <1>1, PTL DEF Spec

-----------------------------------------------------------------------------
(* The pool's bounds.                                                      *)

Members == {v \in VMs \ returned : vm[v].phase \in {"Pending", "Running"} /\ ~vm[v].deleting}

(* The VMs the pass under way has still to create.                         *)
Left ==
  IF op.pc = "create" THEN op.left ELSE IF op.pc \in {"mint", "patch"} THEN op.left - 1 ELSE 0

(* The pass under way has room under the cap for what it is to create.     *)
BoundInv == TypeOK /\ (~overcount => Cardinality(Members) + Left <= Cap)

LEMMA MemberCount ==
  /\ IsFiniteSet(Members) /\ Cardinality(Members) \in Nat
  /\ \A S \in SUBSET Members : IsFiniteSet(S) /\ Cardinality(S) <= Cardinality(Members)
<1>1. IsFiniteSet(Members)
  BY VMsAssumption, FS_Subset, Zenon DEF Members
<1> QED BY <1>1, FS_Subset, FS_CardinalityType, Zenon

LEMMA MemberCountPrimed == Cardinality(Members') \in Nat
<1>1. IsFiniteSet(Members')
  BY VMsAssumption, FS_Subset, Zenon DEF Members
<1> QED BY <1>1, FS_CardinalityType, Zenon

LEMMA LeftType ==
  ASSUME TypeOK PROVE Left \in Nat
BY DEF Left, TypeOK, PoolTypeOK, Pass, Idle

(* A step that adds no member and nothing to the pass keeps the bound.     *)
LEMMA BoundKept ==
  ASSUME BoundInv, TypeOK', Members' \subseteq Members, Left' <= Left, pool' = pool,
         overcount' = overcount
  PROVE  BoundInv'
<1>1. Cardinality(Members') <= Cardinality(Members)
  BY MemberCount, Zenon
<1>2. Cap' = Cap /\ Left \in Nat /\ Left' \in Nat /\ Cap \in Nat
  <2>1. Cap \in Nat
    BY ToCreateBounds, 0 \in Nat, Zenon DEF BoundInv, TypeOK, PoolTypeOK
  <2>2. Left' \in Nat
    BY DEF Left, TypeOK, PoolTypeOK, Pass, Idle
  <2> QED BY <2>1, <2>2, LeftType, Zenon DEF Cap, BoundInv
<1> QED BY <1>1, <1>2, MemberCount, MemberCountPrimed DEF BoundInv

(* The members a step may add to the pool: the VM that is created.         *)
LEMMA PoolMembers ==
  ASSUME TypeOK, PoolNext
  PROVE  Members' \subseteq Members \/ (CreateVM /\ \E v \in VMs : Members' \subseteq Members \cup {v})
<1>1. CASE CreateVM
  <2>1. returned' = returned
    BY <1>1, Zenon DEF CreateVM
  <2>2. ASSUME NEW v \in VMs, vm' = [vm EXCEPT ![v].phase = "Pending"]
        PROVE  Members' \subseteq Members \cup {v}
    BY <2>1, <2>2, Zenon DEF Members, TypeOK, PoolTypeOK
  <2>3. vm' = vm => Members' \subseteq Members
    BY <2>1, Zenon DEF Members
  <2> QED BY <1>1, <2>2, <2>3, Zenon DEF CreateVM
<1>2. CASE ~CreateVM
  <2>1. ASSUME NEW w \in VMs PROVE w \in Members' => w \in Members
    BY <1>2, PoolEffect, Zenon DEF Members, Exists
  <2> QED BY <2>1, Zenon DEF Members
<1> QED BY <1>1, <1>2, Zenon

LEMMA LaunchMembers ==
  ASSUME TypeOK, NEW v \in VMs, LaunchStep(v)
  PROVE  Members' \subseteq Members
<1>1. ASSUME NEW w \in VMs, w \in Members' PROVE w \in Members
  <2>1. CASE w = v
    BY <1>1, <2>1, LaunchEffect, Zenon DEF Members
  <2>2. CASE w # v
    BY <1>1, <2>2, OthersUntouched, Zenon DEF Members
  <2> QED BY <2>1, <2>2, Zenon
<1> QED BY <1>1, Zenon DEF Members

(* The pass under way shrinks with each VM it creates, unless it begins.   *)
LEMMA PoolLeft ==
  ASSUME TypeOK, PoolNext, ~Reconcile
  PROVE  /\ overcount' = overcount /\ pool' = pool /\ Left' <= Left
         /\ CreateVM => vm' = vm \/ Left' + 1 <= Left
<1> USE DEF Left, TypeOK, PoolTypeOK
<1>0. op.pc \in {"create", "mint", "patch"} => op.left \in Nat \ {0}
  BY DEF Idle, Pass
<1>1. ASSUME NEW left \in Nat \ {0}, Continue(left) PROVE Left' = left - 1
  BY <1>1 DEF Continue, Idle
<1>2. GiveUp => Left' = 0
  BY DEF GiveUp, Idle
<1>3. CASE CreateVM
  <2>1. op.pc = "create" /\ op.left \in Nat \ {0} /\ Left = op.left
    BY <1>0, <1>3, Zenon DEF CreateVM
  <2>2. ASSUME NEW v \in VMs, op' = [pc |-> "mint", vm |-> v, left |-> op.left]
        PROVE  Left' = op.left - 1
    BY <2>2, Zenon
  <2>3. Left' = op.left - 1 \/ (Left' = 0 /\ vm' = vm)
    BY <1>1, <1>2, <1>3, <2>1, <2>2, Zenon DEF CreateVM
  <2> HIDE DEF Left
  <2> QED BY <1>3, <2>1, <2>3 DEF CreateVM
<1>4. CASE MintRunnerConfig
  <2>1. op.pc = "mint" /\ op.left \in Nat \ {0} /\ Left = op.left - 1
    BY <1>0, <1>4, Zenon DEF MintRunnerConfig
  <2>2. op' = [op EXCEPT !.pc = "patch"] => Left' = op.left - 1
    BY <2>1 DEF Pass, Idle
  <2>3. Left' \in {0, op.left - 1}
    BY <1>2, <1>4, <2>2, Zenon DEF MintRunnerConfig
  <2>4. ~CreateVM
    BY <2>1, Zenon DEF CreateVM
  <2> HIDE DEF Left
  <2> QED BY <1>4, <2>1, <2>3, <2>4 DEF MintRunnerConfig
<1>5. CASE PatchRunnerSecretReference
  <2>1. op.pc = "patch" /\ op.left \in Nat \ {0} /\ Left = op.left - 1
    BY <1>0, <1>5, Zenon DEF PatchRunnerSecretReference
  <2>2. Left' \in {0, op.left - 1}
    BY <1>1, <1>2, <1>5, <2>1, Zenon DEF PatchRunnerSecretReference
  <2>3. ~CreateVM
    BY <2>1, Zenon DEF CreateVM
  <2> HIDE DEF Left
  <2> QED BY <1>5, <2>1, <2>2, <2>3 DEF PatchRunnerSecretReference
<1>6. CASE Wait \/ PoolTimer \/ ElectBase \/ OpFreeze \/ OpCatchUp
  <2>1. UNCHANGED <<vm, op, overcount, pool>>
    BY <1>6, Zenon DEF Wait, PoolTimer, ElectBase, OpFreeze, OpCatchUp
  <2> QED BY <1>0, <2>1
<1>7. CASE OpCrash
  <2>1. UNCHANGED <<vm, overcount, pool>> /\ op' = Idle
    BY <1>7, Zenon DEF OpCrash
  <2> QED BY <1>0, <2>1 DEF Idle
<1>8. CASE \E v \in VMs : Expire(v) \/ HandleFailed(v)
  <2>1. op' = op /\ overcount' = overcount /\ pool' = pool
    BY <1>8, Zenon DEF Expire, HandleFailed
  <2>2. CASE CreateVM
    BY <1>3, <2>2, Zenon
  <2>3. CASE ~CreateVM
    BY <1>0, <2>1, <2>3
  <2> QED BY <2>2, <2>3, Zenon
<1> QED
  BY <1>3, <1>4, <1>5, <1>6, <1>7, <1>8, Zenon DEF PoolNext

LEMMA BoundStep == BoundInv /\ [Next]_vars => BoundInv'
<1> SUFFICES ASSUME BoundInv, [Next]_vars PROVE BoundInv'
  BY Zenon
<1>0. TypeOK /\ TypeOK'
  BY TypeStep, Zenon DEF BoundInv
<1>a. Cap \in Nat /\ Left \in Nat /\ Left' \in Nat
  <2>1. Cap \in Nat
    BY <1>0, ToCreateBounds, 0 \in Nat, Zenon DEF TypeOK, PoolTypeOK
  <2>2. Left' \in Nat
    BY <1>0 DEF Left, TypeOK, PoolTypeOK, Pass, Idle
  <2> QED BY <1>0, <2>1, <2>2, LeftType, Zenon
<1>1. CASE UNCHANGED vars
  BY <1>0, <1>1, <1>a, BoundKept DEF vars, poolVars, Members, Left
<1>2. CASE Reconcile
  <2>1. PICK depth \in 0..MaxDemand, demand \in 0..MaxDemand :
          LET n == ToCreate(Cardinality(Active(OpVMs)), depth, demand)
          IN  /\ op' = IF n = 0 THEN Idle ELSE [pc |-> "create", left |-> n]
              /\ overcount' = (overcount \/ (n > 0 /\ OpVMs # vm))
    BY <1>2, PassCount, Zenon
  <2> DEFINE n == ToCreate(Cardinality(Active(OpVMs)), depth, demand)
  <2>2. n \in Nat /\ (n > 0 => Cardinality(Active(OpVMs)) + n <= Cap)
    <3>1. Cardinality(Active(OpVMs)) \in Nat /\ depth \in Nat /\ demand \in Nat /\ pool \in PoolSpecs
      BY <1>0, ActiveCount, BoundAssumption DEF TypeOK, PoolTypeOK
    <3> QED BY <3>1, ToCreateBounds, Zenon
  <2> HIDE DEF n
  <2>3. Left' = n /\ Cap' = Cap
    BY <1>2, <2>1, <2>2, Zenon DEF Left, Idle, Cap, Reconcile, n
  <2>4. Members' \subseteq Members /\ Members \subseteq Active(vm)
    <3>1. Members' \subseteq Members
      BY <1>0, <1>2 DEF Reconcile, Members, TypeOK, PoolTypeOK, ImpVM
    <3> QED BY <3>1, Zenon DEF Members, Active, Terminal
  <2>5. Cardinality(Members') <= Cardinality(Members) /\ Cardinality(Members) <= Cardinality(Active(vm))
    BY <2>4, MemberCount, ActiveCount, FS_Subset, Zenon
  <2>6. CASE n = 0
    <3>1. Left = 0
      BY <1>2, Zenon DEF Reconcile, Idle, Left
    <3>2. overcount => overcount'
      BY <2>1, Zenon
    <3> QED BY <1>0, <1>a, <2>3, <2>5, <2>6, <3>1, <3>2, MemberCount, MemberCountPrimed DEF BoundInv
  <2>7. CASE n > 0 /\ ~overcount'
    <3>1. OpVMs = vm
      BY <2>1, <2>7, Zenon DEF n
    <3> QED BY <1>0, <1>a, <2>2, <2>3, <2>5, <2>7, <3>1, MemberCount, MemberCountPrimed, ActiveCount DEF BoundInv
  <2>8. CASE overcount'
    BY <1>0, <2>8, Zenon DEF BoundInv
  <2> QED BY <2>2, <2>6, <2>7, <2>8
<1>3. CASE PoolNext /\ ~Reconcile
  <2>1. overcount' = overcount /\ pool' = pool /\ Left' <= Left
    BY <1>0, <1>3, PoolLeft, Zenon
  <2>2. CASE Members' \subseteq Members
    BY <1>0, <2>1, <2>2, BoundKept, Zenon
  <2>3. CASE ~(Members' \subseteq Members)
    <3>1. PICK v \in VMs : Members' \subseteq Members \cup {v}
      BY <1>0, <1>3, <2>3, PoolMembers, Zenon
    <3>a. CreateVM /\ returned' = returned
      BY <1>0, <1>3, <2>3, PoolMembers, Zenon DEF CreateVM
    <3>2. CreateVM /\ vm' # vm
      BY <2>3, <3>a, Zenon DEF Members
    <3>3. Left' + 1 <= Left
      BY <1>0, <1>3, <3>2, PoolLeft, Zenon
    <3>4. IsFiniteSet(Members \cup {v}) /\ Cardinality(Members \cup {v}) <= Cardinality(Members) + 1
      BY MemberCount, FS_AddElement
    <3>5. Cardinality(Members') <= Cardinality(Members \cup {v}) /\ Cardinality(Members \cup {v}) \in Nat
      BY <3>1, <3>4, FS_Subset, FS_CardinalityType, Zenon
    <3>6. Cap' = Cap
      BY <2>1, Zenon DEF Cap
    <3>7. Cardinality(Members') + Left' <= Cardinality(Members) + Left
      <4>1. \A a, b, c, l, m \in Nat : a <= b /\ b <= c + 1 /\ l + 1 <= m => a + l <= c + m
        OBVIOUS
      <4> QED BY <1>a, <3>3, <3>4, <3>5, <4>1, MemberCount, MemberCountPrimed, Zenon
    <3> QED BY <1>0, <1>a, <2>1, <3>6, <3>7, MemberCount, MemberCountPrimed DEF BoundInv
  <2> QED BY <2>2, <2>3, Zenon
<1>4. ASSUME NEW v \in VMs, LaunchStep(v) PROVE BoundInv'
  <2>1. Members' \subseteq Members
    BY <1>0, <1>4, LaunchMembers, Zenon
  <2>2. op' = op /\ pool' = pool /\ overcount' = overcount
    BY <1>0, <1>4, LaunchEffect, Zenon
  <2>3. Left' <= Left
    BY <1>a, <2>2 DEF Left
  <2> QED BY <1>0, <2>1, <2>2, <2>3, BoundKept, Zenon
<1>5. CASE AgCrash \/ AgFreeze \/ AgCatchUp
  <2>1. UNCHANGED poolVars
    BY <1>5, Zenon DEF AgCrash, AgFreeze, AgCatchUp
  <2> QED BY <1>0, <1>a, <2>1, BoundKept DEF poolVars, Members, Left
<1> QED BY <1>1, <1>2, <1>3, <1>4, <1>5, Zenon DEF Next, LaunchStep

(* The cap of a pool holds through crashes, failures and rollbacks, as     *)
(* long as the passes that create VMs count what is there: every VM above  *)
(* it was Failed, replaced, and restarted.                                 *)
THEOREM CapHolds == Spec => []PoolBounded
<1>1. Init => BoundInv
  <2> SUFFICES ASSUME Init PROVE BoundInv
    BY Zenon
  <2>1. Members = {} /\ Left = 0
    BY Zenon DEF Init, PoolInit, Members, Left, Absent, Idle
  <2>2. TypeOK
    BY InitType, Zenon
  <2>3. Cap \in Nat
    BY <2>2, ToCreateBounds, 0 \in Nat, Zenon DEF TypeOK, PoolTypeOK
  <2> QED BY <2>1, <2>2, <2>3, FS_EmptySet DEF BoundInv
<1>2. BoundInv => PoolBounded
  <2> SUFFICES ASSUME BoundInv, ~overcount PROVE Cardinality(Members) <= Cap
    BY Zenon DEF PoolBounded, Members, Cap
  <2>1. Cap \in Nat
    BY ToCreateBounds, 0 \in Nat, Zenon DEF BoundInv, TypeOK, PoolTypeOK
  <2> QED BY <2>1, LeftType, MemberCount DEF BoundInv
<1> QED BY <1>1, <1>2, BoundStep, PTL DEF Spec

-----------------------------------------------------------------------------
(* What the pool has when it rests.                                        *)

Enough(c) ==
  (\E v \in VMs : c[v].phase = "absent") /\ (pool.kind = "warm" => elected) =>
    Cardinality(Active(c)) >= Floor

(* The operator's cache misses a VM, which will be an event when it comes. *)
Behind == opCache # Live /\ \E v \in VMs : opCache[v].phase = "absent" /\ vm[v].phase # "absent"

(* A runner VM has its configuration, or is about to, or goes.             *)
Configured(v) ==
  pool.kind = "runner" /\ Exists(v) =>
    \/ vm[v].ref \/ vm[v].deleting \/ v \in stranded
    \/ op.pc \in {"mint", "patch"} /\ op.vm = v

(* As long as the pool lacks members it is queued, or will be when its     *)
(* cache catches up, or a pass is about to create one.                     *)
RestInv ==
  /\ TypeOK
  /\ opCache # Live => \A v \in VMs : vm[v].phase = "absent" => opCache[v].phase = "absent"
  /\ queued \/ Behind \/ op.pc = "create" \/ (op = Idle /\ Enough(OpVMs))
  /\ \A v \in VMs : Configured(v)

(* A step that creates no VM and tells the pool what it changes.           *)
LEMMA RestKept ==
  ASSUME RestInv, TypeOK', \A v \in VMs : Configured(v)', UNCHANGED <<pool, elected, opCache>>,
         \A v \in VMs : vm'[v].phase = "absent" <=> vm[v].phase = "absent",
         queued => queued', opCache = Live => queued' \/ vm' = vm,
         queued' \/ op' = op \/ (op.pc \in {"mint", "patch"})
  PROVE  RestInv'
<1>1. Behind => Behind'
  BY Zenon DEF Behind
<1>2. queued' \/ OpVMs' = OpVMs
  BY Zenon DEF OpVMs
<1>3. Enough(OpVMs) /\ OpVMs' = OpVMs => Enough(OpVMs)'
  BY Zenon DEF Enough, Active, Floor
<1>4. op.pc \in {"mint", "patch"} => op # Idle
  BY DEF Idle
<1>5. queued' \/ Behind' \/ op'.pc = "create" \/ (op' = Idle /\ Enough(OpVMs)')
  BY <1>1, <1>2, <1>3, <1>4, Zenon DEF RestInv
<1> QED BY <1>5, Zenon DEF RestInv

LEMMA ConfiguredPool ==
  ASSUME RestInv, PoolNext, NEW w \in VMs
  PROVE  Configured(w)'
<1> USE DEF RestInv, TypeOK, PoolTypeOK
<1>0. Configured(w) /\ vm[w] \in ImpVM /\ vm \in [VMs -> ImpVM]
  BY Zenon
<1>1. CASE CreateVM
  <2>1. op.pc = "create" /\ pool' = pool /\ stranded' = stranded
    BY <1>1, Zenon DEF CreateVM
  <2>2. CASE vm' = vm
    BY <1>0, <2>1, <2>2, Zenon DEF Configured, Exists
  <2>3. ASSUME NEW v \in VMs, vm' = [vm EXCEPT ![v].phase = "Pending"],
               pool.kind # "warm" => op' = [pc |-> "mint", vm |-> v, left |-> op.left]
        PROVE  Configured(w)'
    <3>1. CASE w = v
      BY <2>1, <2>3, <3>1 DEF Configured
    <3>2. CASE w # v
      <4>1. vm'[w] = vm[w]
        BY <1>0, <2>3, <3>2, Zenon
      <4> QED BY <1>0, <2>1, <4>1, Zenon DEF Configured, Exists
    <3> QED BY <3>1, <3>2, Zenon
  <2> QED BY <1>1, <2>2, <2>3, Zenon DEF CreateVM
<1>2. ASSUME NEW v \in VMs, Rollback(v)
      PROVE  /\ w # v => vm'[w] = vm[w]
             /\ stranded \subseteq stranded'
             /\ v \in stranded' \/ vm'[v] = [vm[v] EXCEPT !.deleting = Exists(v)]
  BY <1>2, <1>0, Zenon DEF Rollback
<1>3. ASSUME op.pc \in {"mint", "patch"}, Rollback(op.vm), pool' = pool
      PROVE  Configured(w)'
  <2>1. op.vm \in VMs
    BY <1>3 DEF Pass, Idle
  <2>2. CASE w # op.vm
    BY <1>0, <1>2, <1>3, <2>1, <2>2, Zenon DEF Configured, Exists
  <2>3. CASE w = op.vm
    <3>1. w \in stranded' \/ vm'[w] = [vm[w] EXCEPT !.deleting = Exists(w)]
      BY <1>2, <1>3, <2>1, <2>3, Zenon
    <3>2. CASE vm'[w] = [vm[w] EXCEPT !.deleting = Exists(w)]
      <4>1. vm'[w].phase = vm[w].phase /\ vm'[w].deleting = Exists(w)
        BY <1>0, <3>2, Zenon DEF ImpVM
      <4> QED BY <4>1, Zenon DEF Configured, Exists
    <3> QED BY <3>1, <3>2, Zenon DEF Configured
  <2> QED BY <2>2, <2>3, Zenon
<1>4. CASE MintRunnerConfig
  <2>1. op.pc = "mint" /\ pool' = pool /\ op \in Pass
    BY <1>4 DEF MintRunnerConfig, Idle
  <2>2. CASE op' = [op EXCEPT !.pc = "patch"] /\ UNCHANGED <<vm, stranded>>
    <3>1. op'.pc = "patch" /\ op'.vm = op.vm
      BY <2>1, <2>2, Zenon DEF Pass
    <3> QED BY <1>0, <2>1, <2>2, <3>1, Zenon DEF Configured, Exists
  <2> QED BY <1>3, <1>4, <2>1, <2>2, Zenon DEF MintRunnerConfig
<1>5. CASE PatchRunnerSecretReference
  <2>1. op.pc = "patch" /\ pool' = pool /\ op.vm \in VMs
    BY <1>5 DEF PatchRunnerSecretReference, Idle, Pass
  <2>2. CASE vm' = [vm EXCEPT ![op.vm].ref = TRUE] /\ stranded' = stranded
    <3>1. CASE w = op.vm
      <4>1. vm'[w].ref
        BY <1>0, <2>1, <2>2, <3>1, Zenon DEF ImpVM
      <4> QED BY <4>1, Zenon DEF Configured
    <3>2. CASE w # op.vm
      <4>1. vm'[w] = vm[w]
        BY <1>0, <2>2, <3>2, Zenon
      <4> QED BY <1>0, <2>1, <2>2, <3>2, <4>1, Zenon DEF Configured, Exists
    <3> QED BY <3>1, <3>2, Zenon
  <2> QED BY <1>3, <1>5, <2>1, <2>2, Zenon DEF PatchRunnerSecretReference
<1>6. CASE OpCrash
  BY <1>0, <1>6, Zenon DEF OpCrash, Configured, Exists
<1>7. CASE Wait \/ PoolTimer \/ ElectBase \/ OpFreeze \/ OpCatchUp
  <2>1. UNCHANGED <<vm, op, pool, stranded>>
    BY <1>7, Zenon DEF Wait, PoolTimer, ElectBase, OpFreeze, OpCatchUp
  <2> QED BY <1>0, <2>1, Zenon DEF Configured, Exists
<1>8. CASE Reconcile
  <2>1. vm'[w] \in {vm[w], [vm[w] EXCEPT !.deleting = TRUE]} /\ UNCHANGED <<pool, stranded>> /\ op = Idle
    BY <1>8, Zenon DEF Reconcile
  <2> QED BY <1>0, <2>1, Zenon DEF Configured, ImpVM, Idle, Exists
<1>9. ASSUME NEW v \in VMs, Expire(v) PROVE Configured(w)'
  <2>1. vm'[w] \in {vm[w], [vm[w] EXCEPT !.deleting = TRUE]} /\ UNCHANGED <<pool, op, stranded>>
    BY <1>9, Zenon DEF Expire
  <2> QED BY <1>0, <2>1 DEF Configured, ImpVM, Exists
<1>10. ASSUME NEW v \in VMs, HandleFailed(v) PROVE Configured(w)'
  <2>1. /\ vm'[w] = vm[w] \/ (Exists(w) /\ vm'[w] = [vm[w] EXCEPT !.phase = "Pending"])
        /\ UNCHANGED <<pool, op, stranded>>
    BY <1>10, Zenon DEF HandleFailed
  <2>2. vm'[w].ref = vm[w].ref /\ vm'[w].deleting = vm[w].deleting /\ (Exists(w)' => Exists(w))
    BY <1>0, <2>1 DEF ImpVM, Exists
  <2> QED BY <1>0, <2>1, <2>2, Zenon DEF Configured
<1> QED BY <1>1, <1>4, <1>5, <1>6, <1>7, <1>8, <1>9, <1>10, Zenon DEF PoolNext

LEMMA RestPool ==
  ASSUME RestInv, PoolNext, TypeOK'
  PROVE  RestInv'
<1>0. TypeOK /\ \A v \in VMs : Configured(v)'
  BY ConfiguredPool, Zenon DEF RestInv
<1>1. \A v \in VMs : vm'[v].phase = "absent" => vm[v].phase = "absent"
  BY <1>0, PoolEffect, Zenon
<1>2. ~CreateVM => \A v \in VMs : vm'[v].phase = "absent" <=> vm[v].phase = "absent"
  BY <1>0, PoolEffect, Zenon DEF Exists
<1>3. CASE Reconcile
  <2>1. PICK depth \in 0..MaxDemand, demand \in 0..MaxDemand :
          LET n == ToCreate(Cardinality(Active(OpVMs)), depth, demand)
          IN  op' = IF n = 0 THEN Idle ELSE [pc |-> "create", left |-> n]
    BY <1>3, PassCount, Zenon
  <2> DEFINE n == ToCreate(Cardinality(Active(OpVMs)), depth, demand)
  <2>2. n = 0 => Cardinality(Active(OpVMs)) >= Floor
    <3>1. Cardinality(Active(OpVMs)) \in Nat /\ depth \in Nat /\ demand \in Nat /\ pool \in PoolSpecs
      BY <1>0, ActiveCount, BoundAssumption DEF TypeOK, PoolTypeOK
    <3> QED BY <3>1, ToCreateBounds, Zenon
  <2>3. CASE n # 0
    <3>1. op'.pc = "create" /\ opCache' = opCache
      BY <1>3, <2>1, <2>3, Zenon DEF Reconcile
    <3> QED BY <1>0, <1>1, <3>1, Zenon DEF RestInv
  <2>4. CASE n = 0
    <3>1. op' = Idle /\ UNCHANGED <<pool, elected, opCache>> /\ queued' = (vm' # vm /\ opCache = Live)
      BY <1>3, <2>1, <2>4, Zenon DEF Reconcile
    <3>2. queued' \/ OpVMs' = OpVMs
      BY <3>1, Zenon DEF OpVMs
    <3>3. Cardinality(Active(OpVMs)) >= Floor /\ Floor' = Floor
      BY <2>2, <2>4, <3>1, Zenon DEF Floor
    <3>4. OpVMs' = OpVMs => Enough(OpVMs)'
      BY <3>3, Zenon DEF Enough, Active
    <3> QED BY <1>0, <1>1, <3>1, <3>2, <3>4, Zenon DEF RestInv
  <2> QED BY <2>3, <2>4, Zenon
<1>4. CASE Wait
  <2>1. UNCHANGED <<pool, elected, vm, op, opCache>> /\ op = Idle /\ pool.kind = "warm" /\ ~elected
    BY <1>4, Zenon DEF Wait
  <2>2. Enough(OpVMs)'
    BY <2>1, Zenon DEF Enough
  <2> QED BY <1>0, <1>1, <2>1, <2>2, Zenon DEF RestInv
<1>5. CASE CreateVM
  <2>1. opCache' = opCache
    BY <1>5, Zenon DEF CreateVM
  <2>2. ASSUME NEW v \in VMs, vm[v].phase = "absent", vm' = [vm EXCEPT ![v].phase = "Pending"], ToPool
        PROVE  queued' \/ Behind'
    <3>1. vm'[v].phase = "Pending"
      BY <1>0, <2>2 DEF TypeOK, PoolTypeOK, ImpVM
    <3> QED BY <2>1, <2>2, <3>1, Zenon DEF RestInv, ToPool, Behind
  <2>3. queued' \/ Behind'
    BY <1>5, <2>2, Zenon DEF CreateVM, GiveUp
  <2> QED BY <1>0, <1>1, <2>1, <2>3, Zenon DEF RestInv
<1>6. CASE MintRunnerConfig
  <2>1. op.pc = "mint" /\ UNCHANGED <<pool, elected, opCache>> /\ (queued' \/ vm' = vm) /\ (queued => queued')
    BY <1>6 DEF MintRunnerConfig, GiveUp
  <2>2. ~CreateVM
    BY <2>1, Zenon DEF CreateVM
  <2> QED BY <1>0, <1>2, <2>1, <2>2, RestKept, Zenon
<1>7. CASE PatchRunnerSecretReference
  <2>1. op.pc = "patch" /\ UNCHANGED <<pool, elected, opCache>>
    BY <1>7, Zenon DEF PatchRunnerSecretReference
  <2>2. (queued => queued') /\ (opCache = Live => queued')
    BY <1>7, Zenon DEF PatchRunnerSecretReference, GiveUp, ToPool
  <2>3. ~CreateVM
    BY <2>1, Zenon DEF CreateVM
  <2> QED BY <1>0, <1>2, <2>1, <2>2, <2>3, RestKept, Zenon
<1>8. CASE \E v \in VMs : Expire(v) \/ HandleFailed(v)
  <2>1. UNCHANGED <<pool, elected, opCache, op>> /\ (queued => queued') /\ (opCache = Live => queued')
    BY <1>8, Zenon DEF Expire, HandleFailed, ToPool
  <2>2. CASE CreateVM
    BY <1>5, <2>2, Zenon
  <2>3. CASE ~CreateVM
    BY <1>0, <1>2, <2>1, <2>3, RestKept, Zenon
  <2> QED BY <2>2, <2>3, Zenon
<1>9. CASE OpCrash \/ PoolTimer \/ ElectBase
  <2>1. queued' /\ (opCache' = Live \/ opCache' = opCache)
    BY <1>9, Zenon DEF OpCrash, PoolTimer, ElectBase
  <2> QED BY <1>0, <1>1, <2>1, Zenon DEF RestInv
<1>10. CASE OpFreeze
  <2>1. UNCHANGED <<pool, elected, vm, op, queued>> /\ opCache = Live /\ opCache' = vm
    BY <1>10, Zenon DEF OpFreeze
  <2>2. OpVMs' = OpVMs /\ ~Behind
    BY <2>1, Zenon DEF OpVMs, Behind
  <2>3. Enough(OpVMs) => Enough(OpVMs)'
    BY <2>1, <2>2, Zenon DEF Enough, Active, Floor
  <2> QED BY <1>0, <2>1, <2>2, <2>3, Zenon DEF RestInv
<1>11. CASE OpCatchUp
  <2>1. UNCHANGED <<pool, elected, vm, op>> /\ opCache' = Live /\ queued' = (queued \/ opCache # vm)
    BY <1>11, Zenon DEF OpCatchUp
  <2>2. CASE queued'
    BY <1>0, <2>1, <2>2, Zenon DEF RestInv
  <2>3. CASE ~queued'
    <3>1. opCache = vm /\ ~queued /\ ~Behind /\ OpVMs' = OpVMs
      BY <2>1, <2>3, Zenon DEF OpVMs, Behind
    <3>2. Enough(OpVMs) => Enough(OpVMs)'
      BY <2>1, <3>1, Zenon DEF Enough, Active, Floor
    <3> QED BY <1>0, <2>1, <3>1, <3>2, Zenon DEF RestInv
  <2> QED BY <2>2, <2>3, Zenon
<1> QED
  BY <1>3, <1>4, <1>5, <1>6, <1>7, <1>8, <1>9, <1>10, <1>11, Zenon DEF PoolNext

LEMMA RestStep == RestInv /\ [Next]_vars => RestInv'
<1> SUFFICES ASSUME RestInv, [Next]_vars PROVE RestInv'
  BY Zenon
<1>0. TypeOK /\ TypeOK'
  BY TypeStep, Zenon DEF RestInv
<1>1. ASSUME UNCHANGED poolVars PROVE RestInv'
  BY <1>0, <1>1, RestKept, Zenon DEF poolVars, RestInv, Configured, Exists
<1>2. ASSUME NEW v \in VMs, LaunchStep(v) PROVE RestInv'
  <2>1. ASSUME NEW w \in VMs
        PROVE  Configured(w)' /\ (vm'[w].phase = "absent" <=> vm[w].phase = "absent")
    <3>1. Configured(w) /\ UNCHANGED <<pool, op, stranded>>
      BY <1>0, <1>2, LaunchEffect, Zenon DEF RestInv
    <3>2. CASE w = v
      BY <1>0, <1>2, <3>1, <3>2, LaunchEffect, Zenon DEF Configured, Exists
    <3>3. CASE w # v
      BY <1>0, <1>2, <3>1, <3>3, OthersUntouched, Zenon DEF Configured, Exists
    <3> QED BY <3>2, <3>3, Zenon
  <2> QED BY <1>0, <1>2, <2>1, LaunchEffect, RestKept, Zenon
<1>3. CASE AgCrash \/ AgFreeze \/ AgCatchUp
  BY <1>1, <1>3, Zenon DEF AgCrash, AgFreeze, AgCatchUp
<1>4. CASE UNCHANGED vars
  BY <1>1, <1>4, Zenon DEF vars
<1> QED BY <1>0, <1>2, <1>3, <1>4, RestPool, Zenon DEF Next, LaunchStep

(* A pool that rests has the members it promises, and no runner VM without *)
(* its configuration, however events and deletions came in between.        *)
THEOREM PoolRestsComplete == Spec => []PoolSettles
<1>1. Init => RestInv
  BY InitType DEF Init, PoolInit, RestInv, Configured, Absent, Exists
<1>2. RestInv => PoolSettles
  <2> SUFFICES ASSUME RestInv, PoolSettled PROVE PoolSettles
    BY Zenon DEF PoolSettles
  <2>1. op = Idle /\ op.pc = "idle" /\ OpVMs = vm /\ Enough(vm)
    BY Zenon DEF PoolSettled, RestInv, Behind, OpVMs, Idle
  <2>2. Active(vm) = {v \in VMs : vm[v].phase \in {"Pending", "Running", "Terminating"}}
    BY Zenon DEF Active, Terminal, RestInv, TypeOK, PoolTypeOK, ImpVM
  <2> DEFINE k == Cardinality({v \in VMs : vm[v].phase \in {"Pending", "Running", "Terminating"}})
  <2>3. (\E v \in VMs : vm[v].phase = "absent") /\ (pool.kind = "warm" => elected) => k >= Floor
    BY <2>1, <2>2, Zenon DEF Enough
  <2>4. \A v \in VMs : Configured(v)
    BY Zenon DEF RestInv
  <2> HIDE DEF k
  <2>5. (\E v \in VMs : vm[v].phase = "absent") =>
          IF pool.kind = "warm" THEN elected => k >= pool.size
          ELSE LET r == ResolveRunnerScaling(pool) IN k >= Least({r.minIdle, r.maxConcurrent})
    BY <2>3, Zenon DEF Floor
  <2>6. pool.kind = "runner" =>
          \A v \in VMs \ stranded : vm[v].phase \in {"Pending", "Running"} => vm[v].ref \/ vm[v].deleting
    BY <2>1, <2>4, Zenon DEF Configured, Exists
  <2> QED BY <2>5, <2>6, Zenon DEF PoolSettles, k
<1> QED BY <1>1, <1>2, RestStep, PTL DEF Spec

-----------------------------------------------------------------------------
(* The launches.                                                           *)

Unstarted == {"absent", "Pending"}

(* VM v has never been started.                                            *)
Fresh(v) == vm[v].phase \in Unstarted /\ v \notin returned

(* The agent owes VM v another look: the VM is queued, its launch is under *)
(* way or has a mark to set, or the cache has yet to show what became of it.*)
Owed(v) == v \in todo \/ launch[v] # NoLaunch \/ marks[v] # {} \/ AgVMs[v] # vm[v]

(* A recorded failure nobody acts on any more.                             *)
LeftBehind(v) == v \in returned /\ vm[v].exit = 1

Work(v) ==
  /\ Fresh(v) => /\ vm[v].exit = None /\ launch[v] = NoLaunch /\ marks[v] = {}
                 /\ AgVMs[v].phase \in Unstarted
  /\ vm[v].phase = "absent" => AgVMs[v].phase = "absent"
  /\ vm[v].phase = "Running" => AgVMs[v].phase \in {"absent", "Pending", "Running"}
  /\ vm[v].phase = "Running" /\ vm[v].exit = 1 =>
       launch[v].pc = "cleanup" \/ marks[v] # {} \/ v \in unmarked \cup returned
  /\ AgVMs[v].phase = "absent" => v \notin todo /\ launch[v] = NoLaunch /\ marks[v] = {}
  /\ vm[v].phase = "Running" /\ vm[v].ref /\ ~vm[v].deleting /\ v \notin unmarked =>
       Owed(v) \/ LeftBehind(v)

WorkInv ==
  /\ HandoffInv
  /\ op.pc \in {"mint", "patch"} => vm[op.vm].phase # "absent"
  /\ \A v \in VMs : Work(v)

(* What the operator tells the agent.                                      *)
LEMMA PoolTells ==
  ASSUME WorkInv, PoolNext, NEW w \in VMs
  PROVE  /\ w \in todo => w \in todo'
         /\ w \in todo' => w \in todo \/ (agCache = Live /\ vm'[w].phase # "absent")
         /\ vm'[w] # vm[w] /\ agCache = Live => w \in todo'
         /\ Exists(w) /\ vm'[w].ref = vm[w].ref /\ ~vm'[w].deleting =>
              vm'[w] = vm[w] \/ vm'[w].phase = "Pending"
<1> USE DEF WorkInv, HandoffInv, TypeOK, PoolTypeOK
<1>0. vm \in [VMs -> ImpVM] /\ vm[w] \in ImpVM
  BY Zenon
<1>1. CASE Reconcile
  <2>1. vm'[w] = IF w \in {v \in VMs : OpVMs[v].phase \in Terminal /\ ~OpVMs[v].deleting /\ pool.kind = "runner"}
                    /\ Exists(w) THEN [vm[w] EXCEPT !.deleting = TRUE] ELSE vm[w]
    BY <1>1, Zenon DEF Reconcile
  <2>2. ToAgent({v \in VMs : vm'[v] # vm[v]})
    BY <1>1, Zenon DEF Reconcile
  <2>3. vm'[w] # vm[w] => Exists(w) /\ vm'[w].phase = vm[w].phase /\ vm'[w].deleting
    BY <1>0, <2>1, Zenon DEF ImpVM
  <2> QED BY <1>0, <2>2, <2>3, Zenon DEF ToAgent, Exists
<1>2. CASE Wait \/ OpCrash \/ PoolTimer \/ ElectBase \/ OpFreeze \/ OpCatchUp
  BY <1>2, Zenon DEF Wait, OpCrash, PoolTimer, ElectBase, OpFreeze, OpCatchUp
<1>3. CASE CreateVM
  <2>1. ASSUME NEW v \in VMs, vm[v].phase = "absent", vm' = [vm EXCEPT ![v].phase = "Pending"], ToAgent({v})
        PROVE  /\ w \in todo => w \in todo'
               /\ w \in todo' => w \in todo \/ (agCache = Live /\ vm'[w].phase # "absent")
               /\ vm'[w] # vm[w] => w = v /\ (agCache = Live => w \in todo')
    BY <1>0, <2>1, Zenon DEF ToAgent, ImpVM
  <2>2. CASE vm' = vm /\ todo' = todo
    BY <2>2, Zenon
  <2>3. ASSUME NEW v \in VMs, vm[v].phase = "absent", vm' = [vm EXCEPT ![v].phase = "Pending"], ToAgent({v})
        PROVE  Exists(w) => vm'[w] = vm[w]
    BY <1>0, <2>3, Zenon DEF Exists
  <2> QED BY <1>3, <2>1, <2>2, <2>3, Zenon DEF CreateVM
<1>4. ASSUME op.pc \in {"mint", "patch"}, Rollback(op.vm)
      PROVE  /\ w \in todo => w \in todo'
             /\ w \in todo' => w \in todo \/ (agCache = Live /\ vm'[w].phase # "absent")
             /\ vm'[w] # vm[w] /\ agCache = Live => w \in todo'
             /\ Exists(w) /\ ~vm'[w].deleting => vm'[w] = vm[w]
  <2>1. op.vm \in VMs /\ vm[op.vm].phase # "absent"
    BY <1>4 DEF Pass, Idle
  <2>2. CASE vm' = vm /\ todo' = todo
    BY <2>2, Zenon
  <2>3. CASE vm' = [vm EXCEPT ![op.vm].deleting = Exists(op.vm)] /\ ToAgent({op.vm})
    <3>1. w # op.vm => vm'[w] = vm[w]
      BY <1>0, <2>3, Zenon
    <3>2. w = op.vm => vm'[w].phase = vm[w].phase /\ vm'[w].deleting = Exists(w)
      BY <1>0, <2>3, Zenon DEF ImpVM
    <3> QED BY <2>1, <2>3, <3>1, <3>2, Zenon DEF ToAgent
  <2> QED BY <1>4, <2>2, <2>3, ZenonT(60) DEF Rollback
<1>5. CASE MintRunnerConfig
  BY <1>4, <1>5, Zenon DEF MintRunnerConfig
<1>6. CASE PatchRunnerSecretReference
  <2>1. op.pc = "patch" /\ op.vm \in VMs /\ vm[op.vm].phase # "absent"
    BY <1>6 DEF PatchRunnerSecretReference, Pass, Idle
  <2>2. CASE vm' = [vm EXCEPT ![op.vm].ref = TRUE] /\ ToAgent({op.vm})
    <3>1. w # op.vm => vm'[w] = vm[w]
      BY <1>0, <2>2, Zenon
    <3>2. w = op.vm => vm'[w].phase = vm[w].phase /\ vm'[w].ref # vm[w].ref
      BY <1>0, <2>1, <2>2, Zenon DEF ImpVM, MintedOnce
    <3>3. CASE w = op.vm
      BY <2>1, <2>2, <3>2, <3>3, Zenon DEF ToAgent
    <3>4. CASE w # op.vm
      BY <2>2, <3>1, <3>4, Zenon DEF ToAgent
    <3> QED BY <3>3, <3>4, Zenon
  <2> QED BY <1>4, <1>6, <2>1, <2>2, Zenon DEF PatchRunnerSecretReference
<1>7. ASSUME NEW v \in VMs, Expire(v)
      PROVE  /\ w \in todo => w \in todo'
             /\ w \in todo' => w \in todo \/ (agCache = Live /\ vm'[w].phase # "absent")
             /\ vm'[w] # vm[w] /\ agCache = Live => w \in todo'
             /\ Exists(w) /\ ~vm'[w].deleting => vm'[w] = vm[w]
  <2>1. w # v => vm'[w] = vm[w]
    BY <1>0, <1>7, Zenon DEF Expire
  <2>2. w = v => vm'[w].phase = "Running" /\ vm'[w].deleting
    BY <1>0, <1>7, Zenon DEF Expire, ImpVM
  <2>3. ToAgent({v})
    BY <1>7, Zenon DEF Expire
  <2> QED BY <2>1, <2>2, <2>3, Zenon DEF ToAgent
<1>8. ASSUME NEW v \in VMs, HandleFailed(v)
      PROVE  /\ w \in todo => w \in todo'
             /\ w \in todo' => w \in todo \/ (agCache = Live /\ vm'[w].phase # "absent")
             /\ vm'[w] # vm[w] => vm'[w].phase = "Pending" /\ (agCache = Live => w \in todo')
  <2>1. w # v => vm'[w] = vm[w]
    BY <1>0, <1>8, Zenon DEF HandleFailed
  <2>2. w = v => vm'[w].phase = "Pending"
    BY <1>0, <1>8, Zenon DEF HandleFailed, ImpVM
  <2>3. ToAgent({v})
    BY <1>8, Zenon DEF HandleFailed
  <2> QED BY <2>1, <2>2, <2>3, Zenon DEF ToAgent
<1> QED BY <1>1, <1>2, <1>3, <1>5, <1>6, <1>7, <1>8, Zenon DEF PoolNext

LEMMA WorkPool ==
  ASSUME WorkInv, PoolNext, UNCHANGED launchVars
  PROVE  WorkInv'
<1>0. TypeOK /\ HandoffInv /\ HandoffInv'
  BY HandoffPool, Zenon DEF WorkInv, HandoffInv
<1>1. ASSUME NEW w \in VMs PROVE Work(w)'
  <2>1. Work(w) /\ Handoff(w) /\ (op.pc = "patch" /\ op.vm = w => ~vm[w].ref)
    BY Zenon DEF WorkInv, HandoffInv, MintedOnce
  <2>2. /\ vm'[w].exit = vm[w].exit /\ agCache' = agCache
        /\ \/ vm'[w].phase = vm[w].phase
           \/ vm[w].phase = "absent" /\ vm'[w].phase = "Pending"
           \/ Exists(w) /\ vm'[w].phase = "Pending" /\ w \in returned'
        /\ w \in returned => w \in returned'
        /\ vm'[w].ref = vm[w].ref \/ (vm'[w].ref /\ op.pc = "patch" /\ op.vm = w)
    BY <1>0, PoolEffect, Zenon
  <2>3. UNCHANGED <<launch, marks, unmarked>>
    BY Zenon DEF launchVars
  <2>4. \/ agCache = Live /\ AgVMs[w] = vm[w] /\ AgVMs'[w] = vm'[w]
        \/ agCache # Live /\ AgVMs'[w] = AgVMs[w]
    BY <2>2, Zenon DEF AgVMs
  <2>8. Fresh(w)' => Fresh(w) /\ vm'[w].phase \in Unstarted
    BY <2>2, Zenon DEF Fresh, Unstarted
  <2>5. /\ Fresh(w)' => /\ vm'[w].exit = None /\ launch'[w] = NoLaunch /\ marks'[w] = {}
                        /\ AgVMs'[w].phase \in Unstarted
        /\ vm'[w].phase = "absent" => AgVMs'[w].phase = "absent"
        /\ vm'[w].phase = "Running" => AgVMs'[w].phase \in {"absent", "Pending", "Running"}
        /\ vm'[w].phase = "Running" /\ vm'[w].exit = 1 =>
             launch'[w].pc = "cleanup" \/ marks'[w] # {} \/ w \in unmarked' \cup returned'
    <3>1. Fresh(w)' => /\ vm'[w].exit = None /\ launch'[w] = NoLaunch /\ marks'[w] = {}
                       /\ AgVMs'[w].phase \in Unstarted
      BY <2>1, <2>2, <2>3, <2>4, <2>8, Zenon DEF Work
    <3>2. vm'[w].phase = "absent" => AgVMs'[w].phase = "absent"
      BY <2>1, <2>2, <2>4, Zenon DEF Work
    <3>3. vm'[w].phase = "Running" => vm[w].phase = "Running"
      BY <2>2, Zenon
    <3> QED BY <2>1, <2>2, <2>3, <2>4, <3>1, <3>2, <3>3, Zenon DEF Work
  <2>6. AgVMs'[w].phase = "absent" => w \notin todo' /\ launch'[w] = NoLaunch /\ marks'[w] = {}
    BY <2>1, <2>2, <2>3, <2>4, PoolTells, Zenon DEF Work, Exists
  <2>7. ASSUME vm'[w].phase = "Running", vm'[w].ref, ~vm'[w].deleting, w \notin unmarked'
        PROVE  Owed(w)' \/ LeftBehind(w)'
    <3>1. vm[w].phase = "Running" /\ Exists(w)
      BY <2>2, <2>7, Zenon DEF Exists
    <3>2. CASE vm'[w].ref = vm[w].ref
      <4>1. vm'[w] = vm[w]
        BY <2>7, <3>1, <3>2, PoolTells, Zenon
      <4>2. Owed(w) \/ LeftBehind(w)
        BY <2>1, <2>3, <2>7, <4>1, Zenon DEF Work
      <4>3. Owed(w) => Owed(w)'
        BY <2>3, <2>4, <4>1, PoolTells, Zenon DEF Owed
      <4> QED BY <2>2, <4>1, <4>2, <4>3, Zenon DEF LeftBehind
    <3>3. CASE vm'[w].ref # vm[w].ref
      <4>1. ~vm[w].ref /\ vm'[w] # vm[w]
        BY <2>1, <2>2, <3>3, Zenon
      <4>2. CASE agCache = Live
        BY <4>1, <4>2, PoolTells, Zenon DEF Owed
      <4>3. CASE agCache # Live
        <5>1. ~AgVMs'[w].ref
          BY <2>1, <2>4, <4>1, <4>3, Zenon DEF Handoff, CopyBehind
        <5> QED BY <2>7, <5>1, Zenon DEF Owed
      <4> QED BY <4>2, <4>3, Zenon
    <3> QED BY <3>2, <3>3, Zenon
  <2> QED BY <2>5, <2>6, <2>7, Zenon DEF Work
<1>2. op'.pc \in {"mint", "patch"} => vm'[op'.vm].phase # "absent"
  <2> SUFFICES ASSUME op'.pc \in {"mint", "patch"} PROVE vm'[op'.vm].phase # "absent"
    BY Zenon
  <2>1. op'.vm \in VMs
    BY <1>0 DEF HandoffInv, TypeOK, PoolTypeOK, Pass, Idle
  <2> QED BY <1>0, <2>1, PoolEffect DEF WorkInv
<1> QED BY <1>0, <1>1, <1>2, Zenon DEF WorkInv

(* A step of VM v that keeps the launch under way, or leaves a mark to set.*)
LEMMA WorkLaunching ==
  ASSUME NEW v \in VMs, Work(v), launch[v] # NoLaunch, launch'[v] # NoLaunch \/ marks'[v] # {},
         UNCHANGED <<agCache, returned, unmarked>>,
         vm'[v].phase = vm[v].phase, v \in todo' => v \in todo \/ agCache = Live,
         marks[v] \subseteq marks'[v],
         vm'[v].exit = 1 => launch'[v].pc = "cleanup" \/ marks'[v] # {}
                            \/ (vm[v].exit = 1 /\ launch[v].pc # "cleanup")
  PROVE  Work(v)'
<1>1. \/ agCache = Live /\ AgVMs[v] = vm[v] /\ AgVMs'[v] = vm'[v]
      \/ agCache # Live /\ AgVMs'[v] = AgVMs[v]
  BY Zenon DEF AgVMs
<1>2. Owed(v)'
  BY Zenon DEF Owed
<1>3. AgVMs'[v].phase # "absent" /\ ~Fresh(v)' /\ AgVMs[v].phase # "absent"
  BY <1>1, Zenon DEF Work, Fresh
<1>4. /\ vm'[v].phase = "absent" => AgVMs'[v].phase = "absent"
      /\ vm'[v].phase = "Running" => AgVMs'[v].phase \in {"absent", "Pending", "Running"}
  BY <1>1, Zenon DEF Work
<1>5. vm'[v].phase = "Running" /\ vm'[v].exit = 1 =>
        launch'[v].pc = "cleanup" \/ marks'[v] # {} \/ v \in unmarked' \cup returned'
  BY Zenon DEF Work
<1> QED BY <1>2, <1>3, <1>4, <1>5, Zenon DEF Work

LEMMA WorkLaunch ==
  ASSUME WorkInv, NEW v \in VMs, LaunchStep(v)
  PROVE  WorkInv'
<1>0. TypeOK /\ HandoffInv /\ HandoffInv'
  BY HandoffLaunch, Zenon DEF WorkInv, HandoffInv
<1>1. ASSUME NEW w \in VMs, w # v PROVE Work(w)'
  <2>1. Work(w) /\ AgVMs'[w] = AgVMs[w]
    BY <1>0, <1>1, OthersUntouched, Zenon DEF AgVMs, WorkInv
  <2> QED BY <1>0, <1>1, <2>1, OthersUntouched, Zenon DEF Work, Owed, Fresh, LeftBehind
<1>2. op'.pc \in {"mint", "patch"} => vm'[op'.vm].phase # "absent"
  <2> SUFFICES ASSUME op'.pc \in {"mint", "patch"} PROVE vm'[op'.vm].phase # "absent"
    BY Zenon
  <2>1. op' = op
    BY <1>0, LaunchEffect, Zenon
  <2>2. op.vm \in VMs
    BY <1>0, <2>1 DEF TypeOK, PoolTypeOK, Pass, Idle
  <2>3. vm[op.vm].phase # "absent"
    BY <2>1, Zenon DEF WorkInv
  <2> QED BY <1>0, <2>1, <2>2, <2>3, LaunchEffect, OthersUntouched, Zenon
<1>3. SUFFICES Work(v)'
  BY <1>0, <1>1, <1>2, Zenon DEF WorkInv
<1>4. /\ vm \in [VMs -> ImpVM] /\ launch \in [VMs -> Launch] /\ marks \in [VMs -> SUBSET Results]
      /\ vm[v] \in ImpVM /\ todo \subseteq VMs
      /\ Work(v) /\ Handoff(v) /\ UNCHANGED <<agCache, returned>> /\ vm'[v].ref = vm[v].ref
  BY <1>0, LaunchEffect, Zenon DEF TypeOK, PoolTypeOK, HandoffInv, WorkInv
<1>5. \/ agCache = Live /\ AgVMs[v] = vm[v] /\ AgVMs'[v] = vm'[v]
      \/ agCache # Live /\ AgVMs'[v] = AgVMs[v]
  BY <1>4, Zenon DEF AgVMs
(* A VM that is over is none of the agent's any more.                      *)
<1>6. ASSUME vm'[v].phase \notin {"absent", "Pending", "Running"}, AgVMs[v].phase # "absent"
      PROVE  Work(v)'
  <2>1. AgVMs'[v].phase # "absent"
    BY <1>5, <1>6, Zenon
  <2> QED BY <1>6, <2>1, Zenon DEF Work, Fresh, Unstarted
<1>7. CASE HandleScheduled(v)
  <2>1. v \in todo /\ vm[v].phase = "Pending" /\ AgVMs[v].phase = "Pending"
    BY <1>7, Zenon DEF HandleScheduled
  <2>2. \E p \in {"Running", "Failed"} : Write(v, [vm[v] EXCEPT !.phase = p])
    BY <1>7, ScheduledHandoff, Zenon
  <2>3. vm'[v].exit = vm[v].exit /\ vm'[v].phase \in {"Running", "Failed"}
    BY <1>4, <2>2 DEF Write, ImpVM
  <2>4. CASE vm'[v].phase = "Failed"
    BY <1>6, <2>1, <2>4, Zenon
  <2>5. CASE vm'[v].phase = "Running"
    <3>1. v \in todo' /\ AgVMs'[v].phase \in {"Pending", "Running"}
      BY <1>5, <2>1, <2>2, <2>5, Zenon DEF Write
    <3>2. vm'[v].exit = 1 => v \in returned'
      BY <1>4, <2>1, <2>3, NoneAssumption, Zenon DEF Work, Fresh, Unstarted
    <3> QED BY <2>5, <3>1, <3>2, Zenon DEF Work, Owed, Fresh, Unstarted
  <2> QED BY <2>3, <2>4, <2>5, Zenon
<1>8. CASE HandleRunning(v)
  <2> DEFINE c == AgVMs[v]
  <2>1. v \in todo /\ c.phase = "Running"
    BY <1>8, Zenon DEF HandleRunning
  <2>2. PICK alive \in {"Running", "Failed"} : Settle(v, alive)
    BY <1>8, RunningHandoff, Zenon
  <2>3. vm' = vm \/ (Exists(v) /\ \E p \in Terminal : vm' = [vm EXCEPT ![v].phase = p])
    BY <1>0, <2>1, <2>2, SettleEffect, Zenon
  <2>4. CASE vm' # vm
    <3>1. vm'[v].phase \in Terminal
      BY <1>4, <2>3, <2>4, Zenon DEF ImpVM
    <3> QED BY <1>6, <2>1, <3>1, Zenon DEF Terminal
  <2>5. CASE vm' = vm
    <3>1. AgVMs'[v] = c /\ ~Fresh(v) /\ ~Fresh(v)'
      BY <1>4, <1>5, <2>1, <2>5, Zenon DEF Work, Fresh, Unstarted
    <3>2. CASE vm[v].phase # "Running"
      BY <1>4, <2>1, <2>5, <3>1, <3>2, Zenon DEF Work
    <3>3. CASE vm[v].phase = "Running" /\ v \in unmarked'
      BY <1>4, <2>1, <2>5, <3>1, <3>3, Zenon DEF Work
    <3>4. CASE vm[v].phase = "Running" /\ v \notin unmarked'
      <4>1. MaybeLaunchRunner(v, c) /\ unmarked' = unmarked
        <5>1. vm'[v].phase = "Running" /\ ~(Settle(v, "Failed"))
          BY <1>0, <2>1, <2>5, <3>4, SettleEffect, Zenon
        <5> QED BY <1>8, <3>4, <5>1, RunningHandoff, Zenon
      <4>2. CASE c.ref /\ launch[v] = NoLaunch
        <5>1. launch'[v] = Begin(c) /\ marks'[v] = marks[v] \cup Verdict(c)
          BY <1>4, <4>1, <4>2, Zenon DEF MaybeLaunchRunner
        <5>2. launch[v].pc # "cleanup"
          BY <4>2 DEF NoLaunch
        <5>3. vm[v].exit = 1 => marks'[v] # {} \/ v \in unmarked \cup returned
          BY <1>4, <3>4, <5>1, <5>2, Zenon DEF Work
        <5>4. c.exit # 1 => launch'[v] # NoLaunch \/ marks'[v] # {}
          <6>1. c.exit \in {0, 1, None}
            BY <1>0, Zenon DEF TypeOK, PoolTypeOK, AgVMs, ImpVM
          <6> QED BY <5>1, <6>1, NoneAssumption DEF Begin, Verdict, NoLaunch
        <5>5. Owed(v)' \/ LeftBehind(v)'
          <6>1. CASE c # vm[v]
            BY <2>5, <3>1, <6>1, Zenon DEF Owed
          <6>2. CASE c = vm[v] /\ c.exit # 1
            BY <5>4, <6>2, Zenon DEF Owed
          <6>3. CASE c = vm[v] /\ c.exit = 1
            BY <1>4, <2>5, <3>4, <4>1, <5>3, <6>3, Zenon DEF Owed, LeftBehind
          <6> QED BY <6>1, <6>2, <6>3, Zenon
        <5> QED BY <1>4, <2>1, <2>5, <3>1, <3>4, <4>1, <5>3, <5>5, Zenon DEF Work
      <4>3. CASE ~(c.ref /\ launch[v] = NoLaunch)
        <5>1. UNCHANGED <<launch, marks>>
          BY <4>1, <4>3, Zenon DEF MaybeLaunchRunner
        <5>2. vm[v].ref => Owed(v)'
          BY <2>5, <3>1, <4>3, <5>1, Zenon DEF Owed
        <5> QED BY <1>4, <2>1, <2>5, <3>1, <3>4, <4>1, <5>1, <5>2, Zenon DEF Work
      <4> QED BY <4>2, <4>3, Zenon
    <3> QED BY <3>2, <3>3, <3>4, Zenon
  <2> QED BY <2>4, <2>5, Zenon
<1>9. CASE Ignore(v)
  <2>1. UNCHANGED <<vm, launch, marks, unmarked>> /\ AgVMs[v].phase \notin {"Running", "Pending", "Terminating"} /\ todo' \subseteq todo
    BY <1>9, Zenon DEF Ignore, poolVars, launchVars
  <2>2. AgVMs'[v] = AgVMs[v]
    BY <1>5, <2>1, Zenon
  <2>3. vm[v].phase = "Running" => AgVMs'[v] # vm'[v]
    BY <2>1, <2>2, Zenon
  <2> QED BY <1>4, <2>1, <2>2, <2>3, Zenon DEF Work, Owed, Fresh
<1>10. CASE HandleDeletion(v) \/ HandleTerminating(v)
  <2>1. vm'[v].phase \in {"Terminating", "gone"} /\ UNCHANGED <<launch, marks, unmarked>>
    BY <1>4, <1>10 DEF HandleDeletion, HandleTerminating, Write, ImpVM, launchVars
  <2>2. v \in todo' => v \in todo \/ agCache = Live
    BY <1>10, Zenon DEF HandleDeletion, HandleTerminating, Write
  <2> QED BY <1>4, <1>5, <2>1, <2>2, Zenon DEF Work, Fresh, Unstarted
<1>11. CASE GetSecretAndDial(v) \/ Exec(v) \/ ExecReturns(v)
  <2>1. UNCHANGED <<vm, todo, unmarked>> /\ launch[v].pc \in {"get", "exec", "wait"}
    BY <1>11, Zenon DEF GetSecretAndDial, Exec, ExecReturns, poolVars
  <2>a. ASSUME NEW pc, Goes(v, pc) PROVE launch'[v].pc = pc /\ marks' = marks
    BY <1>4, <2>a DEF Goes, Launch
  <2>b. ASSUME NEW res, CleansUp(v, res) PROVE launch'[v].pc = "cleanup" /\ marks' = marks
    BY <1>4, <2>b DEF CleansUp
  <2>c. ASSUME NEW res, Returns(v, res) PROVE marks'[v] # {} /\ marks[v] \subseteq marks'[v]
    BY <1>4, <2>c DEF Returns
  <2>d. \/ launch'[v].pc \in {"accept", "wait", "record", "cleanup"} /\ marks' = marks
        \/ marks'[v] # {} /\ marks[v] \subseteq marks'[v]
    BY <1>11, <2>a, <2>b, <2>c, Zenon DEF GetSecretAndDial, Exec, ExecReturns
  <2>2. /\ launch'[v].pc # "idle" \/ marks'[v] # {}
        /\ marks[v] \subseteq marks'[v]
    BY <2>d
  <2> QED BY <1>4, <2>1, <2>2, WorkLaunching DEF NoLaunch
<1>12. CASE RecordAccepted(v)
  <2>1. launch[v].pc = "accept" /\ unmarked' = unmarked /\ (v \in todo' => v \in todo \/ agCache = Live)
    BY <1>12, Zenon DEF RecordAccepted, Write, Unwritten
  <2>2. (launch'[v].pc = "exec" \/ marks'[v] # {}) /\ marks[v] \subseteq marks'[v]
    BY <1>4, <1>12 DEF RecordAccepted, Goes, Returns, Launch
  <2>3. vm'[v].phase = vm[v].phase /\ vm'[v].exit = vm[v].exit
    BY <1>4, <1>12 DEF RecordAccepted, Write, Unwritten, ImpVM
  <2> QED BY <1>4, <2>1, <2>2, <2>3, WorkLaunching DEF NoLaunch
<1>13. CASE RecordOutcome(v)
  <2>1. launch[v].pc = "record" /\ unmarked' = unmarked /\ (v \in todo' => v \in todo \/ agCache = Live)
    BY <1>13, Zenon DEF RecordOutcome, Write, Unwritten
  <2>2. launch'[v].pc = "cleanup" /\ marks' = marks
    BY <1>4, <1>13, Zenon DEF RecordOutcome, CleansUp
  <2>3. vm'[v].phase = vm[v].phase
    BY <1>4, <1>13, Zenon DEF RecordOutcome, Write, Unwritten, ImpVM
  <2> QED BY <1>4, <2>1, <2>2, <2>3, WorkLaunching DEF NoLaunch
<1>14. CASE DeleteSecret(v)
  <2>1. launch[v].pc = "cleanup" /\ UNCHANGED <<vm, todo, unmarked>>
    BY <1>14, Zenon DEF DeleteSecret
  <2>2. marks'[v] # {} /\ marks[v] \subseteq marks'[v]
    BY <1>4, <1>14 DEF DeleteSecret, Returns
  <2> QED BY <1>4, <2>1, <2>2, WorkLaunching DEF NoLaunch
<1>15. CASE FinishRunnerLaunch(v)
  <2> DEFINE c == AgVMs[v]
  <2>1. marks[v] # {} /\ UNCHANGED launch /\ unmarked \subseteq unmarked' /\ marks'[v] \subseteq marks[v]
    BY <1>4, <1>15 DEF FinishRunnerLaunch
  <2>2. ~Fresh(v) /\ c.phase # "absent"
    BY <1>4, <2>1, Zenon DEF Work
  <2>3. v \in todo' => v \in todo \/ agCache = Live
    BY <1>15, Zenon DEF FinishRunnerLaunch, Write, Unwritten
  <2>4. \/ vm' = vm /\ (v \in unmarked' \/ ~Exists(v) \/ c.phase \in Terminal \cup {"Terminating", "absent", "gone"})
        \/ \E p \in {"Succeeded", "Failed"} : Write(v, [vm[v] EXCEPT !.phase = p])
    BY <1>15, Zenon DEF FinishRunnerLaunch, Unwritten
  <2>5. CASE vm' = vm /\ (v \in unmarked' \/ ~Exists(v) \/ c.phase \in Terminal \cup {"Terminating", "absent", "gone"})
    <3>1. vm[v].phase = "Running" => v \in unmarked'
      BY <1>4, <2>2, <2>5 DEF Work, Terminal, Exists
    <3>2. AgVMs'[v] = c /\ ~Fresh(v)'
      BY <1>4, <1>5, <2>2, <2>5, Zenon DEF Fresh
    <3> QED BY <1>4, <2>2, <2>5, <3>1, <3>2, Zenon DEF Work
  <2>6. CASE \E p \in {"Succeeded", "Failed"} : Write(v, [vm[v] EXCEPT !.phase = p])
    <3>1. vm'[v].phase \in {"Succeeded", "Failed"}
      BY <1>4, <2>6 DEF Write, ImpVM
    <3> QED BY <1>6, <2>2, <3>1, Zenon
  <2> QED BY <2>4, <2>5, <2>6, Zenon
<1>16. CASE RunnerExits(v) \/ GuestDies(v)
  <2>1. UNCHANGED <<vm, todo, agCache, launch, marks, unmarked, returned>>
    BY <1>16, Zenon DEF RunnerExits, GuestDies, poolVars
  <2> QED BY <1>4, <2>1, Zenon DEF Work, Owed, Fresh, LeftBehind, AgVMs
<1> QED
  BY <1>7, <1>8, <1>9, <1>10, <1>11, <1>12, <1>13, <1>14, <1>15, <1>16, Zenon DEF LaunchStep

LEMMA WorkAgent ==
  ASSUME WorkInv, AgCrash \/ AgFreeze \/ AgCatchUp
  PROVE  WorkInv'
<1>1. HandoffInv' /\ UNCHANGED <<vm, op, returned>>
  BY HandoffAgent, Zenon DEF WorkInv, AgCrash, AgFreeze, AgCatchUp, poolVars
<1>2. ASSUME NEW v \in VMs PROVE Work(v)'
  <2>1. Work(v) /\ AgVMs'[v] = vm[v] /\ vm'[v] = vm[v] /\ Handoff(v) /\ vm[v] \in ImpVM /\ (Fresh(v)' <=> Fresh(v))
    BY <1>1, Zenon DEF WorkInv, HandoffInv, TypeOK, PoolTypeOK, AgCrash, AgFreeze, AgCatchUp, AgVMs, Fresh
  <2>2. CASE AgCrash
    <3>1. /\ v \in todo' <=> Exists(v)
          /\ launch'[v] = NoLaunch /\ marks'[v] = {}
          /\ (launch[v].pc = "cleanup" \/ marks[v] # {}) /\ vm[v].exit = 1 => v \in unmarked'
          /\ v \in unmarked => v \in unmarked'
      BY <2>2, Zenon DEF AgCrash
    <3> QED BY <1>1, <2>1, <3>1, Zenon DEF Work, Owed, Exists, Fresh
  <2>3. CASE AgFreeze
    <3>1. UNCHANGED <<todo, launch, marks, unmarked>> /\ AgVMs[v] = vm[v]
      BY <2>3, Zenon DEF AgFreeze, AgVMs, launchVars
    <3> QED BY <1>1, <2>1, <3>1, Zenon DEF Work, Owed, LeftBehind
  <2>4. CASE AgCatchUp
    <3>1. /\ UNCHANGED <<launch, marks, unmarked>> /\ AgVMs[v] = agCache[v]
          /\ v \in todo' <=> v \in todo \/ (agCache[v] # vm[v] /\ Exists(v))
      BY <2>4, Zenon DEF AgCatchUp, AgVMs, launchVars
    <3>2. AgVMs'[v].phase = "absent" => v \notin todo' /\ launch'[v] = NoLaunch /\ marks'[v] = {}
      BY <2>1, <3>1, Zenon DEF Work, Exists
    <3>3. vm'[v].phase = "Running" /\ (Owed(v) \/ LeftBehind(v)) => Owed(v)' \/ LeftBehind(v)'
      BY <1>1, <2>1, <3>1, Zenon DEF Owed, LeftBehind, Exists
    <3> QED BY <1>1, <2>1, <3>1, <3>2, <3>3, Zenon DEF Work, Fresh
  <2> QED BY <2>2, <2>3, <2>4, Zenon
<1> QED BY <1>1, <1>2, Zenon DEF WorkInv

LEMMA WorkStep == WorkInv /\ [Next]_vars => WorkInv'
<1>1. WorkInv /\ UNCHANGED vars => WorkInv'
  <2> SUFFICES ASSUME WorkInv, UNCHANGED vars PROVE WorkInv'
    BY Zenon
  <2>1. HandoffInv'
    BY HandoffStep, Zenon DEF WorkInv
  <2>2. UNCHANGED <<vm, op, todo, agCache, returned, launch, marks, unmarked>>
    BY Zenon DEF vars, poolVars, launchVars
  <2> QED BY <2>1, <2>2, Zenon DEF WorkInv, Work, Owed, Fresh, LeftBehind, AgVMs
<1> QED BY <1>1, WorkPool, WorkLaunch, WorkAgent, Zenon DEF Next, LaunchStep

(* A runner whose handoff is over or impossible is not left Running: at    *)
(* rest, every Running VM with a configuration has a launcher waiting for  *)
(* a runner at work, restarts of Failed VMs included, unless the mark was  *)
(* lost or a VM with a recorded failure was started again.                 *)
THEOREM NoIdleRunner == Spec => []RunningMeansWorking
<1>1. Init => WorkInv
  <2> SUFFICES ASSUME Init PROVE WorkInv
    BY Zenon
  <2>1. ASSUME NEW v \in VMs PROVE Work(v)
    <3>1. vm[v] = Absent /\ AgVMs[v] = Absent /\ launch[v] = NoLaunch /\ marks[v] = {} /\ todo = {}
      BY Zenon DEF Init, PoolInit, AgVMs
    <3> QED BY <3>1 DEF Work, Absent, Unstarted
  <2>2. op.pc = "idle"
    BY Zenon DEF Init, PoolInit, Idle
  <2> QED BY <2>1, <2>2, HandoffInit, Zenon DEF WorkInv
<1>2. WorkInv => RunningMeansWorking
  <2> SUFFICES ASSUME WorkInv, LaunchSettled, NEW v \in VMs \ unmarked,
                      vm[v].phase = "Running", vm[v].ref, ~vm[v].deleting
               PROVE  launch[v].pc = "wait" \/ (v \in returned /\ vm[v].exit = 1)
    BY Zenon DEF RunningMeansWorking
  <2>1. Owed(v) \/ LeftBehind(v)
    BY Zenon DEF WorkInv, Work
  <2> QED BY <2>1, Zenon DEF Owed, LeftBehind, LaunchSettled, AgVMs
<1> QED BY <1>1, <1>2, WorkStep, PTL DEF Spec
=============================================================================
