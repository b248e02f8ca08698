---------------------------- MODULE WorkloadProofs --------------------------
(***************************************************************************)
(* Proofs about the commands that run the project's own processes, for any  *)
(* number of them and without a bound on commands, kills, crashes and       *)
(* edits: that a workload finds its dependencies whole, that a load test    *)
(* reports the capacity, that the verdict of `verify` is true, and that a   *)
(* command enriches with the profile of its own driver.                     *)
(* Each has an inductive invariant of its own: IInv ties each volume to the *)
(* commands at work on it, for DepsComplete alone says nothing of a volume  *)
(* before it is mounted; LoadTestIInv says what a driver has measured       *)
(* before it reports; VerifyIInv what each gate that is through says of the *)
(* tree before the verdict is there; and ProfileIInv who owns a folder and  *)
(* what is in it, before a profile is picked.                               *)
(***************************************************************************)
EXTENDS DepsVolume, ProfileRun, Verify, LoadTest, SequenceTheorems, TLAPS

-----------------------------------------------------------------------------
(* Dependencies                                                             *)

LEMMA DepsInitInvariant == Init => IInv
BY DepsAssumption DEF Init, IInv, TypeOK, Settled, Alone, Fresh, Whole, Provisioning

\* The steps that leave the volumes alone.
LEMMA QuietPreserves ==
  ASSUME IInv, NEW r \in Runner,
         Start(r) \/ InspectImage(r) \/ BuildImage(r) \/ BuildFails(r)
         \/ HashLock(r) \/ InstallFails(r) \/ Finish(r) \/ Kill(r)
  PROVE  IInv'
<1> USE DepsAssumption DEF IInv, Goto, Provisioning, TypeOK
<1>1. CASE Start(r)
  BY <1>1 DEF Start, Settled, Alone, Fresh, Whole
<1>2. CASE InspectImage(r)
  BY <1>2 DEF InspectImage, Settled, Alone, Fresh, Whole
<1>3. CASE BuildImage(r)
  BY <1>3 DEF BuildImage, Settled, Alone, Fresh, Whole
<1>4. CASE BuildFails(r)
  BY <1>4 DEF BuildFails, Settled, Alone, Fresh, Whole
<1>5. CASE HashLock(r)
  BY <1>5 DEF HashLock, Settled, Alone, Fresh, Whole
<1>6. CASE InstallFails(r)
  BY <1>6 DEF InstallFails, Settled, Alone, Fresh, Whole
<1>7. CASE Finish(r)
  BY <1>7 DEF Finish, Settled, Alone, Fresh, Whole
<1>8. CASE Kill(r)
  BY <1>8 DEF Kill, Settled, Alone, Fresh, Whole
<1>9. QED  BY <1>1, <1>2, <1>3, <1>4, <1>5, <1>6, <1>7, <1>8

\* A volume that is found whole is settled; one that another command is filling
\* becomes disturbed here.
LEMMA InspectVolumePreserves ==
  ASSUME IInv, NEW r \in Runner, InspectVolume(r) PROVE IInv'
<1> USE DepsAssumption DEF InspectVolume, Goto, IInv, Provisioning
<1>1. TypeOK'
  BY DEF TypeOK
<1>2. Settled'
  BY DEF TypeOK, Settled, Alone, Fresh, Whole
<1>3. Alone'
  BY DEF TypeOK, Settled, Alone
<1>4. Fresh'
  BY DEF TypeOK, Fresh
<1>5. Whole'
  BY DEF TypeOK, Settled, Alone, Whole
<1>6. QED  BY <1>1, <1>2, <1>3, <1>4, <1>5

\* A volume is created where none was, or one that is there is kept.
LEMMA CreateVolumePreserves ==
  ASSUME IInv, NEW r \in Runner, CreateVolume(r) PROVE IInv'
<1> USE DepsAssumption DEF CreateVolume, Goto, IInv, Provisioning
<1>1. TypeOK'
  BY DEF TypeOK
<1>2. Settled'
  BY DEF TypeOK, Settled, Alone, Fresh, Whole
<1>3. Alone'
  BY DEF TypeOK, Settled, Alone
<1>4. Fresh'
  BY DEF TypeOK, Fresh
<1>5. Whole'
  BY DEF TypeOK, Settled, Alone, Whole
<1>6. QED  BY <1>1, <1>2, <1>3, <1>4, <1>5

\* The volume becomes partial, and nobody else counts on it.
LEMMA CopyLockPreserves ==
  ASSUME IInv, NEW r \in Runner, CopyLock(r) PROVE IInv'
<1> USE DepsAssumption DEF CopyLock, Goto, IInv, Provisioning
<1>1. TypeOK'
  BY DEF TypeOK
<1>2. Settled'
  BY DEF TypeOK, Settled, Alone, Fresh, Whole
<1>3. Alone'
  BY DEF TypeOK, Settled, Alone
<1>4. Fresh'
  BY DEF TypeOK, Fresh
<1>5. Whole'
  BY DEF TypeOK, Settled, Alone, Whole
<1>6. QED  BY <1>1, <1>2, <1>3, <1>4, <1>5

\* Alone in its volume, an install leaves the lockfile it copied: the one hashed.
LEMMA InstallDonePreserves ==
  ASSUME IInv, NEW r \in Runner, InstallDone(r) PROVE IInv'
<1> USE DepsAssumption DEF InstallDone, Goto, IInv, Provisioning, Left
<1>1. TypeOK'
  BY DEF TypeOK
<1>2. Settled'
  BY DEF TypeOK, Settled, Alone, Fresh, Whole
<1>3. Alone'
  BY DEF TypeOK, Settled, Alone
<1>4. Fresh'
  BY DEF TypeOK, Fresh
<1>5. Whole'
  BY DEF TypeOK, Alone, Fresh, Whole
<1>6. QED  BY <1>1, <1>2, <1>3, <1>4, <1>5

\* What a failed install left is removed, unless another container uses it,
\* and then the volume is disturbed.
LEMMA RemoveVolumePreserves ==
  ASSUME IInv, NEW r \in Runner, RemoveVolume(r) PROVE IInv'
<1> USE DepsAssumption DEF RemoveVolume, Goto, IInv, Provisioning, Containers
<1>1. TypeOK'
  BY DEF TypeOK
<1>2. Settled'
  BY DEF TypeOK, Settled, Alone, Fresh, Whole
<1>3. Alone'
  BY DEF TypeOK, Settled, Alone
<1>4. Fresh'
  BY DEF TypeOK, Fresh
<1>5. Whole'
  BY DEF TypeOK, Settled, Alone, Whole
<1>6. QED  BY <1>1, <1>2, <1>3, <1>4, <1>5

\* run would create a volume that is missing; none is.
LEMMA MountPreserves ==
  ASSUME IInv, NEW r \in Runner, Mount(r) PROVE IInv'
<1> USE DepsAssumption DEF Mount, Goto, IInv, Provisioning
<1>1. TypeOK'
  BY DEF TypeOK
<1>2. Settled'
  BY DEF TypeOK, Settled, Alone, Fresh, Whole
<1>3. Alone'
  BY DEF TypeOK, Settled, Alone
<1>4. Fresh'
  BY DEF TypeOK, Fresh
<1>5. Whole'
  BY DEF TypeOK, Settled, Alone, Whole
<1>6. QED  BY <1>1, <1>2, <1>3, <1>4, <1>5

\* An edit while a command depends on the lockfile disturbs its volume.
LEMMA EditPreserves == ASSUME IInv, EditLock PROVE IInv'
BY DepsAssumption
   DEF EditLock, IInv, TypeOK, Settled, Alone, Fresh, Whole, Provisioning

LEMMA DepsStepInvariant == IInv /\ [Next]_vars => IInv'
<1> SUFFICES ASSUME IInv, [Next]_vars PROVE IInv'
  OBVIOUS
<1>1. CASE EditLock
  BY <1>1, EditPreserves
<1>2. ASSUME NEW r \in Runner, Start(r) \/ Command(r) \/ Kill(r) PROVE IInv'
  BY <1>2, QuietPreserves, InspectVolumePreserves, CreateVolumePreserves, CopyLockPreserves,
     InstallDonePreserves, RemoveVolumePreserves, MountPreserves DEF Command
<1>3. CASE UNCHANGED vars
  BY <1>3 DEF vars, IInv, TypeOK, Settled, Alone, Fresh, Whole
<1>4. QED  BY <1>1, <1>2, <1>3 DEF Next

LEMMA DepsInvariantHolds == Spec => []IInv
BY DepsInitInvariant, DepsStepInvariant, PTL DEF Spec

(***************************************************************************)
(* A command that provisions or runs a container has built the image, and   *)
(* has a lockfile to install.                                               *)
(***************************************************************************)
THEOREM DepsTypeCorrect == Spec => []TypeOK
<1>1. IInv => TypeOK
  BY DEF IInv
<1>2. QED  BY <1>1, DepsInvariantHolds, PTL

(***************************************************************************)
(* provisionDeps: whatever installs failed before, a workload runs with the *)
(* whole install of the lockfile its volume is named after, unless a kill,  *)
(* a second command or an edit interfered with its provisioning.            *)
(***************************************************************************)
THEOREM WorkloadFindsDeps == Spec => []DepsComplete
<1>1. IInv => DepsComplete
  <2> SUFFICES ASSUME IInv, NEW r \in Runner, Mounted(r), key[r] \notin disturbed
               PROVE  volume[key[r]] = key[r]
    BY DEF DepsComplete
  <2>1. at[r] = "running" /\ key[r] \in Lock
    BY DEF IInv, TypeOK, Mounted
  <2>2. QED  BY <2>1 DEF IInv, Settled
<1>2. QED  BY <1>1, DepsInvariantHolds, PTL

-----------------------------------------------------------------------------
(* The load test                                                            *)

\* The minimum as the model takes it, from FiniteSetsExt.
LEMMA MinIs == ASSUME NEW S, NEW m \in S, m \in Int, S \subseteq Int, \A x \in S : m <= x PROVE Min(S) = m
<1>1. \A x \in S : (\A y \in S : x <= y) => x = m
  OBVIOUS
<1>2. QED  BY <1>1 DEF Min

LEMMA Parameters == StartRate \in Nat \ {0} /\ StepRate \in Nat \ {0} /\ MaxRate \in Nat \ {0} /\ Capacities \subseteq Nat
BY LoadTestAssumption

\* The rates offered rise.
LEMMA RatesRise ==
  ASSUME NEW i \in Nat, NEW j \in Nat, i > 0
  PROVE  /\ RateAt(i) \in Nat /\ RateAt(i + 1) = RateAt(i) + StepRate
         /\ RateAt(i) >= StartRate /\ RateAt(i) >= i
         /\ i <= j => RateAt(i) <= RateAt(j)
<1>1. \A a, b \in Nat : a * b \in Nat
  OBVIOUS
<1>2. (i - 1) * StepRate \in Nat /\ (i - 1) * (StepRate - 1) \in Nat
  BY <1>1, Parameters
<1>3. (i - 1) * (StepRate - 1) = (i - 1) * StepRate - (i - 1)
  BY Parameters
<1>4. (i + 1 - 1) * StepRate = (i - 1) * StepRate + StepRate
  BY Parameters
<1>5. CASE i <= j
  <2>1. (j - i) * StepRate \in Nat
    BY <1>1, <1>5, Parameters
  <2>2. (j - 1) * StepRate = (i - 1) * StepRate + (j - i) * StepRate
    BY Parameters
  <2>3. (j - 1) * StepRate \in Nat
    BY <1>1, <1>5, Parameters
  <2>4. QED  BY <1>2, <1>3, <1>4, <2>1, <2>2, <2>3, Parameters DEF RateAt
<1>6. QED  BY <1>2, <1>3, <1>4, <1>5, Parameters DEF RateAt

\* The rates there are to offer are those of the steps up to MaxRate.
LEMMA OfferedIs == Offered = {RateAt(i) : i \in {j \in Nat \ {0} : RateAt(j) <= MaxRate}}
<1>1. ASSUME NEW j \in Nat \ {0}, RateAt(j) <= MaxRate PROVE RateAt(j) \in Offered
  <2>1. RateAt(j) \in StartRate .. MaxRate /\ j - 1 \in 0 .. MaxRate
    BY <1>1, RatesRise, Parameters
  <2>2. QED  BY <2>1 DEF Offered, RateAt
<1>2. ASSUME NEW r \in Offered PROVE \E j \in Nat \ {0} : RateAt(j) <= MaxRate /\ r = RateAt(j)
  <2>1. PICK i \in 0 .. MaxRate : r = StartRate + i * StepRate
    BY DEF Offered
  <2>2. (i + 1) - 1 = i /\ i + 1 \in Nat \ {0}
    BY Parameters
  <2>3. r <= MaxRate
    BY Parameters DEF Offered
  <2>4. QED  BY <2>1, <2>2, <2>3 DEF RateAt
<1>3. QED  BY <1>1, <1>2

\* What an undisturbed driver has measured when it has done: the steps before the
\* n-th kept the SLO, and the rate after them is over the capacity or the limit.
LEMMA GoodRates ==
  ASSUME LoadTestTypeOK, NEW d \in Driver, NEW n \in Nat \ {0}, KeptBefore(d, n),
         RateAt(n) > capacity \/ RateAt(n) > MaxRate
  PROVE  /\ Offered \ Over = {RateAt(i) : i \in 1 .. n - 1}
         /\ RateAt(n) > MaxRate => Over = {}
         /\ RateAt(n) <= MaxRate => Over # {} /\ Min(Over) = RateAt(n)
<1> USE Parameters
<1>1. capacity \in Nat
  BY DEF LoadTestTypeOK
<1>2. \A i \in Nat \ {0} : RateAt(i) \in Nat /\ (\A j \in Nat : i <= j => RateAt(i) <= RateAt(j))
  BY RatesRise
<1>3. \A i \in 1 .. n - 1 : RateAt(i) \in Offered \ Over
  <2> TAKE i \in 1 .. n - 1
  <2>1. i \in Nat \ {0}
    OBVIOUS
  <2>2. RateAt(i) <= MaxRate /\ RateAt(i) <= capacity
    BY Zenon DEF KeptBefore
  <2>3. RateAt(i) \in Offered
    BY <2>1, <2>2, OfferedIs
  <2>4. QED  BY <1>1, <1>2, <2>1, <2>2, <2>3 DEF Over
<1>4. \A i \in Nat \ {0} : i >= n /\ RateAt(i) <= MaxRate =>
        RateAt(i) > capacity /\ RateAt(n) <= RateAt(i) /\ RateAt(n) <= MaxRate
  BY <1>1, <1>2
<1>5. Offered \ Over = {RateAt(i) : i \in 1 .. n - 1}
  <2>1. ASSUME NEW r \in Offered \ Over PROVE r \in {RateAt(i) : i \in 1 .. n - 1}
    <3>1. PICK i \in Nat \ {0} : RateAt(i) <= MaxRate /\ r = RateAt(i)
      BY <2>1, OfferedIs
    <3>2. RateAt(i) <= capacity
      BY <1>1, <1>2, <2>1, <3>1 DEF Over
    <3>3. i < n
      BY <1>1, <1>2, <1>4, <3>1, <3>2
    <3>4. QED  BY <3>1, <3>3
  <2>2. QED  BY <1>3, <2>1
<1>6. \A r \in Over : r \in Int /\ RateAt(n) <= r /\ RateAt(n) <= MaxRate
  <2> TAKE r \in Over
  <2>1. PICK i \in Nat \ {0} : RateAt(i) <= MaxRate /\ r = RateAt(i)
    BY OfferedIs DEF Over
  <2>2. i >= n
    BY <1>1, <1>2, <1>3, <2>1 DEF Over, KeptBefore
  <2>3. QED  BY <1>2, <1>4, <2>1, <2>2
<1>7. RateAt(n) > MaxRate => Over = {}
  BY <1>2, <1>6
<1>8. ASSUME RateAt(n) <= MaxRate PROVE Over # {} /\ Min(Over) = RateAt(n)
  <2>1. RateAt(n) \in Over
    BY <1>1, <1>2, <1>8, OfferedIs DEF Over
  <2>2. QED  BY <1>2, <1>6, <2>1, MinIs
<1>9. QED  BY <1>5, <1>7, <1>8

\* A driver that nobody disturbed reports what it measured, and that is the
\* capacity: after a breach, or when there is no rate left to offer.
LEMMA SummaryTrue ==
  ASSUME LoadTestIInv, NEW d \in Driver, driverAt[d] = "report", d \notin misled
  PROVE  Summary(steps[d]) = [rpsMax |-> Max({0} \cup (Offered \ Over)),
                              kneeRate |-> IF Over = {} THEN 0 ELSE Min(Over)]
<1> DEFINE run == steps[d]
           good == {i \in DOMAIN run : run[i].ok}
           bad == DOMAIN run \ good
<1>1. LoadTestTypeOK /\ run \in Seq([rate : Nat, achieved : Nat, ok : BOOLEAN])
  BY DEF LoadTestIInv, LoadTestTypeOK
<1>2. DOMAIN run = 1 .. Len(run) /\ Len(run) \in Nat
  BY <1>1
<1>3. SUFFICES /\ {run[i].achieved : i \in good} = Offered \ Over
               /\ (IF bad = {} THEN 0 ELSE run[Min(bad)].rate) = (IF Over = {} THEN 0 ELSE Min(Over))
  BY DEF Summary
<1>4. CASE Breached(d)
  <2> DEFINE n == Len(run)
  <2>1. n \in Nat \ {0} /\ KeptBefore(d, n) /\ RateAt(n) <= MaxRate /\ RateAt(n) > capacity
    BY <1>2, <1>4 DEF Breached
  <2>2. run[n].rate = RateAt(n) /\ ~run[n].ok
    BY <1>4 DEF Breached
  <2>3. \A i \in 1 .. n - 1 : run[i].ok /\ run[i].achieved = RateAt(i)
    <3> TAKE i \in 1 .. n - 1
    <3>1. run[i] = [rate |-> RateAt(i), achieved |-> RateAt(i), ok |-> TRUE]
      BY <2>1, Zenon DEF KeptBefore
    <3>2. QED  BY <3>1
  <2>4. good = 1 .. n - 1 /\ bad = {n}
    BY <1>2, <2>1, <2>2, <2>3
  <2>5. Min(bad) = n
    <3> HIDE DEF bad, n
    <3>1. QED  BY <2>1, <2>4, MinIs
  <2>6. {run[i].achieved : i \in good} = {RateAt(i) : i \in 1 .. n - 1}
    BY <2>3, <2>4
  <2>7. /\ Offered \ Over = {RateAt(i) : i \in 1 .. n - 1}
        /\ Over # {} /\ Min(Over) = RateAt(n)
    BY <1>1, <2>1, GoodRates
  <2>8. QED  BY <2>2, <2>4, <2>5, <2>6, <2>7
<1>5. CASE Sweeping(d) /\ rate[d] > MaxRate
  <2> DEFINE n == Len(run) + 1
  <2>1. n \in Nat \ {0} /\ KeptBefore(d, n) /\ RateAt(n) > MaxRate
    BY <1>2, <1>5 DEF Sweeping
  <2>2. n - 1 = Len(run)
    BY <1>2
  <2>3. \A i \in 1 .. n - 1 : run[i].ok /\ run[i].achieved = RateAt(i)
    <3> TAKE i \in 1 .. n - 1
    <3>1. run[i] = [rate |-> RateAt(i), achieved |-> RateAt(i), ok |-> TRUE]
      BY <2>1, Zenon DEF KeptBefore
    <3>2. QED  BY <3>1
  <2>4. good = 1 .. n - 1 /\ bad = {}
    BY <1>2, <2>2, <2>3
  <2>5. {run[i].achieved : i \in good} = {RateAt(i) : i \in 1 .. n - 1}
    BY <2>3, <2>4
  <2>6. RateAt(n) \in Nat
    <3>1. \A i \in Nat \ {0} : RateAt(i) \in Nat
      BY RatesRise
    <3> HIDE DEF n
    <3>2. QED  BY <2>1, <3>1
  <2>7. Offered \ Over = {RateAt(i) : i \in 1 .. n - 1} /\ Over = {}
    BY <1>1, <2>1, <2>6, GoodRates
  <2>8. QED  BY <2>4, <2>5, <2>7
<1>6. QED  BY <1>4, <1>5 DEF LoadTestIInv

LEMMA LoadTestInitInvariant == LoadTestInit => LoadTestIInv
BY Parameters DEF LoadTestInit, LoadTestIInv, LoadTestTypeOK, CapacityMeasured, NoReport

\* The steps that do not measure: those of the servers, and the driver's before and
\* after its sweep.
LEMMA UnmeasuredPreserves ==
  ASSUME LoadTestIInv, NEW d \in Driver,
         \/ Listen(d) \/ BootFails(d) \/ Crash(d) \/ Terminate(d) \/ NoticeExit(d)
         \/ StartServer(d) \/ CheckDown(d) \/ FetchHealth(d)
         \/ StepRejected(d) \/ ReportFails(d) \/ Cleanup(d)
  PROVE  LoadTestIInv'
<1>1. UNCHANGED <<capacity, rate, steps, report>> /\ misled \subseteq misled'
  BY DEF Listen, BootFails, Crash, Terminate, NoticeExit, StartServer, CheckDown, FetchHealth,
         StepRejected, ReportFails, Cleanup
<1>2. /\ capacity' = capacity /\ rate' = rate /\ steps' = steps /\ report' = report
      /\ misled \subseteq misled'
  BY <1>1
<1>3. LoadTestTypeOK'
  BY <1>2 DEF LoadTestIInv, LoadTestTypeOK, Listen, BootFails, Crash, Terminate, NoticeExit,
              StartServer, CheckDown, FetchHealth, StepRejected, ReportFails, Cleanup, DriverGoto, Fail
<1>4. \A e \in Driver :
        /\ driverAt'[e] \in {"idle", "check", "fetch", "warmup"} =>
             driverAt[e] \in {"idle", "check", "fetch", "warmup"}
        /\ driverAt'[e] \in {"sweep", "report"} => driverAt'[e] = driverAt[e]
  BY DEF LoadTestIInv, LoadTestTypeOK, Listen, BootFails, Crash, Terminate, NoticeExit,
         StartServer, CheckDown, FetchHealth, StepRejected, ReportFails, Cleanup, DriverGoto, Fail
<1>5. \A e \in Driver : Sweeping(e)' = Sweeping(e) /\ Breached(e)' = Breached(e)
  BY <1>2 DEF Sweeping, Breached, KeptBefore
<1>6. CapacityMeasured'
  BY <1>2 DEF LoadTestIInv, CapacityMeasured, Over
<1>7. QED  BY <1>2, <1>3, <1>4, <1>5, <1>6 DEF LoadTestIInv

\* The first step is offered the first rate.
LEMMA WarmupPreserves == ASSUME LoadTestIInv, NEW d \in Driver, Warmup(d) PROVE LoadTestIInv'
<1>1. /\ capacity' = capacity /\ rate' = rate /\ steps' = steps /\ report' = report /\ misled' = misled
      /\ driverAt[d] = "warmup" /\ driverAt' = [driverAt EXCEPT ![d] = "sweep"]
  BY DEF Warmup, DriverGoto
<1>2. LoadTestTypeOK'
  BY <1>1 DEF LoadTestIInv, LoadTestTypeOK, Warmup
<1>3. Sweeping(d)'
  <2>1. steps[d] = <<>> /\ rate[d] = StartRate
    BY <1>1 DEF LoadTestIInv
  <2>2. RateAt(1) = StartRate
    BY Parameters DEF RateAt
  <2>3. QED  BY <1>1, <2>1, <2>2 DEF Sweeping, KeptBefore
<1>4. \A e \in Driver : Sweeping(e)' = Sweeping(e) /\ Breached(e)' = Breached(e)
  BY <1>1 DEF Sweeping, Breached, KeptBefore
<1>5. CapacityMeasured'
  BY <1>1 DEF LoadTestIInv, CapacityMeasured, Over
<1>6. \A e \in Driver : driverAt[e] = driverAt'[e] \/ (e = d /\ driverAt'[e] = "sweep")
  BY <1>1 DEF LoadTestIInv, LoadTestTypeOK
<1>7. QED  BY <1>1, <1>2, <1>3, <1>4, <1>5, <1>6 DEF LoadTestIInv

\* A step that keeps the SLO is within the capacity, and the next rate follows; one
\* that breaches it is over the capacity, and the last.
LEMMA RunStepPreserves == ASSUME LoadTestIInv, NEW d \in Driver, RunStep(d) PROVE LoadTestIInv'
<1>1. /\ capacity' = capacity /\ report' = report /\ misled' = misled /\ failed' = failed
      /\ driverAt[d] = "sweep" /\ rate[d] <= MaxRate
  BY DEF RunStep
<1>2. PICK c \in Measured(d) :
        /\ steps' = [steps EXCEPT ![d] =
                       Append(@, [rate |-> rate[d], achieved |-> Achieved(d, c), ok |-> WithinSlo(c)])]
        /\ IF WithinSlo(c) THEN rate' = [rate EXCEPT ![d] = @ + StepRate] /\ driverAt' = driverAt
           ELSE rate' = rate /\ driverAt' = [driverAt EXCEPT ![d] = "report"]
  BY DEF RunStep, DriverGoto
<1> DEFINE step == [rate |-> rate[d], achieved |-> Achieved(d, c), ok |-> WithinSlo(c)]
           Step == [rate : Nat, achieved : Nat, ok : BOOLEAN]
<1>3. /\ LoadTestTypeOK /\ steps[d] \in Seq(Step) /\ rate[d] \in Nat /\ capacity \in Nat
      /\ \A e \in Driver : steps[e] \in Seq(Step) /\ rate[e] \in Nat
  BY DEF LoadTestIInv, LoadTestTypeOK
<1>4. PICK n \in Nat : n = Len(steps[d])
  BY <1>3
<1>5. step \in Step
  BY <1>3 DEF Achieved, WithinSlo, Measured, Kept, Overload, Counts
<1>6. /\ Append(steps[d], step) \in Seq(Step) /\ Len(Append(steps[d], step)) = n + 1
      /\ Append(steps[d], step)[n + 1] = step
      /\ \A i \in 1 .. n : Append(steps[d], step)[i] = steps[d][i]
  <2> HIDE DEF step, Step
  <2>1. QED  BY <1>3, <1>4, <1>5, AppendProperties
<1>7. /\ steps'[d] = Append(steps[d], step)
      /\ \A e \in Driver \ {d} : steps'[e] = steps[e] /\ rate'[e] = rate[e] /\ driverAt'[e] = driverAt[e]
      /\ DOMAIN steps' = Driver
      /\ WithinSlo(c) => rate'[d] = rate[d] + StepRate /\ driverAt'[d] = "sweep"
      /\ ~WithinSlo(c) => rate'[d] = rate[d] /\ driverAt'[d] = "report"
  BY <1>1, <1>2, <1>3 DEF LoadTestTypeOK
<1>8. LoadTestTypeOK'
  <2>1. capacity' \in Nat /\ DOMAIN report' = Driver /\ DOMAIN failed' = Driver
    BY <1>1, <1>3 DEF LoadTestTypeOK
  <2>2. steps' \in [Driver -> Seq(Step)]
    <3> HIDE DEF step, Step
    <3>1. QED  BY <1>2, <1>3, <1>6 DEF LoadTestTypeOK, step, Step
  <2>3. rate' \in [Driver -> Nat]
    <3>1. rate' = rate \/ rate' = [rate EXCEPT ![d] = @ + StepRate]
      BY <1>2
    <3>2. rate[d] + StepRate \in Nat
      BY <1>3, Parameters
    <3>3. QED  BY <1>3, <3>1, <3>2 DEF LoadTestTypeOK
  <2>4. driverAt' \in [Driver -> {"idle", "check", "fetch", "warmup", "sweep", "report", "cleanup", "close"}]
    BY <1>2, <1>3 DEF LoadTestTypeOK
  <2>5. QED  BY <2>1, <2>2, <2>3, <2>4 DEF LoadTestTypeOK
<1>9. \A e \in Driver \ {d} :
        /\ Sweeping(e) => Sweeping(e)'
        /\ Breached(e) => Breached(e)'
  BY <1>1, <1>7 DEF Sweeping, Breached, KeptBefore
<1>10. ASSUME d \notin misled
      PROVE  (WithinSlo(c) => Sweeping(d)') /\ (~WithinSlo(c) => Breached(d)')
  <2>1. rate[d] = RateAt(n + 1) /\ KeptBefore(d, n + 1)
    BY <1>1, <1>4, <1>10 DEF LoadTestIInv, Sweeping
  <2>2. n + 1 \in Nat \ {0} /\ (n + 1) - 1 = n /\ (n + 2) - 1 = n + 1 /\ (n + 1) + 1 = n + 2
    OBVIOUS
  <2>3. KeptBefore(d, n + 1)'
    <3> SUFFICES ASSUME NEW i \in 1 .. n
                 PROVE  /\ RateAt(i) <= MaxRate /\ RateAt(i) <= capacity'
                        /\ steps'[d][i] = [rate |-> RateAt(i), achieved |-> RateAt(i), ok |-> TRUE]
      BY <2>2 DEF KeptBefore
    <3>1. /\ RateAt(i) <= MaxRate /\ RateAt(i) <= capacity
          /\ steps[d][i] = [rate |-> RateAt(i), achieved |-> RateAt(i), ok |-> TRUE]
      BY <2>1, <2>2 DEF KeptBefore
    <3>2. QED  BY <1>1, <1>6, <1>7, <3>1
  <2>4. Len(steps'[d]) = n + 1 /\ steps'[d][n + 1] = step
    BY <1>6, <1>7
  <2>5. CASE WithinSlo(c)
    <3>1. rate[d] <= capacity /\ c = Kept
      BY <1>10, <2>5 DEF Measured, Overload, Kept, WithinSlo
    <3>2. step = [rate |-> RateAt(n + 1), achieved |-> RateAt(n + 1), ok |-> TRUE]
      BY <2>1, <2>5, <3>1 DEF Achieved, Kept
    <3>3. rate'[d] = RateAt(n + 2)
      BY <1>7, <2>1, <2>2, <2>5, RatesRise
    <3>4. KeptBefore(d, n + 2)'
      <4> SUFFICES ASSUME NEW i \in 1 .. n + 1
                   PROVE  /\ RateAt(i) <= MaxRate /\ RateAt(i) <= capacity'
                          /\ steps'[d][i] = [rate |-> RateAt(i), achieved |-> RateAt(i), ok |-> TRUE]
        BY <2>2 DEF KeptBefore
      <4>1. CASE i = n + 1
        BY <1>1, <2>1, <2>4, <3>1, <3>2, <4>1
      <4>2. CASE i \in 1 .. (n + 1) - 1
        BY <2>3, <4>2 DEF KeptBefore
      <4>3. QED  BY <4>1, <4>2
    <3>5. QED  BY <2>2, <2>4, <2>5, <3>3, <3>4 DEF Sweeping
  <2>6. CASE ~WithinSlo(c)
    <3>1. rate[d] > capacity
      BY <1>3, <1>10, <2>6 DEF Measured, Kept, WithinSlo
    <3>2. step.rate = RateAt(n + 1) /\ ~step.ok
      BY <2>1, <2>6
    <3>3. QED  BY <1>1, <2>1, <2>2, <2>3, <2>4, <2>6, <3>1, <3>2 DEF Breached
  <2>7. QED  BY <2>5, <2>6
<1>11. CapacityMeasured'
  BY <1>1 DEF LoadTestIInv, CapacityMeasured, Over
<1>12. QED  BY <1>1, <1>7, <1>8, <1>9, <1>10, <1>11 DEF LoadTestIInv

\* The sweep ran out of rates.
LEMMA SweepEndsPreserves == ASSUME LoadTestIInv, NEW d \in Driver, SweepEnds(d) PROVE LoadTestIInv'
<1>1. /\ capacity' = capacity /\ rate' = rate /\ steps' = steps /\ report' = report /\ misled' = misled
      /\ driverAt[d] = "sweep" /\ driverAt' = [driverAt EXCEPT ![d] = "report"] /\ rate[d] > MaxRate
  BY DEF SweepEnds, DriverGoto
<1>2. LoadTestTypeOK'
  BY <1>1 DEF LoadTestIInv, LoadTestTypeOK, SweepEnds
<1>3. \A e \in Driver : Sweeping(e)' = Sweeping(e) /\ Breached(e)' = Breached(e)
  BY <1>1 DEF Sweeping, Breached, KeptBefore
<1>4. CapacityMeasured'
  BY <1>1 DEF LoadTestIInv, CapacityMeasured, Over
<1>5. \A e \in Driver : driverAt[e] = driverAt'[e] \/ (e = d /\ driverAt'[e] = "report")
  BY <1>1 DEF LoadTestIInv, LoadTestTypeOK
<1>6. QED  BY <1>1, <1>2, <1>3, <1>4, <1>5 DEF LoadTestIInv

LEMMA WriteReportPreserves == ASSUME LoadTestIInv, NEW d \in Driver, WriteReport(d) PROVE LoadTestIInv'
<1>1. /\ capacity' = capacity /\ rate' = rate /\ steps' = steps /\ misled' = misled
      /\ driverAt[d] = "report" /\ driverAt' = [driverAt EXCEPT ![d] = "cleanup"]
      /\ report' = [report EXCEPT ![d] = Summary(steps[d])] /\ failed' = failed
  BY DEF WriteReport, DriverGoto
<1>2. LoadTestTypeOK'
  BY <1>1 DEF LoadTestIInv, LoadTestTypeOK
<1>3. \A e \in Driver : Sweeping(e)' = Sweeping(e) /\ Breached(e)' = Breached(e)
  BY <1>1 DEF Sweeping, Breached, KeptBefore
<1>4. CapacityMeasured'
  <2>1. Over' = Over
    BY <1>1 DEF Over
  <2>2. \A e \in Driver : report'[e] = IF e = d THEN Summary(steps[d]) ELSE report[e]
    BY <1>1 DEF LoadTestIInv, LoadTestTypeOK
  <2>3. QED  BY <1>1, <2>1, <2>2, SummaryTrue DEF LoadTestIInv, CapacityMeasured
<1>5. \A e \in Driver : driverAt[e] = driverAt'[e] \/ (e = d /\ driverAt'[e] = "cleanup")
  BY <1>1 DEF LoadTestIInv, LoadTestTypeOK
<1>6. QED  BY <1>1, <1>2, <1>3, <1>4, <1>5 DEF LoadTestIInv

\* A driver that is gone has measured nothing.
LEMMA GonePreserves ==
  ASSUME LoadTestIInv, NEW d \in Driver, Close(d) \/ KillDriver(d) PROVE LoadTestIInv'
<1>1. Gone(d) /\ capacity' = capacity
  BY DEF Close, KillDriver
<1>2. /\ driverAt' = [driverAt EXCEPT ![d] = "idle"] /\ rate' = [rate EXCEPT ![d] = StartRate]
      /\ steps' = [steps EXCEPT ![d] = <<>>] /\ report' = [report EXCEPT ![d] = NoReport]
      /\ failed' = [failed EXCEPT ![d] = FALSE] /\ misled' = misled \ {d}
  BY <1>1 DEF Gone
<1>3. LoadTestTypeOK'
  BY <1>1, <1>2, Parameters DEF LoadTestIInv, LoadTestTypeOK
<1>4. /\ driverAt'[d] = "idle" /\ rate'[d] = StartRate /\ steps'[d] = <<>> /\ report'[d] = NoReport
      /\ \A e \in Driver \ {d} :
           /\ driverAt'[e] = driverAt[e] /\ rate'[e] = rate[e]
           /\ steps'[e] = steps[e] /\ report'[e] = report[e]
           /\ e \in misled' <=> e \in misled
  BY <1>2 DEF LoadTestIInv, LoadTestTypeOK
<1>5. \A e \in Driver \ {d} : (Sweeping(e) => Sweeping(e)') /\ (Breached(e) => Breached(e)')
  <2> TAKE e \in Driver \ {d}
  <2>1. capacity' = capacity /\ rate'[e] = rate[e] /\ steps'[e] = steps[e]
    BY <1>1, <1>4
  <2>2. QED  BY <2>1 DEF Sweeping, Breached, KeptBefore
<1>6. CapacityMeasured'
  <2>1. Over' = Over
    BY <1>1 DEF Over
  <2> SUFFICES ASSUME NEW e \in Driver, report'[e] # NoReport, e \notin misled'
               PROVE  report'[e] = [rpsMax |-> Max({0} \cup (Offered \ Over)),
                                    kneeRate |-> IF Over = {} THEN 0 ELSE Min(Over)]
    BY <2>1 DEF CapacityMeasured
  <2>2. e \in Driver \ {d} /\ report'[e] = report[e] /\ e \notin misled
    BY <1>4
  <2>3. QED  BY <2>2 DEF LoadTestIInv, CapacityMeasured
<1>7. QED  BY <1>3, <1>4, <1>5, <1>6 DEF LoadTestIInv

LEMMA LoadTestStepInvariant == LoadTestIInv /\ [LoadTestNext]_loadTestVars => LoadTestIInv'
<1> SUFFICES ASSUME LoadTestIInv, [LoadTestNext]_loadTestVars PROVE LoadTestIInv'
  OBVIOUS
<1>1. CASE UNCHANGED loadTestVars
  <2>1. /\ capacity' = capacity /\ driverAt' = driverAt /\ rate' = rate /\ steps' = steps
        /\ report' = report /\ failed' = failed /\ misled' = misled
    BY <1>1 DEF loadTestVars
  <2>2. LoadTestTypeOK' /\ CapacityMeasured'
    BY <2>1 DEF LoadTestIInv, LoadTestTypeOK, CapacityMeasured, Over
  <2>3. \A e \in Driver : Sweeping(e)' = Sweeping(e) /\ Breached(e)' = Breached(e)
    BY <2>1 DEF Sweeping, Breached, KeptBefore
  <2>4. QED  BY <2>1, <2>2, <2>3 DEF LoadTestIInv
<1>2. ASSUME NEW d \in Driver,
             \/ StartServer(d) \/ DriverStep(d) \/ KillDriver(d)
             \/ Listen(d) \/ BootFails(d) \/ Crash(d) \/ Terminate(d) \/ NoticeExit(d)
      PROVE  LoadTestIInv'
  BY <1>2, UnmeasuredPreserves, WarmupPreserves, RunStepPreserves, SweepEndsPreserves,
     WriteReportPreserves, GonePreserves DEF DriverStep
<1>3. QED  BY <1>1, <1>2 DEF LoadTestNext

(***************************************************************************)
(* loadtest_driver.ts: the report of a driver that nobody disturbed gives   *)
(* the best rate within the SLO and the first one that breaches it, for any *)
(* number of drivers, rates, capacities, crashes and kills.                 *)
(***************************************************************************)
THEOREM CapacityIsMeasured == LoadTestSpec => []CapacityMeasured
<1>1. LoadTestIInv => CapacityMeasured
  BY DEF LoadTestIInv
<1>2. QED  BY <1>1, LoadTestInitInvariant, LoadTestStepInvariant, PTL DEF LoadTestSpec

-----------------------------------------------------------------------------
(* Verify                                                                   *)

LEMMA VerifyInitInvariant == VerifyInit => VerifyIInv
BY DEF VerifyInit, VerifyIInv, VerifyTypeOK, VerdictTrue, StatusesTrue, Due, NotRun, Tree

\* An edit under a command disturbs it; before it, nothing is said of the tree.
LEMMA EditTreePreserves == ASSUME VerifyIInv, EditTree PROVE VerifyIInv'
<1>1. /\ committed' = committed /\ skip' = skip /\ verifyAt' = verifyAt /\ verdict' = verdict
      /\ edited' = (edited \/ verifyAt # "idle") /\ tree' \in Tree
  BY DEF EditTree
<1>2. VerifyTypeOK' /\ (verdict # <<>> <=> verifyAt = "decide")'
  BY <1>1 DEF VerifyIInv, VerifyTypeOK, EditTree
<1>3. CASE verifyAt = "idle"
  <2>1. StatusesTrue' /\ VerdictTrue'
    BY <1>1, <1>3 DEF VerifyIInv, StatusesTrue, VerdictTrue
  <2>2. QED  BY <1>1, <1>2, <1>3, <2>1 DEF VerifyIInv, Due
<1>4. QED  BY <1>1, <1>2, <1>3 DEF VerifyIInv

LEMMA ReadScriptsPreserves == ASSUME VerifyIInv, ReadScripts PROVE VerifyIInv'
BY DEF VerifyIInv, ReadScripts, PlanChecks, NotRun, VerifyTypeOK, Tree, StatusesTrue, VerdictTrue, Due, Through

LEMMA SkippedPreserves ==
  ASSUME VerifyIInv, NEW g \in Gate, Skipped(g) PROVE VerifyIInv'
BY DEF VerifyIInv, Skipped, After, Gate, VerifyTypeOK, StatusesTrue, VerdictTrue, Due, Through

\* A gate that is killed fails, and is cut.
LEMMA RunCheckPreserves ==
  ASSUME VerifyIInv, NEW g \in Gate, RunCheck(g) PROVE VerifyIInv'
<1> USE DEF VerifyIInv, RunCheck, After, Gate
<1>1. PICK code \in ExitCodes(g) :
        /\ status' = [status EXCEPT ![g] = StatusOf(code)]
        /\ cut' = IF code = "null" THEN cut \cup {g} ELSE cut
  OBVIOUS
<1>2. VerifyTypeOK' /\ verdict = <<>> /\ (verdict # <<>> <=> verifyAt = "decide")'
  BY <1>1 DEF VerifyTypeOK, StatusOf
<1>3. CASE ~edited
  <2>1. g \in tree.scripts
    BY <1>3 DEF VerifyTypeOK, StatusesTrue, Due
  <2>2. StatusOf(code) = IF g \in tree.passes /\ code # "null" THEN "pass" ELSE "fail"
    BY <2>1 DEF ExitCodes, StatusOf
  <2>3. StatusesTrue'
    BY <1>1, <1>3, <2>2 DEF VerifyTypeOK, StatusesTrue, Due, Through
  <2>4. QED  BY <1>2, <1>3, <2>3 DEF VerdictTrue, Due
<1>4. QED  BY <1>2, <1>3 DEF VerifyTypeOK

LEMMA SummarizePreserves == ASSUME VerifyIInv, Summarize PROVE VerifyIInv'
<1> USE DEF VerifyIInv
<1> DEFINE ran == {g \in Gate : status[g] # "skipped"}
           failing == {g \in ran : status[g] = "fail"}
           v == [ ok |-> ran # {} /\ failing = {},
                  behaviorVerified |-> status["test"] = "pass",
                  degraded |-> \E g \in Gate : status[g] = "skipped",
                  summary |-> BuildSummary(ran, failing, status["test"] = "pass") ]
<1>1. verdict' = <<v>> /\ verifyAt = "summarize" /\ verifyAt' = "decide"
  BY DEF Summarize
<1>2. VerifyTypeOK' /\ (verdict # <<>> <=> verifyAt = "decide")'
  BY <1>1 DEF VerifyTypeOK, Summarize
<1>3. CASE ~edited
  <2>1. StatusesTrue /\ Through = Gate /\ Through' = Gate
    BY <1>1, <1>3 DEF Through
  <2>2. StatusesTrue' /\ Due(tree)' = Due(tree)
    BY <1>1, <2>1 DEF StatusesTrue, Summarize, Due
  <2>3. /\ ran = Due(tree) /\ Due(tree) \subseteq Gate
        /\ failing = {} <=> Due(tree) \subseteq tree.passes \ cut
        /\ status["test"] = "pass" <=> "test" \in Due(tree) \cap (tree.passes \ cut)
        /\ (\E g \in Gate : status[g] = "skipped") <=> Due(tree) # Gate
    BY <1>1, <2>1 DEF StatusesTrue, VerifyTypeOK, Gate
  <2>4. v.summary = "verified" => v.behaviorVerified
    BY DEF BuildSummary
  <2>5. v.summary = "type-check passed" => Due(tree) = {"typecheck"} /\ "typecheck" \in tree.passes \ cut
    BY <2>3 DEF BuildSummary, Gate
  <2>6. VerdictTrue'
    <3> HIDE DEF ran, failing
    <3>1. /\ v.ok <=> Due(tree) # {} /\ Due(tree) \subseteq tree.passes \ cut
          /\ v.behaviorVerified <=> "test" \in Due(tree) \cap (tree.passes \ cut)
          /\ ~v.degraded <=> Due(tree) = Gate
      BY <2>3
    <3> HIDE DEF v
    <3>2. verdict'[1] = v /\ tree' = tree /\ cut' = cut
      BY <1>1 DEF Summarize
    <3>3. QED  BY <2>2, <2>4, <2>5, <3>1, <3>2 DEF VerdictTrue
  <2>7. QED  BY <1>2, <1>3, <2>2, <2>6 DEF Summarize, Due
<1>4. QED  BY <1>2, <1>3 DEF Summarize

\* An edit is kept on a verdict that is true of it, or the last one is restored.
LEMMA DecidePreserves == ASSUME VerifyIInv, Decide PROVE VerifyIInv'
<1>1. VerifyTypeOK' /\ verifyAt' = "idle" /\ verdict' = <<>> /\ edited' = edited /\ skip' = skip
  BY DEF VerifyIInv, VerifyTypeOK, Decide
<1>2. StatusesTrue' /\ VerdictTrue'
  BY <1>1 DEF StatusesTrue, VerdictTrue
<1>3. ASSUME ~edited PROVE (Due(committed) \subseteq committed.passes)'
  <2>1. CASE verdict[1].ok
    <3>1. committed' = tree /\ verdict # <<>>
      BY <2>1 DEF Decide, VerifyIInv
    <3>2. Due(tree) \subseteq tree.passes
      BY <1>3, <2>1, <3>1 DEF VerifyIInv, VerdictTrue
    <3>3. QED  BY <1>1, <3>1, <3>2 DEF Due
  <2>2. CASE ~verdict[1].ok
    <3>1. committed' = committed
      BY <2>2 DEF Decide
    <3>2. QED  BY <1>1, <1>3, <3>1 DEF VerifyIInv, Due
  <2>3. QED  BY <2>1, <2>2
<1>4. QED  BY <1>1, <1>2, <1>3 DEF VerifyIInv

LEMMA VerifyStepInvariant == VerifyIInv /\ [VerifyNext]_verifyVars => VerifyIInv'
<1> SUFFICES ASSUME VerifyIInv, [VerifyNext]_verifyVars PROVE VerifyIInv'
  OBVIOUS
<1>1. CASE UNCHANGED verifyVars
  BY <1>1 DEF verifyVars, VerifyIInv, VerifyTypeOK, StatusesTrue, VerdictTrue, Due, Through
<1>2. QED
  BY <1>1, EditTreePreserves, ReadScriptsPreserves, SkippedPreserves, RunCheckPreserves,
     SummarizePreserves, DecidePreserves DEF VerifyNext

(***************************************************************************)
(* The verdict of `verify` is true of the tree, and what the loop keeps     *)
(* passes the gates it was told to run, unless the tree is edited under a   *)
(* command: however many edits were tried and however many gates killed.    *)
(***************************************************************************)
THEOREM VerdictIsTrue == VerifySpec => []VerdictHolds
<1>1. VerifyIInv => VerdictHolds
  BY DEF VerifyIInv, VerdictHolds
<1>2. VerifySpec => []VerifyIInv
  BY VerifyInitInvariant, VerifyStepInvariant, PTL DEF VerifySpec
<1>3. QED  BY <1>1, <1>2, PTL

-----------------------------------------------------------------------------
(* Profiles                                                                 *)

LEMMA UpToNext == \A n \in Nat : \A i \in 1 .. n + 1 : i \in 1 .. n \/ i = n + 1
OBVIOUS

LEMMA InitInvariant == ASSUME ProfileRunAssumption, ProfileInit PROVE ProfileIInv
BY DEF ProfileRunAssumption, ProfileInit, ProfileIInv, ProfileTypeOK, Alive, Own, Tidy, Filled, Written, Picked, Locked, Enriched, InUse

\* A command that runs has a folder with a name.
LEMMA FolderOfRunning ==
  ASSUME ProfileTypeOK, Own, NEW s \in Shell, profileAt[s] # "idle" PROVE folder[s] \in Folder
BY DEF ProfileTypeOK, Own

\* A profile that is written in the folder of a command is its newest.
LEMMA WriteAppends ==
  ASSUME ProfileTypeOK, Own, NEW s \in Shell, profileAt[s] # "idle", NEW p \in Process, Write(s, p)
  PROVE  /\ profiles' \in [Folder -> Seq(Profile)]
         /\ \A f \in Folder \ {folder[s]} : profiles'[f] = profiles[f]
         /\ Len(profiles'[folder[s]]) = Len(profiles[folder[s]]) + 1
         /\ \A i \in 1 .. Len(profiles[folder[s]]) : profiles'[folder[s]][i] = profiles[folder[s]][i]
         /\ profiles'[folder[s]][Len(profiles'[folder[s]])].shell = s
         /\ profiles'[folder[s]][Len(profiles'[folder[s]])].process = p
<1> DEFINE q == [shell |-> s, process |-> p]
<1>1. q \in Profile /\ folder[s] \in Folder /\ profiles[folder[s]] \in Seq(Profile)
  BY FolderOfRunning DEF Profile, ProfileTypeOK
<1>2. profiles' = [profiles EXCEPT ![folder[s]] = Append(profiles[folder[s]], q)]
  BY DEF Write
<1>3. profiles' \in [Folder -> Seq(Profile)] /\ profiles'[folder[s]] = Append(profiles[folder[s]], q)
  <2> HIDE DEF q
  <2>1. QED  BY <1>1, <1>2 DEF ProfileTypeOK
<1>4. \A f \in Folder \ {folder[s]} : profiles'[f] = profiles[f]
  BY <1>2 DEF ProfileTypeOK
<1>5. QED  BY <1>1, <1>3, <1>4, AppendProperties

\* What was picked is still the driver's.
LEMMA PickedKept ==
  ASSUME Picked, UNCHANGED <<command, picked>>,
         \A r \in Shell :
           profileAt'[r] \in {"open", "enrich", "read"} => profileAt[r] \in {"open", "enrich", "read"}
  PROVE  Picked'
BY DEF Picked, OfDriver

\* A folder holds what it held, or nothing any more.
LEMMA FilledKept ==
  ASSUME Filled, command' = command,
         \A r \in Shell : profileAt'[r] # "idle" =>
           /\ profileAt[r] # "idle" /\ folder'[r] = folder[r]
           /\ profiles'[folder[r]] \in {profiles[folder[r]], <<>>}
  PROVE  Filled'
<1> SUFFICES ASSUME NEW r \in Shell, profileAt'[r] # "idle", NEW i \in 1 .. Len(profiles'[folder'[r]])
             PROVE  OfDriver(profiles[folder[r]][i], r)'
  BY DEF Filled
<1>1. profiles'[folder'[r]] = profiles[folder[r]]
  OBVIOUS
<1>2. OfDriver(profiles[folder[r]][i], r)
  BY <1>1 DEF Filled
<1>3. QED  BY <1>1, <1>2 DEF OfDriver

\* A command that writes in its folder writes in no other's.
LEMMA WriteFills ==
  ASSUME ProfileTypeOK, Own, Tidy, Filled, NEW s \in Shell, profileAt[s] # "idle", NEW p \in Process, Write(s, p),
         p = "late child" => command[s] # "docker",
         command' = command, folder' = folder, left' = left,
         \A r \in Shell : profileAt'[r] # "idle" => profileAt[r] # "idle"
  PROVE  /\ Tidy' /\ Filled'
         /\ \A r \in Shell \ {s} : profileAt[r] # "idle" => profiles'[folder[r]] = profiles[folder[r]]
<1> DEFINE old == profiles[folder[s]]
           new == profiles'[folder[s]]
<1>1. folder[s] \in Folder
  BY FolderOfRunning
<1>2. /\ \A f \in Folder \ {folder[s]} : profiles'[f] = profiles[f]
      /\ Len(new) = Len(old) + 1
      /\ \A i \in 1 .. Len(old) : new[i] = old[i]
      /\ new[Len(new)].shell = s /\ new[Len(new)].process = p
  BY WriteAppends
<1>3. ASSUME NEW r \in Shell \ {s}, profileAt[r] # "idle"
      PROVE  profiles'[folder[r]] = profiles[folder[r]]
  <2>1. folder[r] \in Folder /\ folder[r] # folder[s]
    BY <1>3, FolderOfRunning DEF Own
  <2>2. QED  BY <1>2, <2>1
<1>4. Tidy'
  BY <1>2 DEF Tidy, InUse
<1>5. Filled'
  <2> SUFFICES ASSUME NEW r \in Shell, profileAt'[r] # "idle", NEW i \in 1 .. Len(profiles'[folder'[r]])
               PROVE  OfDriver(profiles[folder[r]][i], r)'
    BY DEF Filled
  <2>1. CASE r # s
    <3>1. profiles'[folder'[r]] = profiles[folder[r]]
      BY <1>3, <2>1
    <3>2. OfDriver(profiles[folder[r]][i], r)
      BY <3>1 DEF Filled
    <3>3. QED  BY <3>1, <3>2 DEF OfDriver
  <2>2. CASE r = s /\ i \in 1 .. Len(old)
    <3>1. OfDriver(old[i], s) /\ profiles'[folder'[s]][i] = old[i]
      BY <1>2, <2>2 DEF Filled
    <3>2. QED  BY <2>2, <3>1 DEF OfDriver
  <2>3. CASE r = s /\ i = Len(new)
    <3>1. profiles'[folder'[r]][i] = new[Len(new)]
      BY <2>3
    <3>2. QED  BY <1>2, <2>3, <3>1 DEF OfDriver
  <2>4. old \in Seq(Profile)
    BY <1>1 DEF ProfileTypeOK
  <2>5. r = s => i \in 1 .. Len(old) + 1
    BY <1>2
  <2>6. Len(old) \in Nat
    BY <2>4, LenProperties
  <2>7. Len(new) = Len(old) + 1
    BY <1>2
  <2>8. r = s => i \in 1 .. Len(old) \/ i = Len(new)
    BY <2>5, <2>6, <2>7, UpToNext
  <2>9. QED  BY <2>1, <2>2, <2>3, <2>8
<1>6. QED  BY <1>3, <1>4, <1>5

\* The newest profile is the one that was written.
LEMMA LastWritten ==
  ASSUME ProfileTypeOK, Own, NEW s \in Shell, profileAt[s] # "idle", NEW p \in Process, Write(s, p)
  PROVE  /\ profiles' \in [Folder -> Seq(Profile)]
         /\ Len(profiles'[folder[s]]) > 0
         /\ profiles'[folder[s]][Len(profiles'[folder[s]])].process = p
<1>1. profiles[folder[s]] \in Seq(Profile)
  BY FolderOfRunning DEF ProfileTypeOK
<1>2. Len(profiles[folder[s]]) \in Nat
  BY <1>1, LenProperties
<1>3. QED  BY <1>2, WriteAppends

\* A child runs with the driver.
LEMMA ForkPreserves ==
  ASSUME ProfileRunAssumption, ProfileIInv, NEW s \in Shell, Fork(s) PROVE ProfileIInv'
<1> USE DEF Fork, ProfileIInv
<1>1. ProfileTypeOK'
  BY DEF ProfileTypeOK
<1>2. Alive'
  BY DEF ProfileTypeOK, Alive
<1>3. Own'
  BY DEF ProfileTypeOK, Own
<1>4. Tidy'
  BY DEF ProfileTypeOK, Own, Tidy, InUse
<1>5. Filled'
  BY FilledKept DEF ProfileTypeOK, Own
<1>6. Written'
  BY DEF ProfileTypeOK, Own, Written
<1>7. Picked'
  BY DEF ProfileTypeOK, Picked, OfDriver
<1>8. Locked'
  BY DEF ProfileTypeOK, Locked
<1>9. Enriched'
  BY DEF ProfileTypeOK, Enriched
<1>10. QED  BY <1>1, <1>2, <1>3, <1>4, <1>5, <1>6, <1>7, <1>8, <1>9

\* Nothing is written before the driver runs.
LEMMA ContainerFailsPreserves ==
  ASSUME ProfileRunAssumption, ProfileIInv, NEW s \in Shell, ContainerFails(s) PROVE ProfileIInv'
<1> USE DEF ContainerFails, ProfileIInv, ProfileGoto
<1>1. ProfileTypeOK'
  BY DEF ProfileTypeOK
<1>2. Alive'
  BY DEF ProfileTypeOK, Alive
<1>3. Own'
  BY DEF ProfileTypeOK, Own
<1>4. Tidy'
  BY DEF ProfileTypeOK, Own, Tidy, InUse
<1>5. Filled'
  BY FilledKept DEF ProfileTypeOK, Own
<1>6. Written'
  BY DEF ProfileTypeOK, Own, Written
<1>7. Picked'
  BY DEF ProfileTypeOK, Picked, OfDriver
<1>8. Locked'
  BY DEF ProfileTypeOK, Locked
<1>9. Enriched'
  BY DEF ProfileTypeOK, Enriched
<1>10. QED  BY <1>1, <1>2, <1>3, <1>4, <1>5, <1>6, <1>7, <1>8, <1>9

\* The command has waited for the driver and for whoever has its standard error.
LEMMA DriverFailedPreserves ==
  ASSUME ProfileRunAssumption, ProfileIInv, NEW s \in Shell, DriverFailed(s) PROVE ProfileIInv'
<1> USE DEF DriverFailed, ProfileIInv, ProfileGoto
<1>1. ProfileTypeOK'
  BY DEF ProfileTypeOK
<1>2. Alive'
  BY DEF ProfileTypeOK, Alive
<1>3. Own'
  BY DEF ProfileTypeOK, Own
<1>4. Tidy'
  BY DEF ProfileTypeOK, Own, Tidy, InUse
<1>5. Filled'
  BY FilledKept DEF ProfileTypeOK, Own
<1>6. Written'
  BY DEF ProfileTypeOK, Own, Written
<1>7. Picked'
  BY DEF ProfileTypeOK, Picked, OfDriver
<1>8. Locked'
  BY DEF ProfileTypeOK, Locked
<1>9. Enriched'
  BY DEF ProfileTypeOK, Enriched
<1>10. QED  BY <1>1, <1>2, <1>3, <1>4, <1>5, <1>6, <1>7, <1>8, <1>9

\* No other command has the database open.
LEMMA OpenStorePreserves ==
  ASSUME ProfileRunAssumption, ProfileIInv, NEW s \in Shell, OpenStore(s) PROVE ProfileIInv'
<1> USE DEF OpenStore, ProfileIInv, ProfileGoto
<1>1. ProfileTypeOK'
  BY DEF ProfileTypeOK
<1>2. Alive'
  BY DEF ProfileTypeOK, Alive
<1>3. Own'
  BY DEF ProfileTypeOK, Own
<1>4. Tidy'
  BY DEF ProfileTypeOK, Own, Tidy, InUse
<1>5. Filled'
  BY FilledKept DEF ProfileTypeOK, Own
<1>6. Written'
  BY DEF ProfileTypeOK, Own, Written
<1>7. Picked'
  <2>1. \A r \in Shell : profileAt'[r] \in {"open", "enrich", "read"} => profileAt[r] \in {"open", "enrich", "read"}
    BY DEF ProfileTypeOK
  <2>2. QED  BY <2>1, PickedKept
<1>8. Locked'
  BY DEF ProfileTypeOK, Locked
<1>9. Enriched'
  BY DEF ProfileTypeOK, Enriched
<1>10. QED  BY <1>1, <1>2, <1>3, <1>4, <1>5, <1>6, <1>7, <1>8, <1>9

\* The graph is of the profile that was picked.
LEMMA EnrichGraphPreserves ==
  ASSUME ProfileRunAssumption, ProfileIInv, NEW s \in Shell, EnrichGraph(s) PROVE ProfileIInv'
<1> USE DEF EnrichGraph, ProfileIInv, ProfileGoto
<1>1. ProfileTypeOK'
  BY DEF ProfileTypeOK
<1>2. Alive'
  BY DEF ProfileTypeOK, Alive
<1>3. Own'
  BY DEF ProfileTypeOK, Own
<1>4. Tidy'
  BY DEF ProfileTypeOK, Own, Tidy, InUse
<1>5. Filled'
  BY FilledKept DEF ProfileTypeOK, Own
<1>6. Written'
  BY DEF ProfileTypeOK, Own, Written
<1>7. Picked'
  <2>1. \A r \in Shell : profileAt'[r] \in {"open", "enrich", "read"} => profileAt[r] \in {"open", "enrich", "read"}
    BY DEF ProfileTypeOK
  <2>2. QED  BY <2>1, PickedKept
<1>8. Locked'
  BY DEF ProfileTypeOK, Locked
<1>9. Enriched'
  BY DEF ProfileTypeOK, Enriched, Picked
<1>10. QED  BY <1>1, <1>2, <1>3, <1>4, <1>5, <1>6, <1>7, <1>8, <1>9

\* A run of a benchmark starts in an empty folder.
LEMMA NextRunPreserves ==
  ASSUME ProfileRunAssumption, ProfileIInv, NEW s \in Shell, NextRun(s) PROVE ProfileIInv'
<1> USE DEF NextRun, ProfileIInv, ProfileGoto
<1>1. ProfileTypeOK'
  <2>1. profiles' \in [Folder -> Seq(Profile)]
    BY FolderOfRunning, <<>> \in Seq(Profile) DEF ProfileTypeOK
  <2>2. QED  BY <2>1 DEF ProfileTypeOK
<1>2. Alive'
  BY DEF ProfileTypeOK, Alive
<1>3. Own'
  BY DEF ProfileTypeOK, Own
<1>4. Tidy'
  BY DEF ProfileTypeOK, Own, Tidy, InUse
<1>5. Filled'
  BY FilledKept DEF ProfileTypeOK, Own
<1>6. Written'
  BY DEF ProfileTypeOK, Own, Written
<1>7. Picked'
  BY DEF ProfileTypeOK, Picked, OfDriver
<1>8. Locked'
  BY DEF ProfileTypeOK, Locked
<1>9. Enriched'
  BY DEF ProfileTypeOK, Enriched
<1>10. QED  BY <1>1, <1>2, <1>3, <1>4, <1>5, <1>6, <1>7, <1>8, <1>9

\* The folder is empty before it is given up.
LEMMA RemoveFolderPreserves ==
  ASSUME ProfileRunAssumption, ProfileIInv, NEW s \in Shell, RemoveFolder(s) PROVE ProfileIInv'
<1> USE DEF RemoveFolder, ProfileIInv, ProfileGoto
<1>1. ProfileTypeOK'
  <2>1. profiles' \in [Folder -> Seq(Profile)]
    BY FolderOfRunning, <<>> \in Seq(Profile) DEF ProfileTypeOK
  <2>2. QED  BY <2>1 DEF ProfileTypeOK
<1>2. Alive'
  BY DEF ProfileTypeOK, Alive
<1>3. Own'
  BY DEF ProfileTypeOK, Own, ProfileRunAssumption
<1>4. Tidy'
  BY DEF ProfileTypeOK, Own, Tidy, InUse
<1>5. Filled'
  BY FilledKept DEF ProfileTypeOK, Own
<1>6. Written'
  BY DEF ProfileTypeOK, Own, Written
<1>7. Picked'
  BY DEF ProfileTypeOK, Picked, OfDriver
<1>8. Locked'
  BY DEF ProfileTypeOK, Locked
<1>9. Enriched'
  BY DEF ProfileTypeOK, Enriched
<1>10. QED  BY <1>1, <1>2, <1>3, <1>4, <1>5, <1>6, <1>7, <1>8, <1>9

\* The folder of a killed command is left, with its profiles.
LEMMA StopCommandPreserves ==
  ASSUME ProfileRunAssumption, ProfileIInv, NEW s \in Shell, StopCommand(s) PROVE ProfileIInv'
<1> USE DEF StopCommand, ProfileIInv
<1>1. ProfileTypeOK'
  BY DEF ProfileTypeOK, Own
<1>2. Alive'
  BY DEF ProfileTypeOK, Alive
<1>3. Own'
  BY DEF ProfileTypeOK, Own, ProfileRunAssumption
<1>4. Tidy'
  BY DEF ProfileTypeOK, Own, Tidy, InUse
<1>5. Filled'
  BY FilledKept DEF ProfileTypeOK, Own
<1>6. Written'
  BY DEF ProfileTypeOK, Own, Written
<1>7. Picked'
  BY DEF ProfileTypeOK, Picked, OfDriver
<1>8. Locked'
  BY DEF ProfileTypeOK, Locked
<1>9. Enriched'
  BY DEF ProfileTypeOK, Enriched
<1>10. QED  BY <1>1, <1>2, <1>3, <1>4, <1>5, <1>6, <1>7, <1>8, <1>9

\* The name is nobody's, so that nothing is in the folder.
LEMMA MakeFolderPreserves ==
  ASSUME ProfileRunAssumption, ProfileIInv, NEW s \in Shell, MakeFolder(s) PROVE ProfileIInv'
<1> USE DEF MakeFolder, ProfileIInv, ProfileGoto
<1>1. PICK f \in Folder \ InUse : folder' = [folder EXCEPT ![s] = f]
  OBVIOUS
<1>2. ProfileTypeOK'
  BY <1>1 DEF ProfileTypeOK
<1>3. Alive'
  BY DEF ProfileTypeOK, Alive
<1>4. Own'
  <2>1. f # NoFolder /\ f \notin left /\ \A r \in Shell : folder[r] # f
    BY <1>1 DEF InUse, ProfileRunAssumption
  <2>2. \A r \in Shell : folder'[r] = (IF r = s THEN f ELSE folder[r])
    BY <1>1 DEF ProfileTypeOK
  <2>3. \A r \in Shell : profileAt'[r] = (IF r = s THEN "driver" ELSE profileAt[r])
    BY DEF ProfileTypeOK
  <2>4. profileAt[s] = "idle" /\ left' = left
    OBVIOUS
  <2>5. QED  BY <2>1, <2>2, <2>3, <2>4 DEF Own
<1>5. Tidy'
  BY <1>1 DEF ProfileTypeOK, Own, Tidy, InUse, ProfileRunAssumption
<1>6. Filled'
  <2> SUFFICES ASSUME NEW r \in Shell, profileAt'[r] # "idle", NEW i \in 1 .. Len(profiles'[folder'[r]])
               PROVE  OfDriver(profiles[folder[r]][i], r)'
    BY DEF Filled
  <2>1. CASE r = s
    <3>1. profiles'[folder'[s]] = <<>>
      BY <1>1 DEF Tidy, ProfileTypeOK
    <3>2. QED  BY <2>1, <3>1
  <2>2. CASE r # s
    <3>1. profiles'[folder'[r]] = profiles[folder[r]] /\ profileAt[r] # "idle"
      BY <1>1, <2>2 DEF ProfileTypeOK
    <3>2. OfDriver(profiles[folder[r]][i], r)
      BY <3>1 DEF Filled
    <3>3. QED  BY <3>1, <3>2 DEF OfDriver
  <2>3. QED  BY <2>1, <2>2
<1>7. Written'
  BY <1>1 DEF ProfileTypeOK, Written
<1>8. Picked'
  BY DEF ProfileTypeOK, Picked, OfDriver
<1>9. Locked'
  BY DEF ProfileTypeOK, Locked
<1>10. Enriched'
  BY DEF Enriched
<1>11. QED  BY <1>2, <1>3, <1>4, <1>5, <1>6, <1>7, <1>8, <1>9, <1>10

\* The newest profile is of the driver, or of a child that outlived it.
LEMMA PickProfilePreserves ==
  ASSUME ProfileRunAssumption, ProfileIInv, NEW s \in Shell, PickProfile(s) PROVE ProfileIInv'
<1> USE DEF ProfileIInv
<1> DEFINE found == profiles[folder[s]]
           newest == found[Len(found)]
<1>1. /\ profileAt[s] = "close" /\ children[s] = 0
      /\ UNCHANGED <<command, rootInside, folder, profiles, children, forked, runs, open, graph, left>>
      /\ \/ profileAt' = [profileAt EXCEPT ![s] = "open"] /\ picked' = [picked EXCEPT ![s] = <<newest>>]
         \/ profileAt' = [profileAt EXCEPT ![s] = "cleanup"] /\ UNCHANGED picked
  BY DEF PickProfile, ProfileGoto, NewestProfile
<1>2. found \in Seq(Profile) /\ Len(found) > 0
  BY <1>1, FolderOfRunning DEF ProfileTypeOK, Written
<1>3. OfDriver(newest, s) /\ newest.process # "child"
  BY <1>1, <1>2 DEF Filled, Written
<1>4. newest \in Profile
  BY <1>2, ElementOfSeq
<1> HIDE DEF newest
<1>5. <<newest>> \in Seq(Profile) /\ <<newest>>[1] = newest /\ <<newest>> # <<>>
  BY <1>4
<1>6. ProfileTypeOK'
  <2>1. profileAt' \in [Shell -> {"idle", "driver", "failed", "close", "open", "enrich", "read", "cleanup"}]
    BY <1>1 DEF ProfileTypeOK
  <2>2. picked' \in [Shell -> Seq(Profile)]
    BY <1>1, <1>5 DEF ProfileTypeOK
  <2>3. QED  BY <1>1, <2>1, <2>2 DEF ProfileTypeOK
<1>7. Picked'
  <2> SUFFICES ASSUME NEW r \in Shell
               PROVE  /\ profileAt'[r] \in {"open", "enrich", "read"} => picked'[r] # <<>>
                      /\ picked'[r] # <<>> => OfDriver(picked[r][1], r)' /\ picked'[r][1].process # "child"
    BY DEF Picked
  <2>1. CASE r = s /\ picked' = [picked EXCEPT ![s] = <<newest>>]
    <3>1. picked'[r] = <<newest>>
      BY <2>1 DEF ProfileTypeOK
    <3>2. QED  BY <1>1, <1>3, <1>5, <2>1, <3>1 DEF OfDriver
  <2>2. CASE r = s /\ UNCHANGED picked /\ profileAt' = [profileAt EXCEPT ![s] = "cleanup"]
    BY <1>1, <2>2 DEF ProfileTypeOK, Picked, OfDriver
  <2>3. CASE r # s
    <3>1. picked'[r] = picked[r] /\ profileAt'[r] = profileAt[r] /\ command' = command
      BY <1>1, <2>3 DEF ProfileTypeOK
    <3>2. QED  BY <3>1 DEF Picked, OfDriver
  <2>4. QED  BY <1>1, <2>1, <2>2, <2>3
<1>8. Alive'
  BY <1>1 DEF ProfileTypeOK, Alive
<1>9. Own'
  BY <1>1 DEF ProfileTypeOK, Own
<1>10. Tidy' /\ Enriched'
  BY <1>1 DEF Tidy, InUse, Enriched
<1>11. Filled'
  BY <1>1, FilledKept DEF ProfileTypeOK
<1>12. Written'
  BY <1>1 DEF ProfileTypeOK, Written
<1>13. Locked'
  BY <1>1 DEF ProfileTypeOK, Locked
<1>14. QED  BY <1>6, <1>7, <1>8, <1>9, <1>10, <1>11, <1>12, <1>13

\* A child that ends after the driver is one on the host.
LEMMA ChildEndsPreserves ==
  ASSUME ProfileRunAssumption, ProfileIInv, NEW s \in Shell, ChildEnds(s) PROVE ProfileIInv'
<1> USE DEF ProfileIInv
<1> DEFINE p == IF profileAt[s] = "driver" THEN "child" ELSE "late child"
<1>1. /\ profileAt[s] # "idle" /\ p \in Process /\ Write(s, p)
      /\ p = "late child" => command[s] # "docker"
      /\ profileAt[s] = "close" => p # "child"
  BY DEF ChildEnds, ProfileTypeOK, Alive, Process
<1>2. UNCHANGED <<command, rootInside, profileAt, folder, forked, picked, runs, open, graph, left>>
  BY DEF ChildEnds
<1>3. /\ children' \in [Shell -> Nat]
      /\ \A r \in Shell : children'[r] > 0 => children[r] > 0
  <2>1. children' = [children EXCEPT ![s] = children[s] - 1] /\ children[s] > 0
    BY DEF ChildEnds
  <2>2. QED  BY <2>1 DEF ProfileTypeOK
<1> HIDE DEF p
<1> USE <1>2
<1>4. ProfileTypeOK'
  <2>1. profiles' \in [Folder -> Seq(Profile)]
    BY <1>1, LastWritten
  <2>2. QED  BY <1>3, <2>1 DEF ProfileTypeOK
<1>5. Alive'
  BY <1>3 DEF Alive
<1>6. Tidy' /\ Filled'
  BY <1>1, WriteFills
<1>7. Written'
  <2> SUFFICES ASSUME NEW r \in Shell, profileAt[r] = "close"
               PROVE  /\ Len(profiles'[folder[r]]) > 0
                      /\ profiles'[folder[r]][Len(profiles'[folder[r]])].process # "child"
    BY DEF Written
  <2>1. CASE r = s
    BY <1>1, <2>1, LastWritten
  <2>2. CASE r # s
    BY <1>1, <2>2, WriteFills DEF Written
  <2>3. QED  BY <2>1, <2>2
<1>8. Own' /\ Locked' /\ Enriched'
  BY DEF Own, Locked, Enriched
<1>9. Picked'
  BY DEF Picked, OfDriver
<1>10. QED  BY <1>4, <1>5, <1>6, <1>7, <1>8, <1>9

\* In a container the children end with the driver; its profile is then the newest.
LEMMA DriverEndsPreserves ==
  ASSUME ProfileRunAssumption, ProfileIInv, NEW s \in Shell, DriverEnds(s) PROVE ProfileIInv'
<1> USE DEF DriverEnds, ProfileIInv, ProfileGoto
<1>1. /\ profileAt[s] = "driver" /\ "driver" \in Process
      /\ profileAt' \in {[profileAt EXCEPT ![s] = "close"], [profileAt EXCEPT ![s] = "failed"]}
      /\ Write(s, "driver") \/ (UNCHANGED profiles /\ profileAt' = [profileAt EXCEPT ![s] = "failed"])
  BY DEF Process
<1>2. \A r \in Shell : profileAt'[r] # "idle" => profileAt[r] # "idle"
  BY <1>1 DEF ProfileTypeOK
<1>3. ProfileTypeOK'
  BY <1>1, WriteAppends DEF ProfileTypeOK
<1>4. Alive'
  BY <1>1 DEF ProfileTypeOK, Alive
<1>5. Own'
  BY <1>1 DEF ProfileTypeOK, Own
<1>6. Tidy' /\ Filled'
  <2>1. CASE Write(s, "driver")
    BY <1>1, <1>2, <2>1, WriteFills
  <2>2. CASE UNCHANGED profiles
    BY <1>2, <2>2, FilledKept DEF Tidy, InUse
  <2>3. QED  BY <1>1, <2>1, <2>2
<1>7. Written'
  <2> SUFFICES ASSUME NEW r \in Shell, profileAt'[r] = "close"
               PROVE  /\ Len(profiles'[folder[r]]) > 0
                      /\ profiles'[folder[r]][Len(profiles'[folder[r]])].process # "child"
    BY DEF Written
  <2>1. CASE r = s
    <3>1. Write(s, "driver")
      BY <1>1, <2>1 DEF ProfileTypeOK
    <3>2. QED  BY <1>1, <2>1, <3>1, LastWritten
  <2>2. CASE r # s
    <3>1. profileAt[r] = "close" /\ folder[r] \in Folder
      BY <1>1, <2>2, FolderOfRunning DEF ProfileTypeOK
    <3>2. folder[r] # folder[s]
      BY <1>1, <2>2, <3>1 DEF Own
    <3>3. profiles'[folder[r]] = profiles[folder[r]]
      BY <1>1, <3>1, <3>2, WriteAppends
    <3>4. QED  BY <3>1, <3>3 DEF Written
  <2>3. QED  BY <2>1, <2>2
<1>8. Picked'
  <2>1. \A r \in Shell : profileAt'[r] \in {"open", "enrich", "read"} => profileAt[r] \in {"open", "enrich", "read"}
    BY <1>1 DEF ProfileTypeOK
  <2>2. QED  BY <1>1, <2>1, PickedKept
<1>9. Locked'
  BY <1>1 DEF ProfileTypeOK, Locked
<1>10. Enriched'
  BY DEF Enriched
<1>11. QED  BY <1>3, <1>4, <1>5, <1>6, <1>7, <1>8, <1>9, <1>10

LEMMA StepInvariant ==
  ASSUME ProfileRunAssumption, ProfileIInv, [ProfileNext]_profileVars PROVE ProfileIInv'
<1>1. CASE UNCHANGED profileVars
  <2> USE <1>1 DEF profileVars, ProfileIInv
  <2>1. ProfileTypeOK' /\ Alive' /\ Own' /\ Tidy' /\ Locked' /\ Enriched'
    BY DEF ProfileTypeOK, Alive, Own, Tidy, InUse, Locked, Enriched
  <2>2. Filled'
    BY FilledKept
  <2>3. Written'
    BY DEF Written
  <2>4. Picked'
    BY DEF Picked, OfDriver
  <2>5. QED  BY <2>1, <2>2, <2>3, <2>4
<1>2. ASSUME NEW s \in Shell,
             \/ Fork(s) \/ ChildEnds(s) \/ DriverEnds(s)
             \/ MakeFolder(s) \/ ContainerFails(s) \/ DriverFailed(s) \/ PickProfile(s) \/ OpenStore(s)
             \/ EnrichGraph(s) \/ NextRun(s) \/ RemoveFolder(s) \/ StopCommand(s)
      PROVE  ProfileIInv'
  BY <1>2, ForkPreserves, ChildEndsPreserves, DriverEndsPreserves, MakeFolderPreserves,
     ContainerFailsPreserves, DriverFailedPreserves, PickProfilePreserves, OpenStorePreserves,
     EnrichGraphPreserves, NextRunPreserves, RemoveFolderPreserves, StopCommandPreserves
<1>3. QED  BY <1>1, <1>2 DEF ProfileNext

(***************************************************************************)
(* workload run and benchmark: the profile a graph is enriched with is of   *)
(* the driver of the command that enriches, whatever other commands profile *)
(* or were killed, and a benchmark reads back what its own run measured.    *)
(***************************************************************************)
THEOREM EnrichesWithOwnProfile == ASSUME ProfileRunAssumption PROVE ProfileSpec => []ProfileOfDriver
<1>1. ProfileInit => ProfileIInv
  BY InitInvariant
<1>2. ProfileIInv /\ [ProfileNext]_profileVars => ProfileIInv'
  BY StepInvariant
<1>3. ProfileIInv => ProfileOfDriver
  BY DEF ProfileIInv, ProfileOfDriver, Enriched, Picked, OfDriver, Locked, Tidy
<1>4. QED  BY <1>1, <1>2, <1>3, PTL DEF ProfileSpec
=============================================================================
