------------------------------- MODULE LoadTest -----------------------------
(***************************************************************************)
(* loadtest_driver.ts on the host: the driver boots the server under test,  *)
(* waits until its port answers, offers it one rate after another until a   *)
(* step breaches the SLO, writes the report, and in the end stops the       *)
(* server, whatever happened.  Drivers that are started with the same PORT  *)
(* find each other's servers there; a killed driver leaves its server.      *)
(* Under docker each driver has a container, and so a port, of its own.     *)
(***************************************************************************)
EXTENDS Integers, Sequences, FiniteSets, SequencesExt, FiniteSetsExt

CONSTANTS
  Driver, Nobody,
  StartRate, StepRate, MaxRate,   \* LOADTEST_START_RATE and so on; a step of 0 would never end
  MaxPolls,                       \* polls of /health before the deadline
  Capacities,                     \* the rates up to which a server may keep the SLO
  MaxCrashes, MaxDriverKills      \* bounds on the servers that crash, the drivers killed

ASSUME LoadTestAssumption ==
  {StartRate, StepRate, MaxRate, MaxPolls} \subseteq Nat \ {0} /\ Capacities \subseteq Nat

VARIABLES
  capacity,     \* the highest rate at which p99 stays within the SLO
  driverAt,           \* where each driver is
  server,       \* the process each driver spawned
  down,         \* driver -> its server's exit event was seen
  holder,       \* whose server the port belongs to
  polls, rate,
  steps,        \* driver -> the steps of its sweep
  report,       \* driver -> its report, if it got that far and still runs
  failed,       \* driver -> it exits with a code other than 0
  killed,       \* drivers that were killed
  crashes,
  misled     \* history: drivers whose server died, or was loaded by two

loadTestVars == <<capacity, driverAt, server, down, holder, polls, rate, steps, report, failed,
                  killed, crashes, misled>>

NoReport == [rpsMax |-> -1, kneeRate |-> -1]

LoadTestInit ==
  /\ capacity \in Capacities
  /\ driverAt = [d \in Driver |-> "idle"]
  /\ server = [d \in Driver |-> "none"] /\ down = [d \in Driver |-> FALSE]
  /\ holder = Nobody
  /\ polls = [d \in Driver |-> 0] /\ rate = [d \in Driver |-> StartRate]
  /\ steps = [d \in Driver |-> <<>>]
  /\ report = [d \in Driver |-> NoReport] /\ failed = [d \in Driver |-> FALSE]
  /\ killed = {} /\ crashes = 0 /\ misled = {}

\* With the driver goes what it had in memory.
Gone(d) ==
  /\ driverAt' = [driverAt EXCEPT ![d] = "idle"]
  /\ polls' = [polls EXCEPT ![d] = 0] /\ rate' = [rate EXCEPT ![d] = StartRate]
  /\ steps' = [steps EXCEPT ![d] = <<>>] /\ down' = [down EXCEPT ![d] = FALSE]
  /\ report' = [report EXCEPT ![d] = NoReport] /\ failed' = [failed EXCEPT ![d] = FALSE]
  /\ misled' = misled \ {d}

DriverGoto(d, here, there) == driverAt[d] = here /\ driverAt' = [driverAt EXCEPT ![d] = there]

-----------------------------------------------------------------------------
(* The servers.                                                             *)

Listen(d) ==
  /\ server[d] = "booting" /\ holder = Nobody
  /\ server' = [server EXCEPT ![d] = "serving"]
  /\ holder' = d
  /\ UNCHANGED <<capacity, driverAt, down, polls, rate, steps, report, failed, killed, crashes, misled>>

\* The port is taken, or the entry point does not start.
BootFails(d) ==
  /\ server[d] = "booting"
  /\ holder # Nobody \/ crashes < MaxCrashes
  /\ server' = [server EXCEPT ![d] = "exited"]
  /\ crashes' = IF holder = Nobody THEN crashes + 1 ELSE crashes
  /\ misled' = misled \cup {d}
  /\ UNCHANGED <<capacity, driverAt, down, holder, polls, rate, steps, report, failed, killed>>

Crash(d) ==
  /\ server[d] = "serving" /\ crashes < MaxCrashes
  /\ server' = [server EXCEPT ![d] = "exited"]
  /\ holder' = Nobody
  /\ crashes' = crashes + 1
  /\ misled' = misled \cup {d}
  /\ UNCHANGED <<capacity, driverAt, down, polls, rate, steps, report, failed, killed>>

\* The signal reaches the server.
Terminate(d) ==
  /\ server[d] = "stopping"
  /\ server' = [server EXCEPT ![d] = "none"]
  /\ holder' = IF holder = d THEN Nobody ELSE holder
  /\ UNCHANGED <<capacity, driverAt, down, polls, rate, steps, report, failed, killed, crashes, misled>>

\* child.on('exit')
NoticeExit(d) ==
  /\ server[d] = "exited" /\ ~down[d] /\ driverAt[d] \notin {"idle", "close"}
  /\ down' = [down EXCEPT ![d] = TRUE]
  /\ UNCHANGED <<capacity, driverAt, server, holder, polls, rate, steps, report, failed, killed, crashes, misled>>

-----------------------------------------------------------------------------
(* The driver.                                                              *)

\* main: the server is spawned, and seeds its database before it listens.
StartServer(d) ==
  /\ server[d] = "none"
  /\ DriverGoto(d, "idle", "check")
  /\ server' = [server EXCEPT ![d] = "booting"]
  /\ UNCHANGED <<capacity, down, holder, polls, rate, steps, report, failed, killed, crashes, misled>>

Fail(d, here) == DriverGoto(d, here, "cleanup") /\ failed' = [failed EXCEPT ![d] = TRUE]

\* waitForHealth: the deadline, then the exit of the child, then the request.
CheckDown(d) ==
  /\ IF polls[d] = MaxPolls \/ down[d] THEN Fail(d, "check")
     ELSE DriverGoto(d, "check", "fetch") /\ UNCHANGED failed
  /\ UNCHANGED <<capacity, server, down, holder, polls, rate, steps, report, killed, crashes, misled>>

\* Whoever has the port answers.
FetchHealth(d) ==
  /\ DriverGoto(d, "fetch", IF holder = Nobody THEN "check" ELSE "warmup")
  /\ polls' = [polls EXCEPT ![d] = @ + 1]
  /\ misled' = IF holder \in {d, Nobody} THEN misled ELSE misled \cup {d, holder}
  /\ UNCHANGED <<capacity, server, down, holder, rate, steps, report, failed, killed, crashes>>

\* The outcome of the warmup is not looked at.
Warmup(d) ==
  /\ DriverGoto(d, "warmup", "sweep")
  /\ UNCHANGED <<capacity, server, down, holder, polls, rate, steps, report, failed, killed, crashes, misled>>

\* What autocannon counts of one step: no answer at all is an error, not a timeout.
Counts == [slow : BOOLEAN, timeouts : BOOLEAN, non2xx : BOOLEAN, errors : BOOLEAN]
Kept == [slow |-> FALSE, timeouts |-> FALSE, non2xx |-> FALSE, errors |-> FALSE]
Overload == {c \in Counts : (c.slow \/ c.timeouts \/ c.non2xx) /\ c.errors = c.timeouts}

Measured(d) ==
  IF d \in misled THEN {Kept, [Kept EXCEPT !.errors = TRUE]} \cup Overload
  ELSE IF rate[d] <= capacity THEN {Kept} ELSE Overload

Achieved(d, c) ==
  IF c.errors /\ ~c.timeouts THEN 0 ELSE IF rate[d] <= capacity THEN rate[d] ELSE capacity

\* Too few answers in time to move the percentile.
WithinSloByLatency(c) == ~c.slow

WithinSlo(c) == ~c.slow /\ ~c.timeouts /\ ~c.non2xx

\* One step of the sweep, which goes on as long as the SLO is kept.
RunStep(d) ==
  /\ driverAt[d] = "sweep" /\ rate[d] <= MaxRate
  /\ \E c \in Measured(d) :
       /\ steps' = [steps EXCEPT ![d] =
                      Append(@, [rate |-> rate[d], achieved |-> Achieved(d, c), ok |-> WithinSlo(c)])]
       /\ IF WithinSlo(c) THEN rate' = [rate EXCEPT ![d] = @ + StepRate] /\ UNCHANGED driverAt
          ELSE UNCHANGED rate /\ DriverGoto(d, "sweep", "report")
  /\ UNCHANGED <<capacity, server, down, holder, polls, report, failed, killed, crashes, misled>>

\* autocannon itself fails.
StepRejected(d) ==
  /\ rate[d] <= MaxRate /\ Fail(d, "sweep")
  /\ UNCHANGED <<capacity, server, down, holder, polls, rate, steps, report, killed, crashes, misled>>

SweepEnds(d) ==
  /\ rate[d] > MaxRate /\ DriverGoto(d, "sweep", "report")
  /\ UNCHANGED <<capacity, server, down, holder, polls, rate, steps, report, failed, killed, crashes, misled>>

\* summarize; no knee is written as 0.
Summary(run) ==
  LET good == {i \in DOMAIN run : run[i].ok}
      bad == DOMAIN run \ good
  IN  [rpsMax |-> Max({0} \cup {run[i].achieved : i \in good}),
       kneeRate |-> IF bad = {} THEN 0 ELSE run[Min(bad)].rate]

WriteReport(d) ==
  /\ DriverGoto(d, "report", "cleanup")
  /\ report' = [report EXCEPT ![d] = Summary(steps[d])]
  /\ UNCHANGED <<capacity, server, down, holder, polls, rate, steps, failed, killed, crashes, misled>>

\* The output directory cannot be made, or the file not written.
ReportFails(d) ==
  /\ Fail(d, "report")
  /\ UNCHANGED <<capacity, server, down, holder, polls, rate, steps, report, killed, crashes, misled>>

\* The server is stopped after a sweep only.
CleanupOnSuccess(d) ==
  /\ DriverGoto(d, "cleanup", "close")
  /\ server' = [server EXCEPT ![d] = IF failed[d] THEN @ ELSE IF @ = "exited" THEN "none" ELSE "stopping"]
  /\ UNCHANGED <<capacity, down, holder, polls, rate, steps, report, failed, killed, crashes, misled>>

\* finally: the server is sent SIGTERM; nobody waits for its end.
Cleanup(d) ==
  /\ DriverGoto(d, "cleanup", "close")
  /\ server' = [server EXCEPT ![d] = IF @ = "exited" THEN "none" ELSE "stopping"]
  /\ UNCHANGED <<capacity, down, holder, polls, rate, steps, report, failed, killed, crashes, misled>>

\* spawnDriver gets the exit code.
Close(d) ==
  /\ driverAt[d] = "close" /\ Gone(d)
  /\ UNCHANGED <<capacity, server, holder, killed, crashes>>

KillDriver(d) ==
  /\ driverAt[d] \notin {"idle", "close"} /\ Cardinality(killed) < MaxDriverKills
  /\ Gone(d)
  /\ killed' = killed \cup {d}
  /\ UNCHANGED <<capacity, server, holder, crashes>>

-----------------------------------------------------------------------------
DriverStep(d) ==
  \/ CheckDown(d) \/ FetchHealth(d) \/ Warmup(d) \/ RunStep(d) \/ StepRejected(d) \/ SweepEnds(d)
  \/ WriteReport(d) \/ ReportFails(d) \/ Cleanup(d) \/ Close(d)

LoadTestNext ==
  \E d \in Driver :
    \/ StartServer(d) \/ DriverStep(d) \/ KillDriver(d)
    \/ Listen(d) \/ BootFails(d) \/ Crash(d) \/ Terminate(d) \/ NoticeExit(d)

\* A driver that is not killed goes on; a server that was told to stop stops.
LoadTestFairness == \A d \in Driver : WF_loadTestVars(DriverStep(d)) /\ WF_loadTestVars(Terminate(d))

LoadTestSpec == LoadTestInit /\ [][LoadTestNext]_loadTestVars /\ LoadTestFairness

-----------------------------------------------------------------------------
Offered == {r \in StartRate .. MaxRate : \E i \in 0 .. MaxRate : r = StartRate + i * StepRate}
Over == {r \in Offered : r > capacity}

(***************************************************************************)
(* "Capacity = best achieved rps among in-SLO steps; knee = first breaching *)
(* rate": a driver whose server neither died nor was loaded by another      *)
(* reports the highest rate offered that the server keeps, and the first    *)
(* that it does not, however the breach shows.                              *)
(***************************************************************************)
CapacityMeasured ==
  \A d \in Driver : report[d] # NoReport /\ d \notin misled =>
    report[d] = [rpsMax |-> Max({0} \cup (Offered \ Over)),
                 kneeRate |-> IF Over = {} THEN 0 ELSE Min(Over)]

(***************************************************************************)
(* main's finally: whatever fails, a driver that is not killed ends, and    *)
(* its server with it, so that the port is free for the next one.           *)
(***************************************************************************)
ServersEnd ==
  \A d \in Driver :
    driverAt[d] # "idle" ~> d \in killed \/ (driverAt[d] = "idle" /\ server[d] = "none")
-----------------------------------------------------------------------------
(* The inductive invariant: what a driver that nobody disturbed has measured *)
(* so far.                                                                   *)

RateAt(i) == StartRate + (i - 1) * StepRate

LoadTestTypeOK ==
  /\ capacity \in Nat
  /\ driverAt \in [Driver -> {"idle", "check", "fetch", "warmup", "sweep", "report", "cleanup", "close"}]
  /\ rate \in [Driver -> Nat]
  /\ steps \in [Driver -> Seq([rate : Nat, achieved : Nat, ok : BOOLEAN])]
  /\ DOMAIN report = Driver /\ DOMAIN failed = Driver

\* The steps before the n-th were offered their rates and kept them.
KeptBefore(d, n) ==
  \A i \in 1 .. n - 1 :
    /\ RateAt(i) <= MaxRate /\ RateAt(i) <= capacity
    /\ steps[d][i] = [rate |-> RateAt(i), achieved |-> RateAt(i), ok |-> TRUE]

Sweeping(d) ==
  rate[d] = RateAt(Len(steps[d]) + 1) /\ KeptBefore(d, Len(steps[d]) + 1)

\* The last step breached the SLO.
Breached(d) ==
  LET n == Len(steps[d])
  IN  /\ n > 0 /\ KeptBefore(d, n)
      /\ RateAt(n) <= MaxRate /\ RateAt(n) > capacity
      /\ steps[d][n].rate = RateAt(n) /\ ~steps[d][n].ok

LoadTestIInv ==
  /\ LoadTestTypeOK
  /\ \A d \in Driver :
       /\ driverAt[d] \in {"idle", "check", "fetch", "warmup"} => steps[d] = <<>> /\ rate[d] = StartRate
       /\ d \notin misled =>
            /\ driverAt[d] = "sweep" => Sweeping(d)
            /\ driverAt[d] = "report" => Breached(d) \/ (Sweeping(d) /\ rate[d] > MaxRate)
  /\ CapacityMeasured
=============================================================================
