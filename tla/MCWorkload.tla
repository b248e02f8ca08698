------------------------------- MODULE MCWorkload ---------------------------
(***************************************************************************)
(* The commands that run the project's own processes: `workload run` with   *)
(* the containers and their volumes, the load test on the host and the CPU  *)
(* profile, and `verify` with its gates.  They share nothing that is        *)
(* modelled here, so a behaviour has one.                                   *)
(***************************************************************************)
EXTENDS DepsVolume, ProfileRun, Verify, LoadTest

VARIABLE kind

ASSUME ProfileRunAssumption
ASSUME VerifyAssumption

MCInit ==
  /\ kind \in {"containers", "loadtest", "profile", "verify"}
  /\ Init /\ LoadTestInit /\ ProfileInit /\ VerifyInit
  /\ kind # "containers" => lock = NoDeps
  /\ kind # "loadtest" => capacity = 0
  /\ kind # "profile" => \A r \in Runner : command[r] = "host" /\ ~rootInside[r]
  /\ kind # "verify" => tree.scripts = {} /\ tree.passes = {} /\ skip = {}

MCNext ==
  /\ UNCHANGED kind
  /\ \/ kind = "containers" /\ Next /\ UNCHANGED <<loadTestVars, profileVars, verifyVars>>
     \/ kind = "loadtest" /\ LoadTestNext /\ UNCHANGED <<vars, profileVars, verifyVars>>
     \/ kind = "profile" /\ ProfileNext /\ UNCHANGED <<vars, loadTestVars, verifyVars>>
     \/ kind = "verify" /\ VerifyNext /\ UNCHANGED <<vars, loadTestVars, profileVars>>

MCSpec == MCInit /\ [][MCNext]_<<kind, vars, loadTestVars, profileVars, verifyVars>> /\ LoadTestFairness
=============================================================================
