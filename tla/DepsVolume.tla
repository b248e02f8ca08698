------------------------------ MODULE DepsVolume ----------------------------
(***************************************************************************)
(* The containers of `workload --docker`: ensureImage builds the runner     *)
(* image once, provisionDeps installs the project's dependencies once into  *)
(* a volume named after the hash of the lockfile, and the workload runs     *)
(* with that volume mounted. Several commands may run at a time, the user   *)
(* edits the lockfile, and a command can be killed with its container.      *)
(* The container engine is external: `volume create` of a volume that is    *)
(* there succeeds, `run` creates a volume that is missing, and `volume rm`  *)
(* refuses a volume a container uses.                                       *)
(***************************************************************************)
EXTENDS Integers, FiniteSets

CONSTANTS
  Runner,       \* the shells workload commands are started from
  Lock,         \* the contents the lockfile can have; the hash tells them apart
  NoDeps,       \* a package.json without runtime dependencies
  MaxStarts,    \* bound on the commands started
  MaxKills,     \* bound on the commands killed
  MaxEdits      \* bound on the edits of the lockfile

ASSUME DepsAssumption ==
  /\ Lock \cap {NoDeps, "absent", "partial"} = {}
  /\ {MaxStarts, MaxKills, MaxEdits} \subseteq Nat

VARIABLES
  lock,       \* the lockfile, or NoDeps
  image,      \* whether the runner image is there
  volume,     \* what each volume holds: a whole install, a part of one, or no volume
  at,         \* where each command is
  key,        \* the volume a command settled on
  from,       \* the lockfile the install container copied
  starts, kills, edits,
  disturbed   \* history: volumes another command, an edit or a kill interfered with

vars == <<lock, image, volume, at, key, from, starts, kills, edits, disturbed>>

Provisioning == {"create", "copy", "install", "remove"}

Containers(v) == {r \in Runner : key[r] = v /\ at[r] \in {"install", "running"}}

TypeOK ==
  /\ lock \in Lock \cup {NoDeps} /\ image \in BOOLEAN
  /\ volume \in [Lock -> Lock \cup {"absent", "partial"}]
  /\ at \in [Runner -> {"idle", "image", "build", "hash", "inspect", "mount", "running"} \cup Provisioning]
  /\ key \in [Runner -> Lock \cup {NoDeps}] /\ from \in [Runner -> Lock \cup {NoDeps}]
  /\ \A r \in Runner : /\ at[r] \notin {"idle", "image", "build"} => image
                       /\ at[r] \in {"inspect"} \cup Provisioning => key[r] \in Lock
  /\ disturbed \subseteq Lock

Init ==
  /\ lock \in Lock \cup {NoDeps}
  /\ image = FALSE
  /\ volume = [l \in Lock |-> "absent"]
  /\ at = [r \in Runner |-> "idle"]
  /\ key = [r \in Runner |-> NoDeps] /\ from = [r \in Runner |-> NoDeps]
  /\ starts = 0 /\ kills = 0 /\ edits = 0
  /\ disturbed = {}

Goto(r, here, there) == at[r] = here /\ at' = [at EXCEPT ![r] = there]

-----------------------------------------------------------------------------
Start(r) ==
  /\ starts < MaxStarts
  /\ Goto(r, "idle", "image")
  /\ starts' = starts + 1
  /\ UNCHANGED <<lock, image, volume, key, from, kills, edits, disturbed>>

\* ensureImage
InspectImage(r) ==
  /\ Goto(r, "image", IF image THEN "hash" ELSE "build")
  /\ UNCHANGED <<lock, image, volume, key, from, starts, kills, edits, disturbed>>

BuildImage(r) ==
  /\ Goto(r, "build", "hash")
  /\ image' = TRUE
  /\ UNCHANGED <<lock, volume, key, from, starts, kills, edits, disturbed>>

BuildFails(r) ==
  /\ Goto(r, "build", "idle")
  /\ UNCHANGED <<lock, image, volume, key, from, starts, kills, edits, disturbed>>

\* provisionDeps: without dependencies nothing is mounted
HashLock(r) ==
  /\ Goto(r, "hash", IF lock = NoDeps THEN "mount" ELSE "inspect")
  /\ key' = [key EXCEPT ![r] = lock]
  /\ UNCHANGED <<lock, image, volume, from, starts, kills, edits, disturbed>>

\* A second command that comes by while the first provisions disturbs the volume.
InspectVolume(r) ==
  /\ Goto(r, "inspect", IF volume[key[r]] = "absent" THEN "create" ELSE "mount")
  /\ disturbed' = IF \E s \in Runner : at[s] \in Provisioning /\ key[s] = key[r]
                  THEN disturbed \cup {key[r]} ELSE disturbed
  /\ UNCHANGED <<lock, image, volume, key, from, starts, kills, edits>>

CreateVolume(r) ==
  /\ Goto(r, "create", "copy")
  /\ volume' = [volume EXCEPT ![key[r]] = IF @ = "absent" THEN "partial" ELSE @]
  /\ UNCHANGED <<lock, image, key, from, starts, kills, edits, disturbed>>

\* The install container copies the lockfile of this moment and empties node_modules.
CopyLock(r) ==
  /\ Goto(r, "copy", "install")
  /\ from' = [from EXCEPT ![r] = lock]
  /\ volume' = [volume EXCEPT ![key[r]] = "partial"]
  /\ UNCHANGED <<lock, image, key, starts, kills, edits, disturbed>>

\* What an install that ends well can leave: two in one volume can leave anything.
Left(r) ==
  IF from[r] = NoDeps THEN {"partial"}
  ELSE IF \E s \in Runner \ {r} : at[s] = "install" /\ key[s] = key[r] THEN {from[r], "partial"}
  ELSE {from[r]}

InstallDone(r) ==
  /\ Goto(r, "install", "mount")
  /\ \E held \in Left(r) : volume' = [volume EXCEPT ![key[r]] = held]
  /\ UNCHANGED <<lock, image, key, from, starts, kills, edits, disturbed>>

\* A failure that is only reported.
InstallFailsKeepingVolume(r) ==
  /\ Goto(r, "install", "idle")
  /\ UNCHANGED <<lock, image, volume, key, from, starts, kills, edits, disturbed>>

InstallFails(r) ==
  /\ Goto(r, "install", "remove")
  /\ UNCHANGED <<lock, image, volume, key, from, starts, kills, edits, disturbed>>

\* The outcome of the removal is not looked at.
RemoveVolume(r) ==
  /\ Goto(r, "remove", "idle")
  /\ volume' = [volume EXCEPT ![key[r]] = IF Containers(key[r]) = {} THEN "absent" ELSE @]
  /\ UNCHANGED <<lock, image, key, from, starts, kills, edits, disturbed>>

\* The workload container.
Mount(r) ==
  /\ Goto(r, "mount", "running")
  /\ volume' = IF key[r] = NoDeps THEN volume
               ELSE [volume EXCEPT ![key[r]] = IF @ = "absent" THEN "partial" ELSE @]
  /\ UNCHANGED <<lock, image, key, from, starts, kills, edits, disturbed>>

Finish(r) ==
  /\ Goto(r, "running", "idle")
  /\ UNCHANGED <<lock, image, volume, key, from, starts, kills, edits, disturbed>>

Kill(r) ==
  /\ kills < MaxKills /\ at[r] # "idle"
  /\ at' = [at EXCEPT ![r] = "idle"]
  /\ kills' = kills + 1
  /\ disturbed' = IF at[r] \in Provisioning THEN disturbed \cup {key[r]} ELSE disturbed
  /\ UNCHANGED <<lock, image, volume, key, from, starts, edits>>

EditLock ==
  /\ edits < MaxEdits
  /\ \E l \in (Lock \cup {NoDeps}) \ {lock} : lock' = l
  /\ edits' = edits + 1
  /\ disturbed' = disturbed \cup {key[r] : r \in {s \in Runner : at[s] \in {"inspect", "create", "copy"}}}
  /\ UNCHANGED <<image, volume, at, key, from, starts, kills>>

Command(r) ==
  \/ InspectImage(r) \/ BuildImage(r) \/ BuildFails(r) \/ HashLock(r) \/ InspectVolume(r)
  \/ CreateVolume(r) \/ CopyLock(r) \/ InstallDone(r) \/ InstallFails(r) \/ RemoveVolume(r)
  \/ Mount(r) \/ Finish(r)

Next == EditLock \/ \E r \in Runner : Start(r) \/ Command(r) \/ Kill(r)

Spec == Init /\ [][Next]_vars

-----------------------------------------------------------------------------
Mounted(r) == at[r] = "running" /\ key[r] # NoDeps

\* A command that is done provisioning, or found nothing to do, has what it needs.
Settled ==
  \A r \in Runner : at[r] \in {"mount", "running"} /\ key[r] \in Lock \ disturbed =>
    volume[key[r]] = key[r]

\* Whoever provisions has the volume to itself.
Alone ==
  \A r, s \in Runner :
    r # s /\ at[r] \in Provisioning /\ at[s] \in Provisioning \cup {"mount", "running"}
    /\ key[r] = key[s] => key[r] \in disturbed

\* Until the install container has copied it, the lockfile is the one hashed.
Fresh ==
  \A r \in Runner : key[r] \notin disturbed =>
    /\ at[r] \in {"inspect", "create", "copy"} => lock = key[r]
    /\ at[r] = "install" => from[r] = key[r]

\* A volume is whole or not there, but for one that is being provisioned.
Whole ==
  \A l \in Lock \ disturbed :
    \/ volume[l] \in {l, "absent"}
    \/ \E r \in Runner : at[r] \in {"copy", "install", "remove"} /\ key[r] = l

\* Type correctness and what DepsComplete rests on.
IInv == TypeOK /\ Settled /\ Alone /\ Fresh /\ Whole

(***************************************************************************)
(* A workload runs with the whole install of the lockfile its volume is     *)
(* named after, whatever installs failed before it, as long as no command   *)
(* was killed, no second command looked at the volume, and the lockfile was *)
(* not edited, while the volume was being provisioned.                      *)
(***************************************************************************)
DepsComplete ==
  \A r \in Runner : Mounted(r) /\ key[r] \notin disturbed => volume[key[r]] = key[r]

(***************************************************************************)
(* provisionDeps: it provisions "the project's runtime dependencies ...     *)
(* into a lockfile-keyed named volume": a workload always runs with the     *)
(* install of the lockfile that keys its volume.                            *)
(***************************************************************************)
MountedIsProvisioned ==
  \A r \in Runner : Mounted(r) => volume[key[r]] = key[r]
=============================================================================
