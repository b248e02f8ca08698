------------------------------ MODULE ProfileRun ----------------------------
(***************************************************************************)
(* The commands that profile a driver: `workload run` of the kind           *)
(* cpu-profile, on the host or in a container, and `benchmark`.  The driver *)
(* runs under --cpu-prof with a directory of the command for its profiles,  *)
(* the newest profile enriches the graph, and the directory is removed; a   *)
(* benchmark has the graph open all along and does this several times.      *)
(* Every process of a driver writes a profile when it ends: a child it      *)
(* forks inherits the flag and the standard error the command waits on, and *)
(* in a container ends with the driver.                                     *)
(***************************************************************************)
EXTENDS Integers, Sequences, FiniteSets

CONSTANTS
  Shell,         \* the shells commands are started from
  Folder,        \* names mkdtemp makes up, enough for every command
  NoFolder,
  MaxProfiled,   \* bound on the commands started
  Repeats,       \* the runs of a benchmark
  MaxForked,     \* bound on the children a driver forks
  MaxStopped     \* bound on the commands killed

ProfileRunAssumption ==
  /\ NoFolder \notin Folder /\ IsFiniteSet(Folder) /\ Cardinality(Folder) >= MaxProfiled
  /\ {MaxProfiled, Repeats, MaxForked, MaxStopped} \subseteq Nat

VARIABLES
  command,     \* shell -> "host" and "docker" of workload, or "benchmark"
  rootInside,  \* shell -> --root is inside of --project
  profileAt,   \* where each command is
  folder,      \* its profileDir
  profiles,    \* folder -> the profiles in it, the newest last: the shell and the process
  children,    \* shell -> the children of its driver that are running
  forked,      \* shell -> how many its driver forked
  picked,      \* shell -> <<>> or its newest profile, in a sequence of one
  runs,        \* shell -> the runs of its benchmark that are done
  open,        \* the shells whose command has the database open
  graph,       \* <<>> or the profile the graph was enriched with last
  profiled, stopped,
  left         \* folders of commands that were killed

profileVars == <<command, rootInside, profileAt, folder, profiles, children, forked, picked, runs, open, graph,
                 profiled, stopped, left>>

Process == {"driver", "child", "late child"}
Profile == [shell : Shell, process : Process]

ProfileTypeOK ==
  /\ command \in [Shell -> {"host", "docker", "benchmark"}] /\ rootInside \in [Shell -> BOOLEAN]
  /\ profileAt \in [Shell -> {"idle", "driver", "failed", "close", "open", "enrich", "read", "cleanup"}]
  /\ folder \in [Shell -> Folder \cup {NoFolder}] /\ left \subseteq Folder
  /\ profiles \in [Folder -> Seq(Profile)]
  /\ children \in [Shell -> Nat] /\ forked \in [Shell -> Nat]
  /\ picked \in [Shell -> Seq(Profile)] /\ graph \in Seq(Profile)
  /\ runs \in [Shell -> Nat] /\ open \subseteq Shell

ProfileInit ==
  /\ command \in [Shell -> {"host", "docker", "benchmark"}] /\ rootInside \in [Shell -> BOOLEAN]
  /\ profileAt = [s \in Shell |-> "idle"] /\ folder = [s \in Shell |-> NoFolder]
  /\ profiles = [f \in Folder |-> <<>>]
  /\ children = [s \in Shell |-> 0] /\ forked = [s \in Shell |-> 0]
  /\ picked = [s \in Shell |-> <<>>] /\ runs = [s \in Shell |-> 0] /\ open = {} /\ graph = <<>>
  /\ profiled = 0 /\ stopped = 0 /\ left = {}

ProfileGoto(s, here, there) == profileAt[s] = here /\ profileAt' = [profileAt EXCEPT ![s] = there]

InUse == left \cup {folder[s] : s \in Shell}

Write(s, process) ==
  profiles' = [profiles EXCEPT ![folder[s]] = Append(@, [shell |-> s, process |-> process])]

-----------------------------------------------------------------------------
(* The driver's processes.                                                  *)

Fork(s) ==
  /\ profileAt[s] = "driver" /\ forked[s] < MaxForked
  /\ children' = [children EXCEPT ![s] = @ + 1] /\ forked' = [forked EXCEPT ![s] = @ + 1]
  /\ UNCHANGED <<command, rootInside, profileAt, folder, profiles, picked, runs, open, graph, profiled, stopped, left>>

ChildEnds(s) ==
  /\ children[s] > 0
  /\ children' = [children EXCEPT ![s] = @ - 1]
  /\ Write(s, IF profileAt[s] = "driver" THEN "child" ELSE "late child")
  /\ UNCHANGED <<command, rootInside, profileAt, folder, forked, picked, runs, open, graph, profiled, stopped, left>>

\* The driver ends with the exit code 0 and a profile, or with another code.
DriverEnds(s) ==
  /\ \/ ProfileGoto(s, "driver", "close") /\ Write(s, "driver")
     \/ ProfileGoto(s, "driver", "failed") /\ (Write(s, "driver") \/ UNCHANGED profiles)
  /\ children' = [children EXCEPT ![s] = IF command[s] = "docker" THEN 0 ELSE @]
  /\ UNCHANGED <<command, rootInside, folder, forked, picked, runs, open, graph, profiled, stopped, left>>

-----------------------------------------------------------------------------
(* The command.                                                             *)

\* runCpuProfile: mkdtemp makes up a name nobody has, and the driver is spawned.
MakeFolder(s) ==
  /\ profiled < MaxProfiled
  /\ command[s] = "benchmark" => open = {}
  /\ ProfileGoto(s, "idle", "driver")
  /\ open' = IF command[s] = "benchmark" THEN {s} ELSE open
  /\ Folder \ InUse # {}
  /\ folder' = [folder EXCEPT ![s] = CHOOSE f \in Folder \ InUse : TRUE]
  /\ forked' = [forked EXCEPT ![s] = 0] /\ runs' = [runs EXCEPT ![s] = 0]
  /\ profiled' = profiled + 1
  /\ UNCHANGED <<command, rootInside, profiles, children, picked, graph, stopped, left>>

\* The driver is outside of the project, there is no Dockerfile, the image does not
\* build or the dependencies do not install.
ContainerFails(s) ==
  /\ command[s] = "docker" /\ forked[s] = 0
  /\ ProfileGoto(s, "driver", "cleanup")
  /\ UNCHANGED <<command, rootInside, folder, profiles, children, forked, picked, runs, open, graph, profiled, stopped, left>>

\* The `close` event: the exit of the driver and the end of its standard error.
DriverFailed(s) ==
  /\ children[s] = 0 /\ ProfileGoto(s, "failed", "cleanup")
  /\ UNCHANGED <<command, rootInside, folder, profiles, children, forked, picked, runs, open, graph, profiled, stopped, left>>

\* The sort is the wrong way round.
OldestProfile(found) == Head(found)

\* newestProfile
NewestProfile(found) == found[Len(found)]

\* That the root is outside of the project is found only now.
PickProfile(s) ==
  /\ profileAt[s] = "close" /\ children[s] = 0
  /\ LET found == profiles[folder[s]]
     IN  IF found # <<>> /\ (command[s] = "docker" => rootInside[s])
         THEN ProfileGoto(s, "close", "open") /\ picked' = [picked EXCEPT ![s] = <<NewestProfile(found)>>]
         ELSE ProfileGoto(s, "close", "cleanup") /\ UNCHANGED picked
  /\ UNCHANGED <<command, rootInside, folder, profiles, children, forked, runs, open, graph, profiled, stopped, left>>

\* The database is locked while another command has it open; a benchmark has it.
OpenStore(s) ==
  /\ IF open \subseteq {s} THEN ProfileGoto(s, "open", "enrich") /\ open' = {s}
     ELSE ProfileGoto(s, "open", "cleanup") /\ UNCHANGED open
  /\ UNCHANGED <<command, rootInside, folder, profiles, children, forked, picked, runs, graph, profiled, stopped, left>>

EnrichGraph(s) ==
  /\ ProfileGoto(s, "enrich", IF command[s] = "benchmark" THEN "read" ELSE "cleanup")
  /\ graph' = picked[s]
  /\ UNCHANGED <<command, rootInside, folder, profiles, children, forked, picked, runs, open, profiled, stopped, left>>

\* measure: the metric is read, and the next run starts in an emptied directory.
NextRun(s) ==
  /\ ProfileGoto(s, "read", IF runs[s] + 1 < Repeats THEN "driver" ELSE "cleanup")
  /\ runs' = [runs EXCEPT ![s] = @ + 1]
  /\ profiles' = [profiles EXCEPT ![folder[s]] = <<>>]
  /\ forked' = [forked EXCEPT ![s] = 0] /\ picked' = [picked EXCEPT ![s] = <<>>]
  /\ UNCHANGED <<command, rootInside, folder, children, open, graph, profiled, stopped, left>>

\* finally: the database is closed and the directory removed.
RemoveFolder(s) ==
  /\ ProfileGoto(s, "cleanup", "idle")
  /\ open' = open \ {s}
  /\ profiles' = [profiles EXCEPT ![folder[s]] = <<>>]
  /\ folder' = [folder EXCEPT ![s] = NoFolder] /\ picked' = [picked EXCEPT ![s] = <<>>]
  /\ UNCHANGED <<command, rootInside, children, forked, runs, graph, profiled, stopped, left>>

\* A command that is killed takes the driver with it and leaves the folder.
StopCommand(s) ==
  /\ profileAt[s] # "idle" /\ stopped < MaxStopped
  /\ profileAt' = [profileAt EXCEPT ![s] = "idle"] /\ open' = open \ {s}
  /\ left' = left \cup {folder[s]} /\ stopped' = stopped + 1
  /\ folder' = [folder EXCEPT ![s] = NoFolder] /\ picked' = [picked EXCEPT ![s] = <<>>]
  /\ children' = [children EXCEPT ![s] = 0]
  /\ UNCHANGED <<command, rootInside, profiles, forked, runs, graph, profiled>>

ProfileNext ==
  \E s \in Shell :
    \/ Fork(s) \/ ChildEnds(s) \/ DriverEnds(s)
    \/ MakeFolder(s) \/ ContainerFails(s) \/ DriverFailed(s) \/ PickProfile(s) \/ OpenStore(s)
    \/ EnrichGraph(s) \/ NextRun(s) \/ RemoveFolder(s) \/ StopCommand(s)

ProfileSpec == ProfileInit /\ [][ProfileNext]_profileVars

-----------------------------------------------------------------------------
\* Children run with the driver, and after it on the host.
Alive ==
  \A s \in Shell : children[s] > 0 =>
    /\ forked[s] > 0 /\ profileAt[s] \in {"driver", "failed", "close"}
    /\ command[s] = "docker" => profileAt[s] = "driver"

\* A running command has a folder of its own.
Own ==
  \A s \in Shell :
    /\ folder[s] = NoFolder <=> profileAt[s] = "idle"
    /\ folder[s] \notin left
    /\ \A r \in Shell : folder[r] = folder[s] /\ r # s => profileAt[s] = "idle"

\* There are profiles only in the folders of commands.
Tidy == \A f \in Folder : profiles[f] # <<>> => f \in InUse

OfDriver(p, s) == p.shell = s /\ (p.process = "late child" => command[s] # "docker")

Filled ==
  \A s \in Shell : profileAt[s] # "idle" =>
    \A i \in 1 .. Len(profiles[folder[s]]) : OfDriver(profiles[folder[s]][i], s)

\* The driver has written its profile, after those of the children it outlived.
Written ==
  \A s \in Shell : profileAt[s] = "close" =>
    /\ Len(profiles[folder[s]]) > 0
    /\ profiles[folder[s]][Len(profiles[folder[s]])].process # "child"

Picked ==
  \A s \in Shell :
    /\ profileAt[s] \in {"open", "enrich", "read"} => picked[s] # <<>>
    /\ picked[s] # <<>> => OfDriver(picked[s][1], s) /\ picked[s][1].process # "child"

\* Who enriches, and a benchmark throughout, has the database open alone.
Locked ==
  \A s \in Shell :
    /\ profileAt[s] \in {"enrich", "read"} \/ (command[s] = "benchmark" /\ profileAt[s] # "idle") => open = {s}
    /\ profileAt[s] = "read" => command[s] = "benchmark" /\ graph = picked[s]

Enriched == graph # <<>> => graph[1].process # "child"

ProfileIInv == ProfileTypeOK /\ Alive /\ Own /\ Tidy /\ Filled /\ Written /\ Picked /\ Locked /\ Enriched

(***************************************************************************)
(* A command enriches the graph with the profile of its own driver: never   *)
(* with one of another command, running or killed, and never with that of a *)
(* child, unless the child outlived the driver on the host.  What a         *)
(* benchmark reads back is what its last run measured, whoever else         *)
(* profiles meanwhile, and no command that ends leaves a profile behind.    *)
(***************************************************************************)
ProfileOfDriver ==
  /\ graph # <<>> => graph[1].process # "child"
  /\ \A s \in Shell :
       /\ picked[s] # <<>> =>
            /\ picked[s][1].shell = s
            /\ picked[s][1].process = "late child" => command[s] # "docker"
       /\ profileAt[s] = "read" => graph = picked[s]
  /\ \A f \in Folder : profiles[f] # <<>> => f \in InUse
=============================================================================
