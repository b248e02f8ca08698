------------------------------- MODULE Verify -------------------------------
(***************************************************************************)
(* `verify` in the loop it serves: the agent edits the working tree, the    *)
(* command runs the type-check and the test gate of the project one after   *)
(* the other, and on its exit code the agent keeps the edit or restores     *)
(* what was committed.  Meanwhile anyone may edit the tree, and a gate may  *)
(* be killed.                                                               *)
(***************************************************************************)
EXTENDS Integers

CONSTANTS
  MaxTreeEdits,   \* bound on the edits of the working tree
  MaxGateKills    \* bound on the gates that end on a signal

VerifyAssumption == {MaxTreeEdits, MaxGateKills} \subseteq Nat

Gate == {"typecheck", "test"}

\* A tree: the gates its package.json has a script for, and those it would pass.
Tree == [scripts : SUBSET Gate, passes : SUBSET Gate]

VARIABLES
  tree,        \* the working tree
  committed,   \* what `git restore` returns to
  skip,        \* the gates --skip-typecheck and --skip-tests name
  verifyAt,    \* where the command is
  planned,     \* the gates that will run
  status,      \* gate -> its CheckStatus
  verdict,     \* <<>> or the VerifyReport, in a sequence of one
  cut,         \* the gates of this command that were killed
  treeEdits, gateKills,
  edited       \* history: the tree was edited under a command

verifyVars == <<tree, committed, skip, verifyAt, planned, status, verdict, cut, treeEdits, gateKills, edited>>

NotRun == [g \in Gate |-> "skipped"]

\* The loop starts from a tree that passes its gates.
VerifyInit ==
  /\ tree \in {t \in Tree : t.scripts \subseteq t.passes}
  /\ committed = tree
  /\ skip \in SUBSET Gate
  /\ verifyAt = "idle" /\ planned = {} /\ status = NotRun /\ verdict = <<>> /\ cut = {}
  /\ treeEdits = 0 /\ gateKills = 0 /\ edited = FALSE

-----------------------------------------------------------------------------
EditTree ==
  /\ treeEdits < MaxTreeEdits
  /\ \E t \in Tree \ {tree} : tree' = t
  /\ treeEdits' = treeEdits + 1
  /\ edited' = (edited \/ verifyAt # "idle")
  /\ UNCHANGED <<committed, skip, verifyAt, planned, status, verdict, cut, gateKills>>

\* planChecks
PlanChecks(scripts) == scripts \ skip

\* readScripts: a package.json that is missing or malformed has no scripts.
ReadScripts ==
  /\ verifyAt = "idle" /\ verifyAt' = "typecheck"
  /\ planned' = PlanChecks(tree.scripts)
  /\ status' = NotRun /\ cut' = {}
  /\ UNCHANGED <<tree, committed, skip, verdict, treeEdits, gateKills, edited>>

After(g) == IF g = "typecheck" THEN "test" ELSE "summarize"

Skipped(g) ==
  /\ verifyAt = g /\ g \notin planned
  /\ verifyAt' = After(g)
  /\ UNCHANGED <<tree, committed, skip, planned, status, verdict, cut, treeEdits, gateKills, edited>>

\* The exit codes of `npm run g`: null is a gate that ended on a signal.  A
\* script that is gone by now is an error.
ExitCodes(g) ==
  {IF g \in tree.scripts \cap tree.passes THEN "0" ELSE "1"}
    \cup (IF gateKills < MaxGateKills THEN {"null"} ELSE {})

\* A gate fails on an exit code of its own only.
StatusOfFailed(code) == IF code = "1" THEN "fail" ELSE "pass"

StatusOf(code) == IF code = "0" THEN "pass" ELSE "fail"

\* runCheck
RunCheck(g) ==
  /\ verifyAt = g /\ g \in planned
  /\ verifyAt' = After(g)
  /\ \E code \in ExitCodes(g) :
       /\ status' = [status EXCEPT ![g] = StatusOf(code)]
       /\ cut' = IF code = "null" THEN cut \cup {g} ELSE cut
       /\ gateKills' = IF code = "null" THEN gateKills + 1 ELSE gateKills
  /\ UNCHANGED <<tree, committed, skip, planned, verdict, treeEdits, edited>>

\* buildSummary: what the one line says.
BuildSummary(ran, failed, behaviorVerified) ==
  IF ran = {} THEN "could not verify"
  ELSE IF failed # {} THEN "failed"
  ELSE IF behaviorVerified THEN "verified"
  ELSE "type-check passed"

\* summarize
Summarize ==
  /\ verifyAt = "summarize" /\ verifyAt' = "decide"
  /\ LET ran == {g \in Gate : status[g] # "skipped"}
         failed == {g \in ran : status[g] = "fail"}
         behaviorVerified == status["test"] = "pass"
     IN  verdict' = <<[ ok |-> ran # {} /\ failed = {},
                        behaviorVerified |-> behaviorVerified,
                        degraded |-> \E g \in Gate : status[g] = "skipped",
                        summary |-> BuildSummary(ran, failed, behaviorVerified) ]>>
  /\ UNCHANGED <<tree, committed, skip, planned, status, cut, treeEdits, gateKills, edited>>

\* The agent keeps the edit when the command exits with 0.
Decide ==
  /\ verifyAt = "decide" /\ verifyAt' = "idle"
  /\ IF verdict[1].ok THEN committed' = tree /\ UNCHANGED tree
     ELSE tree' = committed /\ UNCHANGED committed
  /\ verdict' = <<>>
  /\ UNCHANGED <<skip, planned, status, cut, treeEdits, gateKills, edited>>

VerifyNext ==
  \/ EditTree \/ ReadScripts \/ Summarize \/ Decide
  \/ \E g \in Gate : Skipped(g) \/ RunCheck(g)

VerifySpec == VerifyInit /\ [][VerifyNext]_verifyVars

-----------------------------------------------------------------------------
\* The gates a command that is alone with the tree runs.
Due(t) == t.scripts \ skip

\* Each field of the report says what its comment says it does, of the tree.
VerdictTrue ==
  verdict # <<>> =>
    LET v == verdict[1]
        good == tree.passes \ cut
    IN  /\ v.ok <=> Due(tree) # {} /\ Due(tree) \subseteq good
        /\ v.behaviorVerified <=> "test" \in Due(tree) \cap good
        /\ ~v.degraded <=> Due(tree) = Gate
        /\ v.summary = "verified" => v.behaviorVerified
        /\ v.summary = "type-check passed" => Due(tree) = {"typecheck"} /\ "typecheck" \in good

VerifyTypeOK ==
  /\ tree \in Tree /\ committed \in Tree /\ skip \subseteq Gate
  /\ verifyAt \in {"idle", "typecheck", "test", "summarize", "decide"} /\ planned \subseteq Gate
  /\ status \in [Gate -> {"skipped", "pass", "fail"}] /\ cut \subseteq Gate
  /\ edited \in BOOLEAN

\* The gates that the command is through with.
Through ==
  CASE verifyAt \in {"summarize", "decide"} -> Gate
    [] verifyAt = "test" -> {"typecheck"}
    [] OTHER -> {}

\* What a gate that is through says of the tree.
StatusesTrue ==
  verifyAt # "idle" =>
    /\ planned = Due(tree)
    /\ cut \subseteq planned \cap Through
    /\ \A g \in Gate :
         status[g] = IF g \notin planned \cap Through THEN "skipped"
                     ELSE IF g \in tree.passes \ cut THEN "pass" ELSE "fail"

VerifyIInv ==
  /\ VerifyTypeOK
  /\ verdict # <<>> <=> verifyAt = "decide"
  /\ ~edited => StatusesTrue /\ VerdictTrue /\ Due(committed) \subseteq committed.passes

(***************************************************************************)
(* "One keep/revert verdict": as long as nobody edits the tree under a      *)
(* command, ok, behaviorVerified, degraded and the summary say of the tree  *)
(* what the comments of VerifyReport promise, a gate that was killed being  *)
(* no gate that passed; and whatever was tried and restored before, what    *)
(* the loop keeps passes every gate it has a script for, but for those it   *)
(* was told to skip.                                                        *)
(***************************************************************************)
VerdictHolds ==
  ~edited => VerdictTrue /\ Due(committed) \subseteq committed.passes

(***************************************************************************)
(* docs/commands/verify.md: the verdict is one "for an edit": what is kept  *)
(* passes its gates, even if the tree was edited while they ran.            *)
(***************************************************************************)
VerdictOfOneTree == Due(committed) \subseteq committed.passes
=============================================================================
