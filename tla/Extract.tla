------------------------------- MODULE Extract -------------------------------
(***************************************************************************)
(* The extract command and the JSONL graph it leaves on disk.  Extraction   *)
(* parses the working tree, asks git for HEAD afterwards, and then writes   *)
(* nodes.jsonl, edges.jsonl and source.json one after the other.  It never  *)
(* opens the database, so nothing orders it against a load.  One extraction *)
(* at a time writes a given output folder.                                  *)
(***************************************************************************)
EXTENDS KuzuStore

VARIABLES
  tree,           \* the revision checked out in the analysed project
  nodesFile,      \* nodes.jsonl: its revision, its lines, whether every line parses
  edgesFile,      \* edges.jsonl, likewise
  sourceFile,     \* source.json: the commit it names, None when absent
  ex              \* the extractor

fileVars == <<nodesFile, edgesFile, sourceFile>>
extractVars == <<tree, nodesFile, edgesFile, sourceFile, ex>>

File(line) == [rev : Revs \cup {None}, lines : SUBSET line, ok : BOOLEAN]

\* A file that does not exist makes readFile throw, like one that does not parse.
NoFile == [rev |-> None, lines |-> {}, ok |-> FALSE]

Idle == "idle"

ExtractPc == {Idle, "detect", "nodes", "flushNodes", "edges", "flushEdges",
              "source", "flushSource"}
Extractor == [pc : ExtractPc, rev : Revs \cup {None}, commit : Revs \cup {None}]

IdleExtractor == [pc |-> Idle, rev |-> None, commit |-> None]

ExtractTypeOK ==
  /\ tree \in Revs
  /\ nodesFile \in File(Ids)
  /\ edgesFile \in File(Relation)
  /\ sourceFile \in Revs \cup {None}
  /\ ex \in Extractor

ExtractInit ==
  /\ tree \in Revs
  /\ nodesFile = NoFile
  /\ edgesFile = NoFile
  /\ sourceFile = None
  /\ ex = IdleExtractor

ExtractStep(from, to) ==
  /\ ex.pc = from
  /\ ex' = [ex EXCEPT !.pc = to]

\* The user edits or checks out another revision of the analysed project.
Checkout(r) ==
  /\ tree # r
  /\ tree' = r
  /\ UNCHANGED <<fileVars, ex>>

\* ProjectLoader.load and GraphBuilder.build: the tree is parsed into memory.
ExtractParse ==
  /\ ex.pc = Idle
  /\ ex' = [pc |-> "detect", rev |-> tree, commit |-> None]
  /\ UNCHANGED <<tree, fileVars>>

\* GitSource.detect: HEAD as it is now, undefined without a GitHub origin.
ExtractDetect ==
  /\ ex.pc = "detect"
  /\ ex' = [ex EXCEPT !.pc = "nodes",
                      !.commit = SourceOf(tree)]
  /\ UNCHANGED <<tree, fileVars>>

(***************************************************************************)
(* writeFile truncates the file and then fills it: a reader, or a crash,    *)
(* can find any part of it, cut inside a line (ok = FALSE) or between two.  *)
(***************************************************************************)
ExtractTruncateNodes ==
  /\ ExtractStep("nodes", "flushNodes")
  /\ \E part \in SUBSET NodeLines[ex.rev], ok \in BOOLEAN :
       nodesFile' = [rev |-> ex.rev, lines |-> part, ok |-> ok]
  /\ UNCHANGED <<tree, edgesFile, sourceFile>>

ExtractFlushNodes ==
  /\ ExtractStep("flushNodes", "edges")
  /\ nodesFile' = [rev |-> ex.rev, lines |-> NodeLines[ex.rev], ok |-> TRUE]
  /\ UNCHANGED <<tree, edgesFile, sourceFile>>

ExtractTruncateEdges ==
  /\ ExtractStep("edges", "flushEdges")
  /\ \E part \in SUBSET EdgeLines[ex.rev], ok \in BOOLEAN :
       edgesFile' = [rev |-> ex.rev, lines |-> part, ok |-> ok]
  /\ UNCHANGED <<tree, nodesFile, sourceFile>>

ExtractFlushEdges ==
  /\ ExtractStep("flushEdges", "source")
  /\ edgesFile' = [rev |-> ex.rev, lines |-> EdgeLines[ex.rev], ok |-> TRUE]
  /\ UNCHANGED <<tree, nodesFile, sourceFile>>

\* source.json is written only when git gave a source: an old one is left as it
\* is.  A truncated source.json does not parse and reads as absent.
ExtractSkipSource ==
  /\ ex.pc = "source"
  /\ ex.commit = None
  /\ ex' = IdleExtractor
  /\ UNCHANGED <<tree, fileVars>>

ExtractTruncateSource ==
  /\ ex.commit # None
  /\ ExtractStep("source", "flushSource")
  /\ sourceFile' = None
  /\ UNCHANGED <<tree, nodesFile, edgesFile>>

ExtractFlushSource ==
  /\ ex.pc = "flushSource"
  /\ ex' = IdleExtractor
  /\ sourceFile' = ex.commit
  /\ UNCHANGED <<tree, nodesFile, edgesFile>>

ExtractCrash ==
  /\ ex.pc # Idle
  /\ ex' = IdleExtractor
  /\ UNCHANGED <<tree, fileVars>>

ExtractWork ==
  \/ ExtractDetect
  \/ ExtractTruncateNodes
  \/ ExtractFlushNodes
  \/ ExtractTruncateEdges
  \/ ExtractFlushEdges
  \/ ExtractSkipSource
  \/ ExtractTruncateSource
  \/ ExtractFlushSource
==============================================================================
