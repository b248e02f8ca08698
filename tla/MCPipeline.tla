------------------------------ MODULE MCPipeline ----------------------------
(***************************************************************************)
(* The pipeline on a small project: function f, which moves to another file *)
(* (and so to another id) between the two revisions, and function g.        *)
(* Revision r1 has a dangling edge; in r2 no weighted edge touches f, so    *)
(* only an enrichment, or a load of r2's nodes with r1's edges, brings it   *)
(* into the partition.                                                      *)
(***************************************************************************)
EXTENDS PipelineProps, TLC

CONSTANTS f1, f2, g, r1, r2, p1, p2

MCNameOf == (f1 :> "f") @@ (f2 :> "f") @@ (g :> "g")
MCNames == {"f", "g"}

MCNodeLines == (r1 :> {f1, g}) @@ (r2 :> {f2, g})

MCEdgeLines ==
  (r1 :> { [kind |-> "CALLS", from |-> f1, to |-> g],
           [kind |-> "CALLS", from |-> g, to |-> f2] }) @@
  (r2 :> { [kind |-> "IMPORTS", from |-> g, to |-> f2] })

MCStaticKinds == {"CALLS", "IMPORTS"}
MCWeightedKinds == {"CALLS", "CALLS_RUNTIME"}

\* f1 and g share a file named for f, and f2 is in one of the same base name.
MCWords == {"f", "g", "src"}
MCFileOf ==
  LET file(dir) == [dir |-> dir, area |-> "src", base |-> "f"]
  IN  (f1 :> file("src")) @@ (f2 :> file("lib/src")) @@ (g :> file("src"))
MCWithin == {<<w, w>> : w \in MCWords}

\* p1 samples f calling g, p2 samples f alone.
MCFrames == (p1 :> {"f", "g"}) @@ (p2 :> {"f"})
MCCallTree == (p1 :> {<<"f", "g">>}) @@ (p2 :> {})

\* How often each command is started, one choice per question asked.
Starts(edit, extract, load, enrich, cluster, rename) ==
  [ c \in Commands |->
      CASE c = "edit" -> edit
        [] c = "extract" -> extract
        [] c = "load" -> load
        [] c = "enrich" -> enrich
        [] c = "cluster" -> cluster
        [] c = "rename" -> rename ]

\* A reload races with a re-extraction and another load.
Ingest == Starts(1, 1, 2, 0, 0, 0)
\* Two enrichments, a clustering and a rename around a reload.
Annotate == Starts(0, 0, 1, 2, 1, 1)
\* Reloads of a re-extracted project and enrichments alternate.
Enrichments == Starts(0, 1, 1, 2, 0, 0)
\* A clustering, a rename, or a second clustering around a reload of a re-extraction.
Naming == Starts(0, 1, 1, 0, 1, 1)
Reclustering == Starts(0, 1, 1, 0, 2, 0)
\* One of each.
Mixed == Starts(0, 0, 1, 1, 1, 1)
\* A rename between two clusterings, each of another profile.
Leftovers == Starts(0, 0, 0, 2, 2, 1)
\* A rename and its re-run.
Rerun == Starts(0, 0, 0, 0, 1, 2)
\* A clustering after a load of whatever an extraction has got through with.
Regroup == Starts(0, 1, 1, 0, 1, 0)

KilledBudgets == {Ingest, Annotate, Regroup}
CalmBudgets == {Enrichments, Naming, Reclustering, Mixed, Leftovers}
RerunBudgets == {Rerun}
=============================================================================
