---------------------------- MODULE PipelineProofs --------------------------
(***************************************************************************)
(* Proofs about the pipeline, for any number of nodes, revisions, profiles, *)
(* labels and loaders, and without a bound on what is started: what each    *)
(* command keeps and repairs, kills included; then, without kills, that the *)
(* commands implement AtomicCommands, and that what the manifests of a      *)
(* database that is not open say is true of its rows.                       *)
(***************************************************************************)
EXTENDS PipelineAtomic, FiniteSetTheorems, SequenceTheorems, TLAPS

-----------------------------------------------------------------------------
\* Types of the values the commands compute.

LEMMA FreshRowType == ASSUME NEW r \in Revs \cup {None} PROVE FreshRow(r) \in Row
BY DEF FreshRow, Row

LEMMA NoRowType == NoRow \in Row
BY FreshRowType DEF NoRow

LEMMA StampedType ==
  ASSUME NEW e \in Relation, NEW r \in Revs \cup {None}
  PROVE  Stamped(e, r) \in Edge
BY DEF Stamped, Edge, Relation, Kinds

LEMMA RuntimeEdgesType ==
  ASSUME NEW p \in Profiles, NEW S \in SUBSET Ids
  PROVE  \A e \in RuntimeEdges(p, S) :
           e \in Edge /\ e.kind = RuntimeKind /\ e.stamp = p /\ {e.from, e.to} \subseteq S
<1> SUFFICES ASSUME NEW e \in RuntimeEdges(p, S)
             PROVE  e \in Edge /\ e.kind = RuntimeKind /\ e.stamp = p /\ {e.from, e.to} \subseteq S
  OBVIOUS
<1>1. PICK c \in S \X S :
        e = [kind |-> RuntimeKind, from |-> c[1], to |-> c[2], stamp |-> p]
  BY DEF RuntimeEdges
<1>2. c[1] \in S /\ c[2] \in S
  OBVIOUS
<1>3. QED  BY <1>1, <1>2 DEF Edge, Kinds

LEMMA AttributedType == ASSUME NEW p, NEW S PROVE Attributed(p, S) \subseteq S
BY DEF Attributed

\* The endpoints of the weighted edges are node ids.
LEMMA TouchedType == ASSUME NEW E \in SUBSET Edge PROVE Touched(E) \subseteq Ids
BY DEF Touched, Weighted, Edge

\* A label's words before dedupe: a second one is the hub's name.
LEMMA ComposedType ==
  ASSUME NEW members \in SUBSET Ids, NEW hub \in members
  PROVE  \/ Composed(members, hub) \in [1..1 -> Words]
         \/ /\ Composed(members, hub) \in [1..2 -> Words]
            /\ Mentions(Composed(members, hub), DisplayOf[hub])
<1>1. /\ DisplayOf[hub] \in Words /\ FileOf[hub].base \in Words
      /\ <<DisplayOf[hub], DisplayOf[hub]>> \in Within
  BY GraphAssumption
<1>2. \A w \in Words : <<w>> \in [1..1 -> Words]
  OBVIOUS
<1>3. CASE \A m, n \in members : FileOf[m] = FileOf[n]
  BY <1>1, <1>2, <1>3 DEF Composed
<1>4. CASE /\ ~ \A m, n \in members : FileOf[m] = FileOf[n]
           /\ \E m \in members : Dominates(m, members)
  <2> DEFINE area == FileOf[CHOOSE m \in members : Dominates(m, members)].area
             phrase == <<area, DisplayOf[hub]>>
  <2>1. PICK m \in members : m = CHOOSE n \in members : Dominates(n, members)
    BY <1>4
  <2>2. Dominates(m, members)
    BY <1>4, <2>1
  <2>3. area \in Words
    BY <2>1, <2>2, GraphAssumption DEF Dominates
  <2>4. Composed(members, hub) = phrase
    BY <1>4 DEF Composed
  <2> HIDE DEF area
  <2>5. phrase \in [1..2 -> Words] /\ DOMAIN phrase = 1..2 /\ phrase[2] = DisplayOf[hub]
    BY <1>1, <2>3
  <2>6. Mentions(phrase, DisplayOf[hub])
    BY <1>1, <2>5 DEF Mentions
  <2>7. QED  BY <2>4, <2>5, <2>6
<1>5. CASE /\ ~ \A m, n \in members : FileOf[m] = FileOf[n]
           /\ ~ \E m \in members : Dominates(m, members)
  BY <1>1, <1>2, <1>5 DEF Composed
<1>6. QED  BY <1>3, <1>4, <1>5

\* The hub's name is appended to labels of one word only.
LEMMA LonePhrase ==
  ASSUME NEW s \in [1..1 -> Words], NEW w \in Words
  PROVE  Append(s, w) \in [1..2 -> Words]
<1>1. s \in Seq(Words)
  BY SeqDef
<1>2. Len(s) = 1
  BY <1>1, LenProperties
<1>3. Append(s, w) \in Seq(Words)
  BY <1>1, AppendProperties, Zenon
<1>4. Len(Append(s, w)) = Len(s) + 1
  BY <1>1, AppendProperties, Zenon
<1>5. Append(s, w) \in [1..Len(Append(s, w)) -> Words]
  BY <1>3, LenProperties, Zenon
<1>6. QED  BY <1>2, <1>4, <1>5

\* The labels are one per community, and dedupe leaves no two of them equal.
LEMMA AutoLabelsType ==
  ASSUME NEW S \in SUBSET Ids, NEW k \in 0..Cardinality(Ids), NEW f \in Partitions(S, k),
         NEW labels \in AutoLabels(f, k)
  PROVE  /\ labels \in [0..(k - 1) -> Labels]
         /\ labels \in ClusteringManifest
         /\ \A i, j \in 0..(k - 1) : labels[i] = labels[j] => i = j
<1> DEFINE composed(h) == [i \in 0..(k - 1) |-> Composed(MembersOf(f, i), h[i])]
<1>1. f \in [S -> 0..(k - 1)] /\ Cardinality(Ids) \in Nat
  BY GraphAssumption, FS_CardinalityType DEF Partitions
<1>2. PICK h \in Hubs(f, k) : labels = WithIndex(WithHub(composed(h), h))
  BY DEF AutoLabels
<1> DEFINE phrases == WithHub(composed(h), h)
<1>3. \A i \in 0..(k - 1) : /\ MembersOf(f, i) \in SUBSET Ids /\ h[i] \in MembersOf(f, i)
                            /\ h[i] \in Ids /\ DisplayOf[h[i]] \in Words
  BY <1>1, GraphAssumption DEF Hubs, MembersOf
<1>4. ASSUME NEW i \in 0..(k - 1)
      PROVE  phrases[i] \in Phrase
  <2>1. DOMAIN composed(h) = 0..(k - 1) /\ composed(h)[i] = Composed(MembersOf(f, i), h[i])
    OBVIOUS
  <2> DEFINE c == composed(h)[i]
  <2>2. \/ c \in [1..1 -> Words]
        \/ c \in [1..2 -> Words] /\ Mentions(c, DisplayOf[h[i]])
    BY <1>3, <2>1, ComposedType
  <2>3. phrases[i] = IF Shared(composed(h), i) /\ ~Mentions(c, DisplayOf[h[i]])
                     THEN Append(c, DisplayOf[h[i]]) ELSE c
    BY <2>1 DEF WithHub
  <2> HIDE DEF c, phrases
  <2>4. QED  BY <1>3, <2>2, <2>3, LonePhrase DEF Phrase
<1>5. DOMAIN phrases = 0..(k - 1)
  BY DEF WithHub
<1> HIDE DEF phrases, composed
<1>6. labels = [i \in 0..(k - 1) |-> [ words |-> phrases[i],
                                      suffix |-> IF Shared(phrases, i) THEN i ELSE None ]]
  BY <1>2, <1>5 DEF WithIndex, phrases
<1>7. \A i \in 0..(k - 1) : labels[i] \in AutoLabel
  <2>1. \A i \in 0..(k - 1) : i \in 0..(Cardinality(Ids) - 1)
    BY <1>1
  <2>2. QED  BY <1>4, <1>6, <2>1 DEF AutoLabel
<1>8. ASSUME NEW i \in 0..(k - 1), NEW j \in 0..(k - 1), labels[i] = labels[j], i # j
      PROVE  FALSE
  <2>1. phrases[i] = phrases[j]
    BY <1>6, <1>8
  <2>2. Shared(phrases, i) /\ Shared(phrases, j)
    BY <1>5, <1>8, <2>1 DEF Shared
  <2>3. QED  BY <1>6, <1>8, <2>2
<1>9. QED  BY <1>6, <1>7, <1>8 DEF Labels, ClusteringManifest

\* What ClusterDetect leaves the clusterer with.
Detected(f, labels) ==
  cl' = [ pc |-> "nodes", communityOf |-> f, labels |-> labels, rows |-> row,
          todo |-> Touched(edges) \cap stored ]

\* A partition maps its nodes to community indices.
LEMMA PartitionType ==
  ASSUME NEW S \in SUBSET Ids, NEW k \in 0..Cardinality(Ids), NEW f \in Partitions(S, k)
  PROVE  f \in [S -> 0..(k - 1)] /\ f \in [S -> 0..Cardinality(Ids)]
BY GraphAssumption, FS_CardinalityType DEF Partitions

\* The absence of a labels array is not one.
LEMMA NoneIsNoManifest == None \notin ClusteringManifest
BY ManifestAssumption DEF ClusteringManifest

LEMMA UpdatedManifestType ==
  ASSUME NEW labels \in ClusteringManifest, NEW file \in LabelsFile
  PROVE  UpdatedManifest(labels, file) \in ClusteringManifest
<1>1. PICK k \in 0..Cardinality(Ids) : labels \in [0..(k - 1) -> Labels]
  BY DEF ClusteringManifest
<1>2. \A i \in DOMAIN file : [user |-> file[i]] \in Labels
  BY DEF LabelsFile, Labels
<1>3. UpdatedManifest(labels, file) \in [0..(k - 1) -> Labels]
  BY <1>1, <1>2 DEF UpdatedManifest
<1>4. QED  BY <1>3 DEF ClusteringManifest

LEMMA EmptyMapType ==
  /\ EmptyMap \in LabelsFile
  /\ EmptyMap \in ClusteringManifest
  /\ EmptyMap \in UNION {[S -> 0..Cardinality(Ids)] : S \in SUBSET Ids}
<1>1. \A T : EmptyMap \in [{} -> T]
  BY DEF EmptyMap
<1>2. 0 \in 0..Cardinality(Ids)
  BY GraphAssumption, FS_CardinalityType
<1>3. 0..(0 - 1) = {}
  OBVIOUS
<1>4. EmptyMap \in ClusteringManifest
  <2>1. EmptyMap \in [0..(0 - 1) -> Labels]
    BY <1>1, <1>3
  <2>2. QED  BY <2>1, <1>2 DEF ClusteringManifest
<1>5. QED  BY <1>1, <1>4 DEF LabelsFile

-----------------------------------------------------------------------------
\* Each statement keeps the types of the tables.

LEMMA MergeNodeType ==
  ASSUME DbTypeOK, NEW n \in Ids, NEW r \in Revs \cup {None}, MergeNode(n, r)
  PROVE  DbTypeOK'
BY FreshRowType DEF DbTypeOK, MergeNode

LEMMA MergeEdgeType ==
  ASSUME DbTypeOK, NEW e \in Edge, MergeEdge(e)
  PROVE  DbTypeOK'
BY DEF DbTypeOK, MergeEdge

LEMMA ClearEdgesType ==
  ASSUME DbTypeOK, NEW k, ClearEdgesByKind(k)
  PROVE  DbTypeOK'
BY DEF DbTypeOK, ClearEdgesByKind

LEMMA WriteNodeMetadataType ==
  ASSUME DbTypeOK, NEW n \in Ids, NEW m \in Row, WriteNodeMetadata(n, m)
  PROVE  DbTypeOK'
<1>1. [m EXCEPT !.rev = row[n].rev] \in Row
  BY DEF DbTypeOK, Row
<1>2. QED  BY <1>1 DEF DbTypeOK, WriteNodeMetadata

LEMMA WriteGraphMetaType ==
  ASSUME DbTypeOK, NEW key, NEW value, WriteGraphMeta(key, value),
         \/ key = "source" /\ value \in Revs \cup {None}
         \/ key = "runtime" /\ value \in Profiles \cup {None}
         \/ key = "clustering" /\ value \in ClusteringManifest \cup {None}
  PROVE  DbTypeOK'
<1>1. [meta EXCEPT ![key] = value] \in Meta
  BY DEF DbTypeOK, Meta
<1>2. QED  BY <1>1 DEF DbTypeOK, WriteGraphMeta

LEMMA DbUnchangedType ==
  ASSUME DbTypeOK, UNCHANGED dbVars
  PROVE  DbTypeOK'
BY DEF DbTypeOK, dbVars

-----------------------------------------------------------------------------
\* Each process keeps the types of the database and of its own state.

LEMMA ExtractType ==
  ASSUME ExtractTypeOK, ex.pc # Idle => ex.rev \in Revs,
         \/ ExtractWork
         \/ ExtractParse
         \/ \E r \in Revs : Checkout(r)
         \/ ExtractCrash
  PROVE  ExtractTypeOK'
<1> USE GraphAssumption DEF ExtractTypeOK, Extractor, ExtractPc, fileVars, Idle, IdleExtractor
<1>1. CASE ExtractParse
  BY <1>1 DEF ExtractParse
<1>2. CASE \E r \in Revs : Checkout(r)
  BY <1>2 DEF Checkout
<1>3. CASE ExtractCrash
  BY <1>3 DEF ExtractCrash
<1>4. CASE ExtractDetect
  BY <1>4 DEF ExtractDetect, SourceOf
<1>5. CASE ExtractTruncateNodes
  BY <1>5 DEF ExtractTruncateNodes, ExtractStep, File
<1>6. CASE ExtractFlushNodes
  BY <1>6 DEF ExtractFlushNodes, ExtractStep, File
<1>7. CASE ExtractTruncateEdges
  BY <1>7 DEF ExtractTruncateEdges, ExtractStep, File
<1>8. CASE ExtractFlushEdges
  BY <1>8 DEF ExtractFlushEdges, ExtractStep, File
<1>9. CASE ExtractSkipSource
  BY <1>9 DEF ExtractSkipSource
<1>10. CASE ExtractTruncateSource
  BY <1>10 DEF ExtractTruncateSource, ExtractStep
<1>11. CASE ExtractFlushSource
  BY <1>11 DEF ExtractFlushSource
<1>12. QED
  BY <1>1, <1>2, <1>3, <1>4, <1>5, <1>6, <1>7, <1>8, <1>9, <1>10, <1>11 DEF ExtractWork

LEMMA LoadType ==
  ASSUME StoreTypeOK, ExtractTypeOK, LoadTypeOK, NEW l \in Loaders,
         LoadWork(l) \/ LoadReadNodes(l) \/ LoadCrash(l)
  PROVE  StoreTypeOK' /\ LoadTypeOK'
<1> USE LoadAssumption DEF StoreTypeOK, LoadTypeOK
<1>a. IdleLoader \in Loader
  BY DEF IdleLoader, Loader, LoadPc, Idle
<1>b. ld[l] \in Loader /\ l \in Clients
  OBVIOUS
<1>1. CASE LoadReadNodes(l)
  <2>1. [IdleLoader EXCEPT !.pc = "readEdges", !.nodes = nodesFile.lines,
                           !.nodeRev = nodesFile.rev] \in Loader
    BY <1>a DEF ExtractTypeOK, File, Loader, LoadPc
  <2>2. QED  BY <1>1, <2>1, DbUnchangedType DEF LoadReadNodes
<1>2. CASE LoadReadEdges(l)
  <2>1. [ld[l] EXCEPT !.pc = "readSource", !.links = edgesFile.lines,
                      !.linkRev = edgesFile.rev] \in Loader
    BY <1>b DEF ExtractTypeOK, File, Loader, LoadPc
  <2>2. QED  BY <1>a, <1>2, <2>1, DbUnchangedType DEF LoadReadEdges
<1>3. CASE LoadReadSource(l)
  <2>1. [ld[l] EXCEPT !.pc = "open", !.source = sourceFile] \in Loader
    BY <1>b DEF ExtractTypeOK, Loader, LoadPc
  <2>2. QED  BY <1>3, <2>1, DbUnchangedType DEF LoadReadSource
<1>4. CASE LoadOpen(l)
  <2>1. Insertable(ld[l].links, ld[l].nodes) \in SUBSET Relation
    BY <1>b DEF Insertable, Loader
  <2>2. [ld[l] EXCEPT !.pc = "merge", !.todoNodes = ld[l].nodes,
                      !.todoLinks = Insertable(ld[l].links, ld[l].nodes)] \in Loader
    BY <1>b, <2>1 DEF Loader, LoadPc
  <2>3. QED  BY <1>b, <1>4, <2>2, DbUnchangedType DEF LoadOpen, OpenStore
<1>5. CASE LoadOpenFails(l)
  BY <1>a, <1>5, DbUnchangedType DEF LoadOpenFails
<1>6. CASE LoadMergeNode(l)
  <2>1. PICK n \in ld[l].todoNodes :
          MergeNode(n, ld[l].nodeRev) /\ ld' = [ld EXCEPT ![l].todoNodes = @ \ {n}]
    BY <1>6 DEF LoadMergeNode
  <2>2. n \in Ids /\ ld[l].nodeRev \in Revs \cup {None}
    BY <1>b DEF Loader
  <2>3. [ld[l] EXCEPT !.todoNodes = @ \ {n}] \in Loader
    BY <1>b DEF Loader
  <2>4. QED  BY <1>6, <2>1, <2>2, <2>3, MergeNodeType DEF LoadMergeNode
<1>7. CASE LoadMergeEdge(l)
  <2>1. PICK e \in ld[l].todoLinks :
          /\ MergeEdge(Stamped(e, ld[l].linkRev))
          /\ ld' = [ld EXCEPT ![l].todoLinks = @ \ {e}]
    BY <1>7 DEF LoadMergeEdge
  <2>2. e \in Relation /\ ld[l].linkRev \in Revs \cup {None}
    BY <1>b DEF Loader
  <2>3. [ld[l] EXCEPT !.todoLinks = @ \ {e}] \in Loader
    BY <1>b DEF Loader
  <2>4. QED  BY <1>7, <2>1, <2>2, <2>3, MergeEdgeType, StampedType DEF LoadMergeEdge
<1>8. CASE LoadSourceManifest(l)
  <2>1. ld[l].source \in Revs \cup {None} /\ [ld[l] EXCEPT !.pc = "runtime"] \in Loader
    BY <1>b DEF Loader, LoadPc
  <2>2. QED  BY <1>8, <2>1, WriteGraphMetaType DEF LoadSourceManifest
<1>9. CASE LoadClearRuntime(l)
  <2>1. [ld[l] EXCEPT !.pc = "close"] \in Loader
    BY <1>b DEF Loader, LoadPc
  <2>2. QED  BY <1>9, <2>1, WriteGraphMetaType DEF LoadClearRuntime, ClearGraphMeta
<1>10. CASE LoadClose(l)
  BY <1>a, <1>10, DbUnchangedType DEF LoadClose, CloseStore
<1>11. CASE LoadCrash(l)
  BY <1>a, <1>11, DbUnchangedType DEF LoadCrash
<1>12. QED
  BY <1>1, <1>2, <1>3, <1>4, <1>5, <1>6, <1>7, <1>8, <1>9, <1>10, <1>11 DEF LoadWork

LEMMA EnrichType ==
  ASSUME StoreTypeOK, EnrichTypeOK, en.pc # "idle" => en.profile \in Profiles,
         EnrichWork \/ (\E p \in Profiles : EnrichOpen(p)) \/ EnrichCrash
  PROVE  StoreTypeOK' /\ EnrichTypeOK'
<1> USE EnrichAssumption DEF StoreTypeOK, EnrichTypeOK, EnrichState, EnrichPc
<1>0. IdleEnricher \in EnrichState
  BY NoRowType DEF IdleEnricher
<1>1. CASE \E p \in Profiles : EnrichOpen(p)
  BY <1>0, <1>1, DbUnchangedType DEF EnrichOpen, OpenStore, IdleEnricher
<1>2. CASE EnrichReadNodes
  BY <1>2, DbUnchangedType, AttributedType DEF EnrichReadNodes, DbTypeOK
<1>3. CASE EnrichWriteNode
  <2>1. PICK n \in en.todoNodes :
          /\ WriteNodeMetadata(n, [en.rows[n] EXCEPT !.runtime = en.profile])
          /\ en' = [en EXCEPT !.todoNodes = @ \ {n}]
    BY <1>3 DEF EnrichWriteNode
  <2>2. [en.rows[n] EXCEPT !.runtime = en.profile] \in Row
    BY <1>3 DEF EnrichWriteNode, Row
  <2>3. QED  BY <1>3, <2>1, <2>2, WriteNodeMetadataType DEF EnrichWriteNode
<1>4. CASE EnrichManifest
  BY <1>4, WriteGraphMetaType DEF EnrichManifest
<1>5. CASE EnrichClearEdges
  <2>1. RuntimeEdges(en.profile, en.ids) \in SUBSET Edge
    BY <1>5, RuntimeEdgesType DEF EnrichClearEdges
  <2>2. QED  BY <1>5, <2>1, ClearEdgesType DEF EnrichClearEdges
<1>6. CASE EnrichWriteEdge
  BY <1>6, MergeEdgeType DEF EnrichWriteEdge
<1>7. CASE EnrichClose
  BY <1>0, <1>7, DbUnchangedType DEF EnrichClose, EnrichDone, CloseStore
<1>8. CASE EnrichCrash
  BY <1>0, <1>8, DbUnchangedType DEF EnrichCrash
<1>9. CASE EnrichRejects
  BY <1>0, <1>9, DbUnchangedType DEF EnrichRejects, CloseStore
<1>10. QED
  BY <1>1, <1>2, <1>3, <1>4, <1>5, <1>6, <1>7, <1>8, <1>9 DEF EnrichWork

\* What ClusterWriteNode and RenameWriteNode write has the type of the columns.
LEMMA CommunityType ==
  ASSUME ClusterTypeOK, WorkKnown, cl.pc = "nodes", NEW n \in cl.todo
  PROVE  cl.communityOf[n] \in Nat /\ cl.labels[cl.communityOf[n]] \in Labels
<1>1. n \in DOMAIN cl.communityOf /\ cl.communityOf[n] \in DOMAIN cl.labels
  BY DEF WorkKnown
<1>2. PICK S \in SUBSET Ids : cl.communityOf \in [S -> 0..Cardinality(Ids)]
  BY DEF ClusterTypeOK, ClusterState
<1>3. PICK k \in 0..Cardinality(Ids) : cl.labels \in [0..(k - 1) -> Labels]
  BY DEF ClusterTypeOK, ClusterState, ClusteringManifest
<1>4. QED  BY <1>1, <1>2, <1>3, GraphAssumption, FS_CardinalityType

LEMMA NameType ==
  ASSUME ClusterTypeOK, WorkKnown, rn.pc = "nodes", NEW n \in rn.todo
  PROVE  [user |-> rn.file[rn.rows[n].community]] \in Labels
BY DEF ClusterTypeOK, RenameState, LabelsFile, WorkKnown, Labels

LEMMA ClusterType ==
  ASSUME StoreTypeOK, ClusterTypeOK, WorkKnown,
         \/ ClusterOpen \/ ClusterDetect \/ ClusterWriteNode \/ ClusterManifest
         \/ ClusterClose \/ ClusterCrash
  PROVE  StoreTypeOK' /\ ClusterTypeOK'
<1> USE ClusterAssumption DEF StoreTypeOK, ClusterTypeOK
<1>a. IdleClusterer \in ClusterState
  BY NoRowType, EmptyMapType DEF IdleClusterer, ClusterState
<1>1. CASE ClusterOpen
  <2>1. [IdleClusterer EXCEPT !.pc = "read"] \in ClusterState
    BY <1>a DEF ClusterState
  <2>2. QED  BY <1>1, <2>1, DbUnchangedType DEF ClusterOpen, OpenStore
<1>2. CASE ClusterDetect
  <2>0. PICK k \in 0..Cardinality(Ids) : \E f \in Partitions(Touched(edges), k) :
          \E labels \in AutoLabels(f, k) : Detected(f, labels)
    BY <1>2 DEF ClusterDetect, Detected
  <2>a. PICK f \in Partitions(Touched(edges), k) : \E labels \in AutoLabels(f, k) : Detected(f, labels)
    BY <2>0
  <2>1. PICK labels \in AutoLabels(f, k) : Detected(f, labels)
    BY <2>a
  <2>2. Touched(edges) \in SUBSET Ids
    BY TouchedType DEF DbTypeOK
  <2>3. f \in [Touched(edges) -> 0..Cardinality(Ids)] /\ labels \in ClusteringManifest
    BY <2>2, PartitionType, AutoLabelsType
  <2>4. f \in UNION {[S -> 0..Cardinality(Ids)] : S \in SUBSET Ids}
    BY <2>2, <2>3
  <2>5. cl' \in ClusterState
    BY <2>1, <2>2, <2>3, <2>4 DEF ClusterState, DbTypeOK, Detected
  <2>6. QED  BY <1>2, <2>5, DbUnchangedType DEF ClusterDetect
<1>3. CASE ClusterWriteNode
  <2>1. PICK n \in cl.todo :
          /\ WriteNodeMetadata(n, [cl.rows[n] EXCEPT !.community = cl.communityOf[n],
                                     !.label = cl.labels[cl.communityOf[n]]])
          /\ cl' = [cl EXCEPT !.todo = @ \ {n}]
    BY <1>3 DEF ClusterWriteNode
  <2>2. n \in Ids /\ cl.rows[n] \in Row
    BY DEF ClusterState
  <2>3. cl.communityOf[n] \in Nat /\ cl.labels[cl.communityOf[n]] \in Labels
    BY <1>3, <2>1, CommunityType DEF ClusterWriteNode
  <2>5. [cl.rows[n] EXCEPT !.community = cl.communityOf[n],
                           !.label = cl.labels[cl.communityOf[n]]] \in Row
    BY <2>2, <2>3 DEF Row
  <2>6. [cl EXCEPT !.todo = @ \ {n}] \in ClusterState
    BY DEF ClusterState
  <2>7. QED  BY <1>3, <2>1, <2>2, <2>5, <2>6, WriteNodeMetadataType DEF ClusterWriteNode
<1>4. CASE ClusterManifest
  <2>1. cl.labels \in ClusteringManifest /\ [cl EXCEPT !.pc = "close"] \in ClusterState
    BY DEF ClusterState
  <2>2. QED  BY <1>4, <2>1, WriteGraphMetaType DEF ClusterManifest
<1>5. CASE ClusterClose
  BY <1>a, <1>5, DbUnchangedType DEF ClusterClose, CloseStore
<1>6. CASE ClusterCrash
  BY <1>a, <1>6, DbUnchangedType DEF ClusterCrash
<1>7. QED  BY <1>1, <1>2, <1>3, <1>4, <1>5, <1>6

LEMMA RenameType ==
  ASSUME StoreTypeOK, ClusterTypeOK, WorkKnown,
         \/ \E file \in LabelsFile : RenameOpen(file)
         \/ RenamePlan \/ RenameNothing \/ RenameWriteNode \/ RenameManifest
         \/ RenameClose \/ RenameCrash
  PROVE  StoreTypeOK' /\ ClusterTypeOK'
<1> USE ClusterAssumption DEF StoreTypeOK, ClusterTypeOK
<1>a. IdleRenamer \in RenameState
  BY NoRowType, EmptyMapType DEF IdleRenamer, RenameState
<1>1. CASE \E file \in LabelsFile : RenameOpen(file)
  <2>1. PICK file \in LabelsFile : RenameOpen(file)
    BY <1>1
  <2>2. [IdleRenamer EXCEPT !.pc = "read", !.file = file] \in RenameState
    BY <1>a DEF RenameState
  <2>3. QED  BY <2>1, <2>2, DbUnchangedType DEF RenameOpen, OpenStore
<1>2. CASE RenamePlan
  <2>1. PICK plan \in Plans(rn.file, stored, row) :
          rn' = [rn EXCEPT !.pc = "nodes", !.rows = row,
                           !.todo = {n \in stored : row[n].community \in plan}]
    BY <1>2 DEF RenamePlan
  <2>2. rn' \in RenameState
    BY <2>1 DEF RenameState, DbTypeOK
  <2>3. QED  BY <1>2, <2>2, DbUnchangedType DEF RenamePlan
<1>3. CASE RenameNothing
  <2>1. [rn EXCEPT !.pc = "close"] \in RenameState
    BY DEF RenameState
  <2>2. QED  BY <1>3, <2>1, DbUnchangedType DEF RenameNothing
<1>4. CASE RenameWriteNode
  <2>1. PICK n \in rn.todo :
          /\ WriteNodeMetadata(n, [rn.rows[n] EXCEPT
                                     !.label = [user |-> rn.file[rn.rows[n].community]]])
          /\ rn' = [rn EXCEPT !.todo = @ \ {n}]
    BY <1>4 DEF RenameWriteNode
  <2>2. n \in Ids /\ rn.rows[n] \in Row
    BY DEF RenameState
  <2>3. [user |-> rn.file[rn.rows[n].community]] \in Labels
    BY <1>4, <2>1, NameType DEF RenameWriteNode
  <2>4. [rn.rows[n] EXCEPT !.label = [user |-> rn.file[rn.rows[n].community]]] \in Row
    BY <2>2, <2>3 DEF Row
  <2>5. [rn EXCEPT !.todo = @ \ {n}] \in RenameState
    BY DEF RenameState
  <2>6. QED  BY <1>4, <2>1, <2>2, <2>4, <2>5, WriteNodeMetadataType DEF RenameWriteNode
<1>5. CASE RenameManifest
  <2>1. [rn EXCEPT !.pc = "close"] \in RenameState /\ rn.file \in LabelsFile
    BY DEF RenameState
  <2>2. CASE meta.clustering # None
    <3>1. meta.clustering \in ClusteringManifest
      BY <2>2 DEF DbTypeOK, Meta
    <3>2. UpdatedManifest(meta.clustering, rn.file) \in ClusteringManifest
      BY <2>1, <3>1, UpdatedManifestType
    <3>3. QED  BY <1>5, <2>1, <2>2, <3>2, WriteGraphMetaType DEF RenameManifest
  <2>3. CASE meta.clustering = None
    BY <1>5, <2>1, <2>3, DbUnchangedType DEF RenameManifest
  <2>4. QED  BY <2>2, <2>3
<1>6. CASE RenameClose
  BY <1>a, <1>6, DbUnchangedType DEF RenameClose, CloseStore
<1>7. CASE RenameCrash
  BY <1>a, <1>7, DbUnchangedType DEF RenameCrash
<1>8. QED  BY <1>1, <1>2, <1>3, <1>4, <1>5, <1>6, <1>7

-----------------------------------------------------------------------------
(***************************************************************************)
(* The inductive invariant.  TypeOK is not inductive by itself: that what a *)
(* command writes has the type of the table rests on WorkKnown, and the     *)
(* freshness of the copies on the lock.                                     *)
(***************************************************************************)
IInv == TypeOK /\ SessionsFresh

LEMMA InitType == Init => TypeOK
<1> SUFFICES ASSUME Init PROVE TypeOK
  OBVIOUS
<1>1. LoadTypeOK
  BY DEF Init, LoadInit, LoadTypeOK, Loader, IdleLoader, LoadPc, Idle
<1>2. EnrichTypeOK
  BY NoRowType DEF Init, EnrichInit, EnrichTypeOK, EnrichState, IdleEnricher, EnrichPc
<1>3. ClusterTypeOK
  BY NoRowType, EmptyMapType
  DEF Init, ClusterInit, ClusterTypeOK, ClusterState, IdleClusterer, RenameState, IdleRenamer
<1>4. starts \in [Commands -> Nat]
  BY PipelineAssumption DEF Init
<1>5. IdleExtractor \in Extractor
  BY DEF IdleExtractor, Extractor, ExtractPc, Idle
<1>6. NoMeta \in Meta
  BY DEF NoMeta, Meta
<1>7. CASE ColdInit
  <2>1. StoreTypeOK
    BY <1>6, <1>7, NoRowType DEF ColdInit, StoreInit, StoreTypeOK, DbTypeOK
  <2>2. ExtractTypeOK
    BY <1>5, <1>7 DEF ColdInit, ExtractInit, ExtractTypeOK, NoFile, File
  <2>3. QED  BY <1>1, <1>2, <1>3, <1>4, <2>1, <2>2 DEF TypeOK
<1>8. CASE \E r \in Warm : WarmInit(r)
  <2>1. PICK r \in Warm : WarmInit(r)
    BY <1>8
  <2>2. r \in Revs /\ NodeLines[r] \subseteq Ids /\ EdgeLines[r] \subseteq Relation
    BY GraphAssumption
  <2>3. SourceOf(r) \in Revs \cup {None}
    BY <2>2 DEF SourceOf
  <2>4. StoreTypeOK
    <3>1. row \in [Ids -> Row]
      BY <2>1, <2>2, FreshRowType, NoRowType DEF WarmInit
    <3>2. edges \subseteq Edge
      BY <2>1, <2>2, StampedType DEF WarmInit, Insertable
    <3>3. meta \in Meta
      BY <2>1, <2>3 DEF WarmInit, NoMeta, Meta
    <3>4. QED  BY <2>1, <2>2, <3>1, <3>2, <3>3 DEF WarmInit, StoreTypeOK, DbTypeOK
  <2>5. ExtractTypeOK
    BY <1>5, <2>1, <2>2, <2>3 DEF WarmInit, ExtractTypeOK, File
  <2>6. QED  BY <1>1, <1>2, <1>3, <1>4, <2>4, <2>5 DEF TypeOK
<1>9. QED  BY <1>7, <1>8 DEF Init

LEMMA InitFresh == Init => SessionsFresh
BY DEF Init, ColdInit, WarmInit, ExtractInit, LoadInit, EnrichInit, ClusterInit,
       SessionsFresh, LockHeld, RowsFresh, WorkKnown,
       IdleExtractor, IdleLoader, IdleEnricher, IdleClusterer, IdleRenamer, Idle

\* The bound on starts only ever goes down.
LEMMA StartType ==
  ASSUME starts \in [Commands -> Nat], NEW c \in Commands, Start(c)
  PROVE  starts' \in [Commands -> Nat]
BY DEF Start

LEMMA NextType == IInv /\ [Next]_vars => TypeOK'
<1> SUFFICES ASSUME IInv, [Next]_vars PROVE TypeOK'
  OBVIOUS
<1> USE DEF IInv, TypeOK, SessionsFresh
<1>1. CASE ExtractNext
  <2>1. ExtractTypeOK'
    BY <1>1, ExtractType DEF ExtractNext, WorkKnown
  <2>2. StoreTypeOK' /\ LoadTypeOK' /\ EnrichTypeOK' /\ ClusterTypeOK'
    BY <1>1, DbUnchangedType
    DEF ExtractNext, StoreTypeOK, LoadTypeOK, EnrichTypeOK, ClusterTypeOK
  <2>3. starts' \in [Commands -> Nat]
    BY <1>1, StartType DEF ExtractNext, Commands
  <2>4. QED  BY <2>1, <2>2, <2>3
<1>2. CASE \E l \in Loaders : LoadNext(l)
  <2>1. PICK l \in Loaders : LoadNext(l)
    BY <1>2
  <2>2. StoreTypeOK' /\ LoadTypeOK'
    BY <2>1, LoadType DEF LoadNext
  <2>3. ExtractTypeOK' /\ EnrichTypeOK' /\ ClusterTypeOK'
    BY <2>1 DEF LoadNext, extractVars, ExtractTypeOK, EnrichTypeOK, ClusterTypeOK
  <2>4. starts' \in [Commands -> Nat]
    BY <2>1, StartType DEF LoadNext, Commands
  <2>5. QED  BY <2>2, <2>3, <2>4
<1>3. CASE EnrichNext
  <2>1. StoreTypeOK' /\ EnrichTypeOK'
    BY <1>3, EnrichType DEF EnrichNext, WorkKnown
  <2>2. ExtractTypeOK' /\ LoadTypeOK' /\ ClusterTypeOK'
    BY <1>3 DEF EnrichNext, extractVars, ExtractTypeOK, LoadTypeOK, ClusterTypeOK
  <2>3. starts' \in [Commands -> Nat]
    BY <1>3, StartType DEF EnrichNext, Commands
  <2>4. QED  BY <2>1, <2>2, <2>3
<1>4. CASE ClusterNext
  <2>1. StoreTypeOK' /\ ClusterTypeOK'
    BY <1>4, ClusterType, RenameType DEF ClusterNext, ClusterWork
  <2>2. ExtractTypeOK' /\ LoadTypeOK' /\ EnrichTypeOK'
    BY <1>4 DEF ClusterNext, extractVars, ExtractTypeOK, LoadTypeOK, EnrichTypeOK
  <2>3. starts' \in [Commands -> Nat]
    BY <1>4, StartType DEF ClusterNext, Commands
  <2>4. QED  BY <2>1, <2>2, <2>3
<1>5. CASE UNCHANGED vars
  BY <1>5, DbUnchangedType DEF vars, extractVars, StoreTypeOK, ExtractTypeOK, LoadTypeOK,
     EnrichTypeOK, ClusterTypeOK
<1>6. QED  BY <1>1, <1>2, <1>3, <1>4, <1>5 DEF Next

\* Whoever has the database open has it alone.
LEMMA Alone ==
  ASSUME LockHeld
  PROVE  /\ lock # Enricher => en.pc = "idle"
         /\ lock # Clusterer => cl.pc = "idle"
         /\ lock # Renamer => rn.pc = "idle"
         /\ \A l \in Loaders : lock # l => ld[l].pc \notin {"merge", "runtime", "close"}
BY DEF LockHeld

\* Writing back a record that differs from a fresh copy only in the keys its
\* writer owns leaves the copy fresh.
LEMMA WrittenRow ==
  ASSUME DbTypeOK, NEW keys \in SUBSET {"runtime", "community", "label"}, NEW n \in Ids,
         NEW m \in Row, NEW old \in Row, WriteNodeMetadata(n, m),
         SameExcept(old, m, keys), SameExcept(old, row[n], keys)
  PROVE  /\ SameExcept(old, row'[n], keys)
         /\ \A k \in Ids : k # n => row'[k] = row[k]
<1>1. \A k \in Ids : k # n => row'[k] = row[k]
  BY DEF WriteNodeMetadata, DbTypeOK
<1>2. CASE n \notin stored
  BY <1>1, <1>2 DEF WriteNodeMetadata
<1>3. CASE n \in stored
  <2>1. row'[n] = [m EXCEPT !.rev = row[n].rev]
    BY <1>3 DEF WriteNodeMetadata, DbTypeOK
  <2>2. /\ row'[n].rev = row[n].rev
        /\ row'[n].runtime = m.runtime
        /\ row'[n].community = m.community
        /\ row'[n].label = m.label
    BY <2>1 DEF Row
  <2>3. QED  BY <1>1, <2>2 DEF SameExcept
<1>4. QED  BY <1>2, <1>3

LEMMA Distinct ==
  /\ \A l \in Loaders : l \notin {Enricher, Clusterer, Renamer, None}
  /\ Enricher \notin {Clusterer, Renamer, None}
  /\ Clusterer \notin {Renamer, None}
  /\ Renamer # None
BY StoreAssumption, LoadAssumption, EnrichAssumption, ClusterAssumption, PipelineAssumption

(***************************************************************************)
(* The three commands that write metadata back: before and after the write  *)
(* their copy differs from the database only in the keys they own.          *)
(***************************************************************************)
LEMMA EnrichMerges ==
  ASSUME IInv, EnrichWriteNode
  PROVE  /\ lock = Enricher /\ en'.rows = en.rows
         /\ \A k \in Ids : /\ SameExcept(en.rows[k], row[k], {"runtime"})
                          /\ SameExcept(en.rows[k], row'[k], {"runtime"})
<1> USE DEF IInv, SessionsFresh
<1>1. PICK n \in en.todoNodes :
        /\ WriteNodeMetadata(n, [en.rows[n] EXCEPT !.runtime = en.profile])
        /\ en' = [en EXCEPT !.todoNodes = @ \ {n}]
  BY DEF EnrichWriteNode
<1> DEFINE m == [en.rows[n] EXCEPT !.runtime = en.profile]
<1>2. lock = Enricher /\ en'.rows = en.rows
  BY <1>1 DEF EnrichWriteNode, LockHeld, TypeOK, EnrichTypeOK, EnrichState
<1>3. \A k \in Ids : SameExcept(en.rows[k], row[k], {"runtime"})
  BY DEF EnrichWriteNode, RowsFresh
<1>4. n \in Ids /\ en.rows[n] \in Row
  BY DEF TypeOK, EnrichTypeOK, EnrichState
<1>5. m \in Row
  BY <1>4 DEF EnrichWriteNode, WorkKnown, Row
<1>6. SameExcept(en.rows[n], m, {"runtime"})
  BY <1>4 DEF SameExcept, Row
<1>7. WriteNodeMetadata(n, m) /\ DbTypeOK
  BY <1>1 DEF m, TypeOK, StoreTypeOK
<1> HIDE DEF m
<1>8. QED  BY <1>2, <1>3, <1>4, <1>5, <1>6, <1>7, WrittenRow

LEMMA ClusterMerges ==
  ASSUME IInv, ClusterWriteNode
  PROVE  /\ lock = Clusterer /\ cl'.rows = cl.rows
         /\ \A k \in Ids : /\ SameExcept(cl.rows[k], row[k], {"community", "label"})
                          /\ SameExcept(cl.rows[k], row'[k], {"community", "label"})
<1> USE DEF IInv, SessionsFresh
<1>1. PICK n \in cl.todo :
        /\ WriteNodeMetadata(n, [cl.rows[n] EXCEPT !.community = cl.communityOf[n],
                                   !.label = cl.labels[cl.communityOf[n]]])
        /\ cl' = [cl EXCEPT !.todo = @ \ {n}]
  BY DEF ClusterWriteNode
<1> DEFINE m == [cl.rows[n] EXCEPT !.community = cl.communityOf[n],
                                   !.label = cl.labels[cl.communityOf[n]]]
<1>2. lock = Clusterer /\ cl'.rows = cl.rows
  BY <1>1 DEF ClusterWriteNode, LockHeld, TypeOK, ClusterTypeOK, ClusterState
<1>3. \A k \in Ids : SameExcept(cl.rows[k], row[k], {"community", "label"})
  BY DEF ClusterWriteNode, RowsFresh
<1>4. n \in Ids /\ cl.rows[n] \in Row
  BY DEF TypeOK, ClusterTypeOK, ClusterState
<1>5. cl.communityOf[n] \in Nat /\ cl.labels[cl.communityOf[n]] \in Labels
  BY CommunityType DEF ClusterWriteNode, TypeOK
<1>6. m \in Row
  BY <1>4, <1>5 DEF Row
<1>7. SameExcept(cl.rows[n], m, {"community", "label"})
  BY <1>4 DEF SameExcept, Row
<1>8. WriteNodeMetadata(n, m) /\ DbTypeOK
  BY <1>1 DEF m, TypeOK, StoreTypeOK
<1> HIDE DEF m
<1>9. QED  BY <1>2, <1>3, <1>4, <1>6, <1>7, <1>8, WrittenRow

LEMMA RenameMerges ==
  ASSUME IInv, RenameWriteNode
  PROVE  /\ lock = Renamer /\ rn'.rows = rn.rows
         /\ \A k \in Ids : /\ SameExcept(rn.rows[k], row[k], {"label"})
                          /\ SameExcept(rn.rows[k], row'[k], {"label"})
<1> USE DEF IInv, SessionsFresh
<1>1. PICK n \in rn.todo :
        /\ WriteNodeMetadata(n, [rn.rows[n] EXCEPT
                                   !.label = [user |-> rn.file[rn.rows[n].community]]])
        /\ rn' = [rn EXCEPT !.todo = @ \ {n}]
  BY DEF RenameWriteNode
<1> DEFINE m == [rn.rows[n] EXCEPT !.label = [user |-> rn.file[rn.rows[n].community]]]
<1>2. lock = Renamer /\ rn'.rows = rn.rows
  BY <1>1 DEF RenameWriteNode, LockHeld, TypeOK, ClusterTypeOK, RenameState
<1>3. \A k \in Ids : SameExcept(rn.rows[k], row[k], {"label"})
  BY DEF RenameWriteNode, RowsFresh
<1>4. n \in Ids /\ rn.rows[n] \in Row
  BY DEF TypeOK, ClusterTypeOK, RenameState
<1>5. [user |-> rn.file[rn.rows[n].community]] \in Labels
  BY NameType DEF RenameWriteNode, TypeOK
<1>6. m \in Row
  BY <1>4, <1>5 DEF Row
<1>7. SameExcept(rn.rows[n], m, {"label"})
  BY <1>4 DEF SameExcept, Row
<1>8. WriteNodeMetadata(n, m) /\ DbTypeOK
  BY <1>1 DEF m, TypeOK, StoreTypeOK
<1> HIDE DEF m
<1>9. QED  BY <1>2, <1>3, <1>4, <1>6, <1>7, <1>8, WrittenRow

LEMMA ExtractKeepsSessions == ASSUME IInv, ExtractNext PROVE SessionsFresh'
<1> USE DEF IInv, SessionsFresh
<1>1. LockHeld' /\ RowsFresh'
  BY DEF ExtractNext, LockHeld, RowsFresh, dbVars
<1>2. ex'.pc # Idle => ex'.rev \in Revs
  <2> USE DEF TypeOK, ExtractTypeOK, Extractor, WorkKnown
  <2>1. CASE ExtractParse \/ (\E r \in Revs : Checkout(r)) \/ ExtractDetect
    <3>1. CASE ExtractParse
      BY <3>1 DEF ExtractParse
    <3>2. CASE \E r \in Revs : Checkout(r)
      BY <3>2 DEF Checkout
    <3>3. CASE ExtractDetect
      BY <3>3 DEF ExtractDetect, Idle
    <3>4. QED  BY <2>1, <3>1, <3>2, <3>3
  <2>2. CASE ExtractCrash \/ ExtractSkipSource \/ ExtractFlushSource
    BY <2>2 DEF ExtractCrash, ExtractSkipSource, ExtractFlushSource, IdleExtractor
  <2>3. CASE \/ ExtractTruncateNodes \/ ExtractFlushNodes \/ ExtractTruncateEdges
             \/ ExtractFlushEdges \/ ExtractTruncateSource
    BY <2>3 DEF ExtractTruncateNodes, ExtractFlushNodes, ExtractTruncateEdges,
       ExtractFlushEdges, ExtractTruncateSource, ExtractStep, Idle
  <2>4. QED  BY <2>1, <2>2, <2>3 DEF ExtractNext, ExtractWork
<1>3. WorkKnown'
  BY <1>2 DEF ExtractNext, WorkKnown
<1>4. QED  BY <1>1, <1>3

\* Every step of a loader that touches the tables is taken under its own lock,
\* and every step it takes without the lock leaves them alone.
LEMMA LoadWritesLocked ==
  ASSUME LockHeld, NEW l \in Loaders, LoadNext(l)
  PROVE  UNCHANGED row \/ lock = l
BY DEF LoadNext, LoadWork, LoadReadNodes, LoadReadEdges, LoadReadSource, LoadOpen,
   LoadOpenFails, LoadMergeNode, LoadMergeEdge, LoadSourceManifest, LoadClearRuntime,
   LoadClose, LoadCrash, LockHeld, dbVars

LEMMA LoadKeepsSessions ==
  ASSUME IInv, NEW l \in Loaders, LoadNext(l) PROVE SessionsFresh'
<1> USE DEF IInv, SessionsFresh
<1>1. UNCHANGED <<ex, en, cl, rn>>
  BY DEF LoadNext, extractVars
<1>2. WorkKnown'
  BY <1>1 DEF WorkKnown
<1>3. UNCHANGED row \/ lock = l
  BY LoadWritesLocked
<1>4. RowsFresh'
  <2>1. CASE UNCHANGED row
    BY <1>1, <2>1 DEF RowsFresh
  <2>2. CASE lock = l
    <3>1. en.pc = "idle" /\ cl.pc = "idle" /\ rn.pc = "idle"
      BY <2>2, Alone, Distinct
    <3>2. QED  BY <1>1, <3>1 DEF RowsFresh
  <2>3. QED  BY <1>3, <2>1, <2>2
<1>5. LockHeld'
  <2> USE DEF TypeOK, LoadTypeOK
  <2>1. CASE LoadReadNodes(l) \/ LoadReadEdges(l) \/ LoadReadSource(l) \/ LoadOpenFails(l)
    <3>1. lock' = lock /\ ld' = [ld EXCEPT ![l] = ld'[l]]
      BY <2>1 DEF LoadReadNodes, LoadReadEdges, LoadReadSource, LoadOpenFails
    <3>2. ld'[l].pc \notin {"merge", "runtime", "close"}
      <4>1. IdleLoader.pc = "idle"
        BY DEF IdleLoader, Idle
      <4>2. CASE LoadReadNodes(l)
        BY <4>2 DEF LoadReadNodes, IdleLoader
      <4>3. CASE LoadReadEdges(l)
        BY <4>1, <4>3 DEF LoadReadEdges, Loader
      <4>4. CASE LoadReadSource(l)
        BY <4>4 DEF LoadReadSource, Loader
      <4>5. CASE LoadOpenFails(l)
        BY <4>1, <4>5 DEF LoadOpenFails
      <4>6. QED  BY <2>1, <4>2, <4>3, <4>4, <4>5
    <3>3. QED  BY <1>1, <3>1, <3>2 DEF LockHeld
  <2>2. CASE LoadOpen(l)
    BY <1>1, <2>2, Alone, Distinct DEF LoadOpen, OpenStore, LockHeld, Loader
  <2>3. CASE LoadMergeNode(l) \/ LoadMergeEdge(l) \/ LoadSourceManifest(l) \/ LoadClearRuntime(l)
    BY <1>1, <2>3 DEF LoadMergeNode, LoadMergeEdge, LoadSourceManifest, LoadClearRuntime,
       LockHeld, Loader
  <2>4. CASE LoadClose(l) \/ LoadCrash(l)
    BY <1>1, <2>4, Alone, Distinct DEF LoadClose, LoadCrash, CloseStore, LockHeld, Loader,
       IdleLoader, Idle
  <2>5. QED  BY <2>1, <2>2, <2>3, <2>4 DEF LoadNext, LoadWork
<1>6. QED  BY <1>2, <1>4, <1>5

LEMMA EnrichKeepsSessions == ASSUME IInv, EnrichNext PROVE SessionsFresh'
<1> USE DEF IInv, SessionsFresh
<1>1. UNCHANGED <<ex, ld, cl, rn>>
  BY DEF EnrichNext, extractVars
<1>2. lock' = lock \/ (lock = None /\ lock' = Enricher) \/ (lock = Enricher /\ lock' = None)
  BY DEF EnrichNext, EnrichWork, EnrichOpen, OpenStore, EnrichReadNodes, EnrichWriteNode,
     EnrichManifest, EnrichClearEdges, EnrichWriteEdge, EnrichClose, EnrichRejects, CloseStore, EnrichCrash,
     LockHeld
<1>3. en'.pc # "idle" => lock' = Enricher /\ en'.profile \in Profiles
  <2>1. CASE \E p \in Profiles : EnrichOpen(p)
    BY <2>1 DEF EnrichOpen, OpenStore, IdleEnricher
  <2>2. CASE EnrichClose \/ EnrichRejects \/ EnrichCrash
    BY <2>2 DEF EnrichClose, EnrichRejects, EnrichCrash, IdleEnricher
  <2>3. CASE \/ EnrichReadNodes \/ EnrichWriteNode \/ EnrichManifest \/ EnrichClearEdges
             \/ EnrichWriteEdge
    <3>1. lock' = lock /\ en.pc # "idle" /\ en'.profile = en.profile
      BY <2>3 DEF EnrichReadNodes, EnrichWriteNode, EnrichManifest, EnrichClearEdges,
         EnrichWriteEdge, TypeOK, EnrichTypeOK, EnrichState
    <3>2. QED  BY <3>1 DEF LockHeld, WorkKnown
  <2>4. QED  BY <2>1, <2>2, <2>3 DEF EnrichNext, EnrichWork
<1>4. LockHeld'
  BY <1>1, <1>2, <1>3, Alone, Distinct DEF LockHeld
<1>5. WorkKnown'
  BY <1>1, <1>3 DEF WorkKnown
<1>6. cl.pc = "nodes" \/ rn.pc = "nodes" => UNCHANGED row
  BY Alone, Distinct DEF EnrichNext, EnrichWork, EnrichOpen, EnrichReadNodes, EnrichWriteNode,
     EnrichManifest, EnrichClearEdges, EnrichWriteEdge, EnrichClose, EnrichRejects, EnrichCrash,
     WriteGraphMeta, ClearEdgesByKind, MergeEdge, LockHeld, dbVars
<1>7. en'.pc = "nodes" => \A n \in Ids : SameExcept(en'.rows[n], row'[n], {"runtime"})
  <2>1. CASE EnrichReadNodes
    BY <2>1 DEF EnrichReadNodes, SameExcept, dbVars, TypeOK, EnrichTypeOK, EnrichState
  <2>2. CASE EnrichWriteNode
    BY <2>2, EnrichMerges
  <2>3. CASE ~EnrichReadNodes /\ ~EnrichWriteNode
    <3>1. CASE EnrichManifest \/ EnrichClearEdges \/ EnrichWriteEdge
      <4>1. en'.pc # "nodes"
        BY <3>1 DEF EnrichManifest, EnrichClearEdges, EnrichWriteEdge, TypeOK, EnrichTypeOK,
           EnrichState
      <4>2. QED  BY <4>1
    <3>2. CASE (\E p \in Profiles : EnrichOpen(p)) \/ EnrichClose \/ EnrichRejects \/ EnrichCrash
      <4>1. CASE \E p \in Profiles : EnrichOpen(p)
        BY <4>1 DEF EnrichOpen, IdleEnricher
      <4>2. CASE EnrichClose \/ EnrichRejects \/ EnrichCrash
        BY <4>2 DEF EnrichClose, EnrichRejects, EnrichCrash, IdleEnricher
      <4>3. QED  BY <3>2, <4>1, <4>2
    <3>3. QED  BY <2>3, <3>1, <3>2 DEF EnrichNext, EnrichWork
  <2>4. QED  BY <2>1, <2>2, <2>3
<1>8. RowsFresh'
  BY <1>1, <1>6, <1>7 DEF RowsFresh
<1>9. QED  BY <1>4, <1>5, <1>8

LEMMA ClusterKeepsSessions ==
  ASSUME IInv, UNCHANGED <<ex, ld, en>>,
         \/ ClusterOpen \/ ClusterDetect \/ ClusterWriteNode \/ ClusterManifest
         \/ ClusterClose \/ ClusterCrash
  PROVE  SessionsFresh'
<1> USE DEF IInv, SessionsFresh
<1>1. UNCHANGED rn
  BY DEF ClusterOpen, ClusterDetect, ClusterWriteNode, ClusterManifest, ClusterClose, ClusterCrash
<1>2. lock' = lock \/ (lock = None /\ lock' = Clusterer) \/ (lock = Clusterer /\ lock' = None)
  BY DEF ClusterOpen, OpenStore, ClusterDetect, ClusterWriteNode, ClusterManifest, ClusterClose,
     CloseStore, ClusterCrash, LockHeld
<1>3. cl'.pc # "idle" => lock' = Clusterer
  <2>1. CASE ClusterOpen
    BY <2>1 DEF ClusterOpen, OpenStore
  <2>2. CASE ClusterClose \/ ClusterCrash
    BY <2>2 DEF ClusterClose, ClusterCrash, IdleClusterer
  <2>3. CASE ClusterDetect \/ ClusterWriteNode \/ ClusterManifest
    BY <2>3 DEF ClusterDetect, ClusterWriteNode, ClusterManifest, LockHeld
  <2>4. QED  BY <2>1, <2>2, <2>3
<1>4. LockHeld'
  BY <1>1, <1>2, <1>3, Alone, Distinct DEF LockHeld
<1>5. en.pc = "nodes" \/ rn.pc = "nodes" => UNCHANGED row
  BY Alone, Distinct DEF ClusterOpen, ClusterDetect, ClusterWriteNode, ClusterManifest,
     ClusterClose, ClusterCrash, WriteGraphMeta, LockHeld, dbVars
<1>6. CASE ClusterDetect
  <2>0. PICK k \in 0..Cardinality(Ids) : \E f \in Partitions(Touched(edges), k) :
          \E labels \in AutoLabels(f, k) : Detected(f, labels)
    BY <1>6 DEF ClusterDetect, Detected
  <2>a. PICK f \in Partitions(Touched(edges), k) : \E labels \in AutoLabels(f, k) : Detected(f, labels)
    BY <2>0
  <2>1. PICK labels \in AutoLabels(f, k) : Detected(f, labels)
    BY <2>a
  <2>2. f \in [Touched(edges) -> 0..(k - 1)] /\ DOMAIN labels = 0..(k - 1)
    <3>1. Touched(edges) \in SUBSET Ids
      BY TouchedType DEF TypeOK, StoreTypeOK, DbTypeOK
    <3>2. QED  BY <3>1, PartitionType, AutoLabelsType
  <2>3. \A n \in cl'.todo : n \in DOMAIN cl'.communityOf
                            /\ cl'.communityOf[n] \in DOMAIN cl'.labels
    BY <2>1, <2>2 DEF Detected
  <2>4. UNCHANGED row /\ cl'.rows = row
    BY <1>6, <2>1 DEF ClusterDetect, Detected, dbVars
  <2>5. WorkKnown'
    BY <1>1, <2>3 DEF WorkKnown
  <2>6. RowsFresh'
    BY <1>1, <2>4 DEF RowsFresh, SameExcept
  <2>7. QED  BY <1>4, <2>5, <2>6
<1>7. CASE ClusterWriteNode
  <2>1. /\ cl'.rows = cl.rows /\ cl'.todo \subseteq cl.todo
        /\ cl'.communityOf = cl.communityOf /\ cl'.labels = cl.labels
    BY <1>7 DEF ClusterWriteNode, TypeOK, ClusterTypeOK, ClusterState
  <2>2. WorkKnown'
    BY <1>1, <1>7, <2>1 DEF ClusterWriteNode, WorkKnown
  <2>3. RowsFresh'
    BY <1>1, <1>5, <1>7, <2>1, ClusterMerges DEF RowsFresh
  <2>4. QED  BY <1>4, <2>2, <2>3
<1>8. CASE ClusterOpen \/ ClusterManifest \/ ClusterClose \/ ClusterCrash
  <2>1. cl'.pc # "nodes"
    <3>1. CASE ClusterOpen
      BY <3>1 DEF ClusterOpen, IdleClusterer
    <3>2. CASE ClusterManifest
      BY <3>2 DEF ClusterManifest, TypeOK, ClusterTypeOK, ClusterState
    <3>3. CASE ClusterClose \/ ClusterCrash
      BY <3>3 DEF ClusterClose, ClusterCrash, IdleClusterer
    <3>4. QED  BY <1>8, <3>1, <3>2, <3>3
  <2>2. WorkKnown' /\ RowsFresh'
    BY <1>1, <1>5, <2>1 DEF WorkKnown, RowsFresh
  <2>3. QED  BY <1>4, <2>2
<1>9. QED  BY <1>6, <1>7, <1>8

LEMMA RenameKeepsSessions ==
  ASSUME IInv, UNCHANGED <<ex, ld, en>>,
         \/ \E file \in LabelsFile : RenameOpen(file)
         \/ RenamePlan \/ RenameNothing \/ RenameWriteNode \/ RenameManifest
         \/ RenameClose \/ RenameCrash
  PROVE  SessionsFresh'
<1> USE DEF IInv, SessionsFresh
<1>1. UNCHANGED cl
  BY DEF RenameOpen, RenamePlan, RenameNothing, RenameWriteNode, RenameManifest, RenameClose,
     RenameCrash
<1>2. lock' = lock \/ (lock = None /\ lock' = Renamer) \/ (lock = Renamer /\ lock' = None)
  BY DEF RenameOpen, OpenStore, RenamePlan, RenameNothing, RenameWriteNode, RenameManifest,
     RenameClose, CloseStore, RenameCrash, LockHeld
<1>3. rn'.pc # "idle" => lock' = Renamer
  <2>1. CASE \E file \in LabelsFile : RenameOpen(file)
    BY <2>1 DEF RenameOpen, OpenStore
  <2>2. CASE RenameClose \/ RenameCrash
    BY <2>2 DEF RenameClose, RenameCrash, IdleRenamer
  <2>3. CASE RenamePlan \/ RenameNothing \/ RenameWriteNode \/ RenameManifest
    BY <2>3 DEF RenamePlan, RenameNothing, RenameWriteNode, RenameManifest, LockHeld
  <2>4. QED  BY <2>1, <2>2, <2>3
<1>4. LockHeld'
  BY <1>1, <1>2, <1>3, Alone, Distinct DEF LockHeld
<1>5. en.pc = "nodes" \/ cl.pc = "nodes" => UNCHANGED row
  BY Alone, Distinct DEF RenameOpen, RenamePlan, RenameNothing, RenameWriteNode, RenameManifest,
     RenameClose, RenameCrash, WriteGraphMeta, LockHeld, dbVars
<1>6. CASE RenamePlan
  <2>1. PICK plan \in Plans(rn.file, stored, row) :
          rn' = [rn EXCEPT !.pc = "nodes", !.rows = row,
                           !.todo = {n \in stored : row[n].community \in plan}]
    BY <1>6 DEF RenamePlan
  <2>2. /\ rn'.rows = row /\ rn'.file = rn.file
        /\ rn'.todo = {n \in stored : row[n].community \in plan}
    BY <2>1 DEF TypeOK, ClusterTypeOK, RenameState
  <2>3. plan \subseteq DOMAIN rn.file
    BY DEF Plans
  <2>4. UNCHANGED row
    BY <1>6 DEF RenamePlan, dbVars
  <2>5. WorkKnown'
    BY <1>1, <2>2, <2>3 DEF WorkKnown
  <2>6. RowsFresh'
    BY <1>1, <2>2, <2>4 DEF RowsFresh, SameExcept
  <2>7. QED  BY <1>4, <2>5, <2>6
<1>7. CASE RenameWriteNode
  <2>1. rn'.rows = rn.rows /\ rn'.todo \subseteq rn.todo /\ rn'.file = rn.file
    BY <1>7 DEF RenameWriteNode, TypeOK, ClusterTypeOK, RenameState
  <2>2. WorkKnown'
    BY <1>1, <1>7, <2>1 DEF RenameWriteNode, WorkKnown
  <2>3. RowsFresh'
    BY <1>1, <1>5, <1>7, <2>1, RenameMerges DEF RowsFresh
  <2>4. QED  BY <1>4, <2>2, <2>3
<1>8. CASE \/ (\E file \in LabelsFile : RenameOpen(file))
           \/ RenameNothing \/ RenameManifest \/ RenameClose \/ RenameCrash
  <2>1. rn'.pc # "nodes"
    <3>1. CASE \E file \in LabelsFile : RenameOpen(file)
      BY <3>1 DEF RenameOpen, IdleRenamer
    <3>2. CASE RenameNothing \/ RenameManifest
      BY <3>2 DEF RenameNothing, RenameManifest, TypeOK, ClusterTypeOK, RenameState
    <3>3. CASE RenameClose \/ RenameCrash
      BY <3>3 DEF RenameClose, RenameCrash, IdleRenamer
    <3>4. QED  BY <1>8, <3>1, <3>2, <3>3
  <2>2. WorkKnown' /\ RowsFresh'
    BY <1>1, <1>5, <2>1 DEF WorkKnown, RowsFresh
  <2>3. QED  BY <1>4, <2>2
<1>9. QED  BY <1>6, <1>7, <1>8

LEMMA NextFresh == IInv /\ [Next]_vars => SessionsFresh'
<1> SUFFICES ASSUME IInv, [Next]_vars PROVE SessionsFresh'
  OBVIOUS
<1>1. CASE ExtractNext
  BY <1>1, ExtractKeepsSessions
<1>2. CASE \E l \in Loaders : LoadNext(l)
  BY <1>2, LoadKeepsSessions
<1>3. CASE EnrichNext
  BY <1>3, EnrichKeepsSessions
<1>4. CASE ClusterNext
  BY <1>4, ClusterKeepsSessions, RenameKeepsSessions DEF ClusterNext, ClusterWork, extractVars
<1>5. CASE UNCHANGED vars
  BY <1>5 DEF vars, dbVars, extractVars, IInv, SessionsFresh, LockHeld, RowsFresh, WorkKnown
<1>6. QED  BY <1>1, <1>2, <1>3, <1>4, <1>5 DEF Next

LEMMA Invariance == Spec => []IInv
<1>1. Init => IInv
  BY InitType, InitFresh DEF IInv
<1>2. IInv /\ [Next]_vars => IInv'
  BY NextType, NextFresh DEF IInv
<1>3. QED  BY <1>1, <1>2, PTL DEF Spec

(***************************************************************************)
(* Whatever is started, in whatever order, and killed wherever it is, the   *)
(* database and the processes hold values of their types: no rename writes  *)
(* an index the manifest does not have, no enrich an edge to no node.       *)
(***************************************************************************)
THEOREM TypeCorrect == Spec => []TypeOK
BY Invariance, PTL DEF IInv

(***************************************************************************)
(* Every copy of the rows a command still writes back agrees with the       *)
(* database on all keys but its own, because it alone has the database open.*)
(***************************************************************************)
THEOREM SessionsStayFresh == Spec => []SessionsFresh
BY Invariance, PTL DEF IInv

(***************************************************************************)
(* No command changes a metadata key it does not own, although each of them *)
(* writes the whole metadata column from a copy read earlier.               *)
(***************************************************************************)
THEOREM KeysStayOwned == Spec => KeyOwnership
<1>1. IInv /\ [Next]_vars => \A n \in Ids : Owned(n)
  <2> SUFFICES ASSUME IInv, [Next]_vars, NEW n \in Ids PROVE Owned(n)
    OBVIOUS
  <2>0. CASE UNCHANGED row
    BY <2>0 DEF Owned
  <2>1. CASE \E l \in Loaders : LoadNext(l)
    <3>1. PICK l \in Loaders : LoadNext(l)
      BY <2>1
    <3>2. UNCHANGED row \/ lock = l
      BY <3>1, LoadWritesLocked DEF IInv, SessionsFresh
    <3>3. QED  BY <2>0, <3>2 DEF Owned
  <2>2. CASE EnrichNext
    <3>1. CASE EnrichWriteNode
      BY <3>1, EnrichMerges DEF Owned, SameExcept
    <3>2. CASE ~EnrichWriteNode
      BY <2>0, <2>2, <3>2 DEF EnrichNext, EnrichWork, EnrichOpen, EnrichReadNodes, EnrichManifest,
         EnrichClearEdges, EnrichWriteEdge, EnrichClose, EnrichRejects, EnrichCrash, WriteGraphMeta,
         ClearEdgesByKind, MergeEdge, dbVars
    <3>3. QED  BY <3>1, <3>2
  <2>3. CASE ClusterNext
    <3>1. CASE ClusterWriteNode
      BY <3>1, ClusterMerges DEF Owned, SameExcept
    <3>2. CASE RenameWriteNode
      BY <3>2, RenameMerges DEF Owned, SameExcept
    <3>3. CASE ~ClusterWriteNode /\ ~RenameWriteNode
      BY <2>0, <2>3, <3>3 DEF ClusterNext, ClusterWork, ClusterOpen, ClusterDetect, ClusterManifest,
         ClusterClose, ClusterCrash, RenameOpen, RenamePlan, RenameNothing, RenameManifest,
         RenameClose, RenameCrash, WriteGraphMeta, dbVars
    <3>4. QED  BY <3>1, <3>2, <3>3
  <2>4. CASE ExtractNext \/ UNCHANGED vars
    BY <2>0, <2>4 DEF ExtractNext, vars, dbVars
  <2>5. QED  BY <2>1, <2>2, <2>3, <2>4 DEF Next
<1>2. QED  BY <1>1, Invariance, PTL DEF Spec, KeyOwnership

-----------------------------------------------------------------------------
(***************************************************************************)
(* A command which ends has left in the database what it computed, whatever *)
(* earlier commands left there and wherever they were killed.  The three    *)
(* properties speak of the last step only; Progress says of every earlier   *)
(* one that what is no longer to be done has been done, and IInv that       *)
(* nobody undoes it meanwhile.                                              *)
(***************************************************************************)

-----------------------------------------------------------------------------
\* Who changes the tables has the database open.
LEMMA LoadWritesOpen ==
  ASSUME LockHeld, NEW l \in Loaders, LoadNext(l) PROVE UNCHANGED dbVars \/ lock = l
BY DEF LoadNext, LoadWork, LoadReadNodes, LoadReadEdges, LoadReadSource, LoadOpen,
   LoadOpenFails, LoadMergeNode, LoadMergeEdge, LoadSourceManifest, LoadClearRuntime,
   LoadClose, LoadCrash, LockHeld

LEMMA EnrichWritesOpen ==
  ASSUME LockHeld, EnrichNext PROVE UNCHANGED dbVars \/ lock = Enricher
BY DEF EnrichNext, EnrichWork, EnrichOpen, EnrichReadNodes, EnrichWriteNode, EnrichManifest,
   EnrichClearEdges, EnrichWriteEdge, EnrichClose, EnrichRejects, EnrichCrash, LockHeld

LEMMA ClusterWritesOpen ==
  ASSUME LockHeld, ClusterNext PROVE UNCHANGED dbVars \/ lock \in {Clusterer, Renamer}
BY DEF ClusterNext, ClusterWork, ClusterOpen, ClusterDetect, ClusterWriteNode, ClusterManifest,
   ClusterClose, ClusterCrash, RenameOpen, RenamePlan, RenameNothing, RenameWriteNode,
   RenameManifest, RenameClose, RenameCrash, LockHeld

\* A command that does not step, and does not have the database open when the
\* tables change, is where it was.
LEMMA EnrichWaits ==
  ASSUME LockHeld, EnrichProgress, UNCHANGED en, UNCHANGED dbVars \/ lock # Enricher
  PROVE  EnrichProgress'
<1>1. CASE UNCHANGED dbVars
  BY <1>1 DEF EnrichProgress, dbVars
<1>2. CASE lock # Enricher
  BY <1>2, Alone DEF EnrichProgress
<1>3. QED  BY <1>1, <1>2

LEMMA ClusterWaits ==
  ASSUME LockHeld, ClusterProgress, UNCHANGED cl, UNCHANGED dbVars \/ lock # Clusterer
  PROVE  ClusterProgress'
<1>1. CASE UNCHANGED dbVars
  BY <1>1 DEF ClusterProgress, dbVars
<1>2. CASE lock # Clusterer
  BY <1>2, Alone DEF ClusterProgress
<1>3. QED  BY <1>1, <1>2

LEMMA LoadWaits ==
  ASSUME LockHeld, NEW l \in Loaders, LoadProgress(l), ld'[l] = ld[l], UNCHANGED dbVars \/ lock # l
  PROVE  LoadProgress(l)'
<1>1. CASE UNCHANGED dbVars
  BY <1>1 DEF LoadProgress, dbVars
<1>2. CASE lock # l
  BY <1>2, Alone DEF LoadProgress
<1>3. QED  BY <1>1, <1>2

-----------------------------------------------------------------------------
\* An edge is merged between nodes that are there, and no row is deleted.
LEMMA AnchoredKept ==
  ASSUME EdgesAnchored,
         \/ UNCHANGED dbVars
         \/ \E n \in Ids, r \in Revs \cup {None} : MergeNode(n, r)
         \/ \E e \in Edge : MergeEdge(e)
         \/ \E k \in Kinds : ClearEdgesByKind(k)
         \/ UNCHANGED <<stored, edges>>
  PROVE  EdgesAnchored'
BY DEF EdgesAnchored, dbVars, MergeNode, MergeEdge, ClearEdgesByKind

LEMMA NextAnchored ==
  ASSUME IInv, EdgesAnchored, [Next]_vars PROVE EdgesAnchored'
<1>1. CASE ExtractNext \/ UNCHANGED vars
  BY <1>1, AnchoredKept DEF ExtractNext, vars
<1>2. ASSUME NEW l \in Loaders, LoadNext(l) PROVE EdgesAnchored'
  <2> ld[l] \in Loader
    BY DEF IInv, TypeOK, LoadTypeOK
  <2>1. CASE LoadMergeNode(l)
    BY <2>1, AnchoredKept DEF LoadMergeNode, Loader
  <2>2. CASE LoadMergeEdge(l)
    <3>1. PICK e \in ld[l].todoLinks : MergeEdge(Stamped(e, ld[l].linkRev))
      BY <2>2 DEF LoadMergeEdge
    <3>2. Stamped(e, ld[l].linkRev) \in Edge
      BY StampedType DEF Loader
    <3>3. QED  BY <3>1, <3>2, AnchoredKept
  <2>3. CASE UNCHANGED <<stored, edges>>
    BY <2>3, AnchoredKept
  <2>4. QED
    BY <1>2, <2>1, <2>2, <2>3 DEF LoadNext, LoadWork, LoadReadNodes, LoadReadEdges, LoadReadSource,
       LoadOpen, LoadOpenFails, LoadSourceManifest, LoadClearRuntime, ClearGraphMeta, WriteGraphMeta,
       LoadClose, LoadCrash, dbVars
<1>3. CASE EnrichNext
  <2>1. CASE EnrichWriteEdge
    <3>1. PICK e \in en.todoEdges : MergeEdge(e)
      BY <2>1 DEF EnrichWriteEdge
    <3>2. e \in Edge
      BY DEF IInv, TypeOK, EnrichTypeOK, EnrichState
    <3>3. QED  BY <3>1, <3>2, AnchoredKept
  <2>2. CASE EnrichClearEdges
    BY <2>2, AnchoredKept DEF EnrichClearEdges, Kinds
  <2>3. CASE UNCHANGED <<stored, edges>>
    BY <2>3, AnchoredKept
  <2>4. QED
    BY <1>3, <2>1, <2>2, <2>3 DEF EnrichNext, EnrichWork, EnrichOpen, EnrichReadNodes,
       EnrichWriteNode, WriteNodeMetadata, EnrichManifest, WriteGraphMeta, EnrichClose, EnrichRejects, EnrichCrash,
       dbVars
<1>4. CASE ClusterNext
  <2>1. UNCHANGED <<stored, edges>>
    BY <1>4 DEF ClusterNext, ClusterWork, ClusterOpen, ClusterDetect, ClusterWriteNode,
       ClusterManifest, ClusterClose, ClusterCrash, RenameOpen, RenamePlan, RenameNothing,
       RenameWriteNode, RenameManifest, RenameClose, RenameCrash, WriteNodeMetadata, WriteGraphMeta,
       dbVars
  <2>2. QED  BY <2>1, AnchoredKept
<1>5. QED  BY <1>1, <1>2, <1>3, <1>4 DEF Next

-----------------------------------------------------------------------------
\* Two edges of one profile that relate the same nodes are one edge.
LEMMA RuntimeEdgeUnique ==
  ASSUME NEW p \in Profiles, NEW S \in SUBSET Ids,
         NEW e \in RuntimeEdges(p, S), NEW f \in RuntimeEdges(p, S), SameRelation(e, f)
  PROVE  e = f
<1>1. e \in Edge /\ f \in Edge /\ e.stamp = p /\ f.stamp = p
  BY RuntimeEdgesType
<1>2. QED  BY <1>1 DEF SameRelation, Edge

(***************************************************************************)
(* One enrich: it writes the nodes the profile resolves to, then its        *)
(* manifest, then, on a cleared kind, its edges.                            *)
(***************************************************************************)
LEMMA EnrichAdvances ==
  ASSUME IInv, EnrichProgress, EnrichNext PROVE EnrichProgress'
<1> USE DEF IInv
<1>0. TypeOK /\ LockHeld /\ WorkKnown /\ en \in EnrichState /\ DbTypeOK
  BY DEF SessionsFresh, TypeOK, EnrichTypeOK, StoreTypeOK
<1>1. CASE (\E p \in Profiles : EnrichOpen(p)) \/ EnrichClose \/ EnrichRejects \/ EnrichCrash
  <2>1. en'.pc \in {"idle", "read"}
    <3>1. CASE \E p \in Profiles : EnrichOpen(p)
      BY <3>1 DEF EnrichOpen, IdleEnricher
    <3>2. CASE EnrichClose \/ EnrichRejects \/ EnrichCrash
      BY <3>2 DEF EnrichClose, EnrichRejects, EnrichCrash, IdleEnricher
    <3>3. QED  BY <1>1, <3>1, <3>2
  <2>2. QED  BY <2>1 DEF EnrichProgress
<1>2. CASE EnrichReadNodes
  <2>1. /\ en'.pc = "nodes" /\ en'.profile = en.profile /\ en'.ids = stored
        /\ en'.todoNodes = Attributed(en.profile, stored) /\ UNCHANGED stored
    BY <1>0, <1>2 DEF EnrichReadNodes, EnrichState, dbVars
  <2>2. QED  BY <2>1 DEF EnrichProgress
<1>3. CASE EnrichWriteNode
  <2>1. PICK n \in en.todoNodes :
          /\ WriteNodeMetadata(n, [en.rows[n] EXCEPT !.runtime = en.profile])
          /\ en' = [en EXCEPT !.todoNodes = @ \ {n}]
    BY <1>3 DEF EnrichWriteNode
  <2>2. /\ en.pc = "nodes" /\ en'.pc = "nodes" /\ en'.profile = en.profile /\ en'.ids = en.ids
        /\ en'.todoNodes = en.todoNodes \ {n}
    BY <1>0, <1>3, <2>1 DEF EnrichWriteNode, EnrichState
  <2>3. n \in stored /\ n \in Ids /\ en.rows[n] \in Row
    BY <1>0, <2>2, AttributedType DEF EnrichProgress, EnrichState
  <2>4. /\ row'[n].runtime = en.profile /\ UNCHANGED stored
        /\ \A m \in Ids \ {n} : row'[m] = row[m]
    BY <1>0, <2>1, <2>3 DEF WriteNodeMetadata, DbTypeOK, Row
  <2>5. QED  BY <1>0, <2>2, <2>4, AttributedType DEF EnrichProgress, DbTypeOK
<1>4. CASE EnrichManifest
  <2>1. /\ en.pc = "nodes" /\ en.todoNodes = {} /\ en'.pc = "clear" /\ en'.profile = en.profile
        /\ en'.ids = en.ids /\ en'.todoNodes = en.todoNodes
        /\ UNCHANGED <<stored, row>> /\ meta'.runtime = en.profile
    BY <1>0, <1>4 DEF EnrichManifest, EnrichState, WriteGraphMeta, DbTypeOK, Meta
  <2>2. QED  BY <2>1 DEF EnrichProgress
<1>5. CASE EnrichClearEdges
  <2>1. /\ en.pc = "clear" /\ en'.pc = "edges" /\ en'.profile = en.profile
        /\ en'.ids = en.ids /\ en'.todoNodes = en.todoNodes
        /\ en'.todoEdges = RuntimeEdges(en.profile, en.ids)
        /\ UNCHANGED <<stored, row, meta>> /\ edges' = {e \in edges : e.kind # RuntimeKind}
    BY <1>0, <1>5 DEF EnrichClearEdges, ClearEdgesByKind, EnrichState
  <2>2. RuntimeEdgesOf(edges') = {}
    BY <2>1 DEF RuntimeEdgesOf
  <2>3. QED  BY <2>1, <2>2 DEF EnrichProgress
<1>6. CASE EnrichWriteEdge
  <2>1. PICK e \in en.todoEdges : MergeEdge(e) /\ en' = [en EXCEPT !.todoEdges = @ \ {e}]
    BY <1>6 DEF EnrichWriteEdge
  <2>2. /\ en.pc = "edges" /\ en'.pc = "edges" /\ en'.profile = en.profile /\ en'.ids = en.ids
        /\ en'.todoNodes = en.todoNodes /\ en'.todoEdges = en.todoEdges \ {e}
    BY <1>0, <1>6, <2>1 DEF EnrichWriteEdge, EnrichState
  <2> DEFINE all == RuntimeEdges(en.profile, stored)
  <2>3. /\ en.todoEdges \subseteq all /\ RuntimeEdgesOf(edges) = all \ en.todoEdges
        /\ en.profile \in Profiles /\ stored \in SUBSET Ids
    BY <1>0, <2>2 DEF EnrichProgress, WorkKnown, DbTypeOK
  <2>4. e \in all /\ e.kind = RuntimeKind /\ {e.from, e.to} \subseteq stored
    BY <2>3, RuntimeEdgesType
  <2>5. UNCHANGED <<stored, row, meta>> /\ edges' = {f \in edges : ~SameRelation(e, f)} \cup {e}
    BY <2>1, <2>4 DEF MergeEdge
  <2>6. \A f \in all : SameRelation(e, f) => f = e
    BY <2>3, <2>4, RuntimeEdgeUnique
  <2>7. RuntimeEdgesOf(edges') = all \ (en.todoEdges \ {e})
    <3> HIDE DEF all
    <3>1. RuntimeEdgesOf(edges') = {f \in RuntimeEdgesOf(edges) : ~SameRelation(e, f)} \cup {e}
      BY <2>4, <2>5 DEF RuntimeEdgesOf
    <3>2. QED  BY <2>3, <2>4, <2>6, <3>1
  <2>8. QED  BY <2>2, <2>3, <2>5, <2>7 DEF EnrichProgress
<1>7. QED  BY <1>1, <1>2, <1>3, <1>4, <1>5, <1>6 DEF EnrichNext, EnrichWork

(***************************************************************************)
(* One load: the nodes, then the edges between them, then the manifests.    *)
(***************************************************************************)
LEMMA LoadAdvances ==
  ASSUME IInv, NEW l \in Loaders, LoadProgress(l), LoadNext(l) PROVE LoadProgress(l)'
<1> DEFINE me == ld[l]
           links == Insertable(me.links, me.nodes)
<1>0. DbTypeOK /\ ld \in [Loaders -> Loader] /\ me \in Loader
  BY DEF IInv, TypeOK, LoadTypeOK, StoreTypeOK
<1>1. CASE LoadReadNodes(l) \/ LoadOpenFails(l) \/ LoadClose(l) \/ LoadCrash(l)
  <2>1. ld'[l].pc \in {Idle, "readEdges"}
    <3>1. CASE LoadReadNodes(l)
      BY <1>0, <3>1 DEF LoadReadNodes, IdleLoader
    <3>2. CASE LoadOpenFails(l) \/ LoadClose(l) \/ LoadCrash(l)
      BY <1>0, <3>2 DEF LoadOpenFails, LoadClose, LoadCrash, IdleLoader
    <3>3. QED  BY <1>1, <3>1, <3>2
  <2>2. QED  BY <2>1 DEF LoadProgress, Idle
<1>2. CASE LoadReadEdges(l)
  <2>1. ld'[l].pc \in {Idle, "readSource"}
    BY <1>0, <1>2 DEF LoadReadEdges, IdleLoader, Loader
  <2>2. QED  BY <2>1 DEF LoadProgress, Idle
<1>3. CASE LoadReadSource(l)
  <2>1. ld'[l].pc = "open"
    BY <1>0, <1>3 DEF LoadReadSource, Loader
  <2>2. QED  BY <2>1 DEF LoadProgress
<1>4. CASE LoadOpen(l)
  <2>1. ld'[l] = [me EXCEPT !.pc = "merge", !.todoNodes = me.nodes, !.todoLinks = links]
    BY <1>0, <1>4 DEF LoadOpen
  <2>2. /\ ld'[l].pc = "merge" /\ ld'[l].nodes = me.nodes /\ ld'[l].links = me.links
        /\ ld'[l].todoNodes = me.nodes /\ ld'[l].todoLinks = links
    BY <1>0, <2>1 DEF Loader
  <2>3. QED  BY <2>2 DEF LoadProgress
<1>5. CASE LoadMergeNode(l)
  <2>1. PICK n \in me.todoNodes :
          MergeNode(n, me.nodeRev) /\ ld' = [ld EXCEPT ![l].todoNodes = @ \ {n}]
    BY <1>5 DEF LoadMergeNode
  <2>2. ld'[l] = [me EXCEPT !.todoNodes = @ \ {n}] /\ me.pc = "merge"
    BY <1>0, <1>5, <2>1 DEF LoadMergeNode
  <2>3. /\ ld'[l].pc = "merge" /\ ld'[l].nodes = me.nodes /\ ld'[l].links = me.links
        /\ ld'[l].nodeRev = me.nodeRev /\ ld'[l].linkRev = me.linkRev
        /\ ld'[l].todoNodes = me.todoNodes \ {n} /\ ld'[l].todoLinks = me.todoLinks
    BY <1>0, <2>2 DEF Loader
  <2>4. /\ stored' = stored \cup {n} /\ edges' = edges
        /\ \A m \in Ids : row'[m] = IF m = n THEN FreshRow(me.nodeRev) ELSE row[m]
    BY <1>0, <2>1 DEF MergeNode, DbTypeOK
  <2>5. me.nodes \subseteq Ids
    BY <1>0 DEF Loader
  <2>6. QED  BY <2>2, <2>3, <2>4, <2>5 DEF LoadProgress
<1>6. CASE LoadMergeEdge(l)
  <2>1. PICK e \in me.todoLinks :
          /\ MergeEdge(Stamped(e, me.linkRev))
          /\ ld' = [ld EXCEPT ![l].todoLinks = @ \ {e}]
    BY <1>6 DEF LoadMergeEdge
  <2>2. ld'[l] = [me EXCEPT !.todoLinks = @ \ {e}] /\ me.pc = "merge" /\ me.todoNodes = {}
    BY <1>0, <1>6, <2>1 DEF LoadMergeEdge
  <2>3. /\ ld'[l].pc = "merge" /\ ld'[l].nodes = me.nodes /\ ld'[l].links = me.links
        /\ ld'[l].nodeRev = me.nodeRev /\ ld'[l].linkRev = me.linkRev
        /\ ld'[l].todoNodes = me.todoNodes /\ ld'[l].todoLinks = me.todoLinks \ {e}
    BY <1>0, <2>2 DEF Loader
  <2>4. e \in links /\ links \subseteq Relation /\ me.nodes \subseteq stored
    BY <1>0, <2>2 DEF LoadProgress, Insertable, Loader
  <2>5. /\ UNCHANGED <<stored, row, meta>>
        /\ edges' = {f \in edges : ~SameRelation(Stamped(e, me.linkRev), f)}
                       \cup {Stamped(e, me.linkRev)}
    BY <2>1, <2>4 DEF MergeEdge, Stamped, Insertable
  <2>6. ASSUME NEW d \in links \ (me.todoLinks \ {e})
        PROVE  {f \in edges' : SameRelation(d, f)} = {Stamped(d, me.linkRev)}
    <3>1. CASE d = e
      BY <2>5, <3>1 DEF SameRelation, Stamped
    <3>2. CASE d # e
      <4>1. ~(d.kind = e.kind /\ d.from = e.from /\ d.to = e.to)
        BY <2>4, <2>6, <3>2 DEF Relation
      <4>2. {f \in edges' : SameRelation(d, f)} = {f \in edges : SameRelation(d, f)}
        BY <2>5, <4>1 DEF SameRelation, Stamped
      <4>3. QED  BY <2>2, <2>6, <3>2, <4>2 DEF LoadProgress
    <3>3. QED  BY <3>1, <3>2
  <2>7. QED  BY <2>2, <2>3, <2>5, <2>6 DEF LoadProgress
<1>7. CASE LoadSourceManifest(l)
  <2>1. ld'[l] = [me EXCEPT !.pc = "runtime"] /\ me.pc = "merge" /\ me.todoNodes = {} /\ me.todoLinks = {}
    BY <1>0, <1>7 DEF LoadSourceManifest
  <2>2. /\ ld'[l].pc = "runtime" /\ ld'[l].nodes = me.nodes /\ ld'[l].links = me.links
        /\ ld'[l].nodeRev = me.nodeRev /\ ld'[l].linkRev = me.linkRev /\ ld'[l].source = me.source
        /\ ld'[l].todoNodes = me.todoNodes /\ ld'[l].todoLinks = me.todoLinks
    BY <1>0, <2>1 DEF Loader
  <2>3. UNCHANGED <<stored, row, edges>> /\ meta'.source = me.source
    BY <1>0, <1>7 DEF LoadSourceManifest, WriteGraphMeta, DbTypeOK, Meta
  <2>4. QED  BY <2>1, <2>2, <2>3 DEF LoadProgress
<1>8. CASE LoadClearRuntime(l)
  <2>1. ld'[l] = [me EXCEPT !.pc = "close"] /\ me.pc = "runtime"
    BY <1>0, <1>8 DEF LoadClearRuntime
  <2>2. /\ ld'[l].pc = "close" /\ ld'[l].nodes = me.nodes /\ ld'[l].links = me.links
        /\ ld'[l].nodeRev = me.nodeRev /\ ld'[l].linkRev = me.linkRev /\ ld'[l].source = me.source
        /\ ld'[l].todoNodes = me.todoNodes /\ ld'[l].todoLinks = me.todoLinks
    BY <1>0, <2>1 DEF Loader
  <2>3. UNCHANGED <<stored, row, edges>> /\ meta'.source = meta.source /\ meta'.runtime = None
    BY <1>0, <1>8 DEF LoadClearRuntime, ClearGraphMeta, WriteGraphMeta, DbTypeOK, Meta
  <2>4. QED  BY <2>1, <2>2, <2>3 DEF LoadProgress
<1>9. QED  BY <1>1, <1>2, <1>3, <1>4, <1>5, <1>6, <1>7, <1>8 DEF LoadNext, LoadWork

(***************************************************************************)
(* One cluster: the nodes the partition names, then the manifest.           *)
(***************************************************************************)
LEMMA ClusterAdvances ==
  ASSUME IInv, EdgesAnchored, ClusterProgress,
         \/ ClusterOpen \/ ClusterDetect \/ ClusterWriteNode \/ ClusterManifest
         \/ ClusterClose \/ ClusterCrash
  PROVE  ClusterProgress'
<1>0. DbTypeOK /\ cl \in ClusterState
  BY DEF IInv, TypeOK, ClusterTypeOK, StoreTypeOK
<1>1. CASE ClusterOpen \/ ClusterClose \/ ClusterCrash
  <2>1. cl'.pc \in {"idle", "read"}
    BY <1>1 DEF ClusterOpen, ClusterClose, ClusterCrash, IdleClusterer
  <2>2. QED  BY <2>1 DEF ClusterProgress
<1>2. CASE ClusterDetect
  <2>0. PICK k \in 0..Cardinality(Ids) : \E f \in Partitions(Touched(edges), k) :
          \E labels \in AutoLabels(f, k) : Detected(f, labels)
    BY <1>2 DEF ClusterDetect, Detected
  <2>a. PICK f \in Partitions(Touched(edges), k) : \E labels \in AutoLabels(f, k) : Detected(f, labels)
    BY <2>0
  <2>1. PICK labels \in AutoLabels(f, k) : Detected(f, labels)
    BY <2>a
  <2>2. /\ f \in [Touched(edges) -> 0..(k - 1)]
        /\ \A i \in 0..(k - 1) : MembersOf(f, i) # {}
    BY DEF Partitions
  <2>3. Touched(edges) \subseteq stored
    BY DEF EdgesAnchored, Touched, Weighted
  <2>4. /\ DOMAIN labels = 0..(k - 1)
        /\ \A i, j \in 0..(k - 1) : labels[i] = labels[j] => i = j
    <3>1. Touched(edges) \in SUBSET Ids
      BY <1>0, TouchedType DEF DbTypeOK
    <3>2. QED  BY <3>1, AutoLabelsType
  <2>6. /\ cl'.pc = "nodes" /\ cl'.todo = Touched(edges) /\ cl'.communityOf = f
        /\ cl'.labels = labels /\ UNCHANGED stored
    BY <1>2, <2>1, <2>3 DEF ClusterDetect, Detected, dbVars
  <2>7. QED  BY <2>2, <2>3, <2>4, <2>6 DEF ClusterProgress
<1>3. CASE ClusterWriteNode
  <2>1. PICK n \in cl.todo :
          /\ WriteNodeMetadata(n, [cl.rows[n] EXCEPT !.community = cl.communityOf[n],
                                     !.label = cl.labels[cl.communityOf[n]]])
          /\ cl' = [cl EXCEPT !.todo = @ \ {n}]
    BY <1>3 DEF ClusterWriteNode
  <2>2. /\ cl.pc = "nodes" /\ cl'.pc = "nodes" /\ cl'.communityOf = cl.communityOf
        /\ cl'.labels = cl.labels /\ cl'.todo = cl.todo \ {n}
    BY <1>0, <1>3, <2>1 DEF ClusterWriteNode, ClusterState
  <2>3. n \in stored /\ n \in Ids /\ cl.rows[n] \in Row /\ DOMAIN cl.communityOf \subseteq Ids
    BY <1>0, <2>2 DEF ClusterProgress, ClusterState, DbTypeOK
  <2>4. /\ row'[n].community = cl.communityOf[n] /\ row'[n].label = cl.labels[cl.communityOf[n]]
        /\ UNCHANGED <<stored, meta>>
        /\ \A m \in Ids \ {n} : row'[m] = row[m]
    BY <1>0, <2>1, <2>3 DEF WriteNodeMetadata, DbTypeOK, Row
  <2>5. QED  BY <2>2, <2>3, <2>4 DEF ClusterProgress
<1>4. CASE ClusterManifest
  <2>1. /\ cl.pc = "nodes" /\ cl.todo = {} /\ cl'.pc = "close" /\ cl'.todo = cl.todo
        /\ cl'.communityOf = cl.communityOf /\ cl'.labels = cl.labels
        /\ UNCHANGED <<stored, row>> /\ meta'.clustering = cl.labels
    BY <1>0, <1>4 DEF ClusterManifest, WriteGraphMeta, ClusterState, DbTypeOK, Meta
  <2>2. QED  BY <2>1 DEF ClusterProgress
<1>5. QED  BY <1>1, <1>2, <1>3, <1>4

-----------------------------------------------------------------------------
LEMMA InitProgress == Init => Progress
<1> SUFFICES ASSUME Init PROVE Progress
  OBVIOUS
<1>1. EdgesAnchored
  <2>1. CASE ColdInit
    BY <2>1 DEF ColdInit, StoreInit, EdgesAnchored
  <2>2. ASSUME NEW r \in Warm, WarmInit(r) PROVE EdgesAnchored
    BY <2>2 DEF WarmInit, EdgesAnchored, Insertable, Stamped
  <2>3. QED  BY <2>1, <2>2 DEF Init
<1>2. EnrichProgress /\ ClusterProgress /\ \A l \in Loaders : LoadProgress(l)
  BY DEF Init, EnrichInit, IdleEnricher, EnrichProgress, ClusterInit, IdleClusterer, ClusterProgress,
     LoadInit, IdleLoader, Idle, LoadProgress
<1>3. QED  BY <1>1, <1>2 DEF Progress

LEMMA NextProgress ==
  ASSUME IInv, Progress, [Next]_vars PROVE Progress'
<1>0. LockHeld /\ EdgesAnchored /\ EnrichProgress /\ ClusterProgress /\ \A l \in Loaders : LoadProgress(l)
  BY DEF IInv, SessionsFresh, Progress
<1>1. EdgesAnchored'
  BY <1>0, NextAnchored
<1>2. CASE ExtractNext \/ UNCHANGED vars
  <2>1. UNCHANGED <<dbVars, en, cl, ld>>
    BY <1>2 DEF ExtractNext, vars
  <2>2. QED  BY <1>0, <1>1, <2>1, EnrichWaits, ClusterWaits, LoadWaits DEF Progress
<1>3. ASSUME NEW l \in Loaders, LoadNext(l) PROVE Progress'
  <2>1. UNCHANGED <<en, cl>> /\ (UNCHANGED dbVars \/ lock = l)
    BY <1>0, <1>3, LoadWritesOpen DEF LoadNext
  <2>2. EnrichProgress' /\ ClusterProgress'
    BY <1>0, <2>1, Distinct, EnrichWaits, ClusterWaits
  <2>3. ASSUME NEW m \in Loaders, m # l PROVE LoadProgress(m)'
    <3>1. ld'[m] = ld[m]
      BY <1>3, <2>3 DEF IInv, TypeOK, LoadTypeOK, LoadNext, LoadWork, LoadReadNodes, LoadReadEdges,
         LoadReadSource, LoadOpen, LoadOpenFails, LoadMergeNode, LoadMergeEdge, LoadSourceManifest,
         LoadClearRuntime, LoadClose, LoadCrash
    <3>2. QED  BY <1>0, <2>1, <2>3, <3>1, LoadWaits
  <2>4. LoadProgress(l)'
    BY <1>0, <1>3, LoadAdvances
  <2>5. QED  BY <1>1, <2>2, <2>3, <2>4 DEF Progress
<1>4. CASE EnrichNext
  <2>1. UNCHANGED <<cl, ld>> /\ (UNCHANGED dbVars \/ lock = Enricher)
    BY <1>0, <1>4, EnrichWritesOpen DEF EnrichNext
  <2>2. ClusterProgress' /\ \A l \in Loaders : LoadProgress(l)'
    BY <1>0, <2>1, Distinct, ClusterWaits, LoadWaits
  <2>3. QED  BY <1>0, <1>1, <1>4, <2>2, EnrichAdvances DEF Progress
<1>5. CASE ClusterNext
  <2>1. UNCHANGED <<en, ld>> /\ (UNCHANGED dbVars \/ lock \in {Clusterer, Renamer})
    BY <1>0, <1>5, ClusterWritesOpen DEF ClusterNext
  <2>2. EnrichProgress' /\ \A l \in Loaders : LoadProgress(l)'
    BY <1>0, <2>1, Distinct, EnrichWaits, LoadWaits
  <2>3. CASE \/ \E file \in LabelsFile : RenameOpen(file)
             \/ RenamePlan \/ RenameNothing \/ RenameWriteNode \/ RenameManifest
             \/ RenameClose \/ RenameCrash
    <3>1. UNCHANGED cl /\ (UNCHANGED dbVars \/ lock = Renamer)
      BY <1>0, <2>3 DEF RenameOpen, RenamePlan, RenameNothing, RenameWriteNode, RenameManifest,
         RenameClose, RenameCrash, LockHeld
    <3>2. QED  BY <1>0, <1>1, <2>2, <3>1, Distinct, ClusterWaits DEF Progress
  <2>4. CASE \/ ClusterOpen \/ ClusterDetect \/ ClusterWriteNode \/ ClusterManifest
             \/ ClusterClose \/ ClusterCrash
    BY <1>0, <1>1, <2>2, <2>4, ClusterAdvances DEF Progress
  <2>5. QED  BY <1>5, <2>3, <2>4 DEF ClusterNext, ClusterWork
<1>6. QED  BY <1>2, <1>3, <1>4, <1>5 DEF Next

LEMMA ProgressHolds == Spec => [](IInv /\ Progress)
<1>1. Init => IInv /\ Progress
  BY InitType, InitFresh, InitProgress DEF IInv
<1>2. (IInv /\ Progress) /\ [Next]_vars => (IInv /\ Progress)'
  BY NextType, NextFresh, NextProgress DEF IInv
<1>3. QED  BY <1>1, <1>2, PTL DEF Spec

(***************************************************************************)
(* RuntimeEnricher: when an enrich is through, the database holds the       *)
(* enrichment of its profile and nothing of an earlier one in its edges.    *)
(***************************************************************************)
THEOREM EnrichCompletes == Spec => []EnrichRepairs
<1>1. IInv /\ Progress => EnrichRepairs
  BY DEF Progress, EnrichProgress, EnrichRepairs, EnrichDone, Enriched
<1>2. QED  BY <1>1, ProgressHolds, PTL

(***************************************************************************)
(* GraphLoader: when a load is through, every node and edge it read is in   *)
(* the database as it was read, whatever was there.                         *)
(***************************************************************************)
THEOREM LoadCompletes == Spec => []LoadRepairs
<1>1. IInv /\ Progress => LoadRepairs
  BY DEF Progress, LoadProgress, LoadRepairs
<1>2. QED  BY <1>1, ProgressHolds, PTL

(***************************************************************************)
(* GraphClusterer: when a cluster is through, rows and manifest agree, and  *)
(* a label stands for one community.                                        *)
(***************************************************************************)
THEOREM ClusterCompletes == Spec => []ClusterRepairs
<1>1. IInv /\ Progress => ClusterRepairs
  BY DEF Progress, ClusterProgress, ClusterRepairs
<1>2. QED  BY <1>1, ProgressHolds, PTL

-----------------------------------------------------------------------------
(* The commands implement AtomicCommands.  Sessions is the strengthening: it *)
(* says of each command how far the database is from the one it opened.      *)

\* A row is its four columns, a manifest table its three rows.
LEMMA RowColumns ==
  ASSUME NEW v \in Row, NEW w \in Row,
         v.rev = w.rev, v.runtime = w.runtime, v.community = w.community, v.label = w.label
  PROVE  v = w
BY DEF Row

LEMMA MetaRows ==
  ASSUME NEW v \in Meta, NEW w \in Meta,
         v.source = w.source, v.runtime = w.runtime, v.clustering = w.clustering
  PROVE  v = w
BY DEF Meta

\* A metadata write that keeps the revision replaces the row.
LEMMA RowReplaced ==
  ASSUME DbTypeOK, NEW n \in stored, NEW m \in Row, m.rev = row[n].rev, WriteNodeMetadata(n, m)
  PROVE  row' = [row EXCEPT ![n] = m] /\ UNCHANGED <<stored, edges, meta>>
<1>1. [m EXCEPT !.rev = row[n].rev] = m
  BY DEF Row
<1>2. QED  BY <1>1 DEF WriteNodeMetadata

-----------------------------------------------------------------------------
\* What is on disk, and what a loader took from there, are lines of one revision.
LEMMA ExtractKeepsFiles ==
  ASSUME IInv, FilesTrue, ExtractNext PROVE FilesTrue'
<1> USE DEF FilesTrue
<1>0. /\ ex.pc # Idle => ex.rev \in Revs
      /\ ex \in Extractor /\ tree \in Revs /\ GitRevs \subseteq Revs
  BY GraphAssumption DEF IInv, SessionsFresh, WorkKnown, TypeOK, ExtractTypeOK
<1>1. CASE ExtractParse \/ (\E r \in Revs : Checkout(r)) \/ ExtractCrash
  BY <1>1 DEF ExtractParse, Checkout, ExtractCrash, IdleExtractor, fileVars
<1>2. CASE ExtractDetect
  BY <1>0, <1>2 DEF ExtractDetect, SourceOf, fileVars, Extractor
<1>3. CASE ExtractTruncateNodes
  BY <1>0, <1>3 DEF ExtractTruncateNodes, ExtractStep, Extractor, Idle
<1>4. CASE ExtractFlushNodes
  BY <1>0, <1>4 DEF ExtractFlushNodes, ExtractStep, Extractor, Idle
<1>5. CASE ExtractTruncateEdges
  BY <1>0, <1>5 DEF ExtractTruncateEdges, ExtractStep, Extractor, Idle
<1>6. CASE ExtractFlushEdges
  BY <1>0, <1>6 DEF ExtractFlushEdges, ExtractStep, Extractor, Idle
<1>7. CASE ExtractSkipSource \/ ExtractTruncateSource \/ ExtractFlushSource
  BY <1>0, <1>7 DEF ExtractSkipSource, ExtractTruncateSource, ExtractFlushSource, ExtractStep,
     IdleExtractor, Extractor, fileVars
<1>8. QED
  BY <1>1, <1>2, <1>3, <1>4, <1>5, <1>6, <1>7 DEF ExtractNext, ExtractWork

LEMMA LoadKeepsInput ==
  ASSUME IInv, FilesTrue, NEW l \in Loaders, InputTrue(l), LoadNext(l) PROVE InputTrue(l)'
<1> DEFINE me == ld[l]
<1>0. ld \in [Loaders -> Loader] /\ me \in Loader
  BY DEF IInv, TypeOK, LoadTypeOK
<1>1. CASE ld'[l] = IdleLoader
  BY <1>1 DEF InputTrue, IdleLoader
<1>2. CASE LoadReadNodes(l)
  <2>1. /\ ld'[l].pc = "readEdges" /\ ld'[l].nodes = nodesFile.lines /\ ld'[l].nodeRev = nodesFile.rev
        /\ ld'[l].source = None /\ nodesFile.ok
    BY <1>0, <1>2 DEF LoadReadNodes, IdleLoader
  <2>2. QED  BY <2>1 DEF InputTrue, FilesTrue
<1>3. CASE LoadReadEdges(l) /\ edgesFile.ok
  <2>1. /\ ld'[l].pc = "readSource" /\ ld'[l].nodes = me.nodes /\ ld'[l].nodeRev = me.nodeRev
        /\ ld'[l].links = edgesFile.lines /\ ld'[l].linkRev = edgesFile.rev
        /\ ld'[l].source = me.source /\ me.pc = "readEdges"
    BY <1>0, <1>3 DEF LoadReadEdges, Loader
  <2>2. QED  BY <1>3, <2>1 DEF InputTrue, FilesTrue, Idle
<1>4. CASE LoadReadSource(l)
  <2>1. /\ ld'[l].pc = "open" /\ ld'[l].nodes = me.nodes /\ ld'[l].nodeRev = me.nodeRev
        /\ ld'[l].links = me.links /\ ld'[l].linkRev = me.linkRev
        /\ ld'[l].source = sourceFile /\ me.pc = "readSource"
    BY <1>0, <1>4 DEF LoadReadSource, Loader
  <2>2. QED  BY <2>1 DEF InputTrue, FilesTrue, Idle
<1>5. CASE /\ me.pc \in {"open", "merge", "runtime"}
           /\ \E pc \in LoadPc, nodes \in SUBSET Ids, links \in SUBSET Relation :
                ld' = [ld EXCEPT ![l] = [me EXCEPT !.pc = pc, !.todoNodes = nodes, !.todoLinks = links]]
  <2>1. /\ ld'[l].nodes = me.nodes /\ ld'[l].nodeRev = me.nodeRev
        /\ ld'[l].links = me.links /\ ld'[l].linkRev = me.linkRev /\ ld'[l].source = me.source
    BY <1>0, <1>5 DEF Loader
  <2>2. QED  BY <1>5, <2>1 DEF InputTrue, Idle
<1>6. QED
  <2>1. CASE LoadReadEdges(l) \/ LoadOpenFails(l) \/ LoadClose(l) \/ LoadCrash(l)
    BY <1>0, <1>1, <1>3, <2>1 DEF LoadReadEdges, LoadOpenFails, LoadClose, LoadCrash
  <2>2. CASE LoadOpen(l)
    <3>1. ld' = [ld EXCEPT ![l] = [me EXCEPT !.pc = "merge", !.todoNodes = me.nodes,
                                             !.todoLinks = Insertable(me.links, me.nodes)]]
      BY <1>0, <2>2 DEF LoadOpen
    <3>2. Insertable(me.links, me.nodes) \in SUBSET Relation /\ me.nodes \in SUBSET Ids
      BY <1>0 DEF Insertable, Loader
    <3>3. QED  BY <1>5, <2>2, <3>1, <3>2 DEF LoadOpen, LoadPc
  <2>3. CASE LoadMergeNode(l) \/ LoadMergeEdge(l) \/ LoadSourceManifest(l) \/ LoadClearRuntime(l)
    <3>1. /\ me.todoNodes \in SUBSET Ids /\ me.todoLinks \in SUBSET Relation
          /\ me.pc \in {"merge", "runtime"}
      BY <1>0, <2>3 DEF Loader, LoadMergeNode, LoadMergeEdge, LoadSourceManifest, LoadClearRuntime
    <3>2. ld'[l].nodes = me.nodes /\ ld'[l].nodeRev = me.nodeRev
          /\ ld'[l].links = me.links /\ ld'[l].linkRev = me.linkRev /\ ld'[l].source = me.source
      BY <1>0, <2>3 DEF Loader, LoadMergeNode, LoadMergeEdge, LoadSourceManifest, LoadClearRuntime
    <3>3. QED  BY <3>1, <3>2 DEF InputTrue, Idle
  <2>4. QED  BY <1>2, <1>4, <2>1, <2>2, <2>3, LoadNext(l) DEF LoadNext, LoadWork

-----------------------------------------------------------------------------
\* before changes only when the database is opened, and then the tables do not.
BeforeStep == before' = IF lock = None /\ lock' # None THEN Database ELSE before

LEMMA RelationPoint ==
  ASSUME NEW d \in Relation, NEW e \in Relation, SameRelation(d, e) PROVE d = e
BY DEF SameRelation, Relation

\* What a load has done to the database since it opened it.
LEMMA LoadKeepsSession ==
  ASSUME IInv, BeforeTypeOK, NEW l \in Loaders, LoadProgress(l), LoadSession(l), LoadNext(l),
         BeforeStep
  PROVE  LoadSession(l)'
<1> DEFINE me == ld[l]
           links == Insertable(me.links, me.nodes)
<1>0. /\ DbTypeOK /\ DbTypeOK' /\ ld \in [Loaders -> Loader] /\ me \in Loader
      /\ me.pc \in {"merge", "runtime", "close"} => lock = l
      /\ l # None
  <2>1. DbTypeOK'
    BY NextType DEF Next, TypeOK, StoreTypeOK
  <2>2. QED  BY <2>1, Distinct DEF IInv, TypeOK, LoadTypeOK, StoreTypeOK, SessionsFresh, LockHeld
<1>1. CASE /\ ~LoadOpen(l) /\ ~LoadMergeNode(l) /\ ~LoadMergeEdge(l)
           /\ ~LoadSourceManifest(l) /\ ~LoadClearRuntime(l)
  <2>1. CASE LoadReadNodes(l)
    <3>1. ld'[l].pc = "readEdges"
      BY <1>0, <2>1 DEF LoadReadNodes, IdleLoader
    <3>2. QED  BY <3>1 DEF LoadSession
  <2>2. CASE LoadReadEdges(l) \/ LoadReadSource(l)
    <3>1. LoadReadEdges(l) => ld'[l].pc \in {Idle, "readSource"}
      BY <1>0 DEF LoadReadEdges, IdleLoader, Loader
    <3>2. LoadReadSource(l) => ld'[l].pc = "open"
      BY <1>0 DEF LoadReadSource, Loader
    <3>3. QED  BY <2>2, <3>1, <3>2 DEF LoadSession, Idle
  <2>3. CASE LoadOpenFails(l) \/ LoadClose(l) \/ LoadCrash(l)
    BY <1>0, <2>3 DEF LoadOpenFails, LoadClose, LoadCrash, IdleLoader, Idle, LoadSession
  <2>4. QED  BY <1>1, <2>1, <2>2, <2>3 DEF LoadNext, LoadWork
<1>2. CASE LoadOpen(l)
  <2>1. ld'[l] = [me EXCEPT !.pc = "merge", !.todoNodes = me.nodes, !.todoLinks = links]
    BY <1>0, <1>2 DEF LoadOpen
  <2>2. /\ ld'[l].pc = "merge" /\ ld'[l].nodes = me.nodes /\ ld'[l].links = me.links
        /\ ld'[l].todoNodes = me.nodes /\ ld'[l].todoLinks = links
    BY <1>0, <2>1 DEF Loader
  <2>3. /\ before'.stored = stored /\ before'.row = row /\ before'.edges = edges
        /\ before'.meta = meta /\ UNCHANGED dbVars
    BY <1>0, <1>2 DEF LoadOpen, OpenStore, BeforeStep, Database
  <2>4. row = [n \in Ids |-> row[n]]
    BY <1>0 DEF DbTypeOK
  <2>5. QED  BY <2>2, <2>3, <2>4 DEF LoadSession, dbVars
<1>3. CASE LoadMergeNode(l)
  <2>1. PICK n \in me.todoNodes :
          MergeNode(n, me.nodeRev) /\ ld' = [ld EXCEPT ![l].todoNodes = @ \ {n}]
    BY <1>3 DEF LoadMergeNode
  <2>2. /\ me.pc = "merge" /\ ld'[l].pc = "merge" /\ ld'[l].nodes = me.nodes
        /\ ld'[l].links = me.links /\ ld'[l].nodeRev = me.nodeRev /\ ld'[l].linkRev = me.linkRev
        /\ ld'[l].todoNodes = me.todoNodes \ {n} /\ ld'[l].todoLinks = me.todoLinks
        /\ before' = before
    BY <1>0, <1>3, <2>1 DEF LoadMergeNode, Loader, BeforeStep
  <2>3. n \in me.nodes /\ me.nodes \subseteq Ids /\ links \ me.todoLinks = {}
    BY <1>0, <2>2 DEF LoadProgress, LoadSession, Loader
  <2>4. me.nodes \ ld'[l].todoNodes = (me.nodes \ me.todoNodes) \cup {n}
    BY <2>2, <2>3
  <2>5. stored' = stored \cup {n} /\ row' = [row EXCEPT ![n] = FreshRow(me.nodeRev)]
        /\ UNCHANGED <<edges, meta>>
    BY <2>1 DEF MergeNode
  <2>6. row' = [m \in Ids |-> IF m \in me.nodes \ ld'[l].todoNodes
                              THEN FreshRow(me.nodeRev) ELSE before.row[m]]
    BY <1>0, <2>2, <2>4, <2>5 DEF LoadSession, DbTypeOK
  <2>7. links \ ld'[l].todoLinks = {} /\ stored' = before.stored \cup (me.nodes \ ld'[l].todoNodes)
    BY <2>2, <2>3, <2>4, <2>5 DEF LoadSession
  <2>8. edges' = edges /\ meta' = before.meta
    BY <2>2, <2>5 DEF LoadSession
  <2>9. QED  BY <2>2, <2>3, <2>6, <2>7, <2>8 DEF LoadSession
<1>4. CASE LoadMergeEdge(l)
  <2>1. PICK e \in me.todoLinks :
          /\ MergeEdge(Stamped(e, me.linkRev))
          /\ ld' = [ld EXCEPT ![l].todoLinks = @ \ {e}]
    BY <1>4 DEF LoadMergeEdge
  <2>2. /\ me.pc = "merge" /\ ld'[l].pc = "merge" /\ ld'[l].nodes = me.nodes
        /\ ld'[l].links = me.links /\ ld'[l].nodeRev = me.nodeRev /\ ld'[l].linkRev = me.linkRev
        /\ ld'[l].todoNodes = me.todoNodes /\ ld'[l].todoLinks = me.todoLinks \ {e}
        /\ me.todoNodes = {} /\ before' = before
    BY <1>0, <1>4, <2>1 DEF LoadMergeEdge, Loader, BeforeStep
  <2>3. e \in links /\ links \subseteq Relation /\ me.nodes \subseteq stored
    BY <1>0, <2>2 DEF LoadProgress, Insertable, Loader
  <2>4. /\ UNCHANGED <<stored, row, meta>>
        /\ edges' = {f \in edges : ~SameRelation(Stamped(e, me.linkRev), f)}
                       \cup {Stamped(e, me.linkRev)}
    BY <2>1, <2>3 DEF MergeEdge, Stamped, Insertable
  <2> DEFINE new == links \ me.todoLinks
             made(E) == {f \in before.edges : \A d \in E : ~SameRelation(d, f)}
                          \cup {Stamped(d, me.linkRev) : d \in E}
  <2>5. edges = made(new) /\ e \notin new /\ new \cup {e} \subseteq Relation
    BY <2>2, <2>3 DEF LoadSession
  <2>6. edges' = made(new \cup {e})
    <3> HIDE DEF new
    <3>1. \A d \in new : ~SameRelation(Stamped(e, me.linkRev), Stamped(d, me.linkRev))
      BY <2>5, RelationPoint DEF SameRelation, Stamped
    <3>2. \A f : SameRelation(Stamped(e, me.linkRev), f) <=> SameRelation(e, f)
      BY DEF SameRelation, Stamped
    <3>3. QED  BY <2>4, <2>5, <3>1, <3>2
  <2>7. links \ ld'[l].todoLinks = new \cup {e}
    BY <2>2, <2>3
  <2>8. QED  BY <2>2, <2>4, <2>6, <2>7 DEF LoadSession
<1>5. CASE LoadSourceManifest(l) \/ LoadClearRuntime(l)
  <2>1. /\ ld'[l].nodes = me.nodes /\ ld'[l].links = me.links /\ ld'[l].nodeRev = me.nodeRev
        /\ ld'[l].linkRev = me.linkRev /\ ld'[l].todoNodes = me.todoNodes
        /\ ld'[l].todoLinks = me.todoLinks /\ ld'[l].source = me.source
        /\ before' = before /\ UNCHANGED <<stored, row, edges>>
        /\ me.pc \in {"merge", "runtime"} /\ ld'[l].pc \in {"runtime", "close"}
    BY <1>0, <1>5 DEF LoadSourceManifest, LoadClearRuntime, ClearGraphMeta, WriteGraphMeta, Loader,
       BeforeStep
  <2>2. ld'[l].pc = "runtime" => meta' = [before.meta EXCEPT !.source = me.source]
    BY <1>0, <1>5, <2>1 DEF LoadSourceManifest, LoadClearRuntime, WriteGraphMeta, Loader, LoadSession
  <2>3. ld'[l].pc = "close" => meta' = [before.meta EXCEPT !.source = me.source, !.runtime = None]
    <3>1. CASE LoadSourceManifest(l)
      BY <1>0, <3>1 DEF LoadSourceManifest, Loader
    <3>2. CASE LoadClearRuntime(l)
      <4>1. meta = [before.meta EXCEPT !.source = me.source] /\ meta' = [meta EXCEPT !.runtime = None]
        BY <3>2 DEF LoadClearRuntime, ClearGraphMeta, WriteGraphMeta, LoadSession
      <4>2. before.meta \in Meta
        BY DEF BeforeTypeOK
      <4>3. QED  BY <4>1, <4>2 DEF Meta
    <3>3. QED  BY <1>5, <3>1, <3>2
  <2>4. QED  BY <2>1, <2>2, <2>3 DEF LoadSession
<1>6. QED  BY <1>1, <1>2, <1>3, <1>4, <1>5 DEF LoadNext, LoadWork

\* What an enrich has done to the database since it opened it.
LEMMA EnrichKeepsSession ==
  ASSUME IInv, BeforeTypeOK, EnrichProgress, EnrichSession, EnrichNext, BeforeStep
  PROVE  EnrichSession'
<1> DEFINE all == Attributed(en.profile, stored)
<1>0. /\ DbTypeOK /\ DbTypeOK' /\ en \in EnrichState
      /\ en.pc # "idle" => lock = Enricher /\ en.profile \in Profiles
      /\ Enricher # None /\ stored \in SUBSET Ids
  <2>1. DbTypeOK'
    BY NextType DEF Next, TypeOK, StoreTypeOK
  <2>2. QED
    BY <2>1, Distinct DEF IInv, TypeOK, EnrichTypeOK, StoreTypeOK, SessionsFresh, LockHeld,
       WorkKnown, DbTypeOK
<1>1. CASE EnrichClose \/ EnrichRejects \/ EnrichCrash
  BY <1>1 DEF EnrichClose, EnrichRejects, EnrichCrash, IdleEnricher, EnrichSession
<1>2. CASE \E p \in Profiles : EnrichOpen(p)
  <2>1. en'.pc = "read" /\ before' = Database /\ UNCHANGED dbVars
    BY <1>0, <1>2 DEF EnrichOpen, OpenStore, IdleEnricher, BeforeStep
  <2>2. QED  BY <2>1 DEF EnrichSession, Database, dbVars
<1>3. CASE EnrichReadNodes
  <2>1. /\ en'.pc = "nodes" /\ en'.profile = en.profile /\ en'.rows = row /\ en'.todoNodes = all
        /\ UNCHANGED dbVars /\ before' = before /\ Database = before
    BY <1>0, <1>3 DEF EnrichReadNodes, EnrichState, BeforeStep, EnrichSession
  <2>2. row = [n \in Ids |-> row[n]]
    BY <1>0 DEF DbTypeOK
  <2>3. /\ before.row = row /\ before.stored = stored /\ before.edges = edges /\ before.meta = meta
    BY <2>1 DEF Database
  <2>4. QED  BY <2>1, <2>2, <2>3 DEF EnrichSession, dbVars
<1>4. CASE EnrichWriteNode
  <2>1. PICK n \in en.todoNodes :
          /\ WriteNodeMetadata(n, [en.rows[n] EXCEPT !.runtime = en.profile])
          /\ en' = [en EXCEPT !.todoNodes = @ \ {n}]
    BY <1>4 DEF EnrichWriteNode
  <2> DEFINE m == [en.rows[n] EXCEPT !.runtime = en.profile]
  <2>2. /\ en.pc = "nodes" /\ en'.pc = "nodes" /\ en'.profile = en.profile /\ en'.rows = en.rows
        /\ en'.todoNodes = en.todoNodes \ {n} /\ before' = before
        /\ en.rows = before.row /\ stored = before.stored
        /\ edges = before.edges /\ meta = before.meta
    BY <1>0, <1>4, <2>1 DEF EnrichWriteNode, EnrichState, BeforeStep, EnrichSession
  <2>3. n \in all /\ n \in stored /\ en.rows[n] \in Row /\ row[n] = en.rows[n]
    BY <1>0, <2>2, AttributedType DEF EnrichProgress, EnrichState, EnrichSession
  <2>4. m \in Row /\ m.rev = row[n].rev
    BY <1>0, <2>2, <2>3 DEF Row
  <2>5. row' = [row EXCEPT ![n] = m] /\ UNCHANGED <<stored, edges, meta>>
    BY <1>0, <2>1, <2>3, <2>4, RowReplaced
  <2>6. \A k \in Ids : row[k] = IF k \in all \ en.todoNodes
                                THEN [before.row[k] EXCEPT !.runtime = en.profile]
                                ELSE before.row[k]
    BY <2>2 DEF EnrichSession
  <2>7. row' = [k \in Ids |-> IF k \in all \ en'.todoNodes
                              THEN [before.row[k] EXCEPT !.runtime = en.profile]
                              ELSE before.row[k]]
    BY <1>0, <2>2, <2>3, <2>5, <2>6 DEF DbTypeOK
  <2>8. QED  BY <2>2, <2>5, <2>7 DEF EnrichSession
<1>5. CASE EnrichManifest
  <2>1. /\ en.pc = "nodes" /\ en'.pc = "clear" /\ en'.profile = en.profile /\ en'.rows = en.rows
        /\ en'.todoNodes = en.todoNodes /\ before' = before
        /\ UNCHANGED <<stored, row, edges>> /\ meta' = [meta EXCEPT !.runtime = en.profile]
    BY <1>0, <1>5 DEF EnrichManifest, WriteGraphMeta, EnrichState, BeforeStep
  <2>2. QED  BY <2>1 DEF EnrichSession
<1>6. CASE EnrichClearEdges
  <2>1. /\ en.pc = "clear" /\ en'.pc = "edges" /\ en'.profile = en.profile /\ en'.rows = en.rows
        /\ en'.todoNodes = en.todoNodes /\ before' = before /\ en.ids = stored
        /\ en'.todoEdges = RuntimeEdges(en.profile, stored)
        /\ UNCHANGED <<stored, row, meta>> /\ edges' = {e \in edges : e.kind # RuntimeKind}
    BY <1>0, <1>6 DEF EnrichClearEdges, ClearEdgesByKind, EnrichState, BeforeStep, EnrichProgress
  <2>2. QED  BY <2>1 DEF EnrichSession
<1>7. CASE EnrichWriteEdge
  <2>1. PICK e \in en.todoEdges : MergeEdge(e) /\ en' = [en EXCEPT !.todoEdges = @ \ {e}]
    BY <1>7 DEF EnrichWriteEdge
  <2> DEFINE new == RuntimeEdges(en.profile, stored)
  <2>2. /\ en.pc = "edges" /\ en'.pc = "edges" /\ en'.profile = en.profile /\ en'.rows = en.rows
        /\ en'.todoNodes = en.todoNodes /\ before' = before
        /\ en'.todoEdges = en.todoEdges \ {e} /\ en.todoEdges \subseteq new
    BY <1>0, <1>7, <2>1 DEF EnrichWriteEdge, EnrichState, BeforeStep, EnrichProgress
  <2>3. e \in new /\ e.kind = RuntimeKind /\ {e.from, e.to} \subseteq stored
    BY <1>0, <2>2, RuntimeEdgesType
  <2>4. UNCHANGED <<stored, row, meta>> /\ edges' = {f \in edges : ~SameRelation(e, f)} \cup {e}
    BY <2>1, <2>3 DEF MergeEdge
  <2>5. edges = {f \in before.edges : f.kind # RuntimeKind} \cup (new \ en.todoEdges)
    BY <2>2 DEF EnrichSession
  <2>6. \A f \in new : SameRelation(e, f) => f = e
    BY <1>0, <2>2, <2>3, RuntimeEdgeUnique
  <2>7. edges' = {f \in before.edges : f.kind # RuntimeKind} \cup (new \ en'.todoEdges)
    <3> HIDE DEF new
    <3>1. \A f : SameRelation(e, f) => f.kind = RuntimeKind
      BY <2>3 DEF SameRelation
    <3>2. QED  BY <2>2, <2>3, <2>4, <2>5, <2>6, <3>1
  <2>8. QED  BY <2>2, <2>4, <2>7 DEF EnrichSession
<1>8. QED  BY <1>1, <1>2, <1>3, <1>4, <1>5, <1>6, <1>7 DEF EnrichNext, EnrichWork

\* What a cluster has done to the database since it opened it.
LEMMA ClusterKeepsSession ==
  ASSUME IInv, BeforeTypeOK, EdgesAnchored, ClusterProgress, ClusterSession, BeforeStep,
         \/ ClusterOpen \/ ClusterDetect \/ ClusterWriteNode \/ ClusterManifest
         \/ ClusterClose \/ ClusterCrash,
         DbTypeOK'
  PROVE  ClusterSession'
<1>0. /\ DbTypeOK /\ cl \in ClusterState
      /\ cl.pc # "idle" => lock = Clusterer
      /\ Clusterer # None
  BY Distinct DEF IInv, TypeOK, ClusterTypeOK, StoreTypeOK, SessionsFresh, LockHeld
<1>1. CASE ClusterClose \/ ClusterCrash
  <2>1. cl'.pc = "idle"
    BY <1>1 DEF ClusterClose, ClusterCrash, IdleClusterer
  <2>2. QED  BY <2>1 DEF ClusterSession
<1>2. CASE ClusterOpen
  <2>1. cl'.pc = "read" /\ before' = Database /\ UNCHANGED dbVars
    BY <1>0, <1>2 DEF ClusterOpen, OpenStore, IdleClusterer, BeforeStep
  <2>2. QED  BY <2>1 DEF ClusterSession, Database, dbVars
<1>3. CASE ClusterDetect
  <2>0. PICK k \in 0..Cardinality(Ids) : \E f \in Partitions(Touched(edges), k) :
          \E labels \in AutoLabels(f, k) : Detected(f, labels)
    BY <1>3 DEF ClusterDetect, Detected
  <2>a. PICK f \in Partitions(Touched(edges), k) : \E labels \in AutoLabels(f, k) : Detected(f, labels)
    BY <2>0
  <2>1. PICK labels \in AutoLabels(f, k) : Detected(f, labels)
    BY <2>a
  <2>2. /\ cl'.pc = "nodes" /\ cl'.communityOf = f /\ cl'.labels = labels
        /\ cl'.rows = row /\ cl'.todo = Touched(edges) \cap stored
        /\ UNCHANGED dbVars /\ before' = before /\ Database = before
    BY <1>0, <1>3, <2>1 DEF ClusterDetect, Detected, BeforeStep, ClusterSession
  <2>3. row = [n \in Ids |-> row[n]]
    BY <1>0 DEF DbTypeOK
  <2>4. /\ before.row = row /\ before.stored = stored /\ before.edges = edges /\ before.meta = meta
    BY <2>2 DEF Database
  <2>5. DOMAIN f = Touched(edges) /\ Touched(edges) \subseteq stored
    BY DEF Partitions, EdgesAnchored, Touched, Weighted
  <2>6. \E j \in 0..Cardinality(Ids) : /\ cl'.communityOf \in Partitions(Touched(edges'), j)
                                       /\ cl'.labels \in AutoLabels(cl'.communityOf, j)
    BY <2>2 DEF dbVars
  <2>7. DOMAIN cl'.communityOf \ cl'.todo = {}
    BY <2>2, <2>5
  <2>8. QED  BY <2>2, <2>3, <2>4, <2>6, <2>7 DEF ClusterSession, dbVars
<1>4. CASE ClusterWriteNode
  <2>1. PICK n \in cl.todo :
          /\ WriteNodeMetadata(n, [cl.rows[n] EXCEPT !.community = cl.communityOf[n],
                                     !.label = cl.labels[cl.communityOf[n]]])
          /\ cl' = [cl EXCEPT !.todo = @ \ {n}]
    BY <1>4 DEF ClusterWriteNode
  <2> DEFINE m(k) == [before.row[k] EXCEPT !.community = cl.communityOf[k],
                                           !.label = cl.labels[cl.communityOf[k]]]
  <2>2. /\ cl.pc = "nodes" /\ cl'.pc = "nodes" /\ cl'.communityOf = cl.communityOf
        /\ cl'.labels = cl.labels /\ cl'.todo = cl.todo \ {n} /\ cl'.rows = cl.rows
        /\ before' = before /\ cl.rows = before.row /\ stored = before.stored
        /\ edges = before.edges /\ meta = before.meta
    BY <1>0, <1>4, <2>1 DEF ClusterWriteNode, ClusterState, BeforeStep, ClusterSession
  <2>3. /\ n \in stored /\ n \in Ids /\ cl.rows[n] \in Row /\ n \in DOMAIN cl.communityOf
        /\ row[n] = before.row[n]
    <3>1. n \in stored /\ n \in Ids /\ cl.rows[n] \in Row /\ n \in DOMAIN cl.communityOf
      BY <1>0, <2>2 DEF ClusterProgress, ClusterState, DbTypeOK
    <3>2. QED  BY <2>2, <3>1 DEF ClusterSession
  <2>4. cl.communityOf[n] \in Nat /\ cl.labels[cl.communityOf[n]] \in Labels
    BY <2>2, CommunityType DEF IInv, TypeOK, SessionsFresh
  <2>5. m(n) \in Row /\ m(n).rev = row[n].rev
    BY <2>2, <2>3, <2>4 DEF Row
  <2>6. row' = [row EXCEPT ![n] = m(n)] /\ UNCHANGED <<stored, edges, meta>>
    BY <1>0, <2>1, <2>2, <2>3, <2>5, RowReplaced
  <2>7. \A k \in Ids : row[k] = IF k \in DOMAIN cl.communityOf \ cl.todo THEN m(k) ELSE before.row[k]
    BY <2>2 DEF ClusterSession
  <2>8. row' = [k \in Ids |-> IF k \in DOMAIN cl'.communityOf \ cl'.todo THEN m(k) ELSE before.row[k]]
    <3> HIDE DEF m
    <3>1. QED  BY <1>0, <2>2, <2>3, <2>6, <2>7 DEF DbTypeOK
  <2>9. QED  BY <2>2, <2>6, <2>8 DEF ClusterSession
<1>5. CASE ClusterManifest
  <2>1. /\ cl.pc = "nodes" /\ cl'.pc = "close" /\ cl'.todo = cl.todo /\ cl'.rows = cl.rows
        /\ cl'.communityOf = cl.communityOf /\ cl'.labels = cl.labels /\ before' = before
        /\ UNCHANGED <<stored, row, edges>> /\ meta' = [meta EXCEPT !.clustering = cl.labels]
    BY <1>0, <1>5 DEF ClusterManifest, WriteGraphMeta, ClusterState, BeforeStep
  <2>2. QED  BY <2>1 DEF ClusterSession
<1>6. QED  BY <1>1, <1>2, <1>3, <1>4, <1>5

\* What a rename has done to the database since it opened it.
LEMMA RenameKeepsSession ==
  ASSUME IInv, BeforeTypeOK, RenameSession, BeforeStep,
         \/ \E file \in LabelsFile : RenameOpen(file)
         \/ RenamePlan \/ RenameNothing \/ RenameWriteNode \/ RenameManifest
         \/ RenameClose \/ RenameCrash,
         DbTypeOK'
  PROVE  RenameSession'
<1>0. /\ DbTypeOK /\ rn \in RenameState
      /\ rn.pc # "idle" => lock = Renamer
      /\ Renamer # None
  BY Distinct DEF IInv, TypeOK, ClusterTypeOK, StoreTypeOK, SessionsFresh, LockHeld
<1>1. CASE RenameClose \/ RenameCrash
  BY <1>1 DEF RenameClose, RenameCrash, IdleRenamer, RenameSession
<1>2. CASE \E file \in LabelsFile : RenameOpen(file)
  <2>1. rn'.pc = "read" /\ before' = Database /\ UNCHANGED dbVars
    BY <1>0, <1>2 DEF RenameOpen, OpenStore, IdleRenamer, BeforeStep
  <2>2. QED  BY <2>1 DEF RenameSession, Database, dbVars
<1>3. CASE RenamePlan
  <2>1. PICK plan \in Plans(rn.file, stored, row) :
          rn' = [rn EXCEPT !.pc = "nodes", !.rows = row,
                           !.todo = {n \in stored : row[n].community \in plan}]
    BY <1>3 DEF RenamePlan
  <2>2. /\ rn.pc = "read" /\ rn'.pc = "nodes" /\ rn'.file = rn.file /\ rn'.rows = row
        /\ rn'.todo = {n \in stored : row[n].community \in plan}
        /\ UNCHANGED dbVars /\ before' = before
    BY <1>0, <1>3, <2>1 DEF RenamePlan, RenameState, BeforeStep
  <2>3. /\ before.row = row /\ before.stored = stored /\ before.edges = edges /\ before.meta = meta
        /\ \E n \in stored : row[n].community # None
    BY <1>3, <2>2 DEF RenamePlan, RenameSession
  <2>4. row = [n \in Ids |-> row[n]]
    BY <1>0 DEF DbTypeOK
  <2>5. Renamed(plan, rn.todo)'
    BY <2>2, <2>3, <2>4 DEF Renamed, dbVars
  <2>6. plan \in Plans(rn'.file, before'.stored, before'.row)
    BY <2>2, <2>3
  <2>7. QED  BY <2>2, <2>3, <2>5, <2>6 DEF RenameSession, dbVars
<1>4. CASE RenameNothing
  <2>1. /\ rn.pc = "read" /\ rn'.pc = "close" /\ UNCHANGED dbVars /\ before' = before
    BY <1>0, <1>4 DEF RenameNothing, RenameState, BeforeStep
  <2>2. QED  BY <2>1 DEF RenameSession, dbVars
<1>5. CASE RenameWriteNode
  <2>1. PICK n \in rn.todo :
          /\ WriteNodeMetadata(n, [rn.rows[n] EXCEPT
                                     !.label = [user |-> rn.file[rn.rows[n].community]]])
          /\ rn' = [rn EXCEPT !.todo = @ \ {n}]
    BY <1>5 DEF RenameWriteNode
  <2> DEFINE m(k) == [before.row[k] EXCEPT !.label = [user |-> rn.file[before.row[k].community]]]
  <2>2. /\ rn.pc = "nodes" /\ rn'.pc = "nodes" /\ rn'.file = rn.file /\ rn'.rows = rn.rows
        /\ rn'.todo = rn.todo \ {n} /\ before' = before /\ rn.rows = before.row
        /\ stored = before.stored /\ edges = before.edges /\ meta = before.meta
    BY <1>0, <1>5, <2>1 DEF RenameWriteNode, RenameState, BeforeStep, RenameSession
  <2>3. PICK plan \in Plans(rn.file, before.stored, before.row) : Renamed(plan, rn.todo)
    BY <2>2 DEF RenameSession
  <2> DEFINE members == {k \in before.stored : before.row[k].community \in plan}
  <2>4. rn.todo \subseteq members /\ \E k \in before.stored : before.row[k].community # None
    BY <2>3 DEF Renamed
  <2>5. \A k \in Ids : row[k] = IF k \in members \ rn.todo THEN m(k) ELSE before.row[k]
    BY <2>3 DEF Renamed
  <2>6. n \in members /\ n \in stored /\ n \in Ids /\ rn.rows[n] \in Row /\ row[n] = before.row[n]
    BY <1>0, <2>2, <2>4, <2>5 DEF RenameState, DbTypeOK
  <2>7. [user |-> rn.file[rn.rows[n].community]] \in Labels
    BY <2>2, NameType DEF IInv, TypeOK, SessionsFresh
  <2>8. m(n) \in Row /\ m(n).rev = row[n].rev
    BY <2>2, <2>6, <2>7 DEF Row
  <2>9. row' = [row EXCEPT ![n] = m(n)] /\ UNCHANGED <<stored, edges, meta>>
    BY <1>0, <2>1, <2>2, <2>6, <2>8, RowReplaced
  <2>10. row' = [k \in Ids |-> IF k \in members \ rn'.todo THEN m(k) ELSE before.row[k]]
    <3> HIDE DEF m, members
    <3>1. QED  BY <1>0, <2>2, <2>5, <2>6, <2>9 DEF DbTypeOK
  <2>11. Renamed(plan, rn.todo)'
    BY <2>2, <2>4, <2>10 DEF Renamed
  <2>12. QED  BY <2>2, <2>3, <2>9, <2>11 DEF RenameSession
<1>6. CASE RenameManifest
  <2>1. /\ rn.pc = "nodes" /\ rn.todo = {} /\ rn'.pc = "close" /\ rn'.file = rn.file
        /\ before' = before /\ UNCHANGED <<stored, row, edges>>
        /\ stored = before.stored /\ edges = before.edges /\ meta = before.meta
        /\ meta' = IF meta.clustering = None THEN meta
                   ELSE [meta EXCEPT !.clustering = UpdatedManifest(meta.clustering, rn.file)]
    BY <1>0, <1>6 DEF RenameManifest, WriteGraphMeta, RenameState, BeforeStep, RenameSession, dbVars
  <2>2. PICK plan \in Plans(rn.file, before.stored, before.row) : Renamed(plan, {})
    BY <2>1 DEF RenameSession
  <2>3. Renamed(plan, {})'
    BY <2>1, <2>2 DEF Renamed
  <2>4. QED  BY <2>1, <2>2, <2>3 DEF RenameSession
<1>7. QED  BY <1>1, <1>2, <1>3, <1>4, <1>5, <1>6

-----------------------------------------------------------------------------
\* A command that does not step is where it was: while it has the database open
\* nobody changes the tables or reopens it.
LEMMA LoadSessionWaits ==
  ASSUME LockHeld, NEW l \in Loaders, LoadSession(l), ld'[l] = ld[l], BeforeStep,
         UNCHANGED dbVars \/ lock # l
  PROVE  LoadSession(l)'
<1>1. CASE lock # l
  BY <1>1, Alone DEF LoadSession
<1>2. CASE lock = l
  <2>1. before' = before /\ UNCHANGED <<stored, row, edges, meta>>
    BY <1>2, Distinct DEF dbVars, BeforeStep
  <2>2. QED  BY <2>1 DEF LoadSession
<1>3. QED  BY <1>1, <1>2

LEMMA EnrichSessionWaits ==
  ASSUME LockHeld, EnrichSession, UNCHANGED en, BeforeStep, UNCHANGED dbVars \/ lock # Enricher
  PROVE  EnrichSession'
<1>1. CASE lock # Enricher
  BY <1>1, Alone DEF EnrichSession
<1>2. CASE lock = Enricher
  BY <1>2, Distinct DEF EnrichSession, dbVars, BeforeStep, Database
<1>3. QED  BY <1>1, <1>2

LEMMA ClusterSessionWaits ==
  ASSUME LockHeld, ClusterSession, UNCHANGED cl, BeforeStep, UNCHANGED dbVars \/ lock # Clusterer
  PROVE  ClusterSession'
<1>1. CASE lock # Clusterer
  BY <1>1, Alone DEF ClusterSession
<1>2. CASE lock = Clusterer
  BY <1>2, Distinct DEF ClusterSession, dbVars, BeforeStep, Database
<1>3. QED  BY <1>1, <1>2

LEMMA RenameSessionWaits ==
  ASSUME LockHeld, RenameSession, UNCHANGED rn, BeforeStep, UNCHANGED dbVars \/ lock # Renamer
  PROVE  RenameSession'
<1>1. CASE lock # Renamer
  BY <1>1, Alone DEF RenameSession
<1>2. CASE lock = Renamer
  BY <1>2, Distinct DEF RenameSession, Renamed, dbVars, BeforeStep
<1>3. QED  BY <1>1, <1>2

LEMMA InitSessions == AtomicInit => Sessions
<1> SUFFICES ASSUME AtomicInit PROVE Sessions
  OBVIOUS
<1>1. BeforeTypeOK
  BY InitType DEF AtomicInit, BeforeTypeOK, Database, TypeOK, StoreTypeOK, DbTypeOK
<1>2. FilesTrue
  <2>1. CASE ColdInit
    BY <2>1 DEF ColdInit, ExtractInit, NoFile, IdleExtractor, FilesTrue
  <2>2. ASSUME NEW r \in Warm, WarmInit(r) PROVE FilesTrue
    BY <2>2, GraphAssumption DEF WarmInit, IdleExtractor, SourceOf, FilesTrue
  <2>3. QED  BY <2>1, <2>2 DEF AtomicInit, Init
<1>3. ASSUME NEW l \in Loaders PROVE InputTrue(l) /\ LoadSession(l)
  BY DEF AtomicInit, Init, LoadInit, IdleLoader, Idle, InputTrue, LoadSession
<1>4. EnrichSession /\ ClusterSession /\ RenameSession
  BY DEF AtomicInit, Init, EnrichInit, IdleEnricher, EnrichSession, ClusterInit, IdleClusterer,
     ClusterSession, IdleRenamer, RenameSession
<1>5. QED  BY <1>1, <1>2, <1>3, <1>4 DEF Sessions

LEMMA NextSessions ==
  ASSUME IInv, Progress, Sessions, [AtomicNext]_atomicVars PROVE Sessions'
<1>0. /\ LockHeld /\ EdgesAnchored /\ EnrichProgress /\ ClusterProgress /\ DbTypeOK /\ DbTypeOK'
      /\ BeforeTypeOK /\ FilesTrue /\ EnrichSession /\ ClusterSession /\ RenameSession
      /\ \A l \in Loaders : LoadProgress(l) /\ InputTrue(l) /\ LoadSession(l)
  <2>1. [Next]_vars
    BY DEF AtomicNext, atomicVars
  <2>2. TypeOK'
    BY <2>1, NextType
  <2>3. QED
    BY <2>2 DEF IInv, SessionsFresh, Progress, Sessions, TypeOK, StoreTypeOK
<1>1. BeforeStep /\ leftover' \in BOOLEAN
  BY <1>0 DEF AtomicNext, atomicVars, vars, BeforeStep, BeforeTypeOK
<1>2. BeforeTypeOK'
  BY <1>0, <1>1 DEF BeforeStep, BeforeTypeOK, Database, DbTypeOK
<1>3. CASE ExtractNext \/ UNCHANGED vars
  <2>1. UNCHANGED <<dbVars, en, cl, rn, ld>>
    BY <1>3 DEF ExtractNext, vars
  <2>2. EnrichSession' /\ ClusterSession' /\ RenameSession' /\ \A l \in Loaders : LoadSession(l)'
    BY <1>0, <1>1, <2>1, EnrichSessionWaits, ClusterSessionWaits, RenameSessionWaits,
       LoadSessionWaits
  <2>3. \A l \in Loaders : InputTrue(l)'
    BY <1>0, <2>1 DEF InputTrue
  <2>4. FilesTrue'
    <3>1. CASE ExtractNext
      BY <1>0, <3>1, ExtractKeepsFiles
    <3>2. CASE UNCHANGED vars
      BY <1>0, <3>2 DEF vars, extractVars, FilesTrue
    <3>3. QED  BY <1>3, <3>1, <3>2
  <2>5. QED  BY <1>2, <2>2, <2>3, <2>4 DEF Sessions
<1>4. ASSUME NEW l \in Loaders, LoadNext(l) PROVE Sessions'
  <2>1. UNCHANGED <<extractVars, en, cl, rn>> /\ (UNCHANGED dbVars \/ lock = l)
    BY <1>0, <1>4, LoadWritesOpen DEF LoadNext
  <2>2. EnrichSession' /\ ClusterSession' /\ RenameSession' /\ FilesTrue'
    BY <1>0, <1>1, <2>1, Distinct, EnrichSessionWaits, ClusterSessionWaits, RenameSessionWaits
    DEF FilesTrue, extractVars
  <2>3. ASSUME NEW m \in Loaders, m # l PROVE InputTrue(m)' /\ LoadSession(m)'
    <3>1. ld'[m] = ld[m]
      BY <1>4, <2>3 DEF IInv, TypeOK, LoadTypeOK, LoadNext, LoadWork, LoadReadNodes, LoadReadEdges,
         LoadReadSource, LoadOpen, LoadOpenFails, LoadMergeNode, LoadMergeEdge, LoadSourceManifest,
         LoadClearRuntime, LoadClose, LoadCrash
    <3>2. InputTrue(m)'
      BY <1>0, <3>1 DEF InputTrue
    <3>3. QED  BY <1>0, <1>1, <2>1, <2>3, <3>1, <3>2, LoadSessionWaits
  <2>4. InputTrue(l)' /\ LoadSession(l)'
    BY <1>0, <1>1, <1>4, LoadKeepsInput, LoadKeepsSession
  <2>5. QED  BY <1>2, <2>2, <2>3, <2>4 DEF Sessions
<1>5. CASE EnrichNext
  <2>1. UNCHANGED <<extractVars, cl, rn, ld>> /\ (UNCHANGED dbVars \/ lock = Enricher)
    BY <1>0, <1>5, EnrichWritesOpen DEF EnrichNext
  <2>2. ClusterSession' /\ RenameSession' /\ FilesTrue'
    BY <1>0, <1>1, <2>1, Distinct, ClusterSessionWaits, RenameSessionWaits DEF FilesTrue, extractVars
  <2>3. \A l \in Loaders : InputTrue(l)' /\ LoadSession(l)'
    BY <1>0, <1>1, <2>1, Distinct, LoadSessionWaits DEF InputTrue
  <2>4. QED  BY <1>0, <1>1, <1>2, <1>5, <2>2, <2>3, EnrichKeepsSession DEF Sessions
<1>6. CASE ClusterNext
  <2>1. UNCHANGED <<extractVars, en, ld>> /\ (UNCHANGED dbVars \/ lock \in {Clusterer, Renamer})
    BY <1>0, <1>6, ClusterWritesOpen DEF ClusterNext
  <2>2. EnrichSession' /\ FilesTrue'
    BY <1>0, <1>1, <2>1, Distinct, EnrichSessionWaits DEF FilesTrue, extractVars
  <2>3. \A l \in Loaders : InputTrue(l)' /\ LoadSession(l)'
    BY <1>0, <1>1, <2>1, Distinct, LoadSessionWaits DEF InputTrue
  <2>4. CASE \/ \E file \in LabelsFile : RenameOpen(file)
             \/ RenamePlan \/ RenameNothing \/ RenameWriteNode \/ RenameManifest
             \/ RenameClose \/ RenameCrash
    <3>1. UNCHANGED cl /\ (UNCHANGED dbVars \/ lock = Renamer)
      BY <1>0, <2>4 DEF RenameOpen, RenamePlan, RenameNothing, RenameWriteNode, RenameManifest,
         RenameClose, RenameCrash, LockHeld
    <3>2. ClusterSession'
      BY <1>0, <1>1, <3>1, Distinct, ClusterSessionWaits
    <3>3. RenameSession'
      BY <1>0, <1>1, <2>4, RenameKeepsSession
    <3>4. QED  BY <1>2, <2>2, <2>3, <3>2, <3>3 DEF Sessions
  <2>5. CASE \/ ClusterOpen \/ ClusterDetect \/ ClusterWriteNode \/ ClusterManifest
             \/ ClusterClose \/ ClusterCrash
    <3>1. UNCHANGED rn /\ (UNCHANGED dbVars \/ lock = Clusterer)
      BY <1>0, <2>5 DEF ClusterOpen, ClusterDetect, ClusterWriteNode, ClusterManifest,
         ClusterClose, ClusterCrash, LockHeld
    <3>2. RenameSession'
      BY <1>0, <1>1, <3>1, Distinct, RenameSessionWaits
    <3>3. ClusterSession'
      BY <1>0, <1>1, <2>5, ClusterKeepsSession
    <3>4. QED  BY <1>2, <2>2, <2>3, <3>2, <3>3 DEF Sessions
  <2>6. QED  BY <1>6, <2>4, <2>5 DEF ClusterNext, ClusterWork
<1>7. QED
  BY <1>3, <1>4, <1>5, <1>6 DEF AtomicNext, Next, atomicVars

(***************************************************************************)
(* Sessions holds with and without kills: however far a command got, the    *)
(* database is the one it opened and that much of its work.                 *)
(***************************************************************************)
THEOREM SessionsHold == AtomicSpec => [](IInv /\ Progress /\ Sessions)
<1>1. AtomicInit => IInv /\ Progress /\ Sessions
  BY InitType, InitFresh, InitProgress, InitSessions DEF AtomicInit, IInv
<1>2. [AtomicNext]_atomicVars => [Next]_vars
  BY DEF AtomicNext, atomicVars
<1>3. IInv /\ Progress /\ Sessions /\ [AtomicNext]_atomicVars => (IInv /\ Progress /\ Sessions)'
  BY <1>2, NextType, NextFresh, NextProgress, NextSessions DEF IInv
<1>4. QED  BY <1>1, <1>3, PTL DEF AtomicSpec

-----------------------------------------------------------------------------
(***************************************************************************)
(* The refinement.  While a command has the database open the view of the   *)
(* others is before; closing it moves them to what the command made of it.  *)
(***************************************************************************)
LEMMA ViewAtClose ==
  ASSUME lock # None, lock' = None, UNCHANGED dbVars
  PROVE  View = before /\ View' = Database /\ View'.stored = stored /\ View'.row = row
         /\ View'.edges = edges /\ View'.meta = meta
BY DEF View, Database, dbVars

\* The instance computes with the same functions of the graph model.
LEMMA SameCardinality == \A S : Atomic!Cardinality(S) = Cardinality(S)
BY DEF Atomic!Cardinality, Cardinality

LEMMA SameLoadFunctions ==
  /\ \A r : Atomic!FreshRow(r) = FreshRow(r) /\ Atomic!SourceOf(r) = SourceOf(r)
  /\ \A e, r : Atomic!Stamped(e, r) = Stamped(e, r)
  /\ \A e, f : Atomic!SameRelation(e, f) <=> SameRelation(e, f)
  /\ \A links, nodes : Atomic!Insertable(links, nodes) = Insertable(links, nodes)
  /\ Atomic!NoRow = NoRow /\ Atomic!NoMeta = NoMeta
BY DEF Atomic!FreshRow, FreshRow, Atomic!SourceOf, SourceOf, Atomic!Stamped, Stamped,
   Atomic!SameRelation, SameRelation, Atomic!Insertable, Insertable, Atomic!NoRow, NoRow,
   Atomic!NoMeta, NoMeta

LEMMA SameEnrichFunctions ==
  /\ \A p, S : Atomic!Attributed(p, S) = Attributed(p, S)
  /\ \A p, S : Atomic!RuntimeEdges(p, S) = RuntimeEdges(p, S)
BY DEF Atomic!Attributed, Attributed, Atomic!RuntimeEdges, RuntimeEdges, Atomic!Resolves, Resolves

LEMMA SameClusterFunctions ==
  /\ \A E : Atomic!Touched(E) = Touched(E)
  /\ \A S, k : Atomic!Partitions(S, k) = Partitions(S, k)
  /\ \A f, k : Atomic!AutoLabels(f, k) = AutoLabels(f, k)
<1>1. \A E : Atomic!Touched(E) = Touched(E)
  BY DEF Atomic!Touched, Touched, Atomic!Weighted, Weighted
<1>2. \A f, i : Atomic!MembersOf(f, i) = MembersOf(f, i)
  BY DEF Atomic!MembersOf, MembersOf
<1>3. \A S, k : Atomic!Partitions(S, k) = Partitions(S, k)
  BY <1>2, SameCardinality DEF Atomic!Partitions, Partitions
<1>4. \A members, hub : Atomic!Composed(members, hub) = Composed(members, hub)
  <2>1. \A m, members : Atomic!Dominates(m, members) <=> Dominates(m, members)
    BY SameCardinality DEF Atomic!Dominates, Dominates
  <2>2. QED  BY <2>1 DEF Atomic!Composed, Composed
<1>5. \A phrases, hub : Atomic!WithHub(phrases, hub) = WithHub(phrases, hub)
  BY DEF Atomic!WithHub, WithHub, Atomic!Shared, Shared, Atomic!Mentions, Mentions
<1>6. \A phrases : Atomic!WithIndex(phrases) = WithIndex(phrases)
  BY DEF Atomic!WithIndex, WithIndex, Atomic!Shared, Shared
<1>7. \A f, k : Atomic!Hubs(f, k) = Hubs(f, k)
  BY <1>2 DEF Atomic!Hubs, Hubs
<1>8. \A f, k : Atomic!AutoLabels(f, k) = AutoLabels(f, k)
  BY <1>2, <1>4, <1>5, <1>6, <1>7 DEF Atomic!AutoLabels, AutoLabels
<1>9. QED  BY <1>1, <1>3, <1>8

LEMMA SameRenameFunctions ==
  /\ Atomic!LabelsFile = LabelsFile
  /\ \A file, S, rows : Atomic!Plans(file, S, rows) = Plans(file, S, rows)
  /\ \A labels, file : Atomic!UpdatedManifest(labels, file) = UpdatedManifest(labels, file)
<1>1. Atomic!LabelsFile = LabelsFile
  BY DEF Atomic!LabelsFile, LabelsFile
<1>2. \A S, rows, i : Atomic!CurrentLabels(S, rows, i) = CurrentLabels(S, rows, i)
  BY DEF Atomic!CurrentLabels, CurrentLabels, Atomic!CommunityIn, CommunityIn
<1>3. \A file, S, rows : Atomic!Plans(file, S, rows) = Plans(file, S, rows)
  BY <1>2 DEF Atomic!Plans, Plans
<1>4. \A labels, file : Atomic!UpdatedManifest(labels, file) = UpdatedManifest(labels, file)
  BY DEF Atomic!UpdatedManifest, UpdatedManifest
<1>5. QED  BY <1>1, <1>3, <1>4

LEMMA LoadClosesAtomically ==
  ASSUME IInv, Progress, Sessions, NEW l \in Loaders, LoadClose(l) PROVE Atomic!LoadCommand
<1> DEFINE me == ld[l]
<1>1. /\ LoadProgress(l) /\ InputTrue(l) /\ LoadSession(l) /\ l # None
      /\ me.pc = "close" /\ lock # None /\ lock' = None /\ UNCHANGED dbVars
  BY Distinct DEF Progress, Sessions, LoadClose, CloseStore
<1>2. me.todoNodes = {} /\ me.todoLinks = {}
  BY <1>1 DEF LoadProgress
<1>3. Atomic!Load(me.nodes, me.nodeRev, me.links, me.linkRev, me.source)
  <2> DEFINE new == Insertable(me.links, me.nodes)
  <2>1. me.nodes \ me.todoNodes = me.nodes /\ new \ me.todoLinks = new
    BY <1>2
  <2>2. /\ stored = before.stored \cup me.nodes
        /\ row = [n \in Ids |-> IF n \in me.nodes THEN FreshRow(me.nodeRev) ELSE before.row[n]]
        /\ edges = {f \in before.edges : \A e \in new : ~SameRelation(e, f)}
                     \cup {Stamped(e, me.linkRev) : e \in new}
        /\ meta = [before.meta EXCEPT !.source = me.source, !.runtime = None]
    BY <1>1, <2>1 DEF LoadSession
  <2> HIDE DEF me
  <2>3. QED  BY <1>1, <2>2, ViewAtClose, SameLoadFunctions DEF Atomic!Load
<1>4. /\ me.nodeRev \in Revs /\ me.nodes \in SUBSET NodeLines[me.nodeRev]
      /\ me.linkRev \in Revs /\ me.links \in SUBSET EdgeLines[me.linkRev]
      /\ me.source \in GitRevs \cup {None}
  BY <1>1 DEF InputTrue, Idle
<1> HIDE DEF me
<1>5. QED  BY <1>3, <1>4 DEF Atomic!LoadCommand

LEMMA EnrichClosesAtomically ==
  ASSUME IInv, Progress, Sessions, EnrichClose PROVE Atomic!EnrichCommand
<1>1. /\ EnrichProgress /\ EnrichSession /\ en.pc = "edges" /\ en.todoEdges = {}
      /\ lock # None /\ lock' = None /\ UNCHANGED dbVars /\ en.profile \in Profiles
  BY Distinct DEF Progress, Sessions, EnrichClose, EnrichDone, CloseStore, IInv, SessionsFresh,
     WorkKnown
<1>2. en.todoNodes = {} /\ stored = before.stored
  BY <1>1 DEF EnrichProgress, EnrichSession
<1>3. Atomic!Enrich(en.profile)
  <2>1. /\ row = [n \in Ids |-> IF n \in Attributed(en.profile, before.stored)
                                THEN [before.row[n] EXCEPT !.runtime = en.profile]
                                ELSE before.row[n]]
        /\ edges = {e \in before.edges : e.kind # RuntimeKind}
                     \cup RuntimeEdges(en.profile, before.stored)
        /\ meta = [before.meta EXCEPT !.runtime = en.profile]
    <3>1. \A S : S \ {} = S
      OBVIOUS
    <3>2. QED  BY <1>1, <1>2, <3>1 DEF EnrichSession
  <2>2. QED  BY <1>1, <1>2, <2>1, ViewAtClose, SameEnrichFunctions DEF Atomic!Enrich
<1>4. QED  BY <1>1, <1>3 DEF Atomic!EnrichCommand

LEMMA ClusterClosesAtomically ==
  ASSUME IInv, Progress, Sessions, ClusterClose
  PROVE  \E k \in 0..Cardinality(Ids) : /\ cl.communityOf \in Partitions(Touched(View.edges), k)
                                        /\ cl.labels \in AutoLabels(cl.communityOf, k)
                                        /\ Atomic!Cluster(cl.communityOf, cl.labels)
<1>1. /\ ClusterProgress /\ ClusterSession /\ cl.pc = "close" /\ cl.todo = {}
      /\ lock # None /\ lock' = None /\ UNCHANGED dbVars
  BY Distinct DEF Progress, Sessions, ClusterClose, CloseStore, ClusterProgress
<1>2. PICK k \in 0..Cardinality(Ids) : /\ cl.communityOf \in Partitions(Touched(edges), k)
                                       /\ cl.labels \in AutoLabels(cl.communityOf, k)
  BY <1>1 DEF ClusterSession
<1>3. /\ stored = before.stored /\ edges = before.edges
      /\ row = [n \in Ids |-> IF n \in DOMAIN cl.communityOf
                              THEN [before.row[n] EXCEPT !.community = cl.communityOf[n],
                                                         !.label = cl.labels[cl.communityOf[n]]]
                              ELSE before.row[n]]
      /\ meta = [before.meta EXCEPT !.clustering = cl.labels]
  <2>1. DOMAIN cl.communityOf \ cl.todo = DOMAIN cl.communityOf
    BY <1>1
  <2>2. QED  BY <1>1, <2>1 DEF ClusterSession
<1>4. Atomic!Cluster(cl.communityOf, cl.labels)
  BY <1>1, <1>2, <1>3, ViewAtClose, SameClusterFunctions DEF Atomic!Cluster
<1>5. cl.communityOf \in Partitions(Touched(View.edges), k)
  BY <1>1, <1>2, <1>3, ViewAtClose
<1>6. QED  BY <1>2, <1>4, <1>5

LEMMA RenameClosesAtomically ==
  ASSUME IInv, Progress, Sessions, RenameClose PROVE Atomic!RenameCommand \/ View' = View
<1>1. /\ RenameSession /\ rn.pc = "close" /\ rn.file \in LabelsFile
      /\ stored = before.stored /\ edges = before.edges
      /\ lock # None /\ lock' = None /\ UNCHANGED dbVars
  BY Distinct DEF Sessions, RenameClose, CloseStore, RenameSession, IInv, TypeOK, ClusterTypeOK,
     RenameState
<1>2. CASE row = before.row /\ meta = before.meta
  <2>1. before = Database
    BY <1>1, <1>2 DEF Sessions, BeforeTypeOK, Database
  <2>2. QED  BY <1>1, <2>1, ViewAtClose
<1>3. CASE /\ \E plan \in Plans(rn.file, before.stored, before.row) : Renamed(plan, {})
           /\ meta = IF before.meta.clustering = None THEN before.meta
                     ELSE [before.meta EXCEPT !.clustering = UpdatedManifest(@, rn.file)]
  <2>1. PICK plan \in Plans(rn.file, before.stored, before.row) : Renamed(plan, {})
    BY <1>3
  <2>2. /\ \E n \in before.stored : before.row[n].community # None
        /\ row = [n \in Ids |-> IF n \in before.stored /\ before.row[n].community \in plan
                                THEN [before.row[n] EXCEPT
                                        !.label = [user |-> rn.file[before.row[n].community]]]
                                ELSE before.row[n]]
    <3>1. \A n : n \in {k \in before.stored : before.row[k].community \in plan} \ {}
                   <=> n \in before.stored /\ before.row[n].community \in plan
      OBVIOUS
    <3>2. QED  BY <2>1, <3>1 DEF Renamed
  <2>3. Atomic!Rename(rn.file, plan)
    BY <1>1, <1>3, <2>2, ViewAtClose, SameRenameFunctions DEF Atomic!Rename
  <2>4. plan \in Plans(rn.file, View.stored, View.row)
    BY <1>1, <2>1, ViewAtClose
  <2>5. QED  BY <1>1, <2>3, <2>4, SameRenameFunctions DEF Atomic!RenameCommand
<1>4. QED  BY <1>1, <1>2, <1>3 DEF RenameSession

\* A step that closes nothing changes the tables under the lock, if at all, and
\* the others still see the database that was opened.
LEMMA ViewStays ==
  ASSUME BeforeStep, UNCHANGED dbVars \/ lock # None, lock # None => lock' # None
  PROVE  UNCHANGED View
<1>1. CASE lock = None
  BY <1>1 DEF View, BeforeStep, Database, dbVars
<1>2. CASE lock # None
  BY <1>2 DEF View, BeforeStep
<1>3. QED  BY <1>1, <1>2

LEMMA InitRefines == AtomicInit => Atomic!Init
<1> SUFFICES ASSUME AtomicInit PROVE Atomic!Init
  OBVIOUS
<1>1. lock = None
  BY DEF AtomicInit, Init, ColdInit, StoreInit, WarmInit
<1>2. View.stored = stored /\ View.row = row /\ View.edges = edges /\ View.meta = meta
  BY <1>1 DEF View, Database
<1>3. CASE ColdInit
  BY <1>2, <1>3, SameLoadFunctions DEF ColdInit, StoreInit, Atomic!Init
<1>4. ASSUME NEW r \in Warm, WarmInit(r) PROVE Atomic!Init
  BY <1>2, <1>4, SameLoadFunctions DEF WarmInit, Atomic!Init
<1>5. QED  BY <1>3, <1>4 DEF AtomicInit, Init

\* What the others see changes when a command closes the database, and only then.
LEMMA OnlyClosingShows ==
  ASSUME Crashes = FALSE, IInv, EnrichSession, [AtomicNext]_atomicVars
  PROVE  \/ UNCHANGED View
         \/ \E l \in Loaders : LoadClose(l)
         \/ EnrichClose \/ ClusterClose \/ RenameClose
<1> SUFFICES ASSUME ~\E l \in Loaders : LoadClose(l), ~EnrichClose, ~ClusterClose, ~RenameClose
             PROVE  UNCHANGED View
  OBVIOUS
<1>0. LockHeld /\ BeforeStep
  BY DEF IInv, SessionsFresh, AtomicNext, atomicVars, vars, BeforeStep
<1>1. CASE ExtractNext \/ UNCHANGED vars
  BY <1>0, <1>1, ViewStays DEF ExtractNext, vars
<1>2. ASSUME NEW l \in Loaders, LoadNext(l) PROVE UNCHANGED View
  <2>1. UNCHANGED dbVars \/ lock # None
    BY <1>0, <1>2, LoadWritesOpen, Distinct
  <2>2. lock # None => lock' # None
    BY <1>2 DEF LoadNext, LoadWork, LoadReadNodes, LoadReadEdges, LoadReadSource, LoadOpen,
       OpenStore, LoadOpenFails, LoadMergeNode, LoadMergeEdge, LoadSourceManifest, LoadClearRuntime
  <2>3. QED  BY <1>0, <2>1, <2>2, ViewStays
<1>3. CASE EnrichNext
  <2>1. CASE EnrichRejects
    BY <1>0, <2>1, Distinct DEF EnrichRejects, CloseStore, LockHeld, EnrichSession, View, Database,
       dbVars
  <2>2. UNCHANGED dbVars \/ lock # None
    BY <1>0, <1>3, EnrichWritesOpen, Distinct
  <2>3. CASE lock # None => lock' # None
    BY <1>0, <2>2, <2>3, ViewStays
  <2>4. QED
    BY <1>3, <2>1, <2>3 DEF EnrichNext, EnrichWork, EnrichOpen, OpenStore, EnrichReadNodes,
       EnrichWriteNode, EnrichManifest, EnrichClearEdges, EnrichWriteEdge
<1>4. CASE ClusterNext
  <2>1. UNCHANGED dbVars \/ lock # None
    BY <1>0, <1>4, ClusterWritesOpen, Distinct
  <2>2. lock # None => lock' # None
    BY <1>4 DEF ClusterNext, ClusterWork, ClusterOpen, OpenStore, ClusterDetect, ClusterWriteNode,
       ClusterManifest, RenameOpen, RenamePlan, RenameNothing, RenameWriteNode, RenameManifest
  <2>3. QED  BY <1>0, <2>1, <2>2, ViewStays
<1>5. QED  BY <1>1, <1>2, <1>3, <1>4 DEF AtomicNext, Next, atomicVars, vars

LEMMA NextRefines ==
  ASSUME Crashes = FALSE, IInv, Progress, Sessions, [AtomicNext]_atomicVars
  PROVE  Atomic!Next \/ UNCHANGED View
<1>1. ClusterClose => Atomic!ClusterCommand
  BY ClusterClosesAtomically, SameCardinality, SameClusterFunctions DEF Atomic!ClusterCommand
<1>2. QED
  BY <1>1, OnlyClosingShows, LoadClosesAtomically, EnrichClosesAtomically, RenameClosesAtomically
  DEF Atomic!Next, Sessions

(***************************************************************************)
(* Without kills, load, enrich, cluster and cluster rename, which write one *)
(* row at a time and without a transaction, implement AtomicCommands: each  *)
(* is one change of the database it found, and it takes effect when the     *)
(* command closes the database.                                             *)
(***************************************************************************)
THEOREM CommandsAtomic ==
  ASSUME Crashes = FALSE PROVE AtomicSpec => CommandsAreAtomic
<1>1. IInv /\ Progress /\ Sessions /\ [AtomicNext]_atomicVars => [Atomic!Next]_Atomic!vars
  BY NextRefines DEF Atomic!vars
<1>2. QED
  BY <1>1, InitRefines, SessionsHold, PTL DEF AtomicSpec, CommandsAreAtomic, Atomic!Spec

-----------------------------------------------------------------------------
(***************************************************************************)
(* The runtime manifest.  Only a load or an enrich that has the database    *)
(* open makes it untrue; the one clears it, the other makes it true again.  *)
(***************************************************************************)
RuntimeTrue ==
  (lock \notin Loaders \cup {Enricher} \/ en.pc = "read") /\ meta.runtime # None =>
    Enriched(meta.runtime)

\* cluster and rename write back the metrics they read.
LEMMA ClusterKeepsRuntime ==
  ASSUME IInv, ClusterNext
  PROVE  /\ UNCHANGED <<stored, edges>> /\ meta'.runtime = meta.runtime
         /\ \A n \in Ids : row'[n].runtime = row[n].runtime
<1>0. DbTypeOK
  BY DEF IInv, TypeOK, StoreTypeOK
<1>1. CASE ClusterWriteNode
  <2>1. UNCHANGED <<stored, edges, meta>>
    BY <1>1 DEF ClusterWriteNode, WriteNodeMetadata
  <2>2. \A n \in Ids : /\ SameExcept(cl.rows[n], row[n], {"community", "label"})
                       /\ SameExcept(cl.rows[n], row'[n], {"community", "label"})
    BY <1>1, ClusterMerges
  <2>3. QED  BY <2>1, <2>2 DEF SameExcept
<1>2. CASE RenameWriteNode
  <2>1. UNCHANGED <<stored, edges, meta>>
    BY <1>2 DEF RenameWriteNode, WriteNodeMetadata
  <2>2. \A n \in Ids : /\ SameExcept(rn.rows[n], row[n], {"label"})
                       /\ SameExcept(rn.rows[n], row'[n], {"label"})
    BY <1>2, RenameMerges
  <2>3. QED  BY <2>1, <2>2 DEF SameExcept
<1>3. CASE ClusterManifest \/ RenameManifest
  BY <1>0, <1>3 DEF ClusterManifest, RenameManifest, WriteGraphMeta, DbTypeOK, Meta, dbVars
<1>4. CASE UNCHANGED dbVars
  BY <1>4 DEF dbVars
<1>5. QED
  BY <1>1, <1>2, <1>3, <1>4 DEF ClusterNext, ClusterWork, ClusterOpen, ClusterDetect, ClusterClose,
     ClusterCrash, RenameOpen, RenamePlan, RenameNothing, RenameClose, RenameCrash

LEMMA NextRuntimeTrue ==
  ASSUME Crashes = FALSE, IInv, Progress, RuntimeTrue, [Next]_vars PROVE RuntimeTrue'
<1> DEFINE closed == lock \notin Loaders \cup {Enricher} \/ en.pc = "read"
<1>0. LockHeld /\ LockHeld' /\ DbTypeOK /\ en \in EnrichState
  BY NextFresh DEF IInv, SessionsFresh, TypeOK, StoreTypeOK, EnrichTypeOK
<1>1. CASE UNCHANGED dbVars /\ (closed' => closed)
  BY <1>1 DEF RuntimeTrue, Enriched, dbVars
<1>2. CASE ExtractNext \/ UNCHANGED vars
  BY <1>1, <1>2 DEF ExtractNext, vars
<1>3. ASSUME NEW l \in Loaders, LoadNext(l) PROVE RuntimeTrue'
  <2>1. CASE LoadClose(l)
    BY <2>1 DEF LoadClose, dbVars, Progress, LoadProgress, RuntimeTrue
  <2>2. CASE ~LoadClose(l)
    <3>1. lock' = lock \/ lock' = l
      BY <1>3, <2>2 DEF LoadNext, LoadWork, LoadReadNodes, LoadReadEdges, LoadReadSource, LoadOpen,
         OpenStore, LoadOpenFails, LoadMergeNode, LoadMergeEdge, LoadSourceManifest,
         LoadClearRuntime
    <3>a. UNCHANGED en
      BY <1>3 DEF LoadNext
    <3>2. CASE lock' = l \/ lock = l
      BY <1>0, <3>1, <3>2, <3>a, Distinct DEF RuntimeTrue, LockHeld
    <3>3. CASE lock # l
      BY <1>0, <1>1, <1>3, <3>1, <3>3, <3>a, LoadWritesOpen DEF RuntimeTrue
    <3>4. QED  BY <3>2, <3>3
  <2>3. QED  BY <2>1, <2>2
<1>4. CASE EnrichNext
  <2>1. CASE EnrichClose
    <3>1. Enriched(en.profile)
      BY <2>1 DEF EnrichClose, EnrichDone, Progress, EnrichProgress, Enriched
    <3>2. QED  BY <2>1, <3>1 DEF EnrichClose, dbVars, RuntimeTrue, Enriched
  <2>2. CASE (\E p \in Profiles : EnrichOpen(p)) \/ EnrichRejects
    <3>1. UNCHANGED dbVars /\ closed
      BY <2>2, Distinct DEF EnrichOpen, OpenStore, EnrichRejects
    <3>2. QED  BY <1>1, <3>1
  <2>3. CASE \/ EnrichReadNodes \/ EnrichWriteNode \/ EnrichManifest \/ EnrichClearEdges
             \/ EnrichWriteEdge
    <3>1. lock' = Enricher /\ en'.pc # "read"
      BY <1>0, <2>3 DEF EnrichReadNodes, EnrichWriteNode, EnrichManifest, EnrichClearEdges,
         EnrichWriteEdge, EnrichState, LockHeld
    <3>2. QED  BY <3>1 DEF RuntimeTrue
  <2>4. QED  BY <1>4, <2>1, <2>2, <2>3 DEF EnrichNext, EnrichWork
<1>5. CASE ClusterNext
  <2>1. closed
    BY <1>0, <1>5, Distinct DEF ClusterNext, ClusterWork, ClusterOpen, OpenStore, ClusterDetect,
       ClusterWriteNode, ClusterManifest, ClusterClose, RenameOpen, RenamePlan, RenameNothing,
       RenameWriteNode, RenameManifest, RenameClose, LockHeld
  <2>2. /\ UNCHANGED <<stored, edges>> /\ meta'.runtime = meta.runtime
        /\ \A n \in Ids : row'[n].runtime = row[n].runtime
    BY <1>5, ClusterKeepsRuntime
  <2>3. \A p : Attributed(p, stored) \subseteq Ids
    BY <1>0, AttributedType DEF DbTypeOK
  <2>4. QED  BY <2>1, <2>2, <2>3 DEF RuntimeTrue, Enriched
<1>6. QED  BY <1>2, <1>3, <1>4, <1>5 DEF Next

(***************************************************************************)
(* Without kills, the runtime manifest of a closed database describes its   *)
(* metrics and its runtime call graph.                                      *)
(***************************************************************************)
THEOREM ManifestStaysCurrent ==
  ASSUME Crashes = FALSE PROVE Spec => []ManifestCurrent
<1>1. Init => RuntimeTrue
  <2>1. Init => meta.runtime = None
    BY DEF Init, ColdInit, StoreInit, WarmInit, NoMeta
  <2>2. QED  BY <2>1 DEF RuntimeTrue
<1>2. IInv /\ Progress /\ RuntimeTrue /\ [Next]_vars => RuntimeTrue'
  BY NextRuntimeTrue
<1>3. RuntimeTrue => ManifestCurrent
  BY Distinct DEF RuntimeTrue, ManifestCurrent, Quiescent
<1>4. QED  BY <1>1, <1>2, <1>3, ProgressHolds, PTL DEF Spec

-----------------------------------------------------------------------------
(***************************************************************************)
(* Communities.  The three parts of LabelAgreement, of any database.        *)
(***************************************************************************)
KnownIn(V, n) == V.meta.clustering # None /\ V.row[n].community \in DOMAIN V.meta.clustering

ClusteredIn(V) == {n \in V.stored : V.row[n].community # None}

StaticIn(V) == ClusteredIn(V) \cap Touched({e \in V.edges : e.kind # RuntimeKind})

LabelsTrue(V, left) ==
  /\ \A n \in StaticIn(V) : KnownIn(V, n)
  /\ \A m, n \in StaticIn(V) :
       V.row[m].community = V.row[n].community => V.row[m].label = V.row[n].label
  /\ ~left => \A n \in ClusteredIn(V) :
                KnownIn(V, n) /\ V.row[n].label = V.meta.clustering[V.row[n].community]

LEMMA AgreementIsLabelsTrue == LabelAgreement <=> (lock = None => LabelsTrue(Database, leftover))
BY DEF LabelAgreement, LabelsTrue, KnownIn, StaticIn, ClusteredIn, Database

\* A change that clusters no node and touches no clustered one keeps them true.
LEMMA FewerLabels ==
  ASSUME NEW V, NEW W, NEW left, LabelsTrue(V, left),
         ClusteredIn(W) \subseteq ClusteredIn(V), StaticIn(W) \subseteq StaticIn(V),
         \A n \in ClusteredIn(W) : /\ W.row[n].community = V.row[n].community
                                   /\ W.row[n].label = V.row[n].label,
         W.meta.clustering = V.meta.clustering
  PROVE  LabelsTrue(W, left)
<1>1. StaticIn(W) \subseteq ClusteredIn(W)
  BY DEF StaticIn
<1>2. QED  BY <1>1 DEF LabelsTrue, KnownIn

DatabaseType == [stored : SUBSET Ids, row : [Ids -> Row], edges : SUBSET Edge, meta : Meta]

LEMMA ViewType == ASSUME IInv, Sessions PROVE View \in DatabaseType
BY DEF IInv, TypeOK, StoreTypeOK, DbTypeOK, Sessions, BeforeTypeOK, View, Database, DatabaseType

LEMMA LoadKeepsLabels ==
  ASSUME View \in DatabaseType, NEW left, LabelsTrue(View, left), Atomic!LoadCommand
  PROVE  LabelsTrue(View', left)
<1>1. PICK r \in Revs, q \in Revs, source \in GitRevs \cup {None} :
        \E nodes \in SUBSET NodeLines[r], links \in SUBSET EdgeLines[q] :
          Atomic!Load(nodes, r, links, q, source)
  BY DEF Atomic!LoadCommand
<1>2. PICK nodes \in SUBSET NodeLines[r], links \in SUBSET EdgeLines[q] :
        Atomic!Load(nodes, r, links, q, source)
  BY <1>1
<1> DEFINE new == Insertable(links, nodes)
<1>3. /\ View'.stored = View.stored \cup nodes
      /\ View'.row = [n \in Ids |-> IF n \in nodes THEN FreshRow(r) ELSE View.row[n]]
      /\ View'.edges = {f \in View.edges : \A e \in new : ~SameRelation(e, f)}
                         \cup {Stamped(e, q) : e \in new}
      /\ View'.meta = [View.meta EXCEPT !.source = source, !.runtime = None]
  BY <1>2, SameLoadFunctions DEF Atomic!Load
<1>4. nodes \subseteq Ids /\ View.stored \subseteq Ids /\ View.meta \in Meta
  BY GraphAssumption DEF DatabaseType
<1>5. View'.meta.clustering = View.meta.clustering
  BY <1>3, <1>4 DEF Meta
<1>6. ASSUME NEW n \in ClusteredIn(View')
      PROVE  n \notin nodes /\ n \in ClusteredIn(View) /\ View'.row[n] = View.row[n]
  <2>1. n \in Ids /\ n \in View.stored \cup nodes /\ View'.row[n].community # None
    BY <1>3, <1>4, <1>6 DEF ClusteredIn
  <2>2. n \notin nodes
    BY <1>3, <2>1 DEF FreshRow
  <2>3. QED  BY <1>3, <2>1, <2>2 DEF ClusteredIn
<1>7. ASSUME NEW n \in StaticIn(View') PROVE n \in StaticIn(View)
  <2>1. PICK e \in View'.edges : e.kind # RuntimeKind /\ e.kind \in WeightedKinds /\ n \in {e.from, e.to}
    BY DEF StaticIn, Touched, Weighted
  <2>2. n \in ClusteredIn(View')
    BY DEF StaticIn
  <2>3. e \in View.edges
    BY <1>3, <1>6, <2>1, <2>2 DEF Insertable, Stamped
  <2>4. n \in Touched({f \in View.edges : f.kind # RuntimeKind})
    BY <2>1, <2>3 DEF Touched, Weighted
  <2>5. QED  BY <1>6, <2>2, <2>4 DEF StaticIn
<1>8. QED  BY <1>5, <1>6, <1>7, FewerLabels

LEMMA EnrichKeepsLabels ==
  ASSUME View \in DatabaseType, NEW left, LabelsTrue(View, left), Atomic!EnrichCommand
  PROVE  LabelsTrue(View', left)
<1>1. PICK p \in Profiles : Atomic!Enrich(p)
  BY DEF Atomic!EnrichCommand
<1>2. /\ View'.stored = View.stored
      /\ View'.row = [n \in Ids |-> IF n \in Attributed(p, View.stored)
                                    THEN [View.row[n] EXCEPT !.runtime = p] ELSE View.row[n]]
      /\ View'.edges = {e \in View.edges : e.kind # RuntimeKind} \cup RuntimeEdges(p, View.stored)
      /\ View'.meta = [View.meta EXCEPT !.runtime = p]
  BY <1>1, SameEnrichFunctions DEF Atomic!Enrich
<1>3. View.stored \in SUBSET Ids /\ View.row \in [Ids -> Row] /\ View.meta \in Meta
  BY DEF DatabaseType
<1>4. View'.meta.clustering = View.meta.clustering
  BY <1>2, <1>3 DEF Meta
<1>5. \A n \in Ids : /\ View'.row[n].community = View.row[n].community
                     /\ View'.row[n].label = View.row[n].label
  BY <1>2, <1>3 DEF Row
<1>6. ClusteredIn(View') = ClusteredIn(View) /\ ClusteredIn(View) \subseteq Ids
  BY <1>2, <1>3, <1>5 DEF ClusteredIn
<1>7. {e \in View'.edges : e.kind # RuntimeKind} = {e \in View.edges : e.kind # RuntimeKind}
  BY <1>2, <1>3, RuntimeEdgesType
<1>8. StaticIn(View') = StaticIn(View)
  BY <1>6, <1>7 DEF StaticIn
<1>9. QED  BY <1>4, <1>5, <1>6, <1>8, FewerLabels

\* A clustering labels every node of its partition, and leftover tells whether
\* it passed over one that an earlier clustering had labelled.
LEMMA ClusterKeepsLabels ==
  ASSUME IInv, Progress, Sessions, ClusterClose, LabelsTrue(View, leftover),
         leftover' = (PassedOver # {})
  PROVE  LabelsTrue(View', leftover')
<1> DEFINE f == cl.communityOf
           labels == cl.labels
<1>1. PICK k \in 0..Cardinality(Ids) : /\ f \in Partitions(Touched(View.edges), k)
                                       /\ labels \in AutoLabels(f, k) /\ Atomic!Cluster(f, labels)
  BY ClusterClosesAtomically
<1>2. /\ View'.stored = View.stored /\ View'.edges = View.edges
      /\ View'.row = [n \in Ids |-> IF n \in DOMAIN f
                                    THEN [View.row[n] EXCEPT !.community = f[n],
                                                             !.label = labels[f[n]]]
                                    ELSE View.row[n]]
      /\ View'.meta = [View.meta EXCEPT !.clustering = labels]
  BY <1>1, SameClusterFunctions DEF Atomic!Cluster
<1>3. PassedOver = {n \in View'.stored \ DOMAIN f : View'.row[n].community # None}
  BY ViewAtClose, Distinct DEF ClusterClose, CloseStore, PassedOver
<1>4. View \in DatabaseType
  BY ViewType
<1>5. /\ View.row \in [Ids -> Row] /\ View.stored \subseteq Ids /\ View.meta \in Meta
      /\ View.edges \in SUBSET Edge
  BY <1>4 DEF DatabaseType
<1>6. /\ f \in [Touched(View.edges) -> 0..(k - 1)]
      /\ DOMAIN labels = 0..(k - 1) /\ labels # None
  <2>1. Touched(View.edges) \in SUBSET Ids
    BY <1>5, TouchedType
  <2>2. labels \in [0..(k - 1) -> Labels] /\ labels \in ClusteringManifest
    BY <1>1, <2>1, AutoLabelsType
  <2>3. f \in [Touched(View.edges) -> 0..(k - 1)]
    BY <1>1 DEF Partitions
  <2>4. QED  BY <2>2, <2>3, NoneIsNoManifest
<1> HIDE DEF f, labels
<1>7. View'.meta.clustering = labels
  BY <1>2, <1>5 DEF Meta
<1>8. ASSUME NEW n \in Touched(View.edges)
      PROVE  /\ View'.row[n].community = f[n] /\ f[n] \in DOMAIN labels
             /\ View'.row[n].label = labels[f[n]]
  <2>1. n \in Ids /\ n \in DOMAIN f /\ f[n] \in 0..(k - 1)
    BY <1>5, <1>6, TouchedType
  <2>2. /\ View'.row[n] = [View.row[n] EXCEPT !.community = f[n], !.label = labels[f[n]]]
        /\ View.row[n] \in Row
    BY <1>2, <1>5, <2>1
  <2>3. QED  BY <1>6, <2>1, <2>2 DEF Row
<1>9. StaticIn(View') \subseteq Touched(View.edges)
  BY <1>2 DEF StaticIn, Touched, Weighted
<1>10. ~leftover' => ClusteredIn(View') \subseteq Touched(View.edges)
  BY <1>3, <1>6 DEF ClusteredIn
<1>11. \A n \in Touched(View.edges) : KnownIn(View', n)
  BY <1>6, <1>7, <1>8 DEF KnownIn
<1>12. QED  BY <1>7, <1>8, <1>9, <1>10, <1>11 DEF LabelsTrue

\* A rename gives its names to all nodes of a community or to none, and to the
\* manifest; what it skips carries the name already.
LEMMA RenameKeepsLabels ==
  ASSUME View \in DatabaseType, NEW left, LabelsTrue(View, left), Atomic!RenameCommand
  PROVE  LabelsTrue(View', left)
<1>0. PICK file \in LabelsFile : \E plan \in Plans(file, View.stored, View.row) :
        Atomic!Rename(file, plan)
  BY SameRenameFunctions DEF Atomic!RenameCommand
<1>1. PICK plan \in Plans(file, View.stored, View.row) : Atomic!Rename(file, plan)
  BY <1>0
<1> DEFINE old(n) == View.row[n].community
           name(i) == [user |-> file[i]]
           manifest == View.meta.clustering
<1>2. /\ View'.stored = View.stored /\ View'.edges = View.edges
      /\ View'.row = [n \in Ids |-> IF n \in View.stored /\ old(n) \in plan
                                    THEN [View.row[n] EXCEPT !.label = name(old(n))]
                                    ELSE View.row[n]]
      /\ View'.meta = IF manifest = None THEN View.meta
                      ELSE [View.meta EXCEPT !.clustering = UpdatedManifest(manifest, file)]
  BY <1>1, SameRenameFunctions DEF Atomic!Rename
<1>3. View.row \in [Ids -> Row] /\ View.stored \subseteq Ids /\ View.meta \in Meta
  BY DEF DatabaseType
<1>4. ASSUME NEW n \in View.stored
      PROVE  /\ View'.row[n].community = old(n)
             /\ View'.row[n].label = IF old(n) \in plan THEN name(old(n)) ELSE View.row[n].label
  BY <1>2, <1>3 DEF Row
<1>5. /\ ClusteredIn(View') = ClusteredIn(View) /\ ClusteredIn(View) \subseteq View.stored
      /\ StaticIn(View') = StaticIn(View) /\ StaticIn(View) \subseteq View.stored
  BY <1>2, <1>4 DEF ClusteredIn, StaticIn
<1>6. manifest # None =>
        /\ View'.meta.clustering = UpdatedManifest(manifest, file)
        /\ View'.meta.clustering # None
        /\ DOMAIN View'.meta.clustering = DOMAIN manifest
  <2> SUFFICES ASSUME manifest # None
               PROVE  /\ View'.meta.clustering = UpdatedManifest(manifest, file)
                      /\ View'.meta.clustering # None
                      /\ DOMAIN View'.meta.clustering = DOMAIN manifest
    OBVIOUS
  <2>1. manifest \in ClusteringManifest /\ UpdatedManifest(manifest, file) \in ClusteringManifest
    BY <1>3, UpdatedManifestType DEF Meta
  <2>2. View'.meta.clustering = UpdatedManifest(manifest, file)
    BY <1>2, <1>3 DEF Meta
  <2>3. QED  BY <2>1, <2>2, NoneIsNoManifest DEF UpdatedManifest
<1>7. plan \subseteq DOMAIN file /\ \A i \in DOMAIN file \ plan :
        CurrentLabels(View.stored, View.row, i) = {} \/ name(i) \in CurrentLabels(View.stored, View.row, i)
  BY <1>1 DEF Plans
<1>8. \A n \in View.stored : KnownIn(View, n) => KnownIn(View', n)
  BY <1>4, <1>6 DEF KnownIn
<1>9. ASSUME ~left, NEW n \in ClusteredIn(View)
      PROVE  View'.row[n].label = View'.meta.clustering[View'.row[n].community]
  <2>1. /\ n \in View.stored /\ manifest # None /\ old(n) \in DOMAIN manifest
        /\ View.row[n].label = manifest[old(n)]
    BY <1>5, <1>9 DEF LabelsTrue, KnownIn
  <2>2. View'.meta.clustering[old(n)] = IF old(n) \in DOMAIN file THEN name(old(n)) ELSE manifest[old(n)]
    BY <1>6, <2>1 DEF UpdatedManifest
  <2>3. CASE old(n) \in plan \/ old(n) \notin DOMAIN file
    BY <1>4, <1>7, <2>1, <2>2, <2>3
  <2>4. CASE old(n) \in DOMAIN file \ plan
    <3>1. n \in CommunityIn(View.stored, View.row, old(n))
      BY <2>1 DEF CommunityIn
    <3>2. PICK m \in CommunityIn(View.stored, View.row, old(n)) : View.row[m].label = name(old(n))
      BY <1>7, <2>4, <3>1 DEF CurrentLabels
    <3>3. m \in ClusteredIn(View) /\ old(m) = old(n)
      BY <1>9, <3>2 DEF CommunityIn, ClusteredIn
    <3>4. View.row[m].label = manifest[old(n)]
      BY <1>9, <3>3 DEF LabelsTrue
    <3>5. QED  BY <1>4, <2>1, <2>2, <2>4, <3>2, <3>4
  <2>5. QED  BY <2>3, <2>4
<1>10. \A m, n \in StaticIn(View) :
         View'.row[m].community = View'.row[n].community => View'.row[m].label = View'.row[n].label
  <2> SUFFICES ASSUME NEW m \in StaticIn(View), NEW n \in StaticIn(View),
                      View'.row[m].community = View'.row[n].community
               PROVE  View'.row[m].label = View'.row[n].label
    OBVIOUS
  <2>1. m \in View.stored /\ n \in View.stored
    BY <1>5
  <2>2. old(m) = old(n)
    BY <1>4, <2>1
  <2>3. View.row[m].label = View.row[n].label
    BY <2>2 DEF LabelsTrue
  <2> HIDE DEF name
  <2>4. QED  BY <1>4, <2>1, <2>2, <2>3
<1> HIDE DEF old, name, manifest
<1>11. QED  BY <1>5, <1>8, <1>9, <1>10 DEF LabelsTrue

LEMMA NextLabelsTrue ==
  ASSUME Crashes = FALSE, IInv, Progress, Sessions, LabelsTrue(View, leftover),
         [AtomicNext]_atomicVars
  PROVE  LabelsTrue(View', leftover')
<1>1. View \in DatabaseType
  BY ViewType
<1>2. CASE ClusterClose
  <2>1. cl.pc = "close" /\ cl'.pc = "idle"
    BY <1>2 DEF ClusterClose, IdleClusterer
  <2>2. leftover' = (PassedOver # {})
    BY <2>1 DEF AtomicNext, atomicVars, vars
  <2>3. QED  BY <1>2, <2>2, ClusterKeepsLabels
<1>3. CASE ~ClusterClose
  <2>1. ~(cl.pc = "close" /\ cl'.pc = "idle")
    BY <1>3 DEF AtomicNext, Next, atomicVars, vars, ExtractNext, LoadNext, EnrichNext, ClusterNext,
       ClusterWork, ClusterOpen, ClusterDetect, ClusterWriteNode, ClusterManifest, RenameOpen,
       RenamePlan, RenameNothing, RenameWriteNode, RenameManifest, RenameClose
  <2>2. leftover' = leftover
    BY <2>1 DEF AtomicNext, atomicVars
  <2>3. UNCHANGED View \/ Atomic!LoadCommand \/ Atomic!EnrichCommand \/ Atomic!RenameCommand
    BY <1>3, OnlyClosingShows, LoadClosesAtomically, EnrichClosesAtomically, RenameClosesAtomically
    DEF Sessions
  <2>4. QED  BY <1>1, <2>2, <2>3, LoadKeepsLabels, EnrichKeepsLabels, RenameKeepsLabels
<1>4. QED  BY <1>2, <1>3

(***************************************************************************)
(* Without kills, the clustering manifest of a closed database and its rows *)
(* agree: on every node a static edge touches, and on every clustered node  *)
(* unless the last clustering passed over one.                              *)
(***************************************************************************)
THEOREM LabelsStayInAgreement ==
  ASSUME Crashes = FALSE PROVE AtomicSpec => []LabelAgreement
<1>1. AtomicInit => LabelsTrue(View, leftover)
  <2> SUFFICES ASSUME AtomicInit PROVE LabelsTrue(View, leftover)
    OBVIOUS
  <2>1. lock = None /\ \A n \in stored : row[n].community = None
    <3>1. ASSUME NEW r \in Warm, WarmInit(r) PROVE \A n \in stored : row[n].community = None
      <4>1. NodeLines[r] \subseteq Ids
        BY GraphAssumption
      <4>2. QED  BY <3>1, <4>1 DEF WarmInit, FreshRow
    <3>2. QED  BY <3>1 DEF AtomicInit, Init, ColdInit, StoreInit, WarmInit
  <2>2. ClusteredIn(View) = {}
    BY <2>1 DEF ClusteredIn, View, Database
  <2>3. QED  BY <2>2 DEF LabelsTrue, StaticIn
<1>2. /\ IInv /\ Progress /\ Sessions /\ LabelsTrue(View, leftover) /\ [AtomicNext]_atomicVars
      => LabelsTrue(View, leftover)'
  BY NextLabelsTrue
<1>3. LabelsTrue(View, leftover) => LabelAgreement
  BY AgreementIsLabelsTrue DEF View
<1>4. QED  BY <1>1, <1>2, <1>3, SessionsHold, PTL DEF AtomicSpec
=============================================================================
