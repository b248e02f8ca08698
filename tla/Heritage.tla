------------------------------- MODULE Heritage -----------------------------
(***************************************************************************)
(* From classes and interfaces to the heritage edges of the graph: what     *)
(* extractClass, extractOverrides and extractInterface emit for every class *)
(* and interface that stands in a file of the project itself, and what load *)
(* leaves of it.  A type comes after its supertypes in the numbering.       *)
(***************************************************************************)
EXTENDS Integers, FiniteSets

CONSTANTS
  K,           \* how many classes and interfaces there are
  Method,      \* the names of methods
  MaxAway      \* bound on the types that are not at the top of a project file

ASSUME HeritageAssumption == {K, MaxAway} \subseteq Nat

Type == 1 .. K
NoBase == 0

VARIABLES
  typeKind,
  place,       \* "file", "namespace" or block within one, or "library"
  base,        \* class -> its base class
  supers,      \* class -> what it implements, interface -> what it extends
  methods,     \* the methods each type declares itself
  heritage,    \* the edges the extraction emitted
  extracted

heritageVars == <<typeKind, place, base, supers, methods, heritage, extracted>>

HeritageInit ==
  /\ place \in [Type -> {"file", "namespace", "library"}]
  /\ Cardinality({t \in Type : place[t] # "file"}) <= MaxAway
  /\ typeKind \in [Type -> {"class", "interface"}]
  /\ base \in [Type -> 0 .. K - 1]
  /\ \A t \in Type : base[t] < t /\ (base[t] # NoBase => {typeKind[t], typeKind[base[t]]} = {"class"})
  /\ \E named \in SUBSET {p \in Type \X Type : p[2] < p[1] /\ (typeKind[p[1]] = "interface" => typeKind[p[2]] = "interface")} :
       supers = [t \in Type |-> {s \in Type : <<t, s>> \in named}]
  /\ \A t \in Type : place[t] = "library" =>
       \A s \in supers[t] \cup ({base[t]} \ {NoBase}) : place[s] = "library"
  /\ methods \in [Type -> SUBSET Method]
  /\ heritage = {}
  /\ extracted = FALSE

-----------------------------------------------------------------------------
InProject(t) == place[t] # "library"

\* The types structural extraction makes nodes of, with their methods.
EmittedType == {t \in Type : place[t] = "file"}
TypeNodes == {<<t>> : t \in EmittedType} \cup (UNION {{<<t, m>> : m \in methods[t]} : t \in EmittedType})

HeritageEdge(k, from, to) == [kind |-> k, from |-> from, to |-> to]

\* The base class alone is asked for the method.
DeclaringBaseDirect(c, m) ==
  IF base[c] # NoBase /\ m \in methods[base[c]] THEN base[c] ELSE NoBase

\* The nearest base class of c that declares m, if any.
DeclaringBase(c, m) ==
  LET nearest[t \in Type] ==
        IF base[t] = NoBase \/ m \in methods[base[t]] THEN base[t] ELSE nearest[base[t]]
  IN  nearest[c]

\* extractOverrides: the nearest base method, and those of the interfaces that
\* the class itself names.
Overridden(c, m) ==
  {t \in {DeclaringBase(c, m)} \ {NoBase} : InProject(t)}
    \cup {i \in supers[c] : typeKind[i] = "interface" /\ InProject(i) /\ m \in methods[i]}

ExtractClass(c) ==
  {HeritageEdge("EXTENDS", <<c>>, <<t>>) : t \in {b \in {base[c]} \ {NoBase} : InProject(b)}}
    \cup {HeritageEdge("IMPLEMENTS", <<c>>, <<s>>) : s \in {t \in supers[c] : InProject(t)}}
    \cup (UNION {{HeritageEdge("OVERRIDES", <<c, m>>, <<t, m>>) : t \in Overridden(c, m)} : m \in methods[c]})

ExtractInterface(i) == {HeritageEdge("EXTENDS", <<i>>, <<s>>) : s \in {t \in supers[i] : InProject(t)}}

Extract ==
  /\ ~extracted
  /\ extracted' = TRUE
  /\ heritage' = UNION {IF typeKind[t] = "class" THEN ExtractClass(t) ELSE ExtractInterface(t) : t \in EmittedType}
  /\ UNCHANGED <<typeKind, place, base, supers, methods>>

HeritageNext == Extract

HeritageSpec == HeritageInit /\ [][HeritageNext]_heritageVars

\* load drops the edges without both ends.
LoadedHeritage == {e \in heritage : {e.from, e.to} \subseteq TypeNodes}

-----------------------------------------------------------------------------
\* All proper base classes of c.
Bases ==
  LET bases[t \in Type] == IF base[t] = NoBase THEN {} ELSE {base[t]} \cup bases[base[t]]
  IN  bases

\* The base classes that declare m, up to the first such one that is no node.
Replaced(c, m) ==
  {a \in Bases[c] : m \in methods[a]
                    /\ \A b \in Bases[c] : b >= a /\ m \in methods[b] => b \in EmittedType}

\* Where OVERRIDES leads from method m of c.
Leads(m) ==
  LET leads[t \in Type] ==
        LET next == {e.to[1] : e \in {x \in LoadedHeritage : x.kind = "OVERRIDES" /\ x.from = <<t, m>>}}
        IN  next \cup (UNION {leads[s] : s \in next})
  IN  leads

(***************************************************************************)
(* "The nearest base-class method of the same name, and any implemented     *)
(* interface method of the same name": from a method OVERRIDES leads, step  *)
(* by step, to that method in every base class that declares it, up to one  *)
(* that is not in the graph, however many classes lie between them, and to  *)
(* that method of each interface which it or one of those classes names; it *)
(* leads nowhere else, and at one step to one class at most.                *)
(***************************************************************************)
OverridesReach ==
  extracted =>
    \A c \in EmittedType : \A m \in methods[c] :
      /\ typeKind[c] = "class" =>
           Leads(m)[c] = Replaced(c, m) \cup
             {i \in EmittedType : typeKind[i] = "interface" /\ m \in methods[i]
                                  /\ \E a \in {c} \cup Replaced(c, m) : i \in supers[a]}
      /\ Cardinality({e \in LoadedHeritage : e.kind = "OVERRIDES" /\ e.from = <<c, m>>
                                             /\ typeKind[e.to[1]] = "class"}) <= 1

-----------------------------------------------------------------------------
(* The inductive invariant: what the type checker guarantees of classes and *)
(* interfaces, and of what the edges were extracted.                        *)

TypesOK ==
  /\ typeKind \in [Type -> {"class", "interface"}]
  /\ base \in [Type -> 0 .. K - 1] /\ supers \in [Type -> SUBSET Type]
  /\ \A t \in Type : /\ base[t] < t /\ (base[t] # NoBase => typeKind[base[t]] = "class")
                     /\ \A s \in supers[t] : s < t
  /\ methods \in [Type -> SUBSET Method]

HeritageIInv ==
  /\ TypesOK
  /\ extracted =>
       heritage = UNION {IF typeKind[t] = "class" THEN ExtractClass(t) ELSE ExtractInterface(t) : t \in EmittedType}

-----------------------------------------------------------------------------
(***************************************************************************)
(* edge.ts, of OVERRIDES: "The source method overrides the base-class       *)
(* member it replaces", and extractOverrides: "any implemented interface    *)
(* method of the same name": it leads to the methods of the interfaces that *)
(* an implemented interface extends, too.                                   *)
(***************************************************************************)
InheritedMembersOverridden ==
  extracted =>
    \A c \in EmittedType : \A m \in methods[c] :
      \A i \in supers[c] : \A j \in supers[i] \cap EmittedType :
        typeKind[c] = "class" /\ i \in EmittedType /\ typeKind[i] = "interface" /\ m \in methods[j]
          => j \in Leads(m)[c]
=============================================================================
