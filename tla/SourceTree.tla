------------------------------ MODULE SourceTree ----------------------------
(***************************************************************************)
(* A source file as the extractors see it: its syntax tree cut down to the  *)
(* nodes that can be scopes, and what structural extraction makes of it.    *)
(* Node 0 is the source file; every other node has a smaller parent, so     *)
(* that among the ancestors of a node the nearest is the largest.           *)
(***************************************************************************)
EXTENDS Integers, FiniteSets, FiniteSetsExt

CONSTANT Size     \* how many nodes the tree has below the file

ASSUME TreeAssumption == Size \in Nat

File == 0
TreeNode == 1 .. Size

\* "arrow" stands for arrow functions and function expressions alike.
Kinds == {"function", "variable", "class", "interface", "method", "property",
          "signature", "object", "arrow"}

\* What the syntax allows below a node of each kind.
Body == {"function", "variable", "class", "interface", "object", "arrow"}
Allowed ==
  [ function |-> Body, method |-> Body, arrow |-> Body, file |-> Body,
    variable |-> {"object", "arrow"}, property |-> {"object", "arrow"},
    object |-> {"method", "object", "arrow"},
    class |-> {"method", "property"},
    interface |-> {"signature"}, signature |-> {} ]

VARIABLES kind, parent

treeVars == <<kind, parent>>

KindOf(d) == IF d = File THEN "file" ELSE kind[d]

Legal == \A d \in TreeNode : kind[d] \in Allowed[KindOf(parent[d])]

TreeInit ==
  /\ kind \in [TreeNode -> Kinds]
  /\ parent \in [TreeNode -> 0 .. Size - 1]
  /\ \A d \in TreeNode : parent[d] < d
  /\ Legal

\* The node and everything around it, the file excluded.
Around ==
  LET around[d \in 0 .. Size] == IF d = File THEN {} ELSE {d} \cup around[parent[d]]
  IN  around

\* getFirstAncestor of an expression standing in node at; File when there is none.
Nearest(at, Test(_)) == Max({File} \cup {d \in Around[at] : Test(d)})

-----------------------------------------------------------------------------
\* extract: the declarations of the file itself, and the members of its classes
\* and interfaces.
TopLevel ==
  {d \in TreeNode : parent[d] = File
                    /\ kind[d] \in {"function", "variable", "class", "interface"}}

MemberOf(c) ==
  {d \in TreeNode : parent[d] = c /\ kind[d] \in {"method", "property", "signature"}}

Emitted == TopLevel \cup UNION {MemberOf(c) : c \in {d \in TopLevel : kind[d] \in {"class", "interface"}}}

\* push: the CONTAINS edges, from the module to its declarations and from these to
\* their members.
Contains == {e \in (0 .. Size) \X Emitted : parent[e[2]] = e[1]}
=============================================================================
