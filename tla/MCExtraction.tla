----------------------------- MODULE MCExtraction ---------------------------
(***************************************************************************)
(* The semantic extraction of uses and that of heritage, which share the    *)
(* graph but none of their inputs, so a behaviour has one.                  *)
(***************************************************************************)
EXTENDS SemanticGraph, Heritage

VARIABLE part

MCInit ==
  \/ /\ part = "uses" /\ Init
     /\ typeKind = <<>> /\ place = <<>> /\ base = <<>> /\ supers = <<>> /\ methods = <<>>
     /\ heritage = {} /\ extracted = FALSE
  \/ /\ part = "heritage" /\ HeritageInit
     /\ kind = <<>> /\ parent = <<>> /\ uses = <<>> /\ pending = {} /\ edges = <<>>
     /\ phase = "none" /\ loaded = {}

MCNext ==
  /\ UNCHANGED part
  /\ \/ part = "uses" /\ Next /\ UNCHANGED heritageVars
     \/ part = "heritage" /\ HeritageNext /\ UNCHANGED vars

MCSpec == MCInit /\ [][MCNext]_<<part, vars, heritageVars>>
=============================================================================
