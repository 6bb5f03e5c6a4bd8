-------------------------------- MODULE Plan --------------------------------
(***************************************************************************)
(* A plan, as WosoolProgram parses it: nodes by id, an entry, and what to  *)
(* do when an action is refused.  Of a node's references only the steps    *)
(* they name are kept; verbs, skills, arguments and texts are left out.    *)
(***************************************************************************)
EXTENDS Integers, Sequences, FiniteSets

CONSTANTS
  Nodes,      \* ids of plan nodes
  End         \* no node

Targets == Nodes \cup {End}

\* uses: the steps a node's references name.  undo: the compensation's.
\* error: the target of the node's own error policy.
Node ==
  [type : {"action"}, next : Targets, uses : SUBSET Nodes, error : Targets,
   undo : {End} \cup [uses : SUBSET Nodes]]
    \cup [type : {"query"}, next : Targets, uses : SUBSET Nodes, error : Targets]
    \cup [type : {"condition"}, on_true : Nodes, on_false : Targets,
          next : Targets, uses : SUBSET Nodes]
    \cup [type : {"await_approval"}, on_approved : Nodes, on_rejected : Targets,
          on_timeout : Targets, uses : SUBSET Nodes]
    \cup [type : {"parallel"}, branches : Seq(Nodes), next : Targets,
          uses : {{}}]
    \cup [type : {"foreach"}, body : Nodes, next : Targets, uses : SUBSET Nodes]
    \cup [type : {"notify", "wait"}, next : Targets, uses : SUBSET Nodes]

\* Ids are unique in a plan; a target need not be the id of one of its nodes.
IsProgram(p) ==
  /\ p \in [entry : Nodes, on_error : {"halt", "continue", "compensate"},
            nodes : [DOMAIN p.nodes -> Node]]
  /\ DOMAIN p.nodes \subseteq Nodes /\ IsFiniteSet(DOMAIN p.nodes)

ASSUME PlanAssumption ==
  /\ End \notin Nodes
  /\ End \notin [uses : SUBSET Nodes]
=============================================================================
