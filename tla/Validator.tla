------------------------------ MODULE Validator ------------------------------
(***************************************************************************)
(* validate: what admits a plan to be stored and run.  Its passes over the *)
(* graph are modelled: dangling targets, Kahn's topological sort, the      *)
(* search from the entry, and the references that point forward in the     *)
(* sort's order.  The nodes of the sort's first queue come from a set, in  *)
(* an order that differs between processes, so a plan is validated a       *)
(* second time, as authoring does after the command line has.              *)
(* The passes that look at one node's verb and arguments are left out.     *)
(***************************************************************************)
EXTENDS Plan, FiniteSets, SequencesExt

CONSTANTS
  Candidates,  \* the plans to be validated
  Times        \* bound: how often a plan is validated

VARIABLES
  program,
  pc,
  degree,     \* in_degree: node -> incoming edges not yet released
  queue,
  order,
  reachable,
  frontier,
  diags,      \* codes of the errors found
  verdicts    \* history: the results so far

search == <<reachable, frontier>>
vars == <<program, pc, degree, queue, order, search, diags, verdicts>>

ids == DOMAIN program.nodes

Codes == {"V2_DANGLING_REF", "V3_CYCLE", "V6_UNREACHABLE", "V6_NO_TERMINAL",
          "V6_FORWARD_REF"}

TypeOK ==
  /\ IsProgram(program)
  /\ pc \in {"references", "sort", "search", "done"}
  /\ degree \in [ids -> Nat]
  /\ queue \in Seq(ids) /\ order \in Seq(ids) /\ frontier \in Seq(ids)
  /\ reachable \subseteq ids
  /\ diags \subseteq Codes
  /\ verdicts \in Seq({"OK", "FAIL"})

Begin(p) ==
  /\ program = p
  /\ pc = "references"
  /\ degree = [n \in ids |-> 0]
  /\ queue = << >>
  /\ order = << >>
  /\ reachable = {}
  /\ frontier = << >>
  /\ diags = {}
  /\ verdicts = << >>

Init == \E p \in Candidates : Begin(p)
-----------------------------------------------------------------------------
Target(node, attr) ==
  IF attr \in DOMAIN node /\ node[attr] # End THEN <<node[attr]>> ELSE << >>

\* The successors in the order in which the passes go through them.
SuccessorTargets(node) ==
  Target(node, "next") \o Target(node, "on_true") \o Target(node, "on_false")
    \o Target(node, "on_approved") \o Target(node, "on_rejected")
    \o Target(node, "on_timeout") \o Target(node, "body")
    \o (IF node.type = "parallel" THEN node.branches ELSE << >>)
    \o Target(node, "error")

Successors(n) == SuccessorTargets(program.nodes[n])

\* Those of them that the plan has.
Edges(n) ==
  LET to == Successors(n)
      kept[i \in 0..Len(to)] ==
        IF i = 0 THEN << >>
        ELSE IF to[i] \in ids THEN Append(kept[i - 1], to[i]) ELSE kept[i - 1]
  IN kept[Len(to)]

Incoming(t) ==
  UNION {{n} \X {i \in DOMAIN Successors(n) : Successors(n)[i] = t} : n \in ids}

\* The steps that the references of n name, wherever in the node they stand; a
\* compensation's are not looked at.
Sources(n) == program.nodes[n].uses

Found(code, condition) == IF condition THEN {code} ELSE {}

Dangling ==
  \/ program.entry \notin ids
  \/ \E n \in ids : ~(ToSet(Successors(n)) \subseteq ids)

\* V2, and the degrees and first queue of V3.
CheckReferences ==
  /\ pc = "references"
  /\ diags' = Found("V2_DANGLING_REF", Dangling)
  /\ degree' = [n \in ids |-> Cardinality(Incoming(n))]
  /\ queue' \in SetToSeqs({n \in ids : degree'[n] = 0})
  /\ order' = << >>
  /\ pc' = "sort"
  /\ UNCHANGED <<program, search, verdicts>>

\* One edge is released; its target is queued when it was the last one.
Release(left, target) ==
  LET d == left.degree[target] - 1 IN
  IF target \notin ids THEN left
  ELSE [degree |-> [left.degree EXCEPT ![target] = d],
        queue  |-> IF d = 0 THEN Append(left.queue, target) ELSE left.queue]

Released(targets, before) ==
  LET left[i \in 0..Len(targets)] ==
        IF i = 0 THEN before ELSE Release(left[i - 1], targets[i])
  IN left[Len(targets)]

\* Mutant of Emit: a target is queued as soon as one of its edges is released.
Emit_First ==
  /\ pc = "sort" /\ queue # << >>
  /\ LET n == Last(queue)
         new == SelectSeq(Edges(n), LAMBDA t : t \notin ToSet(queue \o order))
     IN queue' = Front(queue) \o new /\ order' = Append(order, n)
  /\ UNCHANGED <<program, pc, degree, search, diags, verdicts>>

Emit ==
  /\ pc = "sort" /\ queue # << >>
  /\ LET n == Last(queue)
         left == Released(Successors(n), [degree |-> degree, queue |-> Front(queue)])
     IN /\ order' = Append(order, n)
        /\ degree' = left.degree
        /\ queue' = left.queue
  /\ UNCHANGED <<program, pc, search, diags, verdicts>>

Sorted == Len(order) = Cardinality(ids)

\* The end of V3, and where V6 starts its search.
EndSort ==
  /\ pc = "sort" /\ queue = << >>
  /\ diags' = diags \cup Found("V3_CYCLE", ~Sorted)
  /\ reachable' = {}
  /\ frontier' = IF program.entry \in ids THEN <<program.entry>> ELSE << >>
  /\ pc' = "search"
  /\ UNCHANGED <<program, degree, queue, order, verdicts>>

Visit ==
  /\ pc = "search" /\ frontier # << >>
  /\ LET n == Last(frontier) IN
     /\ frontier' = IF n \in reachable THEN Front(frontier)
                                       ELSE Front(frontier) \o Edges(n)
     /\ reachable' = reachable \cup {n}
  /\ UNCHANGED <<program, pc, degree, queue, order, diags, verdicts>>

Index(n) == CHOOSE i \in DOMAIN order : order[i] = n

\* Mutant of Forward: ids are compared as if steps were numbered in the order in which
\* they run.
Forward_Numbered(n, source) == source \in ids /\ source >= n

\* A reference to a step that is not in the plan is passed over.
Forward(n, source) == source \in ids /\ Index(source) >= Index(n)

\* Mutant of Unreachable: a node outside the search is no error.
Unreachable_Warned == {}

Unreachable == ids \ reachable

EndSearch ==
  /\ pc = "search" /\ frontier = << >>
  /\ diags' = diags
       \cup Found("V6_UNREACHABLE", Unreachable # {})
       \cup Found("V6_NO_TERMINAL",
                  reachable # {} /\ \A n \in reachable : Successors(n) # << >>)
       \cup Found("V6_FORWARD_REF",
                  Sorted /\ \E n \in ids :
                              \E s \in Sources(n) : Forward(n, s))
  /\ verdicts' = Append(verdicts, IF diags' = {} THEN "OK" ELSE "FAIL")
  /\ pc' = "done"
  /\ UNCHANGED <<program, degree, queue, order, search>>

ValidateAgain ==
  /\ pc = "done" /\ Len(verdicts) < Times
  /\ pc' = "references"
  /\ UNCHANGED <<program, degree, queue, order, search, diags, verdicts>>

Next ==
  CheckReferences \/ Emit \/ EndSort \/ Visit \/ EndSearch \/ ValidateAgain

Spec == Init /\ [][Next]_vars

Admitted == pc = "done" /\ diags = {}
-----------------------------------------------------------------------------
(* Properties.                                                              *)

\* What follows n, its successors, theirs, and so on: no set without it has with n, and
\* with each of its own, all that they lead to.
Following(n) ==
  LET after == [s \in ids |-> ToSet(Successors(s)) \cap ids]
  IN {m \in ids : \A C \in SUBSET (ids \ {m}) :
                    \E s \in C \cup {n} : ~(after[s] \subseteq C)}

\* The sort leaves nodes over exactly when some node follows from itself, whatever
\* the order of the queue and however often an edge occurs, and the search finds
\* exactly the entry and what follows from it.
PassesFindWhatIsThere ==
  pc = "done" =>
    /\ ("V3_CYCLE" \in diags) <=> \E n \in ids : n \in Following(n)
    /\ program.entry \in ids =>
         reachable = {program.entry} \cup Following(program.entry)

\* validate() is deterministic: however a process iterates over the set of
\* node ids, it admits the same plans.
SameVerdict == \A i, j \in DOMAIN verdicts : verdicts[i] = verdicts[j]
=============================================================================
