------------------------------- MODULE Executor -------------------------------
(***************************************************************************)
(* LocalExecutor: walks one admitted plan against an adapter and, when an  *)
(* action is refused and the plan says so, unwinds what it has committed.  *)
(*                                                                         *)
(* A parallel node walks its branches as tasks of one event loop, which    *)
(* interleave where they await the adapter; a foreach node walks its body  *)
(* once per item.  A walk is named by its path: the branches and items that*)
(* lead to it from the root.  The adapter keeps the promise of CommitOnce: *)
(* the first COMMIT under a key writes, a later one is replayed.           *)
(***************************************************************************)
EXTENDS Plan

CONSTANTS
  Programs,   \* the plans to be walked
  Faults,     \* among "refusal", "rejected", "lost"
  MaxItems    \* bound: items of a foreach

IsBounded ==
  /\ \A p \in Programs : IsProgram(p)
  /\ Faults \subseteq {"refusal", "rejected", "lost"}
  /\ MaxItems \in Nat

\* The i-th branch of a parallel node, or the item with i - 1 items after it.
Hops == {"branch", "item"} \X (Nat \ {0})

VARIABLES
  program,
  walk,        \* the walks in progress: path -> [at, pc, left]
  ctx,         \* steps whose output is known
  committed,   \* steps whose COMMIT was answered, in order
  phase,
  pending,     \* committed steps the unwind has not reached
  compensated, \* what the trace reports as undone
  sent,        \* history: <<node, path>> of every proposal committed
  effects      \* the adapter: <<what, node, path>> of every COMMIT it wrote or rejected

adapter == <<sent, effects>>
unwind == <<pending, compensated>>
vars == <<program, walk, ctx, committed, phase, unwind, adapter>>

At(n) == [at |-> n, pc |-> "start", left |-> 0]

\* What the adapter did with a COMMIT it rejected.
Rejected(what) == IF what = "do" THEN "do rejected" ELSE "undo rejected"

Whats == {"do", "undo", "do rejected", "undo rejected"}

TypeOK ==
  /\ IsProgram(program)
  /\ DOMAIN walk \subseteq Seq(Hops)
  /\ \A w \in DOMAIN walk :
       walk[w] \in [at : Nodes, pc : {"start", "proposed", "sent", "join", "loop"},
                    left : 0..MaxItems]
  /\ ctx \subseteq Nodes
  /\ committed \in Seq(Nodes)
  /\ phase \in {"walking", "unwinding", "undoing", "completed", "halted", "failed"}
  /\ pending \in Seq(Nodes)
  /\ compensated \in Seq(Nodes)
  /\ sent \subseteq Nodes \X Seq(Hops)
  /\ effects \subseteq Whats \X Nodes \X Seq(Hops)

Begin(p) ==
  /\ program = p
  /\ walk = [w \in {<< >>} |-> At(program.entry)]
  /\ ctx = {}
  /\ committed = << >>
  /\ phase = "walking"
  /\ pending = << >>
  /\ compensated = << >>
  /\ sent = {}
  /\ effects = {}

Init == \E p \in Programs : Begin(p)
-----------------------------------------------------------------------------
(* Walking.                                                                 *)

node(w) == program.nodes[walk[w].at]

NextAfter(n, output) ==
  CASE output = "true" -> n.on_true
    [] output = "false" -> IF n.on_false # End THEN n.on_false ELSE n.next
    [] output = "approved" -> n.on_approved
    [] output = "rejected" -> n.on_rejected
    [] output = "timeout" -> n.on_timeout
    [] OTHER -> n.next

Outputs(n) ==
  CASE n.type = "condition" -> {"true", "false"}
    [] n.type = "await_approval" -> {"approved", "rejected", "timeout"}
    [] OTHER -> {"output"}

Without(paths) == [v \in DOMAIN walk \ paths |-> walk[v]]

IsAbove(v, w) == Len(v) <= Len(w) /\ v = SubSeq(w, 1, Len(v))

Children(w) == {v \in DOMAIN walk : Len(v) = Len(w) + 1 /\ IsAbove(w, v)}

\* Walk w leaves its node with an output; a refusal has none of the fields that
\* references name.
Advance(w, output) ==
  LET next == NextAfter(node(w), output) IN
  /\ ctx' = IF output = "refused" THEN ctx ELSE ctx \cup {walk[w].at}
  /\ walk' = IF next = End THEN Without({w}) ELSE [walk EXCEPT ![w] = At(next)]
  /\ phase' = IF next = End /\ w = << >> THEN "completed" ELSE phase

\* Mutant of Catcher: gather passes the first exception on.
Catcher_Root(w) == << >>

\* An exception passes through the foreach nodes above it and is dropped by the
\* gather of the innermost parallel node; without one it ends the run.
Catcher(w) ==
  CHOOSE v \in {SubSeq(w, 1, k) : k \in 0..Len(w)} :
    /\ v = << >> \/ v[Len(v)][1] = "branch"
    /\ \A i \in (Len(v) + 1)..Len(w) : w[i][1] = "item"

\* Mutant of Raise: a branch that raises is not collected.
Raise_Uncollected(w, outcome) ==
  /\ walk' = IF Catcher(w) = << >> THEN Without({v \in DOMAIN walk : IsAbove(v, w)})
                                   ELSE [walk EXCEPT ![w].pc = "raised"]
  /\ phase' = IF Catcher(w) = << >> THEN outcome ELSE phase
  /\ pending' = IF phase' = "unwinding" THEN committed ELSE pending
  /\ UNCHANGED ctx

Raise(w, outcome) ==
  LET catcher == Catcher(w) IN
  /\ walk' = Without({v \in DOMAIN walk : IsAbove(catcher, v) /\ IsAbove(v, w)})
  /\ phase' = IF catcher = << >> THEN outcome ELSE phase
  /\ pending' = IF phase' = "unwinding" THEN committed ELSE pending
  /\ UNCHANGED ctx

Resolved(w) == node(w).uses \subseteq ctx

\* A reference to a step without output raises; nothing compensates for that.
Unresolved(w) ==
  /\ walk[w].pc = "start"
  /\ ~Resolved(w)
  /\ Raise(w, "failed")
  /\ UNCHANGED <<program, committed, compensated, adapter>>

\* PROPOSE is answered with a proposal or a refusal, or not at all.
Propose(w) ==
  /\ walk[w].pc = "start" /\ node(w).type = "action" /\ Resolved(w)
  /\ \/ /\ walk' = [walk EXCEPT ![w].pc = "proposed"]
        /\ UNCHANGED <<ctx, phase, pending>>
     \/ /\ "refusal" \in Faults /\ program.on_error = "compensate"
        /\ Raise(w, "unwinding")
     \/ /\ "refusal" \in Faults /\ program.on_error # "compensate"
        /\ Advance(w, "refused")
        /\ UNCHANGED pending
     \/ /\ "lost" \in Faults
        /\ Raise(w, "failed")
  /\ UNCHANGED <<program, committed, compensated, adapter>>

\* Mutant of Key: the compensation commits under its step's own key.
Key_NoSuffix(what, n) == n

\* The run's id is the same for all of them.
Key(what, n) == <<what, n>>

\* The adapter gets a COMMIT: what is written under its key is written already, or now,
\* or the adapter rejects it.
Handle(what, n, path) ==
  IF \E e \in effects : Key(e[1], e[2]) = Key(what, n)
  THEN UNCHANGED effects
  ELSE \/ effects' = effects \cup {<<what, n, path>>}
       \/ /\ "rejected" \in Faults
          /\ effects' = effects \cup {<<Rejected(what), n, path>>}

SendCommit(w) ==
  /\ walk[w].pc = "proposed"
  /\ sent' = sent \cup {<<walk[w].at, w>>}
  /\ Handle("do", walk[w].at, w)
  /\ walk' = [walk EXCEPT ![w].pc = "sent"]
  /\ UNCHANGED <<program, ctx, committed, phase, unwind>>

\* The COMMIT's answer: whatever it says, the step counts as committed.
Committed(w) ==
  /\ walk[w].pc = "sent"
  /\ committed' = Append(committed, walk[w].at)
  /\ Advance(w, "outcome")
  /\ UNCHANGED <<program, unwind, adapter>>

CommitLost(w) ==
  /\ walk[w].pc = "sent"
  /\ "lost" \in Faults
  /\ Raise(w, "failed")
  /\ UNCHANGED <<program, committed, compensated, adapter>>

\* A guard may do without a reference, in has(), and may have no truth value.
Compute(w) ==
  /\ walk[w].pc = "start" /\ (Resolved(w) \/ node(w).type = "condition")
  /\ node(w).type \notin {"action", "parallel", "foreach"}
  /\ \/ \E output \in Outputs(node(w)) : Advance(w, output) /\ UNCHANGED pending
     \/ /\ \/ "lost" \in Faults /\ node(w).type \in {"query", "await_approval"}
           \/ node(w).type = "condition"
        /\ Raise(w, "failed")
  /\ UNCHANGED <<program, committed, compensated, adapter>>

Fork(w) ==
  /\ walk[w].pc = "start" /\ node(w).type = "parallel"
  /\ LET branches == node(w).branches
         children == {Append(w, <<"branch", i>>) : i \in DOMAIN branches}
     IN walk' = [v \in DOMAIN walk \cup children |->
                   IF v = w THEN [walk[w] EXCEPT !.pc = "join"]
                   ELSE IF v \in children THEN At(branches[v[Len(v)][2]])
                   ELSE walk[v]]
  /\ UNCHANGED <<program, ctx, committed, phase, unwind, adapter>>

\* gather waits for every branch.
Join(w) ==
  /\ walk[w].pc = "join" /\ Children(w) = {}
  /\ Advance(w, "branches")
  /\ UNCHANGED <<program, committed, unwind, adapter>>

Loop(w) ==
  /\ walk[w].pc = "start" /\ node(w).type = "foreach" /\ Resolved(w)
  /\ \E k \in 0..MaxItems :
       walk' = [walk EXCEPT ![w].pc = "loop", ![w].left = k]
  /\ UNCHANGED <<program, ctx, committed, phase, unwind, adapter>>

NextItem(w) ==
  /\ walk[w].pc = "loop" /\ Children(w) = {}
  /\ \/ /\ walk[w].left > 0
        /\ LET child == Append(w, <<"item", walk[w].left>>) IN
           walk' = [v \in DOMAIN walk \cup {child} |->
                      IF v = w THEN [walk[w] EXCEPT !.left = @ - 1]
                      ELSE IF v = child THEN At(node(w).body)
                      ELSE walk[v]]
        /\ UNCHANGED <<ctx, phase>>
     \/ walk[w].left = 0 /\ Advance(w, "count")
  /\ UNCHANGED <<program, committed, unwind, adapter>>
-----------------------------------------------------------------------------
(* Unwinding.                                                               *)

Ends(outcome) ==
  /\ phase' = outcome
  /\ UNCHANGED <<program, walk, ctx, committed, unwind, adapter>>

\* Mutant of Newest: the unwind starts with the oldest step.
Newest_First(steps) == steps[1]

Newest(steps) == steps[Len(steps)]

\* A step without compensation, or one that is refused, ends the unwind.
UndoPropose ==
  /\ phase = "unwinding"
  /\ IF pending = << >> \/ program.nodes[Newest(pending)].undo = End
     THEN Ends("halted")
     ELSE IF ~(program.nodes[Newest(pending)].undo.uses \subseteq ctx)
     THEN Ends("failed")
     ELSE \/ Ends("undoing")
          \/ "refusal" \in Faults /\ Ends("halted")
          \/ "lost" \in Faults /\ Ends("failed")

UndoCommit ==
  /\ phase = "undoing"
  /\ Handle("undo", Newest(pending), << >>)
  /\ \/ /\ phase' = "unwinding"
        /\ compensated' = Append(compensated, Newest(pending))
        /\ pending' = SubSeq(pending, 1, Len(pending) - 1)
     \/ /\ "lost" \in Faults
        /\ phase' = "failed"
        /\ UNCHANGED unwind
  /\ UNCHANGED <<program, walk, ctx, committed, sent>>

WalkStep(w) ==
  \/ Unresolved(w) \/ Propose(w) \/ SendCommit(w) \/ Committed(w) \/ CommitLost(w)
  \/ Compute(w) \/ Fork(w) \/ Join(w) \/ Loop(w) \/ NextItem(w)

Walk == \E w \in DOMAIN walk : WalkStep(w)

Next == Walk \/ UndoPropose \/ UndoCommit

Spec == Init /\ [][Next]_vars

\* The event loop runs what can run, and a call to the adapter returns or times
\* out.
FairSpec == Spec /\ WF_vars(Next)
-----------------------------------------------------------------------------
(* Properties.                                                              *)

Wrote(what, n) == \E e \in effects : e[1] = what /\ e[2] = n

\* The adapter has answered a COMMIT for step n: it is done, or was rejected.
Tried(what, n) == \E e \in effects : e[1] \in {what, Rejected(what)} /\ e[2] = n

\* A run that has ended or is being unwound has no branch left that still writes.
QuietUnwind == phase # "walking" => walk = << >>

\* A step and its dependents: n was committed before the i-th step and, as another item
\* of a loop or in another branch, again after it.
CommittedAround(n, i) ==
  \E j \in 1..(i - 1), k \in (i + 1)..Len(committed) : committed[j] = n /\ committed[k] = n

\* No step is undone while a committed step that used its output stands, unless the
\* adapter rejected that step's compensation: the unwind goes backwards and stops where it
\* cannot undo, but does not look at what a COMMIT came to.  A step that was committed
\* again has one compensation for all of its commits, at the newest of them.
DependentsFirst ==
  \A i \in 1..Len(committed) :
    \A n \in program.nodes[committed[i]].uses :
      Wrote("undo", n) /\ ~CommittedAround(n, i) => Tried("undo", committed[i])

\* What has been undone is the newest of what was committed, and in the opposite
\* order.
UndoneBackwards ==
  phase \in {"unwinding", "undoing", "halted"} =>
    /\ Len(compensated) <= Len(committed)
    /\ \A i \in 1..Len(compensated) :
         compensated[i] = committed[Len(committed) + 1 - i]

\* Unless the run raised, when it reports nothing, compensated are the steps whose
\* compensation the adapter undid or rejected: all that is undone is named, and what is
\* named and not undone was rejected.
ReportIsTrue ==
  phase # "failed" =>
    \A n \in Nodes :
      Tried("undo", n) <=> \E i \in 1..Len(compensated) : compensated[i] = n

\* Of the proposals of a step that were committed one has been written, and once: those
\* of another item or branch are answered with its result.  Or each was rejected.
WrittenOnce ==
  \A s \in sent :
    LET done == {e \in effects : e[1] = "do" /\ e[2] = s[1]} IN
    \/ \E t \in sent : t[1] = s[1] /\ done = {<<"do", t[1], t[2]>>}
    \/ done = {} /\ \A t \in sent : t[1] = s[1] => <<"do rejected", t[1], t[2]>> \in effects

\* A run that ends reports what the adapter was made to do, and each step whose COMMIT it
\* sent was done, or rejected.
TraceIsTrue == ReportIsTrue /\ WrittenOnce

\* A run ends, whatever its branches do.
RunEnds == <>(phase \in {"completed", "halted", "failed"})
=============================================================================
