------------------------- MODULE ApprovalGate_proofs -------------------------
(***************************************************************************)
(* Proofs about ApprovalGate, for every value of its constants.            *)
(***************************************************************************)
EXTENDS ApprovalGate, TLAPS

LEMMA EdgeCommitType ==
  ASSUME TypeOK, NEW a \in Adapters \cup {None}, NEW key \in Keys,
         NEW answered \in BOOLEAN, EdgeCommit(a, key, answered)
  PROVE  /\ known' \subseteq Proposals
         /\ ledger' \subseteq Keys
         /\ writes' \in [Proposals -> 0..2]
         /\ \A p \in Proposals : p # key[2] => writes'[p] = writes[p]
<1>1. key[2] \in Proposals
  BY DEF Keys
<1>2. CASE UNCHANGED edge
  BY <1>2 DEF TypeOK, edge
<1>3. CASE Writes(key)
  BY <1>1, <1>3 DEF TypeOK, Writes, Again
<1>4. QED
  BY <1>2, <1>3 DEF EdgeCommit

\* The tables, memories and calls of the gate are well formed under every fault.
THEOREM GateTypeCorrect == Spec => []TypeOK
<1>1. Init => TypeOK
  BY DEF Init, TypeOK, CallState
<1>2. TypeOK /\ [Next]_vars => TypeOK'
  <2> SUFFICES ASSUME TypeOK, [Next]_vars PROVE TypeOK'
    OBVIOUS
  <2> USE DEF TypeOK
  <2>1. ASSUME NEW s \in Sessions, NEW p \in Proposals, Propose(s, p)
        PROVE  TypeOK'
    BY <2>1 DEF Propose, Bind, Bound, cp
  <2>2. ASSUME NEW c \in Calls, NEW s \in Sessions, NEW p \in Proposals,
               Commit(c, s, p)
        PROVE  TypeOK'
    <3>1. [pc |-> IF p \in memory[s] \cap Gated THEN "poll" ELSE "commit",
           session |-> s, proposal |-> p] \in CallState
      BY DEF CallState
    <3>2. QED
      BY <2>2, <3>1 DEF Commit, Bind, Bound, cp, edge
  <2>3. ASSUME NEW c \in Calls, Poll(c) PROVE TypeOK'
    <3>1. call[c] \in CallState /\ call[c] # NoCall
      BY <2>3 DEF Poll, NoCall
    <3>2. [call[c] EXCEPT !.pc = "commit"] \in CallState
      BY <3>1 DEF CallState
    <3>3. [call[c] EXCEPT !.pc = "await"] \in CallState
      BY <3>1 DEF CallState
    <3>4. call[c].proposal \in Proposals /\ NoCall \in CallState
      BY <3>1 DEF CallState
    <3>5. QED
      BY <2>3, <3>2, <3>3, <3>4 DEF Poll, Hold, cp, edge
  <2>4. ASSUME NEW c \in Calls, Await(c) PROVE TypeOK'
    <3>1. call[c].proposal \in Proposals /\ NoCall \in CallState
      BY <2>4 DEF Await, NoCall, CallState
    <3>2. QED
      BY <2>4, <3>1 DEF Await, Hold, edge
  <2>5. ASSUME NEW c \in Calls, SendCommit(c) PROVE TypeOK'
    <3>1. /\ <<call[c].session, call[c].proposal>> \in Keys
          /\ route[call[c].session] \in Adapters \cup {None}
          /\ call' \in [Calls -> CallState]
      BY <2>5 DEF SendCommit, NoCall, CallState, Keys
    <3>2. PICK answered \in BOOLEAN :
            EdgeCommit(route[call[c].session],
                       <<call[c].session, call[c].proposal>>, answered)
      BY <2>5 DEF SendCommit
    <3>3. /\ known' \subseteq Proposals
          /\ ledger' \subseteq Keys
          /\ writes' \in [Proposals -> 0..2]
      <4> HIDE DEF TypeOK
      <4>1. QED
        BY <3>1, <3>2, EdgeCommitType
    <3>4. QED
      BY <2>5, <3>1, <3>3 DEF SendCommit, cp
  <2>6. ASSUME NEW p \in Proposals, NEW status \in {"approved", "rejected"},
               Decide(p, status)
        PROVE  TypeOK'
    BY <2>6 DEF Decide, mcp, edge
  <2>7. ASSUME NEW p \in Proposals, ExecuteApproved(p) PROVE TypeOK'
    <3>1. CASE UNCHANGED edge
      BY <2>7, <3>1 DEF ExecuteApproved, mcp, edge
    <3>2. CASE \E answered \in BOOLEAN :
                 EdgeCommit(active, <<ControlPlane, p>>, answered)
      BY <2>7, <3>2, EdgeCommitType DEF ExecuteApproved, mcp, Keys
    <3>3. QED
      BY <2>7, <3>1, <3>2 DEF ExecuteApproved
  <2>8. ASSUME NEW a \in Adapters \cup {None}, Activate(a) PROVE TypeOK'
    BY <2>8 DEF Activate, mcp, edge
  <2>9. CASE McpRestart
    BY <2>9 DEF McpRestart, cp, edge, CallState
  <2>10. CASE CpRestart
    BY <2>10 DEF CpRestart, mcp, edge
  <2>11. ASSUME NEW a \in Adapters, EdgeRestart(a) PROVE TypeOK'
    BY <2>11 DEF EdgeRestart, mcp, cp
  <2>12. CASE UNCHANGED vars
    BY <2>12 DEF vars, mcp, cp, edge
  <2>13. QED
    BY <2>1, <2>2, <2>3, <2>4, <2>5, <2>6, <2>7, <2>8, <2>9, <2>10, <2>11,
       <2>12
    DEF Next, CallStep
<1>3. QED
  BY <1>1, <1>2, PTL DEF Spec

-----------------------------------------------------------------------------
(* Decisions are final.                                                     *)

\* No step of the agents, the control plane or the environment ever takes back a
\* decision the owner made, in whatever order registrations, polls, clicks and
\* restarts arrive.
THEOREM DecisionsAreFinal == Spec => DecisionIsFinal
<1>1. TypeOK /\ [Next]_vars =>
        [\A p \in Proposals : approvals[p] \in {"approved", "rejected"}
                                => approvals'[p] = approvals[p]]_vars
  <2> SUFFICES ASSUME TypeOK, [Next]_vars,
                      NEW p \in Proposals,
                      approvals[p] \in {"approved", "rejected"}
               PROVE  approvals'[p] = approvals[p]
    OBVIOUS
  <2>1. CASE UNCHANGED approvals
    BY <2>1
  <2>2. ASSUME NEW c \in Calls, Await(c) PROVE approvals'[p] = approvals[p]
    BY <2>2 DEF Await, TypeOK
  <2>3. ASSUME NEW q \in Proposals, NEW status \in {"approved", "rejected"},
               Decide(q, status)
        PROVE  approvals'[p] = approvals[p]
    BY <2>3 DEF Decide, TypeOK
  <2>4. QED
    BY <2>1, <2>2, <2>3
    DEF Next, CallStep, Propose, Commit, Poll, SendCommit, ExecuteApproved,
        Activate, McpRestart, CpRestart, EdgeRestart, vars, cp
<1>2. QED
  BY <1>1, GateTypeCorrect, PTL DEF Spec, DecisionIsFinal

-----------------------------------------------------------------------------
(* The gate holds, as long as the MCP server keeps its memory and sessions  *)
(* commit what they proposed themselves.                                    *)

Remembers == Faults \cap {"mcp_restart", "foreign"} = {}

\* The tier is remembered where it is looked up; whoever is about to commit a
\* gated proposal has an approval behind it.
GateInv ==
  /\ \A p \in Proposals : by[p] # None => p \in memory[by[p]]
  /\ \A c \in Calls : call[c].pc = "commit" /\ call[c].proposal \in Gated
                        => approvals[call[c].proposal] = "approved"
  /\ \A p \in Proposals : execution[p] = "committing" => approvals[p] = "approved"
  /\ HeldUntilApproved

\* A step that moves no call towards a commit, writes nothing and takes back no
\* approval.
LEMMA QuietGate ==
  ASSUME TypeOK, GateInv,
         UNCHANGED <<by, memory, writes>>,
         \A p \in Proposals : approvals[p] = "approved"
                                => approvals'[p] = "approved",
         \A c \in Calls : call'[c] = call[c] \/ call'[c].pc # "commit",
         \A p \in Proposals : execution'[p] = "committing"
                                => execution[p] = "committing"
  PROVE  GateInv'
<1>1. \A c \in Calls : call[c].pc = "commit" => call[c].proposal \in Proposals
  BY DEF TypeOK, CallState, NoCall
<1>2. QED
  BY <1>1, GateAssumption DEF GateInv, HeldUntilApproved

LEMMA NextGate ==
  ASSUME Remembers, TypeOK, GateInv, [Next]_vars
  PROVE  GateInv'
<1>1. ASSUME NEW s \in Sessions, NEW p \in Proposals, Propose(s, p)
      PROVE  GateInv'
  BY <1>1 DEF Propose, GateInv, HeldUntilApproved, TypeOK, cp
<1>2. ASSUME NEW c \in Calls, NEW s \in Sessions, NEW p \in Proposals,
             Commit(c, s, p)
      PROVE  GateInv'
  <2>1. p \in memory[s]
    BY <1>2 DEF Commit, Remembers, GateInv
  <2>2. call'[c].pc = "commit" => call'[c].proposal \notin Gated
    BY <1>2, <2>1 DEF Commit, TypeOK
  <2>3. /\ \A d \in Calls \ {c} : call'[d] = call[d]
        /\ UNCHANGED <<by, memory, approvals, execution, writes>>
    BY <1>2 DEF Commit, TypeOK, cp, edge
  <2>4. QED
    BY <2>2, <2>3 DEF GateInv, HeldUntilApproved
<1>3. ASSUME NEW c \in Calls, Poll(c) PROVE GateInv'
  <2>1. CASE /\ approvals[call[c].proposal] = "approved"
             /\ call' = [call EXCEPT ![c].pc = "commit"]
    <3>1. call'[c].proposal = call[c].proposal
      BY <1>3, <2>1 DEF Poll, TypeOK, CallState, NoCall
    <3>2. QED
      BY <1>3, <2>1, <3>1
      DEF Poll, TypeOK, GateInv, HeldUntilApproved, cp, edge
  <2>2. CASE call'[c].pc # "commit"
    BY <1>3, <2>2, QuietGate DEF Poll, Hold, TypeOK, cp, edge
  <2>3. QED
    BY <1>3, <2>1, <2>2 DEF Poll, Hold, NoCall, TypeOK, CallState
<1>4. ASSUME NEW c \in Calls, Await(c) PROVE GateInv'
  <2>1. call'[c] = NoCall /\ \A d \in Calls \ {c} : call'[d] = call[d]
    BY <1>4 DEF Await, Hold, TypeOK
  <2>2. \A p \in Proposals : approvals[p] = "approved" => approvals'[p] = "approved"
    BY <1>4 DEF Await, TypeOK
  <2>3. QED
    BY <1>4, <2>1, <2>2, QuietGate DEF Await, NoCall, edge
<1>5. ASSUME NEW c \in Calls, SendCommit(c) PROVE GateInv'
  <2> DEFINE p == call[c].proposal  s == call[c].session
  <2>1. /\ <<s, p>> \in Keys
        /\ s \in Sessions /\ p \in Proposals
        /\ p \in Gated => approvals[p] = "approved"
    BY <1>5 DEF SendCommit, NoCall, TypeOK, CallState, Keys, GateInv
  <2>2. \A q \in Proposals : q # p => writes'[q] = writes[q]
    BY <1>5, <2>1, EdgeCommitType DEF SendCommit, TypeOK
  <2>3. /\ call'[c].pc = "idle"
        /\ \A d \in Calls \ {c} : call'[d] = call[d]
        /\ UNCHANGED <<by, memory, approvals, execution>>
    BY <1>5 DEF SendCommit, NoCall, TypeOK, cp
  <2>4. QED
    BY <2>1, <2>2, <2>3, GateAssumption DEF GateInv, HeldUntilApproved
<1>6. ASSUME NEW p \in Proposals, NEW status \in {"approved", "rejected"},
             Decide(p, status)
      PROVE  GateInv'
  <2>1. approvals[p] = "pending"
    BY <1>6 DEF Decide
  <2>2. \A c \in Calls : call[c].pc = "commit" /\ call[c].proposal \in Gated
                           => approvals'[call[c].proposal] = "approved"
    BY <1>6, <2>1, GateAssumption DEF Decide, TypeOK, GateInv
  <2>3. \A q \in Proposals : execution'[q] = "committing"
                               => approvals'[q] = "approved"
    BY <1>6, <2>1 DEF Decide, TypeOK, GateInv
  <2>4. \A q \in Gated : writes[q] > 0 => approvals'[q] = "approved"
    BY <1>6, <2>1, GateAssumption
    DEF Decide, TypeOK, GateInv, HeldUntilApproved
  <2>5. QED
    BY <1>6, <2>2, <2>3, <2>4 DEF Decide, GateInv, HeldUntilApproved, mcp, edge
<1>7. ASSUME NEW p \in Proposals, ExecuteApproved(p) PROVE GateInv'
  <2>1. approvals[p] = "approved" /\ <<ControlPlane, p>> \in Keys
    BY <1>7 DEF ExecuteApproved, GateInv, Keys
  <2>2. \A q \in Proposals : q # p => writes'[q] = writes[q]
    BY <1>7, <2>1, EdgeCommitType DEF ExecuteApproved, TypeOK, edge
  <2>3. /\ UNCHANGED <<by, memory, call, approvals>>
        /\ \A q \in Proposals : q # p => execution'[q] = execution[q]
    BY <1>7 DEF ExecuteApproved, TypeOK, mcp
  <2>4. QED
    BY <2>1, <2>2, <2>3, GateAssumption DEF GateInv, HeldUntilApproved
<1>8. CASE CpRestart
  BY <1>8, QuietGate DEF CpRestart, TypeOK, mcp, edge
<1>9. CASE \/ \E a \in Adapters \cup {None} : Activate(a)
           \/ \E a \in Adapters : EdgeRestart(a)
           \/ UNCHANGED vars
  BY <1>9, QuietGate DEF Activate, EdgeRestart, vars, mcp, cp, edge
<1>10. ~McpRestart
  BY DEF Remembers, McpRestart
<1>11. QED
  BY <1>1, <1>2, <1>3, <1>4, <1>5, <1>6, <1>7, <1>8, <1>9, <1>10
  DEF Next, CallStep

\* While the MCP server keeps its memory and every session commits only what it
\* proposed, nothing HIGH or CRITICAL is written without the owner's approval,
\* whatever crashes, retries and races happen elsewhere.
THEOREM GateHolds ==
  ASSUME Remembers
  PROVE  Spec => []HeldUntilApproved
<1>1. Init => GateInv
  BY GateAssumption DEF Init, GateInv, HeldUntilApproved, NoCall
<1>2. GateInv => HeldUntilApproved
  BY DEF GateInv
<1>3. QED
  BY <1>1, <1>2, NextGate, GateTypeCorrect, PTL DEF Spec

-----------------------------------------------------------------------------
(* Below the gate a proposal has one committer: the session that made it.   *)

OwnCommits == "foreign" \notin Faults

\* Nothing below the gate reaches the control plane; its calls are its session's;
\* once written, its key is in the ledger for as long as the adapter knows it.
OneCommitter(p) ==
  /\ approvals[p] = "unknown" /\ execution[p] = "none"
  /\ \A c \in Calls : call[c].proposal = p
                        => call[c].pc = "commit" /\ call[c].session = by[p]
  /\ by[p] = None => writes[p] = 0
  /\ writes[p] > 0 => <<by[p], p>> \in ledger \/ p \notin known
  /\ writes[p] <= 1

OneCommitterInv == \A p \in Proposals \ Gated : OneCommitter(p)

\* Steps that only forget, or that only concern other proposals, keep it.
LEMMA QuietCommitter ==
  ASSUME NEW p \in Proposals \ Gated, OneCommitter(p),
         approvals'[p] = approvals[p], execution'[p] = execution[p],
         by'[p] = by[p], writes'[p] = writes[p],
         \A c \in Calls : call'[c] = call[c] \/ call'[c].proposal # p,
         p \in known' => p \in known,
         <<by[p], p>> \in ledger => <<by[p], p>> \in ledger' \/ p \notin known'
  PROVE  OneCommitter(p)'
BY DEF OneCommitter

\* A commit reaches the adapter: at most one write, and the ledger only grows.
LEMMA EdgeCommitEffect ==
  ASSUME TypeOK, NEW a, NEW key \in Keys, NEW answered, EdgeCommit(a, key, answered)
  PROVE  /\ known' = known /\ ledger \subseteq ledger'
         /\ \A q \in Proposals : q # key[2] => writes'[q] = writes[q]
         /\ \/ writes' = writes
            \/ /\ key \notin ledger /\ key[2] \in known
               /\ key \in ledger'
               /\ writes'[key[2]] = Again(writes[key[2]])
<1>1. key[2] \in Proposals
  BY DEF Keys
<1>2. CASE UNCHANGED edge
  BY <1>2 DEF edge
<1>3. CASE Writes(key) /\ key \notin ledger /\ key[2] \in known
  BY <1>1, <1>3 DEF Writes, TypeOK
<1> QED
  BY <1>2, <1>3 DEF EdgeCommit

LEMMA NextOneCommitter ==
  ASSUME OwnCommits, TypeOK, OneCommitterInv, [Next]_vars,
         NEW p \in Proposals \ Gated
  PROVE  OneCommitter(p)'
<1>1. OneCommitter(p)
  BY DEF OneCommitterInv
<1>2. p # None /\ \A s \in Sessions : s # None
  BY GateAssumption
<1>3. \A c \in Calls : call[c].proposal # None => call[c].session \in Sessions
  BY DEF TypeOK, CallState, NoCall
<1>4. ASSUME NEW s \in Sessions, NEW q \in Proposals, Propose(s, q)
      PROVE  OneCommitter(p)'
  <2>1. CASE q # p
    BY <1>1, <1>4, <2>1, QuietCommitter DEF Propose, TypeOK, cp
  <2>2. CASE q = p
    <3>1. writes'[p] = 0 /\ approvals'[p] = "unknown" /\ execution'[p] = "none"
      BY <1>1, <1>4, <2>2 DEF Propose, OneCommitter, cp
    <3>2. \A c \in Calls : call'[c].proposal # p
      BY <1>1, <1>2, <1>3, <1>4, <2>2 DEF Propose, OneCommitter
    <3>3. by'[p] = s
      BY <1>4, <2>2 DEF Propose, TypeOK
    <3> QED
      BY <1>2, <3>1, <3>2, <3>3 DEF OneCommitter
  <2> QED
    BY <2>1, <2>2
<1>5. ASSUME NEW c \in Calls, NEW s \in Sessions, NEW q \in Proposals,
             Commit(c, s, q)
      PROVE  OneCommitter(p)'
  <2>1. /\ UNCHANGED <<approvals, execution, by, writes, known, ledger>>
        /\ \A d \in Calls \ {c} : call'[d] = call[d]
        /\ call'[c].proposal = q
    BY <1>5 DEF Commit, TypeOK, cp, edge
  <2>2. CASE q # p
    BY <1>1, <2>1, <2>2, QuietCommitter
  <2>3. CASE q = p
    <3>1. call'[c].pc = "commit" /\ call'[c].session = by[p]
      BY <1>5, <2>3 DEF Commit, OwnCommits, TypeOK
    <3> QED
      BY <1>1, <2>1, <3>1 DEF OneCommitter
  <2> QED
    BY <2>2, <2>3
<1>6. ASSUME NEW c \in Calls, Poll(c) \/ Await(c)
      PROVE  OneCommitter(p)'
  <2>1. call[c].pc # "commit"
    BY <1>6 DEF Poll, Await
  <2>2. call[c].proposal # p
    BY <1>1, <2>1 DEF OneCommitter
  <2>3. \A d \in Calls : call'[d] = call[d] \/ call'[d].proposal # p
    BY <1>2, <1>6, <2>2 DEF Poll, Await, Hold, NoCall, TypeOK, CallState
  <2>4. approvals'[p] = approvals[p] /\ execution'[p] = execution[p]
    BY <1>6, <2>2 DEF Poll, Await, TypeOK, cp
  <2>5. UNCHANGED <<by, known, ledger, writes>>
    BY <1>6 DEF Poll, Await, edge
  <2> QED
    BY <1>1, <2>3, <2>4, <2>5, QuietCommitter
<1>7. ASSUME NEW c \in Calls, SendCommit(c)
      PROVE  OneCommitter(p)'
  <2> DEFINE q == call[c].proposal  s == call[c].session
  <2>1. <<s, q>> \in Keys /\ q \in Proposals
    BY <1>7 DEF SendCommit, NoCall, TypeOK, CallState, Keys
  <2>2. PICK answered \in BOOLEAN : EdgeCommit(route[s], <<s, q>>, answered)
    BY <1>7 DEF SendCommit
  <2>3. /\ \A d \in Calls : call'[d] = call[d] \/ call'[d].proposal # p
        /\ UNCHANGED <<by, approvals, execution>>
    BY <1>2, <1>7 DEF SendCommit, NoCall, TypeOK, cp
  <2> HIDE DEF q, s
  <2>4. known' = known /\ ledger \subseteq ledger'
    BY <2>1, <2>2, EdgeCommitEffect
  <2>5. CASE writes'[p] = writes[p]
    BY <1>1, <2>3, <2>4, <2>5, QuietCommitter
  <2>6. CASE writes'[p] # writes[p]
    <3>1. /\ q = p /\ <<s, p>> \notin ledger /\ p \in known
          /\ <<s, p>> \in ledger' /\ writes'[p] = Again(writes[p])
      BY <2>1, <2>2, <2>6, EdgeCommitEffect
    <3>2. s = by[p]
      BY <1>1, <3>1 DEF q, s, OneCommitter
    <3>3. writes[p] = 0
      BY <1>1, <3>1, <3>2 DEF OneCommitter, TypeOK
    <3>4. writes'[p] = 1
      BY <3>1, <3>3 DEF Again
    <3>5. by[p] # None
      BY <1>2, <1>3, <2>1, <3>1, <3>2 DEF q, s, Keys, TypeOK
    <3>6. /\ approvals'[p] = "unknown" /\ execution'[p] = "none"
          /\ \A d \in Calls : call'[d].proposal = p
               => call'[d].pc = "commit" /\ call'[d].session = by'[p]
      BY <1>1, <2>3 DEF OneCommitter
    <3> QED
      BY <2>3, <3>1, <3>2, <3>4, <3>5, <3>6 DEF OneCommitter
  <2> QED
    BY <2>5, <2>6
<1>8. ASSUME NEW q \in Proposals, NEW status \in {"approved", "rejected"},
             Decide(q, status)
      PROVE  OneCommitter(p)'
  <2>1. q # p
    BY <1>1, <1>8 DEF Decide, OneCommitter
  <2> QED
    BY <1>1, <1>8, <2>1, QuietCommitter DEF Decide, TypeOK, mcp, edge
<1>9. ASSUME NEW q \in Proposals, ExecuteApproved(q)
      PROVE  OneCommitter(p)'
  <2>1. q # p
    BY <1>1, <1>9 DEF ExecuteApproved, OneCommitter
  <2>2. <<ControlPlane, q>> \in Keys
    BY DEF Keys
  <2>3. known' = known /\ ledger \subseteq ledger' /\ writes'[p] = writes[p]
    BY <1>9, <2>1, <2>2, EdgeCommitEffect DEF ExecuteApproved, edge
  <2>4. UNCHANGED <<by, call, approvals>> /\ execution'[p] = execution[p]
    BY <1>9, <2>1 DEF ExecuteApproved, TypeOK, mcp
  <2> QED
    BY <1>1, <2>3, <2>4, QuietCommitter
<1>10. CASE McpRestart
  BY <1>1, <1>2, <1>10, QuietCommitter DEF McpRestart, NoCall, cp, edge
<1>11. CASE CpRestart
  BY <1>1, <1>11, QuietCommitter DEF CpRestart, OneCommitter, mcp, edge
<1>12. ASSUME NEW a \in Adapters, EdgeRestart(a)
       PROVE  OneCommitter(p)'
  BY <1>1, <1>12, QuietCommitter DEF EdgeRestart, mcp, cp
<1>13. CASE (\E a \in Adapters \cup {None} : Activate(a)) \/ UNCHANGED vars
  BY <1>1, <1>13, QuietCommitter DEF Activate, vars, mcp, cp, edge
<1> QED
  BY <1>4, <1>5, <1>6, <1>7, <1>8, <1>9, <1>10, <1>11, <1>12, <1>13
  DEF Next, CallStep

\* Sessions that commit only what they proposed write a proposal below the gate at
\* most once, whatever retries, lost answers, switches and restarts there are.
THEOREM UngatedWritesOnce ==
  ASSUME OwnCommits
  PROVE  Spec => []UngatedWrittenOnce
<1>1. Init => OneCommitterInv
  BY GateAssumption DEF Init, OneCommitterInv, OneCommitter, NoCall
<1>2. TypeOK /\ OneCommitterInv /\ [Next]_vars => OneCommitterInv'
  BY NextOneCommitter DEF OneCommitterInv
<1>3. OneCommitterInv => UngatedWrittenOnce
  BY DEF OneCommitterInv, OneCommitter, UngatedWrittenOnce
<1> QED
  BY <1>1, <1>2, <1>3, GateTypeCorrect, PTL DEF Spec
-----------------------------------------------------------------------------
(* What callers and owners are told.                                        *)

\* Nothing on the way to the control plane's commit is lost, refused or moved.
Reliable == Faults \cap {"cp_unreachable", "edge_restart", "reject", "switch"} = {}

\* The one adapter has every proposal that anybody speaks of.
OneAdapter ==
  /\ active # None
  /\ \A s \in Sessions : route[s] \in {None, active}
  /\ \A p \in Proposals : by[p] # None => home[p] = active /\ p \in known

Spoken ==
  /\ \A p \in Proposals :
       by[p] = None => approvals[p] = "unknown" /\ execution[p] = "none"
  /\ \A c \in Calls : call[c].pc # "idle" => by[call[c].proposal] # None

\* What is reported was written.
Written ==
  /\ \A k \in ledger : writes[k[2]] > 0
  /\ \A p \in Proposals : execution[p] = "executed" => writes[p] > 0

Listed == \A p \in told : approvals[p] # "unknown"

ToldInv == OneAdapter /\ Spoken /\ Written /\ Listed

\* What a commit reached is written when an answer came.
LEMMA AnsweredIsWritten ==
  ASSUME Reliable, TypeOK, Written, NEW a, NEW key \in Keys, NEW answered \in BOOLEAN,
         home[key[2]] = a, key[2] \in known, EdgeCommit(a, key, answered)
  PROVE  /\ known' = known
         /\ \A p \in Proposals : writes[p] > 0 => writes'[p] > 0
         /\ \A k \in ledger' : writes'[k[2]] > 0
         /\ answered => writes'[key[2]] > 0
<1>1. key[2] \in Proposals /\ \A k \in ledger : k[2] \in Proposals
  BY DEF Keys, TypeOK
<1>2. CASE UNCHANGED edge /\ (key \in ledger \/ ~answered)
  BY <1>1, <1>2 DEF edge, Written
<1>3. CASE Writes(key)
  BY <1>1, <1>3 DEF Writes, Again, Written, TypeOK
<1> QED BY <1>2, <1>3 DEF EdgeCommit, Reliable

LEMMA ToldStep ==
  ASSUME Reliable, TypeOK, ToldInv, [Next]_vars
  PROVE  ToldInv'
<1> USE GateAssumption DEF ToldInv
<1>1. ASSUME NEW s \in Sessions, NEW p \in Proposals, Propose(s, p) PROVE ToldInv'
  <2>1. /\ Bound(s) = active /\ active' = active
        /\ UNCHANGED <<call, told, approvals, execution, ledger, writes>>
    BY <1>1 DEF Propose, Bound, OneAdapter, cp
  <2>2. OneAdapter'
    BY <1>1, <2>1 DEF Propose, Bind, OneAdapter, TypeOK
  <2>3. Spoken'
    BY <1>1, <2>1 DEF Propose, Spoken, TypeOK
  <2> QED BY <2>1, <2>2, <2>3 DEF Written, Listed
<1>2. ASSUME NEW c \in Calls, NEW s \in Sessions, NEW p \in Proposals, Commit(c, s, p)
      PROVE  ToldInv'
  <2>1. /\ Bound(s) = active
        /\ UNCHANGED <<by, home, told, active, approvals, execution, known, ledger, writes>>
    BY <1>2 DEF Commit, Bound, OneAdapter, cp, edge
  <2>2. OneAdapter'
    BY <1>2, <2>1 DEF Commit, Bind, OneAdapter, TypeOK
  <2>3. Spoken'
    BY <1>2, <2>1 DEF Commit, Spoken, TypeOK
  <2> QED BY <2>1, <2>2, <2>3 DEF Written, Listed
<1>3. ASSUME NEW c \in Calls, Poll(c) \/ Await(c) PROVE ToldInv'
  <2> DEFINE p == call[c].proposal
  <2>1. call[c].pc # "idle" /\ p \in Proposals /\ by[p] # None
    BY <1>3 DEF Poll, Await, Spoken, TypeOK, CallState, NoCall
  <2>2. UNCHANGED <<by, home, route, active, execution, known, ledger, writes>>
    BY <1>3 DEF Poll, Await, cp, edge
  <2>3. \A q \in Proposals : /\ approvals[q] # "unknown" => approvals'[q] # "unknown"
                             /\ q # p => approvals'[q] = approvals[q]
    BY <1>3, <2>1 DEF Poll, Await, cp, TypeOK
  <2>4. \A d \in Calls : call'[d].pc # "idle" =>
           call[d].pc # "idle" /\ call'[d].proposal = call[d].proposal
    BY <1>3 DEF Poll, Await, Hold, NoCall, TypeOK, CallState
  <2>5. \/ told' = told
        \/ told' = told \cup {p} /\ approvals'[p] # "unknown"
    BY <1>3, <2>1 DEF Poll, Await, Hold, Reliable, TypeOK
  <2> HIDE DEF p
  <2>6. Spoken'
    BY <2>1, <2>2, <2>3, <2>4 DEF Spoken
  <2>7. Listed'
    BY <2>3, <2>5 DEF Listed, TypeOK
  <2> QED BY <2>2, <2>6, <2>7 DEF OneAdapter, Written
<1>4. ASSUME NEW c \in Calls, SendCommit(c) PROVE ToldInv'
  <2> DEFINE s == call[c].session
             p == call[c].proposal
  <2>1. /\ <<s, p>> \in Keys /\ p \in Proposals /\ by[p] # None
    BY <1>4 DEF SendCommit, NoCall, TypeOK, CallState, Keys, Spoken
  <2>2. PICK answered \in BOOLEAN : EdgeCommit(route[s], <<s, p>>, answered)
    BY <1>4 DEF SendCommit
  <2>3. /\ UNCHANGED <<by, home, route, told, active, approvals, execution>>
        /\ \A d \in Calls : call'[d].pc # "idle" => call'[d] = call[d]
    BY <1>4 DEF SendCommit, NoCall, TypeOK, cp
  <2>4. known' = known
    BY <2>1, <2>2, EdgeCommitEffect
  <2>5. Written'
    <3>1. CASE route[s] = active
      <4>1. home[p] = route[s] /\ p \in known
        BY <2>1, <3>1 DEF OneAdapter
      <4>2. /\ \A q \in Proposals : writes[q] > 0 => writes'[q] > 0
            /\ \A k \in ledger' : writes'[k[2]] > 0
        <5> HIDE DEF s, p
        <5> QED BY <2>1, <2>2, <4>1, AnsweredIsWritten
      <4> QED BY <2>3, <4>2 DEF Written
    <3>2. CASE route[s] # active
      <4>1. route[s] = None /\ home[p] = active /\ active # None
        BY <1>4, <2>1, <3>2 DEF OneAdapter, SendCommit, TypeOK, CallState, NoCall
      <4>2. UNCHANGED edge
        BY <2>1, <2>2, <4>1 DEF EdgeCommit
      <4> QED BY <2>3, <4>2 DEF edge, Written
    <3> QED BY <3>1, <3>2
  <2>6. OneAdapter' /\ Spoken' /\ Listed'
    BY <2>3, <2>4 DEF OneAdapter, Spoken, Listed
  <2> QED BY <2>5, <2>6
<1>5. ASSUME NEW p \in Proposals, NEW status \in {"approved", "rejected"}, Decide(p, status)
      PROVE  ToldInv'
  <2>1. /\ UNCHANGED <<by, home, mcp, active, edge>>
        /\ approvals[p] = "pending"
        /\ approvals' = [approvals EXCEPT ![p] = status]
        /\ execution' = [execution EXCEPT ![p] =
                           IF status = "approved" THEN "committing" ELSE @]
    BY <1>5 DEF Decide
  <2>2. OneAdapter' /\ Spoken'
    BY <2>1 DEF OneAdapter, Spoken, TypeOK, mcp, edge
  <2>3. Written'
    BY <2>1 DEF Written, TypeOK, edge
  <2>4. Listed'
    BY <2>1 DEF Listed, TypeOK, mcp
  <2> QED BY <2>2, <2>3, <2>4
<1>6. ASSUME NEW p \in Proposals, ExecuteApproved(p) PROVE ToldInv'
  <2>1. by[p] # None /\ home[p] = active /\ p \in known /\ active # None
    BY <1>6 DEF ExecuteApproved, Spoken, OneAdapter
  <2>2. PICK answered \in BOOLEAN :
          /\ EdgeCommit(active, <<ControlPlane, p>>, answered)
          /\ execution' = [execution EXCEPT ![p] =
                             IF answered THEN "executed" ELSE "failed"]
    BY <1>6, <2>1 DEF ExecuteApproved
  <2>3. UNCHANGED <<by, home, mcp, active, approvals>>
    BY <1>6 DEF ExecuteApproved
  <2>4. <<ControlPlane, p>> \in Keys
    BY DEF Keys
  <2>5. /\ known' = known
        /\ \A q \in Proposals : writes[q] > 0 => writes'[q] > 0
        /\ \A k \in ledger' : writes'[k[2]] > 0
        /\ answered => writes'[p] > 0
    BY <2>1, <2>2, <2>4, AnsweredIsWritten
  <2>6. Written'
    BY <2>2, <2>5 DEF Written, TypeOK
  <2>7. OneAdapter' /\ Spoken' /\ Listed'
    BY <2>1, <2>2, <2>3, <2>5 DEF OneAdapter, Spoken, Listed, TypeOK, mcp
  <2> QED BY <2>6, <2>7
<1>7. CASE McpRestart
  BY <1>7 DEF McpRestart, OneAdapter, Spoken, Written, Listed, NoCall, cp, edge
<1>8. CASE CpRestart
  BY <1>8 DEF CpRestart, OneAdapter, Spoken, Written, Listed, mcp, edge, TypeOK
<1>9. CASE \/ \E a \in Adapters : EdgeRestart(a)
           \/ \E a \in Adapters \cup {None} : Activate(a)
  BY <1>9 DEF EdgeRestart, Activate, Reliable
<1>10. CASE UNCHANGED vars
  BY <1>10 DEF vars, mcp, cp, edge, OneAdapter, Spoken, Written, Listed
<1> QED
  BY <1>1, <1>2, <1>3, <1>4, <1>5, <1>6, <1>7, <1>8, <1>9, <1>10 DEF Next, CallStep

\* While the control plane is reached and the adapter stays, keeps its proposals and
\* refuses nothing, a caller that is told "held" is on the owner's list and an approval
\* reported executed was written, though committers race, retry and restart.
THEOREM ToldIsSo ==
  ASSUME Reliable
  PROVE  Spec => []WhatIsToldIsSo
<1>1. Init => ToldInv
  BY GateAssumption DEF Init, ToldInv, OneAdapter, Spoken, Written, Listed, NoCall
<1>2. TypeOK /\ ToldInv /\ [Next]_vars => ToldInv'
  BY ToldStep
<1>3. ToldInv => WhatIsToldIsSo
  BY DEF ToldInv, Written, Listed, WhatIsToldIsSo
<1> QED BY <1>1, <1>2, <1>3, GateTypeCorrect, PTL DEF Spec
=============================================================================
