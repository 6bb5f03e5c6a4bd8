----------------------------- MODULE ApprovalGate -----------------------------
(***************************************************************************)
(* The human-approval gate (`--gate human`).  The MCP server remembers, per *)
(* session and in memory, the tier of every proposal it passed on.  A COMMIT*)
(* of a HIGH or CRITICAL proposal polls the control plane for the owner's   *)
(* decision; undecided, it is registered for approval and held.  When the   *)
(* owner approves, the control plane itself commits the proposal to the     *)
(* adapter that is active then.  Both committers use a key of their own.    *)
(*                                                                          *)
(* An adapter is what CommitOnce promises: one key, at most one write.      *)
(***************************************************************************)
EXTENDS Integers, FiniteSets

CONSTANTS
  Sessions,   \* agent connections of the MCP server
  Calls,      \* nil_commit calls running at the same time
  Proposals,  \* proposal ids
  Gated,      \* the proposals of tier HIGH or CRITICAL
  Adapters,
  Faults,     \* what the environment may do, see AllFaults
  None

AllFaults ==
  { "mcp_restart",     \* the MCP server loses its memory and its calls
    "cp_restart",      \* the control plane dies in a handler; its tables stay
    "edge_restart",    \* an adapter loses its proposals and its ledger
    "cp_unreachable",  \* the MCP server cannot reach the control plane
    "unreachable",     \* an adapter does not answer, whether it wrote or not
    "reject",          \* a backend refuses a write
    "switch",          \* another adapter is activated, or none
    "foreign",         \* a session commits a proposal it did not make
    "recommit" }       \* a session commits a proposal more than once

ControlPlane == "cp-approve"

ASSUME GateAssumption ==
  /\ Gated \subseteq Proposals
  /\ Faults \subseteq AllFaults
  /\ ControlPlane \notin Sessions
  /\ None \notin Adapters \cup Sessions \cup Proposals

\* The idempotency key is a hash of the committer and the proposal.
Keys == (Sessions \cup {ControlPlane}) \X Proposals

VARIABLES
  active,     \* any_active_adapter of the control plane's registry
  route,      \* the adapter each session's cached NilTools is bound to
  by,         \* history: the session that made a proposal
  home,       \* the adapter a proposal was made on
  memory,     \* NilTools._proposals, the tiers: session -> proposals
  approvals,  \* the approvals table; "unknown" is no row
  execution,  \* the control plane's commit of an approved proposal
  call,       \* the nil_commit calls in progress
  told,       \* history: proposals some caller was told are held
  known,      \* proposals the adapters still have
  ledger,     \* keys the adapters' ledgers have
  writes      \* history: backend writes of a proposal; 2 is "2 or more"

mcp == <<route, memory, call, told>>
cp == <<active, approvals, execution>>
edge == <<known, ledger, writes>>
vars == <<by, home, mcp, cp, edge>>

NoCall == [pc |-> "idle", session |-> None, proposal |-> None]

CallState ==
  {NoCall} \cup
  [pc : {"poll", "await", "commit"}, session : Sessions, proposal : Proposals]

TypeOK ==
  /\ active \in Adapters \cup {None}
  /\ route \in [Sessions -> Adapters \cup {None}]
  /\ by \in [Proposals -> Sessions \cup {None}]
  /\ home \in [Proposals -> Adapters \cup {None}]
  /\ memory \in [Sessions -> SUBSET Proposals]
  /\ approvals \in [Proposals -> {"unknown", "pending", "approved", "rejected"}]
  /\ execution \in [Proposals -> {"none", "committing", "executed", "failed"}]
  /\ call \in [Calls -> CallState]
  /\ told \subseteq Proposals
  /\ known \subseteq Proposals
  /\ ledger \subseteq Keys
  /\ writes \in [Proposals -> 0..2]

Init ==
  /\ active \in Adapters
  /\ route = [s \in Sessions |-> None]
  /\ by = [p \in Proposals |-> None]
  /\ home = [p \in Proposals |-> None]
  /\ memory = [s \in Sessions |-> {}]
  /\ approvals = [p \in Proposals |-> "unknown"]
  /\ execution = [p \in Proposals |-> "none"]
  /\ call = [c \in Calls |-> NoCall]
  /\ told = {}
  /\ known = {}
  /\ ledger = {}
  /\ writes = [p \in Proposals |-> 0]

-----------------------------------------------------------------------------
(* The adapter, as seen from here.                                          *)

Again(n) == IF n = 0 THEN 1 ELSE 2

Writes(key) ==
  /\ ledger' = ledger \cup {key}
  /\ writes' = [writes EXCEPT ![key[2]] = Again(@)]
  /\ UNCHANGED known

\* A COMMIT reaches adapter a: replayed, expired, refused by the backend, or
\* written; and the answer comes back or it does not.
EdgeCommit(a, key, answered) ==
  /\ answered \/ "unreachable" \in Faults
  /\ \/ /\ \/ key \in ledger
           \/ home[key[2]] # a
           \/ key[2] \notin known
           \/ "reject" \in Faults
           \/ ~answered
        /\ UNCHANGED edge
     \/ /\ key \notin ledger /\ home[key[2]] = a /\ key[2] \in known
        /\ Writes(key)

-----------------------------------------------------------------------------
(* The MCP server.                                                          *)

\* TenantToolsProvider.get: a session's tools are built once, on the adapter that
\* is active then, and cached.
Bound(s) == IF route[s] = None THEN active ELSE route[s]

Bind(s) == route' = [route EXCEPT ![s] = Bound(s)]

Propose(s, p) ==
  /\ by[p] = None /\ Bound(s) # None
  /\ Bind(s)
  /\ by' = [by EXCEPT ![p] = s]
  /\ home' = [home EXCEPT ![p] = Bound(s)]
  /\ known' = known \cup {p}
  /\ memory' = [memory EXCEPT ![s] = @ \cup {p}]
  /\ UNCHANGED <<call, told, cp, ledger, writes>>

InCall(p) == \E c \in Calls : call[c].proposal = p

\* nil_commit: only a tier that is remembered, and gated, is held back.
Commit(c, s, p) ==
  /\ call[c].pc = "idle" /\ by[p] # None /\ Bound(s) # None
  /\ by[p] = s \/ "foreign" \in Faults
  /\ \/ "recommit" \in Faults
     \/ ~InCall(p) /\ p \notin told /\ writes[p] = 0
  /\ Bind(s)
  /\ call' = [call EXCEPT ![c] =
       [pc       |-> IF p \in memory[s] \cap Gated THEN "poll" ELSE "commit",
        session  |-> s,
        proposal |-> p]]
  /\ UNCHANGED <<by, home, memory, told, cp, edge>>

Hold(c) ==
  /\ call' = [call EXCEPT ![c] = NoCall]
  /\ told' = told \cup {call[c].proposal}

\* GET /proposals/{id}/decision.
Poll(c) ==
  LET p == call[c].proposal IN
  /\ call[c].pc = "poll"
  /\ \/ /\ approvals[p] = "approved"
        /\ call' = [call EXCEPT ![c].pc = "commit"]
        /\ UNCHANGED told
     \/ /\ approvals[p] = "rejected"
        /\ call' = [call EXCEPT ![c] = NoCall]
        /\ UNCHANGED told
     \/ /\ approvals[p] \in {"unknown", "pending"}
        /\ call' = [call EXCEPT ![c].pc = "await"]
        /\ UNCHANGED told
     \/ /\ "cp_unreachable" \in Faults
        /\ Hold(c)
  /\ UNCHANGED <<by, home, route, memory, cp, edge>>

\* Mutant of Await: the row is written without looking whether one is there.
Await_Upserts(c) ==
  LET p == call[c].proposal IN
  /\ call[c].pc = "await"
  /\ approvals' = [approvals EXCEPT ![p] = "pending"]
  /\ Hold(c)
  /\ UNCHANGED <<by, home, route, memory, active, execution, edge>>

\* Mutant of Await: the row is kept back until the next call.
Await_NoRow(c) ==
  /\ call[c].pc = "await"
  /\ Hold(c)
  /\ UNCHANGED <<by, home, route, memory, cp, edge>>

\* POST /proposals/{id}/await registers a proposal, but keeps a row that is there;
\* a lost request is swallowed.  Either way the caller is told it is held.
Await(c) ==
  LET p == call[c].proposal IN
  /\ call[c].pc = "await"
  /\ \/ approvals' = [approvals EXCEPT ![p] =
                        IF @ = "unknown" THEN "pending" ELSE @]
     \/ "cp_unreachable" \in Faults /\ UNCHANGED approvals
  /\ Hold(c)
  /\ UNCHANGED <<by, home, route, memory, active, execution, edge>>

SendCommit(c) ==
  LET s == call[c].session  p == call[c].proposal IN
  /\ call[c].pc = "commit"
  /\ \E answered \in BOOLEAN : EdgeCommit(route[s], <<s, p>>, answered)
  /\ call' = [call EXCEPT ![c] = NoCall]
  /\ UNCHANGED <<by, home, route, memory, told, cp>>

-----------------------------------------------------------------------------
(* The control plane.                                                       *)

\* Mutant of Decide: the last click wins, and every approval executes.
Decide_AnyRow(p, status) ==
  /\ approvals[p] # "unknown"
  /\ approvals' = [approvals EXCEPT ![p] = status]
  /\ execution' = [execution EXCEPT ![p] =
                     IF status = "approved" THEN "committing" ELSE @]
  /\ UNCHANGED <<by, home, mcp, active, edge>>

\* Only a pending row changes; an approval goes on to execute.
Decide(p, status) ==
  /\ approvals[p] = "pending"
  /\ approvals' = [approvals EXCEPT ![p] = status]
  /\ execution' = [execution EXCEPT ![p] =
                     IF status = "approved" THEN "committing" ELSE @]
  /\ UNCHANGED <<by, home, mcp, active, edge>>

\* Mutant of ExecuteApproved: reported before it is sent, and never sent.
ExecuteApproved_Reports(p) ==
  /\ execution[p] = "committing"
  /\ execution' = [execution EXCEPT ![p] = "executed"]
  /\ UNCHANGED <<by, home, mcp, active, approvals, edge>>

\* _execute_approved commits to the adapter that is active now.  Whatever the
\* adapter answers counts as executed, a refusal too.
ExecuteApproved(p) ==
  /\ execution[p] = "committing"
  /\ \/ /\ active = None
        /\ execution' = [execution EXCEPT ![p] = "failed"]
        /\ UNCHANGED edge
     \/ /\ active # None
        /\ \E answered \in BOOLEAN :
             /\ EdgeCommit(active, <<ControlPlane, p>>, answered)
             /\ execution' = [execution EXCEPT ![p] =
                                IF answered THEN "executed" ELSE "failed"]
  /\ UNCHANGED <<by, home, mcp, active, approvals>>

Activate(a) ==
  /\ "switch" \in Faults
  /\ active' = a
  /\ UNCHANGED <<by, home, mcp, approvals, execution, edge>>

-----------------------------------------------------------------------------
(* Restarts.                                                                *)

McpRestart ==
  /\ "mcp_restart" \in Faults
  /\ route' = [s \in Sessions |-> None]
  /\ memory' = [s \in Sessions |-> {}]
  /\ call' = [c \in Calls |-> NoCall]
  /\ UNCHANGED <<by, home, told, cp, edge>>

CpRestart ==
  /\ "cp_restart" \in Faults
  /\ execution' = [p \in Proposals |->
                     IF execution[p] = "committing" THEN "none" ELSE execution[p]]
  /\ UNCHANGED <<by, home, mcp, active, approvals, edge>>

\* Mutant of EdgeRestart: proposals are durable, the ledger is not.
EdgeRestart_KeepsProposals(a) ==
  /\ "edge_restart" \in Faults
  /\ ledger' = {k \in ledger : home[k[2]] # a}
  /\ UNCHANGED <<by, home, mcp, cp, known, writes>>

EdgeRestart(a) ==
  /\ "edge_restart" \in Faults
  /\ known' = {p \in known : home[p] # a}
  /\ ledger' = {k \in ledger : home[k[2]] # a}
  /\ UNCHANGED <<by, home, mcp, cp, writes>>

CallStep(c) == Poll(c) \/ Await(c) \/ SendCommit(c)

Next ==
  \/ \E s \in Sessions, p \in Proposals : Propose(s, p)
  \/ \E c \in Calls, s \in Sessions, p \in Proposals : Commit(c, s, p)
  \/ \E c \in Calls : CallStep(c)
  \/ \E p \in Proposals, status \in {"approved", "rejected"} : Decide(p, status)
  \/ \E p \in Proposals : ExecuteApproved(p)
  \/ \E a \in Adapters \cup {None} : Activate(a)
  \/ McpRestart
  \/ CpRestart
  \/ \E a \in Adapters : EdgeRestart(a)

Spec == Init /\ [][Next]_vars

\* A request that was accepted is served: handlers and calls go on.  Nobody owes
\* a proposal, a commit or a decision.
Fairness ==
  /\ \A c \in Calls : WF_vars(CallStep(c))
  /\ \A p \in Proposals : WF_vars(ExecuteApproved(p))

FairSpec == Spec /\ Fairness
-----------------------------------------------------------------------------
(* Properties.                                                              *)

\* The gate: a HIGH or CRITICAL proposal has no effect before the owner approved
\* it, nor after the owner rejected it, whichever committer gets there first.
HeldUntilApproved ==
  \A p \in Gated : writes[p] > 0 => approvals[p] = "approved"

\* A decision is final: no later registration, poll or click changes it.
DecisionIsFinal ==
  [][\A p \in Proposals : approvals[p] \in {"approved", "rejected"}
                            => approvals'[p] = approvals[p]]_vars

\* What anyone is told is so: what a caller was told is held is on the owner's list or
\* decided already, and what the control plane reports executed was written.
WhatIsToldIsSo ==
  /\ \A p \in told : approvals[p] # "unknown"
  /\ \A p \in Proposals : execution[p] = "executed" => writes[p] > 0

\* However many committers race and retry, one proposal is written once.
WrittenOnce == \A p \in Proposals : writes[p] <= 1

\* A proposal below the gate has one committer, its session: it is written once
\* under retries, lost answers, adapter switches and restarts.
UngatedWrittenOnce == \A p \in Proposals \ Gated : writes[p] <= 1

\* An approval drives the effect: what the owner approved comes to be written.
ApprovalDrivesEffect ==
  \A p \in Proposals : approvals[p] = "approved" ~> writes[p] > 0
=============================================================================
