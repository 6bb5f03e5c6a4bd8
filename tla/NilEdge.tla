------------------------------- MODULE NilEdge -------------------------------
(***************************************************************************)
(* The adapter edge: the service generated by `nilscript scaffold-shim`    *)
(* that puts PROPOSE, COMMIT, STATUS and ROLLBACK in front of a backend,   *)
(* the system of record.  Its correctness state lives in memory (ShimState)*)
(* and is gone after a restart; the backend's records survive.  COMMIT is a*)
(* synchronous handler, so the server runs each request in a thread of its *)
(* pool and two requests interleave at every call to the backend.          *)
(*                                                                         *)
(* Left out: authentication, wording, the resolution of names to ids and of*)
(* field values, and the propose-time refusals, which change no state.  A  *)
(* record is a function from Fields.                                       *)
(***************************************************************************)
EXTENDS Integers, FiniteSets

CONSTANTS
  Threads,       \* threads of the server's pool that run COMMIT
  Callers,       \* sessions that commit: each mints its own idempotency keys
  Records,       \* ids of the backend's records
  Fields,        \* fields of a record
  Vals,          \* values of a field
  Requests,      \* what may be proposed: [kind, verb, id, data]
  MaxProposals,  \* bound: how many proposals are ever minted
  Faults,        \* what the environment may do, see AllFaults
  None

AllFaults ==
  { "crash",       \* the edge process restarts
    "reject",      \* the backend refuses a write: SystemError
    "lost_reply",  \* the backend applies a write but its answer never arrives
    "readback",    \* the read-back after a write raises
    "lost_event",  \* the control plane cannot be reached: emit raises
    "overlap",     \* a key is sent again while its first COMMIT still runs
    "drift",       \* someone else changes a record between requests
    "race" }       \* someone else changes a record while a COMMIT runs

Verbs == {"create", "update", "delete"}

Pids == 1..MaxProposals

\* A commit key is derived from the session and the proposal, nothing else.
Keys == Callers \X Pids
KeyPid(k) == k[2]

Row   == [Fields -> Vals]
NoData == [f \in {} |-> None]
Patch == UNION {[S -> Vals] : S \in SUBSET Fields}

Request ==
  [kind : {"resource", "curated"}, verb : Verbs, id : Records \cup {None}, data : Patch]

Proposal ==
  [req : Request, witness : Patch \cup {None}, undoes : Keys \cup {None}]

ASSUME EdgeAssumption ==
  /\ Requests \subseteq Request
  /\ \A req \in Requests : req.verb # "create" => req.id \in Records
  /\ MaxProposals \in Nat
  /\ Faults \subseteq AllFaults
  /\ None \notin Records \cup Keys \cup Patch \cup Proposal

Answers == {"executed", "replayed", "failed_terminal", "expired",
            "precondition_failed", "error"}

VARIABLES
  world,          \* the backend: record id -> row, or None when absent
  minted,         \* how many proposal ids were ever minted (ids never recur)
  proposals,      \* ShimState.proposals
  ledger,         \* ShimState.ledger: key -> what the recorded result claims
  executed,       \* ShimState.executed
  compensations,  \* ShimState.compensations: reversal handles
  thread,         \* what each pool thread is doing
  reply,          \* history: the last answer given for each key
  writes,         \* history: backend writes under each key; 2 is "2 or more"
  emitted,        \* history: keys whose EVENT(executed) was delivered
  raced,          \* history: threads about to write what others wrote since they read
  replaced        \* history: what a key's write replaced, {} if it was raced or lost

shim == <<proposals, ledger, executed, compensations>>
past == <<raced, replaced>>
vars == <<world, minted, shim, thread, reply, writes, emitted, past>>

Idle == [pc |-> "idle", key |-> None, id |-> None, before |-> None]

ThreadState ==
  [pc : {"idle", "read", "write", "settle", "emit"},
   key : Keys \cup {None}, id : Records \cup {None}, before : Row \cup {None}]

Handle == [origin : Keys, rev : Request]

TypeOK ==
  /\ world \in [Records -> Row \cup {None}]
  /\ minted \in 0..MaxProposals
  /\ proposals \in [Pids -> Proposal \cup {None}]
  /\ ledger \in [Keys -> {"none", "verified", "partial"}]
  /\ executed \subseteq Pids
  /\ compensations \subseteq Handle
  /\ thread \in [Threads -> ThreadState]
  /\ reply \in [Keys -> Answers \cup {"none"}]
  /\ writes \in [Keys -> 0..2]
  /\ emitted \subseteq Keys
  /\ raced \subseteq Threads
  /\ replaced \in [Keys -> SUBSET (Row \cup {None})]

Init ==
  /\ world \in [Records -> Row \cup {None}]
  /\ minted = 0
  /\ proposals = [p \in Pids |-> None]
  /\ ledger = [k \in Keys |-> "none"]
  /\ executed = {}
  /\ compensations = {}
  /\ thread = [t \in Threads |-> Idle]
  /\ reply = [k \in Keys |-> "none"]
  /\ writes = [k \in Keys |-> 0]
  /\ emitted = {}
  /\ raced = {}
  /\ replaced = [k \in Keys |-> {}]

-----------------------------------------------------------------------------
(* PROPOSE and ROLLBACK: dry runs that store a proposal and write nothing.  *)

Project(row, S) == [f \in S |-> row[f]]

\* The state witness: the values the fields to be written hold now.  None when
\* the record cannot be resolved, or when no field is written.
Witness(req) ==
  IF /\ req.kind = "resource"
     /\ req.verb = "update"
     /\ world[req.id] # None
     /\ DOMAIN req.data # {}
  THEN Project(world[req.id], DOMAIN req.data)
  ELSE None

Store(req, witness, undoes) ==
  /\ minted < MaxProposals
  /\ minted' = minted + 1
  /\ proposals' = [proposals EXCEPT ![minted + 1] =
                     [req |-> req, witness |-> witness, undoes |-> undoes]]

Propose(req) ==
  /\ Store(req, Witness(req), None)
  /\ UNCHANGED <<world, ledger, executed, compensations, thread, reply,
                 writes, emitted, past>>

\* ROLLBACK answers with a proposal for the reversal.  The handle stays: it is
\* not used up, and the request's own idempotency key is never looked at.  Only
\* a handle that an answer or an event has carried out of the edge is presented.
Rollback(h) ==
  /\ reply[h.origin] \in {"executed", "replayed"} \/ h.origin \in emitted
  /\ Store(h.rev, None, h.origin)
  /\ UNCHANGED <<world, ledger, executed, compensations, thread, reply,
                 writes, emitted, past>>

-----------------------------------------------------------------------------
(* COMMIT, one action per stretch between two calls to the backend.         *)

InFlight(k) == \E t \in Threads : thread[t].pc # "idle" /\ thread[t].key = k

Goto(t, pc) == thread' = [thread EXCEPT ![t].pc = pc]

Answer(t, k, a) ==
  /\ thread' = [thread EXCEPT ![t] = Idle]
  /\ reply' = [reply EXCEPT ![k] = a]

CommitReplay(t, k) ==
  /\ ledger[k] # "none"
  /\ Answer(t, k, "replayed")

CommitExpired(t, k) ==
  /\ ledger[k] = "none"
  /\ proposals[KeyPid(k)] = None
  /\ Answer(t, k, "expired")

CommitAccept(t, k) ==
  /\ ledger[k] = "none"
  /\ proposals[KeyPid(k)] # None
  /\ LET req == proposals[KeyPid(k)].req IN
     thread' = [thread EXCEPT ![t] =
       [pc     |-> IF req.verb = "create" THEN "write" ELSE "read",
        key    |-> k,
        id     |-> IF req.verb = "create" THEN None ELSE req.id,
        before |-> None]]
  /\ UNCHANGED reply

\* The ledger is looked up first, then the proposal.  Only an id that was
\* handed out can be committed.
Commit(t, k) ==
  /\ thread[t].pc = "idle"
  /\ KeyPid(k) <= minted
  /\ InFlight(k) => "overlap" \in Faults
  /\ CommitReplay(t, k) \/ CommitExpired(t, k) \/ CommitAccept(t, k)
  /\ UNCHANGED <<world, minted, shim, writes, emitted, past>>

\* Mutant of Read: the witness is not rechecked.
Read_NoRecheck(t) ==
  /\ thread[t].pc = "read"
  /\ world[thread[t].id] # None
  /\ thread' = [thread EXCEPT ![t].pc = "write",
                              ![t].before = world[thread[t].id]]
  /\ UNCHANGED <<world, minted, shim, reply, writes, emitted, past>>

\* Resolve the record, take its before-image, recheck the witness.  A curated
\* verb has no witness and goes on with the raw id when nothing resolves.
Read(t) ==
  LET k   == thread[t].key
      p   == proposals[KeyPid(k)]
      row == world[thread[t].id]
  IN
  /\ thread[t].pc = "read"
  /\ \/ /\ row = None
        /\ p.req.kind = "resource"
        /\ Answer(t, k, "failed_terminal")
     \/ /\ row # None
        /\ p.witness # None
        /\ p.witness # Project(row, DOMAIN p.req.data)
        /\ Answer(t, k, "precondition_failed")
     \/ /\ \/ row = None /\ p.req.kind = "curated"
           \/ /\ row # None
              /\ p.witness # None
                   => p.witness = Project(row, DOMAIN p.req.data)
        /\ thread' = [thread EXCEPT ![t].pc = "write", ![t].before = row]
        /\ UNCHANGED reply
  /\ UNCHANGED <<world, minted, shim, writes, emitted, past>>

\* What the backend holds after the write; a create may get any free id.  What it
\* does about a record that is gone is its own affair: it may refuse (see
\* WriteRejected), make the record anew or find nothing to delete.
Applied(req, id, w) ==
  \/ /\ req.verb = "create"
     /\ world[id] = None
     /\ \E row \in Row : /\ Project(row, DOMAIN req.data) = req.data
                         /\ w = [world EXCEPT ![id] = row]
  \/ /\ req.verb = "update"
     /\ \E row \in Row :
          /\ \A f \in Fields :
               row[f] = IF f \in DOMAIN req.data THEN req.data[f]
                        ELSE IF world[id] # None THEN world[id][f] ELSE row[f]
          /\ w = [world EXCEPT ![id] = row]
  \/ /\ req.verb = "delete"
     /\ w = [world EXCEPT ![id] = None]

\* The record a write goes to: a new one, or the one that was resolved.
Target(t, req) == IF req.verb = "create" THEN Records ELSE {thread[t].id}

Writable(t, req) ==
  \E id \in Target(t, req) : (req.verb = "create") <=> (world[id] = None)

Again(n) == IF n = 0 THEN 1 ELSE 2

\* The threads that have read record id and are about to write it.
Holding(id) == {u \in Threads : thread[u].pc = "write" /\ thread[u].id = id}

\* The backend performs the write.  When its answer is lost the handler dies
\* with an exception it does not catch, and the caller gets a server error.
Write(t) ==
  LET k   == thread[t].key
      req == proposals[KeyPid(k)].req
  IN
  /\ thread[t].pc = "write"
  /\ \E id \in Target(t, req) :
       /\ Applied(req, id, world')
       /\ raced' = (raced \cup Holding(id)) \ {t}
       /\ replaced' = [replaced EXCEPT ![k] =
            IF writes[k] = 0 /\ t \notin raced THEN {world[id]} ELSE {}]
       /\ \/ /\ thread' = [thread EXCEPT ![t].pc = "settle", ![t].id = id]
             /\ UNCHANGED reply
          \/ /\ "lost_reply" \in Faults
             /\ Answer(t, k, "error")
  /\ writes' = [writes EXCEPT ![k] = Again(@)]
  /\ UNCHANGED <<minted, shim, emitted>>

\* The backend refuses the write: nothing is recorded, the key stays free.
WriteRejected(t) ==
  /\ thread[t].pc = "write"
  /\ \/ "reject" \in Faults
     \/ ~Writable(t, proposals[KeyPid(thread[t].key)].req)
  /\ Answer(t, thread[t].key, "failed_terminal")
  /\ raced' = raced \ {t}
  /\ UNCHANGED <<world, minted, shim, writes, emitted, replaced>>

Landed(req, id) ==
  IF req.verb = "delete"
  THEN world[id] = None
  ELSE \A f \in DOMAIN req.data : world[id] # None /\ world[id][f] = req.data[f]

\* Mutant of Reversals: an update is undone by what it asked for.
Reversals_AsAsked(req, id, before) ==
  CASE req.verb = "create" ->
         {[kind |-> req.kind, verb |-> "delete", id |-> id,
           data |-> NoData]}
    [] req.verb = "update" /\ req.kind = "resource" ->
         {[kind |-> "resource", verb |-> "update", id |-> id, data |-> req.data]}
    [] req.verb = "delete" /\ req.kind = "resource" ->
         {[kind |-> "resource", verb |-> "create", id |-> None, data |-> before]}
    [] OTHER -> {}

\* The reversal of a write.  A resource create is undone by a delete, an update
\* by writing the whole before-image back, a delete by creating it again.  Of
\* the curated verbs only create has a compensation mapped, a curated delete.
Reversals(req, id, before) ==
  CASE req.verb = "create" ->
         {[kind |-> req.kind, verb |-> "delete", id |-> id,
           data |-> NoData]}
    [] req.verb = "update" /\ req.kind = "resource" ->
         {[kind |-> "resource", verb |-> "update", id |-> id, data |-> before]}
    [] req.verb = "delete" /\ req.kind = "resource" ->
         {[kind |-> "resource", verb |-> "create", id |-> None, data |-> before]}
    [] OTHER -> {}

\* Mutant of Settle: only a write that verified is recorded.
Settle_VerifiedOnly(t) ==
  LET k      == thread[t].key
      landed == Landed(proposals[KeyPid(k)].req, thread[t].id)
  IN
  /\ thread[t].pc = "settle"
  /\ ledger' = [ledger EXCEPT ![k] = IF landed THEN "verified" ELSE @]
  /\ executed' = IF landed THEN executed \cup {KeyPid(k)} ELSE executed
  /\ Goto(t, "emit")
  /\ UNCHANGED <<world, minted, proposals, compensations, reply, writes,
                 emitted, past>>

\* Read back, then record: the reversal handle, the ledger entry, executed.
Settle(t) ==
  LET k   == thread[t].key
      p   == proposals[KeyPid(k)]
      rev == Reversals(p.req, thread[t].id, thread[t].before)
  IN
  /\ thread[t].pc = "settle"
  /\ compensations' = compensations
       \cup {[origin |-> k, rev |-> r] : r \in rev}
  /\ ledger' = [ledger EXCEPT ![k] =
                 IF Landed(p.req, thread[t].id) THEN "verified" ELSE "partial"]
  /\ executed' = executed \cup {KeyPid(k)}
  /\ Goto(t, "emit")
  /\ UNCHANGED <<world, minted, proposals, reply, writes,
                 emitted, past>>

\* The read-back raises after the write: nothing is recorded.  (A handle minted
\* before the read-back is told to nobody and is left out.)
ReadBackFails(t) ==
  /\ "readback" \in Faults
  /\ thread[t].pc = "settle"
  /\ Answer(t, thread[t].key, "error")
  /\ UNCHANGED <<world, minted, shim, writes, emitted, past>>

\* Mutant of Emit: the event goes out inside the try that guards the write.
Emit_FailsCommit(t) ==
  /\ thread[t].pc = "emit"
  /\ \/ /\ emitted' = emitted \cup {thread[t].key}
        /\ Answer(t, thread[t].key, "executed")
     \/ /\ "lost_event" \in Faults
        /\ Answer(t, thread[t].key, "failed_terminal")
        /\ UNCHANGED emitted
  /\ UNCHANGED <<world, minted, shim, writes, past>>

Emit(t) ==
  LET k == thread[t].key IN
  /\ thread[t].pc = "emit"
  /\ \/ /\ emitted' = emitted \cup {k}
        /\ Answer(t, k, "executed")
     \/ /\ "lost_event" \in Faults
        /\ Answer(t, k, "error")
        /\ UNCHANGED emitted
  /\ UNCHANGED <<world, minted, shim, writes, past>>

-----------------------------------------------------------------------------
(* The environment.                                                         *)

\* Mutants of Restart: one of the four collections is made durable, alone.
Forget ==
  /\ "crash" \in Faults
  /\ executed' = {}
  /\ compensations' = {}
  /\ thread' = [t \in Threads |-> Idle]
  /\ reply' = [k \in Keys |-> IF InFlight(k) THEN "error" ELSE reply[k]]
  /\ raced' = {}
  /\ replaced' = [k \in Keys |-> {}]
  /\ UNCHANGED <<world, minted, writes, emitted>>

Restart_KeepsProposals ==
  Forget /\ ledger' = [k \in Keys |-> "none"] /\ UNCHANGED proposals

Restart_KeepsLedger ==
  Forget /\ proposals' = [p \in Pids |-> None] /\ UNCHANGED ledger

Restart ==
  /\ "crash" \in Faults
  /\ proposals' = [p \in Pids |-> None]
  /\ ledger' = [k \in Keys |-> "none"]
  /\ executed' = {}
  /\ compensations' = {}
  /\ thread' = [t \in Threads |-> Idle]
  /\ reply' = [k \in Keys |-> IF InFlight(k) THEN "error" ELSE reply[k]]
  /\ raced' = {}
  /\ replaced' = [k \in Keys |-> {}]
  /\ UNCHANGED <<world, minted, writes, emitted>>

Drift ==
  /\ \/ "race" \in Faults
     \/ "drift" \in Faults /\ \A t \in Threads : thread[t].pc = "idle"
  /\ \E r \in Records, row \in Row \cup {None} :
       /\ row # world[r]
       /\ world' = [world EXCEPT ![r] = row]
       /\ raced' = raced \cup Holding(r)
  /\ UNCHANGED <<minted, shim, thread, reply, writes, emitted, replaced>>

Handler(t) ==
  Read(t) \/ Write(t) \/ WriteRejected(t) \/ Settle(t) \/ ReadBackFails(t)
    \/ Emit(t)

Next ==
  \/ \E req \in Requests : Propose(req)
  \/ \E h \in compensations : Rollback(h)
  \/ \E t \in Threads, k \in Keys : Commit(t, k)
  \/ \E t \in Threads : Handler(t)
  \/ Restart
  \/ Drift

Spec == Init /\ [][Next]_vars

-----------------------------------------------------------------------------
(* Properties.                                                              *)

\* What GET /status answers for a proposal.
Status(p) ==
  CASE p \in executed -> "executed"
    [] p \notin executed /\ proposals[p] # None -> "pending"
    [] OTHER -> "expired"

\* The promise of the idempotency ledger: however often a COMMIT is sent again,
\* and whatever happens in between, one key writes to the backend at most once,
\* and a caller told "executed" or "replayed" has exactly one write behind it.
AtMostOncePerKey ==
  \A k \in Keys : /\ writes[k] <= 1
                  /\ reply[k] \in {"executed", "replayed"} => writes[k] = 1

\* Whatever fails, what the edge claims happened did happen: a ledger entry, an
\* "executed" status or an "executed" answer has a backend write behind it, and
\* the ledger and STATUS agree on which proposals those are.
ClaimedMeansWritten ==
  /\ \A k \in Keys : /\ ledger[k] # "none" => KeyPid(k) \in executed
                     /\ \/ ledger[k] # "none"
                        \/ reply[k] \in {"executed", "replayed"}
                        => writes[k] > 0
  /\ \A p \in executed : \E c \in Callers : ledger[<<c, p>>] # "none"

\* A proposal that STATUS reports as "pending" (proposed, not yet committed) has
\* written nothing, unless one of its COMMITs is running at this moment.
PendingMeansUnwritten ==
  \A p \in 1..minted :
    Status(p) = "pending" =>
      \A c \in Callers : writes[<<c, p>>] = 0 \/ InFlight(<<c, p>>)

\* Thread t's write is performed and answered in this step.
Lands(t) == thread[t].pc = "write" /\ thread'[t].pc = "settle"

\* What an update writes over in the backend are the values of its preview,
\* whatever was committed, changed or restarted since, unless some other writer,
\* another COMMIT or somebody else, came in between this COMMIT's own read and
\* its write: nothing holds the record, and that window is all that is left open.
NoStalePreview ==
  [][\A t \in Threads :
       LET p   == proposals[KeyPid(thread[t].key)]
           row == world[thread[t].id]
       IN
       Lands(t) /\ p.witness # None /\ t \notin raced =>
         row # None /\ Project(row, DOMAIN p.req.data) = p.witness]_vars

\* A committed reversal leaves the record as the write that it undoes had found
\* it, row for row, though the handle was minted from a read before that write and
\* may be presented at any later time; except where others wrote in between that
\* read and that write.
UndoRestores ==
  [][\A t \in Threads :
       LET undoes == proposals[KeyPid(thread[t].key)].undoes IN
       Lands(t) /\ undoes # None =>
         \A row \in replaced[undoes] : world'[thread'[t].id] = row]_vars

\* What a caller may rely on: see CommitOnce.  "expired" says nothing: an edge that
\* has restarted answers it, whatever became of the key before.
Told(k) ==
  CASE reply[k] \in {"executed", "replayed"} -> "done"
    [] reply[k] \in {"failed_terminal", "precondition_failed"} -> "refused"
    [] OTHER -> "unknown"

Promise == INSTANCE CommitOnce WITH
  effects <- writes, answer <- [k \in Keys |-> Told(k)]

\* The edge keeps the promise of CommitOnce: a refusal, too, is truthful.
ImplementsCommitOnce == Promise!Spec
=============================================================================
