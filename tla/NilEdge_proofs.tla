--------------------------- MODULE NilEdge_proofs ---------------------------
(***************************************************************************)
(* Proofs about NilEdge, for every value of its constants.                 *)
(***************************************************************************)
EXTENDS NilEdge, TLAPS

\* Requests that name the record they change.
Named(req) == req.verb # "create" => req.id \in Records

\* What a thread in the middle of a COMMIT may rely on.
Working(t) ==
  LET th == thread[t]  req == proposals[KeyPid(th.key)].req IN
  th.pc # "idle" =>
    /\ th.key \in Keys
    /\ KeyPid(th.key) <= minted
    /\ proposals[KeyPid(th.key)] # None
    /\ th.pc = "read" => req.verb # "create" /\ th.id \in Records
    /\ th.pc = "write" /\ req.verb # "create" =>
         th.id \in Records /\ (req.kind = "resource" => th.before # None)
    /\ th.pc = "settle" =>
         /\ th.id \in Records
         /\ req.verb # "create" /\ req.kind = "resource" => th.before # None

TypeInv ==
  /\ TypeOK
  /\ \A p \in Pids : proposals[p] # None => Named(proposals[p].req)
  /\ \A h \in compensations : Named(h.rev)
  /\ \A t \in Threads : Working(t)

LEMMA RowIsPatch == Row \subseteq Patch
  BY DEF Row, Patch

LEMMA ProjectPatch ==
  ASSUME NEW row \in Row, NEW S \in SUBSET Fields
  PROVE  Project(row, S) \in Patch
  BY DEF Row, Patch, Project

LEMMA DataFields ==
  ASSUME NEW data \in Patch
  PROVE  DOMAIN data \in SUBSET Fields /\ \A f \in DOMAIN data : data[f] \in Vals
  BY DEF Patch

LEMMA NoDataPatch == NoData \in Patch
  <1>1. NoData \in [{} -> Vals]
    BY DEF NoData
  <1>2. QED
    BY <1>1 DEF Patch

-----------------------------------------------------------------------------
(* Type correctness, one lemma per action.                                  *)

LEMMA InitTypeInv == Init => TypeInv
  BY EdgeAssumption
  DEF Init, TypeInv, TypeOK, Idle, ThreadState, Working, Answers

LEMMA StoreTypeInv ==
  ASSUME TypeInv,
         NEW req \in Request, Named(req),
         NEW w \in Patch \cup {None}, NEW u \in Keys \cup {None},
         Store(req, w, u),
         UNCHANGED <<world, ledger, executed, compensations, thread, reply,
                     writes, emitted, past>>
  PROVE  TypeInv'
<1> DEFINE p == [req |-> req, witness |-> w, undoes |-> u]
<1>1. p \in Proposal
  BY DEF Proposal
<1>2. /\ minted' \in 0..MaxProposals
      /\ minted + 1 \in Pids
      /\ minted' = minted + 1
      /\ proposals' = [proposals EXCEPT ![minted + 1] = p]
  BY EdgeAssumption DEF TypeInv, TypeOK, Store, Pids
<1>3. TypeOK'
  BY <1>1, <1>2 DEF TypeInv, TypeOK, ThreadState, past
<1>4. \A q \in Pids : proposals'[q] # None => Named(proposals'[q].req)
  BY <1>1, <1>2 DEF TypeInv, TypeOK
<1>5. ASSUME NEW t \in Threads PROVE Working(t)'
  <2>1. thread[t].key \in Keys => KeyPid(thread[t].key) \in Pids
    BY DEF Keys, KeyPid
  <2>2. CASE thread[t].pc = "idle"
    BY <2>2 DEF Working
  <2>3. CASE thread[t].pc # "idle"
    <3>1. /\ thread[t].key \in Keys
          /\ KeyPid(thread[t].key) <= minted
      BY <2>3 DEF TypeInv, Working
    <3>2. KeyPid(thread[t].key) # minted + 1
      BY <2>1, <3>1 DEF TypeInv, TypeOK, Pids
    <3>3. proposals'[KeyPid(thread[t].key)] = proposals[KeyPid(thread[t].key)]
      BY <1>2, <2>1, <3>1, <3>2 DEF TypeInv, TypeOK
    <3>4. KeyPid(thread[t].key) <= minted'
      BY <1>2, <2>1, <3>1 DEF TypeInv, TypeOK, Pids
    <3>5. QED
      BY <2>3, <3>1, <3>3, <3>4 DEF TypeInv, Working
  <2>4. QED
    BY <2>2, <2>3
<1>6. QED
  BY <1>3, <1>4, <1>5 DEF TypeInv, Named

LEMMA ProposedType ==
  ASSUME TypeInv, NEW req \in Requests
  PROVE  /\ req \in Request /\ Named(req)
         /\ Witness(req) \in Patch \cup {None}
<1>1. req \in Request /\ Named(req)
  BY EdgeAssumption DEF Named
<1>2. CASE req.verb = "update" /\ world[req.id] # None
  <2>1. world[req.id] \in Row
    BY <1>1, <1>2 DEF TypeInv, TypeOK, Named
  <2>2. req.data \in Patch
    BY <1>1 DEF Request
  <2>3. QED
    BY <1>1, <2>1, <2>2, DataFields, ProjectPatch DEF Witness
<1>3. CASE ~(req.verb = "update" /\ world[req.id] # None)
  BY <1>1, <1>3 DEF Witness
<1>4. QED
  BY <1>2, <1>3

LEMMA ProposeTypeInv ==
  ASSUME TypeInv, NEW req \in Requests, Propose(req)
  PROVE  TypeInv'
  BY ProposedType, StoreTypeInv DEF Propose

LEMMA RollbackTypeInv ==
  ASSUME TypeInv, NEW h \in compensations, Rollback(h)
  PROVE  TypeInv'
<1>1. h.rev \in Request /\ h.origin \in Keys /\ Named(h.rev)
  BY DEF TypeInv, TypeOK, Handle
<1>2. QED
  BY <1>1, StoreTypeInv DEF Rollback

\* The histories of races and of what writes replaced.
PastOK ==
  /\ raced \subseteq Threads
  /\ replaced \in [Keys -> SUBSET (Row \cup {None})]

\* A step that only moves thread t, perhaps to rest, and leaves proposals alone.
LEMMA AnswerTypeInv ==
  ASSUME TypeInv, NEW t \in Threads, NEW k \in Keys, NEW a \in Answers,
         Answer(t, k, a), UNCHANGED <<minted, shim>>,
         world' \in [Records -> Row \cup {None}],
         writes' \in [Keys -> 0..2], emitted' \subseteq Keys, PastOK'
  PROVE  TypeInv'
<1>1. thread' = [thread EXCEPT ![t] = Idle] /\ Idle \in ThreadState
  BY DEF Answer, Idle, ThreadState
<1>2. TypeOK'
  BY <1>1 DEF TypeInv, TypeOK, Answer, shim, PastOK
<1>3. ASSUME NEW u \in Threads PROVE Working(u)'
  <2>1. CASE u = t
    BY <1>1, <2>1 DEF TypeInv, TypeOK, Working, Idle
  <2>2. CASE u # t
    BY <1>1, <2>2 DEF TypeInv, TypeOK, Working, shim
  <2>3. QED
    BY <2>1, <2>2
<1>4. QED
  BY <1>2, <1>3 DEF TypeInv, Named, shim

LEMMA MoveTypeInv ==
  ASSUME TypeInv, NEW t \in Threads, NEW th \in ThreadState,
         thread' = [thread EXCEPT ![t] = th], Working(t)',
         UNCHANGED <<minted, proposals>>,
         compensations' \subseteq Handle,
         \A h \in compensations' : Named(h.rev),
         ledger' \in [Keys -> {"none", "verified", "partial"}],
         executed' \subseteq Pids,
         world' \in [Records -> Row \cup {None}],
         reply' = reply, writes' \in [Keys -> 0..2], emitted' \subseteq Keys, PastOK'
  PROVE  TypeInv'
<1>1. TypeOK'
  BY DEF TypeInv, TypeOK, PastOK
<1>2. ASSUME NEW u \in Threads PROVE Working(u)'
  BY DEF TypeInv, TypeOK, Working
<1>3. QED
  BY <1>1, <1>2 DEF TypeInv, Named

LEMMA CommitTypeInv ==
  ASSUME TypeInv, NEW t \in Threads, NEW k \in Keys, Commit(t, k)
  PROVE  TypeInv'
<1>0. PastOK'
  BY DEF Commit, past, PastOK, TypeInv, TypeOK
<1>1. CASE CommitReplay(t, k)
  BY <1>0, <1>1, AnswerTypeInv DEF CommitReplay, Commit, Answers, TypeInv, TypeOK
<1>2. CASE CommitExpired(t, k)
  BY <1>0, <1>2, AnswerTypeInv DEF CommitExpired, Commit, Answers, TypeInv, TypeOK
<1>3. CASE CommitAccept(t, k)
  <2> DEFINE req == proposals[KeyPid(k)].req
             th  == [pc     |-> IF req.verb = "create" THEN "write" ELSE "read",
                     key    |-> k,
                     id     |-> IF req.verb = "create" THEN None ELSE req.id,
                     before |-> None]
  <2>1. KeyPid(k) \in Pids
    BY DEF Keys, KeyPid
  <2>2. proposals[KeyPid(k)] \in Proposal /\ Named(req)
    BY <1>3, <2>1 DEF CommitAccept, TypeInv, TypeOK
  <2>3. th \in ThreadState
    BY <2>2 DEF ThreadState, Named
  <2>4. thread' = [thread EXCEPT ![t] = th]
    BY <1>3 DEF CommitAccept
  <2>5. thread'[t] = th
    BY <2>4 DEF TypeInv, TypeOK
  <2>6. Working(t)'
    BY <1>3, <2>2, <2>5 DEF CommitAccept, Commit, Working, Named, shim
  <2>7. QED
    BY <1>0, <1>3, <2>3, <2>4, <2>6, MoveTypeInv
    DEF CommitAccept, Commit, TypeInv, TypeOK, shim
<1>4. QED
  BY <1>1, <1>2, <1>3 DEF Commit

LEMMA ReadTypeInv ==
  ASSUME TypeInv, NEW t \in Threads, Read(t)
  PROVE  TypeInv'
<1> DEFINE k   == thread[t].key
           row == world[thread[t].id]
<1>1. /\ k \in Keys
      /\ thread[t] \in ThreadState
      /\ thread[t].id \in Records
      /\ row \in Row \cup {None}
      /\ PastOK'
  BY DEF Read, TypeInv, TypeOK, Working, past, PastOK
<1>2. CASE \E a \in Answers : Answer(t, k, a)
  BY <1>1, <1>2, AnswerTypeInv DEF Read, TypeInv, TypeOK
<1>3. CASE /\ row = None => proposals[KeyPid(k)].req.kind = "curated"
           /\ thread' = [thread EXCEPT ![t].pc = "write", ![t].before = row]
           /\ reply' = reply
  <2> DEFINE th == [thread[t] EXCEPT !.pc = "write", !.before = row]
  <2>1. th \in ThreadState
    BY <1>1 DEF ThreadState
  <2>2. thread' = [thread EXCEPT ![t] = th]
    BY <1>3 DEF TypeInv, TypeOK
  <2>3. Working(t)'
    BY <1>1, <1>3, <2>2 DEF Read, TypeInv, TypeOK, Working, ThreadState, shim
  <2>4. QED
    BY <1>1, <1>3, <2>1, <2>2, <2>3, MoveTypeInv DEF Read, TypeInv, TypeOK, shim
<1>4. QED
  BY <1>2, <1>3 DEF Read, Answers

LEMMA AppliedType ==
  ASSUME TypeInv, NEW req \in Request, NEW id \in Records,
         Applied(req, id, world')
  PROVE  world' \in [Records -> Row \cup {None}]
<1>1. CASE req.verb = "create"
  BY <1>1 DEF Applied, TypeInv, TypeOK
<1>2. CASE req.verb = "update"
  <2>1. \E row \in Row : world' = [world EXCEPT ![id] = row]
    BY <1>2 DEF Applied
  <2> QED
    BY <2>1 DEF TypeInv, TypeOK
<1>3. CASE req.verb = "delete"
  BY <1>3 DEF Applied, TypeInv, TypeOK
<1>4. QED
  BY <1>1, <1>2, <1>3 DEF Request, Verbs

LEMMA WorkingProposal ==
  ASSUME TypeInv, NEW t \in Threads, thread[t].pc # "idle"
  PROVE  /\ thread[t] \in ThreadState
         /\ thread[t].key \in Keys
         /\ KeyPid(thread[t].key) \in Pids
         /\ proposals[KeyPid(thread[t].key)] \in Proposal
         /\ proposals[KeyPid(thread[t].key)].req \in Request
<1>1. thread[t].key \in Keys /\ proposals[KeyPid(thread[t].key)] # None
  BY DEF TypeInv, Working
<1>2. KeyPid(thread[t].key) \in Pids
  BY <1>1 DEF Keys, KeyPid
<1>3. QED
  BY <1>1, <1>2 DEF TypeInv, TypeOK, Proposal

LEMMA WriteTypeInv ==
  ASSUME TypeInv, NEW t \in Threads, Write(t)
  PROVE  TypeInv'
<1> DEFINE k   == thread[t].key
           req == proposals[KeyPid(k)].req
<1>1. /\ thread[t] \in ThreadState
      /\ k \in Keys
      /\ req \in Request
  BY WorkingProposal DEF Write
<1>2. PICK id \in Target(t, req) :
        /\ Applied(req, id, world')
        /\ raced' = (raced \cup Holding(id)) \ {t}
        /\ replaced' = [replaced EXCEPT ![k] =
             IF writes[k] = 0 /\ t \notin raced THEN {world[id]} ELSE {}]
        /\ \/ /\ thread' = [thread EXCEPT ![t].pc = "settle", ![t].id = id]
              /\ reply' = reply
           \/ Answer(t, k, "error")
  BY DEF Write
<1>3. id \in Records
  BY <1>1, <1>2 DEF Write, Target, TypeInv, Working
<1>4. world' \in [Records -> Row \cup {None}]
  BY <1>1, <1>2, <1>3, AppliedType
<1>5. writes' \in [Keys -> 0..2]
  BY <1>1 DEF Write, Again, TypeInv, TypeOK
<1>9. PastOK'
  BY <1>1, <1>2, <1>3 DEF PastOK, Holding, TypeInv, TypeOK
<1>6. CASE Answer(t, k, "error")
  BY <1>1, <1>4, <1>5, <1>6, <1>9, AnswerTypeInv
  DEF Write, Answers, TypeInv, TypeOK
<1>7. CASE /\ thread' = [thread EXCEPT ![t].pc = "settle", ![t].id = id]
           /\ reply' = reply
  <2> DEFINE th == [thread[t] EXCEPT !.pc = "settle", !.id = id]
  <2>1. th \in ThreadState
    BY <1>1, <1>3 DEF ThreadState
  <2>2. thread' = [thread EXCEPT ![t] = th]
    BY <1>1, <1>7 DEF TypeInv, TypeOK, ThreadState
  <2>3. thread'[t] = th
    BY <2>2 DEF TypeInv, TypeOK
  <2>4. /\ KeyPid(k) <= minted
        /\ proposals[KeyPid(k)] # None
        /\ req.verb # "create" /\ req.kind = "resource" => thread[t].before # None
    BY DEF Write, TypeInv, Working
  <2>5. Working(t)'
    BY <1>1, <1>3, <2>3, <2>4 DEF Write, Working, shim, ThreadState
  <2>6. QED
    BY <1>4, <1>5, <1>7, <1>9, <2>1, <2>2, <2>5, MoveTypeInv
    DEF Write, TypeInv, TypeOK, shim
<1>8. QED
  BY <1>2, <1>6, <1>7

LEMMA ReversalsType ==
  ASSUME NEW req \in Request, NEW id \in Records,
         NEW before \in Row \cup {None},
         req.verb # "create" /\ req.kind = "resource" => before # None,
         NEW r \in Reversals(req, id, before)
  PROVE  r \in Request /\ Named(r)
<1>1. CASE req.verb = "create"
  BY <1>1, NoDataPatch DEF Reversals, Request, Named, Verbs
<1>2. CASE req.verb = "update" /\ req.kind = "resource"
  BY <1>2, RowIsPatch DEF Reversals, Request, Named, Verbs
<1>3. CASE req.verb = "delete" /\ req.kind = "resource"
  BY <1>3, RowIsPatch DEF Reversals, Request, Named, Verbs
<1>4. QED
  BY <1>1, <1>2, <1>3 DEF Reversals, Request, Verbs

LEMMA SettleTypeInv ==
  ASSUME TypeInv, NEW t \in Threads, Settle(t)
  PROVE  TypeInv'
<1> DEFINE k   == thread[t].key
           req == proposals[KeyPid(k)].req
           rev == Reversals(req, thread[t].id, thread[t].before)
           th  == [thread[t] EXCEPT !.pc = "emit"]
<1>1. /\ thread[t] \in ThreadState
      /\ k \in Keys
      /\ KeyPid(k) \in Pids
      /\ req \in Request
  BY WorkingProposal DEF Settle
<1>2. /\ thread[t].id \in Records
      /\ req.verb # "create" /\ req.kind = "resource" => thread[t].before # None
      /\ KeyPid(k) <= minted
      /\ proposals[KeyPid(k)] # None
  BY DEF Settle, TypeInv, Working
<1>3. \A r \in rev : r \in Request /\ Named(r)
  BY <1>1, <1>2, ReversalsType DEF ThreadState
<1>4. /\ compensations' \subseteq Handle
      /\ \A h \in compensations' : Named(h.rev)
  <2>1. ASSUME NEW r \in rev
        PROVE  /\ [origin |-> k, rev |-> r] \in Handle
               /\ Named([origin |-> k, rev |-> r].rev)
    BY <1>1, <1>3 DEF Handle
  <2>2. compensations' = compensations \cup {[origin |-> k, rev |-> r] : r \in rev}
    BY DEF Settle
  <2>3. QED
    BY <2>1, <2>2 DEF TypeInv, TypeOK
<1>5. /\ ledger' \in [Keys -> {"none", "verified", "partial"}]
      /\ executed' \subseteq Pids
  BY <1>1 DEF Settle, TypeInv, TypeOK
<1>6. th \in ThreadState /\ thread' = [thread EXCEPT ![t] = th]
  BY <1>1 DEF Settle, Goto, ThreadState, TypeInv, TypeOK
<1>7. thread'[t] = th
  BY <1>6 DEF TypeInv, TypeOK
<1>8. Working(t)'
  BY <1>1, <1>2, <1>7 DEF Settle, Working, ThreadState
<1>9. PastOK'
  BY DEF Settle, past, PastOK, TypeInv, TypeOK
<1>10. QED
  BY <1>4, <1>5, <1>6, <1>8, <1>9, MoveTypeInv DEF Settle, TypeInv, TypeOK

LEMMA AnsweringTypeInv ==
  ASSUME TypeInv, NEW t \in Threads,
         WriteRejected(t) \/ ReadBackFails(t) \/ Emit(t)
  PROVE  TypeInv'
<1>1. thread[t].key \in Keys
  BY WorkingProposal DEF WriteRejected, ReadBackFails, Emit
<1>2. PICK a \in Answers : Answer(t, thread[t].key, a)
  BY DEF WriteRejected, ReadBackFails, Emit, Answers
<1>3. emitted' \subseteq Keys
  BY <1>1 DEF WriteRejected, ReadBackFails, Emit, TypeInv, TypeOK
<1>4. PastOK'
  BY DEF WriteRejected, ReadBackFails, Emit, past, PastOK, TypeInv, TypeOK
<1>5. QED
  BY <1>1, <1>2, <1>3, <1>4, AnswerTypeInv
  DEF WriteRejected, ReadBackFails, Emit, TypeInv, TypeOK

LEMMA RestartTypeInv ==
  ASSUME TypeInv, Restart
  PROVE  TypeInv'
  BY DEF TypeInv, TypeOK, Restart, Idle, ThreadState, Working, Answers

LEMMA DriftTypeInv ==
  ASSUME TypeInv, Drift
  PROVE  TypeInv'
<1>1. TypeOK'
  BY DEF TypeInv, TypeOK, Drift, Holding, shim
<1>2. QED
  BY <1>1 DEF TypeInv, Drift, Working, shim

LEMMA NextTypeInv ==
  ASSUME TypeInv, [Next]_vars
  PROVE  TypeInv'
<1>1. ASSUME NEW req \in Requests, Propose(req) PROVE TypeInv'
  BY <1>1, ProposeTypeInv
<1>2. ASSUME NEW h \in compensations, Rollback(h) PROVE TypeInv'
  BY <1>2, RollbackTypeInv
<1>3. ASSUME NEW t \in Threads, NEW k \in Keys, Commit(t, k) PROVE TypeInv'
  BY <1>3, CommitTypeInv
<1>4. ASSUME NEW t \in Threads, Handler(t) PROVE TypeInv'
  BY <1>4, ReadTypeInv, WriteTypeInv, SettleTypeInv, AnsweringTypeInv
  DEF Handler
<1>5. CASE Restart
  BY <1>5, RestartTypeInv
<1>6. CASE Drift
  BY <1>6, DriftTypeInv
<1>7. CASE UNCHANGED vars
  BY <1>7 DEF vars, shim, past, TypeInv, TypeOK, Working
<1>8. QED
  BY <1>1, <1>2, <1>3, <1>4, <1>5, <1>6, <1>7 DEF Next

LEMMA TypeInvariant == Spec => []TypeInv
  BY InitTypeInv, NextTypeInv, PTL DEF Spec

\* The state of the edge is well formed whatever requests, restarts and faults
\* occur; TypeInv adds that a COMMIT in progress works on a stored proposal and on
\* a record it has resolved.
THEOREM TypeCorrect == Spec => []TypeOK
  BY TypeInvariant, PTL DEF TypeInv

-----------------------------------------------------------------------------
(* What the edge claims has happened, under every fault.                    *)

ClaimInv ==
  /\ ClaimedMeansWritten
  /\ \A t \in Threads :
       thread[t].pc \in {"settle", "emit"} => writes[thread[t].key] > 0

LEMMA NextClaim ==
  ASSUME TypeInv, ClaimInv, [Next]_vars
  PROVE  ClaimInv'
<1>0. /\ thread \in [Threads -> ThreadState]
      /\ writes \in [Keys -> 0..2]
      /\ reply \in [Keys -> Answers \cup {"none"}]
      /\ ledger \in [Keys -> {"none", "verified", "partial"}]
      /\ \A t \in Threads : thread[t].pc # "idle" => thread[t].key \in Keys
  BY DEF TypeInv, TypeOK, Working
<1>1. CASE \/ \E req \in Requests : Propose(req)
           \/ \E h \in compensations : Rollback(h)
           \/ Drift
           \/ UNCHANGED vars
  BY <1>1 DEF Propose, Rollback, Drift, vars, shim, ClaimInv, ClaimedMeansWritten
<1>2. ASSUME NEW t \in Threads, NEW k \in Keys, Commit(t, k)
      PROVE  ClaimInv'
  <2>1. /\ \A u \in Threads : thread'[u].pc \in {"settle", "emit"}
                               => thread'[u] = thread[u]
        /\ \A j \in Keys : reply'[j] \in {"executed", "replayed"}
                               => reply'[j] = reply[j] \/ ledger[j] # "none"
    BY <1>0, <1>2
    DEF Commit, CommitReplay, CommitExpired, CommitAccept, Answer, Idle
  <2>2. QED
    BY <1>2, <2>1 DEF Commit, shim, ClaimInv, ClaimedMeansWritten
<1>3. ASSUME NEW t \in Threads, Read(t) \/ WriteRejected(t) \/ ReadBackFails(t)
      PROVE  ClaimInv'
  <2>1. /\ \A u \in Threads \ {t} : thread'[u] = thread[u]
        /\ thread'[t].pc \in {"idle", "write"}
    BY <1>0, <1>3
    DEF Read, WriteRejected, ReadBackFails, Answer, Idle, ThreadState
  <2>4. /\ thread[t].pc # "idle"
        /\ thread[t].key \in Keys
    BY <1>0, <1>3 DEF Read, WriteRejected, ReadBackFails
  <2>5. \A j \in Keys : reply'[j] \in {"executed", "replayed"}
                           => reply'[j] = reply[j]
    BY <1>0, <1>3, <2>4 DEF Read, WriteRejected, ReadBackFails, Answer
  <2>2. UNCHANGED <<ledger, executed, writes>>
    BY <1>3 DEF Read, WriteRejected, ReadBackFails, shim
  <2>3. QED
    BY <2>1, <2>2, <2>5 DEF ClaimInv, ClaimedMeansWritten
<1>4. ASSUME NEW t \in Threads, Write(t)
      PROVE  ClaimInv'
  <2>1. /\ thread[t].key \in Keys
        /\ writes' = [writes EXCEPT ![thread[t].key] = Again(@)]
        /\ UNCHANGED <<ledger, executed>>
    BY <1>0, <1>4 DEF Write, shim
  <2>2. \A j \in Keys : /\ writes[j] > 0 => writes'[j] > 0
                        /\ writes'[thread[t].key] > 0
    BY <1>0, <2>1 DEF Again
  <2>3. /\ \A u \in Threads \ {t} : thread'[u] = thread[u]
        /\ thread'[t].pc = "settle" => thread'[t].key = thread[t].key
        /\ thread'[t].pc \in {"settle", "idle"}
        /\ \A j \in Keys : reply'[j] \in {"executed", "replayed"}
                => reply'[j] = reply[j]
    BY <1>0, <1>4, <2>1 DEF Write, Answer, Idle, ThreadState
  <2>4. \A u \in Threads : thread'[u].pc \in {"settle", "emit"}
                => thread'[u].key \in Keys
    BY <1>0, <2>1, <2>3
  <2>5. QED
    BY <1>0, <2>1, <2>2, <2>3, <2>4 DEF ClaimInv, ClaimedMeansWritten
<1>5. ASSUME NEW t \in Threads, Settle(t)
      PROVE  ClaimInv'
  <2> DEFINE k == thread[t].key
  <2>1. k \in Keys /\ writes[k] > 0
    BY <1>0, <1>5 DEF Settle, ClaimInv
  <2>2. /\ ledger'[k] # "none"
        /\ \A j \in Keys \ {k} : ledger'[j] = ledger[j]
        /\ executed' = executed \cup {KeyPid(k)}
        /\ UNCHANGED <<reply, writes>>
    BY <1>0, <1>5, <2>1 DEF Settle
  <2>3. \E c \in Callers : k = <<c, KeyPid(k)>>
    BY <2>1 DEF Keys, KeyPid
  <2>4. \A p \in executed' : \E c \in Callers : ledger'[<<c, p>>] # "none"
    <3>1. ASSUME NEW p \in executed
          PROVE  \E c \in Callers : ledger'[<<c, p>>] # "none"
      <4>1. p \in Pids
        BY DEF TypeInv, TypeOK
      <4>2. PICK c \in Callers : ledger[<<c, p>>] # "none"
        BY DEF ClaimInv, ClaimedMeansWritten
      <4>3. <<c, p>> \in Keys
        BY <4>1 DEF Keys
      <4>4. QED
        BY <2>2, <4>2, <4>3
    <3>2. QED
      BY <2>2, <2>3, <3>1
  <2>5. /\ \A u \in Threads \ {t} : thread'[u] = thread[u]
        /\ thread'[t].key = k
    BY <1>0, <1>5 DEF Settle, Goto, ThreadState
  <2>6. QED
    BY <2>1, <2>2, <2>4, <2>5 DEF ClaimInv, ClaimedMeansWritten
<1>6. ASSUME NEW t \in Threads, Emit(t)
      PROVE  ClaimInv'
  <2>1. thread[t].key \in Keys /\ writes[thread[t].key] > 0
    BY <1>0, <1>6 DEF Emit, ClaimInv
  <2>2. /\ \A u \in Threads : thread'[u].pc \in {"settle", "emit"}
                               => thread'[u] = thread[u]
        /\ \A j \in Keys : reply'[j] \in {"executed", "replayed"}
                => reply'[j] = reply[j] \/ j = thread[t].key
        /\ UNCHANGED <<ledger, executed, writes>>
    BY <1>0, <1>6 DEF Emit, Answer, Idle, shim
  <2>3. QED
    BY <2>1, <2>2 DEF ClaimInv, ClaimedMeansWritten
<1>7. CASE Restart
  BY <1>7 DEF Restart, Idle, ClaimInv, ClaimedMeansWritten
<1>8. QED
  BY <1>1, <1>2, <1>3, <1>4, <1>5, <1>6, <1>7 DEF Next, Handler

\* Under every fault, crashes and overlapping retries included, the edge never
\* claims a write that did not happen: ledger, STATUS and answers are truthful.
THEOREM ClaimsAreTrue == Spec => []ClaimedMeansWritten
<1>1. Init => ClaimInv
  BY DEF Init, Idle, ClaimInv, ClaimedMeansWritten
<1>2. ClaimInv => ClaimedMeansWritten
  BY DEF ClaimInv
<1>3. QED
  BY <1>1, <1>2, NextClaim, TypeInvariant, PTL DEF Spec

-----------------------------------------------------------------------------
(* At most one write per key, when nobody retries a COMMIT that still runs  *)
(* and the backend always answers.  Restarts, rejected writes, lost events  *)
(* and drifting records are allowed.                                        *)

NoDoubt == Faults \cap {"overlap", "lost_reply", "readback"} = {}

Runs(t, k) == thread[t].pc # "idle" /\ thread[t].key = k

\* A key that has written is in the ledger, or about to be, or its proposal was
\* forgotten in a restart and will never be accepted again.
OnceInv ==
  /\ \A k \in Keys :
       /\ writes[k] \in 0..1
       /\ ledger[k] # "none" => writes[k] = 1
       /\ reply[k] \in {"executed", "replayed"} => writes[k] = 1
       /\ writes[k] = 1 => \/ ledger[k] # "none"
                           \/ \E t \in Threads : Runs(t, k) /\ thread[t].pc = "settle"
                           \/ proposals[KeyPid(k)] = None
       /\ writes[k] = 1 => KeyPid(k) <= minted
  /\ \A t \in Threads :
       /\ thread[t].pc \in {"read", "write"} => writes[thread[t].key] = 0
       /\ thread[t].pc = "settle" => writes[thread[t].key] = 1
       /\ thread[t].pc = "emit" => ledger[thread[t].key] # "none"
  /\ \A t, u \in Threads :
       thread[t].pc # "idle" /\ thread[u].pc # "idle"
         /\ thread[t].key = thread[u].key => t = u

LEMMA InitOnce == Init => OnceInv
  BY DEF Init, OnceInv, Runs, Idle

LEMMA StoreOnce ==
  ASSUME TypeInv, OnceInv,
         NEW req \in Request, NEW w \in Patch \cup {None},
         NEW u \in Keys \cup {None}, Store(req, w, u),
         UNCHANGED <<world, ledger, executed, compensations, thread, reply,
                     writes, emitted, past>>
  PROVE  OnceInv'
<1>1. ASSUME NEW k \in Keys, KeyPid(k) <= minted
      PROVE  /\ proposals'[KeyPid(k)] = proposals[KeyPid(k)]
             /\ KeyPid(k) <= minted'
  <2>1. KeyPid(k) \in Pids /\ minted \in Nat
    BY EdgeAssumption DEF Keys, KeyPid, TypeInv, TypeOK
  <2>2. KeyPid(k) # minted + 1 /\ KeyPid(k) <= minted + 1
    BY <1>1, <2>1 DEF Pids
  <2>3. QED
    BY <1>1, <2>1, <2>2 DEF Store, TypeInv, TypeOK
<1>2. UNCHANGED <<ledger, thread, reply, writes>>
  OBVIOUS
<1>3. \A k \in Keys : writes[k] = 1 =>
        \/ ledger[k] # "none"
        \/ \E t \in Threads : Runs(t, k) /\ thread[t].pc = "settle"
        \/ proposals'[KeyPid(k)] = None
  BY <1>1 DEF OnceInv
<1>4. QED
  BY <1>1, <1>2, <1>3 DEF OnceInv, Runs

LEMMA CommitOnceInv ==
  ASSUME NoDoubt, TypeInv, OnceInv,
         NEW t \in Threads, NEW k \in Keys, Commit(t, k)
  PROVE  OnceInv'
<1>0. thread \in [Threads -> ThreadState] /\ reply \in [Keys -> Answers \cup {"none"}]
  BY DEF TypeInv, TypeOK
<1>1. \A u \in Threads : ~Runs(u, k)
  BY DEF NoDoubt, Commit, InFlight, Runs
<1>2. CASE CommitReplay(t, k) \/ CommitExpired(t, k)
  BY <1>0, <1>2
  DEF CommitReplay, CommitExpired, Commit, Answer, Idle, OnceInv, Runs, shim
<1>3. CASE CommitAccept(t, k)
  <2>1. writes[k] = 0
    BY <1>1, <1>3 DEF CommitAccept, OnceInv
  <2>2. /\ thread'[t].pc \in {"read", "write"}
        /\ thread'[t].key = k
        /\ \A u \in Threads \ {t} : thread'[u] = thread[u]
    BY <1>0, <1>3 DEF CommitAccept
  <2>3. thread[t].pc = "idle"
    BY DEF Commit
  <2>4. \A u \in Threads, j \in Keys :
          Runs(u, j) /\ thread[u].pc = "settle"
            => Runs(u, j)' /\ thread'[u].pc = "settle"
    BY <2>2, <2>3 DEF Runs
  <2>5. QED
    BY <1>1, <1>3, <2>1, <2>2, <2>3, <2>4
    DEF CommitAccept, Commit, OnceInv, Runs, shim
<1>4. QED
  BY <1>2, <1>3 DEF Commit

LEMMA ReadOnce ==
  ASSUME TypeInv, OnceInv, NEW t \in Threads, Read(t)
  PROVE  OnceInv'
<1>0. thread \in [Threads -> ThreadState] /\ reply \in [Keys -> Answers \cup {"none"}]
  BY DEF TypeInv, TypeOK
<1>1. thread[t].key \in Keys
  BY WorkingProposal DEF Read
<1>2. /\ \/ thread'[t].pc = "idle"
         \/ thread'[t].pc = "write" /\ thread'[t].key = thread[t].key
      /\ \A u \in Threads \ {t} : thread'[u] = thread[u]
  BY <1>0 DEF Read, Answer, Idle, ThreadState
<1>3. \A k \in Keys : reply'[k] \in {"executed", "replayed"} => reply'[k] = reply[k]
  BY <1>0, <1>1 DEF Read, Answer
<1>4. thread[t].pc = "read" /\ writes[thread[t].key] = 0
  BY DEF Read, OnceInv
<1>5. \A u \in Threads, j \in Keys :
        Runs(u, j) /\ thread[u].pc = "settle"
          => Runs(u, j)' /\ thread'[u].pc = "settle"
  BY <1>2, <1>4 DEF Runs
<1>6. UNCHANGED <<minted, proposals, ledger, writes>>
  BY DEF Read, shim
<1>7. QED
  BY <1>0, <1>1, <1>2, <1>3, <1>4, <1>5, <1>6 DEF OnceInv

LEMMA WriteOnce ==
  ASSUME NoDoubt, TypeInv, OnceInv, NEW t \in Threads, Write(t)
  PROVE  OnceInv'
<1> DEFINE k == thread[t].key
<1>0. thread \in [Threads -> ThreadState] /\ writes \in [Keys -> 0..2]
  BY DEF TypeInv, TypeOK
<1>1. k \in Keys
  BY WorkingProposal DEF Write
<1>2. /\ thread'[t].pc = "settle" /\ thread'[t].key = k
      /\ \A u \in Threads \ {t} : thread'[u] = thread[u]
      /\ reply' = reply
  BY <1>0 DEF Write, NoDoubt, ThreadState
<1>3. thread[t].pc = "write" /\ writes[k] = 0
  BY DEF Write, OnceInv
<1>4. writes' = [writes EXCEPT ![k] = 1]
  BY <1>0, <1>1, <1>3 DEF Write, Again
<1>5. \A u \in Threads \ {t} : thread[u].pc # "idle" => thread[u].key # k
  BY <1>3 DEF OnceInv
<1>6. \A u \in Threads, j \in Keys :
        Runs(u, j) /\ thread[u].pc = "settle"
          => Runs(u, j)' /\ thread'[u].pc = "settle"
  BY <1>2, <1>3 DEF Runs
<1>7. UNCHANGED <<minted, proposals, ledger>>
  BY DEF Write, shim
<1>8. \A j \in Keys :
        /\ writes'[j] \in 0..1
        /\ ledger'[j] # "none" => writes'[j] = 1
        /\ reply'[j] \in {"executed", "replayed"} => writes'[j] = 1
        /\ writes'[j] = 1 => KeyPid(j) <= minted'
  <2>1. KeyPid(k) <= minted
    BY <1>3 DEF TypeInv, Working
  <2>2. QED
    BY <1>0, <1>1, <1>2, <1>4, <1>7, <2>1 DEF OnceInv
<1>9. \A j \in Keys : writes'[j] = 1 =>
        \/ ledger'[j] # "none"
        \/ \E u \in Threads : Runs(u, j)' /\ thread'[u].pc = "settle"
        \/ proposals'[KeyPid(j)] = None
  <2>1. ASSUME NEW j \in Keys, j = k
        PROVE  Runs(t, j)' /\ thread'[t].pc = "settle"
    BY <1>2, <2>1 DEF Runs
  <2>2. ASSUME NEW j \in Keys, j # k PROVE writes'[j] = writes[j]
    BY <1>0, <1>1, <1>4, <2>2
  <2>3. ASSUME NEW j \in Keys, j # k, writes[j] = 1
        PROVE  \/ ledger[j] # "none"
               \/ \E u \in Threads : Runs(u, j) /\ thread[u].pc = "settle"
               \/ proposals[KeyPid(j)] = None
    BY <2>3 DEF OnceInv
  <2>4. ASSUME NEW j \in Keys, writes'[j] = 1, j # k
        PROVE  \/ ledger'[j] # "none"
               \/ \E u \in Threads : Runs(u, j)' /\ thread'[u].pc = "settle"
               \/ proposals'[KeyPid(j)] = None
    <3>1. writes[j] = 1
      BY <2>2, <2>4
    <3>2. QED
      BY <1>6, <1>7, <2>3, <2>4, <3>1
  <2>5. QED
    BY <2>1, <2>4
<1>10. \A u \in Threads :
         /\ thread'[u].pc \in {"read", "write"} => writes'[thread'[u].key] = 0
         /\ thread'[u].pc = "settle" => writes'[thread'[u].key] = 1
         /\ thread'[u].pc = "emit" => ledger'[thread'[u].key] # "none"
  <2>1. ASSUME NEW u \in Threads \ {t}, thread[u].pc # "idle"
        PROVE  writes'[thread[u].key] = writes[thread[u].key]
    <3>1. thread[u].key \in Keys
      BY <2>1, WorkingProposal
    <3>2. QED
      BY <1>0, <1>1, <1>4, <1>5, <2>1, <3>1
  <2>2. ASSUME NEW u \in Threads \ {t}
        PROVE  /\ thread[u].pc \in {"read", "write"} => writes'[thread[u].key] = 0
               /\ thread[u].pc = "settle" => writes'[thread[u].key] = 1
    BY <2>1 DEF OnceInv
  <2>3. writes'[k] = 1
    BY <1>0, <1>1, <1>4
  <2>4. QED
    BY <1>2, <1>7, <2>2, <2>3 DEF OnceInv
<1>11. QED
  BY <1>2, <1>5, <1>8, <1>9, <1>10 DEF OnceInv

LEMMA SettleOnce ==
  ASSUME TypeInv, OnceInv, NEW t \in Threads, Settle(t)
  PROVE  OnceInv'
<1> DEFINE k == thread[t].key
<1>0. /\ thread \in [Threads -> ThreadState]
      /\ ledger \in [Keys -> {"none", "verified", "partial"}]
  BY DEF TypeInv, TypeOK
<1>1. k \in Keys
  BY WorkingProposal DEF Settle
<1>2. /\ thread'[t].pc = "emit" /\ thread'[t].key = k
      /\ \A u \in Threads \ {t} : thread'[u] = thread[u]
  BY <1>0 DEF Settle, Goto, ThreadState
<1>3. thread[t].pc = "settle" /\ writes[k] = 1
  BY DEF Settle, OnceInv
<1>4. /\ ledger'[k] # "none"
      /\ \A j \in Keys \ {k} : ledger'[j] = ledger[j]
  BY <1>0, <1>1 DEF Settle
<1>5. UNCHANGED <<minted, proposals, writes, reply>>
  BY DEF Settle
<1>6. \A u \in Threads, j \in Keys \ {k} :
        Runs(u, j) /\ thread[u].pc = "settle"
          => Runs(u, j)' /\ thread'[u].pc = "settle"
  BY <1>2 DEF Runs
<1>7. \A u \in Threads : thread[u].pc # "idle" => thread[u].key \in Keys
  BY WorkingProposal
<1>8. QED
  BY <1>1, <1>2, <1>3, <1>4, <1>5, <1>6, <1>7 DEF OnceInv

LEMMA EmitOnce ==
  ASSUME TypeInv, OnceInv, NEW t \in Threads, Emit(t)
  PROVE  OnceInv'
<1> DEFINE k == thread[t].key
<1>0. thread \in [Threads -> ThreadState] /\ reply \in [Keys -> Answers \cup {"none"}]
  BY DEF TypeInv, TypeOK
<1>1. k \in Keys
  BY WorkingProposal DEF Emit
<1>2. /\ thread'[t] = Idle
      /\ \A u \in Threads \ {t} : thread'[u] = thread[u]
      /\ \A j \in Keys \ {k} : reply'[j] = reply[j]
  BY <1>0, <1>1 DEF Emit, Answer
<1>3. thread[t].pc = "emit" /\ ledger[k] # "none" /\ writes[k] = 1
  BY <1>1 DEF Emit, OnceInv
<1>4. \A u \in Threads, j \in Keys :
        Runs(u, j) /\ thread[u].pc = "settle"
          => Runs(u, j)' /\ thread'[u].pc = "settle"
  BY <1>2, <1>3 DEF Runs
<1>5. UNCHANGED <<minted, proposals, ledger, writes>>
  BY DEF Emit, shim
<1>6. QED
  BY <1>1, <1>2, <1>3, <1>4, <1>5 DEF OnceInv, Idle

LEMMA RejectedOnce ==
  ASSUME NoDoubt, TypeInv, OnceInv, NEW t \in Threads,
         WriteRejected(t) \/ ReadBackFails(t)
  PROVE  OnceInv'
<1> DEFINE k == thread[t].key
<1>0. thread \in [Threads -> ThreadState] /\ reply \in [Keys -> Answers \cup {"none"}]
  BY DEF TypeInv, TypeOK
<1>1. WriteRejected(t) /\ k \in Keys
  BY WorkingProposal DEF NoDoubt, ReadBackFails, WriteRejected
<1>2. /\ thread'[t] = Idle
      /\ \A u \in Threads \ {t} : thread'[u] = thread[u]
      /\ reply'[k] = "failed_terminal"
      /\ \A j \in Keys \ {k} : reply'[j] = reply[j]
  BY <1>0, <1>1 DEF WriteRejected, Answer
<1>3. thread[t].pc = "write"
  BY <1>1 DEF WriteRejected
<1>4. \A u \in Threads, j \in Keys :
        Runs(u, j) /\ thread[u].pc = "settle"
          => Runs(u, j)' /\ thread'[u].pc = "settle"
  BY <1>2, <1>3 DEF Runs
<1>5. UNCHANGED <<minted, proposals, ledger, writes>>
  BY <1>1 DEF WriteRejected, shim
<1>6. QED
  BY <1>1, <1>2, <1>3, <1>4, <1>5 DEF OnceInv, Idle

\* A restart forgets every proposal, so a key that has written stays dead: the
\* ids of new proposals are fresh.
LEMMA RestartOnce ==
  ASSUME TypeInv, OnceInv, Restart
  PROVE  OnceInv'
<1>1. ASSUME NEW k \in Keys, reply'[k] \in {"executed", "replayed"}
      PROVE  reply[k] \in {"executed", "replayed"}
  BY <1>1 DEF Restart
<1>2. \A k \in Keys : proposals'[KeyPid(k)] = None /\ ledger'[k] = "none"
  BY DEF Restart, Keys, KeyPid
<1>3. \A t \in Threads : thread'[t] = Idle
  BY DEF Restart
<1>4. UNCHANGED <<minted, writes>>
  BY DEF Restart
<1>5. QED
  BY <1>1, <1>2, <1>3, <1>4 DEF OnceInv, Idle

LEMMA OnceInvariant ==
  ASSUME NoDoubt
  PROVE  Spec => []OnceInv
<1>1. Init => OnceInv
  BY InitOnce
<1>2. TypeInv /\ OnceInv /\ [Next]_vars => OnceInv'
  <2> SUFFICES ASSUME TypeInv, OnceInv, [Next]_vars PROVE OnceInv'
    OBVIOUS
  <2>1. ASSUME NEW req \in Requests, Propose(req) PROVE OnceInv'
    <3>1. req \in Request /\ Witness(req) \in Patch \cup {None}
      BY ProposedType
    <3>2. QED
      BY <2>1, <3>1, StoreOnce DEF Propose
  <2>2. ASSUME NEW h \in compensations, Rollback(h) PROVE OnceInv'
    <3>1. h.rev \in Request /\ h.origin \in Keys
      BY DEF TypeInv, TypeOK, Handle
    <3>2. QED
      BY <2>2, <3>1, StoreOnce DEF Rollback
  <2>3. ASSUME NEW t \in Threads, NEW k \in Keys, Commit(t, k) PROVE OnceInv'
    BY <2>3, CommitOnceInv
  <2>4. ASSUME NEW t \in Threads, Handler(t) PROVE OnceInv'
    BY <2>4, ReadOnce, WriteOnce, SettleOnce, EmitOnce, RejectedOnce
    DEF Handler
  <2>5. CASE Restart
    BY <2>5, RestartOnce
  <2>6. CASE Drift
    BY <2>6 DEF Drift, OnceInv, Runs, shim
  <2>7. CASE UNCHANGED vars
    BY <2>7 DEF vars, shim, OnceInv, Runs
  <2>8. QED
    BY <2>1, <2>2, <2>3, <2>4, <2>5, <2>6, <2>7 DEF Next
<1>3. QED
  BY <1>1, <1>2, TypeInvariant, PTL DEF Spec

\* However often and in whatever order COMMITs are retried, and whenever the edge
\* restarts, one idempotency key writes to the backend at most once, as long as
\* no retry overtakes a running COMMIT and every backend call is answered.
THEOREM WritesAtMostOnce ==
  ASSUME NoDoubt
  PROVE  Spec => []AtMostOncePerKey
<1>1. OnceInv => AtMostOncePerKey
  BY DEF OnceInv, AtMostOncePerKey
<1>2. QED
  BY <1>1, OnceInvariant, PTL

-----------------------------------------------------------------------------
(* The edge implements CommitOnce, under the same assumption: every step    *)
(* lands one effect, tells one caller what is true, breaks connections, or  *)
(* is not seen at all.                                                      *)

\* An answer is one step of CommitOnce when it is true.
LEMMA AnswerTells ==
  ASSUME TypeInv, NEW k \in Keys, NEW a \in Answers,
         reply' = [reply EXCEPT ![k] = a], UNCHANGED writes,
         a \in {"executed", "replayed"} => writes[k] = 1,
         a \in {"failed_terminal", "precondition_failed"} => writes[k] = 0
  PROVE  Promise!Tell(k)
<1> DEFINE said == CASE a \in {"executed", "replayed"} -> "done"
                     [] a \in {"failed_terminal", "precondition_failed"} -> "refused"
                     [] OTHER -> "unknown"
<1>1. /\ reply'[k] = a
      /\ \A j \in Keys \ {k} : reply'[j] = reply[j]
  BY DEF TypeInv, TypeOK
<1>2. Told(k)' = said
  BY <1>1 DEF Told
<1>3. \A j \in Keys \ {k} : Told(j)' = Told(j)
  BY <1>1 DEF Told
<1>4. [j \in Keys |-> Told(j)]' = [[j \in Keys |-> Told(j)] EXCEPT ![k] = said]
  BY <1>2, <1>3
<1>5. /\ said \in {"unknown", "done", "refused"}
      /\ said = "done" => writes[k] = 1
      /\ said = "refused" => writes[k] = 0
  OBVIOUS
<1>6. QED
  BY <1>4, <1>5 DEF Promise!Tell

LEMMA CommitTells ==
  ASSUME TypeInv, OnceInv, NEW t \in Threads, NEW k \in Keys, Commit(t, k)
  PROVE  Promise!Tell(k) \/ UNCHANGED Promise!vars
<1>1. UNCHANGED writes
  BY DEF Commit
<1>2. CASE CommitReplay(t, k)
  BY <1>1, <1>2, AnswerTells DEF CommitReplay, Answer, Answers, OnceInv
<1>3. CASE CommitExpired(t, k)
  BY <1>1, <1>3, AnswerTells DEF CommitExpired, Answer, Answers
<1>4. CASE CommitAccept(t, k)
  BY <1>1, <1>4 DEF CommitAccept, Told, Promise!vars
<1>5. QED
  BY <1>2, <1>3, <1>4 DEF Commit

LEMMA WriteLands ==
  ASSUME NoDoubt, TypeInv, OnceInv, NEW t \in Threads, Write(t)
  PROVE  Promise!Land(thread[t].key)
<1>1. thread[t].key \in Keys /\ writes[thread[t].key] = 0
  BY WorkingProposal DEF Write, OnceInv
<1>2. writes' = [writes EXCEPT ![thread[t].key] = 1]
  BY <1>1 DEF Write, Again, TypeInv, TypeOK
<1>3. reply' = reply
  BY DEF Write, NoDoubt
<1>4. QED
  BY <1>1, <1>2, <1>3 DEF Promise!Land, Told

LEMMA HandlerTells ==
  ASSUME NoDoubt, TypeInv, OnceInv, NEW t \in Threads,
         Read(t) \/ WriteRejected(t) \/ ReadBackFails(t) \/ Settle(t) \/ Emit(t)
  PROVE  Promise!Tell(thread[t].key) \/ UNCHANGED Promise!vars
<1> DEFINE k == thread[t].key
<1>1. k \in Keys
  BY WorkingProposal DEF Read, WriteRejected, ReadBackFails, Settle, Emit
<1>2. UNCHANGED writes
  BY DEF Read, WriteRejected, ReadBackFails, Settle, Emit
<1>3. CASE reply' = reply
  BY <1>2, <1>3 DEF Told, Promise!vars
<1>4. CASE Read(t) /\ reply' # reply
  <2>1. writes[k] = 0
    BY <1>4 DEF Read, OnceInv
  <2>2. \E a \in {"failed_terminal", "precondition_failed"} :
          reply' = [reply EXCEPT ![k] = a]
    BY <1>4 DEF Read, Answer
  <2>3. QED
    BY <1>1, <1>2, <2>1, <2>2, AnswerTells DEF Answers
<1>5. CASE WriteRejected(t)
  <2>1. writes[k] = 0 /\ reply' = [reply EXCEPT ![k] = "failed_terminal"]
    BY <1>5 DEF WriteRejected, Answer, OnceInv
  <2>2. QED
    BY <1>1, <1>2, <2>1, AnswerTells DEF Answers
<1>6. CASE Emit(t)
  <2>1. writes[k] = 1
    BY <1>1, <1>6 DEF Emit, OnceInv
  <2>2. \E a \in {"executed", "error"} : reply' = [reply EXCEPT ![k] = a]
    BY <1>6 DEF Emit, Answer
  <2>3. QED
    BY <1>1, <1>2, <2>1, <2>2, AnswerTells DEF Answers
<1>7. CASE Settle(t)
  BY <1>3, <1>7 DEF Settle
<1>8. ~ReadBackFails(t)
  BY DEF NoDoubt, ReadBackFails
<1>9. QED
  BY <1>3, <1>4, <1>5, <1>6, <1>7, <1>8

\* The callers whose COMMITs a restart cuts off know nothing any more.
LEMMA RestartHangs ==
  ASSUME TypeInv, Restart
  PROVE  Promise!Hang({k \in Keys : InFlight(k)})
<1>1. ASSUME NEW k \in Keys
      PROVE  Told(k)' = IF InFlight(k) THEN "unknown" ELSE Told(k)
  BY DEF Restart, Told, TypeInv, TypeOK
<1>2. UNCHANGED writes
  BY DEF Restart
<1>3. QED
  BY <1>1, <1>2 DEF Promise!Hang

\* The edge implements CommitOnce: as long as no retry overtakes a running COMMIT
\* and every backend call is answered, whoever is told "done" has exactly one
\* effect, whoever is refused has none, across restarts and retries.
THEOREM KeepsPromise ==
  ASSUME NoDoubt
  PROVE  Spec => ImplementsCommitOnce
<1>1. Init => Promise!Init
  BY DEF Init, Promise!Init, Told
<1>2. TypeInv /\ OnceInv /\ [Next]_vars => [Promise!Next]_(Promise!vars)
  <2> SUFFICES ASSUME TypeInv, OnceInv, [Next]_vars
               PROVE  Promise!Next \/ UNCHANGED Promise!vars
    OBVIOUS
  <2>1. CASE \/ \E req \in Requests : Propose(req)
             \/ \E h \in compensations : Rollback(h)
             \/ Drift
             \/ UNCHANGED vars
    BY <2>1 DEF Propose, Rollback, Drift, vars, Promise!vars, Told
  <2>2. ASSUME NEW t \in Threads, NEW k \in Keys, Commit(t, k)
        PROVE  Promise!Next \/ UNCHANGED Promise!vars
    BY <2>2, CommitTells DEF Promise!Next
  <2>3. ASSUME NEW t \in Threads, Write(t)
        PROVE  Promise!Next
    <3>1. thread[t].key \in Keys
      BY <2>3, WorkingProposal DEF Write
    <3>2. QED
      BY <2>3, <3>1, WriteLands DEF Promise!Next
  <2>4. ASSUME NEW t \in Threads,
               Read(t) \/ WriteRejected(t) \/ ReadBackFails(t) \/ Settle(t) \/ Emit(t)
        PROVE  Promise!Next \/ UNCHANGED Promise!vars
    <3>1. thread[t].key \in Keys
      BY <2>4, WorkingProposal
      DEF Read, WriteRejected, ReadBackFails, Settle, Emit
    <3>2. QED
      BY <2>4, <3>1, HandlerTells DEF Promise!Next
  <2>5. CASE Restart
    <3>1. {k \in Keys : InFlight(k)} \in SUBSET Keys
      OBVIOUS
    <3>2. QED
      BY <2>5, <3>1, RestartHangs DEF Promise!Next
  <2>6. QED
    BY <2>1, <2>2, <2>3, <2>4, <2>5 DEF Next, Handler
<1>3. QED
  BY <1>1, <1>2, TypeInvariant, OnceInvariant, PTL
  DEF Spec, ImplementsCommitOnce, Promise!Spec
-----------------------------------------------------------------------------
(* What STATUS says of a proposal, and what a preview is worth.             *)

\* What OnceInv and ClaimInv say together of a pending proposal's keys.
LEMMA PendingFromInvariants ==
  ASSUME TypeInv, ClaimInv, OnceInv
  PROVE  PendingMeansUnwritten
<1> SUFFICES ASSUME NEW p \in 1..minted, Status(p) = "pending", NEW c \in Callers
             PROVE  writes[<<c, p>>] = 0 \/ InFlight(<<c, p>>)
  BY DEF PendingMeansUnwritten
<1>1. p \in Pids
  BY EdgeAssumption DEF TypeInv, TypeOK, Pids
<1>2. <<c, p>> \in Keys /\ KeyPid(<<c, p>>) = p
  BY <1>1 DEF Keys, KeyPid
<1>3. p \notin executed /\ proposals[p] # None
  BY DEF Status
<1>4. ledger[<<c, p>>] = "none"
  BY <1>2, <1>3 DEF ClaimInv, ClaimedMeansWritten
<1>5. writes[<<c, p>>] = 1 => InFlight(<<c, p>>)
  BY <1>2, <1>3, <1>4 DEF OnceInv, Runs, InFlight
<1>6. writes[<<c, p>>] \in 0..1
  BY <1>2 DEF OnceInv
<1> QED
  BY <1>5, <1>6

\* A proposal that STATUS reports as "pending" has written nothing, unless one of its
\* COMMITs runs at this moment: across restarts and retries, as long as no retry
\* overtakes a running COMMIT and every backend call is answered.
THEOREM PendingIsUnwritten ==
  ASSUME NoDoubt
  PROVE  Spec => []PendingMeansUnwritten
<1>1. Init => ClaimInv
  BY DEF Init, Idle, ClaimInv, ClaimedMeansWritten
<1> QED
  BY <1>1, NextClaim, TypeInvariant, OnceInvariant, PendingFromInvariants, PTL DEF Spec

\* A proposal stays what it was while a COMMIT of it runs, unless the edge restarts.
LEMMA ProposalStays ==
  ASSUME TypeInv, [Next]_vars, ~Restart, NEW p \in Pids, p <= minted
  PROVE  proposals'[p] = proposals[p]
<1>1. minted \in Nat /\ p \in Nat
  BY EdgeAssumption DEF TypeInv, TypeOK, Pids
<1>2. ASSUME NEW req, NEW w, NEW u, Store(req, w, u)
      PROVE  proposals'[p] = proposals[p]
  BY <1>1, <1>2 DEF Store, TypeInv, TypeOK
<1>3. ASSUME NEW req \in Requests, Propose(req)
      PROVE  proposals'[p] = proposals[p]
  BY <1>2, <1>3 DEF Propose
<1>4. ASSUME NEW h \in compensations, Rollback(h)
      PROVE  proposals'[p] = proposals[p]
  BY <1>2, <1>4 DEF Rollback
<1>5. ASSUME NEW t \in Threads, NEW k \in Keys, Commit(t, k)
      PROVE  proposals'[p] = proposals[p]
  BY <1>5 DEF Commit, shim
<1>6. ASSUME NEW t \in Threads, Handler(t)
      PROVE  proposals'[p] = proposals[p]
  BY <1>6 DEF Handler, Read, Write, WriteRejected, Settle, ReadBackFails, Emit, shim
<1>7. CASE Drift \/ UNCHANGED vars
  BY <1>7 DEF Drift, vars, shim
<1> QED
  BY <1>3, <1>4, <1>5, <1>6, <1>7 DEF Next

\* A step of one handler leaves the other handlers where they are.
LEMMA OthersStay ==
  ASSUME thread \in [Threads -> ThreadState], NEW u \in Threads,
         Handler(u) \/ \E k \in Keys : Commit(u, k),
         NEW t \in Threads, t # u
  PROVE  thread'[t] = thread[t]
<1>1. ASSUME NEW r, thread' = [thread EXCEPT ![u] = r]
      PROVE  thread'[t] = thread[t]
  BY <1>1
<1>2. ASSUME NEW k, NEW a, Answer(u, k, a)
      PROVE  thread'[t] = thread[t]
  BY <1>1, <1>2 DEF Answer
<1>3. ASSUME NEW pc, Goto(u, pc)
      PROVE  thread'[t] = thread[t]
  BY <1>3 DEF Goto
<1>4. CASE Read(u)
  BY <1>2, <1>4 DEF Read
<1>5. CASE Write(u)
  BY <1>2, <1>5 DEF Write
<1>6. CASE WriteRejected(u) \/ ReadBackFails(u) \/ Emit(u)
  BY <1>2, <1>6 DEF WriteRejected, ReadBackFails, Emit
<1>7. CASE Settle(u)
  BY <1>3, <1>7 DEF Settle
<1>8. ASSUME NEW k \in Keys, Commit(u, k)
      PROVE  thread'[t] = thread[t]
  <2>1. CASE CommitReplay(u, k) \/ CommitExpired(u, k)
    BY <1>2, <2>1 DEF CommitReplay, CommitExpired
  <2>2. CASE CommitAccept(u, k)
    BY <2>2 DEF CommitAccept
  <2> QED
    BY <1>8, <2>1, <2>2 DEF Commit
<1> QED
  BY <1>4, <1>5, <1>6, <1>7, <1>8 DEF Handler

\* Past its read, a handler never comes back to the point before the write.
LEMMA OnlyReadLeadsToWrite ==
  ASSUME thread \in [Threads -> ThreadState], NEW u \in Threads,
         Handler(u), ~Read(u)
  PROVE  thread'[u].pc # "write"
<1>1. ASSUME NEW k, NEW a, Answer(u, k, a)
      PROVE  thread'[u].pc # "write"
  BY <1>1 DEF Answer, Idle
<1>2. CASE Write(u)
  BY <1>1, <1>2 DEF Write, ThreadState
<1>3. CASE WriteRejected(u) \/ ReadBackFails(u) \/ Emit(u)
  BY <1>1, <1>3 DEF WriteRejected, ReadBackFails, Emit
<1>4. CASE Settle(u)
  BY <1>4 DEF Settle, Goto, ThreadState
<1> QED
  BY <1>2, <1>3, <1>4 DEF Handler

\* A thread that is about to write got there by a read of its own that agreed with
\* the preview, or has been there before.
LEMMA OnlyReadGoesOn ==
  ASSUME TypeInv, [Next]_vars, NEW t \in Threads, thread'[t].pc = "write"
  PROVE  \/ thread'[t] = thread[t] /\ ~Restart
         \/ /\ proposals' = proposals /\ thread'[t].key \in Keys
            /\ proposals[KeyPid(thread'[t].key)].req.verb = "create"
         \/ /\ proposals' = proposals /\ thread'[t].key = thread[t].key /\ Read(t)
<1>1. thread \in [Threads -> ThreadState]
  BY DEF TypeInv, TypeOK
<1>2. CASE \/ \E req \in Requests : Propose(req)
           \/ \E h \in compensations : Rollback(h)
           \/ Drift
           \/ UNCHANGED vars
  <2>1. thread' = thread
    BY <1>2 DEF Propose, Rollback, Drift, vars
  <2>2. thread[t] # Idle
    BY <2>1 DEF Idle
  <2>3. thread'[t] # Idle
    BY <2>1, <2>2
  <2> QED
    BY <2>1, <2>3 DEF Restart
<1>3. ASSUME NEW u \in Threads, NEW k \in Keys, Commit(u, k)
      PROVE  \/ thread'[t] = thread[t] /\ ~Restart
             \/ /\ proposals' = proposals /\ thread'[t].key \in Keys
                /\ proposals[KeyPid(thread'[t].key)].req.verb = "create"
  <2>1. ~Restart
    BY DEF Restart, Idle
  <2>2. CASE t # u
    BY <1>1, <1>3, <2>1, <2>2, OthersStay
  <2>3. CASE t = u
    <3>1. \A a : ~Answer(t, k, a)
      BY <1>1 DEF Answer, Idle
    <3>2. CommitAccept(t, k) /\ proposals' = proposals
      BY <1>3, <2>3, <3>1 DEF Commit, CommitReplay, CommitExpired, shim
    <3>3. thread'[t].key = k /\ proposals[KeyPid(k)].req.verb = "create"
      BY <1>1, <3>2 DEF CommitAccept
    <3> QED
      BY <3>2, <3>3
  <2> QED
    BY <2>2, <2>3
<1>4. ASSUME NEW u \in Threads, Handler(u)
      PROVE  \/ thread'[t] = thread[t] /\ ~Restart
             \/ proposals' = proposals /\ thread'[t].key = thread[t].key /\ Read(t)
  <2>1. ~Restart
    BY DEF Restart, Idle
  <2>2. CASE t # u
    BY <1>1, <1>4, <2>1, <2>2, OthersStay
  <2>3. CASE t = u /\ ~Read(t)
    BY <1>1, <1>4, <2>3, OnlyReadLeadsToWrite
  <2>4. CASE t = u /\ Read(t)
    <3>1. \A k, a : ~Answer(t, k, a)
      BY <1>1 DEF Answer, Idle
    <3>2. \E row : thread' = [thread EXCEPT ![t].pc = "write", ![t].before = row]
      BY <2>4, <3>1 DEF Read
    <3>3. thread'[t].key = thread[t].key
      BY <1>1, <3>2 DEF ThreadState
    <3>4. proposals' = proposals
      BY <2>4 DEF Read, shim
    <3> QED
      BY <2>4, <3>3, <3>4
  <2> QED
    BY <2>2, <2>3, <2>4
<1>5. ~Restart
  BY DEF Restart, Idle
<1> QED
  BY <1>2, <1>3, <1>4, <1>5 DEF Next

\* Only a resource update has a witness.
Witnessed == \A p \in Pids :
  proposals[p] # None /\ proposals[p].witness # None =>
    proposals[p].req.verb = "update" /\ proposals[p].req.kind = "resource"

LEMMA WitnessedInvariant == Spec => []Witnessed
<1>1. Init => Witnessed
  BY DEF Init, Witnessed
<1>2. TypeInv /\ Witnessed /\ [Next]_vars => Witnessed'
  <2> SUFFICES ASSUME TypeInv, Witnessed, [Next]_vars
               PROVE  Witnessed'
    OBVIOUS
  <2>1. ASSUME NEW req, NEW w, NEW u, Store(req, w, u),
               w # None => req.verb = "update" /\ req.kind = "resource"
        PROVE  Witnessed'
    BY <2>1 DEF Store, Witnessed, TypeInv, TypeOK
  <2>2. ASSUME NEW req \in Requests, Propose(req)
        PROVE  Witnessed'
    <3>1. Witness(req) # None => req.verb = "update" /\ req.kind = "resource"
      BY DEF Witness
    <3> QED
      BY <2>1, <2>2, <3>1 DEF Propose
  <2>3. ASSUME NEW h \in compensations, Rollback(h)
        PROVE  Witnessed'
    BY <2>1, <2>3 DEF Rollback
  <2>4. CASE Restart
    BY <2>4 DEF Restart, Witnessed
  <2>5. CASE UNCHANGED proposals
    BY <2>5 DEF Witnessed
  <2>6. ASSUME NEW t \in Threads, (\E k \in Keys : Commit(t, k)) \/ Handler(t)
        PROVE  UNCHANGED proposals
    BY <2>6 DEF Commit, Handler, Read, Write, WriteRejected, Settle, ReadBackFails,
                Emit, shim
  <2>7. CASE Drift \/ UNCHANGED vars
    BY <2>5, <2>7 DEF Drift, vars, shim
  <2> QED
    BY <2>2, <2>3, <2>4, <2>5, <2>6, <2>7 DEF Next
<1> QED
  BY <1>1, <1>2, TypeInvariant, PTL DEF Spec

\* While nobody comes in between, the record that a thread is about to write is
\* still the one it has read, which agreed with the preview.
WindowInv ==
  \A t \in Threads :
    LET p == proposals[KeyPid(thread[t].key)] IN
    thread[t].pc = "write" /\ t \notin raced /\ p.req.verb # "create" =>
      /\ world[thread[t].id] = thread[t].before
      /\ p.witness # None =>
           /\ thread[t].before # None
           /\ p.witness = Project(thread[t].before, DOMAIN p.req.data)

\* Whoever changes the record that a thread is about to write is noticed.
LEMMA ChangesAreRaces ==
  ASSUME TypeInv, [Next]_vars, NEW t \in Threads, thread[t].pc = "write",
         thread'[t] = thread[t], t \notin raced'
  PROVE  t \notin raced /\ world'[thread[t].id] = world[thread[t].id]
<1>0. /\ thread \in [Threads -> ThreadState] /\ world \in [Records -> Row \cup {None}]
      /\ thread'[t].pc = "write"
  BY DEF TypeInv, TypeOK
<1>1. ASSUME NEW u \in Threads, Write(u)
      PROVE  t \notin raced /\ world'[thread[t].id] = world[thread[t].id]
  <2>1. t # u
    BY <1>0, <1>1 DEF Write, Answer, Idle, ThreadState
  <2>2. PICK id \in Target(u, proposals[KeyPid(thread[u].key)].req) :
          /\ Applied(proposals[KeyPid(thread[u].key)].req, id, world')
          /\ raced' = (raced \cup Holding(id)) \ {u}
    BY <1>1 DEF Write
  <2>3. t \notin raced /\ thread[t].id # id
    BY <2>1, <2>2 DEF Holding
  <2>4. \E x : world' = [world EXCEPT ![id] = x]
    BY <2>2 DEF Applied
  <2> QED
    BY <1>0, <2>3, <2>4
<1>2. CASE Drift
  <2>1. PICK r \in Records, row \in Row \cup {None} :
          world' = [world EXCEPT ![r] = row] /\ raced' = raced \cup Holding(r)
    BY <1>2 DEF Drift
  <2>2. t \notin raced /\ thread[t].id # r
    BY <2>1 DEF Holding
  <2> QED
    BY <1>0, <2>1, <2>2
<1>3. ASSUME NEW u \in Threads, WriteRejected(u)
      PROVE  t \notin raced /\ world'[thread[t].id] = world[thread[t].id]
  <2>1. t # u
    BY <1>0, <1>3 DEF WriteRejected, Answer, Idle
  <2> QED
    BY <1>3, <2>1 DEF WriteRejected
<1>4. ASSUME NEW u \in Threads,
             Read(u) \/ Settle(u) \/ ReadBackFails(u) \/ Emit(u)
               \/ \E k \in Keys : Commit(u, k)
      PROVE  t \notin raced /\ world'[thread[t].id] = world[thread[t].id]
  BY <1>4 DEF Read, Settle, ReadBackFails, Emit, Commit, past
<1>5. CASE \/ \E req \in Requests : Propose(req)
           \/ \E h \in compensations : Rollback(h)
           \/ UNCHANGED vars
  BY <1>5 DEF Propose, Rollback, vars, past
<1>6. ~Restart
  BY <1>0 DEF Restart, Idle
<1> QED
  BY <1>1, <1>2, <1>3, <1>4, <1>5, <1>6 DEF Next, Handler

LEMMA WindowStep ==
  ASSUME TypeInv, Witnessed, WindowInv, [Next]_vars
  PROVE  WindowInv'
<1> SUFFICES ASSUME NEW t \in Threads, thread'[t].pc = "write", t \notin raced',
                    proposals'[KeyPid(thread'[t].key)].req.verb # "create"
             PROVE  LET p == proposals'[KeyPid(thread'[t].key)] IN
                    /\ world'[thread'[t].id] = thread'[t].before
                    /\ p.witness # None =>
                         /\ thread'[t].before # None
                         /\ p.witness = Project(thread'[t].before, DOMAIN p.req.data)
  BY DEF WindowInv
<1>1. CASE thread'[t] = thread[t] /\ ~Restart
  <2>1. thread[t].pc = "write"
    BY <1>1
  <2>2. KeyPid(thread[t].key) \in Pids /\ KeyPid(thread[t].key) <= minted
    BY <2>1 DEF TypeInv, Working, Keys, KeyPid
  <2>3. proposals'[KeyPid(thread[t].key)] = proposals[KeyPid(thread[t].key)]
    BY <1>1, <2>2, ProposalStays
  <2>4. t \notin raced /\ world'[thread[t].id] = world[thread[t].id]
    BY <1>1, <2>1, ChangesAreRaces
  <2> QED
    BY <1>1, <2>1, <2>3, <2>4 DEF WindowInv
<1>2. CASE proposals' = proposals /\ thread'[t].key = thread[t].key /\ Read(t)
  <2> DEFINE p == proposals[KeyPid(thread[t].key)]
             row == world[thread[t].id]
  <2>1. thread[t].pc = "read" /\ thread \in [Threads -> ThreadState]
    BY <1>2 DEF Read, TypeInv, TypeOK
  <2>2. KeyPid(thread[t].key) \in Pids /\ p # None /\ p.req.verb # "create"
    BY <2>1 DEF TypeInv, Working, Keys, KeyPid
  <2>3. thread'[t].before = row /\ thread'[t].id = thread[t].id /\ world' = world
    BY <1>2, <2>1 DEF Read, Answer, Idle, ThreadState
  <2>4. \/ row = None /\ p.req.kind = "curated"
        \/ row # None /\ (p.witness # None => p.witness = Project(row, DOMAIN p.req.data))
    BY <1>2, <2>1 DEF Read, Answer, Idle
  <2>5. p.req.kind = "curated" => p.witness = None
    BY <2>2 DEF Witnessed
  <2> QED
    BY <1>2, <2>3, <2>4, <2>5
<1> QED
  BY <1>1, <1>2, OnlyReadGoesOn

LEMMA WindowInvariant == Spec => []WindowInv
<1>1. Init => WindowInv
  BY DEF Init, Idle, WindowInv
<1> QED
  BY <1>1, WindowStep, TypeInvariant, WitnessedInvariant, PTL DEF Spec

\* Under every fault, the values an update writes over in the backend are those of
\* its preview, unless another writer came in between this COMMIT's read and write.
THEOREM OnlyRacesAreStale == Spec => NoStalePreview
<1> DEFINE Fresh ==
      \A t \in Threads :
        LET p   == proposals[KeyPid(thread[t].key)]
            row == world[thread[t].id]
        IN
        Lands(t) /\ p.witness # None /\ t \notin raced =>
          row # None /\ Project(row, DOMAIN p.req.data) = p.witness
<1>1. TypeInv /\ Witnessed /\ WindowInv => Fresh
  <2> SUFFICES ASSUME TypeInv, Witnessed, WindowInv, NEW t \in Threads, Lands(t),
                      proposals[KeyPid(thread[t].key)].witness # None, t \notin raced
               PROVE  LET p   == proposals[KeyPid(thread[t].key)]
                          row == world[thread[t].id]
                      IN row # None /\ Project(row, DOMAIN p.req.data) = p.witness
    OBVIOUS
  <2>1. thread[t].pc = "write"
    BY DEF Lands
  <2>2. KeyPid(thread[t].key) \in Pids /\ proposals[KeyPid(thread[t].key)] # None
    BY <2>1 DEF TypeInv, Working, Keys, KeyPid
  <2>3. proposals[KeyPid(thread[t].key)].req.verb # "create"
    BY <2>2 DEF Witnessed
  <2> QED
    BY <2>1, <2>3 DEF WindowInv
<1>2. TypeInv /\ Witnessed /\ WindowInv /\ [Next]_vars => [Fresh]_vars
  BY <1>1
<1> QED
  BY <1>2, TypeInvariant, WitnessedInvariant, WindowInvariant, PTL
  DEF Spec, NoStalePreview

-----------------------------------------------------------------------------
(* What a reversal brings back.                                             *)

\* Doing req leaves what the write under k replaced, if that is known.
Undoes(k, req) ==
  /\ writes[k] > 0
  /\ \A row \in replaced[k] :
       IF req.verb = "delete" THEN row = None ELSE row = req.data /\ row \in Row

UndoInv ==
  /\ \A h \in compensations : Undoes(h.origin, h.rev)
  /\ \A p \in Pids :
       proposals[p] # None /\ proposals[p].undoes # None =>
         Undoes(proposals[p].undoes, proposals[p].req)
  /\ \A t \in Threads :
       thread[t].pc = "settle" =>
         /\ writes[thread[t].key] > 0
         /\ \A row \in replaced[thread[t].key] :
              row = IF proposals[KeyPid(thread[t].key)].req.verb = "create"
                    THEN None ELSE thread[t].before

\* Once a key has written, what it replaced is settled, or forgotten.
LEMMA ReplacedStays ==
  ASSUME TypeInv, [Next]_vars, NEW k \in Keys, writes[k] > 0
  PROVE  writes'[k] > 0 /\ replaced'[k] \subseteq replaced[k]
<1>0. writes \in [Keys -> 0..2] /\ replaced \in [Keys -> SUBSET (Row \cup {None})]
  BY DEF TypeInv, TypeOK
<1>1. ASSUME NEW t \in Threads, Write(t)
      PROVE  writes'[k] > 0 /\ replaced'[k] \subseteq replaced[k]
  <2>1. writes' = [writes EXCEPT ![thread[t].key] = Again(@)]
    BY <1>1 DEF Write
  <2>2. PICK x : replaced' = [replaced EXCEPT ![thread[t].key] =
                   IF writes[thread[t].key] = 0 /\ t \notin raced THEN x ELSE {}]
    BY <1>1 DEF Write
  <2>3. writes'[k] > 0
    BY <1>0, <2>1 DEF Again
  <2>4. replaced'[k] \subseteq replaced[k]
    <3>1. CASE k = thread[t].key
      BY <1>0, <2>2, <3>1
    <3>2. CASE k # thread[t].key
      BY <1>0, <2>2, <3>2
    <3> QED BY <3>1, <3>2
  <2> QED
    BY <2>3, <2>4
<1>2. CASE Restart
  BY <1>2 DEF Restart
<1>3. ASSUME NEW t \in Threads,
             Read(t) \/ WriteRejected(t) \/ Settle(t) \/ ReadBackFails(t) \/ Emit(t)
               \/ \E j \in Keys : Commit(t, j)
      PROVE  writes'[k] > 0 /\ replaced'[k] \subseteq replaced[k]
  BY <1>3 DEF Read, WriteRejected, Settle, ReadBackFails, Emit, Commit, past
<1>4. CASE \/ \E req \in Requests : Propose(req)
           \/ \E h \in compensations : Rollback(h)
           \/ Drift \/ UNCHANGED vars
  BY <1>4 DEF Propose, Rollback, Drift, vars, past
<1> QED
  BY <1>1, <1>2, <1>3, <1>4 DEF Next, Handler

LEMMA UndoesStays ==
  ASSUME TypeInv, [Next]_vars, NEW k \in Keys, NEW req, Undoes(k, req)
  PROVE  Undoes(k, req)'
  BY ReplacedStays DEF Undoes

\* A handle is minted of the before-image, or of nothing when the write created.
LEMMA MintedUndoes ==
  ASSUME TypeInv, UndoInv, NEW t \in Threads, Settle(t),
         NEW r \in Reversals(proposals[KeyPid(thread[t].key)].req, thread[t].id,
                             thread[t].before)
  PROVE  Undoes(thread[t].key, r)
<1> DEFINE req == proposals[KeyPid(thread[t].key)].req
<1>1. thread[t].pc = "settle" /\ thread[t] \in ThreadState
  BY WorkingProposal DEF Settle
<1>2. req.verb # "create" /\ req.kind = "resource" => thread[t].before \in Row
  BY <1>1 DEF TypeInv, Working, ThreadState
<1>3. /\ writes[thread[t].key] > 0
      /\ \A row \in replaced[thread[t].key] :
           row = IF req.verb = "create" THEN None ELSE thread[t].before
  BY <1>1 DEF UndoInv
<1> HIDE DEF req
<1>4. r \in Reversals(req, thread[t].id, thread[t].before)
  BY DEF req
<1>5. \/ req.verb = "create" /\ r.verb = "delete"
      \/ /\ req.verb # "create" /\ req.kind = "resource"
         /\ r.verb # "delete" /\ r.data = thread[t].before
  BY <1>4 DEF Reversals
<1> QED
  BY <1>2, <1>3, <1>5 DEF Undoes

\* What a thread has just written under its key.
LEMMA WrittenReplaces ==
  ASSUME TypeInv, WindowInv, NEW t \in Threads, Write(t), thread'[t].pc = "settle"
  PROVE  /\ thread'[t].key = thread[t].key
         /\ writes'[thread[t].key] > 0
         /\ \A row \in replaced'[thread[t].key] :
              row = IF proposals[KeyPid(thread[t].key)].req.verb = "create"
                    THEN None ELSE thread'[t].before
<1> DEFINE k   == thread[t].key
           req == proposals[KeyPid(k)].req
<1>0. /\ thread \in [Threads -> ThreadState] /\ writes \in [Keys -> 0..2]
      /\ replaced \in [Keys -> SUBSET (Row \cup {None})]
      /\ k \in Keys /\ thread[t].pc = "write"
  BY WorkingProposal DEF Write, TypeInv, TypeOK
<1>1. PICK id \in Target(t, req) :
        /\ Applied(req, id, world')
        /\ replaced' = [replaced EXCEPT ![k] =
             IF writes[k] = 0 /\ t \notin raced THEN {world[id]} ELSE {}]
        /\ \/ thread' = [thread EXCEPT ![t].pc = "settle", ![t].id = id]
           \/ Answer(t, k, "error")
  BY DEF Write
<1>2. thread' = [thread EXCEPT ![t].pc = "settle", ![t].id = id]
  BY <1>0, <1>1 DEF Answer, Idle
<1>3. thread'[t].key = k /\ thread'[t].before = thread[t].before
  BY <1>0, <1>2 DEF ThreadState
<1>4. writes' = [writes EXCEPT ![k] = Again(@)]
  BY DEF Write
<1>5. writes'[k] > 0
  BY <1>0, <1>4 DEF Again
<1>6. ASSUME NEW row \in replaced'[k]
      PROVE  row = IF req.verb = "create" THEN None ELSE thread[t].before
  <2>1. row = world[id] /\ t \notin raced
    BY <1>0, <1>1, <1>6
  <2>2. CASE req.verb = "create"
    BY <1>1, <2>1, <2>2 DEF Applied
  <2>3. CASE req.verb # "create"
    <3>1. id = thread[t].id
      BY <1>1, <2>3 DEF Target
    <3>2. world[thread[t].id] = thread[t].before
      BY <1>0, <2>1, <2>3 DEF WindowInv
    <3> QED BY <2>1, <2>3, <3>1, <3>2
  <2> QED BY <2>2, <2>3
<1> QED
  BY <1>3, <1>5, <1>6

LEMMA HandlesUndo ==
  ASSUME TypeInv, UndoInv, [Next]_vars, NEW h \in compensations'
  PROVE  Undoes(h.origin, h.rev)'
<1>1. CASE h \in compensations
  <2>1. h.origin \in Keys /\ Undoes(h.origin, h.rev)
    BY <1>1 DEF UndoInv, TypeInv, TypeOK, Handle
  <2> QED
    BY <2>1, UndoesStays
<1>2. CASE h \notin compensations
  <2>1. PICK t \in Threads : Settle(t)
    BY <1>2 DEF Next, Propose, Rollback, Commit, Handler, Read, Write, WriteRejected,
       ReadBackFails, Emit, Restart, Drift, vars, shim
  <2>2. PICK r \in Reversals(proposals[KeyPid(thread[t].key)].req, thread[t].id,
                             thread[t].before) :
          h = [origin |-> thread[t].key, rev |-> r]
    BY <1>2, <2>1 DEF Settle
  <2>3. Undoes(thread[t].key, r)
    BY <2>1, MintedUndoes
  <2>4. thread[t].key \in Keys
    BY <2>1, WorkingProposal DEF Settle
  <2>5. h.origin = thread[t].key /\ h.rev = r
    BY <2>2
  <2> QED
    BY <2>3, <2>4, <2>5, UndoesStays
<1> QED
  BY <1>1, <1>2

LEMMA ProposalsUndo ==
  ASSUME TypeInv, UndoInv, [Next]_vars, NEW p \in Pids,
         proposals'[p] # None, proposals'[p].undoes # None
  PROVE  Undoes(proposals[p].undoes, proposals[p].req)'
<1>1. CASE proposals'[p] = proposals[p]
  <2>1. /\ proposals[p].undoes \in Keys
        /\ Undoes(proposals[p].undoes, proposals[p].req)
    BY <1>1 DEF UndoInv, TypeInv, TypeOK, Proposal
  <2> QED
    BY <1>1, <2>1, ReplacedStays DEF Undoes
<1>2. CASE proposals'[p] # proposals[p]
  <2>1. ~Restart
    BY DEF Restart
  <2>2. ASSUME NEW t \in Threads, Handler(t) \/ \E k \in Keys : Commit(t, k)
        PROVE  proposals' = proposals
    BY <2>2 DEF Handler, Read, Write, WriteRejected, Settle, ReadBackFails, Emit,
       Commit, shim
  <2>3. \/ \E req \in Requests : Propose(req)
        \/ \E h \in compensations : Rollback(h)
    BY <1>2, <2>1, <2>2 DEF Next, Drift, vars, shim
  <2>5. ASSUME NEW req \in Requests, Propose(req) PROVE FALSE
    BY <1>2, <2>5 DEF Propose, Store, TypeInv, TypeOK
  <2>6. PICK h \in compensations : Rollback(h)
    BY <2>3, <2>5
  <2>7. proposals'[p].req = h.rev /\ proposals'[p].undoes = h.origin
    BY <1>2, <2>6 DEF Rollback, Store, TypeInv, TypeOK
  <2>8. h.origin \in Keys /\ Undoes(h.origin, h.rev)
    BY DEF UndoInv, TypeInv, TypeOK, Handle
  <2> QED
    BY <2>7, <2>8, ReplacedStays DEF Undoes
<1> QED
  BY <1>1, <1>2

\* A thread that awaits its read-back has just written, or has been there before.
LEMMA OnlyWriteLeadsToSettle ==
  ASSUME TypeInv, [Next]_vars, NEW t \in Threads, thread'[t].pc = "settle"
  PROVE  (thread'[t] = thread[t] /\ ~Restart) \/ Write(t)
<1>1. thread \in [Threads -> ThreadState]
  BY DEF TypeInv, TypeOK
<1>2. ~Restart
  BY DEF Restart, Idle
<1>3. CASE \/ \E req \in Requests : Propose(req)
           \/ \E h \in compensations : Rollback(h)
           \/ Drift \/ UNCHANGED vars
  <2>1. thread' = thread
    BY <1>3 DEF Propose, Rollback, Drift, vars
  <2> QED
    BY <1>2, <2>1
<1>4. ASSUME NEW u \in Threads, Handler(u) \/ \E k \in Keys : Commit(u, k), t # u
      PROVE  thread'[t] = thread[t]
  BY <1>1, <1>4, OthersStay
<1>5. ASSUME NEW k \in Keys, Commit(t, k) PROVE FALSE
  BY <1>1, <1>5 DEF Commit, CommitReplay, CommitExpired, CommitAccept, Answer, Idle
<1>6. ASSUME Handler(t), ~Write(t) PROVE FALSE
  <2>1. ASSUME NEW k, NEW a, Answer(t, k, a) PROVE FALSE
    BY <1>1, <2>1 DEF Answer, Idle
  <2>2. CASE Read(t)
    BY <1>1, <2>1, <2>2 DEF Read, ThreadState
  <2>3. CASE WriteRejected(t) \/ ReadBackFails(t) \/ Emit(t)
    BY <2>1, <2>3 DEF WriteRejected, ReadBackFails, Emit
  <2>4. CASE Settle(t)
    BY <1>1, <2>4 DEF Settle, Goto, ThreadState
  <2> QED
    BY <1>6, <2>2, <2>3, <2>4 DEF Handler
<1> QED
  BY <1>2, <1>3, <1>4, <1>5, <1>6 DEF Next

LEMMA UndoStep ==
  ASSUME TypeInv, WindowInv, UndoInv, [Next]_vars
  PROVE  UndoInv'
<1>1. ASSUME NEW t \in Threads, thread'[t].pc = "settle"
      PROVE  /\ writes'[thread'[t].key] > 0
             /\ \A row \in replaced'[thread'[t].key] :
                  row = IF proposals'[KeyPid(thread'[t].key)].req.verb = "create"
                        THEN None ELSE thread'[t].before
  <2>1. CASE thread'[t] = thread[t] /\ ~Restart
    <3>1. thread[t].pc = "settle"
      BY <1>1, <2>1
    <3>2. /\ thread[t].key \in Keys
          /\ KeyPid(thread[t].key) \in Pids /\ KeyPid(thread[t].key) <= minted
      BY <3>1 DEF TypeInv, Working, Keys, KeyPid
    <3>3. proposals'[KeyPid(thread[t].key)] = proposals[KeyPid(thread[t].key)]
      BY <2>1, <3>2, ProposalStays
    <3>4. /\ writes[thread[t].key] > 0
          /\ \A row \in replaced[thread[t].key] :
               row = IF proposals[KeyPid(thread[t].key)].req.verb = "create"
                     THEN None ELSE thread[t].before
      BY <3>1 DEF UndoInv
    <3>5. /\ writes'[thread[t].key] > 0
          /\ replaced'[thread[t].key] \subseteq replaced[thread[t].key]
      BY <3>2, <3>4, ReplacedStays
    <3> QED
      BY <2>1, <3>3, <3>4, <3>5
  <2>2. CASE Write(t)
    <3>1. proposals' = proposals
      BY <2>2 DEF Write, shim
    <3> QED
      BY <1>1, <2>2, <3>1, WrittenReplaces
  <2> QED
    BY <1>1, <2>1, <2>2, OnlyWriteLeadsToSettle
<1>2. \A h \in compensations' : Undoes(h.origin, h.rev)'
  BY HandlesUndo
<1>3. \A p \in Pids :
        proposals'[p] # None /\ proposals'[p].undoes # None =>
          Undoes(proposals[p].undoes, proposals[p].req)'
  BY ProposalsUndo
<1> QED
  BY <1>1, <1>2, <1>3 DEF UndoInv

LEMMA UndoInvariant == Spec => []UndoInv
<1>1. Init => UndoInv
  BY DEF Init, Idle, UndoInv
<1> QED
  BY <1>1, UndoStep, TypeInvariant, WindowInvariant, PTL DEF Spec

\* A whole row that is written is what the record is then.
LEMMA WholeRow ==
  ASSUME TypeInv, NEW req \in Request, NEW id \in Records, Applied(req, id, world')
  PROVE  /\ req.verb = "delete" => world'[id] = None
         /\ req.verb # "delete" /\ req.data \in Row => world'[id] = req.data
<1>0. world \in [Records -> Row \cup {None}]
  BY DEF TypeInv, TypeOK
<1>1. CASE req.verb = "delete"
  BY <1>0, <1>1 DEF Applied
<1>2. CASE req.verb = "update" /\ req.data \in Row
  <2>1. PICK row \in Row :
          /\ \A f \in Fields : row[f] = IF f \in DOMAIN req.data THEN req.data[f]
               ELSE IF world[id] # None THEN world[id][f] ELSE row[f]
          /\ world' = [world EXCEPT ![id] = row]
    BY <1>2 DEF Applied
  <2>2. \A f \in Fields : row[f] = req.data[f]
    BY <1>2, <2>1 DEF Row
  <2>3. row = req.data
    BY <1>2, <2>2 DEF Row
  <2> QED
    BY <1>0, <1>2, <2>1, <2>3
<1>3. CASE req.verb = "create" /\ req.data \in Row
  <2>1. PICK row \in Row : /\ Project(row, DOMAIN req.data) = req.data
                           /\ world' = [world EXCEPT ![id] = row]
    BY <1>3 DEF Applied
  <2>2. DOMAIN req.data = Fields
    BY <1>3 DEF Row
  <2>3. \A f \in Fields : row[f] = req.data[f]
    BY <2>1, <2>2 DEF Project
  <2>4. row = req.data
    BY <1>3, <2>3 DEF Row
  <2> QED
    BY <1>0, <1>3, <2>1, <2>4
<1> QED
  BY <1>1, <1>2, <1>3 DEF Request, Verbs

\* Under every fault, a committed reversal leaves the record as the write it undoes
\* had found it, unless others came in between that COMMIT's read and its write.
THEOREM UndoBringsBack == Spec => UndoRestores
<1> DEFINE Restores ==
      \A t \in Threads :
        LET undoes == proposals[KeyPid(thread[t].key)].undoes IN
        Lands(t) /\ undoes # None =>
          \A row \in replaced[undoes] : world'[thread'[t].id] = row
<1>1. ASSUME TypeInv, UndoInv, [Next]_vars PROVE Restores
  <2> SUFFICES ASSUME NEW t \in Threads, Lands(t),
                      proposals[KeyPid(thread[t].key)].undoes # None,
                      NEW row \in replaced[proposals[KeyPid(thread[t].key)].undoes]
               PROVE  world'[thread'[t].id] = row
    OBVIOUS
  <2> DEFINE p == proposals[KeyPid(thread[t].key)]
  <2>1. Write(t)
    BY <1>1, OnlyWriteLeadsToSettle DEF Lands
  <2>2. /\ thread[t] \in ThreadState /\ thread[t].key \in Keys
        /\ KeyPid(thread[t].key) \in Pids /\ p \in Proposal /\ p.req \in Request
        /\ p # None
    BY <1>1, <2>1, WorkingProposal DEF Write, TypeInv, Working
  <2>3. Undoes(p.undoes, p.req)
    BY <1>1, <2>2 DEF UndoInv
  <2>4. PICK id \in Target(t, p.req) :
          /\ Applied(p.req, id, world')
          /\ \/ thread' = [thread EXCEPT ![t].pc = "settle", ![t].id = id]
             \/ Answer(t, thread[t].key, "error")
    BY <2>1 DEF Write
  <2>5. id \in Records
    BY <1>1, <2>1, <2>2, <2>4 DEF Write, Target, TypeInv, Working
  <2>6. thread'[t].id = id
    BY <1>1, <2>2, <2>4 DEF Lands, Answer, Idle, TypeInv, TypeOK, ThreadState
  <2>7. IF p.req.verb = "delete" THEN row = None ELSE row = p.req.data /\ row \in Row
    BY <2>3 DEF Undoes
  <2> HIDE DEF p
  <2> QED
    BY <1>1, <2>2, <2>4, <2>5, <2>6, <2>7, WholeRow
<1>2. TypeInv /\ UndoInv /\ [Next]_vars => [Restores]_vars
  BY <1>1
<1> QED
  BY <1>2, TypeInvariant, UndoInvariant, PTL DEF Spec, UndoRestores
=============================================================================
