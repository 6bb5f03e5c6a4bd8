------------------------------- MODULE BulkJob -------------------------------
(***************************************************************************)
(* run_bulk: a long list of ids is worked off in batches.  The caller's    *)
(* callback writes a batch id by id and may raise on the way; after a      *)
(* batch the caller's checkpoint records its ids durably.  Between batches *)
(* the job may be told to stop.  The process may die at any moment; the    *)
(* caller then starts the job again with what was checkpointed.            *)
(***************************************************************************)
EXTENDS Integers, Sequences, SequencesExt, Ascending

CONSTANTS
  Items,
  BatchSize,
  MaxRuns      \* bound: how often the job is started

ASSUME BulkAssumption ==
  /\ BatchSize \in Nat \ {0}
  /\ MaxRuns \in Nat

VARIABLES
  job,
  done,     \* durable: the ids of the batches that were checkpointed
  applied,  \* history: how often the callback has written an id
  torn      \* history: how often it did so in a batch that did not end

bulk == <<job, done, applied, torn>>

\* ids: what the job is about.  pending: what is left of them, the batch at work
\* first.  at: how many of that batch are written.
Job == [pc : {"idle", "between", "batch", "ended", "dead"}, ids : Seq(Items),
        pending : Seq(Items), at : 0..BatchSize, on_error : {"skip", "stop"},
        failed : SUBSET Items, stopped : BOOLEAN, runs : 0..MaxRuns]

BulkTypeOK ==
  /\ job \in Job
  /\ done \subseteq Items
  /\ applied \in [Items -> Nat]
  /\ torn \in [Items -> Nat]

BulkInit ==
  /\ job = [pc |-> "idle", ids |-> << >>, pending |-> << >>, at |-> 0,
            on_error |-> "skip", failed |-> {}, stopped |-> FALSE, runs |-> 0]
  /\ done = {}
  /\ applied = [i \in Items |-> 0]
  /\ torn = [i \in Items |-> 0]

Upto(n) == Smaller(n, Len(job.pending))

batch == SubSeq(job.pending, 1, Upto(BatchSize))
rest == SubSeq(job.pending, Upto(BatchSize) + 1, Len(job.pending))

\* What the callback has written of the batch at work.
written == ToSet(SubSeq(job.pending, 1, job.at))

\* Mutant of Undone: a resumed job starts from the beginning.
Undone_All(ids) == ids

Undone(ids) ==
  LET kept == {k \in DOMAIN ids : ids[k] \notin done}
  IN [n \in 1..Cardinality(kept) |-> ids[Nth(kept, n)]]

BeginRun(ids, on_error) ==
  /\ job.runs < MaxRuns
  /\ job' = [pc |-> "between", ids |-> ids, pending |-> Undone(ids), at |-> 0,
             on_error |-> on_error, failed |-> {}, stopped |-> FALSE,
             runs |-> job.runs + 1]
  /\ UNCHANGED <<done, applied, torn>>

\* The job is started again over the same ids.
Resume(on_error) ==
  /\ job.pc \in {"ended", "dead"}
  /\ BeginRun(job.ids, on_error)

Stop ==
  /\ job.pc = "between" /\ job.pending # << >>
  /\ job' = [job EXCEPT !.pc = "ended", !.stopped = TRUE]
  /\ UNCHANGED <<done, applied, torn>>

StartBatch ==
  /\ job.pc = "between" /\ job.pending # << >>
  /\ job' = [job EXCEPT !.pc = "batch", !.at = 0]
  /\ UNCHANGED <<done, applied, torn>>

\* The callback writes the next id of the batch.
Apply ==
  /\ job.pc = "batch" /\ job.at < Len(batch)
  /\ applied' = [applied EXCEPT ![batch[job.at + 1]] = @ + 1]
  /\ job' = [job EXCEPT !.at = @ + 1]
  /\ UNCHANGED <<done, torn>>

Tear == torn' = [i \in Items |-> torn[i] + (IF i \in written THEN 1 ELSE 0)]

NextBatch(status) == [job EXCEPT !.pc = status, !.pending = rest, !.at = 0]

\* Mutant of Fail: the batch is passed over without a word.
Fail_Silently ==
  /\ job.pc = "batch"
  /\ job' = NextBatch("between")
  /\ Tear
  /\ UNCHANGED <<done, applied>>

\* It raises, before, between or after its writes: the policy decides whether the
\* job goes on with the next batch.
Fail ==
  /\ job.pc = "batch"
  /\ LET stop == job.on_error = "stop" IN
     job' = [NextBatch(IF stop THEN "ended" ELSE "between") EXCEPT
               !.failed = @ \cup ToSet(batch), !.stopped = stop]
  /\ Tear
  /\ UNCHANGED <<done, applied>>

Checkpoint ==
  /\ job.pc = "batch" /\ job.at = Len(batch)
  /\ done' = done \cup ToSet(batch)
  /\ job' = NextBatch("between")
  /\ UNCHANGED <<applied, torn>>

End ==
  /\ job.pc = "between" /\ job.pending = << >>
  /\ job' = [job EXCEPT !.pc = "ended"]
  /\ UNCHANGED <<done, applied, torn>>

Crash ==
  /\ job.pc \in {"between", "batch"}
  /\ job' = [job EXCEPT !.pc = "dead", !.at = 0]
  /\ Tear
  /\ UNCHANGED <<done, applied>>

JobStep == StartBatch \/ Apply \/ Fail \/ Checkpoint \/ End

BulkNext ==
  \/ \E on_error \in {"skip", "stop"} : Resume(on_error)
  \/ Stop
  \/ JobStep
  \/ Crash
-----------------------------------------------------------------------------
(* Properties.                                                              *)

\* What is checkpointed is never written again, by no resumed run; an id is written a
\* second time only when its batch was torn, by an error or a crash after the write.
RepeatsAreTorn ==
  \A i \in Items : applied[i] <= torn[i] + 1 /\ (i \in done => applied[i] = torn[i] + 1)
=============================================================================
