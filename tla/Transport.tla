------------------------------ MODULE Transport ------------------------------
(***************************************************************************)
(* NilTransport over one CircuitBreaker: concurrent calls of a client, each*)
(* with bounded retries.  All of them run on one event loop: between two   *)
(* awaits (the backoff, the request) a call is not interrupted, so asking  *)
(* the breaker after a failure belongs to the step that records it.        *)
(*                                                                         *)
(* A batch of sentences is posted one after the other; the first transport *)
(* error ends it, and its caller may post it again from the beginning.     *)
(***************************************************************************)
EXTENDS Integers

CONSTANTS
  Calls,        \* batches that the client posts at one time
  Sentences,    \* sentences in a batch
  MaxRetries,
  Threshold,    \* failure_threshold
  Recovery,     \* recovery_seconds
  MaxTime,      \* bound: the clock
  MaxPosts,     \* bound: how often a caller posts its batch
  Never

ASSUME TransportAssumption ==
  /\ {Sentences, Threshold, Recovery} \subseteq Nat \ {0}
  /\ {MaxRetries, MaxTime, MaxPosts} \subseteq Nat
  /\ Never \notin Nat

VARIABLES
  clock,
  failures,   \* _consecutive_failures
  opened_at,
  call,
  streak,     \* history: failures that were recorded since the last success
  late        \* history: requests of a call since the breaker has been open

breaker == <<failures, opened_at, streak>>
vars == <<clock, breaker, call, late>>

\* posts: how often the batch was posted.  answered: its sentences that have been.
Call == [pc : {"idle", "backoff", "sent", "answered", "split", "open", "rejected"},
         posts : 0..MaxPosts, answered : 0..Sentences, attempt : 0..MaxRetries]

TypeOK ==
  /\ clock \in 0..MaxTime
  /\ failures \in Nat
  /\ opened_at \in (0..MaxTime) \cup {Never}
  /\ call \in [Calls -> Call]
  /\ streak \in Nat
  /\ late \in [Calls -> Nat]

Init ==
  /\ clock = 0
  /\ failures = 0
  /\ opened_at = Never
  /\ call = [c \in Calls |-> [pc |-> "idle", posts |-> 0, answered |-> 0, attempt |-> 0]]
  /\ streak = 0
  /\ late = [c \in Calls |-> 0]

HalfOpen == opened_at # Never /\ clock - opened_at >= Recovery
Open == opened_at # Never /\ clock - opened_at < Recovery

\* Mutant of RecordFailure: every failure opens.
RecordFailure_Opens ==
  /\ failures' = failures + 1
  /\ opened_at' = clock
  /\ streak' = streak + 1

\* In the half-open moment one failure is enough; while it is open, more failures
\* keep it open for longer.
RecordFailure ==
  /\ IF HalfOpen
     THEN opened_at' = clock /\ UNCHANGED failures
     ELSE /\ failures' = failures + 1
          /\ opened_at' = IF failures' >= Threshold THEN clock ELSE opened_at
  /\ streak' = streak + 1

\* Whatever the state.
RecordSuccess ==
  /\ failures' = 0
  /\ opened_at' = Never
  /\ streak' = 0

\* A sentence's first attempt, or the end of the call when the breaker is open.
Attempt(entry, attempt, allowed, pc) ==
  [entry EXCEPT !.attempt = attempt, !.pc = IF allowed THEN pc ELSE "open"]

Posted(entry) == [entry EXCEPT !.posts = entry.posts + 1, !.answered = 0]

\* Mutant of Post: a caller that posts again does not ask the breaker.
Post_Unasked(c) ==
  /\ call[c].pc \in {"idle", "split", "open"} /\ call[c].posts < MaxPosts
  /\ call' = [call EXCEPT ![c] =
       Attempt(Posted(@), 0, ~Open \/ @.posts > 0, "sent")]
  /\ UNCHANGED <<clock, breaker>>

\* The batch is posted, for the first time or again.
Post(c) ==
  /\ call[c].pc \in {"idle", "split", "open"} /\ call[c].posts < MaxPosts
  /\ call' = [call EXCEPT ![c] = Attempt(Posted(@), 0, ~Open, "sent")]
  /\ UNCHANGED <<clock, breaker>>

\* The backoff is over; the breaker is not asked again.
Wake(c) ==
  /\ call[c].pc = "backoff"
  /\ call' = [call EXCEPT ![c].pc = "sent"]
  /\ UNCHANGED <<clock, breaker>>

\* Mutant of Failed: a throttled attempt is neither recorded nor counted.
Failed_Throttled(c) ==
  /\ call[c].pc = "sent"
  /\ call' = [call EXCEPT ![c] = Attempt(@, @.attempt, ~Open, "backoff")]
  /\ UNCHANGED <<clock, breaker>>

\* A timeout, a transport error, 429 or 5xx: another attempt if one is left and the
\* breaker allows it.
Failed(c) ==
  /\ call[c].pc = "sent"
  /\ UNCHANGED clock
  /\ RecordFailure
  /\ call' = [call EXCEPT ![c] =
       IF @.attempt = MaxRetries THEN [call[c] EXCEPT !.pc = "split"]
       ELSE Attempt(@, @.attempt + 1, ~Open', "backoff")]

\* Another 4xx ends the batch and says nothing to the breaker.
Rejected(c) ==
  /\ call[c].pc = "sent"
  /\ call' = [call EXCEPT ![c].pc = "rejected"]
  /\ UNCHANGED <<clock, breaker>>

\* An answer; the batch's next sentence is posted, which asks the breaker just closed.
\* A body that is no object ends the batch all the same.
Answered(c) ==
  /\ call[c].pc = "sent"
  /\ RecordSuccess
  /\ \/ call' = [call EXCEPT ![c].answered = @ + 1, ![c].attempt = 0,
                             ![c].pc = IF call[c].answered + 1 = Sentences
                                       THEN "answered" ELSE "sent"]
     \/ call' = [call EXCEPT ![c].pc = "rejected"]
  /\ UNCHANGED clock

Tick ==
  /\ clock < MaxTime
  /\ clock' = clock + 1
  /\ UNCHANGED <<breaker, call>>

CallStep(c) == Wake(c) \/ Failed(c) \/ Rejected(c) \/ Answered(c)

Sends(c) == call[c].pc # "sent" /\ call'[c].pc = "sent"

Observe ==
  late' = [c \in Calls |-> IF ~Open' THEN 0
                           ELSE IF Sends(c) THEN late[c] + 1 ELSE late[c]]

Step(c) == CallStep(c) /\ Observe

Next ==
  \/ \E c \in Calls : Step(c)
  \/ \E c \in Calls : Post(c) /\ Observe
  \/ Tick /\ Observe

Spec == Init /\ [][Next]_vars

\* The event loop resumes a call; a request is answered or times out.
FairSpec == Spec /\ \A c \in Calls : WF_vars(Step(c))
-----------------------------------------------------------------------------
(* Properties.                                                              *)

\* The breaker opens only when at least as many failures as its threshold have come
\* without a success between them, however many calls report them and when, and it
\* counts no more than there were.
OpenIsEarned ==
  /\ opened_at # Never => streak >= Threshold
  /\ failures <= streak

\* As long as the breaker stays open a call sends at most one more request, the one
\* that it was allowed before its backoff, however often its caller posts it again.
OpenIsQuiet == \A c \in Calls : late[c] <= 1

\* Both, whatever the calls do.
BreakerHolds == OpenIsEarned /\ OpenIsQuiet

\* A batch is answered or given up, whatever the backend and the other calls do.
CallsEnd == \A c \in Calls : call[c].pc = "sent" ~> call[c].pc \notin {"sent", "backoff"}
=============================================================================
