----------------------------- MODULE CommitOnce -----------------------------
(***************************************************************************)
(* What the NIL wire promises of COMMIT, without saying how: under one     *)
(* idempotency key the backend is written at most once, a caller is told   *)
(* "done" only of an effect that landed, and is told "refused" only while  *)
(* nothing has.  An error answer says nothing.                             *)
(***************************************************************************)
EXTENDS Integers

CONSTANT Keys

VARIABLES
  effects,  \* how many writes each key has made
  answer    \* the last thing the caller of each key was told

vars == <<effects, answer>>

TypeOK ==
  /\ effects \in [Keys -> 0..1]
  /\ answer \in [Keys -> {"unknown", "done", "refused"}]

Init ==
  /\ effects = [k \in Keys |-> 0]
  /\ answer = [k \in Keys |-> "unknown"]

Land(k) ==
  /\ effects[k] = 0
  /\ effects' = [effects EXCEPT ![k] = 1]
  /\ UNCHANGED answer

Tell(k) ==
  /\ \E a \in {"unknown", "done", "refused"} :
       /\ a = "done" => effects[k] = 1
       /\ a = "refused" => effects[k] = 0
       /\ answer' = [answer EXCEPT ![k] = a]
  /\ UNCHANGED effects

\* Connections break: callers who were waiting know nothing any more.
Hang(S) ==
  /\ answer' = [k \in Keys |-> IF k \in S THEN "unknown" ELSE answer[k]]
  /\ UNCHANGED effects

Next ==
  \/ \E k \in Keys : Land(k) \/ Tell(k)
  \/ \E S \in SUBSET Keys : Hang(S)

Spec == Init /\ [][Next]_vars
=============================================================================
