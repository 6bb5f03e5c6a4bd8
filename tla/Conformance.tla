----------------------------- MODULE Conformance ----------------------------
(***************************************************************************)
(* The conformance test of a shim: one row after the other, each a call    *)
(* and a verdict on its answer, and the rows about rollback when the       *)
(* verb's tier is known.  Afterwards the owner may commit the reversal     *)
(* that the rows have previewed.                                           *)
(***************************************************************************)
EXTENDS DemoEdge

CONSTANTS
  Stocks,   \* what the backend may hold when the test begins
  Tests,    \* [verb, args, first, tier, query, target]: what the test is run with
  Defects   \* the shims it is run against

VARIABLES
  test,
  row,       \* the place of the next row
  failed,    \* the rows that did not pass
  proposal,  \* the id of the previewed write, or 0
  token,     \* its reversal handle, or 0
  before,    \* history: the records when the test began
  writes,    \* history: rows that changed a record
  undone     \* history: the reversal was committed

conformance == <<edge, test, row, failed, proposal, token, before, writes, undone>>

Rows(t) ==
  <<"describe", "propose", "unknown", "missing", "commit", "replay", "status", "phantom">>
    \o (IF t.query = None THEN << >> ELSE <<"query">>)
    \o (IF t.tier = None THEN << >> ELSE <<"reverse", "expired">>)

\* What is missing is no value; records have names, and one that the system gives is new.
ConstantsAreSound ==
  /\ None \notin Declared \cup {"UNKNOWN_VERB", "INVALID_ARGS"}
  /\ Defects \subseteq {"none", "free", "thin", "again", "phantom", "blind", "rash", "lost"}
  /\ \A s \in Stocks :
       /\ s \in Seq({s[i] : i \in DOMAIN s})
       /\ \A i \in DOMAIN s : LET d == s[i].data IN
            Given(d, "name") /\ s[i] = [collection |-> s[i].collection, data |-> Only(d, DOMAIN d)]
       /\ Fresh[Len(s) + 1] \notin {"", None} \cup {s[i].data["name"] : i \in DOMAIN s}

Pose(t, broken, records) ==
  /\ Start(broken, records)
  /\ test = t /\ row = 1 /\ failed = {} /\ proposal = 0 /\ token = 0
  /\ before = records /\ writes = 0 /\ undone = FALSE

Init == \E t \in Tests, d \in Defects, s \in Stocks : Pose(t, d, s)

Judge(passed) ==
  /\ failed' = IF passed THEN failed ELSE failed \cup {Rows(test)[row]}
  /\ row' = row + 1
  /\ writes' = IF docs' = docs THEN writes ELSE writes + 1
  /\ UNCHANGED <<test, before, undone>>

At(name) == row \in DOMAIN Rows(test) /\ Rows(test)[row] = name

\* Without a proposal there is nothing to call.
Skip == answer' = Blank /\ UNCHANGED <<defect, docs, shim>>

Kept == UNCHANGED <<proposal, token>>

Describe == At("describe") /\ describe /\ Judge(answer'.data) /\ Kept

Propose ==
  /\ At("propose") /\ propose(test.verb, test.args)
  /\ proposal' = answer'.id /\ UNCHANGED token
  /\ Judge(answer'.outcome = "proposal")

Unknown ==
  /\ At("unknown") /\ propose("no_such_verb", << >>)
  /\ Judge(answer'.outcome = "refusal") /\ Kept

\* The first of the arguments is left out.
Omitted ==
  /\ At("missing")
  /\ propose(test.verb, [a \in DOMAIN test.args \ {test.first} |-> test.args[a]])
  /\ Judge(answer'.outcome = "refusal" /\ test.first # None) /\ Kept

Key == <<"conf", proposal>>

Called(call) == IF proposal = 0 THEN Skip ELSE call

Commit ==
  /\ At("commit") /\ Called(commit(proposal, Key))
  /\ token' = answer'.token /\ UNCHANGED proposal
  /\ Judge(answer'.state = "executed")

Replay == At("replay") /\ Called(commit(proposal, Key)) /\ Judge(answer'.replayed) /\ Kept

Status == At("status") /\ Called(status(proposal)) /\ Judge(answer'.state = "executed") /\ Kept

Phantom ==
  /\ At("phantom") /\ commit(0, <<"phantom", 0>>)
  /\ Judge(answer'.state # "executed" /\ answer'.outcome # "proposal") /\ Kept

Query ==
  /\ At("query") /\ query(test.query, IF test.target = None THEN << >> ELSE [target |-> test.target])
  /\ Judge(answer'.data) /\ Kept

\* Mutant of Honest: a reversal that is refused is honest, whatever the tier.
Honest_Refused(tier, said) == said.outcome \in {"proposal", "refusal"}

\* What is irreversible refuses with its code, the rest previews a compensation; and
\* nothing is executed without either.
Honest(tier, said) ==
  /\ said.state # "executed"
  /\ IF tier = "IRREVERSIBLE"
     THEN said.outcome = "refusal" /\ said.code \in {"IRREVERSIBLE", "COMPENSATION_EXPIRED"}
     ELSE said.outcome = "proposal"

Reverse ==
  /\ At("reverse") /\ rollback(token)
  /\ Judge(Honest(test.tier, answer')) /\ Kept

Expired ==
  /\ At("expired") /\ rollback(Len(handles) + 1)
  /\ Judge(answer'.outcome = "refusal") /\ Kept

Finished == row > Len(Rows(test))

\* The owner commits the last proposal, which is the reversal.
Undo ==
  /\ Finished /\ ~undone
  /\ token # 0 /\ test.tier # None /\ defect = "none"
  /\ commit(Len(proposals), <<"owner", token>>)
  /\ undone' = TRUE
  /\ UNCHANGED <<test, row, failed, before, writes>> /\ Kept

Next ==
  Describe \/ Propose \/ Unknown \/ Omitted \/ Commit \/ Replay \/ Status \/ Phantom
    \/ Query \/ Reverse \/ Expired \/ Undo
-----------------------------------------------------------------------------
(* Properties.                                                              *)

\* What a test has to be run with: the verb's arguments, of which the first is required,
\* a record that is there, a query that exists and the tier that the shim has mapped.
Apt ==
  /\ test.first # None
  /\ Refusal(test.verb, test.args) = None
  /\ Refusal(test.verb, [a \in DOMAIN test.args \ {test.first} |-> test.args[a]]) # None
  /\ \/ test.query \in {None, "list_clients"}
     \/ test.query = "resource.read" /\ test.target \in Declared
  /\ \/ test.tier = None
     \/ (test.tier = "IRREVERSIBLE") = (test.verb \notin Resources \cup DOMAIN COMPENSATIONS)

Resolves ==
  test.verb \in Resources \ {"resource.create"} =>
    LET Hits(f) == {i \in DOMAIN before :
                      /\ before[i].collection = test.args["target"]
                      /\ f \in DOMAIN before[i].data /\ before[i].data[f] = test.args["id"]}
    IN  Hits("name") # {} \/ \E f \in Elements(ID_FIELDS) : Cardinality(Hits(f)) = 1

\* A faithful shim passes every row of an apt test, and a test that is not apt fails one.
FaithfulPasses ==
  Finished /\ defect = "none" => (failed = {} <=> Apt /\ Resolves)

\* A broken shim fails a row; a rash one only when the tier makes the test ask.
BrokenFails ==
  /\ Finished
  /\ defect # "none"
  /\ defect = "rash" => token # 0 /\ test.tier # None
  => failed # {}

\* The rows of a faithful shim write one record, and only its COMMIT does.
OneEffect ==
  defect = "none" =>
    /\ writes <= 1
    /\ (\A k \in 1..(row - 1) : Rows(test)[k] # "commit") => docs = before

\* A reversal that is committed takes back what a create or a delete has done.  It names
\* the record, so this needs names to be unique; a payment can only be offset, and the
\* system in memory cannot bring an update back.
UniqueNames ==
  LET names == [i \in DOMAIN before |-> before[i].data["name"]]
      given == IF test.verb \in Resources /\ "data" \in DOMAIN test.args
               THEN test.args["data"] ELSE test.args
  IN  /\ \A i, j \in DOMAIN before : names[i] = names[j] => i = j
      /\ "name" \in DOMAIN given => given["name"] \notin Elements(names)

UndoRestores ==
  undone /\ UniqueNames /\ test.verb \notin {"record_payment", "create_invoice", "resource.update"} =>
    Elements(docs) = Elements(before)

TestIsTelling == FaithfulPasses /\ BrokenFails /\ OneEffect /\ UndoRestores
=============================================================================
