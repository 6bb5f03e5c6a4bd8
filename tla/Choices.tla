------------------------------ MODULE Choices ------------------------------
(***************************************************************************)
(* What the generated edge makes of the words an agent writes into a       *)
(* constrained field: a reference to a record of another target, or one of *)
(* a closed set of options.  PROPOSE screens the request, refuses what it  *)
(* cannot resolve and offers candidates, and shows the human by name what  *)
(* will be written; COMMIT resolves the same words again.                  *)
(*                                                                         *)
(* A request has one such field.  Words are equal when they differ in case *)
(* only.  What becomes of the written record is NilEdge.                   *)
(***************************************************************************)
EXTENDS Naturals, FiniteSetsExt

CONSTANTS
  Numbers,     \* words of digits
  Short,       \* words of two or three letters
  Parts,       \* pairs: the first word is found within the second
  CodeLimit, NameLimit,    \* rows that a search by code, by name returns
  OptionLimit, \* options that are offered
  Tables,      \* what the referenced target, or the set of options, may hold
  Asked,       \* requests
  None

Checks == [resource |-> <<"verb", "target", "skeleton", "id", "data", "provisioned">>,
           curated  |-> <<"verb", "required", "provisioned">>]

Operations == {"create", "update", "delete"}

\* Ids are digits, a row that is offered has one, and what does not resolve is told
\* apart from what does.
ConstantsAreSound ==
  /\ Tables # {} /\ Asked # {}
  /\ \A r \in Asked : "op" \in DOMAIN r /\ r.op \in Operations
  /\ None \notin Numbers
  /\ \A t \in Tables :
       /\ DOMAIN t.rows \subseteq Nat
       /\ t.relation \in BOOLEAN
       /\ \A i \in DOMAIN t.rows :
            IF t.relation THEN t.rows[i].id \in Numbers ELSE t.rows[i].value # None

VARIABLES
  table,     \* [relation, rows]: rows with an id, a name, a code; or a value and a label
  request,   \* [path, op, values, id, flaws, stub, prefill, amount, cap, tier]
  phase,
  answer,    \* a refusal's code and candidates, or a proposal's tier and echo
  written,
  shown      \* history: the table at the last PROPOSE

vars == <<table, request, phase, answer, written, shown>>

Nothing == [code |-> "none", candidates |-> {}, tier |-> "none", echo |-> None]

Pose(t, r) ==
  /\ table = t /\ request = r
  /\ phase = "posed" /\ answer = Nothing /\ written = << >> /\ shown = t

Init == \E t \in Tables, r \in Asked : Pose(t, r)
-----------------------------------------------------------------------------
(* Words and what they stand for.                                           *)

\* The first n of some places.
First(S, n) == {i \in S : Cardinality({j \in S : j <= i}) <= n}

Row(i) == table.rows[i]
Places == DOMAIN table.rows

\* Searches answer with the places of rows.  The backend has an order of its own, always
\* the same.
ByCode(v) == First({i \in Places : Row(i).code = v}, CodeLimit)
ByName(v) == First({i \in Places : <<v, Row(i).name>> \in Parts}, NameLimit)

Preferred(places, v) ==
  LET exact == {i \in places : Row(i).name = v}
  IN  IF exact # {} THEN exact ELSE places

Sole(S) == \E i \in S : S = {i}
Only(S) == CHOOSE i \in S : TRUE

\* A number is taken for an id as it stands; a short word may be a code; else one row
\* has to answer to the name.
ResolveReference(v) ==
  LET coded == IF v \in Short THEN ByCode(v) ELSE {}
      pool == Preferred(IF coded # {} THEN coded ELSE ByName(v), v)
  IN  IF v \in Numbers THEN v ELSE IF Sole(pool) THEN Row(Only(pool)).id ELSE None

Keys == {Row(i).value : i \in Places}

ResolveOption(v) ==
  LET hits == {Row(i).value : i \in {k \in Places : Row(k).label = v}}
  IN  IF v \in Keys THEN v ELSE IF Sole(hits) THEN Only(hits) ELSE None

Resolved(v) == IF table.relation THEN ResolveReference(v) ELSE ResolveOption(v)

Label(row) == <<row.name, row.code>>

\* Mutant of LabelFor: any of several.
LabelFor_Any(v) ==
  LET places == IF v \in Numbers THEN {i \in Places : Row(i).id = v} ELSE ByName(v)
  IN  IF places # {} THEN Label(Row(Min(places))) ELSE None

LabelFor(v) ==
  LET places == IF v \in Numbers THEN {i \in Places : Row(i).id = v}
                ELSE Preferred(ByName(v), v)
  IN  IF Sole(places) THEN Label(Row(Only(places))) ELSE None

OptionLabel(v) ==
  LET hits == {i \in Places : v \in {Row(i).value, Row(i).label}}
  IN  IF hits # {} THEN Row(Min(hits)).label ELSE None

\* Only a single value is echoed.
Legible(values) ==
  IF DOMAIN values # {1} THEN None
  ELSE IF table.relation THEN LabelFor(values[1]) ELSE OptionLabel(values[1])

\* What is offered instead of a word that does not resolve.
Candidates(v) ==
  IF table.relation
  THEN {Row(i).id : i \in ByName(v)}
  ELSE {Row(i).value : i \in First(Places, OptionLimit)}

\* A record is named by its id or by a field that no other record shares with it.
ResolveId(v) ==
  LET Hits(f) == {i \in Places : Row(i)[f] = v}
      unique == {f \in {"id", "code", "name"} : Cardinality(Hits(f)) = 1}
      field == IF "id" \in unique THEN "id" ELSE IF "code" \in unique THEN "code" ELSE "name"
  IN  IF unique = {} THEN None ELSE Row(Only(Hits(field))).id
-----------------------------------------------------------------------------
(* The handlers.                                                            *)

\* The places of the checks that the request does not pass.
Screened ==
  {i \in DOMAIN Checks[request.path] :
     LET c == Checks[request.path][i] IN
     /\ c \in request.flaws
     /\ c = "id" => request.op # "create"
     /\ c = "data" => request.op # "delete"}

\* The first of them decides.
ScreenCode ==
  LET check == Checks[request.path][Min(Screened)] IN
  CASE check \in {"verb", "skeleton"} -> "UNKNOWN_VERB"
    [] check = "provisioned" -> "UPSTREAM_UNAVAILABLE"
    [] OTHER -> "INVALID_ARGS"

\* What the gate looks at: not what a delete carries, nor what a stub would write.
Gated ==
  IF (request.path = "resource" /\ request.op = "delete") \/ request.stub
  THEN << >> ELSE request.values

Unresolved(values) == {i \in DOMAIN values : Resolved(values[i]) = None}

Rank == [LOW |-> 0, MEDIUM |-> 1, HIGH |-> 2, CRITICAL |-> 3]
Higher(a, b) == IF Rank[a] < Rank[b] THEN b ELSE a

\* A curated verb's tier is raised when an amount is over its cap.
Tier ==
  IF request.path = "resource" THEN IF request.op = "delete" THEN "HIGH" ELSE "MEDIUM"
  ELSE IF request.amount > request.cap THEN Higher(request.tier, "HIGH") ELSE request.tier

Refuse(code, candidates) ==
  /\ phase' = "refused"
  /\ answer' = [Nothing EXCEPT !.code = code, !.candidates = candidates]

\* Mutant of Propose: the gate is not asked.
Propose_Ungated ==
  /\ phase = "posed"
  /\ IF Screened # {} THEN Refuse(ScreenCode, {})
     ELSE /\ phase' = "previewed"
          /\ answer' = [Nothing EXCEPT !.tier = Tier, !.echo = Legible(Gated)]
  /\ shown' = table
  /\ UNCHANGED <<table, request, written>>

Propose ==
  /\ phase = "posed"
  /\ LET unresolved == Unresolved(Gated)
         bad == Gated[Min(unresolved)] IN
     IF Screened # {} THEN Refuse(ScreenCode, {})
     ELSE IF unresolved # {}
     THEN Refuse(IF table.relation /\ Candidates(bad) # {} THEN "AMBIGUOUS" ELSE "INVALID_ARGS",
                 Candidates(bad))
     ELSE /\ phase' = "previewed"
          /\ answer' = [Nothing EXCEPT !.tier = Tier,
               !.echo = Legible(IF request.stub THEN << >> ELSE request.values)]
  /\ shown' = table
  /\ UNCHANGED <<table, request, written>>

\* The agent picks a candidate for the word that was refused and proposes again.
Pick ==
  /\ phase = "refused"
  /\ \E c \in answer.candidates :
       request' = [request EXCEPT !.values[Min(Unresolved(request.values))] = c]
  /\ phase' = "posed"
  /\ UNCHANGED <<table, answer, written, shown>>

\* Someone else changes the table.
Drift ==
  /\ phase = "previewed" /\ table = shown
  /\ \E t \in Tables : t.relation = table.relation /\ table' = t
  /\ UNCHANGED <<request, phase, answer, written, shown>>

\* The manifest fills what the translation left open.
Overlaid ==
  IF request.path = "curated" /\ request.values = << >> THEN request.prefill ELSE request.values

\* COMMIT resolves before it writes; a resource verb's record has to resolve too, a
\* curated verb goes on with the word it was given.
Fails ==
  \/ request.stub
  \/ Unresolved(Overlaid) # {}
  \/ /\ request.path = "resource" /\ request.op # "create"
     /\ table.relation /\ ResolveId(request.id) = None   \* the rows are the target's own

Commit ==
  /\ phase = "previewed"
  /\ IF Fails THEN phase' = "failed_terminal" /\ UNCHANGED written
     ELSE phase' = "executed" /\ written' = [i \in DOMAIN Overlaid |-> Resolved(Overlaid[i])]
  /\ UNCHANGED <<table, request, answer, shown>>

Next == Propose \/ Pick \/ Drift \/ Commit
-----------------------------------------------------------------------------
(* Properties.                                                              *)

\* A candidate, picked, is never refused.
OfferedIsAccepted ==
  phase = "refused" => \A c \in answer.candidates : Resolved(c) # None

\* What is previewed can be committed while the table stands still, but for what
\* PROPOSE does not look at: an id, a prefilled value, a delete's values, a stub.
PreviewHolds ==
  phase = "failed_terminal" /\ table = shown =>
    \/ request.stub
    \/ request.op = "delete" \/ (request.op = "update" /\ request.path = "resource")
    \/ request.values = << >> /\ request.prefill # << >>

\* No word is a row's code, or an option's key, and part of another's name.
Apart(v) ==
  ~\E i, j \in Places : i # j /\
      IF table.relation THEN Row(i).code = v /\ <<v, Row(j).name>> \in Parts
      ELSE Row(i).value = v /\ Row(j).label = v

\* The name that the human approves is the name of what is written, ...
EchoIsWritten ==
  phase = "executed" /\ table = shown /\ answer.echo # None /\ Apart(request.values[1]) =>
    \E i \in Places :
      IF table.relation THEN Row(i).id = written[1] /\ Label(Row(i)) = answer.echo
      ELSE Row(i).value = written[1] /\ Row(i).label = answer.echo

\* ... which exists unless its number was given.
OnlyMembers ==
  phase = "executed" => \A i \in DOMAIN written :
    \/ Overlaid[i] \in Numbers
    \/ \E k \in Places : written[i] = IF table.relation THEN Row(k).id ELSE Row(k).value

ChoicesAreKept == OfferedIsAccepted /\ PreviewHolds /\ EchoIsWritten /\ OnlyMembers
=============================================================================
