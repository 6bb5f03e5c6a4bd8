------------------------------ MODULE DemoEdge ------------------------------
(***************************************************************************)
(* The Playground's PocketBase edge over its in-memory FakeSystem, as the  *)
(* conformance test drives it: one call at a time, each with an answer.    *)
(* What concurrent calls and failures do to such an edge is NilEdge; here  *)
(* are its verbs, its resource family and what they leave behind.          *)
(*                                                                         *)
(* A shim that someone has broken has one of the defects: "free" previews  *)
(* verbs it does not have, "thin" does not look for required arguments,    *)
(* "again" forgets what it has executed, "phantom" executes what was never *)
(* proposed, "blind" says pending of what is executed, "rash" executes the *)
(* reversal that it should preview, "lost" has no describe.                *)
(***************************************************************************)
EXTENDS Naturals, Sequences, FiniteSets

CONSTANTS
  Fresh,    \* the names that the system gives to records without one
  None

VARIABLES
  defect,     \* of the shim, or "none"
  docs,       \* FakeSystem.docs, in the order of creation
  proposals,  \* ShimState: an id is a place in the sequence
  ledger, executed, handles, sequence,
  answer      \* the body of the last response

shim == <<proposals, ledger, executed, handles, sequence>>
edge == <<defect, docs, shim, answer>>

Blank == [outcome |-> "", code |-> "", id |-> 0, state |-> "", replayed |-> FALSE,
          token |-> 0, data |-> FALSE]

Start(broken, records) ==
  /\ defect = broken /\ docs = records
  /\ proposals = << >> /\ ledger = << >> /\ executed = {} /\ handles = << >>
  /\ sequence = 0
  /\ answer = Blank
-----------------------------------------------------------------------------
(* The catalog and what is written.                                         *)

Verb(act, collection, required, optional) ==
  [act |-> act, collection |-> collection, required |-> required, optional |-> optional]

WRITE_VERBS ==
  [create_coupon |-> Verb("create", "coupons", <<"code", "discount_type", "discount_value">>,
                          {"min_amount", "expires_at"}),
   create_product |-> Verb("create", "products", <<"name">>,
                           {"description", "price", "sku", "quantity", "category"}),
   delete_product |-> Verb("delete", "products", <<"product_id">>, {}),
   process_refund |-> Verb("create", "refunds", <<"refund_target">>, {"amount", "reason"}),
   record_fulfillment |-> Verb("create", "fulfillments", <<"order_id", "event">>,
                               {"tracking", "occurred_at"}),
   record_payment |-> Verb("create", "payments", <<"order_id", "event">>,
                           {"amount", "currency", "method", "reference"}),
   send_message |-> Verb("create", "messages", <<"phone", "text">>, {}),
   update_product |-> Verb("update", "products", <<"product_id", "updates">>, {}),
   update_product_quantity |-> Verb("update", "products", <<"product_id", "quantity">>, {}),
   create_client |-> Verb("create", "clients", <<"name", "phone">>, {"email", "notes"}),
   create_invoice |-> Verb("create", "invoices", <<"party_id", "amount", "currency">>,
                           {"description"}),
   create_payment_link |-> Verb("create", "payment_links", <<"invoice_id">>, {"expires_at"}),
   draft_proposal |-> Verb("create", "proposals", <<"party_id", "title", "amount", "currency">>,
                           {"body"}),
   send_followup |-> Verb("create", "followups", <<"party_id", "message">>, {"channel"}),
   send_proposal |-> Verb("create", "proposals", <<"biz_proposal_id">>, {"channel"})]

\* The generic family: what to do with a record of any declared collection.
Resources == {"resource.create", "resource.update", "resource.delete"}

COMPENSATIONS ==
  [create_product |-> "delete_product", record_payment |-> "process_refund",
   create_invoice |-> "process_refund"]

Declared == {WRITE_VERBS[v].collection : v \in DOMAIN WRITE_VERBS}

Elements(s) == {s[i] : i \in DOMAIN s}
Only(f, S) == [x \in DOMAIN f \cap S |-> f[x]]
Given(args, a) == a \in DOMAIN args /\ args[a] \notin {"", None}

\* Everything f says, and what only g says.
Over(f, g) == [x \in DOMAIN f \cup DOMAIN g |-> IF x \in DOMAIN f THEN f[x] ELSE g[x]]

\* The record of the arguments; the first argument of an update names it.
to_native(verb, args) ==
  LET spec == WRITE_VERBS[verb]
      known == Elements(spec.required) \cup spec.optional
  IN  CASE spec.act = "delete" -> << >>
        [] spec.act = "update" -> Only(args, known \ {spec.required[1]})
        [] spec.act = "create" -> Only(args, known)

Missing(verb, args) == {a \in Elements(WRITE_VERBS[verb].required) : ~Given(args, a)}
-----------------------------------------------------------------------------
(* FakeSystem: a record's key is its name, which need not be unique.        *)

Created(collection, data) ==
  [collection |-> collection,
   data |-> Over([name |-> IF Given(data, "name") THEN data["name"] ELSE Fresh[Len(docs) + 1]], data)]

Named(collection, name) ==
  {i \in DOMAIN docs : docs[i].collection = collection /\ docs[i].data["name"] = name}

Least(S) == CHOOSE i \in S : \A j \in S : i <= j

\* An update of what is not there creates it.
Updated(collection, name, data) ==
  IF Named(collection, name) = {} THEN Append(docs, Created(collection, Over(data, [name |-> name])))
  ELSE [docs EXCEPT ![Least(Named(collection, name))].data = Over(data, @)]

Ascending(S) ==
  CHOOSE s \in [1..Cardinality(S) -> S] : \A i, j \in DOMAIN s : i < j => s[i] < s[j]

Deleted(collection, name) ==
  LET kept == Ascending(DOMAIN docs \ Named(collection, name))
  IN  [k \in DOMAIN kept |-> docs[kept[k]]]

ID_FIELDS == <<"code", "name", "slug", "title", "sku", "email">>

\* A key, or what exactly one record has in one of the fields.
_resolve_id(collection, value) ==
  LET Hits(f) == {i \in DOMAIN docs : docs[i].collection = collection
                                        /\ f \in DOMAIN docs[i].data /\ docs[i].data[f] = value}
      unique == {k \in DOMAIN ID_FIELDS : Cardinality(Hits(ID_FIELDS[k])) = 1}
  IN  IF value = "" THEN None
      ELSE IF Named(collection, value) # {} THEN value
      ELSE IF unique = {} THEN None
      ELSE docs[CHOOSE i \in Hits(ID_FIELDS[Least(unique)]) : TRUE].data["name"]
-----------------------------------------------------------------------------
(* The endpoints.                                                           *)

Say(body) == answer' = body

Refuse(code) ==
  /\ Say([Blank EXCEPT !.outcome = "refusal", !.code = code])
  /\ UNCHANGED <<defect, docs, shim>>

Minted(verb, args) ==
  /\ proposals' = Append(proposals, [verb |-> verb, args |-> args])
  /\ Say([Blank EXCEPT !.outcome = "proposal", !.id = Len(proposals) + 1])

Preview(verb, args) ==
  Minted(verb, args) /\ UNCHANGED <<defect, docs, ledger, executed, handles, sequence>>

\* What a resource verb is refused for, in the order of the checks.
ResourceRefusal(verb, args) ==
  CASE ~Given(args, "target") -> "INVALID_ARGS"
    [] Given(args, "target") /\ args["target"] \notin Declared -> "UNKNOWN_VERB"
    [] OTHER -> IF \/ verb # "resource.create" /\ ~Given(args, "id")
                   \/ verb # "resource.delete" /\ "data" \notin DOMAIN args
                THEN "INVALID_ARGS" ELSE None

Refusal(verb, args) ==
  IF verb \in Resources THEN ResourceRefusal(verb, args)
  ELSE IF verb \notin DOMAIN WRITE_VERBS THEN "UNKNOWN_VERB"
  ELSE IF Missing(verb, args) # {} THEN "INVALID_ARGS" ELSE None

Overlooked(code) ==
  (code = "UNKNOWN_VERB" /\ defect = "free") \/ (code = "INVALID_ARGS" /\ defect = "thin")

propose(verb, args) ==
  LET code == Refusal(verb, args) IN
  IF code # None /\ ~Overlooked(code) THEN Refuse(code) ELSE Preview(verb, args)

\* Mutant of Recorded: the ledger is not written.
Recorded_Forgotten(key, id, token) ==
  /\ UNCHANGED ledger
  /\ executed' = executed \cup {id}
  /\ sequence' = sequence + 1
  /\ Say([Blank EXCEPT !.id = id, !.state = "executed", !.token = token])

\* The answer is kept under its key, and an event is sent.
Recorded(key, id, token) ==
  /\ ledger' = IF defect = "again" THEN ledger ELSE Over([k \in {key} |-> [id |-> id, token |-> token]], ledger)
  /\ executed' = IF defect = "blind" THEN executed ELSE executed \cup {id}
  /\ sequence' = sequence + 1
  /\ Say([Blank EXCEPT !.id = id, !.state = "executed", !.token = token])

Fail(id) ==
  /\ Say([Blank EXCEPT !.id = id, !.state = "failed_terminal"])
  /\ UNCHANGED <<defect, docs, shim>>

\* The reversal handle of a write, as a verb and its arguments.
Handle(verb, args) == [verb |-> verb, args |-> args]

\* A delete answers a create, and what was before comes back.  FakeSystem hands out the
\* record itself, so that what was before an update changes with the record.
CommitResource(key, id, verb, args) ==
  LET target == args["target"]
      name == _resolve_id(target, args["id"])
      record == Created(target, args["data"])
      Writes(written, reversal) ==
        /\ docs' = written
        /\ handles' = Append(handles, reversal)
        /\ Recorded(key, id, Len(handles) + 1)
        /\ UNCHANGED <<defect, proposals>>
  IN  IF verb = "resource.create"
      THEN Writes(Append(docs, record),
                  Handle("resource.delete", [target |-> target, id |-> record.data["name"]]))
      ELSE IF name = None THEN Fail(id)
      ELSE IF verb = "resource.update"
      THEN LET written == Updated(target, name, args["data"])
           IN  Writes(written, Handle("resource.update",
                 [target |-> target, id |-> name,
                  data |-> written[Least(Named(target, name))].data]))
      ELSE Writes(Deleted(target, name), Handle("resource.create",
             [target |-> target, data |-> docs[Least(Named(target, name))].data]))

\* The argument that takes the committed record's key in the compensating verb.
CompensationArgs(verb, name) == [a \in {WRITE_VERBS[COMPENSATIONS[verb]].required[1]} |-> name]

CommitCurated(key, id, verb, args) ==
  LET spec == WRITE_VERBS[verb]
      raw == args[spec.required[1]]
      name == _resolve_id(spec.collection, raw)
      record == Created(spec.collection, to_native(verb, args))
      key_of == IF spec.act = "create" THEN record.data["name"] ELSE IF name = None THEN raw ELSE name
      reversible == verb \in DOMAIN COMPENSATIONS
  IN  /\ docs' = CASE spec.act = "create" -> Append(docs, record)
                   [] spec.act = "update" -> Updated(spec.collection, key_of, to_native(verb, args))
                   [] spec.act = "delete" -> Deleted(spec.collection, key_of)
      /\ handles' = IF reversible
                    THEN Append(handles, Handle(COMPENSATIONS[verb], CompensationArgs(verb, key_of)))
                    ELSE handles
      /\ Recorded(key, id, IF reversible THEN Len(handles) + 1 ELSE 0)
      /\ UNCHANGED <<defect, proposals>>

commit(id, key) ==
  IF key \in DOMAIN ledger
  THEN /\ Say([Blank EXCEPT !.id = ledger[key].id, !.token = ledger[key].token,
                          !.state = "executed", !.replayed = TRUE])
       /\ UNCHANGED <<defect, docs, shim>>
  ELSE IF id \notin DOMAIN proposals
  THEN IF defect = "phantom"
       THEN Say([Blank EXCEPT !.state = "executed"]) /\ UNCHANGED <<defect, docs, shim>>
       ELSE Refuse("EXPIRED")
  ELSE LET p == proposals[id] IN
       IF p.verb \in Resources THEN CommitResource(key, id, p.verb, p.args)
       ELSE CommitCurated(key, id, p.verb, p.args)

\* Reads change nothing; an unknown one is answered with an error.
query(verb, args) ==
  /\ Say([Blank EXCEPT !.data = \/ verb = "list_clients"
                                \/ /\ verb = "resource.read" /\ Given(args, "target")
                                   /\ args["target"] \in Declared])
  /\ UNCHANGED <<defect, docs, shim>>

status(id) ==
  /\ Say([Blank EXCEPT
           !.id = id,
           !.state = IF id \in executed THEN "executed"
                     ELSE IF id \in DOMAIN proposals THEN "pending" ELSE "expired"])
  /\ UNCHANGED <<defect, docs, shim>>

\* A reversal is previewed like any verb; the handle stays.
rollback(token) ==
  IF token \notin DOMAIN handles THEN Refuse("COMPENSATION_EXPIRED")
  ELSE IF defect = "rash"
  THEN Say([Blank EXCEPT !.state = "executed"]) /\ UNCHANGED <<defect, docs, shim>>
  ELSE Preview(handles[token].verb, handles[token].args)

describe ==
  /\ Say([Blank EXCEPT !.data = defect # "lost"])
  /\ UNCHANGED <<defect, docs, shim>>
=============================================================================
