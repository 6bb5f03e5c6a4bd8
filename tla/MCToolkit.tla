----------------------------- MODULE MCToolkit ------------------------------
(***************************************************************************)
(* Two callers; tables of up to three rows or options and requests of up   *)
(* to two words; two steps of learning over four verbs; the Playground's   *)
(* verbs and five stocks of records; up to five intents over four records. *)
(***************************************************************************)
EXTENDS Toolkit

CONSTANTS c1, c2, nothing
-----------------------------------------------------------------------------
(* Choices.                                                                 *)

MCNumbers == {"1", "2", "3", "9"}
MCParts == {<<"jo", "jo">>, <<"jo", "jordan">>, <<"jordan", "jordan">>, <<"in", "jo in">>,
            <<"jo", "jo in">>, <<"jo in", "jo in">>}

Row(id, name, code) == [id |-> id, name |-> name, code |-> code]
Rows == {<<>>} \cup
  UNION {{<<Row("1", a, c)>>, <<Row("1", a, c), Row("2", b, "in")>>,
          <<Row("1", a, c), Row("2", b, "jo"), Row("3", "jo in", c)>>} :
     a \in {"jo", "jordan"}, b \in {"jo", "jordan", "jo in"}, c \in {"jo", "none"}}

Option(value, label) == [value |-> value, label |-> label]
Options == {<<Option("jo", "jordan"), Option("in", "jo")>>,
            <<Option("1", "jo"), Option("2", "jo"), Option("3", "jordan")>>,
            <<Option("jo", "jo in"), Option("in", "jordan"), Option("1", "jo in")>>}

MCTables == [relation : {TRUE}, rows : Rows] \cup [relation : {FALSE}, rows : Options]

Words == {"1", "9", "jo", "in", "jordan", "zz"}
Values == {<<>>} \cup {<<v>> : v \in Words} \cup {<<"jo", v>> : v \in {"9", "jordan", "zz"}}

Request(path, ops, values, ids, flaws, stubs, prefills) ==
  [path : {path}, op : ops, values : values, id : ids, flaws : flaws, stub : stubs,
   prefill : prefills, amount : {1}, cap : {1}, tier : {"LOW"}]

MCAsked ==
  Request("resource", {"create"}, Values, {"none"}, {{}}, {FALSE}, {<<>>})
    \cup Request("resource", {"update", "delete"}, {<<>>, <<"jordan">>},
                 {"1", "jo", "zz"}, {{}}, {FALSE}, {<<>>})
    \cup Request("curated", {"create"}, Values, {"jo"}, {{}}, {FALSE}, {<<>>, <<"jordan">>})
    \cup Request("curated", {"update"}, {<<>>, <<"jo">>}, {"jo"}, {{}}, BOOLEAN, {<<"jordan">>})
    \cup Request("resource", {"create", "update", "delete"}, {<<>>}, {"1"},
                 SUBSET {"verb", "target", "skeleton", "id", "data", "provisioned"}, {FALSE}, {<<>>})
    \cup {[r EXCEPT !.amount = a, !.tier = tier] : a \in 0..2, tier \in {"LOW", "HIGH", "CRITICAL"},
            r \in Request("curated", {"create"}, {<<>>}, {"1"},
                          SUBSET {"verb", "required", "provisioned"}, {FALSE}, {<<>>})}
-----------------------------------------------------------------------------
(* Manifests.                                                               *)

MCCatalog == <<"create_invoice", "delete_invoice", "delete_order", "refund">>

Word(act, noun, charges, offsets) ==
  [act |-> act, noun |-> noun, charges |-> charges, offsets |-> offsets]

MCLexicon ==
  "create_invoice" :> Word("create", "invoice", TRUE, FALSE)
    @@ "delete_invoice" :> Word("delete", "invoice", TRUE, FALSE)
    @@ "delete_order" :> Word("delete", "order", FALSE, FALSE)
    @@ "refund" :> Word("none", "none", FALSE, TRUE)

Error(requires, needs, quirks) == [requires |-> requires, needs |-> needs, quirks |-> quirks]

Lines == "required_on_line"

MCErrors ==
  {Error({<<"account", Lines>>, <<"company", "required_scalar">>}, {}, {}),
   Error({<<"account", "required_scalar">>}, {}, {}), Error({}, {"customer"}, {}),
   Error({}, {}, {"no_expect"}), Error({}, {}, {})}

Lesson(verb, field, kind) == [verb |-> verb, field |-> field, kind |-> kind]

MCLessons ==
  {Lesson("create_invoice", "company", None), Lesson("create_invoice", "company", Lines),
   Lesson(None, None, None)}

Verb(requirements, prerequisites, instance, tier) ==
  [requirements |-> requirements, prerequisites |-> prerequisites, instance |-> instance,
   tier |-> tier, compensation |-> None]

Own(instance) ==
  [system |-> "name", verbs |-> "create_invoice" :> Verb({}, << >>, instance, None),
   quirks |-> << >>]

MCOverrides ==
  {Own("account" :> a @@ "company" :> c) : a \in {"${SET}", "${UNSET}"}, c \in {"abc", ""}}
  \cup {Own("key" :> "${SET}")}
  \cup {[Own(<< >>) EXCEPT !.verbs["create_invoice"].tier = "COMPENSABLE",
                           !.verbs["create_invoice"].compensation = "refund"]}
  \cup {[system |-> None, quirks |-> "no_expect" :> TRUE,
         verbs |-> "refund" :> Verb({<<"company", "required_nested">>}, "customer" :> "create",
                                    << >>, "IRREVERSIBLE")]}

MCDocuments ==
  [fields : {<< >>, "company" :> "", "company" :> "mine"},
   lines : {<< >>, << << >> >>, <<"account" :> "", "account" :> "own">>}]

MCEnvironment == "${SET}" :> "value"
-----------------------------------------------------------------------------
(* Conformance.                                                             *)

\* Of the curated verbs one of each kind: what it requires, the first of it, and the rest.
Kind(first, required, optional) ==
  [first |-> first, required |-> required, optional |-> optional]

Kinds ==
  "create_coupon" :> Kind("code", {"code", "discount_type", "discount_value"}, {"expires_at"})
    @@ "create_product" :> Kind("name", {"name"}, {"price", "sku", "category"})
    @@ "delete_product" :> Kind("product_id", {"product_id"}, {})
    @@ "update_product" :> Kind("product_id", {"product_id", "updates"}, {})
    @@ "create_client" :> Kind("name", {"name", "phone"}, {"email"})
    @@ "create_invoice" :> Kind("party_id", {"party_id", "amount", "currency"}, {"description"})
    @@ "record_payment" :> Kind("order_id", {"order_id", "event"}, {"amount"})
    @@ "process_refund" :> Kind("refund_target", {"refund_target"}, {"reason"})

Ends(S) == [x \in S |-> "x"]

With(verb, first, args, tiers, queries, targets) ==
  [verb : {verb}, first : {first}, args : args, tier : tiers, query : queries, target : targets]

Tiers == {None, "REVERSIBLE", "COMPENSABLE", "IRREVERSIBLE"}

About(id, data) == "target" :> "products" @@ "id" :> id @@ "data" :> data

MCTests ==
  UNION {With(v, Kinds[v].first, {Ends(Kinds[v].required), Ends(Kinds[v].required \cup Kinds[v].optional)},
              Tiers, {None}, {None}) : v \in DOMAIN Kinds}
  \cup UNION {With(v, "target", {About(i, d) : i \in {"x", "zz"}, d \in {<<>>, "name" :> "x"}},
                   Tiers, {None}, {None}) : v \in {"resource.create", "resource.update", "resource.delete"}}
  \cup With("create_product", "price", {Ends({"name", "price", "sku"})}, {None, "REVERSIBLE"},
            {None}, {None})
  \cup With("create_product", None, {<<>>}, {None, "REVERSIBLE"}, {None}, {None})
  \cup With("create_client", "name", {"name" :> "x", "name" :> "x" @@ "phone" :> ""},
            {None, "IRREVERSIBLE"}, {None}, {None})
  \cup With("resource.create", "target", {"target" :> "users" @@ "data" :> <<>>},
            {None, "REVERSIBLE"}, {None}, {None})
  \cup With("create_product", "name", {"name" :> "x"}, {None, "REVERSIBLE"},
            {"resource.read", "list_clients", "other"}, {None, "products", "users"})

Product(data) == [collection |-> "products", data |-> data]

MCStocks ==
  {<<>>, <<Product("name" :> "x" @@ "price" :> "9")>>, <<Product("name" :> "p1" @@ "code" :> "x")>>,
   <<[collection |-> "clients", data |-> "name" :> "x"]>>,
   <<Product("name" :> "x" @@ "price" :> "9"), Product("name" :> "x" @@ "price" :> "8")>>}

MCFresh == <<"n1", "n2", "n3", "n4", "n5">>
-----------------------------------------------------------------------------
(* Intents.                                                                 *)

Where(rel, value) == [rel |-> rel, value |-> value]

Ask(about, where, seek, change, by, limit, cursor) ==
  [about |-> about, where |-> where, seek |-> seek, change |-> change, by |-> by,
   limit |-> limit, cursor |-> cursor]

Look(where, seek, by, limit, cursor) ==
  Ask("contacts", where, seek, nothing, by, limit, cursor)

Count(where) == Look(where, "count", nothing, 50, nothing)

\* One question in each shape, two pages of it.
Shapes(where) ==
  <<Count(where), Look(where, "the", nothing, 50, nothing), Look(where, "all", nothing, 2, nothing),
    Look(where, "all", nothing, 2, "next"), Look(where, "summary", "attr", 50, nothing)>>

Wheres ==
  {<<>>, <<Where("is", <<1>>)>>, <<Where("gte", <<1>>), Where("lte", <<2>>)>>, <<Where("gt", <<1>>)>>,
   <<Where("lt", <<2>>)>>, <<Where("in", <<1>>)>>, <<Where("between", <<1, 2>>)>>}

Batch(a, b) == [surface |-> "batch", specs |-> <<a, b>>]

Alter(about, where, op, set) ==
  Ask(about, where, "all", [op |-> op, set |-> set], nothing, 50, nothing)

Changes ==
  {Alter("contacts", where, op, set) :
     where \in {<<>>, <<Where("is", <<1>>)>>, <<Where("like", <<1>>)>>},
     op \in {"create", "update", "remove", "merge"},
     set \in {<<>>, "data" :> "d", "data" :> "d" @@ "id" :> 9, "data" :> "d" @@ "target" :> "users"}}

Others ==
  {Alter("cycle", where, "create", "attr" :> 1) : where \in {<<>>, <<Where("is", <<2>>)>>}}
  \cup {Alter("automation", <<>>, op, <<>>) : op \in {"create", "remove"}}
  \cup {Look(<<>>, "all", nothing, 50, nothing), Alter("nowhere", <<>>, "remove", <<>>)}
  \cup {Ask(a, <<>>, "all", nothing, nothing, 50, nothing) : a \in {"cycle", "automation"}}

MCSessions ==
  {[surface |-> "intent", specs |-> Shapes(where)] : where \in Wheres}
  \cup {[surface |-> "nil_intent", specs |-> Shapes(<<>>)]}
  \cup {Batch(Count(<<Where("is", <<1>>)>>), Count(<<Where("is_not", <<1>>)>>)),
         Batch(Count(<<Where("between", <<1, 2>>)>>), Count(<<Where("gte", <<1>>), Where("lte", <<2>>)>>)),
         [surface |-> "batch",
          specs |-> <<Count(<<Where("like", <<1>>)>>), Look(<<Where("between", <<1>>)>>, "all", nothing, 50, nothing),
                      Look(<<>>, "most", nothing, 50, nothing), Look(<<>>, "summary", nothing, 50, nothing),
                      Ask("nowhere", <<>>, "all", nothing, nothing, 50, nothing)>>]}
  \cup {Batch(a, b) : a \in Changes,
           b \in {Alter("contacts", <<>>, "remove", <<>>), Look(<<>>, "all", nothing, 50, nothing), nothing}}
  \cup {Batch(a, b) : a, b \in Others}

Ability(filters, counts, aggregates) ==
  [filters |-> filters, counts |-> counts, aggregates |-> aggregates]

MCAbilities ==
  {Ability(TRUE, TRUE, TRUE), Ability(TRUE, FALSE, TRUE), Ability(FALSE, TRUE, FALSE),
   Ability(FALSE, FALSE, FALSE)}

MCNull == -1
MCGone == -2

MCStores ==
  {<<1, 1, 2, -1>>, <<1, 2, 1, 1>>, <<-2, 1, -2, 2>>, <<-2, -2, -2, -2>>, <<2, 2, -1, 1>>}
=============================================================================
