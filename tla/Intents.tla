------------------------------ MODULE Intents -------------------------------
(***************************************************************************)
(* The single payload of the MCP server: an agent says what it is about,   *)
(* which records, and either what it seeks or what is to change.  A router *)
(* gives it to the domain that owns the entity; reads are resolved by the  *)
(* adapter, and a change becomes one proposal for each record that a read  *)
(* has found.  Others change the records between any two calls.            *)
(*                                                                         *)
(* Criteria look at one attribute, a number, and give their values in a    *)
(* sequence.  ReadPlane has the fields and the sizes of a page, and what   *)
(* changes while an agent pages.                                           *)
(***************************************************************************)
EXTENDS Integers, Sequences, FiniteSets

CONSTANTS
  Ids,          \* of records, numbers
  Sessions,      \* [surface, specs]: what agents ask, and by which tool
  Abilities,     \* [filters, counts, aggregates]: what the backend can do
  Stores,        \* the records at first: the attribute's values by key
  Domains,       \* the domains that are configured besides the adapter
  Ontology,      \* entities of the graph domain
  Served,      \* targets of the adapter
  DefaultLimit, ChangeLimit, EdgeLimit, CapRows,
  MaxFaults, MaxDrifts,  \* bounds: calls that fail; changes by others
  Gone, Null,    \* not a record; a record without the attribute
  None

VARIABLES
  surface, specs, able,
  records,
  results,    \* the answers so far
  todo,       \* the records of a change that are not proposed yet, or None
  given,       \* the answers to the proposals of the change at hand
  minted,     \* proposals that the adapter has stored
  asserted,   \* what the other domains were given to make true
  dead,       \* the batch has ended with an error of its own
  faults, drifts,
  seen        \* history: for each change, what its read has found and could have found

intents == <<surface, specs, able, records, results, todo, given, minted, asserted, dead,
             faults, drifts, seen>>

\* What stands where a number of rows is expected.
NoNumber == -1

\* A question has a positive limit, since a batch takes 0 for its default, and its criteria
\* are a list.
IsSpec(spec) ==
  /\ DOMAIN spec = {"about", "where", "seek", "change", "by", "limit", "cursor"}
  /\ spec.where \in Seq([rel : STRING, value : Seq(Int)])
  /\ spec.limit \in Nat \ {0} /\ spec.cursor \in {None, "next"}

ConstantsAreSound ==
  /\ Ids \subseteq Nat \ {0} /\ IsFiniteSet(Ids) /\ None \notin Int /\ None # "next"
  /\ None \notin Seq(Ids) /\ None # <<None>>
  /\ {DefaultLimit, ChangeLimit} \subseteq Nat \ {0} /\ {EdgeLimit, CapRows} \subseteq Nat
  /\ Stores \subseteq [Ids -> Int]
  /\ \A session \in Sessions :
       /\ DOMAIN session.specs = 1..Len(session.specs) /\ Len(session.specs) \in Nat
       /\ \A i \in DOMAIN session.specs : session.specs[i] # None => IsSpec(session.specs[i])

Ask(session, can, store) ==
  /\ surface = session.surface /\ specs = session.specs /\ able = can /\ records = store
  /\ results = << >> /\ todo = None /\ given = << >> /\ minted = << >> /\ asserted = << >>
  /\ dead = FALSE /\ faults = 0 /\ drifts = 0 /\ seen = << >>

Init == \E session \in Sessions, can \in Abilities, store \in Stores : Ask(session, can, store)
-----------------------------------------------------------------------------
(* Reading.                                                                 *)

REL_TO_OP ==
  [is |-> "eq", is_not |-> "ne", gt |-> "gt", gte |-> "gte", lt |-> "lt", lte |-> "lte",
   between |-> "between", in |-> "in"]

\* Nothing compares with what is missing.
Holds(op, v, x) ==
  CASE op = "eq" -> v = x[1]
    [] op = "ne" -> v # x[1]
    [] op = "in" -> \E i \in DOMAIN x : x[i] = v
    [] op = "gt" -> v # Null /\ v > x[1]
    [] op = "gte" -> v # Null /\ v >= x[1]
    [] op = "lt" -> v # Null /\ v < x[1]
    [] op = "lte" -> v # Null /\ v <= x[1]
    [] op = "between" -> v # Null /\ x[1] <= v /\ v <= x[2]

Present == {k \in Ids : records[k] # Gone}

_matches(k, where) ==
  \A i \in DOMAIN where :
    /\ where[i].rel \in DOMAIN REL_TO_OP
    /\ Holds(REL_TO_OP[where[i].rel], records[k], where[i].value)

Matching(where) == {k \in Present : _matches(k, where)}

\* Of the values that no relation takes, only a number of bounds.
parse_filter(where) ==
  \A i \in DOMAIN where : where[i].rel = "between" => Len(where[i].value) = 2

Ascending(S) ==
  CHOOSE s \in [1..Cardinality(S) -> S] : \A i, j \in DOMAIN s : i < j => s[i] < s[j]

Take(s, n) == SubSeq(s, 1, IF Len(s) < n THEN Len(s) ELSE n)

Blank == [outcome |-> "", code |-> "", items |-> << >>, next |-> None, count |-> 0,
          groups |-> << >>, proposals |-> << >>]

Result == [Blank EXCEPT !.outcome = "result"]
Refusal(code) == [Blank EXCEPT !.outcome = "refused", !.code = code]
Error == Refusal("ERROR")

\* The rows of a page and one more; without a filter of its own the backend hands out
\* what it has, up to a bound.
Pulled(where, after) ==
  {k \in IF able.filters THEN Matching(where) ELSE Present : k > after}

search(where, limit, after) ==
  LET rows == Ascending({k \in Pulled(where, after) : _matches(k, where)})
      page == Take(rows, limit)
  IN  IF \/ ~able.filters /\ Cardinality(Pulled(where, after)) > EdgeLimit
         \/ Len(page) > CapRows
      THEN Refusal("RESULT_TOO_LARGE")
      ELSE [Result EXCEPT
              !.items = page,
              !.next = IF Len(rows) > limit /\ page # << >> THEN page[Len(page)] ELSE None]

count(where) ==
  LET first == Take(Ascending(Pulled(where, 0)), EdgeLimit + 1)
      found == Cardinality({i \in DOMAIN first : _matches(first[i], where)})
  IN  [Result EXCEPT !.count = IF able.counts THEN Cardinality(Matching(where))
                                ELSE IF found < EdgeLimit THEN found ELSE EdgeLimit]

\* The attribute is what there is to group by.
aggregate(where, by) ==
  LET groups == {records[k] : k \in Matching(where)}
  IN  IF ~able.aggregates THEN Refusal("CAPABILITY_UNSUPPORTED")
      ELSE IF by # "attr" THEN Error
      ELSE IF Cardinality(groups) > CapRows THEN Refusal("RESULT_TOO_LARGE")
      ELSE [Result EXCEPT !.groups =
                    [g \in groups |-> Cardinality({k \in Matching(where) : records[k] = g})]]

\* The adapter's answer to nil.intent; a limit that is not given is its default.
resolve(about, where, seek, by, limit, cursor) ==
  CASE seek \notin {"the", "all", "count", "summary"} -> Refusal("INVALID_SEEK")
    [] \E i \in DOMAIN where : where[i].rel \notin DOMAIN REL_TO_OP -> Refusal("INVALID_REL")
    [] seek = "summary" /\ by = None -> Refusal("MISSING_DIMENSION")
    [] about \notin Served -> Error
    [] ~parse_filter(where) -> Refusal("INVALID_FILTER")
    [] OTHER ->
         LET after == IF cursor = None THEN 0 ELSE cursor
             rows == IF limit = None THEN DefaultLimit ELSE limit
         IN  CASE seek = "count" -> count(where)
               [] seek = "the" -> [search(where, 1, 0) EXCEPT !.next = None]
               [] seek = "all" -> IF rows = NoNumber THEN Error ELSE search(where, rows, after)
               [] seek = "summary" -> aggregate(where, by)
-----------------------------------------------------------------------------
(* The tool.                                                                *)

\* nil_intent gives its arguments on by position, and the tool has one more: the limit
\* comes as a dimension, and the cursor as a limit that is no number.

Wire(spec) ==
  IF surface = "nil_intent"
  THEN [spec EXCEPT !.by = "limit", !.cursor = None,
                    !.limit = IF spec.cursor = None THEN None ELSE NoNumber]
  ELSE spec

\* An agent that has seen a page asks for the next.
Continued(spec) ==
  IF spec # None /\ spec.cursor = "next"
  THEN [spec EXCEPT !.cursor = IF results = << >> THEN None ELSE results[Len(results)].next]
  ELSE spec

Running == ~dead /\ todo = None /\ Len(results) < Len(specs)
Asking == Continued(specs[Len(results) + 1])

Tell(body) == results' = Append(results, body)

Owner(about) ==
  IF about = "automation" /\ "automation" \in Domains THEN "automation"
  ELSE IF about \in Ontology /\ "graph" \in Domains THEN "graph"
  ELSE "adapter"

Calling(domain) ==
  /\ Running /\ Asking # None /\ Owner(Asking.about) = domain
  /\ UNCHANGED <<surface, specs, able, records, dead, drifts>>

\* Any call may fail, and with it the intent that made it.
Fault == faults < MaxFaults /\ faults' = faults + 1 /\ Tell(Error)

\* Only registering is offered.
Automate ==
  /\ Calling("automation")
  /\ \/ /\ LET change == Asking.change IN
           IF change # None /\ change.op # "create"
           THEN Tell(Refusal("UNSUPPORTED_OP")) /\ UNCHANGED asserted
           ELSE /\ asserted' = IF change = None THEN asserted
                               ELSE Append(asserted, <<"automation", change.set>>)
                /\ Tell(Result)
        /\ UNCHANGED faults
     \/ Fault /\ UNCHANGED asserted
  /\ UNCHANGED <<todo, given, minted, seen>>

\* Everything f says, and what only g says.
Over(f, g) == [x \in DOMAIN f \cup DOMAIN g |-> IF x \in DOMAIN f THEN f[x] ELSE g[x]]

\* What is to change and which, as facts: the latter win.
Facts(spec) ==
  IF spec.where = << >> THEN spec.change.set
  ELSE Over([attr |-> spec.where[Len(spec.where)].value[1]], spec.change.set)

Graph ==
  /\ Calling("graph")
  /\ \/ /\ asserted' = IF Asking.change = None THEN asserted
                       ELSE Append(asserted, <<Asking.about, Facts(Asking)>>)
        /\ Tell(Result) /\ UNCHANGED faults
     \/ Fault /\ UNCHANGED asserted
  /\ UNCHANGED <<todo, given, minted, seen>>

Read ==
  /\ Calling("adapter") /\ Asking.change = None
  /\ \/ /\ LET spec == Wire(Asking) IN
           Tell(resolve(spec.about, spec.where, spec.seek, spec.by, spec.limit, spec.cursor))
        /\ UNCHANGED faults
     \/ Fault
  /\ UNCHANGED <<todo, given, minted, asserted, seen>>

OP_TO_RESOURCE ==
  [create |-> "resource.create", update |-> "resource.update", remove |-> "resource.delete"]

\* Mutant of Resolved: a refusal is taken for a match of everything.
Resolved_Anyway(spec) ==
  LET read == resolve(spec.about, spec.where, "all", None, ChangeLimit, None)
  IN  IF read.outcome = "result" THEN read.items ELSE Take(Ascending(Present), ChangeLimit)

\* The records of a change: one page of them, and none if the read is refused.
Resolved(spec) ==
  resolve(spec.about, spec.where, "all", None, ChangeLimit, None).items

Change ==
  /\ Calling("adapter") /\ Asking.change # None
  /\ LET spec == Asking
         op == spec.change.op
         items == IF op = "create" THEN <<None>> ELSE Resolved(spec)
     IN  IF op \notin DOMAIN OP_TO_RESOURCE
         THEN Tell(Refusal("INVALID_OP")) /\ UNCHANGED <<todo, given, seen, faults>>
         ELSE \/ /\ op = "create" \/ items # << >>
                 /\ todo' = items /\ given' = << >>
                 /\ seen' = Over([i \in {Len(results) + 1} |->
                                     [found |-> items, there |-> IF op = "create" THEN {}
                                                                 ELSE Matching(spec.where)]], seen)
                 /\ UNCHANGED <<results, faults>>
              \/ /\ op # "create" /\ items = << >>
                 /\ IF resolve(spec.about, spec.where, "all", None, ChangeLimit, None) = Error
                    THEN Tell(Error) ELSE Tell(Refusal("NO_MATCH"))
                 /\ UNCHANGED <<todo, given, seen, faults>>
              \/ op # "create" /\ Fault /\ UNCHANGED <<todo, given, seen>>
  /\ UNCHANGED <<minted, asserted>>

Args(spec, item) ==
  CASE spec.change.op = "create" -> Over(spec.change.set, [target |-> spec.about])
    [] spec.change.op = "update" -> Over(spec.change.set, [target |-> spec.about, id |-> item])
    [] spec.change.op = "remove" -> [target |-> spec.about, id |-> item]

\* The edge wants a target of its own and, but for a delete, the record's data.
Previews(op, args) == args["target"] \in Served /\ (op # "remove" => "data" \in DOMAIN args)

\* The next record's proposal; the last one's answer ends the intent.
Propose ==
  /\ todo # None /\ todo # << >>
  /\ LET args == Args(Asking, Head(todo))
         accepted == Previews(Asking.change.op, args)
         answers == Append(given, IF accepted THEN Len(minted) + 1 ELSE 0)
         last == Len(todo) = 1
     IN  \/ /\ minted' = IF accepted
                         THEN Append(minted, [verb |-> OP_TO_RESOURCE[Asking.change.op], args |-> args,
                                              of |-> Len(results) + 1])
                         ELSE minted
            /\ given' = IF last THEN << >> ELSE answers
            /\ todo' = IF last THEN None ELSE Tail(todo)
            /\ results' = IF last
                 THEN Append(results, [Blank EXCEPT !.outcome = "proposals", !.proposals = answers])
                 ELSE results
            /\ UNCHANGED faults
         \/ Fault /\ todo' = None /\ given' = << >> /\ UNCHANGED minted
  /\ UNCHANGED <<surface, specs, able, records, asserted, dead, drifts, seen>>

\* What is no object ends a batch, and with it the answers it already has.
Collapse ==
  /\ Running /\ Asking = None
  /\ dead' = TRUE /\ results' = << >>
  /\ UNCHANGED <<surface, specs, able, records, todo, given, minted, asserted, faults, drifts, seen>>

Drift(k, value) ==
  /\ ~dead /\ Len(results) < Len(specs)
  /\ drifts < MaxDrifts /\ drifts' = drifts + 1
  /\ records[k] # value /\ records' = [records EXCEPT ![k] = value]
  /\ UNCHANGED <<surface, specs, able, results, todo, given, minted, asserted, dead, faults, seen>>

Next ==
  \/ Automate \/ Graph \/ Read \/ Change \/ Propose \/ Collapse
  \/ \E k \in Ids, value \in {Gone, 1} : Drift(k, value)
-----------------------------------------------------------------------------
(* Properties.                                                              *)

Seeks(i, seek) ==
  /\ i \in DOMAIN results /\ results[i].outcome = "result"
  /\ Owner(specs[i].about) = "adapter" /\ specs[i].change = None /\ specs[i].seek = seek

\* The pages of one question that an agent has read one after the other, from i to j.
Paged(i, j) ==
  /\ i <= j /\ specs[i].cursor = None
  /\ \A k \in i..j : Seeks(k, "all") /\ specs[k].where = specs[i].where
  /\ \A k \in (i + 1)..j : specs[k].cursor = "next" /\ results[k - 1].next # None
  /\ results[j].next = None

Listed(k) == {results[k].items[n] : n \in DOMAIN results[k].items}
Pages(i, j) == UNION {Listed(k) : k \in i..j}

\* Of the numbers f.
Sum(f) == Cardinality(UNION {{x} \X (1..f[x]) : x \in DOMAIN f})

Exact == able.counts \/ Cardinality(Present) < EdgeLimit

\* While nobody changes the records the four shapes of one question agree: as many are
\* counted as the pages and the groups have, no record is on two pages, the first of them is the one, and what is
\* and what is not makes all.
ShapesAgree ==
  drifts = 0 /\ ~dead =>
    \A i, j \in DOMAIN results :
      /\ Paged(i, j) =>
           LET pages == Pages(i, j) IN
           /\ \A k, m \in i..j : k # m => Listed(m) \cap Listed(k) = {}
           /\ \A k \in DOMAIN results : specs[k].where = specs[i].where =>
             /\ Seeks(k, "count") /\ Exact => results[k].count = Cardinality(pages)
             /\ Seeks(k, "summary") => Sum(results[k].groups) = Cardinality(pages)
             /\ Seeks(k, "the") =>
                  IF pages = {} THEN results[k].items = << >>
                  ELSE results[k].items[1] \in pages /\ \A p \in pages : results[k].items[1] <= p
      /\ Seeks(i, "count") /\ Seeks(j, "count") /\ Exact /\ Len(specs[i].where) = 1 =>
           LET w == specs[i].where[1] IN
           /\ w.rel = "is" /\ specs[j].where = <<[w EXCEPT !.rel = "is_not"]>> =>
                results[i].count + results[j].count = Cardinality(Present)
           /\ w.rel = "between"
                /\ specs[j].where = <<[rel |-> "gte", value |-> <<w.value[1]>>],
                                         [rel |-> "lte", value |-> <<w.value[2]>>]>>
                => results[i].count = results[j].count

\* Each proposal is of an intent to change; unless what is to be set names a record or a
\* target itself, it is about a record that its intent's read has found to match, and no
\* record has two.  An intent that is given of its proposals has one for each match, up to
\* the limit.
ChangesHitMatches ==
  /\ \A n \in DOMAIN minted :
       LET p == minted[n]
           spec == specs[p.of]
           free == "id" \notin DOMAIN spec.change.set /\ "target" \notin DOMAIN spec.change.set
       IN  /\ spec.change # None
           /\ free => p.args["target"] = spec.about
           /\ free /\ spec.change.op # "create" =>
                /\ p.args["id"] \in seen[p.of].there
                /\ \A m \in 1..(n - 1) : minted[m].of = p.of => minted[m].args["id"] # p.args["id"]
  /\ \A i \in DOMAIN results :
       results[i].outcome = "proposals" /\ specs[i].change.op # "create" =>
         LET matches == Cardinality(seen[i].there) IN
         Len(results[i].proposals) = IF matches < ChangeLimit THEN matches ELSE ChangeLimit

\* What is stored as a proposal is given to the agent, under the intent it belongs to,
\* unless a call of the intent has failed.
NothingIsHidden ==
  Len(results) = Len(specs) /\ faults = 0 =>
    \A n \in DOMAIN minted :
      \E k \in DOMAIN results[minted[n].of].proposals : results[minted[n].of].proposals[k] = n

IntentsAreKept == ShapesAgree /\ ChangesHitMatches /\ NothingIsHidden
=============================================================================
