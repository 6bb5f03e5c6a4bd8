------------------------------ MODULE MCKernel ------------------------------
(***************************************************************************)
(* Every plan of up to three steps, with few kinds of each step, and the   *)
(* plans of a fork, two branches and a step after they join; and plans     *)
(* that write.  Guards of up to four parts, some of them whole phrases;    *)
(* verbs with up to two prerequisites each.                                *)
(***************************************************************************)
EXTENDS Kernel, Guards, SequencesExt, TLC

MCNodes == 1..6
-----------------------------------------------------------------------------
(* Small plans that write, each one that validate() admits.                 *)

Undo(uses) == [uses |-> uses]

Action(uses, undo, next) ==
  [type |-> "action", next |-> next, uses |-> uses, error |-> End, undo |-> undo]
Query(uses) == [type |-> "query", next |-> End, uses |-> uses, error |-> End]
Notify(uses) == [type |-> "notify", next |-> End, uses |-> uses]

\* Four writes in a row, each using the one before.
Chain(second, on_error) ==
  [entry |-> 1, on_error |-> on_error, nodes |->
    (1 :> Action({}, Undo({1}), 2) @@ 2 :> Action({1}, second, 3)
      @@ 3 :> Action({2}, Undo({3}), 4) @@ 4 :> Action({3}, End, 5)
      @@ 5 :> Notify({4}))]

\* A write, two branches that use it, one of them of two writes, and a write after
\* they have joined, whose compensation needs a branch's output.
Forked(undo, on_error) ==
  [entry |-> 1, on_error |-> on_error, nodes |->
    (1 :> Action({}, Undo({1}), 2)
      @@ 2 :> [type |-> "parallel", branches |-> <<3, 4>>, next |-> 6, uses |-> {}]
      @@ 3 :> Action({1}, Undo({3}), 5) @@ 4 :> Action({1}, undo, End)
      @@ 5 :> Action({1, 3}, Undo({5}), End)
      @@ 6 :> Action({1}, Undo({3}), End))]

\* Branches within a branch.
Nested(on_error) ==
  [entry |-> 1, on_error |-> on_error, nodes |->
    (1 :> [type |-> "parallel", branches |-> <<2, 3>>, next |-> 6, uses |-> {}]
      @@ 2 :> [type |-> "parallel", branches |-> <<4, 5>>, next |-> End, uses |-> {}]
      @@ 3 :> Action({}, Undo({3}), End) @@ 4 :> Action({}, Undo({4}), End)
      @@ 5 :> Query({}) @@ 6 :> Action({3}, End, End))]

\* A write per item in one branch, then a decision about another write.
Looped(on_error) ==
  [entry |-> 1, on_error |-> on_error, nodes |->
    (1 :> [type |-> "parallel", branches |-> <<2, 4>>, next |-> 5, uses |-> {}]
      @@ 2 :> [type |-> "foreach", body |-> 3, next |-> End, uses |-> {}]
      @@ 3 :> Action({}, Undo({}), End) @@ 4 :> Action({}, Undo({4}), End)
      @@ 5 :> [type |-> "condition", on_true |-> 6, on_false |-> End, next |-> End,
               uses |-> {4}]
      @@ 6 :> Action({4}, End, End))]

\* Two writes per item, the second using the first: their keys are the same for every
\* item, and so are their compensations.
Itemwise(on_error) ==
  [entry |-> 1, on_error |-> on_error, nodes |->
    (1 :> [type |-> "foreach", body |-> 2, next |-> 4, uses |-> {}]
      @@ 2 :> Action({}, Undo({}), 3) @@ 3 :> Action({2}, Undo({3}), End)
      @@ 4 :> Action({}, End, End))]

\* Two branches that meet in one write.
Meeting(on_error) ==
  [entry |-> 1, on_error |-> on_error, nodes |->
    (1 :> [type |-> "parallel", branches |-> <<2, 3>>, next |-> 5, uses |-> {}]
      @@ 2 :> Action({}, Undo({2}), 4) @@ 3 :> [Query({}) EXCEPT !.next = 4]
      @@ 4 :> Action({}, Undo({4}), End)
      @@ 5 :> Action({4}, End, End))]

\* A proposal that waits for its approval; the end uses what only the approved
\* path makes.
Approved(on_error) ==
  [entry |-> 1, on_error |-> on_error, nodes |->
    (1 :> Action({}, Undo({1}), 2)
      @@ 2 :> [type |-> "await_approval", on_approved |-> 3, on_rejected |-> 5,
               on_timeout |-> End, uses |-> {1}]
      @@ 3 :> Action({1}, Undo({3}), 4) @@ 4 :> Action({3}, End, 5)
      @@ 5 :> Query({3}))]

MCWriting ==
  UNION {{Chain(Undo({2}), e), Chain(End, e), Forked(Undo({4}), e),
          Forked(End, e), Nested(e), Looped(e), Itemwise(e), Meeting(e), Approved(e)} :
           e \in {"halt", "compensate"}}
-----------------------------------------------------------------------------
(* Plans of every shape, admitted or not.                                   *)

Ref(steps) == {{}} \cup {{s} : s \in steps}

Queries(next, uses) ==
  [type : {"query"}, next : next, uses : uses, error : {End}]
Guarded(next) ==
  [type : {"query"}, next : next, uses : {{}}, error : {2, 3}]
Conditions(next) ==
  [type : {"condition"}, on_true : next, on_false : next \cup {End}, next : {End},
   uses : {{}}]
Forks(branches, next) ==
  [type : {"parallel"}, branches : branches, next : next, uses : {{}}]
Loops(next) ==
  [type : {"foreach"}, body : {2}, next : next, uses : {{}}]

Three == 1..3
Next3 == Three \cup {End}

Plans(nodes) == [entry : {1}, on_error : {"halt"}, nodes : nodes]

Two ==
  {(1 :> a @@ 2 :> b) :
     a \in Queries(Next3, Ref(Three)) \cup Conditions(Three)
             \cup Forks({<<2, 2>>}, Next3),
     b \in Queries(Next3, Ref(Three))}

Threes ==
  {(1 :> a @@ 2 :> b @@ 3 :> c) :
     a \in Queries(Next3, Ref({1, 3})) \cup Guarded(Next3) \cup Conditions(Three)
             \cup Forks({<<2, 3>>, <<3, 2>>}, {2, 3, End}) \cup Loops(Next3),
     b \in Queries(Next3, Ref(Three)) \cup Conditions({1, 3}),
     c \in Queries({1, 2, End}, Ref({1, 2}))}

Fours ==
  {(1 :> a @@ 2 :> b @@ 3 :> c @@ 4 :> d) :
     a \in Forks({<<2, 3>>}, {4}),
     b \in Queries({3, 4, End}, Ref({1, 3, 4})),
     c \in Queries({2, 4, End}, Ref({1, 2, 4})),
     d \in Queries({End}, Ref({2, 3}))}

MCPrograms == Plans(Two) \cup Plans(Threes) \cup Plans(Fours) \cup MCWriting
-----------------------------------------------------------------------------
Parts ==
  {<<"(">>, <<")">>, <<"!">>, <<"&&">>, <<"||">>, <<"==">>, <<"<">>, <<"$flag">>,
   <<"1">>, <<"[", "1", ",", "$flag", "]">>, <<"has", "(", "$gone", ")">>,
   <<"size", "(", "$rows", ")">>}

\* Longer ones: who binds tighter, who is evaluated, what does not chain.
Phrases ==
  {<<"!", "$flag", "==", "0", "&&", "has", "(", "$flag", ")">>,
   <<"true", "||", "$flag", "&&", "$flag">>,
   <<"has", "(", "$gone", ")", "&&", "$gone", "==", "1">>,
   <<"$flag", "&&", "size", "(", "$gone", ")", "==", "1">>,
   <<"(", "1", "<", "2", ")", "==", "(", "$flag", "||", "true", ")">>,
   <<"0", "<", "1", "<", "2">>, <<"1", "in", "$rows", "&&", "!", "!", "true">>,
   <<"has", "(", "1", "==", "1", ")">>, <<"has", "(", "(", "$flag", ")", ")">>,
   <<"!", "has", "(", "$gone", "==", "1", ")">>, <<"null", "<", "1", "||", "true">>,
   <<"[", "[", "1", "]", "]", "<=", "[", "$rows", "]">>,
   <<"[", "null", "]", ">=", "[", "null", "]", "==", "true">>}

(* Guards are recursive: they are evaluated beside the jobs that are proved about. *)

SomeText == CHOOSE t \in Texts : TRUE

GuardedInit ==
  \/ KernelInit /\ Pose(SomeText)
  \/ /\ job = "guard" /\ \E text \in Texts : Pose(text)
     /\ IdlePlan /\ IdleSaga /\ IdleLoop /\ IdleStep

EvaluateGuard == job = "guard" /\ Evaluate /\ UNCHANGED kernel

GuardedNext == EvaluateGuard \/ (KernelNext /\ UNCHANGED guarding)

GuardedKernel ==
  /\ GuardedInit /\ [][GuardedNext]_<<guarding, kernel>>
  /\ WF_kernel(ValidatePlan) /\ WF_kernel(ExecutePlan)

MCTexts == {FlattenSeq(s) : s \in UNION {[1..n -> Parts] : n \in 0..4}} \cup Phrases
MCReferences == {"$flag", "$rows", "$gone"}
MCBound == ("$flag" :> Bool(FALSE)
              @@ "$rows" :> List(<<Number(1), Null>>))
-----------------------------------------------------------------------------
Needs(e, v) == [entity |-> e, verb |-> v, arg |-> e]

UpToTwo(S) == {s \in UNION {[1..n -> S] : n \in 0..2} : Len(s) = 2 => s[1] # s[2]}

\* Chains, shared prerequisites, loops, and an entity that several verbs can create; a
\* last one in which two ids are carried under one name.
MCDeclarations ==
  {("goal" :> g @@ "v1" :> a @@ "v2" :> b @@ "v3" :> c) :
     g \in {<<Needs("e1", "v1")>>, <<Needs("e1", "v1"), Needs("e2", "v2")>>},
     a \in UpToTwo({Needs("e1", "v1"), Needs("e2", "v2"), Needs("e3", "v3")}),
     b \in UpToTwo({Needs("e3", "v3"), Needs("e1", "v2"), Needs("e1", "v3")}),
     c \in UpToTwo({Needs("e1", "v1")})}
  \cup {("goal" :> <<Needs("e1", "v1"), [entity |-> "e2", verb |-> "v2", arg |-> "e1"]>>
           @@ "v1" :> << >> @@ "v2" :> << >> @@ "v3" :> << >>)}
-----------------------------------------------------------------------------
(* Contexts, steps and responses: every way to be registered, granted and given *)
(* arguments, and every path of up to three segments, and some of four, into the *)
(* answers of four schemas.                                                 *)

Write == [name |-> "p.write", profile |-> "p.*"]
Stray == [name |-> "q.write", profile |-> "q.*"]
Read == [name |-> "r.read", profile |-> "r.*"]

Literals == [kind : {"string", "number"}, hollow : BOOLEAN]
Pointer(path) == [kind |-> "reference", path |-> <<"output">> \o path]

World(additional, scopes, reads, query_verbs) ==
  [skills |->
     ("s" :> [required_verbs |-> {"p.write"}, required |-> {"a"},
              properties |-> ("a" :> "string" @@ "b" :> "any"), additional |-> additional]),
   read_verbs |-> reads, query_verbs |-> query_verbs, scopes |-> scopes]

Step(type, skill, verb, given) ==
  [type |-> type, skill |-> skill, verb |-> verb, args |-> given]

\* Each argument is given or not.
Bags(a, b, c) ==
  UNION {[{"a", "b", "c"} \cap given -> a \cup b \cup c] : given \in SUBSET {"a", "b", "c"}}

Arranged ==
  {given \in Bags(Literals \cup {Pointer(<<"rows", "0", "id">>)}, {}, {}) :
     \A x \in DOMAIN given \ {"a"} : given[x].kind = "number"}

Object(fields) == (<< >> :> "object") @@ fields

Schemas ==
  {Object(<<"rows">> :> "array" @@ <<"rows", "#">> :> "object"
            @@ <<"rows", "#", "id">> :> "string" @@ <<"total">> :> "string"),
   Object(<<"rows">> :> "array" @@ <<"rows", "#">> :> "untyped"), << >> :> "object",
   Object(<<"page">> :> "object" @@ <<"page", "rows">> :> "array"
            @@ <<"page", "rows", "#">> :> "array"
            @@ <<"page", "rows", "#", "#">> :> "string")}

Generic(path) == [i \in DOMAIN path |-> IF path[i] \in {"0", "1"} THEN "#" ELSE path[i]]

Segments == {"rows", "page", "id", "total", "0", "1"}

Concrete ==
  {p \in UNION {[1..n -> Segments] : n \in 0..4} :
     \E schema \in Schemas : Generic(p) \in DOMAIN schema}

\* Nothing hangs in the air, and an array has no second element without a first.
Present(schema) ==
  {there \in SUBSET {p \in Concrete : Generic(p) \in DOMAIN schema} :
     /\ << >> \in there
     /\ \A p \in there \ {<< >>} :
          LET before == SubSeq(p, 1, Len(p) - 1)
          IN  /\ before \in there
              /\ p[Len(p)] = "1" => Append(before, "0") \in there}

Answers(schema) ==
  {[p \in there |-> IF schema[Generic(p)] \in {"object", "array"} THEN schema[Generic(p)] ELSE leaf] :
     there \in Present(schema), leaf \in {"string", "hollow"}}

Responses ==
  UNION {[schema : {s}, registered : BOOLEAN, answer : Answers(s)] : s \in Schemas}

Rows == CHOOSE s \in Schemas : <<"total">> \in DOMAIN s
Plain == [schema : {Rows}, registered : {TRUE}, answer : Answers(Rows)]

Case(worlds, steps, responses) == [world : worlds, step : steps, response : responses]

MCCases ==
  Case({World(more, scopes, {}, {"r.read"}) :
          more \in BOOLEAN, scopes \in SUBSET {"p.write", "p.*", "q.*"}},
       {Step("action", skill, verb, given) :
          skill \in {"s", "t"}, verb \in {Write, Stray}, given \in Arranged},
       {CHOOSE r \in Plain : DOMAIN r.answer = {<< >>, <<"rows">>, <<"rows", "0">>,
                                                 <<"rows", "0", "id">>}})
  \cup
  Case({World(TRUE, scopes, reads, {}) :
          scopes \in SUBSET {"r.read", "p.*"}, reads \in {{}, {"r.read"}}},
       {Step("query", "s", Read, "a" :> Pointer(<<"rows", "1", "id">>))}, Plain)
  \cup
  Case({World(TRUE, {"p.*"}, {}, {})},
       {Step("action", "s", Write, "a" :> Pointer(path)) :
          path \in UNION {[1..n -> {"rows", "page", "id", "0", "1"}] : n \in 0..3}
                     \cup {<<"page", "rows", "0", "1">>, <<"page", "rows", "1", "0">>}}
         \cup {Step("action", "s", Write,
                    "a" :> [kind |-> "reference", path |-> <<"rows", "0">>])},
       Responses)
=============================================================================
