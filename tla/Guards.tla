------------------------------- MODULE Guards -------------------------------
(***************************************************************************)
(* The guard language of condition nodes: evaluate_guard's recursive       *)
(* descent over a guard's tokens, which evaluates while it parses.  A      *)
(* token is a string, a reference one of References; text within a token,  *)
(* string literals, fractions and objects are left out, and every          *)
(* GuardError is the value Error.                                          *)
(*                                                                         *)
(* What the evaluator is compared with is the grammar of the module's      *)
(* docstring, read as rules about spans of tokens.  The two differ in one  *)
(* place, which the property names: the docstring's has() takes any        *)
(* expression, the code's a reference only.                                *)
(***************************************************************************)
EXTENDS Integers, Sequences, TLC

CONSTANTS
  Texts,       \* the guards to be evaluated, as sequences of tokens
  References,  \* tokens that are well-formed references
  Bound        \* the references that resolve -> their values

VARIABLES
  guard,
  told       \* Waiting, or what evaluate_guard answered

guarding == <<guard, told>>

\* Python's bool is an int: True == 1 and False < 1.
Value(kind, n, items) == [kind |-> kind, n |-> n, items |-> items]
Bool(b) == Value("bool", IF b THEN 1 ELSE 0, << >>)
Number(n) == Value("int", n, << >>)
List(items) == Value("list", Len(items), items)
Null == Value("null", 0, << >>)
Error == Value("error", 0, << >>)
Waiting == Value("waiting", 0, << >>)

Literal == ("true" :> Bool(TRUE)) @@ ("false" :> Bool(FALSE)) @@ ("null" :> Null)
             @@ ("0" :> Number(0)) @@ ("1" :> Number(1)) @@ ("2" :> Number(2))

Comparators == {"==", "!=", "<", "<=", ">", ">=", "in"}

ASSUME GuardAssumption ==
  /\ DOMAIN Bound \subseteq References
  /\ References \cap DOMAIN Literal = {}

IsNumber(a) == a.kind \in {"bool", "int"}

\* bool(x): a list is true when it has items.
Truth(a) == a.n # 0

RECURSIVE Same(_, _)
Same(a, b) ==
  \/ IsNumber(a) /\ IsNumber(b) /\ a.n = b.n
  \/ a.kind = "null" /\ b.kind = "null"
  \/ /\ a.kind = "list" /\ b.kind = "list" /\ a.n = b.n
     /\ \A i \in 1..a.n : Same(a.items[i], b.items[i])

\* Lists are ordered by their first items that differ; -1, 0, 1, or 2 for values
\* that have no order.
RECURSIVE Order(_, _)
Order(a, b) ==
  LET Differ == {i \in 1..(IF a.n < b.n THEN a.n ELSE b.n) :
                   ~Same(a.items[i], b.items[i])}
      Sign(n) == CASE n < 0 -> -1 [] n = 0 -> 0 [] n > 0 -> 1
  IN CASE IsNumber(a) /\ IsNumber(b) -> Sign(a.n - b.n)
       [] a.kind = "list" /\ b.kind = "list" ->
            IF Differ = {} THEN Sign(a.n - b.n)
            ELSE LET first == CHOOSE i \in Differ : \A j \in Differ : i <= j
                 IN Order(a.items[first], b.items[first])
       [] OTHER -> 2

Apply(op, a, b) ==
  CASE op = "==" -> Bool(Same(a, b))
    [] op = "!=" -> Bool(~Same(a, b))
    [] op = "in" -> IF b.kind # "list" THEN Error
                    ELSE Bool(\E i \in 1..b.n : Same(a, b.items[i]))
    [] Order(a, b) = 2 -> Error
    [] op = "<"  -> Bool(Order(a, b) < 0)
    [] op = "<=" -> Bool(Order(a, b) <= 0)
    [] op = ">"  -> Bool(Order(a, b) > 0)
    [] op = ">=" -> Bool(Order(a, b) >= 0)
-----------------------------------------------------------------------------
(* The parser: its tokens, its position, and the value of what it has      *)
(* parsed last; an error ends the parse.                                   *)

Peek(p) == IF p.at <= Len(p.tokens) THEN p.tokens[p.at] ELSE "end"
Skip(p) == [p EXCEPT !.at = p.at + 1]
Returned(p, value) == [p EXCEPT !.value = value]
Failed(p) == p.value = Error
Expect(p, text) ==
  IF Failed(p) THEN p ELSE IF Peek(p) = text THEN Skip(p) ELSE Returned(p, Error)

\* The rule of that name; by it the rules call each other.
RECURSIVE Rule(_, _)

Enclosed(p) == Expect(Rule("or", p), ")")

SizeOf(p) ==
  CASE Failed(p) -> p
    [] p.value.kind = "list" -> Returned(p, Number(p.value.n))
    [] OTHER -> Returned(p, Error)

\* One item more of the list that has been parsed so far.
Items(p) ==
  LET item == Rule("primary", p)
      list == List(Append(p.value.items, item.value))
  IN CASE Failed(item) -> item
       [] Peek(item) = "," -> Rule("items", Returned(Skip(item), list))
       [] OTHER -> Expect(Returned(item, list), "]")

Primary(p) ==
  LET token == Peek(p)  rest == Returned(Skip(p), List(<< >>)) IN
  CASE token = "(" -> Enclosed(rest)
    [] token = "[" -> IF Peek(rest) = "]" THEN Skip(rest) ELSE Items(rest)
    [] token = "size" ->
         IF Peek(rest) = "(" THEN SizeOf(Enclosed(Skip(rest)))
                             ELSE Returned(p, Error)
    [] token \in DOMAIN Bound -> Returned(rest, Bound[token])
    [] token \in DOMAIN Literal -> Returned(rest, Literal[token])
    [] OTHER -> Returned(p, Error)

Comparison(p) ==
  LET left == Rule("primary", p)
      right == Rule("primary", Skip(left))
  IN CASE Failed(left) \/ Peek(left) \notin Comparators -> left
       [] Failed(right) -> right
       [] OTHER -> Returned(right, Apply(Peek(left), left.value, right.value))

Not(p) ==
  IF Peek(p) # "!" THEN Rule("comparison", p)
  ELSE LET inner == Rule("not", Skip(p)) IN
       IF Failed(inner) THEN inner ELSE Returned(inner, Bool(~Truth(inner.value)))

\* Mutant of AndMore: an operand after a false one is not parsed.
AndMore_Short(p) ==
  IF Failed(p) \/ Peek(p) # "&&" THEN p
  ELSE IF ~Truth(p.value) THEN Returned([p EXCEPT !.at = p.at + 2], Bool(FALSE))
  ELSE LET right == Rule("not", Skip(p)) IN
       IF Failed(right) THEN right
       ELSE Rule("and more", Returned(right, Bool(Truth(right.value))))

\* Every operand is parsed, and evaluated, whatever the one before it was.
AndMore(p) ==
  IF Failed(p) \/ Peek(p) # "&&" THEN p
  ELSE LET right == Rule("not", Skip(p)) IN
       IF Failed(right) THEN right
       ELSE Rule("and more", Returned(right, Bool(Truth(p.value) /\ Truth(right.value))))

And(p) == Rule("and more", Rule("not", p))

OrMore(p) ==
  IF Failed(p) \/ Peek(p) # "||" THEN p
  ELSE LET right == Rule("and", Skip(p)) IN
       IF Failed(right) THEN right
       ELSE Rule("or more", Returned(right, Bool(Truth(p.value) \/ Truth(right.value))))

Or(p) == Rule("or more", Rule("and", p))

Rule(name, p) ==
  CASE name = "or"         -> Or(p)
    [] name = "or more"    -> OrMore(p)
    [] name = "and"        -> And(p)
    [] name = "and more"   -> AndMore(p)
    [] name = "not"        -> Not(p)
    [] name = "comparison" -> Comparison(p)
    [] name = "primary"    -> Primary(p)
    [] name = "items"      -> Items(p)

Parse(tokens) ==
  LET p == Rule("or", [tokens |-> tokens, at |-> 1, value |-> Null])
  IN IF Peek(p) # "end" THEN Error ELSE p.value

\* has($.ref) becomes a literal before the guard is parsed; any other has() is a
\* name the parser does not know.
RECURSIVE RewriteHas(_)
RewriteHas(tokens) ==
  IF Len(tokens) < 4 THEN tokens
  ELSE IF /\ tokens[1] = "has" /\ tokens[2] = "("
          /\ tokens[3] \in References /\ tokens[4] = ")"
  THEN <<IF tokens[3] \in DOMAIN Bound THEN "true" ELSE "false">>
         \o RewriteHas(SubSeq(tokens, 5, Len(tokens)))
  ELSE <<Head(tokens)>> \o RewriteHas(Tail(tokens))

evaluate_guard(tokens) ==
  LET value == Parse(RewriteHas(tokens))
  IN IF value.kind = "bool" THEN value ELSE Error

Pose(tokens) == guard = tokens /\ told = Waiting

Evaluate ==
  /\ told = Waiting
  /\ told' = evaluate_guard(guard)
  /\ UNCHANGED guard
-----------------------------------------------------------------------------
(* Properties.                                                              *)

\* The values that a span of the tokens t has by a rule of the grammar: none when
\* it is not of that form.  An operand in error makes the whole an error.
Lift1(f(_), A) == {IF a = Error THEN Error ELSE f(a) : a \in A}
Lift2(f(_, _), A, B) ==
  {IF Error \in {a, b} THEN Error ELSE f(a, b) : a \in A, b \in B}

Splits(t, i, j, tokens) == {k \in (i + 1)..(j - 1) : t[k] \in tokens}

RECURSIVE OrSpan(_, _, _), AndSpan(_, _, _), NotSpan(_, _, _), CompSpan(_, _, _),
          PrimarySpan(_, _, _), ListSpan(_, _, _)

OrSpan(t, i, j) ==
  AndSpan(t, i, j)
    \cup UNION {Lift2(LAMBDA a, b : Bool(Truth(a) \/ Truth(b)),
                      OrSpan(t, i, k - 1), AndSpan(t, k + 1, j)) :
                  k \in Splits(t, i, j, {"||"})}

AndSpan(t, i, j) ==
  NotSpan(t, i, j)
    \cup UNION {Lift2(LAMBDA a, b : Bool(Truth(a) /\ Truth(b)),
                      AndSpan(t, i, k - 1), NotSpan(t, k + 1, j)) :
                  k \in Splits(t, i, j, {"&&"})}

NotSpan(t, i, j) ==
  IF i > j THEN {}
  ELSE IF t[i] = "!" THEN Lift1(LAMBDA a : Bool(~Truth(a)), NotSpan(t, i + 1, j))
  ELSE CompSpan(t, i, j)

CompSpan(t, i, j) ==
  PrimarySpan(t, i, j)
    \cup UNION {Lift2(LAMBDA a, b : Apply(t[k], a, b),
                      PrimarySpan(t, i, k - 1), PrimarySpan(t, k + 1, j)) :
                  k \in Splits(t, i, j, Comparators)}

PrimarySpan(t, i, j) ==
  CASE i = j ->
         (IF t[i] \in References
            THEN {IF t[i] \in DOMAIN Bound THEN Bound[t[i]] ELSE Error}
            ELSE {Literal[l] : l \in DOMAIN Literal \cap {t[i]}})
    [] i < j /\ t[i] = "(" /\ t[j] = ")" -> OrSpan(t, i + 1, j - 1)
    [] i < j /\ t[i] = "[" /\ t[j] = "]" ->
         {IF s = <<Error>> THEN Error ELSE List(s) : s \in ListSpan(t, i + 1, j - 1)}
    [] i + 1 < j /\ t[i] = "size" /\ t[i + 1] = "(" /\ t[j] = ")" ->
         Lift1(LAMBDA a : IF a.kind = "list" THEN Number(a.n) ELSE Error,
               OrSpan(t, i + 2, j - 1))
    [] i + 1 < j /\ t[i] = "has" /\ t[i + 1] = "(" /\ t[j] = ")" ->
         {Bool(a # Error) : a \in OrSpan(t, i + 2, j - 1)}
    [] OTHER -> {}

\* The items of a list, <<Error>> when one of them is in error.
ListSpan(t, i, j) ==
  (IF i > j THEN {<< >>} ELSE {<<a>> : a \in PrimarySpan(t, i, j)})
    \cup UNION {{IF Error \in {b} \cup {a[n] : n \in DOMAIN a} THEN <<Error>>
                 ELSE Append(a, b) :
                   a \in ListSpan(t, i, k - 1), b \in PrimarySpan(t, k + 1, j)} :
                  k \in Splits(t, i, j, {","})}

Meaning(tokens) ==
  LET values == OrSpan(tokens, 1, Len(tokens))
  IN IF \E b \in BOOLEAN : values = {Bool(b)}
     THEN CHOOSE v \in values : TRUE ELSE Error

\* Every has() is of a single reference.
HasOfReferences(tokens) ==
  \A i \in 1..Len(tokens) :
    tokens[i] = "has" =>
      /\ i + 3 <= Len(tokens)
      /\ tokens[i + 1] = "(" /\ tokens[i + 2] \in References /\ tokens[i + 3] = ")"

\* A guard is answered with the one boolean that the docstring's grammar gives it:
\* nothing else is let through, whatever stands behind the operand that settles it, `!`
\* reaches over a comparison, comparisons do not chain, and only has() forgives a
\* reference that does not resolve.  The exception is the code's: a guard with has() of
\* anything but a reference is in the grammar, and refused.
GuardsMeanTheirGrammar ==
  \/ told = Waiting
  \/ told = IF HasOfReferences(guard) THEN Meaning(guard) ELSE Error
=============================================================================
