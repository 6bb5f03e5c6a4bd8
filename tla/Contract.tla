------------------------------ MODULE Contract ------------------------------
(***************************************************************************)
(* What the call of one step is held to: before a run the validator asks   *)
(* for a registered skill and verb that the workspace is granted (V4), for *)
(* the skill's arguments (V5), and that a reference into the answer of an  *)
(* earlier read follows the read's response schema; at run time the read   *)
(* is answered, the references are resolved and the verb is proposed to an *)
(* edge that wants its required arguments.                                 *)
(*                                                                         *)
(* A schema, and an answer, is the function from its paths to the kind of  *)
(* what is found there; "#" stands for every index of an array, which has  *)
(* "untyped" elements when its schema does not say.                        *)
(***************************************************************************)
EXTENDS Naturals, Sequences

CONSTANT Cases   \* what may be validated: a context, a step, a response

Indices == {"0", "1"}

VARIABLES
  world,    \* ValidationContext
  step,     \* an ActionNode or a QueryNode whose arguments may point into a read
  response, \* the read's schema, whether it is registered, and an answer of it
  errors,   \* the codes of the ERROR diagnostics
  reached,  \* how far the step has come
  fault     \* why it came no further

vars == <<world, step, response, errors, reached, fault>>

Pose(w, s, r) ==
  /\ world = w /\ step = s /\ response = r
  /\ errors = {} /\ reached = "posed" /\ fault = "none"

Init == \E c \in Cases : Pose(c.world, c.step, c.response)
-----------------------------------------------------------------------------
\* A context from the skill catalog: a verb that a query skill names is a read.
ReadVerbs == world.read_verbs \cup world.query_verbs

\* Exact match or the wildcard of the verb's profile; nothing else is granted.
scope_allows(verb) == {verb.name, verb.profile} \cap world.scopes # {}

HasSkill == step.skill \in DOMAIN world.skills
Skill == world.skills[step.skill]

Registered ==
  CASE step.type = "action" -> HasSkill /\ step.verb.name \in Skill.required_verbs
    [] step.type = "query" -> step.verb.name \in ReadVerbs

\* V4.  What is deprecated is a warning and is left out.
Whitelist ==
  IF ~Registered
  THEN {IF step.type = "action" THEN "V4_UNKNOWN_SKILL" ELSE "V4_UNKNOWN_VERB"}
  ELSE IF scope_allows(step.verb) THEN {} ELSE {"V4_SCOPE_DENIED"}

IsReference(value) == value.kind = "reference"

Given == DOMAIN step.args

\* The value of a reference is not known yet.
Mistyped(a) ==
  /\ ~IsReference(step.args[a])
  /\ Skill.properties[a] = "string" /\ step.args[a].kind # "string"

\* V5.  A query's arguments are screened by the adapter.
Arguments ==
  IF step.type = "query" \/ ~HasSkill THEN {}
  ELSE {"V5_ARG_MISSING" : a \in Skill.required \ Given}
         \cup {"V5_ARG_TYPE" :
                a \in {b \in Given \ DOMAIN Skill.properties : ~Skill.additional}
                        \cup {b \in Given \cap DOMAIN Skill.properties : Mistyped(b)}}

\* The schema's path for a path of an answer.
InSchema(path) == [i \in DOMAIN path |-> IF path[i] \in Indices THEN "#" ELSE path[i]]

Segment == STRING \ {"#"}

\* A schema goes by names through objects and by "#" through arrays, and says of every
\* array what it holds; an answer has nothing that its schema has not, and nothing that
\* is in nothing.
Conforms(r) ==
  /\ DOMAIN r.schema \subseteq Seq(STRING) /\ DOMAIN r.answer \subseteq Seq(Segment)
  /\ << >> \in DOMAIN r.answer
  /\ \A q \in DOMAIN r.schema \ {<< >>} :
       LET before == SubSeq(q, 1, Len(q) - 1)
       IN  /\ before \in DOMAIN r.schema
           /\ r.schema[before] = IF q[Len(q)] = "#" THEN "array" ELSE "object"
  /\ \A q \in DOMAIN r.schema : r.schema[q] = "array" => Append(q, "#") \in DOMAIN r.schema
  /\ \A p \in DOMAIN r.answer :
       /\ InSchema(p) \in DOMAIN r.schema
       /\ p # << >> => SubSeq(p, 1, Len(p) - 1) \in DOMAIN r.answer

IsBounded ==
  \A c \in Cases :
    /\ Conforms(c.response)
    /\ c.step.type \in {"action", "query"}
    /\ \A a \in DOMAIN c.step.args :
         c.step.args[a].kind = "reference" => c.step.args[a].path \in Seq(Segment) \ {<< >>}

KindAt(path) == response.schema[InSchema(path)]

\* What the n-th segment is read from has the wrong kind, or not that field.
Astray(path, n) ==
  LET kind == KindAt(SubSeq(path, 1, n - 1))
  IN  IF (path[n] \in Indices /\ kind # "array") \/ (path[n] \notin Indices /\ kind # "object")
      THEN {"V5_PATH_SHAPE_MISMATCH"}
      ELSE IF kind = "object" /\ InSchema(SubSeq(path, 1, n)) \notin DOMAIN response.schema
      THEN {"V5_OUTPUT_FIELD_UNKNOWN"} ELSE {}

\* Mutant of WalkOutput: only where the path begins is looked at.
WalkOutput_Begin(path) == IF path = << >> THEN {} ELSE Astray(path, 1)

\* The first segment that goes astray ends the walk.
WalkOutput(path) ==
  UNION {Astray(path, n) : n \in {k \in DOMAIN path :
                                    \A i \in 1..(k - 1) : Astray(path, i) = {}}}

Linked == {a \in Given : IsReference(step.args[a])}

\* V5 of outputs: only reads that have a schema, only paths that begin with "output".
Typed(path) == response.registered /\ path[1] = "output"

OutputReferences ==
  UNION {WalkOutput(Tail(step.args[a].path)) :
           a \in {b \in Linked : Typed(step.args[b].path)}}

Check ==
  /\ reached = "posed"
  /\ errors' = Whitelist \cup Arguments \cup OutputReferences
  /\ reached' = IF errors' = {} THEN "admitted" ELSE "rejected"
  /\ UNCHANGED <<world, step, response, fault>>
-----------------------------------------------------------------------------
(* The run of an admitted step, once the read it points into is answered.  *)

Follows(path) == path[1] = "output" /\ Tail(path) \in DOMAIN response.answer

Unresolved == {a \in Linked : ~Follows(step.args[a].path)}

\* A path that does not lead anywhere in the answer raises, and ends the run.
Resolve ==
  /\ reached = "admitted"
  /\ reached' = IF Unresolved = {} THEN "resolved" ELSE "raised"
  /\ fault' = IF Unresolved = {} THEN "none" ELSE "ReferenceError"
  /\ UNCHANGED <<world, step, response, errors>>

\* What Python takes for false: an empty string, zero, none, and a list or an object
\* with nothing in it.
Hollow(a) ==
  LET path == Tail(step.args[a].path)
  IN  IF ~IsReference(step.args[a]) THEN step.args[a].hollow
      ELSE \/ response.answer[path] = "hollow"
           \/ /\ response.answer[path] \in {"array", "object"}
              /\ ~\E p \in DOMAIN response.answer :
                    Len(p) > Len(path) /\ SubSeq(p, 1, Len(path)) = path

\* The edge asks for more than presence: a required argument must be truthy.
Lacking == {a \in Skill.required : a \notin Given \/ Hollow(a)}

Propose ==
  /\ reached = "resolved" /\ step.type = "action"
  /\ reached' = IF Lacking = {} THEN "previewed" ELSE "refused"
  /\ fault' = IF Lacking = {} THEN "none" ELSE "INVALID_ARGS"
  /\ UNCHANGED <<world, step, response, errors>>

\* A read is asked with whatever its arguments resolve to.
Ask ==
  /\ reached = "resolved" /\ step.type = "query"
  /\ reached' = "asked"
  /\ UNCHANGED <<world, step, response, errors, fault>>

Next == Check \/ Resolve \/ Propose \/ Ask

Spec == Init /\ [][Next]_vars
-----------------------------------------------------------------------------
(* Properties.                                                              *)

Names == (Indices \cup {p[Len(p)] : p \in DOMAIN response.schema \ {<< >>}}) \ {"#"}

\* The answer has every field of its schema, and both indices of every array.
Full ==
  \A p \in DOMAIN response.answer, s \in Names :
    InSchema(Append(p, s)) \in DOMAIN response.schema => Append(p, s) \in DOMAIN response.answer

\* What the validator promises of the run: in an answer that has all its schema
\* allows, a reference that was checked leads to a value; and no answer of the schema
\* has a path for one that it rejects.
PathsFollow ==
  LET checked == {a \in Linked : Typed(step.args[a].path)}
  IN  /\ reached = "raised" /\ Full => ~(Unresolved \subseteq checked)
      /\ \A a \in checked :
           Follows(step.args[a].path) => WalkOutput(Tail(step.args[a].path)) = {}

\* A step that gets as far as an edge is granted and is refused for its arguments only
\* when one of them is there but empty.
ReachesTheEdge ==
  reached \in {"previewed", "refused", "asked"} =>
    /\ Registered /\ scope_allows(step.verb)
    /\ reached = "refused" => \E a \in Skill.required \cap Given : Hollow(a)

ContractIsKept == PathsFollow /\ ReachesTheEdge
=============================================================================
