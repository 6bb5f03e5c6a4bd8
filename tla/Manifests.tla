----------------------------- MODULE Manifests ------------------------------
(***************************************************************************)
(* What is learned of a system's hidden requirements and where it goes.    *)
(* Native errors teach a manifest that may be shared; confirmed lessons    *)
(* and reversibility tiers are merged into it; an integrator layers a      *)
(* manifests with values of their own over it; and the shim fills those    *)
(* values into each native document.  Lessons and skills are also kept in  *)
(* a ledger in which a revision supersedes, and never edits, an entry.     *)
(***************************************************************************)
EXTENDS Naturals, Sequences, FiniteSetsExt

CONSTANTS
  Errors,       \* native errors: [requires, needs, quirks], a field once, as the first of
                \* the signatures that name it has it
  Catalog,      \* the verbs, sorted
  Lexicon,      \* what the name of a verb says of it
  Lessons,      \* [verb, field, kind]: lessons that a human has confirmed
  Overrides,    \* an integrator's manifests
  Documents,    \* native documents: [fields, lines]
  SecretKeys,   \* keys that look like a secret's
  Placeholders, \* values that refer to the environment
  Environment,  \* the value of those that are set
  MaxSteps,     \* bound: what is done to the manifest before it is layered
  MaxLayers,    \* bound: how many manifests are layered over it
  MaxEntries,   \* bound: the ledger
  None

Verbs == {Catalog[i] : i \in DOMAIN Catalog}
Lines == "required_on_line"
RequirementKinds == {"required_scalar", Lines, "required_nested"}
Tiers == {"REVERSIBLE", "COMPENSABLE", "IRREVERSIBLE"}

ConstantsAreSound ==
  /\ DOMAIN Catalog \subseteq Nat
  /\ None \notin Verbs \cup Tiers \cup RequirementKinds
  /\ Verbs \cap {"scanning", "learning", "recording", "served"} = {}
  /\ DOMAIN Lexicon = Verbs
  /\ \A e \in Errors :
       /\ \A r \in e.requires : r[1] # None /\ r[2] \in RequirementKinds
       /\ \A r, q \in e.requires : r[1] = q[1] => r = q
       /\ None \notin e.needs
  /\ \A l \in Lessons : l.kind \in RequirementKinds \cup {None}
  /\ {MaxLayers, MaxEntries} \subseteq Nat

VARIABLES
  community,    \* the manifest that is learned and shared
  steps,
  composed,     \* the manifest beside the shim
  native,       \* a document before and after the overlay
  ledger,       \* MemoryStore
  stage,
  downgraded,   \* history: a verb lost its tier and kept its compensation
  layers        \* history: what was layered over the shared manifest, in order

vars == <<community, steps, composed, native, ledger, stage, downgraded, layers>>

Nothing == << >>   \* the function without arguments

\* f laid over g.
Over(f, g) == [x \in DOMAIN f \cup DOMAIN g |-> IF x \in DOMAIN f THEN f[x] ELSE g[x]]
Only(x, y) == [z \in {x} |-> y]

Entry == [requirements |-> {}, prerequisites |-> Nothing, instance |-> Nothing,
          tier |-> None, compensation |-> None]

Manifest(verbs, quirks) == [system |-> "name", verbs |-> verbs, quirks |-> quirks]

EntryOf(m, v) == IF v \in DOMAIN m.verbs THEN m.verbs[v] ELSE Entry

Begin(what) ==
  /\ community = Manifest(Nothing, Nothing) /\ steps = 0
  /\ composed = community
  /\ native = Nothing
  /\ ledger = << >>
  /\ stage = what
  /\ downgraded = FALSE
  /\ layers = << >>

\* The manifests and the ledger have nothing to do with each other.
Init == \E what \in {"scanning", "recording"} : Begin(what)
-----------------------------------------------------------------------------
(* Checks.                                                                  *)

VerbErrors(e) ==
  {<<"field", r>> : r \in {q \in e.requirements : q[1] = None}}
    \cup {<<"kind", r>> : r \in {q \in e.requirements : q[1] # None /\ q[2] \notin RequirementKinds}}
    \cup {<<"entity", p>> : p \in DOMAIN e.prerequisites \cap {None}}
    \cup (IF e.tier \in Tiers \cup {None} THEN {} ELSE {<<"tier", e.tier>>})
    \cup (IF e.tier # None /\ (e.tier \in {"REVERSIBLE", "COMPENSABLE"}) = (e.compensation = None)
          THEN {<<"compensation", e.compensation>>} ELSE {})

validate(m) ==
  (IF m.system = "name" THEN {} ELSE {<<"system", m.system>>})
    \cup UNION {VerbErrors(m.verbs[v]) : v \in DOMAIN m.verbs}
    \cup {<<"evidence", q>> : q \in {p \in DOMAIN m.quirks : ~m.quirks[p]}}

\* A secret's key is not shared, not even with a placeholder.
shareable_violations(m) ==
  UNION {{<<v, k>> : k \in {f \in DOMAIN m.verbs[v].instance :
                              f \in SecretKeys \/ m.verbs[v].instance[f] \notin Placeholders}} :
           v \in DOMAIN m.verbs}

strip_instance(m) ==
  [m EXCEPT !.verbs = [v \in DOMAIN m.verbs |-> [m.verbs[v] EXCEPT !.instance = Nothing]]]

\* A verb that declares no tier is irreversible.
TierOf(e) == IF e.tier = None THEN "IRREVERSIBLE" ELSE e.tier

Changed(old, new) ==
  \/ old.requirements # new.requirements
  \/ DOMAIN old.prerequisites # DOMAIN new.prerequisites
  \/ TierOf(old) # TierOf(new)

\* What diff reports: that something was added, removed or changed.
diff(old, new) ==
  [verbs_added |-> DOMAIN new.verbs \ DOMAIN old.verbs,
   verbs_removed |-> DOMAIN old.verbs \ DOMAIN new.verbs,
   verbs_changed |-> {v \in DOMAIN old.verbs \cap DOMAIN new.verbs :
                        Changed(old.verbs[v], new.verbs[v])},
   quirks_added |-> DOMAIN new.quirks \ DOMAIN old.quirks,
   quirks_removed |-> DOMAIN old.quirks \ DOMAIN new.quirks]

Drifted(old, new) == \E part \in DOMAIN diff(old, new) : diff(old, new)[part] # {}
-----------------------------------------------------------------------------
(* What is learned.                                                         *)

\* Mutant of MergedVerb: a value that is there already stays.
MergedVerb_BaseWins(target, e) ==
  [requirements |-> target.requirements \cup e.requirements,
   prerequisites |-> Over(target.prerequisites, e.prerequisites),
   instance |-> Over(target.instance, e.instance),
   tier |-> IF e.tier # None THEN e.tier ELSE target.tier,
   compensation |-> IF e.compensation # None THEN e.compensation ELSE target.compensation]

\* Both are kept of requirements and prerequisites; a value, a tier and a compensation
\* that the override names replace the others.
MergedVerb(target, e) ==
  [requirements |-> target.requirements \cup e.requirements,
   prerequisites |-> Over(target.prerequisites, e.prerequisites),
   instance |-> Over(e.instance, target.instance),
   tier |-> IF e.tier # None THEN e.tier ELSE target.tier,
   compensation |-> IF e.compensation # None THEN e.compensation ELSE target.compensation]

merge(base, override) ==
  [system |-> IF override.system # None THEN override.system ELSE base.system,
   verbs |-> [v \in DOMAIN base.verbs \cup DOMAIN override.verbs |->
                MergedVerb(EntryOf(base, v), EntryOf(override, v))],
   quirks |-> Over(base.quirks, override.quirks)]

\* Mutant of Taught: a field is required in each way that some error names it.
Taught_EachWay(e, error) ==
  [e EXCEPT !.requirements = @ \cup error.requires,
            !.prerequisites = Over(@, [p \in error.needs |-> p])]

\* What an error teaches of the verb that met it; a field keeps the kind under which
\* it came first.
Taught(e, error) ==
  [e EXCEPT !.requirements = @ \cup {r \in error.requires : \A q \in e.requirements : q[1] # r[1]},
            !.prerequisites = Over(@, [p \in error.needs |-> p])]

Quirks(error) == [q \in error.quirks |-> TRUE]

Learning == steps < MaxSteps /\ steps' = steps + 1

\* The manifest is built from native errors before anything else is merged with it.
Scan(v, error) ==
  /\ Learning /\ stage = "scanning"
  /\ community' = [community EXCEPT
       !.verbs = Over(Only(v, Taught(EntryOf(community, v), error)), @),
       !.quirks = Over(@, Quirks(error))]
  /\ UNCHANGED <<composed, native, ledger, stage, downgraded, layers>>

Merging == Learning /\ stage \in {"scanning", "learning"} /\ stage' = "learning"

Patch(lesson) ==
  Manifest(Only(lesson.verb, [Entry EXCEPT !.requirements =
             {<<lesson.field, IF lesson.kind = None THEN "required_scalar" ELSE lesson.kind>>}]),
           Nothing)

\* A lesson is proposed as a patch when it names a verb and a field, and then merged.
Learn(lesson) ==
  /\ Merging
  /\ lesson.verb # None /\ lesson.field # None
  /\ community' = merge(community, Patch(lesson))
  /\ UNCHANGED <<composed, native, ledger, downgraded, layers>>

\* The first of these verbs in the catalog's order.
FirstVerb(verbs) ==
  Catalog[Min({i \in DOMAIN Catalog : Catalog[i] \in verbs})]

Inverses(v) ==
  {w \in DOMAIN Lexicon : /\ Lexicon[v].act = "create" /\ Lexicon[w].act = "delete"
                         /\ Lexicon[w].noun = Lexicon[v].noun}

Offsets(v) == {w \in DOMAIN Lexicon \ {v} : Lexicon[v].charges /\ Lexicon[w].offsets}

propose_reversibility(v, available) ==
  LET Tiered(t, c) == [Entry EXCEPT !.tier = t, !.compensation = c] IN
  IF available \cap Inverses(v) # {}
  THEN Tiered("REVERSIBLE", FirstVerb(available \cap Inverses(v)))
  ELSE IF available \cap Offsets(v) # {}
  THEN Tiered("COMPENSABLE", FirstVerb(available \cap Offsets(v)))
  ELSE Tiered("IRREVERSIBLE", None)

\* A human confirms the tier that the names suggest, given what there is now.
Classify(v, available) ==
  /\ Merging
  /\ LET e == propose_reversibility(v, available) IN
     /\ community' = merge(community, Manifest(Only(v, e), Nothing))
     /\ downgraded' = (downgraded \/
          (e.compensation = None /\ EntryOf(community, v).compensation # None))
  /\ UNCHANGED <<composed, native, ledger, layers>>
-----------------------------------------------------------------------------
(* Where it goes.                                                           *)

\* An integrator's manifests are layered over the shared one, and the shim starts.
Layer(override) ==
  /\ stage \in {"scanning", "learning", "served"}
  /\ Len(layers) < MaxLayers
  /\ composed' = merge(IF stage = "served" THEN composed ELSE community, override)
  /\ layers' = Append(layers, override)
  /\ stage' = "served"
  /\ UNCHANGED <<community, steps, native, ledger, downgraded>>

\* A reference to a variable that is not set is empty.
Resolve(value) ==
  IF value \notin Placeholders THEN value
  ELSE IF value \in DOMAIN Environment THEN Environment[value] ELSE ""

Bound(e) == {f \in DOMAIN e.instance : Resolve(e.instance[f]) # ""}
OfDocument(e) == {f \in Bound(e) : \E r \in e.requirements : r[1] = f /\ r[2] # Lines}
OfLines(e) == {f \in Bound(e) : <<f, Lines>> \in e.requirements}

\* Mutant of Filled: what is there is replaced.
Filled_Anyway(given, fields, e) ==
  [f \in DOMAIN given \cup fields |->
     IF f \in fields THEN Resolve(e.instance[f]) ELSE given[f]]

\* Only what is missing or empty is filled.
Filled(given, fields, e) ==
  [f \in DOMAIN given \cup fields |->
     IF f \in fields /\ (f \in DOMAIN given => given[f] = "")
     THEN Resolve(e.instance[f]) ELSE given[f]]

overlay_requirements(e, doc) ==
  [fields |-> Filled(doc.fields, OfDocument(e), e),
   lines |-> [i \in DOMAIN doc.lines |-> Filled(doc.lines[i], OfLines(e), e)]]

Overlay(v, doc) ==
  /\ stage = "served" /\ v \in DOMAIN composed.verbs
  /\ native' = [before |-> doc, after |-> overlay_requirements(EntryOf(composed, v), doc)]
  /\ stage' = v
  /\ UNCHANGED <<community, steps, composed, ledger, downgraded, layers>>
-----------------------------------------------------------------------------
(* The ledger of lessons and skills.                                        *)

\* The id is a digest of an entry's place, kind and payload.
Id(n, kind, payload) == <<n, kind, payload>>

Recorded(kind, payload, supersedes) ==
  Append(ledger, [id |-> Id(Len(ledger), kind, payload), kind |-> kind,
                  payload |-> payload, supersedes |-> supersedes])

Record(kind, payload) ==
  /\ stage = "recording" /\ Len(ledger) < MaxEntries
  /\ \/ ledger' = Recorded(kind, payload, Nothing)
     \/ /\ kind = "skill"
        /\ \E i \in DOMAIN ledger : ledger' = Recorded(kind, payload, ledger[i].id)
  /\ UNCHANGED <<community, steps, composed, native, stage, downgraded, layers>>

active(kind) ==
  {i \in DOMAIN ledger :
     ledger[i].kind = kind /\ \A j \in DOMAIN ledger : ledger[j].supersedes # ledger[i].id}

\* The latest of the ratified anchors, or none.
current_anchor ==
  LET anchors == {i \in DOMAIN ledger : ledger[i].kind = "anchor"}
  IN  IF anchors = {} THEN Nothing ELSE ledger[Max(anchors)].id

Next ==
  \/ \E v \in Verbs, error \in Errors : Scan(v, error)
  \/ \E lesson \in Lessons : Learn(lesson)
  \/ \E v \in Verbs, available \in SUBSET Verbs : Classify(v, available)
  \/ \E override \in Overrides : Layer(override)
  \/ \E v \in Verbs, doc \in Documents : Overlay(v, doc)
  \/ \E kind \in {"lesson", "skill", "anchor"}, payload \in {"a", "b"} : Record(kind, payload)
-----------------------------------------------------------------------------
(* Properties.                                                              *)

\* What is learned is valid and carries nobody's values, unless a verb's tier was taken
\* back; a compensation undoes what the verb does to its own kind of record.
LearnedIsSound ==
  /\ shareable_violations(community) = {}
  /\ validate(community) = {} \/ downgraded
  /\ \A v \in DOMAIN community.verbs :
       LET e == community.verbs[v] IN
       /\ e.tier = "REVERSIBLE" => Lexicon[e.compensation].noun = Lexicon[v].noun
       /\ e.compensation # v
       /\ \A r, q \in e.requirements : r[1] = q[1] /\ r # q => r[1] \in {l.field : l \in Lessons}

\* What is settled of a thing that each layer may name: the last to name it decides.
Settled(value, base, said) ==
  \/ value = base /\ \A i \in DOMAIN said : said[i] = None
  \/ \E i \in DOMAIN said :
       /\ said[i] = value /\ value # None
       /\ \A j \in DOMAIN said : j > i => said[j] = None

\* Entry e is all that is known of a verb below, and all that each layer said of it; of
\* the values, the tier and the compensation it has those of the last layer to say one.
EntryIsLayered(e, below, said) ==
  LET At == DOMAIN said IN
  /\ e.requirements = below.requirements \cup UNION {said[i].requirements : i \in At}
  /\ DOMAIN e.prerequisites =
       DOMAIN below.prerequisites \cup UNION {DOMAIN said[i].prerequisites : i \in At}
  /\ \A p \in DOMAIN below.prerequisites : e.prerequisites[p] = below.prerequisites[p]
  /\ DOMAIN e.instance = DOMAIN below.instance \cup UNION {DOMAIN said[i].instance : i \in At}
  /\ \A i \in At : \A f \in DOMAIN said[i].instance :
       (\A j \in At : j > i => f \notin DOMAIN said[j].instance)
         => e.instance[f] = said[i].instance[f]
  /\ Settled(e.tier, below.tier, [i \in At |-> said[i].tier])
  /\ Settled(e.compensation, below.compensation, [i \in At |-> said[i].compensation])

Said(v) == [i \in DOMAIN layers |-> EntryOf(layers[i], v)]

\* Layering loses nothing of what is below, the values and tiers of the last integrator to
\* name one win, however many manifests are layered; what is published of the result is
\* the structure alone.
LayeredIsSound ==
  stage \notin {"scanning", "learning"} =>
    LET published == strip_instance(composed) IN
    /\ DOMAIN composed.verbs =
         DOMAIN community.verbs \cup UNION {DOMAIN layers[i].verbs : i \in DOMAIN layers}
    /\ DOMAIN composed.quirks =
         DOMAIN community.quirks \cup UNION {DOMAIN layers[i].quirks : i \in DOMAIN layers}
    /\ \A v \in DOMAIN composed.verbs :
         EntryIsLayered(composed.verbs[v], EntryOf(community, v), Said(v))
    /\ shareable_violations(published) = {}
    /\ ~Drifted(composed, published)
    /\ validate(published) = validate(composed)

\* A shim that is served a layered manifest meets what its integrator has a value for, on
\* every line that has to have it, and leaves alone what the translation gave.
OverlayMeets ==
  stage \in Verbs =>
    LET e == EntryOf(composed, stage)
        Meets(before, after, fields) ==
          /\ \A f \in fields : f \in DOMAIN after /\ after[f] # ""
          /\ \A f \in DOMAIN before : before[f] # "" => after[f] = before[f]
          /\ DOMAIN after \subseteq DOMAIN before \cup fields
    IN  /\ Meets(native.before.fields, native.after.fields, OfDocument(e))
        /\ \A i \in DOMAIN native.before.lines :
             Meets(native.before.lines[i], native.after.lines[i], OfLines(e))
        /\ overlay_requirements(e, native.after) = native.after

\* Whatever is recorded twice or revised: no two entries are taken for each other, each is
\* still what its digest was made of, what is hidden is named by a later skill, an anchor
\* that was set is found, and the last entry is never hidden.
LedgerIsKept ==
  /\ \A i \in DOMAIN ledger : ledger[i].id = Id(i - 1, ledger[i].kind, ledger[i].payload)
  /\ \A i, j \in DOMAIN ledger : ledger[i].id = ledger[j].id => i = j
  /\ \A i \in DOMAIN ledger :
       /\ i \in active(ledger[i].kind)
            \/ \E j \in (i + 1)..Len(ledger) :
                 ledger[j].kind = "skill" /\ ledger[j].supersedes = ledger[i].id
       /\ ledger[i].kind = "anchor" => current_anchor # Nothing
  /\ ledger # << >> => Len(ledger) \in active(ledger[Len(ledger)].kind)

ManifestsAreKept == LearnedIsSound /\ LayeredIsSound /\ OverlayMeets /\ LedgerIsKept
=============================================================================
