-------------------------- MODULE AutomationRegistry --------------------------
(***************************************************************************)
(* The registry of standing automations in the control plane's store.  An  *)
(* automation, named by workspace and id, is a list of versions.  Editing  *)
(* it appends a version that waits for approval and archives the one       *)
(* before; operators arm and disarm single versions by number.             *)
(*                                                                         *)
(* A draft is what authoring has validated and hashed.  The hash covers the*)
(* plan alone, so it is the plan here.  Names, descriptions, authors and   *)
(* time stamps are left out.                                               *)
(***************************************************************************)
EXTENDS Integers, Sequences

CONSTANTS
  Autos,        \* pairs <<workspace, automation id>>
  Plans,        \* plans, told apart by content hash
  Triggers,
  Drafts,       \* what may be registered: [auto, plan, trigger]
  Moves,        \* the states operators set
  MaxVersions   \* bound: versions of one automation

Draft == [auto : Autos, plan : Plans, trigger : Triggers]

States == {"pending_approval", "active", "paused", "archived"}

ASSUME RegistryAssumption ==
  /\ Drafts \subseteq Draft
  /\ Moves \subseteq States
  /\ MaxVersions \in Nat

VARIABLE rows  \* the automations table: automation -> its versions, in order

\* superseded is the version that replaced this one, 0 while there is none.
Version ==
  [plan : Plans, trigger : Triggers, state : States, superseded : Nat]

RegistryTypeOK == rows \in [Autos -> Seq(Version)]

RegistryInit == rows = [a \in Autos |-> << >>]

Latest(a) == Len(rows[a])

NewVersion(d) ==
  [plan |-> d.plan, trigger |-> d.trigger, state |-> "pending_approval",
   superseded |-> 0]

Archived(row, by) == [row EXCEPT !.state = "archived", !.superseded = by]

Supersede(s) ==
  [v \in 1..Len(s) |-> IF v = Len(s) THEN Archived(s[v], Len(s) + 1) ELSE s[v]]

\* Mutant of Register: the same plan under another trigger edits in place.
Register_InPlace(d) ==
  LET a == d.auto IN
  IF Latest(a) > 0 /\ rows[a][Latest(a)].plan = d.plan
  THEN rows' = [rows EXCEPT ![a][Latest(a)].trigger = d.trigger]
  ELSE /\ Latest(a) < MaxVersions
       /\ rows' = [rows EXCEPT ![a] = Append(Supersede(@), NewVersion(d))]

\* A plan that is the latest version's already is not registered again, whatever
\* its trigger; any other becomes the next version and archives the last.
Register(d) ==
  LET a == d.auto IN
  IF Latest(a) > 0 /\ rows[a][Latest(a)].plan = d.plan
  THEN UNCHANGED rows
  ELSE /\ Latest(a) < MaxVersions
       /\ rows' = [rows EXCEPT ![a] = Append(Supersede(@), NewVersion(d))]

\* Any version may be set to any state, a superseded one too.
SetState(a, v, s) == rows' = [rows EXCEPT ![a][v].state = s]

RegistryNext ==
  \/ \E d \in Drafts : Register(d)
  \/ \E a \in Autos, s \in Moves : \E v \in 1..Latest(a) : SetState(a, v, s)

RegistrySpec == RegistryInit /\ [][RegistryNext]_rows
-----------------------------------------------------------------------------
(* Properties.                                                              *)

\* What an owner approved stays what it was: no later registration or state
\* change alters a version's plan or trigger or takes a version away, and a
\* version is superseded by the very next one or not at all.
VersionsArePinned ==
  [][\A a \in Autos : \A v \in 1..Latest(a) :
       /\ v \in DOMAIN rows'[a]
       /\ rows'[a][v].plan = rows[a][v].plan
       /\ rows'[a][v].trigger = rows[a][v].trigger
       /\ rows'[a][v].superseded =
            IF v < Len(rows'[a]) THEN v + 1 ELSE 0]_rows
=============================================================================
