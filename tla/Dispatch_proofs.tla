---------------------------- MODULE Dispatch_proofs ----------------------------
(***************************************************************************)
(* The registry's versions, and the runs that are dispatched of them, for  *)
(* any automations, drafts, events, operators' keys, tasks and bounds,     *)
(* restarts included.                                                      *)
(***************************************************************************)
EXTENDS Dispatch, SequenceTheorems, FiniteSetTheorems, WellFoundedInduction, TLAPS

-----------------------------------------------------------------------------
(* The registry.                                                            *)

\* A version is superseded by the next one, and the last by none.
Chained ==
  \A a \in Autos : \A v \in 1..Latest(a) :
    rows[a][v].superseded = IF v < Latest(a) THEN v + 1 ELSE 0

RegistryInv == RegistryTypeOK /\ Chained

\* SetState on one version.
Moved(row, s) == [row EXCEPT !.state = s]

LEMMA MovedFields ==
  ASSUME NEW row \in Version, NEW s \in States
  PROVE  /\ Moved(row, s) \in Version
         /\ Moved(row, s).plan = row.plan
         /\ Moved(row, s).trigger = row.trigger
         /\ Moved(row, s).superseded = row.superseded
BY DEF Moved, Version

LEMMA ArchivedFields ==
  ASSUME NEW row \in Version, NEW by \in Nat
  PROVE  /\ Archived(row, by) \in Version
         /\ Archived(row, by).plan = row.plan
         /\ Archived(row, by).trigger = row.trigger
         /\ Archived(row, by).state = "archived"
         /\ Archived(row, by).superseded = by
BY DEF Archived, Version, States

\* What the list of versions is after a new one was registered.
LEMMA Registered ==
  ASSUME NEW s \in Seq(Version), NEW d \in Draft
  PROVE  LET r == Append(Supersede(s), NewVersion(d)) IN
         /\ r \in Seq(Version)
         /\ Len(r) = Len(s) + 1
         /\ \A v \in 1..Len(s) :
              r[v] = IF v = Len(s)
                     THEN Archived(s[v], Len(s) + 1)
                     ELSE s[v]
         /\ r[Len(s) + 1] = NewVersion(d)
<1>1. /\ Len(s) \in Nat
      /\ \A v \in 1..Len(s) : s[v] \in Version
  BY ElementOfSeq, LenProperties
<1>2. Supersede(s) \in [1..Len(s) -> Version]
  <2>1. ASSUME NEW v \in 1..Len(s)
        PROVE  Archived(s[v], Len(s) + 1) \in Version
    <3>1. s[v] \in Version /\ Len(s) + 1 \in Nat
      BY <1>1
    <3> QED
      BY <3>1, ArchivedFields
  <2> QED
    BY <1>1, <2>1 DEF Supersede
<1>3. Supersede(s) \in Seq(Version) /\ Len(Supersede(s)) = Len(s)
  <2>1. Supersede(s) \in Seq(Version)
    BY <1>1, <1>2, SeqDef
  <2>2. DOMAIN Supersede(s) = 1..Len(s)
    BY <1>2
  <2> QED
    BY <1>1, <2>1, <2>2, LenProperties
<1>4. NewVersion(d) \in Version
  BY DEF NewVersion, Version, States, Draft
<1>5. /\ Append(Supersede(s), NewVersion(d)) \in Seq(Version)
      /\ Len(Append(Supersede(s), NewVersion(d))) = Len(s) + 1
      /\ \A v \in 1..Len(s) :
           Append(Supersede(s), NewVersion(d))[v] = Supersede(s)[v]
      /\ Append(Supersede(s), NewVersion(d))[Len(s) + 1] = NewVersion(d)
  BY <1>1, <1>3, <1>4, AppendProperties
<1> QED
  BY <1>1, <1>5 DEF Supersede

\* What Register does to one automation's list: nothing, or a version more.
LEMMA RegisterStep ==
  ASSUME RegistryTypeOK, NEW d \in Drafts, Register(d), RegistryAssumption,
         NEW a \in Autos
  PROVE  /\ RegistryTypeOK'
         /\ \/ rows'[a] = rows[a]
            \/ /\ Len(rows'[a]) = Latest(a) + 1
               /\ \A v \in 1..Latest(a) :
                    rows'[a][v] = IF v = Latest(a)
                                  THEN Archived(rows[a][v], Latest(a) + 1)
                                  ELSE rows[a][v]
               /\ rows'[a][Latest(a) + 1] = NewVersion(d)
<1>1. d \in Draft /\ d.auto \in Autos
  BY DEF RegistryAssumption, Draft
<1>2. CASE UNCHANGED rows
  BY <1>2 DEF RegistryTypeOK
<1>3. CASE rows' = [rows EXCEPT ![d.auto] = Append(Supersede(@), NewVersion(d))]
  <2>1. rows[d.auto] \in Seq(Version)
    BY <1>1 DEF RegistryTypeOK
  <2>2. Append(Supersede(rows[d.auto]), NewVersion(d)) \in Seq(Version)
    BY <1>1, <2>1, Registered
  <2>3. RegistryTypeOK'
    BY <1>1, <1>3, <2>2 DEF RegistryTypeOK
  <2>4. rows'[a] = IF a = d.auto THEN Append(Supersede(rows[a]), NewVersion(d))
                                 ELSE rows[a]
    BY <1>3 DEF RegistryTypeOK
  <2> QED
    BY <1>1, <2>1, <2>3, <2>4, Registered DEF Latest
<1> QED
  BY <1>2, <1>3 DEF Register

\* What SetState does: one version's state changes, nothing else.
LEMMA SetStateStep ==
  ASSUME RegistryTypeOK, RegistryAssumption,
         NEW b \in Autos, NEW s \in Moves, NEW w \in 1..Latest(b),
         SetState(b, w, s), NEW a \in Autos
  PROVE  /\ RegistryTypeOK'
         /\ Len(rows'[a]) = Latest(a)
         /\ \A v \in 1..Latest(a) :
              rows'[a][v] = IF a = b /\ v = w THEN Moved(rows[a][v], s)
                                              ELSE rows[a][v]
<1>1. /\ rows[b] \in Seq(Version) /\ rows[a] \in Seq(Version)
      /\ w \in 1..Len(rows[b])
  BY DEF RegistryTypeOK, Latest
<1>2. rows[b][w] \in Version
  BY <1>1, ElementOfSeq
<1>3. Moved(rows[b][w], s) \in Version
  BY <1>2, MovedFields DEF RegistryAssumption
<1> DEFINE r == [rows[b] EXCEPT ![w] = Moved(rows[b][w], s)]
<1>4. /\ r \in Seq(Version)
      /\ Len(r) = Len(rows[b])
      /\ \A v \in 1..Len(rows[b]) :
           r[v] = IF v = w THEN Moved(rows[b][w], s) ELSE rows[b][v]
  BY <1>1, <1>3, ExceptSeq
<1>5. rows' = [rows EXCEPT ![b] = r]
  BY DEF SetState, Moved
<1> HIDE DEF r
<1>6. RegistryTypeOK'
  BY <1>4, <1>5 DEF RegistryTypeOK
<1>7. rows'[a] = IF a = b THEN r ELSE rows[a]
  BY <1>5 DEF RegistryTypeOK
<1> QED
  BY <1>1, <1>4, <1>6, <1>7 DEF Latest

LEMMA ChainedStep ==
  ASSUME RegistryInv, RegistryAssumption, [RegistryNext]_rows
  PROVE  RegistryInv'
<1> SUFFICES ASSUME RegistryNext PROVE RegistryInv'
  BY DEF RegistryInv, RegistryTypeOK, Chained, Latest
<1>1. ASSUME NEW d \in Drafts, Register(d) PROVE RegistryInv'
  <2>1. RegistryTypeOK'
    <3>1. d.auto \in Autos
      BY DEF RegistryAssumption, Draft
    <3> QED
      BY <1>1, <3>1, RegisterStep DEF RegistryInv
  <2>2. ASSUME NEW a \in Autos, NEW v \in 1..Len(rows'[a])
        PROVE  rows'[a][v].superseded = IF v < Len(rows'[a]) THEN v + 1 ELSE 0
    <3>1. rows[a] \in Seq(Version) /\ Latest(a) \in Nat
      BY LenProperties DEF RegistryInv, RegistryTypeOK, Latest
    <3>2. CASE rows'[a] = rows[a]
      BY <3>2 DEF RegistryInv, Chained, Latest
    <3>3. CASE /\ Len(rows'[a]) = Latest(a) + 1
               /\ \A u \in 1..Latest(a) :
                    rows'[a][u] = IF u = Latest(a)
                                  THEN Archived(rows[a][u], Latest(a) + 1)
                                  ELSE rows[a][u]
               /\ rows'[a][Latest(a) + 1] = NewVersion(d)
      <4>1. CASE v = Latest(a) + 1
        BY <3>1, <3>3, <4>1 DEF NewVersion
      <4>2. CASE v = Latest(a) /\ v \in 1..Latest(a)
        <5>1. rows[a][v] \in Version
          BY <3>1, <4>2, ElementOfSeq DEF Latest
        <5>2. rows'[a][v] = Archived(rows[a][v], Latest(a) + 1)
          BY <3>3, <4>2
        <5>3. Latest(a) + 1 \in Nat
          BY <3>1
        <5>4. rows'[a][v].superseded = Latest(a) + 1
          BY <5>1, <5>2, <5>3, ArchivedFields
        <5> QED
          BY <3>1, <3>3, <4>2, <5>4
      <4>3. CASE v \in 1..Latest(a) /\ v # Latest(a)
        <5>1. rows'[a][v] = rows[a][v]
          BY <3>3, <4>3
        <5>2. rows[a][v].superseded = IF v < Latest(a) THEN v + 1 ELSE 0
          BY <4>3 DEF RegistryInv, Chained
        <5> QED
          BY <3>1, <3>3, <4>3, <5>1, <5>2
      <4> QED
        BY <3>1, <3>3, <4>1, <4>2, <4>3
    <3> QED
      BY <1>1, <3>2, <3>3, RegisterStep DEF RegistryInv
  <2> QED
    BY <2>1, <2>2 DEF RegistryInv, Chained, Latest
<1>2. ASSUME NEW b \in Autos, NEW s \in Moves, NEW w \in 1..Latest(b),
             SetState(b, w, s)
      PROVE  RegistryInv'
  <2>1. RegistryTypeOK'
    BY <1>2, SetStateStep DEF RegistryInv
  <2>2. ASSUME NEW a \in Autos, NEW v \in 1..Len(rows'[a])
        PROVE  rows'[a][v].superseded = IF v < Len(rows'[a]) THEN v + 1 ELSE 0
    <3>1. /\ Len(rows'[a]) = Latest(a)
          /\ rows'[a][v] = IF a = b /\ v = w THEN Moved(rows[a][v], s)
                                             ELSE rows[a][v]
      BY <1>2, SetStateStep DEF RegistryInv
    <3>2. rows[a][v] \in Version
      BY <3>1, ElementOfSeq DEF RegistryInv, RegistryTypeOK, Latest
    <3>3. rows'[a][v].superseded = rows[a][v].superseded
      BY <3>1, <3>2, MovedFields DEF RegistryAssumption
    <3> QED
      BY <3>1, <3>3 DEF RegistryInv, Chained
  <2> QED
    BY <2>1, <2>2 DEF RegistryInv, Chained, Latest
<1> QED
  BY <1>1, <1>2 DEF RegistryNext

\* The table is well formed and its versions form a chain.
LEMMA RegistryInvariant == RegistrySpec => []RegistryInv
<1>1. RegistryInit => RegistryInv
  BY EmptySeq DEF RegistryInit, RegistryInv, RegistryTypeOK, Chained, Latest
<1>2. RegistryInv /\ [RegistryNext]_rows => RegistryInv'
  BY ChainedStep, RegistryAssumption
<1> QED
  BY <1>1, <1>2, PTL DEF RegistrySpec

\* A step of the registry on one version of an automation.
LEMMA PinnedStep ==
  ASSUME RegistryInv, RegistryInv', RegistryNext,
         NEW a \in Autos, NEW v \in 1..Latest(a)
  PROVE  /\ v \in DOMAIN rows'[a]
         /\ Latest(a) <= Len(rows'[a])
         /\ rows'[a][v].plan = rows[a][v].plan
         /\ rows'[a][v].trigger = rows[a][v].trigger
         /\ rows'[a][v].superseded = IF v < Len(rows'[a]) THEN v + 1 ELSE 0
<1>1. /\ rows[a] \in Seq(Version) /\ rows'[a] \in Seq(Version)
      /\ Latest(a) \in Nat
      /\ rows[a][v] \in Version
  BY LenProperties, ElementOfSeq DEF RegistryInv, RegistryTypeOK, Latest
<1>2. /\ Len(rows'[a]) \in Nat
      /\ Latest(a) <= Len(rows'[a])
      /\ rows'[a][v].plan = rows[a][v].plan
      /\ rows'[a][v].trigger = rows[a][v].trigger
  <2>1. ASSUME NEW d \in Drafts, Register(d) PROVE <1>2
    <3>1. /\ Archived(rows[a][v], Latest(a) + 1).plan = rows[a][v].plan
          /\ Archived(rows[a][v], Latest(a) + 1).trigger = rows[a][v].trigger
      <4>1. Latest(a) + 1 \in Nat
        BY <1>1
      <4> QED
        BY <1>1, <4>1, ArchivedFields
    <3>2. \/ rows'[a] = rows[a]
          \/ /\ Len(rows'[a]) = Latest(a) + 1
             /\ rows'[a][v] = IF v = Latest(a)
                              THEN Archived(rows[a][v], Latest(a) + 1)
                              ELSE rows[a][v]
      BY <2>1, RegisterStep, RegistryAssumption DEF RegistryInv
    <3> QED
      BY <1>1, <3>1, <3>2 DEF Latest
  <2>2. ASSUME NEW b \in Autos, NEW s \in Moves, NEW w \in 1..Latest(b),
               SetState(b, w, s)
        PROVE  <1>2
    BY <1>1, <2>2, SetStateStep, RegistryAssumption, LenProperties,
       MovedFields DEF RegistryInv, RegistryAssumption
  <2> QED
    BY <2>1, <2>2 DEF RegistryNext
<1>3. v \in 1..Len(rows'[a]) /\ DOMAIN rows'[a] = 1..Len(rows'[a])
  BY <1>1, <1>2, LenProperties
<1> QED
  BY <1>2, <1>3 DEF RegistryInv, Chained, Latest

\* Editing and arming keep what was approved: a version's plan and trigger never
\* change, none disappears, and each is superseded by the next one only.
THEOREM VersionsStayPinned == RegistrySpec => VersionsArePinned
<1> DEFINE Pinned ==
      \A a \in Autos : \A v \in 1..Latest(a) :
        /\ v \in DOMAIN rows'[a]
        /\ rows'[a][v].plan = rows[a][v].plan
        /\ rows'[a][v].trigger = rows[a][v].trigger
        /\ rows'[a][v].superseded = IF v < Len(rows'[a]) THEN v + 1 ELSE 0
<1>1. RegistryInv /\ RegistryInv' /\ [RegistryNext]_rows => [Pinned]_rows
  BY PinnedStep
<1> QED
  BY <1>1, RegistryInvariant, PTL DEF RegistrySpec, VersionsArePinned

-----------------------------------------------------------------------------
(* The dispatcher.                                                          *)

Pairs == Autos \X (1..MaxVersions)

\* What a task still has to go through are versions that exist, and the run it
\* waits for is in the table.
TaskOK(t) ==
  /\ task[t].pc = "new" => /\ task[t].cause \in Causes
                           /\ task[t].cause.kind = "event"
  /\ task[t].pc = "walk" => /\ task[t].cause \in Causes
                            /\ task[t].run \in RunIds
                            /\ runs[task[t].run] # None
  /\ \A p \in task[t].todo : p[2] <= Latest(p[1])

DispatchInv ==
  /\ TypeOK
  /\ \A a \in Autos : Latest(a) \in 0..MaxVersions
  /\ \A t \in Tasks : TaskOK(t)
  /\ WalkedOnce

LEMMA MinuteStart ==
  ASSUME NEW n \in Nat, NEW m \in Nat \ {0}
  PROVE  (n \div m) * m \in 0..n
<1>1. /\ n \div m \in Nat
      /\ n % m \in 0..(m - 1)
      /\ n = (n \div m) * m + (n % m)
  OBVIOUS
<1> DEFINE q == n \div m
<1>2. q * m \in Nat
  BY <1>1
<1> QED
  BY <1>1, <1>2

LEMMA FireKeyType ==
  ASSUME DispatchAssumption, NEW cause \in Causes, NEW trigger
  PROVE  FireKey(cause, trigger) \in FireKeys
<1>1. CASE cause \in [kind : {"event"}, event : Events]
  BY <1>1 DEF FireKey, FireKeys
<1>2. CASE cause \in [kind : {"tick"}, now : 0..MaxTime]
  <2>1. /\ cause.kind = "tick" /\ cause.now \in 0..MaxTime
        /\ MaxTime \in Nat /\ Minute \in Nat \ {0}
    BY <1>2 DEF DispatchAssumption
  <2>2. (cause.now \div Minute) * Minute \in 0..cause.now
    BY <2>1, MinuteStart
  <2>3. MinuteOf(cause.now) * Minute \in 0..MaxTime
    BY <2>1, <2>2 DEF MinuteOf
  <2> QED
    BY <2>1, <2>3 DEF FireKey, FireKeys
<1>3. CASE cause \in [kind : {"manual"}, key : ManualKeys]
  BY <1>3 DEF FireKey, FireKeys
<1> QED
  BY <1>1, <1>2, <1>3 DEF Causes

\* The run a fire asks for is one of the automation's latest version.
LEMMA RunForType ==
  ASSUME DispatchAssumption, NEW cause \in Causes, NEW p \in Pairs,
         Latest(p[1]) \in 1..MaxVersions
  PROVE  /\ RunFor(cause, p[1], p[2]) \in RunIds
         /\ RunFor(cause, p[1], p[2])[2] = Latest(p[1])
<1>1. FireKey(cause, rows[p[1]][p[2]].trigger) \in FireKeys
  BY FireKeyType
<1>2. p[1] \in Autos
  BY DEF Pairs
<1> QED
  BY <1>1, <1>2 DEF RunFor, RunId, RunIds

\* What a task does when it goes on: it starts at most one run, which was not in
\* the table, or is free again.
LEMMA ProceedStep ==
  ASSUME DispatchInv, RegistryAssumption, DispatchAssumption, NoneAssumption,
         NEW t \in Tasks, NEW cause \in Causes, NEW todo \in SUBSET Pairs,
         \A p \in todo : p[2] <= Latest(p[1]),
         NEW before \in [RunIds -> Run \cup {None}],
         \A r \in RunIds : before[r] = None <=> runs[r] = None,
         Proceed(t, cause, todo, before),
         UNCHANGED <<rows, revived, clock, restarts>>, stored' \subseteq Events
  PROVE  /\ DispatchInv'
         /\ \A r \in RunIds : walks'[r] # walks[r] =>
              /\ runs'[r].auto \in Autos
              /\ r[2] = Latest(runs'[r].auto)
              /\ rows[runs'[r].auto][r[2]].state = "active"
<1>1. CASE /\ runs' = before
           /\ task' = [task EXCEPT ![t] = Free]
           /\ UNCHANGED walks
  <2>1. task' = [u \in Tasks |-> IF u = t THEN Free ELSE task[u]]
    BY <1>1 DEF DispatchInv, TypeOK
  <2>2. /\ Free \in [pc : {"free", "new", "walk"}, cause : Causes \cup {None},
                     todo : SUBSET Pairs, run : RunIds \cup {None}]
        /\ Free.pc = "free" /\ Free.todo = {}
    BY DEF Free
  <2>3. TypeOK'
    BY <1>1, <2>1, <2>2 DEF DispatchInv, TypeOK, RegistryTypeOK, TaskOK, Pairs
  <2>4. \A u \in Tasks : TaskOK(u)'
    BY <1>1, <2>1, <2>2 DEF DispatchInv, TaskOK, Latest
  <2>5. WalkedOnce'
    BY <1>1 DEF DispatchInv, WalkedOnce
  <2>6. \A a \in Autos : (Latest(a) \in 0..MaxVersions)'
    BY DEF DispatchInv, Latest
  <2> QED
    BY <1>1, <2>3, <2>4, <2>5, <2>6 DEF DispatchInv
<1>2. ASSUME NEW p \in todo, NEW rest \in SUBSET todo, NEW r,
             r = RunFor(cause, p[1], p[2]),
             Starts(cause, p[1], p[2]),
             runs' = [before EXCEPT ![r] =
               [auto |-> p[1], cause |-> cause, state |-> "running", at |-> clock]],
             walks' = [walks EXCEPT ![r] = Again(@)],
             task' = [task EXCEPT ![t] =
               [pc |-> "walk", cause |-> cause, todo |-> rest, run |-> r]]
      PROVE  /\ DispatchInv'
             /\ \A q \in RunIds : walks'[q] # walks[q] =>
                  /\ runs'[q].auto \in Autos
                  /\ q[2] = Latest(runs'[q].auto)
                  /\ rows[runs'[q].auto][q[2]].state = "active"
  <2> DEFINE new == [auto |-> p[1], cause |-> cause, state |-> "running",
                     at |-> clock]
             mine == [pc |-> "walk", cause |-> cause, todo |-> rest, run |-> r]
  <2>1. p \in Pairs /\ p[1] \in Autos /\ p[2] \in 1..MaxVersions
    BY DEF Pairs
  <2>2. Latest(p[1]) \in 1..MaxVersions
    BY <2>1 DEF DispatchInv, RegistryAssumption
  <2>3. r \in RunIds /\ r[2] = Latest(p[1])
    BY <1>2, <2>1, <2>2, RunForType
  <2>4. runs[r] = None /\ rows[p[1]][r[2]].state = "active"
    BY <1>2, <2>3 DEF Starts, Accepted
  <2>5. new \in Run /\ new.auto = p[1]
    BY <2>1 DEF Run, DispatchInv, TypeOK
  <2>6. new # None
    BY <2>5, NoneAssumption
  <2>7. /\ mine \in [pc : {"free", "new", "walk"}, cause : Causes \cup {None},
                     todo : SUBSET Pairs, run : RunIds \cup {None}]
        /\ mine.pc = "walk" /\ mine.todo = rest
        /\ mine.run = r /\ mine.cause = cause
    BY <2>3
  <2>8. runs' = [q \in RunIds |-> IF q = r THEN new ELSE before[q]]
    BY <1>2
  <2>9. walks' = [q \in RunIds |-> IF q = r THEN Again(walks[r]) ELSE walks[q]]
    BY <1>2 DEF DispatchInv, TypeOK
  <2>10. task' = [u \in Tasks |-> IF u = t THEN mine ELSE task[u]]
    BY <1>2 DEF DispatchInv, TypeOK
  <2>11. walks[r] = 0 /\ Again(walks[r]) = 1
    BY <2>3, <2>4 DEF DispatchInv, WalkedOnce, Again
  <2> HIDE DEF new, mine
  <2>12. \A q \in RunIds : runs[q] # None => runs'[q] # None
    BY <2>6, <2>8
  <2>13. runs'[r] # None
    BY <2>3, <2>6, <2>8
  <2>14. /\ runs' \in [RunIds -> Run \cup {None}]
         /\ walks' \in [RunIds -> 0..2]
         /\ task' \in [Tasks ->
              [pc : {"free", "new", "walk"}, cause : Causes \cup {None},
               todo : SUBSET Pairs, run : RunIds \cup {None}]]
    BY <2>5, <2>7, <2>8, <2>9, <2>10, <2>11 DEF DispatchInv, TypeOK, Pairs
  <2>15. ASSUME NEW u \in Tasks PROVE TaskOK(u)'
    <3>1. CASE u = t
      BY <2>3, <2>7, <2>10, <2>13, <3>1 DEF TaskOK, Latest
    <3>2. CASE u # t
      <4>1. TaskOK(u) /\ task'[u] = task[u]
        BY <2>10, <3>2 DEF DispatchInv
      <4> QED
        BY <2>12, <4>1 DEF TaskOK, Latest
    <3> QED
      BY <3>1, <3>2
  <2>16. TypeOK'
    BY <2>14, <2>15 DEF DispatchInv, TypeOK, RegistryTypeOK, TaskOK, Pairs
  <2>17. WalkedOnce'
    BY <2>6, <2>8, <2>9, <2>11 DEF DispatchInv, WalkedOnce
  <2>18. \A a \in Autos : (Latest(a) \in 0..MaxVersions)'
    BY DEF DispatchInv, Latest
  <2>19. ASSUME NEW q \in RunIds, walks'[q] # walks[q]
         PROVE  /\ runs'[q].auto \in Autos
                /\ q[2] = Latest(runs'[q].auto)
                /\ rows[runs'[q].auto][q[2]].state = "active"
    <3>1. q = r /\ runs'[q] = new
      BY <2>3, <2>8, <2>9, <2>19
    <3> QED
      BY <2>1, <2>3, <2>4, <2>5, <3>1
  <2> QED
    BY <2>15, <2>16, <2>17, <2>18, <2>19 DEF DispatchInv
<1>3. CASE \E p \in todo :
             LET r == RunFor(cause, p[1], p[2])
                 passed == {q \in todo : Before(q, p)}
             IN
             /\ Starts(cause, p[1], p[2])
             /\ runs' = [before EXCEPT ![r] =
                  [auto |-> p[1], cause |-> cause, state |-> "running",
                   at |-> clock]]
             /\ walks' = [walks EXCEPT ![r] = Again(@)]
             /\ task' = [task EXCEPT ![t] =
                  [pc |-> "walk", cause |-> cause,
                   todo |-> todo \ (passed \cup {p}), run |-> r]]
  <2>1. PICK p \in todo :
          LET r == RunFor(cause, p[1], p[2])
              passed == {q \in todo : Before(q, p)}
          IN
          /\ Starts(cause, p[1], p[2])
          /\ runs' = [before EXCEPT ![r] =
               [auto |-> p[1], cause |-> cause, state |-> "running",
                at |-> clock]]
          /\ walks' = [walks EXCEPT ![r] = Again(@)]
          /\ task' = [task EXCEPT ![t] =
               [pc |-> "walk", cause |-> cause,
                todo |-> todo \ (passed \cup {p}), run |-> r]]
    BY <1>3
  <2>2. todo \ ({q \in todo : Before(q, p)} \cup {p}) \in SUBSET todo
    OBVIOUS
  <2> QED
    BY <1>2, <2>1, <2>2
<1> QED
  BY <1>1, <1>3 DEF Proceed

LEMMA DispatchStep ==
  ASSUME DispatchInv, RegistryInv, RegistryAssumption, DispatchAssumption,
         NoneAssumption, [Next]_vars
  PROVE  /\ DispatchInv'
         /\ \A r \in RunIds : walks'[r] # walks[r] =>
              /\ runs'[r].auto \in Autos
              /\ r[2] = Latest(runs'[r].auto)
              /\ rows[runs'[r].auto][r[2]].state = "active"
<1> DEFINE Goal ==
      /\ DispatchInv'
      /\ \A r \in RunIds : walks'[r] # walks[r] =>
           /\ runs'[r].auto \in Autos
           /\ r[2] = Latest(runs'[r].auto)
           /\ rows[runs'[r].auto][r[2]].state = "active"
<1>1. CASE UNCHANGED vars
  BY <1>1 DEF vars, dispatch, DispatchInv, TypeOK, RegistryTypeOK, TaskOK,
     WalkedOnce, Latest
<1>2. CASE Registry
  <2>1. /\ RegistryNext
        /\ UNCHANGED <<clock, stored, task, runs, walks, restarts>>
        /\ revived' \subseteq Autos
    BY <1>2 DEF Registry, dispatch, DispatchInv, TypeOK
  <2>2. RegistryTypeOK'
    BY <2>1, ChainedStep DEF RegistryInv
  <2>3. ASSUME NEW a \in Autos
        PROVE  /\ Len(rows'[a]) \in 0..MaxVersions
               /\ Latest(a) <= Len(rows'[a])
    <3>1. Latest(a) \in 0..MaxVersions /\ MaxVersions \in Nat
      BY DEF DispatchInv, RegistryAssumption
    <3>2. ASSUME NEW d \in Drafts, Register(d)
          PROVE  /\ Len(rows'[a]) \in 0..MaxVersions
                 /\ Latest(a) <= Len(rows'[a])
      <4>1. \/ rows'[a] = rows[a]
            \/ Len(rows'[a]) = Latest(a) + 1 /\ Latest(a) < MaxVersions
        <5>1. CASE UNCHANGED rows
          BY <5>1
        <5>2. CASE /\ Latest(d.auto) < MaxVersions
                   /\ rows' = [rows EXCEPT ![d.auto] =
                                 Append(Supersede(@), NewVersion(d))]
          <6>1. CASE a = d.auto
            BY <3>2, <5>2, <6>1, RegisterStep DEF RegistryInv
          <6>2. CASE a # d.auto
            BY <5>2, <6>2 DEF RegistryInv, RegistryTypeOK
          <6> QED
            BY <6>1, <6>2
        <5> QED
          BY <3>2, <5>1, <5>2 DEF Register
      <4> QED
        BY <3>1, <4>1 DEF Latest
    <3>3. ASSUME NEW b \in Autos, NEW s \in Moves, NEW w \in 1..Latest(b),
                 SetState(b, w, s)
          PROVE  /\ Len(rows'[a]) \in 0..MaxVersions
                 /\ Latest(a) <= Len(rows'[a])
      BY <3>1, <3>3, SetStateStep DEF RegistryInv
    <3> QED
      BY <2>1, <3>2, <3>3 DEF RegistryNext
  <2>4. ASSUME NEW t \in Tasks PROVE TaskOK(t)'
    <3>1. TaskOK(t)
      BY DEF DispatchInv
    <3>2. ASSUME NEW p \in task[t].todo PROVE p[2] <= Len(rows'[p[1]])
      <4>1. p[1] \in Autos /\ p[2] \in Nat
        BY <3>2 DEF DispatchInv, TypeOK
      <4>2. p[2] <= Latest(p[1]) /\ Latest(p[1]) \in 0..MaxVersions
        BY <3>1, <3>2, <4>1 DEF TaskOK, DispatchInv
      <4> QED
        BY <2>3, <4>1, <4>2 DEF RegistryAssumption
    <3> QED
      BY <2>1, <3>1, <3>2 DEF TaskOK, Latest
  <2> QED
    BY <2>1, <2>2, <2>3, <2>4 DEF DispatchInv, TypeOK, WalkedOnce, Latest
<1>3. ASSUME NEW t \in Tasks, NEW e \in Events, Ingest(t, e) PROVE Goal
  <2> DEFINE mine == [pc |-> "new", cause |-> [kind |-> "event", event |-> e],
                      todo |-> {}, run |-> None]
  <2>1. /\ mine \in [pc : {"free", "new", "walk"}, cause : Causes \cup {None},
                     todo : SUBSET Pairs, run : RunIds \cup {None}]
        /\ mine.pc = "new" /\ mine.todo = {} /\ mine.cause \in Causes
        /\ mine.cause.kind = "event"
    BY DEF Causes
  <2>2. /\ task' = [u \in Tasks |-> IF u = t THEN mine ELSE task[u]]
        /\ stored' \subseteq Events
        /\ UNCHANGED <<rows, revived, clock, runs, walks, restarts>>
    BY <1>3 DEF Ingest, DispatchInv, TypeOK
  <2> HIDE DEF mine
  <2>3. ASSUME NEW u \in Tasks PROVE TaskOK(u)'
    BY <2>1, <2>2 DEF DispatchInv, TaskOK, Latest
  <2>4. TypeOK'
    BY <2>1, <2>2, <2>3 DEF DispatchInv, TypeOK, RegistryTypeOK, TaskOK, Pairs
  <2> QED
    BY <2>2, <2>3, <2>4 DEF DispatchInv, WalkedOnce, Latest
<1>4. Armed \in SUBSET Pairs /\ \A p \in Armed : p[2] <= Latest(p[1])
  BY DEF Armed, Pairs
<1>5. runs \in [RunIds -> Run \cup {None}] /\ stored \subseteq Events
      /\ clock \in 0..MaxTime
  BY DEF DispatchInv, TypeOK
<1>6. ASSUME NEW t \in Tasks, Tick(t) PROVE Goal
  <2>1. [kind |-> "tick", now |-> clock] \in Causes
    BY <1>5 DEF Causes
  <2> QED
    BY <1>4, <1>5, <1>6, <2>1, ProceedStep DEF Tick
<1>7. ASSUME NEW t \in Tasks, NEW a \in Autos, NEW k \in ManualKeys, RunNow(t, a, k)
      PROVE  Goal
  <2>1. [kind |-> "manual", key |-> k] \in Causes
    BY DEF Causes
  <2>2. Latest(a) \in 1..MaxVersions
    BY <1>7 DEF RunNow, DispatchInv, RegistryAssumption
  <2>3. /\ {<<a, Latest(a)>>} \in SUBSET Pairs
        /\ \A p \in {<<a, Latest(a)>>} : p[2] <= Latest(p[1])
    BY <2>2 DEF Pairs, RegistryAssumption
  <2> QED
    BY <1>5, <1>7, <2>1, <2>3, ProceedStep DEF RunNow
<1>8. ASSUME NEW t \in Tasks, DispatchEvent(t) PROVE Goal
  <2>1. task[t].cause \in Causes
    BY <1>8 DEF DispatchEvent, DispatchInv, TaskOK
  <2> DEFINE todo == IF task[t].cause.event.own THEN {} ELSE Armed
  <2>2. todo \in SUBSET Pairs /\ \A p \in todo : p[2] <= Latest(p[1])
    BY <1>4
  <2>3. Proceed(t, task[t].cause, todo, runs)
        /\ UNCHANGED <<rows, revived, clock, stored, restarts>>
    BY <1>8 DEF DispatchEvent
  <2> HIDE DEF todo
  <2> QED
    BY <1>5, <2>1, <2>2, <2>3, ProceedStep
<1>9. ASSUME NEW t \in Tasks, Finish(t) PROVE Goal
  <2> DEFINE r == task[t].run
  <2>1. task[t].cause \in Causes /\ r \in RunIds /\ runs[r] # None
    BY <1>9 DEF Finish, DispatchInv, TaskOK
  <2>2. /\ task[t].todo \in SUBSET Pairs
        /\ \A p \in task[t].todo : p[2] <= Latest(p[1])
    BY DEF DispatchInv, TypeOK, TaskOK, Pairs
  <2>3. PICK o \in Outcome(t) :
          Proceed(t, task[t].cause, task[t].todo, [runs EXCEPT ![r].state = o])
    BY <1>9 DEF Finish
  <2>4. o \in Outcomes \cup {"failed"}
    BY <2>3 DEF Outcome
  <2> DEFINE before == [runs EXCEPT ![r].state = o]
  <2>5. [runs[r] EXCEPT !.state = o] \in Run
    BY <1>5, <2>1, <2>4 DEF Run
  <2>6. before = [runs EXCEPT ![r] = [runs[r] EXCEPT !.state = o]]
    OBVIOUS
  <2>7. before \in [RunIds -> Run \cup {None}]
    BY <1>5, <2>1, <2>5, <2>6
  <2>8. \A q \in RunIds : before[q] = None <=> runs[q] = None
    BY <1>5, <2>1, <2>5, <2>6, NoneAssumption
  <2> HIDE DEF before
  <2>9. Proceed(t, task[t].cause, task[t].todo, before)
        /\ UNCHANGED <<rows, revived, clock, stored, restarts>>
    BY <1>9, <2>3 DEF Finish, before
  <2> QED
    BY <1>5, <2>1, <2>2, <2>7, <2>8, <2>9, ProceedStep
<1>10. CASE Clock
  BY <1>10 DEF Clock, DispatchInv, TypeOK, RegistryTypeOK, TaskOK, WalkedOnce,
     Latest, DispatchAssumption
<1>11. CASE Restart
  <2>1. /\ Free \in [pc : {"free", "new", "walk"}, cause : Causes \cup {None},
                     todo : SUBSET Pairs, run : RunIds \cup {None}]
        /\ Free.pc = "free" /\ Free.todo = {}
    BY DEF Free
  <2>2. /\ task' = [t \in Tasks |-> Free]
        /\ UNCHANGED <<rows, revived, clock, stored, runs, walks>>
        /\ restarts' \in 0..MaxRestarts
    BY <1>11 DEF Restart, DispatchInv, TypeOK, DispatchAssumption
  <2>3. \A t \in Tasks : TaskOK(t)'
    BY <2>1, <2>2 DEF TaskOK
  <2>4. TypeOK'
    BY <2>1, <2>2, <2>3 DEF DispatchInv, TypeOK, RegistryTypeOK, TaskOK, Pairs
  <2> QED
    BY <2>2, <2>3, <2>4 DEF DispatchInv, WalkedOnce, Latest
<1> QED
  BY <1>1, <1>2, <1>3, <1>6, <1>7, <1>8, <1>9, <1>10, <1>11 DEF Next, TaskStep

LEMMA DispatchInit ==
  ASSUME Init, RegistryAssumption, DispatchAssumption, NoneAssumption
  PROVE  DispatchInv
<1>1. /\ Free \in [pc : {"free", "new", "walk"}, cause : Causes \cup {None},
                   todo : SUBSET Pairs, run : RunIds \cup {None}]
      /\ Free.pc = "free" /\ Free.todo = {}
  BY DEF Free
<1>2. \A t \in Tasks : task[t] = Free
  BY DEF Init
<1>3. RegistryTypeOK /\ \A a \in Autos : Latest(a) \in 0..MaxVersions
  BY EmptySeq DEF Init, RegistryInit, RegistryTypeOK, Latest, RegistryAssumption
<1>4. \A t \in Tasks : TaskOK(t)
  BY <1>1, <1>2 DEF TaskOK
<1>5. TypeOK
  BY <1>1, <1>2, <1>3 DEF Init, TypeOK, Pairs, DispatchAssumption
<1> QED
  BY <1>3, <1>4, <1>5 DEF Init, DispatchInv, WalkedOnce

\* Whatever the dispatcher does, the registry goes through its own steps only.
THEOREM DispatchKeepsRegistry == Spec => RegistrySpec
<1>1. Init => RegistryInit
  BY DEF Init
<1>2. [Next]_vars => [RegistryNext]_rows
  BY DEF Next, vars, dispatch, Registry, Ingest, Tick, RunNow, TaskStep,
     DispatchEvent, Finish, Clock, Restart
<1> QED
  BY <1>1, <1>2, PTL DEF Spec, RegistrySpec

LEMMA DispatchInvariant == Spec => [](DispatchInv /\ RegistryInv)
<1>1. Init => DispatchInv
  BY DispatchInit, RegistryAssumption, DispatchAssumption, NoneAssumption
<1>2. DispatchInv /\ RegistryInv /\ [Next]_vars => DispatchInv'
  BY DispatchStep, RegistryAssumption, DispatchAssumption, NoneAssumption
<1> QED
  BY <1>1, <1>2, DispatchKeepsRegistry, RegistryInvariant, PTL DEF Spec

\* The tables and the tasks are well formed.
THEOREM DispatchTyped == Spec => []TypeOK
BY DispatchInvariant, PTL DEF DispatchInv

\* A fire is executed once at most, however often its trigger is delivered, its
\* request is retried, or the control plane restarts.
THEOREM FiredOnce == Spec => []WalkedOnce
BY DispatchInvariant, PTL DEF DispatchInv

\* A run starts of an armed, latest version only, though the scheduler read the
\* armed versions before it waited for other runs.
THEOREM ArmedWhenStarted == Spec => OnlyArmedStarts
<1>1. DispatchInv /\ RegistryInv /\ [Next]_vars =>
        [\A r \in RunIds :
           walks'[r] # walks[r] =>
             LET a == runs'[r].auto IN
             r[2] = Latest(a) /\ rows[a][r[2]].state = "active"]_vars
  BY DispatchStep, RegistryAssumption, DispatchAssumption, NoneAssumption
<1> QED
  BY <1>1, DispatchInvariant, PTL DEF Spec, OnlyArmedStarts

\* Versions stay pinned under everything the dispatcher does.
THEOREM DispatchKeepsPinned == Spec => VersionsArePinned
BY DispatchKeepsRegistry, VersionsStayPinned
-----------------------------------------------------------------------------
(* Whose the runs are.                                                      *)

\* How a task that goes on changes one run: it stays the run it was, or it is the one
\* that was started.
GoesOn(t, cause, todo, before) ==
  \/ /\ task' = [task EXCEPT ![t] = Free]
     /\ runs' = before
     /\ walks' = walks
  \/ \E p \in todo : \E rest \in SUBSET (todo \ {p}) : \E r \in RunIds :
       /\ r = RunFor(cause, p[1], p[2])
       /\ Starts(cause, p[1], p[2])
       /\ task' = [task EXCEPT ![t] =
            [pc |-> "walk", cause |-> cause, todo |-> rest, run |-> r]]
       /\ runs' = [before EXCEPT ![r] =
            [auto |-> p[1], cause |-> cause, state |-> "running", at |-> clock]]
       /\ walks' = [walks EXCEPT ![r] = Again(@)]

\* Proceed, with the rows left behind forgotten.
LEMMA ProceedOnRun ==
  ASSUME DispatchInv, RegistryAssumption, DispatchAssumption, NoneAssumption,
         NEW t \in Tasks, NEW cause \in Causes, NEW todo \in SUBSET Pairs,
         \A p \in todo : p[2] <= Latest(p[1]),
         NEW before \in [RunIds -> Run \cup {None}],
         Proceed(t, cause, todo, before)
  PROVE  GoesOn(t, cause, todo, before)
<1>1. CASE runs' = before /\ task' = [task EXCEPT ![t] = Free] /\ walks' = walks
  BY <1>1 DEF GoesOn
<1>2. CASE \E p \in todo :
             LET r == RunFor(cause, p[1], p[2])
                 passed == {q \in todo : Before(q, p)}
             IN
             /\ Starts(cause, p[1], p[2])
             /\ runs' = [before EXCEPT ![r] =
                  [auto |-> p[1], cause |-> cause, state |-> "running",
                   at |-> clock]]
             /\ task' = [task EXCEPT ![t] =
                  [pc |-> "walk", cause |-> cause,
                   todo |-> todo \ (passed \cup {p}), run |-> r]]
             /\ walks' = [walks EXCEPT ![r] = Again(@)]
  <2>1. PICK p \in todo :
          LET r == RunFor(cause, p[1], p[2])
              passed == {q \in todo : Before(q, p)}
          IN
          /\ Starts(cause, p[1], p[2])
          /\ runs' = [before EXCEPT ![r] =
               [auto |-> p[1], cause |-> cause, state |-> "running",
                at |-> clock]]
          /\ task' = [task EXCEPT ![t] =
               [pc |-> "walk", cause |-> cause,
                todo |-> todo \ (passed \cup {p}), run |-> r]]
          /\ walks' = [walks EXCEPT ![r] = Again(@)]
    BY <1>2
  <2> DEFINE rest == todo \ ({q \in todo : Before(q, p)} \cup {p})
             r == RunFor(cause, p[1], p[2])
  <2>2. rest \in SUBSET (todo \ {p})
    OBVIOUS
  <2>3. p \in Pairs /\ Latest(p[1]) \in 1..MaxVersions
    <3>1. p[1] \in Autos /\ p[2] \in 1..MaxVersions
      BY DEF Pairs
    <3>2. p[2] <= Latest(p[1]) /\ Latest(p[1]) \in 0..MaxVersions
      BY <3>1 DEF DispatchInv
    <3> QED BY <3>1, <3>2 DEF RegistryAssumption
  <2>4. r \in RunIds
    BY <2>3, RunForType
  <2>5. /\ task' = [task EXCEPT ![t] =
             [pc |-> "walk", cause |-> cause, todo |-> rest, run |-> r]]
        /\ runs' = [before EXCEPT ![r] =
             [auto |-> p[1], cause |-> cause, state |-> "running", at |-> clock]]
        /\ walks' = [walks EXCEPT ![r] = Again(@)]
        /\ Starts(cause, p[1], p[2])
    BY <2>1
  <2> HIDE DEF rest, r
  <2> QED BY <2>2, <2>4, <2>5 DEF r, GoesOn
<1> QED BY <1>1, <1>2 DEF Proceed

\* Where a task that goes on has its cause and its rows from.
Origin(t, cause, todo) ==
  \/ cause.kind # "event"
  \/ /\ task[t].pc = "new" /\ cause = task[t].cause
     /\ todo = IF cause.event.own THEN {} ELSE Armed
  \/ task[t].pc = "walk" /\ cause = task[t].cause /\ todo = task[t].todo

\* And a tick its time.
Past(t, cause) ==
  cause.kind = "tick" =>
    cause.now = clock \/ (task[t].pc = "walk" /\ cause = task[t].cause)

\* A table of runs with the same ids, automations and causes.
Kept(before) ==
  \A r \in RunIds :
    /\ (before[r] = None) <=> (runs[r] = None)
    /\ runs[r] # None => before[r].auto = runs[r].auto /\ before[r].cause = runs[r].cause

Goes(t, cause, todo, before) ==
  /\ \A p \in todo : p[2] <= Latest(p[1])
  /\ Kept(before)
  /\ Proceed(t, cause, todo, before)
  /\ Origin(t, cause, todo) /\ Past(t, cause)
  /\ UNCHANGED <<rows, revived, stored, clock>>

\* What a step may do to tasks and runs.
LEMMA StepOnTasks ==
  ASSUME DispatchInv, RegistryInv, RegistryAssumption, DispatchAssumption,
         NoneAssumption, [Next]_vars
  PROVE  \/ /\ UNCHANGED <<task, runs, stored, walks>> /\ [RegistryNext]_rows
            /\ revived \subseteq revived'
            /\ clock' \in Nat /\ clock <= clock'
         \/ \E t \in Tasks, e \in Events : Ingest(t, e)
         \/ Restart
         \/ \E t \in Tasks, cause \in Causes, todo \in SUBSET Pairs,
               before \in [RunIds -> Run \cup {None}] : Goes(t, cause, todo, before)
<1> DEFINE Goal ==
      \E t \in Tasks, cause \in Causes, todo \in SUBSET Pairs,
        before \in [RunIds -> Run \cup {None}] : Goes(t, cause, todo, before)
<1>1. CASE UNCHANGED vars \/ Registry \/ Clock
  BY <1>1 DEF vars, dispatch, Registry, Clock, DispatchInv, TypeOK
<1>2. CASE (\E t \in Tasks, e \in Events : Ingest(t, e)) \/ Restart
  BY <1>2
<1>3. Armed \in SUBSET Pairs /\ \A p \in Armed : p[2] <= Latest(p[1])
  BY DEF Armed, Pairs
<1>4. runs \in [RunIds -> Run \cup {None}] /\ clock \in 0..MaxTime
  BY DEF DispatchInv, TypeOK
<1>5. ASSUME NEW t \in Tasks, Tick(t) PROVE Goal
  <2> DEFINE cause == [kind |-> "tick", now |-> clock]
  <2>1. cause \in Causes /\ cause.kind # "event"
    BY <1>4 DEF Causes
  <2>4. Past(t, cause)
    BY DEF Past
  <2>2. Proceed(t, cause, Armed, runs) /\ UNCHANGED <<rows, revived, stored, clock>>
    BY <1>5 DEF Tick
  <2> HIDE DEF cause
  <2>3. Goes(t, cause, Armed, runs)
    BY <1>3, <2>1, <2>2, <2>4 DEF Goes, Origin, Kept
  <2> QED BY <1>3, <1>4, <2>1, <2>3
<1>6. ASSUME NEW t \in Tasks, NEW a \in Autos, NEW k \in ManualKeys, RunNow(t, a, k)
      PROVE  Goal
  <2> DEFINE cause == [kind |-> "manual", key |-> k]
             todo == {<<a, Latest(a)>>}
  <2>1. cause \in Causes /\ cause.kind # "event"
    BY DEF Causes
  <2>2. Latest(a) \in 1..MaxVersions
    BY <1>6 DEF RunNow, DispatchInv, RegistryAssumption
  <2>3. todo \in SUBSET Pairs /\ \A p \in todo : p[2] <= Latest(p[1])
    BY <2>2 DEF Pairs, RegistryAssumption
  <2>6. Past(t, cause)
    BY DEF Past
  <2>4. Proceed(t, cause, todo, runs) /\ UNCHANGED <<rows, revived, stored, clock>>
    BY <1>6 DEF RunNow
  <2> HIDE DEF cause, todo
  <2>5. Goes(t, cause, todo, runs)
    BY <2>1, <2>3, <2>4, <2>6 DEF Goes, Origin, Kept
  <2> QED BY <1>4, <2>1, <2>3, <2>5
<1>7. ASSUME NEW t \in Tasks, DispatchEvent(t) PROVE Goal
  <2> DEFINE cause == task[t].cause
             todo == IF cause.event.own THEN {} ELSE Armed
  <2>1. cause \in Causes /\ task[t].pc = "new"
    BY <1>7 DEF DispatchEvent, DispatchInv, TaskOK
  <2>2. todo \in SUBSET Pairs /\ \A p \in todo : p[2] <= Latest(p[1])
    BY <1>3
  <2>3. Proceed(t, cause, todo, runs) /\ UNCHANGED <<rows, revived, stored, clock>>
    BY <1>7 DEF DispatchEvent
  <2>4. Origin(t, cause, todo) /\ Past(t, cause)
    BY <1>7, <2>1 DEF Origin, Past, DispatchEvent, DispatchInv, TaskOK
  <2> HIDE DEF cause, todo
  <2>5. Goes(t, cause, todo, runs)
    BY <2>2, <2>3, <2>4 DEF Goes, Kept
  <2> QED BY <1>4, <2>1, <2>2, <2>5
<1>8. ASSUME NEW t \in Tasks, Finish(t) PROVE Goal
  <2> DEFINE r == task[t].run
             cause == task[t].cause
             todo == task[t].todo
  <2>1. cause \in Causes /\ r \in RunIds /\ runs[r] # None /\ task[t].pc = "walk"
    BY <1>8 DEF Finish, DispatchInv, TaskOK
  <2>2. todo \in SUBSET Pairs /\ \A p \in todo : p[2] <= Latest(p[1])
    BY DEF DispatchInv, TypeOK, TaskOK, Pairs
  <2>3. PICK o \in Outcome(t) : Proceed(t, cause, todo, [runs EXCEPT ![r].state = o])
    BY <1>8 DEF Finish
  <2>4. o \in Outcomes \cup {"failed"}
    BY <2>3 DEF Outcome
  <2> DEFINE before == [runs EXCEPT ![r].state = o]
             closed == [runs[r] EXCEPT !.state = o]
  <2>5. /\ closed \in Run /\ closed.auto = runs[r].auto /\ closed.cause = runs[r].cause
    BY <1>4, <2>1, <2>4 DEF Run
  <2>6. before = [runs EXCEPT ![r] = closed]
    OBVIOUS
  <2> HIDE DEF closed
  <2>7. before \in [RunIds -> Run \cup {None}]
    BY <1>4, <2>1, <2>5, <2>6
  <2>8. Kept(before)
    BY <1>4, <2>1, <2>5, <2>6, NoneAssumption DEF Kept
  <2>9. Proceed(t, cause, todo, before) /\ UNCHANGED <<rows, revived, stored, clock>>
    BY <1>8, <2>3 DEF Finish
  <2>10. Origin(t, cause, todo) /\ Past(t, cause)
    BY <2>1 DEF Origin, Past
  <2> HIDE DEF before, cause, todo
  <2>11. Goes(t, cause, todo, before)
    BY <2>2, <2>8, <2>9, <2>10 DEF Goes
  <2> QED BY <2>1, <2>2, <2>7, <2>11
<1> QED BY <1>1, <1>2, <1>5, <1>6, <1>7, <1>8 DEF Next, TaskStep
-----------------------------------------------------------------------------
(* Each event, and each of its runs, once.                                  *)

\* An event's dispatch is one task's business.
SoleTask ==
  \A t \in Tasks :
    task[t].pc # "free" /\ task[t].cause.kind = "event" =>
      /\ task[t].cause.event \in stored
      /\ \A u \in Tasks : task[u].pc # "free" /\ task[u].cause = task[t].cause => u = t

\* A run that an event caused is one the event was for.
CausedRight ==
  \A r \in RunIds :
    runs[r] # None /\ runs[r].cause.kind = "event" =>
      LET a == runs[r].auto
          e == runs[r].cause.event
      IN /\ e \in stored
         /\ ~e.own
         /\ r[2] <= Latest(a)
         /\ \E v \in 1..r[2] : EventMatches(rows[a][v].trigger, a, e)

\* It is the only one of its automation, if no superseded version was ever armed.
CausedOnce ==
  \A r, q \in RunIds :
    /\ runs[r] # None /\ runs[r].cause.kind = "event"
    /\ runs[q] # None /\ runs[q].cause = runs[r].cause
    /\ runs[q].auto = runs[r].auto
    => q = r \/ runs[r].auto \in revived

\* No automation of these rows has run for this cause, and each has one row, with the
\* same exception.
Ahead(cause, todo) ==
  todo # {} =>
    /\ ~cause.event.own
    /\ \A p, q \in todo : p[1] = q[1] => p = q \/ p[1] \in revived
    /\ \A p \in todo, r \in RunIds :
         runs[r] # None /\ runs[r].cause = cause =>
           runs[r].auto # p[1] \/ p[1] \in revived

Begun(cause) == \E r \in RunIds : runs[r] # None /\ runs[r].cause = cause

AheadAt(t) ==
  task[t].pc # "free" /\ task[t].cause.kind = "event" =>
    /\ task[t].pc = "new" => ~Begun(task[t].cause)
    /\ task[t].pc = "walk" => Ahead(task[t].cause, task[t].todo)

AllAhead == \A t \in Tasks : AheadAt(t)

\* The armed version is the latest one, with the same exception.
SoleArmed ==
  \A a \in Autos : \A v \in 1..Latest(a) :
    rows[a][v].state = "active" => v = Latest(a) \/ a \in revived

Served == SoleTask /\ CausedRight /\ CausedOnce /\ AllAhead

\* What is ahead of a task that goes on.
LEMMA AheadOfTask ==
  ASSUME DispatchInv, AllAhead, SoleArmed, NEW t \in Tasks, NEW cause, NEW todo,
         cause.kind = "event", Origin(t, cause, todo)
  PROVE  /\ task[t].pc # "free"
         /\ cause = task[t].cause
         /\ Ahead(cause, todo)
<1>1. CASE /\ task[t].pc = "new" /\ cause = task[t].cause
           /\ todo = IF cause.event.own THEN {} ELSE Armed
  <2>1. \A r \in RunIds : runs[r] # None => runs[r].cause # cause
    BY <1>1 DEF AllAhead, AheadAt, Begun
  <2>2. ASSUME NEW p \in Armed, NEW q \in Armed, p[1] = q[1], p[1] \notin revived
        PROVE  p = q
    <3>1. /\ p \in Autos \X (1..MaxVersions) /\ q \in Autos \X (1..MaxVersions)
          /\ p[2] = Latest(p[1]) /\ q[2] = Latest(q[1])
      BY <2>2 DEF Armed, SoleArmed
    <3> QED BY <2>2, <3>1
  <2> QED BY <1>1, <2>1, <2>2 DEF Ahead
<1>2. CASE task[t].pc = "walk" /\ cause = task[t].cause /\ todo = task[t].todo
  BY <1>2 DEF AllAhead, AheadAt
<1> QED BY <1>1, <1>2 DEF Origin

\* Closing a run or freeing a task leaves everything as it was.
LEMMA ServedFreed ==
  ASSUME DispatchInv, Served, NEW t \in Tasks, NEW before \in [RunIds -> Run \cup {None}],
         Kept(before), UNCHANGED <<rows, revived, stored>>,
         runs' = before, task' = [task EXCEPT ![t] = Free]
  PROVE  Served'
<1>1. \A r \in RunIds : /\ runs'[r] # None <=> runs[r] # None
                        /\ runs[r] # None => /\ runs'[r].auto = runs[r].auto
                                             /\ runs'[r].cause = runs[r].cause
  BY DEF Kept
<1>2. \A u \in Tasks : task'[u].pc # "free" => u # t /\ task'[u] = task[u]
  BY DEF DispatchInv, TypeOK, Free
<1>3. SoleTask'
  BY <1>2 DEF Served, SoleTask
<1>4. CausedRight'
  BY <1>1 DEF Served, CausedRight, Latest, EventMatches
<1>5. CausedOnce'
  BY <1>1 DEF Served, CausedOnce
<1>6. AllAhead'
  BY <1>1, <1>2 DEF Served, AllAhead, AheadAt, Begun, Ahead
<1> QED BY <1>3, <1>4, <1>5, <1>6 DEF Served

\* Starting a run for the next of the rows ahead is right, and the only one.
LEMMA ServedStarted ==
  ASSUME DispatchInv, RegistryAssumption, DispatchAssumption, NoneAssumption,
         Served, SoleArmed,
         NEW t \in Tasks, NEW cause \in Causes, NEW todo \in SUBSET Pairs,
         NEW before \in [RunIds -> Run \cup {None}],
         Kept(before), Origin(t, cause, todo), UNCHANGED <<rows, revived, stored>>,
         \A p \in todo : p[2] <= Latest(p[1]),
         NEW p \in todo, NEW rest \in SUBSET (todo \ {p}), NEW r \in RunIds,
         r = RunFor(cause, p[1], p[2]), Starts(cause, p[1], p[2]),
         task' = [task EXCEPT ![t] =
           [pc |-> "walk", cause |-> cause, todo |-> rest, run |-> r]],
         runs' = [before EXCEPT ![r] =
           [auto |-> p[1], cause |-> cause, state |-> "running", at |-> clock]]
  PROVE  Served'
<1>1. /\ runs'[r] # None /\ runs'[r].auto = p[1] /\ runs'[r].cause = cause
      /\ runs[r] = None
  BY NoneAssumption DEF Starts, DispatchInv, TypeOK, Run, Pairs
<1>2. \A q \in RunIds : q # r =>
        /\ runs'[q] # None <=> runs[q] # None
        /\ runs[q] # None => /\ runs'[q].auto = runs[q].auto
                             /\ runs'[q].cause = runs[q].cause
  BY DEF Kept
<1>3. /\ task'[t].pc = "walk" /\ task'[t].cause = cause /\ task'[t].todo = rest
      /\ \A u \in Tasks : u # t => task'[u] = task[u]
  BY DEF DispatchInv, TypeOK
<1>4. ASSUME cause.kind = "event"
      PROVE  /\ task[t].pc # "free" /\ cause = task[t].cause
             /\ Ahead(cause, todo)
             /\ cause.event \in stored
             /\ \A u \in Tasks : task[u].pc # "free" /\ task[u].cause = cause => u = t
  <2>1. /\ task[t].pc # "free" /\ cause = task[t].cause
        /\ Ahead(cause, todo)
    BY <1>4, AheadOfTask DEF Served
  <2> QED BY <1>4, <2>1 DEF Served, SoleTask
<1>5. SoleTask'
  BY <1>3, <1>4 DEF Served, SoleTask
<1>6. CausedRight'
  <2> SUFFICES ASSUME NEW q \in RunIds, runs'[q] # None, runs'[q].cause.kind = "event"
               PROVE  LET a == runs'[q].auto
                          e == runs'[q].cause.event
                      IN /\ e \in stored
                         /\ ~e.own
                         /\ q[2] <= Latest(a)
                         /\ \E v \in 1..q[2] : EventMatches(rows[a][v].trigger, a, e)
    BY DEF CausedRight, Latest, EventMatches
  <2>1. CASE q # r
    BY <1>2, <2>1 DEF Served, CausedRight
  <2>2. CASE q = r
    <3>1. cause.kind = "event" /\ ~cause.event.own /\ cause.event \in stored
      BY <1>1, <1>4, <2>2 DEF Ahead
    <3>2. EventMatches(rows[p[1]][p[2]].trigger, p[1], cause.event)
      BY <3>1 DEF Starts, Accepted, Wanted
    <3>3. /\ r[2] = Latest(p[1]) /\ p[2] \in 1..MaxVersions
          /\ Latest(p[1]) \in 0..MaxVersions /\ p[2] <= Latest(p[1])
      BY DEF RunFor, RunId, Pairs, DispatchInv
    <3>4. p[2] \in 1..r[2] /\ r[2] <= Latest(p[1])
      BY <3>3, RegistryAssumption DEF RegistryAssumption
    <3> QED BY <1>1, <2>2, <3>1, <3>2, <3>4
  <2> QED BY <2>1, <2>2
<1>7. CausedOnce'
  <2>1. ASSUME NEW q \in RunIds, q # r, runs'[q] # None, runs'[q].cause = cause,
               cause.kind = "event"
        PROVE  runs'[q].auto # p[1] \/ p[1] \in revived
    BY <1>2, <1>4, <2>1 DEF Ahead
  <2> QED BY <1>1, <1>2, <2>1 DEF Served, CausedOnce
<1>8. AheadAt(t)'
  <2> SUFFICES ASSUME cause.kind = "event", rest # {}
               PROVE  /\ ~cause.event.own
                      /\ \A x, y \in rest : x[1] = y[1] => x = y \/ x[1] \in revived
                      /\ \A x \in rest, q \in RunIds :
                           runs'[q] # None /\ runs'[q].cause = cause =>
                             runs'[q].auto # x[1] \/ x[1] \in revived
    BY <1>3 DEF AheadAt, Ahead
  <2> QED BY <1>1, <1>2, <1>4 DEF Ahead
<1>9. ASSUME NEW u \in Tasks, u # t PROVE AheadAt(u)'
  <2> SUFFICES ASSUME task[u].pc # "free", task[u].cause.kind = "event" PROVE AheadAt(u)'
    BY <1>3, <1>9 DEF AheadAt
  <2>1. task[u].cause # cause /\ task'[u] = task[u] /\ AheadAt(u)
    BY <1>3, <1>4, <1>9 DEF Served, AllAhead
  <2>2. \A q \in RunIds : runs'[q] # None /\ runs'[q].cause = task[u].cause =>
           /\ runs[q] # None /\ runs[q].cause = task[u].cause
           /\ runs'[q].auto = runs[q].auto
    BY <1>1, <1>2, <2>1
  <2>3. ~Begun(task[u].cause) => (~Begun(task[u].cause))'
    BY <2>1, <2>2 DEF Begun
  <2>4. Ahead(task[u].cause, task[u].todo) => Ahead(task[u].cause, task[u].todo)'
    BY <2>1, <2>2 DEF Ahead
  <2> QED BY <2>1, <2>3, <2>4 DEF AheadAt
<1>10. AllAhead'
  BY <1>8, <1>9 DEF AllAhead
<1> QED BY <1>5, <1>6, <1>7, <1>10 DEF Served

\* So is every other step; an edit changes no version that an event was matched with.
LEMMA ServedStep ==
  ASSUME DispatchInv, RegistryInv, RegistryInv', RegistryAssumption, DispatchAssumption,
         NoneAssumption, Served, SoleArmed, [Next]_vars
  PROVE  Served'
<1>1. CASE /\ UNCHANGED <<task, runs, stored>> /\ [RegistryNext]_rows
           /\ revived \subseteq revived'
  <2>1. SoleTask' /\ CausedOnce' /\ AllAhead'
    BY <1>1 DEF Served, SoleTask, CausedOnce, AllAhead, AheadAt, Begun, Ahead
  <2>2. CASE rows' = rows
    BY <1>1, <2>1, <2>2 DEF Served, CausedRight, Latest, EventMatches
  <2>3. CASE RegistryNext
    <3> SUFFICES ASSUME NEW r \in RunIds, runs[r] # None, runs[r].cause.kind = "event"
                 PROVE  LET a == runs[r].auto
                            e == runs[r].cause.event
                        IN /\ e \in stored
                           /\ ~e.own
                           /\ r[2] <= Len(rows'[a])
                           /\ \E v \in 1..r[2] : EventMatches(rows'[a][v].trigger, a, e)
      BY <1>1, <2>1 DEF Served, CausedRight, Latest, EventMatches
    <3> DEFINE a == runs[r].auto
               e == runs[r].cause.event
    <3>1. a \in Autos /\ r[2] \in 1..MaxVersions /\ MaxVersions \in Nat
      BY DEF DispatchInv, TypeOK, Run, RunIds, RegistryAssumption
    <3>2. e \in stored /\ ~e.own /\ r[2] <= Latest(a)
      BY DEF Served, CausedRight
    <3>3. PICK v \in 1..r[2] : EventMatches(rows[a][v].trigger, a, e)
      BY DEF Served, CausedRight
    <3>4. /\ Latest(a) \in 0..MaxVersions
          /\ v \in 1..Latest(a)
      BY <3>1, <3>2 DEF DispatchInv
    <3>5. /\ rows'[a][v].trigger = rows[a][v].trigger
          /\ Latest(a) <= Len(rows'[a]) /\ Len(rows'[a]) \in Nat
      BY <2>3, <3>1, <3>4, PinnedStep, LenProperties DEF RegistryInv, RegistryTypeOK
    <3> QED BY <3>1, <3>2, <3>3, <3>4, <3>5
  <2> QED BY <1>1, <2>2, <2>3
<1>2. ASSUME NEW t \in Tasks, NEW e \in Events, Ingest(t, e) PROVE Served'
  <2> DEFINE cause == [kind |-> "event", event |-> e]
  <2>1. /\ task'[t].pc = "new" /\ task'[t].cause = cause
        /\ \A u \in Tasks : u # t => task'[u] = task[u]
        /\ stored' = stored \cup {e} /\ e \notin stored
        /\ UNCHANGED <<rows, revived, runs>>
    BY <1>2 DEF Ingest, DispatchInv, TypeOK
  <2>2. cause.kind = "event" /\ cause.event = e
    OBVIOUS
  <2> HIDE DEF cause
  <2>3. \A u \in Tasks : task[u].pc # "free" => task[u].cause # cause
    BY <2>1, <2>2 DEF Served, SoleTask
  <2>4. \A r \in RunIds : runs[r] # None => runs[r].cause # cause
    BY <2>1, <2>2 DEF Served, CausedRight
  <2>5. SoleTask'
    BY <2>1, <2>2, <2>3 DEF Served, SoleTask
  <2>6. CausedRight'
    BY <2>1 DEF Served, CausedRight, Latest, EventMatches
  <2>7. CausedOnce'
    BY <2>1 DEF Served, CausedOnce
  <2>8. AllAhead'
    BY <2>1, <2>2, <2>4 DEF Served, AllAhead, AheadAt, Begun, Ahead
  <2> QED BY <2>5, <2>6, <2>7, <2>8 DEF Served
<1>3. CASE Restart
  BY <1>3 DEF Restart, Free, Served, SoleTask, CausedRight, CausedOnce, AllAhead, AheadAt,
     Latest, EventMatches
<1>4. ASSUME NEW t \in Tasks, NEW cause \in Causes, NEW todo \in SUBSET Pairs,
             NEW before \in [RunIds -> Run \cup {None}], Goes(t, cause, todo, before)
      PROVE  Served'
  <2>1. /\ Proceed(t, cause, todo, before)
        /\ \A p \in todo : p[2] <= Latest(p[1])
        /\ Kept(before) /\ Origin(t, cause, todo) /\ UNCHANGED <<rows, revived, stored>>
    BY <1>4 DEF Goes
  <2>2. GoesOn(t, cause, todo, before)
    BY <2>1, ProceedOnRun
  <2>3. CASE runs' = before /\ task' = [task EXCEPT ![t] = Free]
    BY <2>1, <2>3, ServedFreed
  <2>4. ASSUME NEW p \in todo, NEW rest \in SUBSET (todo \ {p}), NEW r \in RunIds,
               r = RunFor(cause, p[1], p[2]), Starts(cause, p[1], p[2]),
               task' = [task EXCEPT ![t] =
                 [pc |-> "walk", cause |-> cause, todo |-> rest, run |-> r]],
               runs' = [before EXCEPT ![r] =
                 [auto |-> p[1], cause |-> cause, state |-> "running", at |-> clock]]
        PROVE  Served'
    BY <2>1, <2>4, ServedStarted
  <2> QED BY <2>2, <2>3, <2>4 DEF GoesOn
<1> QED BY <1>1, <1>2, <1>3, <1>4, StepOnTasks

\* Arming is watched: whoever has an old version armed has been revived.
LEMMA SoleArmedStep ==
  ASSUME SoleArmed, RegistryTypeOK', [Next]_vars
  PROVE  SoleArmed'
<1>1. CASE Registry
  <2> SUFFICES ASSUME NEW a \in Autos, NEW v \in 1..Len(rows'[a]),
                      rows'[a][v].state = "active", v # Len(rows'[a])
               PROVE  a \in revived'
    BY DEF SoleArmed, Latest
  <2>1. Len(rows'[a]) \in Nat
    BY LenProperties DEF RegistryTypeOK
  <2>2. v \in 1..(Len(rows'[a]) - 1)
    BY <2>1
  <2> QED BY <1>1, <2>2 DEF Registry, Revived, Latest
<1>2. CASE UNCHANGED <<rows, revived>>
  BY <1>2 DEF SoleArmed, Latest
<1>3. Registry \/ UNCHANGED <<rows, revived>>
  BY DEF Next, vars, Ingest, Tick, RunNow, TaskStep, DispatchEvent, Finish, Clock, Restart
<1> QED BY <1>1, <1>2, <1>3

\* An event makes an automation run at most once unless a superseded version of it was
\* armed, and only one it is for.
THEOREM ServedOnce == Spec => []EventsReachTheirOwnOnce
<1>1. Init => Served /\ SoleArmed
  BY EmptySeq DEF Init, Served, SoleTask, CausedRight, CausedOnce, AllAhead, AheadAt, Free,
     SoleArmed, RegistryInit, Latest
<1>2. /\ DispatchInv /\ RegistryInv /\ RegistryInv' /\ SoleArmed
      /\ Served /\ [Next]_vars
      => Served' /\ SoleArmed'
  BY ServedStep, SoleArmedStep, RegistryAssumption, DispatchAssumption, NoneAssumption
     DEF RegistryInv
<1>3. Served => EventsReachTheirOwnOnce
  <2> SUFFICES ASSUME Served, NEW e \in Events, NEW a \in Autos
               PROVE  LET caused == {r \in RunsOf(a) :
                                       runs[r].cause = [kind |-> "event", event |-> e]}
                      IN /\ a \notin revived => Cardinality(caused) <= 1
                         /\ \A r \in caused :
                              /\ ~e.own
                              /\ \E v \in 1..r[2] : EventMatches(rows[a][v].trigger, a, e)
    BY DEF EventsReachTheirOwnOnce
  <2> DEFINE caused == {r \in RunsOf(a) : runs[r].cause = [kind |-> "event", event |-> e]}
  <2>1. \A r \in caused :
          /\ ~e.own
          /\ \E v \in 1..r[2] : EventMatches(rows[a][v].trigger, a, e)
    BY DEF RunsOf, Served, CausedRight
  <2>2. a \notin revived => \A r, q \in caused : q = r
    BY DEF RunsOf, Served, CausedOnce
  <2> HIDE DEF caused
  <2>3. caused = {} => Cardinality(caused) <= 1
    BY FS_EmptySet
  <2>4. ASSUME NEW r \in caused, a \notin revived PROVE Cardinality(caused) <= 1
    <3>1. caused = {r}
      BY <2>2, <2>4
    <3> QED BY <3>1, FS_Singleton
  <2>5. a \notin revived => Cardinality(caused) <= 1
    BY <2>3, <2>4
  <2> QED BY <2>1, <2>5 DEF caused
<1> QED BY <1>1, <1>2, <1>3, DispatchInvariant, DispatchKeepsRegistry, RegistryInvariant,
           PTL DEF Spec
-----------------------------------------------------------------------------
(* The distance between scheduled runs.                                     *)

\* A bounded set of numbers has a greatest one.
LEMMA Greatest ==
  ASSUME NEW n \in Nat, NEW T \in SUBSET (0..n), T # {}
  PROVE  \E x \in T : \A y \in T : y <= x
<1> DEFINE U == {m \in Nat : \E k \in T : m = n - k}
<1>1. U # {}
  <2>1. PICK k \in T : k \in 0..n
    OBVIOUS
  <2>2. n - k \in U
    BY <2>1
  <2> QED BY <2>2
<1>2. PICK u \in U : \A v \in U : ~(<<v, u>> \in OpToRel(<, Nat))
  BY <1>1, NatLessThanWellFounded, WFMin
<1>3. PICK x \in T : u = n - x
  BY <1>2
<1>4. ASSUME NEW y \in T PROVE y <= x
  <2>1. n - y \in U
    OBVIOUS
  <2>2. ~(n - y < n - x)
    BY <1>2, <1>3, <2>1 DEF OpToRel
  <2> QED BY <2>2
<1> QED BY <1>4

\* Minutes follow the clock.
LEMMA MinutesGrow ==
  ASSUME DispatchAssumption, NEW x \in Nat, NEW y \in Nat, x <= y
  PROVE  MinuteOf(x) \in Nat /\ MinuteOf(y) \in Nat /\ MinuteOf(x) <= MinuteOf(y)
<1> DEFINE m == Minute
           i == x \div m
           j == y \div m
<1>1. m \in Nat \ {0}
  BY DEF DispatchAssumption
<1>2. /\ i \in Nat /\ x % m \in 0..(m - 1) /\ x = i * m + (x % m)
      /\ j \in Nat /\ y % m \in 0..(m - 1) /\ y = j * m + (y % m)
  BY <1>1
<1> HIDE DEF m
<1>3. ASSUME i > j PROVE FALSE
  <2>1. i = j + 1 + (i - j - 1) /\ i - j - 1 \in Nat
    BY <1>2, <1>3
  <2>2. PICK d \in Nat : i = j + 1 + d
    BY <2>1
  <2> HIDE DEF i, j
  <2>3. i * m = j * m + m + d * m /\ d * m \in Nat
    BY <1>1, <1>2, <2>2
  <2>4. j * m \in Nat /\ i * m \in Nat
    BY <1>1, <1>2
  <2> QED BY <1>1, <1>2, <2>3, <2>4
<1> QED BY <1>2, <1>3 DEF MinuteOf, m

\* Due looks at the last start, which is the newest.
LEMMA LastIsNewest ==
  ASSUME DispatchInv, DispatchAssumption, NEW a \in Autos, NEW q \in RunsOf(a)
  PROVE  /\ LastStart(a) \in Nat
         /\ runs[q].at \in Nat
         /\ runs[q].at <= LastStart(a)
<1> DEFINE T == {runs[r].at : r \in RunsOf(a)}
<1>1. \A r \in RunsOf(a) : runs[r].at \in 0..MaxTime
  BY DEF RunsOf, DispatchInv, TypeOK, Run
<1>2. T \in SUBSET (0..MaxTime) /\ T # {} /\ MaxTime \in Nat
  BY <1>1 DEF DispatchAssumption
<1>3. \E n \in T : \A y \in T : y <= n
  <2> HIDE DEF T
  <2> QED BY <1>2, Greatest
<1>4. \E n \in T : \A r \in RunsOf(a) : runs[r].at <= n
  BY <1>3
<1>5. /\ LastStart(a) \in T
      /\ \A r \in RunsOf(a) : runs[r].at <= LastStart(a)
  BY <1>4 DEF LastStart
<1> QED BY <1>1, <1>2, <1>5

\* A tick that is at work is over or now.
TicksArePast ==
  \A t \in Tasks :
    task[t].pc = "walk" /\ task[t].cause.kind = "tick" => task[t].cause.now <= clock

\* What a due trigger says of every earlier run, at a time that has passed.
LEMMA DueIsDistant ==
  ASSUME DispatchInv, DispatchAssumption, NEW a \in Autos, NEW trigger \in Triggers,
         NEW now \in Nat, now <= clock, Due(trigger, a, now)
  PROVE  \/ /\ trigger.kind = "interval"
            /\ \A q \in RunsOf(a) : clock - runs[q].at >= trigger.every
         \/ /\ trigger.kind = "cron"
            /\ \A q \in RunsOf(a) : MinuteOf(runs[q].at) < MinuteOf(clock)
<1>1. clock \in Nat
  BY DEF DispatchInv, TypeOK
<1>2. CASE trigger.kind = "interval"
  <2>1. trigger.every \in Nat
    BY <1>2 DEF DispatchAssumption, EventTriggers, IntervalTriggers, CronTriggers,
       ManualTrigger
  <2>2. ASSUME NEW q \in RunsOf(a) PROVE clock - runs[q].at >= trigger.every
    <3>1. now - LastStart(a) >= trigger.every
      BY <1>2, <2>2 DEF Due
    <3> QED BY <1>1, <2>1, <2>2, <3>1, LastIsNewest
  <2> QED BY <1>2, <2>2
<1>3. CASE trigger.kind = "cron"
  <2>1. ASSUME NEW q \in RunsOf(a) PROVE MinuteOf(runs[q].at) < MinuteOf(clock)
    <3>1. MinuteOf(LastStart(a)) < MinuteOf(now)
      BY <1>3, <2>1 DEF Due
    <3>2. /\ runs[q].at \in Nat /\ LastStart(a) \in Nat
          /\ runs[q].at <= LastStart(a)
      BY <2>1, LastIsNewest
    <3>3. /\ MinuteOf(runs[q].at) \in Nat /\ MinuteOf(LastStart(a)) \in Nat
          /\ MinuteOf(runs[q].at) <= MinuteOf(LastStart(a))
      BY <3>2, MinutesGrow
    <3>4. /\ MinuteOf(now) \in Nat /\ MinuteOf(clock) \in Nat
          /\ MinuteOf(now) <= MinuteOf(clock)
      BY <1>1, MinutesGrow
    <3> QED BY <3>1, <3>3, <3>4
  <2> QED BY <1>3, <2>1
<1> QED BY <1>2, <1>3 DEF Due

\* What a started run of a tick was due by.
KeptDistance(r) ==
  walks'[r] # walks[r] /\ runs'[r].cause.kind = "tick" =>
    LET a == runs'[r].auto IN
    \E v \in 1..r[2] :
      LET trigger == rows[a][v].trigger IN
      \/ /\ trigger.kind = "interval"
         /\ \A q \in RunsOf(a) : clock - runs[q].at >= trigger.every
      \/ /\ trigger.kind = "cron"
         /\ \A q \in RunsOf(a) : MinuteOf(runs[q].at) < MinuteOf(clock)

LEMMA TickStarted ==
  ASSUME DispatchInv, RegistryInv, RegistryAssumption, DispatchAssumption, NoneAssumption,
         TicksArePast,
         NEW t \in Tasks, NEW cause \in Causes, NEW todo \in SUBSET Pairs,
         NEW before \in [RunIds -> Run \cup {None}],
         Past(t, cause), \A p \in todo : p[2] <= Latest(p[1]),
         NEW p \in todo, NEW r \in RunIds,
         r = RunFor(cause, p[1], p[2]), Starts(cause, p[1], p[2]),
         walks' = [walks EXCEPT ![r] = Again(@)],
         runs' = [before EXCEPT ![r] =
           [auto |-> p[1], cause |-> cause, state |-> "running", at |-> clock]],
         NEW q \in RunIds
  PROVE  KeptDistance(q)
<1> SUFFICES ASSUME walks'[q] # walks[q], runs'[q].cause.kind = "tick"
             PROVE  KeptDistance(q)
  BY DEF KeptDistance
<1>1. q = r /\ runs'[q].auto = p[1] /\ cause.kind = "tick"
  BY DEF DispatchInv, TypeOK
<1>2. /\ p[1] \in Autos /\ p[2] \in 1..MaxVersions /\ p[2] <= Latest(p[1])
      /\ Latest(p[1]) \in 0..MaxVersions
      /\ r[2] = Latest(p[1])
  BY DEF RunFor, RunId, Pairs, DispatchInv
<1>3. p[2] \in 1..r[2] /\ p[2] \in 1..Latest(p[1])
  BY <1>2, RegistryAssumption DEF RegistryAssumption
<1>4. rows[p[1]][p[2]].trigger \in Triggers
  <2>1. rows[p[1]] \in Seq(Version)
    BY <1>2 DEF RegistryInv, RegistryTypeOK
  <2>2. rows[p[1]][p[2]] \in Version
    BY <1>3, <2>1, ElementOfSeq DEF Latest
  <2> QED BY <2>2 DEF Version
<1>5. cause.now \in Nat /\ cause.now <= clock
  BY <1>1 DEF Past, TicksArePast, Causes, DispatchInv, TypeOK
<1>6. Due(rows[p[1]][p[2]].trigger, p[1], cause.now)
  BY <1>1 DEF Starts, Accepted, Wanted
<1> DEFINE trigger == rows[p[1]][p[2]].trigger
<1>7. \/ /\ trigger.kind = "interval"
         /\ \A x \in RunsOf(p[1]) : clock - runs[x].at >= trigger.every
      \/ /\ trigger.kind = "cron"
         /\ \A x \in RunsOf(p[1]) : MinuteOf(runs[x].at) < MinuteOf(clock)
  <2> HIDE DEF trigger
  <2> QED BY <1>2, <1>4, <1>5, <1>6, DueIsDistant DEF trigger
<1> QED BY <1>1, <1>3, <1>7 DEF KeptDistance

LEMMA ScheduleStep ==
  ASSUME DispatchInv, RegistryInv, RegistryAssumption, DispatchAssumption,
         NoneAssumption, TicksArePast, [Next]_vars
  PROVE  TicksArePast' /\ \A r \in RunIds : KeptDistance(r)
<1>1. CASE /\ UNCHANGED <<task, runs, stored, walks>> /\ [RegistryNext]_rows
           /\ clock' \in Nat /\ clock <= clock'
  <2>1. \A t \in Tasks : task[t].pc = "walk" /\ task[t].cause.kind = "tick" =>
           task[t].cause.now \in Nat
    BY DEF DispatchInv, TaskOK, Causes
  <2> QED BY <1>1, <2>1 DEF TicksArePast, KeptDistance, DispatchInv, TypeOK
<1>2. ASSUME NEW t \in Tasks, NEW e \in Events, Ingest(t, e)
      PROVE  TicksArePast' /\ \A r \in RunIds : KeptDistance(r)
  BY <1>2 DEF Ingest, TicksArePast, KeptDistance, DispatchInv, TypeOK
<1>3. CASE Restart
  BY <1>3 DEF Restart, TicksArePast, KeptDistance, Free
<1>4. ASSUME NEW t \in Tasks, NEW cause \in Causes, NEW todo \in SUBSET Pairs,
             NEW before \in [RunIds -> Run \cup {None}], Goes(t, cause, todo, before)
      PROVE  TicksArePast' /\ \A r \in RunIds : KeptDistance(r)
  <2>1. /\ Proceed(t, cause, todo, before)
        /\ \A p \in todo : p[2] <= Latest(p[1])
        /\ Past(t, cause) /\ UNCHANGED clock
    BY <1>4 DEF Goes
  <2>2. GoesOn(t, cause, todo, before)
    BY <2>1, ProceedOnRun
  <2>3. CASE /\ runs' = before /\ task' = [task EXCEPT ![t] = Free]
             /\ walks' = walks
    BY <2>1, <2>3 DEF TicksArePast, KeptDistance, Free, DispatchInv, TypeOK
  <2>4. ASSUME NEW p \in todo, NEW rest \in SUBSET (todo \ {p}), NEW r \in RunIds,
               r = RunFor(cause, p[1], p[2]), Starts(cause, p[1], p[2]),
               task' = [task EXCEPT ![t] =
                 [pc |-> "walk", cause |-> cause, todo |-> rest, run |-> r]],
               runs' = [before EXCEPT ![r] =
                 [auto |-> p[1], cause |-> cause, state |-> "running", at |-> clock]],
               walks' = [walks EXCEPT ![r] = Again(@)]
        PROVE  TicksArePast' /\ \A q \in RunIds : KeptDistance(q)
    <3>1. \A q \in RunIds : KeptDistance(q)
      BY <2>1, <2>4, TickStarted
    <3>2. cause.kind = "tick" => cause.now <= clock
      BY <2>1 DEF Past, TicksArePast, DispatchInv, TypeOK
    <3>3. TicksArePast'
      BY <2>1, <2>4, <3>2 DEF TicksArePast, DispatchInv, TypeOK
    <3> QED BY <3>1, <3>3
  <2> QED BY <2>2, <2>3, <2>4 DEF GoesOn
<1> QED BY <1>1, <1>2, <1>3, <1>4, StepOnTasks

\* Scheduled runs keep their distance, however long a tick waits for the runs before
\* and however many ticks overlap.
THEOREM SchedulesKeep == Spec => SchedulesAreKept
<1>1. Init => TicksArePast
  BY DEF Init, TicksArePast, Free
<1>2. DispatchInv /\ RegistryInv /\ TicksArePast /\ [Next]_vars => TicksArePast'
  BY ScheduleStep, RegistryAssumption, DispatchAssumption, NoneAssumption
<1>3. Spec => []TicksArePast
  BY <1>1, <1>2, DispatchInvariant, PTL DEF Spec
<1>4. DispatchInv /\ RegistryInv /\ TicksArePast /\ [Next]_vars =>
        [\A r \in RunIds :
           walks'[r] # walks[r] /\ runs'[r].cause.kind = "tick" =>
             LET a == runs'[r].auto IN
             \E v \in 1..r[2] :
               LET trigger == rows[a][v].trigger IN
               \/ /\ trigger.kind = "interval"
                  /\ \A q \in RunsOf(a) : clock - runs[q].at >= trigger.every
               \/ /\ trigger.kind = "cron"
                  /\ \A q \in RunsOf(a) : MinuteOf(runs[q].at) < MinuteOf(clock)]_vars
  BY ScheduleStep, RegistryAssumption, DispatchAssumption, NoneAssumption DEF KeptDistance
<1> QED BY <1>3, <1>4, DispatchInvariant, PTL DEF Spec, SchedulesAreKept
=============================================================================
