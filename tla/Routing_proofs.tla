---------------------------- MODULE Routing_proofs ----------------------------
(***************************************************************************)
(* The routing of connections and the runs of composed automations, for    *)
(* any workspaces, adapters, connections and plans, whatever operators do  *)
(* meanwhile.                                                              *)
(***************************************************************************)
EXTENDS Routing, SequenceTheorems, WellFoundedInduction, TLAPS

\* A connection has asked nothing before it has tools, and then only the backend
\* that its tools are bound to.
Bound ==
  /\ SessionTypeOK
  /\ \A c \in Connections :
       /\ header[c] = None => tools[c] = None
       /\ IF tools[c] = None THEN asked[c] = {} ELSE asked[c] = {tools[c].url}

\* Whatever a connection's headers resolve to is a backend.
LEMMA ResolvedIsTenant ==
  ASSUME NEW h \in Headers
  PROVE  Resolved(h) \subseteq Tenants
<1>1. h \in [url : Urls \cup {None}, ws : Workspaces \cup {None}] /\ Default \in Tenants
  BY SessionAssumption
<1>2. h.url # None => h \in Tenants
  BY <1>1 DEF Tenants
<1>3. Workspace(h) \in Workspaces \cup {None}
  BY <1>1 DEF Workspace, Tenants
<1>4. ASSUME NEW u \in Lookups(Workspace(h)), u # None
      PROVE  [url |-> u, ws |-> Workspace(h)] \in Tenants
  BY <1>3, <1>4 DEF Lookups, Tenants
<1> QED
  BY <1>1, <1>2, <1>4 DEF Resolved

\* A backend has a URL, and is not the absence of one.
LEMMA TenantHasUrl ==
  ASSUME NEW t \in Tenants
  PROVE  t.url \in Urls /\ t # None
BY SessionAssumption DEF Tenants

\* A step of the server keeps the invariant, and a connection's first request goes
\* where its headers say.
LEMMA ServeKeepsBound ==
  ASSUME Bound, SessionNext
  PROVE  /\ Bound'
         /\ \A c \in Connections :
              asked'[c] # asked[c] =>
                /\ asked[c] = {}
                /\ \E t \in Resolved(header[c]) : asked'[c] = {t.url}
<1>1. CASE \E c \in Connections : Connect(c)
  <2>1. PICK c \in Connections : Connect(c)
    BY <1>1
  <2>2. PICK h \in Headers : header' = [header EXCEPT ![c] = h]
    BY <2>1 DEF Connect
  <2>3. UNCHANGED <<tools, asked>> /\ header[c] = None
    BY <2>1 DEF Connect
  <2>4. SessionTypeOK'
    BY <2>2, <2>3 DEF Bound, SessionTypeOK
  <2> QED
    BY <2>2, <2>3, <2>4, SessionAssumption DEF Bound, SessionTypeOK
<1>2. CASE \E c \in Connections : Call(c)
  <2>1. PICK c \in Connections : Call(c)
    BY <1>2
  <2>2. PICK t \in Tools(c) :
          /\ tools' = [tools EXCEPT ![c] = t]
          /\ asked' = [asked EXCEPT ![c] = @ \cup {t.url}]
    BY <2>1 DEF Call
  <2>3. header' = header /\ header[c] \in Headers
    BY <2>1 DEF Call, Bound, SessionTypeOK
  <2>4. t \in Tenants
    BY <2>2, <2>3, ResolvedIsTenant DEF Tools, Bound, SessionTypeOK
  <2>5. t.url \in Urls /\ t # None
    BY <2>4, TenantHasUrl
  <2>6. SessionTypeOK'
    BY <2>2, <2>3, <2>4, <2>5 DEF Bound, SessionTypeOK
  <2>7. CASE tools[c] # None
    <3>1. t = tools[c] /\ asked[c] = {t.url}
      BY <2>2, <2>7 DEF Tools, Bound
    <3>2. tools' = tools /\ asked' = asked
      BY <3>1, <2>2 DEF Bound, SessionTypeOK
    <3> QED
      BY <3>2, <2>3, <2>6 DEF Bound
  <2>8. CASE tools[c] = None
    <3>1. asked[c] = {} /\ t \in Resolved(header[c])
      BY <2>2, <2>8 DEF Tools, Bound
    <3>2. asked'[c] = {t.url} /\ tools'[c] = t
      BY <3>1, <2>2 DEF Bound, SessionTypeOK
    <3>3. \A d \in Connections \ {c} : asked'[d] = asked[d] /\ tools'[d] = tools[d]
      BY <2>2 DEF Bound, SessionTypeOK
    <3> QED
      BY <3>1, <3>2, <3>3, <2>3, <2>5, <2>6, SessionAssumption DEF Bound
  <2> QED
    BY <2>7, <2>8
<1> QED
  BY <1>1, <1>2 DEF SessionNext

\* Where a resolution may lead to.
LEMMA ResolvedByHeader ==
  ASSUME NEW h \in Headers, NEW t \in Resolved(h)
  PROVE  IF h.url # None THEN t.url = h.url
         ELSE \/ t.url = Default.url
              \/ Workspace(h) # None /\ t.url = ActiveUrl(Workspace(h))
BY DEF Resolved, Lookups

\* The invariant and the property together, for a step of the whole system.
LEMMA StepIsBound ==
  ASSUME Bound, [Next]_vars
  PROVE  /\ Bound'
         /\ KeepsBackend
<1>1. CASE Serve
  <2>1. SessionNext
    BY <1>1 DEF Serve
  <2>2. ASSUME NEW c \in Connections, asked'[c] # asked[c]
        PROVE  header[c] \in Headers
    <3>1. header[c] # None
      BY <2>1, <2>2, SessionAssumption DEF SessionNext, Connect, Call, Bound, SessionTypeOK
    <3> QED
      BY <3>1 DEF Bound, SessionTypeOK
  <2> QED
    BY <2>1, <2>2, ServeKeepsBound, ResolvedByHeader DEF KeepsBackend
<1>2. CASE UNCHANGED sessions
  BY <1>2 DEF Bound, SessionTypeOK, sessions, KeepsBackend
<1>3. CASE Operate
  BY <1>2, <1>3 DEF Operate, sessions
<1>4. CASE Compose
  BY <1>2, <1>4 DEF Compose
<1>5. CASE UNCHANGED vars
  BY <1>2, <1>5 DEF vars
<1> QED
  BY <1>1, <1>3, <1>4, <1>5 DEF Next

\* A connection talks to one backend for as long as it lives: the one it named, or
\* the one its workspace was routed to when it called first, or the default
\* (TenantToolsProvider keeps the tools it made).
THEOREM ConnectionsKeepTheirBackend == Spec => OneBackend
<1>1. Init => Bound
  BY DEF Init, SessionInit, Bound, SessionTypeOK
<1>2. Bound /\ [Next]_vars =>
        /\ Bound'
        /\ [KeepsBackend]_sessions
  BY StepIsBound
<1> QED
  BY <1>1, <1>2, PTL DEF Spec, OneBackend
-----------------------------------------------------------------------------
(* The table of adapters.                                                   *)

\* The elements of a sequence.
LEMMA InToSet ==
  ASSUME NEW T, NEW s \in Seq(T), NEW x
  PROVE  x \in ToSet(s) <=> \E i \in 1..Len(s) : s[i] = x
BY LenProperties DEF ToSet

\* What is left when one element is taken out.
LEMMA Without ==
  ASSUME NEW T, NEW s \in Seq(T), NEW i \in 1..Len(s)
  PROVE  /\ RemoveAt(s, i) \in Seq(T)
         /\ \A x : x \in ToSet(RemoveAt(s, i)) => x \in ToSet(s)
         /\ \A x : x \in ToSet(s) => x \in ToSet(RemoveAt(s, i)) \/ x = s[i]
<1> DEFINE l == SubSeq(s, 1, i - 1)
           r == SubSeq(s, i + 1, Len(s))
<1>1. /\ Len(s) \in Nat /\ i \in Nat /\ 1 <= i /\ i <= Len(s)
      /\ \A j \in 1..Len(s) : s[j] \in T
  BY LenProperties, ElementOfSeq
<1>2. /\ l \in Seq(T) /\ Len(l) = i - 1
      /\ \A j \in 1..(i - 1) : l[j] = s[j]
  <2>1. /\ 1 \in 1..(Len(s) + 1) /\ i - 1 \in 0..Len(s)
        /\ (i - 1) - 1 + 1 = i - 1 /\ \A j \in 1..(i - 1) : 1 + j - 1 = j
    BY <1>1
  <2>2. /\ SubSeq(s, 1, i - 1) \in Seq(T)
        /\ Len(SubSeq(s, 1, i - 1)) = IF 1 <= i - 1 THEN (i - 1) - 1 + 1 ELSE 0
        /\ \A j \in 1..((i - 1) - 1 + 1) : SubSeq(s, 1, i - 1)[j] = s[1 + j - 1]
    BY <1>1, <2>1, SubSeqProperties
  <2> QED
    BY <1>1, <2>1, <2>2
<1>3. /\ r \in Seq(T) /\ Len(r) = Len(s) - i
      /\ \A j \in 1..(Len(s) - i) : r[j] = s[i + j]
  <2>1. /\ i + 1 \in 1..(Len(s) + 1) /\ Len(s) \in 0..Len(s)
        /\ Len(s) - (i + 1) + 1 = Len(s) - i
        /\ \A j \in 1..(Len(s) - i) : (i + 1) + j - 1 = i + j
    BY <1>1
  <2>2. /\ SubSeq(s, i + 1, Len(s)) \in Seq(T)
        /\ Len(SubSeq(s, i + 1, Len(s))) =
             IF i + 1 <= Len(s) THEN Len(s) - (i + 1) + 1 ELSE 0
        /\ \A j \in 1..(Len(s) - (i + 1) + 1) :
             SubSeq(s, i + 1, Len(s))[j] = s[(i + 1) + j - 1]
    BY <1>1, <2>1, SubSeqProperties
  <2>3. Len(r) = Len(s) - i
    BY <1>1, <2>2
  <2>4. ASSUME NEW j \in 1..(Len(s) - i) PROVE r[j] = s[i + j]
    <3>1. j \in 1..(Len(s) - (i + 1) + 1) /\ (i + 1) + j - 1 = i + j
      BY <1>1
    <3>2. r[j] = s[(i + 1) + j - 1]
      BY <2>2, <3>1
    <3> QED
      BY <3>1, <3>2
  <2> QED
    BY <2>2, <2>3, <2>4
<1>4. RemoveAt(s, i) = l \o r
  BY DEF RemoveAt
<1> HIDE DEF l, r
<1>5. /\ l \o r \in Seq(T)
      /\ Len(l \o r) = Len(s) - 1
      /\ \A j \in 1..(Len(s) - 1) : (l \o r)[j] = IF j <= i - 1 THEN s[j] ELSE s[j + 1]
  <2>1. /\ l \o r \in Seq(T)
        /\ Len(l \o r) = Len(l) + Len(r)
        /\ \A j \in 1..(Len(l) + Len(r)) :
             (l \o r)[j] = IF j <= Len(l) THEN l[j] ELSE r[j - Len(l)]
    BY <1>2, <1>3, ConcatProperties
  <2>2. ASSUME NEW j \in 1..(Len(s) - 1), ~(j <= i - 1) PROVE r[j - Len(l)] = s[j + 1]
    <3>1. j - (i - 1) \in 1..(Len(s) - i) /\ i + (j - (i - 1)) = j + 1
      BY <1>1, <2>2
    <3> QED
      BY <1>2, <1>3, <3>1
  <2>3. ASSUME NEW j \in 1..(Len(s) - 1), j <= i - 1 PROVE l[j] = s[j]
    BY <1>1, <1>2, <2>3
  <2>4. Len(l) + Len(r) = Len(s) - 1 /\ Len(l) = i - 1
    BY <1>1, <1>2, <1>3
  <2>5. \A j \in 1..(Len(s) - 1) : (l \o r)[j] = IF j <= i - 1 THEN l[j] ELSE r[j - Len(l)]
    BY <2>1, <2>4
  <2> QED
    BY <2>1, <2>2, <2>3, <2>4, <2>5
<1>6. ASSUME NEW x, x \in ToSet(l \o r) PROVE x \in ToSet(s)
  <2>1. PICK j \in 1..(Len(s) - 1) : (l \o r)[j] = x
    BY <1>5, <1>6, InToSet
  <2>2. j \in 1..Len(s) /\ j + 1 \in 1..Len(s)
    BY <1>1, <2>1
  <2>3. x = s[j] \/ x = s[j + 1]
    BY <1>5, <2>1
  <2> QED
    BY <2>2, <2>3, InToSet
<1>7. ASSUME NEW x, x \in ToSet(s), x # s[i] PROVE x \in ToSet(l \o r)
  <2>1. PICK j \in 1..Len(s) : s[j] = x /\ j # i
    BY <1>7, InToSet
  <2>2. CASE j < i
    <3>1. j \in 1..Len(l \o r) /\ (l \o r)[j] = x
      BY <1>1, <1>5, <2>1, <2>2
    <3> QED
      BY <1>5, <3>1, InToSet
  <2>3. CASE i < j
    <3>1. j - 1 \in 1..(Len(s) - 1) /\ ~(j - 1 <= i - 1) /\ (j - 1) + 1 = j
      BY <1>1, <2>1, <2>3
    <3>2. (l \o r)[j - 1] = x
      BY <1>5, <2>1, <3>1
    <3> QED
      BY <1>5, <3>1, <3>2, InToSet
  <2> QED
    BY <1>1, <2>1, <2>2, <2>3
<1> QED
  BY <1>4, <1>5, <1>6, <1>7

\* What is there when one element is put before the others.
LEMMA WithFirst ==
  ASSUME NEW T, NEW s \in Seq(T), NEW k \in T
  PROVE  /\ <<k>> \o s \in Seq(T)
         /\ \A x : x \in ToSet(<<k>> \o s) <=> x = k \/ x \in ToSet(s)
<1>1. <<k>> \in Seq(T) /\ Len(<<k>>) = 1 /\ <<k>>[1] = k /\ Len(s) \in Nat
  BY LenProperties
<1>2. /\ <<k>> \o s \in Seq(T)
      /\ Len(<<k>> \o s) = 1 + Len(s)
      /\ \A j \in 1..(1 + Len(s)) :
           (<<k>> \o s)[j] = IF j <= 1 THEN <<k>>[j] ELSE s[j - 1]
  BY <1>1, ConcatProperties
<1>3. ASSUME NEW x, x \in ToSet(<<k>> \o s) PROVE x = k \/ x \in ToSet(s)
  <2>1. PICK j \in 1..(1 + Len(s)) : (<<k>> \o s)[j] = x
    BY <1>2, <1>3, InToSet
  <2>2. CASE j = 1
    BY <1>1, <1>2, <2>1, <2>2
  <2>3. CASE j # 1
    <3>1. j - 1 \in 1..Len(s) /\ ~(j <= 1)
      BY <1>1, <2>1, <2>3
    <3> QED
      BY <1>2, <2>1, <3>1, InToSet
  <2> QED
    BY <2>2, <2>3
<1>4. k \in ToSet(<<k>> \o s)
  <2>1. 1 \in 1..(1 + Len(s)) /\ (<<k>> \o s)[1] = k
    BY <1>1, <1>2
  <2> QED
    BY <1>2, <2>1, InToSet
<1>5. ASSUME NEW x, x \in ToSet(s) PROVE x \in ToSet(<<k>> \o s)
  <2>1. PICK j \in 1..Len(s) : s[j] = x
    BY <1>5, InToSet
  <2>2. j + 1 \in 1..(1 + Len(s)) /\ ~(j + 1 <= 1) /\ (j + 1) - 1 = j
    BY <1>1, <2>1
  <2>3. (<<k>> \o s)[j + 1] = x
    BY <1>2, <2>1, <2>2
  <2> QED
    BY <1>2, <2>2, <2>3, InToSet
<1> QED
  BY <1>2, <1>3, <1>4, <1>5

\* Rows of the table keep their place, or come first.
LEMMA TouchKeepsTable ==
  ASSUME TableTypeOK, NEW k \in Keys, Touch(k)
  PROVE  /\ written' \in Seq(Keys)
         /\ ToSet(written') = ToSet(written) \cup {k}
<1>1. written \in Seq(Keys)
  BY DEF TableTypeOK
<1>2. /\ Others(k) \in Seq(Keys)
      /\ \A x : x \in ToSet(Others(k)) => x \in ToSet(written)
      /\ \A x : x \in ToSet(written) => x \in ToSet(Others(k)) \/ x = k
  <2>1. CASE k \notin Registered
    BY <1>1, <2>1 DEF Others
  <2>2. CASE k \in Registered
    <3> DEFINE i == CHOOSE i \in DOMAIN written : written[i] = k
    <3>1. i \in 1..Len(written) /\ written[i] = k
      BY <1>1, <2>2, InToSet, LenProperties DEF Registered
    <3>2. Others(k) = RemoveAt(written, i)
      BY <2>2 DEF Others
    <3> HIDE DEF i
    <3> QED
      BY <1>1, <3>1, <3>2, Without
  <2> QED
    BY <2>1, <2>2
<1>3. /\ written' \in Seq(Keys)
      /\ \A x : x \in ToSet(written') <=> x = k \/ x \in ToSet(Others(k))
  BY <1>2, WithFirst DEF Touch
<1> QED
  BY <1>2, <1>3

\* The table stays well formed: the rows that were written are those with a URL.
LEMMA TableStaysTyped ==
  ASSUME TableTypeOK, TableNext, TableAssumption
  PROVE  TableTypeOK'
<1>1. ASSUME NEW p \in Places, RegisterAdapter(p[1], p[2]) PROVE TableTypeOK'
  <2>1. p[1] \in Keys /\ p[2] \in Urls /\ p[2] # None
    BY DEF TableAssumption
  <2>2. /\ written' \in Seq(Keys)
        /\ ToSet(written') = ToSet(written) \cup {p[1]}
    BY <1>1, <2>1, TouchKeepsTable DEF RegisterAdapter
  <2> QED
    BY <1>1, <2>1, <2>2 DEF RegisterAdapter, TableTypeOK
<1>2. ASSUME NEW k \in Keys, Activate(k) \/ Enable(k) \/ Disable(k) PROVE TableTypeOK'
  <2>1. k \in ToSet(written) /\ Touch(k) /\ url' = url /\ enabled' \subseteq Keys
    BY <1>2 DEF Activate, Enable, Disable, Registered, TableTypeOK
  <2>2. /\ written' \in Seq(Keys)
        /\ ToSet(written') = ToSet(written) \cup {k}
    BY <2>1, TouchKeepsTable
  <2> QED
    BY <2>1, <2>2 DEF TableTypeOK
<1> QED
  BY <1>1, <1>2 DEF TableNext

\* Of rows that were written, the one written last is one of them.
LEMMA FirstIsOne ==
  ASSUME TableTypeOK, NEW S, S \subseteq Registered, S # {}
  PROVE  First(S) \in S
<1> DEFINE At == {i \in DOMAIN written : written[i] \in S}
<1>1. At \subseteq Nat /\ At # {}
  BY LenProperties DEF TableTypeOK, Registered, ToSet
<1>2. PICK m \in At : \A i \in At : ~(<<i, m>> \in OpToRel(<, Nat))
  BY <1>1, NatLessThanWellFounded, WFMin
<1>3. ASSUME NEW i \in At PROVE m <= i
  <2>1. i \in Nat /\ m \in Nat /\ ~(i < m)
    BY <1>1, <1>2 DEF OpToRel
  <2> QED
    BY <2>1
<1>4. Min(At) \in At
  <2> HIDE DEF At
  <2> QED BY <1>3 DEF Min
<1> QED
  BY <1>4 DEF First

\* What a role stands for has a URL or is not there.
LEMMA WhereIsUrl ==
  ASSUME TableTypeOK, TableAssumption, NEW r \in Roles
  PROVE  Where(r) \in Urls \cup {None}
<1>1. ASSUME NEW ws \in Workspaces PROVE ActiveUrl(ws) \in Urls \cup {None}
  <2> DEFINE on == Rows(ws) \cap enabled
  <2>1. on \subseteq Registered /\ Registered \subseteq Keys
    BY DEF Rows, Registered, TableTypeOK
  <2>2. CASE on # {}
    <3>1. First(on) \in Keys
      <4> HIDE DEF on
      <4> QED BY <2>1, <2>2, FirstIsOne
    <3> QED
      BY <2>2, <3>1 DEF ActiveUrl, TableTypeOK
  <2> QED
    BY <2>2 DEF ActiveUrl
<1>2. CASE r[2] = TheActive
  BY <1>1, <1>2 DEF Where, Roles
<1>3. CASE r[2] # TheActive
  <2>1. r \in Keys
    BY <1>3 DEF Roles, Keys
  <2> QED
    BY <1>3, <2>1 DEF Where, TableTypeOK
<1> QED
  BY <1>2, <1>3
-----------------------------------------------------------------------------
(* What the walks of composed automations rest on.  It speaks of adapters   *)
(* through three functions, so that one lemma covers every step: S is since,*)
(* W where roles lead, and O what the backends offer.                       *)

Reach == [r \in Roles |-> Where(r)]

\* Unless its adapter has changed, a role leads to a backend with these verbs.
Serves(verbs, r, S, W, O) ==
  /\ S[r] # "unasked"
  /\ S[r] = "asked" => W[r] \in Urls /\ verbs \subseteq O[W[r]]

Role(s) == <<s.ws, s.adapter>>

Fits(p, S, W, O) ==
  \A i \in DOMAIN p.stages :
    p.stages[i].verbs # {} =>
      /\ p.stages[i].ws = p.ws
      /\ Serves(p.stages[i].verbs, Role(p.stages[i]), S, W, O)

Admitted(p, S, W, O) ==
  /\ p \in ComposedPlans
  /\ HandoffsAreDeclared(p)
  /\ Fits(p, S, W, O)

\* What a request was told still holds of adapters that have not changed.
Told(q, S, W, O) ==
  /\ q = [draft |-> q.draft, offers |-> q.offers]
  /\ q.draft \in Drafts \cup {None}
  /\ \A b \in DOMAIN q.offers : b \in Adapters \cup {TheActive}
  /\ q.draft # None =>
       \A b \in DOMAIN q.offers :
         /\ Serves({}, <<q.draft.plan.ws, b>>, S, W, O)
         /\ S[<<q.draft.plan.ws, b>>] = "asked" =>
              q.offers[b] = O[W[<<q.draft.plan.ws, b>>]]

Walked == [completed : BOOLEAN, fields : SUBSET Fields]

\* The stages before the current one have completed, and what is handed to it is
\* what they have left; it is walked where its adapter leads.
Walks(r, S, W) ==
  LET s == StageOf(r) IN
  /\ r.handed = [k \in DOMAIN s.from |-> Handoff(r, s.from[k])]
  /\ s.verbs # {} /\ S[Role(s)] = "asked" => r.at = W[Role(s)]

IsRun(r) ==
  /\ r = [plan |-> r.plan, trace |-> r.trace, handed |-> r.handed, at |-> r.at,
          state |-> r.state]
  /\ r.trace \in Seq(Walked)
  /\ r.at \in Urls \cup {None}
  /\ r.plan \in ComposedPlans \cup {None}
  /\ r.state \in {"none", "between", "walking", "completed", "blocked", "failed"}

Underway(r, S, W, O) ==
  /\ IsRun(r)
  /\ r.state # "none" => Admitted(r.plan, S, W, O)
  /\ r.state \in {"between", "walking"} =>
       /\ Len(r.trace) < Len(r.plan.stages)
       /\ \A j \in 1..Len(r.trace) : r.trace[j].completed
  /\ r.state = "walking" => Walks(r, S, W)

\* How adapters may drift in a step: those that are still as they were asked lead
\* where they led, to the same offer.
Drifts(S, W, O, S2, W2, O2) ==
  \A r \in Roles :
    S[r] # "unasked" =>
      /\ S2[r] # "unasked"
      /\ S2[r] = "asked" =>
           /\ S[r] = "asked"
           /\ W[r] \in Urls => W2[r] = W[r] /\ O2[W[r]] = O[W[r]]

RowsFit(S, W, O) ==
  \A a \in Autos : \A v \in 1..Latest(a) : Admitted(rows[a][v].plan, S, W, O)

\* The inductive invariant.
RoutingInv ==
  /\ TableTypeOK /\ RegistryTypeOK
  /\ offer \in [Urls -> (UNION {Offers[u] : u \in Urls}) \cup {None}]
  /\ redeploys \in 0..MaxRedeploys
  /\ since \in [Roles -> {"unasked", "asked", "changed"}]
  /\ run = [f \in Fires |-> run[f]]
  /\ Told(request, since, Reach, offer)
  /\ RowsFit(since, Reach, offer)
  /\ \A f \in Fires : Underway(run[f], since, Reach, offer)

\* The stages of a plan name roles.
LEMMA StagesHaveRoles ==
  ASSUME ComposedAssumption, NEW p \in ComposedPlans, NEW i \in DOMAIN p.stages
  PROVE  /\ Role(p.stages[i]) \in Roles
         /\ IsStage(p.stages[i])
BY DEF ComposedAssumption, IsStage, Role, Roles

\* Where a stage could be served it still can, while adapters drift.
LEMMA ServesWhileDrifting ==
  ASSUME NEW S, NEW W, NEW O, NEW S2, NEW W2, NEW O2, Drifts(S, W, O, S2, W2, O2),
         NEW r \in Roles, NEW verbs, Serves(verbs, r, S, W, O)
  PROVE  Serves(verbs, r, S2, W2, O2)
BY DEF Drifts, Serves

\* Admitted plans stay admitted.
LEMMA AdmittedWhileDrifting ==
  ASSUME ComposedAssumption,
         NEW S, NEW W, NEW O, NEW S2, NEW W2, NEW O2, Drifts(S, W, O, S2, W2, O2),
         NEW p, Admitted(p, S, W, O)
  PROVE  Admitted(p, S2, W2, O2)
<1>1. ASSUME NEW i \in DOMAIN p.stages, p.stages[i].verbs # {}
      PROVE  Serves(p.stages[i].verbs, Role(p.stages[i]), S2, W2, O2)
  <2>1. Role(p.stages[i]) \in Roles
    BY StagesHaveRoles DEF Admitted
  <2>2. Serves(p.stages[i].verbs, Role(p.stages[i]), S, W, O)
    BY <1>1 DEF Admitted, Fits
  <2> QED
    BY <2>1, <2>2, ServesWhileDrifting
<1> QED
  BY <1>1 DEF Admitted, Fits

\* Answers stay true.
LEMMA ToldWhileDrifting ==
  ASSUME ComposedAssumption,
         NEW S, NEW W, NEW O, NEW S2, NEW W2, NEW O2, Drifts(S, W, O, S2, W2, O2),
         NEW q, Told(q, S, W, O)
  PROVE  Told(q, S2, W2, O2)
<1> SUFFICES ASSUME q.draft # None, NEW b \in DOMAIN q.offers
             PROVE  /\ Serves({}, <<q.draft.plan.ws, b>>, S2, W2, O2)
                    /\ S2[<<q.draft.plan.ws, b>>] = "asked" =>
                         q.offers[b] = O2[W2[<<q.draft.plan.ws, b>>]]
  BY DEF Told
<1>1. <<q.draft.plan.ws, b>> \in Roles
  BY DEF Told, ComposedAssumption, Roles
<1>2. /\ Serves({}, <<q.draft.plan.ws, b>>, S, W, O)
      /\ S[<<q.draft.plan.ws, b>>] = "asked" =>
           q.offers[b] = O[W[<<q.draft.plan.ws, b>>]]
  BY DEF Told
<1>3. Serves({}, <<q.draft.plan.ws, b>>, S2, W2, O2)
  BY <1>1, <1>2, ServesWhileDrifting
<1> QED
  BY <1>1, <1>2, <1>3 DEF Drifts, Serves

\* The stage that a run has come to is one of its plan.
LEMMA StageOfIsStage ==
  ASSUME ComposedAssumption, NEW r, IsRun(r), r.plan \in ComposedPlans,
         Len(r.trace) < Len(r.plan.stages)
  PROVE  /\ Len(r.trace) \in Nat
         /\ Len(r.trace) + 1 \in DOMAIN r.plan.stages
         /\ DOMAIN r.plan.stages = 1..Len(r.plan.stages)
         /\ Len(r.plan.stages) \in Nat
         /\ StageOf(r) = r.plan.stages[Len(r.trace) + 1]
<1>1. r.plan.stages \in Seq(ToSet(r.plan.stages)) /\ r.trace \in Seq(Walked)
  BY DEF ComposedAssumption, IsRun
<1> QED
  BY <1>1, LenProperties DEF StageOf

\* Runs that are not touched go on while adapters drift.
LEMMA UnderwayWhileDrifting ==
  ASSUME ComposedAssumption,
         NEW S, NEW W, NEW O, NEW S2, NEW W2, NEW O2, Drifts(S, W, O, S2, W2, O2),
         NEW r, Underway(r, S, W, O)
  PROVE  Underway(r, S2, W2, O2)
<1>1. r.state # "none" => Admitted(r.plan, S2, W2, O2)
  BY AdmittedWhileDrifting DEF Underway
<1>2. ASSUME r.state = "walking" PROVE Walks(r, S2, W2)
  <2> DEFINE s == StageOf(r)
  <2>1. /\ Admitted(r.plan, S, W, O) /\ Walks(r, S, W) /\ IsRun(r)
        /\ Len(r.trace) < Len(r.plan.stages)
    BY <1>2 DEF Underway
  <2>2. r.plan \in ComposedPlans
    BY <2>1 DEF Admitted
  <2>3. s = r.plan.stages[Len(r.trace) + 1] /\ Len(r.trace) + 1 \in DOMAIN r.plan.stages
    BY <2>1, <2>2, StageOfIsStage
  <2>4. Role(s) \in Roles
    BY <2>2, <2>3, StagesHaveRoles
  <2>5. s.verbs # {} => Serves(s.verbs, Role(s), S, W, O)
    BY <2>1, <2>3 DEF Admitted, Fits
  <2> HIDE DEF s
  <2>6. s.verbs # {} /\ S2[Role(s)] = "asked" =>
          S[Role(s)] = "asked" /\ W2[Role(s)] = W[Role(s)]
    BY <2>4, <2>5 DEF Drifts, Serves
  <2>7. s.verbs # {} /\ S[Role(s)] = "asked" => r.at = W[Role(s)]
    BY <2>1 DEF Walks, s
  <2>8. r.handed = [k \in DOMAIN s.from |-> Handoff(r, s.from[k])]
    BY <2>1 DEF Walks, s
  <2>9. s.verbs # {} /\ S2[Role(s)] = "asked" => r.at = W2[Role(s)]
    BY <2>6, <2>7
  <2> QED
    BY <2>8, <2>9 DEF Walks, s
<1> QED
  BY <1>1, <1>2 DEF Underway
-----------------------------------------------------------------------------
(* How each step lets adapters drift.                                       *)

\* While the table is left alone, so is where roles lead.
LEMMA ReachWithTable ==
  ASSUME UNCHANGED table
  PROVE  Reach' = Reach
<1>1. \A r \in Roles : Where(r)' = Where(r)
  BY DEF table, Where, ActiveUrl, Rows, Registered, First
<1> QED
  BY <1>1 DEF Reach

\* An adapter that has been asked is marked when it changes.
LEMMA ChangedMarks ==
  ASSUME RoutingInv, NEW R, since' = Changed(R), NEW r \in Roles, since[r] # "unasked"
  PROVE  /\ since'[r] # "unasked"
         /\ since'[r] = "asked" => since[r] = "asked" /\ r \notin R
BY DEF Changed, RoutingInv

\* Changed keeps the type of the marks.
LEMMA ChangedTyped ==
  ASSUME RoutingInv, NEW R, since' = Changed(R)
  PROVE  since' \in [Roles -> {"unasked", "asked", "changed"}]
BY DEF Changed, RoutingInv

\* Operators move adapters.
LEMMA OperateDrifts ==
  ASSUME RoutingInv, Moved, UNCHANGED offer
  PROVE  Drifts(since, Reach, offer, since', Reach', offer')
<1>1. Reach = [r \in Roles |-> Where(r)] /\ Reach' = [r \in Roles |-> Where(r)']
  BY DEF Reach
<1>2. ASSUME NEW r \in Roles, since[r] # "unasked"
      PROVE  /\ since'[r] # "unasked"
             /\ since'[r] = "asked" => since[r] = "asked" /\ Where(r)' = Where(r)
  BY <1>2, ChangedMarks DEF Moved
<1> QED
  BY <1>1, <1>2 DEF Drifts

\* A backend is deployed anew.
LEMMA RedeployDrifts ==
  ASSUME RoutingInv, NEW u \in Urls, Redeploy(u)
  PROVE  /\ Drifts(since, Reach, offer, since', Reach', offer')
         /\ since' \in [Roles -> {"unasked", "asked", "changed"}]
         /\ offer' \in [Urls -> (UNION {Offers[v] : v \in Urls}) \cup {None}]
         /\ redeploys' \in 0..MaxRedeploys
<1>1. Reach' = Reach /\ Reach = [r \in Roles |-> Where(r)]
  BY ReachWithTable DEF Redeploy, Reach
<1>2. PICK o \in Offers[u] \cup {None} : offer' = [offer EXCEPT ![u] = o]
  BY DEF Redeploy
<1>3. since' = Changed({r \in Roles : Where(r) = u})
  BY DEF Redeploy
<1>4. ASSUME NEW r \in Roles, since[r] # "unasked"
      PROVE  /\ since'[r] # "unasked"
             /\ since'[r] = "asked" => since[r] = "asked" /\ Where(r) # u
  BY <1>3, <1>4, ChangedMarks
<1>5. \A v \in Urls : v # u => offer'[v] = offer[v]
  BY <1>2 DEF RoutingInv
<1>6. Drifts(since, Reach, offer, since', Reach', offer')
  BY <1>1, <1>4, <1>5 DEF Drifts
<1>7. redeploys' \in 0..MaxRedeploys
  BY ComposedAssumption DEF Redeploy, RoutingInv, ComposedAssumption
<1>8. offer' \in [Urls -> (UNION {Offers[v] : v \in Urls}) \cup {None}]
  <2> DEFINE Z == {Offers[v] : v \in Urls}
             T == (UNION Z) \cup {None}
  <2>1. offer \in [Urls -> T]
    BY DEF RoutingInv
  <2>2. Offers[u] \in Z
    OBVIOUS
  <2> HIDE DEF Z
  <2>3. o \in T
    BY <1>2, <2>2
  <2> HIDE DEF T
  <2>4. offer' \in [Urls -> T]
    BY <1>2, <2>1, <2>3
  <2> QED
    BY <2>4 DEF T, Z
<1>9. since' \in [Roles -> {"unasked", "asked", "changed"}]
  BY <1>3, ChangedTyped
<1> QED
  BY <1>6, <1>7, <1>8, <1>9

\* An adapter is asked for the first time, or once more.
LEMMA AskDrifts ==
  ASSUME RoutingInv, NEW a \in Adapters \cup {TheActive}, Ask(a)
  PROVE  /\ Drifts(since, Reach, offer, since', Reach', offer')
         /\ since' \in [Roles -> {"unasked", "asked", "changed"}]
<1> DEFINE role == <<request.draft.plan.ws, a>>
<1>1. role \in Roles
  BY ComposedAssumption DEF Ask, RoutingInv, Told, ComposedAssumption, Roles
<1>2. Reach' = Reach /\ offer' = offer
  BY ReachWithTable DEF Ask
<1>3. \/ since' = since
      \/ since' = [since EXCEPT ![role] = "asked"] /\ since[role] # "changed"
  <2>1. since' = [since EXCEPT ![role] =
                   IF Skeleton(role) = None \/ since[role] = "changed"
                   THEN since[role] ELSE "asked"]
    BY DEF Ask
  <2> QED
    BY <1>1, <2>1 DEF RoutingInv
<1> HIDE DEF role
<1> QED
  BY <1>1, <1>2, <1>3 DEF Drifts, RoutingInv

\* Nothing that matters happens.
LEMMA NothingDrifts ==
  ASSUME UNCHANGED <<since, offer>>, Reach' = Reach
  PROVE  Drifts(since, Reach, offer, since', Reach', offer')
BY DEF Drifts
-----------------------------------------------------------------------------
(* The inductive step.                                                      *)

\* A registration leaves the plans that were registered and may add one.
LEMMA RegisterKeepsPlans ==
  ASSUME RegistryTypeOK, RegistryAssumption, NEW d \in Drafts, Register(d)
  PROVE  /\ RegistryTypeOK'
         /\ \A a \in Autos : \A v \in 1..Len(rows'[a]) :
              \/ rows'[a][v].plan = d.plan
              \/ \E u \in 1..Latest(a) : rows'[a][v].plan = rows[a][u].plan
<1> DEFINE b == d.auto
           n == Latest(b)
           new == Append(Supersede(rows[b]), NewVersion(d))
<1>1. b \in Autos /\ NewVersion(d) \in Version
  BY RegistryAssumption DEF RegistryAssumption, Draft, NewVersion, Version, States
<1>2. /\ rows[b] \in Seq(Version)
      /\ n \in Nat
      /\ \A v \in 1..n : rows[b][v] \in Version
  BY <1>1, LenProperties, ElementOfSeq DEF RegistryTypeOK, Latest
<1>3. ASSUME NEW v \in 1..n
      PROVE  /\ Archived(rows[b][v], n + 1) \in Version
             /\ Archived(rows[b][v], n + 1).plan = rows[b][v].plan
  <2>1. rows[b][v] \in Version /\ n + 1 \in Nat
    BY <1>2
  <2> QED
    BY <2>1 DEF Archived, Version, States
<1>4. /\ Supersede(rows[b]) \in [1..n -> Version]
      /\ \A v \in 1..n : Supersede(rows[b])[v].plan = rows[b][v].plan
  BY <1>2, <1>3 DEF Supersede, Latest
<1>5. Supersede(rows[b]) \in Seq(Version) /\ Len(Supersede(rows[b])) = n
  <2>1. Supersede(rows[b]) \in Seq(Version)
    BY <1>2, <1>4, SeqDef
  <2> QED
    BY <1>2, <1>4, <2>1, LenProperties
<1>6. /\ new \in Seq(Version)
      /\ Len(new) = n + 1
      /\ \A v \in 1..n : new[v].plan = rows[b][v].plan
      /\ new[n + 1].plan = d.plan
  <2>1. /\ new \in Seq(Version)
        /\ Len(new) = n + 1
        /\ \A v \in 1..n : new[v] = Supersede(rows[b])[v]
        /\ new[n + 1] = NewVersion(d)
    BY <1>1, <1>5, AppendProperties
  <2>2. NewVersion(d).plan = d.plan
    BY DEF NewVersion
  <2> HIDE DEF new
  <2> QED
    BY <1>4, <2>1, <2>2
<1>7. \/ rows' = rows
      \/ rows' = [rows EXCEPT ![b] = new]
  BY DEF Register
<1> HIDE DEF new
<1>8. CASE rows' = rows
  BY <1>8 DEF RegistryTypeOK, Latest
<1>9. CASE rows' = [rows EXCEPT ![b] = new]
  <2>1. RegistryTypeOK'
    BY <1>1, <1>6, <1>9 DEF RegistryTypeOK
  <2>2. ASSUME NEW a \in Autos, NEW v \in 1..Len(rows'[a])
        PROVE  \/ rows'[a][v].plan = d.plan
               \/ \E u \in 1..Latest(a) : rows'[a][v].plan = rows[a][u].plan
    <3>1. CASE a = b
      <4>1. rows'[a] = new /\ v \in 1..(n + 1) /\ Latest(a) = n
        BY <1>1, <1>6, <1>9, <3>1 DEF RegistryTypeOK
      <4>2. v = n + 1 \/ v \in 1..n
        BY <1>2, <4>1
      <4> QED
        BY <1>6, <3>1, <4>1, <4>2
    <3>2. CASE a # b
      BY <1>9, <3>2 DEF RegistryTypeOK, Latest
    <3> QED
      BY <3>1, <3>2
  <2> QED
    BY <2>1, <2>2
<1> QED
  BY <1>7, <1>8, <1>9

\* Arming and disarming change no plan.
LEMMA SetStateKeepsPlans ==
  ASSUME RegistryTypeOK, RegistryAssumption, NEW b \in Autos, NEW m \in Moves,
         NEW w \in 1..Latest(b), SetState(b, w, m)
  PROVE  /\ RegistryTypeOK'
         /\ \A a \in Autos : \A v \in 1..Len(rows'[a]) :
              \E u \in 1..Latest(a) : rows'[a][v].plan = rows[a][u].plan
<1> DEFINE moved == [rows[b][w] EXCEPT !.state = m]
           new == [rows[b] EXCEPT ![w] = moved]
<1>1. rows[b] \in Seq(Version) /\ w \in 1..Len(rows[b])
  BY DEF RegistryTypeOK, Latest
<1>2. rows[b][w] \in Version
  BY <1>1, ElementOfSeq
<1>3. moved \in Version /\ moved.plan = rows[b][w].plan
  BY <1>2, RegistryAssumption DEF Version, RegistryAssumption
<1> HIDE DEF moved
<1>4. /\ new \in Seq(Version)
      /\ Len(new) = Len(rows[b])
      /\ \A v \in 1..Len(rows[b]) : new[v] = IF v = w THEN moved ELSE rows[b][v]
  BY <1>1, <1>3, ExceptSeq
<1>5. rows' = [rows EXCEPT ![b] = new]
  BY DEF SetState, moved
<1> HIDE DEF new
<1>6. RegistryTypeOK'
  BY <1>4, <1>5 DEF RegistryTypeOK
<1>7. ASSUME NEW a \in Autos, NEW v \in 1..Len(rows'[a])
      PROVE  v \in 1..Latest(a) /\ rows'[a][v].plan = rows[a][v].plan
  <2>1. rows'[a] = IF a = b THEN new ELSE rows[a]
    BY <1>5 DEF RegistryTypeOK
  <2> QED
    BY <1>3, <1>4, <1>7, <2>1 DEF Latest
<1> QED
  BY <1>6, <1>7

\* A plan that is found valid by what a request was told is admitted.
LEMMA ValidIsAdmitted ==
  ASSUME ComposedAssumption, NEW S, NEW W, NEW O, NEW q, Told(q, S, W, O),
         q.draft # None, DOMAIN q.offers = AdaptersOf(q.draft.plan),
         Valid(q.draft.plan, q.offers)
  PROVE  Admitted(q.draft.plan, S, W, O)
<1> DEFINE p == q.draft.plan
<1>1. p \in ComposedPlans /\ HandoffsAreDeclared(p)
  BY DEF Told, ComposedAssumption, Valid
<1>2. ASSUME NEW i \in DOMAIN p.stages, p.stages[i].verbs # {}
      PROVE  /\ p.stages[i].ws = p.ws
             /\ Serves(p.stages[i].verbs, Role(p.stages[i]), S, W, O)
  <2> DEFINE s == p.stages[i]
  <2>1. s \in Stages(p)
    BY DEF Stages, ToSet
  <2>2. s.ws = p.ws /\ s.verbs \subseteq q.offers[s.adapter]
    BY <1>2, <2>1 DEF Valid, StageIsValid
  <2>3. s.adapter \in DOMAIN q.offers
    BY <2>1 DEF AdaptersOf
  <2>4. /\ Serves({}, <<p.ws, s.adapter>>, S, W, O)
        /\ S[<<p.ws, s.adapter>>] = "asked" => q.offers[s.adapter] = O[W[<<p.ws, s.adapter>>]]
    BY <2>3 DEF Told
  <2>5. Role(s) = <<p.ws, s.adapter>>
    BY <2>2 DEF Role
  <2> QED
    BY <2>2, <2>4, <2>5 DEF Serves
<1> QED
  BY <1>1, <1>2 DEF Admitted, Fits

\* The assignments to the fields of a run.
Begun(q, p, x) == [q EXCEPT !.plan = p, !.state = x]
Ended(q, t, x) == [q EXCEPT !.trace = t, !.state = x]
Started(q, x, u, h) == [q EXCEPT !.state = x, !.at = u, !.handed = h]

\* What they make of it: of a state alone,
LEMMA StateExcept ==
  ASSUME NEW q, NEW x,
         q = [plan |-> q.plan, trace |-> q.trace, handed |-> q.handed, at |-> q.at,
              state |-> q.state]
  PROVE  [q EXCEPT !.state = x] =
           [plan |-> q.plan, trace |-> q.trace, handed |-> q.handed, at |-> q.at,
            state |-> x]
OBVIOUS

\* of a run that begins,
LEMMA BegunIs ==
  ASSUME NEW q, NEW p, NEW x,
         q = [plan |-> q.plan, trace |-> q.trace, handed |-> q.handed, at |-> q.at,
              state |-> q.state]
  PROVE  Begun(q, p, x) =
           [plan |-> p, trace |-> q.trace, handed |-> q.handed, at |-> q.at,
            state |-> x]
<1> DEFINE m == [q EXCEPT !.plan = p]
<1>1. m = [plan |-> p, trace |-> q.trace, handed |-> q.handed, at |-> q.at,
           state |-> q.state]
  OBVIOUS
<1>2. [m EXCEPT !.state = x] =
        [plan |-> p, trace |-> q.trace, handed |-> q.handed, at |-> q.at, state |-> x]
  <2> HIDE DEF m
  <2> QED BY <1>1
<1> QED BY <1>2 DEF Begun

\* of one whose stage ends,
LEMMA EndedIs ==
  ASSUME NEW q, NEW t, NEW x,
         q = [plan |-> q.plan, trace |-> q.trace, handed |-> q.handed, at |-> q.at,
              state |-> q.state]
  PROVE  Ended(q, t, x) =
           [plan |-> q.plan, trace |-> t, handed |-> q.handed, at |-> q.at,
            state |-> x]
<1> DEFINE m == [q EXCEPT !.trace = t]
<1>1. m = [plan |-> q.plan, trace |-> t, handed |-> q.handed, at |-> q.at,
           state |-> q.state]
  OBVIOUS
<1>2. [m EXCEPT !.state = x] =
        [plan |-> q.plan, trace |-> t, handed |-> q.handed, at |-> q.at, state |-> x]
  <2> HIDE DEF m
  <2> QED BY <1>1
<1> QED BY <1>2 DEF Ended

\* and of one whose stage starts.
LEMMA StartedIs ==
  ASSUME NEW q, NEW x, NEW u, NEW h,
         q = [plan |-> q.plan, trace |-> q.trace, handed |-> q.handed, at |-> q.at,
              state |-> q.state]
  PROVE  Started(q, x, u, h) =
           [plan |-> q.plan, trace |-> q.trace, handed |-> h, at |-> u, state |-> x]
<1> DEFINE m == [q EXCEPT !.state = x]
           n == [m EXCEPT !.at = u]
<1>1. m = [plan |-> q.plan, trace |-> q.trace, handed |-> q.handed, at |-> q.at,
           state |-> x]
  OBVIOUS
<1>2. n = [plan |-> q.plan, trace |-> q.trace, handed |-> q.handed, at |-> u,
           state |-> x]
  <2> HIDE DEF m
  <2> QED BY <1>1
<1>3. [n EXCEPT !.handed = h] =
        [plan |-> q.plan, trace |-> q.trace, handed |-> h, at |-> u, state |-> x]
  <2> HIDE DEF n
  <2> QED BY <1>2
<1> QED BY <1>3 DEF Started

\* A run that has an admitted plan, has just begun or has completed a stage.
LEMMA GoesOnward ==
  ASSUME ComposedAssumption, NEW S, NEW W, NEW O, NEW r, IsRun(r),
         Admitted(r.plan, S, W, O), r.state = Onward(r.plan, r.trace),
         Len(r.trace) <= Len(r.plan.stages),
         \A j \in 1..Len(r.trace) : r.trace[j].completed
  PROVE  Underway(r, S, W, O)
<1>1. r.plan.stages \in Seq(ToSet(r.plan.stages)) /\ r.trace \in Seq(Walked)
  BY DEF Admitted, ComposedAssumption, IsRun
<1>2. Len(r.trace) \in Nat /\ Len(r.plan.stages) \in Nat
  BY <1>1, LenProperties
<1>3. r.state = "completed" \/ (r.state = "between" /\ Len(r.trace) < Len(r.plan.stages))
  BY <1>2 DEF Onward
<1> QED
  BY <1>3 DEF Underway

\* One run changes, to one that is well; the others are left alone.
LEMMA OneRunChanges ==
  ASSUME RoutingInv, NEW f \in Fires, NEW r,
         run' = [run EXCEPT ![f] = r], Underway(r, since, Reach, offer)
  PROVE  /\ run' = [g \in Fires |-> run'[g]]
         /\ \A g \in Fires : Underway(run'[g], since, Reach, offer)
<1>1. \A g \in Fires : run'[g] = IF g = f THEN r ELSE run[g]
  BY DEF RoutingInv
<1>2. \A g \in Fires : Underway(run'[g], since, Reach, offer)
  BY <1>1 DEF RoutingInv
<1>3. run' = [g \in Fires |-> run'[g]]
  BY DEF RoutingInv
<1> QED
  BY <1>2, <1>3

\* A fire starts a run of the armed version, or completes it if it has no stages.
LEMMA FireKeeps ==
  ASSUME RoutingInv, ComposedAssumption, NEW a \in Autos, NEW f \in Fires, Fire(a, f)
  PROVE  /\ run' = [g \in Fires |-> run'[g]]
         /\ \A g \in Fires : Underway(run'[g], since, Reach, offer)
<1> DEFINE p == rows[a][Latest(a)].plan
           r == [plan |-> p, trace |-> << >>, handed |-> << >>, at |-> None,
                 state |-> Onward(p, << >>)]
<1>1. Latest(a) \in 1..Latest(a)
  BY LenProperties DEF Fire, RoutingInv, RegistryTypeOK, Latest
<1>2. Admitted(p, since, Reach, offer)
  BY <1>1 DEF RoutingInv, RowsFit
<1>3. run' = [run EXCEPT ![f] = r]
  <2>1. run' = [run EXCEPT ![f] =
                  [NoRun EXCEPT !.plan = p, !.state = Onward(p, << >>)]]
    BY DEF Fire
  <2>2. /\ NoRun = [plan |-> NoRun.plan, trace |-> NoRun.trace,
                    handed |-> NoRun.handed, at |-> NoRun.at, state |-> NoRun.state]
        /\ NoRun.trace = << >> /\ NoRun.handed = << >> /\ NoRun.at = None
    BY DEF NoRun
  <2>3. [NoRun EXCEPT !.plan = p, !.state = Onward(p, << >>)] = r
    <3> HIDE DEF p
    <3>1. Begun(NoRun, p, Onward(p, << >>)) = r
      BY <2>2, BegunIs
    <3> QED BY <3>1 DEF Begun
  <2> QED
    BY <2>1, <2>3
<1> HIDE DEF p
<1>4. IsRun(r) /\ Len(r.trace) = 0
  BY <1>2 DEF IsRun, Admitted, Onward
<1>5. Len(p.stages) \in Nat
  BY <1>2, LenProperties DEF Admitted, ComposedAssumption
<1>6. Underway(r, since, Reach, offer)
  <2>1. /\ Admitted(r.plan, since, Reach, offer)
        /\ r.state = Onward(r.plan, r.trace)
        /\ Len(r.trace) <= Len(r.plan.stages)
        /\ \A j \in 1..Len(r.trace) : r.trace[j].completed
    BY <1>2, <1>4, <1>5
  <2> HIDE DEF r
  <2> QED
    BY <1>4, <2>1, GoesOnward
<1> HIDE DEF r
<1> QED
  BY <1>3, <1>6, OneRunChanges

\* A stage starts where its adapter leads, with what the ones before have left.
LEMMA StartStageKeeps ==
  ASSUME RoutingInv, ComposedAssumption, TableAssumption, NEW f \in Fires, StartStage(f)
  PROVE  /\ run' = [g \in Fires |-> run'[g]]
         /\ \A g \in Fires : Underway(run'[g], since, Reach, offer)
<1> DEFINE q == run[f]
           s == StageOf(q)
<1>1. /\ Underway(q, since, Reach, offer)
      /\ q.state = "between"
      /\ q = [plan |-> q.plan, trace |-> q.trace, handed |-> q.handed, at |-> q.at,
             state |-> q.state]
  BY DEF StartStage, RoutingInv, Underway, IsRun
<1>2. /\ IsRun(q) /\ Admitted(q.plan, since, Reach, offer)
      /\ Len(q.trace) < Len(q.plan.stages)
      /\ \A j \in 1..Len(q.trace) : q.trace[j].completed
  BY <1>1 DEF Underway
<1>3. CASE StageUrl(s) = None
  <2> DEFINE r == [plan |-> q.plan, trace |-> q.trace, handed |-> q.handed,
                   at |-> q.at, state |-> "failed"]
  <2>1. run' = [run EXCEPT ![f] = r]
    <3>1. run' = [run EXCEPT ![f] = [q EXCEPT !.state = "failed"]]
      BY <1>3 DEF StartStage
    <3>2. [q EXCEPT !.state = "failed"] = r
      BY <1>1, StateExcept
    <3> QED
      BY <3>1, <3>2
  <2>2. Underway(r, since, Reach, offer)
    BY <1>2 DEF Underway, IsRun
  <2> HIDE DEF r
  <2> QED
    BY <2>1, <2>2, OneRunChanges
<1>4. CASE StageUrl(s) # None
  <2> DEFINE handed == [k \in DOMAIN s.from |-> Handoff(q, s.from[k])]
             r == [plan |-> q.plan, trace |-> q.trace, handed |-> handed,
                   at |-> StageUrl(s), state |-> "walking"]
  <2>1. run' = [run EXCEPT ![f] = r]
    <3>1. run' = [run EXCEPT ![f] =
                    [q EXCEPT !.state = "walking", !.at = StageUrl(s), !.handed = handed]]
      BY <1>4 DEF StartStage
    <3>2. [q EXCEPT !.state = "walking", !.at = StageUrl(s), !.handed = handed] = r
      <4> HIDE DEF handed, s, q
      <4>1. Started(q, "walking", StageUrl(s), handed) = r
        BY <1>1, StartedIs
      <4> QED BY <4>1 DEF Started
    <3> QED
      BY <3>1, <3>2
  <2>2. Role(s) \in Roles
    BY <1>2, StageOfIsStage, StagesHaveRoles DEF Admitted
  <2>3. StageUrl(s) = Reach[Role(s)] /\ StageUrl(s) \in Urls \cup {None}
    <3>1. StageUrl(s) = Where(Role(s))
      BY DEF StageUrl, Role
    <3> QED
      BY <2>2, <3>1, WhereIsUrl DEF Reach, RoutingInv
  <2>4. StageOf(r) = s /\ \A ref : Handoff(r, ref) = Handoff(q, ref)
    BY DEF StageOf, Handoff, LeftBy
  <2>5. r.handed = handed /\ r.at = StageUrl(s)
    OBVIOUS
  <2>6. Walks(r, since, Reach)
    <3>1. handed = [k \in DOMAIN s.from |-> Handoff(r, s.from[k])]
      BY <2>4
    <3> HIDE DEF r, handed, s
    <3> QED
      BY <2>3, <2>4, <2>5, <3>1 DEF Walks
  <2>7. IsRun(r)
    <3> HIDE DEF s, handed
    <3> QED BY <1>2, <2>3 DEF IsRun
  <2>8. /\ r.plan = q.plan /\ r.trace = q.trace /\ r.state = "walking"
    OBVIOUS
  <2> HIDE DEF r
  <2>9. Underway(r, since, Reach, offer)
    BY <1>2, <2>6, <2>7, <2>8 DEF Underway
  <2> QED
    BY <2>1, <2>9, OneRunChanges
<1> QED
  BY <1>3, <1>4

\* A stage ends one way or another.
LEMMA EndStageKeeps ==
  ASSUME RoutingInv, ComposedAssumption, NEW f \in Fires, EndStage(f)
  PROVE  /\ run' = [g \in Fires |-> run'[g]]
         /\ \A g \in Fires : Underway(run'[g], since, Reach, offer)
<1> DEFINE q == run[f]
<1>1. /\ Underway(q, since, Reach, offer)
      /\ q.state = "walking"
      /\ q = [plan |-> q.plan, trace |-> q.trace, handed |-> q.handed, at |-> q.at,
             state |-> q.state]
  BY DEF EndStage, RoutingInv, Underway, IsRun
<1>2. /\ IsRun(q) /\ Admitted(q.plan, since, Reach, offer)
      /\ Len(q.trace) < Len(q.plan.stages)
      /\ \A j \in 1..Len(q.trace) : q.trace[j].completed
  BY <1>1 DEF Underway
<1>3. /\ Len(q.trace) \in Nat /\ Len(q.plan.stages) \in Nat
      /\ q.trace \in Seq(Walked)
  BY <1>2, StageOfIsStage DEF Admitted, IsRun
<1>4. CASE run' = [run EXCEPT ![f].state = "failed"]
  <2> DEFINE r == [plan |-> q.plan, trace |-> q.trace, handed |-> q.handed,
                   at |-> q.at, state |-> "failed"]
  <2>1. run' = [run EXCEPT ![f] = r]
    <3>1. [q EXCEPT !.state = "failed"] = r
      BY <1>1, StateExcept
    <3> QED
      BY <1>4, <3>1
  <2>2. Underway(r, since, Reach, offer)
    BY <1>2 DEF Underway, IsRun
  <2> HIDE DEF r
  <2> QED
    BY <2>1, <2>2, OneRunChanges
<1>5. ASSUME NEW completed \in BOOLEAN, NEW fields \in SUBSET Fields,
             LET trace == Append(q.trace, [completed |-> completed, fields |-> fields]) IN
             run' = [run EXCEPT ![f].trace = trace,
                                ![f].state = IF completed THEN Onward(q.plan, trace)
                                             ELSE "blocked"]
      PROVE  /\ run' = [g \in Fires |-> run'[g]]
             /\ \A g \in Fires : Underway(run'[g], since, Reach, offer)
  <2> DEFINE w == [completed |-> completed, fields |-> fields]
             trace == Append(q.trace, w)
             state == IF completed THEN Onward(q.plan, trace) ELSE "blocked"
             r == [plan |-> q.plan, trace |-> trace, handed |-> q.handed,
                   at |-> q.at, state |-> state]
  <2>1. run' = [run EXCEPT ![f] = r]
    <3>1. run' = [run EXCEPT ![f].trace = trace, ![f].state = state]
      BY <1>5
    <3>2. [q EXCEPT !.trace = trace, !.state = state] = r
      <4> HIDE DEF trace, state, q
      <4>1. Ended(q, trace, state) = r
        BY <1>1, EndedIs
      <4> QED BY <4>1 DEF Ended
    <3>3. run = [g \in Fires |-> run[g]]
      BY DEF RoutingInv
    <3>4. run' = [run EXCEPT ![f] = [q EXCEPT !.trace = trace, !.state = state]]
      <4> HIDE DEF trace, state
      <4> QED BY <3>1, <3>3
    <3> QED
      BY <3>2, <3>4
  <2>2. w \in Walked
    BY DEF Walked
  <2> HIDE DEF w
  <2>3. /\ trace \in Seq(Walked)
        /\ Len(trace) = Len(q.trace) + 1
        /\ \A j \in 1..Len(q.trace) : trace[j] = q.trace[j]
        /\ trace[Len(q.trace) + 1] = w
    BY <1>3, <2>2, AppendProperties
  <2>4. state \in {"completed", "between", "blocked"}
    BY DEF Onward
  <2>5. IsRun(r)
    <3> HIDE DEF trace, state
    <3> QED BY <1>2, <2>3, <2>4 DEF IsRun
  <2>6. CASE ~completed
    <3>1. r.state = "blocked" /\ r.plan = q.plan
      BY <2>6
    <3> HIDE DEF r
    <3>2. Underway(r, since, Reach, offer)
      BY <1>2, <2>5, <3>1 DEF Underway
    <3> QED
      BY <2>1, <3>2, OneRunChanges
  <2>7. CASE completed
    <3>1. w.completed
      BY <2>7 DEF w
    <3>2. \A j \in 1..Len(trace) : trace[j].completed
      <4> HIDE DEF trace
      <4>1. \A j \in 1..Len(trace) : j \in 1..Len(q.trace) \/ j = Len(q.trace) + 1
        BY <1>3, <2>3
      <4> QED
        BY <1>2, <2>3, <3>1, <4>1
    <3>3. /\ Admitted(r.plan, since, Reach, offer)
          /\ r.state = Onward(r.plan, r.trace)
          /\ Len(r.trace) <= Len(r.plan.stages)
          /\ \A j \in 1..Len(r.trace) : r.trace[j].completed
      <4>1. Len(trace) <= Len(q.plan.stages)
        <5> HIDE DEF trace
        <5> QED BY <1>2, <1>3, <2>3
      <4> QED
        BY <1>2, <2>7, <3>2, <4>1
    <3> HIDE DEF r
    <3>4. Underway(r, since, Reach, offer)
      BY <2>5, <3>3, GoesOnward
    <3> QED
      BY <2>1, <3>4, OneRunChanges
  <2> QED
    BY <2>6, <2>7
<1> QED
  BY <1>4, <1>5 DEF EndStage

\* What a step that lets adapters drift leaves alone stays well.
LEMMA RestWhileDrifting ==
  ASSUME RoutingInv, ComposedAssumption,
         Drifts(since, Reach, offer, since', Reach', offer')
  PROVE  /\ UNCHANGED request => Told(request, since, Reach, offer)'
         /\ UNCHANGED rows => RowsFit(since, Reach, offer)'
         /\ UNCHANGED run => /\ (run = [f \in Fires |-> run[f]])'
                            /\ \A f \in Fires : Underway(run'[f], since', Reach', offer')
<1>1. Told(request, since', Reach', offer')
  BY ToldWhileDrifting DEF RoutingInv
<1>2. ASSUME NEW a \in Autos, NEW v \in 1..Latest(a)
      PROVE  Admitted(rows[a][v].plan, since', Reach', offer')
  BY <1>2, AdmittedWhileDrifting DEF RoutingInv, RowsFit
<1>3. ASSUME NEW f \in Fires PROVE Underway(run[f], since', Reach', offer')
  BY <1>3, UnderwayWhileDrifting DEF RoutingInv
<1>4. UNCHANGED rows => \A a \in Autos : Latest(a)' = Latest(a)
  BY DEF Latest
<1>5. UNCHANGED request => Told(request, since, Reach, offer)'
  BY <1>1
<1>6. UNCHANGED rows => RowsFit(since, Reach, offer)'
  BY <1>2, <1>4 DEF RowsFit
<1>7. UNCHANGED run => /\ (run = [f \in Fires |-> run[f]])'
                       /\ \A f \in Fires : Underway(run'[f], since', Reach', offer')
  BY <1>3 DEF RoutingInv
<1> QED
  BY <1>5, <1>6, <1>7

\* A request is told of one more adapter, or refused.
LEMMA AskKeepsTold ==
  ASSUME RoutingInv, ComposedAssumption, TableAssumption,
         NEW a \in Adapters \cup {TheActive}, Ask(a)
  PROVE  Told(request', since', Reach', offer')
<1> DEFINE p == request.draft.plan
           role == <<p.ws, a>>
           answer == Skeleton(role)
<1>1. /\ Drifts(since, Reach, offer, since', Reach', offer')
      /\ since' \in [Roles -> {"unasked", "asked", "changed"}]
  BY AskDrifts
<1>2. Told(request, since', Reach', offer')
  BY <1>1, ToldWhileDrifting DEF RoutingInv
<1>3. Reach' = Reach /\ offer' = offer
  BY ReachWithTable DEF Ask
<1>4. request.draft \in Drafts /\ role \in Roles
  BY ComposedAssumption DEF Ask, RoutingInv, Told, ComposedAssumption, Roles
<1>5. CASE answer = None
  BY <1>5, EmptySeq DEF Ask, Told, NoRequest
<1>6. CASE answer # None
  <2> DEFINE told == [b \in DOMAIN request.offers \cup {a} |->
                        IF b = a THEN answer ELSE request.offers[b]]
             q == [draft |-> request.draft, offers |-> told]
  <2>1. request' = q
    <3>1. request' = [request EXCEPT !.offers = told]
      BY <1>6 DEF Ask
    <3>2. request = [draft |-> request.draft, offers |-> request.offers]
      BY DEF RoutingInv, Told
    <3> HIDE DEF told
    <3> QED BY <3>1, <3>2
  <2>2. since' = [since EXCEPT ![role] = IF since[role] = "changed" THEN since[role]
                                         ELSE "asked"]
    BY <1>6 DEF Ask
  <2>3. since'[role] # "unasked"
    BY <1>4, <2>2 DEF RoutingInv
  <2>4. answer = offer[Reach[role]] /\ Reach[role] \in Urls
    <3>1. Where(role) # None /\ answer = offer[Where(role)] /\ Where(role) = Reach[role]
      BY <1>4, <1>6 DEF Skeleton, Reach
    <3> QED
      BY <1>4, <3>1, WhereIsUrl DEF RoutingInv
  <2>5. Serves({}, role, since', Reach', offer')
    BY <1>3, <2>3, <2>4 DEF Serves
  <2> HIDE DEF answer
  <2>6. ASSUME NEW b \in DOMAIN told
        PROVE  /\ b \in Adapters \cup {TheActive}
               /\ Serves({}, <<p.ws, b>>, since', Reach', offer')
               /\ since'[<<p.ws, b>>] = "asked" => told[b] = offer'[Reach'[<<p.ws, b>>]]
    <3>1. CASE b = a
      BY <1>3, <2>4, <2>5, <3>1
    <3>2. CASE b # a
      <4>1. b \in DOMAIN request.offers /\ told[b] = request.offers[b]
        BY <3>2
      <4> QED
        BY <1>2, <1>4, <4>1, ComposedAssumption DEF Told, Ask
    <3> QED
      BY <3>1, <3>2
  <2>7. q.draft = request.draft /\ q.offers = told
    OBVIOUS
  <2> HIDE DEF told, q
  <2>8. q = [draft |-> q.draft, offers |-> q.offers]
    BY <2>7 DEF q
  <2>9. Told(q, since', Reach', offer')
    BY <1>4, <2>6, <2>7, <2>8 DEF Told
  <2> QED
    BY <2>1, <2>9
<1> QED
  BY <1>5, <1>6

\* A request ends: what becomes a version is admitted.
LEMMA EndRequestKeepsRows ==
  ASSUME RoutingInv, ComposedAssumption, RegistryAssumption, EndRequest
  PROVE  RegistryTypeOK' /\ RowsFit(since, Reach, offer)'
<1>1. since' = since /\ Reach' = Reach /\ offer' = offer
  BY ReachWithTable DEF EndRequest
<1>2. CASE UNCHANGED rows
  BY <1>1, <1>2 DEF RoutingInv, RegistryTypeOK, RowsFit, Latest
<1>3. CASE Valid(request.draft.plan, request.offers) /\ Register(request.draft)
  <2> DEFINE d == request.draft
  <2>1. d \in Drafts /\ d # None /\ DOMAIN request.offers = AdaptersOf(d.plan)
    BY DEF EndRequest, RoutingInv, Told
  <2>2. Admitted(d.plan, since, Reach, offer)
    BY <1>3, <2>1, ValidIsAdmitted DEF RoutingInv
  <2> HIDE DEF d
  <2>3. /\ RegistryTypeOK'
        /\ \A a \in Autos : \A v \in 1..Len(rows'[a]) :
             \/ rows'[a][v].plan = d.plan
             \/ \E u \in 1..Latest(a) : rows'[a][v].plan = rows[a][u].plan
    BY <1>3, <2>1, RegisterKeepsPlans DEF RoutingInv, d
  <2>4. ASSUME NEW a \in Autos, NEW v \in 1..Len(rows'[a])
        PROVE  Admitted(rows'[a][v].plan, since, Reach, offer)
    BY <2>2, <2>3 DEF RoutingInv, RowsFit
  <2> QED
    BY <1>1, <2>3, <2>4 DEF RowsFit, Latest
<1> QED
  BY <1>2, <1>3 DEF EndRequest

\* Operators of automations arm what is admitted already.
LEMMA SetVersionKeepsRows ==
  ASSUME RoutingInv, RegistryAssumption, SetVersion
  PROVE  RegistryTypeOK' /\ RowsFit(since, Reach, offer)'
<1>1. since' = since /\ Reach' = Reach /\ offer' = offer
  BY ReachWithTable DEF SetVersion
<1>2. PICK b \in Autos, m \in Moves : \E w \in 1..Latest(b) : SetState(b, w, m)
  BY DEF SetVersion
<1>3. PICK w \in 1..Latest(b) : SetState(b, w, m)
  BY <1>2
<1>4. /\ RegistryTypeOK'
      /\ \A a \in Autos : \A v \in 1..Len(rows'[a]) :
           \E u \in 1..Latest(a) : rows'[a][v].plan = rows[a][u].plan
  BY <1>3, SetStateKeepsPlans DEF RoutingInv
<1>5. ASSUME NEW a \in Autos, NEW v \in 1..Len(rows'[a])
      PROVE  Admitted(rows'[a][v].plan, since, Reach, offer)
  BY <1>4 DEF RoutingInv, RowsFit
<1> QED
  BY <1>1, <1>4, <1>5 DEF RowsFit, Latest

\* The step.
LEMMA RoutingStep ==
  ASSUME RoutingInv, ComposedAssumption, TableAssumption, RegistryAssumption,
         [Next]_vars
  PROVE  RoutingInv'
<1>1. CASE Operate
  <2>1. TableTypeOK'
    BY <1>1, TableStaysTyped DEF Operate, RoutingInv
  <2>2. Drifts(since, Reach, offer, since', Reach', offer')
    BY <1>1, OperateDrifts DEF Operate
  <2>3. since' \in [Roles -> {"unasked", "asked", "changed"}]
    BY <1>1, ChangedTyped DEF Operate, Moved
  <2>4. UNCHANGED <<rows, offer, redeploys, request, run>>
    BY <1>1 DEF Operate
  <2>5. /\ Told(request, since, Reach, offer)'
        /\ RowsFit(since, Reach, offer)'
        /\ (run = [f \in Fires |-> run[f]])'
        /\ \A f \in Fires : Underway(run'[f], since', Reach', offer')
    BY <2>2, <2>4, RestWhileDrifting
  <2> QED
    BY <2>1, <2>3, <2>4, <2>5 DEF RoutingInv, RegistryTypeOK
<1>2. CASE UNCHANGED <<table, composed>>
  <2>1. Reach' = Reach
    BY <1>2, ReachWithTable
  <2>2. UNCHANGED <<rows, offer, redeploys, request, run, since, url, enabled, written>>
    BY <1>2 DEF composed, table
  <2>3. Drifts(since, Reach, offer, since', Reach', offer')
    BY <2>1, <2>2, NothingDrifts
  <2>4. /\ Told(request, since, Reach, offer)'
        /\ RowsFit(since, Reach, offer)'
        /\ (run = [f \in Fires |-> run[f]])'
        /\ \A f \in Fires : Underway(run'[f], since', Reach', offer')
    BY <2>2, <2>3, RestWhileDrifting
  <2> QED
    BY <2>2, <2>4 DEF RoutingInv, RegistryTypeOK, TableTypeOK
<1>3. ASSUME NEW u \in Urls, Redeploy(u) PROVE RoutingInv'
  <2>1. /\ Drifts(since, Reach, offer, since', Reach', offer')
        /\ since' \in [Roles -> {"unasked", "asked", "changed"}]
        /\ offer' \in [Urls -> (UNION {Offers[v] : v \in Urls}) \cup {None}]
        /\ redeploys' \in 0..MaxRedeploys
    BY <1>3, RedeployDrifts
  <2>2. UNCHANGED <<url, enabled, written, rows, request, run>>
    BY <1>3 DEF Redeploy, table
  <2>3. /\ Told(request, since, Reach, offer)'
        /\ RowsFit(since, Reach, offer)'
        /\ (run = [f \in Fires |-> run[f]])'
        /\ \A f \in Fires : Underway(run'[f], since', Reach', offer')
    BY <2>1, <2>2, RestWhileDrifting
  <2> QED
    BY <2>1, <2>2, <2>3 DEF RoutingInv, RegistryTypeOK, TableTypeOK
<1>4. ASSUME NEW d \in Drafts, Begin(d) PROVE RoutingInv'
  <2>1. UNCHANGED <<url, enabled, written, rows, offer, redeploys, run, since>>
    BY <1>4 DEF Begin, table
  <2>2. Reach' = Reach
    BY <1>4, ReachWithTable DEF Begin
  <2>3. Told(request', since, Reach, offer)
    BY <1>4, EmptySeq DEF Begin, Told
  <2>4. RowsFit(since, Reach, offer)'
    BY <2>1, <2>2 DEF RowsFit, Latest, RoutingInv
  <2> QED
    BY <2>1, <2>2, <2>3, <2>4 DEF RoutingInv, RegistryTypeOK, TableTypeOK
<1>5. ASSUME NEW a \in Adapters \cup {TheActive}, Ask(a) PROVE RoutingInv'
  <2>1. UNCHANGED <<url, enabled, written, rows, offer, redeploys, run>>
    BY <1>5 DEF Ask, table
  <2>2. /\ Drifts(since, Reach, offer, since', Reach', offer')
        /\ since' \in [Roles -> {"unasked", "asked", "changed"}]
    BY <1>5, AskDrifts
  <2>3. Told(request', since', Reach', offer')
    BY <1>5, AskKeepsTold
  <2>4. /\ RowsFit(since, Reach, offer)'
        /\ (run = [f \in Fires |-> run[f]])'
        /\ \A f \in Fires : Underway(run'[f], since', Reach', offer')
    BY <2>1, <2>2, RestWhileDrifting
  <2> QED
    BY <2>1, <2>2, <2>3, <2>4 DEF RoutingInv, RegistryTypeOK, TableTypeOK
<1>6. CASE EndRequest \/ SetVersion
  <2>1. UNCHANGED <<url, enabled, written, offer, redeploys, run, since>>
    BY <1>6 DEF EndRequest, SetVersion, table
  <2>2. Reach' = Reach
    BY <1>6, ReachWithTable DEF EndRequest, SetVersion
  <2>3. RegistryTypeOK' /\ RowsFit(since, Reach, offer)'
    BY <1>6, EndRequestKeepsRows, SetVersionKeepsRows
  <2>4. Told(request', since, Reach, offer)
    <3>1. CASE request' = NoRequest
      BY <3>1 DEF Told, NoRequest
    <3>2. CASE request' = request
      BY <3>2 DEF RoutingInv
    <3> QED
      BY <1>6, <3>1, <3>2 DEF EndRequest, SetVersion
  <2> QED
    BY <2>1, <2>2, <2>3, <2>4 DEF RoutingInv, TableTypeOK
<1>7. CASE Execute
  <2>1. UNCHANGED <<url, enabled, written, rows, offer, redeploys, request, since>>
    BY <1>7 DEF Execute, Fire, StartStage, EndStage, table
  <2>2. Reach' = Reach
    BY <2>1, ReachWithTable DEF table
  <2>3. /\ run' = [g \in Fires |-> run'[g]]
        /\ \A g \in Fires : Underway(run'[g], since, Reach, offer)
    BY <1>7, FireKeeps, StartStageKeeps, EndStageKeeps DEF Execute
  <2>4. RowsFit(since, Reach, offer)'
    BY <2>1, <2>2 DEF RowsFit, Latest, RoutingInv
  <2> QED
    BY <2>1, <2>2, <2>3, <2>4 DEF RoutingInv, RegistryTypeOK, TableTypeOK
<1>8. CASE Serve
  BY <1>2, <1>8 DEF Serve
<1>9. CASE UNCHANGED vars
  BY <1>2, <1>9 DEF vars
<1> QED
  BY <1>1, <1>3, <1>4, <1>5, <1>6, <1>7, <1>8, <1>9
     DEF Next, Compose, ComposedNext, ServeRequest

\* Nothing has been asked, and nothing runs.
LEMMA RoutingStart ==
  ASSUME Init, ComposedAssumption
  PROVE  RoutingInv
<1>1. TableTypeOK
  BY EmptySeq DEF Init, TableInit, TableTypeOK, ToSet
<1>2. RegistryTypeOK /\ RowsFit(since, Reach, offer)
  BY EmptySeq DEF Init, ComposedInit, RegistryInit, RegistryTypeOK, RowsFit, Latest
<1>3. Told(request, since, Reach, offer)
  BY DEF Init, ComposedInit, NoRequest, Told
<1>4. /\ run = [f \in Fires |-> run[f]]
      /\ \A f \in Fires : Underway(run[f], since, Reach, offer)
  <2>1. run = [f \in Fires |-> NoRun]
    BY DEF Init, ComposedInit
  <2>2. Underway(NoRun, since, Reach, offer)
    BY EmptySeq DEF NoRun, Underway, IsRun
  <2> HIDE DEF NoRun
  <2> QED
    BY <2>1, <2>2
<1>5. /\ redeploys \in 0..MaxRedeploys
      /\ since \in [Roles -> {"unasked", "asked", "changed"}]
  BY ComposedAssumption DEF Init, ComposedInit, ComposedAssumption
<1>6. offer \in [Urls -> (UNION {Offers[u] : u \in Urls}) \cup {None}]
  <2> DEFINE Z == UNION {Offers[u] : u \in Urls}
  <2>1. offer \in [Urls -> Z]
    BY DEF Init, ComposedInit
  <2> HIDE DEF Z
  <2>2. offer \in [Urls -> Z \cup {None}]
    BY <2>1
  <2> QED BY <2>2 DEF Z
<1> QED
  BY <1>1, <1>2, <1>3, <1>4, <1>5, <1>6 DEF RoutingInv

\* The invariant of the whole system.
LEMMA RoutingInvariant == Spec => []RoutingInv
<1>1. Init => RoutingInv
  BY RoutingStart, ComposedAssumption
<1>2. RoutingInv /\ [Next]_vars => RoutingInv'
  BY RoutingStep, ComposedAssumption, TableAssumption, RegistryAssumption
<1> QED
  BY <1>1, <1>2, PTL DEF Spec

\* Stages reach what they were validated for.
LEMMA WalkedWhereItFits ==
  ASSUME RoutingInv, ComposedAssumption
  PROVE  StagesFitTheirBackends
<1> SUFFICES ASSUME NEW f \in Fires, run[f].state = "walking",
                    StageOf(run[f]).verbs # {}
             PROVE  /\ StageOf(run[f]).ws = run[f].plan.ws
                    /\ since[Role(StageOf(run[f]))] = "asked" =>
                         StageOf(run[f]).verbs \subseteq offer[run[f].at]
  BY DEF StagesFitTheirBackends, Role
<1> DEFINE r == run[f]
<1>1. /\ IsRun(r) /\ Admitted(r.plan, since, Reach, offer)
      /\ Len(r.trace) < Len(r.plan.stages)
      /\ Walks(r, since, Reach)
  BY DEF RoutingInv, Underway
<1>2. /\ Len(r.trace) + 1 \in DOMAIN r.plan.stages
      /\ StageOf(r) = r.plan.stages[Len(r.trace) + 1]
  BY <1>1, StageOfIsStage DEF Admitted
<1>3. /\ StageOf(r).ws = r.plan.ws
      /\ Serves(StageOf(r).verbs, Role(StageOf(r)), since, Reach, offer)
  BY <1>1, <1>2 DEF Admitted, Fits
<1>4. since[Role(StageOf(r))] = "asked" => r.at = Reach[Role(StageOf(r))]
  BY <1>1 DEF Walks
<1> QED
  BY <1>3, <1>4 DEF Serves

\* What is handed on is what an earlier stage has left.
LEMMA HandedIsLeft ==
  ASSUME RoutingInv, ComposedAssumption
  PROVE  HandoffsAreReal
<1> SUFFICES ASSUME NEW f \in Fires, run[f].state = "walking"
             PROVE  /\ \A j \in DOMAIN run[f].trace : run[f].trace[j].completed
                    /\ \A k \in DOMAIN StageOf(run[f]).from :
                         LET ref == StageOf(run[f]).from[k] IN
                         \/ /\ ref.stage \in Outside
                            /\ run[f].handed[k] = None
                         \/ \E j \in DOMAIN run[f].trace :
                              /\ run[f].plan.stages[j].name = ref.stage
                              /\ run[f].handed[k] =
                                   IF ref.field \in run[f].trace[j].fields
                                   THEN ref ELSE None
  BY DEF HandoffsAreReal
<1> DEFINE r == run[f]
           i == Len(r.trace) + 1
<1>1. /\ IsRun(r) /\ Admitted(r.plan, since, Reach, offer)
      /\ Len(r.trace) < Len(r.plan.stages)
      /\ \A j \in 1..Len(r.trace) : r.trace[j].completed
      /\ Walks(r, since, Reach)
  BY DEF RoutingInv, Underway
<1>2. /\ i \in DOMAIN r.plan.stages
      /\ StageOf(r) = r.plan.stages[i]
      /\ Len(r.trace) \in Nat
  BY <1>1, StageOfIsStage DEF Admitted
<1>3. DOMAIN r.trace = 1..Len(r.trace)
  BY <1>1, LenProperties DEF IsRun
<1>4. r.handed = [k \in DOMAIN StageOf(r).from |-> Handoff(r, StageOf(r).from[k])]
  BY <1>1 DEF Walks
<1>5. HandoffsAreDeclared(r.plan)
  BY <1>1 DEF Admitted
<1> HIDE DEF r
<1>6. ASSUME NEW k \in DOMAIN StageOf(r).from
      PROVE  LET ref == StageOf(r).from[k] IN
             \/ /\ ref.stage \in Outside
                /\ r.handed[k] = None
             \/ \E j \in DOMAIN r.trace :
                  /\ r.plan.stages[j].name = ref.stage
                  /\ r.handed[k] = IF ref.field \in r.trace[j].fields THEN ref ELSE None
  <2> DEFINE ref == StageOf(r).from[k]
  <2>1. r.handed[k] = Handoff(r, ref)
    BY <1>4
  <2>2. ref.stage \in Earlier(r.plan, i) \cup Outside
    BY <1>2, <1>5 DEF HandoffsAreDeclared
  <2> HIDE DEF ref
  <2>3. CASE ref.field \in LeftBy(r, ref.stage)
    <3>1. PICK j \in DOMAIN r.trace :
            /\ r.plan.stages[j].name = ref.stage
            /\ ref.field \in r.trace[j].fields
      BY <2>3 DEF LeftBy
    <3> QED
      BY <2>1, <2>3, <3>1 DEF Handoff, ref
  <2>4. CASE ref.field \notin LeftBy(r, ref.stage) /\ ref.stage \in Outside
    BY <2>1, <2>4 DEF Handoff, ref
  <2>5. CASE ref.field \notin LeftBy(r, ref.stage) /\ ref.stage \in Earlier(r.plan, i)
    <3>1. PICK j \in 1..(i - 1) : r.plan.stages[j].name = ref.stage
      BY <2>5 DEF Earlier
    <3>2. j \in DOMAIN r.trace
      BY <1>2, <1>3, <3>1
    <3>3. ref.field \notin r.trace[j].fields
      BY <2>5, <3>1, <3>2 DEF LeftBy
    <3> QED
      BY <2>1, <2>5, <3>1, <3>2, <3>3 DEF Handoff, ref
  <2> QED
    BY <2>2, <2>3, <2>4, <2>5
<1> QED
  BY <1>1, <1>3, <1>6 DEF r

\* The table, the registry, requests, runs and connections are well formed.
THEOREM RoutingTypeCorrect == Spec => []TypeOK
<1>1. RoutingInv /\ Bound => TypeOK
  <2> SUFFICES ASSUME RoutingInv, Bound PROVE TypeOK
    OBVIOUS
  <2>1. /\ request.draft \in Drafts \cup {None}
        /\ DOMAIN request.offers \subseteq Adapters \cup {TheActive}
    BY DEF RoutingInv, Told
  <2>2. ASSUME NEW f \in Fires
        PROVE  /\ run[f].plan \in ComposedPlans \cup {None}
               /\ run[f].at \in Urls \cup {None}
               /\ run[f].state \in {"none", "between", "walking", "completed",
                                    "blocked", "failed"}
               /\ run[f].trace \in Seq([completed : BOOLEAN, fields : SUBSET Fields])
    BY DEF RoutingInv, Underway, IsRun, Walked
  <2> QED
    BY <2>1, <2>2 DEF RoutingInv, Bound, TypeOK, ComposedTypeOK
<1>2. Init => Bound
  BY DEF Init, SessionInit, Bound, SessionTypeOK
<1>3. Bound /\ [Next]_vars => Bound'
  BY StepIsBound
<1> QED
  BY <1>1, <1>2, <1>3, RoutingInvariant, PTL DEF Spec

\* Stages of composed automations run in order, on backends that they were validated
\* for or that changed after they had been asked, with what earlier stages of the
\* same run have left (run_composed, validate_composed).
THEOREM StagesKeepTheirDraft == Spec => []StagesRunAsDrafted
<1>1. RoutingInv => StagesRunAsDrafted
  BY WalkedWhereItFits, HandedIsLeft, ComposedAssumption DEF StagesRunAsDrafted
<1> QED
  BY <1>1, RoutingInvariant, PTL
=============================================================================
