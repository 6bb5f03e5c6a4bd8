-------------------------- MODULE EventTrail_proofs --------------------------
(***************************************************************************)
(* The trail of events, for any adapters, proposals, window and number of  *)
(* deliveries.                                                             *)
(***************************************************************************)
EXTENDS EventTrail, SequenceTheorems, WellFoundedInduction, TLAPS

\* An announcement, and nothing else, says what its proposal is.
Wordings == \A i \in Sent : sent[i].event = "proposed" <=> sent[i].words # None

\* The deduper's window is of the newest events: the k-th from its end was new k - 1
\* events ago.
WindowIsRecent ==
  /\ Len(seen) = IF news < Window THEN news ELSE Window
  /\ \A i \in Sent :
       /\ handled[i] <= news
       /\ handled[i] > news - Len(seen) =>
            seen[handled[i] - (news - Len(seen))] = sent[i].number
  /\ \A k \in 1..Len(seen) :
       \E j \in Sent : handled[j] # 0 /\ sent[j].number = seen[k]

Inv ==
  TypeOK /\ Wordings /\ LedgerIsWhatCame /\ WindowIsRecent /\ NumberIsHandled

\* What Append does to the histories of events.
LEMMA Appended ==
  ASSUME NEW S, NEW s \in Seq(S), NEW e \in S
  PROVE  /\ Append(s, e) \in Seq(S)
         /\ Len(Append(s, e)) = Len(s) + 1
         /\ DOMAIN Append(s, e) = 1..(Len(s) + 1)
         /\ \A i \in 1..Len(s) : Append(s, e)[i] = s[i]
         /\ Append(s, e)[Len(s) + 1] = e
BY AppendProperties, LenProperties

LEMMA TypeFacts ==
  ASSUME TypeOK
  PROVE  /\ Len(sent) \in Nat /\ Len(events) \in Nat /\ Len(seen) \in Nat
         /\ DOMAIN events = 1..Len(events) /\ DOMAIN seen = 1..Len(seen)
         /\ \A i \in Sent : sent[i] \in Event
         /\ \A r \in DOMAIN events : events[r] \in Sent
         /\ \A k \in 1..Len(seen) : seen[k] \in Nat
         /\ \A i \in Sent : handled[i] \in Nat
         /\ handled \in Seq(Nat) /\ Len(handled) = Len(sent)
<1>1. /\ Len(sent) \in Nat /\ Len(events) \in Nat /\ Len(seen) \in Nat
      /\ DOMAIN events = 1..Len(events) /\ DOMAIN seen = 1..Len(seen)
  BY LenProperties DEF TypeOK
<1>2. /\ \A i \in Sent : sent[i] \in Event
      /\ \A r \in 1..Len(events) : events[r] \in Sent
      /\ \A k \in 1..Len(seen) : seen[k] \in Nat
  BY ElementOfSeq DEF TypeOK, Sent
<1>3. handled \in [1..Len(sent) -> Nat]
  BY DEF TypeOK, Sent
<1>4. handled \in Seq(Nat)
  BY <1>1, <1>3, SeqDef
<1>5. Len(handled) = Len(sent)
  BY <1>1, <1>3, <1>4, LenProperties
<1> QED
  BY <1>1, <1>2, <1>3, <1>4, <1>5 DEF Sent

-----------------------------------------------------------------------------
(* An adapter emits an event.                                               *)

LEMMA EmitFacts ==
  ASSUME TypeOK, NEW p \in Proposals, NEW what \in {"proposed", "executed", "refused"},
         NEW words \in Words \cup {None}, Emit(p, what, words)
  PROVE  /\ TypeOK'
         /\ Sent \subseteq Sent'
         /\ \A i \in Sent : sent'[i] = sent[i] /\ handled'[i] = handled[i]
         /\ \A i \in Sent' \ Sent :
              /\ handled'[i] = 0
              /\ sent'[i].event = "proposed" <=> sent'[i].words # None
<1> DEFINE e == [adapter |-> Home[p], number |-> numbers'[Home[p]], proposal |-> p,
                 event |-> what, words |-> words, tag |-> emitter[Home[p]]]
<1>1. Home[p] \in Adapters /\ numbers' \in [Adapters -> Nat]
  BY TrailAssumption DEF Emit, TypeOK
<1>2. e \in Event /\ (e.event = "proposed" <=> e.words # None)
  BY <1>1 DEF Event, TypeOK, Emit
<1>3. sent' = Append(sent, e) /\ handled' = Append(handled, 0)
  BY DEF Emit
<1>4. /\ sent' \in Seq(Event) /\ Len(sent') = Len(sent) + 1
      /\ \A i \in 1..Len(sent) : sent'[i] = sent[i]
      /\ sent'[Len(sent) + 1] = e
  BY <1>2, <1>3, Appended DEF TypeOK
<1>5. /\ handled' \in Seq(Nat) /\ Len(handled') = Len(sent) + 1
      /\ \A i \in 1..Len(sent) : handled'[i] = handled[i]
      /\ handled'[Len(sent) + 1] = 0
  <2>1. handled \in Seq(Nat) /\ Len(handled) = Len(sent)
    BY TypeFacts
  <2> QED
    BY <1>3, <2>1, Appended
<1>6. Len(sent) \in Nat
  BY TypeFacts
<1>7. Sent \subseteq Sent' /\ Sent' \ Sent = {Len(sent) + 1}
  BY <1>4, <1>6 DEF Sent
<1>8. handled' \in [Sent' -> Nat]
  BY <1>4, <1>5, LenProperties DEF Sent
<1>9. events' \in Seq(Sent')
  BY <1>7, SeqMonotonic DEF Emit, TypeOK
<1>10. reached' \in [Places -> SUBSET Sent']
  BY <1>7 DEF Emit, TypeOK
<1>11. TypeOK'
  BY <1>1, <1>4, <1>8, <1>9, <1>10 DEF TypeOK, Emit
<1> QED
  BY <1>2, <1>4, <1>5, <1>6, <1>7, <1>11 DEF Sent

LEMMA EmitKeepsInv ==
  ASSUME Inv, NEW p \in Proposals, NEW what \in {"proposed", "executed", "refused"},
         NEW words \in Words \cup {None}, Emit(p, what, words)
  PROVE  Inv' /\ SeenAgainLate
<1>1. /\ TypeOK'
      /\ Sent \subseteq Sent'
      /\ \A i \in Sent : sent'[i] = sent[i] /\ handled'[i] = handled[i]
      /\ \A i \in Sent' \ Sent :
           /\ handled'[i] = 0
           /\ sent'[i].event = "proposed" <=> sent'[i].words # None
  BY EmitFacts DEF Inv
<1>2. UNCHANGED <<events, seen, reached, news>>
  BY DEF Emit
<1>3. TypeOK
  BY DEF Inv
<1>4. Wordings'
  BY <1>1 DEF Inv, Wordings
<1>5. LedgerIsWhatCame'
  <2>1. Stored \subseteq Sent /\ Stored' = Stored /\ DOMAIN events' = DOMAIN events
    BY <1>2, <1>3, TypeFacts DEF Stored, ToSet
  <2>2. \A r \in DOMAIN events : Of(r)' = Of(r)
    BY <1>1, <1>2, <1>3, TypeFacts DEF Of
  <2>3. reached.ledger \subseteq Sent
    BY <1>3 DEF TypeOK, Places
  <2> QED
    BY <1>1, <1>2, <2>1, <2>2, <2>3 DEF Inv, LedgerIsWhatCame
<1>6. WindowIsRecent'
  <2>1. Len(seen) \in Nat /\ Len(seen) <= news /\ news \in Nat
    BY <1>3, TypeFacts, TrailAssumption DEF Inv, WindowIsRecent, TypeOK
  <2>2. \A i \in Sent' \ Sent : handled'[i] <= news /\ ~(handled'[i] > news - Len(seen))
    BY <1>1, <2>1
  <2> QED
    BY <1>1, <1>2, <2>1, <2>2 DEF Inv, WindowIsRecent
<1>7. NumberIsHandled'
  <2>1. reached.sdk \subseteq Sent
    BY <1>3 DEF TypeOK, Places
  <2> QED
    BY <1>1, <1>2, <2>1 DEF Inv, NumberIsHandled
<1>8. SeenAgainLate
  BY <1>1 DEF SeenAgainLate
<1> QED
  BY <1>1, <1>4, <1>5, <1>6, <1>7, <1>8 DEF Inv

-----------------------------------------------------------------------------
(* An event reaches the ledger.                                             *)

LEMMA ReachFacts ==
  ASSUME TypeOK, NEW i \in Sent, NEW place \in Places, Reach(i, place)
  PROVE  /\ deliveries' \in Nat
         /\ reached' \in [Places -> SUBSET Sent]
         /\ reached'[place] = reached[place] \cup {i}
         /\ \A other \in Places \ {place} : reached'[other] = reached[other]
<1>1. deliveries' \in Nat
  BY DEF TypeOK, Reach
<1> QED
  BY <1>1 DEF TypeOK, Reach

\* A ledger row more, or none.
LEMMA IngestKeepsLedger ==
  ASSUME TypeOK, LedgerIsWhatCame, NEW i \in Sent, Ingest(i)
  PROVE  events' \in Seq(Sent) /\ LedgerIsWhatCame'
<1>1. UNCHANGED <<sent, Sent>> /\ Reach(i, "ledger")
  BY DEF Ingest, Sent
<1>2. reached'.ledger = reached.ledger \cup {i}
  BY <1>1, ReachFacts DEF Places
<1>3. CASE Known(i)
  <2>1. UNCHANGED <<events, Stored>>
    BY <1>3 DEF Ingest, Stored
  <2>2. \/ i \in Stored
        \/ /\ sent[i].tag = "number"
           /\ \E j \in Stored : sent[j].number = sent[i].number
    BY <1>3, TypeFacts DEF Known, Event, Tags
  <2> QED
    BY <1>1, <1>2, <2>1, <2>2 DEF LedgerIsWhatCame, Of, TypeOK
<1>4. CASE ~Known(i)
  <2>1. events' = Append(events, i)
    BY <1>4 DEF Ingest
  <2>2. /\ events' \in Seq(Sent)
        /\ DOMAIN events' = 1..(Len(events) + 1)
        /\ \A r \in 1..Len(events) : events'[r] = events[r]
        /\ events'[Len(events) + 1] = i
    BY <2>1, Appended DEF TypeOK
  <2>3. DOMAIN events = 1..Len(events) /\ Len(events) \in Nat
    BY TypeFacts
  <2>4. Stored' = Stored \cup {i}
    BY <2>2, <2>3 DEF Stored, ToSet
  <2>5. sent[i].tag # "none" => i \notin Stored
    BY <1>4, TypeFacts DEF Known, Event, Tags
  <2>6. \A r \in 1..Len(events) : events[r] = i => sent[i].tag = "none"
    BY <2>3, <2>5 DEF Stored, ToSet
  <2>7. \A r, q \in DOMAIN events' :
          events'[r] = events'[q] => r = q \/ Of(r)'.tag = "none"
    BY <1>1, <2>2, <2>3, <2>6 DEF LedgerIsWhatCame, Of
  <2> QED
    BY <1>1, <1>2, <2>2, <2>4, <2>7 DEF LedgerIsWhatCame
<1> QED
  BY <1>3, <1>4

LEMMA IngestKeepsInv ==
  ASSUME Inv, NEW i \in Sent, Ingest(i)
  PROVE  Inv' /\ SeenAgainLate
<1>1. UNCHANGED <<emitter, sent, Sent, numbers, seen, handled, news>> /\ Reach(i, "ledger")
  BY DEF Ingest, Sent
<1>2. events' \in Seq(Sent) /\ LedgerIsWhatCame'
  BY IngestKeepsLedger DEF Inv
<1>3. /\ deliveries' \in Nat
      /\ reached' \in [Places -> SUBSET Sent]
      /\ reached'.sdk = reached.sdk
  BY <1>1, ReachFacts DEF Inv, Places
<1>4. TypeOK'
  BY <1>1, <1>2, <1>3 DEF Inv, TypeOK
<1> QED
  BY <1>1, <1>2, <1>3, <1>4
     DEF Inv, Wordings, WindowIsRecent, NumberIsHandled, SeenAgainLate

-----------------------------------------------------------------------------
(* An event reaches the SDK.                                                *)

\* The window slides by one entry.
LEMMA Remembered ==
  ASSUME NEW number \in Nat, seen \in Seq(Nat), Len(seen) <= Window
  PROVE  LET r == Remember(number)
             cut == IF Len(seen) = Window THEN 1 ELSE 0 IN
         /\ r \in Seq(Nat)
         /\ Len(r) = Len(seen) + 1 - cut
         /\ \A k \in 1..(Len(seen) - cut) : r[k] = seen[k + cut]
         /\ r[Len(seen) + 1 - cut] = number
<1> DEFINE longer == Append(seen, number)
<1>1. /\ longer \in Seq(Nat) /\ longer # << >>
      /\ Len(longer) = Len(seen) + 1
      /\ \A k \in 1..Len(seen) : longer[k] = seen[k]
      /\ longer[Len(seen) + 1] = number
  BY AppendProperties
<1>2. Len(seen) \in Nat /\ Window \in Nat \ {0}
  BY LenProperties, TrailAssumption
<1>3. /\ Tail(longer) \in Seq(Nat)
      /\ Len(Tail(longer)) = Len(seen)
      /\ \A k \in 1..Len(seen) : Tail(longer)[k] = longer[k + 1]
  BY <1>1, <1>2, HeadTailProperties
<1>4. Remember(number) = IF Len(seen) = Window THEN Tail(longer) ELSE longer
  BY <1>1, <1>2 DEF Remember
<1> HIDE DEF longer
<1> QED
  BY <1>1, <1>2, <1>3, <1>4

\* The places of a window of len entries, before and after it has slid by one.
LEMMA Places1 ==
  ASSUME NEW len \in Nat, NEW cut \in {0, 1}, NEW k \in 1..(len + 1 - cut),
         k # len + 1 - cut
  PROVE  k \in 1..(len - cut) /\ k + cut \in 1..len
OBVIOUS

LEMMA Places2 ==
  ASSUME NEW len \in Nat, NEW now \in Nat, NEW h \in Nat, h <= now, h > now - len
  PROVE  h - (now - len) \in 1..len
OBVIOUS

LEMMA Places3 ==
  ASSUME NEW len \in Nat, NEW cut \in {0, 1}, NEW now \in Nat, NEW h \in Nat, NEW k,
         h <= now, h > (now + 1) - (len + 1 - cut),
         k = h - ((now + 1) - (len + 1 - cut))
  PROVE  k \in 1..(len - cut) /\ k + cut = h - (now - len) /\ h > now - len
OBVIOUS

\* An event that is new goes to the handler and into the window.
LEMMA NewIsRemembered ==
  ASSUME TypeOK, WindowIsRecent, UNCHANGED <<sent, Sent>>, NEW i \in Sent,
         sent[i].number \notin ToSet(seen), IsNew(i)
  PROVE  /\ seen' \in Seq(Nat) /\ news' \in Nat /\ handled' \in [Sent -> Nat]
         /\ WindowIsRecent'
         /\ SeenAgainLate
         /\ handled'[i] # 0
         /\ \A j \in Sent : handled[j] # 0 => handled'[j] # 0
<1> DEFINE n == sent[i].number
           cut == IF Len(seen) = Window THEN 1 ELSE 0
<1>1. /\ seen' = Remember(n) /\ news' = news + 1
      /\ handled' = [handled EXCEPT ![i] = news + 1]
  BY DEF IsNew
<1>2. /\ news \in Nat /\ n \in Nat /\ Window \in Nat \ {0} /\ Len(seen) \in Nat
      /\ handled \in [Sent -> Nat] /\ DOMAIN seen = 1..Len(seen)
      /\ Len(seen) <= Window /\ Len(seen) <= news
  <2>1. sent[i] \in Event /\ Len(seen) \in Nat /\ DOMAIN seen = 1..Len(seen)
    BY TypeFacts
  <2>2. n \in Nat
    BY <2>1 DEF Event
  <2>3. news \in Nat /\ Window \in Nat \ {0} /\ handled \in [Sent -> Nat]
    BY TrailAssumption DEF TypeOK
  <2>4. Len(seen) <= Window /\ Len(seen) <= news
    BY <2>3 DEF WindowIsRecent
  <2> QED
    BY <2>1, <2>2, <2>3, <2>4
<1>3. /\ seen' \in Seq(Nat)
      /\ Len(seen') = Len(seen) + 1 - cut
      /\ \A k \in 1..(Len(seen) - cut) : seen'[k] = seen[k + cut]
      /\ seen'[Len(seen) + 1 - cut] = n
  BY <1>1, <1>2, Remembered DEF TypeOK
<1>3a. cut \in {0, 1} /\ (cut = 1 <=> Len(seen) = Window)
  OBVIOUS
<1>3b. /\ news \in Nat /\ Len(seen) \in Nat /\ cut \in {0, 1}
       /\ Len(seen') = Len(seen) + 1 - cut /\ news' = news + 1
  BY <1>1, <1>2, <1>3, <1>3a
<1> HIDE DEF cut, n
<1>4. handled' \in [Sent -> Nat] /\ handled'[i] = news + 1
      /\ \A j \in Sent \ {i} : handled'[j] = handled[j]
  BY <1>1, <1>2
<1>5. Len(seen') = IF news' < Window THEN news' ELSE Window
  BY <1>1, <1>2, <1>3, <1>3a DEF WindowIsRecent
<1>7. ASSUME NEW j \in Sent
      PROVE  /\ handled'[j] <= news'
             /\ handled'[j] > news' - Len(seen') =>
                  seen'[handled'[j] - (news' - Len(seen'))] = sent[j].number
  <2>1. CASE j = i
    <3>1. handled'[j] - (news' - Len(seen')) = Len(seen) + 1 - cut
      BY <1>3b, <1>4, <2>1
    <3> QED
      BY <1>3, <1>3b, <1>4, <2>1, <3>1 DEF n
  <2>2. CASE j # i
    <3>1. handled'[j] = handled[j] /\ handled[j] <= news /\ handled[j] \in Nat
      BY <1>2, <1>4, <2>2 DEF WindowIsRecent
    <3>2. ASSUME handled[j] > news' - Len(seen')
          PROVE  seen'[handled[j] - (news' - Len(seen'))] = sent[j].number
      <4> DEFINE k == handled[j] - (news' - Len(seen'))
      <4>1. /\ handled[j] > (news + 1) - (Len(seen) + 1 - cut)
            /\ k = handled[j] - ((news + 1) - (Len(seen) + 1 - cut))
        BY <1>3b, <3>2
      <4> HIDE DEF k
      <4>2. /\ k \in 1..(Len(seen) - cut) /\ k + cut = handled[j] - (news - Len(seen))
            /\ handled[j] > news - Len(seen)
        <5>1. /\ Len(seen) \in Nat /\ cut \in {0, 1} /\ news \in Nat
              /\ handled[j] \in Nat /\ handled[j] <= news
          BY <1>3b, <3>1
        <5> QED
          BY <4>1, <5>1, Places3
      <4>3. seen[handled[j] - (news - Len(seen))] = sent[j].number
        BY <4>2 DEF WindowIsRecent
      <4> QED
        BY <1>3, <4>2, <4>3 DEF k
    <3> QED
      BY <1>1, <1>2, <3>1, <3>2
  <2> QED
    BY <2>1, <2>2
<1>8. ASSUME NEW k \in 1..Len(seen')
      PROVE  \E j \in Sent : handled'[j] # 0 /\ sent[j].number = seen'[k]
  <2>1. CASE k = Len(seen) + 1 - cut
    <3>1. handled'[i] # 0 /\ seen'[k] = sent[i].number
      BY <1>3, <1>3b, <1>4, <2>1 DEF n
    <3> QED
      BY <3>1
  <2>2. CASE k # Len(seen) + 1 - cut
    <3>1. k \in 1..(Len(seen) - cut) /\ k + cut \in 1..Len(seen)
      BY <1>3b, <2>2, Places1
    <3>2. PICK j \in Sent : handled[j] # 0 /\ sent[j].number = seen[k + cut]
      BY <3>1 DEF WindowIsRecent
    <3>3. handled'[j] # 0
      BY <1>2, <1>4, <3>2, j = i \/ j # i
    <3> QED
      BY <1>3, <3>1, <3>2, <3>3
  <2> QED
    BY <2>1, <2>2
<1>9. WindowIsRecent'
  BY <1>5, <1>7, <1>8 DEF WindowIsRecent
<1>10. SeenAgainLate
  <2>1. ASSUME handled[i] # 0
        PROVE  news + 1 > handled[i] + Window
    <3>1. handled[i] \in Nat /\ handled[i] <= news
      BY <1>2 DEF WindowIsRecent
    <3>2. ~(handled[i] > news - Len(seen))
      <4>1. ASSUME handled[i] > news - Len(seen)
            PROVE  n \in ToSet(seen)
        <5>1. handled[i] - (news - Len(seen)) \in 1..Len(seen)
          BY <1>2, <3>1, <4>1, Places2
        <5>2. seen[handled[i] - (news - Len(seen))] = n
          BY <4>1 DEF WindowIsRecent, n
        <5> QED
          BY <1>2, <5>1, <5>2 DEF ToSet
      <4> QED
        BY <4>1 DEF n
    <3>3. Len(seen) = Window
      BY <1>2, <2>1, <3>1, <3>2 DEF WindowIsRecent
    <3> QED
      BY <1>2, <3>1, <3>2, <3>3
  <2> QED
    BY <1>2, <1>4, <2>1 DEF SeenAgainLate
<1> QED
  BY <1>1, <1>2, <1>3, <1>4, <1>9, <1>10

LEMMA ReceiveKeepsInv ==
  ASSUME Inv, NEW i \in Sent, Receive(i)
  PROVE  Inv' /\ SeenAgainLate
<1>1. UNCHANGED <<emitter, sent, Sent, numbers, events, Stored>> /\ Reach(i, "sdk")
  BY DEF Receive, Sent, Stored
<1>2. /\ deliveries' \in Nat
      /\ reached' \in [Places -> SUBSET Sent]
      /\ reached'.sdk = reached.sdk \cup {i} /\ reached'.ledger = reached.ledger
  BY <1>1, ReachFacts DEF Inv, Places
<1>3. /\ seen' \in Seq(Nat) /\ news' \in Nat /\ handled' \in [Sent -> Nat]
      /\ WindowIsRecent'
      /\ SeenAgainLate
      /\ \E j \in Sent : handled'[j] # 0 /\ sent[j].number = sent[i].number
      /\ \A j \in Sent : handled[j] # 0 => handled'[j] # 0
  <2>1. CASE sent[i].number \in ToSet(seen)
    <3>1. UNCHANGED <<seen, handled, news>>
      BY <2>1 DEF Receive, IsNew
    <3>2. \E j \in Sent : handled[j] # 0 /\ sent[j].number = sent[i].number
      BY <2>1, TypeFacts DEF Inv, WindowIsRecent, ToSet
    <3> QED
      BY <1>1, <3>1, <3>2 DEF Inv, WindowIsRecent, SeenAgainLate, TypeOK
  <2>2. CASE sent[i].number \notin ToSet(seen)
    BY <1>1, <2>2, NewIsRemembered DEF Inv, Receive
  <2> QED
    BY <2>1, <2>2
<1>4. TypeOK'
  BY <1>1, <1>2, <1>3 DEF Inv, TypeOK
<1>5. NumberIsHandled'
  <2>1. reached.sdk \subseteq Sent
    BY DEF Inv, TypeOK, Places
  <2> QED
    BY <1>1, <1>2, <1>3, <2>1 DEF Inv, NumberIsHandled
<1>6. LedgerIsWhatCame' /\ Wordings'
  BY <1>1, <1>2 DEF Inv, LedgerIsWhatCame, Of, Wordings
<1> QED
  BY <1>3, <1>4, <1>5, <1>6 DEF Inv

-----------------------------------------------------------------------------
(* The invariant.                                                           *)

LEMMA InitIsInv == Init => Inv
<1> SUFFICES ASSUME Init PROVE Inv
  OBVIOUS
<1>1. Len(sent) = 0 /\ Sent = {} /\ Stored = {}
  BY DEF Init, Sent, Stored, ToSet
<1>2. TypeOK
  BY <1>1, TrailAssumption DEF Init, TypeOK
<1>3. WindowIsRecent
  BY <1>1, TrailAssumption DEF Init, WindowIsRecent
<1>4. LedgerIsWhatCame
  BY <1>1 DEF Init, LedgerIsWhatCame, Places
<1> QED
  BY <1>1, <1>2, <1>3, <1>4 DEF Init, Inv, Wordings, NumberIsHandled, Places

LEMMA StepKeepsInv ==
  ASSUME Inv, [Next]_vars
  PROVE  Inv' /\ [SeenAgainLate]_vars
<1>1. ASSUME NEW p \in Proposals, NEW what \in {"proposed", "executed", "refused"},
             NEW words \in Words \cup {None}, Emit(p, what, words)
      PROVE  Inv' /\ SeenAgainLate
  BY <1>1, EmitKeepsInv
<1>2. ASSUME NEW i \in Sent, Ingest(i) \/ Receive(i)
      PROVE  Inv' /\ SeenAgainLate
  BY <1>2, IngestKeepsInv, ReceiveKeepsInv
<1>3. ASSUME NEW a \in Adapters, Restart(a)
      PROVE  Inv' /\ SeenAgainLate
  <2>1. UNCHANGED <<emitter, sent, Sent, events, Stored, seen, reached, deliveries,
                    handled, news>>
    BY <1>3 DEF Restart, Sent, Stored
  <2>2. numbers' \in [Adapters -> Nat]
    BY <1>3 DEF Restart, Inv, TypeOK
  <2> QED
    BY <2>1, <2>2 DEF Inv, TypeOK, Wordings, LedgerIsWhatCame, Of, WindowIsRecent,
                      NumberIsHandled, SeenAgainLate
<1>4. CASE UNCHANGED vars
  BY <1>4 DEF vars, Inv, TypeOK, Sent, Wordings, LedgerIsWhatCame, Of, Stored,
              WindowIsRecent, NumberIsHandled
<1> QED
  BY <1>1, <1>2, <1>3, <1>4 DEF Next

-----------------------------------------------------------------------------
(* The views.                                                               *)

\* Some rows of the ledger have a first and a last.
LEMMA FirstIsThere ==
  ASSUME NEW S, S \subseteq Nat, S # {}
  PROVE  Min(S) \in S /\ \A x \in S : Min(S) <= x
<1>1. PICK m \in S : \A i \in S : ~(<<i, m>> \in OpToRel(<, Nat))
  BY NatLessThanWellFounded, WFMin
<1>2. ASSUME NEW i \in S PROVE m <= i
  <2>1. i \in Nat /\ m \in Nat /\ ~(i < m)
    BY <1>1, <1>2 DEF OpToRel
  <2> QED  BY <2>1
<1> QED  BY <1>2 DEF Min

LEMMA LastIsThere ==
  ASSUME NEW n \in Nat, NEW S, S \subseteq 1..n, S # {}
  PROVE  Max(S) \in S /\ \A x \in S : x <= Max(S)
<1> DEFINE M == {n - i : i \in S}
<1>1. M \subseteq Nat /\ M # {}
  <2>1. \A i \in 1..n : n - i \in Nat
    OBVIOUS
  <2> QED  BY <2>1
<1>2. Min(M) \in M /\ \A y \in M : Min(M) <= y
  <2> HIDE DEF M
  <2> QED  BY <1>1, FirstIsThere
<1>3. PICK x \in S : Min(M) = n - x
  BY <1>2
<1>4. ASSUME NEW y \in S PROVE x >= y
  <2>1. n - y \in M /\ x \in 1..n /\ y \in 1..n
    BY <1>4
  <2> HIDE DEF M
  <2>2. n - x <= n - y
    BY <1>2, <1>3, <2>1
  <2> QED  BY <2>1, <2>2
<1>5. \A y \in S : y <= x
  BY <1>4
<1> QED  BY <1>4, <1>5 DEF Max

\* The rows that announce a proposal, and what they say.
LEMMA AnnouncingIs ==
  ASSUME Inv, NEW r \in DOMAIN events
  PROVE  /\ Announcing(r) \subseteq 1..Len(events) /\ Len(events) \in Nat
         /\ Announcing(r) # {} => Min(Announcing(r)) \in Announcing(r)
                                  /\ Max(Announcing(r)) \in Announcing(r)
         /\ \A q \in Announcing(r) : Of(q).words # None
         /\ Of(r).words # None => r \in Announcing(r)
<1>1. /\ DOMAIN events = 1..Len(events) /\ Len(events) \in Nat
      /\ \A q \in DOMAIN events : events[q] \in Sent
  BY TypeFacts DEF Inv
<1>2. Announcing(r) \subseteq 1..Len(events) /\ Announcing(r) \subseteq Nat
  BY <1>1 DEF Announcing
<1>3. \A q \in DOMAIN events : Of(q).event = "proposed" <=> Of(q).words # None
  BY <1>1 DEF Inv, Wordings, Of
<1>4. Announcing(r) # {} => Min(Announcing(r)) \in Announcing(r)
                            /\ Max(Announcing(r)) \in Announcing(r)
  BY <1>1, <1>2, FirstIsThere, LastIsThere
<1> QED  BY <1>1, <1>2, <1>3, <1>4 DEF Announcing

LEMMA ViewsTellWhatCame ==
  ASSUME Inv
  PROVE  ViewsAgree
<1> SUFFICES ASSUME NEW n \in 1..Len(events), NEW r \in Newest(n)
             PROVE  LET Said(places) == {sent[i].words : i \in {j \in places :
                                  sent[j].proposal = Of(r).proposal /\ sent[j].event = "proposed"}}
                        told == Said(Sent)
                        come == Said({i \in reached.ledger : sent[i].tag = "id"})
                    IN /\ {Detail(r).verb, Detail(r).preview} \subseteq told \cup {None}
                       /\ Recent(n)[r] \in told \cup {Entity, None}
                       /\ come # {} =>
                            {Recent(n)[r], Detail(r).verb, Detail(r).preview} \subseteq told
  BY DEF ViewsAgree
<1> DEFINE told == {sent[i].words : i \in {j \in Sent :
                      sent[j].proposal = Of(r).proposal /\ sent[j].event = "proposed"}}
           A == Announcing(r)
           first == IF A # {} THEN Of(Min(A)).words ELSE None
           last == IF A # {} THEN Of(Max(A)).words
                   ELSE IF Of(r).event = "executed" THEN Entity ELSE None
           own == Of(r).words
<1>1. r \in DOMAIN events
  BY DEF Newest
<1>2. \A q \in A : Of(q).words \in told
  <2>1. \A q \in DOMAIN events : events[q] \in Sent
    BY TypeFacts DEF Inv
  <2> QED  BY <2>1 DEF Announcing, Of
<1>3. /\ A # {} => Min(A) \in A /\ Max(A) \in A
      /\ \A q \in A : Of(q).words # None
      /\ own # None => r \in A
  BY <1>1, AnnouncingIs
<1>4. /\ Detail(r).verb = OrElse(own, first) /\ Detail(r).preview = OrElse(first, own)
      /\ Recent(n)[r] = OrElse(own, last)
  BY DEF Detail, Recent
<1>5. ASSUME NEW i \in reached.ledger, sent[i].tag = "id", sent[i].proposal = Of(r).proposal,
             sent[i].event = "proposed"
      PROVE  A # {}
  <2>1. i \in Stored
    BY <1>5 DEF Inv, LedgerIsWhatCame
  <2>2. PICK q \in DOMAIN events : events[q] = i
    BY <2>1, TypeFacts DEF Inv, Stored, ToSet
  <2> QED  BY <1>5, <2>2 DEF Announcing, Of
<1>6. A # {} => first \in told /\ last \in told /\ first # None
  BY <1>2, <1>3
<1>7. own # None => own \in told /\ A # {}
  BY <1>2, <1>3
<1>8. A = {} => first = None /\ last \in {Entity, None}
  OBVIOUS
<1> HIDE DEF A, first, last, own, told
<1>9. /\ {OrElse(own, first), OrElse(first, own)} \subseteq told \cup {None}
      /\ OrElse(own, last) \in told \cup {Entity, None}
      /\ A # {} => {OrElse(own, last), OrElse(own, first), OrElse(first, own)} \subseteq told
  BY <1>6, <1>7, <1>8 DEF OrElse
<1> QED  BY <1>4, <1>5, <1>9 DEF told

\* A row more leaves what was there.
LEMMA RowsStay ==
  ASSUME Inv, NEW i \in Sent, sent' = sent, events' = Append(events, i), NEW r \in DOMAIN events
  PROVE  /\ Len(events) \in Nat /\ Len(events') = Len(events) + 1
         /\ DOMAIN events = 1..Len(events)
         /\ DOMAIN events' = DOMAIN events \cup {Len(events) + 1}
         /\ \A q \in DOMAIN events : sent'[events'[q]] = sent[events[q]]
         /\ Announcing(r)' \in {Announcing(r), Announcing(r) \cup {Len(events) + 1}}
<1>1. events \in Seq(Sent) /\ DOMAIN events = 1..Len(events) /\ Len(events) \in Nat
  BY TypeFacts DEF Inv, TypeOK
<1>2. /\ Len(events') = Len(events) + 1 /\ DOMAIN events' = 1..(Len(events) + 1)
      /\ \A q \in 1..Len(events) : events'[q] = events[q]
  BY <1>1, Appended
<1>3. DOMAIN events' = DOMAIN events \cup {Len(events) + 1}
  BY <1>1, <1>2
<1>4. \A q \in DOMAIN events : sent'[events'[q]] = sent[events[q]]
  BY <1>1, <1>2
<1>5. Announcing(r)' \in {Announcing(r), Announcing(r) \cup {Len(events) + 1}}
  BY <1>1, <1>3, <1>4 DEF Announcing, Of
<1> QED  BY <1>1, <1>2, <1>3, <1>4, <1>5

\* So no row's story changes but for the better.
LEMMA StoryStaysAt ==
  ASSUME Inv, NEW i \in Sent, sent' = sent, events' = Append(events, i), NEW r \in DOMAIN events
  PROVE  /\ Detail(r).preview # None => Detail(r)' = Detail(r)
         /\ \A n \in 1..Len(events) : r \in Newest(n) \cap Newest(n)' =>
              /\ Recent(n)[r]' # Recent(n)[r] => Len(events') \in Announcing(r)' \ Announcing(r)
              /\ System(n, r) # None /\ System(n, r)' = None => \A q \in Executing(n, r) : q < r
<1> DEFINE k == Len(events)
           A == Announcing(r)
           B == Announcing(r)'
           own == Of(r).words
<1>1. /\ k \in Nat /\ Len(events') = k + 1 /\ DOMAIN events = 1..k
      /\ DOMAIN events' = DOMAIN events \cup {k + 1}
      /\ \A q \in DOMAIN events : sent'[events'[q]] = sent[events[q]]
      /\ B \in {A, A \cup {k + 1}}
  BY RowsStay
<1>2. /\ A \subseteq 1..k
      /\ A # {} => Min(A) \in A /\ Max(A) \in A
      /\ \A q \in A : Of(q).words # None
      /\ own # None => r \in A
      /\ A \subseteq DOMAIN events
  BY <1>1, AnnouncingIs
<1>3. ASSUME A # {} PROVE Min(B) = Min(A)
  <2>1. /\ Min(A) \in A /\ \A x \in A : Min(A) <= x
        /\ Min(B) \in B /\ \A x \in B : Min(B) <= x
    <3>1. A \subseteq Nat /\ B \subseteq Nat /\ B # {}
      BY <1>1, <1>2, <1>3
    <3> HIDE DEF A, B
    <3> QED  BY <1>3, <3>1, FirstIsThere
  <2> HIDE DEF A, B, k
  <2>2. Min(A) \in 1..k /\ Min(B) <= Min(A)
    BY <1>1, <1>2, <2>1
  <2>3. Min(B) \in A
    BY <1>1, <2>1, <2>2
  <2>4. Min(B) \in 1..k /\ Min(A) <= Min(B)
    BY <1>2, <2>1, <2>3
  <2> QED  BY <1>1, <2>2, <2>4
<1>4. ASSUME Detail(r).preview # None PROVE Detail(r)' = Detail(r)
  <2>1. A # {}
    BY <1>2, <1>4 DEF Detail, OrElse
  <2>2. Min(B) = Min(A) /\ Min(A) \in DOMAIN events /\ B # {}
    BY <1>1, <1>2, <1>3, <2>1
  <2>3. Detail(r) = [verb |-> OrElse(own, Of(Min(A)).words), preview |-> OrElse(Of(Min(A)).words, own)]
    BY <2>1 DEF Detail
  <2>4. Detail(r)' = [verb |-> OrElse(sent'[events'[r]].words, sent'[events'[Min(B)]].words),
                      preview |-> OrElse(sent'[events'[Min(B)]].words, sent'[events'[r]].words)]
    BY <2>2 DEF Detail, Of, OrElse
  <2> HIDE DEF A, B
  <2> QED  BY <1>1, <2>2, <2>3, <2>4 DEF Of
<1>5. ASSUME NEW n \in 1..k, r \in Newest(n), r \in Newest(n)', Recent(n)[r]' # Recent(n)[r]
      PROVE  Len(events') \in B \ A
  <2>1. Recent(n)[r] = OrElse(own, IF A # {} THEN Of(Max(A)).words
                                   ELSE IF Of(r).event = "executed" THEN Entity ELSE None)
    BY <1>5 DEF Recent
  <2>2. Recent(n)[r]' = OrElse(sent'[events'[r]].words,
          IF B # {} THEN sent'[events'[Max(B)]].words
          ELSE IF sent'[events'[r]].event = "executed" THEN Entity ELSE None)
    BY <1>5 DEF Recent, Of, OrElse
  <2>3. ASSUME B = A PROVE FALSE
    <3>1. A # {} => Max(A) \in DOMAIN events
      BY <1>2
    <3> HIDE DEF A, B
    <3> QED  BY <1>1, <1>5, <2>1, <2>2, <2>3, <3>1 DEF Of
  <2> HIDE DEF A, B
  <2> QED  BY <1>1, <1>2, <2>3
<1>6. ASSUME NEW n \in 1..k, r \in Newest(n), r \in Newest(n)', System(n, r)' = None,
             NEW q \in Executing(n, r)
      PROVE  q < r
  <2> DEFINE E == Executing(n, r)'
  <2>1. E \subseteq DOMAIN events' /\ E \subseteq Nat
    BY <1>1 DEF Executing, Newest
  <2>2. E = {}
    <3>1. System(n, r)' = IF E = {} THEN None ELSE sent'[events'[Min(E)]].adapter
      BY DEF System, Of
    <3>2. \A x \in DOMAIN events' : events'[x] \in Sent
      <4>1. events \in Seq(Sent)
        BY DEF Inv, TypeOK
      <4>2. events' \in Seq(Sent)
        BY <4>1, Appended
      <4> QED  BY <4>2, ElementOfSeq, LenProperties
    <3>3. \A j \in Sent : sent'[j].adapter \in Adapters
      BY TypeFacts DEF Inv, Event
    <3>4. E # {} => Min(E) \in E
      <4> HIDE DEF E
      <4> QED  BY <2>1, FirstIsThere
    <3> HIDE DEF E
    <3>5. E # {} => System(n, r)' \in Adapters
      BY <2>1, <3>1, <3>2, <3>3, <3>4
    <3> QED  BY <1>6, <3>5, TrailAssumption
  <2>3. q \in DOMAIN events /\ Of(q).proposal = Of(r).proposal /\ Of(q).event = "executed"
    BY DEF Executing, Newest
  <2>4. q \in DOMAIN events' /\ q \notin Newest(n)'
    BY <1>1, <2>2, <2>3 DEF Executing, Of
  <2>5. ~(q > (k + 1) - n) /\ r > (k + 1) - n
    BY <1>1, <1>6, <2>4 DEF Newest
  <2> QED  BY <1>1, <2>3, <2>5
<1> QED  BY <1>1, <1>4, <1>5, <1>6

LEMMA StoriesStay ==
  ASSUME Inv, [Next]_vars
  PROVE  [StoryStays]_events
<1> SUFFICES ASSUME events' # events PROVE StoryStays
  OBVIOUS
<1>1. PICK i \in Sent : sent' = sent /\ events' = Append(events, i)
  <2>1. PICK i \in Sent : Ingest(i)
    BY DEF Next, vars, Emit, Restart, Receive
  <2> QED  BY <2>1 DEF Ingest
<1> QED  BY <1>1, StoryStaysAt DEF StoryStays

-----------------------------------------------------------------------------
(* Theorems.                                                                *)

\* The ledger has every event that reached it with an id, and has it once, however
\* often and in whatever order events are delivered (EventStore.insert).
THEOREM LedgerHoldsWhatCame == Spec => []LedgerIsWhatCame
<1>1. Inv => LedgerIsWhatCame
  BY DEF Inv
<1> QED
  BY <1>1, InitIsInv, StepKeepsInv, PTL DEF Spec

\* The SDK's handler misses an event only when one with the same number came before it,
\* and sees one again only after a full window of others (EventDeduper.is_new).
THEOREM DeduperIsSound == Spec => DeduperKeepsItsWindow
<1>1. Inv => NumberIsHandled
  BY DEF Inv
<1> QED
  BY <1>1, InitIsInv, StepKeepsInv, PTL DEF Spec, DeduperKeepsItsWindow

\* What the views tell of a proposal was announced, and is not told otherwise by what
\* comes later, but for the timeline, where the latest announcement counts
\* (EventStore.recent, detail and adapters).
THEOREM StoriesAreKept == Spec => StoriesHold
<1>1. Inv => ViewsAgree
  BY ViewsTellWhatCame
<1>2. Inv /\ [Next]_vars => [StoryStays]_events
  BY StoriesStay
<1> QED
  BY <1>1, <1>2, InitIsInv, StepKeepsInv, PTL DEF Spec, StoriesHold
=============================================================================
