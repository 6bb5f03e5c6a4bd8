--------------------------- MODULE Toolkit_proofs ---------------------------
(***************************************************************************)
(* What an integrator's toolkit keeps, whatever its jobs are about.  The   *)
(* circuit breaker opens only for failures that came, for any number of    *)
(* calls; a word that is offered or previewed stays one that resolves; a   *)
(* manifest that is learned, layered and overlaid, and the ledger, keep    *)
(* what was put into them; the answers to an agent's intents agree; and    *)
(* the conformance test tells a faithful shim from a broken one.           *)
(***************************************************************************)
EXTENDS Toolkit, FiniteSetTheorems, SequenceTheorems, FunctionTheorems, WellFoundedInduction,
        TLAPS

\* Some natural numbers have a least.
LEMMA LeastIsThere ==
  ASSUME NEW S, S \subseteq Nat, S # {}
  PROVE  Choice!Min(S) \in S /\ Lore!Min(S) \in S
<1>1. PICK m \in S : \A i \in S : ~(<<i, m>> \in OpToRel(<, Nat))
  BY NatLessThanWellFounded, WFMin
<1>2. ASSUME NEW i \in S PROVE m <= i
  <2>1. i \in Nat /\ m \in Nat /\ ~(i < m)
    BY <1>1, <1>2 DEF OpToRel
  <2> QED  BY <2>1
<1> QED  BY <1>2 DEF Choice!Min, Lore!Min
-----------------------------------------------------------------------------
(* The circuit breaker.                                                     *)

\* A batch that is being worked has a sentence left.
Unfinished == \A c \in Calls : call[c].pc \in {"sent", "backoff"} =>
  call[c].answered < Sentences

\* A call that has sent its request into an open breaker is not about to send another.
Quiet == \A c \in Calls :
  /\ ~Open => late[c] = 0
  /\ late[c] # 0 => late[c] = 1 /\ call[c].pc # "backoff"

Inv == TypeOK /\ Unfinished /\ OpenIsEarned /\ Quiet

\* Recording a failure keeps the breaker's part of the invariant.
LEMMA FailureIsCounted ==
  ASSUME TypeOK, OpenIsEarned, RecordFailure
  PROVE  /\ failures' \in Nat /\ streak' \in Nat
         /\ opened_at' \in (0..MaxTime) \cup {Never}
         /\ opened_at' # Never => streak' >= Threshold
         /\ failures' <= streak'
  BY TransportAssumption DEF TypeOK, OpenIsEarned, RecordFailure, HalfOpen

\* So does recording a success.
LEMMA SuccessIsCounted ==
  ASSUME RecordSuccess
  PROVE  /\ failures' \in Nat /\ streak' \in Nat
         /\ opened_at' \in (0..MaxTime) \cup {Never}
         /\ opened_at' # Never => streak' >= Threshold
         /\ failures' <= streak'
         /\ ~Open'
  BY TransportAssumption DEF RecordSuccess, Open

\* What an attempt makes of a call.
LEMMA AttemptIsCall ==
  ASSUME NEW entry \in Call, NEW attempt \in 0..MaxRetries, NEW allowed \in BOOLEAN,
         NEW pc \in {"sent", "backoff"}
  PROVE  /\ Attempt(entry, attempt, allowed, pc) \in Call
         /\ Attempt(entry, attempt, allowed, pc).answered = entry.answered
         /\ Attempt(entry, attempt, allowed, pc).pc = IF allowed THEN pc ELSE "open"
  BY DEF Attempt, Call

\* The history of late requests is what Observe says, whatever was done.
LEMMA LateIsTyped ==
  ASSUME TypeOK, Observe
  PROVE  late' \in [Calls -> Nat]
  BY DEF TypeOK, Observe

\* The breaker opens only when at least Threshold failures have come in a row, and an
\* open breaker sees at most one request more of each call.
THEOREM BreakerIsSound == Spec => [](TypeOK /\ BreakerHolds)
<1>1. Init => Inv
  BY TransportAssumption
  DEF Init, Inv, TypeOK, Unfinished, OpenIsEarned, Quiet, Call
<1>2. Inv /\ [Next]_vars => Inv'
  <2> SUFFICES ASSUME Inv, [Next]_vars PROVE Inv'
    OBVIOUS
  <2> USE DEF Inv
  <2>1. ASSUME NEW c \in Calls, Wake(c), Observe PROVE Inv'
    <3>1. TypeOK'
      BY <2>1, LateIsTyped DEF TypeOK, Wake, Call, breaker
    <3>2. Unfinished' /\ OpenIsEarned'
      BY <2>1 DEF TypeOK, Unfinished, OpenIsEarned, Wake, Call, breaker
    <3>3. Open' <=> Open
      BY <2>1 DEF Wake, breaker, Open
    <3>4. Quiet'
      BY <2>1, <3>3 DEF TypeOK, Quiet, Wake, Call, Observe, Sends
    <3> QED  BY <3>1, <3>2, <3>4
  <2>2. ASSUME NEW c \in Calls, Failed(c), Observe PROVE Inv'
    <3>0. RecordFailure /\ clock' = clock /\ call[c].pc = "sent"
      BY <2>2 DEF Failed
    <3> DEFINE new == IF call[c].attempt = MaxRetries
                      THEN [call[c] EXCEPT !.pc = "split"]
                      ELSE Attempt(call[c], call[c].attempt + 1, ~Open', "backoff")
    <3>1. call' = [call EXCEPT ![c] = new]
      BY <2>2 DEF Failed, TypeOK
    <3>2. new \in Call /\ new.answered = call[c].answered /\ new.pc # "sent"
          /\ (Open' => new.pc # "backoff")
      <4>1. CASE call[c].attempt = MaxRetries
        BY <4>1, <3>0 DEF TypeOK, Call
      <4>2. CASE call[c].attempt # MaxRetries
        <5>1. call[c] \in Call /\ call[c].attempt + 1 \in 0..MaxRetries /\ (~Open') \in BOOLEAN
          BY <4>2, TransportAssumption DEF TypeOK, Call, Open
        <5> QED  BY <4>2, <5>1, AttemptIsCall
      <4> QED  BY <4>1, <4>2
    <3> HIDE DEF new
    <3>3. TypeOK'
      BY <3>0, <3>1, <3>2, <2>2, FailureIsCounted, LateIsTyped DEF TypeOK
    <3>4. Unfinished' /\ OpenIsEarned'
      BY <3>0, <3>1, <3>2, FailureIsCounted DEF TypeOK, Unfinished, OpenIsEarned
    <3>5. Quiet'
      BY <2>2, <3>1, <3>2, <3>0 DEF TypeOK, Quiet, Observe, Sends
    <3> QED  BY <3>3, <3>4, <3>5
  <2>3. ASSUME NEW c \in Calls, Rejected(c), Observe PROVE Inv'
    <3>1. TypeOK'
      BY <2>3, LateIsTyped DEF TypeOK, Rejected, Call, breaker
    <3>2. Unfinished' /\ OpenIsEarned'
      BY <2>3 DEF TypeOK, Unfinished, OpenIsEarned, Rejected, Call, breaker
    <3>3. Open' <=> Open
      BY <2>3 DEF Rejected, breaker, Open
    <3>4. Quiet'
      BY <2>3, <3>3 DEF TypeOK, Quiet, Rejected, Call, Observe, Sends
    <3> QED  BY <3>1, <3>2, <3>4
  <2>4. ASSUME NEW c \in Calls, Answered(c), Observe PROVE Inv'
    <3>0. RecordSuccess /\ clock' = clock /\ call[c].pc = "sent"
      BY <2>4 DEF Answered
    <3>1. PICK new \in Call : /\ call' = [call EXCEPT ![c] = new]
                              /\ new.pc \in {"sent", "backoff"} => new.answered < Sentences
      <4>1. call[c] \in Call /\ call[c].answered < Sentences
        BY <3>0 DEF TypeOK, Unfinished
      <4>2. CASE call' = [call EXCEPT ![c].pc = "rejected"]
        <5> DEFINE new == [call[c] EXCEPT !.pc = "rejected"]
        <5>1. new \in Call /\ new.pc = "rejected"
          BY <4>1 DEF Call
        <5>2. call' = [call EXCEPT ![c] = new]
          BY <4>2 DEF TypeOK
        <5> QED  BY <5>1, <5>2
      <4>3. CASE call[c].answered + 1 = Sentences
                 /\ call' = [call EXCEPT ![c].answered = @ + 1, ![c].attempt = 0,
                                         ![c].pc = "answered"]
        <5> DEFINE new == [call[c] EXCEPT !.answered = call[c].answered + 1, !.attempt = 0,
                                          !.pc = "answered"]
        <5>0. call[c].answered + 1 \in 0..Sentences /\ 0 \in 0..MaxRetries
          BY <4>1, <4>3, TransportAssumption DEF Call
        <5>1. new \in Call
          BY <4>1, <5>0 DEF Call
        <5>2. call' = [call EXCEPT ![c] = new] /\ new.pc = "answered"
          BY <4>1, <4>3 DEF TypeOK, Call
        <5> QED  BY <5>1, <5>2
      <4>4. CASE call[c].answered + 1 # Sentences
                 /\ call' = [call EXCEPT ![c].answered = @ + 1, ![c].attempt = 0,
                                         ![c].pc = "sent"]
        <5> DEFINE new == [call[c] EXCEPT !.answered = call[c].answered + 1, !.attempt = 0,
                                          !.pc = "sent"]
        <5>0. /\ call[c].answered + 1 \in 0..Sentences /\ 0 \in 0..MaxRetries
              /\ call[c].answered + 1 < Sentences
          BY <4>1, <4>4, TransportAssumption DEF Call
        <5>1. new \in Call /\ new.answered < Sentences
          BY <4>1, <5>0 DEF Call
        <5>2. call' = [call EXCEPT ![c] = new]
          BY <4>1, <4>4 DEF TypeOK, Call
        <5> QED  BY <5>1, <5>2
      <4> QED  BY <2>4, <4>2, <4>3, <4>4 DEF Answered, TypeOK
    <3>2. TypeOK'
      BY <3>0, <3>1, <2>4, SuccessIsCounted, LateIsTyped DEF TypeOK
    <3>3. Unfinished' /\ OpenIsEarned'
      BY <3>0, <3>1, SuccessIsCounted DEF TypeOK, Unfinished, OpenIsEarned
    <3>4. Quiet'
      BY <2>4, <3>0, SuccessIsCounted DEF Quiet, Observe
    <3> QED  BY <3>2, <3>3, <3>4
  <2>5. ASSUME NEW c \in Calls, Post(c), Observe PROVE Inv'
    <3> DEFINE new == Attempt(Posted(call[c]), 0, ~Open, "sent")
    <3>0. clock' = clock /\ UNCHANGED breaker /\ call' = [call EXCEPT ![c] = new]
      BY <2>5 DEF Post, TypeOK
    <3>1. Posted(call[c]) \in Call /\ Posted(call[c]).answered = 0
      <4>1. call[c] \in Call /\ call[c].posts < MaxPosts
        BY <2>5 DEF Post, TypeOK
      <4>2. call[c].posts + 1 \in 0..MaxPosts /\ 0 \in 0..Sentences
        BY <4>1, TransportAssumption DEF Call
      <4> QED  BY <4>1, <4>2 DEF Posted, Call
    <3>2. new \in Call /\ new.answered = 0 /\ new.pc = IF ~Open THEN "sent" ELSE "open"
      <4>1. 0 \in 0..MaxRetries /\ (~Open) \in BOOLEAN
        BY TransportAssumption DEF Open
      <4> QED  BY ZenonT(40), <3>1, <4>1, AttemptIsCall
    <3> HIDE DEF new
    <3>3. TypeOK'
      BY <3>0, <3>2, <2>5, LateIsTyped DEF TypeOK, breaker
    <3>4. Unfinished' /\ OpenIsEarned'
      BY <3>0, <3>2, TransportAssumption DEF TypeOK, Unfinished, OpenIsEarned, breaker
    <3>5. Open' <=> Open
      BY <3>0 DEF breaker, Open
    <3>6. Quiet'
      BY <2>5, <3>0, <3>2, <3>5 DEF TypeOK, Quiet, Observe, Sends
    <3> QED  BY <3>3, <3>4, <3>6
  <2>6. ASSUME Tick, Observe PROVE Inv'
    <3>1. TypeOK' /\ Unfinished' /\ OpenIsEarned'
      BY <2>6, LateIsTyped, TransportAssumption
      DEF TypeOK, Unfinished, OpenIsEarned, Tick, breaker
    <3>2. Open' => Open
      BY <2>6, TransportAssumption DEF Tick, breaker, Open, TypeOK
    <3>3. Quiet'
      BY <2>6, <3>2 DEF TypeOK, Quiet, Tick, Observe, Sends
    <3> QED  BY <3>1, <3>3
  <2>7. CASE UNCHANGED vars
    BY <2>7 DEF vars, breaker, TypeOK, Unfinished, OpenIsEarned, Quiet, Open
  <2> QED  BY <2>1, <2>2, <2>3, <2>4, <2>5, <2>6, <2>7 DEF Next, Step, CallStep
<1>3. Inv => TypeOK /\ BreakerHolds
  BY DEF Inv, Quiet, BreakerHolds, OpenIsQuiet, TypeOK
<1> QED  BY <1>1, <1>2, <1>3, PTL DEF Spec
-----------------------------------------------------------------------------
(* Words and what they stand for.                                           *)

\* What was screened and found to resolve at a preview is still so while the table is the
\* one that was shown, and the echo is of these words.
PreviewStands ==
  chosen = "previewed" /\ table = shown =>
    /\ Choice!Unresolved(Choice!Gated) = {}
    /\ told.echo = Choice!Legible(IF request.stub THEN << >> ELSE request.values)

RequestIsPosed == "op" \in DOMAIN request /\ request.op \in Choice!Operations

ChoiceInv == table \in Tables /\ RequestIsPosed /\ PreviewStands /\ Choice!ChoicesAreKept

\* A search finds rows of the table.
LEMMA FoundIsThere ==
  ASSUME NEW v
  PROVE  /\ Choice!ByCode(v) \subseteq {i \in Choice!Places : Choice!Row(i).code = v}
         /\ Choice!ByName(v) \subseteq
              {i \in Choice!Places : <<v, Choice!Row(i).name>> \in Parts}
         /\ \A S : Choice!Preferred(S, v) \subseteq S
         /\ \A S : S # {} => Choice!Preferred(S, v) # {}
BY DEF Choice!ByCode, Choice!ByName, Choice!First, Choice!Preferred

\* A set of one has that one.
LEMMA TheSole ==
  ASSUME NEW S
  PROVE  /\ Choice!Sole(S) => S = {Choice!Only(S)}
         /\ \A i : S = {i} => Choice!Only(S) = i
BY DEF Choice!Sole, Choice!Only

\* What a word resolves to is a row's, or a number that was given.
LEMMA ResolvedIsMember ==
  ASSUME NEW v, Choice!Resolved(v) # None
  PROVE  \/ v \in Numbers
         \/ \E k \in Choice!Places :
              Choice!Resolved(v) = IF table.relation THEN Choice!Row(k).id ELSE Choice!Row(k).value
<1>1. CASE table.relation
  <2> DEFINE coded == IF v \in Short THEN Choice!ByCode(v) ELSE {}
             rows == IF coded # {} THEN coded ELSE Choice!ByName(v)
             pool == Choice!Preferred(rows, v)
  <2>1. pool \subseteq Choice!Places
    BY FoundIsThere
  <2>2. v \notin Numbers => Choice!Sole(pool) /\ Choice!Resolved(v) = Choice!Row(Choice!Only(pool)).id
    BY <1>1 DEF Choice!Resolved, Choice!ResolveReference
  <2> QED  BY <1>1, <2>1, <2>2, TheSole
<1>2. CASE ~table.relation
  <2> DEFINE hits == {Choice!Row(i).value : i \in {k \in Choice!Places : Choice!Row(k).label = v}}
  <2>1. Choice!Resolved(v) = IF v \in Choice!Keys THEN v
                             ELSE IF Choice!Sole(hits) THEN Choice!Only(hits) ELSE None
    BY <1>2 DEF Choice!Resolved, Choice!ResolveOption
  <2>2. v \notin Choice!Keys => Choice!Resolved(v) \in hits
    <3> HIDE DEF hits
    <3> QED  BY <2>1, TheSole
  <2> QED  BY <1>2, <2>1, <2>2 DEF Choice!Keys
<1> QED  BY <1>1, <1>2

\* What is offered resolves.
LEMMA CandidatesResolve ==
  ASSUME table \in Tables, NEW v, NEW c \in Choice!Candidates(v)
  PROVE  Choice!Resolved(c) # None
<1>0. /\ None \notin Numbers /\ table.relation \in BOOLEAN
      /\ \A i \in Choice!Places :
           IF table.relation THEN Choice!Row(i).id \in Numbers ELSE Choice!Row(i).value # None
  BY ToolkitAssumption DEF Choice!ConstantsAreSound, Choice!Places, Choice!Row
<1>1. CASE table.relation
  <2>1. PICK i \in Choice!ByName(v) : c = Choice!Row(i).id
    BY <1>1 DEF Choice!Candidates
  <2>2. c \in Numbers
    <3>1. i \in Choice!Places
      BY FoundIsThere
    <3> QED  BY <1>0, <1>1, <2>1, <3>1
  <2> QED  BY <1>0, <1>1, <2>2 DEF Choice!Resolved, Choice!ResolveReference
<1>2. CASE ~table.relation
  <2>1. PICK i \in Choice!Places : c = Choice!Row(i).value
    BY <1>2 DEF Choice!Candidates, Choice!First
  <2>2. c \in Choice!Keys /\ c # None
    BY <1>0, <1>2, <2>1 DEF Choice!Keys
  <2> QED  BY <1>2, <2>2 DEF Choice!Resolved, Choice!ResolveOption
<1> QED  BY <1>1, <1>2

\* What is echoed for a word is the name of the row that the word resolves to.
LEMMA EchoIsOfRow ==
  ASSUME table \in Tables, NEW v, Choice!Apart(v), Choice!Resolved(v) # None,
         NEW echo, echo # None,
         echo = IF table.relation THEN Choice!LabelFor(v) ELSE Choice!OptionLabel(v)
  PROVE  \E i \in Choice!Places :
           IF table.relation
           THEN Choice!Row(i).id = Choice!Resolved(v) /\ Choice!Label(Choice!Row(i)) = echo
           ELSE Choice!Row(i).value = Choice!Resolved(v) /\ Choice!Row(i).label = echo
<1>1. CASE table.relation /\ v \in Numbers
  <2> DEFINE places == {i \in Choice!Places : Choice!Row(i).id = v}
  <2>1. Choice!Sole(places) /\ echo = Choice!Label(Choice!Row(Choice!Only(places)))
    BY <1>1 DEF Choice!LabelFor
  <2>2. Choice!Only(places) \in places
    <3> HIDE DEF places
    <3> QED  BY <2>1, TheSole
  <2>3. Choice!Resolved(v) = v
    BY <1>1 DEF Choice!Resolved, Choice!ResolveReference
  <2> QED  BY <1>1, <2>1, <2>2, <2>3
<1>2. CASE table.relation /\ v \notin Numbers
  <2> DEFINE coded == IF v \in Short THEN Choice!ByCode(v) ELSE {}
             named == Choice!ByName(v)
             pool == Choice!Preferred(IF coded # {} THEN coded ELSE named, v)
             places == Choice!Preferred(named, v)
  <2>1. Choice!Sole(places) /\ echo = Choice!Label(Choice!Row(Choice!Only(places)))
    BY <1>2 DEF Choice!LabelFor
  <2>2. Choice!Sole(pool) /\ Choice!Resolved(v) = Choice!Row(Choice!Only(pool)).id
    BY <1>2 DEF Choice!Resolved, Choice!ResolveReference
  <2>3. coded \subseteq Choice!Places /\ named \subseteq Choice!Places
    BY FoundIsThere
  <2>4. \A i \in coded, j \in named : i = j
    BY <1>2, FoundIsThere DEF Choice!Apart
  <2>5. /\ places \subseteq named /\ (named # {} => places # {})
        /\ pool \subseteq (IF coded # {} THEN coded ELSE named)
    BY FoundIsThere
  <2>6. coded # {} => pool = places
    <3> HIDE DEF coded, named, pool, places
    <3> QED  BY <2>1, <2>2, <2>4, <2>5 DEF Choice!Sole
  <2>7. coded = {} => pool = places
    OBVIOUS
  <2>8. Choice!Only(pool) \in Choice!Places /\ pool = places
    <3> HIDE DEF coded, named, pool, places
    <3> QED  BY <2>2, <2>3, <2>5, <2>6, <2>7, TheSole
  <2> QED  BY <1>2, <2>1, <2>2, <2>8
<1>3. CASE ~table.relation
  <2> DEFINE hits == {i \in Choice!Places : v \in {Choice!Row(i).value, Choice!Row(i).label}}
             values == {Choice!Row(i).value : i \in {k \in Choice!Places : Choice!Row(k).label = v}}
             h == Choice!Min(hits)
  <2>1. hits # {} /\ echo = Choice!Row(h).label
    BY <1>3 DEF Choice!OptionLabel
  <2>2. h \in hits
    <3>1. hits \subseteq Nat
      BY ToolkitAssumption DEF Choice!ConstantsAreSound, Choice!Places
    <3> HIDE DEF hits
    <3> QED  BY <2>1, <3>1, LeastIsThere
  <2>3. Choice!Resolved(v) = IF v \in Choice!Keys THEN v
                             ELSE IF Choice!Sole(values) THEN Choice!Only(values) ELSE None
    BY <1>3 DEF Choice!Resolved, Choice!ResolveOption
  <2> HIDE DEF h
  <2>4. CASE v \in Choice!Keys
    <3>1. PICK i \in Choice!Places : Choice!Row(i).value = v
      BY <2>4 DEF Choice!Keys
    <3>2. Choice!Row(h).value = v
      BY <1>3, <2>2, <3>1 DEF Choice!Apart
    <3> QED  BY <1>3, <2>1, <2>2, <2>3, <2>4, <3>2
  <2>5. CASE v \notin Choice!Keys
    <3>1. Choice!Row(h).label = v
      BY <2>2, <2>5 DEF Choice!Keys
    <3>2. Choice!Row(h).value \in values
      BY <2>2, <3>1
    <3>3. Choice!Row(h).value = Choice!Resolved(v)
      <4> HIDE DEF values
      <4> QED  BY <2>3, <2>5, <3>2, TheSole
    <3> QED  BY <1>3, <2>1, <2>2, <3>3
  <2> QED  BY <2>4, <2>5
<1> QED  BY <1>1, <1>2, <1>3, ToolkitAssumption DEF Choice!ConstantsAreSound

\* The definitions look at the table and the request only.
LEMMA WordsStay ==
  ASSUME UNCHANGED table
  PROVE  /\ \A v : Choice!Resolved(v)' = Choice!Resolved(v)
         /\ \A values : Choice!Unresolved(values)' = Choice!Unresolved(values)
         /\ \A values : Choice!Legible(values)' = Choice!Legible(values)
<1>1. \A v : Choice!Resolved(v)' = Choice!Resolved(v)
  BY DEF Choice!Resolved, Choice!ResolveReference, Choice!ResolveOption, Choice!ByCode,
     Choice!ByName, Choice!Keys, Choice!Places, Choice!Row, Choice!Preferred
<1>2. \A v : Choice!LabelFor(v)' = Choice!LabelFor(v)
  BY DEF Choice!LabelFor, Choice!ByName, Choice!Places, Choice!Row, Choice!Preferred, Choice!Label
<1>3. \A v : Choice!OptionLabel(v)' = Choice!OptionLabel(v)
  BY DEF Choice!OptionLabel, Choice!Places, Choice!Row
<1>4. \A values : Choice!Unresolved(values)' = Choice!Unresolved(values)
  BY <1>1 DEF Choice!Unresolved
<1>5. \A values : Choice!Legible(values)' = Choice!Legible(values)
  BY <1>2, <1>3 DEF Choice!Legible
<1> QED  BY <1>1, <1>4, <1>5

\* PROPOSE screens the words, and shows the table it screened them against.
LEMMA ProposeKeeps ==
  ASSUME ChoiceInv, Choice!Propose
  PROVE  ChoiceInv'
<1>1. /\ chosen = "posed" /\ shown' = table /\ UNCHANGED <<table, request, written>>
      /\ chosen' \in {"refused", "previewed"}
  BY DEF Choice!Propose, Choice!Refuse
<1>2. chosen' = "refused" => \A c \in told'.candidates : \E v : c \in Choice!Candidates(v)
  <2>1. \A code, C : Choice!Refuse(code, C) => told'.candidates = C
    BY DEF Choice!Refuse, Choice!Nothing
  <2>2. \/ \E code : Choice!Refuse(code, {})
        \/ \E code, v : Choice!Refuse(code, Choice!Candidates(v))
        \/ chosen' = "previewed"
    BY Zenon DEF Choice!Propose
  <2> QED  BY <2>1, <2>2
<1>3. chosen' = "previewed" =>
        /\ Choice!Unresolved(Choice!Gated) = {}
        /\ told'.echo = Choice!Legible(IF request.stub THEN << >> ELSE request.values)
  BY DEF Choice!Propose, Choice!Refuse, Choice!Nothing
<1>4. PreviewStands'
  <2>1. /\ Choice!Gated' = Choice!Gated
        /\ (IF request.stub THEN << >> ELSE request.values)'
             = IF request.stub THEN << >> ELSE request.values
    BY <1>1 DEF Choice!Gated
  <2>2. Choice!Unresolved(Choice!Gated)' = Choice!Unresolved(Choice!Gated)
    BY <1>1, <2>1, WordsStay DEF Choice!Unresolved
  <2>3. Choice!Legible(IF request.stub THEN << >> ELSE request.values)'
          = Choice!Legible(IF request.stub THEN << >> ELSE request.values)
    BY <1>1, <2>1, WordsStay
  <2> QED  BY <1>3, <2>2, <2>3 DEF PreviewStands
<1>5. Choice!OfferedIsAccepted'
  BY <1>1, <1>2, WordsStay, CandidatesResolve DEF ChoiceInv, Choice!OfferedIsAccepted
<1> QED
  BY <1>1, <1>4, <1>5 DEF ChoiceInv, RequestIsPosed, Choice!ChoicesAreKept, Choice!PreviewHolds, Choice!EchoIsWritten,
     Choice!OnlyMembers

\* COMMIT resolves the words that were screened, or those that were not looked at.
LEMMA CommitKeeps ==
  ASSUME ChoiceInv, Choice!Commit
  PROVE  ChoiceInv'
<1>1. /\ chosen = "previewed" /\ UNCHANGED <<table, request, told, shown>>
      /\ \/ Choice!Fails /\ chosen' = "failed_terminal" /\ UNCHANGED written
         \/ /\ ~Choice!Fails /\ chosen' = "executed"
            /\ written' = [i \in DOMAIN Choice!Overlaid |-> Choice!Resolved(Choice!Overlaid[i])]
  BY DEF Choice!Commit
<1>2. ASSUME Choice!Fails, table = shown, ~request.stub,
             ~(request.op = "delete" \/ (request.op = "update" /\ request.path = "resource"))
      PROVE  request.values = << >> /\ request.prefill # << >>
  <2>1. Choice!Gated = request.values /\ Choice!Unresolved(request.values) = {}
    BY <1>1, <1>2 DEF ChoiceInv, PreviewStands, Choice!Gated
  <2>2. Choice!Unresolved(Choice!Overlaid) # {}
    BY <1>2 DEF Choice!Fails, ChoiceInv, RequestIsPosed, Choice!Operations
  <2>3. Choice!Overlaid # request.values /\ Choice!Overlaid # << >>
    BY <2>1, <2>2 DEF Choice!Unresolved
  <2> QED  BY <2>3 DEF Choice!Overlaid
<1>3. ASSUME chosen' = "executed" PROVE Choice!OnlyMembers'
  <2>1. ASSUME NEW i \in DOMAIN Choice!Overlaid
        PROVE  \/ Choice!Overlaid[i] \in Numbers
               \/ \E k \in Choice!Places : written'[i] =
                    IF table.relation THEN Choice!Row(k).id ELSE Choice!Row(k).value
    <3>1. Choice!Resolved(Choice!Overlaid[i]) # None /\ written'[i] = Choice!Resolved(Choice!Overlaid[i])
      BY <1>1, <1>3 DEF Choice!Fails, Choice!Unresolved
    <3> QED  BY <3>1, ResolvedIsMember
  <2>2. /\ DOMAIN written' = DOMAIN Choice!Overlaid /\ Choice!Overlaid' = Choice!Overlaid
        /\ Choice!Places' = Choice!Places /\ table' = table
        /\ \A k : Choice!Row(k)' = Choice!Row(k)
    BY <1>1, <1>3 DEF Choice!Overlaid, Choice!Places, Choice!Row
  <2> QED  BY <2>1, <2>2 DEF Choice!OnlyMembers
<1>4. ASSUME chosen' = "executed", table = shown, told.echo # None, Choice!Apart(request.values[1])
      PROVE  \E i \in Choice!Places :
               IF table.relation
               THEN Choice!Row(i).id = written'[1] /\ Choice!Label(Choice!Row(i)) = told.echo
               ELSE Choice!Row(i).value = written'[1] /\ Choice!Row(i).label = told.echo
  <2> DEFINE v == request.values[1]
  <2>1. told.echo = Choice!Legible(IF request.stub THEN << >> ELSE request.values)
    BY <1>1, <1>4 DEF ChoiceInv, PreviewStands
  <2>2. ~request.stub
    BY <1>1, <1>4 DEF Choice!Fails
  <2>3. /\ DOMAIN request.values = {1}
        /\ told.echo = IF table.relation THEN Choice!LabelFor(v) ELSE Choice!OptionLabel(v)
    BY <1>4, <2>1, <2>2 DEF Choice!Legible
  <2>4. Choice!Overlaid = request.values
    BY <2>3 DEF Choice!Overlaid
  <2>5. Choice!Resolved(v) # None /\ written'[1] = Choice!Resolved(v)
    BY <1>1, <1>4, <2>3, <2>4 DEF Choice!Fails, Choice!Unresolved
  <2> QED  BY <1>4, <2>3, <2>5, EchoIsOfRow DEF ChoiceInv
<1>5. Choice!EchoIsWritten'
  BY <1>1, <1>4 DEF Choice!EchoIsWritten, Choice!Apart, Choice!Places, Choice!Row, Choice!Label
<1>6. PreviewStands' /\ Choice!OfferedIsAccepted'
  BY <1>1 DEF PreviewStands, Choice!OfferedIsAccepted
<1>7. Choice!OnlyMembers'
  BY <1>3 DEF Choice!OnlyMembers
<1>8. Choice!PreviewHolds'
  BY <1>1, <1>2 DEF Choice!PreviewHolds
<1> QED
  BY <1>1, <1>5, <1>6, <1>7, <1>8 DEF ChoiceInv, RequestIsPosed, Choice!ChoicesAreKept

\* Words that are picked or changed rows say nothing of what has ended.
LEMMA PickKeeps ==
  ASSUME ChoiceInv, Choice!Pick \/ Choice!Drift
  PROVE  ChoiceInv'
<1>1. CASE Choice!Pick
  <2>1. chosen' = "posed" /\ UNCHANGED table
    BY <1>1 DEF Choice!Pick
  <2>2. RequestIsPosed'
    BY <1>1 DEF Choice!Pick, ChoiceInv, RequestIsPosed
  <2> QED
    BY <2>1, <2>2 DEF ChoiceInv, PreviewStands, Choice!ChoicesAreKept, Choice!OfferedIsAccepted,
       Choice!PreviewHolds, Choice!EchoIsWritten, Choice!OnlyMembers
<1>2. CASE Choice!Drift
  <2>1. /\ table' \in Tables /\ table = shown /\ chosen = "previewed" /\ chosen' = chosen
        /\ UNCHANGED <<request, told, shown, written>>
    BY <1>2 DEF Choice!Drift
  <2>2. table' = shown' => UNCHANGED table
    BY <2>1
  <2>3. ASSUME UNCHANGED table PROVE PreviewStands'
    <3>1. /\ Choice!Unresolved(Choice!Gated)' = Choice!Unresolved(Choice!Gated)
          /\ Choice!Legible(IF request.stub THEN << >> ELSE request.values)'
               = Choice!Legible(IF request.stub THEN << >> ELSE request.values)
      <4>1. /\ Choice!Gated' = Choice!Gated
            /\ (IF request.stub THEN << >> ELSE request.values)'
                 = IF request.stub THEN << >> ELSE request.values
        BY <2>1 DEF Choice!Gated
      <4> QED  BY <2>3, <4>1, WordsStay DEF Choice!Unresolved
    <3> QED  BY <2>1, <3>1 DEF ChoiceInv, PreviewStands
  <2>4. PreviewStands'
    BY <2>2, <2>3 DEF PreviewStands
  <2> QED
    BY <2>1, <2>4 DEF ChoiceInv, RequestIsPosed, Choice!ChoicesAreKept, Choice!OfferedIsAccepted,
       Choice!PreviewHolds, Choice!EchoIsWritten, Choice!OnlyMembers
<1> QED  BY <1>1, <1>2

\* A request that was just posed.
LEMMA ChoiceStarts ==
  ASSUME NEW t \in Tables, NEW r \in Asked, Choice!Pose(t, r)
  PROVE  ChoiceInv
BY ToolkitAssumption
DEF Choice!Pose, Choice!ConstantsAreSound, ChoiceInv, RequestIsPosed, PreviewStands, Choice!ChoicesAreKept, Choice!OfferedIsAccepted,
   Choice!PreviewHolds, Choice!EchoIsWritten, Choice!OnlyMembers

\* Other jobs leave the choices alone.
LEMMA ChoiceStays ==
  ASSUME ChoiceInv, UNCHANGED choosing
  PROVE  ChoiceInv'
<1>1. UNCHANGED <<table, request, chosen, told, written, shown>>
  BY DEF choosing
<1>2. PreviewStands'
  <2>1. /\ Choice!Gated' = Choice!Gated
        /\ (IF request.stub THEN << >> ELSE request.values)'
             = IF request.stub THEN << >> ELSE request.values
    BY <1>1 DEF Choice!Gated
  <2>2. /\ Choice!Unresolved(Choice!Gated)' = Choice!Unresolved(Choice!Gated)
        /\ Choice!Legible(IF request.stub THEN << >> ELSE request.values)'
             = Choice!Legible(IF request.stub THEN << >> ELSE request.values)
    BY <1>1, <2>1, WordsStay DEF Choice!Unresolved
  <2> QED  BY <1>1, <2>2 DEF ChoiceInv, PreviewStands
<1>3. Choice!OfferedIsAccepted'
  BY <1>1, WordsStay DEF ChoiceInv, Choice!ChoicesAreKept, Choice!OfferedIsAccepted
<1>4. Choice!PreviewHolds' /\ Choice!EchoIsWritten' /\ Choice!OnlyMembers'
  BY <1>1
  DEF ChoiceInv, Choice!ChoicesAreKept, Choice!PreviewHolds, Choice!EchoIsWritten, Choice!OnlyMembers,
      Choice!Apart, Choice!Places, Choice!Row, Choice!Label, Choice!Overlaid
<1> QED  BY <1>1, <1>2, <1>3, <1>4 DEF ChoiceInv, RequestIsPosed, Choice!ChoicesAreKept

\* Whatever the table holds and whatever is asked: a candidate that is offered is accepted,
\* a preview can be committed while the table stands, and what the human saw by name is what
\* is written.
THEOREM ChoicesStay == ToolkitSpec => []ChoicesAreKept
<1>1. ToolkitInit => ChoiceInv
  <2>1. Choice!Init => ChoiceInv
    BY ChoiceStarts DEF Choice!Init
  <2>2. IdleChoice => ChoiceInv
    <3>1. SomeTable \in Tables /\ SomeRequest \in Asked
      BY ToolkitAssumption DEF SomeTable, SomeRequest, Choice!ConstantsAreSound
    <3> QED  BY <3>1, ChoiceStarts DEF IdleChoice
  <2> QED  BY <2>1, <2>2 DEF ToolkitInit
<1>2. ChoiceInv /\ [ToolkitNext]_toolkit => ChoiceInv'
  <2> SUFFICES ASSUME ChoiceInv, [ToolkitNext]_toolkit PROVE ChoiceInv'
    OBVIOUS
  <2>1. CASE ResolveWords
    BY <2>1, ProposeKeeps, CommitKeeps, PickKeeps DEF ResolveWords, Choice!Next
  <2>2. CASE UNCHANGED choosing
    BY <2>2, ChoiceStays
  <2> QED
    BY <2>1, <2>2 DEF ToolkitNext, CallBackend, KeepManifest, TestShim, ServeIntents, toolkit
<1>3. ChoiceInv => ChoicesAreKept
  BY DEF ChoiceInv, ChoicesAreKept
<1> QED  BY <1>1, <1>2, <1>3, PTL DEF ToolkitSpec
-----------------------------------------------------------------------------
(* Manifests.                                                               *)

\* The parts of what is known of a verb.
IsEntry(e) == DOMAIN e = {"requirements", "prerequisites", "instance", "tier", "compensation"}

\* What is learned of verb v, when a tier has been taken back or not.
Learned(v, e, taken_back) ==
  /\ IsEntry(e) /\ v # None
  /\ \A q \in e.requirements : q[1] # None /\ q[2] \in Lore!RequirementKinds
  /\ \A r, q \in e.requirements : r[1] = q[1] /\ r # q => r[1] \in {l.field : l \in Lessons}
  /\ None \notin DOMAIN e.prerequisites
  /\ DOMAIN e.instance = {}
  /\ e.tier \in Lore!Tiers \cup {None}
  /\ taken_back \/ (e.tier # None =>
                      (e.tier \in {"REVERSIBLE", "COMPENSABLE"} <=> e.compensation # None))
  /\ e.tier = "REVERSIBLE" => Lexicon[e.compensation].noun = Lexicon[v].noun
  /\ e.compensation # v

IsLearned(m, taken_back) ==
  /\ DOMAIN m = {"system", "verbs", "quirks"}
  /\ m.system = "name"
  /\ \A v \in DOMAIN m.verbs : Learned(v, m.verbs[v], taken_back)
  /\ \A q \in DOMAIN m.quirks : m.quirks[q] = TRUE

\* What is learned so is valid and carries nobody's values.
LEMMA LearnedSound ==
  ASSUME IsLearned(community, downgraded)
  PROVE  Lore!LearnedIsSound
<1>1. Lore!shareable_violations(community) = {}
  BY DEF Lore!shareable_violations, IsLearned, Learned
<1>2. ASSUME ~downgraded PROVE Lore!validate(community) = {}
  <2>1. ASSUME NEW v \in DOMAIN community.verbs PROVE Lore!VerbErrors(community.verbs[v]) = {}
    <3> DEFINE e == community.verbs[v]
    <3>1. Learned(v, e, FALSE)
      BY <1>2 DEF IsLearned, Learned
    <3> HIDE DEF e
    <3>2. e.tier # None => ((e.tier \in {"REVERSIBLE", "COMPENSABLE"}) = (e.compensation # None))
      BY <3>1 DEF Learned
    <3>3. /\ {q \in e.requirements : q[1] = None} = {}
          /\ {q \in e.requirements : q[1] # None /\ q[2] \notin Lore!RequirementKinds} = {}
          /\ DOMAIN e.prerequisites \cap {None} = {}
          /\ e.tier \in Lore!Tiers \cup {None}
      BY <3>1 DEF Learned
    <3> QED  BY <3>2, <3>3 DEF Lore!VerbErrors, e
  <2> QED  BY <2>1 DEF Lore!validate, IsLearned
<1>3. downgraded \in BOOLEAN => downgraded \/ ~downgraded
  OBVIOUS
<1> QED  BY <1>1, <1>2, <1>3 DEF Lore!LearnedIsSound, IsLearned, Learned

\* Laying one function over another.
LEMMA OverDomain ==
  ASSUME NEW f, NEW g
  PROVE  DOMAIN Lore!Over(f, g) = DOMAIN f \cup DOMAIN g
BY DEF Lore!Over

\* The function of one argument.
LEMMA OnlyIs ==
  ASSUME NEW x, NEW y
  PROVE  DOMAIN Lore!Only(x, y) = {x} /\ Lore!Only(x, y)[x] = y
BY DEF Lore!Only

\* The function of none.
LEMMA NothingIsEmpty == DOMAIN Lore!Nothing = {}
BY DEF Lore!Nothing

\* A verb of which nothing is known.
LEMMA EntryIs ==
  /\ IsEntry(Lore!Entry)
  /\ Lore!Entry.requirements = {} /\ DOMAIN Lore!Entry.prerequisites = {}
  /\ DOMAIN Lore!Entry.instance = {}
  /\ Lore!Entry.tier = None /\ Lore!Entry.compensation = None
BY NothingIsEmpty DEF Lore!Entry, IsEntry

\* What is known of a verb, be it in the manifest or not.
LEMMA KnownIsLearned ==
  ASSUME NEW m, NEW d, IsLearned(m, d), NEW v, v # None
  PROVE  Learned(v, Lore!EntryOf(m, v), d)
<1>1. CASE v \in DOMAIN m.verbs
  BY <1>1 DEF Lore!EntryOf, IsLearned
<1>2. CASE v \notin DOMAIN m.verbs
  <2>1. None \notin Lore!Tiers
    BY ToolkitAssumption DEF Lore!ConstantsAreSound
  <2> QED  BY <1>2, <2>1, EntryIs DEF Lore!EntryOf, Learned, Lore!Tiers
<1> QED  BY <1>1, <1>2

\* An error adds a field that was not there, and no verb is taken back.
LEMMA TaughtIsLearned ==
  ASSUME NEW v, NEW e, NEW d, Learned(v, e, d), NEW error \in Errors
  PROVE  Learned(v, Lore!Taught(e, error), d)
<1> DEFINE t == Lore!Taught(e, error)
<1>1. /\ IsEntry(t)
      /\ t.requirements = e.requirements \cup
           {r \in error.requires : \A q \in e.requirements : q[1] # r[1]}
      /\ DOMAIN t.prerequisites = DOMAIN e.prerequisites \cup error.needs
      /\ t.instance = e.instance /\ t.tier = e.tier /\ t.compensation = e.compensation
  <2>1. /\ DOMAIN t = DOMAIN e
        /\ t.requirements = e.requirements \cup
             {r \in error.requires : \A q \in e.requirements : q[1] # r[1]}
        /\ t.prerequisites = Lore!Over(e.prerequisites, [p \in error.needs |-> p])
        /\ t.instance = e.instance /\ t.tier = e.tier /\ t.compensation = e.compensation
    BY DEF Lore!Taught, Learned, IsEntry
  <2>2. DOMAIN t.prerequisites = DOMAIN e.prerequisites \cup DOMAIN [p \in error.needs |-> p]
    BY <2>1, OverDomain
  <2> QED  BY <2>1, <2>2 DEF Learned, IsEntry
<1>2. /\ \A r \in error.requires : r[1] # None /\ r[2] \in Lore!RequirementKinds
      /\ \A r, q \in error.requires : r[1] = q[1] => r = q
      /\ None \notin error.needs
  BY ToolkitAssumption DEF Lore!ConstantsAreSound
<1> HIDE DEF t
<1>3. \A r, q \in t.requirements : r[1] = q[1] /\ r # q => r[1] \in {l.field : l \in Lessons}
  BY <1>1, <1>2 DEF Learned
<1> QED  BY <1>1, <1>2, <1>3 DEF Learned, t

\* The parts of a merged manifest.
LEMMA MergeIs ==
  ASSUME NEW a, NEW b, NEW m, m = Lore!merge(a, b)
  PROVE  /\ DOMAIN m = {"system", "verbs", "quirks"}
         /\ m.system = IF b.system # None THEN b.system ELSE a.system
         /\ DOMAIN m.verbs = DOMAIN a.verbs \cup DOMAIN b.verbs
         /\ \A v \in DOMAIN m.verbs :
              m.verbs[v] = Lore!MergedVerb(Lore!EntryOf(a, v), Lore!EntryOf(b, v))
         /\ m.quirks = Lore!Over(a.quirks, b.quirks)
BY DEF Lore!merge

\* A patch of one verb is merged into what was learned: only that verb changes.
LEMMA PatchIsLearned ==
  ASSUME NEW m, NEW d, IsLearned(m, d), NEW v, NEW e, v # None,
         NEW n, n = Lore!merge(m, Lore!Manifest(Lore!Only(v, e), Lore!Nothing)),
         NEW d2, d => d2,
         \A t : t = Lore!MergedVerb(Lore!EntryOf(m, v), e) => Learned(v, t, d2)
  PROVE  IsLearned(n, d2)
<1> DEFINE p == Lore!Manifest(Lore!Only(v, e), Lore!Nothing)
<1>1. p.system = "name" /\ p.verbs = Lore!Only(v, e) /\ p.quirks = Lore!Nothing
  BY DEF Lore!Manifest
<1>2. DOMAIN p.verbs = {v} /\ p.verbs[v] = e
  BY <1>1, OnlyIs
<1> HIDE DEF p
<1>3. /\ DOMAIN n = {"system", "verbs", "quirks"} /\ n.system = "name"
      /\ DOMAIN n.verbs = DOMAIN m.verbs \cup {v}
      /\ \A w \in DOMAIN n.verbs :
           n.verbs[w] = Lore!MergedVerb(Lore!EntryOf(m, w), Lore!EntryOf(p, w))
      /\ n.quirks = Lore!Over(m.quirks, Lore!Nothing)
  <2>1. n = Lore!merge(m, p)
    BY DEF p
  <2> QED  BY <1>1, <1>2, <2>1, MergeIs DEF IsLearned
<1>4. \A q \in DOMAIN n.quirks : n.quirks[q] = TRUE
  BY <1>3, NothingIsEmpty DEF IsLearned, Lore!Over
<1>5. ASSUME NEW w \in DOMAIN n.verbs PROVE Learned(w, n.verbs[w], d2)
  <2>1. CASE w = v
    <3>1. n.verbs[w] = Lore!MergedVerb(Lore!EntryOf(m, v), e)
      BY <1>2, <1>3, <2>1 DEF Lore!EntryOf
    <3> QED  BY <2>1, <3>1
  <2>2. CASE w # v
    <3>1. w \in DOMAIN m.verbs /\ Learned(w, m.verbs[w], d)
      BY <1>3, <1>5, <2>2 DEF IsLearned
    <3>2. n.verbs[w] = Lore!MergedVerb(m.verbs[w], Lore!Entry)
      BY <1>2, <1>3, <2>2, <3>1 DEF Lore!EntryOf
    <3> DEFINE t == n.verbs[w]
               o == m.verbs[w]
    <3>3. /\ IsEntry(t) /\ t.requirements = o.requirements
          /\ DOMAIN t.prerequisites = DOMAIN o.prerequisites
          /\ DOMAIN t.instance = DOMAIN o.instance
          /\ t.tier = o.tier /\ t.compensation = o.compensation
      BY <3>2, EntryIs DEF Lore!MergedVerb, Lore!Over, IsEntry
    <3> HIDE DEF t, o
    <3>4. Learned(w, o, d)
      BY <3>1 DEF o
    <3>5. Learned(w, t, d2)
      BY <3>3, <3>4 DEF Learned
    <3> QED  BY <3>5 DEF t
  <2> QED  BY <2>1, <2>2
<1> QED  BY <1>3, <1>4, <1>5 DEF IsLearned

\* An error teaches the verb that met it, and no other.
LEMMA ScanKeeps ==
  ASSUME IsLearned(community, downgraded), NEW v \in Lore!Verbs, NEW error \in Errors,
         Lore!Scan(v, error)
  PROVE  IsLearned(community, downgraded)'
<1> DEFINE e == Lore!Taught(Lore!EntryOf(community, v), error)
           n == community'
<1>1. /\ n = [community EXCEPT !.verbs = Lore!Over(Lore!Only(v, e), community.verbs),
                               !.quirks = Lore!Over(community.quirks, Lore!Quirks(error))]
      /\ downgraded' = downgraded
  BY DEF Lore!Scan
<1>2. v # None
  BY ToolkitAssumption DEF Lore!ConstantsAreSound
<1>3. Learned(v, e, downgraded)
  BY <1>2, KnownIsLearned, TaughtIsLearned
<1> HIDE DEF e
<1>4. /\ DOMAIN n = {"system", "verbs", "quirks"} /\ n.system = "name"
      /\ n.verbs = Lore!Over(Lore!Only(v, e), community.verbs)
      /\ n.quirks = Lore!Over(community.quirks, Lore!Quirks(error))
  BY <1>1 DEF IsLearned
<1>5. DOMAIN Lore!Only(v, e) = {v} /\ Lore!Only(v, e)[v] = e
  BY OnlyIs
<1> HIDE DEF n
<1>6. /\ DOMAIN n.verbs = {v} \cup DOMAIN community.verbs
      /\ n.verbs[v] = e
      /\ \A w \in DOMAIN community.verbs : w # v => n.verbs[w] = community.verbs[w]
  BY <1>4, <1>5 DEF Lore!Over
<1>7. \A w \in DOMAIN n.verbs : Learned(w, n.verbs[w], downgraded)
  BY <1>3, <1>6 DEF IsLearned
<1>8. \A q \in DOMAIN n.quirks : n.quirks[q] = TRUE
  <2>1. \A q \in DOMAIN Lore!Quirks(error) : Lore!Quirks(error)[q] = TRUE
    BY DEF Lore!Quirks
  <2> QED  BY <1>4, <2>1 DEF IsLearned, Lore!Over
<1>9. IsLearned(n, downgraded)
  BY <1>4, <1>7, <1>8 DEF IsLearned
<1> QED  BY <1>1, <1>9 DEF n

\* A confirmed lesson adds the field it names.
LEMMA LearnKeeps ==
  ASSUME IsLearned(community, downgraded), NEW lesson \in Lessons, Lore!Learn(lesson)
  PROVE  IsLearned(community, downgraded)'
<1> DEFINE kind == IF lesson.kind = None THEN "required_scalar" ELSE lesson.kind
           e == [Lore!Entry EXCEPT !.requirements = {<<lesson.field, kind>>}]
           v == lesson.verb
<1>1. /\ community' = Lore!merge(community, Lore!Manifest(Lore!Only(v, e), Lore!Nothing))
      /\ downgraded' = downgraded /\ v # None /\ lesson.field # None
  BY DEF Lore!Learn, Lore!Patch
<1>2. /\ e.requirements = {<<lesson.field, kind>>} /\ DOMAIN e.prerequisites = {}
      /\ DOMAIN e.instance = {} /\ e.tier = None /\ e.compensation = None
  BY EntryIs DEF IsEntry
<1>3. kind \in Lore!RequirementKinds
  BY ToolkitAssumption DEF Lore!ConstantsAreSound, Lore!RequirementKinds
<1> HIDE DEF e, v, kind
<1>4. ASSUME NEW t, t = Lore!MergedVerb(Lore!EntryOf(community, v), e)
      PROVE  Learned(v, t, downgraded)
  <2> DEFINE o == Lore!EntryOf(community, v)
  <2>1. Learned(v, o, downgraded)
    BY <1>1, KnownIsLearned
  <2>2. /\ IsEntry(t) /\ t.requirements = o.requirements \cup {<<lesson.field, kind>>}
        /\ DOMAIN t.prerequisites = DOMAIN o.prerequisites
        /\ DOMAIN t.instance = DOMAIN o.instance
        /\ t.tier = o.tier /\ t.compensation = o.compensation
    BY <1>2, <1>4 DEF Lore!MergedVerb, Lore!Over, IsEntry
  <2> HIDE DEF o
  <2>3. \A r, q \in t.requirements : r[1] = q[1] /\ r # q => r[1] \in {l.field : l \in Lessons}
    BY <2>1, <2>2 DEF Learned
  <2> QED  BY <1>1, <1>3, <2>1, <2>2, <2>3 DEF Learned
<1>5. IsLearned(community', downgraded)
  BY <1>1, <1>4, PatchIsLearned
<1> QED  BY <1>1, <1>5

\* The first of some verbs in the catalog's order is one of them.
LEMMA FirstVerbIsOne ==
  ASSUME NEW S, S \subseteq Lore!Verbs, S # {}
  PROVE  Lore!FirstVerb(S) \in S
<1> DEFINE At == {i \in DOMAIN Catalog : Catalog[i] \in S}
<1>1. At \subseteq Nat /\ At # {}
  BY ToolkitAssumption DEF Lore!ConstantsAreSound, Lore!Verbs
<1>2. Lore!Min(At) \in At
  <2> HIDE DEF At
  <2> QED  BY <1>1, LeastIsThere
<1> QED  BY <1>2 DEF Lore!FirstVerb

\* What the names suggest of verb v.
LEMMA ProposedIs ==
  ASSUME NEW v \in Lore!Verbs, NEW available, available \subseteq Lore!Verbs,
         NEW e, e = Lore!propose_reversibility(v, available)
  PROVE  /\ e.requirements = {} /\ DOMAIN e.prerequisites = {} /\ DOMAIN e.instance = {}
         /\ \/ e.tier = "REVERSIBLE" /\ e.compensation \in available \cap Lore!Inverses(v)
            \/ e.tier = "COMPENSABLE" /\ e.compensation \in available \cap Lore!Offsets(v)
            \/ e.tier = "IRREVERSIBLE" /\ e.compensation = None
<1> DEFINE Tiered(t, c) == [Lore!Entry EXCEPT !.tier = t, !.compensation = c]
<1>1. ASSUME NEW t, NEW c, e = Tiered(t, c)
      PROVE  /\ e.requirements = {} /\ DOMAIN e.prerequisites = {} /\ DOMAIN e.instance = {}
             /\ e.tier = t /\ e.compensation = c
  BY <1>1, EntryIs DEF IsEntry
<1> HIDE DEF Tiered
<1>2. CASE available \cap Lore!Inverses(v) # {}
  <2>1. e = Tiered("REVERSIBLE", Lore!FirstVerb(available \cap Lore!Inverses(v)))
    BY <1>2 DEF Lore!propose_reversibility, Tiered
  <2>2. Lore!FirstVerb(available \cap Lore!Inverses(v)) \in available \cap Lore!Inverses(v)
    BY <1>2, FirstVerbIsOne
  <2> QED  BY <1>1, <2>1, <2>2
<1>3. CASE available \cap Lore!Inverses(v) = {} /\ available \cap Lore!Offsets(v) # {}
  <2>1. e = Tiered("COMPENSABLE", Lore!FirstVerb(available \cap Lore!Offsets(v)))
    BY <1>3 DEF Lore!propose_reversibility, Tiered
  <2>2. Lore!FirstVerb(available \cap Lore!Offsets(v)) \in available \cap Lore!Offsets(v)
    BY <1>3, FirstVerbIsOne
  <2> QED  BY <1>1, <2>1, <2>2
<1>4. CASE available \cap Lore!Inverses(v) = {} /\ available \cap Lore!Offsets(v) = {}
  <2>1. e = Tiered("IRREVERSIBLE", None)
    BY <1>4 DEF Lore!propose_reversibility, Tiered
  <2> QED  BY <1>1, <2>1
<1> QED  BY <1>2, <1>3, <1>4

\* A confirmed tier is that of the names; a compensation that is left of a former one is
\* what downgraded remembers.
LEMMA ClassifyKeeps ==
  ASSUME IsLearned(community, downgraded), NEW v \in Lore!Verbs,
         NEW available \in SUBSET Lore!Verbs, Lore!Classify(v, available)
  PROVE  IsLearned(community, downgraded)'
<1> DEFINE e == Lore!propose_reversibility(v, available)
           o == Lore!EntryOf(community, v)
           back == downgraded \/ (e.compensation = None /\ o.compensation # None)
<1>1. /\ community' = Lore!merge(community, Lore!Manifest(Lore!Only(v, e), Lore!Nothing))
      /\ downgraded' = back
  BY DEF Lore!Classify
<1>2. /\ e.requirements = {} /\ DOMAIN e.prerequisites = {} /\ DOMAIN e.instance = {}
      /\ \/ e.tier = "REVERSIBLE" /\ e.compensation \in available \cap Lore!Inverses(v)
         \/ e.tier = "COMPENSABLE" /\ e.compensation \in available \cap Lore!Offsets(v)
         \/ e.tier = "IRREVERSIBLE" /\ e.compensation = None
  BY ProposedIs
<1>3. /\ v # None /\ None \notin Lore!Verbs /\ None \notin Lore!Tiers
  BY ToolkitAssumption DEF Lore!ConstantsAreSound
<1>4. Learned(v, o, downgraded)
  BY <1>3, KnownIsLearned
<1>5. /\ \A w \in Lore!Inverses(v) : Lexicon[w].noun = Lexicon[v].noun /\ w # v
      /\ \A w \in Lore!Offsets(v) : w # v
  BY DEF Lore!Inverses, Lore!Offsets
<1> HIDE DEF e
<1>6. ASSUME NEW t, t = Lore!MergedVerb(o, e)
      PROVE  Learned(v, t, back)
  <2> HIDE DEF o
  <2>1. /\ IsEntry(t) /\ t.requirements = o.requirements
        /\ DOMAIN t.prerequisites = DOMAIN o.prerequisites
        /\ DOMAIN t.instance = DOMAIN o.instance
        /\ t.tier = IF e.tier # None THEN e.tier ELSE o.tier
        /\ t.compensation = IF e.compensation # None THEN e.compensation ELSE o.compensation
    BY <1>2, <1>6 DEF Lore!MergedVerb, Lore!Over, IsEntry
  <2>2. e.tier \in Lore!Tiers /\ t.tier = e.tier
    BY <1>2, <1>3, <2>1 DEF Lore!Tiers
  <2>3. CASE e.tier \in {"REVERSIBLE", "COMPENSABLE"}
    <3>1. t.compensation = e.compensation /\ e.compensation # None /\ e.compensation # v
      BY <1>2, <1>3, <1>5, <2>1, <2>3
    <3>2. t.tier = "REVERSIBLE" => Lexicon[t.compensation].noun = Lexicon[v].noun
      BY <1>2, <1>5, <2>2, <3>1
    <3> QED  BY <1>4, <2>1, <2>2, <2>3, <3>1, <3>2 DEF Learned
  <2>4. CASE e.tier = "IRREVERSIBLE"
    <3>1. t.compensation = o.compensation /\ e.compensation = None
      BY <1>2, <2>1, <2>4
    <3>2. back \/ t.compensation = None
      BY <3>1
    <3> HIDE DEF back
    <3> QED  BY <1>4, <2>1, <2>2, <2>4, <3>1, <3>2 DEF Learned
  <2> QED  BY <1>2, <2>3, <2>4
<1>7. downgraded => back
  OBVIOUS
<1> HIDE DEF back
<1>8. IsLearned(community', back)
  <2>1. \A t : t = Lore!MergedVerb(Lore!EntryOf(community, v), e) => Learned(v, t, back)
    BY <1>6
  <2> QED  BY <1>1, <1>3, <1>7, <2>1, PatchIsLearned
<1> QED  BY <1>1, <1>8

\* Manifest m is c with the manifests ls layered over it, one after the other.
Layered(c, ls, m) ==
  /\ DOMAIN m = {"system", "verbs", "quirks"}
  /\ DOMAIN m.verbs = DOMAIN c.verbs \cup UNION {DOMAIN ls[i].verbs : i \in DOMAIN ls}
  /\ DOMAIN m.quirks = DOMAIN c.quirks \cup UNION {DOMAIN ls[i].quirks : i \in DOMAIN ls}
  /\ \A v \in DOMAIN m.verbs : IsEntry(m.verbs[v])
  /\ \A v : Lore!EntryIsLayered(Lore!EntryOf(m, v), Lore!EntryOf(c, v),
                                [i \in DOMAIN ls |-> Lore!EntryOf(ls[i], v)])

\* All that some sets hold.
AllOf(h) == UNION {h[i] : i \in DOMAIN h}

\* What one layer more adds.
LEMMA AllOfNext ==
  ASSUME NEW f, NEW g, NEW x, DOMAIN g = DOMAIN f \cup {x},
         \A i \in DOMAIN f : g[i] = f[i]
  PROVE  AllOf(g) = AllOf(f) \cup g[x]
<1>1. ASSUME NEW y \in AllOf(g) PROVE y \in AllOf(f) \cup g[x]
  <2>1. PICK i \in DOMAIN g : y \in g[i]
    BY <1>1 DEF AllOf
  <2> QED  BY <2>1 DEF AllOf
<1>2. ASSUME NEW y \in AllOf(f) \cup g[x] PROVE y \in AllOf(g)
  <2>1. CASE y \in AllOf(f)
    <3>1. PICK i \in DOMAIN f : y \in f[i]
      BY <2>1 DEF AllOf
    <3> QED  BY <3>1 DEF AllOf
  <2>2. CASE y \in g[x]
    BY <2>2 DEF AllOf
  <2> QED  BY <1>2, <2>1, <2>2
<1> QED  BY <1>1, <1>2

\* The last layer to name a thing decides of it.
LEMMA SettledNext ==
  ASSUME NEW n \in Nat, NEW f, NEW g, DOMAIN f = 1..n, DOMAIN g = 1..(n + 1),
         \A i \in 1..n : g[i] = f[i],
         NEW base, NEW value, Lore!Settled(value, base, f),
         NEW t, t = IF g[n + 1] # None THEN g[n + 1] ELSE value
  PROVE  Lore!Settled(t, base, g)
<1>1. CASE g[n + 1] # None
  <2>1. n + 1 \in DOMAIN g /\ \A j \in DOMAIN g : ~(j > n + 1)
    OBVIOUS
  <2> QED  BY <1>1, <2>1 DEF Lore!Settled
<1>2. CASE g[n + 1] = None
  <2>1. t = value
    BY <1>2
  <2>2. CASE value = base /\ \A i \in DOMAIN f : f[i] = None
    <3>1. \A i \in DOMAIN g : g[i] = None
      BY <1>2, <2>2
    <3> QED  BY <2>1, <2>2, <3>1 DEF Lore!Settled
  <2>3. ASSUME NEW i \in DOMAIN f, f[i] = value, value # None, \A j \in DOMAIN f : j > i => f[j] = None
        PROVE  Lore!Settled(t, base, g)
    <3>1. i \in DOMAIN g /\ g[i] = t /\ t # None
      BY <2>1, <2>3
    <3>2. \A j \in DOMAIN g : j > i => g[j] = None
      BY <1>2, <2>3
    <3> QED  BY <3>1, <3>2 DEF Lore!Settled
  <2> QED  BY <2>2, <2>3 DEF Lore!Settled
<1> QED  BY <1>1, <1>2

\* What is known of a verb when one more layer is merged.
LEMMA EntryNext ==
  ASSUME NEW n \in Nat, NEW f, NEW g, DOMAIN f = 1..n, DOMAIN g = 1..(n + 1),
         \A i \in 1..n : g[i] = f[i],
         NEW below, NEW e, Lore!EntryIsLayered(e, below, f),
         NEW o, o = g[n + 1], NEW t, t = Lore!MergedVerb(e, o)
  PROVE  Lore!EntryIsLayered(t, below, g)
<1>1. /\ t.requirements = e.requirements \cup o.requirements
      /\ t.prerequisites = Lore!Over(e.prerequisites, o.prerequisites)
      /\ t.instance = Lore!Over(o.instance, e.instance)
      /\ t.tier = IF o.tier # None THEN o.tier ELSE e.tier
      /\ t.compensation = IF o.compensation # None THEN o.compensation ELSE e.compensation
  BY DEF Lore!MergedVerb
<1>2. /\ e.requirements = below.requirements \cup UNION {f[i].requirements : i \in DOMAIN f}
      /\ DOMAIN e.prerequisites =
           DOMAIN below.prerequisites \cup UNION {DOMAIN f[i].prerequisites : i \in DOMAIN f}
      /\ \A p \in DOMAIN below.prerequisites : e.prerequisites[p] = below.prerequisites[p]
      /\ DOMAIN e.instance = DOMAIN below.instance \cup UNION {DOMAIN f[i].instance : i \in DOMAIN f}
      /\ \A i \in DOMAIN f : \A k \in DOMAIN f[i].instance :
           (\A j \in DOMAIN f : j > i => k \notin DOMAIN f[j].instance)
             => e.instance[k] = f[i].instance[k]
      /\ Lore!Settled(e.tier, below.tier, [i \in DOMAIN f |-> f[i].tier])
      /\ Lore!Settled(e.compensation, below.compensation, [i \in DOMAIN f |-> f[i].compensation])
  BY DEF Lore!EntryIsLayered
<1>3. DOMAIN g = DOMAIN f \cup {n + 1}
  OBVIOUS
<1>4. t.requirements = below.requirements \cup UNION {g[i].requirements : i \in DOMAIN g}
  <2> DEFINE was == [i \in DOMAIN f |-> f[i].requirements]
             is == [i \in DOMAIN g |-> g[i].requirements]
             Was == UNION {f[i].requirements : i \in DOMAIN f}
             Is == UNION {g[i].requirements : i \in DOMAIN g}
  <2>1. AllOf(was) = Was /\ AllOf(is) = Is
    BY DEF AllOf
  <2>2. e.requirements = below.requirements \cup Was
    BY <1>2
  <2>3. /\ DOMAIN is = DOMAIN was \cup {n + 1} /\ is[n + 1] = o.requirements
        /\ \A i \in DOMAIN was : is[i] = was[i]
    BY <1>3
  <2> HIDE DEF was, is, Was, Is
  <2>4. AllOf(is) = AllOf(was) \cup o.requirements
    BY <2>3, AllOfNext
  <2>5. t.requirements = below.requirements \cup Is
    BY <1>1, <2>1, <2>2, <2>4
  <2> QED  BY <2>5 DEF Is
<1>5. DOMAIN t.prerequisites =
        DOMAIN below.prerequisites \cup UNION {DOMAIN g[i].prerequisites : i \in DOMAIN g}
  <2> DEFINE was == [i \in DOMAIN f |-> DOMAIN f[i].prerequisites]
             is == [i \in DOMAIN g |-> DOMAIN g[i].prerequisites]
             Was == UNION {DOMAIN f[i].prerequisites : i \in DOMAIN f}
             Is == UNION {DOMAIN g[i].prerequisites : i \in DOMAIN g}
  <2>1. AllOf(was) = Was /\ AllOf(is) = Is
    BY DEF AllOf
  <2>2. DOMAIN e.prerequisites = DOMAIN below.prerequisites \cup Was
    BY <1>2
  <2>3. /\ DOMAIN is = DOMAIN was \cup {n + 1} /\ is[n + 1] = DOMAIN o.prerequisites
        /\ \A i \in DOMAIN was : is[i] = was[i]
    BY <1>3
  <2> HIDE DEF was, is, Was, Is
  <2>4. AllOf(is) = AllOf(was) \cup DOMAIN o.prerequisites
    BY <2>3, AllOfNext
  <2>5. DOMAIN t.prerequisites = DOMAIN e.prerequisites \cup DOMAIN o.prerequisites
    BY <1>1 DEF Lore!Over
  <2>6. DOMAIN t.prerequisites = DOMAIN below.prerequisites \cup Is
    BY <2>1, <2>2, <2>4, <2>5
  <2> QED  BY <2>6 DEF Is
<1>6. \A p \in DOMAIN below.prerequisites : t.prerequisites[p] = below.prerequisites[p]
  <2>1. \A p \in DOMAIN e.prerequisites : t.prerequisites[p] = e.prerequisites[p]
    BY <1>1 DEF Lore!Over
  <2>2. DOMAIN below.prerequisites \subseteq DOMAIN e.prerequisites
    BY <1>2
  <2> QED  BY <1>2, <2>1, <2>2
<1>7. DOMAIN t.instance = DOMAIN below.instance \cup UNION {DOMAIN g[i].instance : i \in DOMAIN g}
  <2> DEFINE was == [i \in DOMAIN f |-> DOMAIN f[i].instance]
             is == [i \in DOMAIN g |-> DOMAIN g[i].instance]
             Was == UNION {DOMAIN f[i].instance : i \in DOMAIN f}
             Is == UNION {DOMAIN g[i].instance : i \in DOMAIN g}
  <2>1. AllOf(was) = Was /\ AllOf(is) = Is
    BY DEF AllOf
  <2>2. DOMAIN e.instance = DOMAIN below.instance \cup Was
    BY <1>2
  <2>3. /\ DOMAIN is = DOMAIN was \cup {n + 1} /\ is[n + 1] = DOMAIN o.instance
        /\ \A i \in DOMAIN was : is[i] = was[i]
    BY <1>3
  <2> HIDE DEF was, is, Was, Is
  <2>4. AllOf(is) = AllOf(was) \cup DOMAIN o.instance
    BY <2>3, AllOfNext
  <2>5. DOMAIN t.instance = DOMAIN o.instance \cup DOMAIN e.instance
    BY <1>1 DEF Lore!Over
  <2>6. DOMAIN t.instance = DOMAIN below.instance \cup Is
    BY <2>1, <2>2, <2>4, <2>5
  <2> QED  BY <2>6 DEF Is
<1>8. ASSUME NEW i \in DOMAIN g, NEW k \in DOMAIN g[i].instance,
             \A j \in DOMAIN g : j > i => k \notin DOMAIN g[j].instance
      PROVE  t.instance[k] = g[i].instance[k]
  <2>1. CASE i = n + 1
    BY <1>1, <1>8, <2>1 DEF Lore!Over
  <2>2. CASE i \in DOMAIN f
    <3>1. k \notin DOMAIN o.instance
      BY <1>3, <1>8, <2>2
    <3>2. k \in DOMAIN f[i].instance /\ g[i] = f[i]
      BY <1>8, <2>2
    <3>3. e.instance[k] = f[i].instance[k]
      BY <1>2, <1>3, <1>8, <2>2, <3>2
    <3>4. k \in DOMAIN e.instance
      BY <1>2, <2>2, <3>2
    <3> QED  BY <1>1, <3>1, <3>2, <3>3, <3>4 DEF Lore!Over
  <2> QED  BY <1>3, <2>1, <2>2
<1>9. Lore!Settled(t.tier, below.tier, [i \in DOMAIN g |-> g[i].tier])
  <2> DEFINE was == [i \in DOMAIN f |-> f[i].tier]
             is == [i \in DOMAIN g |-> g[i].tier]
  <2>1. /\ DOMAIN was = 1..n /\ DOMAIN is = 1..(n + 1) /\ \A i \in 1..n : is[i] = was[i]
        /\ is[n + 1] = o.tier
    BY <1>3
  <2>2. t.tier = IF is[n + 1] # None THEN is[n + 1] ELSE e.tier
    BY <1>1, <2>1
  <2>3. Lore!Settled(e.tier, below.tier, was)
    BY <1>2
  <2> HIDE DEF was, is
  <2>4. Lore!Settled(t.tier, below.tier, is)
    BY <2>1, <2>2, <2>3, SettledNext
  <2> QED  BY <2>4 DEF is
<1>10. Lore!Settled(t.compensation, below.compensation, [i \in DOMAIN g |-> g[i].compensation])
  <2> DEFINE was == [i \in DOMAIN f |-> f[i].compensation]
             is == [i \in DOMAIN g |-> g[i].compensation]
  <2>1. /\ DOMAIN was = 1..n /\ DOMAIN is = 1..(n + 1) /\ \A i \in 1..n : is[i] = was[i]
        /\ is[n + 1] = o.compensation
    BY <1>3
  <2>2. t.compensation = IF is[n + 1] # None THEN is[n + 1] ELSE e.compensation
    BY <1>1, <2>1
  <2>3. Lore!Settled(e.compensation, below.compensation, was)
    BY <1>2
  <2> HIDE DEF was, is
  <2>4. Lore!Settled(t.compensation, below.compensation, is)
    BY <2>1, <2>2, <2>3, SettledNext
  <2> QED  BY <2>4 DEF is
<1> QED  BY <1>4, <1>5, <1>6, <1>7, <1>8, <1>9, <1>10 DEF Lore!EntryIsLayered

\* What is known of a verb when nothing is layered over it.
LEMMA EntryAlone ==
  ASSUME NEW e, NEW said, DOMAIN said = {}
  PROVE  Lore!EntryIsLayered(e, e, said)
<1>1. /\ UNION {said[i].requirements : i \in DOMAIN said} = {}
      /\ UNION {DOMAIN said[i].prerequisites : i \in DOMAIN said} = {}
      /\ UNION {DOMAIN said[i].instance : i \in DOMAIN said} = {}
  OBVIOUS
<1>2. /\ Lore!Settled(e.tier, e.tier, [i \in DOMAIN said |-> said[i].tier])
      /\ Lore!Settled(e.compensation, e.compensation, [i \in DOMAIN said |-> said[i].compensation])
  BY DEF Lore!Settled
<1> QED  BY <1>1, <1>2 DEF Lore!EntryIsLayered

\* Of a verb that nobody names nothing is known.
LEMMA EntryUnnamed ==
  ASSUME NEW said, \A i \in DOMAIN said : said[i] = Lore!Entry
  PROVE  Lore!EntryIsLayered(Lore!Entry, Lore!Entry, said)
<1>1. /\ UNION {said[i].requirements : i \in DOMAIN said} = {}
      /\ UNION {DOMAIN said[i].prerequisites : i \in DOMAIN said} = {}
      /\ UNION {DOMAIN said[i].instance : i \in DOMAIN said} = {}
      /\ \A i \in DOMAIN said : DOMAIN said[i].instance = {}
  BY EntryIs
<1>2. /\ Lore!Settled(Lore!Entry.tier, Lore!Entry.tier, [i \in DOMAIN said |-> said[i].tier])
      /\ Lore!Settled(Lore!Entry.compensation, Lore!Entry.compensation,
                      [i \in DOMAIN said |-> said[i].compensation])
  BY EntryIs DEF Lore!Settled
<1> QED  BY <1>1, <1>2, EntryIs DEF Lore!EntryIsLayered

\* A manifest that nothing is layered over.
LEMMA LayeredAlone ==
  ASSUME NEW c, NEW d, IsLearned(c, d)
  PROVE  Layered(c, << >>, c)
<1> DEFINE ls == << >>
<1>1. DOMAIN ls = {}
  OBVIOUS
<1> HIDE DEF ls
<1>2. /\ UNION {DOMAIN ls[i].verbs : i \in DOMAIN ls} = {}
      /\ UNION {DOMAIN ls[i].quirks : i \in DOMAIN ls} = {}
  BY <1>1
<1>3. ASSUME NEW v
      PROVE  Lore!EntryIsLayered(Lore!EntryOf(c, v), Lore!EntryOf(c, v),
                                 [i \in DOMAIN ls |-> Lore!EntryOf(ls[i], v)])
  <2>1. DOMAIN [i \in DOMAIN ls |-> Lore!EntryOf(ls[i], v)] = {}
    BY <1>1
  <2> QED  BY <2>1, EntryAlone
<1>4. Layered(c, ls, c)
  BY <1>2, <1>3 DEF Layered, IsLearned, Learned
<1> QED  BY <1>4 DEF ls

\* One more manifest is merged.
LEMMA MergeLayers ==
  ASSUME NEW c, NEW S, NEW ls \in Seq(S), NEW a, Layered(c, ls, a), NEW b \in S,
         NEW m, m = Lore!merge(a, b)
  PROVE  Layered(c, Append(ls, b), m)
<1> DEFINE n == Len(ls)
           more == Append(ls, b)
<1>1. /\ n \in Nat /\ DOMAIN ls = 1..n /\ DOMAIN more = 1..(n + 1) /\ more[n + 1] = b
      /\ \A i \in 1..n : more[i] = ls[i]
  OBVIOUS
<1> HIDE DEF more, n
<1>2. /\ DOMAIN m = {"system", "verbs", "quirks"}
      /\ DOMAIN m.verbs = DOMAIN a.verbs \cup DOMAIN b.verbs
      /\ \A v \in DOMAIN m.verbs :
           m.verbs[v] = Lore!MergedVerb(Lore!EntryOf(a, v), Lore!EntryOf(b, v))
      /\ m.quirks = Lore!Over(a.quirks, b.quirks)
  BY DEF Lore!merge
<1>3. DOMAIN m.verbs = DOMAIN c.verbs \cup UNION {DOMAIN more[i].verbs : i \in DOMAIN more}
  <2> DEFINE was == [i \in DOMAIN ls |-> DOMAIN ls[i].verbs]
             is == [i \in DOMAIN more |-> DOMAIN more[i].verbs]
             Was == UNION {DOMAIN ls[i].verbs : i \in DOMAIN ls}
             Is == UNION {DOMAIN more[i].verbs : i \in DOMAIN more}
  <2>1. AllOf(was) = Was /\ AllOf(is) = Is
    BY DEF AllOf
  <2>2. DOMAIN a.verbs = DOMAIN c.verbs \cup Was
    BY DEF Layered
  <2>3. /\ DOMAIN is = DOMAIN was \cup {n + 1} /\ is[n + 1] = DOMAIN b.verbs
        /\ \A i \in DOMAIN was : is[i] = was[i]
    BY <1>1
  <2> HIDE DEF was, is, Was, Is
  <2>4. AllOf(is) = AllOf(was) \cup DOMAIN b.verbs
    BY <2>3, AllOfNext
  <2>5. DOMAIN m.verbs = DOMAIN a.verbs \cup DOMAIN b.verbs
    BY <1>2
  <2>6. DOMAIN m.verbs = DOMAIN c.verbs \cup Is
    BY <2>1, <2>2, <2>4, <2>5
  <2> QED  BY <2>6 DEF Is
<1>4. DOMAIN m.quirks = DOMAIN c.quirks \cup UNION {DOMAIN more[i].quirks : i \in DOMAIN more}
  <2> DEFINE was == [i \in DOMAIN ls |-> DOMAIN ls[i].quirks]
             is == [i \in DOMAIN more |-> DOMAIN more[i].quirks]
             Was == UNION {DOMAIN ls[i].quirks : i \in DOMAIN ls}
             Is == UNION {DOMAIN more[i].quirks : i \in DOMAIN more}
  <2>1. AllOf(was) = Was /\ AllOf(is) = Is
    BY DEF AllOf
  <2>2. DOMAIN a.quirks = DOMAIN c.quirks \cup Was
    BY DEF Layered
  <2>3. /\ DOMAIN is = DOMAIN was \cup {n + 1} /\ is[n + 1] = DOMAIN b.quirks
        /\ \A i \in DOMAIN was : is[i] = was[i]
    BY <1>1
  <2> HIDE DEF was, is, Was, Is
  <2>4. AllOf(is) = AllOf(was) \cup DOMAIN b.quirks
    BY <2>3, AllOfNext
  <2>5. DOMAIN m.quirks = DOMAIN a.quirks \cup DOMAIN b.quirks
    BY <1>2 DEF Lore!Over
  <2>6. DOMAIN m.quirks = DOMAIN c.quirks \cup Is
    BY <2>1, <2>2, <2>4, <2>5
  <2> QED  BY <2>6 DEF Is
<1>5. ASSUME NEW v \in DOMAIN m.verbs PROVE IsEntry(m.verbs[v])
  <2> DEFINE x == Lore!EntryOf(a, v)
             y == Lore!EntryOf(b, v)
  <2>1. m.verbs[v] = Lore!MergedVerb(x, y)
    BY <1>2
  <2> HIDE DEF x, y
  <2> QED  BY <2>1 DEF Lore!MergedVerb, IsEntry
<1>6. ASSUME NEW v
      PROVE  Lore!EntryIsLayered(Lore!EntryOf(m, v), Lore!EntryOf(c, v),
                                 [i \in DOMAIN more |-> Lore!EntryOf(more[i], v)])
  <2> DEFINE f == [i \in DOMAIN ls |-> Lore!EntryOf(ls[i], v)]
             g == [i \in DOMAIN more |-> Lore!EntryOf(more[i], v)]
             e == Lore!EntryOf(a, v)
             o == Lore!EntryOf(b, v)
             t == Lore!EntryOf(m, v)
             below == Lore!EntryOf(c, v)
  <2>1. /\ DOMAIN f = 1..n /\ DOMAIN g = 1..(n + 1) /\ \A i \in 1..n : g[i] = f[i]
        /\ g[n + 1] = o
    BY <1>1
  <2>2. CASE v \in DOMAIN m.verbs
    <3>1. t = Lore!MergedVerb(e, o)
      BY <1>2, <2>2 DEF Lore!EntryOf
    <3>2. Lore!EntryIsLayered(e, below, f)
      BY DEF Layered
    <3> HIDE DEF f, g, e, o, t, below
    <3>3. Lore!EntryIsLayered(t, below, g)
      BY <1>1, <2>1, <3>1, <3>2, EntryNext
    <3> QED  BY <3>3 DEF t, below, g
  <2>3. CASE v \notin DOMAIN m.verbs
    <3>1. t = Lore!Entry /\ below = Lore!Entry
      BY <1>3, <2>3 DEF Lore!EntryOf
    <3>2. \A i \in DOMAIN more : v \notin DOMAIN more[i].verbs
      BY <1>3, <2>3
    <3>3. \A i \in DOMAIN g : g[i] = Lore!Entry
      BY <3>2 DEF Lore!EntryOf
    <3> HIDE DEF g, t, below
    <3>4. Lore!EntryIsLayered(t, below, g)
      BY <3>1, <3>3, EntryUnnamed
    <3> QED  BY <3>4 DEF t, below, g
  <2> QED  BY <2>2, <2>3
<1>7. Layered(c, more, m)
  BY <1>2, <1>3, <1>4, <1>5, <1>6 DEF Layered
<1> QED  BY <1>7 DEF more

\* What is published says the same but for the integrator's values.
LEMMA StrippedIs ==
  ASSUME NEW c, NEW ls, NEW m, Layered(c, ls, m), NEW s, s = Lore!strip_instance(m)
  PROVE  /\ s.system = m.system /\ s.quirks = m.quirks /\ DOMAIN s.verbs = DOMAIN m.verbs
         /\ \A v \in DOMAIN m.verbs :
              /\ s.verbs[v].requirements = m.verbs[v].requirements
              /\ s.verbs[v].prerequisites = m.verbs[v].prerequisites
              /\ s.verbs[v].tier = m.verbs[v].tier
              /\ s.verbs[v].compensation = m.verbs[v].compensation
              /\ s.verbs[v].instance = Lore!Nothing
<1> DEFINE f == [v \in DOMAIN m.verbs |-> [m.verbs[v] EXCEPT !.instance = Lore!Nothing]]
<1>1. s.system = m.system /\ s.quirks = m.quirks /\ s.verbs = f
  BY DEF Lore!strip_instance, Layered
<1>2. ASSUME NEW v \in DOMAIN m.verbs
      PROVE  /\ f[v].requirements = m.verbs[v].requirements
             /\ f[v].prerequisites = m.verbs[v].prerequisites
             /\ f[v].tier = m.verbs[v].tier
             /\ f[v].compensation = m.verbs[v].compensation
             /\ f[v].instance = Lore!Nothing
  <2>1. IsEntry(m.verbs[v]) /\ f[v] = [m.verbs[v] EXCEPT !.instance = Lore!Nothing]
    BY DEF Layered
  <2> HIDE DEF f
  <2> QED  BY <2>1 DEF IsEntry
<1>3. DOMAIN f = DOMAIN m.verbs
  OBVIOUS
<1> HIDE DEF f
<1> QED  BY <1>1, <1>2, <1>3

\* What is layered so is sound, and its structure alone can be published.
LEMMA LayeredSound ==
  ASSUME Layered(community, layers, composed)
  PROVE  Lore!LayeredIsSound
<1> DEFINE s == Lore!strip_instance(composed)
           m == composed
<1>1. /\ s.system = m.system /\ s.quirks = m.quirks /\ DOMAIN s.verbs = DOMAIN m.verbs
      /\ \A v \in DOMAIN m.verbs :
           /\ s.verbs[v].requirements = m.verbs[v].requirements
           /\ s.verbs[v].prerequisites = m.verbs[v].prerequisites
           /\ s.verbs[v].tier = m.verbs[v].tier
           /\ s.verbs[v].compensation = m.verbs[v].compensation
           /\ s.verbs[v].instance = Lore!Nothing
  BY StrippedIs
<1> HIDE DEF s, m
<1>2. Lore!shareable_violations(s) = {}
  BY <1>1, NothingIsEmpty DEF Lore!shareable_violations
<1>3. Lore!validate(s) = Lore!validate(m)
  <2>1. ASSUME NEW v \in DOMAIN m.verbs PROVE Lore!VerbErrors(s.verbs[v]) = Lore!VerbErrors(m.verbs[v])
    BY <1>1 DEF Lore!VerbErrors
  <2>2. {Lore!VerbErrors(s.verbs[v]) : v \in DOMAIN s.verbs}
          = {Lore!VerbErrors(m.verbs[v]) : v \in DOMAIN m.verbs}
    BY <1>1, <2>1
  <2> QED  BY <1>1, <2>2 DEF Lore!validate
<1>4. ~Lore!Drifted(m, s)
  <2>1. \A v \in DOMAIN m.verbs : ~Lore!Changed(m.verbs[v], s.verbs[v])
    BY <1>1 DEF Lore!Changed, Lore!TierOf
  <2>2. ASSUME NEW part \in DOMAIN Lore!diff(m, s) PROVE Lore!diff(m, s)[part] = {}
    <3>1. part \in {"verbs_added", "verbs_removed", "verbs_changed", "quirks_added", "quirks_removed"}
      BY <2>2 DEF Lore!diff
    <3> QED  BY <1>1, <2>1, <3>1 DEF Lore!diff
  <2> QED  BY <2>2 DEF Lore!Drifted
<1>5. \A v \in DOMAIN composed.verbs :
        Lore!EntryIsLayered(composed.verbs[v], Lore!EntryOf(community, v), Lore!Said(v))
  BY DEF Layered, Lore!EntryOf, Lore!Said
<1>6. /\ DOMAIN composed.verbs =
           DOMAIN community.verbs \cup UNION {DOMAIN layers[i].verbs : i \in DOMAIN layers}
      /\ DOMAIN composed.quirks =
           DOMAIN community.quirks \cup UNION {DOMAIN layers[i].quirks : i \in DOMAIN layers}
  BY DEF Layered
<1> QED  BY <1>2, <1>3, <1>4, <1>5, <1>6 DEF Lore!LayeredIsSound, s, m

\* What filling does to one document or line.
Met(old, new, fields) ==
  /\ \A f \in fields : f \in DOMAIN new /\ new[f] # ""
  /\ \A f \in DOMAIN old : old[f] # "" => new[f] = old[f]
  /\ DOMAIN new \subseteq DOMAIN old \cup fields

\* Filling puts a value where it was missing or empty, and nowhere else.
LEMMA FilledMeets ==
  ASSUME NEW e, NEW shape, NEW fields, fields \subseteq Lore!Bound(e),
         NEW h, h = Lore!Filled(shape, fields, e)
  PROVE  Met(shape, h, fields)
<1>1. /\ DOMAIN h = DOMAIN shape \cup fields
      /\ \A f \in DOMAIN h : h[f] = IF f \in fields /\ (f \in DOMAIN shape => shape[f] = "")
                                   THEN Lore!Resolve(e.instance[f]) ELSE shape[f]
  BY DEF Lore!Filled
<1>2. \A f \in fields : Lore!Resolve(e.instance[f]) # ""
  BY DEF Lore!Bound
<1> QED  BY <1>1, <1>2 DEF Met

\* There is nothing left to fill.
LEMMA FilledAgain ==
  ASSUME NEW e, NEW shape, NEW fields, fields \subseteq Lore!Bound(e),
         NEW h, h = Lore!Filled(shape, fields, e)
  PROVE  Lore!Filled(h, fields, e) = h
<1>1. DOMAIN h \cup fields = DOMAIN h /\ h = [f \in DOMAIN h |-> h[f]]
  BY DEF Lore!Filled
<1>2. \A f \in fields : f \in DOMAIN h /\ h[f] # ""
  <2>1. Met(shape, h, fields)
    BY FilledMeets
  <2> QED  BY <2>1 DEF Met
<1>3. \A f \in DOMAIN h :
        (IF f \in fields /\ (f \in DOMAIN h => h[f] = "")
         THEN Lore!Resolve(e.instance[f]) ELSE h[f]) = h[f]
  BY <1>2
<1> QED  BY <1>1, <1>3 DEF Lore!Filled

\* So a document that was overlaid meets its requirements.
LEMMA OverlaidMeets ==
  ASSUME NEW doc, native = [before |-> doc,
           after |-> Lore!overlay_requirements(Lore!EntryOf(composed, stage), doc)]
  PROVE  Lore!OverlayMeets
<1> DEFINE e == Lore!EntryOf(composed, stage)
           after == Lore!overlay_requirements(e, doc)
           head == doc.fields
           body == doc.lines
           F == Lore!OfDocument(e)
           L == Lore!OfLines(e)
           top == Lore!Filled(head, F, e)
           rest == [i \in DOMAIN body |-> Lore!Filled(body[i], L, e)]
<1>1. F \subseteq Lore!Bound(e) /\ L \subseteq Lore!Bound(e)
  BY DEF Lore!OfDocument, Lore!OfLines
<1>2. after = [fields |-> top, lines |-> rest]
  BY DEF Lore!overlay_requirements
<1>3. Met(head, top, F) /\ Lore!Filled(top, F, e) = top
  <2> HIDE DEF e, head, F
  <2> QED  BY <1>1, FilledMeets, FilledAgain
<1>4. ASSUME NEW i \in DOMAIN body
      PROVE  Met(body[i], rest[i], L) /\ Lore!Filled(rest[i], L, e) = rest[i]
  <2> DEFINE line == body[i]
             full == rest[i]
  <2>1. full = Lore!Filled(line, L, e)
    OBVIOUS
  <2> HIDE DEF e, body, L, rest, line, full
  <2>2. Met(line, full, L) /\ Lore!Filled(full, L, e) = full
    BY <1>1, <2>1, FilledMeets, FilledAgain
  <2> QED  BY <2>2 DEF line, full
<1>5. DOMAIN rest = DOMAIN body /\ rest = [i \in DOMAIN rest |-> rest[i]]
  OBVIOUS
<1>6. native.before = doc /\ native.after = after
  OBVIOUS
<1> HIDE DEF rest, top, after
<1>7. Lore!overlay_requirements(e, after) = after
  <2>1. after.fields = top /\ after.lines = rest
    BY <1>2
  <2>2. [i \in DOMAIN rest |-> Lore!Filled(rest[i], L, e)] = rest
    BY <1>4, <1>5
  <2> HIDE DEF e
  <2> QED  BY <1>2, <1>3, <2>1, <2>2 DEF Lore!overlay_requirements, F, L
<1>8. /\ Met(native.before.fields, native.after.fields, F)
      /\ \A i \in DOMAIN native.before.lines :
           Met(native.before.lines[i], native.after.lines[i], L)
      /\ Lore!overlay_requirements(e, native.after) = native.after
  BY <1>2, <1>3, <1>4, <1>6, <1>7
<1> HIDE DEF F, L
<1> QED  BY <1>8 DEF Lore!OverlayMeets, Met, e, F, L
-----------------------------------------------------------------------------
(* The ledger.                                                              *)

\* The ledger: an entry's id is made of its place and of what it says, and what it revises
\* came before it.
EntryKinds == {"lesson", "skill", "anchor"}
EntryIds == Nat \X EntryKinds \X {"a", "b"}
LedgerEntries ==
  [id : EntryIds, kind : EntryKinds, payload : {"a", "b"}, supersedes : EntryIds \cup {Lore!Nothing}]

IsLedger(s) ==
  /\ s \in Seq(LedgerEntries)
  /\ \A i \in 1..Len(s) : s[i].id = <<i - 1, s[i].kind, s[i].payload>>
  /\ \A j \in 1..Len(s) : s[j].supersedes # Lore!Nothing =>
       s[j].kind = "skill" /\ \E i \in 1..(j - 1) : s[j].supersedes = s[i].id

\* Some of the numbers up to n have a greatest.
LEMMA GreatestIsThere ==
  ASSUME NEW n \in Nat, NEW S, S \subseteq 1..n, S # {}
  PROVE  Lore!Max(S) \in S
<1> DEFINE M == {n - i : i \in S}
<1>1. M \subseteq Nat /\ M # {}
  <2>1. \A i \in 1..n : n - i \in Nat
    OBVIOUS
  <2> QED  BY <2>1
<1>2. Lore!Min(M) \in M
  <2> HIDE DEF M
  <2> QED  BY <1>1, LeastIsThere
<1>3. PICK m \in M : \A i \in M : ~(<<i, m>> \in OpToRel(<, Nat))
  <2> HIDE DEF M
  <2> QED  BY <1>1, NatLessThanWellFounded, WFMin
<1>4. PICK x \in S : m = n - x
  BY <1>3
<1>5. ASSUME NEW y \in S PROVE x >= y
  <2>1. n - y \in M /\ n - y \in Nat /\ m \in Nat
    BY <1>1, <1>3
  <2>2. ~(n - y < m)
    BY <1>3, <2>1 DEF OpToRel
  <2> QED  BY <1>4, <1>5, <2>2
<1> QED  BY <1>5 DEF Lore!Max

\* An id is not taken for the absence of one.
LEMMA IdsAreSomething == \A id \in EntryIds : id # Lore!Nothing
<1>1. ASSUME NEW n \in Nat, NEW k \in EntryKinds, NEW p \in {"a", "b"} PROVE <<n, k, p>> # << >>
  <2>1. Len(<<n, k, p>>) = 3 /\ Len(<< >>) = 0
    OBVIOUS
  <2> QED  BY <2>1
<1> QED  BY <1>1 DEF EntryIds, Lore!Nothing

\* In such a ledger only a later skill hides an entry.
LEMMA LedgerSound ==
  ASSUME IsLedger(memory)
  PROVE  Lore!LedgerIsKept
<1> DEFINE n == Len(memory)
<1>1. /\ n \in Nat /\ DOMAIN memory = 1..n
      /\ \A i \in 1..n : /\ memory[i].id \in EntryIds /\ memory[i].id # Lore!Nothing
                         /\ memory[i].id = <<i - 1, memory[i].kind, memory[i].payload>>
  <2>1. memory \in Seq(LedgerEntries)
    BY DEF IsLedger
  <2>2. n \in Nat /\ DOMAIN memory = 1..n /\ \A i \in 1..n : memory[i] \in LedgerEntries
    BY <2>1
  <2> QED  BY <2>2, IdsAreSomething DEF IsLedger, LedgerEntries
<1>2. ASSUME NEW i \in 1..n, NEW j \in 1..n, memory[i].id = memory[j].id PROVE i = j
  <2>1. memory[i].id[1] = i - 1 /\ memory[j].id[1] = j - 1
    BY <1>1
  <2> QED  BY <1>1, <1>2, <2>1
<1>3. ASSUME NEW i \in 1..n, NEW j \in 1..n, memory[j].supersedes = memory[i].id
      PROVE  memory[j].kind = "skill" /\ i < j
  <2>1. PICK k \in 1..(j - 1) : memory[j].kind = "skill" /\ memory[j].supersedes = memory[k].id
    BY <1>1, <1>3 DEF IsLedger
  <2>2. k \in 1..n /\ k < j
    BY <1>1
  <2>3. k = i
    BY <1>2, <1>3, <2>1, <2>2
  <2> QED  BY <2>1, <2>2, <2>3
<1>4. ASSUME NEW i \in 1..n
      PROVE  i \in Lore!active(memory[i].kind) \/ \E j \in (i + 1)..n :
               memory[j].kind = "skill" /\ memory[j].supersedes = memory[i].id
  <2>1. CASE \E j \in 1..n : memory[j].supersedes = memory[i].id
    <3>1. PICK j \in 1..n : memory[j].supersedes = memory[i].id
      BY <2>1
    <3>2. memory[j].kind = "skill" /\ j \in (i + 1)..n
      BY <1>1, <1>3, <3>1
    <3> QED  BY <3>1, <3>2
  <2>2. CASE ~ \E j \in 1..n : memory[j].supersedes = memory[i].id
    BY <1>1, <2>2 DEF Lore!active
  <2> QED  BY <2>1, <2>2
<1>5. ASSUME NEW i \in 1..n, memory[i].kind = "anchor" PROVE Lore!current_anchor # Lore!Nothing
  <2> DEFINE A == {k \in DOMAIN memory : memory[k].kind = "anchor"}
  <2>1. A \subseteq 1..n /\ A # {}
    BY <1>1, <1>5
  <2>2. Lore!Max(A) \in A
    <3> HIDE DEF A
    <3> QED  BY <1>1, <2>1, GreatestIsThere
  <2>3. Lore!current_anchor = memory[Lore!Max(A)].id
    BY <2>1 DEF Lore!current_anchor
  <2> QED  BY <1>1, <2>1, <2>2, <2>3
<1>6. ASSUME memory # << >> PROVE n \in Lore!active(memory[n].kind)
  <2>1. n \in 1..n
    BY <1>6 DEF IsLedger
  <2>2. ASSUME NEW j \in 1..n PROVE memory[j].supersedes # memory[n].id
    BY <1>1, <1>3, <2>1
  <2> QED  BY <1>1, <2>1, <2>2 DEF Lore!active
<1>7. \A i \in 1..n : memory[i].id = Lore!Id(i - 1, memory[i].kind, memory[i].payload)
  BY <1>1 DEF Lore!Id
<1> QED  BY <1>1, <1>2, <1>4, <1>5, <1>6, <1>7 DEF Lore!LedgerIsKept

\* An entry whose id tells its place and what it says, and which revises one before it, is
\* appended.
LEMMA AppendIsLedger ==
  ASSUME NEW s, IsLedger(s), NEW e \in LedgerEntries, e.id = <<Len(s), e.kind, e.payload>>,
         \/ e.supersedes = Lore!Nothing
         \/ e.kind = "skill" /\ \E i \in 1..Len(s) : e.supersedes = s[i].id
  PROVE  IsLedger(Append(s, e))
<1> DEFINE t == Append(s, e)
<1>1. /\ s \in Seq(LedgerEntries) /\ Len(s) \in Nat
      /\ t \in Seq(LedgerEntries) /\ Len(t) = Len(s) + 1
      /\ \A i \in 1..Len(s) : t[i] = s[i]
      /\ t[Len(s) + 1] = e
  BY DEF IsLedger
<1> HIDE DEF t
<1>2. \A i \in 1..Len(t) : t[i].id = <<i - 1, t[i].kind, t[i].payload>>
  <2>1. ASSUME NEW i \in 1..Len(s) PROVE t[i].id = <<i - 1, t[i].kind, t[i].payload>>
    BY <1>1 DEF IsLedger
  <2>2. (Len(s) + 1) - 1 = Len(s)
    BY <1>1
  <2> QED  BY <1>1, <2>1, <2>2
<1>3. ASSUME NEW j \in 1..Len(t), t[j].supersedes # Lore!Nothing
      PROVE  t[j].kind = "skill" /\ \E i \in 1..(j - 1) : t[j].supersedes = t[i].id
  <2>1. CASE j \in 1..Len(s)
    <3>1. PICK i \in 1..(j - 1) : s[j].kind = "skill" /\ s[j].supersedes = s[i].id
      BY <1>1, <1>3, <2>1 DEF IsLedger
    <3>2. i \in 1..Len(s)
      BY <1>1, <2>1
    <3> QED  BY <1>1, <2>1, <3>1, <3>2
  <2>2. CASE j = Len(s) + 1
    <3>1. PICK i \in 1..Len(s) : e.kind = "skill" /\ e.supersedes = s[i].id
      BY <1>1, <1>3, <2>2
    <3>2. i \in 1..(j - 1) /\ t[i] = s[i] /\ t[j] = e
      BY <1>1, <2>2
    <3> QED  BY <3>1, <3>2
  <2> QED  BY <1>1, <2>1, <2>2
<1> QED  BY <1>1, <1>2, <1>3 DEF IsLedger, t

\* So is what is recorded.
LEMMA RecordKeeps ==
  ASSUME IsLedger(memory), NEW kind \in {"lesson", "skill", "anchor"}, NEW payload \in {"a", "b"},
         Lore!Record(kind, payload)
  PROVE  IsLedger(memory')
<1> DEFINE place == Len(memory)
           Row(former) == [id |-> <<place, kind, payload>>, kind |-> kind, payload |-> payload,
                           supersedes |-> former]
<1>1. memory \in Seq(LedgerEntries) /\ place \in Nat /\ DOMAIN memory = 1..place
  BY DEF IsLedger
<1>2. ASSUME NEW former \in EntryIds \cup {Lore!Nothing}
      PROVE  /\ Row(former) \in LedgerEntries
             /\ Row(former).id = <<place, Row(former).kind, Row(former).payload>>
             /\ Row(former).kind = kind /\ Row(former).supersedes = former
  BY <1>1 DEF LedgerEntries, EntryIds, EntryKinds
<1>3. CASE memory' = Append(memory, Row(Lore!Nothing))
  <2> DEFINE e == Row(Lore!Nothing)
  <2>1. e \in LedgerEntries /\ e.id = <<Len(memory), e.kind, e.payload>> /\ e.supersedes = Lore!Nothing
    BY <1>2
  <2> HIDE DEF e
  <2>2. IsLedger(Append(memory, e))
    BY <2>1, AppendIsLedger
  <2> QED  BY <1>3, <2>2 DEF e
<1>4. ASSUME kind = "skill", NEW i \in DOMAIN memory, memory' = Append(memory, Row(memory[i].id))
      PROVE  IsLedger(memory')
  <2> DEFINE former == memory[i].id
             e == Row(former)
  <2>1. i \in 1..Len(memory) /\ former \in EntryIds
    <3>1. i \in 1..Len(memory) /\ memory[i] \in LedgerEntries
      BY <1>1, <1>4
    <3> QED  BY <3>1 DEF LedgerEntries
  <2>2. /\ e \in LedgerEntries /\ e.id = <<Len(memory), e.kind, e.payload>>
        /\ e.kind = "skill" /\ e.supersedes = former
    BY <1>2, <1>4, <2>1
  <2> HIDE DEF e
  <2>3. IsLedger(Append(memory, e))
    BY <2>1, <2>2, AppendIsLedger
  <2> QED  BY <1>4, <2>3 DEF e
<1> QED  BY <1>3, <1>4 DEF Lore!Record, Lore!Recorded, Lore!Id

\* What a reader of the manifests, the shim and the ledger relies on.
LoreInv ==
  /\ IsLearned(community, downgraded)
  /\ layers \in Seq(Overrides)
  /\ stage \in {"scanning", "learning"} => layers = << >>
  /\ stage \notin {"scanning", "learning"} => Layered(community, layers, composed)
  /\ stage \in Lore!Verbs =>
       native = [before |-> native.before,
                 after |-> Lore!overlay_requirements(Lore!EntryOf(composed, stage), native.before)]
  /\ IsLedger(memory)

\* What the properties say follows from it.
LEMMA LoreInvSuffices == LoreInv => Lore!ManifestsAreKept
BY LearnedSound, LayeredSound, OverlaidMeets, LedgerSound
   DEF LoreInv, Lore!ManifestsAreKept, Lore!LayeredIsSound, Lore!OverlayMeets

\* A verb is not taken for a stage of the work.
LEMMA StagesDiffer ==
  ASSUME NEW v \in Lore!Verbs
  PROVE  v \notin {"scanning", "learning", "recording", "served"} /\ v # None
BY ToolkitAssumption DEF Lore!ConstantsAreSound

\* Nothing was learned or recorded yet.
LEMMA LoreBegins ==
  ASSUME NEW what \in {"scanning", "recording"}, Lore!Begin(what)
  PROVE  LoreInv
<1>1. /\ community = Lore!Manifest(Lore!Nothing, Lore!Nothing) /\ composed = community
      /\ memory = << >> /\ stage = what /\ layers = << >>
  BY DEF Lore!Begin
<1>2. /\ DOMAIN community = {"system", "verbs", "quirks"} /\ community.system = "name"
      /\ DOMAIN community.verbs = {} /\ DOMAIN community.quirks = {}
  BY <1>1, NothingIsEmpty DEF Lore!Manifest
<1>3. IsLearned(community, downgraded) /\ Layered(community, layers, composed)
  <2>1. IsLearned(community, downgraded)
    BY <1>2 DEF IsLearned
  <2> QED  BY <1>1, <2>1, LayeredAlone
<1>4. IsLedger(memory)
  BY <1>1 DEF IsLedger
<1>5. stage \notin Lore!Verbs
  BY <1>1, StagesDiffer
<1> QED  BY <1>1, <1>3, <1>4, <1>5 DEF LoreInv

\* Every step of the work keeps it.
LEMMA LoreKeeps ==
  ASSUME LoreInv, Lore!Next
  PROVE  LoreInv'
<1>1. /\ IsLearned(community, downgraded) /\ IsLedger(memory)
      /\ layers \in Seq(Overrides)
      /\ stage \in {"scanning", "learning"} => layers = << >>
      /\ stage \notin {"scanning", "learning"} => Layered(community, layers, composed)
  BY DEF LoreInv
<1>2. ASSUME stage \in {"scanning", "learning"}, stage' \in {"scanning", "learning"},
             memory' = memory, layers' = layers, IsLearned(community, downgraded)'
      PROVE  LoreInv'
  BY <1>1, <1>2, StagesDiffer DEF LoreInv
<1>3. ASSUME NEW v \in Lore!Verbs, NEW error \in Errors, Lore!Scan(v, error)
      PROVE  LoreInv'
  BY <1>1, <1>2, <1>3, ScanKeeps DEF Lore!Scan, Lore!Learning
<1>4. ASSUME NEW lesson \in Lessons, Lore!Learn(lesson)
      PROVE  LoreInv'
  BY <1>1, <1>2, <1>4, LearnKeeps DEF Lore!Learn, Lore!Merging
<1>5. ASSUME NEW v \in Lore!Verbs, NEW available \in SUBSET Lore!Verbs, Lore!Classify(v, available)
      PROVE  LoreInv'
  BY <1>1, <1>2, <1>5, ClassifyKeeps DEF Lore!Classify, Lore!Merging
<1>6. ASSUME NEW override \in Overrides, Lore!Layer(override)
      PROVE  LoreInv'
  <2> DEFINE under == IF stage = "served" THEN composed ELSE community
  <2>1. /\ community' = community /\ downgraded' = downgraded /\ memory' = memory
        /\ composed' = Lore!merge(under, override) /\ stage' = "served"
        /\ layers' = Append(layers, override)
        /\ stage \in {"scanning", "learning", "served"}
    BY <1>6 DEF Lore!Layer
  <2>2. Layered(community, layers, under)
    <3>1. CASE stage = "served"
      BY <1>1, <3>1
    <3>2. CASE stage \in {"scanning", "learning"}
      BY <1>1, <3>2, LayeredAlone
    <3> QED  BY <2>1, <3>1, <3>2
  <2> HIDE DEF under
  <2>3. layers' \in Seq(Overrides) /\ Layered(community, layers', composed')
    BY <1>1, <2>1, <2>2, MergeLayers
  <2> QED  BY <1>1, <2>1, <2>3, StagesDiffer DEF LoreInv
<1>7. ASSUME NEW v \in Lore!Verbs, NEW doc \in Documents, Lore!Overlay(v, doc)
      PROVE  LoreInv'
  <2>1. /\ community' = community /\ downgraded' = downgraded /\ memory' = memory
        /\ composed' = composed /\ layers' = layers /\ stage = "served" /\ stage' = v
        /\ native' = [before |-> doc,
                      after |-> Lore!overlay_requirements(Lore!EntryOf(composed, v), doc)]
    BY <1>7 DEF Lore!Overlay
  <2>2. native'.before = doc
    BY <2>1
  <2>3. Lore!EntryOf(composed', stage') = Lore!EntryOf(composed, v)
    BY <2>1
  <2>4. v \notin {"scanning", "learning"}
    BY StagesDiffer
  <2> QED  BY <1>1, <2>1, <2>2, <2>3, <2>4 DEF LoreInv
<1>8. ASSUME NEW kind \in {"lesson", "skill", "anchor"}, NEW payload \in {"a", "b"},
             Lore!Record(kind, payload)
      PROVE  LoreInv'
  <2>1. IsLedger(memory')
    BY <1>1, <1>8, RecordKeeps
  <2> QED  BY <1>1, <1>8, <2>1, StagesDiffer DEF Lore!Record, LoreInv
<1> QED  BY <1>3, <1>4, <1>5, <1>6, <1>7, <1>8 DEF Lore!Next

\* What is learned is valid; what is layered is all that each layer says, the last to name a
\* value or a tier deciding, however many there are; the overlay fills what it has a value
\* for and only that; and each entry of the ledger is still what its id was made of and is
\* hidden only by a later revision.
THEOREM ManifestsStay == ToolkitSpec => []ManifestsAreKept
<1>1. ToolkitInit => LoreInv
  BY LoreBegins DEF ToolkitInit, IdleLore, Lore!Init
<1>2. LoreInv /\ [ToolkitNext]_toolkit => LoreInv'
  <2>1. ASSUME LoreInv, UNCHANGED learning PROVE LoreInv'
    BY <2>1 DEF LoreInv, learning
  <2>2. ASSUME LoreInv, KeepManifest PROVE LoreInv'
    BY <2>2, LoreKeeps DEF KeepManifest
  <2> QED
    BY <2>1, <2>2 DEF ToolkitNext, CallBackend, ResolveWords, TestShim, ServeIntents, toolkit
<1>3. LoreInv => ManifestsAreKept
  BY LoreInvSuffices DEF ManifestsAreKept
<1> QED  BY <1>1, <1>2, <1>3, PTL DEF ToolkitSpec

-----------------------------------------------------------------------------
(* Intents: the records of a page, in ascending order.                      *)

\* The sizes that the intents count are those of the library.
LEMMA SameCount == \A S : /\ Intent!Cardinality(S) = Cardinality(S)
                          /\ Intent!IsFiniteSet(S) <=> IsFiniteSet(S)
BY DEF Intent!Cardinality, Cardinality, Intent!IsFiniteSet, IsFiniteSet

\* Of a set of natural numbers that is not empty, the least.
LEMMA LeastOf ==
  ASSUME NEW S, S \subseteq Nat, S # {}
  PROVE  \E m \in S : \A x \in S : m <= x
<1>1. PICK m \in S : \A i \in S : ~(<<i, m>> \in OpToRel(<, Nat))
  BY NatLessThanWellFounded, WFMin
<1>2. ASSUME NEW i \in S PROVE m <= i
  <2>1. i \in Nat /\ m \in Nat /\ ~(i < m)
    BY <1>1, <1>2 DEF OpToRel
  <2> QED  BY <2>1
<1> QED  BY <1>2

\* s gives each number of S its place, the smaller first.
Enumerates(s, S) ==
  /\ s \in [1..Cardinality(S) -> S]
  /\ \A i, j \in 1..Cardinality(S) : i < j => s[i] < s[j]

\* With its least number before the others a set is in order.
LEMMA LeastGoesFirst ==
  ASSUME NEW S, S \subseteq Nat, IsFiniteSet(S), NEW x \in S, \A y \in S : x <= y,
         NEW t, Enumerates(t, S \ {x})
  PROVE  \E s : Enumerates(s, S)
<1> DEFINE n == Cardinality(S)
           s == [k \in 1..n |-> IF k = 1 THEN x ELSE t[k - 1]]
<1>1. n \in Nat /\ Cardinality(S \ {x}) = n - 1 /\ n - 1 \in Nat
  <2>1. IsFiniteSet(S \ {x}) /\ Cardinality(S \ {x}) = Cardinality(S) - 1
    BY Zenon, FS_RemoveElement
  <2>2. Cardinality(S) \in Nat
    BY FS_CardinalityType
  <2>3. Cardinality(S \ {x}) \in Nat
    BY <2>1, FS_CardinalityType
  <2> QED  BY <2>1, <2>2, <2>3
<1>2. t \in [1..(n - 1) -> S \ {x}] /\ \A i, j \in 1..(n - 1) : i < j => t[i] < t[j]
  BY <1>1 DEF Enumerates
<1> HIDE DEF n
<1>3. ASSUME NEW k \in 1..n, k # 1 PROVE k - 1 \in 1..(n - 1) /\ t[k - 1] \in S /\ x < t[k - 1]
  <2>1. k - 1 \in 1..(n - 1)
    BY <1>1, <1>3
  <2>2. t[k - 1] \in S /\ t[k - 1] # x
    BY <1>2, <2>1
  <2>3. x \in Nat /\ t[k - 1] \in Nat /\ x <= t[k - 1]
    BY <2>2
  <2> QED  BY <2>1, <2>2, <2>3
<1>4. s \in [1..n -> S]
  BY <1>3
<1>5. ASSUME NEW i \in 1..n, NEW j \in 1..n, i < j PROVE s[i] < s[j]
  <2>1. j # 1 /\ s[j] = t[j - 1]
    BY <1>1, <1>5
  <2>2. CASE i = 1
    BY <1>3, <2>1, <2>2
  <2>3. CASE i # 1
    <3>1. i - 1 \in 1..(n - 1) /\ j - 1 \in 1..(n - 1) /\ i - 1 < j - 1
      BY <1>1, <1>3, <1>5, <2>1, <2>3
    <3> QED  BY <1>2, <2>1, <2>3, <3>1
  <2> QED  BY <2>2, <2>3
<1> HIDE DEF s
<1>6. Enumerates(s, S)
  BY <1>4, <1>5 DEF Enumerates, n
<1> QED  BY <1>6

\* A finite set of numbers can be put in order.
LEMMA OrderIsThere ==
  ASSUME NEW S, S \subseteq Nat, IsFiniteSet(S)
  PROVE  \E s : Enumerates(s, S)
<1> DEFINE Bad == {n \in Nat : \E T \in SUBSET S : Cardinality(T) = n /\ ~ \E t : Enumerates(t, T)}
<1>1. Bad = {}
  <2> SUFFICES ASSUME Bad # {} PROVE FALSE
    OBVIOUS
  <2>1. PICK n \in Bad : \A m \in Bad : n <= m
    <3>1. Bad \subseteq Nat
      OBVIOUS
    <3> HIDE DEF Bad
    <3> QED  BY <3>1, LeastOf
  <2>2. PICK T \in SUBSET S : Cardinality(T) = n /\ ~ \E t : Enumerates(t, T)
    BY <2>1
  <2>3. n \in Nat /\ IsFiniteSet(T) /\ T \subseteq Nat
    BY FS_Subset
  <2>4. CASE T = {}
    <3>1. Cardinality(T) = 0
      BY <2>4, FS_EmptySet
    <3>2. Enumerates([k \in 1..0 |-> k], T)
      BY <3>1 DEF Enumerates
    <3> QED  BY <2>2, <3>2
  <2>5. CASE T # {}
    <3>1. PICK x \in T : \A y \in T : x <= y
      BY <2>3, <2>5, LeastOf
    <3>2. Cardinality(T \ {x}) = n - 1 /\ T \ {x} \in SUBSET S /\ n - 1 \in Nat
      <4>1. IsFiniteSet(T \ {x}) /\ Cardinality(T \ {x}) = n - 1
        BY <2>2, <2>3, FS_RemoveElement
      <4>2. Cardinality(T \ {x}) \in Nat
        BY <4>1, FS_CardinalityType
      <4> QED  BY <4>1, <4>2
    <3>3. n - 1 \notin Bad
      BY <2>1, <2>3
    <3>4. PICK t : Enumerates(t, T \ {x})
      BY <3>2, <3>3
    <3> QED  BY <2>2, <2>3, <3>1, <3>4, LeastGoesFirst
  <2> QED  BY <2>4, <2>5
<1>2. Cardinality(S) \in Nat /\ S \in SUBSET S
  BY FS_CardinalityType
<1> QED  BY <1>1, <1>2

\* The sequence s has all numbers of S, each has its place and the smaller goes first.
IsOrdered(s, S) ==
  /\ Cardinality(S) \in Nat /\ s \in [1..Cardinality(S) -> S] /\ s \in Seq(S)
  /\ Len(s) = Cardinality(S) /\ DOMAIN s = 1..Cardinality(S)
  /\ \A i, j \in 1..Cardinality(S) : i < j => s[i] < s[j]
  /\ \A x \in S : \E i \in 1..Cardinality(S) : s[i] = x

\* So the records are.
LEMMA AscendingIs ==
  ASSUME NEW S, S \subseteq Nat, IsFiniteSet(S)
  PROVE  IsOrdered(Intent!Ascending(S), S)
<1>0. SUFFICES ASSUME NEW s, s = Intent!Ascending(S) PROVE IsOrdered(s, S)
  OBVIOUS
<1> DEFINE n == Cardinality(S)
<1>1. n \in Nat
  BY FS_CardinalityType
<1>2. s \in [1..n -> S] /\ \A i, j \in DOMAIN s : i < j => s[i] < s[j]
  <2>1. \E t \in [1..n -> S] : \A i, j \in DOMAIN t : i < j => t[i] < t[j]
    <3>1. PICK t : Enumerates(t, S)
      BY OrderIsThere
    <3>2. t \in [1..n -> S] /\ DOMAIN t = 1..n /\ \A i, j \in 1..n : i < j => t[i] < t[j]
      BY <3>1 DEF Enumerates
    <3> HIDE DEF n
    <3> QED  BY <3>2
  <2>2. Intent!Cardinality(S) = n
    BY SameCount
  <2> HIDE DEF n
  <2> QED  BY <1>0, <2>1, <2>2 DEF Intent!Ascending
<1>3. DOMAIN s = 1..n
  BY <1>2
<1>4. s \in Surjection(1..n, S)
  <2>1. ASSUME NEW i \in 1..n, NEW j \in 1..n, s[i] = s[j] PROVE i = j
    <3>1. /\ i \in Nat /\ j \in Nat /\ s[i] \in Nat /\ s[j] \in Nat
          /\ (i < j => s[i] < s[j])
          /\ (j < i => s[j] < s[i])
      <4> HIDE DEF n
      <4>1. s[i] \in S /\ s[j] \in S
        BY <1>2
      <4>2. i \in DOMAIN s /\ j \in DOMAIN s /\ i \in Nat /\ j \in Nat
        BY <1>1, <1>3
      <4>3. i < j => s[i] < s[j]
        BY <1>2, <4>2
      <4>4. j < i => s[j] < s[i]
        BY <1>2, <4>2
      <4> QED  BY <4>1, <4>2, <4>3, <4>4
    <3> QED  BY <2>1, <3>1
  <2>2. s \in Injection(1..n, S)
    BY <1>2, <2>1 DEF Injection, IsInjective
  <2>3. Cardinality(1..n) = n
    BY <1>1, FS_Interval
  <2> HIDE DEF n
  <2>4. IsFiniteSet(1..n) /\ Cardinality(1..n) = Cardinality(S)
    BY <1>1, <2>3, FS_Interval DEF n
  <2> QED  BY <2>2, <2>4, FS_Injection
<1>5. s \in Seq(S) /\ Len(s) = n
  BY <1>1, <1>2, <1>3
<1> QED  BY <1>1, <1>2, <1>3, <1>4, <1>5 DEF Surjection, IsOrdered

\* What is assumed of the records and the limits.
LEMMA IntentsAreOf ==
  /\ Ids \subseteq Nat /\ (\A k \in Ids : k > 0) /\ IsFiniteSet(Ids) /\ Absent \notin Ids
  /\ Absent \notin Int /\ Absent # "next"
  /\ Absent \notin Seq(Ids) /\ Absent # <<Absent>>
  /\ DefaultLimit \in Nat \ {0} /\ ChangeLimit \in Nat \ {0} /\ EdgeLimit \in Nat /\ CapRows \in Nat
<1>1. Intent!ConstantsAreSound
  BY ToolkitAssumption
<1>2. /\ Ids \subseteq Nat \ {0} /\ Intent!IsFiniteSet(Ids)
      /\ Absent \notin Int /\ Absent # "next"
      /\ Absent \notin Seq(Ids) /\ Absent # <<Absent>>
      /\ DefaultLimit \in Nat \ {0} /\ ChangeLimit \in Nat \ {0} /\ EdgeLimit \in Nat /\ CapRows \in Nat
  BY <1>1 DEF Intent!ConstantsAreSound
<1>3. \A k \in Ids : k \in Nat /\ k > 0 /\ k # Absent
  BY <1>2
<1> QED  BY <1>2, <1>3, SameCount

\* The records that match are some of them.
LEMMA MatchingIsFinite ==
  ASSUME NEW where
  PROVE  /\ Intent!Matching(where) \subseteq Intent!Present /\ Intent!Present \subseteq Ids
         /\ Intent!Present \subseteq Nat /\ \A k \in Intent!Present : k > 0
         /\ IsFiniteSet(Intent!Present) /\ IsFiniteSet(Intent!Matching(where))
<1>1. Intent!Matching(where) \in SUBSET Intent!Present /\ Intent!Present \in SUBSET Ids
  BY DEF Intent!Matching, Intent!Present
<1> QED  BY <1>1, IntentsAreOf, FS_Subset

\* The parts of an answer.
LEMMA AnswersAre ==
  /\ DOMAIN Intent!Blank = {"outcome", "code", "items", "next", "count", "groups", "proposals"}
  /\ DOMAIN Intent!Result = DOMAIN Intent!Blank
  /\ Intent!Result.outcome = "result" /\ Intent!Result.next = Absent /\ Intent!Result.items = << >>
  /\ \A code : /\ Intent!Refusal(code).outcome = "refused" /\ Intent!Refusal(code).next = Absent
               /\ Intent!Refusal(code).items = << >>
               /\ DOMAIN Intent!Refusal(code) = DOMAIN Intent!Blank
  /\ Intent!Error.outcome = "refused" /\ Intent!Error.next = Absent /\ Intent!Error.items = << >>
BY DEF Intent!Blank, Intent!Result, Intent!Refusal, Intent!Error

\* The first of a sequence.
LEMMA TakeIs ==
  ASSUME NEW S, NEW s \in Seq(S), NEW n \in Nat, NEW t, t = Intent!Take(s, n)
  PROVE  /\ t \in Seq(S) /\ Len(t) = IF Len(s) < n THEN Len(s) ELSE n
         /\ Len(t) \in Nat /\ Len(t) <= Len(s) /\ DOMAIN t = 1..Len(t)
         /\ \A i \in 1..Len(t) : t[i] = s[i]
<1> DEFINE m == IF Len(s) < n THEN Len(s) ELSE n
<1>1. m \in Nat /\ m <= Len(s) /\ t = SubSeq(s, 1, m) /\ Len(s) \in Nat
  BY DEF Intent!Take
<1> HIDE DEF m
<1>2. /\ t \in Seq(S) /\ Len(t) = m /\ \A i \in 1..m : t[i] = s[1 + i - 1]
  BY <1>1, SubSeqProperties
<1>3. \A i \in 1..m : 1 + i - 1 = i
  BY <1>1
<1> QED  BY <1>1, <1>2, <1>3 DEF m

\* The matching records after one.
Beyond(where, after) == {k \in Intent!Matching(where) : k > after}

\* Whatever the backend filters itself, the edge goes through those.
LEMMA PulledIs ==
  ASSUME NEW where, NEW after
  PROVE  {k \in Intent!Pulled(where, after) : Intent!_matches(k, where)} = Beyond(where, after)
BY DEF Intent!Pulled, Intent!Matching, Beyond

\* A page lists some of the records S, in ascending order, and all of them up to its cursor.
IsPage(r, S, limit) ==
  /\ r.items \in Seq(S)
  /\ Len(r.items) = IF Cardinality(S) < limit THEN Cardinality(S) ELSE limit
  /\ \A i, j \in 1..Len(r.items) : i < j => r.items[i] < r.items[j]
  /\ r.next \in S \cup {Absent}
  /\ \A k \in S : (\E i \in 1..Len(r.items) : r.items[i] = k) <=> (r.next = Absent \/ k <= r.next)

\* So does what a search gives, unless it is refused.
LEMMA SearchIs ==
  ASSUME NEW where, NEW limit \in Nat \ {0}, NEW after,
         NEW r, r = Intent!search(where, limit, after)
  PROVE  /\ DOMAIN r = DOMAIN Intent!Blank
         /\ \/ r = Intent!Refusal("RESULT_TOO_LARGE")
            \/ r.outcome = "result" /\ IsPage(r, Beyond(where, after), limit)
<1> DEFINE S == Beyond(where, after)
           rows == Intent!Ascending(S)
           page == Intent!Take(rows, limit)
           next == IF Len(rows) > limit /\ page # << >> THEN page[Len(page)] ELSE Absent
           body == [Intent!Result EXCEPT !.items = page, !.next = next]
<1>1. r = Intent!Refusal("RESULT_TOO_LARGE") \/ r = body
  BY PulledIs DEF Intent!search
<1>2. /\ DOMAIN body = DOMAIN Intent!Blank /\ body.outcome = "result" /\ body.items = page
      /\ body.next = next
  <2> HIDE DEF page, next
  <2> QED  BY AnswersAre
<1>3. S \subseteq Nat /\ IsFiniteSet(S) /\ S \subseteq Ids
  <2>1. S \in SUBSET Intent!Matching(where)
    BY DEF Beyond
  <2>2. IsFiniteSet(S)
    BY <2>1, MatchingIsFinite, FS_Subset
  <2> QED  BY <2>1, <2>2, MatchingIsFinite
<1> HIDE DEF S
<1> DEFINE n == Cardinality(S)
<1>4. /\ n \in Nat /\ rows \in Seq(S) /\ Len(rows) = n
      /\ \A i, j \in 1..n : i < j => rows[i] < rows[j]
      /\ \A i \in 1..n : rows[i] \in S
      /\ \A x \in S : \E i \in 1..n : rows[i] = x
  <2>1. rows = Intent!Ascending(S)
    OBVIOUS
  <2> HIDE DEF rows
  <2>2. /\ n \in Nat /\ rows \in [1..n -> S] /\ rows \in Seq(S) /\ Len(rows) = n
        /\ \A i, j \in 1..n : i < j => rows[i] < rows[j]
        /\ \A x \in S : \E i \in 1..n : rows[i] = x
    <3>1. IsOrdered(rows, S)
      BY <1>3, <2>1, AscendingIs
    <3> QED  BY <3>1 DEF IsOrdered
  <2> HIDE DEF n
  <2> QED  BY <2>2
<1> HIDE DEF rows, n
<1> DEFINE m == Len(page)
<1>5. /\ page \in Seq(S) /\ m = (IF n < limit THEN n ELSE limit) /\ m \in Nat /\ m <= n
      /\ \A i \in 1..m : page[i] = rows[i]
  BY <1>4, TakeIs
<1>6. \A i, j \in 1..m : i < j => page[i] < page[j]
  <2>1. ASSUME NEW i \in 1..m, NEW j \in 1..m, i < j PROVE page[i] < page[j]
    <3>1. i \in 1..n /\ j \in 1..n
      BY <1>4, <1>5
    <3> QED  BY <1>4, <1>5, <2>1, <3>1
  <2> QED  BY <2>1
<1>7. CASE n > limit
  <2>1. m = limit /\ m \in 1..n /\ m \in 1..m
    BY <1>4, <1>5, <1>7
  <2>2. next = rows[m] /\ rows[m] \in S
    <3>1. page # << >>
      BY <1>5, <2>1
    <3> QED  BY <1>4, <1>5, <1>7, <2>1, <3>1
  <2>3. ASSUME NEW k \in S PROVE (\E i \in 1..m : page[i] = k) <=> k <= rows[m]
    <3>1. PICK i \in 1..n : rows[i] = k
      BY <1>4
    <3>2. i \in Nat /\ k \in Nat /\ rows[m] \in Nat
      <4>1. i \in Nat
        BY <1>4
      <4>2. k \in Nat
        BY <1>3
      <4>3. rows[m] \in Nat
        BY <1>3, <2>2
      <4> QED  BY <4>1, <4>2, <4>3
    <3>3. CASE i <= m
      <4>1. i \in 1..m /\ page[i] = k
        BY <1>5, <3>1, <3>2, <3>3
      <4>2. k <= rows[m]
        <5>1. i < m => rows[i] < rows[m]
          BY <1>4, <2>1
        <5>2. i = m => rows[i] = rows[m]
          OBVIOUS
        <5> QED  BY <1>5, <3>1, <3>2, <3>3, <5>1, <5>2
      <4> QED  BY <4>1, <4>2
    <3>4. CASE i > m
      <4>1. rows[m] < k
        BY <1>4, <2>1, <3>1, <3>4
      <4>2. ASSUME NEW j \in 1..m, page[j] = k PROVE FALSE
        <5>1. j \in 1..n /\ j < i /\ rows[j] = k
          BY <1>4, <1>5, <3>2, <3>4, <4>2
        <5>2. rows[j] < rows[i]
          BY <1>4, <5>1
        <5> QED  BY <3>1, <3>2, <5>1, <5>2
      <4> QED  BY <3>2, <4>1, <4>2
    <3> QED  BY <1>5, <3>2, <3>3, <3>4
  <2>4. next # Absent
    BY <1>3, <2>2, IntentsAreOf
  <2> HIDE DEF page, next, body
  <2>5. IsPage(body, S, limit)
    BY <1>2, <1>5, <1>6, <2>2, <2>3, <2>4 DEF IsPage, n
  <2> QED  BY <1>1, <1>2, <2>5, AnswersAre DEF S
<1>8. CASE ~(n > limit)
  <2>1. next = Absent /\ m = n
    BY <1>4, <1>5, <1>8
  <2>2. \A k \in S : \E i \in 1..m : page[i] = k
    BY <1>4, <1>5, <2>1
  <2> HIDE DEF page, next, body
  <2>3. IsPage(body, S, limit)
    BY <1>2, <1>5, <1>6, <2>1, <2>2 DEF IsPage, n
  <2> QED  BY <1>1, <1>2, <2>3, AnswersAre DEF S
<1> QED  BY <1>7, <1>8

\* After none are all.
LEMMA BeyondNone ==
  ASSUME NEW where
  PROVE  Beyond(where, 0) = Intent!Matching(where)
BY MatchingIsFinite DEF Beyond

\* A count is the number of records that match, unless the edge stops counting before.
LEMMA CountIs ==
  ASSUME NEW where, NEW r, r = Intent!count(where)
  PROVE  /\ r.outcome = "result" /\ r.next = Absent /\ r.items = << >>
         /\ Intent!Exact => r.count = Cardinality(Intent!Matching(where))
<1> DEFINE P == Intent!Pulled(where, 0)
           M == Intent!Matching(where)
           all == Intent!Ascending(P)
           first == Intent!Take(all, EdgeLimit + 1)
           I == {i \in DOMAIN first : Intent!_matches(first[i], where)}
           found == Intent!Cardinality(I)
           number == IF able.counts THEN Intent!Cardinality(M)
                     ELSE IF found < EdgeLimit THEN found ELSE EdgeLimit
<1>1. r = [Intent!Result EXCEPT !.count = number]
  BY DEF Intent!count
<1>2. r.outcome = "result" /\ r.next = Absent /\ r.items = << >> /\ r.count = number
  <2> HIDE DEF number
  <2> QED  BY <1>1, AnswersAre DEF Intent!Blank
<1>3. ASSUME Intent!Exact, ~able.counts PROVE number = Cardinality(M)
  <2>1. P \in SUBSET Intent!Present
    BY MatchingIsFinite DEF Intent!Pulled
  <2>2. P \subseteq Nat /\ IsFiniteSet(P) /\ IsFiniteSet(M)
    BY <2>1, MatchingIsFinite, FS_Subset
  <2>3. Cardinality(P) < EdgeLimit
    <3>1. Cardinality(P) <= Cardinality(Intent!Present)
      BY <2>1, MatchingIsFinite, FS_Subset
    <3>2. Cardinality(Intent!Present) < EdgeLimit
      BY <1>3, SameCount DEF Intent!Exact
    <3>3. Cardinality(P) \in Nat /\ Cardinality(Intent!Present) \in Nat
      BY <2>2, MatchingIsFinite, FS_CardinalityType
    <3> QED  BY <3>1, <3>2, <3>3, IntentsAreOf
  <2>4. M = {k \in P : Intent!_matches(k, where)}
    BY PulledIs, BeyondNone
  <2> DEFINE n == Cardinality(P)
  <2> HIDE DEF P, M
  <2>5. n \in Nat /\ IsOrdered(all, P)
    BY <2>2, AscendingIs, FS_CardinalityType
  <2> HIDE DEF all
  <2>6. /\ all \in Seq(P) /\ Len(all) = n /\ all \in [1..n -> P]
        /\ \A i, j \in 1..n : i < j => all[i] < all[j]
        /\ \A x \in P : \E i \in 1..n : all[i] = x
    BY <2>5 DEF IsOrdered
  <2>7. DOMAIN first = 1..n /\ \A i \in 1..n : first[i] = all[i]
    <3>1. EdgeLimit + 1 \in Nat /\ n < EdgeLimit + 1
      BY <2>3, <2>5, IntentsAreOf
    <3> HIDE DEF n
    <3> QED  BY <2>6, <3>1, TakeIs
  <2> HIDE DEF first
  <2>8. I = {i \in 1..n : Intent!_matches(all[i], where)}
    BY <2>7
  <2> DEFINE f == [i \in I |-> all[i]]
  <2> HIDE DEF I, n
  <2>9. f \in Bijection(I, M)
    <3>1. ASSUME NEW i \in I PROVE i \in 1..n /\ f[i] = all[i] /\ f[i] \in M
      BY <2>4, <2>6, <2>8
    <3>2. ASSUME NEW i \in I, NEW j \in I, f[i] = f[j] PROVE i = j
      <4>1. i \in 1..n /\ j \in 1..n /\ all[i] = all[j] /\ all[i] \in Nat
        BY <2>2, <2>6, <3>1, <3>2
      <4>2. i \in Nat /\ j \in Nat
        BY <2>5, <4>1
      <4>3. ~(i < j) /\ ~(j < i)
        BY <2>6, <4>1
      <4> QED  BY <4>2, <4>3
    <3>3. ASSUME NEW x \in M PROVE \E i \in I : f[i] = x
      <4>1. x \in P /\ Intent!_matches(x, where)
        BY <2>4
      <4>2. PICK i \in 1..n : all[i] = x
        BY <2>6, <4>1
      <4> QED  BY <2>8, <4>1, <4>2
    <3>4. f \in [I -> M]
      BY <3>1
    <3> HIDE DEF f
    <3> QED  BY <3>2, <3>3, <3>4 DEF Bijection, Injection, IsInjective, Surjection
  <2>10. IsFiniteSet(I)
    <3>1. I \in SUBSET (1..n) /\ IsFiniteSet(1..n)
      BY <2>5, <2>8, FS_Interval
    <3> QED  BY <3>1, FS_Subset
  <2>11. Cardinality(M) = Cardinality(I)
    BY <2>9, <2>10, FS_Bijection DEF ExistsBijection
  <2>12. M \in SUBSET P
    BY <2>4
  <2>13. Cardinality(M) <= n /\ Cardinality(M) \in Nat
    BY <2>2, <2>12, FS_Subset, FS_CardinalityType DEF n
  <2>14. found = Cardinality(M)
    BY <2>11, SameCount
  <2> HIDE DEF found
  <2>15. found < EdgeLimit
    BY <2>3, <2>5, <2>13, <2>14, IntentsAreOf DEF n
  <2> QED  BY <1>3, <2>14, <2>15
<1>4. ASSUME able.counts PROVE number = Cardinality(M)
  BY <1>4, SameCount
<1> QED  BY <1>2, <1>3, <1>4

\* The groups have as many records as match.
LEMMA GroupsAre ==
  ASSUME NEW where, NEW by, NEW r, r = Intent!aggregate(where, by)
  PROVE  /\ DOMAIN r = DOMAIN Intent!Blank
         /\ r.outcome \in {"result", "refused"} /\ r.next = Absent /\ r.items = << >>
         /\ r.outcome = "result" => Intent!Sum(r.groups) = Cardinality(Intent!Matching(where))
<1> DEFINE M == Intent!Matching(where)
           Of(g) == {k \in M : records[k] = g}
           names == {records[k] : k \in M}
           groups == [g \in names |-> Intent!Cardinality(Of(g))]
           body == [Intent!Result EXCEPT !.groups = groups]
<1>1. r = body \/ \E code : r = Intent!Refusal(code)
  BY DEF Intent!aggregate, Intent!Error
<1>2. /\ DOMAIN body = DOMAIN Intent!Blank /\ body.outcome = "result" /\ body.next = Absent
      /\ body.items = << >> /\ body.groups = groups
  <2> HIDE DEF groups
  <2> QED  BY AnswersAre DEF Intent!Blank
<1> HIDE DEF body
<1>3. Intent!Sum(groups) = Cardinality(M)
  <2> DEFINE T == UNION {{x} \X (1..groups[x]) : x \in DOMAIN groups}
             f == [p \in T |-> Intent!Ascending(Of(p[1]))[p[2]]]
  <2>1. M \subseteq Nat /\ IsFiniteSet(M)
    BY MatchingIsFinite
  <2>2. ASSUME NEW g PROVE IsFiniteSet(Of(g)) /\ Of(g) \subseteq Nat
    <3>1. Of(g) \in SUBSET M
      OBVIOUS
    <3> QED  BY <2>1, <3>1, FS_Subset
  <2>3. ASSUME NEW g PROVE IsOrdered(Intent!Ascending(Of(g)), Of(g))
    BY <2>2, AscendingIs
  <2>4. DOMAIN groups = names /\ \A g \in names : groups[g] = Cardinality(Of(g))
    BY SameCount
  <2>5. \A g : Of(g) \subseteq M
    OBVIOUS
  <2>6. \A g, k : k \in Of(g) => k \in M /\ records[k] = g
    OBVIOUS
  <2>7. \A k \in M : records[k] \in names /\ k \in Of(records[k])
    OBVIOUS
  <2> HIDE DEF groups, names, M, Of
  <2>8. ASSUME NEW p \in T PROVE p[1] \in names /\ p[2] \in 1..Cardinality(Of(p[1])) /\ p = <<p[1], p[2]>>
    BY <2>4
  <2>9. ASSUME NEW g \in names, NEW i \in 1..Cardinality(Of(g)) PROVE <<g, i>> \in T
    BY <2>4
  <2> HIDE DEF T
  <2>10. ASSUME NEW p \in T PROVE f[p] \in Of(p[1])
    <3>1. IsOrdered(Intent!Ascending(Of(p[1])), Of(p[1]))
      BY <2>3
    <3> QED  BY <2>8, <3>1 DEF IsOrdered
  <2>11. f \in Bijection(T, M)
    <3>1. f \in [T -> M]
      BY <2>5, <2>10
    <3>2. ASSUME NEW p \in T, NEW q \in T, f[p] = f[q] PROVE p = q
      <4> DEFINE g == p[1]
                 s == Intent!Ascending(Of(g))
      <4>1. q[1] = g
        BY <2>6, <2>10, <3>2
      <4>2. /\ p[2] \in 1..Cardinality(Of(g)) /\ q[2] \in 1..Cardinality(Of(g))
            /\ s[p[2]] = s[q[2]]
        BY <2>8, <3>2, <4>1
      <4>3. IsOrdered(s, Of(g)) /\ Of(g) \subseteq Nat
        BY <2>2, <2>3
      <4> HIDE DEF s
      <4>4. p[2] = q[2]
        <5> DEFINE i == p[2]
                   j == q[2]
        <5>1. /\ i \in 1..Cardinality(Of(g)) /\ j \in 1..Cardinality(Of(g)) /\ s[i] = s[j]
              /\ Cardinality(Of(g)) \in Nat
          BY <4>2, <4>3 DEF IsOrdered
        <5> HIDE DEF i, j
        <5>2. s[i] \in Nat /\ i \in Nat /\ j \in Nat
          BY <4>3, <5>1 DEF IsOrdered
        <5>3. ~(i < j) /\ ~(j < i)
          BY <4>3, <5>1, <5>2 DEF IsOrdered
        <5>4. i = j
          BY <5>2, <5>3
        <5> QED  BY <5>4 DEF i, j
      <4> QED  BY <2>8, <4>1, <4>4
    <3>3. ASSUME NEW k \in M PROVE \E p \in T : f[p] = k
      <4> DEFINE g == records[k]
                 s == Intent!Ascending(Of(g))
      <4>1. g \in names /\ k \in Of(g) /\ IsOrdered(s, Of(g))
        BY <2>3, <2>7
      <4>2. PICK i \in 1..Cardinality(Of(g)) : s[i] = k
        BY <4>1 DEF IsOrdered
      <4>3. <<g, i>> \in T
        BY <2>9, <4>1
      <4>4. f[<<g, i>>] = k
        BY <4>2, <4>3
      <4> QED  BY <4>3, <4>4
    <3> HIDE DEF f
    <3> QED  BY <3>1, <3>2, <3>3 DEF Bijection, Injection, IsInjective, Surjection
  <2>12. Cardinality(T) = Cardinality(M)
    <3>1. \E h : h \in Bijection(M, T)
      BY <2>11, Fun_BijInverse, Fun_ExistsBijSymmetric DEF ExistsBijection
    <3> QED  BY <2>1, <3>1, FS_Bijection DEF ExistsBijection
  <2>13. Intent!Sum(groups) = Intent!Cardinality(T)
    BY DEF Intent!Sum, T
  <2> QED  BY <2>12, <2>13, SameCount
<1> QED  BY <1>1, <1>2, <1>3, AnswersAre

\* What an answer to a question says of the records M that match.
Answers(r, M, exact, seek, after) ==
  /\ seek = "count" /\ exact => r.count = Cardinality(M)
  /\ seek = "summary" => Intent!Sum(r.groups) = Cardinality(M)
  /\ seek = "the" => IF M = {} THEN r.items = << >>
                      ELSE r.items[1] \in M /\ \A k \in M : r.items[1] <= k
  /\ seek = "all" => \E limit \in Nat \ {0} : IsPage(r, {k \in M : k > after}, limit)

\* A page of one has the least.
LEMMA LeastIsFirst ==
  ASSUME NEW S, S \subseteq Nat, IsFiniteSet(S), NEW r, IsPage(r, S, 1)
  PROVE  IF S = {} THEN r.items = << >>
         ELSE r.items[1] \in S /\ \A k \in S : r.items[1] <= k
<1>1. /\ r.items \in Seq(S) /\ Len(r.items) = (IF Cardinality(S) < 1 THEN Cardinality(S) ELSE 1)
      /\ r.next \in S \cup {Absent}
      /\ \A k \in S : (\E i \in 1..Len(r.items) : r.items[i] = k) <=> (r.next = Absent \/ k <= r.next)
  BY DEF IsPage
<1>2. CASE S = {}
  <2>1. Len(r.items) = 0
    BY <1>1, <1>2, FS_EmptySet
  <2> QED  BY <1>1, <1>2, <2>1
<1>3. CASE S # {}
  <2>1. Cardinality(S) \in Nat /\ Cardinality(S) # 0
    BY <1>3, FS_EmptySet, FS_CardinalityType
  <2>2. Len(r.items) = 1
    BY <1>1, <2>1
  <2>3. r.items[1] \in S
    BY <1>1, <2>2
  <2>4. ASSUME NEW k \in S PROVE r.items[1] <= k
    <3> DEFINE x == r.items[1]
    <3>1. \A y \in S : x = y <=> (r.next = Absent \/ y <= r.next)
      BY <1>1, <2>2
    <3>2. x \in Nat /\ k \in Nat
      BY <2>3
    <3> HIDE DEF x
    <3>3. CASE r.next = Absent
      <4>1. x = k
        BY <3>1, <3>3
      <4>2. x <= x
        BY <3>2
      <4> QED  BY <4>1, <4>2 DEF x
    <3>4. CASE r.next # Absent
      <4>1. r.next \in S /\ r.next \in Nat
        BY <1>1, <3>4
      <4>2. x = r.next
        BY <3>1, <4>1
      <4>3. k <= r.next => k = x
        BY <3>1
      <4> QED  BY <3>2, <4>1, <4>2, <4>3 DEF x
    <3> QED  BY <3>3, <3>4 DEF x
  <2> QED  BY <1>3, <2>3, <2>4
<1> QED  BY <1>2, <1>3

\* What the adapter answers, whatever it is asked.
LEMMA ResolveIs ==
  ASSUME NEW about, NEW where, NEW seek, NEW by, NEW limit, NEW cursor,
         limit \in (Nat \ {0}) \cup {Absent, Intent!NoNumber},
         NEW r, r = Intent!resolve(about, where, seek, by, limit, cursor)
  PROVE  /\ r.outcome \in {"result", "refused"} /\ r.next \in Ids \cup {Absent}
         /\ r.outcome = "refused" => r.items = << >>
         /\ r.outcome = "result" =>
              /\ Answers(r, Intent!Matching(where), Intent!Exact, seek,
                         IF cursor = Absent THEN 0 ELSE cursor)
              /\ seek = "all" =>
                   IsPage(r, Beyond(where, IF cursor = Absent THEN 0 ELSE cursor),
                          IF limit = Absent THEN DefaultLimit ELSE limit)
              /\ seek = "all" => limit # Intent!NoNumber
<1> DEFINE after == IF cursor = Absent THEN 0 ELSE cursor
           rows == IF limit = Absent THEN DefaultLimit ELSE limit
           M == Intent!Matching(where)
           one == Intent!search(where, 1, 0)
<1>0. /\ "refused" # "result"
      /\ Intent!Error = Intent!Refusal("ERROR")
      /\ rows = Intent!NoNumber \/ rows \in Nat \ {0}
  BY IntentsAreOf DEF Intent!Error
<1>1. \/ \E code : r = Intent!Refusal(code)
      \/ seek = "count" /\ r = Intent!count(where)
      \/ seek = "the" /\ r = [one EXCEPT !.next = Absent]
      \/ seek = "all" /\ rows # Intent!NoNumber /\ r = Intent!search(where, rows, after)
      \/ seek = "summary" /\ r = Intent!aggregate(where, by)
  BY <1>0 DEF Intent!resolve
<1> HIDE DEF rows, after
<1>2. M \subseteq Ids /\ M \subseteq Nat /\ IsFiniteSet(M) /\ Beyond(where, after) \subseteq Ids
      /\ Beyond(where, 0) = M
  BY MatchingIsFinite, BeyondNone DEF Beyond
<1>3. CASE \E code : r = Intent!Refusal(code)
  BY <1>0, <1>3, AnswersAre
<1>4. CASE seek = "count" /\ r = Intent!count(where)
  BY <1>4, CountIs DEF Answers
<1>5. CASE seek = "the" /\ r = [one EXCEPT !.next = Absent]
  <2>1. /\ DOMAIN one = DOMAIN Intent!Blank
        /\ \/ one = Intent!Refusal("RESULT_TOO_LARGE")
           \/ one.outcome = "result" /\ IsPage(one, Beyond(where, 0), 1)
    BY SearchIs
  <2> HIDE DEF one, M
  <2>2. r.outcome = one.outcome /\ r.items = one.items /\ r.next = Absent
    BY <1>5, <2>1, AnswersAre
  <2>3. CASE one = Intent!Refusal("RESULT_TOO_LARGE")
    BY <1>0, <1>5, <2>2, <2>3, AnswersAre
  <2>4. CASE one.outcome = "result" /\ IsPage(one, Beyond(where, 0), 1)
    <3>1. IF M = {} THEN one.items = << >>
          ELSE one.items[1] \in M /\ \A k \in M : one.items[1] <= k
      BY <1>2, <2>4, LeastIsFirst
    <3> QED  BY <1>0, <1>5, <2>2, <2>4, <3>1 DEF Answers, M
  <2> QED  BY <2>1, <2>3, <2>4
<1>6. CASE seek = "all" /\ rows # Intent!NoNumber /\ r = Intent!search(where, rows, after)
  <2>1. rows \in Nat \ {0}
    BY <1>0, <1>6
  <2>2. \/ r = Intent!Refusal("RESULT_TOO_LARGE")
        \/ r.outcome = "result" /\ IsPage(r, Beyond(where, after), rows)
    BY <1>6, <2>1, SearchIs
  <2>3. CASE r = Intent!Refusal("RESULT_TOO_LARGE")
    BY <1>0, <2>3, AnswersAre
  <2>4. CASE r.outcome = "result" /\ IsPage(r, Beyond(where, after), rows)
    <3>1. r.next \in Ids \cup {Absent}
      BY <1>2, <2>4 DEF IsPage
    <3>2. Answers(r, M, Intent!Exact, seek, after)
      BY <1>6, <2>1, <2>4 DEF Answers, Beyond
    <3>3. limit # Intent!NoNumber
      BY <1>6, IntentsAreOf DEF rows, Intent!NoNumber
    <3> QED  BY <1>0, <2>4, <3>1, <3>2, <3>3 DEF after, rows
  <2> QED  BY <2>2, <2>3, <2>4
<1>7. CASE seek = "summary" /\ r = Intent!aggregate(where, by)
  BY <1>0, <1>7, GroupsAre DEF Answers
<1> QED  BY <1>1, <1>3, <1>4, <1>5, <1>6, <1>7

\* A sequence of whatever it has.
IsList(s) == s \in Seq({s[i] : i \in DOMAIN s})

\* t is s and then x.
IsAdded(t, s, x) ==
  /\ IsList(t) /\ Len(s) \in Nat /\ Len(t) = Len(s) + 1
  /\ DOMAIN s = 1..Len(s) /\ DOMAIN t = 1..(Len(s) + 1)
  /\ \A i \in 1..Len(s) : t[i] = s[i]
  /\ t[Len(s) + 1] = x

\* What is added is the last.
LEMMA AddedIs ==
  ASSUME NEW s, IsList(s), NEW x
  PROVE  IsAdded(Append(s, x), s, x)
<1>0. SUFFICES ASSUME NEW t, t = Append(s, x) PROVE IsAdded(t, s, x)
  OBVIOUS
<1> DEFINE S == {s[i] : i \in DOMAIN s} \cup {x}
           n == Len(s)
<1>1. s \in Seq({s[i] : i \in DOMAIN s})
  BY DEF IsList
<1>2. n \in Nat /\ DOMAIN s = 1..n
  BY <1>1
<1>3. \A i \in 1..n : s[i] \in S
  BY <1>2
<1> HIDE DEF S
<1>4. s \in Seq(S) /\ x \in S
  <2>1. x \in S
    BY DEF S
  <2>2. s = [i \in 1..n |-> s[i]]
    BY <1>1, <1>2
  <2> QED  BY <1>2, <1>3, <2>1, <2>2, SeqDef
<1>5. /\ t \in Seq(S) /\ Len(t) = n + 1 /\ DOMAIN t = 1..(n + 1)
      /\ \A i \in 1..n : t[i] = s[i]
      /\ t[n + 1] = x
  BY <1>0, <1>4
<1>6. IsList(t)
  <2> DEFINE T == {t[i] : i \in DOMAIN t}
  <2>1. \A i \in 1..(n + 1) : t[i] \in T
    BY <1>5
  <2>2. t = [i \in 1..(n + 1) |-> t[i]] /\ n + 1 \in Nat
    <3>1. \A A : \A q \in Seq(A) : q = [i \in DOMAIN q |-> q[i]]
      OBVIOUS
    <3>2. t = [i \in DOMAIN t |-> t[i]]
      BY <1>5, <3>1
    <3> HIDE DEF n
    <3> QED  BY <1>2, <1>5, <3>2
  <2> HIDE DEF T
  <2>3. t \in Seq(T)
    BY <2>1, <2>2, SeqDef
  <2> QED  BY <2>3 DEF IsList, T
<1> QED  BY <1>2, <1>5, <1>6 DEF IsAdded

\* A list has places from 1 on, or none.
LEMMA ListIs ==
  ASSUME NEW s, IsList(s)
  PROVE  Len(s) \in Nat /\ DOMAIN s = 1..Len(s) /\ (s = << >> <=> Len(s) = 0)
BY DEF IsList

\* Neither has the empty one.
LEMMA NoneIsList == IsList(<< >>) /\ Len(<< >>) = 0 /\ DOMAIN << >> = {}
BY DEF IsList

\* The rest of a list.
LEMMA RestIs ==
  ASSUME NEW s, IsList(s), s # << >>
  PROVE  /\ Head(s) = s[1] /\ IsList(Tail(s)) /\ Len(Tail(s)) = Len(s) - 1
         /\ \A i \in 1..(Len(s) - 1) : Tail(s)[i] = s[i + 1]
<1> DEFINE S == {s[i] : i \in DOMAIN s}
           t == Tail(s)
           T == {t[i] : i \in DOMAIN t}
           n == Len(s)
<1>1. s \in Seq(S) /\ n \in Nat /\ n # 0
  BY DEF IsList
<1> HIDE DEF S
<1>2. /\ Head(s) = s[1] /\ t \in Seq(S) /\ Len(t) = n - 1
      /\ \A i \in 1..(n - 1) : t[i] = s[i + 1]
  BY <1>1
<1>3. IsList(t)
  <2>1. DOMAIN t = 1..(n - 1) /\ t = [i \in 1..(n - 1) |-> t[i]] /\ n - 1 \in Nat
    <3>1. \A A : \A q \in Seq(A) : q = [i \in 1..Len(q) |-> q[i]] /\ DOMAIN q = 1..Len(q)
      OBVIOUS
    <3>2. n - 1 \in Nat
      BY <1>1
    <3> HIDE DEF t, n
    <3>3. t = [i \in 1..Len(t) |-> t[i]] /\ DOMAIN t = 1..Len(t)
      BY <1>2, <3>1
    <3> QED  BY <1>2, <3>2, <3>3
  <2>2. \A i \in 1..(n - 1) : t[i] \in T
    BY <2>1
  <2> HIDE DEF T, t
  <2>3. t \in Seq(T)
    BY <2>1, <2>2, SeqDef
  <2> QED  BY <2>3 DEF IsList, T
<1> QED  BY <1>2, <1>3

\* The place of the intent at hand, and what a page of it comes after.
Here == Len(results) + 1
After(k) ==
  IF specs[k].cursor = "next" /\ k # 1 /\ results[k - 1].next # Absent
  THEN results[k - 1].next ELSE 0

IsRead(k) == Intent!Owner(specs[k].about) = "adapter" /\ specs[k].change = Absent

\* The session is one of those that are asked, and the answers are lists.
Posed ==
  /\ DOMAIN specs = 1..Len(specs) /\ Len(specs) \in Nat
  /\ \A k \in DOMAIN specs : specs[k] # Absent => Intent!IsSpec(specs[k])
  /\ IsList(results) /\ IsList(minted) /\ IsList(given)
  /\ drifts \in Nat /\ faults \in Nat
  /\ Len(results) <= Len(specs)
  /\ \A k \in DOMAIN results : specs[k] # Absent /\ results[k].next \in Ids \cup {Absent}
  /\ dead \in BOOLEAN /\ (dead => results = << >> /\ todo = Absent /\ Len(specs) # 0)

\* What matches, and whether counting is exact, of the records and what the backend can do.
MatchingIn(recs, where) ==
  {k \in Ids : /\ recs[k] # Gone
               /\ \A i \in DOMAIN where :
                    /\ where[i].rel \in DOMAIN Intent!REL_TO_OP
                    /\ Intent!Holds(Intent!REL_TO_OP[where[i].rel], recs[k], where[i].value)}
IsExact(recs, can) == can.counts \/ Cardinality({k \in Ids : recs[k] # Gone}) < EdgeLimit

LEMMA MatchingIsIn ==
  /\ \A where : Intent!Matching(where) = MatchingIn(records, where)
  /\ Intent!Exact <=> IsExact(records, able)
<1>1. \A where : Intent!Matching(where) = MatchingIn(records, where)
  BY DEF Intent!Matching, Intent!Present, Intent!_matches, MatchingIn
<1>2. Intent!Exact <=> IsExact(records, able)
  BY SameCount DEF Intent!Exact, Intent!Present, IsExact
<1> QED  BY <1>1, <1>2

\* Until the records change, each answer is about those that there are.
Current ==
  drifts = 0 => \A k \in DOMAIN results :
    IsRead(k) /\ results[k].outcome = "result" =>
      Answers(results[k], MatchingIn(records, specs[k].where), IsExact(records, able),
              specs[k].seek, After(k))

\* What the read of a change has found: the first of those that match.
IsFound(found, there) ==
  /\ IsList(found) /\ found \in Seq(Ids)
  /\ \A i, j \in 1..Len(found) : i # j => found[i] # found[j]
  /\ \A i \in 1..Len(found) : found[i] \in there
  /\ Len(found) = IF Cardinality(there) < ChangeLimit THEN Cardinality(there) ELSE ChangeLimit

\* An intent to change whose proposals are being made.
Busy ==
  todo # Absent =>
    /\ Here \in DOMAIN specs /\ specs[Here] # Absent /\ specs[Here].change # Absent
    /\ specs[Here].change.op \in DOMAIN Intent!OP_TO_RESOURCE
    /\ Here \in DOMAIN seen
    /\ LET found == seen[Here].found IN
       /\ IF specs[Here].change.op = "create" THEN found = <<Absent>>
          ELSE IsFound(found, seen[Here].there)
       /\ specs[Here].change.op # "create" => todo \in Seq(Ids)
       /\ IsList(todo) /\ todo # << >> /\ Len(found) = Len(given) + Len(todo)
       /\ \A i \in 1..Len(todo) : todo[i] = found[Len(given) + i]

\* A change that says itself which record it is about is not held to those that were found.
IsFree(spec) == "id" \notin DOMAIN spec.change.set /\ "target" \notin DOMAIN spec.change.set

\* A proposal is of an intent to change, and about one of the records found.
Aimed ==
  \A n \in DOMAIN minted :
    LET p == minted[n]
        spec == specs[p.of]
    IN  /\ p.of \in 1..Len(specs) /\ p.of \in DOMAIN seen /\ spec.change # Absent
        /\ ~dead => p.of <= Len(results) \/ (todo # Absent /\ p.of = Here)
        /\ IsFree(spec) => p.args["target"] = spec.about
        /\ IsFree(spec) /\ spec.change.op # "create" =>
             /\ p.args["id"] \in seen[p.of].there
             /\ \A m \in 1..(n - 1) : minted[m].of = p.of => minted[m].args["id"] # p.args["id"]
             /\ todo # Absent /\ p.of = Here =>
                  \E i \in 1..Len(given) : p.args["id"] = seen[Here].found[i]

\* As many proposals are told as records were found.
Counted ==
  \A i \in DOMAIN results :
    results[i].outcome = "proposals" =>
      /\ i \in DOMAIN seen
      /\ specs[i].change.op # "create" =>
           Len(results[i].proposals) = IF Cardinality(seen[i].there) < ChangeLimit
                                       THEN Cardinality(seen[i].there) ELSE ChangeLimit

\* What is stored is told, or about to be.
Shown ==
  faults = 0 /\ ~dead =>
    \A n \in DOMAIN minted :
      \/ /\ minted[n].of \in 1..Len(results)
         /\ \E k \in DOMAIN results[minted[n].of].proposals :
              results[minted[n].of].proposals[k] = n
      \/ /\ todo # Absent /\ minted[n].of = Here
         /\ \E k \in 1..Len(given) : given[k] = n

IntentInv == Posed /\ Current /\ Busy /\ Aimed /\ Counted /\ Shown

\* An answer that is no proposal is added.
LEMMA TellKeeps ==
  ASSUME IntentInv, ~dead, Here \in DOMAIN specs, specs[Here] # Absent,
         todo = Absent \/ faults' = faults + 1, todo' = Absent, IsList(given'),
         NEW r, results' = Append(results, r), r.outcome # "proposals",
         r.next \in Ids \cup {Absent},
         drifts = 0 /\ IsRead(Here) /\ r.outcome = "result" =>
           Answers(r, MatchingIn(records, specs[Here].where), IsExact(records, able),
                   specs[Here].seek, After(Here)),
         UNCHANGED <<specs, able, records, minted, dead, drifts, seen>>,
         faults' \in {faults, faults + 1}
  PROVE  IntentInv'
<1> DEFINE n == Len(results)
           new == results'
<1>1. /\ IsList(new) /\ n \in Nat /\ Len(new) = n + 1 /\ DOMAIN results = 1..n
      /\ DOMAIN new = 1..(n + 1)
      /\ \A i \in 1..n : new[i] = results[i]
      /\ new[n + 1] = r
  <2>1. IsList(results) /\ new = Append(results, r)
    BY DEF IntentInv, Posed
  <2> HIDE DEF new
  <2>2. IsAdded(new, results, r)
    BY <2>1, AddedIs
  <2> QED  BY <2>2 DEF IsAdded
<1>2. n + 1 \in 1..Len(specs) /\ Len(specs) \in Nat
  BY DEF IntentInv, Posed, Here
<1> HIDE DEF n, new
<1>3. Posed'
  <2>1. IsList(results)' /\ IsList(minted)' /\ IsList(given)'
    <3>1. IsList(results') /\ IsList(minted') /\ IsList(given')
      BY <1>1 DEF IntentInv, Posed, new
    <3> QED  BY <3>1 DEF IsList
  <2>2. Len(results') <= Len(specs)
    BY <1>1, <1>2 DEF new
  <2>3. ASSUME NEW k \in DOMAIN new PROVE specs[k] # Absent /\ new[k].next \in Ids \cup {Absent}
    <3>1. CASE k = n + 1
      BY <1>1, <3>1 DEF Here, n
    <3>2. CASE k # n + 1
      <4>1. k \in DOMAIN results /\ new[k] = results[k]
        BY <1>1, <3>2
      <4> QED  BY <4>1 DEF IntentInv, Posed
    <3> QED  BY <3>1, <3>2
  <2> QED  BY <2>1, <2>2, <2>3 DEF IntentInv, Posed, new
<1>4. Current'
  <2> SUFFICES ASSUME drifts = 0, NEW k \in DOMAIN new, IsRead(k), new[k].outcome = "result"
               PROVE  Answers(new[k], MatchingIn(records, specs[k].where), IsExact(records, able),
                              specs[k].seek, After(k)')
    BY DEF Current, IsRead, Intent!Owner, new
  <2>1. CASE k = n + 1
    <3>1. k = Here /\ k - 1 = n /\ (k # 1 => k - 1 \in 1..n)
      BY <1>1, <2>1 DEF Here, n
    <3>2. After(k)' = After(k)
      BY <1>1, <3>1 DEF After, new
    <3> QED  BY <1>1, <2>1, <3>1, <3>2
  <2>2. CASE k # n + 1
    <3>1. k \in 1..n
      BY <1>1, <2>2
    <3>2. After(k)' = After(k)
      <4>1. k # 1 => k - 1 \in 1..n
        BY <1>1, <3>1
      <4> QED  BY <1>1, <3>1, <4>1 DEF After, new
    <3> QED  BY <1>1, <3>1, <3>2 DEF IntentInv, Current
  <2> QED  BY <2>1, <2>2
<1>5. Busy'
  BY DEF Busy
<1>6. Aimed'
  <2> SUFFICES ASSUME NEW k \in DOMAIN minted PROVE minted[k].of <= Len(new)
    BY DEF IntentInv, Aimed, IsFree, new
  <2>1. minted[k].of <= n + 1 /\ minted[k].of \in 1..Len(specs)
    <3>1. /\ minted[k].of \in 1..Len(specs)
          /\ minted[k].of <= Len(results) \/ minted[k].of = Len(results) + 1
      BY DEF IntentInv, Aimed, Here
    <3> QED  BY <1>1, <1>2, <3>1 DEF n
  <2> QED  BY <1>1, <1>2, <2>1
<1>7. Counted'
  <2>1. ASSUME NEW k \in DOMAIN new, new[k].outcome = "proposals"
        PROVE  k \in DOMAIN results /\ new[k] = results[k]
    BY <1>1, <2>1
  <2> QED  BY <2>1 DEF IntentInv, Counted, new
<1>8. Shown'
  <2> SUFFICES ASSUME faults' = 0, NEW k \in DOMAIN minted
               PROVE  /\ minted[k].of \in 1..Len(new)
                      /\ \E i \in DOMAIN new[minted[k].of].proposals :
                           new[minted[k].of].proposals[i] = k
    BY DEF Shown, new
  <2>1. faults = 0 /\ todo = Absent
    BY DEF IntentInv, Posed
  <2>2. minted[k].of \in 1..n /\ \E i \in DOMAIN results[minted[k].of].proposals :
                                   results[minted[k].of].proposals[i] = k
    BY <2>1 DEF IntentInv, Shown, n
  <2> QED  BY <1>1, <2>2
<1> QED  BY <1>3, <1>4, <1>5, <1>6, <1>7, <1>8 DEF IntentInv

\* What is at hand when an intent is taken up.
LEMMA RunningIs ==
  ASSUME IntentInv, Intent!Running, Intent!Asking # Absent
  PROVE  /\ ~dead /\ todo = Absent /\ IsList(given)
         /\ Here \in DOMAIN specs /\ specs[Here] # Absent /\ Intent!IsSpec(specs[Here])
         /\ DOMAIN Intent!Asking = DOMAIN specs[Here]
         /\ \A x \in DOMAIN specs[Here] \ {"cursor"} : Intent!Asking[x] = specs[Here][x]
         /\ Intent!Asking.cursor \in Ids \cup {Absent}
         /\ After(Here) = IF Intent!Asking.cursor = Absent THEN 0 ELSE Intent!Asking.cursor
<1>1. ~dead /\ todo = Absent /\ IsList(given) /\ Here \in 1..Len(specs) /\ Len(results) \in Nat
  BY ListIs DEF Intent!Running, Here, IntentInv, Posed
<1>2. Here \in DOMAIN specs
  BY <1>1 DEF IntentInv, Posed
<1> DEFINE spec == specs[Here]
<1>3. spec # Absent
  BY DEF Intent!Asking, Intent!Continued, Here
<1>4. Intent!IsSpec(spec)
  BY <1>2, <1>3 DEF IntentInv, Posed
<1>5. Intent!Asking = Intent!Continued(spec)
  BY DEF Intent!Asking, Here
<1>6. DOMAIN spec = {"about", "where", "seek", "change", "by", "limit", "cursor"}
      /\ spec.cursor \in {Absent, "next"}
  BY <1>4 DEF Intent!IsSpec
<1>7. results # << >> => /\ Len(results) \in DOMAIN results
                         /\ results[Len(results)].next \in Ids \cup {Absent}
  BY <1>1, ListIs DEF IntentInv, Posed
<1>8. /\ Here - 1 = Len(results) /\ (Here = 1 <=> results = << >>)
  BY <1>1, ListIs DEF Here, IntentInv, Posed
<1> HIDE DEF spec
<1>9. CASE spec.cursor = "next"
  <2> DEFINE cursor == IF results = << >> THEN Absent ELSE results[Len(results)].next
  <2>1. Intent!Asking = [spec EXCEPT !.cursor = cursor]
    BY <1>3, <1>5, <1>9 DEF Intent!Continued
  <2>2. cursor \in Ids \cup {Absent}
    BY <1>7
  <2>3. After(Here) = IF cursor = Absent THEN 0 ELSE cursor
    BY <1>8, <1>9 DEF After, spec
  <2> HIDE DEF cursor
  <2>4. /\ DOMAIN Intent!Asking = DOMAIN spec /\ Intent!Asking.cursor = cursor
        /\ \A x \in DOMAIN spec \ {"cursor"} : Intent!Asking[x] = spec[x]
    BY <1>6, <2>1
  <2> QED  BY <1>1, <1>2, <1>3, <1>4, <2>2, <2>3, <2>4 DEF spec
<1>10. CASE spec.cursor = Absent
  <2>1. Intent!Asking = spec
    BY <1>5, <1>10, IntentsAreOf DEF Intent!Continued
  <2>2. After(Here) = 0
    BY <1>10, IntentsAreOf DEF After, spec
  <2> QED  BY <1>1, <1>2, <1>3, <1>4, <1>10, <2>1, <2>2 DEF spec
<1> QED  BY <1>6, <1>9, <1>10

\* So a call that fails is told.
LEMMA FaultKeeps ==
  ASSUME IntentInv, Intent!Running, Intent!Asking # Absent, Intent!Fault,
         UNCHANGED <<specs, able, records, todo, given, minted, dead, drifts, seen>>
  PROVE  IntentInv'
<1>1. ~dead /\ todo = Absent /\ Here \in DOMAIN specs /\ specs[Here] # Absent
  BY RunningIs
<1>2. results' = Append(results, Intent!Error) /\ faults' = faults + 1
  BY DEF Intent!Fault, Intent!Tell
<1>3. IsList(given')
  BY RunningIs
<1> QED  BY <1>1, <1>2, <1>3, TellKeeps, AnswersAre

\* The other domains are given what is to be made true, and answer.
LEMMA OthersKeep ==
  ASSUME IntentInv, Intent!Automate \/ Intent!Graph
  PROVE  IntentInv'
<1>1. PICK domain \in {"automation", "graph"} :
        /\ Intent!Calling(domain)
        /\ Intent!Fault \/ (UNCHANGED faults /\ \/ Intent!Tell(Intent!Result)
                                                 \/ \E code : Intent!Tell(Intent!Refusal(code)))
        /\ UNCHANGED <<todo, given, minted, seen>>
  BY DEF Intent!Automate, Intent!Graph
<1>2. /\ Intent!Running /\ Intent!Asking # Absent /\ Intent!Owner(Intent!Asking.about) = domain
      /\ UNCHANGED <<specs, able, records, todo, given, minted, dead, drifts, seen>>
  BY <1>1 DEF Intent!Calling
<1>3. /\ ~dead /\ todo = Absent /\ IsList(given) /\ Here \in DOMAIN specs /\ specs[Here] # Absent
      /\ Intent!Asking.about = specs[Here].about
  BY <1>2, RunningIs DEF Intent!IsSpec
<1>4. ~IsRead(Here)
  BY <1>2, <1>3 DEF IsRead
<1>5. CASE Intent!Fault
  BY <1>2, <1>5, FaultKeeps
<1>6. CASE UNCHANGED faults /\ Intent!Tell(Intent!Result)
  BY <1>2, <1>3, <1>4, <1>6, TellKeeps, AnswersAre DEF Intent!Tell
<1>7. CASE UNCHANGED faults /\ \E code : Intent!Tell(Intent!Refusal(code))
  BY <1>2, <1>3, <1>4, <1>7, TellKeeps, AnswersAre DEF Intent!Tell
<1> QED  BY <1>1, <1>5, <1>6, <1>7

\* The adapter answers a question.
LEMMA ReadKeeps ==
  ASSUME IntentInv, Intent!Read
  PROVE  IntentInv'
<1> DEFINE ask == Intent!Asking
           wire == Intent!Wire(ask)
           r == Intent!resolve(wire.about, wire.where, wire.seek, wire.by, wire.limit, wire.cursor)
           spec == specs[Here]
<1>1. /\ Intent!Running /\ ask # Absent
      /\ UNCHANGED <<specs, able, records, todo, given, minted, dead, drifts, seen>>
      /\ Intent!Fault \/ (UNCHANGED faults /\ Intent!Tell(r))
  BY DEF Intent!Read, Intent!Calling
<1>2. /\ ~dead /\ todo = Absent /\ IsList(given)
      /\ Here \in DOMAIN specs /\ spec # Absent /\ Intent!IsSpec(spec)
      /\ DOMAIN ask = DOMAIN spec
      /\ \A x \in DOMAIN spec \ {"cursor"} : ask[x] = spec[x]
      /\ ask.cursor \in Ids \cup {Absent}
      /\ After(Here) = IF ask.cursor = Absent THEN 0 ELSE ask.cursor
  BY <1>1, RunningIs
<1>3. /\ DOMAIN spec = {"about", "where", "seek", "change", "by", "limit", "cursor"}
      /\ spec.limit \in Nat \ {0}
  BY <1>2 DEF Intent!IsSpec
<1> HIDE DEF ask, spec
<1>4. /\ wire.where = spec.where /\ wire.seek = spec.seek
      /\ wire.limit \in (Nat \ {0}) \cup {Absent, Intent!NoNumber}
      /\ wire.limit # Intent!NoNumber =>
           (IF wire.cursor = Absent THEN 0 ELSE wire.cursor) = After(Here)
  <2>1. CASE surface = "nil_intent"
    <3>1. wire = [ask EXCEPT !.by = "limit", !.cursor = Absent,
                             !.limit = IF ask.cursor = Absent THEN Absent ELSE Intent!NoNumber]
      BY <2>1 DEF Intent!Wire
    <3> HIDE DEF wire
    <3>2. /\ wire.where = ask.where /\ wire.seek = ask.seek /\ wire.cursor = Absent
          /\ wire.limit = IF ask.cursor = Absent THEN Absent ELSE Intent!NoNumber
      BY <1>2, <1>3, <3>1
    <3> QED  BY <1>2, <1>3, <3>2
  <2>2. CASE surface # "nil_intent"
    <3>1. wire = ask
      BY <2>2 DEF Intent!Wire
    <3> HIDE DEF wire
    <3> QED  BY <1>2, <1>3, <3>1
  <2> QED  BY <2>1, <2>2
<1> HIDE DEF wire
<1>5. /\ r.outcome \in {"result", "refused"} /\ r.next \in Ids \cup {Absent}
      /\ r.outcome = "result" =>
           /\ Answers(r, Intent!Matching(spec.where), Intent!Exact, spec.seek,
                      IF wire.cursor = Absent THEN 0 ELSE wire.cursor)
           /\ spec.seek = "all" => wire.limit # Intent!NoNumber
  <2> HIDE DEF r
  <2>1. r = Intent!resolve(wire.about, spec.where, spec.seek, wire.by, wire.limit, wire.cursor)
    BY <1>4 DEF r
  <2> QED  BY <1>4, <2>1, ResolveIs
<1> HIDE DEF r
<1>6. r.outcome = "result" =>
        Answers(r, MatchingIn(records, spec.where), IsExact(records, able), spec.seek, After(Here))
  <2> SUFFICES ASSUME r.outcome = "result"
               PROVE  Answers(r, Intent!Matching(spec.where), Intent!Exact, spec.seek, After(Here))
    BY MatchingIsIn DEF Answers
  <2>1. CASE spec.seek = "all"
    BY <1>4, <1>5, <2>1
  <2>2. CASE spec.seek # "all"
    BY <1>5, <2>2 DEF Answers
  <2> QED  BY <2>1, <2>2
<1>7. CASE Intent!Fault
  BY <1>1, <1>7, FaultKeeps DEF ask
<1>8. CASE UNCHANGED faults /\ Intent!Tell(r)
  <2>1. r.outcome # "proposals" /\ results' = Append(results, r) /\ faults' = faults
    BY <1>5, <1>8 DEF Intent!Tell
  <2> QED  BY <1>1, <1>2, <1>5, <1>6, <2>1, TellKeeps DEF spec
<1> QED  BY <1>1, <1>7, <1>8 DEF r

\* The records of a change are the first that match.
LEMMA FoundIs ==
  ASSUME NEW spec, NEW items, items = Intent!Resolved(spec), items # << >>
  PROVE  IsFound(items, MatchingIn(records, spec.where))
<1> DEFINE r == Intent!resolve(spec.about, spec.where, "all", Absent, ChangeLimit, Absent)
           M == Intent!Matching(spec.where)
<1>1. items = r.items
  BY DEF Intent!Resolved
<1>2. /\ r.outcome \in {"result", "refused"}
      /\ r.outcome = "refused" => r.items = << >>
      /\ r.outcome = "result" => IsPage(r, Beyond(spec.where, IF Absent = Absent THEN 0 ELSE Absent),
                                        IF ChangeLimit = Absent THEN DefaultLimit ELSE ChangeLimit)
  <2> HIDE DEF r
  <2>1. ChangeLimit \in (Nat \ {0}) \cup {Absent, Intent!NoNumber}
    BY IntentsAreOf
  <2> QED  BY <2>1, ResolveIs DEF r
<1> HIDE DEF r
<1>3. r.outcome = "result" /\ Beyond(spec.where, 0) = M /\ ChangeLimit # Absent
  BY <1>1, <1>2, BeyondNone, IntentsAreOf
<1>4. IsPage(r, M, ChangeLimit) /\ M \subseteq Nat /\ M \subseteq Ids
  BY <1>2, <1>3, MatchingIsFinite
<1> HIDE DEF M
<1>5. /\ items \in Seq(M) /\ DOMAIN items = 1..Len(items) /\ Len(items) \in Nat
      /\ Len(items) = (IF Cardinality(M) < ChangeLimit THEN Cardinality(M) ELSE ChangeLimit)
      /\ \A i, j \in 1..Len(items) : i < j => items[i] < items[j]
  <2>1. /\ items \in Seq(M)
        /\ Len(items) = (IF Cardinality(M) < ChangeLimit THEN Cardinality(M) ELSE ChangeLimit)
        /\ \A i, j \in 1..Len(items) : i < j => items[i] < items[j]
    BY <1>1, <1>4, Zenon DEF IsPage
  <2>2. DOMAIN items = 1..Len(items) /\ Len(items) \in Nat
    BY <2>1, LenProperties
  <2> QED  BY <2>1, <2>2
<1>6. \A i \in 1..Len(items) : items[i] \in M
  BY <1>5, ElementOfSeq
<1>7. ASSUME NEW i \in 1..Len(items), NEW j \in 1..Len(items), i # j PROVE items[i] # items[j]
  <2>1. i \in Nat /\ j \in Nat
    BY <1>5
  <2>2. items[i] \in Nat /\ items[j] \in Nat
    BY <1>4, <1>6
  <2>3. (i < j => items[i] < items[j]) /\ (j < i => items[j] < items[i])
    BY <1>5
  <2> QED  BY <1>7, <2>1, <2>2, <2>3
<1>8. IsList(items)
  <2> DEFINE T == {items[i] : i \in DOMAIN items}
  <2>1. items = [i \in 1..Len(items) |-> items[i]]
    BY <1>5
  <2>2. \A i \in 1..Len(items) : items[i] \in T
    BY <1>5
  <2> HIDE DEF T
  <2>3. items \in Seq(T)
    BY <1>5, <2>1, <2>2, SeqDef
  <2> QED  BY <2>3 DEF IsList, T
<1>9. items \in Seq(Ids)
  <2>1. items = [i \in 1..Len(items) |-> items[i]]
    BY <1>5
  <2>2. \A i \in 1..Len(items) : items[i] \in Ids
    BY <1>4, <1>6
  <2> QED  BY <1>5, <2>1, <2>2, SeqDef
<1> QED  BY <1>5, <1>6, <1>7, <1>8, <1>9, MatchingIsIn DEF IsFound, M

\* A change is taken up, refused, or fails.
LEMMA ChangeKeeps ==
  ASSUME IntentInv, Intent!Change
  PROVE  IntentInv'
<1> DEFINE spec == Intent!Asking
           n == Here
           op == spec.change.op
           items == IF op = "create" THEN <<Absent>> ELSE Intent!Resolved(spec)
           there == IF op = "create" THEN {} ELSE Intent!Matching(spec.where)
           entry == [found |-> items, there |-> there]
           read == Intent!resolve(spec.about, spec.where, "all", Absent, ChangeLimit, Absent)
<1>1. /\ Intent!Running /\ spec # Absent /\ spec.change # Absent
      /\ UNCHANGED <<specs, able, records, minted, dead, drifts>>
  BY DEF Intent!Change, Intent!Calling
<1>2. \/ UNCHANGED <<todo, given, seen, faults>> /\ \E code : Intent!Tell(Intent!Refusal(code))
      \/ /\ op \in DOMAIN Intent!OP_TO_RESOURCE /\ items # << >>
         /\ todo' = items /\ given' = << >> /\ UNCHANGED <<results, faults>>
         /\ seen' = Intent!Over([i \in {n} |-> entry], seen)
      \/ Intent!Fault /\ UNCHANGED <<todo, given, seen>>
  <2> HIDE DEF items
  <2>1. op = "create" => items # << >>
    BY DEF items
  <2> QED  BY <2>1 DEF Intent!Change, Intent!Error, Here, items
<1>3. /\ ~dead /\ todo = Absent /\ IsList(given) /\ n \in DOMAIN specs /\ specs[n] # Absent
      /\ Intent!IsSpec(specs[n])
      /\ DOMAIN spec = DOMAIN specs[n]
      /\ \A x \in DOMAIN specs[n] \ {"cursor"} : spec[x] = specs[n][x]
  BY <1>1, RunningIs
<1>4. spec.about = specs[n].about /\ spec.where = specs[n].where /\ spec.change = specs[n].change
  BY <1>3 DEF Intent!IsSpec
<1>5. ~IsRead(n)
  BY <1>1, <1>4 DEF IsRead
<1>6. CASE UNCHANGED <<todo, given, seen, faults>> /\ \E code : Intent!Tell(Intent!Refusal(code))
  BY <1>1, <1>3, <1>5, <1>6, TellKeeps, AnswersAre DEF Intent!Tell
<1>7. CASE Intent!Fault /\ UNCHANGED <<todo, given, seen>>
  BY <1>1, <1>7, FaultKeeps
<1>8. CASE /\ op \in DOMAIN Intent!OP_TO_RESOURCE /\ items # << >>
           /\ todo' = items /\ given' = << >> /\ UNCHANGED <<results, faults>>
           /\ seen' = Intent!Over([i \in {n} |-> entry], seen)
  <2>1. IF op = "create" THEN items = <<Absent>> ELSE IsFound(items, there)
    BY <1>8, FoundIs, MatchingIsIn
  <2>2. IsList(items) /\ Len(items) \in Nat /\ DOMAIN items = 1..Len(items)
    <3>1. op = "create" => IsList(items)
      <4>1. IsList(<<Absent>>)
        BY DEF IsList
      <4> QED  BY <2>1, <4>1
    <3> QED  BY <2>1, <3>1, ListIs DEF IsFound
  <2>3. entry.found = items /\ entry.there = there
    OBVIOUS
  <2> HIDE DEF items, there, entry, spec
  <2>4. /\ DOMAIN seen' = {n} \cup DOMAIN seen /\ seen'[n] = entry
        /\ \A i \in DOMAIN seen : i # n => seen'[i] = seen[i]
    BY <1>8 DEF Intent!Over
  <2>5. n' = n /\ todo' # Absent
    <3>1. op = "create" => todo' # Absent
      BY <1>8, <2>1, IntentsAreOf
    <3>2. op # "create" => todo' # Absent
      BY <1>8, <2>1, IntentsAreOf DEF IsFound
    <3> QED  BY <1>8, <3>1, <3>2 DEF Here
  <2>6. n \notin 1..Len(results) /\ Len(results) \in Nat /\ DOMAIN results = 1..Len(results)
    BY ListIs DEF IntentInv, Posed, Here
  <2>7. Posed'
    BY <1>1, <1>3, <1>8, NoneIsList DEF IntentInv, Posed, IsList
  <2>8. Current'
    BY <1>1, <1>8 DEF IntentInv, Current, After, IsRead, Intent!Owner
  <2>9. Busy'
    <3>1. Len(given') = 0 /\ (\A i \in 1..Len(items) : todo'[i] = items[0 + i])
      BY <1>8, <2>2, NoneIsList
    <3>2. /\ n \in DOMAIN specs /\ specs[n] # Absent /\ specs[n].change # Absent
          /\ specs[n].change.op = op /\ op \in DOMAIN Intent!OP_TO_RESOURCE
          /\ n \in DOMAIN seen' /\ seen'[n].found = items /\ seen'[n].there = there
          /\ Len(items) = 0 + Len(todo')
      BY <1>1, <1>3, <1>4, <1>8, <2>2, <2>3, <2>4
    <3>3. IsList(todo)' /\ todo' # << >> /\ (op # "create" => todo' \in Seq(Ids))
      BY <1>8, <2>1, <2>2 DEF IsList, IsFound
    <3> HIDE DEF n, op
    <3>4. UNCHANGED specs /\ Here' = n
      BY <1>1, <2>5 DEF n
    <3> QED  BY <1>8, <2>1, <3>1, <3>2, <3>3, <3>4 DEF Busy, Intent!OP_TO_RESOURCE
  <2>10. Aimed'
    <3> SUFFICES ASSUME NEW k \in DOMAIN minted
                 PROVE  minted[k].of \in 1..Len(results) /\ minted[k].of \in DOMAIN seen
                        /\ minted[k].of # n /\ seen'[minted[k].of] = seen[minted[k].of]
      BY <1>1, <1>3, <1>8, <2>4, <2>5 DEF IntentInv, Aimed, IsFree
    <3>1. minted[k].of \in 1..Len(specs) /\ minted[k].of <= Len(results) /\ minted[k].of \in DOMAIN seen
      BY <1>3 DEF IntentInv, Aimed
    <3>2. minted[k].of \in 1..Len(results)
      BY <2>6, <3>1
    <3> QED  BY <2>4, <2>6, <3>1, <3>2
  <2>11. Counted'
    BY <1>1, <1>8, <2>4, <2>6 DEF IntentInv, Counted
  <2>12. Shown'
    BY <1>1, <1>3, <1>8 DEF IntentInv, Shown
  <2> QED  BY <2>7, <2>8, <2>9, <2>10, <2>11, <2>12 DEF IntentInv
<1> QED  BY <1>2, <1>6, <1>7, <1>8

\* A proposal is of its intent's target, and of the record at hand.
LEMMA ArgsAre ==
  ASSUME NEW spec, IsFree(spec), spec.change.op \in DOMAIN Intent!OP_TO_RESOURCE, NEW item,
         NEW args, args = Intent!Args(spec, item)
  PROVE  /\ args["target"] = spec.about
         /\ spec.change.op # "create" => args["id"] = item
<1> DEFINE set == spec.change.set
<1>1. spec.change.op \in {"create", "update", "remove"}
  BY DEF Intent!OP_TO_RESOURCE
<1>2. "id" \notin DOMAIN set /\ "target" \notin DOMAIN set
  BY DEF IsFree
<1>3. CASE spec.change.op = "create"
  <2>1. args = Intent!Over(set, [target |-> spec.about])
    BY <1>3 DEF Intent!Args
  <2> HIDE DEF set
  <2> QED  BY <1>2, <1>3, <2>1 DEF Intent!Over
<1>4. CASE spec.change.op = "update"
  <2>1. args = Intent!Over(set, [target |-> spec.about, id |-> item])
    BY <1>4 DEF Intent!Args
  <2> HIDE DEF set
  <2> QED  BY <1>2, <1>4, <2>1 DEF Intent!Over
<1>5. CASE spec.change.op = "remove"
  <2>1. args = [target |-> spec.about, id |-> item]
    BY <1>5 DEF Intent!Args
  <2> QED  BY <1>5, <2>1
<1> QED  BY <1>1, <1>3, <1>4, <1>5

\* The next record's proposal is made, or the last; or it fails.
LEMMA ProposesKeep ==
  ASSUME IntentInv, Intent!Propose
  PROVE  IntentInv'
<1> DEFINE spec == Intent!Asking
           n == Here
           args == Intent!Args(spec, Head(todo))
           q == [verb |-> Intent!OP_TO_RESOURCE[spec.change.op], args |-> args, of |-> Len(results) + 1]
           accepted == Intent!Previews(spec.change.op, args)
           fresh == Len(minted) + 1
           answers == Append(given, IF accepted THEN fresh ELSE 0)
           last == Len(todo) = 1
           reply == [Intent!Blank EXCEPT !.outcome = "proposals", !.proposals = answers]
           found == seen[n].found
           g == Len(given)
<1>1. /\ todo # Absent /\ todo # << >>
      /\ UNCHANGED <<specs, able, records, dead, drifts, seen>>
      /\ \/ /\ minted' = IF accepted THEN Append(minted, q) ELSE minted
            /\ given' = IF last THEN << >> ELSE answers
            /\ todo' = IF last THEN Absent ELSE Tail(todo)
            /\ results' = IF last THEN Append(results, reply) ELSE results
            /\ UNCHANGED faults
         \/ Intent!Fault /\ todo' = Absent /\ given' = << >> /\ UNCHANGED minted
  BY DEF Intent!Propose
<1>2. /\ n \in DOMAIN specs /\ specs[n] # Absent /\ specs[n].change # Absent
      /\ specs[n].change.op \in DOMAIN Intent!OP_TO_RESOURCE
      /\ n \in DOMAIN seen
      /\ IF specs[n].change.op = "create" THEN found = <<Absent>> ELSE IsFound(found, seen[n].there)
      /\ specs[n].change.op # "create" => todo \in Seq(Ids)
      /\ IsList(todo) /\ Len(found) = Len(given) + Len(todo)
      /\ \A i \in 1..Len(todo) : todo[i] = found[Len(given) + i]
  BY <1>1 DEF IntentInv, Busy
<1>3. /\ IsList(results) /\ IsList(minted) /\ IsList(given) /\ ~dead
      /\ DOMAIN specs = 1..Len(specs) /\ Len(specs) \in Nat
      /\ Intent!IsSpec(specs[n])
  BY <1>1, <1>2 DEF IntentInv, Posed
<1>4. /\ spec.about = specs[n].about /\ spec.change = specs[n].change
  BY <1>3 DEF Intent!Asking, Intent!Continued, Intent!IsSpec, Here
<1>5. CASE Intent!Fault /\ todo' = Absent /\ given' = << >> /\ UNCHANGED minted
  <2>1. results' = Append(results, Intent!Error) /\ faults' = faults + 1
    BY <1>5 DEF Intent!Fault, Intent!Tell
  <2>2. IsList(given')
    BY <1>5, NoneIsList
  <2>3. Intent!Error.outcome # "proposals" /\ Intent!Error.outcome # "result"
        /\ Intent!Error.next \in Ids \cup {Absent}
    BY AnswersAre
  <2> QED  BY <1>1, <1>2, <1>3, <1>5, <2>1, <2>2, <2>3, TellKeeps
<1>6. CASE /\ minted' = IF accepted THEN Append(minted, q) ELSE minted
           /\ given' = IF last THEN << >> ELSE answers
           /\ todo' = IF last THEN Absent ELSE Tail(todo)
           /\ results' = IF last THEN Append(results, reply) ELSE results
           /\ UNCHANGED faults
  <2>1. /\ Head(todo) = found[g + 1] /\ g + 1 \in 1..Len(found) /\ g \in Nat /\ Len(todo) \in Nat
        /\ Len(todo) # 0
    <3>1. g \in Nat /\ Len(todo) \in Nat /\ Len(todo) # 0
      BY <1>1, <1>2, <1>3, ListIs
    <3>2. Head(todo) = todo[1]
      BY <1>1, <1>2, RestIs
    <3> QED  BY <1>2, <3>1, <3>2
  <2>2. /\ q.of = n /\ q.args = args
        /\ IsFree(specs[n]) =>
             /\ args["target"] = specs[n].about
             /\ specs[n].change.op # "create" => args["id"] = found[g + 1]
    <3>1. IsFree(specs[n]) => IsFree(spec)
      BY <1>4 DEF IsFree
    <3>2. q.of = n /\ q.args = args
      BY DEF Here
    <3> HIDE DEF q, args, spec
    <3>3. IsFree(spec) => /\ args["target"] = spec.about
                          /\ spec.change.op # "create" => args["id"] = Head(todo)
      BY <1>2, <1>4, ArgsAre DEF args, spec
    <3> QED  BY <1>4, <2>1, <3>1, <3>2, <3>3
  <2>3. IsAdded(answers, given, IF accepted THEN fresh ELSE 0)
    BY <1>3, AddedIs
  <2>4. /\ reply.outcome = "proposals" /\ reply.next = Absent /\ reply.proposals = answers
    BY DEF Intent!Blank
  <2>5. last => IsAdded(results', results, reply)
    BY <1>3, <1>6, AddedIs
  <2>6. accepted => IsAdded(minted', minted, q)
    BY <1>3, <1>6, AddedIs
  <2> HIDE DEF q, args, spec, answers, reply, accepted
  <2>7. ~last => results' = results /\ todo' = Tail(todo) /\ given' = answers /\ n' = n
    BY <1>6 DEF Here
  <2>8. last => todo' = Absent /\ given' = << >>
    BY <1>6
  <2>9. ~accepted => minted' = minted
    BY <1>6
  <2> DEFINE r == Len(results)
  <2>10. r \in Nat /\ n = r + 1 /\ DOMAIN results = 1..r /\ n <= Len(specs)
    BY <1>2, <1>3, ListIs DEF Here
  <2>11. /\ Len(minted) \in Nat /\ DOMAIN minted = 1..Len(minted)
         /\ \A k \in DOMAIN minted : minted'[k] = minted[k] /\ k \in Nat /\ k < fresh
         /\ \A k \in DOMAIN minted' : k \in DOMAIN minted \/ (accepted /\ k = fresh)
         /\ accepted => minted'[fresh] = q
    <3>1. Len(minted) \in Nat /\ DOMAIN minted = 1..Len(minted)
      BY <1>3, ListIs
    <3>2. CASE accepted
      BY <2>6, <3>1, <3>2 DEF IsAdded
    <3>3. CASE ~accepted
      BY <2>9, <3>1, <3>3
    <3> QED  BY <3>2, <3>3
  <2>12. /\ \A k \in 1..r : results'[k] = results[k]
         /\ IF last THEN Len(results') = r + 1 /\ DOMAIN results' = 1..(r + 1) /\ results'[r + 1] = reply
            ELSE Len(results') = r /\ DOMAIN results' = 1..r
    BY <2>5, <2>7, <2>10 DEF IsAdded
  <2> HIDE DEF fresh, r, last, found, n, g
  <2>13. ~last => todo' # Absent
    <3> SUFFICES ASSUME ~last PROVE Tail(todo) # Absent
      BY <2>7
    <3>1. specs[n].change.op # "create"
      <4> SUFFICES ASSUME specs[n].change.op = "create" PROVE FALSE
        OBVIOUS
      <4>1. Len(found) = 1
        BY <1>2
      <4> QED  BY <1>2, <2>1, <4>1 DEF last, g
    <3>2. Tail(todo) \in Seq(Ids)
      BY <1>1, <1>2, <3>1
    <3> QED  BY <3>2, IntentsAreOf
  <2>14. Posed'
    <3>1. IsList(results)' /\ IsList(minted)' /\ IsList(given)'
      <4>1. IsList(results') /\ IsList(minted') /\ IsList(given')
        BY <1>3, <2>3, <2>5, <2>6, <2>7, <2>8, <2>9, NoneIsList DEF IsAdded
      <4> QED  BY <4>1 DEF IsList
    <3>2. Len(results') <= Len(specs)
      BY <1>3, <2>10, <2>12
    <3>3. ASSUME NEW k \in DOMAIN results' PROVE specs[k] # Absent /\ results'[k].next \in Ids \cup {Absent}
      <4>1. CASE k \in 1..r
        BY <2>10, <2>12, <4>1 DEF IntentInv, Posed
      <4>2. CASE k = r + 1 /\ last
        BY <1>2, <2>4, <2>10, <2>12, <4>2
      <4> QED  BY <2>10, <2>12, <4>1, <4>2
    <3>4. faults' = faults
      BY <1>6
    <3> QED  BY <1>1, <1>3, <3>1, <3>2, <3>3, <3>4 DEF IntentInv, Posed
  <2>15. Current'
    <3> SUFFICES ASSUME drifts = 0, NEW k \in DOMAIN results', IsRead(k),
                        results'[k].outcome = "result"
                 PROVE  k \in 1..r /\ results'[k] = results[k] /\ After(k)' = After(k)
      BY <1>1, <2>10 DEF IntentInv, Current, IsRead, Intent!Owner
    <3>1. k \in 1..r
      BY <2>4, <2>10, <2>12
    <3>2. k # 1 => k - 1 \in 1..r
      BY <2>10, <3>1
    <3>3. After(k)' = After(k)
      BY <1>1, <2>12, <3>1, <3>2 DEF After
    <3> QED  BY <2>12, <3>1, <3>3
  <2>16. Busy'
    <3>1. CASE last
      BY <2>8, <3>1 DEF Busy
    <3>2. CASE ~last
      <4>1. /\ IsList(Tail(todo)) /\ Len(Tail(todo)) = Len(todo) - 1
            /\ \A i \in 1..(Len(todo) - 1) : Tail(todo)[i] = todo[i + 1]
        BY <1>1, <1>2, RestIs
      <4>2. Len(todo) - 1 \in Nat /\ Len(todo) - 1 # 0
        BY <2>1, <3>2 DEF last
      <4>3. Tail(todo) # << >>
        BY <4>1, <4>2, ListIs
      <4>4. Len(answers) = g + 1
        BY <2>3 DEF IsAdded, g
      <4>5. Len(found) = Len(answers) + Len(Tail(todo))
        BY <1>2, <2>1, <4>1, <4>4 DEF g
      <4>6. ASSUME NEW i \in 1..Len(Tail(todo)) PROVE Tail(todo)[i] = found[Len(answers) + i]
        <5>1. i + 1 \in 1..Len(todo) /\ g + (i + 1) = Len(answers) + i
          BY <2>1, <4>1, <4>4
        <5>2. todo[i + 1] = found[g + (i + 1)]
          BY <1>2, <5>1 DEF g
        <5>3. Tail(todo)[i] = todo[i + 1]
          BY <4>1
        <5> QED  BY <5>1, <5>2, <5>3
      <4>7. specs[n].change.op # "create" => Tail(todo) \in Seq(Ids)
        BY <1>1, <1>2
      <4>8. todo' = Tail(todo) /\ given' = answers /\ Here' = n /\ UNCHANGED <<specs, seen>>
        BY <1>1, <2>7, <3>2 DEF n
      <4>9. IsList(todo)'
        BY <4>1, <4>8 DEF IsList
      <4>10. seen'[n].found = found /\ n \in DOMAIN specs
        BY <1>2, <4>8 DEF found
      <4> QED  BY <1>2, <4>3, <4>5, <4>6, <4>7, <4>8, <4>9, <4>10 DEF Busy, Intent!OP_TO_RESOURCE
    <3> QED  BY <3>1, <3>2
  <2>17. Aimed'
    <3> DEFINE Id(k) == minted'[k].args["id"]
    <3>1. ASSUME NEW k \in DOMAIN minted'
          PROVE  LET p == minted'[k]
                     s == specs[p.of]
                 IN  /\ p.of \in 1..Len(specs) /\ p.of \in DOMAIN seen /\ s.change # Absent
                     /\ p.of <= Len(results') \/ (todo' # Absent /\ p.of = Here')
                     /\ IsFree(s) => p.args["target"] = s.about
                     /\ IsFree(s) /\ s.change.op # "create" =>
                          /\ Id(k) \in seen[p.of].there
                          /\ \A m \in 1..(k - 1) : minted'[m].of = p.of => Id(m) # Id(k)
                          /\ todo' # Absent /\ p.of = Here' =>
                               \E i \in 1..Len(given') : Id(k) = seen[Here'].found[i]
      <4>1. CASE k \in DOMAIN minted
        <5> DEFINE p == minted[k]
                   s == specs[p.of]
        <5>1. /\ p.of \in 1..Len(specs) /\ p.of \in DOMAIN seen /\ s.change # Absent
              /\ p.of <= Len(results) \/ (todo # Absent /\ p.of = Here)
              /\ IsFree(s) => p.args["target"] = s.about
              /\ IsFree(s) /\ s.change.op # "create" =>
                   /\ p.args["id"] \in seen[p.of].there
                   /\ \A m \in 1..(k - 1) : minted[m].of = p.of => minted[m].args["id"] # p.args["id"]
                   /\ todo # Absent /\ p.of = Here =>
                        \E i \in 1..Len(given) : p.args["id"] = seen[Here].found[i]
          BY <1>3, <4>1 DEF IntentInv, Aimed
        <5>2. minted'[k] = p /\ \A m \in 1..(k - 1) : minted'[m] = minted[m]
          <6>1. \A m \in 1..(k - 1) : m \in DOMAIN minted
            BY <2>11, <4>1
          <6> QED  BY <2>11, <4>1, <6>1
        <5> HIDE DEF p
        <5>3. p.of <= Len(results') \/ (todo' # Absent /\ p.of = Here')
          <6>1. p.of \in Nat /\ p.of <= r + 1 /\ (p.of <= r \/ p.of = n)
            BY <1>3, <2>10, <5>1 DEF n, r
          <6>2. CASE last
            BY <2>10, <2>12, <6>1, <6>2
          <6>3. CASE ~last /\ p.of <= r
            BY <2>12, <6>3
          <6>4. CASE ~last /\ p.of = n
            BY <2>7, <2>16, <6>4, <2>13 DEF n
          <6> QED  BY <6>1, <6>2, <6>3, <6>4
        <5>4. ASSUME IsFree(s), s.change.op # "create", todo' # Absent, p.of = Here'
              PROVE  \E i \in 1..Len(given') : p.args["id"] = seen[Here'].found[i]
          <6>1. ~last /\ given' = answers /\ Here' = Here
            BY <2>7, <2>8, <5>4 DEF n
          <6>2. PICK i \in 1..Len(given) : p.args["id"] = seen[Here].found[i]
            BY <1>1, <5>1, <5>4, <6>1
          <6>3. i \in 1..Len(given')
            BY <2>3, <6>1, <6>2 DEF IsAdded
          <6> QED  BY <6>1, <6>2, <6>3
        <5> QED  BY <5>1, <5>2, <5>3, <5>4
      <4>2. CASE accepted /\ k = fresh
        <5>1. minted'[k] = q /\ q.of = n /\ q.args = args
          BY <2>2, <2>11, <4>2
        <5>2. n <= Len(results') \/ (todo' # Absent /\ n = Here')
          BY <2>7, <2>10, <2>12, <2>13 DEF n
        <5>3. ASSUME IsFree(specs[n]), specs[n].change.op # "create"
              PROVE  /\ args["id"] \in seen[n].there
                     /\ \A m \in 1..(k - 1) : minted'[m].of = n => Id(m) # args["id"]
                     /\ todo' # Absent /\ n = Here' =>
                          \E i \in 1..Len(given') : args["id"] = seen[Here'].found[i]
          <6>1. args["id"] = found[g + 1] /\ IsFound(found, seen[n].there)
            BY <1>2, <2>2, <5>3
          <6>2. args["id"] \in seen[n].there
            BY <2>1, <6>1 DEF IsFound
          <6>3. ASSUME NEW m \in 1..(k - 1), minted'[m].of = n PROVE Id(m) # args["id"]
            <7>1. m \in DOMAIN minted /\ minted'[m] = minted[m]
              BY <2>11, <4>2 DEF fresh
            <7>2. PICK i \in 1..Len(given) : minted[m].args["id"] = found[i]
              BY <1>1, <1>3, <5>3, <6>3, <7>1 DEF IntentInv, Aimed, n, found
            <7>3. i \in 1..Len(found) /\ i # g + 1
              BY <2>1, <7>2 DEF g
            <7> QED  BY <2>1, <6>1, <7>1, <7>2, <7>3 DEF IsFound
          <6>4. ASSUME todo' # Absent, n = Here'
                PROVE  \E i \in 1..Len(given') : args["id"] = seen[Here'].found[i]
            <7>1. given' = answers /\ Len(answers) = g + 1
              BY <2>3, <2>7, <2>8, <6>4 DEF IsAdded, g
            <7>2. g + 1 \in 1..Len(given')
              BY <2>1, <7>1
            <7> QED  BY <6>1, <6>4, <7>2 DEF found
          <6> QED  BY <6>2, <6>3, <6>4
        <5>4. n \in 1..Len(specs)
          BY <1>2, <1>3
        <5> QED  BY <1>2, <2>2, <5>1, <5>2, <5>3, <5>4
      <4> QED  BY <2>11, <4>1, <4>2
    <3> QED  BY <1>1, <3>1 DEF Aimed, IsFree
  <2>18. Counted'
    <3> SUFFICES ASSUME NEW i \in DOMAIN results', results'[i].outcome = "proposals"
                 PROVE  /\ i \in DOMAIN seen
                        /\ specs[i].change.op # "create" =>
                             Len(results'[i].proposals) =
                               IF Cardinality(seen[i].there) < ChangeLimit
                               THEN Cardinality(seen[i].there) ELSE ChangeLimit
      BY <1>1 DEF Counted
    <3>1. CASE i \in 1..r
      BY <2>10, <2>12, <3>1 DEF IntentInv, Counted
    <3>2. CASE last /\ i = n
      <4>1. results'[i].proposals = answers /\ Len(answers) = g + 1
        BY <2>3, <2>4, <2>10, <2>12, <3>2 DEF IsAdded, g
      <4>2. Len(found) = g + 1
        BY <1>2, <3>2 DEF g, last
      <4> QED  BY <1>2, <3>2, <4>1, <4>2 DEF IsFound
    <3> QED  BY <2>10, <2>12, <3>1, <3>2
  <2>19. Shown'
    <3> SUFFICES ASSUME faults' = 0, NEW k \in DOMAIN minted'
                 PROVE  \/ /\ minted'[k].of \in 1..Len(results')
                           /\ \E i \in DOMAIN results'[minted'[k].of].proposals :
                                results'[minted'[k].of].proposals[i] = k
                        \/ /\ todo' # Absent /\ minted'[k].of = Here'
                           /\ \E i \in 1..Len(given') : given'[i] = k
      BY DEF Shown
    <3>0. faults = 0
      BY <1>6
    <3>1. CASE k \in DOMAIN minted /\ minted[k].of \in 1..r
      <4>1. \E i \in DOMAIN results[minted[k].of].proposals : results[minted[k].of].proposals[i] = k
        BY <1>3, <2>10, <3>0, <3>1 DEF IntentInv, Shown, Here, r
      <4>2. minted'[k] = minted[k] /\ results'[minted[k].of] = results[minted[k].of]
            /\ minted[k].of \in 1..Len(results')
        BY <2>10, <2>11, <2>12, <3>1
      <4> QED  BY <4>1, <4>2
    <3>2. ASSUME minted'[k].of = n, \E i \in 1..Len(answers) : answers[i] = k
          PROVE  \/ /\ minted'[k].of \in 1..Len(results')
                    /\ \E i \in DOMAIN results'[minted'[k].of].proposals :
                         results'[minted'[k].of].proposals[i] = k
                 \/ /\ todo' # Absent /\ minted'[k].of = Here'
                    /\ \E i \in 1..Len(given') : given'[i] = k
      <4>1. CASE last
        <5>1. results'[n] = reply /\ n \in 1..Len(results')
          BY <2>10, <2>12, <4>1
        <5>2. DOMAIN answers = 1..Len(answers)
          BY <2>3, ListIs DEF IsAdded
        <5> QED  BY <2>4, <3>2, <5>1, <5>2
      <4>2. CASE ~last
        BY <2>7, <2>13, <3>2, <4>2 DEF n
      <4> QED  BY <4>1, <4>2
    <3>3. CASE k \in DOMAIN minted /\ minted[k].of \notin 1..r
      <4>1. minted[k].of = n /\ \E i \in 1..Len(given) : given[i] = k
        BY <1>3, <3>0, <3>3 DEF IntentInv, Shown, r, n
      <4>2. PICK i \in 1..Len(given) : given[i] = k
        BY <4>1
      <4>3. i \in 1..Len(answers) /\ answers[i] = k
        BY <2>3, <4>2 DEF IsAdded
      <4>4. minted'[k] = minted[k]
        BY <2>11, <3>3
      <4> QED  BY <3>2, <4>1, <4>3, <4>4
    <3>4. CASE accepted /\ k = fresh
      <4>1. minted'[k].of = n
        BY <2>2, <2>11, <3>4
      <4>2. Len(answers) \in 1..Len(answers) /\ answers[Len(answers)] = k
        BY <2>1, <2>3, <3>4 DEF IsAdded, g
      <4> QED  BY <3>2, <4>1, <4>2
    <3> QED  BY <2>11, <3>1, <3>3, <3>4
  <2> QED  BY <2>14, <2>15, <2>16, <2>17, <2>18, <2>19 DEF IntentInv
<1> QED  BY <1>1, <1>5, <1>6

\* A batch that ends has no answers, and others may change the records.
LEMMA EndsKeep ==
  ASSUME IntentInv,
         Intent!Collapse \/ \E k \in Ids, value \in {Gone, 1} : Intent!Drift(k, value)
  PROVE  IntentInv'
<1>1. CASE Intent!Collapse
  <2>1. /\ todo = Absent /\ Len(results) < Len(specs) /\ dead' = TRUE /\ results' = << >>
        /\ UNCHANGED <<specs, able, records, todo, given, minted, faults, drifts, seen>>
    BY <1>1 DEF Intent!Collapse, Intent!Running
  <2>2. Posed'
    <3>1. Len(results) \in Nat /\ Len(specs) \in Nat
      BY ListIs DEF IntentInv, Posed
    <3>2. Len(specs) # 0 /\ 0 <= Len(specs)
      BY <2>1, <3>1
    <3> QED  BY <2>1, <3>2, NoneIsList DEF IntentInv, Posed, IsList
  <2>3. Current' /\ Counted' /\ Busy' /\ Shown'
    BY <2>1, NoneIsList DEF Current, Counted, Busy, Shown
  <2>4. Aimed'
    BY <2>1 DEF IntentInv, Aimed, IsFree
  <2> QED  BY <2>2, <2>3, <2>4 DEF IntentInv
<1>2. ASSUME NEW k \in Ids, NEW value \in {Gone, 1}, Intent!Drift(k, value) PROVE IntentInv'
  <2>1. /\ drifts' = drifts + 1 /\ drifts \in Nat
        /\ UNCHANGED <<specs, able, results, todo, given, minted, dead, faults, seen>>
    BY <1>2 DEF Intent!Drift, IntentInv, Posed
  <2>2. Posed'
    BY <2>1 DEF IntentInv, Posed, IsList
  <2>3. Current'
    BY <2>1 DEF Current
  <2>4. Busy'
    BY <2>1 DEF IntentInv, Busy, Here, IsFound, IsList
  <2>5. Aimed'
    BY <2>1 DEF IntentInv, Aimed, IsFree, Here
  <2>6. Counted' /\ Shown'
    BY <2>1 DEF IntentInv, Counted, Shown, Here
  <2> QED  BY <2>2, <2>3, <2>4, <2>5, <2>6 DEF IntentInv
<1> QED  BY <1>1, <1>2

\* Nothing was asked yet.
LEMMA IntentBegins ==
  ASSUME NEW session \in Sessions, NEW can, NEW store, Intent!Ask(session, can, store)
  PROVE  IntentInv
<1>1. /\ specs = session.specs /\ results = << >> /\ todo = Absent /\ given = << >>
      /\ minted = << >> /\ dead = FALSE /\ faults = 0 /\ drifts = 0
  BY DEF Intent!Ask
<1>2. /\ DOMAIN specs = 1..Len(specs) /\ Len(specs) \in Nat
      /\ \A i \in DOMAIN specs : specs[i] # Absent => Intent!IsSpec(specs[i])
  BY <1>1, ToolkitAssumption DEF Intent!ConstantsAreSound
<1>3. Posed
  <2>1. IsList(results) /\ IsList(minted) /\ IsList(given) /\ Len(results) <= Len(specs)
    BY <1>1, <1>2, NoneIsList
  <2>2. DOMAIN results = {} /\ drifts \in Nat /\ faults \in Nat /\ dead \in BOOLEAN /\ ~dead
    BY <1>1, NoneIsList
  <2> QED  BY <1>2, <2>1, <2>2 DEF Posed
<1> QED
  BY <1>1, <1>3, NoneIsList DEF IntentInv, Current, Busy, Aimed, Counted, Shown

\* The pages of a question, one after the other.
LEMMA PagesFollow ==
  ASSUME IntentInv, drifts = 0, NEW i \in DOMAIN results, NEW j \in DOMAIN results,
         Intent!Paged(i, j)
  PROVE  LET M == Intent!Matching(specs[i].where) IN
         /\ i \in Nat /\ j \in Nat /\ i <= j /\ i..j \subseteq DOMAIN results
         /\ \A k \in i..j : \E limit \in Nat \ {0} :
              IsPage(results[k], {x \in M : x > After(k)}, limit)
         /\ After(i) = 0 /\ results[j].next = Absent
         /\ \A k \in (i + 1)..j : After(k) = results[k - 1].next /\ results[k - 1].next \in Ids
<1> DEFINE M == Intent!Matching(specs[i].where)
<1>1. DOMAIN results = 1..Len(results) /\ Len(results) \in Nat
  BY ListIs DEF IntentInv, Posed
<1>2. /\ i <= j /\ specs[i].cursor = Absent /\ results[j].next = Absent
      /\ \A k \in i..j : Intent!Seeks(k, "all") /\ specs[k].where = specs[i].where
      /\ \A k \in (i + 1)..j : specs[k].cursor = "next" /\ results[k - 1].next # Absent
  BY DEF Intent!Paged
<1>3. i \in Nat /\ j \in Nat /\ i..j \subseteq DOMAIN results
  BY <1>1
<1>4. ASSUME NEW k \in i..j
      PROVE  \E limit \in Nat \ {0} : IsPage(results[k], {x \in M : x > After(k)}, limit)
  <2>1. /\ k \in DOMAIN results /\ results[k].outcome = "result" /\ IsRead(k)
        /\ specs[k].seek = "all" /\ specs[k].where = specs[i].where
    BY <1>2, <1>3 DEF Intent!Seeks, IsRead
  <2>2. Answers(results[k], MatchingIn(records, specs[i].where), IsExact(records, able), "all", After(k))
    BY <2>1 DEF IntentInv, Current
  <2>3. MatchingIn(records, specs[i].where) = M
    BY MatchingIsIn
  <2> QED  BY <2>2, <2>3 DEF Answers
<1>5. After(i) = 0
  BY <1>2, IntentsAreOf DEF After
<1>6. ASSUME NEW k \in (i + 1)..j
      PROVE  After(k) = results[k - 1].next /\ results[k - 1].next \in Ids
  <2>1. k # 1 /\ k - 1 \in DOMAIN results
    BY <1>1, <1>3
  <2>2. results[k - 1].next \in Ids \cup {Absent}
    BY <2>1 DEF IntentInv, Posed
  <2> QED  BY <1>2, <2>1, <2>2 DEF After
<1> QED  BY <1>2, <1>3, <1>4, <1>5, <1>6

\* No record is on two pages, and the pages have all that match.
LEMMA PagesPart ==
  ASSUME IntentInv, drifts = 0, NEW i \in DOMAIN results, NEW j \in DOMAIN results,
         Intent!Paged(i, j)
  PROVE  /\ \A k, m \in i..j : k # m => Intent!Listed(m) \cap Intent!Listed(k) = {}
         /\ Intent!Pages(i, j) = Intent!Matching(specs[i].where)
<1> DEFINE M == Intent!Matching(specs[i].where)
           Cursor(k) == results[k].next
<1>1. /\ i \in Nat /\ j \in Nat /\ i <= j /\ i..j \subseteq DOMAIN results
      /\ \A k \in i..j : \E limit \in Nat \ {0} :
           IsPage(results[k], {x \in M : x > After(k)}, limit)
      /\ After(i) = 0 /\ Cursor(j) = Absent
      /\ \A k \in (i + 1)..j : After(k) = Cursor(k - 1) /\ Cursor(k - 1) \in Ids
  BY PagesFollow
<1>2. M \subseteq Nat /\ (\A x \in M : x > 0) /\ Ids \subseteq Nat /\ Absent \notin Ids /\ M \subseteq Ids
  BY MatchingIsFinite, IntentsAreOf
<1> HIDE DEF M
<1>3. ASSUME NEW k \in i..j
      PROVE  /\ Intent!Listed(k) = {x \in M : x > After(k) /\ (Cursor(k) = Absent \/ x <= Cursor(k))}
             /\ Cursor(k) # Absent => Cursor(k) \in M /\ Cursor(k) > After(k)
  <2> DEFINE S == {x \in M : x > After(k)}
  <2>1. PICK limit \in Nat \ {0} : IsPage(results[k], S, limit)
    BY <1>1
  <2>2. /\ results[k].items \in Seq(S) /\ results[k].next \in S \cup {Absent}
        /\ \A x \in S : (\E n \in 1..Len(results[k].items) : results[k].items[n] = x)
                          <=> (results[k].next = Absent \/ x <= results[k].next)
    BY <2>1 DEF IsPage
  <2>3. DOMAIN results[k].items = 1..Len(results[k].items)
        /\ \A n \in 1..Len(results[k].items) : results[k].items[n] \in S
    BY <2>2
  <2>4. Intent!Listed(k) = {x \in S : results[k].next = Absent \/ x <= results[k].next}
    BY <2>2, <2>3 DEF Intent!Listed
  <2> QED  BY <2>2, <2>4
<1> HIDE DEF Cursor
<1>4. ASSUME NEW k \in i..j, NEW m \in (k + 1)..j PROVE Cursor(k) \in Ids /\ Cursor(k) <= After(m)
  <2>1. k + 1 \in (i + 1)..j /\ After(k + 1) = Cursor(k) /\ Cursor(k) \in Ids
    <3>1. k + 1 \in (i + 1)..j /\ (k + 1) - 1 = k
      BY <1>1
    <3> QED  BY <1>1, <3>1
  <2> DEFINE Bad == {y \in (k + 1)..j : ~(Cursor(k) <= After(y))}
  <2>2. Bad = {}
    <3> SUFFICES ASSUME Bad # {} PROVE FALSE
      OBVIOUS
    <3>1. PICK y \in Bad : \A z \in Bad : y <= z
      <4>1. Bad \subseteq Nat
        BY <1>1
      <4> HIDE DEF Bad
      <4> QED  BY <4>1, LeastOf
    <3>2. y \in (k + 1)..j /\ ~(Cursor(k) <= After(y)) /\ y \in Nat /\ k \in Nat
      BY <1>1, <3>1
    <3>3. y # k + 1
      <4>1. Cursor(k) \in Nat
        BY <1>2, <2>1
      <4>2. Cursor(k) <= Cursor(k)
        BY <4>1
      <4> QED  BY <2>1, <3>2, <4>2
    <3>4. y - 1 \in (k + 1)..j /\ y - 1 \in i..j /\ y \in (i + 1)..j
      BY <1>1, <3>2, <3>3
    <3>5. y - 1 \notin Bad
      BY <3>1, <3>2
    <3>6. Cursor(k) <= After(y - 1)
      BY <3>4, <3>5
    <3>7. After(y) = Cursor(y - 1) /\ Cursor(y - 1) \in Ids
      BY <1>1, <3>4
    <3>8. Cursor(y - 1) > After(y - 1)
      BY <1>2, <1>3, <3>4, <3>7
    <3>9. After(y - 1) \in Nat
      <4>1. y - 1 \in (i + 1)..j
        BY <1>1, <3>4
      <4> QED  BY <1>1, <1>2, <4>1
    <3>10. Cursor(k) \in Nat /\ Cursor(y - 1) \in Nat
      BY <1>2, <2>1, <3>7
    <3>11. Cursor(k) <= Cursor(y - 1)
      BY <3>6, <3>8, <3>9, <3>10
    <3> QED  BY <3>2, <3>7, <3>11
  <2> QED  BY <2>1, <2>2
<1>5. ASSUME NEW k \in i..j, NEW m \in (k + 1)..j PROVE Intent!Listed(m) \cap Intent!Listed(k) = {}
  <2>1. m \in i..j /\ m \in (i + 1)..j
    BY <1>1
  <2>2. Cursor(k) \in Nat /\ Cursor(k) <= After(m) /\ After(m) \in Nat /\ Cursor(k) # Absent
    BY <1>1, <1>2, <1>4, <2>1
  <2>3. \A x \in Intent!Listed(k) : x \in Nat /\ x <= Cursor(k)
    BY <1>2, <1>3, <2>2
  <2>4. \A x \in Intent!Listed(m) : x > After(m)
    BY <1>3, <2>1
  <2> QED  BY <2>2, <2>3, <2>4
<1>6. \A k, m \in i..j : k # m => Intent!Listed(m) \cap Intent!Listed(k) = {}
  <2> SUFFICES ASSUME NEW k \in i..j, NEW m \in i..j, k # m
               PROVE  Intent!Listed(m) \cap Intent!Listed(k) = {}
    OBVIOUS
  <2>1. m \in (k + 1)..j \/ k \in (m + 1)..j
    BY <1>1
  <2> QED  BY <1>5, <2>1
<1>7. ASSUME NEW x \in M PROVE \E k \in i..j : x \in Intent!Listed(k)
  <2> DEFINE Up == {k \in i..j : Cursor(k) = Absent \/ x <= Cursor(k)}
  <2>1. j \in Up /\ Up \subseteq Nat
    BY <1>1
  <2>2. PICK k \in Up : \A m \in Up : k <= m
    <3> HIDE DEF Up
    <3> QED  BY <2>1, LeastOf
  <2>3. k \in i..j /\ k \in Nat
    BY <1>1
  <2>4. x > After(k)
    <3>1. CASE k = i
      BY <1>1, <1>2, <3>1
    <3>2. CASE k # i
      <4>1. k - 1 \in i..j /\ k \in (i + 1)..j /\ k - 1 \notin Up
        BY <1>1, <2>2, <2>3, <3>2
      <4>2. ~(x <= Cursor(k - 1)) /\ After(k) = Cursor(k - 1) /\ Cursor(k - 1) \in Nat /\ x \in Nat
        BY <1>1, <1>2, <4>1
      <4> QED  BY <4>2
    <3> QED  BY <3>1, <3>2
  <2> QED  BY <1>3, <2>2, <2>3, <2>4
<1>8. Intent!Pages(i, j) = M
  <2>1. \A x \in Intent!Pages(i, j) : x \in M
    BY <1>3 DEF Intent!Pages
  <2>2. \A x \in M : x \in Intent!Pages(i, j)
    BY <1>7 DEF Intent!Pages
  <2> QED  BY <2>1, <2>2
<1> QED  BY <1>6, <1>8 DEF M

\* What is of the count, the groups and the one record.
LEMMA AnswersHold ==
  ASSUME IntentInv, drifts = 0, NEW k \in DOMAIN results, NEW seek, Intent!Seeks(k, seek)
  PROVE  Answers(results[k], Intent!Matching(specs[k].where), Intent!Exact, seek, After(k))
<1>1. IsRead(k) /\ results[k].outcome = "result" /\ specs[k].seek = seek
  BY DEF Intent!Seeks, IsRead
<1>2. Answers(results[k], MatchingIn(records, specs[k].where), IsExact(records, able), seek, After(k))
  BY <1>1 DEF IntentInv, Current
<1> QED  BY <1>2, MatchingIsIn DEF Answers

\* A record is or is not.
LEMMA IsAndIsNot ==
  ASSUME NEW where, NEW other, DOMAIN where = {1}, DOMAIN other = {1},
         where[1].rel = "is", other[1].rel = "is_not", other[1].value = where[1].value
  PROVE  Cardinality(Intent!Matching(where)) + Cardinality(Intent!Matching(other))
           = Cardinality(Intent!Present)
<1> DEFINE x == where[1].value
           A == Intent!Matching(where)
           B == Intent!Matching(other)
<1>1. /\ "is" \in DOMAIN Intent!REL_TO_OP /\ Intent!REL_TO_OP["is"] = "eq"
      /\ "is_not" \in DOMAIN Intent!REL_TO_OP /\ Intent!REL_TO_OP["is_not"] = "ne"
  BY DEF Intent!REL_TO_OP
<1>2. \A k : Intent!_matches(k, where) <=> records[k] = x[1]
  <2>1. \A k : Intent!_matches(k, where) <=> Intent!Holds("eq", records[k], x)
    BY <1>1 DEF Intent!_matches
  <2>2. \A v : Intent!Holds("eq", v, x) <=> v = x[1]
    BY DEF Intent!Holds
  <2> QED  BY <2>1, <2>2
<1>3. \A k : Intent!_matches(k, other) <=> records[k] # x[1]
  <2>1. \A k : Intent!_matches(k, other) <=> Intent!Holds("ne", records[k], x)
    BY <1>1 DEF Intent!_matches
  <2>2. \A v : Intent!Holds("ne", v, x) <=> v # x[1]
    BY DEF Intent!Holds
  <2> QED  BY <2>1, <2>2
<1>4. A \cup B = Intent!Present /\ A \cap B = {}
  BY <1>2, <1>3 DEF Intent!Matching
<1>5. IsFiniteSet(A) /\ IsFiniteSet(B)
  BY MatchingIsFinite
<1> HIDE DEF A, B
<1>6. Cardinality(A \cup B) = Cardinality(A) + Cardinality(B) - Cardinality(A \cap B)
  BY <1>5, FS_Union
<1>7. Cardinality({}) = 0 /\ Cardinality(A) \in Nat /\ Cardinality(B) \in Nat
  BY <1>5, FS_EmptySet, FS_CardinalityType
<1>8. Cardinality(A) + Cardinality(B) = Cardinality(Intent!Present)
  <2>1. Cardinality(A \cup B) = Cardinality(Intent!Present) /\ Cardinality(A \cap B) = 0
    BY <1>4, <1>7
  <2> QED  BY <1>6, <1>7, <2>1
<1> QED  BY <1>8 DEF A, B

\* Between two bounds is not below one and not above the other.
LEMMA BetweenIsBoth ==
  ASSUME NEW where, NEW other, DOMAIN where = {1}, where[1].rel = "between", DOMAIN other = {1, 2},
         other[1].rel = "gte", other[1].value[1] = where[1].value[1],
         other[2].rel = "lte", other[2].value[1] = where[1].value[2]
  PROVE  Intent!Matching(where) = Intent!Matching(other)
<1> DEFINE x == where[1].value
<1>1. /\ "between" \in DOMAIN Intent!REL_TO_OP /\ Intent!REL_TO_OP["between"] = "between"
      /\ "gte" \in DOMAIN Intent!REL_TO_OP /\ Intent!REL_TO_OP["gte"] = "gte"
      /\ "lte" \in DOMAIN Intent!REL_TO_OP /\ Intent!REL_TO_OP["lte"] = "lte"
  BY DEF Intent!REL_TO_OP
<1>2. \A k : Intent!_matches(k, where) <=>
         records[k] # Null /\ x[1] <= records[k] /\ records[k] <= x[2]
  <2>1. \A k : Intent!_matches(k, where) <=> Intent!Holds("between", records[k], x)
    BY <1>1 DEF Intent!_matches
  <2>2. \A v : Intent!Holds("between", v, x) <=> v # Null /\ x[1] <= v /\ v <= x[2]
    BY DEF Intent!Holds
  <2> QED  BY <2>1, <2>2
<1>3. \A k : Intent!_matches(k, other) <=>
         records[k] # Null /\ records[k] >= x[1] /\ records[k] <= x[2]
  <2>1. \A k : Intent!_matches(k, other) <=> /\ Intent!Holds("gte", records[k], other[1].value)
                                             /\ Intent!Holds("lte", records[k], other[2].value)
    BY <1>1 DEF Intent!_matches
  <2>2. \A v : Intent!Holds("gte", v, other[1].value) <=> v # Null /\ v >= other[1].value[1]
    BY DEF Intent!Holds
  <2>3. \A v : Intent!Holds("lte", v, other[2].value) <=> v # Null /\ v <= other[2].value[1]
    BY DEF Intent!Holds
  <2> QED  BY <2>1, <2>2, <2>3
<1>4. \A k \in Intent!Present : Intent!_matches(k, where) <=> Intent!_matches(k, other)
  BY <1>2, <1>3
<1> QED  BY <1>4 DEF Intent!Matching

\* So the four shapes of a question agree.
LEMMA ShapesHold == IntentInv => Intent!ShapesAgree
<1> SUFFICES ASSUME IntentInv, drifts = 0, ~dead, NEW i \in DOMAIN results, NEW j \in DOMAIN results
             PROVE  /\ Intent!Paged(i, j) =>
                         /\ \A k, m \in i..j : k # m => Intent!Listed(m) \cap Intent!Listed(k) = {}
                         /\ \A k \in DOMAIN results : specs[k].where = specs[i].where =>
                              /\ Intent!Seeks(k, "count") /\ Intent!Exact =>
                                   results[k].count = Intent!Cardinality(Intent!Pages(i, j))
                              /\ Intent!Seeks(k, "summary") =>
                                   Intent!Sum(results[k].groups) = Intent!Cardinality(Intent!Pages(i, j))
                              /\ Intent!Seeks(k, "the") =>
                                   IF Intent!Pages(i, j) = {} THEN results[k].items = << >>
                                   ELSE /\ results[k].items[1] \in Intent!Pages(i, j)
                                        /\ \A p \in Intent!Pages(i, j) : results[k].items[1] <= p
                    /\ /\ Intent!Seeks(i, "count") /\ Intent!Seeks(j, "count")
                       /\ Intent!Exact /\ Len(specs[i].where) = 1
                       => LET w == specs[i].where[1] IN
                          /\ w.rel = "is" /\ specs[j].where = <<[w EXCEPT !.rel = "is_not"]>> =>
                               results[i].count + results[j].count = Intent!Cardinality(Intent!Present)
                          /\ /\ w.rel = "between"
                             /\ specs[j].where = <<[rel |-> "gte", value |-> <<w.value[1]>>],
                                                   [rel |-> "lte", value |-> <<w.value[2]>>]>>
                             => results[i].count = results[j].count
  BY DEF Intent!ShapesAgree
<1>1. ASSUME Intent!Paged(i, j)
      PROVE  /\ \A k, m \in i..j : k # m => Intent!Listed(m) \cap Intent!Listed(k) = {}
             /\ Intent!Pages(i, j) = Intent!Matching(specs[i].where)
  BY <1>1, PagesPart
<1>2. ASSUME Intent!Paged(i, j), NEW k \in DOMAIN results, specs[k].where = specs[i].where
      PROVE  /\ Intent!Seeks(k, "count") /\ Intent!Exact =>
                  results[k].count = Intent!Cardinality(Intent!Pages(i, j))
             /\ Intent!Seeks(k, "summary") =>
                  Intent!Sum(results[k].groups) = Intent!Cardinality(Intent!Pages(i, j))
             /\ Intent!Seeks(k, "the") =>
                  IF Intent!Pages(i, j) = {} THEN results[k].items = << >>
                  ELSE /\ results[k].items[1] \in Intent!Pages(i, j)
                       /\ \A p \in Intent!Pages(i, j) : results[k].items[1] <= p
  <2>1. Intent!Pages(i, j) = Intent!Matching(specs[k].where)
    BY <1>1, <1>2
  <2>2. \A seek : Intent!Seeks(k, seek) =>
           Answers(results[k], Intent!Pages(i, j), Intent!Exact, seek, After(k))
    BY <2>1, AnswersHold
  <2>3. Intent!Seeks(k, "count") => Answers(results[k], Intent!Pages(i, j), Intent!Exact, "count", After(k))
    BY <2>2
  <2>4. Intent!Seeks(k, "summary") =>
          Answers(results[k], Intent!Pages(i, j), Intent!Exact, "summary", After(k))
    BY <2>2
  <2>5. Intent!Seeks(k, "the") => Answers(results[k], Intent!Pages(i, j), Intent!Exact, "the", After(k))
    BY <2>2
  <2> QED  BY <2>3, <2>4, <2>5, SameCount DEF Answers
<1>3. ASSUME Intent!Seeks(i, "count"), Intent!Seeks(j, "count"), Intent!Exact, Len(specs[i].where) = 1
      PROVE  LET w == specs[i].where[1] IN
             /\ w.rel = "is" /\ specs[j].where = <<[w EXCEPT !.rel = "is_not"]>> =>
                  results[i].count + results[j].count = Intent!Cardinality(Intent!Present)
             /\ /\ w.rel = "between"
                /\ specs[j].where = <<[rel |-> "gte", value |-> <<w.value[1]>>],
                                      [rel |-> "lte", value |-> <<w.value[2]>>]>>
                => results[i].count = results[j].count
  <2>1. /\ results[i].count = Cardinality(Intent!Matching(specs[i].where))
        /\ results[j].count = Cardinality(Intent!Matching(specs[j].where))
    BY <1>3, AnswersHold DEF Answers
  <2> DEFINE where == specs[i].where
             other == specs[j].where
             w == where[1]
  <2>2. DOMAIN where = {1} /\ w \in [rel : STRING, value : Seq(Int)]
    <3>1. i \in DOMAIN specs /\ specs[i] # Absent
      BY ListIs DEF IntentInv, Posed
    <3>2. where \in Seq([rel : STRING, value : Seq(Int)])
      BY <3>1 DEF IntentInv, Posed, Intent!IsSpec
    <3> HIDE DEF where
    <3>3. Len(where) = 1
      BY <1>3 DEF where
    <3>4. DOMAIN where = 1..Len(where)
      BY <3>2
    <3>5. DOMAIN where = {1}
      BY <3>3, <3>4
    <3>6. where[1] \in [rel : STRING, value : Seq(Int)]
      <4> DEFINE Criteria == [rel : STRING, value : Seq(Int)]
      <4>1. where \in Seq(Criteria) /\ 1 \in 1..Len(where)
        BY <3>2, <3>3
      <4> HIDE DEF Criteria
      <4>2. where[1] \in Criteria
        BY <4>1
      <4> QED  BY <4>2 DEF Criteria
    <3> QED  BY <3>5, <3>6 DEF w
  <2> HIDE DEF w, where, other
  <2>3. ASSUME w.rel = "is", other = <<[w EXCEPT !.rel = "is_not"]>>
        PROVE  results[i].count + results[j].count = Intent!Cardinality(Intent!Present)
    <3>1. DOMAIN other = {1} /\ other[1].rel = "is_not" /\ other[1].value = w.value
      BY <2>2, <2>3
    <3>2. Cardinality(Intent!Matching(where)) + Cardinality(Intent!Matching(other))
            = Cardinality(Intent!Present)
      BY <2>2, <2>3, <3>1, IsAndIsNot DEF w
    <3> QED  BY <2>1, <3>2, SameCount DEF where, other
  <2>4. ASSUME w.rel = "between", other = <<[rel |-> "gte", value |-> <<w.value[1]>>],
                                            [rel |-> "lte", value |-> <<w.value[2]>>]>>
        PROVE  results[i].count = results[j].count
    <3>1. /\ DOMAIN other = {1, 2} /\ other[1].rel = "gte" /\ other[2].rel = "lte"
          /\ other[1].value[1] = w.value[1] /\ other[2].value[1] = w.value[2]
      BY <2>4
    <3>2. Intent!Matching(where) = Intent!Matching(other)
      BY <2>2, <2>4, <3>1, BetweenIsBoth DEF w
    <3> QED  BY <2>1, <3>2 DEF where, other
  <2> QED  BY <2>3, <2>4 DEF w, where, other
<1> QED  BY <1>1, <1>2, <1>3

\* Proposals are about what was found, and all are told.
LEMMA ProposalsHold == IntentInv => Intent!ChangesHitMatches /\ Intent!NothingIsHidden
<1> SUFFICES ASSUME IntentInv PROVE Intent!ChangesHitMatches /\ Intent!NothingIsHidden
  OBVIOUS
<1>1. Intent!ChangesHitMatches
  <2>1. ASSUME NEW i \in DOMAIN results, results[i].outcome = "proposals", specs[i].change.op # "create"
        PROVE  Len(results[i].proposals) = IF Intent!Cardinality(seen[i].there) < ChangeLimit
                                           THEN Intent!Cardinality(seen[i].there) ELSE ChangeLimit
    BY <2>1, SameCount DEF IntentInv, Counted
  <2> QED  BY <2>1 DEF IntentInv, Aimed, IsFree, Intent!ChangesHitMatches
<1>2. Intent!NothingIsHidden
  <2> SUFFICES ASSUME Len(results) = Len(specs), faults = 0, NEW n \in DOMAIN minted
               PROVE  \E k \in DOMAIN results[minted[n].of].proposals :
                        results[minted[n].of].proposals[k] = n
    BY DEF Intent!NothingIsHidden
  <2>1. ~dead
    BY ListIs DEF IntentInv, Posed
  <2>2. Len(results) \in Nat /\ DOMAIN specs = 1..Len(specs)
    BY ListIs DEF IntentInv, Posed
  <2>3. todo = Absent
    BY <2>2 DEF IntentInv, Busy, Here
  <2> QED  BY <2>1, <2>3 DEF IntentInv, Shown
<1> QED  BY <1>1, <1>2

\* One question has one answer in every shape, what is proposed is about a record that was
\* found, and what is stored is told.
THEOREM IntentsStay == ToolkitSpec => []IntentsAreKept
<1> DEFINE Keep == IF job = "intent" THEN IntentInv
                   ELSE results = << >> /\ minted = << >> /\ seen = << >>
<1>1. ASSUME ToolkitInit PROVE Keep
  <2>1. CASE job = "intent" /\ Intent!Init
    <3>1. PICK session \in Sessions, can \in Abilities, store \in Stores :
             Intent!Ask(session, can, store)
      BY <2>1 DEF Intent!Init
    <3> QED  BY <2>1, <3>1, IntentBegins
  <2>2. CASE job # "intent" /\ IdleIntent
    BY <2>2 DEF IdleIntent, Intent!Ask
  <2> QED  BY <1>1, <2>1, <2>2 DEF ToolkitInit
<1>2. ASSUME Keep, [ToolkitNext]_toolkit PROVE Keep'
  <2>1. CASE UNCHANGED intending /\ UNCHANGED job
    <3>1. UNCHANGED <<specs, able, records, results, todo, given, minted, dead, faults, drifts, seen>>
      BY <2>1 DEF intending
    <3>2. ASSUME IntentInv PROVE IntentInv'
      <4>1. Posed'
        BY <3>1, <3>2 DEF IntentInv, Posed, IsList
      <4>2. Current'
        BY <3>1, <3>2 DEF IntentInv, Current, IsRead, After, Intent!Owner
      <4>3. Busy'
        BY <3>1, <3>2 DEF IntentInv, Busy, Here, IsFound, IsList
      <4>4. Aimed'
        BY <3>1, <3>2 DEF IntentInv, Aimed, IsFree, Here
      <4>5. Counted' /\ Shown'
        BY <3>1, <3>2 DEF IntentInv, Counted, Shown, Here
      <4> QED  BY <4>1, <4>2, <4>3, <4>4, <4>5 DEF IntentInv
    <3> QED  BY <1>2, <2>1, <3>1, <3>2
  <2>2. CASE ServeIntents
    <3>1. job = "intent" /\ job' = "intent" /\ Intent!Next
      BY <2>2 DEF ServeIntents
    <3>2. IntentInv
      BY <1>2, <3>1
    <3>3. IntentInv'
      BY <3>1, <3>2, OthersKeep, ReadKeeps, ChangeKeeps, ProposesKeep, EndsKeep DEF Intent!Next
    <3> QED  BY <3>1, <3>3
  <2> QED
    BY <1>2, <2>1, <2>2 DEF ToolkitNext, CallBackend, ResolveWords, KeepManifest, TestShim, toolkit
<1>3. Keep => IntentsAreKept
  <2>1. CASE job = "intent"
    BY <2>1, ShapesHold, ProposalsHold DEF IntentsAreKept, Intent!IntentsAreKept
  <2>2. ASSUME results = << >>, minted = << >> PROVE IntentsAreKept
    <3>1. DOMAIN results = {} /\ DOMAIN minted = {}
      BY <2>2
    <3> QED
      BY <3>1 DEF IntentsAreKept, Intent!IntentsAreKept, Intent!ShapesAgree,
                  Intent!ChangesHitMatches, Intent!NothingIsHidden
  <2> QED  BY <2>1, <2>2
<1> QED  BY <1>1, <1>2, <1>3, PTL DEF ToolkitSpec

\* A sequence is a list.
LEMMA SeqIsList ==
  ASSUME NEW S, NEW s \in Seq(S)
  PROVE  IsList(s)
<1> DEFINE T == {s[i] : i \in DOMAIN s}
<1>1. Len(s) \in Nat /\ DOMAIN s = 1..Len(s) /\ s = [i \in 1..Len(s) |-> s[i]]
  OBVIOUS
<1>2. \A i \in 1..Len(s) : s[i] \in T
  BY <1>1
<1> HIDE DEF T
<1>3. s \in [1..Len(s) -> T]
  BY <1>1, <1>2
<1>4. s \in Seq(T)
  BY <1>1, <1>3, SeqDef
<1> QED  BY <1>4 DEF IsList, T

-----------------------------------------------------------------------------
(* The conformance test: its rows, each at its place.                       *)

Queries(t) == IF t.query = None THEN 0 ELSE 1

\* Every name has its place, and nothing else does.
LEMMA RowsAre ==
  ASSUME NEW t, NEW rows, rows = Trial!Rows(t)
  PROVE  /\ IsList(rows) /\ Queries(t) \in {0, 1}
         /\ Len(rows) = 8 + Queries(t) + (IF t.tier = None THEN 0 ELSE 2)
         /\ rows[1] = "describe" /\ rows[2] = "propose" /\ rows[3] = "unknown"
         /\ rows[4] = "missing" /\ rows[5] = "commit" /\ rows[6] = "replay"
         /\ rows[7] = "status" /\ rows[8] = "phantom"
         /\ t.query # None => rows[9] = "query"
         /\ t.tier # None => rows[9 + Queries(t)] = "reverse" /\ rows[10 + Queries(t)] = "expired"
<1> DEFINE N == {"describe", "propose", "unknown", "missing", "commit", "replay", "status",
                 "phantom", "query", "reverse", "expired"}
           a == <<"describe", "propose", "unknown", "missing", "commit", "replay", "status", "phantom">>
           b == IF t.query = None THEN << >> ELSE <<"query">>
           c == IF t.tier = None THEN << >> ELSE <<"reverse", "expired">>
<1>1. a \in Seq(N) /\ Len(a) = 8
  <2>1. /\ "describe" \in N /\ "propose" \in N /\ "unknown" \in N /\ "missing" \in N
        /\ "commit" \in N /\ "replay" \in N /\ "status" \in N /\ "phantom" \in N
    OBVIOUS
  <2> HIDE DEF N
  <2> QED  BY <2>1
<1>2. b \in Seq(N) /\ Len(b) = Queries(t) /\ (t.query # None => b[1] = "query")
  <2>1. "query" \in N
    OBVIOUS
  <2> HIDE DEF N
  <2>2. <<"query">> \in Seq(N) /\ Len(<<"query">>) = 1 /\ <<"query">>[1] = "query"
    BY <2>1
  <2>3. << >> \in Seq(N) /\ Len(<< >>) = 0
    OBVIOUS
  <2>4. CASE t.query = None
    BY <2>3, <2>4 DEF Queries
  <2>5. CASE t.query # None
    BY <2>2, <2>5 DEF Queries
  <2> QED  BY <2>4, <2>5
<1>3. /\ c \in Seq(N) /\ Len(c) = IF t.tier = None THEN 0 ELSE 2
      /\ t.tier # None => c[1] = "reverse" /\ c[2] = "expired"
  <2>1. "reverse" \in N /\ "expired" \in N
    OBVIOUS
  <2> HIDE DEF N
  <2>2. <<"reverse", "expired">> \in Seq(N) /\ Len(<<"reverse", "expired">>) = 2
        /\ <<"reverse", "expired">>[1] = "reverse" /\ <<"reverse", "expired">>[2] = "expired"
    BY <2>1
  <2>3. << >> \in Seq(N) /\ Len(<< >>) = 0
    OBVIOUS
  <2>4. CASE t.tier = None
    BY <2>3, <2>4
  <2>5. CASE t.tier # None
    BY <2>2, <2>5
  <2> QED  BY <2>4, <2>5
<1>4. rows = a \o b \o c
  BY DEF Trial!Rows
<1>5. /\ a[1] = "describe" /\ a[2] = "propose" /\ a[3] = "unknown" /\ a[4] = "missing"
      /\ a[5] = "commit" /\ a[6] = "replay" /\ a[7] = "status" /\ a[8] = "phantom"
  OBVIOUS
<1>6. Queries(t) \in {0, 1} /\ (t.query # None <=> Queries(t) = 1)
  BY DEF Queries
<1> HIDE DEF a, b, c, N
<1>7. /\ a \o b \in Seq(N) /\ Len(a \o b) = 8 + Queries(t)
      /\ \A i \in 1..Len(a \o b) : (a \o b)[i] = IF i <= 8 THEN a[i] ELSE b[i - 8]
  <2>1. /\ a \o b \in Seq(N) /\ Len(a \o b) = Len(a) + Len(b)
        /\ \A i \in 1..Len(a) + Len(b) : (a \o b)[i] = IF i <= Len(a) THEN a[i] ELSE b[i - Len(a)]
    BY <1>1, <1>2, ConcatProperties, Zenon
  <2> DEFINE ab == a \o b
  <2> HIDE DEF ab
  <2> QED  BY <1>1, <1>2, <2>1 DEF ab
<1> DEFINE ab == a \o b
<1> HIDE DEF ab
<1>8. /\ rows \in Seq(N) /\ Len(rows) = 8 + Queries(t) + (IF t.tier = None THEN 0 ELSE 2)
      /\ \A i \in 1..Len(rows) :
           rows[i] = IF i <= 8 + Queries(t) THEN ab[i] ELSE c[i - (8 + Queries(t))]
  <2>1. ab \in Seq(N) /\ Len(ab) = 8 + Queries(t) /\ rows = ab \o c
    BY <1>4, <1>7 DEF ab
  <2>2. /\ ab \o c \in Seq(N) /\ Len(ab \o c) = Len(ab) + Len(c)
        /\ \A i \in 1..Len(ab) + Len(c) : (ab \o c)[i] = IF i <= Len(ab) THEN ab[i] ELSE c[i - Len(ab)]
    BY <1>3, <2>1, ConcatProperties, Zenon
  <2>3. /\ rows \in Seq(N) /\ Len(rows) = Len(ab) + Len(c)
        /\ \A i \in 1..Len(ab) + Len(c) : rows[i] = IF i <= Len(ab) THEN ab[i] ELSE c[i - Len(ab)]
    BY <2>1, <2>2, Zenon
  <2> QED  BY SMTT(30), <1>3, <2>1, <2>3
<1>9. IsList(rows)
  BY <1>8, SeqIsList
<1>10. \A i \in 1..8 : rows[i] = a[i]
  BY SMTT(30), <1>6, <1>7, <1>8 DEF ab
<1>11. t.query # None => rows[9] = b[1]
  BY <1>6, <1>7, <1>8 DEF ab
<1>12. t.tier # None => rows[9 + Queries(t)] = c[1] /\ rows[10 + Queries(t)] = c[2]
  BY <1>6, <1>8
<1>13. /\ rows[1] = a[1] /\ rows[2] = a[2] /\ rows[3] = a[3] /\ rows[4] = a[4]
       /\ rows[5] = a[5] /\ rows[6] = a[6] /\ rows[7] = a[7] /\ rows[8] = a[8]
  BY <1>10
<1>14. Len(rows) = 8 + Queries(t) + (IF t.tier = None THEN 0 ELSE 2)
  BY <1>8
<1> QED  BY <1>2, <1>3, <1>5, <1>6, <1>9, <1>11, <1>12, <1>13, <1>14

\* Every place has its row.
LEMMA PlaceOf ==
  ASSUME NEW t, NEW k \in DOMAIN Trial!Rows(t), NEW name, Trial!Rows(t)[k] = name
  PROVE  /\ k \in 1..Len(Trial!Rows(t))
         /\ name = "describe" => k = 1
         /\ name = "propose" => k = 2
         /\ name = "unknown" => k = 3
         /\ name = "missing" => k = 4
         /\ name = "commit" => k = 5
         /\ name = "replay" => k = 6
         /\ name = "status" => k = 7
         /\ name = "phantom" => k = 8
         /\ name = "query" => k = 9 /\ t.query # None
         /\ name = "reverse" => k = 9 + Queries(t) /\ t.tier # None
         /\ name = "expired" => k = 10 + Queries(t) /\ t.tier # None
<1> DEFINE rows == Trial!Rows(t)
<1>1. k \in DOMAIN rows /\ rows[k] = name
  OBVIOUS
<1>2. /\ IsList(rows) /\ Queries(t) \in {0, 1}
      /\ Len(rows) = 8 + Queries(t) + (IF t.tier = None THEN 0 ELSE 2)
      /\ rows[1] = "describe" /\ rows[2] = "propose" /\ rows[3] = "unknown"
      /\ rows[4] = "missing" /\ rows[5] = "commit" /\ rows[6] = "replay"
      /\ rows[7] = "status" /\ rows[8] = "phantom"
      /\ t.query # None => rows[9] = "query"
      /\ t.tier # None => rows[9 + Queries(t)] = "reverse" /\ rows[10 + Queries(t)] = "expired"
  BY RowsAre
<1>3. k \in 1..Len(rows)
  BY <1>1, <1>2, ListIs
<1>4. Queries(t) = IF t.query = None THEN 0 ELSE 1
  BY DEF Queries
<1> HIDE DEF rows
<1>5. \/ k = 1 \/ k = 2 \/ k = 3 \/ k = 4 \/ k = 5 \/ k = 6 \/ k = 7 \/ k = 8
      \/ k = 9 /\ t.query # None
      \/ t.tier # None /\ k = 9 + Queries(t)
      \/ t.tier # None /\ k = 10 + Queries(t)
  BY <1>2, <1>3, <1>4
<1> QED  BY <1>1, <1>2, <1>3, <1>5 DEF rows

\* So has the row that is next.
LEMMA PlaceIs ==
  ASSUME NEW name, Trial!At(name)
  PROVE  /\ row \in 1..Len(Trial!Rows(test)) /\ Trial!Rows(test)[row] = name
         /\ name = "describe" => row = 1
         /\ name = "propose" => row = 2
         /\ name = "unknown" => row = 3
         /\ name = "missing" => row = 4
         /\ name = "commit" => row = 5
         /\ name = "replay" => row = 6
         /\ name = "status" => row = 7
         /\ name = "phantom" => row = 8
         /\ name = "query" => row = 9 /\ test.query # None
         /\ name = "reverse" => row = 9 + Queries(test) /\ test.tier # None
         /\ name = "expired" => row = 10 + Queries(test) /\ test.tier # None
BY PlaceOf DEF Trial!At

-----------------------------------------------------------------------------
(* What the rows do.                                                        *)

\* The refusal of the verb and its arguments, and of those without the first.
Code == Trial!Refusal(test.verb, test.args)
Thinned == Trial!Refusal(test.verb, [a \in DOMAIN test.args \ {test.first} |-> test.args[a]])

\* What a shim does not preview.
IsRefused(code) == code # None /\ ~Trial!Overlooked(code)

\* A row is judged.
IsJudged(name, passed) ==
  /\ row' = row + 1
  /\ failed' = (IF passed THEN failed ELSE failed \cup {name})
  /\ writes' = (IF docs' = docs THEN writes ELSE writes + 1)
  /\ UNCHANGED <<test, defect, before, undone>>

\* What a write changes.
Stored == <<docs, ledger, executed, handles>>

\* What is answered, by its kind.
LEMMA BlankIs ==
  /\ Trial!Blank.outcome = "" /\ Trial!Blank.state = "" /\ Trial!Blank.id = 0
  /\ Trial!Blank.token = 0 /\ Trial!Blank.replayed = FALSE
BY DEF Trial!Blank

\* A proposal is stored, or what is asked for is refused.
LEMMA ProposeIs ==
  ASSUME NEW verb, NEW args, Trial!propose(verb, args)
  PROVE  /\ UNCHANGED <<defect, docs, ledger, executed, handles>>
         /\ IF IsRefused(Trial!Refusal(verb, args))
            THEN answer'.outcome = "refusal" /\ answer'.id = 0 /\ UNCHANGED proposals
            ELSE /\ answer'.outcome = "proposal" /\ answer'.id = Len(proposals) + 1
                 /\ proposals' = Append(proposals, [verb |-> verb, args |-> args])
<1>1. CASE IsRefused(Trial!Refusal(verb, args))
  <2>1. Trial!Refuse(Trial!Refusal(verb, args))
    BY <1>1 DEF Trial!propose, IsRefused
  <2> QED  BY <1>1, <2>1 DEF Trial!Refuse, Trial!Say, Trial!Blank, Trial!shim
<1>2. CASE ~IsRefused(Trial!Refusal(verb, args))
  <2>1. Trial!Preview(verb, args)
    BY <1>2 DEF Trial!propose, IsRefused
  <2> QED  BY <1>2, <2>1 DEF Trial!Preview, Trial!Minted, Trial!Say, Trial!Blank
<1> QED  BY <1>1, <1>2

\* The verdict on a row.
LEMMA JudgeIs ==
  ASSUME NEW name, Trial!At(name), NEW passed \in BOOLEAN, Trial!Judge(passed), UNCHANGED defect
  PROVE  IsJudged(name, passed)
BY PlaceIs DEF Trial!Judge, IsJudged

\* A shim is described unless describe is lost.
LEMMA DescribeDoes ==
  ASSUME Trial!Describe
  PROVE  /\ row = 1 /\ IsJudged("describe", defect # "lost")
         /\ UNCHANGED <<proposal, token, proposals>> /\ UNCHANGED Stored
<1>1. /\ Trial!At("describe") /\ Trial!describe /\ Trial!Judge(answer'.data)
      /\ UNCHANGED <<proposal, token>>
  BY DEF Trial!Describe, Trial!Kept
<1>2. answer'.data = (defect # "lost") /\ UNCHANGED <<defect, proposals>> /\ UNCHANGED Stored
  BY <1>1 DEF Trial!describe, Trial!Say, Trial!Blank, Trial!shim, Stored
<1> QED  BY <1>1, <1>2, JudgeIs, PlaceIs

\* The test's own proposal, which has an id.
LEMMA ProposeDoes ==
  ASSUME Trial!Propose
  PROVE  /\ row = 2 /\ IsJudged("propose", ~IsRefused(Code))
         /\ UNCHANGED token /\ UNCHANGED Stored
         /\ IF IsRefused(Code) THEN proposal' = 0 /\ UNCHANGED proposals
            ELSE /\ proposal' = Len(proposals) + 1
                 /\ proposals' = Append(proposals, [verb |-> test.verb, args |-> test.args])
<1>1. /\ Trial!At("propose") /\ Trial!propose(test.verb, test.args)
      /\ Trial!Judge(answer'.outcome = "proposal") /\ UNCHANGED token /\ proposal' = answer'.id
  BY DEF Trial!Propose
<1>2. /\ UNCHANGED <<defect, docs, ledger, executed, handles>>
      /\ IF IsRefused(Code)
         THEN answer'.outcome = "refusal" /\ answer'.id = 0 /\ UNCHANGED proposals
         ELSE /\ answer'.outcome = "proposal" /\ answer'.id = Len(proposals) + 1
              /\ proposals' = Append(proposals, [verb |-> test.verb, args |-> test.args])
  BY <1>1, ProposeIs DEF Code
<1>3. (answer'.outcome = "proposal") = ~IsRefused(Code)
  BY <1>2
<1>4. IsJudged("propose", ~IsRefused(Code))
  BY <1>1, <1>2, <1>3, JudgeIs
<1> QED  BY <1>1, <1>2, <1>4, PlaceIs DEF Stored

\* What is not previewed is not stored.
Proposes == UNCHANGED proposals \/ \E p : proposals' = Append(proposals, p)

\* A verb that is nowhere is refused, except by a shim that does not look.
LEMMA UnknownDoes ==
  ASSUME Trial!Unknown, None \notin {"UNKNOWN_VERB", "INVALID_ARGS"}
  PROVE  /\ row = 3 /\ IsJudged("unknown", defect # "free")
         /\ UNCHANGED <<proposal, token>> /\ UNCHANGED Stored /\ Proposes
<1>1. /\ Trial!At("unknown") /\ Trial!propose("no_such_verb", << >>)
      /\ Trial!Judge(answer'.outcome = "refusal") /\ UNCHANGED <<proposal, token>>
  BY DEF Trial!Unknown, Trial!Kept
<1>2. Trial!Refusal("no_such_verb", << >>) = "UNKNOWN_VERB"
  BY DEF Trial!Refusal, Trial!Resources, Trial!WRITE_VERBS
<1>3. IsRefused(Trial!Refusal("no_such_verb", << >>)) <=> defect # "free"
  BY <1>2 DEF IsRefused, Trial!Overlooked
<1>4. /\ UNCHANGED <<defect, docs, ledger, executed, handles>> /\ Proposes
      /\ answer'.outcome = IF defect # "free" THEN "refusal" ELSE "proposal"
  BY <1>1, <1>3, ProposeIs DEF Proposes
<1>5. IsJudged("unknown", defect # "free")
  <2>1. (answer'.outcome = "refusal") = (defect # "free")
    BY <1>4
  <2> QED  BY <1>1, <1>4, <2>1, JudgeIs
<1> QED  BY <1>1, <1>4, <1>5, PlaceIs DEF Stored

\* Neither is a missing argument overlooked.
LEMMA OmittedDoes ==
  ASSUME Trial!Omitted
  PROVE  /\ row = 4 /\ IsJudged("missing", IsRefused(Thinned) /\ test.first # None)
         /\ UNCHANGED <<proposal, token>> /\ UNCHANGED Stored /\ Proposes
<1>1. /\ Trial!At("missing")
      /\ Trial!propose(test.verb, [a \in DOMAIN test.args \ {test.first} |-> test.args[a]])
      /\ Trial!Judge(answer'.outcome = "refusal" /\ test.first # None)
      /\ UNCHANGED <<proposal, token>>
  BY DEF Trial!Omitted, Trial!Kept
<1>2. /\ UNCHANGED <<defect, docs, ledger, executed, handles>> /\ Proposes
      /\ answer'.outcome = IF IsRefused(Thinned) THEN "refusal" ELSE "proposal"
  BY <1>1, ProposeIs DEF Proposes, Thinned
<1>3. IsJudged("missing", IsRefused(Thinned) /\ test.first # None)
  <2>1. (answer'.outcome = "refusal" /\ test.first # None) = (IsRefused(Thinned) /\ test.first # None)
    BY <1>2
  <2> QED  BY <1>1, <1>2, <2>1, JudgeIs
<1> QED  BY <1>1, <1>2, <1>3, PlaceIs DEF Stored

\* A record is named that is not there.
IsAstray(p) ==
  /\ p.verb \in Trial!Resources \ {"resource.create"}
  /\ Trial!_resolve_id(p.args["target"], p.args["id"]) = None

\* What has a handle when it is written.
IsMapped(verb) == verb \in Trial!Resources \cup DOMAIN Trial!COMPENSATIONS

\* The answer of a write is kept.
IsWritten(key, id, verb) ==
  /\ answer'.state = "executed" /\ answer'.replayed = FALSE
  /\ executed' = IF defect = "blind" THEN executed ELSE executed \cup {id}
  /\ IF defect = "again" THEN UNCHANGED ledger ELSE DOMAIN ledger' = DOMAIN ledger \cup {key}
  /\ IF IsMapped(verb) THEN answer'.token = Len(handles) + 1 /\ \E h : handles' = Append(handles, h)
     ELSE answer'.token = 0 /\ UNCHANGED handles

\* What is recorded of a write.
LEMMA RecordedIs ==
  ASSUME NEW key, NEW id, NEW number, Trial!Recorded(key, id, number)
  PROVE  /\ answer'.state = "executed" /\ answer'.replayed = FALSE /\ answer'.token = number
         /\ executed' = IF defect = "blind" THEN executed ELSE executed \cup {id}
         /\ IF defect = "again" THEN UNCHANGED ledger ELSE DOMAIN ledger' = DOMAIN ledger \cup {key}
<1>1. answer' = [Trial!Blank EXCEPT !.id = id, !.state = "executed", !.token = number]
  BY DEF Trial!Recorded, Trial!Say
<1>2. answer'.state = "executed" /\ answer'.replayed = FALSE /\ answer'.token = number
  BY <1>1 DEF Trial!Blank
<1>3. IF defect = "again" THEN UNCHANGED ledger ELSE DOMAIN ledger' = DOMAIN ledger \cup {key}
  <2>1. defect # "again" =>
          ledger' = Trial!Over([k \in {key} |-> [id |-> id, token |-> number]], ledger)
    BY DEF Trial!Recorded
  <2>2. defect = "again" => UNCHANGED ledger
    BY DEF Trial!Recorded
  <2> QED  BY <2>1, <2>2 DEF Trial!Over
<1> QED  BY <1>2, <1>3 DEF Trial!Recorded

\* A generic verb fails if it names nobody, and writes otherwise.
LEMMA ResourceIs ==
  ASSUME NEW key, NEW id, NEW verb \in Trial!Resources, NEW args,
         Trial!CommitResource(key, id, verb, args)
  PROVE  /\ UNCHANGED <<defect, proposals>>
         /\ IF verb # "resource.create" /\ Trial!_resolve_id(args["target"], args["id"]) = None
            THEN /\ UNCHANGED Stored /\ answer'.state = "failed_terminal" /\ answer'.replayed = FALSE
                 /\ answer'.token = 0
            ELSE IsWritten(key, id, verb)
<1> DEFINE name == Trial!_resolve_id(args["target"], args["id"])
<1>1. CASE verb # "resource.create" /\ name = None
  <2>1. Trial!Fail(id)
    BY <1>1 DEF Trial!CommitResource
  <2> QED  BY <1>1, <2>1 DEF Trial!Fail, Trial!Say, Trial!Blank, Trial!shim, Stored
<1>2. CASE verb = "resource.create" \/ name # None
  <2>1. /\ Trial!Recorded(key, id, Len(handles) + 1) /\ UNCHANGED <<defect, proposals>>
        /\ \E h : handles' = Append(handles, h)
    <3>1. CASE verb = "resource.create"
      BY <3>1 DEF Trial!CommitResource
    <3>2. CASE verb = "resource.update" /\ name # None
      BY <3>2 DEF Trial!CommitResource
    <3>3. CASE verb = "resource.delete" /\ name # None
      BY <3>3 DEF Trial!CommitResource
    <3> QED  BY <1>2, <3>1, <3>2, <3>3 DEF Trial!Resources
  <2> QED  BY <1>2, <2>1, RecordedIs DEF IsWritten, IsMapped
<1> QED  BY <1>1, <1>2

\* A curated verb always writes.
LEMMA CuratedIs ==
  ASSUME NEW key, NEW id, NEW verb, verb \notin Trial!Resources, NEW args,
         Trial!CommitCurated(key, id, verb, args)
  PROVE  UNCHANGED <<defect, proposals>> /\ IsWritten(key, id, verb)
<1>1. /\ Trial!Recorded(key, id, IF verb \in DOMAIN Trial!COMPENSATIONS THEN Len(handles) + 1 ELSE 0)
      /\ UNCHANGED <<defect, proposals>>
      /\ IF verb \in DOMAIN Trial!COMPENSATIONS THEN \E h : handles' = Append(handles, h)
         ELSE handles' = handles
  BY DEF Trial!CommitCurated
<1> QED  BY <1>1, RecordedIs DEF IsWritten, IsMapped

\* A COMMIT is a replay, is of no proposal, names nobody, or is written.
LEMMA CommitIs ==
  ASSUME NEW id, NEW key, Trial!commit(id, key)
  PROVE  /\ UNCHANGED <<defect, proposals>>
         /\ key \in DOMAIN ledger => answer'.state = "executed" /\ answer'.replayed /\ UNCHANGED Stored
         /\ key \notin DOMAIN ledger => answer'.replayed = FALSE
         /\ key \notin DOMAIN ledger /\ id \notin DOMAIN proposals =>
              /\ UNCHANGED Stored /\ answer'.token = 0 /\ answer'.outcome \in {"", "refusal"}
              /\ answer'.state = IF defect = "phantom" THEN "executed" ELSE ""
         /\ key \notin DOMAIN ledger /\ id \in DOMAIN proposals =>
              IF IsAstray(proposals[id])
              THEN UNCHANGED Stored /\ answer'.state = "failed_terminal" /\ answer'.token = 0
              ELSE IsWritten(key, id, proposals[id].verb)
<1>1. CASE key \in DOMAIN ledger
  BY <1>1 DEF Trial!commit, Trial!Say, Trial!Blank, Trial!shim, Stored
<1>2. CASE key \notin DOMAIN ledger /\ id \notin DOMAIN proposals
  <2>1. CASE defect = "phantom"
    BY <1>2, <2>1 DEF Trial!commit, Trial!Say, Trial!Blank, Trial!shim, Stored
  <2>2. CASE defect # "phantom"
    <3>1. Trial!Refuse("EXPIRED")
      BY <1>2, <2>2 DEF Trial!commit
    <3> QED  BY <1>2, <2>2, <3>1 DEF Trial!Refuse, Trial!Say, Trial!Blank, Trial!shim, Stored
  <2> QED  BY <2>1, <2>2
<1>3. CASE key \notin DOMAIN ledger /\ id \in DOMAIN proposals
  <2> DEFINE p == proposals[id]
  <2>1. CASE p.verb \in Trial!Resources
    <3>1. Trial!CommitResource(key, id, p.verb, p.args)
      BY <1>3, <2>1 DEF Trial!commit
    <3> HIDE DEF p
    <3>2. /\ UNCHANGED <<defect, proposals>>
          /\ IF p.verb # "resource.create" /\ Trial!_resolve_id(p.args["target"], p.args["id"]) = None
             THEN /\ UNCHANGED Stored /\ answer'.state = "failed_terminal" /\ answer'.replayed = FALSE
                  /\ answer'.token = 0
             ELSE IsWritten(key, id, p.verb)
      BY <2>1, <3>1, ResourceIs
    <3>3. IsAstray(p) <=> p.verb # "resource.create"
           /\ Trial!_resolve_id(p.args["target"], p.args["id"]) = None
      BY <2>1 DEF IsAstray
    <3>4. IsWritten(key, id, p.verb) => answer'.replayed = FALSE
      BY DEF IsWritten
    <3> QED  BY <1>3, <3>2, <3>3, <3>4 DEF p
  <2>2. CASE p.verb \notin Trial!Resources
    <3>1. Trial!CommitCurated(key, id, p.verb, p.args)
      BY <1>3, <2>2 DEF Trial!commit
    <3> HIDE DEF p
    <3>2. UNCHANGED <<defect, proposals>> /\ IsWritten(key, id, p.verb) /\ ~IsAstray(p)
      BY <2>2, <3>1, CuratedIs DEF IsAstray
    <3>3. IsWritten(key, id, p.verb) => answer'.replayed = FALSE
      BY DEF IsWritten
    <3> QED  BY <1>3, <3>2, <3>3 DEF p
  <2> QED  BY <2>1, <2>2
<1> QED  BY <1>1, <1>2, <1>3

\* The rows after the proposal call the shim only if there is one.
LEMMA CommitDoes ==
  ASSUME Trial!Commit
  PROVE  /\ row = 5 /\ UNCHANGED <<proposal, proposals>> /\ token' = answer'.token
         /\ IsJudged("commit", answer'.state = "executed")
         /\ proposal = 0 => UNCHANGED Stored /\ answer'.state = "" /\ answer'.token = 0
         /\ proposal # 0 => Trial!commit(proposal, Trial!Key)
<1>1. /\ Trial!At("commit") /\ Trial!Called(Trial!commit(proposal, Trial!Key))
      /\ token' = answer'.token /\ UNCHANGED proposal /\ Trial!Judge(answer'.state = "executed")
  BY DEF Trial!Commit
<1>2. proposal = 0 => /\ UNCHANGED Stored /\ answer'.state = "" /\ answer'.token = 0
                      /\ UNCHANGED <<defect, proposals>>
  <2>1. proposal = 0 => Trial!Skip
    BY <1>1 DEF Trial!Called
  <2> QED  BY <2>1, BlankIs DEF Trial!Skip, Trial!shim, Stored
<1>3. proposal # 0 => Trial!commit(proposal, Trial!Key)
  BY <1>1 DEF Trial!Called
<1>4. UNCHANGED <<defect, proposals>>
  BY <1>2, <1>3, CommitIs
<1>5. IsJudged("commit", answer'.state = "executed")
  BY <1>1, <1>4, JudgeIs
<1> QED  BY <1>1, <1>2, <1>3, <1>4, <1>5, PlaceIs

\* A second COMMIT is a replay of what is in the ledger.
LEMMA ReplayDoes ==
  ASSUME Trial!Replay
  PROVE  /\ row = 6 /\ UNCHANGED <<proposal, proposals, token>>
         /\ IsJudged("replay", proposal # 0 /\ Trial!Key \in DOMAIN ledger)
         /\ proposal = 0 => UNCHANGED Stored
         /\ proposal # 0 => Trial!commit(proposal, Trial!Key)
<1>1. /\ Trial!At("replay") /\ Trial!Called(Trial!commit(proposal, Trial!Key))
      /\ UNCHANGED <<proposal, token>> /\ Trial!Judge(answer'.replayed)
  BY DEF Trial!Replay, Trial!Kept
<1>2. proposal = 0 => UNCHANGED Stored /\ answer'.replayed = FALSE /\ UNCHANGED <<defect, proposals>>
  <2>1. proposal = 0 => Trial!Skip
    BY <1>1 DEF Trial!Called
  <2> QED  BY <2>1, BlankIs DEF Trial!Skip, Trial!shim, Stored
<1>3. proposal # 0 => Trial!commit(proposal, Trial!Key)
  BY <1>1 DEF Trial!Called
<1>4. /\ UNCHANGED <<defect, proposals>>
      /\ answer'.replayed = (proposal # 0 /\ Trial!Key \in DOMAIN ledger)
  <2>1. CASE proposal = 0
    BY <1>2, <2>1
  <2>2. CASE proposal # 0
    BY <1>3, <2>2, CommitIs
  <2> QED  BY <2>1, <2>2
<1>5. IsJudged("replay", proposal # 0 /\ Trial!Key \in DOMAIN ledger)
  BY <1>1, <1>4, JudgeIs
<1> QED  BY <1>1, <1>2, <1>3, <1>4, <1>5, PlaceIs

\* The status of what was executed says so.
LEMMA StatusDoes ==
  ASSUME Trial!Status
  PROVE  /\ row = 7 /\ UNCHANGED <<proposal, proposals, token>> /\ UNCHANGED Stored
         /\ IsJudged("status", proposal # 0 /\ proposal \in executed)
<1>1. /\ Trial!At("status") /\ Trial!Called(Trial!status(proposal))
      /\ UNCHANGED <<proposal, token>> /\ Trial!Judge(answer'.state = "executed")
  BY DEF Trial!Status, Trial!Kept
<1>2. /\ UNCHANGED <<defect, proposals>> /\ UNCHANGED Stored
      /\ (answer'.state = "executed") = (proposal # 0 /\ proposal \in executed)
  <2>1. CASE proposal = 0
    <3>1. Trial!Skip
      BY <1>1, <2>1 DEF Trial!Called
    <3> QED  BY <2>1, <3>1, BlankIs DEF Trial!Skip, Trial!shim, Stored
  <2>2. CASE proposal # 0
    <3>1. Trial!status(proposal)
      BY <1>1, <2>2 DEF Trial!Called
    <3> QED  BY <2>2, <3>1 DEF Trial!status, Trial!Say, Trial!Blank, Trial!shim, Stored
  <2> QED  BY <2>1, <2>2
<1>3. IsJudged("status", proposal # 0 /\ proposal \in executed)
  BY <1>1, <1>2, JudgeIs
<1> QED  BY <1>1, <1>2, <1>3, PlaceIs

\* What was never proposed is not executed.
LEMMA PhantomDoes ==
  ASSUME Trial!Phantom, 0 \notin DOMAIN proposals, <<"phantom", 0>> \notin DOMAIN ledger
  PROVE  /\ row = 8 /\ UNCHANGED <<proposal, proposals, token>> /\ UNCHANGED Stored
         /\ IsJudged("phantom", defect # "phantom")
<1>1. /\ Trial!At("phantom") /\ Trial!commit(0, <<"phantom", 0>>) /\ UNCHANGED <<proposal, token>>
      /\ Trial!Judge(answer'.state # "executed" /\ answer'.outcome # "proposal")
  BY DEF Trial!Phantom, Trial!Kept
<1>2. /\ UNCHANGED <<defect, proposals>> /\ UNCHANGED Stored
      /\ (answer'.state # "executed" /\ answer'.outcome # "proposal") = (defect # "phantom")
  BY <1>1, CommitIs
<1>3. IsJudged("phantom", defect # "phantom")
  BY <1>1, <1>2, JudgeIs
<1> QED  BY <1>1, <1>2, <1>3, PlaceIs

\* A query that the shim answers.
IsAsked == test.query = "list_clients"
          \/ (test.query = "resource.read" /\ test.target \in Trial!Declared)

\* No collection is without a name.
LEMMA DeclaredIs == "" \notin Trial!Declared
<1> DEFINE Of(v) == Trial!WRITE_VERBS[v].collection
<1>1. /\ Of("create_coupon") = "coupons" /\ Of("create_product") = "products"
      /\ Of("delete_product") = "products" /\ Of("process_refund") = "refunds"
      /\ Of("record_fulfillment") = "fulfillments" /\ Of("record_payment") = "payments"
      /\ Of("send_message") = "messages" /\ Of("update_product") = "products"
      /\ Of("update_product_quantity") = "products" /\ Of("create_client") = "clients"
      /\ Of("create_invoice") = "invoices" /\ Of("create_payment_link") = "payment_links"
      /\ Of("draft_proposal") = "proposals" /\ Of("send_followup") = "followups"
      /\ Of("send_proposal") = "proposals"
  BY DEF Trial!WRITE_VERBS, Trial!Verb
<1>2. DOMAIN Trial!WRITE_VERBS = {"create_coupon", "create_product", "delete_product", "process_refund",
         "record_fulfillment", "record_payment", "send_message", "update_product",
         "update_product_quantity", "create_client", "create_invoice", "create_payment_link",
         "draft_proposal", "send_followup", "send_proposal"}
  BY DEF Trial!WRITE_VERBS
<1> HIDE DEF Of
<1>3. \A v \in DOMAIN Trial!WRITE_VERBS : Of(v) # ""
  BY <1>1, <1>2
<1> QED  BY <1>3 DEF Of, Trial!Declared

\* A query is answered, or it is an error.
LEMMA QueryDoes ==
  ASSUME Trial!Query, None \notin Trial!Declared
  PROVE  /\ row = 9 /\ test.query # None /\ UNCHANGED <<proposal, proposals, token>>
         /\ UNCHANGED Stored /\ IsJudged("query", IsAsked)
<1> DEFINE args == IF test.target = None THEN << >> ELSE [target |-> test.target]
<1>1. /\ Trial!At("query") /\ Trial!query(test.query, args) /\ UNCHANGED <<proposal, token>>
      /\ Trial!Judge(answer'.data)
  BY DEF Trial!Query, Trial!Kept
<1>2. (Trial!Given(args, "target") /\ args["target"] \in Trial!Declared)
       <=> test.target \in Trial!Declared
  <2>1. CASE test.target = None
    BY <2>1 DEF Trial!Given
  <2>2. CASE test.target # None
    BY <2>2, DeclaredIs DEF Trial!Given
  <2> QED  BY <2>1, <2>2
<1> HIDE DEF args
<1>3. UNCHANGED <<defect, proposals>> /\ UNCHANGED Stored
  BY <1>1 DEF Trial!query, Trial!shim, Stored
<1>4. answer'.data = IsAsked
  BY <1>1, <1>2 DEF Trial!query, Trial!Say, Trial!Blank, IsAsked
<1>5. IsJudged("query", IsAsked)
  <2>1. IsAsked \in BOOLEAN
    BY DEF IsAsked
  <2> QED  BY <1>1, <1>3, <1>4, <2>1, JudgeIs
<1> QED  BY <1>1, <1>3, <1>5, PlaceIs

\* A reversal is previewed, if there is a handle.
LEMMA ReverseDoes ==
  ASSUME Trial!Reverse
  PROVE  /\ row = 9 + Queries(test) /\ test.tier # None /\ UNCHANGED <<proposal, token>>
         /\ UNCHANGED Stored
         /\ IsJudged("reverse", IF token \notin DOMAIN handles THEN test.tier = "IRREVERSIBLE"
                                ELSE defect # "rash" /\ test.tier # "IRREVERSIBLE")
         /\ IF token \notin DOMAIN handles \/ defect = "rash" THEN UNCHANGED proposals
            ELSE proposals' = Append(proposals, [verb |-> handles[token].verb, args |-> handles[token].args])
<1>1. /\ Trial!At("reverse") /\ Trial!rollback(token) /\ UNCHANGED <<proposal, token>>
      /\ Trial!Judge(Trial!Honest(test.tier, answer'))
  BY DEF Trial!Reverse, Trial!Kept
<1> DEFINE passed == IF token \notin DOMAIN handles THEN test.tier = "IRREVERSIBLE"
                     ELSE defect # "rash" /\ test.tier # "IRREVERSIBLE"
<1>2. /\ UNCHANGED defect /\ UNCHANGED Stored
      /\ IF token \notin DOMAIN handles \/ defect = "rash" THEN UNCHANGED proposals
         ELSE proposals' = Append(proposals, [verb |-> handles[token].verb, args |-> handles[token].args])
      /\ IF token \notin DOMAIN handles
         THEN answer' = [Trial!Blank EXCEPT !.outcome = "refusal", !.code = "COMPENSATION_EXPIRED"]
         ELSE IF defect = "rash" THEN answer' = [Trial!Blank EXCEPT !.state = "executed"]
         ELSE answer' = [Trial!Blank EXCEPT !.outcome = "proposal", !.id = Len(proposals) + 1]
  <2>1. CASE token \notin DOMAIN handles
    <3>1. Trial!Refuse("COMPENSATION_EXPIRED")
      BY <1>1, <2>1 DEF Trial!rollback
    <3> QED  BY <2>1, <3>1 DEF Trial!Refuse, Trial!Say, Trial!shim, Stored
  <2>2. CASE token \in DOMAIN handles /\ defect = "rash"
    BY <1>1, <2>2 DEF Trial!rollback, Trial!Say, Trial!shim, Stored
  <2>3. CASE token \in DOMAIN handles /\ defect # "rash"
    <3>1. Trial!Preview(handles[token].verb, handles[token].args)
      BY <1>1, <2>3 DEF Trial!rollback
    <3> QED  BY <2>3, <3>1 DEF Trial!Preview, Trial!Minted, Trial!Say, Stored
  <2> QED  BY <2>1, <2>2, <2>3
<1>3. Trial!Honest(test.tier, answer') = passed
  BY <1>2 DEF Trial!Honest, Trial!Blank
<1>4. IsJudged("reverse", passed)
  BY <1>1, <1>2, <1>3, JudgeIs
<1> QED  BY <1>1, <1>2, <1>4, PlaceIs

\* Behind the last handle there is none.
LEMMA ExpiredDoes ==
  ASSUME Trial!Expired, IsList(handles)
  PROVE  /\ row = 10 + Queries(test) /\ test.tier # None /\ UNCHANGED <<proposal, proposals, token>>
         /\ UNCHANGED Stored /\ IsJudged("expired", TRUE)
<1>1. /\ Trial!At("expired") /\ Trial!rollback(Len(handles) + 1) /\ UNCHANGED <<proposal, token>>
      /\ Trial!Judge(answer'.outcome = "refusal")
  BY DEF Trial!Expired, Trial!Kept
<1>2. Len(handles) + 1 \notin DOMAIN handles
  BY ListIs
<1>3. Trial!Refuse("COMPENSATION_EXPIRED")
  BY <1>1, <1>2 DEF Trial!rollback
<1>4. /\ UNCHANGED <<defect, proposals>> /\ UNCHANGED Stored
      /\ (answer'.outcome = "refusal") = TRUE
  BY <1>3 DEF Trial!Refuse, Trial!Say, Trial!Blank, Trial!shim, Stored
<1>5. IsJudged("expired", TRUE)
  BY <1>1, <1>4, JudgeIs
<1> QED  BY <1>1, <1>4, <1>5, PlaceIs

-----------------------------------------------------------------------------
(* Where a test stands: nothing is written before its COMMIT, there is one  *)
(* proposal to call, and what the owner commits comes after the rows.       *)

\* Nothing is written.
Untouched ==
  docs = before /\ DOMAIN ledger = {} /\ handles = << >> /\ executed = {} /\ token = 0 /\ writes = 0

\* The one proposal, unless the shim has refused it.
Previewed ==
  IF IsRefused(Code) THEN proposal = 0 /\ "propose" \in failed
  ELSE /\ proposal = 1 /\ 1 \in DOMAIN proposals
       /\ proposals[1] = [verb |-> test.verb, args |-> test.args]

\* How far the test has come.
TrialPosed ==
  /\ defect \in {"none", "free", "thin", "again", "phantom", "blind", "rash", "lost"}
  /\ before \in Stocks
  /\ row \in 1..(Len(Trial!Rows(test)) + 1)
  /\ IsList(proposals) /\ IsList(handles)
  /\ token \in {0} \cup DOMAIN handles
  /\ undone \in BOOLEAN /\ (undone => Trial!Finished /\ defect = "none")
  /\ ~undone => DOMAIN ledger \subseteq {Trial!Key}
  /\ row <= 2 => proposals = << >>
  /\ row > 2 => Previewed
  /\ row <= 5 => Untouched

\* How many rows a test has.
LEMMA LenIsNat ==
  ASSUME NEW t
  PROVE  /\ Len(Trial!Rows(t)) \in Nat /\ Len(Trial!Rows(t)) >= 8 + Queries(t)
         /\ Queries(t) \in {0, 1} /\ DOMAIN Trial!Rows(t) = 1..Len(Trial!Rows(t))
         /\ t.tier # None => Len(Trial!Rows(t)) = 10 + Queries(t)
<1> DEFINE rows == Trial!Rows(t)
<1>1. /\ IsList(rows) /\ Queries(t) \in {0, 1}
      /\ Len(rows) = 8 + Queries(t) + (IF t.tier = None THEN 0 ELSE 2)
  BY RowsAre
<1> HIDE DEF rows
<1> QED  BY <1>1, ListIs DEF rows

\* A list that grows at its end is a list, and keeps what it has.
LEMMA ProposesIs ==
  ASSUME IsList(proposals), Proposes
  PROVE  /\ IsList(proposals')
         /\ \A i \in DOMAIN proposals : i \in DOMAIN proposals' /\ proposals'[i] = proposals[i]
<1>1. ASSUME NEW p, proposals' = Append(proposals, p)
      PROVE  IsAdded(proposals', proposals, p)
  BY <1>1, AddedIs
<1> QED  BY <1>1, ListIs DEF Proposes, IsAdded

\* The proposal of a test stays what it is.
LEMMA PreviewedStays ==
  ASSUME Previewed, IsList(proposals), Proposes, NEW name, NEW passed, IsJudged(name, passed),
         UNCHANGED proposal
  PROVE  Previewed'
<1>1. Code' = Code /\ (IsRefused(Code)' <=> IsRefused(Code)) /\ failed \subseteq failed'
  BY DEF IsJudged, Code, IsRefused, Trial!Overlooked
<1> HIDE DEF Code
<1> QED  BY <1>1, ProposesIs DEF Previewed, IsJudged

\* A row that is judged, and what else it has to leave as it is.
LEMMA RowKeeps ==
  ASSUME TrialPosed, NEW name, NEW passed, IsJudged(name, passed), row \in 1..Len(Trial!Rows(test)),
         Proposes, IsList(handles'), token' \in {0} \cup DOMAIN handles',
         DOMAIN ledger' \subseteq {Trial!Key}', row # 2 => UNCHANGED proposal,
         row = 1 => UNCHANGED proposals, row = 2 => Previewed',
         row < 5 => UNCHANGED Stored /\ UNCHANGED token
  PROVE  TrialPosed' /\ ~undone /\ UNCHANGED defect
<1> DEFINE n == Len(Trial!Rows(test))
<1>1. n \in Nat /\ n' = n
  BY LenIsNat DEF IsJudged
<1>2. ~undone /\ ~undone'
  BY <1>1 DEF TrialPosed, Trial!Finished, IsJudged
<1>3. row' = row + 1 /\ row' \in 1..(n + 1)
  BY <1>1 DEF IsJudged
<1>4. row' > 2 => Previewed'
  BY <1>3, PreviewedStays DEF TrialPosed
<1>5. row' <= 5 => Untouched'
  BY <1>3 DEF TrialPosed, Untouched, Stored, IsJudged
<1>6. row' <= 2 => proposals' = << >>
  BY <1>3 DEF TrialPosed
<1>7. IsList(proposals')
  BY ProposesIs DEF TrialPosed
<1>8. /\ defect' \in {"none", "free", "thin", "again", "phantom", "blind", "rash", "lost"}
      /\ before' \in Stocks /\ undone' \in BOOLEAN
  BY DEF TrialPosed, IsJudged
<1> HIDE DEF n
<1>9. row' \in 1..(Len(Trial!Rows(test')) + 1)
  BY <1>1, <1>3 DEF n
<1>10. UNCHANGED defect
  BY DEF IsJudged
<1> QED  BY <1>2, <1>4, <1>5, <1>6, <1>7, <1>8, <1>9, <1>10 DEF TrialPosed

\* Handles are kept, and the one that is answered is there.
LEMMA CallKeeps ==
  ASSUME TrialPosed, ~undone, proposal = 0 => UNCHANGED Stored,
         proposal # 0 => Trial!commit(proposal, Trial!Key)
  PROVE  /\ IsList(handles') /\ DOMAIN handles \subseteq DOMAIN handles'
         /\ DOMAIN ledger' \subseteq {Trial!Key}
         /\ proposal # 0 /\ Trial!Key \notin DOMAIN ledger => answer'.token \in {0} \cup DOMAIN handles'
<1>1. IsList(handles) /\ DOMAIN ledger \subseteq {Trial!Key}
  BY DEF TrialPosed
<1>2. CASE UNCHANGED Stored
  <2>1. CASE proposal # 0 /\ Trial!Key \notin DOMAIN ledger
    <3>1. answer'.token = 0 \/ IsWritten(Trial!Key, proposal, proposals[proposal].verb)
      BY <2>1, CommitIs
    <3>2. handles # Append(handles, 0) /\ \A h : handles # Append(handles, h)
      <4>1. ASSUME NEW h
            PROVE  handles # Append(handles, h)
        BY <1>1, AddedIs, ListIs DEF IsAdded
      <4> QED  BY <4>1
    <3> QED  BY <1>1, <1>2, <3>1, <3>2 DEF IsWritten, Stored
  <2>2. CASE ~(proposal # 0 /\ Trial!Key \notin DOMAIN ledger)
    BY <1>1, <1>2, <2>2 DEF Stored
  <2> QED  BY <1>1, <1>2, <2>1, <2>2 DEF Stored
<1>3. CASE proposal # 0 /\ IsWritten(Trial!Key, proposal, proposals[proposal].verb)
  <2>1. CASE UNCHANGED handles /\ answer'.token = 0
    BY <1>1, <1>3, <2>1 DEF IsWritten
  <2>2. ASSUME NEW h, handles' = Append(handles, h), answer'.token = Len(handles) + 1
        PROVE  /\ IsList(handles') /\ DOMAIN handles \subseteq DOMAIN handles'
               /\ answer'.token \in DOMAIN handles'
    BY <1>1, <2>2, AddedIs, ListIs DEF IsAdded
  <2>3. DOMAIN ledger' \subseteq {Trial!Key}
    BY <1>1, <1>3 DEF IsWritten
  <2> QED  BY <1>3, <2>1, <2>2, <2>3 DEF IsWritten
<1>4. proposal # 0 /\ Trial!commit(proposal, Trial!Key)
        => UNCHANGED Stored \/ IsWritten(Trial!Key, proposal, proposals[proposal].verb)
  BY CommitIs
<1> QED  BY <1>2, <1>3, <1>4

\* The rows that do not write.
LEMMA PosedReads ==
  ASSUME TrialPosed, NEW name, NEW passed, IsJudged(name, passed), row \in 1..Len(Trial!Rows(test)),
         Proposes, UNCHANGED <<proposal, token>>, UNCHANGED Stored, row # 2,
         row = 1 => UNCHANGED proposals
  PROVE  TrialPosed' /\ ~undone /\ UNCHANGED defect
<1>1. ~undone
  BY LenIsNat DEF TrialPosed, Trial!Finished
<1>2. Trial!Key' = Trial!Key
  BY DEF Trial!Key
<1>3. IsList(handles') /\ token' \in {0} \cup DOMAIN handles' /\ DOMAIN ledger' \subseteq {Trial!Key}'
  BY <1>1, <1>2 DEF TrialPosed, Stored
<1> QED  BY <1>3, RowKeeps

\* Every row leaves the test where it should stand.
LEMMA PosedKeeps ==
  ASSUME TrialPosed, Trial!Next, ~Trial!Undo, Trial!ConstantsAreSound
  PROVE  TrialPosed' /\ ~undone /\ UNCHANGED defect
<1>1. /\ None \notin Trial!Declared \cup {"UNKNOWN_VERB", "INVALID_ARGS"}
      /\ IsList(handles) /\ IsList(proposals) /\ row \in Nat
  <2>1. None \notin Trial!Declared \cup {"UNKNOWN_VERB", "INVALID_ARGS"}
    BY DEF Trial!ConstantsAreSound
  <2>2. Len(Trial!Rows(test)) \in Nat
    BY LenIsNat
  <2> QED  BY <2>1, <2>2 DEF TrialPosed
<1>2. ASSUME NEW name, Trial!At(name)
      PROVE  row \in 1..Len(Trial!Rows(test))
  BY <1>2, PlaceIs
<1>3. CASE Trial!Describe
  <2>1. Trial!At("describe")
    BY <1>3 DEF Trial!Describe
  <2> QED  BY <1>2, <1>3, <2>1, DescribeDoes, PosedReads DEF Proposes
<1>4. CASE Trial!Propose
  <2>1. Trial!At("propose")
    BY <1>4 DEF Trial!Propose
  <2>2. row = 2 /\ IsJudged("propose", ~IsRefused(Code)) /\ UNCHANGED token /\ UNCHANGED Stored
    BY <1>4, ProposeDoes
  <2>3. Proposes /\ Previewed'
    <3>1. IsRefused(Code)' <=> IsRefused(Code)
      BY <2>2 DEF IsJudged, Code, IsRefused, Trial!Overlooked
    <3>2. proposals = << >> /\ Len(proposals) = 0
      BY <2>2, NoneIsList DEF TrialPosed
    <3>3. CASE IsRefused(Code)
      <4>1. proposal' = 0 /\ UNCHANGED proposals /\ "propose" \in failed'
        BY <1>4, <2>2, <3>3, ProposeDoes DEF IsJudged
      <4> QED  BY <3>1, <3>3, <4>1 DEF Previewed, Proposes
    <3>4. CASE ~IsRefused(Code)
      <4> DEFINE p == [verb |-> test.verb, args |-> test.args]
      <4>1. proposal' = 1 /\ proposals' = Append(proposals, p)
        BY <1>4, <3>2, <3>4, ProposeDoes
      <4> HIDE DEF p
      <4>2. 1 \in DOMAIN proposals' /\ proposals'[1] = p
        BY <1>1, <3>2, <4>1, AddedIs, ListIs DEF IsAdded
      <4>3. p = [verb |-> test'.verb, args |-> test'.args]
        BY <2>2 DEF IsJudged, p
      <4> QED  BY <3>1, <3>4, <4>1, <4>2, <4>3 DEF Previewed, Proposes
    <3> QED  BY <3>3, <3>4
  <2>4. IsList(handles') /\ token' \in {0} \cup DOMAIN handles' /\ DOMAIN ledger' \subseteq {Trial!Key}'
    BY <1>1, <2>2 DEF TrialPosed, Untouched, Stored
  <2> QED  BY <1>2, <2>1, <2>2, <2>3, <2>4, RowKeeps
<1>5. CASE Trial!Unknown
  <2>1. Trial!At("unknown")
    BY <1>5 DEF Trial!Unknown
  <2> QED  BY <1>1, <1>2, <1>5, <2>1, UnknownDoes, PosedReads
<1>6. CASE Trial!Omitted
  <2>1. Trial!At("missing")
    BY <1>6 DEF Trial!Omitted
  <2> QED  BY <1>2, <1>6, <2>1, OmittedDoes, PosedReads
<1>7. CASE Trial!Commit \/ Trial!Replay
  <2>1. Trial!At("commit") \/ Trial!At("replay")
    BY <1>7 DEF Trial!Commit, Trial!Replay
  <2>2. /\ row \in {5, 6} /\ UNCHANGED <<proposal, proposals>>
        /\ \E name, passed : IsJudged(name, passed)
        /\ proposal = 0 => UNCHANGED Stored
        /\ proposal # 0 => Trial!commit(proposal, Trial!Key)
        /\ (row = 5 /\ token' = answer'.token) \/ UNCHANGED token
        /\ row = 5 /\ proposal = 0 => answer'.token = 0
    <3>1. \E name, passed : IsJudged(name, passed)
      BY <1>7, CommitDoes, ReplayDoes, Zenon
    <3>2. CASE Trial!Commit
      BY <3>1, <3>2, CommitDoes
    <3>3. CASE Trial!Replay
      BY <3>1, <3>3, ReplayDoes
    <3> QED  BY <1>7, <3>2, <3>3
  <2>3. PICK name, passed : IsJudged(name, passed)
    BY <2>2
  <2>4. ~undone /\ row \in 1..Len(Trial!Rows(test))
    BY <1>2, <2>1, LenIsNat DEF TrialPosed, Trial!Finished
  <2>5. /\ IsList(handles') /\ DOMAIN handles \subseteq DOMAIN handles'
        /\ DOMAIN ledger' \subseteq {Trial!Key}'
        /\ proposal # 0 /\ Trial!Key \notin DOMAIN ledger => answer'.token \in {0} \cup DOMAIN handles'
    BY <2>2, <2>4, CallKeeps DEF Trial!Key
  <2>6. token' \in {0} \cup DOMAIN handles'
    BY <2>2, <2>5 DEF TrialPosed, Untouched
  <2> QED  BY <2>2, <2>3, <2>4, <2>5, <2>6, RowKeeps DEF Proposes
<1>8. CASE Trial!Status
  <2>1. Trial!At("status")
    BY <1>8 DEF Trial!Status
  <2> QED  BY <1>2, <1>8, <2>1, StatusDoes, PosedReads DEF Proposes
<1>9. CASE Trial!Phantom
  <2>1. Trial!At("phantom")
    BY <1>9 DEF Trial!Phantom
  <2>2. ~undone
    BY <1>2, <2>1, LenIsNat DEF TrialPosed, Trial!Finished
  <2>3. 0 \notin DOMAIN proposals /\ <<"phantom", 0>> \notin DOMAIN ledger
    BY <1>1, <2>2, ListIs DEF TrialPosed, Trial!Key
  <2> QED  BY <1>2, <1>9, <2>1, <2>3, PhantomDoes, PosedReads DEF Proposes
<1>10. CASE Trial!Query
  <2>1. Trial!At("query")
    BY <1>10 DEF Trial!Query
  <2> QED  BY <1>1, <1>2, <1>10, <2>1, QueryDoes, PosedReads DEF Proposes
<1>11. CASE Trial!Reverse
  <2>1. Trial!At("reverse")
    BY <1>11 DEF Trial!Reverse
  <2>2. Proposes /\ row \notin {1, 2}
    BY <1>11, ReverseDoes, RowsAre DEF Proposes
  <2> QED  BY <1>2, <1>11, <2>1, <2>2, ReverseDoes, PosedReads
<1>12. CASE Trial!Expired
  <2>1. Trial!At("expired")
    BY <1>12 DEF Trial!Expired
  <2>2. row \notin {1, 2}
    BY <1>1, <1>12, ExpiredDoes, RowsAre
  <2> QED  BY <1>1, <1>2, <1>12, <2>1, <2>2, ExpiredDoes, PosedReads DEF Proposes
<1> QED  BY <1>3, <1>4, <1>5, <1>6, <1>7, <1>8, <1>9, <1>10, <1>11, <1>12 DEF Trial!Next

-----------------------------------------------------------------------------
(* A broken shim is caught by its row.                                      *)

\* By the row that asks for it.
Caught ==
  /\ defect = "lost" /\ row > 1 => "describe" \in failed
  /\ defect = "free" /\ row > 3 => "unknown" \in failed
  /\ defect = "thin" /\ row > 4 => failed # {}
  /\ defect = "again" => DOMAIN ledger = {} /\ (row > 6 => "replay" \in failed)
  /\ defect = "phantom" /\ row > 8 => "phantom" \in failed
  /\ defect = "blind" => executed = {} /\ (row > 7 => "status" \in failed)
  /\ defect = "rash" /\ token # 0 /\ test.tier # None /\ row > 9 + Queries(test) => "reverse" \in failed

\* What is refused without its first argument for its name only is refused with it, too.
LEMMA ThinnedIs ==
  ASSUME defect = "thin", IsRefused(Thinned)
  PROVE  IsRefused(Code)
<1> DEFINE args == [a \in DOMAIN test.args \ {test.first} |-> test.args[a]]
<1>1. Thinned # None /\ Thinned # "INVALID_ARGS"
  BY DEF IsRefused, Trial!Overlooked
<1>2. Thinned = "UNKNOWN_VERB" /\ Code = "UNKNOWN_VERB"
  <2>1. CASE test.verb \in Trial!Resources
    <3>1. Thinned = Trial!ResourceRefusal(test.verb, args)
           /\ Code = Trial!ResourceRefusal(test.verb, test.args)
      BY <2>1 DEF Thinned, Code, Trial!Refusal
    <3>2. Trial!Given(args, "target") /\ args["target"] \notin Trial!Declared
      BY <1>1, <3>1 DEF Trial!ResourceRefusal
    <3>3. Trial!Given(test.args, "target") /\ test.args["target"] = args["target"]
      BY <3>2 DEF Trial!Given
    <3> HIDE DEF args
    <3> QED  BY <3>1, <3>2, <3>3 DEF Trial!ResourceRefusal
  <2>2. CASE test.verb \notin Trial!Resources
    <3>1. test.verb \notin DOMAIN Trial!WRITE_VERBS
      BY <1>1, <2>2 DEF Thinned, Trial!Refusal
    <3> QED  BY <2>2, <3>1 DEF Thinned, Code, Trial!Refusal
  <2> QED  BY <2>1, <2>2
<1> QED  BY <1>1, <1>2 DEF IsRefused, Trial!Overlooked

\* A row that fails for its defect keeps the defect caught.
LEMMA CaughtStays ==
  ASSUME TrialPosed, Caught, NEW name, NEW passed, IsJudged(name, passed),
         row = 1 => name = "describe" /\ (passed => defect # "lost"),
         row = 3 => name = "unknown" /\ (passed => defect # "free"),
         row = 4 /\ defect = "thin" => failed' # {},
         row = 6 => name = "replay" /\ (passed => defect # "again"),
         row = 7 => name = "status" /\ (passed => defect # "blind"),
         row = 8 => name = "phantom" /\ (passed => defect # "phantom"),
         row = 9 + Queries(test) /\ test.tier # None
            => name = "reverse" /\ (passed /\ token # 0 => defect # "rash"),
         row > 8 => UNCHANGED token,
         defect = "again" => DOMAIN ledger' = {}, defect = "blind" => executed' = {}
  PROVE  Caught'
<1>1. row \in Nat /\ row' = row + 1 /\ failed \subseteq failed' /\ UNCHANGED <<defect, test>>
  BY LenIsNat DEF TrialPosed, IsJudged
<1>2. ~passed => name \in failed'
  BY DEF IsJudged
<1>3. Queries(test) \in {0, 1} /\ Queries(test)' = Queries(test)
  BY <1>1, RowsAre DEF Queries
<1>4. failed # {} => failed' # {}
  BY <1>1
<1>5. defect = "rash" /\ token' # 0 /\ test.tier # None /\ row' > 9 + Queries(test)
       => "reverse" \in failed'
  BY <1>1, <1>2, <1>3 DEF Caught
<1>6. /\ defect = "lost" /\ row' > 1 => "describe" \in failed'
      /\ defect = "free" /\ row' > 3 => "unknown" \in failed'
      /\ defect = "thin" /\ row' > 4 => failed' # {}
  BY <1>1, <1>2, <1>4 DEF Caught
<1>7. /\ defect = "again" => DOMAIN ledger' = {} /\ (row' > 6 => "replay" \in failed')
      /\ defect = "phantom" /\ row' > 8 => "phantom" \in failed'
      /\ defect = "blind" => executed' = {} /\ (row' > 7 => "status" \in failed')
  BY <1>1, <1>2 DEF Caught
<1> QED  BY <1>1, <1>3, <1>5, <1>6, <1>7 DEF Caught

\* The same of a row that writes nothing.
LEMMA CaughtReads ==
  ASSUME TrialPosed, Caught, NEW name, NEW passed, IsJudged(name, passed),
         row = 1 => name = "describe" /\ (passed => defect # "lost"),
         row = 3 => name = "unknown" /\ (passed => defect # "free"),
         row = 4 /\ defect = "thin" => failed' # {},
         row = 7 => name = "status" /\ (passed => defect # "blind"),
         row = 8 => name = "phantom" /\ (passed => defect # "phantom"),
         row = 9 + Queries(test) /\ test.tier # None
            => name = "reverse" /\ (passed /\ token # 0 => defect # "rash"),
         row # 6, UNCHANGED token, UNCHANGED Stored
  PROVE  Caught'
<1>1. /\ defect = "again" => DOMAIN ledger' = {}
      /\ defect = "blind" => executed' = {}
  BY DEF Caught, Stored
<1> QED  BY <1>1, CaughtStays

\* So every row does.
LEMMA CaughtKeeps ==
  ASSUME TrialPosed, Caught, Trial!Next, ~Trial!Undo, Trial!ConstantsAreSound
  PROVE  Caught'
<1>1. /\ None \notin Trial!Declared /\ None \notin {"UNKNOWN_VERB", "INVALID_ARGS"}
      /\ IsList(handles) /\ IsList(proposals) /\ Queries(test) \in {0, 1} /\ ~undone
  BY PosedKeeps, RowsAre DEF Trial!ConstantsAreSound, TrialPosed
<1>2. CASE Trial!Describe
  <2> DEFINE passed == defect # "lost"
  <2>1. row = 1 /\ IsJudged("describe", passed) /\ UNCHANGED token /\ UNCHANGED Stored
    BY <1>2, DescribeDoes
  <2>2. passed => defect # "lost"
    OBVIOUS
  <2> HIDE DEF passed
  <2> QED  BY <1>1, <2>1, <2>2, CaughtReads
<1>3. CASE Trial!Propose
  <2>1. row = 2 /\ IsJudged("propose", ~IsRefused(Code)) /\ UNCHANGED token /\ UNCHANGED Stored
    BY <1>3, ProposeDoes
  <2> QED  BY <1>1, <2>1, CaughtReads
<1>4. CASE Trial!Unknown
  <2> DEFINE passed == defect # "free"
  <2>1. row = 3 /\ IsJudged("unknown", passed) /\ UNCHANGED token /\ UNCHANGED Stored
    BY <1>1, <1>4, UnknownDoes
  <2>2. passed => defect # "free"
    OBVIOUS
  <2> HIDE DEF passed
  <2> QED  BY <1>1, <2>1, <2>2, CaughtReads
<1>5. CASE Trial!Omitted
  <2>1. /\ row = 4 /\ IsJudged("missing", IsRefused(Thinned) /\ test.first # None)
        /\ UNCHANGED token /\ UNCHANGED Stored
    BY <1>5, OmittedDoes
  <2>2. defect = "thin" => failed' # {}
    <3>1. CASE defect = "thin" /\ IsRefused(Thinned)
      BY <2>1, <3>1, ThinnedIs DEF TrialPosed, Previewed, IsJudged
    <3>2. CASE ~IsRefused(Thinned)
      BY <2>1, <3>2 DEF IsJudged
    <3> QED  BY <3>1, <3>2
  <2> QED  BY <1>1, <2>1, <2>2, CaughtReads
<1>6. CASE Trial!Commit \/ Trial!Replay
  <2>1. /\ proposal = 0 => UNCHANGED Stored
        /\ proposal # 0 => Trial!commit(proposal, Trial!Key)
    BY <1>6, CommitDoes, ReplayDoes
  <2>2. UNCHANGED Stored \/ IsWritten(Trial!Key, proposal, proposals[proposal].verb)
    <3>1. CASE proposal = 0
      BY <2>1, <3>1 DEF Stored
    <3>2. CASE proposal # 0
      BY <2>1, <3>2, CommitIs
    <3> QED  BY <3>1, <3>2
  <2>3. /\ defect = "again" => DOMAIN ledger' = {}
        /\ defect = "blind" => executed' = {}
    <3>1. CASE UNCHANGED Stored
      BY <3>1 DEF Caught, Stored
    <3>2. CASE IsWritten(Trial!Key, proposal, proposals[proposal].verb)
      BY <3>2 DEF Caught, IsWritten
    <3> QED  BY <2>2, <3>1, <3>2
  <2>4. CASE Trial!Commit
    <3>1. row = 5 /\ IsJudged("commit", answer'.state = "executed")
      BY <2>4, CommitDoes
    <3> QED  BY <1>1, <2>3, <3>1, CaughtStays
  <2>5. CASE Trial!Replay
    <3> DEFINE passed == proposal # 0 /\ Trial!Key \in DOMAIN ledger
    <3>1. row = 6 /\ IsJudged("replay", passed) /\ UNCHANGED token
      BY <2>5, ReplayDoes
    <3>2. passed => defect # "again"
      BY DEF Caught
    <3> HIDE DEF passed
    <3> QED  BY <1>1, <2>3, <3>1, <3>2, CaughtStays
  <2> QED  BY <1>6, <2>4, <2>5
<1>7. CASE Trial!Status
  <2> DEFINE passed == proposal # 0 /\ proposal \in executed
  <2>1. /\ row = 7 /\ IsJudged("status", passed)
        /\ UNCHANGED token /\ UNCHANGED Stored
    BY <1>7, StatusDoes
  <2>2. passed => defect # "blind"
    BY DEF Caught
  <2> HIDE DEF passed
  <2> QED  BY <1>1, <2>1, <2>2, CaughtReads
<1>8. CASE Trial!Phantom
  <2> DEFINE passed == defect # "phantom"
  <2>1. 0 \notin DOMAIN proposals /\ <<"phantom", 0>> \notin DOMAIN ledger
    BY <1>1, ListIs DEF TrialPosed, Trial!Key
  <2>2. row = 8 /\ IsJudged("phantom", passed) /\ UNCHANGED token /\ UNCHANGED Stored
    BY <1>8, <2>1, PhantomDoes
  <2>3. passed => defect # "phantom"
    OBVIOUS
  <2> HIDE DEF passed
  <2> QED  BY <1>1, <2>2, <2>3, CaughtReads
<1>9. CASE Trial!Query
  <2>1. row = 9 /\ Queries(test) = 1 /\ IsJudged("query", IsAsked)
         /\ UNCHANGED token /\ UNCHANGED Stored
    BY <1>1, <1>9, QueryDoes DEF Queries
  <2> QED  BY <1>1, <2>1, CaughtReads
<1>10. CASE Trial!Reverse
  <2> DEFINE passed == IF token \notin DOMAIN handles THEN test.tier = "IRREVERSIBLE"
                       ELSE defect # "rash" /\ test.tier # "IRREVERSIBLE"
  <2>1. /\ row = 9 + Queries(test) /\ IsJudged("reverse", passed)
        /\ UNCHANGED token /\ UNCHANGED Stored
    BY <1>10, ReverseDoes
  <2>2. passed /\ token # 0 => defect # "rash"
    BY DEF TrialPosed
  <2> HIDE DEF passed
  <2> QED  BY <1>1, <2>1, <2>2, CaughtReads
<1>11. CASE Trial!Expired
  <2>1. /\ row = 10 + Queries(test) /\ IsJudged("expired", TRUE)
        /\ UNCHANGED token /\ UNCHANGED Stored
    BY <1>1, <1>11, ExpiredDoes
  <2>2. row \notin {1, 3, 4, 6, 7, 8, 9 + Queries(test)}
    BY <1>1, <2>1
  <2> QED  BY <2>1, <2>2, CaughtReads
<1> QED  BY <1>2, <1>3, <1>4, <1>5, <1>6, <1>7, <1>8, <1>9, <1>10, <1>11 DEF Trial!Next

-----------------------------------------------------------------------------
(* What is in the system: records by their names.                           *)

\* The numbers in order are those of the intents.
LEMMA PlacesAre ==
  ASSUME NEW S, S \subseteq Nat, IsFiniteSet(S)
  PROVE  IsOrdered(Trial!Ascending(S), S)
<1> DEFINE A(n) == CHOOSE s \in [1..n -> S] : \A i, j \in DOMAIN s : i < j => s[i] < s[j]
<1>1. Trial!Ascending(S) = A(Trial!Cardinality(S)) /\ Intent!Ascending(S) = A(Intent!Cardinality(S))
  BY Zenon DEF Trial!Ascending, Intent!Ascending
<1>2. Trial!Cardinality(S) = Intent!Cardinality(S)
  BY DEF Intent!Cardinality, Trial!Cardinality
<1> HIDE DEF A
<1>3. Trial!Ascending(S) = Intent!Ascending(S)
  BY <1>1, <1>2
<1> QED  BY <1>3, AscendingIs

\* Deleting leaves the others.
LEMMA DeletedIs ==
  ASSUME NEW collection, NEW name, IsList(docs)
  PROVE  LET left == Trial!Deleted(collection, name) IN
         /\ IsList(left)
         /\ Trial!Elements(left) = {docs[i] : i \in DOMAIN docs \ Trial!Named(collection, name)}
<1> DEFINE S == DOMAIN docs \ Trial!Named(collection, name)
           kept == Trial!Ascending(S)
           left == Trial!Deleted(collection, name)
<1>1. S \subseteq Nat /\ IsFiniteSet(S)
  <2>1. Len(docs) \in Nat /\ DOMAIN docs = 1..Len(docs)
    BY ListIs
  <2>2. IsFiniteSet(1..Len(docs))
    BY <2>1, FS_Interval
  <2> QED  BY <2>1, <2>2, FS_Subset
<1>2. left = [k \in DOMAIN kept |-> docs[kept[k]]]
  BY DEF Trial!Deleted
<1> HIDE DEF S
<1>3. IsOrdered(kept, S)
  BY <1>1, PlacesAre
<1> HIDE DEF kept, left
<1>4. /\ \A k \in DOMAIN kept : kept[k] \in S
      /\ \A x \in S : \E k \in DOMAIN kept : kept[k] = x
  BY <1>3 DEF IsOrdered
<1>5. {docs[kept[k]] : k \in DOMAIN kept} = {docs[i] : i \in S}
  BY <1>4
<1>6. IsList(left)
  <2> DEFINE T == {docs[kept[k]] : k \in DOMAIN kept}
             n == Cardinality(S)
  <2>1. DOMAIN kept = 1..n /\ n \in Nat
    BY <1>3 DEF IsOrdered
  <2>2. \A k \in 1..n : left[k] \in T
    BY <1>2, <2>1
  <2>3. left = [k \in 1..n |-> left[k]]
    BY <1>2, <2>1
  <2> HIDE DEF T, n
  <2>4. left \in [1..n -> T]
    BY <2>2, <2>3
  <2>5. left \in Seq(T)
    BY <2>1, <2>4, SeqDef
  <2> QED  BY <2>5, SeqIsList
<1> QED  BY <1>2, <1>5, <1>6 DEF Trial!Elements, S, left

\* What is assumed of a stock.
IsStock(s) ==
  /\ IsList(s)
  /\ \A i \in DOMAIN s : LET d == s[i].data IN
       /\ Trial!Given(d, "name")
       /\ s[i] = [collection |-> s[i].collection, data |-> Trial!Only(d, DOMAIN d)]
  /\ Fresh[Len(s) + 1] \notin {"", None}
  /\ \A i \in DOMAIN s : Fresh[Len(s) + 1] # s[i].data["name"]

\* Every stock is one.
LEMMA StockIs ==
  ASSUME Trial!ConstantsAreSound, NEW s \in Stocks
  PROVE  IsStock(s)
BY DEF Trial!ConstantsAreSound, IsStock, IsList

\* The first of some places is one of them.
LEMMA FirstOf ==
  ASSUME NEW S, S \subseteq Nat, S # {}
  PROVE  Trial!Least(S) \in S
<1>1. \E m \in S : \A x \in S : m <= x
  BY LeastOf
<1> QED  BY <1>1 DEF Trial!Least

\* The fields are a sequence.
LEMMA IdsAre == DOMAIN Trial!ID_FIELDS \subseteq Nat
<1> DEFINE S == {"code", "name", "slug", "title", "sku", "email"}
           ids == <<"code", "name", "slug", "title", "sku", "email">>
<1>1. /\ "code" \in S /\ "name" \in S /\ "slug" \in S
      /\ "title" \in S /\ "sku" \in S /\ "email" \in S
  OBVIOUS
<1> HIDE DEF S
<1>2. ids \in Seq(S)
  BY <1>1
<1> HIDE DEF ids
<1>3. DOMAIN ids \subseteq Nat
  BY <1>2
<1> QED  BY <1>3 DEF Trial!ID_FIELDS, ids

\* A set of one is not empty.
LEMMA SomeOne ==
  ASSUME NEW S, Trial!Cardinality(S) = 1
  PROVE  S # {}
<1>1. Trial!Cardinality({}) = 0
  <2>1. Trial!Cardinality({}) = Cardinality({})
    BY DEF Cardinality, Trial!Cardinality
  <2> QED  BY <2>1, FS_EmptySet
<1> QED  BY <1>1

\* The places of a collection where the field has the value.
Hits(collection, value, f) ==
  {i \in DOMAIN docs : docs[i].collection = collection /\ f \in DOMAIN docs[i].data
                          /\ docs[i].data[f] = value}

\* A value that is found is the name of a record, or one record has it.
LEMMA ResolvedIs ==
  ASSUME NEW collection, NEW value, value \notin {"", None}, IsStock(docs)
  PROVE  LET name == Trial!_resolve_id(collection, value) IN
         /\ name # None <=> \/ Hits(collection, value, "name") # {}
                            \/ \E f \in Trial!Elements(Trial!ID_FIELDS) :
                                 Trial!Cardinality(Hits(collection, value, f)) = 1
         /\ name # None => Trial!Named(collection, name) # {} /\ name # ""
         /\ Trial!Named(collection, value) # {} => name = value
<1> DEFINE H(f) == Hits(collection, value, f)
           ids == Trial!ID_FIELDS
           unique == {k \in DOMAIN ids : Trial!Cardinality(H(ids[k])) = 1}
           name == Trial!_resolve_id(collection, value)
<1>1. name = IF Trial!Named(collection, value) # {} THEN value
             ELSE IF unique = {} THEN None
             ELSE docs[CHOOSE i \in H(ids[Trial!Least(unique)]) : TRUE].data["name"]
  BY Zenon DEF Trial!_resolve_id, Hits
<1>2. H("name") = Trial!Named(collection, value)
  BY DEF Hits, Trial!Named, IsStock, Trial!Given
<1>3. unique # {} <=> \E f \in Trial!Elements(ids) : Trial!Cardinality(H(f)) = 1
  BY DEF Trial!Elements
<1>4. unique \subseteq Nat
  BY IdsAre
<1>5. \A f : Trial!Cardinality(H(f)) = 1 => H(f) # {}
  BY SomeOne
<1> HIDE DEF ids
<1>6. unique # {} => LET i == CHOOSE i \in H(ids[Trial!Least(unique)]) : TRUE IN
                     i \in H(ids[Trial!Least(unique)])
  <2>1. unique # {} => Trial!Least(unique) \in unique
    BY <1>4, FirstOf
  <2>2. unique # {} => H(ids[Trial!Least(unique)]) # {}
    BY <1>5, <2>1
  <2> HIDE DEF H, unique
  <2> QED  BY <2>2
<1>7. ASSUME NEW i, NEW f, i \in H(f)
      PROVE  /\ docs[i].data["name"] \notin {"", None}
             /\ i \in Trial!Named(collection, docs[i].data["name"])
  BY <1>7 DEF Hits, IsStock, Trial!Given, Trial!Named
<1> HIDE DEF H, unique
<1>8. CASE Trial!Named(collection, value) # {}
  BY <1>1, <1>2, <1>8 DEF H
<1>9. CASE Trial!Named(collection, value) = {} /\ unique = {}
  BY <1>1, <1>2, <1>3, <1>9 DEF H, ids
<1>10. CASE Trial!Named(collection, value) = {} /\ unique # {}
  <2> DEFINE i == CHOOSE i \in H(ids[Trial!Least(unique)]) : TRUE
  <2>1. i \in H(ids[Trial!Least(unique)])
    BY <1>6, <1>10
  <2>2. name = docs[i].data["name"]
    BY <1>1, <1>10
  <2> HIDE DEF i
  <2>3. name # None /\ name # "" /\ i \in Trial!Named(collection, name)
    BY <1>7, <2>1, <2>2
  <2> HIDE DEF name
  <2>4. \E f \in Trial!Elements(Trial!ID_FIELDS) : Trial!Cardinality(Hits(collection, value, f)) = 1
    BY <1>3, <1>10 DEF H, ids
  <2> QED  BY <1>10, <2>3, <2>4 DEF name
<1> QED  BY <1>8, <1>9, <1>10

-----------------------------------------------------------------------------
(* A reversal takes back what was done: it removes the one record of its    *)
(* name, or brings back what is gone.                                       *)

\* A handle is a verb and its arguments.
Deletes(h, collection, name) ==
  \/ h.verb = "resource.delete" /\ h.args = [target |-> collection, id |-> name]
  \/ /\ h.verb = "delete_product" /\ h.args = [a \in {"product_id"} |-> name]
     /\ collection = "products"

\* Without the records of the name there is what there was before.
IsRest(collection, name) ==
  LET named == Trial!Named(collection, name) IN
  named # {} /\ Trial!Elements(before) = {docs[i] : i \in DOMAIN docs \ named}

Removes(h) == \E collection, name :
  name \notin {"", None} /\ Deletes(h, collection, name) /\ IsRest(collection, name)

Returns(h) ==
  \E collection, data :
    /\ h.verb = "resource.create" /\ h.args = [target |-> collection, data |-> data]
    /\ Trial!Given(data, "name") /\ data = Trial!Only(data, DOMAIN data)
    /\ Trial!Elements(before) = Trial!Elements(docs) \cup {[collection |-> collection, data |-> data]}

TakesBack(h) == IsList(docs) /\ (Removes(h) \/ Returns(h))

\* A record that is created has the name it is given, or a new one.
LEMMA CreatedIs ==
  ASSUME NEW collection, NEW data
  PROVE  LET made == Trial!Created(collection, data) IN
         /\ made.collection = collection /\ "name" \in DOMAIN made.data
         /\ made.data["name"] = IF Trial!Given(data, "name") THEN data["name"] ELSE Fresh[Len(docs) + 1]
         /\ Trial!Given(data, "name") /\ data = Trial!Only(data, DOMAIN data)
              => made = [collection |-> collection, data |-> data]
<1> DEFINE N == IF Trial!Given(data, "name") THEN data["name"] ELSE Fresh[Len(docs) + 1]
           full == Trial!Over([name |-> N], data)
<1>1. Trial!Created(collection, data) = [collection |-> collection, data |-> full]
  BY DEF Trial!Created
<1>2. "name" \in DOMAIN full /\ full["name"] = N
  BY DEF Trial!Over
<1>3. ASSUME Trial!Given(data, "name"), data = Trial!Only(data, DOMAIN data)
      PROVE  full = data
  <2>1. "name" \in DOMAIN data /\ N = data["name"]
    BY <1>3 DEF Trial!Given
  <2>2. full = [x \in DOMAIN data |-> data[x]]
    <3>1. DOMAIN full = DOMAIN data
      BY <2>1 DEF Trial!Over
    <3>2. \A x \in DOMAIN data : full[x] = data[x]
      BY <2>1 DEF Trial!Over
    <3>3. full = [x \in DOMAIN full |-> full[x]]
      BY DEF Trial!Over
    <3> HIDE DEF full
    <3> QED  BY <3>1, <3>2, <3>3
  <2>3. data = [x \in DOMAIN data |-> data[x]]
    BY <1>3 DEF Trial!Only
  <2> QED  BY <2>2, <2>3
<1> HIDE DEF full
<1> QED  BY <1>1, <1>2, <1>3

\* What is appended is there, beside all the rest.
LEMMA ElementsAre ==
  ASSUME IsList(docs), NEW x
  PROVE  LET t == Append(docs, x) IN
         /\ IsList(t) /\ Trial!Elements(t) = Trial!Elements(docs) \cup {x}
<1> DEFINE t == Append(docs, x)
<1>1. IsAdded(t, docs, x)
  BY AddedIs
<1> HIDE DEF t
<1>2. /\ IsList(t) /\ Len(docs) \in Nat /\ DOMAIN docs = 1..Len(docs) /\ DOMAIN t = 1..(Len(docs) + 1)
      /\ \A i \in 1..Len(docs) : t[i] = docs[i]
      /\ t[Len(docs) + 1] = x
  BY <1>1 DEF IsAdded
<1>3. Trial!Elements(t) \subseteq Trial!Elements(docs) \cup {x}
  BY <1>2 DEF Trial!Elements
<1>4. Trial!Elements(docs) \cup {x} \subseteq Trial!Elements(t)
  BY <1>2 DEF Trial!Elements
<1> QED  BY <1>2, <1>3, <1>4 DEF t

\* What a creation adds, under a new name, its reversal removes.
LEMMA CreateIsTakenBack ==
  ASSUME IsStock(docs), docs = before, UNCHANGED before, NEW collection, NEW data,
         "name" \in DOMAIN data => \A i \in DOMAIN docs : docs[i].data["name"] # data["name"],
         docs' = Append(docs, Trial!Created(collection, data)),
         NEW name, name = Trial!Created(collection, data).data["name"],
         NEW h, Deletes(h, collection, name)
  PROVE  TakesBack(h)'
<1> DEFINE made == Trial!Created(collection, data)
           n == Len(docs)
<1>1. /\ made.collection = collection
      /\ name = IF Trial!Given(data, "name") THEN data["name"] ELSE Fresh[n + 1]
  BY CreatedIs
<1>2. name \notin {"", None} /\ \A i \in DOMAIN docs : docs[i].data["name"] # name
  BY <1>1 DEF IsStock, Trial!Given
<1>3. IsAdded(docs', docs, made)
  BY AddedIs DEF IsStock
<1> HIDE DEF made
<1>4. /\ IsList(docs') /\ n \in Nat /\ DOMAIN docs = 1..n /\ DOMAIN docs' = 1..(n + 1)
      /\ \A i \in 1..n : docs'[i] = docs[i]
      /\ docs'[n + 1] = made
  BY <1>3 DEF IsAdded
<1> HIDE DEF n
<1>5. Trial!Named(collection, name)' = {n + 1}
  <2>1. ASSUME NEW i \in DOMAIN docs'
        PROVE  docs'[i].collection = collection /\ docs'[i].data["name"] = name <=> i = n + 1
    <3>1. CASE i = n + 1
      BY <1>1, <1>4, <3>1 DEF made
    <3>2. CASE i # n + 1
      <4>1. i \in 1..n
        BY <1>4, <3>2
      <4>2. docs'[i] = docs[i] /\ docs[i].data["name"] # name
        BY <1>2, <1>4, <4>1
      <4> QED  BY <3>2, <4>2
    <3> QED  BY <3>1, <3>2
  <2>2. n + 1 \in DOMAIN docs'
    BY <1>4
  <2>3. Trial!Named(collection, name)'
          = {i \in DOMAIN docs' : docs'[i].collection = collection /\ docs'[i].data["name"] = name}
    BY DEF Trial!Named
  <2> QED  BY <2>1, <2>2, <2>3
<1>6. IsRest(collection, name)'
  BY <1>4, <1>5 DEF IsRest, Trial!Elements
<1>7. Removes(h)'
  BY <1>2, <1>6 DEF Removes
<1> QED  BY <1>4, <1>7 DEF TakesBack

\* What a deletion removes its reversal brings back.
LEMMA DeleteIsTakenBack ==
  ASSUME IsStock(docs), docs = before, UNCHANGED before, NEW collection, NEW name,
         \A i, j \in DOMAIN docs : docs[i].data["name"] = docs[j].data["name"] => i = j,
         Trial!Named(collection, name) # {}, docs' = Trial!Deleted(collection, name),
         NEW data, data = docs[Trial!Least(Trial!Named(collection, name))].data,
         NEW h, h.verb = "resource.create", h.args = [target |-> collection, data |-> data]
  PROVE  TakesBack(h)'
<1> DEFINE N == Trial!Named(collection, name)
           m == Trial!Least(N)
<1>1. IsList(docs) /\ DOMAIN docs = 1..Len(docs) /\ Len(docs) \in Nat
  BY ListIs DEF IsStock
<1>2. m \in N
  <2>1. N \subseteq Nat
    BY <1>1 DEF Trial!Named
  <2> HIDE DEF N
  <2> QED  BY <2>1, FirstOf DEF N
<1> HIDE DEF m
<1>3. N = {m}
  BY <1>2 DEF Trial!Named
<1>4. /\ m \in DOMAIN docs /\ docs[m].collection = collection /\ data = docs[m].data
      /\ Trial!Given(data, "name") /\ docs[m] = [collection |-> collection,
                                                 data |-> Trial!Only(data, DOMAIN data)]
  <2>1. m \in DOMAIN docs /\ docs[m].collection = collection
    BY <1>2 DEF Trial!Named
  <2>2. data = docs[m].data
    BY DEF m
  <2>3. /\ Trial!Given(docs[m].data, "name")
        /\ docs[m] = [collection |-> docs[m].collection,
                      data |-> Trial!Only(docs[m].data, DOMAIN docs[m].data)]
    BY <2>1 DEF IsStock
  <2> QED  BY <2>1, <2>2, <2>3
<1>5. data = Trial!Only(data, DOMAIN data)
  <2>1. docs[m].data = [collection |-> collection, data |-> Trial!Only(data, DOMAIN data)].data
    BY <1>4
  <2> QED  BY <1>4, <2>1
<1>6. IsList(docs') /\ Trial!Elements(docs') = {docs[i] : i \in DOMAIN docs \ {m}}
  BY <1>1, <1>3, DeletedIs
<1>7. Trial!Elements(before') = Trial!Elements(docs') \cup {[collection |-> collection, data |-> data]}
  <2>1. docs[m] = [collection |-> collection, data |-> data]
    BY <1>4, <1>5
  <2>2. Trial!Elements(before') = {docs[i] : i \in DOMAIN docs}
    BY DEF Trial!Elements
  <2>3. {docs[i] : i \in DOMAIN docs} = {docs[i] : i \in DOMAIN docs \ {m}} \cup {docs[m]}
    <3> HIDE DEF m
    <3>1. m \in DOMAIN docs
      BY <1>4
    <3> QED  BY <3>1
  <2> QED  BY <1>6, <2>1, <2>2, <2>3
<1>8. Returns(h)'
  BY <1>4, <1>5, <1>7 DEF Returns
<1> QED  BY <1>6, <1>8 DEF TakesBack

\* The verbs whose reversals are followed here.
LEMMA VerbsAre ==
  /\ Trial!WRITE_VERBS["create_product"]
       = Trial!Verb("create", "products", <<"name">>,
                   {"description", "price", "sku", "quantity", "category"})
  /\ Trial!WRITE_VERBS["delete_product"] = Trial!Verb("delete", "products", <<"product_id">>, {})
  /\ Trial!COMPENSATIONS["create_product"] = "delete_product"
  /\ DOMAIN Trial!COMPENSATIONS = {"create_product", "record_payment", "create_invoice"}
BY DEF Trial!WRITE_VERBS, Trial!COMPENSATIONS

\* A name that is there is its own key.
LEMMA NameIs ==
  ASSUME NEW collection, NEW name, name \notin {"", None}, Trial!Named(collection, name) # {}
  PROVE  Trial!_resolve_id(collection, name) = name
BY Zenon DEF Trial!_resolve_id

\* Who commits it has again what there was.
LEMMA TakenBackIs ==
  ASSUME NEW h, TakesBack(h), NEW id \in DOMAIN proposals, NEW key, key \notin DOMAIN ledger,
         proposals[id].verb = h.verb, proposals[id].args = h.args, Trial!commit(id, key)
  PROVE  Trial!Elements(docs') = Trial!Elements(before)
<1>1. /\ h.verb \in Trial!Resources => Trial!CommitResource(key, id, h.verb, h.args)
      /\ h.verb \notin Trial!Resources => Trial!CommitCurated(key, id, h.verb, h.args)
  BY DEF Trial!commit
<1>2. CASE Removes(h)
  <2>1. PICK collection, name :
          name \notin {"", None} /\ Deletes(h, collection, name) /\ IsRest(collection, name)
    BY <1>2 DEF Removes
  <2>2. Trial!_resolve_id(collection, name) = name
    BY <2>1, NameIs DEF IsRest
  <2>3. docs' = Trial!Deleted(collection, name)
    <3>1. CASE h.verb = "resource.delete" /\ h.args = [target |-> collection, id |-> name]
      <4>1. Trial!CommitResource(key, id, "resource.delete", h.args)
        BY <1>1, <3>1 DEF Trial!Resources
      <4>2. h.args["target"] = collection /\ h.args["id"] = name
        BY <3>1
      <4>3. name # None
        BY <2>1
      <4> QED  BY <2>2, <4>1, <4>2, <4>3 DEF Trial!CommitResource
    <3>2. CASE /\ h.verb = "delete_product" /\ h.args = [a \in {"product_id"} |-> name]
               /\ collection = "products"
      <4>1. Trial!CommitCurated(key, id, "delete_product", h.args)
        BY <1>1, <3>2 DEF Trial!Resources
      <4>2. h.args["product_id"] = name
        BY <3>2
      <4> DEFINE spec == Trial!WRITE_VERBS["delete_product"]
      <4>3. spec.act = "delete" /\ spec.collection = "products" /\ spec.required[1] = "product_id"
        BY VerbsAre DEF Trial!Verb
      <4> HIDE DEF spec
      <4>4. docs' = Trial!Deleted(spec.collection, name)
        BY <2>2, <3>2, <4>1, <4>2, <4>3 DEF Trial!CommitCurated, spec
      <4> QED  BY <3>2, <4>3, <4>4
    <3> QED  BY <2>1, <3>1, <3>2 DEF Deletes
  <2>4. Trial!Elements(docs') = {docs[i] : i \in DOMAIN docs \ Trial!Named(collection, name)}
    BY <2>3, DeletedIs DEF TakesBack
  <2> QED  BY <2>1, <2>4 DEF IsRest
<1>3. CASE Returns(h)
  <2>1. PICK collection, data :
          /\ h.verb = "resource.create" /\ h.args = [target |-> collection, data |-> data]
          /\ Trial!Given(data, "name") /\ data = Trial!Only(data, DOMAIN data)
          /\ Trial!Elements(before) = Trial!Elements(docs)
                         \cup {[collection |-> collection, data |-> data]}
    BY <1>3 DEF Returns
  <2>2. Trial!CommitResource(key, id, "resource.create", h.args)
    BY <1>1, <2>1 DEF Trial!Resources
  <2>3. docs' = Append(docs, Trial!Created(h.args["target"], h.args["data"]))
    BY <2>2 DEF Trial!CommitResource
  <2>4. h.args["target"] = collection /\ h.args["data"] = data
    BY <2>1
  <2>5. Trial!Created(collection, data) = [collection |-> collection, data |-> data]
    BY <2>1, CreatedIs
  <2>6. Trial!Elements(docs') = Trial!Elements(docs) \cup {[collection |-> collection, data |-> data]}
    BY <2>3, <2>4, <2>5, ElementsAre DEF TakesBack
  <2> QED  BY <2>1, <2>6
<1> QED  BY <1>2, <1>3 DEF TakesBack

\* A test whose verb is not refused names a record by target and id.
LEMMA ArgumentsAre ==
  ASSUME Code = None, test.verb \in Trial!Resources, None \notin {"UNKNOWN_VERB", "INVALID_ARGS"}
  PROVE  /\ test.verb # "resource.create" => Trial!Given(test.args, "id")
         /\ test.verb # "resource.delete" => "data" \in DOMAIN test.args
<1>1. Trial!ResourceRefusal(test.verb, test.args) = None
  BY DEF Code, Trial!Refusal
<1> QED  BY <1>1 DEF Trial!ResourceRefusal

\* Whether it is there is what the test says of itself.
LEMMA AstrayIs ==
  ASSUME Code = None, IsStock(docs), docs = before, None \notin {"UNKNOWN_VERB", "INVALID_ARGS"}
  PROVE  IsAstray([verb |-> test.verb, args |-> test.args]) <=> ~Trial!Resolves
<1>1. CASE test.verb \in Trial!Resources \ {"resource.create"}
  <2> DEFINE target == test.args["target"]
             id == test.args["id"]
  <2>1. id \notin {"", None}
    BY <1>1, ArgumentsAre DEF Trial!Given
  <2>2. Trial!Resolves <=> \/ Hits(target, id, "name") # {}
                           \/ \E f \in Trial!Elements(Trial!ID_FIELDS) :
                                Trial!Cardinality(Hits(target, id, f)) = 1
    BY <1>1, Zenon DEF Trial!Resolves, Hits
  <2>3. IsAstray([verb |-> test.verb, args |-> test.args]) <=> Trial!_resolve_id(target, id) = None
    BY <1>1 DEF IsAstray
  <2> HIDE DEF target, id
  <2> QED  BY <2>1, <2>2, <2>3, ResolvedIs
<1>2. CASE test.verb \notin Trial!Resources \ {"resource.create"}
  BY <1>2 DEF IsAstray, Trial!Resolves
<1> QED  BY <1>1, <1>2

\* The reversals that restore.
Revocable == Trial!UniqueNames /\ test.verb \in {"create_product", "resource.create", "resource.delete"}

\* The handle of a first write takes it back.
LEMMA CommitTakesBack ==
  ASSUME IsStock(docs), docs = before, UNCHANGED before, handles = << >>, Code = None, Revocable,
         None \notin {"UNKNOWN_VERB", "INVALID_ARGS"}, NEW key, key \notin DOMAIN ledger,
         1 \in DOMAIN proposals, proposals[1] = [verb |-> test.verb, args |-> test.args],
         ~IsAstray(proposals[1]), Trial!commit(1, key)
  PROVE  TakesBack(handles[1])'
<1>1. SUFFICES ASSUME NEW h, h = handles'[1]
               PROVE  TakesBack(h)'
  OBVIOUS
<1>2. \A x : handles' = Append(handles, x) => h = x
  <2> SUFFICES ASSUME NEW x, handles' = Append(handles, x)
               PROVE  h = x
    OBVIOUS
  <2>1. IsAdded(handles', handles, x) /\ Len(handles) = 0
    BY AddedIs, NoneIsList
  <2> QED  BY <1>1, <2>1 DEF IsAdded
<1>3. /\ test.verb \in Trial!Resources => Trial!CommitResource(key, 1, test.verb, test.args)
      /\ test.verb \notin Trial!Resources => Trial!CommitCurated(key, 1, test.verb, test.args)
  BY DEF Trial!commit
<1>4. \A i, j \in DOMAIN docs : docs[i].data["name"] = docs[j].data["name"] => i = j
  <2> DEFINE names == [i \in DOMAIN before |-> before[i].data["name"]]
  <2>1. \A i, j \in DOMAIN before : names[i] = names[j] => i = j
    BY DEF Revocable, Trial!UniqueNames
  <2> QED  BY <2>1
<1>5. CASE test.verb = "create_product"
  <2> DEFINE data == Trial!to_native("create_product", test.args)
             made == Trial!Created("products", data)
  <2>1. Trial!CommitCurated(key, 1, "create_product", test.args)
    BY <1>3, <1>5 DEF Trial!Resources
  <2>2. data = Trial!Only(test.args, {"name", "description", "price", "sku", "quantity", "category"})
    <3>1. Trial!WRITE_VERBS["create_product"].act = "create"
      BY VerbsAre DEF Trial!Verb
    <3>2. Trial!Elements(Trial!WRITE_VERBS["create_product"].required)
            \cup Trial!WRITE_VERBS["create_product"].optional
            = {"name", "description", "price", "sku", "quantity", "category"}
      BY VerbsAre DEF Trial!Verb, Trial!Elements
    <3> QED  BY <3>1, <3>2 DEF Trial!to_native
  <2>3. "name" \in DOMAIN data => \A i \in DOMAIN docs : docs[i].data["name"] # data["name"]
    <3>1. "name" \in DOMAIN data => "name" \in DOMAIN test.args /\ data["name"] = test.args["name"]
      BY <2>2 DEF Trial!Only
    <3> DEFINE names == [i \in DOMAIN before |-> before[i].data["name"]]
    <3>2. "name" \in DOMAIN test.args => test.args["name"] \notin Trial!Elements(names)
      BY <1>5 DEF Revocable, Trial!UniqueNames, Trial!Resources
    <3>3. \A i \in DOMAIN docs : docs[i].data["name"] \in Trial!Elements(names)
      BY DEF Trial!Elements
    <3> QED  BY <3>1, <3>2, <3>3
  <2>4. /\ docs' = Append(docs, made)
        /\ handles' = Append(handles, Trial!Handle("delete_product", [a \in {"product_id"} |-> made.data["name"]]))
    <3> DEFINE spec == Trial!WRITE_VERBS["create_product"]
    <3>1. spec.act = "create" /\ spec.collection = "products"
      BY VerbsAre DEF Trial!Verb
    <3>2. Trial!WRITE_VERBS[Trial!COMPENSATIONS["create_product"]].required[1] = "product_id"
      BY VerbsAre DEF Trial!Verb
    <3> HIDE DEF spec, data
    <3>3. docs' = Append(docs, Trial!Created(spec.collection, data))
      BY <2>1, <3>1 DEF Trial!CommitCurated, spec, data
    <3>4. handles' = Append(handles, Trial!Handle(Trial!COMPENSATIONS["create_product"],
             Trial!CompensationArgs("create_product", Trial!Created(spec.collection, data).data["name"])))
      BY <2>1, <3>1, VerbsAre DEF Trial!CommitCurated, spec, data
    <3> QED  BY <3>1, <3>2, <3>3, <3>4, VerbsAre DEF Trial!CompensationArgs
  <2>5. PICK name : name = made.data["name"]
    OBVIOUS
  <2>6. h.verb = "delete_product" /\ h.args = [a \in {"product_id"} |-> name]
    BY <1>2, <2>4, <2>5 DEF Trial!Handle
  <2>7. PICK c, d : c = "products" /\ d = data
    OBVIOUS
  <2> HIDE DEF data
  <2>8. /\ docs' = Append(docs, Trial!Created(c, d)) /\ name = Trial!Created(c, d).data["name"]
        /\ "name" \in DOMAIN d => \A i \in DOMAIN docs : docs[i].data["name"] # d["name"]
    BY <2>3, <2>4, <2>5, <2>7
  <2>9. Deletes(h, c, name)
    BY <2>6, <2>7 DEF Deletes
  <2> HIDE DEF made
  <2> QED  BY <2>8, <2>9, CreateIsTakenBack
<1>6. CASE test.verb = "resource.create"
  <2> DEFINE data == test.args["data"]
             target == test.args["target"]
             made == Trial!Created(target, data)
  <2>1. Trial!CommitResource(key, 1, "resource.create", test.args)
    BY <1>3, <1>6 DEF Trial!Resources
  <2>2. /\ docs' = Append(docs, made)
        /\ handles' = Append(handles,
             Trial!Handle("resource.delete", [target |-> target, id |-> made.data["name"]]))
    BY <2>1 DEF Trial!CommitResource
  <2>3. "name" \in DOMAIN data => \A i \in DOMAIN docs : docs[i].data["name"] # data["name"]
    <3> DEFINE names == [i \in DOMAIN before |-> before[i].data["name"]]
    <3>1. "data" \in DOMAIN test.args /\ test.verb \in Trial!Resources
      BY <1>6, ArgumentsAre DEF Trial!Resources
    <3>2. "name" \in DOMAIN data => data["name"] \notin Trial!Elements(names)
      BY <3>1 DEF Revocable, Trial!UniqueNames
    <3>3. \A i \in DOMAIN docs : docs[i].data["name"] \in Trial!Elements(names)
      BY DEF Trial!Elements
    <3> QED  BY <3>2, <3>3
  <2>4. PICK name : name = made.data["name"]
    OBVIOUS
  <2>5. h.verb = "resource.delete" /\ h.args = [target |-> target, id |-> name]
    BY <1>2, <2>2, <2>4 DEF Trial!Handle
  <2>6. PICK t, d : t = target /\ d = data
    OBVIOUS
  <2>7. Deletes(h, t, name)
    BY <2>5, <2>6 DEF Deletes
  <2> HIDE DEF data, target
  <2> QED  BY <2>2, <2>3, <2>4, <2>6, <2>7, CreateIsTakenBack
<1>7. CASE test.verb = "resource.delete"
  <2>1. PICK target, name, data :
          /\ target = test.args["target"] /\ name = Trial!_resolve_id(target, test.args["id"])
          /\ data = docs[Trial!Least(Trial!Named(target, name))].data
    OBVIOUS
  <2>2. Trial!CommitResource(key, 1, "resource.delete", test.args)
    BY <1>3, <1>7 DEF Trial!Resources
  <2>3. name # None
    BY <1>7, <2>1 DEF IsAstray, Trial!Resources
  <2>4. /\ docs' = Trial!Deleted(target, name)
        /\ handles' = Append(handles,
             Trial!Handle("resource.create", [target |-> target, data |-> data]))
    BY <2>1, <2>2, <2>3 DEF Trial!CommitResource
  <2>5. Trial!Named(target, name) # {}
    <3>1. test.args["id"] \notin {"", None}
      BY <1>7, ArgumentsAre DEF Trial!Resources, Trial!Given
    <3> QED  BY <2>1, <2>3, <3>1, ResolvedIs
  <2>6. h.verb = "resource.create" /\ h.args = [target |-> target, data |-> data]
    BY <1>2, <2>4 DEF Trial!Handle
  <2> QED  BY <1>4, <2>1, <2>4, <2>5, <2>6, DeleteIsTakenBack
<1> QED  BY <1>5, <1>6, <1>7 DEF Revocable

-----------------------------------------------------------------------------
(* A faithful shim fails the rows that the test is not apt for, and leaves  *)
(* one record and its reversal.                                             *)

\* The test's proposal is executed.
Executes == Code = None /\ Trial!Resolves

\* The rows that a test fails although the shim is faithful.
Fails(name) ==
  \/ name = "propose" /\ Code # None
  \/ name = "missing" /\ (Thinned = None \/ test.first = None)
  \/ name \in {"commit", "replay", "status"} /\ ~Executes
  \/ name = "query" /\ ~IsAsked
  \/ name = "reverse" /\ (test.tier = "IRREVERSIBLE" <=> Executes /\ IsMapped(test.verb))

\* Those and no other have failed.
Tallied ==
  failed = {Trial!Rows(test)[k] : k \in {k \in 1..(row - 1) : Fails(Trial!Rows(test)[k])}}

\* After the COMMIT.
Committed ==
  IF Executes
  THEN /\ Trial!Key \in DOMAIN ledger /\ 1 \in executed /\ token = Len(handles)
       /\ token = IF IsMapped(test.verb) THEN 1 ELSE 0
  ELSE docs = before /\ DOMAIN ledger = {} /\ executed = {} /\ token = 0 /\ handles = << >>

\* After the row about rollback.
LastIsReversal ==
  LET last == Len(proposals) IN
  /\ last \in DOMAIN proposals
  /\ proposals[last].verb = handles[token].verb /\ proposals[last].args = handles[token].args

\* A faithful shim.
Faithful ==
  defect = "none" =>
    /\ Tallied
    /\ writes \in {0, 1}
    /\ row > 5 /\ ~undone => Committed
    /\ row > 5 /\ ~undone /\ token # 0 /\ Revocable => TakesBack(handles[1])
    /\ row > 9 + Queries(test) /\ test.tier # None /\ ~undone /\ token # 0 => LastIsReversal
    /\ undone => IsMapped(test.verb) /\ (Revocable => Trial!Elements(docs) = Trial!Elements(before))

\* What is said of a test does not change.
LEMMA TestStays ==
  ASSUME UNCHANGED <<test, before>>
  PROVE  /\ Executes' <=> Executes
         /\ Revocable' <=> Revocable
         /\ IsMapped(test.verb)' <=> IsMapped(test.verb)
         /\ \A name : Fails(name)' <=> Fails(name)
<1>1. (Executes' <=> Executes) /\ (IsMapped(test.verb)' <=> IsMapped(test.verb))
  BY DEF Executes, Code, Trial!Resolves, IsMapped
<1>2. Revocable' <=> Revocable
  BY DEF Revocable, Trial!UniqueNames
<1>3. ASSUME NEW name
      PROVE  Fails(name)' <=> Fails(name)
  <2>1. Code' = Code /\ Thinned' = Thinned /\ (IsAsked' <=> IsAsked)
    BY DEF Code, Thinned, IsAsked
  <2> HIDE DEF Code
  <2> QED  BY <1>1, <2>1 DEF Fails
<1> QED  BY <1>1, <1>2, <1>3

\* A row is counted as it is judged.
LEMMA TallyKeeps ==
  ASSUME Tallied, row \in Nat \ {0}, NEW name, name = Trial!Rows(test)[row], NEW passed,
         IsJudged(name, passed), passed <=> ~Fails(name)
  PROVE  Tallied'
<1> DEFINE rows == Trial!Rows(test)
           F(n) == {k \in 1..n : Fails(rows[k])}
<1>1. row' = row + 1 /\ UNCHANGED <<test, before>>
  BY DEF IsJudged
<1>2. {k \in 1..(row' - 1) : Fails(Trial!Rows(test)[k])'} = F(row)
  <2>1. ASSUME NEW k
        PROVE  Fails(Trial!Rows(test)[k])' <=> Fails(rows[k])
    BY <1>1, TestStays DEF Fails
  <2>2. row' - 1 = row
    BY <1>1
  <2> HIDE DEF rows
  <2> QED  BY <2>1, <2>2
<1>3. F(row) = IF passed THEN F(row - 1) ELSE F(row - 1) \cup {row}
  <2>1. rows[row] = name
    OBVIOUS
  <2> HIDE DEF rows
  <2>2. 1..row = (1..(row - 1)) \cup {row}
    OBVIOUS
  <2>3. F(row) = {k \in 1..(row - 1) : Fails(rows[k])} \cup {k \in {row} : Fails(rows[k])}
    BY <2>2
  <2> QED  BY <2>1, <2>3
<1>4. failed = {rows[k] : k \in F(row - 1)}
  BY DEF Tallied
<1>5. failed' = IF passed THEN failed ELSE failed \cup {rows[row]}
  BY DEF IsJudged
<1> HIDE DEF F, rows
<1>6. failed' = {rows[k] : k \in F(row)}
  BY <1>3, <1>4, <1>5
<1>7. Trial!Rows(test') = rows
  BY <1>1 DEF rows
<1> QED  BY <1>2, <1>6, <1>7 DEF Tallied

\* A handle takes back what it did as long as nothing is written.
LEMMA TakesBackStays ==
  ASSUME UNCHANGED <<docs, before, handles>>, TakesBack(handles[1])
  PROVE  TakesBack(handles[1])'
<1>1. PICK h : h = handles[1]
  OBVIOUS
<1>2. TakesBack(h)'
  <2>1. \A collection, name : IsRest(collection, name)' <=> IsRest(collection, name)
    BY DEF IsRest, Trial!Named, Trial!Elements
  <2>2. Removes(h) => Removes(h)'
    BY <2>1 DEF Removes
  <2>3. Returns(h) => Returns(h)'
    BY Zenon DEF Returns
  <2> QED  BY <1>1, <2>2, <2>3 DEF TakesBack
<1> QED  BY <1>1, <1>2

\* The rows of a faithful shim that write nothing.
LEMMA HonestReads ==
  ASSUME TrialPosed, Faithful, defect = "none", ~undone, NEW name, name = Trial!Rows(test)[row],
         NEW passed, IsJudged(name, passed), passed <=> ~Fails(name), row # 5,
         UNCHANGED Stored, UNCHANGED token, row > 5 => UNCHANGED proposal,
         test.tier # None /\ row = 9 + Queries(test) /\ token # 0 => LastIsReversal',
         test.tier # None /\ row > 9 + Queries(test) => UNCHANGED proposals
  PROVE  Faithful'
<1>1. /\ row \in Nat \ {0} /\ row' = row + 1 /\ UNCHANGED <<test, before, defect, undone>>
      /\ Queries(test) \in {0, 1}
  BY LenIsNat DEF TrialPosed, IsJudged
<1>2. Tallied'
  BY <1>1, TallyKeeps DEF Faithful
<1>3. writes' \in {0, 1}
  BY DEF Faithful, IsJudged, Stored
<1>4. row' > 5 => Committed'
  <2>1. CASE row > 5
    <3>1. Committed
      BY <2>1 DEF Faithful
    <3>2. Trial!Key' = Trial!Key /\ UNCHANGED <<ledger, executed, token, handles>>
      BY <2>1 DEF Trial!Key, Stored
    <3> QED  BY <1>1, <3>1, <3>2, TestStays DEF Committed, Stored
  <2> QED  BY <1>1, <2>1
<1>5. row' > 5 /\ token' # 0 /\ Revocable' => TakesBack(handles[1])'
  BY <1>1, TestStays, TakesBackStays DEF Faithful, Stored
<1>6. row' > 9 + Queries(test) /\ test.tier # None /\ token' # 0 => LastIsReversal'
  <2>1. CASE row > 9 + Queries(test) /\ test.tier # None /\ token # 0
    <3>1. LastIsReversal
      BY <2>1 DEF Faithful
    <3> QED  BY <2>1, <3>1 DEF LastIsReversal, Stored
  <2> QED  BY <1>1, <2>1
<1>7. Queries(test)' = Queries(test)
  BY <1>1 DEF Queries
<1> QED  BY <1>1, <1>2, <1>3, <1>4, <1>5, <1>6, <1>7 DEF Faithful

\* A faithful shim previews what is not refused.
LEMMA HonestPreview ==
  ASSUME TrialPosed, defect = "none", row > 2
  PROVE  IF Code = None
         THEN /\ proposal = 1 /\ 1 \in DOMAIN proposals
              /\ proposals[1] = [verb |-> test.verb, args |-> test.args]
         ELSE proposal = 0
BY DEF TrialPosed, Previewed, IsRefused, Trial!Overlooked

\* Its COMMIT writes one record, and answers with the handle that takes it back.
LEMMA HonestCommit ==
  ASSUME TrialPosed, Faithful, defect = "none", ~undone, Trial!Commit, Trial!ConstantsAreSound
  PROVE  Faithful'
<1> DEFINE passed == answer'.state = "executed"
<1>0. row = 5 /\ UNCHANGED <<proposal, proposals>> /\ token' = answer'.token
       /\ IsJudged("commit", passed)
  BY CommitDoes
<1>1. /\ proposal = 0 => UNCHANGED Stored /\ answer'.state = "" /\ answer'.token = 0
      /\ proposal # 0 => Trial!commit(proposal, Trial!Key)
  BY CommitDoes
<1> HIDE DEF passed
<1>2. Untouched /\ IsStock(docs) /\ None \notin {"UNKNOWN_VERB", "INVALID_ARGS"}
  <2>1. Untouched /\ before \in Stocks
    BY <1>0 DEF TrialPosed
  <2>2. IsStock(before)
    BY <2>1, StockIs
  <2> QED  BY <2>1, <2>2 DEF Untouched, Trial!ConstantsAreSound
<1>3. /\ IF Code = None
         THEN /\ proposal = 1 /\ 1 \in DOMAIN proposals
              /\ proposals[1] = [verb |-> test.verb, args |-> test.args]
         ELSE proposal = 0
  BY <1>0, HonestPreview
<1>4. UNCHANGED <<test, before, defect, undone>> /\ row' = 6 /\ Trial!Key' = Trial!Key
  BY <1>0 DEF IsJudged, Trial!Key
<1>5. writes' \in {0, 1}
  BY <1>0, <1>2 DEF IsJudged, Untouched
<1>6. Queries(test)' \in {0, 1}
  BY <1>4, RowsAre DEF Queries
<1>7. SUFFICES /\ passed <=> Executes
               /\ Committed'
               /\ token' # 0 /\ Revocable => TakesBack(handles[1])'
  <2>1. Trial!Rows(test)[row] = "commit"
    BY <1>0, RowsAre
  <2>2. Fails("commit") <=> ~Executes
    BY DEF Fails
  <2>3. Tallied
    BY DEF Faithful
  <2>4. ASSUME passed <=> Executes
        PROVE  Tallied'
    <3>1. (passed <=> ~Fails("commit")) /\ IsJudged("commit", passed) /\ row \in Nat \ {0}
      BY <1>0, <2>2, <2>4
    <3> QED  BY <2>1, <2>3, <3>1, TallyKeeps
  <2> QED  BY <1>4, <1>5, <1>6, <2>4, TestStays DEF Faithful
<1>8. CASE Code # None
  <2>1. UNCHANGED Stored /\ answer'.state = "" /\ token' = 0 /\ ~Executes /\ ~Executes'
    BY <1>0, <1>1, <1>3, <1>4, <1>8, TestStays DEF Executes
  <2> QED  BY <1>2, <1>4, <2>1 DEF passed, Committed, Untouched, Stored
<1>9. CASE Code = None
  <2>1. proposal = 1 /\ 1 \in DOMAIN proposals /\ Trial!commit(1, Trial!Key)
    BY <1>1, <1>3, <1>9
  <2>2. Trial!Key \notin DOMAIN ledger
    BY <1>2 DEF Untouched
  <2>3. IsAstray(proposals[1]) <=> ~Executes
    BY <1>2, <1>3, <1>9, AstrayIs DEF Executes, Untouched
  <2>4. CASE ~Executes
    <3>1. UNCHANGED Stored /\ answer'.state = "failed_terminal" /\ token' = 0 /\ ~Executes'
      BY <1>0, <1>4, <2>1, <2>2, <2>3, <2>4, CommitIs, TestStays
    <3> QED  BY <1>2, <1>4, <2>4, <3>1 DEF passed, Committed, Untouched, Stored
  <2>5. CASE Executes
    <3>1. IsWritten(Trial!Key, 1, test.verb)
      <4>1. IsWritten(Trial!Key, 1, proposals[1].verb)
        BY <2>1, <2>2, <2>3, <2>5, CommitIs
      <4>2. proposals[1].verb = test.verb
        BY <1>3, <1>9
      <4> QED  BY <4>1, <4>2
    <3>2. /\ answer'.state = "executed" /\ 1 \in executed' /\ Trial!Key \in DOMAIN ledger'
      BY <3>1 DEF IsWritten
    <3>3. token' = Len(handles') /\ token' = IF IsMapped(test.verb) THEN 1 ELSE 0
      <4>1. Len(handles) = 0 /\ IsList(handles)
        BY <1>2, NoneIsList DEF Untouched
      <4>2. CASE IsMapped(test.verb)
        <5>1. PICK h : handles' = Append(handles, h)
          BY <3>1, <4>2 DEF IsWritten
        <5>2. Len(handles') = 1
          BY <4>1, <5>1, AddedIs DEF IsAdded
        <5> QED  BY <1>0, <3>1, <4>1, <4>2, <5>2 DEF IsWritten
      <4>3. CASE ~IsMapped(test.verb)
        BY <1>0, <3>1, <4>1, <4>3 DEF IsWritten
      <4> QED  BY <4>2, <4>3
    <3>4. Committed'
      BY <1>4, <2>5, <3>2, <3>3, TestStays DEF Committed
    <3>5. Revocable => TakesBack(handles[1])'
      <4>1. docs = before /\ handles = << >>
        BY <1>2 DEF Untouched
      <4>2. PICK key : key = Trial!Key
        OBVIOUS
      <4> QED  BY <1>2, <1>3, <1>4, <1>9, <2>1, <2>2, <2>3, <2>5, <4>1, <4>2, CommitTakesBack
    <3> QED  BY <2>5, <3>2, <3>4, <3>5 DEF passed
  <2> QED  BY <2>4, <2>5
<1> QED  BY <1>8, <1>9

\* Its replay writes none.
LEMMA HonestReplay ==
  ASSUME TrialPosed, Faithful, defect = "none", ~undone, Trial!Replay, Trial!ConstantsAreSound
  PROVE  Faithful'
<1> DEFINE passed == proposal # 0 /\ Trial!Key \in DOMAIN ledger
<1>1. row = 6 /\ UNCHANGED <<proposal, proposals, token>> /\ IsJudged("replay", passed)
  BY ReplayDoes
<1>2. /\ proposal = 0 => UNCHANGED Stored
      /\ proposal # 0 => Trial!commit(proposal, Trial!Key)
  BY ReplayDoes
<1>3. Committed
  BY <1>1 DEF Faithful
<1>4. /\ IF Code = None
         THEN /\ proposal = 1 /\ 1 \in DOMAIN proposals
              /\ proposals[1] = [verb |-> test.verb, args |-> test.args]
         ELSE proposal = 0
  BY <1>1, HonestPreview
<1>5. (passed <=> Executes) /\ UNCHANGED Stored
  <2>1. CASE Executes
    <3>1. Code = None /\ proposal = 1 /\ Trial!Key \in DOMAIN ledger
      BY <1>3, <1>4, <2>1 DEF Executes, Committed
    <3>2. UNCHANGED Stored
      BY <1>2, <3>1, CommitIs
    <3> QED  BY <2>1, <3>1, <3>2
  <2>2. CASE Code # None
    <3>1. proposal = 0 /\ ~Executes
      BY <1>4, <2>2 DEF Executes
    <3> QED  BY <1>2, <3>1
  <2>3. CASE Code = None /\ ~Executes
    <3>1. docs = before /\ DOMAIN ledger = {}
      BY <1>3, <2>3 DEF Committed
    <3>2. IsStock(docs) /\ None \notin {"UNKNOWN_VERB", "INVALID_ARGS"}
      <4>1. before \in Stocks
        BY DEF TrialPosed
      <4>2. IsStock(before)
        BY <4>1, StockIs
      <4> QED  BY <3>1, <4>2 DEF Trial!ConstantsAreSound
    <3>3. IsAstray(proposals[1])
      BY <1>4, <2>3, <3>1, <3>2, AstrayIs DEF Executes
    <3>4. proposal = 1 /\ 1 \in DOMAIN proposals /\ Trial!commit(1, Trial!Key)
      BY <1>2, <1>4, <2>3
    <3>5. UNCHANGED Stored
      BY <3>1, <3>3, <3>4, CommitIs
    <3> QED  BY <2>3, <3>1, <3>5
  <2> QED  BY <2>1, <2>2, <2>3
<1>6. Trial!Rows(test)[row] = "replay" /\ Queries(test) \in {0, 1}
  BY <1>1, RowsAre
<1>7. passed <=> ~Fails("replay")
  BY <1>5 DEF Fails
<1> HIDE DEF passed
<1> QED  BY <1>1, <1>5, <1>6, <1>7, HonestReads

\* So a faithful shim stays one.
LEMMA FaithfulKeeps ==
  ASSUME TrialPosed, Faithful, defect = "none", Trial!Next, ~Trial!Undo, Trial!ConstantsAreSound
  PROVE  Faithful'
<1>1. /\ None \notin Trial!Declared /\ None \notin {"UNKNOWN_VERB", "INVALID_ARGS"}
      /\ IsList(handles) /\ IsList(proposals) /\ ~undone
  BY PosedKeeps DEF Trial!ConstantsAreSound, TrialPosed
<1>2. Queries(test) \in {0, 1}
  BY RowsAre
<1>3. ASSUME NEW name, Trial!At(name)
      PROVE  name = Trial!Rows(test)[row]
  BY <1>3, PlaceIs
<1>4. \A code : IsRefused(code) <=> code # None
  BY DEF IsRefused, Trial!Overlooked
<1>5. CASE Trial!Describe
  <2> DEFINE passed == defect # "lost"
  <2>1. row = 1 /\ IsJudged("describe", passed) /\ UNCHANGED <<proposal, token>> /\ UNCHANGED Stored
    BY <1>5, DescribeDoes
  <2>2. (passed <=> ~Fails("describe")) /\ Trial!At("describe")
    BY <1>5 DEF Fails, Trial!Describe
  <2> HIDE DEF passed
  <2> QED  BY <1>1, <1>2, <1>3, <2>1, <2>2, HonestReads
<1>6. CASE Trial!Propose
  <2> DEFINE passed == ~IsRefused(Code)
  <2>1. row = 2 /\ IsJudged("propose", passed) /\ UNCHANGED token /\ UNCHANGED Stored
    BY <1>6, ProposeDoes
  <2>2. (passed <=> ~Fails("propose")) /\ Trial!At("propose")
    BY <1>4, <1>6 DEF Fails, Trial!Propose
  <2> HIDE DEF passed
  <2> QED  BY <1>1, <1>2, <1>3, <2>1, <2>2, HonestReads
<1>7. CASE Trial!Unknown
  <2> DEFINE passed == defect # "free"
  <2>1. row = 3 /\ IsJudged("unknown", passed) /\ UNCHANGED <<proposal, token>> /\ UNCHANGED Stored
    BY <1>1, <1>7, UnknownDoes
  <2>2. (passed <=> ~Fails("unknown")) /\ Trial!At("unknown")
    BY <1>7 DEF Fails, Trial!Unknown
  <2> HIDE DEF passed
  <2> QED  BY <1>1, <1>2, <1>3, <2>1, <2>2, HonestReads
<1>8. CASE Trial!Omitted
  <2> DEFINE passed == IsRefused(Thinned) /\ test.first # None
  <2>1. row = 4 /\ IsJudged("missing", passed) /\ UNCHANGED <<proposal, token>> /\ UNCHANGED Stored
    BY <1>8, OmittedDoes
  <2>2. (passed <=> ~Fails("missing")) /\ Trial!At("missing")
    BY <1>4, <1>8 DEF Fails, Trial!Omitted
  <2> HIDE DEF passed
  <2> QED  BY <1>1, <1>2, <1>3, <2>1, <2>2, HonestReads
<1>9. CASE Trial!Commit
  BY <1>1, <1>9, HonestCommit
<1>10. CASE Trial!Replay
  BY <1>1, <1>10, HonestReplay
<1>11. CASE Trial!Status
  <2> DEFINE passed == proposal # 0 /\ proposal \in executed
  <2>1. /\ row = 7 /\ IsJudged("status", passed) /\ UNCHANGED <<proposal, token>> /\ UNCHANGED Stored
    BY <1>11, StatusDoes
  <2>2. passed <=> Executes
    <3>1. Committed
      BY <1>1, <2>1 DEF Faithful
    <3>2. Code = None => proposal = 1
      BY <2>1, HonestPreview
    <3> QED  BY <3>1, <3>2 DEF Committed, Executes
  <2>3. (passed <=> ~Fails("status")) /\ Trial!At("status")
    BY <1>11, <2>2 DEF Fails, Trial!Status
  <2> HIDE DEF passed
  <2> QED  BY <1>1, <1>2, <1>3, <2>1, <2>3, HonestReads
<1>12. CASE Trial!Phantom
  <2> DEFINE passed == defect # "phantom"
  <2>1. 0 \notin DOMAIN proposals /\ <<"phantom", 0>> \notin DOMAIN ledger
    BY <1>1, ListIs DEF TrialPosed, Trial!Key
  <2>2. row = 8 /\ IsJudged("phantom", passed) /\ UNCHANGED <<proposal, token>> /\ UNCHANGED Stored
    BY <1>12, <2>1, PhantomDoes
  <2>3. (passed <=> ~Fails("phantom")) /\ Trial!At("phantom")
    BY <1>12 DEF Fails, Trial!Phantom
  <2> HIDE DEF passed
  <2> QED  BY <1>1, <1>2, <1>3, <2>2, <2>3, HonestReads
<1>13. CASE Trial!Query
  <2>1. /\ row = 9 /\ Queries(test) = 1 /\ IsJudged("query", IsAsked)
        /\ UNCHANGED <<proposal, token>> /\ UNCHANGED Stored
    BY <1>1, <1>13, QueryDoes DEF Queries
  <2>2. (IsAsked <=> ~Fails("query")) /\ Trial!At("query")
    BY <1>13 DEF Fails, Trial!Query
  <2> QED  BY <1>1, <1>2, <1>3, <2>1, <2>2, HonestReads
<1>14. CASE Trial!Reverse
  <2> DEFINE passed == IF token \notin DOMAIN handles THEN test.tier = "IRREVERSIBLE"
                       ELSE defect # "rash" /\ test.tier # "IRREVERSIBLE"
  <2>1. /\ row = 9 + Queries(test) /\ IsJudged("reverse", passed)
        /\ UNCHANGED <<proposal, token>> /\ UNCHANGED Stored
    BY <1>14, ReverseDoes
  <2>2. Committed
    BY <1>1, <1>2, <2>1 DEF Faithful
  <2>3. token \in DOMAIN handles <=> Executes /\ IsMapped(test.verb)
    BY <1>1, <2>2, ListIs DEF Committed
  <2>4. (passed <=> ~Fails("reverse")) /\ Trial!At("reverse")
    BY <1>14, <2>3 DEF Fails, Trial!Reverse
  <2>5. token # 0 => LastIsReversal'
    <3> SUFFICES ASSUME token # 0
                 PROVE  LastIsReversal'
      OBVIOUS
    <3> DEFINE p == [verb |-> handles[token].verb, args |-> handles[token].args]
    <3>1. token \in DOMAIN handles
      BY DEF TrialPosed
    <3>2. proposals' = Append(proposals, p)
      BY <1>14, <3>1, ReverseDoes
    <3>3. UNCHANGED <<handles, token>> /\ p.verb = handles[token].verb /\ p.args = handles[token].args
      BY <2>1 DEF Stored
    <3> HIDE DEF p
    <3>4. Len(proposals') \in DOMAIN proposals' /\ proposals'[Len(proposals')] = p
      BY <1>1, <3>2, AddedIs DEF IsAdded
    <3> QED  BY <3>3, <3>4 DEF LastIsReversal
  <2> HIDE DEF passed
  <2> QED  BY <1>1, <1>2, <1>3, <2>1, <2>4, <2>5, HonestReads
<1>15. CASE Trial!Expired
  <2>1. /\ row = 10 + Queries(test) /\ IsJudged("expired", TRUE)
        /\ UNCHANGED <<proposal, proposals, token>> /\ UNCHANGED Stored
    BY <1>1, <1>15, ExpiredDoes
  <2>2. ~Fails("expired") /\ Trial!At("expired")
    BY <1>15 DEF Fails, Trial!Expired
  <2>3. row # 5 /\ row # 9 + Queries(test)
    BY <1>2, <2>1
  <2> QED  BY <1>1, <1>3, <2>1, <2>2, <2>3, HonestReads
<1> QED  BY <1>5, <1>6, <1>7, <1>8, <1>9, <1>10, <1>11, <1>12, <1>13, <1>14, <1>15 DEF Trial!Next

-----------------------------------------------------------------------------
(* The owner's reversal, and the whole.                                     *)

\* The inductive invariant of a test.
TrialInv == TrialPosed /\ Caught /\ Faithful

\* The last proposal is the reversal, and it restores the records.
LEMMA UndoKeeps ==
  ASSUME TrialInv, Trial!Undo
  PROVE  TrialInv'
<1>1. /\ Trial!Finished /\ ~undone /\ token # 0 /\ test.tier # None /\ defect = "none"
      /\ undone' = TRUE /\ UNCHANGED <<test, row, failed, before, writes, proposal, token>>
  BY DEF Trial!Undo, Trial!Kept
<1>2. Trial!commit(Len(proposals), <<"owner", token>>)
  BY DEF Trial!Undo
<1>3. TrialPosed /\ Faithful
  BY DEF TrialInv
<1>4. <<"owner", token>> \notin DOMAIN ledger
  BY <1>1, <1>3 DEF TrialPosed, Trial!Key
<1>5. row > 9 + Queries(test) /\ row > 5 /\ Queries(test) \in {0, 1}
  <2>1. Len(Trial!Rows(test)) = 10 + Queries(test) /\ Queries(test) \in {0, 1}
    BY <1>1, LenIsNat
  <2>2. row > 10 + Queries(test) /\ row \in 1..(Len(Trial!Rows(test)) + 1)
    BY <1>1, <1>3, <2>1 DEF TrialPosed, Trial!Finished
  <2> QED  BY <2>1, <2>2
<1>6. LastIsReversal /\ Committed /\ Tallied
  BY <1>1, <1>3, <1>5 DEF Faithful
<1>7. token = 1 /\ IsMapped(test.verb)
  BY <1>1, <1>6 DEF Committed
<1>8. UNCHANGED <<defect, proposals>> /\ IsList(handles') /\ DOMAIN handles \subseteq DOMAIN handles'
  <2>1. IsList(handles)
    BY <1>3 DEF TrialPosed
  <2>2. \/ UNCHANGED Stored
        \/ IsWritten(<<"owner", token>>, Len(proposals), proposals[Len(proposals)].verb)
    BY <1>2, <1>4, <1>6, CommitIs DEF LastIsReversal
  <2>3. UNCHANGED handles \/ \E h : handles' = Append(handles, h)
    BY <2>2 DEF Stored, IsWritten
  <2>4. ASSUME NEW h, handles' = Append(handles, h)
        PROVE  IsList(handles') /\ DOMAIN handles \subseteq DOMAIN handles'
    BY <2>1, <2>4, AddedIs, ListIs DEF IsAdded
  <2> QED  BY <1>2, <2>1, <2>3, <2>4, CommitIs
<1>9. Revocable => Trial!Elements(docs') = Trial!Elements(before)
  <2> SUFFICES ASSUME Revocable
               PROVE  Trial!Elements(docs') = Trial!Elements(before)
    OBVIOUS
  <2>1. PICK h, id, key : h = handles[1] /\ id = Len(proposals) /\ key = <<"owner", token>>
    OBVIOUS
  <2>2. TakesBack(h)
    BY <1>1, <1>3, <1>5, <2>1 DEF Faithful
  <2>3. id \in DOMAIN proposals /\ proposals[id].verb = h.verb /\ proposals[id].args = h.args
    BY <1>6, <1>7, <2>1 DEF LastIsReversal
  <2> QED  BY <1>2, <1>4, <2>1, <2>2, <2>3, TakenBackIs
<1>10. TrialPosed'
  <2>1. Previewed'
    <3>1. Previewed
      BY <1>3, <1>5 DEF TrialPosed
    <3>2. Code' = Code /\ (IsRefused(Code)' <=> IsRefused(Code))
      BY <1>1, <1>8 DEF Code, IsRefused, Trial!Overlooked
    <3> HIDE DEF Code
    <3> QED  BY <1>1, <1>8, <3>1, <3>2 DEF Previewed
  <2>2. Len(Trial!Rows(test))' = Len(Trial!Rows(test)) /\ Trial!Finished'
    BY <1>1 DEF Trial!Finished
  <2>3. ~(row' <= 2) /\ ~(row' <= 5)
    BY <1>1, <1>3, <1>5, LenIsNat DEF TrialPosed
  <2> QED  BY <1>1, <1>3, <1>8, <2>1, <2>2, <2>3 DEF TrialPosed
<1>11. Caught'
  BY <1>1, <1>8 DEF Caught
<1>12. Faithful'
  <2>1. Tallied'
    <3>1. ASSUME NEW k
          PROVE  Fails(Trial!Rows(test)[k])' <=> Fails(Trial!Rows(test)[k])
      BY <1>1, TestStays DEF Fails
    <3> QED  BY <1>1, <1>6, <3>1 DEF Tallied
  <2>2. (IsMapped(test.verb)' <=> IsMapped(test.verb)) /\ (Revocable' <=> Revocable)
    BY <1>1, TestStays
  <2>3. writes' \in {0, 1}
    BY <1>1, <1>3 DEF Faithful
  <2>4. Trial!Elements(docs)' = Trial!Elements(docs')
         /\ Trial!Elements(before)' = Trial!Elements(before)
    BY <1>1 DEF Trial!Elements
  <2> QED  BY <1>1, <1>7, <1>9, <2>1, <2>2, <2>3, <2>4 DEF Faithful
<1> QED  BY <1>10, <1>11, <1>12 DEF TrialInv

\* Every step of a test keeps the invariant.
LEMMA TrialKeeps ==
  ASSUME TrialInv, Trial!Next
  PROVE  TrialInv'
<1>1. CASE Trial!Undo
  BY <1>1, UndoKeeps
<1>2. CASE ~Trial!Undo
  <2>1. Trial!ConstantsAreSound
    BY ToolkitAssumption
  <2>2. TrialPosed' /\ UNCHANGED defect
    BY <1>2, <2>1, PosedKeeps DEF TrialInv
  <2>3. Caught'
    BY <1>2, <2>1, CaughtKeeps DEF TrialInv
  <2>4. Faithful'
    <3>1. CASE defect = "none"
      BY <1>2, <2>1, <3>1, FaithfulKeeps DEF TrialInv
    <3>2. CASE defect # "none"
      BY <2>2, <3>2 DEF Faithful
    <3> QED  BY <3>1, <3>2
  <2> QED  BY <2>2, <2>3, <2>4 DEF TrialInv
<1> QED  BY <1>1, <1>2

\* A test begins with it.
LEMMA TrialBegins ==
  ASSUME NEW t, NEW d \in Defects, NEW s \in Stocks, Trial!Pose(t, d, s)
  PROVE  TrialInv
<1>1. Trial!ConstantsAreSound
  BY ToolkitAssumption
<1>2. /\ defect = d /\ docs = s /\ proposals = << >> /\ ledger = << >> /\ executed = {}
      /\ handles = << >> /\ test = t /\ row = 1 /\ failed = {} /\ proposal = 0 /\ token = 0
      /\ before = s /\ writes = 0 /\ undone = FALSE
  BY DEF Trial!Pose, Trial!Start
<1>3. TrialPosed
  <2>1. d \in {"none", "free", "thin", "again", "phantom", "blind", "rash", "lost"}
    BY <1>1 DEF Trial!ConstantsAreSound
  <2>2. row \in 1..(Len(Trial!Rows(test)) + 1)
    BY <1>2, LenIsNat
  <2>3. Untouched
    BY <1>2 DEF Untouched
  <2>4. IsList(proposals) /\ IsList(handles)
    BY <1>2, NoneIsList
  <2>5. DOMAIN ledger = {}
    BY <2>3 DEF Untouched
  <2>6. ~undone /\ undone \in BOOLEAN /\ token \in {0} \cup DOMAIN handles /\ before \in Stocks
    BY <1>2
  <2>7. row <= 2 /\ ~(row > 2) /\ proposals = << >>
    BY <1>2
  <2>8. defect \in {"none", "free", "thin", "again", "phantom", "blind", "rash", "lost"}
    BY <1>2, <2>1
  <2> QED  BY <2>2, <2>3, <2>4, <2>5, <2>6, <2>7, <2>8 DEF TrialPosed
<1>4. Caught
  BY <1>2, RowsAre DEF Caught
<1>5. Faithful
  <2>1. Tallied
    BY <1>2 DEF Tallied
  <2>2. Queries(test) \in {0, 1}
    BY RowsAre
  <2> QED  BY <1>2, <2>1, <2>2 DEF Faithful
<1> QED  BY <1>3, <1>4, <1>5 DEF TrialInv

\* An apt test is one that no row of it fails.
LEMMA AptIs ==
  (\A k \in 1..Len(Trial!Rows(test)) : ~Fails(Trial!Rows(test)[k])) <=> Trial!Apt /\ Trial!Resolves
<1> DEFINE rows == Trial!Rows(test)
           Asks == test.query = None \/ IsAsked
           Tells == test.tier = None \/ ((test.tier = "IRREVERSIBLE") <=> ~IsMapped(test.verb))
<1>1. Trial!Apt <=> test.first # None /\ Code = None /\ Thinned # None /\ Asks /\ Tells
  <2>1. /\ (test.query \in {None, "list_clients"}
            \/ (test.query = "resource.read" /\ test.target \in Trial!Declared))
             <=> Asks
        /\ (test.tier = None \/ ((test.tier = "IRREVERSIBLE")
             = (test.verb \notin Trial!Resources \cup DOMAIN Trial!COMPENSATIONS))) <=> Tells
    BY DEF IsAsked, IsMapped
  <2> HIDE DEF Asks, Tells
  <2> QED  BY <2>1 DEF Trial!Apt, Code, Thinned
<1>2. /\ 2 \in 1..Len(rows) /\ rows[2] = "propose" /\ 4 \in 1..Len(rows) /\ rows[4] = "missing"
      /\ 5 \in 1..Len(rows) /\ rows[5] = "commit"
      /\ test.query # None => 9 \in 1..Len(rows) /\ rows[9] = "query"
      /\ test.tier # None => 9 + Queries(test) \in 1..Len(rows) /\ rows[9 + Queries(test)] = "reverse"
  <2>1. /\ Len(rows) = 8 + Queries(test) + (IF test.tier = None THEN 0 ELSE 2)
        /\ Queries(test) = IF test.query = None THEN 0 ELSE 1
    BY RowsAre DEF Queries
  <2>2. /\ rows[2] = "propose" /\ rows[4] = "missing" /\ rows[5] = "commit"
        /\ test.query # None => rows[9] = "query"
        /\ test.tier # None => rows[9 + Queries(test)] = "reverse"
    BY RowsAre
  <2> HIDE DEF rows
  <2> QED  BY <2>1, <2>2
<1>3. ASSUME \A k \in 1..Len(rows) : ~Fails(rows[k])
      PROVE  Trial!Apt /\ Trial!Resolves
  <2>1. /\ ~Fails("propose") /\ ~Fails("missing") /\ ~Fails("commit")
        /\ test.query # None => ~Fails("query")
        /\ test.tier # None => ~Fails("reverse")
    BY <1>2, <1>3
  <2> HIDE DEF rows
  <2> QED  BY <1>1, <2>1 DEF Fails, Executes
<1>4. ASSUME Trial!Apt, Trial!Resolves, NEW k \in 1..Len(rows)
      PROVE  ~Fails(rows[k])
  <2>1. /\ rows[k] = "query" => test.query # None
        /\ rows[k] = "reverse" => test.tier # None
    <3>1. k \in DOMAIN Trial!Rows(test)
      BY <1>4, LenIsNat
    <3> QED  BY <3>1, PlaceOf
  <2> HIDE DEF rows
  <2> QED  BY <1>1, <1>4, <2>1 DEF Fails, Executes
<1> QED  BY <1>3, <1>4

\* And it tells what a test is for.
LEMMA TrialSuffices ==
  ASSUME TrialInv
  PROVE  Trial!TestIsTelling
<1>1. TrialPosed /\ Caught /\ Faithful
  BY DEF TrialInv
<1> DEFINE n == Len(Trial!Rows(test))
<1>2. /\ n \in Nat /\ n >= 8 + Queries(test) /\ Queries(test) \in {0, 1}
      /\ test.tier # None => n = 10 + Queries(test)
  BY LenIsNat
<1>3. row \in 1..(n + 1) /\ (Trial!Finished => row = n + 1)
  BY <1>1, <1>2 DEF TrialPosed, Trial!Finished
<1> HIDE DEF n
<1>4. Trial!FaithfulPasses
  <2> SUFFICES ASSUME Trial!Finished, defect = "none"
               PROVE  failed = {} <=> Trial!Apt /\ Trial!Resolves
    BY DEF Trial!FaithfulPasses
  <2>1. failed = {Trial!Rows(test)[k] : k \in {k \in 1..(row - 1) : Fails(Trial!Rows(test)[k])}}
    BY <1>1 DEF Faithful, Tallied
  <2>2. row - 1 = n
    BY <1>2, <1>3
  <2>3. failed = {} <=> \A k \in 1..n : ~Fails(Trial!Rows(test)[k])
    BY <2>1, <2>2
  <2> QED  BY <2>3, AptIs DEF n
<1>5. Trial!BrokenFails
  <2> SUFFICES ASSUME Trial!Finished, defect # "none",
                      defect = "rash" => token # 0 /\ test.tier # None
               PROVE  failed # {}
    BY DEF Trial!BrokenFails
  <2>1. row > 8 /\ (test.tier # None => row > 9 + Queries(test))
    BY <1>2, <1>3
  <2>2. defect \in {"none", "free", "thin", "again", "phantom", "blind", "rash", "lost"}
    BY <1>1 DEF TrialPosed
  <2> QED  BY <1>1, <1>3, <2>1, <2>2 DEF Caught
<1>6. Trial!OneEffect
  <2> SUFFICES ASSUME defect = "none"
               PROVE  /\ writes <= 1
                      /\ (\A k \in 1..(row - 1) : Trial!Rows(test)[k] # "commit") => docs = before
    BY DEF Trial!OneEffect
  <2>1. writes \in {0, 1}
    BY <1>1 DEF Faithful
  <2>2. ASSUME \A k \in 1..(row - 1) : Trial!Rows(test)[k] # "commit"
        PROVE  docs = before
    <3>1. Trial!Rows(test)[5] = "commit"
      BY RowsAre
    <3>2. row <= 5
      BY <1>2, <1>3, <2>2, <3>1
    <3> QED  BY <1>1, <3>2 DEF TrialPosed, Untouched
  <2> QED  BY <2>1, <2>2
<1>7. Trial!UndoRestores
  <2> SUFFICES ASSUME undone, Trial!UniqueNames,
                      test.verb \notin {"record_payment", "create_invoice", "resource.update"}
               PROVE  Trial!Elements(docs) = Trial!Elements(before)
    BY DEF Trial!UndoRestores
  <2>1. defect = "none"
    BY <1>1 DEF TrialPosed
  <2>2. IsMapped(test.verb) /\ (Revocable => Trial!Elements(docs) = Trial!Elements(before))
    BY <1>1, <2>1 DEF Faithful
  <2>3. test.verb \in {"create_product", "resource.create", "resource.delete"}
    BY <2>2, VerbsAre DEF IsMapped, Trial!Resources
  <2> QED  BY <2>2, <2>3 DEF Revocable
<1> QED  BY <1>4, <1>5, <1>6, <1>7 DEF Trial!TestIsTelling

\* A faithful shim passes the tests that are apt and no other, a broken one fails a row; the
\* test leaves one record, and the reversal that it previews takes it back.
THEOREM TestsTell == ToolkitSpec => []TestIsTelling
<1> DEFINE Keep == IF job = "conformance" THEN TrialInv
                   ELSE row = 1 /\ undone = FALSE /\ docs = before /\ writes = 0
<1>1. ASSUME ToolkitInit PROVE Keep
  <2>1. CASE job = "conformance" /\ Trial!Init
    <3>1. PICK t \in Tests, d \in Defects, s \in Stocks : Trial!Pose(t, d, s)
      BY <2>1 DEF Trial!Init
    <3> QED  BY <2>1, <3>1, TrialBegins
  <2>2. CASE job # "conformance" /\ IdleTrial
    BY <2>2 DEF IdleTrial, Trial!Pose, Trial!Start
  <2> QED  BY <1>1, <2>1, <2>2 DEF ToolkitInit
<1>2. ASSUME Keep, [ToolkitNext]_toolkit PROVE Keep'
  <2>1. CASE UNCHANGED testing /\ UNCHANGED job
    <3>1. UNCHANGED <<defect, docs, proposals, ledger, executed, handles, test, row, failed,
                      proposal, token, before, writes, undone>>
      BY <2>1 DEF testing
    <3>2. ASSUME TrialInv PROVE TrialInv'
      <4>1. TrialPosed'
        BY <3>1, <3>2 DEF TrialInv, TrialPosed, Untouched, Previewed, Code, IsRefused, IsList,
                          Trial!Overlooked, Trial!Finished, Trial!Key
      <4>2. Caught'
        BY <3>1, <3>2 DEF TrialInv, Caught, Queries
      <4>3. Faithful'
        <5>1. /\ Executes' <=> Executes
              /\ Revocable' <=> Revocable
              /\ IsMapped(test.verb)' <=> IsMapped(test.verb)
              /\ \A name : Fails(name)' <=> Fails(name)
          BY <3>1, TestStays
        <5>2. TakesBack(handles[1]) => TakesBack(handles[1])'
          BY <3>1, TakesBackStays
        <5>3. Tallied => Tallied'
          <6>1. ASSUME NEW k
                PROVE  Fails(Trial!Rows(test)[k])' <=> Fails(Trial!Rows(test)[k])
            BY <3>1, <5>1 DEF Fails
          <6> QED  BY <3>1, <6>1 DEF Tallied
        <5>4. (Committed => Committed') /\ (LastIsReversal => LastIsReversal')
          BY <3>1, <5>1 DEF Committed, LastIsReversal, Trial!Key
        <5>5. Trial!Elements(docs)' = Trial!Elements(docs)
               /\ Trial!Elements(before)' = Trial!Elements(before)
          BY <3>1 DEF Trial!Elements
        <5>6. Queries(test)' = Queries(test)
          BY <3>1 DEF Queries
        <5> QED  BY <3>1, <3>2, <5>1, <5>2, <5>3, <5>4, <5>5, <5>6 DEF TrialInv, Faithful
      <4> QED  BY <4>1, <4>2, <4>3 DEF TrialInv
    <3> QED  BY <1>2, <2>1, <3>1, <3>2
  <2>2. CASE TestShim
    <3>1. job = "conformance" /\ job' = "conformance" /\ Trial!Next
      BY <2>2 DEF TestShim
    <3>2. TrialInv'
      BY <1>2, <3>1, TrialKeeps
    <3> QED  BY <3>1, <3>2
  <2> QED
    BY <1>2, <2>1, <2>2 DEF ToolkitNext, CallBackend, ResolveWords, KeepManifest, ServeIntents, toolkit
<1>3. Keep => TestIsTelling
  <2>1. CASE job = "conformance"
    BY <2>1, TrialSuffices DEF TestIsTelling
  <2>2. ASSUME row = 1, undone = FALSE, docs = before, writes = 0 PROVE TestIsTelling
    <3>1. Len(Trial!Rows(test)) \in Nat /\ Len(Trial!Rows(test)) >= 8
      BY LenIsNat
    <3>2. ~Trial!Finished
      BY <2>2, <3>1 DEF Trial!Finished
    <3>3. Trial!FaithfulPasses /\ Trial!BrokenFails
      BY <3>2 DEF Trial!FaithfulPasses, Trial!BrokenFails
    <3>4. Trial!OneEffect
      BY <2>2 DEF Trial!OneEffect
    <3>5. Trial!UndoRestores
      BY <2>2 DEF Trial!UndoRestores
    <3> QED  BY <3>3, <3>4, <3>5 DEF TestIsTelling, Trial!TestIsTelling
  <2> QED  BY <2>1, <2>2
<1> QED  BY <1>1, <1>2, <1>3, PTL DEF ToolkitSpec
=============================================================================
