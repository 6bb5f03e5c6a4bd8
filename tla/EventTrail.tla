----------------------------- MODULE EventTrail -----------------------------
(***************************************************************************)
(* The events of a workspace's adapters on their way to the two places that*)
(* take each of them once: the control plane's ledger, which knows an event*)
(* by its id, and the SDK's EventDeduper, which knows it by its number.    *)
(* The adapters number their events in memory, each for itself.  The       *)
(* network delivers an event any number of times and in any order.         *)
(*                                                                         *)
(* The control plane's views of the ledger are operators below.            *)
(***************************************************************************)
EXTENDS Integers, SequencesExt

CONSTANTS
  Adapters,
  Proposals,    \* proposals the adapters have minted
  Home,         \* the adapter of a proposal
  Words,        \* what an announcement says of its proposal: verb, tier and preview
  Entity,       \* what a result says of the proposal: the affected entity
  Window,       \* max_entries of the deduper
  MaxEvents,    \* bound: events that are emitted
  MaxDeliveries,   \* bound: deliveries to each place
  None

Places == {"ledger", "sdk"}

ASSUME TrailAssumption ==
  /\ Home \in [Proposals -> Adapters]
  /\ Window \in Nat \ {0}
  /\ MaxEvents \in Nat
  /\ MaxDeliveries \in [Places -> Nat]
  /\ None \notin Adapters \cup Words
  /\ Entity \notin Words \cup {None}

\* What an adapter identifies its events by: an envelope id, as the generated edges
\* do, only a number, or neither.
Tags == {"id", "number", "none"}

\* An event that announces its proposal says what it is; one with a result is told of as
\* executed, be it a rollback.
Event == [adapter : Adapters, number : Nat, proposal : Proposals,
          event : {"proposed", "executed", "refused"}, words : Words \cup {None}, tag : Tags]

VARIABLES
  emitter,   \* by what each adapter's events are known
  sent,      \* the events that were emitted; an index is an event's identity
  numbers,   \* ShimState._seq
  events,    \* the ledger's rows in the order of their ids
  seen,      \* EventDeduper._seen, oldest first
  reached,   \* the events that have reached each place
  deliveries,
  handled,   \* history: when the SDK's handler saw each event last, or 0
  news       \* history: events that were new to the deduper

vars == <<emitter, sent, numbers, events, seen, reached, deliveries, handled, news>>

Sent == 1..Len(sent)

TypeOK ==
  /\ emitter \in [Adapters -> Tags]
  /\ sent \in Seq(Event)
  /\ numbers \in [Adapters -> Nat]
  /\ events \in Seq(Sent)
  /\ seen \in Seq(Nat)
  /\ reached \in [Places -> SUBSET Sent]
  /\ deliveries \in Nat
  /\ handled \in [Sent -> Nat]
  /\ news \in Nat

Init ==
  /\ emitter \in [Adapters -> Tags]
  /\ sent = <<>>
  /\ numbers = [a \in Adapters |-> 0]
  /\ events = <<>>
  /\ seen = <<>>
  /\ reached = [place \in Places |-> {}]
  /\ deliveries = 0
  /\ handled = <<>>
  /\ news = 0

-----------------------------------------------------------------------------
(* The adapters.                                                            *)

\* An adapter tells of a proposal, however often: it may announce one again in other
\* words, and one that is committed under two keys is executed twice.
Emit(p, what, words) ==
  /\ Len(sent) < MaxEvents
  /\ what = "proposed" <=> words # None
  /\ numbers' = [numbers EXCEPT ![Home[p]] = @ + 1]
  /\ sent' = Append(sent, [adapter |-> Home[p], number |-> numbers'[Home[p]], proposal |-> p,
                           event |-> what, words |-> words, tag |-> emitter[Home[p]]])
  /\ handled' = Append(handled, 0)
  /\ UNCHANGED <<emitter, events, seen, reached, deliveries, news>>

\* The adapter's process restarts and counts from the beginning.
Restart(a) ==
  /\ numbers[a] > 0
  /\ numbers' = [numbers EXCEPT ![a] = 0]
  /\ UNCHANGED <<emitter, sent, events, seen, reached, deliveries, handled, news>>

-----------------------------------------------------------------------------
(* The control plane.                                                       *)

Stored == ToSet(events)

\* Mutant of Known: every event is looked up by its number.
Known_ByNumber(i) ==
  sent[i].tag # "none" /\ \E j \in Stored : sent[j].number = sent[i].number

\* An event with an id is looked up by it, one with only a number among all rows that
\* have one, and one with neither is always new.
Known(i) ==
  CASE sent[i].tag = "id" -> i \in Stored
    [] sent[i].tag = "number" -> \E j \in Stored : /\ sent[j].tag # "none"
                                                  /\ sent[j].number = sent[i].number
    [] OTHER -> FALSE

\* Neither place touches what the other keeps: each behaviour follows the deliveries to one.
Reach(i, place) ==
  /\ deliveries < MaxDeliveries[place]
  /\ \A other \in Places \ {place} : reached[other] = {}
  /\ deliveries' = deliveries + 1
  /\ reached' = [reached EXCEPT ![place] = @ \cup {i}]

Ingest(i) ==
  /\ Reach(i, "ledger")
  /\ events' = IF Known(i) THEN events ELSE Append(events, i)
  /\ UNCHANGED <<emitter, sent, numbers, seen, handled, news>>

-----------------------------------------------------------------------------
(* The SDK.                                                                 *)

\* Mutant of Remember: the window is cut before the new entry is in it.
Remember_Short(number) ==
  Append(IF Len(seen) + 1 >= Window THEN Tail(seen) ELSE seen, number)

\* A number is kept until as many other numbers have come after it.
Remember(number) ==
  LET longer == Append(seen, number) IN
  IF Len(longer) > Window THEN Tail(longer) ELSE longer

IsNew(i) ==
  IF sent[i].number \in ToSet(seen)
  THEN UNCHANGED <<seen, handled, news>>
  ELSE /\ seen' = Remember(sent[i].number)
       /\ news' = news + 1
       /\ handled' = [handled EXCEPT ![i] = news']

Receive(i) ==
  /\ sent[i].tag # "none"
  /\ Reach(i, "sdk")
  /\ IsNew(i)
  /\ UNCHANGED <<emitter, sent, numbers, events>>

Next ==
  \/ \E p \in Proposals, what \in {"proposed", "executed", "refused"},
        words \in Words \cup {None} : Emit(p, what, words)
  \/ \E a \in Adapters : Restart(a)
  \/ \E i \in Sent : Ingest(i) \/ Receive(i)

Spec == Init /\ [][Next]_vars

-----------------------------------------------------------------------------
(* The views of the ledger.                                                 *)

Of(r) == sent[events[r]]

\* The newest rows, n of them at most.
Newest(n) == {r \in DOMAIN events : r > Len(events) - n}

\* The rows that announce a row's proposal.
Announcing(r) ==
  {q \in DOMAIN events : Of(q).proposal = Of(r).proposal /\ Of(q).event = "proposed"}

OrElse(x, y) == IF x # None THEN x ELSE y

\* Mutant of Recent: only what is on the page is looked at.
Recent_OnPage(n) ==
  [r \in Newest(n) |->
     OrElse(Of(r).words,
            IF Announcing(r) \cap Newest(n) # {} THEN Of(Max(Announcing(r) \cap Newest(n))).words
            ELSE IF Of(r).event = "executed" THEN Entity ELSE None)]

\* The page of the newest rows: a row's own words, or else those of the latest row that
\* announces its proposal, or else the entity that its result names.
Recent(n) ==
  [r \in Newest(n) |->
     OrElse(Of(r).words,
            IF Announcing(r) # {} THEN Of(Max(Announcing(r))).words
            ELSE IF Of(r).event = "executed" THEN Entity ELSE None)]

\* Mutant of Detail: the latest announcement counts.
Detail_Latest(r) ==
  LET said == IF Announcing(r) # {} THEN Of(Max(Announcing(r))).words ELSE None IN
  [verb |-> OrElse(Of(r).words, said), preview |-> OrElse(said, Of(r).words)]

\* One row's story: the first row that announces its proposal is what counts, but for the
\* verb that the row has of its own.
Detail(r) ==
  LET said == IF Announcing(r) # {} THEN Of(Min(Announcing(r))).words ELSE None IN
  [verb |-> OrElse(Of(r).words, said), preview |-> OrElse(said, Of(r).words)]

\* What the page of adapters books a row under: the system that executed its proposal
\* as far as the page tells, or None for the emitting source.
Executing(n, r) ==
  {q \in Newest(n) : Of(q).proposal = Of(r).proposal /\ Of(q).event = "executed"}
System(n, r) == IF Executing(n, r) = {} THEN None ELSE Of(Min(Executing(n, r))).adapter

-----------------------------------------------------------------------------
(* Properties.                                                              *)

\* The ledger has every event that reached it with an id, and has it once, whatever
\* the adapters' numbers do; one with a number alone is missing only when another
\* one with its number is there.
LedgerIsWhatCame ==
  /\ \A r, q \in DOMAIN events : events[r] = events[q] => r = q \/ Of(r).tag = "none"
  /\ \A i \in reached.ledger :
       \/ i \in Stored
       \/ /\ sent[i].tag = "number"
          /\ \E j \in Stored : sent[j].number = sent[i].number

\* A handler that sees an event again has seen a full window of others since.
SeenAgainLate ==
  \A i \in Sent : handled'[i] # handled[i] /\ handled[i] # 0
                    => handled'[i] > handled[i] + Window

\* What has reached the SDK was handled, or one with its number was.
NumberIsHandled ==
  \A i \in reached.sdk : \E j \in Sent : handled[j] # 0 /\ sent[j].number = sent[i].number

\* The SDK's handler misses an event only when one with the same number came before it,
\* and sees one again only after a full window of others.
DeduperKeepsItsWindow == [][SeenAgainLate]_vars /\ []NumberIsHandled

\* Whatever the order in which the events of a proposal arrived and however short the
\* page: timeline and detail tell nothing but what the adapter said when it announced the
\* proposal, so the same unless it said two things; and they tell it once it has come.
ViewsAgree ==
  \A n \in 1..Len(events) : \A r \in Newest(n) :
    LET Said(places) == {sent[i].words : i \in {j \in places :
                           sent[j].proposal = Of(r).proposal /\ sent[j].event = "proposed"}}
        told == Said(Sent)
        come == Said({i \in reached.ledger : sent[i].tag = "id"})
    IN /\ {Detail(r).verb, Detail(r).preview} \subseteq told \cup {None}
       /\ Recent(n)[r] \in told \cup {Entity, None}
       /\ come # {} => {Recent(n)[r], Detail(r).verb, Detail(r).preview} \subseteq told

\* A story that has been told is never told otherwise by what arrives later; the timeline
\* changes only with a new announcement; and a row goes back to its source on the page of
\* adapters only when it arrived after all that named its system.
StoryStays ==
  \A r \in DOMAIN events :
    /\ Detail(r).preview # None => Detail(r)' = Detail(r)
    /\ \A n \in 1..Len(events) : r \in Newest(n) \cap Newest(n)' =>
         /\ Recent(n)[r]' # Recent(n)[r] => Len(events') \in Announcing(r)' \ Announcing(r)
         /\ System(n, r) # None /\ System(n, r)' = None => \A q \in Executing(n, r) : q < r

StoriesHold == [][StoryStays]_events /\ []ViewsAgree
=============================================================================
