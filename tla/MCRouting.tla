------------------------------ MODULE MCRouting ------------------------------
(***************************************************************************)
(* Three backends of one workspace under two names; connections that name  *)
(* a backend, a workspace, or a backend they may not.                      *)
(***************************************************************************)
EXTENDS Routing

CONSTANTS w1, w2, crm, books, u1, u2, u3

MCAutos == {<<w1, "auto">>}
MCPlaces == {<<<<w1, crm>>, u1>>, <<<<w1, books>>, u2>>, <<<<w1, books>>, u3>>}
MCHeaders == {[url |-> u3, ws |-> w1], [url |-> None, ws |-> w1],
              [url |-> u2, ws |-> None]}
MCDefault == [url |-> u3, ws |-> None]
MCOffers ==
  u1 :> {{"lead"}} @@ u2 :> {{"invoice"}} @@ u3 :> {{"lead"}}

From(stage) == [key |-> [stage |-> stage, field |-> "id"]]

Stage(name, adapter, ws, verb, from) ==
  [name |-> name, adapter |-> adapter, ws |-> ws, verbs |-> {verb}, from |-> from]

Chain(ws, name, from1, from2) ==
  [ws |-> w1,
   stages |-> <<Stage("first", crm, w1, "lead", from1),
                Stage(name, books, ws, "invoice", from2)>>]

Single == [ws |-> w1, stages |-> <<Stage("only", TheActive, w1, "lead", << >>)>>]

\* A plan of no stages, a single plan and a chain; handoffs from a later stage and from the stage itself,
\* a plan of another workspace, two stages of one name.
MCPlans ==
  {[ws |-> w1, stages |-> << >>], Single,
   Chain(w1, "second", From("input"), From("first")),
   Chain(w1, "second", From("second"), << >>),
   Chain(w1, "second", << >>, From("second")),
   Chain(w2, "second", << >>, From("first")),
   Chain(w1, "first", << >>, From("first"))}

MCTriggers == {[kind |-> "manual"]}
\* Connections and composed automations share nothing that they write, and are
\* looked at one at a time.
OneAtATime ==
  \/ \A c \in Connections : header[c] = None
  \/ request = NoRequest /\ rows = [a \in Autos |-> << >>]

MCDrafts == [auto : MCAutos, plan : MCPlans, trigger : MCTriggers]
=============================================================================
