------------------------------ MODULE MCDispatch ------------------------------
(***************************************************************************)
(* Small instances of Dispatch.                                            *)
(***************************************************************************)
EXTENDS Dispatch, TLC

CONSTANTS t1, t2, plan1, plan2

Event(id, ws, verb, own) == [id |-> id, ws |-> ws, verb |-> verb, own |-> own]

\* Two automations of one workspace.
MCAutos == {<<1, 1>>, <<1, 2>>}

\* A new lead in the first workspace, one in a second, and one that a run made.
MCEvents == {Event("e1", 1, "lead", FALSE), Event("e2", 2, "lead", FALSE),
             Event("e3", 1, "lead", TRUE)}

OnLead == [kind |-> "event", on |-> "lead"]
Every1 == [kind |-> "interval", every |-> 1]
EveryMinute == [kind |-> "cron", minutes |-> 0..MaxTime]

MCTriggers == {OnLead, Every1, EveryMinute, ManualTrigger}

\* The first automation has one version; the second is edited, which changes its
\* plan, its trigger or both, and comes back to what it was as a third version.
MCDrafts == {[auto |-> <<1, 1>>, plan |-> plan1, trigger |-> OnLead],
             [auto |-> <<1, 2>>, plan |-> plan1, trigger |-> OnLead],
             [auto |-> <<1, 2>>, plan |-> plan2, trigger |-> OnLead],
             [auto |-> <<1, 2>>, plan |-> plan2, trigger |-> ManualTrigger]}

MCOneEvent == {e \in MCEvents : e.id = "e1"}
MCTimed == {[auto |-> <<1, 1>>, plan |-> plan1, trigger |-> OnLead],
            [auto |-> <<1, 1>>, plan |-> plan1, trigger |-> EveryMinute],
            [auto |-> <<1, 2>>, plan |-> plan1, trigger |-> OnLead],
            [auto |-> <<1, 2>>, plan |-> plan2, trigger |-> Every1]}
=============================================================================
