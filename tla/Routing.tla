------------------------------- MODULE Routing -------------------------------
(***************************************************************************)
(* Who is served by which backend: operators work on the adapters table    *)
(* while connections of the MCP server are bound to backends through it    *)
(* and composed automations are registered and run through it.             *)
(***************************************************************************)
EXTENDS Sessions, Composed

vars == <<table, sessions, composed>>

TypeOK == TableTypeOK /\ SessionTypeOK /\ ComposedTypeOK

Init == TableInit /\ SessionInit /\ ComposedInit

Operate ==
  /\ TableNext /\ Moved
  /\ UNCHANGED <<header, tools, asked, rows, offer, redeploys, request, run>>

Serve == SessionNext /\ UNCHANGED <<table, composed>>

Compose == ComposedNext /\ UNCHANGED sessions

Next == Operate \/ Serve \/ Compose

Spec == Init /\ [][Next]_vars
=============================================================================
