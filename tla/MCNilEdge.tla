------------------------------ MODULE MCNilEdge ------------------------------
(***************************************************************************)
(* Small instances of NilEdge.                                             *)
(***************************************************************************)
EXTENDS NilEdge, TLC

CONSTANTS r1, r2, t1, t2, c1, c2

Req(kind, verb, id, data) ==
  [kind |-> kind, verb |-> verb, id |-> id, data |-> data]

\* One field, two values.
MCFields == {"f"}
MCVals == {0, 1}

\* A resource create, an update and a delete of r1, and the curated create and
\* delete that undo each other.
MCRequests ==
  { Req("resource", "create", None, "f" :> 1),
    Req("resource", "update", r1, "f" :> 1),
    Req("resource", "delete", r1, NoData),
    Req("curated", "create", None, "f" :> 0),
    Req("curated", "delete", r1, NoData) }

MCResourceRequests == {req \in MCRequests : req.kind = "resource"}

MCCreates == { Req("resource", "create", None, "f" :> 1) }

Symmetry == Permutations(Threads)
=============================================================================
