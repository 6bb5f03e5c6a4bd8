------------------------------ MODULE DataPlane ------------------------------
(***************************************************************************)
(* Reads and bulk writes together: an export leaves an artifact behind a   *)
(* handle, its owner opens the handle while it is valid, and a bulk job    *)
(* works off the ids.                                                      *)
(***************************************************************************)
EXTENDS ReadPlane, BulkJob

CONSTANTS
  Tenants,
  TTL,       \* how long a handle is valid
  MaxTime,   \* bound: the clock
  NoExport

VARIABLES
  clock,
  export,    \* whose export the reader streams, and until when it will be valid
  artifact,  \* what the store knows of the latest export
  promised   \* history: what stood and matched throughout the job's export

store == <<clock, export, artifact>>
vars == <<read, bulk, store, promised>>

Meta == [owner : Tenants, expires : Nat, rows : Seq(Ids), standing : SUBSET Ids]

ASSUME DataPlaneAssumption ==
  /\ TTL \in Nat /\ MaxTime \in Nat
  /\ NoExport \notin Meta
  /\ Items = Ids

TypeOK ==
  /\ ReadTypeOK
  /\ BulkTypeOK
  /\ clock \in 0..MaxTime
  /\ {export, artifact} \subseteq Meta \cup {NoExport}
  /\ promised \subseteq Ids

Init ==
  /\ ReadInit
  /\ BulkInit
  /\ clock = 0
  /\ export = NoExport
  /\ artifact = NoExport
  /\ promised = {}

Search ==
  /\ (\E request \in Requests : StartSearch(request)) \/ SearchPage
  /\ UNCHANGED <<bulk, store, promised>>

Export(tenant, request) ==
  /\ StartExport(request)
  /\ export' = [owner |-> tenant, expires |-> clock + TTL, rows |-> << >>,
                standing |-> {}]
  /\ UNCHANGED <<bulk, clock, artifact, promised>>

\* With the last page the artifact is complete and the handle is returned.
Stream ==
  /\ ExportPage
  /\ artifact' = IF reader'.pc = "done"
                 THEN [export EXCEPT !.rows = reader'.got, !.standing = standing]
                 ELSE artifact
  /\ UNCHANGED <<bulk, clock, export, promised>>

Open(tenant) ==
  /\ artifact # NoExport
  /\ artifact.owner = tenant /\ clock < artifact.expires

\* A new job over the rows of a handle that its tenant can open.
BeginJob(tenant, on_error) ==
  /\ job.pc = "idle"
  /\ Open(tenant)
  /\ BeginRun(artifact.rows, on_error)
  /\ promised' = artifact.standing
  /\ UNCHANGED <<read, store>>

Bulk == BulkNext /\ UNCHANGED <<read, store, promised>>

Others ==
  /\ \E i \in Ids, row \in {"absent", "match", "other"} : Change(i, row)
  /\ UNCHANGED <<bulk, store, promised>>

Tick ==
  /\ clock < MaxTime
  /\ clock' = clock + 1
  /\ UNCHANGED <<read, bulk, export, artifact, promised>>

\* The process that reads restarts: it forgets its handles.
Restart ==
  /\ reader' = [reader EXCEPT !.pc = IF @ = "reading" THEN "refused" ELSE @]
  /\ artifact' = NoExport
  /\ UNCHANGED <<backend, table, standing, matched, changes, bulk, clock, export,
                 promised>>

\* A job works on rows it has read: what is read and changed meanwhile makes no
\* difference to it and is left out.
Reading ==
  /\ job.pc = "idle"
  /\ \/ Search
     \/ \E tenant \in Tenants, request \in Requests : Export(tenant, request)
     \/ Stream
     \/ Others
     \/ Tick
     \/ Restart

Next ==
  \/ Reading
  \/ \E tenant \in Tenants, on_error \in {"skip", "stop"} : BeginJob(tenant, on_error)
  \/ Bulk

Spec == Init /\ [][Next]_vars
-----------------------------------------------------------------------------
(* Properties.                                                              *)

\* A run of a job that ends without being stopped has written, now or in an earlier
\* run, every record that matched all the time the export took, or reports its batch
\* as failed.
JobCoversExport ==
  job.pc = "ended" /\ ~job.stopped => promised \subseteq done \cup job.failed

\* The job does all that its export promised, and what it has done only once.
JobIsWhole == JobCoversExport /\ RepeatsAreTorn
=============================================================================
