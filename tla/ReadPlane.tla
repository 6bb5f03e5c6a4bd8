------------------------------ MODULE ReadPlane ------------------------------
(***************************************************************************)
(* The governed reads of the data plane: an agent pages through a search,  *)
(* an export streams everything that matches to an artifact, a change      *)
(* intent resolves the records it is about.  All of them fetch pages from  *)
(* a backend that others keep changing, and each falls back on the edge    *)
(* where the backend cannot filter or count.                               *)
(*                                                                         *)
(* One reader is at work at a time and one filter is asked: a row matches  *)
(* it or not.  Of a filter it matters which field it looks at; of a row's  *)
(* size, the number of its fields.                                         *)
(***************************************************************************)
EXTENDS Integers, Sequences, SequencesExt, Ascending

CONSTANTS
  Ids,          \* keys of records, numbers
  Backends,     \* what backends may be able to do
  Requests,     \* what readers ask for
  Fields,       \* fields of the target's schema besides the key
  Returnable, Sensitive,
  Default,      \* the schema's default projection
  FilterField,  \* the field the filter looks at
  BlankPasses,  \* does a row without that field pass, as it does if the filter is "ne"?
  All,          \* no list of fields: the default projection, or every grant
  Limit,        \* rows of a search page
  ChangeLimit,  \* rows a change intent resolves
  PageSize,     \* rows of an export page
  EdgeBound,    \* rows the edge pulls to filter or count by itself
  Threshold,    \* estimate above which an export needs approval
  Cap,          \* size of an answer
  Tables,       \* what the backend may have at first
  MaxChanges    \* bound: changes of the backend

\* filters, counts: the backend does so.  whole: its rows have all their fields,
\* asked for or not.
Backend == [filters : BOOLEAN, counts : BOOLEAN, whole : BOOLEAN]

\* the, all: an intent that seeks one record or all; change: one that alters them.
Request == [kind : {"the", "all", "change", "export"},
            fields : {All} \cup SUBSET Fields, grant : {All} \cup SUBSET Fields,
            approved : BOOLEAN]

ASSUME ReadPlaneAssumption ==
  /\ Ids \subseteq Nat \ {0} /\ IsFiniteSet(Ids)
  /\ Backends \subseteq Backend
  /\ Tables \subseteq [Ids -> {"absent", "match", "other"}]
  /\ Requests \subseteq Request
  /\ \A S \in SUBSET Fields : All # S
  /\ Returnable \subseteq Fields /\ Sensitive \subseteq Fields
  /\ Default \subseteq Fields /\ FilterField \in Fields /\ BlankPasses \in BOOLEAN
  /\ {Limit, ChangeLimit, PageSize} \subseteq Nat \ {0}
  /\ {EdgeBound, Threshold, Cap, MaxChanges} \subseteq Nat

VARIABLES
  backend,
  table,     \* the backend's records
  reader,
  standing,  \* history: records that match and have matched since the read began
  matched,   \* history: records that have matched at some time since
  changes

read == <<backend, table, reader, standing, matched, changes>>

\* after: the key the next page starts behind, 0 before the first one.
Reader == [pc : {"idle", "reading", "done", "refused"}, request : Requests \cup {All},
           after : Nat, got : Seq(Ids), begun : Nat]

ReadTypeOK ==
  /\ backend \in Backends
  /\ table \in [Ids -> {"absent", "match", "other"}]
  /\ reader \in Reader
  /\ standing \subseteq matched /\ matched \subseteq Ids
  /\ changes \in 0..MaxChanges

ReadInit ==
  /\ backend \in Backends
  /\ table \in Tables
  /\ reader = [pc |-> "idle", request |-> All, after |-> 0, got |-> << >>,
               begun |-> 0]
  /\ standing = {}
  /\ matched = {}
  /\ changes = 0
-----------------------------------------------------------------------------
(* The backend.                                                             *)

Present == {i \in Ids : table[i] # "absent"}
Matching == {i \in Ids : table[i] = "match"}

\* Keyset paging; a backend that cannot filter passes the predicates over.
Fetch(filtered, limit, after) ==
  First(limit, {i \in IF filtered /\ backend.filters THEN Matching ELSE Present :
                  i > after})

\* Others insert, delete and edit records.
Change(i, row) ==
  /\ changes < MaxChanges /\ table[i] # row
  /\ changes' = changes + 1
  /\ table' = [table EXCEPT ![i] = row]
  /\ standing' = IF row = "match" THEN standing ELSE standing \ {i}
  /\ matched' = IF row = "match" THEN matched \cup {i} ELSE matched
  /\ UNCHANGED <<backend, reader>>
-----------------------------------------------------------------------------
(* The engine.                                                              *)

\* Fields that are returned: what is not returnable is passed over, what is
\* sensitive is redacted unless the grant names it; no grant names everything.
Allowed(fields, grant) ==
  {f \in (IF fields = All THEN Default ELSE fields) \cap Returnable :
     f \in Sensitive /\ grant # All => f \in grant}

allowed == Allowed(reader.request.fields, reader.request.grant)

\* Rows that pass the edge's own filter, which sees the fields they were fetched with.
Seen(rows, fetched) ==
  {i \in ToSet(rows) :
     IF backend.whole \/ FilterField \in fetched THEN table[i] = "match" ELSE BlankPasses}

Count ==
  IF backend.counts THEN Cardinality(Matching)
  ELSE Smaller(EdgeBound, Cardinality(Seen(Fetch(TRUE, EdgeBound + 1, 0), {})))

Answer(request, pc) ==
  [pc |-> pc, request |-> request, after |-> 0, got |-> << >>, begun |-> changes]

BeginRead(request) ==
  /\ reader' = Answer(request, "reading")
  /\ standing' = Matching
  /\ matched' = Matching

\* search for an intent, or for the records of a change intent: nothing is kept
\* between pages.
StartSearch(request) ==
  /\ reader.pc # "reading" /\ request.kind # "export"
  /\ BeginRead(request)
  /\ UNCHANGED <<backend, table, changes>>

\* Mutant of StartExport: approval is asked for from the threshold's double on.
StartExport_Late(request) ==
  /\ reader.pc # "reading" /\ request.kind = "export"
  /\ Count <= 2 * Threshold + 1 \/ request.approved
  /\ BeginRead(request)
  /\ UNCHANGED <<backend, table, changes>>

StartExport(request) ==
  /\ reader.pc # "reading" /\ request.kind = "export"
  /\ IF Count > Threshold /\ ~request.approved
     THEN /\ reader' = Answer(request, "refused")
          /\ UNCHANGED <<standing, matched>>
     ELSE BeginRead(request)
  /\ UNCHANGED <<backend, table, changes>>

Refuse == reader' = [reader EXCEPT !.pc = "refused"]

limit ==
  CASE reader.request.kind = "the" -> 1
    [] reader.request.kind = "change" -> ChangeLimit
    [] OTHER -> Limit

\* One row more than the page holds tells whether there is a next page.  Without
\* the backend's filter a bounded number of rows is pulled and filtered here.
Gathered ==
  IF backend.filters THEN Fetch(TRUE, limit + 1, reader.after)
  ELSE First(limit + 1, Seen(Fetch(FALSE, EdgeBound + 1, reader.after), allowed))

TooLarge ==
  \/ ~backend.filters /\ Len(Fetch(FALSE, EdgeBound + 1, reader.after)) > EdgeBound
  \/ Smaller(limit, Len(Gathered)) * (Cardinality(allowed) + 1) > Cap

\* Mutant of SearchPage: the cursor is the extra row's key.
SearchPage_Extra ==
  /\ reader.pc = "reading" /\ reader.request.kind # "export"
  /\ LET rows == Gathered
         page == SubSeq(rows, 1, Smaller(limit, Len(rows)))
         more == Len(rows) > limit /\ reader.request.kind = "all"
     IN reader' = [reader EXCEPT
          !.got = @ \o page,
          !.pc = IF more THEN "reading" ELSE "done",
          !.after = IF more THEN Last(rows) ELSE @]
  /\ UNCHANGED <<backend, table, standing, matched, changes>>

\* An agent that seeks all asks for the next page until there is no cursor; the
\* others take what the first one has.
SearchPage ==
  /\ reader.pc = "reading" /\ reader.request.kind # "export"
  /\ LET rows == Gathered
         page == SubSeq(rows, 1, Smaller(limit, Len(rows)))
         more == Len(rows) > limit /\ reader.request.kind = "all"
     IN IF TooLarge THEN Refuse
        ELSE reader' = [reader EXCEPT
               !.got = @ \o page,
               !.pc = IF more THEN "reading" ELSE "done",
               !.after = IF more THEN Last(page) ELSE @]
  /\ UNCHANGED <<backend, table, standing, matched, changes>>

\* The stream leaves all filtering to the backend and ends with a short page.
ExportPage ==
  /\ reader.pc = "reading" /\ reader.request.kind = "export"
  /\ LET page == Fetch(TRUE, PageSize, reader.after) IN
     reader' = [reader EXCEPT
       !.got = @ \o page,
       !.pc = IF Len(page) < PageSize THEN "done" ELSE "reading",
       !.after = IF page = << >> THEN @ ELSE Last(page)]
  /\ UNCHANGED <<backend, table, standing, matched, changes>>

ReadStep == SearchPage \/ ExportPage

ReadNext ==
  \/ \E request \in Requests : StartSearch(request) \/ StartExport(request)
  \/ ReadStep
  \/ \E i \in Ids, row \in {"absent", "match", "other"} : Change(i, row)
-----------------------------------------------------------------------------
(* Properties.                                                              *)

\* The engine can tell which rows match: the backend does, or its rows have the
\* field that the filter looks at.
Discerning ==
  \/ backend.filters
  \/ reader.request.kind # "export" /\ (backend.whole \/ FilterField \in allowed)

\* A read that ends without a refusal has, once each and in order, every record that
\* matched from its start to its end, and none that never matched meanwhile; one that
\* takes a single page is short of some only if the page is full.
ReadsAreComplete ==
  reader.pc = "done" /\ Discerning =>
    /\ ToSet(reader.got) \subseteq matched
    /\ \/ standing \subseteq ToSet(reader.got)
       \/ reader.request.kind \in {"the", "change"} /\ Len(reader.got) = limit
    /\ \A j, k \in 1..Len(reader.got) : j < k => reader.got[j] < reader.got[k]

\* An export that nobody approved has no more rows than the threshold, and what was
\* added while it ran, if the backend can count and filter.
UnapprovedIsBounded ==
  reader.request # All /\ reader.request.kind = "export" /\ ~reader.request.approved
    /\ backend.counts /\ backend.filters
    => Len(reader.got) <= Threshold + changes - reader.begun
=============================================================================
