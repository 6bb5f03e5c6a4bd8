----------------------------- MODULE AdapterTable -----------------------------
(***************************************************************************)
(* The adapters table of the control plane: which backends the workspaces  *)
(* have registered, at which URL, which of them are enabled, and the order *)
(* in which their rows were last written, which decides between several.   *)
(***************************************************************************)
EXTENDS Integers, Sequences, SequencesExt

CONSTANTS
  Workspaces,
  Adapters,   \* adapter ids
  Urls,
  Places,     \* what operators register: pairs of a row's key and a URL
  None

Keys == Workspaces \X Adapters

ASSUME TableAssumption ==
  /\ Places \subseteq Keys \X Urls
  /\ None \notin Urls \cup Workspaces

VARIABLES
  url,      \* where a registered adapter is reached
  enabled,  \* rows whose active flag is set
  written   \* registered rows by updated_at, the last one first

table == <<url, enabled, written>>

TableTypeOK ==
  /\ url \in [Keys -> Urls \cup {None}]
  /\ enabled \subseteq Keys
  /\ written \in Seq(Keys)
  /\ ToSet(written) = {k \in Keys : url[k] # None}

TableInit ==
  /\ url = [k \in Keys |-> None]
  /\ enabled = {}
  /\ written = << >>

Registered == ToSet(written)

Rows(ws) == {k \in Registered : k[1] = ws}

Others(k) ==
  IF k \in Registered
  THEN RemoveAt(written, CHOOSE i \in DOMAIN written : written[i] = k)
  ELSE written

\* updated_at of row k becomes the newest.
Touch(k) == written' = <<k>> \o Others(k)

\* register_adapter: an upsert that keeps the active flag.
RegisterAdapter(k, u) ==
  /\ url' = [url EXCEPT ![k] = u]
  /\ Touch(k)
  /\ UNCHANGED enabled

\* activate_adapter: its siblings are disabled.  They get the same time stamp, which
\* no one reads until they are enabled again.
Activate(k) ==
  /\ k \in Registered
  /\ enabled' = (enabled \ Rows(k[1])) \cup {k}
  /\ Touch(k)
  /\ UNCHANGED url

\* set_adapter_active
Enable(k) ==
  /\ k \in Registered
  /\ enabled' = enabled \cup {k}
  /\ Touch(k)
  /\ UNCHANGED url

Disable(k) ==
  /\ k \in Registered
  /\ enabled' = enabled \ {k}
  /\ Touch(k)
  /\ UNCHANGED url

TableNext ==
  \/ \E p \in Places : RegisterAdapter(p[1], p[2])
  \/ \E k \in Keys : Activate(k) \/ Enable(k) \/ Disable(k)

\* ORDER BY updated_at DESC LIMIT 1
First(keys) == written[Min({i \in DOMAIN written : written[i] \in keys})]

\* active_adapter: of several enabled ones the one written last.
ActiveUrl(ws) ==
  LET on == Rows(ws) \cap enabled
  IN IF on = {} THEN None ELSE url[First(on)]
=============================================================================
