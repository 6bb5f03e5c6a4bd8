------------------------------- MODULE Sessions -------------------------------
(***************************************************************************)
(* The connections of a multi-tenant MCP server.  A connection names its   *)
(* backend by URL, or a workspace, or nothing.  Its first tool call settles*)
(* which backend serves it, asking the control plane's registry if need be,*)
(* and the tools made for it are kept.                                     *)
(*                                                                         *)
(* A session key belongs to one connection here.                           *)
(***************************************************************************)
EXTENDS AdapterTable, FiniteSets

CONSTANTS
  Connections,  \* session keys
  Headers,      \* what a connection may send: [url, ws]; None is no header
  Plain,        \* the URLs that are not https
  Default       \* the server's own backend: [url, ws]

Tenants == [url : Urls, ws : Workspaces \cup {None}]

ASSUME SessionAssumption ==
  /\ Headers \subseteq [url : Urls \cup {None}, ws : Workspaces \cup {None}]
  /\ Default \in Tenants
  /\ Plain \subseteq Urls
  /\ None \notin Headers \cup Tenants

VARIABLES
  header,  \* the headers of an open connection
  tools,   \* TenantToolsProvider._cache: what a key's tools are bound to
  asked    \* history: the URLs that were sent a connection's requests

sessions == <<header, tools, asked>>

SessionTypeOK ==
  /\ header \in [Connections -> Headers \cup {None}]
  /\ tools \in [Connections -> Tenants \cup {None}]
  /\ asked \in [Connections -> SUBSET Urls]

SessionInit ==
  /\ header = [c \in Connections |-> None]
  /\ tools = [c \in Connections |-> None]
  /\ asked = [c \in Connections |-> {}]

Connect(c) ==
  /\ header[c] = None
  /\ \E h \in Headers : header' = [header EXCEPT ![c] = h]
  /\ UNCHANGED <<tools, asked>>

\* The registry's answer, None when it has none or cannot be asked.
Lookups(ws) == {None} \cup ({ActiveUrl(ws)} \cap Urls)

Workspace(h) == IF h.ws # None THEN h.ws ELSE Default.ws

\* resolve_tenant: a URL wins, then the workspace's active adapter, then the default.
\* A connection that names a URL without https gets no tools.
Resolved(h) ==
  IF h.url # None THEN {h} \ [url : Plain, ws : Workspaces \cup {None}]
  ELSE IF Workspace(h) = None THEN {Default}
  ELSE {IF u = None THEN Default ELSE [url |-> u, ws |-> Workspace(h)] :
          u \in Lookups(Workspace(h))}

\* Mutant of Tools: tools are made anew for every call.
Tools_Uncached(c) == Resolved(header[c])

\* TenantToolsProvider.get
Tools(c) == IF tools[c] # None THEN {tools[c]} ELSE Resolved(header[c])

\* A tool call: whatever it asks for goes to the backend of the connection's tools.
Call(c) ==
  /\ header[c] # None
  /\ \E t \in Tools(c) :
       /\ tools' = [tools EXCEPT ![c] = t]
       /\ asked' = [asked EXCEPT ![c] = @ \cup {t.url}]
  /\ UNCHANGED header

SessionNext == \E c \in Connections : Connect(c) \/ Call(c)
-----------------------------------------------------------------------------
(* Properties.                                                              *)

\* A step sends a connection's request to a backend for the first time or to the same
\* again, and for the first time to the one that its headers ask for.
KeepsBackend ==
  \A c \in Connections :
    asked'[c] # asked[c] =>
      /\ asked[c] = {}
      /\ LET h == header[c] IN
         IF h.url # None THEN asked'[c] = {h.url}
         ELSE \/ asked'[c] = {Default.url}
              \/ Workspace(h) # None /\ asked'[c] = {ActiveUrl(Workspace(h))}

\* A connection talks to one backend for as long as it lives, however adapters are
\* switched, registered and lost sight of between its calls, so that a COMMIT goes
\* where its PROPOSE went: the one it named, or else the one its workspace was routed
\* to when it called first, or the default.
OneBackend == [][KeepsBackend]_sessions
=============================================================================
