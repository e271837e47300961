------------------------------- MODULE NetTls -------------------------------
(***************************************************************************)
(* The transport (net_tls.c): one static connection, opened in stages,     *)
(* each of which may fail and must then give back what the earlier ones    *)
(* took.  The TLS context, with its CA store, is cached across             *)
(* connections.  A connection that is not closed is the last one:          *)
(* net_tls_open refuses while in_use is set.                               *)
(***************************************************************************)

CONSTANT UseTls  \* config.use_tls: wss:// or ws://

ASSUME TlsAssumption == UseTls \in BOOLEAN

VARIABLES
  inUse,  \* instance.in_use
  held,   \* what the connection holds: its socket, context and session
  cached  \* cached_ctx # NULL

tls == <<inUse, held, cached>>

TlsInit == inUse = FALSE /\ held = {} /\ cached = FALSE

(***************************************************************************)
(* release; the context stays cached.                                      *)
(***************************************************************************)
TlsRelease == held' = {} /\ inUse' = FALSE

(***************************************************************************)
(* connect_tcp, over the addresses of the host: the failed ones are        *)
(* closed as it goes.                                                      *)
(***************************************************************************)
TlsConnect == ~inUse /\ inUse' = TRUE /\ held' = {"fd"} /\ UNCHANGED cached

TlsConnectFails == UNCHANGED tls

(***************************************************************************)
(* build_context: the cached one, or one made anew.  The CA configuration  *)
(* is the same for every connection of a run.                              *)
(***************************************************************************)
TlsContext == held' = held \cup {"ctx"} /\ cached' = TRUE /\ UNCHANGED inUse

TlsContextFails == ~cached /\ TlsRelease /\ UNCHANGED cached

MutTlsHandshakeFails == held' = held \ {"ctx", "ssl"} /\ inUse' = FALSE /\ UNCHANGED cached

(***************************************************************************)
(* run_handshake: the session, the handshake, the certificate.             *)
(***************************************************************************)
TlsHandshake == held' = held \cup {"ssl"} /\ UNCHANGED <<inUse, cached>>

TlsHandshakeFails == TlsRelease /\ UNCHANGED cached

(***************************************************************************)
(* net_tls_open: its last stage, after which the caller has a handle.      *)
(***************************************************************************)
TlsOpened == IF UseTls THEN TlsHandshake ELSE TlsConnect

TlsWhole == IF UseTls THEN {"fd", "ctx", "ssl"} ELSE {"fd"}

(***************************************************************************)
(* net_tls_close.                                                          *)
(***************************************************************************)
TlsClose == IF inUse THEN TlsRelease /\ UNCHANGED cached ELSE UNCHANGED tls

TlsTypeOK ==
  /\ inUse \in BOOLEAN /\ held \subseteq {"fd", "ctx", "ssl"} /\ cached \in BOOLEAN
=============================================================================
