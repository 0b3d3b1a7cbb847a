------------------------------ MODULE Conduitctl ------------------------------
(***************************************************************************)
(* The operator's client (conduitctl/src): how a command finds and proves  *)
(* itself to the control plane, and which request it sends.  A command     *)
(* that reads nothing or asks for nothing is refused before it connects.   *)
(*                                                                         *)
(* A command is [verb, ...] with the options that were given in its        *)
(* domain.  Settings come in three layers, each a record with "none" for   *)
(* what it does not set: flags, environment and the client file.           *)
(***************************************************************************)
EXTENDS ControlApi

RefusedLocally == [sent |-> FALSE, req |-> [op |-> "none"]]
Send(req) == [sent |-> TRUE, req |-> req]

Given(cmd, fields) == [f \in fields \cap DOMAIN cmd |-> cmd[f]]

-----------------------------------------------------------------------------
(* Commands that change the configuration.                                 *)

(* apply: patch is the overlay the file parsed to, when it did.            *)
ApplyCommand(cmd) ==
    CASE cmd.clear -> Send([op |-> "clear"])
      [] ~cmd.clear /\ ~Has(cmd, "patch") -> RefusedLocally
      [] OTHER -> Send([op |-> IF cmd.replace THEN "replace" ELSE "merge",
                        patch |-> cmd.patch])

ReloadCommand(cmd) == Send([op |-> "reload"])

BackendCommand(cmd) ==
    Send(IF cmd.verb = "set-weight"
         THEN [op |-> "SetBackendWeight", pool |-> cmd.pool, backend |-> cmd.backend,
               weight |-> cmd.weight]
         ELSE [op |-> "RemoveBackend", pool |-> cmd.pool, backend |-> cmd.backend])

SetLimitsCommand(cmd, section) ==
    LET fields == Given(cmd, LimitFields[section])
    IN  IF fields = Unset THEN RefusedLocally
        ELSE Send([op |-> "SetLimits", section |-> section, fields |-> fields])

OrchestratorCommand(cmd) == SetLimitsCommand(cmd, "orchestrator")

RhaiCommand(cmd) == SetLimitsCommand(cmd, "rhai")

(* data-source upsert and remove; the per-source limits are not options of *)
(* the command, so an upsert resets them.                                  *)
DataSourceCommand(cmd) ==
    Send(IF cmd.verb = "upsert"
         THEN [op |-> "UpsertDataSource", source |-> [name |-> cmd.name, path |-> cmd.path]]
         ELSE [op |-> "RemoveDataSource", name |-> cmd.name])

(* data-source-limits set: a limit that is not given is sent as zero.      *)
DataSourceLimitsCommand(cmd) ==
    LET fields == LimitFields["data_source_limits"]
    IN  Send([op |-> "SetDataSourceLimits",
              limits |-> Given(cmd, fields \ {"max_total_bytes"}) @@ [f \in fields |-> 0]])

(* events set-filters replaces the filters as a whole, selectors included; *)
(* set-emit leaves the extra fields and tags alone.                        *)
EventsCommand(cmd) ==
    Send([op |-> "SetSink", name |-> cmd.name,
          fields |-> IF cmd.verb = "set-filters" THEN "filters" :> cmd.filters
                     ELSE "emit" :> cmd.emit])

(* metrics patch: the options override the patch file.                     *)
MetricsCommand(cmd) ==
    LET patch == Given(cmd, {"enabled", "base"})
                 @@ (IF Has(cmd, "patch") THEN cmd.patch ELSE Unset)
    IN  IF patch = Unset THEN RefusedLocally
        ELSE Send([op |-> "PatchMetrics", metrics |-> patch])

LmdbHot == {"when_full", "sample_size", "sync", "sync_interval", "map_size_bytes"}

(* cache set-max-entries, set-lmdb-hot and set-policy-hot *)
CacheCommand(cmd) ==
    LET fields == Given(cmd, CASE cmd.verb = "set-max-entries" -> {"max_entries"}
                               [] cmd.verb = "set-lmdb-hot" -> LmdbHot
                               [] OTHER -> {"rotate_rrset_on_serve"})
    IN  IF fields = Unset THEN RefusedLocally
        ELSE Send([op |-> "SetCache", name |-> cmd.name, fields |-> fields,
                   type |-> IF cmd.verb = "set-lmdb-hot" THEN "lmdb" ELSE "any"])

Command(cmd) ==
    CASE cmd.verb = "apply" -> ApplyCommand(cmd)
      [] cmd.verb = "reload" -> ReloadCommand(cmd)
      [] cmd.verb \in {"set-weight", "remove-backend"} -> BackendCommand(cmd)
      [] cmd.verb = "set-limits" -> IF cmd.section = "rhai" THEN RhaiCommand(cmd)
                                    ELSE OrchestratorCommand(cmd)
      [] cmd.verb \in {"upsert", "remove-source"} -> DataSourceCommand(cmd)
      [] cmd.verb = "set-source-limits" -> DataSourceLimitsCommand(cmd)
      [] cmd.verb \in {"set-filters", "set-emit"} -> EventsCommand(cmd)
      [] cmd.verb = "patch" -> MetricsCommand(cmd)
      [] OTHER -> CacheCommand(cmd)

-----------------------------------------------------------------------------
(* The connection.                                                         *)

FirstSet(options) ==
    LET set == SelectSeq(options, LAMBDA o : o # "none")
    IN  IF set = <<>> THEN "none" ELSE Head(set)

DefaultEndpoint == "http"

Layered(s, f) == FirstSet(<<s.flags[f], s.env[f], s.file[f]>>)

(* A key given as such, by flag or environment, wins over every key file;  *)
(* the client file's own key comes last.                                   *)
ApiKey(s) ==
    FirstSet(<<s.flags.api_key, s.env.api_key, s.flags.api_key_file,
               s.env.api_key_file, s.file.api_key_file, s.file.api_key>>)

(* resolve_connect: a certificate needs its key, and the other way around. *)
ResolveConnect(s) ==
    [ok |-> (Layered(s, "tls_cert") = "none") = (Layered(s, "tls_key") = "none"),
     endpoint |-> FirstSet(<<Layered(s, "endpoint"), DefaultEndpoint>>),
     api_key |-> ApiKey(s),
     ca |-> Layered(s, "tls_ca"), cert |-> Layered(s, "tls_cert"),
     insecure |-> Layered(s, "tls_insecure") = "true"]

(* with_auth: the key travels in one header.                               *)
WithAuth(resolved, req) ==
    [f \in DOMAIN req \cup {"meta"} |->
        IF f # "meta" THEN req[f]
        ELSE [authorization |-> resolved.api_key, x_api_key |-> "none"]]

(* The handshake: the client checks the server unless told not to, and a   *)
(* listener with a client CA checks the client.                            *)
TlsHandshake(tls, resolved) ==
    /\ resolved.insecure \/ resolved.ca = tls.cert_path
    /\ tls.client_ca_path # "" => resolved.cert = tls.client_ca_path

(* connect_channel against a listener with (tls = <<t>>) or without TLS.   *)
ConnectChannel(tls, resolved) ==
    /\ resolved.ok
    /\ resolved.endpoint = (IF tls = <<>> THEN "http" ELSE "https")
    /\ tls # <<>> => TlsHandshake(tls[1], resolved)

(* What a command run with these settings puts on the wire, or nothing.    *)
Requests(cmd, s, tls) ==
    LET resolved == ResolveConnect(s)
        out == Command(cmd)
    IN  IF out.sent /\ ConnectChannel(tls, resolved)
        THEN {WithAuth(resolved, out.req)} ELSE {}

=============================================================================
