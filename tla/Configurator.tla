----------------------------- MODULE Configurator -----------------------------
(***************************************************************************)
(* The control plane at run time: the Configurator task that applies every *)
(* configuration change (conduit-core/src/configurator.rs), the gRPC       *)
(* handlers that submit changes to it and read the result                  *)
(* (conduit-api/src), the SIGHUP task and the supervisor that starts and   *)
(* stops them all (conduit/src/runtime/mod.rs).                            *)
(*                                                                         *)
(* A proposal is [op, ...]: "merge", "replace" and "clear" carry an        *)
(* overlay patch, "reload" rereads the file, anything else is a typed      *)
(* change of module Primitives.  An apply suspends at two awaits, the bind *)
(* in the controller's prepare and the stop of the old sinks in its        *)
(* commit; between them it runs to the end.                                *)
(***************************************************************************)
EXTENDS Conduitctl

-----------------------------------------------------------------------------
(***************************************************************************)
(* The two-phase change of the metrics export sinks                        *)
(* (conduit-metrics/src/export_controller.rs): prepare decides what        *)
(* changes and binds a new Prometheus address, commit stops the old sinks  *)
(* and starts the new ones.                                                *)
(*                                                                         *)
(* compiled is [listen, path, endpoint, push, plan]; "" is an absent       *)
(* address or endpoint, and push stands for the settings the OTLP loop     *)
(* rereads on every round.  A sink is [up, at, key]: whether its task      *)
(* runs, what it serves, and the key the controller recorded for it.       *)
(***************************************************************************)

PrometheusBindKey(c) == [listen |-> c.listen, path |-> c.path]

NoServer == [listen |-> "", path |-> "/metrics"]

(* prepare: what kind of change each sink needs.                           *)
PrometheusChange(prom, c) ==
    CASE prom.key = PrometheusBindKey(c) -> "none"
      [] prom.key # PrometheusBindKey(c) /\ c.listen = "" -> "disable"
      [] c.listen # "" /\ prom.key.listen # c.listen -> "address"
      [] OTHER -> "path"

OtelChange(otel, c) ==
    CASE otel.key = "" /\ c.endpoint = "" -> "none"
      [] (otel.key = "") # (c.endpoint = "") -> "toggle"
      [] otel.key # "" /\ c.endpoint # "" /\ otel.key # c.endpoint -> "reconnect"
      [] otel.key # "" /\ otel.key = c.endpoint /\ otel.hot # c.push -> "in_place"
      [] OTHER -> "none"

(* Only a new address is bound ahead of the install.                       *)
NeedsPreBind(change) == change = "address"

CommitPrometheus_KeepsKey(prom, c, change, bound) ==
    CASE change = "none" -> prom
      [] change = "disable" -> [up |-> FALSE, at |-> NoServer, key |-> prom.key]
      [] OTHER -> [up |-> TRUE, at |-> PrometheusBindKey(c), key |-> PrometheusBindKey(c)]

(* commit, for Prometheus.  bound says whether the bind that a path change *)
(* makes after stopping the old server succeeds.                           *)
CommitPrometheus(prom, c, change, bound) ==
    CASE change = "none" -> prom
      [] change = "address" -> [up |-> TRUE, at |-> PrometheusBindKey(c),
                                key |-> PrometheusBindKey(c)]
      [] change = "path" -> [up |-> bound,
                             at |-> IF bound THEN PrometheusBindKey(c) ELSE NoServer,
                             key |-> PrometheusBindKey(c)]
      [] change = "disable" -> [up |-> FALSE, at |-> NoServer,
                                key |-> PrometheusBindKey(c)]

(* commit, for OTLP.                                                       *)
CommitOtel(otel, c, change) ==
    CASE change = "none" -> otel
      [] change = "in_place" -> [otel EXCEPT !.hot = c.push]
      [] change \in {"toggle", "reconnect"} ->
           [up |-> c.endpoint # "", at |-> c.endpoint, key |-> c.endpoint,
            hot |-> IF c.endpoint # "" THEN c.push ELSE otel.hot]

(* initial_spawn: a bind that fails at startup is logged and leaves the    *)
(* recorded key as it was, so the next apply tries again.                  *)
InitialPrometheus(c, bound) ==
    IF c.listen # "" /\ bound
    THEN [up |-> TRUE, at |-> PrometheusBindKey(c), key |-> PrometheusBindKey(c)]
    ELSE [up |-> FALSE, at |-> NoServer, key |-> NoServer]

InitialOtel(c) ==
    [up |-> c.endpoint # "", at |-> c.endpoint, key |-> c.endpoint,
     hot |-> IF c.endpoint # "" THEN c.push ELSE "default"]

(* shutdown takes both handles; the keys stay.                             *)
Stopped(sink) == [sink EXCEPT !.up = FALSE]

-----------------------------------------------------------------------------
CONSTANTS
    Clients,        \* gRPC callers, each with one call outstanding
    Calls,          \* what a caller may send: requests with their credentials
    OtherCalls,     \* further requests, each looked at once, from the booted file
    Booted,         \* the file the process started with
    Documents,      \* what the operator may write to the file; Unreadable too
    Unreadable,     \* a file that does not read or parse
    QueueDepth,     \* proposals the channel holds (64 in the code)
    MaxEvents       \* calls, signals and file edits in a behaviour

VARIABLES
    disk,           \* the configuration file
    eff,            \* EffectiveConfig: [file, overlay], overlay an option
    snap,           \* the installed snapshot: [cfg, generation]
    hub,            \* the compiled metrics configuration in use
    prom, otel,     \* the export sinks
    wired,          \* "unsent", "sent" or "yes": the controller's injection
    control,        \* the gRPC server: "off", "starting", "serving" or "failed"
    tracked,        \* the last install went through the wired controller
    queue,          \* proposals in the channel: [by, req]
    task,           \* the Configurator task
    waiting,        \* callers whose proposal has not been answered
    hup,            \* SIGHUPs not yet received by their task
    phase,          \* how far the supervisor's shutdown has come
    events          \* calls, signals and edits so far

vars == <<disk, eff, snap, hub, prom, otel, wired, tracked, control, queue, task, waiting,
          hup, phase, events>>
sinks == <<prom, otel>>

Sighup == "sighup"
Callers == Clients \cup {Sighup}

-----------------------------------------------------------------------------
(* EffectiveConfig::effective; the merge is expected to succeed.           *)
Layers(e) == IF e.overlay = <<>> THEN [ok |-> TRUE, cfg |-> e.file]
             ELSE MergeFileAndOverlay(e.file, e.overlay[1])
Effective(e) == Layers(e).cfg

(* validate, on what this module keeps of a configuration; ConfigValidate  *)
(* has it section by section.                                              *)
Valid(cfg) ==
    /\ cfg.version = 1
    /\ "orchestrator" \in DOMAIN cfg.sections =>
          cfg.sections["orchestrator"]["max_attempts"] > 0
    /\ \A i \in DOMAIN cfg.pools :
          LET p == cfg.pools[i]
          IN  /\ p.backends # <<>>
              /\ \A j \in DOMAIN p.backends : p.backends[j].address # ""
              /\ \A j, k \in DOMAIN p.backends :
                    p.backends[j].name = p.backends[k].name /\ p.backends[j].name # ""
                        => j = k

(* compile_metrics, for the fields the controller and the hub read.        *)
Compiled(cfg) ==
    LET Get(path, default) == IF path \in DOMAIN cfg.metrics THEN cfg.metrics[path]
                              ELSE default
    IN  [listen |-> Get("prometheus.listen", ""),
         path |-> Get("prometheus.path", "/metrics"),
         endpoint |-> Get("otel.endpoint", ""), push |-> Get("otel.push", "default"),
         plan |-> Get("plan", "default")]

ClearOverlay(e) == [e EXCEPT !.overlay = <<>>]

Keep(e) == [ok |-> TRUE, eff |-> e]
Refuse(e) == [ok |-> FALSE, eff |-> e]

(* Store an overlay, provided that it merges onto the file.                *)
StoreOverlay(e, overlay) ==
    IF MergeFileAndOverlay(e.file, overlay).ok
    THEN Keep([e EXCEPT !.overlay = <<overlay>>]) ELSE Refuse(e)

(* apply_overlay_mode *)
ReplaceOverlay(e, patch) ==
    CASE ~ValidateOverlayPatch(patch) -> Refuse(e)
      [] ValidateOverlayPatch(patch) /\ IsOverlayPatchEmpty(patch) -> Keep(ClearOverlay(e))
      [] OTHER -> StoreOverlay(e, patch)

MergeOverlay(e, patch) ==
    LET merged == IF e.overlay = <<>> THEN [ok |-> TRUE, cfg |-> patch]
                  ELSE MergeOverlayPatches(e.overlay[1], patch)
    IN  CASE ~ValidateOverlayPatch(patch) -> Refuse(e)
          [] ValidateOverlayPatch(patch) /\ IsOverlayPatchEmpty(patch) -> Keep(e)
          [] OTHER -> IF merged.ok THEN StoreOverlay(e, merged.cfg) ELSE Refuse(e)

(* apply_primitive_proposal: edit the effective configuration, then store  *)
(* the overlay that leads to it.                                           *)
ApplyPrimitive(e, req) ==
    LET Store(overlay) == IF overlay.ok THEN ReplaceOverlay(e, overlay.cfg) ELSE Refuse(e)
        Edit(desired) == IF desired.ok THEN Store(SynthesizeOverlay(e.file, desired.cfg))
                         ELSE Refuse(e)
    IN  Edit(MutateDesired(Effective(e), req))

(* prepare_effective on a working copy: the layers it would leave.         *)
PrepareEffective(e, req) ==
    LET Validated(working) ==
            IF working.ok /\ Valid(Effective(working.eff)) THEN working ELSE Refuse(e)
    IN  Validated(CASE req.op = "reload" ->
                         IF disk = Unreadable THEN Refuse(e)
                         ELSE Keep([file |-> disk, overlay |-> <<>>])
                    [] req.op = "clear" -> Keep(ClearOverlay(e))
                    [] req.op = "replace" -> ReplaceOverlay(e, req.patch)
                    [] req.op = "merge" -> MergeOverlay(e, req.patch)
                    [] OTHER -> ApplyPrimitive(e, req))

-----------------------------------------------------------------------------
(* Callers.                                                                *)

NoReply == [ok |-> FALSE, generation |-> 0]
IdleTask == [pc |-> "idle", by |-> Sighup, req |-> [op |-> "clear"],
             cfg |-> EmptyConfig, reply |-> NoReply]

TaskAlive == task.pc \notin {"panicked", "stopped"}

Event == events < MaxEvents /\ events' = events + 1

(* propose: an answer at once when the task is gone.                       *)
Propose(by, req) ==
    /\ by \notin waiting
    /\ IF TaskAlive
       THEN /\ Len(queue) < QueueDepth
            /\ queue' = Append(queue, [by |-> by, req |-> req])
            /\ waiting' = waiting \cup {by}
       ELSE UNCHANGED <<queue, waiting>>

(* A request reaches the gRPC server and is refused or proposed.           *)
Call(c, req) ==
    /\ phase = "running" /\ control = "serving" /\ Event
    /\ c \notin waiting
    /\ IF Admitted(snap.cfg, req) THEN Propose(c, req) ELSE UNCHANGED <<queue, waiting>>
    /\ UNCHANGED <<disk, eff, snap, hub, sinks, wired, tracked, control, task, hup, phase>>

(* A signal, and the task that turns it into a reload.  Told to stop, the  *)
(* task may still take a signal that arrived first.                        *)
SignalHup ==
    /\ hup = 0 /\ hup' = 1 /\ Event
    /\ UNCHANGED <<disk, eff, snap, hub, sinks, wired, tracked, control, queue, task, waiting, phase>>

ReloadOnHup ==
    /\ hup = 1 /\ phase \in {"running", "stopping", "control_stopped", "sinks_stopped"}
    /\ Propose(Sighup, [op |-> "reload"])
    /\ hup' = 0
    /\ UNCHANGED <<disk, eff, snap, hub, sinks, wired, tracked, control, task, phase, events>>

EditFile(doc) ==
    /\ disk # doc /\ disk' = doc /\ Event
    /\ UNCHANGED <<eff, snap, hub, sinks, wired, tracked, control, queue, task, waiting, hup, phase>>

-----------------------------------------------------------------------------
(* The Configurator task.                                                  *)

Take(entry, fields) ==
    [pc |-> fields.pc, by |-> entry.by, req |-> entry.req, cfg |-> fields.cfg,
     reply |-> fields.reply]

(* The select branch that injects the controller; nothing orders it before *)
(* a proposal that is already queued.                                      *)
WireController ==
    /\ task.pc = "idle" /\ wired = "sent" /\ wired' = "yes"
    /\ UNCHANGED <<disk, eff, snap, hub, sinks, tracked, control, queue, task, waiting, hup,
                   phase, events>>

(* apply_proposal up to its first await: prepare_effective commits the     *)
(* layers as soon as they validate.                                        *)
Prepare ==
    /\ task.pc = "idle" /\ queue # <<>>
    /\ \E r \in {PrepareEffective(eff, Head(queue).req)} :
           /\ eff' = r.eff
           /\ task' = Take(Head(queue),
                           IF r.ok
                           THEN [pc |-> "binding", cfg |-> Effective(r.eff),
                                 reply |-> NoReply]
                           ELSE [pc |-> "reply", cfg |-> EmptyConfig,
                                 reply |-> [NoReply EXCEPT
                                               !.generation = snap.generation]])
    /\ queue' = Tail(queue)
    /\ UNCHANGED <<disk, snap, hub, sinks, wired, tracked, control, waiting, hup, phase, events>>

Fail == [task EXCEPT !.pc = "reply", !.reply = [ok |-> FALSE, generation |-> snap.generation]]

(* The bind of a new Prometheus address fails: the apply is rejected.      *)
BindFails ==
    /\ task.pc = "binding" /\ wired = "yes"
    /\ NeedsPreBind(PrometheusChange(prom, Compiled(task.cfg)))
    /\ task' = Fail
    /\ UNCHANGED <<disk, eff, snap, hub, sinks, wired, tracked, control, queue, waiting, hup,
                   phase, events>>

(* What the second validate, the compilers and the cache reconcile may     *)
(* still refuse: it depends on files the configuration names.              *)
MayNotCompile(cfg) ==
    \/ cfg.data_sources # <<>> \/ cfg.caches # snap.cfg.caches
    \/ "rules" \in DOMAIN cfg.sections

CompilePanics(cfg) ==
    "rules" \in DOMAIN cfg.sections /\ cfg.sections["rules"] = "blank_selector"

InstallFails ==
    /\ task.pc = "binding"
    /\ MayNotCompile(task.cfg) /\ ~CompilePanics(task.cfg)
    /\ task' = Fail
    /\ UNCHANGED <<disk, eff, snap, hub, sinks, wired, tracked, control, queue, waiting, hup,
                   phase, events>>

(* install_validated_with_base, then the hub's plan.                       *)
Install ==
    /\ task.pc = "binding" /\ ~CompilePanics(task.cfg)
    /\ snap' = [cfg |-> task.cfg, generation |-> snap.generation + 1]
    /\ hub' = Compiled(task.cfg)
    /\ task' = [task EXCEPT !.pc = IF wired = "yes" THEN "committing" ELSE "reply",
                            !.reply = [ok |-> TRUE, generation |-> snap.generation + 1]]
    /\ tracked' = (wired = "yes")
    /\ UNCHANGED <<disk, eff, sinks, wired, control, queue, waiting, hup, phase, events>>

InstallPanics_LosesReplies ==
    /\ task.pc = "binding" /\ CompilePanics(task.cfg)
    /\ task' = [IdleTask EXCEPT !.pc = "panicked"]
    /\ UNCHANGED <<disk, eff, snap, hub, sinks, wired, tracked, control, queue, waiting, hup, phase,
                   events>>

(* A rule that validated and does not compile.  The task's panic drops the *)
(* channel and the replies it owes.                                        *)
InstallPanics ==
    /\ task.pc = "binding" /\ CompilePanics(task.cfg)
    /\ task' = [IdleTask EXCEPT !.pc = "panicked"]
    /\ queue' = <<>>
    /\ waiting' = {}
    /\ UNCHANGED <<disk, eff, snap, hub, sinks, wired, tracked, control, hup, phase, events>>

(* commit, after the old sinks stopped.                                    *)
Commit(bound) ==
    /\ task.pc = "committing"
    /\ \E c \in {Compiled(task.cfg)} :
           /\ prom' = CommitPrometheus(prom, c, PrometheusChange(prom, c), bound)
           /\ otel' = CommitOtel(otel, c, OtelChange(otel, c))
    /\ task' = [task EXCEPT !.pc = "reply"]
    /\ UNCHANGED <<disk, eff, snap, hub, wired, tracked, control, queue, waiting, hup, phase, events>>

Reply ==
    /\ task.pc = "reply"
    /\ waiting' = waiting \ {task.by}
    /\ task' = IdleTask
    /\ UNCHANGED <<disk, eff, snap, hub, sinks, wired, tracked, control, queue, hup, phase, events>>

(* Both channels are closed: the select loop ends.                         *)
Stop ==
    /\ task.pc = "idle" /\ phase = "dropped" /\ queue = <<>> /\ wired # "sent"
    /\ task' = [task EXCEPT !.pc = "stopped"]
    /\ UNCHANGED <<disk, eff, snap, hub, sinks, wired, tracked, control, queue, waiting, hup,
                   phase, events>>

-----------------------------------------------------------------------------
(* The supervisor.                                                         *)

(* start: the controller spawns the sinks the hub's configuration asks for *)
(* and is sent to the task.  A reload may already have been applied.       *)
StartExport(bound) ==
    /\ wired = "unsent" /\ wired' = "sent"
    /\ prom' = InitialPrometheus(hub, bound)
    /\ otel' = InitialOtel(hub)
    /\ control' = IF Section(Booted, "control") = <<>> THEN "off" ELSE "starting"
    /\ UNCHANGED <<disk, eff, snap, hub, tracked, queue, task, waiting, hup, phase, events>>

(* run_control_plane: when its address does not bind or its certificates   *)
(* do not load, the process goes on without it.                            *)
StartControl(up) ==
    /\ control = "starting" /\ phase = "running"
    /\ control' = IF up THEN "serving" ELSE "failed"
    /\ UNCHANGED <<disk, eff, snap, hub, sinks, wired, tracked, queue, task, waiting, hup,
                   phase, events>>

(* shutdown, one step per service it awaits.                               *)
BeginShutdown ==
    /\ phase = "running" /\ wired # "unsent" /\ phase' = "stopping"
    /\ UNCHANGED <<disk, eff, snap, hub, sinks, wired, tracked, control, queue, task, waiting, hup,
                   events>>

(* The gRPC server finishes the calls it has and takes no others.          *)
StopControl ==
    /\ phase = "stopping" /\ waiting \cap Clients = {}
    /\ phase' = "control_stopped"
    /\ UNCHANGED <<disk, eff, snap, hub, sinks, wired, tracked, control, queue, task, waiting, hup,
                   events>>

StopSinks ==
    /\ phase = "control_stopped" /\ phase' = "sinks_stopped"
    /\ prom' = Stopped(prom) /\ otel' = Stopped(otel)
    /\ UNCHANGED <<disk, eff, snap, hub, wired, tracked, control, queue, task, waiting, hup, events>>

(* The task's last call is awaited; then the supervisor drops its sender.  *)
StopSighup ==
    /\ phase = "sinks_stopped" /\ Sighup \notin waiting /\ phase' = "dropped"
    /\ UNCHANGED <<disk, eff, snap, hub, sinks, wired, tracked, control, queue, task, waiting, hup,
                   events>>

(* The join; a panic of the task is raised again in the supervisor.        *)
JoinTask ==
    /\ phase = "dropped" /\ ~TaskAlive
    /\ phase' = IF task.pc = "panicked" THEN "aborted" ELSE "stopped"
    /\ UNCHANGED <<disk, eff, snap, hub, sinks, wired, tracked, control, queue, task, waiting, hup,
                   events>>

-----------------------------------------------------------------------------

ASSUME BootedAssumption == Valid(Booted) /\ ~CompilePanics(Booted)

Init ==
    /\ disk = Booted
    /\ eff = [file |-> Booted, overlay |-> <<>>]
    /\ snap = [cfg |-> Booted, generation |-> 0]
    /\ hub = Compiled(Booted)
    /\ prom = [up |-> FALSE, at |-> NoServer, key |-> NoServer]
    /\ otel = [up |-> FALSE, at |-> "", key |-> "", hot |-> "default"]
    /\ wired = "unsent" /\ tracked = FALSE /\ control = "off"
    /\ queue = <<>> /\ task = IdleTask /\ waiting = {}
    /\ hup = 0 /\ phase = "running"
    /\ events = 0

TaskStep == \/ WireController \/ Prepare \/ BindFails \/ InstallFails \/ Install
            \/ InstallPanics \/ (\E bound \in BOOLEAN : Commit(bound)) \/ Reply \/ Stop

Supervisor == \/ \E bound \in BOOLEAN : StartExport(bound)
              \/ \E up \in BOOLEAN : StartControl(up)
              \/ StopControl \/ StopSinks \/ StopSighup \/ JoinTask

Environment == \/ \E c \in Clients, req \in Calls : Call(c, req)
               \/ SignalHup \/ ReloadOnHup
               \/ \E doc \in Documents : EditFile(doc)
               \/ BeginShutdown

Next == TaskStep \/ Supervisor \/ Environment

(* The runtime polls the task and the supervisor; nobody has to call, edit *)
(* or signal.  TaskFairness is WF_vars(TaskStep), with the condition under *)
(* which the task can step, and how its steps show, written out.           *)
TaskReady ==
    \/ task.pc \in {"binding", "committing", "reply"}
    \/ task.pc = "idle" /\ (queue # <<>> \/ wired = "sent" \/ phase = "dropped")

TaskSteps == task' # task \/ (wired = "sent" /\ wired' = "yes")

TaskFairness == []<>~TaskReady \/ []<><<TaskSteps>>_vars

Spec == Init /\ [][Next]_vars /\ TaskFairness /\ WF_vars(Supervisor)

-----------------------------------------------------------------------------

Schema == INSTANCE ConfigSchema
Checks == INSTANCE ConfigValidate

(* The two statements on whole documents are looked at once.               *)
AtBoot == events = 0 /\ wired = "unsent"

(* Each of the other requests, with no change before it.                   *)
OtherCallsReadBack ==
    \A req \in OtherCalls :
        \E r \in {PrepareEffective(eff, req)} :
            Admitted(snap.cfg, req) /\ r.ok => ReadsBack(Effective(r.eff), req)

(* A caller that is told ok finds its change in the installed snapshot:    *)
(* the typed change survives the synthesis of an overlay and the merge of  *)
(* that overlay onto the file, on top of whatever earlier overlays hold.   *)
(* And an overlay that accumulated over several calls still merges onto    *)
(* its file, whatever reloads and removals came in between, as             *)
(* EffectiveConfig::effective takes for granted.                           *)
AckedIsInstalled ==
    /\ Layers(eff).ok
    /\ AtBoot => OtherCallsReadBack
    /\ task.pc = "reply" /\ task.reply.ok =>
        /\ task.reply.generation = snap.generation
        /\ CASE task.req.op = "reload" -> eff.overlay = <<>> /\ snap.cfg = eff.file
             [] task.req.op \in {"merge", "replace", "clear"} -> snap.cfg = Effective(eff)
             [] OTHER -> ReadsBack(snap.cfg, task.req)

(* Between applies the sinks are those of the installed configuration: the *)
(* controller recorded its keys, a server that runs serves its address and *)
(* path, and the OTLP loop runs with the current settings exactly when an  *)
(* endpoint is set, however binds failed and applies were rejected before. *)
SinksFollowConfig ==
    LET c == Compiled(snap.cfg)
    IN  task.pc = "idle" =>
            /\ hub = c
            /\ tracked /\ phase = "running" =>
                  /\ prom.key = PrometheusBindKey(c) /\ (prom.up => prom.at = prom.key)
                  /\ otel.key = c.endpoint /\ (otel.up <=> c.endpoint # "")
                  /\ otel.up => otel.hot = c.push

(* Every caller is answered, also when the task panics or the supervisor   *)
(* is shutting down, and shutdown ends: the supervisor is not left waiting *)
(* for a task that waits for a sender the supervisor still holds.          *)
NobodyWaitsForEver ==
    /\ \A by \in Callers : by \in waiting ~> by \notin waiting
    /\ phase = "stopping" ~> phase \in {"stopped", "aborted"}

(* ExportConfig writes the effective layers as YAML and an operator may    *)
(* save that as the file: every section of an exported configuration loads *)
(* back with the same meaning, defaults and omitted fields included.       *)
ExportLoadsBack == AtBoot => Schema!RoundTrips

(* What passed validate builds, so that an apply is refused before it      *)
(* touches anything and a boot does not panic (ConfigValidate says which   *)
(* blank selector values are left out).                                    *)
ValidatedCompiles == AtBoot => Checks!ValidatedCompiles

(* configurator.rs:435 and :372: a proposal that is rejected leaves no     *)
(* trace, so the layers always describe the installed configuration.       *)
RejectedIsForgotten == task.pc = "idle" => Effective(eff) = snap.cfg

(* A configuration that passed validate never ends the Configurator task.  *)
ConfiguratorSurvives == task.pc # "panicked"

=============================================================================
