----------------------------- MODULE ConfigMerge -----------------------------
(***************************************************************************)
(* The two layers of the configuration (conduit-config/src/merge.rs,       *)
(* synthesize.rs, overlay.rs): the file, and an overlay of API changes     *)
(* that is merged onto it.                                                 *)
(*                                                                         *)
(* A configuration is [version, sections, data_sources, caches, metrics,   *)
(* pools].  sections maps the sections that are set to their values, so an *)
(* absent section is outside its domain; metrics maps the paths that are   *)
(* set (prometheus.path, collection.<key>.emit, ...) to values, or is      *)
(* empty.  A pool is [name, attrs, backends, remove] with attrs standing   *)
(* for sources, health and max_inflight; a backend is [name, address,      *)
(* weight, probe, remove] with probe standing for the probe_* and          *)
(* transport fields.  "" is an absent name or address, "none" an absent    *)
(* weight or probe.                                                        *)
(***************************************************************************)
EXTENDS Naturals, Sequences, SequencesExt, FiniteSets

Unset == [x \in {} |-> "none"]

EmptyConfig == [version |-> 1, sections |-> Unset, data_sources |-> <<>>,
                caches |-> <<>>, metrics |-> Unset, pools |-> <<>>]

(* Sections an overlay replaces as a whole; rules and tracing belong to the*)
(* file layer alone.                                                       *)
Replaceable == {"listeners", "forward", "orchestrator", "events", "rhai",
                "control", "logging", "dataplane", "shutdown",
                "data_source_limits", "lookup", "acls"}

ValidateOverlayPatch(patch) == {"rules", "tracing"} \cap DOMAIN patch.sections = {}

IsOverlayPatchEmpty(patch) ==
    /\ DOMAIN patch.sections \cap Replaceable = {}
    /\ patch.pools = <<>> /\ patch.data_sources = <<>> /\ patch.caches = <<>>
    /\ patch.metrics = Unset

-----------------------------------------------------------------------------
(* Backends and pools.  A merge is a fold over the overlay's entries that  *)
(* stops at the first error.                                               *)

Failed == [ok |-> FALSE, list |-> <<>>]
Merged(list) == [ok |-> TRUE, list |-> list]

Identified(b) == b.name # "" \/ b.address # ""

(* An entry is matched by its name when it has one, else by its address.   *)
SameBackend(b, o) == IF o.name # "" THEN b.name = o.name ELSE b.address = o.address

RemoveMarker(b) ==
    [name |-> b.name, address |-> IF b.name # "" THEN "" ELSE b.address,
     weight |-> "none", probe |-> "none", remove |-> TRUE]

ApplyBackendOverlay(b, o) ==
    [b EXCEPT !.address = IF o.address = "" THEN @ ELSE o.address,
              !.name = IF o.name = "" THEN @ ELSE o.name,
              !.weight = IF o.weight = "none" THEN @ ELSE o.weight,
              !.remove = FALSE]

RemoveBackend(list, o) ==
    LET rest == SelectSeq(list, LAMBDA b : ~SameBackend(b, o))
    IN  IF ~Identified(o) \/ Len(rest) = Len(list) THEN Failed ELSE Merged(rest)

AccumulateBackendRemove(list, o) ==
    IF ~Identified(o) THEN Failed
    ELSE Merged(Append(SelectSeq(list, LAMBDA b : ~SameBackend(b, o)),
                       RemoveMarker(o)))

UpdateBackend(list, o) ==
    LET i == SelectInSeq(list, LAMBDA b : SameBackend(b, o))
    IN  CASE ~Identified(o) -> Failed
          [] Identified(o) /\ i # 0 ->
               Merged([list EXCEPT ![i] = ApplyBackendOverlay(@, o)])
          [] Identified(o) /\ i = 0 /\ o.address # "" ->
               Merged(Append(list, [o EXCEPT !.remove = FALSE]))
          [] OTHER -> Failed

(* mode is "baseline" when merging onto the file, where a remove marker    *)
(* deletes, and "accumulate" when merging one overlay into another, where  *)
(* it is kept for the merge onto the file.                                 *)
MergeBackends(base, overlay, mode) ==
    FoldLeft(LAMBDA acc, o :
                 CASE ~acc.ok -> acc
                   [] acc.ok /\ ~o.remove -> UpdateBackend(acc.list, o)
                   [] acc.ok /\ o.remove /\ mode = "baseline" ->
                        RemoveBackend(acc.list, o)
                   [] OTHER -> AccumulateBackendRemove(acc.list, o),
             Merged(base), overlay)

PoolRemoved(list, o, mode) ==
    LET rest == SelectSeq(list, LAMBDA p : p.name # o.name)
        marker == [name |-> o.name, attrs |-> "none", backends |-> <<>>, remove |-> TRUE]
    IN  CASE o.name = "" -> Failed
          [] o.name # "" /\ mode = "accumulate" -> Merged(Append(rest, marker))
          [] OTHER -> IF Len(rest) = Len(list) THEN Failed ELSE Merged(rest)

(* A pool the base does not have is appended; on the file its backends'    *)
(* remove markers are stripped, not applied.                               *)
PoolAdded(list, o, mode) ==
    Merged(Append(list,
        [o EXCEPT !.remove = FALSE,
                  !.backends = [i \in DOMAIN @ |->
                      IF mode = "baseline" THEN [@[i] EXCEPT !.remove = FALSE]
                      ELSE @[i]]]))

(* An overlay pool that the base has contributes its backends and nothing  *)
(* else, and cancels a pool-level remove marker.                           *)
PoolUpdated(list, i, o, mode) ==
    LET merged == MergeBackends(list[i].backends, o.backends, mode)
    IN  IF ~merged.ok THEN Failed
        ELSE Merged([list EXCEPT ![i] = [@ EXCEPT !.remove = FALSE,
                                                  !.backends = merged.list]])

MergePools(base, overlay, mode) ==
    FoldLeft(LAMBDA acc, o :
                 LET i == SelectInSeq(acc.list, LAMBDA p : p.name = o.name)
                 IN  CASE ~acc.ok -> acc
                       [] acc.ok /\ o.remove -> PoolRemoved(acc.list, o, mode)
                       [] acc.ok /\ ~o.remove /\ i # 0 ->
                            PoolUpdated(acc.list, i, o, mode)
                       [] OTHER -> PoolAdded(acc.list, o, mode),
             Merged(base), overlay)

-----------------------------------------------------------------------------
(* Whole configurations.                                                   *)

(* Set sections replace, non-empty lists replace, metrics are merged path  *)
(* by path, pools by name.                                                 *)
MergeMetrics(base, overlay) == overlay @@ base

MergeSections(base, overlay) ==
    [x \in DOMAIN overlay \cap Replaceable |-> overlay[x]] @@ base

ReplaceList(base, overlay) == IF overlay = <<>> THEN base ELSE overlay

MergeConfigs(base, overlay, mode) ==
    LET pools == MergePools(base.pools, overlay.pools, mode)
    IN  [ok |-> pools.ok,
         cfg |-> [version |-> overlay.version,
                  sections |-> MergeSections(base.sections, overlay.sections),
                  data_sources |-> ReplaceList(base.data_sources, overlay.data_sources),
                  caches |-> ReplaceList(base.caches, overlay.caches),
                  metrics |-> MergeMetrics(base.metrics, overlay.metrics),
                  pools |-> pools.list]]

MergeOverlayPatches(base, patch) == MergeConfigs(base, patch, "accumulate")

MergeFileAndOverlay(file, overlay) == MergeConfigs(file, overlay, "baseline")

=============================================================================
