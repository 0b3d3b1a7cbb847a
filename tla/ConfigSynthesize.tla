--------------------------- MODULE ConfigSynthesize ---------------------------
(***************************************************************************)
(* The overlay that turns a file into a desired configuration              *)
(* (conduit-config/src/synthesize.rs).  The typed control-plane changes    *)
(* edit the effective configuration and store the overlay computed here.   *)
(***************************************************************************)
EXTENDS ConfigMerge

(* find_backend: by name when the needle has one, else, or failing that,   *)
(* by address.  0 when there is none.                                      *)
FindBackend(list, b) ==
    LET byName == IF b.name = "" THEN 0
                  ELSE SelectInSeq(list, LAMBDA c : c.name = b.name)
    IN  IF byName # 0 \/ b.address = "" THEN byName
        ELSE SelectInSeq(list, LAMBDA c : c.address = b.address)

BackendChanged_NameOnly(fileB, desiredB) ==
    desiredB.address # fileB.address \/ desiredB.name # fileB.name

BackendDelta(fileB, desiredB) ==
    [name |-> desiredB.name,
     address |-> CASE desiredB.address # "" /\ (desiredB.name = "" \/
                                                desiredB.address # fileB.address) ->
                        desiredB.address
                   [] desiredB.address = "" /\ desiredB.name = "" /\ fileB.name = "" ->
                        fileB.address
                   [] OTHER -> "",
     weight |-> IF desiredB.weight # fileB.weight THEN desiredB.weight ELSE "none",
     probe |-> IF desiredB.probe # fileB.probe THEN desiredB.probe ELSE "none",
     remove |-> FALSE]

BackendChanged(fileB, desiredB) ==
    \/ desiredB.address # fileB.address /\ desiredB.address # ""
    \/ \E f \in {"name", "weight", "probe"} : desiredB[f] # fileB[f]

SynthesizeBackends(file, desired) ==
    LET Step(b) == LET i == FindBackend(desired, b)
                   IN  CASE i = 0 -> <<RemoveMarker(b)>>
                         [] i # 0 /\ BackendChanged(b, desired[i]) ->
                              <<BackendDelta(b, desired[i])>>
                         [] OTHER -> <<>>
        added == SelectSeq(desired, LAMBDA b : FindBackend(file, b) = 0)
    IN  FoldLeft(LAMBDA acc, b : acc \o Step(b), <<>>, file)
        \o [i \in DOMAIN added |-> [added[i] EXCEPT !.remove = FALSE]]

SynthesizePools(file, desired) ==
    LET Find(list, name) == SelectInSeq(list, LAMBDA p : p.name = name)
        Marked(name, backends, remove) ==
            <<[name |-> name, attrs |-> "none", backends |-> backends,
               remove |-> remove]>>
        Step(p) == LET i == Find(desired, p.name)
                       backends == SynthesizeBackends(p.backends, desired[i].backends)
                   IN  CASE i = 0 -> Marked(p.name, <<>>, TRUE)
                         [] i # 0 /\ backends # <<>> -> Marked(p.name, backends, FALSE)
                         [] OTHER -> <<>>
        added == SelectSeq(desired, LAMBDA p : Find(file, p.name) = 0)
    IN  FoldLeft(LAMBDA acc, p : acc \o Step(p), <<>>, file) \o added

(* A section is put on the overlay when it differs.  One the desired       *)
(* configuration lacks cannot be expressed and stays as in the file.       *)
SynthesizeSectionReplace(file, desired) ==
    LET differ == {x \in DOMAIN desired \cap Replaceable :
                      x \notin DOMAIN file \/ desired[x] # file[x]}
    IN  [x \in differ |-> desired[x]]

SynthesizeMetrics(file, desired) ==
    LET differ == {x \in DOMAIN desired : x \notin DOMAIN file \/ desired[x] # file[x]}
    IN  [x \in differ |-> desired[x]]

(* A list is replaced when it differs, and cannot be emptied.              *)
SynthesizeList(file, desired) ==
    CASE file = desired -> Merged(<<>>)
      [] file # desired /\ desired = <<>> -> Failed
      [] OTHER -> Merged(desired)

SynthesizeOverlay(file, desired) ==
    LET sources == SynthesizeList(file.data_sources, desired.data_sources)
        caches == SynthesizeList(file.caches, desired.caches)
    IN  [ok |-> sources.ok /\ caches.ok,
         cfg |-> [version |-> desired.version,
                  sections |-> SynthesizeSectionReplace(file.sections, desired.sections),
                  data_sources |-> sources.list,
                  caches |-> caches.list,
                  metrics |-> SynthesizeMetrics(file.metrics, desired.metrics),
                  pools |-> SynthesizePools(file.pools, desired.pools)]]

=============================================================================
