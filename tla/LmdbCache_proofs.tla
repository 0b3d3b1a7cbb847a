-------------------------- MODULE LmdbCache_proofs --------------------------
(***************************************************************************)
(* The LMDB backend, for every set of keys, threads, directories and       *)
(* configurations: entries are filed by the layout that lookups use, a     *)
(* directory opens again after any crash but one in an open in place, and  *)
(* no commit escapes the flusher.                                          *)
(***************************************************************************)
EXTENDS CacheStore, TLAPS

\* The steps are first-order; a step that needs arithmetic cites SMT.
USE Zenon

-----------------------------------------------------------------------------
(* Types                                                                   *)
FileRec == [here : BOOLEAN, keys : SUBSET LmdbKeys, count : Nat]
DirRec == [side : 0 .. MaxN, file : [Slots -> FileRec]]
Modes == {"full", "periodic", "none"}
Policies == {"refuse", "evict_one", "sample"}
ObjRec == [open : BOOLEAN, n : 0 .. MaxN, legacy : BOOLEAN, caps : [Slots -> Nat], full : Policies,
           sync : Modes, size : Nat, dirty : [Slots -> BOOLEAN],
           flusher : {"none", "wait", "visit", "sync"}, i : Slots, ending : BOOLEAN]
InPlace == {"abandon", "create", "sidecar"}
Opening == {"clean", "detect", "opened"} \cup InPlace
Hot == {"hot", "sync", "join", "size", "shrink", "resize", "store"}
Moving == {"swap", "aside", "install"}
ApAts == {"idle", "mkdir", "unlink", "failed", "nothread"} \cup Opening \cup Hot \cup Moving
ApRec == [at : ApAts, cfg : Configs \cup {None}, d : Dirs \cup {None}, where : {"path", "staging"},
          n : 0 .. MaxN, i : Slots]
WrAts == {"idle", "exists", "count", "begin", "evict", "sample", "delete", "txn", "mark", "remove"}
WrRec == [at : WrAts, d : Dirs \cup {None}, key : LmdbKeys \cup {None}, cap : Nat, full : Policies,
          replacing : BOOLEAN, retry : BOOLEAN, victim : LmdbKeys \cup {None}, next : WrAts]

LmdbOK ==
    /\ name \in [Names -> Dirs \cup {None}] /\ cur \in Dirs \cup {None}
    /\ dir \in [Dirs -> DirRec] /\ obj \in [Dirs -> ObjRec]
    /\ ap \in ApRec /\ wr \in [Fillers -> WrRec]
    /\ unsynced \in [Dirs -> [Slots -> BOOLEAN]] /\ torn \in BOOLEAN

\* With no backend in service nothing is open; the one in service is, and an
\* open one has a shard.
Service ==
    /\ \A d \in Dirs : obj[d].open => cur # None /\ obj[d].n # 0
    /\ cur # None => obj[cur].open

\* A fill works on an open backend.
WritersOpen ==
    \A t \in Fillers : wr[t].at # "idle" =>
        wr[t].d \in Dirs /\ obj[wr[t].d].open /\ wr[t].key \in LmdbKeys

\* What a commit leaves to be synced is dirty, or about to be marked so.
Marking(d, s) ==
    \E t \in Fillers : wr[t].at = "mark" /\ wr[t].d = d /\ ShardForKey(obj[d], wr[t].key) = s
Covered ==
    \A d \in Dirs, s \in Slots : unsynced[d][s] => obj[d].open /\ (obj[d].dirty[s] \/ Marking(d, s))

\* Where the applying thread is: an open works on a directory that no backend
\* has, the configured one or a staging directory beside it.
Applying ==
    /\ ap.at \notin {"idle", "failed", "nothread"} => ap.cfg \in Configs
    /\ ap.at \in {"mkdir"} \cup Opening => (ap.where = "path" <=> cur = None)
    /\ ap.at \in Hot => cur # None
    /\ ap.at = "mkdir" /\ ap.where = "staging" => name["staging"] = None
    /\ ap.at \in Opening => /\ ap.d \in Dirs /\ name[ap.where] = ap.d /\ ~obj[ap.d].open
                            /\ ap.where = "staging" => name["path"] # ap.d
    /\ ap.at \in Moving => /\ ap.d \in Dirs /\ ap.where = "staging" /\ name["staging"] = ap.d
                           /\ obj[ap.d].open

\* A key is filed in its slot, by the sidecar's number of shards; what is in
\* a directory r is whole if it is sharded, unsharded or empty.
Filed(r) == \A s \in Slots : s < r.side => \A k \in r.file[s].keys : Hash[k] % r.side = s
Complete(n, file) == \A s \in Slots : s < n => file[s] # NoFile
Sharded(r, n) == r.side = n /\ n # 0 /\ Complete(n, r.file)
Unsharded(r) == r.side = 0 /\ r.file[Legacy] # NoFile
Empty(r) == r.side = 0 /\ \A s \in Slots : r.file[s] = NoFile
Good(r) == Sharded(r, r.side) \/ Unsharded(r) \/ Empty(r)

Layouts ==
    /\ \A d \in Dirs : Filed(dir[d])
    /\ \A d \in Dirs : obj[d].open => IF obj[d].legacy THEN Unsharded(dir[d]) ELSE Sharded(dir[d], obj[d].n)

\* What an open has found or made so far.
New(r, n) == r.side = 0 /\ Complete(n, r.file) /\ \A s \in Slots : r.file[s].keys = {}
Progress ==
    /\ ap.at \in InPlace \cup {"opened"} => ap.n # 0
    /\ ap.at = "abandon" => ap.i = 0
    /\ ap.at = "create" => IF ap.i = Legacy THEN Unsharded(dir[ap.d])
                           ELSE ap.i < ap.n /\ (Sharded(dir[ap.d], ap.n) \/ New(dir[ap.d], ap.i))
    /\ ap.at = "sidecar" => ap.i = 0 /\ (Sharded(dir[ap.d], ap.n) \/ New(dir[ap.d], ap.n))
    /\ ap.at = "opened" => IF ap.i = Legacy THEN Unsharded(dir[ap.d]) ELSE Sharded(dir[ap.d], ap.n)

\* The configured path can be opened, unless a crash has hit an open in place
\* or one is in progress.
PathOpens ==
    /\ ~torn /\ name["path"] # None /\ ~(ap.where = "path" /\ ap.at \in InPlace) => Good(dir[name["path"]])
    /\ ap.at = "failed" => torn

LmdbInv == /\ LmdbOK /\ Service /\ WritersOpen /\ Covered /\ Applying /\ Layouts /\ Progress
           /\ PathOpens

\* A flusher runs on an open backend.
FlushersOpen == \A d \in Dirs : obj[d].flusher # "none" => obj[d].open

-----------------------------------------------------------------------------
(* Helpers                                                                 *)

LEMMA LmdbConsts ==
    /\ MaxN \in Nat \ {0} /\ Legacy = MaxN /\ Legacy \in Slots /\ 0 \in Slots /\ Legacy # 0
    /\ Slots = 0 .. MaxN /\ MaxN \in 0 .. MaxN /\ None \notin Dirs /\ None \notin Configs
    /\ \A n \in 0 .. MaxN : n # 0 => 0 < n /\ n - 1 \in Slots
    /\ \A s \in Slots : ~(s < 0)
<1>1. MaxN \in Nat \ {0} /\ None \notin Dirs /\ None \notin Configs
  BY LmdbCacheAssumption DEF None
<1>2. 0 \in 0 .. MaxN /\ MaxN \in 0 .. MaxN /\ MaxN # 0
  BY <1>1, SMT
<1>3. \A n \in 0 .. MaxN : n # 0 => 0 < n /\ n - 1 \in 0 .. MaxN
  BY <1>1, SMT
<1>4. \A s \in 0 .. MaxN : ~(s < 0)
  BY <1>1, SMT
<1> QED
  BY <1>1, <1>2, <1>3, <1>4 DEF Legacy, Slots

LEMMA Files ==
    /\ NoFile \in FileRec /\ NoFile.here = FALSE /\ NoFile.keys = {} /\ NoDir \in DirRec
    /\ EmptyFile \in FileRec /\ EmptyFile # NoFile /\ EmptyFile.keys = {}
    /\ NoDir.side = 0 /\ NoDir.file = [s \in Slots |-> NoFile]
<1>1. NoFile \in FileRec /\ NoFile.here = FALSE /\ NoFile.keys = {}
  BY 0 \in Nat DEF NoFile, FileRec
<1>2. EmptyFile \in FileRec /\ EmptyFile.here = TRUE /\ EmptyFile.keys = {}
  BY <1>1, 0 \in Nat DEF EmptyFile, NoFile, FileRec
<1>3. NoDir \in DirRec /\ NoDir.side = 0 /\ NoDir.file = [s \in Slots |-> NoFile]
  BY <1>1, LmdbConsts DEF NoDir, DirRec
<1> QED
  BY <1>1, <1>2, <1>3

LEMMA Nothing ==
    /\ Closed \in ObjRec /\ ~Closed.open
    /\ NoJob \in WrRec /\ NoJob.at = "idle"
    /\ NoApply \in ApRec /\ NoApply.at = "idle" /\ NoApply.where = "path"
<1>1. Closed \in ObjRec /\ ~Closed.open
  BY LmdbConsts, 0 \in Nat DEF Closed, ObjRec, Policies, Modes
<1>2. NoJob \in WrRec /\ NoJob.at = "idle"
  BY 0 \in Nat DEF NoJob, WrRec, WrAts, Policies
<1>3. NoApply \in ApRec /\ NoApply.at = "idle" /\ NoApply.where = "path"
  BY LmdbConsts DEF NoApply, ApRec, ApAts
<1> QED
  BY <1>1, <1>2, <1>3

\* The slot of a key, and the slot of a shard.
LEMMA SlotType ==
    ASSUME NEW o \in ObjRec
    PROVE  /\ \A k \in LmdbKeys : o.n # 0 => ShardForKey(o, k) \in Slots
           /\ \A k \in LmdbKeys : o.n # 0 /\ ~o.legacy =>
                  ShardForKey(o, k) = Hash[k] % o.n /\ ShardForKey(o, k) < o.n
           /\ \A i \in Slots : Slot(o, i) \in Slots
<1>1. o.n \in 0 .. MaxN /\ o.legacy \in BOOLEAN
  BY DEF ObjRec
<1>2. \A k \in LmdbKeys : Hash[k] \in Nat
  BY LmdbCacheAssumption
<1>3. \A k \in LmdbKeys : o.n # 0 => Hash[k] % o.n \in Slots /\ Hash[k] % o.n < o.n
  BY <1>1, <1>2, LmdbConsts, SMT DEF Slots
<1> QED
  BY <1>1, <1>3, LmdbConsts DEF ShardForKey, Slot

LEMMA CfgType ==
    ASSUME ap.cfg \in Configs
    PROVE  Cfg.n \in 0 .. MaxN /\ Cfg.max \in Nat /\ Cfg.full \in Policies /\ Cfg.sync \in Modes
           /\ Cfg.size \in Nat
<1>1. Setting[ap.cfg] \in [n : 0 .. MaxN, max : Nat, full : {"refuse", "evict_one", "sample"},
                           sync : {"full", "periodic", "none"}, size : Nat]
  BY LmdbCacheAssumption
<1> QED
  BY <1>1 DEF Cfg, Policies, Modes

LEMMA CapsType ==
    ASSUME NEW max \in Nat, NEW n \in 0 .. MaxN
    PROVE  ShardCaps(max, n) \in [Slots -> Nat]
<1>1. ASSUME NEW s \in Slots, ~(s >= n) PROVE max \div n \in Nat
  BY <1>1, LmdbConsts, SMT DEF Slots
<1>2. ASSUME NEW s \in Slots, ~(s >= n)
      PROVE  (max \div n) + (IF s < max % n THEN 1 ELSE 0) \in Nat
  BY <1>1, <1>2, SMT
<1> QED
  BY <1>2, 0 \in Nat DEF ShardCaps

\* The applying thread's state, moved to another place.
LEMMA ApMoves ==
    ASSUME LmdbOK, NEW at \in ApAts
    PROVE  LET a == [ap EXCEPT !.at = at]
           IN  /\ a \in ApRec /\ a.at = at /\ a.cfg = ap.cfg /\ a.d = ap.d /\ a.where = ap.where
               /\ a.n = ap.n /\ a.i = ap.i
<1>1. ap \in ApRec
  BY DEF LmdbOK
<1> QED
  BY <1>1 DEF ApRec

-----------------------------------------------------------------------------
(***************************************************************************)
(* Steps of the applying thread that touch names and its own place only.   *)
(***************************************************************************)
LEMMA SameBackends ==
    ASSUME LmdbInv, UNCHANGED <<obj, wr, unsynced, cur>>
    PROVE  Service' /\ WritersOpen' /\ Covered'
<1>1. Service' /\ WritersOpen'
  BY DEF LmdbInv, Service, WritersOpen
<1>2. \A d, s : Marking(d, s)' <=> Marking(d, s)
  BY DEF Marking
<1>3. Covered'
  BY <1>2 DEF LmdbInv, Covered
<1> QED
  BY <1>1, <1>3

LEMMA NamesStep ==
    ASSUME LmdbInv, UNCHANGED <<dir, obj, wr, unsynced, torn, cur>>,
           name' \in [Names -> Dirs \cup {None}], ap' \in ApRec, Applying', Progress', PathOpens'
    PROVE  LmdbInv'
<1>1. LmdbOK'
  BY DEF LmdbInv, LmdbOK
<1>2. Layouts'
  BY DEF LmdbInv, Layouts
<1> QED
  BY <1>1, <1>2, SameBackends DEF LmdbInv

\* An end of the open or apply.
LEMMA GivesUp ==
    ASSUME LmdbInv, UNCHANGED <<dir, obj, wr, unsynced, torn, cur>>,
           name' \in [Names -> Dirs \cup {None}], ap' = NoApply,
           name'["path"] \in {None, name["path"], ap.d},
           name'["path"] = name["path"] => name'["path"] = None \/ ~(ap.where = "path" /\ ap.at \in InPlace),
           name'["path"] # name["path"] /\ name'["path"] # None => Good(dir[ap.d])
    PROVE  LmdbInv'
<1>1. /\ ap' \in ApRec /\ ap'.at = "idle"
  BY Nothing
<1>2. Applying' /\ Progress'
  BY <1>1 DEF Applying, Progress, Opening, Hot, Moving, InPlace
<1>3. PathOpens'
  BY <1>1 DEF LmdbInv, PathOpens
<1> QED
  BY <1>1, <1>2, <1>3, NamesStep

LEMMA StartStep ==
    ASSUME LmdbInv, NEW c \in Configs, Start(c)
    PROVE  LmdbInv'
<1>1. /\ ap.at = "idle" /\ cur = None /\ UNCHANGED <<name, dir, obj, cur, wr, unsynced, torn>>
      /\ ap' = [NoApply EXCEPT !.at = "mkdir", !.cfg = c]
  BY DEF Start
<1>2. ap' \in ApRec /\ ap'.at = "mkdir" /\ ap'.cfg = c /\ ap'.where = "path"
  BY <1>1, Nothing DEF ApRec, ApAts
<1>3. Applying'
  BY <1>1, <1>2 DEF Applying, Opening, Hot, Moving, InPlace
<1>4. Progress'
  BY <1>2 DEF Progress, Opening, InPlace
<1>5. PathOpens'
  BY <1>1, <1>2 DEF LmdbInv, PathOpens, InPlace
<1> QED
  BY <1>1, <1>2, <1>3, <1>4, <1>5, NamesStep DEF LmdbInv, LmdbOK

LEMMA CleanSiblingsStep ==
    ASSUME LmdbInv, CleanSiblings
    PROVE  LmdbInv'
<1>1. /\ ap.at = "clean" /\ UNCHANGED <<dir, obj, cur, wr, unsynced, torn>>
      /\ ap' = [ap EXCEPT !.at = "detect"]
      /\ name' = IF ap.where = "path"
                   THEN [name EXCEPT !["staging"] = None, !["abandoned"] = None] ELSE name
  BY DEF CleanSiblings
<1>2. ap' \in ApRec /\ ap'.at = "detect" /\ ap'.cfg = ap.cfg /\ ap'.d = ap.d /\ ap'.where = ap.where
  BY <1>1, ApMoves DEF LmdbInv, ApAts, Opening
<1>3. /\ name' \in [Names -> Dirs \cup {None}] /\ name'["path"] = name["path"]
      /\ name'[ap.where] = name[ap.where]
  BY <1>1 DEF LmdbInv, LmdbOK, Names, ApRec
<1>4. Applying'
  BY <1>1, <1>2, <1>3 DEF LmdbInv, Applying, Opening, Hot, Moving, InPlace
<1>5. Progress'
  BY <1>2 DEF Progress, Opening, InPlace
<1>6. PathOpens'
  BY <1>1, <1>2, <1>3 DEF LmdbInv, PathOpens, InPlace
<1> QED
  BY <1>1, <1>2, <1>3, <1>4, <1>5, <1>6, NamesStep

\* DetectLayout finds a layout that is whole, or gives up.
LEMMA Detects ==
    ASSUME LmdbOK, NEW d \in Dirs
    PROVE  /\ Good(dir[d]) => Detect(d) # "error"
           /\ Detect(d) = "sharded" => Sharded(dir[d], dir[d].side)
           /\ Detect(d) = "legacy" => Unsharded(dir[d])
           /\ Detect(d) = "empty" => Empty(dir[d])
           /\ Detect(d) \in {"sharded", "legacy", "empty", "error"}
<1> DEFINE side == dir[d].side
           file == dir[d].file
           have == {s \in Slots : file[s] # NoFile}
<1>1. dir[d] \in DirRec
  BY DEF LmdbOK
<1>2. side \in 0 .. MaxN /\ file \in [Slots -> FileRec]
  BY <1>1 DEF DirRec
<1>3. (side > 0 <=> side # 0) /\ \A s : s \in 0 .. side - 1 <=> s \in Slots /\ s < side
  BY <1>2, LmdbConsts, SMT DEF Slots
<1>4. (\A s \in 0 .. side - 1 : s \in have) <=> Complete(side, file)
  BY <1>3 DEF Complete
<1>5. Detect(d) = IF side > 0
                    THEN IF \A s \in 0 .. side - 1 : s \in have THEN "sharded" ELSE "error"
                  ELSE IF Legacy \in have THEN "legacy"
                  ELSE IF have # {} THEN "error" ELSE "empty"
  BY DEF Detect
<1>6. Legacy \in have <=> file[Legacy] # NoFile
  BY LmdbConsts
<1>7. have = {} <=> \A s \in Slots : file[s] = NoFile
  OBVIOUS
<1>8. (Good(dir[d]) <=> (Sharded(dir[d], side) \/ Unsharded(dir[d]) \/ Empty(dir[d])))
  BY DEF Good
<1>9. /\ Sharded(dir[d], side) <=> side # 0 /\ Complete(side, file)
      /\ Unsharded(dir[d]) <=> side = 0 /\ file[Legacy] # NoFile
      /\ Empty(dir[d]) <=> side = 0 /\ \A s \in Slots : file[s] = NoFile
  BY DEF Sharded, Unsharded, Empty
<1> HIDE DEF side, file, have
<1>10. CASE side # 0
  <2>1. Detect(d) = IF Complete(side, file) THEN "sharded" ELSE "error"
    BY <1>3, <1>4, <1>5, <1>10
  <2> QED
    BY <1>8, <1>9, <1>10, <2>1 DEF side
<1>11. CASE side = 0
  <2>1. Detect(d) = IF Legacy \in have THEN "legacy" ELSE IF have # {} THEN "error" ELSE "empty"
    BY <1>3, <1>5, <1>11
  <2> QED
    BY <1>6, <1>7, <1>8, <1>9, <1>11, <2>1
<1> QED
  BY <1>10, <1>11 DEF side

LEMMA DetectLayoutStep ==
    ASSUME LmdbInv, DetectLayout
    PROVE  LmdbInv'
<1> DEFINE abandons == RequiresAbandon(ap.d, Cfg.n)
           at == IF abandons THEN "abandon" ELSE "create"
           n == EffectiveCount(ap.d, Cfg.n)
           i == IF Detect(ap.d) = "legacy" /\ ~abandons THEN Legacy ELSE 0
<1>1. /\ ap.at = "detect" /\ UNCHANGED <<name, dir, obj, cur, wr, unsynced, torn>>
      /\ ap.d \in Dirs /\ name[ap.where] = ap.d /\ ap.cfg \in Configs
      /\ name' \in [Names -> Dirs \cup {None}] /\ Cfg.n \in 0 .. MaxN /\ ap \in ApRec
      /\ ap.where = "path" <=> cur = None
  BY CfgType DEF DetectLayout, LmdbInv, LmdbOK, Applying, Opening
<1>2. dir[ap.d].side \in 0 .. MaxN
  BY <1>1 DEF LmdbInv, LmdbOK, DirRec
<1>3. CASE Detect(ap.d) = "error"
  <2>1. ap' = IF ap.where = "path" THEN [NoApply EXCEPT !.at = "failed"] ELSE NoApply
    BY <1>3 DEF DetectLayout, OpenFails
  <2>2. CASE ap.where # "path"
    BY <1>1, <2>1, <2>2, GivesUp
  <2>3. CASE ap.where = "path"
    <3>1. ap' \in ApRec /\ ap'.at = "failed"
      BY <2>1, <2>3, Nothing DEF ApRec, ApAts
    <3>2. torn
      BY <1>1, <1>3, <2>3, Detects, LmdbConsts DEF LmdbInv, PathOpens, InPlace
    <3>3. Applying' /\ Progress'
      BY <3>1 DEF Applying, Progress, Opening, Hot, Moving, InPlace
    <3>4. PathOpens'
      BY <1>1, <3>2 DEF PathOpens
    <3> QED
      BY <1>1, <3>1, <3>3, <3>4, NamesStep
  <2> QED
    BY <2>2, <2>3
<1>4. CASE Detect(ap.d) # "error"
  <2>1. ap' = [ap EXCEPT !.at = at, !.n = n, !.i = i]
    BY <1>4 DEF DetectLayout
  <2>2. Detect(ap.d) \in {"sharded", "legacy", "empty"}
    BY <1>1, <1>4, Detects DEF LmdbInv
  <2>3. /\ at \in {"abandon", "create"} /\ i \in Slots /\ (abandons => i = 0)
        /\ (at = "abandon" <=> abandons)
    BY LmdbConsts
  <2>4. abandons => n = Cfg.n /\ n # 0
    BY DEF RequiresAbandon, EffectiveCount
  <2>5. ~abandons /\ Detect(ap.d) = "sharded" => n = dir[ap.d].side /\ Sharded(dir[ap.d], n) /\ i = 0
    BY <1>1, Detects DEF RequiresAbandon, EffectiveCount, OnDiskCount, LmdbInv
  <2>6. ~abandons /\ Detect(ap.d) = "legacy" => n = 1 /\ Unsharded(dir[ap.d]) /\ i = Legacy
    BY <1>1, Detects DEF RequiresAbandon, EffectiveCount, OnDiskCount, LmdbInv
  <2>7. ~abandons /\ Detect(ap.d) = "empty" => n \in {MaxN, Cfg.n} /\ n # 0 /\ Empty(dir[ap.d]) /\ i = 0
    BY <1>1, Detects, LmdbConsts DEF EffectiveCount, LmdbInv
  <2>8. 1 \in 0 .. MaxN /\ 1 # 0
    BY LmdbConsts, SMT
  <2>9. dir[ap.d].side # 0 \/ ~Sharded(dir[ap.d], dir[ap.d].side)
    BY DEF Sharded
  <2>10. n \in 0 .. MaxN /\ n # 0
    BY <1>1, <1>2, <2>2, <2>4, <2>5, <2>6, <2>7, <2>8, <2>9, LmdbConsts
  <2>11. Empty(dir[ap.d]) => New(dir[ap.d], 0)
    BY LmdbConsts, Files DEF Empty, New, Complete
  <2> HIDE DEF n, i, at, abandons
  <2>12. /\ ap' \in ApRec /\ ap'.at = at /\ ap'.n = n /\ ap'.i = i /\ ap'.d = ap.d
         /\ ap'.cfg = ap.cfg /\ ap'.where = ap.where
    BY <1>1, <2>1, <2>3, <2>10 DEF ApRec, ApAts, Opening, InPlace
  <2>13. Applying'
    BY <1>1, <2>3, <2>12 DEF LmdbInv, Applying, Opening, Hot, Moving, InPlace
  <2>14. Progress'
    <3>1. ap'.at = "create" => IF ap'.i = Legacy THEN Unsharded(dir[ap.d])
                               ELSE ap'.i < ap'.n /\ (Sharded(dir[ap.d], ap'.n) \/ New(dir[ap.d], ap'.i))
      BY <2>2, <2>3, <2>5, <2>6, <2>7, <2>10, <2>11, <2>12, LmdbConsts
    <3> QED
      BY <1>1, <2>3, <2>10, <2>12, <3>1 DEF Progress, Opening, InPlace
  <2>15. PathOpens'
    BY <1>1, <2>3, <2>12 DEF LmdbInv, PathOpens, InPlace
  <2> QED
    BY <1>1, <2>12, <2>13, <2>14, <2>15, NamesStep
<1> QED
  BY <1>3, <1>4

\* The apply of a configuration, and the move of a staging directory to the
\* configured path.
LEMMA BeginApplyStep ==
    ASSUME LmdbInv, NEW c \in Configs, BeginApply(c)
    PROVE  LmdbInv'
<1>1. /\ ap.at = "idle" /\ cur # None /\ UNCHANGED <<dir, obj, cur, wr, unsynced, torn>>
      /\ name \in [Names -> Dirs \cup {None}]
  BY DEF BeginApply, LmdbInv, LmdbOK
<1>2. CASE Reopens(c)
  <2>1. /\ name' = [name EXCEPT !["staging"] = None]
        /\ ap' = [NoApply EXCEPT !.at = "mkdir", !.cfg = c, !.where = "staging"]
    BY <1>2 DEF BeginApply
  <2>2. /\ name' \in [Names -> Dirs \cup {None}] /\ name'["path"] = name["path"]
        /\ name'["staging"] = None
    BY <1>1, <2>1 DEF Names
  <2>3. ap' \in ApRec /\ ap'.at = "mkdir" /\ ap'.cfg = c /\ ap'.where = "staging"
    BY <2>1, Nothing DEF ApRec, ApAts
  <2>4. Applying'
    BY <1>1, <2>2, <2>3 DEF Applying, Opening, Hot, Moving, InPlace
  <2>5. Progress'
    BY <2>3 DEF Progress, Opening, InPlace
  <2>6. PathOpens'
    BY <1>1, <2>2, <2>3 DEF LmdbInv, PathOpens, InPlace
  <2> QED
    BY <1>1, <2>2, <2>3, <2>4, <2>5, <2>6, NamesStep
<1>3. CASE ~Reopens(c)
  <2>1. name' = name /\ ap' = [NoApply EXCEPT !.at = "hot", !.cfg = c]
    BY <1>3 DEF BeginApply
  <2>2. ap' \in ApRec /\ ap'.at = "hot" /\ ap'.cfg = c
    BY <2>1, Nothing DEF ApRec, ApAts, Hot
  <2>3. Applying'
    BY <1>1, <2>1, <2>2 DEF Applying, Opening, Hot, Moving, InPlace
  <2>4. Progress'
    BY <2>2 DEF Progress, Opening, InPlace
  <2>5. PathOpens'
    BY <1>1, <2>1, <2>2 DEF LmdbInv, PathOpens, InPlace
  <2> QED
    BY <1>1, <2>1, <2>2, <2>3, <2>4, <2>5, NamesStep
<1> QED
  BY <1>2, <1>3

LEMMA MovesAreGood ==
    ASSUME LmdbInv, ap.at \in Moving
    PROVE  /\ ap.d \in Dirs /\ ap.where = "staging" /\ name["staging"] = ap.d /\ Good(dir[ap.d])
           /\ name \in [Names -> Dirs \cup {None}] /\ ap \in ApRec
<1>1. ap.d \in Dirs /\ ap.where = "staging" /\ name["staging"] = ap.d /\ obj[ap.d].open
  BY DEF LmdbInv, Applying
<1>2. IF obj[ap.d].legacy THEN Unsharded(dir[ap.d]) ELSE Sharded(dir[ap.d], obj[ap.d].n)
  BY <1>1 DEF LmdbInv, Layouts
<1>3. Sharded(dir[ap.d], obj[ap.d].n) => Sharded(dir[ap.d], dir[ap.d].side)
  BY DEF Sharded
<1> QED
  BY <1>1, <1>2, <1>3 DEF LmdbInv, LmdbOK, Good

LEMMA MoveAsideStep ==
    ASSUME LmdbInv, MoveAside
    PROVE  LmdbInv'
<1>1. ap.at = "aside" /\ UNCHANGED <<dir, obj, cur, wr, unsynced, torn>> /\ ap.at \in Moving
      /\ name["path"] \in Dirs \cup {None}
  BY DEF MoveAside, Moving, LmdbInv, LmdbOK, Names
<1>2. CASE /\ name' = [name EXCEPT !["abandoned"] = name["path"], !["path"] = None]
           /\ ap' = [ap EXCEPT !.at = "install"]
  <2>1. /\ name' \in [Names -> Dirs \cup {None}] /\ name'["path"] = None
        /\ name'["staging"] = name["staging"]
    BY <1>1, <1>2, MovesAreGood DEF Names
  <2>2. ap' \in ApRec /\ ap'.at = "install" /\ ap'.cfg = ap.cfg /\ ap'.d = ap.d /\ ap'.where = ap.where
    BY <1>2, ApMoves DEF LmdbInv, ApAts, Moving
  <2>3. Applying'
    BY <1>1, <2>1, <2>2 DEF LmdbInv, Applying, Opening, Hot, Moving, InPlace
  <2>4. Progress'
    BY <2>2 DEF Progress, Opening, InPlace
  <2>5. PathOpens'
    BY <1>1, <2>1, <2>2 DEF PathOpens
  <2> QED
    BY <1>1, <2>1, <2>2, <2>3, <2>4, <2>5, NamesStep
<1>3. CASE ap' = NoApply /\ name' = name
  BY <1>1, <1>3, MovesAreGood, GivesUp DEF InPlace
<1> QED
  BY <1>2, <1>3 DEF MoveAside

LEMMA InstallStep ==
    ASSUME LmdbInv, Install
    PROVE  LmdbInv'
<1>1. ap.at = "install" /\ UNCHANGED <<dir, obj, cur, wr, unsynced, torn>> /\ ap.at \in Moving
  BY DEF Install, Moving
<1>2. CASE /\ name' = [name EXCEPT !["path"] = name["staging"], !["staging"] = None]
           /\ ap' = [ap EXCEPT !.at = "unlink"]
  <2>1. name' \in [Names -> Dirs \cup {None}] /\ name'["path"] = ap.d
    BY <1>1, <1>2, MovesAreGood DEF Names
  <2>2. ap' \in ApRec /\ ap'.at = "unlink" /\ ap'.cfg = ap.cfg
    BY <1>2, ApMoves DEF LmdbInv, ApAts
  <2>3. Applying'
    BY <1>1, <2>2 DEF LmdbInv, Applying, Opening, Hot, Moving, InPlace
  <2>4. Progress'
    BY <2>2 DEF Progress, Opening, InPlace
  <2>5. PathOpens'
    BY <1>1, <2>1, <2>2, MovesAreGood DEF PathOpens
  <2> QED
    BY <1>1, <2>1, <2>2, <2>3, <2>4, <2>5, NamesStep
<1>3. CASE ap' = NoApply /\ name' = name
  BY <1>1, <1>3, MovesAreGood, GivesUp DEF InPlace
<1> QED
  BY <1>2, <1>3 DEF Install

LEMMA UnlinkStep ==
    ASSUME LmdbInv, Unlink
    PROVE  LmdbInv'
<1>1. /\ ap.at = "unlink" /\ UNCHANGED <<dir, obj, cur, wr, unsynced, torn>>
      /\ name' = [name EXCEPT !["abandoned"] = None] /\ ap' = NoApply
      /\ name \in [Names -> Dirs \cup {None}]
  BY DEF Unlink, LmdbInv, LmdbOK
<1>2. name' \in [Names -> Dirs \cup {None}] /\ name'["path"] = name["path"]
  BY <1>1 DEF Names
<1> QED
  BY <1>1, <1>2, GivesUp DEF InPlace

\* The steps of a hot apply that change its place only.
LEMMA HotMoves ==
    ASSUME LmdbInv, ap.at \in Hot, NEW at \in Hot, ap' = [ap EXCEPT !.at = at],
           UNCHANGED <<name, dir, cur, torn>>
    PROVE  ap' \in ApRec /\ ap'.at = at /\ Applying' /\ Progress' /\ PathOpens'
<1>1. ap' \in ApRec /\ ap'.at = at /\ ap'.cfg = ap.cfg
  BY ApMoves DEF LmdbInv, ApAts
<1>2. Applying'
  BY <1>1 DEF LmdbInv, Applying, Opening, Hot, Moving, InPlace
<1>3. Progress'
  BY <1>1 DEF Progress, Opening, InPlace, Hot
<1>4. PathOpens'
  BY <1>1 DEF LmdbInv, PathOpens, InPlace, Hot
<1> QED
  BY <1>1, <1>2, <1>3, <1>4

LEMMA HotPlaceSteps ==
    ASSUME LmdbInv, FinalSyncDone \/ HotSize \/ ShrinkFits \/ StoreConfig
    PROVE  LmdbInv'
<1>1. UNCHANGED <<name, dir, obj, cur, wr, unsynced, torn>> /\ name \in [Names -> Dirs \cup {None}]
  BY DEF FinalSyncDone, HotSize, ShrinkFits, StoreConfig, LmdbInv, LmdbOK
<1>2. CASE StoreConfig
  BY <1>1, <1>2, GivesUp DEF StoreConfig, InPlace
<1>3. ASSUME ap.at \in Hot, NEW at \in Hot, ap' = [ap EXCEPT !.at = at] PROVE LmdbInv'
  BY <1>1, <1>3, HotMoves, NamesStep
<1>4. CASE FinalSyncDone
  BY <1>3, <1>4 DEF FinalSyncDone, Hot
<1>5. CASE HotSize
  BY <1>3, <1>5 DEF HotSize, Hot
<1>6. CASE ShrinkFits
  BY <1>3, <1>6 DEF ShrinkFits, Hot
<1> QED
  BY <1>2, <1>4, <1>5, <1>6

LEMMA SwapStep ==
    ASSUME LmdbInv, Swap
    PROVE  LmdbInv'
<1>1. /\ ap.at = "swap" /\ ap.at \in Moving /\ cur' = ap.d /\ ap' = [ap EXCEPT !.at = "aside"]
      /\ name' = [name EXCEPT !["abandoned"] = None]
      /\ UNCHANGED <<dir, obj, wr, unsynced, torn>>
  BY DEF Swap, Moving
<1>2. ap.d \in Dirs /\ obj[ap.d].open /\ ap.d # None
  BY <1>1, LmdbConsts DEF LmdbInv, Applying
<1>3. /\ name' \in [Names -> Dirs \cup {None}] /\ name'["path"] = name["path"]
      /\ name'["staging"] = name["staging"]
  BY <1>1, MovesAreGood DEF Names
<1>4. ap' \in ApRec /\ ap'.at = "aside" /\ ap'.cfg = ap.cfg /\ ap'.d = ap.d /\ ap'.where = ap.where
  BY <1>1, ApMoves DEF LmdbInv, ApAts, Moving
<1>5. LmdbOK'
  BY <1>1, <1>2, <1>3, <1>4 DEF LmdbInv, LmdbOK
<1>6. Service' /\ WritersOpen'
  BY <1>1, <1>2 DEF LmdbInv, Service, WritersOpen
<1>7. Covered'
  <2>1. \A d, s : Marking(d, s)' <=> Marking(d, s)
    BY <1>1 DEF Marking
  <2> QED
    BY <1>1, <2>1 DEF LmdbInv, Covered
<1>8. Applying'
  BY <1>1, <1>2, <1>3, <1>4 DEF LmdbInv, Applying, Opening, Hot, Moving, InPlace
<1>9. Layouts'
  BY <1>1 DEF LmdbInv, Layouts
<1>10. Progress'
  BY <1>4 DEF Progress, Opening, InPlace
<1>11. PathOpens'
  BY <1>1, <1>3, <1>4 DEF LmdbInv, PathOpens, InPlace
<1> QED
  BY <1>5, <1>6, <1>7, <1>8, <1>9, <1>10, <1>11 DEF LmdbInv

-----------------------------------------------------------------------------
(***************************************************************************)
(* Steps of an open, on a directory that no backend has.                   *)
(***************************************************************************)
LEMMA OtherDirs ==
    ASSUME LmdbOK, NEW d \in Dirs, NEW r, dir' = [dir EXCEPT ![d] = r]
    PROVE  dir'[d] = r /\ \A e \in Dirs : e # d => dir'[e] = dir[e]
  BY DEF LmdbOK

LEMMA DirStep ==
    ASSUME LmdbInv, NEW d \in Dirs, ~obj[d].open, NEW r \in DirRec, dir' = [dir EXCEPT ![d] = r],
           Filed(r), UNCHANGED <<obj, cur, wr, unsynced, torn>>,
           name' \in [Names -> Dirs \cup {None}], ap' \in ApRec, Applying', Progress', PathOpens'
    PROVE  LmdbInv'
<1>1. LmdbOK'
  BY DEF LmdbInv, LmdbOK
<1>2. dir'[d] = r /\ \A e \in Dirs : e # d => dir'[e] = dir[e]
  BY OtherDirs DEF LmdbInv
<1>3. \A e \in Dirs : Filed(dir'[e])
  BY <1>2 DEF LmdbInv, Layouts
<1>4. Layouts'
  BY <1>2, <1>3 DEF LmdbInv, Layouts
<1> QED
  BY <1>1, <1>4, SameBackends DEF LmdbInv

LEMMA MakeDirStep ==
    ASSUME LmdbInv, MakeDir
    PROVE  LmdbInv'
<1>1. /\ ap.at = "mkdir" /\ UNCHANGED <<obj, cur, wr, unsynced, torn>>
      /\ name \in [Names -> Dirs \cup {None}] /\ ap \in ApRec
      /\ ap.cfg \in Configs /\ (ap.where = "path" <=> cur = None) /\ ap.where \in {"path", "staging"}
      /\ ap.where = "staging" => name["staging"] = None
  BY DEF MakeDir, LmdbInv, LmdbOK, Applying, ApRec
<1>2. ASSUME NEW d \in Dirs, ap' = [ap EXCEPT !.at = "clean", !.d = d],
             name' \in [Names -> Dirs \cup {None}], name'[ap.where] = d, ~obj[d].open,
             ap.where = "staging" => name'["path"] # d
      PROVE  ap' \in ApRec /\ ap'.at = "clean" /\ ap'.where = ap.where /\ Applying' /\ Progress'
  <2>1. ap' \in ApRec /\ ap'.at = "clean" /\ ap'.where = ap.where /\ ap'.d = d /\ ap'.cfg = ap.cfg
    BY <1>1, <1>2 DEF ApRec, ApAts, Opening
  <2>2. Applying'
    BY <1>1, <1>2, <2>1 DEF Applying, Opening, Hot, Moving, InPlace
  <2>3. Progress'
    BY <2>1 DEF Progress, Opening, InPlace
  <2> QED
    BY <2>1, <2>2, <2>3
<1>3. CASE name[ap.where] = None
  <2>1. PICK d \in Dirs :
            /\ FreshDir(d)
            /\ name' = [name EXCEPT ![ap.where] = d] /\ dir' = [dir EXCEPT ![d] = NoDir]
            /\ ap' = [ap EXCEPT !.at = "clean", !.d = d]
    BY <1>3 DEF MakeDir
  <2>2. ~obj[d].open /\ name["path"] # d
    BY <2>1 DEF FreshDir, Names
  <2>3. /\ name' \in [Names -> Dirs \cup {None}] /\ name'[ap.where] = d
        /\ ap.where = "staging" => name'["path"] = name["path"]
    BY <1>1, <2>1 DEF Names
  <2>4. ap' \in ApRec /\ ap'.at = "clean" /\ ap'.where = ap.where /\ Applying' /\ Progress'
    BY <1>2, <2>1, <2>2, <2>3
  <2>5. Filed(NoDir)
    BY Files, LmdbConsts DEF Filed
  <2>6. Good(dir'[d])
    <3>1. dir'[d].side = 0 /\ \A s \in Slots : dir'[d].file[s] = NoFile
      BY <2>1, Files DEF LmdbInv, LmdbOK
    <3> QED
      BY <3>1 DEF Good, Empty
  <2>7. PathOpens'
    <3>1. name'["path"] \in Dirs \cup {None}
      BY <2>3 DEF Names
    <3>2. ap.where # "staging" => name'["path"] = d
      BY <1>1, <2>3
    <3>3. ~torn /\ name["path"] # None => Good(dir[name["path"]])
      BY <1>1 DEF LmdbInv, PathOpens, InPlace
    <3>4. \A e \in Dirs : e # d => dir'[e] = dir[e]
      BY <2>1, OtherDirs DEF LmdbInv
    <3>5. ~torn /\ name'["path"] # None => Good(dir'[name'["path"]])
      BY <2>3, <2>6, <3>1, <3>2, <3>3, <3>4
    <3> QED
      BY <1>1, <2>4, <3>5 DEF PathOpens
  <2> QED
    BY <1>1, <2>1, <2>2, <2>3, <2>4, <2>5, <2>7, Files, DirStep
<1>4. CASE name[ap.where] # None
  <2>1. ap' = [ap EXCEPT !.at = "clean", !.d = name[ap.where]] /\ UNCHANGED <<name, dir>>
    BY <1>4 DEF MakeDir
  <2>2. name[ap.where] \in Dirs /\ ap.where = "path" /\ cur = None
    BY <1>1, <1>4 DEF Names
  <2>3. ~obj[name[ap.where]].open
    BY <2>2 DEF LmdbInv, Service
  <2>4. ap' \in ApRec /\ ap'.at = "clean" /\ ap'.where = ap.where /\ Applying' /\ Progress'
    BY <1>1, <1>2, <2>1, <2>2, <2>3
  <2>5. PathOpens'
    BY <1>1, <2>1, <2>4 DEF LmdbInv, PathOpens, InPlace
  <2> QED
    BY <1>1, <2>1, <2>4, <2>5, NamesStep
<1> QED
  BY <1>3, <1>4


\* A step of an open in place or in the staging directory.
LEMMA OpeningStep ==
    ASSUME LmdbInv, ap.at \in InPlace, NEW r \in DirRec, dir' = [dir EXCEPT ![ap.d] = r], Filed(r),
           UNCHANGED <<name, obj, cur, wr, unsynced, torn>>, ap' \in ApRec,
           ap'.at \in InPlace \cup {"opened"}, ap'.cfg = ap.cfg, ap'.d = ap.d, ap'.where = ap.where,
           Progress', ap'.at = "opened" => Good(r)
    PROVE  LmdbInv'
<1>1. /\ ap.at \in Opening /\ ap'.at \in Opening /\ ap.d \in Dirs /\ ~obj[ap.d].open
      /\ ap.where \in {"path", "staging"} /\ name[ap.where] = ap.d
      /\ ap.where = "staging" => name["path"] # ap.d
      /\ name' \in [Names -> Dirs \cup {None}] /\ name["path"] \in Dirs \cup {None}
  BY DEF LmdbInv, LmdbOK, Applying, Opening, ApRec, Names
<1>2. dir'[ap.d] = r /\ \A e \in Dirs : e # ap.d => dir'[e] = dir[e]
  BY <1>1, OtherDirs DEF LmdbInv
<1>3. Applying'
  BY <1>1 DEF LmdbInv, Applying, Opening, Hot, Moving, InPlace
<1>4. PathOpens'
  <2>1. ap'.at # "failed" /\ (ap'.at \in InPlace \/ ap'.at = "opened")
    BY <1>1 DEF InPlace
  <2>2. CASE ap.where = "path"
    BY <1>1, <1>2, <2>1, <2>2 DEF PathOpens
  <2>3. CASE ap.where # "path"
    <3>1. name["path"] # None => dir'[name["path"]] = dir[name["path"]]
      BY <1>1, <1>2, <2>3
    <3> QED
      BY <2>1, <2>3, <3>1 DEF LmdbInv, PathOpens
  <2> QED
    BY <2>2, <2>3
<1> QED
  BY <1>1, <1>3, <1>4, DirStep

LEMMA AbandonStepStep ==
    ASSUME LmdbInv, AbandonStep
    PROVE  LmdbInv'
<1> DEFINE r == dir[ap.d]
<1>1. /\ ap.at = "abandon" /\ UNCHANGED <<name, obj, cur, wr, unsynced, torn>>
      /\ ap.d \in Dirs /\ ap \in ApRec /\ r \in DirRec /\ dir \in [Dirs -> DirRec] /\ ap.at \in InPlace
      /\ ap.n # 0 /\ ap.i = 0
  BY DEF AbandonStep, LmdbInv, LmdbOK, Applying, Progress, Opening, InPlace
<1>2. CASE dir' = [dir EXCEPT ![ap.d].side = 0] /\ UNCHANGED ap
  <2> DEFINE x == [r EXCEPT !.side = 0]
  <2>1. x \in DirRec /\ x.side = 0 /\ dir' = [dir EXCEPT ![ap.d] = x]
    BY <1>1, <1>2, LmdbConsts DEF DirRec, Slots
  <2> HIDE DEF x
  <2>2. Filed(x)
    BY <2>1, LmdbConsts DEF Filed
  <2>3. Progress'
    BY <1>1, <1>2 DEF Progress
  <2> QED
    BY <1>1, <1>2, <2>1, <2>2, <2>3, OpeningStep
<1>3. ASSUME r.side = 0, NEW s \in Slots, dir' = [dir EXCEPT ![ap.d].file[s] = NoFile], UNCHANGED ap
      PROVE  LmdbInv'
  <2> DEFINE f == [r.file EXCEPT ![s] = NoFile]
             x == [r EXCEPT !.file = f]
  <2>0. r.file \in [Slots -> FileRec]
    BY <1>1 DEF DirRec
  <2>1. f \in [Slots -> FileRec]
    BY <2>0, Files
  <2>2. dir' = [dir EXCEPT ![ap.d] = x]
    BY <1>3
  <2> HIDE DEF f
  <2>3. x \in DirRec /\ x.side = 0
    BY <1>1, <1>3, <2>1 DEF DirRec
  <2> HIDE DEF x
  <2>4. Filed(x)
    BY <2>3, LmdbConsts DEF Filed
  <2>5. Progress'
    BY <1>1, <1>3 DEF Progress
  <2> QED
    BY <1>1, <1>3, <2>2, <2>3, <2>4, <2>5, OpeningStep
<1>4. CASE r = NoDir /\ ap' = [ap EXCEPT !.at = "create"] /\ UNCHANGED dir
  <2>1. /\ ap' \in ApRec /\ ap'.at = "create" /\ ap'.cfg = ap.cfg /\ ap'.d = ap.d
        /\ ap'.where = ap.where /\ ap'.n = ap.n /\ ap'.i = ap.i
    BY <1>4, ApMoves DEF LmdbInv, ApAts, Opening, InPlace
  <2>2. dir' = [dir EXCEPT ![ap.d] = r] /\ dir'[ap.d] = r
    BY <1>1, <1>4
  <2>3. Filed(r)
    BY <1>1 DEF LmdbInv, Layouts
  <2>4. New(r, 0)
    BY <1>4, Files, LmdbConsts DEF New, Complete
  <2>5. 0 < ap.n
    BY <1>1, LmdbConsts DEF ApRec
  <2> HIDE DEF r
  <2>6. Progress'
    BY <1>1, <2>1, <2>2, <2>4, <2>5, LmdbConsts DEF Progress, InPlace
  <2>7. ap'.at \in InPlace \cup {"opened"} /\ ap'.at # "opened"
    BY <2>1 DEF InPlace
  <2> QED
    BY <1>1, <2>1, <2>2, <2>3, <2>6, <2>7, OpeningStep
<1> QED
  BY <1>2, <1>3, <1>4 DEF AbandonStep

LEMMA OpenShardStep ==
    ASSUME LmdbInv, OpenShard
    PROVE  LmdbInv'
<1> DEFINE r == dir[ap.d]
           g == IF r.file[ap.i] = NoFile THEN EmptyFile ELSE r.file[ap.i]
           f == [r.file EXCEPT ![ap.i] = g]
           x == [r EXCEPT !.file = f]
<1>1. /\ ap.at = "create" /\ UNCHANGED <<name, obj, cur, wr, unsynced, torn>>
      /\ ap.d \in Dirs /\ ap \in ApRec /\ r \in DirRec /\ dir \in [Dirs -> DirRec] /\ ap.at \in InPlace
      /\ ap.n # 0 /\ IF ap.i = Legacy THEN Unsharded(r)
                     ELSE ap.i < ap.n /\ (Sharded(r, ap.n) \/ New(r, ap.i))
      /\ Filed(r)
  BY DEF OpenShard, LmdbInv, LmdbOK, Applying, Progress, Layouts, Opening, InPlace
<1>2. /\ ap.i \in Slots /\ ap.n \in 0 .. MaxN /\ r.file \in [Slots -> FileRec] /\ r.side \in 0 .. MaxN
  BY <1>1 DEF ApRec, DirRec
<1>3. g \in FileRec /\ g # NoFile /\ g.keys = r.file[ap.i].keys
  BY <1>2, Files
<1>4. dir' = [dir EXCEPT ![ap.d] = x]
  BY DEF OpenShard
<1> HIDE DEF g
<1>5. /\ f \in [Slots -> FileRec] /\ f[ap.i] = g
      /\ \A s \in Slots : f[s].keys = r.file[s].keys /\ (r.file[s] # NoFile => f[s] # NoFile)
  BY <1>2, <1>3
<1> HIDE DEF f
<1>6. x \in DirRec /\ x.side = r.side /\ x.file = f
  BY <1>1, <1>5 DEF DirRec
<1> HIDE DEF x, r
<1>7. Filed(x)
  BY <1>1, <1>5, <1>6 DEF Filed
<1>8. dir'[ap.d] = x
  BY <1>1, <1>4
<1>9. Unsharded(r) => Unsharded(x)
  BY <1>5, <1>6, LmdbConsts DEF Unsharded
<1>10. Sharded(r, ap.n) => Sharded(x, ap.n)
  BY <1>5, <1>6 DEF Sharded, Complete
<1>11. ASSUME ap' = [ap EXCEPT !.at = "opened"], ap.i = Legacy PROVE LmdbInv'
  <2>1. /\ ap' \in ApRec /\ ap'.at = "opened" /\ ap'.cfg = ap.cfg /\ ap'.d = ap.d
        /\ ap'.where = ap.where /\ ap'.n = ap.n /\ ap'.i = ap.i
    BY <1>11, ApMoves DEF LmdbInv, ApAts, Opening
  <2>2. Progress'
    BY <1>1, <1>8, <1>9, <1>11, <2>1 DEF Progress, InPlace
  <2>3. Good(x)
    BY <1>1, <1>9, <1>11 DEF Good
  <2> QED
    BY <1>1, <1>4, <1>6, <1>7, <2>1, <2>2, <2>3, OpeningStep
<1>12. CASE ap.i # Legacy /\ ap.i < ap.n - 1
  <2>1. ap' = [ap EXCEPT !.i = ap.i + 1]
    BY <1>12 DEF OpenShard
  <2>2. ap.i + 1 \in Slots /\ ap.i + 1 < ap.n /\ ap.i + 1 # Legacy
        /\ \A s \in Slots : s < ap.i + 1 => s < ap.i \/ s = ap.i
    BY <1>2, <1>12, LmdbConsts, SMT DEF Slots
  <2>3. /\ ap' \in ApRec /\ ap'.at = "create" /\ ap'.cfg = ap.cfg /\ ap'.d = ap.d
        /\ ap'.where = ap.where /\ ap'.n = ap.n /\ ap'.i = ap.i + 1
    BY <1>1, <2>1, <2>2 DEF ApRec
  <2>4. New(r, ap.i) => New(x, ap.i + 1)
    BY <1>3, <1>5, <1>6, <2>2 DEF New, Complete
  <2>5. Progress'
    BY <1>1, <1>8, <1>10, <1>12, <2>2, <2>3, <2>4 DEF Progress, InPlace
  <2>6. ap'.at \in InPlace \cup {"opened"} /\ ap'.at # "opened"
    BY <2>3 DEF InPlace
  <2> QED
    BY <1>1, <1>4, <1>6, <1>7, <2>3, <2>5, <2>6, OpeningStep
<1>13. CASE ap.i # Legacy /\ ~(ap.i < ap.n - 1)
  <2>1. ap' = [ap EXCEPT !.at = "sidecar", !.i = 0]
    BY <1>13 DEF OpenShard
  <2>2. \A s \in Slots : s < ap.n => s < ap.i \/ s = ap.i
    BY <1>1, <1>2, <1>13, LmdbConsts, SMT DEF Slots
  <2>3. /\ ap' \in ApRec /\ ap'.at = "sidecar" /\ ap'.cfg = ap.cfg /\ ap'.d = ap.d
        /\ ap'.where = ap.where /\ ap'.n = ap.n /\ ap'.i = 0
    BY <1>1, <2>1, LmdbConsts DEF ApRec, ApAts, Opening, InPlace
  <2>4. New(r, ap.i) => New(x, ap.n)
    BY <1>3, <1>5, <1>6, <2>2 DEF New, Complete
  <2>5. Progress'
    BY <1>1, <1>8, <1>10, <1>13, <2>3, <2>4 DEF Progress, InPlace
  <2>6. ap'.at \in InPlace \cup {"opened"} /\ ap'.at # "opened"
    BY <2>3 DEF InPlace
  <2> QED
    BY <1>1, <1>4, <1>6, <1>7, <2>3, <2>5, <2>6, OpeningStep
<1>14. CASE ap.i = Legacy
  BY <1>11, <1>14 DEF OpenShard
<1> QED
  BY <1>12, <1>13, <1>14

LEMMA WriteSidecarStep ==
    ASSUME LmdbInv, WriteSidecar
    PROVE  LmdbInv'
<1> DEFINE r == dir[ap.d]
           x == [r EXCEPT !.side = ap.n]
<1>1. /\ ap.at = "sidecar" /\ UNCHANGED <<name, obj, cur, wr, unsynced, torn>>
      /\ ap' = [ap EXCEPT !.at = "opened"]
      /\ ap.d \in Dirs /\ ap \in ApRec /\ r \in DirRec /\ dir \in [Dirs -> DirRec] /\ ap.at \in InPlace
      /\ ap.n # 0 /\ ap.i = 0 /\ (Sharded(r, ap.n) \/ New(r, ap.n)) /\ Filed(r)
  BY DEF WriteSidecar, LmdbInv, LmdbOK, Applying, Progress, Layouts, Opening, InPlace
<1>2. ap.n \in 0 .. MaxN
  BY <1>1 DEF ApRec
<1>3. dir' = [dir EXCEPT ![ap.d] = x]
  BY DEF WriteSidecar
<1>4. x \in DirRec /\ x.side = ap.n /\ x.file = r.file
  BY <1>1, <1>2 DEF DirRec
<1> HIDE DEF x, r
<1>5. dir'[ap.d] = x
  BY <1>1, <1>3
<1>6. Filed(x)
  BY <1>1, <1>4 DEF Filed, Sharded, New
<1>7. Sharded(x, ap.n) /\ Good(x)
  BY <1>1, <1>4 DEF Sharded, New, Good
<1>8. /\ ap' \in ApRec /\ ap'.at = "opened" /\ ap'.cfg = ap.cfg /\ ap'.d = ap.d
      /\ ap'.where = ap.where /\ ap'.n = ap.n /\ ap'.i = 0
  BY <1>1, ApMoves DEF LmdbInv, ApAts, Opening
<1>9. Progress'
  BY <1>1, <1>5, <1>7, <1>8, LmdbConsts DEF Progress, InPlace
<1> QED
  BY <1>1, <1>3, <1>4, <1>6, <1>7, <1>8, <1>9, OpeningStep


-----------------------------------------------------------------------------
(***************************************************************************)
(* Steps that change one backend.                                          *)
(***************************************************************************)
LEMMA OpenedType ==
    ASSUME LmdbInv, ap.at = "opened"
    PROVE  /\ Opened \in ObjRec /\ Opened.open /\ Opened.n = ap.n /\ (Opened.legacy <=> ap.i = Legacy)
           /\ ap.n # 0 /\ IF ap.i = Legacy THEN Unsharded(dir[ap.d]) ELSE Sharded(dir[ap.d], ap.n)
           /\ ap.d \in Dirs /\ name[ap.where] = ap.d /\ ~obj[ap.d].open /\ ap.cfg \in Configs
           /\ (ap.where = "path" <=> cur = None) /\ ap.where \in {"path", "staging"} /\ ap \in ApRec
<1> DEFINE some == ShardCaps(Cfg.max, ap.n)
           one == [s \in Slots |-> IF s = Legacy THEN Cfg.max ELSE 0]
           legacy == ap.i = Legacy
           fl == IF Cfg.sync = "periodic" THEN "wait" ELSE "none"
           o == [Closed EXCEPT !.open = TRUE, !.n = ap.n, !.legacy = legacy, !.caps = some,
                   !.full = Cfg.full, !.sync = Cfg.sync, !.size = Cfg.size, !.flusher = fl]
<1>1. /\ ap.d \in Dirs /\ name[ap.where] = ap.d /\ ~obj[ap.d].open /\ ap.cfg \in Configs
      /\ (ap.where = "path" <=> cur = None) /\ ap \in ApRec
  BY DEF LmdbInv, Applying, Opening, LmdbOK
<1>2. ap.n # 0 /\ IF ap.i = Legacy THEN Unsharded(dir[ap.d]) ELSE Sharded(dir[ap.d], ap.n)
  BY DEF LmdbInv, Progress
<1>3. ap.n \in 0 .. MaxN /\ ap.where \in {"path", "staging"}
  BY <1>1 DEF ApRec
<1>4. Cfg.max \in Nat /\ Cfg.full \in Policies /\ Cfg.sync \in Modes /\ Cfg.size \in Nat
  BY <1>1, CfgType
<1>5. some \in [Slots -> Nat] /\ one \in [Slots -> Nat] /\ fl \in {"none", "wait", "visit", "sync"}
  BY <1>3, <1>4, CapsType, 0 \in Nat
<1>6. legacy \in BOOLEAN
  OBVIOUS
<1>7. Opened = [o EXCEPT !.caps = IF o.legacy THEN one ELSE o.caps]
  BY DEF Opened
<1> HIDE DEF some, one, fl, legacy
<1>8. o \in ObjRec /\ o.open /\ o.n = ap.n /\ o.legacy = legacy
  BY <1>3, <1>4, <1>5, <1>6, Nothing DEF ObjRec
<1> HIDE DEF o
<1>9. Opened \in ObjRec /\ Opened.open = o.open /\ Opened.n = o.n /\ Opened.legacy = o.legacy
  BY <1>5, <1>7, <1>8 DEF ObjRec
<1>10. Opened.open /\ Opened.n = ap.n /\ (Opened.legacy <=> ap.i = Legacy)
  BY <1>8, <1>9 DEF legacy
<1> QED
  BY <1>1, <1>2, <1>3, <1>9, <1>10

LEMMA FinishOpenStep ==
    ASSUME LmdbInv, FinishOpen
    PROVE  LmdbInv'
<1>1. ap.at = "opened" /\ UNCHANGED <<name, dir, wr, unsynced, torn>>
      /\ name' \in [Names -> Dirs \cup {None}]
  BY DEF FinishOpen, LmdbInv, LmdbOK
<1>2. CASE obj' = [obj EXCEPT ![ap.d] = Opened] /\ (cur' = cur \/ cur' = ap.d) /\ ap' \in ApRec
           /\ cur' # None /\ Applying' /\ Progress' /\ PathOpens'
  <2>1. obj'[ap.d] = Opened /\ \A e \in Dirs : e # ap.d => obj'[e] = obj[e]
    BY <1>1, <1>2, OpenedType DEF LmdbInv, LmdbOK
  <2>2. LmdbOK'
    BY <1>1, <1>2, OpenedType DEF LmdbInv, LmdbOK
  <2>3. \A t \in Fillers : wr[t].at # "idle" => wr[t].d \in Dirs /\ wr[t].d # ap.d
    BY <1>1, OpenedType DEF LmdbInv, WritersOpen
  <2>4. Service'
    BY <1>1, <1>2, <2>1, OpenedType DEF LmdbInv, Service, LmdbOK
  <2>5. WritersOpen'
    BY <1>1, <2>1, <2>3 DEF LmdbInv, WritersOpen
  <2>6. Covered'
    <3> SUFFICES ASSUME NEW d \in Dirs, NEW s \in Slots, unsynced[d][s]
                 PROVE  obj'[d].open /\ (obj'[d].dirty[s] \/ Marking(d, s)')
      BY <1>1 DEF Covered
    <3>1. obj[d].open /\ (obj[d].dirty[s] \/ Marking(d, s))
      BY DEF LmdbInv, Covered
    <3>2. d # ap.d /\ obj'[d] = obj[d]
      BY <1>1, <2>1, <3>1, OpenedType
    <3>3. Marking(d, s) => Marking(d, s)'
      BY <1>1, <3>2 DEF Marking
    <3> QED
      BY <3>1, <3>2, <3>3
  <2>7. Layouts'
    BY <1>1, <2>1, OpenedType DEF LmdbInv, Layouts
  <2> QED
    BY <1>2, <2>2, <2>4, <2>5, <2>6, <2>7 DEF LmdbInv
<1>3. Good(dir[ap.d])
  BY <1>1, OpenedType DEF Good, Sharded
<1>4. CASE obj' = [obj EXCEPT ![ap.d] = Opened] /\ ap.where = "path" /\ cur' = ap.d /\ ap' = NoApply
  <2>1. ap' \in ApRec /\ ap'.at = "idle" /\ cur' # None
    BY <1>1, <1>4, Nothing, OpenedType, LmdbConsts
  <2>2. Applying' /\ Progress'
    BY <2>1 DEF Applying, Progress, Opening, Hot, Moving, InPlace
  <2>3. PathOpens'
    BY <1>1, <1>3, <1>4, <2>1, OpenedType DEF PathOpens
  <2> QED
    BY <1>2, <1>4, <2>1, <2>2, <2>3
<1>5. CASE obj' = [obj EXCEPT ![ap.d] = Opened] /\ ap.where # "path" /\ cur' = cur
           /\ ap' = [ap EXCEPT !.at = "swap"]
  <2>1. ap' \in ApRec /\ ap'.at = "swap" /\ ap'.d = ap.d /\ ap'.where = ap.where /\ ap'.cfg = ap.cfg
    BY <1>5, ApMoves DEF LmdbInv, ApAts, Moving
  <2>2. obj'[ap.d] = Opened /\ cur' # None
    BY <1>1, <1>5, OpenedType DEF LmdbInv, LmdbOK
  <2>3. Applying'
    BY <1>1, <1>5, <2>1, <2>2, OpenedType DEF Applying, Opening, Hot, Moving, InPlace
  <2>4. Progress'
    BY <2>1 DEF Progress, Opening, InPlace
  <2>5. PathOpens'
    BY <1>1, <1>5, <2>1 DEF LmdbInv, PathOpens, InPlace
  <2> QED
    BY <1>2, <1>5, <2>1, <2>2, <2>3, <2>4, <2>5
<1>6. CASE OpenFails("nothread") /\ UNCHANGED <<obj, cur>>
  <2>1. ap' = IF ap.where = "path" THEN [NoApply EXCEPT !.at = "nothread"] ELSE NoApply
    BY <1>6 DEF OpenFails
  <2>2. ap' \in ApRec /\ ap'.at \in {"idle", "nothread"}
    BY <2>1, Nothing DEF ApRec, ApAts
  <2>3. Applying' /\ Progress'
    BY <2>2 DEF Applying, Progress, Opening, Hot, Moving, InPlace
  <2>4. PathOpens'
    BY <1>1, <2>2 DEF LmdbInv, PathOpens, InPlace
  <2> QED
    BY <1>1, <1>6, <2>2, <2>3, <2>4, NamesStep
<1> QED
  BY <1>4, <1>5, <1>6 DEF FinishOpen

\* A step on one backend that keeps its layout.
LEMMA ObjStep ==
    ASSUME LmdbInv, NEW d \in Dirs, NEW o \in ObjRec, obj' = [obj EXCEPT ![d] = o],
           o.open = obj[d].open, o.n = obj[d].n, o.legacy = obj[d].legacy,
           UNCHANGED <<name, cur, wr, torn>>, ap' \in ApRec,
           dir' \in [Dirs -> DirRec], unsynced' \in [Dirs -> [Slots -> BOOLEAN]],
           \A e \in Dirs : e # d => unsynced'[e] = unsynced[e],
           \A s \in Slots : unsynced'[d][s] => o.open /\ (o.dirty[s] \/ Marking(d, s)),
           Layouts', Applying', Progress', PathOpens'
    PROVE  LmdbInv'
<1>1. \A e \in Dirs : obj'[e] = IF e = d THEN o ELSE obj[e]
  BY DEF LmdbInv, LmdbOK
<1>2. LmdbOK'
  BY DEF LmdbInv, LmdbOK
<1>3. Service' /\ WritersOpen'
  BY <1>1 DEF LmdbInv, LmdbOK, Service, WritersOpen
<1>4. \A e \in Dirs : \A s : Marking(e, s) => Marking(e, s)'
  <2>1. \A k : ShardForKey(o, k) = ShardForKey(obj[d], k)
    BY DEF ShardForKey, Slot
  <2>2. \A e \in Dirs : \A k : ShardForKey(obj'[e], k) = ShardForKey(obj[e], k)
    BY <1>1, <2>1
  <2>3. ASSUME NEW e \in Dirs, NEW s, Marking(e, s) PROVE Marking(e, s)'
    <3>1. PICK t \in Fillers : wr[t].at = "mark" /\ wr[t].d = e /\ ShardForKey(obj[e], wr[t].key) = s
      BY <2>3 DEF Marking
    <3>2. wr'[t].at = "mark" /\ wr'[t].d = e /\ ShardForKey(obj'[e], wr'[t].key) = s
      BY <2>2, <3>1
    <3> QED
      BY <3>2 DEF Marking
  <2> QED
    BY <2>3
<1>5. Covered'
  <2> SUFFICES ASSUME NEW e \in Dirs, NEW s \in Slots, unsynced'[e][s]
               PROVE  obj'[e].open /\ (obj'[e].dirty[s] \/ Marking(e, s)')
    BY DEF Covered
  <2> QED
    BY <1>1, <1>4 DEF LmdbInv, Covered
<1> QED
  BY <1>2, <1>3, <1>5 DEF LmdbInv

\* The same with the directories left alone and nothing more to be synced.
LEMMA QuietObjStep ==
    ASSUME LmdbInv, NEW d \in Dirs, NEW o \in ObjRec, obj' = [obj EXCEPT ![d] = o],
           o.open = obj[d].open, o.n = obj[d].n, o.legacy = obj[d].legacy,
           UNCHANGED <<name, cur, wr, torn, dir>>, unsynced' \in [Dirs -> [Slots -> BOOLEAN]],
           \A e \in Dirs : e # d => unsynced'[e] = unsynced[e],
           \A s \in Slots : unsynced'[d][s] => o.open /\ (o.dirty[s] \/ Marking(d, s)),
           \/ UNCHANGED ap
           \/ ap.at \in Hot /\ \E at \in Hot : ap' = [ap EXCEPT !.at = at]
    PROVE  LmdbInv'
<1>1. \A e \in Dirs : obj'[e] = IF e = d THEN o ELSE obj[e]
  BY DEF LmdbInv, LmdbOK
<1>2. \A e \in Dirs : obj'[e].open = obj[e].open /\ obj'[e].n = obj[e].n /\ obj'[e].legacy = obj[e].legacy
  BY <1>1
<1>3. Layouts'
  BY <1>2 DEF LmdbInv, Layouts
<1>4. CASE UNCHANGED ap
  <2>1. Applying'
    BY <1>2, <1>4 DEF LmdbInv, Applying
  <2>2. Progress' /\ PathOpens'
    BY <1>4 DEF LmdbInv, Progress, PathOpens
  <2> QED
    BY <1>3, <1>4, <2>1, <2>2, ObjStep DEF LmdbInv, LmdbOK
<1>5. CASE ap.at \in Hot /\ \E at \in Hot : ap' = [ap EXCEPT !.at = at]
  <2>1. ap' \in ApRec /\ Applying' /\ Progress' /\ PathOpens'
    BY <1>5, HotMoves
  <2> QED
    BY <1>3, <2>1, ObjStep DEF LmdbInv, LmdbOK
<1> QED
  BY <1>4, <1>5

\* What is covered stays so when a backend's dirty flags do.
LEMMA StaysCovered ==
    ASSUME LmdbInv, NEW d \in Dirs, NEW o, o.open = obj[d].open,
           \A s \in Slots : obj[d].dirty[s] => o.dirty[s], UNCHANGED unsynced
    PROVE  /\ unsynced' \in [Dirs -> [Slots -> BOOLEAN]]
           /\ \A e \in Dirs : e # d => unsynced'[e] = unsynced[e]
           /\ \A s \in Slots : unsynced'[d][s] => o.open /\ (o.dirty[s] \/ Marking(d, s))
  BY DEF LmdbInv, LmdbOK, Covered

\* The backend in service, in a hot apply.
LEMMA HotCur ==
    ASSUME LmdbInv, ap.at \in Hot
    PROVE  /\ cur \in Dirs /\ obj[cur] \in ObjRec /\ obj[cur].open /\ obj[cur].n # 0 /\ ap.cfg \in Configs
           /\ Cfg.max \in Nat /\ Cfg.full \in Policies /\ Cfg.sync \in Modes /\ Cfg.size \in Nat
           /\ ap \in ApRec
<1>1. cur \in Dirs /\ obj[cur] \in ObjRec /\ obj[cur].open /\ obj[cur].n # 0 /\ ap.cfg \in Configs
  BY DEF LmdbInv, LmdbOK, Applying, Service, Hot
<1> QED
  BY <1>1, CfgType DEF LmdbInv, LmdbOK

LEMMA HotPolicyStep ==
    ASSUME LmdbInv, HotPolicy
    PROVE  LmdbInv'
<1> DEFINE one == [s \in Slots |-> IF s = Legacy THEN Cfg.max ELSE 0]
           caps == IF Cfg.max = Setting[snap].max THEN obj[cur].caps
                   ELSE IF obj[cur].legacy THEN one ELSE ShardCaps(Cfg.max, obj[cur].n)
           o == [obj[cur] EXCEPT !.caps = caps, !.full = Cfg.full]
<1>1. /\ ap.at = "hot" /\ ap.at \in Hot /\ UNCHANGED <<name, dir, cur, wr, unsynced, torn>>
      /\ ap' = [ap EXCEPT !.at = "sync"] /\ "sync" \in Hot
      /\ obj' = [obj EXCEPT ![cur] = o]
  BY DEF HotPolicy, Hot
<1>2. obj[cur].n \in 0 .. MaxN /\ obj[cur].caps \in [Slots -> Nat]
  BY <1>1, HotCur DEF ObjRec
<1>3. caps \in [Slots -> Nat]
  BY <1>1, <1>2, HotCur, CapsType, 0 \in Nat
<1> HIDE DEF caps
<1>4. /\ o \in ObjRec /\ o.open = obj[cur].open /\ o.n = obj[cur].n /\ o.legacy = obj[cur].legacy
      /\ o.dirty = obj[cur].dirty
  BY <1>1, <1>3, HotCur DEF ObjRec
<1> HIDE DEF o
<1> QED
  BY <1>1, <1>4, HotCur, StaysCovered, QuietObjStep

LEMMA ResizeStep ==
    ASSUME LmdbInv, Resize
    PROVE  LmdbInv'
<1> DEFINE o == [obj[cur] EXCEPT !.size = Cfg.size]
<1>1. /\ ap.at = "resize" /\ ap.at \in Hot /\ UNCHANGED <<name, dir, cur, wr, unsynced, torn>>
      /\ ap' = [ap EXCEPT !.at = "store"] /\ "store" \in Hot
      /\ obj' = [obj EXCEPT ![cur] = o]
  BY DEF Resize, Hot
<1>2. /\ o \in ObjRec /\ o.open = obj[cur].open /\ o.n = obj[cur].n /\ o.legacy = obj[cur].legacy
      /\ o.dirty = obj[cur].dirty
  BY <1>1, HotCur DEF ObjRec
<1> HIDE DEF o
<1> QED
  BY <1>1, <1>2, HotCur, StaysCovered, QuietObjStep

LEMMA HotSyncStep ==
    ASSUME LmdbInv, HotSync
    PROVE  LmdbInv'
<1>1. ap.at = "sync" /\ ap.at \in Hot /\ UNCHANGED <<name, dir, cur, wr, unsynced, torn>>
      /\ "size" \in Hot /\ "join" \in Hot /\ name \in [Names -> Dirs \cup {None}]
  BY DEF HotSync, Hot, LmdbInv, LmdbOK
<1>2. ASSUME NEW o \in ObjRec, o.open = obj[cur].open, o.n = obj[cur].n, o.legacy = obj[cur].legacy,
             o.dirty = obj[cur].dirty, obj' = [obj EXCEPT ![cur] = o],
             ap' = [ap EXCEPT !.at = "size"] \/ ap' = [ap EXCEPT !.at = "join"]
      PROVE  LmdbInv'
  <2>1. \E at \in Hot : ap' = [ap EXCEPT !.at = at]
    BY <1>1, <1>2
  <2>2. /\ unsynced' \in [Dirs -> [Slots -> BOOLEAN]]
        /\ \A e \in Dirs : e # cur => unsynced'[e] = unsynced[e]
        /\ \A s \in Slots : unsynced'[cur][s] => o.open /\ (o.dirty[s] \/ Marking(cur, s))
    BY <1>1, <1>2, HotCur, StaysCovered
  <2> QED
    BY <1>1, <1>2, <2>1, <2>2, HotCur, QuietObjStep
<1>3. CASE UNCHANGED obj /\ ap' = [ap EXCEPT !.at = "size"]
  BY <1>1, <1>3, HotMoves, NamesStep
<1>4. CASE /\ obj' = [obj EXCEPT ![cur].sync = Cfg.sync,
                        ![cur].flusher = IF Cfg.sync = "periodic" THEN "wait" ELSE "none"]
           /\ ap' = [ap EXCEPT !.at = "size"]
  <2> DEFINE fl == IF Cfg.sync = "periodic" THEN "wait" ELSE "none"
             o == [obj[cur] EXCEPT !.sync = Cfg.sync, !.flusher = fl]
  <2>1. obj' = [obj EXCEPT ![cur] = o] /\ fl \in {"none", "wait", "visit", "sync"}
    BY <1>4
  <2> HIDE DEF fl
  <2>2. /\ o \in ObjRec /\ o.open = obj[cur].open /\ o.n = obj[cur].n /\ o.legacy = obj[cur].legacy
        /\ o.dirty = obj[cur].dirty
    BY <1>1, <2>1, HotCur DEF ObjRec
  <2> QED
    BY <1>2, <1>4, <2>1, <2>2
<1>5. CASE /\ obj' = [obj EXCEPT ![cur].sync = Cfg.sync, ![cur].ending = TRUE]
           /\ ap' = [ap EXCEPT !.at = "size"]
  <2> DEFINE o == [obj[cur] EXCEPT !.sync = Cfg.sync, !.ending = TRUE]
  <2>1. obj' = [obj EXCEPT ![cur] = o]
    BY <1>5
  <2>2. /\ o \in ObjRec /\ o.open = obj[cur].open /\ o.n = obj[cur].n /\ o.legacy = obj[cur].legacy
        /\ o.dirty = obj[cur].dirty
    BY <1>1, HotCur DEF ObjRec
  <2> QED
    BY <1>2, <1>5, <2>1, <2>2
<1>6. CASE /\ obj' = [obj EXCEPT ![cur].sync = Cfg.sync, ![cur].flusher = "visit",
                        ![cur].i = 0, ![cur].ending = TRUE]
           /\ ap' = [ap EXCEPT !.at = "join"]
  <2> DEFINE o == [obj[cur] EXCEPT !.sync = Cfg.sync, !.flusher = "visit", !.i = 0, !.ending = TRUE]
  <2>1. obj' = [obj EXCEPT ![cur] = o]
    BY <1>6
  <2>2. /\ o \in ObjRec /\ o.open = obj[cur].open /\ o.n = obj[cur].n /\ o.legacy = obj[cur].legacy
        /\ o.dirty = obj[cur].dirty
    BY <1>1, HotCur, LmdbConsts DEF ObjRec
  <2> QED
    BY <1>2, <1>6, <2>1, <2>2
<1>7. CASE ap' = NoApply /\ UNCHANGED obj
  BY <1>1, <1>7, GivesUp DEF InPlace
<1> QED
  BY <1>3, <1>4, <1>5, <1>6, <1>7 DEF HotSync

-----------------------------------------------------------------------------
(***************************************************************************)
(* Steps that write an environment of an open backend.                     *)
(***************************************************************************)
LEMMA WriteKeeps ==
    ASSUME LmdbInv, NEW d \in Dirs, obj[d].open, NEW r \in DirRec, dir' = [dir EXCEPT ![d] = r],
           r.side = dir[d].side, Filed(r),
           \A s \in Slots : dir[d].file[s] # NoFile => r.file[s] # NoFile,
           UNCHANGED <<name, cur, torn>>,
           \A e \in Dirs : obj'[e].open = obj[e].open /\ obj'[e].n = obj[e].n
                           /\ obj'[e].legacy = obj[e].legacy
    PROVE  /\ dir' \in [Dirs -> DirRec] /\ Layouts'
           /\ UNCHANGED ap => Applying' /\ Progress' /\ PathOpens'
           /\ ap.at \in Hot /\ ap' \in ApRec /\ (ap'.at \in Hot => ap'.cfg = ap.cfg)
              /\ ap'.at \in Hot \cup {"idle"} =>
                  Applying' /\ Progress' /\ PathOpens'
<1>1. dir'[d] = r /\ (\A e \in Dirs : e # d => dir'[e] = dir[e]) /\ dir' \in [Dirs -> DirRec]
  BY OtherDirs DEF LmdbInv, LmdbOK
<1>2. \A n : Sharded(dir[d], n) => Sharded(r, n)
  BY DEF Sharded, Complete
<1>3. Unsharded(dir[d]) => Unsharded(r)
  BY LmdbConsts DEF Unsharded
<1>4. Layouts'
  <2>1. \A e \in Dirs : Filed(dir'[e])
    BY <1>1 DEF LmdbInv, Layouts
  <2>2. ASSUME NEW e \in Dirs, obj'[e].open
        PROVE  IF obj'[e].legacy THEN Unsharded(dir'[e]) ELSE Sharded(dir'[e], obj'[e].n)
    <3>1. IF obj[e].legacy THEN Unsharded(dir[e]) ELSE Sharded(dir[e], obj[e].n)
      BY <2>2 DEF LmdbInv, Layouts
    <3>2. CASE e = d
      BY <1>1, <1>2, <1>3, <3>1, <3>2
    <3>3. CASE e # d
      BY <1>1, <3>1, <3>3
    <3> QED
      BY <3>2, <3>3
  <2> QED
    BY <2>1, <2>2 DEF Layouts
<1>5. Good(r)
  <2>1. IF obj[d].legacy THEN Unsharded(dir[d]) ELSE Sharded(dir[d], obj[d].n)
    BY DEF LmdbInv, Layouts
  <2>2. Sharded(r, obj[d].n) => Sharded(r, r.side)
    BY DEF Sharded
  <2> QED
    BY <1>2, <1>3, <2>1, <2>2 DEF Good
<1>6. name["path"] \in Dirs \cup {None}
  BY DEF LmdbInv, LmdbOK, Names
<1>7. name["path"] # None /\ Good(dir[name["path"]]) => Good(dir'[name["path"]])
  BY <1>1, <1>5, <1>6
<1>8. ASSUME UNCHANGED ap PROVE Applying' /\ Progress' /\ PathOpens'
  <2>1. ap.at \in Opening => ap.d \in Dirs /\ ap.d # d
    BY DEF LmdbInv, Applying
  <2>2. ap.at \in Opening => dir'[ap.d] = dir[ap.d]
    BY <1>1, <2>1
  <2>3. Progress'
    BY <1>8, <2>2 DEF LmdbInv, Progress, Opening, InPlace
  <2>4. Applying'
    BY <1>8 DEF LmdbInv, LmdbOK, Applying
  <2>5. PathOpens'
    BY <1>7, <1>8 DEF LmdbInv, PathOpens
  <2> QED
    BY <2>3, <2>4, <2>5
<1>9. ASSUME ap.at \in Hot, ap' \in ApRec, ap'.at \in Hot => ap'.cfg = ap.cfg, ap'.at \in Hot \cup {"idle"}
      PROVE  Applying' /\ Progress' /\ PathOpens'
  <2>1. cur # None /\ ap.cfg \in Configs /\ ap.at \notin InPlace
    BY <1>9 DEF LmdbInv, Applying, Hot, InPlace
  <2>2. ap'.at \notin Opening \cup Moving \cup {"mkdir", "failed"}
    BY <1>9 DEF Opening, Hot, Moving, InPlace
  <2>3. Applying'
    BY <1>9, <2>1, <2>2 DEF Applying
  <2>4. Progress'
    BY <2>2 DEF Progress, Opening, InPlace
  <2>5. PathOpens'
    BY <1>7, <2>1, <2>2 DEF LmdbInv, PathOpens, Opening
  <2> QED
    BY <2>3, <2>4, <2>5
<1> QED
  BY <1>1, <1>4, <1>8, <1>9

\* One environment is written: what is added to it belongs there.
LEMMA WriteFile ==
    ASSUME LmdbInv, NEW d \in Dirs, obj[d].open, NEW s \in Slots, NEW f \in FileRec, f.here,
           dir' = [dir EXCEPT ![d].file[s] = f],
           \A k \in f.keys : k \in dir[d].file[s].keys \/ ShardForKey(obj[d], k) = s,
           UNCHANGED <<name, cur, torn>>,
           \A e \in Dirs : obj'[e].open = obj[e].open /\ obj'[e].n = obj[e].n
                           /\ obj'[e].legacy = obj[e].legacy
    PROVE  /\ dir' \in [Dirs -> DirRec] /\ Layouts'
           /\ UNCHANGED ap => Applying' /\ Progress' /\ PathOpens'
<1> DEFINE g == [dir[d].file EXCEPT ![s] = f]
           r == [dir[d] EXCEPT !.file = g]
<1>1. dir[d] \in DirRec /\ obj[d] \in ObjRec
  BY DEF LmdbInv, LmdbOK
<1>2. dir[d].file \in [Slots -> FileRec] /\ obj[d].n # 0
  BY <1>1 DEF DirRec, LmdbInv, Service
<1>3. dir' = [dir EXCEPT ![d] = r]
  OBVIOUS
<1>4. f # NoFile
  BY Files
<1>5. g \in [Slots -> FileRec] /\ \A x \in Slots : g[x] = IF x = s THEN f ELSE dir[d].file[x]
  BY <1>2
<1> HIDE DEF g
<1>6. r \in DirRec /\ r.side = dir[d].side /\ r.file = g
  BY <1>1, <1>5 DEF DirRec
<1> HIDE DEF r
<1>7. \A x \in Slots : dir[d].file[x] # NoFile => r.file[x] # NoFile
  BY <1>4, <1>5, <1>6
<1>8. Filed(dir[d]) /\ IF obj[d].legacy THEN Unsharded(dir[d]) ELSE Sharded(dir[d], obj[d].n)
  BY DEF LmdbInv, Layouts
<1>9. Filed(r)
  <2>1. CASE obj[d].legacy
    <3>1. r.side = 0
      BY <1>6, <1>8, <2>1 DEF Unsharded
    <3> QED
      BY <3>1, LmdbConsts DEF Filed
  <2>2. CASE ~obj[d].legacy
    <3>1. r.side = obj[d].n
      BY <1>6, <1>8, <2>2 DEF Sharded
    <3>2. f.keys \subseteq LmdbKeys
      BY DEF FileRec
    <3>3. \A k \in f.keys : ShardForKey(obj[d], k) = Hash[k] % obj[d].n
      BY <1>1, <1>2, <2>2, <3>2, SlotType
    <3>4. \A x \in Slots : x < r.side => \A k \in dir[d].file[x].keys : Hash[k] % r.side = x
      BY <1>6, <1>8 DEF Filed
    <3>5. \A k \in f.keys : s < r.side => Hash[k] % r.side = s
      BY <3>1, <3>3, <3>4
    <3>6. \A x \in Slots : r.file[x] = IF x = s THEN f ELSE dir[d].file[x]
      BY <1>5, <1>6
    <3> HIDE DEF Filed
    <3>7. ASSUME NEW x \in Slots, x < r.side, NEW k \in r.file[x].keys PROVE Hash[k] % r.side = x
      <4>1. CASE x = s
        BY <3>5, <3>6, <3>7, <4>1
      <4>2. CASE x # s
        BY <3>4, <3>6, <3>7, <4>2
      <4> QED
        BY <4>1, <4>2
    <3> QED
      BY <3>7 DEF Filed
  <2> QED
    BY <2>1, <2>2
<1> QED
  BY <1>3, <1>6, <1>7, <1>9, WriteKeeps

LEMMA BumpType ==
    ASSUME NEW c \in Nat
    PROVE  Bump(c, TRUE) \in Nat /\ Bump(c, FALSE) \in Nat
  BY SMT DEF Bump

\* The environment a fill works on.
LEMMA FillOf ==
    ASSUME LmdbInv, NEW t \in Fillers, wr[t].at # "idle"
    PROVE  /\ wr[t] \in WrRec /\ wr[t].d \in Dirs /\ obj[wr[t].d].open /\ wr[t].key \in LmdbKeys
           /\ SlotOf(t) = ShardForKey(obj[wr[t].d], wr[t].key) /\ SlotOf(t) \in Slots
           /\ FileOf(t) \in FileRec /\ FileOf(t) = dir[wr[t].d].file[SlotOf(t)]
           /\ FileOf(t).keys \in SUBSET LmdbKeys
           /\ Bump(FileOf(t).count, TRUE) \in Nat /\ Bump(FileOf(t).count, FALSE) \in Nat
           /\ FileOf(t).count \in Nat
<1>1. wr[t] \in WrRec /\ wr[t].d \in Dirs /\ obj[wr[t].d].open /\ wr[t].key \in LmdbKeys
  BY DEF LmdbInv, LmdbOK, WritersOpen
<1>2. obj[wr[t].d] \in ObjRec /\ obj[wr[t].d].n # 0 /\ dir[wr[t].d] \in DirRec
  BY <1>1 DEF LmdbInv, LmdbOK, Service
<1>3. SlotOf(t) = ShardForKey(obj[wr[t].d], wr[t].key) /\ SlotOf(t) \in Slots
  BY <1>1, <1>2, SlotType DEF SlotOf
<1>4. FileOf(t) = dir[wr[t].d].file[SlotOf(t)]
  BY DEF FileOf
<1>5. FileOf(t) \in FileRec
  BY <1>2, <1>3, <1>4 DEF DirRec
<1>6. FileOf(t).keys \in SUBSET LmdbKeys /\ FileOf(t).count \in Nat
  BY <1>5 DEF FileRec
<1> QED
  BY <1>1, <1>3, <1>4, <1>5, <1>6, BumpType

\* A transaction of a fill, which it is to mark next.
LEMMA CommitStep ==
    ASSUME LmdbInv, NEW t \in Fillers, wr[t].at # "idle", wr[t].at # "mark",
           NEW ks \in SUBSET LmdbKeys, ks \subseteq FileOf(t).keys \cup {wr[t].key}, NEW c \in Nat,
           Commit(t, [here |-> TRUE, keys |-> ks, count |-> c]),
           NEW w \in WrRec, wr' = [wr EXCEPT ![t] = w], w.at = "mark", w.d = wr[t].d, w.key = wr[t].key
    PROVE  LmdbInv'
<1> DEFINE f == [here |-> TRUE, keys |-> ks, count |-> c]
           d == wr[t].d
           s == SlotOf(t)
<1>1. /\ dir' = [dir EXCEPT ![d].file[s] = f]
      /\ unsynced' = [unsynced EXCEPT ![d][s] = @ \/ Lost(d)]
      /\ UNCHANGED <<name, obj, cur, ap, torn>>
  BY DEF Commit
<1>2. f \in FileRec /\ f.here /\ f.keys = ks
  BY DEF FileRec
<1> HIDE DEF f
<1>3. \A k \in f.keys : k \in dir[d].file[s].keys \/ ShardForKey(obj[d], k) = s
  BY <1>2, FillOf
<1>4. dir' \in [Dirs -> DirRec] /\ Layouts' /\ Applying' /\ Progress' /\ PathOpens'
  BY <1>1, <1>2, <1>3, FillOf, WriteFile
<1>5. \A u \in Fillers : wr'[u] = IF u = t THEN w ELSE wr[u]
  BY DEF LmdbInv, LmdbOK
<1>6. /\ unsynced' \in [Dirs -> [Slots -> BOOLEAN]]
      /\ \A e \in Dirs, x \in Slots : unsynced'[e][x] => unsynced[e][x] \/ (e = d /\ x = s)
  <2>1. d \in Dirs /\ s \in Slots /\ unsynced \in [Dirs -> [Slots -> BOOLEAN]]
    BY FillOf DEF LmdbInv, LmdbOK
  <2>2. (unsynced[d][s] \/ Lost(d)) \in BOOLEAN
    OBVIOUS
  <2> DEFINE v == unsynced[d][s] \/ Lost(d)
             row == [unsynced[d] EXCEPT ![s] = v]
  <2>3. unsynced' = [unsynced EXCEPT ![d] = row] /\ v \in BOOLEAN
    BY <1>1
  <2> HIDE DEF v
  <2>4. row \in [Slots -> BOOLEAN] /\ \A x \in Slots : x # s => row[x] = unsynced[d][x]
    BY <2>1, <2>3
  <2> HIDE DEF row
  <2>5. unsynced' \in [Dirs -> [Slots -> BOOLEAN]]
        /\ \A e \in Dirs : unsynced'[e] = IF e = d THEN row ELSE unsynced[e]
    BY <2>1, <2>3, <2>4
  <2> QED
    BY <2>4, <2>5
<1>7. LmdbOK'
  BY <1>1, <1>4, <1>6 DEF LmdbInv, LmdbOK
<1>8. Service'
  BY <1>1 DEF LmdbInv, Service
<1>9. WritersOpen'
  <2> SUFFICES ASSUME NEW u \in Fillers, wr'[u].at # "idle"
               PROVE  wr'[u].d \in Dirs /\ obj'[wr'[u].d].open /\ wr'[u].key \in LmdbKeys
    BY DEF WritersOpen
  <2>1. CASE u = t
    <3>1. wr'[u] = w /\ obj' = obj
      BY <1>1, <1>5, <2>1
    <3>2. w.d \in Dirs /\ obj[w.d].open /\ w.key \in LmdbKeys
      BY FillOf
    <3> QED
      BY <3>1, <3>2
  <2>2. CASE u # t
    BY <1>1, <1>5, <2>2 DEF LmdbInv, WritersOpen
  <2> QED
    BY <2>1, <2>2
<1>10. Covered'
  <2> SUFFICES ASSUME NEW e \in Dirs, NEW x \in Slots, unsynced'[e][x]
               PROVE  obj'[e].open /\ (obj'[e].dirty[x] \/ Marking(e, x)')
    BY DEF Covered
  <2>1. CASE e = d /\ x = s
    <3>1. wr'[t].at = "mark" /\ wr'[t].d = e /\ ShardForKey(obj'[e], wr'[t].key) = x
      BY <1>1, <1>5, <2>1, FillOf
    <3>2. Marking(e, x)'
      BY <3>1 DEF Marking
    <3> QED
      BY <1>1, <2>1, <3>2, FillOf
  <2>2. CASE unsynced[e][x]
    <3>1. obj[e].open /\ (obj[e].dirty[x] \/ Marking(e, x))
      BY <2>2 DEF LmdbInv, Covered
    <3>2. ASSUME Marking(e, x) PROVE Marking(e, x)'
      <4>1. PICK u \in Fillers : wr[u].at = "mark" /\ wr[u].d = e /\ ShardForKey(obj[e], wr[u].key) = x
        BY <3>2 DEF Marking
      <4>2. wr'[u] = wr[u] /\ obj' = obj
        BY <1>1, <1>5, <4>1
      <4> QED
        BY <4>1, <4>2 DEF Marking
    <3> QED
      BY <1>1, <3>1, <3>2
  <2> QED
    BY <1>6, <2>1, <2>2
<1> QED
  BY <1>4, <1>7, <1>8, <1>9, <1>10 DEF LmdbInv

\* A step of a fill that changes its own place only.
LEMMA WrStep ==
    ASSUME LmdbInv, NEW t \in Fillers, wr[t].at # "mark", UNCHANGED <<name, dir, obj, cur, ap, unsynced, torn>>,
           NEW w \in WrRec, wr' = [wr EXCEPT ![t] = w],
           w.at # "idle" => w.d \in Dirs /\ obj[w.d].open /\ w.key \in LmdbKeys
    PROVE  LmdbInv'
<1>1. \A u \in Fillers : wr'[u] = IF u = t THEN w ELSE wr[u]
  BY DEF LmdbInv, LmdbOK
<1>2. LmdbOK'
  BY DEF LmdbInv, LmdbOK
<1>3. Service' /\ WritersOpen'
  BY <1>1 DEF LmdbInv, Service, WritersOpen
<1>4. ASSUME NEW e, NEW x, Marking(e, x) PROVE Marking(e, x)'
  <2>1. PICK u \in Fillers : wr[u].at = "mark" /\ wr[u].d = e /\ ShardForKey(obj[e], wr[u].key) = x
    BY <1>4 DEF Marking
  <2>2. wr'[u] = wr[u] /\ obj' = obj
    BY <1>1, <2>1
  <2> QED
    BY <2>1, <2>2 DEF Marking
<1>5. Covered'
  BY <1>4 DEF LmdbInv, Covered
<1>6. Applying' /\ Layouts'
  BY DEF LmdbInv, Applying, Layouts
<1>7. Progress'
  BY DEF LmdbInv, Progress
<1>8. PathOpens'
  BY DEF LmdbInv, PathOpens
<1> QED
  BY <1>2, <1>3, <1>5, <1>6, <1>7, <1>8 DEF LmdbInv

\* A step of a fill that keeps its backend and its key, or ends.
LEMMA WrGoes ==
    ASSUME LmdbInv, NEW t \in Fillers, wr[t].at \notin {"idle", "mark"},
           UNCHANGED <<name, dir, obj, cur, ap, unsynced, torn>>, NEW w, wr' = [wr EXCEPT ![t] = w],
           w = NoJob \/ (w \in WrRec /\ w.d = wr[t].d /\ w.key = wr[t].key)
    PROVE  LmdbInv'
<1>1. w \in WrRec
  BY Nothing
<1>2. w.at # "idle" => w.d \in Dirs /\ obj[w.d].open /\ w.key \in LmdbKeys
  BY Nothing, FillOf
<1> QED
  BY <1>1, <1>2, WrStep

LEMMA BeginFillStep ==
    ASSUME LmdbInv, NEW t \in Fillers, NEW k \in LmdbKeys, BeginFill(t, k) \/ BeginRemove(t, k)
    PROVE  LmdbInv'
<1>1. wr[t].at = "idle" /\ cur \in Dirs /\ obj[cur].open /\ obj[cur].n # 0 /\ obj[cur] \in ObjRec
      /\ UNCHANGED <<name, dir, obj, cur, ap, unsynced, torn>>
  BY DEF LmdbInv, LmdbOK, Service, BeginFill, BeginRemove
<1>2. PICK w : /\ w \in {[NoJob EXCEPT !.at = "exists", !.d = cur, !.key = k,
                            !.cap = obj[cur].caps[ShardForKey(obj[cur], k)], !.full = obj[cur].full],
                         [NoJob EXCEPT !.at = "remove", !.d = cur, !.key = k]}
               /\ wr' = [wr EXCEPT ![t] = w]
  BY DEF BeginFill, BeginRemove
<1>3. obj[cur].caps[ShardForKey(obj[cur], k)] \in Nat /\ obj[cur].full \in Policies
  BY <1>1, SlotType DEF ObjRec
<1>4. w \in WrRec /\ w.d = cur /\ w.key = k
  <2>1. NoJob \in WrRec /\ "exists" \in WrAts /\ "remove" \in WrAts /\ cur \in Dirs \cup {None}
        /\ k \in LmdbKeys \cup {None}
    BY <1>1, Nothing DEF WrAts
  <2>2. CASE w = [NoJob EXCEPT !.at = "exists", !.d = cur, !.key = k,
                    !.cap = obj[cur].caps[ShardForKey(obj[cur], k)], !.full = obj[cur].full]
    BY <1>3, <2>1, <2>2 DEF WrRec
  <2>3. CASE w = [NoJob EXCEPT !.at = "remove", !.d = cur, !.key = k]
    BY <2>1, <2>3 DEF WrRec
  <2> QED
    BY <1>2, <2>2, <2>3
<1> QED
  BY <1>1, <1>2, <1>4, WrStep

LEMMA KeyExistsStep ==
    ASSUME LmdbInv, NEW t \in Fillers, KeyExists(t)
    PROVE  LmdbInv'
<1> DEFINE b == wr[t].key \in FileOf(t).keys
           w == [wr[t] EXCEPT !.replacing = b, !.at = "count"]
<1>1. wr[t].at = "exists" /\ wr' = [wr EXCEPT ![t] = w]
      /\ UNCHANGED <<name, dir, obj, cur, ap, unsynced, torn>>
  BY DEF KeyExists
<1>2. b \in BOOLEAN
  BY SMT
<1> HIDE DEF b
<1>3. wr[t] \in WrRec /\ "count" \in WrAts
  BY <1>1, FillOf DEF WrAts
<1>4. w \in WrRec /\ w.d = wr[t].d /\ w.key = wr[t].key
  BY <1>2, <1>3 DEF WrRec
<1> QED
  BY <1>1, <1>4, WrGoes

LEMMA EntryCountStep ==
    ASSUME LmdbInv, NEW t \in Fillers, EntryCount(t)
    PROVE  LmdbInv'
<1>1. wr[t].at = "count" /\ UNCHANGED <<name, dir, obj, cur, ap, unsynced, torn>>
      /\ (Evict(t, "begin") \/ Go(t, "begin"))
  BY DEF EntryCount
<1>2. wr[t] \in WrRec /\ wr[t].key \in LmdbKeys /\ wr[t].full \in Policies
      /\ "begin" \in WrAts /\ "evict" \in WrAts /\ "sample" \in WrAts
  BY <1>1, FillOf DEF WrAts, WrRec
<1>3. CASE Go(t, "begin")
  <2> DEFINE w == [wr[t] EXCEPT !.at = "begin"]
  <2>1. wr' = [wr EXCEPT ![t] = w]
    BY <1>3 DEF Go
  <2>2. w \in WrRec /\ w.d = wr[t].d /\ w.key = wr[t].key
    BY <1>2 DEF WrRec
  <2> QED
    BY <1>1, <2>1, <2>2, WrGoes
<1>4. CASE Evict(t, "begin")
  <2>1. PICK w : /\ wr' = [wr EXCEPT ![t] = w]
                 /\ w \in {NoJob, [wr[t] EXCEPT !.at = "evict", !.next = "begin"],
                                  [wr[t] EXCEPT !.at = "sample", !.next = "begin"]}
    <3>1. CASE wr[t].full = "refuse"
      BY <1>4, <3>1 DEF Evict, Quit
    <3>2. CASE wr[t].full = "evict_one"
      BY <1>4, <3>2 DEF Evict
    <3>3. CASE wr[t].full = "sample"
      BY <1>4, <3>3 DEF Evict
    <3> QED
      BY <1>2, <3>1, <3>2, <3>3 DEF Policies
  <2>2. w = NoJob \/ (w \in WrRec /\ w.d = wr[t].d /\ w.key = wr[t].key)
    <3>1. CASE w = [wr[t] EXCEPT !.at = "evict", !.next = "begin"]
      BY <1>2, <3>1 DEF WrRec
    <3>2. CASE w = [wr[t] EXCEPT !.at = "sample", !.next = "begin"]
      BY <1>2, <3>2 DEF WrRec
    <3> QED
      BY <2>1, <3>1, <3>2
  <2> QED
    BY <1>1, <2>1, <2>2, WrGoes
<1> QED
  BY <1>1, <1>3, <1>4

LEMMA CommitSteps ==
    ASSUME LmdbInv, NEW t \in Fillers, EvictOne(t) \/ DeleteVictim(t) \/ RemoveExpired(t)
    PROVE  LmdbInv'
<1>1. wr[t].at \notin {"idle", "mark"}
  BY DEF EvictOne, DeleteVictim, RemoveExpired
<1>2. wr[t] \in WrRec /\ wr[t].key \in LmdbKeys /\ FileOf(t).keys \in SUBSET LmdbKeys
      /\ Bump(FileOf(t).count, FALSE) \in Nat /\ "mark" \in WrAts
  BY <1>1, FillOf DEF WrAts
<1>3. CASE Quit(t) /\ UNCHANGED <<name, dir, obj, cur, ap, unsynced, torn>>
  BY <1>1, <1>3, WrGoes DEF Quit
<1>4. ASSUME NEW k, Commit(t, [here |-> TRUE, keys |-> FileOf(t).keys \ {k}, count |-> Bump(FileOf(t).count, FALSE)]),
             Go(t, "mark")
      PROVE  LmdbInv'
  <2> DEFINE w == [wr[t] EXCEPT !.at = "mark"]
             ks == FileOf(t).keys \ {k}
             c == Bump(FileOf(t).count, FALSE)
  <2>1. wr' = [wr EXCEPT ![t] = w]
    BY <1>4 DEF Go
  <2>2. w \in WrRec /\ w.d = wr[t].d /\ w.key = wr[t].key /\ w.at = "mark"
    BY <1>2 DEF WrRec
  <2>3. ks \in SUBSET LmdbKeys /\ ks \subseteq FileOf(t).keys \cup {wr[t].key} /\ c \in Nat
    BY <1>2
  <2>4. Commit(t, [here |-> TRUE, keys |-> ks, count |-> c])
    BY <1>4
  <2> HIDE DEF w, ks, c
  <2> QED
    BY <1>1, <2>1, <2>2, <2>3, <2>4, CommitStep
<1>5. CASE EvictOne(t)
  BY <1>3, <1>4, <1>5 DEF EvictOne
<1>6. CASE DeleteVictim(t)
  BY <1>4, <1>6 DEF DeleteVictim
<1>7. CASE RemoveExpired(t)
  BY <1>3, <1>4, <1>7 DEF RemoveExpired
<1> QED
  BY <1>5, <1>6, <1>7

LEMMA SampleStep ==
    ASSUME LmdbInv, NEW t \in Fillers, Sample(t)
    PROVE  LmdbInv'
<1>1. wr[t].at = "sample" /\ UNCHANGED <<name, dir, obj, cur, ap, unsynced, torn>>
  BY DEF Sample
<1>2. wr[t] \in WrRec /\ FileOf(t).keys \subseteq LmdbKeys /\ "delete" \in WrAts
  BY <1>1, FillOf DEF WrAts
<1>3. CASE Quit(t)
  BY <1>1, <1>3, WrGoes DEF Quit
<1>4. ASSUME NEW k \in FileOf(t).keys, wr' = [wr EXCEPT ![t].victim = k, ![t].at = "delete"]
      PROVE  LmdbInv'
  <2> DEFINE w == [wr[t] EXCEPT !.victim = k, !.at = "delete"]
  <2>1. wr' = [wr EXCEPT ![t] = w]
    BY <1>4
  <2>2. w \in WrRec /\ w.d = wr[t].d /\ w.key = wr[t].key
    BY <1>2 DEF WrRec
  <2> QED
    BY <1>1, <2>1, <2>2, WrGoes
<1> QED
  BY <1>3, <1>4 DEF Sample

LEMMA TxnSteps ==
    ASSUME LmdbInv, NEW t \in Fillers, BeginTxn(t) \/ MapFull(t)
    PROVE  LmdbInv'
<1>1. wr[t].at \in {"begin", "txn"} /\ UNCHANGED <<name, dir, obj, cur, ap, unsynced, torn>>
  BY DEF BeginTxn, MapFull
<1>2. wr[t] \in WrRec /\ {"txn", "evict", "sample", "exists"} \subseteq WrAts
  BY <1>1, FillOf DEF WrAts
<1>3. CASE BeginTxn(t)
  <2> DEFINE w == [wr[t] EXCEPT !.at = "txn"]
  <2>1. wr' = [wr EXCEPT ![t] = w]
    BY <1>3 DEF BeginTxn, Go
  <2>2. w \in WrRec /\ w.d = wr[t].d /\ w.key = wr[t].key
    BY <1>2 DEF WrRec
  <2> QED
    BY <1>1, <2>1, <2>2, WrGoes
<1>4. CASE MapFull(t)
  <2> DEFINE a == IF wr[t].full = "evict_one" THEN "evict" ELSE "sample"
             w == [wr[t] EXCEPT !.at = a, !.next = "exists", !.retry = FALSE]
  <2>1. wr' = [wr EXCEPT ![t] = w] \/ wr' = [wr EXCEPT ![t] = NoJob]
    BY <1>4 DEF MapFull, Quit
  <2>2. a \in WrAts
    BY <1>2
  <2> HIDE DEF a
  <2>3. w \in WrRec /\ w.d = wr[t].d /\ w.key = wr[t].key
    BY <1>2, <2>2 DEF WrRec
  <2> QED
    BY <1>1, <2>1, <2>3, WrGoes
<1> QED
  BY <1>3, <1>4

LEMMA PutAndCommitStep ==
    ASSUME LmdbInv, NEW t \in Fillers, PutAndCommit(t)
    PROVE  LmdbInv'
<1> DEFINE w == [wr[t] EXCEPT !.at = "mark", !.next = "idle"]
           ks == FileOf(t).keys \cup {wr[t].key}
           c == IF wr[t].replacing THEN FileOf(t).count ELSE Bump(FileOf(t).count, TRUE)
<1>1. wr[t].at = "txn" /\ Commit(t, [here |-> TRUE, keys |-> ks, count |-> c]) /\ wr' = [wr EXCEPT ![t] = w]
  BY DEF PutAndCommit
<1>2. wr[t] \in WrRec /\ wr[t].key \in LmdbKeys /\ FileOf(t).keys \in SUBSET LmdbKeys
      /\ Bump(FileOf(t).count, TRUE) \in Nat /\ FileOf(t).count \in Nat /\ {"mark", "idle"} \subseteq WrAts
  BY <1>1, FillOf DEF WrAts
<1>3. w \in WrRec /\ w.d = wr[t].d /\ w.key = wr[t].key /\ w.at = "mark"
  BY <1>2 DEF WrRec
<1>4. ks \in SUBSET LmdbKeys /\ ks \subseteq FileOf(t).keys \cup {wr[t].key} /\ c \in Nat
  BY <1>2
<1> HIDE DEF w, ks, c
<1> QED
  BY <1>1, <1>3, <1>4, CommitStep

\* One flag of a table of flags.
LEMMA RowStep ==
    ASSUME unsynced \in [Dirs -> [Slots -> BOOLEAN]], NEW d \in Dirs, NEW s \in Slots, NEW v \in BOOLEAN,
           unsynced' = [unsynced EXCEPT ![d][s] = v]
    PROVE  /\ unsynced' \in [Dirs -> [Slots -> BOOLEAN]]
           /\ \A e \in Dirs : e # d => unsynced'[e] = unsynced[e]
           /\ \A x \in Slots : unsynced'[d][x] = IF x = s THEN v ELSE unsynced[d][x]
<1> DEFINE row == [unsynced[d] EXCEPT ![s] = v]
<1>1. unsynced' = [unsynced EXCEPT ![d] = row]
  OBVIOUS
<1>2. row \in [Slots -> BOOLEAN] /\ \A x \in Slots : row[x] = IF x = s THEN v ELSE unsynced[d][x]
  OBVIOUS
<1> HIDE DEF row
<1>3. unsynced' \in [Dirs -> [Slots -> BOOLEAN]]
      /\ \A e \in Dirs : unsynced'[e] = IF e = d THEN row ELSE unsynced[e]
  BY <1>1, <1>2
<1> QED
  BY <1>2, <1>3

LEMMA NextShardType ==
    ASSUME LmdbInv, NEW d \in Dirs
    PROVE  /\ NextShard(d) \in ObjRec /\ NextShard(d).open = obj[d].open /\ NextShard(d).n = obj[d].n
           /\ NextShard(d).legacy = obj[d].legacy /\ NextShard(d).dirty = obj[d].dirty
<1>1. obj[d] \in ObjRec
  BY DEF LmdbInv, LmdbOK
<1>2. obj[d].i \in Slots /\ obj[d].n \in 0 .. MaxN
  BY <1>1 DEF ObjRec
<1>3. CASE obj[d].i + 1 < obj[d].n
  <2> DEFINE j == obj[d].i + 1
  <2>1. j \in Slots
    BY <1>2, <1>3, LmdbConsts, SMT
  <2>2. NextShard(d) = [obj[d] EXCEPT !.flusher = "visit", !.i = j]
    BY <1>3 DEF NextShard
  <2> HIDE DEF j
  <2> QED
    BY <1>1, <2>1, <2>2 DEF ObjRec
<1>4. CASE ~(obj[d].i + 1 < obj[d].n)
  <2> DEFINE f == IF obj[d].ending THEN "none" ELSE "wait"
  <2>1. f \in {"none", "wait", "visit", "sync"}
    OBVIOUS
  <2>2. NextShard(d) = [obj[d] EXCEPT !.flusher = f, !.i = 0]
    BY <1>4 DEF NextShard
  <2> HIDE DEF f
  <2> QED
    BY <1>1, <2>1, <2>2, LmdbConsts DEF ObjRec
<1> QED
  BY <1>3, <1>4

\* The dirty flags of a backend, one of them set or reset.
LEMMA FlagType ==
    ASSUME NEW p \in ObjRec, NEW s \in Slots, NEW v \in BOOLEAN
    PROVE  LET row == [p.dirty EXCEPT ![s] = v]
           IN  row \in [Slots -> BOOLEAN] /\ \A x \in Slots : row[x] = IF x = s THEN v ELSE p.dirty[x]
<1>1. p.dirty \in [Slots -> BOOLEAN]
  BY DEF ObjRec
<1> QED
  BY <1>1

LEMMA FlushTickStep ==
    ASSUME LmdbInv, NEW d \in Dirs, FlushTick(d)
    PROVE  LmdbInv'
<1> DEFINE o == [obj[d] EXCEPT !.flusher = "visit", !.i = 0]
<1>1. obj[d] \in ObjRec /\ UNCHANGED <<name, dir, cur, ap, wr, unsynced, torn>> /\ obj' = [obj EXCEPT ![d] = o]
  BY DEF LmdbInv, LmdbOK, FlushTick
<1>2. /\ o \in ObjRec /\ o.open = obj[d].open /\ o.n = obj[d].n /\ o.legacy = obj[d].legacy
      /\ o.dirty = obj[d].dirty
  BY <1>1, LmdbConsts DEF ObjRec
<1> HIDE DEF o
<1> QED
  BY <1>1, <1>2, StaysCovered, QuietObjStep

LEMMA FlushVisitStep ==
    ASSUME LmdbInv, NEW d \in Dirs, FlushVisit(d)
    PROVE  LmdbInv'
<1> DEFINE s == Slot(obj[d], obj[d].i)
<1>1. UNCHANGED <<name, dir, cur, ap, wr, torn>> /\ obj[d] \in ObjRec
      /\ unsynced \in [Dirs -> [Slots -> BOOLEAN]]
  BY DEF LmdbInv, LmdbOK, FlushVisit
<1>2. s \in Slots
  <2>1. obj[d].i \in Slots
    BY <1>1 DEF ObjRec
  <2> QED
    BY <1>1, <2>1, SlotType
<1>3. CASE obj[d].dirty[s]
  <2> DEFINE p == [obj[d] EXCEPT !.flusher = "sync"]
             row == [p.dirty EXCEPT ![s] = FALSE]
             o == [p EXCEPT !.dirty = row]
  <2>1. /\ obj' = [obj EXCEPT ![d] = o]
        /\ unsynced' = [unsynced EXCEPT ![d][s] = FALSE]
    BY <1>3 DEF FlushVisit
  <2>2. p \in ObjRec /\ p.open = obj[d].open /\ p.n = obj[d].n /\ p.legacy = obj[d].legacy
        /\ p.dirty = obj[d].dirty
    BY <1>1 DEF ObjRec
  <2> HIDE DEF p, s
  <2>6. row \in [Slots -> BOOLEAN] /\ \A x \in Slots : row[x] = IF x = s THEN FALSE ELSE p.dirty[x]
    BY <1>2, <2>2, FlagType
  <2> HIDE DEF row
  <2>7. o \in ObjRec /\ o.open = p.open /\ o.n = p.n /\ o.legacy = p.legacy /\ o.dirty = row
    BY <2>2, <2>6 DEF ObjRec
  <2> HIDE DEF o
  <2>3. /\ o \in ObjRec /\ o.open = obj[d].open /\ o.n = obj[d].n /\ o.legacy = obj[d].legacy
        /\ \A x \in Slots : o.dirty[x] = IF x = s THEN FALSE ELSE obj[d].dirty[x]
    BY <2>2, <2>6, <2>7
  <2>4. /\ unsynced' \in [Dirs -> [Slots -> BOOLEAN]]
        /\ \A e \in Dirs : e # d => unsynced'[e] = unsynced[e]
        /\ \A x \in Slots : unsynced'[d][x] = IF x = s THEN FALSE ELSE unsynced[d][x]
    BY <1>1, <1>2, <2>1, RowStep
  <2>5. \A x \in Slots : unsynced'[d][x] => o.open /\ (o.dirty[x] \/ Marking(d, x))
    BY <2>3, <2>4 DEF LmdbInv, Covered
  <2> QED
    BY <1>1, <2>1, <2>3, <2>4, <2>5, QuietObjStep
<1>4. CASE ~obj[d].dirty[s]
  <2>1. obj' = [obj EXCEPT ![d] = NextShard(d)] /\ UNCHANGED unsynced
    BY <1>4 DEF FlushVisit
  <2> QED
    BY <1>1, <2>1, NextShardType, StaysCovered, QuietObjStep
<1> QED
  BY <1>3, <1>4

LEMMA FlushEndStep ==
    ASSUME LmdbInv, FlushersOpen, NEW d \in Dirs, FlushEnd(d)
    PROVE  LmdbInv'
<1> DEFINE s == Slot(obj[d], obj[d].i)
<1>1. UNCHANGED <<name, dir, cur, ap, wr, torn>> /\ obj[d] \in ObjRec
      /\ unsynced \in [Dirs -> [Slots -> BOOLEAN]] /\ obj[d].open
  BY DEF LmdbInv, LmdbOK, FlushEnd, FlushersOpen
<1>2. s \in Slots
  <2>1. obj[d].i \in Slots
    BY <1>1 DEF ObjRec
  <2> QED
    BY <1>1, <2>1, SlotType
<1>3. CASE obj' = [obj EXCEPT ![d] = NextShard(d)] /\ UNCHANGED unsynced
  BY <1>1, <1>3, NextShardType, StaysCovered, QuietObjStep
<1>4. CASE /\ obj' = [obj EXCEPT ![d] = [NextShard(d) EXCEPT !.dirty[s] = TRUE]]
           /\ unsynced' = [unsynced EXCEPT ![d][s] = TRUE]
  <2> DEFINE row == [NextShard(d).dirty EXCEPT ![s] = TRUE]
             o == [NextShard(d) EXCEPT !.dirty = row]
  <2>1. obj' = [obj EXCEPT ![d] = o]
    BY <1>4
  <2> HIDE DEF s
  <2>5. /\ row \in [Slots -> BOOLEAN]
        /\ \A x \in Slots : row[x] = IF x = s THEN TRUE ELSE NextShard(d).dirty[x]
    BY <1>2, NextShardType, FlagType
  <2> HIDE DEF row
  <2>6. /\ o \in ObjRec /\ o.open = NextShard(d).open /\ o.n = NextShard(d).n
        /\ o.legacy = NextShard(d).legacy /\ o.dirty = row
    BY <2>5, NextShardType DEF ObjRec
  <2> HIDE DEF o
  <2>2. /\ o \in ObjRec /\ o.open = obj[d].open /\ o.n = obj[d].n /\ o.legacy = obj[d].legacy
        /\ \A x \in Slots : o.dirty[x] = IF x = s THEN TRUE ELSE obj[d].dirty[x]
    BY <2>5, <2>6, NextShardType
  <2>3. /\ unsynced' \in [Dirs -> [Slots -> BOOLEAN]]
        /\ \A e \in Dirs : e # d => unsynced'[e] = unsynced[e]
        /\ \A x \in Slots : unsynced'[d][x] = IF x = s THEN TRUE ELSE unsynced[d][x]
    BY <1>1, <1>2, <1>4, RowStep
  <2>4. \A x \in Slots : unsynced'[d][x] => o.open /\ (o.dirty[x] \/ Marking(d, x))
    BY <1>1, <2>2, <2>3 DEF LmdbInv, Covered
  <2> QED
    BY <1>1, <2>1, <2>2, <2>3, <2>4, QuietObjStep
<1> QED
  BY <1>3, <1>4 DEF FlushEnd

\* What the directories hold and where the applying thread is, when the
\* layouts of the backends are left alone.
LEMMA SameLayouts ==
    ASSUME LmdbInv, UNCHANGED <<name, cur, dir, ap, torn>>,
           \A e \in Dirs : obj'[e].open = obj[e].open /\ obj'[e].n = obj[e].n
                           /\ obj'[e].legacy = obj[e].legacy
    PROVE  Layouts' /\ Applying' /\ Progress' /\ PathOpens'
<1>1. Layouts'
  BY DEF LmdbInv, Layouts
<1>2. Applying'
  BY DEF LmdbInv, Applying
<1>3. Progress'
  BY DEF LmdbInv, Progress
<1>4. PathOpens'
  BY DEF LmdbInv, PathOpens
<1> QED
  BY <1>1, <1>2, <1>3, <1>4

LEMMA MarkDirtyStep ==
    ASSUME LmdbInv, NEW t \in Fillers, MarkDirty(t)
    PROVE  LmdbInv'
<1> DEFINE d == wr[t].d
           s == SlotOf(t)
           row == [obj[d].dirty EXCEPT ![s] = TRUE]
           o == [obj[d] EXCEPT !.dirty = row]
<1>1. wr[t].at = "mark" /\ UNCHANGED <<name, dir, cur, ap, unsynced, torn>> /\ obj' = [obj EXCEPT ![d] = o]
  BY DEF MarkDirty
<1>2. /\ d \in Dirs /\ obj[d] \in ObjRec /\ s \in Slots
      /\ wr[t] \in WrRec /\ wr[t].key \in LmdbKeys /\ obj[d].open
  BY <1>1, FillOf DEF LmdbInv, LmdbOK
<1>0. s = ShardForKey(obj[d], wr[t].key)
  BY <1>1, FillOf
<1>3. PICK w : wr' = [wr EXCEPT ![t] = w] /\ w \in {NoJob, [wr[t] EXCEPT !.at = wr[t].next]}
  BY DEF MarkDirty, Quit, Go
<1> HIDE DEF d, s
<1>4. row \in [Slots -> BOOLEAN] /\ \A x \in Slots : row[x] = IF x = s THEN TRUE ELSE obj[d].dirty[x]
  BY <1>2, FlagType
<1> HIDE DEF row
<1>5. /\ o \in ObjRec /\ o.open = obj[d].open /\ o.n = obj[d].n /\ o.legacy = obj[d].legacy
      /\ o.dirty = row
  BY <1>2, <1>4 DEF ObjRec
<1> HIDE DEF o
<1>6. \A e \in Dirs : obj'[e] = IF e = d THEN o ELSE obj[e]
  BY <1>1 DEF LmdbInv, LmdbOK
<1>7. \A e \in Dirs : obj'[e].open = obj[e].open /\ obj'[e].n = obj[e].n /\ obj'[e].legacy = obj[e].legacy
  BY <1>5, <1>6
<1>8. w \in WrRec /\ (w = NoJob \/ (w.d = d /\ w.key = wr[t].key))
  <2>1. wr[t].next \in WrAts
    BY <1>2 DEF WrRec
  <2>2. CASE w = [wr[t] EXCEPT !.at = wr[t].next]
    BY <1>2, <2>1, <2>2 DEF WrRec, d
  <2> QED
    BY <1>3, <2>2, Nothing
<1>9. \A u \in Fillers : wr'[u] = IF u = t THEN w ELSE wr[u]
  BY <1>3 DEF LmdbInv, LmdbOK
<1>10. LmdbOK'
  BY <1>1, <1>3, <1>5, <1>8 DEF LmdbInv, LmdbOK
<1>11. Service'
  BY <1>1, <1>7 DEF LmdbInv, LmdbOK, Service
<1>12. WritersOpen'
  <2> SUFFICES ASSUME NEW u \in Fillers, wr'[u].at # "idle"
               PROVE  wr'[u].d \in Dirs /\ obj'[wr'[u].d].open /\ wr'[u].key \in LmdbKeys
    BY DEF WritersOpen
  <2>1. CASE u = t
    BY <1>2, <1>7, <1>8, <1>9, <2>1, Nothing
  <2>2. CASE u # t
    BY <1>7, <1>9, <2>2 DEF LmdbInv, WritersOpen
  <2> QED
    BY <2>1, <2>2
<1>13. Covered'
  <2> SUFFICES ASSUME NEW e \in Dirs, NEW x \in Slots, unsynced'[e][x]
               PROVE  obj'[e].open /\ (obj'[e].dirty[x] \/ Marking(e, x)')
    BY DEF Covered
  <2>1. obj[e].open /\ (obj[e].dirty[x] \/ Marking(e, x))
    BY <1>1 DEF LmdbInv, Covered
  <2>2. obj[e].dirty[x] => obj'[e].dirty[x]
    BY <1>4, <1>5, <1>6
  <2>3. ASSUME Marking(e, x), ~obj'[e].dirty[x] PROVE Marking(e, x)'
    <3>1. PICK u \in Fillers : wr[u].at = "mark" /\ wr[u].d = e /\ ShardForKey(obj[e], wr[u].key) = x
      BY <2>3 DEF Marking
    <3>2. u # t
      <4>1. obj'[d].dirty[s]
        BY <1>2, <1>4, <1>5, <1>6
      <4> QED
        BY <1>0, <2>3, <3>1, <4>1 DEF d
    <3>3. wr'[u] = wr[u]
      BY <1>9, <3>2
    <3>4. ShardForKey(obj'[e], wr[u].key) = ShardForKey(obj[e], wr[u].key)
      BY <1>7 DEF ShardForKey, Slot
    <3> QED
      BY <3>1, <3>3, <3>4 DEF Marking
  <2> QED
    BY <1>7, <2>1, <2>2, <2>3
<1>14. Layouts' /\ Applying' /\ Progress' /\ PathOpens'
  BY <1>1, <1>7, SameLayouts
<1> QED
  BY <1>10, <1>11, <1>12, <1>13, <1>14 DEF LmdbInv

LEMMA ShrinkEvictStep ==
    ASSUME LmdbInv, ShrinkEvict
    PROVE  LmdbInv'
<1>1. ap.at = "shrink" /\ ap.at \in Hot /\ UNCHANGED <<name, cur, ap, wr, torn>>
  BY DEF ShrinkEvict, Hot
<1>0. PICK s \in Live(cur) :
         /\ \E k \in KeysIn(cur, s) :
              dir' = [dir EXCEPT ![cur].file[s] =
                        [here |-> TRUE, keys |-> @.keys \ {k}, count |-> Bump(@.count, FALSE)]]
         /\ obj' = [obj EXCEPT ![cur].dirty[s] = TRUE]
         /\ unsynced' = [unsynced EXCEPT ![cur][s] = @ \/ Lost(cur)]
  BY DEF ShrinkEvict
<1>2. PICK k \in KeysIn(cur, s) :
         dir' = [dir EXCEPT ![cur].file[s] =
                   [here |-> TRUE, keys |-> @.keys \ {k}, count |-> Bump(@.count, FALSE)]]
  BY <1>0
<1> DEFINE d == cur
           old == dir[d].file[s]
           ks == old.keys \ {k}
           c == Bump(old.count, FALSE)
           f == [here |-> TRUE, keys |-> ks, count |-> c]
           row == [obj[d].dirty EXCEPT ![s] = TRUE]
           o == [obj[d] EXCEPT !.dirty = row]
           v == unsynced[d][s] \/ Lost(d)
<1>3. s \in Slots /\ d \in Dirs /\ obj[d] \in ObjRec /\ obj[d].open /\ dir[d] \in DirRec
      /\ unsynced \in [Dirs -> [Slots -> BOOLEAN]] /\ ap \in ApRec
  BY <1>1, HotCur DEF Live, LmdbInv, LmdbOK
<1>4. /\ dir' = [dir EXCEPT ![d].file[s] = f] /\ obj' = [obj EXCEPT ![d] = o]
      /\ unsynced' = [unsynced EXCEPT ![d][s] = v] /\ v \in BOOLEAN
  BY <1>0, <1>2
<1>5. old \in FileRec
  BY <1>3 DEF DirRec
<1>6. ks \in SUBSET LmdbKeys /\ ks \subseteq old.keys /\ c \in Nat
  BY <1>5, BumpType DEF FileRec
<1> HIDE DEF d, ks, c, v
<1>7. f \in FileRec /\ f.here /\ f.keys = ks
  BY <1>6 DEF FileRec
<1> HIDE DEF f
<1>8. row \in [Slots -> BOOLEAN] /\ \A x \in Slots : row[x] = IF x = s THEN TRUE ELSE obj[d].dirty[x]
  BY <1>3, FlagType
<1> HIDE DEF row
<1>9. /\ o \in ObjRec /\ o.open = obj[d].open /\ o.n = obj[d].n /\ o.legacy = obj[d].legacy
      /\ o.dirty = row
  BY <1>3, <1>8 DEF ObjRec
<1> HIDE DEF o
<1>10. \A e \in Dirs : obj'[e] = IF e = d THEN o ELSE obj[e]
  BY <1>4 DEF LmdbInv, LmdbOK
<1>11. \A e \in Dirs : obj'[e].open = obj[e].open /\ obj'[e].n = obj[e].n /\ obj'[e].legacy = obj[e].legacy
  BY <1>9, <1>10
<1>12. dir' \in [Dirs -> DirRec] /\ Layouts' /\ Applying' /\ Progress' /\ PathOpens'
  <2>1. \A x \in f.keys : x \in dir[d].file[s].keys \/ ShardForKey(obj[d], x) = s
    BY <1>6, <1>7
  <2> QED
    BY <1>1, <1>3, <1>4, <1>7, <1>11, <2>1, WriteFile
<1>13. /\ unsynced' \in [Dirs -> [Slots -> BOOLEAN]]
       /\ \A e \in Dirs : e # d => unsynced'[e] = unsynced[e]
       /\ \A x \in Slots : unsynced'[d][x] = IF x = s THEN v ELSE unsynced[d][x]
  BY <1>3, <1>4, RowStep
<1>14. \A x \in Slots : unsynced'[d][x] => o.open /\ (o.dirty[x] \/ Marking(d, x))
  BY <1>3, <1>8, <1>9, <1>13 DEF LmdbInv, Covered
<1> QED
  BY <1>1, <1>3, <1>4, <1>9, <1>12, <1>13, <1>14, ObjStep

LEMMA ShrinkClearStep ==
    ASSUME LmdbInv, ShrinkClear
    PROVE  LmdbInv'
<1> DEFINE d == cur
           L == Live(cur)
           g == [s \in Slots |-> IF s \in L THEN EmptyFile ELSE dir[d].file[s]]
           r == [dir[d] EXCEPT !.file = g]
           row == [s \in Slots |-> obj[d].dirty[s] \/ s \in L]
           o == [obj[d] EXCEPT !.dirty = row]
           lost == Lost(d)
           un == [s \in Slots |-> unsynced[d][s] \/ (lost /\ s \in L)]
<1>1. /\ ap.at = "shrink" /\ ap.at \in Hot /\ "resize" \in Hot /\ UNCHANGED <<name, cur, wr, torn>>
      /\ ap' = [ap EXCEPT !.at = "resize"] \/ ap' = NoApply
      /\ dir' = [dir EXCEPT ![d] = r] /\ obj' = [obj EXCEPT ![d] = o]
      /\ unsynced' = [unsynced EXCEPT ![d] = un]
  BY DEF ShrinkClear, Hot
<1>2. /\ d \in Dirs /\ obj[d] \in ObjRec /\ obj[d].open /\ dir[d] \in DirRec
      /\ unsynced \in [Dirs -> [Slots -> BOOLEAN]] /\ ap \in ApRec
  BY <1>1, HotCur DEF LmdbInv, LmdbOK
<1>3. /\ dir[d].file \in [Slots -> FileRec] /\ obj[d].dirty \in [Slots -> BOOLEAN]
      /\ unsynced[d] \in [Slots -> BOOLEAN]
  BY <1>2 DEF DirRec, ObjRec
<1> HIDE DEF d, L, lost
<1>4. g \in [Slots -> FileRec] /\ \A s \in Slots : g[s] = IF s \in L THEN EmptyFile ELSE dir[d].file[s]
  BY <1>3, Files
<1>5. row \in [Slots -> BOOLEAN] /\ \A s \in Slots : row[s] = (obj[d].dirty[s] \/ s \in L)
  BY <1>3, SMT
<1>6. un \in [Slots -> BOOLEAN] /\ \A s \in Slots : un[s] = (unsynced[d][s] \/ (lost /\ s \in L))
  BY <1>3, SMT
<1> HIDE DEF g, row, un
<1>7. r \in DirRec /\ r.side = dir[d].side /\ r.file = g
  BY <1>2, <1>4 DEF DirRec
<1>8. /\ o \in ObjRec /\ o.open = obj[d].open /\ o.n = obj[d].n /\ o.legacy = obj[d].legacy
      /\ o.dirty = row
  BY <1>2, <1>5 DEF ObjRec
<1> HIDE DEF r, o
<1>9. \A e \in Dirs : obj'[e] = IF e = d THEN o ELSE obj[e]
  BY <1>1 DEF LmdbInv, LmdbOK
<1>10. \A e \in Dirs : obj'[e].open = obj[e].open /\ obj'[e].n = obj[e].n /\ obj'[e].legacy = obj[e].legacy
  BY <1>8, <1>9
<1>11. Filed(r)
  <2>1. Filed(dir[d])
    BY <1>2 DEF LmdbInv, Layouts
  <2>2. \A s \in Slots : \A k \in r.file[s].keys : k \in dir[d].file[s].keys
    BY <1>4, <1>7, Files
  <2> QED
    BY <1>7, <2>1, <2>2 DEF Filed
<1>12. \A s \in Slots : dir[d].file[s] # NoFile => r.file[s] # NoFile
  BY <1>4, <1>7, Files
<1>13. ap' \in ApRec /\ (ap'.at \in Hot => ap'.cfg = ap.cfg) /\ ap'.at \in Hot \cup {"idle"}
  <2>1. CASE ap' = [ap EXCEPT !.at = "resize"]
    BY <1>1, <1>2, <2>1 DEF ApRec, ApAts
  <2>2. CASE ap' = NoApply
    BY <2>2, Nothing DEF Hot
  <2> QED
    BY <1>1, <2>1, <2>2
<1>14. dir' \in [Dirs -> DirRec] /\ Layouts' /\ Applying' /\ Progress' /\ PathOpens'
  BY <1>1, <1>2, <1>7, <1>10, <1>11, <1>12, <1>13, WriteKeeps
<1>15. /\ unsynced' \in [Dirs -> [Slots -> BOOLEAN]]
       /\ \A e \in Dirs : unsynced'[e] = IF e = d THEN un ELSE unsynced[e]
  BY <1>1, <1>2, <1>6
<1>16. \A s \in Slots : unsynced'[d][s] => o.open /\ (o.dirty[s] \/ Marking(d, s))
  BY <1>2, <1>5, <1>6, <1>8, <1>15 DEF LmdbInv, Covered
<1> QED
  BY <1>1, <1>2, <1>8, <1>13, <1>14, <1>15, <1>16, ObjStep

LEMMA DropOldStep ==
    ASSUME LmdbInv, NEW d \in Dirs, DropOld(d)
    PROVE  LmdbInv'
<1>1. /\ obj[d].open /\ d # cur /\ ap.d # d /\ \A t \in Fillers : wr[t].d # d
      /\ UNCHANGED <<name, dir, cur, ap, wr, torn>> /\ obj[d] \in ObjRec
      /\ unsynced' = [unsynced EXCEPT ![d] = IF obj'[d].open THEN @ ELSE [s \in Slots |-> FALSE]]
      /\ unsynced \in [Dirs -> [Slots -> BOOLEAN]]
  BY DEF DropOld, LmdbInv, LmdbOK
<1>2. ASSUME NEW o \in ObjRec, obj' = [obj EXCEPT ![d] = o], o.open = obj[d].open, o.n = obj[d].n,
             o.legacy = obj[d].legacy, o.dirty = obj[d].dirty
      PROVE  LmdbInv'
  <2>1. obj'[d] = o
    BY <1>2 DEF LmdbInv, LmdbOK
  <2>2. unsynced' = unsynced
    BY <1>1, <1>2, <2>1
  <2> QED
    BY <1>1, <1>2, <2>2, StaysCovered, QuietObjStep
<1>3. CASE obj' = [obj EXCEPT ![d].flusher = "visit", ![d].i = 0, ![d].ending = TRUE]
  <2> DEFINE o == [obj[d] EXCEPT !.flusher = "visit", !.i = 0, !.ending = TRUE]
  <2>1. obj' = [obj EXCEPT ![d] = o]
    BY <1>3
  <2>2. /\ o \in ObjRec /\ o.open = obj[d].open /\ o.n = obj[d].n /\ o.legacy = obj[d].legacy
        /\ o.dirty = obj[d].dirty
    BY <1>1, LmdbConsts DEF ObjRec
  <2> QED
    BY <1>2, <2>1, <2>2
<1>4. CASE obj' = [obj EXCEPT ![d].ending = TRUE]
  <2> DEFINE o == [obj[d] EXCEPT !.ending = TRUE]
  <2>1. obj' = [obj EXCEPT ![d] = o]
    BY <1>4
  <2>2. /\ o \in ObjRec /\ o.open = obj[d].open /\ o.n = obj[d].n /\ o.legacy = obj[d].legacy
        /\ o.dirty = obj[d].dirty
    BY <1>1 DEF ObjRec
  <2> QED
    BY <1>2, <2>1, <2>2
<1>5. CASE obj' = [obj EXCEPT ![d] = Closed]
  <2>1. obj'[d] = Closed /\ \A e \in Dirs : e # d => obj'[e] = obj[e]
    BY <1>5 DEF LmdbInv, LmdbOK
  <2>2. unsynced' = [unsynced EXCEPT ![d] = [s \in Slots |-> FALSE]]
    BY <1>1, <2>1, Nothing
  <2>3. /\ unsynced' \in [Dirs -> [Slots -> BOOLEAN]] /\ \A e \in Dirs : e # d => unsynced'[e] = unsynced[e]
        /\ \A s \in Slots : unsynced'[d][s] = FALSE
    <3> DEFINE none == [s \in Slots |-> FALSE]
    <3>1. none \in [Slots -> BOOLEAN] /\ \A s \in Slots : none[s] = FALSE
      BY SMT
    <3> HIDE DEF none
    <3>2. unsynced' = [unsynced EXCEPT ![d] = none]
      BY <2>2 DEF none
    <3> QED
      BY <1>1, <3>1, <3>2
  <2>4. LmdbOK'
    BY <1>1, <1>5, <2>3, Nothing DEF LmdbInv, LmdbOK
  <2>5. Service' /\ WritersOpen'
    <3>1. Service'
      BY <1>1, <2>1, Nothing DEF LmdbInv, LmdbOK, Service
    <3>2. WritersOpen'
      BY <1>1, <2>1 DEF LmdbInv, WritersOpen
    <3> QED
      BY <3>1, <3>2
  <2>6. Covered'
    <3> SUFFICES ASSUME NEW e \in Dirs, NEW x \in Slots, unsynced'[e][x]
                 PROVE  obj'[e].open /\ (obj'[e].dirty[x] \/ Marking(e, x)')
      BY DEF Covered
    <3>1. e # d /\ unsynced[e][x] /\ obj'[e] = obj[e]
      BY <2>1, <2>3
    <3>2. Marking(e, x) => Marking(e, x)'
      BY <1>1, <3>1 DEF Marking
    <3> QED
      BY <3>1, <3>2 DEF LmdbInv, Covered
  <2>7. Layouts'
    BY <1>1, <2>1, Nothing DEF LmdbInv, Layouts
  <2>8. Applying'
    BY <1>1, <2>1 DEF LmdbInv, Applying
  <2>9. Progress'
    BY <1>1 DEF LmdbInv, Progress
  <2>10. PathOpens'
    BY <1>1 DEF LmdbInv, PathOpens
  <2> QED
    BY <2>4, <2>5, <2>6, <2>7, <2>8, <2>9, <2>10 DEF LmdbInv
<1> QED
  BY <1>3, <1>4, <1>5 DEF DropOld

\* With everything closed, all that is left to show is about the directories.
AllClosed ==
    /\ name \in [Names -> Dirs \cup {None}] /\ dir \in [Dirs -> DirRec] /\ torn \in BOOLEAN
    /\ obj = [d \in Dirs |-> Closed] /\ cur = None /\ ap = NoApply /\ wr = [t \in Fillers |-> NoJob]
    /\ unsynced = [d \in Dirs |-> [s \in Slots |-> FALSE]]
    /\ \A d \in Dirs : Filed(dir[d])
    /\ ~torn /\ name["path"] # None => Good(dir[name["path"]])

LEMMA ClosedIsFine == AllClosed => LmdbInv
<1> SUFFICES ASSUME AllClosed PROVE LmdbInv
  OBVIOUS
<1>1. /\ \A d \in Dirs : obj[d] = Closed
      /\ \A t \in Fillers : wr[t] = NoJob
      /\ obj \in [Dirs -> ObjRec] /\ wr \in [Fillers -> WrRec]
  BY Nothing DEF AllClosed
<1>2. unsynced \in [Dirs -> [Slots -> BOOLEAN]] /\ \A d \in Dirs, s \in Slots : unsynced[d][s] = FALSE
  BY SMT DEF AllClosed
<1>3. LmdbOK
  BY <1>1, <1>2, Nothing DEF LmdbOK, AllClosed
<1>4. Service /\ WritersOpen /\ Covered /\ Layouts
  BY <1>1, <1>2, Nothing DEF Service, WritersOpen, Covered, Layouts, AllClosed
<1>5. ap.at = "idle" /\ ap.where = "path"
  BY Nothing DEF AllClosed
<1>6. Applying
  BY <1>5 DEF Applying, Opening, InPlace, Hot, Moving
<1>7. Progress
  BY <1>5 DEF Progress, InPlace
<1>8. PathOpens
  BY <1>5 DEF PathOpens, AllClosed
<1> QED
  BY <1>3, <1>4, <1>6, <1>7, <1>8 DEF LmdbInv

LEMMA CrashStep ==
    ASSUME LmdbInv, Crash
    PROVE  LmdbInv'
<1>1. /\ torn' = (torn \/ (ap.where = "path" /\ ap.at \in InPlace)) /\ UNCHANGED <<name, dir>>
      /\ obj' = [d \in Dirs |-> Closed] /\ cur' = None /\ ap' = NoApply /\ wr' = [t \in Fillers |-> NoJob]
      /\ unsynced' = [d \in Dirs |-> [s \in Slots |-> FALSE]]
  BY DEF Crash, InPlace
<1>2. name' \in [Names -> Dirs \cup {None}] /\ dir' \in [Dirs -> DirRec]
  BY <1>1 DEF LmdbInv, LmdbOK
<1>3. torn' \in BOOLEAN
  BY <1>1, SMT
<1>4. \A d \in Dirs : Filed(dir'[d])
  BY <1>1 DEF LmdbInv, Layouts
<1>5. ~torn' /\ name'["path"] # None => Good(dir'[name'["path"]])
  BY <1>1 DEF LmdbInv, PathOpens
<1>6. AllClosed'
  BY <1>1, <1>2, <1>3, <1>4, <1>5 DEF AllClosed
<1>7. AllClosed' => LmdbInv'
  BY ClosedIsFine, PTL
<1> QED
  BY <1>6, <1>7

LEMMA LmdbInitially ==
    ASSUME LmdbInit
    PROVE  LmdbInv /\ FlushersOpen
<1>1. /\ obj = [d \in Dirs |-> Closed] /\ cur = None /\ ap = NoApply /\ wr = [t \in Fillers |-> NoJob]
      /\ unsynced = [d \in Dirs |-> [s \in Slots |-> FALSE]] /\ torn = FALSE
  BY DEF LmdbInit
<1>2. FlushersOpen
  BY <1>1 DEF FlushersOpen, Closed
<1>3. \A r : r.side = 0 => Filed(r)
  BY LmdbConsts DEF Filed
<1>4. CASE name = [x \in Names |-> None] /\ dir = [x \in Dirs |-> NoDir]
  <2>1. name \in [Names -> Dirs \cup {None}] /\ dir \in [Dirs -> DirRec] /\ name["path"] = None
    BY <1>4, Files DEF Names
  <2>2. \A d \in Dirs : Filed(dir[d])
    BY <1>3, <1>4, Files
  <2> QED
    BY <1>1, <1>2, <2>1, <2>2, ClosedIsFine DEF AllClosed
<1>5. ASSUME NEW d \in Dirs, NEW k \in LmdbKeys, name = [x \in Names |-> IF x = "path" THEN d ELSE None],
             dir = [x \in Dirs |-> IF x = d THEN [NoDir EXCEPT
                      !.file[Legacy] = [here |-> TRUE, keys |-> {k}, count |-> 1]] ELSE NoDir]
      PROVE  LmdbInv
  <2> DEFINE f == [here |-> TRUE, keys |-> {k}, count |-> 1]
             g == [NoDir.file EXCEPT ![Legacy] = f]
             r == [NoDir EXCEPT !.file = g]
  <2>1. f \in FileRec /\ f.here
    BY 1 \in Nat DEF FileRec
  <2>2. f # NoFile
    BY <2>1, Files
  <2>3. dir = [x \in Dirs |-> IF x = d THEN r ELSE NoDir]
    BY <1>5
  <2> HIDE DEF f
  <2>4. NoDir.file \in [Slots -> FileRec]
    BY Files
  <2>5. g \in [Slots -> FileRec] /\ g[Legacy] = f
    BY <2>1, <2>4, LmdbConsts
  <2> HIDE DEF g
  <2>6. r \in DirRec /\ r.side = 0 /\ r.file = g
    BY <2>5, Files DEF DirRec
  <2> HIDE DEF r
  <2>7. Unsharded(r)
    BY <2>2, <2>5, <2>6 DEF Unsharded
  <2>8. /\ name \in [Names -> Dirs \cup {None}] /\ dir \in [Dirs -> DirRec] /\ name["path"] = d
        /\ dir[d] = r /\ \A x \in Dirs : x # d => dir[x] = NoDir
    BY <1>5, <2>3, <2>6, Files DEF Names
  <2>9. \A x \in Dirs : Filed(dir[x])
    BY <1>3, <2>6, <2>8, Files
  <2> QED
    BY <1>1, <2>7, <2>8, <2>9, ClosedIsFine DEF AllClosed, Good
<1>6. (CHOOSE x \in Dirs : TRUE) \in Dirs /\ (CHOOSE x \in LmdbKeys : TRUE) \in LmdbKeys
  BY LmdbCacheAssumption
<1>7. LmdbInv
  <2> DEFINE d == CHOOSE x \in Dirs : TRUE
             k == CHOOSE x \in LmdbKeys : TRUE
  <2>1. \/ name = [x \in Names |-> None] /\ dir = [x \in Dirs |-> NoDir]
        \/ /\ name = [x \in Names |-> IF x = "path" THEN d ELSE None]
           /\ dir = [x \in Dirs |-> IF x = d THEN [NoDir EXCEPT
                       !.file[Legacy] = [here |-> TRUE, keys |-> {k}, count |-> 1]] ELSE NoDir]
    BY DEF LmdbInit
  <2>2. d \in Dirs /\ k \in LmdbKeys
    BY <1>6
  <2> HIDE DEF d, k
  <2> QED
    BY <1>4, <1>5, <2>1, <2>2
<1> QED
  BY <1>2, <1>7

\* A flusher's backend stays open as long as the flusher runs.
LEMMA OpenFlusher ==
    ASSUME LmdbInv, FlushersOpen, NEW d \in Dirs, NEW o, obj' = [obj EXCEPT ![d] = o], o.open
    PROVE  FlushersOpen'
  BY DEF LmdbInv, LmdbOK, FlushersOpen

LEMMA StillOpen ==
    ASSUME NEW p \in ObjRec, p.open, NEW a, NEW b, NEW c, NEW e
    PROVE  /\ [p EXCEPT !.caps = a, !.full = b].open /\ [p EXCEPT !.size = a].open
           /\ [p EXCEPT !.sync = a, !.flusher = b].open /\ [p EXCEPT !.sync = a, !.ending = b].open
           /\ [p EXCEPT !.sync = a, !.flusher = b, !.i = c, !.ending = e].open
           /\ [p EXCEPT !.dirty = a].open
           /\ [p EXCEPT !.flusher = a, !.i = b].open /\ [p EXCEPT !.ending = a].open
           /\ [p EXCEPT !.flusher = a, !.i = b, !.ending = c].open
  BY DEF ObjRec

LEMMA HotFlusher ==
    ASSUME LmdbInv, FlushersOpen, HotPolicy \/ HotSync \/ ShrinkEvict \/ ShrinkClear \/ Resize
    PROVE  FlushersOpen'
<1>1. ap.at \in Hot
  BY DEF HotPolicy, HotSync, ShrinkEvict, ShrinkClear, Resize, Hot
<1>2. cur \in Dirs /\ obj[cur] \in ObjRec /\ obj[cur].open
  BY <1>1, HotCur
<1>3. CASE HotPolicy
  <2>1. PICK a, b : obj' = [obj EXCEPT ![cur] = [obj[cur] EXCEPT !.caps = a, !.full = b]]
    BY <1>3 DEF HotPolicy
  <2> QED
    BY <1>2, <2>1, StillOpen, OpenFlusher
<1>4. CASE HotSync
  <2>1. CASE UNCHANGED obj
    BY <2>1 DEF FlushersOpen
  <2>2. CASE obj' = [obj EXCEPT ![cur].sync = Cfg.sync,
                       ![cur].flusher = IF Cfg.sync = "periodic" THEN "wait" ELSE "none"]
    <3>1. PICK a, b : obj' = [obj EXCEPT ![cur] = [obj[cur] EXCEPT !.sync = a, !.flusher = b]]
      BY <2>2
    <3> QED
      BY <1>2, <3>1, StillOpen, OpenFlusher
  <2>3. CASE obj' = [obj EXCEPT ![cur].sync = Cfg.sync, ![cur].ending = TRUE]
    <3>1. PICK a, b : obj' = [obj EXCEPT ![cur] = [obj[cur] EXCEPT !.sync = a, !.ending = b]]
      BY <2>3
    <3> QED
      BY <1>2, <3>1, StillOpen, OpenFlusher
  <2>4. CASE obj' = [obj EXCEPT ![cur].sync = Cfg.sync, ![cur].flusher = "visit",
                                ![cur].i = 0, ![cur].ending = TRUE]
    <3>1. PICK a, b, c, e : obj' = [obj EXCEPT ![cur] =
                              [obj[cur] EXCEPT !.sync = a, !.flusher = b, !.i = c, !.ending = e]]
      BY <2>4
    <3>2. [obj[cur] EXCEPT !.sync = a, !.flusher = b, !.i = c, !.ending = e].open
      BY <1>2, StillOpen
    <3> QED
      BY <1>2, <3>1, <3>2, OpenFlusher
  <2> QED
    BY <1>4, <2>1, <2>2, <2>3, <2>4 DEF HotSync
<1>5. CASE ShrinkEvict \/ ShrinkClear
  <2>1. PICK a : obj' = [obj EXCEPT ![cur] = [obj[cur] EXCEPT !.dirty = a]]
    BY <1>5 DEF ShrinkEvict, ShrinkClear
  <2> QED
    BY <1>2, <2>1, StillOpen, OpenFlusher
<1>6. CASE Resize
  <2>1. PICK a : obj' = [obj EXCEPT ![cur] = [obj[cur] EXCEPT !.size = a]]
    BY <1>6 DEF Resize
  <2> QED
    BY <1>2, <2>1, StillOpen, OpenFlusher
<1> QED
  BY <1>3, <1>4, <1>5, <1>6

LEMMA FinishOpenFlusher ==
    ASSUME LmdbInv, FlushersOpen, FinishOpen
    PROVE  FlushersOpen'
<1>1. ap.at = "opened" /\ (obj' = [obj EXCEPT ![ap.d] = Opened] \/ UNCHANGED obj)
  BY DEF FinishOpen
<1>2. ap.d \in Dirs /\ Opened.open
  BY <1>1, OpenedType
<1> QED
  BY <1>1, <1>2, OpenFlusher DEF FlushersOpen

LEMMA FlusherFlusher ==
    ASSUME LmdbInv, FlushersOpen, NEW d \in Dirs, FlusherStep(d) \/ DropOld(d)
    PROVE  FlushersOpen'
<1>1. obj[d] \in ObjRec /\ obj[d].open
  BY DEF FlusherStep, FlushTick, FlushVisit, FlushEnd, DropOld, FlushersOpen, LmdbInv, LmdbOK
<1>2. NextShard(d) \in ObjRec /\ NextShard(d).open
  BY <1>1, NextShardType
<1>3. CASE FlushTick(d)
  <2>1. PICK a, b : obj' = [obj EXCEPT ![d] = [obj[d] EXCEPT !.flusher = a, !.i = b]]
    BY <1>3 DEF FlushTick
  <2> QED
    BY <1>1, <2>1, StillOpen, OpenFlusher
<1>4. CASE FlushVisit(d)
  <2>1. CASE obj' = [obj EXCEPT ![d] = NextShard(d)]
    BY <1>2, <2>1, OpenFlusher
  <2>2. CASE obj' # [obj EXCEPT ![d] = NextShard(d)]
    <3> DEFINE q == [obj[d] EXCEPT !.flusher = "sync"]
               row == [q.dirty EXCEPT ![Slot(obj[d], obj[d].i)] = FALSE]
    <3>1. obj' = [obj EXCEPT ![d] = [q EXCEPT !.dirty = row]]
      BY <1>4, <2>2 DEF FlushVisit
    <3>2. q \in ObjRec /\ q.open
      BY <1>1 DEF ObjRec
    <3> HIDE DEF q, row
    <3>3. [q EXCEPT !.dirty = row].open
      BY <3>2, StillOpen
    <3> QED
      BY <3>1, <3>3, OpenFlusher
  <2> QED
    BY <2>1, <2>2
<1>5. CASE FlushEnd(d)
  BY <1>1, <1>2, <1>5, OpenFlusher DEF FlushEnd, ObjRec
<1>6. CASE DropOld(d)
  <2>1. CASE obj' = [obj EXCEPT ![d] = Closed]
    BY <2>1 DEF FlushersOpen, Closed, LmdbInv, LmdbOK
  <2>2. CASE obj' = [obj EXCEPT ![d].flusher = "visit", ![d].i = 0, ![d].ending = TRUE]
    <3>1. PICK a, b, c : obj' = [obj EXCEPT ![d] = [obj[d] EXCEPT !.flusher = a, !.i = b, !.ending = c]]
      BY <2>2
    <3>2. [obj[d] EXCEPT !.flusher = a, !.i = b, !.ending = c].open
      BY <1>1, StillOpen
    <3> QED
      BY <3>1, <3>2, OpenFlusher
  <2>3. CASE obj' = [obj EXCEPT ![d].ending = TRUE]
    <3>1. PICK a : obj' = [obj EXCEPT ![d] = [obj[d] EXCEPT !.ending = a]]
      BY <2>3
    <3> QED
      BY <1>1, <3>1, StillOpen, OpenFlusher
  <2> QED
    BY <1>6, <2>1, <2>2, <2>3 DEF DropOld
<1> QED
  BY <1>3, <1>4, <1>5, <1>6 DEF FlusherStep

LEMMA OtherFlusher ==
    ASSUME LmdbInv, FlushersOpen, Crash \/ \E t \in Fillers : MarkDirty(t)
    PROVE  FlushersOpen'
<1>1. CASE Crash
  BY <1>1 DEF Crash, Closed, FlushersOpen
<1>2. ASSUME NEW t \in Fillers, MarkDirty(t) PROVE FlushersOpen'
  <2>1. wr[t].d \in Dirs /\ obj[wr[t].d].open /\ obj[wr[t].d] \in ObjRec
    BY <1>2, FillOf DEF MarkDirty, LmdbInv, LmdbOK
  <2>2. PICK a : obj' = [obj EXCEPT ![wr[t].d] = [obj[wr[t].d] EXCEPT !.dirty = a]]
    BY <1>2 DEF MarkDirty
  <2> QED
    BY <2>1, <2>2, StillOpen, OpenFlusher
<1> QED
  BY <1>1, <1>2

LEMMA LmdbNextStep ==
    ASSUME LmdbInv, FlushersOpen, LmdbNext
    PROVE  LmdbInv' /\ FlushersOpen'
<1>1. ASSUME UNCHANGED obj PROVE FlushersOpen'
  BY <1>1 DEF FlushersOpen
<1>2. ASSUME NEW c \in Configs, Start(c) PROVE LmdbInv' /\ FlushersOpen'
  BY <1>1, <1>2, StartStep DEF Start
<1>3. ASSUME NEW c \in Configs, BeginApply(c) PROVE LmdbInv' /\ FlushersOpen'
  BY <1>1, <1>3, BeginApplyStep DEF BeginApply
<1>4. CASE ApplierStep
  <2>1. LmdbInv'
    BY <1>4, MakeDirStep, CleanSiblingsStep, DetectLayoutStep, AbandonStepStep, OpenShardStep,
       WriteSidecarStep, FinishOpenStep, SwapStep, MoveAsideStep, InstallStep, UnlinkStep,
       HotPolicyStep, HotSyncStep, HotPlaceSteps, ShrinkEvictStep, ShrinkClearStep, ResizeStep
       DEF ApplierStep
  <2>2. ASSUME HotPolicy \/ HotSync \/ ShrinkEvict \/ ShrinkClear \/ Resize PROVE FlushersOpen'
    BY <2>2, HotFlusher
  <2>3. ASSUME FinishOpen PROVE FlushersOpen'
    BY <2>3, FinishOpenFlusher
  <2>4. \/ HotPolicy \/ HotSync \/ ShrinkEvict \/ ShrinkClear \/ Resize \/ FinishOpen
        \/ UNCHANGED obj
    BY <1>4 DEF ApplierStep, MakeDir, CleanSiblings, DetectLayout, AbandonStep, OpenShard, WriteSidecar,
       Swap, MoveAside, Install, Unlink, FinalSyncDone, HotSize, ShrinkFits, StoreConfig
  <2> QED
    BY <1>1, <2>1, <2>2, <2>3, <2>4
<1>5. ASSUME NEW t \in Fillers, WriterStep(t) PROVE LmdbInv' /\ FlushersOpen'
  <2>1. LmdbInv'
    BY <1>5, KeyExistsStep, EntryCountStep, CommitSteps, SampleStep, TxnSteps, PutAndCommitStep,
       MarkDirtyStep DEF WriterStep
  <2>2. MarkDirty(t) \/ UNCHANGED obj
    BY <1>5 DEF WriterStep, KeyExists, EntryCount, EvictOne, Sample, DeleteVictim, BeginTxn,
       PutAndCommit, MapFull, RemoveExpired, Commit
  <2> QED
    BY <1>1, <2>1, <2>2, OtherFlusher
<1>6. ASSUME NEW t \in Fillers, NEW k \in LmdbKeys, BeginFill(t, k) \/ BeginRemove(t, k)
      PROVE  LmdbInv' /\ FlushersOpen'
  BY <1>1, <1>6, BeginFillStep DEF BeginFill, BeginRemove
<1>7. ASSUME NEW d \in Dirs, FlusherStep(d) \/ DropOld(d) PROVE LmdbInv' /\ FlushersOpen'
  BY <1>7, FlushTickStep, FlushVisitStep, FlushEndStep, DropOldStep, FlusherFlusher DEF FlusherStep
<1>8. CASE Crash
  BY <1>8, CrashStep, OtherFlusher
<1> QED
  BY <1>2, <1>3, <1>4, <1>5, <1>6, <1>7, <1>8 DEF LmdbNext

\* The inductive invariant of the LMDB backend.
THEOREM LmdbInductive == Spec => [](LmdbInv /\ FlushersOpen)
<1>1. Init => LmdbInv /\ FlushersOpen
  BY LmdbInitially DEF Init
<1>2. LmdbInv /\ FlushersOpen /\ [Next]_vars => (LmdbInv /\ FlushersOpen)'
  <2> SUFFICES ASSUME LmdbInv, FlushersOpen, [Next]_vars PROVE LmdbInv' /\ FlushersOpen'
    OBVIOUS
  <2>1. CASE LmdbNext
    BY <2>1, LmdbNextStep
  <2>2. CASE UNCHANGED lmdbVars
    <3>1. UNCHANGED <<dir, obj, wr, unsynced, torn, cur, name, ap>>
      BY <2>2 DEF lmdbVars
    <3>2. Layouts' /\ Applying' /\ Progress' /\ PathOpens'
      BY <3>1, SameLayouts
    <3> QED
      BY <3>1, <3>2, NamesStep DEF LmdbInv, LmdbOK, FlushersOpen
  <2> QED
    BY <2>1, <2>2 DEF Next, vars
<1> QED
  BY <1>1, <1>2, PTL DEF Spec

\* A commit that no force_sync has covered is marked dirty, or its writer is
\* about to mark it, whatever the flusher, a fill, an apply, the drop of a
\* backend and a failed sync do at the same time, for every number of threads,
\* keys, shards, directories and settings.
THEOREM CommitsStayCovered == Spec => []DirtyCoversUnsynced
<1>1. LmdbInv => DirtyCoversUnsynced
  <2> SUFFICES ASSUME LmdbInv, NEW d \in Dirs, NEW s \in Slots, obj[d].open, unsynced[d][s], ~obj[d].dirty[s]
               PROVE  \E t \in Fillers : wr[t].at = "mark" /\ wr[t].d = d /\ SlotOf(t) = s
    BY DEF DirtyCoversUnsynced
  <2>1. PICK t \in Fillers : wr[t].at = "mark" /\ wr[t].d = d /\ ShardForKey(obj[d], wr[t].key) = s
    BY DEF LmdbInv, Covered, Marking
  <2>2. SlotOf(t) = s
    BY <2>1 DEF SlotOf
  <2> QED
    BY <2>1, <2>2
<1> QED
  BY <1>1, LmdbInductive, PTL

\* Every entry of the backend in service is in the shard its key is looked up
\* in, and an open fails closed only after a crash hit an open in place: through
\* any sequence of opens, reopens with another shard count, failed renames,
\* abandoned layouts and crashes.
THEOREM ReopensAreSound == Spec => []ReopenIsSound
<1>1. LmdbInv => ReopenIsSound
  <2> SUFFICES ASSUME LmdbInv PROVE ReopenIsSound
    OBVIOUS
  <2>1. ASSUME cur # None, NEW i \in 0 .. obj[cur].n - 1, NEW k \in KeysIn(cur, Slot(obj[cur], i))
        PROVE  ShardForKey(obj[cur], k) = Slot(obj[cur], i)
    <3>1. cur \in Dirs /\ obj[cur].open /\ obj[cur].n # 0 /\ obj[cur] \in ObjRec /\ dir[cur] \in DirRec
      BY <2>1 DEF LmdbInv, LmdbOK, Service
    <3>2. CASE obj[cur].legacy
      BY <3>2 DEF ShardForKey, Slot
    <3>3. CASE ~obj[cur].legacy
      <4>1. obj[cur].n \in 0 .. MaxN
        BY <3>1 DEF ObjRec
      <4>2. i \in Slots /\ i < obj[cur].n
        BY <4>1, LmdbConsts, SMT
      <4>3. dir[cur].side = obj[cur].n /\ Filed(dir[cur])
        BY <3>1, <3>3 DEF LmdbInv, Layouts, Sharded
      <4>4. Slot(obj[cur], i) = i
        BY <3>3 DEF Slot
      <4>5. k \in dir[cur].file[i].keys
        BY <2>1, <4>4 DEF KeysIn
      <4>6. Hash[k] % obj[cur].n = i
        BY <4>2, <4>3, <4>5 DEF Filed
      <4> QED
        BY <3>3, <4>4, <4>6 DEF ShardForKey, Slot
    <3> QED
      BY <3>2, <3>3
  <2>2. ap.at = "failed" => torn
    BY DEF LmdbInv, PathOpens
  <2> QED
    BY <2>1, <2>2 DEF ReopenIsSound
<1> QED
  BY <1>1, LmdbInductive, PTL
=============================================================================
