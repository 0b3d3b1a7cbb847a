---------------------------- MODULE DataSources ----------------------------
(***************************************************************************)
(* Loading the tables of data_sources: into the snapshot (data_sources.rs, *)
(* cidr.rs).                                                               *)
(*                                                                         *)
(* A file is [bytes, utf8, lines].  A CSV line is the sequence of its      *)
(* trimmed cells, a CIDR line the sequence of its fields, and <<>> is a    *)
(* blank or comment line.  The first field of a CIDR line is a token       *)
(* [form, v, bits, len]: an address of family v as a bit string, with a    *)
(* prefix length ("net"), bare ("addr"), or unreadable ("bad").            *)
(***************************************************************************)
EXTENDS Naturals, Sequences, SequencesExt

CONSTANTS
    None,
    Bytes(_),   \* length of a cell
    Defaults    \* the built-in limits

LimitNames == {"file", "entries", "key", "value", "tables", "total"}

\* 0 in the global block means the built-in value.
FromConfig(block) ==
    IF block = None THEN Defaults
    ELSE [l \in LimitNames |-> IF block[l] = 0 THEN Defaults[l] ELSE block[l]]

\* A set, non-zero limit of the source wins over the global one.
EffectiveFor(limits, ds) ==
    [l \in {"file", "entries", "key", "value"} |->
        IF ds.limits[l] \in {None, 0} THEN limits[l] ELSE ds.limits[l]]

Put(table, k, v) == [x \in DOMAIN table \cup {k} |-> IF x = k THEN v ELSE table[x]]

\* The take(max_file_bytes + 1) read and the UTF-8 check.
Readable(file, limits) == file # None /\ file.bytes <= limits.file /\ file.utf8

----------------------------------------------------------------------------
(* CSV.                                                                    *)

ColumnSpec(name, default) == IF name = "" THEN default ELSE name
KeyColumn(ds) == ColumnSpec(ds.key_column, "key")
ValueColumn(ds) == ColumnSpec(ds.value_column, "value")

LooksLikeHeader(cols, ds) ==
    \/ \E i \in DOMAIN cols : cols[i] \in {KeyColumn(ds), ValueColumn(ds)}
    \/ cols[1] \in {"qname", "key"}

\* The position of the header's column, or the default one.
Position(header, name, default) ==
    IF header # <<>> /\ \E i \in DOMAIN header : header[i] = name
    THEN CHOOSE i \in DOMAIN header : header[i] = name /\ \A j \in 1 .. i - 1 : header[j] # name
    ELSE default

RowOk(cols, k, v, limits, count) ==
    /\ k <= Len(cols) /\ v <= Len(cols)
    /\ Bytes(cols[k]) <= limits.key /\ Bytes(cols[v]) <= limits.value
    /\ count < limits.entries

\* A plausible slip: the first row for a key is kept.
CsvRow_FirstWins(acc, cols, k, v, limits) ==
    IF ~RowOk(cols, k, v, limits, acc.count) THEN [acc EXCEPT !.ok = FALSE]
    ELSE [acc EXCEPT !.count = @ + 1,
                     !.table = IF cols[k] \in DOMAIN @ THEN @ ELSE Put(@, cols[k], cols[v])]

CsvRow(acc, cols, k, v, limits) ==
    IF ~RowOk(cols, k, v, limits, acc.count) THEN [acc EXCEPT !.ok = FALSE]
    ELSE [acc EXCEPT !.count = @ + 1, !.table = Put(@, cols[k], cols[v])]

\* The loop body: every line is tried as the header until one is taken for it.
CsvLine(acc, cols, ds, limits) ==
    CASE ~acc.ok \/ cols = <<>> -> acc
      [] acc.ok /\ cols # <<>> /\ acc.header = <<>> /\ LooksLikeHeader(cols, ds) ->
            [acc EXCEPT !.header = cols]
      [] OTHER -> CsvRow(acc, cols, Position(acc.header, KeyColumn(ds), 1),
                         Position(acc.header, ValueColumn(ds), 2), limits)

NoRows == [ok |-> TRUE, header |-> <<>>, count |-> 0, table |-> <<>>]

LoadCsv(file, ds, limits) ==
    IF ~Readable(file, limits) THEN [NoRows EXCEPT !.ok = FALSE]
    ELSE FoldLeft(LAMBDA acc, cols : CsvLine(acc, cols, ds, limits), NoRows, file.lines)

----------------------------------------------------------------------------
(* CIDR.                                                                   *)

\* A bare address is the prefix of full length.
ParsePrefix(token) ==
    CASE token.form = "net" -> [v |-> token.v, bits |-> SubSeq(token.bits, 1, token.len)]
      [] token.form = "addr" -> [v |-> token.v, bits |-> token.bits]
      [] OTHER -> None

CidrLine(acc, fields, limits) ==
    LET value == IF Len(fields) > 1 THEN fields[2] ELSE "1"
    IN CASE ~acc.ok \/ fields = <<>> -> acc
         [] acc.ok /\ fields # <<>> /\ (\/ Len(fields) > 2
                                        \/ Bytes(value) > limits.value
                                        \/ ParsePrefix(fields[1]) = None
                                        \/ acc.count >= limits.entries) ->
               [acc EXCEPT !.ok = FALSE]
         [] OTHER -> [acc EXCEPT !.count = @ + 1, !.table = Put(@, ParsePrefix(fields[1]), value)]

LoadCidrTable(file, limits) ==
    IF ~Readable(file, limits) THEN [NoRows EXCEPT !.ok = FALSE]
    ELSE FoldLeft(LAMBDA acc, fields : CidrLine(acc, fields, limits), NoRows, file.lines)

Covers(net, addr) ==
    net.v = addr.v /\ Len(net.bits) <= Len(addr.bits) /\ net.bits = SubSeq(addr.bits, 1, Len(net.bits))

\* CidrTable::lookup, the longest-prefix match of the trie of the family.
LookupPrefix(table, addr) ==
    LET nets == {n \in DOMAIN table : Covers(n, addr)}
    IN IF nets = {} THEN None
       ELSE table[CHOOSE n \in nets : \A m \in nets : Len(m.bits) <= Len(n.bits)]

----------------------------------------------------------------------------
(* The store.                                                              *)

EmptyStore == [ok |-> TRUE, total |-> 0, tables |-> <<>>, cidr_tables |-> <<>>]

WellFormed(ds) == ds.type \in {"csv", "cidr"} /\ ds.name # "" /\ ds.path # ""

Insert(store, ds, loaded, bytes) ==
    [store EXCEPT !.total = @ + bytes,
                  !.tables = IF ds.type = "csv" THEN Put(@, ds.name, loaded.table) ELSE @,
                  !.cidr_tables = IF ds.type = "cidr" THEN Put(@, ds.name, loaded.table) ELSE @]

LoadSource(store, ds, disk, limits) ==
    LET file == disk[ds.path]
        loaded == IF ds.type = "cidr" THEN LoadCidrTable(file, EffectiveFor(limits, ds))
                  ELSE LoadCsv(file, ds, EffectiveFor(limits, ds))
    IN IF ~store.ok THEN store
       ELSE IF ~WellFormed(ds) \/ ~loaded.ok \/ store.total + file.bytes > limits.total
       THEN [store EXCEPT !.ok = FALSE]
       ELSE Insert(store, ds, loaded, file.bytes)

\* None: the snapshot build fails and nothing of the load is kept.
LoadDataSources(sources, disk, limits) ==
    LET end == FoldLeft(LAMBDA store, ds : LoadSource(store, ds, disk, limits), EmptyStore, sources)
    IN IF Len(sources) > limits.tables \/ ~end.ok THEN None
       ELSE [tables |-> end.tables, cidr_tables |-> end.cidr_tables]

\* "" for an unknown table or key.
Lookup(store, name, key) ==
    IF name \in DOMAIN store.tables /\ key \in DOMAIN store.tables[name]
    THEN store.tables[name][key] ELSE ""

LookupIp(store, name, addr) ==
    IF name \in DOMAIN store.cidr_tables THEN LookupPrefix(store.cidr_tables[name], addr) ELSE None

----------------------------------------------------------------------------
(* What a loaded store must answer, read off the files.                    *)

HeaderAt(file, ds) ==
    LET heads == {i \in DOMAIN file.lines : file.lines[i] # <<>> /\ LooksLikeHeader(file.lines[i], ds)}
    IN IF heads = {} THEN 0 ELSE CHOOSE i \in heads : \A j \in heads : i <= j

Column(file, ds, i, name, default) ==
    IF HeaderAt(file, ds) \in 1 .. i - 1
    THEN Position(file.lines[HeaderAt(file, ds)], name, default) ELSE default

\* The last data row that holds key, 0 for none.
RowOf(file, ds, key) ==
    LET rows == {i \in DOMAIN file.lines :
                   /\ file.lines[i] # <<>> /\ i # HeaderAt(file, ds)
                   /\ file.lines[i][Column(file, ds, i, KeyColumn(ds), 1)] = key}
    IN IF rows = {} THEN 0 ELSE CHOOSE i \in rows : \A j \in rows : j <= i

CsvSays(file, ds, key) ==
    LET i == RowOf(file, ds, key)
    IN IF i = 0 THEN "" ELSE file.lines[i][Column(file, ds, i, ValueColumn(ds), 2)]

\* The value of the most specific line that covers addr, the last of equals.
CidrSays(file, addr) ==
    LET lines == {i \in DOMAIN file.lines :
                    file.lines[i] # <<>> /\ Covers(ParsePrefix(file.lines[i][1]), addr)}
        width(i) == Len(ParsePrefix(file.lines[i][1]).bits)
        best == CHOOSE i \in lines : \A j \in lines : \/ width(j) < width(i)
                                                      \/ width(j) = width(i) /\ j <= i
    IN IF lines = {} THEN None
       ELSE IF Len(file.lines[best]) > 1 THEN file.lines[best][2] ELSE "1"

\* load is [sources, disk, block]; the last source of a type and name counts.
Faithful(load, keys, addrs) ==
    LET limits == FromConfig(load.block)
        store == LoadDataSources(load.sources, load.disk, limits)
        last == {i \in DOMAIN load.sources :
                   \A j \in DOMAIN load.sources :
                       /\ load.sources[j].name = load.sources[i].name
                       /\ load.sources[j].type = load.sources[i].type
                       => j <= i}
    IN store # None => \A i \in last :
           LET ds == load.sources[i]
               file == load.disk[ds.path]
           IN /\ file.bytes <= EffectiveFor(limits, ds).file
              /\ ds.type = "csv" => \A k \in keys : Lookup(store, ds.name, k) = CsvSays(file, ds, k)
              /\ ds.type = "cidr" => \A a \in addrs : LookupIp(store, ds.name, a) = CidrSays(file, a)
=============================================================================
