-------------------------------- MODULE Table -------------------------------
(***************************************************************************)
(* rapidudf/table/table.h and .cc with row.h and .cc: a table is one list   *)
(* of row pointers per row schema and a cache of columns.  A column is      *)
(* filled from the rows when it is first read; whatever changes the rows    *)
(* unloads the columns, which sets their size to 0 and keeps their memory.  *)
(* filter, order_by, topk, head, tail, concat and group_by return clones    *)
(* with an empty cache.                                                     *)
(*                                                                          *)
(* A column is Null (no memory yet), <<>> (memory, size 0) or its values.   *)
(* The capacity of its memory is left out: a load overwrites all it shows.  *)
(* indices_ is left out: it is 0, 1, 2 ... whenever it is read.  The caller *)
(* holds the tables in the variables Tab and stores results in any of them. *)
(*                                                                          *)
(* A refused AddRows or InsertRow may leave its rows in the first row lists *)
(* and not in the last, and the caller may call either again.  Nothing in   *)
(* the code knows of it.  The operations that walk all row lists by Count() *)
(* index the shorter ones past their end, or cut each list by itself: they  *)
(* are left out for such a table.                                           *)
(***************************************************************************)
EXTENDS Integers, Sequences, FiniteSets, SequencesExt

CONSTANTS Tab,         \* the caller's table pointers
          NumSchemas,  \* row schemas of the table schema
          Obj,         \* Obj[s]: the row objects of schema s
          Col,         \* the columns
          ColSchema,   \* ColSchema[c]: the row schema that column c belongs to
          Field,       \* Field[c][o]: what row object o holds for column c
          Batch,       \* Batch[s]: the lists of rows of schema s given to AddRows
          KeySources,  \* where the callers of OrderBy and Topk take their keys from
          MaxRows,     \* bound: rows of a table
          Null

Schema == 1..NumSchemas

ASSUME TableAssumption ==
    /\ NumSchemas \in Nat \ {0} /\ MaxRows \in Nat
    /\ IsFiniteSet(Col) /\ ColSchema \in [Col -> Schema]
    /\ \A c \in Col : Field[c] \in [Obj[ColSchema[c]] -> Int]
    /\ \A s \in Schema : Batch[s] \subseteq Seq(Obj[s]) \ {<<>>}
    /\ KeySources \subseteq {"copy", "own", "name"}
    /\ Null \notin Seq(Int)

VARIABLES rows_,    \* rows_[t][s]: the row objects of schema s
          column,   \* column[t][c]: the cache
          torn      \* torn[t]: the rows of refused calls in the first row list (history)

tableVars == <<rows_, column, torn>>

NewColumns == [c \in Col |-> Null]

TableInit ==
    /\ rows_ = [t \in Tab |-> [s \in Schema |-> <<>>]]
    /\ column = [t \in Tab |-> NewColumns]
    /\ torn = [t \in Tab |-> 0]

-----------------------------------------------------------------------------
Count(t) == Len(rows_[t][1])

(* What column c should hold: the field of each row, in the order of the rows. *)
Fields(t, c) == [i \in DOMAIN rows_[t][ColSchema[c]] |-> Field[c][rows_[t][ColSchema[c]][i]]]

(* GetColumnMemory allocates nothing for a table without rows. *)
LoadColumn(t, c) == IF Count(t) = 0 THEN column[t][c] ELSE Fields(t, c)

NeedsLoad(t, c) == column[t][c] \in {Null, <<>>}

(* What GetColumnByOffset returns, and the cache after it was called for cs. *)
Loaded(t, c) == IF NeedsLoad(t, c) THEN LoadColumn(t, c) ELSE column[t][c]

LoadedColumns(t, cs) == [c \in Col |-> IF c \in cs THEN Loaded(t, c) ELSE column[t][c]]

(* Get: a column with memory is returned as it is. *)
GetResult(t, c) == IF column[t][c] = Null THEN LoadColumn(t, c) ELSE column[t][c]

UnloadedColumns(t) == [c \in Col |-> IF column[t][c] = Null THEN Null ELSE <<>>]

Get(t, c) ==
    /\ torn[t] = 0
    /\ column' = [column EXCEPT ![t][c] = GetResult(t, c)]
    /\ UNCHANGED <<rows_, torn>>

GetColumnByOffset(t, c) ==
    /\ torn[t] = 0
    /\ column' = [column EXCEPT ![t][c] = Loaded(t, c)]
    /\ UNCHANGED <<rows_, torn>>

UnloadColumn(t, c) ==
    /\ column' = [column EXCEPT ![t][c] = UnloadedColumns(t)[c]]
    /\ UNCHANGED <<rows_, torn>>

UnloadAllColumns(t) ==
    /\ column' = [column EXCEPT ![t] = UnloadedColumns(t)]
    /\ UNCHANGED <<rows_, torn>>

-----------------------------------------------------------------------------
(* AddRows gets one list of rows per schema, in the order of the schemas.     *)
(* DoAddRows appends them one by one and stops at the first that does not     *)
(* fit; the lists appended until then stay, and the columns stay loaded.      *)
Misfits(parts) ==
    {i \in DOMAIN parts : parts[i].schema # i \/ Len(parts[i].objs) # Len(parts[1].objs)}

(* Mutant: a list that does not fit is passed over. *)
AcceptedFitting(parts) == DOMAIN parts \ Misfits(parts)

Accepted(parts) ==
    {i \in DOMAIN parts : \A j \in Misfits(parts) : i < j}

LeftHalf(reached, n) == IF reached \in {{}, Schema} THEN 0 ELSE n

(* Mutant: the columns stay loaded. *)
AddRowsKeepingColumns(t, parts) ==
    /\ Count(t) + Len(parts[1].objs) <= MaxRows
    /\ rows_' = [rows_ EXCEPT ![t] =
         [s \in Schema |-> IF s \in Accepted(parts) THEN @[s] \o parts[s].objs ELSE @[s]]]
    /\ torn' = [torn EXCEPT ![t] = @ + LeftHalf(Accepted(parts), Len(parts[1].objs))]
    /\ UNCHANGED column

AddRows(t, parts) ==
    /\ Count(t) + Len(parts[1].objs) <= MaxRows
    /\ rows_' = [rows_ EXCEPT ![t] =
         [s \in Schema |-> IF s \in Accepted(parts) THEN @[s] \o parts[s].objs ELSE @[s]]]
    /\ torn' = [torn EXCEPT ![t] = @ + LeftHalf(Accepted(parts), Len(parts[1].objs))]
    /\ column' = IF Accepted(parts) = Schema THEN [column EXCEPT ![t] = UnloadedColumns(t)]
                                             ELSE column

(* Mutant: Rows::Insert does not look at the position. *)
InsertedUnchecked(t, pos, parts) == {i \in DOMAIN parts : \A j \in 1..i : parts[j].schema = j}

(* The lists that InsertRow reaches before a wrong schema, or a list with no  *)
(* such place, stops it.                                                      *)
Inserted(t, pos, parts) ==
    {i \in DOMAIN parts : \A j \in 1..i : parts[j].schema = j /\ pos <= Len(rows_[t][j])}

(* Past the end there is memory that is no row. *)
Spliced(s, pos, objs) ==
    [i \in 1..pos |-> IF i \in DOMAIN s THEN s[i] ELSE Null] \o objs \o SubSeq(s, pos + 1, Len(s))

(* InsertRow, and AppendRow with pos = Count(): one row object per schema. *)
InsertRow(t, pos, parts) ==
    LET reached == Inserted(t, pos, parts) IN
    /\ Count(t) < MaxRows
    /\ rows_' = [rows_ EXCEPT ![t] =
         [s \in Schema |-> IF s \in reached THEN Spliced(@[s], pos, parts[s].objs) ELSE @[s]]]
    /\ torn' = [torn EXCEPT ![t] = @ + LeftHalf(reached, 1)]
    /\ column' = IF reached = Schema THEN [column EXCEPT ![t] = UnloadedColumns(t)] ELSE column

-----------------------------------------------------------------------------
(* The operations that return a clone.  Clone copies the rows and has no      *)
(* columns; u is where the caller keeps the result.                           *)
Gather(t, p) == [s \in Schema |-> [i \in DOMAIN p |-> rows_[t][s][p[i]]]]

Clone(t, u, newRows, newColumns) ==
    /\ torn[t] = 0
    /\ rows_' = [rows_ EXCEPT ![u] = newRows]
    /\ column' = [column EXCEPT ![t] = newColumns, ![u] = NewColumns]
    /\ torn' = [torn EXCEPT ![u] = 0]

(* The numbers of a set in ascending order: rows are taken in a loop over them. *)
InOrder(S) ==
    CHOOSE p \in [1..Cardinality(S) -> S] : \A i, j \in DOMAIN p : i < j => p[i] < p[j]

(* The rows that a mask selects, in order. *)
Selected(t, bits) == InOrder({i \in 1..Count(t) : i \in bits})

Filter(t, u, bits) ==
    /\ bits \subseteq 1..Count(t)
    /\ Clone(t, u, Gather(t, Selected(t, bits)), column[t])

(* Split: the filter and its complement. *)
Split(t, u, v, bits) ==
    /\ torn[t] = 0 /\ u # v /\ bits \subseteq 1..Count(t)
    /\ rows_' = [rows_ EXCEPT ![u] = Gather(t, Selected(t, bits)),
                              ![v] = Gather(t, Selected(t, 1..Count(t) \ bits))]
    /\ column' = [column EXCEPT ![u] = NewColumns, ![v] = NewColumns]
    /\ torn' = [torn EXCEPT ![u] = 0, ![v] = 0]

(* Head and Tail of at least Count() rows return the table itself. *)
HeadRows(t, u, k) ==
    k < Count(t) /\ Clone(t, u, Gather(t, [i \in 1..k |-> i]), column[t])

(* Truncate(pos, k) leaves the list alone when pos is its end: the tail of no *)
(* rows is every row.                                                         *)
TailRows(t, u, k) ==
    LET n == IF k = 0 THEN Count(t) ELSE k IN
    /\ k < Count(t)
    /\ Clone(t, u, Gather(t, [i \in 1..n |-> Count(t) - n + i]), column[t])

Concat(t, u, other) ==
    /\ torn[other] = 0 /\ Count(t) + Count(other) <= MaxRows
    /\ Clone(t, u, [s \in Schema |-> rows_[t][s] \o rows_[other][s]], column[t])

-----------------------------------------------------------------------------
(* simd_vector_sort_key_value and simd_vector_topk_key_value sort a key       *)
(* vector in place and permute the indices with it; equal keys in any order.  *)
Orders == [n \in 0..MaxRows |-> {p \in [1..n -> 1..n] : \A i, j \in 1..n : p[i] = p[j] => i = j}]

Before(x, y, descending) == IF descending THEN x >= y ELSE x <= y

(* The first k places of p are the first k of the order, in order. *)
Ranks(key, p, k, descending) ==
    \A i, j \in DOMAIN p : i < j /\ i <= k => Before(key[p[i]], key[p[j]], descending)

(* The key is a vector that the caller computed ("copy"), the column that     *)
(* table.col returns, which shares the memory of the cache ("own"), or the    *)
(* cached column that OrderBy(StringView) takes as it finds it ("name").  An  *)
(* unloaded column sorts nothing.  So does one without memory if it was read  *)
(* while the table was empty; otherwise it is readonly and the call throws.   *)
ColumnsForSort(t, c, how) == IF how = "name" THEN column[t] ELSE LoadedColumns(t, {c})

Sorted(key, p) == IF key \in {Null, <<>>} THEN key ELSE [i \in DOMAIN key |-> key[p[i]]]

(* The orders of the rows that a sort of the first k by this key can give. *)
SortOrders(t, key, k, descending) ==
    {p \in Orders[Count(t)] :
       IF key \in {Null, <<>>} THEN \A i \in DOMAIN p : p[i] = i ELSE Ranks(key, p, k, descending)}

(* OrderBy is the Topk of all rows. *)
Topk(t, u, c, k, how, descending) ==
    LET columns == ColumnsForSort(t, c, how) IN
    /\ torn[t] = 0 /\ k <= Count(t) /\ (how = "name" => k = Count(t))
    /\ \E result \in {[rows    |-> Gather(t, SubSeq(p, 1, k)),
                        columns |-> [columns EXCEPT ![c] = IF how = "copy" THEN @ ELSE Sorted(@, p)]] :
                       p \in SortOrders(t, columns[c], k, descending)} :
         Clone(t, u, result.rows, result.columns)

-----------------------------------------------------------------------------
(* DistinctByColumns: the rows with the same key in the columns cs, the first *)
(* row of the group apart.                                                    *)
KeyOf(t, cs, i) == [c \in cs |-> Loaded(t, c)[i]]

Firsts(t, cs) ==
    {i \in 1..Count(t) : \A j \in 1..(i - 1) : KeyOf(t, cs, j) # KeyOf(t, cs, i)}

Duplicates(t, cs, i) == {j \in (i + 1)..Count(t) : KeyOf(t, cs, j) = KeyOf(t, cs, i)}

(* Mutant: the first row of the group is forgotten. *)
GroupOfDuplicates(t, cs, i) == InOrder(Duplicates(t, cs, i))

(* GroupBy(columns) puts the first row of a group last. *)
Group(t, cs, i) == Append(InOrder(Duplicates(t, cs, i)), i)

(* SubTable also gathers the columns that are loaded.  GroupBy makes one for  *)
(* every group; the caller keeps one of them.                                 *)
SubTable(t, u, p, columns) ==
    /\ rows_' = [rows_ EXCEPT ![u] = Gather(t, p)]
    /\ column' = [column EXCEPT ![t] = columns,
         ![u] = [c \in Col |-> IF columns[c] \in {Null, <<>>} THEN Null
                                                             ELSE [k \in DOMAIN p |-> columns[c][p[k]]]]]
    /\ torn' = [torn EXCEPT ![u] = 0]

GroupBy(t, u, cs) ==
    torn[t] = 0 /\ \E i \in Firsts(t, cs) : SubTable(t, u, Group(t, cs, i), LoadedColumns(t, cs))

(* GroupBy(Vector) of the column table.col: a group in the order of its rows. *)
GroupByVector(t, u, c) ==
    torn[t] = 0 /\ \E i \in Firsts(t, {c}) :
        SubTable(t, u, <<i>> \o InOrder(Duplicates(t, {c}, i)), LoadedColumns(t, {c}))

(* Dedup(column, k): the mask of the first k rows of every value. *)
Dedup(t, c, k) ==
    {i \in 1..Count(t) :
       Cardinality({j \in 1..(i - 1) : KeyOf(t, {c}, j) = KeyOf(t, {c}, i)}) < k}

(* Mutant: a row is kept when it is the first in one of the columns. *)
DistinctMaskAny(t, cs) == UNION {Dedup(t, c, 1) : c \in cs}

(* Distinct keeps a row that is the first of its value in every column. *)
DistinctMask(t, cs) == {i \in 1..Count(t) : \A c \in cs : i \in Dedup(t, c, 1)}

Distinct(t, cs) ==
    /\ torn[t] = 0
    /\ rows_' = [rows_ EXCEPT ![t] = Gather(t, Selected(t, DistinctMask(t, cs)))]
    /\ column' = [column EXCEPT ![t] =
         [c \in Col |-> IF LoadedColumns(t, cs)[c] = Null THEN Null ELSE <<>>]]
    /\ UNCHANGED torn

(* Distinct with a merge function, here one that keeps the existing row or    *)
(* takes the duplicate: one row per key, in the order of a hash map.          *)
Merged(t, cs) ==
    {q \in [1..Cardinality(Firsts(t, cs)) -> 1..Count(t)] :
       \A i \in Firsts(t, cs) : \E k \in DOMAIN q : q[k] \in {i} \cup Duplicates(t, cs, i)}

DistinctMerge(t, cs) ==
    /\ torn[t] = 0
    /\ \E p \in Merged(t, cs) : rows_' = [rows_ EXCEPT ![t] = Gather(t, p)]
    /\ column' = [column EXCEPT ![t] =
         [c \in Col |-> IF LoadedColumns(t, cs)[c] = Null THEN Null ELSE <<>>]]
    /\ UNCHANGED torn

-----------------------------------------------------------------------------
(* The arguments of AddRows and InsertRow: row objects of the schemas in any order. *)
Parts(lists) == [Schema -> UNION {[schema : {s}, objs : lists[s]] : s \in Schema}]

Singles == [s \in Schema |-> {<<o>> : o \in Obj[s]}]

InPlace(t) ==
    \/ \E c \in Col : Get(t, c) \/ GetColumnByOffset(t, c) \/ UnloadColumn(t, c)
    \/ UnloadAllColumns(t)
    \/ \E parts \in Parts(Batch) : AddRows(t, parts)
    \/ \E pos \in 0..MaxRows, parts \in Parts(Singles) : InsertRow(t, pos, parts)
    \/ \E cs \in (SUBSET Col) \ {{}} : Distinct(t, cs) \/ DistinctMerge(t, cs)

Returning(t, u) ==
    \/ \E bits \in SUBSET (1..MaxRows) : Filter(t, u, bits) \/ \E v \in Tab : Split(t, u, v, bits)
    \/ \E k \in 0..MaxRows : HeadRows(t, u, k) \/ TailRows(t, u, k)
    \/ \E other \in Tab : Concat(t, u, other)
    \/ \E c \in Col : GroupByVector(t, u, c)
    \/ \E cs \in (SUBSET Col) \ {{}} : GroupBy(t, u, cs)
    \/ \E c \in Col, k \in 0..MaxRows, how \in KeySources, descending \in BOOLEAN :
         Topk(t, u, c, k, how, descending)

TableNext == \E t \in Tab : InPlace(t) \/ \E u \in Tab : Returning(t, u)

TableSpec == TableInit /\ [][TableNext]_tableVars

-----------------------------------------------------------------------------
(* A row list holds row objects of its schema, also after an InsertRow at a   *)
(* position past the end was refused.                                         *)
TableTypeOK ==
    /\ \A t \in Tab, s \in Schema : rows_[t][s] \in Seq(Obj[s]) /\ Len(rows_[t][s]) <= MaxRows
    /\ \A t \in Tab, c \in Col : column[t][c] # Null => column[t][c] \in Seq(Int)
    /\ torn \in [Tab -> Nat]

(* A table that no AddRows or InsertRow was refused on has as many row        *)
(* objects of one schema as of another.  Refused calls, and calls after them, *)
(* leave row lists that differ by no more than the rows the refused ones put  *)
(* in: the last list holds the rows of completed calls, every other these and *)
(* at most the others.                                                        *)
RowsAligned ==
    \A t \in Tab :
        /\ Len(rows_[t][NumSchemas]) = Count(t) - torn[t]
        /\ \A s \in Schema : Len(rows_[t][s]) \in (Count(t) - torn[t])..Count(t)

(* A loaded column shows the fields of the rows the table has now, in their   *)
(* order, whatever was added, inserted, removed, unloaded or grouped since it *)
(* was read.                                                                  *)
ColumnsMatchRows ==
    \A t \in Tab, c \in Col :
        torn[t] = 0 => column[t][c] \in {Null, <<>>, Fields(t, c)}

(* GroupBy puts two rows into one group exactly if they agree in the columns  *)
(* given, and every row into one group.                                       *)
GroupsAreClasses ==
    \A t \in Tab, cs \in (SUBSET Col) \ {{}} : torn[t] = 0 =>
        LET groups == {Group(t, cs, i) : i \in Firsts(t, cs)} IN
        /\ \A i \in 1..Count(t) : \E g \in groups : i \in ToSet(g)
        /\ \A i, j \in 1..Count(t) :
             (\E g \in groups : {i, j} \subseteq ToSet(g))
                <=> (\A c \in cs : Fields(t, c)[i] = Fields(t, c)[j])

(* Distinct leaves no two rows that agree in one of the columns, and over one *)
(* column it loses no value.  With a merge function it leaves one row for     *)
(* every key of the columns together.                                         *)
DistinctKeys ==
    \A t \in Tab, cs \in (SUBSET Col) \ {{}} : torn[t] = 0 =>
        LET Key(i) == [c \in cs |-> Fields(t, c)[i]]
            Keys   == {Key(i) : i \in 1..Count(t)}
            kept   == DistinctMask(t, cs) IN
        /\ \A i, j \in kept : i # j => \A c \in cs : Key(i)[c] # Key(j)[c]
        /\ Cardinality(cs) = 1 => {Key(i) : i \in kept} = Keys
        /\ \A p \in Merged(t, cs) :
             Cardinality(Keys) = Len(p) /\ {Key(p[k]) : k \in DOMAIN p} = Keys

(* simd_table_test: what Get returns has an entry for each row of the table,  *)
(* the field of that row.  This does not hold for a column that was loaded    *)
(* and unloaded again: Get reloads only one without memory.                   *)
GetIsWhole ==
    \A t \in Tab, c \in Col :
        torn[t] = 0 /\ Count(t) > 0 => GetResult(t, c) = Fields(t, c)

(* What a caller would expect of a refused AddRows or InsertRow, which checks *)
(* the row lists one by one: it leaves the table with the rows it had.  This  *)
(* does not hold: the lists before the one that is refused have grown.        *)
RefusedLeavesAligned == \A t \in Tab, s \in Schema : Len(rows_[t][s]) = Count(t)
=============================================================================
