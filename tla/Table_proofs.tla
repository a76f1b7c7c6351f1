---------------------------- MODULE Table_proofs ----------------------------
(***************************************************************************)
(* Proofs about tables, for any number of tables, row schemas, columns and *)
(* rows: the row lists of a table stay aligned under every sequence of the *)
(* operations, and, while the callers of OrderBy and Topk sort keys of     *)
(* their own, the cached columns show the rows, groups are classes, sorts  *)
(* follow the rows and Distinct keeps one row per key.                     *)
(***************************************************************************)
EXTENDS Table, FiniteSetTheorems, SequenceTheorems, WellFoundedInduction, TLAPS

-----------------------------------------------------------------------------
(* Rows in order: InOrder lists a set of numbers. *)

LEMMA FcnIsSeq ==
    ASSUME NEW n \in Nat, NEW S, NEW f \in [1..n -> S]
    PROVE  f \in Seq(S) /\ Len(f) = n /\ DOMAIN f = 1..n /\ \A i \in 1..n : f[i] \in S
OBVIOUS

LEMMA SeqFacts ==
    ASSUME NEW S, NEW p \in Seq(S)
    PROVE  Len(p) \in Nat /\ DOMAIN p = 1..Len(p) /\ \A i \in 1..Len(p) : p[i] \in S
OBVIOUS

LEMMA LeastElement ==
    ASSUME NEW T \in SUBSET Nat, T # {}
    PROVE  \E i \in T : \A j \in T : i <= j
<1>1. PICK i \in T : \A j \in T : ~ (<<j, i>> \in OpToRel(<, Nat))
    BY NatLessThanWellFounded, WFMin
<1>2. \A j \in T : ~ (j < i)
    BY <1>1 DEF OpToRel
<1> QED
    BY <1>2

Ascending(p) == \A i, j \in DOMAIN p : i < j => p[i] < p[j]

CanSort(n) ==
    \A S \in SUBSET Nat : IsFiniteSet(S) /\ Cardinality(S) = n =>
        \E p \in [1..n -> S] : Ascending(p)

(* Every finite set of numbers can be listed in order: take the least away    *)
(* and list the rest; a smallest set for which that fails does not exist.     *)
LEMMA AllCanSort == \A n \in Nat : CanSort(n)
<1> SUFFICES ASSUME NEW k \in Nat, ~CanSort(k) PROVE FALSE
    OBVIOUS
<1> DEFINE Bad == {n \in Nat : ~CanSort(n)}
<1>1. Bad \in SUBSET Nat /\ Bad # {}
    OBVIOUS
<1>2. PICK n \in Bad : \A j \in Bad : n <= j
    BY <1>1, LeastElement
<1>3. n \in Nat /\ ~CanSort(n)
    BY <1>2
<1>4. PICK S \in SUBSET Nat : /\ IsFiniteSet(S) /\ Cardinality(S) = n
                              /\ ~ \E p \in [1..n -> S] : Ascending(p)
    BY <1>3 DEF CanSort
<1>5. CASE n = 0
    <2> DEFINE p == [i \in 1..0 |-> i]
    <2>1. p \in [1..n -> S] /\ Ascending(p)
        BY <1>5 DEF Ascending
    <2> QED
        BY <2>1, <1>4
<1>6. CASE n > 0
    <2>1. S # {}
        BY <1>4, <1>6, FS_EmptySet
    <2>2. PICK m \in S : \A j \in S : m <= j
        BY <2>1, LeastElement
    <2> DEFINE R == S \ {m}
    <2>3. R \in SUBSET Nat /\ IsFiniteSet(R) /\ Cardinality(R) = n - 1
        BY <1>4, <2>2, FS_RemoveElement
    <2>4. n - 1 \in Nat /\ n - 1 \notin Bad
        BY <1>2, <1>3, <1>6
    <2>5. CanSort(n - 1)
        BY <2>4
    <2>6. PICK q \in [1..(n - 1) -> R] : Ascending(q)
        BY <2>3, <2>5 DEF CanSort
    <2> DEFINE p == [i \in 1..n |-> IF i = 1 THEN m ELSE q[i - 1]]
    <2>7. \A i \in 1..n : i # 1 => i - 1 \in 1..(n - 1) /\ q[i - 1] \in R
        BY <1>3, <2>6
    <2>8. p \in [1..n -> S]
        BY <2>2, <2>7
    <2>9. \A x \in R : m < x
        BY <2>2
    <2>10. ASSUME NEW i \in 1..n, NEW j \in 1..n, i < j PROVE p[i] < p[j]
        <3>1. j # 1 /\ j - 1 \in 1..(n - 1) /\ q[j - 1] \in R /\ p[j] = q[j - 1]
            BY <2>10, <2>7, <1>3
        <3>2. CASE i = 1
            BY <3>1, <3>2, <2>9
        <3>3. CASE i # 1
            <4>1. i - 1 \in 1..(n - 1) /\ i - 1 < j - 1 /\ p[i] = q[i - 1]
                BY <3>3, <2>7, <2>10, <1>3
            <4> QED
                BY <3>1, <4>1, <2>6 DEF Ascending
        <3> QED
            BY <3>2, <3>3
    <2> HIDE DEF p
    <2>11. Ascending(p)
        BY <2>8, <2>10 DEF Ascending
    <2> QED
        BY <2>8, <2>11, <1>4
<1> QED
    BY <1>3, <1>5, <1>6

LEMMA InOrderFacts ==
    ASSUME NEW n \in Nat, NEW S \in SUBSET (1..n)
    PROVE  /\ IsFiniteSet(S) /\ Cardinality(S) \in Nat /\ Cardinality(S) <= n
           /\ InOrder(S) \in Seq(S) /\ Len(InOrder(S)) = Cardinality(S)
           /\ ToSet(InOrder(S)) = S
<1> DEFINE p == InOrder(S)
           m == Cardinality(S)
<1>1. IsFiniteSet(1..n) /\ Cardinality(1..n) = n
    BY FS_Interval
<1>2. IsFiniteSet(S) /\ m \in Nat /\ m <= n
    BY <1>1, FS_Subset, FS_CardinalityType
<1>3. S \in SUBSET Nat
    OBVIOUS
<1>4. \E q \in [1..m -> S] : Ascending(q)
    BY <1>2, <1>3, AllCanSort DEF CanSort
<1>5. p \in [1..m -> S] /\ Ascending(p)
    BY <1>4 DEF InOrder, Ascending
<1> HIDE DEF p, m
<1>6. p \in Injection(1..m, S)
    <2>1. \A i, j \in 1..m : p[i] = p[j] => i = j
        <3> SUFFICES ASSUME NEW i \in 1..m, NEW j \in 1..m, p[i] = p[j] PROVE i = j
            OBVIOUS
        <3>1. p[i] \in Nat /\ p[j] \in Nat /\ i \in Nat /\ j \in Nat
            <4>1. p[i] \in S /\ p[j] \in S
                BY <1>5
            <4>2. p[i] \in Nat /\ p[j] \in Nat
                BY <4>1, <1>3, Zenon
            <4>3. i \in Nat /\ j \in Nat
                BY <1>2
            <4> QED
                BY <4>2, <4>3
        <3>2. ~(i < j) /\ ~(j < i)
            BY <1>5, <3>1 DEF Ascending
        <3> QED
            BY <3>1, <3>2
    <2> QED
        BY <1>5, <2>1 DEF Injection, IsInjective
<1>7. Cardinality(1..m) = m
    BY <1>2, FS_Interval
<1>8. p \in Surjection(1..m, S)
    BY <1>2, <1>6, <1>7, FS_Injection DEF m
<1>9. p \in Seq(S) /\ Len(p) = m /\ DOMAIN p = 1..m
    BY <1>2, <1>5
<1>10. ToSet(p) = S
    BY <1>5, <1>8, <1>9 DEF ToSet, Surjection
<1> QED
    BY <1>2, <1>9, <1>10 DEF p, m

-----------------------------------------------------------------------------
(* The inductive invariant, of the rows r, the columns ds and the count b of  *)
(* rows that refused calls left in one table.                                 *)

AnyObj == UNION {Obj[s] : s \in Schema}
RowsType == [Schema -> Seq(AnyObj)]
ColumnsType == [Col -> Seq(Int) \cup {Null}]

RowsTyped(r) ==
    r \in RowsType /\ \A s \in Schema : r[s] \in Seq(Obj[s]) /\ Len(r[s]) <= MaxRows

Aligned(r) == \A s \in Schema : Len(r[s]) = Len(r[1])

(* The last row list is b rows shorter than the first, the others between.    *)
WithinRefused(r, b) ==
    /\ Len(r[NumSchemas]) = Len(r[1]) - b
    /\ \A s \in Schema : Len(r[1]) - b <= Len(r[s]) /\ Len(r[s]) <= Len(r[1])

FieldsOf(r, c) == [i \in DOMAIN r[ColSchema[c]] |-> Field[c][r[ColSchema[c]][i]]]

(* A loaded column has an entry for each row. *)
Sized(r, ds) == \A c \in Col : ds[c] \in {Null, <<>>} \/ Len(ds[c]) = Len(r[1])

Match(r, ds) == \A c \in Col : ds[c] \in {Null, <<>>, FieldsOf(r, c)}

OwnKeys == KeySources \subseteq {"copy"}

Fits(r, ds) == Aligned(r) /\ Sized(r, ds) /\ (OwnKeys => Match(r, ds))

Sound(r, ds, b) ==
    /\ RowsTyped(r) /\ ds \in ColumnsType /\ b \in Nat
    /\ WithinRefused(r, b)
    /\ b = 0 => Fits(r, ds)

TableInv ==
    /\ rows_ \in [Tab -> RowsType] /\ column \in [Tab -> ColumnsType]
    /\ torn \in [Tab -> Nat]
    /\ \A t \in Tab : Sound(rows_[t], column[t], torn[t])

-----------------------------------------------------------------------------
(* Rows and columns of one table. *)

LEMMA SchemaFacts ==
    /\ 1 \in Schema /\ NumSchemas \in Schema
    /\ \A c \in Col : ColSchema[c] \in Schema
    /\ \A s \in Schema : Obj[s] \subseteq AnyObj /\ Seq(Obj[s]) \subseteq Seq(AnyObj)
<1>1. 1 \in Schema /\ NumSchemas \in Schema /\ \A c \in Col : ColSchema[c] \in Schema
    BY TableAssumption DEF Schema
<1>2. \A s \in Schema : Obj[s] \subseteq AnyObj
    BY DEF AnyObj
<1> QED
    BY <1>1, <1>2

LEMMA RowsFacts ==
    ASSUME NEW r, RowsTyped(r), NEW s \in Schema
    PROVE  /\ r[s] \in Seq(Obj[s]) /\ r[s] \in Seq(AnyObj)
           /\ Len(r[s]) \in Nat /\ Len(r[s]) <= MaxRows
           /\ DOMAIN r[s] = 1..Len(r[s]) /\ \A i \in 1..Len(r[s]) : r[s][i] \in Obj[s]
BY SchemaFacts DEF RowsTyped

LEMMA FieldsFacts ==
    ASSUME NEW r, RowsTyped(r), NEW c \in Col
    PROVE  /\ FieldsOf(r, c) \in Seq(Int)
           /\ Len(FieldsOf(r, c)) = Len(r[ColSchema[c]])
           /\ \A i \in 1..Len(r[ColSchema[c]]) :
                 FieldsOf(r, c)[i] = Field[c][r[ColSchema[c]][i]]
<1> DEFINE s == ColSchema[c]
           n == Len(r[s])
<1>1. s \in Schema /\ Field[c] \in [Obj[s] -> Int]
    BY SchemaFacts, TableAssumption
<1>2. n \in Nat /\ DOMAIN r[s] = 1..n /\ \A i \in 1..n : r[s][i] \in Obj[s]
    BY <1>1, RowsFacts
<1>3. FieldsOf(r, c) = [i \in 1..n |-> Field[c][r[s][i]]]
    BY <1>2 DEF FieldsOf
<1>4. \A i \in 1..n : Field[c][r[s][i]] \in Int
    BY <1>1, <1>2
<1> HIDE DEF n, s
<1>5. FieldsOf(r, c) \in [1..n -> Int]
    BY <1>3, <1>4
<1>6. FieldsOf(r, c) \in Seq(Int) /\ Len(FieldsOf(r, c)) = n
    BY <1>2, <1>5
<1> QED
    BY <1>3, <1>6 DEF n, s

(* Loading and unloading columns: each keeps its values, gets the fields of   *)
(* the rows, or is emptied.                                                   *)
LEMMA ColumnsFit ==
    ASSUME NEW r, NEW ds, RowsTyped(r), ds \in ColumnsType, Fits(r, ds),
           NEW es, es = [c \in Col |-> es[c]],
           \A c \in Col : es[c] \in {ds[c], FieldsOf(r, c), Null, <<>>}
    PROVE  es \in ColumnsType /\ Fits(r, es)
<1>1. \A c \in Col : FieldsOf(r, c) \in Seq(Int) /\ Len(FieldsOf(r, c)) = Len(r[1])
    BY FieldsFacts, SchemaFacts DEF Fits, Aligned
<1>2. \A c \in Col : es[c] \in Seq(Int) \cup {Null}
    <2> SUFFICES ASSUME NEW c \in Col PROVE es[c] \in Seq(Int) \cup {Null}
        OBVIOUS
    <2>1. ds[c] \in Seq(Int) \cup {Null} /\ <<>> \in Seq(Int)
        BY DEF ColumnsType
    <2>2. es[c] \in {ds[c], FieldsOf(r, c), Null, <<>>}
        OBVIOUS
    <2> QED
        BY <1>1, <2>1, <2>2
<1>3. es \in ColumnsType
    BY <1>2 DEF ColumnsType
<1>4. Sized(r, es)
    <2> SUFFICES ASSUME NEW c \in Col PROVE es[c] \in {Null, <<>>} \/ Len(es[c]) = Len(r[1])
        BY DEF Sized
    <2>1. ds[c] \in {Null, <<>>} \/ Len(ds[c]) = Len(r[1])
        BY DEF Fits, Sized
    <2>2. es[c] \in {ds[c], FieldsOf(r, c), Null, <<>>}
        OBVIOUS
    <2> QED
        BY <1>1, <2>1, <2>2
<1>5. ASSUME OwnKeys PROVE Match(r, es)
    <2> SUFFICES ASSUME NEW c \in Col PROVE es[c] \in {Null, <<>>, FieldsOf(r, c)}
        BY DEF Match
    <2>1. ds[c] \in {Null, <<>>, FieldsOf(r, c)}
        BY <1>5 DEF Fits, Match
    <2>2. es[c] \in {ds[c], FieldsOf(r, c), Null, <<>>}
        OBVIOUS
    <2> QED
        BY <2>1, <2>2
<1> QED
    BY <1>3, <1>4, <1>5 DEF Fits

(* Columns that are all empty fit any aligned rows. *)
LEMMA EmptyColumnsFit ==
    ASSUME NEW r, Aligned(r), NEW es, es = [c \in Col |-> es[c]],
           \A c \in Col : es[c] \in {Null, <<>>}
    PROVE  es \in ColumnsType /\ Fits(r, es)
<1>1. <<>> \in Seq(Int)
    OBVIOUS
<1>2. \A c \in Col : es[c] \in Seq(Int) \cup {Null}
    BY <1>1
<1>3. es \in ColumnsType
    BY <1>2 DEF ColumnsType
<1> QED
    BY <1>3 DEF Fits, Sized, Match

LEMMA NewColumnsFit ==
    ASSUME NEW r, Aligned(r)
    PROVE  NewColumns \in ColumnsType /\ Fits(r, NewColumns)
<1>1. NewColumns = [c \in Col |-> NewColumns[c]] /\ \A c \in Col : NewColumns[c] \in {Null, <<>>}
    BY DEF NewColumns
<1> QED
    BY <1>1, EmptyColumnsFit

(* A table with row lists of one length is as if no call had been refused. *)
LEMMA FitsSound ==
    ASSUME NEW r, NEW ds, RowsTyped(r), ds \in ColumnsType, Fits(r, ds)
    PROVE  Sound(r, ds, 0)
<1>1. Len(r[1]) \in Nat /\ \A s \in Schema : Len(r[s]) = Len(r[1])
    BY RowsFacts, SchemaFacts DEF Fits, Aligned
<1>2. WithinRefused(r, 0)
    BY <1>1, SchemaFacts DEF WithinRefused
<1> QED
    BY <1>2 DEF Sound

(* Taking the rows of the places p out of every row list. *)
GatherOf(r, p) == [s \in Schema |-> [i \in DOMAIN p |-> r[s][p[i]]]]

LEMMA GatherFacts ==
    ASSUME NEW r, RowsTyped(r), Aligned(r), NEW p \in Seq(1..Len(r[1])), Len(p) <= MaxRows
    PROVE  /\ RowsTyped(GatherOf(r, p)) /\ Aligned(GatherOf(r, p))
           /\ Len(GatherOf(r, p)[1]) = Len(p)
           /\ \A s \in Schema : /\ Len(GatherOf(r, p)[s]) = Len(p)
                                /\ \A i \in 1..Len(p) : GatherOf(r, p)[s][i] = r[s][p[i]]
<1> DEFINE g == GatherOf(r, p)
           m == Len(p)
<1>1. m \in Nat /\ DOMAIN p = 1..m /\ \A i \in 1..m : p[i] \in 1..Len(r[1])
    OBVIOUS
<1>2. ASSUME NEW s \in Schema
      PROVE  /\ g[s] \in Seq(Obj[s]) /\ g[s] \in Seq(AnyObj) /\ Len(g[s]) = m
             /\ \A i \in 1..m : g[s][i] = r[s][p[i]]
    <2>1. Len(r[s]) = Len(r[1]) /\ \A i \in 1..Len(r[s]) : r[s][i] \in Obj[s]
        BY RowsFacts DEF Aligned
    <2>2. \A i \in 1..m : r[s][p[i]] \in Obj[s]
        BY <1>1, <2>1
    <2>3. g[s] = [i \in 1..m |-> r[s][p[i]]]
        BY <1>1 DEF GatherOf
    <2> HIDE DEF g, m
    <2>4. g[s] \in [1..m -> Obj[s]]
        BY <2>2, <2>3
    <2>5. g[s] \in Seq(Obj[s]) /\ Len(g[s]) = m
        BY <1>1, <2>4
    <2> QED
        BY <2>3, <2>5, SchemaFacts
<1>3. g = [s \in Schema |-> g[s]]
    BY DEF GatherOf
<1> HIDE DEF g
<1>4. g \in RowsType
    BY <1>2, <1>3 DEF RowsType
<1>5. RowsTyped(g)
    BY <1>2, <1>4 DEF RowsTyped
<1>6. Len(g[1]) = m /\ Aligned(g)
    BY <1>2, SchemaFacts DEF Aligned
<1> QED
    BY <1>2, <1>5, <1>6 DEF g

-----------------------------------------------------------------------------
(* Steps: what has to be shown of the tables that a step changes. *)

LEMMA TableFacts ==
    ASSUME TableInv, NEW t \in Tab
    PROVE  /\ RowsTyped(rows_[t]) /\ column[t] \in ColumnsType /\ torn[t] \in Nat
           /\ Count(t) \in Nat /\ Count(t) <= MaxRows /\ Count(t) = Len(rows_[t][1])
           /\ \A c \in Col : Fields(t, c) = FieldsOf(rows_[t], c)
           /\ torn[t] = 0 => Fits(rows_[t], column[t])
<1>1. Sound(rows_[t], column[t], torn[t])
    BY DEF TableInv
<1>2. RowsTyped(rows_[t]) /\ column[t] \in ColumnsType /\ torn[t] \in Nat
      /\ (torn[t] = 0 => Fits(rows_[t], column[t]))
    BY <1>1 DEF Sound
<1>3. Count(t) = Len(rows_[t][1]) /\ Count(t) \in Nat /\ Count(t) <= MaxRows
    BY <1>2, RowsFacts, SchemaFacts DEF Count
<1>4. \A c \in Col : Fields(t, c) = FieldsOf(rows_[t], c)
    BY DEF Fields, FieldsOf
<1> QED
    BY <1>2, <1>3, <1>4

(* A step that changes one table. *)
LEMMA OneTable ==
    ASSUME TableInv, NEW t \in Tab, NEW r, NEW ds, NEW b,
           rows_' = [rows_ EXCEPT ![t] = r],
           column' = [column EXCEPT ![t] = ds],
           torn' = [torn EXCEPT ![t] = b],
           Sound(r, ds, b)
    PROVE  TableInv'
<1>1. r \in RowsType /\ ds \in ColumnsType /\ b \in Nat
    BY DEF Sound, RowsTyped
<1>2. rows_ \in [Tab -> RowsType] /\ column \in [Tab -> ColumnsType] /\ torn \in [Tab -> Nat]
    BY DEF TableInv
<1>3. rows_' \in [Tab -> RowsType] /\ column' \in [Tab -> ColumnsType]
    BY <1>1, <1>2
<1>4. torn' \in [Tab -> Nat]
    BY <1>1, <1>2
<1>5. ASSUME NEW x \in Tab PROVE Sound(rows_'[x], column'[x], torn'[x])
    <2>1. CASE x = t
        BY <2>1, <1>2
    <2>2. CASE x # t
        <3>1. rows_'[x] = rows_[x] /\ column'[x] = column[x] /\ torn'[x] = torn[x]
            BY <2>2, <1>2
        <3>2. Sound(rows_[x], column[x], torn[x])
            BY DEF TableInv
        <3> QED
            BY <3>1, <3>2
    <2> QED
        BY <2>1, <2>2
<1>6. \A x \in Tab : Sound(rows_[x], column[x], torn[x])'
    BY <1>5 DEF Sound, RowsTyped, WithinRefused, Fits, Aligned, Sized, Match, FieldsOf
<1> QED
    BY <1>3, <1>4, <1>6 DEF TableInv

(* A step that reads table t, and leaves its result in u. *)
LEMMA TwoTables ==
    ASSUME TableInv, NEW t \in Tab, NEW u \in Tab, torn[t] = 0, NEW r, NEW ds, NEW es,
           rows_' = [rows_ EXCEPT ![u] = r],
           column' = [column EXCEPT ![t] = es, ![u] = ds],
           torn' = [torn EXCEPT ![u] = 0],
           es \in ColumnsType, Fits(rows_[t], es),
           RowsTyped(r), ds \in ColumnsType, Fits(r, ds)
    PROVE  TableInv'
<1>1. r \in RowsType
    BY DEF RowsTyped
<1>2. rows_ \in [Tab -> RowsType] /\ column \in [Tab -> ColumnsType] /\ torn \in [Tab -> Nat]
    BY DEF TableInv
<1>3. rows_' \in [Tab -> RowsType] /\ column' \in [Tab -> ColumnsType]
    BY <1>1, <1>2
<1>4. torn' \in [Tab -> Nat]
    BY <1>2
<1>5. ASSUME NEW x \in Tab PROVE Sound(rows_'[x], column'[x], torn'[x])
    <2>0. Sound(rows_[x], column[x], torn[x])
        BY DEF TableInv
    <2>1. CASE x = u
        <3>1. rows_'[x] = r /\ column'[x] = ds
            BY <2>1, <1>2
        <3>2. torn'[x] = 0
            BY <2>1, <1>2
        <3> QED
            BY <3>1, <3>2, FitsSound
    <2>2. CASE x # u /\ x = t
        <3>1. rows_'[x] = rows_[x] /\ column'[x] = es /\ torn'[x] = torn[x]
            BY <2>2, <1>2
        <3> QED
            BY <2>0, <2>2, <3>1 DEF Sound
    <2>3. CASE x # u /\ x # t
        <3>1. rows_'[x] = rows_[x] /\ column'[x] = column[x] /\ torn'[x] = torn[x]
            BY <2>3, <1>2
        <3> QED
            BY <2>0, <3>1
    <2> QED
        BY <2>1, <2>2, <2>3
<1>6. \A x \in Tab : Sound(rows_[x], column[x], torn[x])'
    BY <1>5 DEF Sound, RowsTyped, WithinRefused, Fits, Aligned, Sized, Match, FieldsOf
<1> QED
    BY <1>3, <1>4, <1>6 DEF TableInv

-----------------------------------------------------------------------------
(* Reading and unloading columns. *)

LEMMA LoadedFacts ==
    ASSUME TableInv, NEW t \in Tab, torn[t] = 0, NEW cs \in SUBSET Col
    PROVE  /\ \A c \in Col : /\ LoadColumn(t, c) \in {column[t][c], FieldsOf(rows_[t], c)}
                             /\ Loaded(t, c) \in {column[t][c], FieldsOf(rows_[t], c)}
                             /\ GetResult(t, c) \in {column[t][c], FieldsOf(rows_[t], c)}
           /\ LoadedColumns(t, cs) \in ColumnsType
           /\ Fits(rows_[t], LoadedColumns(t, cs))
<1> DEFINE es == LoadedColumns(t, cs)
<1>1. /\ RowsTyped(rows_[t]) /\ column[t] \in ColumnsType /\ Fits(rows_[t], column[t])
      /\ \A c \in Col : Fields(t, c) = FieldsOf(rows_[t], c)
    BY TableFacts
<1>2. \A c \in Col : /\ LoadColumn(t, c) \in {column[t][c], FieldsOf(rows_[t], c)}
                     /\ Loaded(t, c) \in {column[t][c], FieldsOf(rows_[t], c)}
                     /\ GetResult(t, c) \in {column[t][c], FieldsOf(rows_[t], c)}
    BY <1>1 DEF LoadColumn, Loaded, GetResult
<1>3. es = [c \in Col |-> es[c]] /\ \A c \in Col : es[c] \in {column[t][c], FieldsOf(rows_[t], c), Null, <<>>}
    BY <1>2 DEF LoadedColumns
<1> HIDE DEF es
<1>4. es \in ColumnsType /\ Fits(rows_[t], es)
    BY <1>1, <1>3, ColumnsFit
<1> QED
    BY <1>2, <1>4 DEF es

(* A step that changes columns of t in one of the three ways. *)
LEMMA ColumnStepKeeps ==
    ASSUME TableInv, NEW t \in Tab, NEW es,
           column' = [column EXCEPT ![t] = es], UNCHANGED <<rows_, torn>>,
           es = [c \in Col |-> es[c]],
           \A c \in Col : es[c] \in {column[t][c], FieldsOf(rows_[t], c), Null, <<>>}
    PROVE  TableInv'
<1>1. RowsTyped(rows_[t]) /\ column[t] \in ColumnsType /\ Sound(rows_[t], column[t], torn[t])
    BY TableFacts DEF TableInv
<1>2. es \in ColumnsType
    <2>1. ASSUME NEW c \in Col PROVE es[c] \in Seq(Int) \cup {Null}
        <3>1. FieldsOf(rows_[t], c) \in Seq(Int) /\ column[t][c] \in Seq(Int) \cup {Null}
            BY <1>1, FieldsFacts DEF ColumnsType
        <3>2. <<>> \in Seq(Int)
            OBVIOUS
        <3> QED
            BY <3>1, <3>2
    <2> QED
        BY <2>1 DEF ColumnsType
<1>5. torn[t] = 0 => Fits(rows_[t], es)
    BY <1>1, ColumnsFit DEF Sound
<1>3. Sound(rows_[t], es, torn[t])
    BY <1>1, <1>2, <1>5 DEF Sound
<1>4. rows_' = [rows_ EXCEPT ![t] = rows_[t]] /\ torn' = [torn EXCEPT ![t] = torn[t]]
    BY DEF TableInv
<1> QED
    BY <1>3, <1>4, OneTable

LEMMA ReadingKeeps ==
    ASSUME TableInv, NEW t \in Tab, NEW c \in Col,
           Get(t, c) \/ GetColumnByOffset(t, c) \/ UnloadColumn(t, c)
    PROVE  TableInv'
<1>1. UNCHANGED <<rows_, torn>>
    BY DEF Get, GetColumnByOffset, UnloadColumn
<1>2. PICK v : /\ column' = [column EXCEPT ![t][c] = v]
               /\ v \in {column[t][c], FieldsOf(rows_[t], c), Null, <<>>}
    <2>1. CASE Get(t, c)
        BY <2>1, LoadedFacts DEF Get
    <2>2. CASE GetColumnByOffset(t, c)
        BY <2>2, LoadedFacts DEF GetColumnByOffset
    <2>3. CASE UnloadColumn(t, c)
        BY <2>3 DEF UnloadColumn, UnloadedColumns
    <2> QED
        BY <2>1, <2>2, <2>3
<1> DEFINE es == [column[t] EXCEPT ![c] = v]
<1>3. column \in [Tab -> ColumnsType] /\ column[t] \in [Col -> Seq(Int) \cup {Null}]
    BY DEF TableInv, ColumnsType
<1>4. column' = [column EXCEPT ![t] = es]
    BY <1>2, <1>3
<1>5. es = [d \in Col |-> es[d]]
      /\ \A d \in Col : es[d] \in {column[t][d], FieldsOf(rows_[t], d), Null, <<>>}
    BY <1>2, <1>3
<1> HIDE DEF es
<1> QED
    BY <1>1, <1>4, <1>5, ColumnStepKeeps

LEMMA UnloadAllKeeps ==
    ASSUME TableInv, NEW t \in Tab, UnloadAllColumns(t)
    PROVE  TableInv'
<1> DEFINE es == UnloadedColumns(t)
<1>1. UNCHANGED <<rows_, torn>> /\ column' = [column EXCEPT ![t] = es]
    BY DEF UnloadAllColumns
<1>2. es = [d \in Col |-> es[d]]
      /\ \A d \in Col : es[d] \in {column[t][d], FieldsOf(rows_[t], d), Null, <<>>}
    BY DEF UnloadedColumns
<1> HIDE DEF es
<1> QED
    BY <1>1, <1>2, ColumnStepKeeps

-----------------------------------------------------------------------------
(* The operations that return a clone. *)

LEMMA CloneKeeps ==
    ASSUME TableInv, NEW t \in Tab, NEW u \in Tab, NEW r, NEW es, Clone(t, u, r, es),
           es \in ColumnsType, Fits(rows_[t], es), RowsTyped(r), Aligned(r)
    PROVE  TableInv'
<1>1. NewColumns \in ColumnsType /\ Fits(r, NewColumns)
    BY NewColumnsFit
<1>2. /\ torn[t] = 0 /\ rows_' = [rows_ EXCEPT ![u] = r]
      /\ column' = [column EXCEPT ![t] = es, ![u] = NewColumns]
      /\ torn' = [torn EXCEPT ![u] = 0]
    BY DEF Clone
<1> QED
    BY <1>1, <1>2, TwoTables

(* The rows of t at the places p. *)
LEMMA GatherTyped ==
    ASSUME TableInv, NEW t \in Tab, torn[t] = 0, NEW p \in Seq(1..Count(t)), Len(p) <= Count(t)
    PROVE  /\ Gather(t, p) = GatherOf(rows_[t], p)
           /\ RowsTyped(Gather(t, p)) /\ Aligned(Gather(t, p))
<1>1. Gather(t, p) = GatherOf(rows_[t], p)
    BY DEF Gather, GatherOf
<1>2. RowsTyped(rows_[t]) /\ Aligned(rows_[t]) /\ Count(t) = Len(rows_[t][1])
      /\ Count(t) <= MaxRows /\ Count(t) \in Nat
    BY TableFacts DEF Fits
<1>3. Len(p) <= MaxRows
    BY <1>2, TableAssumption
<1> QED
    BY <1>1, <1>2, <1>3, GatherFacts

LEMMA CloneGatherKeeps ==
    ASSUME TableInv, NEW t \in Tab, NEW u \in Tab, NEW p \in Seq(1..Count(t)), Len(p) <= Count(t),
           Clone(t, u, Gather(t, p), column[t])
    PROVE  TableInv'
<1>1. torn[t] = 0
    BY DEF Clone
<1>2. RowsTyped(Gather(t, p)) /\ Aligned(Gather(t, p))
    BY <1>1, GatherTyped
<1>3. column[t] \in ColumnsType /\ Fits(rows_[t], column[t])
    BY <1>1, TableFacts
<1> QED
    BY <1>2, <1>3, CloneKeeps

LEMMA SelectedFacts ==
    ASSUME TableInv, NEW t \in Tab, NEW bits \in SUBSET (1..Count(t))
    PROVE  Selected(t, bits) \in Seq(1..Count(t)) /\ Len(Selected(t, bits)) <= Count(t)
<1> DEFINE S == {i \in 1..Count(t) : i \in bits}
<1>1. Count(t) \in Nat /\ S \in SUBSET (1..Count(t))
    BY TableFacts
<1>2. Selected(t, bits) = InOrder(S)
    BY DEF Selected
<1> HIDE DEF S
<1>3. InOrder(S) \in Seq(S) /\ Len(InOrder(S)) = Cardinality(S) /\ Cardinality(S) <= Count(t)
    BY <1>1, InOrderFacts
<1>4. ASSUME NEW A, NEW B, A \in SUBSET B PROVE Seq(A) \subseteq Seq(B)
    BY <1>4
<1> QED
    BY <1>1, <1>2, <1>3, <1>4

LEMMA FilterKeeps ==
    ASSUME TableInv, NEW t \in Tab, NEW u \in Tab, NEW bits, Filter(t, u, bits)
    PROVE  TableInv'
<1>1. bits \in SUBSET (1..Count(t)) /\ Clone(t, u, Gather(t, Selected(t, bits)), column[t])
    BY DEF Filter
<1> QED
    BY <1>1, SelectedFacts, CloneGatherKeeps

LEMMA HeadKeeps ==
    ASSUME TableInv, NEW t \in Tab, NEW u \in Tab, NEW k \in Nat, HeadRows(t, u, k)
    PROVE  TableInv'
<1> DEFINE p == [i \in 1..k |-> i]
<1>1. k < Count(t) /\ Clone(t, u, Gather(t, p), column[t]) /\ Count(t) \in Nat
    BY TableFacts DEF HeadRows
<1>2. p \in [1..k -> 1..Count(t)]
    BY <1>1
<1> HIDE DEF p
<1>3. p \in Seq(1..Count(t)) /\ Len(p) <= Count(t)
    BY <1>1, <1>2
<1> QED
    BY <1>1, <1>3, CloneGatherKeeps

LEMMA TailKeeps ==
    ASSUME TableInv, NEW t \in Tab, NEW u \in Tab, NEW k \in Nat, TailRows(t, u, k)
    PROVE  TableInv'
<1> DEFINE n == IF k = 0 THEN Count(t) ELSE k
           p == [i \in 1..n |-> Count(t) - n + i]
<1>1. k < Count(t) /\ Clone(t, u, Gather(t, p), column[t]) /\ Count(t) \in Nat
    BY TableFacts DEF TailRows
<1>2. n \in Nat /\ n <= Count(t)
    BY <1>1
<1> HIDE DEF n
<1>3. \A i \in 1..n : Count(t) - n + i \in 1..Count(t)
    BY <1>1, <1>2
<1>4. p \in [1..n -> 1..Count(t)]
    BY <1>3
<1> HIDE DEF p
<1>5. n \in Nat
    BY <1>2
<1>6. p \in Seq(1..Count(t)) /\ Len(p) = n
    BY <1>4, <1>5, FcnIsSeq
<1> QED
    BY <1>1, <1>2, <1>6, CloneGatherKeeps

LEMMA ConcatKeeps ==
    ASSUME TableInv, NEW t \in Tab, NEW u \in Tab, NEW other \in Tab, Concat(t, u, other)
    PROVE  TableInv'
<1> DEFINE r == [s \in Schema |-> rows_[t][s] \o rows_[other][s]]
<1>1. /\ torn[other] = 0 /\ torn[t] = 0 /\ Count(t) + Count(other) <= MaxRows
      /\ Clone(t, u, r, column[t])
    BY DEF Concat, Clone
<1>2. /\ RowsTyped(rows_[t]) /\ Fits(rows_[t], column[t]) /\ column[t] \in ColumnsType
      /\ RowsTyped(rows_[other]) /\ Fits(rows_[other], column[other])
      /\ Count(t) = Len(rows_[t][1]) /\ Count(other) = Len(rows_[other][1])
      /\ Count(t) \in Nat /\ Count(other) \in Nat
    BY <1>1, TableFacts
<1>3. ASSUME NEW s \in Schema
      PROVE  /\ r[s] \in Seq(Obj[s]) /\ r[s] \in Seq(AnyObj)
             /\ Len(r[s]) = Count(t) + Count(other)
    <2>1. /\ rows_[t][s] \in Seq(Obj[s]) /\ rows_[other][s] \in Seq(Obj[s])
          /\ Len(rows_[t][s]) = Count(t) /\ Len(rows_[other][s]) = Count(other)
        BY <1>2, RowsFacts DEF Fits, Aligned
    <2>2. r[s] = rows_[t][s] \o rows_[other][s]
        OBVIOUS
    <2>3. r[s] \in Seq(Obj[s]) /\ Len(r[s]) = Len(rows_[t][s]) + Len(rows_[other][s])
        <3> HIDE DEF r
        <3> QED
            BY <2>1, <2>2, ConcatProperties
    <2> QED
        BY <2>1, <2>3, SchemaFacts
<1>4. r = [s \in Schema |-> r[s]]
    OBVIOUS
<1> HIDE DEF r
<1>5. RowsTyped(r) /\ Aligned(r)
    <2>1. r \in RowsType
        BY <1>3, <1>4 DEF RowsType
    <2> QED
        BY <1>1, <1>3, <2>1, SchemaFacts DEF RowsTyped, Aligned
<1> QED
    BY <1>1, <1>2, <1>5, CloneKeeps

(* Split leaves its results in two tables. *)
LEMMA SplitKeeps ==
    ASSUME TableInv, NEW t \in Tab, NEW u \in Tab, NEW v \in Tab, NEW bits, Split(t, u, v, bits)
    PROVE  TableInv'
<1> DEFINE p == Selected(t, bits)
           q == Selected(t, 1..Count(t) \ bits)
           r == Gather(t, p)
           w == Gather(t, q)
<1>1. /\ torn[t] = 0 /\ u # v /\ bits \in SUBSET (1..Count(t))
      /\ rows_' = [rows_ EXCEPT ![u] = r, ![v] = w]
      /\ column' = [column EXCEPT ![u] = NewColumns, ![v] = NewColumns]
      /\ torn' = [torn EXCEPT ![u] = 0, ![v] = 0]
    BY DEF Split
<1>2. (1..Count(t) \ bits) \in SUBSET (1..Count(t))
    OBVIOUS
<1>3. /\ p \in Seq(1..Count(t)) /\ Len(p) <= Count(t)
      /\ q \in Seq(1..Count(t)) /\ Len(q) <= Count(t)
    BY <1>1, <1>2, SelectedFacts
<1> HIDE DEF p, q
<1>4. RowsTyped(r) /\ Aligned(r) /\ RowsTyped(w) /\ Aligned(w)
    BY <1>1, <1>3, GatherTyped
<1> HIDE DEF r, w
<1>5. NewColumns \in ColumnsType /\ Fits(r, NewColumns) /\ Fits(w, NewColumns)
    BY <1>4, NewColumnsFit
<1>6. r \in RowsType /\ w \in RowsType
    BY <1>4 DEF RowsTyped
<1>7. rows_ \in [Tab -> RowsType] /\ column \in [Tab -> ColumnsType] /\ torn \in [Tab -> Nat]
    BY DEF TableInv
<1>8. rows_' \in [Tab -> RowsType] /\ column' \in [Tab -> ColumnsType]
    BY <1>1, <1>5, <1>6, <1>7
<1>9. torn' \in [Tab -> Nat]
    BY <1>1, <1>7
<1>10. ASSUME NEW x \in Tab PROVE Sound(rows_'[x], column'[x], torn'[x])
    <2>1. CASE x = u
        <3>1. rows_'[x] = r /\ column'[x] = NewColumns
            BY <2>1, <1>1, <1>7
        <3>2. torn'[x] = 0
            BY <2>1, <1>1, <1>7
        <3> QED
            BY <3>1, <3>2, <1>4, <1>5, FitsSound
    <2>2. CASE x = v
        <3>1. rows_'[x] = w /\ column'[x] = NewColumns
            BY <2>2, <1>1, <1>7
        <3>2. torn'[x] = 0
            BY <2>2, <1>1, <1>7
        <3> QED
            BY <3>1, <3>2, <1>4, <1>5, FitsSound
    <2>3. CASE x # u /\ x # v
        <3>1. rows_'[x] = rows_[x] /\ column'[x] = column[x] /\ torn'[x] = torn[x]
            BY <2>3, <1>1, <1>7
        <3>2. Sound(rows_[x], column[x], torn[x])
            BY DEF TableInv
        <3> QED
            BY <3>1, <3>2
    <2> QED
        BY <2>1, <2>2, <2>3
<1>11. \A x \in Tab : Sound(rows_[x], column[x], torn[x])'
    BY <1>10 DEF Sound, RowsTyped, WithinRefused, Fits, Aligned, Sized, Match, FieldsOf
<1> QED
    BY <1>8, <1>9, <1>11 DEF TableInv

-----------------------------------------------------------------------------
(* AddRows and InsertRow: the row lists A have grown by n rows. *)

Grows(t, A, n, q) ==
    /\ rows_' = [rows_ EXCEPT ![t] = [s \in Schema |-> IF s \in A THEN q[s] ELSE rows_[t][s]]]
    /\ torn' = [torn EXCEPT ![t] = torn[t] + LeftHalf(A, n)]
    /\ column' = IF A = Schema THEN [column EXCEPT ![t] = UnloadedColumns(t)] ELSE column

LEMMA GrowArith ==
    ASSUME NEW c \in Nat, NEW k \in Nat, NEW n \in Nat, NEW l \in Nat, c - k <= l, l <= c
    PROVE  /\ (c + n) - k <= l + n /\ l + n <= c + n
           /\ (c + n) - (k + n) <= l + n /\ (c + n) - (k + n) <= l /\ l <= c + n
OBVIOUS

LEMMA GrowKeeps ==
    ASSUME TableInv, NEW t \in Tab, NEW A \in SUBSET Schema, NEW n \in Nat \ {0}, NEW q,
           A = {} \/ 1 \in A, NumSchemas \in A => A = Schema,
           Count(t) + n <= MaxRows,
           \A s \in A : q[s] \in Seq(Obj[s]) /\ Len(q[s]) = Len(rows_[t][s]) + n,
           Grows(t, A, n, q)
    PROVE  TableInv'
<1> DEFINE r == [s \in Schema |-> IF s \in A THEN q[s] ELSE rows_[t][s]]
           ds == IF A = Schema THEN UnloadedColumns(t) ELSE column[t]
           b == torn[t] + LeftHalf(A, n)
<1>1. /\ RowsTyped(rows_[t]) /\ column[t] \in ColumnsType /\ torn[t] \in Nat
      /\ Count(t) = Len(rows_[t][1]) /\ Count(t) \in Nat
      /\ Sound(rows_[t], column[t], torn[t]) /\ WithinRefused(rows_[t], torn[t])
    BY TableFacts DEF TableInv, Sound
<1>2. column' = [column EXCEPT ![t] = ds]
    BY DEF TableInv, Grows
<1>0. torn' = [torn EXCEPT ![t] = b]
    BY DEF Grows
<1>3. ASSUME NEW s \in Schema
      PROVE  /\ r[s] \in Seq(Obj[s]) /\ r[s] \in Seq(AnyObj) /\ Len(r[s]) <= MaxRows
             /\ Len(rows_[t][s]) \in Nat
             /\ Len(r[s]) = IF s \in A THEN Len(rows_[t][s]) + n ELSE Len(rows_[t][s])
             /\ Count(t) - torn[t] <= Len(rows_[t][s]) /\ Len(rows_[t][s]) <= Count(t)
    <2>1. /\ rows_[t][s] \in Seq(Obj[s]) /\ Len(rows_[t][s]) \in Nat
          /\ Count(t) - torn[t] <= Len(rows_[t][s]) /\ Len(rows_[t][s]) <= Count(t)
        BY <1>1, RowsFacts DEF WithinRefused
    <2>2. r[s] = IF s \in A THEN q[s] ELSE rows_[t][s]
        OBVIOUS
    <2> HIDE DEF r
    <2>3. r[s] \in Seq(Obj[s]) /\ Len(r[s]) <= MaxRows
          /\ Len(r[s]) = IF s \in A THEN Len(rows_[t][s]) + n ELSE Len(rows_[t][s])
        BY <1>1, <2>1, <2>2, TableAssumption
    <2> QED
        BY <2>1, <2>3, SchemaFacts
<1>4. r = [s \in Schema |-> r[s]]
    OBVIOUS
<1>5. rows_' = [rows_ EXCEPT ![t] = r]
    BY DEF Grows
<1>6. A = {} => r = rows_[t]
    BY <1>1 DEF RowsTyped, RowsType
<1> HIDE DEF r
<1>7. RowsTyped(r)
    <2>1. r \in RowsType
        BY <1>3, <1>4 DEF RowsType
    <2> QED
        BY <1>3, <2>1 DEF RowsTyped
<1>11. Len(rows_[t][NumSchemas]) = Count(t) - torn[t]
    BY <1>1 DEF WithinRefused
<1>8. CASE A = Schema
    <2>1. b = torn[t]
        BY <1>1, <1>8 DEF LeftHalf
    <2>2. WithinRefused(r, torn[t])
        <3>1. \A s \in Schema : Len(r[s]) = Len(rows_[t][s]) + n /\ Len(rows_[t][s]) \in Nat
            BY <1>3, <1>8
        <3>2. Len(r[1]) = Count(t) + n /\ Len(r[NumSchemas]) = Count(t) - torn[t] + n
            BY <1>1, <1>11, <3>1, SchemaFacts
        <3>3. \A s \in Schema : Count(t) - torn[t] <= Len(rows_[t][s]) /\ Len(rows_[t][s]) <= Count(t)
            BY <1>3
        <3>4. \A s \in Schema : Len(r[1]) - torn[t] <= Len(r[s]) /\ Len(r[s]) <= Len(r[1])
            <4>1. ASSUME NEW s \in Schema
                  PROVE  Len(r[1]) - torn[t] <= Len(r[s]) /\ Len(r[s]) <= Len(r[1])
                <5>1. n \in Nat /\ Len(rows_[t][s]) \in Nat /\ Len(r[s]) = Len(rows_[t][s]) + n
                      /\ Count(t) - torn[t] <= Len(rows_[t][s]) /\ Len(rows_[t][s]) <= Count(t)
                    BY <3>1, <3>3
                <5>2. /\ (Count(t) + n) - torn[t] <= Len(rows_[t][s]) + n
                      /\ Len(rows_[t][s]) + n <= Count(t) + n
                    BY <1>1, <5>1, GrowArith
                <5> QED
                    BY <3>2, <5>1, <5>2, Zenon
            <4> QED
                BY <4>1
        <3>5. Len(r[NumSchemas]) = Len(r[1]) - torn[t]
            <4>1. PICK c, k, l, m : c = Count(t) /\ k = torn[t] /\ l = Len(r[1]) /\ m = Len(r[NumSchemas])
                OBVIOUS
            <4>2. c \in Nat /\ k \in Nat /\ l = c + n /\ m = c - k + n
                BY <1>1, <3>2, <4>1, Zenon
            <4>3. m = l - k
                BY <4>2
            <4> QED
                BY <4>1, <4>3, Zenon
        <3> QED
            BY <3>4, <3>5, Zenon DEF WithinRefused
    <2>3. UnloadedColumns(t) = [c \in Col |-> UnloadedColumns(t)[c]]
          /\ \A c \in Col : UnloadedColumns(t)[c] \in {Null, <<>>}
        BY DEF UnloadedColumns
    <2>4. UnloadedColumns(t) \in ColumnsType
        <3>1. <<>> \in Seq(Int)
            OBVIOUS
        <3>2. \A c \in Col : UnloadedColumns(t)[c] \in Seq(Int) \cup {Null}
            BY <2>3, <3>1
        <3> QED
            BY <2>3, <3>2 DEF ColumnsType
    <2>5. ASSUME torn[t] = 0 PROVE Fits(r, UnloadedColumns(t))
        <3>1. \A s \in Schema : Len(rows_[t][s]) = Count(t)
            BY <1>1, <1>3, <2>5
        <3>2. Aligned(r)
            BY <1>3, <1>8, <3>1, SchemaFacts DEF Aligned
        <3> QED
            BY <2>3, <3>2, EmptyColumnsFit
    <2>6. ds = UnloadedColumns(t)
        BY <1>8
    <2>7. Sound(r, ds, b)
        BY <1>1, <1>7, <2>1, <2>2, <2>4, <2>5, <2>6 DEF Sound
    <2> HIDE DEF ds, b
    <2> QED
        BY <2>7, <1>0, <1>2, <1>5, OneTable
<1>9. CASE A = {}
    <2>1. A # Schema
        BY <1>9, SchemaFacts
    <2>2. ds = column[t] /\ b = torn[t] /\ r = rows_[t]
        BY <1>1, <1>6, <1>9, <2>1 DEF LeftHalf
    <2>3. Sound(r, ds, b)
        BY <1>1, <2>2
    <2> HIDE DEF ds, b
    <2> QED
        BY <2>3, <1>0, <1>2, <1>5, OneTable
<1>10. CASE A # {} /\ A # Schema
    <2>1. ds = column[t] /\ b = torn[t] + n
        BY <1>10 DEF LeftHalf
    <2>2. Len(r[1]) = Count(t) + n /\ Len(r[NumSchemas]) = Len(rows_[t][NumSchemas])
        BY <1>1, <1>3, <1>10, SchemaFacts
    <2>3. \A s \in Schema : Len(r[1]) - b <= Len(r[s]) /\ Len(r[s]) <= Len(r[1])
        <3>1. ASSUME NEW s \in Schema PROVE Len(r[1]) - b <= Len(r[s]) /\ Len(r[s]) <= Len(r[1])
            <4>1. /\ Len(rows_[t][s]) \in Nat
                  /\ Len(r[s]) = Len(rows_[t][s]) + n \/ Len(r[s]) = Len(rows_[t][s])
                  /\ Count(t) - torn[t] <= Len(rows_[t][s]) /\ Len(rows_[t][s]) <= Count(t)
                BY <1>3
            <4>2. /\ n \in Nat /\ (Count(t) + n) - (torn[t] + n) <= Len(rows_[t][s]) + n
                  /\ (Count(t) + n) - (torn[t] + n) <= Len(rows_[t][s])
                  /\ Len(rows_[t][s]) + n <= Count(t) + n /\ Len(rows_[t][s]) <= Count(t) + n
                BY <1>1, <4>1, GrowArith
            <4> HIDE DEF b
            <4> QED
                BY <2>1, <2>2, <4>1, <4>2, Zenon
        <3> QED
            BY <3>1
    <2>4. WithinRefused(r, b)
        BY <1>1, <1>11, <2>1, <2>2, <2>3 DEF WithinRefused
    <2>5. b \in Nat /\ b # 0
        BY <1>1, <2>1
    <2>6. Sound(r, ds, b)
        BY <1>1, <1>7, <2>1, <2>4, <2>5 DEF Sound
    <2> HIDE DEF ds, b
    <2> QED
        BY <2>6, <1>0, <1>2, <1>5, OneTable
<1> QED
    BY <1>8, <1>9, <1>10

(* A call that is refused at the first row list changes nothing. *)
LEMMA NothingGrows ==
    ASSUME TableInv, NEW t \in Tab, NEW n, NEW q, Grows(t, {}, n, q)
    PROVE  TableInv'
<1>1. /\ torn \in [Tab -> Nat] /\ rows_ \in [Tab -> RowsType]
      /\ Schema # {} /\ rows_[t] \in [Schema -> Seq(AnyObj)]
    BY SchemaFacts DEF TableInv, RowsType
<1>2. rows_' = [rows_ EXCEPT ![t] = rows_[t]]
    BY <1>1 DEF Grows
<1>3. torn' = torn /\ column' = column
    BY <1>1 DEF Grows, LeftHalf
<1>4. rows_' = rows_
    BY <1>1, <1>2
<1> QED
    BY <1>3, <1>4 DEF TableInv, Sound, RowsTyped, WithinRefused, Fits, Aligned, Sized, Match, FieldsOf

(* The arguments: a part that names its own schema holds rows of it. *)
LEMMA PartsFacts ==
    ASSUME NEW lists, \A s \in Schema : lists[s] \subseteq Seq(Obj[s]),
           NEW parts \in Parts(lists), NEW i \in Schema
    PROVE  /\ DOMAIN parts = Schema
           /\ parts[i].schema = i => parts[i].objs \in lists[i]
           /\ Len(parts[i].objs) \in Nat
<1>1. PICK s \in Schema : parts[i] \in [schema : {s}, objs : lists[s]]
    BY DEF Parts
<1>2. parts[i].schema = s /\ parts[i].objs \in lists[s]
    BY <1>1
<1>3. parts[i].objs \in Seq(Obj[s])
    BY <1>2
<1>4. DOMAIN parts = Schema
    BY DEF Parts
<1> QED
    BY <1>2, <1>3, <1>4

LEMMA AddRowsKeeps ==
    ASSUME TableInv, NEW t \in Tab, NEW parts \in Parts(Batch), AddRows(t, parts)
    PROVE  TableInv'
<1> DEFINE A == Accepted(parts)
           n == Len(parts[1].objs)
           q == [s \in Schema |-> rows_[t][s] \o parts[s].objs]
<1>1. \A s \in Schema : Batch[s] \subseteq Seq(Obj[s])
    BY TableAssumption
<1>2. \A s \in Schema : /\ DOMAIN parts = Schema
                        /\ parts[s].schema = s => parts[s].objs \in Batch[s]
                        /\ Len(parts[s].objs) \in Nat
    BY <1>1, PartsFacts
<1>3. n \in Nat /\ DOMAIN parts = Schema /\ Schema \in SUBSET Nat
    BY <1>2, SchemaFacts DEF Schema
<1>4. /\ A \in SUBSET Schema
      /\ \A s \in A : parts[s].schema = s /\ Len(parts[s].objs) = n
    <2>1. A \in SUBSET Schema
        BY <1>3 DEF Accepted
    <2>2. ASSUME NEW s \in A PROVE s \notin Misfits(parts)
        <3>1. \A j \in Misfits(parts) : s < j
            BY DEF Accepted
        <3>2. s \in Nat
            BY <1>3, <2>1
        <3> QED
            BY <3>1, <3>2
    <2> QED
        BY <1>3, <2>1, <2>2 DEF Misfits
<1>9. A = {} \/ 1 \in A
    <2>1. ASSUME NEW s \in A, NEW j \in Misfits(parts) PROVE 1 < j
        <3>1. s < j /\ j \in Schema /\ s \in Schema
            BY <1>3, <1>4 DEF Accepted, Misfits
        <3> QED
            BY <3>1 DEF Schema
    <2> QED
        BY <1>3, <2>1, SchemaFacts DEF Accepted
<1>10. ASSUME NumSchemas \in A PROVE A = Schema
    <2>1. Misfits(parts) = {}
        <3> SUFFICES ASSUME NEW j \in Misfits(parts) PROVE FALSE
            OBVIOUS
        <3>1. NumSchemas < j /\ j \in Schema
            BY <1>3, <1>10 DEF Accepted, Misfits
        <3> QED
            BY <3>1, TableAssumption DEF Schema
    <2> QED
        BY <1>3, <2>1 DEF Accepted
<1>11. A # {} => n # 0
    <2>1. ASSUME 1 \in A PROVE n # 0
        <3>1. parts[1].schema = 1 /\ parts[1].objs \in Batch[1]
            BY <1>2, <1>4, <2>1
        <3>2. parts[1].objs \in Seq(Obj[1]) /\ parts[1].objs # <<>>
            BY <3>1, TableAssumption, SchemaFacts
        <3> QED
            BY <3>2
    <2> QED
        BY <1>9, <2>1
<1>5. Count(t) + n <= MaxRows
    BY DEF AddRows
<1>6. RowsTyped(rows_[t])
    BY TableFacts
<1>7. ASSUME NEW s \in A PROVE q[s] \in Seq(Obj[s]) /\ Len(q[s]) = Len(rows_[t][s]) + n
    <2>1. s \in Schema /\ parts[s].objs \in Seq(Obj[s]) /\ Len(parts[s].objs) = n
        BY <1>1, <1>2, <1>4
    <2>2. rows_[t][s] \in Seq(Obj[s])
        BY <2>1, <1>6, RowsFacts
    <2>3. q[s] = rows_[t][s] \o parts[s].objs
        BY <2>1
    <2> HIDE DEF q, n
    <2>4. q[s] \in Seq(Obj[s]) /\ Len(q[s]) = Len(rows_[t][s]) + Len(parts[s].objs)
        BY <2>1, <2>2, <2>3, ConcatProperties
    <2> QED
        BY <2>1, <2>2, <2>4
<1>8. Grows(t, A, n, q)
    <2>1. torn \in [Tab -> Nat]
        BY DEF TableInv
    <2> QED
        BY <2>1 DEF AddRows, Grows
<1>12. CASE n # 0
    <2>1. n \in Nat \ {0} /\ A \in SUBSET Schema
        BY <1>3, <1>4, <1>12
    <2>2. NumSchemas \in A => A = Schema
        BY <1>10
    <2>3. \A s \in A : q[s] \in Seq(Obj[s]) /\ Len(q[s]) = Len(rows_[t][s]) + n
        BY <1>7
    <2> HIDE DEF A, q, n
    <2> QED
        BY <1>5, <1>8, <1>9, <2>1, <2>2, <2>3, GrowKeeps
<1>13. CASE A = {}
    BY <1>8, <1>13, NothingGrows
<1> QED
    BY <1>11, <1>12, <1>13

(* Inside the list, a splice adds the row objects that it is given. *)
LEMMA SplicedFacts ==
    ASSUME NEW S, NEW s \in Seq(S), NEW pos \in Nat, pos <= Len(s), NEW o \in S
    PROVE  Spliced(s, pos, <<o>>) \in Seq(S) /\ Len(Spliced(s, pos, <<o>>)) = Len(s) + 1
<1> DEFINE a == [i \in 1..pos |-> IF i \in DOMAIN s THEN s[i] ELSE Null]
           z == SubSeq(s, pos + 1, Len(s))
           m == a \o <<o>>
<1>1. a \in [1..pos -> S]
    OBVIOUS
<1>2. Spliced(s, pos, <<o>>) = m \o z
    BY DEF Spliced
<1> HIDE DEF a
<1>3. a \in Seq(S) /\ Len(a) = pos
    BY <1>1, FcnIsSeq
<1>4. <<o>> \in Seq(S) /\ Len(<<o>>) = 1
    OBVIOUS
<1>5. m \in Seq(S) /\ Len(m) = pos + 1
    BY <1>3, <1>4, ConcatProperties
<1> HIDE DEF m
<1>6. z \in Seq(S) /\ Len(z) = Len(s) - pos
    OBVIOUS
<1> HIDE DEF z
<1>7. m \o z \in Seq(S) /\ Len(m \o z) = Len(m) + Len(z)
    BY <1>5, <1>6, ConcatProperties
<1>8. Len(s) \in Nat
    OBVIOUS
<1>9. Len(m \o z) = Len(s) + 1
    BY <1>5, <1>6, <1>7, <1>8
<1> QED
    BY <1>2, <1>7, <1>9

LEMMA InsertRowKeeps ==
    ASSUME TableInv, NEW t \in Tab, NEW pos \in Nat, NEW parts \in Parts(Singles),
           InsertRow(t, pos, parts)
    PROVE  TableInv'
<1> DEFINE A == Inserted(t, pos, parts)
           q == [s \in Schema |-> Spliced(rows_[t][s], pos, parts[s].objs)]
<1>1. \A s \in Schema : Singles[s] \subseteq Seq(Obj[s])
    <2> SUFFICES ASSUME NEW s \in Schema, NEW x \in Singles[s] PROVE x \in Seq(Obj[s])
        OBVIOUS
    <2>1. PICK o \in Obj[s] : x = <<o>>
        BY DEF Singles
    <2>2. ASSUME NEW S, NEW o2 \in S PROVE <<o2>> \in Seq(S)
        OBVIOUS
    <2> QED
        BY <2>1, <2>2, Zenon
<1>2. \A s \in Schema : /\ DOMAIN parts = Schema
                        /\ parts[s].schema = s => parts[s].objs \in Singles[s]
    BY <1>1, PartsFacts
<1>3. DOMAIN parts = Schema /\ Schema \in SUBSET (Nat \ {0})
    BY <1>2, SchemaFacts DEF Schema
<1>4. /\ A \in SUBSET Schema
      /\ \A s \in A : parts[s].schema = s /\ pos <= Len(rows_[t][s])
    <2>1. \A s \in Schema : s \in 1..s
        BY <1>3
    <2> QED
        BY <1>3, <2>1 DEF Inserted
<1>9. ASSUME NEW s \in A, NEW i \in 1..s PROVE i \in A
    <2>0. s \in 1..NumSchemas
        BY <1>4 DEF Schema
    <2>1. s \in Nat /\ s \in Schema /\ i \in Schema /\ \A j \in 1..i : j \in 1..s
        <3> HIDE DEF A
        <3> QED
            BY <2>0, TableAssumption DEF Schema
    <2> QED
        BY <1>3, <2>1 DEF Inserted
<1>10. A = {} \/ 1 \in A
    <2>1. ASSUME NEW s \in A PROVE 1 \in 1..s
        <3>1. s \in Nat \ {0}
            BY <1>3, <1>4
        <3> HIDE DEF A
        <3> QED
            BY <3>1
    <2> QED
        BY <1>9, <2>1
<1>11. NumSchemas \in A => A = Schema
    BY <1>4, <1>9 DEF Schema
<1>5. Count(t) + 1 <= MaxRows
    BY TableFacts, TableAssumption DEF InsertRow
<1>6. RowsTyped(rows_[t])
    BY TableFacts
<1>7. ASSUME NEW s \in A PROVE q[s] \in Seq(Obj[s]) /\ Len(q[s]) = Len(rows_[t][s]) + 1
    <2>1. s \in Schema /\ parts[s].objs \in Singles[s] /\ pos <= Len(rows_[t][s])
        BY <1>2, <1>4
    <2>2. PICK o \in Obj[s] : parts[s].objs = <<o>>
        BY <2>1 DEF Singles
    <2>3. rows_[t][s] \in Seq(Obj[s])
        BY <2>1, <1>6, RowsFacts
    <2>4. q[s] = Spliced(rows_[t][s], pos, <<o>>)
        BY <2>1, <2>2
    <2> HIDE DEF q
    <2> QED
        BY <2>1, <2>3, <2>4, SplicedFacts
<1>8. Grows(t, A, 1, q)
    <2>1. torn \in [Tab -> Nat]
        BY DEF TableInv
    <2> QED
        BY <2>1 DEF InsertRow, Grows
<1> HIDE DEF A, q
<1> QED
    BY <1>4, <1>5, <1>7, <1>8, <1>10, <1>11, GrowKeeps

-----------------------------------------------------------------------------
(* OrderBy and Topk. *)

LEMMA ColumnsForSortFacts ==
    ASSUME TableInv, NEW t \in Tab, torn[t] = 0, NEW c \in Col, NEW how
    PROVE  ColumnsForSort(t, c, how) \in ColumnsType /\ Fits(rows_[t], ColumnsForSort(t, c, how))
<1>1. column[t] \in ColumnsType /\ Fits(rows_[t], column[t])
    BY TableFacts
<1>2. LoadedColumns(t, {c}) \in ColumnsType /\ Fits(rows_[t], LoadedColumns(t, {c}))
    BY LoadedFacts
<1> QED
    BY <1>1, <1>2 DEF ColumnsForSort

LEMMA OrdersFacts ==
    ASSUME TableInv, NEW t \in Tab, NEW key, NEW k, NEW d, NEW p \in SortOrders(t, key, k, d)
    PROVE  p \in [1..Count(t) -> 1..Count(t)]
<1>1. Count(t) \in 0..MaxRows
    BY TableFacts, TableAssumption
<1>2. p \in Orders[Count(t)]
    BY DEF SortOrders
<1> QED
    BY <1>1, <1>2 DEF Orders

LEMMA TopkKeeps ==
    ASSUME TableInv, NEW t \in Tab, NEW u \in Tab, NEW c \in Col, NEW k \in Nat,
           NEW how \in KeySources, NEW d \in BOOLEAN, Topk(t, u, c, k, how, d)
    PROVE  TableInv'
<1> DEFINE n == Count(t)
           cols == ColumnsForSort(t, c, how)
           Value(p) == IF how = "copy" THEN cols[c] ELSE Sorted(cols[c], p)
           Es(p) == [cols EXCEPT ![c] = Value(p)]
<1>1. torn[t] = 0 /\ k <= n
    BY DEF Topk
<1>2. PICK p \in SortOrders(t, cols[c], k, d) : Clone(t, u, Gather(t, SubSeq(p, 1, k)), Es(p))
    BY DEF Topk
<1>3. /\ RowsTyped(rows_[t]) /\ Aligned(rows_[t]) /\ n = Len(rows_[t][1]) /\ n \in Nat
    BY <1>1, TableFacts DEF Fits
<1>4. p \in [1..n -> 1..n]
    BY OrdersFacts
<1>5. cols \in ColumnsType /\ Fits(rows_[t], cols)
    BY <1>1, ColumnsForSortFacts
<1> HIDE DEF n, cols
<1>6. SubSeq(p, 1, k) \in Seq(1..n) /\ Len(SubSeq(p, 1, k)) = k
    <2>1. \A i \in 1..k : p[i] \in 1..n
        BY <1>1, <1>3, <1>4
    <2> QED
        BY <2>1, SubSeqProperties
<1>7. RowsTyped(Gather(t, SubSeq(p, 1, k))) /\ Aligned(Gather(t, SubSeq(p, 1, k)))
    BY <1>1, <1>6, GatherTyped DEF n
<1>8. Es(p) \in ColumnsType /\ Fits(rows_[t], Es(p))
    <2>1. CASE how = "copy"
        <3>1. Es(p) = cols
            BY <2>1, <1>5 DEF ColumnsType
        <3> QED
            BY <3>1, <1>5
    <2>2. CASE how # "copy"
        <3>1. ~OwnKeys
            BY <2>2 DEF OwnKeys
        <3>2. /\ cols[c] \in Seq(Int) \cup {Null}
              /\ cols[c] \in {Null, <<>>} \/ (cols[c] \in Seq(Int) /\ Len(cols[c]) = n)
            BY <1>3, <1>5 DEF ColumnsType, Fits, Sized
        <3>3. /\ Value(p) \in Seq(Int) \cup {Null}
              /\ Value(p) \in {Null, <<>>} \/ Len(Value(p)) = n
            <4>1. CASE cols[c] \in {Null, <<>>}
                BY <2>2, <3>2, <4>1 DEF Sorted
            <4>2. CASE cols[c] \notin {Null, <<>>}
                <5>1. cols[c] \in [1..n -> Int]
                    BY <3>2, <4>2, <1>3
                <5>2. Value(p) = [i \in 1..n |-> cols[c][p[i]]]
                    BY <2>2, <4>2, <5>1 DEF Sorted
                <5> HIDE DEF Value
                <5>3. Value(p) \in [1..n -> Int]
                    BY <5>1, <5>2, <1>4
                <5> QED
                    BY <5>3, <1>3, FcnIsSeq
            <4> QED
                BY <4>1, <4>2
        <3> HIDE DEF Value
        <3>4. /\ Es(p) \in ColumnsType /\ Es(p)[c] = Value(p)
              /\ \A e \in Col \ {c} : Es(p)[e] = cols[e]
            BY <3>3, <1>5 DEF ColumnsType
        <3> HIDE DEF Es
        <3>5. \A e \in Col : cols[e] \in {Null, <<>>} \/ Len(cols[e]) = n
            BY <1>3, <1>5 DEF Fits, Sized
        <3>6. Sized(rows_[t], Es(p))
            BY <3>3, <3>4, <3>5, <1>3 DEF Sized
        <3> QED
            BY <3>1, <3>4, <3>6, <1>3 DEF Fits
    <2> QED
        BY <2>1, <2>2
<1> QED
    BY <1>2, <1>7, <1>8, CloneKeeps

-----------------------------------------------------------------------------
(* GroupBy and Distinct. *)

LEMMA SubTableKeeps ==
    ASSUME TableInv, NEW t \in Tab, NEW u \in Tab, torn[t] = 0, NEW p \in Seq(1..Count(t)),
           Len(p) <= Count(t), NEW es, es \in ColumnsType, Fits(rows_[t], es),
           SubTable(t, u, p, es)
    PROVE  TableInv'
<1> DEFINE n == Count(t)
           m == Len(p)
           r == Gather(t, p)
           ds == [c \in Col |-> IF es[c] \in {Null, <<>>} THEN Null
                                ELSE [k \in DOMAIN p |-> es[c][p[k]]]]
<1>1. /\ rows_' = [rows_ EXCEPT ![u] = r]
      /\ column' = [column EXCEPT ![t] = es, ![u] = ds]
      /\ torn' = [torn EXCEPT ![u] = 0]
    BY DEF SubTable
<1>2. RowsTyped(rows_[t]) /\ Aligned(rows_[t]) /\ n = Len(rows_[t][1]) /\ n \in Nat /\ n <= MaxRows
    BY TableFacts DEF Fits
<1>3. m \in Nat /\ DOMAIN p = 1..m /\ \A k \in 1..m : p[k] \in 1..n
    BY SeqFacts
<1>4. m <= MaxRows
    BY <1>2, <1>3, TableAssumption
<1>5. /\ RowsTyped(r) /\ Aligned(r) /\ Len(r[1]) = m
      /\ \A s \in Schema : Len(r[s]) = m /\ \A i \in 1..m : r[s][i] = rows_[t][s][p[i]]
    <2>1. r = GatherOf(rows_[t], p)
        BY DEF Gather, GatherOf
    <2> HIDE DEF r
    <2> QED
        BY <2>1, <1>2, <1>4, GatherFacts
<1> HIDE DEF r, m, n
<1>6. ASSUME NEW c \in Col, es[c] \notin {Null, <<>>}
      PROVE  /\ ds[c] \in Seq(Int) /\ Len(ds[c]) = m
             /\ OwnKeys => ds[c] = FieldsOf(r, c)
    <2>1. es[c] \in [1..n -> Int]
        <3>1. es[c] \in Seq(Int) /\ Len(es[c]) = n
            BY <1>2, <1>6 DEF ColumnsType, Fits, Sized
        <3> QED
            BY <3>1
    <2>2. ds[c] = [k \in 1..m |-> es[c][p[k]]]
        BY <1>3, <1>6
    <2>3. ds[c] \in [1..m -> Int]
        BY <2>1, <2>2, <1>3
    <2>4. ds[c] \in Seq(Int) /\ Len(ds[c]) = m
        <3> HIDE DEF ds
        <3> QED
            BY <2>3, <1>3, FcnIsSeq
    <2>5. ASSUME OwnKeys PROVE ds[c] = FieldsOf(r, c)
        <3> DEFINE s == ColSchema[c]
        <3>1. s \in Schema
            BY SchemaFacts
        <3>2. es[c] = FieldsOf(rows_[t], c)
            BY <2>5, <1>6 DEF Fits, Match
        <3>3. FieldsOf(r, c) \in Seq(Int) /\ Len(FieldsOf(r, c)) = m
              /\ \A k \in 1..m : FieldsOf(r, c)[k] = Field[c][r[s][k]]
            BY <3>1, <1>5, FieldsFacts
        <3>4. Len(rows_[t][s]) = n
            BY <3>1, <1>2 DEF Aligned
        <3>5. \A i \in 1..n : FieldsOf(rows_[t], c)[i] = Field[c][rows_[t][s][i]]
            BY <3>4, <1>2, FieldsFacts
        <3> HIDE DEF s
        <3>6. \A k \in 1..m : FieldsOf(r, c)[k] = ds[c][k]
            <4> SUFFICES ASSUME NEW k \in 1..m PROVE FieldsOf(r, c)[k] = ds[c][k]
                OBVIOUS
            <4>1. p[k] \in 1..n /\ r[s][k] = rows_[t][s][p[k]]
                BY <3>1, <1>3, <1>5
            <4>2. ds[c][k] = es[c][p[k]]
                BY <2>2
            <4>3. es[c][p[k]] = Field[c][rows_[t][s][p[k]]]
                BY <3>2, <3>5, <4>1
            <4> QED
                BY <3>3, <4>1, <4>2, <4>3
        <3> HIDE DEF ds
        <3> QED
            BY <2>4, <3>3, <3>6, SeqEqual
    <2> QED
        BY <2>4, <2>5
<1>7. \A c \in Col : es[c] \in {Null, <<>>} => ds[c] = Null
    OBVIOUS
<1>8. ds = [c \in Col |-> ds[c]]
    OBVIOUS
<1> HIDE DEF ds
<1>9. ds \in ColumnsType
    <2>1. \A c \in Col : ds[c] \in Seq(Int) \cup {Null}
        BY <1>6, <1>7
    <2> QED
        BY <1>8, <2>1 DEF ColumnsType
<1>10. Fits(r, ds)
    <2>1. Sized(r, ds)
        BY <1>5, <1>6, <1>7 DEF Sized
    <2>2. OwnKeys => Match(r, ds)
        BY <1>6, <1>7 DEF Match
    <2> QED
        BY <1>5, <2>1, <2>2 DEF Fits
<1> QED
    BY <1>1, <1>5, <1>9, <1>10, TwoTables

LEMMA DuplicatesFacts ==
    ASSUME TableInv, NEW t \in Tab, NEW cs, NEW i \in 1..Count(t)
    PROVE  LET q == InOrder(Duplicates(t, cs, i)) IN
           /\ q \in Seq(1..Count(t)) /\ Len(q) + 1 <= Count(t)
           /\ ToSet(q) = Duplicates(t, cs, i)
<1> DEFINE n == Count(t)
           D == Duplicates(t, cs, i)
           q == InOrder(D)
<1>1. n \in Nat
    BY TableFacts
<1>2. D \in SUBSET (1..n) /\ i \notin D
    BY <1>1 DEF Duplicates
<1> HIDE DEF D
<1>3. /\ IsFiniteSet(D) /\ Cardinality(D) \in Nat
      /\ q \in Seq(D) /\ Len(q) = Cardinality(D) /\ ToSet(q) = D
    BY <1>1, <1>2, InOrderFacts
<1>4. Cardinality(D \cup {i}) = Cardinality(D) + 1
    BY <1>2, <1>3, FS_AddElement
<1>5. Cardinality(D \cup {i}) <= n
    <2>1. (D \cup {i}) \in SUBSET (1..n)
        BY <1>2
    <2> QED
        BY <1>1, <2>1, InOrderFacts
<1>6. ASSUME NEW A, NEW B, A \in SUBSET B PROVE Seq(A) \subseteq Seq(B)
    BY <1>6
<1> HIDE DEF q
<1> QED
    BY <1>1, <1>2, <1>3, <1>4, <1>5, <1>6 DEF q, D

LEMMA FirstsFacts ==
    ASSUME TableInv, NEW t \in Tab, NEW cs
    PROVE  /\ Firsts(t, cs) \in SUBSET (1..Count(t)) /\ IsFiniteSet(Firsts(t, cs))
           /\ Cardinality(Firsts(t, cs)) \in Nat /\ Cardinality(Firsts(t, cs)) <= Count(t)
<1>1. Count(t) \in Nat
    BY TableFacts
<1>2. Firsts(t, cs) \in SUBSET (1..Count(t))
    BY DEF Firsts
<1> QED
    BY <1>1, <1>2, InOrderFacts

LEMMA GroupByKeeps ==
    ASSUME TableInv, NEW t \in Tab, NEW u \in Tab, NEW cs \in SUBSET Col, GroupBy(t, u, cs)
    PROVE  TableInv'
<1>1. torn[t] = 0
    BY DEF GroupBy
<1>2. PICK i \in Firsts(t, cs) : SubTable(t, u, Group(t, cs, i), LoadedColumns(t, cs))
    BY DEF GroupBy
<1>3. i \in 1..Count(t) /\ Count(t) \in Nat
    BY FirstsFacts, TableFacts
<1> DEFINE q == InOrder(Duplicates(t, cs, i))
<1>4. q \in Seq(1..Count(t)) /\ Len(q) + 1 <= Count(t)
    BY <1>3, DuplicatesFacts
<1>5. Group(t, cs, i) = Append(q, i)
    BY DEF Group
<1> HIDE DEF q
<1>6. Append(q, i) \in Seq(1..Count(t)) /\ Len(Append(q, i)) <= Count(t)
    BY <1>3, <1>4
<1>7. LoadedColumns(t, cs) \in ColumnsType /\ Fits(rows_[t], LoadedColumns(t, cs))
    BY <1>1, LoadedFacts
<1> QED
    BY <1>1, <1>2, <1>5, <1>6, <1>7, SubTableKeeps

LEMMA GroupByVectorKeeps ==
    ASSUME TableInv, NEW t \in Tab, NEW u \in Tab, NEW c \in Col, GroupByVector(t, u, c)
    PROVE  TableInv'
<1>1. torn[t] = 0
    BY DEF GroupByVector
<1>2. PICK i \in Firsts(t, {c}) :
        SubTable(t, u, <<i>> \o InOrder(Duplicates(t, {c}, i)), LoadedColumns(t, {c}))
    BY DEF GroupByVector
<1>3. i \in 1..Count(t) /\ Count(t) \in Nat
    BY FirstsFacts, TableFacts
<1> DEFINE q == InOrder(Duplicates(t, {c}, i))
           p == <<i>> \o q
<1>4. q \in Seq(1..Count(t)) /\ Len(q) + 1 <= Count(t)
    BY <1>3, DuplicatesFacts
<1> HIDE DEF q
<1>5. <<i>> \in Seq(1..Count(t)) /\ Len(<<i>>) = 1
    BY <1>3
<1>6. p \in Seq(1..Count(t)) /\ Len(p) = 1 + Len(q)
    BY <1>4, <1>5, ConcatProperties
<1> HIDE DEF p
<1>7. Len(p) <= Count(t)
    BY <1>3, <1>4, <1>6
<1>8. LoadedColumns(t, {c}) \in ColumnsType /\ Fits(rows_[t], LoadedColumns(t, {c}))
    BY <1>1, LoadedFacts
<1>9. SubTable(t, u, p, LoadedColumns(t, {c}))
    BY <1>2 DEF p, q
<1> QED
    BY <1>1, <1>6, <1>7, <1>8, <1>9, SubTableKeeps

(* The rows of t at the places p take the place of its rows. *)
LEMMA ReplacedKeeps ==
    ASSUME TableInv, NEW t \in Tab, NEW cs, torn[t] = 0, NEW p \in Seq(1..Count(t)),
           Len(p) <= Count(t),
           rows_' = [rows_ EXCEPT ![t] = Gather(t, p)],
           column' = [column EXCEPT ![t] =
               [c \in Col |-> IF LoadedColumns(t, cs)[c] = Null THEN Null ELSE <<>>]],
           torn' = torn
    PROVE  TableInv'
<1> DEFINE ds == [c \in Col |-> IF LoadedColumns(t, cs)[c] = Null THEN Null ELSE <<>>]
           r == Gather(t, p)
<1>1. RowsTyped(r) /\ Aligned(r)
    BY GatherTyped
<1>2. ds = [c \in Col |-> ds[c]] /\ \A c \in Col : ds[c] \in {Null, <<>>}
    OBVIOUS
<1>3. column' = [column EXCEPT ![t] = ds] /\ rows_' = [rows_ EXCEPT ![t] = r]
    OBVIOUS
<1> HIDE DEF r, ds
<1>4. ds \in ColumnsType /\ Fits(r, ds)
    BY <1>1, <1>2, EmptyColumnsFit
<1>5. torn[t] \in Nat /\ torn' = [torn EXCEPT ![t] = torn[t]]
    BY DEF TableInv
<1>6. Sound(r, ds, torn[t])
    BY <1>1, <1>4, FitsSound
<1> QED
    BY <1>3, <1>5, <1>6, OneTable

LEMMA DistinctKeeps ==
    ASSUME TableInv, NEW t \in Tab, NEW cs \in SUBSET Col, Distinct(t, cs)
    PROVE  TableInv'
<1> DEFINE p == Selected(t, DistinctMask(t, cs))
<1>1. DistinctMask(t, cs) \in SUBSET (1..Count(t))
    BY DEF DistinctMask
<1>2. p \in Seq(1..Count(t)) /\ Len(p) <= Count(t)
    BY <1>1, SelectedFacts
<1> HIDE DEF p
<1> QED
    BY <1>2, ReplacedKeeps DEF Distinct, p

LEMMA DistinctMergeKeeps ==
    ASSUME TableInv, NEW t \in Tab, NEW cs \in SUBSET Col, DistinctMerge(t, cs)
    PROVE  TableInv'
<1>1. PICK p \in Merged(t, cs) : rows_' = [rows_ EXCEPT ![t] = Gather(t, p)]
    BY DEF DistinctMerge
<1>2. Cardinality(Firsts(t, cs)) \in Nat /\ Cardinality(Firsts(t, cs)) <= Count(t)
    BY FirstsFacts
<1>3. p \in [1..Cardinality(Firsts(t, cs)) -> 1..Count(t)]
    BY DEF Merged
<1>4. p \in Seq(1..Count(t)) /\ Len(p) = Cardinality(Firsts(t, cs))
    BY <1>2, <1>3, FcnIsSeq
<1>5. Len(p) <= Count(t)
    BY <1>2, <1>4
<1> QED
    BY <1>1, <1>4, <1>5, ReplacedKeeps DEF DistinctMerge

-----------------------------------------------------------------------------
(* The invariant holds of every sequence of operations. *)

LEMMA TableInitInv == ASSUME TableInit PROVE TableInv
<1> DEFINE r == [s \in Schema |-> <<>>]
<1>1. \A s \in Schema : r[s] \in Seq(Obj[s]) /\ r[s] \in Seq(AnyObj) /\ Len(r[s]) = 0
    OBVIOUS
<1>2. RowsTyped(r) /\ Aligned(r)
    <2>1. r \in RowsType
        BY <1>1 DEF RowsType
    <2> HIDE DEF r
    <2> QED
        BY <1>1, <2>1, SchemaFacts, TableAssumption DEF RowsTyped, Aligned
<1>3. NewColumns \in ColumnsType /\ Fits(r, NewColumns)
    BY <1>2, NewColumnsFit
<1>4. Sound(r, NewColumns, 0)
    BY <1>2, <1>3, FitsSound
<1>5. r \in RowsType
    BY <1>2 DEF RowsTyped
<1>6. /\ rows_ = [t \in Tab |-> r] /\ column = [t \in Tab |-> NewColumns]
      /\ torn = [t \in Tab |-> 0]
    BY DEF TableInit
<1> HIDE DEF r
<1>7. torn \in [Tab -> Nat] /\ rows_ \in [Tab -> RowsType] /\ column \in [Tab -> ColumnsType]
    BY <1>3, <1>5, <1>6
<1>8. \A t \in Tab : Sound(rows_[t], column[t], torn[t])
    BY <1>4, <1>6
<1> QED
    BY <1>7, <1>8 DEF TableInv

LEMMA TableNextInv == ASSUME TableInv, [TableNext]_tableVars PROVE TableInv'
<1>0. \A k \in 0..MaxRows : k \in Nat
    BY TableAssumption
<1>1. CASE UNCHANGED tableVars
    BY <1>1 DEF TableInv, Sound, RowsTyped, WithinRefused, Fits, Aligned, Sized, Match, FieldsOf, tableVars
<1>2. ASSUME NEW t \in Tab, InPlace(t) PROVE TableInv'
    <2>1. CASE \E c \in Col : Get(t, c) \/ GetColumnByOffset(t, c) \/ UnloadColumn(t, c)
        BY <2>1, ReadingKeeps
    <2>2. CASE UnloadAllColumns(t)
        BY <2>2, UnloadAllKeeps
    <2>3. CASE \E parts \in Parts(Batch) : AddRows(t, parts)
        BY <2>3, AddRowsKeeps
    <2>4. CASE \E pos \in 0..MaxRows, parts \in Parts(Singles) : InsertRow(t, pos, parts)
        BY <1>0, <2>4, InsertRowKeeps
    <2>5. CASE \E cs \in (SUBSET Col) \ {{}} : Distinct(t, cs) \/ DistinctMerge(t, cs)
        BY <2>5, DistinctKeeps, DistinctMergeKeeps
    <2> QED
        BY <1>2, <2>1, <2>2, <2>3, <2>4, <2>5 DEF InPlace
<1>3. ASSUME NEW t \in Tab, NEW u \in Tab, Returning(t, u) PROVE TableInv'
    <2>1. ASSUME NEW bits, Filter(t, u, bits) PROVE TableInv'
        BY <2>1, FilterKeeps
    <2>2. ASSUME NEW bits, NEW v \in Tab, Split(t, u, v, bits) PROVE TableInv'
        BY <2>2, SplitKeeps
    <2>3. ASSUME NEW k \in 0..MaxRows, HeadRows(t, u, k) \/ TailRows(t, u, k) PROVE TableInv'
        BY <1>0, <2>3, HeadKeeps, TailKeeps
    <2>4. ASSUME NEW other \in Tab, Concat(t, u, other) PROVE TableInv'
        BY <2>4, ConcatKeeps
    <2>5. ASSUME NEW c \in Col, GroupByVector(t, u, c) PROVE TableInv'
        BY <2>5, GroupByVectorKeeps
    <2>6. ASSUME NEW cs \in SUBSET Col, GroupBy(t, u, cs) PROVE TableInv'
        BY <2>6, GroupByKeeps
    <2>7. ASSUME NEW c \in Col, NEW k \in 0..MaxRows, NEW how \in KeySources,
                 NEW descending \in BOOLEAN, Topk(t, u, c, k, how, descending)
          PROVE  TableInv'
        BY <1>0, <2>7, TopkKeeps
    <2> QED
        BY <1>3, <2>1, <2>2, <2>3, <2>4, <2>5, <2>6, <2>7 DEF Returning
<1> QED
    BY <1>1, <1>2, <1>3 DEF TableNext

LEMMA TableInvariant == TableSpec => []TableInv
BY TableInitInv, TableNextInv, PTL DEF TableSpec

(* Type correctness: a row list only holds row objects of its schema, a       *)
(* column numbers, whatever the callers do.                                   *)
THEOREM TableTypeCorrect == TableSpec => []TableTypeOK
<1>1. ASSUME TableInv PROVE TableTypeOK
    <2>1. \A t \in Tab, s \in Schema : rows_[t][s] \in Seq(Obj[s]) /\ Len(rows_[t][s]) <= MaxRows
        BY <1>1, TableFacts, RowsFacts
    <2>2. \A t \in Tab, c \in Col : column[t][c] # Null => column[t][c] \in Seq(Int)
        BY <1>1, TableFacts DEF ColumnsType
    <2> QED
        BY <1>1, <2>1, <2>2 DEF TableInv, TableTypeOK
<1> QED
    BY <1>1, TableInvariant, PTL

(* The row lists of a table are equally long after every operation: AddRows   *)
(* and InsertRow of several lists, filters, sorts, groups and merges.  After  *)
(* calls that were refused half way, and whatever is added then, the last     *)
(* list is shorter by exactly the rows these left, and no other by more.      *)
THEOREM TableRowsAligned == TableSpec => []RowsAligned
<1>1. ASSUME TableInv PROVE RowsAligned
    <2> SUFFICES ASSUME NEW t \in Tab
                 PROVE  /\ Len(rows_[t][NumSchemas]) = Count(t) - torn[t]
                        /\ \A s \in Schema : Len(rows_[t][s]) \in (Count(t) - torn[t])..Count(t)
        BY DEF RowsAligned
    <2>1. /\ RowsTyped(rows_[t]) /\ WithinRefused(rows_[t], torn[t]) /\ torn[t] \in Nat
          /\ Count(t) = Len(rows_[t][1]) /\ Count(t) \in Nat
        BY <1>1, TableFacts DEF TableInv, Sound
    <2> QED
        BY <2>1, RowsFacts DEF WithinRefused
<1> QED
    BY <1>1, TableInvariant, PTL

(* While callers sort by keys of their own, a cached column shows the fields  *)
(* of the rows that the table has now.                                        *)
THEOREM TableColumnsMatchRows ==
    ASSUME KeySources \subseteq {"copy"}
    PROVE  TableSpec => []ColumnsMatchRows
<1>1. ASSUME TableInv PROVE ColumnsMatchRows
    <2> SUFFICES ASSUME NEW t \in Tab, NEW c \in Col, torn[t] = 0
                 PROVE  column[t][c] \in {Null, <<>>, Fields(t, c)}
        BY DEF ColumnsMatchRows
    <2>1. Fits(rows_[t], column[t]) /\ Fields(t, c) = FieldsOf(rows_[t], c)
        BY <1>1, TableFacts
    <2> QED
        BY <2>1 DEF Fits, Match, OwnKeys
<1> QED
    BY <1>1, TableInvariant, PTL

-----------------------------------------------------------------------------
(* What GroupBy, Distinct, OrderBy and Topk read from the columns. *)

Agree(t, cs, i, j) == \A c \in cs : Fields(t, c)[i] = Fields(t, c)[j]

(* A column that is read shows the rows. *)
LEMMA LoadedIsFields ==
    ASSUME TableInv, OwnKeys, NEW t \in Tab, torn[t] = 0, Count(t) # 0, NEW c \in Col
    PROVE  /\ Loaded(t, c) = Fields(t, c) /\ Fields(t, c) \in Seq(Int)
           /\ Len(Fields(t, c)) = Count(t) /\ Fields(t, c) \notin {Null, <<>>}
<1>1. /\ RowsTyped(rows_[t]) /\ Fits(rows_[t], column[t]) /\ Count(t) = Len(rows_[t][1])
      /\ Fields(t, c) = FieldsOf(rows_[t], c)
    BY TableFacts
<1>2. column[t][c] \in {Null, <<>>, Fields(t, c)}
    BY <1>1 DEF Fits, Match
<1>3. Loaded(t, c) = Fields(t, c)
    BY <1>2 DEF Loaded, NeedsLoad, LoadColumn
<1>4. Len(rows_[t][ColSchema[c]]) = Count(t)
    BY <1>1, SchemaFacts DEF Fits, Aligned
<1>5. Fields(t, c) \in Seq(Int) /\ Len(Fields(t, c)) = Count(t)
    BY <1>1, <1>4, FieldsFacts
<1>6. Fields(t, c) # Null
    BY <1>5, TableAssumption
<1>7. Fields(t, c) # <<>>
    BY <1>5
<1> QED
    BY <1>3, <1>5, <1>6, <1>7

LEMMA KeyIsAgreement ==
    ASSUME TableInv, OwnKeys, NEW t \in Tab, torn[t] = 0, NEW cs \in SUBSET Col,
           NEW i \in 1..Count(t), NEW j \in 1..Count(t)
    PROVE  KeyOf(t, cs, i) = KeyOf(t, cs, j) <=> Agree(t, cs, i, j)
<1>1. Count(t) # 0
    BY TableFacts
<1>2. \A c \in cs : Loaded(t, c) = Fields(t, c)
    BY <1>1, LoadedIsFields
<1>3. /\ KeyOf(t, cs, i) = [c \in cs |-> Fields(t, c)[i]]
      /\ KeyOf(t, cs, j) = [c \in cs |-> Fields(t, c)[j]]
    BY <1>2 DEF KeyOf
<1>4. ASSUME KeyOf(t, cs, i) = KeyOf(t, cs, j) PROVE Agree(t, cs, i, j)
    <2>1. \A c \in cs : KeyOf(t, cs, i)[c] = KeyOf(t, cs, j)[c]
        BY <1>4
    <2> QED
        BY <1>3, <2>1 DEF Agree
<1>5. ASSUME Agree(t, cs, i, j) PROVE KeyOf(t, cs, i) = KeyOf(t, cs, j)
    BY <1>3, <1>5 DEF Agree
<1> QED
    BY <1>4, <1>5

(* Every row agrees with a first row, before which no row agrees with it. *)
LEMMA FirstOf ==
    ASSUME TableInv, OwnKeys, NEW t \in Tab, torn[t] = 0, NEW cs \in SUBSET Col,
           NEW i \in 1..Count(t)
    PROVE  \E f \in Firsts(t, cs) :
              Agree(t, cs, f, i) /\ \A j \in 1..Count(t) : Agree(t, cs, j, i) => f <= j
<1> DEFINE S == {j \in 1..Count(t) : Agree(t, cs, j, i)}
<1>1. Count(t) \in Nat
    BY TableFacts
<1>2. S \in SUBSET Nat /\ i \in S
    BY <1>1 DEF Agree
<1>3. PICK f \in S : \A j \in S : f <= j
    BY <1>2, LeastElement
<1>4. f \in 1..Count(t) /\ Agree(t, cs, f, i)
    BY <1>3
<1>5. ASSUME NEW j \in 1..(f - 1) PROVE KeyOf(t, cs, j) # KeyOf(t, cs, f)
    <2>1. j \in 1..Count(t) /\ j < f
        BY <1>1, <1>4
    <2>2. j \notin S
        BY <2>1, <1>3, <1>4
    <2>3. ~Agree(t, cs, j, f)
        BY <2>1, <2>2, <1>4 DEF Agree
    <2> QED
        BY <2>1, <2>3, <1>4, KeyIsAgreement
<1>6. f \in Firsts(t, cs)
    BY <1>4, <1>5 DEF Firsts
<1> QED
    BY <1>3, <1>4, <1>6

(* The rows of a group: the ones from its first row on that agree with it. *)
LEMMA GroupMembers ==
    ASSUME TableInv, OwnKeys, NEW t \in Tab, torn[t] = 0, NEW cs \in SUBSET Col,
           NEW f \in 1..Count(t)
    PROVE  ToSet(Group(t, cs, f)) = {j \in 1..Count(t) : f <= j /\ Agree(t, cs, j, f)}
<1> DEFINE n == Count(t)
           D == Duplicates(t, cs, f)
           q == InOrder(D)
<1>1. n \in Nat /\ f \in Nat
    BY TableFacts
<1>2. q \in Seq(1..n) /\ ToSet(q) = D
    BY DuplicatesFacts
<1>3. D = {j \in 1..n : f < j /\ Agree(t, cs, j, f)}
    <2>1. \A j \in 1..n : KeyOf(t, cs, j) = KeyOf(t, cs, f) <=> Agree(t, cs, j, f)
        BY KeyIsAgreement
    <2>2. \A j : j \in (f + 1)..n <=> (j \in 1..n /\ f < j)
        BY <1>1
    <2> QED
        BY <2>1, <2>2 DEF Duplicates
<1>4. Group(t, cs, f) = Append(q, f)
    BY DEF Group
<1> HIDE DEF q, D, n
<1>5. ToSet(Append(q, f)) = ToSet(q) \cup {f}
    <2>1. /\ Len(q) \in Nat /\ DOMAIN q = 1..Len(q) /\ DOMAIN Append(q, f) = 1..(Len(q) + 1)
          /\ Append(q, f)[Len(q) + 1] = f /\ \A i \in 1..Len(q) : Append(q, f)[i] = q[i]
        BY <1>2
    <2>2. \A i : i \in 1..(Len(q) + 1) <=> (i \in 1..Len(q) \/ i = Len(q) + 1)
        BY <2>1
    <2> QED
        BY <2>1, <2>2 DEF ToSet
<1>6. Agree(t, cs, f, f)
    BY DEF Agree
<1>7. \A j \in 1..n : f <= j <=> (f < j \/ j = f)
    BY <1>1
<1> QED
    BY <1>2, <1>3, <1>4, <1>5, <1>6, <1>7 DEF n

(* While callers sort by keys of their own, two rows share a group exactly if *)
(* they agree in the columns given, and every row is in one.                  *)
THEOREM TableGroupsAreClasses ==
    ASSUME KeySources \subseteq {"copy"}
    PROVE  TableSpec => []GroupsAreClasses
<1>1. ASSUME TableInv PROVE GroupsAreClasses
    <2> SUFFICES ASSUME NEW t \in Tab, NEW cs \in SUBSET Col, torn[t] = 0
                 PROVE  LET groups == {Group(t, cs, i) : i \in Firsts(t, cs)} IN
                        /\ \A i \in 1..Count(t) : \E g \in groups : i \in ToSet(g)
                        /\ \A i, j \in 1..Count(t) :
                             (\E g \in groups : {i, j} \subseteq ToSet(g))
                                <=> (\A c \in cs : Fields(t, c)[i] = Fields(t, c)[j])
        BY DEF GroupsAreClasses
    <2> DEFINE groups == {Group(t, cs, i) : i \in Firsts(t, cs)}
    <2>0. OwnKeys /\ Firsts(t, cs) \in SUBSET (1..Count(t))
        BY <1>1, FirstsFacts DEF OwnKeys
    <2>1. \A f \in Firsts(t, cs) :
             ToSet(Group(t, cs, f)) = {j \in 1..Count(t) : f <= j /\ Agree(t, cs, j, f)}
        BY <1>1, <2>0, GroupMembers
    <2>2. ASSUME NEW i \in 1..Count(t), NEW j \in 1..Count(t), Agree(t, cs, i, j)
          PROVE  \E g \in groups : {i, j} \subseteq ToSet(g)
        <3>1. PICK f \in Firsts(t, cs) :
                Agree(t, cs, f, i) /\ \A k \in 1..Count(t) : Agree(t, cs, k, i) => f <= k
            BY <1>1, <2>0, FirstOf
        <3>2. Agree(t, cs, i, i) /\ Agree(t, cs, j, i) /\ Agree(t, cs, i, f) /\ Agree(t, cs, j, f)
            BY <2>2, <3>1 DEF Agree
        <3>3. i \in ToSet(Group(t, cs, f)) /\ j \in ToSet(Group(t, cs, f))
            BY <2>1, <3>1, <3>2
        <3> QED
            BY <3>3
    <2>3. ASSUME NEW i \in 1..Count(t), NEW j \in 1..Count(t), NEW g \in groups,
                 {i, j} \subseteq ToSet(g)
          PROVE  Agree(t, cs, i, j)
        <3>1. PICK f \in Firsts(t, cs) : g = Group(t, cs, f)
            OBVIOUS
        <3>2. Agree(t, cs, i, f) /\ Agree(t, cs, j, f)
            BY <2>1, <2>3, <3>1
        <3> QED
            BY <3>2 DEF Agree
    <2>4. ASSUME NEW i \in 1..Count(t) PROVE \E g \in groups : i \in ToSet(g)
        <3>1. Agree(t, cs, i, i)
            BY DEF Agree
        <3> QED
            BY <2>2, <3>1
    <2> HIDE DEF groups
    <2>5. \A i, j \in 1..Count(t) :
             (\E g \in groups : {i, j} \subseteq ToSet(g)) <=> Agree(t, cs, i, j)
        BY <2>2, <2>3
    <2> QED
        BY <2>4, <2>5 DEF Agree, groups
<1> QED
    BY <1>1, TableInvariant, PTL

(* The mask of one column: no earlier row agrees in it. *)
LEMMA DedupFacts ==
    ASSUME TableInv, OwnKeys, NEW t \in Tab, torn[t] = 0, NEW c \in Col, NEW i \in 1..Count(t)
    PROVE  i \in Dedup(t, c, 1) <=> \A j \in 1..(i - 1) : ~Agree(t, {c}, j, i)
<1> DEFINE E == {j \in 1..(i - 1) : KeyOf(t, {c}, j) = KeyOf(t, {c}, i)}
<1>1. Count(t) \in Nat /\ i \in Nat /\ \A j \in 1..(i - 1) : j \in 1..Count(t)
    BY TableFacts
<1>2. E \in SUBSET (1..Count(t))
    BY <1>1
<1>3. IsFiniteSet(E) /\ Cardinality(E) \in Nat
    BY <1>1, <1>2, InOrderFacts
<1>4. i \in Dedup(t, c, 1) <=> Cardinality(E) < 1
    BY DEF Dedup
<1>5. E = {} <=> \A j \in 1..(i - 1) : ~Agree(t, {c}, j, i)
    <2>1. \A j \in 1..(i - 1) : KeyOf(t, {c}, j) = KeyOf(t, {c}, i) <=> Agree(t, {c}, j, i)
        BY <1>1, KeyIsAgreement
    <2> QED
        BY <2>1
<1> HIDE DEF E
<1>6. Cardinality(E) < 1 <=> E = {}
    BY <1>3, FS_EmptySet
<1> QED
    BY <1>4, <1>5, <1>6

(* While callers sort by keys of their own, Distinct leaves no two rows that  *)
(* agree in a column and over one column loses no value, and a merge leaves   *)
(* exactly one row for each key.                                              *)
THEOREM TableDistinctKeys ==
    ASSUME KeySources \subseteq {"copy"}
    PROVE  TableSpec => []DistinctKeys
<1>1. ASSUME TableInv, NEW t \in Tab, NEW cs \in SUBSET Col, torn[t] = 0
      PROVE  LET Key(i) == [c \in cs |-> Fields(t, c)[i]]
                 Keys   == {Key(i) : i \in 1..Count(t)}
                 kept   == DistinctMask(t, cs) IN
             /\ \A i, j \in kept : i # j => \A c \in cs : Key(i)[c] # Key(j)[c]
             /\ Cardinality(cs) = 1 => {Key(i) : i \in kept} = Keys
             /\ \A p \in Merged(t, cs) :
                  Cardinality(Keys) = Len(p) /\ {Key(p[k]) : k \in DOMAIN p} = Keys
    <2> DEFINE Key(i) == [c \in cs |-> Fields(t, c)[i]]
               Keys == {Key(i) : i \in 1..Count(t)}
               kept == DistinctMask(t, cs)
               F == Firsts(t, cs)
    <2>0. OwnKeys /\ Count(t) \in Nat
        BY <1>1, TableFacts DEF OwnKeys
    <2>1. \A i, j \in 1..Count(t) : Key(i) = Key(j) <=> Agree(t, cs, i, j)
        <3> SUFFICES ASSUME NEW i, NEW j PROVE Key(i) = Key(j) <=> Agree(t, cs, i, j)
            OBVIOUS
        <3>1. \A c \in cs : Key(i)[c] = Fields(t, c)[i] /\ Key(j)[c] = Fields(t, c)[j]
            OBVIOUS
        <3>2. ASSUME Agree(t, cs, i, j) PROVE Key(i) = Key(j)
            BY <3>2 DEF Agree
        <3>3. ASSUME Key(i) = Key(j) PROVE Agree(t, cs, i, j)
            <4>1. \A c \in cs : Key(i)[c] = Key(j)[c]
                BY <3>3
            <4> QED
                BY <3>1, <4>1 DEF Agree
        <3> QED
            BY <3>2, <3>3
    <2>2. \A c \in cs : \A i : Key(i)[c] = Fields(t, c)[i]
        OBVIOUS
    <2> HIDE DEF Key
    <2>3. ASSUME NEW i \in kept, NEW j \in kept, NEW c \in cs, i < j
          PROVE  Key(i)[c] # Key(j)[c]
        <3>1. i \in 1..Count(t) /\ j \in 1..Count(t) /\ j \in Dedup(t, c, 1) /\ c \in Col
            BY <1>1 DEF DistinctMask
        <3>2. i \in 1..(j - 1)
            BY <2>0, <2>3, <3>1
        <3>3. ~Agree(t, {c}, i, j)
            BY <1>1, <2>0, <3>1, <3>2, DedupFacts
        <3> QED
            BY <2>2, <3>3 DEF Agree
    <2>4. \A i, j \in kept : i # j => \A c \in cs : Key(i)[c] # Key(j)[c]
        <3> SUFFICES ASSUME NEW i \in kept, NEW j \in kept, i # j, NEW c \in cs
                     PROVE  Key(i)[c] # Key(j)[c]
            OBVIOUS
        <3>1. i \in 1..Count(t) /\ j \in 1..Count(t)
            BY DEF DistinctMask
        <3>2. i < j \/ j < i
            BY <2>0, <3>1
        <3> QED
            BY <2>3, <3>2
    <2>5. ASSUME NEW i \in 1..Count(t)
          PROVE  \E f \in F : Key(f) = Key(i)
        <3>1. PICK f \in F : Agree(t, cs, f, i)
            BY <1>1, <2>0, FirstOf
        <3>2. f \in 1..Count(t)
            BY <1>1, FirstsFacts
        <3> QED
            BY <2>1, <3>1, <3>2
    <2>6. ASSUME Cardinality(cs) = 1 PROVE {Key(i) : i \in kept} = Keys
        <3>1. PICK c : cs = {c}
            <4>1. IsFiniteSet(cs)
                BY <1>1, TableAssumption, FS_Subset
            <4> QED
                BY <2>6, <4>1, FS_Singleton
        <3>2. kept \in SUBSET (1..Count(t))
            BY DEF DistinctMask
        <3>3. ASSUME NEW f \in F PROVE f \in kept
            <4>1. f \in 1..Count(t) /\ \A j \in 1..(f - 1) : KeyOf(t, cs, j) # KeyOf(t, cs, f)
                BY DEF Firsts
            <4>2. \A j \in 1..(f - 1) : j \in 1..Count(t)
                BY <2>0, <4>1
            <4>3. \A j \in 1..(f - 1) : ~Agree(t, {c}, j, f)
                BY <1>1, <2>0, <3>1, <4>1, <4>2, KeyIsAgreement
            <4>4. f \in Dedup(t, c, 1)
                BY <1>1, <2>0, <3>1, <4>1, <4>3, DedupFacts
            <4> QED
                BY <3>1, <4>1, <4>4 DEF DistinctMask
        <3> HIDE DEF kept, F
        <3> QED
            BY <2>5, <3>2, <3>3
    <2>7. Cardinality(Keys) = Cardinality(F)
        <3> DEFINE b == [i \in F |-> Key(i)]
        <3>1. F \in SUBSET (1..Count(t)) /\ IsFiniteSet(F)
            BY <1>1, FirstsFacts
        <3>2. \A i, j \in F : Key(i) = Key(j) => i = j
            <4> SUFFICES ASSUME NEW i \in F, NEW j \in F, i < j, Key(i) = Key(j) PROVE FALSE
                <5>1. \A i, j \in F : i \in Nat /\ j \in Nat
                    BY <2>0, <3>1
                <5>2. \A i, j \in F : i < j \/ j < i \/ i = j
                    BY <5>1
                <5> QED
                    BY <5>2
            <4>1. i \in 1..Count(t) /\ j \in 1..Count(t)
                BY <3>1
            <4>2. i \in 1..(j - 1)
                BY <2>0, <4>1
            <4>3. KeyOf(t, cs, i) # KeyOf(t, cs, j)
                BY <4>2 DEF Firsts
            <4> QED
                BY <1>1, <2>0, <2>1, <4>1, <4>3, KeyIsAgreement
        <3> HIDE DEF F
        <3>3. Keys = {Key(i) : i \in F}
            BY <2>5, <3>1
        <3> HIDE DEF Keys
        <3>4. b \in [F -> Keys] /\ \A i \in F : b[i] = Key(i)
            BY <3>3
        <3> HIDE DEF b
        <3>5. b \in Bijection(F, Keys)
            BY <3>2, <3>3, <3>4 DEF Bijection, Injection, Surjection, IsInjective
        <3> QED
            BY <3>1, <3>5, FS_Bijection DEF ExistsBijection
    <2>8. ASSUME NEW p \in Merged(t, cs)
          PROVE  Cardinality(Keys) = Len(p) /\ {Key(p[k]) : k \in DOMAIN p} = Keys
        <3>1. p \in [1..Cardinality(F) -> 1..Count(t)]
              /\ \A f \in F : \E k \in DOMAIN p : p[k] \in {f} \cup Duplicates(t, cs, f)
            BY DEF Merged
        <3>2. Cardinality(F) \in Nat /\ F \in SUBSET (1..Count(t))
            BY <1>1, FirstsFacts
        <3>3. Len(p) = Cardinality(F) /\ \A k \in DOMAIN p : p[k] \in 1..Count(t)
            BY <3>1, <3>2, FcnIsSeq
        <3>4. ASSUME NEW f \in F, NEW j \in Duplicates(t, cs, f) PROVE j \in 1..Count(t) /\ Key(j) = Key(f)
            <4>1. f \in 1..Count(t)
                BY <3>2
            <4>2. j \in 1..Count(t) /\ KeyOf(t, cs, j) = KeyOf(t, cs, f)
                BY <4>1, <2>0 DEF Duplicates
            <4> QED
                BY <1>1, <2>0, <2>1, <4>1, <4>2, KeyIsAgreement
        <3>5. ASSUME NEW i \in 1..Count(t) PROVE \E k \in DOMAIN p : Key(p[k]) = Key(i)
            BY <2>5, <3>1, <3>4
        <3> QED
            BY <2>7, <3>3, <3>5
    <2> QED
        BY <2>4, <2>6, <2>8 DEF Key
<1>2. ASSUME TableInv PROVE DistinctKeys
    BY <1>1, <1>2 DEF DistinctKeys
<1> QED
    BY <1>2, TableInvariant, PTL
=============================================================================
