-------------------------------- MODULE Schema --------------------------------
(***************************************************************************)
(* Dynamic object schemas and table schemas with their types               *)
(* (types/dyn_object_schema.h, table/table_schema.cc): which fields can be *)
(* added, and the columns taken from protobuf, flatbuffers and struct      *)
(* descriptions.  DynObjectSchema has the registry and the layout; Reflect *)
(* is filled first, by static initialisers.                                *)
(***************************************************************************)
EXTENDS Reflect, DynObjectSchema, SequencesExt

CONSTANTS
    ObjFieldTypes, \* C++ types passed to AddField, Set and Get
    RowSources,    \* descriptions passed to AddColumns
    ColumnOptions, \* TableColumnOptions values
    MaxRegs,       \* bound: registrations at static initialisation
    MaxFields,     \* bound: AddField and AddColumns calls
    MaxObjects     \* bound: objects made by NewObject and NewTable

VARIABLE
    started        \* static initialisation is over

schemaVars == <<started, dynVars>>
vars == <<reflectVars, schemaVars>>

-----------------------------------------------------------------------------
\* DynObjectSchema::Add: the new schema and whether it succeeded.
Add(s, name, d) ==
    LET ok == (IsPrimitive(d) \/ IsSimdVector(d)) /\ name \notin DOMAIN s.fields
    IN  [ok |-> ok, s |-> IF ok THEN Place(s, name, d, ByteSize(d)) ELSE s]

IsAllowed(opts, name) ==
    IF opts.include # {} THEN name \in opts.include ELSE name \notin opts.exclude

\* The element type AddColumn<T> gives a column: strings become string views.
ColumnElem(t0) ==
    IF t0 \in {STD_STRING, STD_STRING_VIEW, STRING_VIEW} THEN STRING_VIEW ELSE t0

\* A variant that numbers columns instead of fields.
AddColumnByPosition(s, name, t0, row, idx) ==
    LET r == Add(s, name, ToSimdVector(Fundamental(ColumnElem(t0))))
        c == [name |-> name, row |-> row, idx |-> Len(s.columns)]
    IN  [ok |-> r.ok, s |-> IF r.ok THEN [r.s EXCEPT !.columns = Append(@, c)] ELSE s]

AddColumn(s, name, t0, row, idx) ==
    LET r == Add(s, name, ToSimdVector(Fundamental(ColumnElem(t0))))
    IN  [ok |-> r.ok,
         s |-> IF r.ok THEN [r.s EXCEPT !.columns = Append(@, [name |-> name, row |-> row, idx |-> idx])]
               ELSE s]

\* Each source gives a list of fields: what one contributes is a t0, or it is
\* skipped (a method that is no getter), or it is not supported.
Unsupported == -1
Skipped == -2

PbField(f) ==
    IF f.t \in {BIT, F64, F32, I64, U64, I32, U32, STD_STRING} THEN f.t ELSE Unsupported

FbsField(f) ==
    IF f.repeating THEN Unsupported
    ELSE IF f.t \in {BIT, I8, U8, I16, U16, I32, U32, I64, U64, F32, F64, STD_STRING}
    THEN f.t ELSE Unsupported

StructField(d, m) ==
    LET getter == m.func # None /\ SameDType(ToPtr(get_dtype(m.func[1])), ToPtr(d))
        \* methods without arguments return i32 in this model
        fd == IF m.field = None THEN Fundamental(I32) ELSE Elem(m.field[1])
        valid == IsPrimitive(fd) \/ Is(fd, STD_STRING) \/ IsPtrTo(fd, STD_STRING)
        listed == (BIT .. F64 \ {F16}) \cup {STD_STRING, STD_STRING_VIEW, STRING_VIEW}
    IN  IF m.field = None /\ ~getter THEN Skipped
        ELSE IF valid /\ fd.t0 \in listed THEN fd.t0 ELSE Unsupported

SourceFields(src) ==
    IF src.kind = "pb" THEN [i \in DOMAIN src.fields |-> <<src.fields[i].name, PbField(src.fields[i])>>]
    ELSE IF src.kind = "fbs" THEN [i \in DOMAIN src.fields |-> <<src.fields[i].name, FbsField(src.fields[i])>>]
    ELSE LET d == get_dtype(src.type)
             m == MembersOf(d)
         IN  [i \in DOMAIN m.list |-> <<m.list[i], StructField(d, m.map[m.list[i]])>>]

\* The three AddColumns: columns are added one by one until one fails; the
\* RowSchema the columns point to is kept only when all went well.
AddColumns(s, src, opts) ==
    LET fields == SourceFields(src)
        row == s.made + 1
        Step(acc, i) ==
            LET name == <<opts.prefix, fields[i][1]>>
                t == fields[i][2]
                r == AddColumn(acc.s, name, t, row, i - 1)
            IN  IF acc.failed \/ ~IsAllowed(opts, fields[i][1]) \/ t = Skipped THEN acc
                ELSE IF t = Unsupported THEN [acc EXCEPT !.failed = ~opts.ignore]
                ELSE IF ~r.ok THEN [acc EXCEPT !.failed = TRUE]
                ELSE [acc EXCEPT !.s = r.s, !.valid = @ + 1]
        unknown == src.kind = "struct" /\ ~Known(get_dtype(src.type))
        all == FoldLeft(Step, [s |-> s, failed |-> FALSE, valid |-> 0], [i \in DOMAIN fields |-> i])
        ok == ~unknown /\ ~all.failed /\ all.valid > 0
    IN  IF unknown THEN s
        ELSE [all.s EXCEPT !.made = row,
                           !.rows = IF ok THEN Append(@, [row |-> row, src |-> src]) ELSE @]

\* How often schemas were extended, which the bound MaxFields limits.
Extended ==
    FoldFunctionOnSet(LAMBDA a, b : a + b, 0,
                      [i \in 1 .. Len(schemas) |-> Cardinality(DOMAIN schemas[i].fields) + schemas[i].made],
                      1 .. Len(schemas))

-----------------------------------------------------------------------------
(***************************************************************************)
(* Static initialisation: one thread, before the others run.               *)
(***************************************************************************)
Registered == FoldFunctionOnSet(LAMBDA a, b : a + b, 0,
                                [c \in DOMAIN index |-> Len(index[c].list)], DOMAIN index)

RegisterField ==
    /\ ~started /\ Registered < MaxRegs
    /\ \E T \in RegTypes, name \in MemberNames, FT \in FieldTypes : 
           /\ T.k = "leaf"
           /\ AddStructField(T, name, FT)
    /\ UNCHANGED schemaVars

RegisterMethod ==
    /\ ~started /\ Registered < MaxRegs
    /\ \E T \in RegTypes, name \in MemberNames : AddStructMethod(T, name)
    /\ UNCHANGED schemaVars

Start ==
    /\ ~started
    /\ started' = TRUE
    /\ UNCHANGED <<reflectVars, dynVars>>

-----------------------------------------------------------------------------
(***************************************************************************)
(* The program: GetOrCreate, GetMutable, objects and their fields.         *)
(***************************************************************************)
Running == started /\ UNCHANGED <<reflectVars, started>>

\* AddField<T> in an init function or through a mutable schema.
AddField(t, name, T) ==
    LET s == schemas[thread[t].h]
    IN  /\ thread[t].pc # "idle" /\ ~s.isTable /\ Extended < MaxFields
        /\ Extend(t, Add(s, name, get_dtype(T)).s)

AddColumnsOf(t, src, opts) ==
    LET s == schemas[thread[t].h]
    IN  /\ thread[t].pc # "idle" /\ s.isTable /\ Extended < MaxFields
        /\ Extend(t, AddColumns(s, src, opts))

\* sizeof(T) of what Set stores, in words: a long double takes two.
CxxWords(d) == IF Is(d, F80) THEN 2 ELSE Padded(ByteSize(d)) \div 8

\* DoSet<T>: the type must be that of the field.
Set(o, name, T) ==
    LET s == schemas[objects[o].h]
    IN  /\ ~s.isTable /\ name \in DOMAIN s.fields
        /\ SameDType(get_dtype(T), s.fields[name].dt)
        /\ Store(o, name, CxxWords(get_dtype(T)))

\* Symbols::Init at the start of a compilation: ListAll and Get lock the table.
SymbolsInit(t) ==
    LET text == [n \in DOMAIN table |->
                   <<IF schemas[table[n]].isTable THEN "table" ELSE "dyn_obj", n>>]
        bound == BoundSymbols([x \in { text[n] : n \in DOMAIN table } |-> <<x[2]>>])
    IN  /\ started /\ mutex = NoThread /\ thread[t].pc = "idle"
        /\ symbols' = bound
        /\ UNCHANGED <<index, nameToDType, dtypeToName, schemaVars>>

-----------------------------------------------------------------------------
Init == ReflectInit /\ DynInit /\ started = FALSE

Next ==
    \/ RegisterField \/ RegisterMethod \/ Start
    \/ \E t \in Threads : SymbolsInit(t)
    \/ /\ Running
       /\ \/ \E t \in Threads :
               \/ \E name \in SchemaNames :
                    \/ GetExisting(t, name)
                    \/ \E isTable \in BOOLEAN : GetOrCreateNew(t, name, isTable)
               \/ \E name \in FieldNames, T \in ObjFieldTypes : AddField(t, name, T)
               \/ \E src \in RowSources, opts \in ColumnOptions : AddColumnsOf(t, src, opts)
               \/ Publish(t) \/ Release(t)
               \/ Len(objects) < MaxObjects /\ NewObject(t)
          \/ \E o \in 1 .. Len(objects), name \in FieldNames, T \in ObjFieldTypes : Set(o, name, T)

Spec == Init /\ [][Next]_vars
-----------------------------------------------------------------------------
\* The field number stored with a column, by which the rows are read later, is
\* that of the field the column is named after and typed by, also when fields
\* before it were left out.
ColumnReadsItsField ==
    \A i \in 1 .. Len(schemas) : \A c \in Range(schemas[i].columns), r \in Range(schemas[i].rows) :
        c.row = r.row =>
            LET fields == SourceFields(r.src)
            IN  /\ c.idx + 1 \in DOMAIN fields
                /\ fields[c.idx + 1][1] = c.name[2]
                /\ Elem(schemas[i].fields[c.name].dt) = Fundamental(ColumnElem(fields[c.idx + 1][2]))

\* Every column of a schema that can be found points to a RowSchema that still
\* exists: Table::LoadColumn reads through that pointer.  This does not hold: an
\* AddColumns that fails has added columns and destroys its RowSchema.
ColumnsBacked ==
    \A n \in DOMAIN table : \A c \in Range(schemas[table[n]].columns) :
        \E r \in Range(schemas[table[n]].rows) : r.row = c.row
=============================================================================
