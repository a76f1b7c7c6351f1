------------------------------- MODULE Reflect -------------------------------
(***************************************************************************)
(* The process-wide tables that static initialisers fill: the members of   *)
(* registered C++ types (reflect/reflect.cc), the names of types           *)
(* (DTypeFactory in meta/dtype.cc) and the type symbols of the parser that *)
(* are made from the names (ast/symbols.cc).                               *)
(***************************************************************************)
EXTENDS DType, FiniteSets, HashMap

CONSTANTS
    RegTypes,    \* C++ types a program registers, as terms of get_dtype
    MemberNames, \* names of fields and methods
    FieldTypes   \* C++ types of the fields of registered structs

VARIABLES
    index,       \* GlobalStructMemberIndex: Control() -> members
    nameToDType, \* getNameDTypeMap()
    dtypeToName, \* getDTypeNameMap(), as a set of pairs
    symbols      \* Symbols::kDtypeSymbols beyond the fixed ones

reflectVars == <<index, nameToDType, dtypeToName, symbols>>

\* The index is keyed by the control word alone: element types do not count.
Control(d) == [d EXCEPT !.el = << >>]

NoMembers == [list |-> << >>, map |-> << >>]

MembersOf(d) == IF Control(d) \in DOMAIN index THEN index[Control(d)] ELSE NoMembers

Known(d) == Control(d) \in DOMAIN index

None == << >>

SetMembers(d, m) ==
    index' = [c \in DOMAIN index \cup {Control(d)} |-> IF c = Control(d) THEN m ELSE index[c]]

\* A member has a field type or a function or both; of a function the owner
\* matters: the C++ type whose method it calls.
Member(field, func) == [field |-> field, func |-> func]

GetStructMember(d, name) ==
    IF Known(d) /\ name \in DOMAIN MembersOf(d).map
    THEN <<MembersOf(d).map[name]>> ELSE None

-----------------------------------------------------------------------------
(***************************************************************************)
(* Names.  A type that is no collection has its demangled C++ name; the    *)
(* name of a collection is put together from its parts.                    *)
(***************************************************************************)
NoName == << >>

GetNameByDType(d) ==
    IF ~IsFundamental(d) THEN NoName
    ELSE IF d.t0 \in VOID .. BUILTIN_TYPE_END - 1 THEN <<"builtin", d.t0>>
    ELSE LET named == { p \in dtypeToName : SameDType(p[1], d) /\ Control(p[1]) = Control(d) }
         IN  IF named = {} THEN NoName ELSE (CHOOSE p \in named : TRUE)[2]

GetTypeString(d) ==
    LET base == GetNameByDType(PtrTo(Elem(d)))
        key == GetNameByDType(Key(d))
        keyed == IsAnyMap(d) \/ IsTuple(d)
    IN  IF base = NoName \/ (IsCollection(d) /\ keyed /\ key = NoName) THEN NoName
        ELSE IF IsCollection(d) THEN <<"collection", d.c, IF keyed THEN key ELSE NoName, base, d.p>>
        ELSE <<"base", base, d.p>>

TypeName(T) ==
    LET d == get_dtype(T) IN IF IsCollection(d) THEN GetTypeString(d) ELSE <<"cxx", d.t0>>

\* DTypeFactory::Add<T>(): pointers are refused, the first type of a name stays.
AddName(T) ==
    LET d == get_dtype(T)
        n == TypeName(T)
        new == ~IsPtr(d) /\ n \notin DOMAIN nameToDType
    IN  /\ nameToDType' = IF new THEN Emplace(nameToDType, n, d) ELSE nameToDType
        /\ dtypeToName' = IF new /\ ~\E p \in dtypeToName : SameDType(p[1], d)
                          THEN dtypeToName \cup {<<d, n>>} ELSE dtypeToName

-----------------------------------------------------------------------------
\* RUDF_STRUCT_FIELDS: Reflect::AddStructField, then the name.
AddStructField(T, name, FT) ==
    LET d == get_dtype(T)
        m == MembersOf(d)
        fd == get_dtype(FT)
        new == name \notin DOMAIN m.map
        merge == ~new /\ m.map[name].field = None
    IN  /\ SetMembers(d, [list |-> IF new THEN Append(m.list, name) ELSE m.list,
                          map |-> IF merge THEN [m.map EXCEPT ![name].field = <<fd>>]
                                  ELSE Emplace(m.map, name, Member(<<fd>>, None))])
        /\ AddName(T)
        /\ UNCHANGED symbols

\* Reflect::AddStructMethod<T>: the name first, then the accessor.
AddStructMethod(T, name) ==
    LET d == get_dtype(T)
        m == MembersOf(d)
        new == name \notin DOMAIN m.map
        merge == ~new /\ m.map[name].func = None
    IN  /\ AddName(T)
        /\ SetMembers(d, [list |-> IF new THEN Append(m.list, name) ELSE m.list,
                          map |-> IF merge THEN [m.map EXCEPT ![name].func = <<T>>]
                                  ELSE Emplace(m.map, name, Member(None, <<T>>))])
        /\ UNCHANGED symbols

\* The entry a named type gets in kDtypeSymbols: a pointer unless it is a
\* vector the JIT passes by value; scalars have fixed symbols.
SymbolFor(d) ==
    IF IsPtr(d) THEN <<d>>
    ELSE IF IsPrimitive(d) THEN None
    ELSE IF IsSimdVector(d) THEN <<d>> ELSE <<ToPtr(d)>>

\* Symbols::Init for the registered types and for named schemas (given as a
\* function from the symbol's text to the schema it stands for).  A text once
\* cached is never bound again.
BoundSymbols(schemaSymbols) ==
    LET dyn == ToPtr(Fundamental(DYN_OBJECT))
        all == [n \in DOMAIN nameToDType |-> [dt |-> SymbolFor(nameToDType[n]), schema |-> None]]
        add == [s \in DOMAIN schemaSymbols |-> [dt |-> <<dyn>>, schema |-> schemaSymbols[s]]]
    IN  [n \in DOMAIN symbols \cup DOMAIN all \cup DOMAIN add |->
           IF n \in DOMAIN symbols THEN symbols[n]
           ELSE IF n \in DOMAIN all THEN all[n] ELSE add[n]]

ReflectInit ==
    /\ index = << >>
    /\ nameToDType = << >>
    /\ dtypeToName = {}
    /\ symbols = << >>

-----------------------------------------------------------------------------
(* Two types with two parameters, maps or tuples, that agree in the container *)
(* and the first parameter, and whose second is a pointer or a container:     *)
(* what tells them apart is held outside the control word.                    *)
PairsSharingEntry(d, e) ==
    Control(d) = Control(e) /\ d.t0 # COMPLEX_OBJECT /\ d.t1 = COMPLEX_OBJECT

(***************************************************************************)
(* The descriptor of a value of type T* that a UDF receives is dereferenced *)
(* (VarAccessor and FieldAccess call PtrTo) and its members are looked up: *)
(* a method found that way is a method of T, whichever types were          *)
(* registered before and in which order.  Every container of pointers or   *)
(* containers shares its entry of the index with others; where that is the *)
(* first type parameter, PtrTo never reaches the entry.  The exception is  *)
(* two such maps or tuples that differ in the second alone: there the      *)
(* method may be the other's.                                              *)
(***************************************************************************)
MemberCallsRightMethod ==
    \A T \in RegTypes, name \in MemberNames :
        LET d     == get_dtype(T)
            found == GetStructMember(PtrTo(get_dtype(PtrT(T))), name)
        IN  found # None /\ found[1].func # None =>
              LET owner == get_dtype(found[1].func[1]) IN
              SameDType(owner, d) \/ PairsSharingEntry(owner, d)

(* The same without the exception.  It does not hold: the method of the map   *)
(* type that was registered first under a name is called for the other.       *)
MemberCallsOwnMethod ==
    \A T \in RegTypes, name \in MemberNames :
        LET found == GetStructMember(PtrTo(get_dtype(PtrT(T))), name)
        IN  found # None /\ found[1].func # None
              => SameDType(get_dtype(found[1].func[1]), get_dtype(T))
=============================================================================
