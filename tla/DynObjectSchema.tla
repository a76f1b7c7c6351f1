-------------------------- MODULE DynObjectSchema --------------------------
(***************************************************************************)
(* The registry of schemas and the layout of objects                       *)
(* (types/dyn_object_schema.cc, types/dyn_object_impl.h): a process-wide   *)
(* table of named schemas behind a mutex, the offsets of the fields, and   *)
(* the memory of the objects made with a layout.  Threads create, look up, *)
(* extend and use schemas concurrently.  Schema says which types a field   *)
(* can have; here a type is any, and known by what it takes.               *)
(***************************************************************************)
EXTENDS Integers, Sequences, HashMap

CONSTANTS
    Threads,
    SchemaNames,   \* names passed to GetOrCreate
    FieldNames,    \* names passed to AddField
    Slots,         \* field types: [bytes, words], ByteSize() and sizeof(T)
    TableHeader    \* sizeof(Table), rounded up to 16

NoThread == "none"
DynHeader == 16   \* sizeof(DynObject) rounded up to 16

\* What a field of this size takes in the layout.
Padded(bytes) == IF bytes < 8 THEN 8 ELSE bytes

ASSUME HeaderAssumption == TableHeader \in Nat /\ TableHeader % 16 = 0
ASSUME ThreadAssumption == NoThread \notin Threads

\* A value of a field type fits what the layout gives it; long double, which
\* does not, is the exception among the types of the library.
ASSUME SlotAssumption ==
    \A x \in Slots : /\ x.bytes \in Nat /\ x.words \in Nat \ {0}
                     /\ Padded(x.bytes) % 8 = 0 /\ 8 * x.words <= Padded(x.bytes)

VARIABLES
    mutex,    \* the thread inside GetOrCreate, or NoThread
    table,    \* the global map: name -> position in schemas
    schemas,  \* every schema ever made
    thread,   \* what each thread does
    objects   \* DynObjects and Tables, with the memory behind them

dynVars == <<mutex, table, schemas, thread, objects>>

NewSchema(name, isTable) ==
    [name |-> name, isTable |-> isTable, inited |-> FALSE,
     fields |-> << >>,   \* fields_: name -> dtype and bytes_offset
     size |-> IF isTable THEN TableHeader ELSE DynHeader,   \* allocated_offset_
     columns |-> << >>,  \* columns_: name, RowSchema and field index
     rows |-> << >>,     \* row_schemas_: the RowSchemas that stay
     made |-> 0]         \* RowSchemas ever made

Idle == [pc |-> "idle", h |-> 0]

DynInit ==
    /\ mutex = NoThread
    /\ table = << >> /\ schemas = << >> /\ objects = << >>
    /\ thread = [t \in Threads |-> Idle]

-----------------------------------------------------------------------------
(***************************************************************************)
(* GetOrCreate(name, init): the lock is held while init runs, the schema   *)
(* is published after init.                                                *)
(***************************************************************************)
\* The name exists: GetOrCreate returns the schema whatever its kind.  So
\* does GetMutable; for an unknown name it returns null to a DynObjectSchema
\* caller, and TableSchema::GetMutable dereferences the null.
GetExisting(t, name) ==
    /\ mutex = NoThread /\ thread[t].pc = "idle"
    /\ name \in DOMAIN table
    /\ thread' = [thread EXCEPT ![t] = [pc |-> "holds", h |-> table[name]]]
    /\ UNCHANGED <<mutex, table, schemas, objects>>

\* A variant that does not wait for a creation under way.
GetOrCreateNewUnlocked(t, name, isTable) ==
    /\ thread[t].pc = "idle"
    /\ name \notin DOMAIN table
    /\ mutex' = t
    /\ schemas' = Append(schemas, NewSchema(name, isTable))
    /\ thread' = [thread EXCEPT ![t] = [pc |-> "init", h |-> Len(schemas) + 1]]
    /\ UNCHANGED <<table, objects>>

GetOrCreateNew(t, name, isTable) ==
    /\ mutex = NoThread /\ thread[t].pc = "idle"
    /\ name \notin DOMAIN table
    /\ mutex' = t
    /\ schemas' = Append(schemas, NewSchema(name, isTable))
    /\ thread' = [thread EXCEPT ![t] = [pc |-> "init", h |-> Len(schemas) + 1]]
    /\ UNCHANGED <<table, objects>>

Publish(t) ==
    LET h == thread[t].h IN
    /\ thread[t].pc = "init"
    /\ table' = Emplace(table, schemas[h].name, h)
    /\ mutex' = NoThread
    /\ schemas' = [schemas EXCEPT ![h] = [@ EXCEPT !.inited = TRUE]]
    /\ thread' = [thread EXCEPT ![t] = [pc |-> "holds", h |-> h]]
    /\ UNCHANGED objects

Release(t) ==
    /\ thread[t].pc = "holds"
    /\ thread' = [thread EXCEPT ![t] = Idle]
    /\ UNCHANGED <<mutex, table, schemas, objects>>

-----------------------------------------------------------------------------
\* A variant that gives small fields their own size only.
PlaceUnpadded(s, name, d, bytes) ==
    IF name \in DOMAIN s.fields THEN s
    ELSE [s EXCEPT !.fields = Emplace(@, name, [dt |-> d, off |-> s.size]),
                   !.size = @ + bytes]

\* DynObjectSchema::Add, of a type that is allowed: a name is used once.
Place(s, name, d, bytes) ==
    IF name \in DOMAIN s.fields THEN s
    ELSE [s EXCEPT !.fields = Emplace(@, name, [dt |-> d, off |-> s.size]),
                   !.size = @ + Padded(bytes)]

\* In an init function, or through a mutable schema: no lock.
Extend(t, s) ==
    /\ thread[t].pc \in {"init", "holds"}
    /\ schemas' = [schemas EXCEPT ![thread[t].h] = s]
    /\ UNCHANGED <<mutex, table, thread, objects>>

\* NewObject, NewTable: ByteSize() bytes at this moment, all zero.
Zero == << >>

NewObject(t) ==
    LET s == schemas[thread[t].h] IN
    /\ thread[t].pc = "holds"
    /\ objects' = Append(objects, [h |-> thread[t].h, bytes |-> s.size, set |-> << >>,
                                   mem |-> [w \in 0 .. s.size \div 8 - 1 |-> Zero],
                                   outside |-> FALSE])
    /\ UNCHANGED <<mutex, table, schemas, thread>>

\* DoSet<T>, of a value of so many words: those at the offset of the field take
\* it, also where the object ends.  set remembers which they were.
Store(o, name, size) ==
    LET s == schemas[objects[o].h]
        first == s.fields[name].off \div 8
        words == first .. first + size - 1
    IN  /\ objects' = [objects EXCEPT ![o] =
              [h |-> @.h, bytes |-> @.bytes,
               set |-> Emplace(@.set, name, words),
               mem |-> [w \in DOMAIN @.mem |-> IF w \in words THEN <<name, w>> ELSE @.mem[w]],
               outside |-> @.outside \/ \E w \in words : w \notin DOMAIN @.mem]]
        /\ UNCHANGED <<mutex, table, schemas, thread>>

DynNext ==
    \/ \E t \in Threads :
         \/ \E name \in SchemaNames :
              \/ GetExisting(t, name)
              \/ \E isTable \in BOOLEAN : GetOrCreateNew(t, name, isTable)
         \/ \E name \in FieldNames, x \in Slots :
              Extend(t, Place(schemas[thread[t].h], name, x, x.bytes))
         \/ Publish(t) \/ Release(t) \/ NewObject(t)
    \/ \E o \in 1 .. Len(objects) :
         LET fields == schemas[objects[o].h].fields IN
         \E name \in DOMAIN fields : Store(o, name, fields[name].dt.words)

DynSpec == DynInit /\ [][DynNext]_dynVars

-----------------------------------------------------------------------------
\* What Set stored in a field is there until the field is set again, in every
\* object, whatever other fields are set and however the schema is extended
\* afterwards; and no store leaves the object.  Only an object that is older
\* than a field of its schema is written outside its memory (the object has
\* the size the schema had when it was made).
FieldsKeepTheirValues ==
    \A o \in 1 .. Len(objects) :
        LET obj == objects[o]
        IN  /\ obj.bytes = schemas[obj.h].size => ~obj.outside
            /\ \A f \in DOMAIN obj.set :
                  obj.set[f] \subseteq DOMAIN obj.mem => \A w \in obj.set[f] : obj.mem[w] = <<f, w>>

\* A schema can be found by its name only after its init function has run, and
\* every thread that uses a schema of a name uses the same one: two threads
\* that create a name at once do not each get their own.
OnePublishedSchema ==
    /\ \A n \in DOMAIN table : schemas[table[n]].inited /\ schemas[table[n]].name = n
    /\ \A t \in Threads : thread[t].pc = "holds"
          => table[schemas[thread[t].h].name] = thread[t].h
=============================================================================
