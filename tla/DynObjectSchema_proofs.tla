----------------------- MODULE DynObjectSchema_proofs -----------------------
(***************************************************************************)
(* Proofs about the registry of schemas and the layout of objects, for any *)
(* threads, names, field types that fit their slots, and any number of     *)
(* schemas and objects.  Neither property is inductive by itself.  That a  *)
(* name has one schema rests on the mutex being held by exactly the thread *)
(* that runs an init function.  That fields keep their values rests on the *)
(* layout: the fields of a schema do not overlap and lie inside its size,  *)
(* and a schema that grows moves no field, so that the words that were set *)
(* in an object are still those of the field.                              *)
(***************************************************************************)
EXTENDS DynObjectSchema, TLAPS

-----------------------------------------------------------------------------
(* The inductive invariant. *)

FieldRec == [dt : Slots, off : Nat]
FieldMap == UNION {[D -> FieldRec] : D \in (SUBSET FieldNames)}
SchemaRec == [name : SchemaNames, isTable : BOOLEAN, inited : BOOLEAN, fields : FieldMap,
              size : Nat, columns : {<< >>}, rows : {<< >>}, made : {0}]
ThreadRec == [pc : {"idle", "init", "holds"}, h : Nat]

(* The end of a field: the first byte after its value. *)
EndOf(x) == x.off + 8 * x.dt.words

(* The words of a field. *)
Extent(x) == (x.off \div 8) .. (x.off \div 8 + x.dt.words - 1)

(* The fields of a schema lie inside its size and do not overlap. *)
LayoutOK(s) ==
    /\ s.size % 8 = 0
    /\ \A f \in DOMAIN s.fields : s.fields[f].off % 8 = 0 /\ EndOf(s.fields[f]) <= s.size
    /\ \A f, g \in DOMAIN s.fields :
          f # g => \/ EndOf(s.fields[f]) <= s.fields[g].off
                   \/ EndOf(s.fields[g]) <= s.fields[f].off

SchemaOK(s) == s \in SchemaRec /\ LayoutOK(s)

SchemasOK(ss) == ss \in Seq(SchemaRec) /\ \A i \in 1 .. Len(ss) : SchemaOK(ss[i])

(* A name has at most one schema, and the mutex is held by the thread that   *)
(* makes one.                                                                *)
NamesOK(tab, ss) ==
    \A n \in DOMAIN tab : tab[n] \in 1 .. Len(ss) /\ ss[tab[n]].inited /\ ss[tab[n]].name = n

ThreadOK(x, tab, ss) ==
    /\ x.pc \in {"init", "holds"} => x.h \in 1 .. Len(ss)
    /\ x.pc = "init" => ss[x.h].name \notin DOMAIN tab
    /\ x.pc = "holds" => ss[x.h].name \in DOMAIN tab /\ tab[ss[x.h].name] = x.h

RegistryOK(m, tab, ss, th) ==
    /\ m \in Threads \cup {NoThread} /\ th \in [Threads -> ThreadRec]
    /\ \A t \in Threads : th[t].pc = "init" <=> m = t
    /\ \A t \in Threads : ThreadOK(th[t], tab, ss)
    /\ NamesOK(tab, ss)

(* An object made with an earlier size of its schema: what was set is in the *)
(* words of the field, where the object has them.                            *)
ObjectOK(obj, ss) ==
    /\ obj.h \in 1 .. Len(ss)
    /\ obj.bytes \in Nat /\ obj.bytes <= ss[obj.h].size /\ obj.bytes % 8 = 0
    /\ DOMAIN obj.mem = 0 .. obj.bytes \div 8 - 1
    /\ obj.outside => obj.bytes < ss[obj.h].size
    /\ \A f \in DOMAIN obj.set :
          /\ f \in DOMAIN ss[obj.h].fields
          /\ obj.set[f] = Extent(ss[obj.h].fields[f])
          /\ \A w \in obj.set[f] \cap DOMAIN obj.mem : obj.mem[w] = <<f, w>>

ObjectsOK(os, ss) ==
    /\ \E S : os \in Seq(S)
    /\ \A o \in 1 .. Len(os) : ObjectOK(os[o], ss)

DynInv ==
    /\ SchemasOK(schemas)
    /\ RegistryOK(mutex, table, schemas, thread)
    /\ ObjectsOK(objects, schemas)

-----------------------------------------------------------------------------
(* A schema that has become another one keeps its name and its fields where   *)
(* they are.                                                                 *)
Grown(s, p) ==
    /\ p.name = s.name /\ (s.inited => p.inited)
    /\ s.size <= p.size
    /\ DOMAIN s.fields \subseteq DOMAIN p.fields
    /\ \A f \in DOMAIN s.fields : p.fields[f] = s.fields[f]

AllGrown(ss, ps) ==
    /\ Len(ss) \in Nat /\ Len(ps) \in Nat /\ Len(ss) <= Len(ps)
    /\ \A i \in 1 .. Len(ss) : Grown(ss[i], ps[i])

LEMMA GrownSelf ==
    ASSUME NEW s, SchemaOK(s)
    PROVE  Grown(s, s)
<1>1. s.size \in Nat
    BY DEF SchemaOK, SchemaRec
<1>2. s.size <= s.size
    BY <1>1
<1> QED
    BY <1>2, Zenon DEF Grown

LEMMA ObjectStaysOK ==
    ASSUME NEW obj, NEW ss, NEW ps, SchemasOK(ss), SchemasOK(ps), AllGrown(ss, ps), ObjectOK(obj, ss)
    PROVE  ObjectOK(obj, ps)
<1>1. obj.h \in 1 .. Len(ss) /\ obj.h \in 1 .. Len(ps) /\ Grown(ss[obj.h], ps[obj.h])
    BY DEF ObjectOK, AllGrown
<1>2. ss[obj.h].size \in Nat /\ ps[obj.h].size \in Nat
    BY <1>1 DEF SchemasOK, SchemaOK, SchemaRec
<1> QED
    BY <1>1, <1>2 DEF ObjectOK, Grown

LEMMA ObjectsStayOK ==
    ASSUME NEW os, NEW ss, NEW ps, SchemasOK(ss), SchemasOK(ps), AllGrown(ss, ps), ObjectsOK(os, ss)
    PROVE  ObjectsOK(os, ps)
BY ObjectStaysOK DEF ObjectsOK

(* A new field begins where the schema ended. *)
LEMMA PlaceFacts ==
    ASSUME NEW s, SchemaOK(s), NEW name \in FieldNames, NEW x \in Slots
    PROVE  SchemaOK(Place(s, name, x, x.bytes)) /\ Grown(s, Place(s, name, x, x.bytes))
<1>0. s \in SchemaRec /\ LayoutOK(s) /\ s.size \in Nat /\ s.fields \in FieldMap
    BY DEF SchemaOK, SchemaRec
<1>1. CASE name \in DOMAIN s.fields
    BY <1>0, <1>1 DEF Place, SchemaOK, Grown
<1>2. CASE name \notin DOMAIN s.fields
    <2> DEFINE pad == Padded(x.bytes)
               r == [dt |-> x, off |-> s.size]
               fs == Emplace(s.fields, name, r)
               p == Place(s, name, x, x.bytes)
    <2>1. pad \in Nat /\ pad % 8 = 0 /\ x.words \in Nat /\ 8 * x.words <= pad
        BY SlotAssumption DEF Padded
    <2> HIDE DEF pad
    <2>2. p = [name |-> s.name, isTable |-> s.isTable, inited |-> s.inited, fields |-> fs,
               size |-> s.size + pad, columns |-> s.columns, rows |-> s.rows, made |-> s.made]
        BY <1>0, <1>2 DEF Place, SchemaRec, pad
    <2>3. r \in FieldRec /\ r.off = s.size /\ r.dt = x
        BY <1>0 DEF FieldRec
    <2>4. PICK D \in (SUBSET FieldNames) : s.fields \in [D -> FieldRec]
        BY <1>0 DEF FieldMap
    <2> HIDE DEF r
    <2>5. /\ DOMAIN fs = D \cup {name} /\ fs[name] = r /\ D = DOMAIN s.fields
          /\ \A f \in D : fs[f] = s.fields[f]
          /\ fs = [f \in D \cup {name} |-> IF f = name THEN r ELSE s.fields[f]]
        BY <1>2, <2>4 DEF Emplace
    <2> HIDE DEF fs
    <2>6. fs \in [D \cup {name} -> FieldRec] /\ D \cup {name} \in (SUBSET FieldNames)
        BY <2>3, <2>4, <2>5
    <2>7. fs \in FieldMap
        BY <2>6 DEF FieldMap
    <2>8. p \in SchemaRec /\ p.fields = fs /\ p.size = s.size + pad /\ p.name = s.name /\ p.inited = s.inited
        <3>1. s.name \in SchemaNames /\ s.isTable \in BOOLEAN /\ s.inited \in BOOLEAN
              /\ s.columns = << >> /\ s.rows = << >> /\ s.made = 0 /\ s.size + pad \in Nat
            BY <1>0, <2>1 DEF SchemaRec
        <3>2. p \in SchemaRec
            BY <2>2, <2>7, <3>1 DEF SchemaRec
        <3>3. p.fields = fs /\ p.size = s.size + pad /\ p.name = s.name
            BY <2>2
        <3>4. p.inited = s.inited
            BY <2>2, <3>1
        <3> QED
            BY <3>2, <3>3, <3>4
    <2> HIDE DEF p
    <2>9. \A f \in D : s.fields[f].off \in Nat /\ s.fields[f].dt.words \in Nat
        BY <2>4, SlotAssumption DEF FieldRec
    <2>10. LayoutOK(p)
        <3>1. p.size % 8 = 0 /\ p.size \in Nat
            BY <1>0, <2>1, <2>8 DEF LayoutOK
        <3>a. \A f \in D : fs[f].off % 8 = 0 /\ EndOf(fs[f]) <= s.size
            BY <1>0, <2>5 DEF LayoutOK
        <3>b. ASSUME NEW f \in D PROVE EndOf(fs[f]) \in Nat
            <4>1. fs[f] = s.fields[f] /\ s.fields[f].off \in Nat /\ s.fields[f].dt.words \in Nat
                BY <2>5, <2>9
            <4> QED
                BY <4>1 DEF EndOf
        <3>2. \A f \in D : fs[f].off % 8 = 0 /\ EndOf(fs[f]) <= s.size /\ EndOf(fs[f]) \in Nat
            BY <3>a, <3>b
        <3>3. fs[name].off % 8 = 0 /\ fs[name].off = s.size /\ EndOf(fs[name]) <= p.size
            BY <1>0, <2>1, <2>3, <2>5, <2>8 DEF LayoutOK, EndOf
        <3>4. \A f, g \in D : f # g => EndOf(fs[f]) <= fs[g].off \/ EndOf(fs[g]) <= fs[f].off
            BY <1>0, <2>5 DEF LayoutOK
        <3>5. \A f \in D : EndOf(fs[f]) <= p.size
            BY <3>2, <2>1, <2>8, <1>0
        <3>6. \A f, g \in D \cup {name} :
                  f # g => EndOf(fs[f]) <= fs[g].off \/ EndOf(fs[g]) <= fs[f].off
            BY <3>2, <3>3, <3>4
        <3> QED
            BY <3>1, <3>2, <3>3, <3>5, <3>6, <2>5, <2>8 DEF LayoutOK
    <2>11. Grown(s, p)
        <3>1. s.size <= p.size
            BY <1>0, <2>1, <2>8
        <3>2. DOMAIN s.fields \subseteq DOMAIN p.fields /\ \A f \in DOMAIN s.fields : p.fields[f] = s.fields[f]
            BY <2>5, <2>8
        <3> QED
            BY <3>1, <3>2, <2>8, Zenon DEF Grown
    <2> QED
        BY <2>8, <2>10, <2>11 DEF SchemaOK, p
<1> QED
    BY <1>1, <1>2


-----------------------------------------------------------------------------
(* Each step keeps the invariant. *)

(* A list of schemas in which one has grown. *)
LEMMA OneGrown ==
    ASSUME NEW ss, SchemasOK(ss), NEW i \in 1 .. Len(ss), NEW p, SchemaOK(p), Grown(ss[i], p)
    PROVE  LET ps == [ss EXCEPT ![i] = p]
           IN  SchemasOK(ps) /\ AllGrown(ss, ps) /\ Len(ps) = Len(ss)
               /\ \A j \in 1 .. Len(ss) : ps[j] = IF j = i THEN p ELSE ss[j]
<1> DEFINE ps == [ss EXCEPT ![i] = p]
<1>1. ss \in Seq(SchemaRec) /\ p \in SchemaRec /\ Len(ss) \in Nat
    BY DEF SchemasOK, SchemaOK
<1>2. /\ ps \in Seq(SchemaRec) /\ Len(ps) = Len(ss)
      /\ \A j \in 1 .. Len(ss) : ps[j] = IF j = i THEN p ELSE ss[j]
    BY <1>1
<1> HIDE DEF ps
<1>3. SchemasOK(ps)
    BY <1>2 DEF SchemasOK
<1>4. \A j \in 1 .. Len(ss) : Grown(ss[j], ss[j])
    BY GrownSelf DEF SchemasOK
<1>5. AllGrown(ss, ps)
    BY <1>1, <1>2, <1>4 DEF AllGrown
<1> QED
    BY <1>2, <1>3, <1>5 DEF ps

LEMMA NewSchemaFacts ==
    ASSUME NEW name \in SchemaNames, NEW isTable \in BOOLEAN
    PROVE  SchemaOK(NewSchema(name, isTable)) /\ NewSchema(name, isTable).name = name
<1> DEFINE s == NewSchema(name, isTable)
           size == IF isTable THEN TableHeader ELSE DynHeader
<1>1. size \in Nat /\ size % 8 = 0
    BY HeaderAssumption DEF DynHeader
<1> HIDE DEF size
<1>2. s = [name |-> name, isTable |-> isTable, inited |-> FALSE, fields |-> << >>, size |-> size,
           columns |-> << >>, rows |-> << >>, made |-> 0]
    BY DEF NewSchema, size
<1>3. << >> \in [{} -> FieldRec] /\ {} \in (SUBSET FieldNames)
    OBVIOUS
<1>4. << >> \in FieldMap
    BY <1>3 DEF FieldMap
<1>5. s \in SchemaRec
    BY <1>1, <1>2, <1>4 DEF SchemaRec
<1>6. s.size = size /\ s.fields = << >> /\ s.name = name
    BY <1>2
<1> HIDE DEF s
<1>7. LayoutOK(s)
    BY <1>1, <1>6 DEF LayoutOK
<1> QED
    BY <1>5, <1>6, <1>7 DEF SchemaOK, s

LEMMA OneMore ==
    ASSUME NEW ss, SchemasOK(ss), NEW p, SchemaOK(p)
    PROVE  LET ps == Append(ss, p)
           IN  SchemasOK(ps) /\ AllGrown(ss, ps) /\ Len(ps) = Len(ss) + 1 /\ ps[Len(ss) + 1] = p
               /\ \A j \in 1 .. Len(ss) : ps[j] = ss[j]
<1> DEFINE ps == Append(ss, p)
<1>1. ss \in Seq(SchemaRec) /\ p \in SchemaRec /\ Len(ss) \in Nat
    BY DEF SchemasOK, SchemaOK
<1>2. /\ ps \in Seq(SchemaRec) /\ Len(ps) = Len(ss) + 1 /\ ps[Len(ss) + 1] = p
      /\ \A j \in 1 .. Len(ss) : ps[j] = ss[j]
    BY <1>1
<1> HIDE DEF ps
<1>3. SchemasOK(ps)
    BY <1>1, <1>2 DEF SchemasOK
<1>4. \A j \in 1 .. Len(ss) : Grown(ss[j], ss[j])
    BY GrownSelf DEF SchemasOK
<1>5. AllGrown(ss, ps)
    BY <1>1, <1>2, <1>4 DEF AllGrown
<1> QED
    BY <1>2, <1>3, <1>5 DEF ps

(* The registry stays as it is when schemas grow. *)
LEMMA RegistryStaysOK ==
    ASSUME NEW m, NEW tab, NEW ss, NEW ps, NEW th, AllGrown(ss, ps), RegistryOK(m, tab, ss, th)
    PROVE  RegistryOK(m, tab, ps, th)
<1>1. NamesOK(tab, ps)
    BY DEF RegistryOK, NamesOK, AllGrown, Grown
<1>2. ASSUME NEW t \in Threads PROVE ThreadOK(th[t], tab, ps)
    BY DEF RegistryOK, ThreadOK, AllGrown, Grown
<1> QED
    BY <1>1, <1>2 DEF RegistryOK

LEMMA GetExistingKeeps ==
    ASSUME DynInv, NEW t \in Threads, NEW name \in SchemaNames, GetExisting(t, name)
    PROVE  DynInv'
<1> DEFINE x == [pc |-> "holds", h |-> table[name]]
<1>0. RegistryOK(mutex, table, schemas, thread) /\ NamesOK(table, schemas)
      /\ thread \in [Threads -> ThreadRec] /\ \A u \in Threads : ThreadOK(thread[u], table, schemas)
    BY DEF DynInv, RegistryOK
<1>1. mutex = NoThread /\ name \in DOMAIN table /\ thread' = [thread EXCEPT ![t] = x]
      /\ UNCHANGED <<mutex, table, schemas, objects>>
    BY DEF GetExisting
<1>2. table[name] \in 1 .. Len(schemas) /\ schemas[table[name]].name = name
    BY <1>0, <1>1 DEF NamesOK
<1>3. x \in ThreadRec /\ x.pc = "holds" /\ x.h = table[name]
    BY <1>2 DEF ThreadRec
<1> HIDE DEF x
<1>4. ThreadOK(x, table, schemas)
    BY <1>1, <1>2, <1>3 DEF ThreadOK
<1>5. \A u \in Threads : thread'[u] = IF u = t THEN x ELSE thread[u]
    BY <1>0, <1>1
<1>6. thread' \in [Threads -> ThreadRec]
    BY <1>0, <1>1, <1>3
<1>7. \A u \in Threads : thread'[u].pc = "init" <=> mutex = u
    BY <1>0, <1>1, <1>3, <1>5, ThreadAssumption DEF RegistryOK
<1>8. RegistryOK(mutex, table, schemas, thread')
    BY <1>0, <1>4, <1>5, <1>6, <1>7 DEF RegistryOK
<1> QED
    BY <1>1, <1>8 DEF DynInv

LEMMA ReleaseKeeps ==
    ASSUME DynInv, NEW t \in Threads, Release(t)
    PROVE  DynInv'
<1>0. RegistryOK(mutex, table, schemas, thread)
      /\ thread \in [Threads -> ThreadRec] /\ \A u \in Threads : ThreadOK(thread[u], table, schemas)
    BY DEF DynInv, RegistryOK
<1>1. thread[t].pc = "holds" /\ thread' = [thread EXCEPT ![t] = Idle]
      /\ UNCHANGED <<mutex, table, schemas, objects>>
    BY DEF Release
<1>2. Idle \in ThreadRec /\ Idle.pc = "idle"
    BY DEF ThreadRec, Idle
<1>3. ThreadOK(Idle, table, schemas)
    BY <1>2 DEF ThreadOK
<1>4. \A u \in Threads : thread'[u] = IF u = t THEN Idle ELSE thread[u]
    BY <1>0, <1>1
<1>5. thread' \in [Threads -> ThreadRec]
    BY <1>0, <1>1, <1>2
<1>6. \A u \in Threads : thread'[u].pc = "init" <=> mutex = u
    BY <1>0, <1>1, <1>2, <1>4 DEF RegistryOK
<1>7. RegistryOK(mutex, table, schemas, thread')
    BY <1>0, <1>3, <1>4, <1>5, <1>6 DEF RegistryOK
<1> QED
    BY <1>1, <1>7 DEF DynInv


LEMMA GetOrCreateNewKeeps ==
    ASSUME DynInv, NEW t \in Threads, NEW name \in SchemaNames, NEW isTable \in BOOLEAN,
           GetOrCreateNew(t, name, isTable)
    PROVE  DynInv'
<1> DEFINE s == NewSchema(name, isTable)
           ss == Append(schemas, s)
           n == Len(schemas)
           x == [pc |-> "init", h |-> n + 1]
<1>0. SchemasOK(schemas) /\ RegistryOK(mutex, table, schemas, thread) /\ ObjectsOK(objects, schemas)
      /\ n \in Nat
    BY DEF DynInv, SchemasOK
<1>1. /\ mutex = NoThread /\ thread[t].pc = "idle" /\ name \notin DOMAIN table /\ mutex' = t
      /\ schemas' = ss /\ thread' = [thread EXCEPT ![t] = x] /\ UNCHANGED <<table, objects>>
    BY DEF GetOrCreateNew
<1>2. SchemaOK(s) /\ s.name = name
    BY NewSchemaFacts
<1> HIDE DEF s
<1>3. SchemasOK(ss) /\ AllGrown(schemas, ss) /\ Len(ss) = n + 1 /\ ss[n + 1] = s
    BY <1>0, <1>2, OneMore
<1> HIDE DEF ss
<1>4. RegistryOK(mutex, table, ss, thread) /\ ObjectsOK(objects, ss)
    BY <1>0, <1>3, RegistryStaysOK, ObjectsStayOK
<1>5. x \in ThreadRec /\ x.pc = "init" /\ x.h = n + 1
    BY <1>0 DEF ThreadRec
<1> HIDE DEF x
<1>6. ThreadOK(x, table, ss)
    BY <1>0, <1>1, <1>2, <1>3, <1>5 DEF ThreadOK
<1>7. thread \in [Threads -> ThreadRec]
    BY <1>0 DEF RegistryOK
<1>8. thread' \in [Threads -> ThreadRec] /\ \A u \in Threads : thread'[u] = IF u = t THEN x ELSE thread[u]
    BY <1>1, <1>5, <1>7
<1>9. \A u \in Threads : thread'[u].pc = "init" <=> t = u
    BY <1>0, <1>1, <1>5, <1>8, ThreadAssumption DEF RegistryOK
<1>10. RegistryOK(t, table, ss, thread')
    BY <1>4, <1>6, <1>8, <1>9 DEF RegistryOK
<1> QED
    BY <1>1, <1>3, <1>4, <1>10 DEF DynInv

(* The end of init changes nothing else. *)
LEMMA InitedFacts ==
    ASSUME NEW old, SchemaOK(old)
    PROVE  LET s == [old EXCEPT !.inited = TRUE]
           IN  SchemaOK(s) /\ Grown(old, s) /\ s.inited /\ s.name = old.name
<1> DEFINE s == [old EXCEPT !.inited = TRUE]
<1>1. old \in SchemaRec
    BY DEF SchemaOK
<1>2. PICK yes \in BOOLEAN : yes = TRUE
    OBVIOUS
<1>a. s = [old EXCEPT !.inited = yes]
    BY <1>2
<1> HIDE DEF s
<1>3. s \in SchemaRec
    BY <1>1, <1>a DEF SchemaRec
<1>4. s.name = old.name /\ s.fields = old.fields /\ s.size = old.size /\ old.size \in Nat
    BY <1>1, <1>a DEF SchemaRec
<1>b. s.inited = yes
    BY <1>1, <1>a DEF SchemaRec
<1>5. s.inited
    BY <1>b, <1>2
<1>6. LayoutOK(s)
    BY <1>4 DEF SchemaOK, LayoutOK
<1>7. old.size <= s.size
    BY <1>4
<1>8. Grown(old, s)
    BY <1>4, <1>5, <1>7, Zenon DEF Grown
<1> QED
    BY <1>3, <1>4, <1>5, <1>6, <1>8 DEF SchemaOK, s

LEMMA PublishKeeps ==
    ASSUME DynInv, NEW t \in Threads, Publish(t)
    PROVE  DynInv'
<1> DEFINE h == thread[t].h
           old == schemas[h]
           s == [old EXCEPT !.inited = TRUE]
           ss == [schemas EXCEPT ![h] = s]
           x == [pc |-> "holds", h |-> h]
           tab == Emplace(table, old.name, h)
<1>0. SchemasOK(schemas) /\ RegistryOK(mutex, table, schemas, thread) /\ ObjectsOK(objects, schemas)
      /\ thread \in [Threads -> ThreadRec] /\ ThreadOK(thread[t], table, schemas)
      /\ NamesOK(table, schemas)
    BY DEF DynInv, RegistryOK
<1>1. /\ thread[t].pc = "init" /\ table' = tab /\ mutex' = NoThread /\ schemas' = ss
      /\ thread' = [thread EXCEPT ![t] = x] /\ UNCHANGED objects
    BY DEF Publish
<1>2. h \in 1 .. Len(schemas) /\ old.name \notin DOMAIN table /\ SchemaOK(old)
    BY <1>0, <1>1 DEF ThreadOK, SchemasOK
<1> HIDE DEF h
<1>3. SchemaOK(s) /\ Grown(old, s) /\ s.inited /\ s.name = old.name
    BY <1>2, InitedFacts
<1> HIDE DEF s
<1>4. SchemasOK(ss) /\ AllGrown(schemas, ss) /\ Len(ss) = Len(schemas) /\ ss[h] = s
      /\ Len(ss) \in Nat
    BY <1>0, <1>2, <1>3, OneGrown DEF AllGrown
<1> HIDE DEF ss
<1>5. RegistryOK(mutex, table, ss, thread) /\ ObjectsOK(objects, ss)
    BY <1>0, <1>4, RegistryStaysOK, ObjectsStayOK
<1>6. x \in ThreadRec /\ x.pc = "holds" /\ x.h = h
    BY <1>2, <1>4 DEF ThreadRec
<1> HIDE DEF x
<1>7. /\ DOMAIN tab = DOMAIN table \cup {old.name} /\ tab[old.name] = h
      /\ \A k \in DOMAIN table : tab[k] = table[k]
    BY <1>2 DEF Emplace
<1> HIDE DEF tab, old
<1>8. thread' \in [Threads -> ThreadRec] /\ \A u \in Threads : thread'[u] = IF u = t THEN x ELSE thread[u]
    BY <1>0, <1>1, <1>6
<1>9. mutex = t
    BY <1>0, <1>1 DEF RegistryOK
<1>10. \A u \in Threads : thread'[u].pc = "init" <=> NoThread = u
    BY <1>0, <1>6, <1>8, <1>9, ThreadAssumption DEF RegistryOK
<1>11. ASSUME NEW u \in Threads PROVE ThreadOK(thread'[u], tab, ss)
    <2>1. CASE u = t
        BY <2>1, <1>2, <1>3, <1>4, <1>6, <1>7, <1>8 DEF ThreadOK
    <2>2. CASE u # t
        <3>1. thread'[u] = thread[u] /\ thread[u].pc # "init" /\ ThreadOK(thread[u], table, ss)
            BY <2>2, <1>5, <1>8, <1>9 DEF RegistryOK
        <3> QED
            BY <3>1, <1>7 DEF ThreadOK
    <2> QED
        BY <2>1, <2>2
<1>12. NamesOK(tab, ss)
    <2>1. NamesOK(table, ss)
        BY <1>5 DEF RegistryOK
    <2> QED
        BY <2>1, <1>2, <1>3, <1>4, <1>7 DEF NamesOK
<1>13. RegistryOK(NoThread, tab, ss, thread')
    BY <1>8, <1>10, <1>11, <1>12 DEF RegistryOK
<1> QED
    BY <1>1, <1>4, <1>5, <1>13 DEF DynInv

LEMMA ExtendKeeps ==
    ASSUME DynInv, NEW t \in Threads, NEW name \in FieldNames, NEW x \in Slots,
           Extend(t, Place(schemas[thread[t].h], name, x, x.bytes))
    PROVE  DynInv'
<1> DEFINE h == thread[t].h
           s == Place(schemas[h], name, x, x.bytes)
           ss == [schemas EXCEPT ![h] = s]
<1>0. SchemasOK(schemas) /\ RegistryOK(mutex, table, schemas, thread) /\ ObjectsOK(objects, schemas)
      /\ ThreadOK(thread[t], table, schemas)
    BY DEF DynInv, RegistryOK
<1>1. thread[t].pc \in {"init", "holds"} /\ schemas' = ss
      /\ UNCHANGED <<mutex, table, thread, objects>>
    BY DEF Extend
<1>2. h \in 1 .. Len(schemas)
    BY <1>0, <1>1 DEF ThreadOK
<1>3. SchemaOK(schemas[h])
    BY <1>0, <1>2 DEF SchemasOK
<1>4. SchemaOK(s) /\ Grown(schemas[h], s)
    BY <1>3, PlaceFacts
<1> HIDE DEF s, h
<1>5. SchemasOK(ss) /\ AllGrown(schemas, ss)
    BY <1>0, <1>2, <1>4, OneGrown
<1> HIDE DEF ss
<1>6. RegistryOK(mutex, table, ss, thread) /\ ObjectsOK(objects, ss)
    BY <1>0, <1>5, RegistryStaysOK, ObjectsStayOK
<1> QED
    BY <1>1, <1>5, <1>6 DEF DynInv


LEMMA NewObjectKeeps ==
    ASSUME DynInv, NEW t \in Threads, NewObject(t)
    PROVE  DynInv'
<1> DEFINE h == thread[t].h
           bytes == schemas[h].size
           mem == [w \in 0 .. bytes \div 8 - 1 |-> Zero]
           obj == [h |-> h, bytes |-> bytes, set |-> << >>, mem |-> mem, outside |-> FALSE]
           n == Len(objects)
<1>0. SchemasOK(schemas) /\ RegistryOK(mutex, table, schemas, thread) /\ ObjectsOK(objects, schemas)
      /\ ThreadOK(thread[t], table, schemas)
    BY DEF DynInv, RegistryOK
<1>1. thread[t].pc = "holds" /\ objects' = Append(objects, obj)
      /\ UNCHANGED <<mutex, table, schemas, thread>>
    BY DEF NewObject
<1>2. h \in 1 .. Len(schemas)
    BY <1>0, <1>1 DEF ThreadOK
<1>3. SchemaOK(schemas[h])
    BY <1>0, <1>2 DEF SchemasOK
<1>4. bytes \in Nat /\ bytes % 8 = 0
    BY <1>3 DEF SchemaOK, LayoutOK, SchemaRec
<1>5. obj.h = h /\ obj.bytes = bytes /\ obj.set = << >> /\ obj.mem = mem
    OBVIOUS
<1>6. ~obj.outside
    OBVIOUS
<1>7. DOMAIN mem = 0 .. bytes \div 8 - 1
    OBVIOUS
<1> HIDE DEF obj, mem, bytes, h
<1>8. DOMAIN obj.set = {} /\ bytes = schemas[h].size /\ bytes <= bytes
    BY <1>4, <1>5 DEF bytes
<1>9. ObjectOK(obj, schemas)
    BY <1>2, <1>4, <1>5, <1>6, <1>7, <1>8 DEF ObjectOK
<1>10. PICK S : objects \in Seq(S)
    BY <1>0 DEF ObjectsOK
<1>11. objects \in Seq(S \cup {obj}) /\ n \in Nat
    BY <1>10
<1>12. /\ Append(objects, obj) \in Seq(S \cup {obj}) /\ Len(Append(objects, obj)) = n + 1
       /\ Append(objects, obj)[n + 1] = obj /\ \A o \in 1 .. n : Append(objects, obj)[o] = objects[o]
    BY <1>11
<1>13. ObjectsOK(Append(objects, obj), schemas)
    BY <1>0, <1>9, <1>11, <1>12 DEF ObjectsOK
<1> QED
    BY <1>0, <1>1, <1>13 DEF DynInv

(* The words of two fields of a layout are different. *)
LEMMA ExtentsApart ==
    ASSUME NEW s, SchemaOK(s), NEW f \in DOMAIN s.fields, NEW g \in DOMAIN s.fields, f # g
    PROVE  Extent(s.fields[f]) \cap Extent(s.fields[g]) = {}
<1> DEFINE a == s.fields[f].off
           b == s.fields[g].off
           m == s.fields[f].dt.words
           k == s.fields[g].dt.words
<1>1. s.fields[f] \in FieldRec /\ s.fields[g] \in FieldRec
    BY DEF SchemaOK, SchemaRec, FieldMap
<1>2. a \in Nat /\ b \in Nat /\ m \in Nat /\ k \in Nat
    BY <1>1, SlotAssumption DEF FieldRec
<1>3. a % 8 = 0 /\ b % 8 = 0 /\ (a + 8 * m <= b \/ b + 8 * k <= a)
    BY DEF SchemaOK, LayoutOK, EndOf
<1>4. Extent(s.fields[f]) = (a \div 8) .. (a \div 8 + m - 1)
      /\ Extent(s.fields[g]) = (b \div 8) .. (b \div 8 + k - 1)
    BY DEF Extent
<1> HIDE DEF a, b, m, k
<1>5. a \div 8 + m <= b \div 8 \/ b \div 8 + k <= a \div 8
    BY <1>2, <1>3
<1> QED
    BY <1>2, <1>4, <1>5

(* The words of a field are inside an object that has the size of the layout. *)
LEMMA ExtentInside ==
    ASSUME NEW s, SchemaOK(s), NEW f \in DOMAIN s.fields
    PROVE  Extent(s.fields[f]) \subseteq 0 .. (s.size \div 8 - 1)
<1> DEFINE a == s.fields[f].off
           m == s.fields[f].dt.words
<1>1. s.fields[f] \in FieldRec /\ s.size \in Nat
    BY DEF SchemaOK, SchemaRec, FieldMap
<1>2. a \in Nat /\ m \in Nat
    BY <1>1, SlotAssumption DEF FieldRec
<1>3. a % 8 = 0 /\ s.size % 8 = 0 /\ a + 8 * m <= s.size
    BY DEF SchemaOK, LayoutOK, EndOf
<1>4. Extent(s.fields[f]) = (a \div 8) .. (a \div 8 + m - 1)
    BY DEF Extent
<1> HIDE DEF a, m
<1>5. a \div 8 + m <= s.size \div 8 /\ a \div 8 \in Nat
    BY <1>1, <1>2, <1>3
<1> QED
    BY <1>1, <1>2, <1>4, <1>5


LEMMA StoreKeeps ==
    ASSUME DynInv, NEW o \in 1 .. Len(objects), NEW name \in DOMAIN schemas[objects[o].h].fields,
           Store(o, name, schemas[objects[o].h].fields[name].dt.words)
    PROVE  DynInv'
<1> DEFINE old == objects[o]
           s == schemas[old.h]
           words == Extent(s.fields[name])
           set == Emplace(old.set, name, words)
           mem == [w \in DOMAIN old.mem |-> IF w \in words THEN <<name, w>> ELSE old.mem[w]]
           out == old.outside \/ \E w \in words : w \notin DOMAIN old.mem
           obj == [h |-> old.h, bytes |-> old.bytes, set |-> set, mem |-> mem, outside |-> out]
<1>0. SchemasOK(schemas) /\ RegistryOK(mutex, table, schemas, thread) /\ ObjectsOK(objects, schemas)
    BY DEF DynInv
<1>1. objects' = [objects EXCEPT ![o] = obj] /\ UNCHANGED <<mutex, table, schemas, thread>>
    BY DEF Store, Extent
<1>2. ObjectOK(old, schemas)
    BY <1>0 DEF ObjectsOK
<1>3. old.h \in 1 .. Len(schemas) /\ SchemaOK(s)
    BY <1>0, <1>2 DEF ObjectOK, SchemasOK
<1>4. /\ old.bytes \in Nat /\ old.bytes <= s.size /\ old.bytes % 8 = 0 /\ s.size \in Nat
      /\ DOMAIN old.mem = 0 .. old.bytes \div 8 - 1
      /\ \A f \in DOMAIN old.set : f \in DOMAIN s.fields
    BY <1>2, <1>3 DEF ObjectOK, SchemaOK, SchemaRec
<1>5. old.outside => old.bytes < s.size
    BY <1>2 DEF ObjectOK
<1>6. \A f \in DOMAIN old.set :
          /\ old.set[f] = Extent(s.fields[f])
          /\ \A w \in old.set[f] \cap DOMAIN old.mem : old.mem[w] = <<f, w>>
    BY <1>2 DEF ObjectOK
<1>7. words \subseteq 0 .. (s.size \div 8 - 1)
    BY <1>3, ExtentInside
<1>8. obj.h = old.h /\ obj.bytes = old.bytes /\ obj.set = set /\ obj.mem = mem
    OBVIOUS
<1>9. obj.outside <=> out
    BY Zenon
<1>10. /\ DOMAIN mem = DOMAIN old.mem
       /\ \A w \in DOMAIN old.mem : mem[w] = IF w \in words THEN <<name, w>> ELSE old.mem[w]
    OBVIOUS
<1>11. /\ DOMAIN set = DOMAIN old.set \cup {name} /\ set[name] = words
       /\ \A f \in DOMAIN old.set : set[f] = old.set[f]
    BY <1>6 DEF Emplace
<1>12. out => old.bytes < s.size
    <2> SUFFICES ASSUME NEW w \in words, w \notin DOMAIN old.mem
                 PROVE  old.bytes < s.size
        BY <1>5
    <2>1. w \in 0 .. (s.size \div 8 - 1) /\ w \notin 0 .. old.bytes \div 8 - 1
        BY <1>4, <1>7
    <2> HIDE DEF s, old
    <2> QED
        BY <2>1, <1>4
<1> HIDE DEF obj, set, mem, out
<1>13. ASSUME NEW f \in DOMAIN set
       PROVE  /\ f \in DOMAIN s.fields /\ set[f] = Extent(s.fields[f])
              /\ \A w \in set[f] \cap DOMAIN mem : mem[w] = <<f, w>>
    <2>1. CASE f = name
        BY <2>1, <1>10, <1>11
    <2>2. CASE f # name
        <3>1. f \in DOMAIN old.set /\ set[f] = old.set[f] /\ f \in DOMAIN s.fields
            BY <2>2, <1>4, <1>11
        <3>2. Extent(s.fields[f]) \cap words = {}
            BY <2>2, <3>1, <1>3, ExtentsApart
        <3> HIDE DEF words, s, old
        <3> QED
            BY <3>1, <3>2, <1>6, <1>10
    <2> QED
        BY <2>1, <2>2
<1>14. obj.outside => obj.bytes < s.size
    BY <1>8, <1>9, <1>12
<1>15. ObjectOK(obj, schemas)
    BY <1>3, <1>4, <1>8, <1>10, <1>13, <1>14 DEF ObjectOK
<1>16. PICK S : objects \in Seq(S)
    BY <1>0 DEF ObjectsOK
<1> HIDE DEF s, words, old
<1>17. objects \in Seq(S \cup {obj})
    BY <1>16
<1> DEFINE os == [objects EXCEPT ![o] = obj]
<1>18. /\ os \in Seq(S \cup {obj}) /\ Len(os) = Len(objects)
       /\ \A i \in 1 .. Len(objects) : os[i] = IF i = o THEN obj ELSE objects[i]
    BY <1>17
<1> HIDE DEF os
<1>19. ObjectsOK(os, schemas)
    BY <1>0, <1>15, <1>18 DEF ObjectsOK
<1> QED
    BY <1>0, <1>1, <1>19 DEF DynInv, os

-----------------------------------------------------------------------------
(* Whatever threads create, look up, extend and use, in any interleaving: the *)
(* registry is guarded, layouts have no overlaps and objects follow them.     *)
THEOREM DynInvariant == DynSpec => []DynInv
<1>1. ASSUME DynInit PROVE DynInv
    <2>1. Idle \in ThreadRec /\ Idle.pc = "idle"
        BY DEF Idle, ThreadRec
    <2>2. thread \in [Threads -> ThreadRec] /\ \A t \in Threads : thread[t].pc = "idle"
        BY <1>1, <2>1 DEF DynInit
    <2>3. schemas = << >> /\ table = << >> /\ objects = << >> /\ mutex = NoThread
        BY <1>1 DEF DynInit
    <2>4. SchemasOK(schemas) /\ ObjectsOK(objects, schemas)
        BY <2>3 DEF SchemasOK, ObjectsOK
    <2>5. NamesOK(table, schemas)
        BY <2>3 DEF NamesOK
    <2>6. \A t \in Threads : ThreadOK(thread[t], table, schemas)
        BY <2>2 DEF ThreadOK
    <2>7. \A t \in Threads : thread[t].pc = "init" <=> mutex = t
        BY <2>2, <2>3, ThreadAssumption
    <2> QED
        BY <2>2, <2>3, <2>4, <2>5, <2>6, <2>7 DEF DynInv, RegistryOK
<1>2. ASSUME DynInv, [DynNext]_dynVars PROVE DynInv'
    <2>1. CASE UNCHANGED dynVars
        BY <1>2, <2>1 DEF DynInv, dynVars
    <2>2. ASSUME NEW t \in Threads, NEW name \in SchemaNames, GetExisting(t, name) PROVE DynInv'
        BY <1>2, <2>2, GetExistingKeeps
    <2>3. ASSUME NEW t \in Threads, NEW name \in SchemaNames, NEW isTable \in BOOLEAN,
                 GetOrCreateNew(t, name, isTable)
          PROVE  DynInv'
        BY <1>2, <2>3, GetOrCreateNewKeeps
    <2>4. ASSUME NEW t \in Threads, NEW name \in FieldNames, NEW x \in Slots,
                 Extend(t, Place(schemas[thread[t].h], name, x, x.bytes))
          PROVE  DynInv'
        BY <1>2, <2>4, ExtendKeeps
    <2>5. ASSUME NEW t \in Threads, Publish(t) PROVE DynInv'
        BY <1>2, <2>5, PublishKeeps
    <2>6. ASSUME NEW t \in Threads, Release(t) PROVE DynInv'
        BY <1>2, <2>6, ReleaseKeeps
    <2>7. ASSUME NEW t \in Threads, NewObject(t) PROVE DynInv'
        BY <1>2, <2>7, NewObjectKeeps
    <2>8. ASSUME NEW o \in 1 .. Len(objects), NEW name \in DOMAIN schemas[objects[o].h].fields,
                 Store(o, name, schemas[objects[o].h].fields[name].dt.words)
          PROVE  DynInv'
        BY <1>2, <2>8, StoreKeeps
    <2> QED
        BY <1>2, <2>1, <2>2, <2>3, <2>4, <2>5, <2>6, <2>7, <2>8 DEF DynNext
<1> QED
    BY <1>1, <1>2, PTL DEF DynSpec

(* What Set stored in a field stays until the field is set again, whatever    *)
(* other fields are set and however the schema grows, and no store leaves an  *)
(* object that is as large as its schema.                                    *)
THEOREM DynFieldsKeepTheirValues == DynSpec => []FieldsKeepTheirValues
<1>1. ASSUME DynInv PROVE FieldsKeepTheirValues
    <2> SUFFICES ASSUME NEW o \in 1 .. Len(objects)
                 PROVE  /\ objects[o].bytes = schemas[objects[o].h].size => ~objects[o].outside
                        /\ \A f \in DOMAIN objects[o].set :
                              objects[o].set[f] \subseteq DOMAIN objects[o].mem
                                => \A w \in objects[o].set[f] : objects[o].mem[w] = <<f, w>>
        BY DEF FieldsKeepTheirValues
    <2>1. ObjectOK(objects[o], schemas)
        BY <1>1 DEF DynInv, ObjectsOK
    <2>2. ASSUME objects[o].outside
          PROVE  objects[o].bytes # schemas[objects[o].h].size
        BY <2>1, <2>2 DEF ObjectOK
    <2> QED
        BY <2>1, <2>2 DEF ObjectOK
<1> QED
    BY <1>1, DynInvariant, PTL

(* A schema is found by its name only after its init function has run, and    *)
(* all threads that use a name use one schema.                               *)
THEOREM DynOnePublishedSchema == DynSpec => []OnePublishedSchema
<1>1. ASSUME DynInv PROVE OnePublishedSchema
    BY <1>1 DEF DynInv, RegistryOK, NamesOK, ThreadOK, OnePublishedSchema
<1> QED
    BY <1>1, DynInvariant, PTL


(* Code that was compiled for a schema has the offsets of its fields in it: a *)
(* schema is never replaced, no field moves or changes its type, the size     *)
(* only grows, and a schema that was initialised stays so.                   *)
THEOREM DynFieldsNeverMove == DynSpec => [][AllGrown(schemas, schemas')]_dynVars
<1>1. ASSUME DynInv, [DynNext]_dynVars PROVE AllGrown(schemas, schemas') \/ UNCHANGED dynVars
    <2>0. SchemasOK(schemas) /\ \A t \in Threads : ThreadOK(thread[t], table, schemas)
        BY <1>1 DEF DynInv, RegistryOK
    <2>1. ASSUME schemas' = schemas PROVE AllGrown(schemas, schemas')
        <3>1. Len(schemas) \in Nat /\ \A i \in 1 .. Len(schemas) : Grown(schemas[i], schemas[i])
            BY <2>0, GrownSelf DEF SchemasOK
        <3> QED
            BY <2>1, <3>1 DEF AllGrown
    <2>2. ASSUME NEW t \in Threads, NEW name \in SchemaNames, NEW isTable \in BOOLEAN,
                 GetOrCreateNew(t, name, isTable)
          PROVE  AllGrown(schemas, schemas')
        <3>1. SchemaOK(NewSchema(name, isTable))
            BY NewSchemaFacts
        <3>2. AllGrown(schemas, Append(schemas, NewSchema(name, isTable)))
            BY <2>0, <3>1, OneMore
        <3> QED
            BY <2>2, <3>2 DEF GetOrCreateNew
    <2>3. ASSUME NEW t \in Threads, NEW name \in FieldNames, NEW x \in Slots,
                 Extend(t, Place(schemas[thread[t].h], name, x, x.bytes))
          PROVE  AllGrown(schemas, schemas')
        <3> DEFINE h == thread[t].h
                   s == Place(schemas[h], name, x, x.bytes)
        <3>1. h \in 1 .. Len(schemas) /\ schemas' = [schemas EXCEPT ![h] = s]
            BY <2>0, <2>3 DEF Extend, ThreadOK
        <3>2. SchemaOK(s) /\ Grown(schemas[h], s)
            BY <2>0, <3>1, PlaceFacts DEF SchemasOK
        <3> HIDE DEF s, h
        <3> QED
            BY <2>0, <3>1, <3>2, OneGrown
    <2>4. ASSUME NEW t \in Threads, Publish(t) PROVE AllGrown(schemas, schemas')
        <3> DEFINE h == thread[t].h
                   old == schemas[h]
                   s == [old EXCEPT !.inited = TRUE]
        <3>1. h \in 1 .. Len(schemas) /\ schemas' = [schemas EXCEPT ![h] = s]
            BY <2>0, <2>4 DEF Publish, ThreadOK
        <3>2. SchemaOK(s) /\ Grown(old, s)
            BY <2>0, <3>1, InitedFacts DEF SchemasOK
        <3> HIDE DEF s, h
        <3> QED
            BY <2>0, <3>1, <3>2, OneGrown
    <2> QED
        BY <1>1, <2>1, <2>2, <2>3, <2>4 DEF DynNext, GetExisting, Release, NewObject, Store
<1> QED
    BY <1>1, DynInvariant, PTL DEF DynSpec
=============================================================================
