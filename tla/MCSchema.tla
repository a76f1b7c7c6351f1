------------------------------- MODULE MCSchema -------------------------------
(* An instance of Schema: a struct, vectors and maps of pointers to it and to  *)
(* another struct, one protobuf, one flatbuffers and one struct row source.   *)
EXTENDS Schema

S == Leaf(OBJECT_BEGIN)
X == Leaf(OBJECT_BEGIN + 1)

MCRegTypes == {S, CollT(VECTOR, PtrT(S)), CollT(VECTOR, PtrT(X)), CollT(VECTOR, S),
               PairT(MAP, Leaf(STD_STRING), PtrT(S)), PairT(MAP, Leaf(STD_STRING), PtrT(X))}
MCFieldTypes == {Leaf(STD_STRING), CollT(VECTOR, Leaf(I32))}

PbRow == [kind |-> "pb", fields |-> << [name |-> "m", t |-> JSON], [name |-> "a", t |-> I32] >>]
FbsRow == [kind |-> "fbs", fields |-> << [name |-> "a", t |-> I8, repeating |-> FALSE],
                                        [name |-> "v", t |-> I8, repeating |-> TRUE] >>]
StructRow == [kind |-> "struct", type |-> S]
MCRowSources == {PbRow, FbsRow, StructRow}

Opts(prefix, ignore) == [include |-> {}, exclude |-> {}, prefix |-> prefix, ignore |-> ignore]
MCColumnOptions == {Opts("p", TRUE), Opts("", FALSE)}

MCObjFieldTypes == {Leaf(I32), Leaf(STRING_VIEW)}
ThreadSymmetry == Permutations(Threads)

\* What the field types of the library take.
MCSlots == LET d == {Fundamental(t) : t \in {BIT, U8, I8, U16, I16, U32, I32, F32, F64, U64, I64,
                                            STD_STRING_VIEW, STRING_VIEW}}
               allowed == {x \in d : IsPrimitive(x)} \cup {ToSimdVector(x) : x \in d}
           IN  {[bytes |-> ByteSize(x), words |-> CxxWords(x)] : x \in allowed}

LongDoubleTypes == {Leaf(I32), Leaf(F80)}
=============================================================================
