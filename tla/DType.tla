-------------------------------- MODULE DType --------------------------------
(***************************************************************************)
(* The type descriptor of rapidudf (meta/dtype.h, meta/dtype.cc): a 64-bit *)
(* control word of bit fields and, for what the word cannot hold, a list   *)
(* of element descriptors.  Everything the compiler knows of a value is    *)
(* its DType.                                                              *)
(***************************************************************************)
EXTENDS Integers, Sequences

\* FundamentalType: the order of the numbers is the order of promotion.
INVALID == 0
VOID == 1
POINTER == 2
BIT == 3
U8 == 4
I8 == 5
U16 == 6
I16 == 7
U32 == 8
I32 == 9
U64 == 10
I64 == 11
F16 == 12
F32 == 13
F64 == 14
F80 == 15
STD_STRING_VIEW == 16
STRING_VIEW == 17
STD_STRING == 18
FLATBUFFERS_STRING == 19
JSON == 20
CONTEXT == 21
DYN_OBJECT == 22
TABLE == 23
BUILTIN_TYPE_END == 24
OBJECT_BEGIN == 64
COMPLEX_OBJECT == 16383

\* CollectionType
NO_COLLECTION == 0
ARRAY == 1
VECTOR == 2
MAP == 3
SET == 4
UNORDERED_MAP == 5
UNORDERED_SET == 6
ABSL_SPAN == 7
TUPLE == 8
SIMD_VECTOR == 9

\* The fields of the control word, and the elements: a null element, which
\* SetElement leaves below the index it sets, is the empty sequence.
DTypeOf(t0, t1) ==
    [c |-> NO_COLLECTION, p |-> 0, t0 |-> t0, t1 |-> t1, n |-> 0, el |-> << >>]

Fundamental(t0) == DTypeOf(t0, INVALID)

NullElem == << >>

SetElement(d, idx, e) ==
    [d EXCEPT !.el = [i \in 1 .. (IF Len(@) > idx THEN Len(@) ELSE idx + 1) |->
                        IF i = idx + 1 THEN <<e>>
                        ELSE IF i <= Len(@) THEN @[i] ELSE NullElem]]

IsPtr(d) == d.p = 1
IsCollection(d) == d.c # NO_COLLECTION
IsFundamental(d) == ~IsPtr(d) /\ ~IsCollection(d)
IsComplexObj(d) == d.t0 = COMPLEX_OBJECT
IsSimdVector(d) == d.c = SIMD_VECTOR /\ d.n = 0
IsSimdVectorBit(d) == d.c = SIMD_VECTOR /\ d.t0 = BIT
IsAbslSpan(d) == d.c = ABSL_SPAN
IsTuple(d) == d.c = TUPLE
IsAnyMap(d) == d.c \in {MAP, UNORDERED_MAP}
Is(d, t0) == IsFundamental(d) /\ d.t0 = t0
IsBit(d) == Is(d, BIT)
IsStringView(d) == Is(d, STRING_VIEW)
IsPrimitive(d) == IsFundamental(d) /\ d.t0 \in BIT .. STRING_VIEW
IsNumber(d) == IsFundamental(d) /\ d.t0 \in U8 .. F80
IsInteger(d) == IsFundamental(d) /\ d.t0 \in U8 .. I64
IsFloat(d) == IsFundamental(d) /\ d.t0 \in F16 .. F80
IsVoid(d) == d.t0 = VOID
IsSigned(d) == d.t0 \in {I8, I16, I32, I64, F32, F64}

\* A variant that only clears the pointer bit.
PtrToClearing(d) == [d EXCEPT !.p = 0]

\* What a pointer points to.  A complex object gives its first element: the
\* descriptor of T** holds T* there, but a container of complex elements
\* keeps its element type in the same place.
PtrTo(d) ==
    IF IsComplexObj(d) /\ Len(d.el) > 0 THEN d.el[1][1] ELSE [d EXCEPT !.p = 0]

IsPtrTo(d, t0) == IsPtr(d) /\ Is(PtrTo(d), t0)
IsJsonPtr(d) == IsPtrTo(d, JSON)
IsContextPtr(d) == IsPtrTo(d, CONTEXT)
IsStringPtr(d) == IsPtrTo(d, STD_STRING) \/ IsPtrTo(d, FLATBUFFERS_STRING)

ToPtr(d) == [d EXCEPT !.p = 1]
ToCollection(d, c) == [d EXCEPT !.c = c]
ToSimdVector(d) == ToCollection(d, SIMD_VECTOR)
ToAbslSpan(d) == ToCollection(d, ABSL_SPAN)
ToArray(d, n) == [d EXCEPT !.c = ARRAY, !.n = n]

Key(d) ==
    IF ~IsAnyMap(d) THEN Fundamental(INVALID)
    ELSE IF Len(d.el) > 0 /\ d.el[1] # NullElem THEN d.el[1][1]
    ELSE Fundamental(d.t0)

\* The element of a container.  The fields the result does not need stay as
\* they are: the t1 of a map, the fixed size of an array.
ElemAt(d, at) ==
    IF Len(d.el) > 0 /\ (at = 2 => Len(d.el) = 2) /\ d.el[at] # NullElem THEN d.el[at][1]
    ELSE [d EXCEPT !.t0 = IF at = 2 THEN d.t1 ELSE @, !.c = NO_COLLECTION, !.el = << >>]

Elem(d) == ElemAt(d, IF IsAnyMap(d) THEN 2 ELSE 1)

\* Compare returns the difference of the control words as an int: only its
\* low 32 bits count, that is the container, the pointer bit, t0 and the low
\* eleven bits of t1.  The result here is the sign: -1, 0 or 1.
LowWord(d) == d.c + 64 * d.p + 128 * d.t0

SignOf(high, low) ==
    IF high = 0 /\ low = 0 THEN 0 ELSE IF high >= 2^10 THEN -1 ELSE 1

ControlSign(a, b) ==
    SignOf((a.t1 - b.t1 - (IF LowWord(a) < LowWord(b) THEN 1 ELSE 0)) % 2^11,
           LowWord(a) - LowWord(b))

SameControl(a, b) == [a EXCEPT !.el = << >>] = [b EXCEPT !.el = << >>]

RECURSIVE Compare(_, _)
CompareElem(x, y) ==
    IF x = NullElem \/ y = NullElem
    THEN (IF x = y THEN 0 ELSE IF x = NullElem THEN -1 ELSE 1)
    ELSE Compare(x[1], y[1])

FirstNonZero(signs) ==
    IF \A i \in DOMAIN signs : signs[i] = 0 THEN 0
    ELSE signs[CHOOSE i \in DOMAIN signs : signs[i] # 0 /\ \A j \in 1 .. i - 1 : signs[j] = 0]

Compare(a, b) ==
    IF ~SameControl(a, b) THEN ControlSign(a, b)
    ELSE IF Len(a.el) # Len(b.el) THEN (IF Len(a.el) < Len(b.el) THEN -1 ELSE 1)
    ELSE FirstNonZero([i \in DOMAIN b.el |-> CompareElem(a.el[i], b.el[i])])

SameDType(a, b) == Compare(a, b) = 0
Less(a, b) == Compare(a, b) < 0

CanCastTo(from, to) ==
    \/ SameDType(from, to)
    \/ IsVoid(from)
    \/ IsNumber(from) /\ IsNumber(to)
    \/ IsJsonPtr(from) /\ IsPrimitive(to)
    \/ IsStringView(to) /\ IsStringPtr(from)

\* Bytes a value takes on the stack or in a vector; 0 when it has no size.
ByteSize(d) ==
    IF IsPtr(d) THEN 8
    ELSE IF IsAbslSpan(d) \/ IsSimdVector(d) THEN 16
    ELSE CASE d.t0 \in {BIT, U8, I8} -> 1
           [] d.t0 \in {U16, I16} -> 2
           [] d.t0 \in {U32, I32, F32} -> 4
           [] d.t0 \in {VOID, F64, U64, I64} -> 8
           [] d.t0 \in {STD_STRING_VIEW, STRING_VIEW} -> 16
           [] OTHER -> 0

Bits(d) == IF IsBit(d) THEN 1 ELSE 8 * ByteSize(d)

QwordSize(d) == (ByteSize(d) + 7) \div 8

ExtractTupleDtypes(d) ==
    IF ~IsTuple(d) THEN <<d>>
    ELSE IF d.t0 = INVALID THEN << >>
    ELSE IF d.t1 = INVALID THEN <<Fundamental(d.t0)>>
    ELSE <<Fundamental(d.t0), Fundamental(d.t1)>>

\* Reports 4 for every pair.
TupleSize(d) ==
    IF ~IsTuple(d) \/ d.t0 = INVALID THEN 0 ELSE IF d.t1 = INVALID THEN 1 ELSE 4

-----------------------------------------------------------------------------
(***************************************************************************)
(* get_dtype<T>.  A C++ type is a term: a leaf with the number its branch  *)
(* of get_dtype returns, or a constructor.  const is transparent.          *)
(***************************************************************************)
Leaf(t0) == [k |-> "leaf", t0 |-> t0]
PtrT(of) == [k |-> "ptr", of |-> of]                  \* T* and T&
CollT(c, of) == [k |-> "coll", c |-> c, of |-> of]    \* vector, set, span, Vector
ArrayT(n, of) == [k |-> "array", n |-> n, of |-> of]
PairT(c, a, b) == [k |-> "pair", c |-> c, a |-> a, b |-> b]  \* map, pair, tuple
MonoT(a) == [k |-> "mono", a |-> a]                   \* tuple<T>

IsComplexElem(v) == IsPtr(v) \/ IsCollection(v)

WithHeld(d, idx, v) == IF IsComplexElem(v) THEN SetElement(d, idx, v) ELSE d

FieldOf(v) == IF IsComplexElem(v) THEN COMPLEX_OBJECT ELSE v.t0

RECURSIVE get_dtype(_)
get_dtype(T) ==
    CASE T.k = "leaf" -> Fundamental(T.t0)
      [] T.k = "ptr" ->
           LET v == get_dtype(T.of)
           IN  IF IsPtr(v) THEN SetElement(ToPtr(Fundamental(COMPLEX_OBJECT)), 0, v)
               ELSE ToPtr(v)
      [] T.k = "coll" ->
           LET v == get_dtype(T.of)
           IN  IF IsComplexElem(v)
               THEN SetElement(ToCollection(Fundamental(COMPLEX_OBJECT), T.c), 0, v)
               ELSE ToCollection(v, T.c)
      [] T.k = "array" -> ToArray(get_dtype(T.of), T.n)
      [] T.k = "pair" ->
           LET a == get_dtype(T.a)
               b == get_dtype(T.b)
           IN  ToCollection(WithHeld(WithHeld(DTypeOf(FieldOf(a), FieldOf(b)), 0, a), 1, b),
                            T.c)
      [] T.k = "mono" ->
           LET a == get_dtype(T.a)
           IN  ToCollection(WithHeld(DTypeOf(FieldOf(a), INVALID), 0, a), TUPLE)
=============================================================================
