----------------------------- MODULE VectorLoop -----------------------------
(***************************************************************************)
(* The loop that JitCompiler::BuildVectorIR generates for an expression on *)
(* vectors (compiler_eval.cc, codegen_vector.cc): whole units of Unit      *)
(* elements while the cursor is at most size - Unit, then once for the     *)
(* elements that are left.  The expression is applied element by element,  *)
(* so an element of the output is known by the element of the inputs that  *)
(* was loaded for it.                                                      *)
(***************************************************************************)
EXTENDS Integers

CONSTANTS
    Unit,         \* kVectorUnitSize, 64 in the code
    MaxSize       \* bound: the largest vector; sizes have 31 bits in the code

ASSUME UnitAssumption == Unit \in Nat \ {0}
ASSUME SizeAssumption == MaxSize \in Nat

VARIABLES
    loop,         \* where the generated code is
    vsize,        \* number of elements of the inputs
    bits,         \* [in, out]: whether an input or the output holds bits
    cursor,       \* the i32 variable of the loop
    out,          \* output element -> input element it was computed from
    top           \* one past the last element a store has covered

loopVars == <<loop, vsize, bits, cursor, out, top>>

Unset == -1

LoopTypeOK ==
    /\ loop \in {"idle", "chunks", "rest", "done"}
    /\ vsize \in 0 .. MaxSize
    /\ bits \in [in : BOOLEAN, out : BOOLEAN]
    /\ cursor \in 0 .. vsize
    /\ out \in [0 .. vsize - 1 -> Int]
    /\ top \in Nat

LoopInit ==
    /\ loop = "idle" /\ vsize = 0 /\ cursor = 0 /\ top = 0
    /\ bits = [in |-> FALSE, out |-> FALSE]
    /\ out = [i \in 0 .. -1 |-> Unset]

\* The input element that lane i - c of a load at cursor c holds.  LoadVector
\* and LoadNVector step over elements of type i1, which take a byte each.
Loaded(c, i) == IF bits.in THEN 8 * c + (i - c) ELSE i

\* A vector of the result is made, with the size of the inputs.
StartLoop(n, b) ==
    /\ loop = "idle"
    /\ loop' = "chunks" /\ vsize' = n /\ bits' = b
    /\ cursor' = 0 /\ top' = 0
    /\ out' = [i \in 0 .. n - 1 |-> Unset]

\* A variant that goes on while any element is left.
ChunkPastEnd ==
    /\ loop = "chunks" /\ cursor < vsize
    /\ out' = [i \in 0 .. vsize - 1 |->
                 IF i \in cursor .. cursor + Unit - 1 THEN Loaded(cursor, i) ELSE out[i]]
    /\ cursor' = cursor + Unit /\ top' = cursor + Unit
    /\ UNCHANGED <<loop, vsize, bits>>

\* StoreVector writes a whole unit.
Chunk ==
    /\ loop = "chunks" /\ cursor <= vsize - Unit
    /\ out' = [i \in 0 .. vsize - 1 |->
                 IF i \in cursor .. cursor + Unit - 1 THEN Loaded(cursor, i) ELSE out[i]]
    /\ cursor' = cursor + Unit /\ top' = cursor + Unit
    /\ UNCHANGED <<loop, vsize, bits>>

LoopEnds ==
    /\ loop = "chunks" /\ cursor > vsize - Unit
    /\ loop' = IF cursor < vsize THEN "rest" ELSE "done"
    /\ UNCHANGED <<vsize, bits, cursor, out, top>>

\* StoreNVector copies the elements that are left, but stores all bits of
\* the unit when the output holds bits.
Rest ==
    /\ loop = "rest"
    /\ out' = [i \in 0 .. vsize - 1 |-> IF i >= cursor THEN Loaded(cursor, i) ELSE out[i]]
    /\ top' = IF bits.out THEN cursor + Unit ELSE vsize
    /\ loop' = "done"
    /\ UNCHANGED <<vsize, bits, cursor>>

LoopStep == Chunk \/ LoopEnds \/ Rest

LoopNext ==
    \/ \E n \in 0 .. MaxSize, b \in [in : BOOLEAN, out : BOOLEAN] : StartLoop(n, b)
    \/ LoopStep

LoopSpec == LoopInit /\ [][LoopNext]_loopVars

-----------------------------------------------------------------------------
\* NewVectorBuf rounds the bytes of the output up to a multiple of 8, which
\* for bits is a multiple of a unit.
Capacity ==
    IF bits.out THEN ((vsize + Unit - 1) \div Unit) * Unit ELSE vsize

\* Element i of the output comes from element i of the inputs, whatever the
\* size is, a multiple of the unit, smaller than a unit or zero; what is not
\* computed yet is untouched; and no store leaves the buffer.  Inputs that
\* hold bits are the exception: their later units are loaded from elsewhere.
EachElementOnce ==
    /\ ~bits.in => \A i \in 0 .. vsize - 1 :
                      out[i] = IF i < cursor \/ loop = "done" THEN i ELSE Unset
    /\ top <= Capacity

\* A mask that was kept in a variable selects the same elements as one
\* written in place: every element of a bit vector is loaded from its place.
\* This does not hold for vectors of more than one unit.
BitsInPlace == loop = "done" => \A i \in 0 .. vsize - 1 : out[i] = i
=============================================================================
