----------------------- MODULE GeneratedCode_proofs -----------------------
(***************************************************************************)
(* Proofs about what the compiler makes: its code, and who owns it.        *)
(*                                                                         *)
(* The generated loop over vectors computes every element from its own     *)
(* place, for every unit and every size.  The invariant is not inductive   *)
(* by itself: that the last store of a bit vector stays in the buffer      *)
(* rests on the cursor being a multiple of the unit, and that the rest     *)
(* fits one unit on the condition that ended the loop.                     *)
(*                                                                         *)
(* For any set of names, any finite set of JitFunctions, any number of     *)
(* compilations and any outcome of each, the count of owners is exact, so  *)
(* that code is freed with its last owner and not before, and a function   *)
(* that owns a module is one of its functions.                             *)
(*                                                                         *)
(* For every source of any length and nesting, a function that is accepted *)
(* does what the source says and reads no memory that nothing was stored   *)
(* in.  The invariant is about the blocks while they are built: a block is *)
(* made for a place in the source, and every instruction that is got to    *)
(* fits the place where the source is then, up to the moves in which it    *)
(* does nothing.  Two places where it does something are told apart by     *)
(* these moves, so that the blocks and the source run in step.             *)
(***************************************************************************)
EXTENDS VectorLoop, JitFunctions, ControlFlow,
        FiniteSetTheorems, SequenceTheorems, NaturalsInduction, WellFoundedInduction, TLAPS

-----------------------------------------------------------------------------
(* The loop over vectors. *)

\* What the generated code keeps between two iterations.
LoopInv ==
    /\ LoopTypeOK
    /\ EachElementOnce
    /\ \E q \in Nat : cursor = q * Unit
    /\ loop \in {"idle", "chunks"} => top <= cursor
    /\ loop = "rest" => cursor < vsize /\ vsize - Unit < cursor /\ top <= cursor
    /\ loop = "done" => vsize - Unit < cursor
    /\ loop = "idle" => vsize = 0

-----------------------------------------------------------------------------
\* The buffer of NewVectorBuf for n bits holds every unit that begins inside
\* the n bits.
LEMMA RoundedUpHoldsUnits ==
    ASSUME NEW u \in Nat \ {0}, NEW n \in Nat, NEW q \in Nat
    PROVE  /\ n <= ((n + u - 1) \div u) * u
           /\ q * u < n => q * u + u <= ((n + u - 1) \div u) * u
<1> DEFINE d == (n + u - 1) \div u
<1>1. /\ d \in Int
      /\ u * d <= n + u - 1
      /\ n + u - 1 < u * d + u
  OBVIOUS
<1>2. u * d = d * u /\ u * d \in Int
  BY <1>1
<1> HIDE DEF d
<1>3. n <= d * u
  BY <1>1, <1>2
<1>4. ASSUME q * u < n
      PROVE  q * u + u <= d * u
  <2>1. q < d
    <3>1. CASE d <= q
      <4>1. d * u <= q * u
        BY <3>1, <1>1
      <4> QED
        BY <4>1, <1>3, <1>4, <1>2
    <3> QED
      BY <3>1, <1>1
  <2>2. q + 1 <= d
    BY <2>1, <1>1
  <2>3. (q + 1) * u <= d * u
    BY <2>2, <1>1
  <2> QED
    BY <2>3
<1> QED
  BY <1>3, <1>4 DEF d

\* The loop starts at cursor 0 with nothing computed.
LEMMA LoopInvInit == LoopInit => LoopInv
<1> SUFFICES ASSUME LoopInit PROVE LoopInv
  OBVIOUS
<1> USE UnitAssumption, SizeAssumption DEF LoopInit
<1>1. LoopTypeOK
  BY DEF LoopTypeOK, Unset
<1>2. Capacity \in Int /\ 0 <= Capacity
  BY RoundedUpHoldsUnits DEF Capacity
<1>3. EachElementOnce
  BY <1>2 DEF EachElementOnce
<1>4. cursor = 0 * Unit
  OBVIOUS
<1> QED
  BY <1>1, <1>3, <1>4 DEF LoopInv

\* A new loop starts with a vector of the inputs' size, nothing computed.
LEMMA StartLoopKeepsInv ==
    ASSUME LoopInv, NEW n \in 0 .. MaxSize, NEW b \in [in : BOOLEAN, out : BOOLEAN], StartLoop(n, b)
    PROVE  LoopInv'
<1> USE UnitAssumption, SizeAssumption DEF StartLoop
<1>1. LoopTypeOK'
  BY DEF LoopTypeOK, Unset
<1>2. (0 <= Capacity)'
  BY RoundedUpHoldsUnits DEF Capacity
<1>3. EachElementOnce'
  BY <1>2 DEF EachElementOnce
<1>4. cursor' = 0 * Unit
  OBVIOUS
<1> QED
  BY <1>1, <1>3, <1>4 DEF LoopInv

\* A whole unit is stored: the elements of the unit are computed, all others
\* stay.
LEMMA ChunkKeepsInv == LoopInv /\ Chunk => LoopInv'
<1> SUFFICES ASSUME LoopInv, Chunk PROVE LoopInv'
  OBVIOUS
<1> USE UnitAssumption, SizeAssumption
<1>1. /\ vsize \in Nat /\ vsize <= MaxSize
      /\ cursor \in Nat /\ cursor + Unit <= vsize
      /\ out \in [0 .. vsize - 1 -> Int]
      /\ bits \in [in : BOOLEAN, out : BOOLEAN]
  BY DEF LoopInv, LoopTypeOK, Chunk
<1>2. \A i \in 0 .. vsize - 1 : Loaded(cursor, i) \in Int
  BY <1>1 DEF Loaded
<1>3. LoopTypeOK'
  <2>1. (out \in [0 .. vsize - 1 -> Int])'
    BY <1>1, <1>2 DEF Chunk
  <2>2. (loop \in {"idle", "chunks", "rest", "done"} /\ vsize \in 0 .. MaxSize)'
    BY <1>1 DEF Chunk
  <2>3. (bits \in [in : BOOLEAN, out : BOOLEAN])'
    BY <1>1 DEF Chunk
  <2>4. (cursor \in 0 .. vsize /\ top \in Nat)'
    BY <1>1 DEF Chunk
  <2> QED
    BY <2>1, <2>2, <2>3, <2>4 DEF LoopTypeOK
<1>4. (top <= Capacity)'
  <2>1. top' <= vsize
    BY <1>1 DEF Chunk
  <2>2. vsize <= ((vsize + Unit - 1) \div Unit) * Unit
    BY <1>1, RoundedUpHoldsUnits
  <2>3. Capacity' = Capacity
    BY DEF Chunk, Capacity
  <2>4. vsize <= Capacity
    BY <2>2, <1>1 DEF Capacity
  <2>5. Capacity \in Int
    BY <1>1 DEF Capacity
  <2>6. top' \in Int
    BY <1>1 DEF Chunk
  <2> QED
    BY <2>1, <2>3, <2>4, <2>5, <2>6, <1>1
<1>5. ASSUME ~bits'.in, NEW i \in 0 .. vsize' - 1
      PROVE  out'[i] = IF i < cursor' \/ loop' = "done" THEN i ELSE Unset
  <2>1. ~bits.in /\ i \in 0 .. vsize - 1 /\ loop' = "chunks" /\ loop = "chunks"
    BY <1>5 DEF Chunk
  <2>2. out[i] = IF i < cursor THEN i ELSE Unset
    BY <2>1 DEF LoopInv, EachElementOnce
  <2>3. out'[i] = IF i \in cursor .. cursor + Unit - 1 THEN i ELSE out[i]
    BY <2>1 DEF Chunk, Loaded
  <2>4. cursor' = cursor + Unit /\ loop' # "done"
    BY <2>1 DEF Chunk
  <2>5. i < cursor + Unit <=> (i < cursor \/ i \in cursor .. cursor + Unit - 1)
    BY <2>1, <1>1
  <2>6. (i \in cursor .. cursor + Unit - 1) => ~(i < cursor)
    BY <2>1, <1>1
  <2> QED
    BY <2>2, <2>3, <2>4, <2>5, <2>6
<1>6. EachElementOnce'
  BY <1>4, <1>5 DEF EachElementOnce
<1>7. PICK q \in Nat : cursor = q * Unit
  BY DEF LoopInv
<1>8. cursor' = (q + 1) * Unit
  BY <1>7, <1>1 DEF Chunk
<1>9. loop' = "chunks" /\ top' <= cursor'
  BY <1>1 DEF Chunk
<1> QED
  BY <1>3, <1>6, <1>8, <1>9 DEF LoopInv

\* The loop is left when less than a unit is left, for the rest or for good.
LEMMA LoopEndsKeepsInv == LoopInv /\ LoopEnds => LoopInv'
<1> SUFFICES ASSUME LoopInv, LoopEnds PROVE LoopInv'
  OBVIOUS
<1> USE UnitAssumption, SizeAssumption
<1>1. /\ vsize \in Nat /\ cursor \in Nat /\ cursor <= vsize /\ top \in Nat
      /\ vsize - Unit < cursor /\ top <= cursor
      /\ loop = "chunks"
  BY DEF LoopInv, LoopTypeOK, LoopEnds
<1>2. LoopTypeOK'
  BY DEF LoopInv, LoopTypeOK, LoopEnds
<1>3. top' <= Capacity'
  BY DEF LoopInv, EachElementOnce, LoopEnds, Capacity
<1>4. ASSUME ~bits'.in, NEW i \in 0 .. vsize' - 1
      PROVE  out'[i] = IF i < cursor' \/ loop' = "done" THEN i ELSE Unset
  <2>1. ~bits.in /\ i \in 0 .. vsize - 1
    BY <1>4 DEF LoopEnds
  <2>2. out[i] = IF i < cursor THEN i ELSE Unset
    BY <2>1, <1>1 DEF LoopInv, EachElementOnce
  <2>3. loop' = "done" => i < cursor
    BY <2>1, <1>1 DEF LoopEnds
  <2> QED
    BY <2>2, <2>3 DEF LoopEnds
<1>5. EachElementOnce'
  BY <1>3, <1>4 DEF EachElementOnce
<1>6. PICK q \in Nat : cursor = q * Unit
  BY DEF LoopInv
<1>7. cursor' = q * Unit
  BY <1>6 DEF LoopEnds
<1>8. /\ loop' = "rest" => cursor' < vsize'
      /\ loop' \in {"rest", "done"}
      /\ vsize' - Unit < cursor' /\ top' <= cursor'
  BY <1>1 DEF LoopEnds
<1> QED
  BY <1>2, <1>5, <1>7, <1>8 DEF LoopInv

\* The elements after the last whole unit are computed once; a unit of bits
\* that is stored whole still fits the buffer, since it begins before the end.
LEMMA RestKeepsInv == LoopInv /\ Rest => LoopInv'
<1> SUFFICES ASSUME LoopInv, Rest PROVE LoopInv'
  OBVIOUS
<1> USE UnitAssumption, SizeAssumption
<1>1. /\ vsize \in Nat /\ cursor \in Nat /\ cursor < vsize
      /\ vsize - Unit < cursor /\ loop = "rest"
      /\ out \in [0 .. vsize - 1 -> Int]
      /\ bits \in [in : BOOLEAN, out : BOOLEAN]
  BY DEF LoopInv, LoopTypeOK, Rest
<1>2. \A i \in 0 .. vsize - 1 : Loaded(cursor, i) \in Int
  BY <1>1 DEF Loaded
<1>3. PICK q \in Nat : cursor = q * Unit
  BY DEF LoopInv
<1>4. LoopTypeOK'
  <2>1. (out \in [0 .. vsize - 1 -> Int])'
    BY <1>1, <1>2 DEF Rest
  <2>2. (top \in Nat)'
    BY <1>1 DEF Rest
  <2>3. UNCHANGED <<vsize, bits, cursor>> /\ loop' = "done"
    BY DEF Rest
  <2> QED
    BY <2>1, <2>2, <2>3 DEF LoopInv, LoopTypeOK
<1>5. (top <= Capacity)'
  <2>1. Capacity' = Capacity
    BY DEF Rest, Capacity
  <2>2. CASE bits.out
    <3>1. top' = cursor + Unit
      BY <2>2 DEF Rest
    <3>2. q * Unit + Unit <= ((vsize + Unit - 1) \div Unit) * Unit
      BY <1>1, <1>3, RoundedUpHoldsUnits
    <3> QED
      BY <3>1, <3>2, <2>1, <2>2, <1>3 DEF Capacity
  <2>3. CASE ~bits.out
    BY <2>1, <2>3, <1>1 DEF Capacity, Rest
  <2> QED
    BY <2>2, <2>3
<1>6. ASSUME ~bits'.in, NEW i \in 0 .. vsize' - 1
      PROVE  out'[i] = IF i < cursor' \/ loop' = "done" THEN i ELSE Unset
  <2>1. ~bits.in /\ i \in 0 .. vsize - 1 /\ loop' = "done"
    BY <1>6 DEF Rest
  <2>2. out[i] = IF i < cursor THEN i ELSE Unset
    BY <2>1, <1>1 DEF LoopInv, EachElementOnce
  <2>3. out'[i] = IF i >= cursor THEN i ELSE out[i]
    BY <2>1 DEF Rest, Loaded
  <2> QED
    BY <2>1, <2>2, <2>3, <1>1
<1>7. EachElementOnce'
  BY <1>5, <1>6 DEF EachElementOnce
<1>8. cursor' = q * Unit /\ loop' = "done" /\ vsize' - Unit < cursor'
  BY <1>3, <1>1 DEF Rest
<1> QED
  BY <1>4, <1>7, <1>8 DEF LoopInv

\* The generated loop keeps LoopInv.
THEOREM LoopInvariant == LoopSpec => []LoopInv
<1>1. LoopInit => LoopInv
  BY LoopInvInit
<1>2. LoopInv /\ [LoopNext]_loopVars => LoopInv'
  <2> SUFFICES ASSUME LoopInv, [LoopNext]_loopVars PROVE LoopInv'
    OBVIOUS
  <2>1. ASSUME NEW n \in 0 .. MaxSize, NEW b \in [in : BOOLEAN, out : BOOLEAN], StartLoop(n, b)
        PROVE  LoopInv'
    BY <2>1, StartLoopKeepsInv
  <2>2. CASE Chunk
    BY <2>2, ChunkKeepsInv
  <2>3. CASE LoopEnds
    BY <2>3, LoopEndsKeepsInv
  <2>4. CASE Rest
    BY <2>4, RestKeepsInv
  <2>5. CASE UNCHANGED loopVars
    BY <2>5 DEF loopVars, LoopInv, LoopTypeOK, EachElementOnce, Capacity, Unset
  <2> QED
    BY <2>1, <2>2, <2>3, <2>4, <2>5 DEF LoopNext, LoopStep
<1> QED
  BY <1>1, <1>2, PTL DEF LoopSpec

\* For every unit and every size, output element i comes from input element
\* i, what is not computed yet is untouched, and no store leaves the buffer.
THEOREM EveryElementOnce == LoopSpec => []EachElementOnce
<1>1. LoopInv => EachElementOnce
  BY DEF LoopInv
<1> QED
  BY <1>1, LoopInvariant, PTL

\* The variables of the generated loop have their types; the cursor in
\* particular never passes the size, so the 32-bit additions do not wrap.
THEOREM LoopTypes == LoopSpec => []LoopTypeOK
<1>1. LoopInv => LoopTypeOK
  BY DEF LoopInv
<1> QED
  BY <1>1, LoopInvariant, PTL

-----------------------------------------------------------------------------
(* The owners of the code: the inductive invariant. *)

Gen == [code : SUBSET Names, refs : Nat, freed : BOOLEAN]
JitFn == [gen : Nat, code : Nat, name : Names \cup {NoName}]

(* The reference counts gs are exact when f are the functions and c is the   *)
(* code generator of the compiler.                                           *)
Owners(f, i) == {h \in Holders : f[h].gen = i}

Exact(gs, f, c) ==
    \A i \in 1..Len(gs) :
        /\ gs[i].refs = Cardinality(Owners(f, i)) + (IF c = i THEN 1 ELSE 0)
        /\ gs[i].freed <=> gs[i].refs = 0

(* A function that owns something owns a module that was made, and is in it. *)
Attached(gs, f) ==
    \A h \in Holders :
        f[h].gen # 0 => /\ f[h].gen \in 1..Len(gs)
                        /\ f[h].code = f[h].gen
                        /\ f[h].name \in gs[f[h].gen].code

JitTypeOK ==
    /\ codegen \in 0..Len(gens)
    /\ parsed \in SUBSET Names
    /\ gens \in Seq(Gen)
    /\ jitfn \in [Holders -> JitFn]

JitInv ==
    /\ JitTypeOK
    /\ Exact(gens, jitfn, codegen)
    /\ Attached(gens, jitfn)

-----------------------------------------------------------------------------
(* Owners and counts. *)

LEMMA OwnersFinite ==
    ASSUME NEW f, NEW i
    PROVE  IsFiniteSet(Owners(f, i)) /\ Cardinality(Owners(f, i)) \in Nat
BY JitAssumption, FS_Subset, FS_CardinalityType DEF Owners

LEMMA OwnerCounts ==
    ASSUME NEW f, NEW h \in Holders
    PROVE  Cardinality(Owners(f, f[h].gen)) >= 1
<1>1. h \in Owners(f, f[h].gen)
    BY DEF Owners
<1> QED
    BY <1>1, OwnersFinite, FS_EmptySet

(* One function that gives up what it owns for something else changes two     *)
(* counts at most.                                                           *)
OnlyChanges(f, e, h) == \A x \in Holders \ {h} : e[x].gen = f[x].gen

LEMMA OwnersChange ==
    ASSUME NEW f, NEW e, NEW h \in Holders, NEW i, OnlyChanges(f, e, h)
    PROVE  Cardinality(Owners(e, i)) =
               Cardinality(Owners(f, i)) - (IF f[h].gen = i THEN 1 ELSE 0)
                                         + (IF e[h].gen = i THEN 1 ELSE 0)
<1> DEFINE rest == Owners(f, i) \ {h}
<1>1. IsFiniteSet(rest) /\ Cardinality(rest) \in Nat /\ h \notin rest
    BY OwnersFinite, FS_Subset, FS_CardinalityType
<1>2. Cardinality(rest \cup {h}) = Cardinality(rest) + 1
    BY <1>1, FS_AddElement
<1>3. Owners(f, i) = IF f[h].gen = i THEN rest \cup {h} ELSE rest
    BY DEF Owners
<1>4. Owners(e, i) = IF e[h].gen = i THEN rest \cup {h} ELSE rest
    BY DEF Owners, OnlyChanges
<1> HIDE DEF rest
<1> QED
    BY <1>1, <1>2, <1>3, <1>4

(* What shared_ptr does to the counts. *)
LEMMA RefFacts ==
    ASSUME NEW gs \in Seq(Gen), NEW i \in 1..Len(gs)
    PROVE  /\ Ref(gs, i) \in Seq(Gen) /\ Len(Ref(gs, i)) = Len(gs)
           /\ \A j \in 1..Len(gs) :
                 /\ Ref(gs, i)[j].code = gs[j].code
                 /\ Ref(gs, i)[j].refs = gs[j].refs + (IF j = i THEN 1 ELSE 0)
                 /\ Ref(gs, i)[j].freed = gs[j].freed
<1> DEFINE r == Ref(gs, i)
           e == [code |-> gs[i].code, refs |-> gs[i].refs + 1, freed |-> gs[i].freed]
<1>1. r = [gs EXCEPT ![i] = e]
    BY DEF Ref
<1>a. gs[i] \in Gen
    OBVIOUS
<1>b. gs[i].code \in SUBSET Names /\ gs[i].refs + 1 \in Nat /\ gs[i].freed \in BOOLEAN
    BY <1>a DEF Gen
<1>2. e \in Gen /\ e.code = gs[i].code /\ e.refs = gs[i].refs + 1 /\ e.freed = gs[i].freed
    BY <1>b, Zenon DEF Gen
<1> HIDE DEF e
<1>3. r \in Seq(Gen) /\ Len(r) = Len(gs)
    BY <1>1, <1>2, ExceptSeq
<1>4. \A j \in 1..Len(gs) : r[j] = IF j = i THEN e ELSE gs[j]
    BY <1>1, <1>2, ExceptSeq
<1> HIDE DEF r
<1> SUFFICES ASSUME NEW j \in 1..Len(gs)
             PROVE  /\ r[j].code = gs[j].code
                    /\ r[j].refs = gs[j].refs + (IF j = i THEN 1 ELSE 0)
                    /\ r[j].freed = gs[j].freed
    BY <1>3 DEF r
<1>5. gs[j] \in Gen
    OBVIOUS
<1>6. CASE j = i
    BY <1>2, <1>4, <1>6
<1>7. CASE j # i
    BY <1>4, <1>5, <1>7 DEF Gen
<1> QED
    BY <1>6, <1>7

LEMMA UnrefFacts ==
    ASSUME NEW gs \in Seq(Gen), NEW i \in 0..Len(gs), i # 0 => gs[i].refs >= 1
    PROVE  /\ Unref(gs, i) \in Seq(Gen) /\ Len(Unref(gs, i)) = Len(gs)
           /\ \A j \in 1..Len(gs) :
                 /\ Unref(gs, i)[j].code = gs[j].code
                 /\ Unref(gs, i)[j].refs = gs[j].refs - (IF j = i THEN 1 ELSE 0)
                 /\ Unref(gs, i)[j].freed = (gs[j].freed \/ (j = i /\ gs[j].refs = 1))
<1>5. \A j \in 1..Len(gs) : gs[j] \in Gen
    OBVIOUS
<1>0. CASE i = 0
    BY <1>0, <1>5 DEF Unref, Gen
<1>1. CASE i # 0
    <2> DEFINE r == Unref(gs, i)
               e == [code |-> gs[i].code, refs |-> gs[i].refs - 1,
                     freed |-> gs[i].freed \/ gs[i].refs = 1]
    <2>0. i \in 1..Len(gs) /\ gs[i] \in Gen
        BY <1>1
    <2>1. r = [gs EXCEPT ![i] = e]
        BY <1>1 DEF Unref
    <2>2. e \in Gen /\ e.code = gs[i].code /\ e.refs = gs[i].refs - 1
          /\ e.freed = (gs[i].freed \/ gs[i].refs = 1)
        BY <1>1, <2>0 DEF Gen
    <2> HIDE DEF e
    <2>3. r \in Seq(Gen) /\ Len(r) = Len(gs)
        BY <2>0, <2>1, <2>2, ExceptSeq
    <2>4. \A j \in 1..Len(gs) : r[j] = IF j = i THEN e ELSE gs[j]
        BY <2>0, <2>1, <2>2, ExceptSeq
    <2> HIDE DEF r
    <2> SUFFICES ASSUME NEW j \in 1..Len(gs)
                 PROVE  /\ r[j].code = gs[j].code
                        /\ r[j].refs = gs[j].refs - (IF j = i THEN 1 ELSE 0)
                        /\ r[j].freed = (gs[j].freed \/ (j = i /\ gs[j].refs = 1))
        BY <2>3 DEF r
    <2>5. gs[j] \in Gen
        BY <1>5
    <2>6. CASE j = i
        BY <2>2, <2>4, <2>6, <2>5 DEF Gen
    <2>7. CASE j # i
        BY <2>4, <2>5, <2>7 DEF Gen
    <2> QED
        BY <2>6, <2>7
<1> QED
    BY <1>0, <1>1

-----------------------------------------------------------------------------
(* The parts that the steps are made of, on any counts gs and functions f. *)

Good(gs, f, c) ==
    /\ gs \in Seq(Gen) /\ f \in [Holders -> JitFn] /\ c \in 0..Len(gs)
    /\ Exact(gs, f, c)
    /\ Attached(gs, f)

(* What a function owns has been made, and is counted. *)
LEMMA OwnedIsCounted ==
    ASSUME NEW gs, NEW f, NEW c, Good(gs, f, c), NEW h \in Holders
    PROVE  f[h].gen \in 0..Len(gs) /\ (f[h].gen # 0 => gs[f[h].gen].refs >= 1)
<1>1. f[h].gen \in 0..Len(gs)
    BY DEF Good, Attached, JitFn
<1>2. ASSUME f[h].gen # 0 PROVE gs[f[h].gen].refs >= 1
    <2>1. f[h].gen \in 1..Len(gs)
        BY <1>1, <1>2 DEF Good
    <2>2. gs[f[h].gen].refs = Cardinality(Owners(f, f[h].gen)) + (IF c = f[h].gen THEN 1 ELSE 0)
        BY <2>1 DEF Good, Exact
    <2>3. Cardinality(Owners(f, f[h].gen)) \in Nat
        BY OwnersFinite
    <2> QED
        BY <2>2, <2>3, OwnerCounts
<1> QED
    BY <1>1, <1>2

(* A new code generator: the compiler drops the old one and keeps the new. *)
LEMMA NewGenGood ==
    ASSUME NEW gs, NEW f, NEW c, Good(gs, f, c), NEW code \in SUBSET Names
    PROVE  LET new == Append(Unref(gs, c), [code |-> code, refs |-> 1, freed |-> FALSE])
           IN  Good(new, f, Len(gs) + 1) /\ Len(new) = Len(gs) + 1
               /\ new[Len(gs) + 1].code = code
<1> DEFINE u == Unref(gs, c)
           g == [code |-> code, refs |-> 1, freed |-> FALSE]
           n == Len(gs)
           new == Append(u, g)
<1>0. gs \in Seq(Gen) /\ c \in 0..n /\ n \in Nat /\ f \in [Holders -> JitFn]
    BY DEF Good
<1>1. c # 0 => gs[c].refs >= 1
    BY <1>0, OwnersFinite DEF Good, Exact
<1>2. /\ u \in Seq(Gen) /\ Len(u) = n
      /\ \A j \in 1..n : /\ u[j].code = gs[j].code
                         /\ u[j].refs = gs[j].refs - (IF j = c THEN 1 ELSE 0)
                         /\ u[j].freed = (gs[j].freed \/ (j = c /\ gs[j].refs = 1))
    BY <1>0, <1>1, UnrefFacts
<1>3. g \in Gen /\ g.code = code /\ g.refs = 1 /\ g.freed = FALSE
    BY DEF Gen
<1> HIDE DEF u, g
<1>4. /\ new \in Seq(Gen) /\ Len(new) = n + 1
      /\ new[n + 1] = g /\ \A j \in 1..n : new[j] = u[j]
    BY <1>2, <1>3
<1> HIDE DEF new
<1>5. Exact(new, f, n + 1)
    <2> SUFFICES ASSUME NEW i \in 1..(n + 1)
                 PROVE  /\ new[i].refs = Cardinality(Owners(f, i)) + (IF n + 1 = i THEN 1 ELSE 0)
                        /\ new[i].freed <=> new[i].refs = 0
        BY <1>4 DEF Exact
    <2>1. Cardinality(Owners(f, i)) \in Nat
        BY OwnersFinite
    <2>2. CASE i = n + 1
        <3>1. Owners(f, i) = {}
            BY <2>2, <1>0 DEF Owners, Good, Attached
        <3>2. Cardinality(Owners(f, i)) = 0
            BY <3>1, FS_EmptySet
        <3> QED
            BY <2>2, <3>2, <1>3, <1>4
    <2>3. CASE i \in 1..n
        <3>1. /\ gs[i].refs = Cardinality(Owners(f, i)) + (IF c = i THEN 1 ELSE 0)
              /\ gs[i].freed <=> gs[i].refs = 0
            BY <2>3 DEF Good, Exact
        <3>2. new[i].refs = Cardinality(Owners(f, i))
            BY <2>1, <2>3, <3>1, <1>2, <1>4
        <3>3. new[i].freed = (gs[i].freed \/ (i = c /\ gs[i].refs = 1))
            BY <2>3, <1>2, <1>4
        <3>4. (gs[i].refs = 0 \/ (i = c /\ gs[i].refs = 1)) <=> Cardinality(Owners(f, i)) = 0
            BY <3>1, <2>1
        <3>5. i # n + 1
            BY <2>3, <1>0
        <3>6. new[i].freed <=> new[i].refs = 0
            BY <3>1, <3>2, <3>3, <3>4, Zenon
        <3>7. new[i].refs = Cardinality(Owners(f, i)) + (IF n + 1 = i THEN 1 ELSE 0)
            BY <3>2, <3>5, <2>1
        <3> QED
            BY <3>6, <3>7
    <2> QED
        BY <2>2, <2>3, <1>0
<1>6. Attached(new, f)
    <2> SUFFICES ASSUME NEW h \in Holders, f[h].gen # 0
                 PROVE  f[h].gen \in 1..(n + 1) /\ f[h].code = f[h].gen
                        /\ f[h].name \in new[f[h].gen].code
        BY <1>4 DEF Attached
    <2>1. f[h].gen \in 1..n /\ f[h].code = f[h].gen /\ f[h].name \in gs[f[h].gen].code
        BY DEF Good, Attached
    <2> QED
        BY <2>1, <1>0, <1>2, <1>4
<1> QED
    BY <1>0, <1>3, <1>4, <1>5, <1>6 DEF Good, new, u, g

(* A function is loaded from the compiler's module into a JitFunction. *)
LEMMA TakeGood ==
    ASSUME NEW gs, NEW f, NEW c, Good(gs, f, c), c # 0, NEW h \in Holders,
           NEW name \in gs[c].code
    PROVE  LET fn == [gen |-> c, code |-> c, name |-> name]
           IN  /\ Good(Unref(Ref(gs, c), f[h].gen), [f EXCEPT ![h] = fn], c)
               /\ Len(Unref(Ref(gs, c), f[h].gen)) = Len(gs)
<1> DEFINE r == Ref(gs, c)
           old == f[h].gen
           u == Unref(r, old)
           fn == [gen |-> c, code |-> c, name |-> name]
           e == [f EXCEPT ![h] = fn]
           n == Len(gs)
<1>0. gs \in Seq(Gen) /\ c \in 1..n /\ n \in Nat /\ f \in [Holders -> JitFn]
    BY DEF Good
<1>a. \A j \in 1..n : gs[j] \in Gen
    BY <1>0
<1>b. \A j \in 1..n : gs[j].refs \in Nat /\ gs[j].code \in SUBSET Names
    BY <1>a DEF Gen
<1>1. /\ r \in Seq(Gen) /\ Len(r) = n
      /\ \A j \in 1..n : /\ r[j].code = gs[j].code
                         /\ r[j].refs = gs[j].refs + (IF j = c THEN 1 ELSE 0)
                         /\ r[j].freed = gs[j].freed
    BY <1>0, RefFacts
<1>2. old \in 0..n /\ (old # 0 => gs[old].refs >= 1)
    BY OwnedIsCounted
<1> HIDE DEF r, old
<1>3. old # 0 => old \in 1..n /\ r[old].refs >= 1
    BY <1>0, <1>b, <1>1, <1>2
<1>4. /\ u \in Seq(Gen) /\ Len(u) = n
      /\ \A j \in 1..n : /\ u[j].code = r[j].code
                         /\ u[j].refs = r[j].refs - (IF j = old THEN 1 ELSE 0)
                         /\ u[j].freed = (r[j].freed \/ (j = old /\ r[j].refs = 1))
    BY <1>1, <1>2, <1>3, UnrefFacts
<1> HIDE DEF u
<1>5. fn \in JitFn /\ fn.gen = c /\ fn.code = c /\ fn.name = name
    BY <1>0, <1>b DEF JitFn
<1> HIDE DEF fn
<1>6. e \in [Holders -> JitFn] /\ e[h] = fn /\ \A x \in Holders \ {h} : e[x] = f[x]
    BY <1>0, <1>5
<1> HIDE DEF e
<1>7. Exact(u, e, c)
    <2> SUFFICES ASSUME NEW i \in 1..n
                 PROVE  /\ u[i].refs = Cardinality(Owners(e, i)) + (IF c = i THEN 1 ELSE 0)
                        /\ u[i].freed <=> u[i].refs = 0
        BY <1>4 DEF Exact
    <2>1. Cardinality(Owners(f, i)) \in Nat /\ Cardinality(Owners(e, i)) \in Nat
        BY OwnersFinite
    <2>2. Cardinality(Owners(e, i)) = Cardinality(Owners(f, i)) - (IF old = i THEN 1 ELSE 0)
                                                                + (IF c = i THEN 1 ELSE 0)
        <3>1. OnlyChanges(f, e, h) /\ e[h].gen = c
            BY <1>5, <1>6 DEF OnlyChanges
        <3>2. Cardinality(Owners(e, i)) =
                  Cardinality(Owners(f, i)) - (IF f[h].gen = i THEN 1 ELSE 0)
                                            + (IF e[h].gen = i THEN 1 ELSE 0)
            BY <3>1, OwnersChange
        <3> QED
            BY <3>1, <3>2 DEF old
    <2>3. /\ gs[i].refs = Cardinality(Owners(f, i)) + (IF c = i THEN 1 ELSE 0)
          /\ gs[i].freed <=> gs[i].refs = 0
        BY DEF Good, Exact
    <2>4. u[i].refs = Cardinality(Owners(e, i)) + (IF c = i THEN 1 ELSE 0)
        BY <2>1, <2>2, <2>3, <1>1, <1>4
    <2>5. u[i].freed = (gs[i].freed \/ (i = old /\ r[i].refs = 1))
        BY <1>1, <1>4
    <2>6. (gs[i].refs = 0 \/ (i = old /\ r[i].refs = 1)) <=> u[i].refs = 0
        BY <2>1, <2>2, <2>3, <1>1, <1>4, <1>b
    <2>7. u[i].freed <=> u[i].refs = 0
        BY <2>3, <2>5, <2>6, Zenon
    <2> QED
        BY <2>4, <2>7
<1>8. Attached(u, e)
    <2> SUFFICES ASSUME NEW x \in Holders, e[x].gen # 0
                 PROVE  e[x].gen \in 1..n /\ e[x].code = e[x].gen /\ e[x].name \in u[e[x].gen].code
        BY <1>4 DEF Attached
    <2>1. CASE x = h
        BY <2>1, <1>0, <1>1, <1>4, <1>5, <1>6
    <2>2. CASE x # h
        <3>1. e[x] = f[x]
            BY <2>2, <1>6
        <3>2. f[x].gen \in 1..n /\ f[x].code = f[x].gen /\ f[x].name \in gs[f[x].gen].code
            BY <3>1 DEF Good, Attached
        <3> QED
            BY <3>1, <3>2, <1>1, <1>4
    <2> QED
        BY <2>1, <2>2
<1> QED
    BY <1>0, <1>4, <1>6, <1>7, <1>8 DEF Good, u, r, old, e, fn

(* A JitFunction lets go of what it owns, and no other count changes. *)
LEMMA ReleaseGood ==
    ASSUME NEW gs, NEW f, NEW c, Good(gs, f, c), NEW h \in Holders,
           NEW e \in [Holders -> JitFn],
           \A i \in 1..Len(gs) : Cardinality(Owners(e, i)) =
               Cardinality(Owners(f, i)) - (IF f[h].gen = i THEN 1 ELSE 0),
           Attached(gs, e)
    PROVE  Good(Unref(gs, f[h].gen), e, c) /\ Len(Unref(gs, f[h].gen)) = Len(gs)
<1> DEFINE old == f[h].gen
           u == Unref(gs, old)
           n == Len(gs)
<1>0. gs \in Seq(Gen) /\ c \in 0..n /\ n \in Nat
    BY DEF Good
<1>1. old \in 0..n /\ (old # 0 => gs[old].refs >= 1)
    BY OwnedIsCounted
<1>a. \A i \in 1..n : Cardinality(Owners(e, i)) =
               Cardinality(Owners(f, i)) - (IF old = i THEN 1 ELSE 0)
    OBVIOUS
<1> HIDE DEF old
<1>2. /\ u \in Seq(Gen) /\ Len(u) = n
      /\ \A j \in 1..n : /\ u[j].code = gs[j].code
                         /\ u[j].refs = gs[j].refs - (IF j = old THEN 1 ELSE 0)
                         /\ u[j].freed = (gs[j].freed \/ (j = old /\ gs[j].refs = 1))
    BY <1>0, <1>1, UnrefFacts
<1> HIDE DEF u
<1>3. Exact(u, e, c)
    <2> SUFFICES ASSUME NEW i \in 1..n
                 PROVE  /\ u[i].refs = Cardinality(Owners(e, i)) + (IF c = i THEN 1 ELSE 0)
                        /\ u[i].freed <=> u[i].refs = 0
        BY <1>2 DEF Exact
    <2>1. Cardinality(Owners(f, i)) \in Nat /\ Cardinality(Owners(e, i)) \in Nat
        BY OwnersFinite
    <2>2. Cardinality(Owners(e, i)) = Cardinality(Owners(f, i)) - (IF old = i THEN 1 ELSE 0)
        BY <1>a
    <2>3. /\ gs[i].refs = Cardinality(Owners(f, i)) + (IF c = i THEN 1 ELSE 0)
          /\ gs[i].freed <=> gs[i].refs = 0
        BY DEF Good, Exact
    <2>4. u[i].refs = Cardinality(Owners(e, i)) + (IF c = i THEN 1 ELSE 0)
        BY <2>1, <2>2, <2>3, <1>2
    <2>5. u[i].freed = (gs[i].freed \/ (i = old /\ gs[i].refs = 1))
        BY <1>2
    <2>6. (gs[i].refs = 0 \/ (i = old /\ gs[i].refs = 1)) <=> u[i].refs = 0
        BY <2>1, <2>2, <2>3, <1>2
    <2>7. u[i].freed <=> u[i].refs = 0
        BY <2>3, <2>5, <2>6, Zenon
    <2> QED
        BY <2>4, <2>7
<1>4. Attached(u, e)
    BY <1>2 DEF Attached
<1> QED
    BY <1>0, <1>2, <1>3, <1>4 DEF Good, u, old

-----------------------------------------------------------------------------
(* Each step keeps the invariant. *)

LEMMA InvIsGood ==
    JitInv <=> parsed \in SUBSET Names /\ Good(gens, jitfn, codegen)
BY DEF JitInv, JitTypeOK, Good

LEMMA CompileOnlyKeeps ==
    ASSUME JitInv, NEW m \in Results, CompileOnly(m)
    PROVE  JitInv'
<1>1. Good(gens, jitfn, codegen) /\ m.code \in SUBSET Names /\ m.parsed \in SUBSET Names
    BY InvIsGood DEF Results
<1>2. Good(NewGen(m), jitfn, Len(gens) + 1)
    BY <1>1, NewGenGood DEF NewGen
<1>3. gens' = NewGen(m) /\ jitfn' = jitfn /\ codegen' = Len(gens) + 1 /\ parsed' = m.parsed
    BY DEF CompileOnly, Renewed
<1>4. Good(gens', jitfn', codegen')
    BY <1>2, <1>3
<1> QED
    BY <1>1, <1>3, <1>4 DEF JitInv, JitTypeOK, Good

LEMMA CompileIntoKeeps ==
    ASSUME JitInv, NEW m \in Results, NEW h \in Holders, NEW name \in Names,
           CompileInto(m, h, name)
    PROVE  JitInv'
<1> DEFINE n == Len(gens)
           new == NewGen(m)
<1>1. Good(gens, jitfn, codegen) /\ m.code \in SUBSET Names /\ m.parsed \in SUBSET Names
    BY InvIsGood DEF Results
<1>2. Good(new, jitfn, n + 1) /\ Len(new) = n + 1 /\ new[n + 1].code = m.code
    BY <1>1, NewGenGood DEF NewGen
<1>3. codegen' = n + 1 /\ parsed' = m.parsed
    BY DEF CompileInto, Renewed
<1>4. n \in Nat
    BY <1>1 DEF Good
<1>5. CASE m.ok /\ name \in m.code
    <2> DEFINE fn == [gen |-> n + 1, code |-> n + 1, name |-> name]
    <2>1. Take(new, h, n + 1, name)
        BY <1>5 DEF CompileInto
    <2>2. gens' = Unref(Ref(new, n + 1), jitfn[h].gen) /\ jitfn' = [jitfn EXCEPT ![h] = fn]
        BY <2>1 DEF Take
    <2> HIDE DEF new, n
    <2>3. Good(Unref(Ref(new, n + 1), jitfn[h].gen), [jitfn EXCEPT ![h] = fn], n + 1)
        BY <1>2, <1>4, <1>5, TakeGood
    <2>4. Good(gens', jitfn', codegen')
        BY <2>2, <2>3, <1>3
    <2> QED
        BY <1>1, <1>3, <2>4 DEF JitInv, JitTypeOK, Good
<1>6. CASE ~(m.ok /\ name \in m.code)
    <2>1. gens' = new /\ jitfn' = jitfn
        BY <1>6 DEF CompileInto
    <2>2. Good(gens', jitfn', codegen')
        BY <2>1, <1>2, <1>3
    <2> QED
        BY <1>1, <1>3, <2>2 DEF JitInv, JitTypeOK, Good
<1> QED
    BY <1>5, <1>6

LEMMA LoadFunctionKeeps ==
    ASSUME JitInv, NEW h \in Holders, NEW name \in Names, LoadFunction(name, h)
    PROVE  JitInv'
<1> DEFINE fn == [gen |-> codegen, code |-> codegen, name |-> name]
<1>1. Good(gens, jitfn, codegen) /\ parsed \in SUBSET Names
    BY InvIsGood
<1>2. codegen # 0 /\ name \in gens[codegen].code /\ codegen' = codegen /\ parsed' = parsed
      /\ gens' = Unref(Ref(gens, codegen), jitfn[h].gen) /\ jitfn' = [jitfn EXCEPT ![h] = fn]
    BY DEF LoadFunction, Take
<1>3. Good(Unref(Ref(gens, codegen), jitfn[h].gen), [jitfn EXCEPT ![h] = fn], codegen)
    BY <1>1, <1>2, TakeGood
<1>4. Good(gens', jitfn', codegen')
    BY <1>2, <1>3
<1> QED
    BY <1>1, <1>2, <1>4 DEF JitInv, JitTypeOK, Good

LEMMA DropKeeps ==
    ASSUME JitInv, NEW h \in Holders, Drop(h)
    PROVE  JitInv'
<1> DEFINE e == [jitfn EXCEPT ![h] = NoFunction]
<1>1. Good(gens, jitfn, codegen) /\ parsed \in SUBSET Names
    BY InvIsGood
<1>2. codegen' = codegen /\ parsed' = parsed /\ gens' = Unref(gens, jitfn[h].gen) /\ jitfn' = e
    BY DEF Drop
<1>3. NoFunction \in JitFn /\ NoFunction.gen = 0
    BY DEF NoFunction, JitFn
<1>4. e \in [Holders -> JitFn] /\ e[h] = NoFunction /\ \A x \in Holders \ {h} : e[x] = jitfn[x]
    BY <1>1, <1>3 DEF Good
<1> HIDE DEF e
<1>5. OnlyChanges(jitfn, e, h) /\ e[h].gen = 0
    BY <1>3, <1>4 DEF OnlyChanges
<1>6. \A i \in 1..Len(gens) : Cardinality(Owners(e, i)) =
            Cardinality(Owners(jitfn, i)) - (IF jitfn[h].gen = i THEN 1 ELSE 0)
    <2> SUFFICES ASSUME NEW i \in 1..Len(gens)
                 PROVE  Cardinality(Owners(e, i)) =
                            Cardinality(Owners(jitfn, i)) - (IF jitfn[h].gen = i THEN 1 ELSE 0)
        OBVIOUS
    <2>1. i # 0
        BY <1>1 DEF Good
    <2>2. Cardinality(Owners(e, i)) =
              Cardinality(Owners(jitfn, i)) - (IF jitfn[h].gen = i THEN 1 ELSE 0)
                                            + (IF e[h].gen = i THEN 1 ELSE 0)
        BY <1>5, OwnersChange
    <2> QED
        BY <2>1, <2>2, <1>5, OwnersFinite
<1>7. Attached(gens, e)
    BY <1>1, <1>4, <1>5 DEF Good, Attached
<1>8. Good(Unref(gens, jitfn[h].gen), e, codegen)
    BY <1>1, <1>4, <1>6, <1>7, ReleaseGood
<1>9. Good(gens', jitfn', codegen')
    BY <1>2, <1>8
<1> QED
    BY <1>1, <1>2, <1>9 DEF JitInv, JitTypeOK, Good

(* A move is two changes: the target owns what the source does, then the      *)
(* source owns nothing.                                                      *)
LEMMA MoveFromKeeps ==
    ASSUME JitInv, NEW h \in Holders, NEW k \in Holders, MoveFrom(h, k)
    PROVE  JitInv'
<1> DEFINE mid == [jitfn EXCEPT ![h] = jitfn[k]]
           left == [jitfn[k] EXCEPT !.gen = 0, !.name = NoName]
           e == [jitfn EXCEPT ![h] = jitfn[k], ![k] = left]
<1>1. Good(gens, jitfn, codegen) /\ parsed \in SUBSET Names /\ jitfn \in [Holders -> JitFn]
    BY InvIsGood DEF Good
<1>2. h # k /\ codegen' = codegen /\ parsed' = parsed /\ gens' = Unref(gens, jitfn[h].gen)
      /\ jitfn' = e
    BY <1>1 DEF MoveFrom
<1>3. left \in JitFn /\ left.gen = 0
    BY <1>1 DEF JitFn
<1> HIDE DEF left
<1>4. mid[h] = jitfn[k] /\ \A x \in Holders \ {h} : mid[x] = jitfn[x]
    BY <1>1
<1>5. /\ e \in [Holders -> JitFn] /\ e[k] = left /\ e[h] = jitfn[k]
      /\ \A x \in Holders \ {k} : e[x] = mid[x]
    BY <1>1, <1>2, <1>3
<1> HIDE DEF e, mid
<1>6. \A i \in 1..Len(gens) : Cardinality(Owners(e, i)) =
            Cardinality(Owners(jitfn, i)) - (IF jitfn[h].gen = i THEN 1 ELSE 0)
    <2> SUFFICES ASSUME NEW i \in 1..Len(gens)
                 PROVE  Cardinality(Owners(e, i)) =
                            Cardinality(Owners(jitfn, i)) - (IF jitfn[h].gen = i THEN 1 ELSE 0)
        OBVIOUS
    <2>1. i # 0
        BY <1>1 DEF Good
    <2>2. /\ OnlyChanges(jitfn, mid, h) /\ mid[h].gen = jitfn[k].gen
          /\ OnlyChanges(mid, e, k) /\ e[k].gen = 0 /\ mid[k].gen = jitfn[k].gen
        BY <1>2, <1>3, <1>4, <1>5 DEF OnlyChanges
    <2>3. Cardinality(Owners(mid, i)) =
              Cardinality(Owners(jitfn, i)) - (IF jitfn[h].gen = i THEN 1 ELSE 0)
                                            + (IF mid[h].gen = i THEN 1 ELSE 0)
        BY <2>2, OwnersChange
    <2>4. Cardinality(Owners(e, i)) =
              Cardinality(Owners(mid, i)) - (IF mid[k].gen = i THEN 1 ELSE 0)
                                          + (IF e[k].gen = i THEN 1 ELSE 0)
        BY <2>2, OwnersChange
    <2>5. Cardinality(Owners(jitfn, i)) \in Nat /\ Cardinality(Owners(mid, i)) \in Nat
        BY OwnersFinite
    <2> QED
        BY <2>1, <2>2, <2>3, <2>4, <2>5
<1>7. Attached(gens, e)
    <2> SUFFICES ASSUME NEW x \in Holders, e[x].gen # 0
                 PROVE  e[x].gen \in 1..Len(gens) /\ e[x].code = e[x].gen
                        /\ e[x].name \in gens[e[x].gen].code
        BY DEF Attached
    <2>1. PICK y \in Holders : e[x] = jitfn[y]
        BY <1>2, <1>3, <1>4, <1>5
    <2> QED
        BY <2>1, <1>1 DEF Good, Attached
<1>8. Good(Unref(gens, jitfn[h].gen), e, codegen)
    BY <1>1, <1>5, <1>6, <1>7, ReleaseGood
<1>9. Good(gens', jitfn', codegen')
    BY <1>2, <1>8
<1> QED
    BY <1>1, <1>2, <1>9 DEF JitInv, JitTypeOK, Good

-----------------------------------------------------------------------------
(* Whatever is compiled, with whatever outcome, and whatever is loaded, moved *)
(* and dropped after it: the invariant holds.                                *)
THEOREM JitInvariant == JitSpec => []JitInv
<1>1. ASSUME JitInit PROVE JitInv
    <2>1. NoFunction \in JitFn /\ NoFunction.gen = 0
        BY DEF NoFunction, JitFn
    <2>2. jitfn \in [Holders -> JitFn] /\ \A h \in Holders : jitfn[h].gen = 0
        BY <1>1, <2>1 DEF JitInit
    <2>3. gens \in Seq(Gen) /\ Len(gens) = 0 /\ codegen = 0 /\ parsed = {}
        BY <1>1 DEF JitInit
    <2> QED
        BY <2>2, <2>3 DEF JitInv, JitTypeOK, Exact, Attached
<1>2. ASSUME JitInv, [JitNext]_jitVars PROVE JitInv'
    <2>1. CASE UNCHANGED jitVars
        BY <1>2, <2>1 DEF JitInv, JitTypeOK, Exact, Attached, Owners, jitVars
    <2>2. ASSUME NEW m \in Results, CompileOnly(m) PROVE JitInv'
        BY <1>2, <2>2, CompileOnlyKeeps
    <2>3. ASSUME NEW m \in Results, NEW h \in Holders, NEW name \in Names, CompileInto(m, h, name)
          PROVE  JitInv'
        BY <1>2, <2>3, CompileIntoKeeps
    <2>4. ASSUME NEW h \in Holders, NEW name \in Names, LoadFunction(name, h) PROVE JitInv'
        BY <1>2, <2>4, LoadFunctionKeeps
    <2>5. ASSUME NEW h \in Holders, NEW k \in Holders, MoveFrom(h, k) PROVE JitInv'
        BY <1>2, <2>5, MoveFromKeeps
    <2>6. ASSUME NEW h \in Holders, Drop(h) PROVE JitInv'
        BY <1>2, <2>6, DropKeeps
    <2> QED
        BY <1>2, <2>1, <2>2, <2>3, <2>4, <2>5, <2>6 DEF JitNext
<1> QED
    BY <1>1, <1>2, PTL DEF JitSpec

(* The count of owners of each module is exact: its code is freed when the    *)
(* last JitFunction and the compiler have let go of it, and not before.       *)
THEOREM JitCodeStays == JitSpec => []CodeStays
<1>1. ASSUME JitInv PROVE CodeStays
    <2>1. DOMAIN gens = 1..Len(gens)
        BY <1>1 DEF JitInv, JitTypeOK
    <2> QED
        BY <1>1, <2>1 DEF JitInv, Exact, Owners, CodeStays
<1> QED
    BY <1>1, JitInvariant, PTL

(* A JitFunction that owns a module calls a function of that module.          *)
THEOREM JitLoadedIsCompiled == JitSpec => []LoadedIsCompiled
<1>1. ASSUME JitInv PROVE LoadedIsCompiled
    BY <1>1 DEF JitInv, Attached, LoadedIsCompiled
<1> QED
    BY <1>1, JitInvariant, PTL

(* No JitFunction that owns its module can run code that was freed.           *)
THEOREM JitOwnedIsAlive == JitSpec => [](\A h \in Holders : jitfn[h].gen # 0 => ~gens[jitfn[h].gen].freed)
<1>1. ASSUME JitInv PROVE \A h \in Holders : jitfn[h].gen # 0 => ~gens[jitfn[h].gen].freed
    <2> SUFFICES ASSUME NEW h \in Holders, jitfn[h].gen # 0
                 PROVE  ~gens[jitfn[h].gen].freed
        OBVIOUS
    <2>1. Good(gens, jitfn, codegen)
        BY <1>1, InvIsGood
    <2>2. jitfn[h].gen \in 0..Len(gens) /\ gens[jitfn[h].gen].refs >= 1 /\ Len(gens) \in Nat
        BY <2>1, OwnedIsCounted DEF Good
    <2>3. gens[jitfn[h].gen].freed <=> gens[jitfn[h].gen].refs = 0
        BY <2>1, <2>2 DEF Good, Exact
    <2> QED
        BY <2>2, <2>3
<1> QED
    BY <1>1, JitInvariant, PTL

-----------------------------------------------------------------------------
(* Control flow: the blocks of a function. *)

\* The kinds of tokens and instructions.
Kinds ==
    {"begin", "done", "set", "copy", "get", "vec", "return", "break", "continue", "while",
     "endwhile", "if", "elif", "else", "endif", "br", "cond", "inner", "ret"}

\* The types of tokens, places, instructions, blocks and functions.
Tok == [k : Kinds, c : Nat, n : Nat]
Place == [w : {"at", "after"}, tok : Tok]
Ins == [k : Kinds, t : Tok, yes : Nat, no : Nat]
Blk == [in : BOOLEAN, ins : Seq(Ins), name : Place]
Fn == [blocks : Seq(Blk), cur : Nat, x : Int]

\* A function whose insert point is one of its blocks.
WellFormed(g) == g \in Fn /\ g.cur \in DOMAIN g.blocks

\* Tokens are typed.
LEMMA TokenIsTok ==
    ASSUME NEW k \in Kinds, NEW c \in Nat, NEW n \in Nat
    PROVE  Token(k, c, n) \in Tok /\ Part(k, c) \in Tok
BY DEF Token, Part, Tok

\* Before and after a token are places.
LEMMA PlacesOfTok ==
    ASSUME NEW tok \in Tok PROVE At(tok) \in Place /\ After(tok) \in Place
BY DEF At, After, Place

\* The fields of a block.
LEMMA BlkFields ==
    ASSUME NEW B \in Blk
    PROVE  /\ B.in \in BOOLEAN /\ B.ins \in Seq(Ins) /\ B.name \in Place
           /\ B = [in |-> B.in, ins |-> B.ins, name |-> B.name]
BY DEF Blk

\* A record with these fields is a block.
LEMMA BlkMade ==
    ASSUME NEW v \in BOOLEAN, NEW q \in Seq(Ins), NEW p \in Place
    PROVE  [in |-> v, ins |-> q, name |-> p] \in Blk
BY DEF Blk

\* A block with other instructions, or inserted or removed.
LEMMA BlkExcept ==
    ASSUME NEW v, NEW q, NEW p, NEW w, NEW r
    PROVE  /\ [[in |-> v, ins |-> q, name |-> p] EXCEPT !.ins = r] = [in |-> v, ins |-> r, name |-> p]
           /\ [[in |-> v, ins |-> q, name |-> p] EXCEPT !.in = w] = [in |-> w, ins |-> q, name |-> p]
OBVIOUS

\* A block with other instructions is a block.
LEMMA BlkPut ==
    ASSUME NEW B \in Blk, NEW q \in Seq(Ins)
    PROVE  LET C == [B EXCEPT !.ins = q] IN C \in Blk /\ C.in = B.in /\ C.ins = q /\ C.name = B.name
<1>1. PICK v \in BOOLEAN, r \in Seq(Ins), p \in Place : B = [in |-> v, ins |-> r, name |-> p]
  BY BlkFields
<1>2. [B EXCEPT !.ins = q] = [in |-> v, ins |-> q, name |-> p]
  BY <1>1, BlkExcept
<1> QED BY <1>1, <1>2, BlkMade

\* A block that is inserted or removed is a block.
LEMMA BlkMove ==
    ASSUME NEW B \in Blk, NEW v \in BOOLEAN
    PROVE  LET C == [B EXCEPT !.in = v] IN C \in Blk /\ C.in = v /\ C.ins = B.ins /\ C.name = B.name
<1>1. PICK u \in BOOLEAN, r \in Seq(Ins), p \in Place : B = [in |-> u, ins |-> r, name |-> p]
  BY BlkFields
<1>2. [B EXCEPT !.in = v] = [in |-> v, ins |-> r, name |-> p]
  BY <1>1, BlkExcept
<1> QED BY <1>1, <1>2, BlkMade

\* The blocks of a function are typed.
LEMMA BlockTyped ==
    ASSUME NEW g, WellFormed(g), NEW b \in DOMAIN g.blocks
    PROVE  /\ g.blocks[b] \in Blk /\ g.blocks[b].ins \in Seq(Ins) /\ g.blocks[b].name \in Place
           /\ b \in Nat /\ DOMAIN g.blocks = 1 .. Len(g.blocks) /\ Len(g.blocks) \in Nat
<1>1. g.blocks \in Seq(Blk)
  BY DEF WellFormed, Fn
<1> QED BY <1>1, BlkFields

\* A function with one block changed.
Changed(g, b, C) == [g EXCEPT !.blocks[b] = C]

\* Changing one block leaves the others as they are.
LEMMA FnChanged ==
    ASSUME NEW g, WellFormed(g), NEW b \in DOMAIN g.blocks, NEW C \in Blk,
           NEW h, h = Changed(g, b, C)
    PROVE  /\ WellFormed(h) /\ h.cur = g.cur /\ h.x = g.x
           /\ DOMAIN h.blocks = DOMAIN g.blocks /\ Len(h.blocks) = Len(g.blocks)
           /\ \A d \in DOMAIN g.blocks : d # b => h.blocks[d] = g.blocks[d]
           /\ h.blocks[b] = C
<1>1. PICK q \in Seq(Blk), c \in Nat, x \in Int : g = [blocks |-> q, cur |-> c, x |-> x]
  BY DEF WellFormed, Fn
<1>2. b \in DOMAIN q /\ c \in DOMAIN q
  BY <1>1 DEF WellFormed
<1>3. h = [blocks |-> [q EXCEPT ![b] = C], cur |-> c, x |-> x]
  BY <1>1, Zenon DEF Changed
<1>4. [q EXCEPT ![b] = C] \in Seq(Blk) /\ Len([q EXCEPT ![b] = C]) = Len(q)
  BY <1>2, ExceptSeq
<1>5. DOMAIN [q EXCEPT ![b] = C] = DOMAIN q
  OBVIOUS
<1>6. h \in Fn
  <2>1. PICK r \in Seq(Blk) : r = [q EXCEPT ![b] = C]
    BY <1>4, Zenon
  <2> QED BY <1>1, <1>3, <2>1 DEF Fn
<1> QED BY <1>1, <1>2, <1>3, <1>4, <1>5, <1>6 DEF WellFormed

\* A function that has the blocks of g under the same names, and perhaps more.
Keeps(g, h) ==
    /\ WellFormed(h)
    /\ Len(g.blocks) <= Len(h.blocks)
    /\ \A b \in DOMAIN g.blocks :
          b \in DOMAIN h.blocks /\ h.blocks[b].name = g.blocks[b].name

\* The other blocks of g are unchanged, and the new ones are empty.
KeepsBut(g, h, S) ==
    /\ \A b \in DOMAIN g.blocks \ S : h.blocks[b].ins = g.blocks[b].ins
    /\ \A b \in DOMAIN h.blocks \ DOMAIN g.blocks : h.blocks[b].ins = << >>

\* A function keeps its own blocks.
LEMMA KeepsRefl == ASSUME NEW g, WellFormed(g) PROVE Keeps(g, g) /\ KeepsBut(g, g, {})
<1>1. Len(g.blocks) \in Nat
  BY DEF WellFormed, Fn
<1> QED BY <1>1 DEF Keeps, KeepsBut

\* Names are kept over two steps.
LEMMA KeepsTrans ==
    ASSUME NEW g, WellFormed(g), NEW h, NEW e, Keeps(g, h), Keeps(h, e) PROVE Keeps(g, e)
<1>1. Len(g.blocks) \in Nat /\ Len(h.blocks) \in Nat /\ Len(e.blocks) \in Nat
  BY DEF Keeps, WellFormed, Fn
<1> QED BY <1>1 DEF Keeps

\* Emit appends to the block at the insert point and changes no other.
LEMMA EmitFacts ==
    ASSUME NEW g, WellFormed(g), NEW I \in Ins
    PROVE  LET h == Emit(g, I) IN
           /\ Keeps(g, h) /\ KeepsBut(g, h, {g.cur}) /\ h.cur = g.cur /\ h.x = g.x
           /\ DOMAIN h.blocks = DOMAIN g.blocks
           /\ h.blocks[g.cur].ins = Append(g.blocks[g.cur].ins, I)
<1> DEFINE h == Emit(g, I)
           C == [g.blocks[g.cur] EXCEPT !.ins = Append(g.blocks[g.cur].ins, I)]
<1>1. g.cur \in DOMAIN g.blocks /\ g.blocks[g.cur] \in Blk
  BY DEF WellFormed, Fn
<1>2. Append(g.blocks[g.cur].ins, I) \in Seq(Ins)
  BY <1>1, BlkFields, AppendProperties
<1>3. /\ C \in Blk /\ C.ins = Append(g.blocks[g.cur].ins, I)
      /\ C.name = g.blocks[g.cur].name
  BY <1>1, <1>2, BlkPut, Zenon
<1>4. h = Changed(g, g.cur, C)
  BY DEF Emit, Changed
<1> HIDE DEF h, C
<1>5. /\ WellFormed(h) /\ h.cur = g.cur /\ h.x = g.x
      /\ DOMAIN h.blocks = DOMAIN g.blocks /\ Len(h.blocks) = Len(g.blocks)
      /\ \A d \in DOMAIN g.blocks : d # g.cur => h.blocks[d] = g.blocks[d]
      /\ h.blocks[g.cur] = C
  BY <1>1, <1>3, <1>4, FnChanged
<1>6. Len(g.blocks) \in Nat
  BY DEF WellFormed, Fn
<1> QED BY <1>3, <1>5, <1>6 DEF Keeps, KeepsBut, h

\* SetInsertPoint changes no block.
LEMMA SetInsertPointFacts ==
    ASSUME NEW g, WellFormed(g), NEW b \in DOMAIN g.blocks
    PROVE  LET h == SetInsertPoint(g, b) IN
           Keeps(g, h) /\ h.blocks = g.blocks /\ h.cur = b /\ h.x = g.x
<1> DEFINE h == SetInsertPoint(g, b)
<1>1. g \in Fn /\ b \in Nat /\ Len(g.blocks) \in Nat
  BY DEF WellFormed, Fn
<1>2. h \in Fn /\ h.blocks = g.blocks /\ h.cur = b /\ h.x = g.x
  BY <1>1 DEF SetInsertPoint, Fn
<1> QED BY <1>1, <1>2 DEF WellFormed, Keeps, h

\* Putting a block into the function, or taking it out.
Moved(g, b, v) == [g EXCEPT !.blocks[b].in = v]

\* Inserting or removing a block changes no instruction.
LEMMA PutFacts ==
    ASSUME NEW g, WellFormed(g), NEW b \in DOMAIN g.blocks, NEW h, NEW v \in BOOLEAN,
           h = Moved(g, b, v)
    PROVE  /\ Keeps(g, h) /\ KeepsBut(g, h, {}) /\ h.cur = g.cur /\ h.x = g.x
           /\ DOMAIN h.blocks = DOMAIN g.blocks
<1> DEFINE C == [g.blocks[b] EXCEPT !.in = v]
<1>1. g.blocks[b] \in Blk
  BY DEF WellFormed, Fn
<1>2. C \in Blk /\ C.ins = g.blocks[b].ins /\ C.name = g.blocks[b].name
  BY <1>1, BlkMove
<1>3. h = Changed(g, b, C)
  BY DEF Changed, Moved
<1> HIDE DEF C
<1>4. /\ WellFormed(h) /\ h.cur = g.cur /\ h.x = g.x
      /\ DOMAIN h.blocks = DOMAIN g.blocks /\ Len(h.blocks) = Len(g.blocks)
      /\ \A d \in DOMAIN g.blocks : d # b => h.blocks[d] = g.blocks[d]
      /\ h.blocks[b] = C
  BY <1>2, <1>3, FnChanged
<1>5. Len(g.blocks) \in Nat
  BY DEF WellFormed, Fn
<1> QED BY <1>2, <1>4, <1>5 DEF Keeps, KeepsBut

\* The same of InsertInto.
LEMMA InsertIntoFacts ==
    ASSUME NEW g, WellFormed(g), NEW b \in DOMAIN g.blocks
    PROVE  LET h == InsertInto(g, b) IN
           /\ Keeps(g, h) /\ KeepsBut(g, h, {}) /\ h.cur = g.cur /\ h.x = g.x
           /\ DOMAIN h.blocks = DOMAIN g.blocks
<1>1. PICK v \in BOOLEAN : v = TRUE
  BY Zenon
<1>2. InsertInto(g, b) = Moved(g, b, v)
  BY <1>1, Zenon DEF InsertInto, Moved
<1> QED BY <1>2, PutFacts

\* More blocks, all empty, after those there are.
Extended(g, q) == [g EXCEPT !.blocks = g.blocks \o q]

\* Blocks that are appended change none of those there are.
LEMMA MoreBlocks ==
    ASSUME NEW g, WellFormed(g), NEW q \in Seq(Blk), \A j \in DOMAIN q : q[j].ins = << >>,
           NEW h, h = Extended(g, q)
    PROVE  /\ Keeps(g, h) /\ KeepsBut(g, h, {}) /\ h.cur = g.cur /\ h.x = g.x
           /\ Len(h.blocks) = Len(g.blocks) + Len(q)
           /\ \A j \in DOMAIN q : h.blocks[Len(g.blocks) + j] = q[j]
<1>1. g \in Fn /\ g.cur \in DOMAIN g.blocks /\ g.blocks \in Seq(Blk)
  BY DEF WellFormed, Fn
<1>2. PICK r \in Seq(Blk) : r = g.blocks \o q
  BY <1>1, ConcatProperties, Zenon
<1>3. h = [g EXCEPT !.blocks = r]
  BY <1>2 DEF Extended
<1>4. h \in Fn /\ h.cur = g.cur /\ h.x = g.x /\ h.blocks = r
  BY <1>1, <1>2, <1>3, Zenon DEF Fn
<1>5. /\ Len(r) = Len(g.blocks) + Len(q) /\ Len(g.blocks) \in Nat /\ Len(q) \in Nat
      /\ \A i \in 1 .. Len(r) : r[i] = IF i <= Len(g.blocks) THEN g.blocks[i] ELSE q[i - Len(g.blocks)]
  BY <1>1, <1>2, ConcatProperties
<1>6. DOMAIN r = 1 .. Len(r) /\ DOMAIN g.blocks = 1 .. Len(g.blocks) /\ DOMAIN q = 1 .. Len(q)
  BY <1>1, <1>2
<1>7. \A b \in DOMAIN g.blocks : b \in DOMAIN r /\ r[b] = g.blocks[b]
  BY <1>5, <1>6
<1>8. \A b \in DOMAIN r \ DOMAIN g.blocks : r[b] = q[b - Len(g.blocks)] /\ b - Len(g.blocks) \in DOMAIN q
  BY <1>5, <1>6
<1>9. \A j \in DOMAIN q : r[Len(g.blocks) + j] = q[j]
  BY <1>5, <1>6
<1> QED BY <1>1, <1>4, <1>5, <1>7, <1>8, <1>9 DEF Keeps, KeepsBut, WellFormed

\* A new block is empty.
LEMMA BlockFacts ==
    ASSUME NEW v \in BOOLEAN, NEW p \in Place
    PROVE  Block(v, p) \in Blk /\ Block(v, p).ins = << >> /\ Block(v, p).name = p
<1>1. << >> \in Seq(Ins)
  OBVIOUS
<1> QED BY <1>1, BlkMade, Zenon DEF Block

\* The same for one block.
LEMMA OneMoreBlock ==
    ASSUME NEW g, WellFormed(g), NEW B \in Blk, B.ins = << >>, NEW h, h = Extended(g, <<B>>)
    PROVE  /\ Keeps(g, h) /\ KeepsBut(g, h, {}) /\ h.cur = g.cur /\ h.x = g.x
           /\ Len(h.blocks) = Len(g.blocks) + 1
           /\ h.blocks[Len(g.blocks) + 1] = B
<1>1. <<B>> \in Seq(Blk) /\ Len(<<B>>) = 1 /\ 1 \in DOMAIN <<B>> /\ <<B>>[1] = B
  OBVIOUS
<1>2. PICK q \in Seq(Blk) : q = <<B>>
  BY <1>1
<1>3. \A j \in DOMAIN q : q[j].ins = << >>
  BY <1>2
<1>4. /\ Keeps(g, h) /\ KeepsBut(g, h, {}) /\ h.cur = g.cur /\ h.x = g.x
      /\ Len(h.blocks) = Len(g.blocks) + Len(q)
      /\ \A j \in DOMAIN q : h.blocks[Len(g.blocks) + j] = q[j]
  BY <1>2, <1>3, MoreBlocks, ZenonT(30)
<1> QED BY <1>1, <1>2, <1>4

\* NewBlock appends an empty block with its name.
LEMMA NewBlockFacts ==
    ASSUME NEW g, WellFormed(g), NEW v \in BOOLEAN, NEW p \in Place
    PROVE  LET h == NewBlock(g, v, p) IN
           /\ Keeps(g, h) /\ KeepsBut(g, h, {}) /\ h.cur = g.cur /\ h.x = g.x
           /\ Len(h.blocks) = Len(g.blocks) + 1
           /\ h.blocks[Len(g.blocks) + 1].name = p
<1>1. PICK B \in Blk : B = Block(v, p) /\ B.ins = << >> /\ B.name = p
  BY BlockFacts, Zenon
<1>2. g.blocks \in Seq(Blk)
  BY DEF WellFormed, Fn
<1>3. Append(g.blocks, B) = g.blocks \o <<B>>
  BY <1>1, <1>2, AppendIsConcat
<1>4. NewBlock(g, v, p) = Extended(g, <<B>>)
  BY <1>1, <1>3 DEF NewBlock, Extended
<1> QED BY <1>1, <1>4, OneMoreBlock

\* NewBlocks appends an empty block for each name, in their order.
LEMMA NewBlocksFacts ==
    ASSUME NEW g, WellFormed(g), NEW names \in Seq(Place)
    PROVE  LET h == NewBlocks(g, names) IN
           /\ Keeps(g, h) /\ KeepsBut(g, h, {}) /\ h.cur = g.cur /\ h.x = g.x
           /\ Len(h.blocks) = Len(g.blocks) + Len(names)
           /\ \A j \in 1 .. Len(names) : h.blocks[Len(g.blocks) + j].name = names[j]
<1> DEFINE more == [j \in 1 .. Len(names) |-> Block(TRUE, names[j])]
<1>1. PICK v \in BOOLEAN : v = TRUE
  BY Zenon
<1>2. \A j \in 1 .. Len(names) : Block(v, names[j]) \in Blk /\ Block(v, names[j]).ins = << >>
                                  /\ Block(v, names[j]).name = names[j]
  BY BlockFacts
<1>3. more = [j \in 1 .. Len(names) |-> Block(v, names[j])]
  BY <1>1, Zenon
<1>4. DOMAIN more = 1 .. Len(names) /\ \A j \in 1 .. Len(names) : more[j] = Block(v, names[j])
  BY <1>3, Zenon
<1>5. Len(names) \in Nat
  OBVIOUS
<1>6. more \in [1 .. Len(names) -> Blk]
  BY <1>2, <1>3, Zenon
<1>7. NewBlocks(g, names) = Extended(g, more)
  BY DEF NewBlocks, Extended
<1> HIDE DEF more
<1>8. more \in Seq(Blk) /\ Len(more) = Len(names)
  BY <1>5, <1>6
<1>9. PICK q \in Seq(Blk) : q = more
  BY <1>8
<1>10. \A j \in DOMAIN q : q[j].ins = << >> /\ q[j].name = names[j]
  BY <1>2, <1>4, <1>9
<1>11. NewBlocks(g, names) = Extended(g, q)
  BY <1>7, <1>9
<1>12. Len(q) = Len(names) /\ DOMAIN q = 1 .. Len(names)
  BY <1>4, <1>8, <1>9
<1>13. PICK h : h = Extended(g, q)
  OBVIOUS
<1>14. /\ Keeps(g, h) /\ KeepsBut(g, h, {}) /\ h.cur = g.cur /\ h.x = g.x
       /\ Len(h.blocks) = Len(g.blocks) + Len(q)
       /\ \A j \in DOMAIN q : h.blocks[Len(g.blocks) + j] = q[j]
  BY <1>9, <1>10, <1>13, MoreBlocks
<1> QED BY <1>10, <1>11, <1>12, <1>13, <1>14, Zenon

-----------------------------------------------------------------------------
(***************************************************************************)
(* The places of the source and the blocks.  What is known of the source   *)
(* is a record: E, the pairs <<from, to>> of places between which it goes  *)
(* on without doing anything; T, the elifs and elses that are there or     *)
(* still owed; L, its length; R, its tokens.                               *)
(***************************************************************************)
\* No set of places that respects the moves tells p from q.
Respects(S, E) == \A e \in E : e[1] \in S <=> e[2] \in S
Same(E, p, q) == \A S \in SUBSET Place : Respects(S, E) => (p \in S <=> q \in S)

\* A place is the same as itself.
LEMMA SameRefl == ASSUME NEW E, NEW p PROVE Same(E, p, p)
BY DEF Same

\* Being the same place up to moves is transitive.
LEMMA SameTrans ==
    ASSUME NEW E, NEW p, NEW q, NEW r, Same(E, p, q), Same(E, q, r) PROVE Same(E, p, r)
BY DEF Same

\* A move leads to the same place.
LEMMA SameMove ==
    ASSUME NEW E, NEW p, NEW q, <<p, q>> \in E PROVE Same(E, p, q)
BY DEF Same, Respects

\* More moves tell fewer places apart.
LEMMA SameMore ==
    ASSUME NEW E, NEW D, E \subseteq D, NEW p, NEW q, Same(E, p, q) PROVE Same(D, p, q)
BY DEF Same, Respects

\* Where a condition leads when it is false, if the branches are T.
OtherwiseIn(T, tok) ==
    IF tok.k = "while" THEN After(Part("endwhile", tok.c))
    ELSE IF Token("elif", tok.c, tok.n + 1) \in T THEN At(Token("elif", tok.c, tok.n + 1))
    ELSE IF Part("else", tok.c) \in T THEN After(Part("else", tok.c))
    ELSE After(Part("endif", tok.c))

\* The statements that are one instruction.
Simple == {"set", "copy", "get", "vec", "return"}

\* Instruction I does at p what the source does there, or goes where it goes.
Decides(V, g, p, I) ==
    /\ I.k = "cond" /\ I.t.k \in {"if", "elif", "while"} /\ I.t.c \in 1 .. V.L
    /\ Same(V.E, p, At(I.t))
    /\ I.yes \in DOMAIN g.blocks /\ g.blocks[I.yes].name = After(I.t)
    /\ I.no \in DOMAIN g.blocks /\ g.blocks[I.no].name = OtherwiseIn(V.T, I.t)

\* A jump, or a branch of a vector loop, to where the source goes.
Goes(V, g, p, I) ==
    /\ I.k \in {"br", "inner"}
    /\ I.yes \in DOMAIN g.blocks /\ Same(V.E, p, g.blocks[I.yes].name)
    /\ I.no \in DOMAIN g.blocks /\ Same(V.E, p, g.blocks[I.no].name)

\* The four ways to fit.
Fits(V, g, p, I) ==
    \/ I.k \in Simple /\ I.t.k = I.k /\ Same(V.E, p, At(I.t))
    \/ Decides(V, g, p, I)
    \/ Goes(V, g, p, I)
    \/ I.k = "ret" /\ Same(V.E, p, Done)

\* Where the source is before instruction i of a block.
NextPlace(I) == IF I.k = "return" THEN Done ELSE After(I.t)
PlaceAt(B, i) == IF i = 1 THEN B.name ELSE NextPlace(B.ins[i - 1])

\* The code gets to instruction i: no terminator is before it.
Open(B, i) == \A j \in 1 .. i - 1 : ~IsTerminator(B.ins[j])

\* The place for the next instruction.
EndOf(B) == Len(B.ins) + 1

\* Every instruction that is got to fits; a block is filled only when the token
\* it is made for is there.
BlockOK(V, g, B) ==
    /\ \A i \in DOMAIN B.ins : Open(B, i) => Fits(V, g, PlaceAt(B, i), B.ins[i])
    /\ B.ins = << >> \/ B.name.tok \in V.R

\* The blocks fit the source.
CodeOK(V, g) ==
    /\ WellFormed(g)
    /\ \A b \in DOMAIN g.blocks : BlockOK(V, g, g.blocks[b])
    /\ g.blocks[g.cur].name.tok \in V.R

\* The source is at p where the next instruction will be put, if that can
\* be reached at all.
Arrives(V, g, p) ==
    LET B == g.blocks[g.cur] IN Open(B, EndOf(B)) => Same(V.E, PlaceAt(B, EndOf(B)), p)

\* What becomes of the source when it grows.
Grows(V, W) ==
    /\ V.E \subseteq W.E /\ V.R \subseteq W.R
    /\ V.L \in Nat /\ W.L \in Nat /\ V.L <= W.L
    /\ \A tok \in Tok : tok.c \in 1 .. V.L => OtherwiseIn(W.T, tok) = OtherwiseIn(V.T, tok)

\* An instruction that fits still does when blocks are added.
LEMMA FitsKept ==
    ASSUME NEW V, NEW g, NEW h, Keeps(g, h), NEW p, NEW I, Fits(V, g, p, I)
    PROVE  Fits(V, h, p, I)
BY Zenon DEF Fits, Decides, Goes, Keeps

\* An instruction that fits at p fits at every place that is the same as p.
LEMMA FitsSame ==
    ASSUME NEW V, NEW g, NEW p, NEW q, NEW I, Same(V.E, q, p), Fits(V, g, p, I)
    PROVE  Fits(V, g, q, I)
BY SameTrans DEF Fits, Decides, Goes

\* An instruction that fits still does when the source grows.
LEMMA FitsMore ==
    ASSUME NEW V, NEW W, Grows(V, W), NEW g, NEW p, NEW I \in Ins, Fits(V, g, p, I)
    PROVE  Fits(W, g, p, I)
<1>1. \A q : Same(V.E, p, q) => Same(W.E, p, q)
  BY SameMore DEF Grows
<1>2. CASE Decides(V, g, p, I)
  <2>1. I.t \in Tok /\ I.t.c \in Nat
    BY DEF Ins, Tok
  <2>2. I.t.c \in 1 .. V.L /\ I.t.c \in 1 .. W.L
    BY <1>2, <2>1 DEF Decides, Grows
  <2>3. OtherwiseIn(W.T, I.t) = OtherwiseIn(V.T, I.t)
    BY <2>1, <2>2 DEF Grows
  <2> QED BY <1>1, <1>2, <2>2, <2>3 DEF Fits, Decides
<1>3. CASE ~Decides(V, g, p, I)
  BY <1>1, <1>3 DEF Fits, Goes
<1> QED BY <1>2, <1>3

\* Blocks that fit the source still do when it grows.
LEMMA CodeMore ==
    ASSUME NEW V, NEW W, Grows(V, W), NEW g, CodeOK(V, g)
    PROVE  CodeOK(W, g) /\ \A p : Arrives(V, g, p) => Arrives(W, g, p)
<1>1. ASSUME NEW b \in DOMAIN g.blocks PROVE BlockOK(W, g, g.blocks[b])
  <2>1. BlockOK(V, g, g.blocks[b]) /\ g.blocks[b].ins \in Seq(Ins)
    BY <1>1, BlockTyped DEF CodeOK
  <2>2. \A i \in DOMAIN g.blocks[b].ins : g.blocks[b].ins[i] \in Ins
    BY <2>1
  <2> QED BY <2>1, <2>2, FitsMore, Zenon DEF BlockOK, Grows
<1>2. ASSUME NEW p, Arrives(V, g, p) PROVE Arrives(W, g, p)
  BY <1>2, SameMore DEF Arrives, Grows
<1> QED BY <1>1, <1>2 DEF CodeOK, Grows

\* Blocks that are left as they were.
LEMMA BlockKept ==
    ASSUME NEW V, NEW g, NEW h, Keeps(g, h), NEW b \in DOMAIN g.blocks,
           BlockOK(V, g, g.blocks[b]), h.blocks[b].ins = g.blocks[b].ins
    PROVE  BlockOK(V, h, h.blocks[b])
<1>1. h.blocks[b].name = g.blocks[b].name
  BY DEF Keeps
<1>2. \A i : Open(h.blocks[b], i) <=> Open(g.blocks[b], i)
  BY DEF Open
<1>3. \A i : PlaceAt(h.blocks[b], i) = PlaceAt(g.blocks[b], i)
  BY <1>1 DEF PlaceAt
<1> QED BY <1>1, <1>2, <1>3, FitsKept DEF BlockOK

\* In the block of its alloca the variable is assigned before it is read; there
\* is no use of it before it lives somewhere.
SetFirst(q) == \E i \in DOMAIN q : q[i].k = "set" /\ \A j \in 1 .. i - 1 : q[j].k # "get"

\* The uses of x.
UsesOK(g) ==
    IF g.x = 0 THEN \A b \in DOMAIN g.blocks : ~Uses(g, b)
    ELSE g.x # Argument => g.x \in DOMAIN g.blocks /\ SetFirst(g.blocks[g.x].ins)

\* Steps that change no instruction leave the uses of x as they are.
LEMMA UsesKept ==
    ASSUME NEW g, NEW h, UsesOK(g), Keeps(g, h), KeepsBut(g, h, {}), h.x = g.x
    PROVE  UsesOK(h)
<1>1. CASE g.x = 0
  <2>1. \A b \in DOMAIN g.blocks : ~Uses(h, b)
    BY <1>1 DEF UsesOK, Uses, KeepsBut
  <2>2. \A b \in DOMAIN h.blocks \ DOMAIN g.blocks : ~Uses(h, b)
    BY DEF Uses, KeepsBut
  <2> QED BY <1>1, <2>1, <2>2 DEF UsesOK
<1>2. CASE g.x # 0
  BY <1>2 DEF UsesOK, Keeps, KeepsBut
<1> QED BY <1>1, <1>2

\* The instructions of a block after one more.
LEMMA InsAppended ==
    ASSUME NEW q \in Seq(Ins), NEW I \in Ins
    PROVE  /\ Len(q) \in Nat /\ DOMAIN q = 1 .. Len(q) /\ DOMAIN Append(q, I) = 1 .. Len(q) + 1
           /\ Append(q, I)[Len(q) + 1] = I
           /\ \A j \in 1 .. Len(q) : Append(q, I)[j] = q[j]
OBVIOUS

\* An assignment before every read stays before every read.
LEMMA SetFirstAppend ==
    ASSUME NEW q \in Seq(Ins), NEW I \in Ins, SetFirst(q) PROVE SetFirst(Append(q, I))
<1>1. /\ Len(q) \in Nat /\ DOMAIN q = 1 .. Len(q) /\ DOMAIN Append(q, I) = 1 .. Len(q) + 1
      /\ \A j \in 1 .. Len(q) : Append(q, I)[j] = q[j]
  OBVIOUS
<1>2. PICK i \in DOMAIN q : q[i].k = "set" /\ \A j \in 1 .. i - 1 : q[j].k # "get"
  BY DEF SetFirst
<1>3. 1 .. i - 1 \subseteq 1 .. Len(q) /\ i \in 1 .. Len(q) /\ i \in 1 .. Len(q) + 1
  BY <1>1, <1>2
<1>4. Append(q, I)[i].k = "set" /\ \A j \in 1 .. i - 1 : Append(q, I)[j].k # "get"
  BY <1>1, <1>2, <1>3
<1> QED BY <1>1, <1>3, <1>4 DEF SetFirst

\* An instruction that is put after the alloca of x is no use before it.
LEMMA UsesEmit ==
    ASSUME NEW g, WellFormed(g), UsesOK(g), NEW I \in Ins, g.x = 0 => I.k \notin {"set", "get"}
    PROVE  UsesOK(Emit(g, I))
<1>1. PICK h : h = Emit(g, I)
  OBVIOUS
<1>2. /\ Keeps(g, h) /\ KeepsBut(g, h, {g.cur}) /\ h.x = g.x
      /\ DOMAIN h.blocks = DOMAIN g.blocks /\ g.cur \in DOMAIN g.blocks
      /\ h.blocks[g.cur].ins = Append(g.blocks[g.cur].ins, I)
  BY <1>1, EmitFacts, Zenon DEF WellFormed
<1>3. PICK q \in Seq(Ins) : q = g.blocks[g.cur].ins
  BY <1>2, BlockTyped
<1>4. CASE g.x = 0
  <2>1. \A b \in DOMAIN g.blocks : b # g.cur => ~Uses(h, b)
    BY <1>2, <1>4 DEF UsesOK, Uses, KeepsBut
  <2>2. \A i \in DOMAIN q : q[i].k \notin {"set", "get"}
    BY <1>2, <1>3, <1>4 DEF UsesOK, Uses
  <2>3. /\ Len(q) \in Nat /\ DOMAIN q = 1 .. Len(q) /\ DOMAIN Append(q, I) = 1 .. Len(q) + 1
        /\ Append(q, I)[Len(q) + 1] = I
        /\ \A j \in 1 .. Len(q) : Append(q, I)[j] = q[j]
    BY <1>3, InsAppended, Zenon
  <2>4. \A i \in DOMAIN Append(q, I) : i = Len(q) + 1 \/ i \in DOMAIN q
    BY <2>3
  <2>5. \A i \in DOMAIN Append(q, I) : Append(q, I)[i].k \notin {"set", "get"}
    BY <1>4, <2>2, <2>3, <2>4
  <2>6. ~Uses(h, g.cur)
    BY <1>2, <1>3, <2>5, Zenon DEF Uses
  <2> QED BY <1>1, <1>2, <1>4, <2>1, <2>6 DEF UsesOK
<1>5. CASE g.x # 0
  <2>1. g.x # Argument /\ g.x = g.cur => SetFirst(h.blocks[g.x].ins)
    BY <1>2, <1>3, <1>5, SetFirstAppend, Zenon DEF UsesOK
  <2>2. g.x # Argument /\ g.x # g.cur => h.blocks[g.x].ins = g.blocks[g.x].ins
    BY <1>2, <1>5 DEF UsesOK, KeepsBut
  <2> QED BY <1>1, <1>2, <1>5, <2>1, <2>2 DEF UsesOK
<1> QED BY <1>4, <1>5

\* Where only empty blocks are new, nothing is lost.
LEMMA CodeKept ==
    ASSUME NEW V, NEW g, CodeOK(V, g), NEW h, Keeps(g, h), KeepsBut(g, h, {}), h.cur = g.cur,
           h.x = g.x
    PROVE  CodeOK(V, h) /\ (UsesOK(g) => UsesOK(h)) /\ \A p : Arrives(V, g, p) => Arrives(V, h, p)
<1>1. \A b \in DOMAIN g.blocks : BlockOK(V, h, h.blocks[b])
  BY BlockKept, Zenon DEF CodeOK, KeepsBut
<1>2. ASSUME NEW b \in DOMAIN h.blocks \ DOMAIN g.blocks PROVE BlockOK(V, h, h.blocks[b])
  <2>1. h.blocks[b].ins = << >>
    BY <1>2 DEF KeepsBut
  <2> QED BY <2>1 DEF BlockOK
<1>3. g.cur \in DOMAIN g.blocks /\ h.blocks[g.cur].name = g.blocks[g.cur].name
      /\ h.blocks[g.cur].ins = g.blocks[g.cur].ins
  BY DEF CodeOK, WellFormed, Keeps, KeepsBut
<1>4. ASSUME NEW p, Arrives(V, g, p) PROVE Arrives(V, h, p)
  BY <1>3, <1>4 DEF Arrives, Open, PlaceAt, EndOf
<1> QED BY <1>1, <1>2, <1>3, <1>4, UsesKept DEF CodeOK, Keeps

\* An instruction that fits where the next one goes leaves the blocks fitting;
\* after a terminator the end of the block is not reached.
LEMMA EmitCode ==
    ASSUME NEW V, NEW g, CodeOK(V, g), NEW p, Arrives(V, g, p), NEW I \in Ins, Fits(V, g, p, I)
    PROVE  /\ CodeOK(V, Emit(g, I))
           /\ I.k \in Simple => Arrives(V, Emit(g, I), NextPlace(I))
           /\ IsTerminator(I) => \A q : Arrives(V, Emit(g, I), q)
<1>1. PICK h : h = Emit(g, I)
  OBVIOUS
<1>2. WellFormed(g) /\ g.cur \in DOMAIN g.blocks
  BY DEF CodeOK, WellFormed
<1>3. /\ Keeps(g, h) /\ KeepsBut(g, h, {g.cur}) /\ h.cur = g.cur
      /\ DOMAIN h.blocks = DOMAIN g.blocks
      /\ h.blocks[g.cur].ins = Append(g.blocks[g.cur].ins, I)
  BY <1>1, <1>2, EmitFacts, Zenon
<1>4. \A b \in DOMAIN g.blocks : b # g.cur => BlockOK(V, h, h.blocks[b])
  BY <1>3, BlockKept, Zenon DEF CodeOK, KeepsBut
<1>5. PICK B, C : B = g.blocks[g.cur] /\ C = h.blocks[g.cur]
  OBVIOUS
<1>6. B.ins \in Seq(Ins) /\ C.ins = Append(B.ins, I) /\ C.name = B.name /\ BlockOK(V, g, B)
  BY <1>2, <1>3, <1>5, BlockTyped DEF CodeOK, Keeps
<1>7. /\ Len(B.ins) \in Nat /\ DOMAIN B.ins = 1 .. Len(B.ins)
      /\ DOMAIN C.ins = 1 .. Len(B.ins) + 1 /\ Len(C.ins) = Len(B.ins) + 1
      /\ \A j \in 1 .. Len(B.ins) : C.ins[j] = B.ins[j]
      /\ C.ins[Len(B.ins) + 1] = I
  BY <1>6
<1>8. \A i \in 1 .. Len(B.ins) + 1 : Open(C, i) <=> Open(B, i)
  <2>1. \A i \in 1 .. Len(B.ins) + 1 : 1 .. i - 1 \subseteq 1 .. Len(B.ins)
    BY <1>7
  <2> QED BY <1>7, <2>1 DEF Open
<1>9. \A i \in 1 .. Len(B.ins) + 1 : PlaceAt(C, i) = PlaceAt(B, i)
  BY <1>6, <1>7 DEF PlaceAt
<1>10. \A i \in 1 .. Len(B.ins) : Open(C, i) => Fits(V, h, PlaceAt(C, i), C.ins[i])
  BY <1>3, <1>6, <1>7, <1>8, <1>9, FitsKept, SMTT(30) DEF BlockOK
<1>11. Open(C, Len(B.ins) + 1) => Fits(V, h, PlaceAt(C, Len(B.ins) + 1), I)
  <2>1. Open(B, Len(B.ins) + 1) => Same(V.E, PlaceAt(B, Len(B.ins) + 1), p)
    BY <1>5 DEF Arrives, EndOf
  <2>2. Len(B.ins) + 1 \in 1 .. Len(B.ins) + 1
    BY <1>7
  <2> QED BY <1>3, <1>8, <1>9, <2>1, <2>2, FitsKept, FitsSame
<1>12. B.name.tok \in V.R
  BY <1>5 DEF CodeOK
<1>13. BlockOK(V, h, C)
  BY <1>6, <1>7, <1>10, <1>11, <1>12 DEF BlockOK
<1>14. CodeOK(V, h)
  BY <1>2, <1>3, <1>4, <1>5, <1>6, <1>12, <1>13 DEF CodeOK, Keeps
<1>15. Len(C.ins) + 1 - 1 = Len(B.ins) + 1 /\ Len(C.ins) + 1 # 1
       /\ Len(B.ins) + 1 \in 1 .. Len(C.ins) + 1 - 1
  BY <1>7
<1>16. PlaceAt(C, EndOf(C)) = NextPlace(I)
  BY <1>7, <1>15 DEF PlaceAt, EndOf
<1>17. Open(C, EndOf(C)) => ~IsTerminator(I)
  BY <1>7, <1>15 DEF Open, EndOf
<1> QED BY <1>1, <1>3, <1>5, <1>14, <1>16, <1>17, SameRefl DEF Arrives

\* The insert point moves to a block that is empty and made for a place of
\* the source.
LEMMA PointCode ==
    ASSUME NEW V, NEW g, CodeOK(V, g), NEW b \in DOMAIN g.blocks, g.blocks[b].name.tok \in V.R
    PROVE  /\ CodeOK(V, SetInsertPoint(g, b)) /\ (UsesOK(g) => UsesOK(SetInsertPoint(g, b)))
           /\ g.blocks[b].ins = << >> => Arrives(V, SetInsertPoint(g, b), g.blocks[b].name)
<1>1. PICK h : h = SetInsertPoint(g, b)
  OBVIOUS
<1>2. Keeps(g, h) /\ h.blocks = g.blocks /\ h.cur = b /\ h.x = g.x
  BY <1>1, SetInsertPointFacts DEF CodeOK
<1>3. CodeOK(V, h)
  BY <1>2, BlockKept, Zenon DEF CodeOK, Keeps
<1>4. ASSUME g.blocks[b].ins = << >> PROVE Arrives(V, h, g.blocks[b].name)
  <2>1. Len(<< >>) + 1 = 1
    OBVIOUS
  <2> QED BY <1>2, <1>4, <2>1, SameRefl DEF Arrives, EndOf, PlaceAt
<1>5. UsesOK(g) => UsesOK(h)
  BY <1>2 DEF UsesOK, Uses
<1> QED BY <1>1, <1>3, <1>4, <1>5

\* An unconditional branch.
LEMMA BrFacts ==
    ASSUME NEW b \in Nat
    PROVE  /\ Br(b) \in Ins /\ Br(b).k = "br" /\ Br(b).yes = b /\ Br(b).no = b
           /\ IsTerminator(Br(b))
<1>1. Begin \in Tok
  BY DEF Begin, Part, Token, Tok, Kinds
<1>2. PICK t \in Tok : t = Begin
  BY <1>1
<1>3. Br(b) = [k |-> "br", t |-> t, yes |-> b, no |-> b]
  BY <1>2 DEF Br
<1>4. [k |-> "br", t |-> t, yes |-> b, no |-> b] \in Ins
  BY <1>2 DEF Ins, Kinds
<1> QED BY <1>3, <1>4 DEF IsTerminator

\* A jump to b where the source goes to the place that b is made for.
LEMMA BrCode ==
    ASSUME NEW V, NEW g, CodeOK(V, g), NEW p, Arrives(V, g, p), NEW b \in DOMAIN g.blocks,
           Same(V.E, p, g.blocks[b].name)
    PROVE  LET h == Emit(g, Br(b)) IN
           CodeOK(V, h) /\ (\A q : Arrives(V, h, q)) /\ Keeps(g, h) /\ KeepsBut(g, h, {g.cur})
           /\ h.cur = g.cur /\ h.x = g.x /\ (UsesOK(g) => UsesOK(h))
<1>1. WellFormed(g) /\ b \in Nat
  BY DEF CodeOK, WellFormed, Fn
<1>2. Fits(V, g, p, Br(b))
  BY <1>1, BrFacts DEF Fits, Goes
<1>3. Br(b) \in Ins /\ Br(b).k \notin {"set", "get"}
  BY <1>1, BrFacts
<1>4. UsesOK(g) => UsesOK(Emit(g, Br(b)))
  BY <1>1, <1>3, UsesEmit
<1> QED BY <1>1, <1>2, <1>4, BrFacts, EmitCode, EmitFacts, Zenon

\* The jump that is made unless the block has ended already.
LEMMA BrIfOpenCode ==
    ASSUME NEW V, NEW g, CodeOK(V, g), NEW p, Arrives(V, g, p), NEW b \in DOMAIN g.blocks,
           Same(V.E, p, g.blocks[b].name)
    PROVE  LET h == EmitBrIfOpen(g, b) IN
           CodeOK(V, h) /\ (\A q : Arrives(V, h, q)) /\ Keeps(g, h) /\ KeepsBut(g, h, {g.cur})
           /\ h.cur = g.cur /\ h.x = g.x /\ (UsesOK(g) => UsesOK(h))
<1>1. CASE Terminated(g, g.cur)
  <2>1. g.cur \in DOMAIN g.blocks /\ WellFormed(g) /\ g.blocks[g.cur].ins \in Seq(Ins)
    BY BlockTyped DEF CodeOK, WellFormed
  <2>2. Len(g.blocks[g.cur].ins) \in 1 .. Len(g.blocks[g.cur].ins) + 1 - 1
    BY <1>1, <2>1 DEF Terminated
  <2>3. ~Open(g.blocks[g.cur], EndOf(g.blocks[g.cur]))
    <3>1. IsTerminator(g.blocks[g.cur].ins[Len(g.blocks[g.cur].ins)])
      BY <1>1 DEF Terminated
    <3> QED BY <2>2, <3>1, SMTT(30) DEF Open, EndOf
  <2>4. \A q : Arrives(V, g, q)
    BY <2>3 DEF Arrives
  <2> QED BY <1>1, <2>1, <2>4, KeepsRefl DEF EmitBrIfOpen, KeepsBut
<1>2. CASE ~Terminated(g, g.cur)
  BY <1>2, BrCode DEF EmitBrIfOpen
<1> QED BY <1>1, <1>2

\* The blocks of g have become those of h, and the source is at p.
Reached(V, g, h, p) ==
    /\ CodeOK(V, h) /\ Arrives(V, h, p)
    /\ Keeps(g, h) /\ h.x = g.x
    /\ UsesOK(g) => UsesOK(h)

\* Two steps of the code generator, one after the other.
LEMMA ReachedTrans ==
    ASSUME NEW V, NEW g, WellFormed(g), NEW h, NEW e, NEW p, NEW q,
           Reached(V, g, h, p), Reached(V, h, e, q)
    PROVE  Reached(V, g, e, q)
BY KeepsTrans DEF Reached

\* One new block, made for the place r.
AddsBlock(g, h, r) == \E v \in BOOLEAN : h = NewBlock(g, v, r)

\* NewBlock leaves the source where it is.
LEMMA NewBlockReached ==
    ASSUME NEW V, NEW g, CodeOK(V, g), NEW p, Arrives(V, g, p), NEW r, r \in Place,
           NEW h, AddsBlock(g, h, r)
    PROVE  /\ Reached(V, g, h, p) /\ KeepsBut(g, h, {}) /\ h.cur = g.cur
           /\ Len(h.blocks) = Len(g.blocks) + 1 /\ h.blocks[Len(g.blocks) + 1].name = r
<1>1. WellFormed(g)
  BY DEF CodeOK
<1>2. PICK v \in BOOLEAN : h = NewBlock(g, v, r)
  BY Zenon DEF AddsBlock
<1>3. /\ Keeps(g, h) /\ KeepsBut(g, h, {}) /\ h.cur = g.cur /\ h.x = g.x
      /\ Len(h.blocks) = Len(g.blocks) + 1 /\ h.blocks[Len(g.blocks) + 1].name = r
  BY <1>1, <1>2, NewBlockFacts
<1> QED BY <1>2, <1>3, CodeKept DEF Reached

\* So does NewBlocks.
LEMMA NewBlocksReached ==
    ASSUME NEW V, NEW g, CodeOK(V, g), NEW p, Arrives(V, g, p), NEW names, names \in Seq(Place),
           NEW h, h = NewBlocks(g, names)
    PROVE  /\ Reached(V, g, h, p) /\ KeepsBut(g, h, {}) /\ h.cur = g.cur
           /\ Len(h.blocks) = Len(g.blocks) + Len(names)
           /\ \A j \in 1 .. Len(names) : h.blocks[Len(g.blocks) + j].name = names[j]
<1>1. WellFormed(g)
  BY DEF CodeOK
<1>3. /\ Keeps(g, h) /\ KeepsBut(g, h, {}) /\ h.cur = g.cur /\ h.x = g.x
      /\ Len(h.blocks) = Len(g.blocks) + Len(names)
      /\ \A j \in 1 .. Len(names) : h.blocks[Len(g.blocks) + j].name = names[j]
  BY <1>1, NewBlocksFacts
<1> QED BY <1>3, CodeKept DEF Reached

\* So does inserting or removing a block.
LEMMA MovedReached ==
    ASSUME NEW V, NEW g, CodeOK(V, g), NEW p, Arrives(V, g, p), NEW b \in DOMAIN g.blocks,
           NEW v \in BOOLEAN
    PROVE  LET h == Moved(g, b, v) IN
           /\ Reached(V, g, h, p) /\ KeepsBut(g, h, {}) /\ h.cur = g.cur
           /\ DOMAIN h.blocks = DOMAIN g.blocks
<1>1. WellFormed(g)
  BY DEF CodeOK
<1>2. PICK h : h = Moved(g, b, v)
  OBVIOUS
<1>3. /\ Keeps(g, h) /\ KeepsBut(g, h, {}) /\ h.cur = g.cur /\ h.x = g.x
      /\ DOMAIN h.blocks = DOMAIN g.blocks
  BY <1>1, <1>2, PutFacts
<1> QED BY <1>2, <1>3, CodeKept DEF Reached

\* So does InsertInto.
LEMMA InsertIntoReached ==
    ASSUME NEW V, NEW g, CodeOK(V, g), NEW p, Arrives(V, g, p), NEW b \in DOMAIN g.blocks
    PROVE  LET h == InsertInto(g, b) IN
           /\ Reached(V, g, h, p) /\ KeepsBut(g, h, {}) /\ h.cur = g.cur
           /\ DOMAIN h.blocks = DOMAIN g.blocks
<1>1. PICK v \in BOOLEAN : v = TRUE
  BY Zenon
<1>2. InsertInto(g, b) = Moved(g, b, v)
  BY <1>1, Zenon DEF InsertInto, Moved
<1> QED BY <1>2, MovedReached

\* At an empty block the source is at the place it was made for.
LEMMA PointReached ==
    ASSUME NEW V, NEW g, CodeOK(V, g), NEW b \in DOMAIN g.blocks, g.blocks[b].name.tok \in V.R,
           g.blocks[b].ins = << >>
    PROVE  LET h == SetInsertPoint(g, b) IN
           Reached(V, g, h, g.blocks[b].name) /\ h.blocks = g.blocks /\ h.cur = b
BY PointCode, SetInsertPointFacts DEF Reached, CodeOK

\* After the jump the source may be anywhere: the block has ended.
LEMMA BrIfOpenReached ==
    ASSUME NEW V, NEW g, CodeOK(V, g), NEW p, Arrives(V, g, p), NEW b \in DOMAIN g.blocks,
           Same(V.E, p, g.blocks[b].name), NEW q
    PROVE  LET h == EmitBrIfOpen(g, b) IN
           Reached(V, g, h, q) /\ KeepsBut(g, h, {g.cur}) /\ h.cur = g.cur
<1>1. PICK h : h = EmitBrIfOpen(g, b)
  OBVIOUS
<1>2. /\ CodeOK(V, h) /\ (\A r : Arrives(V, h, r)) /\ Keeps(g, h) /\ KeepsBut(g, h, {g.cur})
      /\ h.cur = g.cur /\ h.x = g.x /\ (UsesOK(g) => UsesOK(h))
  BY <1>1, BrIfOpenCode, Zenon
<1> QED BY <1>1, <1>2 DEF Reached

\* A terminator, other than by BrIfOpen.
LEMMA EmitReached ==
    ASSUME NEW V, NEW g, CodeOK(V, g), NEW p, Arrives(V, g, p), NEW I, I \in Ins, Fits(V, g, p, I),
           IsTerminator(I), NEW h, h = Emit(g, I)
    PROVE  /\ Reached(V, g, h, p) /\ KeepsBut(g, h, {g.cur}) /\ h.cur = g.cur
           /\ DOMAIN h.blocks = DOMAIN g.blocks /\ WellFormed(g)
<1>1. WellFormed(g)
  BY DEF CodeOK
<1>3. CodeOK(V, h) /\ Arrives(V, h, p)
  BY EmitCode
<1>4. /\ Keeps(g, h) /\ KeepsBut(g, h, {g.cur}) /\ h.cur = g.cur /\ h.x = g.x
      /\ DOMAIN h.blocks = DOMAIN g.blocks
  BY <1>1, EmitFacts, Zenon
<1>5. I.k \notin {"set", "get"}
  BY DEF IsTerminator
<1>6. UsesOK(g) => UsesOK(h)
  BY <1>1, <1>5, UsesEmit
<1> QED BY <1>1, <1>3, <1>4, <1>6 DEF Reached

\* KeepsBut over two steps that leave the blocks' number as it is.
LEMMA KeepsButTrans ==
    ASSUME NEW g, NEW h, NEW e, NEW S, Keeps(g, h), Keeps(h, e),
           KeepsBut(g, h, S), KeepsBut(h, e, S)
    PROVE  \A b \in DOMAIN g.blocks \ S :
              b \in DOMAIN e.blocks /\ e.blocks[b].ins = g.blocks[b].ins
                /\ e.blocks[b].name = g.blocks[b].name
BY DEF Keeps, KeepsBut

\* A block is finished with a terminator, and the next one is begun.
LEMMA EmitAndEnter ==
    ASSUME NEW V, NEW g, CodeOK(V, g), NEW p, Arrives(V, g, p), NEW I, I \in Ins, Fits(V, g, p, I),
           IsTerminator(I), NEW b, b \in DOMAIN g.blocks, b # g.cur, g.blocks[b].ins = << >>,
           g.blocks[b].name.tok \in V.R, NEW h, h = SetInsertPoint(Emit(g, I), b)
    PROVE  Reached(V, g, h, g.blocks[b].name) /\ KeepsBut(g, h, {g.cur}) /\ h.cur = b
<1>1. PICK e : e = Emit(g, I)
  OBVIOUS
<1>2. /\ Reached(V, g, e, p) /\ KeepsBut(g, e, {g.cur}) /\ WellFormed(g)
      /\ DOMAIN e.blocks = DOMAIN g.blocks
  BY <1>1, EmitReached
<1>3. b \in DOMAIN e.blocks /\ e.blocks[b].ins = << >> /\ e.blocks[b].name = g.blocks[b].name
  BY <1>2 DEF KeepsBut, Reached, Keeps
<1>4. h = SetInsertPoint(e, b)
  BY <1>1
<1>5. Reached(V, e, h, g.blocks[b].name) /\ h.blocks = e.blocks /\ h.cur = b
  BY <1>2, <1>3, <1>4, PointReached DEF Reached
<1>6. Reached(V, g, h, g.blocks[b].name)
  BY <1>2, <1>5, ReachedTrans
<1>7. KeepsBut(g, h, {g.cur})
  BY <1>2, <1>5 DEF KeepsBut
<1> QED BY <1>1, <1>4, <1>5, <1>6, <1>7

\* AddLoopCond: the condition, then the body.
LEMMA AddLoopCondReached ==
    ASSUME NEW V, NEW g, CodeOK(V, g), NEW p, Arrives(V, g, p), NEW I, I \in Ins, Fits(V, g, p, I),
           IsTerminator(I), NEW c, c.body \in DOMAIN g.blocks, c.body # g.cur,
           g.blocks[c.body].ins = << >>, g.blocks[c.body].name.tok \in V.R, NEW h, h = AddLoopCond(g, c, I)
    PROVE  Reached(V, g, h, g.blocks[c.body].name) /\ KeepsBut(g, h, {g.cur}) /\ h.cur = c.body
<1>1. PICK b : b = c.body
  OBVIOUS
<1>2. PICK d : d = Emit(g, I)
  OBVIOUS
<1>3. /\ Reached(V, g, d, p) /\ KeepsBut(g, d, {g.cur}) /\ WellFormed(g)
      /\ DOMAIN d.blocks = DOMAIN g.blocks
  BY <1>2, EmitReached
<1>4. PICK e : e = InsertInto(d, b)
  OBVIOUS
<1>5. Reached(V, d, e, p) /\ KeepsBut(d, e, {}) /\ DOMAIN e.blocks = DOMAIN d.blocks
  BY <1>1, <1>3, <1>4, InsertIntoReached DEF Reached
<1>6. Reached(V, g, e, p)
  BY <1>3, <1>5, ReachedTrans
<1>7. KeepsBut(g, e, {g.cur})
  BY <1>3, <1>5 DEF KeepsBut
<1>8. b \in DOMAIN e.blocks /\ e.blocks[b].ins = << >> /\ e.blocks[b].name = g.blocks[b].name
  BY <1>1, <1>3, <1>5, <1>6, <1>7 DEF KeepsBut, Reached, Keeps
<1>9. h = SetInsertPoint(e, b)
  BY <1>1, <1>2, <1>4 DEF AddLoopCond
<1>10. Reached(V, e, h, g.blocks[b].name) /\ h.blocks = e.blocks /\ h.cur = b
  BY <1>1, <1>6, <1>8, <1>9, PointReached DEF Reached
<1>11. Reached(V, g, h, g.blocks[b].name)
  BY <1>3, <1>6, <1>10, ReachedTrans
<1>12. KeepsBut(g, h, {g.cur})
  BY <1>7, <1>10 DEF KeepsBut
<1> QED BY <1>1, <1>10, <1>11, <1>12

\* FinishLoop: the jump back to the condition, then the block after the loop.
LEMMA FinishLoopReached ==
    ASSUME NEW V, NEW g, CodeOK(V, g), NEW p, Arrives(V, g, p), NEW c,
           c.cond \in DOMAIN g.blocks, Same(V.E, p, g.blocks[c.cond].name),
           c.end \in DOMAIN g.blocks, c.end # g.cur,
           g.blocks[c.end].ins = << >>, g.blocks[c.end].name.tok \in V.R
    PROVE  LET h == FinishLoop(g, c) IN
           Reached(V, g, h, g.blocks[c.end].name) /\ KeepsBut(g, h, {g.cur}) /\ h.cur = c.end
<1>1. PICK b : b = c.end
  OBVIOUS
<1>2. PICK d : d = EmitBrIfOpen(g, c.cond)
  OBVIOUS
<1>3. Reached(V, g, d, p) /\ KeepsBut(g, d, {g.cur}) /\ WellFormed(g)
  BY <1>2, BrIfOpenReached, Zenon DEF CodeOK
<1>4. b \in DOMAIN d.blocks
  BY <1>1, <1>3 DEF Reached, Keeps
<1>5. PICK e : e = InsertInto(d, b)
  OBVIOUS
<1>6. Reached(V, d, e, p) /\ KeepsBut(d, e, {}) /\ DOMAIN e.blocks = DOMAIN d.blocks
  BY <1>3, <1>4, <1>5, InsertIntoReached DEF Reached
<1>7. Reached(V, g, e, p)
  BY <1>3, <1>6, ReachedTrans
<1>8. KeepsBut(g, e, {g.cur})
  BY <1>3, <1>6 DEF KeepsBut, Reached, Keeps
<1>9. b \in DOMAIN e.blocks /\ e.blocks[b].ins = << >> /\ e.blocks[b].name = g.blocks[b].name
  BY <1>1, <1>7, <1>8, Zenon DEF KeepsBut, Reached, Keeps
<1>10. PICK h : h = SetInsertPoint(e, b)
  OBVIOUS
<1>11. Reached(V, e, h, g.blocks[b].name) /\ h.blocks = e.blocks /\ h.cur = b
  BY <1>1, <1>7, <1>9, <1>10, PointReached DEF Reached
<1>12. Reached(V, g, h, g.blocks[b].name)
  BY <1>3, <1>7, <1>11, ReachedTrans
<1>13. KeepsBut(g, h, {g.cur})
  BY <1>8, <1>11 DEF KeepsBut
<1>14. FinishLoop(g, c) = h
  BY <1>1, <1>2, <1>5, <1>10 DEF FinishLoop
<1> QED BY <1>1, <1>11, <1>12, <1>13, <1>14

\* NewLoop: three blocks, and the insert point in the condition.
LEMMA NewLoopReached ==
    ASSUME NEW V, NEW g, CodeOK(V, g), NEW p, Arrives(V, g, p), NEW t,
           NEW cond \in Place, NEW body \in Place, NEW end \in Place, cond.tok \in V.R,
           Same(V.E, p, cond)
    PROVE  \E h, n :
             /\ NewLoop(g, t, cond, body, end) =
                  [g |-> h, c |-> [k |-> "while", t |-> t, cond |-> n + 1, end |-> n + 2, body |-> n + 3]]
             /\ n = Len(g.blocks) /\ n \in Nat
             /\ Reached(V, g, h, cond) /\ h.cur = n + 1
             /\ n + 1 \in DOMAIN h.blocks /\ h.blocks[n + 1].name = cond
             /\ n + 2 \in DOMAIN h.blocks /\ h.blocks[n + 2].name = end /\ h.blocks[n + 2].ins = << >>
             /\ n + 3 \in DOMAIN h.blocks /\ h.blocks[n + 3].name = body /\ h.blocks[n + 3].ins = << >>
<1>1. PICK d1, d2, d3 :
        d1 = NewBlock(g, TRUE, cond) /\ d2 = NewBlock(d1, FALSE, end) /\ d3 = NewBlock(d2, FALSE, body)
  BY Zenon
<1>2. AddsBlock(g, d1, cond) /\ AddsBlock(d1, d2, end) /\ AddsBlock(d2, d3, body)
  BY <1>1, Zenon DEF AddsBlock
<1>3. PICK n : n = Len(g.blocks) /\ n \in Nat /\ WellFormed(g) /\ DOMAIN g.blocks = 1 .. n
               /\ g.cur \in DOMAIN g.blocks
  BY DEF CodeOK, WellFormed, Fn
<1>4. /\ Reached(V, g, d1, p) /\ KeepsBut(g, d1, {}) /\ d1.cur = g.cur
      /\ Len(d1.blocks) = n + 1 /\ d1.blocks[n + 1].name = cond
  BY <1>2, <1>3, NewBlockReached
<1>5. CodeOK(V, d1) /\ Arrives(V, d1, p)
  BY <1>4 DEF Reached
<1>6. /\ Reached(V, d1, d2, p) /\ KeepsBut(d1, d2, {}) /\ d2.cur = g.cur
      /\ Len(d2.blocks) = n + 1 + 1 /\ d2.blocks[n + 1 + 1].name = end
  BY <1>2, <1>4, <1>5, NewBlockReached
<1>7. CodeOK(V, d2) /\ Arrives(V, d2, p)
  BY <1>6 DEF Reached
<1>8. /\ Reached(V, d2, d3, p) /\ KeepsBut(d2, d3, {}) /\ d3.cur = g.cur
      /\ Len(d3.blocks) = n + 1 + 1 + 1 /\ d3.blocks[n + 1 + 1 + 1].name = body
  BY <1>2, <1>6, <1>7, NewBlockReached
<1>9. Reached(V, g, d3, p)
  BY <1>3, <1>4, <1>6, <1>8, ReachedTrans, Zenon DEF Reached, Keeps
<1>10. n + 1 + 1 = n + 2 /\ n + 1 + 1 + 1 = n + 3
  BY <1>3
<1>11. /\ DOMAIN d1.blocks = 1 .. n + 1 /\ DOMAIN d2.blocks = 1 .. n + 2
       /\ DOMAIN d3.blocks = 1 .. n + 3
  BY <1>3, <1>4, <1>6, <1>8, <1>10 DEF Reached, Keeps, WellFormed, Fn
<1>12. /\ n + 1 \in 1 .. n + 1 /\ n + 1 \in 1 .. n + 2 /\ n + 1 \in 1 .. n + 3 /\ n + 2 \in 1 .. n + 2
       /\ n + 2 \in 1 .. n + 3 /\ n + 3 \in 1 .. n + 3 /\ n + 1 \notin 1 .. n
       /\ n + 2 \notin 1 .. n + 1 /\ n + 3 \notin 1 .. n + 2
       /\ \A b \in 1 .. n : b # n + 1 /\ b # n + 2 /\ b # n + 3
       /\ n + 1 # n + 2 /\ n + 1 # n + 3
  BY <1>3
<1>13. /\ d3.blocks[n + 1].name = cond /\ d3.blocks[n + 2].name = end /\ d3.blocks[n + 3].name = body
       /\ d3.blocks[n + 2].ins = << >> /\ d3.blocks[n + 3].ins = << >>
  <2>1. d1.blocks[n + 1].name = cond /\ d2.blocks[n + 2].name = end /\ d3.blocks[n + 3].name = body
    BY <1>4, <1>6, <1>8, <1>10
  <2>2. d2.blocks[n + 1].name = cond /\ d3.blocks[n + 1].name = cond /\ d3.blocks[n + 2].name = end
    BY <1>6, <1>8, <1>11, <1>12, <2>1, Zenon DEF Reached, Keeps
  <2>3. d2.blocks[n + 2].ins = << >> /\ d3.blocks[n + 3].ins = << >>
    BY <1>6, <1>8, <1>11, <1>12 DEF KeepsBut
  <2>4. d3.blocks[n + 2].ins = << >>
    BY <1>8, <1>11, <1>12, <2>3, Zenon DEF KeepsBut
  <2> QED BY <2>1, <2>2, <2>3, <2>4
<1>14. PICK e : e = EmitBrIfOpen(d3, n + 1)
  OBVIOUS
<1>15. n + 1 \in DOMAIN d3.blocks /\ CodeOK(V, d3) /\ Arrives(V, d3, p) /\ Same(V.E, p, d3.blocks[n + 1].name)
  BY <1>9, <1>11, <1>12, <1>13 DEF Reached
<1>16. Reached(V, d3, e, p) /\ KeepsBut(d3, e, {d3.cur}) /\ e.cur = d3.cur
  BY <1>14, <1>15, BrIfOpenReached, Zenon
<1>17. PICK b2, b3 : b2 = n + 2 /\ b3 = n + 3
  OBVIOUS
<1>18. d3.cur # n + 1 /\ d3.cur # b2 /\ d3.cur # b3
  BY <1>3, <1>8, <1>12, <1>17
<1>19. \A b \in DOMAIN d3.blocks : b \in DOMAIN e.blocks /\ e.blocks[b].name = d3.blocks[b].name
  BY <1>16 DEF Reached, Keeps
<1>20. \A b \in DOMAIN d3.blocks : b # d3.cur => e.blocks[b].ins = d3.blocks[b].ins
  BY <1>16 DEF KeepsBut
<1>21. d3.blocks[n + 1].ins = << >>
  <2>1. d1.blocks[n + 1].ins = << >>
    BY <1>3, <1>4, <1>11, <1>12, Zenon DEF KeepsBut
  <2>2. d2.blocks[n + 1].ins = << >>
    BY <1>6, <1>11, <1>12, <2>1, Zenon DEF KeepsBut
  <2> QED BY <1>8, <1>11, <1>12, <2>2, Zenon DEF KeepsBut
<1>22. /\ n + 1 \in DOMAIN e.blocks /\ e.blocks[n + 1].name = cond /\ e.blocks[n + 1].ins = << >>
       /\ b2 \in DOMAIN e.blocks /\ e.blocks[b2].name = end /\ e.blocks[b2].ins = << >>
       /\ b3 \in DOMAIN e.blocks /\ e.blocks[b3].name = body /\ e.blocks[b3].ins = << >>
  BY <1>11, <1>12, <1>13, <1>17, <1>18, <1>19, <1>20, <1>21, Zenon
<1>23. PICK h : h = SetInsertPoint(e, n + 1)
  OBVIOUS
<1>24. Reached(V, e, h, cond) /\ h.blocks = e.blocks /\ h.cur = n + 1
  BY <1>16, <1>22, <1>23, PointReached DEF Reached
<1>25. Reached(V, g, h, cond)
  BY <1>3, <1>9, <1>16, <1>24, ReachedTrans, Zenon DEF Reached, Keeps
<1>26. Newest(d3) = n + 3 /\ Newest(d3) - 2 = n + 1 /\ Newest(d3) - 1 = n + 2
  BY <1>3, <1>8, <1>10 DEF Newest
<1>27. d3 = NewBlock(NewBlock(NewBlock(g, TRUE, cond), FALSE, end), FALSE, body)
  BY <1>1, Zenon
<1>28. NewLoop(g, t, cond, body, end) =
         [g |-> h, c |-> [k |-> "while", t |-> t, cond |-> n + 1, end |-> n + 2, body |-> n + 3]]
  BY <1>14, <1>23, <1>26, <1>27, Zenon DEF NewLoop
<1> QED BY <1>3, <1>17, <1>22, <1>24, <1>25, <1>28, Zenon

\* The end of a branch: a jump to the end of the if, or nothing.
LEMMA EndBranchReached ==
    ASSUME NEW V, NEW g, CodeOK(V, g), NEW p, Arrives(V, g, p), NEW c,
           c.end \in DOMAIN g.blocks, Same(V.E, p, g.blocks[c.end].name),
           NEW h, h = EndOpenBranch(g, c)
    PROVE  Reached(V, g, h, p) /\ KeepsBut(g, h, {g.cur}) /\ h.cur = g.cur
<1>1. WellFormed(g)
  BY DEF CodeOK
<1>2. Reached(V, g, g, p) /\ KeepsBut(g, g, {g.cur})
  BY <1>1, KeepsRefl DEF Reached, KeepsBut
<1>3. /\ Reached(V, g, Emit(g, Br(c.end)), p) /\ KeepsBut(g, Emit(g, Br(c.end)), {g.cur})
      /\ Emit(g, Br(c.end)).cur = g.cur
  BY BrCode, Zenon DEF Reached
<1>4. LET e == EmitBrIfOpen(g, c.end) IN
      Reached(V, g, e, p) /\ KeepsBut(g, e, {g.cur}) /\ e.cur = g.cur
  BY BrIfOpenReached, Zenon
<1> QED BY <1>2, <1>3, <1>4 DEF EndOpenBranch, EndBranch, EndIf

\* The block after an if, or what is left of it.
LEMMA FinishConditionReached ==
    ASSUME NEW V, NEW g, CodeOK(V, g), NEW p, Arrives(V, g, p), NEW c,
           c.end \in DOMAIN g.blocks, Same(V.E, p, g.blocks[c.end].name),
           g.blocks[c.end].ins = << >>, g.blocks[c.end].name.tok \in V.R
    PROVE  Reached(V, g, FinishCondition(g, c), g.blocks[c.end].name)
<1>1. CASE HasPredecessor(g, c.end)
  BY <1>1, PointReached DEF FinishCondition
<1>2. CASE ~HasPredecessor(g, c.end)
  <2>1. PICK v \in BOOLEAN : v = FALSE
    BY Zenon
  <2>2. FinishCondition(g, c) = Moved(g, c.end, v)
    BY <1>2, <2>1, Zenon DEF FinishCondition, Moved
  <2>3. Reached(V, g, FinishCondition(g, c), p)
    BY <2>1, <2>2, MovedReached
  <2> QED BY <2>3, SameTrans DEF Reached, Arrives
<1> QED BY <1>1, <1>2

\* The branch of a vector loop.
LEMMA InnerFacts ==
    ASSUME NEW yes \in Nat, NEW no \in Nat
    PROVE  LET I == Inner(yes, no) IN
           I \in Ins /\ I.k = "inner" /\ I.yes = yes /\ I.no = no /\ IsTerminator(I)
<1>1. Begin \in Tok
  BY DEF Begin, Part, Token, Tok, Kinds
<1>2. PICK t \in Tok : t = Begin
  BY <1>1
<1>3. Inner(yes, no) = [k |-> "inner", t |-> t, yes |-> yes, no |-> no]
  BY <1>2 DEF Inner
<1>4. [k |-> "inner", t |-> t, yes |-> yes, no |-> no] \in Ins
  BY <1>2 DEF Ins, Kinds
<1> QED BY <1>3, <1>4 DEF IsTerminator

\* The branches of a vector expression stay where the source is.
LEMMA InnerFits ==
    ASSUME NEW V, NEW g, WellFormed(g), NEW p, NEW yes \in DOMAIN g.blocks, NEW no \in DOMAIN g.blocks,
           g.blocks[yes].name = p, g.blocks[no].name = p
    PROVE  Fits(V, g, p, Inner(yes, no)) /\ Inner(yes, no) \in Ins /\ IsTerminator(Inner(yes, no))
<1>1. yes \in Nat /\ no \in Nat
  BY BlockTyped
<1> QED BY <1>1, InnerFacts, SameRefl DEF Fits, Goes

\* The loop of a vector expression begins and ends at one place of the source.
LEMMA VectorLoopReached ==
    ASSUME NEW V, NEW g, CodeOK(V, g), NEW p \in Place, Arrives(V, g, p), p.tok \in V.R,
           NEW l, l = NewLoop(g, 0, p, p, p)
    PROVE  Reached(V, g, FinishLoop(AddLoopCond(l.g, l.c, Inner(l.c.body, l.c.end)), l.c), p)
<1>1. WellFormed(g) /\ Same(V.E, p, p)
  BY SameRefl DEF CodeOK
<1>2. PICK h, n :
             /\ l = [g |-> h, c |-> [k |-> "while", t |-> 0, cond |-> n + 1, end |-> n + 2, body |-> n + 3]]
             /\ n = Len(g.blocks) /\ n \in Nat
             /\ Reached(V, g, h, p) /\ h.cur = n + 1
             /\ n + 1 \in DOMAIN h.blocks /\ h.blocks[n + 1].name = p
             /\ n + 2 \in DOMAIN h.blocks /\ h.blocks[n + 2].name = p /\ h.blocks[n + 2].ins = << >>
             /\ n + 3 \in DOMAIN h.blocks /\ h.blocks[n + 3].name = p /\ h.blocks[n + 3].ins = << >>
  BY <1>1, NewLoopReached
<1>3. PICK c : c = l.c
  OBVIOUS
<1>4. l.g = h /\ c.cond = n + 1 /\ c.end = n + 2 /\ c.body = n + 3
  BY <1>2, <1>3
<1>5. c.cond # c.end /\ c.cond # c.body /\ c.end # c.body
  BY <1>2, <1>4
<1>6. CodeOK(V, h) /\ Arrives(V, h, p) /\ WellFormed(h)
  BY <1>2 DEF Reached, CodeOK
<1>7. PICK I : I = Inner(c.body, c.end)
  OBVIOUS
<1>8. Fits(V, h, p, I) /\ I \in Ins /\ IsTerminator(I)
  BY <1>2, <1>4, <1>6, <1>7, InnerFits
<1>9. PICK e : e = AddLoopCond(h, c, I)
  OBVIOUS
<1>10. /\ c.body \in DOMAIN h.blocks /\ c.body # h.cur /\ h.blocks[c.body].ins = << >>
       /\ h.blocks[c.body].name = p /\ c.cond = h.cur
       /\ c.end \in DOMAIN h.blocks /\ c.end # h.cur /\ h.blocks[c.end].ins = << >>
       /\ h.blocks[c.end].name = p
       /\ c.cond \in DOMAIN h.blocks /\ h.blocks[c.cond].name = p
  BY <1>2, <1>4, <1>5
<1>11. Reached(V, h, e, p) /\ KeepsBut(h, e, {h.cur}) /\ e.cur = c.body
  <2>1. h.blocks[c.body].name.tok \in V.R
    BY <1>10
  <2>2. Reached(V, h, e, h.blocks[c.body].name) /\ KeepsBut(h, e, {h.cur}) /\ e.cur = c.body
    <3>1. /\ CodeOK(V, h) /\ Arrives(V, h, p) /\ I \in Ins /\ Fits(V, h, p, I) /\ IsTerminator(I)
          /\ c.body \in DOMAIN h.blocks /\ c.body # h.cur /\ h.blocks[c.body].ins = << >>
          /\ h.blocks[c.body].name.tok \in V.R /\ e = AddLoopCond(h, c, I)
      BY <1>6, <1>8, <1>9, <1>10, <2>1
    <3> QED BY <3>1, AddLoopCondReached
  <2> QED BY <1>10, <2>2
<1>12. /\ c.cond \in DOMAIN e.blocks /\ e.blocks[c.cond].name = p
       /\ c.end \in DOMAIN e.blocks /\ e.blocks[c.end].name = p /\ e.blocks[c.end].ins = << >>
       /\ c.end # e.cur
  BY <1>5, <1>10, <1>11, Zenon DEF Reached, Keeps, KeepsBut
<1>13. CodeOK(V, e) /\ Arrives(V, e, p)
  BY <1>11 DEF Reached
<1>14. Reached(V, e, FinishLoop(e, c), p)
  BY <1>1, <1>12, <1>13, FinishLoopReached, Zenon
<1>15. Reached(V, g, FinishLoop(e, c), p)
  BY <1>1, <1>2, <1>6, <1>11, <1>14, ReachedTrans, Zenon
<1> QED BY <1>3, <1>4, <1>7, <1>9, <1>15

\* So does the remainder, given its two blocks.
LEMMA RestReached ==
    ASSUME NEW V, NEW h, CodeOK(V, h), NEW p, Arrives(V, h, p), p.tok \in V.R, NEW c,
           c.body \in DOMAIN h.blocks, c.end \in DOMAIN h.blocks, c.body # c.end,
           c.body # h.cur, c.end # h.cur, h.blocks[c.body].name = p, h.blocks[c.end].name = p,
           h.blocks[c.body].ins = << >>, h.blocks[c.end].ins = << >>
    PROVE  LET rest == SetInsertPoint(Emit(h, Inner(c.body, c.end)), c.body) IN
           Reached(V, h, FinishCondition(EndIf(rest, c), c), p)
<1>1. WellFormed(h) /\ Same(V.E, p, p)
  BY SameRefl DEF CodeOK
<1>2. PICK I, b : I = Inner(c.body, c.end) /\ b = c.body
  OBVIOUS
<1>3. Fits(V, h, p, I) /\ I \in Ins /\ IsTerminator(I)
  BY <1>1, <1>2, InnerFits
<1>4. PICK e : e = SetInsertPoint(Emit(h, I), b)
  OBVIOUS
<1>5. Reached(V, h, e, p) /\ KeepsBut(h, e, {h.cur}) /\ e.cur = b
  <2>1. b \in DOMAIN h.blocks /\ b # h.cur /\ h.blocks[b].ins = << >> /\ h.blocks[b].name.tok \in V.R
    BY <1>2
  <2>2. Reached(V, h, e, h.blocks[b].name) /\ KeepsBut(h, e, {h.cur}) /\ e.cur = b
    BY <1>3, <1>4, <2>1, EmitAndEnter
  <2> QED BY <1>2, <2>2
<1>6. /\ CodeOK(V, e) /\ Arrives(V, e, p) /\ c.end \in DOMAIN e.blocks
      /\ e.blocks[c.end].name = p /\ e.blocks[c.end].ins = << >> /\ c.end # e.cur
  BY <1>2, <1>5, Zenon DEF Reached, Keeps, KeepsBut
<1>7. PICK d : d = EmitBrIfOpen(e, c.end)
  OBVIOUS
<1>8. Reached(V, e, d, p) /\ KeepsBut(e, d, {e.cur})
  BY <1>1, <1>6, <1>7, BrIfOpenReached, Zenon
<1>9. /\ CodeOK(V, d) /\ Arrives(V, d, p) /\ c.end \in DOMAIN d.blocks
      /\ d.blocks[c.end].name = p /\ d.blocks[c.end].ins = << >>
  BY <1>6, <1>8 DEF Reached, Keeps, KeepsBut
<1>10. Reached(V, d, FinishCondition(d, c), p)
  BY <1>1, <1>9, FinishConditionReached
<1>11. Reached(V, h, d, p)
  BY <1>1, <1>5, <1>8, ReachedTrans
<1>12. Reached(V, h, FinishCondition(d, c), p)
  BY <1>1, <1>10, <1>11, ReachedTrans
<1>13. d = EndIf(e, c)
  BY <1>7 DEF EndIf
<1> QED BY <1>2, <1>4, <1>12, <1>13

\* The blocks of the remainder are those NewCondition makes.
LEMMA VectorRestReached ==
    ASSUME NEW V, NEW g, CodeOK(V, g), NEW p \in Place, Arrives(V, g, p), p.tok \in V.R,
           NEW r, r = NewCondition(g, 0, 0, FALSE, <<p, p>>)
    PROVE  LET rest == SetInsertPoint(Emit(r.g, Inner(r.c.body, r.c.end)), r.c.body) IN
           Reached(V, g, FinishCondition(EndIf(rest, r.c), r.c), p)
<1>1. WellFormed(g)
  BY DEF CodeOK
<1>2. PICK names : names = <<p, p>> /\ names \in Seq(Place)
  <2>1. <<p, p>> \in Seq(Place)
    OBVIOUS
  <2> QED BY <2>1, Zenon
<1>3. Len(names) = 2 /\ names[1] = p /\ names[2] = p /\ names \in Seq(Place)
  BY <1>2
<1>4. PICK h, n, c : h = NewBlocks(g, names) /\ n = Len(g.blocks) /\ c = r.c
  BY Zenon
<1>5. n \in Nat /\ DOMAIN g.blocks = 1 .. n /\ g.cur \in 1 .. n
  BY <1>1, <1>4 DEF WellFormed, Fn
<1>6. r.g = h /\ c.body = n + 1 /\ c.end = n + 2
  BY <1>2, <1>3, <1>4 DEF NewCondition, Newest
<1>7. /\ Reached(V, g, h, p) /\ KeepsBut(g, h, {}) /\ h.cur = g.cur
      /\ Len(h.blocks) = n + 2
      /\ \A j \in 1 .. 2 : h.blocks[n + j].name = p
  <2>1. \A j \in 1 .. 2 : names[j] = p
    BY <1>3
  <2>2. /\ Reached(V, g, h, p) /\ KeepsBut(g, h, {}) /\ h.cur = g.cur
        /\ Len(h.blocks) = Len(g.blocks) + Len(names)
        /\ \A j \in 1 .. Len(names) : h.blocks[Len(g.blocks) + j].name = names[j]
    <3>1. CodeOK(V, g) /\ Arrives(V, g, p) /\ names \in Seq(Place) /\ h = NewBlocks(g, names)
      BY <1>3, <1>4
    <3> QED BY <3>1, NewBlocksReached
  <2> QED BY <1>3, <1>4, <2>1, <2>2
<1>8. CodeOK(V, h) /\ Arrives(V, h, p) /\ DOMAIN h.blocks = 1 .. n + 2
  BY <1>7 DEF Reached, CodeOK, WellFormed, Fn
<1>9. /\ c.body \in DOMAIN h.blocks /\ c.end \in DOMAIN h.blocks /\ c.body # c.end
      /\ c.body \notin DOMAIN g.blocks /\ c.end \notin DOMAIN g.blocks
      /\ c.body # h.cur /\ c.end # h.cur
  BY <1>5, <1>6, <1>7, <1>8
<1>10. h.blocks[c.body].name = p /\ h.blocks[c.end].name = p
  BY <1>6, <1>7
<1>11. h.blocks[c.body].ins = << >> /\ h.blocks[c.end].ins = << >>
  BY <1>7, <1>9 DEF KeepsBut
<1>12. PICK rest : rest = SetInsertPoint(Emit(h, Inner(c.body, c.end)), c.body)
  OBVIOUS
<1>13. Reached(V, h, FinishCondition(EndIf(rest, c), c), p)
  BY <1>8, <1>9, <1>10, <1>11, <1>12, RestReached, Zenon
<1>14. Reached(V, g, FinishCondition(EndIf(rest, c), c), p)
  BY <1>1, <1>7, <1>13, ReachedTrans
<1> QED BY <1>4, <1>6, <1>12, <1>14, Zenon

\* A vector expression begins and ends at one place of the source.
LEMMA VectorReached ==
    ASSUME NEW V, NEW g, CodeOK(V, g), NEW p \in Place, Arrives(V, g, p), p.tok \in V.R
    PROVE  Reached(V, g, VectorBlocks(g, p), p)
<1>1. PICK l : l = NewLoop(g, 0, p, p, p)
  OBVIOUS
<1>2. PICK looped : looped = FinishLoop(AddLoopCond(l.g, l.c, Inner(l.c.body, l.c.end)), l.c)
  OBVIOUS
<1>3. Reached(V, g, looped, p)
  BY <1>1, <1>2, VectorLoopReached
<1>4. PICK r : r = NewCondition(looped, 0, 0, FALSE, <<p, p>>)
  BY Zenon
<1>5. PICK rest : rest = SetInsertPoint(Emit(r.g, Inner(r.c.body, r.c.end)), r.c.body)
  OBVIOUS
<1>6. Reached(V, looped, FinishCondition(EndIf(rest, r.c), r.c), p)
  <2>1. CodeOK(V, looped) /\ Arrives(V, looped, p)
    BY <1>3 DEF Reached
  <2> QED BY <1>4, <1>5, <2>1, VectorRestReached, Zenon
<1>7. VectorBlocks(g, p) = FinishCondition(EndIf(rest, r.c), r.c)
  BY <1>1, <1>2, <1>4, <1>5 DEF VectorBlocks
<1>8. WellFormed(g)
  BY DEF CodeOK
<1> QED BY <1>3, <1>6, <1>7, <1>8, ReachedTrans

-----------------------------------------------------------------------------
(* The source as it grows, and the ifs and whiles that are open. *)

\* The token before position q, and the last one.
Prev(s, q) == IF q = 1 THEN Begin ELSE s[q - 1]
LastTok(s) == IF s = << >> THEN Begin ELSE s[Len(s)]

\* The moves of the source.
Rules(s) ==
    { <<After(Prev(s, q)), Arrive(s[q])>> : q \in DOMAIN s }
    \cup { <<At(s[q]), Leads(s[q])>> : q \in { r \in DOMAIN s : s[r].k \in Passing } }

\* The branches an open if has or will have.
Owes(c) ==
    IF c.k = "if"
    THEN { Token("elif", c.t, m) : m \in 1 .. Len(c.conds) }
         \cup { u \in {Part("else", c.t)} : c.els # 0 }
    ELSE {}

\* The branches that all open ifs have or will have.
OwesAll(fr) == UNION { Owes(fr[j]) : j \in DOMAIN fr }

\* The elifs and elses, there or owed.
Branches(s, fr) == { u \in Range(s) : u.k \in {"elif", "else"} } \cup OwesAll(fr)

\* What is known of the source so far.
View(s, fr) ==
    [E |-> Rules(s), T |-> Branches(s, fr), L |-> Len(s), R |-> Range(s) \cup {Begin}]

\* No token is there twice.
SourceOK(s) ==
    /\ s \in Seq(Tok)
    /\ \A q \in DOMAIN s : s[q].c \in 1 .. Len(s) /\ s[q].k \notin {"begin", "done"}
    /\ \A q, r \in DOMAIN s : s[q] = s[r] => q = r

\* The source after one more token.
LEMMA SourceAppend ==
    ASSUME NEW s \in Seq(Tok), NEW tok \in Tok
    PROVE  /\ Append(s, tok) \in Seq(Tok) /\ Len(s) \in Nat
           /\ DOMAIN s = 1 .. Len(s) /\ DOMAIN Append(s, tok) = 1 .. Len(s) + 1
           /\ Len(Append(s, tok)) = Len(s) + 1
           /\ \A q \in 1 .. Len(s) : Append(s, tok)[q] = s[q]
           /\ Append(s, tok)[Len(s) + 1] = tok
           /\ Append(s, tok) # << >>
OBVIOUS

\* Its tokens.
LEMMA RangeAppend ==
    ASSUME NEW s \in Seq(Tok), NEW tok \in Tok
    PROVE  Range(Append(s, tok)) = Range(s) \cup {tok} /\ Range(s) \subseteq Tok
<1>1. PICK e : e = Append(s, tok)
  BY Zenon
<1>2. PICK n : n = Len(s)
  OBVIOUS
<1>3. /\ n \in Nat /\ DOMAIN s = 1 .. n /\ DOMAIN e = 1 .. n + 1
      /\ (\A q \in 1 .. n : e[q] = s[q]) /\ e[n + 1] = tok
  BY <1>1, <1>2, SourceAppend
<1>4. \A q \in 1 .. n + 1 : q \in 1 .. n \/ q = n + 1
  BY <1>3
<1>5. n + 1 \in 1 .. n + 1 /\ 1 .. n \subseteq 1 .. n + 1
  BY <1>3
<1>6. Range(e) \subseteq Range(s) \cup {tok}
  BY <1>3, <1>4 DEF Range
<1>7. Range(s) \cup {tok} \subseteq Range(e)
  BY <1>3, <1>5 DEF Range
<1>8. Range(s) \subseteq Tok
  BY <1>3 DEF Range
<1> QED BY <1>1, <1>6, <1>7, <1>8

\* A new token keeps the tokens apart.
LEMMA SourceGrows ==
    ASSUME NEW s, SourceOK(s), NEW tok \in Tok, tok.c \in 1 .. Len(s) + 1,
           tok.k \notin {"begin", "done"}, tok \notin Range(s)
    PROVE  SourceOK(Append(s, tok))
<1>1. PICK e, n : e = Append(s, tok) /\ n = Len(s)
  BY Zenon
<1>2. s \in Seq(Tok)
  BY DEF SourceOK
<1>3. /\ n \in Nat /\ DOMAIN s = 1 .. n /\ DOMAIN e = 1 .. n + 1 /\ e \in Seq(Tok)
      /\ (\A q \in 1 .. n : e[q] = s[q]) /\ e[n + 1] = tok /\ Len(e) = n + 1
  BY <1>1, <1>2, SourceAppend
<1>4. \A q \in 1 .. n + 1 : q \in 1 .. n \/ q = n + 1
  BY <1>3
<1>5. \A q \in 1 .. n : s[q] # tok /\ s[q].c \in 1 .. n + 1 /\ s[q].k \notin {"begin", "done"}
  <2>1. 1 .. n \subseteq 1 .. n + 1
    BY <1>3
  <2> QED BY <1>1, <1>3, <2>1 DEF SourceOK, Range
<1>6. \A q \in DOMAIN e : e[q].c \in 1 .. Len(e) /\ e[q].k \notin {"begin", "done"}
  BY <1>1, <1>3, <1>4, <1>5
<1>7. \A q, r \in 1 .. n : s[q] = s[r] => q = r
  BY <1>3, Zenon DEF SourceOK
<1>8. \A q, r \in DOMAIN e : e[q] = e[r] => q = r
  BY <1>3, <1>4, <1>5, <1>7
<1> QED BY <1>1, <1>3, <1>6, <1>8 DEF SourceOK

\* A new token adds the move to it, and its own if it only leads on.
LEMMA RulesGrow ==
    ASSUME NEW s \in Seq(Tok), NEW tok \in Tok
    PROVE  /\ Rules(s) \subseteq Rules(Append(s, tok))
           /\ <<After(LastTok(s)), Arrive(tok)>> \in Rules(Append(s, tok))
           /\ tok.k \in Passing => <<At(tok), Leads(tok)>> \in Rules(Append(s, tok))
           /\ LastTok(Append(s, tok)) = tok
<1>1. PICK e, n : e = Append(s, tok) /\ n = Len(s)
  BY Zenon
<1>2. /\ n \in Nat /\ DOMAIN s = 1 .. n /\ DOMAIN e = 1 .. n + 1 /\ Len(e) = n + 1 /\ e # << >>
      /\ (\A q \in 1 .. n : e[q] = s[q]) /\ e[n + 1] = tok
  BY <1>1, SourceAppend
<1>3. n + 1 \in 1 .. n + 1 /\ 1 .. n \subseteq 1 .. n + 1 /\ n + 1 - 1 = n
  BY <1>2
<1>4. \A q \in 1 .. n : Prev(e, q) = Prev(s, q)
  <2>1. \A q \in 1 .. n : q # 1 => q - 1 \in 1 .. n
    BY <1>2
  <2> QED BY <1>2, <2>1 DEF Prev
<1>5. Prev(e, n + 1) = LastTok(s)
  <2>1. CASE s = << >>
    BY <1>1, <1>2, <2>1 DEF Prev, LastTok
  <2>2. CASE s # << >>
    <3>1. n # 0 /\ n \in 1 .. n /\ n + 1 # 1
      BY <1>1, <1>2, <2>2
    <3> QED BY <1>1, <1>2, <1>3, <2>2, <3>1 DEF Prev, LastTok
  <2> QED BY <2>1, <2>2
<1>6. ASSUME NEW z \in Rules(s) PROVE z \in Rules(e)
  <2>1. CASE \E q \in DOMAIN s : z = <<After(Prev(s, q)), Arrive(s[q])>>
    BY <1>2, <1>3, <1>4, <2>1 DEF Rules
  <2>2. CASE \E q \in DOMAIN s : s[q].k \in Passing /\ z = <<At(s[q]), Leads(s[q])>>
    BY <1>2, <1>3, <2>2 DEF Rules
  <2> QED BY <1>6, <2>1, <2>2 DEF Rules
<1>7. <<After(LastTok(s)), Arrive(tok)>> \in Rules(e)
  BY <1>2, <1>3, <1>5 DEF Rules
<1>8. tok.k \in Passing => <<At(tok), Leads(tok)>> \in Rules(e)
  BY <1>2, <1>3 DEF Rules
<1>9. LastTok(e) = tok
  BY <1>2 DEF LastTok
<1> QED BY <1>1, <1>6, <1>7, <1>8, <1>9

\* What a new token does to what is known of the source.
LEMMA ViewGrows ==
    ASSUME NEW s, SourceOK(s), NEW tok \in Tok, NEW fr, NEW fs,
           \A u : u.c \in 1 .. Len(s) => (u \in Branches(s, fr) <=> u \in Branches(Append(s, tok), fs)),
           NEW V, V = View(s, fr), NEW W, W = View(Append(s, tok), fs)
    PROVE  /\ Grows(V, W)
           /\ Same(W.E, After(LastTok(s)), Arrive(tok))
           /\ tok.k \in Passing => Same(W.E, At(tok), Leads(tok))
           /\ W.R = V.R \cup {tok} /\ V.R = Range(s) \cup {Begin} /\ V.L = Len(s) /\ W.L = Len(s) + 1
           /\ V.T = Branches(s, fr) /\ W.T = Branches(Append(s, tok), fs)
           /\ LastTok(Append(s, tok)) = tok
<1>1. s \in Seq(Tok)
  BY DEF SourceOK
<1>2. /\ V.E = Rules(s) /\ V.T = Branches(s, fr) /\ V.L = Len(s) /\ V.R = Range(s) \cup {Begin}
      /\ W.E = Rules(Append(s, tok)) /\ W.T = Branches(Append(s, tok), fs)
      /\ W.L = Len(Append(s, tok)) /\ W.R = Range(Append(s, tok)) \cup {Begin}
  BY DEF View
<1>3. V.L \in Nat /\ W.L = V.L + 1
  BY <1>1, <1>2, SourceAppend
<1>4. W.R = V.R \cup {tok}
  BY <1>1, <1>2, RangeAppend
<1>5. ASSUME NEW u \in Tok, u.c \in 1 .. V.L PROVE OtherwiseIn(W.T, u) = OtherwiseIn(V.T, u)
  <2>1. Token("elif", u.c, u.n + 1).c = u.c /\ Part("else", u.c).c = u.c
    BY DEF Token, Part
  <2>2. /\ Token("elif", u.c, u.n + 1) \in V.T <=> Token("elif", u.c, u.n + 1) \in W.T
        /\ Part("else", u.c) \in V.T <=> Part("else", u.c) \in W.T
    BY <1>2, <1>5, <2>1
  <2> QED BY <2>2 DEF OtherwiseIn
<1>9. /\ Rules(s) \subseteq Rules(Append(s, tok))
      /\ <<After(LastTok(s)), Arrive(tok)>> \in Rules(Append(s, tok))
      /\ tok.k \in Passing => <<At(tok), Leads(tok)>> \in Rules(Append(s, tok))
      /\ LastTok(Append(s, tok)) = tok
  BY <1>1, RulesGrow, Zenon
<1>6. Grows(V, W)
  <2>1. V.E \subseteq W.E
    BY <1>2, <1>9
  <2> QED BY <1>3, <1>4, <1>5, <2>1 DEF Grows
<1>7. Same(W.E, After(LastTok(s)), Arrive(tok))
  BY <1>2, <1>9, SameMove
<1>8. tok.k \in Passing => Same(W.E, At(tok), Leads(tok))
  BY <1>2, <1>9, SameMove
<1> QED BY <1>1, <1>2, <1>3, <1>4, <1>6, <1>7, <1>8, <1>9

\* Block b is made for place p.
NameIs(g, b, p) == b \in DOMAIN g.blocks /\ g.blocks[b].name = p

\* The frame of a while: its blocks, and its end is still to come.
WhileOK(s, g, c) ==
    /\ c.k = "while"
    /\ NameIs(g, c.cond, At(Part("while", c.t)))
    /\ NameIs(g, c.end, After(Part("endwhile", c.t)))
    /\ Part("endwhile", c.t) \notin Range(s)

\* The frame of an if, field by field.
IfFrame(t, body, conds, bodies, els, end, i, inElse) ==
    [k |-> "if", t |-> t, body |-> body, conds |-> conds, bodies |-> bodies,
     els |-> els, end |-> end, i |-> i, inElse |-> inElse]

\* The frame of an if: its blocks, and the parts that are there and still to
\* come.
IfOK(s, g, c) ==
    /\ c = IfFrame(c.t, c.body, c.conds, c.bodies, c.els, c.end, c.i, c.inElse)
    /\ c.i \in Nat /\ Len(c.conds) \in Nat /\ c.i <= Len(c.conds)
    /\ \A m \in 1 .. Len(c.conds) : /\ NameIs(g, c.conds[m], At(Token("elif", c.t, m)))
                                    /\ NameIs(g, c.bodies[m], After(Token("elif", c.t, m)))
    /\ c.els # 0 => NameIs(g, c.els, After(Part("else", c.t)))
    /\ c.inElse => c.els # 0
    /\ NameIs(g, c.end, After(Part("endif", c.t)))
    /\ \A m \in Nat : Token("elif", c.t, m) \in Range(s) <=> m \in 1 .. c.i
    /\ Part("else", c.t) \in Range(s) <=> c.inElse
    /\ Part("endif", c.t) \notin Range(s)

\* A frame of either kind.
FrameOK(s, g, c) == c.t \in 1 .. Len(s) /\ (WhileOK(s, g, c) \/ IfOK(s, g, c))

\* The frames, each for a statement of its own.
FramesOK(s, fr, g) ==
    /\ \E S : fr \in Seq(S)
    /\ \A j \in DOMAIN fr : FrameOK(s, g, fr[j])
    /\ \A j, l \in DOMAIN fr : fr[j].t = fr[l].t => j = l

\* Blocks keep the place they are made for.
LEMMA NameKept ==
    ASSUME NEW g, NEW h, Keeps(g, h), NEW b, NEW p, NameIs(g, b, p) PROVE NameIs(h, b, p)
BY DEF Keeps, NameIs

\* The fields of a token.
LEMMA PartFields ==
    ASSUME NEW k, NEW c, NEW n
    PROVE  /\ Token(k, c, n).k = k /\ Token(k, c, n).c = c /\ Token(k, c, n).n = n
           /\ Part(k, c).k = k /\ Part(k, c).c = c /\ Part(k, c).n = 0
BY DEF Token, Part

\* A frame is not concerned with the tokens of other statements.
LEMMA FrameKept ==
    ASSUME NEW s \in Seq(Tok), NEW g, NEW h, Keeps(g, h), NEW tok \in Tok, NEW c, FrameOK(s, g, c),
           tok.c # c.t \/ tok.k \notin {"elif", "else", "endif", "endwhile"}
    PROVE  FrameOK(Append(s, tok), h, c)
<1>1. /\ \A m : Token("elif", c.t, m) # tok
      /\ Part("else", c.t) # tok /\ Part("endif", c.t) # tok /\ Part("endwhile", c.t) # tok
  <2>1. \A m : Token("elif", c.t, m).c = c.t /\ Token("elif", c.t, m).k = "elif"
    BY DEF Token
  <2>2. /\ Part("else", c.t).c = c.t /\ Part("else", c.t).k = "else"
        /\ Part("endif", c.t).c = c.t /\ Part("endif", c.t).k = "endif"
        /\ Part("endwhile", c.t).c = c.t /\ Part("endwhile", c.t).k = "endwhile"
    BY DEF Token, Part
  <2> QED BY <2>1, <2>2
<1>2. /\ \A m : Token("elif", c.t, m) \in Range(Append(s, tok)) <=> Token("elif", c.t, m) \in Range(s)
      /\ Part("else", c.t) \in Range(Append(s, tok)) <=> Part("else", c.t) \in Range(s)
      /\ Part("endif", c.t) \in Range(Append(s, tok)) <=> Part("endif", c.t) \in Range(s)
      /\ Part("endwhile", c.t) \in Range(Append(s, tok)) <=> Part("endwhile", c.t) \in Range(s)
  BY <1>1, RangeAppend
<1>3. c.t \in 1 .. Len(Append(s, tok))
  <2>1. Len(Append(s, tok)) = Len(s) + 1 /\ Len(s) \in Nat
    BY SourceAppend
  <2> QED BY <2>1 DEF FrameOK
<1>4. CASE WhileOK(s, g, c)
  BY <1>2, <1>3, <1>4, NameKept DEF FrameOK, WhileOK
<1>5. CASE IfOK(s, g, c)
  <2>1. /\ c = IfFrame(c.t, c.body, c.conds, c.bodies, c.els, c.end, c.i, c.inElse)
        /\ c.i \in Nat /\ Len(c.conds) \in Nat /\ c.i <= Len(c.conds)
        /\ \A m \in Nat : Token("elif", c.t, m) \in Range(Append(s, tok)) <=> m \in 1 .. c.i
        /\ Part("else", c.t) \in Range(Append(s, tok)) <=> c.inElse
        /\ c.inElse => c.els # 0
        /\ Part("endif", c.t) \notin Range(Append(s, tok))
    BY <1>2, <1>5, Zenon DEF IfOK
  <2>2. \A m \in 1 .. Len(c.conds) : /\ NameIs(h, c.conds[m], At(Token("elif", c.t, m)))
                                     /\ NameIs(h, c.bodies[m], After(Token("elif", c.t, m)))
    BY <1>5, NameKept, Zenon DEF IfOK
  <2>3. /\ c.els # 0 => NameIs(h, c.els, After(Part("else", c.t)))
        /\ NameIs(h, c.end, After(Part("endif", c.t)))
    BY <1>5, NameKept, Zenon DEF IfOK
  <2>4. IfOK(Append(s, tok), h, c)
    BY <2>1, <2>2, <2>3, Zenon DEF IfOK
  <2> QED BY <1>3, <2>4 DEF FrameOK
<1> QED BY <1>4, <1>5 DEF FrameOK

\* The frames under the innermost one.
LEMMA FramesPush ==
    ASSUME NEW s \in Seq(Tok), NEW g, NEW h, Keeps(g, h), NEW tok \in Tok, NEW fr, FramesOK(s, fr, g),
           tok.c = Len(s) + 1, NEW c, c.t = Len(s) + 1, FrameOK(Append(s, tok), h, c)
    PROVE  /\ FramesOK(Append(s, tok), Append(fr, c), h)
           /\ OwesAll(Append(fr, c)) = OwesAll(fr) \cup Owes(c)
<1>1. PICK S : fr \in Seq(S)
  BY DEF FramesOK
<1>2. PICK U : U = S \cup {c}
  BY Zenon
<1>3. fr \in Seq(U) /\ c \in U
  BY <1>1, <1>2
<1>4. PICK fs, n : fs = Append(fr, c) /\ n = Len(fr)
  BY Zenon
<1>5. /\ fs \in Seq(U) /\ n \in Nat /\ DOMAIN fr = 1 .. n /\ DOMAIN fs = 1 .. n + 1
      /\ (\A j \in 1 .. n : fs[j] = fr[j]) /\ fs[n + 1] = c
  BY <1>3, <1>4
<1>6. \A j \in 1 .. n + 1 : j \in 1 .. n \/ j = n + 1
  BY <1>5
<1>7. n + 1 \in 1 .. n + 1 /\ 1 .. n \subseteq 1 .. n + 1
  BY <1>5
<1>8. Len(s) \in Nat
  OBVIOUS
<1>9. \A j \in 1 .. n : FrameOK(s, g, fr[j]) /\ fr[j].t # Len(s) + 1
  <2>1. \A j \in 1 .. n : FrameOK(s, g, fr[j]) /\ fr[j].t \in 1 .. Len(s)
    BY <1>5, Zenon DEF FramesOK, FrameOK
  <2> QED BY <1>8, <2>1
<1>10. \A j \in 1 .. n : FrameOK(Append(s, tok), h, fr[j])
  BY <1>9, FrameKept
<1>11. \A j \in DOMAIN fs : FrameOK(Append(s, tok), h, fs[j])
  BY <1>5, <1>6, <1>10
<1>12. \A j, l \in 1 .. n : fr[j].t = fr[l].t => j = l
  BY <1>5, Zenon DEF FramesOK
<1>13. \A j, l \in DOMAIN fs : fs[j].t = fs[l].t => j = l
  BY <1>5, <1>6, <1>9, <1>12
<1>14. OwesAll(fs) = OwesAll(fr) \cup Owes(c)
  <2>1. OwesAll(fs) \subseteq OwesAll(fr) \cup Owes(c)
    BY <1>5, <1>6 DEF OwesAll
  <2>2. OwesAll(fr) \cup Owes(c) \subseteq OwesAll(fs)
    BY <1>5, <1>7 DEF OwesAll
  <2> QED BY <2>1, <2>2
<1> QED BY <1>4, <1>5, <1>11, <1>13, <1>14 DEF FramesOK

\* A statement that is no part of an if or a while leaves the frames as they
\* are.
LEMMA FramesSame ==
    ASSUME NEW s \in Seq(Tok), NEW g, NEW h, Keeps(g, h), NEW tok \in Tok, NEW fr, FramesOK(s, fr, g),
           tok.k \notin {"elif", "else", "endif", "endwhile"}
    PROVE  FramesOK(Append(s, tok), fr, h)
BY FrameKept DEF FramesOK

\* The innermost frame is closed.
LEMMA FramesPop ==
    ASSUME NEW s \in Seq(Tok), NEW g, NEW h, Keeps(g, h), NEW tok \in Tok, NEW fr, FramesOK(s, fr, g),
           fr # << >>, tok.c = fr[Len(fr)].t
    PROVE  /\ FramesOK(Append(s, tok), Front(fr), h)
           /\ OwesAll(fr) = OwesAll(Front(fr)) \cup Owes(fr[Len(fr)])
<1>1. PICK S : fr \in Seq(S)
  BY DEF FramesOK
<1>2. PICK fs, n : fs = Front(fr) /\ n = Len(fr)
  OBVIOUS
<1>3. n \in Nat /\ n # 0 /\ DOMAIN fr = 1 .. n /\ n - 1 \in Nat
  BY <1>1, <1>2
<1>4. fs = SubSeq(fr, 1, n - 1)
  BY <1>2 DEF Front
<1>5. fs \in Seq(S) /\ DOMAIN fs = 1 .. n - 1 /\ \A j \in 1 .. n - 1 : fs[j] = fr[j]
  <2>1. \A j \in 1 .. n - 1 : fr[j] \in S
    BY <1>1, <1>2, <1>3
  <2> QED BY <1>1, <1>2, <1>3, <1>4, <2>1
<1>6. 1 .. n - 1 \subseteq 1 .. n /\ n \notin 1 .. n - 1 /\ n \in 1 .. n
      /\ \A j \in 1 .. n : j \in 1 .. n - 1 \/ j = n
  BY <1>3
<1>7. \A j \in 1 .. n - 1 : FrameOK(s, g, fr[j]) /\ fr[j].t # tok.c
  BY <1>2, <1>3, <1>6, Zenon DEF FramesOK
<1>8. \A j \in DOMAIN fs : FrameOK(Append(s, tok), h, fs[j])
  BY <1>5, <1>7, FrameKept
<1>9. \A j, l \in DOMAIN fs : fs[j].t = fs[l].t => j = l
  BY <1>3, <1>5, <1>6 DEF FramesOK
<1>10. OwesAll(fr) = OwesAll(fs) \cup Owes(fr[n])
  <2>1. OwesAll(fr) \subseteq OwesAll(fs) \cup Owes(fr[n])
    BY <1>3, <1>5, <1>6 DEF OwesAll
  <2>2. OwesAll(fs) \cup Owes(fr[n]) \subseteq OwesAll(fr)
    BY <1>3, <1>5, <1>6 DEF OwesAll
  <2> QED BY <2>1, <2>2
<1> QED BY <1>2, <1>5, <1>8, <1>9, <1>10 DEF FramesOK

\* The innermost frame becomes d.
WithTop(fr, d) == [fr EXCEPT ![Len(fr)] = d]

\* The innermost frame is replaced, the others stay.
LEMMA FramesTop ==
    ASSUME NEW s \in Seq(Tok), NEW g, NEW h, Keeps(g, h), NEW tok \in Tok, NEW fr, FramesOK(s, fr, g),
           fr # << >>, tok.c = fr[Len(fr)].t, NEW d, d.t = tok.c, FrameOK(Append(s, tok), h, d),
           NEW fs, fs = WithTop(fr, d)
    PROVE  FramesOK(Append(s, tok), fs, h)
<1>1. PICK S : fr \in Seq(S)
  BY DEF FramesOK
<1>2. PICK U : U = S \cup {d}
  BY Zenon
<1>3. fr \in Seq(U) /\ d \in U
  BY <1>1, <1>2
<1>4. PICK n : fs = [fr EXCEPT ![Len(fr)] = d] /\ n = Len(fr)
  BY DEF WithTop
<1>5. n \in Nat /\ n \in 1 .. n /\ DOMAIN fr = 1 .. n
  BY <1>1, <1>4
<1>6. fs \in Seq(U)
  BY <1>3, <1>4, <1>5, ExceptSeq
<1>7. DOMAIN fs = 1 .. n /\ (\A j \in 1 .. n : j # n => fs[j] = fr[j]) /\ fs[n] = d
  BY <1>4, <1>5
<1>8. \A j \in 1 .. n : j # n => FrameOK(s, g, fr[j]) /\ fr[j].t # tok.c
  BY <1>4, <1>5 DEF FramesOK
<1>9. \A j \in DOMAIN fs : FrameOK(Append(s, tok), h, fs[j])
  BY <1>5, <1>7, <1>8, FrameKept
<1>10. \A j, l \in DOMAIN fs : fs[j].t = fs[l].t => j = l
  BY <1>4, <1>5, <1>7, <1>8 DEF FramesOK
<1> QED BY <1>6, <1>9, <1>10 DEF FramesOK

\* What is owed does not depend on which branch is being built.
LEMMA OwesTop ==
    ASSUME NEW s, NEW fr, NEW g, FramesOK(s, fr, g), fr # << >>, NEW d, Owes(d) = Owes(fr[Len(fr)]),
           NEW fs, fs = WithTop(fr, d)
    PROVE  OwesAll(fs) = OwesAll(fr)
<1>1. PICK S : fr \in Seq(S)
  BY DEF FramesOK
<1>2. PICK n : fs = [fr EXCEPT ![Len(fr)] = d] /\ n = Len(fr)
  BY DEF WithTop
<1>3. n \in Nat /\ n \in 1 .. n /\ DOMAIN fr = 1 .. n
  BY <1>1, <1>2
<1>4. DOMAIN fs = 1 .. n /\ (\A j \in 1 .. n : j # n => fs[j] = fr[j]) /\ fs[n] = d
  BY <1>2, <1>3
<1>5. \A j \in 1 .. n : Owes(fs[j]) = Owes(fr[j])
  BY <1>2, <1>3, <1>4
<1> QED BY <1>3, <1>4, <1>5 DEF OwesAll

-----------------------------------------------------------------------------
(* What holds while the function is built. *)

\* The entry and the exit.
BaseOK(g) == NameIs(g, Entry, After(Begin)) /\ NameIs(g, Exit, Done)

\* What holds between two statements.
BuildOK(s, fr, g) ==
    /\ SourceOK(s)
    /\ CodeOK(View(s, fr), g)
    /\ Arrives(View(s, fr), g, After(LastTok(s)))
    /\ UsesOK(g)
    /\ FramesOK(s, fr, g)
    /\ BaseOK(g)

\* The insert point may be said to be at any place that is the same.
LEMMA ArrivesSame ==
    ASSUME NEW V, NEW g, NEW p, NEW q, Arrives(V, g, p), Same(V.E, p, q) PROVE Arrives(V, g, q)
BY SameTrans DEF Arrives

\* The entry and the exit keep their places.
LEMMA BaseKept == ASSUME NEW g, NEW h, Keeps(g, h), BaseOK(g) PROVE BaseOK(h)
BY NameKept DEF BaseOK

\* The step of the source that every part of a statement makes.
LEMMA TokenAdded ==
    ASSUME NEW s, NEW fr, NEW g, BuildOK(s, fr, g), NEW tok, tok \in Tok, tok.c \in 1 .. Len(s) + 1,
           tok.k \notin {"begin", "done"}, tok \notin Range(s), NEW fs,
           \A u : u.c \in 1 .. Len(s) => (u \in Branches(s, fr) <=> u \in Branches(Append(s, tok), fs)),
           NEW W, W = View(Append(s, tok), fs)
    PROVE  /\ SourceOK(Append(s, tok)) /\ LastTok(Append(s, tok)) = tok
           /\ CodeOK(W, g) /\ Arrives(W, g, Arrive(tok))
           /\ tok.k \in Passing => Same(W.E, At(tok), Leads(tok))
           /\ W.R = Range(s) \cup {Begin, tok} /\ W.L = Len(s) + 1 /\ W.T = Branches(Append(s, tok), fs)
<1>1. SourceOK(s)
  BY DEF BuildOK
<1>2. SourceOK(Append(s, tok))
  BY <1>1, SourceGrows
<1>3. PICK V : V = View(s, fr)
  OBVIOUS
<1>4. /\ Grows(V, W)
      /\ Same(W.E, After(LastTok(s)), Arrive(tok))
      /\ tok.k \in Passing => Same(W.E, At(tok), Leads(tok))
      /\ W.R = V.R \cup {tok} /\ V.R = Range(s) \cup {Begin} /\ V.L = Len(s) /\ W.L = Len(s) + 1
      /\ V.T = Branches(s, fr) /\ W.T = Branches(Append(s, tok), fs)
      /\ LastTok(Append(s, tok)) = tok
  BY <1>1, <1>3, ViewGrows
<1>5. CodeOK(V, g) /\ Arrives(V, g, After(LastTok(s)))
  BY <1>3 DEF BuildOK
<1>6. CodeOK(W, g) /\ Arrives(W, g, After(LastTok(s)))
  BY <1>4, <1>5, CodeMore
<1>7. Arrives(W, g, Arrive(tok))
  BY <1>4, <1>6, ArrivesSame
<1>8. W.R = Range(s) \cup {Begin, tok}
  BY <1>4
<1> QED BY <1>2, <1>4, <1>6, <1>7, <1>8

\* What a step of the source and its blocks must show.
LEMMA TokenBuilt ==
    ASSUME NEW s, NEW fr, NEW g, BuildOK(s, fr, g), NEW tok, NEW fs,
           SourceOK(Append(s, tok)), LastTok(Append(s, tok)) = tok, NEW h,
           Reached(View(Append(s, tok), fs), g, h, After(tok)), FramesOK(Append(s, tok), fs, h)
    PROVE  BuildOK(Append(s, tok), fs, h)
BY BaseKept DEF BuildOK, Reached

\* The first token of a statement.
LEMMA StatementFresh ==
    ASSUME NEW s, SourceOK(s), NEW tok, tok.c = Len(s) + 1
    PROVE  tok \notin Range(s) /\ tok.c \in 1 .. Len(s) + 1 /\ Len(s) \in Nat
<1>1. s \in Seq(Tok) /\ Len(s) \in Nat
  BY DEF SourceOK
<1>2. \A q \in DOMAIN s : s[q].c # Len(s) + 1
  BY <1>1 DEF SourceOK
<1> QED BY <1>1, <1>2 DEF Range

\* Only an elif or an else is a branch.
LEMMA BranchesSame ==
    ASSUME NEW s, s \in Seq(Tok), NEW tok, tok \in Tok, tok.k \notin {"elif", "else"}, NEW fr
    PROVE  Branches(Append(s, tok), fr) = Branches(s, fr)
BY RangeAppend DEF Branches

\* Arriving at an elif or an else is arriving after the if.
LEMMA ArriveFacts ==
    ASSUME NEW tok
    PROVE  /\ tok.k \notin {"elif", "else"} => Arrive(tok) = At(tok)
           /\ tok.k \in {"elif", "else"} => Arrive(tok) = After(Part("endif", tok.c))
BY DEF Arrive

\* The first token of a statement: the source arrives before it.
LEMMA StatementAdded ==
    ASSUME NEW s, NEW fr, NEW g, BuildOK(s, fr, g), NEW tok, tok \in Tok, tok.c = Len(s) + 1,
           tok.k \notin {"begin", "done", "elif", "else", "endif", "endwhile"},
           NEW W, W = View(Append(s, tok), fr)
    PROVE  /\ SourceOK(Append(s, tok)) /\ LastTok(Append(s, tok)) = tok
           /\ CodeOK(W, g) /\ Arrives(W, g, At(tok))
           /\ tok.k \in Passing => Same(W.E, At(tok), Leads(tok))
           /\ tok \in W.R
           /\ \A h : Keeps(g, h) => FramesOK(Append(s, tok), fr, h)
<1>1. SourceOK(s) /\ s \in Seq(Tok) /\ FramesOK(s, fr, g)
  BY DEF BuildOK, SourceOK
<1>2. tok \notin Range(s) /\ tok.c \in 1 .. Len(s) + 1
  BY <1>1, StatementFresh
<1>3. Branches(Append(s, tok), fr) = Branches(s, fr)
  BY <1>1, BranchesSame
<1>4. Arrive(tok) = At(tok)
  BY ArriveFacts
<1>5. /\ SourceOK(Append(s, tok)) /\ LastTok(Append(s, tok)) = tok
      /\ CodeOK(W, g) /\ Arrives(W, g, Arrive(tok))
      /\ tok.k \in Passing => Same(W.E, At(tok), Leads(tok))
      /\ W.R = Range(s) \cup {Begin, tok}
  BY <1>2, <1>3, TokenAdded
<1>6. \A h : Keeps(g, h) => FramesOK(Append(s, tok), fr, h)
  BY <1>1, FramesSame
<1> QED BY <1>4, <1>5, <1>6

\* The instruction of an expression statement or a return.
LEMMA InstrFacts ==
    ASSUME NEW k \in Simple, NEW c \in Nat
    PROVE  /\ Part(k, c) \in Tok /\ Part(k, c).k = k /\ Part(k, c).c = c
           /\ Instr(Part(k, c)) \in Ins /\ Instr(Part(k, c)).k = k
           /\ Instr(Part(k, c)).t = Part(k, c)
<1>1. k \in Kinds
  BY DEF Simple, Kinds
<1>2. Part(k, c) \in Tok /\ Part(k, c).k = k /\ Part(k, c).c = c
  BY <1>1 DEF Part, Token, Tok
<1> QED BY <1>1, <1>2 DEF Instr, Ins

\* An expression statement, or a return before its jump.
LEMMA SimpleAdded ==
    ASSUME NEW s, NEW fr, NEW g, BuildOK(s, fr, g), NEW k, k \in Simple,
           NEW tok, tok = Part(k, Len(s) + 1), NEW W, W = View(Append(s, tok), fr),
           NEW h, h = Emit(g, Instr(tok))
    PROVE  /\ SourceOK(Append(s, tok)) /\ LastTok(Append(s, tok)) = tok
           /\ CodeOK(W, h) /\ Arrives(W, h, IF k = "return" THEN Done ELSE After(tok))
           /\ Keeps(g, h) /\ h.x = g.x /\ h.cur = g.cur /\ tok \in W.R /\ tok \in Tok
           /\ h.blocks[g.cur].ins = Append(g.blocks[g.cur].ins, Instr(tok))
           /\ (g.x # 0 \/ k \notin {"set", "get"}) => UsesOK(h)
           /\ \A e : Keeps(g, e) => FramesOK(Append(s, tok), fr, e)
<1>1. SourceOK(s) /\ WellFormed(g) /\ UsesOK(g)
  BY DEF BuildOK, CodeOK
<1>2. Len(s) + 1 \in Nat
  BY <1>1 DEF SourceOK
<1>3. /\ tok \in Tok /\ tok.k = k /\ tok.c = Len(s) + 1
      /\ Instr(tok) \in Ins /\ Instr(tok).k = k /\ Instr(tok).t = tok
  BY <1>2, InstrFacts
<1>4. tok.k \notin {"begin", "done", "elif", "else", "endif", "endwhile"}
  BY <1>3 DEF Simple
<1>5. /\ SourceOK(Append(s, tok)) /\ LastTok(Append(s, tok)) = tok
      /\ CodeOK(W, g) /\ Arrives(W, g, At(tok)) /\ tok \in W.R
      /\ \A e : Keeps(g, e) => FramesOK(Append(s, tok), fr, e)
  BY <1>3, <1>4, StatementAdded
<1>6. PICK I : I = Instr(tok)
  OBVIOUS
<1>7. Fits(W, g, At(tok), I)
  BY <1>3, <1>6, SameRefl DEF Fits
<1>8. CodeOK(W, h) /\ Arrives(W, h, NextPlace(I))
  BY <1>3, <1>5, <1>6, <1>7, EmitCode
<1>9. NextPlace(I) = IF k = "return" THEN Done ELSE After(tok)
  BY <1>3, <1>6 DEF NextPlace
<1>10. /\ Keeps(g, h) /\ h.x = g.x /\ h.cur = g.cur
       /\ h.blocks[g.cur].ins = Append(g.blocks[g.cur].ins, I)
  BY <1>1, <1>3, <1>6, EmitFacts, Zenon
<1>11. (g.x # 0 \/ k \notin {"set", "get"}) => UsesOK(h)
  BY <1>1, <1>3, <1>6, UsesEmit
<1> QED BY <1>3, <1>5, <1>6, <1>8, <1>9, <1>10, <1>11, Zenon

\* Only the place of the variable changes.
Placed(h, v) == [h EXCEPT !.x = v]

\* Setting the place of x changes no block.
LEMMA PlacedFacts ==
    ASSUME NEW h, WellFormed(h), NEW v \in Int, NEW e, e = Placed(h, v)
    PROVE  e.blocks = h.blocks /\ e.cur = h.cur /\ e.x = v /\ Keeps(h, e) /\ KeepsBut(h, e, {})
<1>1. h \in Fn /\ Len(h.blocks) \in Nat
  BY DEF WellFormed, Fn
<1>2. e \in Fn /\ e.blocks = h.blocks /\ e.cur = h.cur /\ e.x = v
  BY <1>1 DEF Fn, Placed
<1> QED BY <1>1, <1>2 DEF Keeps, KeepsBut, WellFormed

\* So the blocks still fit.
LEMMA PlacedCode ==
    ASSUME NEW V, NEW h, CodeOK(V, h), NEW p, Arrives(V, h, p),
           NEW e, e.blocks = h.blocks, e.cur = h.cur, Keeps(h, e)
    PROVE  CodeOK(V, e) /\ Arrives(V, e, p)
BY BlockKept, Zenon DEF CodeOK, Keeps, Arrives

\* An assignment, which is the first one or not.
LEMMA AssignBuilds ==
    ASSUME NEW s, NEW fr, NEW g, BuildOK(s, fr, g), NEW tok, tok = Part("set", Len(s) + 1),
           NEW h, h = Emit(g, Instr(tok)),
           NEW e, e = Placed(h, IF h.x = 0 THEN g.cur ELSE h.x)
    PROVE  BuildOK(Append(s, tok), fr, e)
<1>1. PICK W, v : W = View(Append(s, tok), fr) /\ v = IF h.x = 0 THEN g.cur ELSE h.x
  OBVIOUS
<1>2. WellFormed(g) /\ UsesOK(g) /\ BaseOK(g)
  BY DEF BuildOK, CodeOK
<1>3. "set" \in Simple /\ "set" # "return"
  BY DEF Simple
<1>4. /\ SourceOK(Append(s, tok)) /\ LastTok(Append(s, tok)) = tok
      /\ CodeOK(W, h) /\ Arrives(W, h, After(tok))
      /\ Keeps(g, h) /\ h.x = g.x /\ h.cur = g.cur
      /\ h.blocks[g.cur].ins = Append(g.blocks[g.cur].ins, Instr(tok))
      /\ g.x # 0 => UsesOK(h)
      /\ \A d : Keeps(g, d) => FramesOK(Append(s, tok), fr, d)
  BY <1>1, <1>3, SimpleAdded
<1>5. e = Placed(h, v)
  BY <1>1
<1>6. g.cur \in DOMAIN g.blocks /\ g.cur \in Nat /\ g.cur # 0 /\ WellFormed(h) /\ h.x \in Int
  <2>1. g.cur \in DOMAIN g.blocks /\ DOMAIN g.blocks = 1 .. Len(g.blocks)
    BY <1>2, BlockTyped DEF WellFormed
  <2>2. WellFormed(h) /\ h.x \in Int
    BY <1>4 DEF Keeps, WellFormed, Fn
  <2> QED BY <2>1, <2>2
<1>7. v \in Int
  BY <1>1, <1>6
<1>8. e.blocks = h.blocks /\ e.cur = h.cur /\ e.x = v /\ Keeps(h, e)
  BY <1>5, <1>6, <1>7, PlacedFacts
<1>9. CodeOK(W, e) /\ Arrives(W, e, After(tok)) /\ Keeps(g, e)
  BY <1>2, <1>4, <1>8, PlacedCode, KeepsTrans
<1>10. UsesOK(e)
  <2>1. CASE g.x = 0
    <3>1. PICK q, I : q = g.blocks[g.cur].ins /\ I = Instr(tok)
      OBVIOUS
    <3>2. q \in Seq(Ins)
      BY <1>2, <1>6, <3>1, BlockTyped
    <3>3. I \in Ins /\ I.k = "set"
      <4>1. Len(s) + 1 \in Nat
        BY DEF BuildOK, SourceOK
      <4> QED BY <1>3, <3>1, <4>1, InstrFacts
    <3>4. \A i \in DOMAIN q : q[i].k \notin {"set", "get"}
      BY <1>2, <1>6, <2>1, <3>1 DEF UsesOK, Uses
    <3>5. /\ Len(q) \in Nat /\ DOMAIN q = 1 .. Len(q) /\ DOMAIN Append(q, I) = 1 .. Len(q) + 1
          /\ Append(q, I)[Len(q) + 1] = I
          /\ \A j \in 1 .. Len(q) : Append(q, I)[j] = q[j]
      BY <3>2, <3>3, InsAppended
    <3>6. Len(q) + 1 \in 1 .. Len(q) + 1 /\ Len(q) + 1 - 1 = Len(q)
      BY <3>5
    <3>7. SetFirst(Append(q, I))
      BY <3>3, <3>4, <3>5, <3>6 DEF SetFirst
    <3>8. e.x = g.cur /\ e.x # 0 /\ e.x \in DOMAIN e.blocks
      BY <1>1, <1>4, <1>6, <1>8, <2>1 DEF Keeps
    <3> QED BY <1>4, <1>8, <3>1, <3>7, <3>8, Zenon DEF UsesOK
  <2>2. CASE g.x # 0
    <3>1. e.x = h.x
      BY <1>1, <1>4, <1>8, <2>2
    <3> QED BY <1>4, <1>8, <2>2, <3>1, Zenon DEF UsesOK, Uses
  <2> QED BY <2>1, <2>2
<1>11. FramesOK(Append(s, tok), fr, e) /\ BaseOK(e)
  BY <1>2, <1>4, <1>9, BaseKept
<1> QED BY <1>1, <1>4, <1>9, <1>10, <1>11 DEF BuildOK

\* The first assignment, when it takes the place of an argument.
LEMMA TakePlaceBuilds ==
    ASSUME NEW s, NEW fr, NEW g, BuildOK(s, fr, g), NEW tok, tok = Part("copy", Len(s) + 1),
           NEW h, h = Emit(g, Instr(tok)), NEW e, e = Placed(h, Argument)
    PROVE  BuildOK(Append(s, tok), fr, e)
<1>1. PICK W : W = View(Append(s, tok), fr)
  OBVIOUS
<1>2. WellFormed(g) /\ BaseOK(g)
  BY DEF BuildOK, CodeOK
<1>3. "copy" \in Simple /\ "copy" # "return"
  BY DEF Simple
<1>4. /\ SourceOK(Append(s, tok)) /\ LastTok(Append(s, tok)) = tok
      /\ CodeOK(W, h) /\ Arrives(W, h, After(tok)) /\ Keeps(g, h)
      /\ \A d : Keeps(g, d) => FramesOK(Append(s, tok), fr, d)
  BY <1>1, <1>3, SimpleAdded
<1>5. WellFormed(h) /\ Argument \in Int /\ Argument # 0
  BY <1>4 DEF Keeps, Argument
<1>6. e.blocks = h.blocks /\ e.cur = h.cur /\ e.x = Argument /\ Keeps(h, e)
  BY <1>5, PlacedFacts
<1>7. CodeOK(W, e) /\ Arrives(W, e, After(tok)) /\ Keeps(g, e)
  BY <1>2, <1>4, <1>6, PlacedCode, KeepsTrans
<1>8. UsesOK(e)
  BY <1>5, <1>6 DEF UsesOK
<1>9. FramesOK(Append(s, tok), fr, e) /\ BaseOK(e)
  BY <1>2, <1>4, <1>7, BaseKept
<1> QED BY <1>1, <1>4, <1>7, <1>8, <1>9 DEF BuildOK

\* A read of x, which has a place.
LEMMA ReadBuilds ==
    ASSUME NEW s, NEW fr, NEW g, BuildOK(s, fr, g), NEW tok, tok = Part("get", Len(s) + 1),
           g.x # 0, NEW h, h = Emit(g, Instr(tok))
    PROVE  BuildOK(Append(s, tok), fr, h)
<1>1. PICK W : W = View(Append(s, tok), fr)
  OBVIOUS
<1>2. "get" \in Simple /\ "get" # "return"
  BY DEF Simple
<1>3. /\ SourceOK(Append(s, tok)) /\ LastTok(Append(s, tok)) = tok
      /\ CodeOK(W, h) /\ Arrives(W, h, After(tok)) /\ UsesOK(h)
      /\ Keeps(g, h) /\ FramesOK(Append(s, tok), fr, h)
  BY <1>1, <1>2, SimpleAdded
<1>4. BaseOK(h)
  BY <1>3, BaseKept DEF BuildOK
<1> QED BY <1>1, <1>3, <1>4 DEF BuildOK

\* An expression on vectors.
LEMMA VectorBuilds ==
    ASSUME NEW s, NEW fr, NEW g, BuildOK(s, fr, g), NEW tok, tok = Part("vec", Len(s) + 1),
           NEW e, e = VectorBlocks(Emit(g, Instr(tok)), After(tok))
    PROVE  BuildOK(Append(s, tok), fr, e)
<1>1. PICK W, h : W = View(Append(s, tok), fr) /\ h = Emit(g, Instr(tok))
  OBVIOUS
<1>2. "vec" \in Simple /\ "vec" \notin {"return", "set", "get"}
  BY DEF Simple
<1>3. /\ SourceOK(Append(s, tok)) /\ LastTok(Append(s, tok)) = tok
      /\ CodeOK(W, h) /\ Arrives(W, h, After(tok)) /\ UsesOK(h)
      /\ Keeps(g, h) /\ tok \in W.R /\ tok \in Tok /\ h.x = g.x
      /\ \A d : Keeps(g, d) => FramesOK(Append(s, tok), fr, d)
  BY <1>1, <1>2, SimpleAdded
<1>4. After(tok) \in Place /\ After(tok).tok \in W.R
  BY <1>3, PlacesOfTok DEF After
<1>5. Reached(W, h, e, After(tok))
  BY <1>1, <1>3, <1>4, VectorReached
<1>6. WellFormed(g)
  BY DEF BuildOK, CodeOK
<1>7. Reached(W, g, h, After(tok))
  BY <1>3 DEF Reached
<1>8. Reached(W, g, e, After(tok))
  BY <1>5, <1>6, <1>7, ReachedTrans
<1>9. FramesOK(Append(s, tok), fr, e)
  BY <1>3, <1>8 DEF Reached
<1> QED BY <1>1, <1>3, <1>8, <1>9, TokenBuilt

\* A return: the value, then the jump to the exit.
LEMMA ReturnBuilds ==
    ASSUME NEW s, NEW fr, NEW g, BuildOK(s, fr, g), NEW tok, tok = Part("return", Len(s) + 1),
           NEW e, e = Emit(Emit(g, Instr(tok)), Br(Exit))
    PROVE  BuildOK(Append(s, tok), fr, e)
<1>1. PICK W, h : W = View(Append(s, tok), fr) /\ h = Emit(g, Instr(tok))
  OBVIOUS
<1>2. "return" \in Simple /\ "return" \notin {"set", "get"}
  BY DEF Simple
<1>3. /\ SourceOK(Append(s, tok)) /\ LastTok(Append(s, tok)) = tok
      /\ CodeOK(W, h) /\ Arrives(W, h, Done) /\ UsesOK(h)
      /\ Keeps(g, h) /\ h.x = g.x
      /\ \A d : Keeps(g, d) => FramesOK(Append(s, tok), fr, d)
  BY <1>1, <1>2, SimpleAdded
<1>4. Exit \in DOMAIN h.blocks /\ h.blocks[Exit].name = Done
  BY <1>3, BaseKept DEF BuildOK, BaseOK, NameIs
<1>5. Same(W.E, Done, h.blocks[Exit].name)
  BY <1>4, SameRefl
<1>6. CodeOK(W, e) /\ Arrives(W, e, After(tok)) /\ Keeps(h, e) /\ e.x = h.x /\ UsesOK(e)
  BY <1>1, <1>3, <1>4, <1>5, BrCode, Zenon
<1>7. Reached(W, g, e, After(tok))
  BY <1>3, <1>6, KeepsTrans DEF Reached, BuildOK, CodeOK
<1>8. FramesOK(Append(s, tok), fr, e)
  BY <1>3, <1>7 DEF Reached
<1> QED BY <1>1, <1>3, <1>7, <1>8, TokenBuilt

\* A set of positions has a last one.
LEMMA LastPosition ==
    ASSUME NEW n \in Nat, NEW S \in SUBSET (1 .. n), S # {}
    PROVE  \E i \in S : \A j \in S : j <= i
<1> DEFINE D == { n - i : i \in S }
<1>1. D \in SUBSET Nat /\ D # {}
  <2>1. \A i \in S : n - i \in Nat
    OBVIOUS
  <2> QED BY <2>1, Zenon
<1>2. PICK d \in D : \A j \in D : ~ (<<j, d>> \in OpToRel(<, Nat))
  BY <1>1, NatLessThanWellFounded, WFMin, Zenon
<1>3. \A j \in D : ~ (j < d)
  BY <1>1, <1>2, Zenon DEF OpToRel
<1>4. PICK i \in S : d = n - i
  OBVIOUS
<1>5. \A j \in S : ~ (n - j < n - i)
  BY <1>3, <1>4, Zenon
<1>6. \A j \in S : j <= i
  <2>1. ASSUME NEW j \in S PROVE j <= i
    <3>1. j \in Int /\ i \in Int
      OBVIOUS
    <3>2. ~ (n - j < n - i)
      BY <1>5
    <3> HIDE DEF D
    <3> QED BY <3>1, <3>2
  <2> QED BY <2>1
<1> QED BY <1>6

\* The loops among the frames, and the innermost of them.
LoopsOf(fr) == { i \in DOMAIN fr : fr[i].k = "while" }
LastLoop(fr) == fr[CHOOSE i \in LoopsOf(fr) : \A j \in LoopsOf(fr) : j <= i]

\* The innermost loop is one of the frames.
LEMMA LastLoopFound ==
    ASSUME NEW s, NEW fr, NEW g, FramesOK(s, fr, g), LoopsOf(fr) # {}
    PROVE  WhileOK(s, g, LastLoop(fr)) /\ LastLoop(fr).t \in 1 .. Len(s)
<1>1. PICK S : fr \in Seq(S)
  BY DEF FramesOK
<1>2. PICK n \in Nat : DOMAIN fr = 1 .. n
  BY <1>1
<1>3. PICK M : M = LoopsOf(fr)
  OBVIOUS
<1>4. M \in SUBSET (1 .. n) /\ M # {}
  BY <1>2, <1>3 DEF LoopsOf
<1>5. PICK i : i = CHOOSE l \in M : \A j \in M : j <= l
  OBVIOUS
<1>6. i \in M
  BY <1>4, <1>5, LastPosition, Zenon
<1>7. LastLoop(fr) = fr[i]
  BY <1>3, <1>5 DEF LastLoop
<1>8. i \in DOMAIN fr /\ fr[i].k = "while"
  BY <1>3, <1>6 DEF LoopsOf
<1>9. FrameOK(s, g, fr[i])
  BY <1>8 DEF FramesOK
<1>10. ~IfOK(s, g, fr[i])
  <2>1. ASSUME IfOK(s, g, fr[i]) PROVE FALSE
    <3>1. fr[i].k = "if"
      <4>1. PICK c : c = fr[i]
        OBVIOUS
      <4>2. c = IfFrame(c.t, c.body, c.conds, c.bodies, c.els, c.end, c.i, c.inElse)
        BY <2>1, <4>1 DEF IfOK
      <4>3. \A t, b, cs, bs, e, d, m, z : IfFrame(t, b, cs, bs, e, d, m, z).k = "if"
        BY DEF IfFrame
      <4> QED BY <4>1, <4>2, <4>3
    <3> QED BY <1>8, <3>1
  <2> QED BY <2>1
<1> QED BY <1>7, <1>9, <1>10 DEF FrameOK

\* break and continue: a jump to where the source goes.
LEMMA LeaveBuilds ==
    ASSUME NEW s, NEW fr, NEW g, BuildOK(s, fr, g), NEW k, k \in {"break", "continue"},
           NEW n, n \in Nat, NEW tok, tok = Token(k, Len(s) + 1, n),
           NEW b, NameIs(g, b, Leads(tok)), NEW e, e = Emit(g, Br(b))
    PROVE  BuildOK(Append(s, tok), fr, e)
<1>1. PICK W : W = View(Append(s, tok), fr)
  OBVIOUS
<1>2. Len(s) + 1 \in Nat /\ k \in Kinds /\ WellFormed(g) /\ UsesOK(g)
  BY DEF BuildOK, SourceOK, Kinds, CodeOK
<1>3. tok \in Tok /\ tok.k = k /\ tok.c = Len(s) + 1
  BY <1>2, TokenIsTok, PartFields
<1>4. tok.k \notin {"begin", "done", "elif", "else", "endif", "endwhile"} /\ tok.k \in Passing
  BY <1>3 DEF Passing
<1>5. /\ SourceOK(Append(s, tok)) /\ LastTok(Append(s, tok)) = tok
      /\ CodeOK(W, g) /\ Arrives(W, g, At(tok)) /\ Same(W.E, At(tok), Leads(tok))
      /\ \A h : Keeps(g, h) => FramesOK(Append(s, tok), fr, h)
  BY <1>1, <1>3, <1>4, StatementAdded
<1>6. b \in DOMAIN g.blocks /\ Same(W.E, At(tok), g.blocks[b].name)
  BY <1>5 DEF NameIs
<1>7. CodeOK(W, e) /\ Arrives(W, e, After(tok)) /\ Keeps(g, e) /\ e.x = g.x /\ UsesOK(e)
  BY <1>2, <1>5, <1>6, BrCode, Zenon
<1>8. Reached(W, g, e, After(tok)) /\ FramesOK(Append(s, tok), fr, e)
  BY <1>5, <1>7 DEF Reached
<1> QED BY <1>1, <1>5, <1>8, TokenBuilt

\* A break jumps to the block after the innermost loop.
LEMMA BreakBuilds ==
    ASSUME NEW s, NEW fr, NEW g, BuildOK(s, fr, g), LoopsOf(fr) # {}, NEW c, c = LastLoop(fr),
           NEW tok, tok = Token("break", Len(s) + 1, c.t), NEW e, e = Emit(g, Br(c.end))
    PROVE  BuildOK(Append(s, tok), fr, e)
<1>1. WhileOK(s, g, c) /\ c.t \in 1 .. Len(s) /\ c.t \in Nat
  <2>1. WhileOK(s, g, c) /\ c.t \in 1 .. Len(s) /\ Len(s) \in Nat
    BY LastLoopFound DEF BuildOK, SourceOK
  <2> QED BY <2>1
<1>2. Leads(tok) = After(Part("endwhile", c.t))
  BY PartFields DEF Leads
<1>3. NameIs(g, c.end, Leads(tok))
  BY <1>1, <1>2 DEF WhileOK
<1> QED BY <1>1, <1>3, LeaveBuilds

\* A continue jumps to the condition of the innermost loop.
LEMMA ContinueBuilds ==
    ASSUME NEW s, NEW fr, NEW g, BuildOK(s, fr, g), LoopsOf(fr) # {}, NEW c, c = LastLoop(fr),
           NEW tok, tok = Token("continue", Len(s) + 1, c.t), NEW e, e = Emit(g, Br(c.cond))
    PROVE  BuildOK(Append(s, tok), fr, e)
<1>1. WhileOK(s, g, c) /\ c.t \in 1 .. Len(s) /\ c.t \in Nat
  <2>1. WhileOK(s, g, c) /\ c.t \in 1 .. Len(s) /\ Len(s) \in Nat
    BY LastLoopFound DEF BuildOK, SourceOK
  <2> QED BY <2>1
<1>2. Leads(tok) = At(Part("while", c.t))
  BY PartFields DEF Leads
<1>3. NameIs(g, c.cond, Leads(tok))
  BY <1>1, <1>2 DEF WhileOK
<1> QED BY <1>1, <1>3, LeaveBuilds

\* A branch on a condition.
LEMMA CondFacts ==
    ASSUME NEW t, t \in Tok, NEW a, a \in Nat, NEW b, b \in Nat, NEW I, I = CondBr(t, a, b)
    PROVE  I \in Ins /\ I.k = "cond" /\ I.t = t /\ I.yes = a /\ I.no = b /\ IsTerminator(I)
BY DEF CondBr, Ins, Kinds, IsTerminator

\* A branch on a condition of the source.
LEMMA CondFits ==
    ASSUME NEW V, NEW g, WellFormed(g), NEW t, t \in Tok, t.k \in {"if", "elif", "while"}, t.c \in 1 .. V.L,
           NEW a, NameIs(g, a, After(t)), NEW b, NameIs(g, b, OtherwiseIn(V.T, t)),
           NEW p, Same(V.E, p, At(t)), NEW I, I = CondBr(t, a, b)
    PROVE  I \in Ins /\ IsTerminator(I) /\ Fits(V, g, p, I)
<1>1. a \in Nat /\ b \in Nat
  BY BlockTyped DEF NameIs
<1>2. I \in Ins /\ I.k = "cond" /\ I.t = t /\ I.yes = a /\ I.no = b /\ IsTerminator(I)
  BY ONLY <1>1, CondFacts, t \in Tok, I = CondBr(t, a, b)
<1> QED BY <1>2 DEF Fits, Decides, NameIs

\* A new frame owes its own branches as well.
LEMMA OwesPush ==
    ASSUME NEW s, NEW fr, NEW g, FramesOK(s, fr, g), NEW c
    PROVE  OwesAll(Append(fr, c)) = OwesAll(fr) \cup Owes(c)
<1>1. PICK S : fr \in Seq(S)
  BY DEF FramesOK
<1>2. PICK U : U = S \cup {c}
  BY Zenon
<1>3. fr \in Seq(U) /\ c \in U
  BY <1>1, <1>2
<1>4. PICK fs, n : fs = Append(fr, c) /\ n = Len(fr)
  BY Zenon
<1>5. /\ n \in Nat /\ DOMAIN fr = 1 .. n /\ DOMAIN fs = 1 .. n + 1
      /\ (\A j \in 1 .. n : fs[j] = fr[j]) /\ fs[n + 1] = c
  BY <1>3, <1>4
<1>6. \A j \in 1 .. n + 1 : j \in 1 .. n \/ j = n + 1
  BY <1>5
<1>7. n + 1 \in 1 .. n + 1 /\ 1 .. n \subseteq 1 .. n + 1
  BY <1>5
<1>8. OwesAll(fs) \subseteq OwesAll(fr) \cup Owes(c)
  BY <1>5, <1>6 DEF OwesAll
<1>9. OwesAll(fr) \cup Owes(c) \subseteq OwesAll(fs)
  BY <1>5, <1>7 DEF OwesAll
<1> QED BY <1>4, <1>8, <1>9

\* What c owes begins at n.
OwesAt(c, n) == \A u \in Owes(c) : u.c = n

\* Of the statement at n, s has no token but tok.
OnlyToken(s, n, tok) == \A u : u.c = n /\ u # tok => u \notin Range(s)

\* An if or a while is begun: what is given, and what the view then has.
CompoundStep(s, fr, g, k, tok, c, fs, W) ==
    /\ BuildOK(s, fr, g) /\ k \in {"if", "while"} /\ tok = Part(k, Len(s) + 1)
    /\ OwesAt(c, Len(s) + 1) /\ fs = Append(fr, c) /\ W = View(Append(s, tok), fs)

\* What is then known.
CompoundAdds(s, fr, g, k, tok, c, W) ==
    /\ SourceOK(Append(s, tok)) /\ LastTok(Append(s, tok)) = tok
    /\ CodeOK(W, g) /\ Arrives(W, g, At(tok)) /\ tok \in W.R
    /\ tok \in Tok /\ tok.k = k /\ tok.c = Len(s) + 1 /\ tok.n = 0 /\ tok.c \in 1 .. W.L
    /\ W.T = Branches(s, fr) \cup Owes(c)
    /\ OnlyToken(Append(s, tok), Len(s) + 1, tok)

\* Beginning an if or a while adds the move to it, and the branches it owes.
LEMMA CompoundAdded ==
    ASSUME NEW s, NEW fr, NEW g, NEW k, NEW tok, NEW c, NEW fs, NEW W,
           CompoundStep(s, fr, g, k, tok, c, fs, W)
    PROVE  CompoundAdds(s, fr, g, k, tok, c, W)
<1> SUFFICES ASSUME BuildOK(s, fr, g), k \in {"if", "while"}, tok = Part(k, Len(s) + 1),
                    OwesAt(c, Len(s) + 1), fs = Append(fr, c), W = View(Append(s, tok), fs)
             PROVE  /\ SourceOK(Append(s, tok)) /\ LastTok(Append(s, tok)) = tok
                    /\ CodeOK(W, g) /\ Arrives(W, g, At(tok)) /\ tok \in W.R
                    /\ tok \in Tok /\ tok.k = k /\ tok.c = Len(s) + 1 /\ tok.n = 0 /\ tok.c \in 1 .. W.L
                    /\ W.T = Branches(s, fr) \cup Owes(c)
                    /\ OnlyToken(Append(s, tok), Len(s) + 1, tok)
  BY Zenon DEF CompoundStep, CompoundAdds
<1>1. SourceOK(s) /\ s \in Seq(Tok) /\ FramesOK(s, fr, g) /\ Len(s) \in Nat
  BY DEF BuildOK, SourceOK
<1>2. Len(s) + 1 \in Nat /\ k \in Kinds
  BY <1>1 DEF Kinds
<1>3. tok \in Tok /\ tok.k = k /\ tok.c = Len(s) + 1 /\ tok.n = 0
  BY <1>2, TokenIsTok, PartFields
<1>4. tok.k \notin {"begin", "done"} /\ tok.k \notin {"elif", "else"}
  BY <1>3
<1>5. tok \notin Range(s) /\ tok.c \in 1 .. Len(s) + 1
  BY <1>1, <1>3, StatementFresh
<1>6. Branches(Append(s, tok), fr) = Branches(s, fr)
  BY <1>1, <1>3, <1>4, BranchesSame
<1>7. Branches(Append(s, tok), fs) = Branches(s, fr) \cup Owes(c)
  <2>1. OwesAll(fs) = OwesAll(fr) \cup Owes(c)
    BY <1>1, OwesPush
  <2> QED BY <1>6, <2>1 DEF Branches
<1>8. \A u : u.c \in 1 .. Len(s) => (u \in Branches(s, fr) <=> u \in Branches(Append(s, tok), fs))
  <2>1. ASSUME NEW u, u.c \in 1 .. Len(s), u \in Owes(c) PROVE FALSE
    BY <1>1, <2>1 DEF OwesAt
  <2> QED BY <1>7, <2>1
<1>9. Arrive(tok) = At(tok)
  BY <1>4, ArriveFacts
<1>10. /\ SourceOK(Append(s, tok)) /\ LastTok(Append(s, tok)) = tok
       /\ CodeOK(W, g) /\ Arrives(W, g, Arrive(tok))
       /\ W.R = Range(s) \cup {Begin, tok} /\ W.L = Len(s) + 1 /\ W.T = Branches(Append(s, tok), fs)
  BY <1>3, <1>4, <1>5, <1>8, TokenAdded
<1>11. OnlyToken(Append(s, tok), Len(s) + 1, tok)
  BY <1>1, <1>3, StatementFresh, RangeAppend DEF OnlyToken
<1> QED BY <1>3, <1>5, <1>7, <1>9, <1>10, <1>11

\* A loop of the source.
SourceLoop(g, t, tok) == NewLoop(g, t, At(tok), After(tok), After(Part("endwhile", t)))

\* The condition of a loop of the source.
SourceCond(l, tok) == AddLoopCond(l.g, l.c, CondBr(tok, l.c.body, l.c.end))

\* A while: three blocks, the condition, and the insert point in the body.
LEMMA WhileBuilds ==
    ASSUME NEW s, NEW fr, NEW g, BuildOK(s, fr, g), NEW tok, tok = Part("while", Len(s) + 1),
           NEW l, l = SourceLoop(g, Len(s) + 1, tok), NEW e, e = SourceCond(l, tok)
    PROVE  BuildOK(Append(s, tok), Append(fr, l.c), e)
<1>1. PICK c, fs : c = l.c /\ fs = Append(fr, c)
  BY Zenon
<1>2. PICK W : W = View(Append(s, tok), fs)
  OBVIOUS
<1>3. c.k = "while" /\ c.t = Len(s) + 1
  BY <1>1 DEF NewLoop, SourceLoop
<1>4. OwesAt(c, Len(s) + 1) /\ "while" \in {"if", "while"}
  BY <1>3 DEF Owes, OwesAt
<1>5. /\ SourceOK(Append(s, tok)) /\ LastTok(Append(s, tok)) = tok
      /\ CodeOK(W, g) /\ Arrives(W, g, At(tok)) /\ tok \in W.R
      /\ tok \in Tok /\ tok.k = "while" /\ tok.c = Len(s) + 1 /\ tok.c \in 1 .. W.L
      /\ OnlyToken(Append(s, tok), Len(s) + 1, tok)
  <2>1. PICK k : k = "while"
    OBVIOUS
  <2>2. k \in {"if", "while"} /\ tok = Part(k, Len(s) + 1)
    BY <2>1
  <2>3. CompoundStep(s, fr, g, k, tok, c, fs, W)
    BY <1>1, <1>2, <1>4, <2>2 DEF CompoundStep
  <2>4. CompoundAdds(s, fr, g, k, tok, c, W)
    BY ONLY <2>3, CompoundAdded
  <2> QED BY <2>1, <2>4 DEF CompoundAdds
<1>6. WellFormed(g) /\ s \in Seq(Tok) /\ FramesOK(s, fr, g) /\ Len(s) \in Nat
  BY DEF BuildOK, CodeOK, SourceOK
<1>7. PICK endtok : endtok = Part("endwhile", Len(s) + 1)
  OBVIOUS
<1>8. endtok \in Tok /\ endtok.c = Len(s) + 1 /\ endtok # tok
  BY <1>5, <1>6, <1>7, TokenIsTok, PartFields, SMTT(30) DEF Kinds
<1>9. At(tok) \in Place /\ After(tok) \in Place /\ After(endtok) \in Place
      /\ At(tok).tok = tok /\ After(tok).tok = tok
  BY <1>5, <1>8, PlacesOfTok, Zenon DEF At, After
<1>9a. l = NewLoop(g, Len(s) + 1, At(tok), After(tok), After(endtok))
  BY <1>7 DEF SourceLoop
<1>10. PICK h, n :
         /\ l = [g |-> h, c |-> [k |-> "while", t |-> Len(s) + 1, cond |-> n + 1, end |-> n + 2, body |-> n + 3]]
         /\ n \in Nat
         /\ Reached(W, g, h, At(tok)) /\ h.cur = n + 1
         /\ n + 1 \in DOMAIN h.blocks /\ h.blocks[n + 1].name = At(tok)
         /\ n + 2 \in DOMAIN h.blocks /\ h.blocks[n + 2].name = After(endtok)
         /\ n + 3 \in DOMAIN h.blocks /\ h.blocks[n + 3].name = After(tok) /\ h.blocks[n + 3].ins = << >>
  BY <1>5, <1>9, <1>9a, SameRefl, NewLoopReached, SMTT(30)
<1>11. l.g = h /\ c.cond = n + 1 /\ c.end = n + 2 /\ c.body = n + 3 /\ n + 3 # n + 1
  BY <1>1, <1>10
<1>12. /\ NameIs(h, c.cond, At(tok)) /\ NameIs(h, c.end, After(endtok)) /\ NameIs(h, c.body, After(tok))
       /\ c.body # h.cur /\ h.blocks[c.body].ins = << >> /\ h.blocks[c.body].name = After(tok)
       /\ c.body \in DOMAIN h.blocks /\ CodeOK(W, h) /\ Arrives(W, h, At(tok)) /\ WellFormed(h)
       /\ h.blocks[c.body].name.tok \in W.R
  BY <1>5, <1>9, <1>10, <1>11 DEF NameIs, Reached, CodeOK
<1>13. OtherwiseIn(W.T, tok) = After(endtok)
  BY <1>5, <1>7 DEF OtherwiseIn
<1>14. PICK I : I = CondBr(tok, c.body, c.end)
  OBVIOUS
<1>15. I \in Ins /\ IsTerminator(I) /\ Fits(W, h, At(tok), I)
  BY <1>5, <1>12, <1>13, <1>14, SameRefl, CondFits, Zenon
<1>16. e = AddLoopCond(h, c, I)
  BY <1>1, <1>11, <1>14 DEF SourceCond
<1>17. Reached(W, h, e, After(tok))
  <2>1. PICK p : p = At(tok)
    OBVIOUS
  <2>2. /\ CodeOK(W, h) /\ Arrives(W, h, p) /\ I \in Ins /\ Fits(W, h, p, I) /\ IsTerminator(I)
        /\ c.body \in DOMAIN h.blocks /\ c.body # h.cur /\ h.blocks[c.body].ins = << >>
        /\ h.blocks[c.body].name.tok \in W.R /\ e = AddLoopCond(h, c, I)
    BY <1>12, <1>15, <1>16, <2>1
  <2>3. Reached(W, h, e, h.blocks[c.body].name)
    BY <2>2, AddLoopCondReached, ZenonT(30)
  <2> QED BY <1>12, <2>3
<1>18. Reached(W, g, e, After(tok)) /\ Keeps(g, e) /\ Keeps(h, e)
  <2>1. Reached(W, g, h, At(tok))
    BY <1>10
  <2>2. Reached(W, g, e, After(tok))
    BY <1>6, <1>17, <2>1, ReachedTrans
  <2> QED BY <1>17, <2>2 DEF Reached
<1>19. FrameOK(Append(s, tok), e, c)
  <2>1. NameIs(e, c.cond, At(tok)) /\ NameIs(e, c.end, After(endtok))
    BY <1>12, <1>18, NameKept
  <2>2. endtok \notin Range(Append(s, tok))
    BY <1>5, <1>8 DEF OnlyToken
  <2>3. c.t \in 1 .. Len(Append(s, tok))
    BY <1>3, <1>5, <1>6, SourceAppend
  <2> QED BY <1>3, <1>7, <2>1, <2>2, <2>3 DEF FrameOK, WhileOK
<1>20. FramesOK(Append(s, tok), fs, e)
  BY <1>1, <1>3, <1>5, <1>6, <1>18, <1>19, FramesPush
<1> QED BY <1>1, <1>2, <1>5, <1>18, <1>20, TokenBuilt

\* The block for a place of the source that is still to come is empty.
LEMMA Vacant ==
    ASSUME NEW s, NEW fr, NEW g, BuildOK(s, fr, g), NEW tok, tok \notin Range(s), tok.k # "begin",
           NEW p, p.tok = tok, NEW b, NameIs(g, b, p)
    PROVE  b \in DOMAIN g.blocks /\ g.blocks[b].name = p /\ g.blocks[b].ins = << >> /\ b # g.cur
<1>1. PICK V : V = View(s, fr)
  OBVIOUS
<1>2. CodeOK(V, g) /\ V.R = Range(s) \cup {Begin}
  BY <1>1 DEF BuildOK, View
<1>3. Begin.k = "begin"
  BY DEF Begin, Part, Token
<1>4. tok \notin V.R
  BY <1>2, <1>3
<1>5. b \in DOMAIN g.blocks /\ g.blocks[b].name = p
  BY DEF NameIs
<1> QED BY <1>2, <1>4, <1>5 DEF CodeOK, BlockOK

\* The frame of an if says so.
LEMMA IfKind == ASSUME NEW s, NEW g, NEW c, IfOK(s, g, c) PROVE c.k = "if"
<1>1. c = IfFrame(c.t, c.body, c.conds, c.bodies, c.els, c.end, c.i, c.inElse)
  BY DEF IfOK
<1>2. \A t, b, cs, bs, e, d, m, z : IfFrame(t, b, cs, bs, e, d, m, z).k = "if"
  BY DEF IfFrame
<1> QED BY <1>1, <1>2

\* The innermost frame is well-formed.
LEMMA TopFacts ==
    ASSUME NEW s, NEW fr, NEW g, BuildOK(s, fr, g), fr # << >>, NEW c, c = fr[Len(fr)]
    PROVE  /\ c.k = "while" => WhileOK(s, g, c)
           /\ c.k = "if" => IfOK(s, g, c)
           /\ c.t \in 1 .. Len(s) /\ c.t \in 1 .. Len(s) + 1 /\ c.t \in Nat /\ Len(s) \in Nat
           /\ s \in Seq(Tok) /\ WellFormed(g) /\ FramesOK(s, fr, g)
<1>1. s \in Seq(Tok) /\ WellFormed(g) /\ FramesOK(s, fr, g) /\ Len(s) \in Nat
  BY DEF BuildOK, SourceOK, CodeOK
<1>2. PICK S : fr \in Seq(S)
  BY <1>1 DEF FramesOK
<1>3. Len(fr) \in DOMAIN fr
  BY <1>2
<1>4. FrameOK(s, g, c)
  BY <1>1, <1>3 DEF FramesOK
<1>5. c.t \in 1 .. Len(s)
  BY <1>4 DEF FrameOK
<1>6. c.t \in 1 .. Len(s) + 1 /\ c.t \in Nat
  BY <1>1, <1>5
<1>7. c.k = "while" => WhileOK(s, g, c)
  BY <1>4, IfKind DEF FrameOK
<1>8. c.k = "if" => IfOK(s, g, c)
  BY <1>4 DEF FrameOK, WhileOK
<1> QED BY <1>1, <1>5, <1>6, <1>7, <1>8

\* The end of a while.
LEMMA EndWhileBuilds ==
    ASSUME NEW s, NEW fr, NEW g, BuildOK(s, fr, g), fr # << >>, NEW c, c = fr[Len(fr)], c.k = "while",
           NEW tok, tok = Part("endwhile", c.t), NEW e, e = FinishLoop(g, c)
    PROVE  BuildOK(Append(s, tok), Front(fr), e)
<1>1. PICK fs, W : fs = Front(fr) /\ W = View(Append(s, tok), fs)
  OBVIOUS
<1>2. /\ WhileOK(s, g, c) /\ c.t \in 1 .. Len(s) + 1 /\ c.t \in Nat
      /\ s \in Seq(Tok) /\ WellFormed(g) /\ FramesOK(s, fr, g)
  BY TopFacts
<1>3. tok \in Tok /\ tok.k = "endwhile" /\ tok.c = c.t
  <2>1. "endwhile" \in Kinds
    BY DEF Kinds
  <2> QED BY <1>2, <2>1, TokenIsTok, PartFields
<1>4. tok \notin Range(s)
  BY <1>2 DEF WhileOK
<1>5. Branches(Append(s, tok), fs) = Branches(s, fr)
  <2>1. Owes(c) = {}
    BY DEF Owes
  <2>2. Keeps(g, g)
    BY <1>2, KeepsRefl
  <2>3. OwesAll(fr) = OwesAll(fs)
    <3>1. tok.c = fr[Len(fr)].t
      BY <1>3
    <3>2. OwesAll(fr) = OwesAll(Front(fr)) \cup Owes(fr[Len(fr)])
      BY <1>2, <1>3, <2>2, <3>1, FramesPop
    <3> QED BY <1>1, <2>1, <3>2
  <2>4. Branches(Append(s, tok), fs) = Branches(s, fs)
    BY <1>2, <1>3, BranchesSame
  <2> QED BY <2>3, <2>4 DEF Branches
<1>6. tok.k \notin {"begin", "done"} /\ tok.k \in Passing /\ tok.k \notin {"elif", "else"}
  BY <1>3 DEF Passing
<1>7. Arrive(tok) = At(tok) /\ Leads(tok) = At(Part("while", c.t))
  BY <1>3, <1>6, ArriveFacts DEF Leads
<1>8. /\ SourceOK(Append(s, tok)) /\ LastTok(Append(s, tok)) = tok
      /\ CodeOK(W, g) /\ Arrives(W, g, Arrive(tok)) /\ Same(W.E, At(tok), Leads(tok))
      /\ W.R = Range(s) \cup {Begin, tok}
  BY <1>1, <1>2, <1>3, <1>4, <1>5, <1>6, TokenAdded
<1>9. c.cond \in DOMAIN g.blocks /\ Same(W.E, At(tok), g.blocks[c.cond].name)
  BY <1>2, <1>7, <1>8 DEF WhileOK, NameIs
<1>10. NameIs(g, c.end, After(tok)) /\ After(tok).tok = tok
  BY <1>2 DEF WhileOK, After
<1>11. c.end \in DOMAIN g.blocks /\ g.blocks[c.end].name = After(tok) /\ g.blocks[c.end].ins = << >>
       /\ c.end # g.cur
  BY <1>3, <1>4, <1>10, Vacant
<1>12. Reached(W, g, e, After(tok))
  <2>1. PICK p : p = At(tok)
    OBVIOUS
  <2>2. /\ CodeOK(W, g) /\ Arrives(W, g, p) /\ c.cond \in DOMAIN g.blocks
        /\ Same(W.E, p, g.blocks[c.cond].name) /\ c.end \in DOMAIN g.blocks /\ c.end # g.cur
        /\ g.blocks[c.end].ins = << >> /\ g.blocks[c.end].name.tok \in W.R
    BY <1>7, <1>8, <1>9, <1>10, <1>11, <2>1
  <2>3. Reached(W, g, e, g.blocks[c.end].name)
    BY <2>2, FinishLoopReached, Zenon
  <2> QED BY <1>11, <2>3
<1>13. FramesOK(Append(s, tok), fs, e)
  BY <1>1, <1>2, <1>3, <1>12, FramesPop DEF Reached
<1> QED BY <1>1, <1>8, <1>12, <1>13, TokenBuilt

\* The parts of an if: its elifs, its else and its end.
IsPart(tok, t) ==
    /\ tok \in Tok /\ tok.c = t /\ tok.k \in {"elif", "else", "endif"}
    /\ tok.k = "endif" => tok = Part("endif", t)

\* A part of the innermost if is added.
PartStep(s, fr, g, c, tok, fs) ==
    /\ BuildOK(s, fr, g) /\ fr # << >> /\ c = fr[Len(fr)] /\ c.k = "if"
    /\ IsPart(tok, c.t) /\ tok \notin Range(s)
    /\ Branches(Append(s, tok), fs) = Branches(s, fr)

\* A part of an if ends the branch before it: the source is after the if.
LEMMA PartAdded ==
    ASSUME NEW s, NEW fr, NEW g, NEW c, NEW tok, NEW fs, PartStep(s, fr, g, c, tok, fs),
           NEW W, W = View(Append(s, tok), fs), NEW d, d = EndOpenBranch(g, c)
    PROVE  /\ SourceOK(Append(s, tok)) /\ LastTok(Append(s, tok)) = tok
           /\ tok \in W.R /\ tok.c \in 1 .. W.L /\ W.T = Branches(s, fr)
           /\ Reached(W, g, d, After(Part("endif", c.t))) /\ KeepsBut(g, d, {g.cur}) /\ d.cur = g.cur
<1> USE DEF PartStep
<1>1. IfOK(s, g, c) /\ c.t \in 1 .. Len(s) + 1
  BY TopFacts
<1>2. /\ SourceOK(Append(s, tok)) /\ LastTok(Append(s, tok)) = tok
      /\ CodeOK(W, g) /\ Arrives(W, g, Arrive(tok))
      /\ tok.k \in Passing => Same(W.E, At(tok), Leads(tok))
      /\ W.R = Range(s) \cup {Begin, tok} /\ W.L = Len(s) + 1 /\ W.T = Branches(Append(s, tok), fs)
  <2>1. tok \in Tok /\ tok.k \notin {"begin", "done"} /\ tok.c \in 1 .. Len(s) + 1
    BY <1>1 DEF IsPart
  <2> QED BY <2>1, TokenAdded
<1>3. PICK p : p = After(Part("endif", c.t))
  OBVIOUS
<1>4. c.end \in DOMAIN g.blocks /\ g.blocks[c.end].name = p
  BY <1>1, <1>3 DEF IfOK, NameIs
<1>5. Arrives(W, g, p)
  <2>1. CASE tok.k = "endif"
    <3>1. tok.k \in Passing /\ Leads(tok) = p /\ Arrive(tok) = At(tok)
      BY <1>3, <2>1, ArriveFacts DEF Passing, Leads, IsPart
    <3> QED BY <1>2, <3>1, ArrivesSame
  <2>2. CASE tok.k # "endif"
    <3>1. Arrive(tok) = p
      BY <1>3, <2>2, ArriveFacts DEF IsPart
    <3> QED BY <1>2, <3>1
  <2> QED BY <2>1, <2>2
<1>6. Same(W.E, p, g.blocks[c.end].name)
  BY <1>4, SameRefl
<1>7. Reached(W, g, d, p) /\ KeepsBut(g, d, {g.cur}) /\ d.cur = g.cur
  <2>1. CodeOK(W, g) /\ Arrives(W, g, p) /\ c.end \in DOMAIN g.blocks
        /\ Same(W.E, p, g.blocks[c.end].name) /\ d = EndOpenBranch(g, c)
    BY <1>2, <1>4, <1>5, <1>6
  <2> QED BY ONLY <2>1, EndBranchReached
<1> QED BY <1>1, <1>2, <1>3, <1>7 DEF IsPart

\* A block that was empty before the end of a branch still is.
LEMMA StillVacant ==
    ASSUME NEW s, NEW fr, NEW g, BuildOK(s, fr, g), NEW tok, tok \notin Range(s), tok.k # "begin",
           NEW p, p.tok = tok, NEW b, NameIs(g, b, p),
           NEW d, Keeps(g, d), KeepsBut(g, d, {g.cur}), d.cur = g.cur
    PROVE  b \in DOMAIN d.blocks /\ d.blocks[b].name = p /\ d.blocks[b].ins = << >> /\ b # d.cur
<1>1. b \in DOMAIN g.blocks /\ g.blocks[b].name = p /\ g.blocks[b].ins = << >> /\ b # g.cur
  BY Vacant
<1> QED BY <1>1 DEF Keeps, KeepsBut

\* The branches an if owes are its elifs and its else.
LEMMA OwesHave ==
    ASSUME NEW c, c.k = "if", Len(c.conds) \in Nat
    PROVE  /\ \A m \in 1 .. Len(c.conds) : Token("elif", c.t, m) \in Owes(c)
           /\ c.els # 0 => Part("else", c.t) \in Owes(c)
           /\ \A u \in Owes(c) : \/ \E m \in 1 .. Len(c.conds) : u = Token("elif", c.t, m)
                                 \/ u = Part("else", c.t) /\ c.els # 0
BY DEF Owes

\* The end of an if: the block after it, if anything leads to it.
LEMMA EndIfElseBuilds ==
    ASSUME NEW s, NEW fr, NEW g, BuildOK(s, fr, g), fr # << >>, NEW c, c = fr[Len(fr)], c.k = "if",
           c.i = Len(c.conds), c.els # 0 => Part("else", c.t) \in Range(s),
           NEW tok, tok = Part("endif", c.t), NEW e, e = FinishCondition(EndOpenBranch(g, c), c)
    PROVE  BuildOK(Append(s, tok), Front(fr), e)
<1>1. PICK fs, W, d : fs = Front(fr) /\ W = View(Append(s, tok), fs) /\ d = EndOpenBranch(g, c)
  OBVIOUS
<1>2. /\ IfOK(s, g, c) /\ c.t \in Nat
      /\ s \in Seq(Tok) /\ WellFormed(g) /\ FramesOK(s, fr, g)
  BY TopFacts
<1>3. tok \in Tok /\ tok.k = "endif" /\ tok.c = c.t
  <2>1. "endif" \in Kinds
    BY DEF Kinds
  <2> QED BY <1>2, <2>1, TokenIsTok, PartFields
<1>4. tok \notin Range(s) /\ NameIs(g, c.end, After(tok)) /\ After(tok).tok = tok
  BY <1>2 DEF IfOK, After
<1>5. Branches(Append(s, tok), fs) = Branches(s, fr)
  <2>1. Owes(c) \subseteq { u \in Range(s) : u.k \in {"elif", "else"} }
    <3>1. Len(c.conds) \in Nat /\ \A m \in Nat : Token("elif", c.t, m) \in Range(s) <=> m \in 1 .. c.i
      BY <1>2 DEF IfOK
    <3>2. ASSUME NEW u \in Owes(c) PROVE u \in Range(s) /\ u.k \in {"elif", "else"}
      <4>1. CASE u = Part("else", c.t) /\ c.els # 0
        BY <4>1, PartFields
      <4>2. CASE \E m \in 1 .. Len(c.conds) : u = Token("elif", c.t, m)
        <5>1. PICK m \in 1 .. Len(c.conds) : u = Token("elif", c.t, m)
          BY <4>2
        <5>2. m \in Nat
          BY <3>1, <5>1
        <5> QED BY <3>1, <5>1, <5>2, PartFields
      <4> QED BY <3>1, <3>2, <4>1, <4>2, OwesHave, Zenon
    <3> QED BY <3>2
  <2>2. Keeps(g, g)
    BY <1>2, KeepsRefl
  <2>3. OwesAll(fr) = OwesAll(fs) \cup Owes(c)
    <3>1. tok.c = fr[Len(fr)].t
      BY <1>3
    <3>2. OwesAll(fr) = OwesAll(Front(fr)) \cup Owes(fr[Len(fr)])
      BY <1>2, <1>3, <2>2, <3>1, FramesPop
    <3> QED BY <1>1, <3>2
  <2>4. Branches(Append(s, tok), fs) = Branches(s, fs)
    BY <1>2, <1>3, BranchesSame
  <2> QED BY <2>1, <2>3, <2>4 DEF Branches
<1>6. /\ SourceOK(Append(s, tok)) /\ LastTok(Append(s, tok)) = tok /\ tok \in W.R
      /\ Reached(W, g, d, After(tok)) /\ KeepsBut(g, d, {g.cur}) /\ d.cur = g.cur
  <2>1. PartStep(s, fr, g, c, tok, fs)
    BY <1>3, <1>4, <1>5 DEF IsPart, PartStep
  <2> QED BY <1>1, <2>1, PartAdded
<1>7. Keeps(g, d) /\ CodeOK(W, d) /\ Arrives(W, d, After(tok))
  BY <1>6 DEF Reached
<1>8. c.end \in DOMAIN d.blocks /\ d.blocks[c.end].name = After(tok) /\ d.blocks[c.end].ins = << >>
  BY <1>3, <1>4, <1>6, <1>7, StillVacant
<1>9. Reached(W, d, e, After(tok))
  <2>1. /\ Same(W.E, After(tok), d.blocks[c.end].name) /\ d.blocks[c.end].name.tok \in W.R
        /\ e = FinishCondition(d, c)
    BY <1>1, <1>4, <1>6, <1>8, SameRefl
  <2>2. Reached(W, d, e, d.blocks[c.end].name)
    BY <1>7, <1>8, <2>1, FinishConditionReached
  <2> QED BY <1>8, <2>2
<1>10. Reached(W, g, e, After(tok))
  BY <1>2, <1>6, <1>9, ReachedTrans
<1>11. FramesOK(Append(s, tok), fs, e)
  BY <1>1, <1>2, <1>3, <1>10, FramesPop DEF Reached
<1> QED BY <1>1, <1>6, <1>10, <1>11, TokenBuilt

\* The fields of the frame of an if.
LEMMA IfFrameFields ==
    ASSUME NEW t, NEW b, NEW cs, NEW bs, NEW l, NEW e, NEW m, NEW z,
           NEW d, d = IfFrame(t, b, cs, bs, l, e, m, z)
    PROVE  /\ d.k = "if" /\ d.t = t /\ d.body = b /\ d.conds = cs /\ d.bodies = bs
           /\ d.els = l /\ d.end = e /\ d.i = m /\ d.inElse = z
BY DEF IfFrame

\* The next elif, or the else, is begun.
Later(c) == [c EXCEPT !.i = @ + 1]

\* The else is begun.
InElse(c) == [c EXCEPT !.inElse = TRUE]

\* The frame when the next elif is begun.
LEMMA LaterFrame ==
    ASSUME NEW s, NEW g, NEW c, IfOK(s, g, c)
    PROVE  Later(c) = IfFrame(c.t, c.body, c.conds, c.bodies, c.els, c.end, c.i + 1, c.inElse)
<1>1. PICK t, b, cs, bs, l, e, m, z :
        /\ t = c.t /\ b = c.body /\ cs = c.conds /\ bs = c.bodies /\ l = c.els /\ e = c.end
        /\ m = c.i /\ z = c.inElse
  BY Zenon
<1>2. c = IfFrame(t, b, cs, bs, l, e, m, z)
  BY <1>1, Zenon DEF IfOK
<1>3. Later(c) = IfFrame(t, b, cs, bs, l, e, m + 1, z)
  BY <1>2 DEF Later, IfFrame
<1> QED BY <1>1, <1>3, Zenon

\* The frame when the else is begun.
LEMMA InElseFrame ==
    ASSUME NEW s, NEW g, NEW c, IfOK(s, g, c)
    PROVE  InElse(c) = IfFrame(c.t, c.body, c.conds, c.bodies, c.els, c.end, c.i, TRUE)
<1>1. PICK t, b, cs, bs, l, e, m, z :
        /\ t = c.t /\ b = c.body /\ cs = c.conds /\ bs = c.bodies /\ l = c.els /\ e = c.end
        /\ m = c.i /\ z = c.inElse
  BY Zenon
<1>2. c = IfFrame(t, b, cs, bs, l, e, m, z)
  BY <1>1, Zenon DEF IfOK
<1>3. \A y : [IfFrame(t, b, cs, bs, l, e, m, z) EXCEPT !.inElse = y] = IfFrame(t, b, cs, bs, l, e, m, y)
  BY DEF IfFrame
<1>4. InElse(c) = IfFrame(t, b, cs, bs, l, e, m, TRUE)
  BY <1>2, <1>3, Zenon DEF InElse
<1> QED BY <1>1, <1>4, Zenon

\* The frame is well-formed after the next elif.
LEMMA LaterOK ==
    ASSUME NEW s, s \in Seq(Tok), NEW g, NEW c, IfOK(s, g, c), c.i < Len(c.conds), c.t \in 1 .. Len(s),
           NEW tok, tok = Token("elif", c.t, c.i + 1), NEW h, Keeps(g, h), NEW d, d = Later(c)
    PROVE  FrameOK(Append(s, tok), h, d) /\ d.t = c.t /\ Owes(d) = Owes(c)
<1>1. d = IfFrame(c.t, c.body, c.conds, c.bodies, c.els, c.end, c.i + 1, c.inElse)
  BY LaterFrame
<1>2. /\ d.k = "if" /\ d.t = c.t /\ d.body = c.body /\ d.conds = c.conds /\ d.bodies = c.bodies
      /\ d.els = c.els /\ d.end = c.end /\ d.i = c.i + 1 /\ d.inElse = c.inElse
  BY ONLY <1>1, IfFrameFields
<1>3. /\ c.i \in Nat /\ Len(c.conds) \in Nat
      /\ \A m \in Nat : Token("elif", c.t, m) \in Range(s) <=> m \in 1 .. c.i
      /\ Part("endif", c.t) \notin Range(s)
  BY DEF IfOK
<1>4. Len(s) \in Nat /\ Len(Append(s, tok)) = Len(s) + 1 /\ c.t \in Nat
  <2>1. Len(s) \in Nat
    OBVIOUS
  <2>2. c.t \in Nat
    BY <2>1
  <2>3. c.i + 1 \in Nat
    BY <1>3
  <2>4. tok \in Tok
    BY <2>2, <2>3, TokenIsTok DEF Kinds
  <2> QED BY <2>1, <2>2, <2>4, SourceAppend
<1>5. tok \in Tok /\ tok.k = "elif" /\ tok.c = c.t /\ tok.n = c.i + 1
  <2>1. c.i + 1 \in Nat
    BY <1>3
  <2>2. tok.k = "elif" /\ tok.c = c.t /\ tok.n = c.i + 1
    BY PartFields
  <2>3. "elif" \in Kinds
    BY DEF Kinds
  <2> QED BY <1>4, <2>1, <2>2, <2>3, TokenIsTok
<1>6. Range(Append(s, tok)) = Range(s) \cup {tok}
  BY <1>5, RangeAppend
<1>7. \A m \in Nat : Token("elif", c.t, m) \in Range(Append(s, tok)) <=> m \in 1 .. c.i + 1
  <2>1. ASSUME NEW m \in Nat PROVE Token("elif", c.t, m) = tok <=> m = c.i + 1
    <3>1. Token("elif", c.t, m).n = m
      BY PartFields
    <3> QED BY <1>5, <3>1
  <2>2. \A m \in Nat : m \in 1 .. c.i + 1 <=> m \in 1 .. c.i \/ m = c.i + 1
    BY <1>3
  <2> QED BY <1>3, <1>6, <2>1, <2>2
<1>8. /\ Part("else", c.t) \in Range(Append(s, tok)) <=> Part("else", c.t) \in Range(s)
      /\ Part("endif", c.t) \notin Range(Append(s, tok))
  <2>1. Part("else", c.t) # tok /\ Part("endif", c.t) # tok
    BY <1>5, PartFields
  <2> QED BY <1>3, <1>6, <2>1
<1>9. d.i \in Nat /\ d.i <= Len(d.conds) /\ Len(d.conds) \in Nat /\ d.t \in 1 .. Len(Append(s, tok))
  BY <1>2, <1>3, <1>4
<1>10. \A m \in 1 .. Len(c.conds) : /\ NameIs(h, c.conds[m], At(Token("elif", c.t, m)))
                                    /\ NameIs(h, c.bodies[m], After(Token("elif", c.t, m)))
  BY NameKept, Zenon DEF IfOK
<1>11. /\ c.els # 0 => NameIs(h, c.els, After(Part("else", c.t)))
       /\ NameIs(h, c.end, After(Part("endif", c.t)))
  BY NameKept, Zenon DEF IfOK
<1>12. /\ c.inElse => c.els # 0
       /\ Part("else", c.t) \in Range(s) <=> c.inElse
  BY Zenon DEF IfOK
<1>13. d = IfFrame(d.t, d.body, d.conds, d.bodies, d.els, d.end, d.i, d.inElse)
  BY <1>1, <1>2, Zenon
<1>14. IfOK(Append(s, tok), h, d)
  BY <1>2, <1>7, <1>8, <1>9, <1>10, <1>11, <1>12, <1>13, Zenon DEF IfOK
<1>15. Owes(d) = Owes(c)
  BY <1>2, IfKind DEF Owes
<1> QED BY <1>2, <1>9, <1>14, <1>15, Zenon DEF FrameOK

\* The frame is well-formed after the else.
LEMMA InElseOK ==
    ASSUME NEW s, s \in Seq(Tok), NEW g, NEW c, IfOK(s, g, c), c.els # 0, c.t \in 1 .. Len(s),
           NEW tok, tok = Part("else", c.t), NEW h, Keeps(g, h), NEW d, d = InElse(c)
    PROVE  FrameOK(Append(s, tok), h, d) /\ d.t = c.t /\ Owes(d) = Owes(c)
<1>1. d = IfFrame(c.t, c.body, c.conds, c.bodies, c.els, c.end, c.i, TRUE)
  BY InElseFrame, Zenon
<1>2. /\ d.k = "if" /\ d.t = c.t /\ d.body = c.body /\ d.conds = c.conds /\ d.bodies = c.bodies
      /\ d.els = c.els /\ d.end = c.end /\ d.i = c.i /\ d.inElse = TRUE
  <2>1. PICK z : z = TRUE
    BY Zenon
  <2>2. d = IfFrame(c.t, c.body, c.conds, c.bodies, c.els, c.end, c.i, z)
    BY <1>1, <2>1, Zenon
  <2>3. /\ d.k = "if" /\ d.t = c.t /\ d.body = c.body /\ d.conds = c.conds /\ d.bodies = c.bodies
        /\ d.els = c.els /\ d.end = c.end /\ d.i = c.i /\ d.inElse = z
    BY ONLY <2>2, IfFrameFields
  <2> QED BY <2>1, <2>3, Zenon
<1>3. /\ c.i \in Nat /\ Len(c.conds) \in Nat /\ c.i <= Len(c.conds)
      /\ \A m \in Nat : Token("elif", c.t, m) \in Range(s) <=> m \in 1 .. c.i
      /\ Part("endif", c.t) \notin Range(s)
  BY DEF IfOK
<1>4. tok \in Tok /\ tok.k = "else" /\ Len(s) \in Nat
  <2>1. Len(s) \in Nat
    OBVIOUS
  <2>2. c.t \in Nat
    BY <2>1
  <2> QED BY <2>1, <2>2, TokenIsTok, PartFields, Zenon DEF Kinds
<1>5. Range(Append(s, tok)) = Range(s) \cup {tok} /\ Len(Append(s, tok)) = Len(s) + 1
  BY <1>4, RangeAppend, SourceAppend
<1>6. /\ \A m \in Nat : Token("elif", c.t, m) # tok
      /\ Part("endif", c.t) # tok
  BY <1>4, PartFields, SMTT(30)
<1>7. /\ \A m \in Nat : Token("elif", c.t, m) \in Range(Append(s, tok)) <=> m \in 1 .. c.i
      /\ Part("endif", c.t) \notin Range(Append(s, tok))
      /\ Part("else", c.t) \in Range(Append(s, tok))
  BY <1>3, <1>5, <1>6
<1>8. c.t \in 1 .. Len(Append(s, tok))
  BY <1>4, <1>5
<1>9. \A m \in 1 .. Len(c.conds) : /\ NameIs(h, c.conds[m], At(Token("elif", c.t, m)))
                                   /\ NameIs(h, c.bodies[m], After(Token("elif", c.t, m)))
  BY NameKept, Zenon DEF IfOK
<1>10. NameIs(h, c.els, After(Part("else", c.t))) /\ NameIs(h, c.end, After(Part("endif", c.t)))
  BY NameKept, Zenon DEF IfOK
<1>11. d = IfFrame(d.t, d.body, d.conds, d.bodies, d.els, d.end, d.i, d.inElse)
  BY <1>1, <1>2, Zenon
<1>12. IfOK(Append(s, tok), h, d)
  BY <1>2, <1>3, <1>7, <1>9, <1>10, <1>11, Zenon DEF IfOK
<1>13. Owes(d) = Owes(c)
  <2>1. d.k = c.k /\ d.t = c.t /\ d.conds = c.conds /\ d.els = c.els
    BY <1>2, IfKind, Zenon
  <2> QED BY <2>1 DEF Owes
<1> QED BY <1>2, <1>8, <1>12, <1>13, Zenon DEF FrameOK

\* A part that is owed is no news.
LEMMA BranchesTop ==
    ASSUME NEW s, s \in Seq(Tok), NEW fr, NEW g, FramesOK(s, fr, g), fr # << >>, NEW tok, tok \in Tok,
           tok.k \in {"elif", "else"}, tok \in Owes(fr[Len(fr)]),
           NEW d, Owes(d) = Owes(fr[Len(fr)]), NEW fs, fs = WithTop(fr, d)
    PROVE  Branches(Append(s, tok), fs) = Branches(s, fr)
<1>1. OwesAll(fs) = OwesAll(fr)
  BY OwesTop
<1>2. tok \in OwesAll(fr)
  <2>1. PICK S : fr \in Seq(S)
    BY DEF FramesOK
  <2>2. Len(fr) \in DOMAIN fr
    BY <2>1
  <2> QED BY <2>2 DEF OwesAll
<1> QED BY <1>1, <1>2, RangeAppend DEF Branches

\* The else: the branch before it ends and its block is filled.
LEMMA ElseBuilds ==
    ASSUME NEW s, NEW fr, NEW g, BuildOK(s, fr, g), fr # << >>, NEW c, c = fr[Len(fr)], c.k = "if",
           c.els # 0, NEW tok, tok = Part("else", c.t), tok \notin Range(s),
           NEW e, e = SetInsertPoint(EndOpenBranch(g, c), c.els), NEW fs, fs = WithTop(fr, InElse(c))
    PROVE  BuildOK(Append(s, tok), fs, e)
<1>1. PICK W, d, c2 : W = View(Append(s, tok), fs) /\ d = EndOpenBranch(g, c) /\ c2 = InElse(c)
  OBVIOUS
<1>2. /\ IfOK(s, g, c) /\ c.t \in Nat /\ c.t \in 1 .. Len(s)
      /\ s \in Seq(Tok) /\ WellFormed(g) /\ FramesOK(s, fr, g)
  BY TopFacts
<1>3. tok \in Tok /\ tok.k = "else" /\ tok.c = c.t
  <2>1. "else" \in Kinds
    BY DEF Kinds
  <2> QED BY <1>2, <2>1, TokenIsTok, PartFields
<1>4. NameIs(g, c.els, After(tok)) /\ After(tok).tok = tok
  BY <1>2 DEF IfOK, After
<1>5. Branches(Append(s, tok), fs) = Branches(s, fr)
  <2>1. Keeps(g, g) /\ Len(c.conds) \in Nat
    BY <1>2, KeepsRefl DEF IfOK
  <2>2. Owes(c2) = Owes(c)
    BY <1>1, <1>2, <2>1, InElseOK
  <2>3. tok \in Owes(c)
    BY <2>1, OwesHave
  <2>4. /\ s \in Seq(Tok) /\ FramesOK(s, fr, g) /\ tok \in Tok /\ tok.k \in {"elif", "else"}
        /\ tok \in Owes(fr[Len(fr)]) /\ Owes(c2) = Owes(fr[Len(fr)]) /\ fs = WithTop(fr, c2) /\ fr # << >>
    BY <1>1, <1>2, <1>3, <2>2, <2>3
  <2> QED BY ONLY <2>4, BranchesTop
<1>6. /\ SourceOK(Append(s, tok)) /\ LastTok(Append(s, tok)) = tok /\ tok \in W.R
      /\ Reached(W, g, d, After(Part("endif", c.t))) /\ KeepsBut(g, d, {g.cur}) /\ d.cur = g.cur
  <2>1. PartStep(s, fr, g, c, tok, fs)
    BY <1>3, <1>5 DEF IsPart, PartStep
  <2>2. W = View(Append(s, tok), fs) /\ d = EndOpenBranch(g, c)
    BY <1>1
  <2> QED BY ONLY <2>1, <2>2, PartAdded
<1>7. Keeps(g, d) /\ CodeOK(W, d)
  BY <1>6 DEF Reached
<1>8. c.els \in DOMAIN d.blocks /\ d.blocks[c.els].name = After(tok) /\ d.blocks[c.els].ins = << >>
  BY <1>3, <1>4, <1>6, <1>7, StillVacant
<1>9. Reached(W, d, e, After(tok))
  <2>1. d.blocks[c.els].name.tok \in W.R /\ e = SetInsertPoint(d, c.els)
    BY <1>1, <1>4, <1>6, <1>8
  <2>2. Reached(W, d, e, d.blocks[c.els].name)
    BY <1>7, <1>8, <2>1, PointReached
  <2> QED BY <1>8, <2>2
<1>10. Reached(W, g, e, After(tok)) /\ Keeps(g, e)
  BY <1>2, <1>6, <1>9, ReachedTrans DEF Reached
<1>11. FramesOK(Append(s, tok), fs, e)
  <2>1. FrameOK(Append(s, tok), e, c2) /\ c2.t = c.t
    BY <1>1, <1>2, <1>10, InElseOK
  <2>2. /\ s \in Seq(Tok) /\ Keeps(g, e) /\ tok \in Tok /\ FramesOK(s, fr, g) /\ fr # << >>
        /\ tok.c = fr[Len(fr)].t /\ c2.t = tok.c /\ FrameOK(Append(s, tok), e, c2)
        /\ fs = WithTop(fr, c2)
    BY <1>1, <1>2, <1>3, <1>10, <2>1
  <2> QED BY ONLY <2>2, FramesTop
<1> QED BY <1>1, <1>6, <1>10, <1>11, TokenBuilt

\* The branches of the innermost if.
LEMMA BranchesOf ==
    ASSUME NEW s, NEW fr, NEW g, FramesOK(s, fr, g), fr # << >>, NEW c, c = fr[Len(fr)], IfOK(s, g, c)
    PROVE  /\ \A m \in Nat : Token("elif", c.t, m) \in Branches(s, fr) <=> m \in 1 .. Len(c.conds)
           /\ Part("else", c.t) \in Branches(s, fr) <=> c.els # 0
<1>1. /\ c.i \in Nat /\ Len(c.conds) \in Nat /\ c.i <= Len(c.conds) /\ c.k = "if"
      /\ \A m \in Nat : Token("elif", c.t, m) \in Range(s) <=> m \in 1 .. c.i
  BY IfKind DEF IfOK
<1>2. Part("else", c.t) \in Range(s) => c.els # 0
  BY Zenon DEF IfOK
<1>3. Len(fr) \in DOMAIN fr
  <2>1. PICK S : fr \in Seq(S)
    BY DEF FramesOK
  <2> QED BY <2>1
<1>4. Owes(c) \subseteq OwesAll(fr)
  BY <1>3 DEF OwesAll
<1>5. ASSUME NEW u, u.c = c.t, u \in OwesAll(fr) PROVE u \in Owes(c)
  <2>1. PICK j \in DOMAIN fr : u \in Owes(fr[j])
    BY <1>5 DEF OwesAll
  <2>2. u.c = fr[j].t
    BY <2>1, PartFields DEF Owes
  <2>3. j = Len(fr)
    BY <1>3, <1>5, <2>1, <2>2, Zenon DEF FramesOK
  <2> QED BY <2>1, <2>3
<1>6. ASSUME NEW m \in Nat PROVE Token("elif", c.t, m) \in Branches(s, fr) <=> m \in 1 .. Len(c.conds)
  <2>1. PICK u : u = Token("elif", c.t, m)
    OBVIOUS
  <2>2. u.k = "elif" /\ u.c = c.t /\ u.n = m
    BY <2>1, PartFields
  <2>3. ASSUME u \in Range(s) PROVE m \in 1 .. Len(c.conds)
    BY <1>1, <2>1, <2>3
  <2>4. ASSUME u \in OwesAll(fr) PROVE m \in 1 .. Len(c.conds)
    <3>1. u \in Owes(c)
      BY <1>5, <2>2, <2>4
    <3>2. \/ \E l \in 1 .. Len(c.conds) : u = Token("elif", c.t, l)
          \/ u = Part("else", c.t)
      BY <1>1, <3>1, OwesHave
    <3> QED BY <2>2, <3>2, PartFields
  <2>5. ASSUME m \in 1 .. Len(c.conds) PROVE u \in OwesAll(fr)
    BY <1>1, <1>4, <2>1, <2>5, OwesHave
  <2> QED BY <2>1, <2>3, <2>4, <2>5 DEF Branches
<1>7. Part("else", c.t) \in Branches(s, fr) <=> c.els # 0
  <2>1. PICK u : u = Part("else", c.t)
    OBVIOUS
  <2>2. u.k = "else" /\ u.c = c.t
    BY <2>1, PartFields
  <2>3. ASSUME u \in OwesAll(fr) PROVE c.els # 0
    <3>1. u \in Owes(c)
      BY <1>5, <2>2, <2>3
    <3>2. \/ \E l \in 1 .. Len(c.conds) : u = Token("elif", c.t, l)
          \/ c.els # 0
      BY <1>1, <3>1, OwesHave
    <3> QED BY <2>2, <3>2, PartFields
  <2>4. ASSUME c.els # 0 PROVE u \in OwesAll(fr)
    BY <1>1, <1>4, <2>1, <2>4, OwesHave
  <2> QED BY <1>2, <2>1, <2>3, <2>4 DEF Branches
<1> QED BY <1>6, <1>7

\* The block that a condition of the if goes to when it is false.
LEMMA NextName ==
    ASSUME NEW s, NEW fr, NEW g, FramesOK(s, fr, g), fr # << >>, NEW c, c = fr[Len(fr)], IfOK(s, g, c),
           NEW i, i \in Nat, i <= Len(c.conds),
           NEW tok, tok.c = c.t, tok.n = i, tok.k \in {"if", "elif"}
    PROVE  NameIs(g, NextBlock(c, i), OtherwiseIn(Branches(s, fr), tok))
<1>1. PICK T : T = Branches(s, fr)
  OBVIOUS
<1>2. /\ \A m \in Nat : Token("elif", c.t, m) \in T <=> m \in 1 .. Len(c.conds)
      /\ Part("else", c.t) \in T <=> c.els # 0
  BY <1>1, BranchesOf
<1>3. /\ Len(c.conds) \in Nat /\ (c.els # 0 => NameIs(g, c.els, After(Part("else", c.t))))
      /\ NameIs(g, c.end, After(Part("endif", c.t)))
      /\ \A m \in 1 .. Len(c.conds) : NameIs(g, c.conds[m], At(Token("elif", c.t, m)))
  BY DEF IfOK
<1>4. i + 1 \in Nat
  OBVIOUS
<1>5. CASE i < Len(c.conds)
  <2>1. i + 1 \in 1 .. Len(c.conds)
    BY <1>3, <1>5
  <2>2. OtherwiseIn(T, tok) = At(Token("elif", c.t, i + 1))
    BY <1>2, <1>4, <2>1 DEF OtherwiseIn
  <2>3. NextBlock(c, i) = c.conds[i + 1]
    BY <1>5 DEF NextBlock
  <2> QED BY <1>1, <1>3, <2>1, <2>2, <2>3
<1>6. CASE ~ (i < Len(c.conds))
  <2>1. i + 1 \notin 1 .. Len(c.conds)
    BY <1>3, <1>6
  <2>2. Token("elif", c.t, i + 1) \notin T
    BY <1>2, <1>4, <2>1
  <2>3. NextBlock(c, i) = IF c.els # 0 THEN c.els ELSE c.end
    BY <1>6 DEF NextBlock
  <2>4. OtherwiseIn(T, tok) = IF c.els # 0 THEN After(Part("else", c.t)) ELSE After(Part("endif", c.t))
    BY <1>2, <2>2 DEF OtherwiseIn
  <2> QED BY <1>1, <1>3, <2>3, <2>4
<1> QED BY <1>5, <1>6

\* An elif: the branch before it ends, its condition and its body.
LEMMA ElifBuilds ==
    ASSUME NEW s, NEW fr, NEW g, BuildOK(s, fr, g), fr # << >>, NEW c, c = fr[Len(fr)], c.k = "if",
           c.i < Len(c.conds), NEW i, i = c.i + 1, NEW tok, tok = Token("elif", c.t, i),
           NEW e, e = BeginElif(EndOpenBranch(g, c), c, i), NEW fs, fs = WithTop(fr, Later(c))
    PROVE  BuildOK(Append(s, tok), fs, e)
<1>1. PICK W, d, c2 : W = View(Append(s, tok), fs) /\ d = EndOpenBranch(g, c) /\ c2 = Later(c)
  OBVIOUS
<1>2. /\ IfOK(s, g, c) /\ c.t \in Nat /\ c.t \in 1 .. Len(s)
      /\ s \in Seq(Tok) /\ WellFormed(g) /\ FramesOK(s, fr, g)
  BY TopFacts
<1>3. /\ c.i \in Nat /\ i \in Nat /\ Len(c.conds) \in Nat /\ i \in 1 .. Len(c.conds) /\ i <= Len(c.conds)
      /\ i \notin 1 .. c.i
      /\ \A m \in Nat : Token("elif", c.t, m) \in Range(s) <=> m \in 1 .. c.i
  <2>1. /\ c.i \in Nat /\ Len(c.conds) \in Nat
        /\ \A m \in Nat : Token("elif", c.t, m) \in Range(s) <=> m \in 1 .. c.i
    BY <1>2, Zenon DEF IfOK
  <2> QED BY <2>1
<1>4. tok \in Tok /\ tok.k = "elif" /\ tok.c = c.t /\ tok.n = i /\ tok \notin Range(s)
  <2>1. "elif" \in Kinds
    BY DEF Kinds
  <2>2. tok \notin Range(s)
    BY <1>3
  <2> QED BY <1>2, <1>3, <2>1, <2>2, TokenIsTok, PartFields
<1>5. PICK a, b : a = c.conds[i] /\ b = c.bodies[i]
  BY Zenon
<1>6. /\ NameIs(g, a, At(tok)) /\ NameIs(g, b, After(tok)) /\ After(tok).tok = tok /\ At(tok).tok = tok
      /\ At(tok) # After(tok)
  <2>1. NameIs(g, a, At(tok)) /\ NameIs(g, b, After(tok))
    BY <1>2, <1>3, <1>5 DEF IfOK
  <2>2. After(tok).tok = tok /\ At(tok).tok = tok /\ At(tok).w # After(tok).w
    BY DEF At, After
  <2> QED BY <2>1, <2>2
<1>7. Branches(Append(s, tok), fs) = Branches(s, fr)
  <2>1. Keeps(g, g)
    BY <1>2, KeepsRefl
  <2>2. Owes(c2) = Owes(c)
    BY <1>1, <1>2, <2>1, LaterOK
  <2>3. tok \in Owes(c)
    BY <1>3, OwesHave
  <2>4. /\ s \in Seq(Tok) /\ FramesOK(s, fr, g) /\ tok \in Tok /\ tok.k \in {"elif", "else"}
        /\ tok \in Owes(fr[Len(fr)]) /\ Owes(c2) = Owes(fr[Len(fr)]) /\ fs = WithTop(fr, c2) /\ fr # << >>
    BY <1>1, <1>2, <1>4, <2>2, <2>3
  <2> QED BY ONLY <2>4, BranchesTop
<1>8. /\ SourceOK(Append(s, tok)) /\ LastTok(Append(s, tok)) = tok /\ tok \in W.R
      /\ tok.c \in 1 .. W.L /\ W.T = Branches(s, fr)
      /\ Reached(W, g, d, After(Part("endif", c.t))) /\ KeepsBut(g, d, {g.cur}) /\ d.cur = g.cur
  <2>1. PartStep(s, fr, g, c, tok, fs)
    BY <1>4, <1>7 DEF IsPart, PartStep
  <2>2. W = View(Append(s, tok), fs) /\ d = EndOpenBranch(g, c)
    BY <1>1
  <2> QED BY ONLY <2>1, <2>2, PartAdded
<1>9. Keeps(g, d) /\ CodeOK(W, d)
  BY <1>8 DEF Reached
<1>10. a \in DOMAIN d.blocks /\ d.blocks[a].name = At(tok) /\ d.blocks[a].ins = << >>
  BY <1>4, <1>6, <1>8, <1>9, StillVacant
<1>11. b \in DOMAIN d.blocks /\ d.blocks[b].name = After(tok) /\ d.blocks[b].ins = << >>
  BY <1>4, <1>6, <1>8, <1>9, StillVacant
<1>12. PICK h : h = SetInsertPoint(d, a)
  OBVIOUS
<1>13. Reached(W, d, h, At(tok)) /\ h.blocks = d.blocks /\ h.cur = a
  <2>1. d.blocks[a].name.tok \in W.R
    BY <1>6, <1>8, <1>10
  <2>2. Reached(W, d, h, d.blocks[a].name) /\ h.blocks = d.blocks /\ h.cur = a
    BY <1>9, <1>10, <1>12, <2>1, PointReached
  <2> QED BY <1>10, <2>2
<1>14. Reached(W, g, h, At(tok))
  BY <1>2, <1>8, <1>13, ReachedTrans
<1>15. CodeOK(W, h) /\ Arrives(W, h, At(tok)) /\ Keeps(g, h) /\ WellFormed(h)
  BY <1>14 DEF Reached, CodeOK
<1>16. PICK n : n = NextBlock(c, i)
  OBVIOUS
<1>17. NameIs(h, n, OtherwiseIn(W.T, tok))
  <2>1. NameIs(g, n, OtherwiseIn(Branches(s, fr), tok))
    BY <1>2, <1>3, <1>4, <1>16, NextName
  <2> QED BY <1>8, <1>15, <2>1, NameKept
<1>18. PICK I : I = CondBr(tok, b, n)
  OBVIOUS
<1>19. I \in Ins /\ IsTerminator(I) /\ Fits(W, h, At(tok), I)
  <2>1. NameIs(h, b, After(tok)) /\ Same(W.E, At(tok), At(tok)) /\ tok.k \in {"if", "elif", "while"}
    BY <1>4, <1>6, <1>15, NameKept, SameRefl
  <2> QED BY <1>4, <1>8, <1>15, <1>17, <1>18, <2>1, CondFits
<1>20. e = SetInsertPoint(Emit(h, I), b)
  BY <1>1, <1>5, <1>12, <1>16, <1>18 DEF BeginElif
<1>21. Reached(W, h, e, After(tok))
  <2>1. PICK p : p = At(tok)
    OBVIOUS
  <2>2. /\ CodeOK(W, h) /\ Arrives(W, h, p) /\ I \in Ins /\ Fits(W, h, p, I) /\ IsTerminator(I)
        /\ b \in DOMAIN h.blocks /\ b # h.cur /\ h.blocks[b].ins = << >> /\ h.blocks[b].name.tok \in W.R
        /\ e = SetInsertPoint(Emit(h, I), b)
    BY <1>6, <1>8, <1>10, <1>11, <1>13, <1>15, <1>19, <1>20, <2>1
  <2>3. Reached(W, h, e, h.blocks[b].name)
    BY ONLY <2>2, EmitAndEnter, Zenon
  <2> QED BY <1>11, <1>13, <2>3
<1>22. Reached(W, g, e, After(tok)) /\ Keeps(g, e)
  BY <1>2, <1>14, <1>21, ReachedTrans DEF Reached
<1>23. FramesOK(Append(s, tok), fs, e)
  <2>1. FrameOK(Append(s, tok), e, c2) /\ c2.t = c.t
    BY <1>1, <1>2, <1>22, LaterOK
  <2>2. /\ s \in Seq(Tok) /\ Keeps(g, e) /\ tok \in Tok /\ FramesOK(s, fr, g) /\ fr # << >>
        /\ tok.c = fr[Len(fr)].t /\ c2.t = tok.c /\ FrameOK(Append(s, tok), e, c2)
        /\ fs = WithTop(fr, c2)
    BY <1>1, <1>2, <1>4, <1>22, <2>1
  <2> QED BY ONLY <2>2, FramesTop
<1> QED BY <1>1, <1>8, <1>22, <1>23, TokenBuilt

\* Where a new if has its blocks: l is the place of the else, 0 without one.
IfList(names, t, n, l) ==
    /\ names \in Seq(Place) /\ 2 * n + 2 <= Len(names)
    /\ names[1] = After(Part("if", t))
    /\ \A m \in 1 .. n : names[1 + m] = At(Token("elif", t, m))
    /\ \A m \in 1 .. n : names[1 + n + m] = After(Token("elif", t, m))
    /\ l # 0 => l \in 1 .. Len(names) /\ names[l] = After(Part("else", t))
    /\ names[Len(names)] = After(Part("endif", t))

\* Two lists joined, and what is where in the result.
Join(a, b) == a \o b

\* A list of n places.
IsPlaces(a, n) == a \in Seq(Place) /\ Len(a) = n /\ n \in Nat

\* The places of a joined list.
Joins(d, a, n, b, m) ==
    /\ IsPlaces(d, n + m)
    /\ \A i \in 1 .. n : d[i] = a[i]
    /\ \A i \in 1 .. m : d[n + i] = b[i]

\* Where the places of two joined lists are.
LEMMA Joined ==
    ASSUME NEW a, NEW n, IsPlaces(a, n), NEW b, NEW m, IsPlaces(b, m)
    PROVE  Joins(Join(a, b), a, n, b, m)
<1>1. PICK d : d = a \o b
  BY Zenon
<1>2. /\ d \in Seq(Place) /\ Len(d) = n + m /\ n \in Nat /\ m \in Nat /\ n + m \in Nat
  <2>1. a \in Seq(Place) /\ b \in Seq(Place) /\ Len(a) = n /\ Len(b) = m /\ n \in Nat /\ m \in Nat
    BY DEF IsPlaces
  <2>2. d \in Seq(Place) /\ Len(d) = Len(a) + Len(b)
    BY ONLY <1>1, <2>1, ConcatProperties, Zenon
  <2>3. n + m \in Nat
    BY ONLY <2>1
  <2> QED BY ONLY <2>1, <2>2, <2>3
<1>3. \A i \in 1 .. n + m : d[i] = IF i <= n THEN a[i] ELSE b[i - n]
  BY <1>1, ConcatProperties DEF IsPlaces
<1>4. \A i \in 1 .. n : i \in 1 .. n + m /\ i <= n
  BY <1>2
<1>5. \A i \in 1 .. m : n + i \in 1 .. n + m /\ ~ (n + i <= n) /\ n + i - n = i
  BY <1>2
<1>6. \A i \in 1 .. n : d[i] = a[i]
  BY ONLY <1>3, <1>4
<1>7. ASSUME NEW i \in 1 .. m PROVE d[n + i] = b[i]
  <2>1. PICK k : k = n + i
    OBVIOUS
  <2>2. k \in 1 .. n + m /\ ~ (k <= n) /\ k - n = i
    BY ONLY <1>2, <2>1, i \in 1 .. m
  <2>3. d[k] = b[k - n]
    BY ONLY <1>3, <2>2
  <2> QED BY <2>1, <2>2, <2>3
<1>8. Joins(d, a, n, b, m)
  BY <1>2, <1>6, <1>7 DEF Joins, IsPlaces
<1> QED BY <1>1, <1>8 DEF Join

\* The lists that IfNames joins.
Elifs(t, n) == [i \in 1 .. n |-> At(Token("elif", t, i))]

\* The places after the conditions of the elifs.
ElifBodies(t, n) == [i \in 1 .. n |-> After(Token("elif", t, i))]

\* The places of the elifs of an if, before and after their conditions.
LEMMA ElifPlaces ==
    ASSUME NEW t, t \in Nat, NEW n, n \in Nat
    PROVE  /\ IsPlaces(Elifs(t, n), n) /\ IsPlaces(ElifBodies(t, n), n)
           /\ \A m \in 1 .. n : Elifs(t, n)[m] = At(Token("elif", t, m))
           /\ \A m \in 1 .. n : ElifBodies(t, n)[m] = After(Token("elif", t, m))
<1> DEFINE A == Elifs(t, n)
           B == ElifBodies(t, n)
<1>1. ASSUME NEW m \in 1 .. n PROVE At(Token("elif", t, m)) \in Place /\ After(Token("elif", t, m)) \in Place
  <2>1. "elif" \in Kinds /\ m \in Nat
    BY DEF Kinds
  <2>2. Token("elif", t, m) \in Tok
    BY <2>1, TokenIsTok
  <2> QED BY <2>2, PlacesOfTok
<1>2. A \in [1 .. n -> Place] /\ B \in [1 .. n -> Place]
  BY <1>1 DEF Elifs, ElifBodies
<1>3. /\ \A m \in 1 .. n : A[m] = At(Token("elif", t, m))
      /\ \A m \in 1 .. n : B[m] = After(Token("elif", t, m))
  BY DEF Elifs, ElifBodies
<1>4. \A f \in [1 .. n -> Place] : f \in Seq(Place) /\ Len(f) = n
  OBVIOUS
<1> HIDE DEF A, B
<1>5. IsPlaces(A, n) /\ IsPlaces(B, n)
  BY <1>2, <1>4 DEF IsPlaces
<1> QED BY <1>3, <1>5 DEF A, B

\* A list of one place.
LEMMA PartPlaces ==
    ASSUME NEW t, t \in Nat, NEW k, k \in Kinds
    PROVE  IsPlaces(<<After(Part(k, t))>>, 1) /\ <<After(Part(k, t))>>[1] = After(Part(k, t))
<1>1. PICK p : p = After(Part(k, t))
  OBVIOUS
<1>2. p \in Place
  BY <1>1, TokenIsTok, PlacesOfTok
<1>3. <<p>> \in Seq(Place) /\ Len(<<p>>) = 1 /\ <<p>>[1] = p
  BY <1>2
<1> QED BY <1>1, <1>3 DEF IsPlaces

\* Where the five lists of the places of an if are when they are joined.
LEMMA ListJoined ==
    ASSUME NEW t, t \in Nat, NEW n, n \in Nat, NEW q, NEW r, IsPlaces(q, r),
           NEW l, l # 0 => l = 2 * n + 2 /\ r = 1 /\ q[1] = After(Part("else", t)), NEW d,
           d = Join(Join(Join(Join(<<After(Part("if", t))>>, Elifs(t, n)), ElifBodies(t, n)), q),
                    <<After(Part("endif", t))>>)
    PROVE  IfList(d, t, n, l)
<1>1. PICK x, A, B, y :
        /\ x = <<After(Part("if", t))>> /\ y = <<After(Part("endif", t))>>
        /\ A = Elifs(t, n) /\ B = ElifBodies(t, n)
  OBVIOUS
<1>2. PICK d1, d2, d3 : d1 = Join(x, A) /\ d2 = Join(d1, B) /\ d3 = Join(d2, q) /\ d = Join(d3, y)
  BY <1>1
<1>3. "if" \in Kinds /\ "endif" \in Kinds
  BY DEF Kinds
<1>4. /\ IsPlaces(x, 1) /\ x[1] = After(Part("if", t))
      /\ IsPlaces(y, 1) /\ y[1] = After(Part("endif", t))
  BY <1>1, <1>3, PartPlaces
<1>5. /\ IsPlaces(A, n) /\ IsPlaces(B, n)
      /\ \A m \in 1 .. n : A[m] = At(Token("elif", t, m))
      /\ \A m \in 1 .. n : B[m] = After(Token("elif", t, m))
  BY <1>1, ElifPlaces
<1>6. Joins(d1, x, 1, A, n) /\ IsPlaces(d1, 1 + n)
  BY <1>2, <1>4, <1>5, Joined DEF Joins
<1>7. Joins(d2, d1, 1 + n, B, n) /\ IsPlaces(d2, 1 + n + n)
  BY <1>2, <1>5, <1>6, Joined DEF Joins
<1>8. Joins(d3, d2, 1 + n + n, q, r) /\ IsPlaces(d3, 1 + n + n + r)
  BY <1>2, <1>7, Joined DEF Joins
<1>9. Joins(d, d3, 1 + n + n + r, y, 1) /\ IsPlaces(d, 1 + n + n + r + 1)
  BY ONLY <1>2, <1>4, <1>8, Joined DEF Joins
<1>10. r \in Nat /\ d \in Seq(Place) /\ Len(d) = 1 + n + n + r + 1
  BY <1>9 DEF IsPlaces
<1>11. /\ d1[1] = x[1] /\ \A m \in 1 .. n : d1[1 + m] = A[m]
  BY <1>6 DEF Joins
<1>12. /\ \A m \in 1 .. 1 + n : d2[m] = d1[m]
       /\ \A m \in 1 .. n : d2[1 + n + m] = B[m]
  BY <1>7 DEF Joins
<1>13. /\ \A m \in 1 .. 1 + n + n : d3[m] = d2[m]
       /\ \A m \in 1 .. r : d3[1 + n + n + m] = q[m]
  BY <1>8 DEF Joins
<1>14. /\ \A m \in 1 .. 1 + n + n + r : d[m] = d3[m]
       /\ d[1 + n + n + r + 1] = y[1]
  BY <1>9 DEF Joins
<1>15. /\ 1 \in 1 .. 1 + n /\ 1 \in 1 .. 1 + n + n /\ 1 \in 1 .. 1 + n + n + r
       /\ \A m \in 1 .. n : /\ 1 + m \in 1 .. 1 + n /\ 1 + m \in 1 .. 1 + n + n
                            /\ 1 + m \in 1 .. 1 + n + n + r
                            /\ 1 + n + m \in 1 .. 1 + n + n /\ 1 + n + m \in 1 .. 1 + n + n + r
  BY <1>10
<1>16. d[1] = After(Part("if", t))
  BY ONLY <1>4, <1>11, <1>12, <1>13, <1>14, <1>15
<1>17. \A m \in 1 .. n : d[1 + m] = At(Token("elif", t, m))
  BY ONLY <1>5, <1>11, <1>12, <1>13, <1>14, <1>15
<1>18. \A m \in 1 .. n : d[1 + n + m] = After(Token("elif", t, m))
  BY ONLY <1>5, <1>12, <1>13, <1>14, <1>15
<1>19. d[Len(d)] = After(Part("endif", t))
  BY ONLY <1>4, <1>10, <1>14
<1>20. ASSUME l # 0 PROVE l \in 1 .. Len(d) /\ d[l] = After(Part("else", t))
  <2>1. l = 2 * n + 2 /\ r = 1 /\ n \in Nat /\ q[1] = After(Part("else", t))
    BY <1>20
  <2>2. l = 1 + n + n + 1 /\ 1 \in 1 .. r /\ l \in 1 .. 1 + n + n + r /\ l \in 1 .. Len(d)
    BY ONLY <1>10, <2>1
  <2>3. d3[1 + n + n + 1] = q[1]
    BY ONLY <1>13, <2>2
  <2> QED BY ONLY <1>14, <2>1, <2>2, <2>3
<1>21. 2 * n + 2 <= Len(d)
  BY ONLY <1>10, n \in Nat
<1> QED BY <1>10, <1>16, <1>17, <1>18, <1>19, <1>20, <1>21, Zenon DEF IfList

\* With or without an else.
LEMMA IfNamesList ==
    ASSUME NEW t, t \in Nat, NEW n, n \in Nat
    PROVE  IfList(IfNames(t, n, TRUE), t, n, 2 * n + 2) /\ IfList(IfNames(t, n, FALSE), t, n, 0)
<1>1. PICK q, e : q = <<After(Part("else", t))>> /\ e = << >>
  BY Zenon
<1>2. "else" \in Kinds
  BY DEF Kinds
<1>3. IsPlaces(q, 1) /\ q[1] = After(Part("else", t))
  BY <1>1, <1>2, PartPlaces, Zenon
<1>4. IsPlaces(e, 0)
  BY <1>1 DEF IsPlaces
<1>5. PICK d1, d2 :
        /\ d1 = Join(Join(Join(Join(<<After(Part("if", t))>>, Elifs(t, n)), ElifBodies(t, n)), q),
                     <<After(Part("endif", t))>>)
        /\ d2 = Join(Join(Join(Join(<<After(Part("if", t))>>, Elifs(t, n)), ElifBodies(t, n)), e),
                     <<After(Part("endif", t))>>)
  OBVIOUS
<1>6. IfNames(t, n, TRUE) = d1
  BY <1>1, <1>5, Zenon DEF IfNames, Join, Elifs, ElifBodies
<1>7. IfNames(t, n, FALSE) = d2
  BY <1>1, <1>5, Zenon DEF IfNames, Join, Elifs, ElifBodies
<1>8. IfList(d1, t, n, 2 * n + 2)
  BY <1>3, <1>5, ListJoined
<1>9. IfList(d2, t, n, 0)
  BY <1>4, <1>5, ListJoined
<1> QED BY <1>6, <1>7, <1>8, <1>9, Zenon

\* The frame of a new if.
CondFrame(base, t, n, l, z) ==
    IfFrame(t, base + 1, [i \in 1 .. n |-> base + 1 + i], [i \in 1 .. n |-> base + 1 + n + i],
            IF l # 0 THEN base + l ELSE 0, base + z, 0, FALSE)

\* Its fields.
FrameAt(c, base, t, n, l, z) ==
    /\ c.k = "if" /\ c.t = t /\ c.body = base + 1 /\ c.end = base + z /\ c.i = 0
    /\ c.els = (IF l # 0 THEN base + l ELSE 0) /\ Len(c.conds) = n
    /\ \A m \in 1 .. n : c.conds[m] = base + 1 + m /\ c.bodies[m] = base + 1 + n + m

\* It is a frame outside the else.
FrameShape(c) ==
    ~c.inElse /\ c = IfFrame(c.t, c.body, c.conds, c.bodies, c.els, c.end, c.i, c.inElse)

\* The fields of the frame of a new if.
LEMMA CondFrameFields ==
    ASSUME NEW base, base \in Nat, NEW t, NEW n, n \in Nat, NEW l, NEW z, NEW c, c = CondFrame(base, t, n, l, z)
    PROVE  FrameAt(c, base, t, n, l, z) /\ FrameShape(c)
<1>1. PICK cs, bs, es, en, f, b :
        /\ cs = [i \in 1 .. n |-> base + 1 + i] /\ bs = [i \in 1 .. n |-> base + 1 + n + i]
        /\ es = (IF l # 0 THEN base + l ELSE 0) /\ en = base + z /\ f = FALSE /\ b = base + 1
  BY Zenon
<1>2. c = IfFrame(t, b, cs, bs, es, en, 0, f)
  BY <1>1, Zenon DEF CondFrame
<1>3. /\ c.k = "if" /\ c.t = t /\ c.body = b /\ c.conds = cs /\ c.bodies = bs
      /\ c.els = es /\ c.end = en /\ c.i = 0 /\ c.inElse = f
  BY ONLY <1>2, IfFrameFields
<1>4. c = IfFrame(c.t, c.body, c.conds, c.bodies, c.els, c.end, c.i, c.inElse)
  BY <1>2, <1>3, Zenon
<1>5. ~c.inElse
  BY <1>1, <1>3, Zenon
<1>6. /\ cs = [i \in 1 .. n |-> base + 1 + i] /\ bs = [i \in 1 .. n |-> base + 1 + n + i]
      /\ n \in Nat /\ base \in Nat
  BY <1>1, Zenon
<1>7. Len(cs) = n /\ \A m \in 1 .. n : cs[m] = base + 1 + m /\ bs[m] = base + 1 + n + m
  BY ONLY <1>6
<1>8. es = (IF l # 0 THEN base + l ELSE 0) /\ en = base + z /\ b = base + 1
  BY <1>1, Zenon
<1>9. FrameAt(c, base, t, n, l, z)
  BY ONLY <1>3, <1>7, <1>8 DEF FrameAt
<1>10. FrameShape(c)
  BY <1>4, <1>5, Zenon DEF FrameShape
<1> QED BY <1>9, <1>10

\* The blocks after base are made for these places.
Lists(h, base, names) == \A j \in 1 .. Len(names) : NameIs(h, base + j, names[j])

\* Its blocks are made for its places, and none of its parts is there yet.
LEMMA CondFrameOK ==
    ASSUME NEW u, NEW tok, NEW t, t \in 1 .. Len(u), OnlyToken(u, t, tok), tok.k = "if", NEW n, n \in Nat,
           NEW base, base \in Nat, NEW names, NEW l, IfList(names, t, n, l), NEW h, Lists(h, base, names),
           NEW c, c = CondFrame(base, t, n, l, Len(names))
    PROVE  /\ IfOK(u, h, c) /\ FrameOK(u, h, c) /\ OwesAt(c, t)
           /\ NameIs(h, c.body, After(Part("if", t)))
<1>1. /\ c.k = "if" /\ c.t = t /\ c.body = base + 1 /\ c.end = base + Len(names) /\ c.i = 0
      /\ c.els = (IF l # 0 THEN base + l ELSE 0) /\ Len(c.conds) = n
      /\ \A m \in 1 .. n : c.conds[m] = base + 1 + m /\ c.bodies[m] = base + 1 + n + m
  <2>1. base \in Nat /\ n \in Nat /\ c = CondFrame(base, t, n, l, Len(names))
    OBVIOUS
  <2>2. FrameAt(c, base, t, n, l, Len(names))
    BY ONLY <2>1, CondFrameFields
  <2> QED BY <2>2 DEF FrameAt
<1>2. /\ ~c.inElse
      /\ c = IfFrame(c.t, c.body, c.conds, c.bodies, c.els, c.end, c.i, c.inElse)
  <2>1. base \in Nat /\ n \in Nat /\ c = CondFrame(base, t, n, l, Len(names))
    OBVIOUS
  <2>2. FrameShape(c)
    BY ONLY <2>1, CondFrameFields
  <2> QED BY <2>2, Zenon DEF FrameShape
<1>3. /\ Len(names) \in Nat /\ 2 * n + 2 <= Len(names)
      /\ names[1] = After(Part("if", t))
      /\ (\A m \in 1 .. n : names[1 + m] = At(Token("elif", t, m)))
      /\ (\A m \in 1 .. n : names[1 + n + m] = After(Token("elif", t, m)))
      /\ (l # 0 => l \in 1 .. Len(names) /\ names[l] = After(Part("else", t)))
      /\ names[Len(names)] = After(Part("endif", t))
  BY DEF IfList
<1>4. /\ 1 \in 1 .. Len(names) /\ Len(names) \in 1 .. Len(names)
      /\ \A m \in 1 .. n : /\ 1 + m \in 1 .. Len(names) /\ 1 + n + m \in 1 .. Len(names)
                           /\ base + (1 + m) = base + 1 + m /\ base + (1 + n + m) = base + 1 + n + m
  BY <1>3
<1>5. NameIs(h, c.body, After(Part("if", t))) /\ NameIs(h, c.end, After(Part("endif", t)))
  BY <1>1, <1>3, <1>4, Zenon DEF Lists
<1>6. ASSUME NEW m \in 1 .. n
      PROVE  /\ NameIs(h, c.conds[m], At(Token("elif", t, m)))
             /\ NameIs(h, c.bodies[m], After(Token("elif", t, m)))
  <2>1. NameIs(h, base + (1 + m), names[1 + m]) /\ NameIs(h, base + (1 + n + m), names[1 + n + m])
    BY <1>4 DEF Lists
  <2>2. /\ base + (1 + m) = c.conds[m] /\ names[1 + m] = At(Token("elif", t, m))
        /\ base + (1 + n + m) = c.bodies[m] /\ names[1 + n + m] = After(Token("elif", t, m))
    BY <1>1, <1>3, <1>4, ZenonT(30)
  <2> QED BY <2>1, <2>2
<1>7. c.els # 0 => NameIs(h, c.els, After(Part("else", t)))
  BY <1>1, <1>3, Zenon DEF Lists
<1>8. /\ \A m \in Nat : Token("elif", t, m) \notin Range(u)
      /\ Part("else", t) \notin Range(u) /\ Part("endif", t) \notin Range(u)
  <2>1. \A m \in Nat : Token("elif", t, m).c = t /\ Token("elif", t, m).k = "elif"
    BY PartFields
  <2>2. /\ Part("else", t).c = t /\ Part("else", t).k = "else"
        /\ Part("endif", t).c = t /\ Part("endif", t).k = "endif"
    BY PartFields, Zenon
  <2> QED BY <2>1, <2>2 DEF OnlyToken
<1>9. (\A m \in Nat : m \notin 1 .. 0) /\ 0 \in Nat /\ 0 <= n
  OBVIOUS
<1>10. c.i \in Nat /\ Len(c.conds) \in Nat /\ c.i <= Len(c.conds)
  BY <1>1
<1>11. \A m \in Nat : Token("elif", c.t, m) \in Range(u) <=> m \in 1 .. c.i
  BY <1>1, <1>8, <1>9
<1>12. \A m \in 1 .. Len(c.conds) : /\ NameIs(h, c.conds[m], At(Token("elif", c.t, m)))
                                    /\ NameIs(h, c.bodies[m], After(Token("elif", c.t, m)))
  BY <1>1, <1>6, Zenon
<1>13. /\ c.els # 0 => NameIs(h, c.els, After(Part("else", c.t)))
       /\ NameIs(h, c.end, After(Part("endif", c.t)))
       /\ Part("else", c.t) \notin Range(u) /\ Part("endif", c.t) \notin Range(u)
  BY <1>1, <1>5, <1>7, <1>8
<1>14. IfOK(u, h, c)
  BY <1>2, <1>10, <1>11, <1>12, <1>13, Zenon DEF IfOK
<1>15. OwesAt(c, t)
  <2>1. \A y \in Owes(c) : \/ \E m \in 1 .. Len(c.conds) : y = Token("elif", c.t, m)
                           \/ y = Part("else", c.t)
    BY <1>1, <1>10, OwesHave, Zenon
  <2>2. \A m : Token("elif", c.t, m).c = t
    BY <1>1, PartFields
  <2>3. Part("else", c.t).c = t
    BY <1>1, PartFields
  <2> QED BY ONLY <2>1, <2>2, <2>3 DEF OwesAt
<1> QED BY <1>1, <1>5, <1>14, <1>15 DEF FrameOK

\* An if: its blocks, the condition, and the insert point in its body.
LEMMA IfBuilds ==
    ASSUME NEW s, NEW fr, NEW g, BuildOK(s, fr, g), NEW t, t = Len(s) + 1, NEW tok, tok = Part("if", t),
           NEW n, n \in Nat, NEW names, NEW l, IfList(names, t, n, l), NEW h, h = NewBlocks(g, names),
           NEW c, c = CondFrame(Len(g.blocks), t, n, l, Len(names)), NEW e, e = BeginIf(h, c)
    PROVE  BuildOK(Append(s, tok), Append(fr, c), e)
<1>1. PICK fs, W, u, base : /\ fs = Append(fr, c) /\ u = Append(s, tok) /\ W = View(u, fs)
                            /\ base = Len(g.blocks)
  BY Zenon
<1>2. /\ WellFormed(g) /\ s \in Seq(Tok) /\ FramesOK(s, fr, g) /\ Len(s) \in Nat
      /\ base \in Nat /\ DOMAIN g.blocks = 1 .. base /\ g.cur \in 1 .. base
  BY <1>1 DEF BuildOK, CodeOK, SourceOK, WellFormed, Fn
<1>3. FrameAt(c, base, t, n, l, Len(names))
  BY <1>1, <1>2, CondFrameFields, Zenon
<1>4. OwesAt(c, t)
  <2>1. c.k = "if" /\ c.t = t /\ Len(c.conds) = n
    BY <1>3 DEF FrameAt
  <2>2. \A y \in Owes(c) : \/ \E m \in 1 .. Len(c.conds) : y = Token("elif", c.t, m)
                           \/ y = Part("else", c.t)
    BY <2>1, OwesHave
  <2>3. \A m : Token("elif", c.t, m).c = t
    BY <2>1, PartFields
  <2>4. Part("else", c.t).c = t
    BY <2>1, PartFields
  <2> QED BY ONLY <2>2, <2>3, <2>4 DEF OwesAt
<1>5. /\ SourceOK(u) /\ LastTok(u) = tok
      /\ CodeOK(W, g) /\ Arrives(W, g, At(tok)) /\ tok \in W.R
      /\ tok \in Tok /\ tok.k = "if" /\ tok.c = t /\ tok.n = 0 /\ tok.c \in 1 .. W.L
      /\ OnlyToken(u, t, tok)
  <2>1. PICK k : k = "if"
    OBVIOUS
  <2>2. k \in {"if", "while"} /\ tok = Part(k, Len(s) + 1) /\ OwesAt(c, Len(s) + 1)
    BY <1>4, <2>1
  <2>3. CompoundStep(s, fr, g, k, tok, c, fs, W)
    BY <1>1, <2>2 DEF CompoundStep
  <2>4. CompoundAdds(s, fr, g, k, tok, c, W)
    BY ONLY <2>3, CompoundAdded
  <2> QED BY <1>1, <2>1, <2>4 DEF CompoundAdds
<1>6. /\ Reached(W, g, h, At(tok)) /\ KeepsBut(g, h, {}) /\ h.cur = g.cur
      /\ Len(h.blocks) = base + Len(names)
      /\ \A j \in 1 .. Len(names) : h.blocks[base + j].name = names[j]
  <2>1. names \in Seq(Place)
    BY DEF IfList
  <2> QED BY <1>1, <1>5, <2>1, NewBlocksReached, SMTT(30)
<1>7. /\ WellFormed(h) /\ Keeps(g, h) /\ CodeOK(W, h) /\ Arrives(W, h, At(tok))
      /\ Len(names) \in Nat /\ DOMAIN h.blocks = 1 .. base + Len(names) /\ 1 \in 1 .. Len(names)
  <2>1. WellFormed(h) /\ Keeps(g, h) /\ CodeOK(W, h) /\ Arrives(W, h, At(tok))
    BY <1>6 DEF Reached, CodeOK
  <2>2. Len(names) \in Nat /\ 2 * n + 2 <= Len(names)
    BY DEF IfList
  <2>3. DOMAIN h.blocks = 1 .. base + Len(names)
    BY <1>6, <2>1 DEF WellFormed, Fn
  <2> QED BY <2>1, <2>2, <2>3
<1>8. Lists(h, base, names)
  <2>1. \A j \in 1 .. Len(names) : base + j \in 1 .. base + Len(names)
    BY <1>2, <1>7
  <2> QED BY <1>6, <1>7, <2>1, Zenon DEF Lists, NameIs
<1>9. t \in 1 .. Len(u)
  <2>1. Len(u) = Len(s) + 1
    BY <1>1, <1>2, <1>5, SourceAppend
  <2> QED BY <1>2, <2>1
<1>10. IfOK(u, h, c) /\ FrameOK(u, h, c) /\ NameIs(h, c.body, After(tok))
  <2>1. /\ t \in 1 .. Len(u) /\ OnlyToken(u, t, tok) /\ tok.k = "if" /\ n \in Nat /\ base \in Nat
        /\ IfList(names, t, n, l) /\ Lists(h, base, names) /\ c = CondFrame(base, t, n, l, Len(names))
    BY <1>1, <1>2, <1>5, <1>8, <1>9
  <2>2. IfOK(u, h, c) /\ FrameOK(u, h, c) /\ NameIs(h, c.body, After(Part("if", t)))
    BY ONLY <2>1, CondFrameOK, Zenon
  <2> QED BY <2>2
<1>11. c.t = t /\ c.body = base + 1 /\ Len(c.conds) \in Nat /\ c.i = 0
  BY <1>3 DEF FrameAt
<1>12. FramesOK(u, fs, h) /\ fs # << >> /\ c = fs[Len(fs)]
  <2>1. FramesOK(u, fs, h)
    BY <1>1, <1>2, <1>5, <1>7, <1>10, <1>11, FramesPush, Zenon
  <2>2. PICK S : fr \in Seq(S)
    BY <1>2 DEF FramesOK
  <2>3. PICK U : fr \in Seq(U) /\ c \in U
    <3>1. fr \in Seq(S \cup {c}) /\ c \in S \cup {c}
      BY <2>2
    <3> QED BY <3>1
  <2>4. fs # << >> /\ c = fs[Len(fs)]
    BY ONLY <1>1, <2>3
  <2> QED BY <2>1, <2>4
<1>13. PICK b, z : b = c.body /\ z = NextBlock(c, 0)
  OBVIOUS
<1>14. NameIs(h, z, OtherwiseIn(W.T, tok))
  <2>1. 0 \in Nat /\ 0 <= Len(c.conds) /\ tok.k \in {"if", "elif"} /\ tok.c = c.t /\ tok.n = 0
    BY <1>5, <1>11
  <2>2. NameIs(h, NextBlock(c, 0), OtherwiseIn(Branches(u, fs), tok))
    BY ONLY <1>10, <1>12, <2>1, NextName, Zenon
  <2>3. W.T = Branches(u, fs)
    BY <1>1 DEF View
  <2> QED BY <1>13, <2>2, <2>3
<1>15. PICK I : I = CondBr(tok, b, z)
  OBVIOUS
<1>16. I \in Ins /\ IsTerminator(I) /\ Fits(W, h, At(tok), I)
  <2>1. NameIs(h, b, After(tok)) /\ Same(W.E, At(tok), At(tok)) /\ tok.k \in {"if", "elif", "while"}
    BY <1>5, <1>10, <1>13, SameRefl
  <2> QED BY ONLY <1>5, <1>7, <1>14, <1>15, <2>1, CondFits
<1>17. e = SetInsertPoint(Emit(h, I), b)
  <2>1. Part("if", c.t) = tok
    BY <1>11
  <2> QED BY <1>13, <1>15, <2>1 DEF BeginIf
<1>18. b \in DOMAIN h.blocks /\ b # h.cur /\ h.blocks[b].ins = << >> /\ h.blocks[b].name = After(tok)
  <2>1. b = base + 1 /\ b \notin 1 .. base /\ b # g.cur
    BY <1>2, <1>11, <1>13
  <2>2. b \in DOMAIN h.blocks /\ h.blocks[b].name = After(tok)
    BY <1>10, <1>13 DEF NameIs
  <2> QED BY <1>2, <1>6, <2>1, <2>2, Zenon DEF KeepsBut
<1>19. Reached(W, h, e, After(tok))
  <2>1. PICK p : p = At(tok)
    OBVIOUS
  <2>2. After(tok).tok = tok
    BY DEF After
  <2>3. /\ CodeOK(W, h) /\ Arrives(W, h, p) /\ I \in Ins /\ Fits(W, h, p, I) /\ IsTerminator(I)
        /\ b \in DOMAIN h.blocks /\ b # h.cur /\ h.blocks[b].ins = << >> /\ h.blocks[b].name.tok \in W.R
        /\ e = SetInsertPoint(Emit(h, I), b)
    BY ONLY <1>5, <1>7, <1>16, <1>17, <1>18, <2>1, <2>2
  <2>4. Reached(W, h, e, h.blocks[b].name)
    BY ONLY <2>3, EmitAndEnter, Zenon
  <2> QED BY <1>18, <2>4
<1>20. Reached(W, g, e, After(tok)) /\ Keeps(g, e) /\ Keeps(h, e)
  BY <1>2, <1>6, <1>19, ReachedTrans, Zenon DEF Reached
<1>21. FramesOK(u, fs, e)
  <2>1. IfOK(u, e, c)
    <3>1. \A m \in 1 .. Len(c.conds) : /\ NameIs(e, c.conds[m], At(Token("elif", c.t, m)))
                                       /\ NameIs(e, c.bodies[m], After(Token("elif", c.t, m)))
      BY <1>10, <1>20, NameKept, Zenon DEF IfOK
    <3>2. /\ c.els # 0 => NameIs(e, c.els, After(Part("else", c.t)))
          /\ NameIs(e, c.end, After(Part("endif", c.t)))
      BY <1>10, <1>20, NameKept, Zenon DEF IfOK
    <3> QED BY <1>10, <3>1, <3>2, Zenon DEF IfOK
  <2>2. FrameOK(u, e, c)
    BY <1>9, <1>11, <2>1 DEF FrameOK
  <2> QED BY <1>1, <1>2, <1>5, <1>11, <1>20, <2>2, FramesPush, Zenon
<1> QED BY <1>1, <1>5, <1>20, <1>21, TokenBuilt

-----------------------------------------------------------------------------
(* Every statement is built as its lemma says. *)

\* The new function.
LEMMA InitBuilds == ASSUME FlowInit PROVE BuildOK(src, frames, func)
<1>1. PICK s : s = << >>
  OBVIOUS
<1>2. src = s /\ frames = s /\ func = NewFunction /\ s = << >>
  BY <1>1 DEF FlowInit
<1>3. /\ s \in Seq(Tok) /\ DOMAIN s = {} /\ Len(s) = 0 /\ Range(s) = {} /\ LastTok(s) = Begin
      /\ s \in Seq({})
  BY <1>2 DEF Range, LastTok
<1>4. SourceOK(s)
  BY <1>3 DEF SourceOK
<1>5. Begin \in Tok
  BY DEF Begin, Part, Token, Tok, Kinds
<1>6. Part("done", 0) \in Tok
  BY DEF Part, Token, Tok, Kinds
<1>7. PICK p, q : p = After(Begin) /\ q = Done
  OBVIOUS
<1>8. p \in Place /\ q \in Place /\ p.tok = Begin
  BY <1>5, <1>6, <1>7, PlacesOfTok, Zenon DEF Done, After
<1>9. PICK A, B : A = Block(TRUE, p) /\ B = Block(FALSE, q)
  BY Zenon
<1>10. /\ A \in Blk /\ A.ins = << >> /\ A.name = p
       /\ B \in Blk /\ B.ins = << >> /\ B.name = q
  BY <1>8, <1>9, BlockFacts, Zenon
<1>11. func = [blocks |-> <<A, B>>, cur |-> 1, x |-> 0]
  BY <1>2, <1>7, <1>9 DEF NewFunction, Entry
<1>12. /\ func.blocks = <<A, B>> /\ func.cur = 1 /\ func.x = 0
       /\ func.blocks \in Seq(Blk) /\ DOMAIN func.blocks = 1 .. 2
       /\ func.blocks[1] = A /\ func.blocks[2] = B
  BY <1>10, <1>11
<1>13. WellFormed(func)
  BY <1>11, <1>12 DEF WellFormed, Fn
<1>14. \A b \in 1 .. 2 : b = 1 \/ b = 2
  OBVIOUS
<1>15. \A b \in DOMAIN func.blocks : func.blocks[b].ins = << >>
  BY <1>10, <1>12, <1>14
<1>16. PICK V : V = View(s, s)
  OBVIOUS
<1>17. Begin \in V.R
  BY <1>16 DEF View
<1>18. CodeOK(V, func)
  <2>1. func.blocks[func.cur].name.tok \in V.R
    BY <1>8, <1>10, <1>12, <1>17
  <2>2. \A b \in DOMAIN func.blocks : BlockOK(V, func, func.blocks[b])
    BY <1>15 DEF BlockOK
  <2> QED BY <1>13, <2>1, <2>2 DEF CodeOK
<1>19. Arrives(V, func, After(LastTok(s)))
  <2>1. EndOf(A) = 1
    BY <1>10 DEF EndOf
  <2>2. PlaceAt(A, EndOf(A)) = p
    BY <1>10, <2>1 DEF PlaceAt
  <2> QED BY <1>3, <1>7, <1>12, <2>2, SameRefl DEF Arrives
<1>20. UsesOK(func)
  <2>1. \A b \in DOMAIN func.blocks : ~Uses(func, b)
    BY <1>15 DEF Uses
  <2> QED BY <1>12, <2>1 DEF UsesOK
<1>21. FramesOK(s, s, func)
  BY <1>3 DEF FramesOK
<1>22. BaseOK(func)
  BY <1>7, <1>10, <1>12, <1>14 DEF BaseOK, NameIs, Entry, Exit
<1> QED BY <1>2, <1>4, <1>16, <1>18, <1>19, <1>20, <1>21, <1>22 DEF BuildOK

\* The action Assign.
LEMMA AssignStep ==
    ASSUME BuildOK(src, frames, func), Assign PROVE BuildOK(src', frames', func')
<1>1. PICK tok, h : tok = Part("set", Len(src) + 1) /\ h = Emit(func, Instr(tok))
  OBVIOUS
<1>2. /\ src' = Append(src, tok) /\ frames' = frames
      /\ func' = Placed(h, IF h.x = 0 THEN func.cur ELSE h.x)
  BY <1>1 DEF Assign, Source, Statement, Here, Placed
<1>3. BuildOK(Append(src, tok), frames, Placed(h, IF h.x = 0 THEN func.cur ELSE h.x))
  BY <1>1, AssignBuilds
<1> QED BY <1>2, <1>3

\* The action TakePlace.
LEMMA TakePlaceStep ==
    ASSUME BuildOK(src, frames, func), TakePlace PROVE BuildOK(src', frames', func')
<1>1. PICK tok, h : tok = Part("copy", Len(src) + 1) /\ h = Emit(func, Instr(tok))
  OBVIOUS
<1>2. src' = Append(src, tok) /\ frames' = frames /\ func' = Placed(h, Argument)
  BY <1>1 DEF TakePlace, Source, Statement, Here, Placed
<1>3. BuildOK(Append(src, tok), frames, Placed(h, Argument))
  BY <1>1, TakePlaceBuilds
<1> QED BY <1>2, <1>3

\* The action Read, unless the compiler crashes.
LEMMA ReadStep ==
    ASSUME BuildOK(src, frames, func), Read, phase' = "build" PROVE BuildOK(src', frames', func')
<1>1. PICK tok, h : tok = Part("get", Len(src) + 1) /\ h = Emit(func, Instr(tok))
  OBVIOUS
<1>2. src' = Append(src, tok) /\ frames' = frames /\ func' = h /\ func.x # 0
  BY <1>1 DEF Read, Source, Statement, Here
<1>3. BuildOK(Append(src, tok), frames, h)
  BY <1>1, <1>2, ReadBuilds
<1> QED BY <1>2, <1>3

\* The action VectorExpression.
LEMMA VectorStep ==
    ASSUME BuildOK(src, frames, func), VectorExpression PROVE BuildOK(src', frames', func')
<1>1. PICK tok, h : tok = Part("vec", Len(src) + 1) /\ h = VectorBlocks(Emit(func, Instr(tok)), After(tok))
  OBVIOUS
<1>2. src' = Append(src, tok) /\ frames' = frames /\ func' = h
  BY <1>1 DEF VectorExpression, Source, Statement, Here
<1>3. BuildOK(Append(src, tok), frames, h)
  BY <1>1, VectorBuilds
<1> QED BY <1>2, <1>3

\* The action ReturnValue.
LEMMA ReturnStep ==
    ASSUME BuildOK(src, frames, func), ReturnValue PROVE BuildOK(src', frames', func')
<1>1. PICK tok, h : tok = Part("return", Len(src) + 1) /\ h = Emit(Emit(func, Instr(tok)), Br(Exit))
  OBVIOUS
<1>2. src' = Append(src, tok) /\ frames' = frames /\ func' = h
  BY <1>1 DEF ReturnValue, Source, Statement, Here
<1>3. BuildOK(Append(src, tok), frames, h)
  BY <1>1, ReturnBuilds
<1> QED BY <1>2, <1>3

\* The loop of a break is the last one of the frames.
LEMMA InnerLoopIsLast == Loops = LoopsOf(frames) /\ InnerLoop = LastLoop(frames)
BY DEF Loops, LoopsOf, InnerLoop, LastLoop

\* The action BreakLoop.
LEMMA BreakStep ==
    ASSUME BuildOK(src, frames, func), BreakLoop PROVE BuildOK(src', frames', func')
<1>1. PICK c, tok, h : /\ c = LastLoop(frames) /\ tok = Token("break", Len(src) + 1, c.t)
                       /\ h = Emit(func, Br(c.end))
  OBVIOUS
<1>2. src' = Append(src, tok) /\ frames' = frames /\ func' = h /\ LoopsOf(frames) # {}
  BY <1>1, InnerLoopIsLast DEF BreakLoop, InLoop, Source, Here
<1>3. BuildOK(Append(src, tok), frames, h)
  BY <1>1, <1>2, BreakBuilds
<1> QED BY <1>2, <1>3

\* The action ContinueLoop.
LEMMA ContinueStep ==
    ASSUME BuildOK(src, frames, func), ContinueLoop PROVE BuildOK(src', frames', func')
<1>1. PICK c, tok, h : /\ c = LastLoop(frames) /\ tok = Token("continue", Len(src) + 1, c.t)
                       /\ h = Emit(func, Br(c.cond))
  OBVIOUS
<1>2. src' = Append(src, tok) /\ frames' = frames /\ func' = h /\ LoopsOf(frames) # {}
  BY <1>1, InnerLoopIsLast DEF ContinueLoop, InLoop, Source, Here
<1>3. BuildOK(Append(src, tok), frames, h)
  BY <1>1, <1>2, ContinueBuilds
<1> QED BY <1>2, <1>3

\* The action While.
LEMMA WhileStep ==
    ASSUME BuildOK(src, frames, func), While PROVE BuildOK(src', frames', func')
<1>1. PICK tok : tok = Part("while", Len(src) + 1)
  OBVIOUS
<1>2. PICK l : l = SourceLoop(func, Len(src) + 1, tok)
  OBVIOUS
<1>3. PICK h : h = SourceCond(l, tok)
  OBVIOUS
<1>4. src' = Append(src, tok) /\ frames' = Append(frames, l.c) /\ func' = h
  BY <1>1, <1>2, <1>3, Zenon DEF While, Source, Statement, Here, SourceLoop, SourceCond
<1>5. BuildOK(Append(src, tok), Append(frames, l.c), h)
  BY <1>1, <1>2, <1>3, WhileBuilds
<1> QED BY <1>4, <1>5

\* The action EndWhile.
LEMMA EndWhileStep ==
    ASSUME BuildOK(src, frames, func), EndWhile PROVE BuildOK(src', frames', func')
<1>1. PICK c : c = frames[Len(frames)]
  OBVIOUS
<1>2. PICK tok, h : tok = Part("endwhile", c.t) /\ h = FinishLoop(func, c)
  OBVIOUS
<1>3. /\ src' = Append(src, tok) /\ frames' = Front(frames) /\ func' = h
      /\ frames # << >> /\ c.k = "while"
  BY <1>1, <1>2, Zenon DEF EndWhile, Source, Top
<1>4. BuildOK(Append(src, tok), Front(frames), h)
  BY <1>1, <1>2, <1>3, EndWhileBuilds
<1> QED BY <1>3, <1>4

\* The place of the else among the blocks of an if.
ElseAt(n, b) == IF b THEN 2 * n + 2 ELSE 0

\* A call of NewCondition.
CondStep(g, t, n, b, names, r, l, base) ==
    /\ n \in Nat /\ b \in BOOLEAN /\ r = NewCondition(g, t, n, b, names) /\ l = ElseAt(n, b)
    /\ base = Len(g.blocks) /\ base \in Nat

\* Its result.
CondMade(g, t, n, names, r, l, base) ==
    r.g = NewBlocks(g, names) /\ r.c = CondFrame(base, t, n, l, Len(names))

\* NewCondition makes the frame that CondFrame describes.
LEMMA NewConditionFrame ==
    ASSUME NEW g, NEW t, NEW n, NEW b, NEW names, NEW r, NEW l, NEW base,
           CondStep(g, t, n, b, names, r, l, base)
    PROVE  CondMade(g, t, n, names, r, l, base)
<1> SUFFICES ASSUME n \in Nat, b \in BOOLEAN, r = NewCondition(g, t, n, b, names), l = ElseAt(n, b),
                    base = Len(g.blocks), base \in Nat
             PROVE  r.g = NewBlocks(g, names) /\ r.c = CondFrame(base, t, n, l, Len(names))
  BY Zenon DEF CondStep, CondMade
<1>1. l # 0 <=> b
  <2>1. 2 * n + 2 # 0
    OBVIOUS
  <2> QED BY <2>1, Zenon DEF ElseAt
<1>2. (IF b THEN base + 2 * n + 2 ELSE 0) = (IF l # 0 THEN base + l ELSE 0)
  <2>1. CASE b
    <3>1. l = 2 * n + 2
      BY <2>1, Zenon DEF ElseAt
    <3>2. base + 2 * n + 2 = base + l
      BY ONLY <3>1, n \in Nat, base \in Nat
    <3> QED BY <1>1, <2>1, <3>2, Zenon
  <2>2. CASE ~b
    BY <1>1, <2>2, Zenon
  <2> QED BY <2>1, <2>2, Zenon
<1>3. PICK cs, bs, es, en, f, d, h :
        /\ cs = [i \in 1 .. n |-> base + 1 + i] /\ bs = [i \in 1 .. n |-> base + 1 + n + i]
        /\ es = (IF l # 0 THEN base + l ELSE 0) /\ en = base + Len(names) /\ f = FALSE /\ d = base + 1
        /\ h = NewBlocks(g, names)
  BY Zenon
<1>4. CondFrame(base, t, n, l, Len(names)) = IfFrame(t, d, cs, bs, es, en, 0, f)
  BY <1>3, Zenon DEF CondFrame
<1>5. r = [g |-> h, c |-> IfFrame(t, d, cs, bs, es, en, 0, f)]
  BY <1>2, <1>3, Zenon DEF NewCondition, Newest, IfFrame
<1>6. r.g = h /\ r.c = IfFrame(t, d, cs, bs, es, en, 0, f)
  BY ONLY <1>5
<1> QED BY <1>3, <1>4, <1>6, Zenon

\* The action If.
LEMMA IfStep ==
    ASSUME BuildOK(src, frames, func), NEW n \in Nat, NEW b \in BOOLEAN, If(n, b)
    PROVE  BuildOK(src', frames', func')
<1>1. PICK t : t = Len(src) + 1
  OBVIOUS
<1>2. PICK tok, names, l : tok = Part("if", t) /\ names = IfNames(t, n, b) /\ l = ElseAt(n, b)
  OBVIOUS
<1>3. PICK r : r = NewCondition(func, t, n, b, names)
  OBVIOUS
<1>4. PICK h, c : h = r.g /\ c = r.c
  OBVIOUS
<1>5. PICK e : e = BeginIf(h, c)
  OBVIOUS
<1>6. src' = Append(src, tok) /\ frames' = Append(frames, c) /\ func' = e
  BY <1>1, <1>2, <1>3, <1>4, <1>5, Zenon DEF If, Source, Statement, Here
<1>7. WellFormed(func) /\ src \in Seq(Tok)
  BY DEF BuildOK, CodeOK, SourceOK
<1>8. Len(func.blocks) \in Nat /\ t \in Nat
  BY <1>1, <1>7 DEF WellFormed, Fn
<1>9. h = NewBlocks(func, names) /\ c = CondFrame(Len(func.blocks), t, n, l, Len(names))
  <2>1. PICK base : base = Len(func.blocks) /\ base \in Nat
    BY <1>8
  <2>2. n \in Nat /\ b \in BOOLEAN /\ r = NewCondition(func, t, n, b, names)
    BY <1>3
  <2>3. CondStep(func, t, n, b, names, r, l, base)
    BY <1>2, <2>1, <2>2, Zenon DEF CondStep
  <2>4. CondMade(func, t, n, names, r, l, base)
    BY ONLY <2>3, NewConditionFrame
  <2> QED BY <1>4, <2>1, <2>4 DEF CondMade
<1>10. IfList(names, t, n, l)
  <2>1. IfList(IfNames(t,n,TRUE), t, n, 2*n+2) /\ IfList(IfNames(t,n,FALSE), t, n, 0)
    BY <1>8, IfNamesList, Zenon
  <2>2. CASE b
    <3>1. b = TRUE
      BY <2>2
    <3>2. names = IfNames(t, n, TRUE) /\ l = 2 * n + 2
      BY <1>2, <3>1, Zenon DEF ElseAt
    <3> QED BY <2>1, <3>2, Zenon
  <2>3. CASE ~b
    <3>1. b = FALSE
      BY <2>3
    <3>2. names = IfNames(t, n, FALSE) /\ l = 0
      BY <1>2, <3>1, Zenon DEF ElseAt
    <3> QED BY <2>1, <3>2, Zenon
  <2> QED BY <2>2, <2>3
<1>11. /\ BuildOK(src, frames, func) /\ t = Len(src) + 1 /\ tok = Part("if", t) /\ n \in Nat
       /\ IfList(names, t, n, l) /\ h = NewBlocks(func, names)
       /\ c = CondFrame(Len(func.blocks), t, n, l, Len(names)) /\ e = BeginIf(h, c)
  BY <1>1, <1>2, <1>5, <1>9, <1>10
<1>12. BuildOK(Append(src, tok), Append(frames, c), e)
  BY ONLY <1>11, IfBuilds, Zenon
<1> QED BY <1>6, <1>12

\* The action Elif.
LEMMA ElifStep ==
    ASSUME BuildOK(src, frames, func), Elif PROVE BuildOK(src', frames', func')
<1>1. PICK c : c = frames[Len(frames)]
  OBVIOUS
<1>2. PICK i : i = c.i + 1
  OBVIOUS
<1>3. PICK tok, h : tok = Token("elif", c.t, i) /\ h = BeginElif(EndOpenBranch(func, c), c, i)
  OBVIOUS
<1>4. PICK fs : fs = WithTop(frames, Later(c))
  OBVIOUS
<1>5. src' = Append(src, tok) /\ func' = h /\ frames # << >> /\ c.k = "if" /\ c.i < Len(c.conds)
  BY <1>1, <1>2, <1>3, Zenon DEF Elif, Source, Top
<1>6. frames' = [frames EXCEPT ![Len(frames)].i = @ + 1]
  BY DEF Elif
<1>7. frames' = fs
  BY <1>1, <1>4, <1>6 DEF WithTop, Later
<1>8. BuildOK(Append(src, tok), fs, h)
  BY <1>1, <1>2, <1>3, <1>4, <1>5, ElifBuilds
<1> QED BY <1>5, <1>7, <1>8

\* The action Else.
LEMMA ElseStep ==
    ASSUME BuildOK(src, frames, func), Else PROVE BuildOK(src', frames', func')
<1>1. PICK c : c = frames[Len(frames)]
  OBVIOUS
<1>2. PICK tok, h : tok = Part("else", c.t) /\ h = SetInsertPoint(EndOpenBranch(func, c), c.els)
  OBVIOUS
<1>3. PICK fs : fs = WithTop(frames, InElse(c))
  OBVIOUS
<1>4. src' = Append(src, tok) /\ func' = h /\ frames # << >> /\ c.k = "if" /\ c.els # 0 /\ ~c.inElse
  BY <1>1, <1>2, Zenon DEF Else, Source, Top
<1>5. frames' = [frames EXCEPT ![Len(frames)].inElse = TRUE]
  BY DEF Else
<1>6. frames' = fs
  BY <1>1, <1>3, <1>5, Zenon DEF WithTop, InElse
<1>7. tok \notin Range(src)
  <2>1. IfOK(src, func, c)
    BY <1>1, <1>4, TopFacts
  <2> QED BY <1>2, <1>4, <2>1, Zenon DEF IfOK
<1>8. /\ BuildOK(src, frames, func) /\ frames # << >> /\ c = frames[Len(frames)] /\ c.k = "if" /\ c.els # 0
      /\ tok = Part("else", c.t) /\ tok \notin Range(src)
      /\ h = SetInsertPoint(EndOpenBranch(func, c), c.els) /\ fs = WithTop(frames, InElse(c))
  BY <1>1, <1>2, <1>3, <1>4, <1>7
<1>9. BuildOK(Append(src, tok), fs, h)
  BY ONLY <1>8, ElseBuilds
<1> QED BY <1>4, <1>6, <1>9, Zenon

\* The action EndIfElse.
LEMMA EndIfElseStep ==
    ASSUME BuildOK(src, frames, func), EndIfElse PROVE BuildOK(src', frames', func')
<1>1. PICK c : c = frames[Len(frames)]
  OBVIOUS
<1>2. PICK tok, h : tok = Part("endif", c.t) /\ h = FinishCondition(EndOpenBranch(func, c), c)
  OBVIOUS
<1>3. /\ src' = Append(src, tok) /\ frames' = Front(frames) /\ func' = h
      /\ frames # << >> /\ c.k = "if" /\ c.i = Len(c.conds)
  BY <1>1, <1>2, Zenon DEF EndIfElse, Source, Top
<1>4. c.els # 0 => Part("else", c.t) \in Range(src)
  <2>1. IfOK(src, func, c)
    BY <1>1, <1>3, TopFacts
  <2>2. c.els # 0 => c.inElse
    BY <1>1, Zenon DEF EndIfElse, Top
  <2> QED BY <2>1, <2>2, Zenon DEF IfOK
<1>5. BuildOK(Append(src, tok), Front(frames), h)
  BY <1>1, <1>2, <1>3, <1>4, EndIfElseBuilds
<1> QED BY <1>3, <1>5

\* The steps of the compiler before FinishFunction.
Building == Assign \/ TakePlace \/ Read \/ VectorExpression \/ ReturnValue \/ BreakLoop
            \/ ContinueLoop \/ While \/ EndWhile \/ Elif \/ Else \/ EndIfElse
            \/ \E n \in 0 .. MaxElif, e \in BOOLEAN : If(n, e)

\* Every statement keeps the blocks fitting the source.
LEMMA BuildingStep ==
    ASSUME BuildOK(src, frames, func), Building, phase' = "build" PROVE BuildOK(src', frames', func')
<1>1. ASSUME NEW n \in 0 .. MaxElif, NEW e \in BOOLEAN, If(n, e) PROVE BuildOK(src', frames', func')
  <2>1. n \in Nat
    BY FlowAssumption
  <2> QED BY <1>1, <2>1, IfStep
<1> QED BY <1>1, AssignStep, TakePlaceStep, ReadStep, VectorStep, ReturnStep, BreakStep, ContinueStep, WhileStep,
           EndWhileStep, ElifStep, ElseStep, EndIfElseStep DEF Building

-----------------------------------------------------------------------------
(* The finished function. *)

\* The moves of the complete source: it ends after its last token.
FinalRules(s) == Rules(s) \cup {<<After(LastTok(s)), Done>>}

\* What is known of the complete source.
FinalView(s) ==
    [E |-> FinalRules(s), T |-> Branches(s, << >>), L |-> Len(s),
     R |-> Range(s) \cup {Begin, Done.tok}]

\* The finished function.
RunOK(s, g) == SourceOK(s) /\ CodeOK(FinalView(s), g) /\ UsesOK(g) /\ BaseOK(g)

\* The places where the source begins and ends are no token of it.
LEMMA DoneFacts == Done.tok.k = "done" /\ Done.tok.c = 0 /\ Done.w = "at" /\ Done.tok \in Tok /\ Done \in Place
                   /\ Begin.k = "begin" /\ Begin \in Tok
<1>1. Part("done", 0) \in Tok /\ Part("done", 0).k = "done" /\ Part("done", 0).c = 0
  BY DEF Part, Token, Tok, Kinds
<1>2. Begin \in Tok /\ Begin.k = "begin"
  BY DEF Begin, Part, Token, Tok, Kinds
<1>3. PICK d : d = Part("done", 0)
  OBVIOUS
<1>4. Done = At(d) /\ Done.tok = d /\ Done.w = "at"
  BY <1>3 DEF Done, At
<1> QED BY <1>1, <1>2, <1>3, <1>4, PlacesOfTok

\* FinishFunction up to its return instruction.
FinishFn(g) == SetInsertPoint(InsertInto(EmitBrIfOpen(g, Exit), Exit), Exit)

\* The finished function fits the whole source.
LEMMA FinishBuilds ==
    ASSUME NEW s, NEW fr, fr = << >>, NEW g, BuildOK(s, fr, g), NEW e, e = Emit(FinishFn(g), Ret)
    PROVE  RunOK(s, e)
<1>1. PICK V, W : V = View(s, fr) /\ W = FinalView(s)
  OBVIOUS
<1>2. SourceOK(s) /\ s \in Seq(Tok) /\ Len(s) \in Nat
  BY DEF BuildOK, SourceOK
<1>3. /\ V.E = Rules(s) /\ V.T = Branches(s, fr) /\ V.L = Len(s) /\ V.R = Range(s) \cup {Begin}
      /\ W.E = FinalRules(s) /\ W.T = Branches(s, fr) /\ W.L = Len(s) /\ W.R = Range(s) \cup {Begin, Done.tok}
  BY <1>1 DEF View, FinalView
<1>4. Grows(V, W) /\ <<After(LastTok(s)), Done>> \in W.E
  <2>1. V.E \subseteq W.E /\ <<After(LastTok(s)), Done>> \in W.E
    BY <1>3 DEF FinalRules
  <2>2. V.R \subseteq W.R
    BY <1>3
  <2>3. V.L \in Nat /\ W.L \in Nat /\ V.L <= W.L
    BY <1>2, <1>3
  <2>4. \A tok \in Tok : tok.c \in 1 .. V.L => OtherwiseIn(W.T, tok) = OtherwiseIn(V.T, tok)
    BY <1>3
  <2> QED BY <2>1, <2>2, <2>3, <2>4 DEF Grows
<1>5. CodeOK(V, g) /\ Arrives(V, g, After(LastTok(s))) /\ UsesOK(g) /\ BaseOK(g) /\ WellFormed(g)
  BY <1>1 DEF BuildOK, CodeOK
<1>6. CodeOK(W, g) /\ Arrives(W, g, Done)
  BY <1>4, <1>5, CodeMore, SameMove, ArrivesSame
<1>7. Exit \in DOMAIN g.blocks /\ g.blocks[Exit].name = Done
  BY <1>5 DEF BaseOK, NameIs
<1>8. Done.tok \notin V.R
  <2>1. \A q \in DOMAIN s : s[q].k # "done"
    BY <1>2 DEF SourceOK
  <2>2. \A tok \in Range(s) : tok.k # "done"
    BY <2>1 DEF Range
  <2> QED BY <1>3, <2>2, DoneFacts
<1>9. g.blocks[Exit].ins = << >> /\ g.cur # Exit
  BY <1>5, <1>7, <1>8 DEF CodeOK, BlockOK
<1>10. PICK a : a = EmitBrIfOpen(g, Exit)
  OBVIOUS
<1>11. Reached(W, g, a, Done) /\ KeepsBut(g, a, {g.cur}) /\ a.cur = g.cur
  BY <1>6, <1>7, <1>10, SameRefl, BrIfOpenReached, Zenon
<1>12. /\ CodeOK(W, a) /\ Arrives(W, a, Done) /\ Exit \in DOMAIN a.blocks
       /\ a.blocks[Exit].name = Done /\ a.blocks[Exit].ins = << >>
  BY <1>7, <1>9, <1>11 DEF Reached, Keeps, KeepsBut
<1>13. PICK b : b = InsertInto(a, Exit)
  OBVIOUS
<1>14. Reached(W, a, b, Done) /\ KeepsBut(a, b, {}) /\ b.cur = a.cur
  BY <1>12, <1>13, InsertIntoReached
<1>15. /\ CodeOK(W, b) /\ Exit \in DOMAIN b.blocks
       /\ b.blocks[Exit].name = Done /\ b.blocks[Exit].ins = << >>
  BY <1>12, <1>14 DEF Reached, Keeps, KeepsBut
<1>16. PICK c : c = SetInsertPoint(b, Exit)
  OBVIOUS
<1>17. Reached(W, b, c, Done)
  <2>1. b.blocks[Exit].name.tok \in W.R
    BY <1>3, <1>15
  <2> QED BY <1>15, <1>16, <2>1, PointReached
<1>18. e = Emit(c, Ret)
  BY <1>10, <1>13, <1>16 DEF FinishFn
<1>19. Ret \in Ins /\ Ret.k = "ret" /\ IsTerminator(Ret)
  <2>1. PICK t \in Tok : t = Begin
    BY DoneFacts
  <2>2. Ret = [k |-> "ret", t |-> t, yes |-> 0, no |-> 0]
    BY <2>1 DEF Ret
  <2>3. [k |-> "ret", t |-> t, yes |-> 0, no |-> 0] \in Ins
    BY <2>1 DEF Ins, Kinds
  <2> QED BY <2>2, <2>3 DEF IsTerminator
<1>20. Fits(W, c, Done, Ret)
  BY <1>19, SameRefl DEF Fits
<1>21. Reached(W, c, e, Done)
  <2>1. CodeOK(W, c) /\ Arrives(W, c, Done)
    BY <1>17 DEF Reached
  <2>2. PICK p, I : p = Done /\ I = Ret
    OBVIOUS
  <2>3. /\ CodeOK(W, c) /\ Arrives(W, c, p) /\ I \in Ins /\ Fits(W, c, p, I) /\ IsTerminator(I)
        /\ e = Emit(c, I)
    BY <1>18, <1>19, <1>20, <2>1, <2>2
  <2>4. Reached(W, c, e, p)
    BY ONLY <2>3, EmitReached, Zenon
  <2> QED BY <2>2, <2>4
<1>22. Reached(W, g, e, Done)
  <2>1. WellFormed(a) /\ WellFormed(b) /\ WellFormed(c)
    BY <1>12, <1>15, <1>17 DEF CodeOK, Reached
  <2>2. Reached(W, g, b, Done)
    BY <1>5, <1>11, <1>14, ReachedTrans
  <2>3. Reached(W, g, c, Done)
    BY <1>5, <1>17, <2>2, ReachedTrans
  <2> QED BY <1>5, <1>21, <2>3, ReachedTrans
<1> QED BY <1>1, <1>2, <1>5, <1>22, BaseKept DEF RunOK, Reached

\* The action Finish: what runs fits the source and is verified.
LEMMA FinishStep ==
    ASSUME BuildOK(src, frames, func), Finish
    PROVE  RunOK(src', func') /\ (phase' = "run" => Verified(func'))
<1>1. PICK e : e = Emit(FinishFn(func), Ret)
  OBVIOUS
<1>2. frames = << >> /\ src' = src /\ func' = e /\ phase' = IF Verified(e) THEN "run" ELSE "rejected"
  BY <1>1, Zenon DEF Finish, FinishFn
<1>3. RunOK(src, e)
  BY <1>1, <1>2, FinishBuilds
<1>4. phase' = "run" => Verified(e)
  <2>1. "run" # "rejected"
    OBVIOUS
  <2> QED BY <1>2, <2>1, Zenon
<1> QED BY <1>2, <1>3, <1>4, Zenon

-----------------------------------------------------------------------------
(* The entry block is never taken out of the function. *)

\* A block that is in the function.
Inside(B) == "in" \in DOMAIN B /\ B.in = TRUE

\* The entry block is.
EntryIn(q) == (\E S : q \in Seq(S)) /\ 1 \in DOMAIN q /\ Inside(q[1])

\* The same of a function.
SafeIn(g) == "blocks" \in DOMAIN g /\ EntryIn(g.blocks)

\* Changing another block, or the instructions of the entry.
LEMMA EntryPut ==
    ASSUME NEW q, EntryIn(q), NEW b, NEW C, b = 1 => Inside(C) PROVE EntryIn([q EXCEPT ![b] = C])
<1>1. PICK S : q \in Seq(S)
  BY DEF EntryIn
<1>2. PICK r : r = [q EXCEPT ![b] = C]
  BY Zenon
<1>3. DOMAIN r = DOMAIN q /\ \A i \in DOMAIN q : r[i] = IF i = b THEN C ELSE q[i]
  BY <1>2
<1>4. PICK n \in Nat : DOMAIN q = 1 .. n /\ \A i \in 1 .. n : q[i] \in S
  BY <1>1
<1>5. r \in [1 .. n -> S \cup {C}]
  BY <1>2, <1>3, <1>4, Zenon
<1>6. r \in Seq(S \cup {C})
  BY <1>5
<1>7. 1 \in DOMAIN r /\ Inside(r[1])
  BY <1>3 DEF EntryIn
<1> QED BY <1>2, <1>6, <1>7 DEF EntryIn

\* More blocks.
LEMMA EntryMore ==
    ASSUME NEW q, EntryIn(q), NEW r, NEW S, r \in Seq(S) PROVE EntryIn(q \o r)
<1>1. PICK T : q \in Seq(T)
  BY DEF EntryIn
<1>2. q \in Seq(S \cup T) /\ r \in Seq(S \cup T)
  BY <1>1
<1>3. PICK U : q \in Seq(U) /\ r \in Seq(U)
  BY <1>2
<1>4. q \o r \in Seq(U) /\ Len(q \o r) = Len(q) + Len(r) /\ (\A i \in 1 .. Len(q) : (q \o r)[i] = q[i])
      /\ Len(q) \in Nat /\ Len(r) \in Nat /\ DOMAIN q = 1 .. Len(q)
  BY <1>3
<1>5. 1 \in DOMAIN (q \o r)
  BY <1>4 DEF EntryIn
<1> QED BY <1>4, <1>5 DEF EntryIn

\* A function with other blocks.
LEMMA WithBlocks ==
    ASSUME NEW g, SafeIn(g), NEW q, EntryIn(q) PROVE SafeIn([g EXCEPT !.blocks = q])
BY DEF SafeIn

\* Emit does not remove the entry block.
LEMMA EmitIn == ASSUME NEW g, SafeIn(g), NEW I PROVE SafeIn(Emit(g, I))
<1>1. PICK C : C = [g.blocks[g.cur] EXCEPT !.ins = Append(g.blocks[g.cur].ins, I)]
  BY Zenon
<1>2. PICK q : q = [g.blocks EXCEPT ![g.cur] = C]
  BY Zenon
<1>3. Emit(g, I) = [g EXCEPT !.blocks = q]
  BY <1>1, <1>2 DEF Emit
<1>4. g.cur = 1 => Inside(C)
  BY <1>1 DEF SafeIn, EntryIn, Inside
<1>5. EntryIn(q)
  BY <1>2, <1>4, EntryPut DEF SafeIn
<1> QED BY <1>3, <1>5, WithBlocks

\* Nor does removing another block.
LEMMA MovedIn ==
    ASSUME NEW g, SafeIn(g), NEW b, NEW v, b = 1 => v = TRUE PROVE SafeIn(Moved(g, b, v))
<1>1. PICK C : C = [g.blocks[b] EXCEPT !.in = v]
  BY Zenon
<1>2. PICK q : q = [g.blocks EXCEPT ![b] = C]
  BY Zenon
<1>3. Moved(g, b, v) = [g EXCEPT !.blocks = q]
  BY <1>1, <1>2 DEF Moved
<1>4. b = 1 => Inside(C)
  BY <1>1 DEF SafeIn, EntryIn, Inside
<1>5. EntryIn(q)
  BY <1>2, <1>4, EntryPut DEF SafeIn
<1> QED BY <1>3, <1>5, WithBlocks

\* Nor does InsertInto.
LEMMA InsertIn == ASSUME NEW g, SafeIn(g), NEW b PROVE SafeIn(InsertInto(g, b))
<1>1. PICK v : v = TRUE
  OBVIOUS
<1>2. InsertInto(g, b) = Moved(g, b, v)
  BY <1>1, Zenon DEF InsertInto, Moved
<1>3. SafeIn(Moved(g, b, v))
  BY <1>1, MovedIn, Zenon
<1> QED BY <1>2, <1>3

\* Nor does SetInsertPoint.
LEMMA PointIn == ASSUME NEW g, SafeIn(g), NEW b PROVE SafeIn(SetInsertPoint(g, b))
BY DEF SafeIn, SetInsertPoint

\* Nor does setting the place of x.
LEMMA PlacedIn == ASSUME NEW g, SafeIn(g), NEW v PROVE SafeIn(Placed(g, v))
BY DEF SafeIn, Placed

\* Nor does NewBlock.
LEMMA NewBlockIn == ASSUME NEW g, SafeIn(g), NEW v, NEW p PROVE SafeIn(NewBlock(g, v, p))
<1>1. PICK B : B = Block(v, p)
  OBVIOUS
<1>2. PICK S : g.blocks \in Seq(S)
  BY DEF SafeIn, EntryIn
<1>3. PICK U : g.blocks \in Seq(U) /\ B \in U
  <2>1. g.blocks \in Seq(S \cup {B}) /\ B \in S \cup {B}
    BY <1>2
  <2> QED BY <2>1
<1>4. Append(g.blocks, B) = g.blocks \o <<B>>
  BY <1>3, AppendIsConcat
<1>5. PICK q, r : q = g.blocks \o r /\ r = <<B>>
  BY Zenon
<1>6. EntryIn(q)
  <2>1. r \in Seq(U)
    BY <1>3, <1>5
  <2> QED BY <1>5, <2>1, EntryMore, Zenon DEF SafeIn
<1>7. NewBlock(g, v, p) = [g EXCEPT !.blocks = q]
  BY <1>1, <1>4, <1>5 DEF NewBlock
<1> QED BY <1>6, <1>7, WithBlocks

\* Nor does NewBlocks.
LEMMA NewBlocksIn ==
    ASSUME NEW g, SafeIn(g), NEW names, Len(names) \in Nat PROVE SafeIn(NewBlocks(g, names))
<1>1. PICK r : r = [j \in 1 .. Len(names) |-> Block(TRUE, names[j])]
  BY Zenon
<1>2. PICK S : S = { Block(TRUE, names[j]) : j \in 1 .. Len(names) }
  BY Zenon
<1>3. r \in [1 .. Len(names) -> S]
  BY <1>1, <1>2, Zenon
<1>4. r \in Seq(S)
  BY <1>3
<1>5. PICK q : q = g.blocks \o r
  BY Zenon
<1>6. EntryIn(q)
  BY <1>4, <1>5, EntryMore DEF SafeIn
<1>7. NewBlocks(g, names) = [g EXCEPT !.blocks = q]
  BY <1>1, <1>5, Zenon DEF NewBlocks
<1> QED BY <1>6, <1>7, WithBlocks

\* Nor does the jump at the end of a block.
LEMMA BrIfOpenIn == ASSUME NEW g, SafeIn(g), NEW b PROVE SafeIn(EmitBrIfOpen(g, b))
BY EmitIn DEF EmitBrIfOpen

\* Nor does the end of a branch.
LEMMA EndBranchIn == ASSUME NEW g, SafeIn(g), NEW c PROVE SafeIn(EndOpenBranch(g, c))
BY EmitIn, BrIfOpenIn, Zenon DEF EndOpenBranch, EndBranch, EndIf

\* FinishCondition removes at most the block after the if.
LEMMA FinishConditionIn ==
    ASSUME NEW g, SafeIn(g), NEW c, c.end # 1 PROVE SafeIn(FinishCondition(g, c))
<1>1. PICK v, b : v = FALSE /\ b = c.end
  BY Zenon
<1>2. SafeIn(SetInsertPoint(g, b)) /\ SafeIn(Moved(g, b, v))
  BY <1>1, PointIn, MovedIn, Zenon
<1>3. FinishCondition(g, c) = SetInsertPoint(g, b) \/ FinishCondition(g, c) = Moved(g, b, v)
  BY <1>1, Zenon DEF FinishCondition, Moved
<1> QED BY <1>2, <1>3, Zenon

\* FinishLoop removes no block.
LEMMA FinishLoopIn == ASSUME NEW g, SafeIn(g), NEW c PROVE SafeIn(FinishLoop(g, c))
BY BrIfOpenIn, InsertIn, PointIn DEF FinishLoop

\* Nor does AddLoopCond.
LEMMA AddLoopCondIn == ASSUME NEW g, SafeIn(g), NEW c, NEW I PROVE SafeIn(AddLoopCond(g, c, I))
BY EmitIn, InsertIn, PointIn DEF AddLoopCond

\* Nor does NewLoop.
LEMMA NewLoopIn ==
    ASSUME NEW g, SafeIn(g), NEW t, NEW p, NEW q, NEW r, NEW l, l = NewLoop(g, t, p, q, r)
    PROVE  SafeIn(l.g)
<1>1. PICK f : f = NewBlock(NewBlock(NewBlock(g, TRUE, p), FALSE, r), FALSE, q)
  BY Zenon
<1>2. SafeIn(f)
  <2>1. PICK a, b : a = NewBlock(g, TRUE, p) /\ b = NewBlock(a, FALSE, r)
    BY Zenon
  <2>2. SafeIn(a) /\ f = NewBlock(b, FALSE, q)
    BY <1>1, <2>1, NewBlockIn, Zenon
  <2>3. SafeIn(b)
    BY <2>1, <2>2, NewBlockIn, Zenon
  <2> QED BY <2>2, <2>3, NewBlockIn, Zenon
<1>3. PICK c : c = [k |-> "while", t |-> t, cond |-> Newest(f) - 2, end |-> Newest(f) - 1, body |-> Newest(f)]
  BY Zenon
<1>4. PICK d : d = SetInsertPoint(EmitBrIfOpen(f, c.cond), c.cond)
  OBVIOUS
<1>5. l = [g |-> d, c |-> c]
  BY <1>1, <1>3, <1>4, Zenon DEF NewLoop
<1>6. SafeIn(d)
  BY <1>2, <1>4, BrIfOpenIn, PointIn
<1> QED BY <1>5, <1>6

\* Nor does a vector expression.
LEMMA VectorIn == ASSUME NEW g, SafeIn(g), NEW p PROVE SafeIn(VectorBlocks(g, p))
<1>1. PICK l : l = NewLoop(g, 0, p, p, p)
  OBVIOUS
<1>2. PICK h : h = FinishLoop(AddLoopCond(l.g, l.c, Inner(l.c.body, l.c.end)), l.c)
  OBVIOUS
<1>3. SafeIn(h)
  BY <1>1, <1>2, NewLoopIn, AddLoopCondIn, FinishLoopIn
<1>4. PICK names, n, f, r : names = <<p, p>> /\ n = 0 /\ f = FALSE /\ r = NewCondition(h, 0, n, f, names)
  BY Zenon
<1>5. Len(names) = 2 /\ Len(h.blocks) \in Nat
  <2>1. PICK S : h.blocks \in Seq(S)
    BY <1>3 DEF SafeIn, EntryIn
  <2> QED BY <1>4, <2>1
<1>6. r.g = NewBlocks(h, names) /\ r.c.end = Len(h.blocks) + Len(names)
  <2>1. CondStep(h, 0, n, f, names, r, ElseAt(n, f), Len(h.blocks))
    BY <1>4, <1>5, Zenon DEF CondStep
  <2>2. CondMade(h, 0, n, names, r, ElseAt(n, f), Len(h.blocks))
    BY ONLY <2>1, NewConditionFrame
  <2>3. PICK c : c = CondFrame(Len(h.blocks), 0, n, ElseAt(n, f), Len(names))
    OBVIOUS
  <2>4. n \in Nat /\ Len(h.blocks) \in Nat
    BY <1>4, <1>5
  <2>5. FrameAt(c, Len(h.blocks), 0, n, ElseAt(n, f), Len(names))
    BY ONLY <2>3, <2>4, CondFrameFields
  <2> QED BY <2>2, <2>3, <2>5 DEF CondMade, FrameAt
<1>7. PICK c : c = r.c /\ c.end # 1
  BY <1>5, <1>6
<1>8. SafeIn(r.g)
  BY <1>3, <1>5, <1>6, NewBlocksIn
<1>9. PICK e : e = SetInsertPoint(Emit(r.g, Inner(c.body, c.end)), c.body)
  OBVIOUS
<1>10. SafeIn(EndIf(e, c))
  BY <1>8, <1>9, EmitIn, PointIn, BrIfOpenIn DEF EndIf
<1>11. VectorBlocks(g, p) = FinishCondition(EndIf(e, c), c)
  BY <1>1, <1>2, <1>4, <1>7, <1>9, Zenon DEF VectorBlocks
<1> QED BY <1>7, <1>10, <1>11, FinishConditionIn

\* Nor does NewCondition.
LEMMA CondBlocksIn ==
    ASSUME NEW g, SafeIn(g), NEW t, NEW n, NEW b, NEW names, Len(names) \in Nat
    PROVE  SafeIn(NewCondition(g, t, n, b, names).g)
<1>1. PICK h : h = NewBlocks(g, names)
  OBVIOUS
<1>2. NewCondition(g, t, n, b, names).g = h
  BY <1>1 DEF NewCondition
<1> QED BY <1>1, <1>2, NewBlocksIn

\* The entry of the new function is inside.
LEMMA InitIn == ASSUME FlowInit PROVE SafeIn(func)
<1>1. PICK A, B : A = Block(TRUE, After(Begin)) /\ B = Block(FALSE, Done)
  BY Zenon
<1>2. func = [blocks |-> <<A, B>>, cur |-> 1, x |-> 0]
  BY <1>1, Zenon DEF FlowInit, NewFunction, Entry
<1>3. Inside(A)
  BY <1>1 DEF Block, Inside
<1>4. <<A, B>> \in Seq({A, B}) /\ 1 \in DOMAIN <<A, B>> /\ <<A, B>>[1] = A
  OBVIOUS
<1> QED BY <1>2, <1>3, <1>4, Zenon DEF SafeIn, EntryIn

\* The block after an if is not the entry.
LEMMA EndNotEntry ==
    ASSUME BuildOK(src, frames, func), frames # << >>, NEW c, c = frames[Len(frames)], c.k = "if"
    PROVE  c.end # 1
<1>1. IfOK(src, func, c)
  BY TopFacts
<1>2. NameIs(func, c.end, After(Part("endif", c.t)))
  BY <1>1, Zenon DEF IfOK
<1>3. NameIs(func, 1, After(Begin))
  BY DEF BuildOK, BaseOK, Entry
<1>4. After(Part("endif", c.t)).tok.k = "endif"
  BY DEF After, Part, Token
<1>5. After(Begin).tok.k = "begin"
  BY DEF After, Begin, Part, Token
<1> QED BY <1>2, <1>3, <1>4, <1>5 DEF NameIs

\* No action removes the entry block.
LEMMA StepIn ==
    ASSUME SafeIn(func), BuildOK(src, frames, func), Building \/ Finish PROVE SafeIn(func')
<1>1. CASE Assign
  <2>1. PICK h, v : h = Emit(func, Instr(Statement("set"))) /\ v = IF h.x = 0 THEN func.cur ELSE h.x
    OBVIOUS
  <2>2. func' = Placed(h, v)
    BY <1>1, <2>1 DEF Assign, Placed
  <2> QED BY <2>1, <2>2, EmitIn, PlacedIn
<1>14. CASE TakePlace
  <2>1. func' = Placed(Emit(func, Instr(Statement("copy"))), Argument)
    BY <1>14 DEF TakePlace, Placed
  <2> QED BY <2>1, EmitIn, PlacedIn
<1>2. CASE Read
  BY <1>2, EmitIn DEF Read
<1>3. CASE VectorExpression
  BY <1>3, EmitIn, VectorIn DEF VectorExpression
<1>4. CASE ReturnValue
  BY <1>4, EmitIn DEF ReturnValue
<1>5. CASE BreakLoop
  BY <1>5, EmitIn DEF BreakLoop
<1>6. CASE ContinueLoop
  BY <1>6, EmitIn DEF ContinueLoop
<1>7. CASE While
  <2>1. PICK tok : tok = Statement("while")
    OBVIOUS
  <2>2. PICK l : l = NewLoop(func, Here, At(tok), After(tok), After(Part("endwhile", Here)))
    OBVIOUS
  <2>3. func' = AddLoopCond(l.g, l.c, CondBr(tok, l.c.body, l.c.end))
    BY <1>7, <2>1, <2>2, Zenon DEF While
  <2>4. SafeIn(l.g)
    BY <2>2, NewLoopIn
  <2> QED BY <2>3, <2>4, AddLoopCondIn
<1>8. CASE EndWhile
  BY <1>8, FinishLoopIn DEF EndWhile
<1>9. ASSUME NEW n \in 0 .. MaxElif, NEW e \in BOOLEAN, If(n, e) PROVE SafeIn(func')
  <2>1. PICK names, r : names = IfNames(Here, n, e) /\ r = NewCondition(func, Here, n, e, names)
    OBVIOUS
  <2>2. func' = BeginIf(r.g, r.c)
    BY <1>9, <2>1, Zenon DEF If
  <2>3. Len(names) \in Nat
    <3>1. n \in Nat /\ Here \in Nat
      BY FlowAssumption DEF BuildOK, SourceOK, Here
    <3>2. IfList(IfNames(Here, n, TRUE), Here, n, 2 * n + 2) /\ IfList(IfNames(Here, n, FALSE), Here, n, 0)
      BY <3>1, IfNamesList, Zenon
    <3>3. names = IfNames(Here, n, TRUE) \/ names = IfNames(Here, n, FALSE)
      BY <2>1, e = TRUE \/ e = FALSE, Zenon
    <3>4. IfNames(Here, n, TRUE) \in Seq(Place) /\ IfNames(Here, n, FALSE) \in Seq(Place)
      BY <3>2, Zenon DEF IfList
    <3>5. names \in Seq(Place)
      BY <3>3, <3>4, Zenon
    <3> QED BY <3>5
  <2>4. SafeIn(r.g)
    BY <2>1, <2>3, CondBlocksIn
  <2> QED BY <2>2, <2>4, EmitIn, PointIn DEF BeginIf
<1>10. CASE Elif
  BY <1>10, EndBranchIn, EmitIn, PointIn DEF Elif, BeginElif
<1>11. CASE Else
  BY <1>11, EndBranchIn, PointIn, Zenon DEF Else
<1>12. CASE EndIfElse
  <2>1. PICK c : c = Top
    OBVIOUS
  <2>2. /\ func' = FinishCondition(EndOpenBranch(func, c), c)
        /\ frames # << >> /\ c.k = "if" /\ c = frames[Len(frames)]
    BY <1>12, <2>1, Zenon DEF EndIfElse, Top
  <2>3. c.end # 1
    BY <2>2, EndNotEntry
  <2> QED BY <2>2, <2>3, EndBranchIn, FinishConditionIn
<1>13. CASE Finish
  BY <1>13, BrIfOpenIn, InsertIn, PointIn, EmitIn DEF Finish
<1> QED BY <1>1, <1>2, <1>3, <1>4, <1>5, <1>6, <1>7, <1>8, <1>9, <1>10, <1>11, <1>12,
           <1>13, <1>14 DEF Building

-----------------------------------------------------------------------------
(* The moves of the source are what it does at the places where it has     *)
(* nothing to do, and two places where it has something to do are told     *)
(* apart by them.                                                          *)

\* The fields of a place.
LEMMA PlaceFields ==
    ASSUME NEW tok PROVE At(tok).w = "at" /\ At(tok).tok = tok /\ After(tok).w = "after" /\ After(tok).tok = tok
BY DEF At, After

\* A token has one position.
LEMMA PositionOf ==
    ASSUME SourceOK(src), NEW q \in DOMAIN src PROVE Position(src[q]) = q /\ src[q] # Begin
<1>1. src[q] # Begin
  BY DoneFacts DEF SourceOK
<1>2. PICK r : r = CHOOSE m \in DOMAIN src : src[m] = src[q]
  OBVIOUS
<1>3. r \in DOMAIN src /\ src[r] = src[q]
  BY <1>2
<1>4. r = q
  BY <1>3 DEF SourceOK
<1> QED BY <1>1, <1>2, <1>4 DEF Position

\* Where the source goes on after a token.
PlaceAfter(n) == IF n = Len(src) THEN Done ELSE Arrive(src[n + 1])

\* After a token the source goes to the next one.
LEMMA OnwardAfter ==
    ASSUME SourceOK(src)
    PROVE  /\ Onward(After(Begin)) = PlaceAfter(0)
           /\ \A q \in DOMAIN src : Onward(After(src[q])) = PlaceAfter(q) /\ Onward(At(src[q])) = Leads(src[q])
<1>1. Position(Begin) = 0
  BY DEF Position
<1>2. Onward(After(Begin)) = PlaceAfter(0)
  BY <1>1, PlaceFields DEF Onward, PlaceAfter
<1>3. ASSUME NEW q \in DOMAIN src
      PROVE  Onward(After(src[q])) = PlaceAfter(q) /\ Onward(At(src[q])) = Leads(src[q])
  <2>1. Position(src[q]) = q
    BY PositionOf
  <2>2. PICK t : t = src[q]
    OBVIOUS
  <2>3. "after" # "at"
    OBVIOUS
  <2>4. Onward(After(t)) = PlaceAfter(q)
    BY <2>1, <2>2, <2>3, PlaceFields, Zenon DEF Onward, PlaceAfter
  <2>5. Onward(At(t)) = Leads(t)
    BY PlaceFields, Zenon DEF Onward
  <2> QED BY <2>2, <2>4, <2>5
<1> QED BY <1>2, <1>3

\* Every move in the rules is what the source does.
LEMMA RuleIsMove ==
    ASSUME SourceOK(src), NEW e \in FinalRules(src)
    PROVE  e[1] \in Place /\ Silent(e[1]) /\ e[2] = Onward(e[1])
<1>1. src \in Seq(Tok) /\ Len(src) \in Nat /\ DOMAIN src = 1 .. Len(src) /\ \A q \in DOMAIN src : src[q] \in Tok
  BY DEF SourceOK
<1>2. CASE \E q \in DOMAIN src : e = <<After(Prev(src, q)), Arrive(src[q])>>
  <2>1. PICK q \in DOMAIN src : e = <<After(Prev(src, q)), Arrive(src[q])>>
    BY <1>2
  <2>2. e[1] = After(Prev(src, q)) /\ e[2] = Arrive(src[q])
    BY <2>1
  <2>3. CASE q = 1
    <3>1. Prev(src, q) = Begin /\ Len(src) # 0
      BY <1>1, <2>3 DEF Prev
    <3>2. PlaceAfter(0) = Arrive(src[q])
      BY <2>3, <3>1 DEF PlaceAfter
    <3> QED BY <2>2, <3>1, <3>2, OnwardAfter, PlacesOfTok, DoneFacts DEF Silent
  <2>4. CASE q # 1
    <3>1. Prev(src, q) = src[q - 1] /\ q - 1 \in DOMAIN src /\ q - 1 # Len(src) /\ q - 1 + 1 = q
      BY <1>1, <2>4 DEF Prev
    <3>2. PlaceAfter(q - 1) = Arrive(src[q])
      BY <3>1 DEF PlaceAfter
    <3>3. PICK r : r = q - 1
      OBVIOUS
    <3>4. Onward(After(src[r])) = Arrive(src[q]) /\ r \in DOMAIN src /\ src[r] \in Tok /\ Prev(src, q) = src[r]
      BY <1>1, <3>1, <3>2, <3>3, OnwardAfter
    <3> QED BY <2>2, <3>4, PlacesOfTok DEF Silent
  <2> QED BY <2>3, <2>4
<1>3. CASE \E q \in DOMAIN src : src[q].k \in Passing /\ e = <<At(src[q]), Leads(src[q])>>
  <2>1. PICK q \in DOMAIN src : src[q].k \in Passing /\ e = <<At(src[q]), Leads(src[q])>>
    BY <1>3
  <2>2. e[1] = At(src[q]) /\ e[2] = Leads(src[q])
    BY <2>1
  <2> QED BY <1>1, <2>1, <2>2, OnwardAfter, PlacesOfTok DEF Silent
<1>4. CASE e = <<After(LastTok(src)), Done>>
  <2>1. e[1] = After(LastTok(src)) /\ e[2] = Done
    BY <1>4
  <2>2. CASE src = << >>
    <3>1. LastTok(src) = Begin /\ Len(src) = 0
      BY <2>2 DEF LastTok
    <3>2. PlaceAfter(0) = Done
      BY <3>1 DEF PlaceAfter
    <3> QED BY <2>1, <3>1, <3>2, OnwardAfter, PlacesOfTok, DoneFacts DEF Silent
  <2>3. CASE src # << >>
    <3>1. PICK n : n = Len(src)
      BY Zenon
    <3>2. LastTok(src) = src[n] /\ n \in DOMAIN src
      BY <1>1, <2>3, <3>1 DEF LastTok
    <3>3. PlaceAfter(n) = Done
      BY <3>1 DEF PlaceAfter
    <3> QED BY <1>1, <2>1, <3>2, <3>3, OnwardAfter, PlacesOfTok DEF Silent
  <2> QED BY <2>2, <2>3
<1> QED BY <1>2, <1>3, <1>4 DEF FinalRules, Rules

\* Whatever the source does where it has nothing to do is in the rules.
LEMMA MoveIsRule ==
    ASSUME SourceOK(src), NEW p, Silent(p) PROVE <<p, Onward(p)>> \in FinalRules(src)
<1>1. src \in Seq(Tok) /\ Len(src) \in Nat /\ DOMAIN src = 1 .. Len(src)
  BY DEF SourceOK
<1>2. PICK E : E = FinalRules(src)
  OBVIOUS
<1>3. /\ \A q \in DOMAIN src : <<After(Prev(src, q)), Arrive(src[q])>> \in E
      /\ \A q \in DOMAIN src : src[q].k \in Passing => <<At(src[q]), Leads(src[q])>> \in E
      /\ <<After(LastTok(src)), Done>> \in E
  BY <1>2 DEF FinalRules, Rules
<1>4. CASE p = After(Begin)
  <2>1. CASE Len(src) = 0
    <3>1. src = << >>
      BY <1>1, <2>1
    <3>2. LastTok(src) = Begin /\ PlaceAfter(0) = Done
      BY <2>1, <3>1 DEF LastTok, PlaceAfter
    <3> QED BY <1>2, <1>3, <1>4, <3>2, OnwardAfter
  <2>2. CASE Len(src) # 0
    <3>1. 1 \in DOMAIN src /\ Prev(src, 1) = Begin /\ PlaceAfter(0) = Arrive(src[1])
      BY <1>1, <2>2 DEF Prev, PlaceAfter
    <3> QED BY <1>2, <1>3, <1>4, <3>1, OnwardAfter
  <2> QED BY <2>1, <2>2
<1>5. ASSUME NEW q \in DOMAIN src, p = After(src[q]) PROVE <<p, Onward(p)>> \in E
  <2>1. CASE q = Len(src)
    <3>1. LastTok(src) = src[q] /\ PlaceAfter(q) = Done
      <4>1. src # << >>
        BY <1>1
      <4> QED BY <2>1, <4>1 DEF LastTok, PlaceAfter
    <3> QED BY <1>3, <1>5, <3>1, OnwardAfter
  <2>2. CASE q # Len(src)
    <3>1. PICK r : r = q + 1
      OBVIOUS
    <3>2. r \in DOMAIN src /\ r # 1 /\ r - 1 = q
      BY <1>1, <2>2, <3>1
    <3>3. Prev(src, r) = src[q] /\ PlaceAfter(q) = Arrive(src[r])
      BY <2>2, <3>1, <3>2 DEF Prev, PlaceAfter
    <3> QED BY <1>3, <1>5, <3>2, <3>3, OnwardAfter
  <2> QED BY <2>1, <2>2
<1>6. ASSUME NEW q \in DOMAIN src, p = At(src[q]), src[q].k \in Passing PROVE <<p, Onward(p)>> \in E
  BY <1>3, <1>6, OnwardAfter
<1> QED BY <1>2, <1>4, <1>5, <1>6 DEF Silent

\* The places from which the source comes to p without doing anything.
ClosedBack(T) == \A z \in Place : Silent(z) /\ Onward(z) \in T => z \in T

\* The least set of places with p that is closed under going back.
LeadingTo(p) == { y \in Place : \A T \in SUBSET Place : p \in T /\ ClosedBack(T) => y \in T }

\* Two places where there is something to do are the same only if they are
\* equal.
LEMMA Separated ==
    ASSUME SourceOK(src), NEW p \in Place, NEW q \in Place, ~Silent(p), ~Silent(q),
           Same(FinalRules(src), p, q)
    PROVE  p = q
<1>1. PICK K : K = LeadingTo(p)
  OBVIOUS
<1>2. K \in SUBSET Place /\ p \in K
  BY <1>1 DEF LeadingTo
<1>3. ClosedBack(K)
  BY <1>1 DEF LeadingTo, ClosedBack
<1>4. ASSUME NEW a \in K, Silent(a) PROVE Onward(a) \in K
  <2>1. SUFFICES ASSUME Onward(a) \notin K PROVE FALSE
    OBVIOUS
  <2>2. PICK T : T = K \ {a}
    BY Zenon
  <2>3. T \in SUBSET Place /\ p \in T
    BY <1>2, <1>4, <2>2
  <2>4. ClosedBack(T)
    BY <1>3, <2>1, <2>2 DEF ClosedBack
  <2>5. a \in T
    BY <1>1, <2>3, <2>4 DEF LeadingTo
  <2> QED BY <2>2, <2>5
<1>5. Respects(K, FinalRules(src))
  <2>1. ASSUME NEW e \in FinalRules(src) PROVE e[1] \in K <=> e[2] \in K
    <3>1. e[1] \in Place /\ Silent(e[1]) /\ e[2] = Onward(e[1])
      BY RuleIsMove
    <3> QED BY <1>3, <1>4, <3>1 DEF ClosedBack
  <2> QED BY <2>1 DEF Respects
<1>6. q \in K
  BY <1>2, <1>5 DEF Same
<1>7. SUFFICES ASSUME p # q PROVE FALSE
  OBVIOUS
<1>8. PICK T : T = Place \ {q}
  BY Zenon
<1>9. T \in SUBSET Place /\ p \in T /\ ClosedBack(T)
  BY <1>7, <1>8 DEF ClosedBack
<1>10. q \in T
  BY <1>1, <1>6, <1>9 DEF LeadingTo
<1> QED BY <1>8, <1>10

\* Statements and conditions are places where there is something to do; so is the end.
LEMMA NotSilent ==
    ASSUME SourceOK(src), NEW tok, tok.k \notin Passing PROVE ~Silent(At(tok))
<1>1. At(tok).w = "at" /\ At(tok).tok = tok
  BY PlaceFields
<1>2. \A u : After(u).w = "after"
  BY PlaceFields
<1>3. \A u : At(u).tok = u
  BY PlaceFields
<1> QED BY <1>1, <1>2, <1>3 DEF Silent

\* The source stops at its end.
LEMMA DoneNotSilent == ASSUME SourceOK(src) PROVE ~Silent(Done)
<1>1. Part("done", 0).k \notin Passing
  BY DEF Part, Token, Passing
<1> QED BY <1>1, NotSilent DEF Done

-----------------------------------------------------------------------------
(* The generated code and the source, run side by side. *)

\* The blocks that are in the function.
InsideOf(g) == { b \in DOMAIN g.blocks : g.blocks[b].in }

\* What verifyFunction says of one block.
LEMMA VerifiedFacts ==
    ASSUME NEW g, Verified(g), NEW b \in InsideOf(g)
    PROVE  /\ b \in DOMAIN g.blocks /\ Terminated(g, b) /\ Succ(g, b) \subseteq InsideOf(g)
           /\ \A i \in 1 .. Len(g.blocks[b].ins) - 1 : ~IsTerminator(g.blocks[b].ins[i])
BY Zenon DEF Verified, InsideOf

\* Instruction i of block b is the next one when the source is at p.
Follows(E, g, b, i, p) ==
    /\ b \in InsideOf(g) /\ i \in DOMAIN g.blocks[b].ins /\ Open(g.blocks[b], i)
    /\ p \in Place /\ Same(E, p, PlaceAt(g.blocks[b], i))

\* At the first instruction of a block the source is where its name says.
LEMMA EnterBlock ==
    ASSUME NEW g, WellFormed(g), Verified(g), NEW b \in InsideOf(g), NEW p \in Place,
           Same(FinalRules(src), p, g.blocks[b].name)
    PROVE  Follows(FinalRules(src), g, b, 1, p)
<1>1. b \in DOMAIN g.blocks /\ Terminated(g, b)
  BY VerifiedFacts
<1>2. g.blocks[b].ins # << >> /\ g.blocks[b].ins \in Seq(Ins)
  BY <1>1, BlockTyped DEF Terminated
<1>3. 1 \in DOMAIN g.blocks[b].ins
  BY <1>2
<1>4. Open(g.blocks[b], 1)
  BY DEF Open
<1>5. PlaceAt(g.blocks[b], 1) = g.blocks[b].name
  BY DEF PlaceAt
<1> QED BY <1>3, <1>4, <1>5 DEF Follows

\* The next instruction fits where the source is.
LEMMA NextFits ==
    ASSUME NEW g, RunOK(src, g), NEW b, NEW i, NEW p, Follows(FinalRules(src), g, b, i, p), NEW I, I = g.blocks[b].ins[i]
    PROVE  /\ Fits(FinalView(src), g, p, I) /\ I \in Ins /\ I.t \in Tok /\ WellFormed(g)
           /\ b \in DOMAIN g.blocks /\ g.blocks[b].ins \in Seq(Ins) /\ SourceOK(src)
<1>1. PICK W : W = FinalView(src)
  OBVIOUS
<1>2. CodeOK(W, g) /\ WellFormed(g) /\ W.E = FinalRules(src) /\ SourceOK(src)
  BY <1>1, Zenon DEF RunOK, CodeOK, FinalView
<1>3. b \in DOMAIN g.blocks
  BY DEF Follows, InsideOf
<1>4. Fits(W, g, PlaceAt(g.blocks[b], i), I)
  BY <1>2, <1>3 DEF Follows, CodeOK, BlockOK
<1>5. Fits(W, g, p, I)
  BY <1>2, <1>4, FitsSame DEF Follows
<1>6. g.blocks[b].ins \in Seq(Ins)
  BY <1>2, <1>3, BlockTyped
<1>7. I \in Ins
  BY <1>6 DEF Follows
<1>8. I.t \in Tok
  BY <1>7 DEF Ins
<1> QED BY <1>1, <1>2, <1>3, <1>5, <1>6, <1>7, <1>8

\* The block a branch goes to is in the function.
LEMMA TargetsIn ==
    ASSUME NEW g, Verified(g), NEW b \in InsideOf(g), NEW i \in DOMAIN g.blocks[b].ins,
           NEW I, I = g.blocks[b].ins[i], I.k \in {"br", "cond", "inner"}
    PROVE  I.yes \in InsideOf(g) /\ I.no \in InsideOf(g)
<1>1. Succ(g, b) \subseteq InsideOf(g)
  BY VerifiedFacts
<1>2. Targets(I) = {I.yes, I.no} /\ Targets(I) \subseteq Succ(g, b)
  BY DEF Targets, Succ
<1> QED BY <1>1, <1>2

\* A statement has an instruction after it.
LEMMA StatementNotLast ==
    ASSUME NEW g, WellFormed(g), Verified(g), NEW b \in InsideOf(g), NEW i \in DOMAIN g.blocks[b].ins,
           Open(g.blocks[b], i), NEW I, I = g.blocks[b].ins[i], I.k \in Simple
    PROVE  /\ i + 1 \in DOMAIN g.blocks[b].ins /\ Open(g.blocks[b], i + 1)
           /\ PlaceAt(g.blocks[b], i + 1) = NextPlace(I)
<1>1. PICK q : q = g.blocks[b].ins
  OBVIOUS
<1>2. b \in DOMAIN g.blocks /\ Terminated(g, b)
  BY VerifiedFacts
<1>3. q # << >> /\ IsTerminator(q[Len(q)]) /\ q \in Seq(Ins)
  BY <1>1, <1>2, BlockTyped DEF Terminated
<1>4. ~IsTerminator(I)
  BY DEF IsTerminator, Simple
<1>5. i # Len(q) /\ i \in 1 .. Len(q) /\ Len(q) \in Nat /\ DOMAIN q = 1 .. Len(q)
  BY <1>1, <1>3, <1>4
<1>6. i + 1 \in DOMAIN q /\ i + 1 # 1 /\ i + 1 - 1 = i
  BY <1>5
<1>7. PICK B, m : B = g.blocks[b] /\ m = i + 1 /\ B.ins = q /\ q[i] = I
  BY <1>1
<1>8. Open(B, m)
  <2>1. \A j \in 1 .. m - 1 : j \in 1 .. i - 1 \/ j = i
    BY ONLY <1>5, <1>7
  <2>2. \A j \in 1 .. i - 1 : ~IsTerminator(B.ins[j])
    BY <1>7 DEF Open
  <2>3. \A j \in 1 .. m - 1 : ~IsTerminator(B.ins[j])
    BY ONLY <1>4, <1>7, <2>1, <2>2
  <2> QED BY ONLY <2>3 DEF Open
<1>9. PlaceAt(B, m) = NextPlace(I)
  <2>1. m # 1 /\ m - 1 = i /\ B.ins[i] = I
    BY ONLY <1>5, <1>7
  <2> QED BY ONLY <2>1 DEF PlaceAt
<1> QED BY <1>1, <1>6, <1>7, <1>8, <1>9

\* The statement or condition that is next in the blocks is next in the source.
LEMMA NextInSource ==
    ASSUME NEW g, RunOK(src, g), NEW b, NEW i, NEW p, Follows(FinalRules(src), g, b, i, p), ~Silent(p),
           NEW I, I = g.blocks[b].ins[i]
    PROVE  /\ I.k \in Simple \cup {"cond"} => p = At(I.t)
           /\ I.k = "ret" => p = Done
           /\ I.k \in Simple \cup {"cond", "br", "inner", "ret"}
<1>1. PICK W : W = FinalView(src)
  OBVIOUS
<1>2. Fits(W, g, p, I) /\ I \in Ins /\ I.t \in Tok /\ SourceOK(src) /\ W.E = FinalRules(src) /\ p \in Place
  BY <1>1, NextFits, Zenon DEF FinalView, Follows
<1>3. I.k \in Simple \cup {"cond", "br", "inner", "ret"}
  BY <1>2 DEF Fits, Decides, Goes
<1>4. CASE I.k \in Simple \cup {"cond"}
  <2>1. Same(W.E, p, At(I.t)) /\ I.t.k \in Simple \cup {"if", "elif", "while"}
    BY <1>2, <1>4 DEF Fits, Decides, Goes, Simple
  <2>2. I.t.k \notin Passing
    BY <2>1 DEF Simple, Passing
  <2>3. ~Silent(At(I.t)) /\ At(I.t) \in Place
    BY <1>2, <2>2, NotSilent, PlacesOfTok
  <2>4. p = At(I.t)
    BY <1>2, <2>1, <2>3, Separated
  <2> QED BY <1>3, <1>4, <2>4 DEF Simple
<1>5. CASE I.k = "ret"
  <2>1. Same(W.E, p, Done)
    BY <1>2, <1>5 DEF Fits, Decides, Goes, Simple
  <2>2. p = Done
    BY <1>2, <2>1, DoneNotSilent, DoneFacts, Separated
  <2> QED BY <1>3, <1>5, <2>2 DEF Simple
<1>6. CASE I.k \in {"br", "inner"}
  BY <1>3, <1>6 DEF Simple
<1> QED BY <1>3, <1>4, <1>5, <1>6

\* Where the source goes on is a place.
LEMMA OnwardTyped == ASSUME SourceOK(src), NEW p, Silent(p) PROVE Onward(p) \in Place
<1>1. src \in Seq(Tok) /\ Len(src) \in Nat /\ DOMAIN src = 1 .. Len(src) /\ \A q \in DOMAIN src : src[q] \in Tok
  BY DEF SourceOK
<1>2. \A tok \in Tok : tok.c \in Nat /\ tok.n \in Nat
  BY DEF Tok
<1>3. \A k \in Kinds, n \in Nat : At(Part(k, n)) \in Place /\ After(Part(k, n)) \in Place
  BY TokenIsTok, PlacesOfTok
<1>4. "endif" \in Kinds /\ "while" \in Kinds /\ "endwhile" \in Kinds
  BY DEF Kinds
<1>5. \A tok \in Tok : Arrive(tok) \in Place
  BY <1>2, <1>3, <1>4, PlacesOfTok DEF Arrive
<1>6. \A tok \in Tok : Leads(tok) \in Place
  BY <1>2, <1>3, <1>4, PlacesOfTok DEF Leads
<1>7. \A n \in 0 .. Len(src) : PlaceAfter(n) \in Place
  <2>1. \A N \in Nat : \A n \in 0 .. N : n # N => n + 1 \in 1 .. N
    OBVIOUS
  <2> QED BY <1>1, <1>5, <2>1, DoneFacts, Zenon DEF PlaceAfter
<1>8. 0 \in 0 .. Len(src) /\ \A q \in DOMAIN src : q \in 0 .. Len(src)
  BY <1>1
<1> QED BY <1>1, <1>6, <1>7, <1>8, OnwardAfter DEF Silent

\* When nothing is owed, the branches are those in the source.
LEMMA OtherwiseFinal == ASSUME NEW tok PROVE OtherwiseIn(Branches(src, << >>), tok) = Otherwise(tok)
<1>1. OwesAll(<< >>) = {}
  BY DEF OwesAll
<1>2. PICK T : T = Branches(src, << >>)
  OBVIOUS
<1>3. T = { u \in Range(src) : u.k \in {"elif", "else"} }
  BY <1>1, <1>2 DEF Branches
<1>4. PICK e, f : e = Token("elif", tok.c, tok.n + 1) /\ f = Part("else", tok.c)
  OBVIOUS
<1>5. e.k = "elif" /\ f.k = "else"
  BY <1>4 DEF Part, Token
<1>6. (e \in T <=> e \in Range(src)) /\ (f \in T <=> f \in Range(src))
  BY <1>3, <1>5
<1> QED BY <1>2, <1>4, <1>6, Zenon DEF OtherwiseIn, Otherwise

-----------------------------------------------------------------------------
(* The blocks that are reached around another one. *)

(* A set of naturals that holds 0 and every successor is Nat. *)
LEMMA AllNumbers ==
    ASSUME NEW B \in SUBSET Nat, 0 \in B, \A n \in B : n + 1 \in B
    PROVE  B = Nat
<1> SUFFICES ASSUME Nat \ B # {} PROVE FALSE
  BY Zenon
<1>1. PICK i \in Nat \ B : \A j \in Nat \ B : ~(<<j, i>> \in OpToRel(<, Nat))
  BY NatLessThanWellFounded, WFMin, Zenon
<1>2. i # 0 /\ i - 1 \in Nat /\ i - 1 < i
  OBVIOUS
<1>3. i - 1 \in B
  BY <1>1, <1>2, Zenon DEF OpToRel
<1>4. (i - 1) + 1 \in B
  BY <1>3
<1> QED BY <1>2, <1>4

\* The sets that the recursion goes through: the first ones, and all of them.
Around(g, x, r, n) == IF n = 0 THEN {Entry} \ {x} ELSE Step(g, r[n - 1], {x})

\* The first n sets, and all of them.
Reaches(r, g, x, n) == \A m \in 0 .. n : r[m] = Around(g, x, r, m)
IsReach(r, g, x) == r = [n \in Nat |-> IF n = 0 THEN {Entry} \ {x} ELSE Step(g, r[n - 1], {x})]

\* The first sets of the recursion are determined.
LEMMA ReachesUnique ==
    ASSUME NEW g, NEW x, NEW r, NEW q, NEW n \in Nat, NEW m \in Nat, Reaches(r, g, x, n), Reaches(q, g, x, m)
    PROVE  \A i \in Nat : i <= n /\ i <= m => r[i] = q[i]
<1>1. PICK B : B = { i \in Nat : i <= n /\ i <= m => r[i] = q[i] }
  BY Zenon
<1>2. 0 \in B
  <2>1. 0 \in 0 .. n /\ 0 \in 0 .. m
    OBVIOUS
  <2>2. r[0] = Around(g, x, r, 0) /\ q[0] = Around(g, x, q, 0)
    BY <2>1 DEF Reaches
  <2>3. Around(g, x, r, 0) = Around(g, x, q, 0)
    BY DEF Around
  <2> QED BY <1>1, <2>2, <2>3
<1>3. ASSUME NEW i \in B PROVE i + 1 \in B
  <2>1. i \in Nat /\ i + 1 \in Nat
    BY <1>1
  <2>2. ASSUME i + 1 <= n, i + 1 <= m PROVE r[i + 1] = q[i + 1]
    <3>1. i + 1 \in 0 .. n /\ i + 1 \in 0 .. m /\ i + 1 # 0 /\ i + 1 - 1 = i /\ i <= n /\ i <= m
      BY <2>1, <2>2
    <3>2. r[i] = q[i]
      BY <1>1, <3>1
    <3>3. PICK j : j = i + 1
      OBVIOUS
    <3>4. r[j] = Around(g, x, r, j) /\ q[j] = Around(g, x, q, j)
      BY <3>1, <3>3 DEF Reaches
    <3>5. j # 0 /\ j - 1 = i
      BY ONLY <2>1, <3>3
    <3>6. Around(g, x, r, j) = Around(g, x, q, j)
      BY <3>2, <3>5 DEF Around
    <3> QED BY <3>3, <3>4, <3>6
  <2> QED BY <1>1, <2>1, <2>2
<1>4. B = Nat
  <2>1. B \in SUBSET Nat
    BY <1>1
  <2> QED BY <1>2, <1>3, <2>1, AllNumbers
<1> QED BY <1>1, <1>4

\* They exist, for every number of steps.
LEMMA ReachesExists ==
    ASSUME NEW g, NEW x PROVE \A n \in Nat : \E r : Reaches(r, g, x, n)
<1>1. PICK B : B = { n \in Nat : \E r : Reaches(r, g, x, n) }
  BY Zenon
<1>2. 0 \in B
  <2>1. PICK r : r = [i \in {0} |-> {Entry} \ {x}]
    BY Zenon
  <2>2. Reaches(r, g, x, 0)
    BY <2>1 DEF Reaches, Around
  <2> QED BY <1>1, <2>2
<1>3. ASSUME NEW n \in B PROVE n + 1 \in B
  <2>1. n \in Nat /\ n + 1 \in Nat
    BY <1>1
  <2>2. PICK r : Reaches(r, g, x, n)
    BY <1>1
  <2>3. PICK q : q = [i \in 0 .. n + 1 |-> IF i = n + 1 THEN Step(g, r[n], {x}) ELSE r[i]]
    BY Zenon
  <2>4. \A i \in 0 .. n : q[i] = r[i]
    BY <2>1, <2>3
  <2>5. q[n + 1] = Step(g, r[n], {x})
    BY <2>1, <2>3
  <2>6. ASSUME NEW m \in 0 .. n + 1 PROVE q[m] = Around(g, x, q, m)
    <3>1. CASE m = n + 1
      <4>1. m # 0 /\ m - 1 = n /\ n \in 0 .. n
        BY <2>1, <3>1
      <4>2. q[m - 1] = r[n] /\ q[m] = Step(g, r[n], {x})
        BY <2>4, <2>5, <3>1, <4>1
      <4> QED BY <4>1, <4>2 DEF Around
    <3>2. CASE m # n + 1
      <4>1. m \in 0 .. n /\ (m # 0 => m - 1 \in 0 .. n)
        BY <2>1, <3>2
      <4>2. q[m] = r[m] /\ (m # 0 => q[m - 1] = r[m - 1])
        BY <2>4, <4>1
      <4>3. r[m] = Around(g, x, r, m)
        BY <2>2, <4>1 DEF Reaches
      <4> QED BY <4>2, <4>3 DEF Around
    <3> QED BY <3>1, <3>2
  <2>7. Reaches(q, g, x, n + 1)
    BY <2>6 DEF Reaches
  <2> QED BY <1>1, <2>1, <2>7
<1>4. B = Nat
  <2>1. B \in SUBSET Nat
    BY <1>1
  <2> QED BY <1>2, <1>3, <2>1, AllNumbers
<1> QED BY <1>1, <1>4

\* So the recursion of ReachAround has a solution.
LEMMA ReachExists == ASSUME NEW g, NEW x PROVE \E r : IsReach(r, g, x)
<1>1. PICK pick : pick = [n \in Nat |-> CHOOSE r : Reaches(r, g, x, n)]
  BY Zenon
<1>2. \A n \in Nat : Reaches(pick[n], g, x, n)
  BY <1>1, ReachesExists
<1>3. PICK f : f = [n \in Nat |-> pick[n][n]]
  BY Zenon
<1>4. ASSUME NEW n \in Nat PROVE f[n] = IF n = 0 THEN {Entry} \ {x} ELSE Step(g, f[n - 1], {x})
  <2>1. PICK r : r = pick[n]
    OBVIOUS
  <2>2. Reaches(r, g, x, n) /\ f[n] = r[n]
    BY <1>2, <1>3, <2>1
  <2>3. r[n] = Around(g, x, r, n)
    BY <2>2 DEF Reaches
  <2>4. CASE n = 0
    BY <2>2, <2>3, <2>4 DEF Around
  <2>5. CASE n # 0
    <3>1. PICK m : m = n - 1 /\ m \in Nat /\ m <= n /\ m <= m
      BY <2>5
    <3>2. Reaches(pick[m], g, x, m) /\ f[m] = pick[m][m]
      BY <1>2, <1>3, <3>1
    <3>3. r[m] = f[m]
      BY <2>2, <3>1, <3>2, ReachesUnique
    <3> QED BY <2>2, <2>3, <2>5, <3>1, <3>3 DEF Around
  <2> QED BY <2>4, <2>5
<1>5. f = [n \in Nat |-> IF n = 0 THEN {Entry} \ {x} ELSE Step(g, f[n - 1], {x})]
  <2>1. PICK h : h = [n \in Nat |-> IF n = 0 THEN {Entry} \ {x} ELSE Step(g, f[n - 1], {x})]
    BY Zenon
  <2>2. \A n \in Nat : f[n] = h[n]
    BY <1>4, <2>1, Zenon
  <2>3. f = h
    BY <1>3, <2>1, <2>2, Zenon
  <2> QED BY <2>1, <2>3, Zenon
<1> QED BY <1>5 DEF IsReach

\* The recursion reaches a set it does not leave within the bound.
LEMMA ReachAroundIs ==
    ASSUME NEW g, NEW x
    PROVE  \E r : IsReach(r, g, x) /\ ReachAround(g, x) = r[CHOOSE n \in 0 .. Len(g.blocks) : r[n + 1] = r[n]]
<1>1. PICK r : r = CHOOSE q : IsReach(q, g, x)
  BY Zenon
<1>2. IsReach(r, g, x)
  BY <1>1, ReachExists
<1>3. ReachAround(g, x) = r[CHOOSE n \in 0 .. Len(g.blocks) : r[n + 1] = r[n]]
  BY <1>1, Zenon DEF ReachAround, IsReach
<1> QED BY <1>2, <1>3, Zenon

\* No branch leaves D, which has the entry.
ClosedIn(g, D) == Entry \in D /\ \A b \in D : Succ(g, b) \subseteq D

\* The sets grow, and stay in D.
Growing(r, g, x, D) ==
    /\ \A n \in Nat : r[n + 1] = Step(g, r[n], {x})
    /\ \A n \in Nat : r[n] \subseteq r[n + 1] /\ r[n] \subseteq D /\ {Entry} \ {x} \subseteq r[n]

\* The sets only grow, and stay in every closed set of blocks with the entry.
LEMMA ReachGrows ==
    ASSUME NEW g, NEW x, NEW r, IsReach(r, g, x), NEW D, ClosedIn(g, D)
    PROVE  Growing(r, g, x, D)
<1>0. Entry \in D /\ \A b \in D : Succ(g, b) \subseteq D
  BY DEF ClosedIn
<1>1. r[0] = {Entry} \ {x}
  BY DEF IsReach
<1>2. ASSUME NEW n \in Nat PROVE r[n + 1] = Step(g, r[n], {x})
  <2>1. PICK m : m = n + 1
    OBVIOUS
  <2>2. m \in Nat /\ m # 0 /\ m - 1 = n
    BY <2>1
  <2>3. r[m] = Step(g, r[m - 1], {x})
    BY <2>2, Zenon DEF IsReach
  <2> QED BY <2>1, <2>2, <2>3
<1>3. PICK B : B = { n \in Nat : r[n] \subseteq D /\ x \notin r[n] /\ {Entry} \ {x} \subseteq r[n] }
  BY Zenon
<1>4. 0 \in B
  BY <1>0, <1>1, <1>3
<1>5. ASSUME NEW n \in B PROVE n + 1 \in B /\ r[n] \subseteq r[n + 1]
  <2>1. n \in Nat /\ n + 1 \in Nat /\ r[n] \subseteq D /\ x \notin r[n] /\ {Entry} \ {x} \subseteq r[n]
    BY <1>3
  <2>2. PICK q : q = r[n + 1]
    OBVIOUS
  <2>3. q = (r[n] \cup UNION { Succ(g, b) : b \in r[n] }) \ {x}
    BY <1>2, <2>1, <2>2 DEF Step
  <2>4. r[n] \subseteq q /\ x \notin q /\ q \subseteq D
    BY <1>0, <2>1, <2>3
  <2> QED BY <1>3, <2>1, <2>2, <2>4
<1>6. B = Nat
  <2>1. B \in SUBSET Nat
    BY <1>3
  <2> QED BY <1>4, <1>5, <2>1, AllNumbers
<1> QED BY <1>2, <1>3, <1>5, <1>6, Zenon DEF Growing

\* A growing sequence of sets of N blocks does not change at one of N + 1
\* steps.
LEMMA ReachStops ==
    ASSUME NEW N, N \in Nat, NEW r, \A n \in Nat : r[n] \subseteq r[n + 1] /\ r[n] \subseteq 1 .. N
    PROVE  \E n \in 0 .. N : r[n + 1] = r[n]
<1>1. SUFFICES ASSUME \A n \in 0 .. N : r[n + 1] # r[n] PROVE FALSE
  OBVIOUS
<1>2. IsFiniteSet(1 .. N) /\ Cardinality(1 .. N) <= N
  <2>1. IsFiniteSet(1 .. N) /\ Cardinality(1 .. N) = IF 1 > N THEN 0 ELSE N - 1 + 1
    BY FS_Interval
  <2> QED BY <2>1
<1>3. \A n \in Nat : IsFiniteSet(r[n]) /\ Cardinality(r[n]) \in Nat /\ Cardinality(r[n]) <= Cardinality(1 .. N)
  BY <1>2, FS_Subset, FS_CardinalityType
<1>4. PICK B : B = { n \in Nat : n <= N + 1 => n <= Cardinality(r[n]) }
  BY Zenon
<1>5. 0 \in B
  BY <1>3, <1>4
<1>6. ASSUME NEW n \in B PROVE n + 1 \in B
  <2>1. n \in Nat /\ n + 1 \in Nat
    BY <1>4
  <2>2. ASSUME n + 1 <= N + 1 PROVE n + 1 <= Cardinality(r[n + 1])
    <3>1. n \in 0 .. N /\ n <= N + 1
      BY <2>1, <2>2
    <3>2. n <= Cardinality(r[n])
      BY <1>4, <3>1
    <3>3. PICK S, T : S = r[n + 1] /\ T = r[n]
      OBVIOUS
    <3>4. IsFiniteSet(S) /\ T \in SUBSET S /\ S # T
      BY <1>1, <1>3, <2>1, <3>1, <3>3, Zenon
    <3>5. Cardinality(T) <= Cardinality(S) /\ Cardinality(S) # Cardinality(T)
      BY <3>4, FS_Subset
    <3>6. Cardinality(T) \in Nat /\ Cardinality(S) \in Nat
      BY <1>3, <2>1, <3>3, Zenon
    <3>7. n <= Cardinality(T)
      BY <3>2, <3>3
    <3>8. n + 1 <= Cardinality(S)
      BY ONLY <2>1, <3>5, <3>6, <3>7
    <3> QED BY <3>3, <3>8
  <2> QED BY <1>4, <2>1, <2>2
<1>7. B = Nat
  <2>1. B \in SUBSET Nat
    BY <1>4
  <2> QED BY <1>5, <1>6, <2>1, AllNumbers
<1>8. PICK m : m = N + 1
  OBVIOUS
<1>9. m \in Nat /\ m <= N + 1
  BY <1>8
<1>10. m <= Cardinality(r[m])
  BY <1>4, <1>7, <1>9
<1>11. Cardinality(r[m]) <= Cardinality(1 .. N) /\ Cardinality(r[m]) \in Nat
  BY <1>3, <1>9
<1>12. Cardinality(1 .. N) \in Nat
  BY <1>2, FS_CardinalityType
<1> QED BY <1>2, <1>8, <1>10, <1>11, <1>12

\* All blocks that a path around x reaches are in the set.
LEMMA ReachClosed ==
    ASSUME NEW g, WellFormed(g), NEW x, NEW D, D \subseteq DOMAIN g.blocks,
           ClosedIn(g, D)
    PROVE  /\ {Entry} \ {x} \subseteq ReachAround(g, x)
           /\ \A b \in ReachAround(g, x) : Succ(g, b) \ {x} \subseteq ReachAround(g, x)
<1>1. PICK r : /\ IsReach(r, g, x)
               /\ ReachAround(g, x) = r[CHOOSE n \in 0 .. Len(g.blocks) : r[n + 1] = r[n]]
  BY ReachAroundIs, ZenonT(30)
<1>2. PICK N : N = Len(g.blocks) /\ N \in Nat /\ DOMAIN g.blocks = 1 .. N
  BY DEF WellFormed, Fn
<1>3. /\ \A n \in Nat : r[n + 1] = Step(g, r[n], {x})
      /\ \A n \in Nat : r[n] \subseteq r[n + 1] /\ r[n] \subseteq D /\ {Entry} \ {x} \subseteq r[n]
  <2>1. IsReach(r, g, x) /\ ClosedIn(g, D)
    BY <1>1
  <2>2. Growing(r, g, x, D)
    BY ONLY <2>1, ReachGrows
  <2> QED BY ONLY <2>2, Zenon DEF Growing
<1>4. \E n \in 0 .. N : r[n + 1] = r[n]
  BY <1>2, <1>3, ReachStops, Zenon
<1>5. PICK m : m = CHOOSE n \in 0 .. N : r[n + 1] = r[n]
  OBVIOUS
<1>6. m \in 0 .. N /\ r[m + 1] = r[m]
  BY <1>4, <1>5
<1>7. PICK K : K = r[m] /\ K = ReachAround(g, x)
  BY <1>1, <1>2, <1>5, Zenon
<1>8. m \in Nat
  BY <1>2, <1>6
<1>9. K = Step(g, K, {x}) /\ {Entry} \ {x} \subseteq K
  BY <1>3, <1>6, <1>7, <1>8, Zenon
<1>10. \A b \in K : Succ(g, b) \ {x} \subseteq K
  BY <1>9 DEF Step
<1> QED BY <1>7, <1>9, <1>10

-----------------------------------------------------------------------------
(* The inductive invariant of the specification. *)

\* No path to instruction i of block b has assigned x.
NotYet(g, b, i) ==
    \/ b = g.x /\ \A j \in 1 .. i - 1 : g.blocks[b].ins[j].k # "set"
    \/ b \in ReachAround(g, g.x)

\* While the function is built, its blocks fit the source so far.
Built == phase = "build" => BuildOK(src, frames, func) /\ SafeIn(func)

\* The function that runs fits the source and has been verified.
Accepted == phase = "run" => RunOK(src, func) /\ Verified(func) /\ SafeIn(func)

\* Only a function that was accepted runs.
Resting == phase # "run" => cpos.b = 0

\* The next instruction is where the source is, up to the moves in which it
\* does nothing.
InStep == Running => Follows(FinalRules(src), func, cpos.b, cpos.i, rpos)

\* As long as x is not assigned, the code has come around its first assignment.
UnsetAround == Running => (assigned \/ NotYet(func, cpos.b, cpos.i))

\* The inductive invariant.
FlowInvariant == Built /\ Accepted /\ Resting /\ InStep /\ UnsetAround

\* The entry is one of the blocks inside.
LEMMA EntryInside == ASSUME NEW g, SafeIn(g) PROVE Entry \in InsideOf(g)
BY DEF SafeIn, EntryIn, Inside, InsideOf, Entry

\* The set verifyFunction looks at is closed: a branch leaves it only to x.
LEMMA AroundClosed ==
    ASSUME NEW g, WellFormed(g), Verified(g), SafeIn(g), NEW x
    PROVE  /\ {Entry} \ {x} \subseteq ReachAround(g, x)
           /\ \A b \in ReachAround(g, x) : Succ(g, b) \ {x} \subseteq ReachAround(g, x)
<1>1. PICK D : D = InsideOf(g)
  OBVIOUS
<1>2. D \subseteq DOMAIN g.blocks
  BY <1>1 DEF InsideOf
<1>3. ClosedIn(g, D)
  BY <1>1, EntryInside, VerifiedFacts DEF ClosedIn
<1> QED BY <1>2, <1>3, ReachClosed

\* A read of x that is reached comes after an assignment.
LEMMA ReadIsSet ==
    ASSUME NEW g, RunOK(src, g), Verified(g), NEW b, NEW i, NEW p, Follows(FinalRules(src), g, b, i, p),
           NotYet(g, b, i), g.x # Argument
    PROVE  g.blocks[b].ins[i].k # "get"
<1>1. PICK q : q = g.blocks[b].ins
  OBVIOUS
<1>2. b \in DOMAIN g.blocks /\ q \in Seq(Ins) /\ i \in DOMAIN q
  BY <1>1, NextFits, Zenon DEF Follows
<1>3. CASE b \in ReachAround(g, g.x)
  <2>1. ~Uses(g, b)
    BY <1>3, Zenon DEF Verified
  <2> QED BY <1>1, <1>2, <2>1 DEF Uses
<1>4. CASE b = g.x /\ \A j \in 1 .. i - 1 : q[j].k # "set"
  <2>1. b # 0
    BY <1>2, NextFits, BlockTyped
  <2>2. SetFirst(q)
    BY <1>1, <1>4, <2>1 DEF RunOK, UsesOK
  <2>3. PICK m \in DOMAIN q : q[m].k = "set" /\ \A j \in 1 .. m - 1 : q[j].k # "get"
    BY <2>2 DEF SetFirst
  <2>4. m \in Nat /\ i \in Nat /\ 1 <= m /\ 1 <= i
    BY <1>2
  <2>5. i <= m
    <3>1. m \notin 1 .. i - 1
      BY <1>4, <2>3
    <3> QED BY <2>4, <3>1
  <2>6. CASE i = m
    BY <1>1, <2>3, <2>6
  <2>7. CASE i < m
    <3>1. i \in 1 .. m - 1
      BY <2>4, <2>7
    <3> QED BY <1>1, <2>3, <3>1
  <2> QED BY <2>4, <2>5, <2>6, <2>7
<1> QED BY <1>1, <1>3, <1>4 DEF NotYet

\* A branch does not leave the block of the alloca before the assignment.
LEMMA BranchNotYet ==
    ASSUME NEW g, RunOK(src, g), Verified(g), SafeIn(g), NEW b, NEW i, NEW p,
           Follows(FinalRules(src), g, b, i, p), NotYet(g, b, i),
           NEW I, I = g.blocks[b].ins[i], I.k \in {"br", "cond", "inner"}, NEW t, t \in {I.yes, I.no}
    PROVE  NotYet(g, t, 1)
<1>1. PICK q : q = g.blocks[b].ins
  OBVIOUS
<1>2. b \in DOMAIN g.blocks /\ q \in Seq(Ins) /\ i \in DOMAIN q /\ WellFormed(g) /\ b \in InsideOf(g)
  BY <1>1, NextFits, Zenon DEF Follows
<1>3. t \in Succ(g, b)
  BY <1>1, <1>2 DEF Succ, Targets
<1>4. CASE t = g.x
  <2>1. 1 .. 1 - 1 = {}
    OBVIOUS
  <2> QED BY <1>4, <2>1 DEF NotYet
<1>5. CASE t # g.x /\ b \in ReachAround(g, g.x)
  BY <1>2, <1>3, <1>5, AroundClosed DEF NotYet
<1>6. CASE b = g.x /\ \A j \in 1 .. i - 1 : q[j].k # "set"
  <2>1. b # 0 /\ b # Argument
    BY <1>2, BlockTyped DEF Argument
  <2>2. SetFirst(q)
    BY <1>1, <1>6, <2>1 DEF RunOK, UsesOK
  <2>3. PICK m \in DOMAIN q : q[m].k = "set"
    BY <2>2 DEF SetFirst
  <2>4. IsTerminator(q[i]) /\ m # i
    BY <1>1, <2>3 DEF IsTerminator
  <2>5. \A j \in 1 .. Len(q) - 1 : ~IsTerminator(q[j])
    BY <1>1, <1>2, VerifiedFacts
  <2>6. i \notin 1 .. Len(q) - 1
    BY <2>4, <2>5
  <2>7. Len(q) \in Nat /\ i \in 1 .. Len(q) /\ m \in 1 .. Len(q)
    BY <1>2
  <2>8. m \in 1 .. i - 1
    BY ONLY <2>4, <2>6, <2>7
  <2> QED BY <1>6, <2>3, <2>8
<1> QED BY <1>1, <1>4, <1>5, <1>6 DEF NotYet

\* What is known of the source when it is complete.
LEMMA FinalViewFields ==
    ASSUME NEW s PROVE FinalView(s).E = FinalRules(s) /\ FinalView(s).T = Branches(s, << >>)
BY DEF FinalView

\* The action Start: nothing is assigned and nothing was done.
LEMMA StartStep ==
    ASSUME FlowInvariant, Start
    PROVE  /\ Follows(FinalRules(src), func, Entry, 1, After(Begin))
           /\ NotYet(func, Entry, 1)
<1>1. RunOK(src, func) /\ Verified(func) /\ SafeIn(func)
  BY DEF FlowInvariant, Accepted, Start
<1>2. WellFormed(func) /\ Entry \in InsideOf(func) /\ func.blocks[Entry].name = After(Begin)
  BY <1>1, EntryInside DEF RunOK, CodeOK, BaseOK, NameIs
<1>3. Follows(FinalRules(src), func, Entry, 1, After(Begin))
  BY <1>1, <1>2, EnterBlock, SameRefl, PlacesOfTok, DoneFacts
<1>4. CASE func.x = Entry
  <2>1. 1 .. 1 - 1 = {}
    OBVIOUS
  <2> QED BY <1>3, <1>4, <2>1 DEF NotYet
<1>5. CASE func.x # Entry
  BY <1>1, <1>2, <1>3, <1>5, AroundClosed DEF NotYet
<1> QED BY <1>4, <1>5

\* The action Pass: the source goes on, the code waits.
LEMMA PassStep ==
    ASSUME FlowInvariant, Pass PROVE Follows(FinalRules(src), func, cpos.b, cpos.i, Onward(rpos))
<1>1. RunOK(src, func) /\ Follows(FinalRules(src), func, cpos.b, cpos.i, rpos) /\ Silent(rpos)
  BY DEF FlowInvariant, Accepted, InStep, Pass, Running
<1>2. SourceOK(src)
  BY <1>1 DEF RunOK
<1>3. PICK E, p, r : E = FinalRules(src) /\ p = rpos /\ r = Onward(rpos)
  OBVIOUS
<1>4. r \in Place /\ Same(E, p, r)
  BY <1>1, <1>2, <1>3, OnwardTyped, MoveIsRule, SameMove, Zenon
<1>5. Same(E, r, p)
  BY <1>4 DEF Same
<1> QED BY <1>1, <1>3, <1>4, <1>5, SameTrans DEF Follows

\* The action Jump: the code goes on, the source waits.
LEMMA JumpStep ==
    ASSUME FlowInvariant, NEW yes \in BOOLEAN, Jump(yes),
           NEW t, t = IF yes THEN Instruction.yes ELSE Instruction.no
    PROVE  /\ Follows(FinalRules(src), func, t, 1, rpos)
           /\ assigned \/ NotYet(func, t, 1)
<1>1. PICK I : I = Instruction
  OBVIOUS
<1>2. /\ RunOK(src, func) /\ Verified(func) /\ SafeIn(func)
      /\ Follows(FinalRules(src), func, cpos.b, cpos.i, rpos) /\ I.k \in {"br", "inner"}
      /\ assigned \/ NotYet(func, cpos.b, cpos.i)
  BY <1>1 DEF FlowInvariant, Accepted, InStep, UnsetAround, Jump, Running
<1>3. I = func.blocks[cpos.b].ins[cpos.i]
  BY <1>1 DEF Instruction
<1>4. t \in {I.yes, I.no}
  BY <1>1, Zenon
<1>5. PICK W : W = FinalView(src) /\ W.E = FinalRules(src)
  BY FinalViewFields
<1>6. Fits(W, func, rpos, I) /\ WellFormed(func)
  BY <1>2, <1>3, <1>5, NextFits
<1>7. Goes(W, func, rpos, I)
  BY <1>2, <1>6 DEF Fits, Decides, Simple
<1>8. t \in InsideOf(func) /\ I.k \in {"br", "cond", "inner"}
  BY <1>2, <1>3, <1>4, TargetsIn DEF Follows
<1>9. Same(FinalRules(src), rpos, func.blocks[t].name) /\ rpos \in Place
  BY <1>2, <1>4, <1>5, <1>7 DEF Goes, Follows
<1>10. Follows(FinalRules(src), func, t, 1, rpos)
  BY <1>2, <1>6, <1>8, <1>9, EnterBlock
<1>11. NotYet(func, cpos.b, cpos.i) => NotYet(func, t, 1)
  BY <1>2, <1>3, <1>4, <1>8, BranchNotYet
<1> QED BY <1>2, <1>10, <1>11, Zenon

\* The action Decide: both take the branch of the same outcome.
LEMMA DecideStep ==
    ASSUME FlowInvariant, NEW yes \in BOOLEAN, Decide(yes),
           NEW t, t = IF yes THEN Instruction.yes ELSE Instruction.no,
           NEW p, p = IF yes THEN After(rpos.tok) ELSE Otherwise(rpos.tok)
    PROVE  /\ Follows(FinalRules(src), func, t, 1, p)
           /\ assigned \/ NotYet(func, t, 1)
<1>1. PICK I : I = Instruction
  OBVIOUS
<1>2. /\ RunOK(src, func) /\ Verified(func) /\ SafeIn(func) /\ ~Silent(rpos)
      /\ Follows(FinalRules(src), func, cpos.b, cpos.i, rpos) /\ I.k = "cond"
      /\ assigned \/ NotYet(func, cpos.b, cpos.i)
  BY <1>1 DEF FlowInvariant, Accepted, InStep, UnsetAround, Decide, Running
<1>3. I = func.blocks[cpos.b].ins[cpos.i]
  BY <1>1 DEF Instruction
<1>4. t \in {I.yes, I.no}
  BY <1>1, Zenon
<1>5. PICK W : W = FinalView(src) /\ W.E = FinalRules(src) /\ W.T = Branches(src, << >>)
  BY FinalViewFields
<1>6. Fits(W, func, rpos, I) /\ WellFormed(func)
  BY <1>2, <1>3, <1>5, NextFits
<1>7. Decides(W, func, rpos, I)
  BY <1>2, <1>6 DEF Fits, Goes, Simple
<1>8. t \in InsideOf(func) /\ I.k \in {"br", "cond", "inner"}
  BY <1>2, <1>3, <1>4, TargetsIn DEF Follows
<1>9. rpos.tok = I.t
  <2>1. rpos = At(I.t)
    BY <1>2, <1>3, NextInSource
  <2> QED BY <2>1, PlaceFields
<1>10. p = func.blocks[t].name
  <2>1. CASE yes
    <3>1. t = I.yes /\ p = After(I.t)
      BY <1>1, <1>9, <2>1, Zenon
    <3> QED BY <1>7, <3>1 DEF Decides
  <2>2. CASE ~yes
    <3>1. t = I.no /\ p = Otherwise(I.t)
      BY <1>1, <1>9, <2>2, Zenon
    <3>2. func.blocks[I.no].name = OtherwiseIn(W.T, I.t)
      BY <1>7 DEF Decides
    <3> QED BY <1>5, <3>1, <3>2, OtherwiseFinal
  <2> QED BY <2>1, <2>2
<1>11. p \in Place /\ Same(FinalRules(src), p, func.blocks[t].name)
  BY <1>6, <1>8, <1>10, BlockTyped, SameRefl DEF InsideOf
<1>12. Follows(FinalRules(src), func, t, 1, p)
  BY <1>2, <1>6, <1>8, <1>11, EnterBlock
<1>13. NotYet(func, cpos.b, cpos.i) => NotYet(func, t, 1)
  BY <1>2, <1>3, <1>4, <1>8, BranchNotYet
<1> QED BY <1>2, <1>12, <1>13, Zenon

\* The action Execute: both do the same statement.
LEMMA ExecuteStep ==
    ASSUME FlowInvariant, Execute, NEW p, p = IF rpos.tok.k = "return" THEN Done ELSE After(rpos.tok)
    PROVE  /\ Follows(FinalRules(src), func, cpos.b, cpos.i + 1, p)
           /\ (assigned \/ Instruction.k \in {"set", "copy"}) \/ NotYet(func, cpos.b, cpos.i + 1)
<1>1. PICK I, b, i : I = Instruction /\ b = cpos.b /\ i = cpos.i
  OBVIOUS
<1>2. /\ RunOK(src, func) /\ Verified(func) /\ ~Silent(rpos)
      /\ Follows(FinalRules(src), func, b, i, rpos) /\ I.k \in Simple
      /\ assigned \/ NotYet(func, b, i)
  BY <1>1 DEF FlowInvariant, Accepted, InStep, UnsetAround, Execute, Running, Simple
<1>3. I = func.blocks[b].ins[i]
  BY <1>1 DEF Instruction
<1>4. rpos = At(I.t)
  BY <1>2, <1>3, NextInSource
<1>5. /\ I.t \in Tok /\ WellFormed(func) /\ Fits(FinalView(src), func, rpos, I)
      /\ b \in DOMAIN func.blocks /\ func.blocks[b].ins \in Seq(Ins)
  BY <1>2, <1>3, NextFits
<1>6. I.t.k = I.k
  BY <1>2, <1>5 DEF Fits, Decides, Goes, Simple
<1>7. p = NextPlace(I)
  BY <1>4, <1>6, PlaceFields DEF NextPlace
<1>8. p \in Place
  BY <1>5, <1>7, PlacesOfTok, DoneFacts DEF NextPlace
<1>9. /\ b \in InsideOf(func) /\ i \in DOMAIN func.blocks[b].ins /\ Open(func.blocks[b], i)
  BY <1>2 DEF Follows
<1>10. /\ i + 1 \in DOMAIN func.blocks[b].ins /\ Open(func.blocks[b], i + 1)
       /\ PlaceAt(func.blocks[b], i + 1) = NextPlace(I)
  BY <1>2, <1>3, <1>5, <1>9, StatementNotLast
<1>11. Follows(FinalRules(src), func, b, i + 1, p)
  BY <1>7, <1>8, <1>9, <1>10, SameRefl DEF Follows
<1>12. ASSUME NotYet(func, b, i), I.k # "set" PROVE NotYet(func, b, i + 1)
  <2>1. i \in Nat
    BY <1>5, <1>9
  <2>2. PICK m : m = i + 1
    OBVIOUS
  <2>3. m = i + 1 /\ \A j \in 1 .. m - 1 : j \in 1 .. i - 1 \/ j = i
    BY ONLY <2>1, <2>2
  <2>4. NotYet(func, b, m)
    BY <1>3, <1>12, <2>3 DEF NotYet
  <2> QED BY <2>3, <2>4
<1> QED BY <1>1, <1>2, <1>11, <1>12, Zenon

\* While the function is built nothing runs.
LEMMA BuildingKeeps ==
    ASSUME FlowInvariant, Building \/ Finish
    PROVE  /\ phase = "build" /\ cpos' = cpos /\ cpos.b = 0
           /\ (Building => phase' # "run") /\ (Finish => phase' # "build")
<1>1. phase = "build" /\ cpos' = cpos
  BY DEF Building, Finish, Assign, TakePlace, Read, VectorExpression, ReturnValue, BreakLoop, ContinueLoop,
         While, EndWhile, Elif, Else, EndIfElse, If, Idle
<1>2. cpos.b = 0
  BY <1>1 DEF FlowInvariant, Resting
<1>3. Building => phase' # "run"
  BY <1>1 DEF Building, Assign, TakePlace, Read, VectorExpression, ReturnValue, BreakLoop, ContinueLoop,
         While, EndWhile, Elif, Else, EndIfElse, If
<1>4. Finish => phase' # "build"
  BY DEF Finish
<1> QED BY <1>1, <1>2, <1>3, <1>4

\* The invariant holds before anything is built.
LEMMA FlowInit_Inv == FlowInit => FlowInvariant
<1> SUFFICES ASSUME FlowInit PROVE FlowInvariant
  OBVIOUS
<1>1. phase = "build" /\ cpos.b = 0
  BY DEF FlowInit, Pos
<1>2. BuildOK(src, frames, func) /\ SafeIn(func)
  BY InitBuilds, InitIn
<1> QED BY <1>1, <1>2 DEF FlowInvariant, Built, Accepted, Resting, InStep, UnsetAround, Running

\* While the code runs only the two positions and the assignment change.
LEMMA RunKeeps ==
    ASSUME FlowInvariant, phase = "run", UNCHANGED <<phase, src, frames, func>>,
           Running' => /\ Follows(FinalRules(src), func, cpos'.b, cpos'.i, rpos')
                       /\ assigned' \/ NotYet(func, cpos'.b, cpos'.i)
    PROVE  FlowInvariant'
<1>1. Built' /\ Resting'
  BY DEF Built, Resting
<1>2. Accepted'
  BY Zenon DEF FlowInvariant, Accepted
<1>3. InStep' /\ UnsetAround'
  BY Zenon DEF InStep, UnsetAround
<1> QED BY <1>1, <1>2, <1>3 DEF FlowInvariant

\* Every step keeps the invariant.
LEMMA FlowNext_Inv == FlowInvariant /\ [FlowNext]_flowVars => FlowInvariant'
<1> SUFFICES ASSUME FlowInvariant, [FlowNext]_flowVars PROVE FlowInvariant'
  OBVIOUS
<1>1. CASE Building
  <2>1. phase = "build" /\ cpos'.b = 0 /\ phase' # "run"
    BY <1>1, BuildingKeeps
  <2>2. phase' = "build" => BuildOK(src', frames', func')
    BY <1>1, <2>1, BuildingStep DEF FlowInvariant, Built
  <2>3. SafeIn(func')
    BY <1>1, <2>1, StepIn DEF FlowInvariant, Built
  <2> QED BY <2>1, <2>2, <2>3 DEF FlowInvariant, Built, Accepted, Resting, InStep, UnsetAround, Running
<1>2. CASE Finish
  <2>1. phase = "build" /\ cpos'.b = 0 /\ phase' # "build"
    BY <1>2, BuildingKeeps
  <2>2. RunOK(src', func') /\ (phase' = "run" => Verified(func'))
    BY <1>2, <2>1, FinishStep DEF FlowInvariant, Built
  <2>3. SafeIn(func')
    BY <1>2, <2>1, StepIn DEF FlowInvariant, Built
  <2> QED BY <2>1, <2>2, <2>3 DEF FlowInvariant, Built, Accepted, Resting, InStep, UnsetAround, Running
<1>3. CASE Start
  <2>1. cpos'.b = Entry /\ cpos'.i = 1 /\ rpos' = After(Begin)
    BY <1>3 DEF Start, Pos
  <2>2. phase = "run" /\ UNCHANGED <<phase, src, frames, func>>
    BY <1>3 DEF Start
  <2> QED BY <1>3, <2>1, <2>2, StartStep, RunKeeps
<1>4. CASE Pass
  <2>1. /\ cpos' = cpos /\ rpos' = Onward(rpos) /\ assigned' = assigned
        /\ phase = "run" /\ UNCHANGED <<phase, src, frames, func>>
    BY <1>4 DEF Pass, Running
  <2>2. assigned \/ NotYet(func, cpos.b, cpos.i)
    BY <1>4, Zenon DEF FlowInvariant, UnsetAround, Pass
  <2>3. Follows(FinalRules(src), func, cpos.b, cpos.i, Onward(rpos))
    BY <1>4, PassStep
  <2> QED BY <2>1, <2>2, <2>3, RunKeeps
<1>5. ASSUME NEW yes \in BOOLEAN, Jump(yes) PROVE FlowInvariant'
  <2>1. PICK t : t = IF yes THEN Instruction.yes ELSE Instruction.no
    OBVIOUS
  <2>2. /\ cpos' = Pos(t, 1) /\ rpos' = rpos /\ assigned' = assigned
        /\ phase = "run" /\ UNCHANGED <<phase, src, frames, func>>
    BY <1>5, <2>1, Zenon DEF Jump, Running
  <2>3. cpos'.b = t /\ cpos'.i = 1
    BY <2>2 DEF Pos
  <2>4. Follows(FinalRules(src), func, t, 1, rpos) /\ (assigned \/ NotYet(func, t, 1))
    BY <1>5, <2>1, JumpStep
  <2> QED BY <2>2, <2>3, <2>4, RunKeeps
<1>6. ASSUME NEW yes \in BOOLEAN, Decide(yes) PROVE FlowInvariant'
  <2>1. PICK t, p : /\ t = IF yes THEN Instruction.yes ELSE Instruction.no
                    /\ p = IF yes THEN After(rpos.tok) ELSE Otherwise(rpos.tok)
    OBVIOUS
  <2>2. /\ cpos' = Pos(t, 1) /\ rpos' = p /\ assigned' = assigned
        /\ phase = "run" /\ UNCHANGED <<phase, src, frames, func>>
    BY <1>6, <2>1, Zenon DEF Decide, Running
  <2>3. cpos'.b = t /\ cpos'.i = 1
    BY <2>2 DEF Pos
  <2>4. Follows(FinalRules(src), func, t, 1, p) /\ (assigned \/ NotYet(func, t, 1))
    BY <1>6, <2>1, DecideStep
  <2> QED BY <2>2, <2>3, <2>4, RunKeeps
<1>7. CASE Execute
  <2>1. PICK p : p = IF rpos.tok.k = "return" THEN Done ELSE After(rpos.tok)
    OBVIOUS
  <2>2. /\ cpos' = Pos(cpos.b, cpos.i + 1) /\ rpos' = p
        /\ assigned' = (assigned \/ Instruction.k \in {"set", "copy"})
        /\ phase = "run" /\ UNCHANGED <<phase, src, frames, func>>
    BY <1>7, <2>1, Zenon DEF Execute, Running
  <2>3. cpos'.b = cpos.b /\ cpos'.i = cpos.i + 1
    BY <2>2 DEF Pos
  <2>4. /\ Follows(FinalRules(src), func, cpos.b, cpos.i + 1, p)
        /\ (assigned \/ Instruction.k \in {"set", "copy"}) \/ NotYet(func, cpos.b, cpos.i + 1)
    BY <1>7, <2>1, ExecuteStep
  <2>5. assigned' \/ NotYet(func, cpos'.b, cpos'.i)
    BY <2>2, <2>3, <2>4, Zenon
  <2>6. Follows(FinalRules(src), func, cpos'.b, cpos'.i, rpos')
    BY <2>2, <2>3, <2>4
  <2> QED BY <2>2, <2>5, <2>6, RunKeeps
<1>8. CASE UNCHANGED flowVars
  BY <1>8, Zenon DEF flowVars, FlowInvariant, Built, Accepted, Resting, InStep, UnsetAround, Running
<1>9. FlowNext => \/ Building \/ Finish \/ Start \/ Pass \/ Execute
                  \/ \E yes \in BOOLEAN : Jump(yes) \/ Decide(yes)
  BY Zenon DEF FlowNext, Building
<1> QED BY <1>1, <1>2, <1>3, <1>4, <1>5, <1>6, <1>7, <1>8, <1>9

(* What the code generator has built fits the source, statement by         *)
(* statement, and a function that passed verifyFunction is, wherever it    *)
(* runs, at the place where the source is.                                 *)
THEOREM FlowInductive == FlowSpec => []FlowInvariant
<1>1. FlowInit => FlowInvariant
  BY FlowInit_Inv
<1>2. FlowInvariant /\ [FlowNext]_flowVars => FlowInvariant'
  BY FlowNext_Inv
<1> QED BY <1>1, <1>2, PTL DEF FlowSpec

(* For every source of any length, ifs with any number of elifs and any    *)
(* nesting, breaks and continues: a function that FinishFunction accepts   *)
(* executes the statements and conditions of the source, in its order,     *)
(* along every path.  What EndElif and EndElse get wrong, by looking at    *)
(* the first block of a branch and not at the last, verifyFunction rejects. *)
THEOREM BlocksExecuteAsWritten == FlowSpec => []ExecutesAsWritten
<1>1. FlowInvariant => ExecutesAsWritten
  <2> SUFFICES ASSUME FlowInvariant, Running, ~Silent(rpos)
               PROVE  CASE Instruction.k \in {"br", "inner"} -> TRUE
                        [] Instruction.k = "ret" -> rpos = Done
                        [] OTHER -> rpos = At(Instruction.t)
    BY DEF ExecutesAsWritten
  <2>1. PICK I : I = Instruction
    OBVIOUS
  <2>2. RunOK(src, func) /\ Follows(FinalRules(src), func, cpos.b, cpos.i, rpos)
    BY DEF FlowInvariant, Accepted, InStep, Running
  <2>3. I = func.blocks[cpos.b].ins[cpos.i]
    BY <2>1 DEF Instruction
  <2>4. /\ I.k \in Simple \cup {"cond"} => rpos = At(I.t)
        /\ I.k = "ret" => rpos = Done
        /\ I.k \in Simple \cup {"cond", "br", "inner", "ret"}
    BY <2>2, <2>3, NextInSource
  <2> QED BY <2>1, <2>4
<1> QED BY <1>1, FlowInductive, PTL

(* A function that FinishFunction accepts never reads a variable whose     *)
(* memory nothing was stored in: the alloca is made where the first        *)
(* assignment of the source happens to be (Value::CopyFrom), and the block *)
(* of the alloca assigns before it reads and no other use is reached       *)
(* around it; or the variable is the place of an argument.                 *)
THEOREM ReadsOnlyStored == FlowSpec => []NeverReadsUnset
<1>1. FlowInvariant => NeverReadsUnset
  <2> SUFFICES ASSUME FlowInvariant, Running, Instruction.k = "get", func.x # Argument PROVE assigned
    BY Zenon DEF NeverReadsUnset
  <2>1. /\ RunOK(src, func) /\ Verified(func)
        /\ Follows(FinalRules(src), func, cpos.b, cpos.i, rpos)
        /\ assigned \/ NotYet(func, cpos.b, cpos.i)
    BY DEF FlowInvariant, Accepted, InStep, UnsetAround, Running
  <2>2. ~NotYet(func, cpos.b, cpos.i)
    BY <2>1, ReadIsSet DEF Instruction
  <2> QED BY <2>1, <2>2, Zenon
<1> QED BY <1>1, FlowInductive, PTL
=============================================================================
