-------------------------- MODULE IpctStreamProofs --------------------------
(***************************************************************************)
(* Proofs about the example program: that all its packing is what the      *)
(* packer's specification allows, that its first request is a transfer     *)
(* between compatible tables, that every later one is refused by both      *)
(* sides, and so that what the firmware takes of the parameters follows    *)
(* from the two tables and its handler is called for nothing else, whatever*)
(* the mailbox and the firmware's local buffer held.                       *)
(***************************************************************************)
EXTENDS IpctStream, FiniteSetTheorems, FunctionTheorems, TLAPS

(* The members of the parameters.                                          *)
ParamNames ==
  {"id", "direction", "channels", "rate", "frame_fmt", "buffer_fmt",
   "sample_valid_bytes", "sample_container_bytes", "host_period_bytes",
   "stream_tag", "stream_no_irq"}

(* The IDs of the members that are words. *)
WordIds == {0, 1, 3, 4, 5, 8}

(* They are what ParamIds gives IDs to.                                    *)
LEMMA NamesOfParams == DOMAIN ParamIds = ParamNames
BY SMT DEF ParamIds, ParamNames

(* The eleven members have the IDs 0 to 10, one each.                      *)
LEMMA ParamNumbers ==
  /\ \A m \in ParamNames : ParamIds[m] \in 0 .. 10
  /\ \A m, n \in ParamNames : ParamIds[m] = ParamIds[n] => m = n
  /\ \A i \in 0 .. 10 : \E m \in ParamNames : ParamIds[m] = i
<1>1. \A m \in ParamNames : ParamIds[m] \in 0 .. 10
  BY SMT DEF ParamIds, ParamNames
<1>2. \A m, n \in ParamNames : ParamIds[m] = ParamIds[n] => m = n
  BY SMT DEF ParamIds, ParamNames
<1>3. \A i \in 0 .. 10 : \E m \in ParamNames : ParamIds[m] = i
  BY SMT DEF ParamIds, ParamNames
<1> QED  BY <1>1, <1>2, <1>3

(* Whether a member is a word or a half-word follows from its ID.          *)
LEMMA ParamKinds ==
  \A m \in ParamNames :
    /\ ParamTypes[m] \in {"uint32_value", "enum", "boolean", "uint16_value"}
    /\ ParamTypes[m] \in WordTypes <=> ParamIds[m] \in WordIds
    /\ ParamTypes[m] \in HalfWordTypes <=> ParamIds[m] \notin WordIds
<1>1. \A m \in ParamNames : ParamTypes[m] =
        CASE m \in {"id", "rate", "host_period_bytes"}      -> "uint32_value"
          [] m \in {"direction", "frame_fmt", "buffer_fmt"} -> "enum"
          [] m = "stream_no_irq"                            -> "boolean"
          [] OTHER                                          -> "uint16_value"
  BY NamesOfParams, SMT DEF ParamTypes
<1>2. \A m \in ParamNames : ParamIds[m] \in WordIds <=>
        m \in {"id", "rate", "host_period_bytes", "direction", "frame_fmt",
               "buffer_fmt"}
  BY SMT DEF ParamNames, WordIds, ParamIds
<1>3. /\ \A y \in {"uint32_value", "enum"} : y \in WordTypes /\ y \notin HalfWordTypes
      /\ \A y \in {"boolean", "uint16_value"} : y \notin WordTypes /\ y \in HalfWordTypes
  BY SMT DEF WordTypes, HalfWordTypes
<1> QED  BY <1>1, <1>2, <1>3, SMT DEF ParamNames

(* The elements of a table with the layout and the limits of one program.  *)
Declared(layout, limits, m) ==
  [id |-> ParamIds[m], type |-> ParamTypes[m], offset |-> layout[m],
   value1 |-> limits[m][1], value2 |-> limits[m][2]]

(* A descriptor of all members, with one side's layout and limits.         *)
Carries(d, layout, limits) ==
  Elems(d) = {Declared(layout, limits, m) : m \in ParamNames}

(* A layout puts each member on an even byte, none beyond byte 32.         *)
IsLayout(layout) ==
  \A m \in ParamNames : layout[m] \in 0 .. 32 /\ layout[m] % 2 = 0

(* Limits are pairs of numbers.                                            *)
AreLimits(limits) ==
  \A m \in ParamNames : limits[m][1] \in Nat /\ limits[m][2] \in Nat

(* Both structures lay their members out so.                               *)
LEMMA Layouts == IsLayout(alsa_hw_params) /\ IsLayout(stream_params)
BY SMT DEF alsa_hw_params, stream_params, ParamNames, IsLayout

(* What the firmware's limits come to.                                     *)
LEMMA FirmwareNumbers ==
  /\ FirmwareLimits["id"] = <<0, 255>>
  /\ FirmwareLimits["rate"] = <<8000, 192000>>
  /\ FirmwareLimits["channels"] = <<1, 8>>
  /\ FirmwareLimits["sample_valid_bytes"] = <<2, 4>>
  /\ FirmwareLimits["sample_container_bytes"] = <<2, 4>>
  /\ FirmwareLimits["direction"] = <<0, 1>>
  /\ FirmwareLimits["stream_no_irq"] = <<0, 1>>
  /\ FirmwareLimits["frame_fmt"] = <<0, 3>>
  /\ FirmwareLimits["buffer_fmt"] = <<0, 0>>
  /\ FirmwareLimits["stream_tag"] = <<0, 15>>
  /\ FirmwareLimits["host_period_bytes"] = <<64, 1048576>>
<1> USE NamesOfParams DEF FirmwareLimits, ParamNames
<1>1. FirmwareLimits["id"] = <<0, 255>>
  BY SMT DEF STREAM_ID
<1>2. FirmwareLimits["rate"] = <<8000, 192000>>
  BY SMT
<1>3. FirmwareLimits["channels"] = <<1, 8>>
  BY SMT
<1>4. FirmwareLimits["sample_valid_bytes"] = <<2, 4>>
  BY SMT
<1>5. FirmwareLimits["sample_container_bytes"] = <<2, 4>>
  BY SMT
<1>6. FirmwareLimits["direction"] = <<0, 1>>
  BY SMT
<1>7. FirmwareLimits["stream_no_irq"] = <<0, 1>>
  BY SMT
<1>8. FirmwareLimits["frame_fmt"] = <<0, 3>>
  BY SMT
<1>9. FirmwareLimits["buffer_fmt"] = <<0, 0>>
  BY SMT
<1>10. FirmwareLimits["stream_tag"] = <<0, 15>>
  BY SMT
<1>11. FirmwareLimits["host_period_bytes"] = <<64, 1048576>>
  BY SMT
<1> QED  BY <1>1, <1>2, <1>3, <1>4, <1>5, <1>6, <1>7, <1>8, <1>9, <1>10, <1>11

(* Both sides' limits are pairs of numbers.                                *)
LEMMA Limits == AreLimits(HostLimits) /\ AreLimits(FirmwareLimits)
<1>1. AreLimits(HostLimits)
  BY NamesOfParams, SMT
  DEF HostLimits, ParamNames, ALSA_STREAM_ID, AreLimits
<1>2. AreLimits(FirmwareLimits)
  BY FirmwareNumbers, SMT DEF ParamNames, AreLimits
<1> QED  BY <1>1, <1>2

(* The type of a member decides its size and the kind of its tuple.        *)
LEMMA KindSizes ==
  ASSUME NEW e
  PROVE  /\ e.type \in WordTypes =>
              elem_get_data_size(e) = 4 /\ ipct_get_type(e.type) = STD
         /\ e.type \in HalfWordTypes =>
              elem_get_data_size(e) = 2 /\ ipct_get_type(e.type) = HD
<1> DEFINE type == e.type
           other == e.value2
<1>1. elem_get_data_size(e) =
        CASE type \in HalfWordTypes -> 2
          [] type \in WordTypes     -> 4
          [] type \in LongTypes     -> 8
          [] type = "uuid"          -> 16
          [] OTHER                  -> other
  BY SMT DEF elem_get_data_size
<1>2. ipct_get_type(type) = IF type \in HalfWordTypes THEN HD ELSE STD
  BY DEF ipct_get_type
<1> HIDE DEF type, other
<1>3. type \in HalfWordTypes => elem_get_data_size(e) = 2
  BY <1>1, SMT DEF HalfWordTypes, WordTypes, LongTypes
<1>4. type \in WordTypes => elem_get_data_size(e) = 4 /\ type \notin HalfWordTypes
  BY <1>1, SMT DEF HalfWordTypes, WordTypes, LongTypes
<1>5. /\ type \in WordTypes => elem_get_data_size(e) = 4 /\ ipct_get_type(type) = STD
      /\ type \in HalfWordTypes => elem_get_data_size(e) = 2 /\ ipct_get_type(type) = HD
  BY <1>2, <1>3, <1>4
<1> QED  BY <1>5 DEF type

(* An element of such a table. *)
LEMMA DeclaredElem ==
  ASSUME NEW layout, NEW limits, IsLayout(layout), AreLimits(limits),
         NEW m \in ParamNames
  PROVE  LET e == Declared(layout, limits, m)
         IN /\ e \in Elem
            /\ e.id = ParamIds[m] /\ e.id \in 0 .. 10
            /\ e.type = ParamTypes[m] /\ e.offset = layout[m]
            /\ e.value1 = limits[m][1] /\ e.value2 = limits[m][2]
            /\ e.type \in {"uint32_value", "enum", "boolean", "uint16_value"}
            /\ e.id \in WordIds <=> e.type \in WordTypes
            /\ e.id \notin WordIds <=> e.type \in HalfWordTypes
            /\ elem_get_data_size(e) = IF e.id \in WordIds THEN 4 ELSE 2
            /\ ipct_get_type(e.type) = IF e.id \in WordIds THEN STD ELSE HD
            /\ e.offset + elem_get_data_size(e) <= 36
<1> DEFINE e == Declared(layout, limits, m)
<1>1. /\ e.id = ParamIds[m] /\ e.type = ParamTypes[m] /\ e.offset = layout[m]
      /\ e.value1 = limits[m][1] /\ e.value2 = limits[m][2]
      /\ e = [id |-> e.id, type |-> e.type, offset |-> e.offset,
              value1 |-> e.value1, value2 |-> e.value2]
  BY DEF Declared
<1> HIDE DEF e
<1>2. e.id \in 0 .. 10 /\ e.id \in U16
  BY <1>1, ParamNumbers, SMT DEF U16
<1>3. /\ e.type \in {"uint32_value", "enum", "boolean", "uint16_value"}
      /\ e.id \in WordIds <=> e.type \in WordTypes
      /\ e.id \notin WordIds <=> e.type \in HalfWordTypes
  BY <1>1, ParamKinds
<1>4. e.type \in DataTypes
  BY <1>3 DEF DataTypes
<1>5. e.offset \in Nat /\ e.offset <= 32 /\ e.value1 \in Nat /\ e.value2 \in Nat
  BY <1>1 DEF IsLayout, AreLimits
<1>6. e \in Elem
  BY <1>1, <1>2, <1>4, <1>5 DEF Elem
<1>7. /\ elem_get_data_size(e) = IF e.id \in WordIds THEN 4 ELSE 2
      /\ ipct_get_type(e.type) = IF e.id \in WordIds THEN STD ELSE HD
  BY <1>3, KindSizes
<1>8. e.offset + elem_get_data_size(e) <= 36
  BY <1>5, <1>7
<1> QED  BY <1>1, <1>2, <1>3, <1>6, <1>7, <1>8 DEF e

(* A descriptor that declares the parameters.                              *)
Declares(d, layout, limits) ==
  /\ IsLayout(layout) /\ AreLimits(limits) /\ Carries(d, layout, limits)

(* The elements of such a descriptor: one for each member, of its type.    *)
LEMMA DeclaresElems ==
  ASSUME NEW d, NEW layout, NEW limits, Declares(d, layout, limits)
  PROVE  /\ Elems(d) \subseteq Elem
         /\ \A m \in ParamNames : Declared(layout, limits, m) \in Elems(d)
         /\ \A e \in Elems(d) :
              /\ \E m \in ParamNames : e = Declared(layout, limits, m)
              /\ e.id \in 0 .. 10
              /\ e.type \in {"uint32_value", "enum", "boolean", "uint16_value"}
              /\ e.id \in WordIds <=> e.type \in WordTypes
              /\ e.id \notin WordIds <=> e.type \in HalfWordTypes
              /\ ipct_get_type(e.type) = IF e.id \in WordIds THEN STD ELSE HD
              /\ elem_get_data_size(e) = IF e.id \in WordIds THEN 4 ELSE 2
              /\ e.offset \in Nat /\ e.offset % 2 = 0
              /\ e.offset + elem_get_data_size(e) <= 36
         /\ \A e, f \in Elems(d) : e.id = f.id => e = f
         /\ MemberIds(d) = 0 .. 10
         /\ \A i \in 0 .. 10 : \E e \in Elems(d) : e.id = i
<1>1. /\ \A m \in ParamNames : Declared(layout, limits, m) \in Elems(d)
      /\ \A e \in Elems(d) : \E m \in ParamNames : e = Declared(layout, limits, m)
  BY DEF Declares, Carries
<1>2. ASSUME NEW e \in Elems(d)
      PROVE  /\ e \in Elem /\ e.id \in 0 .. 10
             /\ e.type \in {"uint32_value", "enum", "boolean", "uint16_value"}
             /\ e.id \in WordIds <=> e.type \in WordTypes
             /\ e.id \notin WordIds <=> e.type \in HalfWordTypes
             /\ ipct_get_type(e.type) = IF e.id \in WordIds THEN STD ELSE HD
             /\ elem_get_data_size(e) = IF e.id \in WordIds THEN 4 ELSE 2
             /\ e.offset \in Nat /\ e.offset % 2 = 0
             /\ e.offset + elem_get_data_size(e) <= 36
  <2>1. PICK m \in ParamNames : e = Declared(layout, limits, m)
    BY <1>1
  <2>2. layout[m] \in Nat /\ layout[m] % 2 = 0
    BY DEF Declares, IsLayout
  <2> QED  BY <2>1, <2>2, DeclaredElem DEF Declares
<1>3. \A m \in ParamNames : Declared(layout, limits, m).id = ParamIds[m]
  BY DEF Declared
<1>4. \A e, f \in Elems(d) : e.id = f.id => e = f
  BY <1>1, <1>3, ParamNumbers
<1>5. \A i \in 0 .. 10 : \E e \in Elems(d) : e.id = i
  BY <1>1, <1>3, ParamNumbers
<1>6. MemberIds(d) = 0 .. 10
  BY <1>2, <1>5 DEF MemberIds
<1> QED  BY <1>1, <1>2, <1>4, <1>5, <1>6

(* The element with a member's ID is the one declared for it.              *)
LEMMA DeclaresFinds ==
  ASSUME NEW d, NEW layout, NEW limits, Declares(d, layout, limits),
         NEW m \in ParamNames
  PROVE  ElemWith(d, ParamIds[m]) = Declared(layout, limits, m)
<1>1. /\ Declared(layout, limits, m) \in Elems(d)
      /\ \A e, f \in Elems(d) : e.id = f.id => e = f
  BY DeclaresElems
<1>2. Declared(layout, limits, m).id = ParamIds[m]
  BY DEF Declared
<1> QED  BY <1>1, <1>2 DEF ElemWith

(* The runs of IDs that share a tuple.                                     *)
Run(i) == CASE i \in {0, 1}    -> {0, 1}
            [] i = 2           -> {2}
            [] i \in {3, 4, 5} -> {3, 4, 5}
            [] i \in {6, 7}    -> {6, 7}
            [] i = 8           -> {8}
            [] i \in {9, 10}   -> {9, 10}

(* Between two IDs everything is a word, or everything a half-word,        *)
(* exactly when they are in one run.                                       *)
LEMMA RunsOfIds ==
  ASSUME NEW i \in 0 .. 10, NEW k \in 0 .. 10
  PROVE  (\A j \in (i .. k) \cup (k .. i) : j \in WordIds <=> i \in WordIds)
           <=> k \in Run(i)
<1>1. CASE k \in Run(i)
  BY <1>1, SMT DEF Run, WordIds
<1>2. CASE k \notin Run(i)
  <2>1. /\ i \in 0 .. 1 => 2 \in i .. k
        /\ i = 2 => 1 \in k .. i \/ 3 \in i .. k
        /\ i \in 3 .. 5 => 2 \in k .. i \/ 6 \in i .. k
        /\ i \in 6 .. 7 => 5 \in k .. i \/ 8 \in i .. k
        /\ i = 8 => 7 \in k .. i \/ 9 \in i .. k
        /\ i \in 9 .. 10 => 8 \in k .. i
    BY <1>2, SMT DEF Run
  <2> QED  BY <1>2, <2>1, SMT DEF WordIds
<1> QED  BY <1>1, <1>2

(* The elements that share a tuple are those of one run of IDs.            *)
LEMMA DeclaresRuns ==
  ASSUME NEW d, NEW layout, NEW limits, Declares(d, layout, limits),
         NEW e \in Elems(d)
  PROVE  SameTuple(d, e) = {f \in Elems(d) : f.id \in Run(e.id)}
<1> DEFINE kind(i) == IF i \in WordIds THEN STD ELSE HD
<1>1. \A f \in Elems(d) : f.id \in 0 .. 10 /\ ipct_get_type(f.type) = kind(f.id)
  BY DeclaresElems
<1>2. \A i \in 0 .. 10 : \E f \in Elems(d) : f.id = i
  BY DeclaresElems
<1>3. STD # HD
  BY DEF STD, HD
<1>4. ASSUME NEW f \in Elems(d)
      PROVE  f \in SameTuple(d, e) <=> f.id \in Run(e.id)
  <2>1. \A j \in (e.id .. f.id) \cup (f.id .. e.id) : j \in 0 .. 10
    BY <1>1
  <2>2. \A j \in 0 .. 10 :
          (\E g \in Elems(d) : g.id = j /\ ipct_get_type(g.type) = ipct_get_type(e.type))
            <=> (j \in WordIds <=> e.id \in WordIds)
    BY <1>1, <1>2, <1>3
  <2>3. f \in SameTuple(d, e) <=>
          \A j \in (e.id .. f.id) \cup (f.id .. e.id) :
            j \in WordIds <=> e.id \in WordIds
    BY <2>1, <2>2 DEF SameTuple
  <2> QED  BY <1>1, <2>3, RunsOfIds
<1>5. SameTuple(d, e) \subseteq Elems(d)
  BY DEF SameTuple
<1> QED  BY <1>4, <1>5

(* The six members that begin a tuple.                                     *)
HeadIds == {0, 2, 3, 6, 8, 9}

(* A tuple begins at the first ID of each run.                             *)
LEMMA DeclaresHeads ==
  ASSUME NEW d, NEW layout, NEW limits, Declares(d, layout, limits)
  PROVE  Heads(d) = {e \in Elems(d) : e.id \in HeadIds}
<1>1. \A i \in 0 .. 10 : (\A k \in Run(i) : i <= k) <=> i \in HeadIds
  BY SMT DEF Run, HeadIds
<1>2. \A i \in 0 .. 10 : Run(i) \subseteq 0 .. 10
  BY SMT DEF Run
<1>3. ASSUME NEW e \in Elems(d)
      PROVE  (\A f \in SameTuple(d, e) : e.id <= f.id) <=> e.id \in HeadIds
  <2>1. e.id \in 0 .. 10
    BY DeclaresElems
  <2>2. (\A f \in SameTuple(d, e) : e.id <= f.id) <=> (\A k \in Run(e.id) : e.id <= k)
    BY <1>2, <2>1, DeclaresRuns, DeclaresElems
  <2> QED  BY <1>1, <2>1, <2>2
<1> QED  BY <1>3 DEF Heads

(* Small sets are counted element by element.                              *)
LEMMA TwoElements ==
  ASSUME NEW S, NEW a, NEW b, a # b, S = {a, b}
  PROVE  IsFiniteSet(S) /\ Cardinality(S) = 2
<1>1. IsFiniteSet({a}) /\ Cardinality({a}) = 1
  BY FS_Singleton
<1>2. S = {a} \cup {b} /\ b \notin {a}
  OBVIOUS
<1> QED  BY <1>1, <1>2, FS_AddElement

(* A set with one member more.                                             *)
LEMMA OneMore ==
  ASSUME NEW S, NEW x, IsFiniteSet(S), x \notin S, NEW T, T = S \cup {x}
  PROVE  IsFiniteSet(T) /\ Cardinality(T) = Cardinality(S) + 1
BY FS_AddElement

(* How many IDs there are up to one.                                       *)
LEMMA FirstIds ==
  ASSUME NEW n \in Nat
  PROVE  IsFiniteSet(0 .. n) /\ Cardinality(0 .. n) = n + 1
<1>1. 0 \in Int /\ n \in Int /\ ~ 0 > n
  OBVIOUS
<1> QED  BY <1>1, FS_Interval

(* There are six runs,                                                     *)
LEMMA HeadIdCount == IsFiniteSet(HeadIds) /\ Cardinality(HeadIds) = 6
<1> DEFINE A == {0, 2}
           B == A \cup {3}
           C == B \cup {6}
           D == C \cup {8}
           E == D \cup {9}
<1>1. HeadIds = E
  BY DEF HeadIds
<1>2. 3 \notin A /\ 6 \notin B /\ 8 \notin C /\ 9 \notin D
  OBVIOUS
<1>3. IsFiniteSet(A) /\ Cardinality(A) = 2
  <2>1. 0 # 2
    OBVIOUS
  <2> QED  BY <2>1, TwoElements, Zenon
<1> HIDE DEF A
<1>4. IsFiniteSet(B) /\ Cardinality(B) = 3
  BY <1>2, <1>3, OneMore
<1> HIDE DEF B
<1>5. IsFiniteSet(C) /\ Cardinality(C) = 4
  BY <1>2, <1>4, OneMore
<1> HIDE DEF C
<1>6. IsFiniteSet(D) /\ Cardinality(D) = 5
  BY <1>2, <1>5, OneMore
<1> HIDE DEF D
<1>7. IsFiniteSet(E) /\ Cardinality(E) = 6
  BY <1>2, <1>6, OneMore
<1> QED  BY <1>1, <1>7

(* Elements are counted by their IDs.                                      *)
LEMMA CountById ==
  ASSUME NEW S, NEW I, IsFiniteSet(I),
         \A e, f \in S : e.id = f.id => e = f,
         {e.id : e \in S} = I
  PROVE  IsFiniteSet(S) /\ Cardinality(S) = Cardinality(I)
<1> DEFINE F == [e \in S |-> e.id]
<1>1. F \in Bijection(S, I)
  <2>1. F \in [S -> I]
    OBVIOUS
  <2>2. \A e, f \in S : F[e] = F[f] => e = f
    OBVIOUS
  <2>3. \A i \in I : \E e \in S : F[e] = i
    OBVIOUS
  <2> HIDE DEF F
  <2> QED  BY <2>1, <2>2, <2>3, Fun_IsBij
<1>2. ExistsBijection(S, I)
  BY <1>1 DEF ExistsBijection
<1>3. ExistsBijection(I, S)
  BY <1>2, Fun_ExistsBijSymmetric
<1> QED  BY <1>2, <1>3, FS_Bijection

(* and so six tuples.                                                      *)
LEMMA HeadCount ==
  ASSUME NEW d, NEW layout, NEW limits, Declares(d, layout, limits)
  PROVE  Cardinality(Heads(d)) = 6
<1>1. {e.id : e \in Heads(d)} = HeadIds
  <2>1. HeadIds \subseteq 0 .. 10
    BY DEF HeadIds
  <2>2. \A e \in Heads(d) : e.id \in HeadIds
    BY DeclaresHeads
  <2>3. \A i \in HeadIds : \E e \in Heads(d) : e.id = i
    BY <2>1, DeclaresHeads, DeclaresElems
  <2> QED  BY <2>2, <2>3
<1>2. IsFiniteSet(HeadIds) /\ Cardinality(HeadIds) = 6
  BY HeadIdCount
<1>3. \A e, f \in Heads(d) : e.id = f.id => e = f
  BY DeclaresElems DEF Heads
<1> QED  BY <1>1, <1>2, <1>3, CountById

(* The message of such a table: longer than any of its members lies deep   *)
(* in its structure, and far shorter than the mailbox.                     *)
LEMMA DeclaresLength ==
  ASSUME NEW d, NEW layout, NEW limits, Declares(d, layout, limits)
  PROVE  MessageLength(d) \in Nat /\ MessageLength(d) \in 36 .. 200
<1>1. IsFiniteSet(Elems(d)) /\ Cardinality(Elems(d)) = 11
  <2>1. {e.id : e \in Elems(d)} = 0 .. 10
    BY DeclaresElems DEF MemberIds
  <2>2. \A e, f \in Elems(d) : e.id = f.id => e = f
    BY DeclaresElems
  <2>3. IsFiniteSet(0 .. 10) /\ Cardinality(0 .. 10) = 11
    <3>1. IsFiniteSet(0 .. 10) /\ Cardinality(0 .. 10) = 10 + 1
      BY FirstIds, 10 \in Nat, Zenon
    <3> QED  BY <3>1
  <2> QED  BY <2>1, <2>2, <2>3, CountById
<1>2. \A S \in SUBSET Elems(d) : Cardinality(S) \in Nat /\ Cardinality(S) <= 11
  BY <1>1, FS_Subset, FS_CardinalityType
<1>3. Halves(d) \subseteq Elems(d)
  BY DEF Halves
<1>4. /\ Cardinality(Elems(d) \ Halves(d)) \in 0 .. 11
      /\ Cardinality({e \in Halves(d) : SameTuple(d, e) # {e}}) \in 0 .. 11
  BY <1>2, <1>3
<1> QED
  BY <1>4, HeadCount DEF MessageLength, SizeofHdr, SizeofElems

(* Half words come in pairs, or alone.                                     *)
LEMMA DeclaresWholeWords ==
  ASSUME NEW d, NEW layout, NEW limits, Declares(d, layout, limits)
  PROVE  WholeWords(d)
<1> SUFFICES ASSUME NEW e \in Elems(d)
             PROVE  /\ e.type \in HalfWordTypes \cup WordTypes
                    /\ e \in Halves(d) /\ SameTuple(d, e) # {e}
                         => Cardinality(SameTuple(d, e)) % 2 = 0
  BY DEF WholeWords
<1>1. e.type \in HalfWordTypes \cup WordTypes
  BY DeclaresElems
<1>2. ASSUME e \in Halves(d), SameTuple(d, e) # {e}
      PROVE  Cardinality(SameTuple(d, e)) % 2 = 0
  <2>1. e.id \in 0 .. 10 /\ e.id \notin WordIds
    <3>1. ipct_get_type(e.type) = HD /\ HD # STD
      BY <1>2 DEF Halves, HD, STD
    <3> QED  BY <3>1, DeclaresElems
  <2>2. SameTuple(d, e) = {f \in Elems(d) : f.id \in Run(e.id)}
    BY DeclaresRuns
  <2>3. e.id # 2
    <3> SUFFICES ASSUME e.id = 2 PROVE FALSE
      OBVIOUS
    <3>1. Run(e.id) = {e.id}
      BY SMT DEF Run
    <3> QED  BY <1>2, <2>2, <3>1, DeclaresElems
  <2>4. PICK a, b \in 0 .. 10 : a # b /\ Run(e.id) = {a, b}
    <3>1. e.id \in {6, 7} \/ e.id \in {9, 10}
      BY <2>1, <2>3, SMT DEF WordIds
    <3>2. /\ e.id \in {6, 7} => Run(e.id) = {6, 7}
          /\ e.id \in {9, 10} => Run(e.id) = {9, 10}
      BY <3>1, SMT DEF Run
    <3> QED  BY <3>1, <3>2
  <2>5. {f.id : f \in SameTuple(d, e)} = {a, b}
    BY <2>2, <2>4, DeclaresElems
  <2>6. \A f, g \in SameTuple(d, e) : f.id = g.id => f = g
    BY <2>2, DeclaresElems
  <2>7. Cardinality(SameTuple(d, e)) = 2
    <3>1. IsFiniteSet({a, b}) /\ Cardinality({a, b}) = 2
      BY <2>4, TwoElements
    <3> QED  BY <2>5, <2>6, <3>1, CountById
  <2> QED  BY <2>7
<1> QED  BY <1>1, <1>2

(* Two programs that declare the parameters, in whatever order and within  *)
(* whatever limits, have compatible tables.                                *)
LEMMA DeclaredCompatible ==
  ASSUME NEW d, NEW layout, NEW limits, Declares(d, layout, limits),
         NEW r, NEW layout2, NEW limits2, Declares(r, layout2, limits2),
         \A e \in Elems(d) : e.id = 0 => e \in d.mandatory
  PROVE  PacksAll(d) /\ Compatible(d, r)
<1>1. PacksAll(d)
  <2>1. PICK e \in Elems(d) : e.id = 0
    BY DeclaresElems
  <2>2. \A f \in Elems(d) : f.id \in 0 .. 10
    BY DeclaresElems
  <2> QED  BY <2>1, <2>2 DEF PacksAll, IPCT_TUPLE_MAX_ID
<1>2. WholeWords(d)
  BY DeclaresWholeWords
<1>3. CountReads(d)
  BY HeadCount DEF CountReads
<1>4. MembersMatch(d, r)
  <2> SUFFICES ASSUME NEW id \in MemberIds(d) \cap MemberIds(r)
               PROVE  /\ ElemWith(d, id).type = ElemWith(r, id).type
                      /\ ElemWith(r, id).type \notin ByteTypes
                      /\ ElemWith(r, id).offset + elem_get_data_size(ElemWith(r, id))
                           <= MessageLength(d)
    BY DEF MembersMatch
  <2>1. PICK m \in ParamNames : ParamIds[m] = id
    BY DeclaresElems, ParamNumbers
  <2>2. /\ ElemWith(d, id) = Declared(layout, limits, m)
        /\ ElemWith(r, id) = Declared(layout2, limits2, m)
    BY <2>1, DeclaresFinds
  <2>3. Declared(layout2, limits2, m) \in Elems(r)
    BY DeclaresElems
  <2>4. /\ ElemWith(d, id).type = ParamTypes[m] /\ ElemWith(r, id).type = ParamTypes[m]
    BY <2>2 DEF Declared
  <2>5. ElemWith(r, id).type \notin ByteTypes
    BY <2>4, ParamKinds DEF ByteTypes
  <2>6. /\ ElemWith(r, id).offset \in Nat
        /\ elem_get_data_size(ElemWith(r, id)) \in {2, 4}
        /\ ElemWith(r, id).offset + elem_get_data_size(ElemWith(r, id)) <= 36
    BY <2>2, <2>3, DeclaresElems
  <2>7. MessageLength(d) \in 36 .. 200
    BY DeclaresLength
  <2> QED  BY <2>4, <2>5, <2>6, <2>7
<1>5. KnowsPrefixes(d, r)
  <2>1. MemberIds(r) = 0 .. 10 /\ \A f \in Elems(d) : f.id \in 0 .. 10
    BY DeclaresElems
  <2> QED  BY <2>1 DEF KnowsPrefixes, SameTuple
<1> QED  BY <1>1, <1>2, <1>3, <1>4, <1>5 DEF Compatible

TriggerKey == <<0, 0, 2>>

(* The number of the parameters' action. *)
LEMMA ParamsKeyIs == ParamsKey = <<0, 0, 0>>
BY Zenon
DEF ParamsKey, IPCT_CLASS_AUDIO, IPCT_SUBCLASS_AUDIO_STREAM, STREAM_ACTION_PARAMS

(* What the declaration of two actions comes to.                           *)
LEMMA DeclaredKeys ==
  ASSUME NEW ps, NEW n, NEW ts, NEW k, NEW t, t = DeclareActions(ps, n, ts, k)
  PROVE  DOMAIN t = {ParamsKey, TriggerKey}
BY Zenon
DEF DeclareActions, IPCT_CLASS_AUDIO, IPCT_SUBCLASS_AUDIO_STREAM,
    STREAM_ACTION_PARAMS, STREAM_ACTION_TRIGGER, ParamsKey, TriggerKey

(* The descriptor DeclareActions gives the parameters,                     *)
LEMMA DeclaredParamsDesc ==
  ASSUME NEW ps, NEW n, NEW ts, NEW k, NEW t, t = DeclareActions(ps, n, ts, k),
         NEW o, o = {e \in ps : e.id = 10}
  PROVE  t[ParamsKey] = [size |-> n, mandatory |-> ps \ o, optional |-> o]
<1>1. ParamIds.stream_no_irq = 10
  BY SMT DEF ParamIds
<1>2. ParamsKey # TriggerKey
  BY ParamsKeyIs, SMT DEF TriggerKey
<1> QED
  BY <1>1, <1>2, Zenon
  DEF DeclareActions, IPCT_CLASS_AUDIO, IPCT_SUBCLASS_AUDIO_STREAM,
      STREAM_ACTION_PARAMS, STREAM_ACTION_TRIGGER, ParamsKey, TriggerKey

(* and the trigger;                                                        *)
LEMMA DeclaredTrigger ==
  ASSUME NEW ps, NEW n, NEW ts, NEW k, NEW t, t = DeclareActions(ps, n, ts, k)
  PROVE  t[TriggerKey] = [size |-> k, mandatory |-> ts, optional |-> {}]
<1>1. ParamIds.stream_no_irq = 10
  BY SMT DEF ParamIds
<1>2. ParamsKey # TriggerKey
  BY ParamsKeyIs, SMT DEF TriggerKey
<1> QED
  BY <1>1, <1>2, Zenon
  DEF DeclareActions, IPCT_CLASS_AUDIO, IPCT_SUBCLASS_AUDIO_STREAM,
      STREAM_ACTION_PARAMS, STREAM_ACTION_TRIGGER, ParamsKey, TriggerKey

(* its size and its elements,                                              *)
LEMMA DeclaredSize ==
  ASSUME NEW ps, NEW n, NEW ts, NEW k, NEW t, t = DeclareActions(ps, n, ts, k)
  PROVE  t[ParamsKey].size = n /\ Elems(t[ParamsKey]) = ps
<1> DEFINE o == {e \in ps : e.id = 10}
<1>1. o = {e \in ps : e.id = 10} /\ o \subseteq ps
  OBVIOUS
<1> HIDE DEF o
<1>2. t[ParamsKey] = [size |-> n, mandatory |-> ps \ o, optional |-> o]
  BY <1>1, DeclaredParamsDesc
<1> QED  BY <1>1, <1>2 DEF Elems

(* its mandatory ones: all but ID 10;                                      *)
LEMMA DeclaredMandatory ==
  ASSUME NEW ps, NEW n, NEW ts, NEW k, NEW t, t = DeclareActions(ps, n, ts, k)
  PROVE  t[ParamsKey].mandatory = {e \in Elems(t[ParamsKey]) : e.id # 10}
<1> DEFINE o == {e \in ps : e.id = 10}
<1>1. ps \ o = {e \in ps : e.id # 10}
  OBVIOUS
<1>2. o = {e \in ps : e.id = 10}
  OBVIOUS
<1> HIDE DEF o
<1>3. t[ParamsKey] = [size |-> n, mandatory |-> ps \ o, optional |-> o]
  BY <1>2, DeclaredParamsDesc
<1>4. Elems(t[ParamsKey]) = ps
  BY DeclaredSize
<1> QED  BY <1>1, <1>3, <1>4

(* it is a descriptor as IpctRegistry has them.                            *)
LEMMA DeclaredDesc ==
  ASSUME NEW ps, NEW n \in Nat, NEW ts, NEW k, NEW t,
         t = DeclareActions(ps, n, ts, k), ps \subseteq Elem
  PROVE  t[ParamsKey] \in Desc
<1> DEFINE o == {e \in ps : e.id = 10}
<1>1. o = {e \in ps : e.id = 10} /\ o \subseteq ps
  OBVIOUS
<1> HIDE DEF o
<1>2. t[ParamsKey] = [size |-> n, mandatory |-> ps \ o, optional |-> o]
  BY <1>1, DeclaredParamsDesc
<1> QED  BY <1>1, <1>2 DEF Desc

(* The elements declared for the parameters.                               *)
ParamsElems(layout, limits) ==
  {Declared(layout, limits, m) : m \in ParamNames}

(* DeclareElems declares just these.                                       *)
LEMMA DeclaredParams ==
  ASSUME NEW layout, NEW limits
  PROVE  DeclareElems(ParamIds, ParamTypes, layout, limits) =
           ParamsElems(layout, limits)
BY NamesOfParams DEF DeclareElems, ParamsElems, Declared

(* A table of the example.                                                 *)
IsTable(t, layout, limits, size) ==
  /\ DOMAIN t = {ParamsKey, TriggerKey}
  /\ Declares(t[ParamsKey], layout, limits)
  /\ t[ParamsKey].size = size /\ size \in Nat /\ size >= 36
  /\ t[ParamsKey].mandatory = {e \in Elems(t[ParamsKey]) : e.id # 10}
  /\ t[ParamsKey] \in Desc
  /\ t[TriggerKey].size = 8 /\ t[TriggerKey].optional = {}
  /\ t[TriggerKey] \in Desc
  /\ \E e, f \in Elem :
       /\ t[TriggerKey].mandatory = {e, f}
       /\ e.id = 10 /\ e.type = "uint32_value" /\ e.offset = 0
       /\ f.id = 11 /\ f.type = "enum" /\ f.offset = 4

(* The two elements of the trigger.                                        *)
LEMMA TriggerElems ==
  ASSUME NEW layout, layout["id"] = 0, layout["trigger_cmd"] = 4,
         NEW limits, limits["id"][1] \in Nat, limits["id"][2] \in Nat,
         limits["trigger_cmd"][1] \in Nat, limits["trigger_cmd"][2] \in Nat
  PROVE  \E e, f \in Elem :
           /\ DeclareElems(TriggerIds, TriggerTypes, layout, limits) = {e, f}
           /\ e.id = 10 /\ e.type = "uint32_value" /\ e.offset = 0
           /\ f.id = 11 /\ f.type = "enum" /\ f.offset = 4
<1> DEFINE E(m) == [id |-> TriggerIds[m], type |-> TriggerTypes[m], offset |-> layout[m],
                    value1 |-> limits[m][1], value2 |-> limits[m][2]]
<1>1. DOMAIN TriggerIds = {"id", "trigger_cmd"}
  BY DEF TriggerIds
<1>2. DeclareElems(TriggerIds, TriggerTypes, layout, limits) = {E("id"), E("trigger_cmd")}
  BY <1>1 DEF DeclareElems
<1>3. /\ TriggerIds["id"] = 10 /\ TriggerIds["trigger_cmd"] = 11
      /\ TriggerTypes["id"] = "uint32_value" /\ TriggerTypes["trigger_cmd"] = "enum"
  BY DEF TriggerIds, TriggerTypes
<1>4. 10 \in U16 /\ 11 \in U16 /\ "uint32_value" \in DataTypes /\ "enum" \in DataTypes
  BY SMT DEF U16, DataTypes, WordTypes
<1>5. /\ E("id").id = 10 /\ E("id").type = "uint32_value" /\ E("id").offset = 0
      /\ E("trigger_cmd").id = 11 /\ E("trigger_cmd").type = "enum"
      /\ E("trigger_cmd").offset = 4
  BY <1>3
<1>6. E("id") \in Elem /\ E("trigger_cmd") \in Elem
  BY <1>3, <1>4 DEF Elem
<1> QED  BY <1>2, <1>5, <1>6

(* From layout, limits and the trigger's elements to the whole table.      *)
LEMMA TableOf ==
  ASSUME NEW layout, NEW limits, IsLayout(layout), AreLimits(limits),
         NEW size \in Nat, size >= 36,
         NEW ts, NEW e \in Elem, NEW f \in Elem, ts = {e, f},
         e.id = 10, e.type = "uint32_value", e.offset = 0,
         f.id = 11, f.type = "enum", f.offset = 4
  PROVE  IsTable(DeclareActions(DeclareElems(ParamIds, ParamTypes, layout, limits),
                                size, ts, 8), layout, limits, size)
<1> DEFINE ps == ParamsElems(layout, limits)
           t  == DeclareActions(ps, size, ts, 8)
<1>1. t = DeclareActions(ps, size, ts, 8)
  OBVIOUS
<1>2. ps \subseteq Elem
  BY DeclaredElem DEF ParamsElems
<1> HIDE DEF t
<1> HIDE DEF ps
<1>3. DOMAIN t = {ParamsKey, TriggerKey}
  BY <1>1, DeclaredKeys
<1>4. t[ParamsKey].size = size /\ Elems(t[ParamsKey]) = ps
  BY <1>1, DeclaredSize
<1>5. t[ParamsKey].mandatory = {x \in Elems(t[ParamsKey]) : x.id # 10}
  BY <1>1, DeclaredMandatory
<1>6. t[ParamsKey] \in Desc
  BY <1>1, <1>2, DeclaredDesc
<1>7. t[TriggerKey] = [size |-> 8, mandatory |-> ts, optional |-> {}]
  BY <1>1, DeclaredTrigger
<1>8. Declares(t[ParamsKey], layout, limits)
  BY <1>4 DEF Declares, Carries, ParamsElems, ps
<1>9. t[TriggerKey].size = 8 /\ t[TriggerKey].optional = {} /\ t[TriggerKey].mandatory = ts
  BY <1>7
<1>10. t[TriggerKey] \in Desc
  BY <1>7 DEF Desc
<1>11. IsTable(t, layout, limits, size)
  BY <1>3, <1>4, <1>5, <1>6, <1>8, <1>9, <1>10 DEF IsTable
<1> QED  BY <1>11, DeclaredParams DEF t, ps

(* The tables of host and firmware are of this form.                       *)
LEMMA Tables ==
  /\ IsTable(HostRegistry, alsa_hw_params, HostLimits, 936)
  /\ IsTable(FirmwareRegistry, stream_params, FirmwareLimits, 612)
<1>1. IsTable(HostRegistry, alsa_hw_params, HostLimits, 936)
  <2> DEFINE limits == [id |-> ALSA_STREAM_ID, trigger_cmd |-> <<0, 3>>]
             ts == DeclareElems(TriggerIds, TriggerTypes, alsa_stream_trigger, limits)
  <2>1. /\ alsa_stream_trigger["id"] = 0 /\ alsa_stream_trigger["trigger_cmd"] = 4
        /\ limits["id"][1] \in Nat /\ limits["id"][2] \in Nat
        /\ limits["trigger_cmd"][1] \in Nat /\ limits["trigger_cmd"][2] \in Nat
    BY DEF alsa_stream_trigger, ALSA_STREAM_ID
  <2> HIDE DEF limits
  <2>2. PICK e, f \in Elem :
           /\ ts = {e, f}
           /\ e.id = 10 /\ e.type = "uint32_value" /\ e.offset = 0
           /\ f.id = 11 /\ f.type = "enum" /\ f.offset = 4
    BY <2>1, TriggerElems
  <2> HIDE DEF ts
  <2>3. IsTable(DeclareActions(DeclareElems(ParamIds, ParamTypes, alsa_hw_params, HostLimits),
                               936, ts, 8), alsa_hw_params, HostLimits, 936)
    BY <2>2, TableOf, Layouts, Limits
  <2> QED
    BY <2>3 DEF HostRegistry, SizeofAlsaHwParams, SizeofTrigger, ts, limits
<1>2. IsTable(FirmwareRegistry, stream_params, FirmwareLimits, 612)
  <2> DEFINE limits == [id |-> STREAM_ID, trigger_cmd |-> <<0, 3>>]
             ts == DeclareElems(TriggerIds, TriggerTypes, stream_trigger, limits)
  <2>1. /\ stream_trigger["id"] = 0 /\ stream_trigger["trigger_cmd"] = 4
        /\ limits["id"][1] \in Nat /\ limits["id"][2] \in Nat
        /\ limits["trigger_cmd"][1] \in Nat /\ limits["trigger_cmd"][2] \in Nat
    BY DEF stream_trigger, STREAM_ID
  <2> HIDE DEF limits
  <2>2. PICK e, f \in Elem :
           /\ ts = {e, f}
           /\ e.id = 10 /\ e.type = "uint32_value" /\ e.offset = 0
           /\ f.id = 11 /\ f.type = "enum" /\ f.offset = 4
    BY <2>1, TriggerElems
  <2> HIDE DEF ts
  <2>3. IsTable(DeclareActions(DeclareElems(ParamIds, ParamTypes, stream_params, FirmwareLimits),
                               612, ts, 8), stream_params, FirmwareLimits, 612)
    BY <2>2, TableOf, Layouts, Limits
  <2> QED
    BY <2>3 DEF FirmwareRegistry, SizeofStreamParams, SizeofTrigger, ts, limits
<1> QED  BY <1>1, <1>2

(* A static buffer before its first use.                                   *)
Zeroed == [c \in 0 .. Cells - 1 |-> 0]

(* The element of a trigger, as the example's tables have it.              *)
LEMMA TableTrigger ==
  ASSUME NEW t, NEW layout, NEW limits, NEW size, IsTable(t, layout, limits, size)
  PROVE  \E e, f \in Elem :
           /\ Elems(t[TriggerKey]) = {e, f} /\ t[TriggerKey].mandatory = {e, f}
           /\ e.id = 10 /\ e.type \in WordTypes /\ e.offset = 0
           /\ f.id = 11 /\ f.type \in WordTypes /\ f.offset = 4
<1>1. t[TriggerKey].optional = {}
  BY DEF IsTable
<1>2. PICK e, f \in Elem :
        /\ t[TriggerKey].mandatory = {e, f}
        /\ e.id = 10 /\ e.type = "uint32_value" /\ e.offset = 0
        /\ f.id = 11 /\ f.type = "enum" /\ f.offset = 4
  BY DEF IsTable
<1>3. Elems(t[TriggerKey]) = {e, f}
  BY <1>1, <1>2 DEF Elems
<1>4. "uint32_value" \in WordTypes /\ "enum" \in WordTypes
  BY DEF WordTypes
<1> QED  BY <1>2, <1>3, <1>4

(* The elements of a table.                                                *)
LEMMA TableElems ==
  ASSUME NEW t, NEW layout, NEW limits, NEW size, IsTable(t, layout, limits, size),
         NEW key \in DOMAIN t
  PROVE  /\ t[key] \in Desc
         /\ Elems(t[key]) \subseteq Elem
         /\ \A e, f \in Elems(t[key]) : e.id = f.id => e = f
         /\ \A e \in Elems(t[key]) :
              /\ e.type \in HalfWordTypes \cup WordTypes
              /\ e.id \in 0 .. 11
              /\ e.offset \in Nat /\ e.offset % 2 = 0
              /\ elem_get_data_size(e) \in {2, 4}
              /\ e.offset + elem_get_data_size(e) <= 36
<1>1. key \in {ParamsKey, TriggerKey}
  BY DEF IsTable
<1>2. CASE key = ParamsKey
  <2>1. Declares(t[key], layout, limits) /\ t[key] \in Desc
    BY <1>2 DEF IsTable
  <2>2. \A e \in Elems(t[key]) :
              /\ e.id \in 0 .. 10
              /\ e.id \in WordIds <=> e.type \in WordTypes
              /\ e.id \notin WordIds <=> e.type \in HalfWordTypes
              /\ elem_get_data_size(e) = IF e.id \in WordIds THEN 4 ELSE 2
              /\ e.offset \in Nat /\ e.offset % 2 = 0
              /\ e.offset + elem_get_data_size(e) <= 36
    BY <2>1, DeclaresElems
  <2>3. /\ Elems(t[key]) \subseteq Elem
        /\ \A e, f \in Elems(t[key]) : e.id = f.id => e = f
    BY <2>1, DeclaresElems
  <2>4. ASSUME NEW e \in Elems(t[key])
        PROVE  /\ e.type \in HalfWordTypes \cup WordTypes
               /\ elem_get_data_size(e) \in {2, 4}
               /\ e.id \in 0 .. 11
    BY <2>2
  <2> QED  BY <2>1, <2>2, <2>3, <2>4
<1>3. CASE key = TriggerKey
  <2>1. PICK e, f \in Elem :
           /\ Elems(t[key]) = {e, f}
           /\ e.id = 10 /\ e.type \in WordTypes /\ e.offset = 0
           /\ f.id = 11 /\ f.type \in WordTypes /\ f.offset = 4
    BY <1>3, TableTrigger
  <2>2. elem_get_data_size(e) = 4 /\ elem_get_data_size(f) = 4
    BY <2>1, KindSizes
  <2>3. t[key] \in Desc
    BY <1>3 DEF IsTable
  <2> QED  BY <2>1, <2>2, <2>3
<1> QED  BY <1>1, <1>2, <1>3

(* What the host packs by: tables of its own, or the firmware's.           *)
LEMMA HostIsTable ==
  \E layout, limits, size : /\ IsTable(HostTables, layout, limits, size)
                            /\ size \in Nat /\ size >= 36 /\ size <= 936
BY Tables DEF HostTables

(* A structure's cells hold 16 bits.                                       *)
LEMMA LaidCells ==
  ASSUME NEW v, NEW layout, \A m \in DOMAIN v : v[m] \in U16,
         NEW o \in Nat, o % 2 = 0, o <= 38, NEW k \in 0 .. 1
  PROVE  Laid(v, layout)[o][k] \in U16
<1>1. PICK c \in 0 .. 19 : o = 2 * c
  <2>1. o \div 2 \in 0 .. 19 /\ o = 2 * (o \div 2)
    OBVIOUS
  <2> QED  BY <2>1
<1>2. 0 \in U16
  BY DEF U16
<1> DEFINE Cell(x) == IF \E m \in DOMAIN v : layout[m] = 2 * x
                      THEN v[CHOOSE m \in DOMAIN v : layout[m] = 2 * x] ELSE 0
<1>3. \A x : Cell(x) \in U16
  BY <1>2
<1>4. Laid(v, layout) = [q \in {2 * x : x \in 0 .. 19} |->
        [j \in 0 .. 1 |-> Cell((q \div 2) + j)]]
  BY DEF Laid
<1> HIDE DEF Cell
<1> QED  BY <1>1, <1>3, <1>4

(* The host's structures hold 16-bit cells.                                *)
LEMMA SourceCells ==
  ASSUME NEW r \in RequestNames, NEW o \in Nat, o % 2 = 0, o <= 38, NEW k \in 0 .. 1
  PROVE  Structure(r)[o][k] \in U16
<1>1. r \in {"params", "start", "position", "stop"}
  BY DEF RequestNames, Requests
<1>2. \A n \in {44100, 2, 256, 7, 1, 4, 20, 0} : n \in U16
  BY SMT DEF U16
<1>3. CASE r = "params"
  <2>1. \A m \in DOMAIN params : params[m] \in U16
    BY <1>2, SMT DEF params
  <2>2. Structure(r) = Laid(params, alsa_hw_params)
    BY <1>3 DEF Structure
  <2> QED  BY <2>1, <2>2, LaidCells
<1>4. CASE r \in {"start", "stop"}
  <2>1. \A m \in DOMAIN trigger(r) : trigger(r)[m] \in U16
    BY <1>2, <1>4, SMT DEF trigger, stream_trigger_start, stream_trigger_stop
  <2>2. Structure(r) = Laid(trigger(r), alsa_stream_trigger)
    BY <1>4 DEF Structure
  <2> QED  BY <2>1, <2>2, LaidCells
<1>5. CASE r = "position"
  <2> DEFINE v == [id |-> 20]
             layout == [id |-> 0]
  <2>1. \A m \in DOMAIN v : v[m] \in U16
    BY <1>2
  <2>2. Structure(r) = Laid(v, layout)
    BY <1>5 DEF Structure
  <2> HIDE DEF v, layout
  <2> QED  BY <2>1, <2>2, LaidCells
<1> QED  BY <1>1, <1>3, <1>4, <1>5

(* The IDs and sizes of the four requests.                                 *)
LEMMA RequestNumbers ==
  /\ RequestId("params") = 0 /\ StructureSize("params") = 936
  /\ RequestId("start") = 131072 /\ StructureSize("start") = 8
  /\ RequestId("stop") = 131072 /\ StructureSize("stop") = 8
  /\ RequestId("position") = 3 /\ StructureSize("position") = 4
BY DEF RequestId, StructureSize, STREAM_ACTION, ACTION_ID,
       IPCT_CLASS_AUDIO, IPCT_SUBCLASS_AUDIO_STREAM, STREAM_ACTION_PARAMS,
       STREAM_ACTION_TRIGGER, STREAM_ACTION_POSITION,
       SizeofAlsaHwParams, SizeofTrigger

(* A static buffer starts out as zeroed memory of cells.                   *)
LEMMA ZeroedMailbox == Zeroed \in [0 .. Cells - 1 -> U16]
<1>1. 0 \in U16
  BY DEF U16
<1> QED  BY <1>1 DEF Zeroed

(* The first request's action, and what the firmware unpacks by.           *)
LEMMA ParamsTables ==
  /\ \E layout, limits : Declares(HostTables[ParamsKey], layout, limits)
  /\ HostTables[ParamsKey].size <= 936
  /\ PacksAll(HostTables[ParamsKey])
  /\ Declares(FirmwareRegistry[ParamsKey], stream_params, FirmwareLimits)
  /\ FirmwareRegistry[ParamsKey].size = SizeofStreamParams
  /\ Compatible(HostTables[ParamsKey], FirmwareRegistry[ParamsKey])
  /\ ParamsKey \in DOMAIN HostTables /\ ParamsKey \in DOMAIN FirmwareRegistry
<1>1. /\ Declares(FirmwareRegistry[ParamsKey], stream_params, FirmwareLimits)
      /\ FirmwareRegistry[ParamsKey].size = SizeofStreamParams
      /\ ParamsKey \in DOMAIN FirmwareRegistry
  BY Tables DEF IsTable, SizeofStreamParams
<1>2. PICK layout, limits, size :
        IsTable(HostTables, layout, limits, size) /\ size <= 936
  BY HostIsTable
<1>3. /\ Declares(HostTables[ParamsKey], layout, limits)
      /\ HostTables[ParamsKey].size <= 936
      /\ \A e \in Elems(HostTables[ParamsKey]) :
           e.id = 0 => e \in HostTables[ParamsKey].mandatory
      /\ ParamsKey \in DOMAIN HostTables
  BY <1>2 DEF IsTable
<1>4. /\ PacksAll(HostTables[ParamsKey])
      /\ Compatible(HostTables[ParamsKey], FirmwareRegistry[ParamsKey])
  BY <1>1, <1>3, DeclaredCompatible
<1> QED  BY <1>1, <1>3, <1>4

(* Both sides have the action of the parameters.                           *)
LEMMA ParamsActions ==
  HostTables[ParamsKey] # NULL /\ FirmwareRegistry[ParamsKey] # NULL
<1>1. HostTables[ParamsKey] \in Desc /\ FirmwareRegistry[ParamsKey] \in Desc
  BY HostIsTable, Tables, ParamsTables, TableElems
<1> QED  BY <1>1, NullAssumption

(* The firmware's structure has a place for each of its members.           *)
LEMMA MembersApart ==
  ASSUME NEW m \in ParamNames, NEW n \in ParamNames, m # n
  PROVE  LET size(x) == IF ParamIds[x] \in WordIds THEN 4 ELSE 2
         IN \/ stream_params[m] + size(m) <= stream_params[n]
            \/ stream_params[n] + size(n) <= stream_params[m]
BY SMT DEF ParamNames, ParamIds, WordIds, stream_params

(* The members of the firmware's structure do not overlap.                 *)
LEMMA FirmwareApart ==
  ASSUME NEW e \in Elems(FirmwareRegistry[ParamsKey]),
         NEW f \in Elems(FirmwareRegistry[ParamsKey]), e # f
  PROVE  \/ e.offset + elem_get_data_size(e) <= f.offset
         \/ f.offset + elem_get_data_size(f) <= e.offset
<1> DEFINE r == FirmwareRegistry[ParamsKey]
           D(m) == Declared(stream_params, FirmwareLimits, m)
<1>1. PICK m \in ParamNames, n \in ParamNames : e = D(m) /\ f = D(n)
  BY ParamsTables, DeclaresElems
<1>2. m # n
  BY <1>1
<1>3. \A x \in ParamNames :
        /\ D(x).offset = stream_params[x]
        /\ elem_get_data_size(D(x)) = IF ParamIds[x] \in WordIds THEN 4 ELSE 2
  <2> TAKE x \in ParamNames
  <2>1. D(x) \in Elems(r) /\ D(x).id = ParamIds[x] /\ D(x).offset = stream_params[x]
    BY ParamsTables, DeclaresElems DEF Declared
  <2> QED  BY <2>1, ParamsTables, DeclaresElems
<1> HIDE DEF D
<1> QED  BY <1>1, <1>2, <1>3, MembersApart

-----------------------------------------------------------------------------
(***************************************************************************)
(* What becomes of the trigger.  It is packed over the parameters, in the  *)
(* one mailbox; its two elements make one array of words, at the mailbox's *)
(* cell 6.                                                                 *)
(***************************************************************************)
(* The firmware leaves the packer alone, and reads the message.            *)
LEMMA UnpackReads ==
  ASSUME U!UnpackStep
  PROVE  UNCHANGED mem
BY DEF U!UnpackStep, U!RejectHeader, U!AcceptHeader, U!RejectTuple, U!Nest,
   U!TooDeep, U!Leave, U!NoData, U!BeginTuple, U!IgnoreRest, U!RejectItem,
   U!InsertItem

MailboxCells == [0 .. Cells - 1 -> U16]

(* The words of a trigger's message: its header word with the elems bit,   *)
(* one tuple, and the first cell of an array of words with ID 10.          *)
TriggerWord  == 4098
(* The first cell of a tuple with ID 10: a standard tuple, and a standard  *)
(* array.                                                                  *)
SingleOfWord == 80
ArrayOfWords == 82

(* tuple_init writes that cell, whatever the mailbox held, and leaves the  *)
(* header's.                                                               *)
LEMMA TriggerInit ==
  ASSUME NEW m \in MailboxCells, P!TupleInitOk(m, 12), NEW n \in Nat
  PROVE  LET i == P!tuple_init(m, 12, P!STD, 10, n)
         IN DOMAIN i = 0 .. 515 /\ i[1] = m[1] /\ i[6] = SingleOfWord
<1> DEFINE w == P!Store(m, 12, P!TupleWord(P!STD, 10))
           i == P!tuple_init(m, 12, P!STD, 10, n)
<1>1. DOMAIN m = 0 .. 515
  BY DEF MailboxCells, Cells
<1>2. P!TupleWord(P!STD, 10) = 80
  BY DEF P!TupleWord, P!STD
<1>3. DOMAIN w = 0 .. 515 /\ w[1] = m[1] /\ w[6] = SingleOfWord
  BY <1>1, <1>2 DEF P!Store, SingleOfWord
<1> HIDE DEF w
<1>4. P!TupleType(m, 12) \in 0 .. 5
  <2>1. m[6] \in U16
    BY DEF MailboxCells, Cells
  <2>2. \A x \in U16 : x \in Nat /\ x % 8 \in Nat
    BY DEF U16
  <2>3. P!TupleType(m, 12) = m[6] % 8
    BY DEF P!TupleType, P!Half
  <2>4. m[6] % 8 \in Nat
    BY <2>1, <2>2
  <2>5. m[6] % 8 <= 5
    BY <2>3 DEF P!TupleInitOk, P!TUPLE_ARRAY
  <2> QED  BY <2>3, <2>4, <2>5
<1>5. \E a \in {14, 16} : \E x : i = w \/ i = P!Store(w, a, x)
  BY <1>4 DEF P!tuple_init, w, P!STD, P!HD, P!STD_ARRAY, P!HD_ARRAY, P!VAR_ARRAY,
     P!TUPLE_ARRAY
<1> HIDE DEF i
<1> QED  BY <1>3, <1>5 DEF P!Store, i

(* A member copied behind the tuple's header leaves the cells before it.   *)
LEMMA CopyBehind ==
  ASSUME NEW m, DOMAIN m = 0 .. 515, NEW a \in Nat, a >= 16, NEW v, NEW n \in Nat
  PROVE  LET i == P!CopyIn(m, a, v, n)
         IN DOMAIN i = 0 .. 515 /\ i[1] = m[1] /\ i[6] = m[6]
<1>1. ~ (1 >= a \div 2) /\ ~ (6 >= a \div 2)
  OBVIOUS
<1> QED  BY <1>1 DEF P!CopyIn

(* tuple_inc_elems makes an array of it.                                   *)
LEMMA TriggerGrows ==
  ASSUME NEW m, DOMAIN m = 0 .. 515, m[6] = SingleOfWord
  PROVE  LET i == P!tuple_inc_elems(m, 12)
         IN /\ DOMAIN i = 0 .. 515 /\ i[1] = m[1] /\ i[6] = ArrayOfWords
            /\ P!SizeIncrease(m, 12) = 0
<1>1. P!Half(m, 12) = 80 /\ P!TupleType(m, 12) = 0
  BY DEF P!Half, P!TupleType, SingleOfWord
<1>2. P!tuple_inc_elems(m, 12) =
        P!Store(P!Store(m, 12, 82), 14, P!Count(m, 12) + 1)
  <2>1. P!TupleType(m, 12) = P!STD /\ P!Half(m, 12) + 2 = 82
    BY <1>1 DEF P!STD
  <2> QED
    BY <2>1 DEF P!tuple_inc_elems, P!STD, P!HD, P!STD_ARRAY, P!HD_ARRAY,
       P!VAR_ARRAY, P!TUPLE_ARRAY
<1>3. P!SizeIncrease(m, 12) = 0
  BY <1>1 DEF P!SizeIncrease, P!HD
<1> QED  BY <1>2, <1>3 DEF P!Store, ArrayOfWords

(* The walk over a trigger: two elements, which share a tuple.             *)
LEMMA TriggerWalk ==
  LET d == HostTables[TriggerKey]
  IN /\ P!get_first_elem(d).id = 10
     /\ \A e \in P!Elems(d) :
          /\ e.id \in {10, 11} /\ P!ipct_get_type(e.type) = P!STD
          /\ P!elem_get_data_size(e) = 4
          /\ e.id = 10 => /\ P!get_next_elem(d, e) # NULL
                          /\ P!get_next_elem(d, e).id = 11
                          /\ P!IsContinuous(e, P!get_next_elem(d, e))
          /\ e.id = 11 => /\ P!get_next_elem(d, e) = NULL
                          /\ ~ P!IsContinuous(e, P!get_next_elem(d, e))
<1> DEFINE d == HostTables[TriggerKey]
<1>1. PICK layout, limits, size : IsTable(HostTables, layout, limits, size)
  BY HostIsTable
<1>2. PICK e, f \in Elem :
           /\ Elems(d) = {e, f} /\ d.mandatory = {e, f}
           /\ e.id = 10 /\ e.type \in WordTypes /\ e.offset = 0
           /\ f.id = 11 /\ f.type \in WordTypes /\ f.offset = 4
  BY <1>1, TableTrigger
<1>3. d.optional = {}
  BY <1>1 DEF IsTable
<1> HIDE DEF d
<1>4. P!Elems(d) = {e, f}
  BY <1>2, <1>3 DEF P!Elems
<1>5. e # NULL /\ f # NULL
  BY NullAssumption
<1>6. \A x, y \in {e, f} : x.id = y.id => x = y
  BY <1>2
<1>7. \A x \in {e, f} : P!Lowest({x}) = x
  BY DEF P!Lowest
<1>8. P!Lowest({e, f}) = e
  <2>1. \A x \in {e, f} : (\A y \in {e, f} : x.id <= y.id) <=> x = e
    BY <1>2
  <2> QED  BY <2>1 DEF P!Lowest
<1>9. P!get_first_elem(d) = e
  <2>1. {x \in d.mandatory : x.id < P!IPCT_TUPLE_MAX_ID} = {e, f}
    BY <1>2 DEF P!IPCT_TUPLE_MAX_ID
  <2>2. \A i : {x \in d.optional : x.id = i} = {}
    BY <1>3
  <2> QED
    BY <1>8, <2>1, <2>2 DEF P!get_first_elem, P!LowestOrNull
<1>10. P!get_next_elem(d, e) = f
  <2>1. {x \in P!Elems(d) : x.id > e.id /\ x.id < P!IPCT_TUPLE_MAX_ID} = {f}
    BY <1>2, <1>4 DEF P!IPCT_TUPLE_MAX_ID
  <2> QED  BY <1>7, <2>1 DEF P!get_next_elem, P!LowestOrNull
<1>11. P!get_next_elem(d, f) = NULL
  <2>1. {x \in P!Elems(d) : x.id > f.id /\ x.id < P!IPCT_TUPLE_MAX_ID} = {}
    BY <1>2, <1>4 DEF P!IPCT_TUPLE_MAX_ID
  <2> QED  BY <2>1 DEF P!get_next_elem, P!LowestOrNull
<1>12. \A x \in {e, f} : P!ipct_get_type(x.type) = P!STD /\ P!elem_get_data_size(x) = 4
  <2>1. /\ \A x : P!elem_get_data_size(x) = elem_get_data_size(x)
        /\ \A y : P!ipct_get_type(y) = ipct_get_type(y)
        /\ P!STD = STD
    BY DEF P!ipct_get_type, ipct_get_type, P!elem_get_data_size, elem_get_data_size,
       P!HalfWordTypes, HalfWordTypes, P!WordTypes, WordTypes, P!LongTypes, LongTypes,
       P!HD, HD, P!STD, STD
  <2> QED  BY <1>2, <2>1, KindSizes
<1>13. P!IsContinuous(e, f)
  BY <1>2, <1>5, <1>12 DEF P!IsContinuous
<1>14. ~ P!IsContinuous(f, NULL)
  BY DEF P!IsContinuous
<1> QED
  BY <1>2, <1>4, <1>5, <1>9, <1>10, <1>11, <1>12, <1>13, <1>14 DEF d

(* Its action, and that the host's other request has none.                 *)
LEMMA TriggerActions ==
  /\ P!get_action_def(131072) = HostTables[TriggerKey]
  /\ P!get_action_def(3) = NULL
<1>1. DOMAIN HostTables = {ParamsKey, TriggerKey}
  BY HostIsTable DEF IsTable
<1>2. <<P!IdKlass(131072), P!IdSubklass(131072), P!IdAction(131072)>> = TriggerKey
  BY DEF P!IdKlass, P!IdSubklass, P!IdAction, TriggerKey
<1>3. P!IdKlass(3) = 3
  BY DEF P!IdKlass
<1>4. <<P!IdKlass(3), P!IdSubklass(3), P!IdAction(3)>> \notin {ParamsKey, TriggerKey}
  BY <1>3, ParamsKeyIs DEF TriggerKey
<1> QED  BY <1>1, <1>2, <1>4 DEF P!get_action_def

(* The trigger as it is packed: the header, then one element and the other *)
(* behind it, in the same tuple.  Where the first one's tuple ends depends *)
(* on what the parameters left there, and the second is refused or stored  *)
(* there.                                                                  *)
TriggerPacked ==
  at = 2 =>
    /\ pc \in {"idle", "lookup"} => cont = 0 /\ tuples = 0
    /\ pc # "idle" => ctx.id = 131072 /\ ctx.dest_size = MAILBOX_SIZE
    /\ pc \in {"pack", "complete"} =>
         action = HostTables[TriggerKey] /\ mem[1] = TriggerWord
    /\ pc = "pack" =>
         /\ tuples = 0
         /\ cont = 0 => current.id = 10 /\ offset = 12
         /\ cont = 1 => /\ current.id = 11 /\ cont_tuple = 12 /\ offset >= 16
                        /\ mem[6] = SingleOfWord
    /\ pc = "complete" =>
         tuples = 1 /\ offset \in 16 .. MAILBOX_SIZE /\ mem[6] = ArrayOfWords
    /\ pc = "done" /\ ret >= 0 =>
         /\ mem[1] = TriggerWord /\ mem[2] = 1 /\ mem[3] = 0
         /\ mem[6] = ArrayOfWords
         /\ ret \in 0 .. MAILBOX_SIZE

(* The mailbox is memory all along.                                        *)
LEMMA MailboxMemory == P!TypeOK => mem \in MailboxCells /\ DOMAIN mem = 0 .. 515
BY DEF P!TypeOK, P!Memory, MailboxCells, Cells, P!U16, U16

(* A mailbox with the trigger's header word: an elems structure and no     *)
(* route.                                                                  *)
LEMMA TriggerHeader ==
  ASSUME NEW m, m[1] = TriggerWord
  PROVE  /\ P!HdrSize(m) = 12 /\ P!ElemsPtr(m) = 4
         /\ U!HdrSize(m) = 12 /\ U!ElemsPtr(m) = 4 /\ U!HasElems(m)
<1>1. P!Half(m, 2) = 4098 /\ U!Half(m, 2) = 4098
  BY DEF P!Half, U!Half, TriggerWord
<1>2. (4098 \div 4096) % 2 = 1 /\ (4098 \div 2048) % 2 = 0
  OBVIOUS
<1>3. P!HasElems(m) /\ ~ P!HasRoute(m) /\ U!HasElems(m) /\ ~ U!HasRoute(m)
  BY <1>1, <1>2 DEF P!HasElems, P!HasRoute, U!HasElems, U!HasRoute, P!ElemsBit,
     P!RouteBit, U!ElemsBit, U!RouteBit
<1> QED
  BY <1>3 DEF P!HdrSize, P!ElemsPtr, P!RouteAdd, P!ElemsAdd, P!SizeofHdr,
     P!SizeofElems, U!HdrSize, U!ElemsPtr, U!RouteAdd, U!ElemsAdd, U!SizeofHdr,
     U!SizeofElems

(* init_header writes the word of the trigger's ID.                        *)
LEMMA TriggerBegins ==
  ASSUME P!TypeOK
  PROVE  LET m == P!init_header(mem, 131072)
         IN m[1] = TriggerWord
<1>1. DOMAIN mem = 0 .. 515
  BY MailboxMemory
<1>2. (131072 \div 65536) % 65536 = 2 /\ (2 \div 4096) % 2 = 0
  OBVIOUS
<1>3. P!init_header(mem, 131072) = P!Store(P!Store(mem, 0, 131072), 2, 4098)
  BY <1>2 DEF P!init_header, P!ElemsBit
<1> QED  BY <1>1, <1>3 DEF P!Store, TriggerWord

(* complete_header writes the count of one tuple, and not into that tuple. *)
LEMMA TriggerCounted ==
  ASSUME NEW m, DOMAIN m = 0 .. 515, m[1] = TriggerWord, m = mem, tuples = 1
  PROVE  LET i == P!SizedHeader
         IN /\ i[1] = TriggerWord /\ i[2] = 1 /\ i[3] = 0 /\ i[6] = m[6]
<1> DEFINE c == P!CountedHeader
           i == P!SizedHeader
<1>1. P!ElemsPtr(mem) = 4
  BY TriggerHeader
<1>2. \E x : c = P!Store(P!Store(P!Store(mem, 4, 1), 6, 1 \div 65536), 8, x)
  BY <1>1 DEF P!CountedHeader
<1>3. DOMAIN c = 0 .. 515 /\ c[1] = TriggerWord /\ c[2] = 1 /\ c[3] = 0 /\ c[6] = m[6]
  BY <1>2 DEF P!Store, TriggerWord
<1>4. \E x, y : i = P!Store(P!Store(c, 8, x), 10, y)
  BY <1>1 DEF P!SizedHeader
<1> HIDE DEF c
<1> QED  BY <1>3, <1>4 DEF P!Store

(* A step of packing the start request keeps TriggerPacked.                *)
LEMMA TriggerPacks ==
  ASSUME P!TypeOK, mem' \in MailboxCells, at = 2, at' = 2, TriggerPacked, P!PackStep
  PROVE  TriggerPacked'
<1> DEFINE d == HostTables[TriggerKey]
<1> USE DEF TriggerPacked
<1>1. mem \in MailboxCells /\ DOMAIN mem = 0 .. 515
  BY MailboxMemory
<1>2. pc = "pack" => /\ action = d /\ current \in P!Elems(d) /\ cont \in {0, 1}
                     /\ ctx.dest_size = 1024 /\ P!SizeOfCurrent = 4
  <2>1. pc = "pack" => /\ action = d /\ current \in P!Elems(d) /\ cont \in {0, 1}
                       /\ ctx.dest_size = 1024
    BY DEF P!TypeOK, MAILBOX_SIZE
  <2> QED  BY <2>1, TriggerWalk DEF P!SizeOfCurrent
<1>3. CASE P!BadCall \/ P!RejectElem \/ P!RejectSingle \/ P!SingleOverflow \/ P!ContOverflow
  <2>1. pc' = "done" /\ ret' = -22 /\ ctx' = ctx /\ pc # "idle"
    BY <1>3 DEF P!BadCall, P!RejectElem, P!RejectSingle, P!SingleOverflow,
       P!ContOverflow, P!Return, P!EINVAL
  <2> QED  BY <2>1
<1>4. CASE P!BeginPack
  <2>1. /\ pc = "lookup" /\ ctx.id = 131072 /\ ctx' = ctx /\ cont = 0 /\ tuples = 0
        /\ cont' = cont /\ tuples' = tuples
    BY <1>4 DEF P!BeginPack
  <2>2. action' = d /\ mem' = P!init_header(mem, 131072) /\ offset' = P!HdrSize(mem')
    BY <1>4, <2>1, TriggerActions DEF P!BeginPack
  <2>3. mem'[1] = TriggerWord /\ offset' = 12
    BY <2>2, TriggerBegins, TriggerHeader
  <2>4. current' = P!get_first_elem(d) /\ current'.id = 10
    BY <1>4, <2>2, TriggerWalk DEF P!BeginPack
  <2>5. \/ pc' = "pack"
        \/ pc' = "done" /\ ret' = -22
    BY <1>4 DEF P!BeginPack, P!Return, P!EINVAL
  <2> QED  BY <2>1, <2>2, <2>3, <2>4, <2>5
<1>5. CASE P!PackSingle
  <2>1. pc = "pack" /\ cont = 0 /\ offset = 12 /\ current.id = 10 /\ tuples = 0
    BY <1>5 DEF P!PackSingle
  <2>2. P!SingleStart = 12
    BY <2>1 DEF P!SingleStart, P!Align
  <2>3. P!SingleType = P!STD
    BY <1>2, <2>1, TriggerWalk DEF P!SingleType
  <2> DEFINE i == P!InitSingle
  <2>4. i = P!tuple_init(mem, 12, P!STD, 10, 4)
    BY <1>2, <2>1, <2>2, <2>3 DEF P!InitSingle
  <2>5. DOMAIN i = 0 .. 515 /\ i[1] = mem[1] /\ i[6] = SingleOfWord
    <3>1. P!TupleInitOk(mem, 12)
      BY <1>5, <2>2 DEF P!PackSingle
    <3> QED  BY <1>1, <2>4, <3>1, TriggerInit
  <2>6. P!SingleData(i) = 16
    <3>1. P!TupleType(i, 12) = 0
      BY <2>5 DEF P!TupleType, P!Half, SingleOfWord
    <3> QED
      BY <2>2, <3>1 DEF P!SingleData, P!tuple_get_data, P!STD, P!STD_ARRAY, P!HD,
         P!HD_ARRAY, P!SizeofStd
  <2> HIDE DEF i
  <2>7. mem' = P!CopyIn(i, 16, ctx.src[current.offset], 4)
    BY <1>2, <1>5, <2>1, <2>6 DEF P!PackSingle, i
  <2>8. DOMAIN mem' = 0 .. 515 /\ mem'[1] = TriggerWord /\ mem'[6] = SingleOfWord
    BY <2>1, <2>5, <2>7, CopyBehind
  <2>9. P!get_next_elem(d, current).id = 11 /\ P!get_next_elem(d, current) # NULL
        /\ P!IsContinuous(current, P!get_next_elem(d, current))
    BY <1>2, <2>1, TriggerWalk
  <2>10. /\ pc' = "pack" /\ cont' = 1 /\ tuples' = 0 /\ current'.id = 11
         /\ cont_tuple' = 12 /\ ctx' = ctx /\ action' = action
         /\ offset' = 12 + P!tuple_size(mem', 12)
    BY <1>2, <1>5, <2>1, <2>2, <2>9 DEF P!PackSingle, P!Advance
  <2>11. offset' >= 16
    <3>1. P!TupleType(mem', 12) = 0
      BY <2>8 DEF P!TupleType, P!Half, SingleOfWord
    <3>2. P!tuple_size(mem', 12) = 4 + 4 * P!Count(mem', 12)
      BY <3>1 DEF P!tuple_size, P!STD, P!STD_ARRAY, P!HD, P!HD_ARRAY, P!VAR_ARRAY,
         P!TUPLE_ARRAY, P!SizeofStd
    <3>3. P!Count(mem', 12) \in Nat
      <4>1. mem'[7] \in U16
        BY DEF MailboxCells, Cells
      <4>2. \A x \in U16 : x \in Nat
        BY DEF U16
      <4> QED  BY <4>1, <4>2 DEF P!Count, P!Half
    <3> QED  BY <2>10, <3>2, <3>3
  <2> QED  BY <2>1, <2>8, <2>10, <2>11, <1>2
<1>6. CASE P!PackCont
  <2>1. /\ pc = "pack" /\ cont = 1 /\ offset >= 16 /\ current.id = 11 /\ tuples = 0
        /\ cont_tuple = 12 /\ mem[6] = SingleOfWord /\ mem[1] = TriggerWord
    BY <1>6 DEF P!PackCont
  <2> DEFINE i == P!GrownTuple
  <2>2. /\ DOMAIN i = 0 .. 515 /\ i[1] = mem[1] /\ i[6] = ArrayOfWords
        /\ P!SizeIncrease(mem, 12) = 0
    BY <1>1, <2>1, TriggerGrows DEF P!GrownTuple
  <2> HIDE DEF i
  <2>3. offset \in Nat
    BY DEF P!TypeOK
  <2>4. P!ContData = offset
    BY <2>1, <2>2, <2>3 DEF P!ContData
  <2>5. offset + 4 < 1024
    BY <1>2, <1>6, <2>1, <2>4 DEF P!PackCont, P!FitsBuffer
  <2>6. mem' = P!CopyIn(i, offset, ctx.src[current.offset], 4)
    BY <1>2, <1>6, <2>1, <2>4 DEF P!PackCont, i
  <2>7. DOMAIN mem' = 0 .. 515 /\ mem'[1] = TriggerWord /\ mem'[6] = ArrayOfWords
    BY <2>1, <2>2, <2>3, <2>6, CopyBehind
  <2>8. P!get_next_elem(d, current) = NULL
        /\ ~ P!IsContinuous(current, P!get_next_elem(d, current))
    BY <1>2, <2>1, TriggerWalk
  <2>9. P!tuple_data_size(mem', 12) = 4
    <3>1. P!TupleType(mem', 12) = 2
      BY <2>7 DEF P!TupleType, P!Half, ArrayOfWords
    <3> QED
      BY <3>1 DEF P!tuple_data_size, P!STD, P!STD_ARRAY, P!HD, P!HD_ARRAY,
         P!VAR_ARRAY, P!TUPLE_ARRAY
  <2>10. /\ pc' = "complete" /\ tuples' = 1 /\ ctx' = ctx /\ action' = action
         /\ offset' = offset + 4
    BY <1>2, <1>6, <2>1, <2>4, <2>8, <2>9 DEF P!PackCont, P!Advance
  <2> QED  BY <1>2, <2>1, <2>3, <2>5, <2>7, <2>10 DEF MAILBOX_SIZE
<1>7. CASE P!complete_header
  <2>1. /\ pc = "complete" /\ tuples = 1 /\ offset \in 16 .. MAILBOX_SIZE
        /\ mem[1] = TriggerWord /\ mem[6] = ArrayOfWords
    BY <1>7 DEF P!complete_header
  <2>2. CASE ret' = -22
    <3>1. pc' = "done" /\ ctx' = ctx
      BY <1>7 DEF P!complete_header, P!Return
    <3> QED  BY <2>1, <2>2, <3>1
  <2>3. CASE ret' # -22
    <3>1. pc' = "done" /\ ctx' = ctx /\ ret' = offset /\ mem' = P!SizedHeader
      BY <1>7, <2>3 DEF P!complete_header, P!Return, P!EINVAL
    <3>2. /\ mem'[1] = TriggerWord /\ mem'[2] = 1 /\ mem'[3] = 0
          /\ mem'[6] = ArrayOfWords
      BY <1>1, <2>1, <3>1, TriggerCounted
    <3> QED  BY <2>1, <3>1, <3>2 DEF MAILBOX_SIZE
  <2> QED  BY <2>2, <2>3
<1> QED
  BY <1>3, <1>4, <1>5, <1>6, <1>7 DEF P!PackStep

(* The trigger as it is unpacked, for parameters: its first item has the   *)
(* ID of stream_no_irq, which is a half word, and is refused for its size. *)
TriggerFrame == [tuple |-> 12, remaining_bytes |-> end - 12, tuples_remain |-> 1]

(* The firmware with the start request: nothing is stored, and its one     *)
(* frame is at the tuple whose ID the parameters' last element has.        *)
TriggerRefused ==
  at = 2 =>
    /\ rx_pc \in {"idle", "header", "tuples", "item", "done"}
    /\ rx_pc # "idle" =>
         /\ struct \in U!Struct /\ before \in U!Struct
         /\ stored = <<>> /\ item = 0 /\ end \in Nat
         /\ frames = <<>> \/ (end > 12 /\ frames = <<TriggerFrame>>)
    /\ rx_pc = "header" => frames = <<>> /\ end = 0 /\ rx_ret = 0
    /\ rx_pc \in {"tuples", "item"} => frames # <<>> /\ rx_ret = 0
    /\ rx_pc = "item" => U!tuple_data_count(mem, 12) # 0
    /\ rx_pc = "done" => rx_ret = -22

(* The action the firmware unpacks by is that of the parameters.           *)
LEMMA UnpackerAction ==
  U!action_def = FirmwareRegistry[ParamsKey] /\ U!action_def # NULL
<1>1. DOMAIN FirmwareRegistry = {ParamsKey, TriggerKey}
  BY Tables DEF IsTable
<1>2. <<U!IdKlass(0), U!IdSubklass(0), U!IdAction(0)>> = ParamsKey
  BY ParamsKeyIs DEF U!IdKlass, U!IdSubklass, U!IdAction
<1> QED
  BY <1>1, <1>2, ParamsActions DEF U!action_def, U!get_action_def

(* The cursor in the trigger's one frame.                                  *)
LEMMA TriggerCursor ==
  ASSUME frames = <<TriggerFrame>>, end \in Nat, end > 12, mem[6] = ArrayOfWords
  PROVE  /\ Len(frames) = 1 /\ U!tuple = 12 /\ U!More
         /\ U!TupleType(mem, 12) = U!STD_ARRAY
         /\ U!tuple_data_size(mem, 12) = 4
<1>1. Len(frames) = 1 /\ frames[1] = TriggerFrame
  OBVIOUS
<1>2. U!Current = TriggerFrame
  BY <1>1 DEF U!Current
<1>3. U!tuple = 12 /\ U!More
  BY <1>2 DEF U!tuple, U!More, TriggerFrame
<1>4. U!TupleType(mem, 12) = 2
  BY DEF U!TupleType, U!Half, ArrayOfWords
<1>5. U!tuple_data_size(mem, 12) = 4
  BY <1>4 DEF U!tuple_data_size, U!STD, U!STD_ARRAY, U!HD, U!HD_ARRAY,
     U!VAR_ARRAY, U!TUPLE_ARRAY
<1> QED  BY <1>1, <1>3, <1>4, <1>5 DEF U!STD_ARRAY

(* What the firmware finds for its first item.                             *)
LEMMA TriggerItem ==
  ASSUME U!tuple = 12, item = 0, mem[6] = ArrayOfWords
  PROVE  U!ElemAt # NULL /\ U!elem_get_data_size(U!ElemAt) = 2
<1> DEFINE r == FirmwareRegistry[ParamsKey]
           match == {e \in U!Elems(r) : e.id = 10}
<1>1. U!TupleId(mem, 12) + 0 = 10
  BY DEF U!TupleId, U!Half, ArrayOfWords
<1>2. U!Elems(r) = Elems(r)
  BY DEF U!Elems, Elems
<1>3. \E e \in Elems(r) : e.id = 10
  BY ParamsTables, DeclaresElems
<1>4. U!ElemAt = CHOOSE e \in match : TRUE
  BY <1>1, <1>2, <1>3, UnpackerAction DEF U!ElemAt, U!get_tuple_elem
<1>5. U!ElemAt \in Elems(r) /\ U!ElemAt.id = 10
  BY <1>2, <1>3, <1>4
<1>6. U!ElemAt # NULL
  BY <1>5, ParamsTables, DeclaresElems, NullAssumption
<1>7. elem_get_data_size(U!ElemAt) = 2
  <2>1. elem_get_data_size(U!ElemAt) = IF U!ElemAt.id \in WordIds THEN 4 ELSE 2
    BY <1>5, ParamsTables, DeclaresElems
  <2> QED  BY <1>5, <2>1 DEF WordIds
<1>8. \A e : U!elem_get_data_size(e) = elem_get_data_size(e)
  BY DEF U!elem_get_data_size, elem_get_data_size, U!HalfWordTypes, HalfWordTypes,
     U!WordTypes, WordTypes, U!LongTypes, LongTypes
<1> QED  BY <1>6, <1>7, <1>8

(* A step of unpacking the start request keeps TriggerRefused.             *)
LEMMA TriggerUnpacks ==
  ASSUME P!TypeOK, at = 2, at' = 2, pc = "done", ret >= 0,
         TriggerPacked, TriggerRefused, U!UnpackStep
  PROVE  TriggerRefused'
<1>1. mem[1] = TriggerWord /\ mem[2] = 1 /\ mem[3] = 0 /\ mem[6] = ArrayOfWords
  BY DEF TriggerPacked
<1>2. UNCHANGED mem
  BY UnpackReads
<1> USE DEF TriggerRefused
<1>3. rx_pc \in {"tuples", "item"} =>
        /\ end > 12 /\ frames = <<TriggerFrame>> /\ end \in Nat
        /\ Len(frames) = 1 /\ U!tuple = 12 /\ U!More /\ item = 0
        /\ U!TupleType(mem, 12) = U!STD_ARRAY
        /\ U!tuple_data_size(mem, 12) = 4
  BY <1>1, TriggerCursor
<1>4. CASE U!RejectHeader \/ U!RejectTuple \/ U!NoData \/ U!RejectItem
  <2>1. /\ rx_pc \in {"header", "tuples", "item"}
        /\ rx_pc' = "done" /\ rx_ret' = -22
        /\ UNCHANGED <<struct, end, frames, item, before, stored>>
    BY <1>4 DEF U!RejectHeader, U!RejectTuple, U!NoData, U!RejectItem, U!Return,
       U!EINVAL
  <2> QED  BY <2>1 DEF TriggerFrame
<1>5. CASE U!AcceptHeader
  <2>1. /\ rx_pc = "header" /\ rx_pc' = "tuples" /\ rx_ret = 0
        /\ U!ipct_get_size(mem) # 0
        /\ end' = U!HdrSize(mem) + U!ipct_get_size(mem)
        /\ frames' = <<U!Frame(U!HdrSize(mem), U!ipct_get_tuples(mem), end')>>
        /\ UNCHANGED <<struct, item, rx_ret, before, stored>>
    BY <1>5 DEF U!AcceptHeader, U!HeaderOk
  <2>2. U!HdrSize(mem) = 12 /\ U!ElemsPtr(mem) = 4 /\ U!HasElems(mem)
    BY <1>1, TriggerHeader
  <2>3. U!ipct_get_tuples(mem) = 1
    BY <1>1, <2>2 DEF U!ipct_get_tuples, U!Half
  <2>4. U!ipct_get_size(mem) \in Nat
    <3>1. mem[4] \in U16 /\ mem[5] \in U16
      BY MailboxMemory DEF MailboxCells, Cells
    <3>2. \A x \in U16 : x \in Nat /\ x \div 256 \in Nat
      BY DEF U16
    <3>3. U!ipct_get_size(mem) = 4 * ((mem[4] \div 256) + 256 * mem[5])
      BY <2>2 DEF U!ipct_get_size, U!Half
    <3>4. mem[4] \div 256 \in Nat /\ mem[5] \in Nat
      BY <3>1, <3>2
    <3> QED  BY <3>3, <3>4
  <2>5. end' \in Nat /\ end' > 12 /\ frames' = <<TriggerFrame'>> /\ frames' # <<>>
    BY <2>1, <2>2, <2>3, <2>4 DEF U!Frame, TriggerFrame
  <2> QED  BY <2>1, <2>5
<1>6. CASE U!Nest \/ U!TooDeep
  BY <1>3, <1>6 DEF U!Nest, U!TooDeep, U!STD_ARRAY, U!TUPLE_ARRAY
<1>7. CASE U!Leave
  BY <1>3, <1>7 DEF U!Leave
<1>8. CASE U!BeginTuple
  <2>1. /\ rx_pc = "tuples" /\ rx_pc' = "item" /\ item' = 0
        /\ U!tuple_data_count(mem, 12) # 0
        /\ UNCHANGED <<struct, end, frames, rx_ret, before, stored>>
    BY <1>3, <1>8 DEF U!BeginTuple, U!HasData
  <2> QED  BY <1>2, <1>3, <2>1 DEF TriggerFrame
<1>9. CASE U!IgnoreRest \/ U!InsertItem
  <2>1. rx_pc = "item"
    BY <1>9 DEF U!IgnoreRest, U!InsertItem
  <2>2. U!ElemAt # NULL /\ U!elem_get_data_size(U!ElemAt) = 2
    BY <1>1, <1>3, <2>1, TriggerItem
  <2>3. ~ U!Insertable
    BY <1>3, <2>1, <2>2 DEF U!Insertable
  <2> QED  BY <1>9, <2>2, <2>3 DEF U!IgnoreRest, U!InsertItem, U!CanInsert
<1> QED
  BY <1>4, <1>5, <1>6, <1>7, <1>8, <1>9 DEF U!UnpackStep

-----------------------------------------------------------------------------
(***************************************************************************)
(* The whole sequence.  The host is not done with a request before the     *)
(* firmware is; the firmware is handed the parameters and a trigger; and   *)
(* for the position no table has an action, so that the sequence ends      *)
(* there.                                                                  *)
(***************************************************************************)
Sequenced ==
  /\ at \in {1, 2, 3, 5}
  /\ at = 3 => /\ pc \in {"idle", "lookup", "done"}
               /\ pc = "lookup" => ctx.id = 3
               /\ pc = "done" => ret < 0
  /\ at = 5 => pc = "done" /\ ret < 0
  /\ at \in {3, 5} => rx_pc = "idle"
  /\ rx_pc # "idle" =>
       /\ pc = "done" /\ ret >= 0
       /\ rx_ctx = [src_size |-> ret, dest_size |-> IPC_MAX_MSG_SIZE]
  /\ rx_pc = "idle" => UnpackerIdle
  /\ told # NULL => told \in ToldOf /\ told.request = "params"
  /\ sent \in Seq({"params", "start"})

(* The inductive invariant of the program.                                 *)
StreamInv == Sequenced /\ TriggerPacked /\ TriggerRefused

(* The invariant holds at the start.                                       *)
LEMMA StreamStarts == Init => StreamInv
<1> SUFFICES ASSUME Init PROVE StreamInv
  OBVIOUS
<1>1. at = 1 /\ told = NULL /\ UnpackerIdle /\ sent = <<>>
  BY DEF Init
<1>2. Sequenced
  BY <1>1 DEF Sequenced, UnpackerIdle
<1>3. TriggerPacked /\ TriggerRefused
  BY <1>1 DEF TriggerPacked, TriggerRefused
<1> QED  BY <1>2, <1>3 DEF StreamInv

(* The requests come in the order of sw_run_stream_tests.                  *)
LEMMA RequestsInTurn ==
  /\ ~ Over => at # 5
  /\ at = 1 => Request = "params"
  /\ at = 2 => Request = "start"
  /\ at = 3 => Request = "position"
BY DEF Over, Request, Requests

(* Making a request preserves the invariant,                               *)
LEMMA SequencedMakes ==
  ASSUME StreamInv, MakeRequest
  PROVE  StreamInv'
<1>1. /\ at' = at /\ pc = "idle" /\ pc' = "lookup" /\ ~ Over /\ at # 5
      /\ UNCHANGED <<mem, action, offset, current, cont, cont_tuple, tuples, ret>>
      /\ ctx' = [id |-> RequestId(Request), src |-> Structure(Request),
                 src_size |-> StructureSize(Request), dest_size |-> MAILBOX_SIZE]
      /\ UNCHANGED <<rx_pc, rx_ctx, struct, end, frames, item, rx_ret, before, stored>>
      /\ UNCHANGED <<told, sent>>
  BY RequestsInTurn DEF MakeRequest, P!ipct_msg_pack, unpacker
<1>2. /\ ctx'.id = RequestId(Request) /\ ctx'.dest_size = MAILBOX_SIZE
  BY <1>1
<1>3. Sequenced /\ TriggerPacked /\ TriggerRefused
  BY DEF StreamInv
<1>4. at = 3 => ctx'.id = 3
  BY <1>2, RequestsInTurn, RequestNumbers
<1>5. at = 2 => ctx'.id = 131072
  BY <1>2, RequestsInTurn, RequestNumbers
<1>6. Sequenced'
  BY <1>1, <1>3, <1>4 DEF Sequenced, UnpackerIdle
<1>7. TriggerPacked'
  BY <1>1, <1>2, <1>3, <1>5 DEF TriggerPacked
<1>8. TriggerRefused'
  BY <1>1, <1>3 DEF TriggerRefused, TriggerFrame
<1> QED  BY <1>6, <1>7, <1>8 DEF StreamInv

(* a step of packing preserves it,                                         *)
LEMMA SequencedPacks ==
  ASSUME P!TypeOK, P!TypeOK', StreamInv, Pack
  PROVE  StreamInv'
<1>1. /\ P!PackStep /\ at' = at
      /\ UNCHANGED <<rx_pc, rx_ctx, struct, end, frames, item, rx_ret, before, stored>>
      /\ UNCHANGED <<told, sent>>
  BY DEF Pack, unpacker
<1>2. pc \in {"lookup", "pack", "complete"}
  BY <1>1 DEF P!PackStep, P!BadCall, P!BeginPack, P!RejectElem, P!RejectSingle,
     P!SingleOverflow, P!PackSingle, P!ContOverflow, P!PackCont, P!complete_header
<1>3. Sequenced /\ TriggerPacked /\ TriggerRefused
  BY DEF StreamInv
<1>4. rx_pc = "idle" /\ at # 5
  BY <1>2, <1>3 DEF Sequenced
<1>5. ASSUME at = 3 PROVE pc' = "done" /\ ret' < 0
  <2>1. pc = "lookup" /\ P!get_action_def(ctx.id) = NULL
    BY <1>2, <1>3, <1>5, TriggerActions DEF Sequenced
  <2>2. P!BadCall \/ P!BeginPack
    BY <1>1, <2>1 DEF P!PackStep, P!BadCall, P!BeginPack, P!RejectElem, P!RejectSingle,
     P!SingleOverflow, P!PackSingle, P!ContOverflow, P!PackCont, P!complete_header
  <2>3. P!BadCall
    BY <2>1, <2>2 DEF P!BeginPack
  <2> QED  BY <2>3 DEF P!BadCall, P!Return, P!EINVAL
<1>6. Sequenced'
  BY <1>1, <1>3, <1>4, <1>5 DEF Sequenced, UnpackerIdle
<1>7. TriggerPacked'
  <2>1. CASE at = 2
    <3>1. mem' \in MailboxCells
      BY DEF P!TypeOK, P!Memory, MailboxCells, P!U16, U16
    <3> QED  BY <1>1, <1>3, <2>1, <3>1, TriggerPacks
  <2>2. CASE at # 2
    BY <1>1, <2>2 DEF TriggerPacked
  <2> QED  BY <2>1, <2>2
<1>8. TriggerRefused'
  BY <1>1, <1>3, <1>4 DEF TriggerRefused, TriggerFrame
<1> QED  BY <1>6, <1>7, <1>8 DEF StreamInv

(* handing a message over,                                                 *)
LEMMA SequencedSends ==
  ASSUME P!TypeOK, StreamInv, test_send_ipc_to_fw
  PROVE  StreamInv'
<1>1. /\ pc = "done" /\ ret >= 0 /\ at' = at /\ UNCHANGED packer /\ UNCHANGED told
      /\ sent' = Append(sent, Request)
  BY DEF test_send_ipc_to_fw
<1>2. PICK target \in Leftovers :
        U!ipct_msg_unpack(mem, target, ret, IPC_MAX_MSG_SIZE)
  BY DEF test_send_ipc_to_fw
<1>3. /\ rx_pc = "idle" /\ rx_pc' = "header" /\ mem' = mem
      /\ struct' = target /\ before' = target
      /\ rx_ctx' = [src_size |-> ret, dest_size |-> IPC_MAX_MSG_SIZE]
      /\ UNCHANGED <<end, frames, item, rx_ret, stored>>
  BY <1>2 DEF U!ipct_msg_unpack
<1>4. Sequenced /\ TriggerPacked /\ TriggerRefused
  BY DEF StreamInv
<1>5. at \in {1, 2}
  <2>1. ret \in Int
    BY DEF P!TypeOK
  <2>2. ~ (ret < 0)
    BY <1>1, <2>1
  <2> QED  BY <1>1, <1>4, <2>2 DEF Sequenced
<1>6. end = 0 /\ frames = <<>> /\ item = 0 /\ rx_ret = 0 /\ stored = <<>>
  BY <1>3, <1>4 DEF Sequenced, UnpackerIdle
<1>7. Sequenced'
  <2>1. Request \in {"params", "start"}
    BY <1>5, RequestsInTurn
  <2>2. sent' \in Seq({"params", "start"})
    BY <1>1, <1>4, <2>1 DEF Sequenced
  <2>3. pc' = pc /\ ret' = ret
    BY <1>1 DEF packer
  <2>4. told' # NULL => told' \in ToldOf /\ told'.request = "params"
    BY <1>1, <1>4 DEF Sequenced
  <2> QED  BY <1>1, <1>3, <1>5, <1>6, <2>2, <2>3, <2>4 DEF Sequenced
<1>8. TriggerPacked'
  BY <1>1, <1>3, <1>4 DEF TriggerPacked, packer
<1>9. TriggerRefused'
  <2>1. target \in U!Struct
    BY StreamAssumption DEF U!Struct, U!U16, U16
  <2> QED  BY <1>1, <1>3, <1>6, <2>1 DEF TriggerRefused, TriggerFrame
<1> QED  BY <1>7, <1>8, <1>9 DEF StreamInv

(* a step of unpacking it,                                                 *)
LEMMA SequencedUnpacks ==
  ASSUME P!TypeOK, StreamInv, Unpack
  PROVE  StreamInv'
<1>1. /\ U!UnpackStep /\ at' = at /\ UNCHANGED packer /\ UNCHANGED <<told, sent>>
      /\ mem' = mem
  BY UnpackReads DEF Unpack
<1>2. rx_pc # "idle" /\ rx_pc' # "idle" /\ rx_ctx' = rx_ctx
  BY <1>1 DEF U!UnpackStep, U!RejectHeader, U!AcceptHeader, U!RejectTuple, U!Nest,
         U!TooDeep, U!Leave, U!NoData, U!BeginTuple, U!IgnoreRest,
         U!RejectItem, U!InsertItem, U!Return
<1>3. Sequenced /\ TriggerPacked /\ TriggerRefused
  BY DEF StreamInv
<1>4. pc = "done" /\ ret >= 0 /\ at \in {1, 2}
  BY <1>2, <1>3 DEF Sequenced
<1>5. Sequenced'
  BY <1>1, <1>2, <1>3, <1>4 DEF Sequenced, packer
<1>6. TriggerPacked'
  BY <1>1, <1>3 DEF TriggerPacked, packer
<1>7. TriggerRefused'
  <2>1. CASE at = 2
    BY <1>1, <1>3, <1>4, <2>1, TriggerUnpacks
  <2>2. CASE at # 2
    BY <1>1, <2>2 DEF TriggerRefused
  <2> QED  BY <2>1, <2>2
<1> QED  BY <1>5, <1>6, <1>7 DEF StreamInv

(* What the handler reads are cells of the message.                        *)
LEMMA HandlerReads ==
  ASSUME P!TypeOK
  PROVE  fw_stream_params \in [{"id", "rate", "sample_container_bytes"} -> U16]
<1>1. mem \in [0 .. 515 -> U16]
  BY MailboxMemory DEF MailboxCells, Cells
<1>2. \A m \in {"id", "rate", "sample_container_bytes"} :
        stream_params[m] \div 2 \in 0 .. 515
  BY DEF stream_params
<1>3. \A m \in {"id", "rate", "sample_container_bytes"} :
        Half(mem, stream_params[m]) \in U16
  BY <1>1, <1>2 DEF Half
<1> QED  BY <1>3 DEF fw_stream_params

(* and the host's going on or giving up: before it goes on, the firmware's *)
(* handler may have read the parameters, and nothing else.                 *)
LEMMA SequencedEnds ==
  ASSUME P!TypeOK, StreamInv, GiveUp \/ NextRequest
  PROVE  StreamInv'
<1>1. Sequenced /\ TriggerPacked /\ TriggerRefused
  BY DEF StreamInv
<1>2. CASE GiveUp
  <2>1. /\ at' = 5 /\ pc = "done" /\ ret < 0
        /\ UNCHANGED <<packer, unpacker, told, sent>>
    BY <1>2 DEF GiveUp, Requests
  <2>2. rx_pc = "idle"
    <3>1. ret \in Int
      BY DEF P!TypeOK
    <3>2. ~ (ret >= 0)
      BY <2>1, <3>1
    <3> QED  BY <1>1, <3>2 DEF Sequenced
  <2>3. Sequenced'
    BY <1>1, <2>1, <2>2 DEF Sequenced, packer, unpacker, UnpackerIdle
  <2>4. TriggerPacked' /\ TriggerRefused'
    BY <2>1 DEF TriggerPacked, TriggerRefused
  <2> QED  BY <2>3, <2>4 DEF StreamInv
<1>3. CASE NextRequest
  <2>1. /\ at' = at + 1 /\ rx_pc = "done" /\ sent' = sent
        /\ told' = IF rx_ret = 0
                   THEN [request |-> Request, read |-> fw_stream_params] ELSE told
        /\ pc' = "idle" /\ cont' = 0 /\ tuples' = 0
        /\ rx_pc' = "idle" /\ rx_ctx' = NULL /\ struct' = NULL
        /\ end' = 0 /\ frames' = <<>> /\ item' = 0 /\ rx_ret' = 0
        /\ before' = NULL /\ stored' = <<>>
    BY <1>3 DEF NextRequest, P!Collect
  <2>2. at \in {1, 2}
    BY <1>1, <2>1 DEF Sequenced
  <2>3. at' \in {2, 3}
    BY <2>1, <2>2
  <2>4. told' # NULL => told' \in ToldOf /\ told'.request = "params"
    <3>1. CASE rx_ret = 0
      <4>1. at # 2
        BY <1>1, <2>1, <3>1 DEF TriggerRefused
      <4>2. Request = "params"
        BY <2>2, <4>1, RequestsInTurn
      <4>3. told' = [request |-> "params", read |-> fw_stream_params]
        BY <2>1, <3>1, <4>2
      <4>4. "params" \in RequestNames
        BY DEF RequestNames, Requests
      <4> QED  BY <4>3, <4>4, HandlerReads DEF ToldOf
    <3>2. CASE rx_ret # 0
      BY <1>1, <2>1, <3>2 DEF Sequenced
    <3> QED  BY <3>1, <3>2
  <2>5. Sequenced'
    BY <1>1, <2>1, <2>3, <2>4 DEF Sequenced, UnpackerIdle
  <2>6. TriggerPacked' /\ TriggerRefused'
    BY <2>1 DEF TriggerPacked, TriggerRefused
  <2> QED  BY <2>5, <2>6 DEF StreamInv
<1> QED  BY <1>2, <1>3

-----------------------------------------------------------------------------
(***************************************************************************)
(* Every request is packed: the program as a client of the packer.         *)
(***************************************************************************)
(* Every request is packed by the packer, over what the last one left.     *)
Host == INSTANCE IpctPackProofs WITH
       Registry <- HostTables, Ids <- {RequestId(r) : r \in RequestNames},
       Sources <- {Structure(r) : r \in RequestNames},
       SrcSizes <- {StructureSize(r) : r \in RequestNames},
       DestSizes <- {MAILBOX_SIZE},
       InitialMailboxes <- {[c \in 0 .. Cells - 1 |-> 0]},
       ReuseDest <- TRUE, SizeLimit <- 16777216

(* The accessors of the tuple ABI are the same operators in the host's     *)
(* instance of the packer,                                                 *)
LEMMA HostTuples ==
  /\ \A m, t : Host!TupleType(m, t) = P!TupleType(m, t)
  /\ \A m, t : Host!tuple_size(m, t) = P!tuple_size(m, t)
  /\ \A m, t : Host!tuple_data_size(m, t) = P!tuple_data_size(m, t)
  /\ \A m, t : Host!TupleInitOk(m, t) = P!TupleInitOk(m, t)
  /\ \A m, t : Host!TupleInitExtent(m, t) = P!TupleInitExtent(m, t)
  /\ \A m, t : Host!tuple_inc_elems(m, t) = P!tuple_inc_elems(m, t)
  /\ \A m, t : Host!SizeIncrease(m, t) = P!SizeIncrease(m, t)
  /\ \A m, t, i : Host!tuple_get_data(m, t, i) = P!tuple_get_data(m, t, i)
  /\ \A m, a, v, n : Host!CopyIn(m, a, v, n) = P!CopyIn(m, a, v, n)
  /\ \A m, t, v : Host!Store(m, t, v) = P!Store(m, t, v)
  /\ \A m, t : Host!Half(m, t) = P!Half(m, t)
  /\ \A m, t, y, i, n : Host!tuple_init(m, t, y, i, n) = P!tuple_init(m, t, y, i, n)
BY DEF Host!STD, Host!HD, Host!STD_ARRAY, Host!HD_ARRAY, Host!VAR_ARRAY,
       Host!TUPLE_ARRAY, Host!SizeofStd, Host!SizeofMicro, Host!SizeofVar,
       Host!VarData, Host!Half, Host!Store, Host!CopyIn, Host!TupleType,
       Host!TupleId, Host!Count, Host!ElemBytes, Host!TupleWord,
       Host!tuple_size, Host!tuple_data_size, Host!tuple_data_count,
       Host!tuple_get_data, Host!ipc_next_tuple, Host!TupleInitOk,
       Host!tuple_init, Host!TupleInitExtent, Host!tuple_inc_elems,
       Host!SizeIncrease, P!STD, P!HD, P!STD_ARRAY, P!HD_ARRAY, P!VAR_ARRAY,
       P!TUPLE_ARRAY, P!SizeofStd, P!SizeofMicro, P!SizeofVar, P!VarData,
       P!Half, P!Store, P!CopyIn, P!TupleType, P!TupleId, P!Count,
       P!ElemBytes, P!TupleWord, P!tuple_size, P!tuple_data_size,
       P!tuple_data_count, P!tuple_get_data, P!ipc_next_tuple, P!TupleInitOk,
       P!tuple_init, P!TupleInitExtent, P!tuple_inc_elems, P!SizeIncrease

(* and so are the header's fields and the lookup of an action              *)
LEMMA HostHeader ==
  /\ Host!SizeofHdr = P!SizeofHdr
  /\ Host!SizeofElems = P!SizeofElems
  /\ Host!EINVAL = P!EINVAL
  /\ Host!STD = P!STD
  /\ Host!HD = P!HD
  /\ \A m : Host!HdrSize(m) = P!HdrSize(m)
  /\ \A m : Host!ElemsPtr(m) = P!ElemsPtr(m)
  /\ \A m, i : Host!init_header(m, i) = P!init_header(m, i)
  /\ \A i : Host!get_action_def(i) = P!get_action_def(i)
BY DEF Host!SizeofHdr, Host!SizeofElems, Host!SizeofRoute, Host!RouteBit,
       Host!ElemsBit, Host!HasRoute, Host!HasElems, Host!RouteAdd,
       Host!ElemsAdd, Host!ElemsPtr, Host!HdrSize, Host!Half, Host!IdKlass,
       Host!IdSubklass, Host!IdAction, Host!Store, Host!get_action_def,
       Host!EINVAL, Host!init_header, Host!STD, Host!HD, P!SizeofHdr,
       P!SizeofElems, P!SizeofRoute, P!RouteBit, P!ElemsBit, P!HasRoute,
       P!HasElems, P!RouteAdd, P!ElemsAdd, P!ElemsPtr, P!HdrSize, P!Half,
       P!IdKlass, P!IdSubklass, P!IdAction, P!Store, P!get_action_def,
       P!EINVAL, P!init_header, P!STD, P!HD

(* and the walk over its elements.                                         *)
LEMMA HostWalk ==
  /\ \A d : Host!get_first_elem(d) = P!get_first_elem(d)
  /\ \A d : Host!Elems(d) = P!Elems(d)
  /\ \A d, e : Host!get_next_elem(d, e) = P!get_next_elem(d, e)
  /\ \A e, f : Host!IsContinuous(e, f) = P!IsContinuous(e, f)
  /\ \A e, f : Host!MaxOf(e, f) = P!MaxOf(e, f)
  /\ \A y : Host!ipct_get_type(y) = P!ipct_get_type(y)
  /\ \A e : Host!elem_get_data_size(e) = P!elem_get_data_size(e)
  /\ \A e : Host!Align(e) = P!Align(e)
BY DEF Host!HalfWordTypes, Host!WordTypes, Host!LongTypes, Host!Elems,
       Host!ipct_get_type, Host!elem_get_data_size, Host!HD, Host!STD,
       Host!Lowest, Host!LowestOrNull, Host!get_first_elem,
       Host!get_next_elem, Host!IsContinuous, Host!IPCT_TUPLE_MAX_ID,
       Host!Align, Host!MaxOf, P!HalfWordTypes, P!WordTypes, P!LongTypes,
       P!Elems, P!ipct_get_type, P!elem_get_data_size, P!HD, P!STD, P!Lowest,
       P!LowestOrNull, P!get_first_elem, P!get_next_elem, P!IsContinuous,
       P!IPCT_TUPLE_MAX_ID, P!Align, P!MaxOf

(* A step of the program's packer is one of the host's specification.      *)
LEMMA HostPacks ==
  ASSUME P!PackStep
  PROVE  Host!PackStep
<1> USE HostTuples, HostWalk, HostHeader
<1>1. CASE P!BadCall
  <2>1. Host!BadCall
    BY <1>1 DEF Host!BadCall, Host!Return, P!BadCall, P!Return
  <2> QED  BY <2>1 DEF Host!PackStep
<1>2. CASE P!BeginPack
  <2>1. Host!BeginPack
    BY <1>2 DEF Host!BeginPack, Host!Return, P!BeginPack, P!Return
  <2> QED  BY <2>1 DEF Host!PackStep
<1>3. CASE P!RejectElem
  <2>1. Host!RejectElem
    BY <1>3 DEF Host!RejectElem, Host!Return, Host!ElemInStruct, Host!SizeOfCurrent,
       P!RejectElem, P!Return, P!ElemInStruct, P!SizeOfCurrent
  <2> QED  BY <2>1 DEF Host!PackStep
<1>4. CASE P!RejectSingle
  <2>1. Host!RejectSingle
    BY <1>4 DEF Host!RejectSingle, Host!Return, Host!ElemInStruct, Host!SizeOfCurrent,
       Host!is_ptr_valid, Host!SingleStart, P!RejectSingle, P!Return,
       P!ElemInStruct, P!SizeOfCurrent, P!is_ptr_valid, P!SingleStart
  <2> QED  BY <2>1 DEF Host!PackStep
<1>5. CASE P!SingleOverflow
  <2>1. Host!SingleOverflow
    BY <1>5 DEF Host!SingleOverflow, Host!Return, Host!ElemInStruct,
       Host!SizeOfCurrent, Host!is_ptr_valid, Host!SingleStart,
       Host!SingleType, Host!InitSingle, Host!FitsBuffer, Host!SingleData,
       P!SingleOverflow, P!Return, P!ElemInStruct, P!SizeOfCurrent,
       P!is_ptr_valid, P!SingleStart, P!SingleType, P!InitSingle,
       P!FitsBuffer, P!SingleData
  <2> QED  BY <2>1 DEF Host!PackStep
<1>6. CASE P!PackSingle
  <2>1. Host!PackSingle
    BY <1>6 DEF Host!PackSingle, Host!ElemInStruct, Host!SizeOfCurrent,
       Host!is_ptr_valid, Host!SingleStart, Host!SingleType, Host!InitSingle,
       Host!FitsBuffer, Host!SingleData, Host!Advance, P!PackSingle,
       P!ElemInStruct, P!SizeOfCurrent, P!is_ptr_valid, P!SingleStart,
       P!SingleType, P!InitSingle, P!FitsBuffer, P!SingleData, P!Advance
  <2> QED  BY <2>1 DEF Host!PackStep
<1>7. CASE P!ContOverflow
  <2>1. Host!ContOverflow
    BY <1>7 DEF Host!ContOverflow, Host!Return, Host!ElemInStruct, Host!SizeOfCurrent,
       Host!is_ptr_valid, Host!FitsBuffer, Host!ContData, Host!GrownTuple,
       Host!TopOfGrown, P!ContOverflow, P!Return, P!ElemInStruct,
       P!SizeOfCurrent, P!is_ptr_valid, P!FitsBuffer, P!ContData,
       P!GrownTuple, P!TopOfGrown
  <2> QED  BY <2>1 DEF Host!PackStep
<1>8. CASE P!PackCont
  <2>1. Host!PackCont
    BY <1>8 DEF Host!PackCont, Host!Advance, Host!ElemInStruct, Host!SizeOfCurrent,
       Host!is_ptr_valid, Host!FitsBuffer, Host!ContData, Host!GrownTuple,
       Host!TopOfGrown, P!PackCont, P!Advance, P!ElemInStruct,
       P!SizeOfCurrent, P!is_ptr_valid, P!FitsBuffer, P!ContData,
       P!GrownTuple, P!TopOfGrown
  <2> QED  BY <2>1 DEF Host!PackStep
<1>9. CASE P!complete_header
  <2>1. Host!complete_header
    BY <1>9 DEF Host!complete_header, Host!Return, Host!SizeInWords,
       Host!CountedHeader, Host!SizedHeader, Host!TooBig, P!complete_header,
       P!Return, P!TooBig, P!SizeInWords, P!CountedHeader, P!SizedHeader
  <2> QED  BY <2>1 DEF Host!PackStep
<1> QED
  BY <1>1, <1>2, <1>3, <1>4, <1>5, <1>6, <1>7, <1>8, <1>9 DEF P!PackStep

(* The packer of every request.                                            *)
LEMMA HostTypes ==
  /\ Host!U16 = U16 /\ Host!Desc = Desc
  /\ \A d : Host!Elems(d) = Elems(d)
  /\ \A e : Host!elem_get_data_size(e) = elem_get_data_size(e)
<1>1. Host!U16 = U16
  BY DEF Host!U16, U16
<1>2. Host!Desc = Desc
  BY <1>1 DEF Host!Desc, Desc, Host!Elem, Elem, Host!DataTypes, DataTypes,
     Host!HalfWordTypes, HalfWordTypes, Host!WordTypes, WordTypes,
     Host!LongTypes, LongTypes, Host!SizedTypes, SizedTypes
<1>3. /\ \A d : Host!Elems(d) = Elems(d)
      /\ \A e : Host!elem_get_data_size(e) = elem_get_data_size(e)
  BY DEF Host!Elems, Elems, Host!elem_get_data_size, elem_get_data_size,
     Host!HalfWordTypes, HalfWordTypes, Host!WordTypes, WordTypes,
     Host!LongTypes, LongTypes
<1> QED  BY <1>1, <1>2, <1>3

(* The elements of the host's requests lie on even bytes, and are words or *)
(* half-words.                                                             *)
LEMMA HostElems ==
  /\ \A e \in Host!AllElems : /\ e \in Elem /\ elem_get_data_size(e) \in {2, 4}
                              /\ e.offset \in Nat /\ e.offset % 2 = 0 /\ e.offset <= 36
  /\ NULL \notin Host!AllElems
<1>1. PICK layout, limits, size : IsTable(HostTables, layout, limits, size)
  BY HostIsTable
<1>2. ASSUME NEW e \in Host!AllElems
      PROVE  /\ e \in Elem /\ elem_get_data_size(e) \in {2, 4}
             /\ e.offset \in Nat /\ e.offset % 2 = 0 /\ e.offset <= 36
  <2>1. PICK key \in DOMAIN HostTables : e \in Elems(HostTables[key])
    BY HostTypes DEF Host!AllElems
  <2>2. /\ e \in Elem /\ elem_get_data_size(e) \in {2, 4}
        /\ e.offset \in Nat /\ e.offset % 2 = 0
        /\ e.offset + elem_get_data_size(e) <= 36
    BY <1>1, <2>1, TableElems
  <2> QED  BY <2>2
<1> QED  BY <1>2, NullAssumption

(* What IpctPack assumes of its constants is so for the host.              *)
LEMMA HostAssumptions ==
  /\ Host!RegistryAssumption /\ Host!EvenAssumption /\ Host!CallAssumption
  /\ Host!MemoryAssumption /\ Host!LimitAssumption
<1>1. Host!RegistryAssumption
  <2>1. PICK layout, limits, size : IsTable(HostTables, layout, limits, size)
    BY HostIsTable
  <2> QED
    BY <2>1, TableElems, HostTypes, HostElems DEF Host!RegistryAssumption
<1>2. Host!EvenAssumption
  BY HostElems, HostTypes DEF Host!EvenAssumption
<1>3. Host!CallAssumption
  <2>1. \A r \in RequestNames : RequestId(r) \in Nat /\ StructureSize(r) \in Nat
    BY RequestNumbers DEF RequestNames, Requests
  <2>2. ASSUME NEW r \in RequestNames, NEW e \in Host!AllElems,
               NEW k \in 0 .. (Host!elem_get_data_size(e) \div 2) - 1
        PROVE  Structure(r)[e.offset][k] \in Host!U16
    <3>1. k \in 0 .. 1
      BY HostElems, HostTypes
    <3>2. e.offset \in Nat /\ e.offset % 2 = 0 /\ e.offset <= 38
      BY HostElems
    <3> QED  BY <3>1, <3>2, SourceCells, HostTypes
  <2> QED  BY <2>1, <2>2 DEF Host!CallAssumption
<1>4. Host!MemoryAssumption
  BY ZeroedMailbox, HostTypes
  DEF Host!MemoryAssumption, Host!Memory, Zeroed, Cells, MAILBOX_SIZE
<1>5. Host!LimitAssumption
  BY DEF Host!LimitAssumption
<1> QED  BY <1>1, <1>2, <1>3, <1>4, <1>5

(* The host counts its requests.                                           *)
LEMMA Counted == Spec => [](at \in Nat \ {0})
<1>1. Init => at \in Nat \ {0}
  BY DEF Init
<1>2. at \in Nat \ {0} /\ [Next]_vars => (at \in Nat \ {0})'
  BY DEF Next, vars, MakeRequest, Pack, GiveUp, test_send_ipc_to_fw, Unpack,
     NextRequest, Requests
<1> QED  BY <1>1, <1>2, PTL DEF Spec

(* While the program runs it is at one of its four requests.               *)
LEMMA FourRequests ==
  ASSUME at \in Nat \ {0}, ~ Over
  PROVE  at \in 1 .. 4 /\ Request \in RequestNames
<1>1. Len(Requests) = 4 /\ DOMAIN Requests = 1 .. 4
  BY DEF Requests
<1>2. at \in 1 .. 4
  BY <1>1 DEF Over
<1> QED  BY <1>1, <1>2 DEF Request, RequestNames

(* What follows the packing leaves the mailbox and the packer as they are. *)
LEMMA FirmwareReads ==
  ASSUME GiveUp \/ test_send_ipc_to_fw \/ Unpack
  PROVE  UNCHANGED <<mem, packer>>
<1>1. CASE GiveUp
  BY <1>1 DEF GiveUp
<1>2. CASE test_send_ipc_to_fw
  BY <1>2 DEF test_send_ipc_to_fw, U!ipct_msg_unpack
<1>3. CASE Unpack
  BY <1>3, UnpackReads DEF Unpack
<1> QED  BY <1>1, <1>2, <1>3

(* The program is a client of the packer that makes its four requests: what*)
(* is proved of the packer, whatever it is called with, holds of it.       *)
THEOREM StreamPacks == Spec => Host!Spec
<1>1. Init => Host!Init
  BY DEF Init, P!Init, Host!Init
<1>2. at \in Nat \ {0} /\ [Next]_vars => [Host!Next]_(Host!vars)
  <2> SUFFICES ASSUME at \in Nat \ {0}, [Next]_vars
               PROVE  [Host!Next]_(Host!vars)
    OBVIOUS
  <2>1. CASE MakeRequest
    <3>1. Request \in RequestNames
      BY <2>1, FourRequests DEF MakeRequest
    <3>2. Host!ipct_msg_pack(RequestId(Request), Structure(Request),
                             StructureSize(Request), MAILBOX_SIZE)
      BY <2>1 DEF MakeRequest, P!ipct_msg_pack, Host!ipct_msg_pack
    <3> QED  BY <3>1, <3>2 DEF Host!Next, Host!Client
  <2>2. CASE Pack
    BY <2>2, HostPacks DEF Pack, Host!Next
  <2>3. CASE GiveUp \/ test_send_ipc_to_fw \/ Unpack
    BY <2>3, FirmwareReads DEF packer, Host!vars
  <2>4. CASE NextRequest
    <3>1. Host!Collect
      BY <2>4 DEF NextRequest, P!Collect, Host!Collect
    <3> QED  BY <3>1 DEF Host!Next, Host!Client
  <2>5. CASE UNCHANGED vars
    BY <2>5 DEF vars, packer, Host!vars
  <2> QED  BY <2>1, <2>2, <2>3, <2>4, <2>5 DEF Next
<1> QED  BY <1>1, <1>2, Counted, PTL DEF Spec, Host!Spec

(* The packer's variables stay in their ranges.                            *)
LEMMA PackerTypes == Spec => []P!TypeOK
<1>1. Host!Spec => []Host!TypeOK
  BY HostAssumptions, Host!TypeCorrect
<1>2. Host!TypeOK => P!TypeOK
  <2>1. /\ P!U16 = Host!U16 /\ P!Desc = Host!Desc
        /\ \A d : P!Elems(d) = Host!Elems(d)
    BY DEF P!U16, Host!U16, P!Desc, Host!Desc, P!Elem, Host!Elem,
       P!DataTypes, Host!DataTypes, P!HalfWordTypes, Host!HalfWordTypes,
       P!WordTypes, Host!WordTypes, P!LongTypes, Host!LongTypes,
       P!SizedTypes, Host!SizedTypes, P!Elems, Host!Elems
  <2> QED
    BY <2>1 DEF P!TypeOK, Host!TypeOK, P!Memory, Host!Memory, P!Context,
       Host!Context, P!Placement, Host!Placement
<1> QED  BY <1>1, <1>2, StreamPacks, PTL

(* The inductive invariant of the program always holds.                    *)
LEMMA StreamInvariant == Spec => []StreamInv
<1>1. P!TypeOK /\ P!TypeOK' /\ StreamInv /\ [Next]_vars => StreamInv'
  <2> SUFFICES ASSUME P!TypeOK, P!TypeOK', StreamInv, [Next]_vars
               PROVE  StreamInv'
    OBVIOUS
  <2>1. CASE UNCHANGED vars
    BY <2>1 DEF vars, packer, unpacker, StreamInv, Sequenced, TriggerPacked,
       TriggerRefused, TriggerFrame, UnpackerIdle, U!tuple_data_count,
       U!TupleType, U!Half, U!Count
  <2> QED
    BY <2>1, SequencedMakes, SequencedPacks, SequencedSends, SequencedUnpacks,
       SequencedEnds DEF Next
<1> QED  BY <1>1, StreamStarts, PackerTypes, PTL DEF Spec

-----------------------------------------------------------------------------
(***************************************************************************)
(* The first request is a transfer: the program as the pair of IpctPair.   *)
(***************************************************************************)
(* The first request is a transfer of its own: what the variables are as   *)
(* long as the host is at it, and what they are when nothing is under way  *)
(* once it is over. The buffer it unpacks into is longer than the structure*)
(* it is for.                                                              *)
mem1        == IF at = 1 THEN mem ELSE Zeroed
pc1         == IF at = 1 THEN pc ELSE "idle"
ctx1        == IF at = 1 THEN ctx ELSE NULL
action1     == IF at = 1 THEN action ELSE NULL
offset1     == IF at = 1 THEN offset ELSE 0
current1    == IF at = 1 THEN current ELSE NULL
cont1       == IF at = 1 THEN cont ELSE 0
cont_tuple1 == IF at = 1 THEN cont_tuple ELSE 0
tuples1     == IF at = 1 THEN tuples ELSE 0
ret1        == IF at = 1 THEN ret ELSE 0
placed1     == IF at = 1 THEN placed ELSE <<>>
top1        == IF at = 1 THEN top ELSE 0
rx_pc1      == IF at = 1 THEN rx_pc ELSE "idle"
rx_ctx1     == IF at = 1 /\ rx_pc # "idle"
               THEN [src_size  |-> rx_ctx.src_size,
                     dest_size |-> SizeofStreamParams]
               ELSE NULL
struct1     == IF at = 1 THEN struct ELSE NULL
end1        == IF at = 1 THEN end ELSE 0
frames1     == IF at = 1 THEN frames ELSE <<>>
item1       == IF at = 1 THEN item ELSE 0
rx_ret1     == IF at = 1 THEN rx_ret ELSE 0
before1     == IF at = 1 THEN before ELSE NULL
stored1     == IF at = 1 THEN stored ELSE <<>>

First == INSTANCE IpctArrivalProofs WITH
       Registry <- HostTables, ReceiverRegistry <- FirmwareRegistry,
       Ids <- {RequestId("params")}, Sources <- {Structure("params")},
       SrcSizes <- {StructureSize("params")}, DestSizes <- {MAILBOX_SIZE},
       InitialMailboxes <- {Zeroed}, ReuseDest <- FALSE, SizeLimit <- 16777216,
       Structs <- Leftovers, StructCells <- IPC_MAX_MSG_SIZE \div 2,
       mem <- mem1, pc <- pc1, ctx <- ctx1,
       action <- action1, offset <- offset1,
       current <- current1, cont <- cont1,
       cont_tuple <- cont_tuple1, tuples <- tuples1,
       ret <- ret1, placed <- placed1, top <- top1,
       rx_pc <- rx_pc1, rx_ctx <- rx_ctx1,
       struct <- struct1, end <- end1,
       frames <- frames1, item <- item1,
       rx_ret <- rx_ret1, before <- before1, stored <- stored1

(* The accessors of the tuple ABI are the same operators in each instance. *)
LEMMA FirstTuples ==
  /\ \A m, t : First!TupleType(m, t) = P!TupleType(m, t)
  /\ \A m, t : First!tuple_size(m, t) = P!tuple_size(m, t)
  /\ \A m, t : First!tuple_data_size(m, t) = P!tuple_data_size(m, t)
  /\ \A m, t : First!TupleInitOk(m, t) = P!TupleInitOk(m, t)
  /\ \A m, t : First!TupleInitExtent(m, t) = P!TupleInitExtent(m, t)
  /\ \A m, t : First!tuple_inc_elems(m, t) = P!tuple_inc_elems(m, t)
  /\ \A m, t : First!SizeIncrease(m, t) = P!SizeIncrease(m, t)
  /\ \A m, t, i : First!tuple_get_data(m, t, i) = P!tuple_get_data(m, t, i)
  /\ \A m, a, v, n : First!CopyIn(m, a, v, n) = P!CopyIn(m, a, v, n)
  /\ \A m, t, v : First!Store(m, t, v) = P!Store(m, t, v)
  /\ \A m, t : First!Half(m, t) = P!Half(m, t)
  /\ \A m, t, y, i, n : First!tuple_init(m, t, y, i, n) = P!tuple_init(m, t, y, i, n)
BY DEF First!STD, First!HD, First!STD_ARRAY, First!HD_ARRAY, First!VAR_ARRAY,
       First!TUPLE_ARRAY, First!SizeofStd, First!SizeofMicro, First!SizeofVar,
       First!VarData, First!Half, First!Store, First!CopyIn, First!TupleType,
       First!TupleId, First!Count, First!ElemBytes, First!TupleWord,
       First!tuple_size, First!tuple_data_size, First!tuple_data_count,
       First!tuple_get_data, First!ipc_next_tuple, First!TupleInitOk,
       First!tuple_init, First!TupleInitExtent, First!tuple_inc_elems,
       First!SizeIncrease, P!STD, P!HD, P!STD_ARRAY, P!HD_ARRAY, P!VAR_ARRAY,
       P!TUPLE_ARRAY, P!SizeofStd, P!SizeofMicro, P!SizeofVar, P!VarData,
       P!Half, P!Store, P!CopyIn, P!TupleType, P!TupleId, P!Count,
       P!ElemBytes, P!TupleWord, P!tuple_size, P!tuple_data_size,
       P!tuple_data_count, P!tuple_get_data, P!ipc_next_tuple, P!TupleInitOk,
       P!tuple_init, P!TupleInitExtent, P!tuple_inc_elems, P!SizeIncrease

(* So are the header's fields, and the lookup of an action in the same     *)
(* tables ...                                                              *)
LEMMA FirstHeader ==
  /\ First!SizeofHdr = P!SizeofHdr
  /\ First!SizeofElems = P!SizeofElems
  /\ First!EINVAL = P!EINVAL
  /\ First!STD = P!STD
  /\ First!HD = P!HD
  /\ \A m : First!HdrSize(m) = P!HdrSize(m)
  /\ \A m : First!ElemsPtr(m) = P!ElemsPtr(m)
  /\ \A m, i : First!init_header(m, i) = P!init_header(m, i)
  /\ \A i : First!get_action_def(i) = P!get_action_def(i)
BY DEF First!SizeofHdr, First!SizeofElems, First!SizeofRoute, First!RouteBit,
       First!ElemsBit, First!HasRoute, First!HasElems, First!RouteAdd,
       First!ElemsAdd, First!ElemsPtr, First!HdrSize, First!Half,
       First!IdKlass, First!IdSubklass, First!IdAction, First!Store,
       First!get_action_def, First!EINVAL, First!init_header, First!STD,
       First!HD, P!SizeofHdr, P!SizeofElems, P!SizeofRoute, P!RouteBit,
       P!ElemsBit, P!HasRoute, P!HasElems, P!RouteAdd, P!ElemsAdd, P!ElemsPtr,
       P!HdrSize, P!Half, P!IdKlass, P!IdSubklass, P!IdAction, P!Store,
       P!get_action_def, P!EINVAL, P!init_header, P!STD, P!HD

(* ... and the walk over the elements of one.                              *)
LEMMA FirstWalk ==
  /\ \A d : First!get_first_elem(d) = P!get_first_elem(d)
  /\ \A d : First!Elems(d) = P!Elems(d)
  /\ \A d, e : First!get_next_elem(d, e) = P!get_next_elem(d, e)
  /\ \A e, f : First!IsContinuous(e, f) = P!IsContinuous(e, f)
  /\ \A e, f : First!MaxOf(e, f) = P!MaxOf(e, f)
  /\ \A y : First!ipct_get_type(y) = P!ipct_get_type(y)
  /\ \A e : First!elem_get_data_size(e) = P!elem_get_data_size(e)
  /\ \A e : First!Align(e) = P!Align(e)
BY DEF First!HalfWordTypes, First!WordTypes, First!LongTypes, First!Elems,
       First!ipct_get_type, First!elem_get_data_size, First!HD, First!STD,
       First!Lowest, First!LowestOrNull, First!get_first_elem,
       First!get_next_elem, First!IsContinuous, First!IPCT_TUPLE_MAX_ID,
       First!Align, First!MaxOf, P!HalfWordTypes, P!WordTypes, P!LongTypes,
       P!Elems, P!ipct_get_type, P!elem_get_data_size, P!HD, P!STD, P!Lowest,
       P!LowestOrNull, P!get_first_elem, P!get_next_elem, P!IsContinuous,
       P!IPCT_TUPLE_MAX_ID, P!Align, P!MaxOf

(* At the first request the transfer's variables are the program's.        *)
LEMMA SamePacker ==
  ASSUME at = 1
  PROVE  /\ mem1 = mem
         /\ pc1 = pc
         /\ ctx1 = ctx
         /\ action1 = action
         /\ offset1 = offset
         /\ current1 = current
         /\ cont1 = cont
         /\ cont_tuple1 = cont_tuple
         /\ tuples1 = tuples
         /\ ret1 = ret
         /\ placed1 = placed
         /\ top1 = top
BY DEF mem1, pc1, ctx1, action1, offset1, current1, cont1, cont_tuple1,
       tuples1, ret1, placed1, top1

(* In the first request the sender's variables are the program's, after a  *)
(* step as well.                                                           *)
LEMMA SamePackerNext ==
  ASSUME at' = 1
  PROVE  /\ mem1' = mem'
         /\ pc1' = pc'
         /\ ctx1' = ctx'
         /\ action1' = action'
         /\ offset1' = offset'
         /\ current1' = current'
         /\ cont1' = cont'
         /\ cont_tuple1' = cont_tuple'
         /\ tuples1' = tuples'
         /\ ret1' = ret'
         /\ placed1' = placed'
         /\ top1' = top'
BY DEF mem1, pc1, ctx1, action1, offset1, current1, cont1, cont_tuple1,
       tuples1, ret1, placed1, top1

(* A step of the packer is one of it in either instance.                   *)
LEMMA FirstPacks ==
  ASSUME at = 1, at' = 1, P!PackStep
  PROVE  First!PackStep
<1> USE SamePacker, SamePackerNext, FirstTuples, FirstWalk, FirstHeader
<1>1. CASE P!BadCall
  <2>1. First!BadCall
    BY <1>1 DEF First!BadCall, First!Return, P!BadCall, P!Return
  <2> QED  BY <2>1 DEF First!PackStep
<1>2. CASE P!BeginPack
  <2>1. First!BeginPack
    BY <1>2 DEF First!BeginPack, First!Return, P!BeginPack, P!Return
  <2> QED  BY <2>1 DEF First!PackStep
<1>3. CASE P!RejectElem
  <2>1. First!RejectElem
    BY <1>3 DEF First!RejectElem, First!Return, First!ElemInStruct,
       First!SizeOfCurrent, P!RejectElem, P!Return, P!ElemInStruct,
       P!SizeOfCurrent
  <2> QED  BY <2>1 DEF First!PackStep
<1>4. CASE P!RejectSingle
  <2>1. First!RejectSingle
    BY <1>4 DEF First!RejectSingle, First!Return, First!ElemInStruct,
       First!SizeOfCurrent, First!is_ptr_valid, First!SingleStart,
       P!RejectSingle, P!Return, P!ElemInStruct, P!SizeOfCurrent,
       P!is_ptr_valid, P!SingleStart
  <2> QED  BY <2>1 DEF First!PackStep
<1>5. CASE P!SingleOverflow
  <2>1. First!SingleOverflow
    BY <1>5 DEF First!SingleOverflow, First!Return, First!ElemInStruct,
       First!SizeOfCurrent, First!is_ptr_valid, First!SingleStart,
       First!SingleType, First!InitSingle, First!FitsBuffer, First!SingleData,
       P!SingleOverflow, P!Return, P!ElemInStruct, P!SizeOfCurrent,
       P!is_ptr_valid, P!SingleStart, P!SingleType, P!InitSingle,
       P!FitsBuffer, P!SingleData
  <2> QED  BY <2>1 DEF First!PackStep
<1>6. CASE P!PackSingle
  <2>1. First!PackSingle
    BY <1>6 DEF First!PackSingle, First!ElemInStruct, First!SizeOfCurrent,
       First!is_ptr_valid, First!SingleStart, First!SingleType,
       First!InitSingle, First!FitsBuffer, First!SingleData, First!Advance,
       P!PackSingle, P!ElemInStruct, P!SizeOfCurrent, P!is_ptr_valid,
       P!SingleStart, P!SingleType, P!InitSingle, P!FitsBuffer, P!SingleData,
       P!Advance
  <2> QED  BY <2>1 DEF First!PackStep
<1>7. CASE P!ContOverflow
  <2>1. First!ContOverflow
    BY <1>7 DEF First!ContOverflow, First!Return, First!ElemInStruct,
       First!SizeOfCurrent, First!is_ptr_valid, First!FitsBuffer,
       First!ContData, First!GrownTuple, First!TopOfGrown, P!ContOverflow,
       P!Return, P!ElemInStruct, P!SizeOfCurrent, P!is_ptr_valid,
       P!FitsBuffer, P!ContData, P!GrownTuple, P!TopOfGrown
  <2> QED  BY <2>1 DEF First!PackStep
<1>8. CASE P!PackCont
  <2>1. First!PackCont
    BY <1>8 DEF First!PackCont, First!Advance, First!ElemInStruct, First!SizeOfCurrent,
       First!is_ptr_valid, First!FitsBuffer, First!ContData, First!GrownTuple,
       First!TopOfGrown, P!PackCont, P!Advance, P!ElemInStruct,
       P!SizeOfCurrent, P!is_ptr_valid, P!FitsBuffer, P!ContData,
       P!GrownTuple, P!TopOfGrown
  <2> QED  BY <2>1 DEF First!PackStep
<1>9. CASE P!complete_header
  <2>1. First!complete_header
    BY <1>9 DEF First!complete_header, First!Return, First!SizeInWords,
       First!CountedHeader, First!SizedHeader, First!TooBig, P!complete_header,
       P!Return, P!TooBig, P!SizeInWords, P!CountedHeader, P!SizedHeader
  <2> QED  BY <2>1 DEF First!PackStep
<1> QED
  BY <1>1, <1>2, <1>3, <1>4, <1>5, <1>6, <1>7, <1>8, <1>9 DEF P!PackStep

(* The receiver's instances agree likewise.                                *)
LEMMA ReceiverTuples ==
  /\ \A m, t : First!U!TupleType(m, t) = U!TupleType(m, t)
  /\ \A m, t : First!U!tuple_size(m, t) = U!tuple_size(m, t)
  /\ \A m, t : First!U!tuple_data_size(m, t) = U!tuple_data_size(m, t)
  /\ \A m, t : First!U!tuple_data_count(m, t) = U!tuple_data_count(m, t)
  /\ \A m, t : First!U!ipc_next_tuple(m, t) = U!ipc_next_tuple(m, t)
  /\ \A m, t : First!U!Half(m, t) = U!Half(m, t)
  /\ \A m, t, i : First!U!tuple_get_data(m, t, i) = U!tuple_get_data(m, t, i)
  /\ First!U!VarData = U!VarData
  /\ First!U!TUPLE_ARRAY = U!TUPLE_ARRAY
BY DEF First!U!STD, First!U!HD, First!U!STD_ARRAY, First!U!HD_ARRAY,
       First!U!VAR_ARRAY, First!U!TUPLE_ARRAY, First!U!SizeofStd,
       First!U!SizeofMicro, First!U!SizeofVar, First!U!VarData, First!U!Half,
       First!U!TupleType, First!U!TupleId, First!U!Count, First!U!ElemBytes,
       First!U!tuple_size, First!U!tuple_data_size, First!U!tuple_data_count,
       First!U!tuple_get_data, First!U!ipc_next_tuple, U!STD, U!HD,
       U!STD_ARRAY, U!HD_ARRAY, U!VAR_ARRAY, U!TUPLE_ARRAY, U!SizeofStd,
       U!SizeofMicro, U!SizeofVar, U!VarData, U!Half, U!TupleType, U!TupleId,
       U!Count, U!ElemBytes, U!tuple_size, U!tuple_data_size,
       U!tuple_data_count, U!tuple_get_data, U!ipc_next_tuple

(* The receiver of the first request reads headers as the program does,    *)
LEMMA ReceiverHeader ==
  /\ First!U!EINVAL = U!EINVAL
  /\ \A m : First!U!HdrSize(m) = U!HdrSize(m)
  /\ \A m : First!U!HasElems(m) = U!HasElems(m)
  /\ \A m : First!U!ElemsPtr(m) = U!ElemsPtr(m)
  /\ \A m : First!U!ipct_get_tuples(m) = U!ipct_get_tuples(m)
  /\ \A m : First!U!ipct_get_size(m) = U!ipct_get_size(m)
  /\ \A i : First!U!get_action_def(i) = U!get_action_def(i)
BY DEF First!U!SizeofHdr, First!U!SizeofElems, First!U!SizeofRoute,
       First!U!RouteBit, First!U!ElemsBit, First!U!HasRoute, First!U!HasElems,
       First!U!RouteAdd, First!U!ElemsAdd, First!U!ElemsPtr, First!U!HdrSize,
       First!U!Half, First!U!IdKlass, First!U!IdSubklass, First!U!IdAction,
       First!U!get_action_def, First!U!EINVAL, First!U!ipct_get_tuples,
       First!U!ipct_get_size, U!SizeofHdr, U!SizeofElems, U!SizeofRoute,
       U!RouteBit, U!ElemsBit, U!HasRoute, U!HasElems, U!RouteAdd, U!ElemsAdd,
       U!ElemsPtr, U!HdrSize, U!Half, U!IdKlass, U!IdSubklass, U!IdAction,
       U!get_action_def, U!EINVAL, U!ipct_get_tuples, U!ipct_get_size

(* and elements.                                                           *)
LEMMA ReceiverElems ==
  /\ \A e : First!U!CellsOf(e) = U!CellsOf(e)
  /\ \A e : First!U!elem_get_data_size(e) = U!elem_get_data_size(e)
  /\ \A e, c : First!U!ValueOk(e, c) = U!ValueOk(e, c)
  /\ \A e, c, o, k : First!U!StoredCell(e, c, o, k) = U!StoredCell(e, c, o, k)
  /\ \A d, m, t, i : First!U!get_tuple_elem(d, m, t, i) = U!get_tuple_elem(d, m, t, i)
BY DEF First!U!CellsOf, First!U!ValueOk, First!U!StoredCell,
       First!U!elem_get_data_size, First!U!HalfWordTypes, First!U!WordTypes,
       First!U!LongTypes, First!U!SizedTypes, First!U!MaskTypes,
       First!U!SignedTypes, First!U!FloatTypes, First!U!BlockTypes,
       First!U!ByteTypes, First!U!ValueCell, First!U!Biased, First!U!Less,
       First!U!AsInt8, First!U!Bit, First!U!ByteInRange, First!U!IntInRange,
       First!U!InMask, First!U!Elems, First!U!get_tuple_elem, First!U!TupleId,
       First!U!Half, U!CellsOf, U!ValueOk, U!StoredCell, U!elem_get_data_size,
       U!HalfWordTypes, U!WordTypes, U!LongTypes, U!SizedTypes, U!MaskTypes,
       U!SignedTypes, U!FloatTypes, U!BlockTypes, U!ByteTypes, U!ValueCell,
       U!Biased, U!Less, U!AsInt8, U!Bit, U!ByteInRange, U!IntInRange,
       U!InMask, U!Elems, U!get_tuple_elem, U!TupleId, U!Half

(* In the first request the receiver's variables are the program's,        *)
LEMMA SameReceiver ==
  ASSUME at = 1
  PROVE  /\ rx_pc1 = rx_pc
         /\ struct1 = struct
         /\ end1 = end
         /\ frames1 = frames
         /\ item1 = item
         /\ rx_ret1 = rx_ret
         /\ before1 = before
         /\ stored1 = stored
         /\ rx_pc # "idle" => rx_ctx1.src_size = rx_ctx.src_size
BY DEF rx_pc1, struct1, end1, frames1, item1, rx_ret1, before1, stored1,
       rx_ctx1

(* after a step as well,                                                   *)
LEMMA SameReceiverNext ==
  ASSUME at' = 1
  PROVE  /\ rx_pc1' = rx_pc'
         /\ struct1' = struct'
         /\ end1' = end'
         /\ frames1' = frames'
         /\ item1' = item'
         /\ rx_ret1' = rx_ret'
         /\ before1' = before'
         /\ stored1' = stored'
BY DEF rx_pc1, struct1, end1, frames1, item1, rx_ret1, before1, stored1

(* and so are its cursor,                                                  *)
LEMMA SameCursor ==
  ASSUME at = 1
  PROVE  /\ First!U!Current = U!Current
         /\ First!U!tuple = U!tuple
         /\ First!U!More = U!More
         /\ First!U!TupleInMessage = U!TupleInMessage
         /\ First!U!HasData = U!HasData
         /\ First!U!action_def = U!action_def
         /\ First!U!ElemAt = U!ElemAt
         /\ First!U!DataAt = U!DataAt
         /\ First!U!HeaderOk = U!HeaderOk
         /\ \A s : First!U!NextTuple(s) = U!NextTuple(s)
BY SamePacker, SameReceiver, ReceiverTuples, ReceiverHeader, ReceiverElems
   DEF First!U!Current, First!U!tuple, First!U!More, First!U!TupleInMessage,
       First!U!HasData, First!U!action_def, First!U!ElemAt, First!U!DataAt,
       First!U!HeaderOk, First!U!TooSmall, First!U!NextTuple, U!Current,
       U!tuple, U!More, U!TupleInMessage, U!HasData, U!action_def, U!ElemAt,
       U!DataAt, U!HeaderOk, U!TooSmall, U!NextTuple

(* the datum it is at,                                                     *)
LEMMA SameDatum ==
  ASSUME at = 1
  PROVE  First!U!Datum = U!Datum
BY SamePacker, SameCursor, ReceiverTuples, ReceiverElems
   DEF First!U!Datum, U!Datum

(* and the structure with that datum stored.                               *)
LEMMA SameInserted ==
  ASSUME at = 1
  PROVE  First!U!Inserted = U!Inserted
BY SamePacker, SameReceiver, SameCursor, SameDatum, ReceiverElems
   DEF First!U!Inserted, U!Inserted

(* The checks look at the message's size, not at the structure's.          *)
LEMMA SameCheck ==
  ASSUME at = 1, rx_pc # "idle"
  PROVE  First!U!CanInsert = U!CanInsert
BY SamePacker, SameReceiver, SameCursor, SameDatum, ReceiverElems, ReceiverTuples
   DEF First!U!CanInsert, U!CanInsert, First!U!Insertable, U!Insertable

(* A step of the unpacker is one of the transfer's.                        *)
LEMMA FirstUnpacks ==
  ASSUME at = 1, at' = 1, U!UnpackStep
  PROVE  First!U!UnpackStep
<1>1. rx_pc # "idle" /\ rx_pc' # "idle" /\ rx_ctx' = rx_ctx
  BY DEF U!UnpackStep, U!RejectHeader, U!AcceptHeader, U!RejectTuple, U!Nest,
         U!TooDeep, U!Leave, U!NoData, U!BeginTuple, U!IgnoreRest,
         U!RejectItem, U!InsertItem, U!Return
<1>2. rx_ctx1' = rx_ctx1
  BY <1>1 DEF rx_ctx1
<1> USE SamePacker, SamePackerNext, SameReceiver, SameReceiverNext, SameCursor,
        SameInserted, SameCheck, ReceiverTuples, ReceiverHeader, ReceiverElems
<1>3. CASE U!RejectHeader
  <2>1. First!U!RejectHeader
    BY <1>1, <1>2, <1>3 DEF First!U!RejectHeader, First!U!Return, First!U!Frame, U!RejectHeader,
       U!Return, U!Frame
  <2> QED  BY <2>1 DEF First!U!UnpackStep
<1>4. CASE U!AcceptHeader
  <2>1. First!U!AcceptHeader
    BY <1>1, <1>2, <1>4 DEF First!U!AcceptHeader, First!U!Return, First!U!Frame, U!AcceptHeader,
       U!Return, U!Frame
  <2> QED  BY <2>1 DEF First!U!UnpackStep
<1>5. CASE U!RejectTuple
  <2>1. First!U!RejectTuple
    BY <1>1, <1>2, <1>5 DEF First!U!RejectTuple, First!U!Return, First!U!Frame, U!RejectTuple,
       U!Return, U!Frame
  <2> QED  BY <2>1 DEF First!U!UnpackStep
<1>6. CASE U!Nest
  <2>1. First!U!Nest
    BY <1>1, <1>2, <1>6 DEF First!U!Nest, First!U!Return, First!U!Frame, U!Nest, U!Return, U!Frame
  <2> QED  BY <2>1 DEF First!U!UnpackStep
<1>7. CASE U!TooDeep
  <2>1. First!U!TooDeep
    BY <1>1, <1>2, <1>7 DEF First!U!TooDeep, First!U!Return, First!U!Frame, U!TooDeep, U!Return,
       U!Frame
  <2> QED  BY <2>1 DEF First!U!UnpackStep
<1>8. CASE U!Leave
  <2>1. First!U!Leave
    BY <1>1, <1>2, <1>8 DEF First!U!Leave, First!U!Return, First!U!Frame, U!Leave, U!Return,
       U!Frame
  <2> QED  BY <2>1 DEF First!U!UnpackStep
<1>9. CASE U!NoData
  <2>1. First!U!NoData
    BY <1>1, <1>2, <1>9 DEF First!U!NoData, First!U!Return, First!U!Frame, U!NoData, U!Return,
       U!Frame
  <2> QED  BY <2>1 DEF First!U!UnpackStep
<1>10. CASE U!BeginTuple
  <2>1. First!U!BeginTuple
    BY <1>1, <1>2, <1>10 DEF First!U!BeginTuple, First!U!Return, First!U!Frame, U!BeginTuple,
       U!Return, U!Frame
  <2> QED  BY <2>1 DEF First!U!UnpackStep
<1>11. CASE U!IgnoreRest
  <2>1. First!U!IgnoreRest
    BY <1>1, <1>2, <1>11 DEF First!U!IgnoreRest, First!U!Return, First!U!Frame, U!IgnoreRest,
       U!Return, U!Frame
  <2> QED  BY <2>1 DEF First!U!UnpackStep
<1>12. CASE U!RejectItem
  <2>1. First!U!RejectItem
    BY <1>1, <1>2, <1>12 DEF First!U!RejectItem, First!U!Return, First!U!Frame, U!RejectItem,
       U!Return, U!Frame
  <2> QED  BY <2>1 DEF First!U!UnpackStep
<1>13. CASE U!InsertItem
  <2>1. First!U!InsertItem
    BY <1>1, <1>2, <1>13 DEF First!U!InsertItem, First!U!Return, First!U!Frame, U!InsertItem,
       U!Return, U!Frame
  <2> QED  BY <2>1 DEF First!U!UnpackStep
<1> QED
  BY <1>3, <1>4, <1>5, <1>6, <1>7, <1>8, <1>9, <1>10, <1>11, <1>12, <1>13
  DEF U!UnpackStep

(* The transfer of the first request.                                      *)
LEMMA FirstTypes ==
  /\ First!U16 = U16 /\ First!Desc = Desc
  /\ First!HalfWordTypes = HalfWordTypes /\ First!WordTypes = WordTypes
  /\ \A d : First!Elems(d) = Elems(d)
  /\ \A e : First!elem_get_data_size(e) = elem_get_data_size(e)
  /\ \A y : First!ipct_get_type(y) = ipct_get_type(y)
<1>1. First!U16 = U16
  BY DEF First!U16, U16
<1>2. First!Desc = Desc
  BY <1>1 DEF First!Desc, Desc, First!Elem, Elem, First!DataTypes, DataTypes,
     First!HalfWordTypes, HalfWordTypes, First!WordTypes, WordTypes,
     First!LongTypes, LongTypes, First!SizedTypes, SizedTypes
<1>3. /\ First!HalfWordTypes = HalfWordTypes /\ First!WordTypes = WordTypes
      /\ \A d : First!Elems(d) = Elems(d)
      /\ \A e : First!elem_get_data_size(e) = elem_get_data_size(e)
      /\ \A y : First!ipct_get_type(y) = ipct_get_type(y)
  BY DEF First!Elems, Elems, First!elem_get_data_size, elem_get_data_size,
     First!HalfWordTypes, HalfWordTypes, First!WordTypes, WordTypes,
     First!LongTypes, LongTypes, First!ipct_get_type, ipct_get_type,
     First!HD, HD, First!STD, STD
<1> QED  BY <1>1, <1>2, <1>3

(* The elements of the first request's two tables lie on even bytes, and   *)
(* are words or half-words.                                                *)
LEMMA FirstElems ==
  /\ \A e \in First!AllElems : /\ e \in Elem /\ elem_get_data_size(e) \in {2, 4}
                               /\ e.offset \in Nat /\ e.offset % 2 = 0 /\ e.offset <= 36
  /\ NULL \notin First!AllElems
<1>1. PICK layout, limits, size : IsTable(HostTables, layout, limits, size)
  BY HostIsTable
<1>2. ASSUME NEW e \in First!AllElems
      PROVE  /\ e \in Elem /\ elem_get_data_size(e) \in {2, 4}
             /\ e.offset \in Nat /\ e.offset % 2 = 0 /\ e.offset <= 36
  <2>1. PICK key \in DOMAIN HostTables : e \in Elems(HostTables[key])
    BY FirstTypes DEF First!AllElems
  <2>2. /\ e \in Elem /\ elem_get_data_size(e) \in {2, 4}
        /\ e.offset \in Nat /\ e.offset % 2 = 0
        /\ e.offset + elem_get_data_size(e) <= 36
    BY <1>1, <2>1, TableElems
  <2> QED  BY <2>2
<1> QED  BY <1>2, NullAssumption

(* What the packer's side of IpctPair assumes is so for the first request. *)
LEMMA FirstAssumptions ==
  /\ First!RegistryAssumption /\ First!EvenAssumption /\ First!CallAssumption
  /\ First!MemoryAssumption /\ First!LimitAssumption
<1>1. First!RegistryAssumption
  <2>1. PICK layout, limits, size : IsTable(HostTables, layout, limits, size)
    BY HostIsTable
  <2> QED
    BY <2>1, TableElems, FirstTypes, FirstElems DEF First!RegistryAssumption
<1>2. First!EvenAssumption
  BY FirstElems, FirstTypes DEF First!EvenAssumption
<1>3. First!CallAssumption
  <2>1. RequestId("params") \in Nat /\ StructureSize("params") \in Nat
    BY RequestNumbers
  <2>2. ASSUME NEW e \in First!AllElems,
               NEW k \in 0 .. (First!elem_get_data_size(e) \div 2) - 1
        PROVE  Structure("params")[e.offset][k] \in First!U16
    <3>1. k \in 0 .. 1
      BY FirstElems, FirstTypes
    <3>2. e.offset \in Nat /\ e.offset % 2 = 0 /\ e.offset <= 38
      BY FirstElems
    <3>3. "params" \in RequestNames
      BY DEF RequestNames, Requests
    <3> QED  BY <3>1, <3>2, <3>3, SourceCells, FirstTypes
  <2> QED  BY <2>1, <2>2 DEF First!CallAssumption
<1>4. First!MemoryAssumption
  BY ZeroedMailbox, FirstTypes
  DEF First!MemoryAssumption, First!Memory, Zeroed, Cells, MAILBOX_SIZE
<1>5. First!LimitAssumption
  BY DEF First!LimitAssumption
<1> QED  BY <1>1, <1>2, <1>3, <1>4, <1>5

(* A set has the same size in every instance.                              *)
LEMMA SameCount == \A S : First!Cardinality(S) = Cardinality(S)
<1> SUFFICES ASSUME NEW S PROVE First!Cardinality(S) = Cardinality(S)
  OBVIOUS
<1> QED  BY DEF First!Cardinality, Cardinality

(* What IpctCompatible measures in a table does not depend on the          *)
(* instance.                                                               *)
LEMMA SameMeasures ==
  /\ \A d : First!PacksAll(d) <=> PacksAll(d)
  /\ \A d : First!WholeWords(d) <=> WholeWords(d)
  /\ \A d, r : First!Compatible(d, r) <=> Compatible(d, r)
  /\ \A d : First!MessageLength(d) = MessageLength(d)
  /\ \A d : First!MemberIds(d) = MemberIds(d)
  /\ \A d, i : First!ElemWith(d, i) = ElemWith(d, i)
<1>1. \A d, e : First!SameTuple(d, e) = SameTuple(d, e)
  BY FirstTypes DEF First!SameTuple, SameTuple
<1>2. \A d : First!Halves(d) = Halves(d)
  BY FirstTypes DEF First!Halves, Halves, First!HD, HD
<1>3. \A d : First!Heads(d) = Heads(d)
  BY <1>1, FirstTypes DEF First!Heads, Heads
<1>4. \A d : First!MessageLength(d) = MessageLength(d)
  BY <1>1, <1>2, <1>3, FirstTypes, SameCount
  DEF First!MessageLength, MessageLength, First!SizeofHdr, SizeofHdr,
      First!SizeofElems, SizeofElems
<1>5. \A d : First!MemberIds(d) = MemberIds(d)
  BY FirstTypes DEF First!MemberIds, MemberIds
<1>6. \A d, i : First!ElemWith(d, i) = ElemWith(d, i)
  BY FirstTypes DEF First!ElemWith, ElemWith
<1>7. \A d : First!PacksAll(d) <=> PacksAll(d)
  BY FirstTypes DEF First!PacksAll, PacksAll, First!IPCT_TUPLE_MAX_ID, IPCT_TUPLE_MAX_ID
<1>8. \A d : First!WholeWords(d) <=> WholeWords(d)
  BY <1>1, <1>2, FirstTypes, SameCount DEF First!WholeWords, WholeWords
<1>9. \A d : First!CountReads(d) <=> CountReads(d)
  BY <1>3, SameCount DEF First!CountReads, CountReads
<1>10. \A d, r : First!MembersMatch(d, r) <=> MembersMatch(d, r)
  BY <1>4, <1>5, <1>6, FirstTypes
  DEF First!MembersMatch, MembersMatch, First!ByteTypes, ByteTypes
<1>11. \A d, r : First!KnowsPrefixes(d, r) <=> KnowsPrefixes(d, r)
  BY <1>1, <1>5, FirstTypes DEF First!KnowsPrefixes, KnowsPrefixes
<1>12. \A d, r : First!Compatible(d, r) <=> Compatible(d, r)
  BY <1>7, <1>8, <1>9, <1>10, <1>11 DEF First!Compatible, Compatible
<1> QED  BY <1>4, <1>5, <1>6, <1>7, <1>8, <1>12

(* The actions of the first request on either side.                        *)
LEMMA FirstAction ==
  /\ First!get_action_def(0) = HostTables[ParamsKey]
  /\ First!Receiving = FirmwareRegistry[ParamsKey]
<1>1. First!get_action_def(0) = HostTables[ParamsKey]
  BY ParamsTables, ParamsKeyIs
  DEF First!get_action_def, First!IdKlass, First!IdSubklass, First!IdAction
<1>2. First!Receiving = FirmwareRegistry[ParamsKey]
  BY ParamsKeyIs DEF First!Receiving
<1> QED  BY <1>1, <1>2

(* The first request has what the theorems on IpctPair ask of a sender, in *)
(* a cleared mailbox and with tables such that a receiver can find the     *)
(* tuples,                                                                 *)
LEMMA FirstSendable == First!Sendable
<1>1. First!FreshBuffers
  <2>1. ASSUME NEW x \in 0 .. 2 * Cells - 1
        PROVE  First!TupleType(Zeroed, x) = First!STD
    <3>1. x \div 2 \in 0 .. Cells - 1
      BY DEF Cells
    <3> QED  BY <3>1 DEF First!TupleType, First!Half, First!STD, Zeroed
  <2> QED  BY <2>1 DEF First!FreshBuffers, First!Untyped
<1>2. First!SizeFits
  BY DEF First!SizeFits
<1>3. ASSUME NEW d, First!Known(d) PROVE PacksAll(d) /\ WholeWords(d)
  <2>1. PICK layout, limits, size : IsTable(HostTables, layout, limits, size)
    BY HostIsTable
  <2>2. d \in {HostTables[ParamsKey], HostTables[TriggerKey]}
    BY <1>3, <2>1 DEF First!Known, IsTable
  <2>3. CASE d = HostTables[ParamsKey]
    BY <2>3, ParamsTables, DeclaresWholeWords
  <2>4. CASE d = HostTables[TriggerKey]
    <3>1. PICK e, f \in Elem :
           /\ Elems(d) = {e, f} /\ d.mandatory = {e, f}
           /\ e.id = 10 /\ e.type \in WordTypes /\ e.offset = 0
           /\ f.id = 11 /\ f.type \in WordTypes /\ f.offset = 4
      BY <2>1, <2>4, TableTrigger
    <3>2. PacksAll(d)
      BY <3>1 DEF PacksAll, IPCT_TUPLE_MAX_ID
    <3>3. ipct_get_type(e.type) # HD /\ ipct_get_type(f.type) # HD
      BY <3>1, KindSizes DEF HD, STD
    <3>4. Halves(d) = {}
      BY <3>1, <3>3 DEF Halves
    <3> QED  BY <3>1, <3>2, <3>4 DEF WholeWords
  <2> QED  BY <2>2, <2>3, <2>4
<1> QED  BY <1>1, <1>2, <1>3, SameMeasures DEF First!Sendable

(* of a call,                                                              *)
LEMMA FirstCallable == First!Callable
<1> DEFINE d == HostTables[ParamsKey]
<1>1. RequestId("params") = 0 /\ StructureSize("params") = 936
  BY RequestNumbers
<1>2. First!get_action_def(0) = d /\ d # NULL
  BY FirstAction, ParamsActions
<1>3. d.size <= 936
  BY ParamsTables
<1>4. \A e \in Elems(d) : e.offset + elem_get_data_size(e) <= 936
  <2>1. PICK layout, limits : Declares(d, layout, limits)
    BY ParamsTables
  <2> HIDE DEF d
  <2>2. ASSUME NEW e \in Elems(d)
        PROVE  e.offset + elem_get_data_size(e) <= 936
    <3>1. /\ e.offset \in Nat /\ elem_get_data_size(e) \in {2, 4}
          /\ e.offset + elem_get_data_size(e) <= 36
      BY <2>1, DeclaresElems
    <3> QED  BY <3>1
  <2> QED  BY <2>2
<1>5. MAILBOX_SIZE <= 4 * 16777216
  BY DEF MAILBOX_SIZE
<1> HIDE DEF d
<1> QED
  BY <1>1, <1>2, <1>3, <1>4, <1>5, FirstTypes DEF First!Callable

(* and of a receiver: the tables are compatible.                           *)
LEMMA FirstServed == First!Served
<1> DEFINE r == FirmwareRegistry[ParamsKey]
<1>1. First!Receiving = r /\ r # NULL /\ ParamsKey \in DOMAIN FirmwareRegistry
  BY FirstAction, ParamsActions, ParamsTables
<1>2. First!Receivable
  <2>1. IPC_MAX_MSG_SIZE \div 2 \in Nat
    BY DEF IPC_MAX_MSG_SIZE
  <2>2. Leftovers \subseteq First!U!Struct
    BY StreamAssumption DEF First!U!Struct, First!U!U16, U16
  <2>3. \A key \in DOMAIN FirmwareRegistry :
          FirmwareRegistry[key] \in Desc /\ NULL \notin Elems(FirmwareRegistry[key])
    BY Tables, TableElems, NullAssumption
  <2> QED  BY <2>1, <2>2, <2>3, FirstTypes DEF First!Receivable
<1>3. ASSUME NEW e \in Elems(r)
      PROVE  /\ e.offset \in Nat /\ e.offset % 2 = 0 /\ elem_get_data_size(e) \in {2, 4}
             /\ e.offset + elem_get_data_size(e) <= 2 * (IPC_MAX_MSG_SIZE \div 2)
             /\ First!U!MemberCells(e) = (e.offset \div 2)
                  .. (e.offset \div 2) + (elem_get_data_size(e) \div 2) - 1
  <2>1. /\ e.offset \in Nat /\ e.offset % 2 = 0 /\ elem_get_data_size(e) \in {2, 4}
        /\ e.offset + elem_get_data_size(e) <= 36
    BY ParamsTables, DeclaresElems
  <2>2. First!U!elem_get_data_size(e) = elem_get_data_size(e)
    BY DEF First!U!elem_get_data_size, elem_get_data_size,
       First!U!HalfWordTypes, HalfWordTypes, First!U!WordTypes, WordTypes,
       First!U!LongTypes, LongTypes
  <2> QED
    BY <2>1, <2>2 DEF First!U!MemberCells, First!U!CellsOf, IPC_MAX_MSG_SIZE
<1>4. ASSUME NEW e \in Elems(r), NEW f \in Elems(r)
      PROVE  /\ e.id = f.id => e = f
             /\ e # f => First!U!MemberCells(e) \cap First!U!MemberCells(f) = {}
  <2>1. e.id = f.id => e = f
    BY ParamsTables, DeclaresElems
  <2>2. ASSUME e # f, NEW c \in First!U!MemberCells(e), c \in First!U!MemberCells(f)
        PROVE  FALSE
    <3> DEFINE a == e.offset
               b == f.offset
               x == elem_get_data_size(e)
               y == elem_get_data_size(f)
    <3>1. a + x <= b \/ b + y <= a
      BY <2>2, FirmwareApart
    <3>2. /\ a \in Nat /\ a % 2 = 0 /\ x \in {2, 4}
          /\ b \in Nat /\ b % 2 = 0 /\ y \in {2, 4}
      BY <1>3
    <3>3. /\ c \in (a \div 2) .. (a \div 2) + (x \div 2) - 1
          /\ c \in (b \div 2) .. (b \div 2) + (y \div 2) - 1
      BY <1>3, <2>2
    <3> HIDE DEF a, b, x, y
    <3> QED  BY <3>1, <3>2, <3>3
  <2> QED  BY <2>1, <2>2
<1>5. Compatible(First!get_action_def(RequestId("params")), r)
  BY FirstAction, ParamsTables, RequestNumbers
<1> HIDE DEF r
<1> QED
  BY <1>1, <1>2, <1>3, <1>4, <1>5, FirstTypes, SameMeasures, ParamsKeyIs
  DEF First!Served

(* Once the host is past its first request, nothing of it is under way.    *)
LEMMA PastFirst ==
  ASSUME at # 1
  PROVE  /\ mem1 = Zeroed /\ pc1 = "idle" /\ ctx1 = NULL /\ action1 = NULL
         /\ offset1 = 0 /\ current1 = NULL /\ cont1 = 0 /\ cont_tuple1 = 0
         /\ tuples1 = 0 /\ ret1 = 0 /\ placed1 = <<>> /\ top1 = 0
         /\ rx_pc1 = "idle" /\ rx_ctx1 = NULL /\ struct1 = NULL /\ end1 = 0
         /\ frames1 = <<>> /\ item1 = 0 /\ rx_ret1 = 0 /\ before1 = NULL
         /\ stored1 = <<>>
BY DEF mem1, pc1, ctx1, action1, offset1, current1, cont1, cont_tuple1,
       tuples1, ret1, placed1, top1, rx_pc1, rx_ctx1, struct1, end1, frames1,
       item1, rx_ret1, before1, stored1

(* Outside the first request the variables of the transfer are those of    *)
(* its start.                                                              *)
LEMMA PastFirstNext ==
  ASSUME at' # 1
  PROVE  /\ mem1' = Zeroed /\ pc1' = "idle" /\ ctx1' = NULL /\ action1' = NULL
         /\ offset1' = 0 /\ current1' = NULL /\ cont1' = 0 /\ cont_tuple1' = 0
         /\ tuples1' = 0 /\ ret1' = 0 /\ placed1' = <<>> /\ top1' = 0
         /\ rx_pc1' = "idle" /\ rx_ctx1' = NULL /\ struct1' = NULL /\ end1' = 0
         /\ frames1' = <<>> /\ item1' = 0 /\ rx_ret1' = 0 /\ before1' = NULL
         /\ stored1' = <<>>
BY DEF mem1, pc1, ctx1, action1, offset1, current1, cont1, cont_tuple1,
       tuples1, ret1, placed1, top1, rx_pc1, rx_ctx1, struct1, end1, frames1,
       item1, rx_ret1, before1, stored1

(* A step that leaves the receiver alone leaves the transfer's alone.      *)
LEMMA ReceiverRests ==
  ASSUME at' = at, UNCHANGED unpacker
  PROVE  UNCHANGED <<rx_pc1, rx_ctx1, struct1, end1, frames1, item1, rx_ret1,
                     before1, stored1>>
BY DEF unpacker, rx_pc1, rx_ctx1, struct1, end1, frames1, item1, rx_ret1,
       before1, stored1

(* The sender's variables rest where the packer's do.                      *)
LEMMA SenderRests ==
  ASSUME at' = at, UNCHANGED packer
  PROVE  UNCHANGED <<pc1, ctx1, action1, offset1, current1, cont1, cont_tuple1,
                     tuples1, ret1, placed1, top1>>
BY DEF packer, pc1, ctx1, action1, offset1, current1, cont1, cont_tuple1,
       tuples1, ret1, placed1, top1

(* Setting the parameters, seen for itself, is a transfer from the host's  *)
(* table to the firmware's, in a fresh mailbox: every step of the program  *)
(* until the request is over is one of the transfer's or leaves it alone.  *)
THEOREM FirstRequestPairs == Spec => First!PairSpec
<1>1. Init => First!PairInit
  <2> SUFFICES ASSUME Init PROVE First!PairInit
    OBVIOUS
  <2>1. at = 1
    BY DEF Init
  <2>2. First!Init
    BY <2>1, SamePacker DEF Init, P!Init, First!Init, Zeroed
  <2>3. rx_ctx1 = NULL
    BY <2>1 DEF Init, UnpackerIdle, rx_ctx1
  <2>4. First!NothingReceived
    BY <2>1, <2>3, SameReceiver DEF Init, UnpackerIdle, First!NothingReceived
  <2> QED  BY <2>2, <2>4 DEF First!PairInit
<1>2. at \in Nat \ {0} /\ [Next]_vars => [First!PairNext]_(First!pair)
  <2> SUFFICES ASSUME at \in Nat \ {0}, [Next]_vars
               PROVE  [First!PairNext]_(First!pair)
    OBVIOUS
  <2>1. at' \in Nat \ {0} /\ at' >= at
    BY DEF Next, vars, MakeRequest, Pack, GiveUp, test_send_ipc_to_fw, Unpack,
       NextRequest, Requests, Over
  <2>2. CASE at # 1
    <3>1. at' # 1
      BY <2>1, <2>2
    <3> QED
      BY <2>2, <3>1, PastFirst, PastFirstNext
      DEF First!pair, First!packer, First!unpacker
  <2>3. CASE at = 1 /\ MakeRequest
    <3>1. at' = at /\ at' = 1 /\ UNCHANGED unpacker
      BY <2>3 DEF MakeRequest
    <3>2. Request = "params"
      BY <2>3 DEF Request, Requests
    <3>3. First!ipct_msg_pack(RequestId("params"), Structure("params"),
                              StructureSize("params"), MAILBOX_SIZE)
      BY <2>3, <3>1, <3>2, SamePacker, SamePackerNext
      DEF MakeRequest, P!ipct_msg_pack, First!ipct_msg_pack
    <3>4. UNCHANGED First!unpacker
      BY <3>1, ReceiverRests DEF First!unpacker
    <3>5. First!Send(RequestId("params"), Structure("params"),
                     StructureSize("params"), MAILBOX_SIZE)
      BY <3>3, <3>4 DEF First!Send
    <3> QED  BY <3>5 DEF First!PairNext
  <2>4. CASE at = 1 /\ Pack
    <3>1. at' = at /\ at' = 1 /\ UNCHANGED unpacker /\ P!PackStep
      BY <2>4 DEF Pack
    <3>2. UNCHANGED First!unpacker
      BY <3>1, ReceiverRests DEF First!unpacker
    <3>3. First!PackStep
      BY <2>4, <3>1, FirstPacks
    <3>4. First!Pack
      BY <3>2, <3>3 DEF First!Pack
    <3> QED  BY <3>4 DEF First!PairNext
  <2>5. CASE at = 1 /\ test_send_ipc_to_fw
    <3>1. /\ at' = at /\ at' = 1 /\ UNCHANGED packer
          /\ pc = "done" /\ ret >= 0
      BY <2>5 DEF test_send_ipc_to_fw
    <3>2. PICK target \in Leftovers :
            U!ipct_msg_unpack(mem, target, ret, IPC_MAX_MSG_SIZE)
      BY <2>5 DEF test_send_ipc_to_fw
    <3>3. First!Receiving.size = SizeofStreamParams
      BY FirstAction, ParamsTables
    <3>4. rx_ctx1' = [src_size |-> ret, dest_size |-> SizeofStreamParams]
      BY <3>1, <3>2 DEF rx_ctx1, U!ipct_msg_unpack
    <3>5. First!U!ipct_msg_unpack(mem1, target, ret1, First!Receiving.size)
      BY <2>5, <3>1, <3>2, <3>3, <3>4, SamePacker, SamePackerNext, SameReceiver,
         SameReceiverNext
      DEF U!ipct_msg_unpack, First!U!ipct_msg_unpack
    <3>6. UNCHANGED First!packer
      BY <3>1, SenderRests DEF First!packer
    <3>7. First!HandOver
      BY <2>5, <3>1, <3>5, <3>6, SamePacker DEF First!HandOver
    <3> QED  BY <3>7 DEF First!PairNext
  <2>6. CASE at = 1 /\ Unpack
    <3>1. at' = at /\ at' = 1 /\ UNCHANGED packer /\ U!UnpackStep
      BY <2>6 DEF Unpack
    <3>2. UNCHANGED First!packer
      BY <3>1, SenderRests DEF First!packer
    <3>3. First!U!UnpackStep
      BY <2>6, <3>1, FirstUnpacks
    <3>4. First!Unpack
      BY <3>2, <3>3 DEF First!Unpack
    <3> QED  BY <3>4 DEF First!PairNext
  <2>7. CASE at = 1 /\ (GiveUp \/ NextRequest)
    <3>1. at' # 1
      BY <2>7 DEF GiveUp, NextRequest, Requests
    <3>2. pc = "done" /\ (ret < 0 \/ rx_pc = "done")
      BY <2>7 DEF GiveUp, NextRequest, P!Collect
    <3>3. First!Over
      BY <2>7, <3>2, SamePacker, SameReceiver DEF First!Over
    <3>4. First!Collect
      BY <2>7, <3>1, <3>2, SamePacker, PastFirstNext DEF First!Collect
    <3>5. First!Finish
      BY <3>1, <3>3, <3>4, PastFirstNext DEF First!Finish
    <3> QED  BY <3>5 DEF First!PairNext
  <2>8. CASE at = 1 /\ UNCHANGED vars
    <3>1. at' = at /\ mem' = mem /\ UNCHANGED packer /\ UNCHANGED unpacker
      BY <2>8 DEF vars
    <3>2. mem1' = mem1
      BY <3>1 DEF mem1
    <3> QED
      BY <3>1, <3>2, SenderRests, ReceiverRests
      DEF First!pair, First!packer, First!unpacker
  <2> QED  BY <2>2, <2>3, <2>4, <2>5, <2>6, <2>7, <2>8 DEF Next
<1> QED  BY <1>1, <1>2, Counted, PTL DEF Spec, First!PairSpec

-----------------------------------------------------------------------------
(***************************************************************************)
(* What of the parameters arrives.                                         *)
(***************************************************************************)
(* What a client sees of a member, in either instance.                     *)
LEMMA FirstCells ==
  /\ \A e : First!CellsOf(e) = CellsOf(e)
  /\ First!ByteTypes = ByteTypes
  /\ \A e, v : First!ValueOk(e, v) = ValueOk(e, v)
  /\ \A v : First!AsInt8(v) = AsInt8(v)
BY DEF First!CellsOf, CellsOf, First!ByteTypes, ByteTypes, First!AsInt8, AsInt8,
       First!elem_get_data_size, elem_get_data_size, First!HalfWordTypes,
       HalfWordTypes, First!WordTypes, WordTypes, First!LongTypes, LongTypes,
       First!ValueOk, ValueOk, First!MaskTypes, MaskTypes, First!FloatTypes,
       FloatTypes, First!BlockTypes, BlockTypes, First!SizedTypes, SizedTypes,
       First!SignedTypes, SignedTypes, First!ByteInRange, ByteInRange,
       First!IntInRange, IntInRange, First!InMask, InMask, First!Bit, Bit,
       First!ValueCell, ValueCell, First!Biased, Biased, First!Less, Less

(* What the two clients see in their structures does not depend on the     *)
(* instance.                                                               *)
LEMMA FirstClients ==
  /\ \A d, s, i : First!SentFrom(d, s, i) = SentFrom(d, s, i)
  /\ \A r, c, i : First!HeldIn(r, c, i) = HeldIn(r, c, i)
  /\ \A r, i, v : First!AllowedBy(r, i, v) <=> AllowedBy(r, i, v)
<1>1. \A e, v : First!ClientValue(e, v) = ClientValue(e, v)
  BY FirstCells DEF First!ClientValue, ClientValue
<1>2. \A d, s, i : First!SentFrom(d, s, i) = SentFrom(d, s, i)
  BY <1>1, SameMeasures DEF First!SentFrom, SentFrom
<1>3. \A r, c, i : First!HeldIn(r, c, i) = HeldIn(r, c, i)
  BY <1>1, FirstCells, SameMeasures DEF First!HeldIn, HeldIn
<1>4. \A r, i, v : First!AllowedBy(r, i, v) <=> AllowedBy(r, i, v)
  BY FirstCells, SameMeasures DEF First!AllowedBy, AllowedBy, First!InRange, InRange
<1> QED  BY <1>2, <1>3, <1>4

(* What the transfer's promise comes to.  The mailbox has room to spare, so*)
(* that a message is refused for a member only; those in front of it have  *)
(* arrived, and what arrives is the sender's and one the firmware allows.  *)
LEMMA PromiseTakes ==
  ASSUME at = 1, rx_pc = "done", First!PairTypeOK, First!T!Promise
  PROVE  LET d        == HostTables[ParamsKey]
             r        == FirmwareRegistry[ParamsKey]
             Sending(id) == SentFrom(d, ctx.src, id)
             excluded == {id \in MemberIds(r) : ~ AllowedBy(r, id, Sending(id))}
             taken    == {id \in MemberIds(r) : \A j \in excluded : id < j}
         IN /\ rx_ret = 0 <=> excluded = {}
            /\ {stored[i].id : i \in 1 .. Len(stored)} = taken
            /\ \A id \in taken : HeldIn(r, struct, id) = Sending(id)
<1> DEFINE d == HostTables[ParamsKey]
           r == FirmwareRegistry[ParamsKey]
           Sending(id) == SentFrom(d, ctx.src, id)
           excluded == {id \in MemberIds(r) : ~ AllowedBy(r, id, Sending(id))}
           taken == {id \in MemberIds(r) : \A j \in excluded : id < j}
           arrived == {stored[i].id : i \in 1 .. Len(stored)}
<1>1. /\ pc1 = "done" /\ ret1 >= 0 /\ rx_pc1 = "done" /\ rx_ret1 = rx_ret
      /\ rx_ret \in {0, -First!U!EINVAL} /\ struct1 = struct
      /\ stored1 = stored /\ ctx1 = ctx
  BY SamePacker, SameReceiver DEF First!PairTypeOK, First!U!TypeOK
<1>2. /\ ctx1.id = RequestId("params") /\ ctx1.src = Structure("params")
      /\ ctx1.dest_size = MAILBOX_SIZE
  BY <1>1 DEF First!PairTypeOK, First!TypeOK, First!Context
<1>3. First!Sending = d /\ First!Receiving = r
  BY <1>2, RequestNumbers, FirstAction DEF First!Sending
<1>4. /\ First!MemberIds(d) = 0 .. 10 /\ First!MemberIds(r) = 0 .. 10
      /\ First!MessageLength(d) \in 36 .. 200 /\ MemberIds(r) = 0 .. 10
  <2>1. MemberIds(d) = 0 .. 10 /\ MessageLength(d) \in 36 .. 200
    BY ParamsTables, DeclaresElems, DeclaresLength
  <2>2. MemberIds(r) = 0 .. 10
    BY ParamsTables, DeclaresElems
  <2> QED  BY <2>1, <2>2, SameMeasures
<1> HIDE DEF d, r
<1>5. \A id : First!Sent(id) = Sending(id)
  BY <1>1, <1>3, FirstClients DEF First!Sent
<1>6. \A id : First!Held(id) = HeldIn(r, struct, id)
  BY <1>1, <1>3, FirstClients DEF First!Held
<1>7. First!T!Common = 0 .. 10
  BY <1>1, <1>3, <1>4 DEF First!T!Common
<1>8. ~ First!T!Tight
  BY <1>1, <1>2, <1>3, <1>4 DEF First!T!Tight, MAILBOX_SIZE
<1>9. First!SentIds = 0 .. 10 /\ First!HeldIds = arrived
  BY <1>1, <1>3, <1>4 DEF First!SentIds, First!HeldIds
<1> HIDE DEF arrived, Sending
<1>10. /\ \A id \in arrived : [j \in arrived |-> First!Held(j)][id] = First!Held(id)
       /\ \A id \in 0 .. 10 : [j \in 0 .. 10 |-> First!Sent(j)][id] = First!Sent(id)
       /\ DOMAIN [j \in arrived |-> First!Held(j)] = arrived
  OBVIOUS
<1>11. First!Phase \in {"accepted", "refused"}
       /\ (First!Phase = "accepted" <=> rx_ret = 0)
  BY <1>1 DEF First!Phase, First!U!EINVAL
<1>12. arrived \subseteq 0 .. 10 =>
         \A id \in arrived : /\ HeldIn(r, struct, id) = Sending(id)
                             /\ AllowedBy(r, id, Sending(id))
  <2> SUFFICES ASSUME arrived \subseteq 0 .. 10, NEW id \in arrived
               PROVE  /\ HeldIn(r, struct, id) = Sending(id)
                      /\ AllowedBy(r, id, Sending(id))
    OBVIOUS
  <2>1. First!Held(id) = First!Sent(id) /\ First!AllowedBy(r, id, First!Held(id))
    BY <1>1, <1>3, <1>9, <1>10, <1>11 DEF First!T!Promise, First!T!HeldIsSent
  <2> QED  BY <1>5, <1>6, <2>1, FirstClients
<1>13. CASE rx_ret = 0
  <2>1. [id \in arrived |-> First!Held(id)]
          = [id \in 0 .. 10 |-> [j \in 0 .. 10 |-> First!Sent(j)][id]]
    BY <1>7, <1>9, <1>11, <1>13 DEF First!T!Promise, First!T!AcceptedIsComplete
  <2>2. arrived = 0 .. 10
    BY <1>10, <2>1
  <2>3. excluded = {} /\ taken = 0 .. 10
    BY <1>4, <1>12, <2>2
  <2> QED  BY <1>12, <1>13, <2>2, <2>3 DEF arrived, Sending, d, r
<1>14. CASE rx_ret # 0
  <2>1. PICK id \in 0 .. 10 :
          /\ ~ First!AllowedBy(r, id, [j \in 0 .. 10 |-> First!Sent(j)][id])
          /\ arrived = {j \in 0 .. 10 : j < id}
    BY <1>1, <1>3, <1>7, <1>8, <1>9, <1>10, <1>11, <1>14
    DEF First!T!Promise, First!T!RefusedForCause
  <2>2. ~ AllowedBy(r, id, Sending(id))
    BY <1>5, <1>10, <2>1, FirstClients
  <2>3. id \in excluded /\ \A j \in excluded : ~ (j < id)
    BY <1>4, <1>12, <2>1, <2>2
  <2>4. taken = {j \in 0 .. 10 : j < id}
    BY <1>4, <2>3
  <2> QED  BY <1>12, <1>14, <2>1, <2>3, <2>4 DEF arrived, Sending, d, r
<1> QED  BY <1>13, <1>14

-----------------------------------------------------------------------------
(***************************************************************************)
(* The properties of the example.                                          *)
(***************************************************************************)
(* What is known of the first request, as a transfer.                      *)
LEMMA FirstRequest ==
  Spec => [](First!PairTypeOK /\ First!PacksWhatFits /\ First!T!Promise)
<1>1. First!PairSpec => []First!PairTypeOK
  <2>1. First!Receivable
    BY FirstServed DEF First!Served
  <2> QED  BY <2>1, FirstAssumptions, FirstSendable, First!PairTypes
<1>2. First!PairSpec => []First!PacksWhatFits
  BY FirstAssumptions, FirstSendable, FirstCallable, First!PacksFitting
<1>3. First!PairSpec => []First!T!Promise
  BY FirstAssumptions, FirstSendable, FirstCallable, FirstServed, First!PairPromises
<1> QED  BY <1>1, <1>2, <1>3, FirstRequestPairs, PTL

(* What the first request's receiver is typed as, for the program's        *)
(* unpacker.                                                               *)
LEMMA SameReceiverTypes ==
  First!U!TypeOK /\ at = 1 =>
    /\ rx_pc # "idle" => struct \in U!Struct /\ before \in U!Struct
    /\ rx_pc \in {"idle", "header", "tuples", "item", "done"}
    /\ end \in Nat /\ rx_ret \in {0, -U!EINVAL}
    /\ frames \in Seq(U!FrameType)
    /\ rx_pc \in {"tuples", "item"} => frames # <<>> /\ U!action_def # NULL
    /\ item \in Nat
    /\ rx_pc = "item" => item < U!tuple_data_count(mem, U!tuple)
    /\ stored \in Seq([id : Nat, tuple : Nat, item : Nat])
<1> SUFFICES ASSUME First!U!TypeOK, at = 1
             PROVE  /\ rx_pc # "idle" => struct \in U!Struct /\ before \in U!Struct
                    /\ rx_pc \in {"idle", "header", "tuples", "item", "done"}
                    /\ end \in Nat /\ rx_ret \in {0, -U!EINVAL}
                    /\ frames \in Seq(U!FrameType)
                    /\ rx_pc \in {"tuples", "item"} => frames # <<>> /\ U!action_def # NULL
                    /\ item \in Nat
                    /\ rx_pc = "item" => item < U!tuple_data_count(mem, U!tuple)
                    /\ stored \in Seq([id : Nat, tuple : Nat, item : Nat])
  OBVIOUS
<1>1. First!U!Struct = U!Struct /\ First!U!FrameType = U!FrameType
  BY DEF First!U!Struct, U!Struct, First!U!U16, U!U16, First!U!FrameType, U!FrameType
<1>2. First!U!EINVAL = U!EINVAL
  BY ReceiverHeader
<1> QED
  BY <1>1, <1>2, SamePacker, SameReceiver, SameCursor, ReceiverTuples DEF First!U!TypeOK

(* Sequences of one element and of none.                                   *)
LEMMA OneFrame ==
  ASSUME NEW S, NEW x \in S
  PROVE  <<x>> \in Seq(S) /\ <<>> \in Seq(S)
OBVIOUS

(* The unpacker is typed in every request.                                 *)
LEMMA ReceiverTypeOK ==
  ASSUME P!TypeOK, StreamInv, First!PairTypeOK, First!PacksWhatFits
  PROVE  U!TypeOK /\ (rx_pc # "idle" => ret \in 0 .. MAILBOX_SIZE)
<1>1. Sequenced /\ TriggerPacked /\ TriggerRefused
  BY DEF StreamInv
<1>2. mem \in [0 .. Cells - 1 -> U16]
  BY MailboxMemory DEF MailboxCells
<1>3. CASE rx_pc = "idle"
  <2>1. UnpackerIdle
    BY <1>1, <1>3 DEF Sequenced
  <2> QED  BY <2>1, <1>3 DEF U!TypeOK, UnpackerIdle
<1>4. CASE rx_pc # "idle"
  <2>1. /\ pc = "done" /\ ret \in Int /\ ret >= 0 /\ at \in {1, 2}
        /\ rx_ctx = [src_size |-> ret, dest_size |-> IPC_MAX_MSG_SIZE]
    BY <1>1, <1>4 DEF Sequenced, P!TypeOK
  <2>2. ret \in 0 .. MAILBOX_SIZE
    <3>1. CASE at = 1
      <4>1. pc1 = "done" /\ ret1 = ret
        BY <2>1, <3>1, SamePacker
      <4>2. ctx1.dest_size = MAILBOX_SIZE
        BY <4>1 DEF First!PairTypeOK, First!TypeOK, First!Context
      <4>3. ret <= MAILBOX_SIZE
        BY <2>1, <4>1, <4>2 DEF First!PacksWhatFits
      <4> QED  BY <2>1, <4>3 DEF MAILBOX_SIZE
    <3>2. CASE at = 2
      BY <1>1, <2>1, <3>2 DEF TriggerPacked
    <3> QED  BY <2>1, <3>1, <3>2
  <2>3. rx_ctx \in U!Context
    BY <2>1, <2>2 DEF U!Context
  <2>4. CASE at = 1
    BY <1>2, <2>2, <2>3, <2>4, SameReceiverTypes DEF U!TypeOK, First!PairTypeOK
  <2>5. CASE at = 2
    <3>1. mem[6] = ArrayOfWords
      BY <1>1, <2>1, <2>5 DEF TriggerPacked
    <3>2. /\ rx_pc \in {"header", "tuples", "item", "done"}
          /\ struct \in U!Struct /\ before \in U!Struct
          /\ stored = <<>> /\ item = 0 /\ end \in Nat
          /\ frames = <<>> \/ (end > 12 /\ frames = <<TriggerFrame>>)
          /\ rx_pc \in {"tuples", "item"} => frames # <<>>
          /\ rx_ret \in {0, -22}
          /\ rx_pc = "item" => U!tuple_data_count(mem, 12) # 0
      BY <1>1, <1>4, <2>5 DEF TriggerRefused
    <3>3. frames \in Seq(U!FrameType)
      <4>1. TriggerFrame \in U!FrameType
        BY <3>2 DEF TriggerFrame, U!FrameType
      <4> QED  BY <3>2, <4>1, OneFrame
    <3>4. rx_pc = "item" => item < U!tuple_data_count(mem, U!tuple)
      <4>1. SUFFICES ASSUME rx_pc = "item" PROVE item < U!tuple_data_count(mem, U!tuple)
        OBVIOUS
      <4>2. U!tuple = 12 /\ U!TupleType(mem, 12) = U!STD_ARRAY
        BY <3>1, <3>2, <4>1, TriggerCursor
      <4>3. U!tuple_data_count(mem, 12) = mem[7]
        BY <4>2 DEF U!tuple_data_count, U!Count, U!Half, U!STD, U!HD, U!STD_ARRAY,
           U!HD_ARRAY, U!VAR_ARRAY, U!TUPLE_ARRAY
      <4>4. mem[7] \in Nat
        BY <1>2 DEF Cells, U16
      <4> QED  BY <3>2, <4>1, <4>2, <4>3, <4>4
    <3> QED
      BY <1>2, <2>3, <2>2, <3>2, <3>3, <3>4, UnpackerAction DEF U!TypeOK, U!EINVAL
  <2> QED  BY <2>1, <2>4, <2>5
<1> QED  BY <1>3, <1>4

(* Every variable of the program stays in its range, whatever the stack    *)
(* holds and whichever tables the host packs by: sw_run_stream_tests and   *)
(* test_send_ipc_to_fw call the library within its own bounds.             *)
THEOREM StreamTypes == Spec => []TypeOK
<1>1. /\ P!TypeOK /\ StreamInv /\ First!PairTypeOK /\ First!PacksWhatFits
      => TypeOK
  <2> SUFFICES ASSUME P!TypeOK, StreamInv, First!PairTypeOK, First!PacksWhatFits
               PROVE  TypeOK
    OBVIOUS
  <2>1. Sequenced
    BY DEF StreamInv
  <2>2. U!TypeOK /\ (rx_pc # "idle" => ret \in 0 .. MAILBOX_SIZE)
    BY ReceiverTypeOK
  <2>3. sent \in Seq(RequestNames)
    <3>1. {"params", "start"} \subseteq RequestNames
      BY DEF RequestNames, Requests
    <3> QED  BY <2>1, <3>1 DEF Sequenced
  <2>4. at \in 1 .. Len(Requests) + 1
    BY <2>1 DEF Sequenced, Requests
  <2> QED  BY <2>1, <2>2, <2>3, <2>4 DEF TypeOK, Sequenced
<1> QED  BY <1>1, PackerTypes, StreamInvariant, FirstRequest, PTL

(* The firmware's handler never reads a trigger as parameters, although it *)
(* takes every message for one of them and the trigger lies where they     *)
(* lay: the trigger's first word is refused as the member that has its ID. *)
THEOREM OnlyParamsHandled == Spec => []HandlesOnlyParams
<1>1. StreamInv => HandlesOnlyParams
  BY RequestsInTurn DEF StreamInv, Sequenced, HandlesOnlyParams
<1> QED  BY <1>1, StreamInvariant, PTL

(* What the firmware takes of the host's parameters, and whether it takes  *)
(* them at all, is a matter of the two tables and the values alone.  In the*)
(* program as it is linked that is nothing behind ID 7; with a table for   *)
(* each side it is all of them.                                            *)
THEOREM ParamsAreTaken == Spec => []ParamsTaken
<1>1. StreamInv /\ First!PairTypeOK /\ First!T!Promise => ParamsTaken
  <2>1. StreamInv /\ rx_pc = "done" /\ Request = "params" => at = 1
    <3>1. StreamInv /\ rx_pc = "done" => at \in {1, 2}
      BY DEF StreamInv, Sequenced
    <3> QED  BY <3>1, RequestsInTurn
  <2> QED  BY <2>1, PromiseTakes DEF ParamsTaken
<1> QED  BY <1>1, StreamInvariant, FirstRequest, PTL

(* The host's tests never get to their last request: the firmware is sent  *)
(* the parameters and the start of the stream at most, and sw_stream_params*)
(* and sw_stream_trigger are followed by a position that is not sent.      *)
THEOREM NeverStopped ==
  Spec => [](at # 4 /\ sent \in Seq({"params", "start"}))
<1>1. StreamInv => at # 4 /\ sent \in Seq({"params", "start"})
  BY DEF StreamInv, Sequenced
<1> QED  BY <1>1, StreamInvariant, PTL

=============================================================================
