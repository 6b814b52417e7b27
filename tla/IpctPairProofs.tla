--------------------------- MODULE IpctPairProofs ---------------------------
(***************************************************************************)
(* What a receiver meets on its way through a message its sender packed,   *)
(* for all compatible tables, contents and buffer sizes.                   *)
(***************************************************************************)
EXTENDS IpctPair, IpctPackProofs, FunctionTheorems

-----------------------------------------------------------------------------
(***************************************************************************)
(* The sender of a pair is the packer.                                     *)
(***************************************************************************)
(* What the receiver does leaves the packer and the message alone.         *)
LEMMA ReceiverReads ==
  ASSUME HandOver \/ Unpack
  PROVE  UNCHANGED vars
<1>1. CASE HandOver
  BY <1>1 DEF HandOver, U!ipct_msg_unpack, packer, vars
<1>2. CASE Unpack
  <2>1. UNCHANGED mem
    BY <1>2 DEF Unpack, U!UnpackStep, U!RejectHeader, U!AcceptHeader,
       U!RejectTuple, U!Nest, U!TooDeep, U!Leave, U!NoData, U!BeginTuple,
       U!IgnoreRest, U!RejectItem, U!InsertItem
  <2> QED  BY <1>2, <2>1 DEF Unpack, packer, vars
<1> QED  BY <1>1, <1>2

(* A pair does what a packer does, and its clients.                        *)
THEOREM SenderPacks == PairSpec => Spec
<1>1. PairInit => Init
  BY DEF PairInit
<1>2. [PairNext]_pair => [Next]_vars
  <2> SUFFICES ASSUME [PairNext]_pair PROVE [Next]_vars
    OBVIOUS
  <2>1. CASE \E id \in Ids, src \in Sources, ss \in SrcSizes, ds \in DestSizes :
               Send(id, src, ss, ds)
    BY <2>1 DEF Send, Next, Client
  <2>2. CASE Pack
    BY <2>2 DEF Pack, Next
  <2>3. CASE HandOver \/ Unpack
    BY <2>3, ReceiverReads
  <2>4. CASE Finish
    BY <2>4 DEF Finish, Next, Client
  <2>5. CASE UNCHANGED pair
    BY <2>5 DEF pair, packer, vars
  <2> QED  BY <2>1, <2>2, <2>3, <2>4, <2>5 DEF PairNext
<1> QED  BY <1>1, <1>2, PTL DEF PairSpec, Spec

-----------------------------------------------------------------------------
(***************************************************************************)
(* What is assumed, and what is known of a message that was packed.        *)
(***************************************************************************)

(* Buffers are fresh, and the tables the sender may pack by are packed     *)
(* from their lowest element on, in words and half-words, without an odd   *)
(* half-word at the end of an array.                                       *)
Sendable ==
  /\ FreshBuffers /\ SizeFits
  /\ \A d : Known(d) => PacksAll(d) /\ WholeWords(d)

(* The type of an element decides its size and the kind of its tuple.      *)
LEMMA WordSizes ==
  ASSUME NEW e, e.type \in HalfWordTypes \cup WordTypes
  PROVE  /\ Sized(e)
         /\ e.type \in HalfWordTypes =>
              elem_get_data_size(e) = 2 /\ ipct_get_type(e.type) = HD
         /\ e.type \notin HalfWordTypes =>
              elem_get_data_size(e) = 4 /\ ipct_get_type(e.type) = STD
<1> DEFINE type == e.type
           other == e.value2
<1>1. elem_get_data_size(e) =
        CASE type \in HalfWordTypes -> 2
          [] type \in WordTypes     -> 4
          [] type \in LongTypes     -> 8
          [] type = "uuid"          -> 16
          [] OTHER                  -> other
  BY SMT DEF elem_get_data_size
<1>2. ipct_get_type(type) = IF type \in HalfWordTypes THEN HD ELSE STD
  BY DEF ipct_get_type
<1> HIDE DEF type, other
<1>3. type \in HalfWordTypes => elem_get_data_size(e) = 2
  BY <1>1, SMT DEF HalfWordTypes, WordTypes, LongTypes
<1>4. type \in WordTypes => elem_get_data_size(e) = 4 /\ type \notin HalfWordTypes
  BY <1>1, SMT DEF HalfWordTypes, WordTypes, LongTypes
<1>5. type \in HalfWordTypes \cup WordTypes
  BY DEF type
<1>6. /\ type \in HalfWordTypes =>
           elem_get_data_size(e) = 2 /\ ipct_get_type(type) = HD
      /\ type \notin HalfWordTypes =>
           elem_get_data_size(e) = 4 /\ ipct_get_type(type) = STD
  BY <1>2, <1>3, <1>4, <1>5
<1> QED  BY <1>6 DEF Sized, type

(* Such tables are in words, as the theorems about messages ask.           *)
LEMMA SendableInWords ==
  ASSUME Sendable
  PROVE  TablesInWords
<1>1. ASSUME NEW key \in DOMAIN Registry, NEW e \in Elems(Registry[key])
      PROVE  e.type \in HalfWordTypes \cup WordTypes
  BY <1>1 DEF Sendable, WholeWords, Known
<1>2. \A e \in AllElems : e.type \in HalfWordTypes \cup WordTypes
  BY <1>1 DEF AllElems
<1>3. \A e \in AllElems : Sized(e)
  BY <1>2, WordSizes
<1>4. ASSUME NEW key \in DOMAIN Registry,
             NEW e \in Elems(Registry[key]), NEW f \in Elems(Registry[key]),
             e.type \notin HalfWordTypes, IsContinuous(e, f)
      PROVE  elem_get_data_size(e) = 4 /\ elem_get_data_size(f) = 4
  <2>1. ipct_get_type(f.type) = ipct_get_type(e.type)
    BY <1>4 DEF IsContinuous
  <2>2. f.type \notin HalfWordTypes
    BY <1>1, <1>4, <2>1, WordSizes DEF HD, STD
  <2> QED  BY <1>1, <1>4, <2>2, WordSizes
<1> QED  BY <1>3, <1>4 DEF TablesInWords

(* A message that was packed, with its history.                            *)
Message == WholeInv /\ CarryInv /\ ArraysAreRuns /\ Packed

Starts == StartsIn(placed)

(* The IDs of a tuple's items are those from its own on.                   *)
ItemIds(t) == {placed[j].id : j \in MatesIn(placed, t)}

(* Everything is placed, in the order of IDs, and each element has the     *)
(* type and place the theorems about messages say.                         *)
LEMMA MessagePlaces ==
  ASSUME Sendable, Message
  PROVE  /\ Known(action) /\ Underway /\ TablesInWords
         /\ Len(placed) \in Nat /\ placed # <<>> /\ mem \in Memory
         /\ \A i \in 1 .. Len(placed) : placed[i].id \in Nat /\ Start(i) \in Nat
         /\ \A i, j \in 1 .. Len(placed) : i < j => placed[i].id < placed[j].id
         /\ ItemsCarried /\ Chained /\ Headed /\ Counted
<1>1. WalkInv /\ AlignInv /\ TypeOK /\ action # NULL /\ Underway
  BY DEF Message, WholeInv, WalkInv, AlignInv, Underway
<1>2. Known(action) /\ placed \in Seq(Placement) /\ mem \in Memory
  BY <1>1 DEF AlignInv, Registered, TypeOK
<1>3. \A i \in 1 .. Len(placed) : placed[i] \in Placement
  BY <1>2
<1>4. \A i \in 1 .. Len(placed) : placed[i].id \in Nat /\ Start(i) \in Nat
  BY <1>3, U16Elim DEF Placement, Start
<1>5. \A i, j \in 1 .. Len(placed) : i < j => placed[i].id < placed[j].id
  BY <1>1 DEF WalkInv
<1>6. placed # <<>> /\ ItemsCarried /\ Chained /\ Headed /\ Counted
  BY <1>1 DEF Message, CarryInv
<1> QED  BY <1>1, <1>2, <1>4, <1>5, <1>6, SendableInWords

(* The walk begins at the lowest element.                                  *)
LEMMA FirstIsLowest ==
  ASSUME Sendable, NEW d, Known(d)
  PROVE  /\ get_first_elem(d) \in Elems(d)
         /\ \A f \in Elems(d) : get_first_elem(d).id <= f.id
<1>1. PICK low \in d.mandatory : \A f \in Elems(d) : low.id <= f.id
  BY DEF Sendable, PacksAll
<1>2. /\ \A f \in Elems(d) : f.id < IPCT_TUPLE_MAX_ID /\ f.id \in Nat
      /\ \A e, f \in Elems(d) : e.id = f.id => e = f
      /\ low \in Elems(d)
  BY <1>1, KnownElems DEF Sendable, PacksAll, Elems
<1> DEFINE mandatory == {e \in d.mandatory : e.id < IPCT_TUPLE_MAX_ID}
           id == IF mandatory = {} THEN IPCT_TUPLE_MAX_ID
                                   ELSE Lowest(mandatory).id
           optional == {e \in d.optional : e.id = id}
<1>3. low \in mandatory /\ mandatory \subseteq Elems(d)
  BY <1>1, <1>2 DEF Elems
<1>4. Lowest(mandatory) \in mandatory
      /\ \A f \in mandatory : Lowest(mandatory).id <= f.id
  <2> HIDE DEF mandatory
  <2> QED  BY <1>2, <1>3, LowestIsLowest
<1>5. Lowest(mandatory).id = low.id
  <2>1. Lowest(mandatory).id <= low.id /\ low.id <= Lowest(mandatory).id
    BY <1>1, <1>3, <1>4
  <2>2. Lowest(mandatory).id \in Nat /\ low.id \in Nat
    BY <1>2, <1>3, <1>4
  <2> HIDE DEF mandatory
  <2> QED  BY <2>1, <2>2
<1>6. id = low.id
  BY <1>3, <1>5
<1>7. get_first_elem(d) = IF optional # {} THEN Lowest(optional)
                          ELSE LowestOrNull(mandatory)
  BY DEF get_first_elem
<1> HIDE DEF mandatory, id
<1>8. get_first_elem(d) \in Elems(d) /\ get_first_elem(d).id = low.id
  <2>1. CASE optional # {}
    <3>1. \A e \in optional : e.id \in Nat /\ e.id = low.id /\ e \in Elems(d)
      BY <1>2, <1>6 DEF Elems
    <3> HIDE DEF optional
    <3> QED  BY <1>7, <2>1, <3>1, LowestIsLowest
  <2>2. CASE optional = {}
    BY <1>3, <1>4, <1>5, <1>7, <2>2 DEF LowestOrNull
  <2> QED  BY <2>1, <2>2
<1> QED  BY <1>1, <1>8

(* Every element of the action is in the message.                          *)
LEMMA AllPlaced ==
  ASSUME Sendable, Message
  PROVE  PlacedIds = MemberIds(action)
<1>1. Known(action) /\ PlacedIds = {e.id : e \in PackedElems}
  BY MessagePlaces DEF Message, WholeInv, WalkInv
<1>2. /\ \A f \in Elems(action) : f.id < IPCT_TUPLE_MAX_ID /\ f.id \in Nat
      /\ \A e, f \in Elems(action) : e.id = f.id => e = f
  BY <1>1, KnownElems DEF Sendable, PacksAll
<1>3. /\ get_first_elem(action) \in Elems(action)
      /\ \A f \in Elems(action) : get_first_elem(action).id <= f.id
  BY <1>1, FirstIsLowest
<1>4. PackedElems = Elems(action)
  <2>1. PackedElems \subseteq Elems(action)
    BY DEF PackedElems
  <2>2. \A f \in Elems(action) : f = get_first_elem(action)
                                    \/ f.id > get_first_elem(action).id
    BY <1>2, <1>3
  <2> QED  BY <1>2, <2>1, <2>2 DEF PackedElems
<1> QED  BY <1>1, <1>4 DEF MemberIds

-----------------------------------------------------------------------------
(***************************************************************************)
(* Which elements a tuple of a packed message has.                         *)
(***************************************************************************)
MateCount(t) == Cardinality(MatesIn(placed, t))

(* An element of the history is in its tuple at the index its ID says.     *)
LEMMA MateIndex ==
  ASSUME Sendable, Message, NEW t, NEW j \in MatesIn(placed, t)
  PROVE  /\ j \in 1 .. Len(placed) /\ t = Start(j) /\ t \in Nat
         /\ placed[j].id \in Nat /\ TupleId(mem, t) \in Nat
         /\ placed[j].id - TupleId(mem, t) \in 0 .. MateCount(t) - 1
         /\ Carries(mem, t, MateCount(t), ElemOf(placed[j].id), Datum(j))
<1>1. j \in 1 .. Len(placed) /\ t = Start(j)
  BY DEF MatesIn, Start
<1>2. /\ placed[j].id \in Nat /\ Start(j) \in Nat /\ mem \in Memory
      /\ ItemsCarried /\ TablesInWords /\ Underway /\ InMemory(Start(j), 8)
  BY <1>1, MessagePlaces DEF Chained
<1>3. Carries(mem, t, MateCount(t), ElemOf(placed[j].id), Datum(j))
  BY <1>1, <1>2 DEF ItemsCarried, MateCount
<1>4. ElemOf(placed[j].id).id = placed[j].id
  BY <1>1, <1>2, PlacedElem DEF Message
<1>5. placed[j].id - TupleId(mem, t) \in 0 .. MateCount(t) - 1
  BY <1>3, <1>4 DEF Carries
<1>6. TupleId(mem, t) \in Nat
  <2>1. t \in Nat /\ t + 8 <= 2 * Cells
    BY <1>1, <1>2 DEF InMemory
  <2> QED  BY <1>2, <2>1, HeaderType, U16Elim
<1> QED  BY <1>1, <1>2, <1>3, <1>5, <1>6

(* The IDs of a tuple's items are as many as it has items, from its own on:*)
(* each item is at the index its ID says, and no two have the same.        *)
LEMMA TupleItems ==
  ASSUME Sendable, Message, NEW t \in Starts
  PROVE  /\ MateCount(t) \in Nat /\ MateCount(t) >= 1
         /\ TupleId(mem, t) \in Nat
         /\ ItemIds(t) = TupleId(mem, t) .. TupleId(mem, t) + MateCount(t) - 1
<1> DEFINE mates == MatesIn(placed, t)
           base  == TupleId(mem, t)
           k     == MateCount(t)
           f     == [j \in mates |-> placed[j].id - base]
<1>1. PICK i \in 1 .. Len(placed) : t = placed[i].tuple
  BY DEF Starts, StartsIn
<1>2. i \in mates
  BY <1>1 DEF MatesIn
<1>3. IsFiniteSet(mates)
  <2>1. Len(placed) \in Nat /\ mates \subseteq 1 .. Len(placed)
    BY MessagePlaces DEF MatesIn
  <2>2. IsFiniteSet(1 .. Len(placed))
    BY <2>1, FS_Interval
  <2> HIDE DEF mates
  <2> QED  BY <2>1, <2>2, FS_Subset
<1>4. k \in Nat /\ k = Cardinality(mates) /\ k # 0
  BY <1>2, <1>3, FS_CardinalityType, FS_EmptySet DEF MateCount
<1>5. base \in Nat
  BY <1>2, MateIndex
<1>6. \A j \in mates : placed[j].id \in Nat /\ placed[j].id - base \in 0 .. k - 1
  BY MateIndex
<1>7. \A a, b \in mates : placed[a].id = placed[b].id => a = b
  <2> SUFFICES ASSUME NEW a \in mates, NEW b \in mates,
                      placed[a].id = placed[b].id
               PROVE  a = b
    OBVIOUS
  <2>1. a \in 1 .. Len(placed) /\ b \in 1 .. Len(placed)
    BY DEF MatesIn
  <2>2. placed[a].id \in Nat /\ ~ placed[a].id < placed[b].id
        /\ ~ placed[b].id < placed[a].id
    BY <1>6
  <2>3. ~ a < b /\ ~ b < a
    BY <2>1, <2>2, MessagePlaces
  <2>4. a \in Int /\ b \in Int
    BY <2>1
  <2> QED  BY <2>3, <2>4
<1> HIDE DEF mates, base, k
<1>8. f \in Injection(mates, 0 .. k - 1)
  <2>1. f \in [mates -> 0 .. k - 1]
    BY <1>6
  <2>2. \A a, b \in mates : f[a] = f[b] => a = b
    BY <1>5, <1>6, <1>7
  <2> QED  BY <2>1, <2>2 DEF Injection, IsInjective
<1>9. IsFiniteSet(0 .. k - 1) /\ Cardinality(0 .. k - 1) = k
  <2>1. k - 1 \in Int /\ 0 \in Int /\ ~ 0 > k - 1
    BY <1>4
  <2>2. /\ IsFiniteSet(0 .. k - 1)
        /\ Cardinality(0 .. k - 1) = IF 0 > k - 1 THEN 0 ELSE k - 1 - 0 + 1
    BY <2>1, FS_Interval
  <2> QED  BY <1>4, <2>1, <2>2
<1>10. f \in Surjection(mates, 0 .. k - 1)
  <2> HIDE DEF f
  <2> QED  BY <1>4, <1>8, <1>9, FS_Injection
<1>11. \A x \in 0 .. k - 1 : \E j \in mates : placed[j].id - base = x
  BY <1>10 DEF Surjection
<1>12. {placed[j].id : j \in mates} = base .. base + k - 1
  <2>1. \A j \in mates : placed[j].id \in base .. base + k - 1
    BY <1>4, <1>5, <1>6
  <2>2. \A y \in base .. base + k - 1 : \E j \in mates : placed[j].id = y
    <3> TAKE y \in base .. base + k - 1
    <3>1. y - base \in 0 .. k - 1
      BY <1>4, <1>5
    <3>2. PICK j \in mates : placed[j].id - base = y - base
      BY <1>11, <3>1
    <3> QED  BY <1>5, <1>6, <3>2
  <2> QED  BY <2>1, <2>2
<1> QED  BY <1>4, <1>5, <1>12 DEF ItemIds, mates, base, k

(* Elements are found again by their places, and in the order of IDs.      *)
LEMMA ActionElems ==
  ASSUME Sendable, Message
  PROVE  /\ \A e \in Elems(action) : /\ e.id \in Nat /\ ElemOf(e.id) = e
                                     /\ e.type \in HalfWordTypes \cup WordTypes
                                     /\ \E j \in 1 .. Len(placed) :
                                          placed[j].id = e.id
         /\ \A j \in 1 .. Len(placed) : /\ ElemOf(placed[j].id) \in Elems(action)
                                        /\ ElemOf(placed[j].id).id = placed[j].id
<1>1. Known(action) /\ Underway /\ TablesInWords
  BY MessagePlaces
<1>2. \A e \in Elems(action) : e.id \in Nat /\ ElemOf(e.id) = e
  BY <1>1, KnownElems, ElemById
<1>3. \A e \in Elems(action) : e.type \in HalfWordTypes \cup WordTypes
  BY <1>1 DEF Sendable, WholeWords
<1>4. \A e \in Elems(action) : \E j \in 1 .. Len(placed) : placed[j].id = e.id
  BY AllPlaced DEF MemberIds, PlacedIds
<1>5. \A j \in 1 .. Len(placed) : /\ ElemOf(placed[j].id) \in Elems(action)
                                  /\ ElemOf(placed[j].id).id = placed[j].id
  BY <1>1, PlacedElem DEF Message
<1> QED  BY <1>2, <1>3, <1>4, <1>5

(* What kind of tuple an element is in says whether it is a half-word.     *)
LEMMA MateType ==
  ASSUME Sendable, Message, NEW t, NEW j \in MatesIn(placed, t)
  PROVE  LET e == ElemOf(placed[j].id)
         IN /\ TupleType(mem, t) \in {HD, HD_ARRAY} <=> ipct_get_type(e.type) = HD
            /\ TupleType(mem, t) \notin {HD, HD_ARRAY}
                 <=> ipct_get_type(e.type) = STD
            /\ TupleType(mem, t) \in {STD, HD, STD_ARRAY, HD_ARRAY}
<1> DEFINE e == ElemOf(placed[j].id)
           kind == TupleType(mem, t)
           of   == ipct_get_type(e.type)
           half == e.type \in HalfWordTypes
<1>1. Carries(mem, t, MateCount(t), e, Datum(j)) /\ j \in 1 .. Len(placed)
  BY MateIndex
<1>2. /\ half => kind \in {HD, HD_ARRAY}
      /\ ~ half => kind \in {STD, STD_ARRAY}
  BY <1>1 DEF Carries
<1>3. (half => of = HD) /\ (~ half => of = STD)
  BY DEF ipct_get_type
<1> HIDE DEF kind, of, half
<1>4. CASE half
  <2>1. of = 1 /\ kind \in {1, 3}
    BY <1>2, <1>3, <1>4 DEF HD, HD_ARRAY
  <2> QED  BY <2>1 DEF HD, STD, HD_ARRAY, STD_ARRAY, of, kind
<1>5. CASE ~ half
  <2>1. of = 0 /\ kind \in {0, 2}
    BY <1>2, <1>3, <1>5 DEF STD, STD_ARRAY
  <2> QED  BY <2>1 DEF HD, STD, HD_ARRAY, STD_ARRAY, of, kind
<1> QED  BY <1>4, <1>5

(* Elements with consecutive IDs and types of the same kind are in the     *)
(* same tuple.                                                             *)
LEMMA NeighboursTogether ==
  ASSUME Sendable, Message, NEW i \in 1 .. Len(placed), NEW j \in 1 .. Len(placed),
         placed[j].id = placed[i].id + 1,
         ipct_get_type(ElemOf(placed[i].id).type)
           = ipct_get_type(ElemOf(placed[j].id).type)
  PROVE  Start(i) = Start(j)
<1>1. /\ \A a \in 1 .. Len(placed) : placed[a].id \in Nat
      /\ \A a, b \in 1 .. Len(placed) : a < b => placed[a].id < placed[b].id
      /\ Len(placed) \in Nat
  BY MessagePlaces
<1>2. i < j
  <2>1. ~ j < i /\ j # i
    BY <1>1
  <2> QED  BY <2>1
<1>3. j = i + 1
  <2> SUFFICES ASSUME j # i + 1 PROVE FALSE
    OBVIOUS
  <2>1. i + 1 \in 1 .. Len(placed) /\ i < i + 1 /\ i + 1 < j
    BY <1>1, <1>2
  <2>2. placed[i].id < placed[i + 1].id /\ placed[i + 1].id < placed[j].id
    BY <1>1, <2>1
  <2> QED  BY <1>1, <2>1, <2>2
<1>4. i \in 1 .. Len(placed) - 1
  BY <1>1, <1>3
<1>5. ElemOf(placed[j].id).id = ElemOf(placed[i].id).id + 1
  BY ActionElems
<1>6. ElemOf(placed[i].id).type \in HalfWordTypes
        <=> ElemOf(placed[j].id).type \in HalfWordTypes
  BY DEF ipct_get_type, HD, STD
<1> QED  BY <1>3, <1>4, <1>5, <1>6 DEF Message, ArraysAreRuns, Start

(* A tuple has the elements that share one by the rule of the packer.      *)
LEMMA TupleIsRun ==
  ASSUME Sendable, Message, NEW t \in Starts,
         NEW e \in Elems(action), e.id \in ItemIds(t)
  PROVE  \A f \in Elems(action) :
           f \in SameTuple(action, e) <=> f.id \in ItemIds(t)
<1> DEFINE base == TupleId(mem, t)
           k    == MateCount(t)
           type == ipct_get_type(e.type)
<1>1. k \in Nat /\ k >= 1 /\ base \in Nat /\ ItemIds(t) = base .. base + k - 1
  BY TupleItems
<1>2. \A f \in Elems(action) : f.id \in Nat /\ ElemOf(f.id) = f
  BY ActionElems
<1>3. ASSUME NEW x \in ItemIds(t)
      PROVE  \E g \in Elems(action) : g.id = x /\ ipct_get_type(g.type) = type
  <2>1. PICK j \in MatesIn(placed, t) : placed[j].id = x
    BY DEF ItemIds
  <2>2. PICK i \in MatesIn(placed, t) : placed[i].id = e.id
    BY DEF ItemIds
  <2>3. j \in 1 .. Len(placed) /\ i \in 1 .. Len(placed)
    BY DEF MatesIn
  <2>4. ElemOf(placed[i].id) = e
    BY <1>2, <2>2
  <2>5. /\ ipct_get_type(ElemOf(placed[j].id).type) = HD <=> type = HD
        /\ ipct_get_type(ElemOf(placed[j].id).type) = STD <=> type = STD
    BY <2>4, MateType
  <2>6. type = HD \/ type = STD
    BY DEF ipct_get_type
  <2>7. ipct_get_type(ElemOf(placed[j].id).type) = type
    <3> HIDE DEF type
    <3> QED  BY <2>5, <2>6
  <2> QED  BY <2>1, <2>3, <2>7, ActionElems
<1>4. ASSUME NEW f \in Elems(action), f.id \in ItemIds(t)
      PROVE  f \in SameTuple(action, e)
  <2>1. \A x \in (e.id .. f.id) \cup (f.id .. e.id) : x \in ItemIds(t)
    <3>1. e.id \in base .. base + k - 1 /\ f.id \in base .. base + k - 1
      BY <1>1, <1>4
    <3> HIDE DEF base, k
    <3> QED  BY <1>1, <3>1
  <2> QED  BY <1>3, <1>4, <2>1 DEF SameTuple
<1>5. ASSUME NEW i \in 1 .. Len(placed), NEW j \in 1 .. Len(placed),
             ipct_get_type(ElemOf(placed[i].id).type) = type,
             ipct_get_type(ElemOf(placed[j].id).type) = type,
             placed[j].id = placed[i].id + 1
      PROVE  placed[i].id \in ItemIds(t) <=> placed[j].id \in ItemIds(t)
  <2>1. Start(i) = Start(j)
    BY <1>5, NeighboursTogether
  <2>2. ASSUME NEW a \in 1 .. Len(placed), NEW b \in 1 .. Len(placed),
               Start(a) = Start(b), placed[a].id \in ItemIds(t)
        PROVE  placed[b].id \in ItemIds(t)
    <3>1. PICK c \in MatesIn(placed, t) : placed[c].id = placed[a].id
      BY <2>2 DEF ItemIds
    <3>2. c \in 1 .. Len(placed) /\ Start(c) = t
      BY DEF MatesIn, Start
    <3>3. c = a
      BY <3>1, <3>2, MessagePlaces
    <3> QED  BY <2>2, <3>2, <3>3 DEF ItemIds, MatesIn, Start
  <2> QED  BY <2>1, <2>2
<1>6. ASSUME NEW f \in Elems(action), f \in SameTuple(action, e)
      PROVE  f.id \in ItemIds(t)
  <2>1. ASSUME NEW x \in (e.id .. f.id) \cup (f.id .. e.id)
        PROVE  \E j \in 1 .. Len(placed) :
                 placed[j].id = x /\ ipct_get_type(ElemOf(placed[j].id).type) = type
    <3>1. PICK g \in Elems(action) : g.id = x /\ ipct_get_type(g.type) = type
      BY <1>6 DEF SameTuple
    <3>2. PICK j \in 1 .. Len(placed) : placed[j].id = x
      BY <3>1, ActionElems
    <3> QED  BY <1>2, <3>1, <3>2
  <2>2. ASSUME NEW x \in Nat, x \in (e.id .. f.id) \cup (f.id .. e.id),
               x + 1 \in (e.id .. f.id) \cup (f.id .. e.id)
        PROVE  x \in ItemIds(t) <=> x + 1 \in ItemIds(t)
    <3>1. PICK i \in 1 .. Len(placed) :
            placed[i].id = x /\ ipct_get_type(ElemOf(placed[i].id).type) = type
      BY <2>1, <2>2
    <3>2. PICK j \in 1 .. Len(placed) :
            placed[j].id = x + 1 /\ ipct_get_type(ElemOf(placed[j].id).type) = type
      BY <2>1, <2>2
    <3> HIDE DEF type
    <3> QED  BY <1>5, <3>1, <3>2
  <2>3. e.id \in base .. base + k - 1 /\ e.id \in Nat /\ f.id \in Nat
    BY <1>1, <1>2
  <2> SUFFICES ASSUME f.id \notin ItemIds(t) PROVE FALSE
    OBVIOUS
  <2>4. f.id < base \/ f.id > base + k - 1
    BY <1>1, <2>3
  <2>5. CASE f.id < base
    <3> DEFINE x == base - 1
    <3>1. /\ x \in Nat /\ x \notin base .. base + k - 1
          /\ x + 1 \in base .. base + k - 1
          /\ x \in f.id .. e.id /\ x + 1 \in f.id .. e.id
      BY <1>1, <2>3, <2>5
    <3> HIDE DEF x, base, k
    <3> QED  BY <1>1, <2>2, <3>1
  <2>6. CASE f.id > base + k - 1
    <3> DEFINE x == base + k - 1
    <3>1. /\ x \in Nat /\ x \in base .. base + k - 1
          /\ x + 1 \notin base .. base + k - 1
          /\ x \in e.id .. f.id /\ x + 1 \in e.id .. f.id
      BY <1>1, <2>3, <2>6
    <3> HIDE DEF x, base, k
    <3> QED  BY <1>1, <2>2, <3>1
  <2> QED  BY <2>4, <2>5, <2>6
<1> QED  BY <1>4, <1>6

(* An array of half-words has an even number of them.                      *)
LEMMA EvenArray ==
  ASSUME Sendable, Message, NEW t \in Starts, TupleType(mem, t) = HD_ARRAY
  PROVE  MateCount(t) % 2 = 0
<1>1. /\ MateCount(t) \in Nat /\ MateCount(t) >= 1
      /\ TupleId(mem, t) \in Nat
      /\ ItemIds(t) = TupleId(mem, t) .. TupleId(mem, t) + MateCount(t) - 1
  BY TupleItems
<1> DEFINE base == TupleId(mem, t)
           k    == MateCount(t)
<1>2. PICK j \in MatesIn(placed, t) : placed[j].id = base
  <2>1. base \in base .. base + k - 1
    BY <1>1
  <2> QED  BY <1>1, <2>1 DEF ItemIds
<1> DEFINE e == ElemOf(placed[j].id)
<1>3. e \in Elems(action) /\ e.id = base /\ e.id \in ItemIds(t)
  BY <1>2, ActionElems DEF MatesIn, ItemIds
<1>4. ipct_get_type(e.type) = HD
  BY MateType
<1>5. k >= 2
  <2>1. Carries(mem, t, k, e, Datum(j))
    BY MateIndex
  <2>2. HD_ARRAY \in ArrayTypes
    BY DEF ArrayTypes
  <2> QED  BY <2>1, <2>2 DEF Carries
<1> DEFINE S == SameTuple(action, e)
<1>6. /\ S \subseteq Elems(action)
      /\ \A f \in Elems(action) : f \in S <=> f.id \in ItemIds(t)
  <2>1. S \subseteq Elems(action)
    BY DEF SameTuple
  <2> HIDE DEF e
  <2> QED  BY <1>3, <2>1, TupleIsRun
<1> HIDE DEF e, S
<1>7. Cardinality(S) = k
  <2> DEFINE g == [x \in base .. base + k - 1 |-> ElemOf(x)]
  <2>1. \A x \in base .. base + k - 1 : ElemOf(x) \in S /\ ElemOf(x).id = x
    <3> TAKE x \in base .. base + k - 1
    <3>1. PICK i \in MatesIn(placed, t) : placed[i].id = x
      BY <1>1 DEF ItemIds
    <3>2. i \in 1 .. Len(placed)
      BY DEF MatesIn
    <3> QED  BY <1>1, <1>6, <3>1, <3>2, ActionElems
  <2>2. \A f \in S : f.id \in base .. base + k - 1 /\ ElemOf(f.id) = f
    BY <1>1, <1>6, ActionElems
  <2> DEFINE R == base .. base + k - 1
  <2>3. IsFiniteSet(R) /\ Cardinality(R) = k
    <3> DEFINE last == base + k - 1
    <3>1. base \in Int /\ last \in Int /\ ~ base > last /\ last - base + 1 = k
      BY <1>1
    <3> HIDE DEF base, last
    <3>2. /\ IsFiniteSet(base .. last)
          /\ Cardinality(base .. last) = IF base > last THEN 0 ELSE last - base + 1
      BY <3>1, FS_Interval
    <3> QED  BY <3>1, <3>2 DEF last
  <2> HIDE DEF R
  <2>4. g \in Bijection(R, S)
    <3>1. g \in [R -> S]
      BY <2>1 DEF R
    <3>2. \A x, y \in R : g[x] = g[y] => x = y
      BY <2>1 DEF R
    <3>3. \A f \in S : \E x \in R : g[x] = f
      BY <2>2 DEF R
    <3> HIDE DEF g
    <3> QED  BY <3>1, <3>2, <3>3, Fun_IsBij
  <2>5. ExistsBijection(R, S)
    BY <2>4 DEF ExistsBijection
  <2> QED  BY <2>3, <2>5, FS_Bijection
<1>8. WholeWords(action) /\ e \in Halves(action)
  BY <1>3, <1>4, MessagePlaces DEF Sendable, Halves
<1>9. S # {e}
  BY <1>5, <1>7, FS_Singleton
<1>10. Cardinality(S) % 2 = 0
  BY <1>3, <1>8, <1>9 DEF WholeWords, S
<1> QED  BY <1>7, <1>10

(* Every tuple is a number of words that start on a word, in the message,  *)
(* of one of the four types the packer makes.                              *)
LEMMA TupleWords ==
  ASSUME Sendable, Message, NEW t \in Starts
  PROVE  /\ t \in Nat /\ t >= HdrSize(mem) /\ t + 8 <= 2 * Cells /\ t % 4 = 0
         /\ TupleType(mem, t) \in {STD, HD, STD_ARRAY, HD_ARRAY}
         /\ tuple_data_count(mem, t) = MateCount(t)
         /\ tuple_size(mem, t) \in Nat /\ tuple_size(mem, t) >= 4
         /\ tuple_size(mem, t) % 4 = 0
         /\ TupleEnd(t) <= ret /\ ret = offset /\ ret \in Nat
<1>1. PICK i \in 1 .. Len(placed) : t = placed[i].tuple
  BY DEF Starts, StartsIn
<1>2. t = Start(i) /\ i \in MatesIn(placed, t)
  BY <1>1 DEF Start, MatesIn
<1>3. /\ TablesInWords /\ WholeInv /\ CarryInv /\ Underway /\ mem \in Memory
      /\ Headed /\ AlignInv
  BY MessagePlaces DEF Message, WholeInv, WalkInv
<1>4. /\ t \in Nat /\ t >= HdrSize(mem) /\ t + 8 <= 2 * Cells
      /\ tuple_size(mem, t) \in Nat /\ tuple_size(mem, t) >= 4
      /\ TupleEnd(t) <= offset
  BY <1>2, <1>3, PlacedTuple DEF InMemory
<1>5. t % 4 = 0 /\ offset \in Nat /\ ret = offset
  BY <1>1, <1>3 DEF AlignInv, TuplesWordAligned, TypeOK, Headed
<1> DEFINE e == ElemOf(placed[i].id)
           k == MateCount(t)
           size == elem_get_data_size(e)
           type == TupleType(mem, t)
<1>6. Carries(mem, t, k, e, Datum(i))
  BY <1>2, MateIndex
<1>7. /\ Sized(e)
      /\ e.type \in HalfWordTypes => size = 2
      /\ e.type \notin HalfWordTypes => size = 4
  BY ActionElems, WordSizes
<1>8. k \in Nat
  BY TupleItems
<1>9. tuple_data_count(mem, t) = k
  <2> HIDE DEF k, e
  <2> QED  BY <1>3, <1>4, <1>6, <1>7, <1>8, CarriesSize
<1>10. type \in {STD, HD, STD_ARRAY, HD_ARRAY}
  BY <1>2, MateType
<1>11. Count(mem, t) \in Nat
  BY <1>3, <1>4, HeaderType, U16Elim
<1>12. tuple_size(mem, t) % 4 = 0
  <2>1. CASE type = STD \/ type = STD_ARRAY
    <3>1. tuple_size(mem, t) = 4 + 4 * Count(mem, t)
      BY <2>1, Accessors
    <3> QED  BY <1>11, <3>1
  <2>2. CASE type = HD
    <3>1. tuple_size(mem, t) = 4
      BY <2>2, Accessors
    <3> QED  BY <3>1
  <2>3. CASE type = HD_ARRAY
    <3>1. tuple_size(mem, t) = 4 + 2 * Count(mem, t)
      BY <2>3, Accessors
    <3>2. tuple_data_count(mem, t) = Count(mem, t)
      BY <2>3, Accessors
    <3>3. k % 2 = 0 /\ Count(mem, t) = k
      BY <1>9, <2>3, <3>2, EvenArray
    <3> HIDE DEF k
    <3> QED  BY <1>8, <3>1, <3>3
  <2> QED  BY <1>10, <2>1, <2>2, <2>3
<1> QED  BY <1>4, <1>5, <1>9, <1>10, <1>12

(* The next tuple starts where one ends, the last ends with the message;   *)
(* the first is behind the header, which says where the last one ends.     *)
LEMMA TuplesInARow ==
  ASSUME Sendable, Message
  PROVE  /\ \A t \in Starts : TupleEnd(t) \in Starts \cup {ret}
         /\ \A t \in Starts : t < ret
         /\ HdrSize(mem) \in Starts
         /\ HdrSize(mem) + ipct_get_size(mem) = ret
         /\ HasElems(mem) /\ ret \in Nat /\ ret <= 2 * Cells
<1>1. /\ placed # <<>> /\ Len(placed) \in Nat /\ Chained /\ Headed /\ Counted
      /\ \A a, b \in 1 .. Len(placed) : a < b => placed[a].id < placed[b].id
      /\ \A a \in 1 .. Len(placed) : placed[a].id \in Nat
  BY MessagePlaces
<1>2. placed \in Seq(Placement) /\ offset \in Nat /\ ctx \in Context
  BY MessagePlaces DEF Message, WholeInv, WalkInv, AlignInv, TypeOK, Packed
<1>3. Len(placed) >= 1
  BY <1>1, <1>2
<1>4. HdrSize(mem) \in Starts
  <2>1. 1 \in 1 .. Len(placed)
    BY <1>1, <1>3
  <2> QED  BY <1>1, <2>1 DEF Chained, Starts, StartsIn, Start
<1>5. ASSUME NEW t \in Starts
      PROVE  TupleEnd(t) \in Starts \cup {ret}
  <2> DEFINE base == TupleId(mem, t)
             k    == MateCount(t)
  <2>1. /\ k \in Nat /\ k >= 1 /\ base \in Nat
        /\ ItemIds(t) = base .. base + k - 1
    BY TupleItems
  <2>2. PICK j \in MatesIn(placed, t) : placed[j].id = base + k - 1
    <3>1. base + k - 1 \in ItemIds(t)
      BY <2>1
    <3> QED  BY <3>1 DEF ItemIds
  <2>3. j \in 1 .. Len(placed) /\ Start(j) = t
    BY DEF MatesIn, Start
  <2>4. CASE j = Len(placed)
    BY <1>1, <2>3, <2>4 DEF Chained, Headed, Latest, Start
  <2>5. CASE j # Len(placed)
    <3>1. j + 1 \in 1 .. Len(placed) /\ j \in 1 .. Len(placed) - 1 /\ j < j + 1
      BY <1>1, <2>3, <2>5
    <3>2. placed[j + 1].id > base + k - 1 /\ placed[j + 1].id \in Nat
      <4>1. placed[j].id < placed[j + 1].id /\ placed[j + 1].id \in Nat
        BY <1>1, <2>3, <3>1
      <4> HIDE DEF base, k
      <4> QED  BY <2>1, <2>2, <4>1
    <3>3. placed[j + 1].id \notin ItemIds(t)
      <4> HIDE DEF base, k
      <4> QED  BY <2>1, <3>2
    <3>4. Start(j + 1) # t
      BY <3>1, <3>3 DEF ItemIds, MatesIn, Start
    <3>5. Start(j + 1) = Align(TupleEnd(t))
      BY <1>1, <2>3, <3>1, <3>4 DEF Chained
    <3>6. Align(TupleEnd(t)) = TupleEnd(t)
      <4>1. /\ t \in Nat /\ t % 4 = 0
            /\ tuple_size(mem, t) \in Nat /\ tuple_size(mem, t) % 4 = 0
        BY TupleWords
      <4>2. TupleEnd(t) \in Nat /\ TupleEnd(t) % 4 = 0
        BY <4>1 DEF TupleEnd
      <4> QED  BY <4>2 DEF Align
    <3> QED  BY <3>1, <3>5, <3>6 DEF Starts, StartsIn, Start
  <2> QED  BY <2>4, <2>5
<1>6. \A t \in Starts : t < ret
  <2> TAKE t \in Starts
  <2>1. /\ t \in Nat /\ tuple_size(mem, t) \in Nat /\ tuple_size(mem, t) >= 4
        /\ TupleEnd(t) <= ret /\ ret \in Nat
    BY TupleWords
  <2> QED  BY <2>1 DEF TupleEnd
<1>7. ret = offset /\ ret \in Nat /\ ret <= 2 * Cells /\ HasElems(mem)
  <2>1. offset < ctx.dest_size /\ ctx.dest_size \in DestSizes
    BY <1>1, <1>2 DEF Chained, Context
  <2>2. ctx.dest_size \in Nat /\ ctx.dest_size + 8 <= 2 * Cells /\ Cells \in Nat
    BY <2>1, MemoryAssumption
  <2> QED  BY <1>1, <1>2, <2>1, <2>2 DEF Headed, Counted
<1>8. HdrSize(mem) + ipct_get_size(mem) = ret
  <2> DEFINE t == Latest.tuple
  <2>1. t \in Starts /\ TupleEnd(t) = ret
    <3>1. Len(placed) \in 1 .. Len(placed)
      BY <1>1, <1>3
    <3> QED  BY <1>1, <1>7, <3>1 DEF Chained, Latest, Starts, StartsIn
  <2>2. /\ t \in Nat /\ t % 4 = 0
        /\ tuple_size(mem, t) \in Nat /\ tuple_size(mem, t) % 4 = 0
    BY <2>1, TupleWords
  <2>3. ret % 4 = 0
    BY <2>1, <2>2 DEF TupleEnd
  <2>4. HdrSize(mem) \in Nat /\ HdrSize(mem) % 4 = 0 /\ HdrSize(mem) <= ret
    BY <1>4, <1>6, TupleWords
  <2>5. ipct_get_size(mem) = 4 * ((ret - HdrSize(mem)) \div 4)
    BY <1>1, <1>7 DEF Headed
  <2> DEFINE h == HdrSize(mem)
  <2>6. h + 4 * ((ret - h) \div 4) = ret
    <3> HIDE DEF h
    <3> SUFFICES ASSUME h \in Nat, h % 4 = 0, h <= ret
                 PROVE  h + 4 * ((ret - h) \div 4) = ret
      BY <2>4 DEF h
    <3>1. (ret - h) % 4 = 0 /\ ret - h \in Nat
      BY <1>7, <2>3
    <3> DEFINE r == ret - h
    <3>2. r \in Nat /\ r % 4 = 0 /\ ret = h + r
      BY <1>7, <3>1
    <3> HIDE DEF r
    <3>3. 4 * (r \div 4) = r
      BY <3>2
    <3> QED  BY <3>2, <3>3 DEF r
  <2> QED  BY <2>5, <2>6
<1> QED  BY <1>4, <1>5, <1>6, <1>7, <1>8

-----------------------------------------------------------------------------
(***************************************************************************)
(* The receiver's walk.                                                    *)
(***************************************************************************)

(* The receiver's one invocation of tuple_for_each is at t, with n tuples  *)
(* to go: no tuple of a packed message nests another.                      *)
WalkAt(t, n) == frames = <<U!Frame(t, n, ret)>>

(* Where the receiver is.                                                  *)
ReceiverAt ==
  /\ rx_pc \in {"idle", "header", "tuples", "item", "done"}
  /\ rx_pc = "idle" => NothingReceived
  /\ rx_pc # "idle" => Packed
  /\ rx_pc = "header" => frames = <<>>
  /\ rx_pc \in {"tuples", "item"} => frames # <<>> /\ end = ret
  /\ frames # <<>> => \E t \in Starts \cup {ret}, n \in Nat : WalkAt(t, n)
  /\ rx_pc = "item" => \E t \in Starts, n \in Nat \ {0} : WalkAt(t, n)

(* Both programs read a message by the same library.                       *)
LEMMA SameAccessors ==
  ASSUME NEW m, NEW t
  PROVE  /\ U!TupleType(m, t) = TupleType(m, t)
         /\ U!TupleId(m, t) = TupleId(m, t)
         /\ U!tuple_size(m, t) = tuple_size(m, t)
         /\ U!tuple_data_count(m, t) = tuple_data_count(m, t)
         /\ U!tuple_data_size(m, t) = tuple_data_size(m, t)
         /\ \A i : U!tuple_get_data(m, t, i) = tuple_get_data(m, t, i)
<1> USE DEF U!Half, Half, U!TupleType, TupleType, U!Count, Count,
        U!ElemBytes, ElemBytes, U!STD, STD, U!HD, HD, U!STD_ARRAY, STD_ARRAY,
        U!HD_ARRAY, HD_ARRAY, U!VAR_ARRAY, VAR_ARRAY,
        U!TUPLE_ARRAY, TUPLE_ARRAY, U!SizeofStd, SizeofStd,
        U!SizeofMicro, SizeofMicro, U!SizeofVar, SizeofVar, U!VarData, VarData
<1>1. U!TupleType(m, t) = TupleType(m, t)
  OBVIOUS
<1>2. U!TupleId(m, t) = TupleId(m, t)
  BY DEF U!TupleId, TupleId
<1>3. U!tuple_size(m, t) = tuple_size(m, t)
  BY DEF U!tuple_size, tuple_size
<1>4. U!tuple_data_count(m, t) = tuple_data_count(m, t)
  BY DEF U!tuple_data_count, tuple_data_count
<1>5. U!tuple_data_size(m, t) = tuple_data_size(m, t)
  BY DEF U!tuple_data_size, tuple_data_size
<1>6. \A i : U!tuple_get_data(m, t, i) = tuple_get_data(m, t, i)
  BY DEF U!tuple_get_data, tuple_get_data
<1> QED  BY <1>1, <1>2, <1>3, <1>4, <1>5, <1>6

(* The macros of the header are the same on both sides. *)
LEMMA SameHeader ==
  ASSUME NEW m
  PROVE  /\ U!HdrSize(m) = HdrSize(m) /\ (U!HasElems(m) <=> HasElems(m))
         /\ U!ipct_get_tuples(m) = ipct_get_tuples(m)
         /\ U!ipct_get_size(m) = ipct_get_size(m)
         /\ U!ElemsPtr(m) = ElemsPtr(m)
<1> USE DEF U!Half, Half, U!HasRoute, HasRoute, U!HasElems, HasElems,
        U!RouteBit, RouteBit, U!ElemsBit, ElemsBit, U!RouteAdd, RouteAdd,
        U!ElemsAdd, ElemsAdd, U!SizeofHdr, SizeofHdr, U!SizeofRoute, SizeofRoute,
        U!SizeofElems, SizeofElems, U!ElemsPtr, ElemsPtr
<1>1. U!HdrSize(m) = HdrSize(m)
  BY DEF U!HdrSize, HdrSize
<1>2. U!HasElems(m) <=> HasElems(m)
  OBVIOUS
<1>3. U!ipct_get_tuples(m) = ipct_get_tuples(m)
  BY DEF U!ipct_get_tuples, ipct_get_tuples
<1>4. U!ipct_get_size(m) = ipct_get_size(m)
  BY DEF U!ipct_get_size, ipct_get_size
<1>5. U!ElemsPtr(m) = ElemsPtr(m)
  OBVIOUS
<1> QED  BY <1>1, <1>2, <1>3, <1>4, <1>5

(* The cursor of the receiver, and where it goes next.                     *)
LEMMA CursorAt ==
  ASSUME NEW t \in Nat, NEW n \in Nat, ret \in Nat, WalkAt(t, n)
  PROVE  /\ Len(frames) = 1 /\ U!tuple = t
         /\ U!More <=> n # 0 /\ t # ret
         /\ tuple_size(mem, t) \in Nat =>
              U!NextTuple(frames) = <<U!Frame(TupleEnd(t), n - 1, ret)>>
<1> DEFINE f == U!Frame(t, n, ret)
<1>1. frames = <<f>>
  BY DEF WalkAt
<1>2. f.tuple = t /\ f.remaining_bytes = ret - t /\ f.tuples_remain = n
  BY DEF U!Frame
<1> HIDE DEF f
<1>3. Len(frames) = 1 /\ frames[Len(frames)] = f
  BY <1>1
<1>4. U!Current = f
  BY <1>3 DEF U!Current
<1>5. U!tuple = t
  BY <1>2, <1>4 DEF U!tuple
<1>6. U!More <=> n # 0 /\ t # ret
  BY <1>2, <1>4 DEF U!More
<1>7. ASSUME tuple_size(mem, t) \in Nat
      PROVE  U!NextTuple(frames) = <<U!Frame(TupleEnd(t), n - 1, ret)>>
  <2> DEFINE next == [tuple           |-> t + tuple_size(mem, t),
                      remaining_bytes |-> (ret - t) - tuple_size(mem, t),
                      tuples_remain   |-> n - 1]
  <2>1. U!NextTuple(frames) = [frames EXCEPT ![1] = next]
    BY <1>2, <1>3, SameAccessors DEF U!NextTuple, U!ipc_next_tuple
  <2>2. next = U!Frame(TupleEnd(t), n - 1, ret)
    <3>1. (ret - t) - tuple_size(mem, t) = ret - TupleEnd(t)
      BY <1>7 DEF TupleEnd
    <3> QED  BY <3>1 DEF U!Frame, TupleEnd
  <2> HIDE DEF next
  <2>3. [frames EXCEPT ![1] = next] = <<next>>
    BY <1>1
  <2> QED  BY <2>1, <2>2, <2>3
<1> QED  BY <1>3, <1>5, <1>6, <1>7

(* What the sender's theorems say, whether the message is complete or not. *)
SenderInv == WholeInv /\ CarryInv /\ ArraysAreRuns

(* A step of the receiver leaves the message where it is.                  *)
LEMMA MessageStays ==
  ASSUME Packed, HandOver \/ Unpack
  PROVE  Packed' /\ Starts' = Starts /\ ret' = ret /\ mem' = mem
BY ReceiverReads DEF vars, Packed, Starts

(* The cursor goes from one tuple to the next.                             *)
LEMMA CursorMoves ==
  ASSUME Sendable, Message, NEW t \in Starts, NEW n \in Nat \ {0}, WalkAt(t, n),
         frames' = U!NextTuple(frames), ret' = ret, Starts' = Starts
  PROVE  /\ frames' # <<>>
         /\ \E u \in Starts \cup {ret}, k \in Nat : WalkAt(u, k)'
<1>1. /\ t \in Nat /\ ret \in Nat /\ tuple_size(mem, t) \in Nat
      /\ TupleEnd(t) \in Starts \cup {ret}
  BY TupleWords, TuplesInARow
<1>2. n \in Nat /\ n - 1 \in Nat
  OBVIOUS
<1>3. frames' = <<U!Frame(TupleEnd(t), n - 1, ret)>>
  BY <1>1, <1>2, CursorAt
<1>4. PICK u, k : u = TupleEnd(t) /\ k = n - 1
  OBVIOUS
<1>5. frames' = <<U!Frame(u, k, ret)>>
  BY <1>3, <1>4
<1>6. WalkAt(u, k)'
  BY <1>5 DEF WalkAt
<1>7. frames' # <<>>
  BY <1>5
<1> QED  BY <1>1, <1>2, <1>4, <1>6, <1>7

(* Every step of the receiver keeps it on its way.                         *)
LEMMA ReceiverMoves ==
  ASSUME Sendable, SenderInv, ReceiverAt, Unpack
  PROVE  ReceiverAt'
<1>1. rx_pc \in {"header", "tuples", "item"}
  BY DEF Unpack, U!UnpackStep, U!RejectHeader, U!AcceptHeader, U!RejectTuple,
     U!Nest, U!TooDeep, U!Leave, U!NoData, U!BeginTuple, U!IgnoreRest,
     U!RejectItem, U!InsertItem
<1>2. Packed /\ Message
  BY <1>1 DEF ReceiverAt, SenderInv, Message
<1>3. Packed' /\ Starts' = Starts /\ ret' = ret /\ mem' = mem
  BY <1>2, MessageStays
<1>4. /\ \A t \in Starts : t \in Nat
      /\ ret \in Nat /\ HdrSize(mem) \in Starts
      /\ HdrSize(mem) + ipct_get_size(mem) = ret
  BY <1>2, TupleWords, TuplesInARow
<1>5. ipct_get_tuples(mem) \in Nat
  <2>1. IsFiniteSet(StartsIn(placed))
    <3>1. placed \in Seq(Placement)
      BY <1>2 DEF Message, WholeInv, WalkInv, AlignInv, TypeOK
    <3>2. placed # <<>> /\ Len(placed) \in Nat
      BY <1>2, MessagePlaces
    <3>3. placed[1] \in Placement
      BY <3>1, <3>2
    <3> QED  BY <3>1, <3>3, HistoryGrows
  <2>2. ipct_get_tuples(mem) = Cardinality(StartsIn(placed))
    BY <1>2, MessagePlaces DEF Headed
  <2> QED  BY <2>1, <2>2, FS_CardinalityType
(* The receiver has returned. *)
<1>6. ASSUME frames' = frames, rx_pc' = "done"
      PROVE  ReceiverAt'
  <2>1. (\E t \in Starts \cup {ret}, n \in Nat : WalkAt(t, n)) =>
          \E t \in Starts \cup {ret}, n \in Nat : WalkAt(t, n)'
    BY <1>3, <1>6 DEF WalkAt
  <2>2. frames' # <<>> => \E t \in Starts' \cup {ret'}, n \in Nat : WalkAt(t, n)'
    BY <1>3, <1>6, <2>1 DEF ReceiverAt
  <2> QED  BY <1>3, <1>6, <2>2 DEF ReceiverAt
(* It goes on with the tuple after the one it is at. *)
<1>7. ASSUME rx_pc = "item", rx_pc' = "tuples", end' = end,
             frames' = U!NextTuple(frames)
      PROVE  ReceiverAt'
  <2>1. PICK t \in Starts, n \in Nat \ {0} : WalkAt(t, n)
    BY <1>7 DEF ReceiverAt
  <2>2. /\ frames' # <<>>
        /\ \E u \in Starts \cup {ret}, k \in Nat : WalkAt(u, k)'
    BY <1>2, <1>3, <1>7, <2>1, CursorMoves
  <2>3. \E u \in Starts' \cup {ret'}, k \in Nat : WalkAt(u, k)'
    BY <1>3, <2>2
  <2>4. end' = ret'
    BY <1>3, <1>7 DEF ReceiverAt
  <2> QED  BY <1>3, <1>7, <2>2, <2>3, <2>4 DEF ReceiverAt
<1>8. CASE U!RejectHeader
  BY <1>6, <1>8 DEF U!RejectHeader, U!Return
<1>9. CASE U!AcceptHeader
  <2>1. /\ rx_pc' = "tuples" /\ end' = ret
        /\ frames' = <<U!Frame(HdrSize(mem), ipct_get_tuples(mem), ret)>>
    BY <1>4, <1>9, SameHeader DEF U!AcceptHeader
  <2>2. PICK t, n : t = HdrSize(mem) /\ n = ipct_get_tuples(mem)
    OBVIOUS
  <2>3. WalkAt(t, n)'
    BY <1>3, <2>1, <2>2 DEF WalkAt
  <2>4. t \in Starts' \cup {ret'} /\ n \in Nat
    BY <1>3, <1>4, <1>5, <2>2
  <2>5. frames' # <<>>
    BY <2>1
  <2> QED  BY <1>3, <2>1, <2>3, <2>4, <2>5 DEF ReceiverAt
<1>10. CASE U!RejectTuple \/ U!TooDeep \/ U!NoData
  BY <1>6, <1>10 DEF U!RejectTuple, U!TooDeep, U!NoData, U!Return
<1>11. CASE U!Nest \/ U!BeginTuple \/ U!Leave
  <2>1. rx_pc = "tuples"
    BY <1>11 DEF U!Nest, U!BeginTuple, U!Leave
  <2>2. PICK t \in Starts \cup {ret}, n \in Nat : WalkAt(t, n)
    BY <2>1 DEF ReceiverAt
  <2>3. /\ Len(frames) = 1 /\ U!tuple = t
        /\ U!More <=> n # 0 /\ t # ret
    BY <1>4, <2>2, CursorAt
  <2>4. CASE U!Nest
    <3>1. U!More /\ U!TupleType(mem, t) = U!TUPLE_ARRAY
      BY <2>3, <2>4 DEF U!Nest
    <3>2. t \in Starts /\ TupleType(mem, t) = TUPLE_ARRAY
      BY <2>3, <3>1, SameAccessors DEF U!TUPLE_ARRAY, TUPLE_ARRAY
    <3> QED  BY <1>2, <3>2, TupleWords
             DEF STD, HD, STD_ARRAY, HD_ARRAY, TUPLE_ARRAY
  <2>5. CASE U!BeginTuple
    <3>1. U!More /\ rx_pc' = "item" /\ frames' = frames /\ end' = end
      BY <2>5 DEF U!BeginTuple
    <3>2. t \in Starts' /\ n \in Nat \ {0}
      BY <1>3, <2>3, <3>1
    <3>3. WalkAt(t, n)' /\ frames' # <<>> /\ end' = ret'
      BY <1>3, <2>1, <2>2, <3>1 DEF WalkAt, ReceiverAt
    <3> QED  BY <1>3, <3>1, <3>2, <3>3 DEF ReceiverAt
  <2>6. CASE U!Leave
    BY <1>6, <2>3, <2>6 DEF U!Leave, U!Return
  <2> QED  BY <1>11, <2>4, <2>5, <2>6
<1>12. CASE U!IgnoreRest
  BY <1>7, <1>12 DEF U!IgnoreRest
<1>13. CASE U!RejectItem
  BY <1>6, <1>13 DEF U!RejectItem, U!Return
<1>14. CASE U!InsertItem
  <2>1. CASE frames' = frames /\ rx_pc' = rx_pc
    <3>1. rx_pc = "item" /\ end' = end
      BY <1>14 DEF U!InsertItem
    <3>2. PICK t \in Starts, n \in Nat \ {0} : WalkAt(t, n)
      BY <3>1 DEF ReceiverAt
    <3>3. WalkAt(t, n)' /\ frames' # <<>> /\ end' = ret' /\ rx_pc' = "item"
      BY <1>3, <2>1, <3>1, <3>2 DEF WalkAt, ReceiverAt
    <3>4. t \in Starts'
      BY <1>3, <3>2
    <3> QED  BY <1>3, <3>3, <3>4 DEF ReceiverAt
  <2>2. CASE rx_pc' = "tuples" /\ frames' = U!NextTuple(frames)
    BY <1>7, <1>14, <2>2 DEF U!InsertItem
  <2> QED  BY <1>14, <2>1, <2>2 DEF U!InsertItem
<1> QED
  BY <1>8, <1>9, <1>10, <1>11, <1>12, <1>13, <1>14 DEF Unpack, U!UnpackStep

(* Every other step leaves the receiver where it is, or starts or ends its *)
(* call.                                                                   *)
LEMMA ReceiverIdle ==
  ASSUME rx_pc' = "idle", NothingReceived'
  PROVE  ReceiverAt'
BY DEF ReceiverAt, NothingReceived

(* The receiver starts idle. *)
LEMMA ReceiverInit == PairInit => ReceiverAt
BY DEF PairInit, ReceiverAt, NothingReceived

(* Every step of the pair leaves the receiver where it should be. *)
LEMMA ReceiverStep ==
  ASSUME Sendable, SenderInv, ReceiverAt, [PairNext]_pair
  PROVE  ReceiverAt'
(* The sender is at work only while the receiver is not. *)
<1>1. ASSUME pc # "done", UNCHANGED unpacker
      PROVE  ReceiverAt'
  <2>1. rx_pc = "idle" /\ NothingReceived
    BY <1>1 DEF ReceiverAt, Packed
  <2>2. rx_pc' = "idle" /\ NothingReceived'
    BY <1>1, <2>1 DEF unpacker, NothingReceived
  <2> QED  BY <2>2, ReceiverIdle
<1>2. CASE \E id \in Ids, src \in Sources, ss \in SrcSizes, ds \in DestSizes :
             Send(id, src, ss, ds)
  BY <1>1, <1>2 DEF Send, ipct_msg_pack
<1>3. CASE Pack
  <2>1. pc # "done"
    BY <1>3 DEF Pack, PackStep, BadCall, BeginPack, RejectElem, RejectSingle,
       SingleOverflow, PackSingle, ContOverflow, PackCont, complete_header
  <2> QED  BY <1>1, <1>3, <2>1 DEF Pack
<1>4. CASE HandOver
  <2>1. Packed /\ rx_pc = "idle" /\ rx_pc' = "header" /\ frames' = frames
    BY <1>4 DEF HandOver, U!ipct_msg_unpack, Packed
  <2>2. frames' = <<>>
    BY <2>1 DEF ReceiverAt, NothingReceived
  <2>3. Packed'
    BY <1>4, <2>1, MessageStays
  <2> QED  BY <2>1, <2>2, <2>3 DEF ReceiverAt
<1>5. CASE Unpack
  BY <1>5, ReceiverMoves
<1>6. CASE Finish
  BY <1>6, ReceiverIdle DEF Finish, NothingReceived
<1>7. CASE UNCHANGED pair
  <2>1. UNCHANGED <<pc, ret, mem, placed, rx_pc, end, frames>>
    BY <1>7 DEF pair, packer, unpacker
  <2>2. NothingReceived => NothingReceived'
    BY <1>7 DEF pair, unpacker, NothingReceived
  <2>3. Packed => Packed'
    BY <2>1 DEF Packed
  <2>4. Starts' = Starts
    BY <2>1 DEF Starts
  <2>5. \A t, n : WalkAt(t, n) => WalkAt(t, n)'
    BY <2>1 DEF WalkAt
  <2>6. (\E t \in Starts \cup {ret}, n \in Nat : WalkAt(t, n)) =>
          \E t \in Starts' \cup {ret'}, n \in Nat : WalkAt(t, n)'
    BY <2>1, <2>4, <2>5
  <2>7. (\E t \in Starts, n \in Nat \ {0} : WalkAt(t, n)) =>
          \E t \in Starts', n \in Nat \ {0} : WalkAt(t, n)'
    BY <2>4, <2>5
  <2> QED  BY <2>1, <2>2, <2>3, <2>6, <2>7 DEF ReceiverAt
<1> QED
  BY <1>2, <1>3, <1>4, <1>5, <1>6, <1>7 DEF PairNext

(* What the theorems about packing say holds of a pair's sender.           *)
LEMMA SenderInvariant ==
  ASSUME Sendable
  PROVE  PairSpec => []SenderInv
<1>1. FreshBuffers /\ SizeFits /\ TablesInWords
  BY SendableInWords DEF Sendable
<1>2. Spec => []CarryInv
  BY <1>1, CarryInvariant
<1>3. WholeInv /\ CarryInv /\ ArraysAreRuns => SenderInv
  BY DEF SenderInv
<1> QED  BY <1>2, <1>3, SenderPacks, WholeInvariant, GroupsAreRuns, PTL

(* The receiver of a pair is, whenever it walks, at a tuple the sender     *)
(* started or at the end of the message, and never inside a nested one.    *)
THEOREM ReceiverOnItsWay ==
  ASSUME Sendable
  PROVE  PairSpec => []ReceiverAt
<1>1. SenderInv /\ ReceiverAt /\ [PairNext]_pair => ReceiverAt'
  BY ReceiverStep
<1> QED  BY <1>1, ReceiverInit, SenderInvariant, PTL DEF PairSpec

(* The receiver's cursor is never anywhere but at a tuple the sender       *)
(* started or at the message's end: what tuple_size makes of the tuples    *)
(* agrees with the offsets elem_pack kept, for all such tables.            *)
THEOREM WalksPackedTuples ==
  ASSUME Sendable
  PROVE  PairSpec => []WalksWhatWasPacked
<1>1. ReceiverAt => WalksWhatWasPacked
  <2> SUFFICES ASSUME ReceiverAt, NEW i \in 1 .. Len(frames)
               PROVE  \/ frames[i].tuple = ret
                      \/ \E j \in 1 .. Len(placed) :
                           frames[i].tuple = placed[j].tuple
    BY DEF WalksWhatWasPacked
  <2>1. CASE frames = <<>>
    BY <2>1
  <2>2. CASE frames # <<>>
    <3>1. PICK t \in Starts \cup {ret}, n \in Nat : WalkAt(t, n)
      BY <2>2 DEF ReceiverAt
    <3> DEFINE f == U!Frame(t, n, ret)
    <3>2. frames = <<f>> /\ f.tuple = t
      BY <3>1 DEF WalkAt, U!Frame
    <3> HIDE DEF f
    <3>3. frames[i] = f
      BY <3>2
    <3> QED  BY <3>1, <3>2, <3>3 DEF Starts, StartsIn
  <2> QED  BY <2>1, <2>2
<1> QED  BY <1>1, ReceiverOnItsWay, PTL

-----------------------------------------------------------------------------
(***************************************************************************)
(* The receiver's types.                                                   *)
(***************************************************************************)

(* The receiver's tables and structures are of the types the unpacker      *)
(* knows.                                                                  *)
Receivable ==
  /\ StructCells \in Nat
  /\ Structs \subseteq U!Struct
  /\ \A key \in DOMAIN ReceiverRegistry :
       ReceiverRegistry[key] \in Desc /\ NULL \notin Elems(ReceiverRegistry[key])

Datums == [id : Nat, tuple : Nat, item : Nat]

(* The receiver's variables, those of its walk aside.                      *)
ReceiverTyped ==
  /\ rx_pc # "idle" => /\ struct \in U!Struct /\ before \in U!Struct
                       /\ rx_ctx \in U!Context /\ rx_ctx.src_size = ret
  /\ rx_ctx \in U!Context \cup {NULL}
  /\ end \in Nat /\ rx_ret \in {0, -EINVAL}
  /\ rx_pc \in {"tuples", "item"} => U!action_def # NULL
  /\ item \in Nat
  /\ rx_pc = "item" => item < U!tuple_data_count(mem, U!tuple)
  /\ stored \in Seq(Datums)

(* The element of an item, when the receiver knows one.                    *)
LEMMA ReceiverElem ==
  ASSUME Receivable, U!action_def # NULL, U!ElemAt # NULL
  PROVE  /\ U!action_def = Receiving
         /\ U!ElemAt \in Elems(Receiving) /\ U!ElemAt \in Elem
         /\ U!ElemAt.id = TupleId(mem, U!tuple) + item
<1>1. U!action_def = Receiving /\ <<0, 0, 0>> \in DOMAIN ReceiverRegistry
  BY DEF U!action_def, U!get_action_def, U!IdKlass, U!IdSubklass, U!IdAction,
     Receiving
<1> DEFINE match == {e \in U!Elems(U!action_def) :
                       e.id = U!TupleId(mem, U!tuple) + item}
<1>2. U!ElemAt = IF match = {} THEN NULL ELSE CHOOSE e \in match : TRUE
  BY DEF U!ElemAt, U!get_tuple_elem
<1>3. U!ElemAt \in match
  BY <1>2
<1>4. U!ElemAt \in Elems(Receiving) /\ U!ElemAt.id = TupleId(mem, U!tuple) + item
  BY <1>1, <1>3, SameAccessors DEF U!Elems, Elems
<1>5. Receiving \in Desc
  BY <1>1 DEF Receivable, Receiving
<1>6. U!ElemAt \in Elem
  BY <1>4, <1>5 DEF Desc, Elems
<1> QED  BY <1>1, <1>4, <1>6

(* Elements are what they are on both sides.                               *)
LEMMA SameElems ==
  ASSUME NEW e
  PROVE  U!elem_get_data_size(e) = elem_get_data_size(e) /\ U!CellsOf(e) = CellsOf(e)
<1> USE DEF U!HalfWordTypes, HalfWordTypes, U!WordTypes, WordTypes,
        U!LongTypes, LongTypes
<1>1. U!elem_get_data_size(e) = elem_get_data_size(e)
  BY DEF U!elem_get_data_size, elem_get_data_size
<1> QED  BY <1>1 DEF U!CellsOf, CellsOf

(* At an item, the receiver's cursor is at a tuple of the message.         *)
LEMMA ItemAt ==
  ASSUME Sendable, SenderInv, ReceiverAt, rx_pc = "item"
  PROVE  /\ Message /\ U!tuple \in Starts /\ U!tuple \in Nat
         /\ \E n \in Nat \ {0} : WalkAt(U!tuple, n)
<1>1. Message
  BY DEF Message, SenderInv, ReceiverAt
<1>2. PICK t \in Starts, n \in Nat \ {0} : WalkAt(t, n)
  BY DEF ReceiverAt
<1>3. t \in Nat /\ ret \in Nat
  BY <1>1, TupleWords
<1>4. U!tuple = t
  BY <1>2, <1>3, CursorAt
<1> QED  BY <1>1, <1>2, <1>3, <1>4

(* A datum that passes the checks lies in the message.                     *)
LEMMA DatumInMessage ==
  ASSUME Sendable, Receivable, SenderInv, ReceiverAt, ReceiverTyped,
         rx_pc = "item", U!CanInsert
  PROVE  /\ CellsOf(U!ElemAt) \in Nat
         /\ \A k \in 0 .. CellsOf(U!ElemAt) - 1 : U!Datum[k] \in U16
<1> DEFINE size == elem_get_data_size(U!ElemAt)
           n    == CellsOf(U!ElemAt)
           at   == U!DataAt
<1>1. /\ Message /\ U!tuple \in Starts /\ U!tuple \in Nat
  BY ItemAt
<1>2. item \in Nat /\ rx_ctx.src_size = ret /\ U!action_def # NULL
      /\ U!ElemAt # NULL
  BY DEF ReceiverTyped, U!CanInsert
<1>3. size \in Nat
  <2>1. U!ElemAt.value2 \in Nat
    BY <1>2, ReceiverElem DEF Elem
  <2> QED  BY <2>1, DataSizeType
<1>4. n = size \div 2 /\ n \in Nat /\ 2 * n <= size
  BY <1>3 DEF CellsOf
<1>5. at \in Nat
  <2>1. at = tuple_get_data(mem, U!tuple, item)
    BY SameAccessors DEF U!DataAt
  <2>2. TupleType(mem, U!tuple) \in {STD, HD, STD_ARRAY, HD_ARRAY}
    BY <1>1, TupleWords
  <2> QED  BY <1>1, <1>2, <2>1, <2>2, Accessors
<1>6. at + size <= ret /\ ret <= 2 * Cells /\ ret \in Nat /\ mem \in Memory
      /\ Cells \in Nat
  <2>1. U!tuple_data_size(mem, U!tuple) = size
        /\ at + U!tuple_data_size(mem, U!tuple) <= ret
    BY <1>2, SameElems DEF U!CanInsert, U!Insertable
  <2> QED  BY <1>1, <2>1, TuplesInARow, MessagePlaces, MemoryAssumption
<1>7. \A k \in 0 .. n - 1 : U!Datum[k] = Half(mem, at + 2 * k)
  BY SameElems DEF U!Datum, U!Half, Half
<1> HIDE DEF n, at, size
<1>8. ASSUME NEW k \in 0 .. n - 1
      PROVE  Half(mem, at + 2 * k) \in U16
  <2>1. at + 2 * k \in Nat /\ at + 2 * k < 2 * Cells
    BY <1>3, <1>4, <1>5, <1>6
  <2> QED  BY <1>6, <2>1, CellType DEF Memory
<1> QED  BY <1>4, <1>7, <1>8 DEF n

(* Storing it leaves a structure of 16-bit cells.                          *)
LEMMA InsertedStruct ==
  ASSUME Sendable, Receivable, SenderInv, ReceiverAt, ReceiverTyped,
         rx_pc = "item", U!CanInsert
  PROVE  U!Inserted \in U!Struct
<1> DEFINE elem  == U!ElemAt
           n     == CellsOf(elem)
           first == elem.offset \div 2
           cells == first .. first + n - 1
           new(i) == IF i \in cells
                     THEN U!StoredCell(elem, U!Datum, struct[i], i - first)
                     ELSE struct[i]
<1>1. U!Struct = [0 .. StructCells - 1 -> U16] /\ StructCells \in Nat
  BY DEF U!Struct, U!U16, U16, Receivable
<1>2. struct \in [0 .. StructCells - 1 -> U16]
  BY <1>1 DEF ReceiverTyped
<1>3. n \in Nat /\ \A k \in 0 .. n - 1 : U!Datum[k] \in U16
  BY DatumInMessage
<1>4. elem.offset \in Nat
  BY ReceiverElem DEF ReceiverTyped, U!CanInsert, Elem
<1>5. ASSUME NEW c \in U16, NEW old \in U16
      PROVE  /\ (c % 256) + 256 * (old \div 256) \in U16
             /\ c % 256 \in U16 /\ 0 \in U16
  <2>1. c \in Nat /\ old \in Nat /\ old < 65536
    BY <1>5, U16Elim
  <2>2. /\ (c % 256) + 256 * (old \div 256) \in Nat
        /\ (c % 256) + 256 * (old \div 256) < 65536
        /\ c % 256 \in Nat /\ c % 256 < 65536
    BY <2>1, SMT
  <2> QED  BY <2>2, U16Intro
<1>6. ASSUME NEW k \in 0 .. n - 1, NEW old \in U16
      PROVE  U!StoredCell(elem, U!Datum, old, k) \in U16
  <2> DEFINE c == U!Datum[k]
  <2>1. c \in U16
    BY <1>3
  <2>2. U!StoredCell(elem, U!Datum, old, k) \in
          {(c % 256) + 256 * (old \div 256), c, c % 256, 0}
    BY DEF U!StoredCell
  <2> HIDE DEF c
  <2> QED  BY <1>5, <2>1, <2>2
<1> HIDE DEF n
<1>7. ASSUME NEW i \in 0 .. StructCells - 1
      PROVE  new(i) \in U16
  <2>1. struct[i] \in U16
    BY <1>2
  <2>2. CASE i \in cells
    <3>1. i - first \in 0 .. n - 1
      BY <1>1, <1>3, <1>4, <2>2
    <3> QED  BY <1>6, <2>1, <2>2, <3>1
  <2> QED  BY <2>1, <2>2
<1>8. U!Inserted = [i \in 0 .. StructCells - 1 |-> new(i)]
  <2>1. DOMAIN struct = 0 .. StructCells - 1
    BY <1>2
  <2> QED  BY <2>1, SameElems DEF U!Inserted, n
<1> QED  BY <1>1, <1>7, <1>8

(* Where the loop of tuple_for_each has a tuple left, the cursor is at one *)
(* of the message.                                                         *)
LEMMA TupleAt ==
  ASSUME Sendable, SenderInv, ReceiverAt, rx_pc = "tuples"
  PROVE  /\ Message /\ Len(frames) = 1
         /\ U!tuple \in Starts \cup {ret} /\ U!tuple \in Nat
         /\ \E n \in Nat : WalkAt(U!tuple, n) /\ (U!More <=> n # 0 /\ U!tuple # ret)
<1>1. Message
  BY DEF Message, SenderInv, ReceiverAt
<1>2. PICK t \in Starts \cup {ret}, n \in Nat : WalkAt(t, n)
  BY DEF ReceiverAt
<1>3. t \in Nat /\ ret \in Nat
  BY <1>1, TupleWords, TuplesInARow
<1>4. U!tuple = t /\ Len(frames) = 1 /\ (U!More <=> n # 0 /\ t # ret)
  BY <1>2, <1>3, CursorAt
<1> QED  BY <1>1, <1>2, <1>3, <1>4

(* Every step of the receiver keeps its types.                             *)
LEMMA TypedMoves ==
  ASSUME Sendable, Receivable, SenderInv, ReceiverAt, ReceiverTyped, Unpack
  PROVE  ReceiverTyped'
<1>1. rx_pc \in {"header", "tuples", "item"} /\ rx_pc # "idle"
  BY DEF Unpack, U!UnpackStep, U!RejectHeader, U!AcceptHeader, U!RejectTuple,
     U!Nest, U!TooDeep, U!Leave, U!NoData, U!BeginTuple, U!IgnoreRest,
     U!RejectItem, U!InsertItem
<1>2. Message /\ Packed
  BY <1>1 DEF Message, SenderInv, ReceiverAt
<1>3. ret' = ret /\ mem' = mem
  BY <1>2, MessageStays
<1>4. UNCHANGED <<rx_ctx, before>>
  BY DEF Unpack, U!UnpackStep, U!RejectHeader, U!AcceptHeader, U!RejectTuple,
     U!Nest, U!TooDeep, U!Leave, U!NoData, U!BeginTuple, U!IgnoreRest,
     U!RejectItem, U!InsertItem
<1>5. /\ struct \in U!Struct /\ before \in U!Struct
      /\ rx_ctx \in U!Context /\ rx_ctx.src_size = ret
      /\ end \in Nat /\ rx_ret \in {0, -EINVAL} /\ item \in Nat
      /\ stored \in Seq(Datums)
  BY <1>1 DEF ReceiverTyped
<1>6. U!EINVAL = EINVAL
  BY DEF U!EINVAL, EINVAL
<1>7. U!Struct = (U!Struct)' /\ U!Context = (U!Context)'
      /\ U!action_def = (U!action_def)'
  BY DEF U!Struct, U!Context, U!action_def, U!get_action_def
(* The receiver has returned. *)
<1>8. ASSUME rx_pc' = "done", rx_ret' \in {0, -EINVAL},
             UNCHANGED <<struct, end, item, stored>>
      PROVE  ReceiverTyped'
  BY <1>3, <1>4, <1>5, <1>7, <1>8 DEF ReceiverTyped, Datums
(* It is on its way to the next tuple. *)
<1>9. ASSUME rx_pc' = "tuples", U!action_def # NULL, end' \in Nat, item' \in Nat,
             struct' \in U!Struct, rx_ret' = rx_ret, stored' \in Seq(Datums)
      PROVE  ReceiverTyped'
  BY <1>3, <1>4, <1>5, <1>7, <1>9 DEF ReceiverTyped, Datums
(* It is at an item of the tuple it was at. *)
<1>10. ASSUME rx_pc' = "item", U!action_def # NULL, end' = end,
              item' \in Nat, item' < U!tuple_data_count(mem, U!tuple),
              frames' = frames, struct' \in U!Struct, rx_ret' = rx_ret,
              stored' \in Seq(Datums)
       PROVE  ReceiverTyped'
  <2>1. U!tuple' = U!tuple
    BY <1>10 DEF U!tuple, U!Current
  <2>2. item' < U!tuple_data_count(mem', U!tuple')
    BY <1>3, <1>10, <2>1
  <2>3. (U!tuple_data_count(mem, U!tuple))' = U!tuple_data_count(mem', U!tuple')
    BY DEF U!tuple_data_count, U!TupleType, U!Count, U!Half
  <2> QED  BY <1>3, <1>4, <1>5, <1>7, <1>10, <2>2, <2>3 DEF ReceiverTyped, Datums
<1>11. CASE U!RejectHeader
  BY <1>6, <1>8, <1>11 DEF U!RejectHeader, U!Return
<1>12. CASE U!AcceptHeader
  <2>1. end' = ret /\ ret \in Nat
    BY <1>2, <1>12, SameHeader, TuplesInARow DEF U!AcceptHeader
  <2> QED  BY <1>5, <1>9, <1>12, <2>1 DEF U!AcceptHeader, U!HeaderOk
<1>13. CASE U!RejectTuple \/ U!TooDeep \/ U!NoData
  BY <1>6, <1>8, <1>13 DEF U!RejectTuple, U!TooDeep, U!NoData, U!Return
<1>14. CASE U!Nest \/ U!BeginTuple \/ U!Leave
  <2>1. rx_pc = "tuples" /\ U!action_def # NULL
    BY <1>14 DEF U!Nest, U!BeginTuple, U!Leave, ReceiverTyped
  <2>2. Len(frames) = 1 /\ U!tuple \in Starts \cup {ret} /\ U!tuple \in Nat
    BY <2>1, TupleAt
  <2>3. U!More => U!tuple # ret
    BY <2>1, TupleAt
  <2>4. CASE U!Nest
    BY <1>5, <1>9, <2>1, <2>4 DEF U!Nest
  <2>5. CASE U!BeginTuple
    <3>1. U!tuple \in Starts
      BY <2>2, <2>3, <2>5 DEF U!BeginTuple
    <3>2. U!tuple_data_count(mem, U!tuple) \in Nat
          /\ U!tuple_data_count(mem, U!tuple) >= 1
      BY <1>2, <3>1, TupleWords, TupleItems, SameAccessors
    <3>3. 0 < U!tuple_data_count(mem, U!tuple)
      BY <3>2
    <3> QED  BY <1>5, <1>10, <2>1, <2>5, <3>3 DEF U!BeginTuple
  <2>6. CASE U!Leave
    BY <1>8, <2>2, <2>6 DEF U!Leave, U!Return
  <2> QED  BY <1>14, <2>4, <2>5, <2>6
<1>15. CASE U!IgnoreRest
  <2>1. U!action_def # NULL
    BY <1>15 DEF U!IgnoreRest, ReceiverTyped
  <2> QED  BY <1>5, <1>9, <1>15, <2>1 DEF U!IgnoreRest
<1>16. CASE U!RejectItem
  BY <1>6, <1>8, <1>16 DEF U!RejectItem, U!Return
<1>17. CASE U!InsertItem
  <2>1. rx_pc = "item" /\ U!CanInsert /\ U!action_def # NULL /\ U!ElemAt # NULL
    BY <1>17 DEF U!InsertItem, U!CanInsert, ReceiverTyped
  <2>2. struct' \in U!Struct /\ item' \in Nat /\ end' \in Nat
        /\ rx_ret' = rx_ret /\ end' = end
    BY <1>5, <1>17, <2>1, InsertedStruct DEF U!InsertItem
  <2>3. U!ElemAt.id \in Nat /\ U!tuple \in Nat
    <3>1. U!ElemAt.id \in U16
      BY <2>1, ReceiverElem DEF Elem
    <3> QED  BY <2>1, <3>1, U16Elim, ItemAt
  <2>4. stored' \in Seq(Datums)
    <3> DEFINE datum == [id |-> U!ElemAt.id, tuple |-> U!tuple, item |-> item]
    <3>1. datum \in Datums
      BY <1>5, <2>3 DEF Datums
    <3>2. stored' = Append(stored, datum)
      BY <1>17 DEF U!InsertItem
    <3> HIDE DEF datum
    <3> QED  BY <1>5, <3>1, <3>2
  <2>5. CASE rx_pc' = rx_pc /\ frames' = frames
             /\ item' < U!tuple_data_count(mem, U!tuple)
    BY <1>10, <2>1, <2>2, <2>4, <2>5
  <2>6. CASE rx_pc' = "tuples"
    BY <1>9, <2>1, <2>2, <2>4, <2>6
  <2> QED  BY <1>17, <2>5, <2>6 DEF U!InsertItem
<1> QED
  BY <1>11, <1>12, <1>13, <1>14, <1>15, <1>16, <1>17 DEF Unpack, U!UnpackStep

(* A receiver that has received nothing is typed.                          *)
LEMMA TypedIdle ==
  ASSUME rx_pc' = "idle", NothingReceived'
  PROVE  ReceiverTyped'
<1>1. <<>> \in Seq(Datums)
  OBVIOUS
<1> QED  BY <1>1 DEF ReceiverTyped, NothingReceived

(* The receiver's types at the start. *)
LEMMA TypedInit == PairInit => ReceiverTyped
<1>1. <<>> \in Seq(Datums)
  OBVIOUS
<1> QED  BY <1>1 DEF PairInit, ReceiverTyped, NothingReceived

(* Every step of the pair keeps the receiver's types. *)
LEMMA TypedStep ==
  ASSUME Sendable, Receivable, SenderInv, ReceiverAt, ReceiverTyped,
         [PairNext]_pair
  PROVE  ReceiverTyped'
<1>1. ASSUME pc # "done", UNCHANGED unpacker
      PROVE  ReceiverTyped'
  <2>1. rx_pc = "idle" /\ NothingReceived
    BY <1>1 DEF ReceiverAt, Packed
  <2>2. rx_pc' = "idle" /\ NothingReceived'
    BY <1>1, <2>1 DEF unpacker, NothingReceived
  <2> QED  BY <2>2, TypedIdle
<1>2. CASE \E id \in Ids, src \in Sources, ss \in SrcSizes, ds \in DestSizes :
             Send(id, src, ss, ds)
  BY <1>1, <1>2 DEF Send, ipct_msg_pack
<1>3. CASE Pack
  <2>1. pc # "done"
    BY <1>3 DEF Pack, PackStep, BadCall, BeginPack, RejectElem, RejectSingle,
       SingleOverflow, PackSingle, ContOverflow, PackCont, complete_header
  <2> QED  BY <1>1, <1>3, <2>1 DEF Pack
<1>4. CASE HandOver
  <2>1. PICK target \in Structs :
          U!ipct_msg_unpack(mem, target, ret, Receiving.size)
    BY <1>4 DEF HandOver
  <2>2. Packed /\ rx_pc = "idle" /\ NothingReceived
    BY <1>4, <2>1 DEF HandOver, U!ipct_msg_unpack, Packed, ReceiverAt
  <2>3. ret' = ret
    BY <1>4, <2>2, MessageStays
  <2>4. ret \in 0 .. 2 * Cells
    <3>1. Message
      BY <2>2 DEF Message, SenderInv
    <3>2. ret \in Nat /\ ret <= 2 * Cells
      BY <3>1, TuplesInARow
    <3> QED  BY <3>2, MemoryAssumption
  <2>5. target \in U!Struct
    BY DEF Receivable
  <2>6. /\ rx_pc' = "header" /\ struct' = target /\ before' = target
        /\ rx_ctx' = [src_size |-> ret, dest_size |-> Receiving.size]
        /\ UNCHANGED <<end, item, rx_ret, stored>>
    BY <2>1 DEF U!ipct_msg_unpack
  <2>7. rx_ctx' \in U!Context /\ rx_ctx'.src_size = ret
    BY <2>4, <2>6 DEF U!Context
  <2>8. U!Struct' = U!Struct /\ U!Context' = U!Context
    BY DEF U!Struct, U!Context
  <2> QED  BY <2>2, <2>3, <2>5, <2>6, <2>7, <2>8
           DEF ReceiverTyped, NothingReceived, Datums
<1>5. CASE Unpack
  BY <1>5, TypedMoves
<1>6. CASE Finish
  BY <1>6, TypedIdle DEF Finish, NothingReceived
<1>7. CASE UNCHANGED pair
  <2>1. UNCHANGED <<ret, mem, rx_pc, rx_ctx, struct, end, frames, item, rx_ret,
                    before, stored>>
    BY <1>7 DEF pair, packer, unpacker
  <2>2. U!Struct' = U!Struct /\ U!Context' = U!Context
        /\ U!action_def' = U!action_def
    BY DEF U!Struct, U!Context, U!action_def, U!get_action_def
  <2>3. (U!tuple_data_count(mem, U!tuple))' = U!tuple_data_count(mem, U!tuple)
    BY <2>1 DEF U!tuple_data_count, U!TupleType, U!Count, U!Half, U!tuple,
       U!Current
  <2> QED  BY <2>1, <2>2, <2>3 DEF ReceiverTyped, Datums
<1> QED
  BY <1>2, <1>3, <1>4, <1>5, <1>6, <1>7 DEF PairNext

(* Between tables the sender can pack by and the receiver is built for,    *)
(* the variables of both stay in their ranges, and the receiver works only *)
(* while the sender rests with a message it has packed.                    *)
THEOREM PairTypes ==
  ASSUME Sendable, Receivable
  PROVE  PairSpec => []PairTypeOK
<1>1. SenderInv /\ ReceiverAt /\ ReceiverTyped /\ [PairNext]_pair
        => ReceiverTyped'
  BY TypedStep
<1>2. PairSpec => []ReceiverTyped
  BY <1>1, TypedInit, SenderInvariant, ReceiverOnItsWay, PTL DEF PairSpec
<1>3. SenderInv /\ ReceiverAt /\ ReceiverTyped => PairTypeOK
  <2> SUFFICES ASSUME SenderInv, ReceiverAt, ReceiverTyped
               PROVE  PairTypeOK
    OBVIOUS
  <2>1. TypeOK /\ mem \in Memory
    BY DEF SenderInv, WholeInv, WalkInv, AlignInv, TypeOK
  <2>2. rx_pc # "idle" => pc = "done" /\ ret >= 0
    BY DEF ReceiverAt, Packed
  <2>3. frames \in Seq(U!FrameType)
    <3>1. CASE frames = <<>>
      BY <3>1
    <3>2. CASE frames # <<>>
      <4>1. PICK t \in Starts \cup {ret}, n \in Nat : WalkAt(t, n)
        BY <3>2 DEF ReceiverAt
      <4>2. Message
        BY <2>2, <3>2 DEF Message, SenderInv, Packed, ReceiverAt,
           NothingReceived
      <4>3. t \in Nat /\ ret - t \in Int
        BY <4>2, TupleWords, TuplesInARow
      <4> DEFINE f == U!Frame(t, n, ret)
      <4>4. f \in U!FrameType /\ frames = <<f>>
        BY <4>1, <4>3 DEF U!Frame, U!FrameType, WalkAt
      <4> HIDE DEF f
      <4> QED  BY <4>4
    <3> QED  BY <3>1, <3>2
  <2>4. U!EINVAL = EINVAL
    BY DEF U!EINVAL, EINVAL
  <2>5. U!TypeOK
    BY <2>1, <2>3, <2>4 DEF U!TypeOK, ReceiverTyped, ReceiverAt, Datums
  <2> QED  BY <2>1, <2>2, <2>5 DEF PairTypeOK
<1> QED  BY <1>2, <1>3, SenderInvariant, ReceiverOnItsWay, PTL

-----------------------------------------------------------------------------
(***************************************************************************)
(* Tables: which elements share a tuple.                                   *)
(***************************************************************************)

Kind(e) == ipct_get_type(e.type)

(* The IDs from a to b all have an element of e's kind.                    *)
RunOf(d, a, b, e) ==
  \A x \in a .. b : \E g \in Elems(d) : g.id = x /\ Kind(g) = Kind(e)

(* No element of e's kind has the ID before a.                             *)
NoneBefore(d, a, e) ==
  \A g \in Elems(d) : g.id + 1 = a => Kind(g) # Kind(e)

(* What a table the sender may pack by is like.                            *)
LEMMA TableElems ==
  ASSUME Sendable, NEW d, Known(d)
  PROVE  /\ \A e \in Elems(d) : /\ e.id \in Nat /\ e.id < IPCT_TUPLE_MAX_ID
                                /\ e.type \in HalfWordTypes \cup WordTypes
         /\ \A e, f \in Elems(d) : e.id = f.id => e = f
         /\ IsFiniteSet(Elems(d)) /\ PacksAll(d) /\ WholeWords(d)
         /\ Cardinality(Elems(d)) \in Nat
         /\ Cardinality(Elems(d)) <= IPCT_TUPLE_MAX_ID
<1>1. PacksAll(d) /\ WholeWords(d)
  BY DEF Sendable
<1>2. \A e \in Elems(d) : /\ e.id \in Nat /\ e.id < IPCT_TUPLE_MAX_ID
                          /\ e.type \in HalfWordTypes \cup WordTypes
  BY <1>1, KnownElems DEF PacksAll, WholeWords
<1>3. \A e, f \in Elems(d) : e.id = f.id => e = f
  BY KnownElems
<1> DEFINE top_id == IPCT_TUPLE_MAX_ID - 1
           R == 0 .. top_id
           g == [e \in Elems(d) |-> e.id]
<1>4. IsFiniteSet(R) /\ Cardinality(R) = IPCT_TUPLE_MAX_ID
  <2>1. 0 \in Int /\ top_id \in Int /\ ~ 0 > top_id
        /\ top_id - 0 + 1 = IPCT_TUPLE_MAX_ID
    BY DEF IPCT_TUPLE_MAX_ID
  <2> HIDE DEF top_id
  <2>2. /\ IsFiniteSet(0 .. top_id)
        /\ Cardinality(0 .. top_id) = IF 0 > top_id THEN 0 ELSE top_id - 0 + 1
    BY <2>1, FS_Interval
  <2> QED  BY <2>1, <2>2
<1>5. g \in Injection(Elems(d), R)
  <2>1. \A e \in Elems(d) : e.id \in R
    <3> SUFFICES ASSUME NEW e \in Elems(d) PROVE e.id \in R
      OBVIOUS
    <3> DEFINE x == e.id
    <3>1. x \in Nat /\ x < 8191
      BY <1>2 DEF IPCT_TUPLE_MAX_ID
    <3> HIDE DEF x
    <3>2. x \in 0 .. 8191 - 1
      BY <3>1
    <3> QED  BY <3>2 DEF x, IPCT_TUPLE_MAX_ID
  <2> HIDE DEF R
  <2>2. g \in [Elems(d) -> R]
    BY <2>1
  <2>3. \A a, b \in Elems(d) : g[a] = g[b] => a = b
    BY <1>3
  <2> QED  BY <2>2, <2>3 DEF Injection, IsInjective
<1> HIDE DEF R, g
<1>6. IsFiniteSet(Elems(d)) /\ Cardinality(Elems(d)) <= Cardinality(R)
  BY <1>4, <1>5, FS_Injection
<1>7. Cardinality(Elems(d)) \in Nat
  BY <1>6, FS_CardinalityType
<1> QED  BY <1>1, <1>2, <1>3, <1>4, <1>6, <1>7

(* To share a tuple is to have a run of IDs of one kind in between.        *)
LEMMA TogetherIsRun ==
  ASSUME NEW d, NEW e, NEW f
  PROVE  f \in SameTuple(d, e) <=>
           f \in Elems(d) /\ RunOf(d, e.id, f.id, e) /\ RunOf(d, f.id, e.id, e)
BY DEF SameTuple, RunOf, Kind

(* Between two elements of a run there is a run.                           *)
LEMMA InOneRun ==
  ASSUME Sendable, NEW d, Known(d), NEW a \in Nat, NEW b \in Nat,
         NEW e \in Elems(d), NEW f \in Elems(d), NEW g \in Elems(d),
         RunOf(d, a, b, e),
         f.id \in a .. b, g.id \in a .. b
  PROVE  Kind(f) = Kind(e) /\ g \in SameTuple(d, f)
<1>1. f.id \in Nat /\ g.id \in Nat /\ \A x, y \in Elems(d) : x.id = y.id => x = y
  BY TableElems
<1>2. Kind(f) = Kind(e)
  <2>1. PICK h \in Elems(d) : h.id = f.id /\ Kind(h) = Kind(e)
    BY DEF RunOf
  <2> QED  BY <1>1, <2>1
<1>3. \A x \in (f.id .. g.id) \cup (g.id .. f.id) : x \in a .. b
  BY <1>1
<1>4. RunOf(d, f.id, g.id, f) /\ RunOf(d, g.id, f.id, f)
  BY <1>2, <1>3 DEF RunOf
<1> QED  BY <1>2, <1>4, TogetherIsRun

(* Sharing goes both ways.                                                 *)
LEMMA TogetherBothWays ==
  ASSUME Sendable, NEW d, Known(d), NEW e \in Elems(d), NEW f \in SameTuple(d, e)
  PROVE  e \in SameTuple(d, f) /\ Kind(f) = Kind(e) /\ f \in Elems(d)
<1>1. f \in Elems(d) /\ RunOf(d, e.id, f.id, e) /\ RunOf(d, f.id, e.id, e)
  BY TogetherIsRun
<1>2. e.id \in Nat /\ f.id \in Nat
  BY <1>1, TableElems
<1>3. CASE e.id <= f.id
  <2>1. e.id \in e.id .. f.id /\ f.id \in e.id .. f.id
    BY <1>2, <1>3
  <2> QED  BY <1>1, <1>2, <2>1, InOneRun
<1>4. CASE f.id <= e.id
  <2>1. e.id \in f.id .. e.id /\ f.id \in f.id .. e.id
    BY <1>2, <1>4
  <2> QED  BY <1>1, <1>2, <2>1, InOneRun
<1> QED  BY <1>2, <1>3, <1>4

(* An element shares its tuple with nothing before the run it is in.       *)
LEMMA RunBegins ==
  ASSUME Sendable, NEW d, Known(d), NEW a \in Nat, NEW e \in Elems(d), a <= e.id,
         NoneBefore(d, a, e), NEW f \in SameTuple(d, e)
  PROVE  f.id >= a
<1>1. f \in Elems(d) /\ RunOf(d, f.id, e.id, e) /\ e.id \in Nat
  BY TogetherIsRun, TableElems
<1>2. f.id \in Nat
  BY <1>1, TableElems
<1> SUFFICES ASSUME f.id < a PROVE FALSE
  BY <1>2
<1>3. a - 1 \in f.id .. e.id
  BY <1>1, <1>2
<1>4. PICK g \in Elems(d) : g.id = a - 1 /\ Kind(g) = Kind(e)
  BY <1>1, <1>3 DEF RunOf
<1>5. g.id + 1 = a
  BY <1>4
<1> QED  BY <1>4, <1>5 DEF NoneBefore

(* Nor with anything behind it.                                            *)
LEMMA RunEnds ==
  ASSUME Sendable, NEW d, Known(d), NEW b \in Nat, NEW e \in Elems(d), e.id <= b,
         \A g \in Elems(d) : g.id = b + 1 => Kind(g) # Kind(e),
         NEW f \in SameTuple(d, e)
  PROVE  f.id <= b
<1>1. f \in Elems(d) /\ RunOf(d, e.id, f.id, e) /\ e.id \in Nat
  BY TogetherIsRun, TableElems
<1>2. f.id \in Nat
  BY <1>1, TableElems
<1> SUFFICES ASSUME f.id > b PROVE FALSE
  BY <1>2
<1>3. b + 1 \in e.id .. f.id
  BY <1>1, <1>2
<1> QED  BY <1>1, <1>3 DEF RunOf

(* A run of IDs has as many elements as IDs.                               *)
LEMMA RunCardinality ==
  ASSUME Sendable, NEW d, Known(d), NEW a \in Nat, NEW b \in Nat, a <= b,
         NEW S, S \subseteq Elems(d), \A f \in S : f.id \in a .. b,
         \A x \in a .. b : \E f \in S : f.id = x
  PROVE  Cardinality(S) = b - a + 1
<1> DEFINE R == a .. b
           g == [f \in S |-> f.id]
<1>1. IsFiniteSet(R) /\ Cardinality(R) = b - a + 1
  <2>1. a \in Int /\ b \in Int /\ ~ a > b
    OBVIOUS
  <2> QED  BY <2>1, FS_Interval
<1>2. \A e, f \in S : e.id = f.id => e = f
  BY TableElems
<1>3. g \in Bijection(S, R)
  <2>1. g \in [S -> R]
    OBVIOUS
  <2>2. \A x, y \in S : g[x] = g[y] => x = y
    BY <1>2
  <2>3. \A x \in R : \E f \in S : g[f] = x
    OBVIOUS
  <2> HIDE DEF g, R
  <2> QED  BY <2>1, <2>2, <2>3, Fun_IsBij
<1>4. IsFiniteSet(S)
  BY TableElems, FS_Subset
<1> HIDE DEF R, g
<1>5. ExistsBijection(S, R)
  BY <1>3 DEF ExistsBijection
<1> QED  BY <1>1, <1>4, <1>5, FS_Bijection

-----------------------------------------------------------------------------
(***************************************************************************)
(* The length of a part of a message: that of the elements S.              *)
(***************************************************************************)

(* The half-words that share their tuple with another.                     *)
Paired(d, S) ==
  {f \in S \cap Halves(d) : \E g \in S : g # f /\ g \in SameTuple(d, f)}

LengthOf(d, S) ==
  SizeofHdr + SizeofElems + 4 * Cardinality(Heads(d) \cap S)
    + 4 * Cardinality(S \ Halves(d)) + 2 * Cardinality(Paired(d, S))

(* The elements before e.                                                  *)
Before(d, e) == {f \in Elems(d) : f.id < e.id}

(* The sets that are counted are finite.                                   *)
LEMMA FiniteParts ==
  ASSUME Sendable, NEW d, Known(d), NEW S, S \subseteq Elems(d)
  PROVE  /\ IsFiniteSet(Heads(d) \cap S) /\ IsFiniteSet(S \ Halves(d))
         /\ IsFiniteSet(Paired(d, S))
         /\ Cardinality(Heads(d) \cap S) \in Nat
         /\ Cardinality(S \ Halves(d)) \in Nat
         /\ Cardinality(Paired(d, S)) \in Nat
<1>1. IsFiniteSet(Elems(d))
  BY TableElems
<1>2. /\ Heads(d) \cap S \subseteq Elems(d) /\ S \ Halves(d) \subseteq Elems(d)
      /\ Paired(d, S) \subseteq Elems(d)
  BY DEF Paired
<1>3. /\ IsFiniteSet(Heads(d) \cap S) /\ IsFiniteSet(S \ Halves(d))
      /\ IsFiniteSet(Paired(d, S))
  BY <1>1, <1>2, FS_Subset
<1> QED  BY <1>3, FS_CardinalityType

(* More elements take no less.                                             *)
LEMMA LengthGrows ==
  ASSUME Sendable, NEW d, Known(d), NEW S, NEW R, S \subseteq R, R \subseteq Elems(d)
  PROVE  /\ LengthOf(d, S) \in Nat /\ LengthOf(d, R) \in Nat
         /\ LengthOf(d, S) <= LengthOf(d, R)
<1>1. S \subseteq Elems(d)
  OBVIOUS
<1> DEFINE h(X) == Heads(d) \cap X
           w(X) == X \ Halves(d)
           p(X) == Paired(d, X)
<1>2. /\ IsFiniteSet(h(R)) /\ IsFiniteSet(w(R)) /\ IsFiniteSet(p(R))
      /\ Cardinality(h(R)) \in Nat /\ Cardinality(w(R)) \in Nat
      /\ Cardinality(p(R)) \in Nat
  BY FiniteParts
<1>3. /\ Cardinality(h(S)) \in Nat /\ Cardinality(w(S)) \in Nat
      /\ Cardinality(p(S)) \in Nat
  BY <1>1, FiniteParts
<1>4. h(S) \subseteq h(R) /\ w(S) \subseteq w(R) /\ p(S) \subseteq p(R)
  BY DEF Paired
<1>5. /\ LengthOf(d, S) = 12 + 4 * Cardinality(h(S)) + 4 * Cardinality(w(S))
                              + 2 * Cardinality(p(S))
      /\ LengthOf(d, R) = 12 + 4 * Cardinality(h(R)) + 4 * Cardinality(w(R))
                              + 2 * Cardinality(p(R))
  BY DEF LengthOf, SizeofHdr, SizeofElems
<1> HIDE DEF h, w, p
<1>6. /\ Cardinality(h(S)) <= Cardinality(h(R))
      /\ Cardinality(w(S)) <= Cardinality(w(R))
      /\ Cardinality(p(S)) <= Cardinality(p(R))
  BY <1>2, <1>4, FS_Subset
<1> QED  BY <1>2, <1>3, <1>5, <1>6

(* Nothing but the header is in front of the first element.                *)
LEMMA LengthOfNone ==
  ASSUME NEW d
  PROVE  /\ LengthOf(d, {}) = SizeofHdr + SizeofElems
         /\ Cardinality(Heads(d) \cap {}) = 0
<1>1. Heads(d) \cap {} = {} /\ {} \ Halves(d) = {} /\ Paired(d, {}) = {}
  BY DEF Paired
<1>2. Cardinality({}) = 0
  BY FS_EmptySet
<1> QED  BY <1>1, <1>2 DEF LengthOf, SizeofHdr, SizeofElems

(* With all elements it is the message's.                                  *)
LEMMA LengthOfAll ==
  ASSUME Sendable, NEW d, Known(d)
  PROVE  LengthOf(d, Elems(d)) = MessageLength(d) /\ Heads(d) \cap Elems(d) = Heads(d)
<1>1. Heads(d) \cap Elems(d) = Heads(d)
  BY DEF Heads
<1>2. \A e \in Elems(d) : e \in SameTuple(d, e)
  <2> SUFFICES ASSUME NEW e \in Elems(d) PROVE e \in SameTuple(d, e)
    OBVIOUS
  <2>1. e.id \in Nat
    BY TableElems
  <2>2. \A x \in e.id .. e.id : x = e.id
    BY <2>1
  <2>3. RunOf(d, e.id, e.id, e)
    BY <2>2 DEF RunOf
  <2> QED  BY <2>3, TogetherIsRun
<1>3. \A e : SameTuple(d, e) \subseteq Elems(d)
  BY DEF SameTuple
<1>4. Paired(d, Elems(d)) = {e \in Halves(d) : SameTuple(d, e) # {e}}
  <2>1. \A e \in Elems(d) : (\E g \in Elems(d) : g # e /\ g \in SameTuple(d, e))
                              <=> SameTuple(d, e) # {e}
    BY <1>2, <1>3
  <2>2. Halves(d) \subseteq Elems(d)
    BY DEF Halves
  <2> QED  BY <2>1, <2>2 DEF Paired
<1> QED  BY <1>1, <1>4 DEF LengthOf, MessageLength

(* An element is a half-word or a word.                                    *)
LEMMA ElemKind ==
  ASSUME Sendable, NEW d, Known(d), NEW e \in Elems(d)
  PROVE  /\ e \in Halves(d) <=> Kind(e) = HD
         /\ e \in Halves(d) <=> e.type \in HalfWordTypes
         /\ Kind(e) \in {HD, STD}
         /\ e \in Halves(d) => elem_get_data_size(e) = 2
         /\ e \notin Halves(d) => elem_get_data_size(e) = 4
<1>1. e.type \in HalfWordTypes \cup WordTypes
  BY TableElems
<1> QED  BY <1>1, WordSizes DEF Halves, Kind, HD, STD, ipct_get_type

(* One more element: of a tuple of its own,                                *)
LEMMA LengthOfSingle ==
  ASSUME Sendable, NEW d, Known(d), NEW e \in Elems(d), NoneBefore(d, e.id, e)
  PROVE  LET S == Before(d, e)
             R == S \cup {e}
         IN /\ LengthOf(d, R)
                 = LengthOf(d, S) + IF e \in Halves(d) THEN 4 ELSE 8
            /\ Cardinality(Heads(d) \cap R) = Cardinality(Heads(d) \cap S) + 1
<1> DEFINE S == Before(d, e)
           R == S \cup {e}
<1>1. e.id \in Nat /\ \A f \in S : f \in Elems(d) /\ f.id \in Nat /\ f.id < e.id
  BY TableElems DEF Before
<1>2. \A f \in SameTuple(d, e) : f.id >= e.id
  BY <1>1, RunBegins
<1>3. e \notin S /\ S \subseteq Elems(d)
  BY <1>1
<1>4. \A f \in S : e \notin SameTuple(d, f) /\ f \notin SameTuple(d, e)
  <2> SUFFICES ASSUME NEW f \in S, e \in SameTuple(d, f) \/ f \in SameTuple(d, e)
               PROVE  FALSE
    OBVIOUS
  <2>1. f \in SameTuple(d, e)
    BY <1>1, TogetherBothWays
  <2> QED  BY <1>1, <1>2, <2>1
<1>5. Heads(d) \cap R = (Heads(d) \cap S) \cup {e}
  <2>1. e \in Heads(d)
    BY <1>1, <1>2, TogetherIsRun, TableElems DEF Heads
  <2> QED  BY <2>1
<1>6. Paired(d, R) = Paired(d, S)
  BY <1>3, <1>4 DEF Paired
<1>7. R \ Halves(d) = IF e \in Halves(d) THEN S \ Halves(d)
                                         ELSE (S \ Halves(d)) \cup {e}
  OBVIOUS
<1> HIDE DEF S
<1>8. /\ IsFiniteSet(Heads(d) \cap S) /\ IsFiniteSet(S \ Halves(d))
      /\ Cardinality(Heads(d) \cap S) \in Nat
      /\ Cardinality(S \ Halves(d)) \in Nat
      /\ Cardinality(Paired(d, S)) \in Nat
  BY <1>3, FiniteParts
<1>9. Cardinality(Heads(d) \cap R) = Cardinality(Heads(d) \cap S) + 1
  BY <1>3, <1>5, <1>8, FS_AddElement
<1>10. Cardinality(R \ Halves(d))
         = Cardinality(S \ Halves(d)) + IF e \in Halves(d) THEN 0 ELSE 1
  <2>1. e \notin S \ Halves(d)
    BY <1>3
  <2>2. CASE e \in Halves(d)
    <3>1. Cardinality(R \ Halves(d)) = Cardinality(S \ Halves(d))
      BY <1>7, <2>2
    <3>2. Cardinality(S \ Halves(d)) = Cardinality(S \ Halves(d)) + 0
      BY <1>8
    <3> QED  BY <2>2, <3>1, <3>2, Zenon
  <2>3. CASE e \notin Halves(d)
    <3>1. Cardinality((S \ Halves(d)) \cup {e}) = Cardinality(S \ Halves(d)) + 1
      BY <1>8, <2>1, FS_AddElement
    <3> QED  BY <1>7, <2>3, <3>1
  <2> QED  BY <2>2, <2>3
<1>11. /\ LengthOf(d, S) = 12 + 4 * Cardinality(Heads(d) \cap S)
                             + 4 * Cardinality(S \ Halves(d))
                             + 2 * Cardinality(Paired(d, S))
       /\ LengthOf(d, R) = 12 + 4 * Cardinality(Heads(d) \cap R)
                             + 4 * Cardinality(R \ Halves(d))
                             + 2 * Cardinality(Paired(d, S))
  BY <1>6 DEF LengthOf, SizeofHdr, SizeofElems
<1> HIDE DEF R
<1>12. LengthOf(d, R) = LengthOf(d, S) + IF e \in Halves(d) THEN 4 ELSE 8
  BY <1>8, <1>9, <1>10, <1>11
<1> QED  BY <1>9, <1>12 DEF R, S

(* or of a tuple that b began.                                             *)
LEMMA LengthOfNext ==
  ASSUME Sendable, NEW d, Known(d), NEW e \in Elems(d), NEW b \in Nat, b < e.id,
         RunOf(d, b, e.id, e), NoneBefore(d, b, e)
  PROVE  LET S == Before(d, e)
             R == S \cup {e}
         IN /\ LengthOf(d, R)
                 = LengthOf(d, S)
                     + IF e \in Halves(d) /\ e.id # b + 1 THEN 2 ELSE 4
            /\ Cardinality(Heads(d) \cap R) = Cardinality(Heads(d) \cap S)
<1> DEFINE S == Before(d, e)
           R == S \cup {e}
<1>1. /\ e.id \in Nat /\ \A f, g \in Elems(d) : f.id = g.id => f = g
      /\ \A f \in S : f \in Elems(d) /\ f.id \in Nat /\ f.id < e.id
  BY TableElems DEF Before
<1>2. e \notin S /\ S \subseteq Elems(d)
  BY <1>1
<1>3. ASSUME NEW x \in b .. e.id
      PROVE  \E f \in Elems(d) : /\ f.id = x /\ Kind(f) = Kind(e)
                                 /\ x # e.id => f \in S
  <2>1. PICK f \in Elems(d) : f.id = x /\ Kind(f) = Kind(e)
    BY <1>3 DEF RunOf
  <2>2. x # e.id => x < e.id
    BY <1>1, <1>3
  <2> QED  BY <2>1, <2>2 DEF Before
<1>4. /\ e.id - 1 \in b .. e.id /\ e.id - 1 # e.id
      /\ e.id \in b .. e.id /\ b \in b .. e.id /\ b # e.id
  BY <1>1
<1>5. PICK p \in S : p.id = e.id - 1 /\ Kind(p) = Kind(e)
  BY <1>3, <1>4
<1>6. \A f \in Elems(d) : f.id \in b .. e.id =>
        \A g \in Elems(d) : g.id \in b .. e.id => g \in SameTuple(d, f)
  BY <1>1, InOneRun
<1>7. p \in SameTuple(d, e) /\ e \in SameTuple(d, p)
  BY <1>1, <1>4, <1>5, <1>6
<1>8. e \notin Heads(d)
  BY <1>1, <1>5, <1>7 DEF Heads
<1>9. Heads(d) \cap R = Heads(d) \cap S
  BY <1>8
<1>10. ASSUME NEW f \in S, e \in SameTuple(d, f)
       PROVE  f.id \in b .. e.id
  <2>1. f \in SameTuple(d, e)
    BY <1>1, <1>10, TogetherBothWays
  <2>2. f.id >= b
    BY <1>1, <2>1, RunBegins
  <2> QED  BY <1>1, <2>2
<1>11. /\ IsFiniteSet(S \ Halves(d)) /\ IsFiniteSet(Paired(d, S))
       /\ Cardinality(Heads(d) \cap S) \in Nat
       /\ Cardinality(S \ Halves(d)) \in Nat
       /\ Cardinality(Paired(d, S)) \in Nat
  BY <1>2, FiniteParts
<1>12. /\ LengthOf(d, S) = 12 + 4 * Cardinality(Heads(d) \cap S)
                             + 4 * Cardinality(S \ Halves(d))
                             + 2 * Cardinality(Paired(d, S))
       /\ LengthOf(d, R) = 12 + 4 * Cardinality(Heads(d) \cap S)
                             + 4 * Cardinality(R \ Halves(d))
                             + 2 * Cardinality(Paired(d, R))
  BY <1>9 DEF LengthOf, SizeofHdr, SizeofElems
<1>13. CASE e \notin Halves(d)
  <2>1. R \ Halves(d) = (S \ Halves(d)) \cup {e} /\ e \notin S \ Halves(d)
    BY <1>2, <1>13
  <2>2. Paired(d, R) = Paired(d, S)
    <3>1. \A f \in S \cap Halves(d) : e \notin SameTuple(d, f)
      <4> SUFFICES ASSUME NEW f \in S \cap Halves(d), e \in SameTuple(d, f)
                   PROVE  FALSE
        OBVIOUS
      <4>1. Kind(e) = Kind(f)
        BY <1>1, TogetherBothWays
      <4> QED  BY <1>1, <1>13, <4>1, ElemKind
    <3> QED  BY <1>2, <1>13, <3>1 DEF Paired
  <2>3. Cardinality(R \ Halves(d)) = Cardinality(S \ Halves(d)) + 1
    BY <1>11, <2>1, FS_AddElement
  <2>4. LengthOf(d, R) = 12 + 4 * Cardinality(Heads(d) \cap S)
                           + 4 * (Cardinality(S \ Halves(d)) + 1)
                           + 2 * Cardinality(Paired(d, S))
    BY <1>12, <2>2, <2>3
  <2> HIDE DEF S, R
  <2>5. LengthOf(d, R) = LengthOf(d, S) + 4
    BY <1>11, <1>12, <2>4
  <2> QED  BY <1>9, <1>13, <2>5 DEF S, R
<1>14. CASE e \in Halves(d)
  <2>1. R \ Halves(d) = S \ Halves(d)
    BY <1>14
  <2>2. p \in Halves(d) /\ p # e /\ p \in Elems(d)
    BY <1>1, <1>5, <1>14, ElemKind
  <2>3. e \in Paired(d, R) /\ p \in Paired(d, R) /\ e \notin Paired(d, S)
    BY <1>2, <1>7, <1>14, <2>2 DEF Paired
  <2>4. CASE e.id = b + 1
    <3>1. \A f \in S : e \in SameTuple(d, f) => f = p
      <4> SUFFICES ASSUME NEW f \in S, e \in SameTuple(d, f)
                   PROVE  f = p
        OBVIOUS
      <4>1. f.id \in b .. e.id /\ f.id < e.id
        BY <1>1, <1>10
      <4>2. f.id = p.id
        BY <1>1, <1>5, <2>4, <4>1
      <4> QED  BY <1>1, <1>5, <4>2
    <3>2. p \notin Paired(d, S)
      <4> SUFFICES ASSUME NEW g \in S, g # p, g \in SameTuple(d, p)
                   PROVE  FALSE
        BY DEF Paired
      <4>1. p.id = b
        BY <1>1, <1>5, <2>4
      <4>2. NoneBefore(d, p.id, p)
        BY <1>5, <4>1 DEF NoneBefore
      <4>3. g.id >= p.id
        BY <1>1, <4>2, RunBegins
      <4>4. g.id = p.id
        BY <1>1, <1>5, <4>3
      <4> QED  BY <1>1, <4>4
    <3>3. Paired(d, R) = (Paired(d, S) \cup {p}) \cup {e}
      BY <1>2, <2>3, <3>1 DEF Paired
    <3>4. IsFiniteSet(Paired(d, S) \cup {p})
          /\ Cardinality(Paired(d, S) \cup {p}) = Cardinality(Paired(d, S)) + 1
      BY <1>11, <3>2, FS_AddElement
    <3>5. e \notin Paired(d, S) \cup {p}
      BY <2>2, <2>3
    <3>6. Cardinality(Paired(d, R)) = Cardinality(Paired(d, S)) + 1 + 1
      BY <3>3, <3>4, <3>5, FS_AddElement
    <3>7. LengthOf(d, R) = 12 + 4 * Cardinality(Heads(d) \cap S)
                             + 4 * Cardinality(S \ Halves(d))
                             + 2 * (Cardinality(Paired(d, S)) + 1 + 1)
      BY <1>12, <2>1, <3>6
    <3> HIDE DEF S, R
    <3>8. LengthOf(d, R) = LengthOf(d, S) + 4
      BY <1>11, <1>12, <3>7
    <3> QED  BY <1>9, <2>4, <3>8 DEF S, R
  <2>5. CASE e.id # b + 1
    <3>1. /\ e.id - 2 \in b .. e.id /\ e.id - 2 # e.id
      BY <1>1, <2>5
    <3>2. PICK q \in S : q.id = e.id - 2 /\ Kind(q) = Kind(e)
      BY <1>3, <3>1
    <3>3. \A f \in S : f \in Halves(d) /\ e \in SameTuple(d, f) => f \in Paired(d, S)
      <4> SUFFICES ASSUME NEW f \in S, f \in Halves(d), e \in SameTuple(d, f)
                   PROVE  f \in Paired(d, S)
        OBVIOUS
      <4>1. f.id \in b .. e.id
        BY <1>10
      <4>2. p \in SameTuple(d, f) /\ q \in SameTuple(d, f)
        BY <1>1, <1>4, <1>5, <1>6, <3>1, <3>2, <4>1
      <4>3. p # q
        BY <1>1, <1>5, <3>2
      <4> QED  BY <4>2, <4>3 DEF Paired
    <3>4. Paired(d, R) = Paired(d, S) \cup {e}
      BY <1>2, <2>3, <3>3 DEF Paired
    <3>5. Cardinality(Paired(d, R)) = Cardinality(Paired(d, S)) + 1
      BY <1>11, <2>3, <3>4, FS_AddElement
    <3>6. LengthOf(d, R) = 12 + 4 * Cardinality(Heads(d) \cap S)
                             + 4 * Cardinality(S \ Halves(d))
                             + 2 * (Cardinality(Paired(d, S)) + 1)
      BY <1>12, <2>1, <3>5
    <3> HIDE DEF S, R
    <3>7. LengthOf(d, R) = LengthOf(d, S) + 2
      BY <1>11, <1>12, <3>6
    <3> QED  BY <1>9, <1>14, <2>5, <3>7 DEF S, R
  <2> QED  BY <2>4, <2>5
<1> QED  BY <1>13, <1>14

(* An array of half-words that nothing continues ends on a word.           *)
LEMMA EvenRun ==
  ASSUME Sendable, NEW d, Known(d), NEW e \in Elems(d), e \in Halves(d),
         NEW b \in Nat, b < e.id, RunOf(d, b, e.id, e), NoneBefore(d, b, e),
         \A g \in Elems(d) : g.id = e.id + 1 => Kind(g) # Kind(e)
  PROVE  (e.id - b + 1) % 2 = 0
<1> DEFINE S == SameTuple(d, e)
<1>1. e.id \in Nat /\ \A f \in Elems(d) : f.id \in Nat
  BY TableElems
<1>2. e.id \in b .. e.id
  BY <1>1
<1>3. \A f \in Elems(d) : f.id \in b .. e.id => f \in S
  BY <1>2, InOneRun
<1>4. S \subseteq Elems(d)
  BY DEF SameTuple
<1>5. \A f \in S : f.id \in b .. e.id
  <2> SUFFICES ASSUME NEW f \in S PROVE f.id \in b .. e.id
    OBVIOUS
  <2>1. f.id >= b
    BY <1>1, RunBegins
  <2>2. f.id <= e.id
    BY <1>1, RunEnds
  <2> QED  BY <1>1, <1>4, <2>1, <2>2
<1>6. \A x \in b .. e.id : \E f \in S : f.id = x
  BY <1>3 DEF RunOf
<1>7. Cardinality(S) = e.id - b + 1
  <2>1. b <= e.id
    BY <1>1
  <2> HIDE DEF S
  <2> QED  BY <1>1, <1>4, <1>5, <1>6, <2>1, RunCardinality
<1>8. S # {e}
  <2>1. b \in b .. e.id /\ b # e.id
    BY <1>1
  <2> QED  BY <1>6, <2>1
<1>9. WholeWords(d)
  BY DEF Sendable
<1> QED  BY <1>7, <1>8, <1>9 DEF WholeWords

-----------------------------------------------------------------------------
(***************************************************************************)
(* The length of the message under construction.                           *)
(***************************************************************************)

(* Calls are made for actions of the tables, with a structure that has all *)
(* their members and a buffer whose words the header's field can count.    *)
Callable ==
  /\ \A id \in Ids :
       LET d == get_action_def(id)
       IN /\ id \div 65536 < 256 /\ d # NULL
          /\ \A ss \in SrcSizes :
               /\ d.size <= ss
               /\ \A e \in Elems(d) : e.offset + elem_get_data_size(e) <= ss
  /\ \A size \in DestSizes : size <= 4 * SizeLimit

(* What the walk has behind it.                                            *)
Done == IF pc = "pack" THEN Before(action, current) ELSE Elems(action)

(* The current element begins a tuple, on a word, or continues the run the *)
(* open tuple has of it.                                                   *)
RunOpen ==
  IF cont = 0
  THEN NoneBefore(action, current.id, current) /\ offset % 4 = 0
  ELSE /\ RunOf(action, TupleId(mem, cont_tuple), current.id, current)
       /\ NoneBefore(action, TupleId(mem, cont_tuple), current)

(* A call succeeds exactly when the buffer has a byte more than the message*)
(* takes.                                                                  *)
LengthOrRefused ==
  pc = "done" =>
    ret = IF MessageLength(Sending) < ctx.dest_size
          THEN MessageLength(Sending) ELSE -EINVAL

(* The call packs the action that was asked for; the write offset is where *)
(* the elements packed so far end, their tuples are counted, and the call  *)
(* returns what it should.                                                 *)
Measured ==
  /\ pc \notin {"idle", "lookup"} => action = Sending
  /\ pc \in {"pack", "complete"} =>
       /\ offset = LengthOf(action, Done)
       /\ tuples + cont = Cardinality(Heads(action) \cap Done)
  /\ pc = "pack" => RunOpen
  /\ LengthOrRefused

(* The walk goes on to the element behind the current one, and continues   *)
(* its run if it can.                                                      *)
LEMMA WalkOn ==
  ASSUME Sendable, NEW d, Known(d), NEW e \in Elems(d), NEW n, n = get_next_elem(d, e)
  PROVE  /\ n # NULL => /\ n \in Elems(d) /\ n.id \in Nat /\ e.id < n.id
                        /\ Before(d, n) = Before(d, e) \cup {e}
         /\ n = NULL => Elems(d) = Before(d, e) \cup {e}
         /\ IsContinuous(e, n) => n # NULL /\ n.id = e.id + 1 /\ Kind(n) = Kind(e)
         /\ ~ IsContinuous(e, n) =>
              /\ \A g \in Elems(d) : g.id = e.id + 1 => Kind(g) # Kind(e)
              /\ n # NULL => NoneBefore(d, n.id, n)
<1>1. /\ \A f \in Elems(d) : f.id \in Nat /\ f.id < IPCT_TUPLE_MAX_ID
      /\ \A f, g \in Elems(d) : f.id = g.id => f = g
      /\ NULL \notin Elems(d)
  BY TableElems, KnownElems
<1>2. /\ n = NULL <=> After(d, e) = {}
      /\ n # NULL => n \in After(d, e) /\ \A f \in After(d, e) : n.id <= f.id
  BY NextElem
<1>3. \A f \in Elems(d) : f \in After(d, e) <=> f.id > e.id
  BY <1>1 DEF After
<1>4. n # NULL => /\ n \in Elems(d) /\ n.id \in Nat /\ e.id < n.id
                  /\ \A f \in Elems(d) : f.id > e.id => n.id <= f.id
  BY <1>1, <1>2, <1>3 DEF After
<1>5. n # NULL => Before(d, n) = Before(d, e) \cup {e}
  <2> SUFFICES ASSUME n # NULL PROVE Before(d, n) = Before(d, e) \cup {e}
    OBVIOUS
  <2>1. \A f \in Elems(d) : f.id < n.id <=> f.id < e.id \/ f = e
    BY <1>1, <1>4
  <2> QED  BY <2>1 DEF Before
<1>6. n = NULL => Elems(d) = Before(d, e) \cup {e}
  <2> SUFFICES ASSUME n = NULL PROVE Elems(d) = Before(d, e) \cup {e}
    OBVIOUS
  <2>1. \A f \in Elems(d) : f.id < e.id \/ f = e
    BY <1>1, <1>2, <1>3
  <2> QED  BY <2>1 DEF Before
<1>7. IsContinuous(e, n) <=> n # NULL /\ n.id = e.id + 1 /\ Kind(n) = Kind(e)
  BY DEF IsContinuous, Kind
<1>8. ASSUME ~ IsContinuous(e, n), NEW g \in Elems(d), g.id = e.id + 1
      PROVE  Kind(g) # Kind(e)
  <2>1. g.id > e.id
    BY <1>1, <1>8
  <2>2. n # NULL /\ n.id <= g.id
    BY <1>2, <1>3, <1>4, <2>1
  <2>3. n = g
    BY <1>1, <1>4, <1>8, <2>2
  <2> QED  BY <1>7, <1>8, <2>2, <2>3
<1>9. ASSUME ~ IsContinuous(e, n), n # NULL, NEW g \in Elems(d), g.id + 1 = n.id
      PROVE  Kind(g) # Kind(n)
  <2>1. g = e
    <3>1. ~ g.id > e.id
      BY <1>1, <1>4, <1>9
    <3>2. g.id = e.id
      BY <1>1, <1>4, <1>9, <3>1
    <3> QED  BY <1>1, <3>2
  <2> QED  BY <1>7, <1>9, <2>1
<1> QED  BY <1>4, <1>5, <1>6, <1>7, <1>8, <1>9 DEF NoneBefore

(* What is known of a call that is packing.                                *)
LEMMA Measuring ==
  ASSUME Sendable, Callable, WholeInv, CarryInv, Measured, pc = "pack"
  PROVE  /\ Known(action) /\ current \in Elems(action) /\ current.id \in Nat
         /\ TablesInWords /\ AlignInv /\ Underway /\ Open /\ Chained /\ Counted
         /\ ItemsCarried
         /\ action = Sending /\ ctx \in Context
         /\ mem \in Memory /\ offset \in Nat /\ ctx.dest_size \in Nat
         /\ offset = LengthOf(action, Before(action, current))
         /\ tuples + cont = Cardinality(Heads(action) \cap Before(action, current))
         /\ ElemInStruct
<1>1. AlignInv /\ Underway
  BY DEF WholeInv, WalkInv, Underway
<1>2. /\ Known(action) /\ current \in Elems(action) /\ ctx \in Context
      /\ mem \in Memory /\ offset \in Nat
  BY <1>1, CurrentElem DEF AlignInv, TypeOK
<1>3. current.id \in Nat /\ current.type \in HalfWordTypes \cup WordTypes
  BY <1>2, TableElems
<1>4. Open /\ Chained /\ Counted /\ ItemsCarried
  BY <1>1 DEF CarryInv
<1>5. action = Sending /\ offset = LengthOf(action, Before(action, current))
      /\ tuples + cont = Cardinality(Heads(action) \cap Before(action, current))
  BY DEF Measured, Done
<1>6. ctx.id \in Ids /\ ctx.src_size \in SrcSizes /\ ctx.dest_size \in DestSizes
  BY <1>2 DEF Context
<1>7. current.offset + elem_get_data_size(current) <= ctx.src_size
  BY <1>2, <1>5, <1>6 DEF Callable, Sending
<1>8. elem_get_data_size(current) # 0
  BY <1>3, WordSizes
<1>9. ElemInStruct
  BY <1>7, <1>8 DEF ElemInStruct, SizeOfCurrent
<1>10. ctx.dest_size \in Nat
  BY <1>6, MemoryAssumption
<1> QED
  BY <1>1, <1>2, <1>3, <1>4, <1>5, <1>9, <1>10, SendableInWords

(* The element is stored in a tuple whose run it is in.                    *)
LEMMA MeasuredStored ==
  ASSUME Sendable, Callable, WholeInv, CarryInv, Measured, pc = "pack",
         NEW o \in Nat, Advance(o),
         NEW b \in Nat, b <= current.id, TupleId(mem', cont_tuple') = b,
         RunOf(action, b, current.id, current), NoneBefore(action, b, current),
         o = LengthOf(action, Before(action, current) \cup {current}),
         tuples + 1
           = Cardinality(Heads(action) \cap (Before(action, current) \cup {current})),
         current \in Halves(action) /\ b < current.id =>
           \E w \in Nat : w % 4 = 0 /\ o = w + 2 * (current.id - b + 1),
         ~ (current \in Halves(action) /\ b < current.id) => o % 4 = 0
  PROVE  Measured'
<1> DEFINE n == get_next_elem(action, current)
<1>1. /\ Known(action) /\ current \in Elems(action) /\ current.id \in Nat
      /\ action = Sending /\ tuples \in Nat
  BY Measuring DEF AlignInv, TypeOK
<1>2. /\ action' = action /\ ctx' = ctx /\ offset' = o /\ current' = n
      /\ cont' = (IF IsContinuous(current, n) THEN 1 ELSE 0)
      /\ tuples' = (IF cont' = 1 THEN tuples ELSE tuples + 1)
      /\ pc' = (IF n = NULL THEN "complete" ELSE "pack")
  BY DEF Advance
<1> HIDE DEF n
<1>3. /\ n # NULL => /\ n \in Elems(action) /\ n.id \in Nat /\ current.id < n.id
                     /\ Before(action, n) = Before(action, current) \cup {current}
      /\ n = NULL => Elems(action) = Before(action, current) \cup {current}
      /\ IsContinuous(current, n) =>
           n # NULL /\ n.id = current.id + 1 /\ Kind(n) = Kind(current)
      /\ ~ IsContinuous(current, n) =>
           /\ \A g \in Elems(action) : g.id = current.id + 1 => Kind(g) # Kind(current)
           /\ n # NULL => NoneBefore(action, n.id, n)
  BY <1>1, WalkOn DEF n
<1>4. Done' = Before(action, current) \cup {current}
  BY <1>2, <1>3 DEF Done, Before
<1>5. Sending' = action'
  BY <1>1, <1>2 DEF Sending
<1>6. offset' = LengthOf(action, Done)'
  <2>1. LengthOf(action, Done)' = LengthOf(action, Done')
    BY <1>2 DEF LengthOf, Heads, Halves, Paired, SameTuple
  <2> QED  BY <1>2, <1>4, <2>1
<1>7. (tuples + cont)' = Cardinality(Heads(action) \cap Done)'
  <2>1. tuples' + cont' = tuples + 1
    BY <1>1, <1>2
  <2>2. Heads(action)' = Heads(action)
    BY <1>2 DEF Heads, SameTuple
  <2> QED  BY <1>4, <2>1, <2>2
<1>8. CASE n = NULL
  BY <1>2, <1>5, <1>6, <1>7, <1>8 DEF Measured, LengthOrRefused
<1>9. CASE n # NULL /\ IsContinuous(current, n)
  <2>1. RunOf(action, b, n.id, n) /\ NoneBefore(action, b, n)
    <3>1. \A x \in b .. n.id : x \in b .. current.id \/ x = n.id
      BY <1>1, <1>3, <1>9
    <3> QED  BY <1>3, <1>9, <3>1 DEF RunOf, NoneBefore
  <2>2. RunOpen'
    BY <1>2, <1>9, <2>1 DEF RunOpen, RunOf, NoneBefore
  <2> QED
    BY <1>2, <1>5, <1>6, <1>7, <1>9, <2>2 DEF Measured, LengthOrRefused
<1>10. CASE n # NULL /\ ~ IsContinuous(current, n)
  <2>1. o % 4 = 0
    <3>1. CASE current \in Halves(action) /\ b < current.id
      <4>1. (current.id - b + 1) % 2 = 0
        BY <1>1, <1>3, <1>10, <3>1, EvenRun
      <4>2. PICK w \in Nat : w % 4 = 0 /\ o = w + 2 * (current.id - b + 1)
        BY <3>1
      <4> DEFINE k == current.id - b + 1
      <4>3. k \in Nat
        BY <1>1
      <4> HIDE DEF k
      <4>4. o = w + 2 * k /\ k % 2 = 0
        BY <4>1, <4>2 DEF k
      <4> QED  BY <4>2, <4>3, <4>4
    <3> QED  BY <3>1
  <2>2. RunOpen'
    BY <1>2, <1>3, <1>10, <2>1 DEF RunOpen, NoneBefore
  <2> QED
    BY <1>2, <1>5, <1>6, <1>7, <1>10, <2>2 DEF Measured, LengthOrRefused
<1> QED  BY <1>8, <1>9, <1>10

(* An element in a tuple of its own.                                       *)
LEMMA MeasuredSingle ==
  ASSUME Sendable, Callable, WholeInv, RunsInv, CarryInv, Measured, PackSingle
  PROVE  Measured'
<1> DEFINE t == SingleStart
           o == offset'
           v == ctx.src[current.offset]
           half == current \in Halves(action)
<1>1. /\ pc = "pack" /\ cont = 0 /\ cont_tuple' = t
      /\ Advance(t + tuple_size(mem', t))
  BY DEF PackSingle
<1>2. /\ Known(action) /\ current \in Elems(action) /\ current.id \in Nat
      /\ TablesInWords /\ Open /\ offset \in Nat /\ WalkInv
      /\ offset = LengthOf(action, Before(action, current))
      /\ tuples + cont = Cardinality(Heads(action) \cap Before(action, current))
      /\ tuples \in Nat
  BY <1>1, Measuring DEF AlignInv, TypeOK, WholeInv
<1>3. NoneBefore(action, current.id, current) /\ offset % 4 = 0
  BY <1>1 DEF Measured, RunOpen
<1>4. t = offset
  BY <1>2, <1>3 DEF SingleStart, Align
<1>5. StoredIn(t, o) /\ MatesIn(placed, t) = {}
  BY <1>2, CarrySingle
<1>6. Cardinality(MatesIn(placed, t)) + 1 = 1
  BY <1>5, FS_EmptySet
<1> HIDE DEF t, o, v
<1>7. /\ t \in Nat /\ t + 8 <= 2 * Cells /\ o \in Nat /\ mem' \in Memory
      /\ t + tuple_size(mem', t) = o
      /\ Carries(mem', t, 1, current, v)
      /\ TupleId(mem', t) + 1 = current.id + 1
  BY <1>5, <1>6 DEF StoredIn, InMemory, v
<1>8. TupleId(mem', t) = current.id
  BY <1>2, <1>7, HeaderType
<1>9. Sized(current) /\ elem_get_data_size(current) = IF half THEN 2 ELSE 4
  BY <1>2, ElemKind, TableElems, WordSizes
<1>10. tuple_size(mem', t) = IF half THEN 4 ELSE 8
  <2>1. TupleType(mem', t) = IF half THEN HD ELSE STD
    <3>1. half <=> current.type \in HalfWordTypes
      BY <1>2, ElemKind
    <3> QED  BY <1>7, <3>1 DEF Carries, ArrayTypes
  <2>2. half => tuple_size(mem', t) = 4
    BY <2>1, Accessors
  <2>3. ~ half => tuple_size(mem', t) = 4 + 1 * elem_get_data_size(current)
    BY <1>7, <1>9, <2>1, CarriesSize DEF STD, HD, SizeofStd
  <2> QED  BY <1>9, <2>2, <2>3
<1>11. /\ LengthOf(action, Before(action, current) \cup {current})
            = offset + IF half THEN 4 ELSE 8
       /\ Cardinality(Heads(action) \cap (Before(action, current) \cup {current}))
            = tuples + 1
  <2> DEFINE S == Before(action, current)
             R == S \cup {current}
  <2>1. tuples = Cardinality(Heads(action) \cap S)
    BY <1>1, <1>2
  <2>2. /\ LengthOf(action, R) = LengthOf(action, S) + IF half THEN 4 ELSE 8
        /\ Cardinality(Heads(action) \cap R) = Cardinality(Heads(action) \cap S) + 1
    BY <1>2, <1>3, LengthOfSingle
  <2> HIDE DEF S, R
  <2>3. offset = LengthOf(action, S)
    BY <1>2 DEF S
  <2>4. /\ LengthOf(action, R) = offset + IF half THEN 4 ELSE 8
        /\ Cardinality(Heads(action) \cap R) = tuples + 1
    BY <2>1, <2>2, <2>3
  <2> QED  BY <2>4 DEF R, S
<1>12. RunOf(action, current.id, current.id, current)
  <2>1. \A x \in current.id .. current.id : x = current.id
    BY <1>2
  <2> QED  BY <1>2, <2>1 DEF RunOf
<1>13. o = offset + (IF half THEN 4 ELSE 8) /\ o % 4 = 0
  BY <1>2, <1>3, <1>4, <1>7, <1>10
<1>14. ~ current.id < current.id /\ current.id <= current.id
  BY <1>2
<1> QED
  BY <1>1, <1>2, <1>3, <1>7, <1>8, <1>11, <1>12, <1>13, <1>14, MeasuredStored

(* How an element that joins the open tuple lengthens it.                  *)
LEMMA JoinLengthens ==
  ASSUME Sendable, Callable, WholeInv, RunsInv, CarryInv, Measured,
         pc = "pack", cont = 1
  PROVE  LET b == TupleId(mem, cont_tuple)
             half == current \in Halves(action)
         IN /\ b \in Nat /\ b < current.id
            /\ b + Cardinality(MatesIn(placed, cont_tuple)) = current.id
            /\ RunOf(action, b, current.id, current) /\ NoneBefore(action, b, current)
            /\ TupleType(mem, cont_tuple) = HD => half /\ current.id = b + 1
            /\ LengthOf(action, Before(action, current) \cup {current})
                 = offset + IF half /\ current.id # b + 1 THEN 2 ELSE 4
            /\ Cardinality(Heads(action) \cap (Before(action, current) \cup {current}))
                 = tuples + 1
<1> DEFINE t == cont_tuple
           b == TupleId(mem, t)
           k == Cardinality(MatesIn(placed, t))
<1>1. /\ Known(action) /\ current \in Elems(action) /\ current.id \in Nat
      /\ TablesInWords /\ mem \in Memory /\ Underway /\ Chained
      /\ offset = LengthOf(action, Before(action, current))
      /\ tuples + cont = Cardinality(Heads(action) \cap Before(action, current))
  BY Measuring
<1>2. /\ Len(placed) \in 1 .. Len(placed) /\ Start(Len(placed)) = t
      /\ k \in Nat /\ k >= 1 /\ current.id = b + k /\ Growable(mem, t, k)
      /\ current.type \in HalfWordTypes <=> ArrayOf(TupleType(mem, t)) = HD_ARRAY
  BY <1>1, JoinedTuple
<1>3. t \in Nat /\ t + 8 <= 2 * Cells
  BY <1>1, <1>2, PlacedTuple DEF InMemory
<1>4. b \in Nat
  BY <1>1, <1>3, HeaderType
<1>5. b < current.id /\ (k = 1 <=> current.id = b + 1)
  <2> HIDE DEF b, k
  <2> QED  BY <1>2, <1>4
<1>6. RunOf(action, b, current.id, current) /\ NoneBefore(action, b, current)
  BY DEF Measured, RunOpen
<1>7. TupleType(mem, t) = HD => current \in Halves(action) /\ k = 1
  <2>1. TupleType(mem, t) = HD => current.type \in HalfWordTypes
    BY <1>2 DEF ArrayOf, STD, HD, STD_ARRAY, HD_ARRAY
  <2>2. TupleType(mem, t) = HD => k = 1
    BY <1>2 DEF Growable, SingleTypes
  <2> QED  BY <1>1, <2>1, <2>2, ElemKind
<1> HIDE DEF b, k
<1>8. /\ LengthOf(action, Before(action, current) \cup {current})
           = offset + IF current \in Halves(action) /\ current.id # b + 1
                      THEN 2 ELSE 4
      /\ Cardinality(Heads(action) \cap (Before(action, current) \cup {current}))
           = tuples + 1
  BY <1>1, <1>4, <1>5, <1>6, LengthOfNext
<1> QED  BY <1>2, <1>4, <1>5, <1>6, <1>7, <1>8 DEF b, k

(* An element that joins the tuple before it.                              *)
LEMMA MeasuredCont ==
  ASSUME Sendable, Callable, WholeInv, RunsInv, CarryInv, Measured, PackCont
  PROVE  Measured'
<1> DEFINE t == cont_tuple
           o == offset'
           b == TupleId(mem, t)
           k == Cardinality(MatesIn(placed, t))
           n == Len(placed)
           e == ElemOf(placed[n].id)
           v == ctx.src[current.offset]
           half == current \in Halves(action)
<1>1. /\ pc = "pack" /\ cont = 1 /\ cont_tuple' = t
      /\ Advance(ContData + tuple_data_size(mem', t))
  BY DEF PackCont
<1>2. /\ Known(action) /\ current \in Elems(action) /\ current.id \in Nat
      /\ TablesInWords /\ WalkInv /\ AlignInv /\ Underway /\ Chained /\ ItemsCarried
      /\ offset \in Nat /\ tuples \in Nat /\ mem \in Memory
  BY <1>1, Measuring DEF AlignInv, TypeOK, WholeInv
<1>3. /\ placed # <<>> /\ n \in 1 .. n /\ Start(n) = t /\ Latest.tuple = t
      /\ k \in Nat /\ k >= 1 /\ Growable(mem, t, k)
      /\ half <=> ArrayOf(TupleType(mem, t)) = HD_ARRAY
  <2>1. half <=> current.type \in HalfWordTypes
    BY <1>2, ElemKind
  <2> QED  BY <1>1, <1>2, <2>1, JoinedTuple
<1>4. /\ b \in Nat /\ b < current.id /\ b + k = current.id
      /\ RunOf(action, b, current.id, current) /\ NoneBefore(action, b, current)
      /\ LengthOf(action, Before(action, current) \cup {current})
           = offset + IF half /\ current.id # b + 1 THEN 2 ELSE 4
      /\ Cardinality(Heads(action) \cap (Before(action, current) \cup {current}))
           = tuples + 1
  BY <1>1, JoinLengthens
<1>5. StoredIn(t, o)
  BY <1>2, CarryCont
<1>6. Carries(mem, t, k, e, Datum(n)) /\ Sized(e)
  BY <1>2, <1>3, PlacedElem DEF ItemsCarried
<1> HIDE DEF o, n
<1>7. /\ t \in Nat /\ t + 8 <= 2 * Cells /\ o \in Nat /\ mem' \in Memory
      /\ t + tuple_size(mem', t) = o
      /\ Carries(mem', t, k + 1, current, v)
      /\ TupleId(mem', t) + (k + 1) = current.id + 1
  BY <1>5 DEF StoredIn, InMemory
<1>8. TupleEnd(t) = offset /\ t % 4 = 0
  BY <1>1, <1>2, <1>3 DEF Chained, AlignInv, OpenTuple
<1> HIDE DEF k, b, v, e
<1>9. TupleId(mem', t) = b
  <2>1. TupleId(mem', t) \in Nat
    BY <1>7, HeaderType
  <2> QED  BY <1>2, <1>3, <1>4, <1>7, <2>1
<1>10. Sized(current) /\ elem_get_data_size(current) = IF half THEN 2 ELSE 4
  BY <1>2, ElemKind, TableElems, WordSizes
<1>11. tuple_size(mem', t) = 4 + (k + 1) * IF half THEN 2 ELSE 4
  <2>1. TupleType(mem', t) # HD
    BY <1>3, <1>7 DEF Carries, SingleTypes
  <2>2. k + 1 \in Nat
    BY <1>3
  <2> QED  BY <1>7, <1>10, <2>1, <2>2, CarriesSize DEF SizeofStd
<1>12. tuple_size(mem, t) = IF half THEN IF k = 1 THEN 4 ELSE 4 + 2 * k
                                    ELSE 4 + 4 * k
  <2>1. /\ TupleType(mem, t) \in {STD, HD, STD_ARRAY, HD_ARRAY}
        /\ TupleType(mem, t) \in {STD, HD} => k = 1
        /\ TupleType(mem, t) = STD => Count(mem, t) = 1
        /\ TupleType(mem, t) \in {STD_ARRAY, HD_ARRAY} => Count(mem, t) = k /\ k >= 2
    BY <1>3, <1>6 DEF Growable, Carries, SingleTypes, ArrayTypes
  <2>2. half <=> TupleType(mem, t) \in {HD, HD_ARRAY}
    BY <1>3, <2>1 DEF ArrayOf, STD, HD, STD_ARRAY, HD_ARRAY
  <2>3. STD # HD /\ STD # HD_ARRAY /\ STD_ARRAY # HD /\ STD_ARRAY # HD_ARRAY
    BY DEF STD, HD, STD_ARRAY, HD_ARRAY
  <2>4. CASE TupleType(mem, t) = STD
    BY <2>1, <2>2, <2>3, <2>4, Accessors
  <2>5. CASE TupleType(mem, t) = HD
    BY <2>1, <2>2, <2>5, Accessors
  <2>6. CASE TupleType(mem, t) = STD_ARRAY
    BY <2>1, <2>2, <2>3, <2>6, Accessors
  <2>7. CASE TupleType(mem, t) = HD_ARRAY
    <3>1. k # 1
      BY <1>3, <2>1, <2>7
    <3> QED  BY <2>1, <2>2, <2>7, <3>1, Accessors
  <2> QED  BY <2>1, <2>4, <2>5, <2>6, <2>7
<1>13. offset = t + tuple_size(mem, t)
  BY <1>8 DEF TupleEnd
<1>14. o = offset + IF half /\ current.id # b + 1 THEN 2 ELSE 4
  BY <1>2, <1>3, <1>4, <1>7, <1>11, <1>12, <1>13
<1>15. half => /\ t + 4 \in Nat /\ (t + 4) % 4 = 0
               /\ o = (t + 4) + 2 * (current.id - b + 1)
  <2>1. half => o = t + (4 + (k + 1) * 2)
    BY <1>7, <1>11
  <2>2. current.id - b + 1 = k + 1
    BY <1>2, <1>3, <1>4
  <2> QED  BY <1>3, <1>7, <1>8, <2>1, <2>2
<1>16. ~ half => o % 4 = 0
  BY <1>3, <1>7, <1>8, <1>11
<1>17. Advance(o) /\ b <= current.id
  BY <1>1, <1>2, <1>4 DEF Advance, o
<1> QED
  BY <1>1, <1>4, <1>7, <1>9, <1>14, <1>15, <1>16, <1>17, MeasuredStored

(* A call that fails because its buffer does not reach as far as what is   *)
(* packed with the current element.                                        *)
LEMMA MeasuredRefusal ==
  ASSUME Sendable, Callable, WholeInv, CarryInv, Measured, pc = "pack",
         pc' = "done", ret' = -EINVAL, UNCHANGED <<ctx, action>>,
         NEW x \in Nat, ctx.dest_size <= x,
         x <= LengthOf(action, Before(action, current) \cup {current})
  PROVE  Measured'
<1> DEFINE R == Before(action, current) \cup {current}
<1>1. /\ Known(action) /\ current \in Elems(action) /\ action = Sending
      /\ ctx.dest_size \in Nat
  BY Measuring
<1>2. R \subseteq Elems(action)
  BY <1>1 DEF Before
<1> HIDE DEF R
<1>3. /\ LengthOf(action, R) \in Nat /\ LengthOf(action, Elems(action)) \in Nat
      /\ LengthOf(action, R) <= LengthOf(action, Elems(action))
  BY <1>1, <1>2, LengthGrows
<1>4. LengthOf(action, Elems(action)) = MessageLength(action)
  BY <1>1, LengthOfAll
<1>5. ~ MessageLength(action) < ctx.dest_size
  BY <1>1, <1>3, <1>4 DEF R
<1>6. Sending' = action /\ ctx' = ctx /\ action' = Sending'
  BY <1>1 DEF Sending
<1>7. MessageLength(Sending)' = MessageLength(action)
  BY <1>6 DEF MessageLength, Heads, Halves, SameTuple
<1> QED  BY <1>5, <1>6, <1>7 DEF Measured, LengthOrRefused

(* The checks of a tuple of its own fail only for want of room.            *)
LEMMA MeasuredNoRoom ==
  ASSUME Sendable, Callable, WholeInv, CarryInv, Measured,
         RejectElem \/ RejectSingle \/ SingleOverflow
  PROVE  Measured'
<1> DEFINE R == Before(action, current) \cup {current}
           half == current \in Halves(action)
<1>1. pc = "pack" /\ pc' = "done" /\ ret' = -EINVAL /\ UNCHANGED <<ctx, action>>
  BY DEF RejectElem, RejectSingle, SingleOverflow, Return
<1>2. /\ Known(action) /\ current \in Elems(action) /\ AlignInv /\ Open
      /\ offset \in Nat /\ ctx.dest_size \in Nat /\ ctx \in Context /\ ElemInStruct
      /\ offset = LengthOf(action, Before(action, current))
  BY <1>1, Measuring
<1>3. (RejectSingle \/ SingleOverflow) /\ cont = 0
  BY <1>2 DEF RejectElem, RejectSingle, SingleOverflow
<1>4. NoneBefore(action, current.id, current) /\ offset % 4 = 0
  BY <1>1, <1>3 DEF Measured, RunOpen
<1>5. SingleStart = offset
  BY <1>2, <1>4 DEF SingleStart, Align
<1>6. LengthOf(action, R) = offset + IF half THEN 4 ELSE 8
  <2>1. LengthOf(action, R)
          = LengthOf(action, Before(action, current)) + IF half THEN 4 ELSE 8
    BY <1>2, <1>4, LengthOfSingle
  <2> QED  BY <1>2, <2>1
<1> HIDE DEF R
<1>7. CASE ~ is_ptr_valid(SingleStart)
  <2>1. ctx.dest_size <= offset
    BY <1>2, <1>5, <1>7 DEF is_ptr_valid
  <2>2. offset <= LengthOf(action, R)
    BY <1>2, <1>6
  <2> QED  BY <1>1, <1>2, <2>1, <2>2, MeasuredRefusal DEF R
<1>8. CASE is_ptr_valid(SingleStart)
  <2>1. TupleInitOk(mem, SingleStart)
    <3>1. offset + 8 <= 2 * Cells
      BY <1>2, <1>5, <1>8, AddressInMemory
    <3>2. offset \in 0 .. 2 * Cells - 1
      BY <1>2, <3>1, MemoryAssumption
    <3>3. offset <= offset
      BY <1>2
    <3>4. TupleType(mem, offset) = STD
      BY <1>2, <1>4, <3>2, <3>3 DEF Open, Untyped
    <3> QED  BY <1>5, <3>4 DEF TupleInitOk, STD, TUPLE_ARRAY
  <2>2. SingleOverflow
    BY <1>3, <1>8, <2>1 DEF RejectSingle
  <2>3. ~ FitsBuffer(SingleData(InitSingle), SizeOfCurrent)
    BY <2>2 DEF SingleOverflow
  <2>4. TupleType(InitSingle, SingleStart) = SingleType
    BY <1>1, <1>2, <1>8, <2>1, SingleFacts
  <2>5. /\ SizeOfCurrent = IF half THEN 2 ELSE 4
        /\ SingleType = IF half THEN HD ELSE STD
    BY <1>2, ElemKind, TableElems, WordSizes DEF SizeOfCurrent, SingleType
  <2>6. SingleData(InitSingle) = offset + IF half THEN 2 ELSE 4
    BY <1>2, <1>5, <2>4, <2>5, Accessors DEF SingleData
  <2>7. SingleData(InitSingle) + SizeOfCurrent = LengthOf(action, R)
    BY <1>2, <1>6, <2>5, <2>6
  <2>8. ctx.dest_size <= LengthOf(action, R) /\ LengthOf(action, R) \in Nat
    BY <1>2, <1>6, <2>3, <2>7 DEF FitsBuffer
  <2>9. LengthOf(action, R) <= LengthOf(action, R)
    BY <2>8
  <2> QED  BY <1>1, <2>8, <2>9, MeasuredRefusal DEF R
<1> QED  BY <1>7, <1>8

(* Nor does an element that would join the tuple before it.                *)
LEMMA MeasuredNoJoin ==
  ASSUME Sendable, Callable, WholeInv, RunsInv, CarryInv, Measured, ContOverflow
  PROVE  Measured'
<1> DEFINE R == Before(action, current) \cup {current}
           half == current \in Halves(action)
           b == TupleId(mem, cont_tuple)
<1>1. /\ pc = "pack" /\ pc' = "done" /\ ret' = -EINVAL /\ UNCHANGED <<ctx, action>>
      /\ cont = 1 /\ ~ (is_ptr_valid(ContData) /\ FitsBuffer(ContData, SizeOfCurrent))
  BY DEF ContOverflow, Return
<1>2. /\ Known(action) /\ current \in Elems(action)
      /\ offset \in Nat /\ ctx.dest_size \in Nat
  BY <1>1, Measuring
<1>3. /\ TupleType(mem, cont_tuple) = HD => half /\ current.id = b + 1
      /\ LengthOf(action, R)
           = offset + IF half /\ current.id # b + 1 THEN 2 ELSE 4
  BY <1>1, JoinLengthens
<1>4. SizeOfCurrent = IF half THEN 2 ELSE 4
  BY <1>2, ElemKind DEF SizeOfCurrent
<1>5. ContData = offset + IF TupleType(mem, cont_tuple) = HD THEN 2 ELSE 0
  BY DEF ContData, SizeIncrease
<1> HIDE DEF R, b, half
<1>6. ContData \in Nat /\ ContData + SizeOfCurrent <= LengthOf(action, R)
  BY <1>2, <1>3, <1>4, <1>5
<1>7. ctx.dest_size <= ContData + SizeOfCurrent
  BY <1>1, <1>2, <1>4, <1>6 DEF is_ptr_valid, FitsBuffer
<1>8. ContData + SizeOfCurrent \in Nat
  BY <1>4, <1>6
<1> QED  BY <1>1, <1>6, <1>7, <1>8, MeasuredRefusal DEF R

(* The header init_header makes has the elems structure, and no route.     *)
LEMMA HeaderSize ==
  ASSUME NEW m \in Memory, NEW id \in Nat, id \div 65536 < 256
  PROVE  HdrSize(init_header(m, id)) = 12
<1> DEFINE high == (id \div 65536) % 65536
           flag == IF (high \div ElemsBit) % 2 = 1 THEN high ELSE high + ElemsBit
           n == init_header(m, id)
<1>1. high \in Nat /\ high < 256
  BY SMT
<1> HIDE DEF high
<1>2. flag = high + 4096 /\ flag % 65536 = flag
  BY <1>1 DEF ElemsBit
<1>3. n = Store(Store(m, 0, id), 2, flag)
  BY DEF init_header, high
<1>4. Half(n, 2) = flag % 65536
  <2>1. Store(m, 0, id) \in Memory /\ flag \in Int /\ 2 < 2 * Cells
    BY <1>1, <1>2, StoreType, MemoryAssumption
  <2> HIDE DEF flag, n
  <2> QED  BY <1>3, <2>1, StoreRead
<1>5. ~ HasRoute(n)
  BY <1>1, <1>2, <1>4 DEF HasRoute, RouteBit
<1>6. HasElems(n)
  BY HeaderMade
<1> QED
  BY <1>5, <1>6 DEF HdrSize, ElemsAdd, RouteAdd, SizeofHdr, SizeofElems

(* The call begins with nothing behind it.                                 *)
LEMMA MeasuredBegin ==
  ASSUME Sendable, Callable, WholeInv, CarryInv, BeginPack
  PROVE  Measured'
<1>1. /\ pc = "lookup" /\ action' = get_action_def(ctx.id) /\ action' # NULL
      /\ mem' = init_header(mem, ctx.id) /\ offset' = HdrSize(mem')
      /\ current' = get_first_elem(action')
      /\ UNCHANGED <<ctx, cont, tuples>>
  BY DEF BeginPack
<1>2. /\ mem \in Memory /\ ctx \in Context /\ cont = 0 /\ tuples = 0
  BY <1>1 DEF WholeInv, WalkInv, AlignInv, TypeOK, Registered, CarryInv
<1>3. ctx.id \in Ids /\ ctx.id \in Nat /\ ctx.id \div 65536 < 256
  <2>1. ctx.id \in Ids
    BY <1>2 DEF Context
  <2>2. \A id \in Ids : id \div 65536 < 256
    BY DEF Callable
  <2>3. ctx.id \in Nat
    BY <2>1, CallAssumption
  <2> QED  BY <2>1, <2>2, <2>3
<1>4. offset' = 12
  BY <1>1, <1>2, <1>3, HeaderSize
<1>5. Known(action')
  BY <1>1, GetActionDef
<1> DEFINE d == action'
           e == current'
<1>6. e \in Elems(d) /\ \A f \in Elems(d) : e.id <= f.id /\ f.id \in Nat
  BY <1>1, <1>5, FirstIsLowest, TableElems
<1>7. pc' = "pack"
  <2>1. e # NULL
    BY <1>5, <1>6, KnownElems
  <2> QED  BY <2>1 DEF BeginPack
<1>8. Before(d, e) = {}
  <2>1. \A f \in Elems(d) : ~ f.id < e.id
    BY <1>6
  <2> QED  BY <2>1 DEF Before
<1>9. Done' = {}
  BY <1>7, <1>8 DEF Done, Before
<1>10. NoneBefore(d, e.id, e)
  <2>1. \A g \in Elems(d) : g.id + 1 # e.id
    BY <1>6
  <2> QED  BY <2>1 DEF NoneBefore
<1>11. RunOpen'
  BY <1>1, <1>2, <1>4, <1>10 DEF RunOpen, NoneBefore
<1>12. /\ offset' = LengthOf(action, Done)'
       /\ (tuples + cont)' = Cardinality(Heads(action) \cap Done)'
  <2>1. /\ LengthOf(action, Done)' = LengthOf(d, {})
        /\ Cardinality(Heads(action) \cap Done)' = Cardinality(Heads(d) \cap {})
    BY <1>9 DEF LengthOf, Heads, Halves, Paired, SameTuple
  <2>2. /\ LengthOf(d, {}) = 12 /\ Cardinality(Heads(d) \cap {}) = 0
    BY LengthOfNone DEF SizeofHdr, SizeofElems
  <2> QED  BY <1>1, <1>2, <1>4, <2>1, <2>2
<1>13. action' = Sending'
  BY <1>1 DEF Sending
<1> QED  BY <1>7, <1>11, <1>12, <1>13 DEF Measured, LengthOrRefused

(* And ends with all of it: the header is completed, which has the words   *)
(* to count them.                                                          *)
LEMMA MeasuredComplete ==
  ASSUME Sendable, Callable, WholeInv, CarryInv, Measured, complete_header
  PROVE  Measured'
<1>1. pc = "complete" /\ pc' = "done" /\ UNCHANGED <<ctx, action>>
  BY DEF complete_header, Return
<1>2. /\ AlignInv /\ Underway /\ action # NULL
      /\ offset \in Nat /\ ctx \in Context /\ action = Sending
      /\ offset = LengthOf(action, Elems(action)) /\ placed # <<>>
  BY <1>1 DEF WholeInv, WalkInv, AlignInv, TypeOK, Underway, Measured, Done, CarryInv
<1>3. Known(action)
  BY <1>2 DEF AlignInv, Registered
<1>4. offset = MessageLength(action)
  BY <1>2, <1>3, LengthOfAll
<1>5. offset < ctx.dest_size /\ HdrSize(mem) <= offset
  BY <1>2 DEF CarryInv, Chained, Counted
<1>6. /\ ctx.dest_size \in Nat /\ ctx.dest_size <= 4 * SizeLimit
      /\ SizeLimit \in Nat /\ HdrSize(mem) \in Nat /\ HdrSize(mem) >= 4
  <2>1. ctx.dest_size \in DestSizes
    BY <1>2 DEF Context
  <2>2. \A size \in DestSizes : size \in Nat /\ size <= 4 * SizeLimit
    BY MemoryAssumption DEF Callable
  <2> QED  BY <2>1, <2>2, LimitAssumption, HdrSizeWords
<1>7. ~ SizeInWords >= SizeLimit
  <2> DEFINE h == HdrSize(mem)
  <2>1. SizeInWords = (offset - h) \div 4
    BY DEF SizeInWords
  <2> HIDE DEF h
  <2>2. h \in Nat /\ h >= 4 /\ h <= offset
    BY <1>5, <1>6 DEF h
  <2> QED  BY <1>2, <1>5, <1>6, <2>1, <2>2
<1>8. ret' = offset
  BY <1>7 DEF complete_header, Return, TooBig
<1>9. Sending' = action /\ ctx' = ctx /\ action' = Sending'
  BY <1>1, <1>2 DEF Sending
<1>10. MessageLength(Sending)' = MessageLength(action)
  BY <1>9 DEF MessageLength, Heads, Halves, SameTuple
<1> QED
  BY <1>1, <1>4, <1>5, <1>8, <1>9, <1>10 DEF Measured, LengthOrRefused

(* Every step keeps the measure.                                           *)
LEMMA MeasuredStep ==
  ASSUME Sendable, Callable, WholeInv, RunsInv, CarryInv, Measured, [Next]_vars
  PROVE  Measured'
<1>1. CASE Client
  BY <1>1 DEF Client, Collect, ipct_msg_pack, Measured, LengthOrRefused
<1>2. CASE BadCall
  <2>1. pc = "lookup" /\ ctx \in Context
    BY <1>2 DEF BadCall, WholeInv, WalkInv, AlignInv, TypeOK
  <2>2. /\ get_action_def(ctx.id) # NULL
        /\ get_action_def(ctx.id).size <= ctx.src_size
    BY <2>1 DEF Context, Callable
  <2>3. get_action_def(ctx.id).size \in Nat /\ ctx.src_size \in Nat
    BY <2>1, <2>2, GetActionDef, RegistryAssumption, CallAssumption
    DEF Known, Desc, Context
  <2> QED  BY <1>2, <2>2, <2>3 DEF BadCall
<1>3. CASE BeginPack
  BY <1>3, MeasuredBegin
<1>4. CASE RejectElem \/ RejectSingle \/ SingleOverflow
  BY <1>4, MeasuredNoRoom
<1>5. CASE PackSingle
  BY <1>5, MeasuredSingle
<1>6. CASE ContOverflow
  BY <1>6, MeasuredNoJoin
<1>7. CASE PackCont
  BY <1>7, MeasuredCont
<1>8. CASE complete_header
  BY <1>8, MeasuredComplete
<1>9. CASE UNCHANGED vars
  BY <1>9 DEF vars, Measured, LengthOrRefused, Sending, Done, RunOpen
<1> QED
  BY <1>1, <1>2, <1>3, <1>4, <1>5, <1>6, <1>7, <1>8, <1>9 DEF Next, PackStep

(* Whatever is packed, the write offset is the length of what the walk has *)
(* behind it.                                                              *)
THEOREM OffsetIsLength ==
  ASSUME Sendable, Callable
  PROVE  PairSpec => []Measured
<1>1. FreshBuffers /\ SizeFits /\ TablesInWords
  BY SendableInWords DEF Sendable
<1>2. Spec => [](WholeInv /\ RunsInv /\ CarryInv)
  BY <1>1, CarryInvariant
<1>3. Init => Measured
  BY DEF Init, Measured, LengthOrRefused
<1>4. WholeInv /\ RunsInv /\ CarryInv /\ Measured /\ [Next]_vars => Measured'
  BY MeasuredStep
<1> QED  BY <1>2, <1>3, <1>4, SenderPacks, PTL DEF Spec

(* A message is not shorter than its header. *)
LEMMA LengthIsNat ==
  ASSUME Sendable, NEW d, Known(d)
  PROVE  MessageLength(d) \in Nat
BY LengthOfAll, LengthGrows

(* PacksWhatFits: a message has the length of its descriptor and lies in   *)
(* its buffer, and a buffer with a byte to spare is never refused - for    *)
(* all such tables, all structures and all buffer sizes.                   *)
THEOREM PacksFitting ==
  ASSUME Sendable, Callable
  PROVE  PairSpec => []PacksWhatFits
<1>1. TypeOK /\ Measured => PacksWhatFits
  <2> SUFFICES ASSUME TypeOK, Measured, pc = "done"
               PROVE  /\ ret >= 0 => /\ ret = MessageLength(Sending)
                                     /\ ret <= ctx.dest_size
                      /\ ctx.dest_size > MessageLength(Sending) => ret >= 0
    BY DEF PacksWhatFits
  <2>1. ret = IF MessageLength(Sending) < ctx.dest_size
              THEN MessageLength(Sending) ELSE -EINVAL
    BY DEF Measured, LengthOrRefused
  <2>2. ctx.id \in Ids /\ ctx.dest_size \in Nat
    BY MemoryAssumption DEF TypeOK, Context
  <2>3. MessageLength(Sending) \in Nat
    BY <2>2, GetActionDef, LengthIsNat DEF Callable, Sending
  <2> QED  BY <2>1, <2>2, <2>3 DEF EINVAL
<1>2. Spec => []TypeOK
  BY TypeCorrect
<1> QED  BY <1>1, <1>2, OffsetIsLength, SenderPacks, PTL

=============================================================================
