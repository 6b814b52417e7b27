-------------------------- MODULE IpctArrivalProofs --------------------------
(***************************************************************************)
(* What arrives: between compatible tables the two calls of a pair are the *)
(* transfer their clients see, for all tables, structures and buffer       *)
(* sizes.                                                                  *)
(***************************************************************************)
EXTENDS IpctPairProofs

(* The receiver has a table to receive by, whose members lie apart in its  *)
(* structure, and which is compatible with those the sender is asked for.  *)
Served ==
  /\ Receivable
  /\ <<0, 0, 0>> \in DOMAIN ReceiverRegistry /\ Receiving # NULL
  /\ \A e, f \in Elems(Receiving) :
       /\ e.id = f.id => e = f
       /\ e # f => U!MemberCells(e) \cap U!MemberCells(f) = {}
  /\ \A e \in Elems(Receiving) :
       e.offset % 2 = 0 /\ e.offset + elem_get_data_size(e) <= 2 * StructCells
  /\ \A id \in Ids : Compatible(get_action_def(id), Receiving)

-----------------------------------------------------------------------------
(***************************************************************************)
(* Validating and storing are the same on both sides.                      *)
(***************************************************************************)

(* The comparisons of numbers. *)
LEMMA SameRange ==
  ASSUME NEW e, NEW c
  PROVE  U!IntInRange(e, c) <=> IntInRange(e, c)
<1>1. \A k, x : U!Biased(e, k, x) = Biased(e, k, x)
  BY SameElems DEF U!Biased, Biased, U!SignedTypes, SignedTypes
<1>2. \A v, k : U!ValueCell(v, k) = ValueCell(v, k)
  BY DEF U!ValueCell, ValueCell
<1>3. \A x, y, n : U!Less(x, y, n) <=> Less(x, y, n)
  BY DEF U!Less, Less
<1> DEFINE n    == CellsOf(e)
           x    == [k \in 0 .. n - 1 |-> Biased(e, k, c[k])]
           low  == [k \in 0 .. n - 1 |-> Biased(e, k, ValueCell(e.value1, k))]
           high == [k \in 0 .. n - 1 |-> Biased(e, k, ValueCell(e.value2, k))]
<1>4. U!CellsOf(e) = n
  BY SameElems
<1>5. U!IntInRange(e, c) <=> ~ U!Less(x, low, n) /\ ~ U!Less(high, x, n)
  BY <1>1, <1>2, <1>4 DEF U!IntInRange
<1>6. IntInRange(e, c) <=> ~ Less(x, low, n) /\ ~ Less(high, x, n)
  BY DEF IntInRange
<1> HIDE DEF n, x, low, high
<1> QED  BY <1>3, <1>5, <1>6

(* The masks. *)
LEMMA SameMask ==
  ASSUME NEW e, NEW c
  PROVE  U!InMask(e, c) <=> InMask(e, c)
<1>1. \A v, k : U!ValueCell(v, k) = ValueCell(v, k)
  BY DEF U!ValueCell, ValueCell
<1>2. \A x, i : U!Bit(x, i) = Bit(x, i)
  BY DEF U!Bit, Bit
<1> QED  BY <1>1, <1>2, SameElems DEF U!InMask, InMask

(* Whole words and half-words are accepted for what they are to their      *)
(* client.                                                                 *)
LEMMA SameValueOk ==
  ASSUME NEW e, NEW c, e.type \in HalfWordTypes \cup WordTypes,
         e.type \notin ByteTypes
  PROVE  U!ValueOk(e, c) <=> InRange(e, c)
<1>1. e.type # "int8_value" /\ e.type # "uint8_value"
  BY DEF ByteTypes
<1>2. InRange(e, c) <=> ValueOk(e, c)
  BY <1>1 DEF InRange
<1>3. e.type \notin BlockTypes
  BY DEF HalfWordTypes, WordTypes, BlockTypes, SizedTypes
<1>4. /\ U!MaskTypes = MaskTypes /\ U!FloatTypes = FloatTypes
      /\ U!BlockTypes = BlockTypes
  BY DEF U!MaskTypes, MaskTypes, U!FloatTypes, FloatTypes, U!BlockTypes,
     BlockTypes, U!SizedTypes, SizedTypes
<1>5. U!ValueOk(e, c) <=>
        CASE e.type \in MaskTypes  -> InMask(e, c)
          [] e.type \in FloatTypes -> FloatInRange(e, c)
          [] OTHER                 -> IntInRange(e, c)
  BY <1>1, <1>3, <1>4, SameRange, SameMask DEF U!ValueOk
<1>6. ValueOk(e, c) <=>
        CASE e.type \in MaskTypes  -> InMask(e, c)
          [] e.type \in FloatTypes -> FloatInRange(e, c)
          [] OTHER                 -> IntInRange(e, c)
  BY <1>1, <1>3 DEF ValueOk
<1> QED  BY <1>2, <1>5, <1>6

(* Such a datum is stored as it is. *)
LEMMA StoredAsIs ==
  ASSUME NEW e, NEW c, NEW old, NEW k, e.type \in HalfWordTypes \cup WordTypes,
         e.type \notin ByteTypes
  PROVE  U!StoredCell(e, c, old, k) = c[k]
<1>1. e.type \notin U!ByteTypes /\ e.type \notin U!BlockTypes
  BY DEF U!ByteTypes, ByteTypes, U!BlockTypes, U!SizedTypes, HalfWordTypes,
     WordTypes
<1> QED  BY <1>1 DEF U!StoredCell

(* And is to its client what its cells are. *)
LEMMA ValueAsIs ==
  ASSUME NEW e, NEW v, e.type \notin ByteTypes
  PROVE  ClientValue(e, v) = [k \in 0 .. CellsOf(e) - 1 |-> v[k]]
BY DEF ClientValue

-----------------------------------------------------------------------------
(***************************************************************************)
(* Members the two have in common.                                         *)
(***************************************************************************)

(* Who is sent a message: the sender's part of what is known.              *)
Delivered == SenderInv /\ Measured /\ Packed

(* A message that was packed has the length of its action, in its buffer.  *)
LEMMA DeliveredMessage ==
  ASSUME Sendable, Callable, Served, Delivered
  PROVE  /\ Message /\ action = Sending /\ Known(action)
         /\ Compatible(action, Receiving)
         /\ ret = MessageLength(Sending) /\ MessageLength(Sending) < ctx.dest_size
         /\ ret \in Nat /\ ctx \in Context
<1>1. Message /\ Packed /\ Measured
  BY DEF Delivered, SenderInv, Message
<1>2. action = Sending /\ LengthOrRefused
  BY <1>1 DEF Measured, Packed
<1>3. ret \in Nat
  BY <1>1, TuplesInARow
<1>4. ret = MessageLength(Sending) /\ MessageLength(Sending) < ctx.dest_size
  <2>1. ret # -EINVAL
    BY <1>3 DEF EINVAL
  <2> QED  BY <1>1, <1>2, <2>1 DEF LengthOrRefused, Packed
<1>5. Known(action) /\ ctx \in Context
  BY <1>1, MessagePlaces DEF Message, WholeInv, WalkInv, AlignInv, TypeOK, Packed
<1>6. ctx.id \in Ids
  BY <1>5 DEF Context
<1>7. Compatible(action, Receiving)
  BY <1>2, <1>6 DEF Served, Sending
<1> QED  BY <1>1, <1>2, <1>3, <1>4, <1>5, <1>7

(* The element of an ID is the one that has it. *)
LEMMA WithId ==
  ASSUME NEW d, \A e, f \in Elems(d) : e.id = f.id => e = f, NEW e \in Elems(d)
  PROVE  ElemWith(d, e.id) = e
BY DEF ElemWith

(* An element of the receiver's whose ID the sender knows is of the same   *)
(* type, lies within the message's length, and is no byte.                 *)
LEMMA CommonMember ==
  ASSUME Sendable, Callable, Served, Delivered,
         NEW e \in Elems(Receiving), e.id \in MemberIds(action)
  PROVE  /\ ElemOf(e.id) \in Elems(action) /\ ElemOf(e.id).id = e.id
         /\ ElemWith(Sending, e.id) = ElemOf(e.id) /\ ElemWith(Receiving, e.id) = e
         /\ ElemOf(e.id).type = e.type
         /\ e.type \notin ByteTypes /\ e.type \in HalfWordTypes \cup WordTypes
         /\ elem_get_data_size(ElemOf(e.id)) = elem_get_data_size(e)
         /\ elem_get_data_size(e) \in {2, 4}
         /\ CellsOf(ElemOf(e.id)) = CellsOf(e) /\ CellsOf(e) \in Nat
         /\ e.offset \in Nat /\ e.offset + elem_get_data_size(e) <= ret
<1>1. /\ Message /\ action = Sending /\ Known(action)
      /\ MembersMatch(action, Receiving) /\ ret = MessageLength(action)
  BY DeliveredMessage DEF Compatible
<1>2. PICK s \in Elems(action) : s.id = e.id
  BY DEF MemberIds
<1>3. /\ ElemOf(e.id) = s /\ s.type \in HalfWordTypes \cup WordTypes
  BY <1>1, <1>2, ActionElems
<1>4. ElemWith(action, e.id) = s
  <2>1. \A f, g \in Elems(action) : f.id = g.id => f = g
    BY <1>1, KnownElems
  <2> QED  BY <1>2, <2>1, WithId
<1>5. ElemWith(Receiving, e.id) = e
  BY WithId DEF Served
<1>6. e.id \in MemberIds(action) \cap MemberIds(Receiving)
  BY DEF MemberIds
<1>7. /\ s.type = e.type /\ e.type \notin ByteTypes
      /\ e.offset + elem_get_data_size(e) <= ret
  BY <1>1, <1>4, <1>5, <1>6 DEF MembersMatch
<1>8. elem_get_data_size(s) = elem_get_data_size(e) /\ elem_get_data_size(e) \in {2, 4}
  BY <1>3, <1>7, WordSizes
<1>9. CellsOf(s) = CellsOf(e) /\ CellsOf(e) \in Nat
  BY <1>8 DEF CellsOf
<1>10. e.offset \in Nat
  <2>1. Receiving \in Desc
    BY DEF Served, Receivable, Receiving
  <2>2. e \in Elem
    BY <2>1 DEF Desc, Elems
  <2> QED  BY <2>2 DEF Elem
<1> QED
  BY <1>1, <1>2, <1>3, <1>4, <1>5, <1>7, <1>8, <1>9, <1>10

-----------------------------------------------------------------------------
(***************************************************************************)
(* The item the receiver is at.                                            *)
(***************************************************************************)

(* It is one the sender has placed, and lies in the message.               *)
LEMMA ItemPlaced ==
  ASSUME Sendable, SenderInv, ReceiverAt, ReceiverTyped, rx_pc = "item",
         NEW t, t = U!tuple
  PROVE  /\ t \in Starts /\ t \in Nat /\ item \in 0 .. MateCount(t) - 1
         /\ TupleId(mem, t) \in Nat
         /\ \E j \in MatesIn(placed, t) :
              /\ placed[j].id = TupleId(mem, t) + item
              /\ Carries(mem, t, MateCount(t), ElemOf(placed[j].id), Datum(j))
<1>1. Message /\ t \in Starts /\ t \in Nat
  BY ItemAt
<1>2. /\ MateCount(t) \in Nat /\ TupleId(mem, t) \in Nat
      /\ ItemIds(t) = TupleId(mem, t) .. TupleId(mem, t) + MateCount(t) - 1
  BY <1>1, TupleItems
<1>3. item \in Nat /\ item < MateCount(t)
  <2>1. item \in Nat /\ item < U!tuple_data_count(mem, t)
    BY DEF ReceiverTyped
  <2>2. U!tuple_data_count(mem, t) = tuple_data_count(mem, t)
    BY SameAccessors
  <2> QED  BY <1>1, <2>1, <2>2, TupleWords
<1>4. TupleId(mem, t) + item \in ItemIds(t)
  BY <1>2, <1>3
<1>5. PICK j \in MatesIn(placed, t) : placed[j].id = TupleId(mem, t) + item
  BY <1>4 DEF ItemIds
<1>6. Carries(mem, t, MateCount(t), ElemOf(placed[j].id), Datum(j))
  BY <1>1, MateIndex
<1> QED  BY <1>1, <1>2, <1>3, <1>5, <1>6

(* An item of a tuple ends in it. *)
LEMMA ItemInTuple ==
  ASSUME NEW m \in Memory, NEW t \in Nat, t + 8 <= 2 * Cells,
         NEW k \in Nat, NEW e, NEW v, Carries(m, t, k, e, v),
         e.type \in HalfWordTypes \cup WordTypes
  PROVE  LET i == e.id - TupleId(m, t)
         IN /\ tuple_data_size(m, t) = elem_get_data_size(e)
            /\ tuple_get_data(m, t, i) + elem_get_data_size(e)
                 <= t + tuple_size(m, t)
<1> DEFINE i    == e.id - TupleId(m, t)
           type == TupleType(m, t)
           size == elem_get_data_size(e)
<1>1. /\ \/ type = STD /\ k = 1 /\ 4 * Count(m, t) = size
         \/ type = HD /\ k = 1 /\ size = 2
         \/ type = STD_ARRAY /\ Count(m, t) = k /\ size = 4
         \/ type = HD_ARRAY /\ Count(m, t) = k /\ size = 2
      /\ i \in 0 .. k - 1
  BY WordSizes, CarriesKinds DEF Carries
<1>2. type = STD => size = 4
  BY WordSizes DEF Carries, STD, HD, HD_ARRAY
<1>3. Count(m, t) \in Nat
  BY HeaderType, U16Elim
<1> HIDE DEF i, size
<1>4. CASE type = STD /\ k = 1 /\ 4 * Count(m, t) = size
  <2>1. /\ tuple_data_size(m, t) = 4 /\ tuple_get_data(m, t, i) = t + 4 + 4 * i
        /\ tuple_size(m, t) = 4 + 4 * Count(m, t)
    BY <1>4, Accessors
  <2> QED  BY <1>1, <1>2, <1>3, <1>4, <2>1 DEF i, size
<1>5. CASE type = HD /\ k = 1 /\ size = 2
  <2>1. /\ tuple_data_size(m, t) = 2 /\ tuple_get_data(m, t, i) = t + 2
        /\ tuple_size(m, t) = 4
    BY <1>5, Accessors
  <2> QED  BY <1>1, <1>5, <2>1 DEF i, size
<1>6. CASE type = STD_ARRAY /\ Count(m, t) = k /\ size = 4
  <2>1. /\ tuple_data_size(m, t) = 4 /\ tuple_get_data(m, t, i) = t + 4 + 4 * i
        /\ tuple_size(m, t) = 4 + 4 * Count(m, t)
    BY <1>6, Accessors
  <2> QED  BY <1>1, <1>3, <1>6, <2>1 DEF i, size
<1>7. CASE type = HD_ARRAY /\ Count(m, t) = k /\ size = 2
  <2>1. /\ tuple_data_size(m, t) = 2 /\ tuple_get_data(m, t, i) = t + 4 + 2 * i
        /\ tuple_size(m, t) = 4 + 2 * Count(m, t)
    BY <1>7, Accessors
  <2> QED  BY <1>1, <1>3, <1>7, <2>1 DEF i, size
<1> QED  BY <1>1, <1>4, <1>5, <1>6, <1>7

(* What the receiver finds there, when it knows the item: what the sender  *)
(* had, whole, in the message.                                             *)
LEMMA ItemIsSent ==
  ASSUME Sendable, Callable, Served, Delivered, ReceiverAt, ReceiverTyped,
         rx_pc = "item", U!ElemAt # NULL, NEW e, e = U!ElemAt
  PROVE  /\ e \in Elems(Receiving) /\ e.id = TupleId(mem, U!tuple) + item
         /\ e.id \in MemberIds(action) /\ e.id \in Nat
         /\ U!Datum = [k \in 0 .. CellsOf(e) - 1 |-> U!Datum[k]]
         /\ U!Datum = Sent(e.id)
         /\ U!tuple_data_size(mem, U!tuple) = elem_get_data_size(e)
         /\ U!DataAt + elem_get_data_size(e) <= ret
<1> DEFINE t == U!tuple
<1>1. SenderInv /\ Message
  BY DeliveredMessage DEF Delivered
<1>2. PICK j \in MatesIn(placed, t) :
        /\ placed[j].id = TupleId(mem, t) + item
        /\ Carries(mem, t, MateCount(t), ElemOf(placed[j].id), Datum(j))
  BY <1>1, ItemPlaced
<1>3. U!action_def # NULL
  BY DEF ReceiverTyped
<1>4. /\ e \in Elems(Receiving) /\ e.id = TupleId(mem, t) + item
  BY <1>3, ReceiverElem DEF Served
<1>5. /\ e.id = placed[j].id /\ j \in 1 .. Len(placed)
  BY <1>2, <1>4 DEF MatesIn
<1> DEFINE s == ElemOf(e.id)
<1>6. s \in Elems(action) /\ s.id = e.id /\ e.id \in MemberIds(action) /\ e.id \in Nat
  BY <1>1, <1>5, ActionElems DEF MemberIds
<1>7. /\ ElemWith(Sending, e.id) = s /\ s.type = e.type
      /\ e.type \notin ByteTypes /\ e.type \in HalfWordTypes \cup WordTypes
      /\ elem_get_data_size(s) = elem_get_data_size(e)
      /\ elem_get_data_size(e) \in {2, 4} /\ CellsOf(s) = CellsOf(e)
  BY <1>4, <1>6, CommonMember
<1>8. U!DataAt = tuple_get_data(mem, t, item)
  BY SameAccessors DEF U!DataAt
<1>9. /\ t \in Starts /\ t \in Nat /\ t + 8 <= 2 * Cells /\ MateCount(t) \in Nat
      /\ mem \in Memory /\ TupleEnd(t) <= ret /\ TupleId(mem, t) \in Nat
      /\ item \in Nat
  <2>1. t \in Starts /\ item \in 0 .. MateCount(t) - 1 /\ TupleId(mem, t) \in Nat
    BY <1>1, ItemPlaced
  <2> QED  BY <1>1, <2>1, TupleWords, TupleItems, MessagePlaces
<1>10. Carries(mem, t, MateCount(t), s, Datum(j)) /\ Datum(j) = ctx.src[s.offset]
  BY <1>2, <1>5 DEF Datum
<1>11. s.id - TupleId(mem, t) = item
  BY <1>4, <1>6, <1>9
<1>12. Sent(e.id) = [k \in 0 .. CellsOf(e) - 1 |-> ctx.src[s.offset][k]]
  <2>1. Sent(e.id) = ClientValue(s, ctx.src[s.offset])
    BY <1>7 DEF Sent, SentFrom
  <2>2. s.type \notin ByteTypes
    BY <1>7
  <2> DEFINE v == ctx.src[s.offset]
  <2> HIDE DEF s, v
  <2>3. ClientValue(s, v) = [k \in 0 .. CellsOf(s) - 1 |-> v[k]]
    BY <2>2, ValueAsIs
  <2> QED  BY <1>7, <2>1, <2>3 DEF v
<1>13. U!Datum = [k \in 0 .. CellsOf(e) - 1 |->
                    Half(mem, tuple_get_data(mem, t, item) + 2 * k)]
  BY <1>8, SameElems DEF U!Datum, U!Half, Half
<1>14. \A k \in 0 .. CellsOf(e) - 1 :
         Half(mem, tuple_get_data(mem, t, item) + 2 * k) = ctx.src[s.offset][k]
  <2>1. Holds(mem, tuple_get_data(mem, t, item), ctx.src[s.offset],
              elem_get_data_size(s))
    BY <1>10, <1>11 DEF Carries
  <2> HIDE DEF s, t
  <2> QED  BY <1>7, <2>1 DEF Holds, CellsOf
<1>15. U!Datum = Sent(e.id)
  <2> HIDE DEF s, t
  <2> QED  BY <1>12, <1>13, <1>14
<1>16. /\ tuple_data_size(mem, t) = elem_get_data_size(e)
       /\ tuple_get_data(mem, t, item) + elem_get_data_size(e)
                 <= TupleEnd(t)
  <2>1. s.type \in HalfWordTypes \cup WordTypes
    BY <1>7
  <2> HIDE DEF s, t
  <2>2. /\ tuple_data_size(mem, t) = elem_get_data_size(s)
        /\ tuple_get_data(mem, t, item) + elem_get_data_size(s)
                 <= t + tuple_size(mem, t)
    BY <1>9, <1>10, <1>11, <2>1, ItemInTuple
  <2> QED  BY <1>7, <2>2 DEF TupleEnd
<1>17. U!DataAt + elem_get_data_size(e) <= ret
  <2>1. ret \in Nat
    BY DeliveredMessage
  <2>2. U!DataAt \in Int /\ TupleEnd(t) \in Int
    <3>1. TupleType(mem, t) \in {STD, HD, STD_ARRAY, HD_ARRAY}
          /\ tuple_size(mem, t) \in Nat
      BY <1>1, <1>9, TupleWords
    <3>2. tuple_get_data(mem, t, item) \in Int
      <4> HIDE DEF t
      <4> QED  BY <1>9, <3>1, Accessors
    <3> QED  BY <1>8, <1>9, <3>1, <3>2 DEF TupleEnd
  <2> HIDE DEF t
  <2> QED  BY <1>7, <1>8, <1>9, <1>16, <2>1, <2>2
<1>18. U!tuple_data_size(mem, t) = elem_get_data_size(e)
  BY <1>16, SameAccessors
<1> HIDE DEF s
<1> QED  BY <1>4, <1>6, <1>13, <1>15, <1>17, <1>18

-----------------------------------------------------------------------------
(***************************************************************************)
(* The header.                                                             *)
(***************************************************************************)

(* A message has as many tuples as its action has elements that begin one. *)
LEMMA TupleNumber ==
  ASSUME Sendable, Message
  PROVE  /\ Cardinality(Starts) = Cardinality(Heads(action))
         /\ IsFiniteSet(Starts) /\ Cardinality(Starts) \in Nat
         /\ Cardinality(Starts) # 0 /\ Cardinality(Starts) <= IPCT_TUPLE_MAX_ID
<1> DEFINE base(t) == TupleId(mem, t)
           g == [t \in Starts |-> ElemOf(base(t))]
<1>1. Known(action)
  BY MessagePlaces
<1>2. ASSUME NEW t \in Starts
      PROVE  /\ base(t) \in Nat /\ ElemOf(base(t)) \in Elems(action)
             /\ ElemOf(base(t)).id = base(t) /\ base(t) \in ItemIds(t)
             /\ \A x \in ItemIds(t) : x >= base(t)
             /\ \E j \in 1 .. Len(placed) : placed[j].id = base(t) /\ Start(j) = t
  <2>1. /\ base(t) \in Nat /\ MateCount(t) \in Nat /\ MateCount(t) >= 1
        /\ ItemIds(t) = base(t) .. base(t) + MateCount(t) - 1
    BY TupleItems
  <2> HIDE DEF base
  <2>2. base(t) \in ItemIds(t) /\ \A x \in ItemIds(t) : x >= base(t)
    BY <2>1
  <2>3. PICK j \in 1 .. Len(placed) : placed[j].id = base(t) /\ Start(j) = t
    BY <2>2 DEF ItemIds, MatesIn, Start
  <2>4. ElemOf(base(t)) \in Elems(action) /\ ElemOf(base(t)).id = base(t)
    BY <2>3, ActionElems
  <2> QED  BY <2>1, <2>2, <2>3, <2>4
<1>3. ASSUME NEW t \in Starts
      PROVE  ElemOf(base(t)) \in Heads(action)
  <2> DEFINE e == ElemOf(base(t))
  <2>1. e \in Elems(action) /\ e.id = base(t) /\ e.id \in ItemIds(t)
    BY <1>2
  <2> HIDE DEF e
  <2>2. \A f \in Elems(action) : f \in SameTuple(action, e) => e.id <= f.id
    <3>1. \A f \in Elems(action) : f \in SameTuple(action, e) => f.id \in ItemIds(t)
      BY <2>1, TupleIsRun
    <3>2. \A x \in ItemIds(t) : x >= base(t) /\ x \in Int
      BY <1>2, TupleItems
    <3>3. base(t) \in Nat
      BY <1>2
    <3> HIDE DEF base
    <3> QED  BY <2>1, <3>1, <3>2, <3>3
  <2> QED  BY <2>1, <2>2 DEF Heads, SameTuple, e
<1>4. ASSUME NEW t \in Starts, NEW u \in Starts, g[t] = g[u]
      PROVE  t = u
  <2>1. base(t) = base(u)
    BY <1>2, <1>4
  <2>2. PICK i \in 1 .. Len(placed) : placed[i].id = base(t) /\ Start(i) = t
    BY <1>2
  <2>3. PICK j \in 1 .. Len(placed) : placed[j].id = base(u) /\ Start(j) = u
    BY <1>2
  <2>4. i = j
    BY <2>1, <2>2, <2>3, MessagePlaces
  <2> QED  BY <2>2, <2>3, <2>4
<1>5. ASSUME NEW h \in Heads(action)
      PROVE  \E t \in Starts : g[t] = h
  <2>1. /\ h \in Elems(action) /\ \A f \in SameTuple(action, h) : h.id <= f.id
        /\ h.id \in Nat /\ ElemOf(h.id) = h
    BY ActionElems DEF Heads
  <2>2. PICK j \in 1 .. Len(placed) : placed[j].id = h.id
    BY <2>1, ActionElems
  <2> DEFINE t == Start(j)
             e == ElemOf(base(t))
  <2>3. t \in Starts /\ h.id \in ItemIds(t)
    BY <2>2 DEF Starts, StartsIn, Start, ItemIds, MatesIn
  <2>4. e \in Elems(action) /\ e.id = base(t) /\ e.id \in ItemIds(t)
    BY <1>2, <2>3
  <2> HIDE DEF t, e
  <2>5. e \in SameTuple(action, h)
    BY <2>1, <2>3, <2>4, TupleIsRun
  <2>6. h.id <= base(t) /\ base(t) <= h.id /\ base(t) \in Nat
    BY <1>2, <2>1, <2>3, <2>4, <2>5
  <2>7. base(t) = h.id
    BY <2>1, <2>6
  <2> QED  BY <2>1, <2>3, <2>7
<1>6. g \in Bijection(Starts, Heads(action))
  <2>1. g \in [Starts -> Heads(action)]
    BY <1>3
  <2> HIDE DEF g
  <2> QED  BY <1>4, <1>5, <2>1, Fun_IsBij
<1>7. /\ IsFiniteSet(Heads(action)) /\ Cardinality(Heads(action)) \in Nat
      /\ Cardinality(Heads(action)) <= Cardinality(Elems(action))
  <2>1. IsFiniteSet(Elems(action)) /\ Heads(action) \subseteq Elems(action)
    BY <1>1, TableElems DEF Heads
  <2> QED  BY <2>1, FS_Subset, FS_CardinalityType
<1>8. /\ Cardinality(Elems(action)) <= IPCT_TUPLE_MAX_ID
      /\ Cardinality(Elems(action)) \in Nat
  BY <1>1, TableElems
<1>9. IsFiniteSet(Starts)
  <2>1. placed \in Seq(Placement) /\ placed # <<>> /\ Len(placed) \in Nat
    BY MessagePlaces DEF Message, WholeInv, WalkInv, AlignInv, TypeOK
  <2>2. placed[1] \in Placement
    BY <2>1
  <2> QED  BY <2>1, <2>2, HistoryGrows DEF Starts
<1>10. Cardinality(Starts) = Cardinality(Heads(action))
  <2>1. ExistsBijection(Starts, Heads(action))
    BY <1>6 DEF ExistsBijection
  <2> QED  BY <1>9, <2>1, FS_Bijection
<1>11. Cardinality(Starts) # 0
  BY <1>9, TuplesInARow, FS_EmptySet
<1> QED
  BY <1>7, <1>8, <1>9, <1>10, <1>11 DEF IPCT_TUPLE_MAX_ID

(* The header's checks are passed. *)
LEMMA HeaderAccepted ==
  ASSUME Sendable, Callable, Served, Delivered
  PROVE  U!HeaderOk /\ ipct_get_tuples(mem) = Cardinality(Starts)
<1> DEFINE E == ElemsPtr(mem)
           n == Cardinality(Starts)
           a == Half(mem, E)
           b == Half(mem, E + 2)
<1>1. Message /\ Compatible(action, Receiving) /\ mem \in Memory
  BY DeliveredMessage, MessagePlaces
<1>2. /\ n \in Nat /\ n # 0 /\ n <= IPCT_TUPLE_MAX_ID
      /\ n = Cardinality(Heads(action))
  BY <1>1, TupleNumber
<1>3. /\ HdrSize(mem) \in Starts /\ HdrSize(mem) + ipct_get_size(mem) = ret
      /\ HasElems(mem) /\ ret \in Nat /\ ret <= 2 * Cells
  BY <1>1, TuplesInARow
<1>4. ipct_get_tuples(mem) = n
  BY <1>1, MessagePlaces DEF Headed, Starts
<1>5. E \in Nat /\ HdrSize(mem) = E + 8 /\ HdrSize(mem) \in Nat /\ HdrSize(mem) <= ret
  <2>1. HdrSize(mem) < ret /\ HdrSize(mem) \in Nat
    BY <1>1, <1>3, TuplesInARow, TupleWords
  <2> QED  BY <1>3, <2>1 DEF ElemsPtr, HdrSize, ElemsAdd, RouteAdd, SizeofHdr,
       SizeofElems, SizeofRoute
<1>6. a \in Nat /\ a < 65536 /\ b \in Nat /\ n = a + 65536 * b
  <2>1. E < 2 * Cells /\ E + 2 < 2 * Cells /\ E + 2 \in Nat /\ Cells \in Nat
    BY <1>3, <1>5, MemoryAssumption
  <2>2. a \in U16 /\ b \in U16
    <3> HIDE DEF E
    <3> QED  BY <1>1, <1>5, <2>1, CellType DEF Memory, a, b
  <2> QED  BY <1>3, <1>4, <2>2, U16Elim DEF ipct_get_tuples
<1> HIDE DEF n, a, b
<1>7. b = 0 /\ a = n
  BY <1>2, <1>6 DEF IPCT_TUPLE_MAX_ID
<1>8. TupleType(mem, E) \notin {VAR_ARRAY, TUPLE_ARRAY} /\ Count(mem, E) = 0
  <2>1. n % 8 \notin {4, 5}
    BY <1>1, <1>2 DEF Compatible, CountReads
  <2> QED  BY <1>7, <2>1 DEF TupleType, Count, VAR_ARRAY, TUPLE_ARRAY, a, b
<1>9. tuple_size(mem, E) \in {0, 4}
  <2> HIDE DEF E
  <2> QED  BY <1>8 DEF tuple_size, SizeofStd, SizeofMicro
<1>10. ipct_get_size(mem) \in Int /\ ipct_get_size(mem) >= 4
  <2> DEFINE t == HdrSize(mem)
  <2>1. /\ t \in Nat /\ tuple_size(mem, t) \in Nat /\ tuple_size(mem, t) >= 4
        /\ TupleEnd(t) <= ret
    BY <1>1, <1>3, TupleWords
  <2>2. ipct_get_size(mem) \in Int
    <3>1. ipct_get_size(mem) = 4 * ((offset - t) \div 4) /\ offset \in Int
      BY <1>1, MessagePlaces DEF Headed, Message, WholeInv, WalkInv, AlignInv, TypeOK
    <3> QED  BY <2>1, <3>1
  <2> HIDE DEF t
  <2>3. t + ipct_get_size(mem) = ret
    BY <1>3 DEF t
  <2> QED  BY <1>3, <2>1, <2>2, <2>3 DEF TupleEnd
<1>11. ~ U!TooSmall
  <2>1. U!TooSmall <=> ipct_get_size(mem) < tuple_size(mem, E)
    BY SameHeader, SameAccessors DEF U!TooSmall
  <2> QED  BY <1>9, <1>10, <2>1
<1>12. U!action_def # NULL
  <2>1. U!action_def = Receiving
    BY DEF Served, U!action_def, U!get_action_def, U!IdKlass, U!IdSubklass,
       U!IdAction, Receiving
  <2> QED  BY <2>1 DEF Served
<1> QED
  BY <1>2, <1>3, <1>4, <1>10, <1>11, <1>12, SameHeader DEF U!HeaderOk, n

-----------------------------------------------------------------------------
(***************************************************************************)
(* What lies behind the receiver's cursor, and what ahead of it.           *)
(***************************************************************************)

(* The IDs of the items of the tuples that start before t, and with them   *)
(* of the first x items of the tuple at t.                                 *)
Behind(t) == {placed[j].id : j \in {i \in 1 .. Len(placed) : Start(i) < t}}

BehindItem(t, x) == Behind(t) \cup {id \in ItemIds(t) : id < TupleId(mem, t) + x}

(* The tuples from t on. *)
Ahead(t) == {u \in Starts : u >= t}

(* Tuples lie in the order of the elements in them.                        *)
LEMMA InOrder ==
  ASSUME Sendable, Message, NEW i \in 1 .. Len(placed), NEW j \in 1 .. Len(placed),
         Start(i) < Start(j)
  PROVE  placed[i].id < placed[j].id /\ TupleEnd(Start(i)) <= Start(j)
<1>1. /\ Start(i) \in Starts /\ Start(j) \in Starts
      /\ Start(i) \in Nat /\ Start(j) \in Nat /\ Chained
  BY MessagePlaces DEF Starts, StartsIn, Start
<1>2. /\ TupleEnd(Start(j)) \in Int /\ TupleEnd(Start(j)) > Start(j)
  <2>1. tuple_size(mem, Start(j)) \in Nat /\ tuple_size(mem, Start(j)) >= 4
    BY <1>1, TupleWords
  <2> QED  BY <1>1, <2>1 DEF TupleEnd
<1>3. ~ j < i
  <2> SUFFICES ASSUME j < i PROVE FALSE
    OBVIOUS
  <2>1. Start(j) = Start(i) \/ TupleEnd(Start(j)) <= Start(i)
    BY <1>1 DEF Chained
  <2> QED  BY <1>1, <1>2, <2>1
<1>4. i < j
  <2>1. i # j
    BY <1>1
  <2> QED  BY <1>3, <2>1
<1>5. Start(i) = Start(j) \/ TupleEnd(Start(i)) <= Start(j)
  BY <1>1, <1>4 DEF Chained
<1> QED  BY <1>1, <1>4, <1>5, MessagePlaces

(* The same of the tuples themselves. *)
LEMMA TuplesInOrder ==
  ASSUME Sendable, Message, NEW t \in Starts, NEW u \in Starts
  PROVE  /\ t < u <=> TupleEnd(t) <= u
         /\ u < TupleEnd(t) <=> u <= t
<1>1. PICK i \in 1 .. Len(placed) : Start(i) = t
  BY DEF Starts, StartsIn, Start
<1>2. PICK j \in 1 .. Len(placed) : Start(j) = u
  BY DEF Starts, StartsIn, Start
<1>3. /\ t \in Nat /\ u \in Nat /\ tuple_size(mem, t) \in Nat
      /\ tuple_size(mem, t) >= 4
  BY TupleWords
<1>4. t < u => TupleEnd(t) <= u
  BY <1>1, <1>2, InOrder
<1> QED  BY <1>3, <1>4 DEF TupleEnd

(* Past a tuple, its items are behind the cursor, and it is not ahead.     *)
LEMMA PastTuple ==
  ASSUME Sendable, Message, NEW t \in Starts
  PROVE  /\ Behind(TupleEnd(t)) = Behind(t) \cup ItemIds(t)
         /\ Ahead(TupleEnd(t)) = Ahead(t) \ {t}
         /\ t \in Ahead(t)
         /\ Cardinality(Ahead(t)) \in Nat \ {0}
         /\ Cardinality(Ahead(TupleEnd(t))) = Cardinality(Ahead(t)) - 1
<1>1. \A i \in 1 .. Len(placed) : Start(i) \in Starts
  BY DEF Starts, StartsIn, Start
<1>2. t \in Nat /\ \A u \in Starts : u \in Nat
  BY TupleWords
<1>3. \A u \in Starts : u < TupleEnd(t) <=> u < t \/ u = t
  BY <1>2, TuplesInOrder
<1>4. Behind(TupleEnd(t)) = Behind(t) \cup ItemIds(t)
  <2>1. {i \in 1 .. Len(placed) : Start(i) < TupleEnd(t)}
          = {i \in 1 .. Len(placed) : Start(i) < t} \cup MatesIn(placed, t)
    BY <1>1, <1>3 DEF MatesIn, Start
  <2> QED  BY <2>1 DEF Behind, ItemIds
<1>5. \A u \in Starts : u >= TupleEnd(t) <=> u >= t /\ u # t
  <2> TAKE u \in Starts
  <2>1. TupleEnd(t) \in Int
    BY TupleWords DEF TupleEnd
  <2>2. u \in Nat /\ (u < TupleEnd(t) <=> u <= t)
    BY <1>2, TuplesInOrder
  <2> QED  BY <1>2, <2>1, <2>2
<1>6. Ahead(TupleEnd(t)) = Ahead(t) \ {t} /\ t \in Ahead(t)
  <2>1. t >= t
    BY <1>2
  <2>2. t \in Ahead(t)
    BY <2>1 DEF Ahead
  <2>3. \A u : u \in Ahead(TupleEnd(t)) <=> u \in Ahead(t) \ {t}
    BY <1>5 DEF Ahead
  <2> QED  BY <2>2, <2>3
<1>7. IsFiniteSet(Ahead(t))
  <2>1. Ahead(t) \subseteq Starts
    BY DEF Ahead
  <2> QED  BY <2>1, TupleNumber, FS_Subset
<1>8. /\ Cardinality(Ahead(t)) \in Nat
      /\ Cardinality(Ahead(t) \ {t}) = Cardinality(Ahead(t)) - 1
      /\ Cardinality(Ahead(t) \ {t}) \in Nat
  <2>1. IsFiniteSet(Ahead(t) \ {t})
    BY <1>6, <1>7, FS_RemoveElement
  <2> QED  BY <1>6, <1>7, <2>1, FS_CardinalityType, FS_RemoveElement
<1>9. Cardinality(Ahead(t)) # 0
  BY <1>8
<1> QED  BY <1>4, <1>6, <1>8, <1>9

(* At the first tuple everything is ahead, at the end of the message       *)
(* nothing is.                                                             *)
LEMMA WalkEnds ==
  ASSUME Sendable, Message
  PROVE  /\ Behind(HdrSize(mem)) = {} /\ Ahead(HdrSize(mem)) = Starts
         /\ Behind(ret) = MemberIds(action) /\ Cardinality(Ahead(ret)) = 0
<1>1. \A i \in 1 .. Len(placed) : Start(i) \in Starts /\ Start(i) < ret
  BY TuplesInARow DEF Starts, StartsIn, Start
<1>2. \A u \in Starts : u \in Nat /\ u >= HdrSize(mem) /\ u < ret
  BY TupleWords, TuplesInARow
<1>3. HdrSize(mem) \in Nat /\ ret \in Nat
  BY <1>2, TuplesInARow
<1>4. Behind(HdrSize(mem)) = {}
  <2>1. \A i \in 1 .. Len(placed) : ~ Start(i) < HdrSize(mem)
    BY <1>1, <1>2, <1>3
  <2> QED  BY <2>1 DEF Behind
<1>5. Ahead(HdrSize(mem)) = Starts
  BY <1>2 DEF Ahead
<1>6. Behind(ret) = PlacedIds
  <2>1. {i \in 1 .. Len(placed) : Start(i) < ret} = 1 .. Len(placed)
    BY <1>1
  <2> QED  BY <2>1 DEF Behind, PlacedIds
<1>7. Ahead(ret) = {}
  <2>1. \A u \in Starts : ~ u >= ret
    BY <1>2, <1>3
  <2> QED  BY <2>1 DEF Ahead
<1> QED  BY <1>4, <1>5, <1>6, <1>7, AllPlaced, FS_EmptySet

(* Item by item: none of a tuple is behind before the first, each one adds *)
(* itself, and after the last all are.                                     *)
LEMMA PastItem ==
  ASSUME Sendable, Message, NEW t \in Starts
  PROVE  /\ BehindItem(t, 0) = Behind(t)
         /\ \A x \in 0 .. MateCount(t) - 1 :
              BehindItem(t, x + 1) = BehindItem(t, x) \cup {TupleId(mem, t) + x}
         /\ BehindItem(t, MateCount(t)) = Behind(TupleEnd(t))
<1> DEFINE base == TupleId(mem, t)
           k    == MateCount(t)
<1>1. /\ k \in Nat /\ k >= 1 /\ base \in Nat
      /\ ItemIds(t) = base .. base + k - 1
  BY TupleItems
<1> HIDE DEF base, k
<1>2. {id \in base .. base + k - 1 : id < base + 0} = {}
  BY <1>1
<1>3. ASSUME NEW x \in 0 .. k - 1
      PROVE  {id \in base .. base + k - 1 : id < base + (x + 1)}
               = {id \in base .. base + k - 1 : id < base + x} \cup {base + x}
  <2>1. base + x \in base .. base + k - 1
    BY <1>1
  <2>2. \A id \in base .. base + k - 1 :
          id < base + (x + 1) <=> id < base + x \/ id = base + x
    BY <1>1
  <2> QED  BY <2>1, <2>2
<1>4. {id \in base .. base + k - 1 : id < base + k} = base .. base + k - 1
  BY <1>1
<1>5. \A x : BehindItem(t, x)
               = Behind(t) \cup {id \in base .. base + k - 1 : id < base + x}
  BY <1>1 DEF BehindItem, base
<1>6. BehindItem(t, 0) = Behind(t)
  BY <1>2, <1>5
<1>7. \A x \in 0 .. k - 1 : BehindItem(t, x + 1) = BehindItem(t, x) \cup {base + x}
  <2> TAKE x \in 0 .. k - 1
  <2>1. BehindItem(t, x + 1)
          = Behind(t) \cup {id \in base .. base + k - 1 : id < base + (x + 1)}
    BY <1>5
  <2>2. BehindItem(t, x)
          = Behind(t) \cup {id \in base .. base + k - 1 : id < base + x}
    BY <1>5
  <2> QED  BY <1>3, <2>1, <2>2
<1>8. BehindItem(t, k) = Behind(TupleEnd(t))
  BY <1>1, <1>4, <1>5, PastTuple
<1> QED  BY <1>6, <1>7, <1>8 DEF base, k

(* What is not behind an item has its ID or a higher one.                  *)
LEMMA NotBehind ==
  ASSUME Sendable, Message, NEW t \in Starts, NEW x \in 0 .. MateCount(t) - 1
  PROVE  /\ TupleId(mem, t) + x \notin BehindItem(t, x)
         /\ \A id \in MemberIds(action) :
              id \notin BehindItem(t, x) => TupleId(mem, t) + x <= id
<1> DEFINE base == TupleId(mem, t)
           here == base + x
<1>1. /\ MateCount(t) \in Nat /\ base \in Nat /\ x \in Nat
      /\ ItemIds(t) = base .. base + MateCount(t) - 1
  BY TupleItems
<1>2. here \in ItemIds(t) /\ here \in Nat
  BY <1>1
<1>3. PICK i \in 1 .. Len(placed) : placed[i].id = here /\ Start(i) = t
  BY <1>2 DEF ItemIds, MatesIn, Start
<1> HIDE DEF here
<1>4. here \notin BehindItem(t, x)
  <2>1. ~ here < base + x
    BY <1>1 DEF here
  <2>2. here \notin Behind(t)
    <3> SUFFICES ASSUME NEW j \in 1 .. Len(placed), Start(j) < t,
                        placed[j].id = here
                 PROVE  FALSE
      BY DEF Behind
    <3>1. i = j
      BY <1>3, MessagePlaces
    <3> QED  BY <1>3, <3>1, TupleWords
  <2> QED  BY <2>1, <2>2 DEF BehindItem
<1>5. ASSUME NEW id \in MemberIds(action), id \notin BehindItem(t, x)
      PROVE  here <= id
  <2>1. PICK j \in 1 .. Len(placed) : placed[j].id = id
    BY AllPlaced DEF PlacedIds
  <2>2. Start(j) \in Nat /\ id \in Nat /\ t \in Nat
    BY <2>1, MessagePlaces, TupleWords
  <2>3. ~ Start(j) < t
    BY <1>5, <2>1 DEF BehindItem, Behind
  <2>4. CASE Start(j) = t
    <3>1. id \in ItemIds(t)
      BY <2>1, <2>4 DEF ItemIds, MatesIn, Start
    <3>2. ~ id < base + x
      BY <1>5, <3>1 DEF BehindItem
    <3> QED  BY <1>1, <2>2, <3>2 DEF here
  <2>5. CASE Start(j) # t
    <3>1. Start(i) < Start(j)
      BY <1>3, <2>2, <2>3, <2>5
    <3>2. placed[i].id < placed[j].id
      BY <3>1, InOrder
    <3> QED  BY <1>2, <1>3, <2>1, <2>2, <3>2
  <2> QED  BY <2>4, <2>5
<1> QED  BY <1>4, <1>5 DEF here

-----------------------------------------------------------------------------
(***************************************************************************)
(* What has arrived.                                                       *)
(***************************************************************************)

(* The receiver has the common members among those behind its cursor, and  *)
(* each as it was sent; it has as many tuples to go as there are ahead.    *)
Arriving ==
  /\ rx_pc \in {"idle", "header"} => stored = <<>>
  /\ rx_pc \in {"tuples", "item"} =>
       /\ WalkAt(U!tuple, Cardinality(Ahead(U!tuple)))
       /\ HeldIds = MemberIds(Receiving)
                      \cap (IF rx_pc = "item" THEN BehindItem(U!tuple, item)
                                              ELSE Behind(U!tuple))
       /\ \A id \in HeldIds : Held(id) = Sent(id)

(* All that is known while a message is under way.                         *)
Transit == Delivered /\ ReceiverAt /\ ReceiverTyped /\ Arriving

(* The loop over the tuples goes on as long as there are any.              *)
LEMMA AtTuple ==
  ASSUME Sendable, Transit, rx_pc = "tuples"
  PROVE  /\ Message /\ Len(frames) = 1
         /\ U!tuple \in Starts \cup {ret}
         /\ U!More <=> U!tuple \in Starts
         /\ ~ U!More <=> U!tuple = ret
<1>1. /\ Message /\ Len(frames) = 1 /\ U!tuple \in Starts \cup {ret}
      /\ U!tuple \in Nat
  BY TupleAt DEF Transit, Delivered
<1> DEFINE t == U!tuple
           n == Cardinality(Ahead(t))
<1>2. WalkAt(t, n)
  BY DEF Transit, Arriving
<1>3. t \in Starts => n \in Nat /\ n # 0 /\ t # ret
  <2> HIDE DEF t
  <2> SUFFICES ASSUME t \in Starts PROVE n \in Nat /\ n # 0 /\ t # ret
    OBVIOUS
  <2>1. t < ret /\ t \in Nat
    BY <1>1, TuplesInARow, TupleWords
  <2> QED  BY <1>1, <2>1, PastTuple
<1>4. t = ret => n = 0
  BY <1>1, WalkEnds
<1>5. n \in Nat /\ ret \in Nat
  BY <1>1, <1>3, <1>4, TuplesInARow
<1> HIDE DEF t, n
<1>6. U!More <=> n # 0 /\ t # ret
  BY <1>1, <1>2, <1>5, CursorAt DEF t
<1> QED  BY <1>1, <1>3, <1>4, <1>6 DEF t

(* From an item it goes to the next tuple.                                 *)
LEMMA AtItem ==
  ASSUME Sendable, Transit, rx_pc = "item", NEW t, t = U!tuple
  PROVE  /\ Message /\ t \in Starts /\ TupleEnd(t) \in Starts \cup {ret}
         /\ item \in 0 .. MateCount(t) - 1
         /\ U!tuple_data_count(mem, t) = MateCount(t)
         /\ TupleId(mem, t) + item \in ItemIds(t)
         /\ U!NextTuple(frames)
              = <<U!Frame(TupleEnd(t), Cardinality(Ahead(TupleEnd(t))), ret)>>
<1>1. Message /\ t \in Starts /\ t \in Nat
  BY ItemAt DEF Transit, Delivered
<1>2. item \in 0 .. MateCount(t) - 1
  BY ItemPlaced DEF Transit, Delivered
<1>3. U!tuple_data_count(mem, t) = MateCount(t)
  BY <1>1, TupleWords, SameAccessors
<1>4. TupleId(mem, t) + item \in ItemIds(t)
  <2>1. /\ MateCount(t) \in Nat /\ TupleId(mem, t) \in Nat
        /\ ItemIds(t) = TupleId(mem, t) .. TupleId(mem, t) + MateCount(t) - 1
    BY <1>1, TupleItems
  <2> QED  BY <1>2, <2>1
<1> DEFINE n == Cardinality(Ahead(t))
<1>5. WalkAt(t, n)
  BY DEF Transit, Arriving
<1>6. n \in Nat /\ Cardinality(Ahead(TupleEnd(t))) = n - 1
  BY <1>1, PastTuple
<1>7. ret \in Nat /\ tuple_size(mem, t) \in Nat /\ TupleEnd(t) \in Starts \cup {ret}
  BY <1>1, TupleWords, TuplesInARow
<1> HIDE DEF n
<1>8. U!NextTuple(frames) = <<U!Frame(TupleEnd(t), n - 1, ret)>>
  BY <1>1, <1>5, <1>6, <1>7, CursorAt
<1> QED  BY <1>1, <1>2, <1>3, <1>4, <1>6, <1>7, <1>8

(* Whether an item the receiver knows is stored depends on nothing but the *)
(* value the sender had.                                                   *)
LEMMA ItemAllowed ==
  ASSUME Sendable, Callable, Served, Transit, rx_pc = "item",
         U!ElemAt # NULL, NEW id, id = U!ElemAt.id
  PROVE  U!CanInsert <=> AllowedBy(Receiving, id, Sent(id))
<1> DEFINE e == U!ElemAt
           size == elem_get_data_size(e)
<1>1. Delivered /\ ReceiverAt /\ ReceiverTyped /\ rx_ctx.src_size = ret
  BY DEF Transit, ReceiverTyped
<1>2. /\ e \in Elems(Receiving) /\ id = e.id /\ id \in MemberIds(action)
      /\ U!Datum = Sent(id)
      /\ U!tuple_data_size(mem, U!tuple) = size
      /\ U!DataAt + size <= ret
  BY <1>1, ItemIsSent
<1> HIDE DEF e, size
<1>3. /\ ElemWith(Receiving, id) = e
      /\ e.type \notin ByteTypes /\ e.type \in HalfWordTypes \cup WordTypes
      /\ e.offset \in Nat /\ size \in {2, 4} /\ e.offset + size <= ret
  BY <1>1, <1>2, CommonMember DEF size
<1>4. U!Insertable
  <2>1. size + e.offset <= rx_ctx.src_size
    BY <1>1, <1>3
  <2>2. U!elem_get_data_size(e) = size
    BY SameElems DEF size
  <2> QED  BY <1>1, <1>2, <2>1, <2>2 DEF U!Insertable, e
<1>5. U!CanInsert <=> U!ValueOk(e, U!Datum)
  BY <1>4 DEF U!CanInsert, e
<1>6. U!ValueOk(e, U!Datum) <=> InRange(e, U!Datum)
  BY <1>3, SameValueOk
<1> QED  BY <1>2, <1>3, <1>5, <1>6 DEF AllowedBy

(* What a step of the receiver can be, on the way through a packed         *)
(* message: no check fails but that of a value.                            *)
Refused(id) ==
  /\ U!RejectItem /\ U!ElemAt # NULL /\ id = U!ElemAt.id
  /\ ~ AllowedBy(Receiving, id, Sent(id))

Inserted(id) ==
  /\ U!InsertItem /\ U!CanInsert /\ U!ElemAt # NULL /\ id = U!ElemAt.id
  /\ AllowedBy(Receiving, id, Sent(id))

LEMMA ReceiverSteps ==
  ASSUME Sendable, Callable, Served, Transit, Unpack
  PROVE  \/ U!AcceptHeader
         \/ U!BeginTuple /\ U!tuple \in Starts
         \/ U!Leave /\ U!tuple = ret /\ rx_pc' = "done" /\ rx_ret' = 0
         \/ U!IgnoreRest
         \/ \E id : Refused(id) \/ Inserted(id)
<1>1. CASE U!RejectHeader
  BY <1>1, HeaderAccepted DEF U!RejectHeader, Transit
<1>2. CASE U!RejectTuple \/ U!Nest \/ U!TooDeep \/ U!NoData
  <2>1. rx_pc = "tuples" /\ U!More
    BY <1>2 DEF U!RejectTuple, U!Nest, U!TooDeep, U!NoData
  <2>2. PICK t \in Starts : t = U!tuple
    BY <2>1, AtTuple
  <2>3. /\ Message /\ end = ret
    BY <2>1, AtTuple DEF Transit, ReceiverAt
  <2>4. /\ t \in Nat /\ TupleEnd(t) <= ret /\ t < ret
        /\ TupleType(mem, t) # TUPLE_ARRAY
    BY <2>3, TupleWords, TuplesInARow
       DEF STD, HD, STD_ARRAY, HD_ARRAY, TUPLE_ARRAY
  <2>5. U!TupleInMessage
    BY <2>2, <2>3, <2>4, SameAccessors DEF U!TupleInMessage, TupleEnd
  <2>6. U!TupleType(mem, U!tuple) # U!TUPLE_ARRAY
    BY <2>2, <2>4, SameAccessors DEF U!TUPLE_ARRAY, TUPLE_ARRAY
  <2>7. U!NoData
    BY <1>2, <2>5, <2>6 DEF U!RejectTuple, U!Nest, U!TooDeep
  <2>8. tuple_data_count(mem, t) # 0
    <3>1. tuple_data_count(mem, t) = MateCount(t) /\ MateCount(t) \in Nat
          /\ MateCount(t) >= 1
      BY <2>3, TupleWords, TupleItems
    <3> QED  BY <3>1
  <2>9. tuple_data_size(mem, t) # 0
    <3>1. TupleType(mem, t) \in {STD, HD, STD_ARRAY, HD_ARRAY}
      BY <2>3, TupleWords
    <3> QED  BY <2>3, <3>1, Accessors
  <2> QED  BY <2>2, <2>7, <2>8, <2>9, SameAccessors DEF U!NoData, U!HasData
<1>3. CASE U!Leave
  <2>1. rx_pc = "tuples" /\ ~ U!More
    BY <1>3 DEF U!Leave
  <2>2. U!tuple = ret /\ Len(frames) = 1
    BY <2>1, AtTuple
  <2> QED  BY <1>3, <2>2 DEF U!Leave, U!Return
<1>4. CASE U!BeginTuple
  <2>1. rx_pc = "tuples" /\ U!More
    BY <1>4 DEF U!BeginTuple
  <2> QED  BY <1>4, <2>1, AtTuple
<1>5. CASE U!RejectItem
  <2>1. rx_pc = "item" /\ U!ElemAt # NULL /\ ~ U!CanInsert
    BY <1>5 DEF U!RejectItem
  <2>2. PICK id : id = U!ElemAt.id
    OBVIOUS
  <2>3. ~ AllowedBy(Receiving, id, Sent(id))
    BY <2>1, <2>2, ItemAllowed
  <2> QED  BY <1>5, <2>1, <2>2, <2>3 DEF Refused
<1>6. CASE U!InsertItem
  <2>1. rx_pc = "item" /\ U!ElemAt # NULL /\ U!CanInsert
    BY <1>6 DEF U!InsertItem, U!CanInsert
  <2>2. PICK id : id = U!ElemAt.id
    OBVIOUS
  <2>3. AllowedBy(Receiving, id, Sent(id))
    BY <2>1, <2>2, ItemAllowed
  <2> QED  BY <1>6, <2>1, <2>2, <2>3 DEF Inserted
<1> QED
  BY <1>1, <1>2, <1>3, <1>4, <1>5, <1>6 DEF Unpack, U!UnpackStep

(* The cells of a member of the receiver's lie in its structure.           *)
LEMMA MemberInStruct ==
  ASSUME Served, NEW e \in Elems(Receiving)
  PROVE  LET first == e.offset \div 2
         IN /\ CellsOf(e) \in Nat /\ first \in Nat /\ StructCells \in Nat
            /\ \A k \in 0 .. CellsOf(e) - 1 :
                 /\ first + k \in 0 .. StructCells - 1
                 /\ first + k \in first .. first + CellsOf(e) - 1
                 /\ (first + k) - first = k
<1>1. Receiving \in Desc /\ StructCells \in Nat
  BY DEF Served, Receivable, Receiving
<1>2. e.offset \in Nat /\ e.value2 \in Nat
  BY <1>1 DEF Desc, Elems, Elem
<1>3. elem_get_data_size(e) \in Nat
  BY <1>2, DataSizeType
<1>4. e.offset % 2 = 0 /\ e.offset + elem_get_data_size(e) <= 2 * StructCells
  BY DEF Served
<1> DEFINE size == elem_get_data_size(e)
           n    == CellsOf(e)
           at   == e.offset
           first == e.offset \div 2
<1>5. n = size \div 2
  BY DEF CellsOf
<1> HIDE DEF size, n
<1>6. n \in Nat /\ 2 * n <= size /\ size \in Nat
  BY <1>3, <1>5 DEF size
<1>7. first \in Nat /\ 2 * first = at
  BY <1>2, <1>4
<1>8. at + size <= 2 * StructCells
  BY <1>4 DEF size
<1> HIDE DEF at, first
<1>9. \A k \in 0 .. n - 1 : /\ first + k \in 0 .. StructCells - 1
                            /\ first + k \in first .. first + n - 1
                            /\ (first + k) - first = k
  BY <1>1, <1>6, <1>7, <1>8
<1> QED  BY <1>1, <1>6, <1>7, <1>9 DEF n, first

(* Storing an item makes its member what was sent, and leaves every other  *)
(* as it was.                                                              *)
LEMMA InsertedMember ==
  ASSUME Sendable, Callable, Served, Transit, rx_pc = "item",
         NEW e, e = U!ElemAt, e # NULL, U!CanInsert, struct' = U!Inserted
  PROVE  /\ Held(e.id)' = Sent(e.id)
         /\ \A id \in MemberIds(Receiving) : id # e.id => Held(id)' = Held(id)
<1> DEFINE first(f) == f.offset \div 2
           Cell(f, s) == [k \in 0 .. CellsOf(f) - 1 |-> s[first(f) + k]]
<1>1. Delivered /\ ReceiverAt /\ ReceiverTyped /\ SenderInv
  BY DEF Transit, Delivered
<1>2. /\ e \in Elems(Receiving) /\ e.id \in MemberIds(action)
      /\ U!Datum = [k \in 0 .. CellsOf(e) - 1 |-> U!Datum[k]]
      /\ U!Datum = Sent(e.id)
  BY <1>1, ItemIsSent
<1>3. /\ ElemWith(Receiving, e.id) = e
      /\ e.type \notin ByteTypes /\ e.type \in HalfWordTypes \cup WordTypes
  BY <1>1, <1>2, CommonMember
<1>4. /\ \A f \in Elems(Receiving) : ElemWith(Receiving, f.id) = f
      /\ \A f \in Elems(Receiving) :
           e # f => U!MemberCells(e) \cap U!MemberCells(f) = {}
  BY <1>2, WithId DEF Served
<1>5. DOMAIN struct = 0 .. StructCells - 1
  <2>1. struct \in U!Struct
    BY <1>1 DEF ReceiverTyped
  <2> QED  BY <2>1 DEF U!Struct
<1>6. \A f \in Elems(Receiving) :
        U!MemberCells(f) = first(f) .. first(f) + CellsOf(f) - 1
  BY SameElems DEF U!MemberCells
<1>7. /\ \A i \in 0 .. StructCells - 1 :
           struct'[i] = IF i \in U!MemberCells(e)
                        THEN U!StoredCell(e, U!Datum, struct[i], i - first(e))
                        ELSE struct[i]
  BY <1>5 DEF U!Inserted, U!MemberCells
<1>8. \A f : HeldIn(Receiving, struct', f.id)
               = ClientValue(ElemWith(Receiving, f.id),
                             Cell(ElemWith(Receiving, f.id), struct'))
  BY DEF HeldIn
<1>9. \A f : HeldIn(Receiving, struct, f.id)
               = ClientValue(ElemWith(Receiving, f.id),
                             Cell(ElemWith(Receiving, f.id), struct))
  BY DEF HeldIn
<1>10. \A id : Held(id)' = HeldIn(Receiving, struct', id)
  BY DEF Held
<1>11. Held(e.id)' = Sent(e.id)
  <2>1. \A k \in 0 .. CellsOf(e) - 1 : struct'[first(e) + k] = U!Datum[k]
    <3> TAKE k \in 0 .. CellsOf(e) - 1
    <3>1. /\ first(e) + k \in 0 .. StructCells - 1
          /\ first(e) + k \in U!MemberCells(e)
          /\ (first(e) + k) - first(e) = k
      BY <1>2, <1>6, MemberInStruct
    <3> DEFINE i == first(e) + k
    <3>2. struct'[i] = U!StoredCell(e, U!Datum, struct[i], i - first(e))
      BY <1>7, <3>1
    <3>3. U!StoredCell(e, U!Datum, struct[i], k) = U!Datum[k]
      BY <1>3, StoredAsIs
    <3> QED  BY <3>1, <3>2, <3>3
  <2>2. Cell(e, struct') = U!Datum
    BY <1>2, <2>1
  <2> DEFINE v == Cell(e, struct')
  <2> HIDE DEF Cell
  <2>3. Held(e.id)' = ClientValue(e, v) /\ v = U!Datum
    BY <1>3, <1>8, <1>10, <2>2
  <2> HIDE DEF v
  <2>4. ClientValue(e, v) = [k \in 0 .. CellsOf(e) - 1 |-> v[k]]
    BY <1>3, ValueAsIs
  <2> QED  BY <1>2, <2>3, <2>4
<1>12. ASSUME NEW f \in Elems(Receiving), f.id # e.id
       PROVE  Held(f.id)' = Held(f.id)
  <2>1. f # e
    BY <1>12
  <2>2. \A k \in 0 .. CellsOf(f) - 1 : struct'[first(f) + k] = struct[first(f) + k]
    <3> TAKE k \in 0 .. CellsOf(f) - 1
    <3>1. /\ first(f) + k \in 0 .. StructCells - 1
          /\ first(f) + k \in U!MemberCells(f)
      BY <1>6, MemberInStruct
    <3>2. first(f) + k \notin U!MemberCells(e)
      BY <1>4, <2>1, <3>1
    <3> QED  BY <1>7, <3>1, <3>2
  <2>3. Cell(f, struct') = Cell(f, struct)
    BY <2>2
  <2> HIDE DEF Cell
  <2> QED  BY <1>4, <1>8, <1>9, <1>10, <2>3 DEF Held
<1>13. \A id \in MemberIds(Receiving) : \E f \in Elems(Receiving) : f.id = id
  BY DEF MemberIds
<1> QED  BY <1>11, <1>12, <1>13

(* Nothing the receiver knows is in what it skips: where a tuple's item is *)
(* not known, none behind it is.                                           *)
LEMMA SkipsNothing ==
  ASSUME Sendable, Callable, Served, Transit, rx_pc = "item",
         U!ElemAt = NULL, NEW t, t = U!tuple
  PROVE  MemberIds(Receiving) \cap Behind(TupleEnd(t))
           = MemberIds(Receiving) \cap BehindItem(t, item)
<1>1. /\ Message /\ t \in Starts /\ TupleId(mem, t) + item \in ItemIds(t)
  BY AtItem
<1>2. KnowsPrefixes(action, Receiving)
  BY DeliveredMessage DEF Transit, Compatible
<1> DEFINE here == TupleId(mem, t) + item
<1>3. here \notin MemberIds(Receiving)
  <2>1. U!action_def = Receiving
    BY DEF Served, U!action_def, U!get_action_def, U!IdKlass, U!IdSubklass,
       U!IdAction, Receiving
  <2> DEFINE match == {e \in Elems(Receiving) : e.id = here}
  <2>2. U!ElemAt = IF match = {} THEN NULL ELSE CHOOSE e \in match : TRUE
    BY <2>1, SameAccessors DEF U!ElemAt, U!get_tuple_elem, U!Elems, Elems
  <2>3. NULL \notin Elems(Receiving)
    BY DEF Served, Receivable, Receiving
  <2>4. match = {}
    BY <2>2, <2>3
  <2> QED  BY <2>4 DEF MemberIds
<1>4. \A x \in ItemIds(t) : \E e \in Elems(action) : e.id = x
  <2> TAKE x \in ItemIds(t)
  <2>1. PICK j \in 1 .. Len(placed) : placed[j].id = x
    BY DEF ItemIds, MatesIn
  <2> QED  BY <1>1, <2>1, ActionElems
<1>5. here \in Nat /\ \A x \in ItemIds(t) : x \in Nat
  <2>1. \A e \in Elems(action) : e.id \in Nat
    BY <1>1, ActionElems
  <2> QED  BY <1>1, <1>4, <2>1
<1> HIDE DEF here
<1>6. ASSUME NEW x \in ItemIds(t), x \in MemberIds(Receiving)
      PROVE  x < here
  <2>1. PICK e \in Elems(action) : e.id = x
    BY <1>4
  <2>2. PICK f \in Elems(action) : f.id = here
    BY <1>1, <1>4 DEF here
  <2>3. f \in SameTuple(action, e)
    BY <1>1, <2>1, <2>2, TupleIsRun DEF here
  <2>4. ~ here < x
    BY <1>2, <1>3, <1>6, <2>1, <2>2, <2>3 DEF KnowsPrefixes
  <2>5. here # x
    BY <1>3, <1>6
  <2> QED  BY <1>5, <2>4, <2>5
<1>7. Behind(TupleEnd(t)) = Behind(t) \cup ItemIds(t)
  BY <1>1, PastTuple
<1> QED  BY <1>6, <1>7 DEF BehindItem, here

(* A step of the receiver leaves what the invariant is made of.            *)
LEMMA ReceiverKeeps ==
  ASSUME UNCHANGED vars
  PROVE  /\ ret' = ret /\ mem' = mem /\ Starts' = Starts
         /\ \A t : Ahead(t)' = Ahead(t) /\ Behind(t)' = Behind(t)
         /\ \A t, x : BehindItem(t, x)' = BehindItem(t, x)
         /\ \A id : Sent(id)' = Sent(id)
<1>1. UNCHANGED <<ret, mem, placed, ctx>>
  BY DEF vars
<1>2. \A t : Behind(t)' = Behind(t)
  BY <1>1 DEF Behind, Start
<1>3. \A t : ItemIds(t)' = ItemIds(t)
  BY <1>1 DEF ItemIds, MatesIn
<1>4. \A t : TupleId(mem, t)' = TupleId(mem, t)
  BY <1>1 DEF TupleId, Half
<1>5. \A t, x : BehindItem(t, x)' = BehindItem(t, x)
  BY <1>2, <1>3, <1>4 DEF BehindItem
<1> QED  BY <1>1, <1>2, <1>5 DEF Starts, Ahead, Sent, Sending

(* It gets to the next tuple. *)
LEMMA ArrivingAt ==
  ASSUME UNCHANGED vars, NEW u, rx_pc' = "tuples",
         frames' = <<U!Frame(u, Cardinality(Ahead(u)), ret)>>,
         HeldIds' = MemberIds(Receiving) \cap Behind(u),
         \A id \in HeldIds' : Held(id)' = Sent(id)
  PROVE  Arriving'
<1> DEFINE f == U!Frame(u, Cardinality(Ahead(u)), ret)
<1>1. f.tuple = u
  BY DEF U!Frame
<1> HIDE DEF f
<1>2. frames' = <<f>>
  BY DEF f
<1>3. (U!tuple)' = u
  BY <1>1, <1>2 DEF U!tuple, U!Current
<1>4. Ahead(U!tuple)' = Ahead(u) /\ Behind(U!tuple)' = Behind(u)
  BY <1>3, ReceiverKeeps DEF Ahead, Behind, Start, vars
<1>5. (U!Frame(U!tuple, Cardinality(Ahead(U!tuple)), ret))' = f
  BY <1>3, <1>4, ReceiverKeeps DEF U!Frame, f
<1>6. WalkAt(U!tuple, Cardinality(Ahead(U!tuple)))'
  BY <1>2, <1>5 DEF WalkAt
<1> QED  BY <1>4, <1>6, ReceiverKeeps DEF Arriving

(* Or to an item of the tuple it is at. *)
LEMMA ArrivingWithin ==
  ASSUME UNCHANGED vars, NEW u, u = U!tuple, rx_pc' = "item",
         frames' = frames, WalkAt(u, Cardinality(Ahead(u))),
         HeldIds' = MemberIds(Receiving) \cap BehindItem(u, item'),
         \A id \in HeldIds' : Held(id)' = Sent(id)
  PROVE  Arriving'
<1>1. (U!tuple)' = u
  BY DEF U!tuple, U!Current
<1>2. Ahead(U!tuple)' = Ahead(u) /\ BehindItem(U!tuple, item)' = BehindItem(u, item')
  <2>1. TupleId(mem, U!tuple)' = TupleId(mem, u)
    BY <1>1 DEF TupleId, Half, vars
  <2> QED
    BY <1>1, <2>1 DEF Ahead, Starts, Behind, BehindItem, ItemIds, MatesIn, Start,
       vars
<1>3. WalkAt(U!tuple, Cardinality(Ahead(U!tuple)))'
  BY <1>1, <1>2, ReceiverKeeps DEF WalkAt, U!Frame
<1> QED  BY <1>2, <1>3, ReceiverKeeps DEF Arriving

(* One more datum has arrived. *)
LEMMA OneMoreHeld ==
  ASSUME ReceiverTyped, NEW d, stored' = Append(stored, d)
  PROVE  HeldIds' = HeldIds \cup {d.id}
<1>1. stored \in Seq(Datums)
  BY DEF ReceiverTyped
<1>2. /\ Len(stored) \in Nat /\ Len(stored') = Len(stored) + 1
      /\ \A i \in 1 .. Len(stored) : stored'[i] = stored[i]
      /\ stored'[Len(stored) + 1] = d
  BY <1>1
<1>3. 1 .. Len(stored') = (1 .. Len(stored)) \cup {Len(stored) + 1}
  BY <1>2
<1> QED  BY <1>2, <1>3 DEF HeldIds

(* Whatever the receiver does brings it nearer to what was sent.           *)
LEMMA ArrivingMoves ==
  ASSUME Sendable, Callable, Served, Transit, Unpack
  PROVE  Arriving'
<1>1. UNCHANGED vars
  BY ReceiverReads
<1>2. Message /\ SenderInv /\ ReceiverTyped
  BY DeliveredMessage DEF Transit, Delivered
<1>3. CASE U!AcceptHeader
  <2>1. rx_pc = "header" /\ rx_pc' = "tuples" /\ stored' = stored
        /\ frames' = <<U!Frame(HdrSize(mem), ipct_get_tuples(mem),
                               HdrSize(mem) + ipct_get_size(mem))>>
    BY <1>3, SameHeader DEF U!AcceptHeader
  <2>2. ipct_get_tuples(mem) = Cardinality(Starts)
    BY HeaderAccepted DEF Transit
  <2>3. PICK u : u = HdrSize(mem)
    OBVIOUS
  <2>4. /\ u + ipct_get_size(mem) = ret /\ Ahead(u) = Starts /\ Behind(u) = {}
    BY <1>2, <2>3, WalkEnds, TuplesInARow
  <2>5. frames' = <<U!Frame(u, Cardinality(Ahead(u)), ret)>>
    BY <2>1, <2>2, <2>3, <2>4
  <2>6. HeldIds' = {}
    <3>1. stored' = <<>>
      BY <2>1 DEF Transit, Arriving
    <3>2. Len(stored') = 0
      BY <3>1
    <3>3. 1 .. Len(stored') = {}
      BY <3>2
    <3> QED  BY <3>3 DEF HeldIds
  <2> QED  BY <1>1, <2>1, <2>4, <2>5, <2>6, ArrivingAt
<1>4. CASE U!BeginTuple /\ U!tuple \in Starts
  <2>1. /\ rx_pc = "tuples" /\ rx_pc' = "item" /\ item' = 0
        /\ UNCHANGED <<frames, stored, struct>>
    BY <1>4 DEF U!BeginTuple
  <2>2. PICK u \in Starts : u = U!tuple
    BY <1>4
  <2>3. /\ HeldIds = MemberIds(Receiving) \cap Behind(u)
        /\ WalkAt(u, Cardinality(Ahead(u)))
        /\ \A id \in HeldIds : Held(id) = Sent(id)
    BY <2>1, <2>2 DEF Transit, Arriving
  <2>4. HeldIds' = HeldIds /\ \A id : Held(id)' = Held(id)
    BY <2>1 DEF HeldIds, Held
  <2>5. BehindItem(u, item') = Behind(u)
    BY <1>2, <2>1, PastItem
  <2> QED  BY <1>1, <2>1, <2>2, <2>3, <2>4, <2>5, ArrivingWithin
<1>5. CASE U!Leave /\ U!tuple = ret /\ rx_pc' = "done" /\ rx_ret' = 0
  BY <1>5 DEF Arriving
<1>6. CASE U!IgnoreRest
  <2>1. /\ rx_pc = "item" /\ U!ElemAt = NULL /\ rx_pc' = "tuples"
        /\ frames' = U!NextTuple(frames) /\ UNCHANGED <<stored, struct>>
    BY <1>6 DEF U!IgnoreRest
  <2>2. PICK t : t = U!tuple
    OBVIOUS
  <2>3. PICK u : u = TupleEnd(t)
    OBVIOUS
  <2>4. frames' = <<U!Frame(u, Cardinality(Ahead(u)), ret)>>
    BY <2>1, <2>2, <2>3, AtItem
  <2>5. /\ HeldIds = MemberIds(Receiving) \cap BehindItem(t, item)
        /\ \A id \in HeldIds : Held(id) = Sent(id)
    BY <2>1, <2>2 DEF Transit, Arriving
  <2>6. HeldIds' = HeldIds /\ \A id : Held(id)' = Held(id)
    BY <2>1 DEF HeldIds, Held
  <2>7. HeldIds' = MemberIds(Receiving) \cap Behind(u)
    BY <2>1, <2>2, <2>3, <2>5, <2>6, SkipsNothing
  <2> QED  BY <1>1, <2>1, <2>4, <2>5, <2>6, <2>7, ArrivingAt
<1>7. ASSUME NEW id, Refused(id)
      PROVE  Arriving'
  BY <1>7 DEF Refused, U!RejectItem, U!Return, Arriving
<1>8. ASSUME NEW id, Inserted(id)
      PROVE  Arriving'
  <2>1. PICK e : e = U!ElemAt
    OBVIOUS
  <2>2. /\ rx_pc = "item" /\ e # NULL /\ U!CanInsert /\ id = e.id
        /\ struct' = U!Inserted /\ item' = item + 1
        /\ stored' = Append(stored, [id |-> id, tuple |-> U!tuple, item |-> item])
    BY <1>8, <2>1 DEF Inserted, U!InsertItem
  <2>3. PICK t : t = U!tuple
    OBVIOUS
  <2>4. /\ t \in Starts /\ item \in 0 .. MateCount(t) - 1
        /\ U!tuple_data_count(mem, t) = MateCount(t)
        /\ U!NextTuple(frames)
             = <<U!Frame(TupleEnd(t), Cardinality(Ahead(TupleEnd(t))), ret)>>
    BY <2>2, <2>3, AtItem
  <2>5. /\ HeldIds = MemberIds(Receiving) \cap BehindItem(t, item)
        /\ WalkAt(t, Cardinality(Ahead(t)))
        /\ \A j \in HeldIds : Held(j) = Sent(j)
    BY <2>2, <2>3 DEF Transit, Arriving
  <2>6. id \in MemberIds(Receiving) /\ id = TupleId(mem, t) + item
    <3>1. e \in Elems(Receiving) /\ e.id = TupleId(mem, t) + item
      BY <2>1, <2>2, <2>3, ItemIsSent DEF Transit
    <3> QED  BY <2>2, <3>1 DEF MemberIds
  <2>7. HeldIds' = HeldIds \cup {id}
    <3>1. PICK d : d = [id |-> id, tuple |-> U!tuple, item |-> item]
      OBVIOUS
    <3>2. d.id = id /\ stored' = Append(stored, d)
      BY <2>2, <3>1
    <3> QED  BY <1>2, <3>2, OneMoreHeld
  <2>8. HeldIds' = MemberIds(Receiving) \cap BehindItem(t, item')
    <3>1. BehindItem(t, item + 1) = BehindItem(t, item) \cup {TupleId(mem, t) + item}
      BY <1>2, <2>4, PastItem
    <3> QED  BY <2>2, <2>5, <2>6, <2>7, <3>1
  <2>9. \A j \in HeldIds' : Held(j)' = Sent(j)
    <3>1. /\ Held(id)' = Sent(id)
          /\ \A j \in MemberIds(Receiving) : j # id => Held(j)' = Held(j)
      BY <2>1, <2>2, InsertedMember
    <3> QED  BY <2>5, <2>7, <3>1
  <2>10. CASE item' < U!tuple_data_count(mem, t) /\ UNCHANGED <<rx_pc, frames>>
    BY <1>1, <2>2, <2>3, <2>5, <2>8, <2>9, <2>10, ArrivingWithin
  <2>11. CASE /\ ~ item' < U!tuple_data_count(mem, t)
              /\ rx_pc' = "tuples" /\ frames' = U!NextTuple(frames)
    <3>1. MateCount(t) \in Nat
      BY <1>2, <2>4, TupleItems
    <3>2. item' = MateCount(t)
      BY <2>2, <2>4, <2>11, <3>1
    <3>3. PICK u : u = TupleEnd(t)
      OBVIOUS
    <3>4. BehindItem(t, item') = Behind(u)
      BY <1>2, <2>4, <3>2, <3>3, PastItem
    <3> QED  BY <1>1, <2>4, <2>8, <2>9, <2>11, <3>3, <3>4, ArrivingAt
  <2> QED  BY <1>8, <2>3, <2>10, <2>11 DEF Inserted, U!InsertItem
<1> QED  BY <1>3, <1>4, <1>5, <1>6, <1>7, <1>8, ReceiverSteps

(* And nothing else takes it off its way.                                  *)
LEMMA ArrivingStep ==
  ASSUME Sendable, Callable, Served, SenderInv, Measured, ReceiverAt,
         ReceiverTyped, Arriving, [PairNext]_pair
  PROVE  Arriving'
<1>1. ASSUME pc # "done", UNCHANGED unpacker
      PROVE  Arriving'
  <2>1. rx_pc = "idle" /\ stored = <<>>
    BY <1>1 DEF ReceiverAt, Packed, NothingReceived
  <2> QED  BY <1>1, <2>1 DEF unpacker, Arriving
<1>2. CASE \E id \in Ids, src \in Sources, ss \in SrcSizes, ds \in DestSizes :
             Send(id, src, ss, ds)
  BY <1>1, <1>2 DEF Send, ipct_msg_pack
<1>3. CASE Pack
  <2>1. pc # "done"
    BY <1>3 DEF Pack, PackStep, BadCall, BeginPack, RejectElem, RejectSingle,
       SingleOverflow, PackSingle, ContOverflow, PackCont, complete_header
  <2> QED  BY <1>1, <1>3, <2>1 DEF Pack
<1>4. CASE HandOver
  <2>1. rx_pc = "idle" /\ rx_pc' = "header" /\ stored' = stored
    BY <1>4 DEF HandOver, U!ipct_msg_unpack
  <2> QED  BY <2>1 DEF Arriving
<1>5. CASE Unpack
  <2>1. rx_pc # "idle"
    BY <1>5 DEF Unpack, U!UnpackStep, U!RejectHeader, U!AcceptHeader,
       U!RejectTuple, U!Nest, U!TooDeep, U!Leave, U!NoData, U!BeginTuple,
       U!IgnoreRest, U!RejectItem, U!InsertItem
  <2>2. Transit
    BY <2>1 DEF Transit, Delivered, ReceiverAt
  <2> QED  BY <1>5, <2>2, ArrivingMoves
<1>6. CASE Finish
  BY <1>6 DEF Finish, Arriving
<1>7. CASE UNCHANGED pair
  <2>1. UNCHANGED vars /\ UNCHANGED <<rx_pc, frames, item, stored, struct>>
    BY <1>7 DEF pair, packer, unpacker, vars
  <2>2. HeldIds' = HeldIds /\ \A id : Held(id)' = Held(id)
    BY <2>1 DEF HeldIds, Held
  <2>3. CASE rx_pc \in {"tuples", "item"}
    <3>1. PICK t : t = U!tuple
      OBVIOUS
    <3>2. /\ WalkAt(t, Cardinality(Ahead(t)))
          /\ HeldIds = MemberIds(Receiving)
                      \cap (IF rx_pc = "item" THEN BehindItem(t, item)
                                              ELSE Behind(t))
          /\ \A id \in HeldIds : Held(id) = Sent(id)
      BY <2>3, <3>1 DEF Arriving
    <3>3. CASE rx_pc = "item"
      <4>1. rx_pc' = "item" /\ item' = item
        BY <2>1, <3>3
      <4> QED  BY <2>1, <2>2, <3>1, <3>2, <3>3, <4>1, ArrivingWithin
    <3>4. CASE rx_pc = "tuples"
      <4>1. rx_pc' = "tuples" /\ frames' = <<U!Frame(t, Cardinality(Ahead(t)), ret)>>
        BY <2>1, <3>2, <3>4 DEF WalkAt
      <4>2. HeldIds' = MemberIds(Receiving) \cap Behind(t)
        BY <2>2, <3>2, <3>4
      <4> QED  BY <2>1, <2>2, <3>2, <4>1, <4>2, ArrivingAt
    <3> QED  BY <2>3, <3>3, <3>4
  <2>4. CASE rx_pc \notin {"tuples", "item"}
    BY <2>1, <2>4 DEF Arriving
  <2> QED  BY <2>3, <2>4
<1> QED
  BY <1>2, <1>3, <1>4, <1>5, <1>6, <1>7 DEF PairNext

-----------------------------------------------------------------------------
(***************************************************************************)
(* The transfer its clients see.                                           *)
(***************************************************************************)

(* Everything that is known, always.                                       *)
PairInv == SenderInv /\ Measured /\ ReceiverAt /\ ReceiverTyped /\ Arriving

(* Nobody has anything while nothing is sent, and nothing has arrived      *)
(* before the receiver reads.                                              *)
LEMMA NothingHeld ==
  ASSUME stored = <<>>
  PROVE  HeldIds = {} /\ [id \in HeldIds |-> Held(id)] = T!NoMembers
<1>1. Len(stored) = 0
  OBVIOUS
<1>2. 1 .. Len(stored) = {}
  BY <1>1
<1>3. HeldIds = {}
  BY <1>2 DEF HeldIds
<1> QED  BY <1>3 DEF T!NoMembers

(* The transfer starts idle. *)
LEMMA TransferStarts == PairInit => T!Init
<1> SUFFICES ASSUME PairInit PROVE T!Init
  OBVIOUS
<1>1. pc = "idle" /\ rx_pc = "idle" /\ stored = <<>>
  BY DEF PairInit, Init, NothingReceived
<1>2. Phase = "idle"
  BY <1>1 DEF Phase
<1>3. SentIds = {}
  BY <1>1 DEF SentIds
<1>4. [id \in SentIds |-> Sent(id)] = T!NoMembers
  BY <1>3 DEF T!NoMembers
<1> QED  BY <1>1, <1>2, <1>4, NothingHeld DEF T!Init

(* What the transfer is while a call is under way.                         *)
LEMMA TransferSeen ==
  ASSUME pc # "idle"
  PROVE  /\ SentIds = MemberIds(Sending)
         /\ T!Common = CommonIds /\ T!Missing = CommonIds \ HeldIds
         /\ T!Fits <=> ctx.dest_size >= MessageLength(Sending)
         /\ T!Tight <=> ctx.dest_size <= MessageLength(Sending)
<1>1. SentIds = MemberIds(Sending)
  BY DEF SentIds
<1>2. T!Common = CommonIds
  BY DEF T!Common, CommonIds
<1>3. T!Missing = CommonIds \ HeldIds
  BY <1>2 DEF T!Missing
<1>4. /\ T!Fits <=> ctx.dest_size >= MessageLength(Sending)
      /\ T!Tight <=> ctx.dest_size <= MessageLength(Sending)
  BY DEF T!Fits, T!Tight
<1> QED  BY <1>1, <1>2, <1>3, <1>4

(* While a call is under way, its client's structure and the size of its   *)
(* buffer stay what they are.                                              *)
LEMMA SenderStays ==
  ASSUME pc # "idle", pc' # "idle", ctx' = ctx
  PROVE  /\ Sending' = Sending /\ SentIds' = SentIds
         /\ \A id : Sent(id)' = Sent(id)
         /\ [id \in SentIds |-> Sent(id)]' = [id \in SentIds |-> Sent(id)]
         /\ (IF pc = "idle" THEN NULL ELSE Sending)'
              = (IF pc = "idle" THEN NULL ELSE Sending)
         /\ (IF pc = "idle" THEN NULL ELSE Receiving)'
              = (IF pc = "idle" THEN NULL ELSE Receiving)
         /\ (IF pc = "idle" THEN 0 ELSE ctx.dest_size)'
              = (IF pc = "idle" THEN 0 ELSE ctx.dest_size)
<1>1. Sending' = Sending
  BY DEF Sending
<1>2. \A id : Sent(id)' = Sent(id)
  BY <1>1 DEF Sent
<1>3. SentIds' = SentIds
  BY <1>1 DEF SentIds, MemberIds
<1> QED  BY <1>1, <1>2, <1>3 DEF Receiving

(* And what has arrived does too, unless a datum is stored.                *)
LEMMA HeldStays ==
  ASSUME stored' = stored, struct' = struct
  PROVE  /\ HeldIds' = HeldIds
         /\ [id \in HeldIds |-> Held(id)]' = [id \in HeldIds |-> Held(id)]
<1>1. HeldIds' = HeldIds /\ \A id : Held(id)' = Held(id)
  BY DEF HeldIds, Held
<1> QED  BY <1>1

(* As long as no datum has arrived it does not matter what the structure   *)
(* is.                                                                     *)
LEMMA NoneStays ==
  ASSUME stored = <<>>, stored' = <<>>
  PROVE  [id \in HeldIds |-> Held(id)]' = [id \in HeldIds |-> Held(id)]
<1>1. HeldIds = {}
  BY NothingHeld
<1>2. HeldIds' = {}
  <2>1. Len(stored') = 0
    OBVIOUS
  <2>2. 1 .. Len(stored') = {}
    BY <2>1
  <2> QED  BY <2>2 DEF HeldIds
<1> QED  BY <1>1, <1>2

(* Steps the clients do not see. *)
LEMMA Unseen ==
  ASSUME pc # "idle", pc' # "idle", ctx' = ctx, Phase' = Phase,
         [id \in HeldIds |-> Held(id)]' = [id \in HeldIds |-> Held(id)]
  PROVE  UNCHANGED T!vars
BY SenderStays DEF T!vars

-----------------------------------------------------------------------------
(* The client sends. *)
LEMMA SendIsSend ==
  ASSUME Sendable, Callable, Served, PairInv,
         NEW id \in Ids, NEW src \in Sources, NEW ss \in SrcSizes,
         NEW ds \in DestSizes, Send(id, src, ss, ds)
  PROVE  T!Send
<1>1. /\ pc = "idle" /\ pc' = "lookup"
      /\ ctx' = [id |-> id, src |-> src, src_size |-> ss, dest_size |-> ds]
      /\ UNCHANGED <<rx_pc, rx_ret, stored>>
  BY DEF Send, ipct_msg_pack, unpacker
<1>2. rx_pc = "idle" /\ stored = <<>>
  BY <1>1 DEF PairInv, ReceiverAt, Packed, NothingReceived
<1>3. Phase = "idle" /\ Phase' = "sent"
  BY <1>1, <1>2 DEF Phase
<1> DEFINE d == get_action_def(id)
<1>4. d # NULL /\ Known(d)
  BY GetActionDef DEF Callable
<1>5. Sending' = d /\ SentIds' = MemberIds(d) /\ ctx'.dest_size = ds
      /\ ctx'.src = src
  BY <1>1 DEF Sending, SentIds, MemberIds
<1> HIDE DEF d
<1>6. \A x \in MemberIds(d) :
        SentFrom(d, src, x) \in [0 .. 0 -> U16] \cup [0 .. 1 -> U16]
  <2> TAKE x \in MemberIds(d)
  <2>1. PICK e \in Elems(d) : e.id = x
    BY DEF MemberIds
  <2>2. ElemWith(d, x) = e
    BY <1>4, <2>1, TableElems, WithId
  <2>3. e.type \in HalfWordTypes \cup WordTypes
    BY <1>4, TableElems
  <2>4. elem_get_data_size(e) \in {2, 4}
    BY <2>3, WordSizes
  <2> DEFINE n == CellsOf(e)
             v == src[e.offset]
  <2>5. n \in {1, 2} /\ n = elem_get_data_size(e) \div 2
    BY <2>4 DEF CellsOf
  <2>6. \A k \in 0 .. n - 1 : v[k] \in U16
    <3>1. e \in AllElems
      BY <1>4 DEF AllElems, Known
    <3> QED  BY <2>5, <3>1, CallAssumption
  <2>7. SentFrom(d, src, x)
          = [k \in 0 .. n - 1 |->
               IF e.type \in ByteTypes THEN v[k] % 256 ELSE v[k]]
    BY <2>2 DEF SentFrom, ClientValue
  <2>8. \A c \in U16 : c % 256 \in U16
    <3> TAKE c \in U16
    <3>1. c \in Nat
      BY U16Elim
    <3>2. c % 256 \in Nat /\ c % 256 < 65536
      BY <3>1
    <3> QED  BY <3>2, U16Intro
  <2> HIDE DEF n, v
  <2>9. SentFrom(d, src, x) \in [0 .. n - 1 -> U16]
    BY <2>6, <2>7, <2>8
  <2>10. 0 .. n - 1 = 0 .. 0 \/ 0 .. n - 1 = 0 .. 1
    BY <2>5
  <2> QED  BY <2>9, <2>10
<1>7. \A x : Sent(x)' = SentFrom(d, src, x)
  BY <1>5 DEF Sent
<1>8. [x \in SentIds |-> Sent(x)]'
        \in [MemberIds(d) -> [0 .. 0 -> U16] \cup [0 .. 1 -> U16]]
  BY <1>5, <1>6, <1>7
<1>9. [x \in HeldIds |-> Held(x)]' = [x \in HeldIds |-> Held(x)]
  BY <1>1, <1>2, NoneStays
<1>10. (IF pc = "idle" THEN NULL ELSE Sending)' = d
       /\ (IF pc = "idle" THEN NULL ELSE Receiving)' = Receiving
       /\ (IF pc = "idle" THEN 0 ELSE ctx.dest_size)' = ds
  BY <1>1, <1>5 DEF Receiving
<1>11. d \in {get_action_def(i) : i \in Ids} \cup {Receiving}
       /\ Receiving \in {get_action_def(i) : i \in Ids} \cup {Receiving}
  BY DEF d
<1> QED
  BY <1>3, <1>8, <1>9, <1>10, <1>11 DEF T!Send

(* It packs: all the clients see is that it may fail, for want of room.    *)
LEMMA PackIsSeen ==
  ASSUME Sendable, Callable, Served, PairInv, Measured', Pack
  PROVE  T!NoRoom \/ UNCHANGED T!vars
<1>1. /\ pc \in {"lookup", "pack", "complete"}
      /\ pc' \in {"pack", "complete", "done"} /\ ctx' = ctx
      /\ UNCHANGED <<rx_pc, rx_ret, stored>>
  <2>1. PackStep /\ UNCHANGED <<rx_pc, rx_ret, stored>>
    BY DEF Pack, unpacker
  <2>2. CASE BadCall \/ BeginPack
    BY <2>1, <2>2 DEF BadCall, BeginPack, Return
  <2>3. CASE RejectElem \/ RejectSingle \/ SingleOverflow \/ ContOverflow
    BY <2>1, <2>3 DEF RejectElem, RejectSingle, SingleOverflow, ContOverflow,
       Return
  <2>4. CASE PackSingle \/ PackCont
    BY <2>1, <2>4 DEF PackSingle, PackCont, Advance
  <2>5. CASE complete_header
    BY <2>1, <2>5 DEF complete_header, Return
  <2> QED  BY <2>1, <2>2, <2>3, <2>4, <2>5 DEF PackStep
<1>2. rx_pc = "idle" /\ stored = <<>>
  BY <1>1 DEF PairInv, ReceiverAt, Packed, NothingReceived
<1>3. Phase = "sent" /\ pc # "idle" /\ pc' # "idle"
  BY <1>1, <1>2 DEF Phase
<1>4. [id \in HeldIds |-> Held(id)]' = [id \in HeldIds |-> Held(id)]
  BY <1>1, <1>2, NoneStays
<1>5. CASE pc' = "done" /\ ret' < 0
  <2>1. Phase' = "refused"
    BY <1>1, <1>2, <1>3, <1>5 DEF Phase
  <2>2. Sending' = Sending /\ MessageLength(Sending)' = MessageLength(Sending)
    BY <1>1, <1>3, SenderStays DEF MessageLength, Heads, Halves, SameTuple
  <2>3. ret' = IF MessageLength(Sending) < ctx.dest_size
               THEN MessageLength(Sending) ELSE -EINVAL
    BY <1>1, <1>5, <2>2 DEF Measured, LengthOrRefused
  <2>4. ctx \in Context
    BY <1>1 DEF PairInv, SenderInv, WholeInv, WalkInv, AlignInv, TypeOK
  <2>5. ctx.id \in Ids /\ ctx.dest_size \in Nat
    BY <2>4, MemoryAssumption DEF Context
  <2>6. MessageLength(Sending) \in Nat
    BY <2>5, GetActionDef, LengthIsNat DEF Callable, Sending
  <2>7. ctx.dest_size <= MessageLength(Sending)
    BY <1>5, <2>3, <2>5, <2>6
  <2>8. T!Tight
    BY <1>3, <2>7, TransferSeen
  <2> QED
    BY <1>1, <1>2, <1>3, <1>4, <2>1, <2>8, SenderStays, NothingHeld DEF T!NoRoom
<1>6. CASE ~ (pc' = "done" /\ ret' < 0)
  <2>1. Phase' = "sent"
    BY <1>1, <1>2, <1>3, <1>6 DEF Phase
  <2> QED  BY <1>1, <1>3, <1>4, <2>1, Unseen
<1> QED  BY <1>5, <1>6

(* The message is handed over. *)
LEMMA HandOverUnseen ==
  ASSUME PairInv, HandOver
  PROVE  UNCHANGED T!vars
<1>1. /\ pc = "done" /\ ret >= 0 /\ rx_pc = "idle" /\ rx_pc' = "header"
      /\ stored' = stored
  BY DEF HandOver, U!ipct_msg_unpack
<1>2. UNCHANGED <<pc, ret, ctx>>
  BY DEF HandOver, packer
<1>3. stored = <<>>
  BY <1>1 DEF PairInv, Arriving
<1>4. ~ ret < 0
  <2>1. ret \in Int
    BY DEF PairInv, SenderInv, WholeInv, WalkInv, AlignInv, TypeOK
  <2> QED  BY <1>1, <2>1
<1>5. Phase = "sent" /\ Phase' = "sent"
  BY <1>1, <1>2, <1>4 DEF Phase
<1> QED  BY <1>1, <1>2, <1>3, <1>5, NoneStays, Unseen

(* While the receiver works, the sender rests.                             *)
LEMMA UnpackStarts ==
  ASSUME PairInv, Unpack
  PROVE  /\ Transit /\ Phase = "sent" /\ pc = "done" /\ ret >= 0 /\ ~ ret < 0
         /\ UNCHANGED <<pc, ret, ctx>>
<1>1. rx_pc \in {"header", "tuples", "item"}
  BY DEF Unpack, U!UnpackStep, U!RejectHeader, U!AcceptHeader,
     U!RejectTuple, U!Nest, U!TooDeep, U!Leave, U!NoData, U!BeginTuple,
     U!IgnoreRest, U!RejectItem, U!InsertItem
<1>2. Packed /\ pc = "done" /\ ret >= 0
  BY <1>1 DEF PairInv, ReceiverAt, Packed
<1>3. Transit
  BY <1>2 DEF PairInv, Transit, Delivered
<1>4. ~ ret < 0
  <2>1. ret \in Int
    BY DEF PairInv, SenderInv, WholeInv, WalkInv, AlignInv, TypeOK
  <2> QED  BY <1>2, <2>1
<1>5. Phase = "sent"
  BY <1>1, <1>2, <1>4 DEF Phase
<1> QED  BY <1>2, <1>3, <1>4, <1>5 DEF Unpack, packer

(* An item that is known is the next of those that are missing.            *)
LEMMA NextArrives ==
  ASSUME Sendable, Callable, Served, Transit, rx_pc = "item",
         U!ElemAt # NULL, NEW id, id = U!ElemAt.id
  PROVE  T!IsNext(id) /\ id \in T!Missing /\ HeldIds \cup {id} \subseteq SentIds
<1>1. PICK t : t = U!tuple
  OBVIOUS
<1>2. /\ Message /\ t \in Starts /\ item \in 0 .. MateCount(t) - 1
  BY <1>1, AtItem
<1>3. /\ id = TupleId(mem, t) + item /\ id \in MemberIds(Receiving)
      /\ id \in MemberIds(action)
  <2>1. PICK e : e = U!ElemAt
    OBVIOUS
  <2>2. /\ e \in Elems(Receiving) /\ e.id = TupleId(mem, U!tuple) + item
        /\ e.id \in MemberIds(action)
    BY <2>1, ItemIsSent DEF Transit
  <2> QED  BY <1>1, <2>1, <2>2 DEF MemberIds
<1>4. action = Sending /\ pc # "idle"
  BY DeliveredMessage DEF Transit, Delivered, Packed
<1>5. HeldIds = MemberIds(Receiving) \cap BehindItem(t, item)
  BY <1>1 DEF Transit, Arriving
<1>6. /\ id \notin BehindItem(t, item)
      /\ \A j \in MemberIds(action) : j \notin BehindItem(t, item) => id <= j
  BY <1>2, <1>3, NotBehind
<1>7. T!Missing = CommonIds \ HeldIds /\ SentIds = MemberIds(action)
  BY <1>4, TransferSeen
<1>8. CommonIds = MemberIds(action) \cap MemberIds(Receiving)
  BY <1>4 DEF CommonIds
<1>9. BehindItem(t, item) \subseteq MemberIds(action)
  <2>1. Behind(t) \subseteq PlacedIds /\ ItemIds(t) \subseteq PlacedIds
    BY DEF Behind, ItemIds, MatesIn, PlacedIds
  <2> QED  BY <1>2, <2>1, AllPlaced DEF BehindItem
<1>10. id \in T!Missing /\ \A j \in T!Missing : id <= j
  BY <1>3, <1>5, <1>6, <1>7, <1>8
<1> QED  BY <1>3, <1>5, <1>7, <1>9, <1>10 DEF T!IsNext

(* A packed message fits. *)
LEMMA SentFits ==
  ASSUME Sendable, Callable, Served, Transit
  PROVE  T!Fits
<1>1. MessageLength(Sending) < ctx.dest_size /\ ctx \in Context
      /\ ret = MessageLength(Sending) /\ ret \in Nat
  BY DeliveredMessage DEF Transit
<1>2. ctx.dest_size \in Nat
  BY <1>1, MemoryAssumption DEF Context
<1>3. ctx.dest_size >= MessageLength(Sending)
  BY <1>1, <1>2
<1>4. pc # "idle"
  BY DEF Transit, Delivered, Packed
<1> QED  BY <1>3, <1>4, TransferSeen

(* The receiver unpacks: each datum it stores arrives, and it returns when *)
(* one is refused or nothing is missing.                                   *)
LEMMA UnpackIsSeen ==
  ASSUME Sendable, Callable, Served, PairInv, Arriving', Unpack
  PROVE  T!Next \/ UNCHANGED T!vars
<1>1. /\ Transit /\ Phase = "sent" /\ pc = "done" /\ ret >= 0 /\ ~ ret < 0
      /\ UNCHANGED <<pc, ret, ctx>>
  BY UnpackStarts
<1>2. /\ pc # "idle" /\ pc' # "idle"
      /\ SentIds = MemberIds(Sending) /\ T!Missing = CommonIds \ HeldIds
  BY <1>1, TransferSeen
<1>3. T!Fits
  BY <1>1, SentFits
<1> DEFINE held == [id \in HeldIds |-> Held(id)]
           sent == [id \in SentIds |-> Sent(id)]
(* Nothing but the receiver's place has changed. *)
<1>4. ASSUME rx_pc' \in {"tuples", "item"}, stored' = stored, struct' = struct
      PROVE  UNCHANGED T!vars
  <2>1. Phase' = "sent"
    BY <1>1, <1>4 DEF Phase
  <2> QED  BY <1>1, <1>2, <1>4, <2>1, HeldStays, Unseen
<1>5. CASE U!AcceptHeader
  BY <1>4, <1>5 DEF U!AcceptHeader
<1>6. CASE U!BeginTuple /\ U!tuple \in Starts
  BY <1>4, <1>6 DEF U!BeginTuple
<1>7. CASE U!IgnoreRest
  BY <1>4, <1>7 DEF U!IgnoreRest
<1>8. CASE U!Leave /\ U!tuple = ret /\ rx_pc' = "done" /\ rx_ret' = 0
  <2>1. Phase' = "accepted"
    BY <1>1, <1>8 DEF Phase
  <2>2. rx_pc = "tuples" /\ stored' = stored /\ struct' = struct
    BY <1>8 DEF U!Leave
  <2>3. HeldIds = MemberIds(Receiving) \cap Behind(ret)
    BY <1>1, <1>8, <2>2 DEF Transit, Arriving
  <2>4. Behind(ret) = MemberIds(Sending)
    BY <1>1, DeliveredMessage, WalkEnds DEF Transit
  <2>5. T!Missing = {}
    BY <1>2, <2>3, <2>4 DEF CommonIds
  <2>6. held' = held
    BY <2>2, HeldStays
  <2>7. T!Accept
    BY <1>1, <1>2, <1>3, <2>1, <2>5, <2>6, SenderStays DEF T!Accept
  <2> QED  BY <2>7 DEF T!Next
<1>9. ASSUME NEW id, Refused(id)
      PROVE  T!Next
  <2>1. /\ rx_pc = "item" /\ U!ElemAt # NULL /\ id = U!ElemAt.id
        /\ ~ AllowedBy(Receiving, id, Sent(id))
        /\ rx_pc' = "done" /\ rx_ret' = -EINVAL
        /\ stored' = stored /\ struct' = struct
    BY <1>9 DEF Refused, U!RejectItem, U!Return, U!EINVAL, EINVAL
  <2>2. T!IsNext(id) /\ id \in T!Missing /\ id \in SentIds
    BY <1>1, <2>1, NextArrives
  <2>3. Phase' = "refused"
    <3>1. rx_ret' < 0 /\ rx_ret' # 0
      BY <2>1 DEF EINVAL
    <3> QED  BY <1>1, <2>1, <3>1 DEF Phase
  <2>4. held' = held
    BY <2>1, HeldStays
  <2>5. sent[id] = Sent(id)
    BY <2>2
  <2>6. T!Refuse(id)
    BY <1>1, <1>2, <1>3, <2>1, <2>2, <2>3, <2>4, <2>5, SenderStays DEF T!Refuse
  <2> QED  BY <2>2, <2>6 DEF T!Next
<1>10. ASSUME NEW id, Inserted(id)
       PROVE  T!Next
  <2>1. /\ rx_pc = "item" /\ U!ElemAt # NULL /\ id = U!ElemAt.id
        /\ AllowedBy(Receiving, id, Sent(id))
        /\ rx_pc' \in {"item", "tuples"}
        /\ stored' = Append(stored, [id |-> id, tuple |-> U!tuple, item |-> item])
    BY <1>10 DEF Inserted, U!InsertItem
  <2>2. /\ T!IsNext(id) /\ id \in T!Missing /\ HeldIds \cup {id} \subseteq SentIds
    BY <1>1, <2>1, NextArrives
  <2>3. Phase' = "sent"
    BY <1>1, <2>1 DEF Phase
  <2>4. HeldIds' = HeldIds \cup {id}
    <3>1. PICK d : d = [id |-> id, tuple |-> U!tuple, item |-> item]
      OBVIOUS
    <3>2. d.id = id /\ stored' = Append(stored, d)
      BY <2>1, <3>1
    <3>3. ReceiverTyped
      BY DEF PairInv
    <3> QED  BY <3>2, <3>3, OneMoreHeld
  <2>5. \A j \in HeldIds' : Held(j)' = Sent(j)
    <3>1. \A j \in HeldIds' : Held(j)' = Sent(j)'
      BY <2>1 DEF Arriving
    <3> QED  BY <1>1, <1>2, <3>1, SenderStays
  <2>6. held' = [j \in DOMAIN held \cup {id} |-> sent[j]]
    <3>1. held' = [j \in HeldIds \cup {id} |-> Sent(j)]
      BY <2>4, <2>5
    <3>2. \A j \in HeldIds \cup {id} : sent[j] = Sent(j)
      BY <2>2
    <3>3. DOMAIN held = HeldIds
      OBVIOUS
    <3> QED  BY <3>1, <3>2, <3>3
  <2>7. sent[id] = Sent(id)
    BY <2>2
  <2>8. T!Arrive(id)
    BY <1>1, <1>2, <1>3, <2>1, <2>2, <2>3, <2>6, <2>7, SenderStays DEF T!Arrive
  <2> QED  BY <2>2, <2>8 DEF T!Next
<1> QED
  BY <1>1, <1>5, <1>6, <1>7, <1>8, <1>9, <1>10, ReceiverSteps

(* Both are done. *)
LEMMA FinishIsCollect ==
  ASSUME PairInv, Finish
  PROVE  T!Collect
<1>1. /\ pc = "done" /\ pc' = "idle" /\ rx_pc' = "idle" /\ stored' = <<>>
      /\ Over
  BY DEF Finish, Collect
<1>2. Phase \in {"accepted", "refused"}
  <2>1. CASE ret < 0
    <3>1. rx_pc = "idle"
      <4>1. ret \in Int
        BY DEF PairInv, SenderInv, WholeInv, WalkInv, AlignInv, TypeOK
      <4>2. ~ ret >= 0
        BY <2>1, <4>1
      <4> QED  BY <4>2 DEF PairInv, ReceiverAt, Packed
    <3> QED  BY <1>1, <2>1, <3>1 DEF Phase
  <2>2. CASE ~ ret < 0
    <3>1. rx_pc = "done" /\ rx_ret \in {0, -EINVAL}
      BY <1>1, <2>2 DEF Over, PairInv, ReceiverTyped
    <3>2. rx_ret = 0 \/ (rx_ret < 0 /\ rx_ret # 0)
      <4>1. CASE rx_ret = 0
        BY <4>1
      <4>2. CASE rx_ret = -EINVAL
        BY <4>2 DEF EINVAL
      <4> QED  BY <3>1, <4>1, <4>2
    <3> QED  BY <1>1, <2>2, <3>1, <3>2 DEF Phase
  <2> QED  BY <2>1, <2>2
<1>3. Phase' = "idle"
  BY <1>1 DEF Phase
<1>4. [id \in HeldIds |-> Held(id)]' = T!NoMembers
  <2>1. Len(stored') = 0
    BY <1>1
  <2>2. 1 .. Len(stored') = {}
    BY <2>1
  <2>3. HeldIds' = {}
    BY <2>2 DEF HeldIds
  <2> QED  BY <2>3 DEF T!NoMembers
<1>5. [id \in SentIds |-> Sent(id)]' = T!NoMembers
  <2>1. SentIds' = {}
    BY <1>1 DEF SentIds
  <2> QED  BY <2>1 DEF T!NoMembers
<1> QED  BY <1>1, <1>2, <1>3, <1>4, <1>5 DEF T!Collect

(* Nothing happens. *)
LEMMA StutterUnseen ==
  ASSUME UNCHANGED pair
  PROVE  UNCHANGED T!vars
<1>1. UNCHANGED <<pc, ctx, ret, rx_pc, rx_ret, stored, struct>>
  BY DEF pair, packer, unpacker
<1>2. Phase' = Phase
  BY <1>1 DEF Phase
<1>3. [id \in HeldIds |-> Held(id)]' = [id \in HeldIds |-> Held(id)]
  BY <1>1, HeldStays
<1>4. Sending' = Sending
  BY <1>1 DEF Sending
<1>5. SentIds' = SentIds /\ \A id : Sent(id)' = Sent(id)
  BY <1>1, <1>4 DEF SentIds, Sent, MemberIds
<1> QED  BY <1>1, <1>2, <1>3, <1>4, <1>5 DEF T!vars, Receiving

(* Every step of the pair is one of the transfer, or none. *)
LEMMA TransferStep ==
  ASSUME Sendable, Callable, Served, PairInv, PairInv', [PairNext]_pair
  PROVE  [T!Next]_(T!vars)
<1>1. CASE \E id \in Ids, src \in Sources, ss \in SrcSizes, ds \in DestSizes :
             Send(id, src, ss, ds)
  BY <1>1, SendIsSend DEF T!Next
<1>2. CASE Pack
  BY <1>2, PackIsSeen DEF T!Next, PairInv
<1>3. CASE HandOver
  BY <1>3, HandOverUnseen
<1>4. CASE Unpack
  BY <1>4, UnpackIsSeen DEF PairInv
<1>5. CASE Finish
  BY <1>5, FinishIsCollect DEF T!Next
<1>6. CASE UNCHANGED pair
  BY <1>6, StutterUnseen
<1> QED
  BY <1>1, <1>2, <1>3, <1>4, <1>5, <1>6 DEF PairNext

(* What is known, always is. *)
LEMMA AlwaysKnown ==
  ASSUME Sendable, Callable, Served
  PROVE  PairSpec => []PairInv
<1>1. Receivable
  BY DEF Served
<1>2. SenderInv /\ ReceiverAt /\ ReceiverTyped /\ [PairNext]_pair
        => ReceiverTyped'
  BY <1>1, TypedStep
<1>3. PairSpec => []ReceiverTyped
  BY <1>2, TypedInit, SenderInvariant, ReceiverOnItsWay, PTL DEF PairSpec
<1>4. PairInit => Arriving
  BY DEF PairInit, NothingReceived, Arriving
<1>5. SenderInv /\ Measured /\ ReceiverAt /\ ReceiverTyped /\ Arriving
        /\ [PairNext]_pair => Arriving'
  BY ArrivingStep
<1>6. PairSpec => []Arriving
  BY <1>3, <1>4, <1>5, SenderInvariant, OffsetIsLength, ReceiverOnItsWay, PTL
     DEF PairSpec
<1>7. SenderInv /\ Measured /\ ReceiverAt /\ ReceiverTyped /\ Arriving => PairInv
  BY DEF PairInv
<1> QED
  BY <1>3, <1>6, <1>7, SenderInvariant, OffsetIsLength, ReceiverOnItsWay, PTL

(* Transfers: between compatible tables the library is the transfer its    *)
(* clients see, for all such tables, structures and buffer sizes.          *)
THEOREM PairTransfers ==
  ASSUME Sendable, Callable, Served
  PROVE  PairSpec => Transfers
<1>1. PairInv /\ PairInv' /\ [PairNext]_pair => [T!Next]_(T!vars)
  BY TransferStep
<1> QED
  BY <1>1, TransferStarts, AlwaysKnown, PTL DEF PairSpec, Transfers, T!Spec

(* The service's own theorems, read at this refinement.                   *)
TP == INSTANCE IpctTransferProofs WITH
        Builds <- {get_action_def(id) : id \in Ids} \cup {Receiving},
        Values <- [0 .. 0 -> U16] \cup [0 .. 1 -> U16], Sizes <- DestSizes,
        Ids <- MemberIds, Allowed <- AllowedBy, Length <- MessageLength,
        phase <- Phase,
        sender <- IF pc = "idle" THEN NULL ELSE Sending,
        receiver <- IF pc = "idle" THEN NULL ELSE Receiving,
        size <- IF pc = "idle" THEN 0 ELSE ctx.dest_size,
        sent <- [id \in SentIds |-> Sent(id)],
        held <- [id \in HeldIds |-> Held(id)]

(* So its clients have the service's promise: whatever has arrived is what *)
(* was sent and allowed, acceptance means that all of it arrived, and a    *)
(* refusal has a cause they can see, everything below which has arrived.   *)
THEOREM PairPromises ==
  ASSUME Sendable, Callable, Served
  PROVE  PairSpec => []T!Promise
<1>1. TP!IdsAreNumbers
  <2> SUFFICES ASSUME NEW b \in {get_action_def(id) : id \in Ids} \cup {Receiving}
               PROVE  MemberIds(b) \subseteq Nat
    BY DEF TP!IdsAreNumbers
  <2>1. CASE b = Receiving
    <3>1. b \in Desc
      BY <2>1 DEF Served, Receivable, Receiving
    <3>2. \A e \in Elems(b) : e.id \in U16
      BY <3>1 DEF Desc, Elems, Elem
    <3> QED  BY <3>2, U16Elim DEF MemberIds
  <2>2. ASSUME NEW id \in Ids, b = get_action_def(id)
        PROVE  MemberIds(b) \subseteq Nat
    <3>1. Known(b)
      BY <2>2, GetActionDef DEF Callable
    <3> QED  BY <3>1, TableElems DEF MemberIds
  <2> QED  BY <2>1, <2>2
<1>2. TP!Spec => []TP!Promise
  BY <1>1, TP!PromiseKept
<1>3. T!Init => TP!Init
  BY DEF T!Init, TP!Init, T!NoMembers, TP!NoMembers
<1>4. [T!Next]_(T!vars) => [TP!Next]_(TP!vars)
  BY DEF T!Next, TP!Next, T!vars, TP!vars, T!Send, TP!Send, T!NoRoom, TP!NoRoom,
     T!Arrive, TP!Arrive, T!Refuse, TP!Refuse, T!Accept, TP!Accept,
     T!Collect, TP!Collect, T!IsNext, TP!IsNext, T!Missing, TP!Missing,
     T!Common, TP!Common, T!Fits, TP!Fits, T!Tight, TP!Tight,
     T!NoMembers, TP!NoMembers
<1>5. TP!Promise => T!Promise
  BY DEF T!Promise, TP!Promise, T!HeldIsSent, TP!HeldIsSent,
     T!AcceptedIsComplete, TP!AcceptedIsComplete, T!RefusedForCause,
     TP!RefusedForCause, T!Common, TP!Common, T!Tight, TP!Tight,
     T!NoMembers, TP!NoMembers
<1> QED
  BY <1>2, <1>3, <1>4, <1>5, PairTransfers, PTL DEF Transfers, T!Spec, TP!Spec

=============================================================================
