-------------------------- MODULE IpctUnpackProofs --------------------------
(***************************************************************************)
(* Proofs about the unpacker, for every table, message and structure.      *)
(***************************************************************************)
EXTENDS IpctUnpack, IpctCommonProofs, SequenceTheorems, WellFoundedInduction

USE DEF EINVAL

-----------------------------------------------------------------------------
(***************************************************************************)
(* What is read from a message.                                            *)
(***************************************************************************)

(* The product of two naturals is one; the solver is told. *)
LEMMA TimesNat == \A x, y \in Nat : x * y \in Nat
OBVIOUS

(* The fields of a tuple that starts far enough from the memory's end. *)
LEMMA FieldsType ==
  ASSUME NEW m \in Memory, NEW t \in Nat, t + 6 <= 2 * Cells
  PROVE  /\ TupleType(m, t) \in Nat /\ TupleId(m, t) \in Nat
         /\ Count(m, t) \in Nat /\ ElemBytes(m, t) \in Nat
<1>1. /\ Cells \in Nat /\ m \in [0 .. Cells - 1 -> U16]
      /\ t + 2 \in Nat /\ t + 4 \in Nat
      /\ t < 2 * Cells /\ t + 2 < 2 * Cells /\ t + 4 < 2 * Cells
  BY MessageAssumption DEF Memory
<1>2. /\ Half(m, t) \in U16 /\ Half(m, t + 2) \in U16 /\ Half(m, t + 4) \in U16
  BY <1>1, CellType
<1>3. QED
  BY <1>2, BitFields, U16Elim DEF TupleType, TupleId, Count, ElemBytes

(* The sizes and places the accessors give are numbers of bytes; an array  *)
(* of tuples holds its own header.                                         *)
LEMMA AccessorsType ==
  ASSUME NEW m \in Memory, NEW t \in Nat, t + 6 <= 2 * Cells, NEW i \in Nat
  PROVE  /\ tuple_size(m, t) \in Nat
         /\ tuple_data_size(m, t) \in Nat
         /\ tuple_data_count(m, t) \in Nat
         /\ tuple_get_data(m, t, i) \in Nat
         /\ TupleType(m, t) = TUPLE_ARRAY =>
              /\ tuple_size(m, t) >= SizeofVar
              /\ tuple_get_data(m, t, 0) = t + VarData
<1> DEFINE type  == TupleType(m, t)
           count == Count(m, t)
           bytes == ElemBytes(m, t)
           skip  == i * bytes
<1>1. type \in Nat /\ count \in Nat /\ bytes \in Nat
  BY FieldsType
<1>2. skip \in Nat
  BY <1>1, TimesNat
<1>3. tuple_size(m, t) =
        CASE type \in {0, 2} -> 4 + 4 * count
          [] type = 1        -> 4
          [] type = 3        -> 4 + 2 * count
          [] type \in {4, 5} -> 8 + count + bytes
          [] OTHER           -> 0
  BY DEF tuple_size, STD, HD, STD_ARRAY, HD_ARRAY, VAR_ARRAY, TUPLE_ARRAY,
         SizeofStd, SizeofMicro, SizeofVar
<1>4. tuple_data_size(m, t) =
        CASE type \in {0, 2} -> 4
          [] type \in {1, 3} -> 2
          [] type \in {4, 5} -> bytes
          [] OTHER           -> 0
  BY DEF tuple_data_size, STD, HD, STD_ARRAY, HD_ARRAY, VAR_ARRAY, TUPLE_ARRAY
<1>5. tuple_data_count(m, t) =
        CASE type \in {0, 1}       -> 1
          [] type \in {2, 3, 4, 5} -> count
          [] OTHER                 -> 0
  BY DEF tuple_data_count, STD, HD, STD_ARRAY, HD_ARRAY, VAR_ARRAY, TUPLE_ARRAY
<1>6. tuple_get_data(m, t, i) =
        CASE type \in {0, 2} -> t + 4 + 4 * i
          [] type = 1        -> t + 2
          [] type = 3        -> t + 4 + 2 * i
          [] OTHER           -> t + 6 + skip
  BY DEF tuple_get_data, STD, HD, STD_ARRAY, HD_ARRAY, SizeofStd, SizeofMicro,
         VarData
<1>7. type = 5 => tuple_get_data(m, t, 0) = t + 6
  <2>1. type = 5 => tuple_get_data(m, t, 0) = t + 6 + 0 * bytes
    BY DEF tuple_get_data, STD, HD, STD_ARRAY, HD_ARRAY, SizeofStd,
           SizeofMicro, VarData
  <2>2. 0 * bytes = 0
    BY <1>1
  <2>3. QED
    BY <2>1, <2>2
<1> HIDE DEF type, count, bytes, skip
<1>8. tuple_size(m, t) \in Nat /\ (type = 5 => tuple_size(m, t) >= 8)
  BY <1>1, <1>3
<1>9. tuple_data_size(m, t) \in Nat /\ tuple_data_count(m, t) \in Nat
  BY <1>1, <1>4, <1>5
<1>10. tuple_get_data(m, t, i) \in Nat
  BY <1>1, <1>2, <1>6
<1>11. QED
  BY <1>7, <1>8, <1>9, <1>10 DEF type, TUPLE_ARRAY, SizeofVar, VarData

(* The header of a message gives numbers, and an end inside the memory. *)
LEMMA HeaderBounds ==
  ASSUME NEW m \in Messages
  PROVE  /\ m \in Memory
         /\ HdrSize(m) \in Nat
         /\ ipct_get_size(m) \in Nat /\ ipct_get_tuples(m) \in Nat
         /\ HdrSize(m) + ipct_get_size(m) + 12 <= 2 * Cells
<1>1. m \in Memory /\ HdrSize(m) + ipct_get_size(m) + 12 <= 2 * Cells
  BY MessageAssumption
<1>2. HdrSize(m) \in Nat /\ ElemsPtr(m) \in {4, 12}
  BY HdrSizeType
<1>3. ASSUME NEW a \in 4 .. 18
      PROVE  Half(m, a) \in Nat /\ Half(m, a) \div 256 \in Nat
  <2>1. /\ Cells \in Nat /\ m \in [0 .. Cells - 1 -> U16]
        /\ a \in Nat /\ a < 2 * Cells
    BY <1>1, <1>3, MessageAssumption DEF Memory
  <2>2. Half(m, a) \in Nat
    BY <2>1, CellType, U16Elim
  <2>3. QED
    BY <2>2
<1>4. /\ Half(m, ElemsPtr(m)) \in Nat /\ Half(m, ElemsPtr(m) + 2) \in Nat
      /\ Half(m, ElemsPtr(m) + 4) \div 256 \in Nat
      /\ Half(m, ElemsPtr(m) + 6) \in Nat
  <2>1. /\ ElemsPtr(m) \in 4 .. 18 /\ ElemsPtr(m) + 2 \in 4 .. 18
        /\ ElemsPtr(m) + 4 \in 4 .. 18 /\ ElemsPtr(m) + 6 \in 4 .. 18
    BY <1>2
  <2>2. QED
    BY <1>3, <2>1
<1>5. ipct_get_tuples(m) \in Nat
  BY <1>4 DEF ipct_get_tuples
<1>6. ipct_get_size(m) \in Nat
  BY <1>4 DEF ipct_get_size
<1>7. QED
  BY <1>1, <1>2, <1>5, <1>6

-----------------------------------------------------------------------------
(***************************************************************************)
(* The stack of invocations.                                               *)
(***************************************************************************)

(* What CursorInv says of a stack s. *)
StackOk(s) ==
  /\ s \in Seq(FrameType)
  /\ \A i \in 1 .. Len(s) :
       /\ s[i].tuple <= end
       /\ s[i].remaining_bytes = end - s[i].tuple
  /\ Len(s) <= IPCT_MAX_DEPTH + 1
  /\ \A i \in 1 .. Len(s) - 1 :
       /\ TupleType(msg, s[i].tuple) = TUPLE_ARRAY
       /\ s[i + 1].tuple >= s[i].tuple + VarData
       /\ Entered(s[i])

(* The invariant says that the stack is in order. *)
LEMMA StackOfInv ==
  ASSUME CursorInv
  PROVE  StackOk(frames)
BY DEF CursorInv, TypeOK, CursorsInMessage, NestingDescends, StackOk

(* A step that leaves message and end alone and whose new stack is as it   *)
(* should be keeps what is said of stacks.                                 *)
LEMMA StackStep ==
  ASSUME NEW s, StackOk(s), frames' = s, msg' = msg, end' = end
  PROVE  /\ (frames \in Seq(FrameType))'
         /\ CursorsInMessage' /\ NestingDescends'
         /\ (\A i \in 1 .. Len(frames) - 1 : Entered(frames[i]))'
<1>1. (frames \in Seq(FrameType))'
  BY DEF StackOk, FrameType
<1>2. CursorsInMessage'
  BY DEF StackOk, CursorsInMessage
<1>3. NestingDescends'
  BY DEF StackOk, NestingDescends, TupleType, Half
<1>4. (\A i \in 1 .. Len(frames) - 1 : Entered(frames[i]))'
  BY DEF StackOk, Entered, tuple_size, TupleType, Count, ElemBytes, Half
<1>5. QED
  BY <1>1, <1>2, <1>3, <1>4

(* The message of a walk, and the frames of its stack. *)
LEMMA WalkFacts ==
  ASSUME CursorInv, pc \in {"tuples", "item"}
  PROVE  /\ msg \in Memory /\ end \in Nat /\ end + 12 <= 2 * Cells
         /\ Len(frames) \in Nat /\ Len(frames) >= 1
         /\ action_def # NULL
         /\ \A i \in 1 .. Len(frames) :
              /\ frames[i] \in FrameType
              /\ frames[i].tuple \in Nat
              /\ frames[i].tuple + 6 <= 2 * Cells
              /\ tuple_size(msg, frames[i].tuple) \in Nat
<1>1. /\ msg \in Messages /\ end \in Nat /\ end + 12 <= 2 * Cells
      /\ frames \in Seq(FrameType) /\ frames # <<>> /\ action_def # NULL
  BY DEF CursorInv, TypeOK
<1>2. msg \in Memory
  BY <1>1, MessageAssumption
<1>3. Len(frames) \in Nat /\ Len(frames) >= 1
  BY <1>1
<1>4. ASSUME NEW i \in 1 .. Len(frames)
      PROVE  /\ frames[i] \in FrameType
             /\ frames[i].tuple \in Nat
             /\ frames[i].tuple + 6 <= 2 * Cells
             /\ tuple_size(msg, frames[i].tuple) \in Nat
  <2>1. frames[i] \in FrameType
    BY <1>1
  <2>2. frames[i].tuple \in Nat
    BY <2>1 DEF FrameType
  <2>3. frames[i].tuple <= end
    BY DEF CursorInv, CursorsInMessage
  <2>4. frames[i].tuple + 6 <= 2 * Cells
    BY <1>1, <2>2, <2>3, MessageAssumption
  <2>5. tuple_size(msg, frames[i].tuple) \in Nat
    <3>1. 0 \in Nat
      OBVIOUS
    <3>2. QED
      BY <1>2, <2>2, <2>4, <3>1, AccessorsType
  <2>6. QED
    BY <2>1, <2>2, <2>4, <2>5
<1>5. QED
  BY <1>1, <1>2, <1>3, <1>4

(* The innermost invocation. *)
LEMMA CurrentFacts ==
  ASSUME CursorInv, pc \in {"tuples", "item"}
  PROVE  /\ tuple \in Nat /\ tuple <= end /\ tuple + 6 <= 2 * Cells
         /\ Current \in FrameType
         /\ Current = frames[Len(frames)]
<1>1. Len(frames) \in 1 .. Len(frames)
  BY WalkFacts
<1>2. frames[Len(frames)].tuple <= end
  BY <1>1 DEF CursorInv, CursorsInMessage
<1>3. QED
  BY <1>1, <1>2, WalkFacts DEF Current, tuple

(* Moving the cursor of an invocation past the tuple it has checked, those *)
(* inside it having ended, keeps the stack as it should be.                *)
LEMMA StackAdvance ==
  ASSUME CursorInv, pc \in {"tuples", "item"},
         NEW s \in Seq(FrameType), Len(s) >= 1, Len(s) <= Len(frames),
         \A i \in 1 .. Len(s) : s[i] = frames[i],
         Entered(s[Len(s)])
  PROVE  StackOk(NextTuple(s)) /\ NextTuple(s) # <<>>
<1> DEFINE n    == Len(s)
           f    == s[n]
           size == tuple_size(msg, f.tuple)
           g    == [tuple           |-> f.tuple + size,
                    remaining_bytes |-> f.remaining_bytes - size,
                    tuples_remain   |-> f.tuples_remain - 1]
           next == NextTuple(s)
<1>1. n \in 1 .. n /\ n \in 1 .. Len(frames) /\ n \in Nat
  BY WalkFacts
<1>2. /\ f \in FrameType /\ f.tuple \in Nat /\ size \in Nat /\ end \in Nat
      /\ f.remaining_bytes = end - f.tuple
      /\ f.tuples_remain \in Nat /\ f.tuples_remain # 0
      /\ f.tuple + size <= end
  <2>1. f = frames[n]
    BY <1>1
  <2>2. /\ f \in FrameType /\ f.tuple \in Nat /\ size \in Nat /\ end \in Nat
    BY <1>1, <2>1, WalkFacts
  <2>3. f.remaining_bytes = end - f.tuple
    BY <1>1, <2>1 DEF CursorInv, CursorsInMessage
  <2>4. QED
    BY <2>2, <2>3 DEF Entered, FrameType
<1>3. next = [s EXCEPT ![n] = g]
  BY DEF NextTuple, ipc_next_tuple
<1>4. g \in FrameType
  <2> HIDE DEF size, f, n
  <2>1. /\ f.tuple + size \in Nat /\ f.remaining_bytes - size \in Int
        /\ f.tuples_remain - 1 \in Nat
    BY <1>2
  <2>2. QED
    BY <2>1 DEF FrameType
<1>5. g.tuple <= end /\ g.remaining_bytes = end - g.tuple /\ g.tuple >= f.tuple
  <2> HIDE DEF size, f, n
  <2>1. QED
    BY <1>2
<1> HIDE DEF f, size, g, next
<1>6. /\ next \in Seq(FrameType) /\ Len(next) = n
      /\ next[n] = g
      /\ \A i \in 1 .. n : i # n => next[i] = frames[i]
  BY <1>1, <1>3, <1>4
<1>7. \A i \in 1 .. n : next[i].tuple <= end
                       /\ next[i].remaining_bytes = end - next[i].tuple
  BY <1>1, <1>5, <1>6, WalkFacts DEF CursorInv, CursorsInMessage
<1>8. n <= IPCT_MAX_DEPTH + 1
  BY <1>1, WalkFacts, DepthAssumption DEF CursorInv, NestingDescends
<1>9. ASSUME NEW i \in 1 .. n - 1
      PROVE  /\ TupleType(msg, next[i].tuple) = TUPLE_ARRAY
             /\ next[i + 1].tuple >= next[i].tuple + VarData
             /\ Entered(next[i])
  <2>1. /\ i \in 1 .. Len(frames) - 1 /\ i \in 1 .. n /\ i # n
        /\ i + 1 \in 1 .. n /\ i \in 1 .. Len(frames) /\ i + 1 \in 1 .. Len(frames)
    BY <1>1, WalkFacts
  <2>2. next[i] = frames[i]
    BY <1>6, <2>1
  <2>3. /\ TupleType(msg, frames[i].tuple) = TUPLE_ARRAY
        /\ frames[i + 1].tuple >= frames[i].tuple + VarData
        /\ Entered(frames[i])
    BY <2>1 DEF CursorInv, NestingDescends
  <2>4. next[i + 1].tuple >= frames[i + 1].tuple /\ next[i + 1].tuple \in Nat
    <3>1. CASE i + 1 = n
      BY <1>1, <1>2, <1>4, <1>5, <1>6, <3>1 DEF f, FrameType
    <3>2. CASE i + 1 # n
      BY <1>6, <2>1, <3>2, WalkFacts
    <3>3. QED
      BY <3>1, <3>2
  <2>5. frames[i].tuple \in Nat /\ frames[i + 1].tuple \in Nat
    BY <2>1, WalkFacts
  <2>6. next[i + 1].tuple >= next[i].tuple + VarData
    BY <2>2, <2>3, <2>4, <2>5 DEF VarData
  <2>7. QED
    BY <2>2, <2>3, <2>6
<1>10. StackOk(next) /\ next # <<>>
  BY <1>1, <1>6, <1>7, <1>8, <1>9 DEF StackOk
<1>11. QED
  BY <1>10 DEF next

-----------------------------------------------------------------------------
(***************************************************************************)
(* The item at hand.                                                       *)
(***************************************************************************)

(* An element the lookup finds is one of the action's. *)
LEMMA ElemFacts ==
  ASSUME action_def # NULL, ElemAt # NULL
  PROVE  /\ ElemAt \in ActionElems /\ ElemAt \in AllElems /\ ElemAt \in Elem
         /\ ElemAt.id \in Nat /\ ElemAt.offset \in Nat /\ ElemAt.value2 \in Nat
<1> DEFINE match == {e \in Elems(action_def) : e.id = TupleId(msg, tuple) + item}
<1>1. ElemAt = IF match = {} THEN NULL ELSE CHOOSE e \in match : TRUE
  BY DEF ElemAt, get_tuple_elem
<1>2. ElemAt \in match
  BY <1>1
<1>3. ElemAt \in Elems(action_def)
  BY <1>2
<1>4. Known(action_def)
  BY GetActionDef DEF action_def
<1>5. ElemAt \in AllElems /\ ElemAt \in Elem
  BY <1>3, <1>4, KnownElems
<1>6. QED
  BY <1>3, <1>5 DEF ActionElems, Elem, U16

(* The datum of an item that passes the checks lies in the message: each   *)
(* of its cells is a 16-bit value.                                         *)
LEMMA DatumFacts ==
  ASSUME CursorInv, pc = "item", CanInsert
  PROVE  \A k \in 0 .. CellsOf(ElemAt) - 1 :
           k \in Nat /\ k \in DOMAIN Datum /\ Datum[k] \in U16
<1> DEFINE size == elem_get_data_size(ElemAt)
<1>1. /\ msg \in Memory /\ action_def # NULL /\ ctx.src_size \in SrcSizes
      /\ tuple \in Nat /\ tuple + 6 <= 2 * Cells /\ item \in Nat
  BY WalkFacts, CurrentFacts DEF CursorInv, TypeOK, Context
<1>2. DataAt \in Nat
  BY <1>1, AccessorsType DEF DataAt
<1>3. size \in Nat
  BY <1>1, ElemFacts, DataSizeType DEF CanInsert
<1>4. DataAt + size <= 2 * Cells
  <2>1. DataAt + size <= ctx.src_size
    BY DEF CanInsert, Insertable
  <2>2. ctx.src_size \in Nat /\ ctx.src_size <= 2 * Cells
    BY <1>1, MessageAssumption
  <2>3. QED
    BY <1>2, <1>3, <2>1, <2>2, MessageAssumption
<1> HIDE DEF size
<1>5. ASSUME NEW k \in 0 .. (size \div 2) - 1
      PROVE  Half(msg, DataAt + 2 * k) \in U16
  <2>1. DataAt + 2 * k \in Nat /\ DataAt + 2 * k < 2 * Cells
    BY <1>2, <1>3, <1>4, MessageAssumption
  <2>2. QED
    BY <1>1, <2>1, CellType, MessageAssumption DEF Memory
<1>6. CellsOf(ElemAt) = size \div 2 /\ size \div 2 \in Int
  BY <1>3 DEF CellsOf, size
<1>7. QED
  BY <1>5, <1>6 DEF Datum

(* Storing it leaves a structure of 16-bit cells. *)
LEMMA InsertedType ==
  ASSUME CursorInv, pc = "item", CanInsert
  PROVE  Inserted \in Struct
<1> DEFINE first == ElemAt.offset \div 2
           cells == first .. first + CellsOf(ElemAt) - 1
<1>1. /\ struct \in Struct /\ action_def # NULL /\ ElemAt # NULL
      /\ ElemAt.offset \in Nat
  <2>1. struct \in Struct /\ action_def # NULL
    BY DEF CursorInv, TypeOK
  <2>2. QED
    BY <2>1, ElemFacts DEF CanInsert
<1>2. CellsOf(ElemAt) \in Int
  <2>1. elem_get_data_size(ElemAt) \in Nat
    BY <1>1, ElemFacts, DataSizeType
  <2>2. QED
    BY <2>1 DEF CellsOf
<1>3. ASSUME NEW c \in U16, NEW old \in U16
      PROVE  /\ (c % 256) + 256 * (old \div 256) \in U16
             /\ c % 256 \in U16 /\ 0 \in U16
  <2>1. c \in Nat /\ old \in Nat /\ old < 65536
    BY <1>3, U16Elim
  <2>2. /\ (c % 256) + 256 * (old \div 256) \in Nat
        /\ (c % 256) + 256 * (old \div 256) < 65536
        /\ c % 256 \in Nat /\ c % 256 < 65536
    BY <2>1, SMT
  <2>3. QED
    BY <2>2, U16Intro
<1>4. ASSUME NEW k \in 0 .. CellsOf(ElemAt) - 1, NEW old \in U16
      PROVE  StoredCell(ElemAt, Datum, old, k) \in U16
  <2> DEFINE c == Datum[k]
  <2>1. c \in U16
    BY DatumFacts
  <2>2. StoredCell(ElemAt, Datum, old, k) \in
          {(c % 256) + 256 * (old \div 256), c, c % 256, 0}
    BY DEF StoredCell
  <2> HIDE DEF c
  <2>3. QED
    BY <1>3, <2>1, <2>2
<1>5. ASSUME NEW i \in 0 .. StructCells - 1
      PROVE  (IF i \in cells THEN StoredCell(ElemAt, Datum, struct[i], i - first)
                             ELSE struct[i]) \in U16
  <2>1. struct[i] \in U16
    BY <1>1 DEF Struct
  <2>2. CASE i \in cells
    <3>1. i - first \in 0 .. CellsOf(ElemAt) - 1
      BY <1>1, <1>2, <2>2, StructAssumption
    <3>2. QED
      BY <1>4, <2>1, <2>2, <3>1
  <2>3. CASE i \notin cells
    BY <2>1, <2>3
  <2>4. QED
    BY <2>2, <2>3
<1>6. DOMAIN struct = 0 .. StructCells - 1
  BY <1>1 DEF Struct
<1>7. QED
  BY <1>5, <1>6 DEF Inserted, Struct

-----------------------------------------------------------------------------
(***************************************************************************)
(* Every step preserves CursorInv.                                         *)
(***************************************************************************)

Stored == [id : Nat, tuple : Nat, item : Nat]

(* The invariant at the start. *)
LEMMA CursorInit == Init => CursorInv
<1> SUFFICES ASSUME Init
             PROVE  CursorInv
  OBVIOUS
<1>1. frames = <<>> /\ Len(frames) = 0 /\ frames \in Seq(FrameType)
  BY DEF Init
<1>2. stored \in Seq(Stored)
  BY DEF Init
<1>3. TypeOK
  BY <1>1, <1>2 DEF Init, TypeOK, Stored
<1>4. CursorsInMessage /\ NestingDescends
  BY <1>1, DepthAssumption DEF CursorsInMessage, NestingDescends
<1>5. QED
  BY <1>1, <1>3, <1>4 DEF Init, CursorInv

(* Between calls there is no stack. *)
LEMMA CursorClient ==
  ASSUME CursorInv, Client
  PROVE  CursorInv'
<1>1. CASE Collect
  <2>1. frames' = <<>> /\ Len(frames') = 0 /\ (frames \in Seq(FrameType))'
    BY <1>1 DEF Collect
  <2>2. (stored \in Seq(Stored))'
    BY <1>1 DEF Collect
  <2>3. TypeOK'
    BY <1>1, <2>1, <2>2 DEF Collect, TypeOK, Stored
  <2>4. CursorsInMessage' /\ NestingDescends'
    BY <2>1, DepthAssumption DEF CursorsInMessage, NestingDescends
  <2>5. QED
    BY <1>1, <2>1, <2>3, <2>4 DEF Collect, CursorInv
<1>2. ASSUME NEW m \in Messages, NEW t \in Structs,
             NEW ss \in SrcSizes, NEW ds \in DestSizes,
             ipct_msg_unpack(m, t, ss, ds)
      PROVE  CursorInv'
  <2>1. frames = <<>> /\ frames' = <<>> /\ pc' = "header"
    BY <1>2 DEF ipct_msg_unpack, CursorInv
  <2>2. Len(frames') = 0 /\ (frames \in Seq(FrameType))'
    BY <2>1
  <2>3. t \in Struct
    BY StructAssumption
  <2>4. ctx' \in Context
    BY <1>2 DEF ipct_msg_unpack, Context
  <2>5. msg' \in Messages /\ struct' \in Struct /\ before' \in Struct
    BY <1>2, <2>3 DEF ipct_msg_unpack
  <2>6. TypeOK'
    BY <1>2, <2>1, <2>2, <2>4, <2>5
       DEF ipct_msg_unpack, CursorInv, TypeOK, Context
  <2>7. CursorsInMessage' /\ NestingDescends'
    BY <2>2, DepthAssumption DEF CursorsInMessage, NestingDescends
  <2>8. QED
    BY <2>1, <2>2, <2>6, <2>7 DEF CursorInv
<1>3. QED
  BY <1>1, <1>2 DEF Client

(* A call that returns leaves everything else as it was. *)
LEMMA CursorReturn ==
  ASSUME CursorInv, pc \in {"header", "tuples", "item"},
         NEW value \in {0, -EINVAL}, Return(value),
         UNCHANGED <<msg, struct, ctx, end, frames, item, before, stored>>
  PROVE  CursorInv'
<1>1. TypeOK'
  BY DEF Return, CursorInv, TypeOK
<1>2. StackOk(frames)
  BY StackOfInv
<1>3. /\ CursorsInMessage' /\ NestingDescends'
      /\ (\A i \in 1 .. Len(frames) - 1 : Entered(frames[i]))'
  BY <1>2, StackStep
<1>4. QED
  BY <1>1, <1>3 DEF Return, CursorInv

(* The walk starts with one invocation, at the first tuple. *)
LEMMA CursorAccept ==
  ASSUME CursorInv, AcceptHeader
  PROVE  CursorInv'
<1> DEFINE first == HdrSize(msg)
           last  == first + ipct_get_size(msg)
           f     == [tuple           |-> first,
                     remaining_bytes |-> last - first,
                     tuples_remain   |-> ipct_get_tuples(msg)]
<1>1. msg \in Messages
  BY DEF AcceptHeader, CursorInv, TypeOK
<1>2. /\ first \in Nat /\ last \in Nat /\ first <= last
      /\ last + 12 <= 2 * Cells /\ ipct_get_tuples(msg) \in Nat
  <2>1. /\ HdrSize(msg) \in Nat /\ ipct_get_size(msg) \in Nat
        /\ ipct_get_tuples(msg) \in Nat
        /\ HdrSize(msg) + ipct_get_size(msg) + 12 <= 2 * Cells
    BY <1>1, HeaderBounds
  <2>2. QED
    BY <2>1
<1>3. end' = last /\ frames' = <<f>> /\ msg' = msg /\ pc' = "tuples"
  BY DEF AcceptHeader, Frame
<1> HIDE DEF first, last
<1>4. f \in FrameType
  BY <1>2 DEF FrameType
<1>5. /\ (frames \in Seq(FrameType))' /\ Len(frames') = 1 /\ frames'[1] = f
      /\ frames' # <<>>
  BY <1>3, <1>4
<1>6. CursorsInMessage'
  BY <1>2, <1>3, <1>5 DEF CursorsInMessage
<1>7. NestingDescends'
  BY <1>5, DepthAssumption DEF NestingDescends
<1>8. action_def # NULL
  BY DEF AcceptHeader, HeaderOk
<1>9. TypeOK'
  BY <1>2, <1>3, <1>5, <1>8 DEF AcceptHeader, CursorInv, TypeOK, action_def
<1>10. QED
  BY <1>2, <1>3, <1>5, <1>6, <1>7, <1>9 DEF CursorInv

(* The rest of CursorInv, when a walk goes on with the stack s. *)
LEMMA CursorWalk ==
  ASSUME CursorInv, pc \in {"tuples", "item"},
         pc' = "tuples", NEW s, StackOk(s), s # <<>>, frames' = s,
         UNCHANGED <<msg, ctx, end, ret, before>>,
         struct' \in Struct, item' \in Nat, stored' \in Seq(Stored)
  PROVE  CursorInv'
<1>1. /\ (frames \in Seq(FrameType))'
      /\ CursorsInMessage' /\ NestingDescends'
      /\ (\A i \in 1 .. Len(frames) - 1 : Entered(frames[i]))'
  BY StackStep
<1>2. TypeOK'
  BY <1>1 DEF CursorInv, TypeOK, Stored, action_def
<1>3. QED
  BY <1>1, <1>2 DEF CursorInv

(* The recursive call: the array it is made for has been checked, and its  *)
(* first tuple starts inside it.                                           *)
LEMMA CursorNest ==
  ASSUME CursorInv, Nest
  PROVE  CursorInv'
<1> DEFINE n == Len(frames)
           f == Frame(tuple_get_data(msg, tuple, 0),
                      tuple_data_count(msg, tuple), end)
           s == Append(frames, f)
<1>1. /\ pc = "tuples" /\ frames' = s /\ n <= IPCT_MAX_DEPTH
      /\ TupleType(msg, tuple) = TUPLE_ARRAY
      /\ TupleInMessage /\ More
  BY DEF Nest
<1>2. /\ tuple \in Nat /\ tuple + 6 <= 2 * Cells /\ msg \in Memory
      /\ end \in Nat /\ n \in Nat /\ n >= 1 /\ Current = frames[n]
  BY <1>1, WalkFacts, CurrentFacts
<1>3. /\ tuple_size(msg, tuple) \in Nat /\ tuple_size(msg, tuple) >= SizeofVar
      /\ tuple_get_data(msg, tuple, 0) = tuple + VarData
      /\ tuple_data_count(msg, tuple) \in Nat
  BY <1>1, <1>2, AccessorsType
<1>4. tuple + tuple_size(msg, tuple) <= end
  BY <1>1 DEF TupleInMessage
<1>5. /\ f \in FrameType /\ f.tuple = tuple + VarData /\ f.tuple <= end
      /\ f.remaining_bytes = end - f.tuple
  <2>1. f = [tuple           |-> tuple + VarData,
             remaining_bytes |-> end - (tuple + VarData),
             tuples_remain   |-> tuple_data_count(msg, tuple)]
    BY <1>3 DEF Frame
  <2>2. tuple + VarData \in Nat /\ tuple + VarData <= end
        /\ end - (tuple + VarData) \in Int
    BY <1>2, <1>3, <1>4 DEF SizeofVar, VarData
  <2> HIDE DEF f
  <2>3. QED
    BY <1>3, <2>1, <2>2 DEF FrameType
<1>6. Entered(frames[n])
  BY <1>1, <1>2, <1>4 DEF Entered, More, tuple
<1>7. StackOk(frames)
  BY StackOfInv
<1> HIDE DEF f
<1>8. /\ s \in Seq(FrameType) /\ Len(s) = n + 1 /\ s[n + 1] = f
      /\ \A i \in 1 .. n : s[i] = frames[i]
      /\ s # <<>>
  BY <1>2, <1>5, <1>7 DEF StackOk
<1> HIDE DEF s, n
<1>9. StackOk(s)
  <2>1. ASSUME NEW i \in 1 .. n + 1
        PROVE  s[i].tuple <= end /\ s[i].remaining_bytes = end - s[i].tuple
    <3>1. CASE i = n + 1
      BY <1>5, <1>8, <3>1
    <3>2. CASE i # n + 1
      <4>1. i \in 1 .. n
        BY <1>2, <3>2
      <4>2. QED
        BY <1>7, <1>8, <4>1 DEF StackOk, n
    <3>3. QED
      BY <3>1, <3>2
  <2>2. ASSUME NEW i \in 1 .. n
        PROVE  /\ TupleType(msg, s[i].tuple) = TUPLE_ARRAY
               /\ s[i + 1].tuple >= s[i].tuple + VarData
               /\ Entered(s[i])
    <3>1. CASE i = n
      <4>1. s[i] = frames[n] /\ s[i + 1] = f /\ frames[n].tuple = tuple
        BY <1>2, <1>8, <3>1 DEF tuple
      <4>2. QED
        BY <1>1, <1>2, <1>5, <1>6, <4>1 DEF VarData
    <3>2. CASE i # n
      <4>1. i \in 1 .. n - 1 /\ i + 1 \in 1 .. n
        BY <1>2, <3>2
      <4>2. s[i] = frames[i] /\ s[i + 1] = frames[i + 1]
        BY <1>8, <4>1
      <4>3. QED
        BY <1>7, <4>1, <4>2 DEF StackOk, n
    <3>3. QED
      BY <3>1, <3>2
  <2>3. n + 1 <= IPCT_MAX_DEPTH + 1
    BY <1>1, <1>2, DepthAssumption
  <2>4. QED
    BY <1>2, <1>8, <2>1, <2>2, <2>3 DEF StackOk
<1>10. struct \in Struct /\ item \in Nat /\ stored \in Seq(Stored)
  BY <1>1 DEF CursorInv, TypeOK, Stored
<1>11. QED
  BY <1>1, <1>8, <1>9, <1>10, CursorWalk DEF Nest

(* The nested invocation is done: the one around it, inside a tuple it has *)
(* checked, moves on.                                                      *)
LEMMA CursorLeave ==
  ASSUME CursorInv, Leave
  PROVE  CursorInv'
<1> DEFINE n == Len(frames)
           s == SubSeq(frames, 1, n - 1)
<1>1. /\ pc = "tuples" /\ n \in Nat /\ n >= 1 /\ frames \in Seq(FrameType)
      /\ UNCHANGED <<msg, struct, ctx, end, item, before, stored>>
  BY WalkFacts DEF Leave, CursorInv, TypeOK
<1>2. CASE n = 1
  <2>1. Return(0) /\ UNCHANGED frames
    BY <1>2 DEF Leave
  <2>2. QED
    BY <1>1, <2>1, CursorReturn
<1>3. CASE n # 1
  <2>1. frames' = NextTuple(s) /\ UNCHANGED <<pc, ret>>
    BY <1>3 DEF Leave
  <2>2. /\ s \in Seq(FrameType) /\ Len(s) = n - 1 /\ Len(s) >= 1
        /\ \A i \in 1 .. Len(s) : s[i] = frames[i]
    <3>1. frames \in Seq(FrameType) /\ n \in Nat /\ n >= 1 /\ n # 1
      BY <1>1, <1>3
    <3>2. 1 \in Int /\ n - 1 \in Int /\ 1 <= n - 1
      <4> HIDE DEF n
      <4>1. QED
        BY <3>1
    <3>3. \A i \in 1 .. n - 1 : frames[i] \in FrameType
      BY <3>1
    <3>4. s \in Seq(FrameType) /\ Len(s) = (n - 1) - 1 + 1
          /\ \A i \in 1 .. (n - 1) - 1 + 1 : s[i] = frames[1 + i - 1]
      <4> HIDE DEF n
      <4>1. QED
        BY <3>2, <3>3, SubSeqProperties
    <3> HIDE DEF s, n
    <3>5. (n - 1) - 1 + 1 = n - 1 /\ \A i \in 1 .. n - 1 : 1 + i - 1 = i
      BY <3>2
    <3>6. QED
      BY <3>2, <3>4, <3>5
  <2>3. n - 1 \in 1 .. n - 1
    <3>1. n \in Nat /\ n >= 1 /\ n # 1
      BY <1>1, <1>3
    <3> HIDE DEF n
    <3>2. QED
      BY <3>1
  <2>4. Entered(s[Len(s)])
    BY <2>2, <2>3 DEF CursorInv
  <2> HIDE DEF s
  <2>5. StackOk(NextTuple(s)) /\ NextTuple(s) # <<>>
    BY <1>1, <2>2, <2>4, StackAdvance
  <2>6. struct \in Struct /\ item \in Nat /\ stored \in Seq(Stored)
    BY <1>1 DEF CursorInv, TypeOK, Stored
  <2>7. QED
    BY <1>1, <2>1, <2>5, <2>6, CursorWalk
<1>4. QED
  BY <1>2, <1>3

(* The unpacking of a tuple begins, goes on, or ends. *)
LEMMA CursorBegin ==
  ASSUME CursorInv, BeginTuple
  PROVE  CursorInv'
<1>1. /\ pc = "tuples" /\ pc' = "item" /\ item' = 0 /\ More /\ TupleInMessage
      /\ HasData
      /\ UNCHANGED <<msg, struct, ctx, end, frames, ret, before, stored>>
  BY DEF BeginTuple
<1>2. Entered(Current)
  BY <1>1 DEF Entered, More, TupleInMessage, tuple
<1>3. /\ (frames \in Seq(FrameType))'
      /\ CursorsInMessage' /\ NestingDescends'
      /\ (\A i \in 1 .. Len(frames) - 1 : Entered(frames[i]))'
  BY <1>1, StackOfInv, StackStep
<1>4. 0 < tuple_data_count(msg, tuple)
  <2>1. tuple_data_count(msg, tuple) \in Nat
    <3>1. 0 \in Nat
      OBVIOUS
    <3>2. QED
      BY <1>1, <3>1, WalkFacts, CurrentFacts, AccessorsType
  <2>2. QED
    BY <1>1, <2>1 DEF HasData
<1>5. (item < tuple_data_count(msg, tuple))'
  BY <1>1, <1>4 DEF tuple, Current, tuple_data_count, TupleType, Count, Half
<1>6. TypeOK'
  BY <1>1, <1>3, <1>5 DEF CursorInv, TypeOK, action_def
<1>7. Entered(Current)'
  BY <1>1, <1>2 DEF Entered, Current, tuple_size, TupleType, Count, ElemBytes,
                    Half
<1>8. QED
  BY <1>1, <1>3, <1>6, <1>7 DEF CursorInv

(* The tuple being unpacked is left for the next one. *)
LEMMA NextFacts ==
  ASSUME CursorInv, pc = "item"
  PROVE  StackOk(NextTuple(frames)) /\ NextTuple(frames) # <<>>
<1>1. /\ frames \in Seq(FrameType) /\ Len(frames) >= 1 /\ Len(frames) \in Nat
      /\ Entered(frames[Len(frames)])
  BY WalkFacts DEF CursorInv, TypeOK, Current
<1>2. QED
  BY <1>1, StackAdvance

(* An unknown item: the walk goes on behind its tuple. *)
LEMMA CursorIgnore ==
  ASSUME CursorInv, IgnoreRest
  PROVE  CursorInv'
<1>1. /\ pc = "item" /\ pc' = "tuples" /\ frames' = NextTuple(frames)
      /\ UNCHANGED <<msg, struct, ctx, end, item, ret, before, stored>>
  BY DEF IgnoreRest
<1>2. struct \in Struct /\ item \in Nat /\ stored \in Seq(Stored)
  BY <1>1 DEF CursorInv, TypeOK, Stored
<1>3. QED
  BY <1>1, <1>2, NextFacts, CursorWalk

(* An item stored: the walk stays in its tuple or goes on behind it. *)
LEMMA CursorInsert ==
  ASSUME CursorInv, InsertItem
  PROVE  CursorInv'
<1> DEFINE entry == [id |-> ElemAt.id, tuple |-> tuple, item |-> item]
<1>1. /\ pc = "item" /\ CanInsert /\ item' = item + 1 /\ struct' = Inserted
      /\ stored' = Append(stored, entry)
      /\ UNCHANGED <<msg, ctx, end, ret, before>>
  BY DEF InsertItem
<1>2. item \in Nat /\ item' \in Nat /\ stored \in Seq(Stored) /\ action_def # NULL
  BY <1>1 DEF CursorInv, TypeOK, Stored
<1>3. struct' \in Struct
  BY <1>1, InsertedType
<1>4. stored' \in Seq(Stored)
  <2>1. ElemAt.id \in Nat /\ tuple \in Nat
    BY <1>1, <1>2, ElemFacts, CurrentFacts DEF CanInsert
  <2>2. entry \in Stored
    BY <1>2, <2>1 DEF Stored
  <2>3. QED
    BY <1>1, <1>2, <2>2
<1>5. CASE item + 1 < tuple_data_count(msg, tuple)
  <2>1. pc' = "item" /\ frames' = frames
    BY <1>1, <1>5 DEF InsertItem
  <2>2. /\ (frames \in Seq(FrameType))'
        /\ CursorsInMessage' /\ NestingDescends'
        /\ (\A i \in 1 .. Len(frames) - 1 : Entered(frames[i]))'
    BY <1>1, <2>1, StackOfInv, StackStep
  <2>3. (item < tuple_data_count(msg, tuple))'
    BY <1>1, <1>5, <2>1
       DEF tuple, Current, tuple_data_count, TupleType, Count, Half
  <2>4. TypeOK'
    BY <1>1, <1>2, <1>3, <1>4, <2>1, <2>2, <2>3
       DEF CursorInv, TypeOK, Stored, action_def
  <2>5. Entered(Current)'
    BY <1>1, <2>1 DEF CursorInv, Entered, Current, tuple_size, TupleType, Count,
                      ElemBytes, Half
  <2>6. QED
    BY <1>1, <2>1, <2>2, <2>4, <2>5 DEF CursorInv
<1>6. CASE ~ (item + 1 < tuple_data_count(msg, tuple))
  <2>1. pc' = "tuples" /\ frames' = NextTuple(frames)
    BY <1>1, <1>6 DEF InsertItem
  <2>2. QED
    BY <1>1, <1>2, <1>3, <1>4, <2>1, NextFacts, CursorWalk
<1>7. QED
  BY <1>5, <1>6

(* Nothing happens. *)
LEMMA CursorStutter ==
  ASSUME CursorInv, UNCHANGED vars
  PROVE  CursorInv'
<1>1. UNCHANGED <<msg, struct, ctx, pc, end, frames, item, ret, before, stored>>
  BY DEF vars
<1>2. /\ CursorsInMessage' /\ NestingDescends'
      /\ (\A i \in 1 .. Len(frames) - 1 : Entered(frames[i]))'
  BY <1>1, StackOfInv, StackStep
<1>3. TypeOK'
  BY <1>1 DEF CursorInv, TypeOK, action_def, tuple, Current, tuple_data_count,
              TupleType, Count, Half
<1>4. (pc = "item" => Entered(Current))'
  BY <1>1 DEF CursorInv, Entered, Current, tuple_size, TupleType, Count,
              ElemBytes, Half
<1>5. QED
  BY <1>1, <1>2, <1>3, <1>4 DEF CursorInv

(* Every step keeps the invariant. *)
LEMMA CursorStep ==
  ASSUME CursorInv, [Next]_vars
  PROVE  CursorInv'
<1>1. CASE Client
  BY <1>1, CursorClient
<1>2. CASE RejectHeader
  BY <1>2, CursorReturn DEF RejectHeader
<1>3. CASE AcceptHeader
  BY <1>3, CursorAccept
<1>4. CASE RejectTuple
  BY <1>4, CursorReturn DEF RejectTuple
<1>5. CASE Nest
  BY <1>5, CursorNest
<1>6. CASE TooDeep
  BY <1>6, CursorReturn DEF TooDeep
<1>7. CASE Leave
  BY <1>7, CursorLeave
<1>8. CASE NoData
  BY <1>8, CursorReturn DEF NoData
<1>9. CASE BeginTuple
  BY <1>9, CursorBegin
<1>10. CASE IgnoreRest
  BY <1>10, CursorIgnore
<1>11. CASE RejectItem
  BY <1>11, CursorReturn DEF RejectItem
<1>12. CASE InsertItem
  BY <1>12, CursorInsert
<1>13. CASE UNCHANGED vars
  BY <1>13, CursorStutter
<1>14. QED
  BY <1>1, <1>2, <1>3, <1>4, <1>5, <1>6, <1>7, <1>8, <1>9, <1>10, <1>11,
     <1>12, <1>13 DEF Next, UnpackStep

-----------------------------------------------------------------------------
(* The invariant the two theorems about the walk follow from. *)
THEOREM CursorInvariant == Spec => []CursorInv
<1>1. Init => CursorInv
  BY CursorInit
<1>2. CursorInv /\ [Next]_vars => CursorInv'
  BY CursorStep
<1>3. QED
  BY <1>1, <1>2, PTL DEF Spec

(* Every variable of the unpacker keeps its type: in particular no store   *)
(* into the C structure, whatever the message says, is of anything but     *)
(* 16-bit cells read inside the message's memory.                          *)
THEOREM TypeCorrect == Spec => []TypeOK
<1>1. CursorInv => TypeOK
  BY DEF CursorInv
<1>2. QED
  BY <1>1, CursorInvariant, PTL

(* Whatever the message, every cursor of tuple_for_each stays in it and    *)
(* its byte count is the distance to the end, so that the loop's test for  *)
(* zero is enough.                                                         *)
THEOREM StaysInMessage == Spec => []CursorsInMessage
<1>1. CursorInv => CursorsInMessage
  BY DEF CursorInv
<1>2. QED
  BY <1>1, CursorInvariant, PTL

(* Whatever the message, the recursion of tuple_for_each is bounded and    *)
(* each invocation works behind the header of the array it is for.         *)
THEOREM BoundedNesting == Spec => []NestingDescends
<1>1. CursorInv => NestingDescends
  BY DEF CursorInv
<1>2. QED
  BY <1>1, CursorInvariant, PTL

-----------------------------------------------------------------------------
(***************************************************************************)
(* The tuples of the message itself: where they start.                     *)
(***************************************************************************)
(* Of some numbers one is the least.  Arguments by induction below are by  *)
(* the least number that is an exception.                                  *)
LEMMA LeastNat ==
  ASSUME NEW T, T \subseteq Nat, T # {}
  PROVE  \E x \in T : \A y \in T : x <= y
<1> DEFINE LessRel == OpToRel(<, Nat)
<1>1. IsWellFoundedOn(LessRel, Nat)
  BY NatLessThanWellFounded, Zenon
<1>2. \A x, y \in Nat : y < x => <<y, x>> \in LessRel
  BY DEF OpToRel
<1> HIDE DEF LessRel
<1>3. PICK x \in T : \A y \in T : ~ (<<y, x>> \in LessRel)
  BY <1>1, WFMin
<1>4. ASSUME NEW y \in T
      PROVE  x <= y
  <2>1. x \in Nat /\ y \in Nat
    OBVIOUS
  <2>2. ~ (y < x)
    BY <1>2, <1>3, <2>1, Zenon
  <2> QED  BY <2>1, <2>2
<1> QED  BY <1>4

(* f gives the starts of n tuples of message m, which ends at last.        *)
GivesStarts(f, m, last, n) ==
  f = [i \in 1 .. n |-> IF i = 1 THEN HdrSize(m) ELSE TupleAfter(m, last, f[i - 1])]

(* A function that gives the starts of n tuples extends to one more. *)
LEMMA StartsStep ==
  ASSUME NEW m, NEW last, NEW n \in Nat, NEW f, GivesStarts(f, m, last, n)
  PROVE  \E g : GivesStarts(g, m, last, n + 1)
<1> DEFINE g == [i \in 1 .. n + 1 |-> IF i = 1 THEN HdrSize(m)
                                      ELSE TupleAfter(m, last, f[i - 1])]
<1>1. \A i \in 1 .. n :
        f[i] = IF i = 1 THEN HdrSize(m) ELSE TupleAfter(m, last, f[i - 1])
  BY DEF GivesStarts
<1>2. \A i \in 1 .. n : g[i] = f[i]
  BY <1>1
<1>3. \A i \in 1 .. n + 1 : i # 1 => i - 1 \in 1 .. n
  OBVIOUS
<1>4. \A i \in 1 .. n + 1 :
        g[i] = IF i = 1 THEN HdrSize(m) ELSE TupleAfter(m, last, g[i - 1])
  BY <1>2, <1>3
<1>5. g = [i \in 1 .. n + 1 |-> g[i]]
  OBVIOUS
<1> HIDE DEF g
<1>6. GivesStarts(g, m, last, n + 1)
  BY <1>4, <1>5 DEF GivesStarts
<1> QED  BY <1>6

(* There is one for every number of tuples. *)
LEMMA StartsExist ==
  ASSUME NEW m, NEW last, NEW n \in Nat
  PROVE  \E f : GivesStarts(f, m, last, n)
<1> DEFINE Without == {k \in Nat : ~ \E f : GivesStarts(f, m, last, k)}
<1> SUFFICES ASSUME Without # {} PROVE FALSE
  OBVIOUS
<1>1. PICK k \in Without : \A j \in Without : k <= j
  <2>1. Without \subseteq Nat
    OBVIOUS
  <2> HIDE DEF Without
  <2> QED  BY <2>1, LeastNat
<1>2. k # 0
  <2> DEFINE f == [i \in 1 .. 0 |-> 0]
  <2>1. GivesStarts(f, m, last, 0)
    BY DEF GivesStarts
  <2> QED  BY <2>1
<1>3. k - 1 \in Nat /\ k - 1 \notin Without /\ k = (k - 1) + 1
  BY <1>1, <1>2
<1>4. PICK f : GivesStarts(f, m, last, k - 1)
  BY <1>3
<1>5. \E g : GivesStarts(g, m, last, k)
  BY <1>3, <1>4, StartsStep
<1> QED  BY <1>5

(* The recursive definition is one. *)
LEMMA StartsFollow ==
  ASSUME NEW m, NEW last, ipct_get_tuples(m) \in Nat
  PROVE  \A i \in 1 .. ipct_get_tuples(m) :
           TupleStarts(m, last)[i] =
             IF i = 1 THEN HdrSize(m)
             ELSE TupleAfter(m, last, TupleStarts(m, last)[i - 1])
<1> DEFINE n == ipct_get_tuples(m)
           s == TupleStarts(m, last)
<1>1. s = CHOOSE f : f = [i \in 1 .. n |-> IF i = 1 THEN HdrSize(m)
                                           ELSE TupleAfter(m, last, f[i - 1])]
  BY DEF TupleStarts
<1>2. \E f : GivesStarts(f, m, last, n)
  BY StartsExist
<1>3. s = [i \in 1 .. n |-> IF i = 1 THEN HdrSize(m)
                            ELSE TupleAfter(m, last, s[i - 1])]
  <2> HIDE DEF s, n
  <2> QED  BY <1>1, <1>2, Zenon DEF GivesStarts
<1> HIDE DEF s
<1>4. \A i \in 1 .. n : s[i] = IF i = 1 THEN HdrSize(m)
                               ELSE TupleAfter(m, last, s[i - 1])
  BY <1>3
<1> QED  BY <1>4 DEF s

(* Behind the end there are no more. *)
LEMMA StartsEnd ==
  ASSUME NEW m, NEW last \in Nat, ipct_get_tuples(m) \in Nat,
         NEW k \in 1 .. ipct_get_tuples(m), TupleStarts(m, last)[k] = last
  PROVE  \A i \in k .. ipct_get_tuples(m) : TupleStarts(m, last)[i] = last
<1> DEFINE n == ipct_get_tuples(m)
           s == TupleStarts(m, last)
           Other == {i \in k .. n : s[i] # last}
<1> SUFFICES ASSUME Other # {} PROVE FALSE
  OBVIOUS
<1>1. n \in Nat /\ k \in 1 .. n /\ s[k] = last
  OBVIOUS
<1>2. \A i \in 1 .. n : i # 1 => s[i] = TupleAfter(m, last, s[i - 1])
  BY StartsFollow
<1> HIDE DEF s, n
<1>3. PICK j \in Other : \A i \in Other : j <= i
  <2>1. Other \subseteq Nat
    BY <1>1
  <2> HIDE DEF Other
  <2> QED  BY <2>1, LeastNat
<1>4. j \in k .. n /\ s[j] # last /\ j # k
  BY <1>1, <1>3
<1>5. j - 1 \in k .. n /\ j - 1 < j /\ j \in 1 .. n /\ j # 1
  BY <1>1, <1>4
<1>6. s[j - 1] = last
  BY <1>3, <1>5
<1>7. s[j] = last
  BY <1>2, <1>5, <1>6 DEF TupleAfter
<1> QED  BY <1>4, <1>7

-----------------------------------------------------------------------------
(***************************************************************************)
(* What a call that succeeds has stored.                                   *)
(***************************************************************************)
(* st has an entry for item i of the tuple at t. *)
HasEntry(st, t, i) == \E k \in 1 .. Len(st) : st[k].tuple = t /\ st[k].item = i

(* Of the tuple at t, st has every item up to the first unknown one.       *)
Handled(m, st, t) ==
  TupleType(m, t) # TUPLE_ARRAY =>
    \A i \in 0 .. tuple_data_count(m, t) - 1 :
      (\A j \in 0 .. i : get_tuple_elem(action_def, m, t, j) # NULL) =>
        HasEntry(st, t, i)

(* The tuples of the message itself that the outermost invocation has left *)
(* behind, by its count.                                                   *)
Behind == ipct_get_tuples(msg) - frames[1].tuples_remain

(* While tuples are walked: the outermost invocation is at the tuple that  *)
(* its count says, all those behind it are handled, and so are the items   *)
(* before the one at hand.                                                 *)
WalkInOrder ==
  /\ frames[1].tuples_remain <= ipct_get_tuples(msg)
  /\ frames[1].tuples_remain # 0 =>
       frames[1].tuple = TupleStarts(msg, end)[Behind + 1]
  /\ \A i \in 1 .. Behind : Handled(msg, stored, TupleStarts(msg, end)[i])
  /\ Len(frames) > 1 \/ pc = "item" => frames[1].tuple < end

ItemsInOrder == \A i \in 0 .. item - 1 : HasEntry(stored, tuple, i)

HandledInv ==
  /\ pc \in {"tuples", "item"} => WalkInOrder
  /\ pc = "item" => ItemsInOrder
  /\ KnownItemsStored

(* What has been stored stays so. *)
LEMMA EntriesStay ==
  ASSUME NEW S, NEW st \in Seq(S), NEW e \in S
  PROVE  /\ \A t, i : HasEntry(st, t, i) => HasEntry(Append(st, e), t, i)
         /\ HasEntry(Append(st, e), e.tuple, e.item)
         /\ \A m, t : Handled(m, st, t) => Handled(m, Append(st, e), t)
<1>1. /\ Len(st) \in Nat /\ Len(Append(st, e)) = Len(st) + 1
      /\ \A k \in 1 .. Len(st) : Append(st, e)[k] = st[k]
      /\ Append(st, e)[Len(st) + 1] = e
  OBVIOUS
<1>2. \A t, i : HasEntry(st, t, i) => HasEntry(Append(st, e), t, i)
  BY <1>1 DEF HasEntry
<1>3. HasEntry(Append(st, e), e.tuple, e.item)
  BY <1>1 DEF HasEntry
<1> QED  BY <1>2, <1>3 DEF Handled

(* The outermost invocation, or what is nested in it, stays where it is.   *)
LEMMA OuterStays ==
  ASSUME WalkInOrder, msg' = msg, end' = end, frames'[1] = frames[1],
         \A t : Handled(msg, stored, t) => Handled(msg, stored', t),
         Len(frames') > 1 \/ pc' = "item" => frames[1].tuple < end
  PROVE  WalkInOrder'
<1>1. Behind' = Behind
  BY DEF Behind
<1> QED  BY <1>1 DEF WalkInOrder

(* The outermost invocation moves on behind a tuple it has handled.        *)
LEMMA OuterMoves ==
  ASSUME CursorInv, pc \in {"tuples", "item"}, WalkInOrder,
         msg' = msg, end' = end, pc' = "tuples",
         Len(frames') = 1, frames[1].tuple < end, frames[1].tuples_remain # 0,
         frames'[1].tuple = ipc_next_tuple(msg, frames[1].tuple),
         frames'[1].tuples_remain = frames[1].tuples_remain - 1,
         \A t : Handled(msg, stored, t) => Handled(msg, stored', t),
         Handled(msg, stored', frames[1].tuple)
  PROVE  WalkInOrder'
<1> DEFINE n == ipct_get_tuples(msg)
           r == frames[1].tuples_remain
           Start(i) == TupleStarts(msg, end)[i]
<1>1. /\ n \in Nat /\ r \in Nat \ {0} /\ r <= n /\ Behind = n - r
      /\ frames[1].tuple \in Nat /\ end \in Nat
  <2>1. msg \in Messages
    BY DEF CursorInv, TypeOK
  <2>2. n \in Nat
    BY <2>1, HeaderBounds
  <2>3. 1 \in 1 .. Len(frames)
    BY WalkFacts
  <2>4. frames[1] \in FrameType /\ end \in Nat /\ frames[1].tuple \in Nat
    BY <2>3, WalkFacts
  <2> QED  BY <2>2, <2>4 DEF WalkInOrder, Behind, FrameType
<1>2. Behind' = Behind + 1
  <2>1. Behind' = n - (r - 1)
    BY DEF Behind
  <2> HIDE DEF n, r
  <2> QED  BY <1>1, <2>1
<1>3. frames[1].tuple = Start(Behind + 1)
  BY DEF WalkInOrder
<1>4. \A i \in 1 .. n : Start(i) = IF i = 1 THEN HdrSize(msg)
                                   ELSE TupleAfter(msg, end, Start(i - 1))
  BY <1>1, StartsFollow
<1> HIDE DEF n, r
<1>5. r - 1 # 0 => ipc_next_tuple(msg, frames[1].tuple) = Start(Behind + 2)
  <2> SUFFICES ASSUME r - 1 # 0
               PROVE  ipc_next_tuple(msg, frames[1].tuple) = Start(Behind + 2)
    OBVIOUS
  <2>1. Behind + 2 \in 1 .. n /\ Behind + 2 # 1 /\ (Behind + 2) - 1 = Behind + 1
    BY <1>1
  <2>2. Start(Behind + 2) = TupleAfter(msg, end, Start(Behind + 1))
    BY <1>4, <2>1
  <2>3. ~ (frames[1].tuple >= end)
    BY <1>1
  <2> QED  BY <1>3, <2>2, <2>3 DEF TupleAfter
<1>6. (frames[1].tuples_remain # 0 =>
        frames[1].tuple = TupleStarts(msg, end)[Behind + 1])'
  <2>1. (Behind + 1)' = Behind + 2
    BY <1>1, <1>2
  <2> QED  BY <1>5, <2>1 DEF r
<1>7. (\A i \in 1 .. Behind : Handled(msg, stored, TupleStarts(msg, end)[i]))'
  <2>1. \A i \in 1 .. Behind + 1 : i \in 1 .. Behind \/ i = Behind + 1
    BY <1>1
  <2>2. \A i \in 1 .. Behind : Handled(msg, stored', Start(i))
    BY DEF WalkInOrder
  <2>3. Handled(msg, stored', Start(Behind + 1))
    BY <1>3
  <2>4. \A i \in 1 .. Behind + 1 : Handled(msg, stored', Start(i))
    BY <2>1, <2>2, <2>3
  <2> QED  BY <1>2, <2>4
<1>8. (frames[1].tuples_remain <= ipct_get_tuples(msg))'
  BY <1>1 DEF n, r
<1> QED  BY <1>6, <1>7, <1>8 DEF WalkInOrder

(* When the outermost loop ends, no tuple of the message is left.          *)
LEMMA AllBehind ==
  ASSUME CursorInv, pc = "tuples", WalkInOrder, ~ More, Len(frames) = 1
  PROVE  \A t \in TopTuples : Handled(msg, stored, t)
<1> DEFINE n == ipct_get_tuples(msg)
           r == frames[1].tuples_remain
           Start(i) == TupleStarts(msg, end)[i]
<1>1. /\ n \in Nat /\ r \in Nat /\ r <= n /\ Behind = n - r
      /\ frames[1].tuple \in Nat /\ end \in Nat
      /\ frames[1].remaining_bytes = end - frames[1].tuple
  <2>1. msg \in Messages
    BY DEF CursorInv, TypeOK
  <2>2. n \in Nat
    BY <2>1, HeaderBounds
  <2>3. 1 \in 1 .. Len(frames)
    BY WalkFacts
  <2>4. frames[1] \in FrameType /\ end \in Nat /\ frames[1].tuple \in Nat
    BY <2>3, WalkFacts
  <2>5. frames[1].remaining_bytes = end - frames[1].tuple
    BY <2>3 DEF CursorInv, CursorsInMessage
  <2> QED  BY <2>2, <2>4, <2>5 DEF WalkInOrder, Behind, FrameType
<1>2. r = 0 \/ frames[1].remaining_bytes = 0
  BY DEF More, Current
<1> SUFFICES ASSUME NEW i \in 1 .. n, Start(i) < end
             PROVE  Handled(msg, stored, Start(i))
  BY DEF TopTuples
<1>3. \A j \in 1 .. Behind : Handled(msg, stored, Start(j))
  BY DEF WalkInOrder
<1>4. CASE i <= Behind
  <2> HIDE DEF n, r
  <2>1. i \in 1 .. Behind
    BY <1>1, <1>4
  <2> QED  BY <1>3, <2>1
<1>5. CASE ~ (i <= Behind)
  <2>1. r # 0
    <3> HIDE DEF n, r
    <3> QED  BY <1>1, <1>5
  <2>2. Start(Behind + 1) = end
    <3>1. frames[1].tuple = Start(Behind + 1)
      BY <2>1 DEF WalkInOrder
    <3>2. frames[1].tuple = end
      <4> HIDE DEF n, r
      <4> QED  BY <1>1, <1>2, <2>1
    <3> QED  BY <3>1, <3>2
  <2>3. Behind + 1 \in 1 .. n /\ i \in Behind + 1 .. n
    <3> HIDE DEF n, r
    <3> QED  BY <1>1, <1>5, <2>1
  <2>4. Start(i) = end
    BY <1>1, <2>2, <2>3, StartsEnd
  <2> QED  BY <1>1, <2>4
<1> QED  BY <1>4, <1>5

(* A call that fails has nothing to keep. *)
LEMMA HandledReturn ==
  ASSUME HandledInv, pc' = "done", ret' = -EINVAL
  PROVE  HandledInv'
BY DEF HandledInv, KnownItemsStored, Unpacked

(* The walk begins at the first tuple, with nothing dealt with. *)
LEMMA HandledAccept ==
  ASSUME CursorInv, HandledInv, AcceptHeader
  PROVE  HandledInv'
<1>1. msg \in Messages /\ msg' = msg /\ pc' = "tuples"
  BY DEF AcceptHeader, CursorInv, TypeOK
<1>2. /\ HdrSize(msg) \in Nat
      /\ ipct_get_tuples(msg) \in Nat /\ ipct_get_tuples(msg) # 0
  BY <1>1, HeaderBounds DEF AcceptHeader, HeaderOk
<1>3. /\ frames'[1].tuple = HdrSize(msg) /\ Len(frames') = 1
      /\ frames'[1].tuples_remain = ipct_get_tuples(msg)
  BY DEF AcceptHeader, Frame
<1>4. Behind' = 0
  BY <1>1, <1>2, <1>3 DEF Behind
<1>5. TupleStarts(msg, end')[1] = HdrSize(msg)
  <2>1. 1 \in 1 .. ipct_get_tuples(msg)
    BY <1>2
  <2> QED  BY <1>2, <2>1, StartsFollow
<1>6. WalkInOrder'
  BY <1>1, <1>2, <1>3, <1>4, <1>5 DEF WalkInOrder
<1> QED  BY <1>1, <1>6 DEF HandledInv, KnownItemsStored, Unpacked

(* The tuple at the cursor can be entered, and starts before the end.      *)
LEMMA HandledEnter ==
  ASSUME CursorInv, HandledInv, Nest \/ BeginTuple
  PROVE  HandledInv'
<1> DEFINE n == Len(frames)
<1>1. /\ pc = "tuples" /\ More /\ TupleInMessage /\ WalkInOrder
      /\ UNCHANGED <<msg, end, stored>>
  BY DEF Nest, BeginTuple, HandledInv
<1>2. n \in Nat /\ n >= 1 /\ frames \in Seq(FrameType)
  BY <1>1, WalkFacts DEF CursorInv, TypeOK
<1>3. frames[1].tuple < end
  <2>1. CASE n = 1
    BY <1>1, <2>1 DEF TupleInMessage, tuple, Current
  <2>2. CASE n # 1
    <3>1. Len(frames) > 1
      <4> HIDE DEF n
      <4>1. n > 1
        BY <1>2, <2>2
      <4> QED  BY <4>1 DEF n
    <3> QED  BY <1>1, <3>1 DEF WalkInOrder
  <2> QED  BY <2>1, <2>2
<1>4. frames'[1] = frames[1]
  <2>1. CASE BeginTuple
    BY <2>1 DEF BeginTuple
  <2>2. CASE Nest
    <3> DEFINE f == Frame(tuple_get_data(msg, tuple, 0),
                          tuple_data_count(msg, tuple), end)
    <3>1. frames' = Append(frames, f)
      BY <2>2 DEF Nest
    <3> HIDE DEF f
    <3> QED  BY <1>2, <3>1
  <2> QED  BY <2>1, <2>2
<1>5. WalkInOrder'
  BY <1>1, <1>3, <1>4, OuterStays
<1>6. (pc = "item" => ItemsInOrder)'
  <2>1. CASE BeginTuple
    BY <2>1 DEF BeginTuple, ItemsInOrder
  <2>2. CASE Nest
    BY <1>1, <2>2 DEF Nest
  <2> QED  BY <2>1, <2>2
<1>7. pc' # "done"
  BY DEF Nest, BeginTuple
<1> QED  BY <1>5, <1>6, <1>7 DEF HandledInv, KnownItemsStored, Unpacked

(* A step from a tuple of the message, or of an array, to the one after.   *)
LEMMA HandledNext ==
  ASSUME CursorInv, HandledInv, pc \in {"tuples", "item"},
         pc' = "tuples", msg' = msg, end' = end,
         NEW s \in Seq(FrameType), Len(s) >= 1, Len(s) <= Len(frames),
         \A i \in 1 .. Len(s) : s[i] = frames[i],
         Entered(s[Len(s)]), frames' = NextTuple(s),
         Len(s) = 1 => frames[1].tuple < end,
         Len(s) = 1 => Handled(msg, stored', frames[1].tuple),
         \A t : Handled(msg, stored, t) => Handled(msg, stored', t)
  PROVE  HandledInv'
<1> DEFINE n == Len(s)
           f == s[n]
           g == [tuple           |-> ipc_next_tuple(msg, f.tuple),
                 remaining_bytes |-> f.remaining_bytes - tuple_size(msg, f.tuple),
                 tuples_remain   |-> f.tuples_remain - 1]
<1>1. n \in Nat /\ n >= 1 /\ Len(frames) \in Nat /\ n <= Len(frames)
  BY WalkFacts
<1>a. n # 1 => 1 \in 1 .. n /\ Len(frames) > 1
  <2> HIDE DEF n
  <2> QED  BY <1>1
<1>2. frames' = [s EXCEPT ![n] = g]
  BY DEF NextTuple
<1> HIDE DEF g
<1>3. /\ Len(frames') = n
      /\ n = 1 => frames'[1] = g
      /\ n # 1 => frames'[1] = s[1]
  BY <1>1, <1>2
<1>4. WalkInOrder
  BY DEF HandledInv
<1>5. CASE n = 1
  <2>1. f = frames[1] /\ f.tuples_remain # 0
    BY <1>5 DEF Entered
  <2>2. /\ frames'[1].tuple = ipc_next_tuple(msg, frames[1].tuple)
        /\ frames'[1].tuples_remain = frames[1].tuples_remain - 1
    BY <1>3, <1>5, <2>1 DEF g
  <2>3. frames[1].tuple < end /\ Handled(msg, stored', frames[1].tuple)
    BY <1>5
  <2>4. WalkInOrder'
    BY <1>3, <1>4, <1>5, <2>1, <2>2, <2>3, OuterMoves
  <2> QED  BY <2>4 DEF HandledInv, KnownItemsStored, Unpacked
<1>6. CASE n # 1
  <2>1. 1 \in 1 .. n /\ Len(frames) > 1
    BY <1>a, <1>6
  <2>2. frames'[1] = frames[1] /\ frames[1].tuple < end
    BY <1>3, <1>4, <1>6, <2>1 DEF WalkInOrder
  <2>3. WalkInOrder'
    BY <1>4, <2>2, OuterStays
  <2> QED  BY <2>3 DEF HandledInv, KnownItemsStored, Unpacked
<1> QED  BY <1>5, <1>6

(* The loop of an invocation ends. *)
LEMMA HandledLeave ==
  ASSUME CursorInv, HandledInv, Leave
  PROVE  HandledInv'
<1> DEFINE n == Len(frames)
           s == SubSeq(frames, 1, n - 1)
<1>1. /\ pc = "tuples" /\ n \in Nat /\ n >= 1 /\ frames \in Seq(FrameType)
      /\ UNCHANGED <<msg, end, stored>> /\ WalkInOrder /\ ~ More
  BY WalkFacts DEF Leave, CursorInv, TypeOK, HandledInv
<1>2. CASE n = 1
  <2>1. pc' = "done"
    BY <1>2 DEF Leave, Return
  <2>2. \A t \in TopTuples : Handled(msg, stored, t)
    BY <1>1, <1>2, AllBehind
  <2>3. TopTuples' = TopTuples
    BY <1>1 DEF TopTuples
  <2>4. KnownItemsStored'
    BY <1>1, <2>2, <2>3 DEF KnownItemsStored, Handled, HasEntry
  <2> QED  BY <2>1, <2>4 DEF HandledInv
<1>3. CASE n # 1
  <2>1. frames' = NextTuple(s) /\ pc' = "tuples"
    BY <1>1, <1>3 DEF Leave
  <2>2. 1 \in Int /\ n - 1 \in Int /\ 1 <= n - 1 /\ (n - 1) - 1 + 1 = n - 1
        /\ n > 1 /\ \A i \in 1 .. n - 1 : 1 + i - 1 = i
    <3>1. n \in Nat /\ n >= 1 /\ n # 1
      BY <1>1, <1>3
    <3> HIDE DEF n
    <3> QED  BY <3>1
  <2>3. \A i \in 1 .. n - 1 : frames[i] \in FrameType
    BY <1>1
  <2>4. s \in Seq(FrameType) /\ Len(s) = (n - 1) - 1 + 1
        /\ \A i \in 1 .. (n - 1) - 1 + 1 : s[i] = frames[1 + i - 1]
    <3> HIDE DEF n
    <3> QED  BY <2>2, <2>3, SubSeqProperties
  <2>5. Len(s) = n - 1 /\ \A i \in 1 .. n - 1 : s[i] = frames[i]
    <3> HIDE DEF s, n
    <3> QED  BY <2>2, <2>4
  <2>6. n - 1 \in 1 .. n - 1 /\ Len(s) >= 1 /\ Len(s) <= n
    <3> HIDE DEF s, n
    <3> QED  BY <1>1, <2>2, <2>5
  <2>7. Entered(s[Len(s)]) /\ TupleType(msg, frames[n - 1].tuple) = TUPLE_ARRAY
    BY <2>5, <2>6 DEF CursorInv, NestingDescends
  <2>8. Len(s) = 1 => /\ frames[1].tuple < end
                      /\ Handled(msg, stored', frames[1].tuple)
    <3>2. frames[1].tuple < end
      BY <1>1, <2>2 DEF WalkInOrder
    <3>3. n - 1 = 1 => Handled(msg, stored', frames[1].tuple)
      BY <2>7 DEF Handled
    <3> HIDE DEF s, n
    <3> QED  BY <2>5, <3>2, <3>3
  <2>9. \A t : Handled(msg, stored, t) => Handled(msg, stored', t)
    BY <1>1
  <2> HIDE DEF s
  <2> QED  BY <1>1, <2>1, <2>4, <2>5, <2>6, <2>7, <2>8, <2>9, HandledNext
<1> QED  BY <1>2, <1>3

(* Where the tuple being unpacked is at the top of the stack.              *)
LEMMA OuterOrNot ==
  ASSUME CursorInv, pc = "item", WalkInOrder
  PROVE  /\ frames \in Seq(FrameType) /\ Len(frames) >= 1
         /\ Entered(frames[Len(frames)])
         /\ frames[1].tuple < end
         /\ Len(frames) = 1 => frames[1].tuple = tuple
BY WalkFacts DEF CursorInv, TypeOK, Current, tuple, WalkInOrder

(* An unknown item ends its tuple: those before it are stored.             *)
LEMMA HandledIgnore ==
  ASSUME CursorInv, HandledInv, IgnoreRest
  PROVE  HandledInv'
<1>1. /\ pc = "item" /\ pc' = "tuples" /\ frames' = NextTuple(frames)
      /\ UNCHANGED <<msg, end, stored>> /\ WalkInOrder /\ ItemsInOrder
      /\ get_tuple_elem(action_def, msg, tuple, item) = NULL
      /\ item \in Nat
  BY DEF IgnoreRest, HandledInv, ElemAt, CursorInv, TypeOK
<1>2. Handled(msg, stored, tuple)
  <2> SUFFICES ASSUME NEW i \in 0 .. tuple_data_count(msg, tuple) - 1,
                      \A j \in 0 .. i : get_tuple_elem(action_def, msg, tuple, j) # NULL
               PROVE  HasEntry(stored, tuple, i)
    BY DEF Handled
  <2>1. item \notin 0 .. i
    BY <1>1
  <2>2. i \in 0 .. item - 1
    BY <1>1, <2>1
  <2> QED  BY <1>1, <2>2 DEF ItemsInOrder
<1> QED  BY <1>1, <1>2, OuterOrNot, HandledNext

(* One item more is dealt with. *)
LEMMA HandledInsert ==
  ASSUME CursorInv, HandledInv, InsertItem
  PROVE  HandledInv'
<1> DEFINE entry == [id |-> ElemAt.id, tuple |-> tuple, item |-> item]
<1>1. /\ pc = "item" /\ CanInsert /\ item' = item + 1
      /\ stored' = Append(stored, entry)
      /\ UNCHANGED <<msg, end>> /\ WalkInOrder /\ ItemsInOrder
  BY DEF InsertItem, HandledInv
<1>2. item \in Nat /\ stored \in Seq(Stored) /\ action_def # NULL
  BY <1>1 DEF CursorInv, TypeOK, Stored
<1>3. entry \in Stored /\ entry.tuple = tuple /\ entry.item = item
  <2>1. ElemAt.id \in Nat /\ tuple \in Nat
    BY <1>1, <1>2, ElemFacts, CurrentFacts DEF CanInsert
  <2> QED  BY <1>2, <2>1 DEF Stored
<1> HIDE DEF entry
<1>4. /\ \A t, i : HasEntry(stored, t, i) => HasEntry(stored', t, i)
      /\ HasEntry(stored', tuple, item)
      /\ \A t : Handled(msg, stored, t) => Handled(msg, stored', t)
  BY <1>1, <1>2, <1>3, EntriesStay
<1>5. \A i \in 0 .. item : HasEntry(stored', tuple, i)
  BY <1>1, <1>2, <1>4 DEF ItemsInOrder
<1>6. CASE item + 1 < tuple_data_count(msg, tuple)
  <2>1. pc' = "item" /\ frames' = frames
    BY <1>1, <1>6 DEF InsertItem
  <2>2. tuple' = tuple
    BY <2>1 DEF tuple, Current
  <2>3. WalkInOrder'
    BY <1>1, <1>4, <2>1, OuterOrNot, OuterStays
  <2>4. ItemsInOrder'
    <3>1. \A i \in 0 .. (item + 1) - 1 : HasEntry(stored', tuple, i)
      BY <1>2, <1>5
    <3> QED  BY <1>1, <2>2, <3>1 DEF ItemsInOrder
  <2> QED  BY <2>1, <2>3, <2>4 DEF HandledInv, KnownItemsStored, Unpacked
<1>7. CASE ~ (item + 1 < tuple_data_count(msg, tuple))
  <2>1. pc' = "tuples" /\ frames' = NextTuple(frames)
    BY <1>1, <1>7 DEF InsertItem
  <2>2. tuple_data_count(msg, tuple) \in Nat
    <3>1. 0 \in Nat
      OBVIOUS
    <3> QED  BY <1>1, <3>1, WalkFacts, CurrentFacts, AccessorsType
  <2>3. Handled(msg, stored', tuple)
    BY <1>2, <1>5, <1>7, <2>2 DEF Handled
  <2> QED  BY <1>1, <1>4, <2>1, <2>3, OuterOrNot, HandledNext
<1> QED  BY <1>6, <1>7

(* Every step keeps the invariant. *)
LEMMA HandledStep ==
  ASSUME CursorInv, HandledInv, [Next]_vars
  PROVE  HandledInv'
<1>1. CASE Collect
  BY <1>1 DEF Collect, HandledInv, KnownItemsStored, Unpacked
<1>2. ASSUME NEW m \in Messages, NEW t \in Structs,
             NEW ss \in SrcSizes, NEW ds \in DestSizes,
             ipct_msg_unpack(m, t, ss, ds)
      PROVE  HandledInv'
  BY <1>2 DEF ipct_msg_unpack, HandledInv, KnownItemsStored, Unpacked
<1>3. CASE RejectHeader \/ RejectTuple \/ TooDeep \/ NoData \/ RejectItem
  <2>1. pc' = "done" /\ ret' = -EINVAL
    BY <1>3 DEF RejectHeader, RejectTuple, TooDeep, NoData, RejectItem, Return
  <2> QED  BY <2>1, HandledReturn
<1>4. CASE UNCHANGED vars
  BY <1>4 DEF vars, HandledInv, KnownItemsStored, Unpacked, WalkInOrder,
              ItemsInOrder, Behind, TopTuples, tuple, Current
<1> QED
  BY <1>1, <1>2, <1>3, <1>4, HandledAccept, HandledEnter, HandledLeave,
     HandledIgnore, HandledInsert DEF Next, Client, UnpackStep

(* In every reachable state the tuples the walk has left behind are stored *)
(* up to their first unknown items, for all tables and messages            *)
(* (tuple_for_each and tuple_unpack of unpack.c).                          *)
THEOREM HandledInvariant == Spec => []HandledInv
<1>1. Init => HandledInv
  BY DEF Init, HandledInv, KnownItemsStored, Unpacked
<1>2. CursorInv /\ HandledInv /\ [Next]_vars => HandledInv'
  BY HandledStep
<1> QED  BY <1>1, <1>2, CursorInvariant, PTL DEF Spec

(* A call that succeeds has stored every datum it knows, whatever counts   *)
(* and sizes the message has.                                              *)
THEOREM StoresKnownItems == Spec => []KnownItemsStored
<1>1. HandledInv => KnownItemsStored
  BY DEF HandledInv
<1> QED  BY <1>1, HandledInvariant, PTL

-----------------------------------------------------------------------------
(***************************************************************************)
(* What unpacking does to the client's structure: whatever the message, it *)
(* holds what the message says in the members stored, each of them a value *)
(* its table allows, and what it held before elsewhere.  First, storing a  *)
(* datum and reading it back.                                              *)
(***************************************************************************)

(* The low byte of a cell that was stored for a byte, and its upper half.  *)
LEMMA ByteCell ==
  ASSUME NEW c \in U16, NEW old \in U16
  PROVE  /\ ((c % 256) + 256 * (old \div 256)) % 256 = c % 256
         /\ ((c % 256) + 256 * (old \div 256)) \div 256 = old \div 256
         /\ (c % 256) + 256 * (0 \div 256) = c % 256
         /\ (c % 256) % 256 = c % 256 /\ (c % 256) \in U16
<1>1. c \in Nat /\ old \in Nat
  BY U16Elim
<1>2. QED
  BY <1>1, SMT DEF U16

(* The low eight bits do not depend on the byte above them.                *)
LEMMA LowBits ==
  ASSUME NEW c \in U16, NEW i \in 0 .. 7
  PROVE  Bit(c % 256, i) = Bit(c, i)
<1>1. c \in Nat
  BY U16Elim
<1>2. CASE i = 0
  BY <1>1, <1>2, SMT DEF Bit
<1>3. CASE i = 1
  BY <1>1, <1>3, SMT DEF Bit
<1>4. CASE i = 2
  BY <1>1, <1>4, SMT DEF Bit
<1>5. CASE i = 3
  BY <1>1, <1>5, SMT DEF Bit
<1>6. CASE i = 4
  BY <1>1, <1>6, SMT DEF Bit
<1>7. CASE i = 5
  BY <1>1, <1>7, SMT DEF Bit
<1>8. CASE i = 6
  BY <1>1, <1>8, SMT DEF Bit
<1>9. CASE i = 7
  BY <1>1, <1>9, SMT DEF Bit
<1>10. QED
  BY <1>2, <1>3, <1>4, <1>5, <1>6, <1>7, <1>8, <1>9

(* A byte takes one cell. *)
LEMMA ByteWidth ==
  ASSUME NEW e, e.type \in ByteTypes
  PROVE  CellsOf(e) = 1
<1>1. elem_get_data_size(e) = 2
  BY DEF elem_get_data_size, ByteTypes, HalfWordTypes, WordTypes, LongTypes,
         SizedTypes
<1>2. QED
  BY <1>1 DEF CellsOf

(* A value of a byte-wide type that passes its check passes it again as    *)
(* the byte it is stored as.                                               *)
LEMMA ByteStaysValid ==
  ASSUME NEW e \in Elem, e.type \in ByteTypes, NEW c, NEW v,
         c[0] \in U16, v[0] = c[0] % 256, ValueOk(e, c)
  PROVE  ValueOk(e, v)
<1>1. /\ e.value1 \in Nat /\ e.value2 \in Nat
      /\ c[0] \in Nat /\ CellsOf(e) = 1
  BY U16Elim, ByteWidth DEF Elem
<1>2. CASE e.type = "uint8_mask"
  <2>1. InMask(e, c)
    BY <1>2 DEF ValueOk, MaskTypes, FloatTypes, BlockTypes, SizedTypes
  <2>2. ASSUME NEW i \in 0 .. 7
        PROVE  Bit(v[0], i) = Bit(c[0], i)
    BY LowBits
  <2>3. InMask(e, v)
    BY <1>1, <1>2, <2>1, <2>2 DEF InMask
  <2>4. QED
    BY <1>2, <2>3 DEF ValueOk, MaskTypes, FloatTypes, BlockTypes, SizedTypes
<1>3. CASE e.type = "uint8_value"
  <2>1. e.value1 % 256 <= c[0] /\ c[0] <= e.value2 % 256
    BY <1>3 DEF ValueOk, ByteInRange, MaskTypes, FloatTypes, BlockTypes,
                        SizedTypes
  <2>2. v[0] = c[0]
    BY <1>1, <2>1
  <2>3. QED
    BY <1>3, <2>1, <2>2 DEF ValueOk, ByteInRange, MaskTypes, FloatTypes, BlockTypes,
                        SizedTypes
<1>4. CASE e.type = "int8_value"
  <2>1. AsInt8(e.value1) <= c[0] /\ c[0] <= AsInt8(e.value2)
    BY <1>4 DEF ValueOk, ByteInRange, MaskTypes, FloatTypes, BlockTypes,
                        SizedTypes
  <2>2. AsInt8(e.value2) \in Int /\ AsInt8(e.value2) < 128
    BY <1>1 DEF AsInt8
  <2>3. v[0] = c[0]
    BY <1>1, <2>1, <2>2
  <2>4. QED
    BY <1>4, <2>1, <2>3 DEF ValueOk, ByteInRange, MaskTypes, FloatTypes, BlockTypes,
                        SizedTypes
<1>5. QED
  BY <1>2, <1>3, <1>4 DEF ByteTypes

(* v is what a member e of cells old reads as once c is stored in it.      *)
StoredAs(e, c, v, old) ==
  /\ c = [k \in 0 .. CellsOf(e) - 1 |-> c[k]]
  /\ v = [k \in 0 .. CellsOf(e) - 1 |-> v[k]]
  /\ \A k \in 0 .. CellsOf(e) - 1 :
       /\ c[k] \in U16 /\ old[k] \in U16
       /\ v[k] = IF e.type \in ByteTypes
                 THEN StoredCell(e, c, old[k], k) % 256
                 ELSE StoredCell(e, c, old[k], k)

(* A datum that passes the check of its element, stored over anything and  *)
(* read back, passes it again, and storing it once more changes nothing.   *)
LEMMA ReadBack ==
  ASSUME NEW e \in Elem, NEW c, NEW v, NEW old,
         StoredAs(e, c, v, old),
         ValueOk(e, c)
  PROVE  /\ ValueOk(e, v)
         /\ \A k \in 0 .. CellsOf(e) - 1 : v[k] = StoredCell(e, v, 0, k)
<1> USE DEF StoredAs
<1>1. CASE e.type \in ByteTypes
  <2>1. CellsOf(e) = 1
    BY <1>1, ByteWidth
  <2>2. 0 \in 0 .. CellsOf(e) - 1 /\ \A k \in 0 .. CellsOf(e) - 1 : k = 0
    BY <2>1
  <2>3. c[0] \in U16 /\ v[0] = c[0] % 256
    BY <1>1, <2>2, ByteCell DEF StoredCell
  <2>4. v[0] = StoredCell(e, v, 0, 0)
    BY <1>1, <2>3, ByteCell DEF StoredCell
  <2>5. ValueOk(e, v)
    BY <1>1, <2>3, ByteStaysValid
  <2>6. QED
    BY <2>2, <2>4, <2>5
<1>2. CASE e.type \in BlockTypes
  <2>1. e.type \notin ByteTypes
    BY <1>2 DEF BlockTypes, SizedTypes, ByteTypes
  <2>2. ValueOk(e, v)
    BY <1>2 DEF ValueOk, BlockTypes, SizedTypes, MaskTypes, FloatTypes
  <2>3. ASSUME NEW k \in 0 .. CellsOf(e) - 1
        PROVE  v[k] = StoredCell(e, v, 0, k)
    <3>1. v[k] = IF 2 * k + 1 < e.value1 THEN c[k]
                 ELSE IF 2 * k < e.value1 THEN c[k] % 256 ELSE 0
      BY <1>2, <2>1 DEF StoredCell
    <3>2. StoredCell(e, v, 0, k) =
            IF 2 * k + 1 < e.value1 THEN v[k]
            ELSE IF 2 * k < e.value1 THEN v[k] % 256 ELSE 0
      BY <1>2, <2>1 DEF StoredCell
    <3>3. (c[k] % 256) % 256 = c[k] % 256
      BY ByteCell
    <3>4. QED
      BY <3>1, <3>2, <3>3
  <2>4. QED
    BY <2>2, <2>3
<1>3. CASE e.type \notin ByteTypes /\ e.type \notin BlockTypes
  <2>1. \A k \in 0 .. CellsOf(e) - 1 : v[k] = c[k]
    BY <1>3 DEF StoredCell
  <2>2. v = c
    BY <2>1
  <2>3. ValueOk(e, v)
    BY <2>2
  <2>4. QED
    BY <1>3, <2>3 DEF StoredCell
<1>4. QED
  BY <1>1, <1>2, <1>3

-----------------------------------------------------------------------------
(***************************************************************************)
(* The members of the action, in the structure.                            *)
(***************************************************************************)

(* Members lie in the structure; each cell of one is one of its cells.     *)
LEMMA MemberFacts ==
  ASSUME NEW e \in ActionElems
  PROVE  /\ action_def # NULL /\ e \in Elem /\ e.id \in Nat
         /\ CellsOf(e) \in Nat /\ e.offset \div 2 \in Nat
         /\ \A f \in ActionElems : e.id = f.id => e = f
         /\ MemberCells(e) \subseteq 0 .. StructCells - 1
         /\ \A k \in 0 .. CellsOf(e) - 1 :
              /\ (e.offset \div 2) + k \in MemberCells(e)
              /\ (e.offset \div 2) + k - (e.offset \div 2) = k
         /\ \A i \in MemberCells(e) : i - (e.offset \div 2) \in 0 .. CellsOf(e) - 1
<1>1. action_def # NULL /\ ActionElems = Elems(action_def)
  BY DEF ActionElems
<1>2. Known(action_def)
  BY <1>1, GetActionDef DEF action_def
<1>3. /\ e \in Elem /\ e \in AllElems
      /\ \A f \in ActionElems : e.id = f.id => e = f
  BY <1>1, <1>2, KnownElems
<1>4. e.id \in Nat /\ e.offset \in Nat /\ e.value2 \in Nat
  BY <1>3 DEF Elem, U16
<1>5. elem_get_data_size(e) \in Nat
  BY <1>4, DataSizeType
<1>6. /\ e.offset % 2 = 0 /\ elem_get_data_size(e) % 2 = 0
      /\ e.offset + elem_get_data_size(e) <= 2 * StructCells
      /\ StructCells \in Nat
  BY <1>3, StructAssumption
<1> DEFINE first == e.offset \div 2
           n     == CellsOf(e)
<1>7. n \in Nat /\ first \in Nat /\ first + n <= StructCells
  BY <1>4, <1>5, <1>6 DEF CellsOf
<1>8. MemberCells(e) = first .. first + n - 1
  BY DEF MemberCells
<1> HIDE DEF first, n
<1>9. /\ MemberCells(e) \subseteq 0 .. StructCells - 1
      /\ \A k \in 0 .. n - 1 : first + k \in MemberCells(e) /\ first + k - first = k
      /\ \A i \in MemberCells(e) : i - first \in 0 .. n - 1
  BY <1>6, <1>7, <1>8
<1>10. QED
  BY <1>1, <1>3, <1>4, <1>7, <1>9 DEF first, n

(* What one store does: the cells of its member, and no others, change.    *)
LEMMA InsertFacts ==
  ASSUME CursorInv, InsertItem
  PROVE  /\ ElemAt \in ActionElems /\ struct \in Struct /\ struct' \in Struct
         /\ ValueOk(ElemAt, Datum)
         /\ Datum = [k \in 0 .. CellsOf(ElemAt) - 1 |-> Datum[k]]
         /\ \A k \in 0 .. CellsOf(ElemAt) - 1 : Datum[k] \in U16
         /\ \A i \in MemberCells(ElemAt) :
              /\ struct[i] \in U16
              /\ struct'[i] = StoredCell(ElemAt, Datum, struct[i],
                                         i - (ElemAt.offset \div 2))
         /\ \A i \in 0 .. StructCells - 1 :
              i \notin MemberCells(ElemAt) => struct'[i] = struct[i]
<1>1. pc = "item" /\ CanInsert /\ struct' = Inserted
  BY DEF InsertItem
<1>2. struct \in Struct /\ action_def # NULL
  BY <1>1 DEF CursorInv, TypeOK
<1>3. ElemAt \in ActionElems /\ ValueOk(ElemAt, Datum)
  BY <1>1, <1>2, ElemFacts DEF CanInsert
<1>4. struct' \in Struct
  BY <1>1, InsertedType
<1>5. \A k \in 0 .. CellsOf(ElemAt) - 1 : Datum[k] \in U16
  BY <1>1, DatumFacts
<1>6. Datum = [k \in 0 .. CellsOf(ElemAt) - 1 |-> Datum[k]]
  BY DEF Datum
<1>7. /\ DOMAIN struct = 0 .. StructCells - 1
      /\ \A i \in 0 .. StructCells - 1 : struct[i] \in U16
  BY <1>2 DEF Struct
<1>8. \A i \in 0 .. StructCells - 1 :
        struct'[i] = IF i \in MemberCells(ElemAt)
                     THEN StoredCell(ElemAt, Datum, struct[i],
                                     i - (ElemAt.offset \div 2))
                     ELSE struct[i]
  BY <1>1, <1>7 DEF Inserted, MemberCells
<1>9. MemberCells(ElemAt) \subseteq 0 .. StructCells - 1
  BY <1>3, MemberFacts
<1>10. QED
  BY <1>2, <1>3, <1>4, <1>5, <1>6, <1>7, <1>8, <1>9

(* A store leaves the cells of every other member alone.                   *)
LEMMA OthersKept ==
  ASSUME CursorInv, InsertItem, NEW e \in ActionElems, e # ElemAt,
         NEW i \in MemberCells(e)
  PROVE  struct'[i] = struct[i]
<1>1. i \in 0 .. StructCells - 1
  BY MemberFacts
<1>2. i \notin MemberCells(ElemAt)
  BY InsertFacts, ApartAssumption
<1>3. QED
  BY <1>1, <1>2, InsertFacts

-----------------------------------------------------------------------------
(***************************************************************************)
(* The data stored so far.                                                 *)
(***************************************************************************)

(* A choice from a set is in it. *)
LEMMA OneOfIn ==
  ASSUME NEW S, S # {}
  PROVE  OneOf(S) \in S
BY DEF OneOf

(* There is only one choice from a singleton. *)
LEMMA OneOfSingle ==
  ASSUME NEW S, NEW x, S = {x}
  PROVE  OneOf(S) = x
BY DEF OneOf

(* What a store adds to them. *)
LEMMA Appended ==
  ASSUME CursorInv, InsertItem
  PROVE  /\ Len(stored) \in Nat /\ Len(stored') = Len(stored) + 1
         /\ \A i \in 1 .. Len(stored) : stored'[i] = stored[i]
         /\ stored'[Len(stored) + 1] =
              [id |-> ElemAt.id, tuple |-> tuple, item |-> item]
         /\ stored'[Len(stored) + 1].id = ElemAt.id
         /\ msg' = msg /\ before' = before /\ pc = "item" /\ pc' # "idle"
<1>1. stored \in Seq([id : Nat, tuple : Nat, item : Nat])
  BY DEF CursorInv, TypeOK
<1>2. stored' = Append(stored, [id |-> ElemAt.id, tuple |-> tuple, item |-> item])
  BY DEF InsertItem
<1>3. pc = "item" /\ (pc' = pc \/ pc' = "tuples") /\ msg' = msg /\ before' = before
  BY DEF InsertItem
<1>4. QED
  BY <1>1, <1>2, <1>3

(* A store adds its element's ID to those stored. *)
LEMMA StoredIdsGrow ==
  ASSUME CursorInv, InsertItem
  PROVE  StoredIds' = StoredIds \cup {ElemAt.id}
<1> DEFINE n == Len(stored)
<1>1. /\ n \in Nat /\ Len(stored') = n + 1
      /\ \A i \in 1 .. n : stored'[i] = stored[i]
      /\ stored'[n + 1].id = ElemAt.id
  BY Appended
<1>2. StoredIds = {stored[i].id : i \in 1 .. n}
  BY DEF StoredIds
<1>3. StoredIds' = {stored'[i].id : i \in 1 .. n + 1}
  BY <1>1 DEF StoredIds
<1> HIDE DEF n
<1>4. 1 .. n + 1 = (1 .. n) \cup {n + 1}
  BY <1>1
<1>5. QED
  BY <1>1, <1>2, <1>3, <1>4

(* The last datum of the element just stored is the one just stored.       *)
LEMMA LastIsNew ==
  ASSUME CursorInv, InsertItem, NEW e, e.id = ElemAt.id
  PROVE  Lasts(e)' = {Len(stored) + 1}
<1> DEFINE n == Len(stored)
<1>1. /\ n \in Nat /\ Len(stored') = n + 1 /\ stored'[n + 1].id = e.id
  BY Appended
<1>2. Lasts(e)' = {i \in 1 .. n + 1 :
                     /\ stored'[i].id = e.id
                     /\ \A j \in i + 1 .. n + 1 : stored'[j].id # e.id}
  BY <1>1 DEF Lasts
<1> HIDE DEF n
<1>3. ASSUME NEW i \in 1 .. n + 1, i # n + 1
      PROVE  n + 1 \in i + 1 .. n + 1
  BY <1>1, <1>3
<1>4. n + 1 \in 1 .. n + 1
  BY <1>1
<1>5. ASSUME NEW j \in n + 1 + 1 .. n + 1
      PROVE  FALSE
  BY <1>1, <1>5
<1>6. n + 1 \in Lasts(e)'
  BY <1>1, <1>2, <1>4, <1>5
<1>7. ASSUME NEW i \in Lasts(e)'
      PROVE  i = n + 1
  BY <1>1, <1>2, <1>3
<1>8. Lasts(e)' = {n + 1}
  BY <1>6, <1>7
<1>9. QED
  BY <1>8 DEF n

(* That of another element is the same as before. *)
LEMMA LastsKept ==
  ASSUME CursorInv, InsertItem, NEW e, e.id # ElemAt.id
  PROVE  Lasts(e)' = Lasts(e)
<1> DEFINE n == Len(stored)
<1>1. /\ n \in Nat /\ Len(stored') = n + 1 /\ stored'[n + 1].id # e.id
      /\ \A i \in 1 .. n : stored'[i] = stored[i]
  BY Appended
<1>2. Lasts(e)' = {i \in 1 .. n + 1 :
                     /\ stored'[i].id = e.id
                     /\ \A j \in i + 1 .. n + 1 : stored'[j].id # e.id}
  BY <1>1 DEF Lasts
<1>3. Lasts(e) = {i \in 1 .. n :
                    /\ stored[i].id = e.id
                    /\ \A j \in i + 1 .. n : stored[j].id # e.id}
  BY DEF Lasts
<1> HIDE DEF n
<1>4. ASSUME NEW i \in 1 .. n
      PROVE  (\A j \in i + 1 .. n + 1 : stored'[j].id # e.id)
               <=> (\A j \in i + 1 .. n : stored[j].id # e.id)
  <2>1. /\ \A j \in i + 1 .. n : j \in i + 1 .. n + 1 /\ j \in 1 .. n
        /\ \A j \in i + 1 .. n + 1 : j = n + 1 \/ j \in i + 1 .. n
    BY <1>1
  <2>2. QED
    BY <1>1, <2>1
<1>5. /\ \A i \in 1 .. n : i \in 1 .. n + 1
      /\ \A i \in 1 .. n + 1 : i = n + 1 \/ i \in 1 .. n
  BY <1>1
<1>6. QED
  BY <1>1, <1>2, <1>3, <1>4, <1>5

-----------------------------------------------------------------------------
(***************************************************************************)
(* The datum a member was last set from.                                   *)
(***************************************************************************)

(* The last datum of the element just stored is the one stored. *)
LEMMA DatumIsNew ==
  ASSUME CursorInv, InsertItem, NEW e \in ActionElems, e = ElemAt
  PROVE  DatumOf(e)' = Datum
<1> DEFINE n == Len(stored)
<1>1. LastOf(e)' = n + 1
  BY LastIsNew, OneOfSingle DEF LastOf
<1>2. /\ stored'[n + 1].tuple = tuple /\ stored'[n + 1].item = item
      /\ msg' = msg
  BY Appended
<1>3. tuple_get_data(msg', stored'[n + 1].tuple, stored'[n + 1].item) = DataAt
  BY <1>2 DEF DataAt
<1> HIDE DEF n
<1>4. DatumOf(e)' =
        LET a == tuple_get_data(msg', stored'[n + 1].tuple, stored'[n + 1].item)
        IN [k \in 0 .. CellsOf(e) - 1 |-> Half(msg', a + 2 * k)]
  BY <1>1 DEF DatumOf
<1>5. QED
  BY <1>2, <1>3, <1>4 DEF Datum

(* The last datum of every other element stays. *)
LEMMA DatumKept ==
  ASSUME CursorInv, InsertItem, NEW e \in ActionElems, e.id # ElemAt.id,
         Lasts(e) # {}
  PROVE  DatumOf(e)' = DatumOf(e)
<1> DEFINE i == LastOf(e)
<1>1. LastOf(e)' = i
  BY LastsKept DEF LastOf
<1>2. i \in 1 .. Len(stored)
  BY OneOfIn DEF LastOf, Lasts
<1>3. stored'[i] = stored[i] /\ msg' = msg
  BY <1>2, Appended
<1> HIDE DEF i
<1>4. DatumOf(e)' =
        LET a == tuple_get_data(msg', stored'[i].tuple, stored'[i].item)
        IN [k \in 0 .. CellsOf(e) - 1 |-> Half(msg', a + 2 * k)]
  BY <1>1 DEF DatumOf
<1>5. DatumOf(e) =
        LET a == tuple_get_data(msg, stored[i].tuple, stored[i].item)
        IN [k \in 0 .. CellsOf(e) - 1 |-> Half(msg, a + 2 * k)]
  BY DEF DatumOf, i
<1>6. QED
  BY <1>3, <1>4, <1>5

-----------------------------------------------------------------------------
(***************************************************************************)
(* The inductive invariant.                                                *)
(***************************************************************************)

(* The two claims about the structure need to know where the walk is, that *)
(* a call starts with nothing stored, that a stored member has a last      *)
(* datum, and that storing a byte leaves the one above it alone.           *)
UpperBytesKept ==
  pc # "idle" =>
    \A e \in ActionElems : e.type \in ByteTypes =>
      \A i \in MemberCells(e) : struct[i] \div 256 = before[i] \div 256

StructInv ==
  /\ CursorInv
  /\ pc = "idle" => stored = <<>>
  /\ UpperBytesKept
  /\ \A e \in ActionElems : e.id \in StoredIds => Lasts(e) # {}
  /\ StructHoldsMessage /\ MembersValid

(* A step that stores nothing and stays in its call. *)
LEMMA StructQuiet ==
  ASSUME StructInv, CursorInv', pc # "idle", pc' # "idle",
         UNCHANGED <<msg, struct, before, stored>>
  PROVE  StructInv'
<1>1. StoredIds' = StoredIds
  BY DEF StoredIds
<1>2. \A e \in ActionElems : Lasts(e)' = Lasts(e)
  BY DEF Lasts
<1>3. \A e \in ActionElems : LastOf(e)' = LastOf(e)
  BY <1>2 DEF LastOf
<1>4. \A e \in ActionElems : DatumOf(e)' = DatumOf(e)
  BY <1>3 DEF DatumOf
<1>5. \A e \in ActionElems : MemberValue(e)' = MemberValue(e)
  BY DEF MemberValue
<1>6. StructHoldsMessage'
  BY <1>1, <1>4 DEF StructInv, StructHoldsMessage
<1>7. MembersValid'
  BY <1>1, <1>5 DEF StructInv, MembersValid
<1>8. UpperBytesKept'
  BY DEF StructInv, UpperBytesKept
<1>9. QED
  BY <1>1, <1>2, <1>6, <1>7, <1>8 DEF StructInv

(* Nothing is stored when a call starts or its client is done. *)
LEMMA StructEmpty ==
  ASSUME CursorInv', stored' = <<>>, pc' # "idle" => struct' = before'
  PROVE  StructInv'
<1>1. StoredIds' = {}
  BY DEF StoredIds
<1>2. StructHoldsMessage'
  BY <1>1 DEF StructHoldsMessage
<1>3. MembersValid'
  BY <1>1 DEF MembersValid
<1>4. UpperBytesKept'
  BY DEF UpperBytesKept
<1>5. QED
  BY <1>1, <1>2, <1>3, <1>4 DEF StructInv

(* A call starts with the client's structure, untouched. *)
LEMMA StructClient ==
  ASSUME StructInv, CursorInv', Client
  PROVE  StructInv'
<1>1. CASE Collect
  BY <1>1, StructEmpty DEF Collect
<1>2. ASSUME NEW m \in Messages, NEW t \in Structs,
             NEW ss \in SrcSizes, NEW ds \in DestSizes,
             ipct_msg_unpack(m, t, ss, ds)
      PROVE  StructInv'
  BY <1>2, StructEmpty DEF ipct_msg_unpack, StructInv
<1>3. QED
  BY <1>1, <1>2 DEF Client

(* A store keeps the bytes above the byte-wide members. *)
LEMMA InsertKeepsBytes ==
  ASSUME StructInv, InsertItem
  PROVE  UpperBytesKept'
<1>1. CursorInv /\ before' = before /\ pc # "idle"
  BY Appended DEF StructInv
<1>2. ASSUME NEW e \in ActionElems, e.type \in ByteTypes, NEW i \in MemberCells(e)
      PROVE  struct'[i] \div 256 = struct[i] \div 256
  <2>1. CASE e = ElemAt
    <3>1. /\ struct[i] \in U16
          /\ struct'[i] = StoredCell(e, Datum, struct[i], i - (e.offset \div 2))
          /\ Datum[i - (e.offset \div 2)] \in U16
      BY <1>1, <2>1, InsertFacts, MemberFacts
    <3>2. QED
      BY <1>2, <3>1, ByteCell DEF StoredCell
  <2>2. CASE e # ElemAt
    BY <1>1, <2>2, OthersKept
  <2>3. QED
    BY <2>1, <2>2
<1>3. QED
  BY <1>1, <1>2 DEF StructInv, UpperBytesKept

(* What a store puts into a cell of its member is what it would have put   *)
(* there if the structure were still the client's.                         *)
LEMMA StoredOver ==
  ASSUME StructInv, InsertItem,
         NEW e \in ActionElems, NEW i \in MemberCells(e)
  PROVE  StoredCell(e, Datum, struct[i], i - (e.offset \div 2))
           = StoredCell(e, Datum, before[i], i - (e.offset \div 2))
<1>1. CASE e.type \notin ByteTypes
  BY <1>1 DEF StoredCell
<1>2. CASE e.type \in ByteTypes
  <2>1. pc # "idle"
    BY DEF InsertItem
  <2>2. struct[i] \div 256 = before[i] \div 256
    BY <1>2, <2>1 DEF StructInv, UpperBytesKept
  <2>3. QED
    BY <1>2, <2>2 DEF StoredCell
<1>3. QED
  BY <1>1, <1>2

(* The structure after a store. *)
LEMMA InsertHolds ==
  ASSUME StructInv, InsertItem
  PROVE  StructHoldsMessage'
<1>1. CursorInv /\ before' = before /\ pc = "item"
  BY Appended DEF StructInv
<1>2. StoredIds' = StoredIds \cup {ElemAt.id} /\ ElemAt \in ActionElems
  BY <1>1, StoredIdsGrow, InsertFacts
<1>3. ASSUME NEW e \in ActionElems, e.id \in StoredIds', NEW i \in MemberCells(e)
      PROVE  struct'[i] = StoredCell(e, DatumOf(e)', before[i],
                                     i - (e.offset \div 2))
  <2>1. CASE e = ElemAt
    <3>1. struct'[i] = StoredCell(e, Datum, struct[i], i - (e.offset \div 2))
      BY <1>1, <2>1, InsertFacts
    <3>2. DatumOf(e)' = Datum
      BY <1>1, <2>1, DatumIsNew
    <3>3. QED
      BY <2>1, <3>1, <3>2, StoredOver
  <2>2. CASE e # ElemAt
    <3>1. e.id # ElemAt.id
      BY <1>2, <2>2, MemberFacts
    <3>2. e.id \in StoredIds
      BY <1>2, <1>3, <3>1
    <3>3. Lasts(e) # {}
      BY <3>2 DEF StructInv
    <3>4. DatumOf(e)' = DatumOf(e)
      BY <1>1, <3>1, <3>3, DatumKept
    <3>5. struct'[i] = struct[i]
      BY <1>1, <2>2, OthersKept
    <3>6. struct[i] = StoredCell(e, DatumOf(e), before[i], i - (e.offset \div 2))
      BY <3>2 DEF StructInv, StructHoldsMessage
    <3>7. QED
      BY <3>4, <3>5, <3>6
  <2>3. QED
    BY <2>1, <2>2
<1>4. ASSUME NEW i \in DOMAIN struct', struct'[i] # before[i]
      PROVE  \E e \in ActionElems : e.id \in StoredIds' /\ i \in MemberCells(e)
  <2>1. /\ DOMAIN struct = 0 .. StructCells - 1
        /\ i \in 0 .. StructCells - 1
    BY <1>1, InsertFacts DEF Struct
  <2>2. CASE i \in MemberCells(ElemAt)
    BY <1>2, <2>2
  <2>3. CASE i \notin MemberCells(ElemAt)
    <3>1. struct[i] # before[i]
      BY <1>1, <1>4, <2>1, <2>3, InsertFacts
    <3>2. QED
      BY <1>1, <1>2, <2>1, <3>1 DEF StructInv, StructHoldsMessage
  <2>4. QED
    BY <2>2, <2>3
<1>5. QED
  BY <1>1, <1>3, <1>4 DEF StructHoldsMessage

(* What is stored passes its check, and stays readable as checked. *)
LEMMA InsertValid ==
  ASSUME StructInv, InsertItem
  PROVE  MembersValid'
<1>1. CursorInv
  BY DEF StructInv
<1>2. StoredIds' = StoredIds \cup {ElemAt.id} /\ ElemAt \in ActionElems
  BY <1>1, StoredIdsGrow, InsertFacts
<1>3. ASSUME NEW e \in ActionElems, e.id \in StoredIds'
      PROVE  /\ ValueOk(e, MemberValue(e)')
             /\ \A k \in 0 .. CellsOf(e) - 1 :
                  MemberValue(e)'[k] = StoredCell(e, MemberValue(e)', 0, k)
  <2> DEFINE first == e.offset \div 2
             v     == MemberValue(e)'
             old   == [k \in 0 .. CellsOf(e) - 1 |-> struct[first + k]]
  <2>1. v = [k \in 0 .. CellsOf(e) - 1 |->
               IF e.type \in ByteTypes THEN struct'[first + k] % 256
                                       ELSE struct'[first + k]]
    BY DEF MemberValue
  <2>2. CASE e = ElemAt
    <3>1. e \in Elem
      BY MemberFacts
    <3>2. ASSUME NEW k \in 0 .. CellsOf(e) - 1
          PROVE  /\ struct'[first + k] = StoredCell(e, Datum, old[k], k)
                 /\ Datum[k] \in U16 /\ old[k] \in U16
      <4> DEFINE i == first + k
      <4>1. i \in MemberCells(e) /\ i - first = k
        BY MemberFacts
      <4>2. old[k] = struct[i]
        OBVIOUS
      <4>3. i = first + k
        OBVIOUS
      <4> HIDE DEF i
      <4>4. Datum[k] \in U16
        BY <1>1, <2>2, InsertFacts
      <4>5. struct[i] \in U16
        BY <1>1, <2>2, <4>1, InsertFacts
      <4>6. struct'[i] = StoredCell(e, Datum, struct[i], i - first)
        BY <1>1, <2>2, <4>1, InsertFacts
      <4>7. QED
        BY <4>1, <4>2, <4>3, <4>4, <4>5, <4>6
    <3>3. ValueOk(e, Datum) /\ Datum = [k \in 0 .. CellsOf(e) - 1 |-> Datum[k]]
      BY <1>1, <2>2, InsertFacts
    <3> HIDE DEF v, old
    <3>4. v = [k \in 0 .. CellsOf(e) - 1 |-> v[k]]
      BY <2>1
    <3>5. \A k \in 0 .. CellsOf(e) - 1 :
            /\ Datum[k] \in U16 /\ old[k] \in U16
            /\ v[k] = IF e.type \in ByteTypes
                      THEN StoredCell(e, Datum, old[k], k) % 256
                      ELSE StoredCell(e, Datum, old[k], k)
      BY <2>1, <3>2
    <3>6. ASSUME NEW c, c = Datum
          PROVE  /\ ValueOk(e, v)
                 /\ \A k \in 0 .. CellsOf(e) - 1 : v[k] = StoredCell(e, v, 0, k)
      <4>1. ValueOk(e, c)
        BY <3>3, <3>6
      <4>2. StoredAs(e, c, v, old)
        BY <3>3, <3>4, <3>5, <3>6 DEF StoredAs
      <4>3. QED
        BY <3>1, <4>1, <4>2, ReadBack
    <3>7. QED
      BY <3>6 DEF v
  <2>3. CASE e # ElemAt
    <3>1. e.id \in StoredIds
      BY <1>2, <1>3, <2>3, MemberFacts
    <3>2. \A k \in 0 .. CellsOf(e) - 1 : struct'[first + k] = struct[first + k]
      BY <1>1, <2>3, OthersKept, MemberFacts
    <3>3. MemberValue(e)' = MemberValue(e)
      BY <3>2 DEF MemberValue
    <3>4. QED
      BY <3>1, <3>3 DEF StructInv, MembersValid
  <2>4. QED
    BY <2>2, <2>3
<1>4. QED
  BY <1>3 DEF MembersValid

(* A store keeps all of the invariant. *)
LEMMA StructInsert ==
  ASSUME StructInv, CursorInv', InsertItem
  PROVE  StructInv'
<1>1. CursorInv /\ pc' # "idle"
  BY Appended DEF StructInv
<1>2. ASSUME NEW e \in ActionElems, e.id \in StoredIds'
      PROVE  Lasts(e)' # {}
  <2>1. CASE e.id = ElemAt.id
    BY <1>1, <2>1, LastIsNew
  <2>2. CASE e.id # ElemAt.id
    <3>1. e.id \in StoredIds
      BY <1>1, <1>2, <2>2, StoredIdsGrow
    <3>2. Lasts(e)' = Lasts(e)
      BY <1>1, <2>2, LastsKept
    <3>3. QED
      BY <3>1, <3>2 DEF StructInv
  <2>3. QED
    BY <2>1, <2>2
<1>3. QED
  BY <1>1, <1>2, InsertHolds, InsertValid, InsertKeepsBytes DEF StructInv

(* Every step keeps the invariant. *)
LEMMA StructStep ==
  ASSUME StructInv, CursorInv', [Next]_vars
  PROVE  StructInv'
<1>1. CASE Client
  BY <1>1, StructClient
<1>2. CASE InsertItem
  BY <1>2, StructInsert
<1>3. CASE \/ RejectHeader \/ AcceptHeader \/ RejectTuple \/ Nest \/ TooDeep
           \/ Leave \/ NoData \/ BeginTuple \/ IgnoreRest \/ RejectItem
  <2>1. /\ pc # "idle" /\ pc' # "idle"
        /\ UNCHANGED <<msg, struct, before, stored>>
    BY <1>3 DEF RejectHeader, AcceptHeader, RejectTuple, Nest, TooDeep, Leave,
                NoData, BeginTuple, IgnoreRest, RejectItem, Return
  <2>2. QED
    BY <2>1, StructQuiet
<1>4. CASE UNCHANGED vars
  <2>1. UNCHANGED <<msg, struct, pc, before, stored>>
    BY <1>4 DEF vars
  <2>2. CASE pc = "idle"
    BY <2>1, <2>2, StructEmpty DEF StructInv
  <2>3. CASE pc # "idle"
    BY <2>1, <2>3, StructQuiet
  <2>4. QED
    BY <2>2, <2>3
<1>5. QED
  BY <1>1, <1>2, <1>3, <1>4 DEF Next, UnpackStep

-----------------------------------------------------------------------------
(* The structure is at every moment the client's with what the message     *)
(* stored, and only what the table allows.                                 *)
THEOREM StructInvariant == Spec => []StructInv
<1>1. Init => StructInv
  <2> SUFFICES ASSUME Init
               PROVE  StructInv
    OBVIOUS
  <2>1. CursorInv
    BY CursorInit
  <2>2. StoredIds = {} /\ stored = <<>> /\ pc = "idle"
    BY DEF Init, StoredIds
  <2>3. QED
    BY <2>1, <2>2
       DEF StructInv, StructHoldsMessage, MembersValid, UpperBytesKept
<1>2. CursorInv /\ StructInv /\ [Next]_vars => CursorInv' /\ StructInv'
  BY CursorStep, StructStep
<1>3. Init => CursorInv
  BY CursorInit
<1>4. QED
  BY <1>1, <1>2, <1>3, PTL DEF Spec

(* Whatever the message, and wherever a call fails, the client's structure *)
(* is the one it passed with the stored members set to what the last tuple *)
(* of their ID says and nothing else changed.                              *)
THEOREM HoldsMessage == Spec => []StructHoldsMessage
<1>1. StructInv => StructHoldsMessage
  BY DEF StructInv
<1>2. QED
  BY <1>1, StructInvariant, PTL

(* Whatever the message, no stored member ever has a value its table does  *)
(* not allow: the checks are made on the datum as it arrives, and what is  *)
(* read back out of the member passes them again.                          *)
THEOREM OnlyValidMembers == Spec => []MembersValid
<1>1. StructInv => MembersValid
  BY DEF StructInv
<1>2. QED
  BY <1>1, StructInvariant, PTL

=============================================================================
