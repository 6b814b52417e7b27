----------------------------- MODULE IpctUnpack -----------------------------
(***************************************************************************)
(* Unpacking: ipct_msg_unpack of client.c and the whole of unpack.c.  One  *)
(* client after the other hands a message and a C structure to the         *)
(* unpacker; each call validates the header, walks the tuples - those      *)
(* inside a tuple array by recursion - and stores every datum it knows in  *)
(* the structure.                                                          *)
(*                                                                         *)
(* The recursion of tuple_for_each is a stack of frames, one for each      *)
(* invocation in progress; a step handles one tuple, or one item of one.   *)
(***************************************************************************)
EXTENDS IpctRegistry, IpctElem, Sequences, FiniteSets

CONSTANTS
  Messages,         \* what the memory at the message buffer may hold
  Cells,            \* 16-bit cells of it
  SrcSizes,         \* bytes of it that are the message buffer
  Structs,          \* C structures: their 16-bit cells
  StructCells,      \* number of those, room behind the structure included
  DestSizes,        \* sizes of the C structures, in bytes
  IPCT_MAX_DEPTH

Memory == [0 .. Cells - 1 -> U16]
Struct == [0 .. StructCells - 1 -> U16]

(* The memory holds the longest header, and goes on behind the end the     *)
(* header gives, far enough for the size of a tuple that starts before it  *)
(* to be read.  The code assumes tuples to lie on even bytes               *)
(* (_IPC_TO_TUPLE): arrays of items of variable size keep to that.         *)
ASSUME MessageAssumption ==
  /\ Cells \in Nat /\ Cells >= 10
  /\ Messages \subseteq Memory
  /\ \A m \in Messages : HdrSize(m) + ipct_get_size(m) + 12 <= 2 * Cells
  /\ \A m \in Messages : \A c \in HdrSize(m) \div 2 .. Cells - 4 :
       TupleType(m, 2 * c) \in {VAR_ARRAY, TUPLE_ARRAY} =>
         tuple_size(m, 2 * c) % 2 = 0
  /\ SrcSizes \subseteq Nat
  /\ \A size \in SrcSizes : size <= 2 * Cells

(* A member lies on an even byte, is a whole number of cells wide and,     *)
(* where the unpacker's check lets it be stored, inside the memory at the  *)
(* structure.                                                              *)
ASSUME StructAssumption ==
  /\ StructCells \in Nat
  /\ Structs \subseteq Struct
  /\ DestSizes \subseteq Nat
  /\ \A e \in AllElems :
       /\ e.offset % 2 = 0
       /\ elem_get_data_size(e) % 2 = 0
       /\ e.offset + elem_get_data_size(e) <= 2 * StructCells

ASSUME DepthAssumption == IPCT_MAX_DEPTH \in Nat

-----------------------------------------------------------------------------
VARIABLES
  msg,     \* the memory at the message buffer
  struct,  \* the memory at the C structure
  ctx,     \* struct ipct_msg_context: the sizes of the two
  pc,      \* "idle", "header", "tuples", "item" or "done"
  end,     \* end_of_message
  frames,  \* the invocations of tuple_for_each, outermost first
  item,    \* tuple_unpack's i
  ret,     \* what the call returned
  before,  \* history: the structure as the client passed it
  stored   \* history: the data stored by this call, oldest first

vars == <<msg, struct, ctx, pc, end, frames, item, ret, before, stored>>

(* ipct_msg_unpack leaves the ID of its context zero. *)
action_def == get_action_def(0)

ActionElems == IF action_def = NULL THEN {} ELSE Elems(action_def)

(* The cells of a member.  Members of one structure do not overlap. *)
MemberCells(e) == (e.offset \div 2) .. (e.offset \div 2) + CellsOf(e) - 1

ASSUME ApartAssumption ==
  \A e, f \in ActionElems : e # f => MemberCells(e) \cap MemberCells(f) = {}

-----------------------------------------------------------------------------
(* tuple_for_each: its cursor, and the two counts its loop runs on.        *)
Frame(t, remain, limit) ==
  [tuple |-> t, remaining_bytes |-> limit - t, tuples_remain |-> remain]

Current == frames[Len(frames)]
tuple   == Current.tuple

(* The loop has a tuple left. *)
More == Current.tuples_remain # 0 /\ Current.remaining_bytes # 0

(* Mutant: the end of the tuple is not checked. *)
StartsInMessage == tuple < end

(* The checks "does this tuple start / end in message".                    *)
TupleInMessage == /\ tuple < end
                  /\ tuple + tuple_size(msg, tuple) <= end

(* The tuple at the cursor of stack s is done: the cursor moves on.        *)
NextTuple(s) ==
  LET f    == s[Len(s)]
      size == tuple_size(msg, f.tuple)
  IN [s EXCEPT ![Len(s)] =
        [tuple           |-> ipc_next_tuple(msg, f.tuple),
         remaining_bytes |-> f.remaining_bytes - size,
         tuples_remain   |-> f.tuples_remain - 1]]

Return(value) ==
  /\ pc' = "done"
  /\ ret' = value

-----------------------------------------------------------------------------
Init ==
  /\ pc = "idle"
  /\ msg = NULL /\ struct = NULL /\ ctx = NULL
  /\ end = 0 /\ frames = <<>> /\ item = 0 /\ ret = 0
  /\ before = NULL /\ stored = <<>>

(* A client calls ipct_msg_unpack with a message and a structure.          *)
ipct_msg_unpack(m, s, src_size, dest_size) ==
  /\ pc = "idle"
  /\ pc' = "header"
  /\ msg' = m /\ struct' = s /\ before' = s
  /\ ctx' = [src_size |-> src_size, dest_size |-> dest_size]
  /\ UNCHANGED <<end, frames, item, ret, stored>>

(* The client is done with the structure. *)
Collect ==
  /\ pc = "done"
  /\ pc' = "idle"
  /\ msg' = NULL /\ struct' = NULL /\ ctx' = NULL
  /\ end' = 0 /\ frames' = <<>> /\ item' = 0 /\ ret' = 0
  /\ before' = NULL /\ stored' = <<>>

-----------------------------------------------------------------------------
(* The header's checks.  The last compares the size of the body with that  *)
(* of a tuple read at the elems structure of the header itself.            *)
TooSmall == ipct_get_size(msg) < tuple_size(msg, ElemsPtr(msg))

HeaderOk ==
  /\ action_def # NULL
  /\ HasElems(msg)
  /\ ipct_get_tuples(msg) # 0
  /\ ipct_get_size(msg) # 0
  /\ ~ TooSmall

RejectHeader ==
  /\ pc = "header"
  /\ ~ HeaderOk
  /\ Return(-EINVAL)
  /\ UNCHANGED <<msg, struct, ctx, end, frames, item, before, stored>>

AcceptHeader ==
  /\ pc = "header"
  /\ HeaderOk
  /\ pc' = "tuples"
  /\ end' = HdrSize(msg) + ipct_get_size(msg)
  /\ frames' = <<Frame(HdrSize(msg), ipct_get_tuples(msg), end')>>
  /\ UNCHANGED <<msg, struct, ctx, item, ret, before, stored>>

-----------------------------------------------------------------------------
(* One iteration of tuple_for_each's loop.                                 *)

RejectTuple ==
  /\ pc = "tuples" /\ More
  /\ ~ TupleInMessage
  /\ Return(-EINVAL)
  /\ UNCHANGED <<msg, struct, ctx, end, frames, item, before, stored>>

(* Mutant: nothing limits the recursion. *)
NestUnlimited ==
  /\ pc = "tuples" /\ More /\ TupleInMessage
  /\ TupleType(msg, tuple) = TUPLE_ARRAY
  /\ frames' = Append(frames, Frame(tuple_get_data(msg, tuple, 0),
                                    tuple_data_count(msg, tuple), end))
  /\ UNCHANGED <<msg, struct, ctx, pc, end, item, ret, before, stored>>

(* A tuple array's data are tuples: the function calls itself, and the     *)
(* invocation fails at once when it is too deep.                           *)
Nest ==
  /\ pc = "tuples" /\ More /\ TupleInMessage
  /\ TupleType(msg, tuple) = TUPLE_ARRAY
  /\ Len(frames) <= IPCT_MAX_DEPTH
  /\ frames' = Append(frames, Frame(tuple_get_data(msg, tuple, 0),
                                    tuple_data_count(msg, tuple), end))
  /\ UNCHANGED <<msg, struct, ctx, pc, end, item, ret, before, stored>>

TooDeep ==
  /\ pc = "tuples" /\ More /\ TupleInMessage
  /\ TupleType(msg, tuple) = TUPLE_ARRAY
  /\ Len(frames) > IPCT_MAX_DEPTH
  /\ Return(-EINVAL)
  /\ UNCHANGED <<msg, struct, ctx, end, frames, item, before, stored>>

(* Mutant: the array that held the nested tuples is walked again. *)
LeaveWithoutNext ==
  /\ pc = "tuples" /\ ~ More
  /\ IF Len(frames) = 1
     THEN Return(0) /\ UNCHANGED frames
     ELSE /\ frames' = SubSeq(frames, 1, Len(frames) - 1)
          /\ UNCHANGED <<pc, ret>>
  /\ UNCHANGED <<msg, struct, ctx, end, item, before, stored>>

(* The loop ends: the call returns, or the invocation around this one goes *)
(* on behind its tuple array.                                              *)
Leave ==
  /\ pc = "tuples" /\ ~ More
  /\ IF Len(frames) = 1
     THEN Return(0) /\ UNCHANGED frames
     ELSE /\ frames' = NextTuple(SubSeq(frames, 1, Len(frames) - 1))
          /\ UNCHANGED <<pc, ret>>
  /\ UNCHANGED <<msg, struct, ctx, end, item, before, stored>>

(* tuple_unpack: a tuple without items, or with items of no size.          *)
HasData == tuple_data_count(msg, tuple) # 0 /\ tuple_data_size(msg, tuple) # 0

NoData ==
  /\ pc = "tuples" /\ More /\ TupleInMessage
  /\ TupleType(msg, tuple) # TUPLE_ARRAY
  /\ ~ HasData
  /\ Return(-EINVAL)
  /\ UNCHANGED <<msg, struct, ctx, end, frames, item, before, stored>>

BeginTuple ==
  /\ pc = "tuples" /\ More /\ TupleInMessage
  /\ TupleType(msg, tuple) # TUPLE_ARRAY
  /\ HasData
  /\ pc' = "item"
  /\ item' = 0
  /\ UNCHANGED <<msg, struct, ctx, end, frames, ret, before, stored>>

-----------------------------------------------------------------------------
(* One iteration of tuple_unpack's loop: item number item of the tuple.    *)

ElemAt == get_tuple_elem(action_def, msg, tuple, item)

DataAt == tuple_get_data(msg, tuple, item)

(* Mutant: the data of an array are all taken from its first item. *)
FirstDatum ==
  [k \in 0 .. CellsOf(ElemAt) - 1 |->
     Half(msg, tuple_get_data(msg, tuple, 0) + 2 * k)]

(* The cells of the item. *)
Datum == [k \in 0 .. CellsOf(ElemAt) - 1 |-> Half(msg, DataAt + 2 * k)]

(* The checks of elem_insert_data before the switch: "tuple data wont      *)
(* overflow target" looks at the size of the message buffer.               *)
Insertable ==
  LET size == tuple_data_size(msg, tuple)
  IN /\ size + ElemAt.offset <= ctx.src_size
     /\ size = elem_get_data_size(ElemAt)
     /\ DataAt + size <= ctx.src_size

(* Mutant: the value is not checked. *)
InsertAnyValue == ElemAt # NULL /\ Insertable

CanInsert == ElemAt # NULL /\ Insertable /\ ValueOk(ElemAt, Datum)

(* Mutant: the tuple is tried again. *)
IgnoreAndStay ==
  /\ pc = "item"
  /\ ElemAt = NULL
  /\ pc' = "tuples"
  /\ UNCHANGED <<msg, struct, ctx, end, frames, item, ret, before, stored>>

(* The rest of a tuple is ignored from its first unknown item on.          *)
IgnoreRest ==
  /\ pc = "item"
  /\ ElemAt = NULL
  /\ pc' = "tuples"
  /\ frames' = NextTuple(frames)
  /\ UNCHANGED <<msg, struct, ctx, end, item, ret, before, stored>>

RejectItem ==
  /\ pc = "item"
  /\ ElemAt # NULL /\ ~ CanInsert
  /\ Return(-EINVAL)
  /\ UNCHANGED <<msg, struct, ctx, end, frames, item, before, stored>>

(* What the structure becomes. *)
Inserted ==
  LET first == ElemAt.offset \div 2
      cells == first .. first + CellsOf(ElemAt) - 1
  IN [i \in DOMAIN struct |->
        IF i \in cells THEN StoredCell(ElemAt, Datum, struct[i], i - first)
                       ELSE struct[i]]

(* Mutants: the loop over the items goes one too far, or not far enough.   *)
InsertItemAndOneMore ==
  /\ pc = "item" /\ CanInsert
  /\ struct' = Inserted
  /\ stored' = Append(stored, [id |-> ElemAt.id, tuple |-> tuple, item |-> item])
  /\ item' = item + 1
  /\ IF item' <= tuple_data_count(msg, tuple)
     THEN UNCHANGED <<pc, frames>>
     ELSE pc' = "tuples" /\ frames' = NextTuple(frames)
  /\ UNCHANGED <<msg, ctx, end, ret, before>>

InsertItemButLast ==
  /\ pc = "item" /\ CanInsert
  /\ struct' = Inserted
  /\ stored' = Append(stored, [id |-> ElemAt.id, tuple |-> tuple, item |-> item])
  /\ item' = item + 1
  /\ IF item' < tuple_data_count(msg, tuple) - 1
     THEN UNCHANGED <<pc, frames>>
     ELSE pc' = "tuples" /\ frames' = NextTuple(frames)
  /\ UNCHANGED <<msg, ctx, end, ret, before>>

InsertItem ==
  /\ pc = "item" /\ CanInsert
  /\ struct' = Inserted
  /\ stored' = Append(stored, [id |-> ElemAt.id, tuple |-> tuple, item |-> item])
  /\ item' = item + 1
  /\ IF item' < tuple_data_count(msg, tuple)
     THEN UNCHANGED <<pc, frames>>
     ELSE pc' = "tuples" /\ frames' = NextTuple(frames)
  /\ UNCHANGED <<msg, ctx, end, ret, before>>

-----------------------------------------------------------------------------
UnpackStep == \/ RejectHeader \/ AcceptHeader
              \/ RejectTuple \/ Nest \/ TooDeep \/ Leave
              \/ NoData \/ BeginTuple
              \/ IgnoreRest \/ RejectItem \/ InsertItem

Client == \/ Collect
          \/ \E m \in Messages, s \in Structs, ss \in SrcSizes, ds \in DestSizes :
               ipct_msg_unpack(m, s, ss, ds)

Next == Client \/ UnpackStep

Spec == Init /\ [][Next]_vars

(* The call runs in the client's thread: once made it goes on.             *)
FairSpec == Spec /\ WF_vars(UnpackStep)

-----------------------------------------------------------------------------
(***************************************************************************)
(* Properties.                                                             *)
(***************************************************************************)
FrameType == [tuple : Nat, remaining_bytes : Int, tuples_remain : Nat]

Context == [src_size : SrcSizes, dest_size : DestSizes]

(* Every variable stays in its range; an item is one of its tuple.         *)
TypeOK ==
  /\ pc # "idle" => msg \in Messages /\ struct \in Struct /\ before \in Struct
  /\ pc \in {"idle", "header", "tuples", "item", "done"}
  /\ ctx \in Context \cup {NULL} /\ (pc # "idle" => ctx \in Context)
  /\ end \in Nat /\ ret \in {0, -EINVAL}
  /\ frames \in Seq(FrameType)
  /\ pc \in {"tuples", "item"} => frames # <<>> /\ action_def # NULL
  /\ item \in Nat
  /\ pc = "item" => item < tuple_data_count(msg, tuple)
  /\ stored \in Seq([id : Nat, tuple : Nat, item : Nat])

(* In every invocation of tuple_for_each, also those waiting for a nested  *)
(* one, the cursor is within the message and remaining_bytes - a signed    *)
(* count the loop subtracts from, tested only for zero - is exactly the    *)
(* distance to the message's end: it cannot jump over zero and keep the    *)
(* loop going.                                                             *)
CursorsInMessage ==
  \A i \in 1 .. Len(frames) :
    /\ frames[i].tuple <= end
    /\ frames[i].remaining_bytes = end - frames[i].tuple

(* Recursion is bounded whatever the message holds, and each invocation    *)
(* works behind the header of the array it was called for: nested tuples   *)
(* never take the walk back.                                               *)
NestingDescends ==
  /\ Len(frames) <= IPCT_MAX_DEPTH + 1
  /\ \A i \in 1 .. Len(frames) - 1 :
       /\ TupleType(msg, frames[i].tuple) = TUPLE_ARRAY
       /\ frames[i + 1].tuple >= frames[i].tuple + VarData

(* The tuple at the cursor of frame f is being unpacked: the loop had one  *)
(* left and its size was checked.                                          *)
Entered(f) ==
  /\ f.tuples_remain # 0
  /\ f.tuple + tuple_size(msg, f.tuple) <= end

(* The inductive invariant of the two: every invocation but the innermost  *)
(* is inside a tuple it has checked, and so is the innermost while         *)
(* tuple_unpack runs.                                                      *)
CursorInv ==
  /\ TypeOK /\ CursorsInMessage /\ NestingDescends
  /\ pc \in {"idle", "header"} => frames = <<>>
  /\ pc \in {"tuples", "item"} => end + 12 <= 2 * Cells
  /\ \A i \in 1 .. Len(frames) - 1 : Entered(frames[i])
  /\ pc = "item" => Entered(Current)

StoredIds == {stored[i].id : i \in 1 .. Len(stored)}

(* The last datum stored for element e, and its cells in the message.      *)
Lasts(e) == {i \in 1 .. Len(stored) :
               /\ stored[i].id = e.id
               /\ \A j \in i + 1 .. Len(stored) : stored[j].id # e.id}

OneOf(S) == CHOOSE x \in S : TRUE

LastOf(e) == OneOf(Lasts(e))

DatumOf(e) ==
  LET s == stored[LastOf(e)]
      a == tuple_get_data(msg, s.tuple, s.item)
  IN [k \in 0 .. CellsOf(e) - 1 |-> Half(msg, a + 2 * k)]

(* At every moment, and in particular when a call fails half way, the      *)
(* client's structure is the one it passed with the members whose tuples   *)
(* were met set to what the message says - the last tuple of an ID         *)
(* winning - and with nothing else changed.                                *)
StructHoldsMessage ==
  /\ \A e \in ActionElems : e.id \in StoredIds =>
       \A i \in MemberCells(e) :
         struct[i] = StoredCell(e, DatumOf(e), before[i], i - (e.offset \div 2))
  /\ pc # "idle" => \A i \in DOMAIN struct :
       struct[i] # before[i] =>
         \E e \in ActionElems : e.id \in StoredIds /\ i \in MemberCells(e)

(* A member as its client reads it: of a byte only the low half of a cell. *)
MemberValue(e) ==
  [k \in 0 .. CellsOf(e) - 1 |->
     LET cell == struct[(e.offset \div 2) + k]
     IN IF e.type \in ByteTypes THEN cell % 256 ELSE cell]

(* What the client reads back out of a member is a value its table allows, *)
(* whatever the message carried: no out-of-range number, no bit outside a  *)
(* mask, no byte behind a block's length.                                  *)
MembersValid ==
  \A e \in ActionElems : e.id \in StoredIds =>
    /\ ValueOk(e, MemberValue(e))
    /\ \A k \in 0 .. CellsOf(e) - 1 :
         MemberValue(e)[k] = StoredCell(e, MemberValue(e), 0, k)

(* The tuples of the message itself, as the header's count, its size and   *)
(* the tuples' own sizes give them.                                        *)
Unpacked == pc = "done" /\ ret = 0

TupleAfter(m, last, t) == IF t >= last THEN last ELSE ipc_next_tuple(m, t)

TupleStarts(m, last) ==
  LET Start[i \in 1 .. ipct_get_tuples(m)] ==
        IF i = 1 THEN HdrSize(m) ELSE TupleAfter(m, last, Start[i - 1])
  IN Start

TopTuples ==
  LET Start == TupleStarts(msg, end)
  IN {t \in {Start[i] : i \in 1 .. ipct_get_tuples(msg)} : t < end}

(* A call that succeeds has stored every datum it could: each item of each *)
(* tuple of the message, up to the first item its action does not know.    *)
(* None is skipped by the way the loops count items, tuples and bytes.     *)
KnownItemsStored ==
  Unpacked =>
    \A t \in TopTuples : TupleType(msg, t) # TUPLE_ARRAY =>
      \A i \in 0 .. tuple_data_count(msg, t) - 1 :
        (\A j \in 0 .. i : get_tuple_elem(action_def, msg, t, j) # NULL) =>
          \E k \in 1 .. Len(stored) : stored[k].tuple = t /\ stored[k].item = i

(* Every call comes back, whatever the message says of counts and sizes.   *)
UnpackReturns == pc \in {"header", "tuples", "item"} ~> pc = "done"

-----------------------------------------------------------------------------
(* What the repository says of the unpacker and the code does not do.      *)

(* unpack.c: "check that tuple data wont overflow target".                 *)
DataFitsTarget ==
  \A e \in ActionElems : e.id \in StoredIds =>
    e.offset + elem_get_data_size(e) <= ctx.dest_size

(* unpack.c: "validate against minimum size": a header is not turned down  *)
(* for its size when the body has room for the first tuple.                *)
RoomForFirstTuple ==
  pc = "header" /\ HasElems(msg) /\ TooSmall =>
    ipct_get_size(msg) < tuple_size(msg, HdrSize(msg))

(* builder.h: an action has "mandatory tuple IDs required by the action to *)
(* be properly constructed".                                               *)
MandatoryPresent ==
  Unpacked => \A e \in action_def.mandatory : e.id \in StoredIds

(* unpack.c: "validate ID - is it supported ?", of the message whose       *)
(* header "identifies IPC message" (abi/header.h).                         *)
UnpacksOwnAction ==
  Unpacked => get_action_def(HdrId(msg)) # NULL

=============================================================================
