------------------------------ MODULE IpctPack ------------------------------
(***************************************************************************)
(* Packing: ipct_msg_pack of client.c and the whole of pack.c.  One client *)
(* calls the packer again and again; each call walks the elements of an    *)
(* action in ID order, turns each into a tuple of its own or appends it to *)
(* the array its predecessor started, and completes the header at the end. *)
(*                                                                         *)
(* A call is a sequence of steps, one per iteration of elem_pack's loop,   *)
(* because a call that fails leaves the buffer as its last step left it    *)
(* and the next call may be handed that same buffer.                       *)
(***************************************************************************)
EXTENDS IpctRegistry, Sequences, FiniteSets

CONSTANTS
  Ids,              \* the message IDs clients ask for
  Sources,          \* C structures: the cells found at a member's offset
  SrcSizes,         \* sizes of the structures, in bytes
  DestSizes,        \* sizes of the message buffers, in bytes
  Cells,            \* 16-bit cells of memory, buffer and what lies behind it
  InitialMailboxes, \* contents a message buffer may start with
  ReuseDest,        \* TRUE: every call packs into the same memory
  SizeLimit         \* 2^24: bound of the 24-bit field elems->size

Memory == [0 .. Cells - 1 -> U16]

-----------------------------------------------------------------------------
(* Elements are a whole number of 16-bit cells wide.                       *)
ASSUME EvenAssumption ==
  \A e \in AllElems : elem_get_data_size(e) % 2 = 0

ASSUME CallAssumption ==
  /\ Ids \subseteq Nat
  /\ SrcSizes \subseteq Nat
  /\ \A src \in Sources : \A e \in AllElems :
       \A k \in 0 .. (elem_get_data_size(e) \div 2) - 1 :
         src[e.offset][k] \in U16

(* The memory goes on behind the buffer, far enough for what is stored     *)
(* there before the packer looks at the buffer's size.                     *)
ASSUME MemoryAssumption ==
  /\ Cells \in Nat /\ Cells >= 10
  /\ DestSizes \subseteq Nat
  /\ \A size \in DestSizes : size + 8 <= 2 * Cells
  /\ InitialMailboxes \subseteq Memory

ASSUME LimitAssumption == SizeLimit \in Nat

-----------------------------------------------------------------------------
VARIABLES
  mem,        \* the memory at the message buffer
  pc,         \* where ipct_pack is: "idle", "lookup", "pack", "complete", "done"
  ctx,        \* struct ipct_msg_context: id, src and the two sizes
  action,     \* the descriptor of the action being packed
  offset,     \* ctx->dest.offset
  current,    \* the element elem_pack is at
  cont,       \* 1 when current continues the tuple before it, else 0
  cont_tuple, \* address of the tuple that may be continued
  tuples,     \* elem_pack's count of finished tuples
  ret,        \* what the call returned
  placed,     \* history: the elements stored by this call, with their tuple
  top         \* history: end of the highest byte stored by this call

vars == <<mem, pc, ctx, action, offset, current, cont, cont_tuple, tuples,
          ret, placed, top>>

-----------------------------------------------------------------------------
Lowest(S) == CHOOSE e \in S : \A f \in S : e.id <= f.id

LowestOrNull(S) == IF S = {} THEN NULL ELSE Lowest(S)

(* The mandatory element with the lowest ID; an optional element is taken  *)
(* only when it has exactly the ID the search arrived at.                  *)
get_first_elem(d) ==
  LET mandatory == {e \in d.mandatory : e.id < IPCT_TUPLE_MAX_ID}
      id        == IF mandatory = {} THEN IPCT_TUPLE_MAX_ID
                                     ELSE Lowest(mandatory).id
      optional  == {e \in d.optional : e.id = id}
  IN IF optional # {} THEN Lowest(optional) ELSE LowestOrNull(mandatory)

(* Mutant: the optional table is forgotten. *)
get_next_mandatory(d, cur) ==
  LowestOrNull({e \in d.mandatory :
                  e.id > cur.id /\ e.id < IPCT_TUPLE_MAX_ID})

get_next_elem(d, cur) ==
  LowestOrNull({e \in Elems(d) : e.id > cur.id /\ e.id < IPCT_TUPLE_MAX_ID})

(* Mutant: consecutive IDs are enough. *)
IsConsecutive(cur, next) ==
  /\ next # NULL
  /\ next.id = cur.id + 1

IsContinuous(cur, next) ==
  /\ next # NULL
  /\ next.id = cur.id + 1
  /\ ipct_get_type(next.type) = ipct_get_type(cur.type)

continuous_elems(d, cur) ==
  LET next == get_next_elem(d, cur)
  IN IF IsContinuous(cur, next) THEN next ELSE NULL

-----------------------------------------------------------------------------
(* Mutant: no alignment. *)
NoAlign(o) == o

(* elem_pack's "new tuples are packed on word offset". *)
Align(o) == o + (o % 4)

(* priv.h, for an address of the destination buffer. *)
is_ptr_valid(a) == a <= ctx.dest_size

(* Mutant: only the start of the data is checked. *)
StartFits(a, size) == a <= ctx.dest_size

(* The end check of both packing functions. *)
FitsBuffer(a, size) == a + size < ctx.dest_size

SizeOfCurrent == elem_get_data_size(current)

(* Mutant: the C structure's end is not checked. *)
ElemHasSize == SizeOfCurrent # 0

ElemInStruct == /\ SizeOfCurrent # 0
                /\ current.offset + SizeOfCurrent <= ctx.src_size

MaxOf(a, b) == IF a >= b THEN a ELSE b

(* The header word is the ID with the elems bit set. *)
init_header(m, id) ==
  LET high == (id \div 65536) % 65536
      flag == IF (high \div ElemsBit) % 2 = 1 THEN high ELSE high + ElemsBit
  IN Store(Store(m, 0, id), 2, flag)

-----------------------------------------------------------------------------
Init ==
  /\ pc = "idle"
  /\ mem \in InitialMailboxes
  /\ ctx = NULL /\ action = NULL /\ offset = 0 /\ current = NULL
  /\ cont = 0 /\ cont_tuple = 0 /\ tuples = 0 /\ ret = 0
  /\ placed = <<>> /\ top = 0

(* A client calls ipct_msg_pack, whose context starts at offset 0.         *)
ipct_msg_pack(id, src, src_size, dest_size) ==
  /\ pc = "idle"
  /\ pc' = "lookup"
  /\ ctx' = [id |-> id, src |-> src, src_size |-> src_size,
             dest_size |-> dest_size]
  /\ UNCHANGED <<mem, action, offset, current, cont, cont_tuple, tuples, ret,
                 placed, top>>

(* The client is done with the message: the next call gets the same memory *)
(* as it now is, or a buffer with one of the contents it may start with.   *)
Collect ==
  /\ pc = "done"
  /\ pc' = "idle"
  /\ IF ReuseDest THEN mem' = mem ELSE mem' \in InitialMailboxes
  /\ ctx' = NULL /\ action' = NULL /\ offset' = 0 /\ current' = NULL
  /\ cont' = 0 /\ cont_tuple' = 0 /\ tuples' = 0 /\ ret' = 0
  /\ placed' = <<>> /\ top' = 0

(* A step that makes the call return value. *)
Return(value) ==
  /\ pc' = "done"
  /\ ret' = value

(* The ID names no action, or the client's structure is too small for it.  *)
BadCall ==
  /\ pc = "lookup"
  /\ LET d == get_action_def(ctx.id)
     IN \/ d = NULL
        \/ d # NULL /\ ctx.src_size < d.size
  /\ Return(-EINVAL)
  /\ UNCHANGED <<mem, ctx, action, offset, current, cont, cont_tuple, tuples,
                 placed, top>>

(* init_header, then the first element; an action without one fails with   *)
(* the header already written.                                             *)
BeginPack ==
  /\ pc = "lookup"
  /\ action' = get_action_def(ctx.id)
  /\ action' # NULL /\ ctx.src_size >= action'.size
  /\ mem' = init_header(mem, ctx.id)
  /\ offset' = HdrSize(mem')
  /\ current' = get_first_elem(action')
  /\ top' = SizeofHdr
  /\ IF current' = NULL THEN Return(-EINVAL)
                        ELSE pc' = "pack" /\ UNCHANGED ret
  /\ UNCHANGED <<ctx, cont, cont_tuple, tuples, placed>>

(* Mutants: every element counts as a tuple; the walk does not stop.       *)
AdvanceCounting(o) ==
  LET next == get_next_elem(action, current)
  IN /\ offset' = o
     /\ current' = next
     /\ cont' = IF IsContinuous(current, next) THEN 1 ELSE 0
     /\ tuples' = tuples + 1
     /\ pc' = IF next = NULL THEN "complete" ELSE "pack"
     /\ UNCHANGED <<ctx, action, ret>>

AdvanceForever(o) ==
  LET next == get_next_elem(action, current)
  IN /\ offset' = o
     /\ current' = next
     /\ cont' = IF IsContinuous(current, next) THEN 1 ELSE 0
     /\ tuples' = IF cont' = 1 THEN tuples ELSE tuples + 1
     /\ UNCHANGED <<pc, ctx, action, ret>>

(* The end of an iteration: o is ctx->dest.offset after the element was    *)
(* stored.  A tuple is finished, and counted, when the element that follows*)
(* does not continue it.                                                   *)
Advance(o) ==
  LET next == get_next_elem(action, current)
  IN /\ offset' = o
     /\ current' = next
     /\ cont' = IF IsContinuous(current, next) THEN 1 ELSE 0
     /\ tuples' = IF cont' = 1 THEN tuples ELSE tuples + 1
     /\ pc' = IF next = NULL THEN "complete" ELSE "pack"
     /\ UNCHANGED <<ctx, action, ret>>

(* The element has no size or lies outside the C structure: the first      *)
(* checks of both packing functions.                                       *)
RejectElem ==
  /\ pc = "pack"
  /\ ~ ElemInStruct
  /\ offset' = IF cont = 1 THEN offset ELSE Align(offset)
  /\ Return(-EINVAL)
  /\ UNCHANGED <<mem, ctx, action, current, cont, cont_tuple, tuples, placed,
                 top>>

-----------------------------------------------------------------------------
(* ipc_pack_single: the element starts a tuple of its own, at t.           *)

SingleType    == ipct_get_type(current.type)
SingleStart   == Align(offset)
SingleData(m) == tuple_get_data(m, SingleStart, 0)

(* Mutant: the loop tries the element again. *)
RetrySingle ==
  /\ pc = "pack" /\ cont = 0 /\ ElemInStruct
  /\ \/ ~ is_ptr_valid(SingleStart)
     \/ is_ptr_valid(SingleStart) /\ ~ TupleInitOk(mem, SingleStart)
  /\ offset' = SingleStart
  /\ UNCHANGED <<mem, pc, ctx, action, current, cont, cont_tuple, tuples, ret,
                 placed, top>>

(* The tuple starts behind the buffer, or the buffer holds a reserved type *)
(* at its address.                                                         *)
RejectSingle ==
  /\ pc = "pack" /\ cont = 0 /\ ElemInStruct
  /\ \/ ~ is_ptr_valid(SingleStart)
     \/ is_ptr_valid(SingleStart) /\ ~ TupleInitOk(mem, SingleStart)
  /\ offset' = SingleStart
  /\ Return(-EINVAL)
  /\ UNCHANGED <<mem, ctx, action, current, cont, cont_tuple, tuples, placed,
                 top>>

(* What tuple_init leaves in the buffer. *)
InitSingle ==
  tuple_init(mem, SingleStart, SingleType, current.id, SizeOfCurrent)

(* tuple_init has run when the end of the tuple is checked.                *)
SingleOverflow ==
  /\ pc = "pack" /\ cont = 0 /\ ElemInStruct
  /\ is_ptr_valid(SingleStart) /\ TupleInitOk(mem, SingleStart)
  /\ mem' = InitSingle
  /\ ~ FitsBuffer(SingleData(mem'), SizeOfCurrent)
  /\ offset' = SingleStart
  /\ cont_tuple' = SingleStart
  /\ top' = MaxOf(top, SingleStart + TupleInitExtent(mem, SingleStart))
  /\ Return(-EINVAL)
  /\ UNCHANGED <<ctx, action, current, cont, tuples, placed>>

PackSingle ==
  /\ pc = "pack" /\ cont = 0 /\ ElemInStruct
  /\ is_ptr_valid(SingleStart) /\ TupleInitOk(mem, SingleStart)
  /\ LET data == SingleData(InitSingle)
     IN /\ FitsBuffer(data, SizeOfCurrent)
        /\ mem' = CopyIn(InitSingle, data, ctx.src[current.offset],
                         SizeOfCurrent)
        /\ top' = MaxOf(MaxOf(top, data + SizeOfCurrent),
                        SingleStart + TupleInitExtent(mem, SingleStart))
  /\ cont_tuple' = SingleStart
  /\ placed' = Append(placed, [id |-> current.id, tuple |-> SingleStart])
  /\ Advance(SingleStart + tuple_size(mem', SingleStart))

-----------------------------------------------------------------------------
(* ipc_pack_cont: the element is appended to the tuple before it, which    *)
(* tuple_inc_elems has already grown when the end of its data is checked.  *)

ContData   == offset + SizeIncrease(mem, cont_tuple)
GrownTuple == tuple_inc_elems(mem, cont_tuple)

(* tuple_inc_elems stores inside the four bytes of the tuple's own header, *)
(* and the moved datum of a micro tuple in the cell behind it.             *)
TopOfGrown == MaxOf(top, cont_tuple + 4 + SizeIncrease(mem, cont_tuple))

ContOverflow ==
  /\ pc = "pack" /\ cont = 1 /\ ElemInStruct
  /\ ~ (is_ptr_valid(ContData) /\ FitsBuffer(ContData, SizeOfCurrent))
  /\ mem' = GrownTuple
  /\ offset' = ContData
  /\ top' = TopOfGrown
  /\ Return(-EINVAL)
  /\ UNCHANGED <<ctx, action, current, cont, cont_tuple, tuples, placed>>

PackCont ==
  /\ pc = "pack" /\ cont = 1 /\ ElemInStruct
  /\ is_ptr_valid(ContData) /\ FitsBuffer(ContData, SizeOfCurrent)
  /\ mem' = CopyIn(GrownTuple, ContData, ctx.src[current.offset],
                   SizeOfCurrent)
  /\ top' = MaxOf(TopOfGrown, ContData + SizeOfCurrent)
  /\ placed' = Append(placed, [id |-> current.id, tuple |-> cont_tuple])
  /\ UNCHANGED cont_tuple
  /\ Advance(ContData + tuple_data_size(mem', cont_tuple))

-----------------------------------------------------------------------------
(* complete_header: the count and the body size in words, rounded down.    *)

SizeInWords == (offset - HdrSize(mem)) \div 4

(* Mutant: the first size the field cannot hold is let through. *)
TooBigLate == SizeInWords > SizeLimit

TooBig == SizeInWords >= SizeLimit

(* num_tuples is stored and remaining cleared before the size is checked.  *)
CountedHeader ==
  LET e == ElemsPtr(mem)
      m == Store(Store(mem, e, tuples), e + 2, tuples \div 65536)
  IN Store(m, e + 4, Half(mem, e + 4) - (Half(mem, e + 4) % 256))

SizedHeader ==
  LET e == ElemsPtr(mem)
  IN Store(Store(CountedHeader, e + 4, 256 * (SizeInWords % 256)),
           e + 6, SizeInWords \div 256)

complete_header ==
  /\ pc = "complete"
  /\ top' = MaxOf(top, ElemsPtr(mem) + SizeofElems)
  /\ IF TooBig
     THEN mem' = CountedHeader /\ Return(-EINVAL)
     ELSE mem' = SizedHeader   /\ Return(offset)
  /\ UNCHANGED <<ctx, action, offset, current, cont, cont_tuple, tuples,
                 placed>>

-----------------------------------------------------------------------------
(* The steps of the call itself, and of the client that makes it.          *)
PackStep == \/ BadCall \/ BeginPack \/ RejectElem
            \/ RejectSingle \/ SingleOverflow \/ PackSingle
            \/ ContOverflow \/ PackCont
            \/ complete_header

Client == \/ Collect
          \/ \E id \in Ids, src \in Sources, ss \in SrcSizes, ds \in DestSizes :
               ipct_msg_pack(id, src, ss, ds)

Next == Client \/ PackStep

Spec == Init /\ [][Next]_vars

(* The call runs in the client's thread: once made it goes on.  Nothing    *)
(* obliges a client to make another.                                       *)
FairSpec == Spec /\ WF_vars(PackStep)

-----------------------------------------------------------------------------
(***************************************************************************)
(* Properties.                                                             *)
(***************************************************************************)
Context == [id : Ids, src : Sources, src_size : SrcSizes,
            dest_size : DestSizes]

Placement == [id : U16, tuple : Nat]

(* Every variable stays in its range; in particular the walk is always at  *)
(* an element of the table the call was made for, and the tuple it may     *)
(* continue lies in memory.                                                *)
TypeOK ==
  /\ mem \in Memory
  /\ pc \in {"idle", "lookup", "pack", "complete", "done"}
  /\ ctx \in Context \cup {NULL} /\ (pc # "idle" => ctx \in Context)
  /\ offset \in Nat
  /\ action \in Desc \cup {NULL}
  /\ pc = "pack" => current # NULL
  /\ current # NULL => action # NULL /\ current \in Elems(action)
  /\ cont \in {0, 1}
  /\ cont_tuple \in Nat /\ cont_tuple + 8 <= 2 * Cells
  /\ tuples \in Nat
  /\ ret \in Int
  /\ placed \in Seq(Placement)
  /\ top \in Nat

(* A call has succeeded. *)
Packed == pc = "done" /\ ret >= 0

ElemOf(id) == CHOOSE e \in Elems(action) : e.id = id

PlacedIds == {placed[i].id : i \in 1 .. Len(placed)}

(* What the walk of a packed action has to go through: everything from its *)
(* first element on.                                                       *)
PackedElems == LET first == get_first_elem(action)
               IN {e \in Elems(action) : e = first \/
                     (e.id > first.id /\ e.id < IPCT_TUPLE_MAX_ID)}

(* The packer decides where a tuple starts and how far it reaches from     *)
(* what it finds in the buffer (tuple_init, tuple_size), yet whatever the  *)
(* buffer held before, every tuple it creates starts on a word of the      *)
(* message, as the packed, 4-aligned structures of abi/message.h require.  *)
TuplesWordAligned ==
  \A i \in 1 .. Len(placed) : placed[i].tuple % 4 = 0

(* The tuple an element is about to be appended to: tuple_inc_elems can    *)
(* grow it, and it lies, with its header, before the place the datum goes  *)
(* to - although tuple_init and tuple_size were computed from whatever the *)
(* buffer held.  This is why ipc_pack_cont need not fail on a tuple type.  *)
OpenTuple ==
  pc = "pack" /\ cont = 1 =>
    /\ TupleType(mem, cont_tuple) \in {STD, HD, STD_ARRAY, HD_ARRAY}
    /\ cont_tuple + 4 <= offset
    /\ cont_tuple % 4 = 0

(* The descriptor in use is one of the registry's, the write offset of a   *)
(* call under way is even, and a call starts with nothing placed.          *)
Registered == /\ action # NULL => Known(action)
              /\ pc = "pack" => offset % 2 = 0
              /\ pc \in {"idle", "lookup"} => cont = 0 /\ placed = <<>>

(* The inductive invariant of the alignment of tuples. *)
AlignInv == TypeOK /\ OpenTuple /\ Registered /\ TuplesWordAligned

(* elem_pack's walk in ID order: a message that is returned has every      *)
(* mandatory and optional element from the first one on, each exactly once *)
(* and in ascending order, however the two tables list them and however    *)
(* they were grouped into tuples.                                          *)
PacksEveryElemOnce ==
  /\ \A i, j \in 1 .. Len(placed) : i < j => placed[i].id < placed[j].id
  /\ Packed => PlacedIds = {e.id : e \in PackedElems}

(* Where the walk stands: everything below current is placed, everything   *)
(* from current on is not, and at the end everything is.                   *)
WalkInv ==
  /\ AlignInv
  /\ \A i, j \in 1 .. Len(placed) : i < j => placed[i].id < placed[j].id
  /\ pc = "pack" =>
       /\ get_first_elem(action) # NULL
       /\ current \in PackedElems
       /\ PlacedIds = {e.id : e \in {f \in PackedElems : f.id < current.id}}
  /\ pc = "complete" \/ Packed => PlacedIds = {e.id : e \in PackedElems}

(* What a reader finds through the ABI's own accessors: the tuple an       *)
(* element was put into has it among its items, at the index its ID says;  *)
(* that item is the member of the C structure; and the tuple is as long as *)
(* the elements put into it.  It relates the conversion of a single tuple  *)
(* into an array (tuple_inc_elems moves the first datum and counts) to the *)
(* offsets elem_pack keeps.                                                *)
MessageCarriesElems ==
  Packed =>
    \A i \in 1 .. Len(placed) :
      LET e     == ElemOf(placed[i].id)
          size  == elem_get_data_size(e)
          t     == placed[i].tuple
          index == e.id - TupleId(mem, t)
          mates == Cardinality({j \in 1 .. Len(placed) : placed[j].tuple = t})
      IN /\ index \in 0 .. tuple_data_count(mem, t) - 1
         /\ Holds(mem, tuple_get_data(mem, t, index), ctx.src[e.offset], size)
         /\ TupleType(mem, t) # HD =>
              tuple_size(mem, t) = SizeofStd + mates * size

(* The tuples of a message form a chain, each starting on the first word   *)
(* after its predecessor's own idea of its size; the header counts them    *)
(* and gives the words they take, and the last one ends where the returned *)
(* length says.                                                            *)
TuplesChain ==
  Packed =>
    LET n        == Len(placed)
        Start(i) == placed[i].tuple
        End(i)   == Start(i) + tuple_size(mem, Start(i))
    IN /\ Start(1) = HdrSize(mem)
       /\ \A i \in 1 .. n - 1 :
            Start(i + 1) \in {Start(i), Align(End(i))}
       /\ ret = End(n)
       /\ ipct_get_tuples(mem) = Cardinality({Start(i) : i \in 1 .. n})
       /\ ipct_get_size(mem) = 4 * ((ret - HdrSize(mem)) \div 4)

(* Two elements share a tuple exactly when their IDs follow each other and *)
(* they have the same tuple type: the grouping is maximal and never joins  *)
(* what a reader could not tell apart by index.                            *)
ArraysAreRuns ==
  \A i \in 1 .. Len(placed) - 1 :
    LET e == ElemOf(placed[i].id)
        f == ElemOf(placed[i + 1].id)
    IN (placed[i].tuple = placed[i + 1].tuple) <=>
         /\ f.id = e.id + 1
         /\ f.type \in HalfWordTypes <=> e.type \in HalfWordTypes

(* pack.c: "validate size as elems->size is 24 bits".  A message is never  *)
(* returned with a size its header field has cut short: the words between  *)
(* the end of the header and the returned length are below the limit of    *)
(* the field, and a reader gets all of them back from it - although where  *)
(* the tuples lie, and so how many words they take, follows from what the  *)
(* buffer held before the call.                                            *)
BodySizeCounted ==
  Packed =>
    LET words == (ret - HdrSize(mem)) \div 4
    IN words < SizeLimit /\ ipct_get_size(mem) = 4 * words

(* The check at the end of each element is enough for the whole message:   *)
(* a call that succeeds has stored nothing past the length it returns, and *)
(* that length is within the client's buffer.                              *)
SuccessStaysInBuffer ==
  Packed => top <= ret /\ ret <= ctx.dest_size

(* A call never returns a message for an ID no table lists, nor one packed *)
(* from a structure too small for an element it contains.                  *)
OnlyWholeStructs ==
  Packed =>
    /\ action # NULL
    /\ \A e \in PackedElems :
         e.offset + elem_get_data_size(e) <= ctx.src_size

(* Every call comes back, whatever the tables and the buffer hold: the     *)
(* loop of elem_pack runs out of elements or out of buffer.                *)
CallsReturn == pc \in {"lookup", "pack", "complete"} ~> pc = "done"

-----------------------------------------------------------------------------
(* What the repository says of the packer and the code does not do.        *)

(* pack.c: "get the first elem by lowest ID or NULL".                      *)
FirstElemIsLowest ==
  Packed => \A e \in Elems(action) :
              e.id < IPCT_TUPLE_MAX_ID => placed[1].id <= e.id

(* pack.c: "check: is tuple starting point within buffer ?" and "is tuple  *)
(* end (including it's payload) within buffer": no store passes the end of *)
(* the client's buffer.                                                    *)
StoresInBuffer == pc = "done" => top <= ctx.dest_size

(* abi/message.h: a standard array is one "of element size 4 bytes".       *)
StdArraysHoldWords ==
  Packed =>
    \A i \in 1 .. Len(placed) :
      TupleType(mem, placed[i].tuple) = STD_ARRAY =>
        elem_get_data_size(ElemOf(placed[i].id)) = 4

=============================================================================
