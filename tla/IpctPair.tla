------------------------------ MODULE IpctPair ------------------------------
(***************************************************************************)
(* A structure on its way: one program packs it, another unpacks the       *)
(* message where it lies, as test_send_ipc_to_fw of example/test.c does.   *)
(*                                                                         *)
(* The two run the same library, each built with its own tables.  The      *)
(* sender is the packer of IpctPack; the receiver is an instance of the    *)
(* unpacker over the packer's memory: only the message goes from one to    *)
(* the other.                                                              *)
(***************************************************************************)
EXTENDS IpctPack, IpctCompatible

CONSTANTS
  ReceiverRegistry,  \* the receiver's tables
  Structs,           \* C structures to receive into: their 16-bit cells
  StructCells,       \* number of those
  IPCT_MAX_DEPTH

VARIABLES
  rx_pc, rx_ctx, struct, end, frames, item, rx_ret,
  before, stored                         \* the receiver's, as in IpctUnpack

packer   == <<pc, ctx, action, offset, current, cont, cont_tuple, tuples, ret,
              placed, top>>
unpacker == <<rx_pc, rx_ctx, struct, end, frames, item, rx_ret, before, stored>>
pair     == <<mem, packer, unpacker>>

(* The descriptor the receiver unpacks by. *)
Receiving == ReceiverRegistry[<<0, 0, 0>>]

U == INSTANCE IpctUnpack WITH
       Registry <- ReceiverRegistry, Messages <- Memory,
       SrcSizes <- 0 .. 2 * Cells, DestSizes <- {Receiving.size},
       msg <- mem, ctx <- rx_ctx, pc <- rx_pc, ret <- rx_ret

-----------------------------------------------------------------------------
NothingReceived ==
  /\ rx_pc = "idle" /\ rx_ctx = NULL /\ struct = NULL
  /\ end = 0 /\ frames = <<>> /\ item = 0 /\ rx_ret = 0
  /\ before = NULL /\ stored = <<>>

PairInit == Init /\ NothingReceived

(* The sending client packs its structure. *)
Send(id, src, src_size, dest_size) ==
  /\ ipct_msg_pack(id, src, src_size, dest_size)
  /\ UNCHANGED unpacker

Pack == PackStep /\ UNCHANGED unpacker

(* Mutant: the result of packing is not looked at. *)
HandOverAnyway ==
  /\ pc = "done"
  /\ \E target \in Structs :
       U!ipct_msg_unpack(mem, target, ret, Receiving.size)
  /\ UNCHANGED packer

(* The packed message, as long as ipct_msg_pack said, goes to the receiver.*)
HandOver ==
  /\ pc = "done" /\ ret >= 0
  /\ \E target \in Structs :
       U!ipct_msg_unpack(mem, target, ret, Receiving.size)
  /\ UNCHANGED packer

Unpack == U!UnpackStep /\ UNCHANGED packer

(* The packer has refused the structure, or the unpacker has returned.     *)
Over == (pc = "done" /\ ret < 0) \/ rx_pc = "done"

(* Both clients are done; the next message gets a buffer of its own.       *)
Finish ==
  /\ Over
  /\ Collect
  /\ rx_pc' = "idle" /\ rx_ctx' = NULL /\ struct' = NULL
  /\ end' = 0 /\ frames' = <<>> /\ item' = 0 /\ rx_ret' = 0
  /\ before' = NULL /\ stored' = <<>>

PairNext == \/ \E id \in Ids, src \in Sources, ss \in SrcSizes, ds \in DestSizes :
                 Send(id, src, ss, ds)
            \/ Pack \/ HandOver \/ Unpack
            \/ Finish

PairSpec == PairInit /\ [][PairNext]_pair

(* Both calls run in their clients' threads, and a sender that has packed  *)
(* a message sends it with its next call.                                  *)
PairFairSpec == PairSpec /\ WF_pair(Pack) /\ WF_pair(HandOver) /\ WF_pair(Unpack)

-----------------------------------------------------------------------------
(***************************************************************************)
(* Properties.                                                             *)
(***************************************************************************)
(* Every variable stays in its range; sender and receiver work one after   *)
(* the other.                                                              *)
PairTypeOK ==
  /\ TypeOK /\ U!TypeOK
  /\ rx_pc # "idle" => pc = "done" /\ ret >= 0

(* The reader finds its way by the sizes the tuples say of themselves, the *)
(* writer by its own offset and alignment: the reader's cursor is never    *)
(* anywhere but at a tuple the writer started or at the message's end.     *)
WalksWhatWasPacked ==
  \A i \in 1 .. Len(frames) :
    \/ frames[i].tuple = ret
    \/ \E j \in 1 .. Len(placed) : frames[i].tuple = placed[j].tuple

(* What the two clients see of a transfer.                                 *)
Sending == get_action_def(ctx.id)

Sent(id) == SentFrom(Sending, ctx.src, id)

Held(id) == HeldIn(Receiving, struct, id)

SentIds == IF pc = "idle" THEN {} ELSE MemberIds(Sending)

HeldIds == {stored[i].id : i \in 1 .. Len(stored)}

CommonIds == MemberIds(Sending) \cap MemberIds(Receiving)

(* A message is as long as its descriptor says and lies in its buffer, and *)
(* a buffer with a byte to spare is never refused: which tuples are made   *)
(* and grown, and the check at the end of each, come to nothing else.  Of  *)
(* a buffer exactly as long as the message it says nothing: pack.c's own   *)
(* words for its checks let that pass (PacksExactFit), its code does not.  *)
PacksWhatFits ==
  pc = "done" =>
    /\ ret >= 0 => ret = MessageLength(Sending) /\ ret <= ctx.dest_size
    /\ ctx.dest_size > MessageLength(Sending) => ret >= 0

Phase ==
  CASE pc = "idle"                    -> "idle"
    [] pc = "done" /\ ret < 0         -> "refused"
    [] rx_pc = "done" /\ rx_ret = 0   -> "accepted"
    [] rx_pc = "done" /\ rx_ret < 0   -> "refused"
    [] OTHER                          -> "sent"

T == INSTANCE IpctTransfer WITH
       Builds <- {get_action_def(id) : id \in Ids} \cup {Receiving},
       Values <- [0 .. 0 -> U16] \cup [0 .. 1 -> U16], Sizes <- DestSizes,
       Ids <- MemberIds, Allowed <- AllowedBy, Length <- MessageLength,
       phase <- Phase,
       sender <- IF pc = "idle" THEN NULL ELSE Sending,
       receiver <- IF pc = "idle" THEN NULL ELSE Receiving,
       size <- IF pc = "idle" THEN 0 ELSE ctx.dest_size,
       sent <- [id \in SentIds |-> Sent(id)],
       held <- [id \in HeldIds |-> Held(id)]

(* Between compatible tables the library is the transfer its two clients   *)
(* see: packing, the layout of the message, the walk over it and the       *)
(* storing of its data, put together, carry every common member to where   *)
(* the receiver has it, in the order of IDs, up to the first it does not   *)
(* allow - and refuse nothing else.                                        *)
Transfers == T!Spec

(* Every transfer comes to an end on both sides.                           *)
TransferEnds == pc = "lookup" ~> Over

-----------------------------------------------------------------------------
(* What the repository says of messages and the code does not do.          *)

(* abi/header.h: the elems structure is the "Header containing message     *)
(* size", in words: header and body are as long as the message returned.   *)
HeaderHasMessageSize ==
  rx_pc = "header" => HdrSize(mem) + ipct_get_size(mem) = ret

(* pack.c: "check: is tuple end (including it's payload) within buffer":   *)
(* a message as long as its buffer ends within it and is packed.           *)
PacksExactFit ==
  pc = "done" /\ ctx.dest_size >= MessageLength(Sending) => ret >= 0

(* Every member the two have in common is in the receiver's range.         *)
AllAllowed == \A id \in CommonIds : AllowedBy(Receiving, id, Sent(id))

(* builder.h: a tuple element "maps a C structure member to a tuple" and   *)
(* says "how to validate the value": members that are in the receiver's    *)
(* range arrive.                                                           *)
InRangeArrives ==
  rx_pc = "done" /\ AllAllowed =>
    rx_ret = 0 /\ \A id \in CommonIds : id \in HeldIds /\ Held(id) = Sent(id)

=============================================================================
