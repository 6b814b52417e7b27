----------------------------- MODULE IpctStream -----------------------------
(***************************************************************************)
(* The example: a host sets a stream's parameters, starts it, asks for its *)
(* position and stops it (sw_run_stream_tests), each time with a message   *)
(* packed into its one mailbox and handed to the firmware, which unpacks   *)
(* it and calls its handler (test_send_ipc_to_fw).  All of it is one       *)
(* thread, and every call returns before the host's next request.          *)
(*                                                                         *)
(* The host's packer and the firmware's unpacker are instances of their    *)
(* modules over the mailbox.  Two static libraries define builder_klasses, *)
(* one for each side; the program as it is built has the firmware's for    *)
(* both (OneProgram).  FALSE is for comparison: each side with the tables  *)
(* that were written for it.                                               *)
(***************************************************************************)
EXTENDS IpctStreamTables, IpctCompatible, Sequences

CONSTANTS
  OneProgram,   \* TRUE: both sides use the tables the linker found first
  Leftovers,    \* what the stack may hold where unpacked_data lies: its cells
  IPCT_MAX_DEPTH,
  NULL

VARIABLES
  at,                                    \* the request the host is at
  mem,                                   \* its mailbox
  pc, ctx, action, offset, current, cont, cont_tuple, tuples, ret,
  placed, top,                           \* the host's packer
  rx_pc, rx_ctx, struct, end, frames, item, rx_ret,
  before, stored,                        \* the firmware's unpacker
  told,                                  \* what the firmware's handler read
                                         \* last, and of which request
  sent                                   \* history: requests handed over

packer   == <<pc, ctx, action, offset, current, cont, cont_tuple, tuples, ret,
              placed, top>>
unpacker == <<rx_pc, rx_ctx, struct, end, frames, item, rx_ret, before, stored>>
vars     == <<at, mem, packer, unpacker, told, sent>>

-----------------------------------------------------------------------------
MAILBOX_SIZE     == 1024
IPC_MAX_MSG_SIZE == 1024

Cells == 516

(* test_send_ipc_to_fw's unpacked_data is as long as a message may be.     *)
ASSUME StreamAssumption ==
  /\ OneProgram \in BOOLEAN
  /\ Leftovers \subseteq [0 .. (IPC_MAX_MSG_SIZE \div 2) - 1 -> U16]
  /\ IPCT_MAX_DEPTH \in Nat

(* What no lookup finds is neither an element nor a descriptor.            *)
ASSUME NullAssumption == NULL \notin Elem /\ NULL \notin Desc

(* sw_run_stream_tests: its requests in order. *)
Requests == <<"params", "start", "position", "stop">>

Over == at > Len(Requests)

Request == Requests[at]

(* The position's ID is the number of its action alone. *)
RequestId(r) ==
  CASE r = "params"           -> STREAM_ACTION(STREAM_ACTION_PARAMS)
    [] r \in {"start", "stop"} -> STREAM_ACTION(STREAM_ACTION_TRIGGER)
    [] r = "position"         -> STREAM_ACTION_POSITION

(* sw_stream_params clears the structure and sets these members.           *)
params ==
  [rate |-> 44100, channels |-> 2, host_period_bytes |-> 256, stream_tag |-> 7,
   direction |-> 1, frame_fmt |-> 2, sample_container_bytes |-> 4,
   sample_valid_bytes |-> 4, id |-> 20]

trigger(r) ==
  [id |-> 20, trigger_cmd |-> IF r = "start" THEN stream_trigger_start
                                             ELSE stream_trigger_stop]

(* A cleared C structure with the values v where layout has the members,   *)
(* as the packer reads it: cell k at offset o.                             *)
Laid(v, layout) ==
  LET Cell(c) == IF \E m \in DOMAIN v : layout[m] = 2 * c
                 THEN v[CHOOSE m \in DOMAIN v : layout[m] = 2 * c] ELSE 0
  IN [o \in {2 * c : c \in 0 .. 19} |->
        [k \in 0 .. 1 |-> Cell((o \div 2) + k)]]

Structure(r) ==
  CASE r = "params"            -> Laid(params, alsa_hw_params)
    [] r \in {"start", "stop"} -> Laid(trigger(r), alsa_stream_trigger)
    [] r = "position"          -> Laid([id |-> 20], [id |-> 0])

StructureSize(r) ==
  CASE r = "params"            -> SizeofAlsaHwParams
    [] r \in {"start", "stop"} -> SizeofTrigger
    [] r = "position"          -> 4

RequestNames == {Requests[i] : i \in DOMAIN Requests}

(* fw-stream comes before sw-stream on the linker's command line.          *)
HostTables == IF OneProgram THEN FirmwareRegistry ELSE HostRegistry

P == INSTANCE IpctPack WITH
       Registry <- HostTables, Ids <- {RequestId(r) : r \in RequestNames},
       Sources <- {Structure(r) : r \in RequestNames},
       SrcSizes <- {StructureSize(r) : r \in RequestNames},
       DestSizes <- {MAILBOX_SIZE},
       InitialMailboxes <- {[c \in 0 .. Cells - 1 |-> 0]},
       ReuseDest <- TRUE, SizeLimit <- 16777216

U == INSTANCE IpctUnpack WITH
       Registry <- FirmwareRegistry, Messages <- [0 .. Cells - 1 -> U16],
       SrcSizes <- 0 .. MAILBOX_SIZE, Structs <- Leftovers,
       StructCells <- IPC_MAX_MSG_SIZE \div 2, DestSizes <- {IPC_MAX_MSG_SIZE},
       msg <- mem, ctx <- rx_ctx, pc <- rx_pc, ret <- rx_ret

-----------------------------------------------------------------------------
UnpackerIdle ==
  /\ rx_pc = "idle" /\ rx_ctx = NULL /\ struct = NULL
  /\ end = 0 /\ frames = <<>> /\ item = 0 /\ rx_ret = 0
  /\ before = NULL /\ stored = <<>>

Init ==
  /\ at = 1
  /\ P!Init
  /\ UnpackerIdle
  /\ told = NULL /\ sent = <<>>

(* sw_stream_params, sw_stream_trigger and sw_stream_position, up to their *)
(* call of ipct_msg_pack.                                                  *)
MakeRequest ==
  /\ ~ Over
  /\ P!ipct_msg_pack(RequestId(Request), Structure(Request),
                     StructureSize(Request), MAILBOX_SIZE)
  /\ UNCHANGED <<at, unpacker, told, sent>>

Pack ==
  /\ P!PackStep
  /\ UNCHANGED <<at, unpacker, told, sent>>

(* Mutant: the request is made again. *)
RetryRequest ==
  /\ pc = "done" /\ ret < 0 /\ ~ Over
  /\ P!Collect
  /\ UNCHANGED <<at, unpacker, told, sent>>

(* The request could not be packed: sw_run_stream_tests returns.           *)
GiveUp ==
  /\ pc = "done" /\ ret < 0 /\ ~ Over
  /\ at' = Len(Requests) + 1
  /\ UNCHANGED <<mem, packer, unpacker, told, sent>>

(* Mutant: the size is not looked at. *)
SendAnyway ==
  /\ pc = "done"
  /\ \E unpacked_data \in Leftovers :
       U!ipct_msg_unpack(mem, unpacked_data, ret, IPC_MAX_MSG_SIZE)
  /\ sent' = Append(sent, Request)
  /\ UNCHANGED <<at, packer, told>>

(* test_send_ipc_to_fw unpacks the mailbox into an uninitialised local     *)
(* buffer.                                                                 *)
test_send_ipc_to_fw ==
  /\ pc = "done" /\ ret >= 0
  /\ \E unpacked_data \in Leftovers :
       U!ipct_msg_unpack(mem, unpacked_data, ret, IPC_MAX_MSG_SIZE)
  /\ sent' = Append(sent, Request)
  /\ UNCHANGED <<at, packer, told>>

Unpack ==
  /\ U!UnpackStep
  /\ UNCHANGED <<at, packer, told, sent>>

(* fw_stream_params reads three members of the structure it is passed,     *)
(* which is the message itself.  Its reply is of an action no table has:   *)
(* ipct_msg_pack fails before it stores anything in the firmware's own     *)
(* mailbox.                                                                *)
fw_stream_params ==
  [m \in {"id", "rate", "sample_container_bytes"} |-> Half(mem, stream_params[m])]

ReplyFails == U!get_action_def(STREAM_ACTION(STREAM_ACTION_PARAMS_REPLY)) = NULL

(* ipct_msg_unpack has left the ID zero, which is the handler's case for   *)
(* fw_stream_params; it fails with the reply.                              *)
fw_stream_ipc_handler == STREAM_ACTION(STREAM_ACTION_PARAMS) = 0 /\ ReplyFails

(* Unless the unpacker has refused the message, test_send_ipc_to_fw calls  *)
(* the handler, whose reply fails.  Either way it has no result, and the   *)
(* host goes on.                                                           *)
NextRequest ==
  /\ rx_pc = "done"
  /\ rx_ret = 0 => fw_stream_ipc_handler
  /\ told' = IF rx_ret = 0
             THEN [request |-> Request, read |-> fw_stream_params] ELSE told
  /\ at' = at + 1
  /\ P!Collect
  /\ rx_pc' = "idle" /\ rx_ctx' = NULL /\ struct' = NULL
  /\ end' = 0 /\ frames' = <<>> /\ item' = 0 /\ rx_ret' = 0
  /\ before' = NULL /\ stored' = <<>>
  /\ UNCHANGED sent

Next == \/ MakeRequest \/ Pack \/ GiveUp
        \/ test_send_ipc_to_fw \/ Unpack \/ NextRequest

(* One thread, which goes on until main returns.                           *)
Spec == Init /\ [][Next]_vars /\ WF_vars(Next)

-----------------------------------------------------------------------------
(***************************************************************************)
(* Properties.                                                             *)
(***************************************************************************)
ToldOf == [request : RequestNames,
           read : [{"id", "rate", "sample_container_bytes"} -> U16]]

(* Every variable stays in its range; the firmware works only on a message *)
(* that was packed.                                                        *)
TypeOK ==
  /\ at \in 1 .. Len(Requests) + 1
  /\ P!TypeOK /\ U!TypeOK
  /\ rx_pc # "idle" => pc = "done" /\ ret \in 0 .. MAILBOX_SIZE
  /\ told # NULL => told \in ToldOf
  /\ sent \in Seq(RequestNames)

ParamsKey ==
  <<IPCT_CLASS_AUDIO, IPCT_SUBCLASS_AUDIO_STREAM, STREAM_ACTION_PARAMS>>

(* The host's structure, read by whichever table the program has for it,   *)
(* comes to the firmware in the order of the IDs, up to the first member   *)
(* the firmware's limits exclude, and with that the call fails: what is    *)
(* taken, what is refused and what the call returns follow from the two    *)
(* tables alone, whatever the stack held and however the eleven members    *)
(* were grouped into tuples.  The members behind the first excluded one    *)
(* are not stored, whether they are in range or not.                       *)
ParamsTaken ==
  rx_pc = "done" /\ Request = "params" =>
    LET d        == HostTables[ParamsKey]
        r        == FirmwareRegistry[ParamsKey]
        Sent(id) == SentFrom(d, ctx.src, id)
        excluded == {id \in MemberIds(r) : ~ AllowedBy(r, id, Sent(id))}
        taken    == {id \in MemberIds(r) : \A j \in excluded : id < j}
    IN /\ rx_ret = 0 <=> excluded = {}
       /\ {stored[i].id : i \in 1 .. Len(stored)} = taken
       /\ \A id \in taken : HeldIn(r, struct, id) = Sent(id)

(* The unpacker takes every message for one of class 0, subclass 0, action *)
(* 0, so the handler's ID cannot tell a trigger from parameters.  That the *)
(* trigger, packed over the parameters in the one mailbox, never reaches   *)
(* fw_stream_params is up to its tuples being refused.                     *)
HandlesOnlyParams == told # NULL => told.request = "params"

(* The program ends, refused messages, failed replies and all.             *)
RunEnds == <>Over

-----------------------------------------------------------------------------
(* What the example says and does not do.                                  *)

(* The value the firmware's structure has for a member, in its low cell    *)
(* and, for a word, its high one, and the value the host's has.            *)
HeldBy(m) == struct[stream_params[m] \div 2]

HighOf(m) == IF ParamTypes[m] \in WordTypes
             THEN struct[(stream_params[m] \div 2) + 1] ELSE 0

ParamsOf(m) == IF m \in DOMAIN params THEN params[m] ELSE 0

(* sw/stream.h: it "is completely private to the SW", and "Changes to      *)
(* internal structure and limits here have no effect on ABI regardless of  *)
(* of any differences in SW or FW versions": the parameters, all of which  *)
(* the firmware's limits allow, arrive in its structure, though the host's *)
(* lays them out differently.                                              *)
ParamsArrive ==
  rx_pc = "done" /\ Request = "params" =>
    /\ rx_ret = 0
    /\ \A m \in DOMAIN ParamIds : HeldBy(m) = ParamsOf(m) /\ HighOf(m) = 0

(* sw/stream.c announces for sw_stream_position "get stream position from  *)
(* FW" and for sw_stream_trigger "send trigger command to FW": when the    *)
(* tests are over, all their requests have been sent.                      *)
AllRequestsSent == Over => sent = Requests

(* fw/stream.c's "subclass ACTION handler" takes a structure: what it      *)
(* reads there are the members the host set.                               *)
HandlerReadsParams ==
  told # NULL => \A m \in DOMAIN told.read : told.read[m] = params[m]

=============================================================================
