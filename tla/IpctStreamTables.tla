-------------------------- MODULE IpctStreamTables --------------------------
(***************************************************************************)
(* The example's tables: the IDs its two programs share                    *)
(* (example/shared), and for each of them the C structures and the tables  *)
(* it keeps to itself (stream.h and stream-generated-ipc.c of example/sw   *)
(* and of example/fw).  A member is known by its name.                     *)
(***************************************************************************)
EXTENDS IpctHeader

(* classes.h and shared/stream.h: what the programs agree on. *)
IPCT_CLASS_AUDIO           == 0
IPCT_SUBCLASS_AUDIO_STREAM == 0

STREAM_ACTION_PARAMS       == 0
STREAM_ACTION_PARAMS_REPLY == 1
STREAM_ACTION_TRIGGER      == 2
STREAM_ACTION_POSITION     == 3

stream_trigger_start == 0
stream_trigger_stop  == 1

ParamIds ==
  [id |-> 0, direction |-> 1, channels |-> 2, rate |-> 3, frame_fmt |-> 4,
   buffer_fmt |-> 5, sample_valid_bytes |-> 6, sample_container_bytes |-> 7,
   host_period_bytes |-> 8, stream_tag |-> 9, stream_no_irq |-> 10]

(* Mutant: the IDs of a trigger are not those of any parameter. *)
OwnTriggerIds == [id |-> 20, trigger_cmd |-> 21]

TriggerIds == [id |-> 10, trigger_cmd |-> 11]

STREAM_ACTION(x) == ACTION_ID(IPCT_CLASS_AUDIO, IPCT_SUBCLASS_AUDIO_STREAM, x)

-----------------------------------------------------------------------------
(* The elements a table declares: IDs, types, members and limits, by name. *)
DeclareElems(ids, types, layout, limits) ==
  {[id |-> ids[m], type |-> types[m], offset |-> layout[m],
    value1 |-> limits[m][1], value2 |-> limits[m][2]] : m \in DOMAIN ids}

(* The types of stream_config_man, stream_config_opt and stream_trigger_man*)
(* are those of the members; both programs declare the same.               *)
ParamTypes ==
  [m \in DOMAIN ParamIds |->
     CASE m \in {"id", "rate", "host_period_bytes"}          -> "uint32_value"
       [] m \in {"direction", "frame_fmt", "buffer_fmt"}     -> "enum"
       [] m = "stream_no_irq"                                -> "boolean"
       [] OTHER                                              -> "uint16_value"]

TriggerTypes == [id |-> "uint32_value", trigger_cmd |-> "enum"]

(* Both programs declare two actions, and one optional element.            *)
DeclareActions(params, params_size, trigger, trigger_size) ==
  LET optional == {e \in params : e.id = ParamIds.stream_no_irq}
      Key(a)   == <<IPCT_CLASS_AUDIO, IPCT_SUBCLASS_AUDIO_STREAM, a>>
  IN [key \in {Key(STREAM_ACTION_PARAMS), Key(STREAM_ACTION_TRIGGER)} |->
        IF key = Key(STREAM_ACTION_PARAMS)
        THEN [size |-> params_size, mandatory |-> params \ optional,
              optional |-> optional]
        ELSE [size |-> trigger_size, mandatory |-> trigger, optional |-> {}]]

-----------------------------------------------------------------------------
(* The host: struct alsa_hw_params and struct alsa_stream_trigger as a     *)
(* 64-bit build lays them out, the limits of sw/stream.h and the zero ones *)
(* of its generated tables.                                                *)
alsa_hw_params ==
  [id |-> 0, direction |-> 4, frame_fmt |-> 8, buffer_fmt |-> 12, rate |-> 16,
   stream_tag |-> 20, channels |-> 22, sample_valid_bytes |-> 24,
   sample_container_bytes |-> 26, stream_no_irq |-> 28,
   host_period_bytes |-> 32]

SizeofAlsaHwParams == 936

alsa_stream_trigger == [id |-> 0, trigger_cmd |-> 4]

SizeofTrigger == 8

ALSA_STREAM_ID == <<0, 64>>

HostLimits ==
  [m \in DOMAIN ParamIds |->
     CASE m = "id"       -> ALSA_STREAM_ID
       [] m = "rate"     -> <<4000, 192000>>
       [] m = "channels" -> <<1, 8>>
       [] m \in {"sample_valid_bytes", "sample_container_bytes"} -> <<2, 4>>
       [] OTHER          -> <<0, 0>>]

HostRegistry ==
  DeclareActions(
    DeclareElems(ParamIds, ParamTypes, alsa_hw_params, HostLimits),
    SizeofAlsaHwParams,
    DeclareElems(TriggerIds, TriggerTypes, alsa_stream_trigger,
                 [id |-> ALSA_STREAM_ID, trigger_cmd |-> <<0, 3>>]),
    SizeofTrigger)

-----------------------------------------------------------------------------
(* The firmware: struct stream_params, struct stream_trigger and the       *)
(* limits of fw/stream.h.                                                  *)
stream_params ==
  [id |-> 0, direction |-> 4, frame_fmt |-> 8, buffer_fmt |-> 12, rate |-> 16,
   stream_tag |-> 20, channels |-> 22, sample_valid_bytes |-> 24,
   sample_container_bytes |-> 26, host_period_bytes |-> 28,
   stream_no_irq |-> 32]

SizeofStreamParams == 612

stream_trigger == [id |-> 0, trigger_cmd |-> 4]

STREAM_ID == <<0, 255>>

FirmwareLimits ==
  [m \in DOMAIN ParamIds |->
     CASE m = "id"         -> STREAM_ID
       [] m = "rate"       -> <<8000, 192000>>
       [] m = "channels"   -> <<1, 8>>
       [] m \in {"sample_valid_bytes", "sample_container_bytes"} -> <<2, 4>>
       [] m \in {"direction", "stream_no_irq"} -> <<0, 1>>
       [] m = "frame_fmt"  -> <<0, 3>>
       [] m = "buffer_fmt" -> <<0, 0>>
       [] m = "stream_tag" -> <<0, 15>>
       [] m = "host_period_bytes" -> <<64, 1024 * 1024>>]

FirmwareRegistry ==
  DeclareActions(
    DeclareElems(ParamIds, ParamTypes, stream_params, FirmwareLimits),
    SizeofStreamParams,
    DeclareElems(TriggerIds, TriggerTypes, stream_trigger,
                 [id |-> STREAM_ID, trigger_cmd |-> <<0, 3>>]),
    SizeofTrigger)

=============================================================================
