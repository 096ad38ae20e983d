------------------------------ MODULE ByteOrder ------------------------------
(***************************************************************************)
(* The byte order of the messages (common/pof_byte_transfer.c) against the *)
(* structures of include/pof_global.h, for the build of configure.in       *)
(* (version 1.4.0: POF_SD2N, POF_SD2N_AFTER1015 and POF_MULTIPLE_SLOTS,    *)
(* not POF_SHT_VXLAN) on a little-endian host.                             *)
(*                                                                         *)
(* Abstractions.  A structure is a record of its fields, a number or a     *)
(* pof_match the sequence of its bytes in memory.  Padding and arrays of   *)
(* bytes (names, values, masks) are left out: nothing converts them.       *)
(***************************************************************************)
EXTENDS Naturals, Sequences, SequencesExt

\* The types of the fields. A Value is the union of a uint32_t and a
\* pof_match that a tag in the same structure chooses from.
U8    == [size |-> 1]
U16   == [size |-> 2]
U32   == [size |-> 4]
U64   == [size |-> 8]
Match == [size |-> 8, of |-> "match"]
Value(tag) == [size |-> 8, of |-> tag]

POFVT_IMMEDIATE_NUM == 0
POFVT_FIELD == 1

pof_match_x == [match |-> Match]

pof_flow_table == [command |-> U8, tid |-> U8, type |-> U8, match_field_num |-> U8,
                   size |-> U32, key_len |-> U16, slotID |-> U16]
pof_flow_entry == [command |-> U8, match_field_num |-> U8, instruction_num |-> U8,
                   counter_id |-> U32, cookie |-> U64, cookie_mask |-> U64,
                   table_id |-> U8, table_type |-> U8, idle_timeout |-> U16,
                   hard_timeout |-> U16, priority |-> U16, index |-> U32, slotID |-> U16]
pof_group == [command |-> U8, type |-> U8, action_number |-> U8, group_id |-> U32,
              counter_id |-> U32, slotID |-> U16]
pof_meter == [command |-> U8, slotID |-> U16, meter_id |-> U32, rate |-> U32]
pof_counter == [command |-> U8, slotID |-> U16, counter_id |-> U32, value |-> U64,
                byte_value |-> U64]
pof_port == [slotID |-> U16, port_id |-> U16, device_id |-> U32, config |-> U32,
             state |-> U32, curr |-> U32, advertised |-> U32, supported |-> U32,
             peer |-> U32, curr_speed |-> U32, max_speed |-> U32, of_enable |-> U8]
pof_packet_in == [buffer_id |-> U32, total_len |-> U16, reason |-> U8, table_id |-> U8,
                  cookie |-> U64, device_id |-> U32, slotID |-> U16, port_id |-> U16]
pof_packet_out == [bufferId |-> U32, inPort |-> U32, actionNum |-> U8, packetLen |-> U32]
pof_switch_features == [dev_id |-> U32, slotID |-> U16, port_num |-> U16,
                        table_num |-> U16, capabilities |-> U32]
pof_switch_config == [dev_id |-> U32, flags |-> U16, miss_send_len |-> U16]
pof_table_resource_desc == [device_id |-> U32, type |-> U8, tbl_num |-> U8,
                            key_len |-> U16, total_size |-> U32]
pof_flow_table_resource == [resourceType |-> U8, slotID |-> U16, counter_num |-> U32,
                            meter_num |-> U32, group_num |-> U32]
pof_error == [type |-> U16, code |-> U16, device_id |-> U32, slotID |-> U16]
pof_queryall_request == [slotID |-> U16]
pof_header == [version |-> U8, type |-> U8, length |-> U16, xid |-> U32]

\* The data of the actions and of the instructions, by their numbers.
pof_action_output == [portId_type |-> U8, metadata_offset |-> U16, metadata_len |-> U16,
                      packet_offset |-> U16, outputPortId |-> Value("portId_type")]
pof_action_set_field == pof_match_x
pof_action_set_field_from_metadata == [field_setting |-> Match, metadata_offset |-> U16]
pof_action_modify_field == [field |-> Match, increment |-> U32]
pof_action_add_field == [tag_id |-> U16, tag_pos |-> U16, tag_len |-> U32]
pof_action_delete_field == [tag_pos |-> U16, len_type |-> U8, tag_len |-> Value("len_type")]
pof_action_calculate_checksum ==
    [checksum_pos_type |-> U8, cal_startpos_type |-> U8, checksum_pos |-> U16,
     checksum_len |-> U16, cal_startpos |-> U16, cal_len |-> U16]
pof_action_group == [group_id |-> U32]
pof_action_drop == [reason_code |-> U32]
pof_action_packet_in == [reason_code |-> U32]
pof_action_counter == [counter_id |-> U32]

pof_instruction_goto_table ==
    [next_table_id |-> U8, match_field_num |-> U8, packet_offset |-> U16,
     match1 |-> Match, match2 |-> Match]
pof_instruction_write_metadata == [metadata_offset |-> U16, len |-> U16]
pof_instruction_meter == [meter_id |-> U32]
pof_instruction_write_metadata_from_packet ==
    [metadata_offset |-> U16, packet_offset |-> U16, len |-> U16]
pof_instruction_goto_direct_table ==
    [next_table_id |-> U8, index_type |-> U8, packet_offset |-> U16,
     table_entry_index |-> Value("index_type")]
pof_instruction_conditional_jump ==
    [field2_type |-> U8, offset1_direction |-> U8, offset1_type |-> U8,
     offset2_direction |-> U8, offset2_type |-> U8, offset3_direction |-> U8,
     offset3_type |-> U8, compare_field1 |-> Match, compare_field2 |-> Value("field2_type"),
     offset1 |-> Value("offset1_type"), offset2 |-> Value("offset2_type"),
     offset3 |-> Value("offset3_type")]
pof_instruction_calc_field ==
    [calc_type |-> U16, src_type |-> U8, dst_field |-> Match, src_operand |-> Value("src_type")]
pof_instruction_mov_packet_offset ==
    [direction |-> U8, value_type |-> U8, movement |-> Value("value_type")]
-----------------------------------------------------------------------------
(* The conversions. NTOHS, NTOHL, NTOH64 and their inverses all reverse    *)
(* the bytes of the field.                                                 *)

NTOH(p, fields) == [f \in DOMAIN p |-> IF f \in fields THEN Reverse(p[f]) ELSE p[f]]

match(b) == <<b[2], b[1], b[4], b[3], b[6], b[5], b[7], b[8]>>
match_x(p) == [p EXCEPT !.match = match(@)]

value(type, b) == IF type = <<POFVT_IMMEDIATE_NUM>>
                  THEN <<b[4], b[3], b[2], b[1], b[5], b[6], b[7], b[8]>>
                  ELSE match(b)

action_OUTPUT(p) ==
    [NTOH(p, {"metadata_offset", "metadata_len", "packet_offset"})
        EXCEPT !.outputPortId = value(p.portId_type, @)]
action_SET_FIELD(p) == match_x(p)
action_SET_FIELD_FROM_METADATA(p) ==
    [NTOH(p, {"metadata_offset"}) EXCEPT !.field_setting = match(@)]
action_MODIFY_FIELD(p) == [NTOH(p, {"increment"}) EXCEPT !.field = match(@)]
action_ADD_FIELD(p) == NTOH(p, {"tag_pos", "tag_id", "tag_len"})
action_DELETE_FIELD(p) == [NTOH(p, {"tag_pos"}) EXCEPT !.tag_len = value(p.len_type, @)]
action_CALCULATE_CHECKSUM(p) ==
    NTOH(p, {"checksum_pos", "checksum_len", "cal_startpos", "cal_len"})
action_GROUP(p) == NTOH(p, {"group_id"})
action_DROP(p) == NTOH(p, {"reason_code"})
action_PACKET_IN(p) == NTOH(p, {"reason_code"})
action_COUNTER(p) == NTOH(p, {"counter_id"})

instruction_GOTO_TABLE(p) ==
    [NTOH(p, {"packet_offset"}) EXCEPT !.match1 = match(@), !.match2 = match(@)]
instruction_WRITE_METADATA(p) == NTOH(p, {"metadata_offset", "len"})
instruction_METER(p) == NTOH(p, {"meter_id"})
instruction_WRITE_METADATA_FROM_PACKET(p) ==
    NTOH(p, {"metadata_offset", "packet_offset", "len"})
instruction_GOTO_DIRECT_TABLE(p) ==
    [NTOH(p, {"packet_offset"}) EXCEPT !.table_entry_index = value(p.index_type, @)]
instruction_CONDITIONAL_JMP(p) ==
    [p EXCEPT !.compare_field1 = match(@), !.compare_field2 = value(p.field2_type, @),
              !.offset1 = value(p.offset1_type, @), !.offset2 = value(p.offset2_type, @),
              !.offset3 = value(p.offset3_type, @)]
instruction_CALCULATE_FIELD(p) ==
    [NTOH(p, {"calc_type"}) EXCEPT !.dst_field = match(@),
                                   !.src_operand = value(p.src_type, @)]
instruction_MOVE_PACKET_OFFSET(p) == [p EXCEPT !.movement = value(p.value_type, @)]

\* The number in two bytes of memory.
Number(b) == b[1] + 256 * b[2]

\* The switch over the action's type; the data of an unsupported or unknown
\* type is left as it is.
action_data(type, p) ==
    CASE type = 0 -> action_OUTPUT(p)
      [] type = 1 -> action_SET_FIELD(p)
      [] type = 2 -> action_SET_FIELD_FROM_METADATA(p)
      [] type = 3 -> action_MODIFY_FIELD(p)
      [] type = 4 -> action_ADD_FIELD(p)
      [] type = 5 -> action_DELETE_FIELD(p)
      [] type = 6 -> action_CALCULATE_CHECKSUM(p)
      [] type = 7 -> action_GROUP(p)
      [] type = 8 -> action_DROP(p)
      [] type = 9 -> action_PACKET_IN(p)
      [] type = 10 -> action_COUNTER(p)
      [] OTHER -> p

\* Mutant: the direction is not guessed, the type is always converted first.
MutantAction(p) ==
    LET q == NTOH(p, {"type", "len"})
    IN  [q EXCEPT !.data = action_data(Number(q.type), @)]

\* One function for both directions: a length above 255 must still be in
\* network order, since no action is that long.
action(p) ==
    IF Number(p.len) > 255
    THEN LET q == NTOH(p, {"type", "len"})
         IN  [q EXCEPT !.data = action_data(Number(q.type), @)]
    ELSE NTOH([p EXCEPT !.data = action_data(Number(p.type), @)], {"type", "len"})

actions(s, n) == [i \in DOMAIN s |-> IF i <= n THEN action(s[i]) ELSE s[i]]

instruction_APPLY_ACTIONS(p) == [p EXCEPT !.action = actions(@, p.action_num[1])]

Unsupported == {3, 5, 65535}    \* WRITE_ACTIONS, CLEAR_ACTIONS, EXPERIMENTER
Instructions == (1..11) \cup {65535}

instruction_data(type, p) ==
    CASE type = 1 -> instruction_GOTO_TABLE(p)
      [] type = 2 -> instruction_WRITE_METADATA(p)
      [] type = 4 -> instruction_APPLY_ACTIONS(p)
      [] type = 6 -> instruction_METER(p)
      [] type = 7 -> instruction_WRITE_METADATA_FROM_PACKET(p)
      [] type = 8 -> instruction_GOTO_DIRECT_TABLE(p)
      [] type = 9 -> instruction_CONDITIONAL_JMP(p)
      [] type = 10 -> instruction_CALCULATE_FIELD(p)
      [] type = 11 -> instruction_MOVE_PACKET_OFFSET(p)
      [] OTHER -> p

instruction_NtoH(p) ==
    LET q == NTOH(p, {"type", "len"})
    IN  [q EXCEPT !.data = instruction_data(Number(q.type), @)]

\* An unknown type is returned from before the header is converted.
instruction_HtoN(p) ==
    IF Number(p.type) \notin Instructions THEN p
    ELSE NTOH([p EXCEPT !.data = instruction_data(Number(p.type), @)], {"type", "len"})
-----------------------------------------------------------------------------
(* Whole messages: a body and, where the structure has them, its arrays of *)
(* matches, instructions and actions.                                      *)

Body(m, fields) == [m EXCEPT !.body = NTOH(@, fields)]
First(s, n, Op(_)) == [i \in DOMAIN s |-> IF i <= n THEN Op(s[i]) ELSE s[i]]

pof_NtoH_transfer_flow_table(m) ==
    [Body(m, {"size", "key_len", "slotID"}) EXCEPT !.match = First(@, Len(@), match)]

EntryFields == {"counter_id", "cookie", "cookie_mask", "idle_timeout", "hard_timeout",
                "priority", "index", "slotID"}
pof_NtoH_transfer_flow_entry(m) ==
    [Body(m, EntryFields) EXCEPT
        !.match = First(@, m.body.match_field_num[1], match_x),
        !.instruction = First(@, m.body.instruction_num[1], instruction_NtoH)]
pof_HtoN_transfer_flow_entry(m) ==
    [Body(m, EntryFields) EXCEPT
        !.match = First(@, m.body.match_field_num[1], match_x),
        !.instruction = First(@, m.body.instruction_num[1], instruction_HtoN)]

pof_NtoH_transfer_group(m) ==
    [Body(m, {"group_id", "counter_id", "slotID"}) EXCEPT !.action = actions(@, Len(@))]

\* Mutant: the rate is not converted.
MutantMeter(m) == Body(m, {"slotID", "meter_id"})

pof_NtoH_transfer_meter(m) == Body(m, {"slotID", "rate", "meter_id"})
pof_NtoH_transfer_counter(m) == Body(m, {"counter_id", "slotID", "value", "byte_value"})
pof_NtoH_transfer_packet_out(m) ==
    [Body(m, {"bufferId", "inPort", "packetLen"}) EXCEPT
        !.action = actions(@, m.body.actionNum[1])]

PortNumbers == {"slotID", "port_id", "device_id", "config", "state", "curr", "advertised",
                "supported", "peer", "curr_speed", "max_speed"}
pof_NtoH_transfer_port(m) == Body(m, PortNumbers)

\* Mutant: the port's number is not converted in a port status.
MutantPortStatus(m) == Body(m, PortNumbers \ {"port_id"})

pof_HtoN_transfer_port_status(m) == Body(m, PortNumbers)
pof_HtoN_transfer_switch_config(m) == Body(m, {"dev_id", "flags", "miss_send_len"})
pof_HtoN_transfer_queryall_request(m) == Body(m, {"slotID"})
pof_HtoN_transfer_switch_features(m) ==
    Body(m, {"dev_id", "slotID", "port_num", "table_num", "capabilities"})
pof_HtoN_transfer_table_resource_desc(p) == NTOH(p, {"device_id", "key_len", "total_size"})
pof_HtoN_transfer_flow_table_resource(m) ==
    [Body(m, {"slotID", "counter_num", "meter_num", "group_num"}) EXCEPT
        !.tbl_rsc_desc = First(@, Len(@), pof_HtoN_transfer_table_resource_desc)]
pof_NtoH_transfer_packet_in(m) ==
    Body(m, {"buffer_id", "total_len", "cookie", "device_id", "slotID", "port_id"})
pof_NtoH_transfer_error(m) == Body(m, {"slotID", "type", "code", "device_id"})
pof_HtoN_transfer_header(m) == Body(m, {"length", "xid"})
=============================================================================
