------------------------------ MODULE Messages ------------------------------
(***************************************************************************)
(* What the switch takes from a message of the controller, keeps, and      *)
(* sends back when it is asked (switch_control/pof_parse.c and the reply   *)
(* functions of local_resource/): the users of ByteOrder.                  *)
(*                                                                         *)
(* Abstractions.  One message at a time; what a resource is checked for    *)
(* before it is kept is the business of LocalResource.  Arrays have two    *)
(* elements, of which the message uses the first.  A number of one byte,   *)
(* which may be the tag of a union, is 0 or 1 in an action or instruction  *)
(* and 1 in a body.                                                        *)
(***************************************************************************)
EXTENDS ByteOrder

CONSTANTS
    ActionLens,  \* lengths in the header of an action
    Contents,    \* bytes of a number on the wire; a short one takes the first
    Junk         \* what unset memory holds

\* An action has at most 48 bytes (POF_MAX_ACTION_LENGTH + 4) and a header of
\* 4: action() takes a length of 0, or of 256 and more, for the wrong order.
ASSUME MessagesAssumption ==
    /\ ActionLens \subseteq 4..48
    /\ Contents \subseteq [1..8 -> 0..255]
    /\ Junk \subseteq 0..255

VARIABLES
    kind,   \* what the last message was
    wire,   \* its bytes on the wire, as the controller wrote them
    host,   \* what the switch has made of them
    reply   \* the last message to the controller

vars == <<kind, wire, host, reply>>

Nothing == <<>>

Structure == [
    table |-> pof_flow_table, entry |-> pof_flow_entry, group |-> pof_group,
    meter |-> pof_meter, counter |-> pof_counter, port |-> pof_port,
    packet_out |-> pof_packet_out, config |-> pof_switch_config,
    queryall |-> pof_queryall_request, header |-> pof_header,
    features |-> pof_switch_features, resource |-> pof_flow_table_resource,
    packet_in |-> pof_packet_in, error |-> pof_error]

ActionStructure == [t \in 0..10 |->
    CASE t = 0 -> pof_action_output [] t = 1 -> pof_action_set_field
      [] t = 2 -> pof_action_set_field_from_metadata [] t = 3 -> pof_action_modify_field
      [] t = 4 -> pof_action_add_field [] t = 5 -> pof_action_delete_field
      [] t = 6 -> pof_action_calculate_checksum [] t = 7 -> pof_action_group
      [] t = 8 -> pof_action_drop [] t = 9 -> pof_action_packet_in
      [] OTHER -> pof_action_counter]

InstructionStructure == [t \in (1..11) \ {3, 4, 5} |->
    CASE t = 1 -> pof_instruction_goto_table [] t = 2 -> pof_instruction_write_metadata
      [] t = 6 -> pof_instruction_meter
      [] t = 7 -> pof_instruction_write_metadata_from_packet
      [] t = 8 -> pof_instruction_goto_direct_table
      [] t = 9 -> pof_instruction_conditional_jump
      [] t = 10 -> pof_instruction_calc_field [] OTHER -> pof_instruction_mov_packet_offset]
-----------------------------------------------------------------------------
(* The messages on the wire.                                               *)

BytesOf(struct) == {f \in DOMAIN struct : struct[f].size = 1}
Fill(struct, byte, c) ==
    [f \in DOMAIN struct |->
        IF struct[f].size = 1 THEN <<byte[f]>> ELSE [i \in 1..struct[f].size |-> c[f][i]]]
\* Every choice of the tags of unions.
Filled(struct) ==
    {Fill(struct, b, c) : b \in [BytesOf(struct) -> {POFVT_IMMEDIATE_NUM, POFVT_FIELD}],
                          c \in [DOMAIN struct -> Contents]}
\* A body: its command, its numbers of used elements and the like are 1.
Ones(struct) ==
    {Fill(struct, [f \in BytesOf(struct) |-> 1], c) : c \in [DOMAIN struct -> Contents]}

Big(n) == <<n \div 256, n % 256>>
Item(type, len, data) == [type |-> Big(type), len |-> Big(len), data |-> data]

ActionWires == UNION {{Item(t, n, d) : n \in ActionLens, d \in Filled(ActionStructure[t])} : t \in 0..10}
NoAction == Item(0, 0, [f \in DOMAIN pof_action_output |->
                           [i \in 1..pof_action_output[f].size |-> 0]])
Unused == {Item(8, 8, d) : d \in Ones(pof_action_drop)}

UnknownInstruction == 12
InstructionLen == 304
ApplyActions(a, u) == [action_num |-> <<1>>, action |-> <<a, u>>]
StructuredWires ==
    UNION {{Item(t, InstructionLen, d) : d \in Filled(InstructionStructure[t])} :
              t \in DOMAIN InstructionStructure}
ApplyWires == {Item(4, InstructionLen, ApplyActions(a, u)) : a \in ActionWires, u \in Unused}
RawWires == {Item(t, InstructionLen, [raw |-> c]) :
                t \in Unsupported \cup {UnknownInstruction}, c \in Contents}
InstructionWires == StructuredWires \cup ApplyWires \cup RawWires
UnusedInstruction == {Item(6, 8, d) : d \in Ones(pof_instruction_meter)}

MatchX == {[match |-> c] : c \in Contents}
Desc == Ones(pof_table_resource_desc)

Messages(k) ==
    LET Bodies == Ones(Structure[k])
    IN  CASE k = "table" -> [body : Bodies, match : Contents \X Contents]
          [] k = "entry" -> [body : Bodies, match : MatchX \X MatchX,
                             instruction : InstructionWires \X UnusedInstruction]
          [] k = "group" -> [body : Bodies, action : ActionWires \X {NoAction}]
          [] k = "packet_out" -> [body : Bodies, action : ActionWires \X Unused]
          [] k = "resource" -> [body : Bodies, tbl_rsc_desc : Desc \X Desc]
          [] OTHER -> [body : Bodies]

Incoming == {"table", "entry", "group", "meter", "counter", "port", "packet_out", "config",
             "queryall", "header"}
Outgoing == {"features", "resource", "port", "packet_in", "error", "config",
             "counter", "header"}
-----------------------------------------------------------------------------
Init == kind = "none" /\ wire = Nothing /\ host = Nothing /\ reply = Nothing

\* pofp_parse_msg_from_controller: the conversion of each type of message.
parse(k, m) ==
    CASE k = "table" -> pof_NtoH_transfer_flow_table(m)
      [] k = "entry" -> pof_NtoH_transfer_flow_entry(m)
      [] k = "group" -> pof_NtoH_transfer_group(m)
      [] k = "meter" -> pof_NtoH_transfer_meter(m)
      [] k = "counter" -> pof_NtoH_transfer_counter(m)
      [] k = "port" -> pof_NtoH_transfer_port(m)
      [] k = "packet_out" -> pof_NtoH_transfer_packet_out(m)
      [] k = "config" -> pof_HtoN_transfer_switch_config(m)
      [] k = "queryall" -> pof_HtoN_transfer_queryall_request(m)
      [] OTHER -> pof_HtoN_transfer_header(m)

parse_msg_from_controller(k) ==
    /\ kind' = k
    /\ wire' \in Messages(k)
    /\ host' = parse(k, wire')
    /\ reply' = Nothing

\* The answers to a query. The switch fills in the command and its slot; what
\* it has not kept is zero, or in a flow entry what the memory held.
Answer(m, command) == [m EXCEPT !.body.command = <<command>>, !.body.slotID = <<0, 0>>]
QUERY_RESULT == [table |-> 4, entry |-> 6, group |-> 4, meter |-> 4]
Keep(s, n, zero) == [i \in DOMAIN s |-> IF i <= n THEN s[i] ELSE zero]

reply_table ==
    /\ kind = "table" /\ host # Nothing
    /\ LET a == Answer(host, QUERY_RESULT.table)
           n == host.body.match_field_num[1]
       IN  reply' = pof_NtoH_transfer_flow_table(
                        [a EXCEPT !.match = Keep(@, n, [i \in 1..8 |-> 0])])
    /\ UNCHANGED <<kind, wire, host>>

NotKept == {"cookie", "cookie_mask", "idle_timeout", "hard_timeout"}
reply_entry ==
    /\ kind = "entry" /\ host # Nothing
    /\ \E junk \in Junk :
          LET a == Answer(host, QUERY_RESULT.entry)
              b == [f \in DOMAIN a.body |-> IF f \in NotKept
                                            THEN [i \in DOMAIN a.body[f] |-> junk]
                                            ELSE a.body[f]]
          IN  reply' = pof_HtoN_transfer_flow_entry([a EXCEPT !.body = b])
    /\ UNCHANGED <<kind, wire, host>>

reply_group ==
    /\ kind = "group" /\ host # Nothing
    /\ LET a == Answer(host, QUERY_RESULT.group)
       IN  reply' = pof_NtoH_transfer_group(
                        [a EXCEPT !.action = Keep(@, host.body.action_number[1], NoAction)])
    /\ UNCHANGED <<kind, wire, host>>

reply_meter ==
    /\ kind = "meter" /\ host # Nothing
    /\ reply' = pof_NtoH_transfer_meter(Answer(host, QUERY_RESULT.meter))
    /\ UNCHANGED <<kind, wire, host>>

\* A message that the switch makes by itself, in its own byte order.
transfer(k, m) ==
    CASE k = "features" -> pof_HtoN_transfer_switch_features(m)
      [] k = "resource" -> pof_HtoN_transfer_flow_table_resource(m)
      [] k = "port" -> pof_HtoN_transfer_port_status(m)
      [] k = "packet_in" -> pof_NtoH_transfer_packet_in(m)
      [] k = "error" -> pof_NtoH_transfer_error(m)
      [] k = "config" -> pof_HtoN_transfer_switch_config(m)
      [] k = "counter" -> pof_NtoH_transfer_counter(m)
      [] OTHER -> pof_HtoN_transfer_header(m)

send(k) ==
    /\ kind' = k
    /\ wire' = Nothing
    /\ host' \in Messages(k)
    /\ reply' = transfer(k, host')

Next ==
    \/ \E k \in Incoming : parse_msg_from_controller(k)
    \/ reply_table \/ reply_entry \/ reply_group \/ reply_meter
    \/ \E k \in Outgoing : send(k)

Spec == Init /\ [][Next]_vars
-----------------------------------------------------------------------------
(* Properties. What the bytes mean is read off the structures: where the   *)
(* numbers of a field begin and end, in either order.                      *)

Numbers(type, p) ==
    IF DOMAIN type = {"size"} THEN {<<1, type.size>>}
    ELSE IF type.of = "match" \/ p[type.of] = <<POFVT_FIELD>>
         THEN {<<1, 2>>, <<3, 4>>, <<5, 6>>, <<7, 7>>, <<8, 8>>}
         ELSE {<<1, 4>>, <<5, 5>>, <<6, 6>>, <<7, 7>>, <<8, 8>>}

OtherOrder(b, numbers) ==
    [i \in DOMAIN b |->
        LET v == CHOOSE v \in numbers : v[1] <= i /\ i <= v[2] IN b[v[1] + v[2] - i]]

Meant(struct, p) == [f \in DOMAIN p |-> OtherOrder(p[f], Numbers(struct[f], p))]

TypeOf(item) == item.type[1] * 256 + item.type[2]
MeantItem(item, data) == [type |-> Reverse(item.type), len |-> Reverse(item.len), data |-> data]
MeantAction(a) == MeantItem(a, Meant(ActionStructure[TypeOf(a)], a.data))
MeantInstruction(i) ==
    LET t == TypeOf(i)
    IN  MeantItem(i, IF t = 4 THEN [i.data EXCEPT !.action[1] = MeantAction(@)]
                     ELSE IF t \in DOMAIN InstructionStructure
                          THEN Meant(InstructionStructure[t], i.data)
                          ELSE i.data)

\* What the switch works with is what the controller wrote: every number of
\* every message it parses has the value that the structure gives it, down
\* to the unions and the actions inside instructions (action() guesses the
\* direction of its conversion from the length).
HostOrder ==
    wire # Nothing =>
        /\ host.body = Meant(Structure[kind], wire.body)
        /\ kind = "table" =>
              host.match[1] = OtherOrder(wire.match[1], Numbers(Match, wire.match))
        /\ kind = "entry" =>
              /\ host.match[1] = Meant(pof_match_x, wire.match[1])
              /\ host.instruction[1] = MeantInstruction(wire.instruction[1])
        /\ kind \in {"group", "packet_out"} => host.action[1] = MeantAction(wire.action[1])

\* Every message that the switch makes reaches the controller in network
\* order (the same functions convert in both directions).
WireOrder ==
    wire = Nothing /\ kind # "none" =>
        /\ reply.body = Meant(Structure[kind], host.body)
        /\ kind = "resource" =>
              \A i \in DOMAIN host.tbl_rsc_desc :
                 reply.tbl_rsc_desc[i] = Meant(pof_table_resource_desc, host.tbl_rsc_desc[i])

\* NEWS:143: "Controller can query all resource of the switch." The answer to
\* a query has the bytes that the controller once sent, apart from the
\* command, the slot and the fields of an entry that are not kept. The type
\* and the length of an instruction of an unknown type come back in the
\* wrong order: instruction_NtoH converts them and instruction_HtoN does not.
QueryReturnsWhatWasInstalled ==
    wire # Nothing /\ reply # Nothing =>
        /\ \A f \in DOMAIN wire.body \ ({"command", "slotID"} \cup NotKept) :
              reply.body[f] = wire.body[f]
        /\ kind = "table" => reply.match[1] = wire.match[1]
        /\ kind = "group" => reply.action[1] = wire.action[1]
        /\ kind = "entry" =>
              /\ reply.match = wire.match
              /\ LET i == wire.instruction[1]
                 IN  IF TypeOf(i) \in Instructions
                     THEN reply.instruction = wire.instruction
                     ELSE reply.instruction[1].data = i.data
=============================================================================
