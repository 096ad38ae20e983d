------------------------------ MODULE Datapath ------------------------------
(***************************************************************************)
(* The datapath (datapath/pof_datapath.c, pof_instruction.c, pof_action.c):*)
(* how one packet is taken through the instructions of the flow entries it *)
(* matches and through the actions and groups these call, and how the      *)
(* actions of a PACKET_OUT message are executed on the controller's packet.*)
(* The state is struct pofdp_packet: position and length of the packet,    *)
(* its metadata, and two program counters, one for instructions and one    *)
(* for actions, each kept as a pointer and an 8-bit number of steps left.  *)
(*                                                                         *)
(* Abstractions.  The contents of packets are left out: a field read from  *)
(* a packet has any of FieldValues.  Of the metadata there are the length  *)
(* of the packet and one field of the free part.  Which entry a lookup     *)
(* finds is the business of FlowLookup: here it is any entry of the table, *)
(* or none.  Tables, groups, meters and counters do not change while a     *)
(* packet is under way.  Receive tasks share nothing else, so one packet   *)
(* at a time is enough.  Lengths of fields and tags are in bytes where the *)
(* code only compares them, in bits where it rounds them.                  *)
(***************************************************************************)
EXTENDS Integers, Sequences, FiniteSets, TableId

CONSTANTS
    Tables,       \* possible flow tables: functions from IDs to entries
    Groups,       \* functions from IDs to groups
    Meters, Counters, Ports, \* those that exist
    NoFlood,      \* ports left out of a flood: ingress, local or configured so
    PacketLens,   \* lengths of received packets
    PacketOuts,   \* PACKET_OUT messages: length and list of actions
    FieldValues,  \* values a field of a packet may have
    FieldMod,     \* 2^w for the w bits of the metadata field
    POFDP_PACKET_RAW_MAX_LEN, POFDP_PACKET_PREBUF_LEN, POF_MTU_LENGTH,
    POFDP_METADATA_MAX_LEN, POF_PACKET_IN_MAX_LENGTH, POF_MAX_INSTRUCTION_NUM,
    counterNumMax

UInt8  == {n \in Nat : n < 256}
UInt16 == {n \in Nat : n < 65536}

\* A received packet has room behind it, or insertTagToPacket could never
\* refuse a tag before the packet has grown to the length of a message.
ASSUME DatapathAssumption ==
    /\ PacketLens \subseteq Nat \ {0}
    /\ FieldMod \in Nat \ {0}
    /\ FieldValues \subseteq Nat
    /\ POFDP_PACKET_PREBUF_LEN \in Nat
    /\ POF_MTU_LENGTH \in Nat /\ POFDP_PACKET_RAW_MAX_LEN \in UInt16
    /\ POF_MTU_LENGTH <= POFDP_PACKET_RAW_MAX_LEN
    /\ POF_MAX_INSTRUCTION_NUM \in UInt8
    /\ IDMod # 0

\* The entries of all tables, their instructions, and all lists of actions.
Entries == UNION {UNION {{t[id][i] : i \in DOMAIN t[id]} : id \in DOMAIN t} : t \in Tables}
Instructions == UNION {{e.slots[i] : i \in 1..Len(e.slots)} : e \in Entries}
Lists == {i.acts : i \in {j \in Instructions : j.type = "APPLY_ACTIONS"}}
         \cup {Groups[g].acts : g \in DOMAIN Groups} \cup {m.acts : m \in PacketOuts}

\* The types of what the structures pof_instruction and pof_action hold: their
\* members are unsigned, and the numbers of instructions and actions are
\* uint8_t. Nothing else is assumed of what the controller sends.
ValueOK(op) == op.from = "imm" => op.value \in Nat
ActionOK(a) ==
    /\ a.type = "MODIFY_FIELD" => ValueOK(a.field) /\ a.increment \in Int
    /\ a.type = "ADD_FIELD" => a.len \in Nat
    /\ a.type = "DELETE_FIELD" => ValueOK(a.len) /\ a.pos \in Nat
    /\ a.type = "OUTPUT" => ValueOK(a.port) /\ a.packet_offset \in Nat /\ a.metadata_len \in Nat
InstructionOK(i) ==
    /\ i.type \in {"GOTO_TABLE", "GOTO_DIRECT_TABLE"} => i.id \in TableIDs /\ i.offset \in Nat
    /\ i.type = "WRITE_METADATA" => i.value \in Nat
    /\ i.type = "CALCULATE_FIELD" => ValueOK(i.field) /\ ValueOK(i.operand)
    /\ i.type = "MOVE_PACKET_OFFSET" => ValueOK(i.movement)
    /\ i.type = "CONDITIONAL_JMP" =>
          \A j \in {i.less, i.equal, i.greater} : ValueOK(j.offset)

ASSUME ConfigurationAssumption ==
    /\ \A e \in Entries : Len(e.slots) \in 0..POF_MAX_INSTRUCTION_NUM
    /\ \A i \in Instructions : InstructionOK(i)
    /\ \A l \in Lists : Len(l) \in UInt8 /\ \A k \in 1..Len(l) : ActionOK(l[k])
    /\ \A m \in PacketOuts : m.len \in 0..POFDP_PACKET_RAW_MAX_LEN

VARIABLES
    tables, \* the flow tables; they do not change
    pc,     \* "recv": waiting for a packet; "ins", "act": in one of the loops
    d,      \* the packet, struct pofdp_packet
    sent,   \* history: what this packet has caused to be sent
    alive   \* FALSE when the process has crashed

vars == <<tables, pc, d, sent, alive>>

NoMetadata == -1   \* the NULL pointer of a PACKET_OUT packet
Bad        == -1   \* the error return of pofdp_get_32value

\* entry: its instructions; ins: index of the next one; todo, done:
\* ins_todo_num, ins_done_num; acts, act, actNum: the same for actions;
\* mlen: len in the metadata; meta: the metadata field.  History: at is the
\* ID of the table the packet is in, due the number of actions that the
\* lists it came to still ask for.
Packet(len, mlen, entry, acts) ==
    [offset |-> 0, left |-> len, mlen |-> mlen, meta |-> 0,
     table |-> [type |-> 0, id |-> 0], at |-> 0,
     entry |-> entry, ins |-> 0, todo |-> Len(entry), done |-> 0,
     acts |-> acts, act |-> 1, actNum |-> Len(acts), due |-> Len(acts),
     packet_done |-> FALSE]

NoPacket == Packet(0, NoMetadata, <<>>, <<>>)

set_goto_first_table == [type |-> "GOTO_TABLE", id |-> 0, offset |-> 0]

Init ==
    /\ tables \in Tables
    /\ pc = "recv" /\ d = NoPacket /\ sent = <<>> /\ alive = TRUE
-----------------------------------------------------------------------------
(* Ends of a handler.                                                      *)

Go(loop, x) == pc' = loop /\ d' = x /\ UNCHANGED <<tables, sent, alive>>

\* POF_CHECK_RETVALUE_RETURN: an error ends all loops, the packet is gone.
Fail == pc' = "recv" /\ d' = NoPacket /\ sent' = <<>> /\ UNCHANGED <<tables, alive>>

Crash == alive' = FALSE /\ pc' = "recv" /\ d' = NoPacket /\ sent' = <<>> /\ UNCHANGED tables

\* insJumpForward: the pointer and both uint8_t numbers.
insJumpForward(n, x) ==
    [x EXCEPT !.ins = @ + n, !.todo = (@ - n) % 256, !.done = (@ + n) % 256]

instruction_update(x) ==
    IF x.todo = 1 THEN [x EXCEPT !.packet_done = TRUE] ELSE insJumpForward(1, x)

action_update(x) ==
    [x EXCEPT !.actNum = (@ - 1) % 256,
              !.act = IF x.actNum - 1 < 1 THEN @ ELSE @ + 1,
              !.due = @ - 1]

NextIns(x) == Go("ins", instruction_update(x))
NextAct(x) == Go("act", action_update(x))

\* poflr_counter_increace: 0 counts nothing, a missing counter is a null
\* pointer.  Then is what follows a successful count.
CounterIncrease(c, Then) ==
    \/ c # 0 /\ c >= counterNumMax /\ Fail
    \/ c # 0 /\ c < counterNumMax /\ c \notin Counters /\ Crash
    \/ (c = 0 \/ (c < counterNumMax /\ c \in Counters)) /\ Then
-----------------------------------------------------------------------------
(* Values.                                                                 *)

\* pofdp_get_32value: an immediate number or a field of at most 32 bits that
\* lies inside the packet or the metadata.
pofdp_get_32value(op) ==
    CASE op.from = "imm" -> {op.value}
      [] op.from = "metadata" -> IF d.mlen = NoMetadata THEN {Bad} ELSE {d.meta}
      [] op.from = "packet" -> IF op.end > d.left THEN {Bad} ELSE FieldValues
      [] OTHER -> {Bad}

\* Mutant: the value is not cut to the length of the field.
MutantWriteValue(field, v, x) ==
    IF field.from = "metadata" THEN [x EXCEPT !.meta = v] ELSE x

\* pofdp_write_32value_to_field, for a field that has just been read: its
\* checks are those of the read.
write_32value(field, v, x) ==
    IF field.from = "metadata" THEN [x EXCEPT !.meta = v % FieldMod] ELSE x

ToInt16(v) == ((v + 32768) % 65536) - 32768

\* POF_BITNUM_TO_BYTENUM_CEIL in 32 bits: 536870912 is 2^32 / 8.
ToBytesCeil(bits) ==
    IF bits + 7 >= 0 THEN (bits + 7) \div 8 ELSE 536870912 + ((bits + 7) \div 8)

MoveOK(n) == n <= d.left /\ n >= -(POFDP_PACKET_PREBUF_LEN + d.offset)

movePacketBufOffset(n, x) == [x EXCEPT !.offset = @ + n, !.left = @ - n]
-----------------------------------------------------------------------------
(* Receiving and sending.                                                  *)

\* pofdp_recv_raw_task, pofdp_forward: packets that are too long, filtered
\* or without a first table never get this far.
recv_raw(len) ==
    /\ pc = "recv" /\ alive
    /\ len <= POF_MTU_LENGTH
    /\ 0 \in DOMAIN tables
    /\ Go("ins", Packet(len, len, <<set_goto_first_table>>, <<>>))

\* POFT_PACKET_OUT: no metadata, no instructions, and a local resource that
\* was never looked up (see AnyResource).
packet_out(m) ==
    /\ pc = "recv" /\ alive
    /\ Go("act", Packet(m.len, NoMetadata, <<>>, m.acts))

Received == d.mlen # NoMetadata

\* The uninitialised lr of PACKET_OUT is whatever the stack holds.
AnyResource(Then) == Then \/ (~Received /\ Crash)

\* pofdp_send_packet_in_to_controller for the packet x, whose length goes as
\* uint16_t; then the loop goes on with y.
packet_in(x, loop, y) ==
    LET len == (x.offset + x.left) % 65536
    IN  IF len > POF_PACKET_IN_MAX_LENGTH THEN Fail
        ELSE /\ sent' = Append(sent, [to |-> "controller", len |-> len, at |-> x.at,
                                      table |-> table_id_to_ID(x.table.type, x.table.id)])
             /\ pc' = loop /\ d' = y /\ UNCHANGED <<tables, alive>>
-----------------------------------------------------------------------------
(* Instructions.                                                           *)

\* The instruction at dpp->ins; the slots of an entry behind its
\* instructions are zero, which is no type.
Ins ==
    IF d.ins < Len(d.entry) THEN d.entry[d.ins + 1] ELSE [type |-> "none"]

InsIs(type) == pc = "ins" /\ ~d.packet_done /\ Ins.type = type

\* The packet goes on with the instructions of a matched entry.
Enter(e, x) ==
    CounterIncrease(e.counter,
        Go("ins", [x EXCEPT !.entry = e.slots, !.ins = 0, !.todo = Len(e.slots), !.done = 0]))

\* movePacketBufOffset and poflr_table_ID_to_id: the first half of both jumps
\* to a table.
GotoOK == MoveOK(ToInt16(Ins.offset)) /\ table_ID_to_id(Ins.id) # NoTableId
Goto   == [movePacketBufOffset(ToInt16(Ins.offset), d) EXCEPT
              !.table = table_ID_to_id(Ins.id), !.at = Ins.id]

\* pofdp_entry_nomatch: PACKET_IN with the new position and table.
nomatch == packet_in(Goto, "ins", [Goto EXCEPT !.packet_done = TRUE])

\* A LINEAR table has no lookup: poflr_entry_lookup returns an uninitialised
\* pointer, null or not.
execute_GOTO_TABLE ==
    /\ InsIs("GOTO_TABLE")
    /\ \/ ~(GotoOK /\ Ins.id \in DOMAIN tables) /\ Fail
       \/ /\ GotoOK /\ Ins.id \in DOMAIN tables
          /\ \/ nomatch
             \/ /\ Goto.table.type # POF_LINEAR_TABLE
                /\ \E i \in DOMAIN tables[Ins.id] : Enter(tables[Ins.id][i], Goto)
             \/ Goto.table.type = POF_LINEAR_TABLE /\ Crash

execute_GOTO_DIRECT_TABLE ==
    /\ InsIs("GOTO_DIRECT_TABLE")
    /\ IF ~GotoOK THEN Fail
       ELSE \E i \in pofdp_get_32value(Ins.index) :
               IF \/ i = Bad
                  \/ Ins.id \notin DOMAIN tables
                  \/ Goto.table.type # POF_LINEAR_TABLE
                  \/ i \notin DOMAIN tables[Ins.id]
               THEN Fail ELSE Enter(tables[Ins.id][i], Goto)

execute_METER ==
    /\ InsIs("METER")
    /\ IF Ins.id \in Meters THEN NextIns(d) ELSE Fail

execute_WRITE_METADATA ==
    /\ InsIs("WRITE_METADATA")
    /\ NextIns([d EXCEPT !.meta = Ins.value % FieldMod])

execute_WRITE_METADATA_FROM_PACKET ==
    /\ InsIs("WRITE_METADATA_FROM_PACKET")
    /\ IF d.left < Ins.end THEN Fail
       ELSE \E v \in FieldValues : NextIns([d EXCEPT !.meta = v % FieldMod])

execute_APPLY_ACTIONS ==
    /\ InsIs("APPLY_ACTIONS")
    /\ Go("act", [d EXCEPT !.acts = Ins.acts, !.act = 1, !.actNum = Len(Ins.acts),
                           !.due = Len(Ins.acts)])

\* Mutant: a jump back does not give the instructions back.
MutantInsJumpBack(n, x) == [x EXCEPT !.ins = @ - n, !.done = @ - n]

insJumpBack(n, x) == [x EXCEPT !.ins = @ - n, !.done = @ - n, !.todo = (@ + n) % 256]

insJump(forward, n) ==
    IF forward THEN IF n > d.todo THEN Fail ELSE Go("ins", insJumpForward(n, d))
    ELSE IF n > d.done THEN Fail ELSE Go("ins", insJumpBack(n, d))

\* Each outcome of the comparison has its jump.
execute_CONDITIONAL_JMP ==
    /\ InsIs("CONDITIONAL_JMP")
    /\ \E v \in pofdp_get_32value(Ins.field1), w \in pofdp_get_32value(Ins.field2) :
          LET jump == CASE v < w -> Ins.less [] v = w -> Ins.equal [] OTHER -> Ins.greater
          IN  IF v = Bad \/ w = Bad THEN Fail
              ELSE \E n \in pofdp_get_32value(jump.offset) :
                      IF n = Bad THEN Fail ELSE insJump(jump.forward, n)

\* Mutant: the result is not the one that was asked for.
MutantCalculate(calc, v, w) == {v}

\* Results modulo the field's width; those of shifts and bitwise
\* operations are any value.
Calculate(calc, v, w) ==
    CASE calc = "ADD" -> {(v + w) % FieldMod}
      [] calc = "SUBTRACT" -> {(v - w) % FieldMod}
      [] OTHER -> 0..(FieldMod - 1)

Calculations == {"ADD", "SUBTRACT", "LEFT_SHIFT", "RIGHT_SHIFT",
                 "BITWISE_ADD", "BITWISE_OR", "BITWISE_XOR", "BITWISE_NOR"}

execute_CALCULATE_FIELD ==
    /\ InsIs("CALCULATE_FIELD")
    /\ \E v \in pofdp_get_32value(Ins.field), w \in pofdp_get_32value(Ins.operand) :
          IF v = Bad \/ w = Bad \/ Ins.calc \notin Calculations THEN Fail
          ELSE \E r \in Calculate(Ins.calc, v, w) : NextIns(write_32value(Ins.field, r, d))

execute_MOVE_PACKET_OFFSET ==
    /\ InsIs("MOVE_PACKET_OFFSET")
    /\ \E v \in pofdp_get_32value(Ins.movement) :
          LET n == ToInt16(IF Ins.forward THEN ToInt16(v) ELSE -ToInt16(v))
          IN  IF v = Bad \/ ~MoveOK(n) THEN Fail ELSE NextIns(movePacketBufOffset(n, d))

\* WRITE_ACTIONS, CLEAR_ACTIONS, EXPERIMENTER and every other type.
unsupported_instruction ==
    /\ pc = "ins" /\ ~d.packet_done /\ d.ins < POF_MAX_INSTRUCTION_NUM
    /\ Ins.type \in {"WRITE_ACTIONS", "CLEAR_ACTIONS", "EXPERIMENTER", "none"}
    /\ Fail

\* Behind the last slot of an entry comes its priority, which is taken for
\* the type of an instruction made of the entry's match fields.
beyond_instructions ==
    /\ pc = "ins" /\ ~d.packet_done /\ d.ins >= POF_MAX_INSTRUCTION_NUM
    /\ Fail \/ Crash

\* The end of the loop of pofdp_instruction_execute.
packet_finished ==
    /\ pc = "ins" /\ d.packet_done
    /\ pc' = "recv" /\ d' = NoPacket /\ sent' = <<>> /\ UNCHANGED <<tables, alive>>
-----------------------------------------------------------------------------
(* Actions.                                                                *)

\* Mutant: the loop looks at the number of actions only.
MutantActing == d.actNum > 0

\* Mutant: the last action of a list is left out.
MutantActingOffByOne == d.actNum > 1 /\ ~d.packet_done

Acting == d.actNum > 0 /\ ~d.packet_done

Act == d.acts[d.act]

ActIs(type) == pc = "act" /\ Acting /\ Act.type = type

\* pofdp_action_execute returns, from all nested groups at once: the list and
\* its number are those of the innermost group for all of them.
actions_finished ==
    /\ pc = "act" /\ ~Acting
    /\ \/ Received /\ NextIns(d)
       \/ ~Received /\ Fail

\* pofdp_send_raw: refused when too long, and when the port is unknown or
\* sendto fails.  A flood stops at the first port that fails.
FloodPorts == Ports \ NoFlood

SendRaw(ports, len) ==
    IF len > POF_MTU_LENGTH /\ ports # {} THEN Fail
    ELSE \/ /\ ports \subseteq Ports
            /\ sent' = Append(sent, [to |-> "ports", len |-> len, at |-> d.at, table |-> 0])
            /\ pc' = "act" /\ d' = action_update(d) /\ UNCHANGED <<tables, alive>>
         \/ ports # {} /\ Fail

execute_OUTPUT ==
    /\ ActIs("OUTPUT")
    /\ \E v \in pofdp_get_32value(Act.port) :
          IF \/ Act.packet_offset > d.left
             \/ Act.metadata_end > (IF Received THEN POFDP_METADATA_MAX_LEN ELSE 0)
             \/ v = Bad
             \/ v \div 65536 # 0
          THEN Fail
          ELSE SendRaw(IF v % 65536 = 255 THEN FloodPorts ELSE {v % 65536},
                       d.left - Act.packet_offset + Act.metadata_len)

execute_SET_FIELD ==
    /\ ActIs("SET_FIELD") \/ ActIs("SET_FIELD_FROM_METADATA")
    /\ IF d.left < Act.end THEN Fail ELSE NextAct(d)

execute_MODIFY_FIELD ==
    /\ ActIs("MODIFY_FIELD")
    /\ \E v \in pofdp_get_32value(Act.field) :
          IF v = Bad THEN Fail ELSE NextAct(write_32value(Act.field, v + Act.increment, d))

insertTag(bytes, x) == [x EXCEPT !.left = @ + bytes, !.mlen = (@ + bytes) % 65536]

\* Mutant: the room behind the packet is not checked.
MutantInsertTagOK(bytes) == TRUE

insertTagOK(bytes) == d.offset + d.left + bytes <= POFDP_PACKET_RAW_MAX_LEN

\* A tag behind the end of the packet is not refused: the length behind it is
\* unsigned, and as uint16_t far too long for the copies.
execute_ADD_FIELD ==
    /\ ActIs("ADD_FIELD")
    /\ LET bytes == ToBytesCeil(Act.len)
       IN  \/ (Act.len > 128 \/ ~insertTagOK(bytes)) /\ Fail
           \/ /\ Act.len <= 128 /\ insertTagOK(bytes)
              /\ \/ Received /\ NextAct(insertTag(bytes, d))
                 \/ (~Received \/ Act.pos > 8 * d.left) /\ Crash

\* The bits behind the tag are counted in a uint16_t and tested as int16_t.
DeleteOK(len) == ToInt16(8 * d.left - (Act.pos + len)) >= 0

\* Mutant: a tag that ends within a byte takes the whole byte.
MutantDeleteTag(len, x) ==
    [x EXCEPT !.left = ToBytesCeil(8 * (@ - ToBytesCeil(len))),
              !.mlen = (@ - ((len \div 8) % 256)) % 65536]

deleteTag(len, x) ==
    [x EXCEPT !.left = ToBytesCeil(8 * @ - len),
              !.mlen = (@ - ((len \div 8) % 256)) % 65536]

execute_DELETE_FIELD ==
    /\ ActIs("DELETE_FIELD")
    /\ \E len \in pofdp_get_32value(Act.len) :
          IF len = Bad \/ ~DeleteOK(len) THEN Fail
          ELSE IF Received THEN NextAct(deleteTag(len, d)) ELSE Crash

\* calChecksum divides by the length of the checksum, and clears the place for
\* it first, in the packet or in the metadata (dest.from).
execute_CALCULATE_CHECKSUM ==
    /\ ActIs("CALCULATE_CHECKSUM")
    /\ CASE Act.len > 64 -> Fail
         [] Act.len = 0 \/ (Act.dest.from = "metadata" /\ ~Received) -> Crash
         [] OTHER -> \E v \in FieldValues : NextAct(write_32value(Act.dest, v, d))

\* The list of the group replaces the list in execution.
execute_GROUP ==
    /\ ActIs("GROUP")
    /\ \/ ~Received /\ (Fail \/ Crash)
       \/ Received /\ Act.id \notin DOMAIN Groups /\ Fail
       \/ /\ Received /\ Act.id \in DOMAIN Groups
          /\ LET g == Groups[Act.id]
             IN  CounterIncrease(g.counter,
                    Go("act", [d EXCEPT !.acts = g.acts, !.act = 1, !.actNum = Len(g.acts),
                                        !.due = @ - 1 + Len(g.acts)]))

execute_DROP ==
    /\ ActIs("DROP")
    /\ NextAct([d EXCEPT !.packet_done = TRUE])

execute_PACKET_IN ==
    /\ ActIs("PACKET_IN")
    /\ AnyResource(packet_in(d, "act", action_update(d)))

execute_COUNTER ==
    /\ ActIs("COUNTER")
    /\ AnyResource(CounterIncrease(Act.id, NextAct(d)))

unsupported_action == ActIs("EXPERIMENTER") /\ Fail
-----------------------------------------------------------------------------
\* The process is started again and the controller fills the tables again.
Restart == ~alive /\ alive' = TRUE /\ UNCHANGED <<tables, pc, d, sent>>

pofdp_instruction_execute ==
    \/ execute_GOTO_TABLE \/ execute_GOTO_DIRECT_TABLE \/ execute_METER
    \/ execute_WRITE_METADATA \/ execute_WRITE_METADATA_FROM_PACKET
    \/ execute_APPLY_ACTIONS \/ execute_CONDITIONAL_JMP \/ execute_CALCULATE_FIELD
    \/ execute_MOVE_PACKET_OFFSET \/ unsupported_instruction \/ beyond_instructions
    \/ packet_finished

pofdp_action_execute ==
    \/ execute_OUTPUT \/ execute_SET_FIELD \/ execute_MODIFY_FIELD \/ execute_ADD_FIELD
    \/ execute_DELETE_FIELD \/ execute_CALCULATE_CHECKSUM \/ execute_GROUP \/ execute_DROP
    \/ execute_PACKET_IN \/ execute_COUNTER \/ unsupported_action \/ actions_finished

Next ==
    \/ \E len \in PacketLens : recv_raw(len)
    \/ \E m \in PacketOuts : packet_out(m)
    \/ pofdp_instruction_execute
    \/ pofdp_action_execute
    \/ Restart

Spec == Init /\ [][Next]_vars

\* A receive task that has a packet goes on running.
FairSpec == Spec /\ WF_vars(pofdp_instruction_execute \/ pofdp_action_execute)
-----------------------------------------------------------------------------
(* Properties.                                                             *)

TypeOK ==
    /\ alive \in BOOLEAN
    /\ pc \in {"recv", "ins", "act"}
    /\ d.todo \in UInt8 /\ d.done \in UInt8 /\ d.actNum \in UInt8
    /\ d.meta \in 0..(FieldMod - 1)
    /\ d.mlen \in {NoMetadata} \cup UInt16
    /\ d.table.type \in TableTypes

\* The pointer to the next instruction and the two 8-bit numbers kept beside
\* it agree through every jump forward and back, and so do the pointer to the
\* next action and the number of actions left, also in groups.
CountersAgree ==
    /\ pc # "recv" /\ Received => d.ins = d.done /\ d.todo + d.done = Len(d.entry)
    /\ pc = "act" /\ d.actNum > 0 => d.act + d.actNum = Len(d.acts) + 1

\* However it is moved, lengthened and shortened, the packet begins within
\* the room before it and ends within the buffer, as long as no tag of 256
\* bytes or more is deleted.
PacketInside ==
    /\ d.offset >= -POFDP_PACKET_PREBUF_LEN
    /\ d.left >= 0
    /\ d.offset + d.left <= POFDP_PACKET_RAW_MAX_LEN

\* The length in the metadata, which counters add up and tables can match, is
\* the length of the whole packet after every change, tags that end within a
\* byte included, as long as no tag of 256 bytes or more is deleted. It is a
\* uint16_t: a packet that was moved back into the room before it may lose more
\* bytes than it had, and its length is then counted from 65536 down.
WholeLength == Received => d.mlen = (d.offset + d.left) % 65536

\* A PACKET_IN names the table the packet was looked up in, by the ID that
\* the instruction to go there had, through the two numberings of tables.
PacketInTruthful ==
    \A i \in DOMAIN sent : sent[i].to = "controller" => sent[i].table = sent[i].at

\* Once a packet is done (dropped, or not matched) nothing is sent on its
\* behalf, whatever actions, groups and instructions are still listed.
NothingAfterDone ==
    [][d.packet_done => sent' \in {sent, <<>>}]_vars

\* README: "All of the instructions and actions belong to this flow entry will
\* be executed": when the loop over the actions ends without an error or a
\* drop, no action of a list it came to is left out.
AllActionsExecuted == pc = "act" /\ ~Acting /\ ~d.packet_done => d.due = 0

\* The processing of every packet comes to an end: an instruction that jumps
\* back ends its loop when the field it counts with reaches the limit.
Finishes == pc # "recv" ~> pc = "recv"
=============================================================================
