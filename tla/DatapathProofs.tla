--------------------------- MODULE DatapathProofs ---------------------------
(***************************************************************************)
(* The interpreter of instructions and actions, for every set of tables,   *)
(* groups, instructions and actions: nothing is sent for a packet that is  *)
(* done, the pointers and numbers of both loops agree, the packet stays in *)
(* its buffer and its length is right, PACKET_INs name the right table,    *)
(* and no action is left out.                                              *)
(***************************************************************************)
EXTENDS Datapath, TLAPS

\* Between packets struct pofdp_packet is cleared, so that the mark of an
\* earlier packet cannot end the next one.
Cleared == pc = "recv" => d = NoPacket

\* A step either goes on in one of the loops or clears the packet.
GoesOn == pc' \in {"ins", "act"} \/ d' = NoPacket

\* Steps that may send are taken only for packets that are not done.
Silent == d.packet_done => sent' \in {sent, <<>>}

\* Every way an instruction or action can end goes on or clears, and Go, Fail
\* and Crash send nothing.
LEMMA EndsGoOn ==
    /\ \A x : \A loop \in {"ins", "act"} : Go(loop, x) => GoesOn /\ Silent
    /\ Fail => GoesOn /\ Silent
    /\ Crash => GoesOn /\ Silent
    /\ \A x, y : \A loop \in {"ins", "act"} : packet_in(x, loop, y) => GoesOn
BY DEF Go, Fail, Crash, packet_in, GoesOn, Silent

\* The same for the two continuations of the loops.
LEMMA UpdatesGoOn ==
    \A x : /\ NextIns(x) => GoesOn /\ Silent
           /\ NextAct(x) => GoesOn /\ Silent
BY EndsGoOn DEF NextIns, NextAct

\* An instruction goes on, and sends only for a packet that is not done.
LEMMA InstructionStep ==
    pofdp_instruction_execute => GoesOn /\ Silent
<1> SUFFICES ASSUME pofdp_instruction_execute PROVE GoesOn /\ Silent
    OBVIOUS
<1>1. CASE execute_GOTO_TABLE
    <2>1. Silent
        BY <1>1 DEF execute_GOTO_TABLE, InsIs, Silent
    <2>2. nomatch => GoesOn
        BY EndsGoOn DEF nomatch
    <2>3. \A e, x : Enter(e, x) => GoesOn
        BY EndsGoOn DEF Enter, CounterIncrease
    <2> QED BY <1>1, <2>1, <2>2, <2>3, EndsGoOn DEF execute_GOTO_TABLE
<1>2. CASE execute_GOTO_DIRECT_TABLE
    <2>1. Silent
        BY <1>2 DEF execute_GOTO_DIRECT_TABLE, InsIs, Silent
    <2>2. \A e, x : Enter(e, x) => GoesOn
        BY EndsGoOn DEF Enter, CounterIncrease
    <2> QED BY <1>2, <2>1, <2>2, EndsGoOn DEF execute_GOTO_DIRECT_TABLE
<1>3. CASE execute_METER
    BY <1>3, EndsGoOn, UpdatesGoOn DEF execute_METER
<1>4. CASE execute_WRITE_METADATA
    BY <1>4, UpdatesGoOn DEF execute_WRITE_METADATA
<1>5. CASE execute_WRITE_METADATA_FROM_PACKET
    BY <1>5, EndsGoOn, UpdatesGoOn DEF execute_WRITE_METADATA_FROM_PACKET
<1>6. CASE execute_APPLY_ACTIONS
    BY <1>6, EndsGoOn DEF execute_APPLY_ACTIONS
<1>7. CASE execute_CONDITIONAL_JMP
    <2>1. \A forward, n : insJump(forward, n) => GoesOn /\ Silent
        BY EndsGoOn DEF insJump
    <2> QED BY <1>7, <2>1, EndsGoOn DEF execute_CONDITIONAL_JMP
<1>8. CASE execute_CALCULATE_FIELD
    BY <1>8, EndsGoOn, UpdatesGoOn DEF execute_CALCULATE_FIELD
<1>9. CASE execute_MOVE_PACKET_OFFSET
    BY <1>9, EndsGoOn, UpdatesGoOn DEF execute_MOVE_PACKET_OFFSET
<1>10. CASE unsupported_instruction
    BY <1>10, EndsGoOn DEF unsupported_instruction
<1>11. CASE beyond_instructions
    BY <1>11, EndsGoOn DEF beyond_instructions
<1>12. CASE packet_finished
    BY <1>12 DEF packet_finished, GoesOn, Silent
<1> QED
    BY <1>1, <1>2, <1>3, <1>4, <1>5, <1>6, <1>7, <1>8, <1>9, <1>10, <1>11, <1>12
    DEF pofdp_instruction_execute

\* An action goes on, and sends only for a packet that is not done: the loop
\* of pofdp_action_execute looks at packet_done before every action, also of a
\* group called by a group.
LEMMA ActionStep ==
    pofdp_action_execute => GoesOn /\ Silent
<1> SUFFICES ASSUME pofdp_action_execute PROVE GoesOn /\ Silent
    OBVIOUS
<1>1. CASE execute_OUTPUT
    <2>1. Silent
        BY <1>1 DEF execute_OUTPUT, ActIs, Acting, Silent
    <2>2. \A ports, len : SendRaw(ports, len) => GoesOn
        BY EndsGoOn DEF SendRaw, GoesOn
    <2> QED BY <1>1, <2>1, <2>2, EndsGoOn DEF execute_OUTPUT
<1>2. CASE execute_SET_FIELD
    BY <1>2, EndsGoOn, UpdatesGoOn DEF execute_SET_FIELD
<1>3. CASE execute_MODIFY_FIELD
    BY <1>3, EndsGoOn, UpdatesGoOn DEF execute_MODIFY_FIELD
<1>4. CASE execute_ADD_FIELD
    BY <1>4, EndsGoOn, UpdatesGoOn DEF execute_ADD_FIELD
<1>5. CASE execute_DELETE_FIELD
    BY <1>5, EndsGoOn, UpdatesGoOn DEF execute_DELETE_FIELD
<1>6. CASE execute_CALCULATE_CHECKSUM
    BY <1>6, EndsGoOn, UpdatesGoOn DEF execute_CALCULATE_CHECKSUM
<1>7. CASE execute_GROUP
    BY <1>7, EndsGoOn DEF execute_GROUP, CounterIncrease
<1>8. CASE execute_DROP
    BY <1>8, UpdatesGoOn DEF execute_DROP
<1>9. CASE execute_PACKET_IN
    <2>1. Silent
        BY <1>9 DEF execute_PACKET_IN, ActIs, Acting, Silent
    <2> QED BY <1>9, <2>1, EndsGoOn DEF execute_PACKET_IN, AnyResource
<1>10. CASE execute_COUNTER
    BY <1>10, EndsGoOn, UpdatesGoOn DEF execute_COUNTER, AnyResource, CounterIncrease
<1>11. CASE unsupported_action
    BY <1>11, EndsGoOn DEF unsupported_action
<1>12. CASE actions_finished
    BY <1>12, EndsGoOn, UpdatesGoOn DEF actions_finished
<1> QED
    BY <1>1, <1>2, <1>3, <1>4, <1>5, <1>6, <1>7, <1>8, <1>9, <1>10, <1>11, <1>12
    DEF pofdp_action_execute

\* A packet that is done, dropped in whatever nesting of groups or not matched,
\* causes nothing more to be sent (packet_done in the loops of
\* pofdp_instruction_execute and pofdp_action_execute).
THEOREM DoneIsSilent == Spec => NothingAfterDone
<1>1. Init => Cleared
    BY DEF Init, Cleared
<1>2. Cleared /\ [Next]_vars => Cleared' /\ (UNCHANGED vars \/ Silent)
    <2> SUFFICES ASSUME Cleared, Next PROVE Cleared' /\ Silent
        BY DEF Cleared, vars, NoPacket, Packet
    <2>1. CASE \E len \in PacketLens : recv_raw(len)
        BY <2>1, EndsGoOn DEF recv_raw, Cleared, Go, GoesOn
    <2>2. CASE \E m \in PacketOuts : packet_out(m)
        BY <2>2, EndsGoOn DEF packet_out, Cleared, Go, GoesOn
    <2>3. CASE pofdp_instruction_execute
        BY <2>3, InstructionStep DEF GoesOn, Cleared
    <2>4. CASE pofdp_action_execute
        BY <2>4, ActionStep DEF GoesOn, Cleared
    <2>5. CASE Restart
        BY <2>5 DEF Restart, Cleared, Silent
    <2> QED BY <2>1, <2>2, <2>3, <2>4, <2>5 DEF Next
<1>3. Cleared /\ [Next]_vars => [d.packet_done => sent' \in {sent, <<>>}]_vars
    BY <1>2 DEF Silent
<1> QED BY <1>1, <1>2, <1>3, PTL DEF Spec, NothingAfterDone
-----------------------------------------------------------------------------
(* The inductive invariant of the interpreter.                             *)

\* Where dpp->ins can point: the slots of an entry, the instruction that goes
\* to the first table, or nothing for a PACKET_OUT.
Programs == {e.slots : e \in Entries} \cup {<<set_goto_first_table>>, <<>>}

\* The lists of actions, and none.
ActionLists == Lists \cup {<<>>}

PacketType ==
    [offset : Int, left : Int, mlen : {NoMetadata} \cup UInt16, meta : 0..(FieldMod - 1),
     table : [type : TableTypes, id : Int], at : Int,
     entry : Programs, ins : Nat, todo : UInt8, done : UInt8,
     acts : ActionLists, act : Nat \ {0}, actNum : UInt8, due : Int,
     packet_done : BOOLEAN]

SentType == [to : {"controller", "ports"}, len : Int, at : Int, table : Int]

\* The lengths a DELETE_FIELD can find in its operand.
Lengths(op) ==
    CASE op.from = "imm" -> {op.value}
      [] op.from = "metadata" -> 0..(FieldMod - 1)
      [] op.from = "packet" -> FieldValues
      [] OTHER -> {}

\* No tag of 256 bytes or more is deleted, and none that ends more than 32768
\* bits behind the start of the packet: beyond that the uint8_t number of bytes
\* and the int16_t number of bits behind the tag are cut.
SmallDeletes ==
    \A l \in Lists : \A k \in 1..Len(l) :
        l[k].type = "DELETE_FIELD" =>
            \A v \in Lengths(l[k].len) : v < 2048 /\ l[k].pos + v <= 32768

\* GROUP is the last action of every list.
GroupLast ==
    \A l \in Lists : \A k \in 1..Len(l) : l[k].type = "GROUP" => k = Len(l)

\* The pointer to the next instruction and its two numbers; in the loop of the
\* actions the instruction APPLY_ACTIONS is not yet counted as done.
Counted(loop, x) ==
    /\ x.mlen # NoMetadata => x.ins = x.done /\ x.todo + x.done = Len(x.entry)
    /\ loop = "ins" => x.mlen # NoMetadata
    /\ loop = "act" /\ x.mlen # NoMetadata => x.todo >= 1
    /\ loop = "act" /\ x.actNum > 0 => x.act + x.actNum = Len(x.acts) + 1

\* The type and id of the table are those of the ID it was named by.
Placed(x) == table_id_to_ID(x.table.type, x.table.id) = x.at

\* PacketInside and WholeLength.
Whole(x) ==
    /\ x.offset >= -POFDP_PACKET_PREBUF_LEN
    /\ x.left >= 0
    /\ x.offset + x.left <= POFDP_PACKET_RAW_MAX_LEN
    /\ x.mlen # NoMetadata => x.mlen = (x.offset + x.left) % 65536

\* The actions that are due are those left of the list in execution.
Due(loop, x) == loop = "act" /\ ~x.packet_done => x.due = x.actNum

Good(loop, x) ==
    /\ x \in PacketType
    /\ Counted(loop, x)
    /\ Placed(x)
    /\ SmallDeletes => Whole(x)
    /\ GroupLast => Due(loop, x)

IInv ==
    /\ alive \in BOOLEAN
    /\ tables \in Tables
    /\ pc \in {"recv", "ins", "act"}
    /\ pc = "recv" => d = NoPacket
    /\ pc # "recv" => Good(pc, d)
    /\ sent \in Seq(SentType)
    /\ PacketInTruthful

USE DEF NoMetadata, Bad
-----------------------------------------------------------------------------
(* Ends of a handler keep the invariant.                                   *)

\* What the configuration gives: the numbers fit in their types.
LEMMA Configured ==
    /\ FieldMod \in Nat /\ FieldMod >= 1 /\ FieldValues \subseteq Nat
    /\ POFDP_PACKET_PREBUF_LEN \in Nat
    /\ POF_MTU_LENGTH \in Nat /\ POFDP_PACKET_RAW_MAX_LEN \in UInt16
    /\ POF_MTU_LENGTH <= POFDP_PACKET_RAW_MAX_LEN
    /\ IDMod \in Nat /\ IDMod >= 1
    /\ \A e \in Entries : Len(e.slots) \in UInt8
    /\ \A l \in Lists : Len(l) \in UInt8
    /\ \A m \in PacketOuts : m.len \in 0..POFDP_PACKET_RAW_MAX_LEN /\ m.acts \in Lists
<1>1. \A e \in Entries : Len(e.slots) \in UInt8
  BY ConfigurationAssumption, DatapathAssumption DEF UInt8
<1>2. \A l \in Lists : Len(l) \in UInt8
  BY ConfigurationAssumption
<1>3. \A m \in PacketOuts : m.len \in 0..POFDP_PACKET_RAW_MAX_LEN /\ m.acts \in Lists
  BY ConfigurationAssumption DEF Lists
<1> QED
  BY <1>1, <1>2, <1>3, DatapathAssumption, TableNumAssumption

\* Every place an instruction can be taken from has at most 255 of them.
LEMMA ProgramLengths == \A p \in Programs : Len(p) \in UInt8
<1>1. Len(<<set_goto_first_table>>) = 1 /\ Len(<<>>) = 0
  OBVIOUS
<1>2. ASSUME NEW p \in Programs PROVE Len(p) \in {Len(e.slots) : e \in Entries} \cup {0, 1}
  BY <1>1, Zenon DEF Programs
<1>3. \A e \in Entries : Len(e.slots) \in UInt8
  BY Configured
<1>4. 0 \in UInt8 /\ 1 \in UInt8
  BY DEF UInt8
<1> QED
  BY <1>2, <1>3, <1>4, Zenon

\* The numbers of a new packet are those of its lists.
LEMMA PacketIsTyped ==
    ASSUME NEW len \in Nat, NEW mlen \in {NoMetadata} \cup UInt16,
           NEW entry \in Programs, NEW acts \in ActionLists
    PROVE  /\ Packet(len, mlen, entry, acts) \in PacketType
           /\ Placed(Packet(len, mlen, entry, acts))
<1>1. Len(entry) \in UInt8 /\ Len(acts) \in UInt8
  BY ProgramLengths, Configured DEF UInt8, ActionLists
<1>2. [type |-> 0, id |-> 0] \in [type : TableTypes, id : Int]
  BY DEF TableTypes, POF_MAX_TABLE_TYPE
<1>3. table_id_to_ID(0, 0) = 0
  BY Configured DEF table_id_to_ID, TableBase
<1>4. 0 \in 0..(FieldMod - 1)
  BY Configured
<1>5. Packet(len, mlen, entry, acts) \in PacketType
  <2>1. 0 \in UInt8 /\ Len(acts) \in Int
    BY <1>1 DEF UInt8
  <2> QED BY <1>1, <1>2, <1>4, <2>1 DEF Packet, PacketType
<1> QED
  BY <1>3, <1>5 DEF Packet, Placed

\* An error ends the loops and leaves nothing behind.
LEMMA FailKeeps == IInv /\ (Fail \/ Crash) => IInv'
<1> SUFFICES ASSUME IInv, Fail \/ Crash PROVE IInv'
  OBVIOUS
<1>0. <<>> \in Seq(SentType)
  OBVIOUS
<1>1. sent' = <<>> /\ sent' \in Seq(SentType)
  BY <1>0, Zenon DEF Fail, Crash
<1>2. PacketInTruthful'
  BY <1>1 DEF PacketInTruthful
<1> QED
  BY <1>1, <1>2 DEF IInv, Fail, Crash

\* A handler that goes on with a good packet.
LEMMA GoKeeps ==
    ASSUME IInv, NEW loop \in {"ins", "act"}, NEW x, Good(loop, x), Go(loop, x)
    PROVE  IInv'
<1>1. Good(pc', d')
  BY DEF Go
<1>2. PacketInTruthful'
  BY DEF Go, IInv, PacketInTruthful
<1> QED
  BY <1>1, <1>2 DEF Go, IInv

\* A handler that sends one message more, a truthful one if it is a PACKET_IN.
LEMMA SendKeeps ==
    ASSUME IInv, NEW loop \in {"ins", "act"}, NEW y, Good(loop, y),
           NEW r \in SentType, r.to = "controller" => r.table = r.at,
           sent' = Append(sent, r), pc' = loop, d' = y, UNCHANGED <<tables, alive>>
    PROVE  IInv'
<1>1. Good(pc', d')
  OBVIOUS
<1>2. sent' \in Seq(SentType) /\ Len(sent') = Len(sent) + 1 /\ Len(sent) \in Nat
  BY DEF IInv
<1>3. ASSUME NEW i \in DOMAIN sent', sent'[i].to = "controller"
      PROVE  sent'[i].table = sent'[i].at
  <2>1. i \in 1..(Len(sent) + 1)
    BY <1>2
  <2>2. CASE i = Len(sent) + 1
    <3>1. sent'[i] = r
      BY <2>2, <1>2 DEF IInv
    <3> QED BY <3>1, <1>3
  <2>3. CASE i \in 1..Len(sent)
    <3>1. sent'[i] = sent[i] /\ i \in DOMAIN sent
      BY <2>3, <1>2 DEF IInv
    <3> QED BY <3>1, <1>3 DEF IInv, PacketInTruthful
  <2> QED BY <2>1, <2>2, <2>3, <1>2
<1>4. PacketInTruthful'
  BY <1>3 DEF PacketInTruthful
<1> QED
  BY <1>1, <1>2, <1>4 DEF IInv

\* pofdp_send_packet_in_to_controller for a packet whose table is right.
LEMMA PacketInKeeps ==
    ASSUME IInv, NEW loop \in {"ins", "act"}, NEW x \in PacketType, Placed(x),
           NEW y, Good(loop, y), packet_in(x, loop, y)
    PROVE  IInv'
<1> DEFINE len == (x.offset + x.left) % 65536
           r == [to |-> "controller", len |-> len, at |-> x.at,
                 table |-> table_id_to_ID(x.table.type, x.table.id)]
<1>1. CASE len > POF_PACKET_IN_MAX_LENGTH
  BY <1>1, FailKeeps DEF packet_in
<1>2. CASE ~(len > POF_PACKET_IN_MAX_LENGTH)
  <2>1. x.offset \in Int /\ x.left \in Int /\ x.at \in Int
    BY DEF PacketType
  <2>2. r.table = x.at
    BY DEF Placed
  <2>3. r \in SentType
    BY <2>1, <2>2 DEF SentType
  <2>4. sent' = Append(sent, r) /\ pc' = loop /\ d' = y /\ UNCHANGED <<tables, alive>>
    BY <1>2 DEF packet_in
  <2>5. r.to = "controller" => r.table = r.at
    BY <2>2
  <2> HIDE DEF r
  <2> QED BY <2>3, <2>4, <2>5, SendKeeps
<1> QED BY <1>1, <1>2

\* The next instruction: the last one ends the packet, and no number wraps.
LEMMA UpdateInstruction ==
    ASSUME NEW x, Good("ins", x), x.todo >= 1
    PROVE  Good("ins", instruction_update(x))
<1>1. x \in PacketType
  BY DEF Good
<1>2. /\ x.ins \in Nat /\ x.todo \in UInt8 /\ x.done \in UInt8 /\ x.mlen # NoMetadata
      /\ x.ins = x.done /\ x.todo + x.done = Len(x.entry) /\ Len(x.entry) \in UInt8
  BY <1>1, ProgramLengths DEF PacketType, Good, Counted
<1>3. CASE x.todo = 1
  <2> DEFINE y == [x EXCEPT !.packet_done = TRUE]
  <2>1. y \in PacketType
    BY <1>1 DEF PacketType
  <2>2. Counted("ins", y) /\ Placed(y) /\ (Whole(x) => Whole(y))
    BY <1>1 DEF Good, Counted, Placed, Whole, PacketType
  <2>3. instruction_update(x) = y
    BY <1>3 DEF instruction_update
  <2> QED BY <2>1, <2>2, <2>3 DEF Good, Due
<1>4. CASE x.todo # 1
  <2> DEFINE y == [x EXCEPT !.ins = x.ins + 1, !.todo = x.todo - 1, !.done = x.done + 1]
  <2>1. /\ (x.todo - 1) % 256 = x.todo - 1 /\ (x.done + 1) % 256 = x.done + 1
        /\ x.todo - 1 \in UInt8 /\ x.done + 1 \in UInt8 /\ x.ins + 1 \in Nat
    BY <1>2, <1>4 DEF UInt8
  <2>2. y \in PacketType
    BY <1>1, <2>1 DEF PacketType
  <2>3. Counted("ins", y)
    <3>1. /\ y.ins = x.ins + 1 /\ y.todo = x.todo - 1 /\ y.done = x.done + 1
          /\ y.mlen = x.mlen /\ y.entry = x.entry
      BY <1>1 DEF PacketType
    <3> HIDE DEF y
    <3> QED BY <1>2, <3>1 DEF Counted, UInt8
  <2>4. Placed(y) /\ (Whole(x) => Whole(y))
    BY <1>1 DEF Good, Placed, Whole, PacketType
  <2>5. instruction_update(x) = y
    BY <1>4, <2>1 DEF instruction_update, insJumpForward
  <2> QED BY <2>2, <2>3, <2>4, <2>5 DEF Good, Due
<1> QED BY <1>3, <1>4

\* The next action: the number of actions left does not wrap.
LEMMA UpdateAction ==
    ASSUME NEW x, Good("act", x), x.actNum > 0
    PROVE  Good("act", action_update(x))
<1>1. x \in PacketType
  BY DEF Good
<1>2. /\ x.act \in Nat \ {0} /\ x.actNum \in UInt8 /\ x.actNum >= 1 /\ x.due \in Int
      /\ x.act + x.actNum = Len(x.acts) + 1
  BY <1>1 DEF PacketType, Good, Counted, UInt8
<1> DEFINE a == IF x.actNum - 1 < 1 THEN x.act ELSE x.act + 1
           y == [x EXCEPT !.actNum = x.actNum - 1, !.act = a, !.due = x.due - 1]
<1>3. (x.actNum - 1) % 256 = x.actNum - 1 /\ x.actNum - 1 \in UInt8 /\ a \in Nat \ {0}
      /\ x.due - 1 \in Int /\ (x.actNum - 1 > 0 => a = x.act + 1)
  BY <1>2 DEF UInt8
<1>4. action_update(x) = y
  BY <1>3 DEF action_update
<1> HIDE DEF a
<1>5. y \in PacketType
  BY <1>1, <1>3 DEF PacketType
<1>6. Counted("act", y)
  BY <1>1, <1>2, <1>3 DEF Counted, PacketType, Good, UInt8
<1>7. Placed(y) /\ (Whole(x) => Whole(y))
  BY <1>1 DEF Good, Placed, Whole, PacketType
<1>8. Due("act", x) => Due("act", y)
  BY <1>1, <1>2 DEF Due, PacketType, UInt8
<1> QED
  BY <1>4, <1>5, <1>6, <1>7, <1>8 DEF Good
-----------------------------------------------------------------------------
(* What the handlers read and how they change the packet.                  *)

\* pofdp_get_32value fails or returns an unsigned number, one of those that
\* Lengths lists.
LEMMA ValueTyped ==
    ASSUME d \in PacketType, NEW op, ValueOK(op), NEW v \in pofdp_get_32value(op)
    PROVE  v # Bad => v \in Nat /\ v \in Lengths(op)
<1>1. d.meta \in 0..(FieldMod - 1)
  BY DEF PacketType
<1>2. CASE op.from = "imm"
  BY <1>2 DEF pofdp_get_32value, Lengths, ValueOK
<1>3. CASE op.from = "metadata"
  BY <1>1, <1>3, Configured DEF pofdp_get_32value, Lengths
<1>4. CASE op.from = "packet"
  BY <1>4, Configured DEF pofdp_get_32value, Lengths
<1>5. CASE op.from \notin {"imm", "metadata", "packet"}
  BY <1>5 DEF pofdp_get_32value
<1> QED BY <1>2, <1>3, <1>4, <1>5

\* A change of the metadata field alone.
LEMMA MetaKeeps ==
    ASSUME NEW loop, NEW x, Good(loop, x), NEW v \in 0..(FieldMod - 1)
    PROVE  Good(loop, [x EXCEPT !.meta = v]) /\ [x EXCEPT !.meta = v].todo = x.todo
                                             /\ [x EXCEPT !.meta = v].actNum = x.actNum
<1> DEFINE y == [x EXCEPT !.meta = v]
<1>1. x \in PacketType
  BY DEF Good
<1>2. y \in PacketType
  BY <1>1 DEF PacketType
<1>3. /\ y.offset = x.offset /\ y.left = x.left /\ y.mlen = x.mlen /\ y.table = x.table
      /\ y.at = x.at /\ y.entry = x.entry /\ y.ins = x.ins /\ y.todo = x.todo
      /\ y.done = x.done /\ y.acts = x.acts /\ y.act = x.act /\ y.actNum = x.actNum
      /\ y.due = x.due /\ y.packet_done = x.packet_done
  BY <1>1 DEF PacketType
<1> HIDE DEF y
<1>4. Good(loop, y)
  BY <1>2, <1>3 DEF Good, Counted, Placed, Whole, Due
<1> QED BY <1>3, <1>4 DEF y

\* pofdp_write_32value_to_field cuts the value to the field.
LEMMA WriteKeeps ==
    ASSUME NEW loop, NEW x, Good(loop, x), NEW field, NEW v \in Int
    PROVE  /\ Good(loop, write_32value(field, v, x))
           /\ write_32value(field, v, x).todo = x.todo
           /\ write_32value(field, v, x).actNum = x.actNum
<1>1. v % FieldMod \in 0..(FieldMod - 1)
  BY Configured
<1>2. CASE field.from = "metadata"
  BY <1>1, <1>2, MetaKeeps DEF write_32value
<1>3. CASE field.from # "metadata"
  BY <1>3 DEF write_32value
<1> QED BY <1>2, <1>3

\* The instruction at dpp->ins, when there is one, and the number of
\* instructions left counts it.
LEMMA InsTyped ==
    ASSUME IInv, pc = "ins", Ins.type # "none"
    PROVE  /\ d \in PacketType /\ d.todo >= 1
           /\ InstructionOK(Ins)
           /\ Ins.type = "APPLY_ACTIONS" => Ins.acts \in Lists
<1>1. /\ Good("ins", d) /\ d \in PacketType
  BY DEF IInv, Good
<1>2. d.ins < Len(d.entry) /\ Ins = d.entry[d.ins + 1]
  BY DEF Ins
<1>3. /\ d.ins \in Nat /\ d.todo \in UInt8 /\ d.done \in UInt8 /\ d.ins = d.done
      /\ d.todo + d.done = Len(d.entry) /\ d.entry \in Programs /\ Len(d.entry) \in UInt8
  BY <1>1, ProgramLengths DEF Good, Counted, PacketType
<1>4. d.todo >= 1 /\ d.ins + 1 \in 1..Len(d.entry)
  BY <1>2, <1>3 DEF UInt8
<1>5. CASE d.entry \in {e.slots : e \in Entries}
  <2>1. Ins \in Instructions
    BY <1>2, <1>4, <1>5 DEF Instructions
  <2>2. Ins.type = "APPLY_ACTIONS" => Ins.acts \in Lists
    BY <2>1 DEF Lists
  <2> QED BY <1>1, <1>4, <2>1, <2>2, ConfigurationAssumption
<1>6. CASE d.entry = <<set_goto_first_table>>
  <2>1. Len(d.entry) = 1
    BY <1>6
  <2>2. d.ins + 1 = 1
    BY <1>3, <1>4, <2>1
  <2>3. Ins = set_goto_first_table
    BY <1>2, <1>6, <2>2
  <2>4. 0 \in TableIDs
    BY Configured DEF TableIDs
  <2> QED BY <1>1, <1>4, <2>3, <2>4 DEF set_goto_first_table, InstructionOK
<1>7. CASE d.entry = <<>>
  BY <1>4, <1>7
<1> QED BY <1>3, <1>5, <1>6, <1>7 DEF Programs

\* The action in execution is one of the list.
LEMMA ActTyped ==
    ASSUME IInv, pc = "act", Acting
    PROVE  /\ Good("act", d) /\ d \in PacketType /\ d.actNum > 0
           /\ d.acts \in Lists /\ d.act \in 1..Len(d.acts)
           /\ ActionOK(Act)
<1>1. /\ Good("act", d) /\ d \in PacketType /\ d.actNum > 0
  BY DEF IInv, Good, Acting
<1>2. /\ d.act \in Nat /\ d.act >= 1 /\ d.actNum \in Nat /\ d.acts \in Lists \cup {<<>>}
      /\ d.act + d.actNum = Len(d.acts) + 1
  BY <1>1 DEF Good, Counted, PacketType, UInt8, ActionLists
<1>3. Len(d.acts) \in Nat
  BY <1>2, Configured DEF UInt8
<1>4. d.act \in 1..Len(d.acts)
  BY <1>1, <1>2, <1>3
<1>5. d.acts \in Lists
  BY <1>2, <1>4
<1> QED BY <1>1, <1>4, <1>5, ConfigurationAssumption DEF Act

\* poflr_table_ID_to_id finds the type and id that poflr_table_id_to_ID takes
\* back to the same ID, or none.
LEMMA TableFound ==
    ASSUME NEW ID \in TableIDs, table_ID_to_id(ID) # NoTableId
    PROVE  LET t == table_ID_to_id(ID)
           IN  t \in [type : TableTypes, id : Int] /\ table_id_to_ID(t.type, t.id) = ID
<1> DEFINE n == tableNumMaxEachType
           t == table_ID_to_id(ID)
<1>1. /\ n[0] \in Nat /\ n[1] \in Nat /\ n[2] \in Nat /\ n[3] \in Nat
      /\ IDMod \in Nat /\ ID \in Nat /\ ID < IDMod
  BY TableNumAssumption, Configured DEF TableTypes, POF_MAX_TABLE_TYPE, TableIDs
<1>2. ID % IDMod = ID
  BY <1>1
<1>3. CASE ID < n[0]
  <2>1. t = [type |-> 0, id |-> ID]
    BY <1>1, <1>3 DEF table_ID_to_id
  <2> HIDE DEF t
  <2> QED BY <1>1, <1>2, <2>1
      DEF table_id_to_ID, TableBase, TableTypes, POF_MAX_TABLE_TYPE, t
<1>4. CASE ID >= n[0] /\ ID - n[0] < n[1]
  <2>1. t = [type |-> 1, id |-> ID - n[0]]
    BY <1>1, <1>4 DEF table_ID_to_id
  <2>2. n[0] + (ID - n[0]) = ID
    BY <1>1
  <2> HIDE DEF t
  <2> QED BY <1>1, <1>2, <2>1, <2>2
      DEF table_id_to_ID, TableBase, TableTypes, POF_MAX_TABLE_TYPE, t
<1>5. CASE ID >= n[0] /\ ID - n[0] >= n[1] /\ ID - n[0] - n[1] < n[2]
  <2>1. t = [type |-> 2, id |-> ID - n[0] - n[1]]
    BY <1>1, <1>5 DEF table_ID_to_id
  <2>2. (n[0] + n[1]) + (ID - n[0] - n[1]) = ID
    BY <1>1
  <2> HIDE DEF t
  <2> QED BY <1>1, <1>2, <2>1, <2>2
      DEF table_id_to_ID, TableBase, TableTypes, POF_MAX_TABLE_TYPE, t
<1>6. CASE /\ ID >= n[0] /\ ID - n[0] >= n[1] /\ ID - n[0] - n[1] >= n[2]
           /\ ID - n[0] - n[1] - n[2] < n[3]
  <2>1. t = [type |-> 3, id |-> ID - n[0] - n[1] - n[2]]
    BY <1>1, <1>6 DEF table_ID_to_id
  <2>2. (n[0] + n[1] + n[2]) + (ID - n[0] - n[1] - n[2]) = ID
    BY <1>1
  <2> HIDE DEF t
  <2> QED BY <1>1, <1>2, <2>1, <2>2
      DEF table_id_to_ID, TableBase, TableTypes, POF_MAX_TABLE_TYPE, t
<1>7. CASE /\ ID >= n[0] /\ ID - n[0] >= n[1] /\ ID - n[0] - n[1] >= n[2]
           /\ ID - n[0] - n[1] - n[2] >= n[3]
  BY <1>1, <1>7 DEF table_ID_to_id
<1> QED BY <1>1, <1>3, <1>4, <1>5, <1>6, <1>7

\* movePacketBufOffset within the checks of its callers: the packet does not
\* leave the buffer, and where it ends stays.
LEMMA MoveKeeps ==
    ASSUME Good("ins", d), NEW n \in Int, MoveOK(n)
    PROVE  /\ Good("ins", movePacketBufOffset(n, d))
           /\ movePacketBufOffset(n, d).todo = d.todo
<1> DEFINE y == [d EXCEPT !.offset = d.offset + n, !.left = d.left - n]
<1>1. /\ d \in PacketType /\ d.offset \in Int /\ d.left \in Int
  BY DEF Good, PacketType
<1>2. movePacketBufOffset(n, d) = y
  BY DEF movePacketBufOffset
<1>3. y \in PacketType
  <2>1. d.offset + n \in Int /\ d.left - n \in Int
    BY <1>1
  <2> QED BY <1>1, <2>1 DEF PacketType
<1>4. /\ y.offset = d.offset + n /\ y.left = d.left - n /\ y.mlen = d.mlen
      /\ y.table = d.table /\ y.at = d.at /\ y.entry = d.entry /\ y.ins = d.ins
      /\ y.todo = d.todo /\ y.done = d.done /\ y.packet_done = d.packet_done
  BY <1>1 DEF PacketType
<1> HIDE DEF y
<1>5. Whole(d) => Whole(y)
  <2>1. y.offset + y.left = d.offset + d.left
    BY <1>1, <1>4
  <2>2. POFDP_PACKET_PREBUF_LEN \in Nat
    BY Configured
  <2>3. y.offset >= -POFDP_PACKET_PREBUF_LEN /\ y.left >= 0
    BY <1>1, <1>4, <2>2 DEF MoveOK
  <2> QED BY <1>4, <2>1, <2>3 DEF Whole
<1>6. Counted("ins", y) /\ Placed(y) /\ Due("ins", y)
  BY <1>4 DEF Good, Counted, Placed, Due
<1> QED BY <1>2, <1>3, <1>4, <1>5, <1>6 DEF Good

\* int16_t numbers are integers.
LEMMA Int16 == \A v \in Int : ToInt16(v) \in Int
BY DEF ToInt16

\* The first half of a jump to a table: the new position is inside, the table
\* is the one the instruction names.
LEMMA GotoKeeps ==
    ASSUME IInv, pc = "ins", Ins.type \in {"GOTO_TABLE", "GOTO_DIRECT_TABLE"}, GotoOK
    PROVE  Good("ins", Goto)
<1> DEFINE n == ToInt16(Ins.offset)
           x == movePacketBufOffset(n, d)
           t == table_ID_to_id(Ins.id)
<1>1. Good("ins", d) /\ Ins.id \in TableIDs /\ Ins.offset \in Nat
  BY InsTyped DEF IInv, InstructionOK
<1>2. n \in Int
  BY <1>1, Int16
<1>3. Good("ins", x)
  BY <1>1, <1>2, MoveKeeps DEF GotoOK
<1>4. t \in [type : TableTypes, id : Int] /\ table_id_to_ID(t.type, t.id) = Ins.id
  BY <1>1, TableFound DEF GotoOK
<1>5. Ins.id \in Int
  BY <1>1, Configured DEF TableIDs
<1> DEFINE y == [x EXCEPT !.table = t, !.at = Ins.id]
<1>6. Goto = y
  BY DEF Goto
<1> HIDE DEF x, t
<1>7. x \in PacketType
  BY <1>3 DEF Good
<1>8. y \in PacketType
  BY <1>4, <1>5, <1>7 DEF PacketType
<1>9. /\ y.offset = x.offset /\ y.left = x.left /\ y.mlen = x.mlen
      /\ y.table = t /\ y.at = Ins.id /\ y.entry = x.entry /\ y.ins = x.ins
      /\ y.todo = x.todo /\ y.done = x.done /\ y.packet_done = x.packet_done
  BY <1>7 DEF PacketType
<1> HIDE DEF y
<1>10. Good("ins", y)
  BY <1>3, <1>4, <1>8, <1>9 DEF Good, Counted, Placed, Whole, Due
<1> QED BY <1>6, <1>10

\* The instructions of the matched entry take the place of the current ones.
LEMMA EnterKeeps ==
    ASSUME IInv, NEW e \in Entries, NEW x, Good("ins", x), Enter(e, x)
    PROVE  IInv'
<1> DEFINE y == [x EXCEPT !.entry = e.slots, !.ins = 0, !.todo = Len(e.slots), !.done = 0]
<1>1. x \in PacketType
  BY DEF Good
<1>2. e.slots \in Programs /\ Len(e.slots) \in UInt8 /\ 0 \in UInt8 /\ 0 \in Nat
  BY Configured DEF Programs, UInt8
<1>3. y \in PacketType
  BY <1>1, <1>2 DEF PacketType
<1>4. /\ y.offset = x.offset /\ y.left = x.left /\ y.mlen = x.mlen
      /\ y.table = x.table /\ y.at = x.at /\ y.entry = e.slots /\ y.ins = 0
      /\ y.todo = Len(e.slots) /\ y.done = 0 /\ y.packet_done = x.packet_done
  BY <1>1 DEF PacketType
<1>5. Go("ins", y) \/ Fail \/ Crash
  BY DEF Enter, CounterIncrease
<1> HIDE DEF y
<1>6. Counted("ins", y)
  BY <1>2, <1>4 DEF Good, Counted, UInt8
<1>7. Good("ins", y)
  BY <1>3, <1>4, <1>6 DEF Good, Placed, Whole, Due
<1> QED BY <1>5, <1>7, GoKeeps, FailKeeps

\* A jump within the instructions: neither number wraps, because both are
\* checked before.
LEMMA JumpKeeps ==
    ASSUME IInv, pc = "ins", NEW forward, NEW n \in Nat, insJump(forward, n)
    PROVE  IInv'
<1>1. Good("ins", d) /\ d \in PacketType
  BY DEF IInv, Good
<1>2. /\ d.ins \in Nat /\ d.todo \in UInt8 /\ d.done \in UInt8 /\ d.ins = d.done
      /\ d.todo + d.done = Len(d.entry) /\ Len(d.entry) \in UInt8
  BY <1>1, ProgramLengths DEF Good, Counted, PacketType
<1>3. CASE forward /\ ~(n > d.todo)
  <2> DEFINE y == [d EXCEPT !.ins = d.ins + n, !.todo = d.todo - n, !.done = d.done + n]
  <2>1. /\ (d.todo - n) % 256 = d.todo - n /\ (d.done + n) % 256 = d.done + n
        /\ d.todo - n \in UInt8 /\ d.done + n \in UInt8 /\ d.ins + n \in Nat
    <3>1. /\ d.todo - n \in Nat /\ d.todo - n < 256
          /\ d.done + n \in Nat /\ d.done + n < 256 /\ d.ins + n \in Nat
      BY <1>2, <1>3 DEF UInt8
    <3>2. \A k \in Nat : k < 256 => k % 256 = k
      OBVIOUS
    <3> QED BY <3>1, <3>2 DEF UInt8
  <2>2. y \in PacketType
    BY <1>1, <2>1 DEF PacketType
  <2>3. /\ y.offset = d.offset /\ y.left = d.left /\ y.mlen = d.mlen
        /\ y.table = d.table /\ y.at = d.at /\ y.entry = d.entry /\ y.ins = d.ins + n
        /\ y.todo = d.todo - n /\ y.done = d.done + n /\ y.packet_done = d.packet_done
    BY <1>1 DEF PacketType
  <2>4. Go("ins", y)
    BY <1>3, <2>1 DEF insJump, insJumpForward
  <2> HIDE DEF y
  <2>5. Counted("ins", y)
    BY <1>1, <1>2, <2>3 DEF Counted, Good, UInt8
  <2>6. Good("ins", y)
    BY <1>1, <2>2, <2>3, <2>5 DEF Good, Placed, Whole, Due
  <2> QED BY <2>4, <2>6, GoKeeps
<1>4. CASE ~forward /\ ~(n > d.done)
  <2> DEFINE y == [d EXCEPT !.ins = d.ins - n, !.done = d.done - n, !.todo = d.todo + n]
  <2>1. /\ (d.todo + n) % 256 = d.todo + n
        /\ d.todo + n \in UInt8 /\ d.done - n \in UInt8 /\ d.ins - n \in Nat
    BY <1>2, <1>4 DEF UInt8
  <2>2. y \in PacketType
    BY <1>1, <2>1 DEF PacketType
  <2>3. /\ y.offset = d.offset /\ y.left = d.left /\ y.mlen = d.mlen
        /\ y.table = d.table /\ y.at = d.at /\ y.entry = d.entry /\ y.ins = d.ins - n
        /\ y.todo = d.todo + n /\ y.done = d.done - n /\ y.packet_done = d.packet_done
    BY <1>1 DEF PacketType
  <2>4. Go("ins", y)
    BY <1>4, <2>1 DEF insJump, insJumpBack
  <2> HIDE DEF y
  <2>5. Counted("ins", y)
    BY <1>1, <1>2, <2>3 DEF Counted, Good, UInt8
  <2>6. Good("ins", y)
    BY <1>1, <2>2, <2>3, <2>5 DEF Good, Placed, Whole, Due
  <2> QED BY <2>4, <2>6, GoKeeps
<1>5. CASE (forward /\ n > d.todo) \/ (~forward /\ n > d.done)
  BY <1>5, FailKeeps DEF insJump
<1> QED BY <1>3, <1>4, <1>5

\* The test and the result of deleteTagFromPacket, and the bytes it counts.
Fits(left, pos, len) == ToInt16(8 * left - (pos + len)) >= 0
Rest(left, len)      == ToBytesCeil(8 * left - len)
WholeBytes(len)      == len \div 8

\* Deleting the bits of a tag that is inside the packet takes away the whole
\* bytes of it, none of them twice, and cuts no number.
LEMMA DeleteArithmetic ==
    ASSUME NEW left \in Nat, NEW pos \in Nat, NEW len \in Nat,
           len < 2048, pos + len <= 32768, Fits(left, pos, len)
    PROVE  /\ Rest(left, len) = left - WholeBytes(len)
           /\ WholeBytes(len) \in Nat /\ WholeBytes(len) <= left
           /\ WholeBytes(len) % 256 = WholeBytes(len)
<1> DEFINE k == 8 * left - (pos + len)
           q == len \div 8
<1>1. k \in Int /\ k >= -32768
  OBVIOUS
<1>2. k >= 0
  <2> SUFFICES ASSUME k < 0 PROVE FALSE
    BY <1>1
  <2>1. k + 32768 \in Nat /\ k + 32768 < 65536
    BY <1>1
  <2>2. (k + 32768) % 65536 = k + 32768
    BY <2>1
  <2>3. ToInt16(k) >= 0
    BY DEF Fits
  <2> QED BY <1>1, <2>2, <2>3 DEF ToInt16
<1>3. q \in Nat /\ 8 * q <= len /\ len < 8 * q + 8
  OBVIOUS
<1> HIDE DEF q
<1>4. 8 * left >= len
  BY <1>2
<1>5. q <= left /\ q < 256
  BY <1>3, <1>4
<1>6. q % 256 = q
  BY <1>3, <1>5
<1>7. (8 * left - len + 7) \div 8 = left - q
  BY <1>3, <1>4, <1>5
<1>8. ToBytesCeil(8 * left - len) = left - q
  BY <1>4, <1>7 DEF ToBytesCeil
<1> QED BY <1>3, <1>5, <1>6, <1>8 DEF q, Rest, WholeBytes

\* The hypothesis for one action.
LEMMA SmallDelete ==
    ASSUME SmallDeletes, NEW l \in Lists, NEW k \in 1..Len(l), NEW a, a = l[k],
           a.type = "DELETE_FIELD", NEW v \in Lengths(a.len)
    PROVE  v < 2048 /\ a.pos + v <= 32768
BY DEF SmallDeletes

\* Numbers of bytes are integers.
LEMMA BytesCeil ==
    /\ \A n \in Int : ToBytesCeil(n) \in Int
    /\ \A n \in Nat : ToBytesCeil(n) \in Nat
<1>1. \A n \in Int : (n + 7) \div 8 \in Int
  OBVIOUS
<1>2. \A n \in Nat : (n + 7) \div 8 \in Nat /\ n + 7 >= 0
  OBVIOUS
<1> QED BY <1>1, <1>2 DEF ToBytesCeil

Resized(x, l, m) == [x EXCEPT !.left = l, !.mlen = m % 65536]

\* A change of the length, and of its copy in the metadata by the same amount.
LEMMA LengthKeeps ==
    ASSUME NEW x, Good("act", x), x.mlen # NoMetadata, NEW l \in Int, NEW m \in Int,
           SmallDeletes => /\ l >= 0
                           /\ x.offset + l <= POFDP_PACKET_RAW_MAX_LEN
                           /\ m = x.mlen + (l - x.left)
    PROVE  Good("act", Resized(x, l, m)) /\ Resized(x, l, m).actNum = x.actNum
<1> DEFINE w == m % 65536
           y == [x EXCEPT !.left = l, !.mlen = w]
<1>1. /\ x \in PacketType /\ x.offset \in Int /\ x.left \in Int /\ x.mlen \in UInt16
  BY DEF Good, PacketType
<1>2. w \in UInt16 /\ w # NoMetadata
  BY DEF UInt16
<1> HIDE DEF w
<1>3. y \in PacketType
  BY <1>1, <1>2 DEF PacketType
<1>4. /\ y.offset = x.offset /\ y.left = l /\ y.mlen = w /\ y.table = x.table
      /\ y.at = x.at /\ y.entry = x.entry /\ y.ins = x.ins /\ y.todo = x.todo
      /\ y.done = x.done /\ y.acts = x.acts /\ y.act = x.act /\ y.actNum = x.actNum
      /\ y.due = x.due /\ y.packet_done = x.packet_done
  BY <1>1 DEF PacketType
<1> HIDE DEF y
<1>5. Counted("act", y) /\ Placed(y) /\ (Due("act", x) => Due("act", y))
  BY <1>2, <1>4 DEF Good, Counted, Placed, Due
<1>6. SmallDeletes => Whole(y)
  <2> SUFFICES ASSUME SmallDeletes PROVE Whole(y)
    OBVIOUS
  <2>1. x.mlen = (x.offset + x.left) % 65536 /\ x.offset >= -POFDP_PACKET_PREBUF_LEN
    BY DEF Good, Whole
  <2>2. ASSUME NEW a \in Int, NEW b \in Int PROVE ((a % 65536) + b) % 65536 = (a + b) % 65536
    OBVIOUS
  <2>3. m = ((x.offset + x.left) % 65536) + (l - x.left)
    BY <2>1
  <2>4. w = ((x.offset + x.left) + (l - x.left)) % 65536
    BY <1>1, <2>2, <2>3 DEF w
  <2>5. (x.offset + x.left) + (l - x.left) = x.offset + l
    BY <1>1
  <2>6. y.mlen = (y.offset + y.left) % 65536
    BY <1>4, <2>4, <2>5
  <2> QED BY <1>4, <2>1, <2>6 DEF Whole
<1>7. Good("act", y)
  BY <1>3, <1>5, <1>6 DEF Good
<1> QED BY <1>4, <1>7 DEF y, w, Resized

\* The end of a handler of an instruction.
LEMMA NextInsKeeps ==
    ASSUME IInv, NEW x, Good("ins", x), x.todo >= 1, NextIns(x)
    PROVE  IInv'
BY UpdateInstruction, GoKeeps DEF NextIns

\* The end of a handler of an action.
LEMMA NextActKeeps ==
    ASSUME IInv, NEW x, Good("act", x), x.actNum > 0, NextAct(x)
    PROVE  IInv'
BY UpdateAction, GoKeeps DEF NextAct
-----------------------------------------------------------------------------
(* Every step keeps the invariant.                                         *)

\* A new packet, received or of a PACKET_OUT.
LEMMA ReceiveKeeps ==
    ASSUME IInv,
           (\E len \in PacketLens : recv_raw(len)) \/ (\E m \in PacketOuts : packet_out(m))
    PROVE  IInv'
<1>1. ASSUME NEW len \in PacketLens, recv_raw(len) PROVE IInv'
  <2> DEFINE p == <<set_goto_first_table>>
             x == Packet(len, len, p, <<>>)
  <2>1. len \in Nat /\ len \in UInt16 /\ len <= POFDP_PACKET_RAW_MAX_LEN /\ len # NoMetadata
    BY <1>1, Configured, DatapathAssumption DEF recv_raw, UInt16
  <2>2. p \in Programs /\ Len(p) = 1
    BY DEF Programs
  <2> HIDE DEF p
  <2>3. x \in PacketType /\ Placed(x)
    BY <2>1, <2>2, PacketIsTyped DEF ActionLists
  <2>4. Counted("ins", x) /\ Due("ins", x)
    BY <2>1, <2>2 DEF Counted, Due, Packet
  <2>5. Whole(x)
    <3>1. x.offset = 0 /\ x.left = len /\ x.mlen = len
      BY DEF Packet
    <3>2. len % 65536 = len /\ 0 + len = len
      BY <2>1 DEF UInt16
    <3>3. POFDP_PACKET_PREBUF_LEN \in Nat
      BY Configured
    <3> HIDE DEF x
    <3>4. 0 >= -POFDP_PACKET_PREBUF_LEN /\ len >= 0
      BY <2>1, <3>3
    <3> QED BY <2>1, <3>1, <3>2, <3>4 DEF Whole
  <2>6. Go("ins", x)
    BY <1>1 DEF recv_raw, p
  <2> HIDE DEF x
  <2> QED BY <2>3, <2>4, <2>5, <2>6, GoKeeps DEF Good
<1>2. ASSUME NEW m \in PacketOuts, packet_out(m) PROVE IInv'
  <2> DEFINE x == Packet(m.len, NoMetadata, <<>>, m.acts)
  <2>1. m.len \in Nat /\ m.len <= POFDP_PACKET_RAW_MAX_LEN /\ m.acts \in Lists
    BY Configured
  <2>2. <<>> \in Programs
    BY DEF Programs
  <2>3. x \in PacketType /\ Placed(x)
    BY <2>1, <2>2, PacketIsTyped DEF ActionLists
  <2>4. Len(m.acts) \in Nat
    BY <2>1, Configured DEF UInt8
  <2>5. Counted("act", x) /\ Due("act", x)
    BY <2>4 DEF Counted, Due, Packet
  <2>6. Whole(x)
    BY <2>1, Configured DEF Whole, Packet
  <2>7. Go("act", x)
    BY <1>2 DEF packet_out
  <2> HIDE DEF x
  <2> QED BY <2>3, <2>5, <2>6, <2>7, GoKeeps DEF Good
<1> QED BY <1>1, <1>2

Listed(x, l, n, u) == [x EXCEPT !.acts = l, !.act = 1, !.actNum = n, !.due = u]

\* A list of actions is begun, with n of them to do and u of them due.
LEMMA NewList ==
    ASSUME NEW x \in PacketType, NEW l \in Lists, NEW n \in UInt8, NEW u \in Int
    PROVE  LET y == Listed(x, l, n, u)
           IN  /\ y \in PacketType
               /\ y.offset = x.offset /\ y.left = x.left /\ y.mlen = x.mlen
               /\ y.table = x.table /\ y.at = x.at /\ y.entry = x.entry /\ y.ins = x.ins
               /\ y.todo = x.todo /\ y.done = x.done /\ y.packet_done = x.packet_done
               /\ y.acts = l /\ y.act = 1 /\ y.actNum = n /\ y.due = u
<1> DEFINE y == [x EXCEPT !.acts = l, !.act = 1, !.actNum = n, !.due = u]
<1>1. y \in PacketType
  <2>1. l \in ActionLists /\ 1 \in Nat \ {0}
    BY DEF ActionLists
  <2> QED BY <2>1 DEF PacketType
<1>2. /\ y.offset = x.offset /\ y.left = x.left /\ y.mlen = x.mlen
      /\ y.table = x.table /\ y.at = x.at /\ y.entry = x.entry /\ y.ins = x.ins
      /\ y.todo = x.todo /\ y.done = x.done /\ y.packet_done = x.packet_done
      /\ y.acts = l /\ y.act = 1 /\ y.actNum = n /\ y.due = u
  BY DEF PacketType
<1> QED BY <1>1, <1>2 DEF Listed

\* The instructions.
LEMMA InstructionKeeps ==
    ASSUME IInv, pofdp_instruction_execute
    PROVE  IInv'
<1>0. ASSUME NEW type, type # "none", InsIs(type)
      PROVE  /\ pc = "ins" /\ Ins.type = type /\ Good("ins", d) /\ d \in PacketType
             /\ d.todo >= 1 /\ InstructionOK(Ins)
             /\ (type = "APPLY_ACTIONS" => Ins.acts \in Lists)
  <2>1. pc = "ins" /\ Ins.type = type /\ Ins.type # "none"
    BY <1>0 DEF InsIs
  <2>2. Good("ins", d)
    BY <2>1 DEF IInv
  <2> QED BY <2>1, <2>2, InsTyped
<1>1. CASE execute_GOTO_TABLE
  <2>1. InsIs("GOTO_TABLE")
    BY <1>1 DEF execute_GOTO_TABLE
  <2>2. pc = "ins" /\ Ins.type = "GOTO_TABLE"
    BY <2>1 DEF InsIs
  <2>3. CASE Fail \/ Crash
    BY <2>3, FailKeeps
  <2>4. CASE GotoOK /\ nomatch
    <3>1. Good("ins", Goto)
      BY <2>2, <2>4, GotoKeeps
    <3> DEFINE y == [Goto EXCEPT !.packet_done = TRUE]
    <3>2. Goto \in PacketType /\ Placed(Goto)
      BY <3>1 DEF Good
    <3>3. packet_in(Goto, "ins", y)
      BY <2>4 DEF nomatch
    <3>4. y \in PacketType
      BY <3>2 DEF PacketType
    <3>5. /\ y.offset = Goto.offset /\ y.left = Goto.left /\ y.mlen = Goto.mlen
          /\ y.table = Goto.table /\ y.at = Goto.at /\ y.entry = Goto.entry
          /\ y.ins = Goto.ins /\ y.todo = Goto.todo /\ y.done = Goto.done
      BY <3>2 DEF PacketType
    <3> HIDE DEF y
    <3>6. Good("ins", y)
      BY <3>1, <3>4, <3>5 DEF Good, Counted, Placed, Whole, Due
    <3> QED BY <3>2, <3>3, <3>6, PacketInKeeps
  <2>5. CASE /\ GotoOK /\ Ins.id \in DOMAIN tables
             /\ \E i \in DOMAIN tables[Ins.id] : Enter(tables[Ins.id][i], Goto)
    <3>1. Good("ins", Goto)
      BY <2>2, <2>5, GotoKeeps
    <3>2. PICK i \in DOMAIN tables[Ins.id] : Enter(tables[Ins.id][i], Goto)
      BY <2>5
    <3>3. tables[Ins.id][i] \in Entries
      BY <2>5 DEF Entries, IInv
    <3> QED BY <3>1, <3>2, <3>3, EnterKeeps
  <2> QED BY <1>1, <2>3, <2>4, <2>5 DEF execute_GOTO_TABLE
<1>2. CASE execute_GOTO_DIRECT_TABLE
  <2>1. InsIs("GOTO_DIRECT_TABLE")
    BY <1>2 DEF execute_GOTO_DIRECT_TABLE
  <2>2. pc = "ins" /\ Ins.type = "GOTO_DIRECT_TABLE"
    BY <2>1 DEF InsIs
  <2>3. CASE Fail
    BY <2>3, FailKeeps
  <2>4. CASE ~Fail
    <3>1. GotoOK
      BY <1>2, <2>4 DEF execute_GOTO_DIRECT_TABLE
    <3>2. Good("ins", Goto)
      BY <2>2, <3>1, GotoKeeps
    <3>3. PICK i : Ins.id \in DOMAIN tables /\ i \in DOMAIN tables[Ins.id]
                   /\ Enter(tables[Ins.id][i], Goto)
      BY <1>2, <2>4, <3>1 DEF execute_GOTO_DIRECT_TABLE
    <3>4. tables[Ins.id][i] \in Entries
      BY <3>3 DEF Entries, IInv
    <3> QED BY <3>2, <3>3, <3>4, EnterKeeps
  <2> QED BY <2>3, <2>4
<1>3. CASE execute_METER
  <2>1. InsIs("METER")
    BY <1>3 DEF execute_METER
  <2> QED BY <1>3, <2>1, <1>0, FailKeeps, NextInsKeeps DEF execute_METER
<1>4. CASE execute_WRITE_METADATA
  <2>1. InsIs("WRITE_METADATA")
    BY <1>4 DEF execute_WRITE_METADATA
  <2>2. Good("ins", d) /\ d.todo >= 1 /\ Ins.value \in Nat
    BY <2>1, <1>0 DEF InstructionOK
  <2>3. Ins.value % FieldMod \in 0..(FieldMod - 1)
    BY <2>2, Configured
  <2> DEFINE y == [d EXCEPT !.meta = Ins.value % FieldMod]
  <2>4. Good("ins", y) /\ y.todo >= 1
    BY <2>2, <2>3, MetaKeeps
  <2>5. NextIns(y)
    BY <1>4 DEF execute_WRITE_METADATA
  <2> HIDE DEF y
  <2> QED BY <2>4, <2>5, NextInsKeeps
<1>5. CASE execute_WRITE_METADATA_FROM_PACKET
  <2>1. InsIs("WRITE_METADATA_FROM_PACKET")
    BY <1>5 DEF execute_WRITE_METADATA_FROM_PACKET
  <2>2. Good("ins", d) /\ d.todo >= 1
    BY <2>1, <1>0
  <2>3. ASSUME NEW v \in FieldValues, NextIns([d EXCEPT !.meta = v % FieldMod]) PROVE IInv'
    <3>1. v % FieldMod \in 0..(FieldMod - 1)
      BY Configured
    <3> DEFINE y == [d EXCEPT !.meta = v % FieldMod]
    <3>2. Good("ins", y) /\ y.todo >= 1
      BY <2>2, <3>1, MetaKeeps
    <3>3. NextIns(y)
      BY <2>3
    <3> HIDE DEF y
    <3> QED BY <3>2, <3>3, NextInsKeeps
  <2> QED BY <1>5, <2>3, FailKeeps DEF execute_WRITE_METADATA_FROM_PACKET
<1>6. CASE execute_APPLY_ACTIONS
  <2>1. InsIs("APPLY_ACTIONS")
    BY <1>6 DEF execute_APPLY_ACTIONS
  <2>2. Good("ins", d) /\ d \in PacketType /\ d.todo >= 1 /\ Ins.acts \in Lists
    BY <2>1, <1>0
  <2> DEFINE l == Ins.acts
             y == Listed(d, l, Len(l), Len(l))
  <2>3. Go("act", y)
    BY <1>6 DEF execute_APPLY_ACTIONS, Listed
  <2>4. Len(l) \in UInt8 /\ Len(l) \in Nat /\ Len(l) \in Int /\ l \in Lists
    BY <2>2, Configured DEF UInt8
  <2> HIDE DEF l
  <2>5. /\ y \in PacketType
        /\ y.offset = d.offset /\ y.left = d.left /\ y.mlen = d.mlen
        /\ y.table = d.table /\ y.at = d.at /\ y.entry = d.entry /\ y.ins = d.ins
        /\ y.todo = d.todo /\ y.done = d.done /\ y.packet_done = d.packet_done
        /\ y.acts = l /\ y.act = 1 /\ y.actNum = Len(l) /\ y.due = Len(l)
    BY <2>2, <2>4, NewList
  <2> HIDE DEF y
  <2>7. Counted("act", y) /\ Due("act", y)
    BY <2>2, <2>4, <2>5 DEF Good, Counted, Due
  <2>8. Good("act", y)
    BY <2>2, <2>5, <2>7 DEF Good, Placed, Whole
  <2> QED BY <2>3, <2>8, GoKeeps
<1>7. CASE execute_CONDITIONAL_JMP
  <2>1. InsIs("CONDITIONAL_JMP")
    BY <1>7 DEF execute_CONDITIONAL_JMP
  <2>2. pc = "ins" /\ d \in PacketType
        /\ \A j \in {Ins.less, Ins.equal, Ins.greater} : ValueOK(j.offset)
    BY <2>1, <1>0 DEF InstructionOK
  <2>3. CASE Fail
    BY <2>3, FailKeeps
  <2>4. CASE ~Fail
    <3>1. PICK j \in {Ins.less, Ins.equal, Ins.greater} :
             \E n \in pofdp_get_32value(j.offset) : n # Bad /\ insJump(j.forward, n)
      BY <1>7, <2>4 DEF execute_CONDITIONAL_JMP
    <3>2. PICK n \in pofdp_get_32value(j.offset) : n # Bad /\ insJump(j.forward, n)
      BY <3>1
    <3>3. n \in Nat
      BY <2>2, <3>2, ValueTyped
    <3> QED BY <2>2, <3>2, <3>3, JumpKeeps
  <2> QED BY <2>3, <2>4
<1>8. CASE execute_CALCULATE_FIELD
  <2>1. InsIs("CALCULATE_FIELD")
    BY <1>8 DEF execute_CALCULATE_FIELD
  <2>2. /\ Good("ins", d) /\ d \in PacketType /\ d.todo >= 1
        /\ ValueOK(Ins.field) /\ ValueOK(Ins.operand)
    BY <2>1, <1>0 DEF InstructionOK
  <2>3. CASE Fail
    BY <2>3, FailKeeps
  <2>4. CASE ~Fail
    <3>1. PICK v \in pofdp_get_32value(Ins.field), w \in pofdp_get_32value(Ins.operand) :
             v # Bad /\ w # Bad
             /\ \E r \in Calculate(Ins.calc, v, w) : NextIns(write_32value(Ins.field, r, d))
      BY <1>8, <2>4 DEF execute_CALCULATE_FIELD
    <3>2. v \in Nat /\ w \in Nat
      BY <2>2, <3>1, ValueTyped
    <3>3. PICK r \in Calculate(Ins.calc, v, w) : NextIns(write_32value(Ins.field, r, d))
      BY <3>1
    <3>4. r \in Int
      BY <3>2, <3>3, Configured DEF Calculate
    <3> DEFINE y == write_32value(Ins.field, r, d)
    <3>5. Good("ins", y) /\ y.todo >= 1
      BY <2>2, <3>4, WriteKeeps
    <3>6. NextIns(y)
      BY <3>3
    <3> HIDE DEF y
    <3> QED BY <3>5, <3>6, NextInsKeeps
  <2> QED BY <2>3, <2>4
<1>9. CASE execute_MOVE_PACKET_OFFSET
  <2>1. InsIs("MOVE_PACKET_OFFSET")
    BY <1>9 DEF execute_MOVE_PACKET_OFFSET
  <2>2. Good("ins", d) /\ d \in PacketType /\ d.todo >= 1 /\ ValueOK(Ins.movement)
    BY <2>1, <1>0 DEF InstructionOK
  <2>3. CASE Fail
    BY <2>3, FailKeeps
  <2>4. CASE ~Fail
    <3> DEFINE n(v) == ToInt16(IF Ins.forward THEN ToInt16(v) ELSE -ToInt16(v))
    <3>1. PICK v \in pofdp_get_32value(Ins.movement) :
             v # Bad /\ MoveOK(n(v)) /\ NextIns(movePacketBufOffset(n(v), d))
      BY <1>9, <2>4 DEF execute_MOVE_PACKET_OFFSET
    <3>2. v \in Int
      BY <2>2, <3>1, ValueTyped
    <3>3. ToInt16(v) \in Int /\ -ToInt16(v) \in Int
      BY <3>2, Int16
    <3>4. n(v) \in Int
      BY <3>3, Int16
    <3> DEFINE y == movePacketBufOffset(n(v), d)
    <3> HIDE DEF n
    <3>5. Good("ins", y) /\ y.todo >= 1
      BY <2>2, <3>1, <3>4, MoveKeeps
    <3>6. NextIns(y)
      BY <3>1
    <3> HIDE DEF y
    <3> QED BY <3>5, <3>6, NextInsKeeps
  <2> QED BY <2>3, <2>4
<1>10. CASE unsupported_instruction
  BY <1>10, FailKeeps DEF unsupported_instruction
<1>11. CASE beyond_instructions
  BY <1>11, FailKeeps DEF beyond_instructions
<1>12. CASE packet_finished
  BY <1>12, FailKeeps DEF packet_finished, Fail
<1> QED
  BY <1>1, <1>2, <1>3, <1>4, <1>5, <1>6, <1>7, <1>8, <1>9, <1>10, <1>11, <1>12
  DEF pofdp_instruction_execute

\* The actions.
LEMMA ActionKeeps ==
    ASSUME IInv, pofdp_action_execute
    PROVE  IInv'
<1>0. ASSUME NEW type, ActIs(type)
      PROVE  /\ Act.type = type /\ Good("act", d) /\ d \in PacketType /\ d.actNum > 0
             /\ ~d.packet_done /\ d.acts \in Lists /\ d.act \in 1..Len(d.acts)
             /\ Act = d.acts[d.act] /\ ActionOK(Act)
  <2>1. pc = "act" /\ Acting /\ Act.type = type
    BY <1>0 DEF ActIs
  <2> QED BY <2>1, ActTyped DEF Acting, Act
<1>1. CASE execute_OUTPUT
  <2>1. ActIs("OUTPUT")
    BY <1>1 DEF execute_OUTPUT
  <2>2. /\ Good("act", d) /\ d \in PacketType /\ d.actNum > 0
        /\ Act.packet_offset \in Nat /\ Act.metadata_len \in Nat
    BY <2>1, <1>0 DEF ActionOK
  <2> DEFINE len == d.left - Act.packet_offset + Act.metadata_len
             r == [to |-> "ports", len |-> len, at |-> d.at, table |-> 0]
             y == action_update(d)
  <2>3. CASE Fail
    BY <2>3, FailKeeps
  <2>4. CASE ~Fail
    <3>1. /\ sent' = Append(sent, r) /\ pc' = "act" /\ d' = y
          /\ UNCHANGED <<tables, alive>>
      BY <1>1, <2>4 DEF execute_OUTPUT, SendRaw
    <3>2. Good("act", y)
      BY <2>2, UpdateAction
    <3>3. len \in Int /\ d.at \in Int
      BY <2>2 DEF PacketType
    <3> HIDE DEF y, len
    <3>4. r \in SentType /\ r.to # "controller"
      BY <3>3 DEF SentType
    <3> HIDE DEF r
    <3> QED BY <3>1, <3>2, <3>4, SendKeeps
  <2> QED BY <2>3, <2>4
<1>2. CASE execute_SET_FIELD
  <2>1. ActIs("SET_FIELD") \/ ActIs("SET_FIELD_FROM_METADATA")
    BY <1>2 DEF execute_SET_FIELD
  <2>2. Good("act", d) /\ d.actNum > 0
    BY <2>1, <1>0
  <2>3. Fail \/ NextAct(d)
    BY <1>2 DEF execute_SET_FIELD
  <2> QED BY <2>2, <2>3, FailKeeps, NextActKeeps
<1>3. CASE execute_MODIFY_FIELD
  <2>1. ActIs("MODIFY_FIELD")
    BY <1>3 DEF execute_MODIFY_FIELD
  <2>2. /\ Good("act", d) /\ d \in PacketType /\ d.actNum > 0
        /\ ValueOK(Act.field) /\ Act.increment \in Int
    BY <2>1, <1>0 DEF ActionOK
  <2>3. CASE Fail
    BY <2>3, FailKeeps
  <2>4. CASE ~Fail
    <3>1. PICK v \in pofdp_get_32value(Act.field) :
             v # Bad /\ NextAct(write_32value(Act.field, v + Act.increment, d))
      BY <1>3, <2>4 DEF execute_MODIFY_FIELD
    <3>2. v \in Nat
      BY <2>2, <3>1, ValueTyped
    <3>3. v + Act.increment \in Int
      BY <2>2, <3>2
    <3> DEFINE y == write_32value(Act.field, v + Act.increment, d)
    <3>4. Good("act", y) /\ y.actNum > 0
      BY <2>2, <3>3, WriteKeeps
    <3>5. NextAct(y)
      BY <3>1
    <3> HIDE DEF y
    <3> QED BY <3>4, <3>5, NextActKeeps
  <2> QED BY <2>3, <2>4
<1>4. CASE execute_ADD_FIELD
  <2>1. ActIs("ADD_FIELD")
    BY <1>4 DEF execute_ADD_FIELD
  <2>2. Good("act", d) /\ d \in PacketType /\ d.actNum > 0 /\ Act.len \in Nat
    BY <2>1, <1>0 DEF ActionOK
  <2> DEFINE bytes == ToBytesCeil(Act.len)
  <2>3. CASE Fail \/ Crash
    BY <2>3, FailKeeps
  <2>4. CASE ~Fail /\ ~Crash
    <3>1. insertTagOK(bytes) /\ Received /\ NextAct(insertTag(bytes, d))
      BY <1>4, <2>4 DEF execute_ADD_FIELD
    <3>2. bytes \in Nat
      BY <2>2, BytesCeil
    <3> HIDE DEF bytes
    <3>3. d.offset \in Int /\ d.left \in Int /\ d.mlen \in Int /\ d.mlen # NoMetadata
      BY <2>2, <3>1 DEF PacketType, Received, UInt16
    <3> DEFINE l == d.left + bytes
               m == d.mlen + bytes
               y == Resized(d, l, m)
    <3>4. l \in Int /\ m \in Int
      BY <3>2, <3>3
    <3>5. SmallDeletes => /\ l >= 0 /\ d.offset + l <= POFDP_PACKET_RAW_MAX_LEN
                          /\ m = d.mlen + (l - d.left)
      <4>1. SmallDeletes => d.left >= 0
        BY <2>2 DEF Good, Whole
      <4>2. d.offset + l = d.offset + d.left + bytes
        BY <3>2, <3>3
      <4>3. d.offset + l <= POFDP_PACKET_RAW_MAX_LEN
        BY <3>1, <4>2 DEF insertTagOK
      <4> QED BY <3>2, <3>3, <4>1, <4>3
    <3>6. insertTag(bytes, d) = y
      BY DEF insertTag, Resized
    <3> HIDE DEF l, m
    <3>7. Good("act", y) /\ y.actNum = d.actNum
      BY <2>2, <3>3, <3>4, <3>5, LengthKeeps
    <3> HIDE DEF y
    <3> QED BY <2>2, <3>1, <3>6, <3>7, NextActKeeps
  <2> QED BY <2>3, <2>4
<1>5. CASE execute_DELETE_FIELD
  <2>1. ActIs("DELETE_FIELD")
    BY <1>5 DEF execute_DELETE_FIELD
  <2>2. /\ Good("act", d) /\ d \in PacketType /\ d.actNum > 0
        /\ d.acts \in Lists /\ d.act \in 1..Len(d.acts) /\ Act = d.acts[d.act]
        /\ Act.type = "DELETE_FIELD" /\ ValueOK(Act.len) /\ Act.pos \in Nat
    BY <2>1, <1>0 DEF ActionOK
  <2>3. CASE Fail \/ Crash
    BY <2>3, FailKeeps
  <2>4. CASE ~Fail /\ ~Crash
    <3>1. PICK len \in pofdp_get_32value(Act.len) :
             len # Bad /\ DeleteOK(len) /\ Received /\ NextAct(deleteTag(len, d))
      BY <1>5, <2>4 DEF execute_DELETE_FIELD
    <3>2. len \in Nat /\ len \in Lengths(Act.len)
      BY <2>2, <3>1, ValueTyped
    <3>3. d.offset \in Int /\ d.left \in Int /\ d.mlen \in Int /\ d.mlen # NoMetadata
      BY <2>2, <3>1 DEF PacketType, Received, UInt16
    <3> DEFINE l == ToBytesCeil(8 * d.left - len)
               m == d.mlen - ((len \div 8) % 256)
               y == Resized(d, l, m)
    <3>4. l \in Int /\ m \in Int
      <4>1. 8 * d.left - len \in Int
        BY <3>2, <3>3
      <4>2. (len \div 8) % 256 \in Int
        BY <3>2
      <4>3. l \in Int
        BY <4>1, BytesCeil
      <4> QED BY <3>3, <4>2, <4>3
    <3>5. SmallDeletes => /\ l >= 0 /\ d.offset + l <= POFDP_PACKET_RAW_MAX_LEN
                          /\ m = d.mlen + (l - d.left)
      <4> SUFFICES ASSUME SmallDeletes
                   PROVE  /\ l >= 0 /\ d.offset + l <= POFDP_PACKET_RAW_MAX_LEN
                          /\ m = d.mlen + (l - d.left)
        OBVIOUS
      <4>1. d.left \in Nat /\ d.offset + d.left <= POFDP_PACKET_RAW_MAX_LEN
        BY <2>2, <3>3 DEF Good, Whole
      <4>2. len < 2048 /\ Act.pos + len <= 32768 /\ Act.pos \in Nat
        BY <2>2, <3>2, SmallDelete
      <4>3. Fits(d.left, Act.pos, len)
        BY <3>1 DEF DeleteOK, Fits
      <4>4. /\ Rest(d.left, len) = d.left - WholeBytes(len)
            /\ WholeBytes(len) \in Nat /\ WholeBytes(len) <= d.left
            /\ WholeBytes(len) % 256 = WholeBytes(len)
        BY <3>2, <4>1, <4>2, <4>3, DeleteArithmetic
      <4>5. l = d.left - WholeBytes(len) /\ m = d.mlen - WholeBytes(len)
        <5>1. l = Rest(d.left, len) /\ m = d.mlen - (WholeBytes(len) % 256)
          BY DEF Rest, WholeBytes
        <5> QED BY <4>4, <5>1
      <4>6. POFDP_PACKET_RAW_MAX_LEN \in Nat
        BY Configured DEF UInt16
      <4> HIDE DEF l, m
      <4> QED BY <3>3, <4>1, <4>4, <4>5, <4>6
    <3>6. deleteTag(len, d) = y
      BY DEF deleteTag, Resized
    <3> HIDE DEF l, m
    <3>7. Good("act", y) /\ y.actNum = d.actNum
      BY <2>2, <3>3, <3>4, <3>5, LengthKeeps
    <3> HIDE DEF y
    <3> QED BY <2>2, <3>1, <3>6, <3>7, NextActKeeps
  <2> QED BY <2>3, <2>4
<1>6. CASE execute_CALCULATE_CHECKSUM
  <2>1. ActIs("CALCULATE_CHECKSUM")
    BY <1>6 DEF execute_CALCULATE_CHECKSUM
  <2>2. Good("act", d) /\ d.actNum > 0
    BY <2>1, <1>0
  <2>3. CASE Fail \/ Crash
    BY <2>3, FailKeeps
  <2>4. CASE ~Fail /\ ~Crash
    <3>1. PICK v \in FieldValues : NextAct(write_32value(Act.dest, v, d))
      BY <1>6, <2>4 DEF execute_CALCULATE_CHECKSUM
    <3>2. v \in Int
      BY Configured
    <3> DEFINE y == write_32value(Act.dest, v, d)
    <3>3. Good("act", y) /\ y.actNum > 0
      BY <2>2, <3>2, WriteKeeps
    <3>4. NextAct(y)
      BY <3>1
    <3> HIDE DEF y
    <3> QED BY <3>3, <3>4, NextActKeeps
  <2> QED BY <2>3, <2>4
<1>7. CASE execute_GROUP
  <2>1. ActIs("GROUP")
    BY <1>7 DEF execute_GROUP
  <2>2. /\ Good("act", d) /\ d \in PacketType /\ d.actNum > 0 /\ ~d.packet_done
        /\ d.acts \in Lists /\ d.act \in 1..Len(d.acts) /\ Act = d.acts[d.act]
        /\ Act.type = "GROUP"
    BY <2>1, <1>0
  <2>3. CASE Fail \/ Crash
    BY <2>3, FailKeeps
  <2>4. CASE ~Fail /\ ~Crash
    <3> DEFINE l == Groups[Act.id].acts
               u == d.due - 1 + Len(l)
               y == Listed(d, l, Len(l), u)
    <3>1. Act.id \in DOMAIN Groups /\ Go("act", y)
      BY <1>7, <2>4 DEF execute_GROUP, CounterIncrease, Listed
    <3>2. l \in Lists
      BY <3>1 DEF Lists
    <3>3. Len(l) \in UInt8 /\ Len(l) \in Nat
      BY <3>2, Configured DEF UInt8
    <3>4. d.due \in Int
      BY <2>2 DEF PacketType
    <3> HIDE DEF l
    <3>5. u \in Int
      BY <3>3, <3>4
    <3>6. GroupLast => u = Len(l)
      <4> SUFFICES ASSUME GroupLast PROVE u = Len(l)
        OBVIOUS
      <4>1. d.act = Len(d.acts)
        BY <2>2 DEF GroupLast
      <4>2. d.act + d.actNum = Len(d.acts) + 1 /\ d.due = d.actNum /\ d.actNum \in Nat
        BY <2>2 DEF Good, Counted, Due, PacketType, UInt8
      <4>3. d.act \in Nat
        BY <2>2 DEF PacketType
      <4> QED BY <3>3, <3>4, <4>1, <4>2, <4>3
    <3> HIDE DEF u
    <3>7. /\ y \in PacketType
          /\ y.offset = d.offset /\ y.left = d.left /\ y.mlen = d.mlen
          /\ y.table = d.table /\ y.at = d.at /\ y.entry = d.entry /\ y.ins = d.ins
          /\ y.todo = d.todo /\ y.done = d.done /\ y.packet_done = d.packet_done
          /\ y.acts = l /\ y.act = 1 /\ y.actNum = Len(l) /\ y.due = u
      BY <2>2, <3>2, <3>3, <3>5, NewList
    <3> HIDE DEF y
    <3>8. Counted("act", y) /\ (GroupLast => Due("act", y))
      BY <2>2, <3>3, <3>6, <3>7 DEF Good, Counted, Due
    <3>9. Good("act", y)
      BY <2>2, <3>7, <3>8 DEF Good, Placed, Whole
    <3> QED BY <3>1, <3>9, GoKeeps
  <2> QED BY <2>3, <2>4
<1>8. CASE execute_DROP
  <2>1. ActIs("DROP")
    BY <1>8 DEF execute_DROP
  <2>2. Good("act", d) /\ d \in PacketType /\ d.actNum > 0
    BY <2>1, <1>0
  <2> DEFINE y == [d EXCEPT !.packet_done = TRUE]
  <2>3. NextAct(y)
    BY <1>8 DEF execute_DROP
  <2>4. y \in PacketType
    BY <2>2 DEF PacketType
  <2>5. /\ y.offset = d.offset /\ y.left = d.left /\ y.mlen = d.mlen
        /\ y.table = d.table /\ y.at = d.at /\ y.entry = d.entry /\ y.ins = d.ins
        /\ y.todo = d.todo /\ y.done = d.done /\ y.packet_done = TRUE
        /\ y.acts = d.acts /\ y.act = d.act /\ y.actNum = d.actNum
    BY <2>2 DEF PacketType
  <2> HIDE DEF y
  <2>6. Good("act", y)
    BY <2>2, <2>4, <2>5 DEF Good, Counted, Placed, Whole, Due
  <2> QED BY <2>2, <2>3, <2>5, <2>6, NextActKeeps
<1>9. CASE execute_PACKET_IN
  <2>1. ActIs("PACKET_IN")
    BY <1>9 DEF execute_PACKET_IN
  <2>2. Good("act", d) /\ d \in PacketType /\ d.actNum > 0
    BY <2>1, <1>0
  <2>3. Placed(d) /\ Good("act", action_update(d))
    BY <2>2, UpdateAction DEF Good
  <2>4. Crash \/ packet_in(d, "act", action_update(d))
    BY <1>9 DEF execute_PACKET_IN, AnyResource
  <2> QED BY <2>2, <2>3, <2>4, FailKeeps, PacketInKeeps
<1>10. CASE execute_COUNTER
  <2>1. ActIs("COUNTER")
    BY <1>10 DEF execute_COUNTER
  <2>2. Good("act", d) /\ d.actNum > 0
    BY <2>1, <1>0
  <2>3. Crash \/ Fail \/ NextAct(d)
    BY <1>10 DEF execute_COUNTER, AnyResource, CounterIncrease
  <2> QED BY <2>2, <2>3, FailKeeps, NextActKeeps
<1>11. CASE unsupported_action
  BY <1>11, FailKeeps DEF unsupported_action
<1>12. CASE actions_finished
  <2>1. CASE Fail
    BY <2>1, FailKeeps
  <2>2. CASE ~Fail
    <3>1. pc = "act" /\ d.mlen # NoMetadata /\ NextIns(d)
      BY <1>12, <2>2 DEF actions_finished, Received
    <3>2. Good("act", d)
      BY <3>1 DEF IInv
    <3>3. Good("ins", d) /\ d.todo >= 1
      BY <3>1, <3>2 DEF Good, Counted, Due
    <3> QED BY <3>1, <3>3, NextInsKeeps
  <2> QED BY <2>1, <2>2
<1> QED
  BY <1>1, <1>2, <1>3, <1>4, <1>5, <1>6, <1>7, <1>8, <1>9, <1>10, <1>11, <1>12
  DEF pofdp_action_execute

\* The invariant is inductive.
LEMMA Inductive == Spec => []IInv
<1>1. Init => IInv
  <2> SUFFICES ASSUME Init PROVE IInv
    OBVIOUS
  <2>1. sent = <<>> /\ <<>> \in Seq(SentType)
    BY DEF Init
  <2>2. PacketInTruthful
    BY <2>1 DEF PacketInTruthful
  <2> QED BY <2>1, <2>2 DEF Init, IInv
<1>2. IInv /\ [Next]_vars => IInv'
  <2> SUFFICES ASSUME IInv, [Next]_vars PROVE IInv'
    OBVIOUS
  <2>1. CASE \/ \E len \in PacketLens : recv_raw(len)
             \/ \E m \in PacketOuts : packet_out(m)
    BY <2>1, ReceiveKeeps
  <2>2. CASE pofdp_instruction_execute
    BY <2>2, InstructionKeeps
  <2>3. CASE pofdp_action_execute
    BY <2>3, ActionKeeps
  <2>4. CASE Restart
    BY <2>4 DEF Restart, IInv, PacketInTruthful
  <2>5. CASE UNCHANGED vars
    BY <2>5 DEF vars, IInv, PacketInTruthful
  <2> QED BY <2>1, <2>2, <2>3, <2>4, <2>5 DEF Next
<1> QED BY <1>1, <1>2, PTL DEF Spec
-----------------------------------------------------------------------------
(* The theorems.                                                           *)

\* In every reachable state the packet has the types of the invariant: between
\* packets struct pofdp_packet is the cleared one.
LEMMA PacketTyped == IInv => d \in PacketType /\ Placed(d) /\ (pc # "recv" => Good(pc, d))
<1>1. NoPacket \in PacketType /\ Placed(NoPacket)
  <2>1. <<>> \in Programs /\ <<>> \in ActionLists
    BY DEF Programs, ActionLists
  <2> QED BY <2>1, PacketIsTyped DEF NoPacket
<1> QED BY <1>1 DEF IInv, Good

\* Type correctness of the interpreter: no number of instructions or actions
\* leaves its uint8_t, no metadata field its width, no table its types, for
\* every configuration the controller can send.
THEOREM TypeCorrect == Spec => []TypeOK
<1>1. IInv => TypeOK
  BY PacketTyped DEF IInv, TypeOK, PacketType
<1> QED BY <1>1, Inductive, PTL

\* The pointers of the two loops and the 8-bit numbers beside them agree, for
\* every program and every nesting of groups (instruction_update, insJumpForward,
\* insJumpBack, action_update, execute_GROUP).
THEOREM PointersAgree == Spec => []CountersAgree
<1>1. IInv => CountersAgree
  <2> SUFFICES ASSUME IInv, pc # "recv" PROVE CountersAgree
    BY DEF CountersAgree, IInv
  <2>1. Counted(pc, d) /\ pc \in {"ins", "act"}
    BY DEF IInv, Good
  <2> QED BY <2>1 DEF Counted, CountersAgree, Received
<1> QED BY <1>1, Inductive, PTL

\* A PACKET_IN names the table the packet was looked up in, through both
\* numberings of tables and for every configuration of their numbers.
THEOREM TruthfulPacketIn == Spec => []PacketInTruthful
<1>1. IInv => PacketInTruthful
  BY DEF IInv
<1> QED BY <1>1, Inductive, PTL

\* Without tags of 256 bytes or more the packet stays inside its buffer, through
\* every sequence of moves, insertions and deletions (movePacketBufOffset,
\* insertTagToPacket, deleteTagFromPacket).
THEOREM StaysInside == ASSUME SmallDeletes PROVE Spec => []PacketInside
<1>1. IInv => PacketInside
  <2> SUFFICES ASSUME IInv PROVE PacketInside
    OBVIOUS
  <2>1. CASE pc = "recv"
    BY <2>1, Configured DEF IInv, NoPacket, Packet, PacketInside, UInt16
  <2>2. CASE pc # "recv"
    BY <2>2 DEF IInv, Good, Whole, PacketInside
  <2> QED BY <2>1, <2>2
<1> QED BY <1>1, Inductive, PTL

\* Under the same hypothesis the length in the metadata is that of the packet,
\* as a uint16_t.
THEOREM LengthIsWhole == ASSUME SmallDeletes PROVE Spec => []WholeLength
<1>1. IInv => WholeLength
  <2> SUFFICES ASSUME IInv PROVE WholeLength
    OBVIOUS
  <2>1. CASE pc = "recv"
    BY <2>1 DEF IInv, NoPacket, Packet, WholeLength, Received
  <2>2. CASE pc # "recv"
    BY <2>2 DEF IInv, Good, Whole, WholeLength, Received
  <2> QED BY <2>1, <2>2
<1> QED BY <1>1, Inductive, PTL

\* When GROUP is the last action of every list, no action is left out: the list
\* that a group puts in the place of the current one has nothing behind it to
\* lose (execute_GROUP, pofdp_action_execute).
THEOREM NoActionLost == ASSUME GroupLast PROVE Spec => []AllActionsExecuted
<1>1. IInv => AllActionsExecuted
  <2> SUFFICES ASSUME IInv, pc = "act", ~Acting, ~d.packet_done PROVE d.due = 0
    BY DEF AllActionsExecuted
  <2>1. d \in PacketType /\ Good("act", d)
    BY PacketTyped
  <2>2. d.actNum = 0
    BY <2>1 DEF Acting, PacketType, UInt8
  <2> QED BY <2>1, <2>2 DEF Good, Due
<1> QED BY <1>1, Inductive, PTL
=============================================================================
