----------------------------- MODULE MCDatapath -----------------------------
(* Small instances of Datapath for TLC: operands, actions, instructions,   *)
(* and the switch configurations made of them.                             *)
EXTENDS Datapath, TLC

CONSTANT GroupAnywhere  \* GROUP also before other actions

imm(v)   == [from |-> "imm", value |-> v]
pkt(end) == [from |-> "packet", end |-> end]
meta     == [from |-> "metadata"]
wide     == [from |-> "field of more than 32 bits"]

MCTableNum == (0 :> 2) @@ (1 :> 1) @@ (2 :> 1) @@ (3 :> 1)

Out(port, off, mend) ==
    [type |-> "OUTPUT", port |-> port, packet_offset |-> off,
     metadata_end |-> mend, metadata_len |-> mend]
Add(len, pos) == [type |-> "ADD_FIELD", len |-> len, pos |-> pos]
Del(len)      == [type |-> "DELETE_FIELD", len |-> len, pos |-> 100]
Group(id)     == [type |-> "GROUP", id |-> id]
Drop          == [type |-> "DROP"]
PacketIn      == [type |-> "PACKET_IN"]
Count(id)     == [type |-> "COUNTER", id |-> id]
Sum(len, dst) == [type |-> "CALCULATE_CHECKSUM", len |-> len, dest |-> dst]

MCActions ==
    {Out(imm(1), 0, 0), Out(imm(255), 14, 4), Out(imm(9), 0, 0), Out(imm(65537), 0, 0),
     Out(meta, 0, 0), Out(imm(1), 100, 0), Out(imm(1), 0, 129),
     [type |-> "SET_FIELD", end |-> 70], [type |-> "SET_FIELD_FROM_METADATA", end |-> 20],
     [type |-> "MODIFY_FIELD", field |-> meta, increment |-> 63],
     [type |-> "MODIFY_FIELD", field |-> pkt(70), increment |-> 1],
     Add(12, 0), Add(128, 96), Add(136, 0), Add(16, 600),
     Del(imm(12)), Del(imm(32)), Del(meta), Del(pkt(20)), Del(wide), Del(imm(500)),
     Sum(16, pkt(20)), Sum(16, meta), Sum(0, pkt(20)), Sum(65, pkt(20)),
     Group(1), Group(3), Group(4), Group(8), Drop, PacketIn, Count(0), Count(1), Count(2), Count(9),
     [type |-> "EXPERIMENTER"]}

MCLists ==
    {<<>>} \cup {<<a>> : a \in MCActions}
           \cup {<<a, b>> : a \in {x \in MCActions : x.type # "GROUP" \/ GroupAnywhere},
                            b \in MCActions}

Apply(list)      == [type |-> "APPLY_ACTIONS", acts |-> list]
Goto_(id, off)   == [type |-> "GOTO_TABLE", id |-> id, offset |-> off]
Direct(id, i)    == [type |-> "GOTO_DIRECT_TABLE", id |-> id, offset |-> 0, index |-> i]
Calc(c, f, v)    == [type |-> "CALCULATE_FIELD", calc |-> c, field |-> f, operand |-> v]
Move(v, forward) == [type |-> "MOVE_PACKET_OFFSET", movement |-> v, forward |-> forward]
Write(v)         == [type |-> "WRITE_METADATA", value |-> v]
To(n)            == [offset |-> imm(n), forward |-> TRUE]
Back(n)          == [offset |-> imm(n), forward |-> FALSE]
Jump(f, v, l, e, g) ==
    [type |-> "CONDITIONAL_JMP", field1 |-> f, field2 |-> v,
     less |-> l, equal |-> e, greater |-> g]

MCInstructions ==
    {Apply(<<Out(imm(1), 0, 0)>>), Apply(<<Drop>>), Apply(<<PacketIn, Add(12, 0)>>),
     Apply(<<Del(imm(12)), Group(1)>>), Apply(<<Del(imm(1000)), Out(imm(1), 0, 0)>>),
     Goto_(1, 0), Goto_(2, 14), Goto_(3, 65516), Goto_(9, 0), Goto_(4, 0), Goto_(2, 100),
     Direct(4, imm(1)), Direct(4, meta), Direct(2, imm(1)), Direct(1, imm(1)),
     [type |-> "METER", id |-> 1], [type |-> "METER", id |-> 2],
     Write(70), [type |-> "WRITE_METADATA_FROM_PACKET", end |-> 70],
     Calc("SUBTRACT", meta, imm(1)), Calc("BITWISE_OR", meta, pkt(2)), Calc("NAND", meta, imm(1)),
     Calc("ADD", pkt(70), imm(1)),
     Move(imm(20), TRUE), Move(imm(20), FALSE), Move(imm(128), FALSE), Move(meta, TRUE),
     Move(imm(65535), TRUE),
     Jump(pkt(2), imm(12), To(1), To(2), To(3)), Jump(meta, pkt(2), To(1), Back(5), To(1)),
     Jump(wide, imm(1), To(1), To(1), To(1)),
     [type |-> "WRITE_ACTIONS"], [type |-> "CLEAR_ACTIONS"], [type |-> "EXPERIMENTER"]}

\* A loop around an action: it lengthens the packet until there is no more
\* room, or ends before that, or counts.
Loop(action, n, last) ==
    <<Apply(<<action>>), Calc("ADD", meta, imm(1)),
      Jump(meta, imm(n), Back(2), To(1), To(1)), last>>

\* The last one jumps behind the last slot of a full entry.
MCPrograms ==
    {<<Apply(l)>> : l \in MCLists}
    \cup {<<i, j>> : i \in MCInstructions, j \in MCInstructions}
    \cup {<<>>, Loop(Add(128, 0), 40, Write(1)), Loop(Add(128, 0), 5, Move(imm(20), FALSE)),
          Loop(Count(1), 3, Apply(<<Out(imm(1), 0, 0), PacketIn>>)),
          [i \in 1..6 |-> IF i < 6 THEN Write(1) ELSE Jump(meta, imm(1), To(1), To(1), To(1))]}

entry(program, counter) == [slots |-> program, counter |-> counter]

MCTable(program) ==
    (0 :> (1 :> entry(program, 1)))
    @@ (2 :> (1 :> entry(<<Apply(<<PacketIn, Drop>>)>>, 0)))
    @@ (3 :> (1 :> entry(<<Move(imm(30), FALSE), Apply(<<PacketIn>>)>>, 9)))
    @@ (4 :> (1 :> entry(<<Apply(<<PacketIn, Out(imm(1), 0, 0)>>)>>, 1)))

MCTables == {MCTable(p) : p \in MCPrograms}

MCGroups ==
    (1 :> [acts |-> <<Add(16, 0), Group(2)>>, counter |-> 1])
    @@ (2 :> [acts |-> <<Out(imm(255), 0, 0), PacketIn>>, counter |-> 0])
    @@ (3 :> [acts |-> <<Drop, PacketIn>>, counter |-> 0])
    @@ (4 :> [acts |-> <<Drop>>, counter |-> 9])

\* PACKET_OUT messages: the actions that look at metadata or the resource.
MCPacketOuts ==
    {[len |-> 60, acts |-> l] :
        l \in {<<Out(imm(1), 0, 0), Drop>>, <<Out(meta, 0, 0)>>, <<Out(imm(1), 0, 4)>>,
               <<Add(12, 0)>>, <<Del(imm(12))>>, <<Group(1)>>, <<Count(1)>>, <<PacketIn>>,
               <<Sum(16, meta)>>}}

\* The lists of actions alone, GROUP in any place.
MCListTables == {MCTable(<<Apply(l)>>) : l \in MCLists}
=============================================================================
