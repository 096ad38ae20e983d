---------------------------- MODULE LocalResource ----------------------------
(***************************************************************************)
(* The local resource of one slot: flow tables and their entries,          *)
(* counters, groups and meters (local_resource/pof_flow_table.c,           *)
(* pof_counter.c, pof_group.c, pof_meter.c), as the controller's messages  *)
(* change them one after the other (switch_control/pof_parse.c) and as the *)
(* datapath counts packets in them.                                        *)
(*                                                                         *)
(* Abstractions.  An entry is its index, its counter and its match key;    *)
(* instructions and priorities are not looked at by these operations.  A   *)
(* key length is right or wrong.  Every id outside its configured range is *)
(* represented by the first such id.  Each action returns the code the C   *)
(* function returns in "ret".                                              *)
(***************************************************************************)
EXTENDS TableId, Sequences, SequencesExt, FiniteSets

CONSTANTS
    tableSizeMax,    \* largest size of a flow table
    counterNumMax,   \* counters have the ids 1..counterNumMax-1
    groupNumMax,     \* groups have the ids 0..groupNumMax-1
    meterNumMax,     \* meters have the ids 0..meterNumMax-1
    Keys,            \* match keys of flow entries
    EmBucket,        \* bucket of a key in the hash map of an EM table
    NoTable,         \* no table under this ID
    Disciplined,     \* the controller gives each counter one owner (below)
    MaxEntries,      \* bound: entries of all tables together
    MaxValue         \* bound: value of a counter

ASSUME ResourceAssumption ==
    /\ tableSizeMax \in Nat
    /\ counterNumMax \in Nat \ {0}
    /\ groupNumMax \in Nat
    /\ meterNumMax \in Nat
    /\ EmBucket \in [Keys -> Nat]
    /\ Disciplined \in BOOLEAN
    /\ MaxEntries \in Nat
    /\ MaxValue \in Nat

VARIABLES
    tableIdMap,  \* the table under each global ID
    counterMap,  \* the packets counted by each counter, or NoCounter
    groupMap,    \* the counter of each group, or NoGroup
    meterMap,    \* the ids of the meters
    ret,         \* what the last operation returned
    alive        \* the process has not crashed

vars == <<tableIdMap, counterMap, groupMap, meterMap, ret, alive>>
resource == <<tableIdMap, counterMap, groupMap, meterMap>>

NoCounter == -1
NoGroup   == -1
CounterIds == 1..(counterNumMax - 1)
ReqCounter == 0..counterNumMax          \* 0: no counter; counterNumMax: bad id
GroupIds   == 0..(groupNumMax - 1)
MeterIds   == 0..(meterNumMax - 1)

EntryInfo == [index : Nat, counter_id : ReqCounter, key : Keys]
TableInfo == [type : TableTypes, size : 0..tableSizeMax, entryNum : Int,
              entryMap : Seq(EntryInfo)]

ASSUME NoTableAssumption == NoTable \notin TableInfo

Codes == {"OK", "BAD_TABLE_TYPE", "BAD_TABLE_ID", "TABLE_EXIST", "TABLE_UNEXIST",
          "BAD_TABLE_SIZE", "BAD_KEY_LEN", "TABLE_UNEMPTY", "BAD_ENTRY_ID",
          "ENTRY_UNEXIST", "FLOW_UNKNOWN", "BAD_COUNTER_ID", "COUNTER_UNEXIST",
          "INVALID_GROUP", "GROUP_EXISTS", "UNKNOWN_GROUP", "GROUP_BAD_COUNTER_ID",
          "INVALID_METER", "METER_EXISTS", "UNKNOWN_METER"}

TypeOK ==
    /\ tableIdMap \in [TableIDs -> TableInfo \cup {NoTable}]
    /\ counterMap \in [CounterIds -> Nat \cup {NoCounter}]
    /\ groupMap \in [GroupIds -> ReqCounter \cup {NoGroup}]
    /\ meterMap \in SUBSET MeterIds
    /\ ret \in Codes
    /\ alive \in BOOLEAN

\* pof_localresource_init: empty maps, whatever the previous run held.
NoTables   == [ID \in TableIDs |-> NoTable]
NoCounters == [c \in CounterIds |-> NoCounter]
NoGroups   == [g \in GroupIds |-> NoGroup]

Init ==
    /\ tableIdMap = NoTables
    /\ counterMap = NoCounters
    /\ groupMap = NoGroups
    /\ meterMap = {}
    /\ ret = "OK"
    /\ alive = TRUE

EmptyAll ==
    /\ tableIdMap' = NoTables
    /\ counterMap' = NoCounters
    /\ groupMap' = NoGroups
    /\ meterMap' = {}

Return(code) == ret' = code /\ UNCHANGED alive
Refuse(code) == Return(code) /\ UNCHANGED resource
-----------------------------------------------------------------------------
(* Counters (pof_counter.c). Other operations call these, so each comes as *)
(* the code it returns and the map it leaves.                              *)

CounterCheck(c) == IF c >= counterNumMax THEN "BAD_COUNTER_ID" ELSE "OK"

\* poflr_counter_init: id 0 means no counter; an existing counter is kept.
CounterInitRet(c) == IF c = 0 THEN "OK" ELSE CounterCheck(c)

\* Mutant: the new counter is not put into the map.
MutantCounterInit(c) == counterMap

CounterInit(c) ==
    [d \in CounterIds |->
        IF d = c /\ counterMap[d] = NoCounter THEN 0 ELSE counterMap[d]]

\* poflr_counter_delete and poflr_counter_clear check the id alike.
CounterFindRet(c) ==
    IF c = 0 THEN "OK"
    ELSE IF CounterCheck(c) # "OK" THEN CounterCheck(c)
    ELSE IF counterMap[c] = NoCounter THEN "COUNTER_UNEXIST"
    ELSE "OK"

\* Mutant: the whole bucket goes with the counter.
MutantCounterDelete(c) == IF c = 0 THEN counterMap ELSE NoCounters

CounterDelete(c) == [d \in CounterIds |-> IF d = c THEN NoCounter ELSE counterMap[d]]
CounterZero(c)   == [d \in CounterIds |-> IF d = c THEN 0 ELSE counterMap[d]]
-----------------------------------------------------------------------------
(* Entries of a table. The hash map inserts at the head of a bucket, so    *)
(* entryMap lists the entries from the newest to the oldest.               *)

Tables == {ID \in TableIDs : tableIdMap[ID] # NoTable}

PositionsOf(tbl, i) == {p \in DOMAIN tbl.entryMap : tbl.entryMap[p].index = i}

\* Traversal order of the hash map: entries are hashed by index, in an EM
\* table by the match value; buckets ascending, newest first in a bucket.
\* Entries with the same index share a bucket unless the table is EM.
Before(tbl, p, q) ==
    LET b(r) == EmBucket[tbl.entryMap[r].key]
    IN  IF tbl.type = POF_EM_TABLE /\ b(p) # b(q) THEN b(p) < b(q) ELSE p <= q

\* poflr_entry_get_with_index: the first entry with the index in that order.
EntryGetWithIndex(tbl, i) ==
    CHOOSE p \in PositionsOf(tbl, i) : \A q \in PositionsOf(tbl, i) : Before(tbl, p, q)

\* entryFill: the match fields must add up to the key length, except in a
\* LINEAR table, where they are not looked at.
EntryFillOK(tbl, matchOK) == tbl.type = POF_LINEAR_TABLE \/ matchOK

EntryInsert(tbl, e) ==
    [tbl EXCEPT !.entryMap = <<e>> \o @, !.entryNum = @ + 1]

\* Mutant: the table's entryNum is not decreased.
MutantEntryDelete(tbl, p) == [tbl EXCEPT !.entryMap = RemoveAt(@, p)]

EntryDelete(tbl, p) ==
    [tbl EXCEPT !.entryMap = RemoveAt(@, p), !.entryNum = @ - 1]

EntryTotal ==
    Cardinality(UNION {{ID} \X DOMAIN tableIdMap[ID].entryMap : ID \in Tables})
-----------------------------------------------------------------------------
(* The discipline of the controller: an entry's or a group's counter is    *)
(* legal and used by nothing else, an index is used once, and COUNTER_MOD  *)
(* deletes no counter in use.                                              *)

UsedByEntry(c) ==
    \E ID \in Tables : \E p \in DOMAIN tableIdMap[ID].entryMap :
        tableIdMap[ID].entryMap[p].counter_id = c
UsedByGroup(c) == \E g \in GroupIds : groupMap[g] = c

FreeCounter(c) ==
    c = 0 \/ (c < counterNumMax /\ ~UsedByEntry(c) /\ ~UsedByGroup(c))
-----------------------------------------------------------------------------
(* COUNTER_MOD messages.                                                   *)

counter_init(c) ==
    /\ counterMap' = CounterInit(c)
    /\ Return(CounterInitRet(c))
    /\ UNCHANGED <<tableIdMap, groupMap, meterMap>>

counter_delete(c) ==
    /\ Disciplined => FreeCounter(c)
    /\ IF CounterFindRet(c) = "OK"
       THEN /\ counterMap' = CounterDelete(c)
            /\ Return("OK")
            /\ UNCHANGED <<tableIdMap, groupMap, meterMap>>
       ELSE Refuse(CounterFindRet(c))

counter_clear(c) ==
    IF CounterFindRet(c) = "OK"
    THEN /\ counterMap' = CounterZero(c)
         /\ Return("OK")
         /\ UNCHANGED <<tableIdMap, groupMap, meterMap>>
    ELSE Refuse(CounterFindRet(c))

CounterMod ==
    \E c \in ReqCounter : counter_init(c) \/ counter_delete(c) \/ counter_clear(c)
-----------------------------------------------------------------------------
(* TABLE_MOD messages.                                                     *)

TableModCheck(type, id) ==
    IF type >= POF_MAX_TABLE_TYPE THEN "BAD_TABLE_TYPE"
    ELSE IF id >= tableNumMaxEachType[type] THEN "BAD_TABLE_ID"
    ELSE "OK"

\* Mutant: the size may be one larger.
MutantCreateCheck(type, id, size, keyLenOK) ==
    IF TableModCheck(type, id) # "OK" THEN TableModCheck(type, id)
    ELSE IF tableIdMap[table_id_to_ID(type, id)] # NoTable THEN "TABLE_EXIST"
    ELSE IF size > tableSizeMax + 1 THEN "BAD_TABLE_SIZE"
    ELSE IF ~keyLenOK THEN "BAD_KEY_LEN"
    ELSE "OK"

CreateCheck(type, id, size, keyLenOK) ==
    IF TableModCheck(type, id) # "OK" THEN TableModCheck(type, id)
    ELSE IF tableIdMap[table_id_to_ID(type, id)] # NoTable THEN "TABLE_EXIST"
    ELSE IF size > tableSizeMax THEN "BAD_TABLE_SIZE"
    ELSE IF ~keyLenOK THEN "BAD_KEY_LEN"
    ELSE "OK"

create_flow_table(type, id, size, keyLenOK) ==
    LET code == CreateCheck(type, id, size, keyLenOK)
    IN  \/ code # "OK" /\ Refuse(code)
        \/ /\ code = "OK"
           /\ tableIdMap' = [tableIdMap EXCEPT ![table_id_to_ID(type, id)] =
                [type |-> type, size |-> size, entryNum |-> 0, entryMap |-> <<>>]]
           /\ Return("OK")
           /\ UNCHANGED <<counterMap, groupMap, meterMap>>

\* Mutant: a table with entries may be deleted.
MutantDeleteCheck(type, id) ==
    IF TableModCheck(type, id) # "OK" THEN TableModCheck(type, id)
    ELSE IF tableIdMap[table_id_to_ID(type, id)] = NoTable THEN "TABLE_UNEXIST"
    ELSE "OK"

DeleteCheck(type, id) ==
    IF TableModCheck(type, id) # "OK" THEN TableModCheck(type, id)
    ELSE IF tableIdMap[table_id_to_ID(type, id)] = NoTable THEN "TABLE_UNEXIST"
    ELSE IF tableIdMap[table_id_to_ID(type, id)].entryNum # 0 THEN "TABLE_UNEMPTY"
    ELSE "OK"

delete_flow_table(type, id) ==
    LET code == DeleteCheck(type, id)
    IN  \/ code # "OK" /\ Refuse(code)
        \/ /\ code = "OK"
           /\ tableIdMap' = [tableIdMap EXCEPT ![table_id_to_ID(type, id)] = NoTable]
           /\ Return("OK")
           /\ UNCHANGED <<counterMap, groupMap, meterMap>>

\* Types and ids in requests: every legal one and the first illegal one.
ReqTypes    == 0..POF_MAX_TABLE_TYPE
ReqIds(type) == IF type \in TableTypes THEN 0..tableNumMaxEachType[type] ELSE {0}

TableMod ==
    \E type \in ReqTypes : \E id \in ReqIds(type) :
        \/ \E size \in 0..(tableSizeMax + 1), keyLenOK \in BOOLEAN :
                create_flow_table(type, id, size, keyLenOK)
        \/ delete_flow_table(type, id)
-----------------------------------------------------------------------------
(* FLOW_MOD messages.                                                      *)

FlowModCheck(type, id, index) ==
    IF TableModCheck(type, id) # "OK" THEN TableModCheck(type, id)
    ELSE IF tableIdMap[table_id_to_ID(type, id)] = NoTable THEN "BAD_TABLE_ID"
    ELSE IF index >= tableIdMap[table_id_to_ID(type, id)].size THEN "BAD_ENTRY_ID"
    ELSE "OK"

FlowFindCheck(type, id, index) ==
    IF FlowModCheck(type, id, index) # "OK" THEN FlowModCheck(type, id, index)
    ELSE IF PositionsOf(tableIdMap[table_id_to_ID(type, id)], index) = {}
    THEN "ENTRY_UNEXIST"
    ELSE "OK"

\* The entry is inserted first; a bad counter id is reported afterwards and
\* the entry stays.
add_flow_entry(type, id, e, matchOK) ==
    LET code == FlowModCheck(type, id, e.index)
        ID   == table_id_to_ID(type, id)
    IN  /\ Disciplined => /\ FreeCounter(e.counter_id)
                          /\ code = "OK" => PositionsOf(tableIdMap[ID], e.index) = {}
        /\ \/ code # "OK" /\ Refuse(code)
           \/ /\ code = "OK" /\ ~EntryFillOK(tableIdMap[ID], matchOK)
              /\ Refuse("FLOW_UNKNOWN")
           \/ /\ code = "OK" /\ EntryFillOK(tableIdMap[ID], matchOK)
              /\ EntryTotal < MaxEntries
              /\ tableIdMap' = [tableIdMap EXCEPT ![ID] = EntryInsert(@, e)]
              /\ counterMap' = CounterInit(e.counter_id)
              /\ Return(CounterInitRet(e.counter_id))
              /\ UNCHANGED <<groupMap, meterMap>>

\* A new counter is created before, and the old one is not deleted. If the
\* new entry cannot be filled, the old entry is gone.
modify_flow_entry(type, id, e, matchOK) ==
    LET code == FlowFindCheck(type, id, e.index)
        ID   == table_id_to_ID(type, id)
        pos  == EntryGetWithIndex(tableIdMap[ID], e.index)
        old  == tableIdMap[ID].entryMap[pos].counter_id
        left == EntryDelete(tableIdMap[ID], pos)
    IN  \/ code # "OK" /\ Refuse(code)
        \/ /\ code = "OK" /\ old # e.counter_id /\ CounterInitRet(e.counter_id) # "OK"
           /\ Refuse(CounterInitRet(e.counter_id))
        \/ /\ code = "OK"
           /\ old # e.counter_id => CounterInitRet(e.counter_id) = "OK"
           /\ Disciplined => old = e.counter_id \/ FreeCounter(e.counter_id)
           /\ counterMap' = IF old # e.counter_id THEN CounterInit(e.counter_id)
                                                  ELSE counterMap
           /\ IF EntryFillOK(tableIdMap[ID], matchOK)
              THEN tableIdMap' = [tableIdMap EXCEPT ![ID] = EntryInsert(left, e)] /\ Return("OK")
              ELSE tableIdMap' = [tableIdMap EXCEPT ![ID] = left] /\ Return("FLOW_UNKNOWN")
           /\ UNCHANGED <<groupMap, meterMap>>

\* Mutant: the entry is deleted before its counter.
MutantDeleteEntry(type, id, index) ==
    LET code == FlowFindCheck(type, id, index)
        ID   == table_id_to_ID(type, id)
        pos  == EntryGetWithIndex(tableIdMap[ID], index)
        c    == tableIdMap[ID].entryMap[pos].counter_id
    IN  \/ code # "OK" /\ Refuse(code)
        \/ /\ code = "OK"
           /\ counterMap' = IF CounterFindRet(c) = "OK" THEN CounterDelete(c) ELSE counterMap
           /\ tableIdMap' = [tableIdMap EXCEPT ![ID] = EntryDelete(@, pos)]
           /\ Return(CounterFindRet(c))
           /\ UNCHANGED <<groupMap, meterMap>>

\* The counter is deleted first; if that fails the entry stays.
delete_flow_entry(type, id, index) ==
    LET code == FlowFindCheck(type, id, index)
        ID   == table_id_to_ID(type, id)
        pos  == EntryGetWithIndex(tableIdMap[ID], index)
        c    == tableIdMap[ID].entryMap[pos].counter_id
    IN  \/ code # "OK" /\ Refuse(code)
        \/ code = "OK" /\ CounterFindRet(c) # "OK" /\ Refuse(CounterFindRet(c))
        \/ /\ code = "OK" /\ CounterFindRet(c) = "OK"
           /\ counterMap' = CounterDelete(c)
           /\ tableIdMap' = [tableIdMap EXCEPT ![ID] = EntryDelete(@, pos)]
           /\ Return("OK")
           /\ UNCHANGED <<groupMap, meterMap>>

ReqEntries == [index : 0..tableSizeMax, counter_id : ReqCounter, key : Keys]

FlowMod ==
    \E type \in ReqTypes : \E id \in ReqIds(type) :
        \/ \E e \in ReqEntries, matchOK \in BOOLEAN :
                add_flow_entry(type, id, e, matchOK) \/ modify_flow_entry(type, id, e, matchOK)
        \/ \E index \in 0..tableSizeMax : delete_flow_entry(type, id, index)
-----------------------------------------------------------------------------
(* GROUP_MOD and METER_MOD messages.                                       *)

GroupFindCheck(g) ==
    IF g >= groupNumMax THEN "INVALID_GROUP"
    ELSE IF groupMap[g] = NoGroup THEN "UNKNOWN_GROUP"
    ELSE "OK"

add_group_entry(g, c) ==
    /\ Disciplined => FreeCounter(c)
    /\ \/ g >= groupNumMax /\ Refuse("INVALID_GROUP")
       \/ g < groupNumMax /\ groupMap[g] # NoGroup /\ Refuse("GROUP_EXISTS")
       \/ /\ g < groupNumMax /\ groupMap[g] = NoGroup /\ CounterInitRet(c) # "OK"
          /\ Refuse(CounterInitRet(c))
       \/ /\ g < groupNumMax /\ groupMap[g] = NoGroup /\ CounterInitRet(c) = "OK"
          /\ counterMap' = CounterInit(c)
          /\ groupMap' = [groupMap EXCEPT ![g] = c]
          /\ Return("OK")
          /\ UNCHANGED <<tableIdMap, meterMap>>

\* The counter of a group cannot be changed; the new actions of the group
\* are outside this module.
modify_group_entry(g, c) ==
    \/ GroupFindCheck(g) # "OK" /\ Refuse(GroupFindCheck(g))
    \/ GroupFindCheck(g) = "OK" /\ groupMap[g] # c /\ Refuse("GROUP_BAD_COUNTER_ID")
    \/ GroupFindCheck(g) = "OK" /\ groupMap[g] = c /\ Refuse("OK")

\* The counter that is deleted is the one in the message.
delete_group_entry(g, c) ==
    /\ Disciplined /\ GroupFindCheck(g) = "OK" => groupMap[g] = c
    /\ \/ GroupFindCheck(g) # "OK" /\ Refuse(GroupFindCheck(g))
       \/ GroupFindCheck(g) = "OK" /\ CounterFindRet(c) # "OK" /\ Refuse(CounterFindRet(c))
       \/ /\ GroupFindCheck(g) = "OK" /\ CounterFindRet(c) = "OK"
          /\ counterMap' = CounterDelete(c)
          /\ groupMap' = [groupMap EXCEPT ![g] = NoGroup]
          /\ Return("OK")
          /\ UNCHANGED <<tableIdMap, meterMap>>

GroupMod ==
    \E g \in 0..groupNumMax, c \in ReqCounter :
        add_group_entry(g, c) \/ modify_group_entry(g, c) \/ delete_group_entry(g, c)

MeterFindCheck(m) ==
    IF m >= meterNumMax THEN "INVALID_METER"
    ELSE IF m \notin meterMap THEN "UNKNOWN_METER"
    ELSE "OK"

add_meter_entry(m) ==
    \/ m >= meterNumMax /\ Refuse("INVALID_METER")
    \/ m \in meterMap /\ Refuse("METER_EXISTS")
    \/ /\ MeterFindCheck(m) = "UNKNOWN_METER"
       /\ meterMap' = meterMap \cup {m}
       /\ Return("OK")
       /\ UNCHANGED <<tableIdMap, counterMap, groupMap>>

\* The rate of a meter is not modelled.
modify_meter_entry(m) == Refuse(MeterFindCheck(m))

delete_meter_entry(m) ==
    \/ MeterFindCheck(m) # "OK" /\ Refuse(MeterFindCheck(m))
    \/ /\ MeterFindCheck(m) = "OK"
       /\ meterMap' = meterMap \ {m}
       /\ Return("OK")
       /\ UNCHANGED <<tableIdMap, counterMap, groupMap>>

MeterMod ==
    \E m \in 0..meterNumMax :
        add_meter_entry(m) \/ modify_meter_entry(m) \/ delete_meter_entry(m)
-----------------------------------------------------------------------------
(* The datapath counts packets. When the counter is missing, the code      *)
(* creates it but goes on with the null pointer of its failed search:      *)
(* the process crashes.                                                    *)

counter_increace(c) ==
    \/ c = 0 /\ Refuse("OK")
    \/ c >= counterNumMax /\ Refuse("BAD_COUNTER_ID")
    \/ /\ c \in CounterIds /\ counterMap[c] # NoCounter
       /\ counterMap[c] < MaxValue
       /\ counterMap' = [counterMap EXCEPT ![c] = @ + 1]
       /\ Return("OK")
       /\ UNCHANGED <<tableIdMap, groupMap, meterMap>>
    \/ /\ c \in CounterIds /\ counterMap[c] = NoCounter
       /\ counterMap' = CounterInit(c)
       /\ alive' = FALSE
       /\ UNCHANGED <<tableIdMap, groupMap, meterMap, ret>>

\* A packet matches an entry (GOTO_TABLE, GOTO_DIRECT) or runs a group, and
\* the counter of the entry or group is increased; a COUNTER action may name
\* any counter.
CountPacket ==
    \E c \in ReqCounter :
        /\ UsedByEntry(c) \/ UsedByGroup(c) \/ ~Disciplined
        /\ counter_increace(c)

\* poflr_clear_resource: at the HELLO of a new connection, and after a
\* disconnection unless the switch was started with --man-clear.
clear_resource == EmptyAll /\ Return("OK")

\* The operator starts the crashed process again.
Restart ==
    /\ ~alive
    /\ EmptyAll /\ ret' = "OK" /\ alive' = TRUE

Next ==
    \/ /\ alive
       /\ \/ CounterMod \/ TableMod \/ FlowMod \/ GroupMod \/ MeterMod
          \/ CountPacket \/ clear_resource
    \/ Restart

Spec == Init /\ [][Next]_vars
-----------------------------------------------------------------------------
(* Properties.                                                             *)

\* The table stored under a global ID has the type, and a legal id of the
\* type, that poflr_table_ID_to_id computes from the ID: GOTO_TABLE and the
\* replies to the controller go through that function.
TableTypeMatchesID ==
    \A ID \in Tables :
        /\ table_ID_to_id(ID).type = tableIdMap[ID].type
        /\ table_ID_to_id(ID).id < tableNumMaxEachType[tableIdMap[ID].type]
        /\ table_id_to_ID(table_ID_to_id(ID).type, table_ID_to_id(ID).id) = ID

\* entryNum, the number that guards the deletion of a table, is the number
\* of entries in the hash map, and every index is below the table's size.
EntryNumExact ==
    \A ID \in Tables :
        /\ tableIdMap[ID].entryNum = Len(tableIdMap[ID].entryMap)
        /\ \A p \in DOMAIN tableIdMap[ID].entryMap :
                tableIdMap[ID].entryMap[p].index < tableIdMap[ID].size

\* A table goes away only with no entry in it, or with everything else when
\* the resource is cleared: poflr_delete_flow_table never loses entries.
TableDeletedEmpty ==
    [][\A ID \in TableIDs :
        tableIdMap[ID] # NoTable /\ tableIdMap'[ID] = NoTable
            => tableIdMap[ID].entryMap = <<>> \/ EmptyAll]_vars

\* An operation that reports an error has changed nothing, with the two
\* exceptions of the code: FLOW_MOD ADD with a bad counter id has inserted
\* the entry, and FLOW_MOD MODIFY with a wrong match has dropped the old
\* entry (and may have created the new counter).
FailureKeepsResource ==
    [][alive' /\ ret' # "OK" =>
        \/ UNCHANGED resource
        \/ /\ ret' = "BAD_COUNTER_ID"
           /\ UNCHANGED <<counterMap, groupMap, meterMap>>
           /\ \E ID \in Tables : \E e \in ReqEntries :
                /\ e.counter_id = counterNumMax
                /\ tableIdMap' = [tableIdMap EXCEPT ![ID] = EntryInsert(@, e)]
        \/ /\ ret' = "FLOW_UNKNOWN"
           /\ UNCHANGED <<groupMap, meterMap>>
           /\ \A c \in CounterIds : counterMap'[c] # counterMap[c] =>
                                        counterMap[c] = NoCounter /\ counterMap'[c] = 0
           /\ \E ID \in Tables : \E p \in DOMAIN tableIdMap[ID].entryMap :
                tableIdMap' = [tableIdMap EXCEPT ![ID] = EntryDelete(@, p)]]_vars

\* When every counter has one owner, the counter of every entry and group
\* exists as long as its owner does, so that the owner can be deleted ...
CounterOfOwnerExists ==
    Disciplined =>
        \A c \in ReqCounter : UsedByEntry(c) \/ UsedByGroup(c) =>
            c < counterNumMax /\ (c # 0 => counterMap[c] # NoCounter)

\* ... so no packet runs into a missing counter (poflr_counter_increace).
DisciplinedSurvives == Disciplined => alive

\* An entry whose counter id is out of range cannot be deleted by itself:
\* only modifying it, or clearing the resource, takes it out of its table.
BadCounterEntryStays ==
    [][\A ID \in Tables : \A p \in DOMAIN tableIdMap[ID].entryMap :
        LET e == tableIdMap[ID].entryMap[p]
        IN  e.counter_id >= counterNumMax =>
              \/ EmptyAll
              \/ /\ tableIdMap'[ID] # NoTable
                 /\ \E q \in DOMAIN tableIdMap'[ID].entryMap : tableIdMap'[ID].entryMap[q] = e
              \/ \E type \in TableTypes : \E id \in ReqIds(type) : \E f \in ReqEntries :
                    /\ f.index = e.index /\ ID = table_id_to_ID(type, id)
                    /\ \E m \in BOOLEAN : modify_flow_entry(type, id, f, m)]_vars
=============================================================================
