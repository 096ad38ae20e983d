------------------------- MODULE LocalResourceProofs -------------------------
(***************************************************************************)
(* Proofs about LocalResource, for every configuration of the tables.      *)
(***************************************************************************)
EXTENDS LocalResource, SeqLemmas

-----------------------------------------------------------------------------
(* The two numberings of tables.                                           *)

\* poflr_table_ID_to_id undoes poflr_table_id_to_ID for every legal table of
\* every type, and the uint8_t addition of the latter does not wrap.
THEOREM TableIdRoundTrip ==
    ASSUME NEW type \in TableTypes,
           NEW id \in 0..(tableNumMaxEachType[type] - 1)
    PROVE  /\ table_id_to_ID(type, id) \in TableIDs
           /\ table_ID_to_id(table_id_to_ID(type, id)) = [type |-> type, id |-> id]
<1> DEFINE n == tableNumMaxEachType
<1>1. /\ n[0] \in Nat /\ n[1] \in Nat /\ n[2] \in Nat /\ n[3] \in Nat
      /\ IDMod \in Nat
      /\ n[0] + n[1] + n[2] + n[3] <= IDMod
  BY TableNumAssumption DEF TableTypes, POF_MAX_TABLE_TYPE, tableNumMax, TableBase
<1>2. type \in {0, 1, 2, 3} /\ id \in Nat /\ id < n[type]
  BY <1>1 DEF TableTypes, POF_MAX_TABLE_TYPE
<1>3. /\ TableBase(type) + id \in Nat
      /\ TableBase(type) + id < IDMod
  BY <1>1, <1>2 DEF TableBase
<1>4. table_id_to_ID(type, id) = TableBase(type) + id
  BY <1>1, <1>3 DEF table_id_to_ID
<1>5. table_id_to_ID(type, id) \in TableIDs
  BY <1>1, <1>3, <1>4 DEF TableIDs
<1>6. CASE type = 0
  BY <1>1, <1>2, <1>4, <1>5, <1>6 DEF TableBase, table_ID_to_id
<1>7. CASE type = 1
  BY <1>1, <1>2, <1>4, <1>5, <1>7 DEF TableBase, table_ID_to_id
<1>8. CASE type = 2
  BY <1>1, <1>2, <1>4, <1>5, <1>8 DEF TableBase, table_ID_to_id
<1>9. CASE type = 3
  BY <1>1, <1>2, <1>4, <1>5, <1>9 DEF TableBase, table_ID_to_id
<1> QED
  BY <1>2, <1>6, <1>7, <1>8, <1>9

\* Two tables with the same global ID are the same table.
THEOREM TableIdInjective ==
    ASSUME NEW type1 \in TableTypes, NEW id1 \in 0..(tableNumMaxEachType[type1] - 1),
           NEW type2 \in TableTypes, NEW id2 \in 0..(tableNumMaxEachType[type2] - 1),
           table_id_to_ID(type1, id1) = table_id_to_ID(type2, id2)
    PROVE  type1 = type2 /\ id1 = id2
<1>1. [type |-> type1, id |-> id1] = [type |-> type2, id |-> id2]
  BY TableIdRoundTrip, Zenon
<1> QED
  BY <1>1
-----------------------------------------------------------------------------
(* Entries of one table.                                                   *)

\* poflr_entry_get_with_index finds an entry with the index when there is
\* one, whatever the order in which the buckets are visited.
LEMMA EntryGetWithIndexFinds ==
    ASSUME NEW tbl \in TableInfo, NEW i, PositionsOf(tbl, i) # {}
    PROVE  /\ EntryGetWithIndex(tbl, i) \in DOMAIN tbl.entryMap
           /\ tbl.entryMap[EntryGetWithIndex(tbl, i)].index = i
<1> DEFINE pos == PositionsOf(tbl, i)
           b(p) == EmBucket[tbl.entryMap[p].key]
<1>1. /\ tbl.entryMap \in Seq(EntryInfo)
      /\ DOMAIN tbl.entryMap = 1..Len(tbl.entryMap)
      /\ Len(tbl.entryMap) \in Nat
  BY LenProperties DEF TableInfo
<1>2. pos \subseteq Nat
  BY <1>1 DEF PositionsOf
<1>3. \A p \in pos : b(p) \in Nat
  <2> SUFFICES ASSUME NEW p \in pos PROVE b(p) \in Nat
    OBVIOUS
  <2>1. p \in 1..Len(tbl.entryMap)
    BY <1>1 DEF PositionsOf
  <2>2. tbl.entryMap[p] \in EntryInfo
    BY <1>1, <2>1, ElementOfSeq
  <2> QED
    BY <2>2, ResourceAssumption DEF EntryInfo
<1>4. \E p \in pos : \A q \in pos : Before(tbl, p, q)
  <2>1. CASE tbl.type = POF_EM_TABLE
    <3>1. PICK m \in {b(p) : p \in pos} : \A y \in {b(p) : p \in pos} : m <= y
      <4>1. {b(p) : p \in pos} \subseteq Nat /\ {b(p) : p \in pos} # {}
        BY <1>3
      <4> QED
        BY <4>1, LeastNat
    <3> DEFINE first == {p \in pos : b(p) = m}
    <3>2. PICK p \in first : \A q \in first : p <= q
      <4>1. first \subseteq Nat /\ first # {}
        BY <1>2, <3>1
      <4> QED
        BY <4>1, LeastNat
    <3>3. \A q \in pos : IF b(p) # b(q) THEN b(p) < b(q) ELSE p <= q
      BY <1>2, <1>3, <3>1, <3>2
    <3> QED
      BY <2>1, <3>2, <3>3 DEF Before
  <2>2. CASE tbl.type # POF_EM_TABLE
    <3>1. PICK p \in pos : \A q \in pos : p <= q
      BY <1>2, LeastNat
    <3> QED
      BY <2>2, <3>1 DEF Before
  <2> QED
    BY <2>1, <2>2
<1>5. EntryGetWithIndex(tbl, i) \in pos
  BY <1>4 DEF EntryGetWithIndex
<1> QED
  BY <1>5 DEF PositionsOf

\* Replacing one table keeps the type of the map of tables.
LEMMA TableUpdateType ==
    ASSUME NEW tbl \in TableInfo, NEW s \in Seq(EntryInfo), NEW k \in Int
    PROVE  [tbl EXCEPT !.entryMap = s, !.entryNum = k] \in TableInfo
BY DEF TableInfo

\* What the invariants say of the table tbl under the global ID.
TableInv(ID, tbl) ==
    /\ table_ID_to_id(ID).type = tbl.type
    /\ table_ID_to_id(ID).id < tableNumMaxEachType[tbl.type]
    /\ table_id_to_ID(table_ID_to_id(ID).type, table_ID_to_id(ID).id) = ID
    /\ tbl.entryNum = Len(tbl.entryMap)
    /\ \A p \in DOMAIN tbl.entryMap : tbl.entryMap[p].index < tbl.size

\* entryInsert keeps a table well-formed.
LEMMA EntryInsertOK ==
    ASSUME NEW ID, NEW tbl \in TableInfo, NEW e \in EntryInfo,
           e.index < tbl.size, TableInv(ID, tbl)
    PROVE  EntryInsert(tbl, e) \in TableInfo /\ TableInv(ID, EntryInsert(tbl, e))
<1> DEFINE s == tbl.entryMap
           t == EntryInsert(tbl, e)
<1>1. s \in Seq(EntryInfo) /\ Len(s) \in Nat /\ DOMAIN s = 1..Len(s)
  BY LenProperties DEF TableInfo
<1>2. /\ t.entryMap = <<e>> \o s /\ t.entryNum = tbl.entryNum + 1
      /\ t.type = tbl.type /\ t.size = tbl.size
  BY DEF EntryInsert, TableInfo
<1>3. /\ <<e>> \o s \in Seq(EntryInfo)
      /\ Len(<<e>> \o s) = Len(s) + 1
      /\ (<<e>> \o s)[1] = e
      /\ \A i \in 2..(Len(s) + 1) : (<<e>> \o s)[i] = s[i - 1]
  BY <1>1, ConsProperties
<1>4. DOMAIN (<<e>> \o s) = 1..(Len(s) + 1)
  BY <1>3
<1>5. t \in TableInfo
  <2>1. tbl.entryNum + 1 \in Int
    BY DEF TableInfo
  <2>2. t = [tbl EXCEPT !.entryMap = <<e>> \o s, !.entryNum = tbl.entryNum + 1]
    BY DEF EntryInsert, TableInfo
  <2> QED
    <3> HIDE DEF t
    <3> QED
      BY <1>3, <2>1, <2>2, TableUpdateType, Zenon
<1>6. \A p \in DOMAIN t.entryMap : t.entryMap[p].index < t.size
  <2> SUFFICES ASSUME NEW p \in 1..(Len(s) + 1)
               PROVE  (<<e>> \o s)[p].index < tbl.size
    BY <1>2, <1>4
  <2>1. CASE p = 1
    BY <1>3, <2>1
  <2>2. CASE p # 1
    <3>1. p \in 2..(Len(s) + 1) /\ p - 1 \in 1..Len(s)
      BY <1>1, <2>2
    <3> QED
      BY <1>1, <1>3, <3>1 DEF TableInv
  <2> QED
    BY <2>1, <2>2
<1> QED
  BY <1>2, <1>3, <1>5, <1>6 DEF TableInv

\* entryDelete keeps a table well-formed.
LEMMA EntryDeleteOK ==
    ASSUME NEW ID, NEW tbl \in TableInfo, NEW p \in DOMAIN tbl.entryMap,
           TableInv(ID, tbl)
    PROVE  EntryDelete(tbl, p) \in TableInfo /\ TableInv(ID, EntryDelete(tbl, p))
<1> DEFINE s == tbl.entryMap
           t == EntryDelete(tbl, p)
<1>1. s \in Seq(EntryInfo) /\ Len(s) \in Nat /\ DOMAIN s = 1..Len(s)
  BY LenProperties DEF TableInfo
<1>2. /\ t.entryMap = RemoveAt(s, p) /\ t.entryNum = tbl.entryNum - 1
      /\ t.type = tbl.type /\ t.size = tbl.size
  BY DEF EntryDelete, TableInfo
<1>3. /\ RemoveAt(s, p) \in Seq(EntryInfo)
      /\ Len(RemoveAt(s, p)) = Len(s) - 1
      /\ \A i \in 1..(Len(s) - 1) : RemoveAt(s, p)[i] = IF i < p THEN s[i] ELSE s[i + 1]
  BY <1>1, RemoveAtProperties
<1>4. DOMAIN RemoveAt(s, p) = 1..(Len(s) - 1)
  BY <1>3
<1>5. t \in TableInfo
  <2>1. tbl.entryNum - 1 \in Int
    BY DEF TableInfo
  <2>2. t = [tbl EXCEPT !.entryMap = RemoveAt(s, p), !.entryNum = tbl.entryNum - 1]
    BY DEF EntryDelete, TableInfo
  <2> QED
    <3> HIDE DEF t
    <3> QED
      BY <1>3, <2>1, <2>2, TableUpdateType, Zenon
<1>6. \A q \in DOMAIN t.entryMap : t.entryMap[q].index < t.size
  <2> SUFFICES ASSUME NEW q \in 1..(Len(s) - 1)
               PROVE  RemoveAt(s, p)[q].index < tbl.size
    BY <1>2, <1>4
  <2>1. q \in 1..Len(s) /\ q + 1 \in 1..Len(s)
    BY <1>1
  <2>2. s[q].index < tbl.size /\ s[q + 1].index < tbl.size
    BY <1>1, <2>1 DEF TableInv
  <2> QED
    BY <1>3, <2>2
<1> QED
  BY <1>2, <1>3, <1>5, <1>6 DEF TableInv
-----------------------------------------------------------------------------
(* The inductive invariant.  Neither TableTypeMatchesID nor EntryNumExact  *)
(* needs the other, but both are about tables of the right type, so they   *)
(* are carried along with it, table by table.                              *)

TablesOK ==
    /\ tableIdMap \in [TableIDs -> TableInfo \cup {NoTable}]
    /\ \A ID \in TableIDs : tableIdMap[ID] # NoTable => TableInv(ID, tableIdMap[ID])

CountersOK == counterMap \in [CounterIds -> Nat \cup {NoCounter}]

OthersOK ==
    /\ groupMap \in [GroupIds -> ReqCounter \cup {NoGroup}]
    /\ meterMap \in SUBSET MeterIds
    /\ ret \in Codes
    /\ alive \in BOOLEAN

IInv == TablesOK /\ CountersOK /\ OthersOK

\* The step loses no table with entries, except when everything is cleared:
\* the action of TableDeletedEmpty.
TableLossOK ==
    \A ID \in TableIDs :
        tableIdMap[ID] # NoTable /\ tableIdMap'[ID] = NoTable
            => tableIdMap[ID].entryMap = <<>> \/ EmptyAll

\* The inductive invariant gives the three invariants of the runs.
LEMMA IInvImplies == IInv => TypeOK /\ TableTypeMatchesID /\ EntryNumExact
BY DEF IInv, TablesOK, CountersOK, OthersOK, TypeOK, TableTypeMatchesID, EntryNumExact,
       Tables, TableInv

\* A request that passes the checks of type and id names a global ID.
LEMMA RequestID ==
    ASSUME NEW type \in ReqTypes, NEW id \in ReqIds(type), TableModCheck(type, id) = "OK"
    PROVE  /\ type \in TableTypes
           /\ id \in 0..(tableNumMaxEachType[type] - 1)
           /\ table_id_to_ID(type, id) \in TableIDs
<1>1. type \in TableTypes
  BY DEF ReqTypes, TableTypes, TableModCheck, POF_MAX_TABLE_TYPE
<1>2. tableNumMaxEachType[type] \in Nat
  BY <1>1, TableNumAssumption
<1>3. id \in 0..tableNumMaxEachType[type] /\ ~(id >= tableNumMaxEachType[type])
  BY <1>1, <1>2 DEF ReqIds, TableModCheck
<1>4. id \in 0..(tableNumMaxEachType[type] - 1)
  BY <1>2, <1>3
<1> QED
  BY <1>1, <1>4, TableIdRoundTrip

\* Storing a well-formed table, or none, keeps all tables well-formed.
LEMMA TableStored ==
    ASSUME TablesOK, NEW ID \in TableIDs, NEW tbl \in TableInfo \cup {NoTable},
           tbl # NoTable => TableInv(ID, tbl),
           tbl = NoTable => tableIdMap[ID].entryMap = <<>>,
           tableIdMap' = [tableIdMap EXCEPT ![ID] = tbl]
    PROVE  TablesOK' /\ TableLossOK
<1>1. tableIdMap' \in [TableIDs -> TableInfo \cup {NoTable}]
  BY DEF TablesOK
<1>2. ASSUME NEW J \in TableIDs, tableIdMap'[J] # NoTable
      PROVE  TableInv(J, tableIdMap'[J])
  <2>1. CASE J = ID
    BY <1>2, <2>1 DEF TablesOK
  <2>2. CASE J # ID
    BY <1>2, <2>2 DEF TablesOK
  <2> QED
    BY <2>1, <2>2
<1>3. \A J \in TableIDs : tableIdMap'[J] # NoTable => TableInv(J, tableIdMap'[J])
  BY <1>2
<1>4. \A J \in TableIDs : (tableIdMap[J] # NoTable => TableInv(J, tableIdMap[J]))'
  BY <1>3 DEF TableInv
<1>5. TableLossOK
  BY DEF TablesOK, TableLossOK
<1> QED
  BY <1>1, <1>4, <1>5 DEF TablesOK

\* An operation that leaves the tables alone keeps them well-formed.
LEMMA TablesUnchanged == TablesOK /\ UNCHANGED tableIdMap => TablesOK' /\ TableLossOK
BY DEF TablesOK, TableInv, TableLossOK

\* poflr_counter_init, _delete and _clear leave a well-formed map.
LEMMA CounterMapsOK ==
    ASSUME CountersOK, NEW c
    PROVE  /\ CounterInit(c) \in [CounterIds -> Nat \cup {NoCounter}]
           /\ CounterDelete(c) \in [CounterIds -> Nat \cup {NoCounter}]
           /\ CounterZero(c) \in [CounterIds -> Nat \cup {NoCounter}]
BY DEF CountersOK, CounterInit, CounterDelete, CounterZero

\* The checks of the requests return codes.
LEMMA CodesOK ==
    /\ \A c : CounterInitRet(c) \in Codes /\ CounterFindRet(c) \in Codes
    /\ \A type, id : TableModCheck(type, id) \in Codes /\ DeleteCheck(type, id) \in Codes
    /\ \A type, id, size, k : CreateCheck(type, id, size, k) \in Codes
    /\ \A type, id, i : FlowModCheck(type, id, i) \in Codes /\ FlowFindCheck(type, id, i) \in Codes
    /\ \A g : GroupFindCheck(g) \in Codes /\ MeterFindCheck(g) \in Codes
BY DEF Codes, CounterInitRet, CounterFindRet, CounterCheck, TableModCheck, DeleteCheck,
       CreateCheck, FlowModCheck, FlowFindCheck, GroupFindCheck, MeterFindCheck

\* A refused request changes nothing but the code.
LEMMA RefuseOK ==
    ASSUME IInv, NEW code \in Codes, Refuse(code)
    PROVE  IInv' /\ TableLossOK
<1>1. TablesOK' /\ TableLossOK
  BY TablesUnchanged DEF IInv, Refuse, resource
<1> QED
  BY <1>1 DEF IInv, CountersOK, OthersOK, Refuse, Return, resource

\* The empty resource of poflr_clear_resource satisfies the invariant.
LEMMA EmptyAllOK ==
    ASSUME EmptyAll, ret' \in Codes, alive' \in BOOLEAN
    PROVE  IInv' /\ TableLossOK
<1>1. TablesOK' /\ TableLossOK
  BY DEF EmptyAll, TablesOK, NoTables, TableLossOK
<1>2. CountersOK' /\ OthersOK'
  BY DEF EmptyAll, CountersOK, OthersOK, NoCounters, NoGroups
<1> QED
  BY <1>1, <1>2 DEF IInv
-----------------------------------------------------------------------------
(* Every operation keeps the invariant.                                    *)

\* COUNTER_MOD leaves tables and groups alone.
LEMMA CounterModOK == ASSUME IInv, CounterMod PROVE IInv' /\ TableLossOK
<1> PICK c \in ReqCounter : counter_init(c) \/ counter_delete(c) \/ counter_clear(c)
  BY DEF CounterMod
<1>1. CASE counter_init(c)
  <2>1. TablesOK' /\ TableLossOK
    BY <1>1, TablesUnchanged DEF IInv, counter_init
  <2>2. CountersOK'
    BY <1>1, CounterMapsOK DEF IInv, counter_init, CountersOK
  <2> QED
    BY <1>1, <2>1, <2>2, CodesOK DEF IInv, OthersOK, counter_init, Return
<1>2. CASE counter_delete(c)
  <2>1. CASE CounterFindRet(c) = "OK"
    <3>1. TablesOK' /\ TableLossOK
      BY <1>2, <2>1, TablesUnchanged DEF IInv, counter_delete
    <3>2. CountersOK'
      BY <1>2, <2>1, CounterMapsOK DEF IInv, counter_delete, CountersOK
    <3> QED
      BY <1>2, <2>1, <3>1, <3>2 DEF IInv, OthersOK, counter_delete, Return, Codes
  <2>2. CASE CounterFindRet(c) # "OK"
    BY <1>2, <2>2, CodesOK, RefuseOK DEF counter_delete
  <2> QED
    BY <2>1, <2>2
<1>3. CASE counter_clear(c)
  <2>1. CASE CounterFindRet(c) = "OK"
    <3>1. TablesOK' /\ TableLossOK
      BY <1>3, <2>1, TablesUnchanged DEF IInv, counter_clear
    <3>2. CountersOK'
      BY <1>3, <2>1, CounterMapsOK DEF IInv, counter_clear, CountersOK
    <3> QED
      BY <1>3, <2>1, <3>1, <3>2 DEF IInv, OthersOK, counter_clear, Return, Codes
  <2>2. CASE CounterFindRet(c) # "OK"
    BY <1>3, <2>2, CodesOK, RefuseOK DEF counter_clear
  <2> QED
    BY <2>1, <2>2
<1> QED
  BY <1>1, <1>2, <1>3

\* poflr_create_flow_table stores an empty table under a free ID.
LEMMA CreateOK ==
    ASSUME IInv, NEW type \in ReqTypes, NEW id \in ReqIds(type),
           NEW size \in 0..(tableSizeMax + 1), NEW keyLenOK \in BOOLEAN,
           create_flow_table(type, id, size, keyLenOK)
    PROVE  IInv' /\ TableLossOK
<1> DEFINE code == CreateCheck(type, id, size, keyLenOK)
           ID == table_id_to_ID(type, id)
           tbl == [type |-> type, size |-> size, entryNum |-> 0, entryMap |-> <<>>]
<1>1. CASE code # "OK"
  BY <1>1, CodesOK, RefuseOK DEF create_flow_table
<1>2. CASE code = "OK"
  <2>1. TableModCheck(type, id) = "OK" /\ ~(size > tableSizeMax)
    BY <1>2 DEF CreateCheck
  <2>2. /\ type \in TableTypes
        /\ id \in 0..(tableNumMaxEachType[type] - 1)
        /\ ID \in TableIDs
        /\ table_ID_to_id(ID) = [type |-> type, id |-> id]
    BY <2>1, RequestID, TableIdRoundTrip
  <2>3. tbl \in TableInfo
    <3>1. size \in 0..tableSizeMax
      BY <2>1, ResourceAssumption
    <3> QED
      BY <2>2, <3>1 DEF TableInfo
  <2>4. TableInv(ID, tbl)
    <3>1. tableNumMaxEachType[type] \in Nat
      BY <2>2, TableNumAssumption
    <3> QED
      BY <2>2, <3>1 DEF TableInv
  <2>5. tableIdMap' = [tableIdMap EXCEPT ![ID] = tbl]
    BY <1>2 DEF create_flow_table
  <2>6. TablesOK' /\ TableLossOK
    <3> HIDE DEF ID, tbl
    <3> QED
      BY <2>2, <2>3, <2>4, <2>5, TableStored, NoTableAssumption DEF IInv
  <2> QED
    BY <1>2, <2>6 DEF IInv, CountersOK, OthersOK, create_flow_table, Return, Codes
<1> QED
  BY <1>1, <1>2

\* poflr_delete_flow_table removes a table only when entryNum is 0,
\* and then the table is empty.
LEMMA DeleteTableOK ==
    ASSUME IInv, NEW type \in ReqTypes, NEW id \in ReqIds(type), delete_flow_table(type, id)
    PROVE  IInv' /\ TableLossOK
<1> DEFINE code == DeleteCheck(type, id)
           ID == table_id_to_ID(type, id)
<1>1. CASE code # "OK"
  BY <1>1, CodesOK, RefuseOK DEF delete_flow_table
<1>2. CASE code = "OK"
  <2>1. ID \in TableIDs
    BY <1>2, RequestID DEF DeleteCheck
  <2>2. tableIdMap' = [tableIdMap EXCEPT ![ID] = NoTable]
    BY <1>2 DEF delete_flow_table
  <2>3. tableIdMap[ID].entryMap = <<>>
    <3>1. tableIdMap[ID] # NoTable /\ tableIdMap[ID].entryNum = 0
      BY <1>2 DEF DeleteCheck
    <3> HIDE DEF ID
    <3>2. /\ tableIdMap[ID].entryMap \in Seq(EntryInfo)
          /\ Len(tableIdMap[ID].entryMap) = 0
      BY <2>1, <3>1 DEF IInv, TablesOK, TableInv, TableInfo
    <3> QED
      BY <3>2, EmptySeq
  <2>4. TablesOK' /\ TableLossOK
    <3> HIDE DEF ID
    <3> QED
      BY <2>1, <2>2, <2>3, TableStored, NoTableAssumption DEF IInv
  <2> QED
    BY <1>2, <2>4 DEF IInv, CountersOK, OthersOK, delete_flow_table, Return, Codes
<1> QED
  BY <1>1, <1>2

\* A FLOW_MOD request that passes the checks names a table and an index that
\* the table has room for.
LEMMA FlowRequest ==
    ASSUME IInv, NEW type \in ReqTypes, NEW id \in ReqIds(type), NEW i,
           FlowModCheck(type, id, i) = "OK"
    PROVE  /\ table_id_to_ID(type, id) \in TableIDs
           /\ tableIdMap[table_id_to_ID(type, id)] \in TableInfo
           /\ TableInv(table_id_to_ID(type, id), tableIdMap[table_id_to_ID(type, id)])
           /\ ~(i >= tableIdMap[table_id_to_ID(type, id)].size)
<1> DEFINE ID == table_id_to_ID(type, id)
<1>1. /\ ID \in TableIDs
      /\ tableIdMap[ID] # NoTable
      /\ ~(i >= tableIdMap[ID].size)
  BY RequestID DEF FlowModCheck
<1> HIDE DEF ID
<1>2. tableIdMap[ID] \in TableInfo /\ TableInv(ID, tableIdMap[ID])
  BY <1>1 DEF IInv, TablesOK
<1> QED
  BY <1>1, <1>2 DEF ID

\* The entry of a request is an entry.
LEMMA ReqEntriesType == ReqEntries \subseteq EntryInfo
BY ResourceAssumption DEF ReqEntries, EntryInfo

\* poflr_add_flow_entry.
LEMMA AddEntryOK ==
    ASSUME IInv, NEW type \in ReqTypes, NEW id \in ReqIds(type),
           NEW e \in ReqEntries, NEW matchOK \in BOOLEAN,
           add_flow_entry(type, id, e, matchOK)
    PROVE  IInv' /\ TableLossOK
<1> DEFINE code == FlowModCheck(type, id, e.index)
           ID == table_id_to_ID(type, id)
           fills == EntryFillOK(tableIdMap[ID], matchOK)
<1>1. CASE code # "OK"
  BY <1>1, CodesOK, RefuseOK DEF add_flow_entry
<1>2. CASE code = "OK" /\ ~fills
  <2>1. "FLOW_UNKNOWN" \in Codes
    BY DEF Codes
  <2> QED
    BY <1>2, <2>1, RefuseOK DEF add_flow_entry
<1>3. CASE code = "OK" /\ fills
  <2>1. /\ ID \in TableIDs
        /\ tableIdMap[ID] \in TableInfo
        /\ TableInv(ID, tableIdMap[ID])
        /\ ~(e.index >= tableIdMap[ID].size)
    BY <1>3, FlowRequest
  <2>2. e \in EntryInfo
    BY ReqEntriesType
  <2>3. e.index < tableIdMap[ID].size
    BY <2>1, <2>2, ResourceAssumption DEF EntryInfo, TableInfo
  <2> DEFINE tbl == EntryInsert(tableIdMap[ID], e)
  <2>4. /\ tableIdMap' = [tableIdMap EXCEPT ![ID] = tbl]
        /\ counterMap' = CounterInit(e.counter_id)
        /\ Return(CounterInitRet(e.counter_id))
        /\ UNCHANGED <<groupMap, meterMap>>
    BY <1>3 DEF add_flow_entry
  <2> HIDE DEF ID
  <2>5. tbl \in TableInfo /\ TableInv(ID, tbl)
    BY <2>1, <2>2, <2>3, EntryInsertOK
  <2>6. TablesOK' /\ TableLossOK
    <3> HIDE DEF tbl
    <3> QED
      BY <2>1, <2>4, <2>5, TableStored, NoTableAssumption DEF IInv
  <2>7. CountersOK'
    BY <2>4, CounterMapsOK DEF IInv, CountersOK
  <2> QED
    BY <2>4, <2>6, <2>7, CodesOK DEF IInv, OthersOK, Return
<1> QED
  BY <1>1, <1>2, <1>3

\* The entry that MODIFY and DELETE work on.
LEMMA FlowFound ==
    ASSUME IInv, NEW type \in ReqTypes, NEW id \in ReqIds(type), NEW i,
           FlowFindCheck(type, id, i) = "OK"
    PROVE  LET ID == table_id_to_ID(type, id)
               tbl == tableIdMap[ID]
               pos == EntryGetWithIndex(tbl, i)
           IN  /\ ID \in TableIDs
               /\ tbl \in TableInfo /\ TableInv(ID, tbl) /\ ~(i >= tbl.size)
               /\ pos \in DOMAIN tbl.entryMap /\ tbl.entryMap[pos].index = i
<1>1. /\ FlowModCheck(type, id, i) = "OK"
      /\ PositionsOf(tableIdMap[table_id_to_ID(type, id)], i) # {}
  BY DEF FlowFindCheck
<1> QED
  BY <1>1, FlowRequest, EntryGetWithIndexFinds, Zenon

\* poflr_modify_flow_entry: one entry out, at most one in.
LEMMA ModifyEntryOK ==
    ASSUME IInv, NEW type \in ReqTypes, NEW id \in ReqIds(type),
           NEW e \in ReqEntries, NEW matchOK \in BOOLEAN,
           modify_flow_entry(type, id, e, matchOK)
    PROVE  IInv' /\ TableLossOK
<1> DEFINE code == FlowFindCheck(type, id, e.index)
           ID == table_id_to_ID(type, id)
           pos == EntryGetWithIndex(tableIdMap[ID], e.index)
           old == tableIdMap[ID].entryMap[pos].counter_id
           left == EntryDelete(tableIdMap[ID], pos)
           fills == EntryFillOK(tableIdMap[ID], matchOK)
           tbl == IF fills THEN EntryInsert(left, e) ELSE left
<1>1. CASE code # "OK"
  BY <1>1, CodesOK, RefuseOK DEF modify_flow_entry
<1>2. CASE code = "OK" /\ Refuse(CounterInitRet(e.counter_id))
  BY <1>2, CodesOK, RefuseOK
<1>3. CASE code = "OK" /\ ~Refuse(CounterInitRet(e.counter_id))
  <2>1. /\ counterMap' = IF old # e.counter_id THEN CounterInit(e.counter_id) ELSE counterMap
        /\ IF fills
           THEN tableIdMap' = [tableIdMap EXCEPT ![ID] = EntryInsert(left, e)] /\ Return("OK")
           ELSE tableIdMap' = [tableIdMap EXCEPT ![ID] = left] /\ Return("FLOW_UNKNOWN")
        /\ UNCHANGED <<groupMap, meterMap>>
    BY <1>3, Zenon DEF modify_flow_entry
  <2>2. /\ tableIdMap' = [tableIdMap EXCEPT ![ID] = tbl]
        /\ Return("OK") \/ Return("FLOW_UNKNOWN")
    BY <2>1
  <2>3. /\ ID \in TableIDs
        /\ tableIdMap[ID] \in TableInfo /\ TableInv(ID, tableIdMap[ID])
        /\ ~(e.index >= tableIdMap[ID].size)
        /\ pos \in DOMAIN tableIdMap[ID].entryMap
    BY <1>3, FlowFound
  <2>4. e \in EntryInfo
    BY ReqEntriesType
  <2> HIDE DEF ID, pos, code, old, fills
  <2>5. left \in TableInfo /\ TableInv(ID, left)
    BY <2>3, EntryDeleteOK
  <2>6. e.index < left.size
    <3>1. left.size = tableIdMap[ID].size
      BY <2>3 DEF EntryDelete, TableInfo
    <3> QED
      BY <2>3, <2>4, <3>1, ResourceAssumption DEF EntryInfo, TableInfo
  <2>7. tbl \in TableInfo /\ TableInv(ID, tbl)
    <3> HIDE DEF left
    <3> QED
      BY <2>4, <2>5, <2>6, EntryInsertOK
  <2>8. TablesOK' /\ TableLossOK
    <3> HIDE DEF tbl
    <3> QED
      BY <2>2, <2>3, <2>7, TableStored, NoTableAssumption DEF IInv
  <2>9. CountersOK'
    BY <2>1, CounterMapsOK DEF IInv, CountersOK
  <2> QED
    BY <2>1, <2>2, <2>8, <2>9 DEF IInv, OthersOK, Return, Codes
<1> QED
  BY <1>1, <1>2, <1>3

\* poflr_delete_flow_entry.
LEMMA DeleteEntryOK ==
    ASSUME IInv, NEW type \in ReqTypes, NEW id \in ReqIds(type), NEW index,
           delete_flow_entry(type, id, index)
    PROVE  IInv' /\ TableLossOK
<1> DEFINE code == FlowFindCheck(type, id, index)
           ID == table_id_to_ID(type, id)
           pos == EntryGetWithIndex(tableIdMap[ID], index)
           c == tableIdMap[ID].entryMap[pos].counter_id
           tbl == EntryDelete(tableIdMap[ID], pos)
<1>1. CASE code # "OK"
  BY <1>1, CodesOK, RefuseOK DEF delete_flow_entry
<1>2. CASE code = "OK" /\ CounterFindRet(c) # "OK"
  BY <1>2, CodesOK, RefuseOK DEF delete_flow_entry
<1>3. CASE code = "OK" /\ CounterFindRet(c) = "OK"
  <2>1. /\ counterMap' = CounterDelete(c)
        /\ tableIdMap' = [tableIdMap EXCEPT ![ID] = tbl]
        /\ Return("OK")
        /\ UNCHANGED <<groupMap, meterMap>>
    BY <1>3 DEF delete_flow_entry
  <2>2. /\ ID \in TableIDs
        /\ tableIdMap[ID] \in TableInfo /\ TableInv(ID, tableIdMap[ID])
        /\ pos \in DOMAIN tableIdMap[ID].entryMap
    BY <1>3, FlowFound
  <2> HIDE DEF ID, pos, code, c
  <2>3. tbl \in TableInfo /\ TableInv(ID, tbl)
    BY <2>2, EntryDeleteOK
  <2>4. TablesOK' /\ TableLossOK
    <3> HIDE DEF tbl
    <3> QED
      BY <2>1, <2>2, <2>3, TableStored, NoTableAssumption DEF IInv
  <2>5. CountersOK'
    BY <2>1, CounterMapsOK DEF IInv, CountersOK
  <2> QED
    BY <2>1, <2>4, <2>5 DEF IInv, OthersOK, Return, Codes
<1> QED
  BY <1>1, <1>2, <1>3

\* GROUP_MOD changes groups and counters only.
LEMMA GroupModOK == ASSUME IInv, GroupMod PROVE IInv' /\ TableLossOK
<1> PICK g \in 0..groupNumMax, c \in ReqCounter :
        add_group_entry(g, c) \/ modify_group_entry(g, c) \/ delete_group_entry(g, c)
  BY DEF GroupMod
<1>1. CASE \E code \in Codes : Refuse(code)
  BY <1>1, RefuseOK
<1>2. CASE ~\E code \in Codes : Refuse(code)
  <2>1. {"OK", "INVALID_GROUP", "GROUP_EXISTS", "GROUP_BAD_COUNTER_ID"} \subseteq Codes
    BY DEF Codes
  <2>2. /\ g \in GroupIds \/ g = groupNumMax
        /\ UNCHANGED <<tableIdMap, meterMap>>
        /\ Return("OK")
        /\ \/ g < groupNumMax /\ counterMap' = CounterInit(c)
              /\ groupMap' = [groupMap EXCEPT ![g] = c]
           \/ counterMap' = CounterDelete(c) /\ groupMap' = [groupMap EXCEPT ![g] = NoGroup]
    <3>1. g \in GroupIds \/ g = groupNumMax
      BY ResourceAssumption DEF GroupIds
    <3>2. ~modify_group_entry(g, c)
      BY <1>2, <2>1, CodesOK DEF modify_group_entry
    <3> QED
      BY <1>2, <2>1, <3>1, <3>2, CodesOK DEF add_group_entry, delete_group_entry
  <2>3. TablesOK' /\ TableLossOK
    BY <2>2, TablesUnchanged DEF IInv
  <2>4. CountersOK'
    BY <2>2, CounterMapsOK DEF IInv, CountersOK
  <2> QED
    BY <2>2, <2>3, <2>4 DEF IInv, OthersOK, Return, Codes
<1> QED
  BY <1>1, <1>2

\* METER_MOD changes meters only.
LEMMA MeterModOK == ASSUME IInv, MeterMod PROVE IInv' /\ TableLossOK
<1> PICK m \in 0..meterNumMax :
        add_meter_entry(m) \/ modify_meter_entry(m) \/ delete_meter_entry(m)
  BY DEF MeterMod
<1>1. CASE \E code \in Codes : Refuse(code)
  BY <1>1, RefuseOK
<1>2. CASE ~\E code \in Codes : Refuse(code)
  <2>1. {"OK", "INVALID_METER", "METER_EXISTS"} \subseteq Codes
    BY DEF Codes
  <2>2. /\ UNCHANGED <<tableIdMap, counterMap, groupMap>>
        /\ Return("OK")
        /\ \/ MeterFindCheck(m) = "UNKNOWN_METER" /\ meterMap' = meterMap \cup {m}
           \/ meterMap' = meterMap \ {m}
    BY <1>2, <2>1, CodesOK DEF add_meter_entry, modify_meter_entry, delete_meter_entry
  <2>3. MeterFindCheck(m) = "UNKNOWN_METER" => m \in MeterIds
    BY ResourceAssumption DEF MeterFindCheck, MeterIds
  <2>4. TablesOK' /\ TableLossOK
    BY <2>2, TablesUnchanged DEF IInv
  <2> QED
    BY <2>2, <2>3, <2>4 DEF IInv, CountersOK, OthersOK, Return, Codes
<1> QED
  BY <1>1, <1>2

\* Counting a packet changes counters only, also when it crashes.
LEMMA CountPacketOK == ASSUME IInv, CountPacket PROVE IInv' /\ TableLossOK
<1> PICK c \in ReqCounter : counter_increace(c)
  BY DEF CountPacket
<1>1. CASE Refuse("OK") \/ Refuse("BAD_COUNTER_ID")
  BY <1>1, RefuseOK DEF Codes
<1>2. CASE ~(Refuse("OK") \/ Refuse("BAD_COUNTER_ID"))
  <2>1. /\ UNCHANGED <<tableIdMap, groupMap, meterMap>>
        /\ c \in CounterIds
        /\ \/ counterMap[c] # NoCounter /\ counterMap' = [counterMap EXCEPT ![c] = @ + 1]
           \/ counterMap' = CounterInit(c)
        /\ ret' \in {"OK", ret} /\ alive' \in {FALSE, alive}
    BY <1>2 DEF counter_increace, Return
  <2>2. TablesOK' /\ TableLossOK
    BY <2>1, TablesUnchanged DEF IInv
  <2>3. CountersOK'
    <3>1. CASE counterMap' = CounterInit(c)
      BY <3>1, CounterMapsOK DEF IInv, CountersOK
    <3>2. CASE counterMap[c] # NoCounter /\ counterMap' = [counterMap EXCEPT ![c] = @ + 1]
      <4>1. counterMap[c] + 1 \in Nat
        BY <2>1, <3>2 DEF IInv, CountersOK
      <4> QED
        BY <3>2, <4>1 DEF IInv, CountersOK
    <3> QED
      BY <2>1, <3>1, <3>2
  <2> QED
    BY <2>1, <2>2, <2>3 DEF IInv, OthersOK, Codes
<1> QED
  BY <1>1, <1>2

\* Every step keeps the inductive invariant and loses no entry with a
\* table.
LEMMA NextOK == IInv /\ [Next]_vars => IInv' /\ TableLossOK
<1> SUFFICES ASSUME IInv, [Next]_vars PROVE IInv' /\ TableLossOK
  OBVIOUS
<1>1. CASE UNCHANGED vars
  BY <1>1, TablesUnchanged DEF IInv, CountersOK, OthersOK, vars
<1>2. CASE CounterMod
  BY <1>2, CounterModOK
<1>3. CASE TableMod
  BY <1>3, CreateOK, DeleteTableOK DEF TableMod
<1>4. CASE FlowMod
  BY <1>4, AddEntryOK, ModifyEntryOK, DeleteEntryOK DEF FlowMod
<1>5. CASE GroupMod
  BY <1>5, GroupModOK
<1>6. CASE MeterMod
  BY <1>6, MeterModOK
<1>7. CASE CountPacket
  BY <1>7, CountPacketOK
<1>8. CASE clear_resource
  BY <1>8, EmptyAllOK DEF clear_resource, Return, IInv, OthersOK, Codes
<1>9. CASE Restart
  BY <1>9, EmptyAllOK DEF Restart, Codes
<1> QED
  BY <1>1, <1>2, <1>3, <1>4, <1>5, <1>6, <1>7, <1>8, <1>9 DEF Next

\* The empty resource at start satisfies the invariant.
LEMMA InitOK == Init => IInv
<1> SUFFICES ASSUME Init PROVE IInv
  OBVIOUS
<1>1. TablesOK
  BY DEF Init, TablesOK, NoTables
<1> QED
  BY <1>1 DEF Init, IInv, CountersOK, OthersOK, NoCounters, NoGroups, Codes

\* The inductive invariant: the types, and for every table that it is
\* stored under its own ID, counts its entries and bounds their indexes.
THEOREM Invariance == Spec => []IInv
<1>1. IInv /\ [Next]_vars => IInv'
  BY NextOK
<1> QED
  BY InitOK, <1>1, PTL DEF Spec

\* Every operation on the local resource keeps its state in its type.
THEOREM TypeCorrect == Spec => []TypeOK
<1>1. IInv => TypeOK
  BY IInvImplies
<1> QED
  BY <1>1, Invariance, PTL

\* A table is found under a global ID only if it has the type that
\* poflr_table_ID_to_id gives for this ID, for every configuration of the
\* numbers of tables that a uint8_t can name.
THEOREM TableTypeCorrect == Spec => []TableTypeMatchesID
<1>1. IInv => TableTypeMatchesID
  BY IInvImplies
<1> QED
  BY <1>1, Invariance, PTL

\* The number of entries that guards the deletion of a table is exact.
THEOREM EntryNumCorrect == Spec => []EntryNumExact
<1>1. IInv => EntryNumExact
  BY IInvImplies
<1> QED
  BY <1>1, Invariance, PTL
\* No sequence of operations loses the entries of a table by deleting it: the
\* guard on entryNum is enough because entryNum is exact.
THEOREM TableDeletion == Spec => TableDeletedEmpty
<1>1. IInv /\ [Next]_vars => [TableLossOK]_vars
  BY NextOK
<1>2. TableLossOK <=> \A ID \in TableIDs :
                        tableIdMap[ID] # NoTable /\ tableIdMap'[ID] = NoTable
                          => tableIdMap[ID].entryMap = <<>> \/ EmptyAll
  BY DEF TableLossOK
<1> QED
  BY <1>1, <1>2, Invariance, PTL DEF Spec, TableDeletedEmpty
-----------------------------------------------------------------------------
(* A controller that gives each counter one owner.                         *)

\* The places of the entries in the tables T, and their counters.
IsEntry(T, ID, p)   == ID \in TableIDs /\ T[ID] # NoTable /\ p \in DOMAIN T[ID].entryMap
CounterAt(T, ID, p) == T[ID].entryMap[p].counter_id

\* The counter c can be counted in: it is 0, or legal and in the map C.
Exists(C, c) == c = 0 \/ (c \in CounterIds /\ C[c] # NoCounter)

\* No entry of T, no group of G has the counter c.
NoEntryHas(T, c) == \A ID, p : IsEntry(T, ID, p) => CounterAt(T, ID, p) # c
NoGroupHas(G, c) == \A g \in GroupIds : G[g] # c

\* Every owner's counter exists, and every counter has one owner.
EntriesCounted(T, C) == \A ID, p : IsEntry(T, ID, p) => Exists(C, CounterAt(T, ID, p))
GroupsCounted(G, C)  == \A g \in GroupIds : G[g] # NoGroup => Exists(C, G[g])
EntriesApart(T) ==
    \A J, p, K, q : IsEntry(T, J, p) /\ IsEntry(T, K, q) /\ (J # K \/ p # q) =>
        CounterAt(T, J, p) = 0 \/ CounterAt(T, J, p) # CounterAt(T, K, q)
GroupsApart(G) ==
    \A g, h \in GroupIds : g # h => G[g] \in {0, NoGroup} \/ G[g] # G[h]
EntriesNotGroups(T, G) ==
    \A ID, p : IsEntry(T, ID, p) => CounterAt(T, ID, p) = 0 \/ NoGroupHas(G, CounterAt(T, ID, p))

OwnersOK(T, G, C) ==
    /\ EntriesCounted(T, C) /\ GroupsCounted(G, C)
    /\ EntriesApart(T) /\ GroupsApart(G) /\ EntriesNotGroups(T, G)

DisciplineInv == Disciplined => alive /\ OwnersOK(tableIdMap, groupMap, counterMap)

\* The invariant gives the two properties of the disciplined run.
LEMMA DisciplineImplies == IInv /\ DisciplineInv => CounterOfOwnerExists /\ DisciplinedSurvives
<1> SUFFICES ASSUME IInv, DisciplineInv, Disciplined
             PROVE  CounterOfOwnerExists /\ DisciplinedSurvives
  BY DEF CounterOfOwnerExists, DisciplinedSurvives
<1>1. ASSUME NEW c \in ReqCounter, UsedByEntry(c) PROVE Exists(counterMap, c)
  <2>1. PICK ID \in Tables : \E p \in DOMAIN tableIdMap[ID].entryMap :
                tableIdMap[ID].entryMap[p].counter_id = c
    BY <1>1 DEF UsedByEntry
  <2>2. PICK p \in DOMAIN tableIdMap[ID].entryMap : tableIdMap[ID].entryMap[p].counter_id = c
    BY <2>1
  <2>3. IsEntry(tableIdMap, ID, p) /\ CounterAt(tableIdMap, ID, p) = c
    BY <2>1, <2>2 DEF Tables, IsEntry, CounterAt
  <2> QED
    BY <2>3 DEF DisciplineInv, OwnersOK, EntriesCounted
<1>2. ASSUME NEW c \in ReqCounter, UsedByGroup(c) PROVE Exists(counterMap, c)
  <2>1. PICK g \in GroupIds : groupMap[g] = c
    BY <1>2 DEF UsedByGroup
  <2>2. c # NoGroup
    BY ResourceAssumption DEF ReqCounter, NoGroup
  <2> QED
    BY <2>1, <2>2 DEF DisciplineInv, OwnersOK, GroupsCounted
<1>3. CounterOfOwnerExists
  BY <1>1, <1>2, ResourceAssumption DEF CounterOfOwnerExists, Exists, CounterIds
<1> QED
  BY <1>3 DEF DisciplinedSurvives, DisciplineInv

\* A counter that is free has no owner.
LEMMA FreeHasNoOwner ==
    ASSUME NEW c \in ReqCounter, FreeCounter(c), c # 0
    PROVE  NoEntryHas(tableIdMap, c) /\ NoGroupHas(groupMap, c) /\ c \in CounterIds
<1>1. c < counterNumMax /\ ~UsedByEntry(c) /\ ~UsedByGroup(c)
  BY DEF FreeCounter
<1>2. NoGroupHas(groupMap, c)
  BY <1>1 DEF UsedByGroup, NoGroupHas
<1>3. NoEntryHas(tableIdMap, c)
  BY <1>1 DEF UsedByEntry, NoEntryHas, IsEntry, CounterAt, Tables
<1> QED
  BY <1>1, <1>2, <1>3, ResourceAssumption DEF ReqCounter, CounterIds

\* Counters that stay are enough for the owners.
LEMMA CountersStay ==
    ASSUME NEW T, NEW G, NEW C, NEW C2, OwnersOK(T, G, C),
           \A c : Exists(C, c) => Exists(C2, c)
    PROVE  OwnersOK(T, G, C2)
BY DEF OwnersOK, EntriesCounted, GroupsCounted

\* So are all but one that has no owner.
LEMMA OneCounterGone ==
    ASSUME NEW T, NEW G, NEW C, NEW C2, NEW k, OwnersOK(T, G, C),
           NoEntryHas(T, k), NoGroupHas(G, k),
           \A c : c # k /\ Exists(C, c) => Exists(C2, c)
    PROVE  OwnersOK(T, G, C2)
<1>1. EntriesCounted(T, C2)
  BY DEF OwnersOK, EntriesCounted, NoEntryHas
<1>2. GroupsCounted(G, C2)
  BY DEF OwnersOK, GroupsCounted, NoGroupHas
<1> QED
  BY <1>1, <1>2 DEF OwnersOK

\* poflr_counter_init and poflr_counter_delete.
LEMMA CounterEffects ==
    ASSUME CountersOK, NEW c \in ReqCounter
    PROVE  /\ \A k : Exists(counterMap, k) => Exists(CounterInit(c), k)
           /\ c # counterNumMax => Exists(CounterInit(c), c)
           /\ \A k : Exists(counterMap, k) => Exists(CounterZero(c), k)
           /\ \A k : k # c /\ Exists(counterMap, k) => Exists(CounterDelete(c), k)
           /\ c = 0 => \A k : Exists(counterMap, k) => Exists(CounterDelete(c), k)
<1>1. counterNumMax \in Nat \ {0} /\ c \in Nat /\ c <= counterNumMax /\ 0 # NoCounter
  BY ResourceAssumption DEF ReqCounter, NoCounter
<1>2. c # 0 /\ c # counterNumMax => c \in CounterIds
  BY <1>1 DEF CounterIds
<1>3. ~(0 \in CounterIds)
  BY DEF CounterIds
<1> QED
  BY <1>1, <1>2, <1>3 DEF Exists, CounterInit, CounterDelete, CounterZero

\* The tables T without the entry at pos, and with the entry e, of table ID.
Without(T, ID, pos) == [T EXCEPT ![ID] = EntryDelete(T[ID], pos)]
With(T, ID, e)      == [T EXCEPT ![ID] = EntryInsert(T[ID], e)]

\* Taking one entry out of a table: the owners stay in order, and the counter
\* of the entry, unless it is 0, has no owner any more.
LEMMA EntryGone ==
    ASSUME NEW T \in [TableIDs -> TableInfo \cup {NoTable}], NEW G, NEW C,
           NEW ID \in TableIDs, T[ID] \in TableInfo,
           NEW pos \in DOMAIN T[ID].entryMap,
           OwnersOK(T, G, C)
    PROVE  /\ OwnersOK(Without(T, ID, pos), G, C)
           /\ CounterAt(T, ID, pos) # 0 => /\ NoEntryHas(Without(T, ID, pos), CounterAt(T, ID, pos))
                                           /\ NoGroupHas(G, CounterAt(T, ID, pos))
           /\ \A c : NoEntryHas(T, c) => NoEntryHas(Without(T, ID, pos), c)
<1> DEFINE s == T[ID].entryMap
           T2 == Without(T, ID, pos)
           back(J, p) == IF J # ID \/ p < pos THEN p ELSE p + 1
<1>1. s \in Seq(EntryInfo) /\ Len(s) \in Nat /\ DOMAIN s = 1..Len(s) /\ pos \in 1..Len(s)
  BY LenProperties DEF TableInfo
<1>2. /\ Len(RemoveAt(s, pos)) = Len(s) - 1
      /\ RemoveAt(s, pos) \in Seq(EntryInfo)
      /\ \A i \in 1..(Len(s) - 1) : RemoveAt(s, pos)[i] = IF i < pos THEN s[i] ELSE s[i + 1]
  BY <1>1, RemoveAtProperties
<1>3. DOMAIN RemoveAt(s, pos) = 1..(Len(s) - 1)
  BY <1>2
<1>4. T[ID] # NoTable /\ IsEntry(T, ID, pos)
  BY NoTableAssumption DEF IsEntry
<1>5. T2[ID].entryMap = RemoveAt(s, pos)
  BY DEF EntryDelete, TableInfo, Without
<1>6. \A J \in TableIDs : J # ID => T2[J] = T[J]
  BY DEF Without
<1> HIDE DEF T2
<1>7. ASSUME NEW J, NEW p, IsEntry(T2, J, p)
      PROVE  /\ IsEntry(T, J, back(J, p))
             /\ CounterAt(T2, J, p) = CounterAt(T, J, back(J, p))
             /\ (J # ID \/ back(J, p) # pos)
  <2>1. CASE J # ID
    BY <1>6, <1>7, <2>1 DEF IsEntry, CounterAt
  <2>2. CASE J = ID
    <3>1. p \in 1..(Len(s) - 1)
      BY <1>3, <1>5, <1>7, <2>2 DEF IsEntry
    <3>2. RemoveAt(s, pos)[p] = s[back(J, p)] /\ back(J, p) \in 1..Len(s) /\ back(J, p) # pos
      BY <1>1, <1>2, <2>2, <3>1
    <3> QED
      <4> HIDE DEF back
      <4> QED
        BY <1>1, <1>4, <1>5, <2>2, <3>2 DEF IsEntry, CounterAt
  <2> QED
    BY <2>1, <2>2
<1>8. ASSUME NEW J, NEW p, NEW K, NEW q,
             IsEntry(T2, J, p), IsEntry(T2, K, q), (J # K \/ p # q)
      PROVE  J # K \/ back(J, p) # back(K, q)
  <2>1. CASE J = ID /\ K = ID
    <3>1. p \in 1..(Len(s) - 1) /\ q \in 1..(Len(s) - 1)
      BY <1>3, <1>5, <1>8, <2>1 DEF IsEntry
    <3> QED
      BY <1>1, <1>8, <2>1, <3>1
  <2>2. CASE ~(J = ID /\ K = ID)
    BY <1>8, <2>2
  <2> QED
    BY <2>1, <2>2
<1> HIDE DEF s, back
<1>9. EntriesCounted(T2, C) /\ EntriesNotGroups(T2, G)
  BY <1>7 DEF OwnersOK, EntriesCounted, EntriesNotGroups
<1>10. EntriesApart(T2)
  <2> SUFFICES ASSUME NEW J, NEW p, NEW K, NEW q,
                      IsEntry(T2, J, p), IsEntry(T2, K, q), (J # K \/ p # q)
               PROVE  CounterAt(T2, J, p) = 0 \/ CounterAt(T2, J, p) # CounterAt(T2, K, q)
    BY DEF EntriesApart
  <2>1. /\ IsEntry(T, J, back(J, p)) /\ CounterAt(T2, J, p) = CounterAt(T, J, back(J, p))
        /\ IsEntry(T, K, back(K, q)) /\ CounterAt(T2, K, q) = CounterAt(T, K, back(K, q))
        /\ (J # K \/ back(J, p) # back(K, q))
    BY <1>7, <1>8
  <2> QED
    BY <2>1 DEF OwnersOK, EntriesApart
<1>11. ASSUME CounterAt(T, ID, pos) # 0
       PROVE  NoEntryHas(T2, CounterAt(T, ID, pos)) /\ NoGroupHas(G, CounterAt(T, ID, pos))
  <2>1. ASSUME NEW J, NEW p, IsEntry(T2, J, p)
        PROVE  CounterAt(T2, J, p) # CounterAt(T, ID, pos)
    <3>1. /\ IsEntry(T, J, back(J, p)) /\ CounterAt(T2, J, p) = CounterAt(T, J, back(J, p))
          /\ (J # ID \/ back(J, p) # pos)
      BY <1>7, <2>1
    <3> QED
      BY <1>4, <1>11, <3>1 DEF OwnersOK, EntriesApart
  <2> QED
    BY <1>4, <1>11, <2>1 DEF NoEntryHas, OwnersOK, EntriesNotGroups
<1>12. ASSUME NEW c, NoEntryHas(T, c) PROVE NoEntryHas(T2, c)
  BY <1>7, <1>12 DEF NoEntryHas
<1> QED
  BY <1>9, <1>10, <1>11, <1>12 DEF OwnersOK, T2

\* Putting in an entry whose counter exists and has no owner.
LEMMA EntryNew ==
    ASSUME NEW T \in [TableIDs -> TableInfo \cup {NoTable}], NEW G, NEW C,
           NEW ID \in TableIDs, T[ID] \in TableInfo,
           NEW e \in EntryInfo, Exists(C, e.counter_id),
           e.counter_id # 0 => NoEntryHas(T, e.counter_id) /\ NoGroupHas(G, e.counter_id),
           OwnersOK(T, G, C)
    PROVE  OwnersOK(With(T, ID, e), G, C)
<1> DEFINE s == T[ID].entryMap
           T2 == With(T, ID, e)
           back(J, p) == IF J # ID THEN p ELSE p - 1
           c == e.counter_id
<1>1. s \in Seq(EntryInfo) /\ Len(s) \in Nat /\ DOMAIN s = 1..Len(s)
  BY LenProperties DEF TableInfo
<1>2. /\ <<e>> \o s \in Seq(EntryInfo)
      /\ Len(<<e>> \o s) = Len(s) + 1
      /\ (<<e>> \o s)[1] = e
      /\ \A i \in 2..(Len(s) + 1) : (<<e>> \o s)[i] = s[i - 1]
  BY <1>1, ConsProperties
<1>3. DOMAIN (<<e>> \o s) = 1..(Len(s) + 1)
  BY <1>2
<1>4. T[ID] # NoTable
  BY NoTableAssumption
<1>5. T2[ID].entryMap = <<e>> \o s
  BY DEF EntryInsert, TableInfo, With
<1>6. \A J \in TableIDs : J # ID => T2[J] = T[J]
  BY DEF With
<1> HIDE DEF T2
<1>7. ASSUME NEW J, NEW p, IsEntry(T2, J, p)
      PROVE  \/ J = ID /\ p = 1 /\ CounterAt(T2, J, p) = c
             \/ IsEntry(T, J, back(J, p)) /\ CounterAt(T2, J, p) = CounterAt(T, J, back(J, p))
  <2>1. CASE J # ID
    BY <1>6, <1>7, <2>1 DEF IsEntry, CounterAt
  <2>2. CASE J = ID /\ p = 1
    BY <1>2, <1>5, <2>2 DEF CounterAt
  <2>3. CASE J = ID /\ p # 1
    <3>1. p \in 1..(Len(s) + 1)
      BY <1>3, <1>5, <1>7, <2>3 DEF IsEntry
    <3>2. (<<e>> \o s)[p] = s[back(J, p)] /\ back(J, p) \in 1..Len(s)
      BY <1>1, <1>2, <2>3, <3>1
    <3> QED
      <4> HIDE DEF back
      <4> QED
        BY <1>1, <1>4, <1>5, <2>3, <3>2 DEF IsEntry, CounterAt
  <2> QED
    BY <2>1, <2>2, <2>3
<1>8. ASSUME NEW J, NEW p, NEW K, NEW q,
             IsEntry(T2, J, p), IsEntry(T2, K, q), (J # K \/ p # q)
      PROVE  J # K \/ back(J, p) # back(K, q)
  <2>1. CASE J = ID /\ K = ID
    <3>1. p \in 1..(Len(s) + 1) /\ q \in 1..(Len(s) + 1)
      BY <1>3, <1>5, <1>8, <2>1 DEF IsEntry
    <3> QED
      BY <1>1, <1>8, <2>1, <3>1
  <2>2. CASE ~(J = ID /\ K = ID)
    BY <1>8, <2>2
  <2> QED
    BY <2>1, <2>2
<1> HIDE DEF s, back, c
<1>9. EntriesCounted(T2, C)
  BY <1>7 DEF OwnersOK, EntriesCounted, c
<1>10. EntriesNotGroups(T2, G)
  BY <1>7 DEF OwnersOK, EntriesNotGroups, c
<1>11. EntriesApart(T2)
  <2> SUFFICES ASSUME NEW J, NEW p, NEW K, NEW q,
                      IsEntry(T2, J, p), IsEntry(T2, K, q), (J # K \/ p # q)
               PROVE  CounterAt(T2, J, p) = 0 \/ CounterAt(T2, J, p) # CounterAt(T2, K, q)
    BY DEF EntriesApart
  <2>1. CASE J = ID /\ p = 1 /\ CounterAt(T2, J, p) = c
    <3>1. IsEntry(T, K, back(K, q)) /\ CounterAt(T2, K, q) = CounterAt(T, K, back(K, q))
      BY <1>7, <2>1, Zenon
    <3> QED
      BY <2>1, <3>1 DEF NoEntryHas, c
  <2>2. CASE K = ID /\ q = 1 /\ CounterAt(T2, K, q) = c
    <3>1. IsEntry(T, J, back(J, p)) /\ CounterAt(T2, J, p) = CounterAt(T, J, back(J, p))
      BY <1>7, <2>2, Zenon
    <3> QED
      BY <2>2, <3>1 DEF NoEntryHas, c
  <2>3. CASE /\ IsEntry(T, J, back(J, p)) /\ CounterAt(T2, J, p) = CounterAt(T, J, back(J, p))
             /\ IsEntry(T, K, back(K, q)) /\ CounterAt(T2, K, q) = CounterAt(T, K, back(K, q))
    <3>1. J # K \/ back(J, p) # back(K, q)
      BY <1>8
    <3> QED
      BY <2>3, <3>1 DEF OwnersOK, EntriesApart
  <2> QED
    BY <1>7, <2>1, <2>2, <2>3
<1> QED
  BY <1>9, <1>10, <1>11 DEF OwnersOK, T2

\* Storing an empty table, or taking a table without entries away.
LEMMA EmptyTable ==
    ASSUME NEW T \in [TableIDs -> TableInfo \cup {NoTable}], NEW G, NEW C,
           NEW ID \in TableIDs, NEW tbl, tbl = NoTable \/ tbl.entryMap = <<>>,
           NEW T2, T2 = [T EXCEPT ![ID] = tbl],
           OwnersOK(T, G, C)
    PROVE  OwnersOK(T2, G, C)
<1>1. ASSUME NEW J, NEW p, IsEntry(T2, J, p)
      PROVE  IsEntry(T, J, p) /\ CounterAt(T2, J, p) = CounterAt(T, J, p)
  <2>1. CASE J = ID
    <3>1. DOMAIN <<>> = {}
      OBVIOUS
    <3> QED
      BY <1>1, <2>1, <3>1 DEF IsEntry
  <2>2. CASE J # ID
    BY <1>1, <2>2 DEF IsEntry, CounterAt
  <2> QED
    BY <2>1, <2>2
<1>2. EntriesCounted(T2, C) /\ EntriesNotGroups(T2, G)
  BY <1>1 DEF OwnersOK, EntriesCounted, EntriesNotGroups
<1>3. EntriesApart(T2)
  <2> SUFFICES ASSUME NEW J, NEW p, NEW K, NEW q,
                      IsEntry(T2, J, p), IsEntry(T2, K, q), (J # K \/ p # q)
               PROVE  CounterAt(T2, J, p) = 0 \/ CounterAt(T2, J, p) # CounterAt(T2, K, q)
    BY DEF EntriesApart
  <2>1. /\ IsEntry(T, J, p) /\ CounterAt(T2, J, p) = CounterAt(T, J, p)
        /\ IsEntry(T, K, q) /\ CounterAt(T2, K, q) = CounterAt(T, K, q)
    BY <1>1
  <2> QED
    BY <2>1 DEF OwnersOK, EntriesApart
<1> QED
  BY <1>2, <1>3 DEF OwnersOK

\* A new group with a counter that exists and has no owner.
LEMMA GroupNew ==
    ASSUME NEW T, NEW C, NEW G \in [GroupIds -> ReqCounter \cup {NoGroup}],
           NEW g \in GroupIds, NEW c, Exists(C, c),
           c # 0 => NoEntryHas(T, c) /\ NoGroupHas(G, c),
           NEW G2, G2 = [G EXCEPT ![g] = c], OwnersOK(T, G, C)
    PROVE  OwnersOK(T, G2, C)
<1>1. /\ G2[g] = c
      /\ \A h \in GroupIds : h # g => G2[h] = G[h]
  OBVIOUS
<1>2. GroupsCounted(G2, C)
  BY <1>1 DEF OwnersOK, GroupsCounted
<1>3. GroupsApart(G2)
  BY <1>1 DEF OwnersOK, GroupsApart, NoGroupHas
<1>4. EntriesNotGroups(T, G2)
  BY <1>1 DEF OwnersOK, EntriesNotGroups, NoGroupHas, NoEntryHas
<1> QED
  BY <1>2, <1>3, <1>4 DEF OwnersOK

\* A group goes: its counter, unless it is 0, has no owner any more.
LEMMA GroupGone ==
    ASSUME NEW T, NEW C, NEW G \in [GroupIds -> ReqCounter \cup {NoGroup}],
           NEW g \in GroupIds, G[g] # NoGroup,
           NEW G2, G2 = [G EXCEPT ![g] = NoGroup], OwnersOK(T, G, C)
    PROVE  /\ OwnersOK(T, G2, C)
           /\ G[g] # 0 => NoEntryHas(T, G[g]) /\ NoGroupHas(G2, G[g])
<1>1. /\ G2[g] = NoGroup
      /\ \A h \in GroupIds : h # g => G2[h] = G[h]
  OBVIOUS
<1>2. GroupsCounted(G2, C)
  BY <1>1 DEF OwnersOK, GroupsCounted
<1>3. GroupsApart(G2)
  BY <1>1 DEF OwnersOK, GroupsApart
<1>4. EntriesNotGroups(T, G2)
  <2>1. \A c : Exists(C, c) => c # NoGroup
    BY DEF Exists, CounterIds, NoGroup
  <2> QED
    BY <1>1, <2>1 DEF OwnersOK, EntriesCounted, EntriesNotGroups, NoGroupHas
<1>5. ASSUME G[g] # 0 PROVE NoEntryHas(T, G[g]) /\ NoGroupHas(G2, G[g])
  <2>1. NoEntryHas(T, G[g])
    BY <1>5 DEF OwnersOK, EntriesNotGroups, NoGroupHas, NoEntryHas
  <2>2. NoGroupHas(G2, G[g])
    BY <1>1, <1>5 DEF OwnersOK, GroupsApart, NoGroupHas
  <2> QED
    BY <2>1, <2>2
<1> QED
  BY <1>2, <1>3, <1>4, <1>5 DEF OwnersOK
-----------------------------------------------------------------------------
(* The operations under the discipline. Each keeps the owners in order:    *)
(* NextOwners is the invariant of the state after the step.                *)

NextOwners == alive' /\ OwnersOK(tableIdMap', groupMap', counterMap')

\* A refused request.
LEMMA RefuseOwners ==
    ASSUME Disciplined, DisciplineInv, NEW code, Refuse(code)
    PROVE  NextOwners
BY DEF DisciplineInv, NextOwners, Refuse, Return, resource

\* The empty resource has no owners.
LEMMA EmptyOwners ==
    ASSUME EmptyAll, alive'
    PROVE  NextOwners
<1>1. \A J, p : ~IsEntry(NoTables, J, p)
  BY DEF IsEntry, NoTables
<1>2. \A g \in GroupIds : NoGroups[g] = NoGroup
  BY DEF NoGroups
<1>3. OwnersOK(NoTables, NoGroups, NoCounters)
  BY <1>1, <1>2 DEF OwnersOK, EntriesCounted, GroupsCounted, EntriesApart, GroupsApart,
                    EntriesNotGroups
<1> QED
  BY <1>3 DEF EmptyAll, NextOwners

\* COUNTER_MOD: counters are made and zeroed at will, and deleted when free.
LEMMA CounterModOwners ==
    ASSUME Disciplined, DisciplineInv, IInv, CounterMod
    PROVE  NextOwners
<1> PICK c \in ReqCounter : counter_init(c) \/ counter_delete(c) \/ counter_clear(c)
  BY DEF CounterMod
<1>1. /\ CountersOK
      /\ alive /\ OwnersOK(tableIdMap, groupMap, counterMap)
  BY DEF DisciplineInv, IInv
<1>2. CASE \E code : Refuse(code)
  BY <1>2, RefuseOwners
<1>3. CASE ~\E code : Refuse(code)
  <2>1. /\ alive' = alive /\ UNCHANGED <<tableIdMap, groupMap>>
        /\ \/ counterMap' = CounterInit(c)
           \/ counterMap' = CounterDelete(c) /\ FreeCounter(c)
           \/ counterMap' = CounterZero(c)
    BY <1>3 DEF counter_init, counter_delete, counter_clear, Return
  <2>2. CASE counterMap' = CounterInit(c) \/ counterMap' = CounterZero(c)
    <3>1. \A k : Exists(counterMap, k) => Exists(counterMap', k)
      BY <1>1, <2>2, CounterEffects
    <3>2. OwnersOK(tableIdMap, groupMap, counterMap')
      BY <1>1, <3>1, CountersStay
    <3> QED
      BY <1>1, <2>1, <3>2 DEF NextOwners
  <2>3. CASE counterMap' = CounterDelete(c) /\ FreeCounter(c)
    <3>1. CASE c = 0
      <4>1. \A k : Exists(counterMap, k) => Exists(counterMap', k)
        BY <1>1, <2>3, <3>1, CounterEffects
      <4>2. OwnersOK(tableIdMap, groupMap, counterMap')
        BY <1>1, <4>1, CountersStay
      <4> QED
        BY <1>1, <2>1, <4>2 DEF NextOwners
    <3>2. CASE c # 0
      <4>1. \A k : k # c /\ Exists(counterMap, k) => Exists(counterMap', k)
        BY <1>1, <2>3, CounterEffects
      <4>2. NoEntryHas(tableIdMap, c) /\ NoGroupHas(groupMap, c)
        BY <2>3, <3>2, FreeHasNoOwner
      <4>3. OwnersOK(tableIdMap, groupMap, counterMap')
        BY <1>1, <4>1, <4>2, OneCounterGone
      <4> QED
        BY <1>1, <2>1, <4>3 DEF NextOwners
    <3> QED
      BY <3>1, <3>2
  <2> QED
    BY <2>1, <2>2, <2>3
<1> QED
  BY <1>2, <1>3

\* TABLE_MOD stores and removes only tables without entries.
LEMMA TableModOwners ==
    ASSUME Disciplined, DisciplineInv, IInv, TableMod
    PROVE  NextOwners
<1>1. /\ tableIdMap \in [TableIDs -> TableInfo \cup {NoTable}]
      /\ alive /\ OwnersOK(tableIdMap, groupMap, counterMap)
  BY DEF DisciplineInv, IInv, TablesOK
<1>2. CASE \E code : Refuse(code)
  BY <1>2, RefuseOwners
<1>3. CASE ~\E code : Refuse(code)
  <2> PICK type \in ReqTypes : \E id \in ReqIds(type) :
        \/ \E size \in 0..(tableSizeMax + 1), keyLenOK \in BOOLEAN :
                create_flow_table(type, id, size, keyLenOK)
        \/ delete_flow_table(type, id)
    BY DEF TableMod
  <2> PICK id \in ReqIds(type) :
        \/ \E size \in 0..(tableSizeMax + 1), keyLenOK \in BOOLEAN :
                create_flow_table(type, id, size, keyLenOK)
        \/ delete_flow_table(type, id)
    OBVIOUS
  <2> DEFINE ID == table_id_to_ID(type, id)
             Stored == \E tbl : /\ tbl = NoTable \/ tbl.entryMap = <<>>
                                /\ tableIdMap' = [tableIdMap EXCEPT ![ID] = tbl]
  <2>1. /\ alive' = alive /\ UNCHANGED <<counterMap, groupMap>>
        /\ ID \in TableIDs
        /\ Stored
    <3>1. CASE delete_flow_table(type, id)
      <4>1. DeleteCheck(type, id) = "OK"
        BY <1>3, <3>1 DEF delete_flow_table
      <4>2. ID \in TableIDs
        BY <4>1, RequestID DEF DeleteCheck
      <4> QED
        BY <3>1, <4>1, <4>2 DEF delete_flow_table, Return
    <3>2. ASSUME NEW size \in 0..(tableSizeMax + 1), NEW keyLenOK \in BOOLEAN,
                 create_flow_table(type, id, size, keyLenOK)
          PROVE  alive' = alive /\ UNCHANGED <<counterMap, groupMap>> /\ ID \in TableIDs /\ Stored
      <4> DEFINE tbl == [type |-> type, size |-> size, entryNum |-> 0, entryMap |-> <<>>]
      <4>1. CreateCheck(type, id, size, keyLenOK) = "OK"
        BY <1>3, <3>2 DEF create_flow_table
      <4>2. ID \in TableIDs
        BY <4>1, RequestID DEF CreateCheck
      <4>3. tbl.entryMap = <<>>
        OBVIOUS
      <4>4. /\ tableIdMap' = [tableIdMap EXCEPT ![ID] = tbl]
            /\ alive' = alive /\ UNCHANGED <<counterMap, groupMap>>
        BY <3>2, <4>1 DEF create_flow_table, Return
      <4> HIDE DEF tbl, ID
      <4> QED
        BY <4>2, <4>3, <4>4
    <3> QED
      BY <3>1, <3>2
  <2> HIDE DEF ID
  <2>2. PICK tbl : /\ tbl = NoTable \/ tbl.entryMap = <<>>
                   /\ tableIdMap' = [tableIdMap EXCEPT ![ID] = tbl]
    BY <2>1
  <2>3. OwnersOK(tableIdMap', groupMap, counterMap)
    BY <1>1, <2>1, <2>2, EmptyTable
  <2> QED
    BY <1>1, <2>1, <2>3 DEF NextOwners
<1> QED
  BY <1>2, <1>3

\* poflr_add_flow_entry with a free counter.
LEMMA AddEntryOwners ==
    ASSUME Disciplined, DisciplineInv, IInv, NEW type \in ReqTypes, NEW id \in ReqIds(type),
           NEW e \in ReqEntries, NEW matchOK \in BOOLEAN,
           add_flow_entry(type, id, e, matchOK)
    PROVE  NextOwners
<1> DEFINE ID == table_id_to_ID(type, id)
           c == e.counter_id
<1>1. /\ tableIdMap \in [TableIDs -> TableInfo \cup {NoTable}] /\ CountersOK
      /\ alive /\ OwnersOK(tableIdMap, groupMap, counterMap)
  BY DEF DisciplineInv, IInv, TablesOK
<1>2. CASE \E code : Refuse(code)
  BY <1>2, RefuseOwners
<1>3. CASE ~\E code : Refuse(code)
  <2>1. /\ FreeCounter(c) /\ FlowModCheck(type, id, e.index) = "OK"
        /\ tableIdMap' = With(tableIdMap, ID, e)
        /\ counterMap' = CounterInit(c)
        /\ alive' = alive /\ groupMap' = groupMap
    BY <1>3 DEF add_flow_entry, Return, With
  <2>2. ID \in TableIDs /\ tableIdMap[ID] \in TableInfo
    BY <2>1, FlowRequest
  <2>3. e \in EntryInfo /\ c \in ReqCounter
    BY ReqEntriesType DEF ReqEntries
  <2>4. c # counterNumMax
    BY <2>1, ResourceAssumption DEF FreeCounter
  <2>5. c # 0 => NoEntryHas(tableIdMap, c) /\ NoGroupHas(groupMap, c)
    BY <2>1, <2>3, FreeHasNoOwner
  <2> HIDE DEF ID
  <2>6. Exists(counterMap', c) /\ \A k : Exists(counterMap, k) => Exists(counterMap', k)
    BY <1>1, <2>1, <2>3, <2>4, CounterEffects
  <2>7. OwnersOK(tableIdMap, groupMap, counterMap')
    BY <1>1, <2>6, CountersStay
  <2>8. OwnersOK(tableIdMap', groupMap, counterMap')
    <3>1. /\ tableIdMap \in [TableIDs -> TableInfo \cup {NoTable}]
          /\ tableIdMap' = With(tableIdMap, ID, e)
      BY <1>1, <2>1
    <3>2. Exists(counterMap', e.counter_id)
      BY <2>6
    <3> QED
      BY <2>2, <2>3, <2>5, <2>7, <3>1, <3>2, EntryNew
  <2> QED
    BY <1>1, <2>1, <2>8 DEF NextOwners
<1> QED
  BY <1>2, <1>3

\* poflr_modify_flow_entry with the old counter or a free one.  The old
\* counter, if it is another, stays in the map without an owner.
LEMMA ModifyEntryOwners ==
    ASSUME Disciplined, DisciplineInv, IInv, NEW type \in ReqTypes, NEW id \in ReqIds(type),
           NEW e \in ReqEntries, NEW matchOK \in BOOLEAN,
           modify_flow_entry(type, id, e, matchOK)
    PROVE  NextOwners
<1> DEFINE ID == table_id_to_ID(type, id)
           pos == EntryGetWithIndex(tableIdMap[ID], e.index)
           old == tableIdMap[ID].entryMap[pos].counter_id
           left == EntryDelete(tableIdMap[ID], pos)
           c == e.counter_id
           T == [tableIdMap EXCEPT ![ID] = left]
<1>1. /\ tableIdMap \in [TableIDs -> TableInfo \cup {NoTable}] /\ CountersOK
      /\ alive /\ OwnersOK(tableIdMap, groupMap, counterMap)
  BY DEF DisciplineInv, IInv, TablesOK
<1>2. CASE \E code : Refuse(code)
  BY <1>2, RefuseOwners
<1>3. CASE ~\E code : Refuse(code)
  <2>1. /\ FlowFindCheck(type, id, e.index) = "OK"
        /\ old # c => CounterInitRet(c) = "OK"
        /\ old = c \/ FreeCounter(c)
        /\ counterMap' = IF old # c THEN CounterInit(c) ELSE counterMap
        /\ \/ tableIdMap' = [tableIdMap EXCEPT ![ID] = EntryInsert(left, e)]
           \/ tableIdMap' = T
        /\ alive' = alive /\ groupMap' = groupMap
    BY <1>3, Zenon DEF modify_flow_entry, Return
  <2>2. /\ ID \in TableIDs
        /\ tableIdMap[ID] \in TableInfo /\ TableInv(ID, tableIdMap[ID])
        /\ pos \in DOMAIN tableIdMap[ID].entryMap
    BY <2>1, FlowFound
  <2>3. e \in EntryInfo /\ c \in ReqCounter
    BY ReqEntriesType DEF ReqEntries
  <2> HIDE DEF ID, pos
  <2>4. left \in TableInfo
    BY <2>2, EntryDeleteOK
  <2>5. /\ T \in [TableIDs -> TableInfo \cup {NoTable}]
        /\ T[ID] = left
        /\ [tableIdMap EXCEPT ![ID] = EntryInsert(left, e)]
                = [T EXCEPT ![ID] = EntryInsert(left, e)]
    <3> HIDE DEF left
    <3> QED
      BY <1>1, <2>2, <2>4
  <2>6. old = CounterAt(tableIdMap, ID, pos)
    BY DEF CounterAt
  <2>7. IsEntry(tableIdMap, ID, pos)
    BY <2>2, NoTableAssumption DEF IsEntry
  <2>8. Exists(counterMap, old)
    BY <1>1, <2>6, <2>7 DEF OwnersOK, EntriesCounted
  <2>9. /\ OwnersOK(T, groupMap, counterMap)
        /\ old # 0 => NoEntryHas(T, old) /\ NoGroupHas(groupMap, old)
        /\ \A k : NoEntryHas(tableIdMap, k) => NoEntryHas(T, k)
    <3> HIDE DEF T, old
    <3>1. T = Without(tableIdMap, ID, pos)
      BY DEF T, left, Without
    <3> QED
      BY <1>1, <2>2, <2>6, <3>1, EntryGone
  <2> HIDE DEF T, old, left
  <2>10. /\ \A k : Exists(counterMap, k) => Exists(counterMap', k)
         /\ Exists(counterMap', c)
         /\ c # 0 => NoEntryHas(T, c) /\ NoGroupHas(groupMap, c)
    <3>1. CASE old = c
      BY <2>1, <2>8, <2>9, <3>1
    <3>2. CASE old # c
      <4>1. FreeCounter(c) /\ counterMap' = CounterInit(c)
        BY <2>1, <3>2
      <4>2. c # counterNumMax
        BY <4>1, ResourceAssumption DEF FreeCounter
      <4>3. c # 0 => NoEntryHas(tableIdMap, c) /\ NoGroupHas(groupMap, c)
        BY <2>3, <4>1, FreeHasNoOwner
      <4>4. Exists(CounterInit(c), c) /\ \A k : Exists(counterMap, k) => Exists(CounterInit(c), k)
        BY <1>1, <2>3, <4>2, CounterEffects
      <4> QED
        BY <2>9, <4>1, <4>3, <4>4
    <3> QED
      BY <3>1, <3>2
  <2>11. OwnersOK(T, groupMap, counterMap')
    BY <2>9, <2>10, CountersStay
  <2>12. OwnersOK(tableIdMap', groupMap, counterMap')
    <3>1. CASE tableIdMap' = T
      BY <2>11, <3>1
    <3>2. CASE tableIdMap' = [tableIdMap EXCEPT ![ID] = EntryInsert(left, e)]
      <4>1. tableIdMap' = With(T, ID, e) /\ T[ID] \in TableInfo
        BY <2>4, <2>5, <3>2 DEF With
      <4> QED
        BY <2>2, <2>3, <2>5, <2>10, <2>11, <4>1, EntryNew
    <3> QED
      BY <2>1, <3>1, <3>2
  <2> QED
    BY <1>1, <2>1, <2>12 DEF NextOwners
<1> QED
  BY <1>2, <1>3

\* poflr_delete_flow_entry takes the counter and its only owner.
LEMMA DeleteEntryOwners ==
    ASSUME Disciplined, DisciplineInv, IInv, NEW type \in ReqTypes, NEW id \in ReqIds(type),
           NEW index, delete_flow_entry(type, id, index)
    PROVE  NextOwners
<1> DEFINE ID == table_id_to_ID(type, id)
           pos == EntryGetWithIndex(tableIdMap[ID], index)
           c == tableIdMap[ID].entryMap[pos].counter_id
<1>1. /\ tableIdMap \in [TableIDs -> TableInfo \cup {NoTable}] /\ CountersOK
      /\ alive /\ OwnersOK(tableIdMap, groupMap, counterMap)
  BY DEF DisciplineInv, IInv, TablesOK
<1>2. CASE \E code : Refuse(code)
  BY <1>2, RefuseOwners
<1>3. CASE ~\E code : Refuse(code)
  <2>1. /\ FlowFindCheck(type, id, index) = "OK"
        /\ tableIdMap' = Without(tableIdMap, ID, pos)
        /\ counterMap' = CounterDelete(c)
        /\ alive' = alive /\ groupMap' = groupMap
    BY <1>3 DEF delete_flow_entry, Return, Without
  <2>2. /\ ID \in TableIDs /\ tableIdMap[ID] \in TableInfo
        /\ pos \in DOMAIN tableIdMap[ID].entryMap
    BY <2>1, FlowFound
  <2> HIDE DEF ID, pos
  <2>3. c = CounterAt(tableIdMap, ID, pos) /\ IsEntry(tableIdMap, ID, pos)
    BY <2>2, NoTableAssumption DEF CounterAt, IsEntry
  <2>4. c \in ReqCounter
    <3>1. Exists(counterMap, c)
      BY <1>1, <2>3 DEF OwnersOK, EntriesCounted
    <3> QED
      BY <3>1, ResourceAssumption DEF Exists, CounterIds, ReqCounter
  <2> HIDE DEF c
  <2>5. /\ OwnersOK(tableIdMap', groupMap, counterMap)
        /\ c # 0 => NoEntryHas(tableIdMap', c) /\ NoGroupHas(groupMap, c)
    <3>1. /\ tableIdMap \in [TableIDs -> TableInfo \cup {NoTable}]
          /\ tableIdMap' = Without(tableIdMap, ID, pos)
          /\ OwnersOK(tableIdMap, groupMap, counterMap)
      BY <1>1, <2>1
    <3> QED
      BY <2>2, <2>3, <3>1, EntryGone
  <2>6. /\ \A k : k # c /\ Exists(counterMap, k) => Exists(counterMap', k)
        /\ c = 0 => \A k : Exists(counterMap, k) => Exists(counterMap', k)
    BY <1>1, <2>1, <2>4, CounterEffects
  <2>7. OwnersOK(tableIdMap', groupMap, counterMap')
    BY <2>5, <2>6, CountersStay, OneCounterGone
  <2> QED
    BY <1>1, <2>1, <2>7 DEF NextOwners
<1> QED
  BY <1>2, <1>3

\* GROUP_MOD with a free counter, or with the counter of the group.
LEMMA GroupModOwners ==
    ASSUME Disciplined, DisciplineInv, IInv, GroupMod
    PROVE  NextOwners
<1> PICK g \in 0..groupNumMax, c \in ReqCounter :
        add_group_entry(g, c) \/ modify_group_entry(g, c) \/ delete_group_entry(g, c)
  BY DEF GroupMod
<1>1. /\ groupMap \in [GroupIds -> ReqCounter \cup {NoGroup}] /\ CountersOK
      /\ alive /\ OwnersOK(tableIdMap, groupMap, counterMap)
  BY DEF DisciplineInv, IInv, OthersOK
<1>2. CASE \E code : Refuse(code)
  BY <1>2, RefuseOwners
<1>3. CASE ~\E code : Refuse(code)
  <2>1. /\ alive' = alive /\ tableIdMap' = tableIdMap
        /\ ~(g >= groupNumMax)
        /\ \/ /\ FreeCounter(c)
              /\ counterMap' = CounterInit(c)
              /\ groupMap' = [groupMap EXCEPT ![g] = c]
           \/ /\ groupMap[g] # NoGroup /\ groupMap[g] = c
              /\ counterMap' = CounterDelete(c)
              /\ groupMap' = [groupMap EXCEPT ![g] = NoGroup]
    <3>1. ~modify_group_entry(g, c)
      BY <1>3 DEF modify_group_entry
    <3>2. CASE add_group_entry(g, c)
      BY <1>3, <3>2, ResourceAssumption DEF add_group_entry, Return
    <3>3. CASE delete_group_entry(g, c)
      BY <1>3, <3>3 DEF delete_group_entry, GroupFindCheck, Return
    <3> QED
      BY <3>1, <3>2, <3>3
  <2>2. g \in GroupIds
    BY <2>1, ResourceAssumption DEF GroupIds
  <2>3. CASE /\ FreeCounter(c)
             /\ counterMap' = CounterInit(c)
             /\ groupMap' = [groupMap EXCEPT ![g] = c]
    <3>1. c # counterNumMax
      BY <2>3, ResourceAssumption DEF FreeCounter
    <3>2. c # 0 => NoEntryHas(tableIdMap, c) /\ NoGroupHas(groupMap, c)
      BY <2>3, FreeHasNoOwner
    <3>3. Exists(counterMap', c) /\ \A k : Exists(counterMap, k) => Exists(counterMap', k)
      BY <1>1, <2>3, <3>1, CounterEffects
    <3>4. OwnersOK(tableIdMap, groupMap, counterMap')
      BY <1>1, <3>3, CountersStay
    <3>5. OwnersOK(tableIdMap, groupMap', counterMap')
      BY <1>1, <2>2, <2>3, <3>2, <3>3, <3>4, GroupNew
    <3> QED
      BY <1>1, <2>1, <3>5 DEF NextOwners
  <2>4. CASE /\ groupMap[g] # NoGroup /\ groupMap[g] = c
             /\ counterMap' = CounterDelete(c)
             /\ groupMap' = [groupMap EXCEPT ![g] = NoGroup]
    <3>1. /\ OwnersOK(tableIdMap, groupMap', counterMap)
          /\ c # 0 => NoEntryHas(tableIdMap, c) /\ NoGroupHas(groupMap', c)
      BY <1>1, <2>2, <2>4, GroupGone
    <3>2. /\ \A k : k # c /\ Exists(counterMap, k) => Exists(counterMap', k)
          /\ c = 0 => \A k : Exists(counterMap, k) => Exists(counterMap', k)
      BY <1>1, <2>4, CounterEffects
    <3>3. OwnersOK(tableIdMap, groupMap', counterMap')
      BY <3>1, <3>2, CountersStay, OneCounterGone
    <3> QED
      BY <1>1, <2>1, <3>3 DEF NextOwners
  <2> QED
    BY <2>1, <2>3, <2>4
<1> QED
  BY <1>2, <1>3

\* A packet is counted in a counter that has an owner, so the counter is
\* there and poflr_counter_increace does not crash.
LEMMA CountPacketOwners ==
    ASSUME Disciplined, DisciplineInv, IInv, CountPacket
    PROVE  NextOwners
<1> PICK c \in ReqCounter : (UsedByEntry(c) \/ UsedByGroup(c)) /\ counter_increace(c)
  BY DEF CountPacket
<1>1. /\ CountersOK
      /\ alive /\ OwnersOK(tableIdMap, groupMap, counterMap)
  BY DEF DisciplineInv, IInv
<1>2. CASE \E code : Refuse(code)
  BY <1>2, RefuseOwners
<1>3. CASE ~\E code : Refuse(code)
  <2>1. c \in CounterIds /\ counterMap[c] # NoCounter
    <3>1. CounterOfOwnerExists
      BY DisciplineImplies
    <3>2. c \in CounterIds
      BY <1>3 DEF counter_increace
    <3> QED
      BY <3>1, <3>2 DEF CounterOfOwnerExists, CounterIds
  <2>2. /\ alive' = alive /\ UNCHANGED <<tableIdMap, groupMap>>
        /\ counterMap' = [counterMap EXCEPT ![c] = @ + 1]
    BY <1>3, <2>1 DEF counter_increace, Return
  <2>3. \A k : Exists(counterMap, k) => Exists(counterMap', k)
    <3>1. counterMap[c] \in Nat /\ counterMap[c] + 1 # NoCounter
      BY <1>1, <2>1 DEF CountersOK, NoCounter
    <3> QED
      BY <1>1, <2>1, <2>2, <3>1 DEF CountersOK, Exists
  <2>4. OwnersOK(tableIdMap, groupMap, counterMap')
    BY <1>1, <2>3, CountersStay
  <2> QED
    BY <1>1, <2>2, <2>4 DEF NextOwners
<1> QED
  BY <1>2, <1>3

\* Every step keeps the owners in order.
LEMMA DisciplineNext == IInv /\ DisciplineInv /\ [Next]_vars => DisciplineInv'
<1> SUFFICES ASSUME IInv, DisciplineInv, [Next]_vars, Disciplined PROVE NextOwners
  BY DEF DisciplineInv, NextOwners
<1>1. CASE UNCHANGED vars
  BY <1>1 DEF DisciplineInv, NextOwners, vars
<1>2. CASE CounterMod
  BY <1>2, CounterModOwners
<1>3. CASE TableMod
  BY <1>3, TableModOwners
<1>4. CASE FlowMod
  BY <1>4, AddEntryOwners, ModifyEntryOwners, DeleteEntryOwners DEF FlowMod
<1>5. CASE GroupMod
  BY <1>5, GroupModOwners
<1>6. CASE MeterMod
  <2>1. UNCHANGED <<tableIdMap, counterMap, groupMap, alive>>
    BY <1>6 DEF MeterMod, add_meter_entry, modify_meter_entry, delete_meter_entry,
                Refuse, Return, resource
  <2> QED
    BY <2>1 DEF DisciplineInv, NextOwners
<1>7. CASE CountPacket
  BY <1>7, CountPacketOwners
<1>8. CASE clear_resource
  BY <1>8, EmptyOwners DEF clear_resource, Return, DisciplineInv
<1>9. CASE Restart
  BY <1>9, EmptyOwners DEF Restart
<1> QED
  BY <1>1, <1>2, <1>3, <1>4, <1>5, <1>6, <1>7, <1>8, <1>9 DEF Next

\* The owners of counters are in order in every reachable state.
LEMMA DisciplineInvariance == Spec => []DisciplineInv
<1>1. Init => DisciplineInv
  <2> SUFFICES ASSUME Init PROVE alive /\ OwnersOK(tableIdMap, groupMap, counterMap)
    BY DEF DisciplineInv
  <2>1. \A J, p : ~IsEntry(tableIdMap, J, p)
    BY DEF Init, IsEntry, NoTables
  <2>2. \A g \in GroupIds : groupMap[g] = NoGroup
    BY DEF Init, NoGroups
  <2> QED
    BY <2>1, <2>2 DEF Init, OwnersOK, EntriesCounted, GroupsCounted, EntriesApart,
                      GroupsApart, EntriesNotGroups
<1>2. IInv /\ DisciplineInv /\ [Next]_vars => DisciplineInv'
  BY DisciplineNext
<1> QED
  BY <1>1, <1>2, Invariance, PTL DEF Spec

\* If the controller gives each counter one owner, the counter of every
\* entry and of every group is in the map as long as its owner is: no
\* sequence of FLOW_MOD, GROUP_MOD, COUNTER_MOD and TABLE_MOD messages takes
\* it away under its owner.
THEOREM CountersOfOwners == Spec => []CounterOfOwnerExists
<1>1. IInv /\ DisciplineInv => CounterOfOwnerExists
  BY DisciplineImplies
<1> QED
  BY <1>1, Invariance, DisciplineInvariance, PTL

\* Under that discipline no packet crashes the process in
\* poflr_counter_increace.
THEOREM SurvivesDiscipline == Spec => []DisciplinedSurvives
<1>1. IInv /\ DisciplineInv => DisciplinedSurvives
  BY DisciplineImplies
<1> QED
  BY <1>1, Invariance, DisciplineInvariance, PTL
-----------------------------------------------------------------------------
(* What a step that reports an error leaves: the action of                 *)
(* FailureKeepsResource.                                                   *)

BadCounterAdded ==
    /\ ret' = "BAD_COUNTER_ID"
    /\ UNCHANGED <<counterMap, groupMap, meterMap>>
    /\ \E ID \in Tables : \E e \in ReqEntries :
         /\ e.counter_id = counterNumMax
         /\ tableIdMap' = [tableIdMap EXCEPT ![ID] = EntryInsert(@, e)]

ModifyDropped ==
    /\ ret' = "FLOW_UNKNOWN"
    /\ UNCHANGED <<groupMap, meterMap>>
    /\ \A c \in CounterIds : counterMap'[c] # counterMap[c] =>
                                 counterMap[c] = NoCounter /\ counterMap'[c] = 0
    /\ \E ID \in Tables : \E p \in DOMAIN tableIdMap[ID].entryMap :
         tableIdMap' = [tableIdMap EXCEPT ![ID] = EntryDelete(@, p)]

FailureOK == alive' /\ ret' # "OK" => UNCHANGED resource \/ BadCounterAdded \/ ModifyDropped

\* A bad counter id is the first one outside the range, and creates nothing.
LEMMA BadCounterInit ==
    ASSUME CountersOK, NEW c \in ReqCounter, CounterInitRet(c) # "OK"
    PROVE  c = counterNumMax /\ CounterInitRet(c) = "BAD_COUNTER_ID" /\ CounterInit(c) = counterMap
<1>1. c = counterNumMax /\ CounterInitRet(c) = "BAD_COUNTER_ID"
  BY ResourceAssumption DEF CounterInitRet, CounterCheck, ReqCounter
<1>2. \A d \in CounterIds : d # c
  BY <1>1, ResourceAssumption DEF CounterIds
<1> QED
  BY <1>1, <1>2 DEF CounterInit, CountersOK

\* poflr_add_flow_entry that fails.
LEMMA AddEntryFailure ==
    ASSUME IInv, NEW type \in ReqTypes, NEW id \in ReqIds(type),
           NEW e \in ReqEntries, NEW matchOK \in BOOLEAN,
           add_flow_entry(type, id, e, matchOK)
    PROVE  FailureOK
<1> DEFINE ID == table_id_to_ID(type, id)
<1>1. CASE \E code : Refuse(code)
  BY <1>1 DEF Refuse, FailureOK
<1>2. CASE ~\E code : Refuse(code)
  <2>1. /\ FlowModCheck(type, id, e.index) = "OK"
        /\ tableIdMap' = [tableIdMap EXCEPT ![ID] = EntryInsert(@, e)]
        /\ counterMap' = CounterInit(e.counter_id)
        /\ ret' = CounterInitRet(e.counter_id)
        /\ UNCHANGED <<groupMap, meterMap>>
    BY <1>2 DEF add_flow_entry, Return
  <2>2. ID \in Tables
    BY <2>1, FlowRequest, NoTableAssumption DEF Tables
  <2>3. e.counter_id \in ReqCounter
    BY DEF ReqEntries
  <2>4. CASE ret' # "OK"
    <3>1. /\ e.counter_id = counterNumMax /\ counterMap' = counterMap
          /\ ret' = "BAD_COUNTER_ID"
      BY <2>1, <2>3, <2>4, BadCounterInit DEF IInv
    <3> HIDE DEF ID
    <3>2. BadCounterAdded
      BY <2>1, <2>2, <3>1 DEF BadCounterAdded
    <3> QED
      BY <3>2 DEF FailureOK
  <2> QED
    BY <2>4 DEF FailureOK
<1> QED
  BY <1>1, <1>2

\* poflr_modify_flow_entry that fails.
LEMMA ModifyEntryFailure ==
    ASSUME IInv, NEW type \in ReqTypes, NEW id \in ReqIds(type),
           NEW e \in ReqEntries, NEW matchOK \in BOOLEAN,
           modify_flow_entry(type, id, e, matchOK)
    PROVE  FailureOK
<1> DEFINE ID == table_id_to_ID(type, id)
           pos == EntryGetWithIndex(tableIdMap[ID], e.index)
           old == tableIdMap[ID].entryMap[pos].counter_id
<1>1. CASE \E code : Refuse(code)
  BY <1>1 DEF Refuse, FailureOK
<1>2. CASE ~\E code : Refuse(code)
  <2>1. /\ FlowFindCheck(type, id, e.index) = "OK"
        /\ counterMap' = IF old # e.counter_id THEN CounterInit(e.counter_id) ELSE counterMap
        /\ \/ ret' = "OK"
           \/ /\ ret' = "FLOW_UNKNOWN"
              /\ tableIdMap' = [tableIdMap EXCEPT ![ID] = EntryDelete(tableIdMap[ID], pos)]
        /\ UNCHANGED <<groupMap, meterMap>>
    BY <1>2, Zenon DEF modify_flow_entry, Return
  <2>2. /\ ID \in Tables
        /\ pos \in DOMAIN tableIdMap[ID].entryMap
    BY <2>1, FlowFound, NoTableAssumption DEF Tables
  <2> HIDE DEF ID, pos, old
  <2>3. \A c \in CounterIds : counterMap'[c] # counterMap[c] =>
                                 counterMap[c] = NoCounter /\ counterMap'[c] = 0
    BY <2>1 DEF CounterInit
  <2>4. CASE ret' # "OK"
    <3>1. ModifyDropped
      BY <2>1, <2>2, <2>3, <2>4 DEF ModifyDropped
    <3> QED
      BY <3>1 DEF FailureOK
  <2> QED
    BY <2>4 DEF FailureOK
<1> QED
  BY <1>1, <1>2

\* Every step that reports an error leaves what FailureKeepsResource says.
LEMMA FailureNext == IInv /\ Next => FailureOK
<1> SUFFICES ASSUME IInv, Next PROVE FailureOK
  OBVIOUS
<1>1. CASE (\E code : Refuse(code)) \/ ret' = "OK" \/ ~alive'
  BY <1>1 DEF Refuse, FailureOK
<1>2. CASE ~((\E code : Refuse(code)) \/ ret' = "OK" \/ ~alive')
  <2>1. CASE CounterMod
    <3>1. PICK c \in ReqCounter : counter_init(c)
      BY <1>2, <2>1 DEF CounterMod, counter_delete, counter_clear, Return
    <3>2. UNCHANGED resource
      BY <1>2, <3>1, BadCounterInit DEF counter_init, Return, IInv, resource
    <3> QED
      BY <3>2 DEF FailureOK
  <2>2. CASE TableMod
    BY <1>2, <2>2 DEF TableMod, create_flow_table, delete_flow_table, Return
  <2>3. CASE FlowMod
    <3>1. CASE \E type \in ReqTypes : \E id \in ReqIds(type) :
                  \E index \in 0..tableSizeMax : delete_flow_entry(type, id, index)
      BY <1>2, <3>1 DEF delete_flow_entry, Return
    <3> QED
      BY <2>3, <3>1, AddEntryFailure, ModifyEntryFailure DEF FlowMod
  <2>4. CASE GroupMod
    BY <1>2, <2>4 DEF GroupMod, add_group_entry, modify_group_entry, delete_group_entry, Return
  <2>5. CASE MeterMod
    BY <1>2, <2>5 DEF MeterMod, add_meter_entry, modify_meter_entry, delete_meter_entry, Return
  <2>6. CASE CountPacket
    BY <1>2, <2>6 DEF CountPacket, counter_increace, Return
  <2>7. CASE clear_resource \/ Restart
    BY <1>2, <2>7 DEF clear_resource, Restart, Return
  <2> QED
    BY <2>1, <2>2, <2>3, <2>4, <2>5, <2>6, <2>7 DEF Next
<1> QED
  BY <1>1, <1>2

\* A message that is answered with an error has changed nothing, except a
\* FLOW_MOD ADD with a bad counter, whose entry is in the table, and a
\* FLOW_MOD MODIFY with a wrong match, whose old entry is gone.
THEOREM FailureHarmless == Spec => FailureKeepsResource
<1>1. IInv /\ [Next]_vars => [FailureOK]_vars
  BY FailureNext
<1>2. FailureOK <=>
        (alive' /\ ret' # "OK" =>
            \/ UNCHANGED resource
            \/ /\ ret' = "BAD_COUNTER_ID"
               /\ UNCHANGED <<counterMap, groupMap, meterMap>>
               /\ \E ID \in Tables : \E e \in ReqEntries :
                    /\ e.counter_id = counterNumMax
                    /\ tableIdMap' = [tableIdMap EXCEPT ![ID] = EntryInsert(@, e)]
            \/ /\ ret' = "FLOW_UNKNOWN"
               /\ UNCHANGED <<groupMap, meterMap>>
               /\ \A c \in CounterIds : counterMap'[c] # counterMap[c] =>
                                            counterMap[c] = NoCounter /\ counterMap'[c] = 0
               /\ \E ID \in Tables : \E p \in DOMAIN tableIdMap[ID].entryMap :
                    tableIdMap' = [tableIdMap EXCEPT ![ID] = EntryDelete(@, p)])
  BY DEF FailureOK, BadCounterAdded, ModifyDropped
<1> QED
  BY <1>1, <1>2, Invariance, PTL DEF Spec, FailureKeepsResource
-----------------------------------------------------------------------------
(* Entries that cannot be deleted: the action of BadCounterEntryStays.     *)

\* The entry e is in table ID of T.
Holds(T, ID, e) == T[ID] # NoTable /\ \E q \in DOMAIN T[ID].entryMap : T[ID].entryMap[q] = e

ModifiedOut(ID, e) ==
    \E type \in TableTypes : \E id \in ReqIds(type) : \E f \in ReqEntries :
        /\ f.index = e.index /\ ID = table_id_to_ID(type, id)
        /\ \E m \in BOOLEAN : modify_flow_entry(type, id, f, m)

BadStays(ID, p) ==
    tableIdMap[ID].entryMap[p].counter_id >= counterNumMax =>
        \/ EmptyAll
        \/ Holds(tableIdMap', ID, tableIdMap[ID].entryMap[p])
        \/ ModifiedOut(ID, tableIdMap[ID].entryMap[p])

\* What an insertion and a deletion leave of a table.
LEMMA InsertHolds ==
    ASSUME NEW tbl \in TableInfo, NEW e \in EntryInfo, NEW p \in DOMAIN tbl.entryMap
    PROVE  \E q \in DOMAIN EntryInsert(tbl, e).entryMap :
                EntryInsert(tbl, e).entryMap[q] = tbl.entryMap[p]
<1> DEFINE s == tbl.entryMap
<1>1. s \in Seq(EntryInfo) /\ Len(s) \in Nat /\ p \in 1..Len(s)
  BY LenProperties DEF TableInfo
<1>2. /\ Len(<<e>> \o s) = Len(s) + 1
      /\ <<e>> \o s \in Seq(EntryInfo)
      /\ \A i \in 2..(Len(s) + 1) : (<<e>> \o s)[i] = s[i - 1]
  BY <1>1, ConsProperties
<1>3. EntryInsert(tbl, e).entryMap = <<e>> \o s
  BY DEF EntryInsert, TableInfo
<1>4. p + 1 \in 2..(Len(s) + 1) /\ p + 1 \in DOMAIN (<<e>> \o s) /\ (p + 1) - 1 = p
  BY <1>1, <1>2
<1>5. (<<e>> \o s)[p + 1] = s[p]
  BY <1>2, <1>4
<1> QED
  BY <1>3, <1>4, <1>5

LEMMA DeleteHolds ==
    ASSUME NEW tbl \in TableInfo, NEW pos \in DOMAIN tbl.entryMap,
           NEW p \in DOMAIN tbl.entryMap, p # pos
    PROVE  \E q \in DOMAIN EntryDelete(tbl, pos).entryMap :
                EntryDelete(tbl, pos).entryMap[q] = tbl.entryMap[p]
<1> DEFINE s == tbl.entryMap
           q == IF p < pos THEN p ELSE p - 1
<1>1. s \in Seq(EntryInfo) /\ Len(s) \in Nat /\ p \in 1..Len(s) /\ pos \in 1..Len(s)
  BY LenProperties DEF TableInfo
<1>2. /\ Len(RemoveAt(s, pos)) = Len(s) - 1
      /\ RemoveAt(s, pos) \in Seq(EntryInfo)
      /\ \A i \in 1..(Len(s) - 1) : RemoveAt(s, pos)[i] = IF i < pos THEN s[i] ELSE s[i + 1]
  BY <1>1, RemoveAtProperties
<1>3. EntryDelete(tbl, pos).entryMap = RemoveAt(s, pos)
  BY DEF EntryDelete, TableInfo
<1>4. q \in 1..(Len(s) - 1) /\ p = IF q < pos THEN q ELSE q + 1
  BY <1>1
<1>5. q \in DOMAIN RemoveAt(s, pos) /\ RemoveAt(s, pos)[q] = s[p]
  <2> HIDE DEF q
  <2> QED
    BY <1>1, <1>2, <1>4
<1> QED
  BY <1>3, <1>5

\* A step that leaves the table alone leaves the entry.
LEMMA SameTableHolds ==
    ASSUME NEW ID \in Tables, NEW p \in DOMAIN tableIdMap[ID].entryMap,
           tableIdMap'[ID] = tableIdMap[ID]
    PROVE  BadStays(ID, p)
BY DEF Tables, Holds, BadStays

\* poflr_add_flow_entry takes no entry away.
LEMMA AddEntryStays ==
    ASSUME IInv, NEW type \in ReqTypes, NEW id \in ReqIds(type),
           NEW e \in ReqEntries, NEW matchOK \in BOOLEAN,
           add_flow_entry(type, id, e, matchOK),
           NEW J \in Tables, NEW p \in DOMAIN tableIdMap[J].entryMap
    PROVE  BadStays(J, p)
<1> DEFINE ID == table_id_to_ID(type, id)
<1>1. CASE UNCHANGED tableIdMap
  BY <1>1, SameTableHolds
<1>2. CASE ~UNCHANGED tableIdMap
  <2>1. /\ FlowModCheck(type, id, e.index) = "OK"
        /\ tableIdMap' = [tableIdMap EXCEPT ![ID] = EntryInsert(tableIdMap[ID], e)]
    BY <1>2 DEF add_flow_entry, Refuse, resource
  <2>2. ID \in TableIDs /\ tableIdMap[ID] \in TableInfo /\ TableInv(ID, tableIdMap[ID])
        /\ ~(e.index >= tableIdMap[ID].size)
    BY <2>1, FlowRequest
  <2>3. e \in EntryInfo
    BY ReqEntriesType
  <2> HIDE DEF ID
  <2>4. /\ tableIdMap'[ID] = EntryInsert(tableIdMap[ID], e)
        /\ J # ID => tableIdMap'[J] = tableIdMap[J]
    BY <2>1, <2>2 DEF IInv, TablesOK, Tables
  <2>5. CASE J = ID
    <3>1. e.index < tableIdMap[ID].size
      BY <2>2, <2>3, ResourceAssumption DEF EntryInfo, TableInfo
    <3>2. EntryInsert(tableIdMap[ID], e) # NoTable
      BY <2>2, <2>3, <3>1, EntryInsertOK, NoTableAssumption
    <3> QED
      BY <2>2, <2>3, <2>4, <2>5, <3>2, InsertHolds DEF Holds, BadStays
  <2> QED
    BY <2>4, <2>5, SameTableHolds
<1> QED
  BY <1>1, <1>2

\* poflr_delete_flow_entry takes only an entry whose counter it could delete.
LEMMA DeleteEntryStays ==
    ASSUME IInv, NEW type \in ReqTypes, NEW id \in ReqIds(type), NEW index,
           delete_flow_entry(type, id, index),
           NEW J \in Tables, NEW p \in DOMAIN tableIdMap[J].entryMap
    PROVE  BadStays(J, p)
<1> DEFINE ID == table_id_to_ID(type, id)
           pos == EntryGetWithIndex(tableIdMap[ID], index)
           c == tableIdMap[ID].entryMap[pos].counter_id
<1>1. CASE UNCHANGED tableIdMap
  BY <1>1, SameTableHolds
<1>2. CASE ~UNCHANGED tableIdMap
  <2>1. /\ FlowFindCheck(type, id, index) = "OK"
        /\ CounterFindRet(c) = "OK"
        /\ tableIdMap' = [tableIdMap EXCEPT ![ID] = EntryDelete(tableIdMap[ID], pos)]
    BY <1>2 DEF delete_flow_entry, Refuse, resource
  <2>2. /\ ID \in TableIDs /\ tableIdMap[ID] \in TableInfo /\ TableInv(ID, tableIdMap[ID])
        /\ pos \in DOMAIN tableIdMap[ID].entryMap
    BY <2>1, FlowFound
  <2>3. ~(c >= counterNumMax)
    BY <2>1, ResourceAssumption DEF CounterFindRet, CounterCheck
  <2> HIDE DEF ID, pos
  <2>4. /\ tableIdMap'[ID] = EntryDelete(tableIdMap[ID], pos)
        /\ J # ID => tableIdMap'[J] = tableIdMap[J]
    BY <2>1, <2>2 DEF IInv, TablesOK, Tables
  <2>5. CASE J = ID /\ p # pos
    <3>1. EntryDelete(tableIdMap[ID], pos) # NoTable
      BY <2>2, EntryDeleteOK, NoTableAssumption
    <3> QED
      BY <2>2, <2>4, <2>5, <3>1, DeleteHolds DEF Holds, BadStays
  <2>6. CASE J = ID /\ p = pos
    BY <2>3, <2>6 DEF BadStays
  <2> QED
    BY <2>4, <2>5, <2>6, SameTableHolds
<1> QED
  BY <1>1, <1>2

\* poflr_modify_flow_entry takes only an entry with the index of the request.
LEMMA ModifyEntryStays ==
    ASSUME IInv, NEW type \in ReqTypes, NEW id \in ReqIds(type),
           NEW e \in ReqEntries, NEW matchOK \in BOOLEAN,
           modify_flow_entry(type, id, e, matchOK),
           NEW J \in Tables, NEW p \in DOMAIN tableIdMap[J].entryMap
    PROVE  BadStays(J, p)
<1> DEFINE ID == table_id_to_ID(type, id)
           pos == EntryGetWithIndex(tableIdMap[ID], e.index)
           left == EntryDelete(tableIdMap[ID], pos)
<1>1. CASE UNCHANGED tableIdMap
  BY <1>1, SameTableHolds
<1>2. CASE ~UNCHANGED tableIdMap
  <2>1. /\ FlowFindCheck(type, id, e.index) = "OK"
        /\ \/ tableIdMap' = [tableIdMap EXCEPT ![ID] = EntryInsert(left, e)]
           \/ tableIdMap' = [tableIdMap EXCEPT ![ID] = left]
    BY <1>2, Zenon DEF modify_flow_entry, Refuse, resource
  <2>2. /\ ID \in TableIDs /\ tableIdMap[ID] \in TableInfo /\ TableInv(ID, tableIdMap[ID])
        /\ pos \in DOMAIN tableIdMap[ID].entryMap
        /\ tableIdMap[ID].entryMap[pos].index = e.index
        /\ ~(e.index >= tableIdMap[ID].size)
    BY <2>1, FlowFound
  <2>3. e \in EntryInfo /\ type \in TableTypes
    <3>1. TableModCheck(type, id) = "OK"
      BY <2>1 DEF FlowFindCheck, FlowModCheck
    <3> QED
      BY <3>1, RequestID, ReqEntriesType
  <2>4. CASE J = ID /\ p = pos
    <3>1. ModifiedOut(J, tableIdMap[J].entryMap[p])
      <4>1. e.index = tableIdMap[J].entryMap[p].index /\ J = table_id_to_ID(type, id)
        BY <2>2, <2>4
      <4> QED
        BY <2>3, <4>1 DEF ModifiedOut
    <3> QED
      BY <3>1 DEF BadStays
  <2> HIDE DEF ID, pos, left
  <2>5. /\ tableIdMap'[ID] = left \/ tableIdMap'[ID] = EntryInsert(left, e)
        /\ J # ID => tableIdMap'[J] = tableIdMap[J]
    BY <2>1, <2>2 DEF IInv, TablesOK, Tables
  <2>6. CASE J = ID /\ p # pos
    <3>1. left \in TableInfo /\ TableInv(ID, left)
      BY <2>2, EntryDeleteOK DEF left
    <3>2. e.index < left.size
      <4>1. left.size = tableIdMap[ID].size
        BY <2>2 DEF left, EntryDelete, TableInfo
      <4> QED
        BY <2>2, <2>3, <4>1, ResourceAssumption DEF EntryInfo, TableInfo
    <3>3. left # NoTable /\ EntryInsert(left, e) # NoTable
      BY <2>3, <3>1, <3>2, EntryInsertOK, NoTableAssumption
    <3>4. PICK q \in DOMAIN left.entryMap : left.entryMap[q] = tableIdMap[ID].entryMap[p]
      BY <2>2, <2>6, DeleteHolds DEF left
    <3>5. \E r \in DOMAIN EntryInsert(left, e).entryMap :
            EntryInsert(left, e).entryMap[r] = left.entryMap[q]
      BY <2>3, <3>1, InsertHolds
    <3> QED
      BY <2>5, <2>6, <3>3, <3>4, <3>5 DEF Holds, BadStays
  <2> QED
    BY <2>4, <2>5, <2>6, SameTableHolds
<1> QED
  BY <1>1, <1>2

\* Every step keeps an entry with a bad counter, or modifies it, or clears
\* the resource.
LEMMA BadStaysNext ==
    ASSUME IInv, Next, NEW J \in Tables, NEW p \in DOMAIN tableIdMap[J].entryMap
    PROVE  BadStays(J, p)
<1>1. CASE UNCHANGED tableIdMap
  BY <1>1, SameTableHolds
<1>2. CASE EmptyAll
  BY <1>2 DEF BadStays
<1>3. CASE TableMod
  <2>1. CASE tableIdMap'[J] = tableIdMap[J]
    BY <2>1, SameTableHolds
  <2>2. CASE tableIdMap'[J] # tableIdMap[J]
    <3>1. tableIdMap[J].entryMap = <<>> \/ tableIdMap[J] = NoTable
      <4>1. PICK type \in ReqTypes : \E id \in ReqIds(type) :
                \/ \E size \in 0..(tableSizeMax + 1), keyLenOK \in BOOLEAN :
                        create_flow_table(type, id, size, keyLenOK)
                \/ delete_flow_table(type, id)
        BY <1>3 DEF TableMod
      <4>2. PICK id \in ReqIds(type) :
                \/ \E size \in 0..(tableSizeMax + 1), keyLenOK \in BOOLEAN :
                        create_flow_table(type, id, size, keyLenOK)
                \/ delete_flow_table(type, id)
        BY <4>1
      <4> DEFINE ID == table_id_to_ID(type, id)
      <4>3. CASE delete_flow_table(type, id)
        <5>1. DeleteCheck(type, id) = "OK" /\ tableIdMap' = [tableIdMap EXCEPT ![ID] = NoTable]
          BY <2>2, <4>3 DEF delete_flow_table, Refuse, resource
        <5>2. J = ID
          <6> HIDE DEF ID
          <6> QED
            BY <2>2, <5>1 DEF IInv, TablesOK, Tables
        <5>3. DeleteCheck(type, id) = "OK" => tableIdMap[ID].entryNum = 0
          BY DEF DeleteCheck
        <5>4. tableIdMap[J].entryMap = <<>>
          <6>1. /\ tableIdMap[J].entryMap \in Seq(EntryInfo)
                /\ Len(tableIdMap[J].entryMap) = 0
            BY <5>1, <5>2, <5>3 DEF IInv, TablesOK, TableInv, TableInfo, Tables
          <6> QED
            BY <6>1, EmptySeq
        <5> QED
          BY <5>4
      <4>4. ASSUME NEW size \in 0..(tableSizeMax + 1), NEW keyLenOK \in BOOLEAN,
                   create_flow_table(type, id, size, keyLenOK)
            PROVE  tableIdMap[J] = NoTable
        <5> DEFINE tbl == [type |-> type, size |-> size, entryNum |-> 0, entryMap |-> <<>>]
        <5>1. /\ CreateCheck(type, id, size, keyLenOK) = "OK"
              /\ tableIdMap' = [tableIdMap EXCEPT ![ID] = tbl]
          BY <2>2, <4>4 DEF create_flow_table, Refuse, resource
        <5>2. J = ID
          <6> HIDE DEF ID, tbl
          <6> QED
            BY <2>2, <5>1 DEF IInv, TablesOK, Tables
        <5> QED
          BY <5>1, <5>2 DEF CreateCheck
      <4> QED
        BY <4>2, <4>3, <4>4
    <3>2. DOMAIN <<>> = {}
      OBVIOUS
    <3> QED
      BY <3>1, <3>2 DEF Tables
  <2> QED
    BY <2>1, <2>2
<1>4. CASE FlowMod
  BY <1>4, AddEntryStays, ModifyEntryStays, DeleteEntryStays DEF FlowMod
<1>5. CASE CounterMod
  <2>1. UNCHANGED tableIdMap
    BY <1>5 DEF CounterMod, counter_init, counter_delete, counter_clear, Refuse, resource
  <2> QED
    BY <1>1, <2>1
<1>6. CASE GroupMod
  <2>1. UNCHANGED tableIdMap
    BY <1>6 DEF GroupMod, add_group_entry, modify_group_entry, delete_group_entry, Refuse, resource
  <2> QED
    BY <1>1, <2>1
<1>7. CASE MeterMod
  <2>1. UNCHANGED tableIdMap
    BY <1>7 DEF MeterMod, add_meter_entry, modify_meter_entry, delete_meter_entry, Refuse, resource
  <2> QED
    BY <1>1, <2>1
<1>8. CASE CountPacket
  <2>1. UNCHANGED tableIdMap
    BY <1>8 DEF CountPacket, counter_increace, Refuse, resource
  <2> QED
    BY <1>1, <2>1
<1>9. CASE clear_resource \/ Restart
  BY <1>2, <1>9 DEF clear_resource, Restart
<1> QED
  BY <1>3, <1>4, <1>5, <1>6, <1>7, <1>8, <1>9 DEF Next

\* An entry that FLOW_MOD ADD left in a table with a counter out of range
\* stays until a FLOW_MOD MODIFY of its index or the clearing of the whole
\* resource: poflr_delete_flow_entry cannot take it out.
THEOREM BadCounterEntryRemains == Spec => BadCounterEntryStays
<1> DEFINE Stays == \A ID \in Tables : \A p \in DOMAIN tableIdMap[ID].entryMap : BadStays(ID, p)
<1>1. IInv /\ [Next]_vars => [Stays]_vars
  BY BadStaysNext
<1>2. Stays <=>
        \A ID \in Tables : \A p \in DOMAIN tableIdMap[ID].entryMap :
            LET e == tableIdMap[ID].entryMap[p]
            IN  e.counter_id >= counterNumMax =>
                  \/ EmptyAll
                  \/ /\ tableIdMap'[ID] # NoTable
                     /\ \E q \in DOMAIN tableIdMap'[ID].entryMap : tableIdMap'[ID].entryMap[q] = e
                  \/ \E type \in TableTypes : \E id \in ReqIds(type) : \E f \in ReqEntries :
                        /\ f.index = e.index /\ ID = table_id_to_ID(type, id)
                        /\ \E m \in BOOLEAN : modify_flow_entry(type, id, f, m)
  BY DEF BadStays, Holds, ModifiedOut
<1> QED
  BY <1>1, <1>2, Invariance, PTL DEF Spec, BadCounterEntryStays
=============================================================================
