------------------------------- MODULE TableId -------------------------------
(***************************************************************************)
(* The two numberings of flow tables (local_resource/pof_flow_table.c).    *)
(*                                                                         *)
(* The controller names a table by its type and an id counted per type;    *)
(* the datapath and the hash map tableIdMap use one global ID, stored in   *)
(* a uint8_t.  The loops of the code run over the four values of enum      *)
(* pof_table_type, so they are written out here: every operator can then   *)
(* be used in a proof.                                                     *)
(***************************************************************************)
EXTENDS Integers

CONSTANTS
    tableNumMaxEachType, \* configured number of tables of each type
    IDMod                \* 2^w for the w-bit global ID (256 in the code)

POF_MM_TABLE       == 0
POF_LPM_TABLE      == 1
POF_EM_TABLE       == 2
POF_LINEAR_TABLE   == 3
POF_MAX_TABLE_TYPE == 4
TableTypes         == 0..(POF_MAX_TABLE_TYPE - 1)

\* Sum of the table numbers of the types below t: the loop of
\* poflr_table_id_to_ID before the id is added.
TableBase(t) ==
    LET n == tableNumMaxEachType
    IN  CASE t = 0 -> 0
          [] t = 1 -> n[0]
          [] t = 2 -> n[0] + n[1]
          [] t = 3 -> n[0] + n[1] + n[2]
          [] OTHER -> n[0] + n[1] + n[2] + n[3]

tableNumMax == TableBase(POF_MAX_TABLE_TYPE)

\* The configuration file is free to set the numbers of tables; nothing in
\* the code refuses a configuration with more tables than a uint8_t names.
\* The default configuration (45 tables) satisfies this assumption.
ASSUME TableNumAssumption ==
    /\ tableNumMaxEachType \in [TableTypes -> Nat]
    /\ IDMod \in Nat
    /\ tableNumMax <= IDMod

TableIDs == 0..(IDMod - 1)

\* Mutant: the loop over the lower types is missing.
MutantIdWithoutBase(type, id) == id % IDMod

\* poflr_table_id_to_ID: additions into a uint8_t.
table_id_to_ID(type, id) == (TableBase(type) + id) % IDMod

\* poflr_table_ID_to_id: subtract the numbers of the types until the rest is
\* a legal id.  NoTableId is the error return (POF_BAD_TABLE_ID).
NoTableId == [type |-> POF_MAX_TABLE_TYPE, id |-> 0]

table_ID_to_id(ID) ==
    LET n  == tableNumMaxEachType
        r1 == ID - n[0]
        r2 == r1 - n[1]
        r3 == r2 - n[2]
    IN  CASE ID < n[0] -> [type |-> 0, id |-> ID]
          [] ID >= n[0] /\ r1 < n[1] -> [type |-> 1, id |-> r1]
          [] ID >= n[0] /\ r1 >= n[1] /\ r2 < n[2] -> [type |-> 2, id |-> r2]
          [] ID >= n[0] /\ r1 >= n[1] /\ r2 >= n[2] /\ r3 < n[3] -> [type |-> 3, id |-> r3]
          [] OTHER -> NoTableId
=============================================================================
