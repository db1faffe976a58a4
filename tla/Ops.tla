-------------------------------- MODULE Ops --------------------------------
(***************************************************************************)
(* The operations stored in the raft log (traft/op.rs) and the predicate   *)
(* that decides which of them may be appended (cas.rs).                    *)
(*                                                                         *)
(* A row is a table and a primary key.  Rows of user tables are            *)
(* <<t, k>> for t in Table and k in Key; rows of the system table          *)
(* _pico_property are <<Property, p>>.  A range of a predicate is the      *)
(* table it names and the set of keys Range::contains accepts.             *)
(***************************************************************************)
EXTENDS Integers, FiniteSets, Sequences

CONSTANTS Table,      \* user-defined global tables
          Key,        \* primary keys of their rows
          NoTable     \* a schema change that makes no table inoperable

ASSUME OpsAssumption ==
    /\ NoTable \notin Table
    /\ "_pico_property" \notin Table

Property == "_pico_property"

(* SCHEMA_RELATED_PROPERTIES *)
SchemaProperties ==
    {"pending_schema_change", "pending_schema_version",
     "global_schema_version", "next_schema_version",
     "pending_governor_op_id", "pending_catalog_version"}

PropertyKeys == SchemaProperties \cup {"pending_plugin_operation"}

Row == (Table \X Key) \cup ({Property} \X PropertyKeys)

Kind == {"Nop", "Dml", "DdlPrepare", "DdlCommit", "DdlAbort", "Acl", "Plugin"}

(* rows: what a Dml or BatchDml writes, val: the value it writes there.    *)
(* table: the table a DdlPrepare makes inoperable, if any.                 *)
Op == [kind : Kind, rows : SUBSET Row, val : Nat, table : Table \cup {NoTable}]

MakeOp(kind, rows, val, table) ==
    [kind |-> kind, rows |-> rows, val |-> val, table |-> table]

Nop == MakeOp("Nop", {}, 0, NoTable)
Dml(rows, val) == MakeOp("Dml", rows, val, NoTable)
DdlPrepare(t) == MakeOp("DdlPrepare", {}, 0, t)
DdlCommit == MakeOp("DdlCommit", {}, 0, NoTable)
DdlAbort == MakeOp("DdlAbort", {}, 0, NoTable)
Acl == MakeOp("Acl", {}, 0, NoTable)
Plugin == MakeOp("Plugin", {}, 0, NoTable)

IsDdlFinalizer(op) == op.kind \in {"DdlCommit", "DdlAbort"}
IsSchemaOp(op) == op.kind \in {"DdlPrepare", "DdlCommit", "DdlAbort", "Acl"}

-----------------------------------------------------------------------------
KeyRange == [table : Table \cup {Property}, keys : SUBSET (Key \cup PropertyKeys)]

EqRange(row) == [table |-> row[1], keys |-> {row[2]}]

(* Range::for_op: the ranges every request carries implicitly.             *)
RangesForOp(op) ==
    CASE op.kind = "Dml" -> {EqRange(row) : row \in op.rows}
      [] IsSchemaOp(op) -> {EqRange(<<Property, "global_schema_version">>)}
      [] op.kind = "Plugin" -> {EqRange(<<Property, "pending_plugin_operation">>)}
      [] OTHER -> {}

(* schema_change_ranges *)
SchemaChangeRanges == {EqRange(<<Property, p>>) : p \in SchemaProperties}

(* modifies_operable: a DdlCommit or DdlAbort is resolved through the      *)
(* pending_schema_change property of the storage it is evaluated on.       *)
ModifiesOperable(op, t, pending) ==
    \/ op.kind = "DdlPrepare" /\ op.table = t
    \/ IsDdlFinalizer(op) /\ pending = t

TouchesRowsOnly(op, r) ==
    \E row \in op.rows : row[1] = r.table /\ row[2] \in r.keys

(* The part of check_predicate that looks at keys.                         *)
TouchesKeys(op, r) ==
    \/ \E row \in op.rows : row[1] = r.table /\ row[2] \in r.keys
    \/ /\ IsSchemaOp(op) /\ r.table = Property
       /\ r.keys \cap SchemaProperties # {}
    \/ /\ op.kind = "Plugin" /\ r.table = Property
       /\ "pending_plugin_operation" \in r.keys

(* check_predicate found a conflict.                                       *)
Conflict(op, ranges, pending) ==
    \E r \in ranges : ModifiesOperable(op, r.table, pending) \/ TouchesKeys(op, r)

-----------------------------------------------------------------------------
(* Logs of such operations *)

IsPrefix(s, t) == Len(s) <= Len(t) /\ s = SubSeq(t, 1, Len(s))

(* What the check is for, of a log whose entries remember their predicate: *)
(* no entry between the index a request was built at and its own touches   *)
(* a key the request depends on.                                           *)
Serialised(s) ==
    \A i \in DOMAIN s : \A j \in (s[i].pred + 1)..(i - 1) :
        \A r \in s[i].ranges : ~TouchesKeys(s[j].op, r)
=============================================================================
