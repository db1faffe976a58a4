-------------------------------- MODULE Cas --------------------------------
(***************************************************************************)
(* Clusterwide compare-and-swap (cas.rs) and the two loops that use it     *)
(* for user requests: DML on global tables (sql.rs,                        *)
(* do_dml_on_global_tbl) and schema changes (sql.rs,                       *)
(* reenterable_schema_change_request; schema.rs, abort_ddl).               *)
(*                                                                         *)
(* A DML client increments a counter row: it saves the applied index,      *)
(* reads the row, builds the write, sends it to the leader and waits for   *)
(* the entry to be applied on its own instance.  A schema client stands    *)
(* for whoever moves schema changes on: the SQL fiber that proposes a      *)
(* DdlPrepare when none is pending, the governor or abort_ddl that         *)
(* proposes a finalizer when one is.                                       *)
(***************************************************************************)
EXTENDS RaftLog

CONSTANTS FirstLeader,  \* the leader of the first term
          Home,         \* the instance each client runs on
          Job,          \* "dml" or "ddl"
          Target,       \* the row a dml client writes / table a ddl client changes
          MaxAttempts   \* bound on each client's retries

ASSUME CasAssumption ==
    /\ FirstLeader \in Node
    /\ Home \in [Client -> Node]
    /\ Job \in [Client -> {"dml", "ddl"}]
    /\ Target \in [Client -> Table \X Key]
    /\ MaxAttempts \in [Client -> Nat]

VARIABLES store,    \* store[n][row]: user data on instance n
          pending,  \* pending_schema_change on instance n, NoDdl when unset
          client,   \* the state of a client's fiber
          reqs      \* proc_cas_v2 requests that have not been handled yet

casVars == <<store, pending, client, reqs>>
vars == <<term, lead, log, commit, applied, compacted, store, pending, client, reqs>>

NoDdl == "no pending schema change"

UserRow == Table \X Key

Request == [by : Client, to : Node, index : Nat, term : Nat, op : Op, ranges : SUBSET KeyRange]

ClientState == [pc : {"start", "read", "built", "sent", "wait", "done", "failed"},
                index : Nat, op : Op, respIndex : Nat, respTerm : Nat, attempt : Nat]

Idle(attempt) == [pc |-> "start", index |-> 0, op |-> Nop,
                  respIndex |-> 0, respTerm |-> 0, attempt |-> attempt]

(* A bootstrapped cluster: one leader, its first entry applied everywhere. *)
CasInit ==
    /\ term = [n \in Node |-> 1]
    /\ lead = [n \in Node |-> FirstLeader]
    /\ log = [n \in Node |-> <<NopEntry(1)>>]
    /\ commit = [n \in Node |-> 1]
    /\ applied = [n \in Node |-> 1]
    /\ compacted = [n \in Node |-> 0]
    /\ store = [n \in Node |-> [row \in UserRow |-> 0]]
    /\ pending = [n \in Node |-> NoDdl]
    /\ client = [c \in Client |-> Idle(0)]
    /\ reqs = {}

-----------------------------------------------------------------------------
(* The fiber of a client *)

(* do_dml_on_global_tbl_no_retry saves the raft index before any read;     *)
(* reenterable_schema_change_request gets it from read_index.  Whether the *)
(* table is operable is looked up once, before the retry loop is entered.  *)
SaveIndex(c) ==
    /\ client[c].pc = "start"
    /\ (Job[c] = "dml" /\ client[c].attempt = 0) => pending[Home[c]] # Target[c][1]
    /\ client' = [client EXCEPT ![c].pc = "read", ![c].index = applied[Home[c]]]
    /\ UNCHANGED <<raftVars, store, pending, reqs>>

(* create_dml_ops reads the instance's storage as it is by now; a schema   *)
(* client looks at pending_schema_change.                                  *)
BuildOp(c) ==
    LET n == Home[c] IN
    IF Job[c] = "dml" THEN {Dml({Target[c]}, store[n][Target[c]] + 1)}
    ELSE IF pending[n] = NoDdl THEN {DdlPrepare(Target[c][1])}
    ELSE {DdlCommit, DdlAbort}

ReadAndBuild(c) ==
    /\ client[c].pc = "read"
    /\ \E op \in BuildOp(c) : client' = [client EXCEPT ![c].pc = "built", ![c].op = op]
    /\ UNCHANGED <<raftVars, store, pending, reqs>>

(* The loops give up after an error that is not retriable and start over   *)
(* after one that is.                                                      *)
Retry(c) ==
    client' = [client EXCEPT ![c] = IF @.attempt < MaxAttempts[c] THEN Idle(@.attempt + 1)
                                    ELSE [@ EXCEPT !.pc = "failed"]]
Fail(c) == client' = [client EXCEPT ![c].pc = "failed"]

(* The explicit ranges of the request, besides those of its operation.     *)
PredicateRanges(op) ==
    IF op.kind = "Dml" THEN {} ELSE SchemaChangeRanges

SendWithoutLeader(c) ==
    /\ client[c].pc = "built"
    /\ reqs' = reqs \cup {[by |-> c, to |-> lead[Home[c]], index |-> client[c].index,
                           term |-> term[Home[c]], op |-> client[c].op,
                           ranges |-> PredicateRanges(client[c].op)]}
    /\ client' = [client EXCEPT ![c].pc = "sent"]
    /\ UNCHANGED <<raftVars, store, pending>>

SendLateIndex(c) ==
    /\ client[c].pc = "built" /\ lead[Home[c]] # NoNode
    /\ reqs' = reqs \cup {[by |-> c, to |-> lead[Home[c]], index |-> applied[Home[c]],
                           term |-> term[Home[c]], op |-> client[c].op,
                           ranges |-> PredicateRanges(client[c].op)]}
    /\ client' = [client EXCEPT ![c].pc = "sent"]
    /\ UNCHANGED <<raftVars, store, pending>>

(* compare_and_swap up to the call of proc_cas_v2: Predicate::new takes    *)
(* the term of the moment; without a leader the request is retried.        *)
Send(c) ==
    LET n == Home[c] IN
    /\ client[c].pc = "built"
    /\ \/ /\ lead[n] = NoNode
          /\ Retry(c)
          /\ UNCHANGED reqs
       \/ /\ lead[n] # NoNode
          /\ reqs' = reqs \cup {[by |-> c, to |-> lead[n], index |-> client[c].index,
                                 term |-> term[n], op |-> client[c].op,
                                 ranges |-> PredicateRanges(client[c].op)]}
          /\ client' = [client EXCEPT ![c].pc = "sent"]
    /\ UNCHANGED <<raftVars, store, pending>>

-----------------------------------------------------------------------------
(* The leader *)

Retriable == {"TermMismatch", "LeaderUnknown", "NotALeader", "Compacted",
              "EntryTermMismatch", "ConflictFound"}

(* The ranges checked against the log: the request's and its operation's.  *)
CheckedRanges(req) == req.ranges \cup RangesForOp(req.op)

ConflictFoundSkipsFirst(n, req) ==
    \E i \in (req.index + 2)..Len(log[n]) :
        Conflict(log[n][i].op, CheckedRanges(req), pending[n])

(* The loops over persisted and unstable entries after the requested one.  *)
ConflictFound(n, req) ==
    \E i \in (req.index + 1)..Len(log[n]) :
        Conflict(log[n][i].op, CheckedRanges(req), pending[n])

(* The checks of proc_cas_v2_local, in order.  Refusals that depend on the *)
(* operation alone (cluster name, privileges, prohibited tables, the trial *)
(* run of a DML) are a request never handled, whose client gives up.       *)
Verdict(n, req) ==
    CASE req.term # term[n] -> "TermMismatch"
      [] lead[n] = NoNode -> "LeaderUnknown"
      [] lead[n] # n -> "NotALeader"
      [] req.index > Len(log[n]) -> "NoSuchIndex"
      [] req.index < compacted[n] -> "Compacted"
      [] TermAt(n, req.index) # term[n] -> "EntryTermMismatch"
      [] \E row \in req.op.rows : pending[n] = row[1] -> "TableNotOperable"
      [] ConflictFound(n, req) -> "ConflictFound"
      [] OTHER -> "Ok"

EntryFor(n, req) == [term |-> term[n], op |-> req.op, pred |-> req.index,
                     ranges |-> CheckedRanges(req), by |-> req.by]

(* A requester still waiting for this answer; others have given up.        *)
Awaits(req) == client[req.by].pc = "sent"

(* proc_cas_v2 accepts: propose_async appends the entry, the answer names  *)
(* its index and term.                                                     *)
AcceptCas(req) ==
    LET n == req.to IN
    /\ Verdict(n, req) = "Ok"
    /\ Len(log[n]) < MaxLog
    /\ log' = [log EXCEPT ![n] = Append(@, EntryFor(n, req))]
    /\ reqs' = reqs \ {req}
    /\ IF Awaits(req)
       THEN client' = [client EXCEPT ![req.by] = [@ EXCEPT !.pc = "wait",
                           !.respIndex = Len(log[n]) + 1, !.respTerm = term[n]]]
       ELSE UNCHANGED client
    /\ UNCHANGED <<term, lead, commit, applied, compacted, store, pending>>

(* proc_cas_v2 refuses; is_retriable decides whether the client goes on.   *)
RejectCas(req) ==
    LET verdict == Verdict(req.to, req) IN
    /\ verdict # "Ok"
    /\ reqs' = reqs \ {req}
    /\ IF ~Awaits(req) THEN UNCHANGED client
       ELSE IF verdict \in Retriable
            THEN Retry(req.by)
            ELSE Fail(req.by)
    /\ UNCHANGED <<raftVars, store, pending>>

FinishWaitAnyTerm(c) ==
    /\ client[c].pc = "wait"
    /\ applied[Home[c]] >= client[c].respIndex
    /\ client' = [client EXCEPT ![c].pc = "done"]
    /\ UNCHANGED <<raftVars, store, pending, reqs>>

(* wait_index has returned: the applied entry's term tells whether it is   *)
(* the proposed one.  RaftSpaceAccess::term answers Compacted below the    *)
(* compacted index: an error the DML loop retries, as it is_retriable, and *)
(* the schema change loop returns.                                         *)
FinishWait(c) ==
    LET n == Home[c]
        i == client[c].respIndex IN
    /\ client[c].pc = "wait"
    /\ applied[n] >= i
    /\ IF TermKnown(n, i) /\ TermAt(n, i) = client[c].respTerm
       THEN client' = [client EXCEPT ![c].pc = "done"]
       ELSE IF TermKnown(n, i) \/ Job[c] = "dml" THEN Retry(c) ELSE Fail(c)
    /\ UNCHANGED <<raftVars, store, pending, reqs>>

GiveUpAndRetry(c) ==
    /\ client[c].pc \in {"sent", "wait"}
    /\ Retry(c)
    /\ UNCHANGED <<raftVars, store, pending, reqs>>

(* The connection breaks or the deadline passes before the answer, or      *)
(* wait_index times out: an error that is not retriable.  A request on its *)
(* way may still reach the leader.                                         *)
GiveUp(c) ==
    /\ client[c].pc \in {"sent", "wait"}
    /\ Fail(c)
    /\ UNCHANGED <<raftVars, store, pending, reqs>>

-----------------------------------------------------------------------------
(* Instances *)

(* handle_committed_normal_entry for the operations clients propose.       *)
ApplyEntry(n) ==
    LET op == log[n][applied[n] + 1].op IN
    /\ ApplyIndex(n)
    /\ store' = [store EXCEPT ![n] =
                    [row \in UserRow |-> IF row \in op.rows THEN op.val ELSE @[row]]]
    /\ pending' = [pending EXCEPT ![n] = IF op.kind = "DdlPrepare" THEN op.table
                                         ELSE IF IsDdlFinalizer(op) THEN NoDdl ELSE @]
    /\ UNCHANGED <<client, reqs>>

ApplySnapshotKeepRows(l, m) ==
    /\ InstallSnapshot(l, m)
    /\ pending' = [pending EXCEPT ![m] = pending[l]]
    /\ UNCHANGED <<store, client, reqs>>

(* apply_snapshot_data replaces the contents of the global tables.         *)
ApplySnapshot(l, m) ==
    /\ InstallSnapshot(l, m)
    /\ store' = [store EXCEPT ![m] = store[l]]
    /\ pending' = [pending EXCEPT ![m] = pending[l]]
    /\ UNCHANGED <<client, reqs>>

RaftStep ==
    /\ \/ \E n \in Node, Q \in Quorum, t \in 1..MaxTerm : Elect(n, Q, t)
       \/ \E n \in Node : AdvanceCommit(n)
       \/ \E l, m \in Node : Replicate(l, m)
       \/ \E n \in Node : \E i \in 0..applied[n], j \in 1..(applied[n] + 1) : Compact(n, i, j)
    /\ UNCHANGED casVars

Next ==
    \/ RaftStep
    \/ \E n \in Node : ApplyEntry(n)
    \/ \E l, m \in Node : ApplySnapshot(l, m)
    \/ \E c \in Client : SaveIndex(c) \/ ReadAndBuild(c) \/ Send(c)
                        \/ FinishWait(c) \/ GiveUp(c)
    \/ \E req \in reqs : AcceptCas(req) \/ RejectCas(req)

Spec == CasInit /\ [][Next]_vars

-----------------------------------------------------------------------------
(* Properties *)

(* Every variable has its type: requests go to instances, indices count    *)
(* from zero, and what is proposed is an operation traft/op.rs knows.      *)
TypeOK ==
    /\ term \in [Node -> Nat]
    /\ lead \in [Node -> Node \cup {NoNode}]
    /\ log \in [Node -> Seq(Entry)]
    /\ commit \in [Node -> Nat]
    /\ applied \in [Node -> Nat]
    /\ compacted \in [Node -> Nat]
    /\ store \in [Node -> [UserRow -> Nat]]
    /\ pending \in [Node -> Table \cup {NoTable, NoDdl}]
    /\ client \in [Client -> ClientState]
    /\ reqs \in SUBSET Request

(* An instance compacts only what it has applied (the assertion of         *)
(* compact_log), applies only what is committed, and holds every entry it  *)
(* knows to be committed.                                                  *)
IndicesOrdered ==
    \A n \in Node : /\ compacted[n] <= applied[n]
                    /\ applied[n] <= commit[n]
                    /\ commit[n] <= Len(log[n])

(* The committed history: the longest log prefix any node knows to be      *)
(* committed.                                                              *)
Committed ==
    LET n == CHOOSE n \in Node : \A m \in Node : commit[m] <= commit[n]
    IN SubSeq(log[n], 1, commit[n])

History == INSTANCE SerialLog WITH history <- Committed

(* The promise of cas.rs: whatever leaders change and entries roll back,   *)
(* no log holds an operation whose predicate was broken by an entry the    *)
(* requester had not seen.                                                 *)
LogsSerialised == \A n \in Node : Serialised(log[n])

(* Compare-and-swap implements the serial log: what is committed is never  *)
(* withdrawn or rewritten, and stays free of unseen conflicts.             *)
ImplementsSerialLog == History!Spec

(* Instances that have applied the same index have the same data, whether  *)
(* they applied entries one by one or a snapshot.                          *)
SameIndexSameState ==
    \A n, m \in Node : applied[n] = applied[m] =>
        store[n] = store[m] /\ pending[n] = pending[m]

(* Read-modify-write statements on a global table lose no update: each     *)
(* write of a row stores one more than the write before it in the log.     *)
NoLostUpdate ==
    \A n \in Node : \A j \in DOMAIN log[n] : \A row \in log[n][j].op.rows :
        LET before == {i \in 1..(j - 1) : row \in log[n][i].op.rows}
        IN IF before = {} THEN log[n][j].op.val = 1
           ELSE \E i \in before : /\ \A k \in before : k <= i
                                  /\ log[n][j].op.val = log[n][i].op.val + 1

(* A client that was told "done" has its entry at the index it was told,   *)
(* on its own instance and on every instance that has applied that much.   *)
AcknowledgedIsApplied ==
    \A c \in Client : client[c].pc = "done" =>
        \A n \in Node : applied[n] >= client[c].respIndex =>
            /\ log[n][client[c].respIndex].by = c
            /\ log[n][client[c].respIndex].op = client[c].op

(* "Only one pending DDL operation can exist at the same time" (op.rs):    *)
(* in every log DdlPrepare and the finalizers alternate, which is also     *)
(* what the unreachable! in wait_for_ddl_commit relies on.                 *)
OneDdlAtATime ==
    \A n \in Node : \A i, j \in DOMAIN log[n] :
        LET ddl == {k \in DOMAIN log[n] : IsSchemaOp(log[n][k].op)} IN
        (i < j /\ {i, j} \subseteq ddl /\ ~\E k \in ddl : i < k /\ k < j) =>
            (log[n][i].op.kind = "DdlPrepare" <=> IsDdlFinalizer(log[n][j].op))

(* A statement is applied at most once, however often its client retried.  *)
AppliedAtMostOnce ==
    \A n \in Node, c \in Client :
        Cardinality({i \in 1..applied[n] : log[n][i].by = c /\ log[n][i].op.kind = "Dml"}) <= 1

-----------------------------------------------------------------------------
(* A statement TLC refutes: the README explains how.                       *)

(* No row of a table changes while a schema change of it is in progress.   *)
NoDmlDuringDdl ==
    \A n \in Node : \A i, j \in DOMAIN log[n] :
        (i < j /\ log[n][i].op.kind = "DdlPrepare"
         /\ ~\E k \in i..j : IsDdlFinalizer(log[n][k].op))
        => \A row \in log[n][j].op.rows : row[1] # log[n][i].op.table
=============================================================================
