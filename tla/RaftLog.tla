------------------------------ MODULE RaftLog ------------------------------
(***************************************************************************)
(* The replicated log every other part of picodata is written against.     *)
(*                                                                         *)
(* Leader election, replication and commitment are done by the raft-rs     *)
(* library; they appear here as the guarantees traft/node.rs relies on.    *)
(* Applying entries, compacting the log and installing a snapshot are      *)
(* picodata's own code (traft/node.rs, traft/raft_storage.rs).             *)
(*                                                                         *)
(* log[n] keeps every entry node n ever held at its index, compacted ones  *)
(* included; compacted[n] is the index up to which the code can no longer  *)
(* read it.  An entry also carries the predicate its request was checked   *)
(* against (pred, ranges) and the requester (by): history the real log     *)
(* does not store and no guard reads.                                      *)
(***************************************************************************)
EXTENDS Ops

CONSTANTS Node,      \* the raft voters
          NoNode,    \* "the leader is not known"
          Client,    \* requesters of compare-and-swap
          NoClient,  \* an entry raft itself appended
          MaxTerm,   \* bound on elections
          MaxLog,    \* bound on the length of a log
          MaxCompact \* bound on the index up to which logs are compacted

ASSUME RaftAssumption ==
    /\ IsFiniteSet(Node)
    /\ NoNode \notin Node
    /\ NoClient \notin Client
    /\ MaxTerm \in Nat \ {0}
    /\ MaxLog \in Nat \ {0}
    /\ MaxCompact \in Nat

VARIABLES term,       \* HardState.term
          lead,       \* Status.leader_id
          log,        \* raft_log: persisted and unstable entries
          commit,     \* HardState.commit
          applied,    \* "applied" in _raft_state
          compacted   \* "compacted_index" in _raft_state

raftVars == <<term, lead, log, commit, applied, compacted>>

Entry == [term : Nat, op : Op, pred : Nat, ranges : SUBSET KeyRange,
          by : Client \cup {NoClient}]

NopEntry(t) ==
    [term |-> t, op |-> Nop, pred |-> 0, ranges |-> {}, by |-> NoClient]

Quorum == {Q \in SUBSET Node : 2 * Cardinality(Q) > Cardinality(Node)}

IsLeader(n) == lead[n] = n

LastTerm(s) == IF s = <<>> THEN 0 ELSE s[Len(s)].term

(* The log a candidate needs for a voter to grant it its vote.             *)
UpToDate(s, t) ==
    \/ LastTerm(s) > LastTerm(t)
    \/ LastTerm(s) = LastTerm(t) /\ Len(s) >= Len(t)

(* RaftSpaceAccess::term: the term of an entry is known from compacted     *)
(* index on; below it the storage answers Compacted.                       *)
TermKnown(n, i) == i >= compacted[n] /\ i <= Len(log[n])

TermAt(n, i) == IF i = 0 THEN 0 ELSE log[n][i].term

-----------------------------------------------------------------------------
(* raft-rs *)

(* A candidate with an up-to-date log gathers the votes of a quorum for a  *)
(* term newer than any of theirs and appends the empty entry of its term.  *)
(* Voters, a deposed leader among them, do not know the new leader until   *)
(* it writes to them.  A leader that only loses touch with its quorum is   *)
(* one that replicates nothing more.                                       *)
Elect(n, Q, t) ==
    /\ n \in Q
    /\ \A m \in Q : term[m] < t /\ UpToDate(log[n], log[m])
    /\ Len(log[n]) < MaxLog
    /\ term' = [m \in Node |-> IF m \in Q THEN t ELSE term[m]]
    /\ lead' = [m \in Node |-> IF m = n THEN n
                               ELSE IF m \in Q THEN NoNode ELSE lead[m]]
    /\ log' = [log EXCEPT ![n] = Append(@, NopEntry(t))]
    /\ UNCHANGED <<commit, applied, compacted>>

(* MsgAppend or MsgHeartbeat carrying the leader's log; entries of the     *)
(* follower that contradict it are dropped.  raft-rs never appends below   *)
(* the follower's commit index.                                            *)
Replicate(l, m) ==
    /\ IsLeader(l) /\ l # m /\ term[m] <= term[l]
    /\ IsPrefix(SubSeq(log[l], 1, compacted[l]), log[m])
    /\ commit[m] <= Len(log[l])
    /\ log' = [log EXCEPT ![m] = log[l]]
    /\ commit' = [commit EXCEPT ![m] = IF @ < commit[l] THEN commit[l] ELSE @]
    /\ term' = [term EXCEPT ![m] = term[l]]
    /\ lead' = [lead EXCEPT ![m] = l]
    /\ UNCHANGED <<applied, compacted>>

(* The entries of the leader's own term that a quorum holds.               *)
Committable(l) ==
    {i \in (commit[l] + 1)..Len(log[l]) :
        /\ log[l][i].term = term[l]
        /\ \E Q \in Quorum : \A m \in Q :
              /\ term[m] = term[l]
              /\ Len(log[m]) >= i /\ log[m][i] = log[l][i]}

AdvanceCommit(l) ==
    /\ IsLeader(l)
    /\ \E i \in Committable(l) :
          /\ \A j \in Committable(l) : j <= i
          /\ commit' = [commit EXCEPT ![l] = i]
    /\ UNCHANGED <<term, lead, log, applied, compacted>>

-----------------------------------------------------------------------------
(* picodata *)

ApplyIndexUncommitted(n) ==
    /\ applied[n] < Len(log[n])
    /\ applied' = [applied EXCEPT ![n] = @ + 1]
    /\ UNCHANGED <<term, lead, log, commit, compacted>>

(* One round of the loop in handle_committed_entries: the entry's effects  *)
(* and the applied index change in one transaction.  The effects are added *)
(* by the modules that extend this one.                                    *)
ApplyIndex(n) ==
    /\ applied[n] < commit[n]
    /\ applied' = [applied EXCEPT ![n] = @ + 1]
    /\ UNCHANGED <<term, lead, log, commit, compacted>>

(* Finalizers among the entries the current main loop iteration added:     *)
(* get_adjusted_compaction_index compacts up to the last of them, or all   *)
(* that is applied when there is none.                                     *)
NewFinalizers(n, oldLast) ==
    {i \in (oldLast + 1)..applied[n] : IsDdlFinalizer(log[n][i].op)}

CompactPastApplied(n, oldLast, upTo) ==
    /\ NewFinalizers(n, oldLast) = {} /\ upTo = applied[n] + 1
    /\ upTo > compacted[n] /\ upTo <= MaxCompact
    /\ compacted' = [compacted EXCEPT ![n] = upTo]
    /\ UNCHANGED <<term, lead, log, commit, applied>>

(* do_raft_log_auto_compaction at the end of a main loop iteration that    *)
(* began with oldLast as the last index.                                   *)
Compact(n, oldLast, upTo) ==
    LET kept == NewFinalizers(n, oldLast) IN
    /\ IF kept = {} THEN upTo = applied[n] + 1
       ELSE upTo \in kept /\ \A i \in kept : i <= upTo
    /\ upTo - 1 > compacted[n] /\ upTo - 1 <= MaxCompact
    /\ compacted' = [compacted EXCEPT ![n] = upTo - 1]
    /\ UNCHANGED <<term, lead, log, commit, applied>>

(* A follower behind the leader's compacted log gets the leader's applied  *)
(* state instead: handle_snapshot_metadata.                                *)
InstallSnapshot(l, m) ==
    LET i == applied[l] IN
    /\ IsLeader(l) /\ l # m /\ term[m] <= term[l]
    /\ ~IsPrefix(SubSeq(log[l], 1, compacted[l]), log[m])
    /\ applied[m] < i
    /\ log' = [log EXCEPT ![m] = SubSeq(log[l], 1, i)]
    /\ commit' = [commit EXCEPT ![m] = i]
    /\ applied' = [applied EXCEPT ![m] = i]
    /\ compacted' = [compacted EXCEPT ![m] = i]
    /\ term' = [term EXCEPT ![m] = term[l]]
    /\ lead' = [lead EXCEPT ![m] = l]
=============================================================================
