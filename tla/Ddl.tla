------------------------------- MODULE Ddl -------------------------------
(***************************************************************************)
(* The two-phase schema change.  A DdlPrepare entry of the raft log makes  *)
(* a change pending; the governor (on the raft leader) makes the master of *)
(* every replicaset apply it through proc_apply_schema_change and then     *)
(* appends DdlCommit or DdlAbort; every instance applies the entries in    *)
(* its raft_main_loop.  Masters change the storage engine, their read-only *)
(* replicas receive the change through tarantool replication.              *)
(*                                                                         *)
(* `log' is the committed raft log restricted to DDL entries: module Cas   *)
(* shows that CaS keeps it a well-formed serial history.  `stream[r]' is   *)
(* what the masters of replicaset r wrote to its WAL, as the sequence of   *)
(* local schemas each write led to, and `pos[i]' how far i has replayed it.*)
(***************************************************************************)
EXTENDS Integers, FiniteSets, Sequences

CONSTANTS
    Instance, Replicaset,
    RsOf,               \* the replicaset of each instance
    FirstMaster,        \* the first master of each replicaset
    RebalancerHome,     \* the instance that runs the vshard rebalancer fiber
    Kinds,              \* the DDL operations users issue
    MayFail,            \* instances on which applying a change may fail
    BatchSize,          \* governor_common_rpc_batch_size
    MaxDdl, MaxUserAborts, MaxTimeouts, MaxRestarts, MaxSwitchovers, MaxElections

\* Building an index yields; the other changes are one step of their fiber.  The
\* RPC leaves a table to be dropped alone: the raft loop drops it at DdlCommit.
AllKinds == {"create", "index", "drop", "truncate", "global_truncate"}
Truncates == {"truncate", "global_truncate"}

ASSUME DdlAssumption ==
    /\ RsOf \in [Instance -> Replicaset]
    /\ FirstMaster \in [Replicaset -> Instance]
    /\ \A r \in Replicaset : RsOf[FirstMaster[r]] = r
    /\ RebalancerHome \in Instance
    /\ Kinds \subseteq AllKinds
    /\ MayFail \subseteq Instance
    /\ BatchSize \in Nat \ {0}
    /\ {MaxDdl, MaxUserAborts, MaxTimeouts, MaxRestarts, MaxSwitchovers, MaxElections}
            \subseteq Nat

VARIABLES
    log,            \* committed DDL entries
    applied,        \* applied index of each instance
    stream, pos,    \* tarantool replication inside each replicaset
    master, target, \* current_master_name and target_master_name of each replicaset
    readonly,       \* box.info.ro of each instance
    calls,          \* proc_apply_schema_change requests not yet executed
    building,       \* the apply transaction an instance holds the lock for
    rebalancerOff,  \* vshard.storage.rebalancer_disable() is in effect at its home
    panicked,       \* instances whose raft_main_loop hit unreachable!()
    gov,            \* governor: current step and LastStepInfo
    budget          \* how many more of each environment event may happen

vars == <<log, applied, stream, pos, master, target, readonly, calls, building,
          rebalancerOff, panicked, gov, budget>>

NoInfo == <<>>
NoBuild == [v |-> 0, live |-> FALSE]

-----------------------------------------------------------------------------
\* The catalog an instance derives from the first n log entries.

Version == 1 .. MaxDdl
PreparedIn(n) == {k \in 1 .. n : log[k].op = "prepare"}
IsPending(n) == n > 0 /\ log[n].op = "prepare"
Finalized(n, how) == {log[k - 1].v : k \in {j \in 2 .. n : log[j].op = how}}

\* pending_schema_version and pending_schema_change
PendingVersion(n) == log[n].v
PendingKind(n) == log[n].ddl

\* global_schema_version: DdlCommit sets it to the version it commits
GlobalVersion(n) ==
    CHOOSE v \in Finalized(n, "commit") \cup {0} : \A w \in Finalized(n, "commit") : w <= v

\* local_schema_version and the changes present in tarantool's own tables
Local(i) == stream[RsOf[i]][pos[i]]

Masters == {master[r] : r \in Replicaset}

-----------------------------------------------------------------------------
\* Users

Spend(what) == /\ budget[what] > 0
               /\ budget' = [budget EXCEPT ![what] = @ - 1]

\* A version of Prepare that does not look for a pending change.
PrepareAnyway(d) ==
    /\ Spend("ddl")
    /\ log' = Append(log, [op |-> "prepare", ddl |-> d,
                           v |-> Cardinality(PreparedIn(Len(log))) + 1])
    /\ UNCHANGED <<applied, stream, pos, master, target, readonly, calls, building,
                   rebalancerOff, panicked, gov>>

\* reenterable_schema_change_request: CaS admits a DdlPrepare only when nothing
\* is pending; the version is next_schema_version, which DdlPrepare advances.
Prepare(d) ==
    /\ Spend("ddl")
    /\ ~ IsPending(Len(log))
    /\ log' = Append(log, [op |-> "prepare", ddl |-> d,
                           v |-> Cardinality(PreparedIn(Len(log))) + 1])
    /\ UNCHANGED <<applied, stream, pos, master, target, readonly, calls, building,
                   rebalancerOff, panicked, gov>>

\* abort_ddl: whatever is pending, its kind is not looked at.
AbortDdl ==
    /\ Spend("abort")
    /\ IsPending(Len(log))
    /\ log' = Append(log, [op |-> "abort"])
    /\ UNCHANGED <<applied, stream, pos, master, target, readonly, calls, building,
                   rebalancerOff, panicked, gov>>

-----------------------------------------------------------------------------
\* The governor, on instance gov.leader

Governor == gov.leader

\* update_step_kind: a step of another kind forgets the results of the RPCs
OtherStep == gov' = [gov EXCEPT !.ok = {}, !.info = NoInfo]

\* A governor loop that has just started
FreshGovernor(i) == [leader |-> i, phase |-> "idle", base |-> 0, total |-> {}, ok |-> {},
                     info |-> NoInfo, wait |-> {}, abort |-> FALSE, err |-> FALSE]

\* A version of OkFor that keeps the results of another operation.
OkForAnyOperation(info) == gov.ok

\* update_schema_info: a different operation forgets the previous results
OkFor(info) == IF gov.info \in {NoInfo, info} THEN gov.ok ELSE {}

Batch(targets, ok) ==
    {b \in SUBSET (targets \ ok) :
        /\ Cardinality(b) <= BatchSize
        /\ b = {} => targets \subseteq ok}

\* handle_pending_ddl, then the calls of collect_proc_apply_schema_change.
\* TRUNCATE of a global table has no targets.
PlanSchemaChange ==
    LET n == applied[Governor]
        info == <<GlobalVersion(n), PendingVersion(n)>>
        total == IF PendingKind(n) = "global_truncate" THEN {} ELSE Masters
    IN  /\ gov.phase = "idle"
        /\ target = master
        /\ IsPending(n)
        /\ \E b \in Batch(total, OkFor(info)) :
             /\ gov' = [gov EXCEPT !.phase = "calls", !.base = n, !.total = total,
                                   !.ok = OkFor(info), !.info = info, !.wait = b,
                                   !.abort = FALSE, !.err = FALSE]
             /\ calls' = calls \cup {[to |-> i, base |-> n, live |-> TRUE] : i \in b}
        /\ UNCHANGED <<log, applied, stream, pos, master, target, readonly, building,
                       rebalancerOff, panicked, budget>>


\* What an answer does to LastStepInfo and to the step under way; nobody
\* listens to the answer of a call that timed out.
Answered(i, live, answer) ==
    gov' = IF ~ live THEN gov
           ELSE [gov EXCEPT !.wait = @ \ {i},
                            !.ok = IF answer = "ok" THEN @ \cup {i} ELSE @,
                            !.abort = @ \/ answer = "abort",
                            !.err = @ \/ answer = "err"]

\* rpc_timeout elapsed: the request may still be executed later.
CallTimesOut(i) ==
    /\ gov.phase = "calls"
    /\ i \in gov.wait
    /\ Spend("timeout")
    /\ Answered(i, TRUE, "err")
    /\ calls' = {IF c.to = i THEN [c EXCEPT !.live = FALSE] ELSE c : c \in calls}
    /\ building' = [building EXCEPT ![i].live = FALSE]
    /\ UNCHANGED <<log, applied, stream, pos, master, target, readonly, rebalancerOff, panicked>>

\* The finalizing CaS fails when anything follows `base'.  compare_and_swap_local
\* then waits for the entry to be applied, for governor_raft_op_timeout at most:
\* the next step may well start from a catalog that does not have it yet.
Finalize(entry) ==
    log' = IF gov.base = Len(log) THEN Append(log, [op |-> entry]) ELSE log

\* A version of FinishStep that commits without waiting for every target.
FinishStepAfterFirstBatch ==
    /\ gov.phase = "calls"
    /\ gov.wait = {}
    /\ CASE gov.abort -> Finalize("abort")
         [] ~ gov.abort /\ ~ gov.err -> Finalize("commit")
         [] ~ gov.abort /\ gov.err -> log' = log
    /\ gov' = [gov EXCEPT !.phase = "idle"]
    /\ UNCHANGED <<applied, stream, pos, master, target, readonly, calls, building,
                   rebalancerOff, panicked, budget>>

\* The end of the step: an abort wins over errors, errors end the step, a commit
\* needs every target.
FinishStep ==
    /\ gov.phase = "calls"
    /\ gov.wait = {}
    /\ CASE gov.abort -> Finalize("abort")
         [] ~ gov.abort /\ ~ gov.err /\ gov.total \subseteq gov.ok -> Finalize("commit")
         [] ~ gov.abort /\ (gov.err \/ ~ gov.total \subseteq gov.ok) -> log' = log
    /\ gov' = [gov EXCEPT !.phase = "idle"]
    /\ UNCHANGED <<applied, stream, pos, master, target, readonly, calls, building,
                   rebalancerOff, panicked, budget>>

\* Raft elects another leader: a new governor loop with an empty LastStepInfo.
\* Calls of the old one are still on their way.
NewGovernor(i) ==
    /\ Spend("election")
    /\ i # Governor
    /\ i \notin panicked
    /\ gov' = FreshGovernor(i)
    /\ calls' = {[c EXCEPT !.live = FALSE] : c \in calls}
    /\ building' = [j \in Instance |-> [building[j] EXCEPT !.live = FALSE]]
    /\ UNCHANGED <<log, applied, stream, pos, master, target, readonly, rebalancerOff, panicked>>

-----------------------------------------------------------------------------
\* proc_apply_schema_change on the instance a call was sent to

\* A transaction of a master: one more row of its replicaset's WAL.
WriteLocal(i, schema) ==
    /\ stream' = [stream EXCEPT ![RsOf[i]] = Append(@, schema)]
    /\ pos' = [pos EXCEPT ![i] = @ + 1]

\* A version of Changed without set_local_schema_version.
ChangedSameVersion(i, v) == [ver |-> Local(i).ver, objs |-> Local(i).objs \cup {v}]

\* apply_schema_change: the change and set_local_schema_version(version)
Changed(i, v) == [ver |-> v, objs |-> Local(i).objs \cup {v}]

\* ddl_abort_on_master: the change undone, local_schema_version back to global
Undone(i, v, global) == [ver |-> global, objs |-> Local(i).objs \ {v}]

\* A version of Admitted without wait_index.
AdmittedEarly(c) ==
    /\ c.to \notin panicked
    /\ building[c.to] = NoBuild
    /\ calls' = calls \ {c}

\* wait_index(applied), then LOCK_APPLY_SCHEMA_CHANGE
Admitted(c) ==
    /\ c.to \notin panicked
    /\ applied[c.to] >= c.base
    /\ building[c.to] = NoBuild
    /\ calls' = calls \ {c}

\* wait_index runs out of time on an instance that has not caught up.
CallNotCaughtUp(c) ==
    /\ c.to \notin panicked
    /\ applied[c.to] < c.base
    /\ calls' = calls \ {c}
    /\ Answered(c.to, c.live, "err")
    /\ UNCHANGED <<log, applied, stream, pos, master, target, readonly, building,
                   rebalancerOff, panicked, budget>>

\* Read-only, or nothing is pending any more.
CallRefused(c) ==
    /\ Admitted(c)
    /\ readonly[c.to] \/ ~ IsPending(applied[c.to])
    /\ Answered(c.to, c.live, "err")
    /\ UNCHANGED <<log, applied, stream, pos, master, target, readonly, building,
                   rebalancerOff, panicked, budget>>

Pending(i) == PendingVersion(applied[i])
CanApply(c) == ~ readonly[c.to] /\ IsPending(applied[c.to])

CallAlreadyApplied(c) ==
    /\ Admitted(c)
    /\ CanApply(c)
    /\ Local(c.to).ver >= Pending(c.to)
    /\ Answered(c.to, c.live, "ok")
    /\ UNCHANGED <<log, applied, stream, pos, master, target, readonly, building,
                   rebalancerOff, panicked, budget>>

\* DROP TABLE: disable_rebalancer and nothing else.
CallDrop(c) ==
    /\ Admitted(c)
    /\ CanApply(c)
    /\ Local(c.to).ver < Pending(c.to)
    /\ PendingKind(applied[c.to]) = "drop"
    /\ rebalancerOff' = (rebalancerOff \/ c.to = RebalancerHome)
    /\ Answered(c.to, c.live, "ok")
    /\ UNCHANGED <<log, applied, stream, pos, master, target, readonly, building,
                   panicked, budget>>

\* The other changes, in one transaction that does not yield.
CallApply(c) ==
    /\ Admitted(c)
    /\ CanApply(c)
    /\ Local(c.to).ver < Pending(c.to)
    /\ PendingKind(applied[c.to]) \notin {"drop", "index"}
    /\ WriteLocal(c.to, Changed(c.to, Pending(c.to)))
    /\ Answered(c.to, c.live, "ok")
    /\ UNCHANGED <<log, applied, master, target, readonly, building,
                   rebalancerOff, panicked, budget>>

\* The change cannot be applied here; TRUNCATE only reports a retriable error.
Failure(kind) == IF kind \in Truncates THEN "err" ELSE "abort"

CallFails(c) ==
    /\ Admitted(c)
    /\ CanApply(c)
    /\ Local(c.to).ver < Pending(c.to)
    /\ PendingKind(applied[c.to]) \notin {"drop", "index"}
    /\ c.to \in MayFail
    /\ Answered(c.to, c.live, Failure(PendingKind(applied[c.to])))
    /\ UNCHANGED <<log, applied, stream, pos, master, target, readonly, building,
                   rebalancerOff, panicked, budget>>

\* CREATE INDEX takes the lock for as long as the index is being built.
StartBuild(c) ==
    /\ Admitted(c)
    /\ CanApply(c)
    /\ Local(c.to).ver < Pending(c.to)
    /\ PendingKind(applied[c.to]) = "index"
    /\ building' = [building EXCEPT ![c.to] = [v |-> Pending(c.to), live |-> c.live]]
    /\ UNCHANGED <<log, applied, stream, pos, master, target, readonly,
                   rebalancerOff, panicked, gov, budget>>

FinishBuild(i) ==
    /\ building[i] # NoBuild
    /\ i \notin panicked
    /\ WriteLocal(i, Changed(i, building[i].v))
    /\ Answered(i, building[i].live, "ok")
    /\ building' = [building EXCEPT ![i] = NoBuild]
    /\ UNCHANGED <<log, applied, master, target, readonly, calls, rebalancerOff,
                   panicked, budget>>

FailBuild(i) ==
    /\ building[i] # NoBuild
    /\ i \in MayFail \ panicked
    /\ Answered(i, building[i].live, "abort")
    /\ building' = [building EXCEPT ![i] = NoBuild]
    /\ UNCHANGED <<log, applied, stream, pos, master, target, readonly, calls,
                   rebalancerOff, panicked, budget>>

-----------------------------------------------------------------------------
\* raft_main_loop: handle_committed_normal_entry

NextEntry(i) == log[applied[i] + 1]
CanAdvance(i, op) ==
    /\ i \notin panicked
    /\ applied[i] < Len(log)
    /\ NextEntry(i).op = op
    /\ applied' = [applied EXCEPT ![i] = @ + 1]

ApplyPrepare(i) ==
    /\ CanAdvance(i, "prepare")
    /\ UNCHANGED <<log, stream, pos, master, target, readonly, calls, building,
                   rebalancerOff, panicked, gov, budget>>

\* A version of ApplyCommit in which a replica does not wait for its master.
ApplyCommitNoWait(i) ==
    /\ CanAdvance(i, "commit")
    /\ \/ /\ Local(i).ver >= Pending(i) \/ readonly[i]
          /\ UNCHANGED <<stream, pos, rebalancerOff>>
       \/ /\ Local(i).ver < Pending(i)
          /\ ~ readonly[i]
          /\ WriteLocal(i, Changed(i, Pending(i)))
          /\ UNCHANGED rebalancerOff
    /\ UNCHANGED <<log, master, target, readonly, calls, building, panicked, gov, budget>>

\* DdlCommit: an instance that lacks the change applies it if it is a master and
\* waits for its master if it is read-only (SleepAndRetry).
ApplyCommit(i) ==
    /\ CanAdvance(i, "commit")
    /\ \/ /\ Local(i).ver >= Pending(i)
          /\ UNCHANGED <<stream, pos, rebalancerOff>>
       \/ /\ Local(i).ver < Pending(i)
          /\ ~ readonly[i]
          /\ WriteLocal(i, Changed(i, Pending(i)))
          /\ rebalancerOff' =
                (rebalancerOff /\ ~ (i = RebalancerHome /\ PendingKind(applied[i]) = "drop"))
    /\ UNCHANGED <<log, master, target, readonly, calls, building, panicked, gov, budget>>

\* A version of ApplyAbort that leaves the local schema alone.
ApplyAbortForgets(i) ==
    /\ CanAdvance(i, "abort")
    /\ PendingKind(applied[i]) \notin Truncates
    /\ UNCHANGED <<log, stream, pos, master, target, readonly, calls, building,
                   rebalancerOff, panicked, gov, budget>>

\* DdlAbort: an instance at exactly the aborted version undoes the change if it
\* is a master and waits if it is read-only.  TRUNCATE is unreachable!() here.
ApplyAbort(i) ==
    /\ CanAdvance(i, "abort")
    /\ PendingKind(applied[i]) \notin Truncates
    /\ \/ /\ Local(i).ver # Pending(i)
          /\ UNCHANGED <<stream, pos>>
       \/ /\ Local(i).ver = Pending(i)
          /\ ~ readonly[i]
          /\ WriteLocal(i, Undone(i, Pending(i), GlobalVersion(applied[i])))
    /\ UNCHANGED <<log, master, target, readonly, calls, building, rebalancerOff,
                   panicked, gov, budget>>

PanicOnAbort(i) ==
    /\ i \notin panicked
    /\ applied[i] < Len(log)
    /\ NextEntry(i).op = "abort"
    /\ PendingKind(applied[i]) \in Truncates
    /\ panicked' = panicked \cup {i}
    /\ UNCHANGED <<log, applied, stream, pos, master, target, readonly, calls, building,
                   rebalancerOff, gov, budget>>

\* tarantool replication
ReplicateRow(i) ==
    /\ i \notin panicked
    /\ pos[i] < Len(stream[RsOf[i]])
    /\ pos' = [pos EXCEPT ![i] = @ + 1]
    /\ UNCHANGED <<log, applied, stream, master, target, readonly, calls, building,
                   rebalancerOff, panicked, gov, budget>>

-----------------------------------------------------------------------------
\* Changes of masters, and restarts.  Module Replication has the details.

\* UpdateTargetReplicasetMaster, or a user's request to move the master
ChooseMaster(r, i) ==
    /\ Spend("switchover")
    /\ gov.phase = "idle"
    /\ target[r] = master[r]
    /\ RsOf[i] = r
    /\ i # master[r]
    /\ target' = [target EXCEPT ![r] = i]
    /\ OtherStep
    /\ UNCHANGED <<log, applied, stream, pos, master, readonly, calls, building,
                   rebalancerOff, panicked>>

\* proc_replication_demote does not wait_index; it ends the transaction under way.
Demote(r) ==
    /\ gov.phase = "idle"
    /\ target[r] # master[r]
    /\ ~ readonly[master[r]]
    /\ readonly' = [readonly EXCEPT ![master[r]] = TRUE]
    /\ building' = [building EXCEPT ![master[r]] = NoBuild]
    /\ OtherStep
    /\ UNCHANGED <<log, applied, stream, pos, master, target, calls,
                   rebalancerOff, panicked, budget>>

\* The new master has everything the demoted one wrote: it becomes the master.
Promote(r) ==
    /\ gov.phase = "idle"
    /\ target[r] # master[r]
    /\ readonly[master[r]]
    /\ pos[target[r]] = pos[master[r]]
    /\ master' = [master EXCEPT ![r] = target[r]]
    /\ OtherStep
    /\ UNCHANGED <<log, applied, stream, pos, target, readonly, calls, building,
                   rebalancerOff, panicked, budget>>

\* proc_replication on the master of a configured replicaset
ConfigureMaster(r) ==
    /\ gov.phase = "idle"
    /\ target[r] = master[r]
    /\ master[r] \notin panicked
    /\ readonly[master[r]]
    /\ readonly' = [readonly EXCEPT ![master[r]] = FALSE]
    /\ OtherStep
    /\ UNCHANGED <<log, applied, stream, pos, master, target, calls, building,
                   rebalancerOff, panicked, budget>>

\* A restart loses the transaction and the calls under way, and starts read-only.
Restart(i) ==
    /\ Spend("restart")
    /\ i \notin panicked
    /\ IF i = Governor THEN gov' = FreshGovernor(i)
                       ELSE Answered(i, i \in gov.wait, "err")
    /\ calls' = {IF i = Governor THEN [c EXCEPT !.live = FALSE] ELSE c :
                    c \in {d \in calls : d.to # i}}
    /\ building' = [j \in Instance |->
                        IF j = i THEN NoBuild
                        ELSE IF i = Governor THEN [building[j] EXCEPT !.live = FALSE]
                        ELSE building[j]]
    /\ readonly' = [readonly EXCEPT ![i] = TRUE]
    /\ rebalancerOff' = (rebalancerOff /\ i # RebalancerHome)
    /\ UNCHANGED <<log, applied, stream, pos, master, target, panicked>>

-----------------------------------------------------------------------------
Init ==
    /\ log = <<>>
    /\ applied = [i \in Instance |-> 0]
    /\ stream = [r \in Replicaset |-> <<[ver |-> 0, objs |-> {}]>>]
    /\ pos = [i \in Instance |-> 1]
    /\ master = FirstMaster
    /\ target = FirstMaster
    /\ readonly = [i \in Instance |-> i \notin Masters]
    /\ calls = {}
    /\ building = [i \in Instance |-> NoBuild]
    /\ rebalancerOff = FALSE
    /\ panicked = {}
    /\ \E i \in Instance : gov = FreshGovernor(i)
    /\ budget = [ddl |-> MaxDdl, abort |-> MaxUserAborts, timeout |-> MaxTimeouts,
                 restart |-> MaxRestarts, switchover |-> MaxSwitchovers,
                 election |-> MaxElections]

Execute(c) ==
    CallNotCaughtUp(c) \/ CallRefused(c) \/ CallAlreadyApplied(c) \/ CallDrop(c)
        \/ CallApply(c) \/ CallFails(c) \/ StartBuild(c)

RaftLoop(i) == ApplyPrepare(i) \/ ApplyCommit(i) \/ ApplyAbort(i) \/ PanicOnAbort(i)

GovernorStep ==
    \/ PlanSchemaChange
    \/ FinishStep
    \/ \E r \in Replicaset : Demote(r) \/ Promote(r) \/ ConfigureMaster(r)

Next ==
    \/ \E d \in Kinds : Prepare(d)
    \/ AbortDdl
    \/ GovernorStep
    \/ \E c \in calls : Execute(c)
    \/ \E i \in Instance :
          RaftLoop(i) \/ FinishBuild(i) \/ FailBuild(i) \/ ReplicateRow(i)
            \/ CallTimesOut(i) \/ Restart(i) \/ NewGovernor(i)
    \/ \E r \in Replicaset, i \in Instance : ChooseMaster(r, i)

\* The loops of every instance keep running and sent requests are executed; an
\* execution that neither fails nor succeeds for ever is not one of the program.
\* The governor prefers configuring replication to a pending schema change, so a
\* master that waits for it is not passed over for ever (action_plan's order).
Fairness ==
    /\ WF_vars(GovernorStep)
    /\ \A r \in Replicaset : SF_vars(ConfigureMaster(r))
    /\ \A i \in Instance :
          /\ WF_vars(RaftLoop(i))
          /\ WF_vars(ReplicateRow(i))
          /\ WF_vars(FinishBuild(i) \/ FailBuild(i))
          /\ WF_vars(\E c \in calls : c.to = i /\ Execute(c))

Spec == Init /\ [][Next]_vars
FairSpec == Spec /\ Fairness

-----------------------------------------------------------------------------
Schema == [ver : 0 .. MaxDdl, objs : SUBSET Version]

\* The shape of the state; in particular a writable instance has replayed all of
\* its replicaset's WAL and at most one instance of a replicaset is writable.
TypeOK ==
    /\ \A k \in 1 .. Len(log) :
          IF k % 2 = 1 THEN log[k] \in [op : {"prepare"}, ddl : Kinds, v : Version]
                       ELSE log[k] \in [op : {"commit", "abort"}]
    /\ applied \in [Instance -> 0 .. Len(log)]
    /\ \A r \in Replicaset : \A k \in 1 .. Len(stream[r]) : stream[r][k] \in Schema
    /\ \A i \in Instance : pos[i] \in 1 .. Len(stream[RsOf[i]])
    /\ master \in [Replicaset -> Instance] /\ target \in [Replicaset -> Instance]
    /\ readonly \in [Instance -> BOOLEAN]
    /\ calls \subseteq [to : Instance, base : 1 .. Len(log), live : BOOLEAN]
    /\ building \in [Instance -> [v : 0 .. MaxDdl, live : BOOLEAN]]
    /\ rebalancerOff \in BOOLEAN
    /\ panicked \subseteq Instance
    /\ gov.phase \in {"idle", "calls"} /\ gov.wait \cup gov.ok \cup gov.total \subseteq Instance
    /\ \A i \in Instance :
          ~ readonly[i] => i = master[RsOf[i]] /\ pos[i] = Len(stream[RsOf[i]])

\* An instance that has applied DdlCommit has the change in its own storage,
\* master or replica: raft_main_loop does not get past DdlCommit without it.
CommittedIsApplied ==
    \A i \in Instance : Finalized(applied[i], "commit") \subseteq Local(i).objs

\* No instance's local_schema_version is behind the global_schema_version it has
\* applied (prepare_for_snapshot asserts v_global <= v_local).
GlobalNotAheadOfLocal ==
    \A i \in Instance : GlobalVersion(applied[i]) <= Local(i).ver

\* Once the master of a replicaset has applied DdlAbort and nothing is executing
\* on it, the change is not in its storage (ddl_abort_on_master).
AbortedIsUndone ==
    \A r \in Replicaset :
        ~ readonly[master[r]] /\ building[master[r]] = NoBuild
            => Finalized(applied[master[r]], "abort") \cap Local(master[r]).objs = {}

\* Everything has been applied and replicated everywhere.
Settled ==
    /\ ~ IsPending(Len(log))
    /\ \A i \in Instance : /\ applied[i] = Len(log)
                           /\ pos[i] = Len(stream[RsOf[i]])
                           /\ building[i] = NoBuild

\* When all is quiet every instance has exactly the committed changes, and all
\* agree on the version, whatever was retried, aborted or interrupted.
SettledIsCommitted ==
    Settled => \A i \in Instance :
        /\ Local(i).objs = Finalized(Len(log), "commit")
        /\ Local(i).ver = GlobalVersion(Len(log))

\* The governor appends DdlCommit for a change that is applied by RPC only when
\* every replicaset already has it, through retries, restarts, switchovers and
\* results kept from earlier batches (all_instances_ok, update_schema_info).
CommitAfterAllMasters ==
    [][ log' # log /\ log'[Len(log')].op = "commit"
            /\ log[Len(log)].ddl \notin {"drop", "global_truncate"}
        => \A r \in Replicaset :
               log[Len(log)].v \in stream[r][Len(stream[r])].objs ]_vars

\* What the comment in handle_committed_normal_entry says of a master that
\* catches up at DdlCommit: no RPC is changing its schema at the same time.
NoConcurrentApply ==
    [][ \A i \in Instance :
            applied[i]' # applied[i] /\ pos[i]' # pos[i] => building[i] = NoBuild ]_vars


-----------------------------------------------------------------------------
\* Statements TLC refutes: the README explains how.

\* After a finished DROP TABLE, committed or aborted, the rebalancer runs again.
RebalancerRestored == Settled => ~ rebalancerOff

\* TRUNCATE never reaches the handling of DdlAbort.
TruncateNeverAborted == panicked = {}

=============================================================================
