---------------------------- MODULE Replication ----------------------------
(***************************************************************************)
(* The master of one replicaset: who may write, who replicates from whom,  *)
(* and how the governor moves mastership.  The global catalog holds one    *)
(* row per instance (current and target state with their incarnations, the *)
(* incarnation last synchronised) and one row for the replicaset (current  *)
(* and target master, promotion vclock, current and target configuration   *)
(* version).  The governor reads the catalog, calls instances and then     *)
(* updates the catalog with compare-and-swap, which module Cas shows       *)
(* serialises: here a compare-and-swap is one step that needs the rows it  *)
(* depends on to be as they were when the governor read them.              *)
(*                                                                         *)
(* Rows of data are counted, not stored: a vclock gives for every instance *)
(* the number of rows written on it that are known here.  Conflicts        *)
(* between rows are not modelled.                                          *)
(***************************************************************************)
EXTENDS Integers, FiniteSets

CONSTANTS
  Instance,          \* instances of the replicaset
  FirstMaster,       \* the master initially
  Fresh,             \* instances that have joined but never been online
  Electors,          \* instances that may become the raft leader
  Outside,           \* the raft leader is not in this replicaset
  NoMaster,          \* what effective_master_name returns during a switchover
  MaxWrites,         \* bound on rows written
  MaxOffline,        \* bound on sentinel verdicts on instances that run
  MaxCrashes,        \* bound on crashes
  MaxTargets,        \* bound on masters named by the administrator
  MaxExpels,         \* bound on expel requests
  MaxTimeouts,       \* bound on calls that time out though they could finish
  MaxLate,           \* bound on calls that run after the step that sent them
  MaxElections       \* bound on raft leader changes

ASSUME ReplicationAssumption ==
  /\ IsFiniteSet(Instance) /\ FirstMaster \in Instance \ Fresh
  /\ Fresh \subseteq Instance /\ Electors \subseteq Instance
  /\ Outside \notin Instance /\ NoMaster \notin Instance
  /\ {MaxWrites, MaxOffline, MaxCrashes, MaxTargets, MaxExpels, MaxTimeouts,
      MaxLate, MaxElections} \subseteq Nat

VARIABLES
  inst,        \* _pico_instance: state and sync_incarnation of each instance
  rs,          \* _pico_replicaset: the row of this replicaset
  view,        \* the catalog as applied on each elector
  leader,      \* where the governor runs
  gov,         \* the governor's step in progress
  up,          \* the process is running
  woken,       \* restarted, target state Online not yet requested
  ro,          \* box.cfg.read_only
  peers,       \* box.cfg.replication
  vclock,      \* box.info.vclock, without the local component
  late,        \* calls that outlived the step that sent them
  behind,      \* history: went offline or restarted since last synchronised
  budget       \* what is left of each bound

catalog == <<inst, rs>>
process == <<up, woken, ro, peers, vclock>>
vars == <<inst, rs, view, leader, gov, up, woken, ro, peers, vclock, late,
          behind, budget>>

Vclock == [Instance -> Nat]
Zero == [i \in Instance |-> 0]
Leq(v, w) == \A i \in Instance : v[i] <= w[i]
Less(v, w) == Leq(v, w) /\ v # w

Variant == {"Online", "Offline", "Expelled"}
InstanceRow == [cur : Variant, curInc : Nat, tgt : Variant, tgtInc : Nat,
                sync : Nat]
ReplicasetRow == [master : Instance, target : Instance, promo : Vclock,
                  curCfg : Nat, tgtCfg : Nat]
Catalog == [inst : [Instance -> InstanceRow], rs : ReplicasetRow]

Current == [inst |-> inst, rs |-> rs]

-----------------------------------------------------------------------------
(* What the governor derives from the catalog.                             *)

MayRespond(s) ==
  /\ s.tgt # "Offline"
  /\ s.cur # "Expelled"
  /\ ~(s.cur = "Offline" /\ s.tgt = "Expelled")

SyncNeeded(s) == s.sync < s.tgtInc

EffectiveMaster(r) == IF r.master = r.target THEN r.master ELSE NoMaster

Responding(c) == {i \in Instance : MayRespond(c.inst[i])}

\* Everybody replicates from the instances that are in sync.  When nobody is,
\* only the current master, or else the target master, is replicated from.
PeersOf(c) ==
  LET synced == {i \in Responding(c) : ~SyncNeeded(c.inst[i])}
      only(i) == {i} \cap Responding(c)
  IN  IF synced # {} THEN synced
      ELSE IF only(c.rs.master) # {} THEN only(c.rs.master)
      ELSE only(c.rs.target)

ToDowngrade(c) ==
  {i \in Instance : c.inst[i].tgt = "Offline" /\ c.inst[i].cur # "Offline"}

\* A freshly joined master has not had a chance to become Online.
Bootstrapping(s) ==
  s.cur = "Offline" /\ s.curInc = 0 /\ s.tgt = "Offline" /\ s.tgtInc = 0

NewTargets(c) ==
  LET master == c.inst[c.rs.target]
      going(v) == {i \in Instance : c.inst[i].tgt = v}
  IN  IF master.tgt = "Online" \/ Bootstrapping(master) THEN {}
      ELSE IF going("Online") # {} THEN going("Online")
      ELSE IF master.tgt = "Expelled" THEN going("Offline")
      ELSE {}

NeedsConfiguring(c) == c.rs.curCfg # c.rs.tgtCfg /\ Responding(c) # {}

MaySwitch(c) ==
  /\ c.rs.master # c.rs.target
  /\ \/ MayRespond(c.inst[c.rs.target])
     \/ c.inst[c.rs.master].tgt = "Expelled"

Laggers(c) == {i \in Responding(c) : SyncNeeded(c.inst[i])}

ToExpel(c) ==
  {i \in Instance : c.inst[i].tgt = "Expelled" /\ c.inst[i].cur # "Expelled"}

ToOnline(c) ==
  {i \in Instance : /\ c.inst[i].tgt = "Online"
                    /\ \/ c.inst[i].cur # "Online"
                       \/ c.inst[i].curInc < c.inst[i].tgtInc}

\* The order in which action_plan looks for something to do.
NextStep(c) ==
  IF ToDowngrade(c) # {} THEN "downgrade"
  ELSE IF NewTargets(c) # {} THEN "target"
  ELSE IF NeedsConfiguring(c) THEN "configure"
  ELSE IF MaySwitch(c) /\ MayRespond(c.inst[c.rs.master]) THEN "switch"
  ELSE IF MaySwitch(c) THEN "failover"
  ELSE IF Laggers(c) # {} THEN "sync"
  ELSE IF ToExpel(c) # {} THEN "expel"
  ELSE IF ToOnline(c) # {} THEN "online"
  ELSE "idle"

\* The governor sees what its instance has applied.
View == IF leader \in Electors THEN view[leader] ELSE Current

Idle == [kind |-> "idle", waiting |-> {}]

\* A step: what the governor saw, which calls are not answered yet, and the
\* vclocks in the answers.
Step(kind, c, calls) ==
  [kind |-> kind, seen |-> c, waiting |-> calls,
   got |-> [i \in Instance |-> Zero]]

Spend(b) == /\ budget[b] > 0
            /\ budget' = [budget EXCEPT ![b] = @ - 1]

Init ==
  /\ inst = [i \in Instance |->
       IF i \in Fresh
       THEN [cur |-> "Offline", curInc |-> 0, tgt |-> "Offline", tgtInc |-> 0,
             sync |-> 0]
       ELSE [cur |-> "Online", curInc |-> 1, tgt |-> "Online", tgtInc |-> 1,
             sync |-> 1]]
  /\ rs = [master |-> FirstMaster, target |-> FirstMaster, promo |-> Zero,
           curCfg |-> 0, tgtCfg |-> 0]
  /\ view = [i \in Electors |-> Current]
  /\ leader = Outside
  /\ gov = Idle
  /\ up = [i \in Instance |-> TRUE]
  /\ woken = [i \in Instance |-> i \in Fresh]
  /\ ro = [i \in Instance |-> i # FirstMaster]
  /\ peers = [i \in Instance |-> IF i \in Fresh THEN {} ELSE Instance \ Fresh]
  /\ vclock = [i \in Instance |-> Zero]
  /\ late = {}
  /\ behind = Fresh
  /\ budget = [writes |-> MaxWrites, offline |-> MaxOffline,
               crashes |-> MaxCrashes, targets |-> MaxTargets,
               expels |-> MaxExpels, timeouts |-> MaxTimeouts,
               late |-> MaxLate, elections |-> MaxElections]

-----------------------------------------------------------------------------
(* Instances: client writes, tarantool replication, crashes.               *)

Write(i) ==
  /\ up[i] /\ ~ro[i]
  /\ Spend("writes")
  /\ vclock' = [vclock EXCEPT ![i][i] = @ + 1]
  /\ UNCHANGED <<inst, rs, view, leader, gov, up, woken, ro, peers, late,
                 behind>>

\* The next row written on `origin` reaches `to` from `from`.
Replicate(to, from, origin) ==
  /\ up[to] /\ up[from] /\ from \in peers[to]
  /\ vclock[to][origin] < vclock[from][origin]
  /\ vclock' = [vclock EXCEPT ![to][origin] = @ + 1]
  /\ UNCHANGED <<inst, rs, view, leader, gov, up, woken, ro, peers, late,
                 behind, budget>>

\* Requests in flight die with the process, a governor on it stops.
Crash(i) ==
  /\ up[i]
  /\ Spend("crashes")
  /\ up' = [up EXCEPT ![i] = FALSE]
  /\ late' = {c \in late : c.to # i}
  /\ IF leader = i THEN leader' = Outside /\ gov' = Idle
                   ELSE UNCHANGED <<leader, gov>>
  /\ UNCHANGED <<inst, rs, view, woken, ro, peers, vclock, behind>>

\* An instance starts read-only, and replication is left to the governor.
Restart(i) ==
  /\ ~up[i]
  /\ up' = [up EXCEPT ![i] = TRUE]
  /\ woken' = [woken EXCEPT ![i] = TRUE]
  /\ ro' = [ro EXCEPT ![i] = TRUE]
  /\ peers' = [peers EXCEPT ![i] = {}]
  /\ behind' = behind \cup {i}
  /\ UNCHANGED <<inst, rs, view, leader, gov, vclock, late, budget>>

-----------------------------------------------------------------------------
(* Requests to change the target state of an instance, handled on the      *)
(* raft leader by update_instance.                                         *)

\* Mutant: the replicaset's configuration version is not bumped.
SetTargetStateNoBump(i, variant) ==
  /\ inst' = [inst EXCEPT ![i].tgt = variant,
                          ![i].tgtInc = IF variant = "Online" THEN @ + 1
                                        ELSE inst[i].curInc]
  /\ rs' = rs

\* Mutant: an instance goes back to the incarnation before its current one.
SetTargetStateOneLess(i, variant) ==
  /\ inst' = [inst EXCEPT ![i].tgt = variant,
                          ![i].tgtInc = IF variant = "Online" THEN @ + 1
                                        ELSE inst[i].curInc - 1]
  /\ rs' = [rs EXCEPT !.tgtCfg = @ + 1]

SetTargetState(i, variant) ==
  /\ inst[i].cur # "Expelled"
  /\ inst' = [inst EXCEPT ![i].tgt = variant,
                          ![i].tgtInc = IF variant = "Online" THEN @ + 1
                                        ELSE inst[i].curInc]
  /\ rs' = IF inst'[i] # inst[i] THEN [rs EXCEPT !.tgtCfg = @ + 1] ELSE rs

\* The sentinel on the leader gives up on an instance that does not answer,
\* whether it is down or only unreachable; a graceful shutdown asks the same.
TargetOffline(i) ==
  /\ inst[i].tgt = "Online"
  /\ IF up[i] THEN Spend("offline") ELSE UNCHANGED budget
  /\ SetTargetState(i, "Offline")
  /\ behind' = behind \cup {i}
  /\ UNCHANGED <<view, leader, gov, process, late>>

\* A restarted instance asks to be Online before anything else; the sentinel
\* of a running one asks when it finds itself Offline, unless it is the leader.
TargetOnline(i) ==
  /\ up[i]
  /\ woken[i] \/ (inst[i].tgt = "Offline" /\ i # leader)
  /\ SetTargetState(i, "Online")
  /\ woken' = [woken EXCEPT ![i] = FALSE]
  /\ UNCHANGED <<view, leader, gov, up, ro, peers, vclock, late, behind,
                 budget>>

\* proc_expel with `force`.  The last instance of a replicaset is expelled
\* together with the replicaset, which is not modelled.
Expel(i) ==
  /\ inst[i].tgt # "Expelled"
  /\ \E j \in Instance \ {i} : inst[j].tgt # "Expelled"
  /\ Spend("expels")
  /\ SetTargetState(i, "Expelled")
  /\ UNCHANGED <<view, leader, gov, process, late, behind>>

\* The administrator names a master in _pico_replicaset.
NameTarget(i) ==
  /\ rs.target # i /\ inst[i].tgt # "Expelled"
  /\ Spend("targets")
  /\ rs' = [rs EXCEPT !.target = i]
  /\ UNCHANGED <<inst, view, leader, gov, process, late, behind>>

-----------------------------------------------------------------------------
(* Governor.  A step that only updates the catalog is one action, possible *)
(* only while what the governor sees is current: otherwise its             *)
(* compare-and-swap fails and nothing happens.  A step with calls starts,  *)
(* has each call executed, and finishes or fails.                          *)

\* A leader that is going Offline or Expelled hands leadership over, unless
\* it has just restarted.
MustTransfer ==
  leader \in Electors /\ View.inst[leader].tgt # "Online" /\ ~woken[leader]

\* The leader is read-only but sees itself as the master.
SelfReadOnly ==
  leader \in Electors /\ ro[leader] /\ EffectiveMaster(View.rs) = leader

PlansFor(kind) ==
  gov = Idle /\ ~MustTransfer /\ ~SelfReadOnly /\ NextStep(View) = kind

TransferLeadership ==
  /\ gov = Idle /\ MustTransfer
  /\ leader' = Outside
  /\ UNCHANGED <<catalog, view, gov, process, late, behind, budget>>

SelfReadOnlyFalse ==
  /\ gov = Idle /\ ~MustTransfer /\ SelfReadOnly
  /\ ro' = [ro EXCEPT ![leader] = FALSE]
  /\ UNCHANGED <<catalog, view, leader, gov, up, woken, peers, vclock, late,
                 behind, budget>>

Downgrade(i) ==
  /\ PlansFor("downgrade") /\ View = Current
  /\ i \in ToDowngrade(Current)
  /\ inst' = [inst EXCEPT ![i].cur = inst[i].tgt, ![i].curInc = inst[i].tgtInc]
  /\ UNCHANGED <<rs, view, leader, gov, process, late, behind, budget>>

UpdateTargetMaster(i) ==
  /\ PlansFor("target") /\ View = Current
  /\ i \in NewTargets(Current)
  /\ rs' = [rs EXCEPT !.target = i]
  /\ UNCHANGED <<inst, view, leader, gov, process, late, behind, budget>>

\* The master is always synchronised with itself.
ActualizeMasterSync ==
  LET m == rs.master IN
  /\ PlansFor("sync") /\ View = Current
  /\ m = rs.target /\ m \in Laggers(Current)
  /\ inst' = [inst EXCEPT ![m].sync = inst[m].tgtInc]
  /\ rs' = [rs EXCEPT !.tgtCfg = @ + 1]
  /\ behind' = behind \ {m}
  /\ UNCHANGED <<view, leader, gov, process, late, budget>>

\* Mutant: an expelled instance stays in the mesh.
ExpelInstanceNoBump(i) ==
  /\ PlansFor("expel") /\ View = Current
  /\ i \in ToExpel(Current)
  /\ inst' = [inst EXCEPT ![i].cur = inst[i].tgt, ![i].curInc = inst[i].tgtInc]
  /\ UNCHANGED <<rs, view, leader, gov, process, late, behind, budget>>

ExpelInstance(i) ==
  /\ PlansFor("expel") /\ View = Current
  /\ i \in ToExpel(Current)
  /\ inst' = [inst EXCEPT ![i].cur = inst[i].tgt, ![i].curInc = inst[i].tgtInc]
  /\ rs' = [rs EXCEPT !.tgtCfg = @ + 1]
  /\ UNCHANGED <<view, leader, gov, process, late, behind, budget>>

Start(kind, calls) ==
  /\ PlansFor(kind)
  /\ gov' = Step(kind, View, calls)
  /\ UNCHANGED <<catalog, view, leader, process, late, behind, budget>>

StartConfigure == Start("configure", Responding(View))
StartSwitchover == Start("switch", {View.rs.master, View.rs.target})
StartFailover == Start("failover", {View.rs.target})
StartSync ==
  /\ View.rs.master = View.rs.target /\ View.rs.master \notin Laggers(View)
  /\ Start("sync", Laggers(View) \cup {View.rs.master})
StartOnline == Start("online", ToOnline(View))

\* handle_replicaset_sync takes for granted that no switchover is under way.
SyncWithoutMaster ==
  /\ PlansFor("sync") /\ View.rs.master # View.rs.target
  /\ gov' = [kind |-> "panicked", waiting |-> {}]
  /\ UNCHANGED <<catalog, view, leader, process, late, behind, budget>>

-----------------------------------------------------------------------------
(* Calls.                                                                  *)

ConfigureCall(i) ==
  [to |-> i, demote |-> FALSE, peers |-> PeersOf(gov.seen),
   ro |-> i # EffectiveMaster(gov.seen.rs)]

DemoteCall(i) == [to |-> i, demote |-> TRUE, peers |-> {}, ro |-> TRUE]

Request(i) ==
  IF gov.kind = "configure" THEN {ConfigureCall(i)}
  ELSE IF gov.kind = "switch" /\ i = gov.seen.rs.master THEN {DemoteCall(i)}
  ELSE {}

\* proc_replication and proc_replication_demote.
Reconfigure(c) ==
  /\ ro' = [ro EXCEPT ![c.to] = c.ro]
  /\ peers' = IF c.demote THEN peers ELSE [peers EXCEPT ![c.to] = c.peers]

\* proc_replication_sync waits for the promotion vclock.
MustSync(i) ==
  \/ gov.kind = "switch" /\ i = gov.seen.rs.target
  \/ gov.kind = "sync" /\ i # gov.seen.rs.master

\* Mutant: proc_replication_sync answers at once.
SyncedAnyway(i) == TRUE

Synced(i) == MustSync(i) => Leq(gov.seen.rs.promo, vclock[i])

Answered(i) ==
  gov' = [gov EXCEPT !.waiting = @ \ {i}, !.got[i] = vclock[i]]

\* Mutant: the vclock of the old master is taken before it is read-only.
ExecuteDemoteLast(i) ==
  /\ i \in gov.waiting /\ up[i] /\ Synced(i)
  /\ Answered(i)
  /\ IF Request(i) = {} \/ gov.kind = "switch"
     THEN UNCHANGED <<ro, peers>>
     ELSE \E c \in Request(i) : Reconfigure(c)
  /\ UNCHANGED <<catalog, view, leader, up, woken, vclock, late, behind,
                 budget>>

Execute(i) ==
  /\ i \in gov.waiting /\ up[i] /\ Synced(i)
  /\ Answered(i)
  /\ IF Request(i) = {} THEN UNCHANGED <<ro, peers>>
     ELSE \E c \in Request(i) : Reconfigure(c)
  /\ UNCHANGED <<catalog, view, leader, up, woken, vclock, late, behind,
                 budget>>

\* A call of a step that is given up may still be executed later.
LeaveInFlight ==
  \E i \in gov.waiting : /\ up[i] /\ Request(i) # {}
                         /\ Spend("late")
                         /\ late' = late \cup Request(i)

\* The first error of a call fails the step: an instance is down, or has not
\* reached the promotion vclock in time.
StepFails ==
  /\ \E i \in gov.waiting : ~up[i] \/ ~Synced(i)
  /\ gov.kind = "online" => gov.waiting = ToOnline(gov.seen)
  /\ gov' = Idle
  /\ LeaveInFlight \/ UNCHANGED <<late, budget>>
  /\ UNCHANGED <<catalog, view, leader, process, behind>>

\* A call times out that could have been answered.
StepTimesOut ==
  /\ \E i \in gov.waiting : up[i] /\ Synced(i)
  /\ gov' = Idle
  /\ LeaveInFlight \/ (Spend("timeouts") /\ UNCHANGED late)
  /\ UNCHANGED <<catalog, view, leader, process, behind>>

\* The term in a request stops it only where a newer term is already known.
LateCall(c) ==
  /\ c \in late /\ up[c.to]
  /\ late' = late \ {c}
  /\ Reconfigure(c)
  /\ UNCHANGED <<catalog, view, leader, gov, up, woken, vclock, behind, budget>>

-----------------------------------------------------------------------------
(* The compare-and-swap that ends a step.  The rows an operation writes,   *)
(* and those in the ranges of its predicate, must not have changed since   *)
(* the governor read them; on a conflict the step is simply over.          *)

Unchanged(rows) ==
  /\ rs = gov.seen.rs
  /\ \A i \in rows : inst[i] = gov.seen.inst[i]

AllAnswered(kind) == gov.kind = kind /\ gov.waiting = {}

\* Mutant: the configuration version is not bumped after a switchover.
BumpForgotten(r) == r

Bump(r) == [r EXCEPT !.tgtCfg = @ + 1]

Swap(rows, ok) ==
  /\ gov' = Idle
  /\ IF Unchanged(rows) THEN ok ELSE UNCHANGED <<catalog, behind>>
  /\ UNCHANGED <<view, leader, process, late, budget>>

FinishConfigure ==
  /\ AllAnswered("configure")
  /\ Swap({}, /\ rs' = [rs EXCEPT !.curCfg = gov.seen.rs.tgtCfg]
              /\ UNCHANGED <<inst, behind>>)

Masters(c) == {c.rs.master, c.rs.target}

\* Mutant: the switchover ends as soon as the calls are answered.
FinishSwitchoverAtOnce ==
  /\ AllAnswered("switch")
  /\ Swap(Masters(gov.seen), /\ rs' = Bump([rs EXCEPT !.master = rs.target])
                             /\ UNCHANGED <<inst, behind>>)

\* The old master had rows beyond the promotion vclock: they become the
\* promotion vclock and the switchover is tried again.  Otherwise it is over.
FinishSwitchover ==
  LET demotion == gov.got[gov.seen.rs.master] IN
  /\ AllAnswered("switch")
  /\ Swap(Masters(gov.seen),
          /\ rs' = IF Less(gov.seen.rs.promo, demotion)
                   THEN Bump([rs EXCEPT !.promo = demotion])
                   ELSE Bump([rs EXCEPT !.master = rs.target])
          /\ UNCHANGED <<inst, behind>>)

\* Mutant: the promotion vclock of the old master is kept.
FinishFailoverOldVclock ==
  /\ AllAnswered("failover")
  /\ Swap(Masters(gov.seen), /\ rs' = Bump([rs EXCEPT !.master = rs.target])
                             /\ UNCHANGED <<inst, behind>>)

FinishFailover ==
  /\ AllAnswered("failover")
  /\ Swap(Masters(gov.seen),
          /\ rs' = Bump([rs EXCEPT !.master = rs.target,
                                   !.promo = gov.got[rs.target]])
          /\ UNCHANGED <<inst, behind>>)

\* Mutant: laggers join the mesh without a new configuration version.
FinishSyncNoBump ==
  LET m == gov.seen.rs.master
      synced == {i \in Laggers(gov.seen) : Leq(gov.got[m], gov.got[i])}
  IN
  /\ AllAnswered("sync")
  /\ Swap(synced,
          /\ inst' = [i \in Instance |-> IF i \in synced
                        THEN [inst[i] EXCEPT !.sync = inst[i].tgtInc]
                        ELSE inst[i]]
          /\ rs' = IF Less(rs.promo, gov.got[m])
                   THEN [rs EXCEPT !.promo = gov.got[m]] ELSE rs
          /\ behind' = behind \ synced)

\* The laggers whose vclock has reached the master's are synchronised.
FinishSync ==
  LET m == gov.seen.rs.master
      synced == {i \in Laggers(gov.seen) : Leq(gov.got[m], gov.got[i])}
  IN
  /\ AllAnswered("sync")
  /\ Swap(synced,
          /\ inst' = [i \in Instance |-> IF i \in synced
                        THEN [inst[i] EXCEPT !.sync = inst[i].tgtInc]
                        ELSE inst[i]]
          /\ rs' = IF Less(rs.promo, gov.got[m])
                   THEN Bump([rs EXCEPT !.promo = gov.got[m]]) ELSE Bump(rs)
          /\ behind' = behind \ synced)

\* Instances that answered become Online, even if others did not.  Only
\* _pico_instance is written, and every change to it bumps the version.
FinishOnline ==
  LET ok == ToOnline(gov.seen) \ gov.waiting IN
  /\ gov.kind = "online" /\ ok # {} /\ \A i \in gov.waiting : ~up[i]
  /\ gov' = Idle
  /\ inst' = [i \in Instance |->
       IF i \in ok /\ inst = gov.seen.inst /\ rs.tgtCfg = gov.seen.rs.tgtCfg
       THEN [inst[i] EXCEPT !.cur = "Online", !.curInc = inst[i].tgtInc]
       ELSE inst[i]]
  /\ UNCHANGED <<rs, view, leader, process, late, behind, budget>>

-----------------------------------------------------------------------------
(* Raft leadership.                                                        *)

\* An elector applies the log up to its end.
Apply(i) ==
  /\ up[i] /\ view[i] # Current
  /\ view' = [view EXCEPT ![i] = Current]
  /\ UNCHANGED <<catalog, leader, gov, process, late, behind, budget>>

Elect(i) ==
  /\ up[i] /\ leader # i /\ gov.kind # "panicked"
  /\ Spend("elections")
  /\ leader' = i
  /\ gov' = Idle
  /\ UNCHANGED <<catalog, view, process, late, behind>>

-----------------------------------------------------------------------------

InstanceStep ==
  \E i \in Instance :
    \/ Write(i) \/ Crash(i) \/ Restart(i)
    \/ \E j, k \in Instance : Replicate(i, j, k)

RequestStep ==
  \E i \in Instance :
    TargetOffline(i) \/ TargetOnline(i) \/ Expel(i) \/ NameTarget(i)

GovernorStep ==
  \/ TransferLeadership \/ SelfReadOnlyFalse
  \/ \E i \in Instance : Downgrade(i) \/ UpdateTargetMaster(i) \/ ExpelInstance(i)
  \/ ActualizeMasterSync \/ SyncWithoutMaster
  \/ StartConfigure \/ StartSwitchover \/ StartFailover \/ StartSync
  \/ StartOnline
  \/ FinishConfigure \/ FinishSwitchover \/ FinishFailover \/ FinishSync
  \/ FinishOnline

CallStep ==
  \/ \E i \in Instance : Execute(i)
  \/ StepFails \/ StepTimesOut
  \/ \E c \in late : LateCall(c)

RaftStep == \E i \in Electors : Apply(i) \/ Elect(i)

Next == InstanceStep \/ RequestStep \/ GovernorStep \/ CallStep \/ RaftStep

Spec == Init /\ [][Next]_vars

\* The governor keeps running, calls are answered or fail, rows are
\* replicated, and a sentinel reports an instance that is down and asks for
\* a running one to be Online.  Nobody has to write, name masters or restart.
Fairness ==
  /\ WF_vars(GovernorStep) /\ WF_vars(StepFails)
  /\ \A i \in Instance :
       /\ WF_vars(Execute(i))
       /\ WF_vars(TargetOnline(i))
       /\ WF_vars(~up[i] /\ TargetOffline(i))
       /\ \A j, k \in Instance : WF_vars(Replicate(i, j, k))
  /\ \A i \in Electors : WF_vars(Apply(i))

FairSpec == Spec /\ Fairness

-----------------------------------------------------------------------------
(* Properties.                                                             *)

Call == [to : Instance, demote : BOOLEAN, peers : SUBSET Instance, ro : BOOLEAN]

\* Every variable has its type.
TypeOK ==
  /\ Current \in Catalog
  /\ view \in [Electors -> Catalog]
  /\ leader \in Electors \cup {Outside}
  /\ \/ gov \in [kind : {"idle", "panicked"}, waiting : {{}}]
     \/ gov \in [kind : {"configure", "switch", "failover", "sync", "online"},
                 seen : Catalog, waiting : SUBSET Instance,
                 got : [Instance -> Vclock]]
  /\ {up, woken, ro} \subseteq [Instance -> BOOLEAN]
  /\ peers \in [Instance -> SUBSET Instance]
  /\ vclock \in [Instance -> Vclock]
  /\ late \subseteq Call
  /\ behind \subseteq Instance

\* The current master always has every row of the promotion vclock: what new
\* masters and waking replicas wait for exists, and `debug_assert_eq!` in the
\* ReplicationSync step ("it cannot go down") never fails.
PromotionNotAhead == Leq(rs.promo, vclock[rs.master])

Settled == rs.curCfg = rs.tgtCfg

\* While the configuration version is settled, no instance that takes part in
\* the cluster accepts writes but the current master, however it was marked
\* Offline, deposed and brought back meanwhile.
OneWriter ==
  Settled => \A i \in Responding(Current) :
               up[i] /\ ~ro[i] => i = rs.master

\* While the configuration version is settled, every instance that takes part
\* and has not just restarted replicates from exactly the instances that the
\* catalog now says are in sync, if there are any, so that a deposed master
\* stays isolated.
MeshInForce ==
  Settled /\ Responding(Current) # Laggers(Current) =>
    \A i \in Responding(Current) :
      up[i] /\ ~woken[i] => peers[i] = Responding(Current) \ Laggers(Current)

\* A master that is replaced while it takes part in the cluster leaves no row
\* behind: its successor has all the rows it had when it was demoted, and all
\* it has ever accepted itself.
SwitchoverKeepsRows ==
  [][LET old == rs.master
         new == rs'.master
     IN  old # new /\ MayRespond(inst[old]) =>
           /\ Leq(gov.got[old], vclock[new])
           /\ vclock[old][old] <= vclock[new][old]]_vars

\* When a switchover from a master that takes part ends, "right now nobody is
\* writable": none of the instances that take part accepts writes.
NobodyWritable ==
  [][rs.master # rs'.master /\ MayRespond(inst[rs.master]) =>
       \A i \in Responding(Current) : up[i] => ro[i]]_vars

Recovered ==
  /\ rs.master = rs.target /\ Settled
  /\ up[rs.master] /\ ~ro[rs.master]
  /\ \A i \in Responding(Current) :
       up[i] => inst[i].cur = "Online" /\ ~SyncNeeded(inst[i])

\* Once nothing more goes wrong, the replicaset gets a writable master, its
\* configuration settles and every running instance becomes Online.
EventuallyRecovered == <>[]Recovered

-----------------------------------------------------------------------------
(* Statements TLC refutes: the README explains how.                        *)

\* The governor computes a synchronisation step only when the replicaset has
\* a master: `expect("master must be actualized")` never fails.
MasterActualized == gov.kind # "panicked"

\* An instance that is waking up is in the replication configuration of
\* others only after it has synchronised: no instance in sync replicates from
\* a replica that was offline or down since it last synchronised.
WakingIsolated ==
  Settled => \A i \in Responding(Current) \ behind :
               up[i] => \A j \in peers[i] \cap behind :
                          j = rs.master \/ woken[j] \/ ~MayRespond(inst[j])

\* The governor looks for another target master only when no switchover is
\* under way.
TargetKept ==
  [][(rs.target # rs'.target /\ budget'.targets = budget.targets) =>
       rs.master = rs.target]_vars

=============================================================================
