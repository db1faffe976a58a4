----------------------------- MODULE CasProofs -----------------------------
(***************************************************************************)
(* What module Cas guarantees for every cluster, every set of clients and  *)
(* every bound.                                                            *)
(***************************************************************************)
EXTENDS Cas, SequenceTheorems, TLAPS

(* The operations of Ops are well-typed. *)
LEMMA OpsTyped ==
    /\ Nop \in Op
    /\ \A rows \in SUBSET Row, val \in Nat : Dml(rows, val) \in Op
    /\ \A t \in Table : DdlPrepare(t) \in Op
    /\ DdlCommit \in Op /\ DdlAbort \in Op
<1>1. \A kind \in Kind, rows \in SUBSET Row, val \in Nat, t \in Table \cup {NoTable} :
         MakeOp(kind, rows, val, t) \in Op
  BY DEF MakeOp, Op
<1> QED BY <1>1 DEF Nop, Dml, DdlPrepare, DdlCommit, DdlAbort, Kind

(* A request carries only ranges of known tables and keys. *)
LEMMA RangesTyped ==
    /\ SchemaChangeRanges \subseteq KeyRange
    /\ \A op \in Op : RangesForOp(op) \subseteq KeyRange
    /\ \A op \in Op : PredicateRanges(op) \subseteq KeyRange
<1>1. \A row \in Row : EqRange(row) \in KeyRange
  BY DEF Row, EqRange, KeyRange
<1>2. \A p \in PropertyKeys : <<Property, p>> \in Row
  BY DEF Row
<1>3. SchemaChangeRanges \subseteq KeyRange
  BY <1>1, <1>2 DEF SchemaChangeRanges, PropertyKeys
<1>4. ASSUME NEW op \in Op PROVE RangesForOp(op) \subseteq KeyRange
  <2>1. op.rows \subseteq Row BY DEF Op
  <2>2. "global_schema_version" \in PropertyKeys /\ "pending_plugin_operation" \in PropertyKeys
    BY DEF PropertyKeys, SchemaProperties
  <2>3. CASE op.kind = "Dml"
    BY <2>1, <2>3, <1>1 DEF RangesForOp, IsSchemaOp
  <2>4. CASE op.kind # "Dml" /\ IsSchemaOp(op)
    BY <2>2, <2>4, <1>1, <1>2 DEF RangesForOp
  <2>5. CASE op.kind # "Dml" /\ ~IsSchemaOp(op) /\ op.kind = "Plugin"
    BY <2>2, <2>5, <1>1, <1>2 DEF RangesForOp
  <2>6. CASE op.kind # "Dml" /\ ~IsSchemaOp(op) /\ op.kind # "Plugin"
    BY <2>6 DEF RangesForOp
  <2> QED BY <2>3, <2>4, <2>5, <2>6
<1> QED BY <1>3, <1>4 DEF PredicateRanges

-----------------------------------------------------------------------------
(* The invariant behind type correctness: an entry is applied or copied    *)
(* only within the log, so that it has the type of an entry.               *)
TypeInv == TypeOK /\ IndicesOrdered

(* What it says of one node. *)
LEMMA NodeFacts ==
    ASSUME TypeInv, NEW n \in Node
    PROVE  /\ term[n] \in Nat /\ log[n] \in Seq(Entry) /\ Len(log[n]) \in Nat
           /\ commit[n] \in Nat /\ applied[n] \in Nat /\ compacted[n] \in Nat
           /\ compacted[n] <= applied[n] /\ applied[n] <= commit[n]
           /\ commit[n] <= Len(log[n])
           /\ \A i \in 1..Len(log[n]) : log[n][i] \in Entry
<1>1. /\ term[n] \in Nat /\ log[n] \in Seq(Entry)
      /\ commit[n] \in Nat /\ applied[n] \in Nat /\ compacted[n] \in Nat
  BY DEF TypeInv, TypeOK
<1>2. compacted[n] <= applied[n] /\ applied[n] <= commit[n] /\ commit[n] <= Len(log[n])
  BY DEF TypeInv, IndicesOrdered
<1>3. Len(log[n]) \in Nat
  BY <1>1, LenProperties
<1>4. \A i \in 1..Len(log[n]) : log[n][i] \in Entry
  BY <1>1, ElementOfSeq
<1> QED BY <1>1, <1>2, <1>3, <1>4

LEMMA InitTypeInv == CasInit => TypeInv
<1> SUFFICES ASSUME CasInit PROVE TypeInv
  OBVIOUS
<1> USE CasAssumption, RaftAssumption
<1>1. NopEntry(1) \in Entry
  BY OpsTyped DEF NopEntry, Entry
<1>2. <<NopEntry(1)>> \in Seq(Entry) /\ Len(<<NopEntry(1)>>) = 1
  BY <1>1
<1>3. Idle(0) \in ClientState
  BY OpsTyped DEF Idle, ClientState
<1>4. TypeOK
  BY <1>2, <1>3 DEF CasInit, TypeOK
<1>5. IndicesOrdered
  BY <1>2 DEF CasInit, IndicesOrdered
<1> QED BY <1>4, <1>5 DEF TypeInv

(* Every step of raft or of log compaction keeps the type invariant. *)
LEMMA RaftStepTypeInv == TypeInv /\ RaftStep => TypeInv'
<1> SUFFICES ASSUME TypeInv, RaftStep PROVE TypeInv'
  OBVIOUS
<1> USE RaftAssumption
<1>0. TypeOK /\ IndicesOrdered /\ UNCHANGED casVars
  BY DEF TypeInv, RaftStep
<1>1. ASSUME NEW n \in Node, NEW Q \in Quorum, NEW t \in 1..MaxTerm, Elect(n, Q, t)
      PROVE TypeInv'
  <2>1. NopEntry(t) \in Entry
    BY OpsTyped DEF NopEntry, Entry
  <2>2. /\ log[n] \in Seq(Entry)
        /\ Append(log[n], NopEntry(t)) \in Seq(Entry)
        /\ Len(Append(log[n], NopEntry(t))) = Len(log[n]) + 1
    BY <1>0, <2>1, AppendProperties DEF TypeOK
  <2>3. TypeOK'
    BY <1>0, <1>1, <2>2 DEF TypeOK, Elect, casVars
  <2>4. IndicesOrdered'
    BY <1>0, <1>1, <2>2, LenProperties DEF TypeOK, IndicesOrdered, Elect
  <2> QED BY <2>3, <2>4 DEF TypeInv
<1>2. ASSUME NEW n \in Node, AdvanceCommit(n) PROVE TypeInv'
  <2>1. PICK i \in Committable(n) : commit' = [commit EXCEPT ![n] = i]
    BY <1>2 DEF AdvanceCommit
  <2>2. i \in (commit[n] + 1)..Len(log[n]) /\ Len(log[n]) \in Nat /\ commit[n] \in Nat
    BY <1>0, LenProperties DEF Committable, TypeOK
  <2>3. TypeOK'
    BY <1>0, <1>2, <2>1, <2>2 DEF TypeOK, AdvanceCommit, casVars
  <2>4. IndicesOrdered'
    BY <1>0, <1>2, <2>1, <2>2 DEF TypeOK, IndicesOrdered, AdvanceCommit
  <2> QED BY <2>3, <2>4 DEF TypeInv
<1>3. ASSUME NEW l \in Node, NEW m \in Node, Replicate(l, m) PROVE TypeInv'
  <2>1. TypeOK'
    BY <1>0, <1>3 DEF TypeOK, Replicate, casVars
  <2>2. IndicesOrdered'
    BY <1>0, <1>3, LenProperties DEF TypeOK, IndicesOrdered, Replicate
  <2> QED BY <2>1, <2>2 DEF TypeInv
<1>4. ASSUME NEW n \in Node, NEW i \in 0..applied[n], NEW j \in 1..(applied[n] + 1),
             Compact(n, i, j)
      PROVE TypeInv'
  <2>1. j - 1 \in Nat /\ j - 1 <= applied[n]
    BY <1>0 DEF TypeOK
  <2>2. TypeOK'
    BY <1>0, <1>4, <2>1 DEF TypeOK, Compact, casVars
  <2>3. IndicesOrdered'
    BY <1>0, <1>4, <2>1 DEF TypeOK, IndicesOrdered, Compact
  <2> QED BY <2>2, <2>3 DEF TypeInv
<1> QED BY <1>1, <1>2, <1>3, <1>4 DEF RaftStep

(* Applying an entry or a snapshot keeps the type invariant. *)
LEMMA ApplyTypeInv ==
    ASSUME TypeInv,
           \/ \E n \in Node : ApplyEntry(n)
           \/ \E l, m \in Node : ApplySnapshot(l, m)
    PROVE TypeInv'
<1>0. TypeOK /\ IndicesOrdered
  BY DEF TypeInv
<1>1. ASSUME NEW n \in Node, ApplyEntry(n) PROVE TypeInv'
  <2> DEFINE op == log[n][applied[n] + 1].op
  <2>1. /\ applied[n] < commit[n]
        /\ applied' = [applied EXCEPT ![n] = @ + 1]
        /\ UNCHANGED <<term, lead, log, commit, compacted, client, reqs>>
    BY <1>1 DEF ApplyEntry, ApplyIndex
  <2>2. log[n][applied[n] + 1] \in Entry
    BY <2>1, NodeFacts
  <2>3. op.val \in Nat /\ op.table \in Table \cup {NoTable}
    BY <2>2 DEF Entry, Op
  <2>4. /\ store' = [store EXCEPT ![n] =
                       [row \in UserRow |-> IF row \in op.rows THEN op.val ELSE @[row]]]
        /\ pending' = [pending EXCEPT ![n] = IF op.kind = "DdlPrepare" THEN op.table
                                            ELSE IF IsDdlFinalizer(op) THEN NoDdl ELSE @]
    BY <1>1 DEF ApplyEntry
  <2> HIDE DEF op
  <2>5. store' \in [Node -> [UserRow -> Nat]]
    BY <1>0, <2>3, <2>4 DEF TypeOK
  <2>6. pending' \in [Node -> Table \cup {NoTable, NoDdl}]
    BY <1>0, <2>3, <2>4 DEF TypeOK
  <2>7. applied' \in [Node -> Nat]
    BY <1>0, <2>1 DEF TypeOK
  <2>8. TypeOK'
    BY <1>0, <2>1, <2>5, <2>6, <2>7 DEF TypeOK
  <2>9. IndicesOrdered'
    BY <2>1, <1>0, NodeFacts DEF IndicesOrdered, TypeOK
  <2> QED BY <2>8, <2>9 DEF TypeInv
<1>2. ASSUME NEW l \in Node, NEW m \in Node, ApplySnapshot(l, m) PROVE TypeInv'
  <2> DEFINE s == SubSeq(log[l], 1, applied[l])
             i == applied[l]
  <2>1. /\ log' = [log EXCEPT ![m] = s]
        /\ commit' = [commit EXCEPT ![m] = i]
        /\ applied' = [applied EXCEPT ![m] = i]
        /\ compacted' = [compacted EXCEPT ![m] = i]
        /\ term' = [term EXCEPT ![m] = term[l]]
        /\ lead' = [lead EXCEPT ![m] = l]
        /\ store' = [store EXCEPT ![m] = store[l]]
        /\ pending' = [pending EXCEPT ![m] = pending[l]]
        /\ UNCHANGED <<client, reqs>>
    BY <1>2 DEF ApplySnapshot, InstallSnapshot
  <2>2. s \in Seq(Entry) /\ Len(s) = i /\ i \in Nat
    BY NodeFacts, SubSeqProperties
  <2> HIDE DEF s, i
  <2>3. TypeOK'
    BY <1>0, <2>1, <2>2 DEF TypeOK
  <2>4. IndicesOrdered'
    BY <1>0, <2>1, <2>2 DEF TypeOK, IndicesOrdered
  <2> QED BY <2>3, <2>4 DEF TypeInv
<1> QED BY <1>1, <1>2

(* Starting over keeps a client's state well-typed. *)
LEMMA RetryTyped ==
    ASSUME TypeInv, NEW c \in Client, Retry(c)
    PROVE client' \in [Client -> ClientState]
<1>1. client \in [Client -> ClientState]
  BY DEF TypeInv, TypeOK
<1>2. client[c] \in ClientState /\ client[c].attempt + 1 \in Nat
  BY <1>1 DEF ClientState
<1>3. Idle(client[c].attempt + 1) \in ClientState
  BY <1>2, OpsTyped DEF Idle, ClientState
<1>4. [client[c] EXCEPT !.pc = "failed"] \in ClientState
  BY <1>2 DEF ClientState
<1> QED BY <1>1, <1>3, <1>4 DEF Retry

(* A client's fiber keeps the type invariant; none of its steps touches    *)
(* the raft state.                                                         *)
LEMMA ClientTypeInv ==
    ASSUME TypeInv, NEW c \in Client,
           \/ SaveIndex(c) \/ ReadAndBuild(c) \/ Send(c) \/ FinishWait(c) \/ GiveUp(c)
    PROVE TypeInv'
<1> USE CasAssumption
<1>0. TypeOK /\ IndicesOrdered
  BY DEF TypeInv
<1>1. client[c] \in ClientState /\ Home[c] \in Node /\ Target[c] \in UserRow
  BY <1>0 DEF TypeOK, UserRow
<1>2. UNCHANGED <<raftVars, store, pending>>
  BY DEF SaveIndex, ReadAndBuild, Send, FinishWait, GiveUp
<1>4. ASSUME Retry(c) PROVE client' \in [Client -> ClientState]
  BY <1>4, RetryTyped
<1>5. ASSUME Fail(c) PROVE client' \in [Client -> ClientState]
  BY <1>0, <1>1, <1>5 DEF TypeOK, Fail, ClientState
<1>6. client' \in [Client -> ClientState] /\ reqs' \in SUBSET Request
  <2>1. CASE SaveIndex(c)
    BY <1>0, <1>1, <2>1 DEF TypeOK, SaveIndex, ClientState
  <2>2. CASE ReadAndBuild(c)
    <3>1. BuildOp(c) \subseteq Op
      BY <1>0, <1>1, OpsTyped DEF TypeOK, BuildOp, UserRow, Row
    <3>2. PICK op \in BuildOp(c) : client' = [client EXCEPT ![c].pc = "built", ![c].op = op]
      BY <2>2 DEF ReadAndBuild
    <3>3. [[client[c] EXCEPT !.pc = "built"] EXCEPT !.op = op] \in ClientState
      BY <1>1, <3>1 DEF ClientState
    <3>4. client' \in [Client -> ClientState]
      BY <1>0, <1>1, <3>1, <3>2, <3>3 DEF TypeOK, ClientState
    <3> QED BY <1>0, <2>2, <3>4 DEF TypeOK, ReadAndBuild
  <2>3. CASE Send(c)
    <3>1. CASE lead[Home[c]] = NoNode
      BY <1>0, <1>4, <2>3, <3>1 DEF TypeOK, Send
    <3>2. CASE lead[Home[c]] # NoNode
      <4>1. lead[Home[c]] \in Node /\ term[Home[c]] \in Nat
        BY <1>0, <1>1, <3>2 DEF TypeOK
      <4>2. /\ client[c].index \in Nat /\ client[c].op \in Op
            /\ PredicateRanges(client[c].op) \in SUBSET KeyRange
        BY <1>1, RangesTyped DEF ClientState
      <4> DEFINE req == [by |-> c, to |-> lead[Home[c]], index |-> client[c].index,
                         term |-> term[Home[c]], op |-> client[c].op,
                         ranges |-> PredicateRanges(client[c].op)]
      <4>3. req \in Request
        BY <4>1, <4>2 DEF Request
      <4>4. reqs' = reqs \cup {req} /\ client' = [client EXCEPT ![c].pc = "sent"]
        BY <2>3, <3>2 DEF Send
      <4> HIDE DEF req
      <4>5. reqs' \in SUBSET Request
        BY <1>0, <4>3, <4>4 DEF TypeOK
      <4>6. client' \in [Client -> ClientState]
        BY <1>0, <1>1, <4>4 DEF TypeOK, ClientState
      <4> QED BY <4>5, <4>6
    <3> QED BY <3>1, <3>2
  <2>4. CASE FinishWait(c)
    <3>1. CASE client' = [client EXCEPT ![c].pc = "done"]
      BY <1>0, <1>1, <2>4, <3>1 DEF TypeOK, FinishWait, ClientState
    <3> QED BY <1>0, <1>4, <1>5, <2>4, <3>1 DEF TypeOK, FinishWait
  <2>5. CASE GiveUp(c)
    BY <1>0, <1>5, <2>5 DEF TypeOK, GiveUp
  <2> QED BY <2>1, <2>2, <2>3, <2>4, <2>5
<1>7. TypeOK'
  BY <1>0, <1>2, <1>6 DEF TypeOK, raftVars
<1>8. IndicesOrdered'
  BY <1>0, <1>2 DEF IndicesOrdered, raftVars
<1> QED BY <1>7, <1>8 DEF TypeInv

(* proc_cas_v2 appends a well-formed entry. *)
LEMMA EntryForTyped ==
    ASSUME TypeInv, NEW req \in reqs
    PROVE  /\ req \in Request /\ req.to \in Node
           /\ EntryFor(req.to, req) \in Entry
<1>1. req \in Request
  BY DEF TypeInv, TypeOK
<1>2. /\ req.to \in Node /\ req.op \in Op /\ req.index \in Nat
      /\ req.ranges \in SUBSET KeyRange /\ req.by \in Client
  BY <1>1 DEF Request
<1>3. CheckedRanges(req) \in SUBSET KeyRange
  BY <1>2, RangesTyped DEF CheckedRanges
<1>4. term[req.to] \in Nat
  BY <1>2, NodeFacts
<1> QED BY <1>1, <1>2, <1>3, <1>4 DEF EntryFor, Entry

(* Handling a request keeps the type invariant. *)
LEMMA LeaderTypeInv ==
    ASSUME TypeInv, NEW req \in reqs, AcceptCas(req) \/ RejectCas(req)
    PROVE TypeInv'
<1> DEFINE n == req.to
           e == EntryFor(n, req)
           c == req.by
<1>0. TypeOK /\ IndicesOrdered
  BY DEF TypeInv
<1>1. /\ n \in Node /\ e \in Entry /\ c \in Client
      /\ client[c] \in ClientState
  BY <1>0, EntryForTyped DEF Request, TypeOK
<1>2. CASE AcceptCas(req)
  <2>1. /\ log' = [log EXCEPT ![n] = Append(@, e)]
        /\ reqs' = reqs \ {req}
        /\ UNCHANGED <<term, lead, commit, applied, compacted, store, pending>>
        /\ \/ UNCHANGED client
           \/ client' = [client EXCEPT ![c] = [@ EXCEPT !.pc = "wait",
                             !.respIndex = Len(log[n]) + 1, !.respTerm = term[n]]]
    BY <1>2 DEF AcceptCas
  <2>2. /\ Append(log[n], e) \in Seq(Entry)
        /\ Len(Append(log[n], e)) = Len(log[n]) + 1
        /\ Len(log[n]) \in Nat /\ term[n] \in Nat
    BY <1>1, NodeFacts, AppendProperties
  <2> HIDE DEF n, e, c
  <2>3. client' \in [Client -> ClientState]
    <3>1. [client[c] EXCEPT !.pc = "wait", !.respIndex = Len(log[n]) + 1,
                            !.respTerm = term[n]] \in ClientState
      <4> DEFINE x == client[c]
                 i == Len(log[n]) + 1
                 t == term[n]
      <4>1. x \in ClientState /\ i \in Nat /\ t \in Nat
        BY <1>1, <2>2
      <4> HIDE DEF x, i, t
      <4>2. [x EXCEPT !.pc = "wait", !.respIndex = i, !.respTerm = t] \in ClientState
        BY <4>1 DEF ClientState
      <4> QED BY <4>2 DEF x, i, t
    <3> QED BY <1>0, <2>1, <3>1 DEF TypeOK
  <2>4. TypeOK'
    BY <1>0, <1>1, <2>1, <2>2, <2>3 DEF TypeOK
  <2>5. IndicesOrdered'
    BY <1>0, <1>1, <2>1, <2>2, NodeFacts DEF TypeOK, IndicesOrdered
  <2> QED BY <2>4, <2>5 DEF TypeInv
<1>3. CASE RejectCas(req)
  <2>1. UNCHANGED <<raftVars, store, pending>> /\ reqs' = reqs \ {req}
    BY <1>3 DEF RejectCas
  <2>2. client' \in [Client -> ClientState]
    <3>1. CASE UNCHANGED client
      BY <1>0, <3>1 DEF TypeOK
    <3>2. CASE Fail(c)
      BY <1>0, <1>1, <3>2 DEF TypeOK, Fail, ClientState
    <3>3. CASE Retry(c)
      BY <1>1, <3>3, RetryTyped
    <3> QED BY <1>3, <3>1, <3>2, <3>3 DEF RejectCas
  <2>3. TypeOK'
    BY <1>0, <2>1, <2>2 DEF TypeOK, raftVars
  <2>4. IndicesOrdered'
    BY <1>0, <2>1 DEF IndicesOrdered, raftVars
  <2> QED BY <2>3, <2>4 DEF TypeInv
<1> QED BY <1>2, <1>3

(* Every variable of Cas has its type in every reachable state, and an     *)
(* instance compacts only what it has applied and applies only what it     *)
(* holds and knows to be committed.                                        *)
THEOREM TypeCorrect == Spec => [](TypeOK /\ IndicesOrdered)
<1>1. CasInit => TypeInv
  BY InitTypeInv
<1>2. TypeInv /\ [Next]_vars => TypeInv'
  <2> SUFFICES ASSUME TypeInv, [Next]_vars PROVE TypeInv'
    OBVIOUS
  <2>1. CASE Next
    BY <2>1, RaftStepTypeInv, ApplyTypeInv, ClientTypeInv, LeaderTypeInv DEF Next
  <2>2. CASE UNCHANGED vars
    BY <2>2 DEF vars, TypeInv, TypeOK, IndicesOrdered
  <2> QED BY <2>1, <2>2
<1> QED BY <1>1, <1>2, PTL DEF Spec, TypeInv

-----------------------------------------------------------------------------
(* A log in which no operation follows a conflict its requester had not    *)
(* seen stays so when it is cut short.                                     *)
LEMMA SerialisedPrefix ==
    ASSUME NEW s \in Seq(Entry), Serialised(s), NEW k \in 0..Len(s)
    PROVE Serialised(SubSeq(s, 1, k))
<1> DEFINE p == SubSeq(s, 1, k)
<1>1. p \in Seq(Entry) /\ Len(p) = k /\ DOMAIN p = 1..k /\ \A i \in 1..k : p[i] = s[i]
  BY SubSeqProperties, LenProperties
<1>2. DOMAIN s = 1..Len(s) /\ Len(s) \in Nat
  BY LenProperties
<1> SUFFICES ASSUME NEW i \in 1..k, NEW j \in (p[i].pred + 1)..(i - 1), NEW r \in p[i].ranges
             PROVE ~TouchesKeys(p[j].op, r)
  BY <1>1 DEF Serialised
<1>3. p[i] = s[i] /\ s[i] \in Entry
  BY <1>1, <1>2, ElementOfSeq
<1>4. s[i].pred \in Nat /\ j \in 1..k
  BY <1>3 DEF Entry
<1>5. p[j] = s[j]
  BY <1>1, <1>4
<1> QED BY <1>2, <1>3, <1>4, <1>5 DEF Serialised

(* It stays so when an entry is appended that conflicts with nothing after *)
(* its predicate's index.                                                  *)
LEMMA SerialisedAppend ==
    ASSUME NEW s \in Seq(Entry), Serialised(s), NEW e \in Entry,
           \A j \in (e.pred + 1)..Len(s) : \A r \in e.ranges : ~TouchesKeys(s[j].op, r)
    PROVE Serialised(Append(s, e))
<1> DEFINE a == Append(s, e)
<1>1. /\ a \in Seq(Entry) /\ Len(a) = Len(s) + 1 /\ Len(s) \in Nat
      /\ DOMAIN a = 1..(Len(s) + 1) /\ DOMAIN s = 1..Len(s)
      /\ a[Len(s) + 1] = e /\ \A i \in 1..Len(s) : a[i] = s[i]
  BY AppendProperties, LenProperties
<1> SUFFICES ASSUME NEW i \in 1..(Len(s) + 1), NEW j \in (a[i].pred + 1)..(i - 1),
                    NEW r \in a[i].ranges
             PROVE ~TouchesKeys(a[j].op, r)
  BY <1>1 DEF Serialised
<1>2. a[i] \in Entry
  BY <1>1, ElementOfSeq
<1> HIDE DEF a
<1>6. a[i].pred \in Nat
  BY <1>2 DEF Entry
<1>3. a[i].pred \in Nat /\ j \in 1..Len(s) /\ a[j] = s[j]
  BY <1>1, <1>6
<1>4. CASE i = Len(s) + 1
  BY <1>1, <1>3, <1>4
<1>5. CASE i \in 1..Len(s)
  <2>1. a[i] = s[i]
    BY <1>1, <1>5
  <2>2. j \in (s[i].pred + 1)..(i - 1) /\ r \in s[i].ranges /\ i \in DOMAIN s
    BY <1>1, <1>5, <2>1
  <2> QED BY <1>3, <2>2 DEF Serialised
<1> QED BY <1>1, <1>4, <1>5

(* Compare-and-swap serialises, whatever leaders change and entries roll   *)
(* back: in no log of any node does an operation follow a conflicting one  *)
(* its requester had not seen.                                             *)
THEOREM CasSerialises == Spec => []LogsSerialised
<1>1. CasInit => LogsSerialised
  <2> SUFFICES ASSUME CasInit, NEW n \in Node PROVE Serialised(log[n])
    BY DEF LogsSerialised
  <2>1. log[n] = <<NopEntry(1)>>
    BY DEF CasInit
  <2>2. DOMAIN log[n] = {1} /\ log[n][1].ranges = {}
    BY <2>1 DEF NopEntry
  <2> QED BY <2>2 DEF Serialised
<1>2. TypeInv /\ LogsSerialised /\ [Next]_vars => LogsSerialised'
  <2> SUFFICES ASSUME TypeInv, LogsSerialised, [Next]_vars PROVE LogsSerialised'
    OBVIOUS
  <2>0. log \in [Node -> Seq(Entry)]
    BY DEF TypeInv, TypeOK
  <2>1. ASSUME UNCHANGED log PROVE LogsSerialised'
    BY <2>1 DEF LogsSerialised
  <2>2. ASSUME NEW n \in Node, NEW s, Serialised(s), log' = [log EXCEPT ![n] = s]
        PROVE LogsSerialised'
    BY <2>0, <2>2 DEF LogsSerialised
  <2>3. ASSUME NEW n \in Node, NEW Q \in Quorum, NEW t \in 1..MaxTerm, Elect(n, Q, t)
        PROVE LogsSerialised'
    <3>1. NopEntry(t) \in Entry /\ NopEntry(t).ranges = {}
      BY OpsTyped, RaftAssumption DEF NopEntry, Entry
    <3>2. Serialised(Append(log[n], NopEntry(t)))
      BY <2>0, <3>1, SerialisedAppend DEF LogsSerialised
    <3> QED BY <2>2, <2>3, <3>2 DEF Elect
  <2>4. ASSUME NEW l \in Node, NEW m \in Node, Replicate(l, m) PROVE LogsSerialised'
    BY <2>2, <2>4 DEF Replicate, LogsSerialised
  <2>5. ASSUME NEW l \in Node, NEW m \in Node, ApplySnapshot(l, m) PROVE LogsSerialised'
    <3>1. Serialised(SubSeq(log[l], 1, applied[l]))
      BY NodeFacts, SerialisedPrefix DEF LogsSerialised
    <3> QED BY <2>2, <2>5, <3>1 DEF ApplySnapshot, InstallSnapshot
  <2>6. ASSUME NEW req \in reqs, AcceptCas(req) PROVE LogsSerialised'
    <3> DEFINE n == req.to
               e == EntryFor(n, req)
    <3>1. n \in Node /\ e \in Entry
      BY EntryForTyped
    <3>2. ~ConflictFound(n, req)
      BY <2>6 DEF AcceptCas, Verdict
    <3>3. e.pred = req.index /\ e.ranges = CheckedRanges(req)
      BY DEF EntryFor
    <3>4. \A j \in (e.pred + 1)..Len(log[n]) : \A r \in e.ranges :
             ~TouchesKeys(log[n][j].op, r)
      BY <3>2, <3>3 DEF ConflictFound, Conflict
    <3>5. Serialised(log[n])
      BY <3>1 DEF LogsSerialised
    <3>6. Serialised(Append(log[n], e))
      BY <2>0, <3>1, <3>4, <3>5, SerialisedAppend
    <3> QED BY <2>2, <2>6, <3>1, <3>6 DEF AcceptCas
  <2>7. CASE UNCHANGED vars
    BY <2>1, <2>7 DEF vars
  <2>8. ASSUME NEW n \in Node,
               \/ AdvanceCommit(n) \/ ApplyEntry(n)
               \/ \E i \in 0..applied[n], j \in 1..(applied[n] + 1) : Compact(n, i, j)
        PROVE LogsSerialised'
    BY <2>1, <2>8 DEF AdvanceCommit, ApplyEntry, ApplyIndex, Compact
  <2>9. ASSUME NEW c \in Client,
               \/ SaveIndex(c) \/ ReadAndBuild(c) \/ Send(c) \/ FinishWait(c) \/ GiveUp(c)
        PROVE LogsSerialised'
    BY <2>1, <2>9 DEF SaveIndex, ReadAndBuild, Send, FinishWait, GiveUp, raftVars
  <2>10. ASSUME NEW req \in reqs, RejectCas(req) PROVE LogsSerialised'
    BY <2>1, <2>10 DEF RejectCas, raftVars
  <2> QED BY <2>3, <2>4, <2>5, <2>6, <2>7, <2>8, <2>9, <2>10 DEF Next, RaftStep
<1> QED BY <1>1, <1>2, TypeCorrect, PTL DEF Spec, TypeInv

=============================================================================
