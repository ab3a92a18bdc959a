--------------------------- MODULE SandboxProofs ---------------------------
(***************************************************************************)
(* Proofs about module Sandbox, for any sets of instances, nodes, op ids,  *)
(* readers and tombstone runs, any number of incarnations, checkpoint      *)
(* epochs and faults.                                                      *)
(***************************************************************************)
EXTENDS Sandbox, TLAPS

Rows == RowRecord \cup {NoRow}
Looks == [Lookers -> Look \cup {NoLook}]

\* An op has a target.
Targeted == row.op # "" => row.target \in Nodes

\* A reader that may still write has read the row as it is: it is at the
\* reader's node, and without an op if the reader is a sync.
LookInv ==
    \A l \in Lookers :
        /\ looks[l].mode = "sync" => row.op = "" /\ row.node = looks[l].node
        /\ looks[l].same = "yes" => row.node = looks[l].node

\* What a begin keeps for a rollback is a state.
Kept ==
    \A o \in OpIds :
        handles[o].step = "begun" /\ handles[o].taken = "no" => handles[o].state \in ClientStates

\* Types, with what they need of one another to be inductive.
TInv == TypeOK /\ Targeted /\ LookInv /\ Kept

-----------------------------------------------------------------------------
(* The operators that make rows *)

\* Without its op a row is a row.
LEMMA ClearOpType ==
    ASSUME NEW r \in RowRecord
    PROVE  ClearOp(r) \in RowRecord
  BY DEF ClearOp, RowRecord, Places

\* So is a released one.
LEMMA ReleasedType ==
    ASSUME NEW r \in RowRecord
    PROVE  Released(r) \in RowRecord
  BY ClearOpType DEF Released, RowRecord, ClientStates

\* The newer of two checkpoints is one.
LEMMA MergeType ==
    ASSUME NEW a \in Epochs, NEW b \in Epochs
    PROVE  MergeCheckpoint(a, b) \in Epochs
  BY DEF MergeCheckpoint

\* A row with its pod seen is a row.
LEMMA SeenType ==
    ASSUME NEW r \in RowRecord, NEW n \in Nodes, NEW p \in PodRecord
    PROVE  Seen(r, n, p) \in RowRecord
<1>1. /\ MergeCheckpoint(r.ckpt, p.ep) \in Epochs
      /\ ClientState[p.st] \in ClientStates
  BY MergeType DEF RowRecord, PodRecord, ClientState, ClientStates, PodStates
<1>2. QED
  BY <1>1 DEF Seen, RowRecord, YesNo, Places

\* A row without its pod is a row.
LEMMA NotFoundType ==
    ASSUME NEW r \in RowRecord
    PROVE  NotFound(r) \in RowRecord
<1>1. CASE r.ckpt > 0
  BY ZenonT(30), <1>1 DEF NotFound, RowRecord, YesNo, Places, ClientStates, Epochs
<1>2. CASE ~(r.ckpt > 0) /\ r.mat = "yes"
  BY ZenonT(30), <1>2, PodBounds DEF NotFound, RowRecord, YesNo, Places, ClientStates, Epochs
<1>3. CASE ~(r.ckpt > 0) /\ r.mat # "yes"
  BY <1>3, PodBounds DEF NotFound, RowRecord, YesNo, Places, ClientStates, Epochs
<1>4. QED
  BY <1>1, <1>2, <1>3

\* A pod that is found is a record.
LEMMA FoundType ==
    ASSUME NEW p \in Answer, Found(p)
    PROVE  p \in PodRecord
  BY DEF Answer, Found, NoPod, Unanswered, PodStates

\* A row with what a node said of its pod is a row.
LEMMA ObservedType ==
    ASSUME NEW r \in RowRecord, NEW n \in Nodes, NEW p \in Answer
    PROVE  Observed(r, n, p) \in RowRecord
  BY SeenType, NotFoundType, FoundType DEF Observed, Ours

\* A stale record makes a tombstone.
LEMMA StaleType ==
    ASSUME NEW r \in RowRecord, NEW n \in Nodes, NEW p \in Answer
    PROVE  StaleRecord(r, n, p) \subseteq [node : Nodes, inc : Incs]
<1>1. CASE Stale(p, r.inc)
  <2>1. p \in PodRecord
    BY <1>1, FoundType DEF Stale
  <2>2. QED
    BY <1>1, <2>1 DEF StaleRecord, PodRecord
<1>2. CASE ~Stale(p, r.inc)
  BY <1>2 DEF StaleRecord
<1>3. QED
  BY <1>1, <1>2

\* A booking is on a node, or there is none.
LEMMA SyncBookingType ==
    ASSUME NEW r \in Rows, NEW b \in Places
    PROVE  SyncBooking(r, b) \in Places
<1>1. r.node \in Places
  <2>1. CASE r = NoRow
    BY <2>1 DEF NoRow, Places
  <2>2. CASE r \in RowRecord
    BY <2>2 DEF RowRecord
  <2>3. QED
    BY <2>1, <2>2 DEF Rows
<1>2. CASE r.state \in MustBook
  BY <1>1, <1>2 DEF SyncBooking, MustBook, KeepBook, Places
<1>3. CASE r.state \notin MustBook
  BY <1>3 DEF SyncBooking, Places
<1>4. QED
  BY <1>2, <1>3

\* The sandbox has a row when its incarnation is one.
LEMMA LiveRow ==
    ASSUME row \in Rows
    PROVE  /\ ~Gone => row \in RowRecord
           /\ row.op # "" => ~Gone
           /\ row.node # None => ~Gone
           /\ row.opId # None => ~Gone
           /\ Gone => row = NoRow
<1>1. 0 \notin Incs
  BY DEF Incs
<1>2. CASE row = NoRow
  BY <1>2 DEF NoRow, Gone
<1>3. CASE row \in RowRecord
  BY <1>1, <1>3 DEF RowRecord, Gone
<1>4. QED
  BY <1>2, <1>3 DEF Rows

\* A reconcile whose row changed is one.
LEMMA NotSameType ==
    ASSUME NEW k \in Look
    PROVE  /\ [k EXCEPT !.same = "no"] \in Look
           /\ [k EXCEPT !.same = "no"].mode = k.mode /\ [k EXCEPT !.same = "no"].same = "no"
  BY DEF Look, YesNo

\* A reader that was overtaken is a reader, and writes nothing to the row.
LEMMA OvertakenType ==
    ASSUME NEW k \in Look \cup {NoLook}
    PROVE  /\ Overtaken(k) \in Look \cup {NoLook}
           /\ Overtaken(k).mode # "sync" /\ Overtaken(k).same = "no"
<1>1. CASE k.mode = "list" /\ Found(k.pod)
  <2>1. k \in Look
    <3>1. NoLook.mode = ""
      BY DEF NoLook
    <3>2. QED
      BY <1>1, <3>1
  <2>2. Overtaken(k) = [k EXCEPT !.same = "no"]
    BY <1>1 DEF Overtaken
  <2>3. QED
    BY <1>1, <2>1, <2>2, NotSameType
<1>2. CASE ~(k.mode = "list" /\ Found(k.pod))
  BY <1>2 DEF Overtaken, NoLook
<1>3. QED
  BY <1>1, <1>2

\* A write keeps the readers and the history in their types, and the readers
\* that go on have still read the row as it is.
LEMMA WriteType ==
    ASSUME TInv, NEW r \in Rows, Write(r), r.op # "" => r.target \in Nodes
    PROVE  /\ row' \in Rows /\ known' \in YesNo /\ looks' \in Looks
           /\ Targeted' /\ LookInv'
<1>1. row' = r /\ known' \in YesNo
  BY DEF Write, TInv, TypeOK, YesNo
<1>2. looks \in Looks
  BY DEF TInv, TypeOK, Looks
<1>3. CASE SameGen(r)
  <2>1. r.node = row.node /\ r.op = row.op
    BY <1>3 DEF SameGen, Rows, RowRecord, NoRow
  <2>2. looks' = looks
    BY <1>3 DEF Write
  <2>3. QED
    BY <1>1, <1>2, <2>1, <2>2 DEF LookInv, Targeted, TInv
<1>4. CASE ~SameGen(r)
  <2>1. looks' = [l \in Lookers |-> Overtaken(looks[l])]
    BY <1>4 DEF Write
  <2>2. \A l \in Lookers : /\ Overtaken(looks[l]) \in Look \cup {NoLook}
                           /\ Overtaken(looks[l]).mode # "sync" /\ Overtaken(looks[l]).same = "no"
    BY <1>2, OvertakenType DEF Looks
  <2>3. looks' \in Looks
    BY <2>1, <2>2 DEF Looks
  <2>4. LookInv'
    BY <2>1, <2>2 DEF LookInv
  <2>5. QED
    BY <1>1, <2>3, <2>4 DEF Targeted
<1>5. QED
  BY <1>3, <1>4

\* So does the write of a reader, which ends.
LEMMA WriteByType ==
    ASSUME TInv, NEW l \in Lookers, NEW r \in Rows, WriteBy(l, r), r.op # "" => r.target \in Nodes
    PROVE  /\ row' \in Rows /\ known' \in YesNo /\ looks' \in Looks
           /\ Targeted' /\ LookInv'
<1>1. row' = r /\ known' \in YesNo
  BY DEF WriteBy, TInv, TypeOK, YesNo
<1>2. looks \in Looks
  BY DEF TInv, TypeOK, Looks
<1>3. SameGen(r) => r.node = row.node /\ r.op = row.op
  BY DEF SameGen, Rows, RowRecord, NoRow
<1>4. \A m \in Lookers : /\ Overtaken(looks[m]) \in Look \cup {NoLook}
                         /\ Overtaken(looks[m]).mode # "sync" /\ Overtaken(looks[m]).same = "no"
  BY <1>2, OvertakenType DEF Looks
<1>5. NoLook.mode # "sync" /\ NoLook.same = "no"
  BY DEF NoLook
<1>6. \A m \in Lookers :
          looks'[m] = IF m = l THEN NoLook
                      ELSE IF SameGen(r) THEN looks[m] ELSE Overtaken(looks[m])
  BY DEF WriteBy
<1>7. looks' \in Looks
  BY <1>2, <1>4 DEF WriteBy, Looks
<1>8. LookInv'
  <2>1. SUFFICES ASSUME NEW m \in Lookers
                 PROVE  /\ looks'[m].mode = "sync" => row'.op = "" /\ row'.node = looks'[m].node
                        /\ looks'[m].same = "yes" => row'.node = looks'[m].node
    BY DEF LookInv
  <2>2. CASE m = l \/ ~SameGen(r)
    BY <1>4, <1>5, <1>6, <2>2
  <2>3. CASE m # l /\ SameGen(r)
    BY <1>1, <1>3, <1>6, <2>3 DEF LookInv, TInv
  <2>4. QED
    BY <2>2, <2>3
<1>9. QED
  BY <1>1, <1>7, <1>8 DEF Targeted

\* A row, by its columns.
LEMMA RowMade ==
    ASSUME NEW inc \in Incs, NEW st \in ClientStates, NEW nd \in Places, NEW mt \in YesNo,
           NEW ls \in Places, NEW ck \in Epochs, NEW k \in OpKinds, NEW o \in OpIds,
           NEW i \in Instances, NEW n \in Places, NEW from \in ClientStates
    PROVE  [inc |-> inc, state |-> st, node |-> nd, mat |-> mt, lost |-> ls, ckpt |-> ck,
            op |-> k, opId |-> o, owner |-> i, target |-> n, from |-> from] \in RowRecord
  BY DEF RowRecord

\* What Begun writes is a row with a target.
LEMMA BegunType ==
    ASSUME row \in RowRecord, NEW i \in Instances, NEW k \in OpKinds, NEW n \in Nodes, NEW o \in OpIds
    PROVE  /\ Begun(i, k, n, o) \in RowRecord
           /\ Begun(i, k, n, o).target = n
<1>1. Transitional(k) \in ClientStates
  BY DEF Transitional, ClientStates
<1> DEFINE moved == k \in {"create", "restore"} /\ row.node # n
           nd == IF k \in {"create", "restore"} THEN n ELSE row.node
           mt == IF moved THEN "no" ELSE row.mat
           ls == IF moved THEN None ELSE row.lost
<1>2. nd \in Places /\ mt \in YesNo /\ ls \in Places
  BY DEF RowRecord, Places, YesNo
<1>3. Begun(i, k, n, o) =
        [inc |-> row.inc, state |-> Transitional(k), node |-> nd, mat |-> mt, lost |-> ls,
         ckpt |-> row.ckpt, op |-> k, opId |-> o, owner |-> i, target |-> n, from |-> row.state]
  BY DEF Begun
<1> HIDE DEF nd, mt, ls, moved
<1>4. n \in Places /\ row.state \in ClientStates /\ row.inc \in Incs /\ row.ckpt \in Epochs
  BY DEF Places, RowRecord
<1>5. Begun(i, k, n, o) \in RowRecord
  BY <1>1, <1>2, <1>3, <1>4, RowMade
<1>6. QED
  BY <1>3, <1>5

\* The row a handle is made of: a takeover puts the state the op began in,
\* which may be unknown to it, in the place of its state.
KeptRow ==
    [inc : Incs, state : ClientStates \cup {""}, node : Places, mat : YesNo, lost : Places,
     ckpt : Epochs, op : OpKinds \cup {""}, opId : OpIds \cup {None},
     owner : Instances \cup {None}, target : Places, from : ClientStates \cup {""}]

\* No checkpoint is an epoch.
LEMMA ZeroEpoch == 0 \in Epochs
  BY PodBounds DEF Epochs

\* What a handle keeps of a row has its type.
LEMMA NewHandleType ==
    ASSUME NEW i \in Instances, NEW k \in OpKinds, NEW n \in Nodes, NEW r \in KeptRow,
           NEW taken \in YesNo, NEW leaves \in SUBSET Nodes
    PROVE  /\ NewHandle(i, k, n, r, taken, leaves) \in Handle
           /\ NewHandle(i, k, n, r, taken, leaves).taken = taken
           /\ NewHandle(i, k, n, r, taken, leaves).state = r.state
<1> DEFINE inc == r.inc
           st == r.state
           nd == r.node
           ls == r.lost
           mt == r.mat
           ck == IF k = "restore" THEN r.ckpt ELSE 0
<1>1. /\ inc \in Incs /\ st \in ClientStates \cup {""} /\ nd \in Places
      /\ ls \in Places /\ mt \in YesNo /\ ck \in Epochs
  BY ZeroEpoch DEF KeptRow
<1>2. Unanswered \in Answer
  BY DEF Answer
<1>3. NewHandle(i, k, n, r, taken, leaves) =
        [step |-> "begun", inst |-> i, kind |-> k, inc |-> inc, target |-> n, taken |-> taken,
         state |-> st, node |-> nd, lost |-> ls, mat |-> mt, tombs |-> leaves,
         ckpt |-> ck, answer |-> 0, obs |-> Unanswered]
  BY DEF NewHandle
<1> HIDE DEF inc, st, nd, ls, mt, ck
<1>4. NewHandle(i, k, n, r, taken, leaves) \in Handle
  <2>1. [step |-> "begun", inst |-> i, kind |-> k, inc |-> inc, target |-> n, taken |-> taken,
         state |-> st, node |-> nd, lost |-> ls, mat |-> mt, tombs |-> leaves,
         ckpt |-> ck, answer |-> 0, obs |-> Unanswered] \in Handle
    BY <1>1, <1>2, ZeroEpoch DEF Handle
  <2>2. QED
    BY <1>3, <2>1, Zenon
<1>5. /\ NewHandle(i, k, n, r, taken, leaves).taken = taken
      /\ NewHandle(i, k, n, r, taken, leaves).state = st
  BY <1>3
<1>6. QED
  BY <1>4, <1>5, Zenon DEF st

\* A call leaves a pod's record, or none, as it was.
LEMMA ServedType ==
    ASSUME NEW c \in Call, NEW p \in PodRecord \cup {NoPod}
    PROVE  Served(c, p) \subseteq PodRecord \cup {NoPod}
<1>1. c.inc \in Incs /\ c.ckpt \in Epochs /\ 0 \in Epochs /\ c.kind \in OpKinds
  BY PodBounds DEF Call, Epochs
<1>2. p = NoPod => p.st = "NONE"
  BY DEF NoPod
<1>3. \A st \in PodStates, inc \in Incs, e \in Epochs : [inc |-> inc, st |-> st, ep |-> e] \in PodRecord
  BY DEF PodRecord
<1>4. ASSUME p \in PodRecord, NEW st \in PodStates, NEW e \in Epochs
      PROVE  [p EXCEPT !.st = st] \in PodRecord /\ [p EXCEPT !.st = st, !.ep = e] \in PodRecord
  BY <1>4 DEF PodRecord
<1>5. CreatePod(p, c.inc) \subseteq PodRecord \cup {NoPod}
  BY <1>1, <1>3 DEF CreatePod, PodStates
<1>6. StartPod(p) \subseteq PodRecord \cup {NoPod}
  BY <1>1, <1>2, <1>4 DEF StartPod, PodStates
<1>7. ResumePod(p) \subseteq PodRecord \cup {NoPod}
  BY <1>1, <1>2, <1>4 DEF ResumePod, PodStates
<1>8. RestorePod(p, c.inc, c.ckpt) \subseteq PodRecord \cup {NoPod}
  <2>1. CASE ~Found(p)
    <3>1. SUFFICES ASSUME NEW q \in RestorePod(p, c.inc, c.ckpt)
                   PROVE  q \in PodRecord
      OBVIOUS
    <3>2. RestorePod(p, c.inc, c.ckpt) =
            {[inc |-> c.inc, st |-> st, ep |-> c.ckpt] : st \in {"HIBERNATED", "PENDING"}}
      BY <2>1 DEF RestorePod, Found, PodStates
    <3>3. PICK st \in {"HIBERNATED", "PENDING"} : q = [inc |-> c.inc, st |-> st, ep |-> c.ckpt]
      BY <3>1, <3>2
    <3>4. QED
      BY <1>1, <1>3, <3>3 DEF PodStates
  <2>2. CASE Found(p) /\ p.st = "HIBERNATED"
    BY <1>1, <1>2, <1>4, <2>2 DEF RestorePod, PodStates
  <2>3. CASE Found(p) /\ p.st # "HIBERNATED"
    BY <2>3 DEF RestorePod
  <2>4. QED
    BY <2>1, <2>2, <2>3
<1>9. SuspendPod(p) \subseteq PodRecord \cup {NoPod}
  BY <1>1, <1>2, <1>4 DEF SuspendPod, PodStates
<1>10. HibernatePod(p) \subseteq PodRecord \cup {NoPod}
  BY <1>1, <1>2, <1>4 DEF HibernatePod, PodStates, NextEpochs
<1>11. QED
  BY <1>1, <1>5, <1>6, <1>7, <1>8, <1>9, <1>10 DEF Served, OpKinds

\* A change with its booking keeps the types.
LEMMA CommitType ==
    ASSUME TInv, NEW r \in Rows, Commit(r), r.op # "" => r.target \in Nodes
    PROVE  /\ row' \in Rows /\ known' \in YesNo /\ looks' \in Looks /\ booking' \in Places
           /\ Targeted' /\ LookInv'
  BY WriteType, SyncBookingType DEF Commit, TInv, TypeOK

\* Rows that keep their op columns, or have none, have a target if they have an
\* op.
LEMMA OpColumns ==
    ASSUME NEW r \in RowRecord
    PROVE  /\ ClearOp(r).op = "" /\ Released(r).op = ""
           /\ NotFound(r).op = r.op /\ NotFound(r).target = r.target
           /\ \A n \in Nodes, p \in PodRecord : Seen(r, n, p).op = r.op /\ Seen(r, n, p).target = r.target
<1>1. ClearOp(r).op = ""
  BY DEF ClearOp, RowRecord
<1>2. Released(r).op = ""
  BY <1>1, ClearOpType DEF Released, RowRecord
<1>3. NotFound(r).op = r.op /\ NotFound(r).target = r.target
  <2>1. CASE r.ckpt > 0
    BY <2>1 DEF NotFound, RowRecord, Epochs
  <2>2. CASE ~(r.ckpt > 0) /\ r.mat = "yes"
    BY <2>2, PodBounds DEF NotFound, RowRecord, Epochs
  <2>3. CASE ~(r.ckpt > 0) /\ r.mat # "yes"
    BY <2>3, PodBounds DEF NotFound, RowRecord, Epochs
  <2>4. QED
    BY <2>1, <2>2, <2>3
<1>4. \A n \in Nodes, p \in PodRecord : Seen(r, n, p).op = r.op /\ Seen(r, n, p).target = r.target
  BY DEF Seen, RowRecord
<1>5. QED
  BY <1>1, <1>2, <1>3, <1>4

\* The ops of an instance are released, or nothing changes.
LEMMA ReleaseOpsType ==
    ASSUME TInv, NEW i \in Instances, ReleaseOpsOf(i)
    PROVE  /\ row' \in Rows /\ known' \in YesNo /\ looks' \in Looks
           /\ Targeted' /\ LookInv'
<1>1. CASE row.op # "" /\ row.owner = i
  <2>1. row \in RowRecord
    BY <1>1, LiveRow DEF TInv, TypeOK, Rows
  <2>2. Write(Released(row))
    BY <1>1 DEF ReleaseOpsOf
  <2>3. QED
    BY <2>1, <2>2, WriteType, ReleasedType, OpColumns DEF Rows
<1>2. CASE ~(row.op # "" /\ row.owner = i)
  BY <1>2 DEF ReleaseOpsOf, TInv, TypeOK, Rows, Looks, Targeted, LookInv
<1>3. QED
  BY <1>1, <1>2

\* What a begin writes.
LEMMA BeginTxType ==
    ASSUME TInv, NEW i \in Instances, NEW k \in OpKinds, NEW n \in Nodes, NEW o \in OpIds,
           BeginTx(i, k, n, o)
    PROVE  /\ row \in RowRecord
           /\ row' \in Rows /\ known' \in YesNo /\ looks' \in Looks /\ booking' \in Places
           /\ tombs' \subseteq [node : Nodes, inc : Incs]
           /\ Leaves(k, n) \in SUBSET Nodes
           /\ Targeted' /\ LookInv'
<1>1. row \in RowRecord
  BY LiveRow DEF BeginTx, TInv, TypeOK, Rows
<1>2. Begun(i, k, n, o) \in RowRecord /\ Begun(i, k, n, o).target = n
  BY <1>1, BegunType
<1>3. /\ row' \in Rows /\ known' \in YesNo /\ looks' \in Looks
      /\ Targeted' /\ LookInv'
  BY <1>2, WriteType DEF BeginTx, Rows
<1>4. booking' \in Places
  <2>1. (IF Admits(k) THEN n ELSE booking) \in Places
    BY DEF TInv, TypeOK, Places
  <2>2. QED
    BY <1>2, <2>1, SyncBookingType DEF BeginTx, Rows
<1>5. Leaves(k, n) \in SUBSET Nodes
  BY <1>1 DEF Leaves, RowRecord, Places
<1>6. tombs' \subseteq [node : Nodes, inc : Incs]
  <2>1. row.inc \in Incs
    BY <1>1 DEF RowRecord
  <2>2. \A m \in Leaves(k, n) : [node |-> m, inc |-> row.inc] \in [node : Nodes, inc : Incs]
    BY <1>5, <2>1
  <2>3. tombs' = tombs \cup {[node |-> m, inc |-> row.inc] : m \in Leaves(k, n)}
    BY DEF BeginTx
  <2>4. QED
    BY <2>2, <2>3 DEF TInv, TypeOK
<1>7. QED
  BY <1>1, <1>3, <1>4, <1>5, <1>6

\* Faults are counted up to their bound.
LEMMA FaultType ==
    ASSUME TInv, Fault
    PROVE  faults' \in 0 .. MaxFaults
<1>1. faults \in 0 .. MaxFaults /\ MaxFaults \in Nat
  BY SandboxConstants DEF TInv, TypeOK
<1>2. QED
  BY <1>1 DEF Fault

\* A row is what a handle is made of, whatever state is put in it.
LEMMA KeptRowType ==
    ASSUME NEW r \in RowRecord
    PROVE  /\ r \in KeptRow
           /\ \A st \in ClientStates \cup {""} : [r EXCEPT !.state = st] \in KeptRow
  BY DEF RowRecord, KeptRow

\* A handle that is in use.
LEMMA HandleThere ==
    ASSUME TInv, NEW o \in OpIds, handles[o].step # "none"
    PROVE  handles[o] \in Handle
<1>1. NoHandle.step = "none"
  BY DEF NoHandle
<1>2. QED
  BY <1>1 DEF TInv, TypeOK

\* A handle whose call was sent.
LEMMA SentType ==
    ASSUME NEW h \in Handle
    PROVE  /\ [NoHandle EXCEPT !.step = "sent", !.inst = h.inst, !.kind = h.kind,
                               !.inc = h.inc, !.target = h.target] \in Handle
           /\ [NoHandle EXCEPT !.step = "sent", !.inst = h.inst, !.kind = h.kind,
                               !.inc = h.inc, !.target = h.target].step = "sent"
<1>1. Unanswered \in Answer
  BY DEF Answer
<1>2. QED
  BY <1>1, ZeroEpoch DEF Handle, NoHandle, YesNo, Places

\* A handle whose wait ended.
LEMMA ObservedHandleType ==
    ASSUME NEW h \in Handle, NEW obs \in Answer
    PROVE  /\ [h EXCEPT !.step = "done", !.obs = obs] \in Handle
           /\ [h EXCEPT !.step = "done", !.obs = obs].step = "done"
  BY DEF Handle

\* A handle whose hibernation was answered.
LEMMA AnsweredHandleType ==
    ASSUME NEW h \in Handle, NEW e \in Epochs
    PROVE  /\ [h EXCEPT !.answer = e] \in Handle
           /\ [h EXCEPT !.answer = e].step = h.step
  BY DEF Handle

\* A rolled back row is a row without an op.
LEMMA RolledBackType ==
    ASSUME row \in RowRecord, NEW h \in Handle, h.taken # "yes" => h.state \in ClientStates
    PROVE  RolledBack(h) \in RowRecord /\ RolledBack(h).op = ""
<1>1. CASE h.taken = "yes"
  BY <1>1, ReleasedType, OpColumns DEF RolledBack
<1>2. CASE h.taken # "yes"
  <2> DEFINE q == ClearOp(row)
             r == [q EXCEPT !.state = h.state, !.node = h.node, !.lost = h.lost, !.mat = h.mat]
  <2>1. q \in RowRecord /\ q.op = ""
    BY ClearOpType, OpColumns
  <2>2. h.node \in Places /\ h.lost \in Places /\ h.mat \in YesNo
    BY DEF Handle
  <2>3. RolledBack(h) = r
    BY <1>2 DEF RolledBack
  <2> HIDE DEF q
  <2>4. r \in RowRecord /\ r.op = ""
    BY <1>2, <2>1, <2>2 DEF RowRecord
  <2>5. QED
    BY <2>3, <2>4, Zenon
<1>3. QED
  BY <1>1, <1>2

\* The end of an op keeps the types.
LEMMA FinishTxType ==
    ASSUME TInv, NEW o \in OpIds, FinishTx(o)
    PROVE  /\ row' \in Rows /\ known' \in YesNo /\ looks' \in Looks /\ booking' \in Places
           /\ tombs' \subseteq [node : Nodes, inc : Incs]
           /\ Targeted' /\ LookInv'
<1> DEFINE h == handles[o]
<1>1. h \in Handle
  BY HandleThere DEF FinishTx
<1>2. h.target \in Nodes /\ h.inc \in Incs /\ h.obs \in Answer /\ h.answer \in Epochs
  BY <1>1 DEF Handle
<1>3. CASE FinishOurs(o)
  <2>1. row \in RowRecord
    BY <1>3, LiveRow DEF FinishOurs, FencedOut, TInv, TypeOK, Rows
  <2>2. Outcome(h) \in RowRecord /\ Outcome(h).op = ""
    <3>1. ClearOp(row) \in RowRecord /\ ClearOp(row).op = "" /\ Released(row).op = ""
      BY <2>1, ClearOpType, OpColumns
    <3>2. CASE h.obs = Unanswered
      BY <2>1, <3>1, <3>2, ReleasedType DEF Outcome
    <3>3. CASE h.obs # Unanswered /\ Ours(h.obs, h.inc)
      <4>1. h.obs \in PodRecord
        BY <1>2, <3>3, FoundType DEF Ours
      <4>2. QED
        BY <1>2, <3>1, <3>3, <4>1, SeenType, OpColumns DEF Outcome
    <3>4. CASE h.obs # Unanswered /\ ~Ours(h.obs, h.inc)
      BY <3>1, <3>4, NotFoundType, OpColumns DEF Outcome
    <3>5. QED
      BY <3>2, <3>3, <3>4
  <2>3. tombs' \subseteq [node : Nodes, inc : Incs]
    BY <1>2, <1>3, <2>1, StaleType DEF FinishOurs, TInv, TypeOK
  <2>4. Commit(Outcome(h))
    BY <1>3 DEF FinishOurs
  <2>5. QED
    BY <2>2, <2>3, <2>4, CommitType DEF Rows
<1>4. CASE FinishFenced(o)
  <2> DEFINE ck == MergeCheckpoint(row.ckpt, Newest(h))
             r == IF ~Strays(h) /\ ~Gone /\ row.inc = h.inc /\ row.node = h.target
                  THEN [row EXCEPT !.ckpt = ck] ELSE row
  <2>1. Newest(h) \in Epochs
    <3>1. Ours(h.obs, h.inc) => h.obs.ep \in Epochs
      BY <1>2, FoundType DEF Ours, PodRecord
    <3>2. QED
      BY <1>2, <3>1, ZeroEpoch, MergeType DEF Newest
  <2>2. r \in Rows /\ r.op = row.op /\ r.target = row.target
    <3>1. CASE ~Strays(h) /\ ~Gone /\ row.inc = h.inc /\ row.node = h.target
      <4>1. row \in RowRecord
        BY <3>1, LiveRow DEF TInv, TypeOK, Rows
      <4>2. ck \in Epochs
        BY <2>1, <4>1, MergeType DEF RowRecord
      <4> HIDE DEF ck
      <4>3. [row EXCEPT !.ckpt = ck] \in RowRecord /\ [row EXCEPT !.ckpt = ck].op = row.op
            /\ [row EXCEPT !.ckpt = ck].target = row.target
        BY <4>1, <4>2 DEF RowRecord
      <4>4. QED
        BY <3>1, <4>3 DEF Rows
    <3>2. CASE ~(~Strays(h) /\ ~Gone /\ row.inc = h.inc /\ row.node = h.target)
      BY <3>2 DEF Rows, TInv, TypeOK
    <3>3. QED
      BY <3>1, <3>2
  <2>3. Write(r)
    BY <1>4 DEF FinishFenced
  <2> HIDE DEF r
  <2>4. /\ row' \in Rows /\ known' \in YesNo /\ looks' \in Looks
        /\ Targeted' /\ LookInv'
    BY <2>2, <2>3, WriteType DEF TInv, Targeted
  <2>5. tombs' \subseteq [node : Nodes, inc : Incs] /\ booking' \in Places
    BY <1>2, <1>4 DEF FinishFenced, TInv, TypeOK
  <2>6. QED
    BY <2>4, <2>5
<1>5. QED
  BY <1>3, <1>4 DEF FinishTx

\* A reader that is under way.
LEMMA LookThere ==
    ASSUME TInv, NEW l \in Lookers, looks[l].mode # "" \/ looks[l].same = "yes"
    PROVE  looks[l] \in Look
<1>1. NoLook.mode = "" /\ NoLook.same = "no"
  BY DEF NoLook
<1>2. QED
  BY <1>1 DEF TInv, TypeOK

\* What a sync or a reconcile writes.
LEMMA ApplyType ==
    ASSUME TInv, NEW l \in Lookers, Apply(l), looks[l].mode = "sync" \/ looks[l].same = "yes"
    PROVE  /\ row' \in Rows /\ known' \in YesNo /\ looks' \in Looks /\ booking' \in Places
           /\ tombs' \subseteq [node : Nodes, inc : Incs]
           /\ Targeted' /\ LookInv'
<1> DEFINE k == looks[l]
<1>1. k \in Look
  BY LookThere
<1>2. k.node \in Nodes /\ k.pod \in Answer
  BY <1>1 DEF Look, Answer
<1>3. row \in RowRecord
  <2>1. row.node = k.node
    BY DEF TInv, LookInv
  <2>2. row.node # None
    BY <1>2, <2>1, SandboxConstants
  <2>3. QED
    BY <2>2, LiveRow DEF TInv, TypeOK, Rows
<1>4. /\ Observed(row, k.node, k.pod) \in RowRecord
      /\ Observed(row, k.node, k.pod).op = row.op /\ Observed(row, k.node, k.pod).target = row.target
  <2>1. Observed(row, k.node, k.pod) \in RowRecord
    BY <1>2, <1>3, ObservedType
  <2>2. Ours(k.pod, row.inc) => k.pod \in PodRecord
    BY <1>2, FoundType DEF Ours
  <2>3. QED
    BY <1>2, <1>3, <2>1, <2>2, OpColumns DEF Observed
<1>5. /\ row' \in Rows /\ known' \in YesNo /\ looks' \in Looks
      /\ Targeted' /\ LookInv'
  BY <1>4, WriteByType DEF Apply, Rows, TInv, Targeted
<1>6. booking' \in Places
  BY <1>4, SyncBookingType DEF Apply, Rows, TInv, TypeOK
<1>7. tombs' \subseteq [node : Nodes, inc : Incs]
  BY <1>2, <1>3, StaleType DEF Apply, TInv, TypeOK
<1>8. QED
  BY <1>5, <1>6, <1>7

-----------------------------------------------------------------------------
(* Type correctness *)

\* Every step keeps the types.
LEMMA TypeStep == TInv /\ [Next]_vars => TInv'
<1> USE DEF Rows, Looks
<1>0. SUFFICES ASSUME TInv, [Next]_vars
               PROVE  TInv'
  OBVIOUS
<1>1. CASE UNCHANGED vars
  BY <1>0, <1>1 DEF vars, db, runners, fleet, TInv, TypeOK, Targeted, LookInv, Kept
<1>2. CASE CreateSandbox
  <2>1. NewRow(incs + 1) \in RowRecord /\ NewRow(incs + 1).op = "" /\ incs' \in 0 .. MaxInc
    <3>1. incs + 1 \in Incs /\ incs' \in 0 .. MaxInc
      BY <1>0, <1>2, PodBounds DEF CreateSandbox, TInv, TypeOK, Incs
    <3>2. QED
      BY <3>1, ZeroEpoch DEF NewRow, NoRow, RowRecord, ClientStates, YesNo, Places
  <2>2. /\ row' \in Rows /\ known' \in YesNo /\ looks' \in Looks
        /\ Targeted' /\ LookInv'
    BY <1>0, <1>2, <2>1, WriteType DEF CreateSandbox
  <2>3. QED
    BY <1>0, <1>2, <2>1, <2>2 DEF CreateSandbox, runners, fleet, TInv, TypeOK, Kept
<1>3. CASE Delete
  <2>1. /\ row' \in Rows /\ known' \in YesNo /\ looks' \in Looks
        /\ Targeted' /\ LookInv'
    <3>1. NoRow.op = ""
      BY DEF NoRow
    <3>2. QED
      BY <1>0, <1>3, <3>1, WriteType DEF Delete
  <2>2. row \in RowRecord
    BY <1>0, <1>3, LiveRow DEF Delete, TInv, TypeOK
  <2>3. \A n \in {row.node, row.target, row.lost} \ {None} :
            [node |-> n, inc |-> row.inc] \in [node : Nodes, inc : Incs]
    BY <2>2 DEF RowRecord, Places
  <2>4. tombs' \subseteq [node : Nodes, inc : Incs]
    BY <1>0, <1>3, <2>3 DEF Delete, TInv, TypeOK
  <2>5. QED
    BY <1>0, <1>3, <2>1, <2>4 DEF Delete, runners, fleet, TInv, TypeOK, Kept, Places
<1>4. CASE DownSweep
  <2>1. row \in RowRecord
    BY <1>0, <1>4, LiveRow DEF DownSweep, TInv, TypeOK
  <2>2. /\ [row EXCEPT !.state = "unknown"] \in RowRecord
        /\ [row EXCEPT !.state = "unknown"].op = row.op
    BY <2>1 DEF RowRecord, ClientStates
  <2>3. /\ row' \in Rows /\ known' \in YesNo /\ looks' \in Looks
        /\ Targeted' /\ LookInv'
    BY <1>0, <1>4, <2>2, WriteType DEF DownSweep
  <2>4. QED
    BY <1>0, <1>4, <2>3 DEF DownSweep, runners, fleet, TInv, TypeOK, Kept
<1>5. CASE LostGrace
  <2>1. row \in RowRecord
    BY <1>0, <1>5, LiveRow DEF LostGrace, TInv, TypeOK
  <2>2. GraceLost(row) \in RowRecord /\ GraceLost(row).op = row.op
    <3>1. CASE row.ckpt > 0
      BY ZenonT(30), <2>1, <3>1 DEF GraceLost, RowRecord, ClientStates, Epochs, Places
    <3>2. CASE ~(row.ckpt > 0) /\ row.mat = "yes"
      BY <2>1, <3>2, PodBounds DEF GraceLost, RowRecord, ClientStates, Epochs, Places
    <3>3. CASE ~(row.ckpt > 0) /\ row.mat # "yes"
      BY <2>1, <3>3, PodBounds DEF GraceLost, RowRecord, ClientStates, Epochs, Places
    <3>4. QED
      BY <3>1, <3>2, <3>3
  <2>3. /\ row' \in Rows /\ known' \in YesNo /\ looks' \in Looks
        /\ Targeted' /\ LookInv'
    BY <1>0, <1>5, <2>2, WriteType DEF LostGrace
  <2>4. QED
    BY <1>0, <1>5, <2>3 DEF LostGrace, runners, fleet, TInv, TypeOK, Kept, Places
<1>6. ASSUME NEW i \in Instances, NEW o \in OpIds, NEW k \in Kinds, NEW n \in Nodes, Begin(i, k, n, o)
      PROVE  TInv'
  <2>1. k \in OpKinds
    BY SandboxConstants
  <2>2. /\ row \in RowRecord
        /\ row' \in Rows /\ known' \in YesNo /\ looks' \in Looks /\ booking' \in Places
        /\ tombs' \subseteq [node : Nodes, inc : Incs]
        /\ Leaves(k, n) \in SUBSET Nodes
        /\ Targeted' /\ LookInv'
    BY <1>0, <1>6, <2>1, BeginTxType DEF Begin
  <2>3. /\ NewHandle(i, k, n, row, "no", Leaves(k, n)) \in Handle
        /\ NewHandle(i, k, n, row, "no", Leaves(k, n)).state \in ClientStates
    <3>1. row \in KeptRow /\ row.state \in ClientStates /\ "no" \in YesNo
      BY <2>2, KeptRowType DEF YesNo, RowRecord
    <3>2. QED
      BY <2>1, <2>2, <3>1, NewHandleType
  <2>4. handles' \in [OpIds -> Handle \cup {NoHandle}] /\ reg' \in [Instances -> OpIds \cup {None}]
    BY <1>0, <1>6, <2>3 DEF Begin, TInv, TypeOK
  <2>5. Kept'
    BY <1>0, <1>6, <2>3 DEF Begin, TInv, TypeOK, Kept
  <2>6. QED
    BY <1>0, <1>6, <2>2, <2>4, <2>5 DEF Begin, BeginTx, fleet, TInv, TypeOK
<1>7. ASSUME NEW i \in Instances, NEW o \in OpIds, NEW k \in Kinds, NEW n \in Nodes, BeginLost(i, k, n, o)
      PROVE  TInv'
  <2>1. k \in OpKinds
    BY SandboxConstants
  <2>2. /\ row' \in Rows /\ known' \in YesNo /\ looks' \in Looks /\ booking' \in Places
        /\ tombs' \subseteq [node : Nodes, inc : Incs]
        /\ Targeted' /\ LookInv'
    BY <1>0, <1>7, <2>1, BeginTxType DEF BeginLost
  <2>3. faults' \in 0 .. MaxFaults
    BY <1>0, <1>7, FaultType DEF BeginLost
  <2>4. QED
    BY <1>0, <1>7, <2>2, <2>3 DEF BeginLost, BeginTx, fleet, TInv, TypeOK, Kept
<1>8. ASSUME NEW i \in Instances, NEW o \in OpIds, Takeover(i, o)
      PROVE  TInv'
  <2>1. row \in RowRecord /\ row.op \in OpKinds /\ row.target \in Nodes /\ row.from \in ClientStates \cup {""}
    <3>1. row.op # ""
      BY <1>8 DEF Takeover, Orphaned
    <3>2. row \in RowRecord
      BY <1>0, <3>1, LiveRow DEF TInv, TypeOK
    <3>3. row.target \in Nodes
      BY <1>0, <3>1 DEF TInv, Targeted
    <3>4. row.op \in OpKinds /\ row.from \in ClientStates \cup {""}
      BY <3>1, <3>2 DEF RowRecord
    <3>5. QED
      BY <3>2, <3>3, <3>4
  <2>2. /\ [row EXCEPT !.opId = o, !.owner = i] \in RowRecord
        /\ [row EXCEPT !.opId = o, !.owner = i].target = row.target
    BY <2>1 DEF RowRecord
  <2>3. /\ row' \in Rows /\ known' \in YesNo /\ looks' \in Looks
        /\ Targeted' /\ LookInv'
    BY <1>0, <1>8, <2>1, <2>2, WriteType DEF Takeover
  <2>4. /\ NewHandle(i, row.op, row.target, [row EXCEPT !.state = row.from], "yes", {}) \in Handle
        /\ NewHandle(i, row.op, row.target, [row EXCEPT !.state = row.from], "yes", {}).taken = "yes"
    <3> DEFINE k == row.op
               n == row.target
               q == [row EXCEPT !.state = row.from]
    <3>1. /\ q \in KeptRow /\ "yes" \in YesNo /\ {} \in SUBSET Nodes
          /\ k \in OpKinds /\ n \in Nodes
      BY <2>1, KeptRowType DEF YesNo
    <3> HIDE DEF k, n, q
    <3>2. NewHandle(i, k, n, q, "yes", {}) \in Handle /\ NewHandle(i, k, n, q, "yes", {}).taken = "yes"
      BY <3>1, NewHandleType
    <3>3. QED
      BY <3>2 DEF k, n, q
  <2>5. handles' \in [OpIds -> Handle \cup {NoHandle}] /\ reg' \in [Instances -> OpIds \cup {None}]
    BY <1>0, <1>8, <2>4 DEF Takeover, TInv, TypeOK
  <2>6. Kept'
    BY <1>0, <1>8, <2>4 DEF Takeover, TInv, TypeOK, Kept
  <2>7. QED
    BY <1>0, <1>8, <2>3, <2>5, <2>6 DEF Takeover, fleet, TInv, TypeOK
<1>9. ASSUME NEW i \in Instances, NEW o \in OpIds, Preempt(i, o)
      PROVE  TInv'
  <2> DEFINE r == [row EXCEPT !.op = "resume", !.opId = o, !.owner = i, !.state = "resuming"]
  <2>1. row \in RowRecord /\ row.target \in Nodes /\ row.node = row.target
    <3>1. row.op # "" /\ row.node = row.target
      BY <1>9 DEF Preempt
    <3>2. QED
      BY <1>0, <3>1, LiveRow DEF TInv, TypeOK, Targeted
  <2>2. r \in RowRecord /\ r.target = row.target
    BY <2>1 DEF RowRecord, ClientStates, OpKinds
  <2>3. /\ row' \in Rows /\ known' \in YesNo /\ looks' \in Looks
        /\ Targeted' /\ LookInv'
    <3>1. Write(r)
      BY <1>9 DEF Preempt
    <3>2. QED
      BY <1>0, <2>1, <2>2, <3>1, WriteType
  <2>4. booking' \in Places
    <3>1. booking' = SyncBooking(r, row.node) /\ row.node \in Places
      BY <1>9, <2>1 DEF Preempt, Places
    <3>2. QED
      BY <2>2, <3>1, SyncBookingType
  <2> HIDE DEF r
  <2>5. /\ NewHandle(i, "resume", row.node, [row EXCEPT !.state = "paused"], "yes", {}) \in Handle
        /\ NewHandle(i, "resume", row.node, [row EXCEPT !.state = "paused"], "yes", {}).taken = "yes"
    <3>1. /\ [row EXCEPT !.state = "paused"] \in KeptRow /\ "yes" \in YesNo /\ {} \in SUBSET Nodes
          /\ "resume" \in OpKinds /\ row.node \in Nodes
      BY <2>1, KeptRowType DEF YesNo, OpKinds, ClientStates
    <3>2. QED
      BY <3>1, NewHandleType
  <2>6. handles' \in [OpIds -> Handle \cup {NoHandle}] /\ reg' \in [Instances -> OpIds \cup {None}]
    BY <1>0, <1>9, <2>5 DEF Preempt, TInv, TypeOK
  <2>7. Kept'
    BY <1>0, <1>9, <2>5 DEF Preempt, TInv, TypeOK, Kept
  <2>8. QED
    BY <1>0, <1>9, <2>3, <2>4, <2>6, <2>7 DEF Preempt, fleet, TInv, TypeOK
<1>10. ASSUME NEW i \in Instances, ReleaseOp(i) \/ ReleaseOverdue(i)
       PROVE  TInv'
  <2>1. row \in RowRecord
    BY <1>0, <1>10, LiveRow DEF ReleaseOp, ReleaseOverdue, Orphaned, TInv, TypeOK
  <2>2. /\ row' \in Rows /\ known' \in YesNo /\ looks' \in Looks /\ booking' \in Places
        /\ Targeted' /\ LookInv'
    BY <1>0, <1>10, <2>1, CommitType, ReleasedType, OpColumns DEF ReleaseOp, ReleaseOverdue
  <2>3. faults' \in 0 .. MaxFaults
    BY <1>0, <1>10, FaultType DEF ReleaseOp, ReleaseOverdue, TInv, TypeOK
  <2>4. QED
    BY <1>0, <1>10, <2>2, <2>3 DEF ReleaseOp, ReleaseOverdue, runners, fleet, TInv, TypeOK, Kept
<1>11. ASSUME NEW i \in Instances, Stop(i)
       PROVE  TInv'
  BY <1>0, <1>11, FaultType DEF Stop, db, fleet, TInv, TypeOK, Targeted, LookInv, Kept, YesNo
<1>12. ASSUME NEW i \in Instances, StopReleases(i)
       PROVE  TInv'
  <2>1. /\ row' \in Rows /\ known' \in YesNo /\ looks' \in Looks
        /\ Targeted' /\ LookInv'
    BY <1>0, <1>12, ReleaseOpsType DEF StopReleases
  <2>2. QED
    BY <1>0, <1>12, <2>1 DEF StopReleases, fleet, TInv, TypeOK, Kept
<1>13. ASSUME NEW i \in Instances, Crash(i) \/ Exit(i)
       PROVE  TInv'
  <2>1. faults' \in 0 .. MaxFaults
    BY <1>0, <1>13, FaultType DEF Crash, Exit, TInv, TypeOK
  <2>2. Dies(i)
    BY <1>13 DEF Crash, Exit
  <2>3. Kept'
    BY <1>0, <2>2 DEF Dies, TInv, TypeOK, Kept, NoHandle
  <2>4. QED
    BY <1>0, <2>1, <2>2, <2>3 DEF Dies, db, fleet, TInv, TypeOK, Targeted, LookInv
<1>14. ASSUME NEW i \in Instances, Expire(i)
       PROVE  TInv'
  <2>1. faults' \in 0 .. MaxFaults
    BY <1>0, <1>14, FaultType DEF Expire, TInv, TypeOK
  <2>2. QED
    BY <1>0, <1>14, <2>1 DEF Expire, db, fleet, TInv, TypeOK, Targeted, LookInv, Kept, YesNo
<1>15. ASSUME NEW i \in Instances, Beat(i)
       PROVE  TInv'
  BY <1>0, <1>15 DEF Beat, db, fleet, TInv, TypeOK, Targeted, LookInv, Kept, YesNo
<1>16. ASSUME NEW i \in Instances, ClaimInstance(i)
       PROVE  TInv'
  <2>1. /\ row' \in Rows /\ known' \in YesNo /\ looks' \in Looks
        /\ Targeted' /\ LookInv'
    BY <1>0, <1>16, ReleaseOpsType DEF ClaimInstance
  <2>2. QED
    BY <1>0, <1>16, <2>1 DEF ClaimInstance, fleet, TInv, TypeOK, Kept, YesNo
<1>17. ASSUME NEW o \in OpIds, Send(o)
       PROVE  TInv'
  <2> DEFINE h == handles[o]
             g == [NoHandle EXCEPT !.step = "sent", !.inst = h.inst, !.kind = h.kind,
                                   !.inc = h.inc, !.target = h.target]
             c == [kind |-> h.kind, node |-> h.target, inc |-> h.inc, ckpt |-> h.ckpt, op |-> o]
  <2>1. h \in Handle
    BY <1>0, <1>17, HandleThere DEF Send
  <2>2. g \in Handle /\ g.step = "sent"
    BY <2>1, SentType
  <2>3. c \in Call
    BY <2>1 DEF Handle, Call
  <2>4. handles' = [handles EXCEPT ![o] = g] /\ calls' = calls \cup {c}
    BY <1>17 DEF Send
  <2> HIDE DEF h, g, c
  <2>5. handles' \in [OpIds -> Handle \cup {NoHandle}] /\ Kept'
    BY <1>0, <2>2, <2>4 DEF TInv, TypeOK, Kept
  <2>6. calls' \subseteq Call
    BY <1>0, <2>3, <2>4 DEF TInv, TypeOK
  <2>7. QED
    BY <1>0, <1>17, <2>5, <2>6 DEF Send, db, TInv, TypeOK, Targeted, LookInv
<1>18. ASSUME NEW o \in OpIds, Observe(o)
       PROVE  TInv'
  <2>1. handles[o] \in Handle
    BY <1>0, <1>18, HandleThere DEF Observe
  <2>2. PICK obs \in {pods[handles[o].target], Unanswered} :
          handles' = [handles EXCEPT ![o] = [handles[o] EXCEPT !.step = "done", !.obs = obs]]
    BY <1>18 DEF Observe
  <2>3. obs \in Answer
    BY ZenonT(60), <1>0, <2>1, <2>2 DEF Handle, Answer, TInv, TypeOK
  <2>4. /\ [handles[o] EXCEPT !.step = "done", !.obs = obs] \in Handle
        /\ [handles[o] EXCEPT !.step = "done", !.obs = obs].step = "done"
    BY <2>1, <2>3, ObservedHandleType
  <2>5. handles' \in [OpIds -> Handle \cup {NoHandle}] /\ Kept'
    BY <1>0, <2>2, <2>4 DEF TInv, TypeOK, Kept
  <2>6. QED
    BY <1>0, <1>18, <2>5 DEF Observe, db, fleet, TInv, TypeOK, Targeted, LookInv
<1>19. ASSUME NEW o \in OpIds, Ends(o)
       PROVE  /\ handles' \in [OpIds -> Handle \cup {NoHandle}] /\ Kept'
              /\ reg' \in [Instances -> OpIds \cup {None}]
  <2>1. NoHandle.step # "begun"
    BY DEF NoHandle
  <2>2. QED
    BY <1>0, <1>19, <2>1 DEF Ends, TInv, TypeOK, Kept
<1>20. ASSUME NEW o \in OpIds, FinishTx(o)
       PROVE  /\ row' \in Rows /\ known' \in YesNo /\ looks' \in Looks /\ booking' \in Places
              /\ tombs' \subseteq [node : Nodes, inc : Incs]
              /\ Targeted' /\ LookInv'
  BY <1>0, <1>20, FinishTxType
<1>21. ASSUME NEW o \in OpIds, Finish(o)
       PROVE  TInv'
  BY <1>0, <1>19, <1>20, <1>21 DEF Finish, FinishTx, fleet, TInv, TypeOK
<1>22. ASSUME NEW o \in OpIds, FinishLost(o)
       PROVE  TInv'
  BY <1>0, <1>20, <1>22, FaultType DEF FinishLost, FinishTx, fleet, TInv, TypeOK, Kept
<1>23. ASSUME NEW o \in OpIds, Rollback(o)
       PROVE  TInv'
  <2>1. /\ row' \in Rows /\ known' \in YesNo /\ looks' \in Looks /\ booking' \in Places
        /\ tombs' \subseteq [node : Nodes, inc : Incs]
        /\ Targeted' /\ LookInv'
    <3>1. CASE FencedOut(o)
      BY <1>0, <1>23, <3>1 DEF Rollback, TInv, TypeOK, Targeted, LookInv
    <3>2. CASE ~FencedOut(o)
      <4>1. row \in RowRecord /\ handles[o] \in Handle
        BY <1>0, <1>23, <3>2, LiveRow, HandleThere DEF Rollback, FencedOut, TInv, TypeOK
      <4>2. RolledBack(handles[o]) \in RowRecord /\ RolledBack(handles[o]).op = ""
        <5>1. handles[o].taken # "yes" => handles[o].state \in ClientStates
          BY <1>0, <1>23, <4>1 DEF Rollback, TInv, Kept, Handle, YesNo
        <5>2. QED
          BY <4>1, <5>1, RolledBackType
      <4>3. /\ tombs' \subseteq [node : Nodes, inc : Incs]
            /\ Commit(RolledBack(handles[o]))
        BY <1>0, <1>23, <3>2 DEF Rollback, TInv, TypeOK
      <4>4. QED
        BY <1>0, <4>2, <4>3, CommitType
    <3>3. QED
      BY <3>1, <3>2
  <2>2. Ends(o)
    BY <1>23 DEF Rollback
  <2>3. QED
    BY <1>0, <1>19, <1>23, <2>1, <2>2 DEF Rollback, fleet, TInv, TypeOK
<1>24. ASSUME NEW c \in calls, Serve(c)
       PROVE  TInv'
  <2>1. c \in Call /\ c.node \in Nodes /\ c.op \in OpIds /\ pods[c.node] \in PodRecord \cup {NoPod}
    BY <1>0 DEF TInv, TypeOK, Call
  <2>2. PICK p \in Served(c, pods[c.node]), heard \in YesNo :
          /\ pods' = [pods EXCEPT ![c.node] = p]
          /\ handles' = IF /\ c.kind = "hibernate" /\ heard = "yes" /\ p.st = "HIBERNATED"
                           /\ handles[c.op].step = "sent"
                        THEN [handles EXCEPT ![c.op].answer = p.ep]
                        ELSE handles
    BY <1>24 DEF Serve
  <2>3. p \in PodRecord \cup {NoPod}
    BY <2>1, ServedType
  <2>4. pods' \in [Nodes -> PodRecord \cup {NoPod}]
    BY <1>0, <2>1, <2>2, <2>3 DEF TInv, TypeOK
  <2>5. handles' \in [OpIds -> Handle \cup {NoHandle}] /\ Kept'
    <3>1. CASE handles' = handles
      BY <1>0, <3>1 DEF TInv, TypeOK, Kept
    <3>2. CASE handles' # handles
      <4>1. handles[c.op].step = "sent" /\ handles' = [handles EXCEPT ![c.op].answer = p.ep]
        BY <2>2, <3>2
      <4>2. handles[c.op] \in Handle
        BY <1>0, <2>1, <4>1, HandleThere
      <4>3. p.ep \in Epochs
        BY <2>3, ZeroEpoch DEF PodRecord, NoPod
      <4>4. /\ [handles[c.op] EXCEPT !.answer = p.ep] \in Handle
            /\ [handles[c.op] EXCEPT !.answer = p.ep].step = "sent"
        BY <4>1, <4>2, <4>3, AnsweredHandleType
      <4>5. handles' = [handles EXCEPT ![c.op] = [handles[c.op] EXCEPT !.answer = p.ep]]
        BY <1>0, <2>1, <4>1 DEF TInv, TypeOK
      <4>6. QED
        BY <1>0, <2>1, <4>4, <4>5 DEF TInv, TypeOK, Kept
    <3>3. QED
      BY <3>1, <3>2
  <2>6. calls' \subseteq Call
    BY <1>0, <1>24 DEF Serve, TInv, TypeOK
  <2>7. QED
    BY <1>0, <1>24, <2>4, <2>5, <2>6 DEF Serve, db, TInv, TypeOK, Targeted, LookInv
<1>25. ASSUME NEW c \in calls, Lose(c)
       PROVE  TInv'
  BY <1>0, <1>25 DEF Lose, db, runners, TInv, TypeOK, Targeted, LookInv, Kept
<1>26. ASSUME NEW n \in Nodes, BringUp(n) \/ PodStops(n)
       PROVE  TInv'
  <2>1. PICK st \in PodStates : pods' = [pods EXCEPT ![n].st = st] /\ pods[n].st \in PodStates
    BY <1>26 DEF BringUp, PodStops, PodStates
  <2>2. pods[n] \in PodRecord
    BY <1>0, <2>1, FoundType DEF TInv, TypeOK, Answer, Found
  <2>3. [pods[n] EXCEPT !.st = st] \in PodRecord
    BY <2>2 DEF PodRecord
  <2>4. pods' \in [Nodes -> PodRecord \cup {NoPod}]
    BY <1>0, <2>1, <2>3 DEF TInv, TypeOK
  <2>5. QED
    BY <1>0, <1>26, <2>4 DEF BringUp, PodStops, db, runners, TInv, TypeOK, Targeted, LookInv, Kept
<1>27. ASSUME NEW n \in Nodes, PodVanishes(n)
       PROVE  TInv'
  BY <1>0, <1>27, FaultType DEF PodVanishes, db, runners, TInv, TypeOK, Targeted, LookInv, Kept
<1>28. ASSUME NEW n \in Nodes, NodeDown(n)
       PROVE  TInv'
  BY <1>0, <1>28, FaultType DEF NodeDown, db, runners, TInv, TypeOK, Targeted, LookInv, Kept
<1>29. ASSUME NEW n \in Nodes, NodeUp(n)
       PROVE  TInv'
  BY <1>0, <1>29 DEF NodeUp, db, runners, TInv, TypeOK, Targeted, LookInv, Kept
<1>30. ASSUME NEW l \in Lookers, SyncRead(l)
       PROVE  TInv'
  <2> DEFINE k == [mode |-> "sync", node |-> row.node, pod |-> pods[row.node], same |-> "yes"]
  <2>1. row.op = "" /\ row.node \in Nodes
    <3>1. row \in RowRecord /\ row.op = "" /\ row.node # None
      BY <1>0, <1>30, LiveRow DEF SyncRead, TInv, TypeOK
    <3>2. QED
      BY <3>1 DEF RowRecord, Places
  <2>2. k \in Look
    BY <1>0, <2>1 DEF Look, YesNo, TInv, TypeOK
  <2>3. looks' = [looks EXCEPT ![l] = k] /\ UNCHANGED <<db, runners, fleet, reaps, faults>>
    BY <1>30 DEF SyncRead
  <2>4. LookInv'
    BY <1>0, <2>1, <2>3 DEF LookInv, TInv, TypeOK, db
  <2> HIDE DEF k
  <2>5. QED
    BY <1>0, <2>2, <2>3, <2>4 DEF db, runners, fleet, TInv, TypeOK, Targeted, Kept
<1>31. ASSUME NEW l \in Lookers, NEW n \in Nodes, ListPods(l, n)
       PROVE  TInv'
  <2> DEFINE k == [mode |-> "list", node |-> n, pod |-> pods[n],
                   same |-> IF row.node = n THEN "yes" ELSE "no"]
  <2>1. k \in Look
    BY <1>0 DEF Look, YesNo, TInv, TypeOK
  <2>2. looks' = [looks EXCEPT ![l] = k] /\ UNCHANGED <<db, runners, fleet, reaps, faults>>
    BY <1>31 DEF ListPods
  <2>3. LookInv'
    BY <1>0, <2>2 DEF LookInv, TInv, TypeOK, db
  <2> HIDE DEF k
  <2>4. QED
    BY <1>0, <2>1, <2>2, <2>3 DEF db, runners, fleet, TInv, TypeOK, Targeted, Kept
<1>32. ASSUME NEW l \in Lookers, SyncApply(l)
       PROVE  TInv'
  <2>1. looks[l].mode = "sync" /\ Apply(l)
    BY <1>32 DEF SyncApply
  <2>2. /\ row' \in Rows /\ known' \in YesNo /\ looks' \in Looks /\ booking' \in Places
        /\ tombs' \subseteq [node : Nodes, inc : Incs]
        /\ Targeted' /\ LookInv'
    BY <1>0, <2>1, ApplyType
  <2>3. QED
    BY <1>0, <1>32, <2>2 DEF SyncApply, runners, fleet, TInv, TypeOK, Kept
<1>33. ASSUME NEW l \in Lookers, ReconcileApply(l)
       PROVE  TInv'
  <2> DEFINE k == looks[l]
  <2>1. looks' = [looks EXCEPT ![l] = NoLook] => looks' \in Looks
    BY <1>0 DEF TInv, TypeOK
  <2>2. looks' = [looks EXCEPT ![l] = NoLook] /\ UNCHANGED row => LookInv'
    <3>1. NoLook.mode # "sync" /\ NoLook.same # "yes"
      BY DEF NoLook
    <3>2. QED
      BY <1>0, <3>1 DEF TInv, TypeOK, LookInv
  <2>3. /\ row' \in Rows /\ known' \in YesNo /\ looks' \in Looks /\ booking' \in Places
        /\ tombs' \subseteq [node : Nodes, inc : Incs]
        /\ Targeted' /\ LookInv'
    <3>1. CASE Orphan(k)
      <4>1. [node |-> k.node, inc |-> k.pod.inc] \in [node : Nodes, inc : Incs]
        <5>1. k \in Look
          BY <1>0, <1>33, LookThere DEF ReconcileApply
        <5>2. k.node \in Nodes /\ k.pod \in Answer
          BY <5>1 DEF Look, Answer
        <5>3. k.pod \in PodRecord
          BY <3>1, <5>2, FoundType DEF Orphan
        <5>4. QED
          BY <5>2, <5>3 DEF PodRecord
      <4>2. /\ tombs' = tombs \cup {[node |-> k.node, inc |-> k.pod.inc]}
            /\ looks' = [looks EXCEPT ![l] = NoLook]
            /\ UNCHANGED <<row, known, booking>>
        BY <1>33, <3>1 DEF ReconcileApply
      <4>3. QED
        BY <1>0, <2>1, <2>2, <4>1, <4>2 DEF TInv, TypeOK, Targeted
    <3>2. CASE ~Orphan(k) /\ k.same = "yes" /\ row.op = ""
      <4>1. Apply(l)
        BY <1>33, <3>2 DEF ReconcileApply
      <4>2. QED
        BY <1>0, <3>2, <4>1, ApplyType
    <3>3. CASE ~Orphan(k) /\ ~(k.same = "yes" /\ row.op = "")
      <4>1. Abandon(l)
        BY <1>33, <3>3 DEF ReconcileApply
      <4>2. QED
        BY <1>0, <2>1, <2>2, <4>1 DEF Abandon, TInv, TypeOK, Targeted
    <3>4. QED
      BY <3>1, <3>2, <3>3
  <2>4. QED
    BY <1>0, <1>33, <2>3 DEF ReconcileApply, runners, fleet, TInv, TypeOK, Kept
<1>34. ASSUME NEW d \in Reapers, NEW t \in tombs, ReapGet(d, t)
       PROVE  TInv'
  <2>1. t.node \in Nodes /\ t.inc \in Incs
    BY <1>0 DEF TInv, TypeOK
  <2>2. [step |-> IF Ours(pods[t.node], t.inc) THEN "delete" ELSE "drop", node |-> t.node, inc |-> t.inc]
           \in Reap
    BY <2>1 DEF Reap
  <2>3. QED
    BY <1>0, <1>34, <2>2 DEF ReapGet, db, runners, fleet, TInv, TypeOK, Targeted, LookInv, Kept
<1>35. ASSUME NEW d \in Reapers, ReapDelete(d)
       PROVE  TInv'
  <2>1. reaps[d] \in Reap
    <3>1. NoReap.step = ""
      BY DEF NoReap
    <3>2. QED
      BY <1>0, <1>35, <3>1 DEF ReapDelete, TInv, TypeOK
  <2>2. [reaps[d] EXCEPT !.step = "drop"] \in Reap
    BY <2>1 DEF Reap
  <2>3. reaps' \in [Reapers -> Reap \cup {NoReap}]
    BY <1>0, <1>35, <2>2 DEF ReapDelete, TInv, TypeOK
  <2>4. QED
    BY <1>0, <1>35, <2>3 DEF ReapDelete, db, runners, TInv, TypeOK, Targeted, LookInv, Kept
<1>36. ASSUME NEW d \in Reapers, ReapDrop(d)
       PROVE  TInv'
  BY <1>0, <1>36 DEF ReapDrop, runners, fleet, TInv, TypeOK, Targeted, LookInv, Kept
<1>37. ASSUME NEW d \in Reapers, ReapFails(d)
       PROVE  TInv'
  BY <1>0, <1>37 DEF ReapFails, db, runners, fleet, TInv, TypeOK, Targeted, LookInv, Kept
<1>38. QED
  BY <1>0, <1>1, <1>2, <1>3, <1>4, <1>5, <1>6, <1>7, <1>8, <1>9, <1>10, <1>11, <1>12, <1>13,
     <1>14, <1>15, <1>16, <1>17, <1>18, <1>21, <1>22, <1>23, <1>24, <1>25, <1>26, <1>27, <1>28,
     <1>29, <1>30, <1>31, <1>32, <1>33, <1>34, <1>35, <1>36, <1>37 DEF Next

\* The initial state has its types.
LEMMA TypeInit == Init => TInv
<1> SUFFICES ASSUME Init
             PROVE  TInv
  OBVIOUS
<1>1. TypeOK
  BY PodBounds, SandboxConstants DEF Init, TypeOK, Places, YesNo
<1>2. Targeted /\ LookInv /\ Kept
  BY DEF Init, Targeted, LookInv, Kept, NoRow, NoLook, NoHandle
<1>3. QED
  BY <1>1, <1>2 DEF TInv

\* Every variable keeps its type, whatever the instances, nodes and ops.
THEOREM TypeCorrect == Spec => []TypeOK
<1>1. TInv => TypeOK
  BY DEF TInv
<1>2. QED
  BY <1>1, TypeInit, TypeStep, PTL DEF Spec

-----------------------------------------------------------------------------
(* One op at a time *)

\* The op columns after ClearOp and Released, and in a row with another state.
LEMMA OpIdColumns ==
    ASSUME NEW r \in RowRecord
    PROVE  /\ ClearOp(r).opId = None /\ Released(r).opId = None
           /\ NotFound(r).opId = r.opId /\ NotFound(r).owner = r.owner /\ NotFound(r).inc = r.inc
           /\ \A n \in Nodes, p \in PodRecord :
                  /\ Seen(r, n, p).opId = r.opId /\ Seen(r, n, p).owner = r.owner
                  /\ Seen(r, n, p).inc = r.inc
<1>1. ClearOp(r).opId = None
  BY DEF ClearOp, RowRecord
<1>2. Released(r).opId = None
  BY <1>1, ClearOpType DEF Released, RowRecord
<1>3. NotFound(r).opId = r.opId /\ NotFound(r).owner = r.owner /\ NotFound(r).inc = r.inc
  <2>1. CASE r.ckpt > 0
    BY <2>1 DEF NotFound, RowRecord, Epochs
  <2>2. CASE ~(r.ckpt > 0) /\ r.mat = "yes"
    BY <2>2, PodBounds DEF NotFound, RowRecord, Epochs
  <2>3. CASE ~(r.ckpt > 0) /\ r.mat # "yes"
    BY <2>3, PodBounds DEF NotFound, RowRecord, Epochs
  <2>4. QED
    BY <2>1, <2>2, <2>3
<1>4. \A n \in Nodes, p \in PodRecord :
          /\ Seen(r, n, p).opId = r.opId /\ Seen(r, n, p).owner = r.owner
          /\ Seen(r, n, p).inc = r.inc
  BY DEF Seen, RowRecord
<1>5. QED
  BY <1>1, <1>2, <1>3, <1>4

\* The op columns are as they were.
SameOp ==
    /\ row'.opId = row.opId /\ row'.owner = row.owner /\ row'.op = row.op
    /\ row'.target = row.target /\ row'.inc = row.inc

\* Every op in flight is as it was, or has ended.
SameHandles ==
    \A o \in OpIds : handles'[o].step # "none" =>
        /\ handles[o].step # "none"
        /\ handles'[o].inst = handles[o].inst /\ handles'[o].kind = handles[o].kind
        /\ handles'[o].target = handles[o].target /\ handles'[o].inc = handles[o].inc

\* Without an op in the row there is none to match; an op that stays matches.
LEMMA OpKept ==
    ASSUME OpMatchesRow, row'.opId = None \/ (SameOp /\ SameHandles)
    PROVE  OpMatchesRow'
<1>1. CASE row'.opId = None
  BY <1>1, SandboxConstants DEF OpMatchesRow
<1>2. CASE SameOp /\ SameHandles
  BY <1>2 DEF OpMatchesRow, SameOp, SameHandles
<1>3. QED
  BY <1>1, <1>2

\* What a sync or a reconcile saw of a row leaves its op columns alone.
LEMMA ApplyOp ==
    ASSUME TInv, NEW l \in Lookers, Apply(l), looks[l].mode = "sync" \/ looks[l].same = "yes"
    PROVE  /\ row \in RowRecord /\ looks[l].node \in Nodes /\ looks[l].pod \in Answer
           /\ row.node = looks[l].node
           /\ SameOp
<1> DEFINE k == looks[l]
<1>1. k \in Look
  BY LookThere
<1>2. k.node \in Nodes /\ k.pod \in Answer
  BY <1>1 DEF Look, Answer
<1>3. row \in RowRecord /\ row.node = k.node
  <2>1. row.node = k.node
    BY DEF TInv, LookInv
  <2>2. row.node # None
    BY <1>2, <2>1, SandboxConstants
  <2>3. QED
    BY <2>1, <2>2, LiveRow DEF TInv, TypeOK, Rows
<1>4. Ours(k.pod, row.inc) => k.pod \in PodRecord
  BY <1>2, FoundType DEF Ours
<1>5. row' = Observed(row, k.node, k.pod)
  BY DEF Apply, WriteBy
<1>6. SameOp
  BY <1>2, <1>3, <1>4, <1>5, OpColumns, OpIdColumns DEF Observed, SameOp
<1>7. QED
  BY <1>2, <1>3, <1>6

\* The outcome of an op leaves no op in the row.
LEMMA OutcomeOp ==
    ASSUME row \in RowRecord, NEW h \in Handle
    PROVE  Outcome(h).opId = None
<1>1. ClearOp(row) \in RowRecord /\ ClearOp(row).opId = None /\ Released(row).opId = None
  BY ClearOpType, OpIdColumns
<1>2. h.target \in Nodes /\ h.obs \in Answer
  BY DEF Handle
<1>3. CASE h.obs = Unanswered
  BY <1>1, <1>3 DEF Outcome
<1>4. CASE h.obs # Unanswered /\ Ours(h.obs, h.inc)
  <2>1. h.obs \in PodRecord
    BY <1>2, <1>4, FoundType DEF Ours
  <2>2. QED
    BY <1>1, <1>2, <1>4, <2>1, OpIdColumns DEF Outcome
<1>5. CASE h.obs # Unanswered /\ ~Ours(h.obs, h.inc)
  BY <1>1, <1>5, OpIdColumns DEF Outcome
<1>6. QED
  BY <1>3, <1>4, <1>5

\* Nor does a rollback.
LEMMA RolledBackOp ==
    ASSUME row \in RowRecord, NEW h \in Handle
    PROVE  RolledBack(h).opId = None
<1> DEFINE q == ClearOp(row)
<1>1. q \in RowRecord /\ q.opId = None /\ Released(row).opId = None
  BY ClearOpType, OpIdColumns
<1>2. RolledBack(h) = IF h.taken = "yes" THEN Released(row)
                      ELSE [q EXCEPT !.state = h.state, !.node = h.node, !.lost = h.lost, !.mat = h.mat]
  BY DEF RolledBack
<1> HIDE DEF q
<1>3. [q EXCEPT !.state = h.state, !.node = h.node, !.lost = h.lost, !.mat = h.mat].opId = None
  BY <1>1 DEF RowRecord
<1>4. QED
  BY <1>1, <1>2, <1>3

\* An op that was fenced out changes no more than a checkpoint.
LEMMA FencedOp ==
    ASSUME row \in Rows, NEW o \in OpIds, FinishFenced(o)
    PROVE  SameOp
<1> DEFINE h == handles[o]
           ck == MergeCheckpoint(row.ckpt, Newest(h))
<1>1. row' = IF ~Strays(h) /\ ~Gone /\ row.inc = h.inc /\ row.node = h.target
             THEN [row EXCEPT !.ckpt = ck] ELSE row
  BY DEF FinishFenced, Write
<1> HIDE DEF ck
<1>2. CASE row' = row
  BY <1>2 DEF SameOp
<1>3. CASE ~Gone /\ row' = [row EXCEPT !.ckpt = ck]
  <2>1. row \in RowRecord
    BY <1>3, LiveRow
  <2>2. QED
    BY <1>3, <2>1 DEF SameOp, RowRecord
<1>4. QED
  BY <1>1, <1>2, <1>3

\* A node's answer leaves the ops in flight as they are.
LEMMA ServeHandles ==
    ASSUME TInv, NEW c \in calls, Serve(c)
    PROVE  SameHandles
<1>1. c.op \in OpIds /\ handles \in [OpIds -> Handle \cup {NoHandle}]
  BY DEF TInv, TypeOK, Call
<1>2. CASE handles' = handles
  BY <1>2 DEF SameHandles
<1>3. CASE handles' # handles
  <2>1. PICK e : handles' = [handles EXCEPT ![c.op].answer = e] /\ handles[c.op].step = "sent"
    BY <1>3 DEF Serve
  <2>2. handles[c.op] \in Handle
    BY <1>1, <2>1, HandleThere
  <2> DEFINE g == [handles[c.op] EXCEPT !.answer = e]
  <2>3. /\ g.inst = handles[c.op].inst /\ g.kind = handles[c.op].kind
        /\ g.target = handles[c.op].target /\ g.inc = handles[c.op].inc
    BY <2>2 DEF Handle
  <2>4. handles' = [handles EXCEPT ![c.op] = g]
    BY <1>1, <2>1
  <2> HIDE DEF g
  <2>5. QED
    BY <1>1, <2>1, <2>3, <2>4 DEF SameHandles
<1>4. QED
  BY <1>2, <1>3

\* Every step keeps the match of the row's op with the op in flight.
LEMMA OpStep == TInv /\ OpMatchesRow /\ [Next]_vars => OpMatchesRow'
<1> USE DEF Rows, Looks
<1>0. SUFFICES ASSUME TInv, OpMatchesRow, [Next]_vars
               PROVE  OpMatchesRow'
  OBVIOUS
<1>a. row \in Rows /\ handles \in [OpIds -> Handle \cup {NoHandle}]
  BY <1>0 DEF TInv, TypeOK
<1>b. NoHandle.step = "none"
  BY DEF NoHandle
<1>c. ASSUME UNCHANGED row
      PROVE  SameOp
  BY <1>c DEF SameOp
<1>d. ASSUME UNCHANGED handles
      PROVE  SameHandles
  BY <1>d DEF SameHandles
<1>e. ASSUME NEW o \in OpIds, Ends(o)
      PROVE  SameHandles
  BY <1>a, <1>b, <1>e DEF Ends, SameHandles
<1>1. CASE UNCHANGED vars
  BY <1>0, <1>1, <1>c, <1>d, OpKept DEF vars, db, runners
<1>2. CASE CreateSandbox
  BY <1>0, <1>2, OpKept DEF CreateSandbox, Write, NewRow, NoRow
<1>3. CASE Delete
  BY <1>0, <1>3, OpKept DEF Delete, Write, NoRow
<1>4. CASE DownSweep
  <2>1. row \in RowRecord
    BY <1>0, <1>4, LiveRow DEF DownSweep, TInv, TypeOK
  <2>2. SameOp
    BY <1>4, <2>1 DEF DownSweep, Write, SameOp, RowRecord
  <2>3. QED
    BY <1>0, <1>4, <1>d, <2>2, OpKept DEF DownSweep, runners
<1>5. CASE LostGrace
  <2>1. row \in RowRecord
    BY <1>0, <1>5, LiveRow DEF LostGrace, TInv, TypeOK
  <2>2. SameOp
    <3>1. row' = GraceLost(row)
      BY <1>5 DEF LostGrace, Write
    <3>2. CASE row.ckpt > 0
      BY <2>1, <3>1, <3>2 DEF GraceLost, SameOp, RowRecord, Epochs
    <3>3. CASE ~(row.ckpt > 0) /\ row.mat = "yes"
      BY <2>1, <3>1, <3>3, PodBounds DEF GraceLost, SameOp, RowRecord, Epochs
    <3>4. CASE ~(row.ckpt > 0) /\ row.mat # "yes"
      BY <2>1, <3>1, <3>4, PodBounds DEF GraceLost, SameOp, RowRecord, Epochs
    <3>5. QED
      BY <3>2, <3>3, <3>4
  <2>3. QED
    BY <1>0, <1>5, <1>d, <2>2, OpKept DEF LostGrace, runners
<1>6. ASSUME NEW i \in Instances, NEW o \in OpIds, NEW k \in Kinds, NEW n \in Nodes, Begin(i, k, n, o)
      PROVE  OpMatchesRow'
  <2>1. /\ row'.opId = o /\ row'.owner = i /\ row'.op = k /\ row'.target = n
        /\ row'.inc = row.inc
    BY <1>6 DEF Begin, BeginTx, Write, Begun
  <2>2. handles' = [handles EXCEPT ![o] = NewHandle(i, k, n, row, "no", Leaves(k, n))]
    BY <1>6 DEF Begin
  <2>3. handles'[o] = NewHandle(i, k, n, row, "no", Leaves(k, n))
    BY <1>a, <2>2
  <2>4. /\ handles'[o].inst = i /\ handles'[o].kind = k /\ handles'[o].target = n
        /\ handles'[o].inc = row.inc
    BY <2>3 DEF NewHandle
  <2>5. QED
    BY <2>1, <2>4 DEF OpMatchesRow
<1>7. ASSUME NEW i \in Instances, NEW o \in OpIds, NEW k \in Kinds, NEW n \in Nodes, BeginLost(i, k, n, o)
      PROVE  OpMatchesRow'
  <2>1. row'.opId = o
    BY <1>7 DEF BeginLost, BeginTx, Write, Begun
  <2>2. handles' = handles /\ handles[o].step = "none"
    BY <1>7 DEF BeginLost, FreeOps
  <2>3. QED
    BY <2>1, <2>2 DEF OpMatchesRow
<1>8. ASSUME NEW i \in Instances, NEW o \in OpIds, Takeover(i, o)
      PROVE  OpMatchesRow'
  <2>1. row \in RowRecord
    BY <1>0, <1>8, LiveRow DEF Takeover, Orphaned, TInv, TypeOK
  <2>2. /\ row'.opId = o /\ row'.owner = i /\ row'.op = row.op /\ row'.target = row.target
        /\ row'.inc = row.inc
    BY <1>8, <2>1 DEF Takeover, Write, RowRecord
  <2>3. handles'[o] = NewHandle(i, row.op, row.target, [row EXCEPT !.state = row.from], "yes", {})
    BY <1>8, <1>a DEF Takeover
  <2>4. [row EXCEPT !.state = row.from].inc = row.inc
    BY <2>1 DEF RowRecord
  <2>5. /\ handles'[o].inst = i /\ handles'[o].kind = row.op /\ handles'[o].target = row.target
        /\ handles'[o].inc = row.inc
    BY <2>3, <2>4 DEF NewHandle
  <2>6. QED
    BY <2>2, <2>5 DEF OpMatchesRow
<1>9. ASSUME NEW i \in Instances, NEW o \in OpIds, Preempt(i, o)
      PROVE  OpMatchesRow'
  <2>1. row \in RowRecord /\ row.node = row.target
    BY <1>0, <1>9, LiveRow DEF Preempt, TInv, TypeOK
  <2>2. /\ row'.opId = o /\ row'.owner = i /\ row'.op = "resume" /\ row'.target = row.target
        /\ row'.inc = row.inc
    BY <1>9, <2>1 DEF Preempt, Write, RowRecord
  <2>3. handles'[o] = NewHandle(i, "resume", row.node, [row EXCEPT !.state = "paused"], "yes", {})
    BY <1>9, <1>a DEF Preempt
  <2>4. [row EXCEPT !.state = "paused"].inc = row.inc
    BY <2>1 DEF RowRecord
  <2>5. /\ handles'[o].inst = i /\ handles'[o].kind = "resume" /\ handles'[o].target = row.target
        /\ handles'[o].inc = row.inc
    BY <2>1, <2>3, <2>4 DEF NewHandle
  <2>6. QED
    BY <2>2, <2>5 DEF OpMatchesRow
<1>10. ASSUME NEW i \in Instances, ReleaseOp(i) \/ ReleaseOverdue(i)
       PROVE  OpMatchesRow'
  <2>1. row \in RowRecord
    BY <1>0, <1>10, LiveRow DEF ReleaseOp, ReleaseOverdue, Orphaned, TInv, TypeOK
  <2>2. row' = Released(row)
    BY <1>10 DEF ReleaseOp, ReleaseOverdue, Commit, Write
  <2>3. QED
    BY <1>0, <2>1, <2>2, OpIdColumns, OpKept
<1>11. ASSUME NEW i \in Instances, StopReleases(i) \/ ClaimInstance(i)
       PROVE  OpMatchesRow'
  <2>1. ReleaseOpsOf(i) /\ handles' = handles
    BY <1>11 DEF StopReleases, ClaimInstance
  <2>2. CASE row.op # "" /\ row.owner = i
    <3>1. row \in RowRecord /\ row' = Released(row)
      BY <1>a, <2>1, <2>2, LiveRow DEF ReleaseOpsOf, Write
    <3>2. QED
      BY <1>0, <3>1, OpIdColumns, OpKept
  <2>3. CASE ~(row.op # "" /\ row.owner = i)
    BY <1>0, <1>c, <1>d, <2>1, <2>3, OpKept DEF ReleaseOpsOf
  <2>4. QED
    BY <2>2, <2>3
<1>12. ASSUME NEW i \in Instances, Stop(i) \/ Expire(i) \/ Beat(i)
       PROVE  OpMatchesRow'
  BY <1>0, <1>12, <1>c, <1>d, OpKept DEF Stop, Expire, Beat, db
<1>13. ASSUME NEW i \in Instances, Crash(i) \/ Exit(i)
       PROVE  OpMatchesRow'
  <2>1. Dies(i)
    BY <1>13 DEF Crash, Exit
  <2>2. SameHandles
    BY <1>a, <1>b, <2>1 DEF Dies, SameHandles
  <2>3. QED
    BY <1>0, <1>c, <2>1, <2>2, OpKept DEF Dies, db
<1>14. ASSUME NEW o \in OpIds, Send(o)
       PROVE  OpMatchesRow'
  <2> DEFINE h == handles[o]
             g == [NoHandle EXCEPT !.step = "sent", !.inst = h.inst, !.kind = h.kind,
                                   !.inc = h.inc, !.target = h.target]
  <2>1. h.step # "none" /\ handles' = [handles EXCEPT ![o] = g]
    BY <1>14 DEF Send
  <2>2. g.inst = h.inst /\ g.kind = h.kind /\ g.target = h.target /\ g.inc = h.inc
    BY DEF NoHandle
  <2> HIDE DEF g
  <2>3. SameHandles
    BY <1>a, <2>1, <2>2 DEF SameHandles
  <2>4. QED
    BY <1>0, <1>14, <1>c, <2>3, OpKept DEF Send, db
<1>15. ASSUME NEW o \in OpIds, Observe(o)
       PROVE  OpMatchesRow'
  <2> DEFINE h == handles[o]
  <2>1. h \in Handle /\ h.step # "none"
    BY <1>0, <1>15, HandleThere DEF Observe
  <2>2. PICK obs : handles' = [handles EXCEPT ![o] = [h EXCEPT !.step = "done", !.obs = obs]]
    BY <1>15 DEF Observe
  <2> DEFINE g == [h EXCEPT !.step = "done", !.obs = obs]
  <2>3. g.inst = h.inst /\ g.kind = h.kind /\ g.target = h.target /\ g.inc = h.inc
    BY <2>1 DEF Handle
  <2> HIDE DEF g
  <2>4. SameHandles
    BY <1>a, <2>1, <2>2, <2>3 DEF SameHandles, g
  <2>5. QED
    BY <1>0, <1>15, <1>c, <2>4, OpKept DEF Observe, db
<1>16. ASSUME NEW o \in OpIds, Finish(o) \/ FinishLost(o)
       PROVE  OpMatchesRow'
  <2>1. FinishTx(o) /\ SameHandles
    BY <1>16, <1>d, <1>e DEF Finish, FinishLost
  <2>2. handles[o] \in Handle
    BY <1>0, <2>1, HandleThere DEF FinishTx
  <2>3. CASE FinishOurs(o)
    <3>1. row \in RowRecord /\ row' = Outcome(handles[o])
      BY <1>a, <2>3, LiveRow DEF FinishOurs, FencedOut, Commit, Write
    <3>2. Outcome(handles[o]).opId = None
      BY <2>2, <3>1, OutcomeOp
    <3>3. QED
      BY <1>0, <3>1, <3>2, OpKept
  <2>4. CASE FinishFenced(o)
    <3>1. SameOp
      BY <1>a, <2>4, FencedOp
    <3>2. QED
      BY <1>0, <2>1, <3>1, OpKept
  <2>5. QED
    BY <2>1, <2>3, <2>4 DEF FinishTx
<1>17. ASSUME NEW o \in OpIds, Rollback(o)
       PROVE  OpMatchesRow'
  <2>1. SameHandles
    BY <1>17, <1>e DEF Rollback
  <2>2. CASE FencedOut(o)
    BY <1>0, <1>17, <1>c, <2>1, <2>2, OpKept DEF Rollback
  <2>3. CASE ~FencedOut(o)
    <3>1. row \in RowRecord /\ handles[o] \in Handle
      BY <1>0, <1>17, <1>a, <2>3, LiveRow, HandleThere DEF Rollback, FencedOut
    <3>2. row' = RolledBack(handles[o])
      BY <1>17, <2>3 DEF Rollback, Commit, Write
    <3>3. RolledBack(handles[o]).opId = None
      BY <3>1, RolledBackOp
    <3>4. QED
      BY <1>0, <3>2, <3>3, OpKept
  <2>4. QED
    BY <2>2, <2>3
<1>18. ASSUME NEW c \in calls, Serve(c)
       PROVE  OpMatchesRow'
  <2>1. SameHandles
    BY <1>0, <1>18, ServeHandles
  <2>2. QED
    BY <1>0, <1>18, <1>c, <2>1, OpKept DEF Serve, db
<1>19. ASSUME NEW c \in calls, Lose(c)
       PROVE  OpMatchesRow'
  BY <1>0, <1>19, <1>c, <1>d, OpKept DEF Lose, db, runners
<1>20. ASSUME NEW n \in Nodes, BringUp(n) \/ PodStops(n) \/ PodVanishes(n) \/ NodeDown(n) \/ NodeUp(n)
       PROVE  OpMatchesRow'
  BY <1>0, <1>20, <1>c, <1>d, OpKept
     DEF BringUp, PodStops, PodVanishes, NodeDown, NodeUp, db, runners
<1>21. ASSUME NEW l \in Lookers, SyncRead(l) \/ \E n \in Nodes : ListPods(l, n)
       PROVE  OpMatchesRow'
  BY <1>0, <1>21, <1>c, <1>d, OpKept DEF SyncRead, ListPods, db, runners
<1>22. ASSUME NEW l \in Lookers, SyncApply(l)
       PROVE  OpMatchesRow'
  BY <1>0, <1>22, <1>d, ApplyOp, OpKept DEF SyncApply, runners
<1>23. ASSUME NEW l \in Lookers, ReconcileApply(l)
       PROVE  OpMatchesRow'
  <2>1. handles' = handles
    BY <1>23 DEF ReconcileApply, runners
  <2>2. CASE Orphan(looks[l])
    BY <1>0, <1>23, <1>c, <1>d, <2>1, <2>2, OpKept DEF ReconcileApply
  <2>3. CASE ~Orphan(looks[l]) /\ looks[l].same = "yes" /\ row.op = ""
    BY <1>0, <1>23, <1>d, <2>1, <2>3, ApplyOp, OpKept DEF ReconcileApply
  <2>4. CASE ~Orphan(looks[l]) /\ ~(looks[l].same = "yes" /\ row.op = "")
    BY <1>0, <1>23, <1>c, <1>d, <2>1, <2>4, OpKept DEF ReconcileApply, Abandon
  <2>5. QED
    BY <2>2, <2>3, <2>4
<1>24. ASSUME NEW d \in Reapers,
              (\E t \in tombs : ReapGet(d, t)) \/ ReapDelete(d) \/ ReapDrop(d) \/ ReapFails(d)
       PROVE  OpMatchesRow'
  BY <1>0, <1>24, <1>c, <1>d, OpKept DEF ReapGet, ReapDelete, ReapDrop, ReapFails, db, runners
<1>25. QED
  BY <1>0, <1>1, <1>2, <1>3, <1>4, <1>5, <1>6, <1>7, <1>8, <1>9, <1>10, <1>11, <1>12, <1>13,
     <1>14, <1>15, <1>16, <1>17, <1>18, <1>19, <1>20, <1>21, <1>22, <1>23, <1>24 DEF Next

\* An op in flight under the row's op id is the row's op.
THEOREM OneOp == Spec => []OpMatchesRow
<1>1. Init => OpMatchesRow
  <2>1. NoRow.opId = None
    BY DEF NoRow
  <2>2. QED
    BY <2>1, SandboxConstants DEF Init, OpMatchesRow
<1>2. TInv /\ OpMatchesRow /\ [Next]_vars => (TInv /\ OpMatchesRow)'
  BY TypeStep, OpStep
<1>3. QED
  BY <1>1, <1>2, TypeInit, PTL DEF Spec

=============================================================================
