--------------------------- MODULE SandboxSafety ---------------------------
(***************************************************************************)
(* Proofs of the safety invariants of module Sandbox about the sandbox's   *)
(* row, for any constants: transitional states have their ops, content is  *)
(* never made anew, every state has its way out, the booking follows, and  *)
(* no tombstone condemns the pod of the row.  They rest on one another: a  *)
(* rollback, for one, restores a state that must have had its way out.     *)
(***************************************************************************)
EXTENDS SandboxProofs

Rest == {"running", "paused", "stopped"}
Midway == {"pausing", "resuming", "hibernating"}
Placed == Rest \cup Midway \cup {"creating", "lost", "unknown"}

\* TransitionHasOp, and an op's row is at its target.
OpOk(r) ==
    /\ r.op # "" => r.state = Transitional(r.op) /\ r.node = r.target /\ r.node # None
    /\ r.op = "" => r.state \notin Midway

\* NeverRecreated, and what is left of a pod that was seen: the mark of its
\* record on the row's node, or a checkpoint.
SeenOk(r, k) ==
    /\ k = "yes" => r.state # "pending" /\ r.op # "create"
    /\ r.mat = "yes" => k = "yes"
    /\ k = "yes" /\ r.mat # "yes" => r.ckpt > 0
    /\ r.state \in Rest => r.mat = "yes"

\* NoDeadEnd, and what a create and a restore begin from.
WayOk(r) ==
    /\ r.state \in Placed => r.node # None
    /\ r.state = "hibernated" => r.ckpt > 0
    /\ r.state = "pending" => r.node = None
    /\ r.op = "restore" => r.ckpt > 0

\* BookingFollows
BookOk(r, b) ==
    /\ r.state \in MustBook => b = r.node
    /\ r.state \notin MustBook \cup KeepBook => b = None
    /\ b # None => b = r.node

\* NotCondemned
Tomb(n, inc) == [node |-> n, inc |-> inc]
TombOk(r, T) == r.inc # 0 /\ r.node # None => Tomb(r.node, r.inc) \notin T

\* A hibernated pod has a checkpoint.
PodOk(p) == p.st = "HIBERNATED" => p.ep > 0

\* What a handle keeps for a rollback satisfies what the row did, and its
\* rollback takes the tombstone of the node it goes back to.
HandleOk(h) ==
    /\ PodOk(h.obs)
    /\ h.step = "begun" /\ h.kind = "restore" => h.ckpt > 0
    /\ h.step = "begun" /\ h.taken = "no" =>
        /\ h.state \in Rest \cup {"pending", "hibernated"}
        /\ h.kind = "create" <=> h.state = "pending"
        /\ h.kind = "restore" <=> h.state = "hibernated"
        /\ h.state = "pending" => h.node = None /\ h.mat = "no"
        /\ h.state \in Rest => h.node = h.target /\ h.mat = "yes"
        /\ h.node \in {None, h.target} \cup h.tombs

RowOk(r, b, k, T) == OpOk(r) /\ SeenOk(r, k) /\ WayOk(r) /\ BookOk(r, b) /\ TombOk(r, T)

RowInv == RowOk(row, booking, known, tombs)

HandleInv == \A o \in OpIds : HandleOk(handles[o])

\* So have the pods that nodes hold and readers read, and every restore
\* brings one.
PodsOk == \A n \in Nodes : PodOk(pods[n])
LooksOk == \A l \in Lookers : PodOk(looks[l].pod)
CallsOk == \A c \in calls : c.kind = "restore" => c.ckpt > 0

PodInv == PodsOk /\ LooksOk /\ CallsOk

SInv == TInv /\ OpMatchesRow /\ RowInv /\ HandleInv /\ PodInv
-----------------------------------------------------------------------------
(* Rows that are made of other rows *)

\* What Write makes of known for a row of the same incarnation.
Knows(r, k) == IF r.mat = "yes" THEN "yes" ELSE k

\* Epochs are numbers, and none is below zero.
LEMMA EpochNat ==
    ASSUME NEW e \in Epochs
    PROVE  e \in Nat
  BY PodBounds DEF Epochs

LEMMA ZeroLow == ~(0 > 0)
  OBVIOUS

\* No row there is has incarnation 0.
LEMMA IncThere ==
    ASSUME NEW r \in RowRecord
    PROVE  r.inc # 0
<1>1. r.inc \in Incs
  BY DEF RowRecord
<1>2. 0 \notin Incs
  BY PodBounds DEF Incs
<1>3. QED
  BY <1>1, <1>2

\* The columns of the rows that are made of r.
LEMMA Columns ==
    ASSUME NEW r \in RowRecord
    PROVE  /\ ClearOp(r).inc = r.inc /\ ClearOp(r).state = r.state /\ ClearOp(r).node = r.node
           /\ ClearOp(r).mat = r.mat /\ ClearOp(r).ckpt = r.ckpt /\ ClearOp(r).op = ""
           /\ Released(r).inc = r.inc /\ Released(r).state = "unknown" /\ Released(r).node = r.node
           /\ Released(r).mat = r.mat /\ Released(r).ckpt = r.ckpt /\ Released(r).op = ""
<1>1. /\ ClearOp(r).inc = r.inc /\ ClearOp(r).state = r.state /\ ClearOp(r).node = r.node
      /\ ClearOp(r).mat = r.mat /\ ClearOp(r).ckpt = r.ckpt /\ ClearOp(r).op = ""
  BY DEF ClearOp, RowRecord
<1>2. ClearOp(r) \in RowRecord
  BY ClearOpType
<1> DEFINE q == ClearOp(r)
<1>3. Released(r) = [q EXCEPT !.state = "unknown"]
  BY DEF Released
<1> HIDE DEF q
<1>4. /\ Released(r).inc = q.inc /\ Released(r).state = "unknown" /\ Released(r).node = q.node
      /\ Released(r).mat = q.mat /\ Released(r).ckpt = q.ckpt /\ Released(r).op = q.op
  BY <1>2, <1>3 DEF RowRecord, q
<1>5. QED
  BY <1>1, <1>4 DEF q

\* The columns of a row whose pod was seen.
LEMMA SeenColumns ==
    ASSUME NEW r \in RowRecord, NEW n \in Nodes, NEW p \in PodRecord
    PROVE  /\ Seen(r, n, p).inc = r.inc /\ Seen(r, n, p).node = n /\ Seen(r, n, p).mat = "yes"
           /\ Seen(r, n, p).op = r.op
           /\ Seen(r, n, p).ckpt >= r.ckpt /\ (p.ep > 0 => Seen(r, n, p).ckpt > 0)
           /\ Seen(r, n, p).state \in Rest \cup {"creating", "hibernated"}
           /\ Seen(r, n, p).state = "hibernated" => p.st = "HIBERNATED"
<1> DEFINE ck == MergeCheckpoint(r.ckpt, p.ep)
           st == ClientState[p.st]
<1>1. ck >= r.ckpt /\ (p.ep > 0 => ck > 0)
  <2>1. r.ckpt \in Epochs /\ p.ep \in Epochs
    BY DEF RowRecord, PodRecord
  <2>2. r.ckpt \in Nat /\ p.ep \in Nat
    BY <2>1, EpochNat
  <2>3. QED
    BY <2>1, <2>2 DEF MergeCheckpoint
<1>2. /\ st \in Rest \cup {"creating", "hibernated"}
      /\ st = "hibernated" => p.st = "HIBERNATED"
  BY DEF ClientState, PodRecord, PodStates, Rest
<1>3. Seen(r, n, p) = [r EXCEPT !.node = n, !.mat = "yes", !.lost = None, !.ckpt = ck, !.state = st]
  BY DEF Seen
<1> HIDE DEF ck, st
<1>4. QED
  BY <1>1, <1>2, <1>3 DEF RowRecord

\* The columns of a row whose pod was not found.
LEMMA NotFoundColumns ==
    ASSUME NEW r \in RowRecord
    PROVE  /\ NotFound(r).inc = r.inc /\ NotFound(r).op = r.op /\ NotFound(r).ckpt = r.ckpt
           /\ \/ /\ r.ckpt > 0
                 /\ NotFound(r).state = "hibernated" /\ NotFound(r).node = None /\ NotFound(r).mat = "no"
              \/ /\ r.ckpt = 0 /\ r.mat = "yes"
                 /\ NotFound(r).state = "lost" /\ NotFound(r).node = r.node /\ NotFound(r).mat = "yes"
              \/ /\ r.ckpt = 0 /\ r.mat # "yes"
                 /\ NotFound(r).state = "pending" /\ NotFound(r).node = None /\ NotFound(r).mat = "no"
<1>1. r.ckpt \in Nat
  <2>1. r.ckpt \in Epochs
    BY DEF RowRecord
  <2>2. QED
    BY <2>1, EpochNat
<1>2. CASE r.ckpt > 0
  <2>1. NotFound(r) = [r EXCEPT !.state = "hibernated", !.node = None, !.mat = "no"]
    BY <1>2 DEF NotFound
  <2>2. QED
    BY <1>2, <2>1 DEF RowRecord
<1>3. CASE r.ckpt = 0 /\ r.mat = "yes"
  <2>1. NotFound(r) = [r EXCEPT !.state = "lost"]
    BY <1>3, ZeroLow DEF NotFound
  <2>2. QED
    BY <1>3, <2>1 DEF RowRecord
<1>4. CASE r.ckpt = 0 /\ r.mat # "yes"
  <2>1. NotFound(r) = [r EXCEPT !.state = "pending", !.node = None, !.mat = "no"]
    BY <1>4, ZeroLow DEF NotFound
  <2>2. QED
    BY <1>4, <2>1 DEF RowRecord
<1>5. QED
  BY <1>1, <1>2, <1>3, <1>4

\* The booking of a row in a state that must be booked.
LEMMA BookedThere ==
    ASSUME NEW r, NEW b, r.state \in MustBook, r.node # None
    PROVE  SyncBooking(r, b) = r.node
  BY DEF SyncBooking, MustBook, KeepBook

\* A released row is well, whatever its booking.
LEMMA ReleasedOk ==
    ASSUME NEW r \in RowRecord, NEW b, NEW k, NEW T, RowOk(r, b, k, T), r.op # ""
    PROVE  /\ RowOk(Released(r), b, k, T) /\ Knows(Released(r), k) = k
           /\ SyncBooking(Released(r), b) = b
<1> DEFINE q == Released(r)
<1>1. /\ q.inc = r.inc /\ q.state = "unknown" /\ q.node = r.node
      /\ q.mat = r.mat /\ q.ckpt = r.ckpt /\ q.op = ""
  BY Columns
<1> HIDE DEF q
<1>2. SyncBooking(q, b) = b
  BY <1>1 DEF SyncBooking, MustBook, KeepBook
<1>3. OpOk(q) /\ WayOk(q)
  BY <1>1 DEF RowOk, OpOk, WayOk, Midway, Placed
<1>4. SeenOk(q, k) /\ Knows(q, k) = k
  BY <1>1 DEF RowOk, SeenOk, Knows, Rest
<1>5. BookOk(q, b) /\ TombOk(q, T)
  BY <1>1 DEF RowOk, BookOk, TombOk, MustBook, KeepBook
<1>6. QED
  BY <1>2, <1>3, <1>4, <1>5 DEF q, RowOk

\* So is one whose pod was seen where no tombstone is of it.
LEMMA SeenRowOk ==
    ASSUME NEW r \in RowRecord, NEW n \in Nodes, NEW p \in PodRecord, NEW b, NEW k, NEW T
    PROVE  r.op = "" /\ PodOk(p) /\ Tomb(n, r.inc) \notin T =>
               /\ RowOk(Seen(r, n, p), SyncBooking(Seen(r, n, p), b), "yes", T)
               /\ Knows(Seen(r, n, p), k) = "yes"
<1> DEFINE q == Seen(r, n, p)
<1>0. /\ q.inc = r.inc /\ q.node = n /\ q.mat = "yes" /\ q.op = r.op
      /\ p.ep > 0 => q.ckpt > 0
      /\ q.state \in Rest \cup {"creating", "hibernated"}
      /\ q.state = "hibernated" => p.st = "HIBERNATED"
  BY SeenColumns
<1> HIDE DEF q
<1> SUFFICES ASSUME r.op = "", PodOk(p), Tomb(n, r.inc) \notin T
             PROVE  RowOk(q, SyncBooking(q, b), "yes", T) /\ Knows(q, k) = "yes"
  BY DEF q
<1>1. /\ q.inc = r.inc /\ q.node = n /\ q.mat = "yes" /\ q.op = ""
      /\ p.ep > 0 => q.ckpt > 0
      /\ q.state \in Rest \cup {"creating", "hibernated"}
      /\ q.state = "hibernated" => p.st = "HIBERNATED"
  BY <1>0
<1>2. n # None
  BY SandboxConstants
<1>3. q.state = "hibernated" => q.ckpt > 0
  BY <1>1, Zenon DEF PodOk
<1>4. OpOk(q) /\ WayOk(q)
  BY <1>1, <1>2, <1>3 DEF OpOk, WayOk, Midway, Placed, Rest
<1>5. SeenOk(q, "yes") /\ Knows(q, k) = "yes"
  BY <1>1 DEF SeenOk, Knows, Rest
<1>6. BookOk(q, SyncBooking(q, b)) /\ TombOk(q, T)
  BY <1>1, <1>2 DEF BookOk, TombOk, SyncBooking, MustBook, KeepBook, Rest
<1>7. QED
  BY <1>4, <1>5, <1>6 DEF q, RowOk

\* And one whose pod was not found on its node.
LEMMA NotFoundOk ==
    ASSUME NEW r \in RowRecord, NEW b, NEW k, NEW T,
           r.op = "", r.node # None, TombOk(r, T),
           r.mat = "yes" => k = "yes", k = "yes" /\ r.mat # "yes" => r.ckpt > 0
    PROVE  RowOk(NotFound(r), SyncBooking(NotFound(r), b), Knows(NotFound(r), k), T)
<1> DEFINE q == NotFound(r)
<1>1. /\ q.inc = r.inc /\ q.op = "" /\ q.ckpt = r.ckpt
      /\ \/ r.ckpt > 0 /\ q.state = "hibernated" /\ q.node = None /\ q.mat = "no"
         \/ r.ckpt = 0 /\ r.mat = "yes" /\ q.state = "lost" /\ q.node = r.node /\ q.mat = "yes"
         \/ r.ckpt = 0 /\ r.mat # "yes" /\ q.state = "pending" /\ q.node = None /\ q.mat = "no"
  BY NotFoundColumns
<1> HIDE DEF q
<1>2. OpOk(q) /\ WayOk(q)
  BY <1>1 DEF OpOk, WayOk, Midway, Placed, Rest
<1>3. SeenOk(q, Knows(q, k))
  BY <1>1, ZeroLow DEF SeenOk, Knows, Rest
<1>4. BookOk(q, SyncBooking(q, b)) /\ TombOk(q, T)
  BY <1>1 DEF BookOk, TombOk, SyncBooking, MustBook, KeepBook
<1>5. QED
  BY <1>2, <1>3, <1>4 DEF q, RowOk

\* The columns of a row whose node was lost.
LEMMA GraceColumns ==
    ASSUME NEW r \in RowRecord
    PROVE  /\ GraceLost(r).inc = r.inc /\ GraceLost(r).op = r.op /\ GraceLost(r).ckpt = r.ckpt
           /\ GraceLost(r).mat = r.mat
           /\ \/ r.ckpt > 0 /\ GraceLost(r).state = "hibernated" /\ GraceLost(r).node = r.node
              \/ r.ckpt = 0 /\ r.mat = "yes" /\ GraceLost(r).state = "lost" /\ GraceLost(r).node = r.node
              \/ r.ckpt = 0 /\ r.mat # "yes" /\ GraceLost(r).state = "pending" /\ GraceLost(r).node = None
<1>1. r.ckpt \in Nat
  <2>1. r.ckpt \in Epochs
    BY DEF RowRecord
  <2>2. QED
    BY <2>1, EpochNat
<1> DEFINE nd == r.node
<1>2. CASE r.ckpt > 0
  <2>1. GraceLost(r) = [r EXCEPT !.state = "hibernated", !.lost = nd]
    BY <1>2 DEF GraceLost
  <2> HIDE DEF nd
  <2>2. QED
    BY <1>2, <2>1 DEF RowRecord
<1>3. CASE r.ckpt = 0 /\ r.mat = "yes"
  <2>1. GraceLost(r) = [r EXCEPT !.state = "lost", !.lost = nd]
    BY <1>3, ZeroLow DEF GraceLost
  <2> HIDE DEF nd
  <2>2. QED
    BY <1>3, <2>1 DEF RowRecord
<1>4. CASE r.ckpt = 0 /\ r.mat # "yes"
  <2>1. GraceLost(r) = [r EXCEPT !.state = "pending", !.node = None, !.lost = None]
    BY <1>4, ZeroLow DEF GraceLost
  <2>2. QED
    BY <1>4, <2>1 DEF RowRecord
<1>5. QED
  BY <1>1, <1>2, <1>3, <1>4

\* What lost grace makes of a row is well without a booking.
LEMMA GraceOk ==
    ASSUME NEW r \in RowRecord, NEW b, NEW k, NEW T, RowOk(r, b, k, T), r.op = "", r.node # None
    PROVE  RowOk(GraceLost(r), None, Knows(GraceLost(r), k), T)
<1> DEFINE q == GraceLost(r)
<1>2. /\ q.inc = r.inc /\ q.op = r.op /\ q.ckpt = r.ckpt /\ q.mat = r.mat
      /\ \/ r.ckpt > 0 /\ q.state = "hibernated" /\ q.node = r.node
         \/ r.ckpt = 0 /\ r.mat = "yes" /\ q.state = "lost" /\ q.node = r.node
         \/ r.ckpt = 0 /\ r.mat # "yes" /\ q.state = "pending" /\ q.node = None
  BY GraceColumns
<1> HIDE DEF q
<1>3. OpOk(q) /\ WayOk(q)
  BY <1>2 DEF RowOk, OpOk, WayOk, Midway, Placed, Rest
<1>4. SeenOk(q, Knows(q, k))
  BY <1>2, ZeroLow DEF RowOk, SeenOk, Knows, Rest
<1>5. BookOk(q, None) /\ TombOk(q, T)
  BY <1>2 DEF RowOk, BookOk, TombOk, MustBook, KeepBook
<1>6. QED
  BY <1>3, <1>4, <1>5 DEF q, RowOk

\* What a begin makes of the row is well, with the tombstones it writes: a
\* create or a restore claims a node without tombstones.
LEMMA BegunOk ==
    ASSUME RowInv, row \in RowRecord, row.op = "", NEW T,
           NEW i \in Instances, NEW k \in OpKinds, NEW n \in Nodes, NEW o \in OpIds,
           Precheck(k, n), Admits(k) => Claim(k, n),
           T = tombs \cup {[node |-> m, inc |-> row.inc] : m \in Leaves(k, n)}
    PROVE  /\ Begun(i, k, n, o).inc = row.inc /\ Begun(i, k, n, o).ckpt = row.ckpt
           /\ RowOk(Begun(i, k, n, o), SyncBooking(Begun(i, k, n, o), IF Admits(k) THEN n ELSE booking),
                    Knows(Begun(i, k, n, o), known), T)
<1> DEFINE q == Begun(i, k, n, o)
<1>1. /\ q.inc = row.inc /\ q.state = Transitional(k) /\ q.ckpt = row.ckpt /\ q.op = k /\ q.target = n
      /\ q.node = IF k \in {"create", "restore"} THEN n ELSE row.node
      /\ q.mat = row.mat \/ (k \in {"create", "restore"} /\ q.mat = "no")
  BY DEF Begun
<1> HIDE DEF q
<1>2. n # None
  BY SandboxConstants
<1>3. k \notin {"create", "restore"} => row.node = n /\ row.state \in Rest
  BY DEF Precheck, OpKinds, Rest
<1>4. /\ k = "create" => row.state = "pending"
      /\ k = "restore" => row.ckpt > 0
  BY DEF Precheck
<1>5. q.node = n
  BY <1>1, <1>3
<1>6. OpOk(q) /\ WayOk(q)
  BY <1>1, <1>2, <1>4, <1>5 DEF OpOk, WayOk, OpKinds, Transitional, Placed, Midway, Rest
<1>7. SeenOk(q, Knows(q, known))
  <2>1. SeenOk(row, known)
    BY DEF RowInv, RowOk
  <2>2. Transitional(k) \notin Rest \cup {"pending"}
    BY DEF OpKinds, Transitional, Rest
  <2>3. CASE k = "create"
    BY <1>1, <1>4, <2>1, <2>2, <2>3 DEF SeenOk, Knows
  <2>4. CASE k = "restore"
    BY <1>1, <1>4, <2>1, <2>2, <2>4 DEF SeenOk, Knows
  <2>5. CASE k \notin {"create", "restore"}
    BY <1>1, <1>3, <2>1, <2>2, <2>5 DEF SeenOk, Knows
  <2>6. QED
    BY <2>3, <2>4, <2>5
<1>8. BookOk(q, SyncBooking(q, IF Admits(k) THEN n ELSE booking))
  <2>1. CASE k = "hibernate"
    <3>1. q.state = "hibernating" /\ SyncBooking(q, IF Admits(k) THEN n ELSE booking) = booking
      BY <1>1, <2>1 DEF Transitional, SyncBooking, Admits, MustBook, KeepBook
    <3>2. booking # None => booking = n
      BY <1>3, <2>1 DEF RowInv, RowOk, BookOk
    <3>3. QED
      BY <1>5, <3>1, <3>2 DEF BookOk, MustBook, KeepBook
  <2>2. CASE k # "hibernate"
    <3>1. q.state \in MustBook
      BY <1>1, <2>2 DEF Transitional, MustBook, OpKinds
    <3>2. SyncBooking(q, IF Admits(k) THEN n ELSE booking) = n
      BY <1>2, <1>5, <3>1, BookedThere, Zenon
    <3>3. QED
      BY <1>5, <3>1, <3>2, Zenon DEF BookOk
  <2>3. QED
    BY <2>1, <2>2
<1>9. TombOk(q, T)
  <2>1. Tomb(n, row.inc) \notin tombs
    <3>1. CASE k \in {"create", "restore"}
      <4>1. \A t \in tombs : t.node # n
        BY <3>1 DEF Admits, Claim
      <4>2. QED
        BY <4>1 DEF Tomb
    <3>2. CASE k \notin {"create", "restore"}
      <4>1. row.inc # 0
        BY IncThere
      <4>2. QED
        BY <1>2, <1>3, <3>2, <4>1 DEF RowInv, RowOk, TombOk
    <3>3. QED
      BY <3>1, <3>2
  <2>2. n \notin Leaves(k, n)
    BY DEF Leaves
  <2>3. Tomb(n, row.inc) \notin {[node |-> m, inc |-> row.inc] : m \in Leaves(k, n)}
    BY <2>2 DEF Tomb
  <2>4. QED
    BY <1>1, <1>5, <2>1, <2>3 DEF TombOk
<1>10. QED
  BY <1>1, <1>6, <1>7, <1>8, <1>9 DEF q, RowOk

\* A rollback restores a row that is well: the op in flight is the row's.
LEMMA RolledBackOk ==
    ASSUME RowInv, row \in RowRecord, row.op # "", NEW h \in Handle, HandleOk(h), h.step = "begun",
           row.op = h.kind, row.target = h.target, row.inc = h.inc, NEW T,
           T = tombs \ {[node |-> n, inc |-> h.inc] : n \in h.tombs}
    PROVE  /\ RolledBack(h).inc = row.inc /\ RolledBack(h).ckpt = row.ckpt
           /\ RowOk(RolledBack(h), SyncBooking(RolledBack(h), booking), Knows(RolledBack(h), known), T)
<1> DEFINE q == RolledBack(h)
<1>1. CASE h.taken = "yes"
  <2>1. RolledBack(h) = Released(row)
    BY <1>1 DEF RolledBack
  <2>2. /\ RowOk(Released(row), booking, known, tombs) /\ Knows(Released(row), known) = known
        /\ SyncBooking(Released(row), booking) = booking
    BY ReleasedOk DEF RowInv
  <2>3. RowOk(Released(row), booking, known, T)
    BY <2>2 DEF RowOk, TombOk
  <2>4. Released(row).inc = row.inc /\ Released(row).ckpt = row.ckpt
    BY Columns
  <2>5. QED
    BY <2>1, <2>2, <2>3, <2>4
<1>2. CASE h.taken # "yes"
  <2>1. /\ ClearOp(row) \in RowRecord /\ ClearOp(row).inc = row.inc
        /\ ClearOp(row).ckpt = row.ckpt /\ ClearOp(row).op = ""
    BY ClearOpType, Columns
  <2> DEFINE c == ClearOp(row)
  <2>2. q = [c EXCEPT !.state = h.state, !.node = h.node, !.lost = h.lost, !.mat = h.mat]
    BY <1>2 DEF RolledBack
  <2> HIDE DEF c
  <2>3. /\ q.inc = row.inc /\ q.ckpt = row.ckpt /\ q.op = ""
        /\ q.state = h.state /\ q.node = h.node /\ q.mat = h.mat
    BY <2>1, <2>2 DEF c, RowRecord
  <2> HIDE DEF q
  <2>4. h.taken = "no"
    BY <1>2 DEF Handle, YesNo
  <2>5. /\ h.state \in Rest \cup {"pending", "hibernated"}
        /\ h.kind = "create" <=> h.state = "pending"
        /\ h.kind = "restore" <=> h.state = "hibernated"
        /\ h.state = "pending" => h.node = None /\ h.mat = "no"
        /\ h.state \in Rest => h.node = h.target /\ h.mat = "yes"
        /\ h.node \in {None, h.target} \cup h.tombs
    BY <2>4 DEF HandleOk
  <2>6. row.node = h.target /\ row.node # None /\ row.inc # 0
    <3>1. row.node = h.target /\ row.node # None
      BY DEF RowInv, RowOk, OpOk
    <3>2. QED
      BY <3>1, IncThere
  <2>7. OpOk(q)
    BY <2>3, <2>5 DEF OpOk, Midway, Rest
  <2>8. WayOk(q)
    BY <2>3, <2>5, <2>6 DEF RowInv, RowOk, WayOk, Placed, Midway, Rest
  <2>9. SeenOk(q, Knows(q, known))
    <3>1. SeenOk(row, known) /\ (row.op = "restore" => row.ckpt > 0)
      BY DEF RowInv, RowOk, WayOk
    <3>2. CASE h.state = "pending"
      BY <2>3, <2>5, <3>1, <3>2 DEF SeenOk, Knows, Rest
    <3>3. CASE h.state = "hibernated"
      BY <2>3, <2>5, <3>1, <3>3 DEF SeenOk, Knows, Rest
    <3>4. CASE h.state \in Rest
      BY <2>3, <2>5, <3>4 DEF SeenOk, Knows, Rest
    <3>5. QED
      BY <2>5, <3>2, <3>3, <3>4
  <2>10. BookOk(q, SyncBooking(q, booking))
    BY <2>3, <2>5, <2>6 DEF BookOk, SyncBooking, MustBook, KeepBook, Rest
  <2>11. TombOk(q, T)
    <3>1. CASE h.node = h.target
      BY <2>3, <2>6, <3>1 DEF RowInv, RowOk, TombOk
    <3>2. CASE h.node \in h.tombs
      BY <2>3, <3>2 DEF TombOk, Tomb
    <3>3. CASE h.node = None
      BY <2>3, <3>3 DEF TombOk
    <3>4. QED
      BY <2>5, <3>1, <3>2, <3>3
  <2>12. QED
    BY <2>3, <2>7, <2>8, <2>9, <2>10, <2>11 DEF q, RowOk
<1>3. QED
  BY <1>1, <1>2

-----------------------------------------------------------------------------
(* The row's steps *)

\* What CheckpointKept says of a step.
CkptUp == row'.inc = row.inc => row'.ckpt >= row.ckpt

\* A row's checkpoint is a number.
LEMMA CkptThere ==
    ASSUME NEW r \in Rows
    PROVE  r.ckpt \in Nat /\ r.ckpt >= r.ckpt
<1>1. r.ckpt \in Nat
  <2>1. CASE r = NoRow
    BY <2>1 DEF NoRow
  <2>2. CASE r \in RowRecord
    <3>1. r.ckpt \in Epochs
      BY <2>2 DEF RowRecord
    <3>2. QED
      BY <3>1, EpochNat
  <2>3. QED
    BY <2>1, <2>2 DEF Rows
<1>2. QED
  BY <1>1

\* A write of a row of the same incarnation.
LEMMA WriteKnows ==
    ASSUME NEW r, Write(r), r.inc = row.inc
    PROVE  row' = r /\ known' = Knows(r, known)
  BY DEF Write, Knows

LEMMA RowMoves ==
    ASSUME NEW r, row' = r, known' = Knows(r, known), r.ckpt >= row.ckpt,
           RowOk(r, booking', Knows(r, known), tombs')
    PROVE  RowInv' /\ CkptUp
  BY DEF RowInv, CkptUp

\* The row is left alone, and no tombstone of its pod is written.
LEMMA RowStays ==
    ASSUME RowInv, row \in Rows, UNCHANGED <<row, booking, known>>, TombOk(row, tombs')
    PROVE  RowInv' /\ CkptUp
<1>1. RowInv'
  BY DEF RowInv, RowOk
<1>2. CkptUp
  BY CkptThere DEF CkptUp
<1>3. QED
  BY <1>1, <1>2

\* A tombstone of another node or incarnation condemns no row.
LEMMA TombsAdd ==
    ASSUME NEW r, NEW T, NEW n, NEW inc, TombOk(r, T), r.inc = 0 \/ n # r.node \/ inc # r.inc
    PROVE  TombOk(r, T \cup {[node |-> n, inc |-> inc]})
<1>1. CASE r.inc = 0
  BY <1>1 DEF TombOk
<1>2. CASE n # r.node \/ inc # r.inc
  <2>1. Tomb(r.node, r.inc) # [node |-> n, inc |-> inc]
    BY <1>2 DEF Tomb
  <2>2. QED
    BY <2>1 DEF TombOk
<1>3. QED
  BY <1>1, <1>2

\* The tombstone of a stale record is of another incarnation.
LEMMA TombsStale ==
    ASSUME NEW r, NEW T, NEW n, NEW p, TombOk(r, T)
    PROVE  TombOk(r, T \cup StaleRecord(r, n, p))
<1>1. CASE Stale(p, r.inc)
  <2>1. StaleRecord(r, n, p) = {[node |-> n, inc |-> p.inc]} /\ p.inc # r.inc
    BY <1>1 DEF StaleRecord, Stale
  <2>2. QED
    BY <2>1, TombsAdd
<1>2. CASE ~Stale(p, r.inc)
  BY <1>2 DEF StaleRecord
<1>3. QED
  BY <1>1, <1>2

\* A row with the columns of a row that is well is well.
LEMMA SameColumns ==
    ASSUME NEW r, NEW q, NEW b, NEW k, NEW T, RowOk(r, b, k, T),
           q.inc = r.inc, q.state = r.state, q.node = r.node, q.mat = r.mat, q.op = r.op,
           q.target = r.target, r.ckpt > 0 => q.ckpt > 0
    PROVE  RowOk(q, b, k, T) /\ Knows(q, k) = k
<1>1. OpOk(q) /\ WayOk(q)
  BY DEF RowOk, OpOk, WayOk
<1>2. SeenOk(q, k) /\ Knows(q, k) = k
  BY DEF RowOk, SeenOk, Knows
<1>3. BookOk(q, b) /\ TombOk(q, T)
  BY DEF RowOk, BookOk, TombOk
<1>4. QED
  BY <1>1, <1>2, <1>3 DEF RowOk

\* A begin.
LEMMA BeginRow ==
    ASSUME SInv, NEW i \in Instances, NEW k \in OpKinds, NEW n \in Nodes, NEW o \in OpIds,
           BeginTx(i, k, n, o)
    PROVE  RowInv' /\ CkptUp
<1>1. row \in RowRecord
  BY BeginTxType DEF SInv
<1> DEFINE q == Begun(i, k, n, o)
<1>2. /\ row.op = "" /\ Precheck(k, n) /\ (Admits(k) => Claim(k, n))
      /\ tombs' = tombs \cup {[node |-> m, inc |-> row.inc] : m \in Leaves(k, n)}
      /\ Write(q)
      /\ booking' = SyncBooking(q, IF Admits(k) THEN n ELSE booking)
  BY DEF BeginTx
<1>3. /\ q.inc = row.inc /\ q.ckpt = row.ckpt
      /\ RowOk(q, SyncBooking(q, IF Admits(k) THEN n ELSE booking), Knows(q, known), tombs')
  BY <1>1, <1>2, BegunOk DEF SInv
<1>4. row.ckpt >= row.ckpt
  BY <1>1, CkptThere DEF Rows
<1> HIDE DEF q
<1>5. row' = q /\ known' = Knows(q, known)
  BY <1>2, <1>3, WriteKnows
<1>6. QED
  BY <1>2, <1>3, <1>4, <1>5, RowMoves

\* An op in flight that is not fenced out is the row's op, and no tombstone
\* is of its pod.
LEMMA OpThere ==
    ASSUME SInv, NEW o \in OpIds, handles[o].step # "none", ~FencedOut(o)
    PROVE  /\ row \in RowRecord /\ handles[o] \in Handle
           /\ row.op = handles[o].kind /\ row.target = handles[o].target /\ row.inc = handles[o].inc
           /\ row.op # "" /\ row.node = handles[o].target
           /\ Tomb(handles[o].target, row.inc) \notin tombs
<1>1. row \in RowRecord /\ handles[o] \in Handle
  BY LiveRow, HandleThere DEF SInv, TInv, TypeOK, Rows, FencedOut
<1>2. row.op = handles[o].kind /\ row.target = handles[o].target /\ row.inc = handles[o].inc
  BY DEF SInv, OpMatchesRow, FencedOut
<1>3. row.op # ""
  <2>1. handles[o].kind \in OpKinds
    BY <1>1 DEF Handle
  <2>2. QED
    BY <1>2, <2>1 DEF OpKinds
<1>4. row.node = row.target /\ row.node # None
  BY <1>3 DEF SInv, RowInv, RowOk, OpOk
<1>5. row.inc # 0
  BY <1>1, IncThere
<1>6. Tomb(row.node, row.inc) \notin tombs
  BY <1>4, <1>5 DEF SInv, RowInv, RowOk, TombOk
<1>7. QED
  BY <1>1, <1>2, <1>3, <1>4, <1>6

\* The end of the row's op.
LEMMA OutcomeRow ==
    ASSUME SInv, NEW o \in OpIds, handles[o].step # "none", FinishOurs(o)
    PROVE  RowInv' /\ CkptUp
<1> DEFINE h == handles[o]
           q == Outcome(h)
<1>1. /\ row \in RowRecord /\ h \in Handle
      /\ row.op = h.kind /\ row.target = h.target /\ row.inc = h.inc
      /\ row.op # "" /\ row.node = h.target
      /\ Tomb(h.target, row.inc) \notin tombs
  BY OpThere DEF FinishOurs
<1>2. /\ tombs' = tombs \cup StaleRecord(row, h.target, h.obs)
      /\ Write(q) /\ booking' = SyncBooking(q, booking)
  BY DEF FinishOurs, Commit
<1>3. h.target \in Nodes /\ h.obs \in Answer /\ PodOk(h.obs)
  BY <1>1 DEF Handle, SInv, HandleInv, HandleOk
<1>4. RowOk(row, booking, known, tombs) /\ TombOk(row, tombs')
  BY <1>2, TombsStale DEF SInv, RowInv, RowOk
<1>5. row.ckpt >= row.ckpt
  BY <1>1, CkptThere DEF Rows
<1> DEFINE c == ClearOp(row)
<1>6. /\ c \in RowRecord /\ c.inc = row.inc /\ c.node = row.node /\ c.ckpt = row.ckpt
      /\ c.mat = row.mat /\ c.op = ""
  BY <1>1, ClearOpType, Columns
<1> SUFFICES /\ q.inc = row.inc /\ q.ckpt >= row.ckpt
             /\ RowOk(q, SyncBooking(q, booking), Knows(q, known), tombs')
  <2> HIDE DEF q
  <2>1. SUFFICES ASSUME q.inc = row.inc, q.ckpt >= row.ckpt,
                        RowOk(q, SyncBooking(q, booking), Knows(q, known), tombs')
                 PROVE  RowInv' /\ CkptUp
    BY DEF q
  <2>2. row' = q /\ known' = Knows(q, known)
    BY <1>2, <2>1, WriteKnows
  <2>3. QED
    BY <1>2, <2>1, <2>2, RowMoves
<1>7. CASE h.obs = Unanswered
  <2>1. q = Released(row) /\ StaleRecord(row, h.target, h.obs) = {}
    BY <1>7 DEF Outcome, StaleRecord, Stale, Found, Unanswered, PodStates
  <2>2. RowOk(Released(row), booking, known, tombs) /\ Knows(Released(row), known) = known
        /\ SyncBooking(Released(row), booking) = booking
    BY <1>1, <1>4, ReleasedOk
  <2>3. Released(row).inc = row.inc /\ Released(row).ckpt = row.ckpt
    BY <1>1, Columns
  <2>4. tombs' = tombs
    BY <1>2, <2>1
  <2>5. QED
    BY <1>5, <2>1, <2>2, <2>3, <2>4
<1>8. CASE h.obs # Unanswered /\ Ours(h.obs, h.inc)
  <2>1. h.obs \in PodRecord
    BY <1>3, <1>8, FoundType DEF Ours
  <2>2. q = Seen(c, h.target, h.obs)
    BY <1>8 DEF Outcome
  <2>3. tombs' = tombs
    BY <1>1, <1>2, <1>8 DEF Ours, StaleRecord, Stale
  <2> HIDE DEF c, q, h
  <2>4. q.inc = c.inc /\ q.ckpt >= c.ckpt
    <3>1. h.target \in Nodes /\ c \in RowRecord
      BY <1>3, <1>6
    <3>2. Seen(c, h.target, h.obs).inc = c.inc /\ Seen(c, h.target, h.obs).ckpt >= c.ckpt
      BY SMTT(30), <2>1, <3>1, SeenColumns
    <3>3. QED
      BY <2>2, <3>2, Zenon
  <2>5. /\ RowOk(q, SyncBooking(q, booking), "yes", tombs)
        /\ Knows(q, known) = "yes"
    BY <1>1, <1>3, <1>6, <2>1, <2>2, SeenRowOk
  <2>6. QED
    BY <1>6, <2>3, <2>4, <2>5
<1>9. CASE h.obs # Unanswered /\ ~Ours(h.obs, h.inc)
  <2>1. q = NotFound(c)
    BY <1>9 DEF Outcome
  <2> HIDE DEF c
  <2>2. q.inc = c.inc /\ q.ckpt = c.ckpt
    BY <1>6, <2>1, NotFoundColumns
  <2>3. /\ c.mat = "yes" => known = "yes"
        /\ known = "yes" /\ c.mat # "yes" => c.ckpt > 0
    BY <1>4, <1>6 DEF RowOk, SeenOk
  <2>4. TombOk(c, tombs') /\ c.node # None
    BY <1>1, <1>3, <1>4, <1>6, SandboxConstants DEF TombOk
  <2>5. RowOk(q, SyncBooking(q, booking), Knows(q, known), tombs')
    BY <1>6, <2>1, <2>3, <2>4, NotFoundOk
  <2>6. QED
    BY <1>5, <1>6, <2>2, <2>5
<1>10. QED
  BY <1>7, <1>8, <1>9

\* The end of an op that was fenced out.
LEMMA FencedRow ==
    ASSUME SInv, NEW o \in OpIds, handles[o].step # "none", FinishFenced(o)
    PROVE  RowInv' /\ CkptUp
<1> DEFINE h == handles[o]
<1>1. row \in Rows /\ h \in Handle
  BY HandleThere DEF SInv, TInv, TypeOK, Rows
<1>2. RowOk(row, booking, known, tombs)
  BY DEF SInv, RowInv
<1>3. CASE ~Strays(h) /\ ~Gone /\ row.inc = h.inc /\ row.node = h.target
  <2>1. row \in RowRecord
    BY <1>1, <1>3, LiveRow
  <2> DEFINE ck == MergeCheckpoint(row.ckpt, Newest(h))
             q == [row EXCEPT !.ckpt = ck]
  <2>2. ck >= row.ckpt /\ (row.ckpt > 0 => ck > 0)
    <3>1. row.ckpt \in Epochs /\ Newest(h) \in Epochs
      <4>1. h.answer \in Epochs /\ 0 \in Epochs /\ h.obs \in Answer /\ row.ckpt \in Epochs
        BY <1>1, <2>1, ZeroEpoch DEF Handle, RowRecord
      <4>2. Ours(h.obs, h.inc) => h.obs.ep \in Epochs
        BY <4>1, FoundType DEF Ours, PodRecord
      <4>3. QED
        BY <4>1, <4>2, MergeType DEF Newest
    <3>2. row.ckpt \in Nat /\ Newest(h) \in Nat
      BY <3>1, EpochNat
    <3>3. QED
      BY <3>2 DEF MergeCheckpoint
  <2>3. Write(q) /\ tombs' = tombs /\ booking' = booking
    BY <1>3 DEF FinishFenced
  <2> HIDE DEF ck
  <2>4. /\ q.inc = row.inc /\ q.state = row.state /\ q.node = row.node /\ q.mat = row.mat
        /\ q.op = row.op /\ q.target = row.target /\ q.ckpt = ck
    BY <2>1 DEF RowRecord
  <2> HIDE DEF q
  <2>5. RowOk(q, booking, known, tombs) /\ Knows(q, known) = known
    BY <1>2, <2>2, <2>4, SameColumns
  <2>6. row' = q /\ known' = Knows(q, known)
    BY <2>3, <2>4, WriteKnows
  <2>7. QED
    BY <2>2, <2>3, <2>4, <2>5, <2>6, RowMoves
<1>4. CASE ~(~Strays(h) /\ ~Gone /\ row.inc = h.inc /\ row.node = h.target)
  <2>1. Write(row) /\ booking' = booking
    BY <1>4 DEF FinishFenced
  <2>2. Knows(row, known) = known
    BY <1>2 DEF RowOk, SeenOk, Knows
  <2>3. row' = row /\ known' = known
    BY <2>1, <2>2, WriteKnows
  <2>4. TombOk(row, tombs')
    <3>1. TombOk(row, tombs)
      BY <1>2 DEF RowOk
    <3>2. CASE Strays(h)
      <4>1. tombs' = tombs \cup {[node |-> h.target, inc |-> h.inc]}
        BY <3>2 DEF FinishFenced
      <4>2. row.inc = 0 \/ h.target # row.node \/ h.inc # row.inc
        BY <3>2 DEF Strays, Gone
      <4>3. QED
        BY <3>1, <4>1, <4>2, TombsAdd
    <3>3. CASE ~Strays(h)
      BY <3>1, <3>3 DEF FinishFenced
    <3>4. QED
      BY <3>2, <3>3
  <2>5. QED
    BY <1>1, <2>1, <2>3, <2>4, RowStays DEF SInv
<1>5. QED
  BY <1>3, <1>4

\* A rollback.
LEMMA RollbackRow ==
    ASSUME SInv, NEW o \in OpIds, Rollback(o)
    PROVE  RowInv' /\ CkptUp
<1> DEFINE h == handles[o]
           q == RolledBack(h)
<1>1. h.step = "begun" /\ row \in Rows
  BY DEF Rollback, SInv, TInv, TypeOK, Rows
<1>2. CASE FencedOut(o)
  <2>1. UNCHANGED <<row, known, booking, tombs>>
    BY <1>2 DEF Rollback
  <2>2. TombOk(row, tombs')
    BY <2>1 DEF SInv, RowInv, RowOk
  <2>3. QED
    BY <1>1, <2>1, <2>2, RowStays DEF SInv
<1>3. CASE ~FencedOut(o)
  <2>1. /\ row \in RowRecord /\ h \in Handle
        /\ row.op = h.kind /\ row.target = h.target /\ row.inc = h.inc /\ row.op # ""
    BY <1>1, <1>3, OpThere
  <2>2. /\ tombs' = tombs \ {[node |-> n, inc |-> h.inc] : n \in h.tombs}
        /\ Write(q) /\ booking' = SyncBooking(q, booking)
    BY <1>3 DEF Rollback, Commit
  <2>3. RowInv /\ HandleOk(h)
    BY DEF SInv, HandleInv
  <2>4. /\ q.inc = row.inc /\ q.ckpt = row.ckpt
        /\ RowOk(q, SyncBooking(q, booking), Knows(q, known), tombs')
    BY <1>1, <2>1, <2>2, <2>3, RolledBackOk
  <2>5. row.ckpt >= row.ckpt
    BY <2>1, CkptThere DEF Rows
  <2> HIDE DEF q
  <2>6. row' = q /\ known' = Knows(q, known)
    BY <2>2, <2>4, WriteKnows
  <2>7. QED
    BY <2>2, <2>4, <2>5, <2>6, RowMoves
<1>4. QED
  BY <1>2, <1>3

\* A sync's or a reconcile's write, to a row without an op.
LEMMA ApplyRow ==
    ASSUME SInv, NEW l \in Lookers, Apply(l), row.op = "",
           looks[l].mode = "sync" \/ looks[l].same = "yes"
    PROVE  RowInv' /\ CkptUp
<1> DEFINE k == looks[l]
           q == Observed(row, k.node, k.pod)
<1>1. row \in RowRecord /\ k.node \in Nodes /\ k.pod \in Answer /\ row.node = k.node
  BY ApplyOp DEF SInv
<1>2. /\ row' = q /\ known' = Knows(q, known) /\ booking' = SyncBooking(q, booking)
      /\ tombs' = (tombs \cup StaleRecord(row, k.node, k.pod))
                      \ {t \in tombs : Ours(k.pod, row.inc) /\ t = [node |-> k.node, inc |-> row.inc]}
  BY DEF Apply, WriteBy, Knows
<1>3. PodOk(k.pod) /\ RowOk(row, booking, known, tombs)
  BY DEF SInv, PodInv, LooksOk, RowInv
<1>4. TombOk(row, tombs')
  <2>1. TombOk(row, tombs \cup StaleRecord(row, k.node, k.pod))
    BY <1>3, TombsStale DEF RowOk
  <2>2. tombs' \subseteq tombs \cup StaleRecord(row, k.node, k.pod)
    BY <1>2
  <2>3. QED
    BY <2>1, <2>2 DEF TombOk
<1>5. row.node # None /\ row.inc # 0 /\ row.ckpt >= row.ckpt
  BY <1>1, SandboxConstants, IncThere, CkptThere DEF Rows
<1>6. Tomb(k.node, row.inc) \notin tombs'
  BY <1>1, <1>4, <1>5 DEF TombOk
<1>7. q.ckpt >= row.ckpt /\ RowOk(q, SyncBooking(q, booking), Knows(q, known), tombs')
  <2>1. CASE Ours(k.pod, row.inc)
    <3>1. k.pod \in PodRecord /\ q = Seen(row, k.node, k.pod)
      BY <1>1, <2>1, FoundType DEF Ours, Observed
    <3> HIDE DEF k, q
    <3>2. k.node \in Nodes /\ row \in RowRecord /\ k.pod \in PodRecord
      BY <1>1, <3>1
    <3>3. Seen(row, k.node, k.pod).ckpt >= row.ckpt
      BY <3>2, SeenColumns, Zenon
    <3>4. /\ RowOk(q, SyncBooking(q, booking), "yes", tombs')
          /\ Knows(q, known) = "yes"
      BY <1>3, <1>6, <3>1, <3>2, SeenRowOk
    <3>5. QED
      BY <3>1, <3>3, <3>4, Zenon
  <2>2. CASE ~Ours(k.pod, row.inc)
    <3>1. q = NotFound(row)
      BY <2>2 DEF Observed
    <3>2. /\ row.mat = "yes" => known = "yes"
          /\ known = "yes" /\ row.mat # "yes" => row.ckpt > 0
      BY <1>3 DEF RowOk, SeenOk
    <3>3. NotFound(row).ckpt = row.ckpt
      BY <1>1, NotFoundColumns, Zenon
    <3>4. RowOk(NotFound(row), SyncBooking(NotFound(row), booking), Knows(NotFound(row), known), tombs')
      BY <1>1, <1>4, <1>5, <3>2, NotFoundOk
    <3>5. QED
      BY <1>5, <3>1, <3>3, <3>4
  <2>3. QED
    BY <2>1, <2>2
<1> HIDE DEF q
<1>8. QED
  BY <1>2, <1>7, RowMoves

\* Creates and deletes, and what the leader's loops do to a row without an op.
LEMMA RowsRow ==
    ASSUME SInv, CreateSandbox \/ Delete \/ DownSweep \/ LostGrace
    PROVE  RowInv' /\ CkptUp
<1>a. row \in Rows /\ RowOk(row, booking, known, tombs)
  BY DEF SInv, TInv, TypeOK, Rows, RowInv
<1>1. CASE CreateSandbox
  <2>1. row = NoRow /\ row.inc = 0
    BY <1>1, <1>a, LiveRow DEF CreateSandbox, Gone
  <2>2. booking = None
    BY <1>a, <2>1 DEF RowOk, BookOk, NoRow, MustBook, KeepBook
  <2>3. incs + 1 # 0
    BY DEF SInv, TInv, TypeOK
  <2> DEFINE q == NewRow(incs + 1)
  <2>4. /\ q.inc # 0 /\ q.state = "pending" /\ q.node = None /\ q.mat = "no" /\ q.ckpt = 0 /\ q.op = ""
    BY <2>3 DEF NewRow, NoRow
  <2> HIDE DEF q
  <2>5. row' = q /\ known' = "no" /\ booking' = None
    BY <1>1, <2>1, <2>2, <2>4 DEF CreateSandbox, Write, q
  <2>6. RowOk(q, None, "no", tombs')
    BY <2>4 DEF RowOk, OpOk, SeenOk, WayOk, BookOk, TombOk, Rest, Midway, Placed, MustBook, KeepBook
  <2>7. QED
    BY <2>1, <2>4, <2>5, <2>6 DEF RowInv, CkptUp
<1>2. CASE Delete
  <2>1. row.inc # 0
    BY <1>2 DEF Delete, Gone
  <2>2. /\ NoRow.inc = 0 /\ NoRow.state = "" /\ NoRow.node = None /\ NoRow.mat = "no"
        /\ NoRow.ckpt = 0 /\ NoRow.op = ""
    BY DEF NoRow
  <2>3. row' = NoRow /\ known' = "no" /\ booking' = None
    BY <1>2, <2>1, <2>2 DEF Delete, Write
  <2>4. RowOk(NoRow, None, "no", tombs')
    BY <2>2 DEF RowOk, OpOk, SeenOk, WayOk, BookOk, TombOk, Rest, Midway, Placed, MustBook, KeepBook
  <2>5. QED
    BY <2>1, <2>2, <2>3, <2>4 DEF RowInv, CkptUp
<1>3. CASE DownSweep
  <2>1. row \in RowRecord /\ row.op = "" /\ row.node # None
    BY <1>3, <1>a, LiveRow DEF DownSweep
  <2> DEFINE q == [row EXCEPT !.state = "unknown"]
  <2>2. /\ q.inc = row.inc /\ q.state = "unknown" /\ q.node = row.node /\ q.mat = row.mat
        /\ q.ckpt = row.ckpt /\ q.op = row.op
    BY <2>1 DEF RowRecord
  <2>3. Write(q) /\ booking' = booking /\ tombs' = tombs
    BY <1>3 DEF DownSweep
  <2>4. row.ckpt >= row.ckpt
    BY <1>a, CkptThere
  <2> HIDE DEF q
  <2>5. Knows(q, known) = known /\ SeenOk(q, known)
    BY <1>a, <2>2 DEF RowOk, SeenOk, Knows, Rest
  <2>6. OpOk(q) /\ WayOk(q)
    BY <1>a, <2>1, <2>2 DEF RowOk, OpOk, WayOk, Midway, Placed
  <2>7. BookOk(q, booking) /\ TombOk(q, tombs)
    BY <1>a, <2>2 DEF RowOk, BookOk, TombOk, MustBook, KeepBook
  <2>8. row' = q /\ known' = Knows(q, known)
    BY <2>2, <2>3, WriteKnows
  <2>9. QED
    BY <2>2, <2>3, <2>4, <2>5, <2>6, <2>7, <2>8, RowMoves DEF RowOk
<1>4. CASE LostGrace
  <2>1. row \in RowRecord /\ row.op = "" /\ row.node # None
    BY <1>4, <1>a, LiveRow DEF LostGrace
  <2> DEFINE q == GraceLost(row)
  <2>2. Write(q) /\ booking' = None /\ tombs' = tombs
    BY <1>4 DEF LostGrace
  <2>3. q.inc = row.inc /\ q.ckpt = row.ckpt
    BY <2>1, GraceColumns
  <2>4. RowOk(q, None, Knows(q, known), tombs)
    BY <1>a, <2>1, GraceOk
  <2>5. row.ckpt >= row.ckpt
    BY <1>a, CkptThere
  <2> HIDE DEF q
  <2>6. row' = q /\ known' = Knows(q, known)
    BY <2>2, <2>3, WriteKnows
  <2>7. QED
    BY <2>2, <2>3, <2>4, <2>5, <2>6, RowMoves
<1>5. QED
  BY <1>1, <1>2, <1>3, <1>4

\* An op that changes hands: it is taken over, or preempted by a resume.
LEMMA HandoverRow ==
    ASSUME SInv, NEW i \in Instances, NEW o \in OpIds, Takeover(i, o) \/ Preempt(i, o)
    PROVE  RowInv' /\ CkptUp
<1>1. row.op # ""
  BY DEF Takeover, Orphaned, Preempt
<1>2. row \in Rows /\ row \in RowRecord /\ RowOk(row, booking, known, tombs)
  BY <1>1, LiveRow DEF SInv, TInv, TypeOK, Rows, RowInv
<1>3. row.ckpt >= row.ckpt
  BY <1>2, CkptThere
<1>4. CASE Takeover(i, o)
  <2> DEFINE q == [row EXCEPT !.opId = o, !.owner = i]
  <2>1. /\ q.inc = row.inc /\ q.state = row.state /\ q.node = row.node /\ q.mat = row.mat
        /\ q.op = row.op /\ q.target = row.target /\ q.ckpt = row.ckpt
    BY <1>2 DEF RowRecord
  <2>2. Write(q) /\ booking' = booking /\ tombs' = tombs
    BY <1>4 DEF Takeover
  <2> HIDE DEF q
  <2>3. RowOk(q, booking, known, tombs) /\ Knows(q, known) = known
    BY <1>2, <2>1, SameColumns
  <2>4. row' = q /\ known' = Knows(q, known)
    BY <2>1, <2>2, WriteKnows
  <2>5. QED
    BY <1>3, <2>1, <2>2, <2>3, <2>4, RowMoves
<1>5. CASE Preempt(i, o)
  <2> DEFINE q == [row EXCEPT !.op = "resume", !.opId = o, !.owner = i, !.state = "resuming"]
  <2>1. /\ q.inc = row.inc /\ q.state = "resuming" /\ q.node = row.node /\ q.mat = row.mat
        /\ q.op = "resume" /\ q.target = row.target /\ q.ckpt = row.ckpt
    BY <1>2 DEF RowRecord
  <2>2. Write(q) /\ booking' = SyncBooking(q, row.node) /\ tombs' = tombs
    BY <1>5 DEF Preempt
  <2>3. row.node # None /\ row.node = row.target
    BY <1>1, <1>2 DEF RowOk, OpOk
  <2> HIDE DEF q
  <2>4. OpOk(q) /\ WayOk(q)
    BY <2>1, <2>3 DEF OpOk, WayOk, Transitional
  <2>5. SeenOk(q, known) /\ Knows(q, known) = known
    BY <1>2, <2>1 DEF RowOk, SeenOk, Knows, Rest
  <2>6. SyncBooking(q, row.node) = row.node
    BY <2>1, <2>3, BookedThere DEF MustBook
  <2>7. BookOk(q, row.node) /\ TombOk(q, tombs)
    BY <1>2, <2>1 DEF RowOk, BookOk, TombOk, MustBook
  <2>8. row' = q /\ known' = Knows(q, known)
    BY <2>1, <2>2, WriteKnows
  <2>9. QED
    BY <1>3, <2>1, <2>2, <2>4, <2>5, <2>6, <2>7, <2>8, RowMoves DEF RowOk
<1>6. QED
  BY <1>4, <1>5

\* An op that is given up on.
LEMMA ReleaseRow ==
    ASSUME SInv, row.op # "", Write(Released(row)),
           booking' = booking \/ booking' = SyncBooking(Released(row), booking), tombs' = tombs
    PROVE  RowInv' /\ CkptUp
<1>1. row \in RowRecord /\ RowOk(row, booking, known, tombs)
  BY LiveRow DEF SInv, TInv, TypeOK, Rows, RowInv
<1>2. row.ckpt >= row.ckpt
  BY <1>1, CkptThere DEF Rows
<1> DEFINE q == Released(row)
<1>3. q.inc = row.inc /\ q.ckpt = row.ckpt
  BY <1>1, Columns
<1>4. RowOk(q, booking, known, tombs) /\ Knows(q, known) = known /\ SyncBooking(q, booking) = booking
  BY <1>1, ReleasedOk
<1> HIDE DEF q
<1>5. row' = q /\ known' = Knows(q, known) /\ booking' = booking
  BY <1>3, <1>4, WriteKnows DEF q
<1>6. QED
  BY <1>2, <1>3, <1>4, <1>5, RowMoves

\* Every step leaves the row well, and takes no checkpoint back.
LEMMA RowStep == SInv /\ [Next]_vars => RowInv' /\ CkptUp
<1>0. SUFFICES ASSUME SInv, [Next]_vars
               PROVE  RowInv' /\ CkptUp
  OBVIOUS
<1>a. row \in Rows /\ TombOk(row, tombs)
  BY <1>0 DEF SInv, TInv, TypeOK, Rows, RowInv, RowOk
<1>b. ASSUME UNCHANGED <<row, booking, known>>, TombOk(row, tombs')
      PROVE  RowInv' /\ CkptUp
  BY <1>0, <1>a, <1>b, RowStays DEF SInv
<1>c. ASSUME UNCHANGED db
      PROVE  RowInv' /\ CkptUp
  BY <1>a, <1>b, <1>c DEF db
<1>1. CASE UNCHANGED vars
  BY <1>1, <1>c DEF vars
<1>2. CASE CreateSandbox \/ Delete \/ DownSweep \/ LostGrace
  BY <1>0, <1>2, RowsRow
<1>3. ASSUME NEW i \in Instances, NEW o \in OpIds, NEW k \in Kinds, NEW n \in Nodes,
             Begin(i, k, n, o) \/ BeginLost(i, k, n, o)
      PROVE  RowInv' /\ CkptUp
  <2>1. k \in OpKinds /\ BeginTx(i, k, n, o)
    BY <1>3, SandboxConstants DEF Begin, BeginLost
  <2>2. QED
    BY <1>0, <2>1, BeginRow
<1>4. ASSUME NEW i \in Instances, NEW o \in OpIds, Takeover(i, o) \/ Preempt(i, o)
      PROVE  RowInv' /\ CkptUp
  BY <1>0, <1>4, HandoverRow
<1>5. ASSUME NEW i \in Instances, ReleaseOp(i) \/ ReleaseOverdue(i)
      PROVE  RowInv' /\ CkptUp
  BY <1>0, <1>5, ReleaseRow DEF ReleaseOp, ReleaseOverdue, Orphaned, Commit
<1>6. ASSUME NEW i \in Instances, StopReleases(i) \/ ClaimInstance(i)
      PROVE  RowInv' /\ CkptUp
  <2>1. ReleaseOpsOf(i) /\ booking' = booking /\ tombs' = tombs
    BY <1>6 DEF StopReleases, ClaimInstance
  <2>2. CASE row.op # "" /\ row.owner = i
    BY <1>0, <2>1, <2>2, ReleaseRow DEF ReleaseOpsOf
  <2>3. CASE ~(row.op # "" /\ row.owner = i)
    BY <1>a, <1>b, <2>1, <2>3 DEF ReleaseOpsOf
  <2>4. QED
    BY <2>2, <2>3
<1>7. ASSUME NEW i \in Instances, Stop(i) \/ Expire(i) \/ Beat(i) \/ Crash(i) \/ Exit(i)
      PROVE  RowInv' /\ CkptUp
  BY <1>7, <1>c DEF Stop, Expire, Beat, Crash, Exit, Dies
<1>8. ASSUME NEW o \in OpIds, Send(o) \/ Observe(o)
      PROVE  RowInv' /\ CkptUp
  BY <1>8, <1>c DEF Send, Observe
<1>9. ASSUME NEW o \in OpIds, Finish(o) \/ FinishLost(o)
      PROVE  RowInv' /\ CkptUp
  <2>1. handles[o].step # "none" /\ (FinishOurs(o) \/ FinishFenced(o))
    BY <1>9 DEF Finish, FinishLost, FinishTx
  <2>2. QED
    BY <1>0, <2>1, OutcomeRow, FencedRow
<1>10. ASSUME NEW o \in OpIds, Rollback(o)
       PROVE  RowInv' /\ CkptUp
  BY <1>0, <1>10, RollbackRow
<1>11. ASSUME NEW c \in calls, Serve(c) \/ Lose(c)
       PROVE  RowInv' /\ CkptUp
  BY <1>11, <1>c DEF Serve, Lose
<1>12. ASSUME NEW n \in Nodes, BringUp(n) \/ PodStops(n) \/ PodVanishes(n) \/ NodeDown(n) \/ NodeUp(n)
       PROVE  RowInv' /\ CkptUp
  BY <1>12, <1>c DEF BringUp, PodStops, PodVanishes, NodeDown, NodeUp
<1>13. ASSUME NEW l \in Lookers, SyncRead(l) \/ \E n \in Nodes : ListPods(l, n)
       PROVE  RowInv' /\ CkptUp
  BY <1>13, <1>c DEF SyncRead, ListPods
<1>14. ASSUME NEW l \in Lookers, SyncApply(l)
       PROVE  RowInv' /\ CkptUp
  <2>1. looks[l].mode = "sync" /\ Apply(l)
    BY <1>14 DEF SyncApply
  <2>2. row.op = ""
    BY <1>0, <2>1 DEF SInv, TInv, LookInv
  <2>3. QED
    BY <1>0, <2>1, <2>2, ApplyRow
<1>15. ASSUME NEW l \in Lookers, ReconcileApply(l)
       PROVE  RowInv' /\ CkptUp
  <2> DEFINE k == looks[l]
  <2>1. CASE Orphan(k)
    <3>1. /\ tombs' = tombs \cup {[node |-> k.node, inc |-> k.pod.inc]}
          /\ UNCHANGED <<row, known, booking>>
      BY <1>15, <2>1 DEF ReconcileApply
    <3>2. row.inc = 0 \/ k.node # row.node \/ k.pod.inc # row.inc
      BY <2>1 DEF Orphan, Gone
    <3>3. TombOk(row, tombs')
      BY <1>a, <3>1, <3>2, TombsAdd
    <3>4. QED
      BY <1>b, <3>1, <3>3
  <2>2. CASE ~Orphan(k) /\ k.same = "yes" /\ row.op = ""
    BY <1>0, <1>15, <2>2, ApplyRow DEF ReconcileApply
  <2>3. CASE ~Orphan(k) /\ ~(k.same = "yes" /\ row.op = "")
    BY <1>15, <1>a, <1>b, <2>3 DEF ReconcileApply, Abandon
  <2>4. QED
    BY <2>1, <2>2, <2>3
<1>16. ASSUME NEW d \in Reapers, (\E t \in tombs : ReapGet(d, t)) \/ ReapDelete(d) \/ ReapFails(d)
       PROVE  RowInv' /\ CkptUp
  BY <1>16, <1>c DEF ReapGet, ReapDelete, ReapFails
<1>17. ASSUME NEW d \in Reapers, ReapDrop(d)
       PROVE  RowInv' /\ CkptUp
  <2>1. tombs' \subseteq tombs /\ UNCHANGED <<row, booking, known>>
    BY <1>17 DEF ReapDrop
  <2>2. TombOk(row, tombs')
    BY <1>a, <2>1 DEF TombOk
  <2>3. QED
    BY <1>b, <2>1, <2>2
<1>18. QED
  BY <1>0, <1>1, <1>2, <1>3, <1>4, <1>5, <1>6, <1>7, <1>8, <1>9, <1>10, <1>11, <1>12, <1>13,
     <1>14, <1>15, <1>16, <1>17 DEF Next

-----------------------------------------------------------------------------
(* The steps of ops, nodes and readers *)

\* What begins with an op, of a row without one.
LEMMA NewHandleOk ==
    ASSUME SInv, row \in RowRecord, NEW i \in Instances, NEW k \in OpKinds, NEW n \in Nodes,
           Precheck(k, n)
    PROVE  HandleOk(NewHandle(i, k, n, row, "no", Leaves(k, n)))
<1> DEFINE g == NewHandle(i, k, n, row, "no", Leaves(k, n))
<1>1. /\ g.kind = k /\ g.target = n /\ g.state = row.state /\ g.node = row.node /\ g.mat = row.mat
      /\ g.tombs = Leaves(k, n) /\ g.ckpt = (IF k = "restore" THEN row.ckpt ELSE 0)
      /\ g.obs = Unanswered
  BY DEF NewHandle
<1>2. PodOk(Unanswered)
  BY DEF PodOk, Unanswered
<1>3. SeenOk(row, known) /\ WayOk(row) /\ TombOk(row, tombs)
  BY DEF SInv, RowInv, RowOk
<1>4. row.mat \in YesNo /\ row.inc # 0
  BY IncThere DEF RowRecord
<1>5. /\ k = "create" <=> row.state = "pending"
      /\ k = "restore" <=> row.state = "hibernated"
      /\ row.state \in Rest \cup {"pending", "hibernated"}
      /\ row.state \in Rest => row.node = n
      /\ k = "restore" => row.ckpt > 0
  BY DEF Precheck, OpKinds, Rest
<1>6. /\ row.state = "pending" => row.node = None /\ row.mat = "no"
      /\ row.state \in Rest => row.mat = "yes"
  BY <1>3, <1>4 DEF SeenOk, WayOk, YesNo
<1>7. row.node \in {None, n} \cup Leaves(k, n)
  <2>1. CASE k = "restore" /\ row.node # None /\ row.node # n
    <3>1. [node |-> row.node, inc |-> row.inc] \notin tombs
      BY <1>3, <1>4, <2>1 DEF TombOk, Tomb
    <3>2. QED
      BY <2>1, <3>1 DEF Leaves
  <2>2. CASE k # "restore"
    BY <1>5, <1>6, <2>2
  <2>3. QED
    BY <2>1, <2>2
<1> HIDE DEF g
<1>8. QED
  BY <1>1, <1>2, <1>5, <1>6, <1>7 DEF HandleOk, g

\* An op that was taken over keeps nothing for a rollback.
LEMMA TakenOk ==
    ASSUME NEW i, NEW k, NEW n, NEW r, k = "restore" => r.ckpt > 0
    PROVE  HandleOk(NewHandle(i, k, n, r, "yes", {}))
<1> DEFINE g == NewHandle(i, k, n, r, "yes", {})
<1>1. /\ g.kind = k /\ g.taken = "yes" /\ g.ckpt = (IF k = "restore" THEN r.ckpt ELSE 0)
      /\ g.obs = Unanswered
  BY DEF NewHandle
<1>2. PodOk(Unanswered)
  BY DEF PodOk, Unanswered
<1> HIDE DEF g
<1>3. QED
  BY <1>1, <1>2 DEF HandleOk, g

\* Past its beginning a handle has an observation at most.
LEMMA PastOk ==
    ASSUME NEW g, g.step # "begun", PodOk(g.obs)
    PROVE  HandleOk(g)
  BY DEF HandleOk

\* Every handle is as it was, or well.
LEMMA HandlesOk ==
    ASSUME HandleInv, \A o \in OpIds : handles'[o] = handles[o] \/ HandleOk(handles'[o])
    PROVE  HandleInv'
  BY DEF HandleInv

\* Every step leaves what the ops in flight keep well.
LEMMA HandleStep == SInv /\ [Next]_vars => HandleInv'
<1>0. SUFFICES ASSUME SInv, [Next]_vars
               PROVE  HandleInv'
  OBVIOUS
<1>a. row \in Rows /\ handles \in [OpIds -> Handle \cup {NoHandle}] /\ HandleInv
  BY <1>0 DEF SInv, TInv, TypeOK, Rows
<1>b. HandleOk(NoHandle)
  <2>1. NoHandle.step # "begun" /\ PodOk(NoHandle.obs)
    BY DEF NoHandle, Unanswered, PodOk
  <2>2. QED
    BY <2>1, PastOk
<1>c. ASSUME UNCHANGED handles
      PROVE  HandleInv'
  BY <1>a, <1>c, HandlesOk
<1>d. ASSUME NEW o \in OpIds, NEW g, handles' = [handles EXCEPT ![o] = g], HandleOk(g)
      PROVE  HandleInv'
  <2>1. handles'[o] = g /\ \A p \in OpIds : p # o => handles'[p] = handles[p]
    BY <1>a, <1>d
  <2>2. QED
    BY <1>a, <1>d, <2>1, HandlesOk
<1>1. CASE UNCHANGED vars
  BY <1>1, <1>c DEF vars, runners
<1>2. CASE CreateSandbox \/ Delete \/ DownSweep \/ LostGrace
  BY <1>2, <1>c DEF CreateSandbox, Delete, DownSweep, LostGrace, runners
<1>3. ASSUME NEW i \in Instances, NEW o \in OpIds, NEW k \in Kinds, NEW n \in Nodes,
             Begin(i, k, n, o)
      PROVE  HandleInv'
  <2>1. k \in OpKinds /\ row \in RowRecord /\ Precheck(k, n)
    BY <1>3, <1>a, SandboxConstants, LiveRow DEF Begin, BeginTx
  <2>2. HandleOk(NewHandle(i, k, n, row, "no", Leaves(k, n)))
    BY <1>0, <2>1, NewHandleOk
  <2>3. QED
    BY <1>3, <1>d, <2>2 DEF Begin
<1>4. ASSUME NEW i \in Instances, NEW o \in OpIds, NEW k \in Kinds, NEW n \in Nodes,
             BeginLost(i, k, n, o)
      PROVE  HandleInv'
  BY <1>4, <1>c DEF BeginLost
<1>5. ASSUME NEW i \in Instances, NEW o \in OpIds, Takeover(i, o)
      PROVE  HandleInv'
  <2>1. row \in RowRecord /\ (row.op = "restore" => row.ckpt > 0)
    BY <1>0, <1>5, <1>a, LiveRow DEF Takeover, Orphaned, SInv, RowInv, RowOk, WayOk
  <2> DEFINE r == [row EXCEPT !.state = row.from]
  <2>2. r.ckpt = row.ckpt
    BY <2>1 DEF RowRecord
  <2>3. handles' = [handles EXCEPT ![o] = NewHandle(i, row.op, row.target, r, "yes", {})]
    BY <1>5 DEF Takeover
  <2> HIDE DEF r
  <2>4. HandleOk(NewHandle(i, row.op, row.target, r, "yes", {}))
    BY <2>1, <2>2, TakenOk
  <2>5. QED
    BY <1>d, <2>3, <2>4
<1>6. ASSUME NEW i \in Instances, NEW o \in OpIds, Preempt(i, o)
      PROVE  HandleInv'
  <2> DEFINE r == [row EXCEPT !.state = "paused"]
  <2>1. handles' = [handles EXCEPT ![o] = NewHandle(i, "resume", row.node, r, "yes", {})]
    BY <1>6 DEF Preempt
  <2> HIDE DEF r
  <2>2. HandleOk(NewHandle(i, "resume", row.node, r, "yes", {}))
    BY TakenOk
  <2>3. QED
    BY <1>d, <2>1, <2>2
<1>7. ASSUME NEW i \in Instances, \/ ReleaseOp(i) \/ ReleaseOverdue(i) \/ Stop(i) \/ StopReleases(i)
                                  \/ Expire(i) \/ Beat(i) \/ ClaimInstance(i)
      PROVE  HandleInv'
  BY <1>7, <1>c DEF ReleaseOp, ReleaseOverdue, Stop, StopReleases, Expire, Beat, ClaimInstance, runners
<1>8. ASSUME NEW i \in Instances, Crash(i) \/ Exit(i)
      PROVE  HandleInv'
  <2>1. handles' = [o \in OpIds |-> IF handles[o].inst = i THEN NoHandle ELSE handles[o]]
    BY <1>8 DEF Crash, Exit, Dies
  <2>2. \A o \in OpIds : handles'[o] = handles[o] \/ HandleOk(handles'[o])
    BY <1>b, <2>1
  <2>3. QED
    BY <1>a, <2>2, HandlesOk
<1>9. ASSUME NEW o \in OpIds, Send(o)
      PROVE  HandleInv'
  <2> DEFINE h == handles[o]
             g == [NoHandle EXCEPT !.step = "sent", !.inst = h.inst, !.kind = h.kind,
                                   !.inc = h.inc, !.target = h.target]
  <2>1. handles' = [handles EXCEPT ![o] = g]
    BY <1>9 DEF Send
  <2>2. g.step # "begun" /\ g.obs = Unanswered /\ PodOk(Unanswered)
    BY DEF NoHandle, PodOk, Unanswered
  <2> HIDE DEF g
  <2>3. HandleOk(g)
    BY <2>2, PastOk
  <2>4. QED
    BY <1>d, <2>1, <2>3
<1>10. ASSUME NEW o \in OpIds, Observe(o)
       PROVE  HandleInv'
  <2> DEFINE h == handles[o]
  <2>1. h \in Handle /\ h.target \in Nodes
    BY <1>0, <1>10, HandleThere DEF Observe, SInv, Handle
  <2>2. PICK obs \in {pods[h.target], Unanswered} :
            handles' = [handles EXCEPT ![o] = [h EXCEPT !.step = "done", !.obs = obs]]
    BY <1>10 DEF Observe
  <2>3. PodOk(obs)
    BY <1>0, <2>1, <2>2 DEF SInv, PodInv, PodsOk, PodOk, Unanswered
  <2> DEFINE g == [h EXCEPT !.step = "done", !.obs = obs]
  <2>4. g.step = "done" /\ g.obs = obs
    BY <2>1 DEF Handle
  <2> HIDE DEF g
  <2>5. HandleOk(g)
    BY <2>3, <2>4, PastOk
  <2>6. QED
    BY <1>d, <2>2, <2>5 DEF g
<1>11. ASSUME NEW o \in OpIds, Finish(o) \/ Rollback(o)
       PROVE  HandleInv'
  BY <1>11, <1>b, <1>d DEF Finish, Rollback, Ends
<1>12. ASSUME NEW o \in OpIds, FinishLost(o)
       PROVE  HandleInv'
  BY <1>12, <1>c DEF FinishLost
<1>13. ASSUME NEW c \in calls, Serve(c)
       PROVE  HandleInv'
  <2>1. CASE handles' = handles
    BY <1>c, <2>1
  <2>2. CASE handles' # handles
    <3>1. c.op \in OpIds
      BY <1>0 DEF SInv, TInv, TypeOK, Call
    <3>2. PICK e : handles' = [handles EXCEPT ![c.op].answer = e] /\ handles[c.op].step = "sent"
      BY <1>13, <2>2 DEF Serve
    <3>3. handles[c.op] \in Handle /\ PodOk(handles[c.op].obs)
      BY <1>0, <3>1, <3>2, HandleThere DEF SInv, HandleInv, HandleOk
    <3> DEFINE g == [handles[c.op] EXCEPT !.answer = e]
    <3>4. g.step = "sent" /\ g.obs = handles[c.op].obs
      BY <3>2, <3>3 DEF Handle
    <3>5. handles' = [handles EXCEPT ![c.op] = g]
      BY <1>a, <3>1, <3>2
    <3> HIDE DEF g
    <3>6. HandleOk(g)
      BY <3>3, <3>4, PastOk
    <3>7. QED
      BY <1>d, <3>1, <3>5, <3>6
  <2>3. QED
    BY <2>1, <2>2
<1>14. ASSUME NEW c \in calls, Lose(c)
       PROVE  HandleInv'
  BY <1>14, <1>c DEF Lose, runners
<1>15. ASSUME NEW n \in Nodes, BringUp(n) \/ PodStops(n) \/ PodVanishes(n) \/ NodeDown(n) \/ NodeUp(n)
       PROVE  HandleInv'
  BY <1>15, <1>c DEF BringUp, PodStops, PodVanishes, NodeDown, NodeUp, runners
<1>16. ASSUME NEW l \in Lookers, \/ SyncRead(l) \/ SyncApply(l) \/ ReconcileApply(l)
                                 \/ \E n \in Nodes : ListPods(l, n)
       PROVE  HandleInv'
  BY <1>16, <1>c DEF SyncRead, SyncApply, ReconcileApply, ListPods, runners
<1>17. ASSUME NEW d \in Reapers,
              (\E t \in tombs : ReapGet(d, t)) \/ ReapDelete(d) \/ ReapDrop(d) \/ ReapFails(d)
       PROVE  HandleInv'
  BY <1>17, <1>c DEF ReapGet, ReapDelete, ReapDrop, ReapFails, runners
<1>18. QED
  BY <1>0, <1>1, <1>2, <1>3, <1>4, <1>5, <1>6, <1>7, <1>8, <1>9, <1>10, <1>11, <1>12, <1>13,
     <1>14, <1>15, <1>16, <1>17 DEF Next

\* A hibernated pod that a call leaves has a checkpoint.
LEMMA ServedOk ==
    ASSUME NEW c \in Call, NEW p \in PodRecord \cup {NoPod}, PodOk(p),
           c.kind = "restore" => c.ckpt > 0
    PROVE  \A q \in Served(c, p) : PodOk(q)
<1>1. c.kind \in OpKinds /\ c.ckpt \in Epochs
  BY DEF Call
<1>2. p.st # "NONE" => p \in PodRecord
  BY DEF NoPod
<1>3. ASSUME p \in PodRecord, NEW st \in PodStates, st # "HIBERNATED"
      PROVE  PodOk([p EXCEPT !.st = st])
  <2>1. [p EXCEPT !.st = st].st = st
    BY <1>3 DEF PodRecord
  <2>2. QED
    BY <1>3, <2>1 DEF PodOk
<1>4. \A q \in CreatePod(p, c.inc) : PodOk(q)
  BY DEF CreatePod, PodOk
<1>5. \A q \in StartPod(p) : PodOk(q)
  BY <1>2, <1>3 DEF StartPod, PodStates
<1>6. \A q \in ResumePod(p) : PodOk(q)
  BY <1>2, <1>3 DEF ResumePod, PodStates
<1>7. \A q \in SuspendPod(p) : PodOk(q)
  BY <1>2, <1>3 DEF SuspendPod, PodStates
<1>8. ASSUME c.ckpt > 0, NEW q \in RestorePod(p, c.inc, c.ckpt)
      PROVE  PodOk(q)
  <2>1. CASE ~Found(p)
    <3>1. RestorePod(p, c.inc, c.ckpt) =
            {[inc |-> c.inc, st |-> st, ep |-> c.ckpt] : st \in {"HIBERNATED", "PENDING"}}
      BY <2>1 DEF RestorePod, Found, PodStates
    <3>2. PICK st \in {"HIBERNATED", "PENDING"} : q = [inc |-> c.inc, st |-> st, ep |-> c.ckpt]
      BY <1>8, <3>1
    <3>3. q.ep = c.ckpt
      BY <3>2
    <3>4. QED
      BY <1>8, <3>3 DEF PodOk
  <2>2. CASE Found(p) /\ p.st = "HIBERNATED"
    <3>1. p \in PodRecord
      BY <1>2, <2>2
    <3>2. q = [p EXCEPT !.st = "PENDING", !.ep = c.ckpt]
      BY <1>8, <2>2 DEF RestorePod
    <3>3. q.st = "PENDING"
      BY <3>1, <3>2 DEF PodRecord
    <3>4. QED
      BY <3>3 DEF PodOk
  <2>3. CASE Found(p) /\ p.st # "HIBERNATED"
    BY <1>8, <2>3 DEF RestorePod
  <2>4. QED
    BY <2>1, <2>2, <2>3
<1>9. ASSUME NEW q \in HibernatePod(p)
      PROVE  PodOk(q)
  <2>1. CASE p.st \in {"RUNNING", "SUSPENDED", "STOPPED"}
    <3>1. p \in PodRecord
      BY <1>2, <2>1
    <3>2. CASE \E e \in NextEpochs(p) : q = [p EXCEPT !.st = "HIBERNATED", !.ep = e]
      <4>1. PICK e \in NextEpochs(p) : q = [p EXCEPT !.st = "HIBERNATED", !.ep = e]
        BY <3>2
      <4>2. q.ep = e
        BY <3>1, <4>1 DEF PodRecord
      <4>3. e \in Epochs /\ p.ep \in Epochs /\ e > p.ep
        BY <3>1, <4>1 DEF NextEpochs, PodRecord
      <4>4. e \in Nat /\ p.ep \in Nat
        BY <4>3, EpochNat
      <4>5. e > 0
        BY <4>3, <4>4
      <4>6. QED
        BY <4>2, <4>5 DEF PodOk
    <3>3. CASE q = IF p.st = "RUNNING" THEN [p EXCEPT !.st = "SUSPENDED"] ELSE p
      BY <1>3, <3>1, <3>3 DEF PodStates
    <3>4. QED
      BY <1>9, <2>1, <3>2, <3>3 DEF HibernatePod
  <2>2. CASE p.st \notin {"RUNNING", "SUSPENDED", "STOPPED"}
    BY <1>9, <2>2 DEF HibernatePod
  <2>3. QED
    BY <2>1, <2>2
<1>10. QED
  BY <1>1, <1>4, <1>5, <1>6, <1>7, <1>8, <1>9 DEF Served, OpKinds

\* A reader that is overtaken has the pod it read, or none.
LEMMA OvertakenOk ==
    ASSUME NEW k \in Look \cup {NoLook}, PodOk(k.pod)
    PROVE  PodOk(Overtaken(k).pod)
<1>1. CASE k.mode = "list" /\ Found(k.pod)
  <2>1. k \in Look
    <3>1. NoLook.mode = ""
      BY DEF NoLook
    <3>2. QED
      BY <1>1, <3>1
  <2>2. [k EXCEPT !.same = "no"].pod = k.pod
    BY <2>1 DEF Look
  <2>3. Overtaken(k) = [k EXCEPT !.same = "no"]
    BY <1>1 DEF Overtaken
  <2>4. QED
    BY <2>2, <2>3
<1>2. CASE ~(k.mode = "list" /\ Found(k.pod))
  BY <1>2 DEF Overtaken, NoLook, NoPod, PodOk
<1>3. QED
  BY <1>1, <1>2

\* So has every reader, past a write.
LEMMA WriteLooks ==
    ASSUME TInv, LooksOk, NEW r, Write(r) \/ \E l \in Lookers : WriteBy(l, r)
    PROVE  LooksOk'
<1>1. \A l \in Lookers : looks[l] \in Look \cup {NoLook} /\ PodOk(looks[l].pod)
  BY DEF TInv, TypeOK, LooksOk
<1>2. \A l \in Lookers : PodOk(Overtaken(looks[l]).pod)
  BY <1>1, OvertakenOk
<1>3. PodOk(NoLook.pod)
  BY DEF NoLook, NoPod, PodOk
<1>4. \A l \in Lookers : looks'[l] \in {looks[l], Overtaken(looks[l]), NoLook}
  BY DEF Write, WriteBy
<1>5. QED
  BY <1>1, <1>2, <1>3, <1>4 DEF LooksOk

\* A reader that ends, or begins with what node n holds.
LEMMA LookLooks ==
    ASSUME TInv, LooksOk, NEW l \in Lookers, NEW k, looks' = [looks EXCEPT ![l] = k], PodOk(k.pod)
    PROVE  LooksOk'
  BY DEF TInv, TypeOK, LooksOk

\* A node's pod changes.
LEMMA PodPods ==
    ASSUME TInv, PodsOk, NEW n \in Nodes, NEW p, pods' = [pods EXCEPT ![n] = p], PodOk(p)
    PROVE  PodsOk'
  BY DEF TInv, TypeOK, PodsOk

\* Every step leaves hibernated pods a checkpoint.
LEMMA PodStep == SInv /\ [Next]_vars => PodInv'
<1>0. SUFFICES ASSUME SInv, [Next]_vars
               PROVE  PodInv'
  OBVIOUS
<1>a. TInv /\ PodsOk /\ LooksOk /\ CallsOk
  BY <1>0 DEF SInv, PodInv
<1>b. PodOk(NoPod) /\ PodOk(NoLook.pod)
  BY DEF PodOk, NoLook, NoPod
<1>c. ASSUME UNCHANGED <<pods, calls>>, LooksOk'
      PROVE  PodInv'
  BY <1>a, <1>c DEF PodInv, PodsOk, CallsOk
<1>d. ASSUME UNCHANGED <<pods, calls, looks>>
      PROVE  PodInv'
  BY <1>a, <1>d DEF PodInv, PodsOk, LooksOk, CallsOk
<1>e. ASSUME UNCHANGED <<pods, calls>>, NEW r, Write(r) \/ \E l \in Lookers : WriteBy(l, r)
      PROVE  PodInv'
  BY <1>a, <1>c, <1>e, WriteLooks
<1>f. ASSUME UNCHANGED <<calls, looks>>, NEW n \in Nodes, NEW p, pods' = [pods EXCEPT ![n] = p], PodOk(p)
      PROVE  PodInv'
  <2>1. PodsOk'
    BY <1>a, <1>f, PodPods
  <2>2. QED
    BY <1>a, <1>f, <2>1 DEF PodInv, LooksOk, CallsOk
<1>1. CASE UNCHANGED vars
  BY <1>1, <1>d DEF vars, fleet
<1>2. CASE CreateSandbox \/ Delete \/ DownSweep \/ LostGrace
  BY <1>2, <1>e DEF CreateSandbox, Delete, DownSweep, LostGrace, fleet
<1>3. ASSUME NEW i \in Instances, NEW o \in OpIds, NEW k \in Kinds, NEW n \in Nodes,
             Begin(i, k, n, o) \/ BeginLost(i, k, n, o)
      PROVE  PodInv'
  BY <1>3, <1>e DEF Begin, BeginLost, BeginTx, fleet
<1>4. ASSUME NEW i \in Instances, NEW o \in OpIds, Takeover(i, o) \/ Preempt(i, o)
      PROVE  PodInv'
  BY <1>4, <1>e DEF Takeover, Preempt, fleet
<1>5. ASSUME NEW i \in Instances, ReleaseOp(i) \/ ReleaseOverdue(i)
      PROVE  PodInv'
  BY <1>5, <1>e DEF ReleaseOp, ReleaseOverdue, Commit, fleet
<1>6. ASSUME NEW i \in Instances, StopReleases(i) \/ ClaimInstance(i)
      PROVE  PodInv'
  <2>1. ReleaseOpsOf(i) /\ UNCHANGED <<pods, calls>>
    BY <1>6 DEF StopReleases, ClaimInstance, fleet
  <2>2. CASE row.op # "" /\ row.owner = i
    BY <1>e, <2>1, <2>2 DEF ReleaseOpsOf
  <2>3. CASE ~(row.op # "" /\ row.owner = i)
    BY <1>d, <2>1, <2>3 DEF ReleaseOpsOf
  <2>4. QED
    BY <2>2, <2>3
<1>7. ASSUME NEW i \in Instances, Stop(i) \/ Expire(i) \/ Beat(i) \/ Crash(i) \/ Exit(i)
      PROVE  PodInv'
  BY <1>7, <1>d DEF Stop, Expire, Beat, Crash, Exit, Dies, fleet
<1>8. ASSUME NEW o \in OpIds, Send(o)
      PROVE  PodInv'
  <2> DEFINE h == handles[o]
             c == [kind |-> h.kind, node |-> h.target, inc |-> h.inc, ckpt |-> h.ckpt, op |-> o]
  <2>1. h.step = "begun" /\ calls' = calls \cup {c} /\ UNCHANGED <<pods, looks>>
    BY <1>8 DEF Send
  <2>2. h.kind = "restore" => h.ckpt > 0
    BY <1>0, <2>1 DEF SInv, HandleInv, HandleOk
  <2>3. c.kind = "restore" => c.ckpt > 0
    BY <2>2
  <2> HIDE DEF c
  <2>4. CallsOk'
    BY <1>a, <2>1, <2>3 DEF CallsOk
  <2>5. QED
    BY <1>a, <2>1, <2>4 DEF PodInv, PodsOk, LooksOk
<1>9. ASSUME NEW o \in OpIds, Observe(o)
      PROVE  PodInv'
  BY <1>9, <1>d DEF Observe, fleet
<1>10. ASSUME NEW o \in OpIds, Finish(o) \/ FinishLost(o)
       PROVE  PodInv'
  BY <1>10, <1>e DEF Finish, FinishLost, FinishTx, FinishOurs, FinishFenced, Commit, fleet
<1>11. ASSUME NEW o \in OpIds, Rollback(o)
       PROVE  PodInv'
  BY <1>11, <1>d, <1>e DEF Rollback, Commit, fleet
<1>12. ASSUME NEW c \in calls, Serve(c)
       PROVE  PodInv'
  <2>1. c \in Call /\ c.node \in Nodes /\ pods[c.node] \in PodRecord \cup {NoPod}
    BY <1>a DEF TInv, TypeOK, Call
  <2>2. PICK p \in Served(c, pods[c.node]) : pods' = [pods EXCEPT ![c.node] = p]
    BY <1>12 DEF Serve
  <2>3. PodOk(p)
    BY <1>a, <2>1, <2>2, ServedOk DEF PodsOk, CallsOk
  <2>4. PodsOk'
    BY <1>a, <2>1, <2>2, <2>3, PodPods
  <2>5. calls' \subseteq calls /\ looks' = looks
    BY <1>12 DEF Serve
  <2>6. QED
    BY <1>a, <2>4, <2>5 DEF PodInv, LooksOk, CallsOk
<1>13. ASSUME NEW c \in calls, Lose(c)
       PROVE  PodInv'
  <2>1. calls' \subseteq calls /\ UNCHANGED <<pods, looks>>
    BY <1>13 DEF Lose
  <2>2. QED
    BY <1>a, <2>1 DEF PodInv, PodsOk, LooksOk, CallsOk
<1>14. ASSUME NEW n \in Nodes, BringUp(n) \/ PodStops(n)
       PROVE  PodInv'
  <2>1. PICK st \in {"RUNNING", "STOPPED"} : pods' = [pods EXCEPT ![n].st = st]
    BY <1>14 DEF BringUp, PodStops
  <2>2. pods[n] \in PodRecord /\ pods \in [Nodes -> PodRecord \cup {NoPod}]
    <3>1. NoPod.st = "NONE"
      BY DEF NoPod
    <3>2. QED
      BY <1>14, <1>a, <3>1 DEF BringUp, PodStops, TInv, TypeOK
  <2> DEFINE p == [pods[n] EXCEPT !.st = st]
  <2>3. p.st = st
    BY <2>2 DEF PodRecord
  <2>4. pods' = [pods EXCEPT ![n] = p]
    BY <2>1, <2>2
  <2> HIDE DEF p
  <2>5. PodOk(p)
    BY <2>3 DEF PodOk
  <2>6. UNCHANGED <<calls, looks>>
    BY <1>14 DEF BringUp, PodStops
  <2>7. QED
    BY <1>f, <2>4, <2>5, <2>6
<1>15. ASSUME NEW n \in Nodes, PodVanishes(n)
       PROVE  PodInv'
  BY <1>15, <1>b, <1>f DEF PodVanishes
<1>16. ASSUME NEW n \in Nodes, NodeDown(n) \/ NodeUp(n)
       PROVE  PodInv'
  BY <1>16, <1>d DEF NodeDown, NodeUp
<1>17. ASSUME NEW l \in Lookers, SyncRead(l)
       PROVE  PodInv'
  <2> DEFINE k == [mode |-> "sync", node |-> row.node, pod |-> pods[row.node], same |-> "yes"]
  <2>1. row.node \in Nodes
    <3>1. row \in RowRecord /\ row.node # None
      BY <1>17, <1>a, LiveRow DEF SyncRead, TInv, TypeOK, Rows
    <3>2. QED
      BY <3>1 DEF RowRecord, Places
  <2>2. PodOk(k.pod)
    BY <1>a, <2>1 DEF PodsOk
  <2>3. looks' = [looks EXCEPT ![l] = k] /\ UNCHANGED <<pods, calls>>
    BY <1>17 DEF SyncRead, fleet
  <2> HIDE DEF k
  <2>4. QED
    BY <1>a, <1>c, <2>2, <2>3, LookLooks
<1>18. ASSUME NEW l \in Lookers, NEW n \in Nodes, ListPods(l, n)
       PROVE  PodInv'
  <2> DEFINE k == [mode |-> "list", node |-> n, pod |-> pods[n],
                   same |-> IF row.node = n THEN "yes" ELSE "no"]
  <2>1. PodOk(k.pod)
    BY <1>a DEF PodsOk
  <2>2. looks' = [looks EXCEPT ![l] = k] /\ UNCHANGED <<pods, calls>>
    BY <1>18 DEF ListPods, fleet
  <2> HIDE DEF k
  <2>3. QED
    BY <1>a, <1>c, <2>1, <2>2, LookLooks
<1>19. ASSUME NEW l \in Lookers, SyncApply(l) \/ ReconcileApply(l)
       PROVE  PodInv'
  <2>1. UNCHANGED <<pods, calls>>
    BY <1>19 DEF SyncApply, ReconcileApply, fleet
  <2>2. Apply(l) \/ looks' = [looks EXCEPT ![l] = NoLook]
    BY <1>19 DEF SyncApply, ReconcileApply, Abandon
  <2>3. CASE Apply(l)
    BY <1>e, <2>1, <2>3 DEF Apply
  <2>4. CASE looks' = [looks EXCEPT ![l] = NoLook]
    BY <1>a, <1>b, <1>c, <2>1, <2>4, LookLooks
  <2>5. QED
    BY <2>2, <2>3, <2>4
<1>20. ASSUME NEW d \in Reapers, (\E t \in tombs : ReapGet(d, t)) \/ ReapDrop(d) \/ ReapFails(d)
       PROVE  PodInv'
  BY <1>20, <1>d DEF ReapGet, ReapDrop, ReapFails, fleet
<1>21. ASSUME NEW d \in Reapers, ReapDelete(d)
       PROVE  PodInv'
  <2>1. reaps[d].node \in Nodes
    <3>1. NoReap.step = ""
      BY DEF NoReap
    <3>2. reaps[d] \in Reap
      BY <1>21, <1>a, <3>1 DEF ReapDelete, TInv, TypeOK
    <3>3. QED
      BY <3>2 DEF Reap
  <2>2. QED
    BY <1>21, <1>b, <1>f, <2>1 DEF ReapDelete
<1>22. QED
  BY <1>0, <1>1, <1>2, <1>3, <1>4, <1>5, <1>6, <1>7, <1>8, <1>9, <1>10, <1>11, <1>12, <1>13,
     <1>14, <1>15, <1>16, <1>17, <1>18, <1>19, <1>20, <1>21 DEF Next

-----------------------------------------------------------------------------
(* The theorems *)

\* The initial state: no row, no op, no pod.
LEMMA SafeInit == Init => SInv
<1> SUFFICES ASSUME Init
             PROVE  SInv
  OBVIOUS
<1>1. TInv
  BY TypeInit
<1>2. /\ NoRow.inc = 0 /\ NoRow.state = "" /\ NoRow.node = None /\ NoRow.mat = "no"
      /\ NoRow.ckpt = 0 /\ NoRow.op = "" /\ NoRow.opId = None
  BY DEF NoRow
<1>3. OpMatchesRow
  BY <1>2, SandboxConstants DEF Init, OpMatchesRow
<1>4. RowOk(NoRow, None, "no", {})
  BY <1>2 DEF RowOk, OpOk, SeenOk, WayOk, BookOk, TombOk, Rest, Midway, Placed, MustBook, KeepBook
<1>5. RowInv
  BY <1>4 DEF Init, RowInv
<1>6. HandleOk(NoHandle)
  BY DEF HandleOk, NoHandle, PodOk, Unanswered
<1>7. HandleInv
  BY <1>6 DEF Init, HandleInv
<1>8. PodOk(NoPod) /\ PodOk(NoLook.pod)
  BY DEF PodOk, NoPod, NoLook
<1>9. PodInv
  BY <1>8 DEF Init, PodInv, PodsOk, LooksOk, CallsOk
<1>10. QED
  BY <1>1, <1>3, <1>5, <1>7, <1>9 DEF SInv

\* SInv is inductive.
LEMMA SafeStep == SInv /\ [Next]_vars => SInv'
  BY TypeStep, OpStep, RowStep, HandleStep, PodStep DEF SInv

LEMMA Safe == Spec => []SInv
  BY SafeInit, SafeStep, PTL DEF Spec

\* A transitional state has its op, whoever ended, released or took over the
\* last one.
THEOREM OpsNameStates == Spec => []TransitionHasOp
<1>1. SInv => TransitionHasOp
  BY DEF SInv, RowInv, RowOk, OpOk, Midway, TransitionHasOp
<1>2. QED
  BY <1>1, Safe, PTL

\* A sandbox whose pod was seen is never made anew.
THEOREM ContentKept == Spec => []NeverRecreated
<1>1. SInv => NeverRecreated
  BY DEF SInv, RowInv, RowOk, SeenOk, NeverRecreated
<1>2. QED
  BY <1>1, Safe, PTL

\* Every state names what its way out needs.
THEOREM WayOut == Spec => []NoDeadEnd
<1>1. SInv => NoDeadEnd
  BY DEF SInv, RowInv, RowOk, WayOk, Placed, Rest, Midway, NoDeadEnd
<1>2. QED
  BY <1>1, Safe, PTL

\* The booking is where the row's state says.
THEOREM BookingThere == Spec => []BookingFollows
<1>1. SInv => BookingFollows
  BY DEF SInv, RowInv, RowOk, BookOk, BookingFollows
<1>2. QED
  BY <1>1, Safe, PTL

\* No tombstone condemns the pod of the row on the row's node.
THEOREM PodSpared == Spec => []NotCondemned
<1>1. SInv => NotCondemned
  BY DEF SInv, RowInv, RowOk, TombOk, Tomb, Gone, NotCondemned
<1>2. QED
  BY <1>1, Safe, PTL

\* The row's checkpoint never goes back to an older one.
THEOREM CheckpointGrows == Spec => CheckpointKept
<1>1. SInv /\ [Next]_vars => [row'.inc = row.inc => row'.ckpt >= row.ckpt]_vars
  BY RowStep DEF CkptUp
<1>2. QED
  BY <1>1, Safe, PTL DEF Spec, CheckpointKept

=============================================================================
