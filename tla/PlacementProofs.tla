-------------------------- MODULE PlacementProofs --------------------------
(***************************************************************************)
(* Proofs about module Placement, for any finite set of sandboxes, any     *)
(* nodes, any slots and memory, and any memory of the pods.                *)
(*                                                                         *)
(* A transaction between its check of the gates and its commit holds the   *)
(* node's row: meanwhile nothing writes that row, and no booking comes to  *)
(* the node.  Bookings may leave, one at a time, and what fitted fits then.*)
(***************************************************************************)
EXTENDS Placement, FiniteSetTheorems, TLAPS

\* From the lock on, the node's row is the transaction's.
Holds(p) == tx[p].pc \in {"check", "commit"}

\* What a commit relies on.
Ready(p) ==
    /\ tx[p].kind = "claim" => Open(tx[p].to.node) /\ tx[p].gated = "yes"
    /\ tx[p].gated = "yes" =>
           Fits(node[tx[p].to.node].slots, Booked(tx[p].to.node, p) \cup {p})

TxOk(p) ==
    /\ tx[p].pc # "none" => tx[p].to.node \in Nodes /\ WellPlaced(tx[p].to)
    /\ tx[p].kind = "write" => tx[p].to.op \notin Admits
    /\ Holds(p) => lock[tx[p].to.node] = p
    /\ tx[p].pc = "commit" => Ready(p)

TxInv == \A p \in Pods : TxOk(p)

PInv == TypeOK /\ TxInv /\ GatedBookingsFit

USE DEF Target

-----------------------------------------------------------------------------
(* Capacity *)

\* What fits a node fits it without one of the pods.
LEMMA FitsLess ==
    ASSUME NEW s \in Nat, NEW S \in SUBSET Pods, NEW q \in Pods, Fits(s, S)
    PROVE  Fits(s, S \ {q})
<1>1. IsFiniteSet(S) /\ IsFiniteSet(S \ {q})
  BY FS_Subset, PlacementConstants
<1>2. Cardinality(S \ {q}) <= s
  <2>1. Cardinality(S \ {q}) <= Cardinality(S) /\ Cardinality(S \ {q}) \in Nat /\ Cardinality(S) \in Nat
    BY <1>1, FS_Subset, FS_CardinalityType
  <2>2. Cardinality(S) <= s
    BY DEF Fits
  <2>3. QED
    BY <2>1, <2>2
<1>3. Total[S \ {q}] <= Memory
  <2>1. S \ {q} \in SUBSET Pods /\ (S \ {q}) \cup {q} \in SUBSET Pods
    OBVIOUS
  <2>2. Total[S \ {q}] <= Total[(S \ {q}) \cup {q}]
    BY <2>1, PlacementConstants
  <2>3. Total[S \ {q}] \in Nat /\ Total[S] \in Nat /\ Memory \in Nat
    BY <2>1, PlacementConstants
  <2>4. Total[S] <= Memory
    BY DEF Fits
  <2>5. CASE q \in S
    <3>1. (S \ {q}) \cup {q} = S
      BY <2>5
    <3>2. QED
      BY <2>2, <2>3, <2>4, <3>1
  <2>6. CASE q \notin S
    <3>1. S \ {q} = S
      BY <2>6
    <3>2. QED
      BY <2>4, <3>1
  <2>7. QED
    BY <2>5, <2>6
<1>4. QED
  BY <1>2, <1>3 DEF Fits

\* So does it with a pod of its own.
LEMMA FitsOwn ==
    ASSUME NEW s \in Nat, NEW S \in SUBSET Pods, NEW p \in Pods, NEW q \in Pods, p # q,
           Fits(s, S \cup {p})
    PROVE  Fits(s, (S \ {q}) \cup {p})
<1>1. (S \ {q}) \cup {p} = (S \cup {p}) \ {q} /\ S \cup {p} \in SUBSET Pods
  OBVIOUS
<1>2. QED
  BY <1>1, FitsLess

\* Slots are numbers.
LEMMA SlotsNat ==
    ASSUME TypeOK
    PROVE  /\ \A n \in Nodes : node[n].slots \in Slots /\ node[n].slots \in Nat
           /\ \A p \in Pods : book[p].slots \in Nat /\ book[p].older \in SUBSET Pods
  BY PlacementConstants DEF TypeOK, NodeRow, Booking

-----------------------------------------------------------------------------
(* Bookings *)

\* The columns of the bookings that stay when the booking of p changes.
LEMMA WithoutColumns ==
    ASSUME TypeOK, NEW p \in Pods, NEW b, book' = [Without(book, p) EXCEPT ![p] = b]
    PROVE  /\ book'[p] = b
           /\ \A q \in Pods \ {p} :
                  /\ book'[q].node = book[q].node /\ book'[q].gated = book[q].gated
                  /\ book'[q].slots = book[q].slots /\ book'[q].older = book[q].older \ {p}
                  /\ book'[q] \in Booking
<1>1. book'[p] = b
  BY DEF Without
<1>2. ASSUME NEW q \in Pods \ {p}
      PROVE  /\ book'[q].node = book[q].node /\ book'[q].gated = book[q].gated
             /\ book'[q].slots = book[q].slots /\ book'[q].older = book[q].older \ {p}
             /\ book'[q] \in Booking
  <2>1. book'[q] = [book[q] EXCEPT !.older = book[q].older \ {p}]
    BY DEF Without
  <2>2. book[q] \in Booking
    BY DEF TypeOK
  <2> DEFINE ol == book[q].older \ {p}
  <2>3. ol \in SUBSET Pods /\ book'[q] = [book[q] EXCEPT !.older = ol]
    BY <2>1, <2>2 DEF Booking
  <2> HIDE DEF ol
  <2>4. /\ book'[q].node = book[q].node /\ book'[q].gated = book[q].gated
        /\ book'[q].slots = book[q].slots /\ book'[q].older = ol
        /\ book'[q] \in Booking
    BY <2>2, <2>3 DEF Booking
  <2>5. QED
    BY <2>4 DEF ol
<1>3. QED
  BY <1>1, <1>2

\* What is booked on the other sandboxes' nodes.
LEMMA BookedOthers ==
    ASSUME TypeOK, NEW p \in Pods, NEW b, book' = [Without(book, p) EXCEPT ![p] = b],
           NEW q \in Pods \ {p}, NEW n, b.node # n
    PROVE  Booked(n, q)' = Booked(n, q) \ {p}
<1>1. Booked(n, q)' = {r \in Pods \ {q} : book'[r].node = n}
  BY DEF Booked
<1>2. book'[p].node # n /\ \A r \in Pods \ {p} : book'[r].node = book[r].node
  BY WithoutColumns
<1>3. QED
  BY <1>1, <1>2 DEF Booked

-----------------------------------------------------------------------------
(* Transactions *)

\* A transaction goes on undisturbed: its node's row is as it was, and at most
\* one booking left the node.
LEMMA TxKept ==
    ASSUME TypeOK, NEW q \in Pods, NEW p \in Pods, TxOk(q), tx'[q] = tx[q],
           Holds(q) => lock'[tx[q].to.node] = q,
           tx[q].pc = "commit" =>
               /\ node'[tx[q].to.node] = node[tx[q].to.node]
               /\ \/ Booked(tx[q].to.node, q)' = Booked(tx[q].to.node, q)
                  \/ p # q /\ Booked(tx[q].to.node, q)' = Booked(tx[q].to.node, q) \ {p}
    PROVE  TxOk(q)'
<1> DEFINE n == tx[q].to.node
<1>1. tx'[q].to.node = n /\ (Holds(q)' <=> Holds(q))
  BY DEF Holds
<1>2. tx[q].pc = "commit" => Ready(q)'
  <2>1. SUFFICES ASSUME tx[q].pc = "commit"
                 PROVE  Ready(q)'
    OBVIOUS
  <2>2. n \in Nodes /\ Ready(q)
    BY <2>1 DEF TxOk
  <2>3. Open(n)' <=> Open(n)
    BY <2>1 DEF Open
  <2>4. /\ Open(tx[q].to.node)' <=> Open(n)'
        /\ Booked(tx[q].to.node, q)' = {r \in Pods \ {q} : book'[r].node = n}
        /\ Booked(n, q)' = {r \in Pods \ {q} : book'[r].node = n}
    BY <1>1 DEF Open, Booked
  <2>5. Booked(n, q) \in SUBSET Pods /\ node[n].slots \in Nat
    BY <2>2, SlotsNat DEF Booked
  <2>6. tx[q].gated = "yes" => Fits(node[n].slots, Booked(n, q)' \cup {q})
    <3>1. SUFFICES ASSUME tx[q].gated = "yes"
                   PROVE  Fits(node[n].slots, Booked(n, q)' \cup {q})
      OBVIOUS
    <3>2. Fits(node[n].slots, Booked(n, q) \cup {q})
      BY <2>2, <3>1 DEF Ready
    <3>3. CASE Booked(n, q)' = Booked(n, q)
      BY <3>2, <3>3
    <3>4. CASE p # q /\ Booked(n, q)' = Booked(n, q) \ {p}
      BY <2>5, <3>2, <3>4, FitsOwn
    <3>5. QED
      BY <2>1, <2>4, <3>3, <3>4
  <2>7. QED
    BY <1>1, <2>1, <2>2, <2>3, <2>4, <2>6 DEF Ready
<1>3. QED
  BY <1>1, <1>2 DEF TxOk

-----------------------------------------------------------------------------
(* Rows *)

\* A row without an op.
LEMMA AtRow ==
    ASSUME NEW s \in States, NEW n \in Places, Placed(s, n)
    PROVE  At(s, n) \in Row /\ WellPlaced(At(s, n)) /\ At(s, n).op \notin Admits
  BY DEF At, Row, States, Places, Ops, Admits, WellPlaced, Placed

\* A row with an op on a node.
LEMMA OpRow ==
    ASSUME NEW r \in Row, WellPlaced(r), NEW k \in Ops \ {""}, NEW n \in Nodes
    PROVE  /\ WithOp(r, k, n) \in Row /\ WellPlaced(WithOp(r, k, n))
           /\ WithOp(r, k, n).op = k /\ WithOp(r, k, n).node = n
<1>1. transitional(k) \in States /\ transitional(k) # "pending" /\ n # None
  BY PlacementConstants DEF transitional, States
<1>2. WithOp(r, k, n) \in Row
  BY <1>1 DEF WithOp, Row, Places
<1>3. QED
  BY <1>1, <1>2 DEF WithOp, WellPlaced, Placed

\* A row that is not pending or hibernated, or has an op, is on a node.
LEMMA OnNode ==
    ASSUME TypeOK, NEW p \in Pods, row[p].op # "" \/ row[p].state \notin {"pending", "hibernated"}
    PROVE  row[p].node \in Nodes
  BY DEF TypeOK, Row, Places, WellPlaced, Placed

\* What a write that claims nothing makes of a row.
Plain(r) == r \in Row /\ WellPlaced(r) /\ r.op \notin Admits

Writes(p) == BeginOwn(p) \/ Finish(p) \/ Rollback(p) \/ Sync(p) \/ DownSweep(p) \/ LostGrace(p)

LEMMA WritesChange ==
    ASSUME TypeOK, NEW p \in Pods, Writes(p)
    PROVE  \E r : Plain(r) /\ Change(p, r)
<1>a. row[p] \in Row /\ WellPlaced(row[p])
  BY DEF TypeOK
<1>b. ASSUME NEW n \in Nodes, NEW r \in observeOurs(n) \cup notFound(n) \cup {At("unknown", n)} \cup {At("hibernated", n)}
      PROVE  Plain(r)
  <2>1. PICK s \in States, m \in Places : r = At(s, m) /\ Placed(s, m)
    <3>1. n # None /\ n \in Places /\ None \in Places
      BY PlacementConstants DEF Places
    <3>2. QED
      BY <1>b, <3>1 DEF observeOurs, notFound, States, Placed
  <2>2. QED
    BY <2>1, AtRow DEF Plain
<1>1. CASE BeginOwn(p)
  <2>1. PICK k \in {"pause", "repair", "hibernate"} : Change(p, WithOp(row[p], k, row[p].node)) /\ row[p].node \in Nodes
    BY <1>1, OnNode DEF BeginOwn
  <2>2. k \in Ops \ {""} /\ k \notin Admits
    BY DEF Ops, Admits
  <2>3. Plain(WithOp(row[p], k, row[p].node))
    BY <1>a, <2>1, <2>2, OpRow DEF Plain
  <2>4. QED
    BY <2>1, <2>3
<1>2. CASE Finish(p)
  BY <1>2, <1>b, OnNode DEF Finish
<1>3. CASE Rollback(p)
  <2>1. At(row[p].from, row[p].old) \in Row /\ Plain(At(row[p].from, row[p].old))
    BY <1>a, AtRow DEF Row, WellPlaced, Plain
  <2>2. QED
    BY <1>3, <2>1 DEF Rollback
<1>4. CASE Sync(p)
  <2>1. row[p].node \in Nodes
    BY <1>a, <1>4 DEF Sync, Row, Places
  <2>2. QED
    BY <1>4, <1>b, <2>1 DEF Sync
<1>5. CASE DownSweep(p)
  BY <1>5, <1>b DEF DownSweep, Out
<1>6. CASE LostGrace(p)
  BY <1>6, <1>b DEF LostGrace, Out, notFound
<1>7. QED
  BY <1>1, <1>2, <1>3, <1>4, <1>5, <1>6 DEF Writes

\* The row a claim is to write.
LEMMA ClaimRow ==
    ASSUME TypeOK, NEW p \in Pods,
           BeginPinned(p) \/ preemptHibernate(p) \/ \E n \in Nodes : Begin(p, n)
    PROVE  \/ UNCHANGED <<row, book, node, lock, tx, events>>
           \/ \E r : r \in Row /\ WellPlaced(r) /\ r.node \in Nodes /\ Claim(p, r)
<1>a. row[p] \in Row /\ WellPlaced(row[p])
  BY DEF TypeOK
<1>1. CASE BeginPinned(p)
  <2>1. PICK k \in {"start", "resume"} : Claim(p, WithOp(row[p], k, row[p].node)) /\ row[p].node \in Nodes
    BY <1>1, OnNode DEF BeginPinned
  <2>2. k \in Ops \ {""}
    BY DEF Ops, Admits
  <2> DEFINE w == WithOp(row[p], k, row[p].node)
  <2>3. w \in Row /\ WellPlaced(w) /\ w.node \in Nodes
    BY ZenonT(30), <1>a, <2>1, <2>2, OpRow
  <2> HIDE DEF w
  <2>4. Claim(p, w)
    BY <2>1 DEF w
  <2>5. QED
    BY <2>3, <2>4
<1>2. CASE preemptHibernate(p)
  <2> DEFINE w == WithOp(row[p], "resume", row[p].node)
             r == [w EXCEPT !.from = "unknown"]
  <2>1. row[p].node \in Nodes /\ Claim(p, r)
    BY <1>2, OnNode DEF preemptHibernate
  <2>2. w \in Row /\ WellPlaced(w) /\ w.node = row[p].node /\ w.old = row[p].node
    BY <1>a, <2>1, OpRow DEF Ops, Admits, WithOp
  <2> HIDE DEF w
  <2>3. r \in Row /\ WellPlaced(r) /\ r.node \in Nodes
    <3>1. "unknown" \in States /\ row[p].node # None
      BY <2>1, PlacementConstants DEF States
    <3>2. r \in Row /\ r.state = w.state /\ r.node = w.node /\ r.op = w.op /\ r.from = "unknown" /\ r.old = w.old
      BY <2>2, <3>1 DEF Row
    <3> HIDE DEF r
    <3>3. QED
      BY <2>1, <2>2, <3>1, <3>2 DEF WellPlaced, Placed
  <2> HIDE DEF r
  <2>4. QED
    BY <2>1, <2>3
<1>3. ASSUME NEW n \in Nodes, Begin(p, n)
      PROVE  \/ UNCHANGED <<row, book, node, lock, tx, events>>
             \/ \E r : r \in Row /\ WellPlaced(r) /\ r.node \in Nodes /\ Claim(p, r)
  <2>1. CASE \E k \in {"create", "restore"} : Claim(p, WithOp(row[p], k, n))
    <3>1. PICK k \in {"create", "restore"} : Claim(p, WithOp(row[p], k, n))
      BY <2>1
    <3>2. k \in Ops \ {""}
      BY DEF Ops, Admits
    <3> DEFINE w == WithOp(row[p], k, n)
    <3>3. w \in Row /\ WellPlaced(w) /\ w.node \in Nodes
      BY ZenonT(30), <1>a, <3>2, OpRow
    <3> HIDE DEF w
    <3>4. Claim(p, w)
      BY <3>1 DEF w
    <3>5. QED
      BY <3>3, <3>4
  <2>2. \/ Claim(p, WithOp(row[p], "create", n)) \/ Claim(p, WithOp(row[p], "restore", n))
        \/ UNCHANGED <<row, book, node, lock, tx, events>>
    BY <1>3 DEF Begin
  <2>3. QED
    BY <2>1, <2>2
<1>4. QED
  BY <1>1, <1>2, <1>3

-----------------------------------------------------------------------------
(* The invariant *)

\* Every step keeps the types.
LEMMA TypeStep == TypeOK /\ TxInv /\ [Next]_vars => TypeOK'
<1>0. SUFFICES ASSUME TypeOK, TxInv, [Next]_vars
               PROVE  TypeOK'
  OBVIOUS
<1>a. ASSUME NEW kind \in {"claim", "write"}, NEW r \in Row
      PROVE  Begun(kind, r) \in Tx
  BY DEF Begun, Tx
<1>b. NoTx \in Tx
  <2>1. At("pending", None) \in Row
    BY DEF At, Row, States, Ops, Places
  <2>2. QED
    BY <2>1 DEF NoTx, Tx
<1>c. ASSUME NEW p \in Pods, Unlock(p)
      PROVE  lock' \in [Nodes -> Pods \cup {None}]
  BY <1>0, <1>c DEF Unlock, TypeOK
<1>d. ASSUME NEW p \in Pods, NEW b \in Booking, book' = [Without(book, p) EXCEPT ![p] = b]
      PROVE  book' \in [Pods -> Booking]
  <2>1. \A q \in Pods : book'[q] \in Booking
    BY ZenonT(30), <1>0, <1>d, WithoutColumns
  <2>2. book' = [q \in Pods |-> book'[q]]
    BY <1>d DEF Without
  <2>3. QED
    BY <2>1, <2>2
<1>1. CASE UNCHANGED vars
  BY <1>0, <1>1 DEF vars, TypeOK
<1>2. ASSUME NEW p \in Pods, Place(p)
      PROVE  TypeOK'
  BY <1>0, <1>2 DEF Place, TypeOK
<1>3. ASSUME NEW p \in Pods, BeginPinned(p) \/ preemptHibernate(p) \/ \E n \in Nodes : Begin(p, n)
      PROVE  TypeOK'
  <2>1. plan' \in [Pods -> SUBSET Nodes]
    BY ZenonT(30), <1>0, <1>3 DEF BeginPinned, preemptHibernate, Begin, TypeOK
  <2>2. CASE UNCHANGED <<row, book, node, lock, tx, events>>
    BY <1>0, <2>1, <2>2 DEF TypeOK
  <2>3. ASSUME NEW r, r \in Row /\ WellPlaced(r) /\ r.node \in Nodes /\ Claim(p, r)
        PROVE  TypeOK'
    <3>1. Begun("claim", r) \in Tx
      BY <1>a, <2>3
    <3>2. QED
      BY <1>0, <2>1, <2>3, <3>1 DEF Claim, TypeOK
  <2>4. QED
    BY <1>0, <1>3, <2>2, <2>3, ClaimRow
<1>5. ASSUME NEW p \in Pods, LockNode(p)
      PROVE  TypeOK'
  <2>1. [tx[p] EXCEPT !.pc = "check"] \in Tx
    BY <1>0 DEF TypeOK, Tx
  <2>2. QED
    BY <1>0, <1>5, <2>1 DEF LockNode, TypeOK
<1>6. ASSUME NEW p \in Pods, Check(p)
      PROVE  TypeOK'
  <2>1. ASSUME NEW g \in {"yes", "no"}
        PROVE  [tx[p] EXCEPT !.pc = "commit", !.gated = g] \in Tx
    BY <1>0, <2>1 DEF TypeOK, Tx
  <2>2. tx' \in [Pods -> Tx]
    <3>1. CASE tx' = [tx EXCEPT ![p] = NoTx]
      BY <1>0, <1>b, <3>1 DEF TypeOK
    <3>2. CASE \E g \in {"yes", "no"} : tx' = [tx EXCEPT ![p].pc = "commit", ![p].gated = g]
      <4>1. PICK g \in {"yes", "no"} : tx' = [tx EXCEPT ![p].pc = "commit", ![p].gated = g]
        BY <3>2
      <4>2. tx' = [tx EXCEPT ![p] = [tx[p] EXCEPT !.pc = "commit", !.gated = g]]
        BY <1>0, <4>1 DEF TypeOK
      <4>3. QED
        BY <1>0, <2>1, <4>2 DEF TypeOK
    <3>3. QED
      BY <1>6, <3>1, <3>2 DEF Check
  <2>3. lock' \in [Nodes -> Pods \cup {None}]
    BY <1>0, <1>6, <1>c DEF Check, TypeOK
  <2>4. QED
    BY <1>0, <1>6, <2>2, <2>3 DEF Check, TypeOK
<1>7. ASSUME NEW p \in Pods, Commit(p)
      PROVE  TypeOK'
  <2>1. tx[p] \in Tx /\ tx[p].to.node \in Nodes /\ WellPlaced(tx[p].to)
    BY <1>0, <1>7 DEF Commit, TypeOK, TxInv, TxOk
  <2> DEFINE b == [node |-> tx[p].to.node, gated |-> tx[p].gated,
                   slots |-> node[tx[p].to.node].slots, older |-> Booked(tx[p].to.node, p)]
             r == tx[p].to
  <2>2. b \in Booking
    <3>1. /\ node[tx[p].to.node].slots \in Slots /\ Booked(tx[p].to.node, p) \in SUBSET Pods
          /\ tx[p].gated \in {"yes", "no"}
      BY <1>0, <2>1, SlotsNat DEF Booked, Tx
    <3>2. QED
      BY <2>1, <3>1 DEF Booking, Places
  <2>3. /\ book' = [Without(book, p) EXCEPT ![p] = b]
        /\ row' = [row EXCEPT ![p] = r] /\ tx' = [tx EXCEPT ![p] = NoTx] /\ Unlock(p)
        /\ UNCHANGED <<node, events>> /\ plan' \in [Pods -> SUBSET Nodes]
    BY <1>0, <1>7 DEF Commit, UpsertBooking, TypeOK
  <2>4. r \in Row /\ WellPlaced(r)
    BY <2>1 DEF Tx
  <2> HIDE DEF b, r
  <2>5. book' \in [Pods -> Booking]
    BY <1>d, <2>2, <2>3
  <2>6. tx' \in [Pods -> Tx] /\ lock' \in [Nodes -> Pods \cup {None}]
    BY <1>0, <1>b, <1>c, <2>3 DEF TypeOK
  <2>7. row' \in [Pods -> Row] /\ \A q \in Pods : WellPlaced(row'[q])
    BY <1>0, <2>3, <2>4 DEF TypeOK
  <2>8. QED
    BY <1>0, <2>3, <2>5, <2>6, <2>7 DEF TypeOK
<1>8. ASSUME NEW p \in Pods, Abort(p)
      PROVE  TypeOK'
  BY <1>0, <1>8, <1>b, <1>c DEF Abort, TypeOK
<1>9. ASSUME NEW p \in Pods, Writes(p)
      PROVE  TypeOK'
  <2>1. NoBooking \in Booking
    BY PlacementConstants DEF NoBooking, Booking, Places
  <2>2. PICK r : Plain(r) /\ Change(p, r)
    BY <1>0, <1>9, WritesChange
  <2>3. r \in Row /\ WellPlaced(r) /\ UNCHANGED <<node, lock, plan, events>>
    BY <2>2 DEF Plain, Change
  <2>4. CASE tx' = [tx EXCEPT ![p] = Begun("write", r)] /\ UNCHANGED <<row, book>>
    <3>1. Begun("write", r) \in Tx
      BY <1>a, <2>3
    <3>2. QED
      BY <1>0, <2>3, <2>4, <3>1 DEF TypeOK
  <2>5. CASE row' = [row EXCEPT ![p] = r] /\ (book' = book \/ DeleteBooking(p)) /\ UNCHANGED tx
    <3>1. book' \in [Pods -> Booking]
      BY <1>0, <1>d, <2>1, <2>5 DEF DeleteBooking, TypeOK
    <3>2. row' \in [Pods -> Row] /\ \A q \in Pods : WellPlaced(row'[q])
      BY <1>0, <2>3, <2>5 DEF TypeOK
    <3>3. QED
      BY <1>0, <2>3, <2>5, <3>1, <3>2 DEF TypeOK
  <2>6. QED
    BY <2>2, <2>4, <2>5 DEF Change
<1>11. ASSUME NEW n \in Nodes, NEW m \in NodeRow, node' = [node EXCEPT ![n] = m],
              UNCHANGED <<row, book, lock, plan, tx>>, events' = events \/ NodeWrite(n)
       PROVE  TypeOK'
  <2>1. events' \in 0 .. MaxEvents
    <3>1. events \in 0 .. MaxEvents /\ MaxEvents \in Nat
      BY <1>0, PlacementConstants DEF TypeOK
    <3>2. QED
      BY <1>11, <3>1 DEF NodeWrite
  <2>2. QED
    BY <1>0, <1>11, <2>1 DEF TypeOK
<1>12. ASSUME NEW n \in Nodes, SetNodeDraining(n)
       PROVE  TypeOK'
  <2> DEFINE d == IF node[n].draining = "yes" THEN "no" ELSE "yes"
             m == [node[n] EXCEPT !.draining = d]
  <2>1. node' = [node EXCEPT ![n] = m] /\ NodeWrite(n)
    BY <1>0, <1>12 DEF SetNodeDraining, TypeOK
  <2>2. d \in {"yes", "no"} /\ node[n] \in NodeRow
    BY <1>0 DEF TypeOK
  <2> HIDE DEF d
  <2>3. m \in NodeRow
    BY <2>2 DEF NodeRow
  <2> HIDE DEF m
  <2>4. QED
    BY <1>11, <2>1, <2>3 DEF NodeWrite
<1>13. ASSUME NEW n \in Nodes, ExpireNodes(n) \/ Reports(n) \/ \E force \in BOOLEAN : RemoveNode(n, force)
       PROVE  TypeOK'
  <2>1. PICK st \in {"ready", "down", "removed"} : node' = [node EXCEPT ![n].status = st]
    BY <1>13 DEF ExpireNodes, Reports, RemoveNode
  <2> DEFINE m == [node[n] EXCEPT !.status = st]
  <2>2. m \in NodeRow /\ node' = [node EXCEPT ![n] = m]
    BY <1>0, <2>1 DEF TypeOK, NodeRow
  <2>3. UNCHANGED <<row, book, lock, plan, tx>> /\ (events' = events \/ NodeWrite(n))
    BY <1>13 DEF ExpireNodes, Reports, RemoveNode, NodeWrite
  <2> HIDE DEF m
  <2>4. QED
    BY <1>11, <2>2, <2>3
<1>14. ASSUME NEW n \in Nodes, NEW s \in Slots, UpdateNodeSettings(n, s)
       PROVE  TypeOK'
  <2> DEFINE m == [node[n] EXCEPT !.slots = s]
  <2>1. m \in NodeRow /\ node' = [node EXCEPT ![n] = m]
    BY <1>0, <1>14 DEF UpdateNodeSettings, TypeOK, NodeRow
  <2>2. NodeWrite(n)
    BY <1>14 DEF UpdateNodeSettings
  <2> HIDE DEF m
  <2>3. QED
    BY <1>11, <2>1, <2>2 DEF NodeWrite
<1>15. QED
  BY <1>0, <1>1, <1>2, <1>3, <1>5, <1>6, <1>7, <1>8, <1>9, <1>12, <1>13, <1>14 DEF Next, Writes

\* Bookings that stay leave what is booked on a node as it is.
LEMMA BookedSame ==
    ASSUME book' = book, NEW n, NEW q
    PROVE  Booked(n, q)' = Booked(n, q)
  BY DEF Booked

\* A transaction whose lock, node and bookings are as they were.
LEMMA TxSame ==
    ASSUME TypeOK, TxInv, NEW q \in Pods, tx'[q] = tx[q], book' = book,
           Holds(q) => lock'[tx[q].to.node] = q,
           tx[q].pc = "commit" => node'[tx[q].to.node] = node[tx[q].to.node]
    PROVE  TxOk(q)'
<1>1. TxOk(q)
  BY DEF TxInv
<1>2. Booked(tx[q].to.node, q)' = Booked(tx[q].to.node, q)
  BY DEF Booked
<1>3. QED
  BY <1>1, <1>2, TxKept

\* Every step leaves what the transactions rely on as it is.
LEMMA TxStep == PInv /\ [Next]_vars => TxInv'
<1>0. SUFFICES ASSUME PInv, [Next]_vars
               PROVE  TxInv'
  OBVIOUS
<1>a. TypeOK /\ TxInv /\ tx \in [Pods -> Tx] /\ lock \in [Nodes -> Pods \cup {None}]
  BY <1>0 DEF PInv, TypeOK
<1>b. \A q \in Pods : Holds(q) => tx[q].to.node \in Nodes /\ lock[tx[q].to.node] = q
  BY <1>a DEF TxInv, TxOk, Holds
<1>c. ASSUME UNCHANGED <<tx, lock, node, book>>
      PROVE  TxInv'
  BY <1>a, <1>b, <1>c, TxSame DEF TxInv
<1>d. NoTx.pc = "none" /\ NoTx.kind = "claim"
  BY DEF NoTx
<1>e. ASSUME NEW p \in Pods, tx'[p] = NoTx
      PROVE  TxOk(p)'
  BY <1>d, <1>e DEF TxOk, Holds
<1>f. ASSUME NEW p \in Pods, Unlock(p), NEW q \in Pods \ {p}, Holds(q)
      PROVE  lock'[tx[q].to.node] = q
  BY <1>b, <1>f DEF Unlock
\* A transaction that begins, or ends without a write.
<1>g. ASSUME NEW p \in Pods, NEW t, tx' = [tx EXCEPT ![p] = t], UNCHANGED <<node, book>>,
             UNCHANGED lock \/ Unlock(p), TxOk(p)'
      PROVE  TxInv'
  <2>1. ASSUME NEW q \in Pods, q # p
        PROVE  TxOk(q)'
    <3>1. tx'[q] = tx[q]
      BY <1>a, <1>g, <2>1
    <3>2. Holds(q) => lock'[tx[q].to.node] = q
      BY <1>b, <1>f, <1>g, <2>1
    <3>3. QED
      BY <1>a, <1>g, <3>1, <3>2, TxSame
  <2>2. QED
    BY <1>g, <2>1 DEF TxInv
<1>h. ASSUME NEW p \in Pods, NEW kind, NEW r, tx' = [tx EXCEPT ![p] = Begun(kind, r)],
             r.node \in Nodes, WellPlaced(r), kind = "write" => r.op \notin Admits
      PROVE  TxOk(p)'
  <2>1. tx'[p] = Begun(kind, r)
    BY <1>a, <1>h
  <2>2. tx'[p].pc = "lock" /\ tx'[p].kind = kind /\ tx'[p].to = r
    BY <2>1 DEF Begun
  <2>3. WellPlaced(tx[p].to)'
    BY <1>h, <2>2 DEF WellPlaced, Placed
  <2>4. QED
    BY <1>h, <2>2, <2>3 DEF TxOk, Holds
<1>1. CASE UNCHANGED vars
  BY <1>1, <1>c DEF vars
<1>2. ASSUME NEW p \in Pods, Place(p)
      PROVE  TxInv'
  BY <1>2, <1>c DEF Place
<1>3. ASSUME NEW p \in Pods, BeginPinned(p) \/ preemptHibernate(p) \/ \E n \in Nodes : Begin(p, n)
      PROVE  TxInv'
  <2>1. CASE UNCHANGED <<row, book, node, lock, tx, events>>
    BY <1>c, <2>1
  <2>2. ASSUME NEW r, r \in Row /\ WellPlaced(r) /\ r.node \in Nodes /\ Claim(p, r)
        PROVE  TxInv'
    <3>1. TxOk(p)'
      BY <1>h, <2>2 DEF Claim
    <3>2. QED
      BY <1>g, <2>2, <3>1 DEF Claim
  <2>3. QED
    BY <1>a, <1>3, <2>1, <2>2, ClaimRow
<1>5. ASSUME NEW p \in Pods, LockNode(p)
      PROVE  TxInv'
  <2> DEFINE n == tx[p].to.node
             t == [tx[p] EXCEPT !.pc = "check"]
  <2>1. /\ tx[p].pc = "lock" /\ lock[n] = None /\ lock' = [lock EXCEPT ![n] = p]
        /\ tx' = [tx EXCEPT ![p] = t] /\ UNCHANGED <<node, book>>
    BY <1>a, <1>5 DEF LockNode
  <2>2. TxOk(p) /\ n \in Nodes
    BY <1>a, <2>1 DEF TxInv, TxOk
  <2>3. t.pc = "check" /\ t.kind = tx[p].kind /\ t.to = tx[p].to
    BY <1>a DEF Tx
  <2> HIDE DEF t
  <2>4. tx'[p] = t /\ lock'[n] = p
    BY <1>a, <2>1, <2>2
  <2>5. TxOk(p)'
    BY <2>1, <2>2, <2>3, <2>4 DEF TxOk, Holds
  <2>6. ASSUME NEW q \in Pods, q # p
        PROVE  TxOk(q)'
    <3>1. tx'[q] = tx[q]
      BY <1>a, <2>1, <2>6
    <3>2. Holds(q) => lock'[tx[q].to.node] = q
      <4>1. None # q
        BY PlacementConstants
      <4>2. QED
        BY <1>a, <1>b, <2>1, <2>2, <4>1
    <3>3. QED
      BY <1>a, <2>1, <3>1, <3>2, TxSame
  <2>7. QED
    BY <2>5, <2>6 DEF TxInv
<1>6. ASSUME NEW p \in Pods, Check(p)
      PROVE  TxInv'
  <2> DEFINE n == tx[p].to.node
             fits == Fits(node[n].slots, Booked(n, p) \cup {p})
             g == IF fits THEN "yes" ELSE "no"
             t == [tx[p] EXCEPT !.pc = "commit", !.gated = g]
  <2>1. tx[p].pc = "check" /\ UNCHANGED <<node, book>> /\ TxOk(p)
    BY <1>a, <1>6 DEF Check, TxInv
  <2>2. CASE tx' = [tx EXCEPT ![p] = NoTx] /\ Unlock(p)
    <3>1. TxOk(p)'
      BY <1>a, <1>e, <2>2
    <3>2. QED
      BY <1>g, <2>1, <2>2, <3>1
  <2>3. CASE /\ tx[p].kind = "claim" => Open(n) /\ fits
             /\ tx' = [tx EXCEPT ![p] = t] /\ UNCHANGED lock
    <3>1. g = "yes" <=> fits
      OBVIOUS
    <3> HIDE DEF g
    <3>2. /\ t.pc = "commit" /\ t.kind = tx[p].kind /\ t.to = tx[p].to /\ t.gated = g
      BY <1>a DEF Tx
    <3> HIDE DEF t
    <3>3. tx'[p] = t
      BY <1>a, <2>3
    <3>4. /\ Open(tx[p].to.node)' <=> Open(n)
          /\ Booked(tx[p].to.node, p)' = Booked(n, p)
      BY <2>1, <3>2, <3>3 DEF Open, Booked
    <3>5. Ready(p)'
      BY <2>1, <2>3, <3>1, <3>2, <3>3, <3>4 DEF Ready
    <3>6. TxOk(p)'
      BY <2>1, <2>3, <3>2, <3>3, <3>5 DEF TxOk, Holds
    <3>7. QED
      BY <1>g, <2>1, <2>3, <3>6
  <2>4. QED
    <3>1. tx' = [tx EXCEPT ![p].pc = "commit", ![p].gated = g] => tx' = [tx EXCEPT ![p] = t]
      BY <1>a
    <3>2. QED
      BY <1>6, <2>2, <2>3, <3>1 DEF Check
<1>7. ASSUME NEW p \in Pods, Commit(p)
      PROVE  TxInv'
  <2> DEFINE n == tx[p].to.node
             b == [node |-> n, gated |-> tx[p].gated, slots |-> node[n].slots, older |-> Booked(n, p)]
  <2>1. /\ book' = [Without(book, p) EXCEPT ![p] = b] /\ tx' = [tx EXCEPT ![p] = NoTx]
        /\ Unlock(p) /\ node' = node /\ Holds(p)
    BY <1>7 DEF Commit, UpsertBooking, Holds
  <2>2. TxOk(p)'
    BY <1>a, <1>e, <2>1
  <2>3. b.node = n
    OBVIOUS
  <2> HIDE DEF b
  <2>4. ASSUME NEW q \in Pods, q # p
        PROVE  TxOk(q)'
    <3>1. tx'[q] = tx[q] /\ TxOk(q)
      BY <1>a, <2>1, <2>4 DEF TxInv
    <3>2. Holds(q) => lock'[tx[q].to.node] = q
      BY <1>f, <2>1, <2>4
    <3>3. tx[q].pc = "commit" => Booked(tx[q].to.node, q)' = Booked(tx[q].to.node, q) \ {p}
      <4>1. SUFFICES ASSUME tx[q].pc = "commit"
                     PROVE  Booked(tx[q].to.node, q)' = Booked(tx[q].to.node, q) \ {p}
        OBVIOUS
      <4> DEFINE m == tx[q].to.node
      <4>2. m # n
        BY <1>b, <2>1, <2>4, <4>1 DEF Holds
      <4> HIDE DEF m
      <4>3. Booked(m, q)' = {r \in Pods \ {q} : book'[r].node = m'}
        BY DEF Booked
      <4>4. m' = m
        BY <3>1 DEF m
      <4>5. book'[p].node = n /\ \A r \in Pods \ {p} : book'[r].node = book[r].node
        BY ZenonT(30), <1>a, <2>1, <2>3, WithoutColumns
      <4>6. Booked(m, q)' = Booked(m, q) \ {p}
        BY <4>2, <4>3, <4>4, <4>5 DEF Booked
      <4>7. QED
        BY <4>6 DEF m
    <3>4. QED
      BY <1>a, <2>1, <2>4, <3>1, <3>2, <3>3, TxKept
  <2>5. QED
    BY <2>2, <2>4 DEF TxInv
<1>8. ASSUME NEW p \in Pods, Abort(p)
      PROVE  TxInv'
  <2>1. tx' = [tx EXCEPT ![p] = NoTx] /\ Unlock(p) /\ UNCHANGED <<node, book>>
    BY <1>8 DEF Abort
  <2>2. TxOk(p)'
    BY <1>a, <1>e, <2>1
  <2>3. QED
    BY <1>g, <2>1, <2>2
<1>9. ASSUME NEW p \in Pods, NEW r, Plain(r) /\ Change(p, r), tx' = tx
      PROVE  TxInv'
  <2>1. UNCHANGED <<node, lock, tx>> /\ tx[p] = NoTx
    BY <1>9 DEF Change
  <2>2. CASE book' = book
    BY <1>c, <2>1, <2>2
  <2>3. CASE DeleteBooking(p)
    <3>1. TxOk(p)'
      BY <1>e, <2>1
    <3>2. ASSUME NEW q \in Pods, q # p
          PROVE  TxOk(q)'
      <4>1. tx[q].pc = "commit" => tx[q].to.node # NoBooking.node
        BY <1>b, PlacementConstants DEF Holds, NoBooking
      <4> DEFINE m == tx[q].to.node
      <4>2. Booked(tx[q].to.node, q)' = {o \in Pods \ {q} : book'[o].node = m}
        BY <2>1 DEF Booked
      <4>3. book'[p] = NoBooking /\ \A o \in Pods \ {p} : book'[o].node = book[o].node
        BY <1>a, <2>3, WithoutColumns DEF DeleteBooking
      <4>4. tx[q].pc = "commit" => Booked(tx[q].to.node, q)' = Booked(tx[q].to.node, q) \ {p}
        BY <4>1, <4>2, <4>3 DEF Booked
      <4>5. TxOk(q) /\ (Holds(q) => lock'[tx[q].to.node] = q) /\ tx'[q] = tx[q]
        BY <1>a, <1>b, <2>1 DEF TxInv
      <4>6. QED
        BY <1>a, <2>1, <3>2, <4>4, <4>5, TxKept
    <3>3. QED
      BY <3>1, <3>2 DEF TxInv
  <2>4. CASE NeedsBooking(p, r)
    <3>1. book' = book
      <4>1. Begun("write", r) # NoTx
        <5>1. Begun("write", r).pc = "lock" /\ NoTx.pc = "none"
          BY DEF Begun, NoTx
        <5>2. QED
          BY <5>1
      <4>2. QED
        BY <1>9, <2>4 DEF Change
    <3>2. QED
      BY <2>2, <3>1
  <2>5. QED
    BY <1>9, <2>2, <2>3, <2>4 DEF Change
<1>10. ASSUME NEW p \in Pods, Writes(p)
       PROVE  TxInv'
  <2>1. PICK r : Plain(r) /\ Change(p, r)
    BY <1>a, <1>10, WritesChange
  <2>2. CASE tx' = tx
    BY <1>9, <2>1, <2>2
  <2>3. CASE tx' = [tx EXCEPT ![p] = Begun("write", r)] /\ NeedsBooking(p, r) /\ UNCHANGED <<row, book>>
    <3>1. r \in Row /\ WellPlaced(r) /\ r.op \notin Admits /\ r.node \in Nodes
      BY <2>1, <2>3 DEF Plain, NeedsBooking, Row, Places
    <3>2. TxOk(p)'
      BY <1>h, <2>3, <3>1
    <3>3. UNCHANGED <<node, book, lock>>
      BY <2>1, <2>3 DEF Change
    <3>4. QED
      BY <1>g, <2>3, <3>2, <3>3
  <2>4. QED
    BY <2>1, <2>2, <2>3 DEF Change
<1>11. ASSUME NEW n \in Nodes, NEW m, node' = [node EXCEPT ![n] = m], lock[n] = None,
              UNCHANGED <<book, lock, tx>>
       PROVE  TxInv'
  <2>1. ASSUME NEW q \in Pods
        PROVE  TxOk(q)'
    <3>1. Holds(q) => tx[q].to.node # n
      BY <1>b, <1>11, PlacementConstants
    <3>2. tx[q].pc = "commit" => node'[tx[q].to.node] = node[tx[q].to.node]
      BY <1>a, <1>b, <1>11, <3>1 DEF Holds, TypeOK
    <3>3. QED
      BY <1>a, <1>b, <1>11, <3>2, TxSame
  <2>2. QED
    BY <2>1 DEF TxInv
<1>12. ASSUME NEW n \in Nodes, \/ SetNodeDraining(n) \/ ExpireNodes(n) \/ Reports(n)
                               \/ \E s \in Slots : UpdateNodeSettings(n, s)
                               \/ \E force \in BOOLEAN : RemoveNode(n, force)
       PROVE  TxInv'
  <2>1. lock[n] = None /\ UNCHANGED <<book, lock, tx>>
    BY <1>12 DEF SetNodeDraining, ExpireNodes, Reports, UpdateNodeSettings, RemoveNode, NodeWrite
  <2>2. node' = [node EXCEPT ![n] = node'[n]]
    BY <1>a, <1>12 DEF SetNodeDraining, ExpireNodes, Reports, UpdateNodeSettings, RemoveNode, TypeOK
  <2>3. QED
    BY <1>11, <2>1, <2>2
<1>13. QED
  BY <1>0, <1>1, <1>2, <1>3, <1>5, <1>6, <1>7, <1>8, <1>10, <1>12 DEF Next, Writes

-----------------------------------------------------------------------------
(* The theorems *)

\* Every step leaves gated bookings that fit.
LEMMA FitStep == PInv /\ [Next]_vars => GatedBookingsFit'
<1>0. SUFFICES ASSUME PInv, [Next]_vars
               PROVE  GatedBookingsFit'
  OBVIOUS
<1>a. TypeOK /\ TxInv /\ GatedBookingsFit
  BY <1>0 DEF PInv
<1>b. ASSUME UNCHANGED book
      PROVE  GatedBookingsFit'
  BY <1>a, <1>b DEF GatedBookingsFit
<1>c. ASSUME NEW p \in Pods, NEW b, book' = [Without(book, p) EXCEPT ![p] = b],
             b.node # None /\ b.gated = "yes" => Fits(b.slots, b.older \cup {p})
      PROVE  GatedBookingsFit'
  <2>1. ASSUME NEW q \in Pods, q # p, book'[q].node # None, book'[q].gated = "yes"
        PROVE  Fits(book'[q].slots, book'[q].older \cup {q})
    <3>1. /\ book'[q].node = book[q].node /\ book'[q].gated = book[q].gated
          /\ book'[q].slots = book[q].slots /\ book'[q].older = book[q].older \ {p}
      BY <1>a, <1>c, <2>1, WithoutColumns
    <3>2. Fits(book[q].slots, book[q].older \cup {q})
      BY <1>a, <2>1, <3>1 DEF GatedBookingsFit
    <3>3. book[q].slots \in Nat /\ book[q].older \in SUBSET Pods
      BY <1>a, SlotsNat
    <3>4. Fits(book[q].slots, (book[q].older \ {p}) \cup {q})
      BY <2>1, <3>2, <3>3, FitsOwn
    <3>5. QED
      BY <3>1, <3>4
  <2>2. book'[p] = b
    BY <1>a, <1>c, WithoutColumns
  <2>3. QED
    BY <1>c, <2>1, <2>2 DEF GatedBookingsFit
<1>1. ASSUME NEW p \in Pods, Commit(p)
      PROVE  GatedBookingsFit'
  <2> DEFINE n == tx[p].to.node
             b == [node |-> n, gated |-> tx[p].gated, slots |-> node[n].slots, older |-> Booked(n, p)]
  <2>1. book' = [Without(book, p) EXCEPT ![p] = b] /\ tx[p].pc = "commit"
    BY <1>1 DEF Commit, UpsertBooking
  <2>2. Ready(p)
    BY <1>a, <2>1 DEF TxInv, TxOk
  <2>3. b.gated = "yes" => Fits(b.slots, b.older \cup {p})
    BY <2>2 DEF Ready
  <2> HIDE DEF b
  <2>4. QED
    BY <1>c, <2>1, <2>3
<1>2. ASSUME NEW p \in Pods, Writes(p)
      PROVE  GatedBookingsFit'
  <2>1. CASE book' = book
    BY <1>b, <2>1
  <2>2. CASE DeleteBooking(p)
    BY <1>c, <2>2 DEF DeleteBooking, NoBooking
  <2>3. QED
    BY <1>a, <1>2, <2>1, <2>2, WritesChange DEF Change
<1>3. ASSUME NEW p \in Pods, \/ Place(p) \/ BeginPinned(p) \/ preemptHibernate(p) \/ LockNode(p) \/ Check(p)
                             \/ Abort(p) \/ \E n \in Nodes : Begin(p, n)
      PROVE  GatedBookingsFit'
  BY <1>3, <1>b DEF Place, BeginPinned, preemptHibernate, Claim, LockNode, Check, Abort, Begin
<1>4. ASSUME NEW n \in Nodes, \/ SetNodeDraining(n) \/ ExpireNodes(n) \/ Reports(n)
                              \/ \E s \in Slots : UpdateNodeSettings(n, s)
                              \/ \E force \in BOOLEAN : RemoveNode(n, force)
      PROVE  GatedBookingsFit'
  BY <1>4, <1>b DEF SetNodeDraining, ExpireNodes, Reports, UpdateNodeSettings, RemoveNode, NodeWrite
<1>5. CASE UNCHANGED vars
  BY <1>5, <1>b DEF vars
<1>6. QED
  BY <1>0, <1>1, <1>2, <1>3, <1>4, <1>5 DEF Next, Writes

\* No sandbox, no booking and no transaction.
LEMMA PlacementInit == Init => PInv
<1> SUFFICES ASSUME Init
             PROVE  PInv
  OBVIOUS
<1>1. NoBooking \in Booking /\ NoBooking.node = None
  BY PlacementConstants DEF NoBooking, Booking, Places
<1>2. At("pending", None) \in Row /\ WellPlaced(At("pending", None))
  BY AtRow DEF States, Places, Placed
<1>3. TypeOK
  <2>1. NoTx \in Tx
    BY <1>2 DEF NoTx, Tx
  <2>2. node \in [Nodes -> NodeRow]
    BY DEF Init, NodeRow
  <2>3. events \in 0 .. MaxEvents
    BY PlacementConstants DEF Init
  <2>4. QED
    BY <1>1, <1>2, <2>1, <2>2, <2>3 DEF Init, TypeOK
<1>4. TxInv
  <2>1. NoTx.pc = "none" /\ NoTx.kind = "claim"
    BY DEF NoTx
  <2>2. QED
    BY <2>1 DEF Init, TxInv, TxOk, Holds
<1>5. GatedBookingsFit
  BY <1>1 DEF Init, GatedBookingsFit
<1>6. QED
  BY <1>3, <1>4, <1>5 DEF PInv

\* PInv is inductive.
LEMMA PlacementSafe == Spec => []PInv
<1>1. PInv /\ [Next]_vars => PInv'
  BY TypeStep, TxStep, FitStep DEF PInv
<1>2. QED
  BY <1>1, PlacementInit, PTL DEF Spec

\* Rows, bookings, nodes and transactions keep their types, and only a pending
\* or hibernated sandbox without an op is without a node.
THEOREM TypeCorrect == Spec => []TypeOK
<1>1. PInv => TypeOK
  BY DEF PInv
<1>2. QED
  BY <1>1, PlacementSafe, PTL

\* A booking that passed the gates fitted into the node with all that was
\* booked there before it, whatever snapshot its placement decided by.
THEOREM GatedFit == Spec => []GatedBookingsFit
<1>1. PInv => GatedBookingsFit
  BY DEF PInv
<1>2. QED
  BY <1>1, PlacementSafe, PTL

\* No create, start, resume or restore begins on a node that is not open, or
\* with a booking that did not pass the gates.
THEOREM ClaimsSafe == Spec => ClaimsMeetNode
<1> DEFINE Meets == \A p \in Pods : row[p].op # row'[p].op /\ row'[p].op \in Admits
                        => Open(row'[p].node) /\ book'[p].node = row'[p].node /\ book'[p].gated = "yes"
<1>1. ASSUME PInv, [Next]_vars
      PROVE  [Meets]_vars
  <2>a. TypeOK /\ TxInv /\ row \in [Pods -> Row]
    BY <1>1 DEF PInv, TypeOK
  <2>1. CASE UNCHANGED row
    BY <2>1
  <2>2. ASSUME NEW p \in Pods, Commit(p)
        PROVE  Meets
    <3> DEFINE n == tx[p].to.node
               b == [node |-> n, gated |-> tx[p].gated, slots |-> node[n].slots, older |-> Booked(n, p)]
    <3>1. /\ book' = [Without(book, p) EXCEPT ![p] = b] /\ tx[p].pc = "commit"
          /\ row' = [row EXCEPT ![p] = tx[p].to]
      BY <2>2 DEF Commit, UpsertBooking
    <3>2. TxOk(p) /\ Ready(p) /\ tx[p].kind \in {"claim", "write"}
      BY <2>a, <3>1 DEF TxInv, TxOk, TypeOK, Tx
    <3>3. b.gated = tx[p].gated /\ b.node = n
      OBVIOUS
    <3> HIDE DEF b
    <3>4. book'[p].gated = tx[p].gated /\ book'[p].node = n
      BY <2>a, <3>1, <3>3, WithoutColumns
    <3>5. row'[p] = tx[p].to /\ \A q \in Pods : q # p => row'[q] = row[q]
      BY <2>a, <3>1
    <3>6. tx[p].to.op \in Admits => Open(n) /\ tx[p].gated = "yes"
      BY <3>2 DEF TxOk, Ready
    <3>7. QED
      BY <3>4, <3>5, <3>6
  <2>3. ASSUME NEW p \in Pods, Writes(p)
        PROVE  Meets
    <3>1. PICK r : Plain(r) /\ Change(p, r)
      BY <2>a, <2>3, WritesChange
    <3>2. r.op \notin Admits
      BY <3>1 DEF Plain
    <3>3. CASE row' = [row EXCEPT ![p] = r]
      <4>1. row'[p] = r /\ \A q \in Pods : q # p => row'[q] = row[q]
        BY <2>a, <3>3
      <4>2. QED
        BY <3>2, <4>1
    <3>4. QED
      BY <2>1, <3>1, <3>3 DEF Change
  <2>4. ASSUME NEW p \in Pods, \/ Place(p) \/ BeginPinned(p) \/ preemptHibernate(p) \/ LockNode(p) \/ Check(p)
                               \/ Abort(p) \/ \E n \in Nodes : Begin(p, n)
        PROVE  Meets
    <3>1. UNCHANGED row
      BY <2>4 DEF Place, BeginPinned, preemptHibernate, Claim, LockNode, Check, Abort, Begin
    <3>2. QED
      BY <2>1, <3>1
  <2>5. ASSUME NEW n \in Nodes, \/ SetNodeDraining(n) \/ ExpireNodes(n) \/ Reports(n)
                                \/ \E s \in Slots : UpdateNodeSettings(n, s)
                                \/ \E force \in BOOLEAN : RemoveNode(n, force)
        PROVE  Meets
    BY <2>5, <2>1 DEF SetNodeDraining, ExpireNodes, Reports, UpdateNodeSettings, RemoveNode, NodeWrite
  <2> HIDE DEF Meets
  <2>6. QED
    BY <1>1, <2>2, <2>3, <2>4, <2>5 DEF Next, Writes
<1>2. PInv /\ [Next]_vars => [Meets]_vars
  BY <1>1
<1>3. QED
  BY <1>2, PlacementSafe, PTL DEF Spec, ClaimsMeetNode

=============================================================================
