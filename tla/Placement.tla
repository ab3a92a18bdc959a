------------------------------ MODULE Placement ------------------------------
(***************************************************************************)
(* Placement of several sandboxes on the nodes' capacity                    *)
(* (go/internal/sandbox/placement.go, begin.go, change.go; store/bookings.go*)
(* and nodes.go), statement by statement: a placement decides by a snapshot *)
(* without locks, and each begin claims a node under its row's lock; a      *)
(* write that finds a pod in use books it past the gates.  A transaction    *)
(* holds the sandbox's row, so there is at most one per sandbox.            *)
(***************************************************************************)
EXTENDS Integers, FiniteSets

CONSTANTS
    Pods, Nodes,
    Total,     \* the memory that a set of pods takes
    Slots,     \* the values an operator gives a node's slots
    Memory,    \* a node's memory less its headroom
    MaxEvents, \* drains, settings, failures and removals of nodes
    None

ASSUME PlacementConstants ==
    /\ None \notin Pods \cup Nodes
    /\ IsFiniteSet(Pods)
    /\ Total \in [SUBSET Pods -> Nat]
    /\ \A S \in SUBSET Pods, p \in Pods : Total[S] <= Total[S \cup {p}]
    /\ Slots \subseteq Nat /\ Slots # {} /\ Memory \in Nat /\ MaxEvents \in Nat

VARIABLES
    row,    \* the rows of sandboxes
    book,   \* the bookings
    node,   \* the rows of nodes
    lock,   \* the transaction that holds a node's row FOR UPDATE
    plan,   \* the candidates of a placement not yet tried
    tx,     \* the transaction on a sandbox's row
    events

vars == <<row, book, node, lock, plan, tx, events>>

-----------------------------------------------------------------------------
States == {"pending", "creating", "running", "pausing", "paused", "resuming", "hibernating", "hibernated",
           "stopped", "unknown", "lost"}
Places == Nodes \cup {None}

\* The ops that claim their target (admits), and the others.
Admits == {"create", "start", "resume", "restore"}
Ops == Admits \cup {"pause", "hibernate", "repair", ""}

\* A sandbox's row: with an op, from and old are the state and the node that a
\* rollback of the op writes back.
Row == [state : States, node : Places, op : Ops, from : States, old : Places]
At(s, n) == [state |-> s, node |-> n, op |-> "", from |-> "pending", old |-> None]

transitional(k) ==
    CASE k = "resume" -> "resuming" [] k = "pause" -> "pausing" [] k = "hibernate" -> "hibernating"
      [] OTHER -> "creating"

\* The row r with op k towards n.
WithOp(r, k, n) == [state |-> transitional(k), node |-> n, op |-> k, from |-> r.state, old |-> r.node]

\* A booking: its node, whether it passed the gates, and, as history, the
\* slots it was booked against and the older bookings that still stand.
Booking == [node : Places, gated : {"yes", "no"}, slots : Slots, older : SUBSET Pods]
NoBooking == [node |-> None, gated |-> "no", slots |-> CHOOSE s \in Slots : TRUE, older |-> {}]

NodeRow == [status : {"ready", "down", "removed"}, draining : {"yes", "no"}, slots : Slots]

\* A transaction that writes the row to, and books it on its node.
Tx == [pc : {"none", "lock", "check", "commit"}, kind : {"claim", "write"}, to : Row, gated : {"yes", "no"}]
NoTx == [pc |-> "none", kind |-> "claim", to |-> At("pending", None), gated |-> "no"]

Begun(kind, r) == [pc |-> "lock", kind |-> kind, to |-> r, gated |-> "no"]

\* bookingOf
MustBook == {"creating", "running", "pausing", "resuming"}
KeepsBooking == {"hibernating", "unknown"}

\* SumBookings: what is booked on n without p.
Booked(n, p) == {q \in Pods \ {p} : book[q].node = n}

\* The capacity gates of a node with s slots for the pods ps.
Fits(s, ps) ==
    /\ Cardinality(ps) <= s
    /\ Total[ps] <= Memory

\* The gates on the node's row.
Open(n) == node[n].status = "ready" /\ node[n].draining = "no"

-----------------------------------------------------------------------------
(* Bookings *)

Without(b, p) == [q \in Pods |-> [b[q] EXCEPT !.older = @ \ {p}]]

\* UpsertBooking
UpsertBooking(p, n, gated) ==
    book' = [Without(book, p) EXCEPT ![p] =
                [node |-> n, gated |-> gated, slots |-> node[n].slots, older |-> Booked(n, p)]]

\* DeleteBooking
DeleteBooking(p) == book' = [Without(book, p) EXCEPT ![p] = NoBooking]

-----------------------------------------------------------------------------
(* Placement and begin *)

\* place: the feasible nodes of a snapshot.
Place(p) ==
    /\ row[p].state \in {"pending", "hibernated"} /\ plan[p] = {} /\ tx[p] = NoTx
    /\ plan' = [plan EXCEPT ![p] = {n \in Nodes : Open(n) /\ Fits(node[n].slots, Booked(n, p) \cup {p})}]
    /\ UNCHANGED <<row, book, node, lock, tx, events>>

Claim(p, r) ==
    /\ tx' = [tx EXCEPT ![p] = Begun("claim", r)]
    /\ UNCHANGED <<row, book, node, lock, events>>

\* beginOn, for one candidate of a create or restore.
Begin(p, n) ==
    /\ n \in plan[p] /\ tx[p] = NoTx
    /\ \/ /\ row[p].state = "pending" /\ Claim(p, WithOp(row[p], "create", n))
          /\ plan' = [plan EXCEPT ![p] = @ \ {n}]
       \/ /\ row[p].state = "hibernated" /\ Claim(p, WithOp(row[p], "restore", n))
          /\ plan' = [plan EXCEPT ![p] = @ \ {n}]
       \/ /\ row[p].state \notin {"pending", "hibernated"}
          /\ plan' = [plan EXCEPT ![p] = {}]
          /\ UNCHANGED <<row, book, node, lock, tx, events>>

\* beginOn of a start or resume, on the sandbox's own node.
BeginPinned(p) ==
    /\ tx[p] = NoTx /\ row[p].op = ""
    /\ \/ row[p].state = "stopped" /\ Claim(p, WithOp(row[p], "start", row[p].node))
       \/ row[p].state = "paused" /\ Claim(p, WithOp(row[p], "resume", row[p].node))
    /\ UNCHANGED plan

\* A resume in the place of a paused sandbox's hibernate: a rollback leaves
\* unknown what the hibernate made of the pod.
preemptHibernate(p) ==
    /\ tx[p] = NoTx /\ row[p].op = "hibernate" /\ row[p].from = "paused"
    /\ Claim(p, [WithOp(row[p], "resume", row[p].node) EXCEPT !.from = "unknown"])
    /\ UNCHANGED plan

\* The node whose row the transaction locks.
Target(p) == tx[p].to.node

\* Mutant: only a claim locks the node.
LockNode_Claims(p) ==
    /\ tx[p].pc = "lock"
    /\ \/ /\ tx[p].kind = "claim" /\ lock[Target(p)] = None
          /\ lock' = [lock EXCEPT ![Target(p)] = p]
       \/ tx[p].kind = "write" /\ UNCHANGED lock
    /\ tx' = [tx EXCEPT ![p].pc = "check"]
    /\ UNCHANGED <<row, book, node, plan, events>>

\* LockNode FOR UPDATE: by a claim, and by syncBooking.
LockNode(p) ==
    /\ tx[p].pc = "lock" /\ lock[Target(p)] = None
    /\ lock' = [lock EXCEPT ![Target(p)] = p]
    /\ tx' = [tx EXCEPT ![p].pc = "check"]
    /\ UNCHANGED <<row, book, node, plan, events>>

Unlock(p) == lock' = [n \in Nodes |-> IF lock[n] = p THEN None ELSE lock[n]]

\* Mutant: the claim counts on the gates its placement passed.
Check_Trusts(p) ==
    /\ tx[p].pc = "check"
    /\ tx' = [tx EXCEPT ![p].pc = "commit", ![p].gated = "yes"]
    /\ UNCHANGED <<row, book, node, lock, plan, events>>

\* claim: the gates again.  syncBooking: capacityRefusal, which only marks.
Check(p) ==
    LET n == Target(p)
        fits == Fits(node[n].slots, Booked(n, p) \cup {p})
    IN  /\ tx[p].pc = "check"
        /\ \/ /\ tx[p].kind = "claim" => Open(n) /\ fits
              /\ tx' = [tx EXCEPT ![p].pc = "commit", ![p].gated = IF fits THEN "yes" ELSE "no"]
              /\ UNCHANGED lock
           \/ /\ tx[p].kind = "claim" /\ ~(Open(n) /\ fits)
              /\ tx' = [tx EXCEPT ![p] = NoTx]
              /\ Unlock(p)
        /\ UNCHANGED <<row, book, node, plan, events>>

\* The booking and the sandbox's row, and the locks go.
Commit(p) ==
    /\ tx[p].pc = "commit"
    /\ UpsertBooking(p, Target(p), tx[p].gated)
    /\ row' = [row EXCEPT ![p] = tx[p].to]
    /\ plan' = IF tx[p].kind = "claim" THEN [plan EXCEPT ![p] = {}] ELSE plan
    /\ tx' = [tx EXCEPT ![p] = NoTx]
    /\ Unlock(p)
    /\ UNCHANGED <<node, events>>

\* A transaction fails; its connection was lost, or another gate refused.
Abort(p) ==
    /\ tx[p].pc \in {"check", "commit"}
    /\ tx' = [tx EXCEPT ![p] = NoTx]
    /\ Unlock(p)
    /\ UNCHANGED <<row, book, node, plan, events>>

-----------------------------------------------------------------------------
(* Writes of the row that claim nothing: begins, ends of ops, syncs, sweeps *)

\* The states of the row's own pod on n that a sync or an op's end may see.
observeOurs(n) == {At(s, n) : s \in {"creating", "running", "paused", "hibernated", "stopped"}}

\* Mutant: a lost sandbox forgets its node.
notFound_Forgets(n) == {At("hibernated", None), At("lost", None), At("pending", None)}

\* No pod on n: the checkpoint decides, then whether a pod was ever seen.
notFound(n) == {At("hibernated", None), At("lost", n), At("pending", None)}

\* The state r uses a node where there is no booking.
NeedsBooking(p, r) == r.state \in MustBook /\ r.node # None /\ book[p].node # r.node

\* commit and syncBooking: the row becomes r, and the booking follows it, in a
\* transaction that locks the node where one is to be made.
Change(p, r) ==
    /\ tx[p] = NoTx
    /\ \/ /\ NeedsBooking(p, r)
          /\ tx' = [tx EXCEPT ![p] = Begun("write", r)]
          /\ UNCHANGED <<row, book>>
       \/ /\ ~NeedsBooking(p, r)
          /\ row' = [row EXCEPT ![p] = r]
          /\ IF r.state \in MustBook \cup KeepsBooking THEN UNCHANGED book ELSE DeleteBooking(p)
          /\ UNCHANGED tx
    /\ UNCHANGED <<node, lock, plan, events>>

\* beginOn of a pause, a repair, or a hibernate, of a paused sandbox or a drain's.
BeginOwn(p) ==
    /\ row[p].op = ""
    /\ \/ row[p].state = "running" /\ Change(p, WithOp(row[p], "pause", row[p].node))
       \/ row[p].state \in {"creating", "running"} /\ Change(p, WithOp(row[p], "repair", row[p].node))
       \/ row[p].state \in {"paused", "stopped", "running"} /\ Change(p, WithOp(row[p], "hibernate", row[p].node))

\* applyOutcome, and releaseOp: what the op's target holds decides; no answer,
\* or an owner that is gone, leaves it unknown.
Finish(p) ==
    /\ row[p].op # ""
    /\ \E r \in observeOurs(row[p].node) \cup notFound(row[p].node) \cup {At("unknown", row[p].node)} : Change(p, r)

\* rollback: nothing was sent.
Rollback(p) == row[p].op # "" /\ Change(p, At(row[p].from, row[p].old))

\* applySync, reconcilePod and reconcileMissing.
Sync(p) ==
    /\ row[p].op = "" /\ row[p].node # None
    /\ \E r \in observeOurs(row[p].node) \cup notFound(row[p].node) : Change(p, r)

Out(n) == n \in Nodes /\ node[n].status \in {"down", "removed"}

DownSweep(p) ==
    /\ row[p].op = "" /\ Out(row[p].node) /\ row[p].state \in {"running", "paused", "creating", "stopped"}
    /\ Change(p, At("unknown", row[p].node))

\* The node is out for longer than the grace: as notFound, but the node stays
\* with a checkpoint too.
LostGrace(p) ==
    /\ row[p].op = "" /\ Out(row[p].node) /\ row[p].state = "unknown"
    /\ \E r \in {At("hibernated", row[p].node), At("lost", row[p].node), At("pending", None)} : Change(p, r)

-----------------------------------------------------------------------------
(* Nodes: each write waits for the row's lock *)

NodeWrite(n) ==
    /\ events < MaxEvents /\ events' = events + 1
    /\ lock[n] = None
    /\ UNCHANGED <<row, book, lock, plan, tx>>

\* setDraining: only a node in service begins to drain.
SetNodeDraining(n) ==
    /\ NodeWrite(n) /\ (node[n].draining = "no" => node[n].status = "ready")
    /\ node' = [node EXCEPT ![n].draining = IF @ = "yes" THEN "no" ELSE "yes"]

\* An operator's change of the slots.
UpdateNodeSettings(n, s) ==
    /\ NodeWrite(n) /\ s # node[n].slots
    /\ node' = [node EXCEPT ![n].slots = s]

\* ExpireNodes, and the node that reports again.
ExpireNodes(n) ==
    /\ NodeWrite(n) /\ node[n].status = "ready"
    /\ node' = [node EXCEPT ![n].status = "down"]

Reports(n) ==
    /\ lock[n] = None /\ node[n].status = "down"
    /\ node' = [node EXCEPT ![n].status = "ready"]
    /\ UNCHANGED <<row, book, lock, plan, tx, events>>

\* removeNode, by force or with no sandbox on it.
RemoveNode(n, force) ==
    /\ NodeWrite(n) /\ node[n].status # "removed"
    /\ force \/ \A p \in Pods : row[p].node # n
    /\ node' = [node EXCEPT ![n].status = "removed"]

-----------------------------------------------------------------------------
Init ==
    /\ row = [p \in Pods |-> At("pending", None)]
    /\ book = [p \in Pods |-> NoBooking]
    /\ \E s \in Slots : node = [n \in Nodes |-> [status |-> "ready", draining |-> "no", slots |-> s]]
    /\ lock = [n \in Nodes |-> None]
    /\ plan = [p \in Pods |-> {}]
    /\ tx = [p \in Pods |-> NoTx]
    /\ events = 0

Next ==
    \/ \E p \in Pods :
        \/ Place(p) \/ BeginPinned(p) \/ preemptHibernate(p)
        \/ LockNode(p) \/ Check(p) \/ Commit(p) \/ Abort(p)
        \/ BeginOwn(p) \/ Finish(p) \/ Rollback(p) \/ Sync(p) \/ DownSweep(p) \/ LostGrace(p)
        \/ \E n \in Nodes : Begin(p, n)
    \/ \E n \in Nodes :
        \/ SetNodeDraining(n) \/ ExpireNodes(n) \/ Reports(n)
        \/ \E s \in Slots : UpdateNodeSettings(n, s)
        \/ \E force \in BOOLEAN : RemoveNode(n, force)

Spec == Init /\ [][Next]_vars

-----------------------------------------------------------------------------
(* Properties *)

\* Only a pending or hibernated sandbox may be without a node.
Placed(s, n) == (s = "pending" => n = None) /\ (n = None => s \in {"pending", "hibernated"})

\* So is the row an op's rollback writes; a row with an op has a node.
WellPlaced(r) == Placed(r.state, r.node) /\ Placed(r.from, r.old) /\ (r.op # "" => r.node # None)

\* Types; an observation that finds no pod, a lost node and a rollback leave
\* no row, with an op or without, that lacks the node its state needs.
TypeOK ==
    /\ row \in [Pods -> Row]
    /\ book \in [Pods -> Booking]
    /\ node \in [Nodes -> NodeRow]
    /\ lock \in [Nodes -> Pods \cup {None}]
    /\ plan \in [Pods -> SUBSET Nodes]
    /\ tx \in [Pods -> Tx]
    /\ events \in 0 .. MaxEvents
    /\ \A p \in Pods : WellPlaced(row[p])

\* A gated booking fits, with every older booking on its node that still stands,
\* into what the node had when it was made, though placements decide by stale
\* snapshots: an overbooked node has a booking that reality made, or was shrunk.
GatedBookingsFit ==
    \A p \in Pods : book[p].node # None /\ book[p].gated = "yes" => Fits(book[p].slots, book[p].older \cup {p})

\* A create, start, resume or restore never begins on a node that is draining,
\* down or removed when it commits, and its booking there passed the gates; a pod
\* that a sync finds starting there is no such begin.
ClaimsMeetNode ==
    [][\A p \in Pods : row[p].op # row'[p].op /\ row'[p].op \in Admits
        => Open(row'[p].node) /\ book'[p].node = row'[p].node /\ book'[p].gated = "yes"]_vars
=============================================================================
