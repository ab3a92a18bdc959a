------------------------------- MODULE Leader -------------------------------
(***************************************************************************)
(* The leader lease of the FeRun control plane: go/internal/leader         *)
(* (Elector) over the row of go/internal/store/leases.go.                  *)
(*                                                                         *)
(* Every ferund instance runs an Elector. The lease is one database row    *)
(* with a holder, an epoch (the fencing token) and an expiry on the        *)
(* database's clock. The leader keeps a local step-down deadline, and its  *)
(* loops write in transactions that first lock the lease row in share mode *)
(* and check holder and epoch (Fence).                                     *)
(*                                                                         *)
(* Statements are split where the code waits for the database: a call is   *)
(* sent, begins on the server (PostgreSQL's now() is frozen there, so a    *)
(* statement that waits for a row lock decides with an old now()), takes   *)
(* effect, and is answered. The client may give up at any point; a         *)
(* statement that is its own transaction (acquire, release) may still take *)
(* effect after that, a renewal (BEGIN .. UPDATE .. COMMIT) may not: the   *)
(* server rolls it back unless its COMMIT was already sent.                *)
(***************************************************************************)
EXTENDS Integers

CONSTANTS
    Instance,  \* the ferund instances
    None,      \* no holder
    Tx,        \* database sessions the leader loops' transactions run on
    TTL,       \* LeaseTTL
    Margin,    \* StepDownMargin
    Drift,     \* how much later an instance's clock may reach a deadline
    MaxTime,   \* bound: the database clock stops here
    MaxFaults  \* bound: crashes, stops and abandoned acquisitions in a behaviour

ASSUME ConstantsAssumption ==
    /\ None \notin Instance
    /\ TTL \in Nat /\ Margin \in Nat /\ Drift \in Nat
    /\ Margin < TTL /\ Drift <= Margin
    /\ MaxTime \in Nat /\ MaxFaults \in Nat

VARIABLES
    now,       \* the time; differences are the same on every clock up to Drift
    lease,     \* the leases row; epoch 0 stands for no row
    stmts,     \* abandoned or unawaited statements the server may still run
    pc,        \* where Elector.Run is, per instance
    call,      \* the acquisition or renewal Run waits for
    term,      \* Elector.term; epoch 0 stands for nil
    last,      \* the epoch of Elector.last; 0 stands for nil
    running,   \* Run's context has not ended
    resigned,  \* Elector.resigned
    resign,    \* the epoch Resign still has to release; 0 when it has none
    tx,        \* the transactions of the leader's loops
    wrote,     \* who committed the last fenced write, and in which epoch (history)
    faults     \* how many faults happened, for MaxFaults

vars == <<now, lease, stmts, pc, call, term, last, running, resigned, resign, tx, wrote, faults>>

NoCall == [st |-> "none", sent |-> 0, txnow |-> 0, epoch |-> 0]
NoTerm == [epoch |-> 0, deadline |-> 0]
NoTx   == [st |-> "free", by |-> None, txnow |-> 0, epoch |-> 0]

Lease == [holder: Instance \union {None}, epoch: Nat, expires: Nat]
Stmt  == [op: {"acquire", "release"}, by: Instance, epoch: Nat,
          st: {"sent", "begun"}, txnow: Nat]
Call  == [st: {"none", "sent", "begun", "ok", "no"}, sent: Nat, txnow: Nat, epoch: Nat]
Term  == [epoch: Nat, deadline: Nat]
TxRec == [st: {"free", "begun", "checked", "fenced"}, by: Instance \union {None},
          txnow: Nat, epoch: Nat]

\* The shapes of the lease row, of the electors and of their transactions.
TypeOK ==
    /\ now \in Nat
    /\ lease \in Lease
    /\ stmts \subseteq Stmt
    /\ pc \in [Instance -> {"idle", "acquiring", "leading", "renewing", "ending"}]
    /\ call \in [Instance -> Call]
    /\ term \in [Instance -> Term]
    /\ last \in [Instance -> Nat]
    /\ running \in [Instance -> BOOLEAN]
    /\ resigned \in [Instance -> BOOLEAN]
    /\ resign \in [Instance -> Nat]
    /\ tx \in [Tx -> TxRec]
    /\ \A t \in Tx : tx[t].st # "free" => tx[t].by \in Instance
    /\ wrote \in [by: Instance \union {None}, epoch: Nat]
    /\ faults \in Nat

Init ==
    /\ now = 0
    /\ lease = [holder |-> None, epoch |-> 0, expires |-> 0]
    /\ stmts = {}
    /\ pc = [i \in Instance |-> "idle"]
    /\ call = [i \in Instance |-> NoCall]
    /\ term = [i \in Instance |-> NoTerm]
    /\ last = [i \in Instance |-> 0]
    /\ running = [i \in Instance |-> TRUE]
    /\ resigned = [i \in Instance |-> FALSE]
    /\ resign = [i \in Instance |-> 0]
    /\ tx = [t \in Tx |-> NoTx]
    /\ wrote = [by |-> None, epoch |-> 0]
    /\ faults = 0

-----------------------------------------------------------------------------
(* The lease row: store/leases.go                                          *)

\* LeaseRow.Valid: what ReadLease reports, at the time of the read.
Valid == lease.epoch > 0 /\ lease.expires > now

\* Mutant of ShareLocked: Fence reads the row without FOR SHARE.
ShareLocked_NoLock == FALSE

\* A transaction holds the row's share lock: every UPDATE of it waits.
ShareLocked == \E t \in Tx : tx[t].st = "fenced"

\* AcquireLease's condition, decided with the statement's frozen now().
Acquirable(t0) == lease.epoch = 0 \/ lease.expires < t0

AcquiredBy(i, t0) == [holder |-> i, epoch |-> lease.epoch + 1, expires |-> t0 + TTL]

\* RenewLease's condition: holder, epoch, and not expired at the frozen now().
Renewable(i, e, t0) == lease.holder = i /\ lease.epoch = e /\ lease.expires > t0

\* Mutant of FenceLease: the epoch is not compared.
FenceLease_NoEpoch(i, e, t0) == lease.holder = i /\ lease.expires > t0

\* FenceLease's condition: the same, decided in the loop's transaction.
FenceLease(i, e, t0) == lease.holder = i /\ lease.epoch = e /\ lease.expires > t0

\* The lease after ReleaseLease; it changes nothing for another holder or epoch.
Released(i, e, t0) ==
    IF lease.holder = i /\ lease.epoch = e THEN [lease EXCEPT !.expires = t0] ELSE lease

\* Statement s stays with the server, or never reaches it.
Abandon(s) == stmts' = stmts \union {s} \/ UNCHANGED stmts

Fault == faults < MaxFaults /\ faults' = faults + 1

ReleaseStmt(i, e) ==
    [op |-> "release", by |-> i, epoch |-> e, st |-> "sent", txnow |-> 0]

AcquireStmt(i) ==
    [op |-> "acquire", by |-> i, epoch |-> 0,
     st |-> IF call[i].st = "begun" THEN "begun" ELSE "sent", txnow |-> call[i].txnow]

\* The server begins an unawaited statement: its now() is fixed.
StmtBegin(s) ==
    /\ s.st = "sent"
    /\ stmts' = (stmts \ {s}) \union
           {[op |-> s.op, by |-> s.by, epoch |-> s.epoch, st |-> "begun", txnow |-> now]}
    /\ UNCHANGED <<now, lease, pc, call, term, last, running, resigned, resign, tx, wrote, faults>>

\* An acquisition nobody waits for any more takes effect.
StmtAcquire(s) ==
    /\ s.op = "acquire" /\ s.st = "begun" /\ ~ShareLocked
    /\ lease' = IF Acquirable(s.txnow) THEN AcquiredBy(s.by, s.txnow) ELSE lease
    /\ stmts' = stmts \ {s}
    /\ UNCHANGED <<now, pc, call, term, last, running, resigned, resign, tx, wrote, faults>>

\* ReleaseLease takes effect; its answer only changes a log line.
StmtRelease(s) ==
    /\ s.op = "release" /\ s.st = "begun" /\ ~ShareLocked
    /\ lease' = Released(s.by, s.epoch, s.txnow)
    /\ stmts' = stmts \ {s}
    /\ UNCHANGED <<now, pc, call, term, last, running, resigned, resign, tx, wrote, faults>>

\* The statement's session ends before it takes effect.
StmtLost(s) ==
    /\ stmts' = stmts \ {s}
    /\ UNCHANGED <<now, lease, pc, call, term, last, running, resigned, resign, tx, wrote, faults>>

-----------------------------------------------------------------------------
(* Elector.Run, tryAcquire, lead and renewLoop                             *)

\* The context of i's term has ended: Resign cancelled it, or Run's ended.
Cancelled(i) == resigned[i] \/ ~running[i]

\* Mutants of Deadline: counted from the answer, and without the TTL.
Deadline_FromAnswer(sent, d) == now + TTL - Margin + d
Deadline_NoTTL(sent, d) == sent - Margin + d

\* The step-down deadline of a term whose lease was asked for at `sent`: d is
\* how far the instance's clock lags the database's over that time.
Deadline(sent, d) == sent + TTL - Margin + d

\* tryAcquire: the lease is read, found absent or expired, and asked for.
TryAcquire(i) ==
    /\ pc[i] = "idle" /\ running[i] /\ ~resigned[i]
    /\ ~Valid
    /\ pc' = [pc EXCEPT ![i] = "acquiring"]
    /\ call' = [call EXCEPT ![i] = [NoCall EXCEPT !.st = "sent", !.sent = now]]
    /\ UNCHANGED <<now, lease, stmts, term, last, running, resigned, resign, tx, wrote, faults>>

\* The call i waits for has its answer: ok or not, and the epoch acquired.
Answered(i, st, e) ==
    [call EXCEPT ![i] = [st |-> st, sent |-> call[i].sent, txnow |-> 0, epoch |-> e]]

\* The call Run waits for begins on the server.
CallBegin(i) ==
    /\ call[i].st = "sent"
    /\ call' = [call EXCEPT ![i] = [st |-> "begun", sent |-> call[i].sent,
                                     txnow |-> now, epoch |-> 0]]
    /\ UNCHANGED <<now, lease, stmts, pc, term, last, running, resigned, resign, tx, wrote, faults>>

\* AcquireLease takes effect, or finds the lease held.
AcquireLease(i) ==
    /\ pc[i] = "acquiring" /\ call[i].st = "begun" /\ ~ShareLocked
    /\ \/ /\ Acquirable(call[i].txnow)
          /\ lease' = AcquiredBy(i, call[i].txnow)
          /\ call' = Answered(i, "ok", lease.epoch + 1)
       \/ /\ ~Acquirable(call[i].txnow)
          /\ call' = Answered(i, "no", 0)
          /\ UNCHANGED lease
    /\ UNCHANGED <<now, stmts, pc, term, last, running, resigned, resign, tx, wrote, faults>>

\* tryAcquire returns false: the lease was held, or the call failed or timed
\* out. A statement that is still with the server may take effect later.
AcquireFails(i) ==
    /\ pc[i] = "acquiring"
    /\ pc' = [pc EXCEPT ![i] = "idle"]
    /\ call' = [call EXCEPT ![i] = NoCall]
    /\ \/ call[i].st = "no" /\ UNCHANGED <<stmts, faults>>
       \/ call[i].st = "ok" /\ Fault /\ UNCHANGED stmts
       \/ call[i].st \in {"sent", "begun"} /\ Fault /\ Abandon(AcquireStmt(i))
    /\ UNCHANGED <<now, lease, term, last, running, resigned, resign, tx, wrote>>

\* lead: the term begins; an instance that resigned meanwhile gives the lease
\* back instead.
Lead(i) ==
    /\ pc[i] = "acquiring" /\ call[i].st = "ok"
    /\ call' = [call EXCEPT ![i] = NoCall]
    /\ \/ /\ resigned[i]
          /\ Abandon(ReleaseStmt(i, call[i].epoch))
          /\ pc' = [pc EXCEPT ![i] = "idle"]
          /\ UNCHANGED <<term, last>>
       \/ /\ ~resigned[i]
          /\ \E d \in 0..Drift :
                term' = [term EXCEPT ![i] =
                    [epoch |-> call[i].epoch, deadline |-> Deadline(call[i].sent, d)]]
          /\ last' = [last EXCEPT ![i] = call[i].epoch]
          /\ pc' = [pc EXCEPT ![i] = "leading"]
          /\ UNCHANGED stmts
    /\ UNCHANGED <<now, lease, running, resigned, resign, tx, wrote, faults>>

\* renewLoop's tick. A renewal after the deadline fails at once (its context
\* has that deadline), which is EndTerm's step.
RenewSend(i) ==
    /\ pc[i] = "leading" /\ ~Cancelled(i) /\ now < term[i].deadline
    /\ pc' = [pc EXCEPT ![i] = "renewing"]
    /\ call' = [call EXCEPT ![i] = [NoCall EXCEPT !.st = "sent", !.sent = now]]
    /\ UNCHANGED <<now, lease, stmts, term, last, running, resigned, resign, tx, wrote, faults>>

\* RenewLease takes effect, or finds the lease lost.
RenewLease(i) ==
    /\ pc[i] = "renewing" /\ call[i].st = "begun" /\ ~ShareLocked
    /\ \/ /\ Renewable(i, term[i].epoch, call[i].txnow)
          /\ lease' = [lease EXCEPT !.expires = call[i].txnow + TTL]
          /\ call' = Answered(i, "ok", 0)
       \/ /\ ~Renewable(i, term[i].epoch, call[i].txnow)
          /\ call' = Answered(i, "no", 0)
          /\ UNCHANGED lease
    /\ UNCHANGED <<now, stmts, pc, term, last, running, resigned, resign, tx, wrote, faults>>

\* renewLoop goes on with a deadline counted from the renewal's send.
Renewed(i) ==
    /\ pc[i] = "renewing" /\ call[i].st = "ok" /\ ~Cancelled(i)
    /\ \E d \in 0..Drift : term' = [term EXCEPT ![i].deadline = Deadline(call[i].sent, d)]
    /\ pc' = [pc EXCEPT ![i] = "leading"]
    /\ call' = [call EXCEPT ![i] = NoCall]
    /\ UNCHANGED <<now, lease, stmts, last, running, resigned, resign, tx, wrote, faults>>

\* renewLoop returns (the context ended, the deadline passed, or the renewal
\* failed or found the lease lost) and lead clears the term.
EndTerm(i) ==
    /\ \/ pc[i] = "leading" /\ (Cancelled(i) \/ now >= term[i].deadline)
       \/ pc[i] = "renewing"
    /\ term' = [term EXCEPT ![i] = NoTerm]
    /\ pc' = [pc EXCEPT ![i] = "ending"]
    /\ call' = [call EXCEPT ![i] = NoCall]
    /\ UNCHANGED <<now, lease, stmts, last, running, resigned, resign, tx, wrote, faults>>

\* The loops' runs have returned: the term is done, Run competes again. What
\* their transactions already sent may still be with the server.
LoopsDone(i) ==
    /\ pc[i] = "ending"
    /\ pc' = [pc EXCEPT ![i] = "idle"]
    /\ tx' = [t \in Tx |-> IF tx[t].by = i /\ tx[t].st = "begun" THEN NoTx ELSE tx[t]]
    /\ UNCHANGED <<now, lease, stmts, call, term, last, running, resigned, resign, wrote, faults>>

\* Run's context ends without Resign; a Run that is not in a term returns.
RunEnds(i) ==
    /\ running[i] /\ Fault
    /\ running' = [running EXCEPT ![i] = FALSE]
    /\ UNCHANGED <<now, lease, stmts, pc, call, term, last, resigned, resign, tx, wrote>>

\* Resign: leadership ends for good; the current or the last term's lease is
\* to be released.
Resign(i) ==
    /\ ~resigned[i] /\ Fault
    /\ resigned' = [resigned EXCEPT ![i] = TRUE]
    /\ resign' = [resign EXCEPT ![i] =
                    IF term[i].epoch > 0 THEN term[i].epoch ELSE last[i]]
    /\ UNCHANGED <<now, lease, stmts, pc, call, term, last, running, tx, wrote>>

\* Mutant of ResignRelease: the lease is released before the loops returned.
ResignRelease_NoWait(i) ==
    /\ resign[i] > 0
    /\ Abandon(ReleaseStmt(i, resign[i]))
    /\ resign' = [resign EXCEPT ![i] = 0]
    /\ UNCHANGED <<now, lease, pc, call, term, last, running, resigned, tx, wrote, faults>>

\* Resign waited for the term's loops and releases its lease, or its context
\* ended first.
ResignRelease(i) ==
    /\ resign[i] > 0
    /\ \/ pc[i] \in {"idle", "acquiring"} /\ Abandon(ReleaseStmt(i, resign[i]))
       \/ UNCHANGED stmts
    /\ resign' = [resign EXCEPT ![i] = 0]
    /\ UNCHANGED <<now, lease, pc, call, term, last, running, resigned, tx, wrote, faults>>

\* The process dies and starts again under its id: only the database knows of
\* the term, and statements already sent may still take effect.
Crash(i) ==
    /\ Fault
    /\ pc' = [pc EXCEPT ![i] = "idle"]
    /\ call' = [call EXCEPT ![i] = NoCall]
    /\ term' = [term EXCEPT ![i] = NoTerm]
    /\ last' = [last EXCEPT ![i] = 0]
    /\ running' = [running EXCEPT ![i] = TRUE]
    /\ resigned' = [resigned EXCEPT ![i] = FALSE]
    /\ resign' = [resign EXCEPT ![i] = 0]
    /\ \/ pc[i] = "acquiring" /\ call[i].st \in {"sent", "begun"} /\ Abandon(AcquireStmt(i))
       \/ UNCHANGED stmts
    /\ tx' = [t \in Tx |-> IF tx[t].by = i /\ tx[t].st = "begun" THEN NoTx ELSE tx[t]]
    /\ UNCHANGED <<now, lease, wrote>>

-----------------------------------------------------------------------------
(* Fenced transactions of the leader's loops: Elector.Fence                *)

InTerm(i) == pc[i] \in {"leading", "renewing"} /\ ~Cancelled(i)

\* IsLeader: a term, and its step-down deadline has not passed.
IsLeader(i) == term[i].epoch > 0 /\ now < term[i].deadline

\* A loop's run begins a transaction: its now() is fixed.
TxBegin(t, i) ==
    /\ tx[t].st = "free" /\ InTerm(i)
    /\ tx' = [tx EXCEPT ![t] = [st |-> "begun", by |-> i, txnow |-> now, epoch |-> 0]]
    /\ UNCHANGED <<now, lease, stmts, pc, call, term, last, running, resigned, resign, wrote, faults>>

\* Fence reads the term under the elector's mutex.
TxCheck(t) ==
    /\ tx[t].st = "begun" /\ IsLeader(tx[t].by)
    /\ tx' = [tx EXCEPT ![t] = [st |-> "checked", by |-> tx[t].by, txnow |-> tx[t].txnow,
                                  epoch |-> term[tx[t].by].epoch]]
    /\ UNCHANGED <<now, lease, stmts, pc, call, term, last, running, resigned, resign, wrote, faults>>

\* Fence's SELECT .. FOR SHARE: the row is locked until the transaction ends.
Fence(t) ==
    /\ tx[t].st = "checked"
    /\ FenceLease(tx[t].by, tx[t].epoch, tx[t].txnow)
    /\ tx' = [tx EXCEPT ![t].st = "fenced"]
    /\ UNCHANGED <<now, lease, stmts, pc, call, term, last, running, resigned, resign, wrote, faults>>

\* The transaction commits what the loop wrote. Its COMMIT may have been sent
\* before the term's context ended and arrive after.
TxCommit(t) ==
    /\ tx[t].st = "fenced"
    /\ wrote' = [by |-> tx[t].by, epoch |-> tx[t].epoch]
    /\ tx' = [tx EXCEPT ![t] = NoTx]
    /\ UNCHANGED <<now, lease, stmts, pc, call, term, last, running, resigned, resign, faults>>

\* ErrNotLeader, an error or the end of the session aborts it.
TxAbort(t) ==
    /\ tx[t].st \in {"begun", "checked", "fenced"}
    /\ tx' = [tx EXCEPT ![t] = NoTx]
    /\ UNCHANGED <<now, lease, stmts, pc, call, term, last, running, resigned, resign, wrote, faults>>

-----------------------------------------------------------------------------
Tick ==
    /\ now < MaxTime
    /\ now' = now + 1
    /\ UNCHANGED <<lease, stmts, pc, call, term, last, running, resigned, resign, tx, wrote, faults>>

StmtStep(s) == StmtBegin(s) \/ StmtAcquire(s) \/ StmtRelease(s) \/ StmtLost(s)

ElectorStep(i) ==
    \/ TryAcquire(i) \/ CallBegin(i) \/ AcquireLease(i) \/ AcquireFails(i) \/ Lead(i)
    \/ RenewSend(i) \/ RenewLease(i) \/ Renewed(i) \/ EndTerm(i) \/ LoopsDone(i)
    \/ RunEnds(i) \/ Resign(i) \/ ResignRelease(i) \/ Crash(i)

TxStep(t) ==
    \/ \E i \in Instance : TxBegin(t, i)
    \/ TxCheck(t) \/ Fence(t) \/ TxCommit(t) \/ TxAbort(t)

Next ==
    \/ Tick
    \/ \E s \in stmts : StmtStep(s)
    \/ \E i \in Instance : ElectorStep(i)
    \/ \E t \in Tx : TxStep(t)

Spec == Init /\ [][Next]_vars

-----------------------------------------------------------------------------
(* Properties                                                              *)

\* IsLeader is true on at most one instance at a time, although each decides
\* from its own clock: the step-down deadline precedes the expiry after which
\* another instance acquires.
AtMostOneLeader ==
    \A i, j \in Instance : IsLeader(i) /\ IsLeader(j) => i = j

\* While IsLeader is true the instance's row is the lease, in the term's epoch
\* and unexpired: a fence taken now succeeds and no acquisition does.
LeaderHoldsLease ==
    \A i \in Instance : IsLeader(i) =>
        /\ lease.holder = i /\ lease.epoch = term[i].epoch
        /\ now < lease.expires

\* What Fence promises: from the share lock to the commit the transaction's
\* instance holds the lease in the epoch it checked, so a deposed leader's
\* transaction never commits after its successor's acquisition.
FenceHolds ==
    \A t \in Tx : tx[t].st = "fenced" =>
        lease.holder = tx[t].by /\ lease.epoch = tx[t].epoch

\* What the lease gives the leader's loops (module Fencing).
Fenced == INSTANCE Fencing WITH epoch <- lease.epoch, holder <- lease.holder, wrote <- wrote
FencedSpec == Fenced!Spec
=============================================================================
