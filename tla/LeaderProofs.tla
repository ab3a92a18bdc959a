---------------------------- MODULE LeaderProofs ----------------------------
(***************************************************************************)
(* Proofs about module Leader, for any set of instances and sessions, any  *)
(* TTL and margin, and any clock drift up to the margin.                   *)
(***************************************************************************)
EXTENDS Leader, TLAPS

\* A term, or a successful answer on its way, is either backed by the row
\* until `until`, or was superseded after `until` had passed.
Backed(i, e, until) ==
    \/ lease.epoch = e /\ lease.holder = i /\ until <= lease.expires
    \/ e < lease.epoch /\ until <= now

\* The program counter tells which of term and call are in use.
ControlInv ==
    \A i \in Instance :
        /\ pc[i] \in {"idle", "leading", "ending"} => call[i] = NoCall
        /\ pc[i] \in {"idle", "acquiring", "ending"} => term[i] = NoTerm
        /\ pc[i] \in {"leading", "renewing"} => term[i].epoch > 0

\* A statement's now() lies between its send and the present.
CallInv ==
    \A i \in Instance :
        /\ call[i].sent <= now
        /\ call[i].st = "begun" => call[i].sent <= call[i].txnow /\ call[i].txnow <= now

\* A leader's deadline is covered by the row, and never further away than a
\* fresh renewal would put the row's expiry.
TermInv ==
    \A i \in Instance :
        /\ term[i].epoch > 0 => Backed(i, term[i].epoch, term[i].deadline)
        /\ pc[i] = "leading" => term[i].deadline <= now + TTL
        /\ pc[i] = "renewing" => term[i].deadline <= call[i].sent + TTL

\* An answer that has not been read yet covers the deadline it will set.
AnswerInv ==
    \A i \in Instance : call[i].st = "ok" =>
        /\ pc[i] = "acquiring" =>
              /\ call[i].epoch > last[i]
              /\ Backed(i, call[i].epoch, call[i].sent + TTL)
        /\ pc[i] = "renewing" => Backed(i, term[i].epoch, call[i].sent + TTL)

\* Epochs an elector remembers were all given out by the row.
EpochInv ==
    \A i \in Instance :
        /\ last[i] <= lease.epoch /\ resign[i] <= last[i]
        /\ term[i].epoch <= last[i]

\* A release on its way names a term that is over, so it takes the lease from
\* no term the elector still reports or is about to begin.
StmtOK(s) ==
    /\ s.st = "begun" => s.txnow <= now
    /\ s.op = "release" =>
          /\ s.epoch <= lease.epoch
          /\ term[s.by].epoch # s.epoch \/ s.epoch = 0
          /\ pc[s.by] = "acquiring" /\ call[s.by].st = "ok" => call[s.by].epoch # s.epoch

StmtInv == \A s \in stmts : StmtOK(s)

\* The inductive invariant.
IInv ==
    /\ TypeOK /\ ControlInv /\ CallInv /\ TermInv /\ AnswerInv /\ EpochInv /\ StmtInv
    /\ FenceHolds

-----------------------------------------------------------------------------
(* Type correctness                                                        *)

\* An answer is a call's record again.
LEMMA AnsweredType ==
    ASSUME call \in [Instance -> Call], NEW i \in Instance,
           NEW st \in {"ok", "no"}, NEW e \in Nat
    PROVE  Answered(i, st, e) \in [Instance -> Call]
  BY DEF Answered, Call

\* Every step keeps the shapes of TypeOK.
LEMMA TypeStep == TypeOK /\ [Next]_vars => TypeOK'
<1> SUFFICES ASSUME TypeOK, [Next]_vars PROVE TypeOK'
  OBVIOUS
<1> USE ConstantsAssumption DEF TypeOK, Lease, Stmt, Call, Term, TxRec
<1>1. CASE Tick
  BY <1>1 DEF Tick
<1>2. ASSUME NEW s \in stmts, StmtBegin(s) PROVE TypeOK'
  BY <1>2 DEF StmtBegin
<1>3. ASSUME NEW s \in stmts, StmtAcquire(s) PROVE TypeOK'
  BY <1>3 DEF StmtAcquire, Acquirable, AcquiredBy
<1>4. ASSUME NEW s \in stmts, StmtRelease(s) PROVE TypeOK'
  BY <1>4 DEF StmtRelease, Released
<1>5. ASSUME NEW s \in stmts, StmtLost(s) PROVE TypeOK'
  BY <1>5 DEF StmtLost
<1>6. ASSUME NEW i \in Instance, TryAcquire(i) PROVE TypeOK'
  BY <1>6 DEF TryAcquire, NoCall
<1>7. ASSUME NEW i \in Instance, CallBegin(i) PROVE TypeOK'
  BY <1>7 DEF CallBegin
<1>8. ASSUME NEW i \in Instance, AcquireLease(i) PROVE TypeOK'
  <2>1. call' \in [Instance -> Call]
    <3>1. lease.epoch + 1 \in Nat
      OBVIOUS
    <3>2. Answered(i, "ok", lease.epoch + 1) \in [Instance -> Call]
          /\ Answered(i, "no", 0) \in [Instance -> Call]
      BY <3>1, AnsweredType
    <3>3. QED
      BY <1>8, <3>2 DEF AcquireLease
  <2>2. lease' \in Lease
    BY <1>8 DEF AcquireLease, AcquiredBy
  <2>3. QED
    BY <1>8, <2>1, <2>2 DEF AcquireLease
<1>9. ASSUME NEW i \in Instance, AcquireFails(i) PROVE TypeOK'
  <2>1. AcquireStmt(i) \in Stmt
    BY DEF AcquireStmt
  <2>2. stmts' \subseteq Stmt
    BY <1>9, <2>1 DEF AcquireFails, Abandon
  <2>3. call' \in [Instance -> Call] /\ faults' \in Nat
    BY <1>9 DEF AcquireFails, NoCall, Fault
  <2>4. QED
    BY <1>9, <2>2, <2>3 DEF AcquireFails
<1>10. ASSUME NEW i \in Instance, Lead(i) PROVE TypeOK'
  <2>1. ReleaseStmt(i, call[i].epoch) \in Stmt
    BY DEF ReleaseStmt
  <2>2. stmts' \subseteq Stmt
    BY <1>10, <2>1 DEF Lead, Abandon
  <2>3. call' \in [Instance -> Call]
    BY <1>10 DEF Lead, NoCall
  <2>4. term' \in [Instance -> Term]
    <3>1. \A d \in 0..Drift : Deadline(call[i].sent, d) \in Nat
      BY DEF Deadline
    <3>3. \/ term' = term
          \/ \E d \in 0..Drift : term' = [term EXCEPT ![i] =
                [epoch |-> call[i].epoch, deadline |-> Deadline(call[i].sent, d)]]
      BY <1>10 DEF Lead
    <3>4. ASSUME NEW d \in 0..Drift,
                 term' = [term EXCEPT ![i] =
                   [epoch |-> call[i].epoch, deadline |-> Deadline(call[i].sent, d)]]
          PROVE  term' \in [Instance -> Term]
      BY <3>1, <3>4
    <3>5. QED
      BY <3>3, <3>4
  <2>5. last' \in [Instance -> Nat]
    BY <1>10 DEF Lead
  <2>6. /\ pc' \in [Instance -> {"idle", "acquiring", "leading", "renewing", "ending"}]
        /\ UNCHANGED <<now, lease, running, resigned, resign, tx, wrote, faults>>
    BY <1>10 DEF Lead
  <2>7. QED
    BY <2>2, <2>3, <2>4, <2>5, <2>6
<1>11. ASSUME NEW i \in Instance, RenewSend(i) PROVE TypeOK'
  BY <1>11 DEF RenewSend, NoCall
<1>12. ASSUME NEW i \in Instance, RenewLease(i) PROVE TypeOK'
  <2>1. call' \in [Instance -> Call]
    <3>1. Answered(i, "ok", 0) \in [Instance -> Call]
          /\ Answered(i, "no", 0) \in [Instance -> Call]
      BY AnsweredType
    <3>2. QED
      BY <1>12, <3>1 DEF RenewLease
  <2>2. lease' \in Lease
    BY <1>12 DEF RenewLease
  <2>3. QED
    BY <1>12, <2>1, <2>2 DEF RenewLease
<1>13. ASSUME NEW i \in Instance, Renewed(i) PROVE TypeOK'
  BY <1>13 DEF Renewed, NoCall, Deadline
<1>14. ASSUME NEW i \in Instance, EndTerm(i) PROVE TypeOK'
  BY <1>14 DEF EndTerm, NoTerm, NoCall
<1>15. ASSUME NEW i \in Instance, LoopsDone(i) PROVE TypeOK'
  BY <1>15 DEF LoopsDone, NoTx
<1>16. ASSUME NEW i \in Instance, RunEnds(i) PROVE TypeOK'
  BY <1>16 DEF RunEnds, Fault
<1>17. ASSUME NEW i \in Instance, Resign(i) PROVE TypeOK'
  BY <1>17 DEF Resign, Fault
<1>18. ASSUME NEW i \in Instance, ResignRelease(i) PROVE TypeOK'
  <2>1. ReleaseStmt(i, resign[i]) \in Stmt
    BY DEF ReleaseStmt
  <2>2. QED
    BY <1>18, <2>1 DEF ResignRelease, Abandon
<1>19. ASSUME NEW i \in Instance, Crash(i) PROVE TypeOK'
  <2>1. AcquireStmt(i) \in Stmt
    BY DEF AcquireStmt
  <2>2. stmts' \subseteq Stmt
    BY <1>19, <2>1 DEF Crash, Abandon
  <2>3. call' \in [Instance -> Call] /\ term' \in [Instance -> Term]
    BY <1>19 DEF Crash, NoCall, NoTerm
  <2>4. tx' \in [Tx -> TxRec]
    BY <1>19 DEF Crash, NoTx
  <2>5. \A t \in Tx : tx'[t].st # "free" => tx'[t].by \in Instance
    BY <1>19 DEF Crash, NoTx
  <2>6. QED
    BY <1>19, <2>2, <2>3, <2>4, <2>5 DEF Crash, Fault
<1>20. ASSUME NEW t \in Tx, NEW i \in Instance, TxBegin(t, i) PROVE TypeOK'
  BY <1>20 DEF TxBegin
<1>21. ASSUME NEW t \in Tx, TxCheck(t) PROVE TypeOK'
  <2>1. tx[t].by \in Instance
    BY <1>21 DEF TxCheck
  <2>2. tx' \in [Tx -> TxRec]
    BY <1>21, <2>1 DEF TxCheck
  <2>3. QED
    BY <1>21, <2>1, <2>2 DEF TxCheck
<1>22. ASSUME NEW t \in Tx, Fence(t) PROVE TypeOK'
  BY <1>22 DEF Fence
<1>23. ASSUME NEW t \in Tx, TxCommit(t) PROVE TypeOK'
  BY <1>23 DEF TxCommit, NoTx
<1>24. ASSUME NEW t \in Tx, TxAbort(t) PROVE TypeOK'
  BY <1>24 DEF TxAbort, NoTx
<1>25. CASE UNCHANGED vars
  BY <1>25 DEF vars
<1>26. QED
  BY <1>1, <1>2, <1>3, <1>4, <1>5, <1>6, <1>7, <1>8, <1>9, <1>10, <1>11, <1>12, <1>13, <1>14, <1>15, <1>16, <1>17, <1>18, <1>19, <1>20, <1>21, <1>22, <1>23, <1>24, <1>25 DEF Next, StmtStep, ElectorStep, TxStep

-----------------------------------------------------------------------------
(* The inductive invariant                                                 *)

\* Every step keeps the inductive invariant.
LEMMA InvStep == IInv /\ [Next]_vars => IInv'
<1> SUFFICES ASSUME IInv, [Next]_vars PROVE IInv'
  OBVIOUS
<1> USE ConstantsAssumption
<1>0. TypeOK'
  BY TypeStep DEF IInv
<1>1. CASE Tick
  <2>1. ControlInv'
    BY <1>1 DEF IInv, TypeOK, Lease, Stmt, Call, Term, TxRec, Tick, ControlInv, NoCall, NoTerm
  <2>2. CallInv'
    BY <1>1 DEF IInv, TypeOK, Lease, Stmt, Call, Term, TxRec, Tick, CallInv, ControlInv, NoCall
  <2>3. TermInv'
    BY <1>1 DEF IInv, TypeOK, Lease, Stmt, Call, Term, TxRec, Tick, TermInv, Backed, ControlInv, CallInv, EpochInv, AnswerInv, StmtInv, StmtOK, NoTerm
  <2>4. AnswerInv'
    BY <1>1 DEF IInv, TypeOK, Lease, Stmt, Call, Term, TxRec, Tick, AnswerInv, Backed, ControlInv, CallInv, EpochInv, TermInv, StmtInv, StmtOK, NoCall
  <2>5. EpochInv'
    BY <1>1 DEF IInv, TypeOK, Lease, Stmt, Call, Term, TxRec, Tick, EpochInv, AnswerInv, Backed, ControlInv, NoTerm
  <2>6. StmtInv'
    BY <1>1 DEF IInv, TypeOK, Lease, Stmt, Call, Term, TxRec, Tick, StmtInv, StmtOK, EpochInv, AnswerInv, Backed, ControlInv, NoTerm, NoCall
  <2>7. FenceHolds'
    BY <1>1 DEF IInv, TypeOK, Lease, Stmt, Call, Term, TxRec, Tick, FenceHolds
  <2>8. QED
    BY <1>0, <2>1, <2>2, <2>3, <2>4, <2>5, <2>6, <2>7 DEF IInv
<1>2. ASSUME NEW s \in stmts, StmtBegin(s) PROVE IInv'
  <2>1. ControlInv'
    BY <1>2 DEF IInv, TypeOK, Lease, Stmt, Call, Term, TxRec, StmtBegin, ControlInv, NoCall, NoTerm
  <2>2. CallInv'
    BY <1>2 DEF IInv, TypeOK, Lease, Stmt, Call, Term, TxRec, StmtBegin, CallInv, ControlInv, NoCall
  <2>3. TermInv'
    BY <1>2 DEF IInv, TypeOK, Lease, Stmt, Call, Term, TxRec, StmtBegin, TermInv, Backed, ControlInv, CallInv, EpochInv, AnswerInv, StmtInv, StmtOK, NoTerm
  <2>4. AnswerInv'
    BY <1>2 DEF IInv, TypeOK, Lease, Stmt, Call, Term, TxRec, StmtBegin, AnswerInv, Backed, ControlInv, CallInv, EpochInv, TermInv, StmtInv, StmtOK, NoCall
  <2>5. EpochInv'
    BY <1>2 DEF IInv, TypeOK, Lease, Stmt, Call, Term, TxRec, StmtBegin, EpochInv, AnswerInv, Backed, ControlInv, NoTerm
  <2>6. StmtInv'
    <3> DEFINE b == [op |-> s.op, by |-> s.by, epoch |-> s.epoch, st |-> "begun", txnow |-> now]
    <3>1. b.st = "begun" /\ b.txnow = now /\ b.op = s.op /\ b.epoch = s.epoch /\ b.by = s.by
      BY DEF IInv, TypeOK, Lease, Stmt, Call, Term, TxRec
    <3>2. stmts' \subseteq stmts \union {b}
      BY <1>2 DEF StmtBegin
    <3>3. ASSUME NEW r \in stmts \union {b} PROVE StmtOK(r)'
      BY <1>2, <3>1, <3>3 DEF StmtBegin, IInv, StmtInv, StmtOK, TypeOK, Lease, Stmt, Call, Term, TxRec
    <3>4. QED
      BY <3>2, <3>3 DEF StmtInv
  <2>7. FenceHolds'
    BY <1>2 DEF IInv, TypeOK, Lease, Stmt, Call, Term, TxRec, StmtBegin, FenceHolds
  <2>8. QED
    BY <1>0, <2>1, <2>2, <2>3, <2>4, <2>5, <2>6, <2>7 DEF IInv
<1>3. ASSUME NEW s \in stmts, StmtAcquire(s) PROVE IInv'
  <2>1. ControlInv'
    BY <1>3 DEF IInv, TypeOK, Lease, Stmt, Call, Term, TxRec, StmtAcquire, Acquirable, AcquiredBy, ControlInv, NoCall, NoTerm
  <2>2. CallInv'
    BY <1>3 DEF IInv, TypeOK, Lease, Stmt, Call, Term, TxRec, StmtAcquire, Acquirable, AcquiredBy, CallInv, ControlInv, NoCall
  <2>3. TermInv'
    BY <1>3 DEF IInv, TypeOK, Lease, Stmt, Call, Term, TxRec, StmtAcquire, Acquirable, AcquiredBy, TermInv, Backed, ControlInv, CallInv, EpochInv, AnswerInv, StmtInv, StmtOK, NoTerm
  <2>4. AnswerInv'
    BY <1>3 DEF IInv, TypeOK, Lease, Stmt, Call, Term, TxRec, StmtAcquire, Acquirable, AcquiredBy, AnswerInv, Backed, ControlInv, CallInv, EpochInv, TermInv, StmtInv, StmtOK, NoCall
  <2>5. EpochInv'
    BY <1>3 DEF IInv, TypeOK, Lease, Stmt, Call, Term, TxRec, StmtAcquire, Acquirable, AcquiredBy, EpochInv, AnswerInv, Backed, ControlInv, NoTerm
  <2>6. StmtInv'
    BY <1>3 DEF IInv, TypeOK, Lease, Stmt, Call, Term, TxRec, StmtAcquire, Acquirable, AcquiredBy, StmtInv, StmtOK, EpochInv, AnswerInv, Backed, ControlInv, NoTerm, NoCall
  <2>7. FenceHolds'
    BY <1>3 DEF IInv, TypeOK, Lease, Stmt, Call, Term, TxRec, StmtAcquire, Acquirable, AcquiredBy, FenceHolds, ShareLocked
  <2>8. QED
    BY <1>0, <2>1, <2>2, <2>3, <2>4, <2>5, <2>6, <2>7 DEF IInv
<1>4. ASSUME NEW s \in stmts, StmtRelease(s) PROVE IInv'
  <2>1. ControlInv'
    BY <1>4 DEF IInv, TypeOK, Lease, Stmt, Call, Term, TxRec, StmtRelease, Released, ControlInv, NoCall, NoTerm
  <2>2. CallInv'
    BY <1>4 DEF IInv, TypeOK, Lease, Stmt, Call, Term, TxRec, StmtRelease, Released, CallInv, ControlInv, NoCall
  <2>3. TermInv'
    BY <1>4 DEF IInv, TypeOK, Lease, Stmt, Call, Term, TxRec, StmtRelease, Released, TermInv, Backed, ControlInv, CallInv, EpochInv, AnswerInv, StmtInv, StmtOK, NoTerm
  <2>4. AnswerInv'
    <3>1. /\ UNCHANGED <<now, pc, call, term, last>> /\ s.op = "release"
          /\ lease'.epoch = lease.epoch /\ lease'.holder = lease.holder
          /\ lease' = lease \/ (lease.holder = s.by /\ lease.epoch = s.epoch)
      BY <1>4 DEF StmtRelease, Released, IInv, TypeOK, Lease, Stmt, Call, Term, TxRec
    <3>2. ASSUME NEW j \in Instance, call[j].st = "ok", pc[j] = "acquiring"
          PROVE  call[j].epoch > last[j] /\ Backed(j, call[j].epoch, call[j].sent + TTL)'
      BY <3>1, <3>2 DEF IInv, AnswerInv, Backed, StmtInv, StmtOK, TypeOK, Lease, Stmt, Call, Term, TxRec
    <3>3. ASSUME NEW j \in Instance, call[j].st = "ok", pc[j] = "renewing"
          PROVE  Backed(j, term[j].epoch, call[j].sent + TTL)'
      BY <3>1, <3>3 DEF IInv, AnswerInv, ControlInv, Backed, StmtInv, StmtOK, TypeOK, Lease, Stmt, Call, Term, TxRec
    <3>4. QED
      BY <3>1, <3>2, <3>3 DEF AnswerInv, Backed
  <2>5. EpochInv'
    BY <1>4 DEF IInv, TypeOK, Lease, Stmt, Call, Term, TxRec, StmtRelease, Released, EpochInv, AnswerInv, Backed, ControlInv, NoTerm
  <2>6. StmtInv'
    BY <1>4 DEF IInv, TypeOK, Lease, Stmt, Call, Term, TxRec, StmtRelease, Released, StmtInv, StmtOK, EpochInv, AnswerInv, Backed, ControlInv, NoTerm, NoCall
  <2>7. FenceHolds'
    BY <1>4 DEF IInv, TypeOK, Lease, Stmt, Call, Term, TxRec, StmtRelease, Released, FenceHolds, ShareLocked
  <2>8. QED
    BY <1>0, <2>1, <2>2, <2>3, <2>4, <2>5, <2>6, <2>7 DEF IInv
<1>5. ASSUME NEW s \in stmts, StmtLost(s) PROVE IInv'
  <2>1. ControlInv'
    BY <1>5 DEF IInv, TypeOK, Lease, Stmt, Call, Term, TxRec, StmtLost, ControlInv, NoCall, NoTerm
  <2>2. CallInv'
    BY <1>5 DEF IInv, TypeOK, Lease, Stmt, Call, Term, TxRec, StmtLost, CallInv, ControlInv, NoCall
  <2>3. TermInv'
    BY <1>5 DEF IInv, TypeOK, Lease, Stmt, Call, Term, TxRec, StmtLost, TermInv, Backed, ControlInv, CallInv, EpochInv, AnswerInv, StmtInv, StmtOK, NoTerm
  <2>4. AnswerInv'
    BY <1>5 DEF IInv, TypeOK, Lease, Stmt, Call, Term, TxRec, StmtLost, AnswerInv, Backed, ControlInv, CallInv, EpochInv, TermInv, StmtInv, StmtOK, NoCall
  <2>5. EpochInv'
    BY <1>5 DEF IInv, TypeOK, Lease, Stmt, Call, Term, TxRec, StmtLost, EpochInv, AnswerInv, Backed, ControlInv, NoTerm
  <2>6. StmtInv'
    BY <1>5 DEF IInv, TypeOK, Lease, Stmt, Call, Term, TxRec, StmtLost, StmtInv, StmtOK, EpochInv, AnswerInv, Backed, ControlInv, NoTerm, NoCall
  <2>7. FenceHolds'
    BY <1>5 DEF IInv, TypeOK, Lease, Stmt, Call, Term, TxRec, StmtLost, FenceHolds
  <2>8. QED
    BY <1>0, <2>1, <2>2, <2>3, <2>4, <2>5, <2>6, <2>7 DEF IInv
<1>6. ASSUME NEW i \in Instance, TryAcquire(i) PROVE IInv'
  <2>1. ControlInv'
    BY <1>6 DEF IInv, TypeOK, Lease, Stmt, Call, Term, TxRec, TryAcquire, NoCall, ControlInv, NoTerm
  <2>2. CallInv'
    BY <1>6 DEF IInv, TypeOK, Lease, Stmt, Call, Term, TxRec, TryAcquire, NoCall, CallInv, ControlInv
  <2>3. TermInv'
    BY <1>6 DEF IInv, TypeOK, Lease, Stmt, Call, Term, TxRec, TryAcquire, NoCall, TermInv, Backed, ControlInv, CallInv, EpochInv, AnswerInv, StmtInv, StmtOK, NoTerm
  <2>4. AnswerInv'
    BY <1>6 DEF IInv, TypeOK, Lease, Stmt, Call, Term, TxRec, TryAcquire, NoCall, AnswerInv, Backed, ControlInv, CallInv, EpochInv, TermInv, StmtInv, StmtOK
  <2>5. EpochInv'
    BY <1>6 DEF IInv, TypeOK, Lease, Stmt, Call, Term, TxRec, TryAcquire, NoCall, EpochInv, AnswerInv, Backed, ControlInv, NoTerm
  <2>6. StmtInv'
    BY <1>6 DEF IInv, TypeOK, Lease, Stmt, Call, Term, TxRec, TryAcquire, NoCall, StmtInv, StmtOK, EpochInv, AnswerInv, Backed, ControlInv, NoTerm
  <2>7. FenceHolds'
    BY <1>6 DEF IInv, TypeOK, Lease, Stmt, Call, Term, TxRec, TryAcquire, NoCall, FenceHolds
  <2>8. QED
    BY <1>0, <2>1, <2>2, <2>3, <2>4, <2>5, <2>6, <2>7 DEF IInv
<1>7. ASSUME NEW i \in Instance, CallBegin(i) PROVE IInv'
  <2>1. ControlInv'
    BY <1>7 DEF IInv, TypeOK, Lease, Stmt, Call, Term, TxRec, CallBegin, ControlInv, NoCall, NoTerm
  <2>2. CallInv'
    BY <1>7 DEF IInv, TypeOK, Lease, Stmt, Call, Term, TxRec, CallBegin, CallInv, ControlInv, NoCall
  <2>3. TermInv'
    BY <1>7 DEF IInv, TypeOK, Lease, Stmt, Call, Term, TxRec, CallBegin, TermInv, Backed, ControlInv, CallInv, EpochInv, AnswerInv, StmtInv, StmtOK, NoTerm
  <2>4. AnswerInv'
    BY <1>7 DEF IInv, TypeOK, Lease, Stmt, Call, Term, TxRec, CallBegin, AnswerInv, Backed, ControlInv, CallInv, EpochInv, TermInv, StmtInv, StmtOK, NoCall
  <2>5. EpochInv'
    BY <1>7 DEF IInv, TypeOK, Lease, Stmt, Call, Term, TxRec, CallBegin, EpochInv, AnswerInv, Backed, ControlInv, NoTerm
  <2>6. StmtInv'
    BY <1>7 DEF IInv, TypeOK, Lease, Stmt, Call, Term, TxRec, CallBegin, StmtInv, StmtOK, EpochInv, AnswerInv, Backed, ControlInv, NoTerm, NoCall
  <2>7. FenceHolds'
    BY <1>7 DEF IInv, TypeOK, Lease, Stmt, Call, Term, TxRec, CallBegin, FenceHolds
  <2>8. QED
    BY <1>0, <2>1, <2>2, <2>3, <2>4, <2>5, <2>6, <2>7 DEF IInv
<1>8. ASSUME NEW i \in Instance, AcquireLease(i) PROVE IInv'
  <2>a. /\ call'[i].sent = call[i].sent
        /\ \A j \in Instance \ {i} : call'[j] = call[j]
        /\ \/ call'[i].st = "ok" /\ lease' = AcquiredBy(i, call[i].txnow) /\ Acquirable(call[i].txnow) /\ call'[i].epoch = lease.epoch + 1
           \/ call'[i].st = "no" /\ lease' = lease
    BY <1>8 DEF IInv, TypeOK, Lease, Stmt, Call, Term, TxRec, AcquireLease, Answered
  <2>b. /\ pc[i] = "acquiring" /\ call[i].st = "begun"
        /\ UNCHANGED <<now, stmts, pc, term, last, running, resigned, resign, tx>>
    BY <1>8 DEF AcquireLease
  <2>1. ControlInv'
    BY <1>8 DEF IInv, TypeOK, Lease, Stmt, Call, Term, TxRec, AcquireLease, Acquirable, AcquiredBy, Answered, ControlInv, NoCall, NoTerm
  <2>2. CallInv'
    BY <2>a, <2>b DEF IInv, TypeOK, Lease, Stmt, Call, Term, TxRec, Acquirable, AcquiredBy, Renewable, CallInv, ControlInv, NoCall
  <2>3. TermInv'
    BY <2>a, <2>b DEF IInv, TypeOK, Lease, Stmt, Call, Term, TxRec, Acquirable, AcquiredBy, Renewable, TermInv, Backed, ControlInv, CallInv, EpochInv, AnswerInv, StmtInv, StmtOK, NoTerm
  <2>4. AnswerInv'
    BY <2>a, <2>b DEF IInv, TypeOK, Lease, Stmt, Call, Term, TxRec, Acquirable, AcquiredBy, Renewable, AnswerInv, Backed, ControlInv, CallInv, EpochInv, TermInv, StmtInv, StmtOK, NoCall
  <2>5. EpochInv'
    BY <1>8 DEF IInv, TypeOK, Lease, Stmt, Call, Term, TxRec, AcquireLease, Acquirable, AcquiredBy, Answered, EpochInv, AnswerInv, Backed, ControlInv, NoTerm
  <2>6. StmtInv'
    BY SMTT(30), <2>a, <2>b DEF IInv, TypeOK, Lease, Stmt, Call, Term, TxRec, Acquirable, AcquiredBy, Renewable, StmtInv, StmtOK, EpochInv, AnswerInv, Backed, ControlInv, NoTerm, NoCall
  <2>7. FenceHolds'
    BY <1>8 DEF IInv, TypeOK, Lease, Stmt, Call, Term, TxRec, AcquireLease, Acquirable, AcquiredBy, Answered, FenceHolds, ShareLocked
  <2>8. QED
    BY <1>0, <2>1, <2>2, <2>3, <2>4, <2>5, <2>6, <2>7 DEF IInv
<1>9. ASSUME NEW i \in Instance, AcquireFails(i) PROVE IInv'
  <2>1. ControlInv'
    BY <1>9 DEF IInv, TypeOK, Lease, Stmt, Call, Term, TxRec, AcquireFails, NoCall, Abandon, AcquireStmt, ControlInv, NoTerm
  <2>2. CallInv'
    BY <1>9 DEF IInv, TypeOK, Lease, Stmt, Call, Term, TxRec, AcquireFails, NoCall, Abandon, AcquireStmt, CallInv, ControlInv
  <2>3. TermInv'
    BY <1>9 DEF IInv, TypeOK, Lease, Stmt, Call, Term, TxRec, AcquireFails, NoCall, Abandon, AcquireStmt, TermInv, Backed, ControlInv, CallInv, EpochInv, AnswerInv, StmtInv, StmtOK, NoTerm
  <2>4. AnswerInv'
    BY <1>9 DEF IInv, TypeOK, Lease, Stmt, Call, Term, TxRec, AcquireFails, NoCall, Abandon, AcquireStmt, AnswerInv, Backed, ControlInv, CallInv, EpochInv, TermInv, StmtInv, StmtOK
  <2>5. EpochInv'
    BY <1>9 DEF IInv, TypeOK, Lease, Stmt, Call, Term, TxRec, AcquireFails, NoCall, Abandon, AcquireStmt, EpochInv, AnswerInv, Backed, ControlInv, NoTerm
  <2>6. StmtInv'
    <3>1. stmts' \subseteq stmts \union {AcquireStmt(i)} /\ now' = now /\ lease' = lease
      BY <1>9 DEF AcquireFails, Abandon
    <3>2. AcquireStmt(i).op = "acquire"
          /\ (AcquireStmt(i).st = "begun" => AcquireStmt(i).txnow <= now)
      BY DEF AcquireStmt, IInv, CallInv, TypeOK, Lease, Stmt, Call, Term, TxRec
    <3>3. /\ \A j \in Instance : term'[j] = term[j] \/ term'[j] = NoTerm
          /\ \A j \in Instance : (pc'[j] = pc[j] /\ call'[j] = call[j]) \/ pc'[j] = "idle"
      BY <1>9 DEF AcquireFails, IInv, TypeOK, Lease, Stmt, Call, Term, TxRec
    <3>4. ASSUME NEW r \in stmts PROVE StmtOK(r)'
      <4>1. r.by \in Instance /\ r.epoch \in Nat /\ StmtOK(r)
        BY DEF IInv, StmtInv, TypeOK, Lease, Stmt, Call, Term, TxRec
      <4>2. QED
        BY <3>1, <3>3, <4>1 DEF StmtOK, NoTerm
    <3>5. ASSUME NEW r, r = AcquireStmt(i) PROVE StmtOK(r)'
      BY <3>1, <3>2, <3>5 DEF StmtOK
    <3>6. QED
      BY <3>1, <3>4, <3>5 DEF StmtInv
  <2>7. FenceHolds'
    BY <1>9 DEF IInv, TypeOK, Lease, Stmt, Call, Term, TxRec, AcquireFails, NoCall, Abandon, AcquireStmt, FenceHolds
  <2>8. QED
    BY <1>0, <2>1, <2>2, <2>3, <2>4, <2>5, <2>6, <2>7 DEF IInv
<1>10. ASSUME NEW i \in Instance, Lead(i) PROVE IInv'
  <2>1. ControlInv'
    <3>1. CASE resigned[i]
      BY <1>10, <3>1 DEF Lead, IInv, ControlInv, TypeOK, Lease, Stmt, Call, Term, TxRec
    <3>2. CASE ~resigned[i]
      <4>1. /\ pc' = [pc EXCEPT ![i] = "leading"] /\ call' = [call EXCEPT ![i] = NoCall]
            /\ term'[i].epoch > 0 /\ \A j \in Instance \ {i} : term'[j] = term[j]
        BY <1>10, <3>2 DEF Lead, IInv, AnswerInv, Deadline, TypeOK, Lease, Stmt, Call, Term, TxRec
      <4>2. QED
        BY <4>1 DEF IInv, ControlInv, TypeOK, Lease, Stmt, Call, Term, TxRec
    <3>3. QED
      BY <3>1, <3>2
  <2>2. CallInv'
    BY <1>10 DEF IInv, TypeOK, Lease, Stmt, Call, Term, TxRec, Lead, NoCall, NoTerm, Abandon, ReleaseStmt, Deadline, CallInv, ControlInv
  <2>3. TermInv'
    BY <1>10 DEF IInv, TypeOK, Lease, Stmt, Call, Term, TxRec, Lead, NoCall, NoTerm, Abandon, ReleaseStmt, Deadline, TermInv, Backed, ControlInv, CallInv, EpochInv, AnswerInv, StmtInv, StmtOK
  <2>4. AnswerInv'
    BY <1>10 DEF IInv, TypeOK, Lease, Stmt, Call, Term, TxRec, Lead, NoCall, NoTerm, Abandon, ReleaseStmt, Deadline, AnswerInv, Backed, ControlInv, CallInv, EpochInv, TermInv, StmtInv, StmtOK
  <2>5. EpochInv'
    <3>1. CASE resigned[i]
      BY <1>10, <3>1 DEF Lead, IInv, EpochInv, TypeOK, Lease, Stmt, Call, Term, TxRec
    <3>2. CASE ~resigned[i]
      <4>1. /\ term'[i].epoch = call[i].epoch /\ last'[i] = call[i].epoch
            /\ \A j \in Instance \ {i} : term'[j] = term[j] /\ last'[j] = last[j]
            /\ UNCHANGED <<lease, resign>>
        BY <1>10, <3>2 DEF Lead, IInv, TypeOK, Lease, Stmt, Call, Term, TxRec
      <4>2. call[i].epoch > last[i] /\ call[i].epoch <= lease.epoch
        BY <1>10 DEF Lead, IInv, AnswerInv, Backed, TypeOK, Lease, Stmt, Call, Term, TxRec
      <4>3. QED
        BY <4>1, <4>2 DEF IInv, EpochInv, TypeOK, Lease, Stmt, Call, Term, TxRec
    <3>3. QED
      BY <3>1, <3>2
  <2>6. StmtInv'
    BY <1>10 DEF IInv, TypeOK, Lease, Stmt, Call, Term, TxRec, Lead, NoCall, NoTerm, Abandon, ReleaseStmt, Deadline, StmtInv, StmtOK, EpochInv, AnswerInv, Backed, ControlInv
  <2>7. FenceHolds'
    BY <1>10 DEF IInv, TypeOK, Lease, Stmt, Call, Term, TxRec, Lead, NoCall, NoTerm, Abandon, ReleaseStmt, Deadline, FenceHolds
  <2>8. QED
    BY <1>0, <2>1, <2>2, <2>3, <2>4, <2>5, <2>6, <2>7 DEF IInv
<1>11. ASSUME NEW i \in Instance, RenewSend(i) PROVE IInv'
  <2>1. ControlInv'
    BY <1>11 DEF IInv, TypeOK, Lease, Stmt, Call, Term, TxRec, RenewSend, NoCall, ControlInv, NoTerm
  <2>2. CallInv'
    BY <1>11 DEF IInv, TypeOK, Lease, Stmt, Call, Term, TxRec, RenewSend, NoCall, CallInv, ControlInv
  <2>3. TermInv'
    BY <1>11 DEF IInv, TypeOK, Lease, Stmt, Call, Term, TxRec, RenewSend, NoCall, TermInv, Backed, ControlInv, CallInv, EpochInv, AnswerInv, StmtInv, StmtOK, NoTerm
  <2>4. AnswerInv'
    BY <1>11 DEF IInv, TypeOK, Lease, Stmt, Call, Term, TxRec, RenewSend, NoCall, AnswerInv, Backed, ControlInv, CallInv, EpochInv, TermInv, StmtInv, StmtOK
  <2>5. EpochInv'
    BY <1>11 DEF IInv, TypeOK, Lease, Stmt, Call, Term, TxRec, RenewSend, NoCall, EpochInv, AnswerInv, Backed, ControlInv, NoTerm
  <2>6. StmtInv'
    BY <1>11 DEF IInv, TypeOK, Lease, Stmt, Call, Term, TxRec, RenewSend, NoCall, StmtInv, StmtOK, EpochInv, AnswerInv, Backed, ControlInv, NoTerm
  <2>7. FenceHolds'
    BY <1>11 DEF IInv, TypeOK, Lease, Stmt, Call, Term, TxRec, RenewSend, NoCall, FenceHolds
  <2>8. QED
    BY <1>0, <2>1, <2>2, <2>3, <2>4, <2>5, <2>6, <2>7 DEF IInv
<1>12. ASSUME NEW i \in Instance, RenewLease(i) PROVE IInv'
  <2>a. /\ call'[i].sent = call[i].sent
        /\ \A j \in Instance \ {i} : call'[j] = call[j]
        /\ \/ call'[i].st = "ok" /\ lease'.expires = call[i].txnow + TTL /\ lease'.epoch = lease.epoch /\ lease'.holder = lease.holder /\ Renewable(i, term[i].epoch, call[i].txnow)
           \/ call'[i].st = "no" /\ lease' = lease
    BY <1>12 DEF IInv, TypeOK, Lease, Stmt, Call, Term, TxRec, RenewLease, Answered
  <2>b. /\ pc[i] = "renewing" /\ call[i].st = "begun"
        /\ UNCHANGED <<now, stmts, pc, term, last, running, resigned, resign, tx>>
    BY <1>12 DEF RenewLease
  <2>1. ControlInv'
    BY <1>12 DEF IInv, TypeOK, Lease, Stmt, Call, Term, TxRec, RenewLease, Renewable, Answered, ControlInv, NoCall, NoTerm
  <2>2. CallInv'
    BY <2>a, <2>b DEF IInv, TypeOK, Lease, Stmt, Call, Term, TxRec, Acquirable, AcquiredBy, Renewable, CallInv, ControlInv, NoCall
  <2>3. TermInv'
    BY <2>a, <2>b DEF IInv, TypeOK, Lease, Stmt, Call, Term, TxRec, Acquirable, AcquiredBy, Renewable, TermInv, Backed, ControlInv, CallInv, EpochInv, AnswerInv, StmtInv, StmtOK, NoTerm
  <2>4. AnswerInv'
    BY SMTT(30), <2>a, <2>b DEF IInv, TypeOK, Lease, Stmt, Call, Term, TxRec, Acquirable, AcquiredBy, Renewable, AnswerInv, Backed, ControlInv, CallInv, EpochInv, TermInv, StmtInv, StmtOK, NoCall
  <2>5. EpochInv'
    BY <1>12 DEF IInv, TypeOK, Lease, Stmt, Call, Term, TxRec, RenewLease, Renewable, Answered, EpochInv, AnswerInv, Backed, ControlInv, NoTerm
  <2>6. StmtInv'
    <3>1. ASSUME NEW r \in stmts PROVE StmtOK(r)'
      <4>1. r.by \in Instance /\ StmtOK(r) /\ lease'.epoch = lease.epoch
        BY <2>a DEF IInv, StmtInv, TypeOK, Lease, Stmt, Call, Term, TxRec
      <4>2. QED
        BY <2>a, <2>b, <4>1 DEF StmtOK
    <3>2. QED
      BY <2>b, <3>1 DEF StmtInv
  <2>7. FenceHolds'
    BY <1>12 DEF IInv, TypeOK, Lease, Stmt, Call, Term, TxRec, RenewLease, Renewable, Answered, FenceHolds, ShareLocked
  <2>8. QED
    BY <1>0, <2>1, <2>2, <2>3, <2>4, <2>5, <2>6, <2>7 DEF IInv
<1>13. ASSUME NEW i \in Instance, Renewed(i) PROVE IInv'
  <2>1. ControlInv'
    BY <1>13 DEF IInv, TypeOK, Lease, Stmt, Call, Term, TxRec, Renewed, NoCall, Deadline, ControlInv, NoTerm
  <2>2. CallInv'
    BY <1>13 DEF IInv, TypeOK, Lease, Stmt, Call, Term, TxRec, Renewed, NoCall, Deadline, CallInv, ControlInv
  <2>3. TermInv'
    BY <1>13 DEF IInv, TypeOK, Lease, Stmt, Call, Term, TxRec, Renewed, NoCall, Deadline, TermInv, Backed, ControlInv, CallInv, EpochInv, AnswerInv, StmtInv, StmtOK, NoTerm
  <2>4. AnswerInv'
    BY <1>13 DEF IInv, TypeOK, Lease, Stmt, Call, Term, TxRec, Renewed, NoCall, Deadline, AnswerInv, Backed, ControlInv, CallInv, EpochInv, TermInv, StmtInv, StmtOK
  <2>5. EpochInv'
    BY <1>13 DEF IInv, TypeOK, Lease, Stmt, Call, Term, TxRec, Renewed, NoCall, Deadline, EpochInv, AnswerInv, Backed, ControlInv, NoTerm
  <2>6. StmtInv'
    BY <1>13 DEF IInv, TypeOK, Lease, Stmt, Call, Term, TxRec, Renewed, NoCall, Deadline, StmtInv, StmtOK, EpochInv, AnswerInv, Backed, ControlInv, NoTerm
  <2>7. FenceHolds'
    BY <1>13 DEF IInv, TypeOK, Lease, Stmt, Call, Term, TxRec, Renewed, NoCall, Deadline, FenceHolds
  <2>8. QED
    BY <1>0, <2>1, <2>2, <2>3, <2>4, <2>5, <2>6, <2>7 DEF IInv
<1>14. ASSUME NEW i \in Instance, EndTerm(i) PROVE IInv'
  <2>1. ControlInv'
    BY <1>14 DEF IInv, TypeOK, Lease, Stmt, Call, Term, TxRec, EndTerm, NoTerm, NoCall, ControlInv
  <2>2. CallInv'
    BY <1>14 DEF IInv, TypeOK, Lease, Stmt, Call, Term, TxRec, EndTerm, NoTerm, NoCall, CallInv, ControlInv
  <2>3. TermInv'
    BY <1>14 DEF IInv, TypeOK, Lease, Stmt, Call, Term, TxRec, EndTerm, NoTerm, NoCall, TermInv, Backed, ControlInv, CallInv, EpochInv, AnswerInv, StmtInv, StmtOK
  <2>4. AnswerInv'
    BY <1>14 DEF IInv, TypeOK, Lease, Stmt, Call, Term, TxRec, EndTerm, NoTerm, NoCall, AnswerInv, Backed, ControlInv, CallInv, EpochInv, TermInv, StmtInv, StmtOK
  <2>5. EpochInv'
    BY <1>14 DEF IInv, TypeOK, Lease, Stmt, Call, Term, TxRec, EndTerm, NoTerm, NoCall, EpochInv, AnswerInv, Backed, ControlInv
  <2>6. StmtInv'
    BY <1>14 DEF IInv, TypeOK, Lease, Stmt, Call, Term, TxRec, EndTerm, NoTerm, NoCall, StmtInv, StmtOK, EpochInv, AnswerInv, Backed, ControlInv
  <2>7. FenceHolds'
    BY <1>14 DEF IInv, TypeOK, Lease, Stmt, Call, Term, TxRec, EndTerm, NoTerm, NoCall, FenceHolds
  <2>8. QED
    BY <1>0, <2>1, <2>2, <2>3, <2>4, <2>5, <2>6, <2>7 DEF IInv
<1>15. ASSUME NEW i \in Instance, LoopsDone(i) PROVE IInv'
  <2>1. ControlInv'
    BY <1>15 DEF IInv, TypeOK, Lease, Stmt, Call, Term, TxRec, LoopsDone, NoTx, ControlInv, NoCall, NoTerm
  <2>2. CallInv'
    BY <1>15 DEF IInv, TypeOK, Lease, Stmt, Call, Term, TxRec, LoopsDone, NoTx, CallInv, ControlInv, NoCall
  <2>3. TermInv'
    BY <1>15 DEF IInv, TypeOK, Lease, Stmt, Call, Term, TxRec, LoopsDone, NoTx, TermInv, Backed, ControlInv, CallInv, EpochInv, AnswerInv, StmtInv, StmtOK, NoTerm
  <2>4. AnswerInv'
    BY <1>15 DEF IInv, TypeOK, Lease, Stmt, Call, Term, TxRec, LoopsDone, NoTx, AnswerInv, Backed, ControlInv, CallInv, EpochInv, TermInv, StmtInv, StmtOK, NoCall
  <2>5. EpochInv'
    BY <1>15 DEF IInv, TypeOK, Lease, Stmt, Call, Term, TxRec, LoopsDone, NoTx, EpochInv, AnswerInv, Backed, ControlInv, NoTerm
  <2>6. StmtInv'
    BY <1>15 DEF IInv, TypeOK, Lease, Stmt, Call, Term, TxRec, LoopsDone, NoTx, StmtInv, StmtOK, EpochInv, AnswerInv, Backed, ControlInv, NoTerm, NoCall
  <2>7. FenceHolds'
    BY <1>15 DEF IInv, TypeOK, Lease, Stmt, Call, Term, TxRec, LoopsDone, NoTx, FenceHolds
  <2>8. QED
    BY <1>0, <2>1, <2>2, <2>3, <2>4, <2>5, <2>6, <2>7 DEF IInv
<1>16. ASSUME NEW i \in Instance, RunEnds(i) PROVE IInv'
  <2>1. ControlInv' /\ CallInv' /\ TermInv' /\ AnswerInv' /\ EpochInv' /\ StmtInv'
    BY <1>16 DEF RunEnds, IInv, ControlInv, CallInv, TermInv, AnswerInv, EpochInv,
                StmtInv, StmtOK, Backed
  <2>2. FenceHolds'
    BY <1>16 DEF IInv, TypeOK, Lease, Stmt, Call, Term, TxRec, FenceHolds, RunEnds
  <2>3. QED
    BY <1>0, <2>1, <2>2 DEF IInv
<1>17. ASSUME NEW i \in Instance, Resign(i) PROVE IInv'
  <2>1. ControlInv'
    BY <1>17 DEF IInv, TypeOK, Lease, Stmt, Call, Term, TxRec, Resign, ControlInv, NoCall, NoTerm
  <2>2. CallInv'
    BY <1>17 DEF IInv, TypeOK, Lease, Stmt, Call, Term, TxRec, Resign, CallInv, ControlInv, NoCall
  <2>3. TermInv'
    BY <1>17 DEF IInv, TypeOK, Lease, Stmt, Call, Term, TxRec, Resign, TermInv, Backed, ControlInv, CallInv, EpochInv, AnswerInv, StmtInv, StmtOK, NoTerm
  <2>4. AnswerInv'
    BY <1>17 DEF IInv, TypeOK, Lease, Stmt, Call, Term, TxRec, Resign, AnswerInv, Backed, ControlInv, CallInv, EpochInv, TermInv, StmtInv, StmtOK, NoCall
  <2>5. EpochInv'
    BY <1>17 DEF IInv, TypeOK, Lease, Stmt, Call, Term, TxRec, Resign, EpochInv, AnswerInv, Backed, ControlInv, NoTerm
  <2>6. StmtInv'
    BY <1>17 DEF IInv, TypeOK, Lease, Stmt, Call, Term, TxRec, Resign, StmtInv, StmtOK, EpochInv, AnswerInv, Backed, ControlInv, NoTerm, NoCall
  <2>7. FenceHolds'
    BY <1>17 DEF IInv, TypeOK, Lease, Stmt, Call, Term, TxRec, Resign, FenceHolds
  <2>8. QED
    BY <1>0, <2>1, <2>2, <2>3, <2>4, <2>5, <2>6, <2>7 DEF IInv
<1>18. ASSUME NEW i \in Instance, ResignRelease(i) PROVE IInv'
  <2>1. ControlInv'
    BY <1>18 DEF IInv, TypeOK, Lease, Stmt, Call, Term, TxRec, ResignRelease, Abandon, ReleaseStmt, NoTerm, ControlInv, NoCall
  <2>2. CallInv'
    BY <1>18 DEF IInv, TypeOK, Lease, Stmt, Call, Term, TxRec, ResignRelease, Abandon, ReleaseStmt, NoTerm, CallInv, ControlInv, NoCall
  <2>3. TermInv'
    BY <1>18 DEF IInv, TypeOK, Lease, Stmt, Call, Term, TxRec, ResignRelease, Abandon, ReleaseStmt, NoTerm, TermInv, Backed, ControlInv, CallInv, EpochInv, AnswerInv, StmtInv, StmtOK
  <2>4. AnswerInv'
    BY <1>18 DEF IInv, TypeOK, Lease, Stmt, Call, Term, TxRec, ResignRelease, Abandon, ReleaseStmt, NoTerm, AnswerInv, Backed, ControlInv, CallInv, EpochInv, TermInv, StmtInv, StmtOK, NoCall
  <2>5. EpochInv'
    BY <1>18 DEF IInv, TypeOK, Lease, Stmt, Call, Term, TxRec, ResignRelease, Abandon, ReleaseStmt, NoTerm, EpochInv, AnswerInv, Backed, ControlInv
  <2>6. StmtInv'
    BY <1>18 DEF IInv, TypeOK, Lease, Stmt, Call, Term, TxRec, ResignRelease, Abandon, ReleaseStmt, NoTerm, StmtInv, StmtOK, EpochInv, AnswerInv, Backed, ControlInv, NoCall
  <2>7. FenceHolds'
    BY <1>18 DEF IInv, TypeOK, Lease, Stmt, Call, Term, TxRec, ResignRelease, Abandon, ReleaseStmt, NoTerm, FenceHolds
  <2>8. QED
    BY <1>0, <2>1, <2>2, <2>3, <2>4, <2>5, <2>6, <2>7 DEF IInv
<1>19. ASSUME NEW i \in Instance, Crash(i) PROVE IInv'
  <2>1. ControlInv'
    BY <1>19 DEF IInv, TypeOK, Lease, Stmt, Call, Term, TxRec, Crash, NoCall, NoTerm, NoTx, Abandon, AcquireStmt, ControlInv
  <2>2. CallInv'
    BY <1>19 DEF IInv, TypeOK, Lease, Stmt, Call, Term, TxRec, Crash, NoCall, NoTerm, NoTx, Abandon, AcquireStmt, CallInv, ControlInv
  <2>3. TermInv'
    BY <1>19 DEF IInv, TypeOK, Lease, Stmt, Call, Term, TxRec, Crash, NoCall, NoTerm, NoTx, Abandon, AcquireStmt, TermInv, Backed, ControlInv, CallInv, EpochInv, AnswerInv, StmtInv, StmtOK
  <2>4. AnswerInv'
    BY <1>19 DEF IInv, TypeOK, Lease, Stmt, Call, Term, TxRec, Crash, NoCall, NoTerm, NoTx, Abandon, AcquireStmt, AnswerInv, Backed, ControlInv, CallInv, EpochInv, TermInv, StmtInv, StmtOK
  <2>5. EpochInv'
    BY <1>19 DEF IInv, TypeOK, Lease, Stmt, Call, Term, TxRec, Crash, NoCall, NoTerm, NoTx, Abandon, AcquireStmt, EpochInv, AnswerInv, Backed, ControlInv
  <2>6. StmtInv'
    <3>1. stmts' \subseteq stmts \union {AcquireStmt(i)} /\ now' = now /\ lease' = lease
      BY <1>19 DEF Crash, Abandon
    <3>2. AcquireStmt(i).op = "acquire"
          /\ (AcquireStmt(i).st = "begun" => AcquireStmt(i).txnow <= now)
      BY DEF AcquireStmt, IInv, CallInv, TypeOK, Lease, Stmt, Call, Term, TxRec
    <3>3. /\ \A j \in Instance : term'[j] = term[j] \/ term'[j] = NoTerm
          /\ \A j \in Instance : (pc'[j] = pc[j] /\ call'[j] = call[j]) \/ pc'[j] = "idle"
      BY <1>19 DEF Crash, IInv, TypeOK, Lease, Stmt, Call, Term, TxRec
    <3>4. ASSUME NEW r \in stmts PROVE StmtOK(r)'
      <4>1. r.by \in Instance /\ r.epoch \in Nat /\ StmtOK(r)
        BY DEF IInv, StmtInv, TypeOK, Lease, Stmt, Call, Term, TxRec
      <4>2. QED
        BY <3>1, <3>3, <4>1 DEF StmtOK, NoTerm
    <3>5. ASSUME NEW r, r = AcquireStmt(i) PROVE StmtOK(r)'
      BY <3>1, <3>2, <3>5 DEF StmtOK
    <3>6. QED
      BY <3>1, <3>4, <3>5 DEF StmtInv
  <2>7. FenceHolds'
    BY <1>19 DEF IInv, TypeOK, Lease, Stmt, Call, Term, TxRec, Crash, NoCall, NoTerm, NoTx, Abandon, AcquireStmt, FenceHolds
  <2>8. QED
    BY <1>0, <2>1, <2>2, <2>3, <2>4, <2>5, <2>6, <2>7 DEF IInv
<1>20. ASSUME NEW t \in Tx, NEW i \in Instance, TxBegin(t, i) PROVE IInv'
  <2>1. ControlInv' /\ CallInv' /\ TermInv' /\ AnswerInv' /\ EpochInv' /\ StmtInv'
    BY <1>20 DEF TxBegin, IInv, ControlInv, CallInv, TermInv, AnswerInv, EpochInv,
                StmtInv, StmtOK, Backed
  <2>2. FenceHolds'
    BY <1>20 DEF IInv, TypeOK, Lease, Stmt, Call, Term, TxRec, FenceHolds, TxBegin
  <2>3. QED
    BY <1>0, <2>1, <2>2 DEF IInv
<1>21. ASSUME NEW t \in Tx, TxCheck(t) PROVE IInv'
  <2>1. ControlInv' /\ CallInv' /\ TermInv' /\ AnswerInv' /\ EpochInv' /\ StmtInv'
    BY <1>21 DEF TxCheck, IInv, ControlInv, CallInv, TermInv, AnswerInv, EpochInv,
                StmtInv, StmtOK, Backed
  <2>2. FenceHolds'
    BY <1>21 DEF IInv, TypeOK, Lease, Stmt, Call, Term, TxRec, FenceHolds, TxCheck
  <2>3. QED
    BY <1>0, <2>1, <2>2 DEF IInv
<1>22. ASSUME NEW t \in Tx, Fence(t) PROVE IInv'
  <2>1. ControlInv' /\ CallInv' /\ TermInv' /\ AnswerInv' /\ EpochInv' /\ StmtInv'
    BY <1>22 DEF Fence, IInv, ControlInv, CallInv, TermInv, AnswerInv, EpochInv,
                StmtInv, StmtOK, Backed
  <2>2. FenceHolds'
    BY <1>22 DEF IInv, TypeOK, Lease, Stmt, Call, Term, TxRec, FenceHolds, Fence, FenceLease
  <2>3. QED
    BY <1>0, <2>1, <2>2 DEF IInv
<1>23. ASSUME NEW t \in Tx, TxCommit(t) PROVE IInv'
  <2>1. ControlInv' /\ CallInv' /\ TermInv' /\ AnswerInv' /\ EpochInv' /\ StmtInv'
    BY <1>23 DEF TxCommit, IInv, ControlInv, CallInv, TermInv, AnswerInv, EpochInv,
                StmtInv, StmtOK, Backed
  <2>2. FenceHolds'
    BY <1>23 DEF IInv, TypeOK, Lease, Stmt, Call, Term, TxRec, FenceHolds, TxCommit, NoTx
  <2>3. QED
    BY <1>0, <2>1, <2>2 DEF IInv
<1>24. ASSUME NEW t \in Tx, TxAbort(t) PROVE IInv'
  <2>1. ControlInv' /\ CallInv' /\ TermInv' /\ AnswerInv' /\ EpochInv' /\ StmtInv'
    BY <1>24 DEF TxAbort, IInv, ControlInv, CallInv, TermInv, AnswerInv, EpochInv,
                StmtInv, StmtOK, Backed
  <2>2. FenceHolds'
    BY <1>24 DEF IInv, TypeOK, Lease, Stmt, Call, Term, TxRec, FenceHolds, TxAbort, NoTx
  <2>3. QED
    BY <1>0, <2>1, <2>2 DEF IInv
<1>25. CASE UNCHANGED vars
  <2>1. ControlInv' /\ CallInv' /\ TermInv' /\ AnswerInv' /\ EpochInv' /\ StmtInv'
    BY <1>25 DEF vars, IInv, ControlInv, CallInv, TermInv, AnswerInv, EpochInv,
                StmtInv, StmtOK, Backed
  <2>2. FenceHolds'
    BY <1>25 DEF IInv, TypeOK, Lease, Stmt, Call, Term, TxRec, FenceHolds, vars
  <2>3. QED
    BY <1>0, <2>1, <2>2 DEF IInv
<1>26. QED
  BY <1>1, <1>2, <1>3, <1>4, <1>5, <1>6, <1>7, <1>8, <1>9, <1>10, <1>11, <1>12, <1>13, <1>14, <1>15, <1>16, <1>17, <1>18, <1>19, <1>20, <1>21, <1>22, <1>23, <1>24, <1>25 DEF Next, StmtStep, ElectorStep, TxStep

\* The initial state satisfies the inductive invariant.
LEMMA InvInit == Init => IInv
  BY ConstantsAssumption DEF Init, IInv, TypeOK, Lease, Stmt, Call, Term, TxRec, ControlInv,
     CallInv, TermInv, AnswerInv, EpochInv, StmtInv, FenceHolds, NoCall, NoTerm, NoTx

\* The inductive invariant holds throughout.
LEMMA Invariant == Spec => []IInv
<1>1. Init => IInv
  BY InvInit
<1>2. IInv /\ [Next]_vars => IInv'
  BY InvStep
<1>3. QED
  BY <1>1, <1>2, PTL DEF Spec

-----------------------------------------------------------------------------
(* The theorems                                                            *)

\* The lease row, the electors and the transactions keep their shapes.
THEOREM TypeCorrect == Spec => []TypeOK
<1>1. IInv => TypeOK
  BY DEF IInv
<1>2. QED
  BY <1>1, Invariant, PTL

\* While IsLeader is true the instance holds an unexpired lease in its epoch.
THEOREM LeaderLease == Spec => []LeaderHoldsLease
<1>1. IInv => LeaderHoldsLease
  BY DEF IInv, LeaderHoldsLease, IsLeader, TermInv, Backed, TypeOK, Lease, Term
<1>2. QED
  BY <1>1, Invariant, PTL

\* At most one instance is the leader by its own clock, for any drift up to
\* StepDownMargin.
THEOREM LeaderUnique == Spec => []AtMostOneLeader
<1>1. LeaderHoldsLease => AtMostOneLeader
  BY DEF LeaderHoldsLease, AtMostOneLeader
<1>2. QED
  BY <1>1, LeaderLease, PTL

\* A fenced transaction's instance holds the lease in the checked epoch until
\* the transaction ends.
THEOREM FenceSafe == Spec => []FenceHolds
<1>1. IInv => FenceHolds
  BY DEF IInv
<1>2. QED
  BY <1>1, Invariant, PTL

\* Every step of the elector is a step of Fencing, or changes nothing of it.
LEMMA FencedStep == IInv /\ [Next]_vars => [Fenced!Next]_(Fenced!fvars)
<1> SUFFICES ASSUME IInv, [Next]_vars PROVE [Fenced!Next]_(Fenced!fvars)
  OBVIOUS
<1> USE ConstantsAssumption DEF Fenced!fvars
<1>1. ASSUME NEW s \in stmts, StmtAcquire(s) PROVE [Fenced!Next]_(Fenced!fvars)
  <2>1. s.by \in Instance
    BY DEF IInv, TypeOK, Stmt
  <2>2. QED
    BY <1>1, <2>1 DEF StmtAcquire, AcquiredBy, Fenced!Next, Fenced!NewTerm
<1>2. ASSUME NEW s \in stmts, StmtRelease(s) PROVE [Fenced!Next]_(Fenced!fvars)
  BY <1>2 DEF StmtRelease, Released, IInv, TypeOK, Lease
<1>3. ASSUME NEW i \in Instance, AcquireLease(i) PROVE [Fenced!Next]_(Fenced!fvars)
  BY <1>3 DEF AcquireLease, AcquiredBy, Fenced!Next, Fenced!NewTerm
<1>4. ASSUME NEW i \in Instance, RenewLease(i) PROVE [Fenced!Next]_(Fenced!fvars)
  BY <1>4 DEF RenewLease, IInv, TypeOK, Lease
<1>5. ASSUME NEW t \in Tx, TxCommit(t) PROVE [Fenced!Next]_(Fenced!fvars)
  <2>1. lease.holder = tx[t].by /\ lease.epoch = tx[t].epoch /\ tx[t].by \in Instance
    BY <1>5 DEF TxCommit, IInv, FenceHolds, TypeOK
  <2>2. QED
    BY <1>5, <2>1 DEF TxCommit, Fenced!Next, Fenced!Write
<1>6. CASE UNCHANGED <<lease, wrote>>
  BY <1>6
<1>7. QED
  BY <1>1, <1>2, <1>3, <1>4, <1>5, <1>6
     DEF Next, StmtStep, ElectorStep, TxStep, Tick, StmtBegin, StmtLost, TryAcquire, CallBegin,
         AcquireFails, Lead, RenewSend, Renewed, EndTerm, LoopsDone, RunEnds, Resign,
         ResignRelease, Crash, TxBegin, TxCheck, Fence, TxAbort, vars

\* The elector implements Fencing: a fenced write commits only in the epoch
\* and under the holder the row has at that moment.
THEOREM ImplementsFencing == Spec => FencedSpec
<1>1. Init => Fenced!Init
  BY DEF Init, Fenced!Init
<1>2. IInv /\ [Next]_vars => [Fenced!Next]_(Fenced!fvars)
  BY FencedStep
<1>3. QED
  BY <1>1, <1>2, Invariant, PTL DEF Spec, FencedSpec, Fenced!Spec
=============================================================================
