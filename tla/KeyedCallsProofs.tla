-------------------------- MODULE KeyedCallsProofs --------------------------
(***************************************************************************)
(* Proofs about module KeyedCalls: the verdicts on a call with an id are   *)
(* exact, final and agree, a key reaches the guest in one run, a drain     *)
(* waits for all it must, and a cancellation meets its call, for any       *)
(* number of instances, requests, calls, runs and faults.                  *)
(***************************************************************************)
EXTENDS KeyedCalls, TLAPS

-----------------------------------------------------------------------------
(* The inductive invariant *)

\* Runs are given out in order; what a run was or was not sent shows in its
\* columns; an outcome not_run is of a run that is not and was not in the guest.
RunOk(r) ==
    LET h == runs[r]
    IN  /\ h.phase = "unused" <=> r > used
        /\ h.phase = "unused" => h.inst = None /\ h.ran = "no" /\ h.guest = "idle"
        /\ h.phase # "unused" => h.inst \in Instances
        /\ h.phase \in {"row", "acquire", "gate", "send"} => h.guest = "idle"
        /\ h.phase \in {"row", "acquire", "gate"} /\ h.sent = "no" => h.ran = "no"
        /\ h.phase \in {"row", "lost"} => h.recorded = "no"
        /\ h.phase \in {"send", "await"} => h.sent = "yes" /\ h.recorded = "yes"
        /\ h.phase = "send" /\ h.before = "no" => h.ran = "no"
        /\ h.phase = "await" => h.guest # "idle"
        /\ h.phase = "await" /\ h.before = "no" /\ h.guest # "ran" => h.ran = "no"
        /\ h.phase \in {"finish", "stored", "settled"} => h.out \in Ends
        /\ h.phase \in {"finish", "stored", "settled"} /\ h.out = "not_run" => h.ran = "no" /\ h.guest = "idle"
        /\ h.phase = "stored" => ~Running(r)

RunsOk == \A r \in Runs : RunOk(r)

\* A run that is not, was not and will not be in the guest.
Dead(r) ==
    /\ runs[r].ran = "no" /\ runs[r].guest = "idle"
    /\ runs[r].phase \notin {"unused", "send", "await"}
    /\ runs[r].phase \in {"row", "acquire", "gate"} => runs[r].recorded = "no" /\ ~Running(r)

\* sent is committed before the send, and a row that did not run is of a dead run.
RowOk ==
    /\ row.run <= used
    /\ row # NoRow => row \in Row
    /\ row # NoRow /\ row.sent = "no" =>
        /\ runs[row.run].ran = "no" /\ runs[row.run].guest = "idle"
        /\ runs[row.run].recorded = "no" /\ runs[row.run].phase \notin {"send", "await"}
    /\ row # NoRow /\ row.state = "not_run" => Dead(row.run)

\* Between two deletions by the retention all runs but one are dead.
Lives ==
    /\ \A r \in Runs : runs[r].life <= life
    /\ row # NoRow => runs[row.run].life = life
    /\ \A r \in Runs : runs[r].phase # "unused" /\ runs[r].life = life => r = row.run \/ Dead(r)
    /\ \A r, s \in Runs : r # s /\ runs[r].phase # "unused" /\ runs[s].phase # "unused" /\ runs[r].life = runs[s].life
        => Dead(r) \/ Dead(s)

\* What is told, and what a request has seen of a row.
ToldOk ==
    /\ \A r \in Runs, x \in Ends : <<r, x>> \in told => r <= used /\ (x = "not_run" => Dead(r))
    /\ \A q \in Requests : reqs[q].pc = "existing" =>
        /\ reqs[q].row \in Row /\ reqs[q].row.run <= used
        /\ reqs[q].row.state = "not_run" => Dead(reqs[q].row.run)

\* Who says x of run r: an answer, the row, the settled run, or a row read.
Says(r, x) ==
    \/ <<r, x>> \in told
    \/ row.run = r /\ row.state = x
    \/ runs[r].phase = "settled" /\ runs[r].out = x
    \/ \E q \in Requests : reqs[q].pc = "existing" /\ reqs[q].row.run = r /\ reqs[q].row.state = x

SaysOk ==
    \A r \in Runs \ gaveUp :
        /\ Running(r) => \A x \in Ends : ~Says(r, x)
        /\ ~(Says(r, "done") /\ Says(r, "not_run"))

\* The lock of a key, the registered run and the slot of an instance.
LockPcs == {"begin", "register", "refused", "abandon", "existing"}
Going == {"acquire", "gate", "send", "await", "finish", "stored"}

Locks ==
    /\ \A q \in Requests, i \in Instances : lock[i] = q <=> reqs[q].inst = i /\ reqs[q].pc \in LockPcs
    /\ \A q \in Requests : reqs[q].pc \notin {"idle", "end"} => reqs[q].inst \in Instances /\ reqs[q].call \in Calls
    /\ \A q \in Requests : reqs[q].pc \in {"register", "local", "row"} => reqs[q].run # 0
    /\ \A q \in Requests : reqs[q].pc = "register" =>
        runs[reqs[q].run].phase = "row" /\ runs[reqs[q].run].inst = reqs[q].inst
    /\ \A r \in Runs : runs[r].phase = "row" =>
        \E q \in Requests : reqs[q].pc = "register" /\ reqs[q].run = r /\ reqs[q].inst = runs[r].inst
    /\ \A r \in Runs, i \in Instances : kc[i] = r <=> runs[r].inst = i /\ runs[r].phase \in Going
    /\ \A i \in Instances : lock[i] # None => kc[i] = 0

Slot(i) == kc[i] # 0 \/ \E q \in Requests : reqs[q].inst = i /\ reqs[q].pc \in {"begin", "register"}

Slots ==
    \A i \in Instances :
        /\ slots[i] = IF Slot(i) THEN 1 ELSE 0
        /\ proc[i] = "stopped" => slots[i] = 0

KInv == TypeOK /\ RunsOk /\ RowOk /\ Lives /\ ToldOk /\ SaysOk /\ Locks /\ Slots

-----------------------------------------------------------------------------
(* What the operators on rows and runs do, column by column *)

LEMMA Constants ==
    /\ None \notin Instances /\ None \notin Requests /\ None \notin Calls
    /\ MaxRuns \in Nat \ {0} /\ MaxLife \in Nat /\ MaxFaults \in Nat
    /\ \A q \in Requests : Doors[q] \subseteq Instances \X Calls
<1> QED  BY CallConstants

LEMMA RunIds == Runs \subseteq Nat \ {0} /\ 0 \notin Runs
<1> QED  BY Constants DEF Runs

LEMMA RowColumns ==
    /\ NoRow.run = 0 /\ NoRow.state = "" /\ NoRow.sent = "no" /\ NoRow \notin Row
    /\ \A x \in Row :
        /\ x.run \in Runs /\ x.call \in Calls /\ x.inst \in Instances /\ x.state \in Ends \cup {"running"}
        /\ x.sent \in YesNo
<1>1. NoRow.run = 0 /\ NoRow.state = "" /\ NoRow.sent = "no"
    BY DEF NoRow
<1>2. \A x \in Row :
        /\ x.run \in Runs /\ x.call \in Calls /\ x.inst \in Instances /\ x.state \in Ends \cup {"running"}
        /\ x.sent \in YesNo
    BY DEF Row
<1>3. NoRow \notin Row
    BY <1>1, <1>2, RunIds
<1> QED  BY <1>1, <1>2, <1>3

\* The run of a row that is there.
LEMMA TheRow ==
    ASSUME TypeOK
    PROVE  /\ row = NoRow \/ row \in Row
           /\ row.state # "" => row \in Row
           /\ row.run # 0 => row \in Row
           /\ \A r \in Runs : row.run = r => row \in Row
           /\ row \in Row <=> row # NoRow
<1> QED  BY RowColumns, RunIds DEF TypeOK

LEMMA EndRowColumns ==
    ASSUME row \in Row, NEW state \in Ends, EndRow(state)
    PROVE  /\ row' \in Row /\ row'.run = row.run /\ row'.state = state /\ row'.sent = row.sent
           /\ row'.inst = row.inst
<1> QED  BY DEF EndRow, Row

LEMMA SentColumns ==
    ASSUME row \in Row, row' = [row EXCEPT !.sent = "yes"]
    PROVE  /\ row' \in Row /\ row'.run = row.run /\ row'.state = row.state /\ row'.sent = "yes"
           /\ row'.inst = row.inst
<1> QED  BY DEF Row, YesNo

LEMMA LeaseColumns ==
    ASSUME row \in Row, NEW lease \in {"held", "out"}, row' = [row EXCEPT !.lease = lease]
    PROVE  /\ row' \in Row /\ row'.run = row.run /\ row'.state = row.state /\ row'.sent = row.sent
           /\ row'.inst = row.inst
<1> QED  BY DEF Row

LEMMA VerdictEnds == Verdict \in Ends /\ (Verdict = "not_run" => row.sent # "yes")
<1> QED  BY DEF Verdict, Ends

LEMMA RunColumns ==
    /\ NoRun \in Run /\ NoRun.phase = "unused" /\ NoRun.inst = None /\ NoRun.life = 0
    /\ NoRun.sent = "no" /\ NoRun.recorded = "no" /\ NoRun.guest = "idle" /\ NoRun.ran = "no"
    /\ \A h \in Run :
        /\ h.phase \in Phases /\ h.inst \in Instances \cup {None} /\ h.call \in Calls \cup {None}
        /\ h.life \in 0 .. MaxLife /\ h.sent \in YesNo /\ h.before \in YesNo /\ h.recorded \in YesNo
        /\ h.attempt \in {0, 1} /\ h.cause \in {"", "cancel", "stop", "lost"} /\ h.out \in Ends \cup {""}
        /\ h.guest \in {"idle", "wire", "ran"} /\ h.ran \in YesNo
<1>1. 0 \in 0 .. MaxLife
    BY Constants
<1> QED  BY <1>1 DEF NoRun, Run, Phases, YesNo

\* classify: a run that did not run was not sent.
LEMMA Classified ==
    ASSUME NEW h \in Run, NEW err
    PROVE  /\ Classify(h, err) \in Ends
           /\ Classify(h, err) = "not_run" => h.sent = "no"
<1>1. h.sent \in YesNo
    BY RunColumns
<1> QED  BY <1>1 DEF Classify, Ends, YesNo

\* callRun returns: what the runner keeps of the run.
LEMMA ReturnColumns ==
    ASSUME NEW r \in Runs, NEW h \in Run, NEW err, Return(r, h, err)
    PROVE  \E q \in Run :
            /\ runs' = [runs EXCEPT ![r] = q]
            /\ q.phase = "finish" /\ q.out = Classify(h, err) /\ q.inst = h.inst /\ q.life = h.life
            /\ q.sent = "no" /\ q.recorded = "no" /\ q.guest = h.guest /\ q.ran = h.ran
<1> DEFINE o == Classify(h, err)
           e == [NoRun EXCEPT !.phase = "finish", !.out = o, !.inst = h.inst, !.call = h.call,
                              !.life = h.life, !.guest = h.guest, !.ran = h.ran]
           q == [phase |-> "finish", inst |-> h.inst, call |-> h.call, life |-> h.life,
                 sent |-> "no", before |-> "no", recorded |-> "no", attempt |-> 0,
                 cause |-> "", out |-> o, guest |-> h.guest, ran |-> h.ran]
<1>1. o \in Ends \cup {""} /\ o = Classify(h, err)
    BY Classified
<1>2. runs' = [runs EXCEPT ![r] = e]
    BY Zenon DEF Return
<1> HIDE DEF o
<1>3. h.inst \in Instances \cup {None} /\ h.call \in Calls \cup {None} /\ h.life \in 0 .. MaxLife
      /\ h.guest \in {"idle", "wire", "ran"} /\ h.ran \in YesNo
    BY RunColumns
<1>4. ASSUME NEW z, z = e
      PROVE  z = q
    BY <1>4 DEF NoRun
<1>5. "finish" \in Phases /\ "no" \in YesNo /\ 0 \in {0, 1} /\ "" \in {"", "cancel", "stop", "lost"}
    BY DEF Phases, YesNo
<1>6. /\ q \in Run
      /\ q.phase = "finish" /\ q.out = o /\ q.inst = h.inst /\ q.life = h.life
      /\ q.sent = "no" /\ q.recorded = "no" /\ q.guest = h.guest /\ q.ran = h.ran
    BY <1>1, <1>3, <1>5 DEF Run
<1> HIDE DEF q, e
<1>7. e = q
    BY <1>4, Zenon
<1> QED  BY <1>1, <1>2, <1>6, <1>7

-----------------------------------------------------------------------------
(* Steps that give no run out *)

\* What the row's sent says of its run.
NotSent(r) ==
    /\ runs[r].ran = "no" /\ runs[r].guest = "idle"
    /\ runs[r].recorded = "no" /\ runs[r].phase \notin {"send", "await"}

\* The row stays, ends, or has its sent or its lease written.
RowMoves ==
    \/ row' = NoRow /\ row = NoRow
    \/ /\ row \in Row /\ row' \in Row /\ row'.run = row.run
       /\ row'.state = row.state \/ (row.state = "running" /\ row'.state \in Ends)
       /\ row'.sent = "no" => NotSent(row.run)'
       /\ row'.state = "not_run" => Dead(row.run)'

\* No run is given out, and a dead one stays dead.
RunsMove ==
    /\ used' = used /\ life' = life
    /\ \A r \in Runs :
        /\ runs'[r].phase = "unused" <=> runs[r].phase = "unused"
        /\ runs'[r].life = runs[r].life
        /\ RunOk(r)' /\ (Dead(r) => Dead(r)')

LEMMA MovesKeep ==
    ASSUME KInv, RunsMove, RowMoves
    PROVE  RunsOk' /\ RowOk' /\ Lives'
<1> USE RunIds, RowColumns
<1>1. RunsOk'
    BY DEF RunsMove, RunsOk
<1>2. RowOk'
    <2>1. row'.run = row.run
        BY DEF RowMoves
    <2>2. row'.run <= used'
        BY <2>1 DEF KInv, RowOk, RunsMove
    <2>3. row' # NoRow => row' \in Row
        BY DEF RowMoves
    <2>4. row' # NoRow /\ row'.sent = "no" => NotSent(row.run)'
        BY DEF RowMoves
    <2>5. row' # NoRow /\ row'.state = "not_run" => Dead(row.run)'
        BY DEF RowMoves
    <2> QED  BY <2>1, <2>2, <2>3, <2>4, <2>5 DEF RowOk, NotSent, Dead, Running
<1>3. Lives'
    <2>0. life' = life /\ row'.run = row.run /\ (row' # NoRow <=> row # NoRow)
        BY DEF RowMoves, RunsMove
    <2>1. \A r \in Runs : runs'[r].life = runs[r].life /\ (Dead(r) => Dead(r)')
                          /\ (runs'[r].phase = "unused" <=> runs[r].phase = "unused")
        BY DEF RunsMove
    <2>2. row # NoRow => row.run \in Runs
        BY DEF KInv, RowOk
    <2>3. /\ \A r \in Runs : runs'[r].life <= life'
          /\ row' # NoRow => runs'[row'.run].life = life'
        BY <2>0, <2>1, <2>2 DEF KInv, Lives
    <2>4. \A r \in Runs : runs'[r].phase # "unused" /\ runs'[r].life = life' => r = row'.run \/ Dead(r)'
        BY <2>0, <2>1 DEF KInv, Lives
    <2>5. \A r, s \in Runs : r # s /\ runs'[r].phase # "unused" /\ runs'[s].phase # "unused"
                             /\ runs'[r].life = runs'[s].life => Dead(r)' \/ Dead(s)'
        BY <2>1 DEF KInv, Lives
    <2> QED  BY <2>3, <2>4, <2>5 DEF Lives
<1> QED  BY <1>1, <1>2, <1>3

LEMMA UsedNat == ASSUME KInv PROVE used \in Nat /\ life \in Nat /\ row.run <= used
<1>1. used \in 0 .. MaxRuns /\ life \in 0 .. MaxLife
    BY DEF KInv, TypeOK
<1> QED  BY <1>1, Constants DEF KInv, RowOk

LEMMA LeqTrans ==
    ASSUME NEW a \in Runs, NEW b \in Nat, NEW c \in Nat, a <= b, c >= b PROVE a <= c
<1> QED  BY RunIds

LEMMA NotGreater == \A a \in Runs, b \in Nat : a <= b <=> ~(a > b)
<1> QED  BY RunIds

LEMMA GeqRefl == \A n \in Nat : n >= n
<1> QED  OBVIOUS

\* What is told is what was, or of a run that is not told wrongly.
LEMMA ToldKeeps ==
    ASSUME KInv, used' >= used,
           \A r \in Runs : Dead(r) => Dead(r)',
           \A r \in Runs, x \in Ends : <<r, x>> \in told' \ told => r <= used' /\ (x = "not_run" => Dead(r)'),
           \A q \in Requests : reqs'[q].pc = "existing" =>
                \/ reqs[q].pc = "existing" /\ reqs'[q].row = reqs[q].row
                \/ row # NoRow /\ reqs'[q].row = row,
           used' \in Nat
    PROVE  ToldOk'
<1> USE RunIds, RowColumns
<1>0. used \in Nat
    BY UsedNat
<1>1. ASSUME NEW r \in Runs, NEW x \in Ends, <<r, x>> \in told'
      PROVE  r <= used' /\ (x = "not_run" => Dead(r)')
    <2>1. CASE <<r, x>> \in told
        <3>1. r <= used /\ (x = "not_run" => Dead(r))
            BY <2>1 DEF KInv, ToldOk
        <3>2. r <= used'
            BY <1>0, <3>1, LeqTrans
        <3> QED  BY <3>1, <3>2
    <2>2. CASE <<r, x>> \notin told
        BY <1>1, <2>2
    <2> QED  BY <2>1, <2>2
<1>2. ASSUME NEW q \in Requests, reqs'[q].pc = "existing"
      PROVE  /\ reqs'[q].row \in Row /\ reqs'[q].row.run <= used'
             /\ reqs'[q].row.state = "not_run" => Dead(reqs[q].row.run)'
    <2>0. PICK w : w = reqs'[q].row
        OBVIOUS
    <2>1. w \in Row /\ w.run <= used /\ (w.state = "not_run" => Dead(w.run))
        BY <1>2, <2>0 DEF KInv, ToldOk, RowOk
    <2>2. w.run \in Runs
        BY <2>1
    <2>3. w.run <= used'
        BY <2>1, <2>2, <1>0, LeqTrans
    <2>4. w.state = "not_run" => Dead(w.run)'
        BY <2>1, <2>2
    <2> QED  BY <2>0, <2>1, <2>3, <2>4
<1> QED  BY <1>1, <1>2 DEF ToldOk

LEMMA SaysKeeps ==
    ASSUME KInv, gaveUp \subseteq gaveUp',
           \A r \in Runs \ gaveUp' : Running(r)' => Running(r),
           \A r \in Runs \ gaveUp', x \in Ends : Says(r, x)' =>
                \/ Says(r, x)
                \/ Running(r) /\ row'.run = r /\ row'.state = x
                \/ x = "interrupted" /\ ~Running(r)
    PROVE  SaysOk'
<1> SUFFICES ASSUME NEW r \in Runs \ gaveUp'
             PROVE  /\ Running(r)' => \A x \in Ends : ~Says(r, x)'
                    /\ ~(Says(r, "done")' /\ Says(r, "not_run")')
    BY DEF SaysOk
<1>1. (Running(r) => \A x \in Ends : ~Says(r, x)) /\ ~(Says(r, "done") /\ Says(r, "not_run"))
    BY DEF KInv, SaysOk
<1>2. Running(r)' => \A x \in Ends : x # row'.state
    BY DEF Running, Ends
<1>3. ASSUME Running(r)', NEW x \in Ends PROVE ~Says(r, x)'
    BY <1>1, <1>2, <1>3
<1>4. ~(Says(r, "done")' /\ Says(r, "not_run")')
    <2>1. "done" \in Ends /\ "not_run" \in Ends
        BY DEF Ends
    <2> QED  BY <1>1, <2>1
<1> QED  BY <1>3, <1>4

\* The locks, the registered runs and the slots see no more of a run than
\* whether it is to be registered, is, or was.
LEMMA LocksKeep ==
    ASSUME KInv,
           \A r \in Runs :
                /\ runs'[r].phase \in Going <=> runs[r].phase \in Going
                /\ runs'[r].phase = "row" <=> runs[r].phase = "row"
                /\ runs[r].phase \in Going \cup {"row"} => runs'[r].inst = runs[r].inst,
           reqs' = reqs, kc' = kc, lock' = lock, slots' = slots,
           \A i \in Instances : proc'[i] = "stopped" => proc[i] = "stopped" \/ slots[i] = 0
    PROVE  Locks' /\ Slots'
<1> USE RunIds
<1>1. \A r \in Runs, i \in Instances : kc'[i] = r <=> runs'[r].inst = i /\ runs'[r].phase \in Going
    BY DEF KInv, Locks
<1>2. \A q \in Requests : reqs'[q].pc = "register" =>
        runs'[reqs'[q].run].phase = "row" /\ runs'[reqs'[q].run].inst = reqs'[q].inst
    <2>1. \A q \in Requests : reqs[q].pc = "register" => reqs[q].run \in Runs
        <3>1. \A q \in Requests : reqs[q].run \in Runs \cup {0}
            BY DEF KInv, TypeOK, Request
        <3> QED  BY <3>1 DEF KInv, Locks
    <2> QED  BY ZenonT(60), <2>1 DEF KInv, Locks
<1>3. \A r \in Runs : runs'[r].phase = "row" =>
        \E q \in Requests : reqs'[q].pc = "register" /\ reqs'[q].run = r /\ reqs'[q].inst = runs'[r].inst
    BY DEF KInv, Locks
<1>4. Locks'
    BY <1>1, <1>2, <1>3 DEF KInv, Locks
<1>5. Slots'
    BY DEF KInv, Slots, Slot
<1> QED  BY <1>4, <1>5

\* Steps in which no request moves and no run settles.
LEMMA QuietKeeps ==
    ASSUME KInv, RunsMove, RowMoves, told' = told, gaveUp' = gaveUp, reqs' = reqs,
           \A r \in Runs : runs'[r].phase = "settled" => runs[r].phase = "settled" /\ runs'[r].out = runs[r].out
    PROVE  RunsOk' /\ RowOk' /\ Lives' /\ ToldOk' /\ SaysOk'
<1> USE RunIds, RowColumns
<1>1. RunsOk' /\ RowOk' /\ Lives'
    BY MovesKeep
<1>2. ToldOk'
    <2>0. \A r \in Runs : Dead(r) => Dead(r)'
        BY DEF RunsMove
    <2>1. used' >= used /\ used' \in Nat
        <3>1. used' = used
            BY DEF RunsMove
        <3>2. used \in Nat
            BY UsedNat
        <3> QED  BY <3>1, <3>2, GeqRefl
    <2>2. \A r \in Runs, x \in Ends : <<r, x>> \in told' \ told => r <= used' /\ (x = "not_run" => Dead(r)')
        OBVIOUS
    <2>3. \A q \in Requests : reqs'[q].pc = "existing" =>
            \/ reqs[q].pc = "existing" /\ reqs'[q].row = reqs[q].row
            \/ row # NoRow /\ reqs'[q].row = row
        OBVIOUS
    <2> QED  BY <2>0, <2>1, <2>2, <2>3, ToldKeeps
<1>3. SaysOk'
    <2>1. row'.run = row.run /\ (row'.state = row.state \/ (row.state = "running" /\ row'.state \in Ends))
        BY DEF RowMoves
    <2>2. \A r \in Runs \ gaveUp' : Running(r)' => Running(r)
        BY <2>1 DEF Running, Ends
    <2>3. ASSUME NEW r \in Runs \ gaveUp', NEW x \in Ends, Says(r, x)'
          PROVE  Says(r, x) \/ (Running(r) /\ row'.run = r /\ row'.state = x)
        BY <2>1, <2>3 DEF Says, Running
    <2> QED  BY <2>2, <2>3, SaysKeeps
<1> QED  BY <1>1, <1>2, <1>3

\* A change of the row alone.
LEMMA RowChanges ==
    ASSUME KInv, RowMoves, UNCHANGED <<used, life, runs, reqs, told, gaveUp>>
    PROVE  RunsOk' /\ RowOk' /\ Lives' /\ ToldOk' /\ SaysOk'
<1> USE RunIds, RowColumns
<1>1. row'.run = row.run /\ (row'.state = row.state \/ (row.state = "running" /\ row'.state \in Ends))
    BY DEF RowMoves
<1>2. \A r \in Runs : Running(r)' => Running(r)
    BY <1>1 DEF Running, Ends
<1>3. runs' = runs /\ used' = used /\ life' = life /\ reqs' = reqs /\ told' = told /\ gaveUp' = gaveUp
    OBVIOUS
<1>4. ASSUME NEW r \in Runs PROVE RunOk(r)' /\ (Dead(r) => Dead(r)')
    <2>1. RunOk(r)
        BY DEF KInv, RunsOk
    <2>2. RunOk(r)'
        BY <1>2, <1>3, <2>1 DEF RunOk
    <2> QED  BY <1>2, <1>3, <2>2 DEF Dead
<1>5. RunsMove
    BY <1>3, <1>4 DEF RunsMove
<1> QED  BY <1>3, <1>5, QuietKeeps

\* A change of one run, and its row's sent.
LEMMA RunChanges ==
    ASSUME KInv, NEW r \in Runs, NEW q \in Run, runs' = [runs EXCEPT ![r] = q], RunOnly,
           q.life = runs[r].life, q.inst = runs[r].inst,
           \/ runs[r].phase \in Going /\ q.phase \in Going
           \/ q.phase = runs[r].phase /\ q.out = runs[r].out,
           row' = row \/ (Running(r) /\ row' = [row EXCEPT !.sent = "yes"]),
           RunOk(r)', Dead(r) => Dead(r)',
           row.run = r /\ row.sent = "no" /\ row' = row => NotSent(r)',
           faults' \in 0 .. MaxFaults
    PROVE  KInv'
<1> USE RunIds, RowColumns
<1>0. used' = used /\ life' = life /\ reqs' = reqs /\ kc' = kc /\ lock' = lock /\ slots' = slots /\ proc' = proc
      /\ late' = late /\ notes' = notes /\ told' = told /\ gaveUp' = gaveUp
    BY DEF RunOnly
<1>1. runs \in [Runs -> Run] /\ runs'[r] = q /\ \A s \in Runs \ {r} : runs'[s] = runs[s]
    BY DEF KInv, TypeOK
<1>2. /\ row' = row \/ (row \in Row /\ row'.sent = "yes")
      /\ row' \in Row <=> row \in Row
      /\ row'.run = row.run /\ row'.state = row.state
    <2>1. CASE row' = row
        BY <2>1
    <2>2. CASE Running(r) /\ row' = [row EXCEPT !.sent = "yes"]
        <3>1. row \in Row
            BY <2>2, TheRow DEF Running, KInv
        <3> QED  BY <2>2, <3>1, SentColumns
    <2> QED  BY <2>1, <2>2
<1>3. \A s \in Runs : Running(s)' <=> Running(s)
    BY <1>2 DEF Running
<1>4. ASSUME NEW s \in Runs PROVE RunOk(s)' /\ (Dead(s) => Dead(s)')
    <2>1. CASE s = r
        BY <2>1
    <2>2. CASE s # r
        <3>1. runs'[s] = runs[s] /\ RunOk(s)
            BY <1>1, <2>2 DEF KInv, RunsOk
        <3>2. RunOk(s)'
            BY <1>0, <1>3, <3>1 DEF RunOk
        <3> QED  BY <1>3, <3>1, <3>2 DEF Dead
    <2> QED  BY <2>1, <2>2
<1>5. RunsMove
    <2>1. \A s \in Runs : runs'[s].life = runs[s].life /\ (runs'[s].phase = "unused" <=> runs[s].phase = "unused")
        BY <1>1 DEF Going
    <2> QED  BY <1>0, <1>4, <2>1 DEF RunsMove
<1>6. RowMoves
    <2>1. CASE row = NoRow
        BY <1>2, <2>1 DEF RowMoves
    <2>2. CASE row # NoRow
        <3>1. row \in Row /\ row.run \in Runs
            BY <2>2 DEF KInv, RowOk
        <3>2. row'.sent = "no" => NotSent(row.run)'
            <4>1. CASE row.run = r
                BY <1>2, <4>1
            <4>2. CASE row.run # r
                <5>1. row'.sent = "no" => NotSent(row.run)
                    BY <1>2, <2>2 DEF KInv, RowOk, NotSent
                <5> QED  BY <1>1, <1>2, <3>1, <4>2, <5>1 DEF NotSent
            <4> QED  BY <4>1, <4>2
        <3>3. row'.state = "not_run" => Dead(row.run)'
            BY <1>2, <1>4, <2>2, <3>1 DEF KInv, RowOk
        <3> QED  BY <1>2, <3>1, <3>2, <3>3 DEF RowMoves
    <2> QED  BY <2>1, <2>2
<1>7. RunsOk' /\ RowOk' /\ Lives' /\ ToldOk' /\ SaysOk'
    <2>1. \A s \in Runs : runs'[s].phase = "settled" => runs[s].phase = "settled" /\ runs'[s].out = runs[s].out
        BY <1>1 DEF Going
    <2> QED  BY <1>0, <1>5, <1>6, <2>1, QuietKeeps
<1>8. Locks' /\ Slots'
    <2>1. \A s \in Runs :
            /\ runs'[s].phase \in Going <=> runs[s].phase \in Going
            /\ runs'[s].phase = "row" <=> runs[s].phase = "row"
            /\ runs'[s].inst = runs[s].inst
        BY <1>1 DEF Going
    <2>2. \A i \in Instances : proc'[i] = "stopped" => proc[i] = "stopped" \/ slots[i] = 0
        BY <1>0
    <2> QED  BY <1>0, <2>1, <2>2, LocksKeep
<1>9. TypeOK'
    <2>1. runs' \in [Runs -> Run]
        BY DEF KInv, TypeOK
    <2>2. row' \in Row \cup {NoRow}
        BY <1>2 DEF KInv, TypeOK
    <2> QED  BY <1>0, <2>1, <2>2 DEF KInv, TypeOK
<1> QED  BY <1>7, <1>8, <1>9 DEF KInv

-----------------------------------------------------------------------------
(* The steps of a run *)

LEMMA OfRow ==
    ASSUME KInv, NEW r \in Runs, row.run = r, row.sent = "no"
    PROVE  NotSent(r)
<1>1. row # NoRow
    BY RowColumns, RunIds
<1> QED  BY <1>1 DEF KInv, RowOk, NotSent

LEMMA Returns ==
    ASSUME KInv, NEW r \in Runs, NEW h \in Run, NEW err, Return(r, h, err), RunOnly, Active(r),
           h.inst = runs[r].inst, h.life = runs[r].life, h.ran = runs[r].ran,
           h.guest \in {runs[r].guest, "idle"},
           h.sent = "no" => h.ran = "no" /\ h.guest = "idle",
           row' = row \/ (Running(r) /\ row' = [row EXCEPT !.sent = "yes"]),
           faults' \in 0 .. MaxFaults
    PROVE  KInv'
<1>1. PICK q \in Run :
            /\ runs' = [runs EXCEPT ![r] = q]
            /\ q.phase = "finish" /\ q.out = Classify(h, err) /\ q.inst = h.inst /\ q.life = h.life
            /\ q.sent = "no" /\ q.recorded = "no" /\ q.guest = h.guest /\ q.ran = h.ran
    BY ReturnColumns
<1>2. q.out \in Ends /\ (q.out = "not_run" => q.ran = "no" /\ q.guest = "idle")
    BY <1>1, Classified
<1>3. runs'[r] = q /\ used' = used
    BY <1>1 DEF KInv, TypeOK, RunOnly
<1>4. RunOk(r)
    BY DEF KInv, RunsOk
<1>5. runs[r].inst \in Instances /\ r <= used
    BY <1>4, RunIds, UsedNat DEF RunOk, Active
<1>6. RunOk(r)'
    BY <1>1, <1>2, <1>3, <1>5, RunIds, UsedNat DEF RunOk
<1>7. Dead(r) => Dead(r)'
    BY <1>1, <1>3 DEF Dead
<1>8. row.run = r /\ row.sent = "no" /\ row' = row => NotSent(r)'
    BY <1>1, <1>3, OfRow DEF NotSent
<1>9. runs[r].phase \in Going /\ q.phase \in Going
    BY <1>1 DEF Going, Active
<1> QED  BY <1>1, <1>6, <1>7, <1>8, <1>9, RunChanges

LEMMA AcquireKeeps == ASSUME KInv, NEW r \in Runs, Acquire(r) PROVE KInv'
<1>0. runs \in [Runs -> Run] /\ runs[r] \in Run /\ RunOk(r) /\ runs[r].phase = "acquire"
      /\ RunOnly /\ row' = row /\ faults' \in 0 .. MaxFaults
    BY DEF KInv, TypeOK, RunsOk, Acquire
<1>1. CASE Return(r, runs[r], "error")
    <2>1. runs[r].sent = "no" => runs[r].ran = "no" /\ runs[r].guest = "idle"
        BY <1>0 DEF RunOk
    <2>2. Active(r)
        BY <1>0 DEF Active
    <2> QED  BY <1>0, <1>1, <2>1, <2>2, Returns
<1>2. CASE runs' = [runs EXCEPT ![r].phase = "gate"]
    <2> DEFINE h == runs[r]
               q == [h EXCEPT !.phase = "gate"]
    <2>1. runs' = [runs EXCEPT ![r] = q]
        BY <1>2
    <2> HIDE DEF h
    <2>2. h \in Run /\ h = runs[r]
        BY <1>0 DEF h
    <2>3. /\ q \in Run /\ q.phase = "gate" /\ q.inst = h.inst /\ q.life = h.life /\ q.sent = h.sent
          /\ q.recorded = h.recorded /\ q.before = h.before /\ q.guest = h.guest /\ q.ran = h.ran
        BY ZenonT(30), <2>2 DEF Run, Phases
    <2> HIDE DEF q
    <2>4. runs'[r] = q /\ used' = used
        BY <2>1, <1>0 DEF RunOnly
    <2>5. RunOk(r)'
        BY <1>0, <2>2, <2>3, <2>4 DEF RunOk
    <2>6. Dead(r) => Dead(r)'
        BY <1>0, <2>2, <2>3, <2>4 DEF Dead, Running
    <2>7. row.run = r /\ row.sent = "no" /\ row' = row => NotSent(r)'
        BY <2>2, <2>3, <2>4, OfRow DEF NotSent
    <2>8. runs[r].phase \in Going /\ q.phase \in Going
        BY <1>0, <2>3 DEF Going
    <2> QED  BY <1>0, <2>1, <2>2, <2>3, <2>5, <2>6, <2>7, <2>8, RunChanges
<1> QED  BY <1>1, <1>2 DEF Acquire

LEMMA SendingRuns ==
    ASSUME NEW h \in Run, NEW b \in YesNo
    PROVE  [h EXCEPT !.phase = "send", !.before = b, !.sent = "yes", !.recorded = "yes"] \in Run
<1> QED  BY ZenonT(90) DEF Run, Phases, YesNo

LEMMA GateKeeps == ASSUME KInv, NEW r \in Runs, Gate(r) PROVE KInv'
<1> DEFINE h == runs[r]
<1>0. runs \in [Runs -> Run] /\ h \in Run /\ RunOk(r) /\ runs[r].phase = "gate" /\ RunOnly
      /\ faults' \in 0 .. MaxFaults
    BY DEF KInv, TypeOK, RunsOk, Gate
<1>1. CASE (Return(r, h, "error") \/ Return(r, h, "lost")) /\ row' = row
    <2>1. runs[r].sent = "no" => runs[r].ran = "no" /\ runs[r].guest = "idle"
        BY <1>0 DEF RunOk
    <2>2. Active(r)
        BY <1>0 DEF Active
    <2>3. CASE Return(r, h, "error")
        BY <1>0, <1>1, <2>1, <2>2, <2>3, Returns
    <2>4. CASE Return(r, h, "lost")
        BY <1>0, <1>1, <2>1, <2>2, <2>4, Returns
    <2> QED  BY <1>1, <2>3, <2>4
<1>2. CASE /\ runs' = [runs EXCEPT ![r] =
                [h EXCEPT !.phase = "send", !.before = h.sent, !.sent = "yes", !.recorded = "yes"]]
           /\ \/ h.recorded = "yes" /\ row' = row
              \/ Running(r) /\ row' = [row EXCEPT !.sent = "yes"]
    <2> DEFINE q == [h EXCEPT !.phase = "send", !.before = h.sent, !.sent = "yes", !.recorded = "yes"]
    <2>1. runs' = [runs EXCEPT ![r] = q]
        BY <1>2
    <2>a. h.recorded = "yes" \/ Running(r)
        BY <1>2
    <2>b. row' = row \/ (Running(r) /\ row' = [row EXCEPT !.sent = "yes"])
        BY <1>2
    <2>c. row' = row => h.recorded = "yes" \/ row.sent = "yes"
        <3>1. ASSUME Running(r), row' = [row EXCEPT !.sent = "yes"] PROVE row'.sent = "yes"
            BY <3>1, TheRow, SentColumns DEF Running, KInv
        <3> QED  BY <1>2, <3>1
    <2> HIDE DEF h
    <2>2. h \in Run /\ h = runs[r] /\ h.sent \in YesNo
        BY <1>0, RunColumns DEF h
    <2>3. /\ q \in Run /\ q.phase = "send" /\ q.inst = h.inst /\ q.life = h.life /\ q.sent = "yes"
          /\ q.recorded = "yes" /\ q.before = h.sent /\ q.guest = h.guest /\ q.ran = h.ran
        <3>1. q.phase = "send" /\ q.inst = h.inst /\ q.life = h.life /\ q.sent = "yes"
            BY <2>2 DEF Run
        <3>2. q.recorded = "yes" /\ q.before = h.sent /\ q.guest = h.guest /\ q.ran = h.ran
            BY <2>2 DEF Run
        <3>3. q \in Run
            BY <2>2, SendingRuns, Zenon
        <3> HIDE DEF q
        <3> QED  BY <3>1, <3>2, <3>3
    <2> HIDE DEF q
    <2>4. runs'[r] = q /\ used' = used
        BY <2>1, <1>0 DEF RunOnly
    <2>5. RunOk(r)'
        BY <1>0, <2>2, <2>3, <2>4 DEF RunOk
    <2>6. Dead(r) => Dead(r)'
        BY <1>0, <2>2, <2>a DEF Dead
    <2>7. row.run = r /\ row.sent = "no" /\ row' = row => NotSent(r)'
        BY <2>2, <2>c, OfRow DEF NotSent
    <2>8. runs[r].phase \in Going /\ q.phase \in Going
        BY <1>0, <2>3 DEF Going
    <2> QED  BY <1>0, <2>1, <2>2, <2>3, <2>b, <2>5, <2>6, <2>7, <2>8, RunChanges
<1> QED  BY <1>1, <1>2, Zenon DEF Gate

LEMMA FaultCounts == ASSUME KInv, Fault PROVE faults' \in 0 .. MaxFaults
<1>1. faults \in 0 .. MaxFaults
    BY DEF KInv, TypeOK
<1> QED  BY <1>1, Constants DEF Fault

LEMMA GateFailsKeeps == ASSUME KInv, NEW r \in Runs, GateFails(r) PROVE KInv'
<1> DEFINE h == runs[r]
<1>0. h \in Run /\ RunOk(r) /\ runs[r].phase = "gate" /\ RunOnly /\ Return(r, h, "error")
    BY DEF KInv, TypeOK, RunsOk, GateFails
<1>1. runs[r].sent = "no" => runs[r].ran = "no" /\ runs[r].guest = "idle"
    BY <1>0 DEF RunOk
<1>2. Active(r)
    BY <1>0 DEF Active
<1>3. row' = row \/ (Running(r) /\ row' = [row EXCEPT !.sent = "yes"])
    BY DEF GateFails
<1>4. faults' \in 0 .. MaxFaults
    BY FaultCounts DEF GateFails
<1> QED  BY <1>0, <1>1, <1>2, <1>3, <1>4, Returns

LEMMA SendKeeps == ASSUME KInv, NEW r \in Runs, Send(r) PROVE KInv'
<1> DEFINE h == runs[r]
<1>0. runs \in [Runs -> Run] /\ h \in Run /\ RunOk(r) /\ runs[r].phase = "send" /\ RunOnly /\ row' = row
      /\ faults' \in 0 .. MaxFaults
    BY DEF KInv, TypeOK, RunsOk, Send
<1>1. CASE Return(r, [h EXCEPT !.sent = h.before], "error")
    <2> DEFINE g == [h EXCEPT !.sent = h.before]
    <2>1. Return(r, g, "error")
        BY <1>1
    <2> HIDE DEF h
    <2>2. h \in Run /\ h = runs[r] /\ h.before \in YesNo
        BY <1>0, RunColumns DEF h
    <2>3. /\ g \in Run /\ g.inst = h.inst /\ g.life = h.life /\ g.ran = h.ran /\ g.guest = h.guest
          /\ g.sent = h.before
        BY <2>2 DEF Run
    <2> HIDE DEF g
    <2>4. g.sent = "no" => g.ran = "no" /\ g.guest = "idle"
        BY <1>0, <2>2, <2>3 DEF RunOk
    <2>5. Active(r)
        BY <1>0 DEF Active
    <2> QED  BY <1>0, <2>1, <2>2, <2>3, <2>4, <2>5, Returns
<1>2. CASE runs' = [runs EXCEPT ![r] = [h EXCEPT !.phase = "await", !.guest = "wire"]]
    <2> DEFINE q == [h EXCEPT !.phase = "await", !.guest = "wire"]
    <2>1. runs' = [runs EXCEPT ![r] = q]
        BY <1>2
    <2> HIDE DEF h
    <2>2. h \in Run /\ h = runs[r]
        BY <1>0 DEF h
    <2>3. /\ q \in Run /\ q.phase = "await" /\ q.inst = h.inst /\ q.life = h.life /\ q.sent = h.sent
          /\ q.recorded = h.recorded /\ q.before = h.before /\ q.guest = "wire" /\ q.ran = h.ran
        BY ZenonT(30), <2>2 DEF Run, Phases
    <2> HIDE DEF q
    <2>4. runs'[r] = q /\ used' = used
        BY <2>1, <1>0 DEF RunOnly
    <2>5. RunOk(r)'
        BY <1>0, <2>2, <2>3, <2>4 DEF RunOk
    <2>6. Dead(r) => Dead(r)'
        BY <1>0 DEF Dead
    <2>7. row.run = r /\ row.sent = "no" /\ row' = row => NotSent(r)'
        BY <1>0, OfRow DEF NotSent
    <2>8. runs[r].phase \in Going /\ q.phase \in Going
        BY <1>0, <2>3 DEF Going
    <2> QED  BY <1>0, <2>1, <2>2, <2>3, <2>5, <2>6, <2>7, <2>8, RunChanges
<1> QED  BY <1>1, <1>2, Zenon DEF Send

LEMMA GuestRunsKeeps == ASSUME KInv, NEW r \in Runs, GuestRuns(r) PROVE KInv'
<1>0. runs \in [Runs -> Run] /\ runs[r] \in Run /\ RunOk(r) /\ runs[r].guest = "wire" /\ RunOnly
      /\ row' = row /\ faults' \in 0 .. MaxFaults
    BY DEF KInv, TypeOK, RunsOk, GuestRuns
<1> DEFINE h == runs[r]
           q == [h EXCEPT !.guest = "ran", !.ran = "yes"]
<1>1. runs' = [runs EXCEPT ![r] = q]
    BY <1>0 DEF GuestRuns
<1> HIDE DEF h
<1>2. h \in Run /\ h = runs[r]
    BY <1>0 DEF h
<1>3. /\ q \in Run /\ q.phase = h.phase /\ q.inst = h.inst /\ q.life = h.life /\ q.sent = h.sent
      /\ q.recorded = h.recorded /\ q.before = h.before /\ q.guest = "ran" /\ q.ran = "yes" /\ q.out = h.out
    BY ZenonT(30), <1>2 DEF Run, YesNo
<1> HIDE DEF q
<1>4. runs'[r] = q /\ used' = used
    BY <1>1, <1>0 DEF RunOnly
<1>5. RunOk(r)'
    BY <1>0, <1>2, <1>3, <1>4 DEF RunOk, Running
<1>6. Dead(r) => Dead(r)'
    BY <1>0 DEF Dead
<1>7. row.run = r /\ row.sent = "no" /\ row' = row => NotSent(r)'
    BY <1>0, OfRow DEF NotSent
<1> QED  BY <1>0, <1>1, <1>2, <1>3, <1>5, <1>6, <1>7, RunChanges

LEMMA AwaitKeeps == ASSUME KInv, NEW r \in Runs, Await(r) PROVE KInv'
<1> DEFINE h == runs[r]
           g == [h EXCEPT !.sent = h.before, !.guest = "idle"]
           again(x) == [x EXCEPT !.phase = "acquire", !.attempt = 1, !.guest = "idle"]
<1>0. runs \in [Runs -> Run] /\ h \in Run /\ RunOk(r) /\ runs[r].phase = "await" /\ RunOnly /\ row' = row
      /\ faults' \in 0 .. MaxFaults
    BY DEF KInv, TypeOK, RunsOk, Await
<1>1. \/ Return(r, h, "") \/ Return(r, h, "error")
      \/ h.guest = "wire" /\ Return(r, g, "error")
      \/ h.guest = "wire" /\ runs' = [runs EXCEPT ![r] = again(g)]
      \/ runs' = [runs EXCEPT ![r] = again(h)]
    BY Zenon DEF Await
<1>2. Active(r) /\ h.sent = "yes" /\ h.before \in YesNo /\ h.recorded = "yes"
    BY <1>0, RunColumns DEF Active, RunOk
<1> HIDE DEF h
<1>3. h = runs[r]
    BY DEF h
<1>4. /\ g \in Run /\ g.phase = h.phase /\ g.inst = h.inst /\ g.life = h.life /\ g.ran = h.ran
      /\ g.guest = "idle" /\ g.sent = h.before /\ g.recorded = h.recorded
    BY <1>0, <1>2 DEF Run
<1> HIDE DEF g
<1>5. CASE Return(r, h, "") \/ Return(r, h, "error")
    BY <1>0, <1>2, <1>3, <1>5, Returns
<1>6. h.guest = "wire" /\ h.before = "no" => h.ran = "no"
    BY <1>0, <1>3 DEF RunOk
<1>7. CASE h.guest = "wire" /\ Return(r, g, "error")
    BY <1>0, <1>2, <1>3, <1>4, <1>6, <1>7, Returns
<1>8. ASSUME NEW x \in Run, runs' = [runs EXCEPT ![r] = again(x)],
             x.inst = h.inst, x.life = h.life, x.ran = h.ran, x.recorded = "yes",
             x.sent = "no" => x.ran = "no"
      PROVE  KInv'
    <2> DEFINE q == again(x)
    <2>1. runs' = [runs EXCEPT ![r] = q]
        BY <1>8
    <2>2. x \in Run
        BY <1>8
    <2>3. /\ q \in Run /\ q.phase = "acquire" /\ q.inst = x.inst /\ q.life = x.life /\ q.sent = x.sent
          /\ q.recorded = x.recorded /\ q.guest = "idle" /\ q.ran = x.ran
        BY <2>2 DEF Run, Phases
    <2> HIDE DEF q
    <2>4. runs'[r] = q /\ used' = used
        BY <2>1, <1>0 DEF RunOnly
    <2>5. RunOk(r)'
        BY <1>0, <1>3, <1>8, <2>3, <2>4 DEF RunOk
    <2>6. Dead(r) => Dead(r)'
        BY <1>0 DEF Dead
    <2>7. row.run = r /\ row.sent = "no" /\ row' = row => NotSent(r)'
        BY <1>0, OfRow DEF NotSent
    <2>8. runs[r].phase \in Going /\ q.phase \in Going
        BY <1>0, <2>3 DEF Going
    <2> QED  BY <1>0, <1>3, <1>8, <2>1, <2>3, <2>5, <2>6, <2>7, <2>8, RunChanges
<1>9. CASE h.guest = "wire" /\ runs' = [runs EXCEPT ![r] = again(g)]
    <2> HIDE DEF again
    <2> QED  BY <1>2, <1>4, <1>6, <1>8, <1>9
<1>10. CASE runs' = [runs EXCEPT ![r] = again(h)]
    <2> HIDE DEF again
    <2> QED  BY <1>0, <1>2, <1>8, <1>10
<1> HIDE DEF again
<1> QED  BY <1>1, <1>5, <1>7, <1>9, <1>10

\* settle: the run's columns, its registration and its slot.
LEMMA SettleColumns ==
    ASSUME KInv, NEW r \in Runs, NEW out \in Ends, Settle(r, out), runs[r].phase \in {"finish", "stored"}
    PROVE  /\ runs' \in [Runs -> Run]
           /\ runs'[r].phase = "settled" /\ runs'[r].out = out /\ runs'[r].inst = runs[r].inst
           /\ runs'[r].life = runs[r].life /\ runs'[r].guest = runs[r].guest /\ runs'[r].ran = runs[r].ran
           /\ runs'[r].recorded = runs[r].recorded
           /\ \A s \in Runs \ {r} : runs'[s] = runs[s]
           /\ runs[r].inst \in Instances /\ kc[runs[r].inst] = r /\ slots[runs[r].inst] = 1
           /\ kc' = [kc EXCEPT ![runs[r].inst] = 0] /\ slots' = [slots EXCEPT ![runs[r].inst] = 0]
<1> USE RunIds
<1>0. runs \in [Runs -> Run] /\ runs[r] \in Run /\ RunOk(r)
    BY DEF KInv, TypeOK, RunsOk
<1> DEFINE h == runs[r]
           q == [h EXCEPT !.phase = "settled", !.out = out]
<1>1. runs' = [runs EXCEPT ![r] = q]
    BY <1>0 DEF Settle
<1>2. runs[r].inst \in Instances
    BY <1>0 DEF RunOk
<1>3. kc[runs[r].inst] = r
    BY <1>2 DEF KInv, Locks, Going
<1>4. slots[runs[r].inst] = 1
    BY <1>2, <1>3 DEF KInv, Slots, Slot
<1>5. kc' = [kc EXCEPT ![runs[r].inst] = 0]
    BY <1>3 DEF Settle
<1>6. slots' = [slots EXCEPT ![runs[r].inst] = 0]
    <2>1. slots' = [slots EXCEPT ![runs[r].inst] = slots[runs[r].inst] - 1]
        BY DEF Settle, Unreserve
    <2> QED  BY <1>4, <2>1
<1> HIDE DEF h
<1>7. h \in Run /\ h = runs[r]
    BY <1>0 DEF h
<1>8. /\ q \in Run /\ q.phase = "settled" /\ q.out = out /\ q.inst = h.inst /\ q.life = h.life
      /\ q.guest = h.guest /\ q.ran = h.ran /\ q.recorded = h.recorded
    BY <1>7 DEF Run, Phases
<1> HIDE DEF q
<1>9. runs' \in [Runs -> Run] /\ runs'[r] = q /\ \A s \in Runs \ {r} : runs'[s] = runs[s]
    BY <1>0, <1>1, <1>8
<1> QED  BY <1>2, <1>3, <1>4, <1>5, <1>6, <1>7, <1>8, <1>9

\* The slot of the settled run was the only one of its key.
LEMMA SettleFrees ==
    ASSUME KInv, NEW r \in Runs, NEW out \in Ends, Settle(r, out), runs[r].phase \in {"finish", "stored"},
           reqs' = reqs, lock' = lock, proc' = proc
    PROVE  Locks' /\ Slots'
<1> USE RunIds
<1> DEFINE j == runs[r].inst
<1>0. /\ runs'[r].phase = "settled" /\ \A s \in Runs \ {r} : runs'[s] = runs[s]
      /\ j \in Instances /\ kc[j] = r /\ slots[j] = 1 /\ runs'[r].inst = j
      /\ kc' = [kc EXCEPT ![j] = 0] /\ slots' = [slots EXCEPT ![j] = 0]
    BY SettleColumns
<1>1. kc \in [Instances -> Runs \cup {0}] /\ slots \in [Instances -> Nat] /\ runs[r].phase \in Going
    BY DEF KInv, TypeOK, Going
<1>2. \A i \in Instances \ {j} : kc'[i] = kc[i] /\ slots'[i] = slots[i]
    BY <1>0, <1>1
<1>3. kc'[j] = 0 /\ slots'[j] = 0
    BY <1>0, <1>1
<1> HIDE DEF j
<1>4. \A s \in Runs, i \in Instances : kc'[i] = s <=> runs'[s].inst = i /\ runs'[s].phase \in Going
    <2> SUFFICES ASSUME NEW s \in Runs, NEW i \in Instances
                 PROVE  kc'[i] = s <=> runs'[s].inst = i /\ runs'[s].phase \in Going
        OBVIOUS
    <2>0. \A k \in Instances : kc[k] = s <=> runs[s].inst = k /\ runs[s].phase \in Going
        BY DEF KInv, Locks
    <2>1. /\ kc[i] = s <=> runs[s].inst = i /\ runs[s].phase \in Going
          /\ kc[j] = s <=> runs[s].inst = j /\ runs[s].phase \in Going
        BY <1>0, <2>0
    <2>2. CASE s = r
        BY <1>0, <1>2, <1>3, <2>1, <2>2 DEF Going
    <2>3. CASE s # r
        BY <1>0, <1>2, <1>3, <2>1, <2>3
    <2> QED  BY <2>2, <2>3
<1>5. /\ \A q \in Requests : reqs[q].pc = "register" =>
            runs'[reqs[q].run].phase = "row" /\ runs'[reqs[q].run].inst = reqs[q].inst
      /\ \A s \in Runs : runs'[s].phase = "row" =>
            \E q \in Requests : reqs[q].pc = "register" /\ reqs[q].run = s /\ reqs[q].inst = runs'[s].inst
    <2>1. \A q \in Requests : reqs[q].run \in Runs \cup {0}
        BY DEF KInv, TypeOK, Request
    <2>2. \A q \in Requests : reqs[q].pc = "register" => reqs[q].run \in Runs \ {r}
        BY <1>1, <2>1 DEF KInv, Locks, Going
    <2>3. ASSUME NEW q \in Requests, reqs[q].pc = "register"
          PROVE  runs'[reqs[q].run].phase = "row" /\ runs'[reqs[q].run].inst = reqs[q].inst
        <3>1. runs'[reqs[q].run] = runs[reqs[q].run]
            BY <1>0, <2>2, <2>3
        <3> QED  BY <2>3, <3>1 DEF KInv, Locks
    <2>4. ASSUME NEW s \in Runs, runs'[s].phase = "row"
          PROVE  \E q \in Requests : reqs[q].pc = "register" /\ reqs[q].run = s /\ reqs[q].inst = runs'[s].inst
        <3>1. s # r /\ runs'[s] = runs[s]
            BY <1>0, <2>4
        <3> QED  BY <2>4, <3>1 DEF KInv, Locks
    <2> QED  BY <2>3, <2>4
<1>6. \A i \in Instances : lock'[i] # None => kc'[i] = 0
    BY <1>2, <1>3 DEF KInv, Locks
<1>7. Locks'
    BY <1>4, <1>5, <1>6 DEF KInv, Locks
<1>8. lock[j] = None
    BY <1>0 DEF KInv, Locks
<1>9. \A q \in Requests : reqs[q].inst = j => reqs[q].pc \notin {"begin", "register"}
    BY <1>0, <1>8, Constants DEF KInv, Locks, LockPcs
<1>10. Slots'
    <2> SUFFICES ASSUME NEW i \in Instances
                 PROVE  /\ slots'[i] = IF Slot(i)' THEN 1 ELSE 0
                        /\ proc'[i] = "stopped" => slots'[i] = 0
        BY DEF Slots
    <2>1. CASE i = j
        BY <1>3, <1>9, <2>1 DEF Slot
    <2>2. CASE i # j
        BY <1>2, <2>2 DEF KInv, Slots, Slot
    <2> QED  BY <2>1, <2>2
<1> QED  BY <1>7, <1>10

LEMMA Settles ==
    ASSUME KInv, NEW r \in Runs, NEW out \in Ends, Settle(r, out), runs[r].phase \in {"finish", "stored"},
           UNCHANGED <<used, life, reqs, lock, proc, late, notes, told>>,
           out = "not_run" => runs[r].ran = "no" /\ runs[r].guest = "idle",
           \/ Running(r) /\ EndRow(out)
           \/ row' = row /\ r \in gaveUp'
           \/ row' = row /\ row.run = r /\ row.state = out
           \/ row' = row /\ out = "interrupted" /\ ~Running(r),
           gaveUp \subseteq gaveUp', gaveUp' \subseteq Runs, faults' \in 0 .. MaxFaults
    PROVE  KInv'
<1> USE RunIds, RowColumns
<1>0. used' = used /\ life' = life /\ reqs' = reqs /\ lock' = lock /\ proc' = proc /\ late' = late
      /\ notes' = notes /\ told' = told
    OBVIOUS
<1>1. /\ runs' \in [Runs -> Run]
      /\ runs'[r].phase = "settled" /\ runs'[r].out = out /\ runs'[r].inst = runs[r].inst
      /\ runs'[r].life = runs[r].life /\ runs'[r].guest = runs[r].guest /\ runs'[r].ran = runs[r].ran
      /\ runs'[r].recorded = runs[r].recorded
      /\ \A s \in Runs \ {r} : runs'[s] = runs[s]
    BY ZenonT(90), SettleColumns
<1>2. /\ runs[r].inst \in Instances
      /\ kc' = [kc EXCEPT ![runs[r].inst] = 0] /\ slots' = [slots EXCEPT ![runs[r].inst] = 0]
    BY SettleColumns
<1>3. /\ row' = row \/ (row \in Row /\ row' \in Row /\ row.state = "running" /\ row'.state = out)
      /\ row'.run = row.run /\ row'.sent = row.sent
      /\ row' # row => row.run = r /\ row.state = "running" /\ row'.state = out
    <2>1. CASE row' = row
        BY <2>1
    <2>2. CASE Running(r) /\ EndRow(out)
        <3>1. row \in Row
            BY <2>2, TheRow DEF Running, KInv
        <3> QED  BY <2>2, <3>1, EndRowColumns DEF Running
    <2> QED  BY <2>1, <2>2
<1>4. \A s \in Runs : Running(s)' => Running(s)
    BY <1>3 DEF Running, Ends
<1>5. ASSUME NEW s \in Runs PROVE RunOk(s)' /\ (Dead(s) => Dead(s)')
    <2>0. RunOk(s)
        BY DEF KInv, RunsOk
    <2>1. CASE s = r
        <3>1. RunOk(r)'
            BY <1>0, <1>1, <1>2, <2>0, <2>1 DEF RunOk
        <3> QED  BY <1>1, <2>1, <3>1 DEF Dead
    <2>2. CASE s # r
        <3>1. runs'[s] = runs[s]
            BY <1>1, <2>2
        <3>2. RunOk(s)'
            BY <1>0, <1>4, <2>0, <3>1 DEF RunOk
        <3> QED  BY <1>4, <3>1, <3>2 DEF Dead
    <2> QED  BY <2>1, <2>2
<1>6. RunsMove
    <2>1. \A s \in Runs : runs'[s].life = runs[s].life /\ (runs'[s].phase = "unused" <=> runs[s].phase = "unused")
        BY <1>1
    <2> QED  BY <1>0, <1>5, <2>1 DEF RunsMove
<1>7. RowMoves
    <2>1. CASE row = NoRow
        BY <1>3, <2>1 DEF RowMoves
    <2>2. CASE row # NoRow
        <3>1. row \in Row /\ row.run \in Runs
            BY <2>2 DEF KInv, RowOk
        <3>2. row'.sent = "no" => NotSent(row.run)'
            <4> SUFFICES ASSUME row'.sent = "no" PROVE NotSent(row.run)'
                OBVIOUS
            <4>0. NotSent(row.run)
                BY <1>3, <2>2 DEF KInv, RowOk, NotSent
            <4>1. runs'[r].recorded = runs[r].recorded
                BY SettleColumns
            <4>2. CASE row.run = r
                <5>1. row'.run = r /\ NotSent(r)
                    BY <1>3, <4>0, <4>2
                <5>2. runs'[r].recorded = "no" /\ runs'[r].ran = "no" /\ runs'[r].guest = "idle"
                    BY <1>1, <4>1, <5>1 DEF NotSent
                <5> QED  BY <1>1, <5>1, <5>2 DEF NotSent
            <4>3. CASE row.run # r
                <5>1. row'.run = row.run /\ runs'[row.run] = runs[row.run]
                    BY <1>1, <1>3, <3>1, <4>3
                <5> QED  BY <4>0, <5>1 DEF NotSent
            <4> QED  BY <4>2, <4>3
        <3>3. row'.state = "not_run" => Dead(row.run)'
            <4>1. CASE row' = row
                BY <1>5, <2>2, <3>1, <4>1 DEF KInv, RowOk
            <4>2. CASE row' # row
                BY <1>1, <1>3, <4>2 DEF Dead
            <4> QED  BY <4>1, <4>2
        <3>4. row' \in Row /\ (row'.state = row.state \/ (row.state = "running" /\ row'.state \in Ends))
            BY <1>3, <3>1
        <3> QED  BY <1>3, <3>1, <3>2, <3>3, <3>4 DEF RowMoves
    <2> QED  BY <2>1, <2>2
<1>8. RunsOk' /\ RowOk' /\ Lives'
    BY <1>6, <1>7, MovesKeep
<1>9. ToldOk'
    <2>1. used' >= used /\ used' \in Nat
        BY <1>0, GeqRefl, UsedNat
    <2>2. \A s \in Runs, x \in Ends : <<s, x>> \in told' \ told => s <= used' /\ (x = "not_run" => Dead(s)')
        BY <1>0
    <2> QED  BY <1>0, <1>5, <2>1, <2>2, ToldKeeps
<1>10. SaysOk'
    <2>1. ASSUME NEW s \in Runs \ gaveUp', NEW x \in Ends, Says(s, x)'
          PROVE  \/ Says(s, x)
                 \/ Running(s) /\ row'.run = s /\ row'.state = x
                 \/ x = "interrupted" /\ ~Running(s)
        <3>1. CASE <<s, x>> \in told' \/ \E q \in Requests : reqs'[q].pc = "existing" /\ reqs'[q].row.run = s /\ reqs'[q].row.state = x
            BY <1>0, <3>1 DEF Says
        <3>2. CASE row'.run = s /\ row'.state = x
            BY <1>3, <3>2 DEF Says, Running
        <3>3. CASE runs'[s].phase = "settled" /\ runs'[s].out = x
            <4>1. CASE s # r
                BY <1>1, <3>3, <4>1 DEF Says
            <4>2. CASE s = r
                <5>1. x = out
                    BY <1>1, <3>3, <4>2
                <5>2. CASE row' # row
                    BY <1>3, <4>2, <5>1, <5>2 DEF Running
                <5>3. CASE row' = row
                    <6>1. ~(Running(r) /\ EndRow(out))
                        BY <5>3, TheRow, EndRowColumns DEF Running, Ends, KInv
                    <6> QED  BY <2>1, <4>2, <5>1, <6>1 DEF Says
                <5> QED  BY <5>2, <5>3
            <4> QED  BY <4>1, <4>2
        <3> QED  BY <2>1, <3>1, <3>2, <3>3 DEF Says
    <2> QED  BY <1>4, <2>1, SaysKeeps
<1>11. Locks' /\ Slots'
    BY <1>0, SettleFrees
<1>12. TypeOK'
    <2>1. kc' \in [Instances -> Runs \cup {0}] /\ slots' \in [Instances -> Nat]
        BY <1>2 DEF KInv, TypeOK
    <2>2. row' \in Row \cup {NoRow}
        BY <1>3 DEF KInv, TypeOK
    <2> QED  BY <1>0, <1>1, <2>1, <2>2 DEF KInv, TypeOK
<1> QED  BY <1>8, <1>9, <1>10, <1>11, <1>12 DEF KInv

LEMMA FinishKeeps == ASSUME KInv, NEW r \in Runs, Finish(r) PROVE KInv'
<1>0. runs \in [Runs -> Run] /\ runs[r] \in Run /\ RunOk(r) /\ runs[r].phase = "finish" /\ faults' = faults
      /\ UNCHANGED <<used, life, reqs, lock, proc, late, notes, told>> /\ gaveUp' = gaveUp
      /\ gaveUp \subseteq Runs /\ faults \in 0 .. MaxFaults
    BY DEF KInv, TypeOK, RunsOk, Finish
<1>1. /\ runs[r].out \in Ends
      /\ runs[r].out = "not_run" => runs[r].ran = "no" /\ runs[r].guest = "idle"
    BY <1>0 DEF RunOk
<1>2. CASE Running(r) /\ EndRow(runs[r].out) /\ Settle(r, runs[r].out)
    BY <1>0, <1>1, <1>2, Settles
<1>3. CASE /\ ~Running(r) /\ runs' = [runs EXCEPT ![r].phase = "stored"]
           /\ UNCHANGED <<row, kc, slots>>
    <2> DEFINE h == runs[r]
               q == [h EXCEPT !.phase = "stored"]
    <2>1. runs' = [runs EXCEPT ![r] = q]
        BY <1>3
    <2> HIDE DEF h
    <2>2. h \in Run /\ h = runs[r]
        BY <1>0 DEF h
    <2>3. /\ q \in Run /\ q.phase = "stored" /\ q.inst = h.inst /\ q.life = h.life /\ q.out = h.out
          /\ q.recorded = h.recorded /\ q.guest = h.guest /\ q.ran = h.ran
        BY ZenonT(30), <2>2 DEF Run, Phases
    <2> HIDE DEF q
    <2>4. runs'[r] = q /\ used' = used /\ row' = row /\ RunOnly
        BY <2>1, <1>0, <1>3 DEF RunOnly
    <2>5. RunOk(r)'
        BY <1>0, <1>3, <2>2, <2>3, <2>4 DEF RunOk, Running
    <2>6. Dead(r) => Dead(r)'
        BY <2>2, <2>3, <2>4 DEF Dead
    <2>7. row.run = r /\ row.sent = "no" /\ row' = row => NotSent(r)'
        BY <2>2, <2>3, <2>4, OfRow DEF NotSent
    <2>8. runs[r].phase \in Going /\ q.phase \in Going
        BY <1>0, <2>3 DEF Going
    <2> QED  BY <1>0, <2>1, <2>2, <2>3, <2>4, <2>5, <2>6, <2>7, <2>8, RunChanges
<1> QED  BY <1>2, <1>3 DEF Finish

LEMMA StoredKeeps == ASSUME KInv, NEW r \in Runs, Stored(r) PROVE KInv'
<1>0. RunOk(r) /\ runs[r].phase = "stored" /\ faults' = faults /\ row' = row
      /\ UNCHANGED <<used, life, reqs, lock, proc, late, notes, told>> /\ gaveUp' = gaveUp
      /\ gaveUp \subseteq Runs /\ faults \in 0 .. MaxFaults
    BY DEF KInv, TypeOK, RunsOk, Stored
<1>1. ~Running(r)
    BY <1>0 DEF RunOk
<1>2. CASE row.run = r /\ Settle(r, row.state)
    <2>1. row \in Row /\ row.state \in Ends
        BY <1>1, <1>2, TheRow, RowColumns DEF Running, KInv
    <2>2. row.state = "not_run" => runs[r].ran = "no" /\ runs[r].guest = "idle"
        BY <1>2, <2>1, RowColumns DEF KInv, RowOk, Dead
    <2> QED  BY <1>0, <1>2, <2>1, <2>2, Settles
<1>3. CASE Settle(r, "interrupted")
    BY <1>0, <1>1, <1>3, Settles DEF Ends
<1> QED  BY <1>2, <1>3 DEF Stored

LEMMA StoredFailsKeeps == ASSUME KInv, NEW r \in Runs, StoredFails(r) PROVE KInv'
<1>0. RunOk(r) /\ runs[r].phase = "stored" /\ row' = row /\ Settle(r, "interrupted")
      /\ UNCHANGED <<used, life, reqs, lock, proc, late, notes, told>> /\ gaveUp' = gaveUp
      /\ gaveUp \subseteq Runs
    BY DEF KInv, TypeOK, RunsOk, StoredFails
<1>1. ~Running(r)
    BY <1>0 DEF RunOk
<1>2. faults' \in 0 .. MaxFaults
    BY FaultCounts DEF StoredFails
<1> QED  BY <1>0, <1>1, <1>2, Settles DEF Ends

-----------------------------------------------------------------------------
(* Steps on the row, the leader's and the instances' *)

LEMMA SameRow == ASSUME KInv, row' = row, runs' = runs PROVE RowMoves
<1> USE RowColumns
<1>1. row = NoRow \/ row \in Row
    BY TheRow DEF KInv
<1>2. row \in Row => row # NoRow
    OBVIOUS
<1>3. row \in Row /\ row.sent = "no" => NotSent(row.run)'
    BY <1>2 DEF KInv, RowOk, NotSent
<1>4. row \in Row /\ row.state = "not_run" => Dead(row.run)'
    BY <1>2 DEF KInv, RowOk, Dead, Running
<1> QED  BY <1>1, <1>3, <1>4 DEF RowMoves

\* A row that was not sent is of a run that will not be.
LEMMA RowEnds ==
    ASSUME KInv, row.state = "running", NEW v \in Ends, EndRow(v), v = "not_run" => row.sent = "no", runs' = runs
    PROVE  RowMoves
<1> USE RowColumns
<1>1. row \in Row /\ row.run \in Runs
    BY TheRow DEF KInv
<1>2. row' \in Row /\ row'.run = row.run /\ row'.state = v /\ row'.sent = row.sent
    BY <1>1, EndRowColumns
<1>3. row.sent = "no" => NotSent(row.run)
    BY <1>1, OfRow
<1>4. row'.sent = "no" => NotSent(row.run)'
    BY <1>2, <1>3 DEF NotSent
<1>5. row'.state = "not_run" => Dead(row.run)'
    <2> SUFFICES ASSUME v = "not_run" PROVE Dead(row.run)'
        BY <1>2
    <2>1. runs[row.run].phase # "unused"
        <3>1. RunOk(row.run) /\ row.run <= used
            BY <1>1, UsedNat DEF KInv, RunsOk
        <3>2. ~(row.run > used)
            BY <1>1, <3>1, UsedNat, NotGreater
        <3> QED  BY <3>1, <3>2 DEF RunOk
    <2>2. ~Running(row.run)'
        BY <1>2 DEF Running
    <2> QED  BY <1>2, <1>3, <2>1, <2>2 DEF NotSent, Dead
<1> QED  BY <1>1, <1>2, <1>4, <1>5 DEF RowMoves

LEMMA LeaseMoves ==
    ASSUME KInv, row.state = "running", NEW lease \in {"held", "out"}, row' = [row EXCEPT !.lease = lease],
           runs' = runs
    PROVE  RowMoves
<1> USE RowColumns
<1>1. row \in Row /\ row.run \in Runs
    BY TheRow DEF KInv
<1>2. row' \in Row /\ row'.run = row.run /\ row'.state = "running" /\ row'.sent = row.sent
    BY <1>1, LeaseColumns
<1>3. row'.sent = "no" => NotSent(row.run)'
    BY <1>1, <1>2, OfRow DEF NotSent
<1> QED  BY <1>1, <1>2, <1>3 DEF RowMoves

LEMMA RowSteps ==
    ASSUME KInv, RowMoves, UNCHANGED <<used, life, runs, reqs, kc, lock, slots, told, gaveUp>>,
           proc' \in [Instances -> {"up", "draining", "cut", "stopped", "down"}],
           \A i \in Instances : proc'[i] = "stopped" => proc[i] = "stopped" \/ slots[i] = 0,
           late' \subseteq [inst : Instances, call : Calls], notes' \subseteq Instances,
           faults' \in 0 .. MaxFaults
    PROVE  KInv'
<1>1. RunsOk' /\ RowOk' /\ Lives' /\ ToldOk' /\ SaysOk'
    BY RowChanges
<1>2. Locks' /\ Slots'
    BY LocksKeep
<1>3. row' \in Row \cup {NoRow}
    BY DEF RowMoves
<1>4. TypeOK'
    BY <1>3 DEF KInv, TypeOK
<1> QED  BY <1>1, <1>2, <1>4 DEF KInv

LEMMA FinishFailsKeeps == ASSUME KInv, NEW r \in Runs, FinishFails(r) PROVE KInv'
<1>0. RunOk(r) /\ runs[r].phase = "finish"
      /\ UNCHANGED <<used, life, reqs, lock, proc, late, notes, told>>
      /\ gaveUp \subseteq Runs
    BY DEF KInv, TypeOK, RunsOk, FinishFails
<1>1. /\ runs[r].out \in Ends
      /\ runs[r].out = "not_run" => runs[r].ran = "no" /\ runs[r].guest = "idle"
    BY <1>0 DEF RunOk
<1>2. faults' \in 0 .. MaxFaults
    BY FaultCounts DEF FinishFails
<1>3. CASE gaveUp' = gaveUp \cup {r} /\ Settle(r, runs[r].out) /\ UNCHANGED row
    BY <1>0, <1>1, <1>2, <1>3, Settles
<1>4. CASE Running(r) /\ EndRow(runs[r].out) /\ UNCHANGED <<runs, kc, slots, gaveUp>>
    <2> USE RowColumns
    <2>1. row \in Row /\ row.run = r /\ row.state = "running"
        BY <1>4, TheRow DEF Running, KInv
    <2>2. row' \in Row /\ row'.run = r /\ row'.state = runs[r].out /\ row'.sent = row.sent
        BY <1>1, <1>4, <2>1, EndRowColumns
    <2>3. row'.sent = "no" => NotSent(row.run)'
        BY <1>4, <2>1, <2>2, OfRow DEF NotSent
    <2>4. row'.state = "not_run" => Dead(row.run)'
        BY <1>0, <1>1, <1>4, <2>2 DEF Dead
    <2>5. RowMoves
        BY <1>1, <2>1, <2>2, <2>3, <2>4 DEF RowMoves
    <2>6. late' \subseteq [inst : Instances, call : Calls] /\ notes' \subseteq Instances
          /\ proc' \in [Instances -> {"up", "draining", "cut", "stopped", "down"}]
        BY <1>0 DEF KInv, TypeOK
    <2> QED  BY <1>0, <1>2, <1>4, <2>5, <2>6, RowSteps
<1> QED  BY <1>3, <1>4 DEF FinishFails

LEMMA OthersTyped ==
    ASSUME KInv
    PROVE  /\ late \subseteq [inst : Instances, call : Calls] /\ notes \subseteq Instances
           /\ proc \in [Instances -> {"up", "draining", "cut", "stopped", "down"}]
           /\ faults \in 0 .. MaxFaults /\ gaveUp \subseteq Runs /\ told \subseteq Runs \X Ends
<1> QED  BY DEF KInv, TypeOK

LEMMA VerdictMoves == ASSUME KInv, row.state = "running", EndRow(Verdict), runs' = runs PROVE RowMoves
<1>1. row \in Row /\ row.sent \in YesNo
    BY TheRow, RowColumns DEF KInv
<1>2. Verdict \in Ends /\ (Verdict = "not_run" => row.sent = "no")
    BY <1>1, VerdictEnds DEF YesNo
<1> QED  BY <1>2, RowEnds

LEMMA WaiterExpiresKeeps == ASSUME KInv, NEW q \in Requests, WaiterExpires(q) PROVE KInv'
<1>1. RowMoves
    BY VerdictMoves DEF WaiterExpires, Running
<1> QED  BY <1>1, OthersTyped, RowSteps DEF WaiterExpires

LEMMA LeaderExpiresKeeps == ASSUME KInv, LeaderExpires PROVE KInv'
<1>1. RowMoves
    BY VerdictMoves DEF LeaderExpires
<1> QED  BY <1>1, OthersTyped, RowSteps DEF LeaderExpires

LEMMA LeaseOutKeeps == ASSUME KInv, LeaseOut PROVE KInv'
<1>1. RowMoves
    BY LeaseMoves DEF LeaseOut
<1> QED  BY <1>1, OthersTyped, RowSteps DEF LeaseOut

LEMMA RenewalsFailKeeps == ASSUME KInv, RenewalsFail PROVE KInv'
<1>1. RowMoves
    BY LeaseMoves DEF RenewalsFail
<1>2. faults' \in 0 .. MaxFaults
    BY FaultCounts DEF RenewalsFail
<1> QED  BY <1>1, <1>2, OthersTyped, RowSteps DEF RenewalsFail

LEMMA CancelNotifyKeeps == ASSUME KInv, CancelNotify PROVE KInv'
<1>1. RowMoves
    BY SameRow DEF CancelNotify
<1>2. faults' \in 0 .. MaxFaults
    BY FaultCounts DEF CancelNotify
<1>3. row.inst \in Instances
    BY TheRow, RowColumns DEF CancelNotify, KInv
<1>4. notes' \subseteq Instances
    BY <1>3, OthersTyped DEF CancelNotify
<1> QED  BY <1>1, <1>2, <1>4, OthersTyped, RowSteps DEF CancelNotify

LEMMA ClaimKeeps == ASSUME KInv, NEW i \in Instances, Claim(i) PROVE KInv'
<1>1. RowMoves
    <2>1. CASE row.state = "running" /\ row.inst = i
        BY <2>1, VerdictMoves DEF Claim
    <2>2. CASE ~(row.state = "running" /\ row.inst = i)
        BY <2>2, SameRow DEF Claim
    <2> QED  BY <2>1, <2>2
<1>2. proc' = [proc EXCEPT ![i] = "up"]
    BY DEF Claim
<1>3. proc' \in [Instances -> {"up", "draining", "cut", "stopped", "down"}]
      /\ \A j \in Instances : proc'[j] = "stopped" => proc[j] = "stopped"
    BY <1>2, OthersTyped
<1> QED  BY <1>1, <1>3, OthersTyped, RowSteps DEF Claim

LEMMA BeginDrainKeeps == ASSUME KInv, NEW i \in Instances, BeginDrain(i) PROVE KInv'
<1>1. RowMoves
    BY SameRow DEF BeginDrain
<1>2. proc' = [proc EXCEPT ![i] = "draining"]
    BY DEF BeginDrain
<1>3. proc' \in [Instances -> {"up", "draining", "cut", "stopped", "down"}]
      /\ \A j \in Instances : proc'[j] = "stopped" => proc[j] = "stopped"
    BY <1>2, OthersTyped
<1>4. faults' \in 0 .. MaxFaults
    BY FaultCounts DEF BeginDrain
<1> QED  BY <1>1, <1>3, <1>4, OthersTyped, RowSteps DEF BeginDrain

LEMMA DrainedKeeps == ASSUME KInv, NEW i \in Instances, Drained(i) PROVE KInv'
<1>1. RowMoves
    BY SameRow DEF Drained
<1>2. proc' = [proc EXCEPT ![i] = "stopped"] /\ slots[i] = 0
    BY DEF Drained
<1>3. proc' \in [Instances -> {"up", "draining", "cut", "stopped", "down"}]
      /\ \A j \in Instances : proc'[j] = "stopped" => proc[j] = "stopped" \/ slots[j] = 0
    BY <1>2, OthersTyped
<1> QED  BY <1>1, <1>3, OthersTyped, RowSteps DEF Drained

\* The cause of a run's end is nothing the invariant sees.
LEMMA CauseChanges ==
    ASSUME KInv, runs' \in [Runs -> Run],
           \A r \in Runs :
                /\ runs'[r].phase = runs[r].phase /\ runs'[r].inst = runs[r].inst /\ runs'[r].life = runs[r].life
                /\ runs'[r].sent = runs[r].sent /\ runs'[r].before = runs[r].before
                /\ runs'[r].recorded = runs[r].recorded /\ runs'[r].out = runs[r].out
                /\ runs'[r].guest = runs[r].guest /\ runs'[r].ran = runs[r].ran,
           UNCHANGED <<row, used, life, reqs, kc, lock, slots, late, told, gaveUp, faults>>,
           proc' \in [Instances -> {"up", "draining", "cut", "stopped", "down"}],
           \A i \in Instances : proc'[i] = "stopped" => proc[i] = "stopped",
           notes' \subseteq Instances
    PROVE  KInv'
<1> USE RunIds, RowColumns
<1>0. row' = row /\ used' = used /\ life' = life /\ reqs' = reqs /\ kc' = kc /\ lock' = lock /\ slots' = slots
      /\ late' = late /\ told' = told /\ gaveUp' = gaveUp /\ faults' = faults
    OBVIOUS
<1>1. ASSUME NEW r \in Runs PROVE RunOk(r)' /\ (Dead(r) <=> Dead(r)')
    <2>1. RunOk(r)
        BY DEF KInv, RunsOk
    <2>2. RunOk(r)'
        BY <1>0, <2>1 DEF RunOk, Running
    <2> QED  BY <1>0, <2>2 DEF Dead, Running
<1>2. RunsMove
    BY <1>0, <1>1 DEF RunsMove
<1>3. RowMoves
    <2>1. CASE row = NoRow
        BY <1>0, <2>1 DEF RowMoves
    <2>2. CASE row # NoRow
        <3>1. row \in Row /\ row.run \in Runs
            BY <2>2 DEF KInv, RowOk
        <3>2. row.sent = "no" => NotSent(row.run)
            BY <3>1, OfRow
        <3>3. row.sent = "no" => NotSent(row.run)'
            BY ZenonT(60), <1>0, <3>1, <3>2 DEF NotSent
        <3>4. row.state = "not_run" => Dead(row.run)'
            BY <1>0, <1>1, <2>2, <3>1 DEF KInv, RowOk
        <3> QED  BY <1>0, <3>1, <3>3, <3>4 DEF RowMoves
    <2> QED  BY <2>1, <2>2
<1>4. RunsOk' /\ RowOk' /\ Lives' /\ ToldOk' /\ SaysOk'
    BY <1>0, <1>2, <1>3, QuietKeeps
<1>5. Locks' /\ Slots'
    BY <1>0, LocksKeep
<1>6. TypeOK'
    BY ZenonT(30), <1>0 DEF KInv, TypeOK
<1> QED  BY <1>4, <1>5, <1>6 DEF KInv

LEMMA CauseColumns ==
    ASSUME NEW h \in Run, NEW c \in {"", "cancel", "stop", "lost"}
    PROVE  LET q == [h EXCEPT !.cause = c]
           IN  /\ q \in Run /\ q.phase = h.phase /\ q.inst = h.inst /\ q.life = h.life /\ q.sent = h.sent
               /\ q.before = h.before /\ q.recorded = h.recorded /\ q.out = h.out
               /\ q.guest = h.guest /\ q.ran = h.ran /\ q.cause = c
<1> QED  BY DEF Run

LEMMA CauseOfOne ==
    ASSUME KInv, NEW r \in Runs, NEW c \in {"cancel", "lost"}, runs' = [runs EXCEPT ![r].cause = c],
           UNCHANGED <<row, used, life, reqs, kc, lock, slots, proc, late, told, gaveUp, faults>>,
           notes' \subseteq Instances
    PROVE  KInv'
<1>0. runs \in [Runs -> Run] /\ runs[r] \in Run
    BY DEF KInv, TypeOK
<1> DEFINE h == runs[r]
           q == [h EXCEPT !.cause = c]
<1>1. runs' = [runs EXCEPT ![r] = q]
    OBVIOUS
<1> HIDE DEF h
<1>a. h \in Run /\ h = runs[r]
    BY <1>0 DEF h
<1>2. /\ q \in Run /\ q.phase = h.phase /\ q.inst = h.inst /\ q.life = h.life /\ q.sent = h.sent
      /\ q.before = h.before /\ q.recorded = h.recorded /\ q.out = h.out
      /\ q.guest = h.guest /\ q.ran = h.ran
    BY <1>a DEF Run
<1> HIDE DEF q
<1>3. runs' \in [Runs -> Run] /\ runs'[r] = q /\ \A s \in Runs \ {r} : runs'[s] = runs[s]
    BY <1>0, <1>1, <1>2
<1>4. proc' \in [Instances -> {"up", "draining", "cut", "stopped", "down"}] /\ proc' = proc
    BY OthersTyped
<1>5. ASSUME NEW s \in Runs
      PROVE  /\ runs'[s].phase = runs[s].phase /\ runs'[s].inst = runs[s].inst /\ runs'[s].life = runs[s].life
             /\ runs'[s].sent = runs[s].sent /\ runs'[s].before = runs[s].before
             /\ runs'[s].recorded = runs[s].recorded /\ runs'[s].out = runs[s].out
             /\ runs'[s].guest = runs[s].guest /\ runs'[s].ran = runs[s].ran
    BY <1>a, <1>2, <1>3
<1> QED  BY <1>3, <1>4, <1>5, CauseChanges

LEMMA RenewKeeps == ASSUME KInv, NEW i \in Instances, Renew(i) PROVE KInv'
<1>0. UNCHANGED <<used, life, reqs, kc, lock, slots, proc, late, notes, told, gaveUp, faults>>
    BY DEF Renew, RunOnly
<1>1. kc[i] \in Runs
    BY DEF KInv, TypeOK, Renew
<1>2. CASE Running(kc[i]) /\ row' = [row EXCEPT !.lease = "held"] /\ runs' = runs
    <2>1. RowMoves
        BY <1>2, LeaseMoves DEF Running
    <2> QED  BY <1>0, <1>2, <2>1, OthersTyped, RowSteps
<1>3. CASE runs' = [runs EXCEPT ![kc[i]].cause = "lost"] /\ row' = row
    BY <1>0, <1>1, <1>3, OthersTyped, CauseOfOne
<1> QED  BY <1>2, <1>3 DEF Renew

LEMMA CancelLocalKeeps == ASSUME KInv, NEW i \in Instances, CancelLocal(i) PROVE KInv'
<1>0. /\ UNCHANGED <<row, used, life, reqs, kc, lock, slots, proc, late, told, gaveUp, faults>>
      /\ notes' \subseteq Instances
    BY OthersTyped DEF CancelLocal
<1>1. CASE Serves(i) /\ kc[i] # 0 /\ Active(kc[i]) /\ runs[kc[i]].cause = ""
    <2>1. kc[i] \in Runs
        BY <1>1 DEF KInv, TypeOK
    <2>2. runs' = [runs EXCEPT ![kc[i]].cause = "cancel"]
        BY <1>1 DEF CancelLocal
    <2> QED  BY <1>0, <2>1, <2>2, CauseOfOne
<1>2. CASE ~(Serves(i) /\ kc[i] # 0 /\ Active(kc[i]) /\ runs[kc[i]].cause = "")
    <2>1. runs' = runs
        BY <1>2 DEF CancelLocal
    <2>2. RowMoves
        BY <1>0, <2>1, SameRow
    <2> QED  BY <1>0, <2>1, <2>2, OthersTyped, RowSteps
<1> QED  BY <1>1, <1>2

LEMMA CutKeeps == ASSUME KInv, NEW i \in Instances, Cut(i) PROVE KInv'
<1>0. UNCHANGED <<row, used, life, reqs, kc, lock, slots, late, told, gaveUp, faults>> /\ notes' = notes
    BY DEF Cut
<1>1. proc' = [proc EXCEPT ![i] = "cut"]
    BY DEF Cut
<1>2. proc' \in [Instances -> {"up", "draining", "cut", "stopped", "down"}]
      /\ \A j \in Instances : proc'[j] = "stopped" => proc[j] = "stopped"
    BY <1>1, OthersTyped
<1>3. \A r \in Runs : runs[r] \in Run
    BY DEF KInv, TypeOK
<1>4. \A r \in Runs : runs'[r] = runs[r] \/ runs'[r] = [runs[r] EXCEPT !.cause = "stop"]
    BY DEF Cut
<1>5. ASSUME NEW r \in Runs
      PROVE  /\ runs'[r] \in Run
             /\ runs'[r].phase = runs[r].phase /\ runs'[r].inst = runs[r].inst /\ runs'[r].life = runs[r].life
             /\ runs'[r].sent = runs[r].sent /\ runs'[r].before = runs[r].before
             /\ runs'[r].recorded = runs[r].recorded /\ runs'[r].out = runs[r].out
             /\ runs'[r].guest = runs[r].guest /\ runs'[r].ran = runs[r].ran
    <2> DEFINE h == runs[r]
               q == [h EXCEPT !.cause = "stop"]
    <2>1. /\ q \in Run /\ q.phase = h.phase /\ q.inst = h.inst /\ q.life = h.life /\ q.sent = h.sent
          /\ q.before = h.before /\ q.recorded = h.recorded /\ q.out = h.out
          /\ q.guest = h.guest /\ q.ran = h.ran
        BY <1>3, CauseColumns
    <2>2. runs'[r] = h \/ runs'[r] = q
        BY <1>4
    <2> HIDE DEF q
    <2> QED  BY <1>3, <2>1, <2>2
<1>6. runs' = [r \in Runs |-> runs'[r]]
    BY DEF Cut
<1>7. runs' \in [Runs -> Run]
    BY <1>5, <1>6
<1>8. notes' \subseteq Instances
    BY <1>0, OthersTyped
<1> QED  BY <1>0, <1>2, <1>5, <1>7, <1>8, CauseChanges

LEMMA RetentionKeeps == ASSUME KInv, Retention PROVE KInv'
<1>0. row' = NoRow /\ life' = life + 1 /\ life < MaxLife
      /\ used' = used /\ runs' = runs /\ reqs' = reqs /\ kc' = kc /\ lock' = lock /\ slots' = slots
      /\ proc' = proc /\ late' = late /\ notes' = notes /\ told' = told /\ gaveUp' = gaveUp
    BY DEF Retention
<1>1. \A r \in Runs : ~Running(r)'
    BY <1>0, RowColumns DEF Running
<1>2. ASSUME NEW r \in Runs PROVE RunOk(r)' /\ (Dead(r) => Dead(r)')
    <2>1. RunOk(r)
        BY DEF KInv, RunsOk
    <2>2. RunOk(r)'
        BY <1>0, <1>1, <2>1 DEF RunOk
    <2> QED  BY <1>0, <1>1, <2>2 DEF Dead
<1>3. RunsOk'
    BY <1>2 DEF RunsOk
<1>4. RowOk'
    <2>1. 0 <= used
        BY UsedNat
    <2> QED  BY <1>0, <2>1, RowColumns DEF RowOk
<1>5. Lives'
    <2>1. ASSUME NEW r \in Runs PROVE runs'[r].life <= life' /\ runs'[r].life # life'
        <3>1. runs[r].life <= life /\ runs[r].life \in 0 .. MaxLife
            BY RunColumns DEF KInv, Lives, TypeOK
        <3>2. runs[r].life \in Nat
            BY <3>1, Constants
        <3>3. life \in Nat
            BY UsedNat
        <3>4. runs[r].life <= life + 1 /\ runs[r].life # life + 1
            BY <3>1, <3>2, <3>3
        <3> QED  BY <1>0, <3>4
    <2>2. \A r, s \in Runs : r # s /\ runs'[r].phase # "unused" /\ runs'[s].phase # "unused"
                             /\ runs'[r].life = runs'[s].life => Dead(r)' \/ Dead(s)'
        BY <1>0, <1>2 DEF KInv, Lives
    <2> QED  BY <1>0, <2>1, <2>2 DEF Lives
<1>6. ToldOk'
    <2>1. used' >= used /\ used' \in Nat
        BY <1>0, GeqRefl, UsedNat
    <2>2. \A s \in Runs, x \in Ends : <<s, x>> \in told' \ told => s <= used' /\ (x = "not_run" => Dead(s)')
        BY <1>0
    <2> QED  BY <1>0, <1>2, <2>1, <2>2, ToldKeeps
<1>7. SaysOk'
    <2>1. ASSUME NEW r \in Runs, NEW x \in Ends, Says(r, x)' PROVE Says(r, x)
        BY <1>0, <2>1, RowColumns, RunIds DEF Says
    <2> QED  BY <1>0, <1>1, <2>1, SaysKeeps
<1>8. Locks' /\ Slots'
    BY <1>0, LocksKeep
<1>9. TypeOK'
    <2>1. life' \in 0 .. MaxLife
        <3>1. life \in Nat
            BY UsedNat
        <3> QED  BY <1>0, <3>1, Constants
    <2>2. faults' \in 0 .. MaxFaults
        BY FaultCounts DEF Retention
    <2> QED  BY <1>0, <2>1, <2>2 DEF KInv, TypeOK
<1> QED  BY <1>3, <1>4, <1>5, <1>6, <1>7, <1>8, <1>9 DEF KInv

LEMMA AnsweredColumns ==
    /\ Answered \in Request /\ Answered.pc = "end" /\ Answered.inst = None /\ Answered.run = 0
    /\ NoRequest \in Request /\ NoRequest.pc = "idle" /\ NoRequest.inst = None /\ NoRequest.run = 0
<1>1. NoRequest \in Request /\ NoRequest.pc = "idle" /\ NoRequest.inst = None /\ NoRequest.run = 0
    BY DEF NoRequest, Request
<1>2. Answered = [pc |-> "end", inst |-> None, call |-> None, run |-> 0, row |-> NoRow, joins |-> 0]
    BY DEF Answered, NoRequest
<1>3. Answered \in Request /\ Answered.pc = "end" /\ Answered.inst = None /\ Answered.run = 0
    BY <1>2 DEF Request
<1> QED  BY <1>1, <1>3

LEMMA LostColumns ==
    ASSUME NEW h \in Run, NEW i \in Instances
    PROVE  \A q : q = [NoRun EXCEPT !.phase = "lost", !.inst = i, !.life = h.life, !.guest = h.guest,
                                    !.ran = h.ran] =>
                /\ q \in Run /\ q.phase = "lost" /\ q.inst = i /\ q.life = h.life /\ q.recorded = "no"
                /\ q.guest = h.guest /\ q.ran = h.ran
<1> DEFINE e == [NoRun EXCEPT !.phase = "lost", !.inst = i, !.life = h.life, !.guest = h.guest, !.ran = h.ran]
           q == [phase |-> "lost", inst |-> i, call |-> None, life |-> h.life,
                 sent |-> "no", before |-> "no", recorded |-> "no", attempt |-> 0,
                 cause |-> "", out |-> "", guest |-> h.guest, ran |-> h.ran]
<1>1. h.life \in 0 .. MaxLife /\ h.guest \in {"idle", "wire", "ran"} /\ h.ran \in YesNo
    BY RunColumns
<1>2. ASSUME NEW z, z = e
      PROVE  z = q
    BY <1>2 DEF NoRun
<1>3. "lost" \in Phases /\ "no" \in YesNo /\ 0 \in {0, 1} /\ "" \in {"", "cancel", "stop", "lost"}
    BY DEF Phases, YesNo
<1>4. /\ q \in Run /\ q.phase = "lost" /\ q.inst = i /\ q.life = h.life /\ q.recorded = "no"
      /\ q.guest = h.guest /\ q.ran = h.ran
    BY <1>1, <1>3 DEF Run
<1> HIDE DEF q
<1> QED  BY <1>2, <1>4, Zenon

\* The process of an instance is gone: its runs that had not ended are lost.
DiesOf(i, r) == runs[r].inst = i /\ runs[r].phase \notin {"settled", "lost", "unused"}

LEMMA DiesColumns ==
    ASSUME KInv, NEW i \in Instances, Dies(i)
    PROVE  /\ runs' \in [Runs -> Run]
           /\ \A r \in Runs :
                /\ DiesOf(i, r) => runs'[r].phase = "lost" /\ runs'[r].inst = i /\ runs'[r].recorded = "no"
                /\ ~DiesOf(i, r) => runs'[r] = runs[r]
                /\ runs'[r].life = runs[r].life /\ runs'[r].guest = runs[r].guest /\ runs'[r].ran = runs[r].ran
<1>1. \A r \in Runs : runs[r] \in Run
    BY DEF KInv, TypeOK
<1>2. ASSUME NEW r \in Runs
      PROVE  /\ runs'[r] \in Run
             /\ DiesOf(i, r) => runs'[r].phase = "lost" /\ runs'[r].inst = i /\ runs'[r].recorded = "no"
             /\ ~DiesOf(i, r) => runs'[r] = runs[r]
             /\ runs'[r].life = runs[r].life /\ runs'[r].guest = runs[r].guest /\ runs'[r].ran = runs[r].ran
    <2>1. CASE DiesOf(i, r)
        <3>1. runs'[r] = [NoRun EXCEPT !.phase = "lost", !.inst = i, !.life = runs[r].life,
                                       !.guest = runs[r].guest, !.ran = runs[r].ran]
            BY <2>1, Zenon DEF Dies, DiesOf
        <3>2. PICK h, z : h \in Run /\ h = runs[r] /\ z = runs'[r]
            BY <1>1
        <3>3. z = [NoRun EXCEPT !.phase = "lost", !.inst = i, !.life = h.life, !.guest = h.guest, !.ran = h.ran]
            BY <3>1, <3>2, Zenon
        <3>4. \A q : q = [NoRun EXCEPT !.phase = "lost", !.inst = i, !.life = h.life, !.guest = h.guest,
                                       !.ran = h.ran] =>
                /\ q \in Run /\ q.phase = "lost" /\ q.inst = i /\ q.life = h.life /\ q.recorded = "no"
                /\ q.guest = h.guest /\ q.ran = h.ran
            BY ZenonT(90), <3>2, LostColumns
        <3>5. /\ z \in Run /\ z.phase = "lost" /\ z.inst = i /\ z.life = h.life /\ z.recorded = "no"
              /\ z.guest = h.guest /\ z.ran = h.ran
            BY <3>3, <3>4, Zenon
        <3> QED  BY <2>1, <3>2, <3>5
    <2>2. CASE ~DiesOf(i, r)
        <3>1. runs'[r] = runs[r]
            BY <2>2, Zenon DEF Dies, DiesOf
        <3> QED  BY <1>1, <2>2, <3>1
    <2> QED  BY <2>1, <2>2
<1>3. runs' = [r \in Runs |-> runs'[r]]
    BY DEF Dies
<1> QED  BY <1>2, <1>3

LEMMA DiesKeeps == ASSUME KInv, NEW i \in Instances, Dies(i), faults' \in 0 .. MaxFaults PROVE KInv'
<1> USE RunIds
<1>0. row' = row /\ used' = used /\ life' = life /\ late' = late /\ notes' = notes /\ told' = told
      /\ gaveUp' = gaveUp
    BY DEF Dies
<1>1. /\ runs' \in [Runs -> Run]
      /\ \A r \in Runs :
            /\ DiesOf(i, r) => runs'[r].phase = "lost" /\ runs'[r].inst = i /\ runs'[r].recorded = "no"
            /\ ~DiesOf(i, r) => runs'[r] = runs[r]
            /\ runs'[r].life = runs[r].life /\ runs'[r].guest = runs[r].guest /\ runs'[r].ran = runs[r].ran
    BY DiesColumns
<1>2. /\ proc' = [proc EXCEPT ![i] = "down"] /\ kc' = [kc EXCEPT ![i] = 0]
      /\ slots' = [slots EXCEPT ![i] = 0] /\ lock' = [lock EXCEPT ![i] = None]
      /\ reqs' = [q \in Requests |-> IF reqs[q].inst = i THEN Answered ELSE reqs[q]]
    BY DEF Dies, Unlock
<1>3. \A q \in Requests : reqs'[q] = IF reqs[q].inst = i THEN Answered ELSE reqs[q]
    BY <1>2
<1>4. ASSUME NEW r \in Runs PROVE RunOk(r)' /\ (Dead(r) => Dead(r)')
    <2>0. RunOk(r) /\ (Running(r)' <=> Running(r))
        BY <1>0 DEF KInv, RunsOk, Running
    <2>1. CASE DiesOf(i, r)
        <3>1. /\ runs'[r].phase = "lost" /\ runs'[r].inst = i /\ runs'[r].recorded = "no"
              /\ runs'[r].guest = runs[r].guest /\ runs'[r].ran = runs[r].ran /\ runs[r].phase # "unused"
            BY <1>1, <2>1 DEF DiesOf
        <3>2. RunOk(r)'
            BY <1>0, <2>0, <3>1 DEF RunOk
        <3> QED  BY <3>1, <3>2 DEF Dead
    <2>2. CASE ~DiesOf(i, r)
        <3>1. runs'[r] = runs[r]
            BY <1>1, <2>2
        <3>2. RunOk(r)'
            BY <1>0, <2>0, <3>1 DEF RunOk
        <3> QED  BY <2>0, <3>1, <3>2 DEF Dead
    <2> QED  BY <2>1, <2>2
<1>5. RunsMove
    <2>1. \A r \in Runs : runs'[r].life = runs[r].life /\ (runs'[r].phase = "unused" <=> runs[r].phase = "unused")
        BY <1>1 DEF DiesOf
    <2> QED  BY <1>0, <1>4, <2>1 DEF RunsMove
<1>6. RowMoves
    <2> USE RowColumns
    <2>1. CASE row = NoRow
        BY <1>0, <2>1 DEF RowMoves
    <2>2. CASE row # NoRow
        <3>1. row \in Row /\ row.run \in Runs
            BY <2>2 DEF KInv, RowOk
        <3>2. row.sent = "no" => NotSent(row.run)'
            <4> SUFFICES ASSUME row.sent = "no" PROVE NotSent(row.run)'
                OBVIOUS
            <4>0. NotSent(row.run) /\ row'.run = row.run
                BY <1>0, <3>1, OfRow
            <4>1. CASE DiesOf(i, row.run)
                BY <1>1, <3>1, <4>0, <4>1 DEF NotSent
            <4>2. CASE ~DiesOf(i, row.run)
                BY ZenonT(30), <1>1, <3>1, <4>0, <4>2 DEF NotSent
            <4> QED  BY <4>1, <4>2
        <3>3. row.state = "not_run" => Dead(row.run)'
            BY <1>0, <1>4, <2>2, <3>1 DEF KInv, RowOk
        <3> QED  BY <1>0, <3>1, <3>2, <3>3 DEF RowMoves
    <2> QED  BY <2>1, <2>2
<1>7. RunsOk' /\ RowOk' /\ Lives'
    BY <1>5, <1>6, MovesKeep
<1>8. ToldOk'
    <2>1. used' >= used /\ used' \in Nat
        BY <1>0, GeqRefl, UsedNat
    <2>2. \A s \in Runs, x \in Ends : <<s, x>> \in told' \ told => s <= used' /\ (x = "not_run" => Dead(s)')
        BY <1>0
    <2>3. \A q \in Requests : reqs'[q].pc = "existing" => reqs[q].pc = "existing" /\ reqs'[q].row = reqs[q].row
        BY <1>3, AnsweredColumns
    <2> QED  BY <1>4, <2>1, <2>2, <2>3, ToldKeeps
<1>9. SaysOk'
    <2>1. ASSUME NEW r \in Runs, NEW x \in Ends, Says(r, x)' PROVE Says(r, x)
        <3>1. runs'[r].phase = "settled" => runs[r].phase = "settled" /\ runs'[r].out = runs[r].out
            BY <1>1
        <3>2. ASSUME NEW q \in Requests, reqs'[q].pc = "existing" PROVE reqs'[q] = reqs[q]
            BY <1>3, <3>2, AnsweredColumns
        <3> QED  BY <1>0, <2>1, <3>1, <3>2 DEF Says
    <2>2. \A r \in Runs : Running(r)' => Running(r)
        BY <1>0 DEF Running
    <2> QED  BY <1>0, <2>1, <2>2, SaysKeeps
<1>a. /\ kc'[i] = 0 /\ slots'[i] = 0 /\ lock'[i] = None /\ proc'[i] = "down"
      /\ \A j \in Instances \ {i} : kc'[j] = kc[j] /\ slots'[j] = slots[j] /\ lock'[j] = lock[j] /\ proc'[j] = proc[j]
    BY <1>2 DEF KInv, TypeOK
<1>b. \A q \in Requests : /\ reqs[q].inst = i => reqs'[q].pc = "end" /\ reqs'[q].inst = None
                          /\ reqs[q].inst # i => reqs'[q] = reqs[q]
    BY <1>3, AnsweredColumns
<1>c. Locks'
    <2>1. \A q \in Requests, j \in Instances : lock'[j] = q <=> reqs'[q].inst = j /\ reqs'[q].pc \in LockPcs
        <3> SUFFICES ASSUME NEW q \in Requests, NEW j \in Instances
                     PROVE  lock'[j] = q <=> reqs'[q].inst = j /\ reqs'[q].pc \in LockPcs
            OBVIOUS
        <3>0. lock[j] = q <=> reqs[q].inst = j /\ reqs[q].pc \in LockPcs
            BY DEF KInv, Locks
        <3>1. CASE j = i
            BY <1>a, <1>b, <3>1, Constants
        <3>2. CASE j # i
            BY <1>a, <1>b, <3>0, <3>2, Constants
        <3> QED  BY <3>1, <3>2
    <2>2. \A q \in Requests : reqs'[q].pc \notin {"idle", "end"} => reqs'[q].inst \in Instances /\ reqs'[q].call \in Calls
        BY <1>b DEF KInv, Locks
    <2>3. \A q \in Requests : reqs'[q].pc \in {"register", "local", "row"} => reqs'[q].run # 0
        BY <1>b DEF KInv, Locks
    <2>4. ASSUME NEW q \in Requests, reqs'[q].pc = "register"
          PROVE  runs'[reqs'[q].run].phase = "row" /\ runs'[reqs'[q].run].inst = reqs'[q].inst
        <3>1. reqs[q].inst # i /\ reqs'[q] = reqs[q] /\ reqs[q].pc = "register"
            BY <1>b, <2>4
        <3>2. reqs[q].run \in Runs
            <4>1. reqs[q].run \in Runs \cup {0}
                BY DEF KInv, TypeOK, Request
            <4> QED  BY <3>1, <4>1 DEF KInv, Locks
        <3>3. runs[reqs[q].run].phase = "row" /\ runs[reqs[q].run].inst = reqs[q].inst
            BY <3>1 DEF KInv, Locks
        <3>4. ~DiesOf(i, reqs[q].run)
            BY <3>1, <3>3 DEF DiesOf
        <3> QED  BY <1>1, <3>1, <3>2, <3>3, <3>4
    <2>5. ASSUME NEW r \in Runs, runs'[r].phase = "row"
          PROVE  \E q \in Requests : reqs'[q].pc = "register" /\ reqs'[q].run = r /\ reqs'[q].inst = runs'[r].inst
        <3>1. ~DiesOf(i, r) /\ runs'[r] = runs[r]
            BY <1>1, <2>5
        <3>2. runs[r].inst # i
            BY <2>5, <3>1 DEF DiesOf
        <3>3. PICK q \in Requests : reqs[q].pc = "register" /\ reqs[q].run = r /\ reqs[q].inst = runs[r].inst
            BY <2>5, <3>1 DEF KInv, Locks
        <3>4. reqs'[q] = reqs[q]
            BY <1>b, <3>2, <3>3
        <3> QED  BY <3>1, <3>3, <3>4
    <2>6. ASSUME NEW r \in Runs, NEW j \in Instances
          PROVE  kc'[j] = r <=> runs'[r].inst = j /\ runs'[r].phase \in Going
        <3>0. kc[j] = r <=> runs[r].inst = j /\ runs[r].phase \in Going
            BY DEF KInv, Locks
        <3>1. CASE j = i
            BY <1>1, <1>a, <3>1 DEF DiesOf, Going
        <3>2. CASE j # i
            BY <1>1, <1>a, <3>0, <3>2 DEF DiesOf
        <3> QED  BY <3>1, <3>2
    <2>7. \A j \in Instances : lock'[j] # None => kc'[j] = 0
        BY <1>a DEF KInv, Locks
    <2> QED  BY <2>1, <2>2, <2>3, <2>4, <2>5, <2>6, <2>7 DEF Locks
<1>d. Slots'
    <2> SUFFICES ASSUME NEW j \in Instances
                 PROVE  /\ slots'[j] = IF Slot(j)' THEN 1 ELSE 0
                        /\ proc'[j] = "stopped" => slots'[j] = 0
        BY DEF Slots
    <2>1. CASE j = i
        <3>1. \A q \in Requests : ~(reqs'[q].inst = j /\ reqs'[q].pc \in {"begin", "register"})
            BY <1>b, <2>1
        <3> QED  BY <1>a, <2>1, <3>1 DEF Slot
    <2>2. CASE j # i
        <3>1. \A q \in Requests : reqs'[q].inst = j /\ reqs'[q].pc \in {"begin", "register"}
                                  <=> reqs[q].inst = j /\ reqs[q].pc \in {"begin", "register"}
            BY <1>b, <2>2
        <3>2. Slot(j)' <=> Slot(j)
            BY <1>a, <2>2, <3>1 DEF Slot
        <3> QED  BY <1>a, <2>2, <3>2 DEF KInv, Slots
    <2> QED  BY <2>1, <2>2
<1>e. TypeOK'
    <2>1. reqs' \in [Requests -> Request]
        BY <1>2, AnsweredColumns DEF KInv, TypeOK
    <2>2. /\ kc' \in [Instances -> Runs \cup {0}] /\ lock' \in [Instances -> Requests \cup {None}]
          /\ slots' \in [Instances -> Nat]
          /\ proc' \in [Instances -> {"up", "draining", "cut", "stopped", "down"}]
        BY <1>2 DEF KInv, TypeOK
    <2> QED  BY <1>0, <1>1, <2>1, <2>2 DEF KInv, TypeOK
<1> QED  BY <1>7, <1>8, <1>9, <1>c, <1>d, <1>e DEF KInv

-----------------------------------------------------------------------------
(* The steps of a request that leave the runs alone *)

\* What a request may be told of a run: somebody says it already.
Known(r, x) ==
    /\ r \in Runs /\ x \in Ends /\ r <= used
    /\ x = "not_run" => Dead(r)
    /\ Says(r, x)

LEMMA RequestContent ==
    ASSUME KInv, NEW q \in Requests, \A p \in Requests \ {q} : reqs'[p] = reqs[p],
           RowMoves, UNCHANGED <<used, life, runs, gaveUp>>,
           told' = told \/ \E r, x : Known(r, x) /\ told' = told \cup {<<r, x>>},
           reqs'[q].pc = "existing" => row # NoRow /\ reqs'[q].row = row
    PROVE  RunsOk' /\ RowOk' /\ Lives' /\ ToldOk' /\ SaysOk'
<1> USE RunIds, RowColumns
<1>0. used' = used /\ life' = life /\ runs' = runs /\ gaveUp' = gaveUp
    OBVIOUS
<1>1. row'.run = row.run /\ (row'.state = row.state \/ (row.state = "running" /\ row'.state \in Ends))
    BY DEF RowMoves
<1>2. \A r \in Runs : Running(r)' => Running(r)
    BY <1>1 DEF Running, Ends
<1>3. ASSUME NEW r \in Runs PROVE RunOk(r)' /\ (Dead(r) => Dead(r)')
    <2>1. RunOk(r)
        BY DEF KInv, RunsOk
    <2>2. RunOk(r)'
        BY <1>2, <1>0, <2>1 DEF RunOk
    <2> QED  BY <1>2, <1>0, <2>2 DEF Dead
<1>4. RunsMove
    BY <1>0, <1>3 DEF RunsMove
<1>5. RunsOk' /\ RowOk' /\ Lives'
    BY <1>4, MovesKeep
<1>6. ASSUME NEW r \in Runs, NEW x \in Ends, <<r, x>> \in told' \ told PROVE Known(r, x)
    <2>1. PICK s, y : Known(s, y) /\ told' = told \cup {<<s, y>>}
        BY <1>6
    <2>2. <<r, x>> = <<s, y>>
        BY <1>6, <2>1
    <2>3. r = s /\ x = y
        BY <2>2
    <2> QED  BY <2>1, <2>3
<1>7. ToldOk'
    <2>1. used' >= used /\ used' \in Nat
        BY <1>0, GeqRefl, UsedNat
    <2>2. \A r \in Runs, x \in Ends : <<r, x>> \in told' \ told => r <= used' /\ (x = "not_run" => Dead(r)')
        BY <1>0, <1>3, <1>6 DEF Known
    <2>3. \A p \in Requests : reqs'[p].pc = "existing" =>
            \/ reqs[p].pc = "existing" /\ reqs'[p].row = reqs[p].row
            \/ row # NoRow /\ reqs'[p].row = row
        OBVIOUS
    <2> QED  BY <1>3, <2>1, <2>2, <2>3, ToldKeeps
<1>8. SaysOk'
    <2>1. ASSUME NEW r \in Runs, NEW x \in Ends, Says(r, x)'
          PROVE  Says(r, x) \/ (Running(r) /\ row'.run = r /\ row'.state = x)
        <3>1. CASE <<r, x>> \in told'
            BY <1>6, <3>1 DEF Says, Known
        <3>2. CASE row'.run = r /\ row'.state = x
            BY <1>1, <3>2 DEF Says, Running
        <3>3. CASE runs'[r].phase = "settled" /\ runs'[r].out = x
            BY <1>0, <3>3 DEF Says
        <3>4. ASSUME NEW p \in Requests, reqs'[p].pc = "existing", reqs'[p].row.run = r, reqs'[p].row.state = x
              PROVE  Says(r, x)
            <4>1. CASE p = q
                BY <3>4, <4>1 DEF Says
            <4>2. CASE p # q
                BY <3>4, <4>2 DEF Says
            <4> QED  BY <4>1, <4>2
        <3> QED  BY <2>1, <3>1, <3>2, <3>3, <3>4 DEF Says
    <2> QED  BY <1>0, <1>2, <2>1, SaysKeeps
<1> QED  BY <1>5, <1>7, <1>8

\* A key's lock on an instance is one request's.
LEMMA OneHolder ==
    ASSUME KInv, NEW p \in Requests, NEW q \in Requests, NEW i \in Instances,
           reqs[p].inst = i, reqs[p].pc \in LockPcs, reqs[q].inst = i, reqs[q].pc \in LockPcs
    PROVE  p = q /\ lock[i] = q /\ kc[i] = 0
<1>1. lock[i] = p /\ lock[i] = q
    BY DEF KInv, Locks
<1> QED  BY <1>1, Constants DEF KInv, Locks

LEMMA RequestLocks ==
    ASSUME KInv, NEW q \in Requests, \A p \in Requests \ {q} : reqs'[p] = reqs[p],
           \A r \in Runs :
                /\ runs'[r].phase \in Going <=> runs[r].phase \in Going
                /\ runs'[r].phase = "row" <=> runs[r].phase = "row"
                /\ runs[r].phase \in Going \cup {"row"} => runs'[r].inst = runs[r].inst,
           UNCHANGED <<kc, proc>>,
           reqs[q].pc # "register", reqs'[q].pc # "register",
           reqs'[q].pc \notin {"idle", "end"} => reqs'[q].inst \in Instances /\ reqs'[q].call \in Calls,
           reqs'[q].pc \in {"local", "row"} => reqs'[q].run # 0,
           \A i \in Instances :
                /\ \A p \in Requests \ {q} : lock'[i] = p <=> lock[i] = p
                /\ lock'[i] = q <=> reqs'[q].inst = i /\ reqs'[q].pc \in LockPcs
                /\ lock'[i] # None => kc[i] = 0,
           \A i \in Instances :
                \/ /\ slots'[i] = slots[i]
                   /\ ~(reqs[q].pc = "begin" /\ reqs[q].inst = i) /\ ~(reqs'[q].pc = "begin" /\ reqs'[q].inst = i)
                \/ slots'[i] = 1 /\ reqs'[q].pc = "begin" /\ reqs'[q].inst = i /\ proc[i] = "up"
                \/ /\ slots'[i] = 0
                   /\ reqs[q].pc = "begin" /\ reqs[q].inst = i /\ ~(reqs'[q].pc = "begin" /\ reqs'[q].inst = i)
    PROVE  Locks' /\ Slots'
<1> USE RunIds
<1>0. kc' = kc /\ proc' = proc
    OBVIOUS
<1>a. \A r \in Runs :
        /\ runs'[r].phase \in Going <=> runs[r].phase \in Going
        /\ runs[r].phase = "row" => runs'[r].phase = "row" /\ runs'[r].inst = runs[r].inst
        /\ runs[r].phase \in Going => runs'[r].inst = runs[r].inst
        /\ runs'[r].phase = "row" => runs[r].phase = "row"
    OBVIOUS
<1>1. \A p \in Requests, i \in Instances : lock'[i] = p <=> reqs'[p].inst = i /\ reqs'[p].pc \in LockPcs
    <2> SUFFICES ASSUME NEW p \in Requests, NEW i \in Instances
                 PROVE  lock'[i] = p <=> reqs'[p].inst = i /\ reqs'[p].pc \in LockPcs
        OBVIOUS
    <2>1. lock[i] = p <=> reqs[p].inst = i /\ reqs[p].pc \in LockPcs
        BY DEF KInv, Locks
    <2>2. CASE p = q
        BY <2>2
    <2>3. CASE p # q
        BY <2>1, <2>3
    <2> QED  BY <2>2, <2>3
<1>2. ASSUME NEW p \in Requests
      PROVE  /\ reqs'[p].pc \notin {"idle", "end"} => reqs'[p].inst \in Instances /\ reqs'[p].call \in Calls
             /\ reqs'[p].pc \in {"register", "local", "row"} => reqs'[p].run # 0
             /\ reqs'[p].pc = "register" =>
                    runs'[reqs'[p].run].phase = "row" /\ runs'[reqs'[p].run].inst = reqs'[p].inst
    <2>1. CASE p = q
        BY <2>1
    <2>2. CASE p # q
        <3>1. reqs'[p] = reqs[p]
            BY <2>2
        <3>2. reqs[p].run \in Runs \cup {0}
            BY DEF KInv, TypeOK, Request
        <3>3. reqs[p].pc = "register" =>
                /\ reqs[p].run \in Runs
                /\ runs[reqs[p].run].phase = "row" /\ runs[reqs[p].run].inst = reqs[p].inst
            BY <3>2 DEF KInv, Locks
        <3>4. reqs'[p].pc = "register" =>
                    runs'[reqs'[p].run].phase = "row" /\ runs'[reqs'[p].run].inst = reqs'[p].inst
            BY ZenonT(60), <1>a, <3>1, <3>3
        <3> QED  BY <3>1, <3>4 DEF KInv, Locks
    <2> QED  BY <2>1, <2>2
<1>3. ASSUME NEW r \in Runs, runs'[r].phase = "row"
      PROVE  \E p \in Requests : reqs'[p].pc = "register" /\ reqs'[p].run = r /\ reqs'[p].inst = runs'[r].inst
    <2>1. PICK p \in Requests : reqs[p].pc = "register" /\ reqs[p].run = r /\ reqs[p].inst = runs[r].inst
        BY <1>a, <1>3 DEF KInv, Locks
    <2>2. reqs'[p] = reqs[p]
        BY <2>1
    <2> QED  BY <1>a, <1>3, <2>1, <2>2
<1>b. ASSUME NEW r \in Runs, NEW i \in Instances
      PROVE  kc'[i] = r <=> runs'[r].inst = i /\ runs'[r].phase \in Going
    <2>1. kc[i] = r <=> runs[r].inst = i /\ runs[r].phase \in Going
        BY DEF KInv, Locks
    <2> QED  BY <1>0, <1>a, <2>1
<1>4. \A i \in Instances : lock'[i] # None => kc'[i] = 0
    BY <1>0
<1>5. Locks'
    BY <1>1, <1>2, <1>3, <1>4, <1>b DEF Locks
<1>6. Slots'
    <2> SUFFICES ASSUME NEW i \in Instances
                 PROVE  /\ slots'[i] = IF Slot(i)' THEN 1 ELSE 0
                        /\ proc'[i] = "stopped" => slots'[i] = 0
        BY DEF Slots
    <2>0. /\ slots[i] = IF Slot(i) THEN 1 ELSE 0
          /\ proc[i] = "stopped" => slots[i] = 0
        BY DEF KInv, Slots
    <2>1. CASE /\ slots'[i] = slots[i]
               /\ ~(reqs[q].pc = "begin" /\ reqs[q].inst = i) /\ ~(reqs'[q].pc = "begin" /\ reqs'[q].inst = i)
        <3>1. \A p \in Requests : reqs'[p].inst = i /\ reqs'[p].pc \in {"begin", "register"}
                                  <=> reqs[p].inst = i /\ reqs[p].pc \in {"begin", "register"}
            BY <2>1
        <3>2. Slot(i)' <=> Slot(i)
            BY <1>0, <3>1 DEF Slot
        <3> QED  BY <1>0, <2>0, <2>1, <3>2
    <2>2. CASE slots'[i] = 1 /\ reqs'[q].pc = "begin" /\ reqs'[q].inst = i /\ proc[i] = "up"
        <3>1. Slot(i)'
            BY <2>2 DEF Slot
        <3> QED  BY <1>0, <2>2, <3>1
    <2>3. CASE /\ slots'[i] = 0
               /\ reqs[q].pc = "begin" /\ reqs[q].inst = i /\ ~(reqs'[q].pc = "begin" /\ reqs'[q].inst = i)
        <3>1. reqs[q].pc \in LockPcs
            BY <2>3 DEF LockPcs
        <3>2. kc[i] = 0
            BY <2>3, <3>1, OneHolder
        <3>3. ASSUME NEW p \in Requests, reqs'[p].inst = i, reqs'[p].pc \in {"begin", "register"}
              PROVE  FALSE
            <4>1. p # q /\ reqs'[p] = reqs[p]
                BY <2>3, <3>3
            <4>2. reqs[p].inst = i /\ reqs[p].pc \in LockPcs
                BY <3>3, <4>1 DEF LockPcs
            <4> QED  BY <2>3, <3>1, <4>1, <4>2, OneHolder
        <3>4. ~Slot(i)'
            BY <1>0, <3>2, <3>3 DEF Slot
        <3> QED  BY <2>3, <3>4
    <2> QED  BY <2>1, <2>2, <2>3
<1> QED  BY <1>5, <1>6

\* What a step tells is known, and whose the lock and the slots become when q
\* becomes z.
Tells == told' = told \/ \E r, x : Known(r, x) /\ told' = told \cup {<<r, x>>}

LockMoves(q, z) ==
    \A i \in Instances :
        /\ \A p \in Requests \ {q} : lock'[i] = p <=> lock[i] = p
        /\ lock'[i] = q <=> z.inst = i /\ z.pc \in LockPcs
        /\ lock'[i] # None => kc[i] = 0

SlotMoves(q, z) ==
    \A i \in Instances :
        \/ /\ slots'[i] = slots[i]
           /\ ~(reqs[q].pc = "begin" /\ reqs[q].inst = i) /\ ~(z.pc = "begin" /\ z.inst = i)
        \/ slots'[i] = 1 /\ z.pc = "begin" /\ z.inst = i /\ proc[i] = "up"
        \/ /\ slots'[i] = 0
           /\ reqs[q].pc = "begin" /\ reqs[q].inst = i /\ ~(z.pc = "begin" /\ z.inst = i)

\* A request moves, and the runs and the row stay.
LEMMA RequestMoves ==
    ASSUME KInv, NEW q \in Requests, NEW z \in Request, reqs' = [reqs EXCEPT ![q] = z],
           RowMoves, UNCHANGED <<used, life, runs, kc, proc, notes, gaveUp>>,
           Tells,
           z.pc = "existing" => row # NoRow /\ z.row = row,
           reqs[q].pc # "register", z.pc # "register",
           z.pc \notin {"idle", "end"} => z.inst \in Instances /\ z.call \in Calls,
           z.pc \in {"local", "row"} => z.run # 0,
           LockMoves(q, z), SlotMoves(q, z),
           lock' \in [Instances -> Requests \cup {None}], slots' \in [Instances -> Nat],
           late' \subseteq [inst : Instances, call : Calls], faults' \in 0 .. MaxFaults
    PROVE  KInv'
<1>1. reqs \in [Requests -> Request] /\ reqs'[q] = z /\ \A p \in Requests \ {q} : reqs'[p] = reqs[p]
    BY DEF KInv, TypeOK
<1>2. RunsOk' /\ RowOk' /\ Lives' /\ ToldOk' /\ SaysOk'
    BY <1>1, RequestContent DEF Tells
<1>3. Locks' /\ Slots'
    BY <1>1, RequestLocks DEF LockMoves, SlotMoves
<1>4. TypeOK'
    <2>1. row' \in Row \cup {NoRow}
        BY DEF RowMoves
    <2>2. told' \subseteq Runs \X Ends
        <3>1. CASE told' = told
            BY <3>1 DEF KInv, TypeOK
        <3>2. ASSUME NEW r, NEW x, Known(r, x), told' = told \cup {<<r, x>>}
              PROVE  told' \subseteq Runs \X Ends
            BY <3>2 DEF KInv, TypeOK, Known
        <3> QED  BY <3>1, <3>2 DEF Tells
    <2>3. reqs' \in [Requests -> Request]
        BY <1>1
    <2> QED  BY <2>1, <2>2, <2>3 DEF KInv, TypeOK
<1> QED  BY <1>2, <1>3, <1>4 DEF KInv

LEMMA RequestColumns ==
    \A z \in Request :
        /\ z.pc \in {"idle", "refused", "begin", "register", "abandon", "existing", "local", "row", "end"}
        /\ z.inst \in Instances \cup {None} /\ z.call \in Calls \cup {None} /\ z.run \in Runs \cup {0}
        /\ z.row \in Row \cup {NoRow} /\ z.joins \in 0 .. 3
<1> QED  BY DEF Request

LEMMA JoinedColumns ==
    ASSUME NEW pc \in {"local", "begin", "refused"}, NEW i \in Instances, NEW c \in Calls,
           NEW r \in Runs \cup {0}, NEW n \in 1 .. 3, NEW z,
           z = [pc |-> pc, inst |-> i, call |-> c, run |-> r, row |-> NoRow, joins |-> n]
    PROVE  z \in Request /\ z.pc = pc /\ z.inst = i /\ z.call = c /\ z.run = r
<1>1. n \in 0 .. 3
    OBVIOUS
<1> QED  BY <1>1 DEF Request

\* join's four ways.
JoinedAs(q, i, c, z) ==
    \/ z.pc = "end" /\ z.inst = None /\ lock' = lock /\ slots' = slots
    \/ z.pc = "local" /\ z.inst = i /\ z.call = c /\ z.run = kc[i] /\ kc[i] # 0 /\ lock' = lock /\ slots' = slots
    \/ /\ z.pc = "begin" /\ z.inst = i /\ z.call = c /\ kc[i] = 0 /\ proc[i] = "up"
       /\ lock' = [lock EXCEPT ![i] = q] /\ slots' = [slots EXCEPT ![i] = @ + 1]
    \/ /\ z.pc = "refused" /\ z.inst = i /\ z.call = c /\ kc[i] = 0
       /\ lock' = [lock EXCEPT ![i] = q] /\ slots' = slots

LEMMA JoinColumns ==
    ASSUME KInv, NEW q \in Requests, NEW i \in Instances, NEW c \in Calls, NEW n \in 1 .. 3, JoinWith(q, i, c, n)
    PROVE  \E z \in Request : reqs' = [reqs EXCEPT ![q] = z] /\ JoinedAs(q, i, c, z)
<1>0. kc[i] \in Runs \cup {0} /\ 0 \in Runs \cup {0}
    BY DEF KInv, TypeOK
<1> DEFINE e(pc, r) == [pc |-> pc, inst |-> i, call |-> c, run |-> r, row |-> NoRow, joins |-> n]
<1>1. ASSUME NEW pc \in {"local", "begin", "refused"}, NEW r \in Runs \cup {0}, NEW z, z = e(pc, r)
      PROVE  z \in Request /\ z.pc = pc /\ z.inst = i /\ z.call = c /\ z.run = r
    BY <1>1, JoinedColumns
<1>3. ASSUME NEW r, NEW z, z = [NoRequest EXCEPT !.pc = "local", !.inst = i, !.call = c, !.run = r, !.joins = n]
      PROVE  z = e("local", r)
    BY <1>3 DEF NoRequest
<1>4. ASSUME NEW z, z = [NoRequest EXCEPT !.pc = "begin", !.inst = i, !.call = c, !.joins = n]
      PROVE  z = e("begin", 0)
    BY <1>4 DEF NoRequest
<1>5. ASSUME NEW z, z = [NoRequest EXCEPT !.pc = "refused", !.inst = i, !.call = c, !.joins = n]
      PROVE  z = e("refused", 0)
    BY <1>5 DEF NoRequest
<1>a. [NoRequest EXCEPT !.pc = "local", !.inst = i, !.call = c, !.run = kc[i], !.joins = n] = e("local", kc[i])
    BY <1>3, Zenon
<1>b. [NoRequest EXCEPT !.pc = "begin", !.inst = i, !.call = c, !.joins = n] = e("begin", 0)
    BY <1>4, Zenon
<1>c. [NoRequest EXCEPT !.pc = "refused", !.inst = i, !.call = c, !.joins = n] = e("refused", 0)
    BY <1>5, Zenon
<1>6. \/ reqs' = [reqs EXCEPT ![q] = Answered] /\ lock' = lock /\ slots' = slots
      \/ reqs' = [reqs EXCEPT ![q] = e("local", kc[i])] /\ kc[i] # 0 /\ lock' = lock /\ slots' = slots
      \/ /\ reqs' = [reqs EXCEPT ![q] = e("begin", 0)] /\ kc[i] = 0 /\ proc[i] = "up"
         /\ lock' = [lock EXCEPT ![i] = q] /\ slots' = [slots EXCEPT ![i] = @ + 1]
      \/ /\ reqs' = [reqs EXCEPT ![q] = e("refused", 0)] /\ kc[i] = 0
         /\ lock' = [lock EXCEPT ![i] = q] /\ slots' = slots
    BY <1>a, <1>b, <1>c, Zenon DEF JoinWith
<1> HIDE DEF e
<1>7. CASE reqs' = [reqs EXCEPT ![q] = Answered] /\ lock' = lock /\ slots' = slots
    BY <1>7, AnsweredColumns DEF JoinedAs
<1>8. CASE reqs' = [reqs EXCEPT ![q] = e("local", kc[i])] /\ kc[i] # 0 /\ lock' = lock /\ slots' = slots
    <2> DEFINE z == e("local", kc[i])
    <2>1. z \in Request /\ z.pc = "local" /\ z.inst = i /\ z.call = c /\ z.run = kc[i]
        BY <1>0, <1>1
    <2>2. reqs' = [reqs EXCEPT ![q] = z]
        BY <1>8
    <2> HIDE DEF z
    <2> QED  BY <1>8, <2>1, <2>2 DEF JoinedAs
<1>9. CASE /\ reqs' = [reqs EXCEPT ![q] = e("begin", 0)] /\ kc[i] = 0 /\ proc[i] = "up"
           /\ lock' = [lock EXCEPT ![i] = q] /\ slots' = [slots EXCEPT ![i] = @ + 1]
    <2> DEFINE z == e("begin", 0)
    <2>1. z \in Request /\ z.pc = "begin" /\ z.inst = i /\ z.call = c /\ z.run = 0
        BY <1>0, <1>1
    <2>2. reqs' = [reqs EXCEPT ![q] = z]
        BY <1>9
    <2> HIDE DEF z
    <2> QED  BY <1>9, <2>1, <2>2 DEF JoinedAs
<1>10. CASE /\ reqs' = [reqs EXCEPT ![q] = e("refused", 0)] /\ kc[i] = 0
            /\ lock' = [lock EXCEPT ![i] = q] /\ slots' = slots
    <2> DEFINE z == e("refused", 0)
    <2>1. z \in Request /\ z.pc = "refused" /\ z.inst = i /\ z.call = c /\ z.run = 0
        BY <1>0, <1>1
    <2>2. reqs' = [reqs EXCEPT ![q] = z]
        BY <1>10
    <2> HIDE DEF z
    <2> QED  BY <1>10, <2>1, <2>2 DEF JoinedAs
<1> QED  BY <1>6, <1>7, <1>8, <1>9, <1>10

LEMMA JoinWithKeeps ==
    ASSUME KInv, NEW q \in Requests, NEW i \in Instances, NEW c \in Calls, NEW n \in 1 .. 3, JoinWith(q, i, c, n),
           reqs[q].pc \in {"idle", "row"}
    PROVE  KInv'
<1>0. UNCHANGED <<row, used, life, runs, kc, proc, late, notes, told, gaveUp, faults>> /\ lock[i] = None
    BY DEF JoinWith
<1>1. PICK z \in Request : reqs' = [reqs EXCEPT ![q] = z] /\ JoinedAs(q, i, c, z)
    BY JoinColumns
<1>2. RowMoves
    BY <1>0, SameRow
<1>3. lock \in [Instances -> Requests \cup {None}] /\ slots \in [Instances -> Nat]
    BY DEF KInv, TypeOK
<1>4. \A j \in Instances : lock[j] # q
    BY DEF KInv, Locks, LockPcs
<1>5. \A j \in Instances : lock[j] # None => kc[j] = 0
    BY DEF KInv, Locks
<1>6. CASE lock' = lock /\ slots' = slots /\ z.pc \in {"end", "local"}
    <2>1. LockMoves(q, z)
        BY <1>4, <1>5, <1>6 DEF LockPcs, LockMoves
    <2>4. SlotMoves(q, z) /\ Tells
        BY <1>0, <1>6 DEF SlotMoves, Tells
    <2>2. z.pc \notin {"idle", "end"} => z.inst \in Instances /\ z.call \in Calls
        BY <1>1, <1>6 DEF JoinedAs
    <2>3. z.pc \in {"local", "row"} => z.run # 0
        BY <1>1, <1>6 DEF JoinedAs
    <2> QED  BY <1>0, <1>1, <1>2, <1>3, <1>6, <2>1, <2>2, <2>3, <2>4, OthersTyped, RequestMoves
<1>7. CASE /\ z.pc \in {"begin", "refused"} /\ z.inst = i /\ z.call = c /\ kc[i] = 0
           /\ lock' = [lock EXCEPT ![i] = q]
    <2>1. lock' \in [Instances -> Requests \cup {None}] /\ lock'[i] = q /\ \A j \in Instances \ {i} : lock'[j] = lock[j]
        BY <1>3, <1>7
    <2>2. ASSUME NEW j \in Instances
          PROVE  /\ \A p \in Requests \ {q} : lock'[j] = p <=> lock[j] = p
                 /\ lock'[j] = q <=> z.inst = j /\ z.pc \in LockPcs
                 /\ lock'[j] # None => kc[j] = 0
        <3>1. CASE j = i
            BY <1>0, <1>7, <2>1, <3>1, Constants DEF LockPcs
        <3>2. CASE j # i
            BY <1>4, <1>5, <1>7, <2>1, <3>2
        <3> QED  BY <3>1, <3>2
    <2>3. slots[i] = 0
        <3>1. \A p \in Requests : ~(reqs[p].inst = i /\ reqs[p].pc \in {"begin", "register"})
            BY <1>0, Constants DEF KInv, Locks, LockPcs
        <3>2. ~Slot(i)
            BY <1>7, <3>1 DEF Slot
        <3> QED  BY <3>2 DEF KInv, Slots
    <2>4. slots' \in [Instances -> Nat] /\
          \A j \in Instances :
                \/ slots'[j] = slots[j] /\ ~(z.pc = "begin" /\ z.inst = j)
                \/ slots'[j] = 1 /\ z.pc = "begin" /\ z.inst = j /\ proc[j] = "up"
        <3>1. CASE z.pc = "refused"
            BY <1>1, <1>3, <3>1 DEF JoinedAs
        <3>2. CASE z.pc = "begin"
            <4>1. slots' = [slots EXCEPT ![i] = 1] /\ proc[i] = "up"
                BY <1>1, <1>3, <2>3, <3>2 DEF JoinedAs
            <4> QED  BY <1>3, <1>7, <3>2, <4>1
        <3> QED  BY <1>7, <3>1, <3>2
    <2>5. LockMoves(q, z) /\ SlotMoves(q, z) /\ Tells
        BY <1>0, <2>2, <2>4 DEF LockMoves, SlotMoves, Tells
    <2>6. z.pc \notin {"existing", "register", "local", "row"} /\ z.inst \in Instances /\ z.call \in Calls
          /\ reqs[q].pc # "register" /\ slots' \in [Instances -> Nat] /\ told' = told
          /\ late' = late /\ faults' = faults
        BY <1>0, <1>7, <2>4
    <2>7. UNCHANGED <<used, life, runs, kc, proc, notes, gaveUp>>
        BY <1>0
    <2>8. late' \subseteq [inst : Instances, call : Calls] /\ faults' \in 0 .. MaxFaults
        BY <1>0, OthersTyped
    <2>9. lock' \in [Instances -> Requests \cup {None}] /\ reqs' = [reqs EXCEPT ![q] = z] /\ z \in Request
        BY <1>1, <2>1
    <2> QED  BY <1>2, <2>5, <2>6, <2>7, <2>8, <2>9, RequestMoves
<1> QED  BY <1>1, <1>6, <1>7 DEF JoinedAs

LEMMA JoinKeeps ==
    ASSUME KInv, NEW q \in Requests, NEW d \in Doors[q], Join(q, d[1], d[2]) PROVE KInv'
<1>1. d[1] \in Instances /\ d[2] \in Calls
    BY Constants
<1>2. 1 \in 1 .. 3
    OBVIOUS
<1> QED  BY <1>1, <1>2, JoinWithKeeps DEF Join

LEMMA JoinAgainKeeps == ASSUME KInv, NEW q \in Requests, JoinAgain(q) PROVE KInv'
<1>1. reqs[q].pc = "row" /\ reqs[q].joins < 3
    BY DEF JoinAgain, maxAttempts
<1>2. reqs[q].inst \in Instances /\ reqs[q].call \in Calls
    BY <1>1 DEF KInv, Locks
<1>3. reqs[q].joins \in 0 .. 3
    BY RequestColumns DEF KInv, TypeOK
<1>4. reqs[q].joins + 1 \in 1 .. 3
    BY <1>1, <1>3
<1> QED  BY <1>1, <1>2, <1>4, JoinWithKeeps DEF JoinAgain

\* A request that holds no lock has its answer.
LEMMA Leaves ==
    ASSUME KInv, NEW q \in Requests, reqs[q].pc \in {"local", "row"}, reqs' = [reqs EXCEPT ![q] = Answered], Tells,
           UNCHANGED <<row, used, life, runs, kc, lock, slots, proc, late, notes, gaveUp, faults>>
    PROVE  KInv'
<1>1. Answered \in Request /\ Answered.pc = "end"
    BY AnsweredColumns
<1>2. RowMoves
    BY SameRow
<1>3. LockMoves(q, Answered)
    <2>1. \A i \in Instances : lock[i] # q
        BY DEF KInv, Locks, LockPcs
    <2>2. \A i \in Instances : lock[i] # None => kc[i] = 0
        BY DEF KInv, Locks
    <2> QED  BY <1>1, <2>1, <2>2 DEF LockMoves, LockPcs
<1>4. SlotMoves(q, Answered)
    BY <1>1 DEF SlotMoves
<1>5. lock' \in [Instances -> Requests \cup {None}] /\ slots' \in [Instances -> Nat]
    BY DEF KInv, TypeOK
<1> QED  BY <1>1, <1>2, <1>3, <1>4, <1>5, OthersTyped, RequestMoves

LEMMA LeaveKeeps == ASSUME KInv, NEW q \in Requests, Leave(q) PROVE KInv'
<1> QED  BY Leaves DEF Leave, Dismiss, Tells

\* What a settled run and an ended row say is known.
LEMMA SettledKnown ==
    ASSUME KInv, NEW r \in Runs, runs[r].phase = "settled" PROVE Known(r, runs[r].out)
<1>1. RunOk(r)
    BY DEF KInv, RunsOk
<1>2. r <= used
    BY <1>1, NotGreater, UsedNat DEF RunOk
<1>3. runs[r].out \in Ends /\ (runs[r].out = "not_run" => Dead(r))
    BY <1>1 DEF RunOk, Dead
<1> QED  BY <1>2, <1>3 DEF Known, Says

LEMMA EndedKnown ==
    ASSUME KInv, row \in Row, row.state # "running" PROVE Known(row.run, row.state)
<1>1. row.run \in Runs /\ row.state \in Ends /\ row # NoRow
    BY RowColumns
<1>2. row.run <= used
    BY UsedNat
<1>3. row.state = "not_run" => Dead(row.run)
    BY <1>1 DEF KInv, RowOk
<1> QED  BY <1>1, <1>2, <1>3 DEF Known, Says

LEMMA WaitLocalKeeps == ASSUME KInv, NEW q \in Requests, WaitLocal(q) PROVE KInv'
<1>1. reqs[q].pc = "local" /\ reqs[q].run # 0 /\ runs[reqs[q].run].phase = "settled"
    BY DEF WaitLocal, KInv, Locks
<1>2. reqs[q].run \in Runs
    BY <1>1, RequestColumns DEF KInv, TypeOK
<1>3. Known(reqs[q].run, runs[reqs[q].run].out)
    BY <1>1, <1>2, SettledKnown
<1>4. Tells
    BY <1>3 DEF WaitLocal, Answer, Tells
<1> QED  BY <1>1, <1>4, Leaves DEF WaitLocal, Answer

LEMMA WaitRowKeeps == ASSUME KInv, NEW q \in Requests, WaitRow(q) PROVE KInv'
<1>0. reqs[q].pc = "row" /\ reqs[q].run # 0
      /\ UNCHANGED <<row, used, life, runs, kc, lock, slots, proc, late, notes, gaveUp, faults>>
    BY DEF WaitRow, KInv, Locks
<1>1. CASE row.run = reqs[q].run /\ row.state # "running" /\ Answer(q, row.run, row.state)
    <2>1. row \in Row
        BY <1>0, <1>1, TheRow DEF KInv
    <2>2. Known(row.run, row.state)
        BY <1>1, <2>1, EndedKnown
    <2>3. Tells
        BY <1>1, <2>2 DEF Answer, Tells
    <2> QED  BY <1>0, <1>1, <2>3, Leaves DEF Answer
<1>2. CASE Dismiss(q)
    BY <1>0, <1>2, Leaves DEF Dismiss, Tells
<1> QED  BY <1>1, <1>2 DEF WaitRow

\* A request gives its key's lock back.
LEMMA Releases ==
    ASSUME KInv, NEW q \in Requests, NEW z \in Request, reqs[q].pc \in {"abandon", "refused", "existing"},
           reqs' = [reqs EXCEPT ![q] = z], Unlock(reqs[q].inst), RowMoves, Tells,
           z.pc \in {"end", "row"}, z.pc = "row" => z.inst \in Instances /\ z.call \in Calls /\ z.run # 0,
           UNCHANGED <<used, life, runs, kc, slots, proc, late, notes, gaveUp, faults>>
    PROVE  KInv'
<1> DEFINE i == reqs[q].inst
<1>1. i \in Instances /\ lock[i] = q
    BY DEF KInv, Locks, LockPcs
<1>2. lock \in [Instances -> Requests \cup {None}] /\ slots' \in [Instances -> Nat]
    BY DEF KInv, TypeOK
<1>3. lock' = [lock EXCEPT ![i] = None]
    BY DEF Unlock
<1>4. lock' \in [Instances -> Requests \cup {None}] /\ lock'[i] = None
      /\ \A j \in Instances \ {i} : lock'[j] = lock[j]
    BY <1>1, <1>2, <1>3
<1>5. \A j \in Instances \ {i} : lock[j] # q
    BY DEF KInv, Locks
<1>6. \A j \in Instances : lock[j] # None => kc[j] = 0
    BY DEF KInv, Locks
<1>7. LockMoves(q, z)
    BY <1>1, <1>4, <1>5, <1>6, Constants DEF LockMoves, LockPcs
<1>8. SlotMoves(q, z)
    BY DEF SlotMoves
<1> QED  BY <1>2, <1>4, <1>7, <1>8, OthersTyped, RequestMoves

LEMMA AbandonKeeps == ASSUME KInv, NEW q \in Requests, Abandon(q) PROVE KInv'
<1>0. /\ reqs[q].pc = "abandon" /\ Unlock(reqs[q].inst) /\ reqs' = [reqs EXCEPT ![q] = Answered] /\ told' = told
      /\ UNCHANGED <<used, life, runs, kc, slots, proc, late, notes, gaveUp, faults>>
    BY DEF Abandon, Dismiss
<1>1. RowMoves
    <2>1. CASE row.state = "running" /\ row.sent = "no" /\ EndRow("not_run")
        BY <1>0, <2>1, RowEnds DEF Ends
    <2>2. CASE row' = row
        BY <1>0, <2>2, SameRow
    <2> QED  BY <2>1, <2>2 DEF Abandon
<1>2. Tells
    BY <1>0 DEF Tells
<1> QED  BY <1>0, <1>1, <1>2, AnsweredColumns, Releases

\* A request keeps its key's lock.
LEMMA Retains ==
    ASSUME KInv, NEW q \in Requests, NEW z, reqs[q].pc \in LockPcs, z.pc \in LockPcs, z.inst = reqs[q].inst,
           lock' = lock
    PROVE  /\ LockMoves(q, z) /\ reqs[q].inst \in Instances /\ reqs[q].call \in Calls
           /\ lock' \in [Instances -> Requests \cup {None}]
<1>1. \A i \in Instances : lock[i] = q <=> reqs[q].inst = i /\ reqs[q].pc \in LockPcs
    BY DEF KInv, Locks
<1>2. \A i \in Instances : lock[i] # None => kc[i] = 0
    BY DEF KInv, Locks
<1>3. reqs[q].inst \in Instances /\ reqs[q].call \in Calls
    BY DEF KInv, Locks, LockPcs
<1> QED  BY <1>1, <1>2, <1>3 DEF LockMoves, KInv, TypeOK

\* unreserve gives back the only slot.
LEMMA Unreserves ==
    ASSUME KInv, NEW q \in Requests, NEW z, reqs[q].pc = "begin", Unreserve(reqs[q].inst), z.pc # "begin"
    PROVE  SlotMoves(q, z) /\ slots' \in [Instances -> Nat]
           /\ slots' = [slots EXCEPT ![reqs[q].inst] = 0]
<1> DEFINE i == reqs[q].inst
<1>1. i \in Instances
    BY DEF KInv, Locks
<1>2. Slot(i)
    BY DEF Slot
<1>3. slots[i] = 1
    BY <1>1, <1>2 DEF KInv, Slots
<1>4. slots \in [Instances -> Nat]
    BY DEF KInv, TypeOK
<1>5. slots' = [slots EXCEPT ![i] = slots[i] - 1]
    BY DEF Unreserve
<1>6. slots' = [slots EXCEPT ![i] = 0]
    BY <1>3, <1>5
<1>7. slots' \in [Instances -> Nat] /\ slots'[i] = 0 /\ \A j \in Instances \ {i} : slots'[j] = slots[j]
    BY <1>1, <1>4, <1>6
<1> QED  BY <1>6, <1>7 DEF SlotMoves

\* begin, or refused, finds a row of the key.
LEMMA SeenColumns ==
    ASSUME NEW h \in Request, row \in Row, NEW z, z = [h EXCEPT !.pc = "existing", !.row = row]
    PROVE  z \in Request /\ z.pc = "existing" /\ z.row = row /\ z.inst = h.inst /\ z.call = h.call
<1> QED  BY DEF Request

LEMMA SeesRow ==
    ASSUME KInv, NEW q \in Requests, reqs[q].pc \in {"begin", "refused"}, row \in Row, row' = row, lock' = lock,
           reqs' = [reqs EXCEPT ![q].pc = "existing", ![q].row = row],
           \/ reqs[q].pc = "begin" /\ Unreserve(reqs[q].inst)
           \/ reqs[q].pc = "refused" /\ slots' = slots,
           UNCHANGED <<used, life, runs, kc, proc, late, notes, told, gaveUp, faults>>
    PROVE  KInv'
<1>0. reqs[q] \in Request
    BY DEF KInv, TypeOK
<1> DEFINE h == reqs[q]
           e == [h EXCEPT !.pc = "existing", !.row = row]
<1>1. reqs' = [reqs EXCEPT ![q] = e]
    BY DEF KInv, TypeOK
<1>2. PICK z : z = e
    OBVIOUS
<1>3. z \in Request /\ z.pc = "existing" /\ z.row = row /\ z.inst = h.inst /\ z.call = h.call
    BY <1>0, <1>2, SeenColumns
<1>4. reqs' = [reqs EXCEPT ![q] = z]
    BY <1>1, <1>2
<1> HIDE DEF e
<1>5. LockMoves(q, z) /\ reqs[q].inst \in Instances /\ reqs[q].call \in Calls
      /\ lock' \in [Instances -> Requests \cup {None}]
    BY <1>3, Retains DEF LockPcs
<1>6. SlotMoves(q, z) /\ slots' \in [Instances -> Nat]
    <2>1. CASE reqs[q].pc = "begin" /\ Unreserve(reqs[q].inst)
        BY <1>3, <2>1, Unreserves
    <2>2. CASE reqs[q].pc = "refused" /\ slots' = slots
        BY <1>3, <2>2 DEF SlotMoves, KInv, TypeOK
    <2> QED  BY <2>1, <2>2
<1>7. RowMoves /\ Tells
    BY SameRow DEF Tells
<1>8. row # NoRow
    BY RowColumns
<1> QED  BY <1>3, <1>4, <1>5, <1>6, <1>7, <1>8, OthersTyped, RequestMoves

LEMMA RefusedKeeps == ASSUME KInv, NEW q \in Requests, Refused(q) PROVE KInv'
<1>0. /\ reqs[q].pc = "refused"
      /\ UNCHANGED <<row, used, life, runs, kc, slots, proc, late, notes, gaveUp, faults>>
    BY DEF Refused
<1>1. CASE Dismiss(q) /\ Unlock(reqs[q].inst)
    <2>1. RowMoves /\ Tells
        BY <1>0, <1>1, SameRow DEF Dismiss, Tells
    <2> QED  BY <1>0, <1>1, <2>1, AnsweredColumns, Releases DEF Dismiss
<1>2. CASE /\ row.state \notin {"", "not_run"}
           /\ reqs' = [reqs EXCEPT ![q].pc = "existing", ![q].row = row]
           /\ UNCHANGED <<lock, told>>
    <2>1. row \in Row
        BY <1>2, TheRow DEF KInv
    <2> QED  BY <1>0, <1>2, <2>1, SeesRow
<1> QED  BY <1>1, <1>2 DEF Refused

LEMMA ExistingKeeps == ASSUME KInv, NEW q \in Requests, Existing(q) PROVE KInv'
<1> DEFINE seen == reqs[q].row
<1>0. /\ reqs[q].pc = "existing" /\ Unlock(reqs[q].inst)
      /\ UNCHANGED <<row, used, life, runs, kc, slots, proc, late, notes, gaveUp, faults>>
    BY DEF Existing
<1>1. seen \in Row /\ seen.run <= used /\ (seen.state = "not_run" => Dead(seen.run))
    BY <1>0 DEF KInv, ToldOk
<1>2. seen.run \in Runs /\ seen.state \in Ends \cup {"running"}
    BY <1>1, RowColumns
<1>3. RowMoves
    BY <1>0, SameRow
<1>4. CASE Dismiss(q)
    <2>1. Tells
        BY <1>4 DEF Dismiss, Tells
    <2> QED  BY <1>0, <1>3, <1>4, <2>1, AnsweredColumns, Releases DEF Dismiss
<1>5. CASE seen.state # "running" /\ Answer(q, seen.run, seen.state)
    <2>1. Known(seen.run, seen.state)
        BY <1>0, <1>1, <1>2, <1>5 DEF Known, Says
    <2>2. Tells
        BY <1>5, <2>1 DEF Answer, Tells
    <2> QED  BY <1>0, <1>3, <1>5, <2>2, AnsweredColumns, Releases DEF Answer
<1>6. CASE /\ reqs' = [reqs EXCEPT ![q].pc = "row", ![q].run = seen.run, ![q].row = NoRow]
           /\ UNCHANGED told
    <2> DEFINE h == reqs[q]
               e == [h EXCEPT !.pc = "row", !.run = seen.run, !.row = NoRow]
    <2>0. h \in Request
        BY DEF KInv, TypeOK
    <2>1. reqs' = [reqs EXCEPT ![q] = e]
        BY <1>6 DEF KInv, TypeOK
    <2>a. PICK r \in Runs : r = seen.run
        BY <1>2
    <2>b. e = [h EXCEPT !.pc = "row", !.run = r, !.row = NoRow]
        BY <2>a
    <2>2. PICK z : z = e
        OBVIOUS
    <2>c. z = [h EXCEPT !.pc = "row", !.run = r, !.row = NoRow]
        BY <2>b, <2>2
    <2>d. z \in Request /\ z.pc = "row" /\ z.run = r /\ z.inst = h.inst /\ z.call = h.call
        <3> HIDE DEF h, e
        <3> QED  BY <2>0, <2>c DEF Request
    <2>3. z \in Request /\ z.pc = "row" /\ z.run = seen.run /\ z.inst = h.inst /\ z.call = h.call
        BY <2>a, <2>d
    <2>4. reqs' = [reqs EXCEPT ![q] = z]
        BY <2>1, <2>2
    <2> HIDE DEF e
    <2>5. h.inst \in Instances /\ h.call \in Calls
        BY <1>0 DEF KInv, Locks
    <2>6. Tells
        BY <1>6 DEF Tells
    <2> QED  BY <1>0, <1>2, <1>3, <2>3, <2>4, <2>5, <2>6, RunIds, Releases
<1> QED  BY <1>4, <1>5, <1>6 DEF Existing

-----------------------------------------------------------------------------
(* A run is given out, and registered *)

LEMMA InsertColumns ==
    ASSUME KInv, NEW i \in Instances, NEW c \in Calls, NEW phase \in {"row", "lost"}, Insert(i, c, phase)
    PROVE  /\ used + 1 \in Runs /\ used' = used + 1 /\ runs[used + 1].phase = "unused"
           /\ row' \in Row /\ row'.run = used + 1 /\ row'.state = "running" /\ row'.sent = "no"
           /\ \E q \in Run :
                /\ runs' = [runs EXCEPT ![used + 1] = q]
                /\ q.phase = phase /\ q.inst = i /\ q.life = life /\ q.sent = "no"
                /\ q.recorded = "no" /\ q.guest = "idle" /\ q.ran = "no"
<1>0. used \in Nat /\ used < MaxRuns /\ MaxRuns \in Nat
    BY UsedNat, Constants DEF Insert
<1>1. used + 1 \in Runs /\ used + 1 > used
    BY <1>0 DEF Runs
<1>2. PICK n \in Runs : n = used + 1
    BY <1>1
<1>3. runs[n].phase = "unused"
    <2>1. RunOk(n)
        BY DEF KInv, RunsOk
    <2>2. n > used
        BY <1>1, <1>2
    <2> QED  BY <2>1, <2>2 DEF RunOk
<1>4. row' = [run |-> n, call |-> c, inst |-> i, state |-> "running", sent |-> "no", lease |-> "held"]
    BY <1>2 DEF Insert
<1>5. row' \in Row /\ row'.run = n /\ row'.state = "running" /\ row'.sent = "no"
    BY <1>4 DEF Row, YesNo
<1>6. PICK l \in 0 .. MaxLife : l = life
    BY DEF KInv, TypeOK
<1> DEFINE e == [NoRun EXCEPT !.phase = phase, !.inst = i, !.call = c, !.life = l]
           q == [phase |-> phase, inst |-> i, call |-> c, life |-> l,
                 sent |-> "no", before |-> "no", recorded |-> "no", attempt |-> 0,
                 cause |-> "", out |-> "", guest |-> "idle", ran |-> "no"]
<1>7. runs' = [runs EXCEPT ![n] = e]
    BY <1>2, <1>6 DEF Insert
<1>8. ASSUME NEW z, z = e
      PROVE  z = q
    BY <1>8 DEF NoRun
<1>a. phase \in Phases /\ "no" \in YesNo /\ 0 \in {0, 1} /\ "" \in {"", "cancel", "stop", "lost"}
    BY DEF Phases, YesNo
<1>b. /\ q \in Run /\ q.phase = phase /\ q.inst = i /\ q.life = l /\ q.sent = "no"
      /\ q.recorded = "no" /\ q.guest = "idle" /\ q.ran = "no"
    BY <1>a DEF Run
<1> HIDE DEF q, e
<1>c. e = q
    BY <1>8, Zenon
<1>9. used' = used + 1
    BY DEF Insert
<1> QED  BY <1>1, <1>2, <1>3, <1>5, <1>6, <1>7, <1>9, <1>b, <1>c

LEMMA InsertContent ==
    ASSUME KInv, NEW i \in Instances, NEW c \in Calls, NEW phase \in {"row", "lost"}, Insert(i, c, phase),
           UNCHANGED <<life, told, gaveUp>>,
           \A p \in Requests : reqs'[p].pc = "existing" => reqs'[p] = reqs[p]
    PROVE  RunsOk' /\ RowOk' /\ Lives' /\ ToldOk' /\ SaysOk'
<1>1. PICK n \in Runs, h \in Run :
            /\ n = used + 1 /\ used' = n /\ runs[n].phase = "unused"
            /\ row' \in Row /\ row'.run = n /\ row'.state = "running" /\ row'.sent = "no"
            /\ runs' = [runs EXCEPT ![n] = h]
            /\ h.phase = phase /\ h.inst = i /\ h.life = life /\ h.sent = "no"
            /\ h.recorded = "no" /\ h.guest = "idle" /\ h.ran = "no"
    BY InsertColumns
<1>2. /\ runs \in [Runs -> Run] /\ runs'[n] = h /\ \A s \in Runs \ {n} : runs'[s] = runs[s]
      /\ life' = life /\ told' = told /\ gaveUp' = gaveUp
    BY <1>1 DEF KInv, TypeOK
<1>3. used \in Nat /\ n \in Nat /\ used' \in Nat
    BY <1>1, UsedNat, RunIds
<1>4. \A s \in Runs : Running(s)' <=> s = n
    BY <1>1 DEF Running
<1>5. \A s \in Runs \ {n} : s > used' <=> s > used
    BY <1>1, <1>3, RunIds
<1>6. ~(n > used') /\ used' >= used /\ n > used
    BY <1>1, <1>3
<1>7. ASSUME NEW s \in Runs PROVE RunOk(s)' /\ (Dead(s) => Dead(s)')
    <2>1. CASE s = n
        <3>1. RunOk(n)'
            BY <1>1, <1>2, <1>6 DEF RunOk
        <3>2. ~Dead(n)
            BY <1>1 DEF Dead
        <3> QED  BY <2>1, <3>1, <3>2
    <2>2. CASE s # n
        <3>0. RunOk(s)
            BY DEF KInv, RunsOk
        <3>1. runs'[s] = runs[s] /\ ~Running(s)'
            BY <1>2, <1>4, <2>2
        <3>2. RunOk(s)'
            BY <1>5, <2>2, <3>0, <3>1 DEF RunOk
        <3> QED  BY <3>1, <3>2 DEF Dead
    <2> QED  BY <2>1, <2>2
<1>8. RunsOk'
    BY <1>7 DEF RunsOk
<1>9. RowOk'
    <2>1. n <= used'
        BY <1>1, <1>3
    <2> QED  BY <1>1, <1>2, <2>1 DEF RowOk
<1>10. ASSUME NEW s \in Runs, s # n, runs[s].phase # "unused", runs[s].life = life PROVE Dead(s)
    <2>1. s = row.run \/ Dead(s)
        BY <1>10 DEF KInv, Lives
    <2>2. ASSUME s = row.run PROVE Dead(s)
        <3>1. row # NoRow
            BY <2>2, RowColumns, RunIds
        <3>2. row.state = "not_run"
            BY <3>1 DEF Insert, Replaceable
        <3> QED  BY <2>2, <3>1, <3>2 DEF KInv, RowOk
    <2> QED  BY <2>1, <2>2
<1>11. Lives'
    <2>1. life \in Nat
        BY UsedNat
    <2>2. \A s \in Runs : runs'[s].life <= life'
        <3>1. life <= life
            BY <2>1
        <3>2. \A s \in Runs : runs[s].life <= life
            BY DEF KInv, Lives
        <3> QED  BY <1>1, <1>2, <3>1, <3>2
    <2>3. runs'[row'.run].life = life'
        BY <1>1, <1>2
    <2>4. \A s \in Runs : runs'[s].phase # "unused" /\ runs'[s].life = life' => s = row'.run \/ Dead(s)'
        BY <1>1, <1>2, <1>7, <1>10
    <2>5. ASSUME NEW r \in Runs, NEW s \in Runs, r # s, runs'[r].phase # "unused", runs'[s].phase # "unused",
                 runs'[r].life = runs'[s].life
          PROVE  Dead(r)' \/ Dead(s)'
        <3>1. CASE r = n
            BY <1>1, <1>2, <1>7, <1>10, <2>5, <3>1
        <3>2. CASE s = n
            BY <1>1, <1>2, <1>7, <1>10, <2>5, <3>2
        <3>3. CASE r # n /\ s # n
            <4>1. Dead(r) \/ Dead(s)
                BY <1>2, <2>5, <3>3 DEF KInv, Lives
            <4> QED  BY <1>7, <4>1
        <3> QED  BY <3>1, <3>2, <3>3
    <2> QED  BY <2>2, <2>3, <2>4, <2>5 DEF Lives
<1>12. ToldOk'
    <2>1. \A s \in Runs, x \in Ends : <<s, x>> \in told' \ told => s <= used' /\ (x = "not_run" => Dead(s)')
        BY <1>2
    <2>2. \A p \in Requests : reqs'[p].pc = "existing" => reqs[p].pc = "existing" /\ reqs'[p].row = reqs[p].row
        OBVIOUS
    <2> QED  BY <1>3, <1>6, <1>7, <2>1, <2>2, ToldKeeps
<1>13. SaysOk'
    <2>1. ASSUME NEW s \in Runs \ {n}, NEW x \in Ends, Says(s, x)' PROVE Says(s, x)
        BY <1>1, <1>2, <2>1 DEF Says
    <2>2. ASSUME NEW x \in Ends PROVE ~Says(n, x)'
        <3>0. ~(n <= used)
            BY <1>1, <1>3
        <3>1. <<n, x>> \notin told'
            BY <1>2, <3>0 DEF KInv, ToldOk
        <3>2. x # "running"
            BY DEF Ends
        <3>3. ASSUME NEW p \in Requests, reqs'[p].pc = "existing" PROVE reqs'[p].row.run # n
            <4>1. reqs'[p] = reqs[p]
                BY <3>3
            <4>2. reqs[p].row.run <= used
                BY <3>3, <4>1 DEF KInv, ToldOk
            <4> QED  BY <3>0, <4>1, <4>2
        <3>4. runs'[n].phase # "settled"
            BY <1>1, <1>2
        <3> QED  BY <1>1, <3>1, <3>2, <3>3, <3>4 DEF Says
    <2>3. "done" \in Ends /\ "not_run" \in Ends
        BY DEF Ends
    <2>4. ASSUME NEW s \in Runs \ gaveUp'
          PROVE  /\ Running(s)' => \A x \in Ends : ~Says(s, x)'
                 /\ ~(Says(s, "done")' /\ Says(s, "not_run")')
        <3>1. CASE s = n
            BY <2>2, <2>3, <3>1
        <3>2. CASE s # n
            <4>1. ~(Says(s, "done") /\ Says(s, "not_run"))
                BY <1>2 DEF KInv, SaysOk
            <4> QED  BY <1>4, <2>1, <2>3, <3>2, <4>1
        <3> QED  BY <3>1, <3>2
    <2> QED  BY <2>4 DEF SaysOk
<1> QED  BY <1>8, <1>9, <1>11, <1>12, <1>13

\* What an insert leaves to the locks: the run was none, and is none of an
\* instance yet.
LEMMA InsertTypes ==
    ASSUME KInv, NEW i \in Instances, NEW c \in Calls, NEW phase \in {"row", "lost"}, Insert(i, c, phase)
    PROVE  /\ row' \in Row \cup {NoRow} /\ used' \in 0 .. MaxRuns /\ runs' \in [Runs -> Run]
           /\ used + 1 \in Runs /\ runs'[used + 1].phase = phase /\ runs'[used + 1].inst = i
           /\ runs[used + 1].phase = "unused"
           /\ \A s \in Runs \ {used + 1} : runs'[s] = runs[s]
<1>1. PICK n \in Runs, h \in Run :
            /\ n = used + 1 /\ used' = n /\ runs[n].phase = "unused"
            /\ row' \in Row /\ runs' = [runs EXCEPT ![n] = h]
            /\ h.phase = phase /\ h.inst = i
    BY InsertColumns
<1>2. runs \in [Runs -> Run]
    BY DEF KInv, TypeOK
<1>3. runs' \in [Runs -> Run] /\ runs'[n] = h /\ \A s \in Runs \ {n} : runs'[s] = runs[s]
    BY <1>1, <1>2
<1>4. used' \in 0 .. MaxRuns
    BY <1>1, Constants DEF Runs
<1> QED  BY <1>1, <1>3, <1>4

LEMMA LateInsertKeeps == ASSUME KInv, NEW w \in late, LateInsert(w) PROVE KInv'
<1>0. /\ late' = late \ {w}
      /\ UNCHANGED <<life, reqs, kc, lock, slots, proc, notes, told, gaveUp, faults>>
    BY DEF LateInsert
<1>1. late' \subseteq [inst : Instances, call : Calls]
    BY <1>0, OthersTyped
<1>2. CASE UNCHANGED <<row, used, runs>>
    <2>1. RowMoves
        BY <1>2, SameRow
    <2> QED  BY <1>0, <1>1, <1>2, <2>1, OthersTyped, RowSteps
<1>3. CASE Insert(w.inst, w.call, "lost")
    <2>1. w \in [inst : Instances, call : Calls]
        BY OthersTyped
    <2>2. PICK i \in Instances, c \in Calls : i = w.inst /\ c = w.call
        BY <2>1
    <2>3. Insert(i, c, "lost")
        BY <1>3, <2>2
    <2>4. PICK n \in Runs :
            /\ row' \in Row \cup {NoRow} /\ used' \in 0 .. MaxRuns /\ runs' \in [Runs -> Run]
            /\ runs'[n].phase = "lost" /\ runs[n].phase = "unused"
            /\ \A s \in Runs \ {n} : runs'[s] = runs[s]
        BY <2>3, InsertTypes
    <2>5. RunsOk' /\ RowOk' /\ Lives' /\ ToldOk' /\ SaysOk'
        BY <1>0, <2>3, InsertContent
    <2>6. \A s \in Runs :
                /\ runs'[s].phase \in Going <=> runs[s].phase \in Going
                /\ runs'[s].phase = "row" <=> runs[s].phase = "row"
                /\ runs[s].phase \in Going \cup {"row"} => runs'[s].inst = runs[s].inst
        BY <2>4 DEF Going
    <2>7. Locks' /\ Slots'
        BY <1>0, <2>6, LocksKeep
    <2>8. TypeOK'
        BY <1>0, <1>1, <2>4 DEF KInv, TypeOK
    <2> QED  BY <2>5, <2>7, <2>8 DEF KInv
<1> QED  BY <1>2, <1>3 DEF LateInsert

LEMMA BeginFailsKeeps == ASSUME KInv, NEW q \in Requests, BeginFails(q) PROVE KInv'
<1> DEFINE i == reqs[q].inst
           c == reqs[q].call
<1>0. /\ reqs[q].pc = "begin" /\ Unreserve(i) /\ Goto(q, "abandon")
      /\ life' = life /\ kc' = kc /\ lock' = lock /\ proc' = proc /\ notes' = notes /\ told' = told
      /\ gaveUp' = gaveUp
    BY DEF BeginFails
<1>1. faults' \in 0 .. MaxFaults
    BY FaultCounts DEF BeginFails
<1>2. reqs \in [Requests -> Request] /\ reqs[q] \in Request
    BY DEF KInv, TypeOK
<1> DEFINE h == reqs[q]
           e == [h EXCEPT !.pc = "abandon"]
<1>3. reqs' = [reqs EXCEPT ![q] = e]
    BY <1>0, <1>2 DEF Goto
<1>4. e \in Request /\ e.pc = "abandon" /\ e.inst = h.inst /\ e.call = h.call
    <2> HIDE DEF h
    <2>1. h \in Request
        BY <1>2 DEF h
    <2> QED  BY <2>1 DEF Request
<1>5. PICK z \in Request : z = e
    BY <1>4
<1> HIDE DEF e
<1>6. reqs' = [reqs EXCEPT ![q] = z] /\ z.pc = "abandon" /\ z.inst = i /\ z.call = c
    BY <1>3, <1>4, <1>5
<1>7. LockMoves(q, z) /\ i \in Instances /\ c \in Calls /\ lock' \in [Instances -> Requests \cup {None}]
    BY <1>0, <1>6, Retains DEF LockPcs
<1>8. SlotMoves(q, z) /\ slots' \in [Instances -> Nat]
    BY <1>0, <1>6, Unreserves
<1>9. CASE UNCHANGED <<row, used, runs>> /\ late' \subseteq [inst : Instances, call : Calls]
    <2>1. RowMoves /\ Tells
        BY <1>0, <1>9, SameRow DEF Tells
    <2> QED  BY <1>0, <1>1, <1>6, <1>7, <1>8, <1>9, <2>1, RequestMoves
<1>10. CASE Insert(i, c, "lost") /\ late' = late
    <2>1. PICK n \in Runs :
            /\ row' \in Row \cup {NoRow} /\ used' \in 0 .. MaxRuns /\ runs' \in [Runs -> Run]
            /\ runs'[n].phase = "lost" /\ runs[n].phase = "unused"
            /\ \A s \in Runs \ {n} : runs'[s] = runs[s]
        BY <1>7, <1>10, InsertTypes
    <2>2. reqs'[q] = z /\ \A p \in Requests \ {q} : reqs'[p] = reqs[p]
        BY <1>2, <1>6
    <2>3. \A p \in Requests : reqs'[p].pc = "existing" => reqs'[p] = reqs[p]
        BY <1>6, <2>2
    <2>4. RunsOk' /\ RowOk' /\ Lives' /\ ToldOk' /\ SaysOk'
        BY <1>0, <1>7, <1>10, <2>3, InsertContent
    <2>5. \A s \in Runs :
                /\ runs'[s].phase \in Going <=> runs[s].phase \in Going
                /\ runs'[s].phase = "row" <=> runs[s].phase = "row"
                /\ runs[s].phase \in Going \cup {"row"} => runs'[s].inst = runs[s].inst
        BY <2>1 DEF Going
    <2>6. Locks' /\ Slots'
        <3>1. /\ reqs[q].pc # "register" /\ reqs'[q].pc # "register"
              /\ reqs'[q].inst \in Instances /\ reqs'[q].call \in Calls
              /\ reqs'[q].pc \notin {"local", "row"}
            BY <1>0, <1>6, <1>7, <2>2
        <3>2. LockMoves(q, reqs'[q]) /\ SlotMoves(q, reqs'[q])
            BY <1>7, <1>8, <2>2
        <3> QED  BY <1>0, <2>2, <2>5, <3>1, <3>2, RequestLocks DEF LockMoves, SlotMoves
    <2>7. TypeOK'
        <3>1. reqs' \in [Requests -> Request]
            BY <1>2, <1>6
        <3> QED  BY <1>0, <1>1, <1>7, <1>8, <1>10, <2>1, <3>1 DEF KInv, TypeOK
    <2> QED  BY <2>4, <2>6, <2>7 DEF KInv
<1>11. CASE late' = late \cup {[inst |-> i, call |-> c]} /\ UNCHANGED <<row, used, runs>>
    <2>1. late' \subseteq [inst : Instances, call : Calls]
        BY <1>7, <1>11, OthersTyped
    <2> QED  BY <1>9, <1>11, <2>1
<1>12. CASE UNCHANGED <<row, used, runs, late>>
    BY <1>9, <1>12, OthersTyped
<1> QED  BY <1>10, <1>11, <1>12, Zenon DEF BeginFails

LEMMA BeginKeeps == ASSUME KInv, NEW q \in Requests, Begin(q) PROVE KInv'
<1> USE RunIds
<1> DEFINE i == reqs[q].inst
           c == reqs[q].call
<1>0. /\ reqs[q].pc = "begin" /\ UNCHANGED <<life, kc, lock, proc, late, notes, told, gaveUp, faults>>
    BY DEF Begin
<1>1. reqs \in [Requests -> Request] /\ reqs[q] \in Request
    BY DEF KInv, TypeOK
<1>2. i \in Instances /\ c \in Calls
    BY <1>0 DEF KInv, Locks
<1>3. CASE /\ ~Replaceable(c) /\ Unreserve(i) /\ UNCHANGED <<row, used, runs>>
           /\ reqs' = [reqs EXCEPT ![q].pc = "existing", ![q].row = row]
    <2>1. row \in Row
        BY <1>3, TheRow DEF Replaceable, KInv
    <2> QED  BY <1>0, <1>3, <2>1, SeesRow
<1>4. CASE /\ Insert(i, c, "row") /\ UNCHANGED slots
           /\ reqs' = [reqs EXCEPT ![q].pc = "register", ![q].run = used + 1]
    <2>1. PICK n \in Runs :
            /\ n = used + 1
            /\ row' \in Row \cup {NoRow} /\ used' \in 0 .. MaxRuns /\ runs' \in [Runs -> Run]
            /\ runs'[n].phase = "row" /\ runs'[n].inst = i /\ runs[n].phase = "unused"
            /\ \A s \in Runs \ {n} : runs'[s] = runs[s]
        BY <1>2, <1>4, InsertTypes
    <2> DEFINE h == reqs[q]
               e == [h EXCEPT !.pc = "register", !.run = n]
    <2>2. reqs' = [reqs EXCEPT ![q] = e]
        BY <1>1, <1>4, <2>1
    <2>3. e \in Request /\ e.pc = "register" /\ e.inst = h.inst /\ e.call = h.call /\ e.run = n
        <3> HIDE DEF h
        <3>1. h \in Request
            BY <1>1 DEF h
        <3> QED  BY <3>1 DEF Request
    <2> HIDE DEF e
    <2>4. /\ reqs' \in [Requests -> Request] /\ \A p \in Requests \ {q} : reqs'[p] = reqs[p]
          /\ reqs'[q].pc = "register" /\ reqs'[q].inst = i /\ reqs'[q].call = c /\ reqs'[q].run = n
        BY <1>1, <2>2, <2>3
    <2>5. \A p \in Requests : reqs'[p].pc = "existing" => reqs'[p] = reqs[p]
        BY <2>4
    <2>6. RunsOk' /\ RowOk' /\ Lives' /\ ToldOk' /\ SaysOk'
        BY <1>0, <1>2, <1>4, <2>5, InsertContent
    <2>7. Locks'
        <3>1. ASSUME NEW p \in Requests, NEW j \in Instances
              PROVE  lock'[j] = p <=> reqs'[p].inst = j /\ reqs'[p].pc \in LockPcs
            <4>1. lock[j] = p <=> reqs[p].inst = j /\ reqs[p].pc \in LockPcs
                BY DEF KInv, Locks
            <4>2. CASE p = q
                BY <1>0, <2>4, <4>1, <4>2 DEF LockPcs
            <4>3. CASE p # q
                BY <1>0, <2>4, <4>1, <4>3
            <4> QED  BY <4>2, <4>3
        <3>2. ASSUME NEW p \in Requests
              PROVE  /\ reqs'[p].pc \notin {"idle", "end"} => reqs'[p].inst \in Instances /\ reqs'[p].call \in Calls
                     /\ reqs'[p].pc \in {"register", "local", "row"} => reqs'[p].run # 0
                     /\ reqs'[p].pc = "register" =>
                            runs'[reqs'[p].run].phase = "row" /\ runs'[reqs'[p].run].inst = reqs'[p].inst
            <4>1. CASE p = q
                BY <1>2, <2>1, <2>4, <4>1
            <4>2. CASE p # q
                <5>1. reqs'[p] = reqs[p]
                    BY <2>4, <4>2
                <5>2. reqs[p].run \in Runs \cup {0}
                    BY DEF KInv, TypeOK, Request
                <5>3. reqs[p].pc = "register" =>
                        /\ reqs[p].run \in Runs
                        /\ runs[reqs[p].run].phase = "row" /\ runs[reqs[p].run].inst = reqs[p].inst
                    BY <5>2 DEF KInv, Locks
                <5>4. reqs[p].pc = "register" => runs'[reqs[p].run] = runs[reqs[p].run]
                    BY <2>1, <5>3
                <5> QED  BY <5>1, <5>3, <5>4 DEF KInv, Locks
            <4> QED  BY <4>1, <4>2
        <3>3. ASSUME NEW r \in Runs, runs'[r].phase = "row"
              PROVE  \E p \in Requests : reqs'[p].pc = "register" /\ reqs'[p].run = r /\ reqs'[p].inst = runs'[r].inst
            <4>1. CASE r = n
                BY <2>1, <2>4, <4>1
            <4>2. CASE r # n
                <5>1. runs'[r] = runs[r]
                    BY <2>1, <4>2
                <5>2. PICK p \in Requests : reqs[p].pc = "register" /\ reqs[p].run = r /\ reqs[p].inst = runs[r].inst
                    BY <3>3, <5>1 DEF KInv, Locks
                <5>3. reqs'[p] = reqs[p]
                    BY <1>0, <2>4, <5>2
                <5> QED  BY <5>1, <5>2, <5>3
            <4> QED  BY <4>1, <4>2
        <3>4. ASSUME NEW r \in Runs, NEW j \in Instances
              PROVE  kc'[j] = r <=> runs'[r].inst = j /\ runs'[r].phase \in Going
            <4>1. kc[j] = r <=> runs[r].inst = j /\ runs[r].phase \in Going
                BY DEF KInv, Locks
            <4>2. CASE r = n
                BY <1>0, <2>1, <4>1, <4>2 DEF Going
            <4>3. CASE r # n
                BY <1>0, <2>1, <4>1, <4>3
            <4> QED  BY <4>2, <4>3
        <3>5. \A j \in Instances : lock'[j] # None => kc'[j] = 0
            BY <1>0 DEF KInv, Locks
        <3> QED  BY <3>1, <3>2, <3>3, <3>4, <3>5 DEF Locks
    <2>8. Slots'
        <3> SUFFICES ASSUME NEW j \in Instances
                     PROVE  /\ slots'[j] = IF Slot(j)' THEN 1 ELSE 0
                            /\ proc'[j] = "stopped" => slots'[j] = 0
            BY DEF Slots
        <3>1. \A p \in Requests : reqs'[p].inst = j /\ reqs'[p].pc \in {"begin", "register"}
                                  <=> reqs[p].inst = j /\ reqs[p].pc \in {"begin", "register"}
            BY <1>0, <2>4
        <3>2. Slot(j)' <=> Slot(j)
            BY <1>0, <3>1 DEF Slot
        <3> QED  BY <1>0, <1>4, <3>2 DEF KInv, Slots
    <2>9. TypeOK'
        BY <1>0, <1>4, <2>1, <2>4 DEF KInv, TypeOK
    <2> QED  BY <2>6, <2>7, <2>8, <2>9 DEF KInv
<1> QED  BY <1>3, <1>4, Zenon DEF Begin

LEMMA RegisterKeeps == ASSUME KInv, NEW q \in Requests, Register(q) PROVE KInv'
<1> USE RunIds
<1> DEFINE i == reqs[q].inst
<1>0. /\ reqs[q].pc = "register"
      /\ row' = row /\ used' = used /\ life' = life /\ slots' = slots /\ proc' = proc /\ late' = late
      /\ notes' = notes /\ told' = told /\ gaveUp' = gaveUp /\ faults' = faults
    BY DEF Register
<1>1. reqs \in [Requests -> Request] /\ reqs[q] \in Request /\ runs \in [Runs -> Run]
    BY DEF KInv, TypeOK
<1>2. PICK r \in Runs : r = reqs[q].run
    <2>1. reqs[q].run \in Runs \cup {0}
        BY <1>1, RequestColumns
    <2> QED  BY <1>0, <2>1 DEF KInv, Locks
<1>3. i \in Instances /\ reqs[q].call \in Calls /\ runs[r].phase = "row" /\ runs[r].inst = i
    BY <1>0, <1>2 DEF KInv, Locks
<1>4. lock[i] = q /\ kc[i] = 0
    <2>1. lock[i] = q
        BY <1>0, <1>3 DEF KInv, Locks, LockPcs
    <2> QED  BY <1>3, <2>1, Constants DEF KInv, Locks
<1>5. kc' = [kc EXCEPT ![i] = r] /\ lock' = [lock EXCEPT ![i] = None]
    BY <1>2 DEF Register, Unlock
<1>6. /\ kc' \in [Instances -> Runs \cup {0}] /\ kc'[i] = r /\ \A j \in Instances \ {i} : kc'[j] = kc[j]
      /\ lock' \in [Instances -> Requests \cup {None}] /\ lock'[i] = None
      /\ \A j \in Instances \ {i} : lock'[j] = lock[j]
    BY <1>3, <1>5 DEF KInv, TypeOK
<1>7. PICK x \in {"stop", ""} : x = IF proc[i] = "cut" THEN "stop" ELSE ""
    OBVIOUS
<1> DEFINE h == runs[r]
           g == [h EXCEPT !.phase = "acquire", !.cause = x]
<1>8. runs' = [runs EXCEPT ![r] = g]
    BY <1>1, <1>2, <1>7 DEF Register
<1>9. /\ g \in Run /\ g.phase = "acquire" /\ g.inst = h.inst /\ g.life = h.life /\ g.sent = h.sent
      /\ g.recorded = h.recorded /\ g.guest = h.guest /\ g.ran = h.ran
    <2> HIDE DEF h
    <2>1. h \in Run
        BY <1>1 DEF h
    <2> QED  BY <2>1 DEF Run, Phases
<1> HIDE DEF g
<1>10. runs' \in [Runs -> Run] /\ runs'[r] = g /\ \A s \in Runs \ {r} : runs'[s] = runs[s]
    BY <1>1, <1>8, <1>9
<1> DEFINE o == reqs[q]
           z == [o EXCEPT !.pc = "local"]
<1>11. reqs' = [reqs EXCEPT ![q] = z]
    BY <1>1 DEF Register, Goto
<1>12. z \in Request /\ z.pc = "local" /\ z.inst = o.inst /\ z.call = o.call /\ z.run = o.run
    <2> HIDE DEF o
    <2>1. o \in Request
        BY <1>1 DEF o
    <2> QED  BY <2>1 DEF Request
<1> HIDE DEF z
<1>13. /\ reqs' \in [Requests -> Request] /\ \A p \in Requests \ {q} : reqs'[p] = reqs[p]
       /\ reqs'[q].pc = "local" /\ reqs'[q].inst = i /\ reqs'[q].call \in Calls /\ reqs'[q].run = r
    BY <1>1, <1>2, <1>3, <1>11, <1>12
<1>14. \A s \in Runs : Running(s)' <=> Running(s)
    BY <1>0 DEF Running
<1>15. ASSUME NEW s \in Runs PROVE RunOk(s)' /\ (Dead(s) => Dead(s)')
    <2>0. RunOk(s)
        BY DEF KInv, RunsOk
    <2>1. CASE s = r
        <3>1. RunOk(r)'
            BY <1>0, <1>3, <1>9, <1>10, <2>0, <2>1 DEF RunOk
        <3>2. Dead(r) => Dead(r)'
            BY <1>3, <1>9, <1>10, <1>14 DEF Dead
        <3> QED  BY <2>1, <3>1, <3>2
    <2>2. CASE s # r
        <3>1. runs'[s] = runs[s]
            BY <1>10, <2>2
        <3>2. RunOk(s)'
            BY <1>0, <1>14, <2>0, <3>1 DEF RunOk
        <3> QED  BY <1>14, <3>1, <3>2 DEF Dead
    <2> QED  BY <2>1, <2>2
<1>16. RunsMove
    <2>1. \A s \in Runs : runs'[s].life = runs[s].life /\ (runs'[s].phase = "unused" <=> runs[s].phase = "unused")
        BY <1>3, <1>9, <1>10
    <2> QED  BY <1>0, <1>15, <2>1 DEF RunsMove
<1>17. RowMoves
    <2> USE RowColumns
    <2>1. CASE row = NoRow
        BY <1>0, <2>1 DEF RowMoves
    <2>2. CASE row # NoRow
        <3>1. row \in Row /\ row.run \in Runs
            BY <2>2 DEF KInv, RowOk
        <3>2. row.sent = "no" => NotSent(row.run)'
            <4> SUFFICES ASSUME row.sent = "no" PROVE NotSent(row.run)'
                OBVIOUS
            <4>0. NotSent(row.run) /\ row'.run = row.run
                BY <1>0, <3>1, OfRow
            <4>1. CASE row.run = r
                BY <1>9, <1>10, <4>0, <4>1 DEF NotSent
            <4>2. CASE row.run # r
                BY <1>10, <3>1, <4>0, <4>2 DEF NotSent
            <4> QED  BY <4>1, <4>2
        <3>3. row.state = "not_run" => Dead(row.run)'
            BY <1>0, <1>15, <2>2, <3>1 DEF KInv, RowOk
        <3> QED  BY <1>0, <3>1, <3>2, <3>3 DEF RowMoves
    <2> QED  BY <2>1, <2>2
<1>18. RunsOk' /\ RowOk' /\ Lives'
    BY <1>16, <1>17, MovesKeep
<1>19. ToldOk'
    <2>1. used' >= used /\ used' \in Nat
        BY <1>0, GeqRefl, UsedNat
    <2>2. \A s \in Runs, y \in Ends : <<s, y>> \in told' \ told => s <= used' /\ (y = "not_run" => Dead(s)')
        BY <1>0
    <2>3. \A p \in Requests : reqs'[p].pc = "existing" => reqs[p].pc = "existing" /\ reqs'[p].row = reqs[p].row
        BY <1>13
    <2> QED  BY <1>15, <2>1, <2>2, <2>3, ToldKeeps
<1>20. SaysOk'
    <2>1. ASSUME NEW s \in Runs, NEW y \in Ends, Says(s, y)' PROVE Says(s, y)
        <3>1. runs'[s].phase = "settled" => runs'[s] = runs[s]
            BY <1>9, <1>10
        <3>2. \A p \in Requests : reqs'[p].pc = "existing" => reqs'[p] = reqs[p]
            BY <1>13
        <3> QED  BY <1>0, <2>1, <3>1, <3>2 DEF Says
    <2> QED  BY <1>0, <1>14, <2>1, SaysKeeps
<1>21. Locks'
    <2>1. ASSUME NEW p \in Requests, NEW j \in Instances
          PROVE  lock'[j] = p <=> reqs'[p].inst = j /\ reqs'[p].pc \in LockPcs
        <3>1. lock[j] = p <=> reqs[p].inst = j /\ reqs[p].pc \in LockPcs
            BY DEF KInv, Locks
        <3>2. lock[j] = q <=> reqs[q].inst = j /\ reqs[q].pc \in LockPcs
            BY DEF KInv, Locks
        <3>3. CASE p = q
            BY <1>0, <1>6, <1>13, <3>2, <3>3, Constants DEF LockPcs
        <3>4. CASE p # q
            BY <1>4, <1>6, <1>13, <3>1, <3>4, Constants
        <3> QED  BY <3>3, <3>4
    <2>2. ASSUME NEW p \in Requests
          PROVE  /\ reqs'[p].pc \notin {"idle", "end"} => reqs'[p].inst \in Instances /\ reqs'[p].call \in Calls
                 /\ reqs'[p].pc \in {"register", "local", "row"} => reqs'[p].run # 0
                 /\ reqs'[p].pc = "register" =>
                        runs'[reqs'[p].run].phase = "row" /\ runs'[reqs'[p].run].inst = reqs'[p].inst
        <3>1. CASE p = q
            BY <1>3, <1>13, <3>1
        <3>2. CASE p # q
            <4>1. reqs'[p] = reqs[p]
                BY <1>13, <3>2
            <4>2. reqs[p].run \in Runs \cup {0}
                BY DEF KInv, TypeOK, Request
            <4>3. reqs[p].pc = "register" =>
                    /\ reqs[p].run \in Runs
                    /\ runs[reqs[p].run].phase = "row" /\ runs[reqs[p].run].inst = reqs[p].inst
                BY <4>2 DEF KInv, Locks
            <4>4. reqs[p].pc = "register" => reqs[p].run # r
                <5> SUFFICES ASSUME reqs[p].pc = "register", reqs[p].run = r PROVE FALSE
                    OBVIOUS
                <5>1. reqs[p].inst = i
                    BY <1>3, <4>3
                <5>2. lock[i] = p
                    BY ZenonT(30), <1>3, <5>1 DEF KInv, Locks, LockPcs
                <5> QED  BY <1>4, <3>2, <5>2
            <4>5. reqs[p].pc = "register" => runs'[reqs[p].run] = runs[reqs[p].run]
                BY <1>10, <4>3, <4>4
            <4>6. reqs'[p].pc = "register" =>
                    runs'[reqs'[p].run].phase = "row" /\ runs'[reqs'[p].run].inst = reqs'[p].inst
                BY <4>1, <4>3, <4>5
            <4>7. /\ reqs[p].pc \notin {"idle", "end"} => reqs[p].inst \in Instances /\ reqs[p].call \in Calls
                  /\ reqs[p].pc \in {"register", "local", "row"} => reqs[p].run # 0
                BY DEF KInv, Locks
            <4>8. /\ reqs'[p].pc \notin {"idle", "end"} => reqs'[p].inst \in Instances /\ reqs'[p].call \in Calls
                  /\ reqs'[p].pc \in {"register", "local", "row"} => reqs'[p].run # 0
                BY <4>1, <4>7
            <4> QED  BY <4>6, <4>8
        <3> QED  BY <3>1, <3>2
    <2>3. ASSUME NEW s \in Runs, runs'[s].phase = "row"
          PROVE  \E p \in Requests : reqs'[p].pc = "register" /\ reqs'[p].run = s /\ reqs'[p].inst = runs'[s].inst
        <3>1. s # r /\ runs'[s] = runs[s]
            BY <1>9, <1>10, <2>3
        <3>2. PICK p \in Requests : reqs[p].pc = "register" /\ reqs[p].run = s /\ reqs[p].inst = runs[s].inst
            BY <2>3, <3>1 DEF KInv, Locks
        <3>3. reqs'[p] = reqs[p]
            BY <1>2, <1>13, <3>1, <3>2
        <3> QED  BY <3>1, <3>2, <3>3
    <2>4. ASSUME NEW s \in Runs, NEW j \in Instances
          PROVE  kc'[j] = s <=> runs'[s].inst = j /\ runs'[s].phase \in Going
        <3>1. kc[j] = s <=> runs[s].inst = j /\ runs[s].phase \in Going
            BY DEF KInv, Locks
        <3>2. CASE s = r
            BY <1>3, <1>6, <1>9, <1>10, <3>1, <3>2 DEF Going
        <3>3. CASE s # r
            BY <1>4, <1>6, <1>10, <3>1, <3>3
        <3> QED  BY <3>2, <3>3
    <2>5. \A j \in Instances : lock'[j] # None => kc'[j] = 0
        BY <1>6 DEF KInv, Locks
    <2> QED  BY <2>1, <2>2, <2>3, <2>4, <2>5 DEF Locks
<1>22. Slots'
    <2> SUFFICES ASSUME NEW j \in Instances
                 PROVE  /\ slots'[j] = IF Slot(j)' THEN 1 ELSE 0
                        /\ proc'[j] = "stopped" => slots'[j] = 0
        BY DEF Slots
    <2>1. CASE j = i
        <3>1. Slot(j)
            BY <1>0, <2>1 DEF Slot
        <3>2. Slot(j)'
            BY <1>6, <1>13, <2>1 DEF Slot
        <3>3. /\ slots[j] = IF Slot(j) THEN 1 ELSE 0
              /\ proc[j] = "stopped" => slots[j] = 0
            BY DEF KInv, Slots
        <3>4. slots' = slots /\ proc' = proc
            BY <1>0
        <3> QED  BY <3>1, <3>2, <3>3, <3>4, Zenon
    <2>2. CASE j # i
        <3>1. \A p \in Requests : reqs'[p].inst = j /\ reqs'[p].pc \in {"begin", "register"}
                                  <=> reqs[p].inst = j /\ reqs[p].pc \in {"begin", "register"}
            BY <1>13, <2>2
        <3>2. Slot(j)' <=> Slot(j)
            BY <1>6, <2>2, <3>1 DEF Slot
        <3>3. /\ slots[j] = IF Slot(j) THEN 1 ELSE 0
              /\ proc[j] = "stopped" => slots[j] = 0
            BY DEF KInv, Slots
        <3>4. slots' = slots /\ proc' = proc
            BY <1>0
        <3>5. CASE Slot(j)
            BY <3>2, <3>3, <3>4, <3>5, Zenon
        <3>6. CASE ~Slot(j)
            BY <3>2, <3>3, <3>4, <3>6, Zenon
        <3> QED  BY <3>5, <3>6
    <2> QED  BY <2>1, <2>2
<1>23. TypeOK'
    BY <1>0, <1>6, <1>10, <1>13 DEF KInv, TypeOK
<1> QED  BY <1>18, <1>19, <1>20, <1>21, <1>22, <1>23 DEF KInv

-----------------------------------------------------------------------------
(* Every state *)

LEMMA InitKInv == ASSUME Init PROVE KInv
<1>0. used = 0 /\ life = 0 /\ row = NoRow /\ row.run = 0 /\ row.state = "" /\ faults = 0
    BY RowColumns DEF Init
<1>1. \A r \in Runs : runs[r] = NoRun
    BY DEF Init
<1> DEFINE n == row.run
<1>14. used = 0 /\ life = 0 /\ faults = 0
    BY <1>0
<1>15. n = 0
    BY <1>0
<1> HIDE DEF n
<1>2. \A r \in Runs : r > used /\ r # 0
    BY <1>14, RunIds
<1>3. NoRequest \in Request /\ NoRequest.pc = "idle" /\ NoRequest.inst = None /\ NoRequest.call = None
    BY DEF NoRequest, Request
<1>4. \A q \in Requests : reqs[q] = NoRequest
    BY DEF Init
<1>5. TypeOK
    <2>1. runs \in [Runs -> Run] /\ reqs \in [Requests -> Request]
        BY <1>3, RunColumns DEF Init
    <2>2. used \in 0 .. MaxRuns /\ life \in 0 .. MaxLife /\ faults \in 0 .. MaxFaults
        BY <1>14, Constants
    <2> QED  BY <2>1, <2>2 DEF TypeOK, Init
<1>6. RunsOk
    <2> SUFFICES ASSUME NEW r \in Runs PROVE RunOk(r)
        BY DEF RunsOk
    <2>1. /\ runs[r].phase = "unused" /\ runs[r].inst = None /\ runs[r].ran = "no" /\ runs[r].guest = "idle"
        BY <1>1, RunColumns
    <2> QED  BY <1>2, <2>1 DEF RunOk
<1>7. RowOk
    <2>1. n <= used
        BY <1>14, <1>15
    <2> QED  BY <1>0, <2>1 DEF RowOk, n
<1>8. \A r \in Runs : runs[r].phase = "unused" /\ runs[r].life = 0 /\ runs[r].inst = None
    BY <1>1, RunColumns
<1>9. Lives
    <2>1. \A r \in Runs : runs[r].life <= life
        <3> TAKE r \in Runs
        <3> DEFINE m == runs[r].life
        <3>1. m = 0
            BY <1>8
        <3> HIDE DEF m
        <3>2. m <= life
            BY <1>14, <3>1
        <3> QED  BY <3>2 DEF m
    <2> QED  BY <1>0, <1>8, <2>1 DEF Lives
<1>10. ToldOk
    BY <1>3, <1>4 DEF ToldOk, Init
<1>11. SaysOk
    BY <1>0, <1>2, <1>3, <1>4, <1>8 DEF SaysOk, Says, Running, Init
<1>12. Locks
    <2>1. \A q \in Requests, i \in Instances : lock[i] # q /\ reqs[q].inst # i
        BY <1>3, <1>4, Constants DEF Init
    <2>2. \A q \in Requests : reqs[q].pc = "idle"
        BY <1>3, <1>4
    <2>3. \A r \in Runs, i \in Instances : kc[i] # r /\ runs[r].inst # i
        BY <1>2, <1>8, Constants DEF Init
    <2> QED  BY <2>1, <2>2, <2>3, <1>8 DEF Locks, LockPcs, Init
<1>13. Slots
    <2> SUFFICES ASSUME NEW i \in Instances
                 PROVE  slots[i] = (IF Slot(i) THEN 1 ELSE 0) /\ (proc[i] = "stopped" => slots[i] = 0)
        BY DEF Slots
    <2>1. slots[i] = 0 /\ ~Slot(i)
        BY <1>3, <1>4 DEF Slot, Init
    <2> QED  BY <2>1
<1> QED  BY <1>5, <1>6, <1>7, <1>9, <1>10, <1>11, <1>12, <1>13 DEF KInv

LEMMA StepKInv == ASSUME KInv, [Next]_vars PROVE KInv'
<1>1. ASSUME NEW q \in Requests, NEW d \in Doors[q], Join(q, d[1], d[2]) PROVE KInv'
    BY <1>1, JoinKeeps
<1>2. ASSUME NEW q \in Requests, RequestSteps(q) PROVE KInv'
    BY <1>2, BeginKeeps, BeginFailsKeeps, AbandonKeeps, RegisterKeeps, RefusedKeeps, ExistingKeeps,
       WaitLocalKeeps, WaitRowKeeps, JoinAgainKeeps, WaiterExpiresKeeps, LeaveKeeps DEF RequestSteps
<1>3. ASSUME NEW r \in Runs, RunSteps(r) PROVE KInv'
    BY <1>3, AcquireKeeps, GateKeeps, GateFailsKeeps, SendKeeps, GuestRunsKeeps, AwaitKeeps, FinishKeeps,
       FinishFailsKeeps, StoredKeeps, StoredFailsKeeps DEF RunSteps
<1>4. ASSUME NEW i \in Instances, InstanceSteps(i) PROVE KInv'
    <2>1. CASE Crash(i)
        BY <2>1, DiesKeeps, FaultCounts DEF Crash
    <2>2. CASE Exit(i)
        BY <2>2, DiesKeeps, OthersTyped DEF Exit
    <2> QED  BY <1>4, <2>1, <2>2, RenewKeeps, CancelLocalKeeps, BeginDrainKeeps, DrainedKeeps, CutKeeps,
                ClaimKeeps DEF InstanceSteps
<1>5. ASSUME NEW w \in late, LateInsert(w) PROVE KInv'
    BY <1>5, LateInsertKeeps
<1>6. CASE CancelNotify \/ LeaseOut \/ RenewalsFail \/ LeaderExpires \/ Retention
    BY <1>6, CancelNotifyKeeps, LeaseOutKeeps, RenewalsFailKeeps, LeaderExpiresKeeps, RetentionKeeps
<1>7. CASE UNCHANGED vars
    BY SMTT(30), <1>7 DEF vars, KInv, TypeOK, RunsOk, RunOk, RowOk, Lives, ToldOk, SaysOk, Says, Dead, Running, Locks,
                Slots, Slot
<1> QED  BY <1>1, <1>2, <1>3, <1>4, <1>5, <1>6, <1>7 DEF Next

LEMMA KInvAlways == Spec => []KInv
<1>1. Init => KInv
    BY InitKInv
<1>2. KInv /\ [Next]_vars => KInv'
    BY StepKInv
<1> QED  BY <1>1, <1>2, PTL DEF Spec

-----------------------------------------------------------------------------
(* The properties *)

\* Whoever says that a run did not run (the row, or an answer), the guest did not
\* have, does not have and will not get its call: ADR 0023's not_run.
THEOREM NotRunSafe == Spec => []NotRunExact
<1>1. KInv => NotRunExact
    <2> SUFFICES ASSUME KInv, NEW r \in Runs,
                        (row.run = r /\ row.state = "not_run") \/ <<r, "not_run">> \in told
                 PROVE  runs[r].ran = "no" /\ runs[r].guest = "idle"
        BY DEF NotRunExact
    <2>1. CASE row.run = r /\ row.state = "not_run"
        <3>1. row # NoRow
            BY <2>1, RowColumns
        <3> QED  BY <2>1, <3>1 DEF KInv, RowOk, Dead
    <2>2. CASE <<r, "not_run">> \in told
        <3>1. Dead(r)
            BY <2>2 DEF KInv, ToldOk, Ends
        <3> QED  BY <3>1 DEF Dead
    <2> QED  BY <2>1, <2>2
<1> QED  BY <1>1, KInvAlways, PTL

\* A key reaches the guest in one run: of two runs in the guest one began after
\* the retention had deleted the other's record.
THEOREM OneRunSafe == Spec => []OneRunReaches
<1>1. KInv => OneRunReaches
    <2> SUFFICES ASSUME KInv, NEW r \in Runs, NEW s \in Runs, r # s, runs[r].ran = "yes", runs[s].ran = "yes",
                        runs[r].life = runs[s].life
                 PROVE  FALSE
        BY DEF OneRunReaches
    <2>1. RunOk(r) /\ RunOk(s)
        BY DEF KInv, RunsOk
    <2>2. runs[r].phase # "unused" /\ runs[s].phase # "unused"
        BY <2>1 DEF RunOk
    <2>3. Dead(r) \/ Dead(s)
        BY <2>2 DEF KInv, Lives
    <2> QED  BY <2>3 DEF Dead
<1> QED  BY <1>1, KInvAlways, PTL

\* No two requests hear of one run that it is done and that it did not run,
\* unless the run's own final write failed for good.
THEOREM AnswersSafe == Spec => []AnswersAgree
<1>1. KInv => AnswersAgree
    <2> SUFFICES ASSUME KInv, NEW r \in Runs, <<r, "done">> \in told, <<r, "not_run">> \in told, r \notin gaveUp
                 PROVE  FALSE
        BY DEF AnswersAgree
    <2>1. Says(r, "done") /\ Says(r, "not_run")
        BY DEF Says
    <2> QED  BY <2>1 DEF KInv, SaysOk
<1> QED  BY <1>1, KInvAlways, PTL

\* When Drain's wait ends the instance has no registered call, no call of it runs,
\* and no request of it has an insert under way or a run to register.
THEOREM DrainSafe == Spec => []DrainWaits
<1>1. KInv => DrainWaits
    <2> SUFFICES ASSUME KInv, NEW i \in Instances, proc[i] = "stopped"
                 PROVE  /\ kc[i] = 0
                        /\ \A r \in Runs : runs[r].inst = i => runs[r].phase \in {"settled", "lost"}
                        /\ \A q \in Requests : reqs[q].inst = i => reqs[q].pc \notin {"begin", "register"}
        BY DEF DrainWaits
    <2>1. slots[i] = 0 /\ slots[i] = IF Slot(i) THEN 1 ELSE 0
        BY DEF KInv, Slots
    <2>2. ~Slot(i)
        BY <2>1
    <2>3. kc[i] = 0 /\ \A q \in Requests : reqs[q].inst = i => reqs[q].pc \notin {"begin", "register"}
        BY <2>2 DEF Slot
    <2>4. ASSUME NEW r \in Runs, runs[r].inst = i PROVE runs[r].phase \in {"settled", "lost"}
        <3>1. runs[r].phase \in Phases
            BY RunColumns DEF KInv, TypeOK
        <3>2. runs[r].phase # "unused"
            <4>1. RunOk(r)
                BY DEF KInv, RunsOk
            <4> QED  BY <2>4, <4>1, Constants DEF RunOk
        <3>3. runs[r].phase \notin Going
            BY <2>3, <2>4, RunIds DEF KInv, Locks
        <3>4. runs[r].phase # "row"
            BY <2>3, <2>4 DEF KInv, Locks
        <3> QED  BY <3>1, <3>2, <3>3, <3>4 DEF Phases, Going
    <2> QED  BY <2>3, <2>4
<1> QED  BY <1>1, KInvAlways, PTL

\* The row of a run is ended once: no statement changes a verdict, and the row that
\* replaces it has another run's id.
THEOREM VerdictSafe == Spec => VerdictStands
<1> DEFINE Stands == row.state \in Ends /\ row'.run = row.run => row'.state = row.state
<1>1. ASSUME KInv, [Next]_vars PROVE Stands
    <2> SUFFICES ASSUME row.state \in Ends, row' # row PROVE row'.run # row.run \/ row'.state = row.state
        OBVIOUS
    <2>1. row \in Row /\ row.run \in Runs /\ row.state # "running"
        BY <1>1, TheRow, RowColumns DEF KInv, Ends
    <2>2. row.run <= used /\ used \in Nat
        BY <1>1, UsedNat
    <2>3. ASSUME NEW i, NEW c, NEW phase, Insert(i, c, phase) PROVE row'.run # row.run
        <3> DEFINE n == row.run
        <3>1. row'.run = used + 1
            BY <2>3 DEF Insert
        <3>2. n \in Runs /\ n <= used
            BY <2>1, <2>2
        <3> HIDE DEF n
        <3>3. used + 1 # n
            BY <2>2, <3>2, RunIds
        <3> QED  BY <3>1, <3>3 DEF n
    <2>4. ASSUME NEW x, row' = [row EXCEPT !.sent = x] PROVE row'.state = row.state
        BY <2>1, <2>4 DEF Row
    <2>5. ASSUME NEW x, row' = [row EXCEPT !.lease = x] PROVE row'.state = row.state
        BY <2>1, <2>5 DEF Row
    <2>6. ASSUME NEW q \in Requests, RequestSteps(q) PROVE row'.run # row.run \/ row'.state = row.state
        <3>1. CASE Begin(q) \/ BeginFails(q)
            BY <2>3, <3>1 DEF Begin, BeginFails
        <3> QED  BY <2>1, <2>6, <3>1 DEF RequestSteps, Abandon, Register, Refused, Existing, WaitLocal, WaitRow,
                                      JoinAgain, JoinWith, WaiterExpires, Running, Leave
    <2>7. ASSUME NEW r \in Runs, RunSteps(r) PROVE row'.run # row.run \/ row'.state = row.state
        BY <2>1, <2>4, <2>7 DEF RunSteps, Acquire, Gate, GateFails, Send, GuestRuns, Await, Finish, FinishFails,
                           Stored, StoredFails, Running
    <2>8. ASSUME NEW i \in Instances, InstanceSteps(i) PROVE row'.run # row.run \/ row'.state = row.state
        BY <2>1, <2>5, <2>8 DEF InstanceSteps, Renew, CancelLocal, BeginDrain, Drained, Cut, Crash, Exit, Dies,
                           Claim
    <2>9. ASSUME NEW w \in late, LateInsert(w) PROVE row'.run # row.run \/ row'.state = row.state
        BY <2>3, <2>9 DEF LateInsert
    <2>10. CASE Retention
        BY <2>1, <2>10, RowColumns, RunIds DEF Retention
    <2>11. CASE CancelNotify \/ LeaseOut \/ RenewalsFail \/ LeaderExpires
        BY <2>1, <2>11 DEF CancelNotify, LeaseOut, RenewalsFail, LeaderExpires
    <2>12. CASE UNCHANGED vars
        BY <2>12 DEF vars
    <2> QED  BY <1>1, <2>6, <2>7, <2>8, <2>9, <2>10, <2>11, <2>12 DEF Next, Join, JoinWith
<1> QED  BY <1>1, KInvAlways, PTL DEF Spec, VerdictStands

\* When a cancellation is taken from the instance that has the running row, the
\* row's call is registered there, and ends up with a cause if it is still going:
\* cancelLocal waits for the lock that the request holds from insert to registration.
THEOREM CancelSafe == Spec => CancelMeetsCall
<1> DEFINE Meets(i, r) ==
        Running(r) /\ runs[r].inst = i => runs[r].phase # "row" /\ (Active(r) => runs'[r].cause # "")
    Meet == \A i \in Instances : i \in notes /\ i \notin notes' /\ Serves(i) => \A r \in Runs : Meets(i, r)
<1>1. ASSUME KInv, [Next]_vars PROVE Meet
    <2> SUFFICES ASSUME NEW i \in Instances, i \in notes, i \notin notes', Serves(i), NEW r \in Runs,
                        Running(r), runs[r].inst = i
                 PROVE  runs[r].phase # "row" /\ (Active(r) => runs'[r].cause # "")
        OBVIOUS
    <2>1. ASSUME NEW q \in Requests, RequestSteps(q) PROVE FALSE
        BY <2>1 DEF RequestSteps, Begin, BeginFails, Abandon, Register, Refused, Existing, WaitLocal, WaitRow,
                    JoinAgain, JoinWith, WaiterExpires, Leave
    <2>2. ASSUME NEW s \in Runs, RunSteps(s) PROVE FALSE
        BY <2>2 DEF RunSteps, Acquire, Gate, GateFails, Send, GuestRuns, Await, Finish, FinishFails, Stored,
                    StoredFails, RunOnly
    <2>3. ASSUME NEW j \in Instances, InstanceSteps(j) PROVE CancelLocal(i)
        <3>1. CASE CancelLocal(j)
            <4>1. i = j
                BY <3>1 DEF CancelLocal
            <4> QED  BY <3>1, <4>1
        <3> QED  BY <2>3, <3>1 DEF InstanceSteps, Renew, RunOnly, BeginDrain, Drained, Cut, Crash, Exit, Dies, Claim
    <2>4. CancelLocal(i)
        <3>1. ASSUME NEW w \in late, LateInsert(w) PROVE FALSE
            BY <3>1 DEF LateInsert
        <3>2. CASE CancelNotify \/ LeaseOut \/ RenewalsFail \/ LeaderExpires \/ Retention \/ UNCHANGED vars
            BY <3>2 DEF CancelNotify, LeaseOut, RenewalsFail, LeaderExpires, Retention, vars
        <3> QED  BY <1>1, <2>1, <2>2, <2>3, <3>1, <3>2 DEF Next, Join, JoinWith
    <2>5. lock[i] = None
        BY <2>4 DEF CancelLocal
    <2>6. runs[r].phase # "row"
        <3> SUFFICES ASSUME runs[r].phase = "row" PROVE FALSE
            OBVIOUS
        <3>1. PICK q \in Requests : reqs[q].pc = "register" /\ reqs[q].inst = i
            BY <1>1 DEF KInv, Locks
        <3>2. lock[i] = q
            BY <1>1, <3>1 DEF KInv, Locks, LockPcs
        <3> QED  BY <2>5, <3>2, Constants
    <2>7. ASSUME Active(r) PROVE runs'[r].cause # ""
        <3>1. kc[i] = r /\ r # 0
            BY <1>1, <2>7, RunIds DEF Active, KInv, Locks, Going
        <3>2. CASE runs[r].cause = ""
            <4>1. runs' = [runs EXCEPT ![r].cause = "cancel"]
                BY <2>4, <2>7, <3>1, <3>2 DEF CancelLocal
            <4>2. runs \in [Runs -> Run] /\ runs[r] \in Run
                BY <1>1 DEF KInv, TypeOK
            <4>3. runs'[r].cause = "cancel"
                BY <4>1, <4>2 DEF Run
            <4> QED  BY <4>3
        <3>3. CASE runs[r].cause # ""
            BY <2>4, <3>1, <3>3 DEF CancelLocal
        <3> QED  BY <3>2, <3>3
    <2> QED  BY <2>6, <2>7
<1> QED  BY <1>1, KInvAlways, PTL DEF Spec, CancelMeetsCall

=============================================================================
