----------------------------- MODULE KeyedCalls -----------------------------
(***************************************************************************)
(* Tool calls with an id (go/internal/tools/keyed*.go, store/tool_calls.go):*)
(* one key of one sandbox.  A call with a key is a row, and runs on the     *)
(* instance that inserted it, detached from its request; requests attach to *)
(* it in memory or through the row; whoever finds that nobody renews it     *)
(* ends it.  The row commits sent before the call leaves for the guest, so  *)
(* that its verdict is exact.                                               *)
(***************************************************************************)
EXTENDS Integers, FiniteSets

CONSTANTS
    Instances,  \* replicas of ferund
    Requests,   \* requests with the key, each made once
    Calls,      \* what a request may ask for: tool and argument hash
    Doors,      \* the instances a request may come to, and for which call
    MaxRuns,    \* runs of the key (rows inserted or replaced)
    MaxLife,    \* deletions of the key's row by the retention
    MaxFaults,  \* crashes, stops, cancellations, lost answers, missed renewals,
                \* and rows deleted by the retention
    None

ASSUME CallConstants ==
    /\ None \notin Instances \cup Requests \cup Calls
    /\ Doors \in [Requests -> SUBSET (Instances \X Calls)]
    /\ MaxRuns \in Nat \ {0} /\ MaxLife \in Nat /\ MaxFaults \in Nat

VARIABLES
    row,     \* the key's row of tool_calls
    used,    \* run ids given out
    life,    \* how often the retention has deleted the key's row
    runs,    \* the runs, by id: keyedCall with the state of its callRun
    reqs,    \* the requests: where each is in join
    kc,      \* keyedState.calls: the run registered on an instance, or 0
    lock,    \* keyedState.locks: the request that holds the key's lock
    slots,   \* keyedState.perSandbox, and the count of wg
    proc,    \* an instance: up, draining, cut, stopped or down
    late,    \* inserts whose client gave up, still to be executed
    notes,   \* ferun_cancel notifications on their way, by instance
    told,    \* history: the verdicts given to requests, <<run, state>>
    gaveUp,  \* history: the runs whose final write failed for good
    faults

vars == <<row, used, life, runs, reqs, kc, lock, slots, proc, late, notes, told, gaveUp, faults>>

-----------------------------------------------------------------------------
(* State *)

Runs == 1 .. MaxRuns
YesNo == {"yes", "no"}
Ends == {"done", "interrupted", "not_run"}

Row ==
    [run : Runs, call : Calls, inst : Instances, state : Ends \cup {"running"}, sent : YesNo,
     lease : {"held", "out"}]
NoRow ==
    [run |-> 0, call |-> None, inst |-> None, state |-> "", sent |-> "no", lease |-> "out"]

\* The goroutine of a run: it acquires the sandbox, passes the gate, sends,
\* awaits the answer, finishes its row, reads it back if it was ended already,
\* and is settled.  "row": inserted and not registered.  "lost": inserted
\* without its request learning it, or its process is gone.
Phases ==
    {"unused", "row", "lost", "acquire", "gate", "send", "await", "finish", "stored", "settled"}

Run ==
    [phase : Phases, inst : Instances \cup {None}, call : Calls \cup {None}, life : 0 .. MaxLife,
     sent : YesNo, before : YesNo, recorded : YesNo, attempt : {0, 1},
     cause : {"", "cancel", "stop", "lost"}, out : Ends \cup {""},
     guest : {"idle", "wire", "ran"}, ran : YesNo]

NoRun ==
    [phase |-> "unused", inst |-> None, call |-> None, life |-> 0,
     sent |-> "no", before |-> "no", recorded |-> "no", attempt |-> 0,
     cause |-> "", out |-> "", guest |-> "idle", ran |-> "no"]

Request ==
    [pc : {"idle", "refused", "begin", "register", "abandon", "existing", "local", "row", "end"},
     inst : Instances \cup {None}, call : Calls \cup {None}, run : Runs \cup {0},
     row : Row \cup {NoRow}, joins : 0 .. 3]

NoRequest ==
    [pc |-> "idle", inst |-> None, call |-> None, run |-> 0, row |-> NoRow, joins |-> 0]

Answered == [NoRequest EXCEPT !.pc = "end"]

maxAttempts == 3

Fault ==
    /\ faults < MaxFaults
    /\ faults' = faults + 1

Active(r) == runs[r].phase \in {"acquire", "gate", "send", "await"}

Serves(i) == proc[i] \in {"up", "draining", "cut"}

-----------------------------------------------------------------------------
(* Statements on the row *)

\* Mutant: a run whose end nobody recorded is replaced too.
Replaceable_Interrupted(c) == row = NoRow \/ (row.state \in {"not_run", "interrupted"} /\ row.call = c)

\* The key has no row, or one that did not run of the same call.
Replaceable(c) == row = NoRow \/ (row.state = "not_run" /\ row.call = c)

\* BeginToolCall's insert, or its replacement of a row that did not run.
Insert(i, c, phase) ==
    /\ Replaceable(c) /\ used < MaxRuns
    /\ used' = used + 1
    /\ row' = [run |-> used + 1, call |-> c, inst |-> i, state |-> "running", sent |-> "no",
               lease |-> "held"]
    /\ runs' = [runs EXCEPT ![used + 1] =
                    [NoRun EXCEPT !.phase = phase, !.inst = i, !.call = c, !.life = life]]

Running(r) == row.run = r /\ row.state = "running"

\* endCallSet: the verdict on a run that somebody else ends.
Verdict == IF row.sent = "yes" THEN "interrupted" ELSE "not_run"

EndRow(state) == row' = [row EXCEPT !.state = state]

-----------------------------------------------------------------------------
(* A request: callKeyed, join *)

Goto(q, pc) == reqs' = [reqs EXCEPT ![q].pc = pc]

\* The request has its answer, which is the verdict state of run r.
Answer(q, r, state) ==
    /\ reqs' = [reqs EXCEPT ![q] = Answered]
    /\ told' = told \cup {<<r, state>>}

\* It has an answer that is no verdict: a conflict, a refusal, still running.
Dismiss(q) ==
    /\ reqs' = [reqs EXCEPT ![q] = Answered]
    /\ UNCHANGED told

Unlock(i) == lock' = [lock EXCEPT ![i] = None]

\* join, from its lock to reserve: the request attaches to the run registered
\* here, or has a slot, or is refused one (the instance drains, or other keys
\* fill the cap).
JoinWith(q, i, c, joins) ==
    /\ Serves(i) /\ lock[i] = None
    /\ \/ /\ kc[i] # 0 /\ runs[kc[i]].call # c
          /\ reqs' = [reqs EXCEPT ![q] = Answered]
          /\ UNCHANGED <<lock, slots>>
       \/ /\ kc[i] # 0 /\ runs[kc[i]].call = c
          /\ reqs' = [reqs EXCEPT ![q] = [NoRequest EXCEPT !.pc = "local", !.inst = i, !.call = c,
                                              !.run = kc[i], !.joins = joins]]
          /\ UNCHANGED <<lock, slots>>
       \/ /\ kc[i] = 0 /\ proc[i] = "up"
          /\ slots' = [slots EXCEPT ![i] = @ + 1]
          /\ lock' = [lock EXCEPT ![i] = q]
          /\ reqs' = [reqs EXCEPT ![q] = [NoRequest EXCEPT !.pc = "begin", !.inst = i, !.call = c,
                                              !.joins = joins]]
       \/ /\ kc[i] = 0
          /\ lock' = [lock EXCEPT ![i] = q]
          /\ reqs' = [reqs EXCEPT ![q] = [NoRequest EXCEPT !.pc = "refused", !.inst = i, !.call = c,
                                              !.joins = joins]]
          /\ UNCHANGED slots
    /\ UNCHANGED <<row, used, life, runs, kc, proc, late, notes, told, gaveUp, faults>>

Join(q, i, c) ==
    /\ reqs[q].pc = "idle"
    /\ JoinWith(q, i, c, 1)

\* The slot is given back: unreserve.
Unreserve(i) == slots' = [slots EXCEPT ![i] = @ - 1]

\* begin's answer: the row is this request's, or the key has another one.
Begin(q) ==
    LET i == reqs[q].inst
        c == reqs[q].call
    IN  /\ reqs[q].pc = "begin"
        /\ \/ /\ Insert(i, c, "row")
              /\ reqs' = [reqs EXCEPT ![q].pc = "register", ![q].run = used + 1]
              /\ UNCHANGED slots
           \/ /\ ~Replaceable(c)
              /\ Unreserve(i)
              /\ reqs' = [reqs EXCEPT ![q].pc = "existing", ![q].row = row]
              /\ UNCHANGED <<row, used, runs>>
        /\ UNCHANGED <<life, kc, lock, proc, late, notes, told, gaveUp, faults>>

\* begin failed: it committed without its answer, or is still to be executed,
\* or never will be.
BeginFails(q) ==
    LET i == reqs[q].inst
        c == reqs[q].call
    IN  /\ reqs[q].pc = "begin" /\ Fault
        /\ \/ Insert(i, c, "lost") /\ UNCHANGED late
           \/ late' = late \cup {[inst |-> i, call |-> c]} /\ UNCHANGED <<row, used, runs>>
           \/ UNCHANGED <<row, used, runs, late>>
        /\ Unreserve(i)
        /\ Goto(q, "abandon")
        /\ UNCHANGED <<life, kc, lock, proc, notes, told, gaveUp>>

\* The database executes an insert nobody waits for any more.
LateInsert(w) ==
    /\ \/ Insert(w.inst, w.call, "lost")
       \/ ~Replaceable(w.call) /\ UNCHANGED <<row, used, runs>>
    /\ late' = late \ {w}
    /\ UNCHANGED <<life, reqs, kc, lock, slots, proc, notes, told, gaveUp, faults>>

\* AbandonToolCall, best effort: this instance's running row of the key that was
\* not sent did not run.
Abandon(q) ==
    LET i == reqs[q].inst
    IN  /\ reqs[q].pc = "abandon"
        /\ \/ row.state = "running" /\ row.inst = i /\ row.sent = "no" /\ EndRow("not_run")
           \/ UNCHANGED row
        /\ Unlock(i) /\ Dismiss(q)
        /\ UNCHANGED <<used, life, runs, kc, slots, proc, late, notes, gaveUp, faults>>

\* startKeyed: the call is registered and starts; its context is already cut
\* if bg has ended.
Register(q) ==
    LET i == reqs[q].inst
        r == reqs[q].run
    IN  /\ reqs[q].pc = "register"
        /\ kc' = [kc EXCEPT ![i] = r]
        /\ runs' = [runs EXCEPT ![r].phase = "acquire",
                                ![r].cause = IF proc[i] = "cut" THEN "stop" ELSE ""]
        /\ Unlock(i) /\ Goto(q, "local")
        /\ UNCHANGED <<row, used, life, slots, proc, late, notes, told, gaveUp, faults>>

\* refused: nothing is written; a row of the key that ran or runs answers.
Refused(q) ==
    /\ reqs[q].pc = "refused"
    /\ \/ /\ row.state \in {"", "not_run"}
          /\ Dismiss(q) /\ Unlock(reqs[q].inst)
       \/ /\ row.state \notin {"", "not_run"}
          /\ reqs' = [reqs EXCEPT ![q].pc = "existing", ![q].row = row]
          /\ UNCHANGED <<lock, told>>
    /\ UNCHANGED <<row, used, life, runs, kc, slots, proc, late, notes, gaveUp, faults>>

\* existing: a conflict, the answer of an ended row, or the wait for a running
\* one.
Existing(q) ==
    LET seen == reqs[q].row
    IN  /\ reqs[q].pc = "existing"
        /\ \/ seen.call # reqs[q].call /\ Dismiss(q)
           \/ /\ seen.call = reqs[q].call /\ seen.state # "running"
              /\ Answer(q, seen.run, seen.state)
           \/ /\ seen.call = reqs[q].call /\ seen.state = "running"
              /\ reqs' = [reqs EXCEPT ![q].pc = "row", ![q].run = seen.run, ![q].row = NoRow]
              /\ UNCHANGED told
        /\ Unlock(reqs[q].inst)
        /\ UNCHANGED <<row, used, life, runs, kc, slots, proc, late, notes, gaveUp, faults>>

\* waitLocal: the outcome that settle handed out.
WaitLocal(q) ==
    /\ reqs[q].pc = "local" /\ runs[reqs[q].run].phase = "settled"
    /\ Answer(q, reqs[q].run, runs[reqs[q].run].out)
    /\ UNCHANGED <<row, used, life, runs, kc, lock, slots, proc, late, notes, gaveUp, faults>>

\* Mutant: the wait ends for a row that ran only.
WaitRow_Overlooks(q) ==
    LET i == reqs[q].inst
    IN  /\ reqs[q].pc = "row"
        /\ \/ /\ row.run = reqs[q].run /\ row.state \in {"done", "interrupted"}
              /\ Answer(q, row.run, row.state)
              /\ UNCHANGED <<lock, slots>>
           \/ /\ proc[i] # "up" /\ Dismiss(q)
              /\ UNCHANGED <<lock, slots>>
           \/ /\ row.run # reqs[q].run /\ reqs[q].joins = maxAttempts
              /\ Dismiss(q)
              /\ UNCHANGED <<lock, slots>>
        /\ UNCHANGED <<row, used, life, runs, kc, proc, late, notes, gaveUp, faults>>

\* awaitRow's look: the row ended, or is gone, and the request joins again
\* (maxAttempts), or the drain sends it away.
WaitRow(q) ==
    LET i == reqs[q].inst
    IN  /\ reqs[q].pc = "row"
        /\ \/ /\ row.run = reqs[q].run /\ row.state # "running"
              /\ Answer(q, row.run, row.state)
              /\ UNCHANGED <<lock, slots>>
           \/ /\ proc[i] # "up" /\ Dismiss(q)
              /\ UNCHANGED <<lock, slots>>
           \/ /\ row.run # reqs[q].run /\ reqs[q].joins = maxAttempts
              /\ Dismiss(q)
              /\ UNCHANGED <<lock, slots>>
        /\ UNCHANGED <<row, used, life, runs, kc, proc, late, notes, gaveUp, faults>>

JoinAgain(q) ==
    /\ reqs[q].pc = "row" /\ row.run # reqs[q].run /\ reqs[q].joins < maxAttempts
    /\ JoinWith(q, reqs[q].inst, reqs[q].call, reqs[q].joins + 1)

\* ExpireToolCall: a request that waits ends the row nobody renews.
WaiterExpires(q) ==
    /\ reqs[q].pc = "row" /\ Running(reqs[q].run) /\ row.lease = "out"
    /\ EndRow(Verdict)
    /\ UNCHANGED <<used, life, runs, reqs, kc, lock, slots, proc, late, notes, told, gaveUp, faults>>

\* The request ends: the call runs on.
Leave(q) ==
    /\ reqs[q].pc \in {"local", "row"}
    /\ Dismiss(q)
    /\ UNCHANGED <<row, used, life, runs, kc, lock, slots, proc, late, notes, gaveUp, faults>>

-----------------------------------------------------------------------------
(* A run: runKeyed, callRun, gate, finishKeyed *)

\* classify: err is "" for a call that answered.
Classify(h, err) ==
    IF err = "" \/ h.cause = "cancel" THEN "done"
    ELSE IF h.cause \in {"stop", "lost"} \/ err = "lost"
         THEN IF h.sent = "yes" THEN "interrupted" ELSE "not_run"
         ELSE IF h.sent = "yes" THEN "done" ELSE "not_run"

\* callRun returns with h as the call left it; the rest of h is not read again.
Return(r, h, err) ==
    runs' = [runs EXCEPT ![r] =
                [NoRun EXCEPT !.phase = "finish", !.out = Classify(h, err), !.inst = h.inst, !.call = h.call,
                              !.life = h.life, !.guest = h.guest, !.ran = h.ran]]

RunOnly == UNCHANGED <<used, life, reqs, kc, lock, slots, proc, late, notes, told, gaveUp>>

\* Acquire, or reacquire and WaitRunning before the second attempt.
Acquire(r) ==
    /\ runs[r].phase = "acquire"
    /\ \/ runs' = [runs EXCEPT ![r].phase = "gate"]
       \/ Return(r, runs[r], "error")
    /\ RunOnly /\ UNCHANGED <<row, faults>>

\* Mutant: sent is not committed before the send.
Gate_Unmarked(r) ==
    LET h == runs[r]
        sending == [h EXCEPT !.phase = "send", !.before = h.sent, !.sent = "yes", !.recorded = "yes"]
    IN  /\ h.phase = "gate"
        /\ \/ proc[h.inst] # "up" /\ Return(r, h, "error") /\ UNCHANGED row
           \/ runs' = [runs EXCEPT ![r] = sending] /\ UNCHANGED row
        /\ RunOnly /\ UNCHANGED faults

\* gate: an instance that stops sends only what ends before its grace; the
\* first send commits sent first, if the row is still the run's.  Then o.send
\* marks the call sent.
Gate(r) ==
    LET h == runs[r]
        sending == [h EXCEPT !.phase = "send", !.before = h.sent, !.sent = "yes", !.recorded = "yes"]
    IN  /\ h.phase = "gate"
        /\ \/ proc[h.inst] # "up" /\ Return(r, h, "error") /\ UNCHANGED row
           \/ /\ h.recorded = "yes"
              /\ runs' = [runs EXCEPT ![r] = sending]
              /\ UNCHANGED row
           \/ /\ h.recorded = "no" /\ h.cause = "" /\ Running(r)
              /\ row' = [row EXCEPT !.sent = "yes"]
              /\ runs' = [runs EXCEPT ![r] = sending]
           \/ /\ h.recorded = "no" /\ h.cause = "" /\ ~Running(r)
              /\ Return(r, h, "lost") /\ UNCHANGED row
           \/ /\ h.recorded = "no" /\ h.cause # ""
              /\ Return(r, h, "error") /\ UNCHANGED row
        /\ RunOnly /\ UNCHANGED faults

\* MarkToolCallSent's answer is lost: the call is not sent.
GateFails(r) ==
    LET h == runs[r]
    IN  /\ h.phase = "gate" /\ h.recorded = "no" /\ Fault
        /\ \/ Running(r) /\ row' = [row EXCEPT !.sent = "yes"]
           \/ UNCHANGED row
        /\ Return(r, h, "error")
        /\ RunOnly

\* The request leaves for the node, or the nodes' port refuses it locally.
Send(r) ==
    LET h == runs[r]
    IN  /\ h.phase = "send"
        /\ \/ runs' = [runs EXCEPT ![r] = [h EXCEPT !.phase = "await", !.guest = "wire"]]
           \/ Return(r, [h EXCEPT !.sent = h.before], "error")
        /\ RunOnly /\ UNCHANGED <<row, faults>>

\* The guest gets the call, though its caller may have left.
GuestRuns(r) ==
    /\ runs[r].guest = "wire"
    /\ runs' = [runs EXCEPT ![r].guest = "ran", ![r].ran = "yes"]
    /\ RunOnly /\ UNCHANGED <<row, faults>>

\* What the node answers.  feosd's refusal says that the call did not reach
\* the guest; an unreachable guest may have had it.  Either is followed by one
\* more attempt, unless the call was cancelled or output had arrived.
Await(r) ==
    LET h == runs[r]
        refused == [h EXCEPT !.sent = h.before, !.guest = "idle"]
        again(g) == [g EXCEPT !.phase = "acquire", !.attempt = 1, !.guest = "idle"]
    IN  /\ h.phase = "await"
        /\ \/ h.guest = "ran" /\ Return(r, h, "")
           \/ Return(r, h, "error")
           \/ h.guest = "wire" /\ Return(r, refused, "error")
           \/ /\ h.guest = "wire" /\ h.attempt = 0 /\ h.cause = ""
              /\ runs' = [runs EXCEPT ![r] = again(refused)]
           \/ /\ h.attempt = 0 /\ h.cause = ""
              /\ runs' = [runs EXCEPT ![r] = again(h)]
        /\ RunOnly /\ UNCHANGED <<row, faults>>

\* settle: the outcome goes to the local waiters, the slot back.
Settle(r, out) ==
    /\ runs' = [runs EXCEPT ![r].phase = "settled", ![r].out = out]
    /\ kc' = [kc EXCEPT ![runs[r].inst] = IF @ = r THEN 0 ELSE @]
    /\ Unreserve(runs[r].inst)

\* Mutant: the row is written whoever ended it.
Finish_Blind(r) ==
    /\ runs[r].phase = "finish"
    /\ \/ row.run = r /\ EndRow(runs[r].out)
       \/ row.run # r /\ UNCHANGED row
    /\ Settle(r, runs[r].out)
    /\ UNCHANGED <<used, life, reqs, lock, proc, late, notes, told, gaveUp, faults>>

\* finishKeyed: FinishToolCall ends the run's row, once.
Finish(r) ==
    /\ runs[r].phase = "finish"
    /\ \/ /\ Running(r)
          /\ EndRow(runs[r].out)
          /\ Settle(r, runs[r].out)
       \/ /\ ~Running(r)
          /\ runs' = [runs EXCEPT ![r].phase = "stored"]
          /\ UNCHANGED <<row, kc, slots>>
    /\ UNCHANGED <<used, life, reqs, lock, proc, late, notes, told, gaveUp, faults>>

\* The final write commits without its answer and is tried again, or fails
\* until its deadline.
FinishFails(r) ==
    /\ runs[r].phase = "finish" /\ Fault
    /\ \/ /\ Running(r)
          /\ EndRow(runs[r].out)
          /\ UNCHANGED <<runs, kc, slots, gaveUp>>
       \/ /\ gaveUp' = gaveUp \cup {r}
          /\ Settle(r, runs[r].out)
          /\ UNCHANGED row
    /\ UNCHANGED <<used, life, reqs, lock, proc, late, notes, told>>

\* Mutant: the waiters get the run's own outcome.
Stored_Own(r) ==
    /\ runs[r].phase = "stored"
    /\ Settle(r, runs[r].out)
    /\ UNCHANGED <<row, used, life, reqs, lock, proc, late, notes, told, gaveUp, faults>>

\* storedOutcome: another writer ended the row, or it was replaced or deleted.
Stored(r) ==
    /\ runs[r].phase = "stored"
    /\ \/ row.run = r /\ Settle(r, row.state)
       \/ row.run # r /\ Settle(r, "interrupted")
    /\ UNCHANGED <<row, used, life, reqs, lock, proc, late, notes, told, gaveUp, faults>>

\* The read fails.
StoredFails(r) ==
    /\ runs[r].phase = "stored" /\ Fault
    /\ Settle(r, "interrupted")
    /\ UNCHANGED <<row, used, life, reqs, lock, proc, late, notes, told, gaveUp>>

\* renewCallsOnce: the registered run's row is renewed, or the run is lost.
Renew(i) ==
    /\ Serves(i) /\ kc[i] # 0
    /\ \/ /\ Running(kc[i])
          /\ row' = [row EXCEPT !.lease = "held"]
          /\ UNCHANGED runs
       \/ /\ ~Running(kc[i]) /\ Active(kc[i]) /\ runs[kc[i]].cause = ""
          /\ runs' = [runs EXCEPT ![kc[i]].cause = "lost"]
          /\ UNCHANGED row
    /\ RunOnly /\ UNCHANGED faults

\* CancelCall on another instance: ferun_cancel to the row's instance.
CancelNotify ==
    /\ row.state = "running" /\ Fault
    /\ notes' = notes \cup {row.inst}
    /\ UNCHANGED <<row, used, life, runs, reqs, kc, lock, slots, proc, late, told, gaveUp>>

\* Mutant: without the key's lock.
CancelLocal_Unlocked(i) ==
    /\ i \in notes
    /\ notes' = notes \ {i}
    /\ IF Serves(i) /\ kc[i] # 0 /\ Active(kc[i]) /\ runs[kc[i]].cause = ""
       THEN runs' = [runs EXCEPT ![kc[i]].cause = "cancel"]
       ELSE UNCHANGED runs
    /\ UNCHANGED <<row, used, life, reqs, kc, lock, slots, proc, late, told, gaveUp, faults>>

\* cancelLocal, under the key's lock.
CancelLocal(i) ==
    /\ i \in notes
    /\ Serves(i) => lock[i] = None
    /\ notes' = notes \ {i}
    /\ IF Serves(i) /\ kc[i] # 0 /\ Active(kc[i]) /\ runs[kc[i]].cause = ""
       THEN runs' = [runs EXCEPT ![kc[i]].cause = "cancel"]
       ELSE UNCHANGED runs
    /\ UNCHANGED <<row, used, life, reqs, kc, lock, slots, proc, late, told, gaveUp, faults>>

-----------------------------------------------------------------------------
(* Instances and the leader *)

\* The lease of a row that nobody renews runs out.
LeaseOut ==
    /\ row.state = "running" /\ row.lease = "held" /\ kc[row.inst] # row.run
    /\ row' = [row EXCEPT !.lease = "out"]
    /\ UNCHANGED <<used, life, runs, reqs, kc, lock, slots, proc, late, notes, told, gaveUp, faults>>

\* The renewals of a running call fail for a lease.
RenewalsFail ==
    /\ row.state = "running" /\ row.lease = "held" /\ kc[row.inst] = row.run /\ Fault
    /\ row' = [row EXCEPT !.lease = "out"]
    /\ UNCHANGED <<used, life, runs, reqs, kc, lock, slots, proc, late, notes, told, gaveUp>>

\* The leader's expireCalls.
LeaderExpires ==
    /\ row.state = "running" /\ row.lease = "out"
    /\ EndRow(Verdict)
    /\ UNCHANGED <<used, life, runs, reqs, kc, lock, slots, proc, late, notes, told, gaveUp, faults>>

\* The leader's deleteFinished: an hour later nobody waits for the row.
Retention ==
    /\ row.state \in Ends /\ life < MaxLife /\ Fault
    /\ \A q \in Requests : reqs[q].pc = "row" => reqs[q].run # row.run
    /\ row' = NoRow
    /\ life' = life + 1
    /\ UNCHANGED <<used, runs, reqs, kc, lock, slots, proc, late, notes, told, gaveUp>>

BeginDrain(i) ==
    /\ proc[i] = "up" /\ Fault
    /\ proc' = [proc EXCEPT ![i] = "draining"]
    /\ UNCHANGED <<row, used, life, runs, reqs, kc, lock, slots, late, notes, told, gaveUp>>

\* Mutant: the drain waits for the registered calls only.
Drained_Registered(i) ==
    /\ proc[i] \in {"draining", "cut"} /\ kc[i] = 0
    /\ proc' = [proc EXCEPT ![i] = "stopped"]
    /\ UNCHANGED <<row, used, life, runs, reqs, kc, lock, slots, late, notes, told, gaveUp, faults>>

\* Drain's wait for the reserved slots is over.
Drained(i) ==
    /\ proc[i] \in {"draining", "cut"} /\ slots[i] = 0
    /\ proc' = [proc EXCEPT ![i] = "stopped"]
    /\ UNCHANGED <<row, used, life, runs, reqs, kc, lock, slots, late, notes, told, gaveUp, faults>>

\* The grace has passed: bg is cancelled with errStopping.
Cut(i) ==
    /\ proc[i] = "draining"
    /\ proc' = [proc EXCEPT ![i] = "cut"]
    /\ runs' = [r \in Runs |->
                    IF runs[r].inst = i /\ Active(r) /\ runs[r].cause = ""
                    THEN [runs[r] EXCEPT !.cause = "stop"] ELSE runs[r]]
    /\ UNCHANGED <<row, used, life, reqs, kc, lock, slots, late, notes, told, gaveUp, faults>>

\* The process is gone, with what it had in memory.
Dies(i) ==
    /\ proc' = [proc EXCEPT ![i] = "down"]
    /\ runs' = [r \in Runs |->
                    IF runs[r].inst = i /\ runs[r].phase \notin {"settled", "lost", "unused"}
                    THEN [NoRun EXCEPT !.phase = "lost", !.inst = i, !.life = runs[r].life,
                                       !.guest = runs[r].guest, !.ran = runs[r].ran]
                    ELSE runs[r]]
    /\ reqs' = [q \in Requests |-> IF reqs[q].inst = i THEN Answered ELSE reqs[q]]
    /\ kc' = [kc EXCEPT ![i] = 0]
    /\ slots' = [slots EXCEPT ![i] = 0]
    /\ Unlock(i)
    /\ UNCHANGED <<row, used, life, late, notes, told, gaveUp>>

Crash(i) == Serves(i) /\ Fault /\ Dies(i)

\* After its stop, or once the time for the cut calls' writes is over too.
Exit(i) == proc[i] \in {"cut", "stopped"} /\ Dies(i) /\ UNCHANGED faults

\* ClaimInstance, EndInstanceToolCalls: what an earlier run of the instance had.
Claim(i) ==
    /\ proc[i] = "down"
    /\ proc' = [proc EXCEPT ![i] = "up"]
    /\ IF row.state = "running" /\ row.inst = i THEN EndRow(Verdict) ELSE UNCHANGED row
    /\ UNCHANGED <<used, life, runs, reqs, kc, lock, slots, late, notes, told, gaveUp, faults>>

-----------------------------------------------------------------------------
Init ==
    /\ row = NoRow /\ used = 0 /\ life = 0
    /\ runs = [r \in Runs |-> NoRun]
    /\ reqs = [q \in Requests |-> NoRequest]
    /\ kc = [i \in Instances |-> 0]
    /\ lock = [i \in Instances |-> None]
    /\ slots = [i \in Instances |-> 0]
    /\ proc = [i \in Instances |-> "up"]
    /\ late = {} /\ notes = {} /\ told = {} /\ gaveUp = {}
    /\ faults = 0

RequestSteps(q) ==
    \/ Begin(q) \/ BeginFails(q) \/ Abandon(q) \/ Register(q) \/ Refused(q) \/ Existing(q)
    \/ WaitLocal(q) \/ WaitRow(q) \/ JoinAgain(q) \/ WaiterExpires(q) \/ Leave(q)

RunSteps(r) ==
    \/ Acquire(r) \/ Gate(r) \/ GateFails(r) \/ Send(r) \/ GuestRuns(r) \/ Await(r)
    \/ Finish(r) \/ FinishFails(r) \/ Stored(r) \/ StoredFails(r)

InstanceSteps(i) ==
    \/ Renew(i) \/ CancelLocal(i)
    \/ BeginDrain(i) \/ Drained(i) \/ Cut(i) \/ Crash(i) \/ Exit(i) \/ Claim(i)

Next ==
    \/ \E q \in Requests : \E d \in Doors[q] : Join(q, d[1], d[2])
    \/ \E q \in Requests : RequestSteps(q)
    \/ \E r \in Runs : RunSteps(r)
    \/ \E i \in Instances : InstanceSteps(i)
    \/ \E w \in late : LateInsert(w)
    \/ CancelNotify \/ LeaseOut \/ RenewalsFail \/ LeaderExpires \/ Retention

Spec == Init /\ [][Next]_vars

\* Requests and runs go on (a call ends with its budget, a failed write is
\* repeated), leases run out, a request that waits looks at its row again and
\* again, and some instance leads.
FairSpec ==
    /\ Spec
    /\ \A q \in Requests :
           WF_vars(\/ Begin(q) \/ Abandon(q) \/ Register(q) \/ Refused(q) \/ Existing(q)
                   \/ WaitLocal(q) \/ WaitRow(q) \/ JoinAgain(q) \/ WaiterExpires(q))
    /\ \A r \in Runs :
           WF_vars(Acquire(r) \/ Gate(r) \/ Send(r) \/ Await(r) \/ Finish(r) \/ Stored(r))
    /\ WF_vars(LeaseOut) /\ WF_vars(LeaderExpires)

-----------------------------------------------------------------------------
(* Properties *)

TypeOK ==
    /\ row \in Row \cup {NoRow}
    /\ used \in 0 .. MaxRuns /\ life \in 0 .. MaxLife
    /\ runs \in [Runs -> Run]
    /\ reqs \in [Requests -> Request]
    /\ kc \in [Instances -> Runs \cup {0}]
    /\ lock \in [Instances -> Requests \cup {None}]
    /\ slots \in [Instances -> Nat]
    /\ proc \in [Instances -> {"up", "draining", "cut", "stopped", "down"}]
    /\ late \subseteq [inst : Instances, call : Calls]
    /\ notes \subseteq Instances
    /\ told \subseteq Runs \X Ends
    /\ gaveUp \subseteq Runs
    /\ faults \in 0 .. MaxFaults

\* ADR 0023: not_run means that the guest never got the call.  Whoever says so
\* (the runner, a waiter, the leader, a claim, an abandon), the run's request
\* is not, was not and will not be in the guest.
NotRunExact ==
    \A r \in Runs :
        (row.run = r /\ row.state = "not_run") \/ <<r, "not_run">> \in told
            => runs[r].ran = "no" /\ runs[r].guest = "idle"

\* A key reaches the guest in one run only: two runs of one key in the guest
\* have the retention's deletion of the record between them.
OneRunReaches ==
    \A r, s \in Runs :
        runs[r].ran = "yes" /\ runs[s].ran = "yes" /\ r # s => runs[r].life # runs[s].life

\* The first verdict on a run stands: an ended row is not ended again, and only
\* a run that did not run is replaced.
VerdictStands ==
    [][row.state \in Ends /\ row'.run = row.run => row'.state = row.state]_vars

\* What a run's waiters are told agrees: not that it is done and that it did
\* not run, unless its final write failed for good.
AnswersAgree ==
    \A r \in Runs : <<r, "done">> \in told /\ <<r, "not_run">> \in told => r \in gaveUp

\* A drain that has ended leaves no call and no insert behind it.
DrainWaits ==
    \A i \in Instances : proc[i] = "stopped" =>
        /\ kc[i] = 0
        /\ \A r \in Runs : runs[r].inst = i => runs[r].phase \in {"settled", "lost"}
        /\ \A q \in Requests : reqs[q].inst = i => reqs[q].pc \notin {"begin", "register"}

\* A cancellation meets the call of the row it was sent for, also while the
\* call's request is between the insert and its registration.
CancelMeetsCall ==
    [][\A i \in Instances : i \in notes /\ i \notin notes' /\ Serves(i) =>
        \A r \in Runs : Running(r) /\ runs[r].inst = i
            => runs[r].phase # "row" /\ (Active(r) => runs'[r].cause # "")]_vars

\* Nothing is under way for ever: every request is answered, though the instance
\* that ran its call died, lost its database, or never learned that its insert
\* committed, and every row ends, whether somebody waits for it or not.
UnderWay == row.state = "running" \/ \E q \in Requests : reqs[q].pc \notin {"idle", "end"}
EverythingEnds == UnderWay ~> ~UnderWay

-----------------------------------------------------------------------------
(* What comments or documents of the program say and the model refutes; the *)
(* README has the behaviours.  No run checks these.                         *)

\* The comment in gate: "Another writer ended the row: the call must not be
\* sent", and ADR 0023: "ferund never repeats an interrupted call".
GateSeesEnd ==
    [][\A r \in Runs : runs[r].phase = "gate" /\ runs'[r].phase = "send" => Running(r)]_vars
=============================================================================
