----------------------------- MODULE NodeCerts -----------------------------
(***************************************************************************)
(* The certificates of one node name: joins, renewals and their lost       *)
(* answers, the lineage that the database keeps (go/internal/fleet,        *)
(* store/nodecerts.go), and the identity that a machine keeps in its       *)
(* directory across events (crates/fleet-client).  A certificate is its   *)
(* issued_at, the start of the transaction that issued it.                 *)
(***************************************************************************)
EXTENDS Naturals, FiniteSets

CONSTANTS
    Machines,          \* the machines that hold the name's identity, by turns
    Tokens, Pinned,    \* join tokens, and those pinned to the name
    First,             \* the token in the token file of each machine at first
    NoToken,
    MaxCerts, MaxKeys,
    MaxEvents          \* faults, removals, tokens given out and directories copied

ASSUME NodeCertsConstants ==
    /\ Pinned \subseteq Tokens /\ NoToken \notin Tokens /\ First \in [Machines -> Tokens \cup {NoToken}]
    /\ {MaxCerts, MaxKeys} \subseteq Nat \ {0} /\ MaxEvents \in Nat

VARIABLES
    node,      \* the row of nodes: its status, its fork, its current_serial
    cert,      \* node_certs: the key, whether it was presented, its revocation
    token,     \* join_tokens: the key and the certificate of its first answer
    clock,     \* the last issued_at
    old,       \* the certificates issued before the last pinned join
    late,      \* whether a renewal it overtook was issued after it
    reqs,      \* joins and renewals on their way or in their transaction
    sent,      \* handshakes that present a certificate, before the check
    passed,    \* those that passed it, before OnPresented
    disk,      \* a machine's directory and token file
    mach,      \* a machine's feosd
    events,    \* crashes, lapses, calls given up, failures, and what operators do
    copies     \* directories copied to another machine

vars == <<node, cert, token, clock, old, late, reqs, sent, passed, disk, mach, events, copies>>
control == <<node, cert, token, clock, old, late, reqs, sent, passed>>

Certs == 1 .. MaxCerts
Keys == 1 .. MaxKeys
YN == {"yes", "no"}
Node == [status : {"none", "joined", "removed"}, forked : YN, current : 0 .. MaxCerts]
\* revoked: ahead and past are a superseded certificate in and after its grace;
\* rev is revoked_at once it is not ahead of the clock.
Cert == [key : 0 .. MaxKeys, seen : YN, revoked : {"no", "ahead", "past", "rejoined", "removed", "forked"},
         rev : 0 .. MaxCerts + 1]
Token == [used : 0 .. MaxKeys, serial : 0 .. MaxCerts, lapsed : YN]
\* by is the certificate that asks for a renewal; at is the transaction's now().
Request == [m : Machines, key : Keys, tok : Tokens \cup {NoToken}, by : 0 .. MaxCerts, at : 0 .. MaxCerts, live : YN]
Disk == [key : 0 .. MaxKeys, chain : 0 .. MaxCerts, joined : YN, file : Tokens \cup {NoToken}]
\* got is the answer's certificate while it is stored.
Mach == [pc : {"off", "join", "serve", "refused"}, cert : 0 .. MaxCerts, call : YN, got : 0 .. MaxCerts,
         refused : Tokens \cup {NoToken}]
Off == [pc |-> "off", cert |-> 0, call |-> "no", got |-> 0, refused |-> NoToken]
NoCert == [key |-> 0, seen |-> "no", revoked |-> "no", rev |-> 0]

Init ==
    /\ node = [status |-> "none", forked |-> "no", current |-> 0]
    /\ cert = [c \in Certs |-> NoCert]
    /\ token = [t \in Tokens |-> [used |-> 0, serial |-> 0, lapsed |-> "no"]]
    /\ clock = 0 /\ old = {} /\ late = "no"
    /\ reqs = {} /\ sent = {} /\ passed = {}
    /\ disk = [m \in Machines |-> [key |-> 0, chain |-> 0, joined |-> "no", file |-> First[m]]]
    /\ mach = [m \in Machines |-> Off]
    /\ events = 0 /\ copies = 0

Event == events < MaxEvents /\ events' = events + 1
Issued(c) == c # 0 /\ cert[c].key # 0

\* now() of what begins and ends before another transaction begins.
Now == clock + 1

-----------------------------------------------------------------------------
(* The checks of a certificate, on the database *)

\* Revoked: in effect at now, the frozen now() of the transaction that reads it.
Revoked(c, now, reasons) == cert[c].revoked \in reasons /\ cert[c].rev <= now

\* refusalText
Refused(c, now) ==
    \/ ~Issued(c)
    \/ node.status = "removed"
    \/ node.forked = "yes"
    \/ Revoked(c, now, {"rejoined", "removed", "forked"})

\* supersededPast
SupersededPast(c, now) == Revoked(c, now, {"past"})

\* RevokeNodeCerts: from now on, what is not revoked or from a later time.
RevokeNodeCerts(certs, reason, now) ==
    [c \in Certs |-> IF certs[c].key # 0 /\ (certs[c].revoked \in {"no", "ahead"} \/ certs[c].rev > now)
                     THEN [certs[c] EXCEPT !.revoked = reason, !.rev = now] ELSE certs[c]]

\* certNewer
CertNewer(c) == node.current # c /\ (node.current = 0 \/ c > node.current)

\* CheckNode at accept.
Refuses(c) ==
    /\ Refused(c, Now)
    /\ UNCHANGED <<node, cert, passed>>

\* fork: two holders use the identity.
Fork(c) ==
    /\ ~Refused(c, Now) /\ SupersededPast(c, Now)
    /\ node' = [node EXCEPT !.forked = "yes"]
    /\ cert' = RevokeNodeCerts(cert, "forked", Now)
    /\ UNCHANGED passed

Passes(c) ==
    /\ ~Refused(c, Now) /\ ~SupersededPast(c, Now)
    /\ passed' = passed \cup {c}
    /\ UNCHANGED <<node, cert>>

Check(c) ==
    /\ c \in sent
    /\ sent' = sent \ {c}
    /\ Refuses(c) \/ Fork(c) \/ Passes(c)
    /\ UNCHANGED <<token, clock, old, late, reqs, disk, mach, events, copies>>

\* A handshake or its check fails for now.
CheckFails(c) ==
    /\ c \in sent
    /\ Event
    /\ sent' = sent \ {c}
    /\ UNCHANGED <<node, cert, token, clock, old, late, reqs, passed, disk, mach, copies>>

\* RecordPresentation
Recorded(c) ==
    IF CertNewer(c)
    THEN /\ node' = [node EXCEPT !.current = c]
         /\ cert' = [d \in Certs |->
                        IF d = c THEN [cert[d] EXCEPT !.seen = "yes"]
                        ELSE IF d < c /\ cert[d].key # 0 /\ cert[d].revoked = "no"
                             THEN [cert[d] EXCEPT !.revoked = "ahead"] ELSE cert[d]]
    ELSE cert' = [cert EXCEPT ![c].seen = "yes"] /\ UNCHANGED node

\* OnPresented; it may fail, and is not repeated for this handshake.
OnPresented(c) ==
    /\ c \in passed
    /\ passed' = passed \ {c}
    /\ IF cert[c].seen = "no" \/ CertNewer(c) THEN Recorded(c) ELSE UNCHANGED <<node, cert>>
    /\ UNCHANGED <<token, clock, old, late, reqs, sent, disk, mach, events, copies>>

PresentFails(c) ==
    /\ c \in passed
    /\ Event
    /\ passed' = passed \ {c}
    /\ UNCHANGED <<node, cert, token, clock, old, late, reqs, sent, disk, mach, copies>>

\* A superseded certificate's grace is over: no handshake that began
\* before lasts as long.
GraceEnds(c) ==
    /\ cert[c].revoked = "ahead" /\ c \notin sent \cup passed
    /\ cert' = [cert EXCEPT ![c].revoked = "past", ![c].rev = Now]
    /\ UNCHANGED <<node, token, clock, old, late, reqs, sent, passed, disk, mach, events, copies>>

-----------------------------------------------------------------------------
(* The transactions of Join and RenewCertificate *)

\* A transaction begins: its now() is the certificate's issued_at.
Begin(r) ==
    /\ r.at = 0 /\ clock < MaxCerts
    /\ clock' = clock + 1
    /\ reqs' = (reqs \ {r}) \cup {[r EXCEPT !.at = clock + 1]}
    /\ UNCHANGED <<node, cert, token, old, late, sent, passed, disk, mach, events, copies>>

\* The answer reaches the machine, if it waits for it still.
Answered(r, got) ==
    mach' = IF r.live = "no" THEN mach ELSE [mach EXCEPT ![r.m].call = "no", ![r.m].got = got]
\* PERMISSION_DENIED or ALREADY_EXISTS: the machine waits for another token.
JoinRefused(r) ==
    /\ mach' = IF r.live = "no" THEN mach ELSE [mach EXCEPT ![r.m].call = "no", ![r.m].refused = r.tok]
    /\ UNCHANGED <<node, cert, token, old, late>>

\* InsertNodeCert
Insert(certs, r) == [certs EXCEPT ![r.at] = [key |-> r.key, seen |-> "no", revoked |-> "no", rev |-> 0]]

\* The row becomes joined, without a fork or a current certificate, and
\* every earlier certificate is revoked.
RejoinNode(r) ==
    /\ node' = [status |-> "joined", forked |-> "no", current |-> 0]
    /\ cert' = Insert(RevokeNodeCerts(cert, "rejoined", r.at), r)
    /\ old' = {c \in Certs : Issued(c)} /\ late' = "no"

\* Mutant: the first answer's certificate is not looked at.
FirstAnswer_Node(t) == node.status = "joined" /\ node.forked = "no"

\* firstAnswer: a repeat of the join may be answered again.
FirstAnswer(t) == node.status = "joined" /\ node.forked = "no" /\ cert[token[t].serial].revoked = "no"

\* Join with an unused token: an unpinned one makes the name, a pinned one
\* takes it.
JoinFirst(r) ==
    /\ token[r.tok].used = 0 /\ token[r.tok].lapsed = "no"
    /\ \/ r.tok \in Pinned /\ RejoinNode(r)
       \/ /\ r.tok \notin Pinned /\ node.status = "none"
          /\ node' = [node EXCEPT !.status = "joined"]
          /\ cert' = Insert(cert, r)
          /\ UNCHANGED <<old, late>>
    /\ token' = [token EXCEPT ![r.tok].used = r.key, ![r.tok].serial = r.at]
    /\ Answered(r, r.at)

\* A used token is answered again: the first answer was lost.
JoinAgain(r) ==
    /\ token[r.tok].used = r.key /\ token[r.tok].lapsed = "no"
    /\ FirstAnswer(r.tok)
    /\ cert' = Insert(cert, r)
    /\ Answered(r, r.at)
    /\ UNCHANGED <<node, token, old, late>>

MayJoin(r) ==
    /\ token[r.tok].lapsed = "no"
    /\ IF token[r.tok].used = 0 THEN r.tok \in Pinned \/ node.status = "none"
       ELSE token[r.tok].used = r.key /\ FirstAnswer(r.tok)

Join(r) ==
    /\ r.at # 0 /\ r.tok # NoToken
    /\ reqs' = reqs \ {r}
    /\ JoinFirst(r) \/ JoinAgain(r) \/ (~MayJoin(r) /\ JoinRefused(r))
    /\ UNCHANGED <<clock, sent, passed, disk, events, copies>>

\* RenewCertificate: checkInTx refuses for good, or for now, or passes, by the
\* transaction's now(): a pinned join may have begun after it, and come first.
RenewIssued(r) ==
    /\ ~Refused(r.by, r.at) /\ ~SupersededPast(r.by, r.at)
    /\ cert' = Insert(cert, r)
    /\ late' = IF r.by \in old /\ r.at < cert[r.by].rev THEN "yes" ELSE late
    /\ Answered(r, r.at)

\* Mutant: a superseded certificate past its grace is told to join again.
RenewFailed_Denied(r) ==
    /\ ~Refused(r.by, r.at) /\ SupersededPast(r.by, r.at)
    /\ mach' = IF r.live = "no" THEN mach ELSE [mach EXCEPT ![r.m].call = "no", ![r.m].pc = "refused"]
    /\ UNCHANGED <<cert, late>>

RenewFailed(r) ==
    /\ ~Refused(r.by, r.at) /\ SupersededPast(r.by, r.at)
    /\ Answered(r, 0)
    /\ UNCHANGED <<cert, late>>

\* PERMISSION_DENIED: Outcome::Refused.
RenewRefused(r) ==
    /\ Refused(r.by, r.at)
    /\ mach' = IF r.live = "no" THEN mach ELSE [mach EXCEPT ![r.m].call = "no", ![r.m].pc = "refused"]
    /\ UNCHANGED <<cert, late>>

Renew(r) ==
    /\ r.at # 0 /\ r.tok = NoToken
    /\ reqs' = reqs \ {r}
    /\ RenewIssued(r) \/ RenewFailed(r) \/ RenewRefused(r)
    /\ UNCHANGED <<node, token, clock, old, sent, passed, disk, events, copies>>

\* The operator removes the node.
RemoveNode ==
    /\ node.status = "joined" /\ Event
    /\ node' = [node EXCEPT !.status = "removed"]
    /\ cert' = RevokeNodeCerts(cert, "removed", Now)
    /\ UNCHANGED <<token, clock, old, late, reqs, sent, passed, disk, mach, copies>>

\* An unused token expires; a used one is past the retries of its join.
TokenLapses(t) ==
    /\ token[t].lapsed = "no" /\ Event
    /\ token' = [token EXCEPT ![t].lapsed = "yes"]
    /\ UNCHANGED <<node, cert, clock, old, late, reqs, sent, passed, disk, mach, copies>>

-----------------------------------------------------------------------------
(* A machine's feosd *)

\* Runner::identity: the one that is stored, or a join.
Loaded(d, refused) ==
    [Off EXCEPT !.pc = IF d.joined = "yes" THEN "serve" ELSE "join",
                !.cert = IF d.joined = "yes" THEN d.chain ELSE 0, !.refused = refused]

Start(m) ==
    /\ mach[m].pc = "off"
    /\ mach' = [mach EXCEPT ![m] = Loaded(disk[m], NoToken)]
    /\ UNCHANGED <<control, disk, events, copies>>

UsedKeys == {disk[m].key : m \in Machines} \cup {cert[c].key : c \in Certs} \cup {r.key : r \in reqs}

\* NodeDir::join_key: the key is kept before it is used.
JoinKey(m) ==
    /\ mach[m].pc = "join" /\ disk[m].key = 0 /\ Keys \ UsedKeys # {}
    /\ disk' = [disk EXCEPT ![m].key = CHOOSE k \in Keys \ UsedKeys : \A l \in Keys \ UsedKeys : k <= l]
    /\ UNCHANGED <<control, mach, events, copies>>

Send(m, tok, by) ==
    /\ mach[m].call = "no" /\ mach[m].got = 0 /\ clock < MaxCerts
    /\ reqs' = reqs \cup {[m |-> m, key |-> disk[m].key, tok |-> tok, by |-> by, at |-> 0, live |-> "yes"]}
    /\ mach' = [mach EXCEPT ![m].call = "yes"]
    /\ UNCHANGED <<node, cert, token, clock, old, late, sent, passed, disk, events, copies>>

SendJoin(m) ==
    /\ mach[m].pc = "join" /\ disk[m].key # 0
    /\ disk[m].file \notin {NoToken, mach[m].refused}
    /\ Send(m, disk[m].file, 0)

SendRenew(m) == mach[m].pc = "serve" /\ Send(m, NoToken, mach[m].cert)

Forgotten(m) == {IF r.m = m THEN [r EXCEPT !.live = "no"] ELSE r : r \in reqs}

\* The deadline of the call; the transaction may go on.
GiveUp(m) ==
    /\ mach[m].call = "yes"
    /\ Event
    /\ mach' = [mach EXCEPT ![m].call = "no"]
    /\ reqs' = Forgotten(m)
    /\ UNCHANGED <<node, cert, token, clock, old, late, sent, passed, disk, copies>>

\* A request that nobody waits for does not arrive, or its transaction fails.
Lose(r) ==
    /\ r.live = "no"
    /\ reqs' = reqs \ {r}
    /\ UNCHANGED <<node, cert, token, clock, old, late, sent, passed, disk, mach, events, copies>>

\* NodeDir::store: the chain first.
StoreChain(m) ==
    /\ mach[m].got # 0 /\ disk[m].chain # mach[m].got
    /\ disk' = [disk EXCEPT ![m].chain = mach[m].got]
    /\ UNCHANGED <<control, mach, events, copies>>

\* Mutant: a renewed certificate serves before it is kept.
StoreState_Early(m) ==
    /\ mach[m].got # 0 /\ disk[m].chain # 0
    /\ disk' = [disk EXCEPT ![m].joined = "yes"]
    /\ mach' = [mach EXCEPT ![m].pc = "serve", ![m].cert = mach[m].got, ![m].got = 0]
    /\ UNCHANGED <<control, events, copies>>

\* node.json last; then the node serves with the certificate alone.
StoreState(m) ==
    /\ mach[m].got # 0 /\ disk[m].chain = mach[m].got
    /\ disk' = [disk EXCEPT ![m].joined = "yes"]
    /\ mach' = [mach EXCEPT ![m].pc = "serve", ![m].cert = mach[m].got, ![m].got = 0]
    /\ UNCHANGED <<control, events, copies>>

\* The identity is not kept, or not whole; the node goes on as it was.
StoreFails(m) ==
    /\ mach[m].got # 0
    /\ Event
    /\ mach' = [mach EXCEPT ![m].got = 0]
    /\ UNCHANGED <<control, disk, copies>>

\* A dialer or the uplink presents the certificate.
Present(m) ==
    /\ mach[m].pc = "serve" /\ mach[m].cert \notin sent
    /\ sent' = sent \cup {mach[m].cert}
    /\ UNCHANGED <<node, cert, token, clock, old, late, reqs, passed, disk, mach, events, copies>>

\* A call on the uplink is answered PERMISSION_DENIED.
Denied(m) ==
    /\ mach[m].pc = "serve" /\ mach[m].call = "no" /\ mach[m].got = 0 /\ Refused(mach[m].cert, Now)
    /\ mach' = [mach EXCEPT ![m].pc = "refused"]
    /\ UNCHANGED <<control, disk, events, copies>>

\* NodeDir::set_aside: node.json first; it may fail at the start or on the
\* way.  Then the identity is loaded again, or joined for.
SetAside(m) ==
    \E d \in {disk[m], [disk[m] EXCEPT !.joined = "no"],
              [disk[m] EXCEPT !.joined = "no", !.chain = 0, !.key = 0]} :
        /\ mach[m].pc = "refused"
        /\ disk' = [disk EXCEPT ![m] = d]
        /\ mach' = [mach EXCEPT ![m] = Loaded(d, d.file)]
        /\ IF d.key = 0 THEN UNCHANGED events ELSE Event
        /\ UNCHANGED <<control, copies>>

Crash(m) ==
    /\ mach[m].pc # "off" /\ Event
    /\ mach' = [mach EXCEPT ![m] = Off]
    /\ reqs' = Forgotten(m)
    /\ UNCHANGED <<node, cert, token, clock, old, late, sent, passed, disk, copies>>

\* The operator puts a pinned token into a machine's file.
PutToken(m, t) ==
    /\ t \in Pinned /\ Event /\ \A n \in Machines : disk[n].file # t
    /\ token[t].used = 0 /\ \A r \in reqs : r.tok # t
    /\ disk' = [disk EXCEPT ![m].file = t]
    /\ UNCHANGED <<control, mach, copies>>

\* A machine's directory gets to another one: a clone, or a backup.
Copy(m, n) ==
    /\ Event /\ mach[n].pc = "off" /\ disk[m].joined = "yes" /\ m # n
    /\ copies' = copies + 1
    /\ disk' = [disk EXCEPT ![n] = disk[m]]
    /\ UNCHANGED <<control, mach>>

Next ==
    \/ \E c \in Certs : Check(c) \/ CheckFails(c) \/ OnPresented(c) \/ PresentFails(c) \/ GraceEnds(c)
    \/ \E r \in reqs : Begin(r) \/ Join(r) \/ Renew(r) \/ Lose(r)
    \/ RemoveNode
    \/ \E t \in Tokens : TokenLapses(t)
    \/ \E m \in Machines :
        \/ Start(m) \/ JoinKey(m) \/ SendJoin(m) \/ SendRenew(m) \/ GiveUp(m)
        \/ StoreChain(m) \/ StoreState(m) \/ StoreFails(m)
        \/ Present(m) \/ Denied(m) \/ SetAside(m) \/ Crash(m)
    \/ \E m \in Machines, t \in Tokens : PutToken(m, t)
    \/ \E m, n \in Machines : Copy(m, n)

Spec == Init /\ [][Next]_vars

-----------------------------------------------------------------------------
TypeOK ==
    /\ node \in Node /\ cert \in [Certs -> Cert] /\ token \in [Tokens -> Token]
    /\ clock \in 0 .. MaxCerts /\ old \subseteq Certs /\ late \in YN /\ reqs \subseteq Request
    /\ sent \subseteq Certs /\ passed \subseteq Certs
    /\ disk \in [Machines -> Disk] /\ mach \in [Machines -> Mach]
    /\ events \in 0 .. MaxEvents /\ copies \in 0 .. MaxEvents

Valid(c) == cert[c].key # 0 /\ cert[c].revoked \in {"no", "ahead"}

\* A name has one holder: whatever joins, lost answers, renewals and
\* removals do, the certificates that are not revoked are for one key, unless
\* a renewal that began before the last pinned join was issued after it.
OneKey == late = "no" => \A c, d \in Certs : Valid(c) /\ Valid(d) => cert[c].key = cert[d].key

\* A node that was never joined again, and whose directory was never copied,
\* is never declared forked, though it crashes at any step of a join or a
\* renewal and answers are lost.
NeverForked == node.forked = "yes" => copies > 0 \/ old # {}

\* A machine sets its identity aside only when the node is removed or
\* forked, or when the name was joined again since.
SetAsideForCause ==
    [][\A m \in Machines : disk[m].joined = "yes" /\ disk'[m].joined = "no"
        => node.status = "removed" \/ node.forked = "yes" \/ mach[m].cert \in old]_vars

-----------------------------------------------------------------------------
(* What comments or documents of the program say and the model refutes; the *)
(* README has the behaviours.  No run checks these.                         *)

\* "a superseded certificate means that two holders use the node's identity":
\* a node that was joined again, and not copied, is not forked.
ForkMeansTwo == node.forked = "yes" => copies > 0

\* "every earlier certificate of the node is revoked" by a pinned join: no other
\* key has the name then.
OneKeyAlways == \A c, d \in Certs : Valid(c) /\ Valid(d) => cert[c].key = cert[d].key

\* And none of them forks the node that joined.
OldNeverForks == [][\A c \in old : c \in sent \ sent' => node'.forked = node.forked]_vars
=============================================================================
