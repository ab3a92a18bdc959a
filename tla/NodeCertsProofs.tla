--------------------------- MODULE NodeCertsProofs ---------------------------
(***************************************************************************)
(* Proofs about module NodeCerts: the valid certificates of a name are for *)
(* one key, a node of its own never forks itself, and an identity is set   *)
(* aside for a cause, for any number of machines, tokens, keys and         *)
(* certificates, and any number of faults.                                 *)
(***************************************************************************)
EXTENDS NodeCerts, WellFoundedInduction, TLAPS

-----------------------------------------------------------------------------
(* The inductive invariant *)

\* node_certs and the row of nodes: certificates are issued in the order of the
\* clock, the first answer of a token is for the token's key, and what revoked
\* a certificate for good still shows on the row, or a pinned join came later.
Unrevoked(c) == cert[c].revoked \in {"no", "ahead"}
Superseded(c) == cert[c].revoked \in {"ahead", "past"}

Issues ==
    /\ \A c \in Certs : cert[c].key # 0 => c <= clock
    /\ \A c \in Certs : cert[c].key = 0 => cert[c].revoked = "no"
    /\ node.status = "none" => \A c \in Certs : cert[c].key = 0
    /\ node.current # 0 => Issued(node.current)
    /\ \A t \in Tokens : token[t].used # 0 => token[t].serial # 0 /\ cert[token[t].serial].key = token[t].used
    /\ \A c \in old : cert[c].key # 0

Causes ==
    \A c \in Certs \ old :
        /\ cert[c].revoked # "rejoined"
        /\ cert[c].revoked = "removed" => node.status = "removed"
        /\ cert[c].revoked = "forked" => node.forked = "yes"

\* Before the first pinned join over another holder, all certificates are for
\* one key, and the current one supersedes what is superseded.
FirstHolder ==
    old = {} =>
        /\ \A c, d \in Certs : cert[c].key # 0 /\ cert[d].key # 0 => cert[c].key = cert[d].key
        /\ \A c \in Certs : Superseded(c) => c < node.current

\* What is issued after the last pinned join is for its key, and what was issued
\* before is revoked, unless a renewal that it overtook came late.
Holder ==
    late = "no" =>
        /\ \A c, d \in Certs \ old : cert[c].key # 0 /\ cert[d].key # 0 => cert[c].key = cert[d].key
        /\ \A c \in old : ~Unrevoked(c)

\* Requests: each transaction issues its own certificate, and a renewal is for
\* the key of the certificate that asks.
Requests ==
    /\ \A r \in reqs : r.at <= clock /\ (r.at # 0 => cert[r.at].key = 0)
    /\ \A r, s \in reqs : r.at = s.at /\ r.at # 0 => r = s
    /\ \A r \in reqs : r.tok = NoToken => Issued(r.by) /\ cert[r.by].key = r.key

\* The request a machine waits for is the only one of it that still reaches it.
Waiting ==
    /\ \A r \in reqs : r.live = "yes" => mach[r.m].call = "yes" /\ r.key = disk[r.m].key
    /\ \A r, s \in reqs : r.live = "yes" /\ s.live = "yes" /\ r.m = s.m => r = s
    /\ \A r \in reqs : r.live = "yes" /\ r.tok = NoToken => mach[r.m].pc = "serve" /\ r.by = mach[r.m].cert

\* A machine's certificates are for the key of its directory.
OwnIdentity(m) ==
    /\ mach[m].pc \in {"serve", "refused"} =>
            Issued(mach[m].cert) /\ cert[mach[m].cert].key = disk[m].key /\ disk[m].joined = "yes"
    /\ mach[m].got # 0 => Issued(mach[m].got) /\ cert[mach[m].got].key = disk[m].key
    /\ disk[m].joined = "yes" => Issued(disk[m].chain) /\ cert[disk[m].chain].key = disk[m].key
    /\ mach[m].call = "yes" => mach[m].got = 0
    /\ mach[m].pc \in {"off", "refused"} => mach[m].call = "no" /\ mach[m].got = 0
    /\ mach[m].pc = "join" => disk[m].joined = "no"

Identity == \A m \in Machines : OwnIdentity(m)

\* A machine that is refused is so for a cause.
RefusedForCause ==
    \A m \in Machines : mach[m].pc = "refused" =>
        node.status = "removed" \/ node.forked = "yes" \/ mach[m].cert \in old

Shown(c) == c # 0 /\ (c \in sent \/ c \in passed \/ c = node.current)

Presented == \A c \in sent \cup passed : cert[c].key # 0

\* Where no directory was copied a key is in one directory, and its machine
\* presents later and later certificates: none is presented after its grace.
OwnOrder(m) ==
    /\ \A n \in Machines : disk[m].key = disk[n].key /\ disk[m].key # 0 => m = n
    /\ \A c \in Certs : Shown(c) /\ cert[c].key = disk[m].key =>
        /\ mach[m].pc = "serve" => c <= mach[m].cert
        /\ disk[m].joined = "yes" => c <= disk[m].chain
        /\ mach[m].got # 0 => c < mach[m].got
    /\ mach[m].pc = "serve" =>
        /\ mach[m].cert <= disk[m].chain
        /\ mach[m].got # 0 => mach[m].cert < mach[m].got
    /\ disk[m].joined = "yes" /\ mach[m].got # 0 => disk[m].chain <= mach[m].got

Order ==
    copies = 0 =>
        /\ \A m \in Machines : OwnOrder(m)
        /\ \A r \in reqs, c \in Certs :
            Shown(c) /\ r.live = "yes" /\ r.at # 0 /\ cert[c].key = r.key => c < r.at
        /\ \A r \in reqs : r.live = "yes" /\ r.at # 0 /\ disk[r.m].joined = "yes" => disk[r.m].chain < r.at
        /\ old = {} => \A c \in sent : cert[c].revoked # "past"

NInv ==
    /\ TypeOK /\ Issues /\ Causes /\ FirstHolder /\ Holder
    /\ Requests /\ Waiting /\ Identity /\ RefusedForCause /\ Presented
    /\ Order /\ NeverForked /\ copies <= events

-----------------------------------------------------------------------------
(* What the operators on certificates do, column by column *)

LEMMA Constants == MaxCerts \in Nat \ {0} /\ MaxKeys \in Nat \ {0} /\ MaxEvents \in Nat /\ NoToken \notin Tokens
<1> QED  BY NodeCertsConstants

\* RevokeNodeCerts leaves none unrevoked.
LEMMA RevokeColumns ==
    ASSUME cert \in [Certs -> Cert], NEW reason \in {"rejoined", "removed", "forked"}, NEW now \in 0 .. MaxCerts + 1
    PROVE  /\ RevokeNodeCerts(cert, reason, now) \in [Certs -> Cert]
           /\ \A c \in Certs :
                /\ RevokeNodeCerts(cert, reason, now)[c].key = cert[c].key
                /\ \/ RevokeNodeCerts(cert, reason, now)[c].revoked = cert[c].revoked /\ ~(cert[c].key # 0 /\ Unrevoked(c))
                   \/ RevokeNodeCerts(cert, reason, now)[c].revoked = reason /\ cert[c].key # 0
<1>1. \A c \in Certs : cert[c] \in Cert
    OBVIOUS
<1>2. \A c \in Certs :
        LET q == [cert[c] EXCEPT !.revoked = reason, !.rev = now]
        IN  q \in Cert /\ q.key = cert[c].key /\ q.revoked = reason
    BY <1>1 DEF Cert
<1>3. \A c \in Certs :
        RevokeNodeCerts(cert, reason, now)[c] =
            IF cert[c].key # 0 /\ (Unrevoked(c) \/ cert[c].rev > now)
            THEN [cert[c] EXCEPT !.revoked = reason, !.rev = now] ELSE cert[c]
    BY DEF RevokeNodeCerts, Unrevoked
<1>4. \A c \in Certs : RevokeNodeCerts(cert, reason, now)[c] \in Cert
    BY <1>1, <1>2, <1>3
<1>5. RevokeNodeCerts(cert, reason, now) \in [Certs -> Cert]
    BY <1>4 DEF RevokeNodeCerts
<1> QED  BY <1>2, <1>3, <1>5

\* Insert puts the certificate of the request, and leaves the others alone.
LEMMA InsertColumns ==
    ASSUME NEW q \in [Certs -> Cert], NEW r \in Request, r.at # 0
    PROVE  /\ r.at \in Certs
           /\ Insert(q, r) \in [Certs -> Cert]
           /\ Insert(q, r)[r.at].key = r.key /\ Insert(q, r)[r.at].revoked = "no"
           /\ \A c \in Certs \ {r.at} : Insert(q, r)[c] = q[c]
<1>1. r.at \in Certs /\ r.key \in Keys
    BY Constants DEF Request, Certs
<1> DEFINE n == [key |-> r.key, seen |-> "no", revoked |-> "no", rev |-> 0]
<1>2. n \in Cert /\ n.key = r.key /\ n.revoked = "no"
    BY <1>1, Constants DEF Cert, Keys, YN
<1>3. Insert(q, r) = [q EXCEPT ![r.at] = n]
    BY DEF Insert
<1> HIDE DEF n
<1> QED  BY <1>1, <1>2, <1>3

\* RecordPresentation supersedes the earlier ones that were not revoked, and
\* keeps the keys.
LEMMA RecordedColumns ==
    ASSUME TypeOK, NEW c \in Certs, Recorded(c)
    PROVE  /\ node' \in Node /\ node'.status = node.status /\ node'.forked = node.forked
           /\ node'.current = IF CertNewer(c) THEN c ELSE node.current
           /\ cert' \in [Certs -> Cert]
           /\ \A d \in Certs :
                /\ cert'[d].key = cert[d].key
                /\ cert'[d].revoked = cert[d].revoked
                    \/ (CertNewer(c) /\ d < c /\ cert[d].key # 0 /\ cert[d].revoked = "no" /\ cert'[d].revoked = "ahead")
<1>1. cert \in [Certs -> Cert] /\ node \in Node /\ \A d \in Certs : cert[d] \in Cert
    BY DEF TypeOK
<1>2. CASE CertNewer(c)
    <2>1. node' = [node EXCEPT !.current = c] /\ c \in 0 .. MaxCerts
        BY <1>2, Constants DEF Recorded, Certs
    <2>2. node' \in Node /\ node'.status = node.status /\ node'.forked = node.forked /\ node'.current = c
        BY <1>1, <2>1 DEF Node
    <2> DEFINE f(d) == IF d = c THEN [cert[d] EXCEPT !.seen = "yes"]
                       ELSE IF d < c /\ cert[d].key # 0 /\ cert[d].revoked = "no"
                            THEN [cert[d] EXCEPT !.revoked = "ahead"] ELSE cert[d]
    <2>3. cert' = [d \in Certs |-> f(d)]
        BY <1>2 DEF Recorded
    <2>4. \A d \in Certs :
            /\ f(d) \in Cert /\ f(d).key = cert[d].key
            /\ f(d).revoked = cert[d].revoked
                \/ (d < c /\ cert[d].key # 0 /\ cert[d].revoked = "no" /\ f(d).revoked = "ahead")
        <3> TAKE d \in Certs
        <3>1. cert[d] \in Cert
            BY <1>1
        <3>2. CASE d = c
            BY <3>1, <3>2 DEF Cert, YN
        <3>3. CASE d # c /\ d < c /\ cert[d].key # 0 /\ cert[d].revoked = "no"
            BY <3>1, <3>3 DEF Cert
        <3>4. CASE d # c /\ ~(d < c /\ cert[d].key # 0 /\ cert[d].revoked = "no")
            BY <3>1, <3>4
        <3> QED  BY <3>2, <3>3, <3>4
    <2> HIDE DEF f
    <2> QED  BY <1>2, <2>2, <2>3, <2>4
<1>3. CASE ~CertNewer(c)
    <2>1. cert' = [cert EXCEPT ![c].seen = "yes"] /\ node' = node
        BY <1>3 DEF Recorded
    <2>2. cert' \in [Certs -> Cert] /\ \A d \in Certs : cert'[d].key = cert[d].key /\ cert'[d].revoked = cert[d].revoked
        BY <1>1, <2>1 DEF Cert, YN
    <2> QED  BY <1>1, <1>3, <2>1, <2>2
<1> QED  BY <1>2, <1>3

-----------------------------------------------------------------------------
(* Steps of the control plane that issue no certificate *)

\* What such a step leaves alone, and what it may do to the row, the certificates
\* and the handshakes.
Kept ==
    /\ UNCHANGED <<clock, old, late, reqs, disk, mach, copies>>
    /\ \A c \in Certs : cert'[c].key = cert[c].key
    /\ \A t \in Tokens : token'[t].used = token[t].used /\ token'[t].serial = token[t].serial
    /\ node'.status = "none" => node.status = "none"
    /\ node.status = "removed" => node'.status = "removed"
    /\ node.forked = "yes" => node'.forked = "yes"
    /\ node'.current = node.current \/ node'.current \in passed
    /\ sent' \subseteq sent /\ passed' \subseteq sent \cup passed
    /\ \A c \in Certs : cert'[c].revoked # cert[c].revoked => cert[c].key # 0 /\ (Unrevoked(c)' => Unrevoked(c))
    /\ \A c \in Certs : c \in sent' /\ cert'[c].revoked = "past" => cert[c].revoked = "past"

LEMMA KeptStep ==
    ASSUME NInv, TypeOK', Kept, Causes', NeverForked', copies <= events',
           old = {} => \A c \in Certs : Superseded(c)' => c < node'.current
    PROVE  NInv'
<1>1. /\ UNCHANGED <<clock, old, late, reqs, disk, mach, copies>>
      /\ \A c \in Certs : cert'[c].key = cert[c].key
    BY DEF Kept
<1>2. node'.current # 0 => node'.current \in Certs /\ cert'[node'.current].key # 0
    BY <1>1 DEF Kept, NInv, Issues, Issued, Presented, TypeOK, Node, Certs
<1>3. Issues'
    <2>1. \A c \in Certs : cert'[c].key # 0 => c <= clock'
        BY <1>1 DEF NInv, Issues
    <2>2. \A c \in Certs : cert'[c].key = 0 => cert'[c].revoked = "no"
        BY DEF NInv, Issues, Kept
    <2>3. node'.status = "none" => \A c \in Certs : cert'[c].key = 0
        BY DEF NInv, Issues, Kept
    <2>4. \A t \in Tokens : token'[t].used # 0 =>
            token'[t].serial # 0 /\ cert'[token'[t].serial].key = token'[t].used
        <3> TAKE t \in Tokens
        <3>1. token[t].serial \in 0 .. MaxCerts
            BY DEF NInv, TypeOK, Token
        <3>2. token[t].serial # 0 => token[t].serial \in Certs
            BY <3>1, Constants DEF Certs
        <3> QED  BY <1>1, <3>2 DEF NInv, Issues, Kept
    <2>5. \A c \in old' : cert'[c].key # 0
        BY <1>1 DEF NInv, Issues, TypeOK
    <2> QED  BY <1>2, <2>1, <2>2, <2>3, <2>4, <2>5 DEF Issues, Issued
<1>4. FirstHolder'
    BY <1>1 DEF NInv, FirstHolder
<1>5. Holder'
    BY <1>1 DEF NInv, Holder, Kept, Unrevoked, TypeOK
<1>6. \A c \in 0 .. MaxCerts : c # 0 => c \in Certs
    BY Constants DEF Certs
<1>7. Requests'
    <2>1. \A r \in reqs : r.at \in 0 .. MaxCerts /\ r.by \in 0 .. MaxCerts
        BY DEF NInv, TypeOK, Request
    <2> QED  BY <1>1, <1>6, <2>1 DEF NInv, Requests, Issued
<1>8. Waiting'
    BY <1>1 DEF NInv, Waiting
<1>9. Identity'
    <2>1. \A m \in Machines : mach[m].cert \in 0 .. MaxCerts /\ mach[m].got \in 0 .. MaxCerts /\ disk[m].chain \in 0 .. MaxCerts
        BY DEF NInv, TypeOK, Mach, Disk
    <2> QED  BY <1>1, <1>6, <2>1 DEF NInv, Identity, OwnIdentity, Issued
<1>10. RefusedForCause'
    BY <1>1 DEF NInv, RefusedForCause, Kept
<1>11. Presented'
    BY <1>1 DEF NInv, Presented, Kept, TypeOK
<1>12. Order'
    <2>1. \A c \in Certs : Shown(c)' => Shown(c)
        BY DEF Shown, Kept
    <2>2. old = {} /\ copies = 0 => \A c \in sent' : cert'[c].revoked # "past"
        BY <1>1 DEF NInv, Order, OwnOrder, Kept, TypeOK
    <2> QED  BY <1>1, <2>1, <2>2 DEF NInv, Order, OwnOrder
<1> QED  BY <1>1, <1>3, <1>4, <1>5, <1>7, <1>8, <1>9, <1>10, <1>11, <1>12 DEF NInv

\* Nothing but handshakes, tokens and counters.
LEMMA QuietStep ==
    ASSUME NInv, UNCHANGED <<node, cert, clock, old, late, reqs, disk, mach, copies>>,
           sent' \subseteq sent, passed' \subseteq sent \cup passed,
           token' \in [Tokens -> Token],
           \A t \in Tokens : token'[t].used = token[t].used /\ token'[t].serial = token[t].serial,
           events' \in 0 .. MaxEvents, events <= events'
    PROVE  NInv'
<1>1. TypeOK'
    BY DEF NInv, TypeOK
<1>2. Kept
    BY DEF Kept, Unrevoked
<1>3. Causes'
    BY DEF NInv, Causes
<1>4. NeverForked'
    BY DEF NInv, NeverForked
<1>5. copies <= events'
    BY Constants DEF NInv, TypeOK
<1>6. old = {} => \A c \in Certs : Superseded(c)' => c < node'.current
    BY DEF NInv, FirstHolder, Superseded
<1> QED  BY <1>1, <1>2, <1>3, <1>4, <1>5, <1>6, KeptStep

\* A budgeted event.
LEMMA EventColumn == ASSUME TypeOK, Event  PROVE events' \in 0 .. MaxEvents /\ events <= events' /\ events' = events + 1
<1> QED  BY Constants DEF TypeOK, Event

LEMMA NCheckFails == ASSUME NInv, NEW c \in Certs, CheckFails(c)  PROVE NInv'
<1>1. events' \in 0 .. MaxEvents /\ events <= events'
    BY EventColumn DEF CheckFails, NInv
<1> QED  BY <1>1, QuietStep DEF CheckFails, NInv, TypeOK

LEMMA NPresentFails == ASSUME NInv, NEW c \in Certs, PresentFails(c)  PROVE NInv'
<1>1. events' \in 0 .. MaxEvents /\ events <= events'
    BY EventColumn DEF PresentFails, NInv
<1> QED  BY <1>1, QuietStep DEF PresentFails, NInv, TypeOK

LEMMA NTokenLapses == ASSUME NInv, NEW t \in Tokens, TokenLapses(t)  PROVE NInv'
<1>1. events' \in 0 .. MaxEvents /\ events <= events'
    BY EventColumn DEF TokenLapses, NInv
<1>2. token \in [Tokens -> Token] /\ token' = [token EXCEPT ![t].lapsed = "yes"]
    BY DEF TokenLapses, NInv, TypeOK
<1>3. /\ token' \in [Tokens -> Token]
      /\ \A u \in Tokens : token'[u].used = token[u].used /\ token'[u].serial = token[u].serial
    BY <1>2 DEF Token, YN
<1> QED  BY <1>1, <1>3, QuietStep DEF TokenLapses

\* The valid certificates are revoked, for a reason that the row shows.
LEMMA RevokedAll ==
    ASSUME NInv, UNCHANGED <<token, clock, old, late, reqs, disk, mach, copies>>,
           NEW reason \in {"removed", "forked"}, cert' = RevokeNodeCerts(cert, reason, Now),
           node' \in Node, node'.current = node.current,
           node.status # "none" => node'.status \in {node.status, "removed"},
           node.status = "none" => node'.status = "none",
           node.forked = "yes" => node'.forked = "yes",
           reason = "removed" => node'.status = "removed",
           reason = "forked" => node'.forked = "yes",
           sent' \subseteq sent, passed' = passed,
           events' \in 0 .. MaxEvents, events <= events', NeverForked'
    PROVE  NInv'
<1>1. /\ cert' \in [Certs -> Cert]
      /\ \A c \in Certs :
            /\ cert'[c].key = cert[c].key
            /\ cert'[c].revoked = cert[c].revoked \/ (cert'[c].revoked = reason /\ cert[c].key # 0)
    <2>1. Now \in 0 .. MaxCerts + 1
        BY Constants DEF Now, NInv, TypeOK
    <2> QED  BY <2>1, RevokeColumns DEF NInv, TypeOK
<1>2. TypeOK'
    BY <1>1 DEF NInv, TypeOK
<1>3. \A c \in Certs : cert'[c].revoked = cert[c].revoked \/
            (cert'[c].revoked = reason /\ cert[c].key # 0)
    BY <1>1
<1>4. Kept
    <2>1. \A c \in Certs : cert'[c].revoked # cert[c].revoked => cert[c].key # 0 /\ (Unrevoked(c)' => Unrevoked(c))
        BY <1>3 DEF Unrevoked
    <2>2. \A c \in Certs : c \in sent' /\ cert'[c].revoked = "past" => cert[c].revoked = "past"
        BY <1>3
    <2>3. /\ node'.status = "none" => node.status = "none"
          /\ node.status = "removed" => node'.status = "removed"
        OBVIOUS
    <2> QED  BY <1>1, <2>1, <2>2, <2>3 DEF Kept
<1>5. Causes'
    <2>1. \A c \in Certs \ old :
            /\ cert'[c].revoked # "rejoined"
            /\ cert'[c].revoked = "removed" => node'.status = "removed"
            /\ cert'[c].revoked = "forked" => node'.forked = "yes"
        BY <1>3, <1>4 DEF NInv, Causes, Kept
    <2> QED  BY <2>1 DEF Causes
<1>6. copies <= events'
    BY Constants DEF NInv, TypeOK
<1>7. old = {} => \A c \in Certs : Superseded(c)' => c < node'.current
    BY <1>3 DEF NInv, FirstHolder, Superseded
<1> QED  BY <1>2, <1>4, <1>5, <1>6, <1>7, KeptStep

LEMMA NRemoveNode == ASSUME NInv, RemoveNode  PROVE NInv'
<1>1. events' \in 0 .. MaxEvents /\ events <= events'
    BY EventColumn DEF RemoveNode, NInv
<1>2. node' = [node EXCEPT !.status = "removed"] /\ node \in Node /\ node.status = "joined"
    BY DEF RemoveNode, NInv, TypeOK
<1>3. node' \in Node /\ node'.status = "removed" /\ node'.forked = node.forked /\ node'.current = node.current
    BY <1>2 DEF Node
<1>4. UNCHANGED <<token, clock, old, late, reqs, disk, mach, copies, sent, passed>> /\ cert' = RevokeNodeCerts(cert, "removed", Now)
    BY DEF RemoveNode
<1>5. NeverForked'
    BY <1>3, <1>4 DEF NInv, NeverForked
<1> QED  BY <1>1, <1>2, <1>3, <1>4, <1>5, RevokedAll

\* CheckNode: the superseded certificate of a node whose directory was not copied
\* and whose name was not joined again is not presented.
LEMMA NCheck == ASSUME NInv, NEW c \in Certs, Check(c)  PROVE NInv'
<1>1. /\ c \in sent /\ sent' = sent \ {c}
      /\ UNCHANGED <<token, clock, old, late, reqs, disk, mach, events, copies>>
    BY DEF Check
<1>2. events' \in 0 .. MaxEvents /\ events <= events'
    BY <1>1, Constants DEF NInv, TypeOK
<1>3. CASE Refuses(c) \/ Passes(c)
    <2>1. UNCHANGED <<node, cert>> /\ passed' \subseteq sent \cup passed /\ token' \in [Tokens -> Token]
        BY <1>1, <1>3 DEF Refuses, Passes, NInv, TypeOK
    <2> QED  BY <1>1, <1>2, <2>1, QuietStep
<1>4. CASE Fork(c)
    <2>1. node' = [node EXCEPT !.forked = "yes"] /\ node \in Node
        BY <1>4 DEF Fork, NInv, TypeOK
    <2>2. node' \in Node /\ node'.status = node.status /\ node'.forked = "yes" /\ node'.current = node.current
        BY <2>1 DEF Node, YN
    <2>3. cert' = RevokeNodeCerts(cert, "forked", Now) /\ passed' = passed /\ cert[c].revoked = "past"
        BY <1>4 DEF Fork, SupersededPast, Revoked
    <2>4. NeverForked'
        <3>1. copies # 0 \/ old # {}
            BY <1>1, <2>3 DEF NInv, Order, OwnOrder
        <3> QED  BY <1>1, <3>1, Constants DEF NeverForked, NInv, TypeOK
    <2> QED  BY <1>1, <1>2, <2>2, <2>3, <2>4, RevokedAll
<1> QED  BY <1>3, <1>4 DEF Check

LEMMA NOnPresented == ASSUME NInv, NEW c \in Certs, OnPresented(c)  PROVE NInv'
<1>1. /\ c \in passed /\ passed' = passed \ {c}
      /\ UNCHANGED <<token, clock, old, late, reqs, sent, disk, mach, events, copies>>
    BY DEF OnPresented
<1>2. events' \in 0 .. MaxEvents /\ events <= events'
    BY <1>1, Constants DEF NInv, TypeOK
<1>3. CASE UNCHANGED <<node, cert>>
    BY <1>1, <1>2, <1>3, QuietStep DEF NInv, TypeOK
<1>4. CASE Recorded(c)
    <2>1. /\ node' \in Node /\ node'.status = node.status /\ node'.forked = node.forked
          /\ node'.current = IF CertNewer(c) THEN c ELSE node.current
          /\ cert' \in [Certs -> Cert]
          /\ \A d \in Certs :
                /\ cert'[d].key = cert[d].key
                /\ cert'[d].revoked = cert[d].revoked
                    \/ (CertNewer(c) /\ d < c /\ cert[d].key # 0 /\ cert[d].revoked = "no" /\ cert'[d].revoked = "ahead")
        BY <1>4, RecordedColumns DEF NInv
    <2>2. TypeOK'
        BY <1>1, <2>1 DEF NInv, TypeOK
    <2>3. Kept
        <3>1. \A d \in Certs : cert'[d].revoked # cert[d].revoked => cert[d].key # 0 /\ (Unrevoked(d)' => Unrevoked(d))
            BY <2>1 DEF Unrevoked
        <3>2. \A d \in Certs : d \in sent' /\ cert'[d].revoked = "past" => cert[d].revoked = "past"
            BY <2>1
        <3> QED  BY <1>1, <2>1, <3>1, <3>2 DEF Kept
    <2>4. Causes'
        <3>1. \A d \in Certs \ old :
                /\ cert'[d].revoked # "rejoined"
                /\ cert'[d].revoked = "removed" => node'.status = "removed"
                /\ cert'[d].revoked = "forked" => node'.forked = "yes"
            BY <2>1 DEF NInv, Causes
        <3> QED  BY <1>1, <3>1 DEF Causes
    <2>5. NeverForked'
        BY <1>1, <2>1 DEF NInv, NeverForked
    <2>6. old = {} => \A d \in Certs : Superseded(d)' => d < node'.current
        <3> SUFFICES ASSUME old = {}, NEW d \in Certs, Superseded(d)'  PROVE d < node'.current
            OBVIOUS
        <3>1. node.current \in 0 .. MaxCerts /\ c \in 1 .. MaxCerts /\ d \in 1 .. MaxCerts
            BY DEF NInv, TypeOK, Node, Certs
        <3>2. Superseded(d) => d < node.current
            BY DEF NInv, FirstHolder
        <3>3. CASE CertNewer(c)
            <4>1. node'.current = c /\ (node.current = 0 \/ c > node.current)
                BY <2>1, <3>3 DEF CertNewer
            <4>2. d < c \/ Superseded(d)
                BY <2>1 DEF Superseded
            <4> QED  BY <3>1, <3>2, <4>1, <4>2, Constants
        <3>4. CASE ~CertNewer(c)
            BY <2>1, <3>2, <3>4 DEF Superseded
        <3> QED  BY <3>3, <3>4
    <2> QED  BY <1>1, <1>2, <2>2, <2>3, <2>4, <2>5, <2>6, KeptStep DEF NInv
<1> QED  BY <1>3, <1>4 DEF OnPresented

LEMMA NGraceEnds == ASSUME NInv, NEW c \in Certs, GraceEnds(c)  PROVE NInv'
<1>1. /\ cert[c].revoked = "ahead" /\ c \notin sent
      /\ cert' = [cert EXCEPT ![c].revoked = "past", ![c].rev = Now]
      /\ UNCHANGED <<node, token, clock, old, late, reqs, sent, passed, disk, mach, events, copies>>
    BY DEF GraceEnds
<1>2. /\ cert' \in [Certs -> Cert]
      /\ \A d \in Certs : cert'[d].key = cert[d].key
      /\ cert'[c].revoked = "past" /\ \A d \in Certs \ {c} : cert'[d].revoked = cert[d].revoked
    <2> DEFINE w == Now
               q == [cert[c] EXCEPT !.revoked = "past", !.rev = w]
    <2>1. w \in 0 .. MaxCerts + 1 /\ cert \in [Certs -> Cert]
        BY Constants DEF Now, NInv, TypeOK
    <2>2. cert' = [cert EXCEPT ![c] = q]
        BY <1>1, <2>1
    <2> HIDE DEF w
    <2>3. q \in Cert /\ q.key = cert[c].key /\ q.revoked = "past"
        BY <2>1 DEF Cert
    <2> HIDE DEF q
    <2> QED  BY <2>1, <2>2, <2>3
<1>3. TypeOK'
    BY <1>1, <1>2 DEF NInv, TypeOK
<1>4. cert[c].key # 0
    BY <1>1 DEF NInv, Issues
<1>5. Kept
    <2>1. \A d \in Certs : cert'[d].revoked # cert[d].revoked => cert[d].key # 0 /\ (Unrevoked(d)' => Unrevoked(d))
        BY <1>1, <1>2, <1>4 DEF Unrevoked
    <2>2. \A d \in Certs : d \in sent' /\ cert'[d].revoked = "past" => cert[d].revoked = "past"
        BY <1>1, <1>2
    <2> QED  BY <1>1, <1>2, <2>1, <2>2 DEF Kept
<1>6. Causes'
    BY <1>1, <1>2 DEF NInv, Causes
<1>7. NeverForked'
    BY <1>1 DEF NInv, NeverForked
<1>8. old = {} => \A d \in Certs : Superseded(d)' => d < node'.current
    BY <1>1, <1>2 DEF NInv, FirstHolder, Superseded
<1> QED  BY <1>1, <1>3, <1>5, <1>6, <1>7, <1>8, KeptStep DEF NInv

-----------------------------------------------------------------------------
(* The transactions of Join and RenewCertificate *)

LEMMA CertRange ==
    ASSUME TypeOK
    PROVE  /\ \A c \in 0 .. MaxCerts : c # 0 => c \in Certs
           /\ \A r \in reqs : r \in Request /\ r.at \in 0 .. MaxCerts /\ r.by \in 0 .. MaxCerts /\ r.m \in Machines /\ r.key \in Keys
           /\ \A m \in Machines : mach[m].cert \in 0 .. MaxCerts /\ mach[m].got \in 0 .. MaxCerts /\ disk[m].chain \in 0 .. MaxCerts
           /\ clock \in 0 .. MaxCerts /\ node.current \in 0 .. MaxCerts
<1> QED  BY Constants DEF TypeOK, Certs, Mach, Disk, Request, Node

\* An answer leaves alone what the machine has, but for the certificate it got and
\* a refusal of one that serves.
Answers(r) ==
    /\ \A m \in Machines \ {r.m} : mach'[m] = mach[m]
    /\ r.live = "no" => mach'[r.m] = mach[r.m]
    /\ r.live = "yes" =>
        /\ mach'[r.m].call = "no" /\ mach'[r.m].cert = mach[r.m].cert
        /\ mach'[r.m].pc = mach[r.m].pc \/ (mach[r.m].pc = "serve" /\ mach'[r.m].pc = "refused" /\ mach'[r.m].got = 0)
        /\ mach'[r.m].got = 0 \/ (mach'[r.m].got = r.at /\ cert'[r.at].key = r.key)

\* The transaction of a request ends: the requests and machines that are left.
LEMMA EndedStep ==
    ASSUME NInv, NEW r \in reqs, r.at # 0, reqs' = reqs \ {r},
           UNCHANGED <<clock, sent, passed, disk, copies>>, Answers(r),
           \A c \in Certs \ {r.at} : cert'[c].key = cert[c].key,
           node'.current \in {node.current, 0},
           copies = 0 /\ old' = {} => \A c \in sent : cert'[c].revoked # "past"
    PROVE  Requests' /\ Waiting' /\ Identity' /\ Presented' /\ Order'
<1>1. /\ \A c \in 0 .. MaxCerts : c # 0 => c \in Certs
      /\ \A q \in reqs : q.at \in 0 .. MaxCerts /\ q.by \in 0 .. MaxCerts /\ q.m \in Machines /\ q.key \in Keys
      /\ \A m \in Machines : mach[m].cert \in 0 .. MaxCerts /\ mach[m].got \in 0 .. MaxCerts /\ disk[m].chain \in 0 .. MaxCerts
      /\ node.current \in 0 .. MaxCerts
    BY CertRange DEF NInv
<1>2. r.at \in Certs /\ cert[r.at].key = 0
    BY <1>1 DEF NInv, Requests
<1>3. \A c \in Certs : cert[c].key # 0 => cert'[c].key = cert[c].key
    BY <1>2
<1>4. \A c \in 0 .. MaxCerts : Issued(c) => Issued(c)' /\ cert'[c].key = cert[c].key
    BY <1>1, <1>3 DEF Issued
<1>5. Requests'
    <2>1. \A q \in reqs' : q \in reqs /\ q # r
        OBVIOUS
    <2>2. \A q \in reqs' : q.at <= clock' /\ (q.at # 0 => cert'[q.at].key = 0)
        BY <1>1, <2>1 DEF NInv, Requests
    <2>3. \A q, s \in reqs' : q.at = s.at /\ q.at # 0 => q = s
        BY <2>1 DEF NInv, Requests
    <2>4. \A q \in reqs' : q.tok = NoToken => Issued(q.by)' /\ cert'[q.by].key = q.key
        BY <1>1, <1>4, <2>1 DEF NInv, Requests
    <2> QED  BY <2>2, <2>3, <2>4 DEF Requests
<1>6. \A q \in reqs' : q.live = "yes" => q \in reqs /\ mach'[q.m] = mach[q.m]
    <2> TAKE q \in reqs'
    <2> HAVE q.live = "yes"
    <2>1. q \in reqs /\ q # r /\ q.m \in Machines
        BY <1>1
    <2>2. q.m # r.m \/ r.live # "yes"
        BY <2>1 DEF NInv, Waiting
    <2>3. r.live \in {"yes", "no"}
        BY DEF NInv, TypeOK, Request, YN
    <2> QED  BY <2>1, <2>2, <2>3 DEF Answers
<1>7. Waiting'
    BY <1>6 DEF NInv, Waiting
<1>8. r.live = "yes" => mach[r.m].call = "yes" /\ mach[r.m].got = 0 /\ r.key = disk[r.m].key /\ mach[r.m].pc \in {"join", "serve"}
    <2> HAVE r.live = "yes"
    <2>1. mach[r.m].call = "yes" /\ r.key = disk[r.m].key /\ r.m \in Machines
        BY <1>1 DEF NInv, Waiting
    <2>2. mach[r.m].pc \in {"off", "join", "serve", "refused"}
        BY <2>1 DEF NInv, TypeOK, Mach
    <2> QED  BY <2>1, <2>2 DEF NInv, Identity, OwnIdentity
<1>9. \A m \in Machines : \/ mach'[m] = mach[m]
                          \/ /\ m = r.m /\ r.live = "yes"
    BY DEF Answers, NInv, TypeOK, Request, YN
<1>10. Identity'
    <2> SUFFICES ASSUME NEW m \in Machines
                 PROVE  /\ mach'[m].pc \in {"serve", "refused"} =>
                            Issued(mach[m].cert)' /\ cert'[mach'[m].cert].key = disk'[m].key /\ disk'[m].joined = "yes"
                        /\ mach'[m].got # 0 => Issued(mach[m].got)' /\ cert'[mach'[m].got].key = disk'[m].key
                        /\ disk'[m].joined = "yes" => Issued(disk[m].chain)' /\ cert'[disk'[m].chain].key = disk'[m].key
                        /\ mach'[m].call = "yes" => mach'[m].got = 0
                        /\ mach'[m].pc \in {"off", "refused"} => mach'[m].call = "no" /\ mach'[m].got = 0
                        /\ mach'[m].pc = "join" => disk'[m].joined = "no"
        BY DEF Identity, OwnIdentity
    <2>1. disk'[m] = disk[m]
        OBVIOUS
    <2>2. disk'[m].joined = "yes" => Issued(disk[m].chain)' /\ cert'[disk'[m].chain].key = disk'[m].key
        BY <1>1, <1>4, <2>1 DEF NInv, Identity, OwnIdentity, Issued
    <2>3. CASE mach'[m] = mach[m]
        <3>1. mach[m].pc \in {"serve", "refused"} =>
                Issued(mach[m].cert)' /\ cert'[mach[m].cert].key = disk[m].key /\ disk[m].joined = "yes"
            BY <1>1, <1>4, <2>3 DEF NInv, Identity, OwnIdentity, Issued
        <3>2. mach[m].got # 0 => Issued(mach[m].got)' /\ cert'[mach[m].got].key = disk[m].key
            BY <1>1, <1>4, <2>3 DEF NInv, Identity, OwnIdentity, Issued
        <3> QED  BY <2>1, <2>2, <2>3, <3>1, <3>2 DEF NInv, Identity, OwnIdentity, Issued
    <2>4. CASE m = r.m /\ r.live = "yes"
        <3>1. mach'[m].pc \in {"serve", "refused"} => mach[m].pc = "serve"
            BY <1>8, <2>4 DEF Answers
        <3>2. mach'[m].pc \in {"serve", "refused"} =>
                Issued(mach[m].cert)' /\ cert'[mach'[m].cert].key = disk[m].key /\ disk[m].joined = "yes"
            BY <1>1, <1>4, <2>4, <3>1 DEF NInv, Identity, OwnIdentity, Issued, Answers
        <3>3. mach'[m].got # 0 => Issued(mach[m].got)' /\ cert'[mach'[m].got].key = disk[m].key
            <4>1. r.key # 0
                BY <1>1, Constants DEF Keys
            <4> QED  BY <1>8, <2>4, <4>1 DEF Answers, Issued
        <3>4. mach'[m].call = "no" /\ (mach'[m].pc = "refused" => mach'[m].got = 0)
            BY <1>8, <2>4 DEF Answers
        <3>5. mach'[m].pc # "off" /\ (mach'[m].pc = "join" => disk[m].joined = "no")
            BY <1>8, <2>4 DEF Answers, NInv, Identity, OwnIdentity
        <3> QED  BY <2>1, <2>2, <3>2, <3>3, <3>4, <3>5
    <2> QED  BY <1>9, <2>3, <2>4
<1>11. Presented'
    BY <1>3 DEF NInv, Presented, TypeOK
<1>12. Order'
    <2> SUFFICES ASSUME copies = 0  PROVE Order'
        BY DEF Order, OwnOrder
    <2>1. \A c \in Certs : Shown(c)' => Shown(c) /\ cert[c].key # 0 /\ cert'[c].key = cert[c].key /\ c # r.at
        BY <1>1, <1>2, <1>3 DEF Shown, NInv, Presented, Issues, Issued
    <2>2. \A m \in Machines, c \in Certs : Shown(c)' /\ cert'[c].key = disk'[m].key =>
            /\ mach'[m].pc = "serve" => c <= mach'[m].cert
            /\ disk'[m].joined = "yes" => c <= disk'[m].chain
            /\ mach'[m].got # 0 => c < mach'[m].got
        <3> TAKE m \in Machines, c \in Certs
        <3> HAVE Shown(c)' /\ cert'[c].key = disk'[m].key
        <3>1. Shown(c) /\ cert[c].key = disk[m].key /\ disk' = disk
            BY <2>1
        <3>2. CASE mach'[m] = mach[m]
            BY <3>1, <3>2 DEF NInv, Order, OwnOrder
        <3>3. CASE m = r.m /\ r.live = "yes"
            <4>1. c < r.at
                BY <1>8, <3>1, <3>3 DEF NInv, Order, OwnOrder
            <4>2. mach'[m].got # 0 => c < mach'[m].got
                BY <3>3, <4>1 DEF Answers
            <4>3. mach'[m].pc = "serve" => mach[m].pc = "serve" /\ mach'[m].cert = mach[m].cert
                BY <1>8, <3>3 DEF Answers
            <4> QED  BY <3>1, <4>2, <4>3 DEF NInv, Order, OwnOrder
        <3> QED  BY <1>9, <3>2, <3>3
    <2>3. \A q \in reqs', c \in Certs :
            Shown(c)' /\ q.live = "yes" /\ q.at # 0 /\ cert'[c].key = q.key => c < q.at
        BY <2>1 DEF NInv, Order, OwnOrder
    <2>4. \A m \in Machines : mach'[m].pc = "serve" =>
            /\ mach'[m].cert <= disk'[m].chain
            /\ mach'[m].got # 0 => mach'[m].cert < mach'[m].got
        <3> TAKE m \in Machines
        <3> HAVE mach'[m].pc = "serve"
        <3>1. CASE mach'[m] = mach[m]
            BY <3>1 DEF NInv, Order, OwnOrder
        <3>2. CASE m = r.m /\ r.live = "yes"
            <4>1. mach[m].pc = "serve" /\ mach'[m].cert = mach[m].cert /\ disk' = disk
                BY <1>8, <3>2 DEF Answers
            <4>2. mach[m].cert <= disk[m].chain /\ disk[m].chain < r.at
                BY <3>2, <4>1 DEF NInv, Order, OwnOrder, Identity, OwnIdentity
            <4>3. mach'[m].got \in {0, r.at}
                BY <3>2 DEF Answers
            <4>4. mach[m].cert \in Nat /\ disk[m].chain \in Nat /\ r.at \in Nat
                BY <1>1, Constants
            <4> QED  BY <4>1, <4>2, <4>3, <4>4
        <3> QED  BY <1>9, <3>1, <3>2
    <2>5. \A m \in Machines : disk'[m].joined = "yes" /\ mach'[m].got # 0 => disk'[m].chain <= mach'[m].got
        <3> TAKE m \in Machines
        <3> HAVE disk'[m].joined = "yes" /\ mach'[m].got # 0
        <3>1. CASE mach'[m] = mach[m]
            BY <3>1 DEF NInv, Order, OwnOrder
        <3>2. CASE m = r.m /\ r.live = "yes"
            <4>1. disk[m].chain < r.at
                BY <3>2 DEF NInv, Order, OwnOrder
            <4>2. mach'[m].got = r.at
                BY <3>2 DEF Answers
            <4>3. disk[m].chain \in Nat /\ r.at \in Nat
                BY <1>1, Constants
            <4> QED  BY <4>1, <4>2, <4>3
        <3> QED  BY <1>9, <3>1, <3>2
    <2>6. \A q \in reqs' : q.live = "yes" /\ q.at # 0 /\ disk'[q.m].joined = "yes" => disk'[q.m].chain < q.at
        BY DEF NInv, Order, OwnOrder
    <2>7. \A m, n \in Machines : disk'[m].key = disk'[n].key /\ disk'[m].key # 0 => m = n
        BY DEF NInv, Order, OwnOrder
    <2>8. old' = {} => \A c \in sent' : cert'[c].revoked # "past"
        OBVIOUS
    <2> QED  BY <2>2, <2>3, <2>4, <2>5, <2>6, <2>7, <2>8 DEF Order, OwnOrder
<1> QED  BY <1>5, <1>7, <1>10, <1>11, <1>12

\* The answer, and its two refusals.
LEMMA AnsweredColumns ==
    ASSUME NInv, NEW r \in reqs, NEW got \in 0 .. MaxCerts, Answered(r, got),
           got = 0 \/ (got = r.at /\ cert'[r.at].key = r.key)
    PROVE  /\ mach' \in [Machines -> Mach] /\ Answers(r)
           /\ \A m \in Machines : mach'[m].pc = mach[m].pc /\ mach'[m].cert = mach[m].cert
<1>1. mach \in [Machines -> Mach] /\ r.m \in Machines /\ r.live \in {"yes", "no"}
    BY DEF NInv, TypeOK, Request, YN
<1>2. CASE r.live = "no"
    BY <1>1, <1>2 DEF Answered, Answers
<1>3. CASE r.live = "yes"
    <2>1. mach' = [mach EXCEPT ![r.m].call = "no", ![r.m].got = got]
        BY <1>3 DEF Answered
    <2> DEFINE m == r.m
    <2>2. m \in Machines /\ mach' = [mach EXCEPT ![m].call = "no", ![m].got = got]
        BY <1>1, <2>1
    <2> HIDE DEF m
    <2>3. /\ mach' \in [Machines -> Mach]
          /\ mach'[m].call = "no" /\ mach'[m].got = got
          /\ \A n \in Machines : mach'[n].pc = mach[n].pc /\ mach'[n].cert = mach[n].cert
          /\ \A n \in Machines \ {m} : mach'[n] = mach[n]
        BY ZenonT(30), <1>1, <2>2 DEF Mach, YN
    <2> QED  BY <1>1, <1>3, <2>3 DEF Answers, m
<1> QED  BY <1>1, <1>2, <1>3

LEMMA JoinRefusedColumns ==
    ASSUME NInv, NEW r \in reqs, JoinRefused(r)
    PROVE  /\ mach' \in [Machines -> Mach] /\ Answers(r)
           /\ \A m \in Machines : mach'[m].pc = mach[m].pc /\ mach'[m].cert = mach[m].cert
<1>1. mach \in [Machines -> Mach] /\ r.m \in Machines /\ r.live \in {"yes", "no"} /\ r.tok \in Tokens \cup {NoToken}
    BY DEF NInv, TypeOK, Request, YN
<1>2. CASE r.live = "no"
    BY <1>1, <1>2 DEF JoinRefused, Answers
<1>3. CASE r.live = "yes"
    <2> DEFINE m == r.m
               t == r.tok
    <2>1. m \in Machines /\ mach' = [mach EXCEPT ![m].call = "no", ![m].refused = t] /\ t \in Tokens \cup {NoToken}
        BY <1>1, <1>3 DEF JoinRefused
    <2>2. mach[m].got = 0
        BY <1>1, <1>3 DEF NInv, Waiting, Identity, OwnIdentity
    <2> HIDE DEF m, t
    <2>3. /\ mach' \in [Machines -> Mach]
          /\ mach'[m].call = "no" /\ mach'[m].got = mach[m].got
          /\ \A n \in Machines : mach'[n].pc = mach[n].pc /\ mach'[n].cert = mach[n].cert
          /\ \A n \in Machines \ {m} : mach'[n] = mach[n]
        BY ZenonT(30), <1>1, <2>1 DEF Mach, YN
    <2> QED  BY <1>1, <1>3, <2>2, <2>3 DEF Answers, m
<1> QED  BY <1>1, <1>2, <1>3

\* A certificate that some transaction refuses.
Banned(c) ==
    ~Issued(c) \/ node.status = "removed" \/ node.forked = "yes" \/ cert[c].revoked \in {"rejoined", "removed", "forked"}

LEMMA RenewRefusedColumns ==
    ASSUME NInv, NEW r \in reqs, r.tok = NoToken, RenewRefused(r)
    PROVE  /\ mach' \in [Machines -> Mach] /\ Answers(r)
           /\ \A m \in Machines : /\ mach'[m].cert = mach[m].cert
                                  /\ mach'[m].pc = "refused" => mach[m].pc = "refused" \/ Banned(mach[m].cert)
<1>1. mach \in [Machines -> Mach] /\ r.m \in Machines /\ r.live \in {"yes", "no"}
    BY DEF NInv, TypeOK, Request, YN
<1>2. CASE r.live = "no"
    BY <1>1, <1>2 DEF RenewRefused, Answers
<1>3. CASE r.live = "yes"
    <2> DEFINE m == r.m
    <2>1. m \in Machines /\ mach' = [mach EXCEPT ![m].call = "no", ![m].pc = "refused"]
        BY <1>1, <1>3 DEF RenewRefused
    <2>2. mach[m].pc = "serve" /\ mach[m].got = 0 /\ r.by = mach[m].cert /\ Banned(r.by)
        BY <1>1, <1>3 DEF NInv, Waiting, Identity, OwnIdentity, RenewRefused, Refused, Revoked, Banned
    <2> HIDE DEF m
    <2> DEFINE q == [mach[m] EXCEPT !.call = "no", !.pc = "refused"]
    <2>5. mach' = [mach EXCEPT ![m] = q]
        BY <1>1, <2>1
    <2>6. q \in Mach /\ q.call = "no" /\ q.got = mach[m].got /\ q.pc = "refused" /\ q.cert = mach[m].cert
        BY ZenonT(30), <1>1, <2>1 DEF Mach, YN
    <2> HIDE DEF q
    <2>3. /\ mach' \in [Machines -> Mach]
          /\ mach'[m].call = "no" /\ mach'[m].got = mach[m].got /\ mach'[m].pc = "refused"
          /\ \A n \in Machines : mach'[n].cert = mach[n].cert
          /\ \A n \in Machines \ {m} : mach'[n] = mach[n]
        BY <1>1, <2>1, <2>5, <2>6
    <2>4. \A n \in Machines : mach'[n].pc = "refused" => mach[n].pc = "refused" \/ Banned(mach[n].cert)
        BY <2>2, <2>3
    <2> QED  BY <1>1, <1>3, <2>2, <2>3, <2>4 DEF Answers, m
<1> QED  BY <1>1, <1>2, <1>3

\* What refuses an issued certificate still shows on the row, or a pinned join
\* came later.
LEMMA RefusedCause ==
    ASSUME NInv, NEW c \in 0 .. MaxCerts, Issued(c), Banned(c)
    PROVE  node.status = "removed" \/ node.forked = "yes" \/ c \in old
<1>1. c \in Certs
    BY CertRange DEF NInv, Issued
<1> QED  BY <1>1 DEF NInv, Causes, Banned

\* A transaction that refuses.
LEMMA RefusingStep ==
    ASSUME NInv, NEW r \in reqs, r.at # 0, reqs' = reqs \ {r},
           UNCHANGED <<node, cert, token, old, late, clock, sent, passed, disk, events, copies>>,
           Answers(r), mach' \in [Machines -> Mach],
           \A m \in Machines : /\ mach'[m].cert = mach[m].cert
                               /\ mach'[m].pc = "refused" => mach[m].pc = "refused" \/ Banned(mach[m].cert)
    PROVE  NInv'
<1>1. TypeOK'
    BY DEF NInv, TypeOK
<1>2. Issues' /\ Causes' /\ FirstHolder' /\ Holder' /\ NeverForked' /\ (copies <= events)'
    BY DEF NInv, Issues, Issued, Causes, FirstHolder, Superseded, Holder, Unrevoked, NeverForked
<1>3. Requests' /\ Waiting' /\ Identity' /\ Presented' /\ Order'
    <2>1. copies = 0 /\ old' = {} => \A c \in sent : cert'[c].revoked # "past"
        BY DEF NInv, Order, OwnOrder
    <2> QED  BY <2>1, EndedStep
<1>4. RefusedForCause'
    <2> SUFFICES ASSUME NEW m \in Machines, mach'[m].pc = "refused"
                 PROVE  node.status = "removed" \/ node.forked = "yes" \/ mach[m].cert \in old
        BY DEF RefusedForCause
    <2>1. CASE mach[m].pc = "refused"
        BY <2>1 DEF NInv, RefusedForCause
    <2>2. CASE mach[m].pc # "refused"
        <3>1. Banned(mach[m].cert) /\ mach[m].cert \in 0 .. MaxCerts
            BY <2>2, CertRange DEF NInv
        <3>2. m = r.m /\ r.live = "yes"
            BY <2>2 DEF Answers, NInv, TypeOK, Request, YN
        <3>3. mach[m].pc = "serve"
            BY <2>2, <3>2 DEF Answers
        <3>4. Issued(mach[m].cert)
            BY <3>3 DEF NInv, Identity, OwnIdentity
        <3> QED  BY <3>1, <3>4, RefusedCause
    <2> QED  BY <2>1, <2>2
<1> QED  BY <1>1, <1>2, <1>3, <1>4 DEF NInv

\* A certificate for the key of an issued one, of the holder unless the step is
\* that of a late renewal.
LEMMA SameKeyStep ==
    ASSUME NInv, NEW r \in reqs, r.at # 0, reqs' = reqs \ {r},
           UNCHANGED <<node, token, old, clock, sent, passed, disk, events, copies>>,
           cert' = Insert(cert, r), Answered(r, r.at),
           NEW b \in Certs, cert[b].key = r.key,
           late' \in YN, late' = "no" => late = "no" /\ b \notin old
    PROVE  NInv'
<1>1. r \in Request /\ cert \in [Certs -> Cert] /\ r.at \in 0 .. MaxCerts /\ r.key \in Keys
    BY CertRange DEF NInv, TypeOK
<1>2. /\ r.at \in Certs /\ cert' \in [Certs -> Cert]
      /\ cert'[r.at].key = r.key /\ cert'[r.at].revoked = "no"
      /\ \A c \in Certs \ {r.at} : cert'[c] = cert[c]
    BY <1>1, InsertColumns
<1>3. /\ mach' \in [Machines -> Mach] /\ Answers(r)
      /\ \A m \in Machines : mach'[m].pc = mach[m].pc /\ mach'[m].cert = mach[m].cert
    BY <1>1, <1>2, AnsweredColumns
<1>4. cert[r.at].key = 0 /\ r.at <= clock /\ r.key # 0
    BY <1>1, Constants DEF NInv, Requests, Keys
<1>5. TypeOK'
    BY <1>2, <1>3 DEF NInv, TypeOK
<1>6. Issues'
    <2>1. \A c \in Certs : cert'[c].key # 0 => c <= clock'
        BY <1>2, <1>4 DEF NInv, Issues
    <2>2. \A c \in Certs : cert'[c].key = 0 => cert'[c].revoked = "no"
        BY <1>2 DEF NInv, Issues
    <2>3. node'.status # "none"
        BY <1>4 DEF NInv, Issues
    <2>4. \A c \in 0 .. MaxCerts : Issued(c) => Issued(c)' /\ cert'[c].key = cert[c].key
        BY <1>2, <1>4, CertRange DEF Issued, NInv
    <2>5. node'.current # 0 => Issued(node.current)'
        BY <2>4, CertRange DEF NInv, Issues, Issued
    <2>6. \A t \in Tokens : token'[t].used # 0 => token'[t].serial # 0 /\ cert'[token'[t].serial].key = token'[t].used
        <3> TAKE t \in Tokens
        <3> HAVE token'[t].used # 0
        <3>1. token[t].serial \in 0 .. MaxCerts /\ token[t].used # 0 /\ token[t].serial # 0
            BY DEF NInv, TypeOK, Token, Issues
        <3>2. Issued(token[t].serial)
            BY <3>1 DEF Issued, NInv, Issues
        <3> QED  BY <2>4, <3>1, <3>2 DEF NInv, Issues
    <2>7. \A c \in old' : cert'[c].key # 0
        BY <1>2, <1>4 DEF NInv, Issues, TypeOK
    <2> QED  BY <2>1, <2>2, <2>3, <2>5, <2>6, <2>7 DEF Issues
<1>7. Causes'
    <2>1. \A c \in Certs \ old :
            /\ cert'[c].revoked # "rejoined"
            /\ cert'[c].revoked = "removed" => node.status = "removed"
            /\ cert'[c].revoked = "forked" => node.forked = "yes"
        BY <1>2 DEF NInv, Causes
    <2> QED  BY <2>1 DEF Causes
<1>8. FirstHolder'
    <2> SUFFICES ASSUME old = {}
                 PROVE  /\ \A c, d \in Certs : cert'[c].key # 0 /\ cert'[d].key # 0 => cert'[c].key = cert'[d].key
                        /\ \A c \in Certs : Superseded(c)' => c < node.current
        BY DEF FirstHolder
    <2>1. \A c \in Certs : cert[c].key # 0 => cert[c].key = r.key
        BY <1>4 DEF NInv, FirstHolder
    <2>2. \A c \in Certs : cert'[c].key # 0 => cert'[c].key = r.key
        BY <1>2, <2>1
    <2>3. \A c \in Certs : Superseded(c)' => c < node.current
        BY <1>2 DEF NInv, FirstHolder, Superseded
    <2> QED  BY <2>2, <2>3
<1>9. Holder'
    <2> SUFFICES ASSUME late' = "no"
                 PROVE  /\ \A c, d \in Certs \ old : cert'[c].key # 0 /\ cert'[d].key # 0 => cert'[c].key = cert'[d].key
                        /\ \A c \in old : ~Unrevoked(c)'
        BY DEF Holder
    <2>1. \A c \in Certs \ old : cert[c].key # 0 => cert[c].key = r.key
        BY <1>4 DEF NInv, Holder
    <2>2. \A c \in Certs \ old : cert'[c].key # 0 => cert'[c].key = r.key
        BY <1>2, <2>1
    <2>3. \A c \in old : c \in Certs \ {r.at} /\ ~Unrevoked(c)
        BY <1>4 DEF NInv, Holder, Issues, TypeOK
    <2> QED  BY <1>2, <2>2, <2>3 DEF Unrevoked
<1>10. Requests' /\ Waiting' /\ Identity' /\ Presented' /\ Order'
    <2>1. copies = 0 /\ old' = {} => \A c \in sent : cert'[c].revoked # "past"
        BY <1>2 DEF NInv, Order, OwnOrder, TypeOK
    <2>2. \A c \in Certs \ {r.at} : cert'[c].key = cert[c].key
        BY <1>2
    <2> QED  BY <1>3, <2>1, <2>2, EndedStep
<1>11. RefusedForCause'
    BY <1>3 DEF NInv, RefusedForCause
<1>12. NeverForked' /\ (copies <= events)'
    BY DEF NInv, NeverForked
<1> QED  BY <1>5, <1>6, <1>7, <1>8, <1>9, <1>10, <1>11, <1>12 DEF NInv

LEMMA NRenew == ASSUME NInv, NEW r \in reqs, Renew(r)  PROVE NInv'
<1>1. /\ r.at # 0 /\ r.tok = NoToken /\ reqs' = reqs \ {r}
      /\ UNCHANGED <<node, token, clock, old, sent, passed, disk, events, copies>>
    BY DEF Renew
<1>2. r.by \in Certs /\ cert[r.by].key = r.key /\ cert \in [Certs -> Cert]
    BY <1>1, CertRange DEF NInv, Requests, Issued, TypeOK
<1>3. CASE RenewIssued(r)
    <2>1. cert[r.by].revoked \in {"no", "ahead", "past", "rejoined", "removed", "forked"}
        BY <1>2 DEF Cert
    <2>2. late' = (IF r.by \in old /\ r.at < cert[r.by].rev THEN "yes" ELSE late) /\ late \in YN
        BY <1>3 DEF RenewIssued, NInv, TypeOK
    <2>3. Unrevoked(r.by) \/ r.at < cert[r.by].rev
        <3>1. r.at \in Nat /\ cert[r.by].rev \in Nat
            BY <1>2, Constants, CertRange DEF NInv, Cert
        <3> QED  BY <1>3, <2>1, <3>1 DEF RenewIssued, Refused, SupersededPast, Revoked, Unrevoked
    <2>4. late' = "no" => late = "no" /\ r.by \notin old
        BY <2>2, <2>3 DEF NInv, Holder
    <2>5. late' \in YN
        BY <2>2 DEF YN
    <2> QED  BY <1>1, <1>2, <1>3, <2>4, <2>5, SameKeyStep DEF RenewIssued
<1>4. CASE RenewFailed(r)
    <2>1. Answered(r, 0) /\ UNCHANGED <<cert, late>> /\ 0 \in 0 .. MaxCerts
        BY <1>4, Constants DEF RenewFailed
    <2>2. /\ mach' \in [Machines -> Mach] /\ Answers(r)
          /\ \A m \in Machines : mach'[m].pc = mach[m].pc /\ mach'[m].cert = mach[m].cert
        BY <2>1, AnsweredColumns
    <2> QED  BY <1>1, <2>1, <2>2, RefusingStep
<1>5. CASE RenewRefused(r)
    <2>1. UNCHANGED <<cert, late>>
        BY <1>5 DEF RenewRefused
    <2> QED  BY <1>1, <1>5, <2>1, RenewRefusedColumns, RefusingStep
<1> QED  BY <1>3, <1>4, <1>5 DEF Renew

\* The first answer of a token.
LEMMA TokenColumns ==
    ASSUME NInv, NEW r \in reqs, r.at # 0, r.tok # NoToken,
           token' = [token EXCEPT ![r.tok].used = r.key, ![r.tok].serial = r.at]
    PROVE  /\ token' \in [Tokens -> Token] /\ r.tok \in Tokens
           /\ token'[r.tok].used = r.key /\ token'[r.tok].serial = r.at
           /\ \A t \in Tokens \ {r.tok} : token'[t] = token[t]
<1> DEFINE t == r.tok
           k == r.key
           a == r.at
<1>1. t \in Tokens /\ k \in 0 .. MaxKeys /\ a \in 0 .. MaxCerts /\ token \in [Tokens -> Token]
    BY Constants DEF NInv, TypeOK, Request, Keys
<1>2. token' = [token EXCEPT ![t].used = k, ![t].serial = a]
    OBVIOUS
<1> HIDE DEF t, k, a
<1> DEFINE q == [token[t] EXCEPT !.used = k, !.serial = a]
<1>3. token' = [token EXCEPT ![t] = q]
    BY <1>1, <1>2
<1>4. q \in Token /\ q.used = k /\ q.serial = a
    BY <1>1 DEF Token
<1> HIDE DEF q
<1>5. /\ token' \in [Tokens -> Token] /\ token'[t].used = k /\ token'[t].serial = a
      /\ \A u \in Tokens \ {t} : token'[u] = token[u]
    BY <1>1, <1>3, <1>4
<1> QED  BY <1>1, <1>5 DEF t, k, a

\* A join that takes the name: what it finds is revoked, or nothing was issued.
LEMMA TakesStep ==
    ASSUME NInv, NEW r \in reqs, r.at # 0, r.tok # NoToken, reqs' = reqs \ {r},
           UNCHANGED <<clock, sent, passed, disk, events, copies>>,
           token' = [token EXCEPT ![r.tok].used = r.key, ![r.tok].serial = r.at], Answered(r, r.at),
           node' \in Node, node'.status = "joined", node'.current \in {node.current, 0},
           old' = {c \in Certs : cert[c].key # 0},
           NEW q \in [Certs -> Cert], cert' = Insert(q, r),
           \A c \in Certs : q[c].key = cert[c].key,
           \A c \in Certs : cert[c].key # 0 => q[c].revoked \notin {"no", "ahead"},
           \A c \in Certs : cert[c].key = 0 => q[c].revoked = "no",
           late' \in YN, NeverForked'
    PROVE  NInv'
<1>1. r \in Request /\ r.at \in 0 .. MaxCerts /\ r.key \in Keys
    BY CertRange DEF NInv
<1>2. /\ r.at \in Certs /\ cert' \in [Certs -> Cert]
      /\ cert'[r.at].key = r.key /\ cert'[r.at].revoked = "no"
      /\ \A c \in Certs \ {r.at} : cert'[c] = q[c]
    BY <1>1, InsertColumns
<1>3. /\ mach' \in [Machines -> Mach] /\ Answers(r)
      /\ \A m \in Machines : mach'[m].pc = mach[m].pc /\ mach'[m].cert = mach[m].cert
    BY <1>1, <1>2, AnsweredColumns
<1>4. cert[r.at].key = 0 /\ r.at <= clock /\ r.key # 0
    BY <1>1, Constants DEF NInv, Requests, Keys
<1>5. /\ token' \in [Tokens -> Token] /\ r.tok \in Tokens
      /\ token'[r.tok].used = r.key /\ token'[r.tok].serial = r.at
      /\ \A t \in Tokens \ {r.tok} : token'[t] = token[t]
    BY TokenColumns
<1>6. \A c \in Certs \ {r.at} : cert'[c].key = cert[c].key
    BY <1>2
<1>7. TypeOK'
    BY <1>2, <1>3, <1>5 DEF NInv, TypeOK
<1>9. Issues'
    <2>1. \A c \in Certs : cert'[c].key # 0 => c <= clock'
        BY <1>4, <1>6 DEF NInv, Issues
    <2>2. \A c \in Certs : cert'[c].key = 0 => cert'[c].revoked = "no"
        BY <1>2, <1>4
    <2>3. node'.current # 0 => Issued(node.current)'
        <3> HAVE node'.current # 0
        <3>1. node'.current = node.current /\ node.current \in 0 .. MaxCerts /\ Issued(node.current)
            BY CertRange DEF NInv, Issues
        <3>2. node.current \in Certs /\ cert'[node.current].key # 0
            BY <1>4, <1>6, <3>1, CertRange DEF NInv, Issued
        <3> QED  BY <3>1, <3>2 DEF Issued
    <2>4. \A t \in Tokens : token'[t].used # 0 => token'[t].serial # 0 /\ cert'[token'[t].serial].key = token'[t].used
        <3> TAKE t \in Tokens
        <3>1. CASE t = r.tok
            BY <1>2, <1>5, <3>1
        <3>2. CASE t # r.tok
            <4> HAVE token'[t].used # 0
            <4>1. token'[t] = token[t] /\ token[t].serial \in 0 .. MaxCerts /\ token[t].used # 0 /\ token[t].serial # 0
                BY <1>5, <3>2 DEF NInv, TypeOK, Token, Issues
            <4>2. Issued(token[t].serial)
                BY <4>1 DEF Issued, NInv, Issues
            <4>3. cert[token[t].serial].key = token[t].used
                BY <4>1 DEF NInv, Issues
            <4>4. token[t].serial \in Certs /\ token[t].serial # r.at
                BY <1>4, <4>1, <4>3, CertRange DEF NInv
            <4> QED  BY <1>6, <4>1, <4>3, <4>4
        <3> QED  BY <3>1, <3>2
    <2>5. \A c \in old' : cert'[c].key # 0
        BY <1>4, <1>6
    <2>6. node'.status # "none"
        OBVIOUS
    <2> QED  BY <2>1, <2>2, <2>3, <2>4, <2>5, <2>6 DEF Issues
<1>10. \A c \in Certs \ old' : cert'[c].revoked = "no"
    BY <1>2
<1>11. Causes'
    BY <1>10 DEF Causes
<1>12. FirstHolder'
    <2> SUFFICES ASSUME old' = {}
                 PROVE  /\ \A c, d \in Certs : cert'[c].key # 0 /\ cert'[d].key # 0 => cert'[c].key = cert'[d].key
                        /\ \A c \in Certs : Superseded(c)' => c < node'.current
        BY DEF FirstHolder
    <2>1. \A c \in Certs : cert'[c].key # 0 => c = r.at
        BY <1>6
    <2>2. \A c \in Certs : ~Superseded(c)'
        BY <1>10 DEF Superseded
    <2> QED  BY <2>1, <2>2
<1>13. Holder'
    <2>1. \A c \in Certs \ old' : cert'[c].key # 0 => c = r.at
        BY <1>6
    <2>2. \A c \in old' : ~Unrevoked(c)'
        BY <1>2, <1>4 DEF Unrevoked
    <2> QED  BY <2>1, <2>2 DEF Holder
<1>14. Requests' /\ Waiting' /\ Identity' /\ Presented' /\ Order'
    <2>1. copies = 0 /\ old' = {} => \A c \in sent : cert'[c].revoked # "past"
        BY <1>10 DEF NInv, TypeOK
    <2> QED  BY <1>3, <1>6, <2>1, EndedStep
<1>15. RefusedForCause'
    <2> SUFFICES ASSUME NEW m \in Machines, mach'[m].pc = "refused"  PROVE mach'[m].cert \in old'
        BY DEF RefusedForCause
    <2>1. mach[m].pc = "refused" /\ mach'[m].cert = mach[m].cert
        BY <1>3
    <2>2. Issued(mach[m].cert) /\ mach[m].cert \in 0 .. MaxCerts
        BY <2>1, CertRange DEF NInv, Identity, OwnIdentity
    <2> QED  BY <2>1, <2>2, CertRange DEF Issued, NInv
<1>16. (copies <= events)'
    BY DEF NInv
<1> QED  BY <1>7, <1>9, <1>11, <1>12, <1>13, <1>14, <1>15, <1>16 DEF NInv

LEMMA NJoin == ASSUME NInv, NEW r \in reqs, Join(r)  PROVE NInv'
<1>1. /\ r.at # 0 /\ r.tok # NoToken /\ reqs' = reqs \ {r}
      /\ UNCHANGED <<clock, sent, passed, disk, events, copies>>
    BY DEF Join
<1>2. cert \in [Certs -> Cert] /\ node \in Node /\ r.tok \in Tokens
    BY <1>1 DEF NInv, TypeOK, Request
<1>3. \A c \in Certs : Issued(c) <=> cert[c].key # 0
    BY Constants DEF Issued, Certs
<1>4. CASE JoinFirst(r) /\ RejoinNode(r)
    <2> DEFINE q == RevokeNodeCerts(cert, "rejoined", r.at)
    <2>1. /\ token' = [token EXCEPT ![r.tok].used = r.key, ![r.tok].serial = r.at] /\ Answered(r, r.at)
          /\ node' = [status |-> "joined", forked |-> "no", current |-> 0]
          /\ cert' = Insert(q, r) /\ old' = {c \in Certs : Issued(c)} /\ late' = "no"
        BY <1>4 DEF JoinFirst, RejoinNode
    <2>2. node' \in Node /\ node'.status = "joined" /\ node'.current = 0 /\ node'.forked = "no"
        BY <2>1, Constants DEF Node, YN
    <2>3. old' = {c \in Certs : cert[c].key # 0}
        BY <1>3, <2>1
    <2>4. /\ q \in [Certs -> Cert] /\ \A c \in Certs : q[c].key = cert[c].key
          /\ \A c \in Certs : \/ q[c].revoked = cert[c].revoked /\ ~(cert[c].key # 0 /\ Unrevoked(c))
                              \/ q[c].revoked = "rejoined" /\ cert[c].key # 0
        <3>1. r.at \in 0 .. MaxCerts + 1
            BY CertRange, Constants DEF NInv
        <3> QED  BY <1>2, <3>1, RevokeColumns
    <2>5. cert' = Insert(q, r)
        BY <2>1
    <2> HIDE DEF q
    <2>6. \A c \in Certs : cert[c].key # 0 => q[c].revoked \notin {"no", "ahead"}
        BY <2>4 DEF Unrevoked
    <2>7. \A c \in Certs : cert[c].key = 0 => q[c].revoked = "no"
        BY <2>4 DEF NInv, Issues
    <2>8. NeverForked'
        BY <2>2 DEF NeverForked
    <2>9. token' = [token EXCEPT ![r.tok].used = r.key, ![r.tok].serial = r.at] /\ Answered(r, r.at)
        BY <2>1
    <2>10. late' \in YN
        BY <2>1 DEF YN
    <2> QED  BY <1>1, <2>2, <2>3, <2>4, <2>5, <2>6, <2>7, <2>8, <2>9, <2>10, TakesStep
<1>5. CASE JoinFirst(r) /\ ~RejoinNode(r)
    <2>1. /\ token' = [token EXCEPT ![r.tok].used = r.key, ![r.tok].serial = r.at] /\ Answered(r, r.at)
          /\ node.status = "none" /\ node' = [node EXCEPT !.status = "joined"]
          /\ cert' = Insert(cert, r) /\ old' = old /\ late' \in YN
        BY <1>5 DEF JoinFirst, NInv, TypeOK
    <2>2. node' \in Node /\ node'.status = "joined" /\ node'.current = node.current /\ node'.forked = node.forked
        BY <1>2, <2>1 DEF Node
    <2>3. \A c \in Certs : cert[c].key = 0 /\ cert[c].revoked = "no"
        BY <2>1 DEF NInv, Issues
    <2>4. old' = {c \in Certs : cert[c].key # 0}
        BY <2>1, <2>3 DEF NInv, Issues, TypeOK
    <2>5. NeverForked'
        BY <1>1, <2>1, <2>2 DEF NInv, NeverForked
    <2> QED  BY <1>1, <1>2, <2>1, <2>2, <2>3, <2>4, <2>5, TakesStep
<1>6. CASE JoinAgain(r)
    <2> DEFINE b == token[r.tok].serial
    <2>1. /\ token[r.tok].used = r.key /\ cert[b].revoked = "no"
          /\ cert' = Insert(cert, r) /\ Answered(r, r.at) /\ UNCHANGED <<node, token, old, late>>
        BY <1>6 DEF JoinAgain, FirstAnswer
    <2>2. r.key \in Keys /\ b \in 0 .. MaxCerts
        BY <1>2 DEF NInv, TypeOK, Request, Token
    <2>3. b \in Certs /\ cert[b].key = r.key
        BY <1>2, <2>1, <2>2, CertRange, Constants DEF NInv, Issues, Keys
    <2>4. late' \in YN /\ (late' = "no" => late = "no" /\ b \notin old)
        BY <2>1 DEF Unrevoked, NInv, Holder, TypeOK
    <2> HIDE DEF b
    <2> QED  BY <1>1, <2>1, <2>3, <2>4, SameKeyStep
<1>7. CASE JoinRefused(r)
    <2>1. UNCHANGED <<node, cert, token, old, late>>
        BY <1>7 DEF JoinRefused
    <2> QED  BY <1>1, <1>7, <2>1, JoinRefusedColumns, RefusingStep
<1> QED  BY <1>4, <1>5, <1>6, <1>7 DEF Join

\* The database as it was.
LEMMA SameDatabase ==
    ASSUME NInv, UNCHANGED <<node, cert, token, old, late>>, clock' \in Nat, clock <= clock',
           copies' \in Nat, copies <= copies'
    PROVE  Issues' /\ Causes' /\ FirstHolder' /\ Holder' /\ NeverForked'
<1>1. \A c \in Certs : c \in Nat
    BY Constants DEF Certs
<1>2. clock \in Nat /\ copies \in Nat
    BY Constants DEF NInv, TypeOK
<1>3. \A c \in Certs : cert[c].key # 0 => c <= clock'
    BY <1>1, <1>2 DEF NInv, Issues
<1>4. Issues'
    BY <1>3 DEF NInv, Issues, Issued
<1>5. Causes' /\ FirstHolder' /\ Holder'
    BY DEF NInv, Causes, FirstHolder, Superseded, Holder, Unrevoked
<1>6. NeverForked'
    BY <1>2 DEF NInv, NeverForked
<1> QED  BY <1>4, <1>5, <1>6

\* A request goes.
LEMMA NLose == ASSUME NInv, NEW r \in reqs, Lose(r)  PROVE NInv'
<1>1. /\ r.live = "no" /\ reqs' = reqs \ {r}
      /\ UNCHANGED <<node, cert, token, clock, old, late, sent, passed, disk, mach, events, copies>>
    BY DEF Lose
<1>2. TypeOK'
    BY <1>1 DEF NInv, TypeOK
<1>3. Issues' /\ Causes' /\ FirstHolder' /\ Holder' /\ NeverForked'
    BY <1>1, SameDatabase, Constants DEF NInv, TypeOK
<1>4. Requests' /\ Waiting' /\ Identity' /\ RefusedForCause' /\ Presented'
    BY <1>1 DEF NInv, Requests, Waiting, Identity, OwnIdentity, RefusedForCause, Presented, Issued
<1>5. Order'
    BY <1>1 DEF NInv, Order, OwnOrder, Shown
<1> QED  BY <1>1, <1>2, <1>3, <1>4, <1>5 DEF NInv

\* A transaction begins with a clock later than every certificate.
LEMMA NBegin == ASSUME NInv, NEW r \in reqs, Begin(r)  PROVE NInv'
<1> DEFINE b == [r EXCEPT !.at = clock + 1]
<1>1. /\ r.at = 0 /\ clock < MaxCerts /\ clock' = clock + 1 /\ reqs' = (reqs \ {r}) \cup {b}
      /\ UNCHANGED <<node, cert, token, old, late, sent, passed, disk, mach, events, copies>>
    BY DEF Begin
<1>2. /\ clock \in Nat /\ clock + 1 \in Certs /\ clock + 1 \in 0 .. MaxCerts /\ clock + 1 # 0
      /\ \A c \in Certs : c \in Nat
    BY <1>1, Constants DEF NInv, TypeOK, Certs
<1>3. /\ b \in Request /\ b.at = clock + 1 /\ b.m = r.m /\ b.key = r.key /\ b.tok = r.tok
      /\ b.by = r.by /\ b.live = r.live
    <2> DEFINE k == clock + 1
    <2>1. k \in 0 .. MaxCerts /\ r \in Request
        BY <1>2 DEF NInv, TypeOK
    <2> HIDE DEF k
    <2>2. LET d == [r EXCEPT !.at = k]
          IN  /\ d \in Request /\ d.at = k /\ d.m = r.m /\ d.key = r.key /\ d.tok = r.tok
              /\ d.by = r.by /\ d.live = r.live
        BY <2>1 DEF Request
    <2> QED  BY <2>2 DEF k
<1>4. reqs' = (reqs \ {r}) \cup {b}
    BY <1>1
<1> HIDE DEF b
<1>5. TypeOK'
    BY <1>1, <1>2, <1>3, <1>4 DEF NInv, TypeOK
<1>6. Issues' /\ Causes' /\ FirstHolder' /\ Holder' /\ NeverForked'
    BY <1>1, <1>2, SameDatabase, Constants DEF NInv, TypeOK
<1>7. cert[clock + 1].key = 0 /\ \A q \in reqs : q.at # clock + 1 /\ q.at \in Nat
    BY <1>2, CertRange, Constants DEF NInv, Issues, Requests
<1>8. Requests'
    <2>1. \A q \in reqs' : q.at <= clock' /\ (q.at # 0 => cert'[q.at].key = 0)
        BY <1>1, <1>2, <1>3, <1>4, <1>7 DEF NInv, Requests
    <2>2. \A q, s \in reqs' : q.at = s.at /\ q.at # 0 => q = s
        BY <1>3, <1>4, <1>7 DEF NInv, Requests
    <2>3. \A q \in reqs' : q.tok = NoToken => Issued(q.by)' /\ cert'[q.by].key = q.key
        BY <1>1, <1>3, <1>4 DEF NInv, Requests, Issued
    <2> QED  BY <2>1, <2>2, <2>3 DEF Requests
<1>9. Waiting'
    <2>1. \A q \in reqs' : q.live = "yes" => mach'[q.m].call = "yes" /\ q.key = disk'[q.m].key
        BY <1>1, <1>3, <1>4 DEF NInv, Waiting
    <2>2. \A q, s \in reqs' : q.live = "yes" /\ s.live = "yes" /\ q.m = s.m => q = s
        BY <1>3, <1>4 DEF NInv, Waiting
    <2>3. \A q \in reqs' : q.live = "yes" /\ q.tok = NoToken => mach'[q.m].pc = "serve" /\ q.by = mach'[q.m].cert
        BY <1>1, <1>3, <1>4 DEF NInv, Waiting
    <2> QED  BY <2>1, <2>2, <2>3 DEF Waiting
<1>10. Identity' /\ RefusedForCause' /\ Presented'
    BY <1>1 DEF NInv, Identity, OwnIdentity, RefusedForCause, Presented, Issued
<1>11. Order'
    <2>1. \A c \in Certs : Shown(c)' => Shown(c) /\ c <= clock
        BY <1>1 DEF Shown, NInv, Presented, Issues, Issued
    <2>2. \A q \in reqs', c \in Certs :
            copies = 0 /\ Shown(c)' /\ q.live = "yes" /\ q.at # 0 /\ cert'[c].key = q.key => c < q.at
        <3> TAKE q \in reqs', c \in Certs
        <3>1. CASE q = b
            BY <1>2, <1>3, <2>1, <3>1
        <3>2. CASE q \in reqs
            BY <1>1, <2>1, <3>2 DEF NInv, Order, OwnOrder
        <3> QED  BY <1>4, <3>1, <3>2
    <2>3. \A q \in reqs' :
            copies = 0 /\ q.live = "yes" /\ q.at # 0 /\ disk'[q.m].joined = "yes" => disk'[q.m].chain < q.at
        <3> TAKE q \in reqs'
        <3>1. CASE q = b
            <4> HAVE disk'[q.m].joined = "yes"
            <4>1. q.m \in Machines /\ disk[q.m].joined = "yes"
                BY <1>1, <1>3, <3>1, CertRange DEF NInv
            <4>2. disk[q.m].chain \in Certs /\ cert[disk[q.m].chain].key # 0
                BY <4>1, CertRange DEF NInv, Identity, OwnIdentity, Issued
            <4>3. disk[q.m].chain <= clock
                BY <4>2 DEF NInv, Issues
            <4> QED  BY <1>1, <1>2, <1>3, <3>1, <4>2, <4>3
        <3>2. CASE q \in reqs
            BY <1>1, <3>2 DEF NInv, Order, OwnOrder
        <3> QED  BY <1>4, <3>1, <3>2
    <2> QED  BY <1>1, <2>1, <2>2, <2>3 DEF NInv, Order, OwnOrder
<1> QED  BY <1>1, <1>5, <1>6, <1>8, <1>9, <1>10, <1>11 DEF NInv

-----------------------------------------------------------------------------
(* The steps of a machine *)

\* A machine that waits for no answer, in its own directory.
LEMMA LocalStep ==
    ASSUME NInv, UNCHANGED control, NEW m \in Machines,
           mach' \in [Machines -> Mach], disk' \in [Machines -> Disk],
           \A n \in Machines \ {m} : mach'[n] = mach[n] /\ disk'[n] = disk[n],
           \A r \in reqs : r.live = "yes" => r.m # m,
           events' \in 0 .. MaxEvents, copies' \in 0 .. MaxEvents, copies <= copies', copies' <= events',
           OwnIdentity(m)',
           mach'[m].pc = "refused" => node.status = "removed" \/ node.forked = "yes" \/ mach'[m].cert \in old,
           copies' = 0 => OwnOrder(m)'
    PROVE  NInv'
<1>1. UNCHANGED <<node, cert, token, clock, old, late, reqs, sent, passed>>
    BY DEF control
<1>2. TypeOK'
    BY <1>1 DEF NInv, TypeOK
<1>3. Issues' /\ Causes' /\ FirstHolder' /\ Holder' /\ NeverForked'
    <2>1. clock \in Nat /\ copies' \in Nat
        BY Constants DEF NInv, TypeOK
    <2> QED  BY <1>1, <2>1, SameDatabase
<1>4. Requests' /\ Presented'
    BY <1>1 DEF NInv, Requests, Presented, Issued
<1>5. \A r \in reqs : r.live = "yes" => r.m \in Machines \ {m}
    BY CertRange DEF NInv
<1>6. Waiting'
    BY <1>1, <1>5 DEF NInv, Waiting
<1>7. Identity'
    BY <1>1 DEF NInv, Identity, OwnIdentity, Issued
<1>8. RefusedForCause'
    BY <1>1 DEF NInv, RefusedForCause
<1>9. Order'
    <2> SUFFICES ASSUME copies' = 0  PROVE Order'
        BY DEF Order
    <2>1. copies = 0
        BY Constants DEF NInv, TypeOK
    <2>2. \A c \in Certs : Shown(c)' <=> Shown(c)
        BY <1>1 DEF Shown
    <2>3. \A n \in Machines \ {m} : OwnOrder(n)'
        <3> SUFFICES ASSUME NEW n \in Machines \ {m}  PROVE OwnOrder(n)'
            OBVIOUS
        <3>1. mach'[n] = mach[n] /\ disk'[n] = disk[n] /\ OwnOrder(n)
            BY <2>1 DEF NInv, Order
        <3>2. \A k \in Machines : disk'[n].key = disk'[k].key /\ disk'[n].key # 0 => n = k
            <4> TAKE k \in Machines
            <4>1. CASE k = m
                BY <4>1 DEF OwnOrder
            <4>2. CASE k # m
                BY <3>1, <4>2 DEF OwnOrder
            <4> QED  BY <4>1, <4>2
        <3> QED  BY <1>1, <2>2, <3>1, <3>2 DEF OwnOrder
    <2>4. \A n \in Machines : OwnOrder(n)'
        BY <2>3
    <2>5. \A r \in reqs', c \in Certs :
            Shown(c)' /\ r.live = "yes" /\ r.at # 0 /\ cert'[c].key = r.key => c < r.at
        BY <1>1, <2>1, <2>2 DEF NInv, Order
    <2>6. \A r \in reqs' : r.live = "yes" /\ r.at # 0 /\ disk'[r.m].joined = "yes" => disk'[r.m].chain < r.at
        BY <1>1, <1>5, <2>1 DEF NInv, Order
    <2>7. old' = {} => \A c \in sent' : cert'[c].revoked # "past"
        BY <1>1, <2>1 DEF NInv, Order
    <2> QED  BY <2>4, <2>5, <2>6, <2>7 DEF Order
<1> QED  BY <1>2, <1>3, <1>4, <1>6, <1>7, <1>8, <1>9 DEF NInv

\* A machine that does not wait has no live request.
LEMMA NoneLive == ASSUME NInv, NEW m \in Machines, mach[m].call # "yes"  PROVE \A r \in reqs : r.live = "yes" => r.m # m
<1> QED  BY DEF NInv, Waiting

LEMMA Budgets == NInv => /\ events \in 0 .. MaxEvents /\ copies \in 0 .. MaxEvents /\ copies <= events
                         /\ copies \in Nat /\ events \in Nat
<1> QED  BY Constants DEF NInv, TypeOK

\* Runner::identity, column by column.
LEMMA LoadedColumns ==
    ASSUME NEW d \in Disk, NEW t \in Tokens \cup {NoToken}
    PROVE  /\ Loaded(d, t) \in Mach
           /\ Loaded(d, t).pc = IF d.joined = "yes" THEN "serve" ELSE "join"
           /\ d.joined = "yes" => Loaded(d, t).cert = d.chain
           /\ Loaded(d, t).call = "no" /\ Loaded(d, t).got = 0
<1> DEFINE p == IF d.joined = "yes" THEN "serve" ELSE "join"
           c == IF d.joined = "yes" THEN d.chain ELSE 0
<1>1. p \in {"serve", "join"} /\ c \in 0 .. MaxCerts /\ 0 \in 0 .. MaxCerts
    BY Constants DEF Disk
<1>2. Loaded(d, t) = [Off EXCEPT !.pc = p, !.cert = c, !.refused = t]
    BY DEF Loaded
<1>3. c = IF d.joined = "yes" THEN d.chain ELSE 0
    OBVIOUS
<1>4. p = IF d.joined = "yes" THEN "serve" ELSE "join"
    OBVIOUS
<1> HIDE DEF p, c
<1>5. Loaded(d, t) = [pc |-> p, cert |-> c, call |-> "no", got |-> 0, refused |-> t]
    BY <1>2 DEF Off
<1>6. [pc |-> p, cert |-> c, call |-> "no", got |-> 0, refused |-> t] \in Mach
    BY <1>1 DEF Mach, YN
<1> QED  BY <1>3, <1>4, <1>5, <1>6

\* A machine loads the identity of its directory: it serves with the last
\* certificate it stored.
LEMMA LoadsStep ==
    ASSUME NInv, UNCHANGED <<control, copies>>, NEW m \in Machines, mach[m].call = "no",
           NEW d \in Disk, NEW t \in Tokens \cup {NoToken},
           mach' = [mach EXCEPT ![m] = Loaded(d, t)], disk' = [disk EXCEPT ![m] = d],
           d.joined = "yes" => d = disk[m],
           d.key \in {0, disk[m].key},
           events' \in 0 .. MaxEvents, events <= events'
    PROVE  NInv'
<1>1. /\ Loaded(d, t) \in Mach
      /\ Loaded(d, t).pc = IF d.joined = "yes" THEN "serve" ELSE "join"
      /\ d.joined = "yes" => Loaded(d, t).cert = d.chain
      /\ Loaded(d, t).call = "no" /\ Loaded(d, t).got = 0
    BY LoadedColumns
<1>2. mach \in [Machines -> Mach] /\ disk \in [Machines -> Disk] /\ d.joined \in {"yes", "no"}
    BY DEF NInv, TypeOK, Disk, YN
<1>3. /\ mach' \in [Machines -> Mach] /\ disk' \in [Machines -> Disk]
      /\ \A n \in Machines \ {m} : mach'[n] = mach[n] /\ disk'[n] = disk[n]
      /\ mach'[m] = Loaded(d, t) /\ disk'[m] = d
    BY <1>1, <1>2
<1>4. UNCHANGED <<node, cert, sent, passed>>
    BY DEF control
<1>5. OwnIdentity(m)'
    <2>1. d.joined = "yes" => Issued(d.chain) /\ cert[d.chain].key = d.key
        BY DEF NInv, Identity, OwnIdentity
    <2> QED  BY <1>1, <1>2, <1>3, <1>4, <2>1 DEF OwnIdentity, Issued
<1>6. mach'[m].pc # "refused"
    BY <1>1, <1>3
<1>7. copies' = 0 => OwnOrder(m)'
    <2> HAVE copies' = 0
    <2>1. copies = 0 /\ OwnOrder(m)
        BY DEF NInv, Order
    <2>2. \A c \in Certs : Shown(c)' => Shown(c) /\ cert[c].key # 0
        BY <1>4 DEF Shown, NInv, Presented, Issues, Issued
    <2>3. \A n \in Machines : disk'[m].key = disk'[n].key /\ disk'[m].key # 0 => m = n
        BY <1>3, <2>1 DEF OwnOrder
    <2>4. d.chain \in Nat
        BY Constants DEF Disk
    <2>5. d.joined = "yes" => \A c \in Certs : Shown(c)' /\ cert'[c].key = d.key => c <= d.chain
        BY <1>4, <2>1, <2>2 DEF OwnOrder
    <2> QED  BY <1>1, <1>3, <2>3, <2>4, <2>5 DEF OwnOrder
<1>8. \A r \in reqs : r.live = "yes" => r.m # m
    BY NoneLive
<1>9. copies' \in 0 .. MaxEvents /\ copies <= copies' /\ copies' <= events'
    BY Budgets, Constants
<1> QED  BY <1>3, <1>5, <1>6, <1>7, <1>8, <1>9, LocalStep

LEMMA NStart == ASSUME NInv, NEW m \in Machines, Start(m)  PROVE NInv'
<1>1. /\ mach[m].pc = "off" /\ mach' = [mach EXCEPT ![m] = Loaded(disk[m], NoToken)] /\ disk' = disk
      /\ UNCHANGED <<control, copies, events>>
    BY DEF Start
<1>2. mach[m].call = "no" /\ disk[m] \in Disk /\ disk' = [disk EXCEPT ![m] = disk[m]]
    BY <1>1 DEF NInv, Identity, OwnIdentity, TypeOK
<1>3. events' \in 0 .. MaxEvents /\ events <= events'
    BY <1>1, Budgets
<1> QED  BY <1>1, <1>2, <1>3, LoadsStep

LEMMA NSetAside == ASSUME NInv, NEW m \in Machines, SetAside(m)  PROVE NInv'
<1>1. PICK d \in {disk[m], [disk[m] EXCEPT !.joined = "no"], [disk[m] EXCEPT !.joined = "no", !.chain = 0, !.key = 0]} :
        /\ mach[m].pc = "refused"
        /\ disk' = [disk EXCEPT ![m] = d]
        /\ mach' = [mach EXCEPT ![m] = Loaded(d, d.file)]
        /\ IF d.key = 0 THEN UNCHANGED events ELSE Event
        /\ UNCHANGED <<control, copies>>
    BY DEF SetAside
<1>2. disk[m] \in Disk /\ mach[m].call = "no" /\ 0 \in 0 .. MaxKeys /\ 0 \in 0 .. MaxCerts
    BY <1>1, Constants DEF NInv, TypeOK, Identity, OwnIdentity
<1>3. d \in Disk /\ (d.joined = "yes" => d = disk[m]) /\ d.key \in {0, disk[m].key}
    <2>1. CASE d = disk[m]
        BY <1>2, <2>1
    <2>2. CASE d = [disk[m] EXCEPT !.joined = "no"]
        BY <1>2, <2>2 DEF Disk, YN
    <2>3. CASE d = [disk[m] EXCEPT !.joined = "no", !.chain = 0, !.key = 0]
        BY <1>2, <2>3 DEF Disk, YN
    <2> QED  BY <1>1, <2>1, <2>2, <2>3
<1>4. d.file \in Tokens \cup {NoToken}
    BY <1>3 DEF Disk
<1>5. events' \in 0 .. MaxEvents /\ events <= events'
    BY <1>1, Budgets, EventColumn DEF NInv
<1> QED  BY <1>1, <1>2, <1>3, <1>4, <1>5, LoadsStep

\* A key that is not used, the least.
LEMMA FreshKey ==
    ASSUME Keys \ UsedKeys # {}
    PROVE  (CHOOSE k \in Keys \ UsedKeys : \A l \in Keys \ UsedKeys : k <= l) \in Keys \ UsedKeys
<1> DEFINE S == Keys \ UsedKeys
<1>1. S \subseteq Nat /\ S # {}
    BY Constants DEF Keys
<1>2. IsWellFoundedOn(OpToRel(<, Nat), Nat)
    BY NatLessThanWellFounded
<1> HIDE DEF S
<1>3. \E k \in S : \A l \in S : ~(<<l, k>> \in OpToRel(<, Nat))
    BY <1>1, <1>2, WFMin
<1>4. \E k \in S : \A l \in S : k <= l
    <2>1. PICK k \in S : \A l \in S : ~(<<l, k>> \in OpToRel(<, Nat))
        BY <1>3
    <2>2. \A l \in S : ~(l < k)
        BY <1>1, <2>1 DEF OpToRel
    <2>3. \A l \in S : l \in Nat /\ k \in Nat
        BY <1>1
    <2>4. \A l \in S : k <= l
        BY <2>2, <2>3
    <2> QED  BY <2>4
<1>5. (CHOOSE k \in S : \A l \in S : k <= l) \in S
    BY <1>4
<1> QED  BY <1>5 DEF S

\* The key is no other machine's, and no certificate's.
LEMMA NJoinKey == ASSUME NInv, NEW m \in Machines, JoinKey(m)  PROVE NInv'
<1> DEFINE k == CHOOSE k \in Keys \ UsedKeys : \A l \in Keys \ UsedKeys : k <= l
<1>1. /\ mach[m].pc = "join" /\ disk[m].key = 0 /\ disk' = [disk EXCEPT ![m].key = k]
      /\ UNCHANGED <<control, mach, events, copies>>
    BY DEF JoinKey
<1>2. k \in Keys \ UsedKeys
    BY FreshKey DEF JoinKey
<1> HIDE DEF k
<1>3. UNCHANGED <<node, cert, sent, passed>>
    BY <1>1 DEF control
<1>4. k # 0 /\ k \in 0 .. MaxKeys /\ (\A n \in Machines : disk[n].key # k) /\ (\A c \in Certs : cert[c].key # k)
    BY <1>2, Constants DEF Keys, UsedKeys
<1>5. /\ disk' \in [Machines -> Disk] /\ \A n \in Machines \ {m} : disk'[n] = disk[n]
      /\ disk'[m].key = k /\ disk'[m].joined = disk[m].joined /\ disk'[m].chain = disk[m].chain
    BY <1>1, <1>4 DEF NInv, TypeOK, Disk
<1>6. mach[m].got = 0 /\ disk[m].joined = "no"
    BY <1>1 DEF NInv, Identity, OwnIdentity, Issued
<1>7. \A r \in reqs : r.live = "yes" => r.m # m
    <2>1. \A r \in reqs : r.key # 0
        BY CertRange, Constants DEF NInv, Keys
    <2> QED  BY <1>1, <2>1 DEF NInv, Waiting
<1>8. OwnIdentity(m)'
    BY <1>1, <1>3, <1>5, <1>6 DEF NInv, Identity, OwnIdentity, Issued
<1>9. copies' = 0 => OwnOrder(m)'
    <2>1. \A n \in Machines : disk'[m].key = disk'[n].key /\ disk'[m].key # 0 => m = n
        BY <1>4, <1>5
    <2> QED  BY <1>1, <1>3, <1>4, <1>5, <1>6, <2>1 DEF OwnOrder
<1> QED  BY <1>1, <1>5, <1>7, <1>8, <1>9, LocalStep, Budgets DEF NInv, TypeOK

\* NodeDir::store.
LEMMA NStoreChain == ASSUME NInv, NEW m \in Machines, StoreChain(m)  PROVE NInv'
<1> DEFINE g == mach[m].got
<1>1. /\ g # 0 /\ disk' = [disk EXCEPT ![m].chain = g] /\ UNCHANGED <<control, mach, events, copies>>
    BY DEF StoreChain
<1>2. g \in 0 .. MaxCerts /\ Issued(g) /\ cert[g].key = disk[m].key /\ g \in Nat
    BY <1>1, CertRange, Constants DEF NInv, Identity, OwnIdentity
<1>3. UNCHANGED <<node, cert, sent, passed>>
    BY <1>1 DEF control
<1>4. g = mach[m].got /\ mach' = mach
    BY <1>1
<1> HIDE DEF g
<1>5. /\ disk' \in [Machines -> Disk] /\ \A n \in Machines \ {m} : disk'[n] = disk[n]
      /\ disk'[m].key = disk[m].key /\ disk'[m].joined = disk[m].joined /\ disk'[m].chain = g
    BY <1>1, <1>2 DEF NInv, TypeOK, Disk
<1>6. mach[m].call # "yes"
    BY <1>1, <1>4 DEF NInv, Identity, OwnIdentity
<1>7. OwnIdentity(m)'
    BY <1>2, <1>3, <1>4, <1>5 DEF NInv, Identity, OwnIdentity, Issued
<1>8. copies' = 0 => OwnOrder(m)'
    <2> HAVE copies' = 0
    <2>1. OwnOrder(m)
        BY <1>1 DEF NInv, Order
    <2>2. \A n \in Machines : disk'[m].key = disk'[n].key /\ disk'[m].key # 0 => m = n
        BY <1>5, <2>1 DEF OwnOrder
    <2>3. \A c \in Certs : Shown(c)' => Shown(c) /\ c \in Nat
        BY <1>3, Constants DEF Shown, Certs
    <2>4. mach[m].cert \in Nat
        BY CertRange, Constants DEF NInv
    <2> QED  BY <1>1, <1>2, <1>3, <1>4, <1>5, <2>1, <2>2, <2>3, <2>4 DEF OwnOrder
<1>9. mach'[m].pc = "refused" => node.status = "removed" \/ node.forked = "yes" \/ mach'[m].cert \in old
    BY <1>4 DEF NInv, RefusedForCause
<1> QED  BY <1>1, <1>4, <1>5, <1>6, <1>7, <1>8, <1>9, LocalStep, NoneLive, Budgets DEF NInv, TypeOK

LEMMA NStoreState == ASSUME NInv, NEW m \in Machines, StoreState(m)  PROVE NInv'
<1> DEFINE g == mach[m].got
<1>1. /\ g # 0 /\ disk[m].chain = g /\ disk' = [disk EXCEPT ![m].joined = "yes"]
      /\ mach' = [mach EXCEPT ![m].pc = "serve", ![m].cert = g, ![m].got = 0]
      /\ UNCHANGED <<control, events, copies>>
    BY DEF StoreState
<1>2. g \in 0 .. MaxCerts /\ 0 \in 0 .. MaxCerts /\ Issued(g) /\ cert[g].key = disk[m].key /\ g \in Nat
    BY <1>1, CertRange, Constants DEF NInv, Identity, OwnIdentity
<1>3. UNCHANGED <<node, cert, sent, passed>>
    BY <1>1 DEF control
<1>4. mach[m].call # "yes" /\ mach[m].call \in YN
    BY <1>1 DEF NInv, Identity, OwnIdentity, TypeOK, Mach
<1>5. copies = 0 => OwnOrder(m) /\ \A c \in Certs : Shown(c) /\ cert[c].key = disk[m].key => c < g
    BY <1>1 DEF NInv, Order, OwnOrder
<1> DEFINE q == [mach[m] EXCEPT !.pc = "serve", !.cert = g, !.got = 0]
<1>6. mach' = [mach EXCEPT ![m] = q] /\ mach \in [Machines -> Mach]
    BY <1>1 DEF NInv, TypeOK
<1> HIDE DEF g
<1>7. q \in Mach /\ q.pc = "serve" /\ q.cert = g /\ q.got = 0 /\ q.call = mach[m].call
    BY <1>2, <1>6 DEF Mach
<1> HIDE DEF q
<1>8. mach' \in [Machines -> Mach] /\ mach'[m] = q /\ \A n \in Machines \ {m} : mach'[n] = mach[n]
    BY <1>6, <1>7
<1>9. /\ disk' \in [Machines -> Disk] /\ \A n \in Machines \ {m} : disk'[n] = disk[n]
      /\ disk'[m].key = disk[m].key /\ disk'[m].joined = "yes" /\ disk'[m].chain = g
    BY <1>1 DEF NInv, TypeOK, Disk, YN
<1>10. OwnIdentity(m)'
    BY <1>2, <1>3, <1>4, <1>7, <1>8, <1>9 DEF OwnIdentity, Issued, YN
<1>11. copies' = 0 => OwnOrder(m)'
    <2> HAVE copies' = 0
    <2>1. OwnOrder(m) /\ \A c \in Certs : Shown(c) /\ cert[c].key = disk[m].key => c < g
        BY <1>1, <1>5
    <2>2. \A n \in Machines : disk'[m].key = disk'[n].key /\ disk'[m].key # 0 => m = n
        BY <1>9, <2>1 DEF OwnOrder
    <2>3. \A c \in Certs : Shown(c)' => Shown(c) /\ c \in Nat
        BY <1>3, Constants DEF Shown, Certs
    <2> QED  BY <1>2, <1>3, <1>7, <1>8, <1>9, <2>1, <2>2, <2>3 DEF OwnOrder
<1>12. mach'[m].pc # "refused"
    BY <1>7, <1>8
<1>13. UNCHANGED <<control, events, copies>>
    BY <1>1
<1> QED  BY <1>4, <1>8, <1>9, <1>10, <1>11, <1>12, <1>13, LocalStep, NoneLive, Budgets

LEMMA NStoreFails == ASSUME NInv, NEW m \in Machines, StoreFails(m)  PROVE NInv'
<1>1. /\ mach[m].got # 0 /\ mach' = [mach EXCEPT ![m].got = 0] /\ disk' = disk
      /\ Event /\ UNCHANGED <<control, copies>>
    BY DEF StoreFails
<1>2. UNCHANGED <<node, cert, sent, passed>>
    BY <1>1 DEF control
<1>3. mach[m].call # "yes"
    BY <1>1 DEF NInv, Identity, OwnIdentity
<1>4. /\ mach' \in [Machines -> Mach] /\ \A n \in Machines \ {m} : mach'[n] = mach[n]
      /\ mach'[m].got = 0 /\ mach'[m].pc = mach[m].pc /\ mach'[m].cert = mach[m].cert /\ mach'[m].call = mach[m].call
    <2>1. 0 \in 0 .. MaxCerts
        BY Constants
    <2> QED  BY <1>1, <2>1 DEF NInv, TypeOK, Mach
<1>5. OwnIdentity(m)'
    BY <1>1, <1>2, <1>4 DEF NInv, Identity, OwnIdentity, Issued
<1>6. copies' = 0 => OwnOrder(m)'
    <2>1. \A c \in Certs : Shown(c)' => Shown(c)
        BY <1>2 DEF Shown
    <2> QED  BY <1>1, <1>2, <1>4, <2>1 DEF NInv, Order, OwnOrder
<1>7. mach'[m].pc = "refused" => node.status = "removed" \/ node.forked = "yes" \/ mach'[m].cert \in old
    BY <1>4 DEF NInv, RefusedForCause
<1>8. events' \in 0 .. MaxEvents /\ copies' <= events'
    BY <1>1, Budgets, EventColumn DEF NInv
<1> QED  BY <1>1, <1>3, <1>4, <1>5, <1>6, <1>7, <1>8, LocalStep, NoneLive, Budgets DEF NInv, TypeOK

LEMMA NDenied == ASSUME NInv, NEW m \in Machines, Denied(m)  PROVE NInv'
<1>1. /\ mach[m].pc = "serve" /\ mach[m].call = "no" /\ mach[m].got = 0 /\ Banned(mach[m].cert)
      /\ mach' = [mach EXCEPT ![m].pc = "refused"] /\ disk' = disk
      /\ UNCHANGED <<control, events, copies>>
    BY DEF Denied, Refused, Revoked, Banned
<1>2. UNCHANGED <<node, cert, sent, passed>>
    BY <1>1 DEF control
<1> DEFINE q == [mach[m] EXCEPT !.pc = "refused"]
<1>3. mach' = [mach EXCEPT ![m] = q] /\ mach \in [Machines -> Mach]
    BY <1>1 DEF NInv, TypeOK
<1>4. q \in Mach /\ q.pc = "refused" /\ q.got = mach[m].got /\ q.cert = mach[m].cert /\ q.call = mach[m].call
    BY <1>3 DEF Mach
<1> HIDE DEF q
<1>5. /\ mach' \in [Machines -> Mach] /\ mach'[m] = q /\ \A n \in Machines \ {m} : mach'[n] = mach[n]
    BY <1>3, <1>4
<1>6. OwnIdentity(m)'
    BY <1>1, <1>2, <1>4, <1>5 DEF NInv, Identity, OwnIdentity, Issued
<1>7. copies' = 0 => OwnOrder(m)'
    <2>1. \A c \in Certs : Shown(c)' => Shown(c)
        BY <1>2 DEF Shown
    <2> QED  BY <1>1, <1>2, <1>4, <1>5, <2>1 DEF NInv, Order, OwnOrder
<1>8. node.status = "removed" \/ node.forked = "yes" \/ mach'[m].cert \in old
    <2>1. Issued(mach[m].cert) /\ mach[m].cert \in 0 .. MaxCerts
        BY <1>1, CertRange DEF NInv, Identity, OwnIdentity
    <2> QED  BY <1>1, <1>4, <1>5, <2>1, RefusedCause
<1> QED  BY <1>1, <1>5, <1>6, <1>7, <1>8, LocalStep, NoneLive, Budgets DEF NInv, TypeOK

\* A machine presents the certificate it serves with: none of its key was shown
\* that is later.
LEMMA NPresent == ASSUME NInv, NEW m \in Machines, Present(m)  PROVE NInv'
<1> DEFINE x == mach[m].cert
<1>1. /\ mach[m].pc = "serve" /\ sent' = sent \cup {x}
      /\ UNCHANGED <<node, cert, token, clock, old, late, reqs, passed, disk, mach, events, copies>>
    BY DEF Present
<1>2. x \in Certs /\ cert[x].key # 0 /\ cert[x].key = disk[m].key /\ disk[m].joined = "yes"
    BY <1>1, CertRange DEF NInv, Identity, OwnIdentity, Issued
<1>3. mach[m].cert = x
    OBVIOUS
<1> HIDE DEF x
<1>4. TypeOK'
    BY <1>1, <1>2 DEF NInv, TypeOK
<1>5. Issues' /\ Causes' /\ FirstHolder' /\ Holder' /\ NeverForked'
    BY <1>1, SameDatabase, Constants DEF NInv, TypeOK
<1>6. Requests' /\ Waiting' /\ Identity' /\ RefusedForCause' /\ Presented'
    BY <1>1, <1>2 DEF NInv, Requests, Waiting, Identity, OwnIdentity, RefusedForCause, Presented, Issued
<1>7. Order'
    <2> SUFFICES ASSUME copies = 0  PROVE Order'
        BY <1>1 DEF Order
    <2>1. \A c \in Certs : Shown(c)' => Shown(c) \/ c = x
        BY <1>1 DEF Shown
    <2>2. (\A n \in Machines : OwnOrder(n)) /\ (\A n \in Machines : disk[n].key = cert[x].key => n = m)
        BY <1>2 DEF NInv, Order, OwnOrder
    <2>3. /\ x <= disk[m].chain /\ (mach[m].got # 0 => x < mach[m].got)
          /\ x \in Nat
        BY <1>1, <1>2, <1>3, <2>2, Constants DEF OwnOrder, Certs
    <2>4. \A n \in Machines : OwnOrder(n)'
        <3> SUFFICES ASSUME NEW n \in Machines  PROVE OwnOrder(n)'
            OBVIOUS
        <3>1. OwnOrder(n) /\ (cert[x].key = disk[n].key => n = m)
            BY <2>2
        <3>2. \A c \in Certs : Shown(c)' /\ cert'[c].key = disk'[n].key =>
                /\ mach'[n].pc = "serve" => c <= mach'[n].cert
                /\ disk'[n].joined = "yes" => c <= disk'[n].chain
                /\ mach'[n].got # 0 => c < mach'[n].got
            <4> TAKE c \in Certs
            <4>1. CASE c = x
                BY <1>1, <1>3, <2>3, <3>1, <4>1
            <4>2. CASE c # x
                BY <1>1, <2>1, <3>1, <4>2 DEF OwnOrder
            <4> QED  BY <4>1, <4>2
        <3> QED  BY <1>1, <3>1, <3>2 DEF OwnOrder
    <2>5. \A r \in reqs', c \in Certs :
            Shown(c)' /\ r.live = "yes" /\ r.at # 0 /\ cert'[c].key = r.key => c < r.at
        <3> TAKE r \in reqs', c \in Certs
        <3> HAVE Shown(c)' /\ r.live = "yes" /\ r.at # 0 /\ cert'[c].key = r.key
        <3>1. CASE c = x
            <4>1. r \in reqs /\ r.m \in Machines /\ r.at \in Nat /\ disk[r.m].key = cert[x].key
                BY <1>1, <3>1, CertRange, Constants DEF NInv, Waiting
            <4>2. r.m = m
                BY <2>2, <4>1
            <4>3. disk[m].chain < r.at
                BY <1>2, <4>1, <4>2 DEF NInv, Order
            <4>4. disk[m].chain \in Nat
                BY CertRange, Constants DEF NInv
            <4> QED  BY <2>3, <3>1, <4>1, <4>3, <4>4
        <3>2. CASE c # x
            BY <1>1, <2>1, <3>2 DEF NInv, Order
        <3> QED  BY <3>1, <3>2
    <2>6. old' = {} => \A c \in sent' : cert'[c].revoked # "past"
        <3> SUFFICES ASSUME old = {}, cert[x].revoked = "past"  PROVE FALSE
            BY <1>1 DEF NInv, Order
        <3>1. x < node.current /\ node.current \in Certs /\ cert[node.current].key = cert[x].key
            <4>1. x < node.current /\ node.current \in 0 .. MaxCerts
                BY <1>2, CertRange DEF NInv, FirstHolder, Superseded
            <4>2. node.current # 0
                BY <2>3, <4>1
            <4>3. node.current \in Certs /\ cert[node.current].key # 0
                BY <4>1, <4>2, CertRange DEF NInv, Issues, Issued
            <4> QED  BY <1>2, <4>1, <4>3 DEF NInv, FirstHolder
        <3>2. Shown(node.current)
            BY <3>1, Constants DEF Shown, Certs
        <3>3. node.current <= x
            BY <1>1, <1>2, <1>3, <2>2, <3>1, <3>2 DEF OwnOrder
        <3> QED  BY <2>3, <3>1, <3>3, Constants DEF Certs
    <2>7. \A r \in reqs' : r.live = "yes" /\ r.at # 0 /\ disk'[r.m].joined = "yes" => disk'[r.m].chain < r.at
        BY <1>1 DEF NInv, Order
    <2> QED  BY <2>4, <2>5, <2>6, <2>7 DEF Order
<1> QED  BY <1>1, <1>4, <1>5, <1>6, <1>7 DEF NInv

\* The operator's token goes to the token file alone.
LEMMA NPutToken == ASSUME NInv, NEW m \in Machines, NEW t \in Tokens, PutToken(m, t)  PROVE NInv'
<1>1. disk' = [disk EXCEPT ![m].file = t] /\ Event /\ UNCHANGED <<control, mach, copies>>
    BY DEF PutToken
<1>2. UNCHANGED <<node, cert, token, clock, old, late, reqs, sent, passed>>
    BY <1>1 DEF control
<1>3. /\ disk' \in [Machines -> Disk]
      /\ \A n \in Machines : disk'[n].key = disk[n].key /\ disk'[n].joined = disk[n].joined /\ disk'[n].chain = disk[n].chain
    BY <1>1 DEF NInv, TypeOK, Disk
<1>4. events' \in 0 .. MaxEvents /\ copies' <= events'
    BY <1>1, Budgets, EventColumn DEF NInv
<1>5. TypeOK'
    BY <1>1, <1>2, <1>3, <1>4 DEF NInv, TypeOK
<1>6. Issues' /\ Causes' /\ FirstHolder' /\ Holder' /\ NeverForked'
    BY <1>1, <1>2, SameDatabase, Constants DEF NInv, TypeOK
<1>7. \A r \in reqs : r.m \in Machines
    BY CertRange DEF NInv
<1>8. Requests' /\ Waiting' /\ RefusedForCause' /\ Presented'
    BY <1>1, <1>2, <1>3, <1>7 DEF NInv, Requests, Waiting, RefusedForCause, Presented, Issued
<1>9. Identity'
    BY <1>1, <1>2, <1>3 DEF NInv, Identity, OwnIdentity, Issued
<1>10. Order'
    BY <1>1, <1>2, <1>3, <1>7 DEF NInv, Order, OwnOrder, Shown
<1> QED  BY <1>4, <1>5, <1>6, <1>8, <1>9, <1>10 DEF NInv

\* A directory is copied to a machine that is off; from there on a key may be in
\* two directories.
LEMMA NCopy == ASSUME NInv, NEW m \in Machines, NEW n \in Machines, Copy(m, n)  PROVE NInv'
<1>1. /\ Event /\ mach[n].pc = "off" /\ disk[m].joined = "yes" /\ copies' = copies + 1
      /\ disk' = [disk EXCEPT ![n] = disk[m]] /\ UNCHANGED <<control, mach>>
    BY DEF Copy
<1>2. disk' \in [Machines -> Disk] /\ disk'[n] = disk[m] /\ \A k \in Machines \ {n} : disk'[k] = disk[k]
    BY <1>1 DEF NInv, TypeOK
<1>3. /\ events' \in 0 .. MaxEvents /\ events' = events + 1 /\ copies \in Nat /\ events \in Nat /\ copies <= events
    BY <1>1, Budgets, EventColumn DEF NInv
<1>4. copies' \in 0 .. MaxEvents /\ copies <= copies' /\ copies' <= events' /\ copies' # 0
    BY <1>1, <1>3, Constants
<1>5. mach[n].call # "yes"
    BY <1>1 DEF NInv, Identity, OwnIdentity
<1>6. OwnIdentity(n)'
    <2>1. UNCHANGED <<cert, mach>>
        BY <1>1 DEF control
    <2>2. OwnIdentity(m) /\ OwnIdentity(n)
        BY DEF NInv, Identity
    <2> QED  BY <1>1, <1>2, <2>1, <2>2 DEF OwnIdentity, Issued
<1>7. mach' = mach /\ mach \in [Machines -> Mach]
    BY <1>1 DEF NInv, TypeOK
<1> QED  BY <1>1, <1>2, <1>3, <1>4, <1>5, <1>6, <1>7, LocalStep, NoneLive

\* A request is sent, for the key of the machine's directory.
LEMMA SendStep ==
    ASSUME NInv, NEW m \in Machines, NEW t \in Tokens \cup {NoToken}, NEW b \in 0 .. MaxCerts,
           Send(m, t, b), disk[m].key # 0, mach[m].pc \in {"join", "serve"},
           t = NoToken => mach[m].pc = "serve" /\ b = mach[m].cert
    PROVE  NInv'
<1> DEFINE k == disk[m].key
           r == [m |-> m, key |-> k, tok |-> t, by |-> b, at |-> 0, live |-> "yes"]
<1>1. /\ mach[m].call = "no" /\ mach[m].got = 0
      /\ reqs' = reqs \cup {r} /\ mach' = [mach EXCEPT ![m].call = "yes"]
      /\ UNCHANGED <<node, cert, token, clock, old, late, sent, passed, disk, events, copies>>
    BY DEF Send
<1>2. k \in Keys /\ 0 \in 0 .. MaxCerts /\ k = disk[m].key
    BY Constants DEF NInv, TypeOK, Disk, Keys
<1> HIDE DEF k
<1>3. r \in Request /\ r.m = m /\ r.key = k /\ r.tok = t /\ r.by = b /\ r.at = 0 /\ r.live = "yes"
    BY <1>2 DEF Request, YN
<1>4. reqs' = reqs \cup {r}
    BY <1>1
<1> HIDE DEF r
<1>5. /\ mach' \in [Machines -> Mach] /\ \A n \in Machines \ {m} : mach'[n] = mach[n]
      /\ mach'[m].call = "yes" /\ mach'[m].got = mach[m].got /\ mach'[m].pc = mach[m].pc /\ mach'[m].cert = mach[m].cert
    BY <1>1 DEF NInv, TypeOK, Mach, YN
<1>6. TypeOK'
    BY <1>1, <1>3, <1>4, <1>5 DEF NInv, TypeOK
<1>7. Issues' /\ Causes' /\ FirstHolder' /\ Holder' /\ NeverForked'
    BY <1>1, SameDatabase, Constants DEF NInv, TypeOK
<1>8. \A s \in reqs : s.m \in Machines /\ (s.live = "yes" => s.m # m)
    BY <1>1, CertRange DEF NInv, Waiting
<1>9. Requests'
    <2>1. clock \in Nat /\ 0 <= clock
        BY Constants DEF NInv, TypeOK
    <2>2. \A s \in reqs' : s.at <= clock' /\ (s.at # 0 => cert'[s.at].key = 0)
        BY <1>1, <1>3, <1>4, <2>1 DEF NInv, Requests
    <2>3. \A s, u \in reqs' : s.at = u.at /\ s.at # 0 => s = u
        BY <1>3, <1>4 DEF NInv, Requests
    <2>4. t = NoToken => Issued(b) /\ cert[b].key = k
        BY <1>2 DEF NInv, Identity, OwnIdentity
    <2>5. \A s \in reqs' : s.tok = NoToken => Issued(s.by)' /\ cert'[s.by].key = s.key
        BY <1>1, <1>3, <1>4, <2>4 DEF NInv, Requests, Issued
    <2> QED  BY <2>2, <2>3, <2>5 DEF Requests
<1>10. Waiting'
    <2>1. \A s \in reqs' : s.live = "yes" => mach'[s.m].call = "yes" /\ s.key = disk'[s.m].key
        BY <1>1, <1>2, <1>3, <1>4, <1>5, <1>8 DEF NInv, Waiting
    <2>2. \A s, u \in reqs' : s.live = "yes" /\ u.live = "yes" /\ s.m = u.m => s = u
        BY <1>3, <1>4, <1>8 DEF NInv, Waiting
    <2>3. \A s \in reqs' : s.live = "yes" /\ s.tok = NoToken => mach'[s.m].pc = "serve" /\ s.by = mach'[s.m].cert
        BY <1>3, <1>4, <1>5, <1>8 DEF NInv, Waiting
    <2> QED  BY <2>1, <2>2, <2>3 DEF Waiting
<1>11. Identity'
    BY <1>1, <1>5 DEF NInv, Identity, OwnIdentity, Issued
<1>12. RefusedForCause' /\ Presented'
    BY <1>1, <1>5 DEF NInv, RefusedForCause, Presented
<1>13. Order'
    <2> SUFFICES ASSUME copies = 0  PROVE Order'
        BY <1>1 DEF Order
    <2>1. \A c \in Certs : Shown(c)' <=> Shown(c)
        BY <1>1 DEF Shown
    <2>2. \A n \in Machines : mach'[n].pc = mach[n].pc /\ mach'[n].cert = mach[n].cert /\ mach'[n].got = mach[n].got
        BY <1>5
    <2>3. \A n \in Machines : OwnOrder(n)'
        BY <1>1, <2>1, <2>2 DEF NInv, Order, OwnOrder
    <2>4. \A s \in reqs' : s.at # 0 => s \in reqs
        BY <1>3, <1>4
    <2> QED  BY <1>1, <2>1, <2>3, <2>4 DEF NInv, Order
<1> QED  BY <1>1, <1>6, <1>7, <1>9, <1>10, <1>11, <1>12, <1>13 DEF NInv

LEMMA NSendJoin == ASSUME NInv, NEW m \in Machines, SendJoin(m)  PROVE NInv'
<1>1. /\ mach[m].pc = "join" /\ disk[m].key # 0 /\ disk[m].file # NoToken /\ Send(m, disk[m].file, 0)
      /\ disk[m].file \in Tokens \cup {NoToken} /\ 0 \in 0 .. MaxCerts
    BY Constants DEF SendJoin, NInv, TypeOK, Disk
<1> QED  BY <1>1, SendStep

LEMMA NSendRenew == ASSUME NInv, NEW m \in Machines, SendRenew(m)  PROVE NInv'
<1>1. mach[m].pc = "serve" /\ Send(m, NoToken, mach[m].cert) /\ mach[m].cert \in 0 .. MaxCerts /\ disk[m].key # 0
    BY CertRange DEF SendRenew, NInv, Identity, OwnIdentity, Issued
<1> QED  BY <1>1, SendStep

\* The requests of a machine that waits no more, column by column.
LEMMA ForgottenColumns ==
    ASSUME TypeOK, NEW m \in Machines
    PROVE  /\ Forgotten(m) \subseteq Request
           /\ \A q \in Forgotten(m) : \E r \in reqs :
                /\ q.m = r.m /\ q.key = r.key /\ q.tok = r.tok /\ q.by = r.by /\ q.at = r.at
                /\ q.live = "yes" => r.live = "yes" /\ r.m # m
                /\ q = IF r.m = m THEN [r EXCEPT !.live = "no"] ELSE r
<1> SUFFICES ASSUME NEW q \in Forgotten(m)
             PROVE  /\ q \in Request
                    /\ \E r \in reqs :
                        /\ q.m = r.m /\ q.key = r.key /\ q.tok = r.tok /\ q.by = r.by /\ q.at = r.at
                        /\ q.live = "yes" => r.live = "yes" /\ r.m # m
                        /\ q = IF r.m = m THEN [r EXCEPT !.live = "no"] ELSE r
    OBVIOUS
<1>1. PICK r \in reqs : q = IF r.m = m THEN [r EXCEPT !.live = "no"] ELSE r
    BY DEF Forgotten
<1>2. r \in Request
    BY DEF TypeOK
<1>3. CASE r.m = m
    <2>1. q = [r EXCEPT !.live = "no"]
        BY <1>1, <1>3
    <2>2. /\ q \in Request /\ q.m = r.m /\ q.key = r.key /\ q.tok = r.tok /\ q.by = r.by /\ q.at = r.at
          /\ q.live = "no"
        BY <1>2, <2>1 DEF Request, YN
    <2> QED  BY <1>1, <2>2
<1>4. CASE r.m # m
    BY <1>1, <1>2, <1>4
<1> QED  BY <1>3, <1>4

\* A machine gives its call up, or crashes.
LEMMA ForgetStep ==
    ASSUME NInv, NEW m \in Machines, NEW q \in Mach, mach' = [mach EXCEPT ![m] = q],
           q.call = "no", reqs' = Forgotten(m), Event,
           UNCHANGED <<node, cert, token, clock, old, late, sent, passed, disk, copies>>,
           \/ q.pc = "off" /\ q.got = 0
           \/ q.pc = mach[m].pc /\ q.cert = mach[m].cert /\ q.got = mach[m].got
    PROVE  NInv'
<1>1. mach' \in [Machines -> Mach] /\ mach'[m] = q /\ \A n \in Machines \ {m} : mach'[n] = mach[n]
    BY DEF NInv, TypeOK
<1>2. /\ reqs' \subseteq Request
      /\ \A s \in reqs' : \E r \in reqs :
            /\ s.m = r.m /\ s.key = r.key /\ s.tok = r.tok /\ s.by = r.by /\ s.at = r.at
            /\ s.live = "yes" => r.live = "yes" /\ r.m # m
            /\ s = IF r.m = m THEN [r EXCEPT !.live = "no"] ELSE r
    BY ForgottenColumns DEF NInv
<1>3. events' \in 0 .. MaxEvents /\ copies' <= events'
    BY Budgets, EventColumn DEF NInv
<1>4. TypeOK'
    BY <1>1, <1>2, <1>3 DEF NInv, TypeOK
<1>5. Issues' /\ Causes' /\ FirstHolder' /\ Holder' /\ NeverForked'
    BY SameDatabase, Constants DEF NInv, TypeOK
<1>6. \A s \in reqs' : s.live = "yes" => s \in reqs /\ s.m # m /\ s.m \in Machines
    BY <1>2, CertRange DEF NInv
<1>7. Requests'
    <2>1. \A s \in reqs' : s.at <= clock' /\ (s.at # 0 => cert'[s.at].key = 0)
        BY <1>2 DEF NInv, Requests
    <2>2. \A s, u \in reqs' : s.at = u.at /\ s.at # 0 => s = u
        <3> SUFFICES ASSUME NEW s \in reqs', NEW u \in reqs', s.at = u.at, s.at # 0  PROVE s = u
            OBVIOUS
        <3> DEFINE f(r) == IF r.m = m THEN [r EXCEPT !.live = "no"] ELSE r
        <3>1. PICK r \in reqs : s.at = r.at /\ s = f(r)
            BY <1>2
        <3>2. PICK v \in reqs : u.at = v.at /\ u = f(v)
            BY <1>2
        <3> HIDE DEF f
        <3>3. r = v
            BY <3>1, <3>2 DEF NInv, Requests
        <3> QED  BY <3>1, <3>2, <3>3
    <2>3. \A s \in reqs' : s.tok = NoToken => Issued(s.by)' /\ cert'[s.by].key = s.key
        BY <1>2 DEF NInv, Requests, Issued
    <2> QED  BY <2>1, <2>2, <2>3 DEF Requests
<1>8. Waiting'
    BY <1>1, <1>6 DEF NInv, Waiting
<1>9. Identity'
    <2>1. \A n \in Machines \ {m} : OwnIdentity(n)'
        BY <1>1 DEF NInv, Identity, OwnIdentity, Issued
    <2>2. OwnIdentity(m)'
        BY <1>1 DEF NInv, Identity, OwnIdentity, Issued
    <2> QED  BY <2>1, <2>2 DEF Identity
<1>10. RefusedForCause' /\ Presented'
    BY <1>1 DEF NInv, RefusedForCause, Presented
<1>11. Order'
    <2> SUFFICES ASSUME copies = 0  PROVE Order'
        BY DEF Order
    <2>1. \A c \in Certs : Shown(c)' <=> Shown(c)
        BY DEF Shown
    <2>2. \A n \in Machines : OwnOrder(n)'
        <3> SUFFICES ASSUME NEW n \in Machines  PROVE OwnOrder(n)'
            OBVIOUS
        <3>1. OwnOrder(n)
            BY DEF NInv, Order
        <3>2. \/ mach'[n].pc = "off" /\ mach'[n].got = 0
              \/ mach'[n].pc = mach[n].pc /\ mach'[n].cert = mach[n].cert /\ mach'[n].got = mach[n].got
            BY <1>1
        <3> QED  BY <2>1, <3>1, <3>2 DEF OwnOrder
    <2> QED  BY <1>6, <2>1, <2>2 DEF NInv, Order
<1> QED  BY <1>3, <1>4, <1>5, <1>7, <1>8, <1>9, <1>10, <1>11 DEF NInv

LEMMA NGiveUp == ASSUME NInv, NEW m \in Machines, GiveUp(m)  PROVE NInv'
<1> DEFINE q == [mach[m] EXCEPT !.call = "no"]
<1>1. /\ mach' = [mach EXCEPT ![m].call = "no"] /\ reqs' = Forgotten(m) /\ Event
      /\ UNCHANGED <<node, cert, token, clock, old, late, sent, passed, disk, copies>>
    BY DEF GiveUp
<1>2. mach' = [mach EXCEPT ![m] = q] /\ mach[m] \in Mach
    BY <1>1 DEF NInv, TypeOK
<1>3. q \in Mach /\ q.call = "no" /\ q.pc = mach[m].pc /\ q.cert = mach[m].cert /\ q.got = mach[m].got
    BY <1>2 DEF Mach, YN
<1> HIDE DEF q
<1> QED  BY <1>1, <1>2, <1>3, ForgetStep

LEMMA NCrash == ASSUME NInv, NEW m \in Machines, Crash(m)  PROVE NInv'
<1>1. /\ mach' = [mach EXCEPT ![m] = Off] /\ reqs' = Forgotten(m) /\ Event
      /\ UNCHANGED <<node, cert, token, clock, old, late, sent, passed, disk, copies>>
    BY DEF Crash
<1>2. Off \in Mach /\ Off.call = "no" /\ Off.pc = "off" /\ Off.got = 0
    BY Constants DEF Off, Mach, YN
<1> QED  BY <1>1, <1>2, ForgetStep

-----------------------------------------------------------------------------
(* The invariant at the start and under every step *)

LEMMA NInit == Init => NInv
<1> SUFFICES ASSUME Init  PROVE NInv
    OBVIOUS
<1>1. \A c \in Certs : cert[c] = NoCert
    BY DEF Init
<1>2. NoCert \in Cert /\ NoCert.key = 0 /\ NoCert.revoked = "no"
    BY Constants DEF NoCert, Cert, YN
<1>3. cert \in [Certs -> Cert]
    BY <1>2 DEF Init
<1>4. \A c \in Certs : cert[c].key = 0 /\ cert[c].revoked = "no"
    BY <1>1, <1>2
<1>5. node \in Node /\ node.status = "none" /\ node.forked = "no" /\ node.current = 0
    BY Constants DEF Init, Node, YN
<1>6. token \in [Tokens -> Token] /\ \A t \in Tokens : token[t].used = 0
    <2> DEFINE n == [used |-> 0, serial |-> 0, lapsed |-> "no"]
    <2>1. n \in Token /\ n.used = 0
        BY Constants DEF Token, YN
    <2>2. token = [t \in Tokens |-> n]
        BY DEF Init
    <2> HIDE DEF n
    <2> QED  BY <2>1, <2>2
<1>7. disk \in [Machines -> Disk] /\ \A m \in Machines : disk[m].key = 0 /\ disk[m].joined = "no"
    <2> DEFINE n(m) == [key |-> 0, chain |-> 0, joined |-> "no", file |-> First[m]]
    <2>1. \A m \in Machines : First[m] \in Tokens \cup {NoToken}
        BY NodeCertsConstants
    <2>2. \A m \in Machines : n(m) \in Disk /\ n(m).key = 0 /\ n(m).joined = "no"
        BY <2>1, Constants DEF Disk, YN
    <2>3. disk = [m \in Machines |-> n(m)]
        BY DEF Init
    <2> HIDE DEF n
    <2> QED  BY <2>2, <2>3
<1>8. mach \in [Machines -> Mach] /\ \A m \in Machines : mach[m].pc = "off" /\ mach[m].call = "no" /\ mach[m].got = 0
    <2>1. Off \in Mach /\ Off.pc = "off" /\ Off.call = "no" /\ Off.got = 0
        BY Constants DEF Off, Mach, YN
    <2>2. mach = [m \in Machines |-> Off]
        BY DEF Init
    <2> QED  BY <2>1, <2>2
<1>9. clock = 0 /\ old = {} /\ late = "no" /\ reqs = {} /\ sent = {} /\ passed = {} /\ events = 0 /\ copies = 0
    BY DEF Init
<1>10. TypeOK
    BY <1>3, <1>5, <1>6, <1>7, <1>8, <1>9, Constants DEF TypeOK, YN
<1>11. Issues /\ Causes /\ FirstHolder /\ Holder
    BY <1>4, <1>5, <1>6, <1>9 DEF Issues, Causes, FirstHolder, Superseded, Holder, Unrevoked
<1>12. Requests /\ Waiting /\ Presented
    BY <1>9 DEF Requests, Waiting, Presented
<1>13. Identity /\ RefusedForCause
    BY <1>7, <1>8 DEF Identity, OwnIdentity, RefusedForCause
<1>14. Order /\ NeverForked
    BY <1>5, <1>7, <1>8, <1>9 DEF Order, OwnOrder, NeverForked, Shown
<1> QED  BY <1>9, <1>10, <1>11, <1>12, <1>13, <1>14 DEF NInv

LEMMA NStep == NInv /\ [Next]_vars => NInv'
<1> SUFFICES ASSUME NInv, [Next]_vars  PROVE NInv'
    OBVIOUS
<1>1. ASSUME NEW c \in Certs, Check(c) \/ CheckFails(c) \/ OnPresented(c) \/ PresentFails(c) \/ GraceEnds(c)
      PROVE  NInv'
    BY <1>1, NCheck, NCheckFails, NOnPresented, NPresentFails, NGraceEnds
<1>2. ASSUME NEW r \in reqs, Begin(r) \/ Join(r) \/ Renew(r) \/ Lose(r)  PROVE NInv'
    BY <1>2, NBegin, NJoin, NRenew, NLose
<1>3. CASE RemoveNode
    BY <1>3, NRemoveNode
<1>4. ASSUME NEW t \in Tokens, TokenLapses(t)  PROVE NInv'
    BY <1>4, NTokenLapses
<1>5. ASSUME NEW m \in Machines,
             \/ Start(m) \/ JoinKey(m) \/ SendJoin(m) \/ SendRenew(m) \/ GiveUp(m)
             \/ StoreChain(m) \/ StoreState(m) \/ StoreFails(m)
             \/ Present(m) \/ Denied(m) \/ SetAside(m) \/ Crash(m)
      PROVE  NInv'
    BY <1>5, NStart, NJoinKey, NSendJoin, NSendRenew, NGiveUp, NStoreChain, NStoreState, NStoreFails,
       NPresent, NDenied, NSetAside, NCrash
<1>6. ASSUME NEW m \in Machines, NEW t \in Tokens, PutToken(m, t)  PROVE NInv'
    BY <1>6, NPutToken
<1>7. ASSUME NEW m \in Machines, NEW n \in Machines, Copy(m, n)  PROVE NInv'
    BY <1>7, NCopy
<1>8. CASE UNCHANGED vars
    <2>1. UNCHANGED <<node, cert, token, clock, old, late, reqs, sent, passed, disk, mach, events, copies>>
        BY <1>8 DEF vars
    <2> QED  BY <2>1, QuietStep, Budgets DEF NInv, TypeOK
<1> QED  BY <1>1, <1>2, <1>3, <1>4, <1>5, <1>6, <1>7, <1>8 DEF Next

LEMMA NAlways == Spec => []NInv
<1> QED  BY NInit, NStep, PTL DEF Spec

-----------------------------------------------------------------------------
(* The theorems *)

\* The valid certificates of a name are for one key, however joins, renewals,
\* removals and lost answers interleave (store/nodecerts.go, fleet's Join and
\* RenewCertificate).
THEOREM OneHolder == Spec => []OneKey
<1>1. NInv => OneKey
    <2> SUFFICES ASSUME NInv, late = "no", NEW c \in Certs, NEW d \in Certs, Valid(c), Valid(d)
                 PROVE  cert[c].key = cert[d].key
        BY DEF OneKey
    <2>1. c \notin old /\ d \notin old
        BY DEF NInv, Holder, Valid, Unrevoked
    <2> QED  BY <2>1 DEF NInv, Holder, Valid
<1> QED  BY <1>1, NAlways, PTL

\* CheckNode declares no fork of a node whose directory was not copied and whose
\* name was not joined again, at whatever step its machine crashes and whichever
\* answers are lost.
THEOREM NoFalseFork == Spec => []NeverForked
<1>1. NInv => NeverForked
    BY DEF NInv
<1> QED  BY <1>1, NAlways, PTL

\* A machine sets its identity aside (NodeDir::set_aside) only when the node is
\* removed or forked, or its name was joined again since.
THEOREM SetAsideCaused == Spec => SetAsideForCause
<1>1. NInv /\ [Next]_vars =>
        [\A m \in Machines : disk[m].joined = "yes" /\ disk'[m].joined = "no"
            => node.status = "removed" \/ node.forked = "yes" \/ mach[m].cert \in old]_vars
    <2> SUFFICES ASSUME NInv, [Next]_vars, NEW m \in Machines,
                        disk[m].joined = "yes", disk'[m].joined = "no"
                 PROVE  node.status = "removed" \/ node.forked = "yes" \/ mach[m].cert \in old
        OBVIOUS
    <2>1. disk' # disk
        OBVIOUS
    <2>2. mach[m].pc = "refused"
        <3>1. disk \in [Machines -> Disk]
            BY DEF NInv, TypeOK
        <3>2. ASSUME NEW n \in Machines, JoinKey(n) \/ StoreChain(n) \/ StoreState(n)  PROVE FALSE
            <4>1. \A k \in Machines : disk'[k].joined \in {disk[k].joined, "yes"}
                BY <3>1, <3>2 DEF JoinKey, StoreChain, StoreState, Disk
            <4> QED  BY <4>1
        <3>3. ASSUME NEW n \in Machines, NEW t \in Tokens, PutToken(n, t)  PROVE FALSE
            <4>1. disk'[m].joined = disk[m].joined
                BY <3>1, <3>3 DEF PutToken, Disk
            <4> QED  BY <4>1
        <3>4. ASSUME NEW k \in Machines, NEW n \in Machines, Copy(k, n)  PROVE FALSE
            <4>1. disk[k].joined = "yes" /\ disk' = [disk EXCEPT ![n] = disk[k]]
                BY <3>4 DEF Copy
            <4>2. disk'[m].joined = "yes"
                BY <3>1, <4>1
            <4> QED  BY <4>2
        <3>5. ASSUME NEW n \in Machines, SetAside(n)  PROVE n = m /\ mach[n].pc = "refused"
            <4>1. \E d : disk' = [disk EXCEPT ![n] = d] /\ mach[n].pc = "refused"
                BY <3>5 DEF SetAside
            <4> QED  BY <3>1, <4>1
        <3>6. ASSUME NEW c \in Certs, Check(c) \/ CheckFails(c) \/ OnPresented(c) \/ PresentFails(c) \/ GraceEnds(c)
              PROVE  FALSE
            BY <2>1, <3>6 DEF Check, CheckFails, OnPresented, PresentFails, GraceEnds
        <3>7. ASSUME NEW r \in reqs, Begin(r) \/ Join(r) \/ Renew(r) \/ Lose(r)  PROVE FALSE
            BY <2>1, <3>7 DEF Begin, Join, Renew, Lose
        <3>8. ~RemoveNode /\ ~(\E t \in Tokens : TokenLapses(t)) /\ ~(UNCHANGED vars)
            BY <2>1 DEF RemoveNode, TokenLapses, vars
        <3>9. ASSUME NEW n \in Machines,
                     \/ Start(n) \/ SendJoin(n) \/ SendRenew(n) \/ GiveUp(n) \/ StoreFails(n)
                     \/ Present(n) \/ Denied(n) \/ Crash(n)
              PROVE  FALSE
            BY <2>1, <3>9 DEF Start, SendJoin, SendRenew, Send, GiveUp, StoreFails, Present, Denied, Crash
        <3> QED  BY <3>2, <3>3, <3>4, <3>5, <3>6, <3>7, <3>8, <3>9 DEF Next
    <2> QED  BY <2>2 DEF NInv, RefusedForCause
<1> QED  BY <1>1, NAlways, PTL DEF Spec, SetAsideForCause

\* Every variable of the control plane's rows and of the machines keeps its type,
\* and every issued certificate its place in 1 .. MaxCerts.
THEOREM TypeCorrect == Spec => []TypeOK
<1>1. NInv => TypeOK
    BY DEF NInv
<1> QED  BY <1>1, NAlways, PTL

=============================================================================
