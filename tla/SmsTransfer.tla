---------------------------- MODULE SmsTransfer -----------------------------
(***************************************************************************)
(* Short messages between the phone and the network: the transactions of   *)
(* gsm411_sms.c on the phone with their MM connections, the transactions   *)
(* of the network, which runs the same library, and the SAPI 3 link        *)
(* between them.  The link keeps the order; it may lose what is under way  *)
(* when it is established again, and loses it when the radio connection    *)
(* breaks.  Towards the phone's MM layer a request is a call, EST-CNF and  *)
(* REL-IND come back through mmxx_upqueue, and data comes up as a call     *)
(* that overtakes that queue.                                              *)
(***************************************************************************)
EXTENDS Gsm0411, FiniteSets, SequencesExt

CONSTANTS
  Mo, Mt,     \* short messages of the phone and of the network
  Unencodable,  \* those of Mo that cannot be put into a TPDU
  Ref,        \* references of the phone's transactions
  MaxFaults   \* bound: early timers, lost messages and broken connections

Sms == Mo \cup Mt
MoTi == 0 .. 6
MtTi == 8 .. 14
Ti == MoTi \cup MtTi

ASSUME TransferAssumption ==
  /\ Sms \subseteq Nat \ {0} /\ Mo \cap Mt = {} /\ Unencodable \subseteq Mo
  /\ Ref \subseteq Nat \ {0}
  /\ MaxFaults \in Nat

VARIABLES
  tr,       \* the phone's transactions, by callref
  conn,     \* the phone's MM connections, by reference
  upq,      \* mm->mmxx_upqueue
  nt,       \* the network's transactions, by transaction identifier
  air,      \* SAPI 3, both directions
  asked,    \* messages submitted so far
  reports,  \* what each sender's application was told
  taken,    \* how often each message was taken by the receiver's user
  errored,  \* messages whose transaction a CP-ERROR ended
  broken,   \* a freed transaction was used, or a `should never happen' taken
  used      \* the faults that have happened

vars == <<tr, conn, upq, nt, air, asked, reports, taken, errored, broken, used>>

\* No transaction, and no connection.
None == [st |-> "NONE"]
NoConn == [st |-> "NONE", ti |-> 0]

Init ==
  /\ tr = [r \in Ref |-> None]
  /\ conn = [r \in Ref |-> NoConn]
  /\ upq = <<>>
  /\ nt = [i \in Ti |-> None]
  /\ air = [up |-> <<>>, down |-> <<>>]
  /\ asked = {}
  /\ reports = [i \in Sms |-> <<>>]
  /\ taken = [i \in Sms |-> 0]
  /\ errored = {}
  /\ broken = FALSE
  /\ used = [early |-> 0, breaks |-> 0, lost |-> 0]

-----------------------------------------------------------------------------
Alive == {r \in Ref : tr[r] # None}
UsedTi == {tr[r].ti : r \in Alive}
NetAlive == {i \in Ti : nt[i] # None}

\* The transactions of a message.
Carries(id) == {r \in Alive : tr[r].e.sms = id}
NetCarries(id) == {i \in NetAlive : nt[i].e.sms = id}

\* References are never used twice; the model takes one nobody knows (any more).
FreshRef(r) ==
  /\ tr[r] = None /\ conn[r] = NoConn
  /\ \A k \in DOMAIN upq : upq[k].ref # r
  /\ \A s \in Ref : s < r =>
       tr[s] # None \/ conn[s] # NoConn \/ \E k \in DOMAIN upq : upq[k].ref = s

\* The first free one counted from the highest in use.
trans_assign_trans_id(inuse) ==
  LET h == IF inuse = {} THEN 0 ELSE CHOOSE i \in inuse : \A j \in inuse : j <= i
      n == CHOOSE n \in 0 .. 6 : /\ (h + n) % 7 \notin inuse
                                 /\ \A k \in 0 .. n - 1 : (h + k) % 7 \in inuse
  IN (h + n) % 7

\* The MM layer under one primitive of transaction r; s is what it works on.
\* Whether it serves the request depends on its own state: ok.
gsm48_mmxx_downmsg(s, r, ti, p, ok) ==
  LET st == s.conn[r].st
      rel_ind == [prim |-> "REL_IND", ref |-> r, ti |-> ti]
  IN CASE p.prim = "EST_REQ" ->
            IF ok THEN [s EXCEPT !.conn[r] = [st |-> "PEND", ti |-> ti]]
            ELSE [s EXCEPT !.upq = Append(@, rel_ind)]
       [] p.prim = "REL_REQ" -> [s EXCEPT !.conn[r] = NoConn]
       [] st = "OPEN" \/ (st = "PEND" /\ ok) ->
            [s EXCEPT !.up = Append(@, [ti |-> ti, cp |-> p.cp, msg |-> p.msg])]
       [] st = "NONE" /\ ok -> [s EXCEPT !.upq = Append(@, rel_ind)]
       [] OTHER -> s

\* Its primitives, one after the other: no handler has more than four.
Nth(s, r, ti, out, k, ok) == IF k <= Len(out) THEN gsm48_mmxx_downmsg(s, r, ti, out[k], ok) ELSE s
Served(s, r, ti, out, ok) ==
  Nth(Nth(Nth(Nth(s, r, ti, out, 1, ok), r, ti, out, 2, ok), r, ti, out, 3, ok), r, ti, out, 4, ok)

\* Whatever a handler reports is about the one message of its transaction.
Told(e, id) ==
  IF e.rep # <<>> /\ e.rep[1].id = id THEN [k \in DOMAIN e.rep |-> e.rep[k].res] ELSE <<>>

\* What a handler has done to the applications and to the memory.
Observe(e) ==
  /\ reports' = [i \in Sms |-> reports[i] \o Told(e, i)]
  /\ broken' = (broken \/ e.uaf \/ e.fatal)

Settled(e) == [e EXCEPT !.out = <<>>, !.rep = <<>>, !.got = <<>>, !.verdict = "ACK"]

\* A handler of the phone has run: e is its transaction, t the transactions
\* and s the connections, queue and uplink it found.
PhoneDid(t, s, r, ti, e, ok) ==
  LET after == Served(s, r, ti, e.out, ok) IN
  /\ tr' = [t EXCEPT ![r] = IF e.freed THEN None ELSE [ti |-> ti, e |-> Settled(e)]]
  /\ conn' = after.conn
  /\ upq' = after.upq
  /\ Observe(e)
  /\ air' = [air EXCEPT !.up = after.up]

Below == [conn |-> conn, upq |-> upq, up |-> air.up]

\* A handler of the network has run; a is the link it found.
NetDid(a, ti, e, held) ==
  /\ nt' = [nt EXCEPT ![ti] = IF e.freed THEN None ELSE [held |-> held, e |-> Settled(e)]]
  /\ Observe(e)
  /\ LET sent == SelectSeq(e.out, LAMBDA p : p.prim = "DATA_REQ") IN
     air' = [a EXCEPT !.down = @ \o [k \in DOMAIN sent |->
                                       [ti |-> ti, cp |-> sent[k].cp, msg |-> sent[k].msg]]]

-----------------------------------------------------------------------------
(* The phone.                                                               *)

gsm411_tx_sms_submit(id) ==
  /\ id \notin asked /\ asked' = asked \cup {id}
  /\ MoTi \ UsedTi # {}
  /\ \E r \in Ref, ok \in BOOLEAN :
       /\ FreshRef(r)
       /\ PhoneDid(tr, Below, r, trans_assign_trans_id(UsedTi \cap MoTi),
                   IF id \in Unencodable
                   THEN gsm411_trans_free([NewTrans(FALSE, id) EXCEPT
                                             !.rep = <<[id |-> id, res |-> "FAILED"]>>])
                   ELSE gsm411_smr_send(NewTrans(FALSE, id), "DATA_REQ", RpMsg("DATA_MO", id)),
                   ok)
  /\ UNCHANGED <<nt, taken, errored, used>>

\* The MM layer answers the service request.
MmConfirm(r) ==
  /\ conn[r].st = "PEND"
  /\ conn' = [conn EXCEPT ![r].st = "OPEN"]
  /\ upq' = Append(upq, [prim |-> "EST_CNF", ref |-> r, ti |-> conn[r].ti])
  /\ UNCHANGED <<asked, tr, nt, air, reports, taken, errored, broken, used>>

MmReject(r) ==
  /\ conn[r].st = "PEND"
  /\ conn' = [conn EXCEPT ![r] = NoConn]
  /\ upq' = Append(upq, [prim |-> "REL_IND", ref |-> r, ti |-> conn[r].ti])
  /\ UNCHANGED <<asked, tr, nt, air, reports, taken, errored, broken, used>>

\* gsm411_rcv_sms makes a transaction for any reference it does not know.
Found(r) == IF r \in Alive THEN tr[r].e ELSE NewTrans(FALSE, 0)

gsm48_mmxx_dequeue ==
  /\ upq # <<>>
  /\ LET q == Head(upq)
         e == Found(q.ref)
     IN PhoneDid(tr, [Below EXCEPT !.upq = Tail(upq)], q.ref,
                 IF q.ref \in Alive THEN tr[q.ref].ti ELSE q.ti,
                 IF q.prim = "EST_CNF" THEN gsm411_smc_recv(e, "EST_CNF", "NONE", NoMsg)
                 ELSE gsm411_sms_trans_free(e), TRUE)
  /\ UNCHANGED <<asked, nt, taken, errored, used>>

\* A CP-DATA on a new transaction is the last CP-ACK of the others.
ImplicitAck(r, ti, e, m) ==
  IF e.cps = "IDLE" /\ m.cp = "DATA"
  THEN {s \in Alive \ {r} : tr[s].ti \in MtTi \ {ti}} ELSE {}

\* gsm48_mm_data_ind, gsm411_mmsms_ind: the connection is found by transaction
\* identifier, or made.
gsm48_mm_data_ind ==
  /\ air.down # <<>>
  /\ LET m == Head(air.down)
         known == {r \in Ref : conn[r].st # "NONE" /\ conn[r].ti = m.ti}
              targets == IF known # {} THEN known ELSE {x \in Ref : FreshRef(x)}
     IN \E r \in targets, v \in {"ACK", "ERROR"} :
          LET e == [Found(r) EXCEPT !.verdict = v]
              gone == ImplicitAck(r, m.ti, e, m)
              s == [Below EXCEPT
                      !.conn = [x \in Ref |-> CASE x \in gone -> NoConn
                                                [] x = r /\ known = {} -> [st |-> "OPEN", ti |-> m.ti]
                                                [] OTHER -> conn[x]]]
              d == gsm411_smc_recv(e, IF known # {} THEN "DATA_IND" ELSE "EST_IND", m.cp, m.msg)
              after == Served(s, r, m.ti, d.out, TRUE)
          IN /\ v = "ERROR" => d.got # <<>>
             /\ tr' = [x \in Ref |-> CASE x \in gone -> None
                                       [] x = r -> IF d.freed THEN None
                                                   ELSE [ti |-> m.ti, e |-> Settled(d)]
                                       [] OTHER -> tr[x]]
             /\ conn' = after.conn
             /\ upq' = after.upq
             /\ air' = [up |-> after.up, down |-> Tail(air.down)]
             /\ Observe(d)
             /\ taken' = [i \in Sms |-> IF d.got = <<i>> /\ v = "ACK" THEN taken[i] + 1 ELSE taken[i]]
             /\ errored' = IF m.cp = "ERROR" THEN errored \cup {e.sms} ELSE errored
  /\ UNCHANGED <<asked, nt, used>>

Faults == used.early + used.lost + used.breaks

Quiet(ti) == \A q \in {air.up, air.down, upq} : \A k \in DOMAIN q : q[k].ti # ti

\* A timer normally expires when no answer is on its way.
InTime(ti) ==
  \/ Quiet(ti) /\ UNCHANGED used
  \/ /\ ~Quiet(ti) /\ Faults < MaxFaults
     /\ used' = [used EXCEPT !.early = @ + 1]

TC1Expires(r) ==
  /\ tr[r] # None /\ tr[r].e.tc1 /\ InTime(tr[r].ti)
  /\ \E ok \in BOOLEAN : PhoneDid(tr, Below, r, tr[r].ti, cp_timer_expired(tr[r].e), ok)
  /\ UNCHANGED <<asked, nt, taken, errored>>

TR1Expires(r) ==
  /\ tr[r] # None /\ tr[r].e.tr1 /\ InTime(tr[r].ti)
  /\ \E ok \in BOOLEAN : PhoneDid(tr, Below, r, tr[r].ti, rp_timer_expired(tr[r].e), ok)
  /\ UNCHANGED <<asked, nt, taken, errored>>

-----------------------------------------------------------------------------
(* The network (external).                                                  *)

NetUsed == NetAlive \cap MtTi

NetSubmit(id) ==
  /\ id \notin asked /\ asked' = asked \cup {id}
  /\ MtTi \ NetUsed # {}
  /\ NetDid(air, 8 + trans_assign_trans_id({i - 8 : i \in NetUsed}),
            gsm411_smr_send(NewTrans(TRUE, id), "DATA_REQ", RpMsg("DATA_MT", id)), 0)
  /\ UNCHANGED <<tr, conn, upq, taken, errored, used>>

NetConfirm(ti) ==
  /\ nt[ti] # None /\ nt[ti].e.cps = "MM_CONN_PENDING"
  /\ NetDid(air, ti, gsm411_smc_recv(nt[ti].e, "EST_CNF", "NONE", NoMsg), 0)
  /\ UNCHANGED <<asked, tr, conn, upq, taken, errored, used>>

\* A transaction is opened by a CP-DATA only; other messages nobody waits for
\* are dropped.
NetRecv ==
  /\ air.up # <<>>
  /\ LET m == Head(air.up)
         known == m.ti \in NetAlive
         e == IF known THEN nt[m.ti].e ELSE NewTrans(TRUE, 0)
         d == IF ~known /\ m.cp # "DATA" THEN gsm411_sms_trans_free(e)
              ELSE gsm411_smc_recv(e, IF known THEN "DATA_IND" ELSE "EST_IND", m.cp, m.msg)
     IN /\ NetDid([air EXCEPT !.up = Tail(@)], m.ti, d,
                  CASE d.got # <<>> -> d.got[1] [] d.got = <<>> /\ known -> nt[m.ti].held
                    [] OTHER -> 0)
        /\ errored' = IF m.cp = "ERROR" THEN errored \cup {e.sms} ELSE errored
  /\ UNCHANGED <<asked, tr, conn, upq, taken, used>>

\* The user of the network has stored the message, or could not.
NetReport(ti, v) ==
  /\ nt[ti] # None /\ nt[ti].e.rps = "WAIT_TO_TX_RP_ACK"
  /\ NetDid(air, ti, gsm411_smr_send(nt[ti].e, "REPORT_REQ",
                  RpMsg(IF v = "ACK" THEN "ACK_MT" ELSE "ERROR_MT", nt[ti].held)), 0)
  /\ taken' = [i \in Sms |-> IF i = nt[ti].held /\ v = "ACK" THEN taken[i] + 1 ELSE taken[i]]
  /\ UNCHANGED <<asked, tr, conn, upq, errored, used>>

NetTC1Expires(ti) ==
  /\ nt[ti] # None /\ nt[ti].e.tc1 /\ InTime(ti)
  /\ NetDid(air, ti, cp_timer_expired(nt[ti].e), nt[ti].held)
  /\ UNCHANGED <<asked, tr, conn, upq, taken, errored>>

NetTR1Expires(ti) ==
  /\ nt[ti] # None /\ nt[ti].e.tr1 /\ InTime(ti)
  /\ NetDid(air, ti, rp_timer_expired(nt[ti].e), nt[ti].held)
  /\ UNCHANGED <<asked, tr, conn, upq, taken, errored>>

\* The data link is established again (external): lapd_core.c drops what it
\* has not sent.
LinkLoses ==
  /\ Faults < MaxFaults
  /\ used' = [used EXCEPT !.lost = @ + 1]
  /\ \/ air.up # <<>> /\ air' = [air EXCEPT !.up = Front(@)]
     \/ air.down # <<>> /\ air' = [air EXCEPT !.down = Front(@)]
  /\ UNCHANGED <<asked, tr, conn, upq, nt, reports, taken, errored, broken>>

-----------------------------------------------------------------------------
(* The radio connection breaks: what is under way is lost, the phone's MM   *)
(* layer frees its connections and queues the indications, the network      *)
(* tells its transactions, of which one at most has a given message.        *)

RadioBreaks ==
  /\ Faults < MaxFaults
  /\ used' = [used EXCEPT !.breaks = @ + 1]
  /\ LET lost == {r \in Ref : conn[r].st # "NONE"}
         ended(i) == gsm411_sms_trans_free(gsm411_smc_recv(nt[i].e, "REL_IND", "NONE", NoMsg))
     IN /\ conn' = [r \in Ref |-> NoConn]
        /\ upq' = upq \o SetToSeq({[prim |-> "REL_IND", ref |-> r, ti |-> conn[r].ti] : r \in lost})
        /\ nt' = [i \in Ti |-> None]
        /\ reports' = [m \in Sms |->
             IF NetCarries(m) = {} THEN reports[m]
             ELSE reports[m] \o Told(ended(CHOOSE i \in NetCarries(m) : TRUE), m)]
        /\ broken' = (broken \/ \E i \in NetAlive : ended(i).uaf \/ ended(i).fatal)
  /\ air' = [up |-> <<>>, down |-> <<>>]
  /\ UNCHANGED <<asked, tr, taken, errored>>

-----------------------------------------------------------------------------
PhoneStep ==
  \/ gsm48_mmxx_dequeue \/ gsm48_mm_data_ind
  \/ \E r \in Ref : MmConfirm(r) \/ MmReject(r) \/ TC1Expires(r) \/ TR1Expires(r)
NetStep ==
  \/ NetRecv
  \/ \E i \in NetAlive : NetConfirm(i) \/ NetTC1Expires(i) \/ NetTR1Expires(i)
  \/ \E i \in NetAlive, v \in {"ACK", "ERROR"} : NetReport(i, v)

Next ==
  \/ \E id \in Mo : gsm411_tx_sms_submit(id)
  \/ \E id \in Mt : NetSubmit(id)
  \/ PhoneStep \/ NetStep
  \/ LinkLoses \/ RadioBreaks

Spec == Init /\ [][Next]_vars

\* Both sides serve what is queued, and a timer that runs expires: weak
\* fairness, each step is enabled by its condition and changes the state.
\* Neither the MM layer nor the users need ever answer.
Queued == upq # <<>> \/ air.down # <<>> \/ air.up # <<>>
Serve == gsm48_mmxx_dequeue \/ gsm48_mm_data_ind \/ NetRecv

Due(e, ti) == (e.tc1 \/ e.tr1) /\ (Quiet(ti) \/ Faults < MaxFaults)
TimerDue == (\E r \in Alive : Due(tr[r].e, tr[r].ti)) \/ \E i \in NetAlive : Due(nt[i].e, i)
TimerExpires ==
  \/ \E r \in Ref : TC1Expires(r) \/ TR1Expires(r)
  \/ \E i \in NetAlive : NetTC1Expires(i) \/ NetTR1Expires(i)

FairSpec ==
  /\ Spec
  /\ <>[]Queued => []<><<Serve>>_vars
  /\ <>[]TimerDue => []<><<TimerExpires>>_vars

-----------------------------------------------------------------------------
\* No handler uses a transaction that was freed under it, and none takes a
\* branch commented `should never happen' (gsm0411_smc.c).
NotBroken == ~broken

\* Whoever waits is woken: the control entity waits with TC1 running and the
\* message stored for the repetition, the relay entity with TR1M or TR2N
\* running and a connection below it (gsm0411_smc.c, gsm0411_smr.c).
Guarded(e) ==
  /\ e.tc1 <=> e.cps = "WAIT_CP_ACK"
  /\ (e.cpm # NoMsg) <=> e.cps \in {"MM_CONN_PENDING", "WAIT_CP_ACK"}
  /\ e.tr1 <=> e.rps # "IDLE"
  /\ e.rps # "IDLE" => e.cps # "IDLE"
WaitGuarded ==
  /\ \A r \in Alive : Guarded(tr[r].e)
  /\ \A i \in NetAlive : Guarded(nt[i].e)

\* No transaction is left open with nobody waiting for anything, as long as no
\* CP-ERROR was sent, no message lost and no timer early: each of these may
\* open a transaction that nothing ever closes (gsm0411_smr.c:278).
Undisturbed == used.early = 0 /\ used.lost = 0
Attended(e) == e.cps = "MM_ESTABLISHED" => e.rps # "IDLE"
NoneForgotten ==
  errored = {} /\ Undisturbed =>
    /\ \A r \in Alive : Attended(tr[r].e)
    /\ \A i \in NetAlive : Attended(nt[i].e)

\* A message that was submitted is either in one transaction or reported to
\* its application, once and for all (gsm411_sms.c, sms.sms of the
\* transaction).  One that could not be encoded is reported twice.
ReportedOnce ==
  \A id \in asked \ Unencodable :
    Cardinality(Carries(id)) + Cardinality(NetCarries(id)) + Len(reports[id]) = 1

\* The service promised to the applications: a message is taken once at most,
\* the outcome is told once, and `successful' only of a message that was taken.
\* Not certain are messages whose transaction a CP-ERROR ended, and all of them
\* after a loss or an early timer: a repetition is then a new message to a
\* receiver that has released its transaction, and references are not
\* compared, so the answer to an earlier message is taken for its own.
Promised == Sms \ Unencodable
Service == INSTANCE SmsService WITH
  Sms <- Promised,
  asked <- asked \cap Promised,
  reports <- [i \in Promised |-> reports[i]],
  taken <- [i \in Promised |-> taken[i]],
  doubtful <- IF Undisturbed THEN errored \cap Promised ELSE Promised
ServiceKept == Service!Spec

\* Every message that was submitted is reported in the end.
Concluded == \A id \in Sms : id \in asked ~> reports[id] # <<>>
=============================================================================
