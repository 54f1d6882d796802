----------------------------- MODULE SmsProofs ------------------------------
(***************************************************************************)
(* Proofs about SmsTransfer, for any messages, references, repetitions and *)
(* faults: every entity that waits has its timer running, no handler uses  *)
(* a transaction that was freed under it or takes a branch that `should    *)
(* never happen', and every message submitted is either in one transaction *)
(* or reported, once.                                                      *)
(*                                                                         *)
(* The first two are local to an endpoint: whatever arrives, every handler *)
(* preserves them.  The proof has a lemma per operator of Gsm0411, in the  *)
(* order in which they call each other, and one step per action.  The last *)
(* goes through the operators once more, for what they do to the message   *)
(* of the transaction, and then keeps a ledger of all transactions of both *)
(* sides.                                                                  *)
(***************************************************************************)
EXTENDS SmsTransfer, FiniteSetTheorems, SequenceTheorems, TLAPS

Fields == {"net", "sms", "cps", "cpm", "rel", "rtx", "tc1", "rps", "tr1", "verdict",
           "freed", "uaf", "fatal", "out", "rep", "got"}

\* What holds of an endpoint at any time.
Sane(e) ==
  /\ DOMAIN e = Fields
  /\ e.cps \in CpState /\ e.rps \in RpState
  /\ {e.net, e.rel, e.tc1, e.tr1, e.freed} \subseteq BOOLEAN
  /\ e.rtx \in 0 .. MaxRetr
  /\ e.uaf = FALSE /\ e.fatal = FALSE

\* An endpoint that a handler works on, and one it leaves behind.
InUse(e) == Sane(e) /\ ~e.freed
Fine(e) == Sane(e) /\ (e.freed \/ Guarded(e))

\* What SMR and its user leave alone.
SmrAsBefore(e, d) == d.rps = e.rps /\ d.tr1 = e.tr1 /\ d.net = e.net

-----------------------------------------------------------------------------
(* SMC, requests from above.                                                *)

\* A release frees the transaction, the state of SMC is idle or not.
LEMMA ReleaseFrees ==
  ASSUME NEW e, InUse(e)
  PROVE  Sane(Release(e)) /\ Release(e).freed
BY DEF Release, gsm411_mm_send, gsm411_trans_free, gsm411_sms_trans_free, Live, InUse, Sane,
       Fields

\* A request to establish is stored until the connection is there.
LEMMA EstReq ==
  ASSUME NEW e, InUse(e), e.cps = "IDLE", e.cpm = NoMsg, NEW m
  PROVE  LET d == gsm411_smc_send(e, "EST_REQ", m) IN
         /\ InUse(d) /\ SmrAsBefore(e, d)
         /\ d.cps = "MM_CONN_PENDING" /\ d.cpm = m /\ d.tc1 = e.tc1
BY DEF gsm411_smc_send, gsm411_mnsms_est_req, gsm411_mm_send, Stored, Live, InUse, Sane, Fields,
       SmrAsBefore, CpState

\* Data is sent on an established connection, with TC1, and dropped otherwise.
LEMMA SendMsg ==
  ASSUME NEW e, InUse(e)
  PROVE  LET d == gsm411_mmsms_send_msg(e) IN
         /\ InUse(d) /\ SmrAsBefore(e, d)
         /\ d.cps = "WAIT_CP_ACK" /\ d.cpm = e.cpm /\ d.tc1
BY SmcAssumption DEF gsm411_mmsms_send_msg, gsm411_mm_send, Live, InUse, Sane, Fields,
       SmrAsBefore, CpState

LEMMA DataReq ==
  ASSUME NEW e, InUse(e), e.cps = "MM_ESTABLISHED" => e.cpm = NoMsg, NEW m
  PROVE  LET d == gsm411_smc_send(e, "DATA_REQ", m) IN
         /\ InUse(d) /\ SmrAsBefore(e, d)
         /\ \/ e.cps # "MM_ESTABLISHED" /\ d = e
            \/ /\ e.cps = "MM_ESTABLISHED" /\ d.cps = "WAIT_CP_ACK"
               /\ d.cpm = m /\ d.tc1
<1> DEFINE s == Stored(e, m)
<1>1. CASE e.cps # "MM_ESTABLISHED"
  BY <1>1 DEF gsm411_smc_send, Live, InUse, SmrAsBefore
<1>2. CASE e.cps = "MM_ESTABLISHED"
  <2>1. InUse(s) /\ SmrAsBefore(e, s) /\ s.cpm = m
    BY <1>2 DEF Stored, InUse, Sane, Fields, SmrAsBefore
  <2>2. gsm411_smc_send(e, "DATA_REQ", m) = gsm411_mmsms_send_msg(s)
    BY <1>2 DEF gsm411_smc_send, gsm411_mnsms_data_req, Live, InUse
  <2> HIDE DEF s
  <2> QED BY <1>2, <2>1, <2>2, SendMsg DEF SmrAsBefore
<1> QED BY <1>1, <1>2

\* A release is served at once, or stored until the acknowledgement.
LEMMA RelReq ==
  ASSUME NEW e, InUse(e)
  PROVE  LET d == gsm411_smc_send(e, "REL_REQ", NoMsg) IN
         /\ Sane(d)
         /\ e.cps = "IDLE" => d = e
         /\ e.cps = "MM_ESTABLISHED" => d.freed
         /\ e.cps \in {"MM_CONN_PENDING", "WAIT_CP_ACK"} =>
              /\ ~d.freed /\ SmrAsBefore(e, d)
              /\ d.cps = e.cps /\ d.cpm = e.cpm /\ d.tc1 = e.tc1
<1>1. CASE e.cps = "MM_ESTABLISHED"
  <2>1. InUse(Idle(e))
    BY DEF Idle, InUse, Sane, Fields, CpState
  <2>2. gsm411_smc_send(e, "REL_REQ", NoMsg) = Release(Idle(e))
    BY <1>1 DEF gsm411_smc_send, gsm411_mnsms_rel_req, Live, InUse
  <2> QED BY <1>1, <2>1, <2>2, ReleaseFrees
<1>2. CASE e.cps # "MM_ESTABLISHED"
  BY ZenonT(40), <1>2 DEF gsm411_smc_send, gsm411_mnsms_rel_req, Live, InUse, Sane, Fields, SmrAsBefore,
              CpState
<1> QED BY <1>1, <1>2

LEMMA AbortReq ==
  ASSUME NEW e, InUse(e), e.cps # "IDLE"
  PROVE  LET d == gsm411_smc_send(e, "ABORT_REQ", NoMsg) IN Sane(d) /\ d.freed
<1> DEFINE s == gsm411_mm_send(Idle(e), "DATA_REQ", "ERROR", NoMsg)
<1>1. InUse(s)
  BY DEF gsm411_mm_send, Idle, Live, InUse, Sane, Fields, CpState
<1>2. gsm411_smc_send(e, "ABORT_REQ", NoMsg) = Release(s)
  BY DEF gsm411_smc_send, gsm411_mnsms_abort_req, Live, InUse
<1> HIDE DEF s
<1> QED BY <1>1, <1>2, ReleaseFrees

-----------------------------------------------------------------------------
(* SMR and its user.                                                        *)

\* Entering a state leaves SMC alone; going idle stops the timer.
LEMMA NewRpState ==
  ASSUME NEW e, InUse(e), NEW s \in RpState
  PROVE  LET d == new_rp_state(e, s) IN
         /\ InUse(d) /\ d.rps = s /\ d.tr1 = (e.tr1 /\ s # "IDLE")
         /\ d.cps = e.cps /\ d.cpm = e.cpm /\ d.tc1 = e.tc1 /\ d.net = e.net
BY DEF new_rp_state, Live, InUse, Sane, Fields

\* SMR idle, and SMC where it may be when SMR has finished.
SmrIdle(e) == InUse(e) /\ e.rps = "IDLE" /\ ~e.tr1
Stopped(e) == SmrIdle(e) /\ Guarded(e)

\* A transfer begins: the relay timer and the connection are asked for.
LEMMA BeginFine ==
  ASSUME NEW e, InUse(e), Guarded(e), e.rps = "IDLE", e.cps = "IDLE", NEW m, m # NoMsg
  PROVE  Fine(gsm411_smr_send(e, "DATA_REQ", m))
<1> DEFINE a == [e EXCEPT !.tr1 = TRUE]
           b == new_rp_state(a, "WAIT_FOR_RP_ACK")
<1>1. /\ InUse(a) /\ a.cps = e.cps /\ a.cpm = e.cpm /\ a.tc1 = e.tc1 /\ a.tr1
  BY DEF InUse, Sane, Fields
<1>2. gsm411_smr_send(e, "DATA_REQ", m) = gsm411_smc_send(b, "EST_REQ", m)
  BY DEF gsm411_smr_send, gsm411_rl_data_req, Live, InUse
<1> HIDE DEF a
<1>3. /\ InUse(b) /\ b.rps = "WAIT_FOR_RP_ACK" /\ b.tr1
      /\ b.cps = "IDLE" /\ b.cpm = NoMsg /\ ~b.tc1
  <2>1. /\ InUse(b) /\ b.rps = "WAIT_FOR_RP_ACK" /\ b.tr1 = (a.tr1 /\ TRUE)
        /\ b.cps = a.cps /\ b.cpm = a.cpm /\ b.tc1 = a.tc1
    BY <1>1, NewRpState DEF RpState
  <2>2. a.cpm = NoMsg /\ ~a.tc1
    BY <1>1 DEF Guarded
  <2> HIDE DEF b
  <2> QED BY <1>1, <2>1, <2>2
<1> HIDE DEF b
<1> QED
  BY <1>2, <1>3, EstReq DEF Fine, Guarded, InUse, SmrAsBefore

\* A message for the peer, then the release: the end of most handlers of SMR.
LEMMA LastWords ==
  ASSUME NEW e, Stopped(e), NEW m, m # NoMsg
  PROVE  /\ Fine(gsm411_smc_send(e, "DATA_REQ", m))
         /\ Fine(gsm411_send_release(gsm411_smc_send(e, "DATA_REQ", m)))
<1> DEFINE d == gsm411_smc_send(e, "DATA_REQ", m)
<1>1. /\ InUse(d) /\ SmrAsBefore(e, d)
      /\ \/ e.cps # "MM_ESTABLISHED" /\ d = e
         \/ e.cps = "MM_ESTABLISHED" /\ d.cps = "WAIT_CP_ACK" /\ d.cpm = m /\ d.tc1
  BY DataReq DEF Stopped, SmrIdle, Guarded
<1> HIDE DEF d
<1>2. Stopped(d)
  BY <1>1 DEF Stopped, SmrIdle, Guarded, SmrAsBefore
<1>3. Fine(d)
  BY <1>2 DEF Stopped, SmrIdle, Fine, InUse
<1>4. Fine(gsm411_send_release(d))
  <2>1. d.cps \in CpState
    BY <1>2 DEF Stopped, SmrIdle, InUse, Sane
  <2> QED BY <1>2, <1>3, <2>1, RelReq
          DEF Stopped, SmrIdle, Fine, Guarded, gsm411_send_release, SmrAsBefore, CpState
<1> QED BY <1>3, <1>4 DEF d

\* A release when SMR is idle.
LEMMA ReleaseFine ==
  ASSUME NEW e, Stopped(e)
  PROVE  Fine(gsm411_send_release(e))
<1>1. e.cps \in CpState
  BY DEF Stopped, SmrIdle, InUse, Sane
<1> QED BY <1>1, RelReq
        DEF Stopped, SmrIdle, Fine, InUse, Guarded, gsm411_send_release, SmrAsBefore, CpState

\* The answer to an RP-DATA is sent, then the connection given up.
LEMMA ReportFine ==
  ASSUME NEW e, InUse(e), Guarded(e), NEW m, m # NoMsg
  PROVE  Fine(gsm411_smr_send(e, "REPORT_REQ", m))
<1>1. CASE e.rps = "WAIT_TO_TX_RP_ACK"
  <2> DEFINE b == new_rp_state(e, "IDLE")
  <2>1. Stopped(b)
    BY NewRpState DEF RpState, Stopped, SmrIdle, Guarded
  <2>2. gsm411_smr_send(e, "REPORT_REQ", m)
          = gsm411_send_release(gsm411_smc_send(b, "DATA_REQ", m))
    BY <1>1 DEF gsm411_smr_send, gsm411_rl_report_req, Live, InUse
  <2> HIDE DEF b
  <2> QED BY <2>1, <2>2, LastWords
<1>2. CASE e.rps # "WAIT_TO_TX_RP_ACK"
  BY <1>2 DEF gsm411_smr_send, Live, InUse, Fine
<1> QED BY <1>1, <1>2

LEMMA ErrorMessage ==
  ASSUME NEW e
  PROVE  RpMsg(Own(e, "ERROR_MO", "ERROR_MT"), 0) # NoMsg
BY DEF RpMsg, Own, NoMsg

\* An answer goes to the user, who reports it; SMR is idle already.
LEMMA AnswerRead ==
  ASSUME NEW e, SmrIdle(e), NEW m,
         m = NoMsg \/ m.rp \in {"ACK_MO", "ACK_MT", "ERROR_MO", "ERROR_MT"},
         e.net \/ m = NoMsg \/ m.rp \in {"ACK_MT", "ERROR_MT"}
  PROVE  LET d == gsm411_rl_recv(e, "REPORT_IND", m) IN
         /\ SmrIdle(d) /\ d.cps = e.cps /\ d.cpm = e.cpm /\ d.tc1 = e.tc1 /\ d.rel = e.rel
<1>1. NoMsg.rp = "NONE"
  BY DEF NoMsg, RpMsg
<1>2. gsm411_rx_rp_ack(e) \in {e, gsm411_sms_report(e, "OK")}
  BY DEF gsm411_rx_rp_ack, gsm411_smr_send, Live, SmrIdle, InUse
<1>3. gsm411_rx_rp_error(e) \in {e, gsm411_sms_report(e, "FAILED")}
  BY DEF gsm411_rx_rp_error
<1>4. gsm411_rx_rl_report(e, m) \in
        {e, gsm411_sms_report(e, "OK"), gsm411_sms_report(e, "FAILED")} \/ m = NoMsg
  BY <1>1, <1>2, <1>3 DEF gsm411_rx_rl_report, Own
<1>5. gsm411_rl_recv(e, "REPORT_IND", m) \in
        {e, gsm411_sms_report(e, "OK"), gsm411_sms_report(e, "FAILED")}
  BY <1>4 DEF gsm411_rl_recv, Live, SmrIdle, InUse
<1>6. ASSUME NEW res
      PROVE  LET d == gsm411_sms_report(e, res) IN
             /\ SmrIdle(d) /\ d.cps = e.cps /\ d.cpm = e.cpm /\ d.tc1 = e.tc1 /\ d.rel = e.rel
  BY DEF gsm411_sms_report, Live, SmrIdle, InUse, Sane, Fields
<1> QED BY <1>5, <1>6

-----------------------------------------------------------------------------
(* SMR, indications from below.                                             *)

\* A transaction opened by the peer.
LEMMA EstIndFine ==
  ASSUME NEW e, SmrIdle(e), NEW m,
         e.cps = "MM_ESTABLISHED", e.cpm = NoMsg, ~e.tc1
  PROVE  Fine(gsm411_smr_recv(e, "EST_IND", m))
<1> DEFINE err == RpMsg(Own(e, "ERROR_MO", "ERROR_MT"), 0)
           s == SmrError(e)
<1>0. gsm411_smr_recv(e, "EST_IND", m) = gsm411_mnsms_est_ind(e, m)
  BY DEF gsm411_smr_recv, Live, SmrIdle, InUse
<1>1. /\ InUse(s) /\ SmrAsBefore(e, s) /\ s.cps = "WAIT_CP_ACK" /\ s.cpm # NoMsg /\ s.tc1
  BY DataReq, ErrorMessage DEF SmrError, SmrIdle
<1> HIDE DEF s
<1>2. Stopped(new_rp_state(s, "IDLE"))
  BY ZenonT(40), <1>1, NewRpState DEF RpState, Stopped, SmrIdle, Guarded, SmrAsBefore
<1>3. CASE WrongDirection(e, m)
  BY <1>0, <1>2, <1>3, ReleaseFine DEF gsm411_mnsms_est_ind, s
<1>4. CASE ~WrongDirection(e, m) /\ m.rp \in {"DATA_MT", "DATA_MO", "SMMA_MO"}
  <2> DEFINE a == [e EXCEPT !.tr1 = TRUE]
             b == new_rp_state(a, "WAIT_TO_TX_RP_ACK")
             c == [b EXCEPT !.got = Append(@, m.id)]
  <2>1. /\ InUse(a) /\ a.cps = e.cps /\ a.cpm = e.cpm /\ a.tc1 = e.tc1 /\ a.tr1 /\ a.net = e.net
    BY DEF InUse, Sane, Fields, SmrIdle
  <2> HIDE DEF a
  <2>2. InUse(b) /\ Guarded(b) /\ b.net = e.net
    BY <2>1, NewRpState DEF RpState, Guarded
  <2>3. gsm411_mnsms_est_ind(e, m) = gsm411_rl_recv(b, "DATA_IND", m)
    BY <1>4 DEF gsm411_mnsms_est_ind, a
  <2> HIDE DEF b
  <2>4. InUse(c) /\ Guarded(c)
    BY <2>2 DEF InUse, Sane, Fields, Guarded
  <2>5. gsm411_rl_recv(b, "DATA_IND", m) = gsm411_rx_rl_data(b, m)
    BY <2>2 DEF gsm411_rl_recv, Live, InUse
  <2> HIDE DEF c
  <2>6. CASE e.net
    <3>1. gsm411_rx_rl_data(b, m) \in {b, c}
      BY <2>2, <2>6 DEF gsm411_rx_rl_data, gsm411_rx_rp_ud, c
    <3> QED BY <1>0, <2>2, <2>3, <2>4, <2>5, <3>1 DEF Fine, InUse
  <2>7. CASE ~e.net
    <3>1. m.rp = "DATA_MT"
      BY <1>4, <2>7 DEF WrongDirection, Own, FromPhone
    <3> DEFINE answer == RpMsg(IF c.verdict = "ACK" THEN "ACK_MO" ELSE "ERROR_MO", m.id)
    <3>2. c.net = b.net /\ answer # NoMsg
      BY <2>2 DEF c, RpMsg, NoMsg, InUse, Sane, Fields
    <3>3. gsm411_rx_rl_data(b, m) = gsm411_smr_send(c, "REPORT_REQ", answer)
      BY <2>2, <2>7, <3>1
      DEF gsm411_rx_rl_data, gsm411_rx_rp_ud, Own, c, InUse, Sane, Fields
    <3> HIDE DEF answer
    <3> QED BY <1>0, <2>3, <2>4, <2>5, <3>2, <3>3, ReportFine
  <2> QED BY <2>6, <2>7
<1>5. CASE ~WrongDirection(e, m) /\ m.rp \notin {"DATA_MT", "DATA_MO", "SMMA_MO"}
  BY <1>0, <1>2, <1>5 DEF gsm411_mnsms_est_ind, s, Stopped, SmrIdle, Fine, InUse
<1> QED BY <1>3, <1>4, <1>5

\* Whatever comes on an established connection.
LEMMA DataIndFine ==
  ASSUME NEW e, InUse(e), Guarded(e), e.cps = "MM_ESTABLISHED", NEW m
  PROVE  Fine(gsm411_smr_recv(e, "DATA_IND", m))
<1>1. CASE e.rps # "WAIT_FOR_RP_ACK"
  BY <1>1 DEF gsm411_smr_recv, Live, InUse, Fine
<1>2. CASE e.rps = "WAIT_FOR_RP_ACK"
  <2>0. gsm411_smr_recv(e, "DATA_IND", m) = gsm411_mnsms_data_ind_tx(e, m)
    BY <1>2 DEF gsm411_smr_recv, Live, InUse
  <2> DEFINE answer == ~WrongDirection(e, m) /\ m.rp \in {"ACK_MO", "ACK_MT", "ERROR_MO", "ERROR_MT"}
             b == new_rp_state(e, "IDLE")
             s == SmrError(e)
  <2>1. CASE answer
    <3>1. SmrIdle(b) /\ Guarded(b) /\ b.net = e.net
      BY NewRpState DEF RpState, SmrIdle, Guarded
    <3>2. e.net \/ m.rp \in {"ACK_MT", "ERROR_MT"}
      BY <2>1 DEF WrongDirection, Own, FromPhone
    <3>3. gsm411_mnsms_data_ind_tx(e, m)
            = gsm411_send_release(gsm411_rl_recv(b, "REPORT_IND", m))
      BY <2>1 DEF gsm411_mnsms_data_ind_tx
    <3> HIDE DEF b
    <3>4. Stopped(gsm411_rl_recv(b, "REPORT_IND", m))
      BY <2>1, <3>1, <3>2, AnswerRead DEF Stopped, SmrIdle, Guarded
    <3> QED BY <2>0, <3>3, <3>4, ReleaseFine
  <2>2. CASE ~answer
    <3>1. InUse(s) /\ SmrAsBefore(e, s) /\ s.cps = "WAIT_CP_ACK" /\ s.cpm # NoMsg /\ s.tc1
      BY DataReq, ErrorMessage DEF SmrError, Guarded
    <3>2. gsm411_mnsms_data_ind_tx(e, m) = gsm411_send_release(new_rp_state(s, "IDLE"))
      BY <2>2 DEF gsm411_mnsms_data_ind_tx
    <3> HIDE DEF s
    <3>3. Stopped(new_rp_state(s, "IDLE"))
      <4> DEFINE i == new_rp_state(s, "IDLE")
      <4>1. /\ InUse(i) /\ i.rps = "IDLE" /\ i.tr1 = (s.tr1 /\ FALSE)
            /\ i.cps = s.cps /\ i.cpm = s.cpm /\ i.tc1 = s.tc1
        BY <3>1, NewRpState DEF RpState
      <4> HIDE DEF i
      <4>2. Stopped(i)
        BY <3>1, <4>1 DEF Stopped, SmrIdle, Guarded
      <4> QED BY <4>2 DEF i
    <3> QED BY <2>0, <3>2, <3>3, ReleaseFine
  <2> QED BY <2>1, <2>2
<1> QED BY <1>1, <1>2

\* A failure below, SMC being idle: SMR gives up, the transaction stays.
LEMMA ErrorIndKept ==
  ASSUME NEW e, InUse(e), e.cps = "IDLE", e.tr1 <=> e.rps # "IDLE",
         NEW m \in {NoMsg, FillMsg}
  PROVE  LET d == gsm411_smr_recv(e, "ERROR_IND", m) IN InUse(d)
<1> DEFINE b == new_rp_state(e, "IDLE")
           r == gsm411_rl_recv(b, "REPORT_IND", m)
<1>1. SmrIdle(b) /\ b.cps = "IDLE"
  BY NewRpState DEF RpState, SmrIdle
<1>2. m = NoMsg \/ m.rp \in {"ACK_MT", "ERROR_MT"}
  BY SmcAssumption DEF FillMsg, RpMsg
<1> HIDE DEF b
<1>3. SmrIdle(r) /\ r.cps = "IDLE"
  BY <1>1, <1>2, AnswerRead
<1>4. gsm411_smr_recv(e, "ERROR_IND", m) \in {e, r, gsm411_send_release(r)}
  BY DEF gsm411_smr_recv, gsm411_mnsms_error_ind_tx, gsm411_mnsms_error_ind_rx, Live, InUse,
         Sane, RpState, b
<1> HIDE DEF r
<1>5. gsm411_send_release(r) = r
  BY <1>3, RelReq DEF gsm411_send_release, SmrIdle
<1> QED BY <1>3, <1>4, <1>5 DEF SmrIdle

-----------------------------------------------------------------------------
(* SMC, indications from below, and the timers.                             *)

LEMMA CpDataNewFine ==
  ASSUME NEW e, InUse(e), Guarded(e), e.cps = "IDLE", NEW m
  PROVE  Fine(gsm411_mmsms_cp_data(e, m))
<1> DEFINE s == [e EXCEPT !.cps = "MM_ESTABLISHED", !.rel = FALSE]
           d == gsm411_mm_send(s, "DATA_REQ", "ACK", NoMsg)
<1>1. gsm411_mmsms_cp_data(e, m) = gsm411_smr_recv(d, "EST_IND", m)
  BY DEF gsm411_mmsms_cp_data, InUse, Sane, Fields
<1>2. SmrIdle(d) /\ d.cps = "MM_ESTABLISHED" /\ d.cpm = NoMsg /\ ~d.tc1
  BY DEF gsm411_mm_send, Live, SmrIdle, InUse, Sane, Fields, CpState, RpState, Guarded
<1> HIDE DEF d
<1> QED BY <1>1, <1>2, EstIndFine

LEMMA CpDataFine ==
  ASSUME NEW e, InUse(e), Guarded(e), e.cps = "MM_ESTABLISHED", NEW m
  PROVE  Fine(gsm411_mmsms_cp_data(e, m))
<1> DEFINE s == [e EXCEPT !.cps = e.cps, !.rel = e.rel /\ TRUE]
           d == gsm411_mm_send(s, "DATA_REQ", "ACK", NoMsg)
<1>1. gsm411_mmsms_cp_data(e, m) = gsm411_smr_recv(d, "DATA_IND", m)
  BY DEF gsm411_mmsms_cp_data
<1>2. InUse(d) /\ Guarded(d) /\ d.cps = "MM_ESTABLISHED"
  BY DEF gsm411_mm_send, Live, InUse, Sane, Fields, Guarded
<1> HIDE DEF d
<1> QED BY <1>1, <1>2, DataIndFine

LEMMA CpAckFine ==
  ASSUME NEW e, InUse(e), Guarded(e), e.cps = "WAIT_CP_ACK"
  PROVE  Fine(gsm411_mmsms_cp_ack(e))
<1> DEFINE s == [e EXCEPT !.cpm = NoMsg, !.cps = "MM_ESTABLISHED", !.tc1 = FALSE]
           d == [s EXCEPT !.cps = "IDLE"]
<1>1. InUse(s) /\ Guarded(s) /\ InUse(d)
  BY DEF InUse, Sane, Fields, CpState, Guarded
<1>2. gsm411_mmsms_cp_ack(e) \in {s, Release(d)}
  BY DEF gsm411_mmsms_cp_ack
<1> HIDE DEF s, d
<1> QED BY <1>1, <1>2, ReleaseFrees DEF Fine, InUse

\* CP-ERROR, and a message that is not served: SMR is told, all is released.
LEMMA FailureFine ==
  ASSUME NEW e, InUse(e), Guarded(e)
  PROVE  /\ Fine(gsm411_mmsms_cp_error(e))
         /\ Fine(SmcUnimplemented(e))
<1>1. Fine(gsm411_mmsms_cp_error(e))
  <2>1. InUse(Idle(e)) /\ Idle(e).cps = "IDLE" /\ (Idle(e).tr1 <=> Idle(e).rps # "IDLE")
    BY DEF Idle, InUse, Sane, Fields, CpState, Guarded
  <2>2. InUse(gsm411_smr_recv(Idle(e), "ERROR_IND", FillMsg))
    BY <2>1, ErrorIndKept
  <2> QED BY <2>2, ReleaseFrees DEF gsm411_mmsms_cp_error, Fine
<1>2. Fine(SmcUnimplemented(e))
  <2> DEFINE d == gsm411_mm_send([e EXCEPT !.cps = "IDLE"], "DATA_REQ", "ERROR", NoMsg)
  <2>1. InUse(d) /\ d.cps = "IDLE" /\ (d.tr1 <=> d.rps # "IDLE")
    BY DEF gsm411_mm_send, Live, InUse, Sane, Fields, CpState, Guarded
  <2> HIDE DEF d
  <2>2. InUse(gsm411_smr_recv(d, "ERROR_IND", NoMsg))
    BY <2>1, ErrorIndKept
  <2> QED BY <2>2, ReleaseFrees DEF SmcUnimplemented, Fine, d
<1> QED BY <1>1, <1>2

\* Whatever the MM layer has to say.
LEMMA SmcRecvFine ==
  ASSUME NEW e, InUse(e), Guarded(e), NEW prim \in {"EST_CNF", "EST_IND", "DATA_IND"},
         NEW cp, NEW m
  PROVE  Fine(gsm411_smc_recv(e, prim, cp, m))
<1>1. Fine(e)
  BY DEF Fine, InUse
<1>2. CASE prim = "EST_CNF"
  <2>1. CASE e.cps = "MM_CONN_PENDING"
    <3>1. gsm411_smc_recv(e, prim, cp, m) = gsm411_mmsms_send_msg(e)
      BY <1>2, <2>1 DEF gsm411_smc_recv, gsm411_mmsms_est_cnf, Live, InUse, Guarded
    <3> QED BY <2>1, <3>1, SendMsg DEF Fine, Guarded, InUse, SmrAsBefore
  <2>2. CASE e.cps # "MM_CONN_PENDING"
    BY <1>1, <1>2, <2>2 DEF gsm411_smc_recv, Live, InUse
  <2> QED BY <2>1, <2>2
<1>3. CASE prim = "EST_IND"
  <2>1. CASE e.cps = "IDLE"
    <3>1. gsm411_smc_recv(e, prim, cp, m)
            = gsm411_mmsms_cp_data(e, IF cp = "DATA" THEN m ELSE FillMsg)
      BY <1>3, <2>1 DEF gsm411_smc_recv, Live, InUse
    <3> QED BY <2>1, <3>1, CpDataNewFine
  <2>2. CASE e.cps # "IDLE"
    BY <1>3, <2>2, FailureFine DEF gsm411_smc_recv, Live, InUse
  <2> QED BY <2>1, <2>2
<1>4. CASE prim = "DATA_IND"
  <2>1. gsm411_smc_recv(e, prim, cp, m) = SmcDataInd(e, cp, m)
    BY <1>4 DEF gsm411_smc_recv, Live, InUse
  <2>2. \/ cp = "DATA" /\ e.cps = "MM_ESTABLISHED" /\ SmcDataInd(e, cp, m) = gsm411_mmsms_cp_data(e, m)
        \/ cp = "ACK" /\ e.cps = "WAIT_CP_ACK" /\ SmcDataInd(e, cp, m) = gsm411_mmsms_cp_ack(e)
        \/ SmcDataInd(e, cp, m) \in {gsm411_mmsms_cp_error(e), SmcUnimplemented(e)}
    BY DEF SmcDataInd
  <2> QED BY <2>1, <2>2, CpDataFine, CpAckFine, FailureFine
<1> QED BY <1>2, <1>3, <1>4

LEMMA TC1Fine ==
  ASSUME NEW e, InUse(e), Guarded(e), e.tc1
  PROVE  Fine(cp_timer_expired(e))
<1> DEFINE t == [e EXCEPT !.tc1 = FALSE]
           i == [t EXCEPT !.cps = "IDLE"]
           s == gsm411_smr_recv(i, "ERROR_IND", NoMsg)
           z == [s EXCEPT !.cpm = NoMsg]
           u == [t EXCEPT !.rtx = @ + 1]
<1>1. CASE e.rtx = MaxRetr
  <2>1. InUse(i) /\ i.cps = "IDLE" /\ (i.tr1 <=> i.rps # "IDLE")
    BY DEF InUse, Sane, Fields, CpState, Guarded
  <2>2. InUse(s)
    BY <2>1, ErrorIndKept
  <2>3. cp_timer_expired(e) = Release(Live(s, z))
    BY <1>1 DEF cp_timer_expired
  <2> HIDE DEF s
  <2>4. Live(s, z) = z /\ InUse(z)
    BY <2>2 DEF Live, InUse, Sane, Fields
  <2> QED BY <2>3, <2>4, ReleaseFrees DEF Fine
<1>2. CASE e.rtx # MaxRetr
  <2>1. cp_timer_expired(e) = gsm411_mmsms_est_cnf(u)
    BY <1>2 DEF cp_timer_expired
  <2>2. InUse(u) /\ u.cpm # NoMsg /\ (u.tr1 <=> u.rps # "IDLE")
    BY <1>2, SmcAssumption DEF InUse, Sane, Fields, Guarded
  <2> HIDE DEF u
  <2>3. gsm411_mmsms_est_cnf(u) = gsm411_mmsms_send_msg(u)
    BY <2>2 DEF gsm411_mmsms_est_cnf
  <2> QED BY <2>1, <2>2, <2>3, SendMsg DEF Fine, Guarded, InUse, SmrAsBefore
<1> QED BY <1>1, <1>2

LEMMA TR1Fine ==
  ASSUME NEW e, InUse(e), Guarded(e), e.tr1
  PROVE  Fine(rp_timer_expired(e))
<1> DEFINE t == [e EXCEPT !.tr1 = FALSE]
<1>1. InUse(t) /\ t.cps # "IDLE"
  BY DEF InUse, Sane, Fields, Guarded
<1>2. rp_timer_expired(e) = gsm411_smc_send(t, "ABORT_REQ", NoMsg)
  BY <1>1 DEF rp_timer_expired, gsm411_rl_recv, Live, InUse
<1> HIDE DEF t
<1> QED BY <1>1, <1>2, AbortReq DEF Fine

LEMMA NewTransFine ==
  ASSUME NEW net \in BOOLEAN, NEW id
  PROVE  /\ InUse(NewTrans(net, id)) /\ Guarded(NewTrans(net, id))
         /\ NewTrans(net, id).cps = "IDLE" /\ NewTrans(net, id).rps = "IDLE"
BY SmcAssumption DEF NewTrans, InUse, Sane, Fields, Guarded, CpState, RpState

LEMMA SettledFine ==
  ASSUME NEW e, Fine(e), ~e.freed
  PROVE  InUse(Settled(e)) /\ Guarded(Settled(e))
BY DEF Settled, Fine, InUse, Sane, Fields, Guarded

-----------------------------------------------------------------------------
(* The composition.                                                         *)

\* Every transaction, of either side, is in use and guarded.
IInv ==
  /\ broken = FALSE
  /\ tr = [r \in Ref |-> tr[r]] /\ nt = [i \in Ti |-> nt[i]]
  /\ \A r \in Alive : InUse(tr[r].e) /\ Guarded(tr[r].e)
  /\ \A i \in NetAlive : InUse(nt[i].e) /\ Guarded(nt[i].e)

LEMMA InitIInv == Init => IInv
BY DEF Init, IInv, Alive, NetAlive

LEMMA ObserveUnbroken ==
  ASSUME NEW e, Fine(e), broken = FALSE, Observe(e)
  PROVE  broken' = FALSE
BY DEF Observe, Fine, Sane

\* A handler of the phone.
LEMMA PhoneDidIInv ==
  ASSUME IInv, NEW s, NEW r, NEW ti, NEW e, Fine(e), NEW ok,
         PhoneDid(tr, s, r, ti, e, ok), UNCHANGED nt
  PROVE  IInv'
<1>1. broken' = FALSE
  BY ObserveUnbroken DEF IInv, PhoneDid
<1>2. tr' = [tr EXCEPT ![r] = IF e.freed THEN None ELSE [ti |-> ti, e |-> Settled(e)]]
  BY DEF PhoneDid
<1>3. ASSUME NEW x \in Ref, tr'[x] # None
      PROVE  InUse(tr'[x].e) /\ Guarded(tr'[x].e)
  BY <1>2, <1>3, SettledFine DEF IInv, Alive, NetAlive
<1>4. tr' = [x \in Ref |-> tr'[x]]
  BY <1>2 DEF IInv
<1> QED BY <1>1, <1>3, <1>4 DEF IInv, Alive, NetAlive

\* A handler of the network.
LEMMA NetDidIInv ==
  ASSUME IInv, NEW a, NEW ti, NEW e, Fine(e), NEW held,
         NetDid(a, ti, e, held), UNCHANGED tr
  PROVE  IInv'
<1>1. broken' = FALSE
  BY ObserveUnbroken DEF IInv, NetDid
<1>2. nt' = [nt EXCEPT ![ti] = IF e.freed THEN None ELSE [held |-> held, e |-> Settled(e)]]
  BY DEF NetDid
<1>3. ASSUME NEW i \in Ti, nt'[i] # None
      PROVE  InUse(nt'[i].e) /\ Guarded(nt'[i].e)
  BY <1>2, <1>3, SettledFine DEF IInv, NetAlive
<1>4. nt' = [i \in Ti |-> nt'[i]]
  BY <1>2 DEF IInv
<1> QED BY <1>1, <1>3, <1>4 DEF IInv, Alive, NetAlive

LEMMA FoundFine ==
  ASSUME IInv, NEW r
  PROVE  InUse(Found(r)) /\ Guarded(Found(r))
BY NewTransFine DEF IInv, Found

LEMMA FreedFine ==
  ASSUME NEW e, InUse(e)
  PROVE  /\ Fine(gsm411_sms_trans_free(e))
         /\ gsm411_sms_trans_free(e).freed
BY DEF gsm411_sms_trans_free, Fine, InUse, Sane, Fields

LEMMA SubmitIInv ==
  ASSUME IInv, NEW id \in Mo, gsm411_tx_sms_submit(id)
  PROVE  IInv'
<1> DEFINE n == NewTrans(FALSE, id)
           u == [n EXCEPT !.rep = <<[id |-> id, res |-> "FAILED"]>>]
           e == IF id \in Unencodable THEN gsm411_trans_free(u)
                ELSE gsm411_smr_send(n, "DATA_REQ", RpMsg("DATA_MO", id))
<1>1. InUse(n) /\ Guarded(n) /\ n.cps = "IDLE" /\ n.rps = "IDLE"
  BY NewTransFine
<1> HIDE DEF n
<1>2. Fine(gsm411_trans_free(u))
  <2>1. InUse(u)
    BY <1>1 DEF InUse, Sane, Fields
  <2> HIDE DEF u
  <2> QED BY <2>1
          DEF gsm411_trans_free, gsm411_sms_trans_free, Live, Fine, InUse, Sane, Fields
<1>3. Fine(gsm411_smr_send(n, "DATA_REQ", RpMsg("DATA_MO", id)))
  BY <1>1, BeginFine DEF RpMsg, NoMsg
<1>4. Fine(e)
  BY <1>2, <1>3
<1>5. PICK r \in Ref, ok \in BOOLEAN :
        PhoneDid(tr, Below, r, trans_assign_trans_id(UsedTi \cap MoTi), e, ok)
  BY DEF gsm411_tx_sms_submit, n
<1>6. UNCHANGED nt
  BY DEF gsm411_tx_sms_submit
<1> HIDE DEF e
<1> QED BY <1>4, <1>5, <1>6, PhoneDidIInv

LEMMA DequeueIInv ==
  ASSUME IInv, gsm48_mmxx_dequeue
  PROVE  IInv'
<1> DEFINE q == Head(upq)
           f == Found(q.ref)
           e == IF q.prim = "EST_CNF" THEN gsm411_smc_recv(f, "EST_CNF", "NONE", NoMsg)
                ELSE gsm411_sms_trans_free(f)
<1>1. InUse(f) /\ Guarded(f)
  BY FoundFine
<1> HIDE DEF f
<1>2. Fine(e)
  BY <1>1, SmcRecvFine, FreedFine
<1> HIDE DEF e
<1>3. PhoneDid(tr, [Below EXCEPT !.upq = Tail(upq)], q.ref,
               IF q.ref \in Alive THEN tr[q.ref].ti ELSE q.ti, e, TRUE)
  BY DEF gsm48_mmxx_dequeue, e, f
<1>4. UNCHANGED nt
  BY DEF gsm48_mmxx_dequeue
<1> QED BY <1>2, <1>3, <1>4, PhoneDidIInv

LEMMA DataUpIInv ==
  ASSUME IInv, gsm48_mm_data_ind
  PROVE  IInv'
<1> DEFINE m == Head(air.down)
           known == {r \in Ref : conn[r].st # "NONE" /\ conn[r].ti = m.ti}
           targets == IF known # {} THEN known ELSE {x \in Ref : FreshRef(x)}
           prim == IF known # {} THEN "DATA_IND" ELSE "EST_IND"
           E(r, v) == [Found(r) EXCEPT !.verdict = v]
           D(r, v) == gsm411_smc_recv(E(r, v), prim, m.cp, m.msg)
<1>1. PICK r \in targets, v \in {"ACK", "ERROR"} :
        /\ Observe(D(r, v))
        /\ tr' = [x \in Ref |->
                    CASE x \in ImplicitAck(r, m.ti, E(r, v), m) -> None
                      [] x = r -> IF D(r, v).freed THEN None
                                  ELSE [ti |-> m.ti, e |-> Settled(D(r, v))]
                      [] OTHER -> tr[x]]
  BY ZenonT(60) DEF gsm48_mm_data_ind
<1>2. InUse(E(r, v)) /\ Guarded(E(r, v))
  <2>1. InUse(Found(r)) /\ Guarded(Found(r))
    BY FoundFine
  <2> QED BY <2>1 DEF InUse, Sane, Fields, Guarded
<1>3. Fine(D(r, v))
  BY <1>2, SmcRecvFine
<1>4. UNCHANGED nt
  BY DEF gsm48_mm_data_ind
<1>5. broken' = FALSE
  BY <1>1, <1>3, ObserveUnbroken DEF IInv
<1> HIDE DEF E, D
<1>6. ASSUME NEW x \in Ref, tr'[x] # None
      PROVE  InUse(tr'[x].e) /\ Guarded(tr'[x].e)
  BY <1>1, <1>3, <1>6, SettledFine DEF IInv, Alive, NetAlive
<1>7. tr' = [x \in Ref |-> tr'[x]]
  BY <1>1
<1> QED BY <1>4, <1>5, <1>6, <1>7 DEF IInv, Alive, NetAlive

LEMMA PhoneTimersIInv ==
  ASSUME IInv, NEW r \in Ref, TC1Expires(r) \/ TR1Expires(r)
  PROVE  IInv'
<1>1. r \in Alive /\ InUse(tr[r].e) /\ Guarded(tr[r].e) /\ UNCHANGED nt
  BY DEF TC1Expires, TR1Expires, IInv, Alive
<1>2. PICK e \in {cp_timer_expired(tr[r].e), rp_timer_expired(tr[r].e)}, ok \in BOOLEAN :
        Fine(e) /\ PhoneDid(tr, Below, r, tr[r].ti, e, ok)
  BY <1>1, TC1Fine, TR1Fine DEF TC1Expires, TR1Expires
<1> QED BY <1>1, <1>2, PhoneDidIInv

LEMMA NetSubmitIInv ==
  ASSUME IInv, NEW id \in Mt, NetSubmit(id)
  PROVE  IInv'
<1> DEFINE n == NewTrans(TRUE, id)
           e == gsm411_smr_send(n, "DATA_REQ", RpMsg("DATA_MT", id))
<1>1. InUse(n) /\ Guarded(n) /\ n.cps = "IDLE" /\ n.rps = "IDLE"
  BY NewTransFine
<1> HIDE DEF n
<1>2. Fine(e)
  BY <1>1, BeginFine DEF RpMsg, NoMsg
<1> HIDE DEF e
<1>3. NetDid(air, 8 + trans_assign_trans_id({i - 8 : i \in NetUsed}), e, 0) /\ UNCHANGED tr
  BY DEF NetSubmit, e, n
<1> QED BY <1>2, <1>3, NetDidIInv

LEMMA NetRecvIInv ==
  ASSUME IInv, NetRecv
  PROVE  IInv'
<1> DEFINE m == Head(air.up)
           known == m.ti \in NetAlive
           e == IF known THEN nt[m.ti].e ELSE NewTrans(TRUE, 0)
           d == IF ~known /\ m.cp # "DATA" THEN gsm411_sms_trans_free(e)
                ELSE gsm411_smc_recv(e, IF known THEN "DATA_IND" ELSE "EST_IND", m.cp, m.msg)
           held == CASE d.got # <<>> -> d.got[1] [] d.got = <<>> /\ known -> nt[m.ti].held
                     [] OTHER -> 0
<1>1. InUse(e) /\ Guarded(e)
  BY NewTransFine DEF IInv
<1>2. NetDid([air EXCEPT !.up = Tail(@)], m.ti, d, held) /\ UNCHANGED tr
  BY Zenon DEF NetRecv
<1> HIDE DEF e, known, held
<1>3. Fine(d)
  BY <1>1, SmcRecvFine, FreedFine
<1> HIDE DEF d
<1> QED BY <1>2, <1>3, NetDidIInv

LEMMA NetTransIInv ==
  ASSUME IInv, NEW i \in Ti,
         \/ NetConfirm(i) \/ NetTC1Expires(i) \/ NetTR1Expires(i)
         \/ \E v \in {"ACK", "ERROR"} : NetReport(i, v)
  PROVE  IInv'
<1>1. InUse(nt[i].e) /\ Guarded(nt[i].e) /\ UNCHANGED tr
  BY DEF IInv, NetAlive, NetConfirm, NetTC1Expires, NetTR1Expires, NetReport
<1>2. ASSUME NEW v
      PROVE  RpMsg(IF v = "ACK" THEN "ACK_MT" ELSE "ERROR_MT", nt[i].held) # NoMsg
  BY DEF RpMsg, NoMsg
<1>3. CASE NetConfirm(i)
  <2>1. NetDid(air, i, gsm411_smc_recv(nt[i].e, "EST_CNF", "NONE", NoMsg), 0)
    BY <1>3 DEF NetConfirm
  <2> QED BY <1>1, <2>1, SmcRecvFine, NetDidIInv
<1>4. CASE NetTC1Expires(i)
  <2>1. nt[i].e.tc1 /\ NetDid(air, i, cp_timer_expired(nt[i].e), nt[i].held)
    BY <1>4 DEF NetTC1Expires
  <2> QED BY <1>1, <2>1, TC1Fine, NetDidIInv
<1>5. CASE NetTR1Expires(i)
  <2>1. nt[i].e.tr1 /\ NetDid(air, i, rp_timer_expired(nt[i].e), nt[i].held)
    BY <1>5 DEF NetTR1Expires
  <2> QED BY <1>1, <2>1, TR1Fine, NetDidIInv
<1>6. CASE \E v \in {"ACK", "ERROR"} : NetReport(i, v)
  <2>1. PICK v \in {"ACK", "ERROR"} :
          NetDid(air, i, gsm411_smr_send(nt[i].e, "REPORT_REQ",
                   RpMsg(IF v = "ACK" THEN "ACK_MT" ELSE "ERROR_MT", nt[i].held)), 0)
    BY <1>6 DEF NetReport
  <2> QED BY <1>1, <1>2, <2>1, ReportFine, NetDidIInv
<1> QED BY <1>3, <1>4, <1>5, <1>6

\* The network hears of a broken connection and frees what is left.
LEMMA EndedUnbroken ==
  ASSUME NEW e, InUse(e), Guarded(e)
  PROVE  LET d == gsm411_sms_trans_free(gsm411_smc_recv(e, "REL_IND", "NONE", NoMsg)) IN
         d.uaf = FALSE /\ d.fatal = FALSE
<1> DEFINE s == gsm411_smc_recv(e, "REL_IND", "NONE", NoMsg)
<1>1. InUse(Idle(e)) /\ Idle(e).cps = "IDLE" /\ (Idle(e).tr1 <=> Idle(e).rps # "IDLE")
  BY DEF Idle, InUse, Sane, Fields, CpState, Guarded
<1>2. s \in {e, gsm411_smr_recv(Idle(e), "ERROR_IND", NoMsg)}
  BY DEF gsm411_smc_recv, gsm411_mmsms_rel_ind, Live, InUse
<1>3. InUse(s)
  BY <1>1, <1>2, ErrorIndKept
<1> HIDE DEF s
<1>4. Fine(gsm411_sms_trans_free(s))
  BY <1>3, FreedFine
<1> QED BY <1>4 DEF Fine, Sane, s

LEMMA RadioBreaksIInv ==
  ASSUME IInv, RadioBreaks
  PROVE  IInv'
<1>1. broken' = FALSE
  BY EndedUnbroken DEF RadioBreaks, IInv
<1>2. nt' = [i \in Ti |-> None] /\ UNCHANGED tr
  BY DEF RadioBreaks
<1> QED BY <1>1, <1>2 DEF IInv, Alive, NetAlive

LEMMA StepIInv == IInv /\ [Next]_vars => IInv'
<1> SUFFICES ASSUME IInv, [Next]_vars PROVE IInv'
  OBVIOUS
<1>1. ASSUME UNCHANGED <<tr, nt, broken>> PROVE IInv'
  BY <1>1 DEF IInv, Alive, NetAlive
<1>2. CASE \E id \in Mo : gsm411_tx_sms_submit(id)
  BY <1>2, SubmitIInv
<1>3. CASE \E id \in Mt : NetSubmit(id)
  BY <1>3, NetSubmitIInv
<1>4. CASE PhoneStep
  <2>1. CASE \E r \in Ref : MmConfirm(r) \/ MmReject(r)
    BY <1>1, <2>1 DEF MmConfirm, MmReject
  <2> QED BY <1>4, <2>1, DequeueIInv, DataUpIInv, PhoneTimersIInv DEF PhoneStep
<1>5. CASE NetStep
  BY <1>5, NetRecvIInv, NetTransIInv DEF NetStep, NetAlive
<1>6. CASE LinkLoses
  BY <1>1, <1>6 DEF LinkLoses
<1>7. CASE RadioBreaks
  BY <1>7, RadioBreaksIInv
<1>8. CASE UNCHANGED vars
  BY <1>1, <1>8 DEF vars
<1> QED BY <1>2, <1>3, <1>4, <1>5, <1>6, <1>7, <1>8 DEF Next

\* Every reachable state satisfies the invariant that the steps preserve.
LEMMA Inductive == Spec => []IInv
BY InitIInv, StepIInv, PTL DEF Spec

\* A control or relay entity that waits has its timer running, and none runs
\* for one that does not: no loss, no delay and no order of events leaves a
\* short message waiting for ever (gsm0411_smc.c, gsm0411_smr.c).
THEOREM AlwaysWaitGuarded == Spec => []WaitGuarded
<1>1. IInv => WaitGuarded
  BY DEF IInv, WaitGuarded
<1> QED BY <1>1, Inductive, PTL

\* No order of events makes a handler use a transaction that was freed under
\* it, nor reach a branch commented `should never happen' (gsm0411_smc.c:168).
THEOREM AlwaysNotBroken == Spec => []NotBroken
<1>1. IInv => NotBroken
  BY DEF IInv, NotBroken
<1> QED BY <1>1, Inductive, PTL

-----------------------------------------------------------------------------
(* The message of a transaction and its report.                             *)

\* A transaction that is freed has given up its message.
Booked(e) == DOMAIN e = Fields /\ (e.freed => e.sms = 0)

\* A handler leaves the message where it is, or reports it and gives it up.
Settles(e, d) ==
  /\ Booked(d)
  /\ \/ d.sms = e.sms /\ d.rep = e.rep
     \/ /\ e.sms # 0 /\ d.sms = 0
        /\ \E res \in {"OK", "FAILED"} : d.rep = Append(e.rep, [id |-> e.sms, res |-> res])

LEMMA SettlesTrans ==
  ASSUME NEW e, NEW d, Settles(e, d)
  PROVE  Booked(d) /\ \A c : Settles(d, c) => Settles(e, c)
BY Zenon DEF Settles

LEMMA SettlesSelf ==
  ASSUME NEW e, Booked(e)
  PROVE  Settles(e, e) /\ Settles(e, [e EXCEPT !.uaf = TRUE])
BY DEF Settles, Booked, Fields

LEMMA LiveSettles ==
  ASSUME NEW e, NEW next, Booked(e), ~e.freed => Settles(e, next)
  PROVE  Settles(e, Live(e, next))
BY SettlesSelf DEF Live

\* What is changed beside the message.
LEMMA AsideSettles ==
  ASSUME NEW e, Booked(e), NEW x, NEW y, NEW z
  PROVE  /\ Settles(e, [e EXCEPT !.out = x])
         /\ Settles(e, [e EXCEPT !.cpm = x, !.cps = y])
         /\ Settles(e, [e EXCEPT !.cpm = x])
         /\ Settles(e, [e EXCEPT !.cps = x, !.rel = y])
         /\ Settles(e, [e EXCEPT !.cps = x])
         /\ Settles(e, [e EXCEPT !.rel = x])
         /\ Settles(e, [e EXCEPT !.fatal = x, !.cpm = y])
         /\ Settles(e, [e EXCEPT !.fatal = x])
         /\ Settles(e, [e EXCEPT !.rtx = x, !.cps = y, !.tc1 = z])
         /\ Settles(e, [e EXCEPT !.rps = x, !.tr1 = y])
         /\ Settles(e, [e EXCEPT !.tr1 = x])
         /\ Settles(e, [e EXCEPT !.tc1 = x])
         /\ Settles(e, [e EXCEPT !.rtx = x])
         /\ Settles(e, [e EXCEPT !.got = x])
         /\ Settles(e, [e EXCEPT !.verdict = x])
         /\ Settles(e, [e EXCEPT !.cpm = x, !.cps = y, !.tc1 = z])
BY DEF Settles, Booked, Fields

LEMMA FreeSettles ==
  ASSUME NEW e, Booked(e)
  PROVE  Settles(e, gsm411_sms_trans_free(e)) /\ Settles(e, gsm411_trans_free(e))
<1>1. ASSUME NEW x, Booked(x)
      PROVE  Settles(x, gsm411_sms_trans_free(x))
  BY <1>1 DEF gsm411_sms_trans_free, Settles, Booked, Fields
<1> DEFINE o == [e EXCEPT !.out = Append(@, Prim("REL_REQ", "NONE", NoMsg))]
<1>2. Settles(e, o)
  BY Zenon, AsideSettles
<1>3. Settles(e, gsm411_sms_trans_free(o))
  <2> HIDE DEF o
  <2> QED BY <1>1, <1>2, SettlesTrans
<1>4. Settles(e, gsm411_trans_free(e))
  BY <1>3, LiveSettles, SettlesTrans DEF gsm411_trans_free
<1> QED BY <1>1, <1>4

LEMMA MmSendSettles ==
  ASSUME NEW e, Booked(e), NEW prim, NEW cp, NEW m
  PROVE  Settles(e, gsm411_mm_send(e, prim, cp, m))
<1> DEFINE s == [e EXCEPT !.out = Append(@, Prim(prim, cp, m))]
<1>1. Settles(e, s)
  BY Zenon, AsideSettles
<1>2. Settles(e, IF prim = "REL_REQ" THEN gsm411_trans_free(s) ELSE s)
  <2> HIDE DEF s
  <2> QED BY <1>1, FreeSettles, SettlesTrans
<1> QED BY SMT, <1>2, LiveSettles, SettlesTrans DEF gsm411_mm_send

LEMMA ReleaseSettles ==
  ASSUME NEW e, Booked(e)
  PROVE  Settles(e, Release(e))
BY MmSendSettles, SettlesTrans DEF Release

LEMMA SendMsgSettles ==
  ASSUME NEW e, Booked(e)
  PROVE  Settles(e, gsm411_mmsms_send_msg(e))
<1> DEFINE s == [e EXCEPT !.rtx = IF e.cps = "WAIT_CP_ACK" THEN @ ELSE 0,
                          !.cps = "WAIT_CP_ACK", !.tc1 = TRUE]
<1>1. Settles(e, s)
  BY Zenon, AsideSettles
<1> HIDE DEF s
<1>2. Settles(s, gsm411_mm_send(s, "DATA_REQ", "DATA", e.cpm))
  BY <1>1, MmSendSettles, SettlesTrans
<1> QED BY SMT, <1>1, <1>2, SettlesTrans DEF gsm411_mmsms_send_msg, s

LEMMA IdleSettles ==
  ASSUME NEW e, Booked(e)
  PROVE  Settles(e, Idle(e)) /\ Booked(Idle(e))
<1>1. Settles(e, Idle(e))
  BY Zenon, AsideSettles DEF Idle
<1> QED BY <1>1, SettlesTrans

LEMMA SmcSendSettles ==
  ASSUME NEW e, Booked(e), NEW prim, NEW m
  PROVE  Settles(e, gsm411_smc_send(e, prim, m))
<1>1. Settles(e, Stored(e, m)) /\ Booked(Stored(e, m))
  <2>1. Settles(e, Stored(e, m))
    BY Zenon, AsideSettles DEF Stored
  <2> QED BY Zenon, <2>1, SettlesTrans
<1>2. Settles(e, gsm411_mnsms_est_req(e, m))
  <2> DEFINE s == [Stored(e, m) EXCEPT !.cps = "MM_CONN_PENDING", !.rel = FALSE]
  <2>0. Settles(Stored(e, m), s)
    BY Zenon, <1>1, AsideSettles
  <2>1. Settles(e, s)
    BY <1>1, <2>0, SettlesTrans
  <2> HIDE DEF s
  <2>2. Settles(s, gsm411_mm_send(s, "EST_REQ", "NONE", NoMsg))
    BY <2>1, MmSendSettles, SettlesTrans
  <2> QED BY <2>1, <2>2, SettlesTrans DEF gsm411_mnsms_est_req, s
<1>3. Settles(e, gsm411_mnsms_data_req(e, m))
  BY <1>1, SendMsgSettles, SettlesTrans DEF gsm411_mnsms_data_req
<1>4. Settles(e, gsm411_mnsms_rel_req(e))
  <2>1. Settles(e, Release(Idle(e)))
    BY IdleSettles, ReleaseSettles, SettlesTrans
  <2>2. Settles(e, [e EXCEPT !.rel = TRUE])
    BY Zenon, AsideSettles
  <2> QED BY <2>1, <2>2, SettlesSelf, SettlesTrans DEF gsm411_mnsms_rel_req
<1>5. Settles(e, gsm411_mnsms_abort_req(e))
  <2> DEFINE s == gsm411_mm_send(Idle(e), "DATA_REQ", "ERROR", NoMsg)
  <2>1. Settles(e, s)
    BY IdleSettles, MmSendSettles, SettlesTrans
  <2> HIDE DEF s
  <2> QED BY <2>1, ReleaseSettles, SettlesTrans DEF gsm411_mnsms_abort_req, s
<1>6. Settles(e, e)
  BY Zenon, SettlesSelf
<1> DEFINE n == CASE prim = "EST_REQ" /\ e.cps = "IDLE" -> gsm411_mnsms_est_req(e, m)
                  [] prim = "REL_REQ" -> gsm411_mnsms_rel_req(e)
                  [] prim = "DATA_REQ" /\ e.cps = "MM_ESTABLISHED" -> gsm411_mnsms_data_req(e, m)
                  [] prim = "ABORT_REQ" /\ e.cps # "IDLE" -> gsm411_mnsms_abort_req(e)
                  [] OTHER -> e
<1>7. Settles(e, n)
  BY <1>2, <1>3, <1>4, <1>5, <1>6
<1> HIDE DEF n
<1>8. Settles(e, Live(e, n))
  BY <1>7, LiveSettles
<1> QED BY Zenon, <1>8 DEF gsm411_smc_send, n

LEMMA RpStateSettles ==
  ASSUME NEW e, Booked(e), NEW s
  PROVE  Settles(e, new_rp_state(e, s))
BY Zenon, AsideSettles, LiveSettles, SettlesTrans DEF new_rp_state

LEMMA SendReleaseSettles ==
  ASSUME NEW e, Booked(e)
  PROVE  Settles(e, gsm411_send_release(e))
BY SmcSendSettles, SettlesTrans DEF gsm411_send_release

LEMMA SmrErrorSettles ==
  ASSUME NEW e, Booked(e)
  PROVE  Settles(e, SmrError(e))
BY SmcSendSettles, SettlesTrans DEF SmrError

LEMMA SmrSendSettles ==
  ASSUME NEW e, Booked(e), NEW prim, NEW m
  PROVE  Settles(e, gsm411_smr_send(e, prim, m))
<1>1. Settles(e, gsm411_rl_data_req(e, m))
  <2> DEFINE a == [e EXCEPT !.tr1 = TRUE]
             b == new_rp_state(a, "WAIT_FOR_RP_ACK")
  <2>1. Settles(e, a)
    BY Zenon, AsideSettles
  <2> HIDE DEF a
  <2>2. Settles(e, b)
    BY <2>1, RpStateSettles, SettlesTrans
  <2> HIDE DEF b
  <2>3. Settles(e, gsm411_smc_send(b, "EST_REQ", m))
    BY <2>2, SmcSendSettles, SettlesTrans
  <2> QED BY Zenon, <2>3 DEF gsm411_rl_data_req, a, b
<1>2. Settles(e, gsm411_rl_report_req(e, m))
  <2> DEFINE b == new_rp_state(e, "IDLE")
             s == gsm411_smc_send(b, "DATA_REQ", m)
  <2>1. Settles(e, b)
    BY RpStateSettles
  <2> HIDE DEF b
  <2>2. Settles(e, s)
    BY <2>1, SmcSendSettles, SettlesTrans
  <2> HIDE DEF s
  <2>3. Settles(e, gsm411_send_release(s))
    BY <2>2, SendReleaseSettles, SettlesTrans
  <2> QED BY <2>3 DEF gsm411_rl_report_req, b, s
<1>3. Settles(e, e)
  BY SettlesSelf
<1> QED BY <1>1, <1>2, <1>3, LiveSettles, SettlesTrans DEF gsm411_smr_send

LEMMA UserReportSettles ==
  ASSUME NEW e, Booked(e), e.sms # 0, NEW res \in {"OK", "FAILED"}
  PROVE  Settles(e, gsm411_sms_report(e, res))
BY DEF gsm411_sms_report, Live, Settles, Booked, Fields

LEMMA RlRecvSettles ==
  ASSUME NEW e, Booked(e), NEW ind, NEW m
  PROVE  Settles(e, gsm411_rl_recv(e, ind, m))
<1>0. Settles(e, e)
  BY SettlesSelf
<1>1. Settles(e, gsm411_rx_rp_ack(e))
  BY SmrSendSettles, UserReportSettles, SettlesTrans DEF gsm411_rx_rp_ack
<1>2. Settles(e, gsm411_rx_rp_error(e))
  BY <1>0, UserReportSettles, SettlesTrans DEF gsm411_rx_rp_error
<1>3. Settles(e, gsm411_rx_rp_ud(e, m))
  <2> DEFINE s == [e EXCEPT !.got = Append(@, m.id)]
  <2>1. Settles(e, s)
    BY Zenon, AsideSettles
  <2> HIDE DEF s
  <2>2. \A x : Settles(e, gsm411_smr_send(s, "REPORT_REQ", x))
    BY <2>1, SmrSendSettles, SettlesTrans
  <2> QED BY Zenon, <2>1, <2>2 DEF gsm411_rx_rp_ud, s
<1>4. Settles(e, gsm411_trans_free(e))
  BY FreeSettles
<1>5. Settles(e, gsm411_rx_rl_data(e, m))
  BY <1>0, <1>3, <1>4 DEF gsm411_rx_rl_data
<1>6. Settles(e, gsm411_rx_rl_report(e, m))
  BY <1>0, <1>1, <1>2, <1>4 DEF gsm411_rx_rl_report
<1> QED BY <1>0, <1>5, <1>6, LiveSettles, SettlesTrans DEF gsm411_rl_recv

LEMMA SmrRecvSettles ==
  ASSUME NEW e, Booked(e), NEW ind, NEW m
  PROVE  Settles(e, gsm411_smr_recv(e, ind, m))
<1>0. Settles(e, e)
  BY SettlesSelf
<1>1. Settles(e, new_rp_state(SmrError(e), "IDLE"))
  BY SmrErrorSettles, RpStateSettles, SettlesTrans
<1>2. Settles(e, gsm411_send_release(new_rp_state(SmrError(e), "IDLE")))
  BY <1>1, SendReleaseSettles, SettlesTrans
<1>3. \A x, y : Settles(e, gsm411_rl_recv(new_rp_state(e, "IDLE"), x, y))
  BY RpStateSettles, RlRecvSettles, SettlesTrans
<1>4. \A x, y : Settles(e, gsm411_send_release(gsm411_rl_recv(new_rp_state(e, "IDLE"), x, y)))
  BY <1>3, SendReleaseSettles, SettlesTrans
<1>5. Settles(e, gsm411_rl_recv(new_rp_state([e EXCEPT !.tr1 = TRUE], "WAIT_TO_TX_RP_ACK"),
                                "DATA_IND", m))
  <2> DEFINE a == [e EXCEPT !.tr1 = TRUE]
  <2>1. Settles(e, a)
    BY AsideSettles
  <2> HIDE DEF a
  <2>2. Settles(e, gsm411_rl_recv(new_rp_state(a, "WAIT_TO_TX_RP_ACK"), "DATA_IND", m))
    BY <2>1, RpStateSettles, RlRecvSettles, SettlesTrans
  <2> QED BY <2>2 DEF a
<1>6. Settles(e, gsm411_mnsms_est_ind(e, m))
  BY <1>1, <1>2, <1>5 DEF gsm411_mnsms_est_ind
<1>7. Settles(e, gsm411_mnsms_data_ind_tx(e, m))
  BY <1>2, <1>4 DEF gsm411_mnsms_data_ind_tx
<1>8. Settles(e, gsm411_mnsms_error_ind_tx(e, m)) /\ Settles(e, gsm411_mnsms_error_ind_rx(e, m))
  BY <1>3, <1>4 DEF gsm411_mnsms_error_ind_tx, gsm411_mnsms_error_ind_rx
<1> QED BY <1>0, <1>6, <1>7, <1>8, LiveSettles, SettlesTrans DEF gsm411_smr_recv

LEMMA SmcRecvSettles ==
  ASSUME NEW e, Booked(e), NEW prim, NEW cp, NEW m
  PROVE  Settles(e, gsm411_smc_recv(e, prim, cp, m))
<1>0. Settles(e, e)
  BY SettlesSelf
<1>1. Settles(e, gsm411_mmsms_est_cnf(e))
  BY Zenon, AsideSettles, SendMsgSettles, SettlesTrans DEF gsm411_mmsms_est_cnf
<1>2. Settles(e, gsm411_mmsms_cp_ack(e))
  <2> DEFINE s == [e EXCEPT !.cpm = NoMsg, !.cps = "MM_ESTABLISHED", !.tc1 = FALSE]
  <2>1. Settles(e, s)
    BY Zenon, AsideSettles
  <2> HIDE DEF s
  <2>2. Settles(s, [s EXCEPT !.cps = "IDLE"])
    BY Zenon, <2>1, AsideSettles, SettlesTrans
  <2>3. Settles(e, Release([s EXCEPT !.cps = "IDLE"]))
    BY <2>1, <2>2, ReleaseSettles, SettlesTrans
  <2> QED BY Zenon, <2>1, <2>3 DEF gsm411_mmsms_cp_ack, s
<1>3. \A x : Settles(e, gsm411_mmsms_cp_data(e, x))
  <2> SUFFICES ASSUME NEW x
               PROVE  Settles(e, gsm411_mmsms_cp_data(e, x))
    BY Zenon
  <2> DEFINE new == e.cps = "IDLE"
             s == [e EXCEPT !.cps = IF new THEN "MM_ESTABLISHED" ELSE @, !.rel = @ /\ ~new]
             t == gsm411_mm_send(s, "DATA_REQ", "ACK", NoMsg)
  <2>1. Settles(e, s)
    BY Zenon, AsideSettles
  <2> HIDE DEF s
  <2>2. Settles(e, t)
    BY <2>1, MmSendSettles, SettlesTrans
  <2> HIDE DEF t
  <2>3. \A ind : Settles(e, gsm411_smr_recv(t, ind, x))
    BY <2>2, SmrRecvSettles, SettlesTrans
  <2> QED BY <2>3 DEF gsm411_mmsms_cp_data, s, t
<1>4. \A x : Settles(e, gsm411_smr_recv(Idle(e), "ERROR_IND", x))
  BY IdleSettles, SmrRecvSettles, SettlesTrans
<1>5. Settles(e, gsm411_mmsms_cp_error(e))
  BY <1>4, ReleaseSettles, SettlesTrans DEF gsm411_mmsms_cp_error
<1>6. Settles(e, SmcUnimplemented(e))
  <2> DEFINE a == [e EXCEPT !.cps = "IDLE"]
             b == gsm411_mm_send(a, "DATA_REQ", "ERROR", NoMsg)
             d == gsm411_smr_recv(b, "ERROR_IND", NoMsg)
  <2>1. Settles(e, a)
    BY Zenon, AsideSettles
  <2> HIDE DEF a
  <2>2. Settles(e, b)
    BY <2>1, MmSendSettles, SettlesTrans
  <2> HIDE DEF b
  <2>3. Settles(e, d)
    BY <2>2, SmrRecvSettles, SettlesTrans
  <2> HIDE DEF d
  <2>4. Settles(e, Release(d))
    BY <2>3, ReleaseSettles, SettlesTrans
  <2> QED BY Zenon, <2>4 DEF SmcUnimplemented, a, b, d
<1>7. Settles(e, SmcDataInd(e, cp, m))
  BY <1>2, <1>3, <1>5, <1>6 DEF SmcDataInd
<1>8. Settles(e, gsm411_mmsms_rel_ind(e))
  BY <1>4 DEF gsm411_mmsms_rel_ind
<1> QED BY SMT, <1>0, <1>1, <1>3, <1>6, <1>7, <1>8, LiveSettles, SettlesTrans DEF gsm411_smc_recv

LEMMA TimersSettle ==
  ASSUME NEW e, Booked(e)
  PROVE  Settles(e, cp_timer_expired(e)) /\ Settles(e, rp_timer_expired(e))
<1> DEFINE t == [e EXCEPT !.tc1 = FALSE]
           i == [t EXCEPT !.cps = "IDLE"]
           s == gsm411_smr_recv(i, "ERROR_IND", NoMsg)
           u == [t EXCEPT !.rtx = @ + 1]
           w == [e EXCEPT !.tr1 = FALSE]
<1>1. Settles(e, t) /\ Settles(e, w)
  BY Zenon, AsideSettles
<1>2. Settles(e, i) /\ Settles(e, u)
  <2>1. Booked(t)
    BY SMT, <1>1, SettlesTrans
  <2> HIDE DEF t
  <2>2. Settles(t, i) /\ Settles(t, u)
    BY Zenon, <2>1, AsideSettles
  <2> QED BY <1>1, <2>2, SettlesTrans
<1> HIDE DEF t, i, u, w
<1>3. Settles(e, s)
  BY <1>2, SmrRecvSettles, SettlesTrans
<1> HIDE DEF s
<1>4. Settles(e, Live(s, [s EXCEPT !.cpm = NoMsg]))
  <2>1. Booked(s)
    BY Zenon, <1>3, SettlesTrans
  <2>2. Settles(s, [s EXCEPT !.cpm = NoMsg])
    BY Zenon, <2>1, AsideSettles
  <2> QED BY <1>3, <2>1, <2>2, LiveSettles, SettlesTrans
<1>5. Settles(e, Release(Live(s, [s EXCEPT !.cpm = NoMsg])))
  BY <1>4, ReleaseSettles, SettlesTrans
<1>6. Settles(e, gsm411_mmsms_est_cnf(u))
  <2>1. Settles(u, gsm411_mmsms_est_cnf(u))
    BY Zenon, <1>2, AsideSettles, SendMsgSettles, SettlesTrans DEF gsm411_mmsms_est_cnf
  <2> QED BY Zenon, <1>2, <2>1, SettlesTrans
<1>7. Settles(e, cp_timer_expired(e))
  BY <1>5, <1>6 DEF cp_timer_expired, s, t, i, u
<1>8. Settles(e, rp_timer_expired(e))
  <2> DEFINE r == gsm411_rl_recv(w, "REPORT_IND", NoMsg)
  <2>1. Settles(e, r)
    BY <1>1, RlRecvSettles, SettlesTrans
  <2> HIDE DEF r
  <2>2. Settles(e, gsm411_smc_send(r, "ABORT_REQ", NoMsg))
    BY <2>1, SmcSendSettles, SettlesTrans
  <2> QED BY <2>2 DEF rp_timer_expired, r, w
<1> QED BY Zenon, <1>7, <1>8

LEMMA NewTransBooked ==
  ASSUME NEW net, NEW id
  PROVE  Booked(NewTrans(net, id)) /\ NewTrans(net, id).sms = id /\ NewTrans(net, id).rep = <<>>
         /\ ~NewTrans(net, id).freed
BY DEF NewTrans, Booked, Fields

-----------------------------------------------------------------------------
(* Every message has its place.                                             *)

Carried(id) == Carries(id) # {} \/ NetCarries(id) # {}

\* A message of the phone is carried under an identifier the phone assigned,
\* and its connection has the same: what the network opens never drops it.
PhoneEntry(r) ==
  /\ tr[r].e.sms \in Mo \cup {0} /\ tr[r].e.rep = <<>>
  /\ tr[r].e.sms # 0 => /\ tr[r].ti \in MoTi
                        /\ conn[r].st # "NONE" => conn[r].ti = tr[r].ti
NetEntry(i) == nt[i].e.sms \in Mt \cup {0} /\ nt[i].e.rep = <<>>

\* A message is with its transaction, or its report is out.
Accounted(id) ==
  /\ id \notin asked => ~Carried(id) /\ reports[id] = <<>>
  /\ id \in asked \ Unencodable => IF Carried(id) THEN reports[id] = <<>> ELSE Len(reports[id]) = 1

Ledger ==
  /\ asked \subseteq Sms
  /\ reports \in [Sms -> Seq({"OK", "FAILED"})]
  /\ conn = [r \in Ref |-> conn[r]] /\ \A r \in Ref : DOMAIN conn[r] = {"st", "ti"}
  /\ \A r \in Alive : PhoneEntry(r)
  /\ \A i \in NetAlive : NetEntry(i)
  /\ \A r, s \in Alive : tr[r].e.sms # 0 /\ tr[r].e.sms = tr[s].e.sms => r = s
  /\ \A i, j \in NetAlive : nt[i].e.sms # 0 /\ nt[i].e.sms = nt[j].e.sms => i = j
  /\ \A id \in Sms : Accounted(id)

-----------------------------------------------------------------------------
(* The operators of the composition.                                        *)

\* What the MM layer is asked to do changes the connection at hand only.
Layer(s) == DOMAIN s = {"conn", "upq", "up"} /\ s.conn = [x \in Ref |-> s.conn[x]]
Shifts(s, r, ti, t) ==
  /\ Layer(t)
  /\ \A x \in Ref : x # r => t.conn[x] = s.conn[x]
  /\ r \in Ref => t.conn[r] \in {s.conn[r], NoConn, [st |-> "PEND", ti |-> ti]}

LEMMA NthShifts ==
  ASSUME NEW s, Layer(s), NEW r, NEW ti, NEW out, NEW k, NEW ok
  PROVE  Shifts(s, r, ti, Nth(s, r, ti, out, k, ok))
<1>1. Shifts(s, r, ti, s)
  BY DEF Shifts
<1>2. \A x : Shifts(s, r, ti, [s EXCEPT !.upq = x]) /\ Shifts(s, r, ti, [s EXCEPT !.up = x])
  BY DEF Shifts, Layer
<1>3. \A c \in {NoConn, [st |-> "PEND", ti |-> ti]} : Shifts(s, r, ti, [s EXCEPT !.conn[r] = c])
  <2> TAKE c \in {NoConn, [st |-> "PEND", ti |-> ti]}
  <2> DEFINE t == [s EXCEPT !.conn[r] = c]
  <2>1. DOMAIN t = {"conn", "upq", "up"} /\ t.conn = [s.conn EXCEPT ![r] = c]
    BY DEF Layer
  <2>2. /\ t.conn = [x \in Ref |-> t.conn[x]] /\ r \in Ref => t.conn[r] = c
        /\ \A x \in Ref : x # r => t.conn[x] = s.conn[x]
    BY <2>1 DEF Layer
  <2> QED BY <2>1, <2>2 DEF Shifts, Layer
<1>4. ASSUME NEW p
      PROVE  Shifts(s, r, ti, gsm48_mmxx_downmsg(s, r, ti, p, ok))
  <2> DEFINE pend == [st |-> "PEND", ti |-> ti]
             x == Append(s.upq, [prim |-> "REL_IND", ref |-> r, ti |-> ti])
             y == Append(s.up, [ti |-> ti, cp |-> p.cp, msg |-> p.msg])
  <2>1. gsm48_mmxx_downmsg(s, r, ti, p, ok) \in
          {s, [s EXCEPT !.upq = x], [s EXCEPT !.up = y],
           [s EXCEPT !.conn[r] = NoConn], [s EXCEPT !.conn[r] = pend]}
    BY DEF gsm48_mmxx_downmsg
  <2> HIDE DEF x, y
  <2>2. /\ Shifts(s, r, ti, [s EXCEPT !.conn[r] = NoConn])
        /\ Shifts(s, r, ti, [s EXCEPT !.conn[r] = pend])
    BY <1>3
  <2> HIDE DEF pend
  <2> QED BY <1>1, <1>2, <2>1, <2>2
<1> QED BY <1>1, <1>4 DEF Nth

LEMMA ServedShifts ==
  ASSUME NEW s, Layer(s), NEW r, NEW ti, NEW out, NEW ok
  PROVE  Shifts(s, r, ti, Served(s, r, ti, out, ok))
<1>1. ASSUME NEW a, NEW b, NEW c, Shifts(a, r, ti, b), Shifts(b, r, ti, c)
      PROVE  Shifts(a, r, ti, c)
  BY <1>1 DEF Shifts
<1>2. ASSUME NEW a, NEW b, NEW k, Shifts(a, r, ti, b)
      PROVE  Shifts(a, r, ti, Nth(b, r, ti, out, k, ok))
  <2>1. Layer(b)
    BY <1>2 DEF Shifts
  <2> QED BY <1>1, <1>2, <2>1, NthShifts
<1>3. Shifts(s, r, ti, s)
  BY DEF Shifts
<1> QED BY <1>2, <1>3 DEF Served

\* The identifier found is free, if one is.
LEMMA AssignFree ==
  ASSUME NEW inuse \in SUBSET (0 .. 6), inuse # 0 .. 6
  PROVE  trans_assign_trans_id(inuse) \in (0 .. 6) \ inuse
<1> DEFINE h == IF inuse = {} THEN 0 ELSE CHOOSE i \in inuse : \A j \in inuse : j <= i
           n == CHOOSE n \in 0 .. 6 : /\ (h + n) % 7 \notin inuse
                                      /\ \A k \in 0 .. n - 1 : (h + k) % 7 \in inuse
<1>1. h \in 0 .. 6
  <2>1. ASSUME inuse # {}
        PROVE  \E i \in inuse : \A j \in inuse : j <= i
    <3>1. \A j \in inuse : j \in {0, 1, 2, 3, 4, 5, 6}
      OBVIOUS
    <3>2. CASE 6 \in inuse
      BY <3>1, <3>2
    <3>3. CASE 6 \notin inuse /\ 5 \in inuse
      BY <3>1, <3>3
    <3>4. CASE 6 \notin inuse /\ 5 \notin inuse /\ 4 \in inuse
      BY <3>1, <3>4
    <3>5. CASE 6 \notin inuse /\ 5 \notin inuse /\ 4 \notin inuse /\ 3 \in inuse
      BY <3>1, <3>5
    <3>6. CASE 6 \notin inuse /\ 5 \notin inuse /\ 4 \notin inuse /\ 3 \notin inuse /\ 2 \in inuse
      BY <3>1, <3>6
    <3>7. CASE /\ 6 \notin inuse /\ 5 \notin inuse /\ 4 \notin inuse
               /\ 3 \notin inuse /\ 2 \notin inuse
      <4>1. CASE 1 \in inuse
        BY <3>1, <3>7, <4>1
      <4>2. CASE 1 \notin inuse
        <5>1. \A j \in inuse : j = 0
          BY <3>1, <3>7, <4>2
        <5>2. PICK i : i \in inuse
          BY <2>1
        <5>3. \A j \in inuse : j <= i
          BY <5>1, <5>2
        <5> QED BY <5>2, <5>3
      <4> QED BY <4>1, <4>2
    <3> QED BY <3>2, <3>3, <3>4, <3>5, <3>6, <3>7
  <2>2. CASE inuse = {}
    BY <2>2
  <2>3. CASE inuse # {}
    <3>1. h = CHOOSE i \in inuse : \A j \in inuse : j <= i
      BY <2>3
    <3>2. h \in inuse
      BY <2>1, <2>3, <3>1
    <3> QED BY <3>2
  <2> QED BY <2>2, <2>3
<1> DEFINE Taken(k) == (h + k) % 7 \in inuse
<1>2. \E k \in 0 .. 6 : ~Taken(k)
  <2>1. PICK m \in 0 .. 6 : m \notin inuse
    OBVIOUS
  <2>2. \E k \in 0 .. 6 : (h + k) % 7 = m
    <3> HIDE DEF h
    <3>1. CASE h <= m
      <4>1. m - h \in 0 .. 6 /\ (h + (m - h)) % 7 = m
        BY <1>1, <3>1
      <4> QED BY <4>1
    <3>2. CASE h > m
      <4>1. m - h + 7 \in 0 .. 6 /\ (h + (m - h + 7)) % 7 = m
        BY <1>1, <3>2
      <4> QED BY <4>1
    <3> QED BY <1>1, <3>1, <3>2
  <2> QED BY <2>1, <2>2
<1>3. \E k \in 0 .. 6 : ~Taken(k) /\ \A j \in 0 .. k - 1 : Taken(j)
  <2> HIDE DEF Taken
  <2>1. 0 .. 6 = {0, 1, 2, 3, 4, 5, 6}
    OBVIOUS
  <2>2. \A k \in 0 .. 6 : \A j \in 0 .. k - 1 : j \in 0 .. 6 /\ j < k
    OBVIOUS
  <2>3. PICK k \in 0 .. 6 : ~Taken(k)
    BY <1>2
  <2>4. CASE ~Taken(0)
    BY <2>4
  <2>5. CASE Taken(0) /\ ~Taken(1)
    BY <2>1, <2>2, <2>5
  <2>6. CASE Taken(0) /\ Taken(1) /\ ~Taken(2)
    BY <2>1, <2>2, <2>6
  <2>7. CASE Taken(0) /\ Taken(1) /\ Taken(2) /\ ~Taken(3)
    BY <2>1, <2>2, <2>7
  <2>8. CASE Taken(0) /\ Taken(1) /\ Taken(2) /\ Taken(3) /\ ~Taken(4)
    BY <2>1, <2>2, <2>8
  <2>9. CASE Taken(0) /\ Taken(1) /\ Taken(2) /\ Taken(3) /\ Taken(4) /\ ~Taken(5)
    BY <2>1, <2>2, <2>9
  <2>10. CASE Taken(0) /\ Taken(1) /\ Taken(2) /\ Taken(3) /\ Taken(4) /\ Taken(5) /\ ~Taken(6)
    BY <2>1, <2>2, <2>10
  <2> QED BY <2>1, <2>3, <2>4, <2>5, <2>6, <2>7, <2>8, <2>9, <2>10
<1>4. n \in 0 .. 6 /\ (h + n) % 7 \notin inuse
  <2>1. \E k \in 0 .. 6 : (h + k) % 7 \notin inuse /\ \A j \in 0 .. k - 1 : (h + j) % 7 \in inuse
    BY <1>3
  <2> HIDE DEF h
  <2> QED BY <2>1
<1>5. trans_assign_trans_id(inuse) = (h + n) % 7
  BY DEF trans_assign_trans_id
<1> HIDE DEF h, n
<1> QED BY <1>1, <1>4, <1>5

\* What is told of a handler that has reported nothing, or the message it had.
LEMMA ToldNothing ==
  ASSUME NEW e, e.rep = <<>>, NEW id
  PROVE  Told(e, id) = <<>>
BY DEF Told

LEMMA ToldOne ==
  ASSUME NEW e, NEW id, NEW res, e.rep = Append(<<>>, [id |-> id, res |-> res])
  PROVE  /\ Told(e, id) = <<res>>
         /\ \A i : i # id => Told(e, i) = <<>>
<1>1. e.rep = <<[id |-> id, res |-> res]>>
  OBVIOUS
<1>2. DOMAIN e.rep = 1 .. 1 /\ e.rep # <<>> /\ e.rep[1].id = id /\ e.rep[1].res = res
  BY <1>1
<1>3. [k \in 1 .. 1 |-> e.rep[k].res] = <<res>>
  <2>1. [k \in 1 .. 1 |-> e.rep[k].res] = [k \in 1 .. 1 |-> res]
    BY <1>2
  <2>2. <<res>> = [k \in 1 .. 1 |-> res]
    OBVIOUS
  <2> QED BY <2>1, <2>2
<1> QED BY <1>2, <1>3 DEF Told

-----------------------------------------------------------------------------
\* What the application is told when a handler has run.
LEMMA SettlesTold ==
  ASSUME NEW e, NEW d, Settles(e, d), e.rep = <<>>
  PROVE  \/ d.sms = e.sms /\ \A id : Told(d, id) = <<>>
         \/ /\ e.sms # 0 /\ d.sms = 0
            /\ \E res \in {"OK", "FAILED"} : Told(d, e.sms) = <<res>>
            /\ \A id : id # e.sms => Told(d, id) = <<>>
BY ToldNothing, ToldOne DEF Settles

LEMMA SettledEntry ==
  ASSUME NEW d, Booked(d)
  PROVE  Settled(d).sms = d.sms /\ Settled(d).rep = <<>>
BY DEF Settled, Booked, Fields

\* The message of a transaction, if there is any.
Held(r) == IF tr[r] = None THEN 0 ELSE tr[r].e.sms
NetHeld(i) == IF nt[i] = None THEN 0 ELSE nt[i].e.sms

LEMMA CarriedHeld ==
  ASSUME NEW id \in Sms
  PROVE  Carried(id) <=> (\E r \in Ref : Held(r) = id) \/ (\E i \in Ti : NetHeld(i) = id)
<1>1. id # 0
  BY TransferAssumption
<1> QED BY <1>1 DEF Carried, Carries, NetCarries, Alive, NetAlive, Held, NetHeld

LEMMA CarriedHeldNext ==
  ASSUME NEW id \in Sms
  PROVE  Carried(id)' <=> (\E r \in Ref : Held(r)' = id) \/ (\E i \in Ti : NetHeld(i)' = id)
<1>1. id # 0
  BY TransferAssumption
<1> QED BY <1>1 DEF Carried, Carries, NetCarries, Alive, NetAlive, Held, NetHeld

LEMMA NotReported ==
  ASSUME NEW s \in Seq({"OK", "FAILED"})
  PROVE  s \o <<>> = s
OBVIOUS

LEMMA Reported ==
  ASSUME NEW s \in Seq({"OK", "FAILED"}), NEW res \in {"OK", "FAILED"}
  PROVE  s \o <<res>> \in Seq({"OK", "FAILED"}) /\ (s = <<>> => Len(s \o <<res>>) = 1)
OBVIOUS

\* Messages stay with their transactions, or leave them for good; a message
\* that leaves is reported.
LEMMA AccountsKept ==
  ASSUME Ledger, asked' = asked,
         reports' = [id \in Sms |-> reports[id]] \/ reports' = reports,
         \A r \in Ref : Held(r)' = Held(r),
         \A i \in Ti : NetHeld(i)' = NetHeld(i)
  PROVE  reports' \in [Sms -> Seq({"OK", "FAILED"})] /\ \A id \in Sms : Accounted(id)'
<1>1. reports' = reports
  BY DEF Ledger
<1>2. \A id \in Sms : Carried(id)' <=> Carried(id)
  BY CarriedHeld, CarriedHeldNext
<1> QED BY <1>1, <1>2 DEF Ledger, Accounted

LEMMA AccountsPosted ==
  ASSUME Ledger, asked' = asked, NEW told,
         reports' = [id \in Sms |-> reports[id] \o told[id]],
         \A id \in Sms :
           \/ told[id] = <<>> /\ (Carried(id)' <=> Carried(id))
           \/ /\ \E res \in {"OK", "FAILED"} : told[id] = <<res>>
              /\ Carried(id) /\ ~Carried(id)'
  PROVE  reports' \in [Sms -> Seq({"OK", "FAILED"})] /\ \A id \in Sms : Accounted(id)'
<1>1. ASSUME NEW id \in Sms
      PROVE  reports'[id] \in Seq({"OK", "FAILED"}) /\ Accounted(id)'
  <2>1. reports[id] \in Seq({"OK", "FAILED"}) /\ reports'[id] = reports[id] \o told[id] /\ Accounted(id)
    BY DEF Ledger
  <2>2. CASE told[id] = <<>> /\ (Carried(id)' <=> Carried(id))
    <3>1. reports'[id] = reports[id]
      BY <2>1, <2>2, NotReported
    <3> QED BY <2>1, <2>2, <3>1 DEF Accounted
  <2>3. CASE /\ \E res \in {"OK", "FAILED"} : told[id] = <<res>>
             /\ Carried(id) /\ ~Carried(id)'
    <3>1. PICK res \in {"OK", "FAILED"} : told[id] = <<res>>
      BY <2>3
    <3>2. id \in asked
      BY <2>1, <2>3 DEF Accounted
    <3>3. /\ reports'[id] \in Seq({"OK", "FAILED"})
          /\ reports[id] = <<>> => Len(reports'[id]) = 1
      BY <2>1, <3>1, Reported
    <3> QED BY <2>1, <2>3, <3>2, <3>3 DEF Accounted
  <2> QED BY <2>2, <2>3
<1>2. reports' = [id \in Sms |-> reports'[id]]
  OBVIOUS
<1> QED BY <1>1, <1>2

\* A handler has run on a transaction of the phone: e is what it found.
LEMMA PhoneLedger ==
  ASSUME Ledger, NEW r, NEW ti, NEW e, NEW d, Settles(e, d), e.rep = <<>>,
         e.sms = IF r \in Alive THEN tr[r].e.sms ELSE 0,
         r \in Alive /\ e.sms # 0 => ti = tr[r].ti,
         r \in Ref => tr'[r] = IF d.freed THEN None ELSE [ti |-> ti, e |-> Settled(d)],
         \A x \in Ref : x # r => \/ tr'[x] = tr[x]
                                 \/ tr'[x] = None /\ (x \in Alive => tr[x].e.sms = 0),
         conn' = [x \in Ref |-> conn'[x]],
         \A x \in Ref : x # r => conn'[x] \in {conn[x], NoConn},
         r \in Ref => conn'[r] \in {conn[r], NoConn, [st |-> "PEND", ti |-> ti],
                                    [st |-> "OPEN", ti |-> ti]},
         Observe(d), UNCHANGED <<nt, asked>>
  PROVE  Ledger'
<1>1. r \in Ref => Held(r) = e.sms /\ Held(r)' = d.sms
  <2>1. SUFFICES ASSUME r \in Ref PROVE Held(r) = e.sms /\ Held(r)' = d.sms
    OBVIOUS
  <2>2. Held(r) = e.sms
    BY <2>1 DEF Held, Alive
  <2>3. CASE d.freed
    <3>1. d.sms = 0 /\ tr'[r] = None
      BY <2>1, <2>3 DEF Settles, Booked
    <3> QED BY <2>2, <3>1 DEF Held
  <2>4. CASE ~d.freed
    <3>1. Settled(d).sms = d.sms
      BY SettledEntry DEF Settles
    <3>2. tr'[r] = [ti |-> ti, e |-> Settled(d)]
      BY <2>1, <2>4
    <3>3. [ti |-> ti, e |-> Settled(d)] # None
      BY DEF None
    <3> QED BY <2>2, <3>1, <3>2, <3>3 DEF Held
  <2> QED BY <2>3, <2>4
<1>2. \A x \in Ref : x # r => Held(x)' = Held(x)
  BY DEF Held, Alive
<1>3. \A i \in Ti : NetHeld(i)' = NetHeld(i)
  BY DEF NetHeld
<1>4. d.sms \in {e.sms, 0} /\ (e.sms # 0 => r \in Alive) /\ (r \notin Ref => e.sms = 0)
  BY DEF Settles, Alive
<1>5. \A x \in Ref : Held(x)' \in {Held(x), 0}
  BY <1>1, <1>2, <1>4
<1>6. reports' \in [Sms -> Seq({"OK", "FAILED"})] /\ \A id \in Sms : Accounted(id)'
  <2>0. asked' = asked /\ reports' = [id \in Sms |-> reports[id] \o Told(d, id)]
    BY DEF Observe
  <2> DEFINE told == [id \in Sms |-> Told(d, id)]
  <2>1. reports' = [id \in Sms |-> reports[id] \o told[id]]
    BY <2>0
  <2>2. ASSUME NEW id \in Sms
        PROVE  \/ told[id] = <<>> /\ (Carried(id)' <=> Carried(id))
               \/ /\ \E res \in {"OK", "FAILED"} : told[id] = <<res>>
                  /\ Carried(id) /\ ~Carried(id)'
    <3>0. told[id] = Told(d, id) /\ id # 0
      BY TransferAssumption
    <3> HIDE DEF told
    <3>1. CASE d.sms = e.sms /\ \A i : Told(d, i) = <<>>
      <4>1. \A x \in Ref : Held(x)' = Held(x)
        BY <1>1, <1>2, <3>1
      <4> QED BY <1>3, <3>0, <3>1, <4>1, CarriedHeld, CarriedHeldNext
    <3>2. CASE /\ e.sms # 0 /\ d.sms = 0
               /\ \E res \in {"OK", "FAILED"} : Told(d, e.sms) = <<res>>
               /\ \A i : i # e.sms => Told(d, i) = <<>>
      <4>1. r \in Ref /\ r \in Alive
        BY <1>4, <3>2 DEF Alive
      <4>2. CASE id # e.sms
        <5>1. \A x \in Ref : Held(x)' = id <=> Held(x) = id
          BY <1>1, <1>2, <3>0, <3>2, <4>2
        <5> QED BY <1>3, <3>0, <3>2, <4>2, <5>1, CarriedHeld, CarriedHeldNext
      <4>3. CASE id = e.sms
        <5>1. Carried(id)
          BY <1>1, <4>1, <4>3, CarriedHeld
        <5>2. \A x \in Ref : Held(x)' # id
          <6>1. ASSUME NEW x \in Ref, x # r, Held(x) = id
                PROVE  FALSE
            <7>1. x \in Alive /\ tr[x].e.sms = id /\ tr[r].e.sms = id
              BY <3>0, <4>1, <4>3, <6>1 DEF Held, Alive
            <7> QED BY <3>0, <4>1, <6>1, <7>1 DEF Ledger
          <6> QED BY <1>1, <1>2, <3>0, <3>2, <4>1, <6>1
        <5>3. \A i \in Ti : NetHeld(i)' # id
          <6>1. id \in Mo
            BY <3>0, <4>1, <4>3 DEF Ledger, PhoneEntry
          <6>2. id \notin Mt
            BY <6>1, TransferAssumption
          <6> QED BY <1>3, <3>0, <6>2 DEF NetHeld, NetAlive, Ledger, NetEntry
        <5> QED BY <3>0, <3>2, <4>3, <5>1, <5>2, <5>3, CarriedHeldNext
      <4> QED BY <4>2, <4>3
    <3> QED BY <3>1, <3>2, SettlesTold
  <2> HIDE DEF told
  <2> QED BY <2>0, <2>1, <2>2, AccountsPosted
<1>7. ASSUME NEW x \in Alive'
      PROVE  PhoneEntry(x)'
  <2>1. x \in Ref /\ tr'[x] # None
    BY DEF Alive
  <2>2. CASE x # r
    <3>1. tr'[x] = tr[x] /\ x \in Alive /\ PhoneEntry(x)
      BY <2>1, <2>2 DEF Ledger, Alive
    <3>2. conn'[x].st # "NONE" => conn'[x] = conn[x]
      BY <2>1, <2>2 DEF NoConn
    <3> QED BY <3>1, <3>2 DEF PhoneEntry
  <2>3. CASE x = r
    <3>1. tr'[r] = [ti |-> ti, e |-> Settled(d)]
      BY <2>1, <2>3
    <3>2. Settled(d).sms = d.sms /\ Settled(d).rep = <<>>
      BY SettledEntry DEF Settles
    <3>3. CASE d.sms = 0
      BY <2>3, <3>1, <3>2, <3>3 DEF PhoneEntry
    <3>4. CASE d.sms # 0
      <4>1. d.sms = e.sms /\ r \in Alive /\ ti = tr[r].ti /\ PhoneEntry(r) /\ tr[r].e.sms = e.sms
        BY <1>4, <3>4 DEF Ledger
      <4>2. conn'[r].st # "NONE" => conn'[r].ti = ti
        BY <2>1, <2>3, <3>4, <4>1 DEF NoConn, PhoneEntry
      <4> QED BY <2>3, <3>1, <3>2, <4>1, <4>2 DEF PhoneEntry
    <3> QED BY <3>3, <3>4
  <2> QED BY <2>2, <2>3
<1>8. ASSUME NEW x \in Alive', NEW y \in Alive', tr'[x].e.sms # 0, tr'[x].e.sms = tr'[y].e.sms
      PROVE  x = y
  <2>1. x \in Ref /\ y \in Ref /\ Held(x)' = tr'[x].e.sms /\ Held(y)' = tr'[y].e.sms
    BY DEF Held, Alive
  <2>2. Held(x) = tr'[x].e.sms /\ Held(y) = tr'[x].e.sms
    BY <1>5, <1>8, <2>1
  <2>3. x \in Alive /\ y \in Alive /\ Held(x) = tr[x].e.sms /\ Held(y) = tr[y].e.sms
    BY <1>8, <2>1, <2>2 DEF Held, Alive
  <2> QED BY <1>8, <2>2, <2>3 DEF Ledger
<1>9. \A x \in Ref : DOMAIN conn'[x] = {"st", "ti"}
  BY DEF Ledger, NoConn
<1> QED BY <1>6, <1>7, <1>8, <1>9 DEF Ledger, NetEntry, NetAlive

-----------------------------------------------------------------------------
\* A handler has run on a transaction of the network.
LEMMA NetLedger ==
  ASSUME Ledger, nt = [i \in Ti |-> nt[i]], NEW a, NEW ti, NEW e, NEW d, Settles(e, d),
         e.rep = <<>>, e.sms = IF ti \in NetAlive THEN nt[ti].e.sms ELSE 0,
         NEW held, NetDid(a, ti, d, held), UNCHANGED <<tr, conn, asked>>
  PROVE  Ledger'
<1>0. /\ ti \in Ti => nt'[ti] = IF d.freed THEN None ELSE [held |-> held, e |-> Settled(d)]
      /\ \A i \in Ti : i # ti => nt'[i] = nt[i]
      /\ Observe(d)
  BY DEF NetDid
<1>1. ti \in Ti => NetHeld(ti) = e.sms /\ NetHeld(ti)' = d.sms
  <2>1. SUFFICES ASSUME ti \in Ti PROVE NetHeld(ti) = e.sms /\ NetHeld(ti)' = d.sms
    OBVIOUS
  <2>2. NetHeld(ti) = e.sms
    BY <2>1 DEF NetHeld, NetAlive
  <2>3. CASE d.freed
    <3>1. d.sms = 0 /\ nt'[ti] = None
      BY <1>0, <2>1, <2>3 DEF Settles, Booked
    <3> QED BY <2>2, <3>1 DEF NetHeld
  <2>4. CASE ~d.freed
    <3>1. Settled(d).sms = d.sms
      BY SettledEntry DEF Settles
    <3>2. nt'[ti] = [held |-> held, e |-> Settled(d)]
      BY <1>0, <2>1, <2>4
    <3>3. [held |-> held, e |-> Settled(d)] # None
      BY DEF None
    <3> QED BY <2>2, <3>1, <3>2, <3>3 DEF NetHeld
  <2> QED BY <2>3, <2>4
<1>2. \A i \in Ti : i # ti => NetHeld(i)' = NetHeld(i)
  BY <1>0 DEF NetHeld
<1>3. \A r \in Ref : Held(r)' = Held(r)
  BY DEF Held
<1>4. d.sms \in {e.sms, 0} /\ (e.sms # 0 => ti \in NetAlive) /\ (ti \notin Ti => e.sms = 0)
  BY DEF Settles, NetAlive
<1>5. \A i \in Ti : NetHeld(i)' \in {NetHeld(i), 0}
  BY <1>1, <1>2, <1>4
<1>6. reports' \in [Sms -> Seq({"OK", "FAILED"})] /\ \A id \in Sms : Accounted(id)'
  <2>0. asked' = asked /\ reports' = [id \in Sms |-> reports[id] \o Told(d, id)]
    BY <1>0 DEF Observe
  <2> DEFINE told == [id \in Sms |-> Told(d, id)]
  <2>1. reports' = [id \in Sms |-> reports[id] \o told[id]]
    BY <2>0
  <2>2. ASSUME NEW id \in Sms
        PROVE  \/ told[id] = <<>> /\ (Carried(id)' <=> Carried(id))
               \/ /\ \E res \in {"OK", "FAILED"} : told[id] = <<res>>
                  /\ Carried(id) /\ ~Carried(id)'
    <3>0. told[id] = Told(d, id) /\ id # 0
      BY TransferAssumption
    <3> HIDE DEF told
    <3>1. CASE d.sms = e.sms /\ \A i : Told(d, i) = <<>>
      <4>1. \A i \in Ti : NetHeld(i)' = NetHeld(i)
        BY <1>1, <1>2, <3>1
      <4> QED BY <1>3, <3>0, <3>1, <4>1, CarriedHeld, CarriedHeldNext
    <3>2. CASE /\ e.sms # 0 /\ d.sms = 0
               /\ \E res \in {"OK", "FAILED"} : Told(d, e.sms) = <<res>>
               /\ \A i : i # e.sms => Told(d, i) = <<>>
      <4>1. ti \in Ti /\ ti \in NetAlive
        BY <1>4, <3>2 DEF NetAlive
      <4>2. CASE id # e.sms
        <5>1. \A i \in Ti : NetHeld(i)' = id <=> NetHeld(i) = id
          BY Zenon, <1>1, <1>2, <3>0, <3>2, <4>2
        <5> QED BY <1>3, <3>0, <3>2, <4>2, <5>1, CarriedHeld, CarriedHeldNext
      <4>3. CASE id = e.sms
        <5>1. Carried(id)
          BY <1>1, <4>1, <4>3, CarriedHeld
        <5>2. \A i \in Ti : NetHeld(i)' # id
          <6>1. ASSUME NEW i \in Ti, i # ti, NetHeld(i) = id
                PROVE  FALSE
            <7>1. i \in NetAlive /\ nt[i].e.sms = id /\ nt[ti].e.sms = id
              BY <3>0, <4>1, <4>3, <6>1 DEF NetHeld, NetAlive
            <7> QED BY <3>0, <4>1, <6>1, <7>1 DEF Ledger
          <6> QED BY <1>1, <1>2, <3>0, <3>2, <4>1, <6>1
        <5>3. \A r \in Ref : Held(r)' # id
          <6>1. id \in Mt
            BY <3>0, <4>1, <4>3 DEF Ledger, NetEntry
          <6>2. id \notin Mo
            BY <6>1, TransferAssumption
          <6> QED BY <1>3, <3>0, <6>2 DEF Held, Alive, Ledger, PhoneEntry
        <5> QED BY <3>0, <3>2, <4>3, <5>1, <5>2, <5>3, CarriedHeldNext
      <4> QED BY <4>2, <4>3
    <3> QED BY <3>1, <3>2, SettlesTold
  <2> HIDE DEF told
  <2> QED BY <2>0, <2>1, <2>2, AccountsPosted
<1>7. ASSUME NEW i \in NetAlive'
      PROVE  NetEntry(i)'
  <2>1. i \in Ti /\ nt'[i] # None
    BY DEF NetAlive
  <2>2. CASE i # ti
    BY <1>0, <2>1, <2>2 DEF Ledger, NetAlive, NetEntry
  <2>3. CASE i = ti
    <3>1. nt'[ti] = [held |-> held, e |-> Settled(d)]
      BY <1>0, <2>1, <2>3
    <3>2. Settled(d).sms = d.sms /\ Settled(d).rep = <<>>
      BY SettledEntry DEF Settles
    <3>3. d.sms \in Mt \cup {0}
      BY <1>4 DEF Ledger, NetEntry
    <3> QED BY <2>3, <3>1, <3>2, <3>3 DEF NetEntry
  <2> QED BY <2>2, <2>3
<1>8. ASSUME NEW i \in NetAlive', NEW j \in NetAlive', nt'[i].e.sms # 0, nt'[i].e.sms = nt'[j].e.sms
      PROVE  i = j
  <2>1. i \in Ti /\ j \in Ti /\ NetHeld(i)' = nt'[i].e.sms /\ NetHeld(j)' = nt'[j].e.sms
    BY DEF NetHeld, NetAlive
  <2>2. NetHeld(i) = nt'[i].e.sms /\ NetHeld(j) = nt'[i].e.sms
    BY <1>5, <1>8, <2>1
  <2>3. i \in NetAlive /\ j \in NetAlive /\ NetHeld(i) = nt[i].e.sms /\ NetHeld(j) = nt[j].e.sms
    BY <1>8, <2>1, <2>2 DEF NetHeld, NetAlive
  <2> QED BY ZenonT(40), <1>8, <2>2, <2>3 DEF Ledger
<1> QED BY <1>6, <1>7, <1>8 DEF Ledger, PhoneEntry, Alive

-----------------------------------------------------------------------------
(* A message is submitted.                                                  *)

LEMMA FirstReported ==
  ASSUME NEW s \in Seq({"OK", "FAILED"})
  PROVE  <<>> \o s = s
OBVIOUS

LEMMA AccountsOpened ==
  ASSUME Ledger, NEW id \in Sms, id \notin asked, asked' = asked \cup {id}, NEW told,
         reports' = [i \in Sms |-> reports[i] \o told[i]],
         \A i \in Sms : i # id => told[i] = <<>> /\ (Carried(i)' <=> Carried(i)),
         told[id] \in Seq({"OK", "FAILED"}),
         id \notin Unencodable =>
           \/ told[id] = <<>> /\ Carried(id)'
           \/ (\E res \in {"OK", "FAILED"} : told[id] = <<res>>) /\ ~Carried(id)'
  PROVE  /\ asked' \subseteq Sms /\ reports' \in [Sms -> Seq({"OK", "FAILED"})]
         /\ \A i \in Sms : Accounted(i)'
<1>1. ASSUME NEW i \in Sms
      PROVE  reports'[i] \in Seq({"OK", "FAILED"}) /\ Accounted(i)'
  <2>1. reports[i] \in Seq({"OK", "FAILED"}) /\ reports'[i] = reports[i] \o told[i] /\ Accounted(i)
    BY DEF Ledger
  <2>2. CASE i # id
    <3>1. reports'[i] = reports[i]
      BY <2>1, <2>2, NotReported
    <3> QED BY <2>1, <2>2, <3>1 DEF Accounted
  <2>3. CASE i = id
    <3>1. reports[id] = <<>> /\ reports'[id] = <<>> \o told[id]
      BY <2>1, <2>3 DEF Accounted
    <3>2. reports'[id] = told[id]
      BY <3>1, FirstReported
    <3>3. \A res : Len(<<res>>) = 1
      OBVIOUS
    <3> QED BY <2>3, <3>2, <3>3 DEF Accounted
  <2> QED BY <2>2, <2>3
<1>2. reports' = [i \in Sms |-> reports'[i]]
  OBVIOUS
<1> QED BY <1>1, <1>2 DEF Ledger

\* What a handler does with a new message: it keeps it, or reports it.
Opens(id, d) ==
  /\ Booked(d)
  /\ \A i \in Sms : i # id => Told(d, i) = <<>>
  /\ Told(d, id) \in Seq({"OK", "FAILED"})
  /\ \/ d.sms = id /\ Told(d, id) = <<>>
     \/ d.sms = 0 /\ \E res \in {"OK", "FAILED"} : Told(d, id) = <<res>>
     \/ d.sms = 0 /\ id \in Unencodable

LEMMA EncodedOpens ==
  ASSUME NEW net, NEW id \in Sms, NEW m
  PROVE  Opens(id, gsm411_smr_send(NewTrans(net, id), "DATA_REQ", m))
<1> DEFINE d == gsm411_smr_send(NewTrans(net, id), "DATA_REQ", m)
<1>1. id # 0
  BY TransferAssumption
<1>2. NewTrans(net, id).sms = id /\ NewTrans(net, id).rep = <<>>
  BY NewTransBooked
<1>3. Settles(NewTrans(net, id), d)
  BY NewTransBooked, SmrSendSettles
<1> HIDE DEF d
<1>4. <<>> \in Seq({"OK", "FAILED"}) /\ \A res \in {"OK", "FAILED"} : <<res>> \in Seq({"OK", "FAILED"})
  OBVIOUS
<1>5. Booked(d)
  BY <1>3 DEF Settles
<1> QED BY ZenonT(40), <1>1, <1>2, <1>3, <1>4, <1>5, SettlesTold DEF Opens, d

\* A message that cannot be encoded is reported twice, at once.
LEMMA UnencodedOpens ==
  ASSUME NEW id \in Unencodable
  PROVE  Opens(id, gsm411_trans_free([NewTrans(FALSE, id) EXCEPT
                                        !.rep = <<[id |-> id, res |-> "FAILED"]>>]))
<1> DEFINE f == [id |-> id, res |-> "FAILED"]
           e == [NewTrans(FALSE, id) EXCEPT !.rep = <<f>>]
           d == gsm411_trans_free(e)
<1>0. id \in Sms /\ id # 0
  BY TransferAssumption DEF Sms
<1>1. DOMAIN e = Fields /\ ~e.freed /\ e.sms = id /\ e.rep = <<f>>
  BY DEF NewTrans, Fields
<1> HIDE DEF e
<1>2. DOMAIN d = Fields /\ d.sms = 0 /\ d.rep = Append(<<f>>, f)
  BY <1>0, <1>1 DEF gsm411_trans_free, gsm411_sms_trans_free, Live, Fields
<1> HIDE DEF d
<1>3. \A x : /\ Append(<<x>>, x) \in Seq({x}) /\ Len(Append(<<x>>, x)) = 2
           /\ Append(<<x>>, x)[1] = x /\ Append(<<x>>, x)[2] = x
  <2> TAKE x
  <2>1. <<x>> \in Seq({x}) /\ Len(<<x>>) = 1 /\ <<x>>[1] = x
    OBVIOUS
  <2> QED BY <2>1, AppendProperties
<1>4. DOMAIN d.rep = 1 .. 2 /\ d.rep # <<>> /\ d.rep[1].id = id
      /\ \A k \in 1 .. 2 : d.rep[k].res = "FAILED"
  <2>1. /\ d.rep \in Seq({f}) /\ Len(d.rep) = 2 /\ d.rep[1] = f /\ d.rep[2] = f
    BY <1>2, <1>3
  <2>2. DOMAIN d.rep = 1 .. 2 /\ d.rep # <<>>
    <3> HIDE DEF f
    <3> QED BY <2>1
  <2>3. \A k \in 1 .. 2 : k = 1 \/ k = 2
    OBVIOUS
  <2> QED BY <2>1, <2>2, <2>3
<1>5. \A i : i # id => Told(d, i) = <<>>
  BY <1>4 DEF Told
<1>6. Told(d, id) = [k \in 1 .. 2 |-> d.rep[k].res]
  BY <1>4 DEF Told
<1>7. Told(d, id) \in Seq({"OK", "FAILED"})
  <2>1. \A s : s \in [1 .. 2 -> {"OK", "FAILED"}] => s \in Seq({"OK", "FAILED"})
    BY SeqDef
  <2> QED BY <1>4, <1>6, <2>1
<1> QED BY <1>2, <1>5, <1>7 DEF Opens, Booked, e, d

-----------------------------------------------------------------------------
LEMMA SubmitLedger ==
  ASSUME IInv, Ledger, NEW id \in Mo, gsm411_tx_sms_submit(id)
  PROVE  Ledger'
<1> DEFINE ti == trans_assign_trans_id(UsedTi \cap MoTi)
           d == IF id \in Unencodable
                THEN gsm411_trans_free([NewTrans(FALSE, id) EXCEPT
                                          !.rep = <<[id |-> id, res |-> "FAILED"]>>])
                ELSE gsm411_smr_send(NewTrans(FALSE, id), "DATA_REQ", RpMsg("DATA_MO", id))
<1>0. id \in Sms /\ id # 0 /\ id \notin Mt
  BY TransferAssumption DEF Sms
<1>1. Opens(id, d)
  BY <1>0, EncodedOpens, UnencodedOpens
<1>2. ti \in MoTi
  <2>1. UsedTi \cap MoTi \in SUBSET (0 .. 6) /\ UsedTi \cap MoTi # 0 .. 6
    BY DEF gsm411_tx_sms_submit, MoTi
  <2> QED BY <2>1, AssignFree DEF MoTi
<1> HIDE DEF ti, d
<1>3. PICK r \in Ref, ok \in BOOLEAN : FreshRef(r) /\ PhoneDid(tr, Below, r, ti, d, ok)
  BY DEF gsm411_tx_sms_submit, ti, d
<1>4. id \notin asked /\ asked' = asked \cup {id} /\ UNCHANGED nt
  BY DEF gsm411_tx_sms_submit
<1> DEFINE t == Served(Below, r, ti, d.out, ok)
<1>5. Shifts(Below, r, ti, t) /\ Below.conn = conn
  BY ServedShifts DEF Below, Layer, Ledger
<1>6. conn' = t.conn /\ Observe(d)
      /\ tr' = [tr EXCEPT ![r] = IF d.freed THEN None ELSE [ti |-> ti, e |-> Settled(d)]]
  BY <1>3 DEF PhoneDid
<1> HIDE DEF t
<1>7. /\ conn' = [x \in Ref |-> conn'[x]]
      /\ \A x \in Ref : x # r => conn'[x] = conn[x]
      /\ conn'[r] \in {conn[r], NoConn, [st |-> "PEND", ti |-> ti]}
  BY <1>5, <1>6 DEF Shifts, Layer
<1>8. /\ tr[r] = None /\ conn[r] = NoConn
      /\ tr'[r] = IF d.freed THEN None ELSE [ti |-> ti, e |-> Settled(d)]
      /\ \A x \in Ref : x # r => tr'[x] = tr[x]
  BY <1>3, <1>6 DEF IInv, FreshRef
<1>9. d.sms \in {id, 0} /\ (d.freed => d.sms = 0) /\ Settled(d).sms = d.sms /\ Settled(d).rep = <<>>
  BY <1>1, SettledEntry DEF Opens, Booked
<1>10. Held(r) = 0 /\ Held(r)' = d.sms
  <2>1. [ti |-> ti, e |-> Settled(d)] # None
    BY DEF None
  <2> QED BY <1>8, <1>9, <2>1 DEF Held
<1>11. /\ \A x \in Ref : x # r => Held(x)' = Held(x)
       /\ \A i \in Ti : NetHeld(i)' = NetHeld(i)
  BY <1>4, <1>8 DEF Held, NetHeld
<1>12. /\ \A x \in Ref : Held(x) # id
       /\ \A i \in Ti : NetHeld(i) # id
  <2>1. ~Carried(id)
    BY <1>0, <1>4 DEF Ledger, Accounted
  <2> QED BY <1>0, <2>1, CarriedHeld
<1>13. /\ asked' \subseteq Sms /\ reports' \in [Sms -> Seq({"OK", "FAILED"})]
       /\ \A i \in Sms : Accounted(i)'
  <2> DEFINE told == [i \in Sms |-> Told(d, i)]
  <2>1. reports' = [i \in Sms |-> reports[i] \o told[i]]
    BY <1>6 DEF Observe
  <2>2. ASSUME NEW i \in Sms, i # id
        PROVE  told[i] = <<>> /\ (Carried(i)' <=> Carried(i))
    <3>1. \A x \in Ref : Held(x)' = i <=> Held(x) = i
      <4>1. i # 0
        BY TransferAssumption
      <4> QED BY <1>9, <1>10, <1>11, <2>2, <4>1
    <3>2. told[i] = <<>>
      BY <1>1, <2>2 DEF Opens
    <3> QED BY <1>11, <3>1, <3>2, CarriedHeld, CarriedHeldNext
  <2>3. told[id] = Told(d, id) /\ told[id] \in Seq({"OK", "FAILED"})
    BY <1>0, <1>1 DEF Opens
  <2>4. Carried(id)' <=> d.sms = id
    <3> HIDE DEF told
    <3> QED BY <1>0, <1>9, <1>10, <1>11, <1>12, CarriedHeldNext
  <2>5. id \notin Unencodable =>
          \/ told[id] = <<>> /\ Carried(id)'
          \/ (\E res \in {"OK", "FAILED"} : told[id] = <<res>>) /\ ~Carried(id)'
    <3> HIDE DEF told
    <3> QED BY <1>0, <1>1, <2>3, <2>4 DEF Opens
  <2> HIDE DEF told
  <2> QED BY <1>0, <1>4, <2>1, <2>2, <2>3, <2>5, AccountsOpened
<1>14. ASSUME NEW x \in Alive'
       PROVE  PhoneEntry(x)'
  <2>1. x \in Ref /\ tr'[x] # None
    BY DEF Alive
  <2>2. CASE x # r
    BY <1>7, <1>8, <2>1, <2>2 DEF Ledger, PhoneEntry, Alive
  <2>3. CASE x = r
    <3>1. tr'[r] = [ti |-> ti, e |-> Settled(d)]
      BY <1>8, <2>1, <2>3
    <3>2. conn'[r].st # "NONE" => conn'[r].ti = ti
      BY <1>7, <1>8 DEF NoConn
    <3> QED BY <1>2, <1>9, <2>3, <3>1, <3>2 DEF PhoneEntry
  <2> QED BY <2>2, <2>3
<1>15. ASSUME NEW x \in Alive', NEW y \in Alive', tr'[x].e.sms # 0, tr'[x].e.sms = tr'[y].e.sms
       PROVE  x = y
  <2>1. x \in Ref /\ y \in Ref /\ Held(x)' = tr'[x].e.sms /\ Held(y)' = tr'[y].e.sms
    BY DEF Held, Alive
  <2>2. CASE tr'[x].e.sms = id
    BY <1>11, <1>12, <1>15, <2>1, <2>2
  <2>3. CASE tr'[x].e.sms # id
    <3>1. x # r /\ y # r
      BY <1>9, <1>10, <1>15, <2>1, <2>3
    <3>2. x \in Alive /\ y \in Alive /\ tr'[x] = tr[x] /\ tr'[y] = tr[y]
      BY <1>8, <2>1, <3>1 DEF Alive
    <3> QED BY <1>15, <3>2 DEF Ledger
  <2> QED BY <2>2, <2>3
<1>16. \A x \in Ref : DOMAIN conn'[x] = {"st", "ti"}
  BY <1>7 DEF Ledger, NoConn
<1> QED BY <1>4, <1>7, <1>13, <1>14, <1>15, <1>16 DEF Ledger, NetEntry, NetAlive

LEMMA NetSubmitLedger ==
  ASSUME IInv, Ledger, NEW id \in Mt, NetSubmit(id)
  PROVE  Ledger'
<1> DEFINE n == 8 + trans_assign_trans_id({i - 8 : i \in NetUsed})
           d == gsm411_smr_send(NewTrans(TRUE, id), "DATA_REQ", RpMsg("DATA_MT", id))
<1>0. id \in Sms /\ id # 0 /\ id \notin Mo /\ id \notin Unencodable
  BY TransferAssumption DEF Sms
<1>1. Opens(id, d)
  BY <1>0, EncodedOpens
<1>2. n \in Ti \ NetAlive
  <2> DEFINE inuse == {i - 8 : i \in NetUsed}
  <2>1. inuse \in SUBSET (0 .. 6)
    BY DEF NetUsed, MtTi
  <2>2. PICK j \in MtTi : j \notin NetUsed
    BY DEF NetSubmit
  <2>3. j - 8 \in 0 .. 6 /\ j - 8 \notin inuse
    BY <2>2 DEF MtTi, NetUsed
  <2>4. inuse # 0 .. 6
    BY <2>3
  <2>5. trans_assign_trans_id(inuse) \in 0 .. 6 /\ trans_assign_trans_id(inuse) \notin inuse
    BY <2>1, <2>4, AssignFree
  <2>6. n \in MtTi /\ n - 8 = trans_assign_trans_id(inuse)
    BY <2>5 DEF MtTi
  <2>7. n \notin NetUsed
    BY <2>5, <2>6
  <2> HIDE DEF n
  <2> QED BY <2>6, <2>7 DEF NetUsed, Ti
<1> HIDE DEF n, d
<1>3. PICK ti \in Ti \ NetAlive : NetDid(air, ti, d, 0) /\ UNCHANGED <<tr, conn>>
  BY <1>2 DEF NetSubmit, n, d
<1>4. id \notin asked /\ asked' = asked \cup {id}
  BY DEF NetSubmit
<1>8. /\ nt[ti] = None /\ Observe(d)
      /\ nt'[ti] = IF d.freed THEN None ELSE [held |-> 0, e |-> Settled(d)]
      /\ \A i \in Ti : i # ti => nt'[i] = nt[i]
  BY <1>3 DEF IInv, NetDid, NetAlive
<1>9. d.sms \in {id, 0} /\ (d.freed => d.sms = 0) /\ Settled(d).sms = d.sms /\ Settled(d).rep = <<>>
  BY <1>0, <1>1, SettledEntry DEF Opens, Booked
<1>10. NetHeld(ti) = 0 /\ NetHeld(ti)' = d.sms
  <2>1. [held |-> 0, e |-> Settled(d)] # None
    BY DEF None
  <2> QED BY <1>8, <1>9, <2>1 DEF NetHeld
<1>11. /\ \A i \in Ti : i # ti => NetHeld(i)' = NetHeld(i)
       /\ \A x \in Ref : Held(x)' = Held(x)
  BY <1>3, <1>8 DEF Held, NetHeld
<1>12. /\ \A x \in Ref : Held(x) # id
       /\ \A i \in Ti : NetHeld(i) # id
  <2>1. ~Carried(id)
    BY <1>0, <1>4 DEF Ledger, Accounted
  <2> QED BY <1>0, <2>1, CarriedHeld
<1>13. /\ asked' \subseteq Sms /\ reports' \in [Sms -> Seq({"OK", "FAILED"})]
       /\ \A i \in Sms : Accounted(i)'
  <2> DEFINE told == [i \in Sms |-> Told(d, i)]
  <2>1. reports' = [i \in Sms |-> reports[i] \o told[i]]
    BY <1>8 DEF Observe
  <2>2. ASSUME NEW i \in Sms, i # id
        PROVE  told[i] = <<>> /\ (Carried(i)' <=> Carried(i))
    <3>1. \A x \in Ti : NetHeld(x)' = i <=> NetHeld(x) = i
      <4>1. i # 0
        BY TransferAssumption
      <4> QED BY <1>9, <1>10, <1>11, <2>2, <4>1
    <3>2. told[i] = <<>>
      BY <1>1, <2>2 DEF Opens
    <3> QED BY <1>11, <3>1, <3>2, CarriedHeld, CarriedHeldNext
  <2>3. told[id] = Told(d, id) /\ told[id] \in Seq({"OK", "FAILED"})
    BY <1>0, <1>1 DEF Opens
  <2>4. Carried(id)' <=> d.sms = id
    <3> HIDE DEF told
    <3> QED BY <1>0, <1>9, <1>10, <1>11, <1>12, CarriedHeldNext
  <2>5. \/ told[id] = <<>> /\ Carried(id)'
        \/ (\E res \in {"OK", "FAILED"} : told[id] = <<res>>) /\ ~Carried(id)'
    <3> HIDE DEF told
    <3> QED BY <1>0, <1>1, <2>3, <2>4 DEF Opens
  <2> HIDE DEF told
  <2> QED BY <1>0, <1>4, <2>1, <2>2, <2>3, <2>5, AccountsOpened
<1>14. ASSUME NEW i \in NetAlive'
       PROVE  NetEntry(i)'
  <2>1. i \in Ti /\ nt'[i] # None
    BY DEF NetAlive
  <2>2. CASE i # ti
    BY <1>8, <2>1, <2>2 DEF Ledger, NetEntry, NetAlive
  <2>3. CASE i = ti
    <3>1. nt'[ti] = [held |-> 0, e |-> Settled(d)]
      BY <1>8, <2>1, <2>3
    <3> QED BY <1>9, <2>3, <3>1 DEF NetEntry
  <2> QED BY <2>2, <2>3
<1>15. ASSUME NEW x \in NetAlive', NEW y \in NetAlive', nt'[x].e.sms # 0, nt'[x].e.sms = nt'[y].e.sms
       PROVE  x = y
  <2>1. x \in Ti /\ y \in Ti /\ NetHeld(x)' = nt'[x].e.sms /\ NetHeld(y)' = nt'[y].e.sms
    BY DEF NetHeld, NetAlive
  <2>2. CASE nt'[x].e.sms = id
    BY <1>11, <1>12, <1>15, <2>1, <2>2
  <2>3. CASE nt'[x].e.sms # id
    <3>1. x # ti /\ y # ti
      BY <1>9, <1>10, <1>15, <2>1, <2>3
    <3>2. x \in NetAlive /\ y \in NetAlive /\ nt'[x] = nt[x] /\ nt'[y] = nt[y]
      BY <1>8, <2>1, <3>1 DEF NetAlive
    <3> QED BY <1>15, <3>2 DEF Ledger
  <2> QED BY <2>2, <2>3
<1> QED BY <1>3, <1>13, <1>14, <1>15 DEF Ledger, PhoneEntry, Alive

-----------------------------------------------------------------------------
(* The steps.                                                               *)

LEMMA AliveBooked ==
  ASSUME IInv
  PROVE  /\ \A r \in Alive : Booked(tr[r].e)
         /\ \A i \in NetAlive : Booked(nt[i].e)
BY DEF IInv, InUse, Sane, Booked

\* A handler of the phone on a transaction the phone has, or on a new one
\* without message.
LEMMA PhoneDidLedger ==
  ASSUME IInv, Ledger, NEW s, Layer(s), s.conn = conn, NEW r, NEW ti, NEW e, NEW d,
         Settles(e, d), e.rep = <<>>, e.sms = IF r \in Alive THEN tr[r].e.sms ELSE 0,
         r \in Alive => ti = tr[r].ti,
         NEW ok, PhoneDid(tr, s, r, ti, d, ok), UNCHANGED <<nt, asked>>
  PROVE  Ledger'
<1> DEFINE t == Served(s, r, ti, d.out, ok)
<1>1. Shifts(s, r, ti, t)
  BY ServedShifts
<1>2. conn' = t.conn /\ Observe(d)
      /\ tr' = [tr EXCEPT ![r] = IF d.freed THEN None ELSE [ti |-> ti, e |-> Settled(d)]]
  BY DEF PhoneDid
<1> HIDE DEF t
<1>3. /\ conn' = [x \in Ref |-> conn'[x]]
      /\ \A x \in Ref : x # r => conn'[x] = conn[x]
      /\ r \in Ref => conn'[r] \in {conn[r], NoConn, [st |-> "PEND", ti |-> ti]}
  BY <1>1, <1>2 DEF Shifts, Layer
<1>4. /\ r \in Ref => tr'[r] = IF d.freed THEN None ELSE [ti |-> ti, e |-> Settled(d)]
      /\ \A x \in Ref : x # r => tr'[x] = tr[x]
  BY <1>2 DEF IInv
<1>5. r \in Ref => conn'[r] \in {conn[r], NoConn, [st |-> "PEND", ti |-> ti],
                                 [st |-> "OPEN", ti |-> ti]}
  BY <1>3
<1> QED BY <1>2, <1>3, <1>4, <1>5, PhoneLedger

LEMMA BelowLayer ==
  ASSUME Ledger, NEW q
  PROVE  /\ Layer(Below) /\ Below.conn = conn
         /\ Layer([Below EXCEPT !.upq = q]) /\ [Below EXCEPT !.upq = q].conn = conn
BY DEF Ledger, Below, Layer

LEMMA FoundEntry ==
  ASSUME IInv, Ledger, NEW r
  PROVE  /\ Booked(Found(r)) /\ Found(r).rep = <<>>
         /\ Found(r).sms = IF r \in Alive THEN tr[r].e.sms ELSE 0
BY ZenonT(40), AliveBooked, NewTransBooked DEF Found, Ledger, PhoneEntry

LEMMA DequeueLedger ==
  ASSUME IInv, Ledger, gsm48_mmxx_dequeue
  PROVE  Ledger'
<1> DEFINE q == Head(upq)
           f == Found(q.ref)
           ti == IF q.ref \in Alive THEN tr[q.ref].ti ELSE q.ti
           d == IF q.prim = "EST_CNF" THEN gsm411_smc_recv(f, "EST_CNF", "NONE", NoMsg)
                ELSE gsm411_sms_trans_free(f)
           s == [Below EXCEPT !.upq = Tail(upq)]
<1>1. PhoneDid(tr, s, q.ref, ti, d, TRUE) /\ UNCHANGED <<nt, asked>>
  BY DEF gsm48_mmxx_dequeue
<1>2. Booked(f) /\ f.rep = <<>> /\ f.sms = IF q.ref \in Alive THEN tr[q.ref].e.sms ELSE 0
  BY FoundEntry
<1>3. q.ref \in Alive => ti = tr[q.ref].ti
  OBVIOUS
<1>4. Layer(s) /\ s.conn = conn
  BY BelowLayer
<1> HIDE DEF f, s, ti, q
<1>5. Settles(f, d)
  BY <1>2, SmcRecvSettles, FreeSettles
<1> HIDE DEF d
<1> QED BY <1>1, <1>2, <1>3, <1>4, <1>5, PhoneDidLedger

LEMMA PhoneTimersLedger ==
  ASSUME IInv, Ledger, NEW r \in Ref, TC1Expires(r) \/ TR1Expires(r)
  PROVE  Ledger'
<1>1. r \in Alive /\ UNCHANGED <<nt, asked>>
  BY DEF TC1Expires, TR1Expires, Alive
<1>2. Booked(tr[r].e) /\ tr[r].e.rep = <<>>
  BY <1>1, AliveBooked DEF Ledger, PhoneEntry
<1>3. PICK d \in {cp_timer_expired(tr[r].e), rp_timer_expired(tr[r].e)}, ok \in BOOLEAN :
        Settles(tr[r].e, d) /\ PhoneDid(tr, Below, r, tr[r].ti, d, ok)
  BY <1>2, TimersSettle DEF TC1Expires, TR1Expires
<1> QED BY <1>1, <1>2, <1>3, BelowLayer, PhoneDidLedger

LEMMA DataUpLedger ==
  ASSUME IInv, Ledger, gsm48_mm_data_ind
  PROVE  Ledger'
<1> DEFINE m == Head(air.down)
           known == {r \in Ref : conn[r].st # "NONE" /\ conn[r].ti = m.ti}
           targets == IF known # {} THEN known ELSE {x \in Ref : FreshRef(x)}
           prim == IF known # {} THEN "DATA_IND" ELSE "EST_IND"
           E(r, v) == [Found(r) EXCEPT !.verdict = v]
           G(r, v) == ImplicitAck(r, m.ti, E(r, v), m)
           S(r, v) == [Below EXCEPT
                         !.conn = [x \in Ref |-> CASE x \in G(r, v) -> NoConn
                                                   [] x = r /\ known = {} -> [st |-> "OPEN", ti |-> m.ti]
                                                   [] OTHER -> conn[x]]]
           D(r, v) == gsm411_smc_recv(E(r, v), prim, m.cp, m.msg)
<1>1. PICK r \in targets, v \in {"ACK", "ERROR"} :
        /\ Observe(D(r, v))
        /\ tr' = [x \in Ref |->
                    CASE x \in G(r, v) -> None
                      [] x = r -> IF D(r, v).freed THEN None
                                  ELSE [ti |-> m.ti, e |-> Settled(D(r, v))]
                      [] OTHER -> tr[x]]
        /\ conn' = Served(S(r, v), r, m.ti, D(r, v).out, TRUE).conn
  BY ZenonT(60) DEF gsm48_mm_data_ind
<1>2. UNCHANGED <<nt, asked>>
  BY DEF gsm48_mm_data_ind
<1>3. r \in Ref
  OBVIOUS
<1>4. Booked(E(r, v)) /\ E(r, v).rep = <<>>
      /\ E(r, v).sms = IF r \in Alive THEN tr[r].e.sms ELSE 0
  <2>1. Booked(Found(r)) /\ Found(r).rep = <<>>
        /\ Found(r).sms = IF r \in Alive THEN tr[r].e.sms ELSE 0
    BY FoundEntry
  <2> QED BY <2>1 DEF Booked, Fields
<1>5. Settles(E(r, v), D(r, v))
  BY <1>4, SmcRecvSettles
<1>6. r \in Alive /\ E(r, v).sms # 0 => m.ti = tr[r].ti
  <2>1. CASE known # {}
    <3>1. conn[r].st # "NONE" /\ conn[r].ti = m.ti
      BY <2>1
    <3> HIDE DEF known, m
    <3> QED BY <1>4, <3>1 DEF Ledger, PhoneEntry
  <2>2. CASE known = {}
    <3>1. FreshRef(r)
      BY <2>2
    <3> QED BY <3>1 DEF FreshRef, Alive
  <2> QED BY <2>1, <2>2
<1>7. \A x \in G(r, v) : x # r /\ x \in Alive /\ tr[x].e.sms = 0
  <2>1. \A x \in G(r, v) : x # r /\ x \in Alive /\ tr[x].ti \in MtTi
    <3> HIDE DEF E, m
    <3> QED BY DEF ImplicitAck
  <2>2. \A i \in MtTi : i \notin MoTi
    BY DEF MtTi, MoTi
  <2> HIDE DEF G
  <2> QED BY <2>1, <2>2 DEF Ledger, PhoneEntry
<1>8. /\ Layer(S(r, v))
      /\ \A x \in Ref : x # r => S(r, v).conn[x] \in {conn[x], NoConn}
      /\ S(r, v).conn[r] \in {conn[r], [st |-> "OPEN", ti |-> m.ti]}
  <2> DEFINE c == [x \in Ref |-> CASE x \in G(r, v) -> NoConn
                                   [] x = r /\ known = {} -> [st |-> "OPEN", ti |-> m.ti]
                                   [] OTHER -> conn[x]]
  <2> HIDE DEF G, known, m
  <2>1. /\ c = [x \in Ref |-> c[x]]
        /\ \A x \in Ref : x # r => c[x] \in {conn[x], NoConn}
        /\ c[r] \in {conn[r], [st |-> "OPEN", ti |-> m.ti]}
    BY <1>3, <1>7
  <2>2. S(r, v) = [Below EXCEPT !.conn = c]
    OBVIOUS
  <2> HIDE DEF c, S
  <2>3. S(r, v).conn = c /\ DOMAIN S(r, v) = {"conn", "upq", "up"}
    BY <2>2 DEF Below
  <2> QED BY <2>1, <2>3 DEF Layer
<1> DEFINE ti == m.ti
<1> HIDE DEF E, D, S, G, m
<1> DEFINE e == E(r, v)
           d == D(r, v)
           s == S(r, v)
           t == Served(s, r, ti, d.out, TRUE)
<1>9. Shifts(s, r, ti, t)
  BY <1>8, ServedShifts
<1>10. conn' = t.conn
  BY <1>1
<1>11. /\ tr'[r] = IF d.freed THEN None ELSE [ti |-> ti, e |-> Settled(d)]
       /\ \A x \in Ref : x # r => \/ tr'[x] = tr[x]
                                  \/ tr'[x] = None /\ (x \in Alive => tr[x].e.sms = 0)
  <2> HIDE DEF d
  <2> QED BY <1>1, <1>3, <1>7 DEF d
<1>12. /\ Observe(d) /\ Settles(e, d) /\ e.rep = <<>>
       /\ e.sms = (IF r \in Alive THEN tr[r].e.sms ELSE 0)
       /\ (r \in Alive /\ e.sms # 0 => ti = tr[r].ti)
       /\ Layer(s)
       /\ \A x \in Ref : x # r => s.conn[x] \in {conn[x], NoConn}
       /\ s.conn[r] \in {conn[r], [st |-> "OPEN", ti |-> ti]}
  BY <1>1, <1>4, <1>5, <1>6, <1>8
<1> HIDE DEF e, d, s, t, ti
<1>13. /\ conn' = [x \in Ref |-> conn'[x]]
       /\ \A x \in Ref : x # r => conn'[x] \in {conn[x], NoConn}
       /\ conn'[r] \in {conn[r], NoConn, [st |-> "PEND", ti |-> ti], [st |-> "OPEN", ti |-> ti]}
  <2>1. t.conn = [x \in Ref |-> t.conn[x]]
    BY <1>9 DEF Shifts, Layer
  <2>2. \A x \in Ref : x # r => t.conn[x] = s.conn[x]
    BY <1>9 DEF Shifts
  <2>3. t.conn[r] \in {s.conn[r], NoConn, [st |-> "PEND", ti |-> ti]}
    BY <1>3, <1>9 DEF Shifts
  <2>4. \A x \in Ref : x # r => s.conn[x] \in {conn[x], NoConn}
    BY <1>12
  <2>5. s.conn[r] \in {conn[r], [st |-> "OPEN", ti |-> ti]}
    BY <1>12
  <2> QED BY <1>10, <2>1, <2>2, <2>3, <2>4, <2>5
<1> QED BY <1>2, <1>3, <1>11, <1>12, <1>13, PhoneLedger

LEMMA NetRecvLedger ==
  ASSUME IInv, Ledger, NetRecv
  PROVE  Ledger'
<1> DEFINE m == Head(air.up)
           known == m.ti \in NetAlive
           e == IF known THEN nt[m.ti].e ELSE NewTrans(TRUE, 0)
           d == IF ~known /\ m.cp # "DATA" THEN gsm411_sms_trans_free(e)
                ELSE gsm411_smc_recv(e, IF known THEN "DATA_IND" ELSE "EST_IND", m.cp, m.msg)
           held == CASE d.got # <<>> -> d.got[1] [] d.got = <<>> /\ known -> nt[m.ti].held
                     [] OTHER -> 0
<1>1. /\ Booked(e) /\ e.rep = <<>>
      /\ e.sms = IF m.ti \in NetAlive THEN nt[m.ti].e.sms ELSE 0
  BY AliveBooked, NewTransBooked DEF Ledger, NetEntry
<1>2. NetDid([air EXCEPT !.up = Tail(@)], m.ti, d, held) /\ UNCHANGED <<tr, conn, asked>>
  BY Zenon DEF NetRecv
<1> HIDE DEF e, known, held, m
<1>3. Settles(e, d)
  BY <1>1, SmcRecvSettles, FreeSettles
<1> HIDE DEF d
<1> QED BY <1>1, <1>2, <1>3, NetLedger DEF IInv

LEMMA NetTransLedger ==
  ASSUME IInv, Ledger, NEW i \in Ti,
         \/ NetConfirm(i) \/ NetTC1Expires(i) \/ NetTR1Expires(i)
         \/ \E v \in {"ACK", "ERROR"} : NetReport(i, v)
  PROVE  Ledger'
<1>1. i \in NetAlive /\ UNCHANGED <<tr, conn, asked>>
  BY DEF NetAlive, NetConfirm, NetTC1Expires, NetTR1Expires, NetReport
<1>2. Booked(nt[i].e) /\ nt[i].e.rep = <<>> /\ nt = [j \in Ti |-> nt[j]]
  BY <1>1, AliveBooked DEF Ledger, NetEntry, IInv
<1>3. ASSUME NEW a, NEW d, NEW held, Settles(nt[i].e, d), NetDid(a, i, d, held)
      PROVE  Ledger'
  BY <1>1, <1>2, <1>3, NetLedger
<1>4. CASE NetConfirm(i)
  BY <1>2, <1>3, <1>4, SmcRecvSettles DEF NetConfirm
<1>5. CASE NetTC1Expires(i)
  BY <1>2, <1>3, <1>5, TimersSettle DEF NetTC1Expires
<1>6. CASE NetTR1Expires(i)
  BY <1>2, <1>3, <1>6, TimersSettle DEF NetTR1Expires
<1>7. CASE \E v \in {"ACK", "ERROR"} : NetReport(i, v)
  BY <1>2, <1>3, <1>7, SmrSendSettles DEF NetReport
<1> QED BY <1>4, <1>5, <1>6, <1>7

\* The MM layer alone: nothing happens to a transaction.
LEMMA ConnLedger ==
  ASSUME Ledger, UNCHANGED <<asked, tr, nt, reports>>,
         conn' = [r \in Ref |-> conn'[r]], \A r \in Ref : DOMAIN conn'[r] = {"st", "ti"},
         \A r \in Ref : conn'[r].st # "NONE" => conn[r].st # "NONE" /\ conn'[r].ti = conn[r].ti
  PROVE  Ledger'
<1>1. /\ \A r \in Ref : Held(r)' = Held(r)
      /\ \A i \in Ti : NetHeld(i)' = NetHeld(i)
  BY DEF Held, NetHeld
<1>2. \A r \in Alive' : PhoneEntry(r)'
  BY DEF Ledger, PhoneEntry, Alive
<1>3. reports' \in [Sms -> Seq({"OK", "FAILED"})] /\ \A id \in Sms : Accounted(id)'
  BY <1>1, AccountsKept
<1> QED BY <1>2, <1>3 DEF Ledger, Alive, NetEntry, NetAlive

LEMMA RadioBreaksLedger ==
  ASSUME IInv, Ledger, RadioBreaks
  PROVE  Ledger'
<1> DEFINE Ended(i) == gsm411_sms_trans_free(gsm411_smc_recv(nt[i].e, "REL_IND", "NONE", NoMsg))
<1>1. /\ conn' = [r \in Ref |-> NoConn] /\ nt' = [i \in Ti |-> None]
      /\ reports' = [m \in Sms |->
           IF NetCarries(m) = {} THEN reports[m]
           ELSE reports[m] \o Told(Ended(CHOOSE i \in NetCarries(m) : TRUE), m)]
      /\ UNCHANGED <<asked, tr>>
  BY DEF RadioBreaks
<1>2. ASSUME NEW i \in NetAlive, nt[i].e.sms # 0
      PROVE  \E res \in {"OK", "FAILED"} : Told(Ended(i), nt[i].e.sms) = <<res>>
  <2> DEFINE s == gsm411_smc_recv(nt[i].e, "REL_IND", "NONE", NoMsg)
  <2>1. Settles(nt[i].e, s) /\ nt[i].e.rep = <<>>
    BY <1>2, AliveBooked, SmcRecvSettles DEF Ledger, NetEntry
  <2>2. Booked(s)
    BY <2>1, SettlesTrans
  <2> HIDE DEF s
  <2>3. Settles(nt[i].e, gsm411_sms_trans_free(s))
    BY <2>1, <2>2, FreeSettles, SettlesTrans
  <2>4. gsm411_sms_trans_free(s).sms = 0
    BY <2>2 DEF gsm411_sms_trans_free, Booked, Fields
  <2> QED BY <1>2, <2>1, <2>3, <2>4, SettlesTold DEF s
<1> HIDE DEF Ended
<1> DEFINE told == [m \in Sms |-> IF NetCarries(m) = {} THEN <<>>
                                  ELSE Told(Ended(CHOOSE i \in NetCarries(m) : TRUE), m)]
<1>3. reports' = [m \in Sms |-> reports[m] \o told[m]]
  BY <1>1, NotReported DEF Ledger
<1>4. /\ \A r \in Ref : Held(r)' = Held(r)
      /\ \A i \in Ti : NetHeld(i)' = 0
  BY <1>1 DEF Held, NetHeld
<1>5. ASSUME NEW m \in Sms
      PROVE  \/ told[m] = <<>> /\ (Carried(m)' <=> Carried(m))
             \/ /\ \E res \in {"OK", "FAILED"} : told[m] = <<res>>
                /\ Carried(m) /\ ~Carried(m)'
  <2>0. m # 0
    BY TransferAssumption
  <2>1. CASE NetCarries(m) = {}
    <3>1. told[m] = <<>>
      BY <2>1
    <3>2. \A i \in Ti : NetHeld(i) # m
      BY <2>0, <2>1 DEF NetCarries, NetHeld, NetAlive
    <3> QED BY <1>4, <2>0, <3>1, <3>2, CarriedHeld, CarriedHeldNext
  <2>2. CASE NetCarries(m) # {}
    <3>1. PICK i \in NetCarries(m) : told[m] = Told(Ended(i), m)
      BY <2>2
    <3>2. i \in NetAlive /\ nt[i].e.sms = m
      BY DEF NetCarries
    <3>3. \E res \in {"OK", "FAILED"} : told[m] = <<res>>
      BY <1>2, <2>0, <3>1, <3>2
    <3>4. Carried(m)
      BY <2>2 DEF Carried
    <3>5. \A r \in Ref : Held(r) # m
      <4>1. m \in Mt /\ m \notin Mo
        BY <2>0, <3>2, TransferAssumption DEF Ledger, NetEntry
      <4> QED BY <2>0, <4>1 DEF Held, Alive, Ledger, PhoneEntry
    <3> QED BY <1>4, <2>0, <3>3, <3>4, <3>5, CarriedHeldNext
  <2> QED BY <2>1, <2>2
<1> HIDE DEF told
<1>6. reports' \in [Sms -> Seq({"OK", "FAILED"})] /\ \A id \in Sms : Accounted(id)'
  BY <1>1, <1>3, <1>5, AccountsPosted
<1>7. NetAlive' = {}
  BY <1>1 DEF NetAlive
<1>8. \A r \in Alive' : PhoneEntry(r)'
  BY <1>1 DEF Ledger, PhoneEntry, Alive, NoConn
<1> QED BY <1>1, <1>6, <1>7, <1>8 DEF Ledger, Alive, NoConn

-----------------------------------------------------------------------------
LEMMA InitLedger == Init => Ledger
<1> SUFFICES ASSUME Init PROVE Ledger
  OBVIOUS
<1>1. Alive = {} /\ NetAlive = {} /\ asked = {}
  BY DEF Init, Alive, NetAlive
<1>2. <<>> \in Seq({"OK", "FAILED"})
  OBVIOUS
<1>3. reports = [i \in Sms |-> <<>>] /\ conn = [r \in Ref |-> NoConn]
  BY DEF Init
<1>4. \A id \in Sms : Accounted(id)
  BY <1>1, <1>3 DEF Accounted, Carried, Carries, NetCarries
<1> QED BY <1>1, <1>2, <1>3, <1>4 DEF Ledger, NoConn

LEMMA StepLedger == IInv /\ Ledger /\ [Next]_vars => Ledger'
<1> SUFFICES ASSUME IInv, Ledger, [Next]_vars PROVE Ledger'
  OBVIOUS
<1>1. ASSUME UNCHANGED <<asked, tr, nt, reports, conn>> PROVE Ledger'
  BY <1>1, ConnLedger DEF Ledger
<1>2. CASE \E id \in Mo : gsm411_tx_sms_submit(id)
  BY <1>2, SubmitLedger
<1>3. CASE \E id \in Mt : NetSubmit(id)
  BY <1>3, NetSubmitLedger
<1>4. CASE PhoneStep
  <2>1. ASSUME NEW r \in Ref, MmConfirm(r) \/ MmReject(r) PROVE Ledger'
    <3>1. UNCHANGED <<asked, tr, nt, reports>> /\ conn = [x \in Ref |-> conn[x]]
          /\ \A x \in Ref : DOMAIN conn[x] = {"st", "ti"}
      BY <2>1 DEF MmConfirm, MmReject, Ledger
    <3>2. CASE MmConfirm(r)
      <4>1. conn[r].st = "PEND" /\ conn' = [conn EXCEPT ![r].st = "OPEN"]
        BY <3>2 DEF MmConfirm
      <4>2. /\ conn' = [x \in Ref |-> conn'[x]] /\ conn'[r].ti = conn[r].ti
            /\ DOMAIN conn'[r] = {"st", "ti"} /\ \A x \in Ref : x # r => conn'[x] = conn[x]
        BY <3>1, <4>1
      <4> QED BY <3>1, <4>1, <4>2, ConnLedger
    <3>3. CASE MmReject(r)
      <4>1. conn' = [conn EXCEPT ![r] = NoConn]
        BY <3>3 DEF MmReject
      <4>2. /\ conn' = [x \in Ref |-> conn'[x]] /\ conn'[r].st = "NONE"
            /\ DOMAIN conn'[r] = {"st", "ti"} /\ \A x \in Ref : x # r => conn'[x] = conn[x]
        BY <3>1, <4>1 DEF NoConn
      <4> QED BY <3>1, <4>2, ConnLedger
    <3> QED BY <2>1, <3>2, <3>3
  <2> QED BY <1>4, <2>1, DequeueLedger, DataUpLedger, PhoneTimersLedger DEF PhoneStep
<1>5. CASE NetStep
  BY <1>5, NetRecvLedger, NetTransLedger DEF NetStep, NetAlive
<1>6. CASE LinkLoses
  BY <1>1, <1>6 DEF LinkLoses
<1>7. CASE RadioBreaks
  BY <1>7, RadioBreaksLedger
<1>8. CASE UNCHANGED vars
  BY <1>1, <1>8 DEF vars
<1> QED BY <1>2, <1>3, <1>4, <1>5, <1>6, <1>7, <1>8 DEF Next

\* At most one transaction has the message, and none after its report.
LEMMA LedgerReportedOnce == Ledger => ReportedOnce
<1> SUFFICES ASSUME Ledger, NEW id \in asked, id \notin Unencodable
             PROVE  Cardinality(Carries(id)) + Cardinality(NetCarries(id)) + Len(reports[id]) = 1
  BY DEF ReportedOnce
<1>1. id \in Sms /\ id # 0 /\ Accounted(id)
  BY TransferAssumption DEF Ledger
<1>2. Carries(id) = {} \/ \E r : Carries(id) = {r}
  <2>1. \A r, s \in Carries(id) : r = s
    BY <1>1 DEF Ledger, Carries
  <2> QED BY <2>1
<1>3. NetCarries(id) = {} \/ \E i : NetCarries(id) = {i}
  <2>1. \A i, j \in NetCarries(id) : i = j
    BY <1>1 DEF Ledger, NetCarries
  <2> QED BY <2>1
<1>4. Carries(id) = {} \/ NetCarries(id) = {}
  BY <1>1, TransferAssumption DEF Ledger, PhoneEntry, NetEntry, Carries, NetCarries
<1>5. Cardinality({}) = 0 /\ \A x : Cardinality({x}) = 1
  BY FS_EmptySet, FS_Singleton
<1>6. CASE Carried(id)
  <2>1. Len(reports[id]) = 0
    BY <1>1, <1>6 DEF Accounted
  <2>2. Cardinality(Carries(id)) + Cardinality(NetCarries(id)) = 1
    BY SMTT(40), <1>2, <1>3, <1>4, <1>5, <1>6 DEF Carried
  <2> QED BY <2>1, <2>2
<1>7. CASE ~Carried(id)
  <2>1. Len(reports[id]) = 1
    BY <1>1, <1>7 DEF Accounted
  <2>2. Carries(id) = {} /\ NetCarries(id) = {}
    BY <1>7 DEF Carried
  <2> QED BY <1>5, <2>1, <2>2
<1> QED BY <1>6, <1>7

\* Whatever is lost and however early a timer expires, a message that was
\* submitted is in one transaction or reported, once and for all.
THEOREM AlwaysReportedOnce == Spec => []ReportedOnce
<1>1. Init => Ledger
  BY InitLedger
<1>2. IInv /\ Ledger /\ [Next]_vars => Ledger'
  BY StepLedger
<1>3. Ledger => ReportedOnce
  BY LedgerReportedOnce
<1>4. Spec => []IInv
  BY Inductive
<1> QED BY <1>1, <1>2, <1>3, <1>4, PTL DEF Spec
=============================================================================
