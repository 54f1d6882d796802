------------------------------ MODULE Gsm0411 -------------------------------
(***************************************************************************)
(* One transaction of the point-to-point short message service: the        *)
(* control entity SMC of gsm0411_smc.c, the relay entity SMR of            *)
(* gsm0411_smr.c and, above and below them, the user gsm411_sms.c that     *)
(* binds the two together on the phone.  The module declares no variables. *)
(* A handler is an operator from an endpoint to an endpoint; handlers nest *)
(* the way the C functions call each other, so the user is called in the   *)
(* middle of a handler of SMC and may free the transaction under it.       *)
(*                                                                         *)
(* The library serves both sides (inst->network).  The user of the network *)
(* is not part of this repository: it is taken to be the mirror image of   *)
(* the phone's, but answers an RP-DATA later instead of at once, and       *)
(* ignores what the phone's user would free the transaction for.           *)
(*                                                                         *)
(* A message is its RP type and the short message it carries.  CP-ACK and  *)
(* CP-ERROR carry none; code that reads one behind them all the same finds *)
(* the fill octets of layer 2, which are of RP type Fill.                  *)
(*                                                                         *)
(* A definition marked `Faulty variant' is a plausible mistake in the one  *)
(* it stands next to; no other definition uses it.                         *)
(***************************************************************************)
EXTENDS Integers, Sequences

CONSTANTS
  MaxRetr,  \* inst->cp_max_retr
  Fill      \* RP type of the fill octets behind a short CP message

FromPhone == {"DATA_MO", "ACK_MO", "ERROR_MO", "SMMA_MO"}
FromNetwork == {"DATA_MT", "ACK_MT", "ERROR_MT", "RESERVED_MT"}

\* Fill octets read as an answer of the network: 0x2b & 7 is RP-ACK.
ASSUME SmcAssumption == MaxRetr \in Nat /\ Fill \in {"ACK_MT", "ERROR_MT"}

CpState == {"IDLE", "MM_CONN_PENDING", "WAIT_CP_ACK", "MM_ESTABLISHED"}
RpState == {"IDLE", "WAIT_FOR_RP_ACK", "WAIT_TO_TX_RP_ACK"}

\* A message without short message, and no message at all.
RpMsg(type, id) == [rp |-> type, id |-> id]
FillMsg == RpMsg(Fill, 0)
NoMsg == RpMsg("NONE", 0)

\* An endpoint: the two instances of struct gsm_trans, and what the handler
\* running has done so far.
\*   net, sms      inst->network; the short message in trans->sms.sms or 0
\*   verdict       what the user will make of an RP-DATA
\*   freed, uaf    the transaction is freed; it was used after that
\*   fatal         a branch was taken that `should never happen'
\*   out           primitives to the MM layer
\*   rep, got      reports to, and short messages for, the application
NewTrans(net, id) ==
  [net |-> net, sms |-> id, cps |-> "IDLE", cpm |-> NoMsg, rel |-> FALSE, rtx |-> 0,
   tc1 |-> FALSE, rps |-> "IDLE", tr1 |-> FALSE, verdict |-> "ACK", freed |-> FALSE,
   uaf |-> FALSE, fatal |-> FALSE, out |-> <<>>, rep |-> <<>>, got |-> <<>>]

\* Every access to a transaction that is freed already is recorded as such.
Live(e, next) == IF e.freed THEN [e EXCEPT !.uaf = TRUE] ELSE next

\* The type of a message by its sender: the library sends the MO types on the
\* phone and the MT types in the network.
Own(e, mo, mt) == IF e.net THEN mt ELSE mo

\* The direction check of SMR: inst->network == (msg_type & 1).
WrongDirection(e, m) == m.rp \in Own(e, FromPhone, FromNetwork)

-----------------------------------------------------------------------------
(* The user below SMC: primitives for the MM layer.                         *)

Prim(prim, cp, m) == [prim |-> prim, cp |-> cp, msg |-> m]

\* Faulty variant: a message still attached is dropped.
trans_free_silently(e) ==
  [e EXCEPT !.freed = TRUE, !.cpm = NoMsg, !.tc1 = FALSE, !.tr1 = FALSE, !.sms = 0]

\* Whatever message is still attached is reported as rejected.
gsm411_sms_trans_free(e) ==
  [e EXCEPT !.freed = TRUE, !.cpm = NoMsg, !.tc1 = FALSE, !.tr1 = FALSE, !.sms = 0,
            !.rep = IF e.sms # 0 THEN Append(@, [id |-> e.sms, res |-> "FAILED"]) ELSE @]

gsm411_trans_free(e) ==
  Live(e, gsm411_sms_trans_free(
            [e EXCEPT !.out = Append(@, Prim("REL_REQ", "NONE", NoMsg))]))

gsm411_mm_send(e, prim, cp, m) ==
  Live(e, LET s == [e EXCEPT !.out = Append(@, Prim(prim, cp, m))] IN
          IF prim = "REL_REQ" THEN gsm411_trans_free(s) ELSE s)

-----------------------------------------------------------------------------
(* SMC, requests from above.                                                *)

\* The branches that free a stored cp_msg are commented `should never happen'.
Stored(e, m) == [e EXCEPT !.fatal = @ \/ e.cpm # NoMsg, !.cpm = m]

gsm411_mnsms_est_req(e, m) ==
  gsm411_mm_send([Stored(e, m) EXCEPT !.cps = "MM_CONN_PENDING", !.rel = FALSE],
                 "EST_REQ", "NONE", NoMsg)

\* Faulty variant: TC1 is started for the first transmission only.
send_msg_once(e) ==
  gsm411_mm_send([e EXCEPT !.rtx = IF e.cps = "WAIT_CP_ACK" THEN @ ELSE 0,
                           !.cps = "WAIT_CP_ACK", !.tc1 = e.cps # "WAIT_CP_ACK"],
                 "DATA_REQ", "DATA", e.cpm)

\* A repetition leaves the counter alone; TC1 is started either way.
gsm411_mmsms_send_msg(e) ==
  gsm411_mm_send([e EXCEPT !.rtx = IF e.cps = "WAIT_CP_ACK" THEN @ ELSE 0,
                           !.cps = "WAIT_CP_ACK", !.tc1 = TRUE],
                 "DATA_REQ", "DATA", e.cpm)

gsm411_mnsms_data_req(e, m) == gsm411_mmsms_send_msg(Stored(e, m))

Idle(e) == [e EXCEPT !.cpm = NoMsg, !.cps = "IDLE"]

Release(e) == gsm411_mm_send(e, "REL_REQ", "NONE", NoMsg)

\* Faulty variant: a release that cannot be served yet is forgotten.
rel_req_unstored(e) ==
  CASE e.cps = "MM_ESTABLISHED" -> Release(Idle(e))
    [] OTHER -> e

gsm411_mnsms_rel_req(e) ==
  CASE e.cps = "IDLE" -> e
    [] e.cps = "MM_ESTABLISHED" -> Release(Idle(e))
    [] OTHER -> [e EXCEPT !.rel = TRUE]

gsm411_mnsms_abort_req(e) ==
  Release(gsm411_mm_send(Idle(e), "DATA_REQ", "ERROR", NoMsg))

\* gsm411_mn_send is gsm411_smc_send of the instance next to it.
gsm411_smc_send(e, prim, m) ==
  Live(e, CASE prim = "EST_REQ" /\ e.cps = "IDLE" -> gsm411_mnsms_est_req(e, m)
            [] prim = "REL_REQ" -> gsm411_mnsms_rel_req(e)
            [] prim = "DATA_REQ" /\ e.cps = "MM_ESTABLISHED" -> gsm411_mnsms_data_req(e, m)
            [] prim = "ABORT_REQ" /\ e.cps # "IDLE" -> gsm411_mnsms_abort_req(e)
            [] OTHER -> e)

-----------------------------------------------------------------------------
(* SMR, requests from above.                                                *)

\* Going idle stops the timer, nothing else does.
new_rp_state(e, s) == Live(e, [e EXCEPT !.rps = s, !.tr1 = @ /\ s # "IDLE"])

gsm411_send_release(e) == gsm411_smc_send(e, "REL_REQ", NoMsg)

SmrError(e) == gsm411_smc_send(e, "DATA_REQ", RpMsg(Own(e, "ERROR_MO", "ERROR_MT"), 0))

\* Faulty variant: TR1M is not started.
rl_data_req_untimed(e, m) ==
  gsm411_smc_send(new_rp_state(e, "WAIT_FOR_RP_ACK"), "EST_REQ", m)

gsm411_rl_data_req(e, m) ==
  gsm411_smc_send(new_rp_state([e EXCEPT !.tr1 = TRUE], "WAIT_FOR_RP_ACK"), "EST_REQ", m)

gsm411_rl_report_req(e, m) ==
  gsm411_send_release(gsm411_smc_send(new_rp_state(e, "IDLE"), "DATA_REQ", m))

gsm411_smr_send(e, prim, m) ==
  Live(e, CASE prim = "DATA_REQ" /\ e.rps = "IDLE" -> gsm411_rl_data_req(e, m)
            [] prim = "REPORT_REQ" /\ e.rps = "WAIT_TO_TX_RP_ACK" -> gsm411_rl_report_req(e, m)
            [] OTHER -> e)

-----------------------------------------------------------------------------
(* The user above SMR.                                                      *)

gsm411_sms_report(e, res) ==
  Live(e, [e EXCEPT !.rep = Append(@, [id |-> e.sms, res |-> res]), !.sms = 0])

gsm411_rx_rp_ack(e) ==
  IF e.sms = 0 THEN gsm411_smr_send(e, "REPORT_REQ", RpMsg(Own(e, "ERROR_MO", "ERROR_MT"), 0))
  ELSE gsm411_sms_report(e, "OK")

\* Faulty variant: the cause of the error is not looked at.
rx_rp_error_uncaused(e) == IF e.sms = 0 THEN e ELSE gsm411_sms_report(e, "OK")

gsm411_rx_rp_error(e) == IF e.sms = 0 THEN e ELSE gsm411_sms_report(e, "FAILED")

\* The phone stores the message, or fails to, and answers at once.
gsm411_rx_rp_ud(e, m) ==
  LET s == [e EXCEPT !.got = Append(@, m.id)] IN
  IF e.net THEN s
  ELSE gsm411_smr_send(s, "REPORT_REQ",
                       RpMsg(IF e.verdict = "ACK" THEN "ACK_MO" ELSE "ERROR_MO", m.id))

gsm411_rx_rl_data(e, m) ==
  CASE m.rp = Own(e, "DATA_MT", "DATA_MO") -> gsm411_rx_rp_ud(e, m)
    [] m.rp # Own(e, "DATA_MT", "DATA_MO") /\ ~e.net -> gsm411_trans_free(e)
    [] OTHER -> e

gsm411_rx_rl_report(e, m) ==
  CASE m.rp = Own(e, "ACK_MT", "ACK_MO") -> gsm411_rx_rp_ack(e)
    [] m.rp = Own(e, "ERROR_MT", "ERROR_MO") -> gsm411_rx_rp_error(e)
    [] m.rp \notin {"ACK_MT", "ERROR_MT"} /\ ~e.net -> gsm411_trans_free(e)
    [] OTHER -> e

\* An empty report (no layer 3 header) is logged only.
gsm411_rl_recv(e, ind, m) ==
  Live(e, CASE ind = "DATA_IND" -> gsm411_rx_rl_data(e, m)
            [] ind = "REPORT_IND" /\ m = NoMsg -> e
            [] OTHER -> gsm411_rx_rl_report(e, m))

-----------------------------------------------------------------------------
(* SMR, indications from below.                                             *)

gsm411_mnsms_est_ind(e, m) ==
  CASE WrongDirection(e, m) -> gsm411_send_release(new_rp_state(SmrError(e), "IDLE"))
    [] ~WrongDirection(e, m) /\ m.rp \in {"DATA_MT", "DATA_MO", "SMMA_MO"} ->
         gsm411_rl_recv(new_rp_state([e EXCEPT !.tr1 = TRUE], "WAIT_TO_TX_RP_ACK"), "DATA_IND", m)
    [] OTHER -> new_rp_state(SmrError(e), "IDLE")

gsm411_mnsms_data_ind_tx(e, m) ==
  IF ~WrongDirection(e, m) /\ m.rp \in {"ACK_MO", "ACK_MT", "ERROR_MO", "ERROR_MT"}
  THEN gsm411_send_release(gsm411_rl_recv(new_rp_state(e, "IDLE"), "REPORT_IND", m))
  ELSE gsm411_send_release(new_rp_state(SmrError(e), "IDLE"))

gsm411_mnsms_error_ind_tx(e, m) ==
  gsm411_send_release(gsm411_rl_recv(new_rp_state(e, "IDLE"), "REPORT_IND", m))

gsm411_mnsms_error_ind_rx(e, m) == gsm411_rl_recv(new_rp_state(e, "IDLE"), "REPORT_IND", m)

\* gsm411_mn_recv is gsm411_smr_recv of the instance next to it.
gsm411_smr_recv(e, ind, m) ==
  Live(e, CASE ind = "EST_IND" /\ e.rps = "IDLE" -> gsm411_mnsms_est_ind(e, m)
            [] ind = "DATA_IND" /\ e.rps = "WAIT_FOR_RP_ACK" -> gsm411_mnsms_data_ind_tx(e, m)
            [] ind = "ERROR_IND" /\ e.rps = "WAIT_FOR_RP_ACK" -> gsm411_mnsms_error_ind_tx(e, m)
            [] ind = "ERROR_IND" /\ e.rps = "WAIT_TO_TX_RP_ACK" -> gsm411_mnsms_error_ind_rx(e, m)
            [] OTHER -> e)

\* TR1M or TR2M: an empty report, then the abort.
rp_timer_expired(e) ==
  gsm411_smc_send(gsm411_rl_recv([e EXCEPT !.tr1 = FALSE], "REPORT_IND", NoMsg),
                  "ABORT_REQ", NoMsg)

-----------------------------------------------------------------------------
(* SMC, indications from below.                                             *)

gsm411_mmsms_est_cnf(e) ==
  IF e.cpm = NoMsg THEN [e EXCEPT !.fatal = TRUE] ELSE gsm411_mmsms_send_msg(e)

\* The stored message is freed after SMR has been told.
cp_timer_expired(e) ==
  LET t == [e EXCEPT !.tc1 = FALSE] IN
  IF e.rtx = MaxRetr
  THEN LET s == gsm411_smr_recv([t EXCEPT !.cps = "IDLE"], "ERROR_IND", NoMsg) IN
       Release(Live(s, [s EXCEPT !.cpm = NoMsg]))
  ELSE gsm411_mmsms_est_cnf([t EXCEPT !.rtx = @ + 1])

gsm411_mmsms_cp_ack(e) ==
  LET s == [e EXCEPT !.cpm = NoMsg, !.cps = "MM_ESTABLISHED", !.tc1 = FALSE] IN
  IF s.rel THEN Release([s EXCEPT !.cps = "IDLE"]) ELSE s

\* The acknowledgement is sent before the message goes up.
gsm411_mmsms_cp_data(e, m) ==
  LET new == e.cps = "IDLE"
      s == [e EXCEPT !.cps = IF new THEN "MM_ESTABLISHED" ELSE @, !.rel = @ /\ ~new]
  IN gsm411_smr_recv(gsm411_mm_send(s, "DATA_REQ", "ACK", NoMsg),
                     IF new THEN "EST_IND" ELSE "DATA_IND", m)

\* Faulty variant: the state is left to the release that follows.
cp_error_state_late(e) == Release(gsm411_smr_recv(e, "ERROR_IND", FillMsg))

\* The CP-ERROR message itself goes up with the indication.
gsm411_mmsms_cp_error(e) == Release(gsm411_smr_recv(Idle(e), "ERROR_IND", FillMsg))

gsm411_mmsms_rel_ind(e) == gsm411_smr_recv(Idle(e), "ERROR_IND", NoMsg)

\* A message no entry of the table serves: the stored message stays.
SmcUnimplemented(e) ==
  Release(gsm411_smr_recv(
    gsm411_mm_send([e EXCEPT !.cps = "IDLE"], "DATA_REQ", "ERROR", NoMsg),
    "ERROR_IND", NoMsg))

SmcDataInd(e, cp, m) ==
  CASE cp = "DATA" /\ e.cps = "MM_ESTABLISHED" -> gsm411_mmsms_cp_data(e, m)
    [] cp = "ACK" /\ e.cps = "WAIT_CP_ACK" -> gsm411_mmsms_cp_ack(e)
    [] cp = "ERROR" -> gsm411_mmsms_cp_error(e)
    [] OTHER -> SmcUnimplemented(e)

\* The CP type is looked at for MMSMS-DATA-IND only: whatever opens a
\* connection is taken for a CP-DATA.
gsm411_smc_recv(e, prim, cp, m) ==
  Live(e, CASE prim = "EST_CNF" /\ e.cps = "MM_CONN_PENDING" -> gsm411_mmsms_est_cnf(e)
            [] prim = "EST_IND" /\ e.cps = "IDLE" ->
                 gsm411_mmsms_cp_data(e, IF cp = "DATA" THEN m ELSE FillMsg)
            [] prim = "EST_IND" /\ e.cps # "IDLE" -> SmcUnimplemented(e)
            [] prim = "DATA_IND" -> SmcDataInd(e, cp, m)
            [] prim = "REL_IND" /\ e.cps # "IDLE" -> gsm411_mmsms_rel_ind(e)
            [] OTHER -> e)
=============================================================================
