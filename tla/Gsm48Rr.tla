------------------------------ MODULE Gsm48Rr ------------------------------
(***************************************************************************)
(* Radio resources of the phone (gsm48_rr.c): how a dedicated channel is   *)
(* asked for, used and given back, between mobility management above, the  *)
(* two data links below and cell selection beside it.                      *)
(*                                                                         *)
(* A handler is an operator on the record c, the state of the phone:       *)
(*   rr, est_req, est_msg   rr->state, rr_est_req, the message that waits  *)
(*   s3                     rr->sapi3_state                                *)
(*   t3110, t3122, rel_wait timers; access: the random access procedure    *)
(*                          is under way, which T3126 ends                 *)
(*   lupd                   rr->est_cause is a location update             *)
(*   dl, sabm, dl3          the data links of SAPI 0 and 3, the content of *)
(*                          the SABM under way                             *)
(*   cs, la                 cell selection: camped normally or on any      *)
(*                          cell, connected mode, or choosing a cell; the  *)
(*                          location area of the cell last selected        *)
(*   net                    requests the network has not answered          *)
(*   rslq, rrq, mmxx, ev    the message queues rsl_upqueue, rr_upqueue,    *)
(*                          mmxx_upqueue, event_queue                      *)
(* The others belong to mobility management (Gsm48Mm).  A CM SERVICE       *)
(* REQUEST is named by the reference of its MM connection; measurements,   *)
(* ciphering keys, handover and assignment are left out.                   *)
(***************************************************************************)
EXTENDS Naturals, Sequences, SequencesExt

CONSTANTS None,   \* no message, no location area
          Lupd    \* a LOCATION UPDATING REQUEST

RslUp(c, prim, sapi) == [c EXCEPT !.rslq = Append(@, [prim |-> prim, sapi |-> sapi])]
gsm48_rr_upmsg(c, prim, sapi) == [c EXCEPT !.rrq = Append(@, [prim |-> prim, sapi |-> sapi])]

-----------------------------------------------------------------------------
(* The data link, as layer 2 serves it (lapd_core.c, state IDLE, SABM_SENT, *)
(* MF_EST with timer recovery, DISC_SENT)                                   *)

LinkDown(c) == [c EXCEPT !.dl = "IDLE", !.sabm = None, !.net = {}]

\* A request to establish is served in the idle state only.
DlEstReq(c) ==
  IF c.dl = "IDLE" THEN [c EXCEPT !.dl = "SABM_SENT", !.sabm = c.est_msg, !.est_msg = None]
                   ELSE [c EXCEPT !.est_msg = None]

DlRelReq(c, local) ==
  IF local \/ c.dl = "IDLE" THEN RslUp(LinkDown(c), "REL_CONF", 0)
                            ELSE [c EXCEPT !.dl = "DISC_SENT"]

-----------------------------------------------------------------------------
(* States and the release of SAPI 3                                         *)

\* Leaving connected mode, cell selection takes the same cell after a location
\* update and chooses one otherwise.
RetIdle(c) ==
  CASE c.cs = "CONNECTED" /\ c.lupd ->
         [c EXCEPT !.cs = "CAMPED", !.ev = Append(@, "CELL_SELECTED")]
    [] c.cs = "CONNECTED" /\ ~c.lupd -> [c EXCEPT !.cs = "CHOOSING"]
    [] OTHER -> c

\* Returning to idle gives the channel back and, in the same call, has cell
\* selection leave connected mode.
new_rr_state(c, state) ==
  IF state # "IDLE" \/ c.rr = "IDLE" THEN [c EXCEPT !.rr = state]
  ELSE RetIdle([c EXCEPT !.rr = "IDLE", !.est_req = FALSE, !.est_msg = None])

gsm48_release_sapi3_link(c) ==
  IF c.s3 = "IDLE" THEN c
  ELSE gsm48_rr_upmsg([c EXCEPT !.s3 = "IDLE", !.dl3 = "IDLE"], "REL_IND", 3)

-----------------------------------------------------------------------------
(* Requests of mobility management                                          *)

gsm48_rr_chan_req(c, lupd) ==
  [new_rr_state(c, "CONN_PEND") EXCEPT !.cs = "CONNECTED", !.access = TRUE, !.lupd = lupd]

\* No cell of the model bars the access class of the phone.
gsm48_rr_est_req(c, req) ==
  IF c.t3122 \/ c.rr # "IDLE" \/ c.cs # "CAMPED"
  THEN gsm48_rr_upmsg(c, "REL_IND", 0)
  ELSE gsm48_rr_chan_req([c EXCEPT !.est_req = TRUE, !.est_msg = req], req = Lupd)

\* Only a CM SERVICE REQUEST matters to the network of the model.
gsm48_rr_data_req(c, ref) ==
  IF c.rr = "DEDICATED" /\ c.dl = "EST" THEN [c EXCEPT !.net = @ \cup {ref}] ELSE c

gsm48_rr_abort_req(c) ==
  CASE c.rr = "DEDICATED" ->
         gsm48_release_sapi3_link(DlRelReq(new_rr_state(c, "REL_PEND"), FALSE))
    [] c.rr = "CONN_PEND" -> new_rr_state([c EXCEPT !.access = FALSE], "IDLE")
    [] OTHER -> c

gsm48_rr_est_req_sapi3(c) ==
  CASE c.s3 = "ESTAB" -> gsm48_rr_upmsg(c, "EST_CNF", 3)
    [] c.s3 = "IDLE" /\ c.rr # "DEDICATED" -> gsm48_rr_upmsg(c, "REL_IND", 3)
    [] c.s3 = "IDLE" /\ c.rr = "DEDICATED" ->
         [c EXCEPT !.s3 = "WAIT_EST", !.dl3 = IF @ = "IDLE" THEN "SABM_SENT" ELSE @]
    [] OTHER -> c

-----------------------------------------------------------------------------
(* What comes from the data links                                           *)

gsm48_rr_dl_est(c) == DlEstReq([c EXCEPT !.access = FALSE])

\* A second assignment finds the access procedure at its end.
gsm48_rr_rx_imm_ass(c) ==
  IF c.rr = "CONN_PEND" /\ c.access THEN gsm48_rr_dl_est(c) ELSE c

\* The procedure goes on until T3126 ends it, or an assignment comes after all.
gsm48_rr_rx_imm_ass_rej(c) ==
  IF c.rr = "CONN_PEND" /\ c.access THEN [c EXCEPT !.t3122 = TRUE] ELSE c

gsm48_rr_estab_cnf(c) ==
  CASE c.rr = "REL_PEND" -> DlRelReq(c, FALSE)
    [] c.rr \in {"IDLE", "CONN_PEND"} ->
         gsm48_rr_upmsg(new_rr_state(c, "DEDICATED"), IF c.est_req THEN "EST_CNF" ELSE "EST_IND", 0)
    [] OTHER -> c

gsm48_rr_rel_ind(c) ==
  IF c.rr \notin {"CONN_PEND", "DEDICATED"} THEN c
  ELSE LET told == gsm48_rr_upmsg(c, "REL_IND", 0)
       IN  gsm48_release_sapi3_link(new_rr_state([told EXCEPT !.rel_wait = TRUE], "REL_PEND"))

gsm48_rr_rel_cnf(c) ==
  IF c.rr = "IDLE" THEN c
  ELSE new_rr_state(gsm48_rr_upmsg([c EXCEPT !.t3110 = FALSE], "REL_IND", 0), "IDLE")

gsm48_rr_mdl_error_ind(c) ==
  IF c.rr # "DEDICATED" THEN c
  ELSE LET told == gsm48_rr_upmsg(DlRelReq(c, TRUE), "ABORT_IND", 0)
       IN  gsm48_release_sapi3_link(new_rr_state(told, "IDLE"))

gsm48_rr_mdl_error_ind_sapi3(c) ==
  gsm48_rr_upmsg([c EXCEPT !.s3 = "IDLE", !.dl3 = "IDLE"], "ABORT_IND", 3)

gsm48_rr_rx_chan_rel(c) ==
  IF c.rr # "DEDICATED" THEN c
  ELSE gsm48_release_sapi3_link(
         DlRelReq([new_rr_state(c, "REL_PEND") EXCEPT !.t3110 = TRUE], FALSE))

\* DATA_IND is for mobility management, unless RR itself is addressed.
gsm48_rr_data_ind(c, prim) == IF c.rr = "DEDICATED" THEN gsm48_rr_upmsg(c, prim, 0) ELSE c

gsm48_rr_estab_cnf_sapi3(c) ==
  CASE c.s3 = "ESTAB" -> c
    [] c.rr # "DEDICATED" -> gsm48_release_sapi3_link(c)
    [] OTHER -> gsm48_rr_upmsg([c EXCEPT !.s3 = "ESTAB"], "EST_CNF", 3)

gsm48_rr_estab_ind_sapi3(c) ==
  CASE c.s3 # "IDLE" \/ c.rr # "DEDICATED" -> c
    [] OTHER -> gsm48_rr_upmsg([c EXCEPT !.s3 = "ESTAB"], "EST_IND", 3)

gsm48_rr_rel_ind_sapi3(c) ==
  IF c.s3 = "IDLE" THEN c ELSE gsm48_rr_upmsg([c EXCEPT !.s3 = "IDLE"], "REL_IND", 3)

-----------------------------------------------------------------------------
(* Timers and loss of signal                                                *)

timeout_rr_t3126(c) ==
  LET told == IF c.est_req THEN gsm48_rr_upmsg(c, "REL_IND", 0) ELSE c
  IN  new_rr_state([told EXCEPT !.access = FALSE], "IDLE")

timeout_rr_t3110(c) ==
  gsm48_release_sapi3_link(
    DlRelReq(new_rr_state([c EXCEPT !.t3110 = FALSE], "REL_PEND"), TRUE))

timeout_rr_t_rel_wait(c) == new_rr_state([c EXCEPT !.rel_wait = FALSE], "IDLE")

\* During random access layer 2 is not told.
gsm48_rr_los(c) ==
  LET d == [c EXCEPT !.t3110 = FALSE]
  IN  CASE c.rr = "CONN_PEND" ->
             new_rr_state(gsm48_rr_upmsg([d EXCEPT !.access = FALSE], "REL_IND", 0), "IDLE")
        [] c.rr \in {"DEDICATED", "REL_PEND"} ->
             gsm48_release_sapi3_link(DlRelReq(new_rr_state(d, "REL_PEND"), TRUE))
        [] OTHER -> d
=============================================================================
