------------------------------ MODULE Gsm48Mm ------------------------------
(***************************************************************************)
(* Mobility management of the phone (gsm48_mm.c): the connections that     *)
(* call control and the short message service ask for, and the location    *)
(* updates that keep the phone registered, on one channel of radio         *)
(* resources (Gsm48Rr).                                                    *)
(*                                                                         *)
(* More fields of the record c:                                            *)
(*   mm, sst        mm->state, and mm->substate where the state is IDLE    *)
(*   conn           mm->mm_conn: the state of the connection of each       *)
(*                  reference, "NONE" where there is no such connection    *)
(*   sapi3_link     mm->sapi3_link                                         *)
(*   t3210, t3211, t3212, t3230, t3240   timers                            *)
(*   reg            subscr: the location area the phone is registered in,  *)
(*                  None unless the state of the SIM is U1, updated        *)
(*   sim, forb      subscr->sim_valid; areas the network forbade (of a     *)
(*                  forbidden network, all those of it)                    *)
(*   pending, retry, periodic, start_t3211   mm->lupd_pending, lupd_retry, *)
(*                  lupd_periodic, start_t3211                             *)
(*   plmn           a message to PLMN selection that the registration was  *)
(*                  refused: ROAMING_NA or INVALID_SIM                     *)
(*   rej            mm->lupd_rej_cause, which leaving LOC_UPD_REJ forgets: *)
(*                  it is written before it is read again                  *)
(*   mmxx           mmxx_upqueue, one queue for each reference: messages   *)
(*                  to different users of the service commute              *)
(*   stray          history: connections asked for while MM claims a       *)
(*                  channel that is not there, or set up while a timer that *)
(*                  was left running (T_rel_wait, T3210), or a location    *)
(*                  update, will take the channel away                     *)
(*   lost           history: a location update asked for while T_rel_wait  *)
(*                  runs or the data link is busy with the channel before, *)
(*                  or whose retry timer expired outside MM IDLE           *)
(*                                                                         *)
(* The IMSI is attached; PLMN selection is automatic and on its PLMN,      *)
(* where it ignores REG_FAILED and REG_SUCCESS.  IMSI detach, emergency    *)
(* calls and the choice of a PLMN by the user are left out, and with the   *)
(* last the substate PLMN SEARCH NORMAL.  lupd_attempt is left out as it   *)
(* is never counted up, and T3213 as radio resources never report a        *)
(* failure of the random access in an ABORT_IND.                           *)
(***************************************************************************)
EXTENDS Gsm48Rr

CONSTANTS Calls,      \* references of mobile originated calls, SAPI 0
          Messages,   \* references of short messages, SAPI 3
          Incoming,   \* references of incoming calls, SAPI 0
          Areas,      \* location areas
          Periodic    \* the cells ask for periodic updates (T3212)

Refs == Calls \cup Messages \cup Incoming

\* Causes of a CM SERVICE REJECT: congestion and the like, IMSI unknown in VLR,
\* illegal ME; and of a LOCATION UPDATING REJECT: a SIM that is illegal, an area
\* or network that is not allowed, roaming not allowed in the area, any other.
CmRejections == {"CM_REJ", "CM_REJ_UNKNOWN", "CM_REJ_ILLEGAL"}
LuRejections == {"LU_ILLEGAL", "LU_AREA", "LU_ROAMING", "LU_OTHER"}

UpdateStates == {"WAIT_RR_CONN_LUPD", "LOC_UPD_INIT", "LOC_UPD_REJ"}

\* What the network says on its own to the phone, and to requests of it.
Commands == {"CHAN_REL", "MM_ABORT", "ABORT_ILLEGAL", "AUTH_REJ"}
Answers(req) == IF req = Lupd THEN {"LU_ACC"} \cup LuRejections
                              ELSE {"CM_SERV_ACC"} \cup CmRejections

\* A setup, which is named by its reference, is not taken for another message.
ASSUME RefAssumption ==
  /\ None \notin Refs \cup Areas /\ Lupd \notin Refs
  /\ Periodic \in BOOLEAN
  /\ Calls \cap Messages = {} /\ Calls \cap Incoming = {} /\ Messages \cap Incoming = {}
  /\ Refs \cap ({"EST_CONF", "REL_CONF", "ERROR_IND", "EST_CNF", "EST_IND", "REL_IND", "ABORT_IND",
                  "CM_SERV_ACC", "LU_ACC"} \cup CmRejections \cup LuRejections \cup Commands) = {}

Downlink == (UNION {Answers(req) : req \in Refs \cup {Lupd}}) \cup Commands \cup Incoming
RslPrims == {"EST_CONF", "REL_IND", "REL_CONF", "ERROR_IND", "EST_IND"} \cup Downlink
RrPrims == {"EST_CNF", "EST_IND", "REL_IND", "ABORT_IND"} \cup Downlink

Serving == {"NORMAL", "ATTEMPT_UPDATE", "LIMITED_SERVICE"}

\* The phone, as the handlers leave it.
Phone ==
  [rr : {"IDLE", "CONN_PEND", "DEDICATED", "REL_PEND"},
   est_req : BOOLEAN, est_msg : Refs \cup {None, Lupd},
   s3 : {"IDLE", "WAIT_EST", "ESTAB"},
   t3110 : BOOLEAN, t3122 : BOOLEAN, rel_wait : BOOLEAN, access : BOOLEAN,
   lupd : BOOLEAN,
   dl : {"IDLE", "SABM_SENT", "EST", "DISC_SENT"},
   dl3 : {"IDLE", "SABM_SENT", "EST"},
   sabm : Refs \cup {None, Lupd}, net : SUBSET (Refs \cup {Lupd}),
   cs : {"CAMPED", "ANY", "CONNECTED", "CHOOSING", "NO_CELL"}, la : Areas,
   rslq : Seq([prim : RslPrims, sapi : {0, 3}]),
   rrq : Seq([prim : RrPrims, sapi : {0, 3}]),
   mmxx : [Refs -> Seq({"EST_CNF", "REL_IND", "ERR_IND"})],
   ev : Seq({"CELL_SELECTED", "NO_CELL_FOUND", "LOST_COVERAGE"}),
   mm : {"IDLE", "WAIT_NETWORK_CMD", "WAIT_RR_CONN_MM_CON", "WAIT_OUT_MM_CONN",
         "CONN_ACTIVE", "WAIT_ADD_OUT_MM_CON"} \cup UpdateStates,
   sst : Serving \cup {"PLMN_SEARCH", "NO_CELL", "NO_IMSI"},
   conn : [Refs -> {"NONE", "IDLE", "PEND", "DEDICATED"}],
   sapi3_link : BOOLEAN, t3210 : BOOLEAN, t3211 : BOOLEAN, t3212 : BOOLEAN,
   t3230 : BOOLEAN, t3240 : BOOLEAN,
   reg : Areas \cup {None}, sim : BOOLEAN, forb : SUBSET Areas,
   pending : BOOLEAN, retry : BOOLEAN, periodic : BOOLEAN, start_t3211 : BOOLEAN, plmn : BOOLEAN,
   rej : LuRejections \cup {None}, stray : SUBSET Refs, lost : BOOLEAN]

Sapi(ref) == IF ref \in Messages THEN 3 ELSE 0
Connected(c) == {ref \in Refs : c.conn[ref] # "NONE"}
Pending(c) == {ref \in Refs : c.conn[ref] = "PEND"}

-----------------------------------------------------------------------------
(* Helpers                                                                  *)

gsm48_mmxx_upmsg(c, refs, prim) ==
  [c EXCEPT !.mmxx = [ref \in Refs |-> IF ref \in refs THEN Append(@[ref], prim) ELSE @[ref]]]

mm_conn_free(c, ref) == [c EXCEPT !.conn[ref] = "NONE"]

\* Release the connections refs, each with a message to its user.
gsm48_mm_release_mm_conn(c, refs, prim) ==
  [gsm48_mmxx_upmsg(c, refs, prim) EXCEPT
     !.conn = [ref \in Refs |-> IF ref \in refs THEN "NONE" ELSE @[ref]]]

-----------------------------------------------------------------------------
(* Returning to MM IDLE, and starting a location update there               *)

\* The update has ended, or is given up.
UpdateDone(c) == [c EXCEPT !.pending = FALSE, !.lost = FALSE]

\* new_mm_state, gsm48_mm_loc_upd and gsm48_mm_return_idle call each other.  Every
\* turn uses up something that was put off: lupd_retry, lupd_periodic, the update
\* in a new area.  So the calls are nested three deep at most, and each operator is
\* given the next of them, a function on phones, as locUpd.
LocUpdPeriodic(c, locUpd) == IF c.pending THEN c ELSE locUpd[[c EXCEPT !.pending = TRUE]]

\* new_mm_state(IDLE, sst): what was put off until normal service is done now,
\* one thing at a time.
EnterIdle(c, sst, locUpd) ==
  LET updating == sst \in {"NORMAL", "ATTEMPT_UPDATE"}
      d == [c EXCEPT !.mm = "IDLE", !.sst = sst, !.rej = None,
                     !.t3212 = @ \/ (Periodic /\ updating)]
  IN  CASE updating /\ c.retry -> locUpd[[d EXCEPT !.retry = FALSE]]
        [] updating /\ ~c.retry /\ c.periodic -> LocUpdPeriodic([d EXCEPT !.periodic = FALSE], locUpd)
        [] OTHER -> d

LocUpdNormal(c, locUpd) ==
  CASE c.pending -> c
    [] ~c.pending /\ c.cs # "CAMPED" -> c
    [] ~c.pending /\ c.cs = "CAMPED" /\ c.reg = c.la -> EnterIdle(c, "NORMAL", locUpd)
    [] OTHER -> locUpd[[c EXCEPT !.pending = TRUE]]

\* A location update that is needed is begun.
NewStateIdle(c, sst, locUpd) ==
  IF sst = "LOC_UPD_NEEDED" THEN LocUpdNormal(EnterIdle(c, "ATTEMPT_UPDATE", locUpd), locUpd)
                            ELSE EnterIdle(c, sst, locUpd)

\* Only while the phone camps: cell selection reports CELL_SELECTED later.
ReturnIdle(c, locUpd) ==
  LET d == [c EXCEPT !.t3211 = @ \/ c.start_t3211, !.start_t3211 = FALSE]
  IN  CASE c.cs \notin {"CAMPED", "ANY"} -> c
        [] OTHER ->
             IF c.mm = "LOC_UPD_REJ" /\ c.rej = "LU_ROAMING"
             THEN NewStateIdle(d, "PLMN_SEARCH", locUpd)
             ELSE IF ~c.sim
             THEN NewStateIdle(UpdateDone([d EXCEPT !.t3212 = FALSE]), "NO_IMSI", locUpd)
             ELSE NewStateIdle(d, IF c.reg = c.la THEN "NORMAL"
                                  ELSE IF c.cs = "CAMPED" /\ c.la \notin c.forb
                                  THEN "LOC_UPD_NEEDED" ELSE "LIMITED_SERVICE", locUpd)

\* The area of the request is that of the selected cell, which stays as long as
\* the procedure runs.
BeginLocUpd(c) ==
  gsm48_rr_est_req([c EXCEPT !.mm = "WAIT_RR_CONN_LUPD",
                             !.lost = @ \/ c.rel_wait \/ c.dl # "IDLE"], Lupd)

TryLocUpd(c, locUpd) ==
  CASE ~c.pending -> ReturnIdle(c, locUpd)
    [] c.pending /\ (c.cs # "CAMPED" \/ c.la \in c.forb) -> ReturnIdle(UpdateDone(c), locUpd)
    [] OTHER -> BeginLocUpd(c)

\* gsm48_mm_loc_upd where nothing put off is left, and where one, two, three things may be.
LocUpd0 == [c \in Phone |-> BeginLocUpd(c)]
LocUpd1 == [c \in Phone |-> TryLocUpd(c, LocUpd0)]
LocUpd2 == [c \in Phone |-> TryLocUpd(c, LocUpd1)]
LocUpd3 == [c \in Phone |-> TryLocUpd(c, LocUpd2)]

gsm48_mm_loc_upd(c) == LocUpd3[c]
new_mm_state_idle(c, sst) == NewStateIdle(c, sst, LocUpd3)
gsm48_mm_return_idle(c) == ReturnIdle(c, LocUpd3)
gsm48_mm_loc_upd_normal(c) == LocUpdNormal(c, LocUpd3)
gsm48_mm_loc_upd_periodic(c) == LocUpdPeriodic(c, LocUpd3)

-----------------------------------------------------------------------------
(* MM connections                                                           *)

WaitNetworkCommand(c) == [c EXCEPT !.mm = "WAIT_NETWORK_CMD"]

\* Without connections the network has T3240 to release the channel.
ActiveOrWait(c) ==
  IF Connected(c) = {} THEN WaitNetworkCommand([c EXCEPT !.t3240 = TRUE])
                       ELSE [c EXCEPT !.mm = "CONN_ACTIVE"]

-----------------------------------------------------------------------------
(* Requests of the users                                                    *)

gsm48_mm_init_mm_reject(c, ref) == gsm48_mmxx_upmsg(c, {ref}, "REL_IND")

\* The CM SERVICE REQUEST asks for a channel.
gsm48_mm_init_mm_no_rr(c, ref) ==
  [gsm48_rr_est_req([c EXCEPT !.conn[ref] = "PEND"], ref)
     EXCEPT !.mm = "WAIT_RR_CONN_MM_CON",
            !.stray = IF c.rel_wait \/ c.t3210 THEN @ \cup {ref} ELSE @]

\* The CM SERVICE REQUEST goes out on the channel there is.
gsm48_mm_init_mm_more(c, ref) ==
  [gsm48_rr_data_req([c EXCEPT !.conn[ref] = "PEND"], ref)
     EXCEPT !.mm = "WAIT_ADD_OUT_MM_CON", !.t3230 = TRUE,
            !.stray = IF c.rr = "IDLE" \/ c.rel_wait \/ c.t3210 THEN @ \cup {ref} ELSE @]

\* Faulty variant: a request is served although another one is pending.
est_req_unguarded(c, ref) ==
  CASE c.mm = "IDLE" /\ c.sst = "NORMAL" -> gsm48_mm_init_mm_no_rr(c, ref)
    [] c.mm = "CONN_ACTIVE" -> gsm48_mm_init_mm_more(c, ref)
    [] OTHER -> gsm48_mm_init_mm_reject(c, ref)

\* EST_REQ of downstatelist.
MmEstReq(c, ref) ==
  CASE Pending(c) = {} /\ c.reg # None /\ c.mm = "IDLE" /\ c.sst = "NORMAL" ->
         gsm48_mm_init_mm_no_rr(c, ref)
    [] Pending(c) = {} /\ c.reg # None /\ c.mm = "CONN_ACTIVE" -> gsm48_mm_init_mm_more(c, ref)
    [] OTHER -> gsm48_mm_init_mm_reject(c, ref)

\* The CM SERVICE ABORT does not keep the network from an answer.
gsm48_mm_release_wait_active(c, ref) ==
  LET d == mm_conn_free(c, ref)
  IN  IF Connected(d) = {} THEN WaitNetworkCommand([d EXCEPT !.t3240 = TRUE]) ELSE d

\* REL_REQ of downstatelist.
MmRelReq(c, ref) ==
  CASE c.mm = "CONN_ACTIVE" -> ActiveOrWait(mm_conn_free(c, ref))
    [] c.mm = "WAIT_OUT_MM_CONN" -> gsm48_mm_release_wait_active(c, ref)
    [] c.mm \in {"WAIT_ADD_OUT_MM_CON", "WAIT_RR_CONN_MM_CON"} -> mm_conn_free(c, ref)
    [] OTHER -> c

-----------------------------------------------------------------------------
(* Messages of the network                                                  *)

\* The accepted connection is the pending one, whichever the network meant.
gsm48_mm_conn_go_dedic(c) ==
  IF Pending(c) = {} THEN c
  ELSE LET ref == CHOOSE r \in Pending(c) : TRUE
           d == [c EXCEPT !.conn[ref] = "DEDICATED"]
       IN  IF Sapi(ref) = 3 /\ ~c.sapi3_link THEN gsm48_rr_est_req_sapi3(d)
           ELSE gsm48_mmxx_upmsg(d, {ref}, "EST_CNF")

gsm48_mm_rx_cm_service_acc(c) ==
  gsm48_mm_conn_go_dedic([c EXCEPT !.t3230 = FALSE, !.mm = "CONN_ACTIVE"])

\* The registration is void, and the SIM with it if it is illegal.
Unregistered(c, illegal) == [c EXCEPT !.reg = None, !.sim = @ /\ ~illegal]

\* A phone the network does not know loses every connection.
gsm48_mm_rx_cm_service_rej(c, cause) ==
  LET unknown == cause \in {"CM_REJ_UNKNOWN", "CM_REJ_ILLEGAL"}
      d == gsm48_mm_release_mm_conn([c EXCEPT !.t3230 = FALSE],
                                    IF unknown THEN Connected(c) ELSE Pending(c), "REL_IND")
      e == IF unknown THEN Unregistered(d, cause = "CM_REJ_ILLEGAL") ELSE d
  IN  IF Connected(e) = {} THEN WaitNetworkCommand(e) ELSE [e EXCEPT !.mm = "CONN_ACTIVE"]

\* Faulty variant: the connections are freed without a message to their users.
rx_abort_silently(c, cause) == [c EXCEPT !.t3230 = FALSE, !.conn = [ref \in Refs |-> "NONE"]]

gsm48_mm_rx_abort(c, cause) ==
  LET d == gsm48_mm_release_mm_conn([c EXCEPT !.t3230 = FALSE], Connected(c), "REL_IND")
  IN  CASE Connected(c) = {} -> c
        [] Connected(c) # {} /\ cause = "ABORT_ILLEGAL" ->
             gsm48_mm_return_idle(Unregistered(d, TRUE))
        [] OTHER -> d

gsm48_mm_rx_auth_rej(c) == Unregistered([c EXCEPT !.t3212 = FALSE], TRUE)

\* The first message of a call makes its connection.
gsm48_mm_data_ind_setup(c, ref) ==
  LET left == c.rel_wait \/ c.t3210 \/ c.mm \in UpdateStates
      d == [c EXCEPT !.conn[ref] = "IDLE", !.stray = IF left THEN @ \cup {ref} ELSE @]
  IN  IF c.mm = "WAIT_NETWORK_CMD" THEN [d EXCEPT !.t3240 = FALSE, !.mm = "CONN_ACTIVE"] ELSE d

-----------------------------------------------------------------------------
(* Location updating                                                        *)


gsm48_mm_est_loc_upd(c) == [c EXCEPT !.t3210 = TRUE, !.mm = "LOC_UPD_INIT"]

gsm48_mm_rx_loc_upd_acc(c) ==
  WaitNetworkCommand([UpdateDone(c) EXCEPT !.t3212 = FALSE, !.t3210 = FALSE, !.t3240 = TRUE,
                                           !.reg = c.la, !.forb = @ \ {c.la}])

gsm48_mm_rx_loc_upd_rej(c, cause) ==
  [c EXCEPT !.t3212 = FALSE, !.t3210 = FALSE, !.t3240 = TRUE, !.rej = cause, !.mm = "LOC_UPD_REJ"]

\* Faulty variant: the retry timer is left to the release of the channel, which
\* the phone that is registered does not note.
loc_upd_failed_untimed(c) ==
  gsm48_mm_return_idle(
    IF c.reg = c.la THEN [c EXCEPT !.t3210 = FALSE]
                    ELSE [c EXCEPT !.t3210 = FALSE, !.reg = None, !.start_t3211 = TRUE])

\* A phone that is registered where it failed tries again after T3211; any other
\* is not registered any more, and T3211 starts when the channel is released.
gsm48_mm_loc_upd_failed(c) ==
  gsm48_mm_return_idle(
    IF c.reg = c.la THEN [c EXCEPT !.t3210 = FALSE, !.t3211 = TRUE]
                    ELSE [c EXCEPT !.t3210 = FALSE, !.reg = None, !.start_t3211 = TRUE])

gsm48_mm_rel_loc_upd_abort(c) == gsm48_mm_loc_upd_failed([c EXCEPT !.t3240 = FALSE])

\* Faulty variant: the area that refused the phone is not noted.
rel_loc_upd_rej_unnoted(c) ==
  LET d == [c EXCEPT !.t3240 = FALSE, !.plmn = c.rej # "LU_OTHER"]
  IN  CASE c.rej = "LU_ILLEGAL" -> gsm48_mm_return_idle(UpdateDone(Unregistered(d, TRUE)))
        [] c.rej \in {"LU_AREA", "LU_ROAMING"} ->
             gsm48_mm_return_idle(UpdateDone(Unregistered(d, FALSE)))
        [] OTHER -> gsm48_mm_loc_upd_failed(d)

gsm48_mm_rel_loc_upd_rej(c) ==
  LET d == [c EXCEPT !.t3240 = FALSE, !.plmn = c.rej # "LU_OTHER"]
  IN  CASE c.rej = "LU_ILLEGAL" -> gsm48_mm_return_idle(UpdateDone(Unregistered(d, TRUE)))
        [] c.rej \in {"LU_AREA", "LU_ROAMING"} ->
             gsm48_mm_return_idle(UpdateDone(Unregistered([d EXCEPT !.forb = @ \cup {c.la}], FALSE)))
        [] OTHER -> gsm48_mm_loc_upd_failed(d)

-----------------------------------------------------------------------------
(* Radio resources                                                          *)


\* A user that gave up meanwhile leaves a channel without a connection.
gsm48_mm_est_mm_con(c) ==
  IF Connected(c) = {} THEN WaitNetworkCommand([c EXCEPT !.t3240 = TRUE])
                       ELSE [c EXCEPT !.t3230 = TRUE, !.mm = "WAIT_OUT_MM_CONN"]

gsm48_mm_abort_mm_con(c) ==
  gsm48_mm_return_idle(
    gsm48_mm_release_mm_conn([c EXCEPT !.t3240 = FALSE, !.t3230 = FALSE],
                             Connected(c), "ERR_IND"))

gsm48_mm_rel_other(c) == gsm48_mm_return_idle([c EXCEPT !.t3240 = FALSE])

\* EST_IND and ABORT_IND of SAPI 3 are dropped.
gsm48_rcv_rr_sapi3(c, prim) ==
  CASE prim = "EST_CNF" ->
         gsm48_mmxx_upmsg([c EXCEPT !.sapi3_link = TRUE],
                          {ref \in Messages : c.conn[ref] = "DEDICATED"}, "EST_CNF")
    [] prim = "REL_IND" ->
         gsm48_mm_release_mm_conn([c EXCEPT !.sapi3_link = FALSE],
                                  Connected(c) \cap Messages, "REL_IND")
    [] OTHER -> c

gsm48_rcv_rr(c, prim) ==
  CASE prim = "EST_IND" -> IF c.mm = "IDLE" THEN WaitNetworkCommand(c) ELSE c
    [] prim = "EST_CNF" ->
         CASE c.mm = "WAIT_RR_CONN_MM_CON" -> gsm48_mm_est_mm_con(c)
           [] c.mm = "WAIT_RR_CONN_LUPD" -> gsm48_mm_est_loc_upd(c)
           [] OTHER -> c
    [] prim \in {"REL_IND", "ABORT_IND"} ->
         CASE c.mm \in {"WAIT_RR_CONN_LUPD", "LOC_UPD_INIT"} -> gsm48_mm_rel_loc_upd_abort(c)
           [] c.mm = "LOC_UPD_REJ" -> gsm48_mm_rel_loc_upd_rej(c)
           [] c.mm \in {"IDLE", "WAIT_NETWORK_CMD"} -> gsm48_mm_rel_other(c)
           [] OTHER -> gsm48_mm_abort_mm_con(c)
    [] prim = "CM_SERV_ACC" -> gsm48_mm_rx_cm_service_acc(c)
    [] prim \in CmRejections -> gsm48_mm_rx_cm_service_rej(c, prim)
    [] prim \in {"MM_ABORT", "ABORT_ILLEGAL"} -> gsm48_mm_rx_abort(c, prim)
    [] prim = "AUTH_REJ" -> gsm48_mm_rx_auth_rej(c)
    [] prim = "LU_ACC" -> IF c.mm = "LOC_UPD_INIT" THEN gsm48_mm_rx_loc_upd_acc(c) ELSE c
    [] prim \in LuRejections ->
         IF c.mm = "LOC_UPD_INIT" THEN gsm48_mm_rx_loc_upd_rej(c, prim) ELSE c
    [] OTHER -> IF prim \in Incoming THEN gsm48_mm_data_ind_setup(c, prim) ELSE c

-----------------------------------------------------------------------------
(* Events and timers                                                        *)

\* Faulty variant: a registration anywhere will do.
cell_selected_anywhere(c) ==
  CASE ~c.sim -> new_mm_state_idle(c, "NO_IMSI")
    [] c.sim /\ c.reg # None /\ ~c.periodic -> new_mm_state_idle(c, "NORMAL")
    [] c.sim /\ (c.reg = None \/ c.periodic) /\ c.la \in c.forb -> new_mm_state_idle(c, "LIMITED_SERVICE")
    [] OTHER -> new_mm_state_idle(c, "LOC_UPD_NEEDED")

gsm48_mm_cell_selected(c) ==
  LET registered == c.reg = c.la /\ ~c.periodic
  IN  CASE ~c.sim -> new_mm_state_idle(c, "NO_IMSI")
        [] c.sim /\ registered -> new_mm_state_idle(c, "NORMAL")
        [] c.sim /\ ~registered /\ c.la \in c.forb ->
             new_mm_state_idle(c, "LIMITED_SERVICE")
        [] OTHER -> new_mm_state_idle(c, "LOC_UPD_NEEDED")

\* Faulty variant: cell selection is listened to in MM IDLE only.
event_idle_only(c, event) ==
  CASE c.mm # "IDLE" \/ event # "CELL_SELECTED" -> c
    [] c.sst \in Serving -> gsm48_mm_loc_upd_normal(c)
    [] OTHER -> gsm48_mm_cell_selected(c)

gsm48_mm_event(c, event) ==
  CASE event = "CELL_SELECTED" /\ c.mm # "IDLE" -> gsm48_mm_return_idle(c)
    [] event = "CELL_SELECTED" /\ c.mm = "IDLE" /\ c.sst \in Serving -> gsm48_mm_loc_upd_normal(c)
    [] event = "CELL_SELECTED" /\ c.mm = "IDLE" /\ c.sst \in {"PLMN_SEARCH", "NO_CELL"} ->
         gsm48_mm_cell_selected(c)
    [] event = "NO_CELL_FOUND" /\ (c.mm # "IDLE" \/ c.sst = "PLMN_SEARCH") ->
         new_mm_state_idle(c, "NO_CELL")
    [] event = "LOST_COVERAGE" /\ c.mm = "IDLE" /\ c.sst \in Serving ->
         new_mm_state_idle(c, "PLMN_SEARCH")
    [] OTHER -> c

gsm48_mm_timeout_mm_con(c) ==
  ActiveOrWait(gsm48_mm_release_mm_conn(c, Pending(c), "REL_IND"))

timeout_mm_t3230(c) ==
  LET d == [c EXCEPT !.t3230 = FALSE]
  IN  IF c.mm \in {"WAIT_OUT_MM_CONN", "WAIT_ADD_OUT_MM_CON"} THEN gsm48_mm_timeout_mm_con(d) ELSE d

gsm48_mm_abort_rr(c) == gsm48_mm_return_idle(gsm48_rr_abort_req(c))

timeout_mm_t3240(c) ==
  LET d == [c EXCEPT !.t3240 = FALSE]
  IN  IF c.mm \in {"WAIT_NETWORK_CMD", "LOC_UPD_REJ"} THEN gsm48_mm_abort_rr(d) ELSE d

\* The channel is given up, and the update fails.
timeout_mm_t3210(c) ==
  LET d == [c EXCEPT !.t3210 = FALSE]
  IN  IF c.mm = "IDLE" THEN d ELSE gsm48_mm_loc_upd_failed(gsm48_rr_abort_req(d))

\* The update is tried again, or later in MM IDLE; in any other state the expiry
\* is not handled.
timeout_mm_t3211(c) ==
  LET d == [c EXCEPT !.t3211 = FALSE]
  IN  CASE c.mm # "IDLE" -> [d EXCEPT !.lost = @ \/ c.pending]
        [] c.mm = "IDLE" /\ c.sst \in {"NORMAL", "ATTEMPT_UPDATE"} -> gsm48_mm_loc_upd(d)
        [] OTHER -> [d EXCEPT !.retry = TRUE]

timeout_mm_t3212(c) ==
  LET d == [c EXCEPT !.t3212 = FALSE]
  IN  CASE c.mm = "IDLE" /\ c.sst \in {"NORMAL", "ATTEMPT_UPDATE"} -> gsm48_mm_loc_upd_periodic(d)
        [] c.mm = "IDLE" /\ c.sst \in {"LIMITED_SERVICE", "PLMN_SEARCH", "NO_CELL"} ->
             [d EXCEPT !.periodic = TRUE]
        [] OTHER -> d
=============================================================================
