------------------------------ MODULE MmProofs ------------------------------
(***************************************************************************)
(* Proofs about MmConn, for any calls, messages, areas and networks: its   *)
(* type invariant, with the one pending connection that mm_conn relies on, *)
(* that the phone claims normal service only where it is registered, that  *)
(* cell selection stays in connected mode while a channel is used, that    *)
(* mobility management and radio resources agree about the channel, and    *)
(* that mobility management and its users agree about the connections.     *)
(*                                                                         *)
(* Every handler preserves what is proved of the phone, in whatever state  *)
(* it finds it.  The proof has a lemma per operator of Gsm48Rr and         *)
(* Gsm48Mm, in the order in which they call each other, and a step per     *)
(* action.                                                                 *)
(***************************************************************************)
EXTENDS MmConn, TLAPS

\* The set Phone, field by field: what the provers can follow through EXCEPT.
Fields ==
  {"rr", "est_req", "est_msg", "s3", "t3110", "t3122", "rel_wait", "access", "lupd", "dl",
   "dl3", "sabm", "net", "cs", "la", "rslq", "rrq", "mmxx", "ev", "mm", "sst", "conn",
   "sapi3_link", "t3210", "t3211", "t3212", "t3230", "t3240", "sim", "pending", "retry",
   "periodic", "start_t3211", "plmn", "lost", "reg", "forb", "rej", "stray"}

IsFcn(d) == d = [f \in DOMAIN d |-> d[f]]
Typed(d) ==
  /\ DOMAIN d = Fields
  /\ d.rr \in {"IDLE", "CONN_PEND", "DEDICATED", "REL_PEND"}
  /\ d.est_msg \in Refs \cup {None, Lupd}
  /\ d.s3 \in {"IDLE", "WAIT_EST", "ESTAB"}
  /\ d.dl \in {"IDLE", "SABM_SENT", "EST", "DISC_SENT"}
  /\ d.dl3 \in {"IDLE", "SABM_SENT", "EST"}
  /\ d.sabm \in Refs \cup {None, Lupd}
  /\ d.net \in SUBSET (Refs \cup {Lupd})
  /\ d.cs \in {"CAMPED", "ANY", "CONNECTED", "CHOOSING", "NO_CELL"}
  /\ d.la \in Areas
  /\ d.rslq \in Seq([prim : RslPrims, sapi : {0, 3}])
  /\ d.rrq \in Seq([prim : RrPrims, sapi : {0, 3}])
  /\ d.mmxx \in [Refs -> Seq({"EST_CNF", "REL_IND", "ERR_IND"})]
  /\ d.ev \in Seq({"CELL_SELECTED", "NO_CELL_FOUND", "LOST_COVERAGE"})
  /\ d.mm \in {"IDLE", "WAIT_NETWORK_CMD", "WAIT_RR_CONN_MM_CON", "WAIT_OUT_MM_CONN",
              "CONN_ACTIVE", "WAIT_ADD_OUT_MM_CON"} \cup UpdateStates
  /\ d.sst \in Serving \cup {"PLMN_SEARCH", "NO_CELL", "NO_IMSI"}
  /\ d.conn \in [Refs -> {"NONE", "IDLE", "PEND", "DEDICATED"}]
  /\ d.reg \in Areas \cup {None}
  /\ d.forb \in SUBSET Areas
  /\ d.rej \in LuRejections \cup {None}
  /\ d.stray \in SUBSET Refs
  /\ {d.est_req, d.t3110, d.t3122, d.rel_wait, d.access, d.lupd, d.sapi3_link, d.t3210,
      d.t3211, d.t3212, d.t3230, d.t3240, d.sim, d.pending, d.retry, d.periodic,
      d.start_t3211, d.plmn, d.lost} \subseteq BOOLEAN

\* A cell that was selected is reported: the last event under way tells of it.
CellReported(d) == d.cs = "CAMPED" /\ d.ev # <<>> => d.ev[Len(d.ev)] = "CELL_SELECTED"

\* A phone that claims normal service and has no event under way is registered
\* where it camps, or about to be.
ServiceKept(d) ==
  d.mm = "IDLE" /\ d.sst = "NORMAL" /\ d.cs = "CAMPED" /\ d.ev = <<>> =>
    d.reg = d.la \/ d.pending

OnePending(d) == \A r1, r2 \in Pending(d) : r1 = r2

\* What a handler of mobility management may find in the middle of a change of
\* state, and what every handler leaves.
Good(d) == IsFcn(d) /\ Typed(d) /\ OnePending(d) /\ CellReported(d)
Kept(d) == Good(d) /\ ServiceKept(d)

\* A phone with the same service and the same connections.
Same(e, d) ==
  /\ d.cs = e.cs /\ d.ev = e.ev /\ d.conn = e.conn /\ d.mm = e.mm /\ d.sst = e.sst
  /\ d.reg = e.reg /\ d.la = e.la /\ d.pending = e.pending /\ d.sim = e.sim

LEMMA GoodPhone ==
  ASSUME NEW e, Good(e)
  PROVE  e \in Phone
BY DEF Good, IsFcn, Typed, Fields, Phone

LEMMA SameKept ==
  ASSUME NEW e, Kept(e), NEW d, IsFcn(d), Typed(d), Same(e, d)
  PROVE  Kept(d)
BY DEF Same, Kept, Good, OnePending, Pending, CellReported, ServiceKept

LEMMA SameGood ==
  ASSUME NEW e, Good(e), NEW d, IsFcn(d), Typed(d), Same(e, d)
  PROVE  Good(d)
BY DEF Same, Good, OnePending, Pending, CellReported

\* A phone that is not idle, or does not camp normally, claims nothing.
LEMMA BusyKept ==
  ASSUME NEW e, Good(e), NEW d, IsFcn(d), Typed(d), d.cs = e.cs, d.ev = e.ev,
         Pending(d) \subseteq Pending(e), d.mm # "IDLE"
  PROVE  Kept(d)
BY DEF Kept, Good, OnePending, CellReported, ServiceKept

LEMMA AwayKept ==
  ASSUME NEW e, Good(e), NEW d, IsFcn(d), Typed(d), d.conn = e.conn, d.cs # "CAMPED"
  PROVE  Kept(d)
BY DEF Kept, Good, OnePending, Pending, CellReported, ServiceKept

-----------------------------------------------------------------------------
(* Radio resources                                                          *)

LEMMA RslUpKept ==
  ASSUME NEW e, Kept(e), NEW p \in RslPrims, NEW s \in {0, 3}
  PROVE  Kept(RslUp(e, p, s))
<1>1. IsFcn(RslUp(e, p, s))
  BY Zenon DEF RslUp, IsFcn
<1>2. Append(e.rslq, [prim |-> p, sapi |-> s]) \in Seq([prim : RslPrims, sapi : {0, 3}])
  BY DEF Kept, Good, Typed
<1>3. Typed(RslUp(e, p, s)) /\ Same(e, RslUp(e, p, s))
  BY <1>2 DEF Kept, Good, Typed, Fields, RslUp, Same
<1> QED BY <1>1, <1>3, SameKept

LEMMA UpmsgKept ==
  ASSUME NEW e, Kept(e), NEW p \in RrPrims, NEW s \in {0, 3}
  PROVE  Kept(gsm48_rr_upmsg(e, p, s))
<1>1. IsFcn(gsm48_rr_upmsg(e, p, s))
  BY Zenon DEF gsm48_rr_upmsg, IsFcn
<1>2. Append(e.rrq, [prim |-> p, sapi |-> s]) \in Seq([prim : RrPrims, sapi : {0, 3}])
  BY DEF Kept, Good, Typed
<1>3. Typed(gsm48_rr_upmsg(e, p, s)) /\ Same(e, gsm48_rr_upmsg(e, p, s))
  BY <1>2 DEF Kept, Good, Typed, Fields, gsm48_rr_upmsg, Same
<1> QED BY <1>1, <1>3, SameKept

LEMMA LinkDownKept ==
  ASSUME NEW e, Kept(e)
  PROVE  Kept(LinkDown(e))
<1>1. IsFcn(LinkDown(e))
  BY Zenon DEF LinkDown, IsFcn
<1>2. Typed(LinkDown(e)) /\ Same(e, LinkDown(e))
  BY DEF Kept, Good, Typed, Fields, LinkDown, Same
<1> QED BY <1>1, <1>2, SameKept

LEMMA DlEstReqKept ==
  ASSUME NEW e, Kept(e)
  PROVE  Kept(DlEstReq(e))
<1>1. IsFcn(DlEstReq(e))
  BY Zenon DEF DlEstReq, IsFcn
<1>2. Typed(DlEstReq(e)) /\ Same(e, DlEstReq(e))
  BY DEF Kept, Good, Typed, Fields, DlEstReq, Same
<1> QED BY <1>1, <1>2, SameKept

LEMMA DlRelReqKept ==
  ASSUME NEW e, Kept(e), NEW local
  PROVE  Kept(DlRelReq(e, local))
<1> DEFINE d == [e EXCEPT !.dl = "DISC_SENT"]
<1>1. IsFcn(d)
  BY Zenon DEF IsFcn
<1>2. Typed(d) /\ Same(e, d)
  BY DEF Kept, Good, Typed, Fields, Same
<1>3. Kept(RslUp(LinkDown(e), "REL_CONF", 0))
  BY LinkDownKept, RslUpKept DEF RslPrims
<1> QED BY <1>1, <1>2, <1>3, SameKept DEF DlRelReq

LEMMA RetIdleKept ==
  ASSUME NEW e, Kept(e)
  PROVE  Kept(RetIdle(e))
<1>1. CASE e.cs = "CONNECTED" /\ e.lupd
  <2> DEFINE d == [e EXCEPT !.cs = "CAMPED", !.ev = Append(@, "CELL_SELECTED")]
  <2>1. IsFcn(d)
    BY Zenon DEF IsFcn
  <2>2. /\ e.ev \in Seq({"CELL_SELECTED", "NO_CELL_FOUND", "LOST_COVERAGE"})
        /\ Append(e.ev, "CELL_SELECTED") \in Seq({"CELL_SELECTED", "NO_CELL_FOUND", "LOST_COVERAGE"})
    BY DEF Kept, Good, Typed
  <2>3. Typed(d) /\ d.conn = e.conn /\ d.ev = Append(e.ev, "CELL_SELECTED")
    BY <2>2 DEF Kept, Good, Typed, Fields
  <2> HIDE DEF d
  <2>4. d.ev # <<>> /\ d.ev[Len(d.ev)] = "CELL_SELECTED"
    BY <2>2, <2>3
  <2>5. Kept(d)
    BY <2>1, <2>3, <2>4 DEF Kept, Good, OnePending, Pending, CellReported, ServiceKept
  <2> QED BY <1>1, <2>5 DEF RetIdle, d
<1>2. CASE e.cs = "CONNECTED" /\ ~e.lupd
  <2> DEFINE d == [e EXCEPT !.cs = "CHOOSING"]
  <2>1. IsFcn(d)
    BY Zenon DEF IsFcn
  <2>2. Typed(d) /\ d.conn = e.conn /\ d.cs = "CHOOSING"
    BY DEF Kept, Good, Typed, Fields
  <2> QED BY <1>2, <2>1, <2>2, AwayKept DEF RetIdle, Kept
<1>3. CASE e.cs # "CONNECTED"
  BY <1>3 DEF RetIdle
<1> QED BY <1>1, <1>2, <1>3

RrStates == {"IDLE", "CONN_PEND", "DEDICATED", "REL_PEND"}

LEMMA NewRrStateKept ==
  ASSUME NEW e, Kept(e), NEW state \in RrStates
  PROVE  Kept(new_rr_state(e, state))
<1> DEFINE d == [e EXCEPT !.rr = state]
           g == [e EXCEPT !.rr = "IDLE", !.est_req = FALSE, !.est_msg = None]
<1>1. IsFcn(d) /\ IsFcn(g)
  BY Zenon DEF IsFcn
<1>2. Typed(d) /\ Same(e, d) /\ Typed(g) /\ Same(e, g)
  BY DEF Kept, Good, Typed, Fields, Same, RrStates
<1>3. Kept(d) /\ Kept(RetIdle(g))
  BY <1>1, <1>2, SameKept, RetIdleKept
<1> QED BY <1>3 DEF new_rr_state

LEMMA ReleaseSapi3Kept ==
  ASSUME NEW e, Kept(e)
  PROVE  Kept(gsm48_release_sapi3_link(e))
<1> DEFINE d == [e EXCEPT !.s3 = "IDLE", !.dl3 = "IDLE"]
<1>1. IsFcn(d)
  BY Zenon DEF IsFcn
<1>2. Typed(d) /\ Same(e, d)
  BY DEF Kept, Good, Typed, Fields, Same
<1>3. Kept(gsm48_rr_upmsg(d, "REL_IND", 3))
  BY <1>1, <1>2, SameKept, UpmsgKept DEF RrPrims
<1> QED BY <1>3 DEF gsm48_release_sapi3_link

LEMMA ChanReqKept ==
  ASSUME NEW e, Kept(e), NEW lupd \in BOOLEAN
  PROVE  Kept(gsm48_rr_chan_req(e, lupd))
<1> DEFINE n == new_rr_state(e, "CONN_PEND")
           d == [n EXCEPT !.cs = "CONNECTED", !.access = TRUE, !.lupd = lupd]
<1>1. Kept(n)
  BY NewRrStateKept DEF RrStates
<1> HIDE DEF n
<1>2. IsFcn(d)
  BY Zenon DEF IsFcn
<1>3. Typed(d) /\ d.conn = n.conn /\ d.cs = "CONNECTED"
  BY SMTT(40), <1>1 DEF Kept, Good, Typed, Fields
<1>4. Kept(d)
  BY <1>1, <1>2, <1>3, AwayKept DEF Kept
<1> QED BY <1>4 DEF gsm48_rr_chan_req, n

LEMMA EstReqKept ==
  ASSUME NEW e, Kept(e), NEW req \in Refs \cup {Lupd}
  PROVE  Kept(gsm48_rr_est_req(e, req))
<1> DEFINE d == [e EXCEPT !.est_req = TRUE, !.est_msg = req]
<1>1. IsFcn(d)
  BY Zenon DEF IsFcn
<1>2. Typed(d) /\ Same(e, d)
  BY DEF Kept, Good, Typed, Fields, Same
<1>3. Kept(gsm48_rr_chan_req(d, req = Lupd))
  BY <1>1, <1>2, SameKept, ChanReqKept
<1>4. Kept(gsm48_rr_upmsg(e, "REL_IND", 0))
  BY UpmsgKept DEF RrPrims
<1> QED BY <1>3, <1>4 DEF gsm48_rr_est_req

LEMMA DataReqKept ==
  ASSUME NEW e, Kept(e), NEW ref \in Refs
  PROVE  Kept(gsm48_rr_data_req(e, ref))
<1> DEFINE d == [e EXCEPT !.net = @ \cup {ref}]
<1>1. IsFcn(d)
  BY Zenon DEF IsFcn
<1>2. Typed(d) /\ Same(e, d)
  BY DEF Kept, Good, Typed, Fields, Same
<1> QED BY <1>1, <1>2, SameKept DEF gsm48_rr_data_req

LEMMA AbortReqKept ==
  ASSUME NEW e, Kept(e)
  PROVE  Kept(gsm48_rr_abort_req(e))
<1> DEFINE d == [e EXCEPT !.access = FALSE]
<1>1. IsFcn(d)
  BY Zenon DEF IsFcn
<1>2. Typed(d) /\ Same(e, d)
  BY DEF Kept, Good, Typed, Fields, Same
<1>3. Kept(new_rr_state(d, "IDLE"))
  BY <1>1, <1>2, SameKept, NewRrStateKept DEF RrStates
<1>4. Kept(gsm48_release_sapi3_link(DlRelReq(new_rr_state(e, "REL_PEND"), FALSE)))
  BY NewRrStateKept, DlRelReqKept, ReleaseSapi3Kept DEF RrStates
<1> QED BY <1>3, <1>4 DEF gsm48_rr_abort_req

LEMMA EstReqSapi3Kept ==
  ASSUME NEW e, Kept(e)
  PROVE  Kept(gsm48_rr_est_req_sapi3(e))
<1> DEFINE d == [e EXCEPT !.s3 = "WAIT_EST", !.dl3 = IF @ = "IDLE" THEN "SABM_SENT" ELSE @]
<1>1. IsFcn(d)
  BY Zenon DEF IsFcn
<1>2. Typed(d) /\ Same(e, d)
  BY DEF Kept, Good, Typed, Fields, Same
<1>3. Kept(gsm48_rr_upmsg(e, "EST_CNF", 3)) /\ Kept(gsm48_rr_upmsg(e, "REL_IND", 3))
  BY UpmsgKept DEF RrPrims
<1> QED BY <1>1, <1>2, <1>3, SameKept DEF gsm48_rr_est_req_sapi3

LEMMA ImmAssKept ==
  ASSUME NEW e, Kept(e)
  PROVE  Kept(gsm48_rr_rx_imm_ass(e)) /\ Kept(gsm48_rr_rx_imm_ass_rej(e))
<1> DEFINE d == [e EXCEPT !.access = FALSE]
           g == [e EXCEPT !.t3122 = TRUE]
<1>1. IsFcn(d) /\ IsFcn(g)
  BY Zenon DEF IsFcn
<1>2. Typed(d) /\ Same(e, d) /\ Typed(g) /\ Same(e, g)
  BY DEF Kept, Good, Typed, Fields, Same
<1>3. Kept(DlEstReq(d)) /\ Kept(g)
  BY <1>1, <1>2, SameKept, DlEstReqKept
<1> QED BY <1>3 DEF gsm48_rr_rx_imm_ass, gsm48_rr_rx_imm_ass_rej, gsm48_rr_dl_est

LEMMA EstabCnfKept ==
  ASSUME NEW e, Kept(e)
  PROVE  Kept(gsm48_rr_estab_cnf(e))
<1>1. Kept(DlRelReq(e, FALSE))
  BY DlRelReqKept
<1>2. \A p \in {"EST_CNF", "EST_IND"} : Kept(gsm48_rr_upmsg(new_rr_state(e, "DEDICATED"), p, 0))
  BY NewRrStateKept, UpmsgKept DEF RrStates, RrPrims
<1> QED BY <1>1, <1>2 DEF gsm48_rr_estab_cnf

LEMMA RelIndKept ==
  ASSUME NEW e, Kept(e)
  PROVE  Kept(gsm48_rr_rel_ind(e))
<1> DEFINE told == gsm48_rr_upmsg(e, "REL_IND", 0)
           d == [told EXCEPT !.rel_wait = TRUE]
<1>1. Kept(told)
  BY UpmsgKept DEF RrPrims
<1> HIDE DEF told
<1>2. IsFcn(d)
  BY Zenon DEF IsFcn
<1>3. Typed(d) /\ Same(told, d)
  BY SMTT(40), <1>1 DEF Kept, Good, Typed, Fields, Same
<1>4. Kept(gsm48_release_sapi3_link(new_rr_state(d, "REL_PEND")))
  BY <1>1, <1>2, <1>3, SameKept, NewRrStateKept, ReleaseSapi3Kept DEF RrStates
<1> QED BY <1>4 DEF gsm48_rr_rel_ind, told

LEMMA RelCnfKept ==
  ASSUME NEW e, Kept(e)
  PROVE  Kept(gsm48_rr_rel_cnf(e))
<1> DEFINE d == [e EXCEPT !.t3110 = FALSE]
<1>1. IsFcn(d)
  BY Zenon DEF IsFcn
<1>2. Typed(d) /\ Same(e, d)
  BY DEF Kept, Good, Typed, Fields, Same
<1>3. Kept(d)
  BY <1>1, <1>2, SameKept
<1> HIDE DEF d
<1>4. Kept(new_rr_state(gsm48_rr_upmsg(d, "REL_IND", 0), "IDLE"))
  BY <1>3, UpmsgKept, NewRrStateKept DEF RrStates, RrPrims
<1> QED BY <1>4 DEF gsm48_rr_rel_cnf, d

LEMMA MdlErrorKept ==
  ASSUME NEW e, Kept(e)
  PROVE  Kept(gsm48_rr_mdl_error_ind(e)) /\ Kept(gsm48_rr_mdl_error_ind_sapi3(e))
<1> DEFINE d == [e EXCEPT !.s3 = "IDLE", !.dl3 = "IDLE"]
<1>1. IsFcn(d)
  BY Zenon DEF IsFcn
<1>2. Typed(d) /\ Same(e, d)
  BY DEF Kept, Good, Typed, Fields, Same
<1>3. Kept(gsm48_rr_upmsg(d, "ABORT_IND", 3))
  BY <1>1, <1>2, SameKept, UpmsgKept DEF RrPrims
<1>4. Kept(gsm48_rr_upmsg(DlRelReq(e, TRUE), "ABORT_IND", 0))
  BY DlRelReqKept, UpmsgKept DEF RrPrims
<1>5. Kept(gsm48_release_sapi3_link(
             new_rr_state(gsm48_rr_upmsg(DlRelReq(e, TRUE), "ABORT_IND", 0), "IDLE")))
  BY <1>4, NewRrStateKept, ReleaseSapi3Kept DEF RrStates
<1> QED BY <1>3, <1>5 DEF gsm48_rr_mdl_error_ind, gsm48_rr_mdl_error_ind_sapi3

LEMMA ChanRelKept ==
  ASSUME NEW e, Kept(e)
  PROVE  Kept(gsm48_rr_rx_chan_rel(e))
<1> DEFINE n == new_rr_state(e, "REL_PEND")
           d == [n EXCEPT !.t3110 = TRUE]
<1>1. Kept(n)
  BY NewRrStateKept DEF RrStates
<1> HIDE DEF n
<1>2. IsFcn(d)
  BY Zenon DEF IsFcn
<1>3. Typed(d) /\ Same(n, d)
  BY SMTT(40), <1>1 DEF Kept, Good, Typed, Fields, Same
<1>4. Kept(gsm48_release_sapi3_link(DlRelReq(d, FALSE)))
  BY <1>1, <1>2, <1>3, SameKept, DlRelReqKept, ReleaseSapi3Kept
<1> QED BY <1>4 DEF gsm48_rr_rx_chan_rel, n

LEMMA DataIndKept ==
  ASSUME NEW e, Kept(e), NEW p \in RrPrims
  PROVE  Kept(gsm48_rr_data_ind(e, p))
BY UpmsgKept DEF gsm48_rr_data_ind

LEMMA Sapi3Kept ==
  ASSUME NEW e, Kept(e)
  PROVE  /\ Kept(gsm48_rr_estab_cnf_sapi3(e))
         /\ Kept(gsm48_rr_estab_ind_sapi3(e))
         /\ Kept(gsm48_rr_rel_ind_sapi3(e))
<1> DEFINE d == [e EXCEPT !.s3 = "ESTAB"]
           g == [e EXCEPT !.s3 = "IDLE"]
<1>1. IsFcn(d) /\ IsFcn(g)
  BY Zenon DEF IsFcn
<1>2. Typed(d) /\ Same(e, d) /\ Typed(g) /\ Same(e, g)
  BY DEF Kept, Good, Typed, Fields, Same
<1>3. Kept(d) /\ Kept(g)
  BY <1>1, <1>2, SameKept
<1>4. Kept(gsm48_rr_upmsg(d, "EST_CNF", 3)) /\ Kept(gsm48_rr_upmsg(d, "EST_IND", 3))
      /\ Kept(gsm48_rr_upmsg(g, "REL_IND", 3))
  BY <1>3, UpmsgKept DEF RrPrims
<1> QED BY <1>4, ReleaseSapi3Kept
        DEF gsm48_rr_estab_cnf_sapi3, gsm48_rr_estab_ind_sapi3, gsm48_rr_rel_ind_sapi3

\* Timers, and loss of signal.
LEMMA RrTimersKept ==
  ASSUME NEW e, Kept(e)
  PROVE  Kept(timeout_rr_t3126(e)) /\ Kept(timeout_rr_t3110(e)) /\ Kept(timeout_rr_t_rel_wait(e))
<1>1. Kept(timeout_rr_t3126(e))
  <2> DEFINE told == IF e.est_req THEN gsm48_rr_upmsg(e, "REL_IND", 0) ELSE e
             d == [told EXCEPT !.access = FALSE]
  <2>1. Kept(told)
    BY UpmsgKept DEF RrPrims
  <2> HIDE DEF told
  <2>2. IsFcn(d)
    BY Zenon DEF IsFcn
  <2>3. Typed(d) /\ Same(told, d)
    BY SMTT(40), <2>1 DEF Kept, Good, Typed, Fields, Same
  <2>4. Kept(new_rr_state(d, "IDLE"))
    BY <2>1, <2>2, <2>3, SameKept, NewRrStateKept DEF RrStates
  <2> QED BY <2>4 DEF timeout_rr_t3126, told
<1>2. Kept(timeout_rr_t3110(e)) /\ Kept(timeout_rr_t_rel_wait(e))
  <2> DEFINE d == [e EXCEPT !.t3110 = FALSE]
             g == [e EXCEPT !.rel_wait = FALSE]
  <2>1. IsFcn(d) /\ IsFcn(g)
    BY Zenon DEF IsFcn
  <2>2. Typed(d) /\ Same(e, d) /\ Typed(g) /\ Same(e, g)
    BY DEF Kept, Good, Typed, Fields, Same
  <2>3. Kept(d) /\ Kept(g)
    BY <2>1, <2>2, SameKept
  <2>4. Kept(gsm48_release_sapi3_link(DlRelReq(new_rr_state(d, "REL_PEND"), TRUE)))
    BY <2>3, NewRrStateKept, DlRelReqKept, ReleaseSapi3Kept DEF RrStates
  <2>5. Kept(new_rr_state(g, "IDLE"))
    BY <2>3, NewRrStateKept DEF RrStates
  <2> QED BY <2>4, <2>5 DEF timeout_rr_t3110, timeout_rr_t_rel_wait
<1> QED BY <1>1, <1>2

LEMMA LossKept ==
  ASSUME NEW e, Kept(e)
  PROVE  Kept(gsm48_rr_los(e))
<1> DEFINE d == [e EXCEPT !.t3110 = FALSE]
           g == [d EXCEPT !.access = FALSE]
<1>1. IsFcn(d) /\ IsFcn(g)
  BY Zenon DEF IsFcn
<1>2. Typed(d) /\ Same(e, d) /\ Typed(g) /\ Same(e, g)
  BY DEF Kept, Good, Typed, Fields, Same
<1>3. Kept(d) /\ Kept(g)
  BY <1>1, <1>2, SameKept
<1>4. Kept(new_rr_state(gsm48_rr_upmsg(g, "REL_IND", 0), "IDLE"))
  BY <1>3, UpmsgKept, NewRrStateKept DEF RrStates, RrPrims
<1>5. Kept(gsm48_release_sapi3_link(DlRelReq(new_rr_state(d, "REL_PEND"), TRUE)))
  BY <1>3, NewRrStateKept, DlRelReqKept, ReleaseSapi3Kept DEF RrStates
<1> QED BY <1>3, <1>4, <1>5 DEF gsm48_rr_los

-----------------------------------------------------------------------------
(* Returning to idle, and location updates                                  *)

\* What the next of the nested calls is to do.
Settles(locUpd) == \A e : Good(e) => Kept(locUpd[e])

SubStates == Serving \cup {"PLMN_SEARCH", "NO_CELL", "NO_IMSI"}

LEMMA PendingGood ==
  ASSUME NEW e, Good(e), NEW p \in BOOLEAN
  PROVE  Good([e EXCEPT !.pending = p])
<1> DEFINE d == [e EXCEPT !.pending = p]
<1>1. IsFcn(d)
  BY Zenon DEF IsFcn
<1>2. /\ Typed(d)
      /\ d.cs = e.cs /\ d.ev = e.ev /\ d.conn = e.conn
  BY DEF Good, Typed, Fields
<1> QED BY <1>1, <1>2 DEF Good, OnePending, Pending, CellReported

LEMMA UpdateDoneGood ==
  ASSUME NEW e, Good(e)
  PROVE  /\ Good(UpdateDone(e))
         /\ UpdateDone(e).cs = e.cs /\ UpdateDone(e).mm = e.mm
<1>1. IsFcn(UpdateDone(e))
  BY Zenon DEF IsFcn, UpdateDone
<1>2. /\ Typed(UpdateDone(e))
      /\ UpdateDone(e).cs = e.cs /\ UpdateDone(e).ev = e.ev
      /\ UpdateDone(e).conn = e.conn /\ UpdateDone(e).mm = e.mm
  BY DEF Good, Typed, Fields, UpdateDone
<1> QED BY <1>1, <1>2 DEF Good, OnePending, Pending, CellReported

LEMMA LocUpdPeriodicKept ==
  ASSUME NEW e, Kept(e), NEW locUpd, Settles(locUpd)
  PROVE  Kept(LocUpdPeriodic(e, locUpd))
BY PendingGood DEF LocUpdPeriodic, Settles, Kept

\* Normal service is entered where the phone is registered.
LEMMA EnterIdleKept ==
  ASSUME NEW e, Good(e), NEW sst \in SubStates, sst = "NORMAL" => e.reg = e.la,
         NEW locUpd, Settles(locUpd)
  PROVE  Kept(EnterIdle(e, sst, locUpd))
<1> DEFINE updating == sst \in {"NORMAL", "ATTEMPT_UPDATE"}
           d == [e EXCEPT !.mm = "IDLE", !.sst = sst, !.rej = None,
                          !.t3212 = @ \/ (Periodic /\ updating)]
           r == [d EXCEPT !.retry = FALSE]
           p == [d EXCEPT !.periodic = FALSE]
<1>1. IsFcn(d) /\ IsFcn(r) /\ IsFcn(p)
  BY Zenon DEF IsFcn
<1>2. /\ Typed(d)
      /\ d.sst = sst /\ d.cs = e.cs /\ d.ev = e.ev /\ d.conn = e.conn
      /\ d.reg = e.reg /\ d.la = e.la
  BY RefAssumption DEF Good, Typed, Fields, SubStates
<1>3. EnterIdle(e, sst, locUpd) \in {locUpd[r], LocUpdPeriodic(p, locUpd), d}
  BY DEF EnterIdle
<1> HIDE DEF d
<1>4. Kept(d)
  BY <1>1, <1>2 DEF Kept, Good, OnePending, Pending, CellReported, ServiceKept
<1>5. Typed(r) /\ Same(d, r) /\ Typed(p) /\ Same(d, p)
  BY <1>2 DEF Typed, Fields, Same
<1>6. Kept(r) /\ Kept(p)
  BY <1>1, <1>4, <1>5, SameKept
<1> QED BY <1>3, <1>4, <1>6, LocUpdPeriodicKept DEF Settles, Kept

LEMMA LocUpdNormalKept ==
  ASSUME NEW e, Good(e), NEW locUpd, Settles(locUpd)
  PROVE  Kept(LocUpdNormal(e, locUpd))
<1>1. CASE e.pending
  BY <1>1 DEF LocUpdNormal, Kept, ServiceKept
<1>2. CASE ~e.pending /\ e.cs # "CAMPED"
  BY <1>2 DEF LocUpdNormal, Kept, ServiceKept
<1>3. CASE ~e.pending /\ e.cs = "CAMPED" /\ e.reg = e.la
  BY <1>3, EnterIdleKept DEF LocUpdNormal, SubStates, Serving
<1>4. CASE ~e.pending /\ e.cs = "CAMPED" /\ e.reg # e.la
  BY <1>4, PendingGood DEF LocUpdNormal, Settles
<1> QED BY <1>1, <1>2, <1>3, <1>4

LEMMA NewStateIdleKept ==
  ASSUME NEW e, Good(e), NEW sst \in SubStates \cup {"LOC_UPD_NEEDED"},
         sst = "NORMAL" => e.reg = e.la, NEW locUpd, Settles(locUpd)
  PROVE  Kept(NewStateIdle(e, sst, locUpd))
<1>1. CASE sst = "LOC_UPD_NEEDED"
  <2>1. Good(EnterIdle(e, "ATTEMPT_UPDATE", locUpd))
    BY EnterIdleKept DEF SubStates, Serving, Kept
  <2> QED BY <1>1, <2>1, LocUpdNormalKept DEF NewStateIdle
<1>2. CASE sst # "LOC_UPD_NEEDED"
  BY <1>2, EnterIdleKept DEF NewStateIdle
<1> QED BY <1>1, <1>2

LEMMA ReturnIdleKept ==
  ASSUME NEW e, Good(e), NEW locUpd, Settles(locUpd)
  PROVE  Kept(ReturnIdle(e, locUpd))
<1> DEFINE d == [e EXCEPT !.t3211 = @ \/ e.start_t3211, !.start_t3211 = FALSE]
           n == [d EXCEPT !.t3212 = FALSE]
<1>1. CASE e.cs \notin {"CAMPED", "ANY"}
  BY <1>1 DEF ReturnIdle, Kept, ServiceKept
<1>2. CASE e.cs \in {"CAMPED", "ANY"}
  <2>1. IsFcn(d) /\ IsFcn(n)
    BY Zenon DEF IsFcn
  <2>2. Typed(d) /\ Same(e, d) /\ Typed(n) /\ Same(e, n)
    BY DEF Good, Typed, Fields, Same
  <2>3. Good(d) /\ Good(n) /\ Good(UpdateDone(n))
    BY <2>1, <2>2, SameGood, UpdateDoneGood
  <2>4. d.reg = e.reg /\ d.la = e.la
    BY <2>2 DEF Same
  <2>5. \A sst \in SubStates \cup {"LOC_UPD_NEEDED"} :
          (sst = "NORMAL" => e.reg = e.la) => Kept(NewStateIdle(d, sst, locUpd))
    BY <2>3, <2>4, NewStateIdleKept
  <2>6. Kept(NewStateIdle(UpdateDone(n), "NO_IMSI", locUpd))
    BY <2>3, NewStateIdleKept DEF SubStates
  <2> HIDE DEF d, n
  <2> QED BY <1>2, <2>5, <2>6 DEF ReturnIdle, SubStates, Serving, d, n
<1> QED BY <1>1, <1>2

LEMMA BeginLocUpdKept ==
  ASSUME NEW e, Good(e)
  PROVE  Kept(BeginLocUpd(e))
<1> DEFINE d == [e EXCEPT !.mm = "WAIT_RR_CONN_LUPD",
                          !.lost = @ \/ e.rel_wait \/ e.dl # "IDLE"]
<1>1. IsFcn(d)
  BY Zenon DEF IsFcn
<1>2. Typed(d) /\ d.cs = e.cs /\ d.ev = e.ev /\ d.conn = e.conn /\ d.mm # "IDLE"
  BY DEF Good, Typed, Fields, UpdateStates
<1>3. Kept(d)
  BY <1>1, <1>2, BusyKept DEF Pending
<1> HIDE DEF d
<1> QED BY <1>3, EstReqKept DEF BeginLocUpd, d

LEMMA TryLocUpdKept ==
  ASSUME NEW e, Good(e), NEW locUpd, Settles(locUpd)
  PROVE  Kept(TryLocUpd(e, locUpd))
BY ReturnIdleKept, UpdateDoneGood, BeginLocUpdKept DEF TryLocUpd

\* However many of the calls are nested.
LEMMA LocUpdInnerSettles == Settles(LocUpd0) /\ Settles(LocUpd1) /\ Settles(LocUpd2)
<1>1. Settles(LocUpd0)
  BY GoodPhone, BeginLocUpdKept DEF Settles, LocUpd0
<1>2. Settles(LocUpd1)
  BY <1>1, GoodPhone, TryLocUpdKept DEF Settles, LocUpd1
<1>3. Settles(LocUpd2)
  BY <1>2, GoodPhone, TryLocUpdKept DEF Settles, LocUpd2
<1> QED BY <1>1, <1>2, <1>3

LEMMA LocUpdSettles == Settles(LocUpd3)
BY LocUpdInnerSettles, GoodPhone, TryLocUpdKept DEF Settles, LocUpd3

LEMMA MmIdleKept ==
  ASSUME NEW e, Good(e)
  PROVE  /\ Kept(gsm48_mm_loc_upd(e))
         /\ Kept(gsm48_mm_return_idle(e))
         /\ Kept(gsm48_mm_loc_upd_normal(e))
         /\ \A sst \in SubStates \cup {"LOC_UPD_NEEDED"} :
              (sst = "NORMAL" => e.reg = e.la) => Kept(new_mm_state_idle(e, sst))
BY LocUpdSettles, ReturnIdleKept, LocUpdNormalKept, NewStateIdleKept
   DEF gsm48_mm_loc_upd, gsm48_mm_return_idle, gsm48_mm_loc_upd_normal, new_mm_state_idle,
       Settles

-----------------------------------------------------------------------------
(* MM connections                                                           *)

MmxxPrims == {"EST_CNF", "REL_IND", "ERR_IND"}

LEMMA MmxxUpmsgKept ==
  ASSUME NEW e, NEW refs, NEW p \in MmxxPrims
  PROVE  LET d == gsm48_mmxx_upmsg(e, refs, p) IN
         /\ Kept(e) => Kept(d)
         /\ Good(e) => Good(d) /\ Same(e, d)
<1> DEFINE d == gsm48_mmxx_upmsg(e, refs, p)
<1>1. ASSUME Good(e) PROVE IsFcn(d) /\ Typed(d) /\ Same(e, d)
  <2>1. IsFcn(d)
    BY Zenon DEF IsFcn, gsm48_mmxx_upmsg
  <2>2. [ref \in Refs |-> IF ref \in refs THEN Append(e.mmxx[ref], p) ELSE e.mmxx[ref]]
          \in [Refs -> Seq({"EST_CNF", "REL_IND", "ERR_IND"})]
    BY <1>1 DEF Good, Typed, MmxxPrims
  <2>3. Typed(d) /\ Same(e, d)
    BY <1>1, <2>2 DEF Good, Typed, Fields, Same, gsm48_mmxx_upmsg
  <2> QED BY <2>1, <2>3
<1> HIDE DEF d
<1>2. Kept(e) => Kept(d)
  BY <1>1, SameKept DEF Kept
<1>3. Good(e) => Good(d) /\ Same(e, d)
  BY <1>1, SameGood
<1> QED BY <1>2, <1>3 DEF d

LEMMA FreeKept ==
  ASSUME NEW e, NEW ref \in Refs
  PROVE  LET d == mm_conn_free(e, ref) IN (Kept(e) => Kept(d)) /\ (Good(e) => Good(d))
<1> DEFINE d == mm_conn_free(e, ref)
<1>1. ASSUME Good(e)
      PROVE  /\ IsFcn(d) /\ Typed(d) /\ Pending(d) \subseteq Pending(e)
             /\ d.cs = e.cs /\ d.ev = e.ev /\ d.mm = e.mm /\ d.sst = e.sst
             /\ d.reg = e.reg /\ d.la = e.la /\ d.pending = e.pending /\ d.sim = e.sim
  <2>1. IsFcn(d)
    BY Zenon DEF IsFcn, mm_conn_free
  <2>2. [e.conn EXCEPT ![ref] = "NONE"] \in [Refs -> {"NONE", "IDLE", "PEND", "DEDICATED"}]
    BY <1>1 DEF Good, Typed
  <2>3. /\ Typed(d) /\ d.conn = [e.conn EXCEPT ![ref] = "NONE"]
        /\ d.cs = e.cs /\ d.ev = e.ev /\ d.mm = e.mm /\ d.sst = e.sst
        /\ d.reg = e.reg /\ d.la = e.la /\ d.pending = e.pending /\ d.sim = e.sim
    BY <1>1, <2>2 DEF Good, Typed, Fields, mm_conn_free
  <2>4. Pending(d) \subseteq Pending(e)
    BY <1>1, <2>3 DEF Pending, Good, Typed
  <2> QED BY <2>1, <2>3, <2>4
<1> HIDE DEF d
<1> QED BY <1>1 DEF Kept, Good, OnePending, CellReported, ServiceKept, d

LEMMA ReleaseConnKept ==
  ASSUME NEW e, NEW refs, NEW p \in MmxxPrims
  PROVE  LET d == gsm48_mm_release_mm_conn(e, refs, p) IN
         (Kept(e) => Kept(d)) /\ (Good(e) => Good(d))
<1> DEFINE u == gsm48_mmxx_upmsg(e, refs, p)
           conns == [ref \in Refs |-> IF ref \in refs THEN "NONE" ELSE u.conn[ref]]
           d == [u EXCEPT !.conn = conns]
<1>1. Good(e) => Good(u) /\ Same(e, u)
  BY MmxxUpmsgKept
<1>2. gsm48_mm_release_mm_conn(e, refs, p) = d
  BY Zenon DEF gsm48_mm_release_mm_conn
<1> HIDE DEF u
<1>3. ASSUME Good(u)
      PROVE  /\ IsFcn(d) /\ Typed(d) /\ Pending(d) \subseteq Pending(u)
             /\ d.cs = u.cs /\ d.ev = u.ev /\ d.mm = u.mm /\ d.sst = u.sst
             /\ d.reg = u.reg /\ d.la = u.la /\ d.pending = u.pending /\ d.sim = u.sim
  <2>1. IsFcn(d)
    BY Zenon DEF IsFcn
  <2>2. conns \in [Refs -> {"NONE", "IDLE", "PEND", "DEDICATED"}]
    BY <1>3 DEF Good, Typed
  <2>3. \A ref \in Refs : conns[ref] = "PEND" => u.conn[ref] = "PEND"
    OBVIOUS
  <2> HIDE DEF conns
  <2>4. /\ Typed(d) /\ d.conn = conns
        /\ d.cs = u.cs /\ d.ev = u.ev /\ d.mm = u.mm /\ d.sst = u.sst
        /\ d.reg = u.reg /\ d.la = u.la /\ d.pending = u.pending /\ d.sim = u.sim
    BY <1>3, <2>2 DEF Good, Typed, Fields
  <2>5. Pending(d) \subseteq Pending(u)
    BY <2>3, <2>4 DEF Pending
  <2> QED BY <2>1, <2>4, <2>5
<1> HIDE DEF d
<1>4. Good(e) => Good(d)
  BY <1>1, <1>3 DEF Good, OnePending, CellReported
<1>5. Kept(e) => Kept(d)
  BY <1>1, <1>3, <1>4 DEF Kept, ServiceKept, Same
<1> QED BY <1>2, <1>4, <1>5

MmStates == {"IDLE", "WAIT_NETWORK_CMD", "WAIT_RR_CONN_MM_CON", "WAIT_OUT_MM_CONN",
             "CONN_ACTIVE", "WAIT_ADD_OUT_MM_CON"} \cup UpdateStates

\* A change of the state, to any but MM IDLE.
LEMMA BusyStateKept ==
  ASSUME NEW e, Good(e), NEW mm \in MmStates \ {"IDLE"}
  PROVE  Kept([e EXCEPT !.mm = mm])
<1> DEFINE d == [e EXCEPT !.mm = mm]
<1>1. IsFcn(d)
  BY Zenon DEF IsFcn
<1>2. Typed(d) /\ d.cs = e.cs /\ d.ev = e.ev /\ d.conn = e.conn /\ d.mm # "IDLE"
  BY DEF Good, Typed, Fields, MmStates
<1> QED BY <1>1, <1>2, BusyKept DEF Pending

LEMMA ActiveOrWaitKept ==
  ASSUME NEW e, Good(e)
  PROVE  Kept(ActiveOrWait(e)) /\ Kept(WaitNetworkCommand(e)) /\ Kept(gsm48_mm_est_mm_con(e))
<1> DEFINE d == [e EXCEPT !.t3240 = TRUE]
           g == [e EXCEPT !.t3230 = TRUE, !.mm = "WAIT_OUT_MM_CONN"]
<1>1. IsFcn(d) /\ IsFcn(g)
  BY Zenon DEF IsFcn
<1>2. /\ Typed(d) /\ Same(e, d) /\ Typed(g)
      /\ g.cs = e.cs /\ g.ev = e.ev /\ g.conn = e.conn /\ g.mm # "IDLE"
  BY DEF Good, Typed, Fields, Same
<1>3. Good(d) /\ Kept(g)
  BY <1>1, <1>2, SameGood, BusyKept DEF Pending
<1> HIDE DEF d, g
<1>4. /\ Kept([d EXCEPT !.mm = "WAIT_NETWORK_CMD"])
      /\ Kept([e EXCEPT !.mm = "WAIT_NETWORK_CMD"])
      /\ Kept([e EXCEPT !.mm = "CONN_ACTIVE"])
  BY <1>3, BusyStateKept DEF MmStates
<1> QED BY <1>3, <1>4 DEF ActiveOrWait, WaitNetworkCommand, gsm48_mm_est_mm_con, d, g

\* The users' requests.  The request of a reference makes its connection the
\* pending one where there is none.
LEMMA PendKept ==
  ASSUME NEW e, Kept(e), Pending(e) = {}, NEW ref \in Refs
  PROVE  Kept([e EXCEPT !.conn[ref] = "PEND"])
<1> DEFINE conns == [e.conn EXCEPT ![ref] = "PEND"]
           d == [e EXCEPT !.conn[ref] = "PEND"]
<1>1. IsFcn(d)
  BY Zenon DEF IsFcn
<1>2. conns \in [Refs -> {"NONE", "IDLE", "PEND", "DEDICATED"}]
  BY DEF Kept, Good, Typed
<1>3. \A r \in Refs : r # ref => conns[r] # "PEND"
  BY DEF Kept, Good, Typed, Pending
<1> HIDE DEF conns
<1>4. /\ Typed(d) /\ d.conn = conns
      /\ d.cs = e.cs /\ d.ev = e.ev /\ d.mm = e.mm /\ d.sst = e.sst
      /\ d.reg = e.reg /\ d.la = e.la /\ d.pending = e.pending /\ d.sim = e.sim
  BY <1>2 DEF Kept, Good, Typed, Fields, conns
<1> HIDE DEF d
<1>5. Pending(d) \subseteq {ref}
  BY <1>3, <1>4 DEF Pending
<1> QED BY <1>1, <1>4, <1>5 DEF Kept, Good, OnePending, CellReported, ServiceKept, d

LEMMA MmEstReqKept ==
  ASSUME NEW e, Kept(e), NEW ref \in Refs
  PROVE  Kept(MmEstReq(e, ref))
<1> DEFINE p == [e EXCEPT !.conn[ref] = "PEND"]
<1>1. Kept(gsm48_mm_init_mm_reject(e, ref))
  BY MmxxUpmsgKept DEF gsm48_mm_init_mm_reject, MmxxPrims
<1>2. ASSUME Pending(e) = {} PROVE Kept(gsm48_mm_init_mm_no_rr(e, ref))
  <2> DEFINE q == gsm48_rr_est_req(p, ref)
             strays == IF e.rel_wait \/ e.t3210 THEN q.stray \cup {ref} ELSE q.stray
             d == [q EXCEPT !.mm = "WAIT_RR_CONN_MM_CON", !.stray = strays]
  <2>1. Kept(q)
    BY <1>2, PendKept, EstReqKept
  <2>2. gsm48_mm_init_mm_no_rr(e, ref) = d
    BY Zenon DEF gsm48_mm_init_mm_no_rr
  <2>3. IsFcn(d)
    BY Zenon DEF IsFcn
  <2> HIDE DEF q
  <2>4. Typed(d) /\ d.cs = q.cs /\ d.ev = q.ev /\ d.conn = q.conn /\ d.mm # "IDLE"
    BY SMTT(40), <2>1 DEF Kept, Good, Typed, Fields
  <2> HIDE DEF d
  <2> QED BY <2>1, <2>2, <2>3, <2>4, BusyKept DEF Pending, Kept
<1>3. ASSUME Pending(e) = {} PROVE Kept(gsm48_mm_init_mm_more(e, ref))
  <2> DEFINE q == gsm48_rr_data_req(p, ref)
             strays == IF e.rr = "IDLE" \/ e.rel_wait \/ e.t3210 THEN q.stray \cup {ref} ELSE q.stray
             d == [q EXCEPT !.mm = "WAIT_ADD_OUT_MM_CON", !.t3230 = TRUE, !.stray = strays]
  <2>1. Kept(q)
    BY <1>3, PendKept, DataReqKept
  <2>2. gsm48_mm_init_mm_more(e, ref) = d
    BY Zenon DEF gsm48_mm_init_mm_more
  <2>3. IsFcn(d)
    BY Zenon DEF IsFcn
  <2> HIDE DEF q
  <2>4. Typed(d) /\ d.cs = q.cs /\ d.ev = q.ev /\ d.conn = q.conn /\ d.mm # "IDLE"
    BY SMTT(40), <2>1 DEF Kept, Good, Typed, Fields
  <2> HIDE DEF d
  <2> QED BY <2>1, <2>2, <2>3, <2>4, BusyKept DEF Pending, Kept
<1> QED BY <1>1, <1>2, <1>3 DEF MmEstReq

LEMMA MmRelReqKept ==
  ASSUME NEW e, Kept(e), NEW ref \in Refs
  PROVE  Kept(MmRelReq(e, ref))
<1>1. Kept(mm_conn_free(e, ref))
  BY FreeKept
<1>2. Kept(ActiveOrWait(mm_conn_free(e, ref)))
  BY <1>1, ActiveOrWaitKept DEF Kept
<1>3. Kept(gsm48_mm_release_wait_active(e, ref))
  <2> DEFINE f == mm_conn_free(e, ref)
             d == [f EXCEPT !.t3240 = TRUE]
  <2>1. IsFcn(d)
    BY Zenon DEF IsFcn
  <2>2. Kept(f)
    BY <1>1
  <2> HIDE DEF f
  <2>3. Typed(d) /\ Same(f, d)
    BY SMTT(40), <2>2 DEF Kept, Good, Typed, Fields, Same
  <2>4. Good(d)
    BY <2>1, <2>2, <2>3, SameGood DEF Kept
  <2>5. Kept(WaitNetworkCommand(d))
    BY <2>4, ActiveOrWaitKept
  <2> QED BY <2>2, <2>5 DEF gsm48_mm_release_wait_active, f
<1> QED BY <1>1, <1>2, <1>3 DEF MmRelReq

-----------------------------------------------------------------------------
(* Messages of the network                                                  *)

LEMMA ConnActiveKept ==
  ASSUME NEW e, Kept(e)
  PROVE  Kept(gsm48_mm_conn_go_dedic(e)) /\ Kept(gsm48_mm_rx_cm_service_acc(e))
<1>1. ASSUME NEW q, Kept(q) PROVE Kept(gsm48_mm_conn_go_dedic(q))
  <2>1. CASE Pending(q) = {}
    BY <1>1, <2>1 DEF gsm48_mm_conn_go_dedic
  <2>2. CASE Pending(q) # {}
    <3> DEFINE ref == CHOOSE r \in Pending(q) : TRUE
               conns == [q.conn EXCEPT ![ref] = "DEDICATED"]
               d == [q EXCEPT !.conn[ref] = "DEDICATED"]
    <3>1. ref \in Refs
      BY <2>2 DEF Pending
    <3> HIDE DEF ref
    <3>2. conns \in [Refs -> {"NONE", "IDLE", "PEND", "DEDICATED"}]
      BY <1>1, <3>1 DEF Kept, Good, Typed
    <3>3. \A r \in Refs : conns[r] = "PEND" => q.conn[r] = "PEND"
      BY <1>1, <3>1 DEF Kept, Good, Typed
    <3> HIDE DEF conns
    <3>4. IsFcn(d)
      BY Zenon DEF IsFcn
    <3>5. /\ Typed(d) /\ d.conn = conns
          /\ d.cs = q.cs /\ d.ev = q.ev /\ d.mm = q.mm /\ d.sst = q.sst
          /\ d.reg = q.reg /\ d.la = q.la /\ d.pending = q.pending /\ d.sim = q.sim
      BY SMTT(40), <1>1, <3>2 DEF Kept, Good, Typed, Fields, conns
    <3>6. Pending(d) \subseteq Pending(q)
      BY <3>3, <3>5 DEF Pending
    <3> HIDE DEF d
    <3>7. Kept(d)
      BY <1>1, <3>4, <3>5, <3>6 DEF Kept, Good, OnePending, CellReported, ServiceKept
    <3>8. Kept(gsm48_rr_est_req_sapi3(d)) /\ Kept(gsm48_mmxx_upmsg(d, {ref}, "EST_CNF"))
      BY <3>7, EstReqSapi3Kept, MmxxUpmsgKept DEF MmxxPrims
    <3> QED BY <2>2, <3>8 DEF gsm48_mm_conn_go_dedic, ref, d
  <2> QED BY <2>1, <2>2
<1> DEFINE a == [e EXCEPT !.t3230 = FALSE, !.mm = "CONN_ACTIVE"]
<1>2. IsFcn(a)
  BY Zenon DEF IsFcn
<1>3. Typed(a) /\ a.cs = e.cs /\ a.ev = e.ev /\ a.conn = e.conn /\ a.mm # "IDLE"
  BY DEF Kept, Good, Typed, Fields
<1>4. Kept(a)
  BY <1>2, <1>3, BusyKept DEF Pending, Kept
<1> QED BY <1>1, <1>4 DEF gsm48_mm_rx_cm_service_acc

\* The registration may be lost in any state that claims nothing.
LEMMA UnregisteredGood ==
  ASSUME NEW e, NEW illegal \in BOOLEAN, Good(e)
  PROVE  LET d == Unregistered(e, illegal) IN
         /\ Good(d) /\ d.mm = e.mm /\ d.conn = e.conn
         /\ e.cs # "CAMPED" => Kept(d)
<1> DEFINE d == Unregistered(e, illegal)
<1>1. IsFcn(d)
  BY Zenon DEF IsFcn, Unregistered
<1>2. PICK sim \in BOOLEAN : sim = (e.sim /\ ~illegal) /\ d = [e EXCEPT !.reg = None, !.sim = sim]
  BY Zenon DEF Unregistered
<1>3. /\ Typed(d) /\ d.sim = sim
      /\ d.cs = e.cs /\ d.ev = e.ev /\ d.conn = e.conn /\ d.mm = e.mm
  BY <1>2 DEF Good, Typed, Fields
<1> HIDE DEF d
<1> QED BY <1>1, <1>2, <1>3 DEF Kept, Good, OnePending, Pending, CellReported, ServiceKept, d

\* A timer of mobility management is started or stopped.
LEMMA T3230Kept ==
  ASSUME NEW e, NEW v \in BOOLEAN
  PROVE  LET d == [e EXCEPT !.t3230 = v] IN
         (Kept(e) => Kept(d)) /\ (Good(e) => Good(d) /\ Same(e, d))
<1> DEFINE d == [e EXCEPT !.t3230 = v]
<1>1. IsFcn(d)
  BY Zenon DEF IsFcn
<1>2. Good(e) => Typed(d) /\ Same(e, d)
  BY DEF Good, Typed, Fields, Same
<1> HIDE DEF d
<1> QED BY <1>1, <1>2, SameKept, SameGood DEF Kept, d

LEMMA ServiceRejKept ==
  ASSUME NEW e, Kept(e), NEW cause
  PROVE  Kept(gsm48_mm_rx_cm_service_rej(e, cause))
<1> DEFINE t == [e EXCEPT !.t3230 = FALSE]
           unknown == cause \in {"CM_REJ_UNKNOWN", "CM_REJ_ILLEGAL"}
           refs == IF unknown THEN Connected(e) ELSE Pending(e)
           d == gsm48_mm_release_mm_conn(t, refs, "REL_IND")
           u == IF unknown THEN Unregistered(d, cause = "CM_REJ_ILLEGAL") ELSE d
<1>1. Good(t)
  BY T3230Kept DEF Kept
<1> HIDE DEF t, refs, unknown
<1>2. Good(d)
  BY <1>1, ReleaseConnKept DEF MmxxPrims
<1> HIDE DEF d
<1>3. Good(u)
  BY <1>2, UnregisteredGood
<1> HIDE DEF u
<1>4. Kept(WaitNetworkCommand(u)) /\ Kept([u EXCEPT !.mm = "CONN_ACTIVE"])
  BY <1>3, ActiveOrWaitKept, BusyStateKept DEF MmStates
<1>5. gsm48_mm_rx_cm_service_rej(e, cause) \in {WaitNetworkCommand(u), [u EXCEPT !.mm = "CONN_ACTIVE"]}
  BY Zenon DEF gsm48_mm_rx_cm_service_rej, u, d, refs, t, unknown
<1> QED BY <1>4, <1>5

LEMMA AbortKept ==
  ASSUME NEW e, Kept(e), NEW cause
  PROVE  Kept(gsm48_mm_rx_abort(e, cause))
<1> DEFINE t == [e EXCEPT !.t3230 = FALSE]
           d == gsm48_mm_release_mm_conn(t, Connected(e), "REL_IND")
<1>1. Kept(t)
  BY T3230Kept
<1> HIDE DEF t
<1>2. Kept(d)
  BY <1>1, ReleaseConnKept DEF MmxxPrims
<1> HIDE DEF d
<1>3. Kept(gsm48_mm_return_idle(Unregistered(d, TRUE)))
  BY <1>2, UnregisteredGood, MmIdleKept DEF Kept
<1> QED BY <1>2, <1>3 DEF gsm48_mm_rx_abort, d, t

LEMMA AuthRejKept ==
  ASSUME NEW e, Kept(e), e.cs # "CAMPED"
  PROVE  Kept(gsm48_mm_rx_auth_rej(e))
<1> DEFINE d == [e EXCEPT !.t3212 = FALSE]
<1>1. IsFcn(d)
  BY Zenon DEF IsFcn
<1>2. Typed(d) /\ Same(e, d)
  BY DEF Kept, Good, Typed, Fields, Same
<1>3. Good(d)
  BY <1>1, <1>2, SameGood DEF Kept
<1> QED BY <1>2, <1>3, UnregisteredGood DEF gsm48_mm_rx_auth_rej, Same

LEMMA SetupKept ==
  ASSUME NEW e, Kept(e), NEW ref \in Refs
  PROVE  Kept(gsm48_mm_data_ind_setup(e, ref))
<1> DEFINE conns == [e.conn EXCEPT ![ref] = "IDLE"]
           left == e.rel_wait \/ e.t3210 \/ e.mm \in UpdateStates
           strays == IF left THEN e.stray \cup {ref} ELSE e.stray
           d == [e EXCEPT !.conn[ref] = "IDLE", !.stray = strays]
           g == [d EXCEPT !.t3240 = FALSE, !.mm = "CONN_ACTIVE"]
<1>1. conns \in [Refs -> {"NONE", "IDLE", "PEND", "DEDICATED"}]
  BY DEF Kept, Good, Typed
<1>2. \A r \in Refs : conns[r] = "PEND" => e.conn[r] = "PEND"
  BY DEF Kept, Good, Typed
<1> HIDE DEF conns
<1>3. IsFcn(d) /\ IsFcn(g)
  BY Zenon DEF IsFcn
<1>9. strays \in SUBSET Refs
  BY DEF Kept, Good, Typed
<1> HIDE DEF left, strays
<1>4. /\ Typed(d) /\ d.conn = conns
      /\ d.cs = e.cs /\ d.ev = e.ev /\ d.mm = e.mm /\ d.sst = e.sst
      /\ d.reg = e.reg /\ d.la = e.la /\ d.pending = e.pending /\ d.sim = e.sim
  BY <1>1, <1>9 DEF Kept, Good, Typed, Fields, conns
<1> HIDE DEF d
<1>5. Pending(d) \subseteq Pending(e)
  BY <1>2, <1>4 DEF Pending
<1>6. Kept(d)
  BY <1>3, <1>4, <1>5 DEF Kept, Good, OnePending, CellReported, ServiceKept
<1>7. Typed(g) /\ g.cs = d.cs /\ g.ev = d.ev /\ g.conn = d.conn /\ g.mm # "IDLE"
  BY SMTT(40), <1>6 DEF Kept, Good, Typed, Fields
<1>8. Kept(g)
  BY <1>3, <1>6, <1>7, BusyKept DEF Pending, Kept
<1>10. gsm48_mm_data_ind_setup(e, ref) = IF e.mm = "WAIT_NETWORK_CMD" THEN g ELSE d
  BY Zenon DEF gsm48_mm_data_ind_setup, d, strays, left
<1> QED BY <1>6, <1>8, <1>10

-----------------------------------------------------------------------------
(* Location updating, and what radio resources say                          *)

LEMMA LocUpdAnswersKept ==
  ASSUME NEW e, Kept(e)
  PROVE  /\ Kept(gsm48_mm_est_loc_upd(e))
         /\ Kept(gsm48_mm_rx_loc_upd_acc(e))
         /\ \A cause \in LuRejections : Kept(gsm48_mm_rx_loc_upd_rej(e, cause))
<1>1. Kept(gsm48_mm_est_loc_upd(e))
  <2>1. IsFcn(gsm48_mm_est_loc_upd(e))
    BY Zenon DEF IsFcn, gsm48_mm_est_loc_upd
  <2>2. LET d == gsm48_mm_est_loc_upd(e) IN
        Typed(d) /\ d.cs = e.cs /\ d.ev = e.ev /\ d.conn = e.conn /\ d.mm # "IDLE"
    BY DEF Kept, Good, Typed, Fields, gsm48_mm_est_loc_upd, UpdateStates
  <2> QED BY <2>1, <2>2, BusyKept DEF Kept, Pending
<1>2. Kept(gsm48_mm_rx_loc_upd_acc(e))
  <2> DEFINE u == UpdateDone(e)
             d == [u EXCEPT !.t3212 = FALSE, !.t3210 = FALSE, !.t3240 = TRUE,
                            !.reg = e.la, !.forb = @ \ {e.la}]
  <2>1. Good(u)
    BY UpdateDoneGood DEF Kept
  <2> HIDE DEF u
  <2>2. IsFcn(d)
    BY Zenon DEF IsFcn
  <2>3. Typed(d) /\ d.cs = u.cs /\ d.ev = u.ev /\ d.conn = u.conn
    BY SMTT(40), <2>1 DEF Kept, Good, Typed, Fields
  <2> HIDE DEF d
  <2>4. Good(d)
    BY <2>1, <2>2, <2>3 DEF Good, OnePending, Pending, CellReported
  <2>5. Kept(WaitNetworkCommand(d))
    BY <2>4, ActiveOrWaitKept
  <2> QED BY <2>5 DEF gsm48_mm_rx_loc_upd_acc, d, u
<1>3. ASSUME NEW cause \in LuRejections PROVE Kept(gsm48_mm_rx_loc_upd_rej(e, cause))
  <2>1. IsFcn(gsm48_mm_rx_loc_upd_rej(e, cause))
    BY Zenon DEF IsFcn, gsm48_mm_rx_loc_upd_rej
  <2>2. LET d == gsm48_mm_rx_loc_upd_rej(e, cause) IN
        Typed(d) /\ d.cs = e.cs /\ d.ev = e.ev /\ d.conn = e.conn /\ d.mm # "IDLE"
    BY DEF Kept, Good, Typed, Fields, gsm48_mm_rx_loc_upd_rej, UpdateStates
  <2> QED BY <2>1, <2>2, BusyKept DEF Kept, Pending
<1> QED BY <1>1, <1>2, <1>3

LEMMA LocUpdFailedKept ==
  ASSUME NEW e, Good(e)
  PROVE  Kept(gsm48_mm_loc_upd_failed(e)) /\ Kept(gsm48_mm_rel_loc_upd_abort(e))
<1>1. ASSUME NEW q, Good(q) PROVE Kept(gsm48_mm_loc_upd_failed(q))
  <2> DEFINE d == [q EXCEPT !.t3210 = FALSE, !.t3211 = TRUE]
             g == [q EXCEPT !.t3210 = FALSE, !.reg = None, !.start_t3211 = TRUE]
  <2>1. IsFcn(d) /\ IsFcn(g)
    BY Zenon DEF IsFcn
  <2>2. /\ Typed(d) /\ d.cs = q.cs /\ d.ev = q.ev /\ d.conn = q.conn
        /\ Typed(g) /\ g.cs = q.cs /\ g.ev = q.ev /\ g.conn = q.conn
    BY SMTT(40), <1>1 DEF Good, Typed, Fields
  <2> HIDE DEF d, g
  <2>3. Good(d) /\ Good(g)
    BY <1>1, <2>1, <2>2 DEF Good, OnePending, Pending, CellReported
  <2>4. Kept(gsm48_mm_return_idle(d)) /\ Kept(gsm48_mm_return_idle(g))
    BY <2>3, MmIdleKept
  <2> QED BY <2>4 DEF gsm48_mm_loc_upd_failed, d, g
<1> DEFINE d == [e EXCEPT !.t3240 = FALSE]
<1>2. IsFcn(d)
  BY Zenon DEF IsFcn
<1>3. Typed(d) /\ Same(e, d)
  BY DEF Good, Typed, Fields, Same
<1>4. Good(d)
  BY <1>2, <1>3, SameGood
<1> QED BY <1>1, <1>4 DEF gsm48_mm_rel_loc_upd_abort

LEMMA LocUpdRejectedKept ==
  ASSUME NEW e, Good(e)
  PROVE  Kept(gsm48_mm_rel_loc_upd_rej(e))
<1> DEFINE d == [e EXCEPT !.t3240 = FALSE, !.plmn = e.rej # "LU_OTHER"]
           g == [d EXCEPT !.forb = @ \cup {e.la}]
<1>1. IsFcn(d) /\ IsFcn(g)
  BY Zenon DEF IsFcn
<1>2. Typed(d) /\ Same(e, d) /\ Typed(g) /\ Same(e, g)
  BY DEF Good, Typed, Fields, Same
<1>3. Good(d) /\ Good(g)
  BY <1>1, <1>2, SameGood
<1> HIDE DEF d, g
<1>4. /\ Kept(gsm48_mm_return_idle(UpdateDone(Unregistered(d, TRUE))))
      /\ Kept(gsm48_mm_return_idle(UpdateDone(Unregistered(g, FALSE))))
      /\ Kept(gsm48_mm_loc_upd_failed(d))
  BY <1>3, UnregisteredGood, UpdateDoneGood, MmIdleKept, LocUpdFailedKept
<1> QED BY <1>4 DEF gsm48_mm_rel_loc_upd_rej, g, d

LEMMA ReleasedKept ==
  ASSUME NEW e, Kept(e)
  PROVE  Kept(gsm48_mm_abort_mm_con(e)) /\ Kept(gsm48_mm_rel_other(e))
<1> DEFINE d == [e EXCEPT !.t3240 = FALSE, !.t3230 = FALSE]
           g == [e EXCEPT !.t3240 = FALSE]
<1>1. IsFcn(d) /\ IsFcn(g)
  BY Zenon DEF IsFcn
<1>2. Typed(d) /\ Same(e, d) /\ Typed(g) /\ Same(e, g)
  BY DEF Kept, Good, Typed, Fields, Same
<1>3. Good(d) /\ Good(g)
  BY <1>1, <1>2, SameGood DEF Kept
<1> HIDE DEF d, g
<1>4. Good(gsm48_mm_release_mm_conn(d, Connected(e), "ERR_IND"))
  BY <1>3, ReleaseConnKept DEF MmxxPrims
<1> QED BY <1>3, <1>4, MmIdleKept DEF gsm48_mm_abort_mm_con, gsm48_mm_rel_other, d, g

LEMMA RcvSapi3Kept ==
  ASSUME NEW e, Kept(e), NEW prim
  PROVE  Kept(gsm48_rcv_rr_sapi3(e, prim))
<1> DEFINE d == [e EXCEPT !.sapi3_link = TRUE]
           g == [e EXCEPT !.sapi3_link = FALSE]
<1>1. IsFcn(d) /\ IsFcn(g)
  BY Zenon DEF IsFcn
<1>2. Typed(d) /\ Same(e, d) /\ Typed(g) /\ Same(e, g)
  BY DEF Kept, Good, Typed, Fields, Same
<1>3. Kept(d) /\ Kept(g)
  BY <1>1, <1>2, SameKept
<1> HIDE DEF d, g
<1>4. /\ Kept(gsm48_mmxx_upmsg(d, {ref \in Messages : e.conn[ref] = "DEDICATED"}, "EST_CNF"))
      /\ Kept(gsm48_mm_release_mm_conn(g, Connected(e) \cap Messages, "REL_IND"))
  BY <1>3, MmxxUpmsgKept, ReleaseConnKept DEF MmxxPrims
<1> QED BY <1>4 DEF gsm48_rcv_rr_sapi3, d, g

LEMMA RcvRrKept ==
  ASSUME NEW e, Kept(e), NEW prim, prim = "AUTH_REJ" => e.cs # "CAMPED"
  PROVE  Kept(gsm48_rcv_rr(e, prim))
<1>1. Good(e)
  BY DEF Kept
<1>2. Kept(WaitNetworkCommand(e)) /\ Kept(gsm48_mm_est_mm_con(e)) /\ Kept(gsm48_mm_est_loc_upd(e))
  BY <1>1, ActiveOrWaitKept, LocUpdAnswersKept
<1>3. /\ Kept(gsm48_mm_rel_loc_upd_abort(e)) /\ Kept(gsm48_mm_rel_loc_upd_rej(e))
      /\ Kept(gsm48_mm_rel_other(e)) /\ Kept(gsm48_mm_abort_mm_con(e))
  BY <1>1, LocUpdFailedKept, LocUpdRejectedKept, ReleasedKept
<1>4. /\ Kept(gsm48_mm_rx_cm_service_acc(e)) /\ Kept(gsm48_mm_rx_cm_service_rej(e, prim))
      /\ Kept(gsm48_mm_rx_abort(e, prim))
      /\ prim \in Incoming => Kept(gsm48_mm_data_ind_setup(e, prim))
      /\ prim = "AUTH_REJ" => Kept(gsm48_mm_rx_auth_rej(e))
  BY ConnActiveKept, ServiceRejKept, AbortKept, AuthRejKept, SetupKept DEF Refs
<1>5. /\ Kept(gsm48_mm_rx_loc_upd_acc(e))
      /\ prim \in LuRejections => Kept(gsm48_mm_rx_loc_upd_rej(e, prim))
  BY LocUpdAnswersKept
<1> QED BY <1>2, <1>3, <1>4, <1>5 DEF gsm48_rcv_rr

-----------------------------------------------------------------------------
(* Events and timers of mobility management                                 *)

\* An event leaves the queue.
LEMMA EventTakenGood ==
  ASSUME NEW e, Good(e), e.ev # <<>>
  PROVE  LET d == [e EXCEPT !.ev = Tail(@)]
         IN  Good(d) /\ d.ev = Tail(e.ev) /\ d.cs = e.cs /\ d.conn = e.conn
<1> DEFINE d == [e EXCEPT !.ev = Tail(@)]
<1>1. /\ e.ev \in Seq({"CELL_SELECTED", "NO_CELL_FOUND", "LOST_COVERAGE"})
      /\ Tail(e.ev) \in Seq({"CELL_SELECTED", "NO_CELL_FOUND", "LOST_COVERAGE"})
  BY DEF Good, Typed
<1>2. IsFcn(d)
  BY Zenon DEF IsFcn
<1>3. Typed(d) /\ d.ev = Tail(e.ev) /\ d.cs = e.cs /\ d.conn = e.conn
  BY <1>1 DEF Good, Typed, Fields
<1> HIDE DEF d
<1>4. CellReported(d)
  <2> SUFFICES ASSUME d.cs = "CAMPED", d.ev # <<>>
               PROVE  d.ev[Len(d.ev)] = "CELL_SELECTED"
    BY DEF CellReported
  <2>1. e.ev[Len(e.ev)] = "CELL_SELECTED"
    BY <1>3 DEF Good, CellReported
  <2> QED BY <1>1, <1>3, <2>1
<1>5. Good(d)
  BY <1>2, <1>3, <1>4 DEF Good, OnePending, Pending
<1> QED BY <1>3, <1>5 DEF d

\* Any event but CELL_SELECTED was followed by another one, or the phone does not camp.
LEMMA EventKept ==
  ASSUME NEW e, Kept(e), e.ev # <<>>
  PROVE  Kept(gsm48_mm_event([e EXCEPT !.ev = Tail(@)], Head(e.ev)))
<1> DEFINE d == [e EXCEPT !.ev = Tail(@)]
           event == Head(e.ev)
<1>1. /\ e.ev \in Seq({"CELL_SELECTED", "NO_CELL_FOUND", "LOST_COVERAGE"})
      /\ Tail(e.ev) \in Seq({"CELL_SELECTED", "NO_CELL_FOUND", "LOST_COVERAGE"})
  BY DEF Kept, Good, Typed
<1>3. d.ev = Tail(e.ev) /\ d.cs = e.cs /\ d.mm = e.mm /\ d.sst = e.sst /\ d.reg = e.reg
      /\ d.la = e.la /\ d.pending = e.pending
  BY DEF Kept, Good, Typed, Fields
<1>5. Good(d)
  BY EventTakenGood DEF Kept
<1> HIDE DEF d
<1>6. Kept(gsm48_mm_cell_selected(d))
  <2> USE <1>5, MmIdleKept
  <2>1. \A sst \in {"NO_IMSI", "LIMITED_SERVICE", "LOC_UPD_NEEDED"} : Kept(new_mm_state_idle(d, sst))
    BY DEF SubStates, Serving
  <2>2. d.reg = d.la => Kept(new_mm_state_idle(d, "NORMAL"))
    BY DEF SubStates, Serving
  <2> QED BY <2>1, <2>2 DEF gsm48_mm_cell_selected
<1>7. /\ Kept(gsm48_mm_return_idle(d)) /\ Kept(gsm48_mm_loc_upd_normal(d))
      /\ Kept(new_mm_state_idle(d, "NO_CELL")) /\ Kept(new_mm_state_idle(d, "PLMN_SEARCH"))
  BY <1>5, MmIdleKept DEF SubStates
<1>8. ASSUME event = "CELL_SELECTED" PROVE Kept(gsm48_mm_event(d, event))
  <2>1. CASE d.mm = "IDLE" /\ d.sst = "NORMAL"
    BY <1>7, <1>8, <2>1 DEF gsm48_mm_event, Serving
  <2>2. CASE ~(d.mm = "IDLE" /\ d.sst = "NORMAL")
    <3>1. Kept(d)
      BY <1>5, <2>2 DEF Kept, ServiceKept
    <3> QED BY <1>6, <1>7, <1>8, <3>1 DEF gsm48_mm_event
  <2> QED BY <2>1, <2>2
<1>9. ASSUME event # "CELL_SELECTED" PROVE Kept(gsm48_mm_event(d, event))
  <2>1. d.cs = "CAMPED" => d.ev # <<>>
    <3> SUFFICES ASSUME e.cs = "CAMPED", Tail(e.ev) = <<>> PROVE FALSE
      BY <1>3
    <3>1. Len(e.ev) = 1
      <4>1. Len(Tail(e.ev)) = Len(e.ev) - 1 /\ Len(e.ev) \in Nat
        BY <1>1
      <4>2. Len(<<>>) = 0
        OBVIOUS
      <4>3. Len(Tail(e.ev)) = 0
        BY Zenon, <4>2
      <4> HIDE <1>1
      <4> DEFINE n == Len(e.ev)
                 t == Len(Tail(e.ev))
      <4>4. t = n - 1 /\ n \in Nat /\ t = 0
        BY <4>1, <4>3
      <4> HIDE DEF n, t
      <4>5. n = 1
        BY <4>4
      <4> QED BY <4>5 DEF n
    <3>2. e.ev[1] = "CELL_SELECTED"
      BY <3>1 DEF Kept, Good, CellReported
    <3> QED BY <1>1, <1>9, <3>2
  <2>2. Kept(d)
    BY <1>5, <2>1 DEF Kept, ServiceKept
  <2> QED BY <1>7, <1>9, <2>2 DEF gsm48_mm_event
<1> HIDE DEF event
<1>10. Kept(gsm48_mm_event(d, event))
  BY <1>8, <1>9
<1> QED BY <1>10 DEF d, event

LEMMA ServiceTimersKept ==
  ASSUME NEW e, Kept(e)
  PROVE  Kept(timeout_mm_t3230(e)) /\ Kept(timeout_mm_t3240(e)) /\ Kept(timeout_mm_t3210(e))
<1> DEFINE d == [e EXCEPT !.t3230 = FALSE]
           g == [e EXCEPT !.t3240 = FALSE]
           h == [e EXCEPT !.t3210 = FALSE]
<1>1. IsFcn(d) /\ IsFcn(g) /\ IsFcn(h)
  BY Zenon DEF IsFcn
<1>2. Typed(d) /\ Same(e, d) /\ Typed(g) /\ Same(e, g) /\ Typed(h) /\ Same(e, h)
  BY DEF Kept, Good, Typed, Fields, Same
<1>3. Kept(d) /\ Kept(g) /\ Kept(h)
  BY <1>1, <1>2, SameKept
<1> HIDE DEF d, g, h
<1>4. Kept(gsm48_mm_timeout_mm_con(d))
  <2>1. Good(gsm48_mm_release_mm_conn(d, Pending(d), "REL_IND"))
    BY <1>3, ReleaseConnKept DEF MmxxPrims, Kept
  <2> QED BY <2>1, ActiveOrWaitKept DEF gsm48_mm_timeout_mm_con
<1>5. Kept(gsm48_mm_abort_rr(g))
  BY <1>3, AbortReqKept, MmIdleKept DEF gsm48_mm_abort_rr, Kept
<1>6. Kept(gsm48_mm_loc_upd_failed(gsm48_rr_abort_req(h)))
  BY <1>3, AbortReqKept, LocUpdFailedKept DEF Kept
<1> QED BY <1>3, <1>4, <1>5, <1>6 DEF timeout_mm_t3230, timeout_mm_t3240, timeout_mm_t3210, d, g, h

LEMMA UpdateTimersKept ==
  ASSUME NEW e, Kept(e)
  PROVE  Kept(timeout_mm_t3211(e)) /\ Kept(timeout_mm_t3212(e))
<1> DEFINE d == [e EXCEPT !.t3211 = FALSE]
           l == [d EXCEPT !.lost = @ \/ e.pending]
           r == [d EXCEPT !.retry = TRUE]
           g == [e EXCEPT !.t3212 = FALSE]
           p == [g EXCEPT !.periodic = TRUE]
<1>1. IsFcn(d) /\ IsFcn(l) /\ IsFcn(r) /\ IsFcn(g) /\ IsFcn(p)
  BY Zenon DEF IsFcn
<1>2. /\ Typed(d) /\ Same(e, d) /\ Typed(l) /\ Same(e, l) /\ Typed(r) /\ Same(e, r)
      /\ Typed(g) /\ Same(e, g) /\ Typed(p) /\ Same(e, p)
  BY DEF Kept, Good, Typed, Fields, Same
<1>3. Kept(d) /\ Kept(l) /\ Kept(r) /\ Kept(g) /\ Kept(p)
  BY <1>1, <1>2, SameKept
<1> HIDE DEF d, g, l, r, p
<1>4. Kept(gsm48_mm_loc_upd(d)) /\ Kept(gsm48_mm_loc_upd_periodic(g))
  BY <1>3, MmIdleKept, LocUpdSettles, LocUpdPeriodicKept DEF Kept, gsm48_mm_loc_upd_periodic
<1> QED BY <1>3, <1>4 DEF timeout_mm_t3211, timeout_mm_t3212, d, g, l, r, p

-----------------------------------------------------------------------------
(* The channel and the cell: radio resources ask for a channel and use it   *)
(* only while cell selection is in connected mode.  PLMN selection is what  *)
(* could take it out of connected mode meanwhile, after a rejection of a    *)
(* location update: but then the channel is given back, and the area or the *)
(* SIM that was refused keeps another update from being begun.              *)

Tuned(d) == d.rr \in {"CONN_PEND", "DEDICATED"}

\* The messages that the phone itself puts into its queues, and those of radio
\* resources that do not end the channel.
RslOwn == [prim : {"REL_IND", "REL_CONF", "ERROR_IND"}, sapi : {0}] \cup [prim : RslPrims, sapi : {3}]
RrOwn == [prim : {"EST_CNF", "EST_IND", "REL_IND", "ABORT_IND"}, sapi : {0}]
           \cup [prim : RrPrims, sapi : {3}]
RrLive == [prim : {"EST_CNF", "EST_IND"}, sapi : {0}] \cup [prim : RrPrims, sapi : {3}]

\* No location update can be begun.
Refused(d) ==
  /\ d.reg = None
  /\ d.mm \notin {"WAIT_RR_CONN_LUPD", "LOC_UPD_INIT"}
  /\ d.la \in d.forb \/ (~d.sim /\ ~(d.mm = "IDLE" /\ d.sst \in Serving))

\* What holds while a message about the channel is being written ...
Loose(d) ==
  /\ DOMAIN d = Fields
  /\ d.rslq \in Seq(RslOwn) /\ d.rrq \in Seq(RrOwn)
  /\ d.la \in Areas
  /\ Tuned(d) => d.cs = "CONNECTED"
  /\ d.mm = "LOC_UPD_REJ" => d.rej \in LuRejections
  /\ d.plmn => ~Tuned(d) /\ Refused(d)

\* ... and when it has been: a rejected update that ends has no channel any more.
Ending(d) == d.mm = "LOC_UPD_REJ" /\ Tuned(d) => d.rrq \in Seq(RrLive)
Linked(d) == Loose(d) /\ Ending(d)

\* A phone with the same channel, cell and registration.
SameCell(e, d) ==
  /\ DOMAIN d = DOMAIN e
  /\ d.rr = e.rr /\ d.cs = e.cs /\ d.rslq = e.rslq /\ d.rrq = e.rrq
  /\ d.la = e.la /\ d.forb = e.forb /\ d.reg = e.reg /\ d.sim = e.sim /\ d.plmn = e.plmn
Alike(e, d) == SameCell(e, d) /\ d.mm = e.mm /\ d.sst = e.sst /\ d.rej = e.rej

LEMMA AlikeLinked ==
  ASSUME NEW e, NEW d, Alike(e, d)
  PROVE  (Loose(e) => Loose(d)) /\ (Linked(e) => Linked(d))
BY DEF Alike, SameCell, Linked, Loose, Ending, Tuned, Refused

\* Mobility management goes to a state in which it uses the channel.
LEMMA MovedLinked ==
  ASSUME NEW e, Loose(e), NEW d, SameCell(e, d),
         d.mm \notin {"IDLE", "LOC_UPD_REJ", "WAIT_RR_CONN_LUPD", "LOC_UPD_INIT"}
  PROVE  Linked(d)
BY DEF SameCell, Linked, Loose, Ending, Tuned, Refused

\* Messages are queued.
LEMMA RslUpLinked ==
  ASSUME NEW e, NEW p, NEW s, [prim |-> p, sapi |-> s] \in RslOwn
  PROVE  LET d == RslUp(e, p, s) IN (Loose(e) => Loose(d)) /\ (Linked(e) => Linked(d))
<1> DEFINE d == RslUp(e, p, s)
<1>1. ASSUME Loose(e)
      PROVE  /\ DOMAIN d = Fields /\ d.rslq \in Seq(RslOwn) /\ d.rrq = e.rrq
             /\ d.rr = e.rr /\ d.cs = e.cs /\ d.la = e.la /\ d.forb = e.forb /\ d.reg = e.reg
             /\ d.sim = e.sim /\ d.plmn = e.plmn /\ d.mm = e.mm /\ d.sst = e.sst /\ d.rej = e.rej
  <2> DEFINE m == [prim |-> p, sapi |-> s]
  <2>1. m \in RslOwn /\ e.rslq \in Seq(RslOwn)
    BY <1>1 DEF Loose
  <2> HIDE DEF m
  <2>2. Append(e.rslq, m) \in Seq(RslOwn)
    BY <2>1
  <2> QED BY <1>1, <2>2 DEF Loose, Fields, RslUp, m
<1> HIDE DEF d
<1> QED BY <1>1 DEF Linked, Loose, Ending, Tuned, Refused, d

LEMMA UpmsgLinked ==
  ASSUME NEW e, NEW p, NEW s, [prim |-> p, sapi |-> s] \in RrOwn
  PROVE  LET d == gsm48_rr_upmsg(e, p, s) IN
         /\ Loose(e) => Loose(d)
         /\ Linked(e) /\ (e.mm # "LOC_UPD_REJ" \/ [prim |-> p, sapi |-> s] \in RrLive) => Linked(d)
<1> DEFINE d == gsm48_rr_upmsg(e, p, s)
           m == [prim |-> p, sapi |-> s]
<1>1. ASSUME Loose(e)
      PROVE  /\ DOMAIN d = Fields /\ d.rrq = Append(e.rrq, m) /\ d.rslq = e.rslq
             /\ d.rr = e.rr /\ d.cs = e.cs /\ d.la = e.la /\ d.forb = e.forb /\ d.reg = e.reg
             /\ d.sim = e.sim /\ d.plmn = e.plmn /\ d.mm = e.mm /\ d.sst = e.sst /\ d.rej = e.rej
  BY <1>1 DEF Loose, Fields, gsm48_rr_upmsg
<1>2. m \in RrOwn
  OBVIOUS
<1> HIDE DEF d, m
<1>3. Loose(e) => Append(e.rrq, m) \in Seq(RrOwn)
  BY <1>2 DEF Loose
<1>4. e.rrq \in Seq(RrLive) /\ m \in RrLive => Append(e.rrq, m) \in Seq(RrLive)
  OBVIOUS
<1>5. Loose(e) => Loose(d)
  BY <1>1, <1>3 DEF Loose, Tuned, Refused
<1>6. Linked(e) /\ (e.mm # "LOC_UPD_REJ" \/ m \in RrLive) => Ending(d)
  BY <1>1, <1>4 DEF Linked, Ending, Tuned
<1> QED BY <1>5, <1>6 DEF Linked, d, m

\* The messages of radio resources, and which of them leave the channel up.
LEMMA OwnMessages ==
  /\ [prim |-> "REL_CONF", sapi |-> 0] \in RslOwn
  /\ \A p \in {"EST_CNF", "EST_IND", "REL_IND", "ABORT_IND"} :
       /\ [prim |-> p, sapi |-> 0] \in RrOwn
       /\ [prim |-> p, sapi |-> 3] \in RrOwn /\ [prim |-> p, sapi |-> 3] \in RrLive
  /\ \A p \in {"EST_CNF", "EST_IND"} : [prim |-> p, sapi |-> 0] \in RrLive
BY DEF RslOwn, RrOwn, RrLive, RrPrims

LEMMA DataLinkLinked ==
  ASSUME NEW e, NEW local
  PROVE  /\ Loose(e) => Loose(DlEstReq(e)) /\ Loose(DlRelReq(e, local))
         /\ Linked(e) => Linked(DlEstReq(e)) /\ Linked(DlRelReq(e, local))
<1>1. Loose(e) => Alike(e, DlEstReq(e))
  BY DEF Loose, Fields, Alike, SameCell, DlEstReq
<1>2. Loose(e) => Alike(e, LinkDown(e)) /\ Alike(e, [e EXCEPT !.dl = "DISC_SENT"])
  BY DEF Loose, Fields, Alike, SameCell, LinkDown
<1>3. /\ Loose(e) => Loose(RslUp(LinkDown(e), "REL_CONF", 0))
      /\ Linked(e) => Linked(RslUp(LinkDown(e), "REL_CONF", 0))
  BY <1>2, AlikeLinked, RslUpLinked, OwnMessages DEF Linked
<1> QED BY <1>1, <1>2, <1>3, AlikeLinked DEF DlRelReq, Linked

LEMMA ReleaseSapi3Linked ==
  ASSUME NEW e, Linked(e)
  PROVE  Linked(gsm48_release_sapi3_link(e))
<1> DEFINE d == [e EXCEPT !.s3 = "IDLE", !.dl3 = "IDLE"]
<1>1. Alike(e, d)
  BY DEF Linked, Loose, Fields, Alike, SameCell
<1> HIDE DEF d
<1>2. Linked(gsm48_rr_upmsg(d, "REL_IND", 3))
  BY <1>1, AlikeLinked, UpmsgLinked, OwnMessages
<1> QED BY <1>2 DEF gsm48_release_sapi3_link, d

\* Giving the channel back: cell selection leaves connected mode with it.
LEMMA ReturnLinked ==
  ASSUME NEW e, Loose(e), NEW state \in {"IDLE", "REL_PEND"}
  PROVE  Linked(new_rr_state(e, state))
<1> DEFINE d == [e EXCEPT !.rr = state]
           g == [e EXCEPT !.rr = "IDLE", !.est_req = FALSE, !.est_msg = None]
<1>1. Linked(d) /\ Linked(g) /\ ~Tuned(g)
  BY DEF Linked, Loose, Ending, Tuned, Refused, Fields
<1> HIDE DEF g
<1>2. Linked(RetIdle(g))
  <2> DEFINE r == [g EXCEPT !.cs = "CAMPED", !.ev = Append(@, "CELL_SELECTED")]
             s == [g EXCEPT !.cs = "CHOOSING"]
  <2>1. Linked(r) /\ Linked(s)
    BY <1>1 DEF Linked, Loose, Ending, Tuned, Refused, Fields
  <2> HIDE DEF r, s
  <2>2. RetIdle(g) \in {g, r, s}
    BY DEF RetIdle, r, s
  <2> QED BY <1>1, <2>1, <2>2
<1> HIDE DEF d
<1>3. new_rr_state(e, state) \in {d, RetIdle(g)}
  BY DEF new_rr_state, d, g
<1> QED BY <1>1, <1>2, <1>3

\* Asking for a channel: not while PLMN selection is to choose.
LEMMA ChanReqLinked ==
  ASSUME NEW e, Loose(e), ~e.plmn, e.mm # "LOC_UPD_REJ" \/ e.rrq = <<>>, NEW lupd
  PROVE  LET d == gsm48_rr_chan_req(e, lupd) IN Linked(d) /\ ~d.plmn /\ d.mm = e.mm
<1> DEFINE n == [e EXCEPT !.rr = "CONN_PEND"]
           d == [n EXCEPT !.cs = "CONNECTED", !.access = TRUE, !.lupd = lupd]
<1>1. gsm48_rr_chan_req(e, lupd) = d
  BY DEF gsm48_rr_chan_req, new_rr_state
<1>2. <<>> \in Seq(RrLive)
  OBVIOUS
<1>3. Linked(d) /\ ~d.plmn /\ d.mm = e.mm
  BY <1>2 DEF Linked, Loose, Ending, Tuned, Refused, Fields
<1> HIDE DEF d
<1> QED BY <1>1, <1>3

LEMMA EstReqLinked ==
  ASSUME NEW e, Linked(e), ~e.plmn, e.mm # "LOC_UPD_REJ", NEW req
  PROVE  LET d == gsm48_rr_est_req(e, req) IN Linked(d) /\ ~d.plmn /\ d.mm = e.mm
<1> DEFINE d == [e EXCEPT !.est_req = TRUE, !.est_msg = req]
           u == gsm48_rr_upmsg(e, "REL_IND", 0)
<1>1. Alike(e, d) /\ u.plmn = e.plmn /\ u.mm = e.mm
  BY DEF Linked, Loose, Fields, Alike, SameCell, gsm48_rr_upmsg
<1>2. Linked(u)
  BY UpmsgLinked, OwnMessages
<1> HIDE DEF d, u
<1>3. Linked(d) /\ ~d.plmn /\ d.mm = e.mm
  BY <1>1, AlikeLinked DEF Alike, SameCell
<1>4. LET r == gsm48_rr_chan_req(d, req = Lupd) IN Linked(r) /\ ~r.plmn /\ r.mm = e.mm
  BY <1>3, ChanReqLinked DEF Linked
<1> QED BY <1>1, <1>2, <1>4 DEF gsm48_rr_est_req, d, u

LEMMA AbortReqLinked ==
  ASSUME NEW e, Linked(e)
  PROVE  Linked(gsm48_rr_abort_req(e))
<1> DEFINE d == [e EXCEPT !.access = FALSE]
<1>1. Alike(e, d)
  BY DEF Linked, Loose, Fields, Alike, SameCell
<1>2. Linked(new_rr_state(d, "IDLE"))
  BY <1>1, AlikeLinked, ReturnLinked DEF Linked
<1>3. Linked(gsm48_release_sapi3_link(DlRelReq(new_rr_state(e, "REL_PEND"), FALSE)))
  BY ReturnLinked, DataLinkLinked, ReleaseSapi3Linked DEF Linked
<1> QED BY <1>2, <1>3 DEF gsm48_rr_abort_req

\* What comes from the data link, and random access.
LEMMA RrDownLinked ==
  ASSUME NEW e, Linked(e)
  PROVE  /\ Linked(gsm48_rr_rel_ind(e)) /\ Linked(gsm48_rr_rel_cnf(e))
         /\ Linked(gsm48_rr_mdl_error_ind(e)) /\ Linked(gsm48_rr_rx_chan_rel(e))
<1>1. Linked(gsm48_rr_rel_ind(e))
  <2> DEFINE told == gsm48_rr_upmsg(e, "REL_IND", 0)
             d == [told EXCEPT !.rel_wait = TRUE]
  <2>1. Loose(told)
    BY UpmsgLinked, OwnMessages DEF Linked
  <2> HIDE DEF told
  <2>2. Alike(told, d)
    BY <2>1 DEF Loose, Fields, Alike, SameCell
  <2> HIDE DEF d
  <2>3. Linked(gsm48_release_sapi3_link(new_rr_state(d, "REL_PEND")))
    BY <2>1, <2>2, AlikeLinked, ReturnLinked, ReleaseSapi3Linked
  <2> QED BY <2>3 DEF gsm48_rr_rel_ind, told, d
<1>2. Linked(gsm48_rr_rel_cnf(e))
  <2> DEFINE d == [e EXCEPT !.t3110 = FALSE]
  <2>1. Alike(e, d)
    BY DEF Linked, Loose, Fields, Alike, SameCell
  <2> HIDE DEF d
  <2>2. Linked(new_rr_state(gsm48_rr_upmsg(d, "REL_IND", 0), "IDLE"))
    BY <2>1, AlikeLinked, UpmsgLinked, OwnMessages, ReturnLinked DEF Linked
  <2> QED BY <2>2 DEF gsm48_rr_rel_cnf, d
<1>3. Linked(gsm48_rr_mdl_error_ind(e))
  <2> DEFINE told == gsm48_rr_upmsg(DlRelReq(e, TRUE), "ABORT_IND", 0)
  <2>1. Loose(told)
    BY DataLinkLinked, UpmsgLinked, OwnMessages DEF Linked
  <2> HIDE DEF told
  <2>2. Linked(gsm48_release_sapi3_link(new_rr_state(told, "IDLE")))
    BY <2>1, ReturnLinked, ReleaseSapi3Linked
  <2> QED BY <2>2 DEF gsm48_rr_mdl_error_ind, told
<1>4. Linked(gsm48_rr_rx_chan_rel(e))
  <2> DEFINE n == new_rr_state(e, "REL_PEND")
             d == [n EXCEPT !.t3110 = TRUE]
  <2>1. Linked(n)
    BY ReturnLinked DEF Linked
  <2> HIDE DEF n
  <2>2. Alike(n, d)
    BY <2>1 DEF Linked, Loose, Fields, Alike, SameCell
  <2> HIDE DEF d
  <2>3. Linked(gsm48_release_sapi3_link(DlRelReq(d, FALSE)))
    BY <2>1, <2>2, AlikeLinked, DataLinkLinked, ReleaseSapi3Linked
  <2> QED BY <2>3 DEF gsm48_rr_rx_chan_rel, n, d
<1> QED BY <1>1, <1>2, <1>3, <1>4

\* A channel comes up only for radio resources that asked for it.
LEMMA RrUpLinked ==
  ASSUME NEW e, Linked(e)
  PROVE  /\ e.rr # "IDLE" => Linked(gsm48_rr_estab_cnf(e))
         /\ Linked(gsm48_rr_rx_imm_ass(e)) /\ Linked(gsm48_rr_rx_imm_ass_rej(e))
<1>1. e.rr # "IDLE" => Linked(gsm48_rr_estab_cnf(e))
  <2> DEFINE d == [e EXCEPT !.rr = "DEDICATED"]
  <2>1. ASSUME e.rr = "CONN_PEND"
        PROVE  \A p \in {"EST_CNF", "EST_IND"} :
                 Linked(gsm48_rr_upmsg(new_rr_state(e, "DEDICATED"), p, 0))
    <3>1. new_rr_state(e, "DEDICATED") = d
      BY DEF new_rr_state
    <3>2. Linked(d)
      BY <2>1 DEF Linked, Loose, Ending, Tuned, Refused, Fields
    <3> HIDE DEF d
    <3> QED BY <3>1, <3>2, UpmsgLinked, OwnMessages
  <2>2. Linked(DlRelReq(e, FALSE))
    BY DataLinkLinked
  <2> QED BY <2>1, <2>2 DEF gsm48_rr_estab_cnf
<1>2. Linked(gsm48_rr_rx_imm_ass(e)) /\ Linked(gsm48_rr_rx_imm_ass_rej(e))
  <2> DEFINE d == [e EXCEPT !.access = FALSE]
             g == [e EXCEPT !.t3122 = TRUE]
  <2>1. Alike(e, d) /\ Alike(e, g)
    BY DEF Linked, Loose, Fields, Alike, SameCell
  <2>2. Linked(DlEstReq(d)) /\ Linked(g)
    BY <2>1, AlikeLinked, DataLinkLinked
  <2> QED BY <2>2 DEF gsm48_rr_rx_imm_ass, gsm48_rr_rx_imm_ass_rej, gsm48_rr_dl_est
<1> QED BY <1>1, <1>2

LEMMA Sapi3Linked ==
  ASSUME NEW e, Linked(e)
  PROVE  /\ Linked(gsm48_rr_estab_cnf_sapi3(e)) /\ Linked(gsm48_rr_estab_ind_sapi3(e))
         /\ Linked(gsm48_rr_rel_ind_sapi3(e)) /\ Linked(gsm48_rr_mdl_error_ind_sapi3(e))
         /\ Linked(gsm48_rr_est_req_sapi3(e))
<1> DEFINE d == [e EXCEPT !.s3 = "ESTAB"]
           g == [e EXCEPT !.s3 = "IDLE"]
           h == [e EXCEPT !.s3 = "IDLE", !.dl3 = "IDLE"]
           w == [e EXCEPT !.s3 = "WAIT_EST", !.dl3 = IF @ = "IDLE" THEN "SABM_SENT" ELSE @]
<1>1. Alike(e, d) /\ Alike(e, g) /\ Alike(e, h) /\ Alike(e, w)
  BY DEF Linked, Loose, Fields, Alike, SameCell
<1>2. Linked(d) /\ Linked(g) /\ Linked(h) /\ Linked(w)
  BY <1>1, AlikeLinked
<1> HIDE DEF d, g, h, w
<1>3. /\ Linked(gsm48_rr_upmsg(d, "EST_CNF", 3)) /\ Linked(gsm48_rr_upmsg(d, "EST_IND", 3))
      /\ Linked(gsm48_rr_upmsg(g, "REL_IND", 3)) /\ Linked(gsm48_rr_upmsg(h, "ABORT_IND", 3))
      /\ Linked(gsm48_rr_upmsg(e, "EST_CNF", 3)) /\ Linked(gsm48_rr_upmsg(e, "REL_IND", 3))
  BY <1>2, UpmsgLinked, OwnMessages
<1> QED BY <1>2, <1>3, ReleaseSapi3Linked
        DEF gsm48_rr_estab_cnf_sapi3, gsm48_rr_estab_ind_sapi3, gsm48_rr_rel_ind_sapi3,
            gsm48_rr_mdl_error_ind_sapi3, gsm48_rr_est_req_sapi3, d, g, h, w

LEMMA RrTimersLinked ==
  ASSUME NEW e, Linked(e)
  PROVE  /\ Linked(timeout_rr_t3126(e)) /\ Linked(timeout_rr_t3110(e))
         /\ Linked(timeout_rr_t_rel_wait(e)) /\ Linked(gsm48_rr_los(e))
<1> DEFINE a == [e EXCEPT !.access = FALSE]
           d == [e EXCEPT !.t3110 = FALSE]
           g == [e EXCEPT !.rel_wait = FALSE]
           h == [d EXCEPT !.access = FALSE]
<1>1. Alike(e, a) /\ Alike(e, d) /\ Alike(e, g) /\ Alike(e, h)
  BY DEF Linked, Loose, Fields, Alike, SameCell
<1>2. Linked(a) /\ Linked(d) /\ Linked(g) /\ Linked(h)
  BY <1>1, AlikeLinked
<1> HIDE DEF a, g, h
<1>3. Linked(timeout_rr_t3126(e))
  <2> DEFINE told == gsm48_rr_upmsg(e, "REL_IND", 0)
             r == [told EXCEPT !.access = FALSE]
  <2>1. Loose(told)
    BY UpmsgLinked, OwnMessages DEF Linked
  <2> HIDE DEF told
  <2>2. Alike(told, r)
    BY <2>1 DEF Loose, Fields, Alike, SameCell
  <2> HIDE DEF r
  <2>3. Linked(new_rr_state(r, "IDLE")) /\ Linked(new_rr_state(a, "IDLE"))
    BY <1>2, <2>1, <2>2, AlikeLinked, ReturnLinked DEF Linked
  <2> QED BY <2>3 DEF timeout_rr_t3126, told, r, a
<1> HIDE DEF d
<1>4. Linked(gsm48_release_sapi3_link(DlRelReq(new_rr_state(d, "REL_PEND"), TRUE)))
  BY <1>2, ReturnLinked, DataLinkLinked, ReleaseSapi3Linked DEF Linked
<1>5. Linked(new_rr_state(g, "IDLE"))
  BY <1>2, ReturnLinked DEF Linked
<1>6. Linked(new_rr_state(gsm48_rr_upmsg(h, "REL_IND", 0), "IDLE"))
  BY <1>2, UpmsgLinked, OwnMessages, ReturnLinked DEF Linked
<1> QED BY <1>2, <1>3, <1>4, <1>5, <1>6
        DEF timeout_rr_t3110, timeout_rr_t_rel_wait, gsm48_rr_los, d, g, h

\* Idle, with no update to be tried.
LEMMA UpdateDoneAlike ==
  ASSUME NEW e, DOMAIN e = Fields
  PROVE  Alike(e, UpdateDone(e))
BY DEF Fields, Alike, SameCell, UpdateDone

LEMMA PendingAlike ==
  ASSUME NEW e, DOMAIN e = Fields, NEW p
  PROVE  Alike(e, [e EXCEPT !.pending = p])
BY DEF Fields, Alike, SameCell

LEMMA EnterLimitedLinked ==
  ASSUME NEW e, Linked(e), NEW sst, sst \notin {"NORMAL", "ATTEMPT_UPDATE"},
         e.plmn => sst \notin Serving \/ e.la \in e.forb, NEW locUpd
  PROVE  LET d == EnterIdle(e, sst, locUpd) IN Linked(d) /\ d.plmn = e.plmn
<1> DEFINE d == [e EXCEPT !.mm = "IDLE", !.sst = sst, !.rej = None, !.t3212 = @ \/ (Periodic /\ FALSE)]
<1>1. EnterIdle(e, sst, locUpd) = d
  BY DEF EnterIdle
<1>2. Linked(d) /\ d.plmn = e.plmn
  BY DEF Linked, Loose, Ending, Tuned, Refused, Fields
<1> HIDE DEF d
<1> QED BY <1>1, <1>2

\* While PLMN selection has yet to choose, no update is begun.
LEMMA RefusedReturnLinked ==
  ASSUME NEW e, Linked(e), e.plmn, NEW locUpd
  PROVE  Linked(ReturnIdle(e, locUpd))
<1> DEFINE d == [e EXCEPT !.t3211 = @ \/ e.start_t3211, !.start_t3211 = FALSE]
           n == [d EXCEPT !.t3212 = FALSE]
<1>1. Alike(e, d) /\ Alike(e, n) /\ DOMAIN n = Fields
  BY ZenonT(40) DEF Linked, Loose, Fields, Alike, SameCell
<1> HIDE DEF d, n
<1>2. Linked(d) /\ Linked(UpdateDone(n))
  BY <1>1, AlikeLinked, UpdateDoneAlike
<1>3. d.la = e.la /\ d.forb = e.forb /\ UpdateDone(n).plmn = d.plmn
  BY <1>1, UpdateDoneAlike DEF Alike, SameCell
<1>4. Linked(NewStateIdle(d, "PLMN_SEARCH", locUpd)) /\ Linked(NewStateIdle(UpdateDone(n), "NO_IMSI", locUpd))
  BY <1>2, EnterLimitedLinked DEF NewStateIdle, Serving
<1>5. ASSUME e.la \in e.forb PROVE Linked(NewStateIdle(d, "LIMITED_SERVICE", locUpd))
  BY <1>2, <1>3, <1>5, EnterLimitedLinked DEF NewStateIdle
<1>6. ASSUME e.sim PROVE e.la \in e.forb /\ e.reg # e.la
  BY <1>6, RefAssumption DEF Linked, Loose, Refused
<1> QED BY <1>4, <1>5, <1>6 DEF ReturnIdle, d, n

\* What the next of the nested calls is to do.
SettlesLinked(locUpd) ==
  \A e : Good(e) /\ Linked(e) /\ ~e.plmn => Linked(locUpd[e]) /\ ~locUpd[e].plmn

LEMMA LocUpdPeriodicLinked ==
  ASSUME NEW e, Good(e), Linked(e), ~e.plmn, NEW locUpd, SettlesLinked(locUpd)
  PROVE  LET d == LocUpdPeriodic(e, locUpd) IN Linked(d) /\ ~d.plmn
<1> DEFINE p == [e EXCEPT !.pending = TRUE]
<1>1. Good(p)
  BY PendingGood
<1>2. Alike(e, p)
  BY PendingAlike DEF Linked, Loose
<1> HIDE DEF p
<1>3. Linked(p) /\ ~p.plmn
  BY <1>2, AlikeLinked DEF Alike, SameCell
<1> QED BY <1>1, <1>3 DEF LocUpdPeriodic, SettlesLinked, p

LEMMA EnterIdleLinked ==
  ASSUME NEW e, Good(e), Linked(e), ~e.plmn, NEW sst \in SubStates,
         NEW locUpd, SettlesLinked(locUpd)
  PROVE  LET d == EnterIdle(e, sst, locUpd) IN Linked(d) /\ ~d.plmn
<1> DEFINE updating == sst \in {"NORMAL", "ATTEMPT_UPDATE"}
           d == [e EXCEPT !.mm = "IDLE", !.sst = sst, !.rej = None,
                          !.t3212 = @ \/ (Periodic /\ updating)]
           r == [d EXCEPT !.retry = FALSE]
           p == [d EXCEPT !.periodic = FALSE]
<1>1. IsFcn(d) /\ IsFcn(r) /\ IsFcn(p)
  BY Zenon DEF IsFcn
<1>2. Typed(d) /\ d.cs = e.cs /\ d.ev = e.ev /\ d.conn = e.conn
  BY RefAssumption DEF Good, Typed, Fields, SubStates
<1>3. Linked(d) /\ ~d.plmn
  BY DEF Linked, Loose, Ending, Tuned, Refused, Fields
<1>4. EnterIdle(e, sst, locUpd) \in {locUpd[r], LocUpdPeriodic(p, locUpd), d}
  BY DEF EnterIdle
<1> HIDE DEF d
<1>5. Good(d)
  BY <1>1, <1>2 DEF Good, OnePending, Pending, CellReported
<1>6. /\ Typed(r) /\ Same(d, r) /\ Alike(d, r)
      /\ Typed(p) /\ Same(d, p) /\ Alike(d, p)
  BY <1>2 DEF Typed, Fields, Same, Alike, SameCell
<1>7. Good(r) /\ Good(p)
  BY <1>1, <1>5, <1>6, SameGood
<1>8. Linked(r) /\ ~r.plmn /\ Linked(p) /\ ~p.plmn
  BY <1>3, <1>6, AlikeLinked DEF Alike, SameCell
<1> HIDE DEF r, p
<1>9. LET l == LocUpdPeriodic(p, locUpd) IN Linked(l) /\ ~l.plmn
  BY <1>7, <1>8, LocUpdPeriodicLinked
<1>10. Linked(locUpd[r]) /\ ~locUpd[r].plmn
  BY <1>7, <1>8 DEF SettlesLinked
<1> QED BY <1>3, <1>4, <1>9, <1>10

LEMMA LocUpdNormalLinked ==
  ASSUME NEW e, Good(e), Linked(e), ~e.plmn, NEW locUpd, SettlesLinked(locUpd)
  PROVE  LET d == LocUpdNormal(e, locUpd) IN Linked(d) /\ ~d.plmn
<1> DEFINE p == [e EXCEPT !.pending = TRUE]
           n == EnterIdle(e, "NORMAL", locUpd)
<1>1. Good(p)
  BY PendingGood
<1>2. Alike(e, p)
  BY PendingAlike DEF Linked, Loose
<1>3. Linked(n) /\ ~n.plmn
  BY EnterIdleLinked DEF SubStates, Serving
<1> HIDE DEF p, n
<1>4. Linked(p) /\ ~p.plmn
  BY <1>2, AlikeLinked DEF Alike, SameCell
<1>5. Linked(locUpd[p]) /\ ~locUpd[p].plmn
  BY <1>1, <1>4 DEF SettlesLinked
<1>6. LocUpdNormal(e, locUpd) \in {e, n, locUpd[p]}
  BY DEF LocUpdNormal, n, p
<1> QED BY <1>3, <1>5, <1>6

LEMMA NewStateIdleLinked ==
  ASSUME NEW e, Good(e), Linked(e), ~e.plmn, NEW sst \in SubStates \cup {"LOC_UPD_NEEDED"},
         sst = "NORMAL" => e.reg = e.la,
         NEW locUpd, Settles(locUpd), SettlesLinked(locUpd)
  PROVE  LET d == NewStateIdle(e, sst, locUpd) IN Linked(d) /\ ~d.plmn
<1>1. CASE sst = "LOC_UPD_NEEDED"
  <2> DEFINE a == EnterIdle(e, "ATTEMPT_UPDATE", locUpd)
  <2>1. Good(a) /\ Linked(a) /\ ~a.plmn
    BY EnterIdleKept, EnterIdleLinked DEF SubStates, Serving, Kept
  <2> HIDE DEF a
  <2>2. LET d == LocUpdNormal(a, locUpd) IN Linked(d) /\ ~d.plmn
    BY <2>1, LocUpdNormalLinked
  <2> QED BY <1>1, <2>2 DEF NewStateIdle, a
<1>2. CASE sst # "LOC_UPD_NEEDED"
  BY <1>2, EnterIdleLinked DEF NewStateIdle
<1> QED BY <1>1, <1>2

LEMMA ReturnIdleLinked ==
  ASSUME NEW e, Good(e), Linked(e), ~e.plmn, NEW locUpd, Settles(locUpd), SettlesLinked(locUpd)
  PROVE  LET d == ReturnIdle(e, locUpd) IN Linked(d) /\ ~d.plmn
<1> DEFINE d == [e EXCEPT !.t3211 = @ \/ e.start_t3211, !.start_t3211 = FALSE]
           n == [d EXCEPT !.t3212 = FALSE]
<1>1. IsFcn(d) /\ IsFcn(n)
  BY Zenon DEF IsFcn
<1>2. /\ Typed(d) /\ Same(e, d) /\ Alike(e, d)
      /\ Typed(n) /\ Same(e, n) /\ Alike(e, n) /\ DOMAIN n = Fields
  BY DEF Good, Typed, Fields, Same, Alike, SameCell
<1>3. Good(d) /\ Good(n) /\ Good(UpdateDone(n))
  BY <1>1, <1>2, SameGood, UpdateDoneGood
<1> HIDE DEF d, n
<1>4. /\ Linked(d) /\ ~d.plmn /\ d.reg = e.reg /\ d.la = e.la
      /\ Linked(UpdateDone(n)) /\ ~UpdateDone(n).plmn
  <2>1. Alike(n, UpdateDone(n))
    BY <1>2, UpdateDoneAlike
  <2>2. Linked(d) /\ Linked(UpdateDone(n))
    BY <1>2, <2>1, AlikeLinked
  <2> QED BY <1>2, <2>1, <2>2 DEF Alike, SameCell
<1>5. \A sst \in SubStates \cup {"LOC_UPD_NEEDED"} :
        (sst = "NORMAL" => e.reg = e.la) =>
        LET s == NewStateIdle(d, sst, locUpd) IN Linked(s) /\ ~s.plmn
  BY <1>3, <1>4, NewStateIdleLinked
<1>6. LET s == NewStateIdle(UpdateDone(n), "NO_IMSI", locUpd) IN Linked(s) /\ ~s.plmn
  BY <1>3, <1>4, NewStateIdleLinked DEF SubStates
<1> QED BY <1>5, <1>6 DEF ReturnIdle, SubStates, Serving, d, n

LEMMA BeginLocUpdLinked ==
  ASSUME NEW e, Linked(e), ~e.plmn
  PROVE  LET d == BeginLocUpd(e) IN Linked(d) /\ ~d.plmn
<1> DEFINE d == [e EXCEPT !.mm = "WAIT_RR_CONN_LUPD",
                          !.lost = @ \/ e.rel_wait \/ e.dl # "IDLE"]
<1>1. Linked(d) /\ ~d.plmn /\ d.mm = "WAIT_RR_CONN_LUPD"
  BY DEF Linked, Loose, Ending, Tuned, Refused, Fields
<1> HIDE DEF d
<1> QED BY <1>1, EstReqLinked DEF BeginLocUpd, d

LEMMA TryLocUpdLinked ==
  ASSUME NEW e, Good(e), Linked(e), ~e.plmn, NEW locUpd, Settles(locUpd), SettlesLinked(locUpd)
  PROVE  LET d == TryLocUpd(e, locUpd) IN Linked(d) /\ ~d.plmn
<1> DEFINE u == UpdateDone(e)
           r1 == ReturnIdle(e, locUpd)
           r2 == ReturnIdle(u, locUpd)
           b == BeginLocUpd(e)
<1>1. Good(u) /\ Linked(u) /\ ~u.plmn
  BY UpdateDoneGood, UpdateDoneAlike, AlikeLinked DEF Linked, Loose, Alike, SameCell
<1> HIDE DEF u
<1>2. Linked(r1) /\ ~r1.plmn /\ Linked(r2) /\ ~r2.plmn /\ Linked(b) /\ ~b.plmn
  BY <1>1, ReturnIdleLinked, BeginLocUpdLinked
<1>3. TryLocUpd(e, locUpd) \in {r1, r2, b}
  BY DEF TryLocUpd, u
<1> HIDE DEF r1, r2, b
<1> QED BY <1>2, <1>3

LEMMA LocUpdLinked == SettlesLinked(LocUpd3)
<1>0. Settles(LocUpd0) /\ Settles(LocUpd1) /\ Settles(LocUpd2)
  BY LocUpdInnerSettles
<1>1. SettlesLinked(LocUpd0)
  BY GoodPhone, BeginLocUpdLinked DEF SettlesLinked, LocUpd0
<1>2. SettlesLinked(LocUpd1)
  BY <1>0, <1>1, GoodPhone, TryLocUpdLinked DEF SettlesLinked, LocUpd1
<1>3. SettlesLinked(LocUpd2)
  BY <1>0, <1>2, GoodPhone, TryLocUpdLinked DEF SettlesLinked, LocUpd2
<1> QED BY <1>0, <1>3, GoodPhone, TryLocUpdLinked DEF SettlesLinked, LocUpd3

LEMMA MmIdleLinked ==
  ASSUME NEW e, Good(e), Linked(e)
  PROVE  /\ Linked(gsm48_mm_return_idle(e))
         /\ ~e.plmn => /\ Linked(gsm48_mm_loc_upd(e)) /\ Linked(gsm48_mm_loc_upd_periodic(e))
                       /\ \A sst \in SubStates \cup {"LOC_UPD_NEEDED"} :
                            (sst = "NORMAL" => e.reg = e.la) => Linked(new_mm_state_idle(e, sst))
         /\ ~e.plmn \/ e.la \in e.forb => Linked(gsm48_mm_loc_upd_normal(e))
<1>1. CASE ~e.plmn
  BY <1>1, LocUpdLinked, LocUpdSettles, ReturnIdleLinked, LocUpdNormalLinked, NewStateIdleLinked,
     LocUpdPeriodicLinked
     DEF gsm48_mm_loc_upd, gsm48_mm_return_idle, gsm48_mm_loc_upd_normal, new_mm_state_idle,
         gsm48_mm_loc_upd_periodic, SettlesLinked
<1>2. CASE e.plmn
  <2>1. Linked(gsm48_mm_return_idle(e))
    BY <1>2, RefusedReturnLinked DEF gsm48_mm_return_idle
  <2>2. ASSUME e.la \in e.forb PROVE Linked(gsm48_mm_loc_upd_normal(e))
    <3> DEFINE p == [e EXCEPT !.pending = TRUE]
               u == UpdateDone(p)
    <3>0. DOMAIN e = Fields
      BY DEF Good, Typed
    <3>1. Good(p) /\ Alike(e, p) /\ DOMAIN p = Fields /\ p.pending
      <4>1. Good(p)
        BY PendingGood
      <4>2. Alike(e, p) /\ DOMAIN p = Fields /\ p.pending
        BY <3>0 DEF Fields, Alike, SameCell
      <4> QED BY <4>1, <4>2
    <3> HIDE DEF p
    <3>2. Linked(u) /\ u.plmn
      BY ZenonT(40), <1>2, <3>1, UpdateDoneAlike, AlikeLinked DEF Alike, SameCell
    <3> HIDE DEF u
    <3>3. LocUpd3[p] = TryLocUpd(p, LocUpd2)
      BY <3>1, GoodPhone DEF LocUpd3
    <3>4. TryLocUpd(p, LocUpd2) = ReturnIdle(u, LocUpd2)
      BY <2>2, <3>1 DEF TryLocUpd, u, Alike, SameCell
    <3>5. Linked(LocUpd3[p])
      BY <3>2, <3>3, <3>4, RefusedReturnLinked
    <3>6. e.reg # e.la
      BY <1>2, RefAssumption DEF Linked, Loose, Refused
    <3> QED BY <3>5, <3>6 DEF gsm48_mm_loc_upd_normal, LocUpdNormal, p
  <2> QED BY <1>2, <2>1, <2>2
<1> QED BY <1>1, <1>2

\* Connections, and the timers of mobility management.
LEMMA ConnAlike ==
  ASSUME NEW e, DOMAIN e = Fields, NEW refs, NEW p, NEW ref
  PROVE  /\ Alike(e, gsm48_mmxx_upmsg(e, refs, p)) /\ Alike(e, mm_conn_free(e, ref))
         /\ Alike(e, gsm48_mm_release_mm_conn(e, refs, p))
         /\ \A s : Alike(e, [e EXCEPT !.conn[ref] = s])
         /\ Alike(e, [e EXCEPT !.net = @ \cup {ref}])
<1>1. Alike(e, gsm48_mmxx_upmsg(e, refs, p)) /\ Alike(e, mm_conn_free(e, ref))
      /\ \A s : Alike(e, [e EXCEPT !.conn[ref] = s])
      /\ Alike(e, [e EXCEPT !.net = @ \cup {ref}])
  BY DEF Fields, Alike, SameCell, gsm48_mmxx_upmsg, mm_conn_free
<1> DEFINE u == gsm48_mmxx_upmsg(e, refs, p)
           d == [u EXCEPT !.conn = [r \in Refs |-> IF r \in refs THEN "NONE" ELSE u.conn[r]]]
<1>2. gsm48_mm_release_mm_conn(e, refs, p) = d
  BY Zenon DEF gsm48_mm_release_mm_conn
<1>3. DOMAIN u = Fields /\ Alike(e, u)
  BY <1>1 DEF Alike, SameCell
<1> HIDE DEF u
<1>4. Alike(u, d)
  BY <1>3 DEF Fields, Alike, SameCell
<1> HIDE DEF d
<1>5. Alike(e, d)
  BY <1>3, <1>4 DEF Alike, SameCell
<1> QED BY <1>1, <1>2, <1>5

LEMMA TimerAlike ==
  ASSUME NEW e, DOMAIN e = Fields, NEW v, NEW w
  PROVE  /\ Alike(e, [e EXCEPT !.t3230 = v]) /\ Alike(e, [e EXCEPT !.t3240 = v])
         /\ Alike(e, [e EXCEPT !.t3210 = v]) /\ Alike(e, [e EXCEPT !.t3212 = v])
         /\ Alike(e, [e EXCEPT !.t3240 = v, !.t3230 = w])
         /\ Alike(e, [e EXCEPT !.sapi3_link = v])
BY DEF Fields, Alike, SameCell

MovedStates == {"WAIT_NETWORK_CMD", "WAIT_RR_CONN_MM_CON", "WAIT_OUT_MM_CONN", "CONN_ACTIVE",
                "WAIT_ADD_OUT_MM_CON"}

LEMMA ActiveOrWaitLinked ==
  ASSUME NEW e, Loose(e)
  PROVE  /\ Linked(WaitNetworkCommand(e)) /\ Linked(ActiveOrWait(e)) /\ Linked(gsm48_mm_est_mm_con(e))
         /\ \A s \in MovedStates : Linked([e EXCEPT !.mm = s])
<1> DEFINE t == [e EXCEPT !.t3240 = TRUE]
           w == [t EXCEPT !.mm = "WAIT_NETWORK_CMD"]
           x == [e EXCEPT !.mm = "WAIT_NETWORK_CMD"]
           a == [e EXCEPT !.mm = "CONN_ACTIVE"]
           o == [e EXCEPT !.t3230 = TRUE, !.mm = "WAIT_OUT_MM_CONN"]
<1>1. /\ SameCell(e, w) /\ w.mm = "WAIT_NETWORK_CMD" /\ SameCell(e, x) /\ x.mm = "WAIT_NETWORK_CMD"
      /\ SameCell(e, a) /\ a.mm = "CONN_ACTIVE" /\ SameCell(e, o) /\ o.mm = "WAIT_OUT_MM_CONN"
  BY DEF Loose, Fields, SameCell
<1>2. \A s \in MovedStates : LET d == [e EXCEPT !.mm = s] IN SameCell(e, d) /\ d.mm = s
  BY DEF Loose, Fields, SameCell, MovedStates
<1>3. Linked(w) /\ Linked(x) /\ Linked(a) /\ Linked(o)
  <2> HIDE DEF w, x, a, o
  <2> QED BY <1>1, MovedLinked
<1>4. \A s \in MovedStates : Linked([e EXCEPT !.mm = s])
  BY <1>2, MovedLinked DEF MovedStates
<1>5. WaitNetworkCommand(e) = x /\ ActiveOrWait(e) \in {w, a} /\ gsm48_mm_est_mm_con(e) \in {w, o}
  BY DEF WaitNetworkCommand, ActiveOrWait, gsm48_mm_est_mm_con
<1> HIDE DEF w, x, a, o
<1> QED BY <1>3, <1>4, <1>5

LEMMA MmEstReqLinked ==
  ASSUME NEW e, Linked(e), ~e.plmn, NEW ref
  PROVE  Linked(MmEstReq(e, ref))
<1> DEFINE p == [e EXCEPT !.conn[ref] = "PEND"]
<1>1. Linked(gsm48_mm_init_mm_reject(e, ref))
  BY ConnAlike, AlikeLinked DEF gsm48_mm_init_mm_reject, Linked, Loose
<1>2. Alike(e, p)
  BY ConnAlike DEF Linked, Loose
<1> HIDE DEF p
<1>3. Linked(p) /\ ~p.plmn /\ p.mm = e.mm /\ DOMAIN p = Fields
  BY <1>2, AlikeLinked DEF Alike, SameCell, Linked, Loose
<1>4. ASSUME e.mm = "IDLE" PROVE Linked(gsm48_mm_init_mm_no_rr(e, ref))
  <2> DEFINE q == gsm48_rr_est_req(p, ref)
             strays == IF e.rel_wait \/ e.t3210 THEN q.stray \cup {ref} ELSE q.stray
             d == [q EXCEPT !.mm = "WAIT_RR_CONN_MM_CON", !.stray = strays]
  <2>1. Linked(q)
    BY <1>3, <1>4, EstReqLinked
  <2>2. gsm48_mm_init_mm_no_rr(e, ref) = d
    BY Zenon DEF gsm48_mm_init_mm_no_rr, p
  <2> HIDE DEF q
  <2>3. SameCell(q, d) /\ d.mm = "WAIT_RR_CONN_MM_CON"
    BY <2>1 DEF Linked, Loose, Fields, SameCell
  <2> HIDE DEF d
  <2> QED BY <2>1, <2>2, <2>3, MovedLinked DEF Linked
<1>5. Linked(gsm48_mm_init_mm_more(e, ref))
  <2> DEFINE q == gsm48_rr_data_req(p, ref)
             strays == IF e.rr = "IDLE" \/ e.rel_wait \/ e.t3210 THEN q.stray \cup {ref} ELSE q.stray
             d == [q EXCEPT !.mm = "WAIT_ADD_OUT_MM_CON", !.t3230 = TRUE, !.stray = strays]
  <2>1. Linked(q)
    BY <1>3, ConnAlike, AlikeLinked DEF gsm48_rr_data_req
  <2>2. gsm48_mm_init_mm_more(e, ref) = d
    BY Zenon DEF gsm48_mm_init_mm_more, p
  <2> HIDE DEF q
  <2>3. SameCell(q, d) /\ d.mm = "WAIT_ADD_OUT_MM_CON"
    BY <2>1 DEF Linked, Loose, Fields, SameCell
  <2> HIDE DEF d
  <2> QED BY <2>1, <2>2, <2>3, MovedLinked DEF Linked
<1> QED BY <1>1, <1>4, <1>5 DEF MmEstReq

LEMMA MmRelReqLinked ==
  ASSUME NEW e, Linked(e), NEW ref
  PROVE  Linked(MmRelReq(e, ref))
<1> DEFINE f == mm_conn_free(e, ref)
           t == [f EXCEPT !.t3240 = TRUE]
<1>1. Alike(e, f)
  BY ConnAlike DEF Linked, Loose
<1> HIDE DEF f
<1>2. Linked(f) /\ Alike(f, t)
  BY <1>1, AlikeLinked, TimerAlike DEF Linked, Loose
<1> HIDE DEF t
<1>3. Linked(t)
  BY <1>2, AlikeLinked
<1>4. Linked(ActiveOrWait(f)) /\ Linked(WaitNetworkCommand(t))
  BY <1>2, <1>3, ActiveOrWaitLinked DEF Linked
<1> QED BY <1>2, <1>4 DEF MmRelReq, gsm48_mm_release_wait_active, f, t

\* Messages of the network.
LEMMA UnregisteredLinked ==
  ASSUME NEW e, NEW illegal \in BOOLEAN
  PROVE  LET d == Unregistered(e, illegal) IN (Loose(e) => Loose(d)) /\ (Linked(e) => Linked(d))
<1> DEFINE d == Unregistered(e, illegal)
<1>1. PICK sim : sim = (e.sim /\ ~illegal) /\ d = [e EXCEPT !.reg = None, !.sim = sim]
  BY Zenon DEF Unregistered
<1>2. ASSUME Loose(e)
      PROVE  /\ DOMAIN d = Fields /\ d.rrq = e.rrq /\ d.rslq = e.rslq /\ d.reg = None /\ d.sim = sim
             /\ d.rr = e.rr /\ d.cs = e.cs /\ d.la = e.la /\ d.forb = e.forb
             /\ d.plmn = e.plmn /\ d.mm = e.mm /\ d.sst = e.sst /\ d.rej = e.rej
  BY <1>1, <1>2 DEF Loose, Fields
<1> HIDE DEF d
<1> QED BY <1>1, <1>2 DEF Linked, Loose, Ending, Tuned, Refused, d

LEMMA ConnActiveLinked ==
  ASSUME NEW e, Linked(e)
  PROVE  Linked(gsm48_mm_rx_cm_service_acc(e))
<1> DEFINE a == [e EXCEPT !.t3230 = FALSE, !.mm = "CONN_ACTIVE"]
           ref == CHOOSE r \in Pending(a) : TRUE
           d == [a EXCEPT !.conn[ref] = "DEDICATED"]
<1>1. SameCell(e, a) /\ a.mm = "CONN_ACTIVE" /\ DOMAIN a = Fields
  BY DEF Linked, Loose, Fields, SameCell
<1> HIDE DEF a
<1>2. Linked(a)
  BY <1>1, MovedLinked DEF Linked
<1> HIDE DEF ref
<1>3. Alike(a, d)
  BY <1>1, ConnAlike
<1> HIDE DEF d
<1>4. Linked(d) /\ DOMAIN d = Fields
  BY <1>2, <1>3, AlikeLinked DEF Linked, Loose
<1>5. Linked(gsm48_rr_est_req_sapi3(d)) /\ Linked(gsm48_mmxx_upmsg(d, {ref}, "EST_CNF"))
  BY <1>4, Sapi3Linked, ConnAlike, AlikeLinked
<1> QED BY <1>2, <1>5 DEF gsm48_mm_rx_cm_service_acc, gsm48_mm_conn_go_dedic, a, ref, d

LEMMA ServiceRejLinked ==
  ASSUME NEW e, Linked(e), NEW cause
  PROVE  Linked(gsm48_mm_rx_cm_service_rej(e, cause))
<1> DEFINE t == [e EXCEPT !.t3230 = FALSE]
           unknown == cause \in {"CM_REJ_UNKNOWN", "CM_REJ_ILLEGAL"}
           refs == IF unknown THEN Connected(e) ELSE Pending(e)
           d == gsm48_mm_release_mm_conn(t, refs, "REL_IND")
           u == IF unknown THEN Unregistered(d, cause = "CM_REJ_ILLEGAL") ELSE d
<1>1. Alike(e, t)
  BY TimerAlike DEF Linked, Loose
<1> HIDE DEF t, refs, unknown
<1>2. Linked(t) /\ Alike(t, d)
  BY <1>1, AlikeLinked, ConnAlike DEF Linked, Loose
<1> HIDE DEF d
<1>3. Linked(u)
  BY <1>2, AlikeLinked, UnregisteredLinked
<1> HIDE DEF u
<1>4. Linked(WaitNetworkCommand(u)) /\ Linked([u EXCEPT !.mm = "CONN_ACTIVE"])
  BY <1>3, ActiveOrWaitLinked DEF Linked, MovedStates
<1>5. gsm48_mm_rx_cm_service_rej(e, cause) \in {WaitNetworkCommand(u), [u EXCEPT !.mm = "CONN_ACTIVE"]}
  BY Zenon DEF gsm48_mm_rx_cm_service_rej, u, d, refs, t, unknown
<1> QED BY <1>4, <1>5

LEMMA AbortLinked ==
  ASSUME NEW e, Good(e), Linked(e), NEW cause
  PROVE  Linked(gsm48_mm_rx_abort(e, cause))
<1> DEFINE t == [e EXCEPT !.t3230 = FALSE]
           d == gsm48_mm_release_mm_conn(t, Connected(e), "REL_IND")
<1>1. Good(t)
  BY T3230Kept
<1>2. Alike(e, t)
  BY TimerAlike DEF Linked, Loose
<1> HIDE DEF t
<1>3. Good(d)
  BY <1>1, ReleaseConnKept DEF MmxxPrims
<1>4. Linked(t) /\ Alike(t, d)
  BY <1>2, AlikeLinked, ConnAlike DEF Linked, Loose
<1> HIDE DEF d
<1>5. Linked(d)
  BY <1>4, AlikeLinked
<1>6. Good(Unregistered(d, TRUE)) /\ Linked(Unregistered(d, TRUE))
  BY <1>3, <1>5, UnregisteredGood, UnregisteredLinked
<1>7. Linked(gsm48_mm_return_idle(Unregistered(d, TRUE)))
  BY <1>6, MmIdleLinked
<1> QED BY <1>5, <1>7 DEF gsm48_mm_rx_abort, d, t

LEMMA AuthRejLinked ==
  ASSUME NEW e, Linked(e)
  PROVE  Linked(gsm48_mm_rx_auth_rej(e))
<1> DEFINE d == [e EXCEPT !.t3212 = FALSE]
<1>1. Alike(e, d)
  BY TimerAlike DEF Linked, Loose
<1> HIDE DEF d
<1> QED BY <1>1, AlikeLinked, UnregisteredLinked DEF gsm48_mm_rx_auth_rej, d

LEMMA SetupLinked ==
  ASSUME NEW e, Linked(e), NEW ref
  PROVE  Linked(gsm48_mm_data_ind_setup(e, ref))
<1> DEFINE left == e.rel_wait \/ e.t3210 \/ e.mm \in UpdateStates
           strays == IF left THEN e.stray \cup {ref} ELSE e.stray
           d == [e EXCEPT !.conn[ref] = "IDLE", !.stray = strays]
           g == [d EXCEPT !.t3240 = FALSE, !.mm = "CONN_ACTIVE"]
<1> HIDE DEF left, strays
<1>1. Alike(e, d)
  BY DEF Linked, Loose, Fields, Alike, SameCell
<1> HIDE DEF d
<1>2. Linked(d)
  BY <1>1, AlikeLinked
<1>3. SameCell(d, g) /\ g.mm = "CONN_ACTIVE"
  BY <1>2 DEF Linked, Loose, Fields, SameCell
<1> HIDE DEF g
<1>4. Linked(g)
  BY <1>2, <1>3, MovedLinked DEF Linked
<1>5. gsm48_mm_data_ind_setup(e, ref) = IF e.mm = "WAIT_NETWORK_CMD" THEN g ELSE d
  BY Zenon DEF gsm48_mm_data_ind_setup, d, g, strays, left
<1> QED BY <1>2, <1>4, <1>5

\* Location updating.  PLMN selection is told nothing while an update runs.
LEMMA LocUpdAnswersLinked ==
  ASSUME NEW e, Linked(e)
  PROVE  /\ e.mm = "WAIT_RR_CONN_LUPD" => Linked(gsm48_mm_est_loc_upd(e))
         /\ e.mm = "LOC_UPD_INIT" => Linked(gsm48_mm_rx_loc_upd_acc(e))
         /\ \A cause \in LuRejections :
              e.mm = "LOC_UPD_INIT" /\ e.rrq = <<>> => Linked(gsm48_mm_rx_loc_upd_rej(e, cause))
<1>1. ASSUME e.mm = "WAIT_RR_CONN_LUPD" PROVE Linked(gsm48_mm_est_loc_upd(e))
  BY <1>1 DEF gsm48_mm_est_loc_upd, Linked, Loose, Ending, Tuned, Refused, Fields
<1>2. ASSUME e.mm = "LOC_UPD_INIT" PROVE Linked(gsm48_mm_rx_loc_upd_acc(e))
  <2> DEFINE u == UpdateDone(e)
             d == [u EXCEPT !.t3212 = FALSE, !.t3210 = FALSE, !.t3240 = TRUE,
                            !.reg = e.la, !.forb = @ \ {e.la}]
  <2>1. Alike(e, u)
    BY UpdateDoneAlike DEF Linked, Loose
  <2> HIDE DEF u
  <2>2. Loose(u) /\ u.mm = "LOC_UPD_INIT"
    BY <1>2, <2>1, AlikeLinked DEF Linked, Alike
  <2>3. Loose(d)
    BY <2>2 DEF Loose, Tuned, Refused, Fields
  <2> HIDE DEF d
  <2> QED BY <2>3, ActiveOrWaitLinked DEF gsm48_mm_rx_loc_upd_acc, d, u
<1>3. ASSUME NEW cause \in LuRejections, e.mm = "LOC_UPD_INIT", e.rrq = <<>>
      PROVE  Linked(gsm48_mm_rx_loc_upd_rej(e, cause))
  <2>1. <<>> \in Seq(RrLive)
    OBVIOUS
  <2> QED BY ZenonT(40), <1>3, <2>1 DEF gsm48_mm_rx_loc_upd_rej, Linked, Loose, Ending, Tuned, Refused, Fields
<1> QED BY <1>1, <1>2, <1>3

LEMMA LocUpdFailedLinked ==
  ASSUME NEW e, Good(e), Linked(e)
  PROVE  Linked(gsm48_mm_loc_upd_failed(e)) /\ Linked(gsm48_mm_rel_loc_upd_abort(e))
<1>1. ASSUME NEW q, Good(q), Linked(q) PROVE Linked(gsm48_mm_loc_upd_failed(q))
  <2> DEFINE d == [q EXCEPT !.t3210 = FALSE, !.t3211 = TRUE]
             g == [q EXCEPT !.t3210 = FALSE, !.reg = None, !.start_t3211 = TRUE]
  <2>1. IsFcn(d) /\ IsFcn(g)
    BY Zenon DEF IsFcn
  <2>2. /\ Typed(d) /\ d.cs = q.cs /\ d.ev = q.ev /\ d.conn = q.conn
        /\ Typed(g) /\ g.cs = q.cs /\ g.ev = q.ev /\ g.conn = q.conn
    BY SMTT(40), <1>1 DEF Good, Typed, Fields
  <2>3. Linked(d) /\ Linked(g)
    BY <1>1 DEF Linked, Loose, Ending, Tuned, Refused, Fields
  <2> HIDE DEF d, g
  <2>4. Good(d) /\ Good(g)
    BY <1>1, <2>1, <2>2 DEF Good, OnePending, Pending, CellReported
  <2>5. Linked(gsm48_mm_return_idle(d)) /\ Linked(gsm48_mm_return_idle(g))
    BY <2>3, <2>4, MmIdleLinked
  <2> QED BY <2>5 DEF gsm48_mm_loc_upd_failed, d, g
<1> DEFINE d == [e EXCEPT !.t3240 = FALSE]
<1>2. IsFcn(d)
  BY Zenon DEF IsFcn
<1>3. Typed(d) /\ Same(e, d)
  BY DEF Good, Typed, Fields, Same
<1>4. Good(d)
  BY <1>2, <1>3, SameGood
<1>5. Alike(e, d)
  BY TimerAlike DEF Linked, Loose
<1> HIDE DEF d
<1>6. Linked(d)
  BY <1>5, AlikeLinked
<1> QED BY <1>1, <1>4, <1>6 DEF gsm48_mm_rel_loc_upd_abort, d

\* The rejection is told to PLMN selection: the channel is gone, and the area or the
\* SIM is refused before MM returns to idle.
LEMMA LocUpdRejectedLinked ==
  ASSUME NEW e, Good(e), Linked(e), ~Tuned(e), e.mm = "LOC_UPD_REJ"
  PROVE  Linked(gsm48_mm_rel_loc_upd_rej(e))
<1> DEFINE d == [e EXCEPT !.t3240 = FALSE, !.plmn = e.rej # "LU_OTHER"]
           g == [d EXCEPT !.forb = @ \cup {e.la}]
           du == Unregistered(d, TRUE)
           gu == Unregistered(g, FALSE)
<1>1. IsFcn(d) /\ IsFcn(g)
  BY Zenon DEF IsFcn
<1>2. Typed(d) /\ Same(e, d) /\ Typed(g) /\ Same(e, g)
  BY DEF Good, Typed, Fields, Same
<1>3. Good(d) /\ Good(g)
  BY <1>1, <1>2, SameGood
<1>4. /\ DOMAIN d = Fields /\ d.rr = e.rr /\ d.cs = e.cs /\ d.rslq = e.rslq /\ d.rrq = e.rrq
      /\ d.la = e.la /\ d.mm = e.mm /\ d.sst = e.sst /\ d.rej = e.rej
      /\ d.forb = e.forb /\ d.reg = e.reg /\ d.sim = e.sim
      /\ e.rej = "LU_OTHER" => ~d.plmn
  BY ZenonT(40) DEF Linked, Loose, Fields
<1>5. /\ DOMAIN g = Fields /\ g.rr = e.rr /\ g.cs = e.cs /\ g.rslq = e.rslq /\ g.rrq = e.rrq
      /\ g.la = e.la /\ g.mm = e.mm /\ g.sst = e.sst /\ g.rej = e.rej
      /\ e.la \in g.forb
  BY DEF Linked, Loose, Fields
<1> HIDE DEF d, g
<1>6. ASSUME NEW q, NEW illegal \in BOOLEAN, DOMAIN q = Fields,
             q.rr = e.rr, q.cs = e.cs, q.rslq = e.rslq, q.rrq = e.rrq, q.la = e.la, q.mm = e.mm,
             q.sst = e.sst, q.rej = e.rej, illegal \/ e.la \in q.forb
      PROVE  Linked(UpdateDone(Unregistered(q, illegal)))
  <2> DEFINE r == Unregistered(q, illegal)
  <2>1. PICK sim : (illegal => ~sim) /\ r = [q EXCEPT !.reg = None, !.sim = sim]
    BY Zenon DEF Unregistered
  <2>2. /\ DOMAIN r = Fields /\ r.reg = None /\ r.sim = sim /\ r.forb = q.forb
        /\ r.rr = e.rr /\ r.cs = e.cs /\ r.rslq = e.rslq /\ r.rrq = e.rrq /\ r.la = e.la
        /\ r.mm = e.mm /\ r.sst = e.sst /\ r.rej = e.rej
    BY <1>6, <2>1 DEF Fields
  <2> HIDE DEF r
  <2>3. Linked(r)
    BY <1>6, <2>1, <2>2 DEF Linked, Loose, Ending, Tuned, Refused
  <2> QED BY <2>2, <2>3, UpdateDoneAlike, AlikeLinked DEF r
<1>7. Linked(UpdateDone(du)) /\ Linked(UpdateDone(gu))
  BY <1>4, <1>5, <1>6
<1>8. Good(UpdateDone(du)) /\ Good(UpdateDone(gu))
  BY <1>3, UnregisteredGood, UpdateDoneGood
<1> HIDE DEF du, gu
<1>9. Linked(gsm48_mm_return_idle(UpdateDone(du))) /\ Linked(gsm48_mm_return_idle(UpdateDone(gu)))
  BY <1>7, <1>8, MmIdleLinked
<1>10. ASSUME e.rej = "LU_OTHER" PROVE Linked(gsm48_mm_loc_upd_failed(d))
  <2>1. Linked(d)
    BY <1>4, <1>10 DEF Linked, Loose, Ending, Tuned, Refused
  <2> QED BY <1>3, <2>1, LocUpdFailedLinked
<1>11. e.rej \in LuRejections
  BY DEF Linked, Loose
<1> QED BY <1>9, <1>10, <1>11 DEF gsm48_mm_rel_loc_upd_rej, LuRejections, g, d, du, gu

LEMMA ReleasedLinked ==
  ASSUME NEW e, Good(e), Linked(e)
  PROVE  Linked(gsm48_mm_abort_mm_con(e)) /\ Linked(gsm48_mm_rel_other(e))
<1> DEFINE d == [e EXCEPT !.t3240 = FALSE, !.t3230 = FALSE]
           g == [e EXCEPT !.t3240 = FALSE]
           r == gsm48_mm_release_mm_conn(d, Connected(e), "ERR_IND")
<1>1. IsFcn(d) /\ IsFcn(g)
  BY Zenon DEF IsFcn
<1>2. Typed(d) /\ Same(e, d) /\ Typed(g) /\ Same(e, g)
  BY DEF Good, Typed, Fields, Same
<1>3. Good(d) /\ Good(g)
  BY <1>1, <1>2, SameGood
<1>4. Alike(e, d) /\ Alike(e, g)
  BY TimerAlike DEF Linked, Loose
<1> HIDE DEF d, g
<1>5. Linked(d) /\ Linked(g) /\ DOMAIN d = Fields
  BY <1>4, AlikeLinked DEF Linked, Loose
<1>6. Good(r) /\ Alike(d, r)
  BY <1>3, <1>5, ReleaseConnKept, ConnAlike DEF MmxxPrims
<1> HIDE DEF r
<1>7. Linked(r)
  BY <1>5, <1>6, AlikeLinked
<1> QED BY <1>3, <1>5, <1>6, <1>7, MmIdleLinked DEF gsm48_mm_abort_mm_con, gsm48_mm_rel_other, d, g, r

\* What radio resources say.
LEMMA RcvSapi3Linked ==
  ASSUME NEW e, Linked(e), NEW prim
  PROVE  Linked(gsm48_rcv_rr_sapi3(e, prim))
<1> DEFINE d == [e EXCEPT !.sapi3_link = TRUE]
           g == [e EXCEPT !.sapi3_link = FALSE]
<1>1. Alike(e, d) /\ Alike(e, g)
  BY TimerAlike DEF Linked, Loose
<1> HIDE DEF d, g
<1>2. Linked(d) /\ Linked(g) /\ DOMAIN d = Fields /\ DOMAIN g = Fields
  BY <1>1, AlikeLinked DEF Linked, Loose
<1>3. /\ Linked(gsm48_mmxx_upmsg(d, {ref \in Messages : e.conn[ref] = "DEDICATED"}, "EST_CNF"))
      /\ Linked(gsm48_mm_release_mm_conn(g, Connected(e) \cap Messages, "REL_IND"))
  BY <1>2, ConnAlike, AlikeLinked
<1> QED BY <1>3 DEF gsm48_rcv_rr_sapi3, d, g

\* A rejected update ends when the channel has gone, and a rejection comes alone.
LEMMA RcvRrLinked ==
  ASSUME NEW e, Kept(e), Linked(e), NEW prim,
         prim \in {"REL_IND", "ABORT_IND"} /\ e.mm = "LOC_UPD_REJ" => ~Tuned(e),
         prim \in LuRejections => e.rrq = <<>>
  PROVE  Linked(gsm48_rcv_rr(e, prim))
<1>1. Good(e) /\ Loose(e)
  BY DEF Kept, Linked
<1>2. Linked(WaitNetworkCommand(e)) /\ Linked(gsm48_mm_est_mm_con(e))
  BY <1>1, ActiveOrWaitLinked
<1>3. /\ e.mm = "WAIT_RR_CONN_LUPD" => Linked(gsm48_mm_est_loc_upd(e))
      /\ e.mm = "LOC_UPD_INIT" => Linked(gsm48_mm_rx_loc_upd_acc(e))
      /\ prim \in LuRejections /\ e.mm = "LOC_UPD_INIT" => Linked(gsm48_mm_rx_loc_upd_rej(e, prim))
  BY LocUpdAnswersLinked
<1>4. /\ Linked(gsm48_mm_rel_loc_upd_abort(e))
      /\ Linked(gsm48_mm_rel_other(e)) /\ Linked(gsm48_mm_abort_mm_con(e))
      /\ e.mm = "LOC_UPD_REJ" /\ prim \in {"REL_IND", "ABORT_IND"} => Linked(gsm48_mm_rel_loc_upd_rej(e))
  BY <1>1, LocUpdFailedLinked, LocUpdRejectedLinked, ReleasedLinked
<1>5. /\ Linked(gsm48_mm_rx_cm_service_acc(e)) /\ Linked(gsm48_mm_rx_cm_service_rej(e, prim))
      /\ Linked(gsm48_mm_rx_abort(e, prim)) /\ Linked(gsm48_mm_rx_auth_rej(e))
      /\ Linked(gsm48_mm_data_ind_setup(e, prim))
  BY <1>1, ConnActiveLinked, ServiceRejLinked, AbortLinked, AuthRejLinked, SetupLinked
<1> QED BY <1>2, <1>3, <1>4, <1>5 DEF gsm48_rcv_rr

\* Events and timers of mobility management.
LEMMA EventLinked ==
  ASSUME NEW e, Good(e), Linked(e), NEW event
  PROVE  Linked(gsm48_mm_event(e, event))
<1>1. Linked(gsm48_mm_return_idle(e))
  BY MmIdleLinked
<1>2. ASSUME e.mm = "IDLE", e.sst \in Serving PROVE Linked(gsm48_mm_loc_upd_normal(e))
  BY <1>2, MmIdleLinked DEF Linked, Loose, Refused
<1>3. \A sst \in {"NO_CELL", "PLMN_SEARCH", "NO_IMSI"} : Linked(new_mm_state_idle(e, sst))
  <2>1. CASE ~e.plmn
    BY <2>1, MmIdleLinked DEF SubStates
  <2>2. ASSUME NEW sst \in {"NO_CELL", "PLMN_SEARCH", "NO_IMSI"}
        PROVE  Linked(EnterIdle(e, sst, LocUpd3))
    BY EnterLimitedLinked DEF Serving
  <2> QED BY <2>1, <2>2 DEF new_mm_state_idle, NewStateIdle
<1>4. ASSUME e.mm = "IDLE", e.sst \in {"PLMN_SEARCH", "NO_CELL"}
      PROVE  Linked(gsm48_mm_cell_selected(e))
  <2>1. CASE ~e.plmn
    <3>1. \A sst \in {"LIMITED_SERVICE", "LOC_UPD_NEEDED"} : Linked(new_mm_state_idle(e, sst))
      BY <2>1, MmIdleLinked DEF SubStates, Serving
    <3>2. e.reg = e.la => Linked(new_mm_state_idle(e, "NORMAL"))
      BY <2>1, MmIdleLinked DEF SubStates, Serving
    <3> QED BY <1>3, <3>1, <3>2 DEF gsm48_mm_cell_selected
  <2>2. CASE e.plmn
    <3>1. e.sim => e.la \in e.forb /\ e.reg # e.la
      BY <2>2, RefAssumption DEF Linked, Loose, Refused
    <3>2. e.la \in e.forb => Linked(EnterIdle(e, "LIMITED_SERVICE", LocUpd3))
      BY EnterLimitedLinked
    <3> QED BY <1>3, <3>1, <3>2 DEF gsm48_mm_cell_selected, new_mm_state_idle, NewStateIdle
  <2> QED BY <2>1, <2>2
<1> QED BY <1>1, <1>2, <1>3, <1>4 DEF gsm48_mm_event

LEMMA ServiceTimersLinked ==
  ASSUME NEW e, Kept(e), Linked(e)
  PROVE  Linked(timeout_mm_t3230(e)) /\ Linked(timeout_mm_t3240(e)) /\ Linked(timeout_mm_t3210(e))
<1> DEFINE d == [e EXCEPT !.t3230 = FALSE]
           g == [e EXCEPT !.t3240 = FALSE]
           h == [e EXCEPT !.t3210 = FALSE]
           r == gsm48_mm_release_mm_conn(d, Pending(d), "REL_IND")
<1>1. IsFcn(g) /\ IsFcn(h)
  BY Zenon DEF IsFcn
<1>2. Typed(g) /\ Same(e, g) /\ Typed(h) /\ Same(e, h)
  BY DEF Kept, Good, Typed, Fields, Same
<1>3. Kept(g) /\ Kept(h)
  BY <1>1, <1>2, SameKept
<1>4. Alike(e, d) /\ Alike(e, g) /\ Alike(e, h)
  BY TimerAlike DEF Linked, Loose
<1> HIDE DEF d, g, h
<1>5. Linked(d) /\ Linked(g) /\ Linked(h) /\ DOMAIN d = Fields
  BY <1>4, AlikeLinked DEF Linked, Loose
<1>6. Linked(r)
  BY <1>5, ConnAlike, AlikeLinked
<1> HIDE DEF r
<1>7. Linked(ActiveOrWait(r))
  BY <1>6, ActiveOrWaitLinked DEF Linked
<1>8. Linked(gsm48_mm_return_idle(gsm48_rr_abort_req(g)))
  BY <1>3, <1>5, AbortReqKept, AbortReqLinked, MmIdleLinked DEF Kept
<1>9. Linked(gsm48_mm_loc_upd_failed(gsm48_rr_abort_req(h)))
  BY <1>3, <1>5, AbortReqKept, AbortReqLinked, LocUpdFailedLinked DEF Kept
<1> QED BY <1>5, <1>7, <1>8, <1>9
        DEF timeout_mm_t3230, timeout_mm_t3240, timeout_mm_t3210, gsm48_mm_timeout_mm_con,
            gsm48_mm_abort_rr, d, g, h, r

LEMMA UpdateTimersLinked ==
  ASSUME NEW e, Kept(e), Linked(e), ~e.plmn
  PROVE  Linked(timeout_mm_t3211(e)) /\ Linked(timeout_mm_t3212(e))
<1> DEFINE d == [e EXCEPT !.t3211 = FALSE]
           l == [d EXCEPT !.lost = @ \/ e.pending]
           r == [d EXCEPT !.retry = TRUE]
           g == [e EXCEPT !.t3212 = FALSE]
           p == [g EXCEPT !.periodic = TRUE]
<1>1. IsFcn(d) /\ IsFcn(g)
  BY Zenon DEF IsFcn
<1>2. Typed(d) /\ Same(e, d) /\ Typed(g) /\ Same(e, g)
  BY DEF Kept, Good, Typed, Fields, Same
<1>3. Good(d) /\ Good(g)
  BY <1>1, <1>2, SameGood DEF Kept
<1>4. Alike(e, d) /\ Alike(e, l) /\ Alike(e, r) /\ Alike(e, g) /\ Alike(e, p)
  BY DEF Linked, Loose, Fields, Alike, SameCell
<1> HIDE DEF d, g, l, r, p
<1>5. Linked(d) /\ Linked(l) /\ Linked(r) /\ Linked(g) /\ Linked(p) /\ ~d.plmn /\ ~g.plmn
  BY <1>4, AlikeLinked DEF Alike, SameCell
<1>6. Linked(gsm48_mm_loc_upd(d)) /\ Linked(gsm48_mm_loc_upd_periodic(g))
  BY <1>3, <1>5, MmIdleLinked
<1> QED BY <1>5, <1>6 DEF timeout_mm_t3211, timeout_mm_t3212, d, g, l, r, p

-----------------------------------------------------------------------------
(* The system                                                               *)

Views == [Refs -> {"none", "asked", "open", "gone"}]
Turns == {"rsl", "rr", "mmxx", "ev", "plmn"}

\* One message of the network is under way at a time: it is served, first from the
\* data link and then by mobility management, before anything else happens.
FreshRsl ==
  /\ turn = "rsl" /\ c.rslq # <<>> /\ Tail(c.rslq) = <<>> /\ c.rrq = <<>>
  /\ Head(c.rslq).sapi = 0 /\ Head(c.rslq).prim \in {"EST_CONF"} \cup Downlink
  /\ c.rr # "IDLE" /\ ~c.plmn
  /\ Linked([c EXCEPT !.rslq = Tail(@)])

FreshRr ==
  /\ turn = "rsl" /\ c.rrq # <<>> /\ Tail(c.rrq) = <<>> /\ c.rslq = <<>>
  /\ Head(c.rrq).sapi = 0 /\ Head(c.rrq).prim \in Downlink
  /\ c.rr = "DEDICATED" /\ ~c.plmn
  /\ Linked([c EXCEPT !.rrq = Tail(@)])

LinkedState == Linked(c) \/ FreshRsl \/ FreshRr

IInv == Kept(c) /\ LinkedState /\ view \in Views /\ turn \in Turns

LEMMA Initially == Init => IInv
<1> SUFFICES ASSUME Init PROVE IInv
  OBVIOUS
<1>1. PICK area \in Areas :
        c = [rr |-> "IDLE", est_req |-> FALSE, est_msg |-> None, s3 |-> "IDLE", t3110 |-> FALSE,
             t3122 |-> FALSE, rel_wait |-> FALSE, access |-> FALSE, lupd |-> FALSE,
             dl |-> "IDLE", dl3 |-> "IDLE", sabm |-> None, net |-> {}, cs |-> "CAMPED",
             la |-> area, reg |-> area, sim |-> TRUE, forb |-> {},
             pending |-> FALSE, retry |-> FALSE, periodic |-> FALSE, start_t3211 |-> FALSE, plmn |-> FALSE,
             rej |-> None, lost |-> FALSE, t3210 |-> FALSE, t3211 |-> FALSE, t3212 |-> Periodic,
             rslq |-> <<>>, rrq |-> <<>>, mmxx |-> [ref \in Refs |-> <<>>], ev |-> <<>>,
             mm |-> "IDLE", sst |-> "NORMAL", conn |-> [ref \in Refs |-> "NONE"],
             sapi3_link |-> FALSE, t3230 |-> FALSE, t3240 |-> FALSE, stray |-> {}]
  BY DEF Init
<1>2. IsFcn(c)
  BY Zenon, <1>1 DEF IsFcn
<1>3. Typed(c)
  BY <1>1, RefAssumption DEF Typed, Fields, Serving
<1>4. OnePending(c) /\ CellReported(c) /\ ServiceKept(c)
  BY <1>1 DEF OnePending, Pending, CellReported, ServiceKept
<1>5. Linked(c)
  <2>1. <<>> \in Seq(RslOwn) /\ <<>> \in Seq(RrOwn)
    OBVIOUS
  <2> QED BY <1>1, <2>1 DEF Linked, Loose, Ending, Tuned, Fields
<1> QED BY <1>2, <1>3, <1>4, <1>5 DEF Init, IInv, LinkedState, Kept, Good, Views, Turns

LEMMA ServeRslKept ==
  ASSUME IInv, ServeRsl
  PROVE  Kept(c')
<1> DEFINE d == [c EXCEPT !.rslq = Tail(@)]
           m == Head(c.rslq)
<1>1. c.rslq # <<>>
  BY DEF ServeRsl, At, Filled
<1>2. m \in [prim : RslPrims, sapi : {0, 3}] /\ Tail(c.rslq) \in Seq([prim : RslPrims, sapi : {0, 3}])
  <2> DEFINE Msgs == [prim : RslPrims, sapi : {0, 3}]
             q == c.rslq
  <2>1. q \in Seq(Msgs) /\ q # <<>>
    BY <1>1 DEF IInv, Kept, Good, Typed
  <2> HIDE DEF Msgs, q
  <2>2. Head(q) \in Msgs /\ Tail(q) \in Seq(Msgs)
    BY <2>1
  <2> QED BY <2>2 DEF Msgs, q
<1>3. IsFcn(d)
  BY Zenon DEF IsFcn
<1>4. Typed(d) /\ Same(c, d)
  BY <1>2 DEF IInv, Kept, Good, Typed, Fields, Same
<1>5. Kept(d)
  BY <1>3, <1>4, SameKept DEF IInv
<1>6. m.prim \in RslPrims
  BY <1>2
<1>7. c' = gsm48_rcv_rll(d, m)
  BY DEF ServeRsl
<1> HIDE DEF d, m
<1>8. m.prim \notin {"EST_CONF", "REL_IND", "REL_CONF", "ERROR_IND"} => m.prim \in RrPrims
  BY <1>6 DEF RslPrims, RrPrims
<1>9. /\ Kept(gsm48_rr_estab_cnf(d)) /\ Kept(gsm48_rr_rel_ind(d)) /\ Kept(gsm48_rr_rel_cnf(d))
      /\ Kept(gsm48_rr_mdl_error_ind(d)) /\ Kept(gsm48_rr_mdl_error_ind_sapi3(d))
      /\ Kept(gsm48_rr_rx_chan_rel(d))
  BY <1>5, EstabCnfKept, RelIndKept, RelCnfKept, MdlErrorKept, ChanRelKept
<1>10. /\ Kept(gsm48_rr_estab_cnf_sapi3(d)) /\ Kept(gsm48_rr_estab_ind_sapi3(d))
       /\ Kept(gsm48_rr_rel_ind_sapi3(d))
       /\ m.prim \in RrPrims => Kept(gsm48_rr_data_ind(d, m.prim))
  BY <1>5, Sapi3Kept, DataIndKept
<1> QED BY <1>5, <1>7, <1>8, <1>9, <1>10 DEF gsm48_rcv_rll

\* A phone that is told that authentication failed is in connected mode.
LEMMA RrTakenKept ==
  ASSUME IInv, ServeRr
  PROVE  LET d == [c EXCEPT !.rrq = Tail(@)]
             m == Head(c.rrq)
         IN  Kept(d) /\ (m.sapi = 0 /\ m.prim = "AUTH_REJ" => d.cs # "CAMPED")
<1> DEFINE d == [c EXCEPT !.rrq = Tail(@)]
           m == Head(c.rrq)
<1>1. c.rrq # <<>>
  BY DEF ServeRr, At, Filled
<1>2. Tail(c.rrq) \in Seq([prim : RrPrims, sapi : {0, 3}])
  BY <1>1 DEF IInv, Kept, Good, Typed
<1>3. IsFcn(d)
  BY Zenon DEF IsFcn
<1>4. Typed(d) /\ Same(c, d)
  BY <1>2 DEF IInv, Kept, Good, Typed, Fields, Same
<1>5. Kept(d)
  BY <1>3, <1>4, SameKept DEF IInv
<1>6. Linked(c) /\ m.sapi = 0 => m.prim # "AUTH_REJ"
  <2>1. ASSUME NEW s \in Seq(RrOwn), s # <<>> PROVE Head(s) \in RrOwn
    BY <2>1
  <2>2. Linked(c) => m \in RrOwn
    BY <1>1, <2>1 DEF Linked, Loose
  <2> HIDE DEF m
  <2> QED BY <2>2 DEF RrOwn
<1>7. FreshRr => d.cs # "CAMPED"
  <2>1. FreshRr => d.rr = "DEDICATED" /\ Linked(d)
    BY DEF FreshRr, IInv, Kept, Good, Typed, Fields
  <2> HIDE DEF d
  <2> QED BY <2>1 DEF Linked, Loose, Tuned
<1>8. ~FreshRsl
  BY <1>1 DEF FreshRsl
<1> QED BY <1>5, <1>6, <1>7, <1>8 DEF IInv, LinkedState

LEMMA ServeRrKept ==
  ASSUME IInv, ServeRr
  PROVE  Kept(c') /\ view' \in Views
<1> DEFINE d == [c EXCEPT !.rrq = Tail(@)]
           m == Head(c.rrq)
<1>5. Kept(d) /\ (m.sapi = 0 /\ m.prim = "AUTH_REJ" => d.cs # "CAMPED")
  BY RrTakenKept
<1>6. /\ c' = IF m.sapi = 0 THEN gsm48_rcv_rr(d, m.prim) ELSE gsm48_rcv_rr_sapi3(d, m.prim)
      /\ view' = [ref \in Refs |-> IF ref = m.prim THEN "open" ELSE view[ref]]
  BY DEF ServeRr
<1> HIDE DEF d, m
<1>7. Kept(c')
  BY <1>5, <1>6, RcvRrKept, RcvSapi3Kept
<1>8. view' \in Views
  BY <1>6 DEF IInv, Views
<1> QED BY <1>7, <1>8

LEMMA ServeMmxxKept ==
  ASSUME IInv, ServeMmxx
  PROVE  Kept(c') /\ view' \in Views
<1>1. PICK ref \in Waiting :
        /\ c' = [c EXCEPT !.mmxx[ref] = Tail(@)]
        /\ view' = [view EXCEPT ![ref] =
                     IF @ # "gone" /\ Head(c.mmxx[ref]) = "EST_CNF" THEN "open" ELSE "gone"]
  BY DEF ServeMmxx
<1> DEFINE q == [c.mmxx EXCEPT ![ref] = Tail(@)]
<1>2. q \in [Refs -> Seq({"EST_CNF", "REL_IND", "ERR_IND"})]
  BY DEF IInv, Kept, Good, Typed, Waiting
<1> HIDE DEF q
<1>3. IsFcn(c')
  BY Zenon, <1>1 DEF IsFcn
<1>4. c' = [c EXCEPT !.mmxx = q]
  BY <1>1 DEF q
<1>5. Typed(c') /\ Same(c, c')
  BY <1>2, <1>4 DEF IInv, Kept, Good, Typed, Fields, Same
<1>6. Kept(c')
  BY <1>3, <1>5, SameKept DEF IInv
<1>7. view' \in Views
  BY <1>1 DEF IInv, Views
<1> QED BY <1>6, <1>7

LEMMA ServeRestKept ==
  ASSUME IInv, ServeEvent \/ ServePlmn
  PROVE  Kept(c')
<1>1. CASE ServeEvent
  <2>1. c.ev # <<>> /\ c' = gsm48_mm_event([c EXCEPT !.ev = Tail(@)], Head(c.ev))
    BY <1>1 DEF ServeEvent, At, Filled
  <2> QED BY <2>1, EventKept DEF IInv
<1>2. CASE ServePlmn
  <2>1. PICK cs \in {c.cs, "CHOOSING"} : c' = [c EXCEPT !.plmn = FALSE, !.cs = cs]
    BY <1>2 DEF ServePlmn
  <2>2. IsFcn(c')
    BY Zenon, <2>1 DEF IsFcn
  <2>3. /\ Typed(c')
        /\ c'.cs = cs /\ c'.ev = c.ev /\ c'.conn = c.conn /\ c'.mm = c.mm /\ c'.sst = c.sst
        /\ c'.reg = c.reg /\ c'.la = c.la /\ c'.pending = c.pending /\ c'.sim = c.sim
    BY <2>1 DEF IInv, Kept, Good, Typed, Fields
  <2>4. CASE cs = c.cs
    BY <2>2, <2>3, <2>4, SameKept DEF IInv, Same
  <2>5. CASE cs = "CHOOSING"
    BY <2>2, <2>3, <2>5, AwayKept DEF IInv, Kept
  <2> QED BY <2>4, <2>5
<1> QED BY <1>1, <1>2

LEMMA RequestKept ==
  ASSUME IInv, NEW ref \in Refs, Request(ref) \/ Release(ref)
  PROVE  Kept(c') /\ view' \in Views
<1>1. CASE Request(ref)
  BY <1>1, MmEstReqKept DEF Request, Event, IInv, Views
<1>2. CASE Release(ref)
  BY <1>2, MmRelReqKept DEF Release, Event, IInv, Views
<1> QED BY <1>1, <1>2

\* Layer 2 and the network.
LEMMA CommandPrims == Commands \subseteq RslPrims /\ Incoming \subseteq RslPrims
<1>1. Commands \subseteq Downlink /\ Incoming \subseteq Downlink
  BY Zenon DEF Downlink
<1> QED BY <1>1 DEF RslPrims

LEMMA CommandKept ==
  ASSUME IInv, NEW p \in RslPrims, Command(p)
  PROVE  Kept(c')
BY RslUpKept DEF Command, Event, IInv

LEMMA AnswerKept ==
  ASSUME IInv, NEW p, Answer(p)
  PROVE  Kept(c')
<1>1. PICK req \in c.net : p \in Answers(req) /\ c' = RslUp([c EXCEPT !.net = @ \ {req}], p, 0)
  BY DEF Answer, Event
<1> DEFINE d == [c EXCEPT !.net = @ \ {req}]
<1>2. p \in RslPrims
  BY <1>1 DEF RslPrims, Downlink, IInv, Kept, Good, Typed
<1>3. IsFcn(d)
  BY Zenon DEF IsFcn
<1>4. Typed(d) /\ Same(c, d)
  BY DEF IInv, Kept, Good, Typed, Fields, Same
<1> QED BY <1>1, <1>2, <1>3, <1>4, SameKept, RslUpKept DEF IInv

LEMMA LinkKept ==
  ASSUME IInv, LinkUp \/ LinkReleased \/ LinkFails
  PROVE  Kept(c')
<1>1. CASE LinkUp
  <2> DEFINE d == [c EXCEPT !.dl = "EST", !.net = {c.sabm} \ {None}, !.sabm = None]
  <2>1. c' = RslUp(d, "EST_CONF", 0)
    BY <1>1 DEF LinkUp, Event
  <2>2. IsFcn(d)
    BY Zenon DEF IsFcn
  <2>3. Typed(d) /\ Same(c, d)
    BY DEF IInv, Kept, Good, Typed, Fields, Same
  <2> QED BY <2>1, <2>2, <2>3, SameKept, RslUpKept DEF IInv, RslPrims
<1>2. CASE LinkReleased \/ LinkFails
  <2>1. c' = RslUp(LinkDown(c), "REL_IND", 0) \/ c' = RslUp(LinkDown(c), "REL_CONF", 0)
    BY <1>2 DEF LinkReleased, LinkFails, Event
  <2> QED BY <2>1, LinkDownKept, RslUpKept DEF IInv, RslPrims
<1> QED BY <1>1, <1>2

LEMMA Link3Kept ==
  ASSUME IInv, Link3Up \/ Link3Established \/ Link3Released \/ Link3Fails
  PROVE  Kept(c')
<1> DEFINE d == [c EXCEPT !.dl3 = "EST"]
           g == [c EXCEPT !.dl3 = "IDLE"]
<1>1. IsFcn(d) /\ IsFcn(g)
  BY Zenon DEF IsFcn
<1>2. Typed(d) /\ Same(c, d) /\ Typed(g) /\ Same(c, g)
  BY DEF IInv, Kept, Good, Typed, Fields, Same
<1>3. \/ c' = RslUp(d, "EST_CONF", 3) \/ c' = RslUp(d, "EST_IND", 3)
      \/ c' = RslUp(g, "REL_IND", 3)
  BY DEF Link3Up, Link3Established, Link3Released, Link3Fails, Event
<1> QED BY <1>1, <1>2, <1>3, SameKept, RslUpKept DEF IInv, RslPrims

LEMMA NetworkKept ==
  ASSUME IInv, Network
  PROVE  Kept(c')
<1>1. CASE Page
  BY <1>1, ChanReqKept DEF Page, Event, IInv
<1>2. CASE Assign \/ AssignReject
  BY <1>2, ImmAssKept DEF Assign, AssignReject, Event, IInv
<1>3. CASE \E prim \in Said : Answer(prim) \/ (prim \in Commands /\ Command(prim))
  BY <1>3, AnswerKept, CommandKept, CommandPrims
<1>4. CASE \E sapi \in {0, 3} : LinkError(sapi)
  BY <1>4, RslUpKept DEF LinkError, Event, IInv, RslPrims
<1>5. CASE LinkUp \/ LinkReleased
  BY <1>5, LinkKept
<1>6. CASE Link3Up \/ Link3Established \/ Link3Released
  BY <1>6, Link3Kept
<1> QED BY Zenon, <1>1, <1>2, <1>3, <1>4, <1>5, <1>6 DEF Network

\* Timers and loss of signal.
LEMMA TimerKept ==
  ASSUME IInv, Timer \/ LossOfSignal
  PROVE  Kept(c')
<1> DEFINE d == [c EXCEPT !.t3122 = FALSE]
<1>1. IsFcn(d)
  BY Zenon DEF IsFcn
<1>2. Typed(d) /\ Same(c, d)
  BY DEF IInv, Kept, Good, Typed, Fields, Same
<1>3. Kept(d)
  BY <1>1, <1>2, SameKept DEF IInv
<1> QED BY <1>3, RrTimersKept, LossKept, ServiceTimersKept, UpdateTimersKept
        DEF Timer, LossOfSignal, Event, IInv, T3122Expires, T3126Expires, T3110Expires,
            RelWaitExpires, T3210Expires, T3211Expires, T3212Expires, T3230Expires, T3240Expires

\* Cell selection.
LEMMA CellKept ==
  ASSUME IInv, (\E area \in Areas : SelectCell(area)) \/ NoCell \/ Reselect \/ AnySearch
  PROVE  Kept(c')
<1> DEFINE Evs == {"CELL_SELECTED", "NO_CELL_FOUND", "LOST_COVERAGE"}
<1>1. c.ev \in Seq(Evs) /\ \A x \in Evs : Append(c.ev, x) \in Seq(Evs)
  BY DEF IInv, Kept, Good, Typed
<1>2. CASE \E area \in Areas : SelectCell(area)
  <2>1. PICK area \in Areas, camp \in {"CAMPED", "ANY"} :
          c' = [c EXCEPT !.cs = camp, !.la = area, !.ev = Append(@, "CELL_SELECTED")]
    BY <1>2 DEF SelectCell, Event
  <2>2. IsFcn(c')
    BY Zenon, <2>1 DEF IsFcn
  <2>3. Typed(c') /\ c'.conn = c.conn /\ c'.ev = Append(c.ev, "CELL_SELECTED")
    BY <1>1, <2>1 DEF IInv, Kept, Good, Typed, Fields
  <2>4. c'.ev # <<>> /\ c'.ev[Len(c'.ev)] = "CELL_SELECTED"
    BY <1>1, <2>3
  <2> DEFINE d == c'
  <2>5. Kept(c) /\ IsFcn(d) /\ Typed(d) /\ d.conn = c.conn /\ d.ev # <<>> /\ d.ev[Len(d.ev)] = "CELL_SELECTED"
    BY <2>2, <2>3, <2>4 DEF IInv
  <2> HIDE DEF d
  <2>6. OnePending(d) /\ CellReported(d) /\ ServiceKept(d)
    BY <2>5 DEF Kept, Good, OnePending, Pending, CellReported, ServiceKept
  <2>7. Kept(d)
    BY <2>5, <2>6 DEF Kept, Good
  <2> QED BY <2>7 DEF d
<1>3. CASE NoCell \/ Reselect \/ AnySearch
  <2>1. PICK cs \in {"NO_CELL", "CHOOSING"}, ev \in Seq(Evs) : c' = [c EXCEPT !.cs = cs, !.ev = ev]
    <3>1. CASE NoCell \/ Reselect
      BY <1>1, <3>1 DEF NoCell, Reselect, Event
    <3>2. CASE AnySearch
      <4>1. [c EXCEPT !.cs = "CHOOSING"] = [c EXCEPT !.cs = "CHOOSING", !.ev = c.ev]
        BY DEF IInv, Kept, Good, Typed, Fields
      <4> QED BY <1>1, <3>2, <4>1 DEF AnySearch, Event
    <3> QED BY <1>3, <3>1, <3>2
  <2>2. IsFcn(c')
    BY Zenon, <2>1 DEF IsFcn
  <2>3. Typed(c') /\ c'.conn = c.conn /\ c'.cs # "CAMPED"
    BY <2>1 DEF IInv, Kept, Good, Typed, Fields
  <2> QED BY <2>2, <2>3, AwayKept DEF IInv, Kept
<1> QED BY <1>2, <1>3

-----------------------------------------------------------------------------
(* The channel and the cell, step by step                                   *)

\* From the turn of layer 2, the queues of layer 2 and of radio resources come first.
LEMMA ServedFirst ==
  ASSUME turn = "rsl", NEW q \in {"mmxx", "ev", "plmn"}, At(q)
  PROVE  c.rslq = <<>> /\ c.rrq = <<>>
<1> DEFINE from == CHOOSE i \in DOMAIN Order : Order[i] = turn
           to == CHOOSE i \in DOMAIN Order : Order[i] = q
           passed == IF from <= to THEN from..(to - 1) ELSE DOMAIN Order \ (to..(from - 1))
<1>1. /\ DOMAIN Order = 1..5
      /\ Order[1] = "rsl" /\ Order[2] = "rr" /\ Order[3] = "mmxx" /\ Order[4] = "ev" /\ Order[5] = "plmn"
  BY DEF Order
<1>2. \A i \in passed : ~Filled[Order[i]]
  BY Zenon DEF At
<1>3. from = 1
  <2>1. 1 \in DOMAIN Order /\ Order[1] = turn
    BY <1>1
  <2>2. from \in DOMAIN Order /\ Order[from] = turn
    BY Zenon, <2>1
  <2> HIDE DEF from
  <2> QED BY <1>1, <2>2
<1>4. to \in 3..5
  <2>1. \E i \in DOMAIN Order : Order[i] = q
    BY <1>1
  <2>2. to \in DOMAIN Order /\ Order[to] = q
    BY Zenon, <2>1
  <2> HIDE DEF to
  <2> QED BY <1>1, <2>2
<1> HIDE DEF from, to
<1>5. 1 \in passed /\ 2 \in passed
  BY <1>3, <1>4
<1>6. ~Filled["rsl"] /\ ~Filled["rr"]
  BY <1>1, <1>2, <1>5
<1> QED BY <1>6 DEF Filled

LEMMA RestLinked ==
  ASSUME IInv, NEW q \in {"mmxx", "ev", "plmn"}, At(q)
  PROVE  Linked(c)
BY ServedFirst DEF IInv, LinkedState, FreshRsl, FreshRr

LEMMA QuietLinked ==
  ASSUME IInv, Quiet
  PROVE  Linked(c) /\ c.rslq = <<>> /\ c.rrq = <<>> /\ ~c.plmn
<1>1. ~Filled["rsl"] /\ ~Filled["rr"] /\ ~Filled["plmn"]
  BY DEF Quiet, Filled
<1> QED BY <1>1 DEF Filled, IInv, LinkedState, FreshRsl, FreshRr

\* A message is taken from its queue.
LEMMA TakenLinked ==
  ASSUME NEW e, Linked(e)
  PROVE  /\ e.rslq # <<>> => Linked([e EXCEPT !.rslq = Tail(@)]) /\ Head(e.rslq) \in RslOwn
         /\ e.rrq # <<>> => Linked([e EXCEPT !.rrq = Tail(@)]) /\ Head(e.rrq) \in RrOwn
         /\ e.rrq # <<>> /\ e.mm = "LOC_UPD_REJ" /\ Tuned(e) => Head(e.rrq) \in RrLive
<1> DEFINE d == [e EXCEPT !.rslq = Tail(@)]
           g == [e EXCEPT !.rrq = Tail(@)]
<1>1. ASSUME NEW S, NEW s \in Seq(S), s # <<>>
      PROVE  Head(s) \in S /\ Tail(s) \in Seq(S)
  BY <1>1
<1>2. e.rslq \in Seq(RslOwn) /\ e.rrq \in Seq(RrOwn)
  BY DEF Linked, Loose
<1>3. e.rslq # <<>> => Head(e.rslq) \in RslOwn /\ Tail(e.rslq) \in Seq(RslOwn)
  BY <1>1, <1>2
<1>4. e.rrq # <<>> => Head(e.rrq) \in RrOwn /\ Tail(e.rrq) \in Seq(RrOwn)
  BY <1>1, <1>2
<1>5. e.rrq # <<>> /\ e.mm = "LOC_UPD_REJ" /\ Tuned(e) => Head(e.rrq) \in RrLive /\ Tail(e.rrq) \in Seq(RrLive)
  BY <1>1 DEF Linked, Ending
<1>6. /\ DOMAIN d = Fields /\ d.rslq = Tail(e.rslq) /\ d.rrq = e.rrq
      /\ d.rr = e.rr /\ d.cs = e.cs /\ d.la = e.la /\ d.forb = e.forb /\ d.reg = e.reg
      /\ d.sim = e.sim /\ d.plmn = e.plmn /\ d.mm = e.mm /\ d.sst = e.sst /\ d.rej = e.rej
  BY DEF Linked, Loose, Fields
<1>7. /\ DOMAIN g = Fields /\ g.rrq = Tail(e.rrq) /\ g.rslq = e.rslq
      /\ g.rr = e.rr /\ g.cs = e.cs /\ g.la = e.la /\ g.forb = e.forb /\ g.reg = e.reg
      /\ g.sim = e.sim /\ g.plmn = e.plmn /\ g.mm = e.mm /\ g.sst = e.sst /\ g.rej = e.rej
  BY DEF Linked, Loose, Fields
<1> HIDE DEF d, g
<1>8. e.rslq # <<>> => Linked(d)
  BY <1>3, <1>6 DEF Linked, Loose, Ending, Tuned, Refused
<1>9. e.rrq # <<>> => Linked(g)
  BY <1>4, <1>5, <1>7 DEF Linked, Loose, Ending, Tuned, Refused
<1> QED BY <1>3, <1>4, <1>5, <1>8, <1>9 DEF d, g

LEMMA ServeRslLinked ==
  ASSUME IInv, ServeRsl
  PROVE  Linked(c') \/ FreshRr'
<1> DEFINE d == [c EXCEPT !.rslq = Tail(@)]
           m == Head(c.rslq)
<1>1. c.rslq # <<>> /\ c' = gsm48_rcv_rll(d, m) /\ turn' = "rsl"
  BY DEF ServeRsl, At, Filled
<1>2. CASE Linked(c)
  <2>1. Linked(d) /\ m \in RslOwn
    BY <1>1, <1>2, TakenLinked
  <2> HIDE DEF d, m
  <2>2. \/ m.sapi = 0 /\ m.prim \in {"REL_IND", "REL_CONF", "ERROR_IND"}
        \/ m.sapi = 3
    BY <2>1 DEF RslOwn
  <2>3. Linked(gsm48_rcv_rll(d, m))
    BY <2>1, <2>2, RrDownLinked, Sapi3Linked DEF gsm48_rcv_rll
  <2> QED BY <1>1, <2>3
<1>3. CASE FreshRsl
  <2>1. /\ Linked(d) /\ DOMAIN c = Fields /\ m.sapi = 0 /\ m.prim \in {"EST_CONF"} \cup Downlink
        /\ d.rr = c.rr /\ d.rr # "IDLE" /\ ~d.plmn /\ d.rslq = <<>> /\ d.rrq = <<>>
    BY <1>3 DEF FreshRsl, IInv, Kept, Good, Typed, Fields
  <2> HIDE DEF d, m
  <2>2. CASE m.prim \in {"EST_CONF", "REL_IND", "REL_CONF", "ERROR_IND", "CHAN_REL"}
    <3>1. Linked(gsm48_rcv_rll(d, m))
      BY <2>1, <2>2, RrDownLinked, RrUpLinked DEF gsm48_rcv_rll
    <3> QED BY <1>1, <3>1
  <2>3. CASE m.prim \notin {"EST_CONF", "REL_IND", "REL_CONF", "ERROR_IND", "CHAN_REL"}
    <3>1. c' = IF d.rr = "DEDICATED" THEN gsm48_rr_upmsg(d, m.prim, 0) ELSE d
      BY <1>1, <2>1, <2>3 DEF gsm48_rcv_rll, gsm48_rr_data_ind
    <3>2. CASE d.rr # "DEDICATED"
      BY <2>1, <3>1, <3>2
    <3>3. CASE d.rr = "DEDICATED"
      <4> DEFINE n == [prim |-> m.prim, sapi |-> 0]
                 u == gsm48_rr_upmsg(d, m.prim, 0)
      <4>1. IsFcn(d) /\ DOMAIN d = Fields
        BY Zenon, <2>1 DEF d, IsFcn, Linked, Loose
      <4>2. u.rrq = <<n>> /\ u.rslq = <<>> /\ u.rr = "DEDICATED" /\ ~u.plmn
        BY <2>1, <3>3, <4>1 DEF gsm48_rr_upmsg, Fields
      <4>3. Alike(d, [u EXCEPT !.rrq = Tail(@)])
        BY <2>1, <4>1, <4>2 DEF gsm48_rr_upmsg, Fields, Alike, SameCell
      <4> HIDE DEF u, n
      <4>4. Linked([u EXCEPT !.rrq = Tail(@)])
        BY <2>1, <4>3, AlikeLinked
      <4>5. /\ u.rrq # <<>> /\ Tail(u.rrq) = <<>>
            /\ Head(u.rrq).sapi = 0 /\ Head(u.rrq).prim \in Downlink
        BY <2>1, <2>3, <4>2 DEF n
      <4>6. c' = u
        BY <3>1, <3>3 DEF u
      <4> QED BY <1>1, <4>2, <4>4, <4>5, <4>6 DEF FreshRr
    <3> QED BY <3>2, <3>3
  <2> QED BY <2>2, <2>3
<1>4. ~FreshRr
  BY <1>1 DEF FreshRr
<1> QED BY <1>2, <1>3, <1>4 DEF IInv, LinkedState

\* No message of the network is the end of the channel.
LEMMA DownlinkDistinct == Downlink \cap {"REL_IND", "ABORT_IND"} = {}
BY RefAssumption DEF Downlink, Answers, Commands, LuRejections, CmRejections, Refs

LEMMA ServeRrLinked ==
  ASSUME IInv, ServeRr
  PROVE  LinkedState'
<1> DEFINE d == [c EXCEPT !.rrq = Tail(@)]
           m == Head(c.rrq)
<1>1. c.rrq # <<>> /\ Kept(d)
      /\ c' = IF m.sapi = 0 THEN gsm48_rcv_rr(d, m.prim) ELSE gsm48_rcv_rr_sapi3(d, m.prim)
  BY RrTakenKept DEF ServeRr, At, Filled
<1>2. d.mm = c.mm /\ d.rr = c.rr
  BY DEF IInv, Kept, Good, Typed, Fields
<1>3. CASE Linked(c)
  <2>1. Linked(d) /\ m \in RrOwn /\ (c.mm = "LOC_UPD_REJ" /\ Tuned(c) => m \in RrLive)
    BY <1>1, <1>3, TakenLinked
  <2> HIDE DEF d, m
  <2>2. /\ m.sapi = 0 => m.prim \in {"EST_CNF", "EST_IND", "REL_IND", "ABORT_IND"}
        /\ m.sapi = 0 /\ m \in RrLive => m.prim \in {"EST_CNF", "EST_IND"}
    BY <2>1 DEF RrOwn, RrLive
  <2>3. m.sapi = 0 => Linked(gsm48_rcv_rr(d, m.prim))
    BY <1>1, <1>2, <2>1, <2>2, RcvRrLinked DEF LuRejections, Tuned
  <2>4. Linked(gsm48_rcv_rr_sapi3(d, m.prim))
    BY <2>1, RcvSapi3Linked
  <2> QED BY <1>1, <2>3, <2>4 DEF LinkedState
<1>4. CASE FreshRr
  <2>1. Linked(d) /\ m.sapi = 0 /\ m.prim \in Downlink /\ d.rrq = <<>>
    BY <1>4 DEF FreshRr, IInv, Kept, Good, Typed, Fields
  <2> HIDE DEF d, m
  <2>2. Linked(gsm48_rcv_rr(d, m.prim))
    BY <1>1, <2>1, DownlinkDistinct, RcvRrLinked
  <2> QED BY <1>1, <2>1, <2>2 DEF LinkedState
<1>5. ~FreshRsl
  BY <1>1 DEF FreshRsl
<1> QED BY <1>3, <1>4, <1>5 DEF IInv, LinkedState

LEMMA ServeRestLinked ==
  ASSUME IInv, ServeMmxx \/ ServeEvent \/ ServePlmn
  PROVE  LinkedState'
<1>1. Linked(c) /\ DOMAIN c = Fields
  BY RestLinked DEF ServeMmxx, ServeEvent, ServePlmn, Linked, Loose
<1>2. CASE ServeMmxx
  <2>1. PICK ref \in Waiting : c' = [c EXCEPT !.mmxx[ref] = Tail(@)]
    BY <1>2 DEF ServeMmxx
  <2>2. Alike(c, c')
    BY <1>1, <2>1 DEF Fields, Alike, SameCell
  <2> QED BY <1>1, <2>2, AlikeLinked DEF LinkedState
<1>3. CASE ServeEvent
  <2> DEFINE d == [c EXCEPT !.ev = Tail(@)]
  <2>1. c.ev # <<>> /\ c' = gsm48_mm_event(d, Head(c.ev))
    BY <1>3 DEF ServeEvent, At, Filled
  <2>2. Good(d)
    BY <2>1, EventTakenGood DEF IInv, Kept
  <2>3. Alike(c, d)
    BY <1>1 DEF Fields, Alike, SameCell
  <2> HIDE DEF d
  <2>4. Linked(gsm48_mm_event(d, Head(c.ev)))
    BY <1>1, <2>2, <2>3, AlikeLinked, EventLinked
  <2> QED BY <2>1, <2>4 DEF LinkedState
<1>4. CASE ServePlmn
  <2>1. c.plmn /\ \E cs \in {c.cs, "CHOOSING"} : c' = [c EXCEPT !.plmn = FALSE, !.cs = cs]
    BY <1>4 DEF ServePlmn, At, Filled
  <2>2. Linked(c')
    BY <1>1, <2>1 DEF Linked, Loose, Ending, Tuned, Refused, Fields
  <2> QED BY <2>2 DEF LinkedState
<1> QED BY <1>2, <1>3, <1>4

\* The network sends a message over the channel that the phone is on.
LEMMA SentLinked ==
  ASSUME IInv, Quiet, NEW d, Alike(c, d), c.rr # "IDLE", NEW p \in {"EST_CONF"} \cup Downlink,
         c' = RslUp(d, p, 0), turn' = "rsl", IsFcn(d)
  PROVE  LinkedState'
<1> DEFINE n == [prim |-> p, sapi |-> 0]
           u == RslUp(d, p, 0)
<1>1. Linked(c) /\ c.rslq = <<>> /\ c.rrq = <<>> /\ ~c.plmn
  BY QuietLinked
<1>2. Linked(d) /\ d.rslq = <<>> /\ d.rrq = <<>> /\ ~d.plmn /\ d.rr # "IDLE" /\ DOMAIN d = Fields
  BY <1>1, AlikeLinked DEF Alike, SameCell, Linked, Loose
<1>3. u.rslq = <<n>> /\ u.rrq = <<>> /\ u.rr # "IDLE" /\ ~u.plmn
  BY <1>2 DEF RslUp, Fields
<1>4. Alike(d, [u EXCEPT !.rslq = Tail(@)])
  BY <1>2, <1>3 DEF RslUp, Fields, Alike, SameCell
<1> HIDE DEF u, n
<1>5. Linked([u EXCEPT !.rslq = Tail(@)])
  BY <1>2, <1>4, AlikeLinked
<1>6. /\ u.rslq # <<>> /\ Tail(u.rslq) = <<>>
      /\ Head(u.rslq).sapi = 0 /\ Head(u.rslq).prim \in {"EST_CONF"} \cup Downlink
  BY <1>3 DEF n
<1>7. c' = u
  BY DEF u
<1> QED BY <1>3, <1>5, <1>6, <1>7 DEF FreshRsl, LinkedState

LEMMA OnChannelUsed == OnChannel => c.rr # "IDLE"
BY DEF OnChannel

LEMMA CommandLinked ==
  ASSUME IInv, NEW p \in Downlink, Command(p)
  PROVE  LinkedState'
<1>1. IsFcn(c) /\ Alike(c, c)
  BY DEF IInv, Kept, Good, Alike, SameCell
<1> QED BY <1>1, SentLinked, OnChannelUsed DEF Command, Event

LEMMA AnswerLinked ==
  ASSUME IInv, NEW p, Answer(p)
  PROVE  LinkedState'
<1>1. PICK req \in c.net : p \in Answers(req) /\ c' = RslUp([c EXCEPT !.net = @ \ {req}], p, 0)
  BY DEF Answer, Event
<1> DEFINE d == [c EXCEPT !.net = @ \ {req}]
<1>2. p \in Downlink
  BY <1>1 DEF Downlink, IInv, Kept, Good, Typed
<1>3. IsFcn(d)
  BY Zenon DEF IsFcn
<1>4. Alike(c, d)
  BY DEF IInv, Kept, Good, Typed, Fields, Alike, SameCell
<1> QED BY <1>1, <1>2, <1>3, <1>4, SentLinked, OnChannelUsed DEF Answer, Event

\* Layer 2 reports what became of the data links.
LEMMA LinkLinked ==
  ASSUME IInv, LinkUp \/ LinkReleased \/ LinkFails \/ (\E sapi \in {0, 3} : LinkError(sapi))
  PROVE  LinkedState'
<1>1. CASE LinkUp
  <2> DEFINE d == [c EXCEPT !.dl = "EST", !.net = {c.sabm} \ {None}, !.sabm = None]
  <2>1. c' = RslUp(d, "EST_CONF", 0) /\ Quiet /\ turn' = "rsl" /\ c.rr # "IDLE"
    BY <1>1, OnChannelUsed DEF LinkUp, Event
  <2>2. IsFcn(d)
    BY Zenon DEF IsFcn
  <2>3. Alike(c, d)
    BY DEF IInv, Kept, Good, Typed, Fields, Alike, SameCell
  <2> QED BY <2>1, <2>2, <2>3, SentLinked
<1>2. CASE LinkReleased \/ LinkFails \/ (\E sapi \in {0, 3} : LinkError(sapi))
  <2> DEFINE d == LinkDown(c)
  <2>1. /\ Quiet
        /\ \/ c' = RslUp(d, "REL_IND", 0) \/ c' = RslUp(d, "REL_CONF", 0)
           \/ \E sapi \in {0, 3} : c' = RslUp(c, "ERROR_IND", sapi)
    BY <1>2 DEF LinkReleased, LinkFails, LinkError, Event
  <2>2. Linked(c)
    BY <2>1, QuietLinked
  <2>3. Alike(c, d)
    BY <2>2 DEF Linked, Loose, LinkDown, Fields, Alike, SameCell
  <2> HIDE DEF d
  <2>4. /\ [prim |-> "REL_IND", sapi |-> 0] \in RslOwn /\ [prim |-> "REL_CONF", sapi |-> 0] \in RslOwn
        /\ \A sapi \in {0, 3} : [prim |-> "ERROR_IND", sapi |-> sapi] \in RslOwn
    BY DEF RslOwn, RslPrims
  <2>5. Linked(c')
    BY <2>1, <2>2, <2>3, <2>4, AlikeLinked, RslUpLinked
  <2> QED BY <2>5 DEF LinkedState
<1> QED BY <1>1, <1>2

LEMMA Link3Linked ==
  ASSUME IInv, Link3Up \/ Link3Established \/ Link3Released \/ Link3Fails
  PROVE  LinkedState'
<1> DEFINE d == [c EXCEPT !.dl3 = "EST"]
           g == [c EXCEPT !.dl3 = "IDLE"]
<1>1. /\ Quiet
      /\ \/ c' = RslUp(d, "EST_CONF", 3) \/ c' = RslUp(d, "EST_IND", 3)
         \/ c' = RslUp(g, "REL_IND", 3)
  BY DEF Link3Up, Link3Established, Link3Released, Link3Fails, Event
<1>2. Linked(c)
  BY <1>1, QuietLinked
<1>3. Alike(c, d) /\ Alike(c, g)
  BY <1>2 DEF Linked, Loose, Fields, Alike, SameCell
<1> HIDE DEF d, g
<1>4. \A p \in {"EST_CONF", "EST_IND", "REL_IND"} : [prim |-> p, sapi |-> 3] \in RslOwn
  BY DEF RslOwn, RslPrims
<1>5. Linked(c')
  BY <1>1, <1>2, <1>3, <1>4, AlikeLinked, RslUpLinked
<1> QED BY <1>5 DEF LinkedState

LEMMA NetworkLinked ==
  ASSUME IInv, Network
  PROVE  LinkedState'
<1>1. CASE Page
  BY <1>1, QuietLinked, ChanReqLinked DEF Page, Event, LinkedState, Linked
<1>2. CASE Assign \/ AssignReject
  BY <1>2, QuietLinked, RrUpLinked DEF Assign, AssignReject, Event, LinkedState
<1>3. CASE \E prim \in Said : Answer(prim) \/ (prim \in Commands /\ Command(prim))
  <2>1. Commands \subseteq Downlink
    BY Zenon DEF Downlink
  <2> QED BY <1>3, <2>1, AnswerLinked, CommandLinked
<1>4. CASE LinkUp \/ LinkReleased \/ (\E sapi \in {0, 3} : LinkError(sapi))
  BY <1>4, LinkLinked
<1>5. CASE Link3Up \/ Link3Established \/ Link3Released
  BY <1>5, Link3Linked
<1> QED BY Zenon, <1>1, <1>2, <1>3, <1>4, <1>5 DEF Network

\* The users, the timers, and cell selection begin a turn of an idle main loop.
LEMMA RequestLinked ==
  ASSUME IInv, NEW ref \in Refs, Request(ref) \/ Release(ref)
  PROVE  Linked(c')
<1>1. Linked(c) /\ ~c.plmn /\ Kept(c)
  BY QuietLinked DEF Request, Release, Event, IInv
<1>2. CASE Request(ref)
  BY <1>1, <1>2, MmEstReqLinked DEF Request, Event, Kept
<1>3. CASE Release(ref)
  BY <1>1, <1>3, MmRelReqLinked DEF Release, Event, Kept
<1> QED BY <1>2, <1>3

LEMMA TimerLinked ==
  ASSUME IInv, Timer \/ LossOfSignal
  PROVE  Linked(c')
<1> DEFINE d == [c EXCEPT !.t3122 = FALSE]
<1>1. Quiet
  BY DEF Timer, LossOfSignal, Event, T3122Expires, T3126Expires, T3110Expires, RelWaitExpires,
         T3210Expires, T3211Expires, T3212Expires, T3230Expires, T3240Expires
<1>2. Kept(c) /\ Linked(c) /\ ~c.plmn
  BY <1>1, QuietLinked DEF IInv
<1>3. Alike(c, d)
  BY <1>2 DEF Linked, Loose, Fields, Alike, SameCell
<1>4. Linked(d)
  BY <1>2, <1>3, AlikeLinked
<1> HIDE DEF d
<1>5. c' \in {d, timeout_rr_t3126(c), timeout_rr_t3110(c), timeout_rr_t_rel_wait(c), gsm48_rr_los(c),
              timeout_mm_t3210(c), timeout_mm_t3211(c), timeout_mm_t3212(c),
              timeout_mm_t3230(c), timeout_mm_t3240(c)}
  BY DEF Timer, LossOfSignal, Event, T3122Expires, T3126Expires, T3110Expires, RelWaitExpires,
         T3210Expires, T3211Expires, T3212Expires, T3230Expires, T3240Expires, d
<1>6. Linked(c')
  BY Zenon, <1>2, <1>4, <1>5, RrTimersLinked, ServiceTimersLinked, UpdateTimersLinked
<1> QED BY <1>6

LEMMA CellLinked ==
  ASSUME IInv, (\E area \in Areas : SelectCell(area)) \/ NoCell \/ Reselect \/ AnySearch
  PROVE  Linked(c')
<1>1. Linked(c) /\ ~c.plmn /\ c.cs # "CONNECTED"
  BY QuietLinked DEF SelectCell, NoCell, Reselect, AnySearch, Event
<1>2. CASE \E area \in Areas : SelectCell(area)
  <2>1. PICK area \in Areas, camp \in {"CAMPED", "ANY"} :
          c' = [c EXCEPT !.cs = camp, !.la = area, !.ev = Append(@, "CELL_SELECTED")]
    BY <1>2 DEF SelectCell, Event
  <2>2. Linked(c')
    BY <1>1, <2>1 DEF Linked, Loose, Ending, Tuned, Fields
  <2> QED BY <2>2
<1>3. CASE NoCell \/ Reselect \/ AnySearch
  <2>1. \E cs \in {"NO_CELL", "CHOOSING"}, ev \in {c.ev, Append(c.ev, "NO_CELL_FOUND"), Append(c.ev, "LOST_COVERAGE")} :
          c' = [c EXCEPT !.cs = cs, !.ev = ev]
    <3>1. [c EXCEPT !.cs = "CHOOSING"] = [c EXCEPT !.cs = "CHOOSING", !.ev = c.ev]
      BY <1>1 DEF Linked, Loose, Fields
    <3> QED BY <1>3, <3>1 DEF NoCell, Reselect, AnySearch, Event
  <2>2. Linked(c')
    BY <1>1, <2>1 DEF Linked, Loose, Ending, Tuned, Fields
  <2> QED BY <2>2
<1> QED BY <1>2, <1>3

-----------------------------------------------------------------------------
LEMMA LinkedStepwise ==
  ASSUME IInv, [Next]_vars
  PROVE  LinkedState'
<1>1. CASE MobileWork
  BY <1>1, ServeRslLinked, ServeRrLinked, ServeRestLinked DEF MobileWork, LinkedState
<1>2. CASE \E ref \in Refs : Request(ref) \/ Release(ref)
  BY <1>2, RequestLinked DEF LinkedState
<1>3. CASE \E ref \in Incoming : Setup(ref) /\ UNCHANGED view
  <2>1. Incoming \subseteq Downlink
    BY Zenon DEF Downlink
  <2> QED BY <1>3, <2>1, CommandLinked DEF Setup
<1>4. CASE Network /\ UNCHANGED view
  BY <1>4, NetworkLinked
<1>5. CASE (LinkFails \/ Link3Fails \/ LossOfSignal \/ Timer) /\ UNCHANGED view
  BY <1>5, LinkLinked, Link3Linked, TimerLinked DEF LinkedState
<1>6. CASE ((\E area \in Areas : SelectCell(area)) \/ NoCell \/ Reselect \/ AnySearch) /\ UNCHANGED view
  BY <1>6, CellLinked DEF LinkedState
<1>7. CASE UNCHANGED vars
  BY <1>7 DEF vars, IInv, LinkedState, FreshRsl, FreshRr
<1> QED BY <1>1, <1>2, <1>3, <1>4, <1>5, <1>6, <1>7 DEF Next

LEMMA Stepwise == IInv /\ [Next]_vars => IInv'
<1> SUFFICES ASSUME IInv, [Next]_vars PROVE Kept(c') /\ view' \in Views /\ turn' \in Turns
  BY LinkedStepwise DEF IInv, Views, Turns
<1>1. CASE MobileWork
  <2>1. turn' \in Turns
    BY <1>1 DEF MobileWork, ServeRsl, ServeRr, ServeMmxx, ServeEvent, ServePlmn, Turns
  <2>2. CASE ServeRsl
    BY <2>1, <2>2, ServeRslKept DEF ServeRsl, IInv
  <2>3. CASE ServeRr
    BY <2>1, <2>3, ServeRrKept
  <2>4. CASE ServeMmxx
    BY <2>1, <2>4, ServeMmxxKept
  <2>5. CASE ServeEvent \/ ServePlmn
    BY <2>1, <2>5, ServeRestKept DEF ServeEvent, ServePlmn, IInv
  <2> QED BY <1>1, <2>2, <2>3, <2>4, <2>5 DEF MobileWork
<1>2. CASE \E ref \in Refs : Request(ref) \/ Release(ref)
  BY <1>2, RequestKept DEF Request, Release, Event, Turns
<1>3. CASE \E ref \in Incoming : Setup(ref) /\ UNCHANGED view
  <2>1. PICK ref \in Incoming : Command(ref) /\ UNCHANGED view
    BY <1>3 DEF Setup
  <2>2. Kept(c')
    BY <2>1, CommandKept, CommandPrims
  <2> QED BY <2>1, <2>2 DEF Command, Event, IInv, Turns
<1>4. CASE Network /\ UNCHANGED view
  <2>1. turn' = "rsl"
    BY <1>4 DEF Network, Page, Assign, AssignReject, LinkUp, LinkReleased, Answer, Command,
                Link3Up, Link3Established, Link3Released, LinkError, Event
  <2> QED BY <1>4, <2>1, NetworkKept DEF IInv, Turns
<1>5. CASE (LinkFails \/ Link3Fails \/ LossOfSignal \/ Timer) /\ UNCHANGED view
  <2>1. turn' = "rsl"
    BY <1>5 DEF LinkFails, Link3Fails, LossOfSignal, Timer, T3122Expires, T3126Expires,
                T3110Expires, RelWaitExpires, T3210Expires, T3211Expires, T3212Expires,
                T3230Expires, T3240Expires, Event
  <2> QED BY <1>5, <2>1, LinkKept, Link3Kept, TimerKept DEF IInv, Turns
<1>6. CASE ((\E area \in Areas : SelectCell(area)) \/ NoCell \/ Reselect \/ AnySearch) /\ UNCHANGED view
  <2>1. turn' = "rsl"
    BY <1>6 DEF SelectCell, NoCell, Reselect, AnySearch, Event
  <2> QED BY <1>6, <2>1, CellKept DEF IInv, Turns
<1>7. CASE UNCHANGED vars
  BY <1>7 DEF vars, IInv
<1> QED BY <1>1, <1>2, <1>3, <1>4, <1>5, <1>6, <1>7 DEF Next

LEMMA ConnInvariant == Spec => []IInv
BY Initially, Stepwise, PTL DEF Spec

\* The types, and one pending connection at most (mm_conn_new to mm_conn_go_dedic of
\* gsm48_mm.c: the answer of the network does not say which connection it is for),
\* whatever the users, the network and cell selection do.
THEOREM TypeInvariant == Spec => []TypeOK
<1>1. IInv => TypeOK
  BY GoodPhone DEF IInv, TypeOK, Kept, Good, OnePending, Views, Turns
<1> QED BY <1>1, ConnInvariant, PTL

\* The phone claims normal service only where it is registered or about to be
\* (gsm48_mm_return_idle and gsm48_mm_cell_selected against gsm322.c), whatever the
\* network refuses: what ends the registration of a phone that is idle, a refused
\* authentication, finds it in connected mode.
THEOREM ServiceIsTrue == Spec => []ServiceTrue
<1>1. IInv => ServiceTrue
  BY DEF IInv, Kept, ServiceKept, ServiceTrue
<1> QED BY <1>1, ConnInvariant, PTL

\* While radio resources ask for a channel or use one, cell selection is in connected
\* mode and measures the cell of the channel (gsm48_rr.c against gsm322.c), also
\* when PLMN selection answers a registration that the network refused.
THEOREM ChannelAlwaysOnCell == Spec => []ChannelOnCell
<1>1. Linked(c) => ChannelOnCell
  BY DEF Linked, Loose, Tuned, ChannelOnCell
<1>2. ASSUME IInv, FreshRsl PROVE ChannelOnCell
  <2> DEFINE d == [c EXCEPT !.rslq = Tail(@)]
  <2>1. d.rr = c.rr /\ d.cs = c.cs /\ Linked(d)
    BY <1>2 DEF IInv, FreshRsl, Kept, Good, Typed, Fields
  <2> HIDE DEF d
  <2> QED BY <2>1 DEF Linked, Loose, Tuned, ChannelOnCell
<1>3. ASSUME IInv, FreshRr PROVE ChannelOnCell
  <2> DEFINE d == [c EXCEPT !.rrq = Tail(@)]
  <2>1. d.rr = c.rr /\ d.cs = c.cs /\ Linked(d)
    BY <1>3 DEF IInv, FreshRr, Kept, Good, Typed, Fields
  <2> HIDE DEF d
  <2> QED BY <2>1 DEF Linked, Loose, Tuned, ChannelOnCell
<1>4. IInv => ChannelOnCell
  BY <1>1, <1>2, <1>3 DEF IInv, LinkedState
<1> QED BY <1>4, ConnInvariant, PTL

-----------------------------------------------------------------------------
(* The channel and mobility management: a state in which MM uses the        *)
(* channel ends with the message that tells of the end of the channel, or   *)
(* with the cell that cell selection reports after it.                      *)

UsingStates == {"WAIT_OUT_MM_CONN", "CONN_ACTIVE", "WAIT_ADD_OUT_MM_CON", "WAIT_NETWORK_CMD"}
Ends == {"REL_IND", "ABORT_IND"}

\* The messages of radio resources that wait in their queue together with others.
RrDown == [prim : Ends, sapi : {0}] \cup [prim : {"EST_CNF", "EST_IND"} \cup Ends, sapi : {3}]

Events == {"CELL_SELECTED", "NO_CELL_FOUND", "LOST_COVERAGE"}
OfCell == {"CELL_SELECTED", "LOST_COVERAGE"}

Tells(d) == \E i \in DOMAIN d.rrq : d.rrq[i].sapi = 0 /\ d.rrq[i].prim \in Ends

\* A channel is asked for by an MM that waits for it, and that no cell was found is
\* reported while there is none ...
Aware(d) ==
  /\ DOMAIN d = Fields
  /\ d.rrq \in Seq(RrDown)
  /\ d.ev \in Seq(Events)
  /\ Tuned(d) => d.cs = "CONNECTED"
  /\ d.rr = "IDLE" => ~d.est_req
  /\ d.rr = "CONN_PEND" /\ d.est_req => d.mm # "IDLE"
  /\ d.cs \notin {"NO_CELL", "CHOOSING"} => d.ev \in Seq(OfCell)

\* ... an MM with a channel is not idle, and one that camps has yet to hear of the end.
Held(d) == d.rr = "DEDICATED" => d.mm # "IDLE"
Heard(d) == d.mm \in UsingStates /\ d.cs = "CAMPED" /\ d.ev = <<>> => Tells(d)
Known(d) == Aware(d) /\ Held(d) /\ Heard(d)

\* A phone with the same channel and cell, and MM in the same state.
SameChannel(e, d) ==
  /\ DOMAIN d = DOMAIN e
  /\ d.rr = e.rr /\ d.est_req = e.est_req /\ d.rrq = e.rrq /\ d.cs = e.cs /\ d.ev = e.ev
Still(e, d) == SameChannel(e, d) /\ d.mm = e.mm

LEMMA StillKnown ==
  ASSUME NEW e, NEW d, Still(e, d)
  PROVE  /\ Aware(e) => Aware(d)
         /\ Held(e) => Held(d)
         /\ Known(e) => Known(d)
BY DEF Still, SameChannel, Known, Aware, Held, Heard, Tells, Tuned

LEMMA StillTwice ==
  ASSUME NEW e, NEW d, NEW f, Still(e, d), Still(d, f)
  PROVE  Still(e, f)
BY DEF Still, SameChannel

\* MM goes to a state in which it has no channel yet, or is in connected mode.
LEMMA BusyKnown ==
  ASSUME NEW e, Aware(e), NEW d, SameChannel(e, d), d.mm # "IDLE",
         d.mm \notin UsingStates \/ e.cs # "CAMPED" \/ (e.mm \in UsingStates /\ Heard(e))
  PROVE  Known(d)
BY DEF SameChannel, Known, Aware, Held, Heard, Tells, Tuned

\* Messages are queued.
LEMMA UpmsgKnown ==
  ASSUME NEW e, NEW p, NEW s, [prim |-> p, sapi |-> s] \in RrDown
  PROVE  LET d == gsm48_rr_upmsg(e, p, s) IN
         /\ Aware(e) => Aware(d)
         /\ Held(e) => Held(d)
         /\ Known(e) => Known(d)
         /\ Aware(e) => /\ d.rr = e.rr /\ d.est_req = e.est_req /\ d.cs = e.cs /\ d.ev = e.ev
                        /\ d.mm = e.mm /\ d.plmn = e.plmn
<1> DEFINE d == gsm48_rr_upmsg(e, p, s)
           m == [prim |-> p, sapi |-> s]
<1>1. ASSUME Aware(e)
      PROVE  /\ DOMAIN d = Fields /\ d.rrq = Append(e.rrq, m)
             /\ d.rr = e.rr /\ d.est_req = e.est_req /\ d.cs = e.cs /\ d.ev = e.ev
             /\ d.mm = e.mm /\ d.plmn = e.plmn
  BY <1>1 DEF Aware, Fields, gsm48_rr_upmsg
<1>2. m \in RrDown
  OBVIOUS
<1>0. Held(e) => Held(d)
  <2>1. d.rr = e.rr /\ d.mm = e.mm
    BY DEF gsm48_rr_upmsg
  <2> QED BY <2>1 DEF Held
<1> HIDE DEF d, m
<1>3. Aware(e) => Append(e.rrq, m) \in Seq(RrDown)
  BY <1>2 DEF Aware
<1>4. Aware(e) => Aware(d)
  BY <1>1, <1>3 DEF Aware, Tuned
<1>5. Aware(e) /\ Tells(e) => Tells(d)
  <2> SUFFICES ASSUME Aware(e), NEW i \in DOMAIN e.rrq, e.rrq[i].sapi = 0, e.rrq[i].prim \in Ends
               PROVE  Tells(d)
    BY DEF Tells
  <2>1. e.rrq \in Seq(RrDown)
    BY DEF Aware
  <2>2. i \in DOMAIN d.rrq /\ d.rrq[i] = e.rrq[i]
    BY <1>1, <1>2, <2>1
  <2> QED BY <2>2 DEF Tells
<1>6. Known(e) => Known(d)
  BY <1>0, <1>1, <1>4, <1>5 DEF Known, Heard
<1> QED BY <1>0, <1>1, <1>4, <1>6 DEF d

LEMMA DownMessages ==
  /\ \A p \in Ends : [prim |-> p, sapi |-> 0] \in RrDown
  /\ \A p \in {"EST_CNF", "EST_IND", "REL_IND", "ABORT_IND"} : [prim |-> p, sapi |-> 3] \in RrDown
BY DEF RrDown, Ends, RrPrims

LEMMA DataLinkStill ==
  ASSUME NEW e, DOMAIN e = Fields, NEW local, NEW p, NEW s
  PROVE  /\ Still(e, RslUp(e, p, s)) /\ Still(e, LinkDown(e))
         /\ Still(e, DlEstReq(e)) /\ Still(e, DlRelReq(e, local))
<1>1. Still(e, LinkDown(e)) /\ Still(e, DlEstReq(e)) /\ Still(e, [e EXCEPT !.dl = "DISC_SENT"])
  BY DEF Fields, Still, SameChannel, LinkDown, DlEstReq
<1>2. ASSUME NEW f, DOMAIN f = Fields, NEW q, NEW t PROVE Still(f, RslUp(f, q, t))
  BY <1>2 DEF Fields, Still, SameChannel, RslUp
<1>3. Still(e, RslUp(LinkDown(e), "REL_CONF", 0))
  BY <1>1, <1>2, StillTwice DEF Still, SameChannel
<1> QED BY <1>1, <1>2, <1>3 DEF DlRelReq

LEMMA DataLinkKnown ==
  ASSUME NEW e, NEW local
  PROVE  /\ Aware(e) => Aware(DlEstReq(e)) /\ Aware(DlRelReq(e, local))
         /\ Known(e) => Known(DlEstReq(e)) /\ Known(DlRelReq(e, local))
BY DataLinkStill, StillKnown DEF Known, Aware

LEMMA ReleaseSapi3Known ==
  ASSUME NEW e, Known(e)
  PROVE  Known(gsm48_release_sapi3_link(e))
<1> DEFINE d == [e EXCEPT !.s3 = "IDLE", !.dl3 = "IDLE"]
<1>1. Still(e, d)
  BY DEF Known, Aware, Fields, Still, SameChannel
<1> HIDE DEF d
<1>2. Known(gsm48_rr_upmsg(d, "REL_IND", 3))
  BY <1>1, StillKnown, UpmsgKnown, DownMessages
<1> QED BY <1>2 DEF gsm48_release_sapi3_link, d

\* Giving the channel back: MM may use it until it is told or a cell is reported.
LEMMA ReturnKnown ==
  ASSUME NEW e, Aware(e), Heard(e), NEW state \in {"IDLE", "REL_PEND"}
  PROVE  Known(new_rr_state(e, state))
<1> DEFINE d == [e EXCEPT !.rr = state]
           g == [e EXCEPT !.rr = "IDLE", !.est_req = FALSE, !.est_msg = None]
<1>1. state # "IDLE" \/ e.rr = "IDLE" => Known(d)
  BY DEF Known, Aware, Held, Heard, Tells, Tuned, Fields
<1>2. Known(g) /\ ~Tuned(g) /\ g.est_req = FALSE /\ DOMAIN g = Fields
  BY DEF Known, Aware, Held, Heard, Tells, Tuned, Fields
<1> HIDE DEF g
<1>3. Known(RetIdle(g))
  <2> DEFINE r == [g EXCEPT !.cs = "CAMPED", !.ev = Append(@, "CELL_SELECTED")]
             s == [g EXCEPT !.cs = "CHOOSING"]
  <2>1. Known(s)
    BY <1>2 DEF Known, Aware, Held, Heard, Tells, Tuned, Fields
  <2>2. g.cs = "CONNECTED" => Known(r)
    <3>1. g.cs = "CONNECTED" => g.ev \in Seq(OfCell)
      BY <1>2 DEF Known, Aware
    <3>2. g.cs = "CONNECTED" =>
            /\ Append(g.ev, "CELL_SELECTED") \in Seq(OfCell)
            /\ Append(g.ev, "CELL_SELECTED") \in Seq(Events)
            /\ Append(g.ev, "CELL_SELECTED") # <<>>
      BY <3>1 DEF OfCell, Events
    <3>3. /\ r.ev = Append(g.ev, "CELL_SELECTED") /\ r.cs = "CAMPED" /\ DOMAIN r = Fields
          /\ r.rr = g.rr /\ r.est_req = g.est_req /\ r.rrq = g.rrq /\ r.mm = g.mm
      BY <1>2 DEF Fields
    <3> HIDE DEF r
    <3> QED BY <1>2, <3>2, <3>3 DEF Known, Aware, Held, Heard, Tells, Tuned
  <2> HIDE DEF r, s
  <2>3. RetIdle(g) = g \/ RetIdle(g) = s \/ (g.cs = "CONNECTED" /\ RetIdle(g) = r)
    BY DEF RetIdle, r, s
  <2> QED BY <1>2, <2>1, <2>2, <2>3
<1> HIDE DEF d
<1>4. \/ (state # "IDLE" \/ e.rr = "IDLE") /\ new_rr_state(e, state) = d
      \/ new_rr_state(e, state) = RetIdle(g)
  BY DEF new_rr_state, d, g
<1> QED BY <1>1, <1>3, <1>4

\* Asking for a channel, on the cell that the phone camps on.
LEMMA ChanReqAsked ==
  ASSUME NEW e, Aware(e), e.cs = "CAMPED", NEW lupd
  PROVE  LET d == gsm48_rr_chan_req(e, lupd) IN
         /\ DOMAIN d = Fields /\ d.rr = "CONN_PEND" /\ d.est_req = e.est_req /\ d.rrq = e.rrq
         /\ d.cs = "CONNECTED" /\ d.ev = e.ev /\ d.mm = e.mm /\ d.ev \in Seq(OfCell)
<1> DEFINE n == [e EXCEPT !.rr = "CONN_PEND"]
           d == [n EXCEPT !.cs = "CONNECTED", !.access = TRUE, !.lupd = lupd]
<1>1. gsm48_rr_chan_req(e, lupd) = d
  BY DEF gsm48_rr_chan_req, new_rr_state
<1>2. /\ DOMAIN d = Fields /\ d.rr = "CONN_PEND" /\ d.est_req = e.est_req /\ d.rrq = e.rrq
      /\ d.cs = "CONNECTED" /\ d.ev = e.ev /\ d.mm = e.mm /\ e.ev \in Seq(OfCell)
  BY DEF Aware, Fields
<1> HIDE DEF d
<1> QED BY <1>1, <1>2

LEMMA PageKnown ==
  ASSUME NEW e, Known(e), e.rr = "IDLE", e.cs = "CAMPED"
  PROVE  Known(gsm48_rr_chan_req(e, FALSE))
BY ChanReqAsked DEF Known, Aware, Held, Heard, Tuned

LEMMA EstReqState ==
  ASSUME NEW e, DOMAIN e = Fields, NEW req
  PROVE  DOMAIN gsm48_rr_est_req(e, req) = Fields /\ gsm48_rr_est_req(e, req).mm = e.mm
BY DEF Fields, gsm48_rr_est_req, gsm48_rr_upmsg, gsm48_rr_chan_req, new_rr_state, RetIdle

\* Mobility management asks, and waits for the channel in a state of its own.
LEMMA EstReqKnown ==
  ASSUME NEW e, Aware(e), NEW req, NEW d, SameChannel(gsm48_rr_est_req(e, req), d),
         d.mm # "IDLE", d.mm \notin UsingStates
  PROVE  Known(d)
<1> DEFINE a == [e EXCEPT !.est_req = TRUE, !.est_msg = req]
           q == gsm48_rr_est_req(e, req)
<1>1. CASE e.t3122 \/ e.rr # "IDLE" \/ e.cs # "CAMPED"
  <2>1. Aware(gsm48_rr_upmsg(e, "REL_IND", 0))
    BY UpmsgKnown, DownMessages DEF Ends
  <2>2. q = gsm48_rr_upmsg(e, "REL_IND", 0)
    BY <1>1 DEF gsm48_rr_est_req
  <2> QED BY <2>1, <2>2, BusyKnown
<1>2. CASE ~(e.t3122 \/ e.rr # "IDLE" \/ e.cs # "CAMPED")
  <2> DEFINE n == [a EXCEPT !.rr = "CONN_PEND"]
             g == [n EXCEPT !.cs = "CONNECTED", !.access = TRUE, !.lupd = (req = Lupd)]
  <2>1. q = g
    BY <1>2 DEF gsm48_rr_est_req, gsm48_rr_chan_req, new_rr_state
  <2>2. /\ DOMAIN g = Fields /\ g.rr = "CONN_PEND" /\ g.rrq = e.rrq
        /\ g.cs = "CONNECTED" /\ g.ev = e.ev /\ e.ev \in Seq(OfCell)
    BY <1>2 DEF Aware, Fields
  <2> HIDE DEF g
  <2> QED BY <2>1, <2>2 DEF SameChannel, Known, Aware, Held, Heard, Tuned
<1> QED BY <1>1, <1>2

LEMMA AbortReqKnown ==
  ASSUME NEW e, Known(e)
  PROVE  Known(gsm48_rr_abort_req(e))
<1> DEFINE d == [e EXCEPT !.access = FALSE]
<1>1. Still(e, d)
  BY DEF Known, Aware, Fields, Still, SameChannel
<1>2. Known(new_rr_state(d, "IDLE"))
  BY <1>1, StillKnown, ReturnKnown DEF Known
<1>3. Known(gsm48_release_sapi3_link(DlRelReq(new_rr_state(e, "REL_PEND"), FALSE)))
  BY ReturnKnown, DataLinkKnown, ReleaseSapi3Known DEF Known
<1> QED BY <1>2, <1>3 DEF gsm48_rr_abort_req

\* The end of the channel, as layer 2 and the network tell of it.
LEMMA RrDownKnown ==
  ASSUME NEW e, Known(e)
  PROVE  /\ Known(gsm48_rr_rel_ind(e)) /\ Known(gsm48_rr_rel_cnf(e))
         /\ Known(gsm48_rr_mdl_error_ind(e)) /\ Known(gsm48_rr_rx_chan_rel(e))
<1>1. Known(gsm48_rr_rel_ind(e))
  <2> DEFINE told == gsm48_rr_upmsg(e, "REL_IND", 0)
             d == [told EXCEPT !.rel_wait = TRUE]
  <2>1. Known(told)
    BY UpmsgKnown, DownMessages DEF Ends
  <2> HIDE DEF told
  <2>2. Still(told, d)
    BY <2>1 DEF Known, Aware, Fields, Still, SameChannel
  <2> HIDE DEF d
  <2>3. Known(gsm48_release_sapi3_link(new_rr_state(d, "REL_PEND")))
    BY <2>1, <2>2, StillKnown, ReturnKnown, ReleaseSapi3Known DEF Known
  <2> QED BY <2>3 DEF gsm48_rr_rel_ind, told, d
<1>2. Known(gsm48_rr_rel_cnf(e))
  <2> DEFINE d == [e EXCEPT !.t3110 = FALSE]
  <2>1. Still(e, d)
    BY DEF Known, Aware, Fields, Still, SameChannel
  <2> HIDE DEF d
  <2>2. Known(gsm48_rr_upmsg(d, "REL_IND", 0))
    BY <2>1, StillKnown, UpmsgKnown, DownMessages DEF Ends
  <2>3. Known(new_rr_state(gsm48_rr_upmsg(d, "REL_IND", 0), "IDLE"))
    BY <2>2, ReturnKnown DEF Known
  <2> QED BY <2>3 DEF gsm48_rr_rel_cnf, d
<1>3. Known(gsm48_rr_mdl_error_ind(e))
  <2> DEFINE told == gsm48_rr_upmsg(DlRelReq(e, TRUE), "ABORT_IND", 0)
  <2>1. Known(told)
    BY DataLinkKnown, UpmsgKnown, DownMessages DEF Ends
  <2> HIDE DEF told
  <2>2. Known(gsm48_release_sapi3_link(new_rr_state(told, "IDLE")))
    BY <2>1, ReturnKnown, ReleaseSapi3Known DEF Known
  <2> QED BY <2>2 DEF gsm48_rr_mdl_error_ind, told
<1>4. Known(gsm48_rr_rx_chan_rel(e))
  <2> DEFINE n == new_rr_state(e, "REL_PEND")
             d == [n EXCEPT !.t3110 = TRUE]
  <2>1. Known(n)
    BY ReturnKnown DEF Known
  <2> HIDE DEF n
  <2>2. Still(n, d)
    BY <2>1 DEF Known, Aware, Fields, Still, SameChannel
  <2> HIDE DEF d
  <2>3. Known(gsm48_release_sapi3_link(DlRelReq(d, FALSE)))
    BY <2>1, <2>2, StillKnown, DataLinkKnown, ReleaseSapi3Known
  <2> QED BY <2>3 DEF gsm48_rr_rx_chan_rel, n, d
<1> QED BY <1>1, <1>2, <1>3, <1>4

LEMMA ImmAssKnown ==
  ASSUME NEW e, Known(e)
  PROVE  Known(gsm48_rr_rx_imm_ass(e)) /\ Known(gsm48_rr_rx_imm_ass_rej(e))
<1> DEFINE d == [e EXCEPT !.access = FALSE]
           g == [e EXCEPT !.t3122 = TRUE]
<1>1. Still(e, d) /\ Still(e, g)
  BY DEF Known, Aware, Fields, Still, SameChannel
<1> HIDE DEF d, g
<1>2. Known(DlEstReq(d)) /\ Known(g)
  BY <1>1, StillKnown, DataLinkKnown
<1> QED BY <1>2 DEF gsm48_rr_rx_imm_ass, gsm48_rr_rx_imm_ass_rej, gsm48_rr_dl_est, d, g

LEMMA Sapi3Known ==
  ASSUME NEW e, Known(e)
  PROVE  /\ Known(gsm48_rr_estab_cnf_sapi3(e)) /\ Known(gsm48_rr_estab_ind_sapi3(e))
         /\ Known(gsm48_rr_rel_ind_sapi3(e)) /\ Known(gsm48_rr_mdl_error_ind_sapi3(e))
<1> DEFINE d == [e EXCEPT !.s3 = "ESTAB"]
           g == [e EXCEPT !.s3 = "IDLE"]
           h == [e EXCEPT !.s3 = "IDLE", !.dl3 = "IDLE"]
<1>1. Still(e, d) /\ Still(e, g) /\ Still(e, h)
  BY DEF Known, Aware, Fields, Still, SameChannel
<1>2. Known(d) /\ Known(g) /\ Known(h)
  BY <1>1, StillKnown
<1> HIDE DEF d, g, h
<1>3. /\ Known(gsm48_rr_upmsg(d, "EST_CNF", 3)) /\ Known(gsm48_rr_upmsg(d, "EST_IND", 3))
      /\ Known(gsm48_rr_upmsg(g, "REL_IND", 3)) /\ Known(gsm48_rr_upmsg(h, "ABORT_IND", 3))
  BY <1>2, UpmsgKnown, DownMessages
<1> QED BY <1>3, ReleaseSapi3Known
        DEF gsm48_rr_estab_cnf_sapi3, gsm48_rr_estab_ind_sapi3, gsm48_rr_rel_ind_sapi3,
            gsm48_rr_mdl_error_ind_sapi3, d, g, h

\* The link of the short messages is asked for.
LEMMA EstReqSapi3Known ==
  ASSUME NEW e
  PROVE  LET d == gsm48_rr_est_req_sapi3(e) IN
         /\ Aware(e) => /\ Aware(d)
                        /\ d.rr = e.rr /\ d.cs = e.cs /\ d.ev = e.ev /\ d.mm = e.mm
         /\ Known(e) => Known(d)
<1> DEFINE w == [e EXCEPT !.s3 = "WAIT_EST", !.dl3 = IF @ = "IDLE" THEN "SABM_SENT" ELSE @]
           u == gsm48_rr_upmsg(e, "EST_CNF", 3)
           v == gsm48_rr_upmsg(e, "REL_IND", 3)
<1>1. Aware(e) => Still(e, w)
  BY DEF Aware, Fields, Still, SameChannel
<1>2. /\ Aware(e) => /\ Aware(u) /\ u.rr = e.rr /\ u.cs = e.cs /\ u.ev = e.ev /\ u.mm = e.mm
                     /\ Aware(v) /\ v.rr = e.rr /\ v.cs = e.cs /\ v.ev = e.ev /\ v.mm = e.mm
      /\ Known(e) => Known(u) /\ Known(v)
  BY UpmsgKnown, DownMessages
<1>3. gsm48_rr_est_req_sapi3(e) \in {e, u, v, w}
  BY DEF gsm48_rr_est_req_sapi3
<1>4. /\ Aware(e) => Aware(w) /\ w.rr = e.rr /\ w.cs = e.cs /\ w.ev = e.ev /\ w.mm = e.mm
      /\ Known(e) => Known(w)
  BY ZenonT(40), <1>1, StillKnown DEF Still, SameChannel, Known
<1> HIDE DEF u, v, w
<1> QED BY <1>2, <1>3, <1>4

LEMMA RrTimersKnown ==
  ASSUME NEW e, Known(e)
  PROVE  /\ Known(timeout_rr_t3126(e)) /\ Known(timeout_rr_t3110(e))
         /\ Known(timeout_rr_t_rel_wait(e)) /\ Known(gsm48_rr_los(e))
<1> DEFINE told == IF e.est_req THEN gsm48_rr_upmsg(e, "REL_IND", 0) ELSE e
           a == [told EXCEPT !.access = FALSE]
           d == [e EXCEPT !.t3110 = FALSE]
           g == [e EXCEPT !.rel_wait = FALSE]
           h == [d EXCEPT !.access = FALSE]
<1>1. Known(told)
  BY UpmsgKnown, DownMessages DEF Ends
<1> HIDE DEF told
<1>2. Still(told, a) /\ Still(e, d) /\ Still(e, g) /\ Still(e, h)
  BY <1>1 DEF Known, Aware, Fields, Still, SameChannel
<1> HIDE DEF a, g, h
<1>3. Known(a) /\ Known(d) /\ Known(g) /\ Known(h)
  BY <1>1, <1>2, StillKnown
<1> HIDE DEF d
<1>4. Known(gsm48_rr_upmsg(h, "REL_IND", 0))
  BY <1>3, UpmsgKnown, DownMessages DEF Ends
<1>5. Known(gsm48_release_sapi3_link(DlRelReq(new_rr_state(d, "REL_PEND"), TRUE)))
  BY <1>3, ReturnKnown, DataLinkKnown, ReleaseSapi3Known DEF Known
<1>6. /\ Known(new_rr_state(a, "IDLE")) /\ Known(new_rr_state(g, "IDLE"))
      /\ Known(new_rr_state(gsm48_rr_upmsg(h, "REL_IND", 0), "IDLE"))
  BY <1>3, <1>4, ReturnKnown DEF Known
<1> QED BY <1>3, <1>5, <1>6
        DEF timeout_rr_t3126, timeout_rr_t3110, timeout_rr_t_rel_wait, gsm48_rr_los, told, a, d, g, h

\* Back to MM IDLE, and the location update that may begin there.
LEMMA IdleStill ==
  ASSUME NEW e, DOMAIN e = Fields
  PROVE  /\ Still(e, UpdateDone(e)) /\ DOMAIN UpdateDone(e) = Fields
         /\ \A p : Still(e, [e EXCEPT !.pending = p]) /\ Still(e, [e EXCEPT !.retry = p])
                   /\ Still(e, [e EXCEPT !.periodic = p])
BY DEF Fields, Still, SameChannel, UpdateDone

\* What the next of the nested calls is to do.
SettlesKnown(locUpd) == \A e : Good(e) /\ Aware(e) /\ Held(e) => Known(locUpd[e])

LEMMA LocUpdPeriodicKnown ==
  ASSUME NEW e, Good(e), Known(e), NEW locUpd, SettlesKnown(locUpd)
  PROVE  Known(LocUpdPeriodic(e, locUpd))
<1> DEFINE p == [e EXCEPT !.pending = TRUE]
<1>1. Good(p)
  BY PendingGood
<1>2. Still(e, p)
  BY IdleStill DEF Known, Aware
<1> HIDE DEF p
<1>3. Aware(p) /\ Held(p)
  BY <1>2, StillKnown DEF Known
<1> QED BY <1>1, <1>3 DEF LocUpdPeriodic, SettlesKnown, p

LEMMA EnterIdleKnown ==
  ASSUME NEW e, Good(e), Aware(e), Held(e), e.mm = "IDLE" \/ ~Tuned(e), NEW sst \in SubStates,
         NEW locUpd, SettlesKnown(locUpd)
  PROVE  Known(EnterIdle(e, sst, locUpd))
<1> DEFINE updating == sst \in {"NORMAL", "ATTEMPT_UPDATE"}
           d == [e EXCEPT !.mm = "IDLE", !.sst = sst, !.rej = None,
                          !.t3212 = @ \/ (Periodic /\ updating)]
           r == [d EXCEPT !.retry = FALSE]
           p == [d EXCEPT !.periodic = FALSE]
<1>1. IsFcn(d) /\ IsFcn(r) /\ IsFcn(p)
  BY Zenon DEF IsFcn
<1>2. Typed(d) /\ d.cs = e.cs /\ d.ev = e.ev /\ d.conn = e.conn
  BY RefAssumption DEF Good, Typed, Fields, SubStates
<1>3. SameChannel(e, d) /\ d.mm = "IDLE"
  BY DEF Aware, Fields, SameChannel
<1>4. EnterIdle(e, sst, locUpd) \in {locUpd[r], LocUpdPeriodic(p, locUpd), d}
  BY DEF EnterIdle
<1> HIDE DEF d
<1>5. Good(d)
  BY <1>1, <1>2 DEF Good, OnePending, Pending, CellReported
<1>6. Typed(r) /\ Same(d, r) /\ Typed(p) /\ Same(d, p)
  BY <1>2 DEF Typed, Fields, Same
<1>7. Good(r) /\ Good(p)
  BY <1>1, <1>5, <1>6, SameGood
<1>8. Known(d)
  BY <1>3 DEF SameChannel, Known, Aware, Held, Heard, Tuned, UsingStates
<1>9. Still(d, r) /\ Still(d, p)
  BY <1>8, IdleStill DEF Known, Aware
<1> HIDE DEF r, p
<1>10. Known(r) /\ Known(p)
  BY <1>8, <1>9, StillKnown
<1>11. Known(LocUpdPeriodic(p, locUpd))
  BY <1>7, <1>10, LocUpdPeriodicKnown
<1>12. Known(locUpd[r])
  BY <1>7, <1>10 DEF SettlesKnown, Known
<1> QED BY <1>4, <1>8, <1>11, <1>12

LEMMA LocUpdNormalKnown ==
  ASSUME NEW e, Good(e), Known(e), NEW locUpd, SettlesKnown(locUpd)
  PROVE  Known(LocUpdNormal(e, locUpd))
<1> DEFINE p == [e EXCEPT !.pending = TRUE]
           n == EnterIdle(e, "NORMAL", locUpd)
<1>1. Good(p)
  BY PendingGood
<1>2. Still(e, p)
  BY IdleStill DEF Known, Aware
<1>3. e.cs = "CAMPED" => Known(n)
  BY EnterIdleKnown DEF SubStates, Serving, Known, Aware
<1> HIDE DEF p, n
<1>4. Known(locUpd[p])
  BY <1>1, <1>2, StillKnown DEF SettlesKnown, Known
<1> QED BY <1>3, <1>4 DEF LocUpdNormal, n, p

LEMMA NewStateIdleKnown ==
  ASSUME NEW e, Good(e), Aware(e), Held(e), e.mm = "IDLE" \/ ~Tuned(e),
         NEW sst \in SubStates \cup {"LOC_UPD_NEEDED"},
         NEW locUpd, Settles(locUpd), SettlesKnown(locUpd)
  PROVE  Known(NewStateIdle(e, sst, locUpd))
<1>1. CASE sst = "LOC_UPD_NEEDED"
  <2> DEFINE a == EnterIdle(e, "ATTEMPT_UPDATE", locUpd)
  <2>1. Good(a) /\ Known(a)
    BY EnterIdleKept, EnterIdleKnown DEF SubStates, Serving, Kept
  <2> HIDE DEF a
  <2>2. Known(LocUpdNormal(a, locUpd))
    BY <2>1, LocUpdNormalKnown
  <2> QED BY <1>1, <2>2 DEF NewStateIdle, a
<1>2. CASE sst # "LOC_UPD_NEEDED"
  BY <1>2, EnterIdleKnown DEF NewStateIdle
<1> QED BY <1>1, <1>2

LEMMA ReturnIdleKnown ==
  ASSUME NEW e, Good(e), Aware(e), Held(e), NEW locUpd, Settles(locUpd), SettlesKnown(locUpd)
  PROVE  Known(ReturnIdle(e, locUpd))
<1>1. CASE e.cs \notin {"CAMPED", "ANY"}
  BY <1>1 DEF ReturnIdle, Known, Heard
<1>2. CASE e.cs \in {"CAMPED", "ANY"}
  <2> DEFINE d == [e EXCEPT !.t3211 = @ \/ e.start_t3211, !.start_t3211 = FALSE]
             n == [d EXCEPT !.t3212 = FALSE]
  <2>1. IsFcn(d) /\ IsFcn(n)
    BY Zenon DEF IsFcn
  <2>2. Typed(d) /\ Same(e, d) /\ Typed(n) /\ Same(e, n)
    BY DEF Good, Typed, Fields, Same
  <2>3. Still(e, d) /\ Still(e, n) /\ DOMAIN n = Fields
    BY DEF Aware, Fields, Still, SameChannel
  <2>4. Good(d) /\ Good(n) /\ Good(UpdateDone(n))
    BY <2>1, <2>2, SameGood, UpdateDoneGood
  <2> HIDE DEF d, n
  <2>5. Still(e, UpdateDone(n))
    BY <2>3, IdleStill, StillTwice
  <2>6. /\ Aware(d) /\ Held(d) /\ Aware(UpdateDone(n)) /\ Held(UpdateDone(n))
        /\ ~Tuned(d) /\ ~Tuned(UpdateDone(n))
    BY <1>2, <2>3, <2>5, StillKnown DEF Still, SameChannel, Tuned, Aware
  <2>7. \A sst \in SubStates \cup {"LOC_UPD_NEEDED"} : Known(NewStateIdle(d, sst, locUpd))
    BY <2>4, <2>6, NewStateIdleKnown
  <2>8. Known(NewStateIdle(UpdateDone(n), "NO_IMSI", locUpd))
    BY <2>4, <2>6, NewStateIdleKnown DEF SubStates
  <2> QED BY <1>2, <2>7, <2>8 DEF ReturnIdle, SubStates, Serving, d, n
<1> QED BY <1>1, <1>2

LEMMA BeginLocUpdKnown ==
  ASSUME NEW e, Aware(e)
  PROVE  Known(BeginLocUpd(e))
<1> DEFINE d == [e EXCEPT !.mm = "WAIT_RR_CONN_LUPD",
                          !.lost = @ \/ e.rel_wait \/ e.dl # "IDLE"]
           q == gsm48_rr_est_req(d, Lupd)
<1>1. Aware(d) /\ d.mm = "WAIT_RR_CONN_LUPD"
  BY DEF Aware, Tuned, Fields
<1> HIDE DEF d
<1>2. q.mm = "WAIT_RR_CONN_LUPD"
  BY <1>1, EstReqState DEF Aware
<1>3. Known(q)
  BY <1>1, <1>2, EstReqKnown DEF SameChannel, UsingStates
<1> QED BY <1>3 DEF BeginLocUpd, d

LEMMA TryLocUpdKnown ==
  ASSUME NEW e, Good(e), Aware(e), Held(e), NEW locUpd, Settles(locUpd), SettlesKnown(locUpd)
  PROVE  Known(TryLocUpd(e, locUpd))
<1> DEFINE u == UpdateDone(e)
<1>1. Good(u) /\ Still(e, u)
  BY UpdateDoneGood, IdleStill DEF Aware
<1> HIDE DEF u
<1>2. Aware(u) /\ Held(u)
  BY <1>1, StillKnown
<1>3. Known(ReturnIdle(e, locUpd)) /\ Known(ReturnIdle(u, locUpd)) /\ Known(BeginLocUpd(e))
  BY <1>1, <1>2, ReturnIdleKnown, BeginLocUpdKnown
<1> QED BY <1>3 DEF TryLocUpd, u

LEMMA LocUpdKnown == SettlesKnown(LocUpd3)
<1>0. Settles(LocUpd0) /\ Settles(LocUpd1) /\ Settles(LocUpd2)
  BY LocUpdInnerSettles
<1>1. SettlesKnown(LocUpd0)
  BY GoodPhone, BeginLocUpdKnown DEF SettlesKnown, LocUpd0
<1>2. SettlesKnown(LocUpd1)
  BY <1>0, <1>1, GoodPhone, TryLocUpdKnown DEF SettlesKnown, LocUpd1
<1>3. SettlesKnown(LocUpd2)
  BY <1>0, <1>2, GoodPhone, TryLocUpdKnown DEF SettlesKnown, LocUpd2
<1> QED BY <1>0, <1>3, GoodPhone, TryLocUpdKnown DEF SettlesKnown, LocUpd3

\* MM returns to idle only where cell selection has left connected mode, or it is idle.
LEMMA MmIdleKnown ==
  ASSUME NEW e, Good(e), Aware(e), Held(e)
  PROVE  /\ Known(gsm48_mm_return_idle(e)) /\ Known(gsm48_mm_loc_upd(e))
         /\ e.mm = "IDLE" \/ ~Tuned(e) =>
              \A sst \in SubStates \cup {"LOC_UPD_NEEDED"} : Known(new_mm_state_idle(e, sst))
         /\ Heard(e) => Known(gsm48_mm_loc_upd_normal(e)) /\ Known(gsm48_mm_loc_upd_periodic(e))
BY LocUpdKnown, LocUpdSettles, ReturnIdleKnown, LocUpdNormalKnown, NewStateIdleKnown, LocUpdPeriodicKnown
   DEF gsm48_mm_loc_upd, gsm48_mm_return_idle, gsm48_mm_loc_upd_normal, new_mm_state_idle,
       gsm48_mm_loc_upd_periodic, SettlesKnown, Known

\* Connections, timers and the registration do not touch the channel.
LEMMA ConnStill ==
  ASSUME NEW e, DOMAIN e = Fields, NEW refs, NEW p, NEW ref
  PROVE  /\ Still(e, gsm48_mmxx_upmsg(e, refs, p)) /\ Still(e, mm_conn_free(e, ref))
         /\ Still(e, gsm48_mm_release_mm_conn(e, refs, p))
         /\ \A s : Still(e, [e EXCEPT !.conn[ref] = s])
         /\ Still(e, [e EXCEPT !.net = @ \cup {ref}])
<1>1. Still(e, gsm48_mmxx_upmsg(e, refs, p)) /\ Still(e, mm_conn_free(e, ref))
      /\ \A s : Still(e, [e EXCEPT !.conn[ref] = s])
      /\ Still(e, [e EXCEPT !.net = @ \cup {ref}])
  BY DEF Fields, Still, SameChannel, gsm48_mmxx_upmsg, mm_conn_free
<1> DEFINE u == gsm48_mmxx_upmsg(e, refs, p)
           d == [u EXCEPT !.conn = [r \in Refs |-> IF r \in refs THEN "NONE" ELSE u.conn[r]]]
<1>2. gsm48_mm_release_mm_conn(e, refs, p) = d
  BY Zenon DEF gsm48_mm_release_mm_conn
<1>3. DOMAIN u = Fields /\ Still(e, u)
  BY <1>1 DEF Still, SameChannel
<1> HIDE DEF u
<1>4. Still(u, d)
  BY <1>3 DEF Fields, Still, SameChannel
<1> HIDE DEF d
<1> QED BY <1>1, <1>2, <1>3, <1>4, StillTwice

LEMMA TimerStill ==
  ASSUME NEW e, DOMAIN e = Fields, NEW v, NEW w
  PROVE  /\ Still(e, [e EXCEPT !.t3230 = v]) /\ Still(e, [e EXCEPT !.t3240 = v])
         /\ Still(e, [e EXCEPT !.t3210 = v]) /\ Still(e, [e EXCEPT !.t3212 = v])
         /\ Still(e, [e EXCEPT !.t3240 = v, !.t3230 = w])
         /\ Still(e, [e EXCEPT !.sapi3_link = v])
BY DEF Fields, Still, SameChannel

LEMMA UnregisteredStill ==
  ASSUME NEW e, DOMAIN e = Fields, NEW illegal \in BOOLEAN
  PROVE  Still(e, Unregistered(e, illegal))
<1>1. PICK sim : Unregistered(e, illegal) = [e EXCEPT !.reg = None, !.sim = sim]
  BY Zenon DEF Unregistered
<1> QED BY <1>1 DEF Fields, Still, SameChannel

\* MM uses the channel, in connected mode or from one such state to another.
MayUse(e) == e.cs # "CAMPED" \/ (e.mm \in UsingStates /\ Heard(e))

LEMMA ActiveOrWaitKnown ==
  ASSUME NEW e, Aware(e), MayUse(e)
  PROVE  /\ Known(WaitNetworkCommand(e)) /\ Known(ActiveOrWait(e)) /\ Known(gsm48_mm_est_mm_con(e))
         /\ Known([e EXCEPT !.mm = "CONN_ACTIVE"])
<1> DEFINE t == [e EXCEPT !.t3240 = TRUE]
           w == [t EXCEPT !.mm = "WAIT_NETWORK_CMD"]
           x == [e EXCEPT !.mm = "WAIT_NETWORK_CMD"]
           a == [e EXCEPT !.mm = "CONN_ACTIVE"]
           o == [e EXCEPT !.t3230 = TRUE, !.mm = "WAIT_OUT_MM_CONN"]
<1>1. /\ SameChannel(e, w) /\ w.mm = "WAIT_NETWORK_CMD" /\ SameChannel(e, x) /\ x.mm = "WAIT_NETWORK_CMD"
      /\ SameChannel(e, a) /\ a.mm = "CONN_ACTIVE" /\ SameChannel(e, o) /\ o.mm = "WAIT_OUT_MM_CONN"
  BY DEF Aware, Fields, SameChannel
<1>2. WaitNetworkCommand(e) = x /\ ActiveOrWait(e) \in {w, a} /\ gsm48_mm_est_mm_con(e) \in {w, o}
  BY DEF WaitNetworkCommand, ActiveOrWait, gsm48_mm_est_mm_con
<1> HIDE DEF w, x, o
<1>3. Known(w) /\ Known(x) /\ Known(o)
  BY <1>1, BusyKnown DEF MayUse
<1>4. Known(a)
  <2> HIDE DEF a
  <2> QED BY <1>1, BusyKnown DEF MayUse
<1> QED BY <1>2, <1>3, <1>4

LEMMA MmEstReqKnown ==
  ASSUME NEW e, Known(e), NEW ref
  PROVE  Known(MmEstReq(e, ref))
<1> DEFINE p == [e EXCEPT !.conn[ref] = "PEND"]
<1>1. Known(gsm48_mm_init_mm_reject(e, ref))
  BY ConnStill, StillKnown DEF gsm48_mm_init_mm_reject, Known, Aware
<1>2. Still(e, p)
  BY ConnStill DEF Known, Aware
<1> HIDE DEF p
<1>3. Known(p) /\ p.mm = e.mm /\ DOMAIN p = Fields
  BY <1>2, StillKnown DEF Still, Known, Aware
<1>4. Known(gsm48_mm_init_mm_no_rr(e, ref))
  <2> DEFINE q == gsm48_rr_est_req(p, ref)
             strays == IF e.rel_wait \/ e.t3210 THEN q.stray \cup {ref} ELSE q.stray
             d == [q EXCEPT !.mm = "WAIT_RR_CONN_MM_CON", !.stray = strays]
  <2>1. DOMAIN q = Fields
    BY <1>3, EstReqState
  <2>2. gsm48_mm_init_mm_no_rr(e, ref) = d
    BY Zenon DEF gsm48_mm_init_mm_no_rr, p
  <2>3. ASSUME NEW r, DOMAIN r = Fields, NEW st
        PROVE  LET g == [r EXCEPT !.mm = "WAIT_RR_CONN_MM_CON", !.stray = st]
               IN  SameChannel(r, g) /\ g.mm = "WAIT_RR_CONN_MM_CON"
    BY <2>3 DEF Fields, SameChannel
  <2> HIDE DEF q
  <2>4. SameChannel(q, d) /\ d.mm = "WAIT_RR_CONN_MM_CON"
    BY <2>1, <2>3
  <2> HIDE DEF d
  <2> QED BY <1>3, <2>2, <2>4, EstReqKnown DEF q, Known, UsingStates
<1>5. ASSUME e.mm = "CONN_ACTIVE" PROVE Known(gsm48_mm_init_mm_more(e, ref))
  <2> DEFINE q == gsm48_rr_data_req(p, ref)
             strays == IF e.rr = "IDLE" \/ e.rel_wait \/ e.t3210 THEN q.stray \cup {ref} ELSE q.stray
             d == [q EXCEPT !.mm = "WAIT_ADD_OUT_MM_CON", !.t3230 = TRUE, !.stray = strays]
  <2>1. Known(q) /\ q.mm = "CONN_ACTIVE"
    BY <1>3, <1>5, ConnStill, StillKnown DEF gsm48_rr_data_req, Still
  <2>2. gsm48_mm_init_mm_more(e, ref) = d
    BY Zenon DEF gsm48_mm_init_mm_more, p
  <2> HIDE DEF q
  <2>3. SameChannel(q, d) /\ d.mm = "WAIT_ADD_OUT_MM_CON"
    BY <2>1 DEF Known, Aware, Fields, SameChannel
  <2> HIDE DEF d
  <2> QED BY <2>1, <2>2, <2>3, BusyKnown DEF Known, UsingStates
<1> QED BY <1>1, <1>4, <1>5 DEF MmEstReq

LEMMA MmRelReqKnown ==
  ASSUME NEW e, Known(e), NEW ref
  PROVE  Known(MmRelReq(e, ref))
<1> DEFINE f == mm_conn_free(e, ref)
           t == [f EXCEPT !.t3240 = TRUE]
<1>1. Still(e, f)
  BY ConnStill DEF Known, Aware
<1> HIDE DEF f
<1>2. Known(f) /\ f.mm = e.mm /\ Still(f, t)
  BY <1>1, StillKnown, TimerStill DEF Still, Known, Aware
<1> HIDE DEF t
<1>3. Known(t) /\ t.mm = e.mm
  BY <1>2, StillKnown DEF Still
<1>4. e.mm \in UsingStates => Known(ActiveOrWait(f)) /\ Known(WaitNetworkCommand(t))
  BY <1>2, <1>3, ActiveOrWaitKnown DEF Known, MayUse
<1> QED BY <1>2, <1>4 DEF MmRelReq, gsm48_mm_release_wait_active, UsingStates, f, t

\* Messages of the network, which come over the channel in connected mode.
LEMMA ConnActiveKnown ==
  ASSUME NEW e, Known(e), e.cs # "CAMPED"
  PROVE  Known(gsm48_mm_rx_cm_service_acc(e))
<1> DEFINE t == [e EXCEPT !.t3230 = FALSE]
           a == [e EXCEPT !.t3230 = FALSE, !.mm = "CONN_ACTIVE"]
           ref == CHOOSE r \in Pending(a) : TRUE
           d == [a EXCEPT !.conn[ref] = "DEDICATED"]
<1>1. SameChannel(e, a) /\ a.mm = "CONN_ACTIVE" /\ DOMAIN a = Fields
  BY DEF Known, Aware, Fields, SameChannel
<1> HIDE DEF a
<1>2. Known(a)
  BY <1>1, BusyKnown DEF Known
<1> HIDE DEF ref
<1>3. Still(a, d)
  BY <1>1, ConnStill
<1> HIDE DEF d
<1>4. Known(d) /\ DOMAIN d = Fields
  BY <1>2, <1>3, StillKnown DEF Known, Aware
<1>5. Known(gsm48_rr_est_req_sapi3(d)) /\ Known(gsm48_mmxx_upmsg(d, {ref}, "EST_CNF"))
  BY <1>4, EstReqSapi3Known, ConnStill, StillKnown
<1> QED BY <1>2, <1>5 DEF gsm48_mm_rx_cm_service_acc, gsm48_mm_conn_go_dedic, a, ref, d

LEMMA ServiceRejKnown ==
  ASSUME NEW e, Known(e), e.cs # "CAMPED", NEW cause
  PROVE  Known(gsm48_mm_rx_cm_service_rej(e, cause))
<1> DEFINE t == [e EXCEPT !.t3230 = FALSE]
           unknown == cause \in {"CM_REJ_UNKNOWN", "CM_REJ_ILLEGAL"}
           refs == IF unknown THEN Connected(e) ELSE Pending(e)
           d == gsm48_mm_release_mm_conn(t, refs, "REL_IND")
           u == IF unknown THEN Unregistered(d, cause = "CM_REJ_ILLEGAL") ELSE d
<1>1. Still(e, t)
  BY TimerStill DEF Known, Aware
<1> HIDE DEF t, refs, unknown
<1>2. DOMAIN t = Fields /\ Still(t, d)
  BY <1>1, ConnStill DEF Known, Aware, Still, SameChannel
<1> HIDE DEF d
<1>3. Still(e, d) /\ DOMAIN d = Fields
  BY <1>1, <1>2, StillTwice DEF Still, SameChannel
<1>4. Still(e, u)
  BY <1>3, UnregisteredStill, StillTwice
<1> HIDE DEF u
<1>5. Known(WaitNetworkCommand(u)) /\ Known([u EXCEPT !.mm = "CONN_ACTIVE"])
  BY <1>4, StillKnown, ActiveOrWaitKnown DEF Known, MayUse, Still, SameChannel
<1>6. gsm48_mm_rx_cm_service_rej(e, cause) \in {WaitNetworkCommand(u), [u EXCEPT !.mm = "CONN_ACTIVE"]}
  BY Zenon DEF gsm48_mm_rx_cm_service_rej, u, d, refs, t, unknown
<1> QED BY <1>5, <1>6

LEMMA AbortKnown ==
  ASSUME NEW e, Good(e), Known(e), NEW cause
  PROVE  Known(gsm48_mm_rx_abort(e, cause))
<1> DEFINE t == [e EXCEPT !.t3230 = FALSE]
           d == gsm48_mm_release_mm_conn(t, Connected(e), "REL_IND")
           u == Unregistered(d, TRUE)
<1>1. Good(t)
  BY T3230Kept
<1>2. Still(e, t)
  BY TimerStill DEF Known, Aware
<1> HIDE DEF t
<1>3. Good(d)
  BY <1>1, ReleaseConnKept DEF MmxxPrims
<1>4. DOMAIN t = Fields /\ Still(t, d)
  BY <1>2, ConnStill DEF Known, Aware, Still, SameChannel
<1> HIDE DEF d
<1>5. Still(e, d) /\ DOMAIN d = Fields
  BY <1>2, <1>4, StillTwice DEF Still, SameChannel
<1>6. Good(u) /\ Still(e, u)
  BY <1>3, <1>5, UnregisteredGood, UnregisteredStill, StillTwice
<1> HIDE DEF u
<1>7. Known(d) /\ Known(gsm48_mm_return_idle(u))
  BY <1>5, <1>6, StillKnown, MmIdleKnown DEF Known
<1> QED BY <1>7 DEF gsm48_mm_rx_abort, d, t, u

LEMMA AuthRejKnown ==
  ASSUME NEW e, Known(e)
  PROVE  Known(gsm48_mm_rx_auth_rej(e))
<1> DEFINE d == [e EXCEPT !.t3212 = FALSE]
<1>1. Still(e, d) /\ DOMAIN d = Fields
  BY TimerStill DEF Known, Aware, Still, SameChannel
<1> HIDE DEF d
<1>2. Still(e, Unregistered(d, TRUE))
  BY <1>1, UnregisteredStill, StillTwice
<1> QED BY <1>2, StillKnown DEF gsm48_mm_rx_auth_rej, d

LEMMA SetupKnown ==
  ASSUME NEW e, Known(e), NEW ref
  PROVE  Known(gsm48_mm_data_ind_setup(e, ref))
<1> DEFINE left == e.rel_wait \/ e.t3210 \/ e.mm \in UpdateStates
           strays == IF left THEN e.stray \cup {ref} ELSE e.stray
           d == [e EXCEPT !.conn[ref] = "IDLE", !.stray = strays]
           g == [d EXCEPT !.t3240 = FALSE, !.mm = "CONN_ACTIVE"]
<1> HIDE DEF left, strays
<1>1. Still(e, d)
  BY DEF Known, Aware, Fields, Still, SameChannel
<1> HIDE DEF d
<1>2. Known(d) /\ d.mm = e.mm
  BY <1>1, StillKnown DEF Still
<1>3. SameChannel(d, g) /\ g.mm = "CONN_ACTIVE"
  BY <1>2 DEF Known, Aware, Fields, SameChannel
<1> HIDE DEF g
<1>4. e.mm = "WAIT_NETWORK_CMD" => Known(g)
  BY <1>2, <1>3, BusyKnown DEF Known, UsingStates
<1>5. gsm48_mm_data_ind_setup(e, ref) = IF e.mm = "WAIT_NETWORK_CMD" THEN g ELSE d
  BY Zenon DEF gsm48_mm_data_ind_setup, d, g, strays, left
<1> QED BY <1>2, <1>4, <1>5

LEMMA LocUpdAnswersKnown ==
  ASSUME NEW e, Known(e), e.cs # "CAMPED"
  PROVE  /\ Known(gsm48_mm_est_loc_upd(e)) /\ Known(gsm48_mm_rx_loc_upd_acc(e))
         /\ \A cause : Known(gsm48_mm_rx_loc_upd_rej(e, cause))
<1>1. LET d == gsm48_mm_est_loc_upd(e) IN SameChannel(e, d) /\ d.mm = "LOC_UPD_INIT"
  BY DEF gsm48_mm_est_loc_upd, Known, Aware, Fields, SameChannel
<1>2. \A cause : LET d == gsm48_mm_rx_loc_upd_rej(e, cause) IN SameChannel(e, d) /\ d.mm = "LOC_UPD_REJ"
  BY DEF gsm48_mm_rx_loc_upd_rej, Known, Aware, Fields, SameChannel
<1>3. Known(gsm48_mm_rx_loc_upd_acc(e))
  <2> DEFINE u == UpdateDone(e)
             d == [u EXCEPT !.t3212 = FALSE, !.t3210 = FALSE, !.t3240 = TRUE,
                            !.reg = e.la, !.forb = @ \ {e.la}]
  <2>1. Still(e, u) /\ DOMAIN u = Fields
    BY IdleStill DEF Known, Aware
  <2> HIDE DEF u
  <2>2. Still(u, d)
    BY <2>1 DEF Fields, Still, SameChannel
  <2> HIDE DEF d
  <2>3. Aware(d) /\ d.cs # "CAMPED"
    BY <2>1, <2>2, StillKnown DEF Known, Still, SameChannel
  <2> QED BY <2>3, ActiveOrWaitKnown DEF MayUse, gsm48_mm_rx_loc_upd_acc, d, u
<1>4. Known(gsm48_mm_est_loc_upd(e)) /\ \A cause : Known(gsm48_mm_rx_loc_upd_rej(e, cause))
  BY <1>1, <1>2, BusyKnown DEF Known
<1> QED BY <1>3, <1>4

\* The message that the channel has ended takes MM back to idle, where it camps.
LEMMA LocUpdFailedKnown ==
  ASSUME NEW e, Good(e), Aware(e), Held(e)
  PROVE  Known(gsm48_mm_loc_upd_failed(e))
<1> DEFINE d == [e EXCEPT !.t3210 = FALSE, !.t3211 = TRUE]
           g == [e EXCEPT !.t3210 = FALSE, !.reg = None, !.start_t3211 = TRUE]
<1>1. IsFcn(d) /\ IsFcn(g)
  BY Zenon DEF IsFcn
<1>2. /\ Typed(d) /\ d.cs = e.cs /\ d.ev = e.ev /\ d.conn = e.conn
      /\ Typed(g) /\ g.cs = e.cs /\ g.ev = e.ev /\ g.conn = e.conn
  BY DEF Good, Typed, Fields
<1>3. Still(e, d) /\ Still(e, g)
  BY DEF Aware, Fields, Still, SameChannel
<1> HIDE DEF d, g
<1>4. Good(d) /\ Good(g)
  BY <1>1, <1>2 DEF Good, OnePending, Pending, CellReported
<1>5. Known(gsm48_mm_return_idle(d)) /\ Known(gsm48_mm_return_idle(g))
  BY <1>3, <1>4, StillKnown, MmIdleKnown
<1> QED BY <1>5 DEF gsm48_mm_loc_upd_failed, d, g

LEMMA LocUpdRejectedKnown ==
  ASSUME NEW e, Good(e), Aware(e), Held(e)
  PROVE  Known(gsm48_mm_rel_loc_upd_rej(e))
<1> DEFINE d == [e EXCEPT !.t3240 = FALSE, !.plmn = e.rej # "LU_OTHER"]
           g == [d EXCEPT !.forb = @ \cup {e.la}]
           du == UpdateDone(Unregistered(d, TRUE))
           gu == UpdateDone(Unregistered(g, FALSE))
<1>1. IsFcn(d) /\ IsFcn(g)
  BY Zenon DEF IsFcn
<1>2. Typed(d) /\ Same(e, d) /\ Typed(g) /\ Same(e, g)
  BY DEF Good, Typed, Fields, Same
<1>3. Good(d) /\ Good(g)
  BY <1>1, <1>2, SameGood
<1>4. Still(e, d) /\ Still(e, g) /\ DOMAIN d = Fields /\ DOMAIN g = Fields
  BY DEF Aware, Fields, Still, SameChannel
<1>5. d.la = e.la
  BY DEF Aware, Fields
<1> HIDE DEF d, g
<1>6. Good(du) /\ Good(gu)
  BY <1>3, UnregisteredGood, UpdateDoneGood
<1>7. Still(e, du) /\ Still(e, gu)
  <2>1. /\ Still(e, Unregistered(d, TRUE)) /\ DOMAIN Unregistered(d, TRUE) = Fields
        /\ Still(e, Unregistered(g, FALSE)) /\ DOMAIN Unregistered(g, FALSE) = Fields
    BY ZenonT(40), <1>4, UnregisteredStill, StillTwice DEF Still, SameChannel
  <2> QED BY <2>1, IdleStill, StillTwice
<1> HIDE DEF du, gu
<1>8. Known(gsm48_mm_return_idle(du)) /\ Known(gsm48_mm_return_idle(gu))
  BY <1>6, <1>7, StillKnown, MmIdleKnown
<1>9. Known(gsm48_mm_loc_upd_failed(d))
  BY <1>3, <1>4, StillKnown, LocUpdFailedKnown
<1> QED BY <1>5, <1>8, <1>9 DEF gsm48_mm_rel_loc_upd_rej, g, d, du, gu

LEMMA ReleasedKnown ==
  ASSUME NEW e, Good(e), Aware(e), Held(e), NEW prim \in Ends
  PROVE  Known(gsm48_rcv_rr(e, prim))
<1> DEFINE d == [e EXCEPT !.t3240 = FALSE, !.t3230 = FALSE]
           g == [e EXCEPT !.t3240 = FALSE]
           r == gsm48_mm_release_mm_conn(d, Connected(e), "ERR_IND")
<1>1. IsFcn(d) /\ IsFcn(g)
  BY Zenon DEF IsFcn
<1>2. Typed(d) /\ Same(e, d) /\ Typed(g) /\ Same(e, g)
  BY DEF Good, Typed, Fields, Same
<1>3. Good(d) /\ Good(g)
  BY <1>1, <1>2, SameGood
<1>4. Still(e, d) /\ Still(e, g)
  BY TimerStill DEF Aware
<1> HIDE DEF d, g
<1>5. Good(r) /\ Still(e, r)
  BY <1>3, <1>4, ReleaseConnKept, ConnStill, StillTwice DEF MmxxPrims, Aware, Still, SameChannel
<1> HIDE DEF r
<1>6. /\ Known(gsm48_mm_loc_upd_failed(g)) /\ Known(gsm48_mm_return_idle(g))
      /\ Known(gsm48_mm_return_idle(r))
  BY <1>3, <1>4, <1>5, StillKnown, MmIdleKnown, LocUpdFailedKnown
<1>7. /\ Known(gsm48_mm_rel_loc_upd_abort(e)) /\ Known(gsm48_mm_rel_loc_upd_rej(e))
      /\ Known(gsm48_mm_rel_other(e)) /\ Known(gsm48_mm_abort_mm_con(e))
  BY <1>6, LocUpdRejectedKnown
     DEF gsm48_mm_rel_loc_upd_abort, gsm48_mm_rel_other, gsm48_mm_abort_mm_con, d, g, r
<1> QED BY <1>7 DEF gsm48_rcv_rr, Ends, CmRejections, LuRejections

\* Any other message of SAPI 0 finds the phone in connected mode.
LEMMA UpKnown ==
  ASSUME NEW e, Good(e), Aware(e), e.cs # "CAMPED", NEW prim, prim \notin Ends,
         Held(e) \/ prim = "EST_IND"
  PROVE  Known(gsm48_rcv_rr(e, prim))
<1>1. CASE e.mm = "IDLE" /\ prim = "EST_IND"
  BY <1>1, ActiveOrWaitKnown DEF gsm48_rcv_rr, MayUse, CmRejections, LuRejections
<1>2. CASE ~(e.mm = "IDLE" /\ prim = "EST_IND")
  <2>1. Known(e)
    BY <1>2 DEF Known, Held, Heard
  <2>2. /\ Known(gsm48_mm_est_mm_con(e)) /\ Known(gsm48_mm_est_loc_upd(e))
        /\ Known(gsm48_mm_rx_cm_service_acc(e)) /\ Known(gsm48_mm_rx_cm_service_rej(e, prim))
        /\ Known(gsm48_mm_rx_abort(e, prim)) /\ Known(gsm48_mm_rx_auth_rej(e))
        /\ Known(gsm48_mm_rx_loc_upd_acc(e)) /\ Known(gsm48_mm_rx_loc_upd_rej(e, prim))
        /\ Known(gsm48_mm_data_ind_setup(e, prim))
    BY <2>1, ActiveOrWaitKnown, ConnActiveKnown, ServiceRejKnown, AbortKnown, AuthRejKnown,
       SetupKnown, LocUpdAnswersKnown DEF MayUse
  <2> QED BY <1>2, <2>1, <2>2 DEF gsm48_rcv_rr, Ends
<1> QED BY <1>1, <1>2

LEMMA RcvSapi3Known ==
  ASSUME NEW e, Known(e), NEW prim
  PROVE  Known(gsm48_rcv_rr_sapi3(e, prim))
<1> DEFINE d == [e EXCEPT !.sapi3_link = TRUE]
           g == [e EXCEPT !.sapi3_link = FALSE]
<1>1. Still(e, d) /\ Still(e, g)
  BY TimerStill DEF Known, Aware
<1> HIDE DEF d, g
<1>2. Known(d) /\ Known(g) /\ DOMAIN d = Fields /\ DOMAIN g = Fields
  BY <1>1, StillKnown DEF Known, Aware
<1>3. /\ Known(gsm48_mmxx_upmsg(d, {ref \in Messages : e.conn[ref] = "DEDICATED"}, "EST_CNF"))
      /\ Known(gsm48_mm_release_mm_conn(g, Connected(e) \cap Messages, "REL_IND"))
  BY <1>2, ConnStill, StillKnown
<1> QED BY <1>3 DEF gsm48_rcv_rr_sapi3, d, g

\* Events and timers of mobility management.
LEMMA EventKnown ==
  ASSUME NEW e, Good(e), Aware(e), Held(e), NEW event,
         event # "CELL_SELECTED" => Heard(e),
         event = "NO_CELL_FOUND" => ~Tuned(e)
  PROVE  Known(gsm48_mm_event(e, event))
<1>1. Known(gsm48_mm_return_idle(e))
  BY MmIdleKnown
<1>2. e.mm = "IDLE" => Known(gsm48_mm_loc_upd_normal(e))
  BY MmIdleKnown DEF Heard, UsingStates
<1>3. e.mm = "IDLE" \/ ~Tuned(e) =>
        \A sst \in SubStates \cup {"LOC_UPD_NEEDED"} : Known(new_mm_state_idle(e, sst))
  BY MmIdleKnown
<1>4. e.mm = "IDLE" => Known(gsm48_mm_cell_selected(e))
  BY <1>3 DEF gsm48_mm_cell_selected, SubStates, Serving
<1>5. e.mm = "IDLE" \/ event # "CELL_SELECTED" => Known(e)
  BY DEF Known, Heard, UsingStates
<1> QED BY <1>1, <1>2, <1>3, <1>4, <1>5 DEF gsm48_mm_event, SubStates, Serving

LEMMA ServiceTimersKnown ==
  ASSUME NEW e, Kept(e), Known(e)
  PROVE  Known(timeout_mm_t3230(e)) /\ Known(timeout_mm_t3240(e)) /\ Known(timeout_mm_t3210(e))
<1> DEFINE d == [e EXCEPT !.t3230 = FALSE]
           g == [e EXCEPT !.t3240 = FALSE]
           h == [e EXCEPT !.t3210 = FALSE]
           r == gsm48_mm_release_mm_conn(d, Pending(d), "REL_IND")
<1>1. IsFcn(g) /\ IsFcn(h)
  BY Zenon DEF IsFcn
<1>2. Typed(g) /\ Same(e, g) /\ Typed(h) /\ Same(e, h)
  BY DEF Kept, Good, Typed, Fields, Same
<1>3. Kept(g) /\ Kept(h)
  BY <1>1, <1>2, SameKept
<1>4. Still(e, d) /\ Still(e, g) /\ Still(e, h)
  BY TimerStill DEF Known, Aware
<1> HIDE DEF d, g, h
<1>5. Known(d) /\ Known(g) /\ Known(h) /\ DOMAIN d = Fields
  BY <1>4, StillKnown DEF Known, Aware
<1>6. Still(e, r)
  BY <1>4, <1>5, ConnStill, StillTwice
<1> HIDE DEF r
<1>7. e.mm \in {"WAIT_OUT_MM_CONN", "WAIT_ADD_OUT_MM_CON"} => Known(ActiveOrWait(r))
  <2>1. Known(r) /\ r.mm = e.mm
    BY <1>6, StillKnown DEF Still
  <2> QED BY <2>1, ActiveOrWaitKnown DEF Known, MayUse, UsingStates
<1>8. Known(gsm48_mm_return_idle(gsm48_rr_abort_req(g)))
  BY <1>3, <1>5, AbortReqKept, AbortReqKnown, MmIdleKnown DEF Kept, Known
<1>9. Known(gsm48_mm_loc_upd_failed(gsm48_rr_abort_req(h)))
  BY <1>3, <1>5, AbortReqKept, AbortReqKnown, LocUpdFailedKnown DEF Kept, Known
<1> QED BY <1>5, <1>7, <1>8, <1>9
        DEF timeout_mm_t3230, timeout_mm_t3240, timeout_mm_t3210, gsm48_mm_timeout_mm_con,
            gsm48_mm_abort_rr, d, g, h, r

LEMMA UpdateTimersKnown ==
  ASSUME NEW e, Kept(e), Known(e)
  PROVE  Known(timeout_mm_t3211(e)) /\ Known(timeout_mm_t3212(e))
<1> DEFINE d == [e EXCEPT !.t3211 = FALSE]
           l == [d EXCEPT !.lost = @ \/ e.pending]
           r == [d EXCEPT !.retry = TRUE]
           g == [e EXCEPT !.t3212 = FALSE]
           p == [g EXCEPT !.periodic = TRUE]
<1>1. IsFcn(d) /\ IsFcn(g)
  BY Zenon DEF IsFcn
<1>2. Typed(d) /\ Same(e, d) /\ Typed(g) /\ Same(e, g)
  BY DEF Kept, Good, Typed, Fields, Same
<1>3. Good(d) /\ Good(g)
  BY <1>1, <1>2, SameGood DEF Kept
<1>4. Still(e, d) /\ Still(e, l) /\ Still(e, r) /\ Still(e, g) /\ Still(e, p)
  BY DEF Known, Aware, Fields, Still, SameChannel
<1> HIDE DEF d, g, l, r, p
<1>5. Known(d) /\ Known(l) /\ Known(r) /\ Known(g) /\ Known(p)
  BY <1>4, StillKnown
<1>6. Known(gsm48_mm_loc_upd(d)) /\ Known(gsm48_mm_loc_upd_periodic(g))
  BY <1>3, <1>5, MmIdleKnown DEF Known
<1> QED BY <1>5, <1>6 DEF timeout_mm_t3211, timeout_mm_t3212, d, g, l, r, p

-----------------------------------------------------------------------------
(* The channel and mobility management, step by step                        *)

\* A message that comes over the channel, or tells that it is up, is served by
\* mobility management before anything else happens.
FreshUp ==
  /\ turn = "rsl" /\ c.rslq = <<>> /\ c.rrq # <<>> /\ Tail(c.rrq) = <<>>
  /\ Head(c.rrq).sapi = 0 /\ Head(c.rrq).prim \notin Ends
  /\ c.rr = "DEDICATED"
  /\ c.mm = "IDLE" => Head(c.rrq).prim = "EST_IND"
  /\ Aware([c EXCEPT !.rrq = Tail(@)])

ChannelState == Known(c) \/ FreshUp

LEMMA KnownInitially == Init => ChannelState
<1>1. <<>> \in Seq(RrDown) /\ <<>> \in Seq(Events) /\ <<>> \in Seq(OfCell)
  OBVIOUS
<1>2. ASSUME Init PROVE Known(c)
  <2>1. DOMAIN c = Fields
    BY Initially, <1>2 DEF IInv, Kept, Good, Typed
  <2>2. /\ c.rrq = <<>> /\ c.ev = <<>> /\ c.rr = "IDLE" /\ c.est_req = FALSE /\ c.mm = "IDLE"
    BY <1>2 DEF Init
  <2> QED BY <1>1, <2>1, <2>2 DEF Known, Aware, Held, Heard, Tuned, UsingStates
<1> QED BY <1>2 DEF ChannelState

LEMMA QuietKnown ==
  ASSUME IInv, ChannelState, Quiet
  PROVE  Known(c) /\ Kept(c) /\ c.ev = <<>>
<1>1. ~Filled["rr"] /\ ~Filled["ev"]
  BY DEF Quiet, Filled
<1> QED BY <1>1 DEF Filled, IInv, ChannelState, FreshUp

LEMMA RestKnown ==
  ASSUME IInv, ChannelState, NEW q \in {"mmxx", "ev", "plmn"}, At(q)
  PROVE  Known(c)
BY ServedFirst DEF ChannelState, FreshUp

\* The channel has come up, or a message has come over it.
LEMMA UpServed ==
  ASSUME NEW d, Known(d), IsFcn(d), d.rslq = <<>>, d.rrq = <<>>, turn' = "rsl", NEW p, p \notin Ends,
         \/ d.rr = "DEDICATED" /\ c' = gsm48_rr_upmsg(d, p, 0)
         \/ d.rr = "CONN_PEND" /\ p = (IF d.est_req THEN "EST_CNF" ELSE "EST_IND")
            /\ c' = gsm48_rr_upmsg(new_rr_state(d, "DEDICATED"), p, 0)
  PROVE  FreshUp' /\ Head(c'.rrq).prim = p
<1> DEFINE n == [prim |-> p, sapi |-> 0]
           u == [d EXCEPT !.rr = "DEDICATED"]
           x == gsm48_rr_upmsg(u, p, 0)
           y == [x EXCEPT !.rrq = Tail(@)]
<1>1. DOMAIN d = Fields
  BY DEF Known, Aware
<1>2. c' = x
  <2>1. d.rr = "DEDICATED" => u = d
    BY <1>1 DEF IsFcn, Fields
  <2>2. new_rr_state(d, "DEDICATED") = u
    BY DEF new_rr_state
  <2> QED BY <2>1, <2>2
<1>3. /\ x.rr = "DEDICATED" /\ x.rslq = <<>> /\ x.rrq = <<n>> /\ x.mm = d.mm
  <2>1. /\ DOMAIN u = Fields /\ u.rr = "DEDICATED" /\ u.rslq = <<>> /\ u.rrq = <<>> /\ u.mm = d.mm
    BY <1>1 DEF Fields
  <2>2. x = [u EXCEPT !.rrq = Append(u.rrq, n)]
    BY DEF gsm48_rr_upmsg
  <2> HIDE DEF u, x, n
  <2>3. /\ x.rr = u.rr /\ x.rslq = u.rslq /\ x.rrq = Append(u.rrq, n) /\ x.mm = u.mm
    BY <2>1, <2>2 DEF Fields
  <2>4. Append(<<>>, n) = <<n>>
    OBVIOUS
  <2> QED BY <2>1, <2>3, <2>4
<1>4. /\ DOMAIN y = Fields /\ y.rrq = <<>> /\ y.rr = "DEDICATED" /\ y.est_req = d.est_req
      /\ y.cs = d.cs /\ y.ev = d.ev /\ y.mm = d.mm
  BY <1>1 DEF gsm48_rr_upmsg, Fields
<1>5. d.mm = "IDLE" => p = "EST_IND"
  BY DEF Known, Aware, Held
<1>6. d.cs = "CONNECTED" /\ d.rr # "IDLE"
  BY DEF Known, Aware, Tuned
<1>7. Aware(y)
  <2> HIDE DEF y
  <2> QED BY <1>4, <1>6 DEF Known, Aware, Tuned
<1>8. /\ x.rrq # <<>> /\ Tail(x.rrq) = <<>> /\ Head(x.rrq).sapi = 0 /\ Head(x.rrq).prim = p
  <2> HIDE DEF x
  <2> QED BY <1>3 DEF n
<1>9. y = [x EXCEPT !.rrq = Tail(@)]
  OBVIOUS
<1> HIDE DEF x, y
<1> QED BY <1>2, <1>3, <1>5, <1>7, <1>8, <1>9 DEF FreshUp

LEMMA ServeRslKnown ==
  ASSUME IInv, ChannelState, ServeRsl
  PROVE  \/ Known(c')
         \/ FreshUp' /\ FreshRsl /\ Head(c'.rrq).prim \in {Head(c.rslq).prim, "EST_CNF", "EST_IND"}
<1> DEFINE d == [c EXCEPT !.rslq = Tail(@)]
           m == Head(c.rslq)
<1>1. c.rslq # <<>> /\ c' = gsm48_rcv_rll(d, m) /\ turn' = "rsl"
  BY DEF ServeRsl, At, Filled
<1>2. Known(c)
  BY <1>1 DEF ChannelState, FreshUp
<1>3. IsFcn(d)
  BY Zenon DEF IsFcn
<1>4. Still(c, d)
  BY <1>2 DEF Known, Aware, Fields, Still, SameChannel
<1>5. Known(d)
  BY <1>2, <1>4, StillKnown
<1>6. CASE Linked(c)
  <2>1. m \in RslOwn
    BY <1>1, <1>6, TakenLinked
  <2> HIDE DEF d, m
  <2>2. \/ m.sapi = 0 /\ m.prim \in {"REL_IND", "REL_CONF", "ERROR_IND"}
        \/ m.sapi = 3
    BY <2>1 DEF RslOwn
  <2>3. Known(gsm48_rcv_rll(d, m))
    BY <1>5, <2>2, RrDownKnown, Sapi3Known DEF gsm48_rcv_rll
  <2> QED BY <1>1, <2>3
<1>7. CASE FreshRsl
  <2>1. /\ m.sapi = 0 /\ m.prim \in {"EST_CONF"} \cup Downlink
        /\ d.rr # "IDLE" /\ d.rslq = <<>> /\ d.rrq = <<>>
    BY <1>7 DEF FreshRsl, IInv, Kept, Good, Typed, Fields
  <2> HIDE DEF d, m
  <2>2. CASE m.prim = "EST_CONF"
    <3> DEFINE p == IF d.est_req THEN "EST_CNF" ELSE "EST_IND"
    <3>1. c' = gsm48_rr_estab_cnf(d)
      BY <1>1, <2>1, <2>2 DEF gsm48_rcv_rll
    <3>2. CASE d.rr = "CONN_PEND"
      <4>1. c' = gsm48_rr_upmsg(new_rr_state(d, "DEDICATED"), p, 0)
        BY <3>1, <3>2 DEF gsm48_rr_estab_cnf
      <4>2. p \notin Ends
        BY DEF Ends
      <4> HIDE DEF p
      <4>3. FreshUp' /\ Head(c'.rrq).prim = p
        BY <1>1, <1>3, <1>5, <2>1, <3>2, <4>1, <4>2, UpServed DEF d, p
      <4> QED BY <1>7, <4>3 DEF p
    <3>3. CASE d.rr # "CONN_PEND"
      <4>1. Known(DlRelReq(d, FALSE))
        BY <1>5, DataLinkKnown
      <4>2. gsm48_rr_estab_cnf(d) = DlRelReq(d, FALSE) \/ gsm48_rr_estab_cnf(d) = d
        BY <2>1, <3>3 DEF gsm48_rr_estab_cnf
      <4> QED BY <1>5, <3>1, <4>1, <4>2
    <3> QED BY <3>2, <3>3
  <2>3. CASE m.prim \in {"REL_IND", "REL_CONF", "ERROR_IND", "CHAN_REL"}
    BY <1>1, <1>5, <2>1, <2>3, RrDownKnown DEF gsm48_rcv_rll
  <2>4. CASE m.prim \notin {"EST_CONF", "REL_IND", "REL_CONF", "ERROR_IND", "CHAN_REL"}
    <3>1. c' = IF d.rr = "DEDICATED" THEN gsm48_rr_upmsg(d, m.prim, 0) ELSE d
      BY <1>1, <2>1, <2>4 DEF gsm48_rcv_rll, gsm48_rr_data_ind
    <3>2. CASE d.rr # "DEDICATED"
      BY <1>5, <3>1, <3>2
    <3>3. CASE d.rr = "DEDICATED"
      <4>1. m.prim \notin Ends
        BY <2>1, <2>4, DownlinkDistinct DEF Ends
      <4>2. FreshUp' /\ Head(c'.rrq).prim = m.prim
        BY <1>1, <1>3, <1>5, <2>1, <3>1, <3>3, <4>1, UpServed DEF d
      <4> QED BY <1>7, <4>2 DEF m
    <3> QED BY <3>2, <3>3
  <2> QED BY <2>2, <2>3, <2>4
<1>8. ~FreshRr
  BY <1>1 DEF FreshRr
<1> QED BY <1>6, <1>7, <1>8 DEF IInv, LinkedState

LEMMA ServeRrKnown ==
  ASSUME IInv, ChannelState, ServeRr
  PROVE  ChannelState'
<1> DEFINE d == [c EXCEPT !.rrq = Tail(@)]
           m == Head(c.rrq)
<1>1. c.rrq # <<>> /\ Good(d)
      /\ c' = IF m.sapi = 0 THEN gsm48_rcv_rr(d, m.prim) ELSE gsm48_rcv_rr_sapi3(d, m.prim)
  BY RrTakenKept DEF ServeRr, At, Filled, Kept
<1>2. /\ DOMAIN d = Fields /\ d.rr = c.rr /\ d.cs = c.cs /\ d.mm = c.mm /\ d.rrq = Tail(c.rrq)
      /\ d.est_req = c.est_req /\ d.ev = c.ev
  BY DEF IInv, Kept, Good, Typed, Fields
<1>3. CASE Known(c)
  <2>1. ASSUME NEW s \in Seq(RrDown), s # <<>>
        PROVE  Head(s) \in RrDown /\ Tail(s) \in Seq(RrDown) /\ Head(s) = s[1]
               /\ \A i \in DOMAIN s : i = 1 \/ (i - 1 \in DOMAIN Tail(s) /\ Tail(s)[i - 1] = s[i])
    BY <2>1
  <2>2. /\ m \in RrDown /\ Tail(c.rrq) \in Seq(RrDown) /\ m = c.rrq[1]
        /\ \A i \in DOMAIN c.rrq : i = 1 \/ (i - 1 \in DOMAIN Tail(c.rrq) /\ Tail(c.rrq)[i - 1] = c.rrq[i])
    BY <1>1, <1>3, <2>1 DEF Known, Aware
  <2> HIDE DEF d, m
  <2>3. Aware(d) /\ Held(d)
    BY <1>2, <1>3, <2>2 DEF Known, Aware, Held, Tuned
  <2>4. ASSUME m.sapi # 0 PROVE Heard(d)
    <3>1. ASSUME Tells(c) PROVE Tells(d)
      <4>1. PICK i \in DOMAIN c.rrq : c.rrq[i].sapi = 0 /\ c.rrq[i].prim \in Ends
        BY Zenon, <3>1 DEF Tells
      <4>2. i # 1
        BY Zenon, <2>2, <2>4, <4>1
      <4>3. i - 1 \in DOMAIN d.rrq /\ d.rrq[i - 1] = c.rrq[i]
        BY Zenon, <1>2, <2>2, <4>2
      <4> QED BY Zenon, <4>1, <4>3 DEF Tells
    <3> QED BY Zenon, <1>2, <1>3, <3>1 DEF Known, Heard
  <2>5. m.sapi = 0 => m.prim \in Ends
    BY <2>2 DEF RrDown
  <2>6. m.sapi = 0 => Known(gsm48_rcv_rr(d, m.prim))
    BY <1>1, <2>3, <2>5, ReleasedKnown
  <2>7. m.sapi # 0 => Known(gsm48_rcv_rr_sapi3(d, m.prim))
    BY <2>3, <2>4, RcvSapi3Known DEF Known
  <2> QED BY <1>1, <2>6, <2>7 DEF ChannelState
<1>4. CASE FreshUp
  <2>1. /\ Aware(d) /\ m.sapi = 0 /\ m.prim \notin Ends /\ d.rr = "DEDICATED"
        /\ d.mm = "IDLE" => m.prim = "EST_IND"
    BY <1>2, <1>4 DEF FreshUp
  <2> HIDE DEF d, m
  <2>2. d.cs # "CAMPED" /\ (Held(d) \/ m.prim = "EST_IND")
    BY <2>1 DEF Aware, Held, Tuned
  <2>3. Known(gsm48_rcv_rr(d, m.prim))
    BY <1>1, <2>1, <2>2, UpKnown
  <2> QED BY <1>1, <2>1, <2>3 DEF ChannelState
<1> QED BY <1>3, <1>4 DEF ChannelState

LEMMA ServeRestKnown ==
  ASSUME IInv, ChannelState, ServeMmxx \/ ServeEvent \/ ServePlmn
  PROVE  ChannelState'
<1>1. Known(c) /\ Linked(c) /\ DOMAIN c = Fields
  BY RestKnown, RestLinked DEF ServeMmxx, ServeEvent, ServePlmn, Known, Aware
<1>2. CASE ServeMmxx
  <2>1. PICK ref \in Waiting : c' = [c EXCEPT !.mmxx[ref] = Tail(@)]
    BY <1>2 DEF ServeMmxx
  <2>2. Still(c, c')
    BY <1>1, <2>1 DEF Fields, Still, SameChannel
  <2> QED BY <1>1, <2>2, StillKnown DEF ChannelState
<1>3. CASE ServeEvent
  <2> DEFINE d == [c EXCEPT !.ev = Tail(@)]
             event == Head(c.ev)
  <2>1. c.ev # <<>> /\ c' = gsm48_mm_event(d, event)
    BY <1>3 DEF ServeEvent, At, Filled
  <2>2. Good(d)
    BY <2>1, EventTakenGood DEF IInv, Kept
  <2>3. /\ DOMAIN d = Fields /\ d.rr = c.rr /\ d.cs = c.cs /\ d.mm = c.mm /\ d.rrq = c.rrq
        /\ d.est_req = c.est_req /\ d.ev = Tail(c.ev)
    BY <1>1 DEF Fields
  <2>4. ASSUME NEW S, NEW s \in Seq(S), s # <<>>
        PROVE  Head(s) \in S /\ Tail(s) \in Seq(S) /\ (Tail(s) = <<>> => s[Len(s)] = Head(s))
    BY SMTT(40), <2>4
  <2>5. /\ Tail(c.ev) \in Seq(Events)
        /\ Tail(c.ev) = <<>> => c.ev[Len(c.ev)] = event
        /\ c.cs \notin {"NO_CELL", "CHOOSING"} => Tail(c.ev) \in Seq(OfCell) /\ event \in OfCell
    BY <1>1, <2>1, <2>4 DEF Known, Aware
  <2> HIDE DEF d, event
  <2>6. Aware(d) /\ Held(d)
    BY <1>1, <2>3, <2>5 DEF Known, Aware, Held, Tuned
  <2>7. event # "CELL_SELECTED" => Heard(d)
    BY <2>1, <2>3, <2>5 DEF Heard, IInv, Kept, Good, CellReported
  <2>8. event = "NO_CELL_FOUND" => ~Tuned(d)
    BY <2>3, <2>5, <2>6 DEF Aware, OfCell
  <2> QED BY <2>1, <2>2, <2>6, <2>7, <2>8, EventKnown DEF ChannelState
<1>4. CASE ServePlmn
  <2>1. c.plmn /\ \E cs \in {c.cs, "CHOOSING"} : c' = [c EXCEPT !.plmn = FALSE, !.cs = cs]
    BY <1>4 DEF ServePlmn, At, Filled
  <2>2. ~Tuned(c)
    BY <1>1, <2>1 DEF Linked, Loose
  <2>3. /\ DOMAIN c' = Fields /\ c'.rr = c.rr /\ c'.mm = c.mm /\ c'.rrq = c.rrq
        /\ c'.est_req = c.est_req /\ c'.ev = c.ev /\ c'.cs \in {c.cs, "CHOOSING"}
    BY <1>1, <2>1 DEF Fields
  <2>4. Known(c')
    BY <1>1, <2>2, <2>3 DEF Known, Aware, Held, Heard, Tells, Tuned
  <2> QED BY <2>4 DEF ChannelState
<1> QED BY <1>2, <1>3, <1>4

\* Layer 2 is told or tells: what the channel is to MM does not change yet.
LEMMA SentKnown ==
  ASSUME IInv, ChannelState, Quiet, NEW d, Still(c, d), NEW p, NEW s, c' = RslUp(d, p, s)
  PROVE  Known(c')
<1>1. Known(c)
  BY QuietKnown
<1>2. DOMAIN d = Fields
  BY <1>1 DEF Known, Aware, Still, SameChannel
<1>3. Still(c, c')
  BY <1>2, DataLinkStill, StillTwice
<1> QED BY <1>1, <1>3, StillKnown

LEMMA NetworkKnown ==
  ASSUME IInv, ChannelState, Network \/ LinkFails \/ Link3Fails \/ (\E ref \in Incoming : Setup(ref))
  PROVE  Known(c')
<1>0. DOMAIN c = Fields
  BY DEF IInv, Kept, Good, Typed
<1>1. CASE Page \/ Assign \/ AssignReject
  BY <1>1, QuietKnown, PageKnown, ImmAssKnown DEF Page, Assign, AssignReject, Event
<1>2. CASE LinkUp
  <2> DEFINE d == [c EXCEPT !.dl = "EST", !.net = {c.sabm} \ {None}, !.sabm = None]
  <2>1. Still(c, d)
    BY <1>0 DEF Fields, Still, SameChannel
  <2> HIDE DEF d
  <2> QED BY <1>2, <2>1, SentKnown DEF LinkUp, Event, d
<1>3. CASE \E p : Answer(p)
  <2> PICK p : Answer(p)
    BY <1>3
  <2>1. PICK req \in c.net : Quiet /\ c' = RslUp([c EXCEPT !.net = @ \ {req}], p, 0)
    BY DEF Answer, Event
  <2> DEFINE d == [c EXCEPT !.net = @ \ {req}]
  <2>2. Still(c, d)
    BY <1>0 DEF Fields, Still, SameChannel
  <2> HIDE DEF d
  <2> QED BY <2>1, <2>2, SentKnown DEF d
<1>4. CASE (\E p : Command(p)) \/ (\E sapi \in {0, 3} : LinkError(sapi))
  <2>1. Quiet /\ \E p, s : c' = RslUp(c, p, s)
    BY <1>4 DEF Command, LinkError, Event
  <2>2. Still(c, c)
    BY DEF Still, SameChannel
  <2> QED BY <2>1, <2>2, SentKnown
<1>5. CASE LinkReleased \/ LinkFails
  <2>1. Quiet /\ \E p : c' = RslUp(LinkDown(c), p, 0)
    BY <1>5 DEF LinkReleased, LinkFails, Event
  <2> QED BY <1>0, <2>1, DataLinkStill, SentKnown
<1>6. CASE Link3Up \/ Link3Established \/ Link3Released \/ Link3Fails
  <2> DEFINE d == [c EXCEPT !.dl3 = "EST"]
             g == [c EXCEPT !.dl3 = "IDLE"]
  <2>1. Quiet /\ \E p : c' = RslUp(d, p, 3) \/ c' = RslUp(g, p, 3)
    BY <1>6 DEF Link3Up, Link3Established, Link3Released, Link3Fails, Event
  <2>2. Still(c, d) /\ Still(c, g)
    BY <1>0 DEF Fields, Still, SameChannel
  <2> HIDE DEF d, g
  <2> QED BY <2>1, <2>2, SentKnown
<1> QED BY Zenon, <1>1, <1>2, <1>3, <1>4, <1>5, <1>6 DEF Network, Setup

LEMMA TimerKnown ==
  ASSUME IInv, ChannelState, Timer \/ LossOfSignal
  PROVE  Known(c')
<1> DEFINE d == [c EXCEPT !.t3122 = FALSE]
<1>1. Quiet
  BY DEF Timer, LossOfSignal, Event, T3122Expires, T3126Expires, T3110Expires, RelWaitExpires,
         T3210Expires, T3211Expires, T3212Expires, T3230Expires, T3240Expires
<1>2. Kept(c) /\ Known(c)
  BY <1>1, QuietKnown
<1>3. Still(c, d)
  BY <1>2 DEF Known, Aware, Fields, Still, SameChannel
<1>4. Known(d)
  BY <1>2, <1>3, StillKnown
<1> HIDE DEF d
<1>5. c' \in {d, timeout_rr_t3126(c), timeout_rr_t3110(c), timeout_rr_t_rel_wait(c), gsm48_rr_los(c),
              timeout_mm_t3210(c), timeout_mm_t3211(c), timeout_mm_t3212(c),
              timeout_mm_t3230(c), timeout_mm_t3240(c)}
  BY DEF Timer, LossOfSignal, Event, T3122Expires, T3126Expires, T3110Expires, RelWaitExpires,
         T3210Expires, T3211Expires, T3212Expires, T3230Expires, T3240Expires, d
<1>6. Known(c')
  BY <1>2, <1>4, <1>5, RrTimersKnown, ServiceTimersKnown, UpdateTimersKnown
<1> QED BY <1>6

LEMMA CellKnown ==
  ASSUME IInv, ChannelState, (\E area \in Areas : SelectCell(area)) \/ NoCell \/ Reselect \/ AnySearch
  PROVE  Known(c')
<1>1. Known(c) /\ c.ev = <<>> /\ c.cs # "CONNECTED" /\ DOMAIN c = Fields
  BY QuietKnown DEF SelectCell, NoCell, Reselect, AnySearch, Event, Known, Aware
<1>2. ~Tuned(c)
  BY <1>1 DEF Known, Aware
<1>3. /\ Append(c.ev, "CELL_SELECTED") \in Seq(OfCell) /\ Append(c.ev, "CELL_SELECTED") \in Seq(Events)
      /\ Append(c.ev, "NO_CELL_FOUND") \in Seq(Events) /\ Append(c.ev, "LOST_COVERAGE") \in Seq(Events)
      /\ Append(c.ev, "CELL_SELECTED") # <<>>
  BY <1>1 DEF OfCell, Events
<1>4. CASE \E area \in Areas : SelectCell(area)
  <2>1. PICK area \in Areas, camp \in {"CAMPED", "ANY"} :
          c' = [c EXCEPT !.cs = camp, !.la = area, !.ev = Append(@, "CELL_SELECTED")]
    BY <1>4 DEF SelectCell, Event
  <2>2. /\ DOMAIN c' = Fields /\ c'.rr = c.rr /\ c'.mm = c.mm /\ c'.rrq = c.rrq
        /\ c'.est_req = c.est_req /\ c'.ev = Append(c.ev, "CELL_SELECTED")
    BY <1>1, <2>1 DEF Fields
  <2>3. Known(c')
    BY <1>1, <1>2, <1>3, <2>2 DEF Known, Aware, Held, Heard, Tuned
  <2> QED BY <2>3
<1>5. CASE NoCell \/ Reselect \/ AnySearch
  <2>1. /\ DOMAIN c' = Fields /\ c'.rr = c.rr /\ c'.mm = c.mm /\ c'.rrq = c.rrq
        /\ c'.est_req = c.est_req /\ c'.cs \in {"NO_CELL", "CHOOSING"}
        /\ c'.ev \in {c.ev, Append(c.ev, "NO_CELL_FOUND"), Append(c.ev, "LOST_COVERAGE")}
    <3>1. CASE NoCell
      BY <1>1, <3>1 DEF NoCell, Event, Fields
    <3>2. CASE Reselect
      BY <1>1, <3>2 DEF Reselect, Event, Fields
    <3>3. CASE AnySearch
      BY <1>1, <3>3 DEF AnySearch, Event, Fields
    <3> QED BY <1>5, <3>1, <3>2, <3>3
  <2>2. Known(c')
    BY <1>1, <1>2, <1>3, <2>1 DEF Known, Aware, Held, Heard, Tuned
  <2> QED BY <2>2
<1> QED BY Zenon, <1>4, <1>5

LEMMA KnownStepwise == IInv /\ ChannelState /\ [Next]_vars => ChannelState'
<1> SUFFICES ASSUME IInv, ChannelState, [Next]_vars PROVE ChannelState'
  OBVIOUS
<1>1. CASE MobileWork
  BY <1>1, ServeRslKnown, ServeRrKnown, ServeRestKnown DEF MobileWork, ChannelState
<1>2. CASE \E ref \in Refs : Request(ref) \/ Release(ref)
  <2>1. PICK ref \in Refs : Quiet /\ (c' = MmEstReq(c, ref) \/ c' = MmRelReq(c, ref))
    BY <1>2 DEF Request, Release, Event
  <2> QED BY <2>1, QuietKnown, MmEstReqKnown, MmRelReqKnown DEF ChannelState
<1>3. CASE \E ref \in Incoming : Setup(ref) /\ UNCHANGED view
  BY <1>3, NetworkKnown DEF ChannelState
<1>4. CASE Network /\ UNCHANGED view
  BY <1>4, NetworkKnown DEF ChannelState
<1>5. CASE (LinkFails \/ Link3Fails \/ LossOfSignal \/ Timer) /\ UNCHANGED view
  BY <1>5, NetworkKnown, TimerKnown DEF ChannelState
<1>6. CASE ((\E area \in Areas : SelectCell(area)) \/ NoCell \/ Reselect \/ AnySearch) /\ UNCHANGED view
  BY <1>6, CellKnown DEF ChannelState
<1>7. CASE UNCHANGED vars
  BY <1>7 DEF vars, ChannelState, FreshUp
<1> QED BY <1>1, <1>2, <1>3, <1>4, <1>5, <1>6, <1>7 DEF Next

\* Mobility management and radio resources agree about the channel (gsm48_mm.c against
\* gsm48_rr.c, over their message queue): whatever releases the channel, MM that uses
\* it is told or hears of a cell, and no channel comes up behind the back of MM.
THEOREM ChannelAlwaysKnown == Spec => []ChannelKnown
<1>1. ASSUME Known(c) PROVE ChannelKnown
  BY <1>1 DEF Known, Held, Heard, Tells, UsingStates, Ends, ChannelKnown, RrTells
<1>2. ASSUME IInv, FreshUp PROVE ChannelKnown
  <2> DEFINE d == [c EXCEPT !.rrq = Tail(@)]
  <2>1. d.rr = c.rr /\ d.cs = c.cs /\ Aware(d)
    BY <1>2 DEF IInv, FreshUp, Kept, Good, Typed, Fields
  <2> HIDE DEF d
  <2>2. c.cs = "CONNECTED"
    BY <1>2, <2>1 DEF FreshUp, Aware, Tuned
  <2>3. ASSUME NEW T, NEW q \in Seq(T), q # <<>> PROVE 1 \in DOMAIN q /\ q[1] = Head(q)
    BY <2>3
  <2>4. 1 \in DOMAIN c.rrq /\ c.rrq[1] = Head(c.rrq)
    BY <1>2, <2>3 DEF IInv, FreshUp, Kept, Good, Typed
  <2>5. c.mm = "IDLE" => RrTells({"EST_CNF", "EST_IND"})
    BY <1>2, <2>4 DEF FreshUp, RrTells
  <2> QED BY <2>2, <2>5 DEF ChannelKnown
<1>3. IInv /\ ChannelState => ChannelKnown
  BY <1>1, <1>2 DEF ChannelState
<1>4. IInv /\ ChannelState /\ [Next]_vars => ChannelState'
  BY KnownStepwise
<1>5. Init => ChannelState
  BY KnownInitially
<1> QED BY <1>3, <1>4, <1>5, ConnInvariant, PTL DEF Spec

-----------------------------------------------------------------------------
(* The connections and their users: mobility management has a connection    *)
(* exactly as long as its user counts on it.  What could end a connection   *)
(* behind the back of its user is a return to idle, so a connection that is *)
(* not in stray keeps MM in a state whose end releases it with a message.   *)

ConnStates == {"WAIT_RR_CONN_MM_CON", "WAIT_OUT_MM_CONN", "CONN_ACTIVE", "WAIT_ADD_OUT_MM_CON"}

\* The connections that ViewKept speaks of.
Users(d) == Connected(d) \ d.stray

\* The data link will confirm that it is released.
Closing(d) == \E i \in DOMAIN d.rslq : d.rslq[i].sapi = 0 /\ d.rslq[i].prim = "REL_CONF"

\* Radio resources have a channel, or ask for one for MM.
Granted(d) == d.rr # "IDLE" /\ d.cs = "CONNECTED" /\ (d.rr = "CONN_PEND" => d.est_req)

\* A random access that was overtaken does not take a channel away unnoticed, an MM
\* that uses a channel has one or it is being closed, and PLMN selection is at work
\* only while MM has no connection.
Orderly(d) ==
  /\ d.access => d.rr \in {"CONN_PEND", "IDLE"} \/ d.rel_wait \/ Closing(d)
  /\ d.mm \in UsingStates => d.rr = "IDLE" \/ Closing(d) \/ Granted(d)
  /\ d.plmn => d.mm \notin UsingStates \cup ConnStates

\* A connection has the channel it needs, or MM will be told that the channel ended.
Served(d) ==
  Users(d) # {} => /\ d.mm \in ConnStates /\ ~d.t3210
                   /\ Tells(d) \/ (Granted(d) /\ ~d.rel_wait)
Sure(d) == Orderly(d) /\ Served(d)

Queued(d) ==
  /\ DOMAIN d = Fields
  /\ d.rslq \in Seq([prim : RslPrims, sapi : {0, 3}])
  /\ d.rrq \in Seq([prim : RrPrims, sapi : {0, 3}])

\* What radio resources do leaves the connections alone, and the messages queued.
Onward(e, d) ==
  /\ Queued(d)
  /\ d.mm = e.mm /\ d.conn = e.conn /\ d.mmxx = e.mmxx /\ d.stray = e.stray
  /\ d.t3210 = e.t3210 /\ d.plmn = e.plmn
  /\ (Tells(e) => Tells(d)) /\ (Closing(e) => Closing(d))

SameRr(e, d) ==
  /\ d.rr = e.rr /\ d.cs = e.cs /\ d.est_req = e.est_req
  /\ d.rel_wait = e.rel_wait /\ d.access = e.access

LEMMA OnwardUsers ==
  ASSUME NEW e, NEW d, Onward(e, d)
  PROVE  Users(d) = Users(e)
BY DEF Onward, Users, Connected

LEMMA OnwardTwice ==
  ASSUME NEW e, NEW d, NEW f, Onward(e, d), Onward(d, f)
  PROVE  Onward(e, f) /\ (SameRr(e, d) /\ SameRr(d, f) => SameRr(e, f))
BY DEF Onward, SameRr

LEMMA OnwardSelf ==
  ASSUME NEW e, Queued(e)
  PROVE  Onward(e, e) /\ SameRr(e, e)
BY DEF Onward, SameRr

\* The channel is as it was, but for a random access that ended.
LEMMA OnwardSure ==
  ASSUME NEW e, Sure(e), NEW d, Onward(e, d), d.rr = e.rr, d.cs = e.cs, d.est_req = e.est_req,
         d.rel_wait = e.rel_wait, d.access => e.access
  PROVE  Sure(d)
<1>1. Users(d) = Users(e)
  BY OnwardUsers
<1> QED BY <1>1 DEF Sure, Orderly, Served, Granted, Onward

LEMMA GoodQueued ==
  ASSUME NEW e, Good(e)
  PROVE  Queued(e)
BY DEF Good, Typed, Queued

LEMMA QueueGrows ==
  ASSUME NEW S, NEW q \in Seq(S), NEW m \in S
  PROVE  /\ Append(q, m) \in Seq(S)
         /\ \A i \in DOMAIN q : i \in DOMAIN Append(q, m) /\ Append(q, m)[i] = q[i]
         /\ Len(Append(q, m)) \in DOMAIN Append(q, m)
         /\ Append(q, m)[Len(Append(q, m))] = m
OBVIOUS

LEMMA RslUpOnward ==
  ASSUME NEW e, Queued(e), NEW p \in RslPrims, NEW s \in {0, 3}
  PROVE  LET d == RslUp(e, p, s) IN
         Onward(e, d) /\ SameRr(e, d) /\ (p = "REL_CONF" /\ s = 0 => Closing(d))
<1> DEFINE m == [prim |-> p, sapi |-> s]
           d == RslUp(e, p, s)
<1>1. m \in [prim : RslPrims, sapi : {0, 3}] /\ m.prim = p /\ m.sapi = s
  OBVIOUS
<1>2. /\ DOMAIN d = Fields /\ d.rslq = Append(e.rslq, m) /\ d.rrq = e.rrq
      /\ d.mm = e.mm /\ d.conn = e.conn /\ d.mmxx = e.mmxx /\ d.stray = e.stray
      /\ d.t3210 = e.t3210 /\ d.plmn = e.plmn /\ SameRr(e, d)
  BY DEF Queued, RslUp, Fields, SameRr
<1> HIDE DEF d, m
<1>3. /\ d.rslq \in Seq([prim : RslPrims, sapi : {0, 3}])
      /\ \A i \in DOMAIN e.rslq : i \in DOMAIN d.rslq /\ d.rslq[i] = e.rslq[i]
      /\ Len(d.rslq) \in DOMAIN d.rslq /\ d.rslq[Len(d.rslq)] = m
  BY <1>1, <1>2, QueueGrows DEF Queued
<1>4. Closing(e) => Closing(d)
  BY <1>3 DEF Closing
<1>5. p = "REL_CONF" /\ s = 0 => Closing(d)
  BY <1>1, <1>3 DEF Closing
<1>6. Onward(e, d)
  BY <1>2, <1>3, <1>4 DEF Onward, Queued, Tells
<1> QED BY <1>2, <1>5, <1>6 DEF d

LEMMA UpmsgOnward ==
  ASSUME NEW e, Queued(e), NEW p \in RrPrims, NEW s \in {0, 3}
  PROVE  LET d == gsm48_rr_upmsg(e, p, s) IN
         Onward(e, d) /\ SameRr(e, d) /\ (p \in Ends /\ s = 0 => Tells(d))
<1> DEFINE m == [prim |-> p, sapi |-> s]
           d == gsm48_rr_upmsg(e, p, s)
<1>1. m \in [prim : RrPrims, sapi : {0, 3}] /\ m.prim = p /\ m.sapi = s
  OBVIOUS
<1>2. /\ DOMAIN d = Fields /\ d.rrq = Append(e.rrq, m) /\ d.rslq = e.rslq
      /\ d.mm = e.mm /\ d.conn = e.conn /\ d.mmxx = e.mmxx /\ d.stray = e.stray
      /\ d.t3210 = e.t3210 /\ d.plmn = e.plmn /\ SameRr(e, d)
  BY DEF Queued, gsm48_rr_upmsg, Fields, SameRr
<1> HIDE DEF d, m
<1>3. /\ d.rrq \in Seq([prim : RrPrims, sapi : {0, 3}])
      /\ \A i \in DOMAIN e.rrq : i \in DOMAIN d.rrq /\ d.rrq[i] = e.rrq[i]
      /\ Len(d.rrq) \in DOMAIN d.rrq /\ d.rrq[Len(d.rrq)] = m
  BY <1>1, <1>2, QueueGrows DEF Queued
<1>4. Tells(e) => Tells(d)
  BY <1>3 DEF Tells
<1>5. p \in Ends /\ s = 0 => Tells(d)
  BY <1>1, <1>3 DEF Tells
<1>6. Onward(e, d)
  BY <1>2, <1>3, <1>4 DEF Onward, Queued, Closing
<1> QED BY <1>2, <1>5, <1>6 DEF d

\* What is asked of the data link.
LEMMA LinkDownOnward ==
  ASSUME NEW e, Queued(e)
  PROVE  /\ Onward(e, LinkDown(e)) /\ SameRr(e, LinkDown(e))
         /\ Onward(e, DlEstReq(e)) /\ SameRr(e, DlEstReq(e))
         /\ \A local \in BOOLEAN : /\ Onward(e, DlRelReq(e, local)) /\ SameRr(e, DlRelReq(e, local))
                                   /\ local => Closing(DlRelReq(e, local))
<1> DEFINE d == [e EXCEPT !.dl = "DISC_SENT"]
           l == LinkDown(e)
           r == RslUp(l, "REL_CONF", 0)
<1>1. Onward(e, l) /\ SameRr(e, l) /\ Onward(e, d) /\ SameRr(e, d)
  BY DEF Queued, Fields, LinkDown, Onward, SameRr, Tells, Closing
<1>2. Onward(e, DlEstReq(e)) /\ SameRr(e, DlEstReq(e))
  BY DEF Queued, Fields, DlEstReq, Onward, SameRr, Tells, Closing
<1> HIDE DEF d, l
<1>3. Onward(l, r) /\ SameRr(l, r) /\ Closing(r)
  BY <1>1, RslUpOnward DEF Onward, RslPrims
<1> HIDE DEF r
<1>4. Onward(e, r) /\ SameRr(e, r)
  BY <1>1, <1>3, OnwardTwice
<1>5. \A local \in BOOLEAN : DlRelReq(e, local) = r \/ (~local /\ DlRelReq(e, local) = d)
  BY DEF DlRelReq, r, l, d
<1> QED BY <1>1, <1>2, <1>3, <1>4, <1>5 DEF l

LEMMA ReleaseSapi3Onward ==
  ASSUME NEW e, Queued(e)
  PROVE  Onward(e, gsm48_release_sapi3_link(e)) /\ SameRr(e, gsm48_release_sapi3_link(e))
<1> DEFINE d == [e EXCEPT !.s3 = "IDLE", !.dl3 = "IDLE"]
           u == gsm48_rr_upmsg(d, "REL_IND", 3)
<1>1. Onward(e, d) /\ SameRr(e, d) /\ Onward(e, e) /\ SameRr(e, e)
  BY DEF Queued, Fields, Onward, SameRr, Tells, Closing
<1> HIDE DEF d
<1>2. Onward(d, u) /\ SameRr(d, u)
  BY <1>1, UpmsgOnward DEF Onward, RrPrims
<1> HIDE DEF u
<1>3. gsm48_release_sapi3_link(e) \in {e, u}
  BY DEF gsm48_release_sapi3_link, u, d
<1> QED BY <1>1, <1>2, <1>3, OnwardTwice

LEMMA NewRrStateOnward ==
  ASSUME NEW e, Queued(e), NEW state
  PROVE  LET d == new_rr_state(e, state) IN
         /\ Onward(e, d) /\ d.rr = state /\ d.rel_wait = e.rel_wait /\ d.access = e.access
         /\ state # "IDLE" \/ e.rr = "IDLE" => d.cs = e.cs /\ d.est_req = e.est_req
<1> DEFINE d == [e EXCEPT !.rr = state]
           g == [e EXCEPT !.rr = "IDLE", !.est_req = FALSE, !.est_msg = None]
           r == [g EXCEPT !.cs = "CAMPED", !.ev = Append(@, "CELL_SELECTED")]
           s == [g EXCEPT !.cs = "CHOOSING"]
<1>1. /\ Onward(e, d) /\ d.rr = state /\ d.rel_wait = e.rel_wait /\ d.access = e.access
      /\ d.cs = e.cs /\ d.est_req = e.est_req
  BY DEF Queued, Fields, Onward, Tells, Closing
<1>2. Onward(e, g) /\ g.rr = "IDLE" /\ g.rel_wait = e.rel_wait /\ g.access = e.access
  BY DEF Queued, Fields, Onward, Tells, Closing
<1>3. /\ Onward(e, r) /\ r.rr = "IDLE" /\ r.rel_wait = e.rel_wait /\ r.access = e.access
      /\ Onward(e, s) /\ s.rr = "IDLE" /\ s.rel_wait = e.rel_wait /\ s.access = e.access
  BY DEF Queued, Fields, Onward, Tells, Closing
<1>4. IF state # "IDLE" \/ e.rr = "IDLE" THEN new_rr_state(e, state) = d
      ELSE new_rr_state(e, state) \in {g, r, s} /\ state = "IDLE"
  BY DEF new_rr_state, RetIdle
<1> HIDE DEF d, g, r, s
<1> QED BY <1>1, <1>2, <1>3, <1>4

\* A connection has the channel or MM is told, whatever becomes of the channel.
LEMMA ReturnSure ==
  ASSUME NEW e, Queued(e), e.plmn => e.mm \notin UsingStates \cup ConnStates,
         Users(e) # {} => e.mm \in ConnStates /\ ~e.t3210 /\ Tells(e)
  PROVE  Sure(new_rr_state(e, "IDLE")) /\ Onward(e, new_rr_state(e, "IDLE"))
<1> DEFINE d == new_rr_state(e, "IDLE")
<1>1. Onward(e, d) /\ d.rr = "IDLE"
  BY NewRrStateOnward
<1> HIDE DEF d
<1>2. Users(d) = Users(e)
  BY <1>1, OnwardUsers
<1>3. Sure(d)
  BY <1>1, <1>2 DEF Sure, Orderly, Served, Onward
<1> QED BY <1>1, <1>3 DEF d

\* The channel is closed from this side, and the data link confirms it at once.
LEMMA ClosedSure ==
  ASSUME NEW e, Queued(e), Sure(e)
  PROVE  LET d == gsm48_release_sapi3_link(DlRelReq(new_rr_state(e, "REL_PEND"), TRUE)) IN
         Sure(d) /\ Onward(e, d)
<1> DEFINE n == new_rr_state(e, "REL_PEND")
           r == DlRelReq(n, TRUE)
           d == gsm48_release_sapi3_link(r)
<1>1. /\ Onward(e, n) /\ n.rr = "REL_PEND" /\ n.rel_wait = e.rel_wait /\ n.access = e.access
      /\ n.cs = e.cs
  BY NewRrStateOnward
<1> HIDE DEF n
<1>2. Onward(n, r) /\ SameRr(n, r) /\ Closing(r)
  BY <1>1, LinkDownOnward DEF Onward
<1> HIDE DEF r
<1>3. Onward(r, d) /\ SameRr(r, d)
  BY <1>2, ReleaseSapi3Onward DEF Onward
<1> HIDE DEF d
<1>4. Onward(e, d) /\ SameRr(n, d) /\ Closing(d)
  BY <1>1, <1>2, <1>3, OnwardTwice DEF Onward
<1>5. Users(d) = Users(e)
  BY <1>4, OnwardUsers
<1>6. Sure(d)
  BY <1>1, <1>4, <1>5 DEF Sure, Orderly, Served, Granted, Onward, SameRr
<1> QED BY <1>4, <1>6 DEF d, r, n

\* The channel is given up, and layer 2 is asked to release it.
LEMMA GivenUpSure ==
  ASSUME NEW e, Queued(e), Sure(e), e.rr = "DEDICATED", e.cs = "CONNECTED", NEW t
  PROVE  LET n == new_rr_state(e, "REL_PEND") IN
         /\ Sure(gsm48_release_sapi3_link(DlRelReq(n, FALSE)))
         /\ Sure(gsm48_release_sapi3_link(DlRelReq([n EXCEPT !.t3110 = t], FALSE)))
         /\ Onward(e, gsm48_release_sapi3_link(DlRelReq(n, FALSE)))
         /\ Onward(e, gsm48_release_sapi3_link(DlRelReq([n EXCEPT !.t3110 = t], FALSE)))
<1> DEFINE n == new_rr_state(e, "REL_PEND")
           g == [n EXCEPT !.t3110 = t]
<1>1. /\ Onward(e, n) /\ n.rr = "REL_PEND" /\ n.rel_wait = e.rel_wait /\ n.access = e.access
      /\ n.cs = e.cs
  BY NewRrStateOnward
<1> HIDE DEF n
<1>2. Users(n) = Users(e)
  BY <1>1, OnwardUsers
<1>3. Sure(n)
  BY <1>1, <1>2 DEF Sure, Orderly, Served, Granted, Onward
<1>4. Onward(n, g) /\ SameRr(n, g)
  BY <1>1 DEF Queued, Fields, Onward, SameRr, Tells, Closing
<1> HIDE DEF g
<1>5. Sure(g)
  BY <1>3, <1>4, OnwardSure DEF SameRr
<1>6. ASSUME NEW f, Queued(f), Sure(f)
      PROVE  LET d == gsm48_release_sapi3_link(DlRelReq(f, FALSE)) IN Sure(d) /\ Onward(f, d)
  <2> DEFINE r == DlRelReq(f, FALSE)
             d == gsm48_release_sapi3_link(r)
  <2>1. Onward(f, r) /\ SameRr(f, r)
    BY <1>6, LinkDownOnward
  <2> HIDE DEF r
  <2>2. Onward(r, d) /\ SameRr(r, d)
    BY <2>1, ReleaseSapi3Onward DEF Onward
  <2> HIDE DEF d
  <2>3. Onward(f, d) /\ SameRr(f, d)
    BY <2>1, <2>2, OnwardTwice
  <2> QED BY <1>6, <2>3, OnwardSure DEF SameRr, d, r
<1>7. /\ Sure(gsm48_release_sapi3_link(DlRelReq(n, FALSE))) /\ Onward(n, gsm48_release_sapi3_link(DlRelReq(n, FALSE)))
      /\ Sure(gsm48_release_sapi3_link(DlRelReq(g, FALSE))) /\ Onward(g, gsm48_release_sapi3_link(DlRelReq(g, FALSE)))
  BY <1>1, <1>3, <1>4, <1>5, <1>6 DEF Onward
<1>8. /\ Onward(e, gsm48_release_sapi3_link(DlRelReq(n, FALSE)))
      /\ Onward(e, gsm48_release_sapi3_link(DlRelReq(g, FALSE)))
  BY <1>1, <1>4, <1>7, OnwardTwice
<1> QED BY <1>7, <1>8 DEF n, g

LEMMA AbortReqSure ==
  ASSUME NEW e, Queued(e), Tuned(e) => e.cs = "CONNECTED", Sure(e), Users(e) = {}
  PROVE  Sure(gsm48_rr_abort_req(e)) /\ Onward(e, gsm48_rr_abort_req(e))
<1> DEFINE d == [e EXCEPT !.access = FALSE]
           n == new_rr_state(d, "IDLE")
<1>1. Onward(e, d) /\ Onward(e, e)
  BY DEF Queued, Fields, Onward, Tells, Closing
<1> HIDE DEF d
<1>2. Users(d) = {}
  BY <1>1, OnwardUsers
<1>3. Sure(n) /\ Onward(d, n)
  BY <1>1, <1>2, ReturnSure DEF Sure, Orderly, Onward
<1> HIDE DEF n
<1>4. Onward(e, n)
  BY <1>1, <1>3, OnwardTwice
<1> QED BY <1>1, <1>3, <1>4, GivenUpSure DEF gsm48_rr_abort_req, Tuned, n, d

\* The end of the channel, as layer 2 and the network tell of it.
LEMMA RrDownSure ==
  ASSUME NEW e, Queued(e), Tuned(e) => e.cs = "CONNECTED", Sure(e)
  PROVE  /\ Sure(gsm48_rr_rel_ind(e)) /\ Sure(gsm48_rr_mdl_error_ind(e))
         /\ Sure(gsm48_rr_rx_chan_rel(e))
         /\ Onward(e, gsm48_rr_rel_ind(e)) /\ Onward(e, gsm48_rr_mdl_error_ind(e))
         /\ Onward(e, gsm48_rr_rx_chan_rel(e))
<1>0. Onward(e, e)
  BY OnwardSelf
<1>1. Sure(gsm48_rr_rel_ind(e)) /\ Onward(e, gsm48_rr_rel_ind(e))
  <2> DEFINE told == gsm48_rr_upmsg(e, "REL_IND", 0)
             w == [told EXCEPT !.rel_wait = TRUE]
             n == new_rr_state(w, "REL_PEND")
             d == gsm48_release_sapi3_link(n)
  <2>1. Onward(e, told) /\ SameRr(e, told) /\ Tells(told)
    BY UpmsgOnward DEF RrPrims, Ends
  <2> HIDE DEF told
  <2>2. /\ Onward(told, w) /\ w.rel_wait = TRUE /\ w.rr = told.rr /\ w.cs = told.cs
    BY <2>1 DEF Queued, Fields, Onward, Tells, Closing
  <2> HIDE DEF w
  <2>3. /\ Onward(w, n) /\ n.rr = "REL_PEND" /\ n.rel_wait = TRUE /\ n.cs = w.cs
    BY <2>2, NewRrStateOnward DEF Onward
  <2> HIDE DEF n
  <2>4. Onward(n, d) /\ SameRr(n, d)
    BY <2>3, ReleaseSapi3Onward DEF Onward
  <2> HIDE DEF d
  <2>5. Onward(e, d) /\ Tells(d)
    BY <2>1, <2>2, <2>3, <2>4, OnwardTwice DEF Onward
  <2>6. Users(d) = Users(e)
    BY <2>5, OnwardUsers
  <2>7. e.rr \in {"CONN_PEND", "DEDICATED"} => Sure(d)
    BY <2>1, <2>2, <2>3, <2>4, <2>5, <2>6 DEF Sure, Orderly, Served, Granted, Onward, SameRr, Tuned
  <2> QED BY <1>0, <2>5, <2>7 DEF gsm48_rr_rel_ind, d, n, w, told
<1>2. Sure(gsm48_rr_mdl_error_ind(e)) /\ Onward(e, gsm48_rr_mdl_error_ind(e))
  <2> DEFINE r == DlRelReq(e, TRUE)
             told == gsm48_rr_upmsg(r, "ABORT_IND", 0)
             n == new_rr_state(told, "IDLE")
             d == gsm48_release_sapi3_link(n)
  <2>1. Onward(e, r)
    BY LinkDownOnward
  <2> HIDE DEF r
  <2>2. Onward(r, told) /\ Tells(told)
    BY <2>1, UpmsgOnward DEF RrPrims, Ends, Onward
  <2> HIDE DEF told
  <2>3. Onward(e, told)
    BY <2>1, <2>2, OnwardTwice
  <2>4. Users(told) = Users(e)
    BY <2>3, OnwardUsers
  <2>5. Sure(n) /\ Onward(told, n)
    BY <2>2, <2>3, <2>4, ReturnSure DEF Onward, Sure, Orderly, Served
  <2> HIDE DEF n
  <2>6. Onward(n, d) /\ SameRr(n, d)
    BY <2>5, ReleaseSapi3Onward DEF Onward
  <2>7. Sure(d)
    BY <2>5, <2>6, OnwardSure DEF SameRr
  <2>8. Onward(e, d)
    BY <2>3, <2>5, <2>6, OnwardTwice
  <2> QED BY <1>0, <2>7, <2>8 DEF gsm48_rr_mdl_error_ind, d, n, told, r
<1>3. Sure(gsm48_rr_rx_chan_rel(e)) /\ Onward(e, gsm48_rr_rx_chan_rel(e))
  BY <1>0, GivenUpSure DEF gsm48_rr_rx_chan_rel, Tuned
<1> QED BY <1>1, <1>2, <1>3

\* The data link has been released: MM is told.
LEMMA RelCnfSure ==
  ASSUME NEW e, Queued(e), e.plmn => e.mm \notin UsingStates \cup ConnStates, Served(e)
  PROVE  Sure(gsm48_rr_rel_cnf(e)) /\ Onward(e, gsm48_rr_rel_cnf(e))
<1> DEFINE d == [e EXCEPT !.t3110 = FALSE]
           told == gsm48_rr_upmsg(d, "REL_IND", 0)
           n == new_rr_state(told, "IDLE")
<1>1. Onward(e, d)
  BY DEF Queued, Fields, Onward, Tells, Closing
<1> HIDE DEF d
<1>2. Onward(d, told) /\ Tells(told)
  BY <1>1, UpmsgOnward DEF RrPrims, Ends, Onward
<1> HIDE DEF told
<1>3. Onward(e, told)
  BY <1>1, <1>2, OnwardTwice
<1>4. Users(told) = Users(e)
  BY <1>3, OnwardUsers
<1>5. Sure(n) /\ Onward(told, n)
  BY <1>2, <1>3, <1>4, ReturnSure DEF Onward, Served
<1>6. e.rr = "IDLE" => Sure(e)
  BY DEF Sure, Orderly
<1>7. Onward(e, n) /\ Onward(e, e)
  BY <1>3, <1>5, OnwardTwice, OnwardSelf
<1> QED BY <1>5, <1>6, <1>7 DEF gsm48_rr_rel_cnf, n, told, d

\* The data link is up: no random access is under way that could take it away.
LEMMA EstabCnfSure ==
  ASSUME NEW e, Queued(e), Tuned(e) => e.cs = "CONNECTED", Sure(e), e.rr # "IDLE",
         e.rr \in {"REL_PEND", "DEDICATED"} \/ ~e.access
  PROVE  Sure(gsm48_rr_estab_cnf(e)) /\ Onward(e, gsm48_rr_estab_cnf(e))
<1> DEFINE n == new_rr_state(e, "DEDICATED")
           p == IF e.est_req THEN "EST_CNF" ELSE "EST_IND"
           d == gsm48_rr_upmsg(n, p, 0)
<1>1. Sure(DlRelReq(e, FALSE)) /\ Onward(e, DlRelReq(e, FALSE))
  <2> DEFINE r == DlRelReq(e, FALSE)
  <2>1. Onward(e, r) /\ SameRr(e, r)
    BY LinkDownOnward
  <2> HIDE DEF r
  <2> QED BY <2>1, OnwardSure DEF SameRr, r
<1>2. Onward(e, d) /\ (e.rr = "CONN_PEND" => Sure(d))
  <2>1. /\ Onward(e, n) /\ n.rr = "DEDICATED" /\ n.rel_wait = e.rel_wait /\ n.access = e.access
        /\ n.cs = e.cs
    BY NewRrStateOnward
  <2> HIDE DEF n
  <2>2. Users(n) = Users(e)
    BY <2>1, OnwardUsers
  <2>3. e.rr = "CONN_PEND" => Sure(n)
    BY <2>1, <2>2 DEF Sure, Orderly, Served, Granted, Onward, Tuned
  <2>4. Onward(n, d) /\ SameRr(n, d)
    <3>1. Queued(n)
      BY <2>1 DEF Onward
    <3>2. p \in RrPrims
      BY DEF RrPrims
    <3> HIDE DEF p
    <3> QED BY Zenon, <3>1, <3>2, UpmsgOnward
  <2> HIDE DEF d
  <2> QED BY <2>1, <2>3, <2>4, OnwardTwice, OnwardSure DEF SameRr
<1> QED BY <1>1, <1>2, OnwardSelf DEF gsm48_rr_estab_cnf, d, p, n

LEMMA ImmAssSure ==
  ASSUME NEW e, Queued(e), Sure(e)
  PROVE  /\ Sure(gsm48_rr_rx_imm_ass(e)) /\ Sure(gsm48_rr_rx_imm_ass_rej(e))
         /\ Onward(e, gsm48_rr_rx_imm_ass(e)) /\ Onward(e, gsm48_rr_rx_imm_ass_rej(e))
<1> DEFINE d == [e EXCEPT !.access = FALSE]
           g == [e EXCEPT !.t3122 = TRUE]
           l == DlEstReq(d)
<1>1. /\ Onward(e, d) /\ d.rr = e.rr /\ d.cs = e.cs /\ d.est_req = e.est_req
      /\ d.rel_wait = e.rel_wait /\ d.access = FALSE
      /\ Onward(e, g) /\ SameRr(e, g)
  BY DEF Queued, Fields, Onward, SameRr, Tells, Closing
<1> HIDE DEF d, g
<1>2. Onward(d, l) /\ SameRr(d, l)
  BY <1>1, LinkDownOnward DEF Onward
<1> HIDE DEF l
<1>3. Sure(d) /\ Sure(g)
  BY <1>1, OnwardSure DEF SameRr
<1>4. Sure(l)
  BY <1>2, <1>3, OnwardSure DEF SameRr
<1>5. Onward(e, l) /\ Onward(e, e)
  BY <1>1, <1>2, OnwardTwice, OnwardSelf
<1> QED BY <1>1, <1>3, <1>4, <1>5 DEF gsm48_rr_rx_imm_ass, gsm48_rr_rx_imm_ass_rej, gsm48_rr_dl_est, l, d, g

\* The link of SAPI 3 does not touch the channel.
LEMMA Sapi3Onward ==
  ASSUME NEW e, Queued(e),
         NEW d \in {gsm48_rr_estab_cnf_sapi3(e), gsm48_rr_estab_ind_sapi3(e), gsm48_rr_rel_ind_sapi3(e),
                    gsm48_rr_mdl_error_ind_sapi3(e), gsm48_rr_est_req_sapi3(e)}
  PROVE  Onward(e, d) /\ SameRr(e, d)
<1> DEFINE x == [e EXCEPT !.s3 = "ESTAB"]
           y == [e EXCEPT !.s3 = "IDLE"]
           z == [e EXCEPT !.s3 = "IDLE", !.dl3 = "IDLE"]
           w == [e EXCEPT !.s3 = "WAIT_EST", !.dl3 = IF @ = "IDLE" THEN "SABM_SENT" ELSE @]
<1>1. /\ Onward(e, x) /\ SameRr(e, x) /\ Onward(e, y) /\ SameRr(e, y)
      /\ Onward(e, z) /\ SameRr(e, z) /\ Onward(e, w) /\ SameRr(e, w)
      /\ Onward(e, e) /\ SameRr(e, e)
  BY DEF Queued, Fields, Onward, SameRr, Tells, Closing
<1>2. \/ d \in {e, w, gsm48_release_sapi3_link(e)}
      \/ \E f \in {e, x, y, z}, p \in {"EST_CNF", "EST_IND", "REL_IND", "ABORT_IND"} :
           d = gsm48_rr_upmsg(f, p, 3)
  BY DEF gsm48_rr_estab_cnf_sapi3, gsm48_rr_estab_ind_sapi3, gsm48_rr_rel_ind_sapi3,
         gsm48_rr_mdl_error_ind_sapi3, gsm48_rr_est_req_sapi3
<1> HIDE DEF x, y, z, w
<1>3. ASSUME NEW f \in {e, x, y, z}, NEW p \in {"EST_CNF", "EST_IND", "REL_IND", "ABORT_IND"}
      PROVE  Onward(e, gsm48_rr_upmsg(f, p, 3)) /\ SameRr(e, gsm48_rr_upmsg(f, p, 3))
  <2> DEFINE u == gsm48_rr_upmsg(f, p, 3)
  <2>1. Onward(e, f) /\ SameRr(e, f) /\ Queued(f) /\ p \in RrPrims
    BY <1>1 DEF Onward, RrPrims
  <2>2. Onward(f, u) /\ SameRr(f, u)
    BY <2>1, UpmsgOnward
  <2> HIDE DEF u
  <2>3. Onward(e, u) /\ SameRr(e, u)
    BY <2>1, <2>2, OnwardTwice
  <2> QED BY <2>3 DEF u
<1> QED BY <1>1, <1>2, <1>3, ReleaseSapi3Onward

\* Timers and loss of signal come when no message waits.
LEMMA RrTimersSure ==
  ASSUME NEW e, Queued(e), Tuned(e) => e.cs = "CONNECTED", Sure(e), e.rslq = <<>>, e.rrq = <<>>
  PROVE  /\ e.access => Sure(timeout_rr_t3126(e))
         /\ Sure(timeout_rr_t3110(e))
         /\ e.rel_wait => Sure(timeout_rr_t_rel_wait(e))
         /\ Sure(gsm48_rr_los(e))
         /\ Onward(e, timeout_rr_t3126(e)) /\ Onward(e, timeout_rr_t3110(e))
         /\ Onward(e, timeout_rr_t_rel_wait(e)) /\ Onward(e, gsm48_rr_los(e))
<1> DEFINE d == [e EXCEPT !.t3110 = FALSE]
           g == [e EXCEPT !.rel_wait = FALSE]
           h == [d EXCEPT !.access = FALSE]
           u == gsm48_rr_upmsg(h, "REL_IND", 0)
           told == IF e.est_req THEN gsm48_rr_upmsg(e, "REL_IND", 0) ELSE e
           a == [told EXCEPT !.access = FALSE]
<1>0. ~Tells(e) /\ ~Closing(e)
  BY DEF Tells, Closing
<1>1. /\ Onward(e, d) /\ SameRr(e, d) /\ Onward(e, g) /\ Onward(e, e)
      /\ Onward(e, h)
  BY ZenonT(40) DEF Queued, Fields, Onward, SameRr, Tells, Closing
<1> HIDE DEF g, h
<1>2. Sure(d)
  BY <1>1, OnwardSure DEF SameRr
<1>3. Queued(d) /\ d.rr = e.rr
  BY <1>1 DEF Onward, SameRr
<1> HIDE DEF d
<1> DEFINE r == gsm48_release_sapi3_link(DlRelReq(new_rr_state(d, "REL_PEND"), TRUE))
<1>4. Sure(r) /\ Onward(e, r)
  BY <1>1, <1>2, <1>3, ClosedSure, OnwardTwice
<1> HIDE DEF r
<1>5. Sure(new_rr_state(u, "IDLE")) /\ Onward(e, new_rr_state(u, "IDLE"))
  <2>1. Onward(h, u) /\ Tells(u)
    BY <1>1, UpmsgOnward DEF RrPrims, Ends, Onward
  <2> HIDE DEF u
  <2>2. Onward(e, u)
    BY <1>1, <2>1, OnwardTwice
  <2>3. Users(u) = Users(e)
    BY <2>2, OnwardUsers
  <2>4. Sure(new_rr_state(u, "IDLE")) /\ Onward(u, new_rr_state(u, "IDLE"))
    BY <2>1, <2>2, <2>3, ReturnSure DEF Sure, Orderly, Served, Onward
  <2> QED BY <2>2, <2>4, OnwardTwice
<1>6. /\ e.rel_wait => Sure(new_rr_state(g, "IDLE"))
      /\ Onward(e, new_rr_state(g, "IDLE"))
  <2>1. Users(g) = Users(e)
    BY <1>1, OnwardUsers
  <2>2. e.rel_wait => Users(e) = {}
    BY <1>0 DEF Sure, Served
  <2>3. e.rel_wait => Sure(new_rr_state(g, "IDLE"))
    BY <1>1, <2>1, <2>2, ReturnSure DEF Sure, Orderly, Onward
  <2>4. Onward(g, new_rr_state(g, "IDLE"))
    BY <1>1, NewRrStateOnward DEF Onward
  <2> QED BY <1>1, <2>3, <2>4, OnwardTwice
<1>7. /\ e.access => Sure(new_rr_state(a, "IDLE"))
      /\ Onward(e, new_rr_state(a, "IDLE"))
  <2>1. Onward(e, told) /\ (e.est_req => Tells(told))
    BY <1>1, UpmsgOnward DEF RrPrims, Ends
  <2> HIDE DEF told
  <2>2. Onward(told, a)
    BY <2>1 DEF Queued, Fields, Onward, Tells, Closing
  <2> HIDE DEF a
  <2>3. Onward(e, a) /\ (e.est_req => Tells(a))
    BY <2>1, <2>2, OnwardTwice DEF Onward
  <2>4. Users(a) = Users(e)
    BY <2>3, OnwardUsers
  <2>5. e.access /\ Users(e) # {} /\ ~e.rel_wait => e.est_req
    BY <1>0 DEF Sure, Orderly, Served, Granted
  <2>6. Users(e) # {} => ~e.rel_wait /\ e.mm \in ConnStates /\ ~e.t3210
    BY <1>0 DEF Sure, Served
  <2>7. e.access => Sure(new_rr_state(a, "IDLE"))
    BY <2>3, <2>4, <2>5, <2>6, ReturnSure DEF Sure, Orderly, Onward
  <2>8. Onward(a, new_rr_state(a, "IDLE"))
    BY <2>3, NewRrStateOnward DEF Onward
  <2> QED BY <2>3, <2>7, <2>8, OnwardTwice
<1>8. timeout_rr_t3126(e) = new_rr_state(a, "IDLE")
  BY DEF timeout_rr_t3126, a, told
<1>9. timeout_rr_t3110(e) = r
  BY DEF timeout_rr_t3110, d, r
<1>10. timeout_rr_t_rel_wait(e) = new_rr_state(g, "IDLE")
  BY DEF timeout_rr_t_rel_wait, g
<1>11. gsm48_rr_los(e) \in {new_rr_state(u, "IDLE"), d, r}
  BY DEF gsm48_rr_los, u, h, d, r
<1> HIDE DEF u, told, a
<1> QED BY <1>1, <1>2, <1>4, <1>5, <1>6, <1>7, <1>8, <1>9, <1>10, <1>11

\* A channel is asked for on the cell that the phone camps on.
LEMMA ChanReqOnward ==
  ASSUME NEW e, Queued(e), NEW lupd
  PROVE  LET d == gsm48_rr_chan_req(e, lupd) IN
         /\ Onward(e, d) /\ d.rr = "CONN_PEND" /\ d.cs = "CONNECTED" /\ d.est_req = e.est_req
         /\ d.rel_wait = e.rel_wait
<1> DEFINE n == new_rr_state(e, "CONN_PEND")
           d == [n EXCEPT !.cs = "CONNECTED", !.access = TRUE, !.lupd = lupd]
<1>1. /\ Onward(e, n) /\ n.rr = "CONN_PEND" /\ n.rel_wait = e.rel_wait /\ n.est_req = e.est_req
  BY NewRrStateOnward
<1>2. gsm48_rr_chan_req(e, lupd) = d
  BY DEF gsm48_rr_chan_req
<1> HIDE DEF n
<1>3. /\ Onward(n, d) /\ d.rr = n.rr /\ d.cs = "CONNECTED" /\ d.est_req = n.est_req
      /\ d.rel_wait = n.rel_wait
  BY <1>1 DEF Queued, Fields, Onward, Tells, Closing
<1> HIDE DEF d
<1> QED BY <1>1, <1>2, <1>3, OnwardTwice

LEMMA EstReqOnward ==
  ASSUME NEW e, Queued(e), NEW req
  PROVE  LET d == gsm48_rr_est_req(e, req) IN
         /\ Onward(e, d) /\ d.rel_wait = e.rel_wait
         /\ \/ Tells(d) /\ SameRr(e, d)
            \/ d.rr = "CONN_PEND" /\ d.cs = "CONNECTED" /\ d.est_req
<1> DEFINE a == [e EXCEPT !.est_req = TRUE, !.est_msg = req]
           u == gsm48_rr_upmsg(e, "REL_IND", 0)
           n == gsm48_rr_chan_req(a, req = Lupd)
<1>1. Onward(e, u) /\ SameRr(e, u) /\ Tells(u)
  BY UpmsgOnward DEF RrPrims, Ends
<1>2. Onward(e, a) /\ a.est_req = TRUE /\ a.rel_wait = e.rel_wait
  BY DEF Queued, Fields, Onward, Tells, Closing
<1> HIDE DEF a
<1>3. Onward(a, n) /\ n.rr = "CONN_PEND" /\ n.cs = "CONNECTED" /\ n.est_req = TRUE /\ n.rel_wait = e.rel_wait
  BY <1>2, ChanReqOnward DEF Onward
<1> HIDE DEF n, u
<1>4. Onward(e, n)
  BY <1>2, <1>3, OnwardTwice
<1>5. gsm48_rr_est_req(e, req) \in {u, n}
  BY DEF gsm48_rr_est_req, u, n, a
<1> QED BY <1>1, <1>3, <1>4, <1>5 DEF SameRr

\* A phone with the same connections; and one with the same channel besides, and MM
\* in the same state.
SameUsers(e, d) == d.conn = e.conn /\ d.mmxx = e.mmxx /\ d.stray = e.stray
Aside(e, d) ==
  /\ DOMAIN d = DOMAIN e /\ SameUsers(e, d) /\ SameRr(e, d)
  /\ d.rslq = e.rslq /\ d.rrq = e.rrq /\ d.plmn = e.plmn /\ d.mm = e.mm

LEMMA AsideOrderly ==
  ASSUME NEW e, NEW d, Aside(e, d)
  PROVE  /\ Orderly(e) => Orderly(d)
         /\ Queued(e) => Queued(d)
         /\ Users(d) = Users(e)
         /\ Sure(e) /\ (Users(e) # {} => ~d.t3210) => Sure(d)
BY DEF Aside, SameUsers, SameRr, Orderly, Queued, Users, Connected, Sure, Served, Granted, Tells, Closing

LEMMA AsideTwice ==
  ASSUME NEW e, NEW d, NEW f, Aside(e, d), Aside(d, f)
  PROVE  Aside(e, f)
BY DEF Aside, SameUsers, SameRr

\* Back to MM IDLE, and the location update that may begin there: the connections stay.
Idles(e, d) == SameUsers(e, d) /\ Orderly(d)

LEMMA IdlesSure ==
  ASSUME NEW e, NEW d, Idles(e, d), Users(e) = {}
  PROVE  Sure(d)
BY DEF Idles, SameUsers, Users, Connected, Sure, Served

LEMMA IdlesAfter ==
  ASSUME NEW e, NEW d, NEW f, SameUsers(e, d), Idles(d, f)
  PROVE  Idles(e, f)
BY DEF Idles, SameUsers

LEMMA IdleAside ==
  ASSUME NEW e, DOMAIN e = Fields
  PROVE  /\ Aside(e, UpdateDone(e)) /\ DOMAIN UpdateDone(e) = Fields
         /\ \A p : Aside(e, [e EXCEPT !.pending = p]) /\ Aside(e, [e EXCEPT !.retry = p])
                   /\ Aside(e, [e EXCEPT !.periodic = p])
BY DEF Fields, Aside, SameUsers, SameRr, UpdateDone

\* What the next of the nested calls is to do.
SettlesIdle(locUpd) == \A e : Good(e) /\ Orderly(e) => Idles(e, locUpd[e])

LEMMA LocUpdPeriodicIdles ==
  ASSUME NEW e, Good(e), Orderly(e), NEW locUpd, SettlesIdle(locUpd)
  PROVE  Idles(e, LocUpdPeriodic(e, locUpd))
<1> DEFINE p == [e EXCEPT !.pending = TRUE]
<1>1. Good(p)
  BY PendingGood
<1>2. Aside(e, p)
  BY IdleAside DEF Good, Typed
<1> HIDE DEF p
<1>3. Idles(p, locUpd[p])
  BY <1>1, <1>2, AsideOrderly DEF SettlesIdle
<1>4. Idles(e, locUpd[p])
  BY <1>2, <1>3, IdlesAfter DEF Aside
<1> QED BY <1>4 DEF LocUpdPeriodic, Idles, SameUsers, p

LEMMA EnterIdleIdles ==
  ASSUME NEW e, Good(e), Orderly(e), NEW sst \in SubStates, NEW locUpd, SettlesIdle(locUpd)
  PROVE  Idles(e, EnterIdle(e, sst, locUpd))
<1> DEFINE updating == sst \in {"NORMAL", "ATTEMPT_UPDATE"}
           d == [e EXCEPT !.mm = "IDLE", !.sst = sst, !.rej = None,
                          !.t3212 = @ \/ (Periodic /\ updating)]
           r == [d EXCEPT !.retry = FALSE]
           p == [d EXCEPT !.periodic = FALSE]
<1>1. IsFcn(d) /\ IsFcn(r) /\ IsFcn(p)
  BY Zenon DEF IsFcn
<1>2. Typed(d) /\ d.cs = e.cs /\ d.ev = e.ev /\ d.conn = e.conn
  BY RefAssumption DEF Good, Typed, Fields, SubStates
<1>3. /\ SameUsers(e, d) /\ SameRr(e, d) /\ d.rslq = e.rslq /\ d.plmn = e.plmn /\ d.mm = "IDLE"
  BY DEF Good, Typed, Fields, SameUsers, SameRr
<1>4. EnterIdle(e, sst, locUpd) \in {locUpd[r], LocUpdPeriodic(p, locUpd), d}
  BY DEF EnterIdle
<1> HIDE DEF d
<1>5. Good(d)
  BY <1>1, <1>2 DEF Good, OnePending, Pending, CellReported
<1>6. Typed(r) /\ Same(d, r) /\ Typed(p) /\ Same(d, p)
  BY <1>2 DEF Typed, Fields, Same
<1>7. Good(r) /\ Good(p)
  BY <1>1, <1>5, <1>6, SameGood
<1>8. Orderly(d)
  BY <1>3 DEF SameRr, Orderly, Closing, UsingStates, ConnStates
<1>9. Aside(d, r) /\ Aside(d, p)
  BY <1>2, IdleAside DEF Typed
<1> HIDE DEF r, p
<1>10. Orderly(r) /\ Orderly(p) /\ SameUsers(e, r) /\ SameUsers(e, p)
  BY <1>3, <1>8, <1>9, AsideOrderly DEF Aside, SameUsers
<1>11. Idles(e, LocUpdPeriodic(p, locUpd))
  BY <1>7, <1>10, LocUpdPeriodicIdles, IdlesAfter
<1>12. Idles(e, locUpd[r])
  BY <1>7, <1>10, IdlesAfter DEF SettlesIdle
<1>13. Idles(e, d)
  BY <1>3, <1>8 DEF Idles
<1> QED BY <1>4, <1>11, <1>12, <1>13

LEMMA LocUpdNormalIdles ==
  ASSUME NEW e, Good(e), Orderly(e), NEW locUpd, SettlesIdle(locUpd)
  PROVE  Idles(e, LocUpdNormal(e, locUpd))
<1> DEFINE p == [e EXCEPT !.pending = TRUE]
           n == EnterIdle(e, "NORMAL", locUpd)
<1>1. Good(p)
  BY PendingGood
<1>2. Aside(e, p)
  BY IdleAside DEF Good, Typed
<1>3. Idles(e, n)
  BY EnterIdleIdles DEF SubStates, Serving
<1> HIDE DEF p, n
<1>4. Idles(p, locUpd[p])
  BY <1>1, <1>2, AsideOrderly DEF SettlesIdle
<1>5. Idles(e, locUpd[p])
  BY <1>2, <1>4, IdlesAfter DEF Aside
<1>6. Idles(e, e)
  BY DEF Idles, SameUsers
<1>7. LocUpdNormal(e, locUpd) \in {e, n, locUpd[p]}
  BY DEF LocUpdNormal, n, p
<1> QED BY <1>3, <1>5, <1>6, <1>7

LEMMA NewStateIdleIdles ==
  ASSUME NEW e, Good(e), Orderly(e), NEW sst \in SubStates \cup {"LOC_UPD_NEEDED"},
         NEW locUpd, Settles(locUpd), SettlesIdle(locUpd)
  PROVE  Idles(e, NewStateIdle(e, sst, locUpd))
<1>1. CASE sst = "LOC_UPD_NEEDED"
  <2> DEFINE a == EnterIdle(e, "ATTEMPT_UPDATE", locUpd)
  <2>1. Good(a) /\ Idles(e, a)
    BY EnterIdleKept, EnterIdleIdles DEF SubStates, Serving, Kept
  <2> HIDE DEF a
  <2>2. Idles(a, LocUpdNormal(a, locUpd))
    BY <2>1, LocUpdNormalIdles DEF Idles
  <2>3. Idles(e, LocUpdNormal(a, locUpd))
    BY <2>1, <2>2, IdlesAfter DEF Idles
  <2> QED BY <1>1, <2>3 DEF NewStateIdle, a
<1>2. CASE sst # "LOC_UPD_NEEDED"
  BY <1>2, EnterIdleIdles DEF NewStateIdle
<1> QED BY <1>1, <1>2

LEMMA ReturnIdleIdles ==
  ASSUME NEW e, Good(e), Orderly(e), NEW locUpd, Settles(locUpd), SettlesIdle(locUpd)
  PROVE  Idles(e, ReturnIdle(e, locUpd))
<1> DEFINE d == [e EXCEPT !.t3211 = @ \/ e.start_t3211, !.start_t3211 = FALSE]
           n == [d EXCEPT !.t3212 = FALSE]
           u == UpdateDone(n)
<1>1. IsFcn(d) /\ IsFcn(n)
  BY Zenon DEF IsFcn
<1>2. Typed(d) /\ Same(e, d) /\ Typed(n) /\ Same(e, n)
  BY DEF Good, Typed, Fields, Same
<1>3. Aside(e, d) /\ Aside(e, n) /\ DOMAIN n = Fields
  BY DEF Good, Typed, Fields, Aside, SameUsers, SameRr
<1>4. Good(d) /\ Good(u)
  BY <1>1, <1>2, SameGood, UpdateDoneGood
<1>5. ReturnIdle(e, locUpd) \in {e, NewStateIdle(u, "NO_IMSI", locUpd)}
                              \cup {NewStateIdle(d, sst, locUpd) : sst \in SubStates \cup {"LOC_UPD_NEEDED"}}
  BY DEF ReturnIdle, SubStates, Serving, d, n, u
<1> HIDE DEF d, n
<1>6. Aside(e, u)
  BY <1>3, IdleAside, AsideTwice
<1> HIDE DEF u
<1>7. Orderly(d) /\ Orderly(u) /\ SameUsers(e, d) /\ SameUsers(e, u)
  BY <1>3, <1>6, AsideOrderly DEF Aside
<1>8. Idles(e, NewStateIdle(u, "NO_IMSI", locUpd))
  BY <1>4, <1>7, NewStateIdleIdles, IdlesAfter DEF SubStates
<1>9. \A sst \in SubStates \cup {"LOC_UPD_NEEDED"} : Idles(e, NewStateIdle(d, sst, locUpd))
  BY <1>4, <1>7, NewStateIdleIdles, IdlesAfter
<1>10. Idles(e, e)
  BY DEF Idles, SameUsers
<1> QED BY <1>5, <1>8, <1>9, <1>10

LEMMA BeginLocUpdIdles ==
  ASSUME NEW e, Good(e), Orderly(e)
  PROVE  Idles(e, BeginLocUpd(e))
<1> DEFINE d == [e EXCEPT !.mm = "WAIT_RR_CONN_LUPD",
                          !.lost = @ \/ e.rel_wait \/ e.dl # "IDLE"]
           q == gsm48_rr_est_req(d, Lupd)
<1>1. /\ Queued(d) /\ SameUsers(e, d) /\ SameRr(e, d) /\ d.rslq = e.rslq
      /\ d.mm = "WAIT_RR_CONN_LUPD"
  BY DEF Good, Typed, Fields, Queued, SameUsers, SameRr
<1> HIDE DEF d
<1>2. /\ Onward(d, q)
      /\ SameRr(d, q) \/ q.rr = "CONN_PEND"
  BY <1>1, EstReqOnward
<1> HIDE DEF q
<1>3. Closing(e) => Closing(q)
  BY <1>1, <1>2 DEF Onward, Closing
<1>4. Orderly(q)
  BY <1>1, <1>2, <1>3 DEF Onward, SameRr, Orderly, UsingStates, ConnStates
<1>5. Idles(e, q)
  BY <1>1, <1>2, <1>4 DEF Idles, SameUsers, Onward
<1> QED BY <1>5 DEF BeginLocUpd, q, d

LEMMA TryLocUpdIdles ==
  ASSUME NEW e, Good(e), Orderly(e), NEW locUpd, Settles(locUpd), SettlesIdle(locUpd)
  PROVE  Idles(e, TryLocUpd(e, locUpd))
<1> DEFINE u == UpdateDone(e)
<1>1. Good(u) /\ Aside(e, u)
  <2>1. DOMAIN e = Fields
    BY DEF Good, Typed
  <2> QED BY Zenon, <2>1, UpdateDoneGood, IdleAside
<1> HIDE DEF u
<1>2. Orderly(u) /\ SameUsers(e, u)
  BY <1>1, AsideOrderly DEF Aside
<1>3. Idles(e, ReturnIdle(e, locUpd)) /\ Idles(e, ReturnIdle(u, locUpd)) /\ Idles(e, BeginLocUpd(e))
  BY <1>1, <1>2, ReturnIdleIdles, BeginLocUpdIdles, IdlesAfter
<1> QED BY <1>3 DEF TryLocUpd, u

LEMMA LocUpdIdles == SettlesIdle(LocUpd3)
<1>0. Settles(LocUpd0) /\ Settles(LocUpd1) /\ Settles(LocUpd2)
  BY LocUpdInnerSettles
<1>1. SettlesIdle(LocUpd0)
  BY GoodPhone, BeginLocUpdIdles DEF SettlesIdle, LocUpd0
<1>2. SettlesIdle(LocUpd1)
  BY <1>0, <1>1, GoodPhone, TryLocUpdIdles DEF SettlesIdle, LocUpd1
<1>3. SettlesIdle(LocUpd2)
  BY <1>0, <1>2, GoodPhone, TryLocUpdIdles DEF SettlesIdle, LocUpd2
<1> QED BY <1>0, <1>3, GoodPhone, TryLocUpdIdles DEF SettlesIdle, LocUpd3

LEMMA MmIdleIdles ==
  ASSUME NEW e, Good(e), Orderly(e)
  PROVE  /\ Idles(e, gsm48_mm_return_idle(e)) /\ Idles(e, gsm48_mm_loc_upd(e))
         /\ \A sst \in SubStates \cup {"LOC_UPD_NEEDED"} : Idles(e, new_mm_state_idle(e, sst))
         /\ Idles(e, gsm48_mm_loc_upd_normal(e)) /\ Idles(e, gsm48_mm_loc_upd_periodic(e))
BY LocUpdIdles, LocUpdSettles, ReturnIdleIdles, LocUpdNormalIdles, NewStateIdleIdles, LocUpdPeriodicIdles
   DEF gsm48_mm_loc_upd, gsm48_mm_return_idle, gsm48_mm_loc_upd_normal, new_mm_state_idle,
       gsm48_mm_loc_upd_periodic, SettlesIdle

\* The user has an indication that the connection ended under way.
EndedIn(d, ref) == \E i \in DOMAIN d.mmxx[ref] : d.mmxx[ref][i] \in {"REL_IND", "ERR_IND"}

\* Connections only end, and their users are told: nobody else is told of an end, nor
\* of anything that has no connection.
Fair(e, d) ==
  /\ e.stray \subseteq d.stray
  /\ \A ref \in Refs :
       /\ d.mmxx[ref] # <<>> => e.mmxx[ref] # <<>> \/ e.conn[ref] # "NONE"
       /\ d.conn[ref] # "NONE" => e.conn[ref] # "NONE"
       /\ EndedIn(d, ref) <=> EndedIn(e, ref) \/ (e.conn[ref] # "NONE" /\ d.conn[ref] = "NONE")

\* The channel stays as it is, and so do the messages about it.
Calm(e, d) ==
  /\ DOMAIN d = DOMAIN e /\ SameRr(e, d)
  /\ d.rslq = e.rslq /\ d.rrq = e.rrq /\ d.plmn = e.plmn
Serves(e, d) == Fair(e, d) /\ Calm(e, d) /\ d.mm = e.mm /\ d.t3210 = e.t3210

LEMMA FairTwice ==
  ASSUME NEW e, NEW d, NEW f, Fair(e, d), Fair(d, f)
  PROVE  Fair(e, f)
BY DEF Fair

LEMMA ServesTwice ==
  ASSUME NEW e, NEW d, NEW f, Serves(e, d), Serves(d, f)
  PROVE  Serves(e, f)
BY FairTwice DEF Serves, Calm, SameRr

LEMMA SameUsersFair ==
  ASSUME NEW e, NEW d, SameUsers(e, d)
  PROVE  Fair(e, d)
BY DEF SameUsers, Fair, EndedIn

LEMMA FairUsers ==
  ASSUME NEW e, NEW d, Fair(e, d)
  PROVE  Users(d) \subseteq Users(e)
BY DEF Fair, Users, Connected

LEMMA OnwardFair ==
  ASSUME NEW e, NEW d, Onward(e, d)
  PROVE  SameUsers(e, d) /\ Fair(e, d)
BY SameUsersFair DEF Onward, SameUsers

LEMMA IdlesFair ==
  ASSUME NEW e, NEW d, Idles(e, d)
  PROVE  Fair(e, d)
BY SameUsersFair DEF Idles

\* What MM does with its connections, while the channel is as it was.
LEMMA CalmSure ==
  ASSUME NEW e, Sure(e), NEW d, Calm(e, d), Fair(e, d),
         Users(d) # {} => d.mm \in ConnStates /\ (d.t3210 => e.t3210),
         d.mm \in UsingStates => e.mm \in UsingStates \/ Granted(e),
         e.plmn => d.mm \notin UsingStates \cup ConnStates
  PROVE  Sure(d)
<1>1. Users(d) \subseteq Users(e)
  BY FairUsers
<1>2. Orderly(d)
  BY DEF Sure, Orderly, Calm, SameRr, Granted, Closing
<1>3. Served(d)
  BY <1>1 DEF Sure, Served, Calm, SameRr, Granted, Tells
<1> QED BY <1>2, <1>3 DEF Sure

LEMMA ServesSure ==
  ASSUME NEW e, Sure(e), NEW d, Serves(e, d)
  PROVE  Sure(d)
<1>1. Users(d) \subseteq Users(e)
  BY FairUsers DEF Serves
<1> QED BY <1>1, CalmSure DEF Serves, Sure, Served, Orderly

\* A message is queued for a user.
LEMMA AppendEnded ==
  ASSUME NEW q \in Seq(MmxxPrims), NEW p \in MmxxPrims
  PROVE  /\ Append(q, p) # <<>>
         /\ (\E i \in DOMAIN Append(q, p) : Append(q, p)[i] \in {"REL_IND", "ERR_IND"})
              <=> (\E i \in DOMAIN q : q[i] \in {"REL_IND", "ERR_IND"}) \/ p \in {"REL_IND", "ERR_IND"}
<1> DEFINE a == Append(q, p)
<1>1. /\ \A i \in DOMAIN q : i \in DOMAIN a /\ a[i] = q[i]
      /\ Len(q) + 1 \in DOMAIN a /\ a[Len(q) + 1] = p
      /\ \A i \in DOMAIN a : i = Len(q) + 1 \/ i \in DOMAIN q
      /\ a # <<>>
  OBVIOUS
<1> HIDE DEF a
<1>2. (\E i \in DOMAIN a : a[i] \in {"REL_IND", "ERR_IND"})
        <=> (\E i \in DOMAIN q : q[i] \in {"REL_IND", "ERR_IND"}) \/ p \in {"REL_IND", "ERR_IND"}
  BY <1>1
<1> QED BY <1>1, <1>2 DEF a

LEMMA MmxxUpmsgUsers ==
  ASSUME NEW e, Good(e), NEW refs \in SUBSET Refs, NEW p \in MmxxPrims
  PROVE  LET d == gsm48_mmxx_upmsg(e, refs, p) IN
         /\ Calm(e, d) /\ d.mm = e.mm /\ d.t3210 = e.t3210 /\ d.conn = e.conn /\ d.stray = e.stray
         /\ \A ref \in Refs :
              IF ref \in refs
              THEN /\ d.mmxx[ref] # <<>>
                   /\ EndedIn(d, ref) <=> EndedIn(e, ref) \/ p \in {"REL_IND", "ERR_IND"}
              ELSE d.mmxx[ref] = e.mmxx[ref]
<1> DEFINE q == [ref \in Refs |-> IF ref \in refs THEN Append(e.mmxx[ref], p) ELSE e.mmxx[ref]]
           d == gsm48_mmxx_upmsg(e, refs, p)
<1>1. /\ Calm(e, d) /\ d.mm = e.mm /\ d.t3210 = e.t3210 /\ d.conn = e.conn /\ d.stray = e.stray
      /\ d.mmxx = q
  BY DEF Good, Typed, Fields, gsm48_mmxx_upmsg, Calm, SameRr
<1>2. \A ref \in Refs : q[ref] = IF ref \in refs THEN Append(e.mmxx[ref], p) ELSE e.mmxx[ref]
  OBVIOUS
<1> HIDE DEF d, q
<1>3. \A ref \in Refs : e.mmxx[ref] \in Seq(MmxxPrims)
  BY DEF Good, Typed, MmxxPrims
<1>4. ASSUME NEW ref \in refs
      PROVE  /\ d.mmxx[ref] # <<>>
             /\ EndedIn(d, ref) <=> EndedIn(e, ref) \/ p \in {"REL_IND", "ERR_IND"}
  <2>1. d.mmxx[ref] = Append(e.mmxx[ref], p) /\ e.mmxx[ref] \in Seq(MmxxPrims)
    BY <1>1, <1>2, <1>3
  <2> QED BY <2>1, AppendEnded DEF EndedIn
<1> QED BY <1>1, <1>2, <1>4 DEF d

LEMMA ConfirmServes ==
  ASSUME NEW e, Good(e), NEW refs \in SUBSET Connected(e)
  PROVE  Serves(e, gsm48_mmxx_upmsg(e, refs, "EST_CNF"))
<1> DEFINE d == gsm48_mmxx_upmsg(e, refs, "EST_CNF")
<1>1. refs \subseteq Refs /\ \A ref \in refs : e.conn[ref] # "NONE"
  BY DEF Connected
<1>2. /\ Calm(e, d) /\ d.mm = e.mm /\ d.t3210 = e.t3210 /\ d.conn = e.conn /\ d.stray = e.stray
      /\ \A ref \in Refs :
           IF ref \in refs THEN EndedIn(d, ref) <=> EndedIn(e, ref)
                           ELSE d.mmxx[ref] = e.mmxx[ref]
  BY <1>1, MmxxUpmsgUsers DEF MmxxPrims
<1> HIDE DEF d
<1>3. Fair(e, d)
  BY <1>1, <1>2 DEF Fair, EndedIn
<1> QED BY <1>2, <1>3 DEF Serves, d

LEMMA ReleaseServes ==
  ASSUME NEW e, Good(e), NEW refs \in SUBSET Connected(e), NEW p \in {"REL_IND", "ERR_IND"}
  PROVE  LET d == gsm48_mm_release_mm_conn(e, refs, p) IN
         Serves(e, d) /\ Connected(d) = Connected(e) \ refs
<1> DEFINE u == gsm48_mmxx_upmsg(e, refs, p)
           conns == [ref \in Refs |-> IF ref \in refs THEN "NONE" ELSE u.conn[ref]]
           d == [u EXCEPT !.conn = conns]
<1>1. refs \subseteq Refs /\ \A ref \in refs : e.conn[ref] # "NONE"
  BY DEF Connected
<1>2. /\ Calm(e, u) /\ u.mm = e.mm /\ u.t3210 = e.t3210 /\ u.conn = e.conn /\ u.stray = e.stray
      /\ \A ref \in Refs : IF ref \in refs THEN EndedIn(u, ref)
                                           ELSE u.mmxx[ref] = e.mmxx[ref]
  BY <1>1, MmxxUpmsgUsers DEF MmxxPrims
<1>3. gsm48_mm_release_mm_conn(e, refs, p) = d
  BY Zenon DEF gsm48_mm_release_mm_conn
<1>4. DOMAIN u = Fields
  BY <1>2 DEF Calm, Good, Typed
<1> HIDE DEF u
<1>5. \A ref \in Refs : conns[ref] = IF ref \in refs THEN "NONE" ELSE e.conn[ref]
  BY <1>2
<1> HIDE DEF conns
<1>6. /\ Calm(u, d) /\ d.mm = u.mm /\ d.t3210 = u.t3210 /\ d.conn = conns /\ d.stray = u.stray
      /\ d.mmxx = u.mmxx
  BY <1>4 DEF Fields, Calm, SameRr
<1> HIDE DEF d
<1>7. Fair(e, d)
  <2>1. e.stray \subseteq d.stray
    BY <1>2, <1>6
  <2> SUFFICES ASSUME NEW ref \in Refs
               PROVE  /\ d.mmxx[ref] # <<>> => e.mmxx[ref] # <<>> \/ e.conn[ref] # "NONE"
                      /\ d.conn[ref] # "NONE" => e.conn[ref] # "NONE"
                      /\ EndedIn(d, ref) <=> EndedIn(e, ref) \/ (e.conn[ref] # "NONE" /\ d.conn[ref] = "NONE")
    BY <2>1 DEF Fair
  <2>2. CASE ref \in refs
    BY <1>1, <1>2, <1>5, <1>6, <2>2 DEF EndedIn
  <2>3. CASE ref \notin refs
    BY <1>2, <1>5, <1>6, <2>3 DEF EndedIn
  <2> QED BY <2>2, <2>3
<1>8. Connected(d) = Connected(e) \ refs
  BY <1>1, <1>5, <1>6 DEF Connected
<1>9. Calm(e, d) /\ d.mm = e.mm /\ d.t3210 = e.t3210
  BY <1>2, <1>6 DEF Calm, SameRr
<1> QED BY <1>3, <1>7, <1>8, <1>9 DEF Serves

\* A message comes over the channel.
OnAir(e) == Sure(e) /\ e.rr = "DEDICATED" /\ e.cs = "CONNECTED" /\ ~e.plmn /\ (Users(e) # {} => ~e.rel_wait)

LEMMA OnAirSure ==
  ASSUME NEW e, OnAir(e), NEW d, Calm(e, d), Fair(e, d),
         Users(e) # {} => d.mm \in ConnStates /\ (d.t3210 => e.t3210)
  PROVE  Sure(d)
<1>1. Users(d) \subseteq Users(e)
  BY FairUsers
<1> QED BY <1>1, CalmSure DEF OnAir, Granted

\* MM goes to another state, and the connections stay.
LEMMA MovesServe ==
  ASSUME NEW e, DOMAIN e = Fields, NEW mm, NEW v
  PROVE  LET Stays(d) == /\ SameUsers(e, d) /\ Fair(e, d) /\ Calm(e, d) /\ d.t3210 = e.t3210
                         /\ DOMAIN d = Fields
         IN  /\ Stays([e EXCEPT !.mm = mm]) /\ Stays([e EXCEPT !.t3230 = v, !.mm = mm])
             /\ Stays(WaitNetworkCommand(e)) /\ Stays(WaitNetworkCommand([e EXCEPT !.t3240 = v]))
<1> DEFINE Alone(d) == SameUsers(e, d) /\ Calm(e, d) /\ d.t3210 = e.t3210 /\ DOMAIN d = Fields
<1>1. Alone([e EXCEPT !.mm = mm])
  BY DEF Fields, SameUsers, Calm, SameRr
<1>2. Alone([e EXCEPT !.t3230 = v, !.mm = mm])
  BY DEF Fields, SameUsers, Calm, SameRr
<1>3. Alone(WaitNetworkCommand(e))
  BY DEF Fields, SameUsers, Calm, SameRr, WaitNetworkCommand
<1>4. Alone(WaitNetworkCommand([e EXCEPT !.t3240 = v]))
  BY DEF Fields, SameUsers, Calm, SameRr, WaitNetworkCommand
<1> QED BY <1>1, <1>2, <1>3, <1>4, SameUsersFair

LEMMA TimersServe ==
  ASSUME NEW e, DOMAIN e = Fields, NEW v, NEW w
  PROVE  LET Stays(d) == Serves(e, d) /\ DOMAIN d = Fields /\ d.conn = e.conn
         IN  /\ Stays([e EXCEPT !.t3230 = v]) /\ Stays([e EXCEPT !.t3240 = v])
             /\ Stays([e EXCEPT !.t3212 = v]) /\ Stays([e EXCEPT !.t3240 = v, !.t3230 = w])
             /\ Stays([e EXCEPT !.sapi3_link = v]) /\ Stays(e)
<1> DEFINE Alone(d) == /\ SameUsers(e, d) /\ Calm(e, d) /\ d.t3210 = e.t3210 /\ d.mm = e.mm
                       /\ DOMAIN d = Fields
<1>1. Alone([e EXCEPT !.t3230 = v]) /\ Alone([e EXCEPT !.t3240 = v])
  BY DEF Fields, SameUsers, Calm, SameRr
<1>2. Alone([e EXCEPT !.t3212 = v]) /\ Alone([e EXCEPT !.t3240 = v, !.t3230 = w])
  BY DEF Fields, SameUsers, Calm, SameRr
<1>3. Alone([e EXCEPT !.sapi3_link = v]) /\ Alone(e)
  BY DEF Fields, SameUsers, Calm, SameRr
<1>4. ASSUME NEW d, Alone(d) PROVE Serves(e, d) /\ DOMAIN d = Fields /\ d.conn = e.conn
  BY <1>4, SameUsersFair DEF Serves, SameUsers
<1> QED BY <1>1, <1>2, <1>3, <1>4

LEMMA UnregisteredServes ==
  ASSUME NEW e, DOMAIN e = Fields, NEW illegal \in BOOLEAN
  PROVE  Serves(e, Unregistered(e, illegal)) /\ Unregistered(e, illegal).conn = e.conn
<1>1. PICK sim : Unregistered(e, illegal) = [e EXCEPT !.reg = None, !.sim = sim]
  BY Zenon DEF Unregistered
<1>2. LET d == [e EXCEPT !.reg = None, !.sim = sim]
      IN  /\ SameUsers(e, d) /\ Calm(e, d) /\ d.t3210 = e.t3210 /\ d.mm = e.mm /\ d.conn = e.conn
  BY DEF Fields, SameUsers, Calm, SameRr
<1> QED BY <1>1, <1>2, SameUsersFair DEF Serves

\* MM waits for the network, or uses the channel that came up.
LEMMA WaitSure ==
  ASSUME NEW e, OnAir(e), DOMAIN e = Fields
  PROVE  /\ Connected(e) = {} \/ e.mm = "IDLE" =>
              /\ Sure(WaitNetworkCommand(e)) /\ Fair(e, WaitNetworkCommand(e))
         /\ Sure(gsm48_mm_est_mm_con(e)) /\ Fair(e, gsm48_mm_est_mm_con(e))
         /\ Sure([e EXCEPT !.mm = "CONN_ACTIVE"])
<1> DEFINE w == WaitNetworkCommand(e)
           x == WaitNetworkCommand([e EXCEPT !.t3240 = TRUE])
           o == [e EXCEPT !.t3230 = TRUE, !.mm = "WAIT_OUT_MM_CONN"]
           a == [e EXCEPT !.mm = "CONN_ACTIVE"]
<1>1. /\ Fair(e, w) /\ Calm(e, w) /\ w.t3210 = e.t3210 /\ Fair(e, x) /\ Calm(e, x) /\ x.t3210 = e.t3210
      /\ Fair(e, o) /\ Calm(e, o) /\ o.t3210 = e.t3210 /\ Fair(e, a) /\ Calm(e, a) /\ a.t3210 = e.t3210
  BY ZenonT(40), MovesServe
<1>2. o.mm = "WAIT_OUT_MM_CONN" /\ a.mm = "CONN_ACTIVE"
  BY DEF Fields
<1>3. gsm48_mm_est_mm_con(e) = IF Connected(e) = {} THEN x ELSE o
  BY DEF gsm48_mm_est_mm_con
<1> HIDE DEF w, x, o, a
<1>4. Connected(e) = {} \/ e.mm = "IDLE" => Users(e) = {}
  BY DEF OnAir, Sure, Served, Users, ConnStates
<1>5. Sure(a) /\ Sure(o)
  BY <1>1, <1>2, OnAirSure DEF ConnStates
<1>6. Connected(e) = {} \/ e.mm = "IDLE" => Sure(w) /\ Sure(x)
  BY <1>1, <1>4, OnAirSure
<1> QED BY <1>1, <1>3, <1>5, <1>6 DEF w, a

\* Answers of the network to a request for a connection.
LEMMA ServiceAccSure ==
  ASSUME NEW e, Good(e), OnAir(e)
  PROVE  Sure(gsm48_mm_rx_cm_service_acc(e)) /\ Fair(e, gsm48_mm_rx_cm_service_acc(e))
<1> DEFINE a == [e EXCEPT !.t3230 = FALSE, !.mm = "CONN_ACTIVE"]
           ref == CHOOSE r \in Pending(a) : TRUE
           d == [a EXCEPT !.conn[ref] = "DEDICATED"]
<1>1. Fair(e, a) /\ Calm(e, a) /\ a.t3210 = e.t3210 /\ a.mm = "CONN_ACTIVE" /\ DOMAIN a = Fields
  <2>1. DOMAIN e = Fields
    BY DEF Good, Typed
  <2>2. a.mm = "CONN_ACTIVE"
    BY <2>1 DEF Fields
  <2>3. Fair(e, a) /\ Calm(e, a) /\ a.t3210 = e.t3210 /\ DOMAIN a = Fields
    BY ZenonT(40), <2>1, MovesServe
  <2> QED BY <2>2, <2>3
<1>2. Sure(a)
  <2> HIDE DEF a
  <2> QED BY <1>1, OnAirSure DEF ConnStates
<1>3. Good(a)
  <2>1. IsFcn(a)
    BY Zenon DEF IsFcn
  <2>2. Typed(a) /\ a.cs = e.cs /\ a.ev = e.ev /\ a.conn = e.conn /\ a.mm # "IDLE"
    BY DEF Good, Typed, Fields
  <2> QED BY <2>1, <2>2, BusyKept DEF Pending, Kept
<1> HIDE DEF a
<1>4. CASE Pending(a) = {}
  BY <1>1, <1>2, <1>4 DEF gsm48_mm_rx_cm_service_acc, gsm48_mm_conn_go_dedic, a
<1>5. CASE Pending(a) # {}
  <2>1. ref \in Refs /\ a.conn[ref] = "PEND" /\ \A r \in Pending(a) : r = ref
    BY <1>3, <1>5 DEF Pending, Good, OnePending
  <2> HIDE DEF ref
  <2> DEFINE conns == [a.conn EXCEPT ![ref] = "DEDICATED"]
  <2>2. /\ conns \in [Refs -> {"NONE", "IDLE", "PEND", "DEDICATED"}] /\ conns[ref] = "DEDICATED"
        /\ \A r \in Refs : conns[r] # "NONE" <=> a.conn[r] # "NONE"
        /\ \A r \in Refs : conns[r] # "PEND"
    BY ZenonT(40), <1>3, <2>1 DEF Good, Typed, Pending
  <2> HIDE DEF conns
  <2>3. /\ Typed(d) /\ Calm(a, d) /\ d.mm = a.mm /\ d.t3210 = a.t3210 /\ d.conn = conns /\ d.stray = a.stray
        /\ d.mmxx = a.mmxx /\ d.cs = a.cs /\ d.ev = a.ev
    BY SMTT(40), <1>3, <2>2 DEF Good, Typed, Fields, Calm, SameRr, conns
  <2>4. IsFcn(d)
    BY Zenon DEF IsFcn
  <2>5. gsm48_mm_rx_cm_service_acc(e) \in {gsm48_rr_est_req_sapi3(d), gsm48_mmxx_upmsg(d, {ref}, "EST_CNF")}
    BY <1>5 DEF gsm48_mm_rx_cm_service_acc, gsm48_mm_conn_go_dedic, a, d, ref
  <2> HIDE DEF d
  <2>6. Serves(a, d)
    <3>1. Fair(a, d)
      BY <2>2, <2>3 DEF Fair, EndedIn
    <3> QED BY <2>3, <3>1 DEF Serves
  <2>7. Good(d)
    BY <1>3, <2>2, <2>3, <2>4 DEF Good, OnePending, Pending, CellReported
  <2>8. Sure(d)
    BY <1>2, <2>6, ServesSure
  <2>9. ref \in Connected(d)
    BY <2>1, <2>2, <2>3 DEF Connected
  <2>10. Serves(d, gsm48_mmxx_upmsg(d, {ref}, "EST_CNF"))
    BY <2>7, <2>9, ConfirmServes
  <2>11. Onward(d, gsm48_rr_est_req_sapi3(d)) /\ SameRr(d, gsm48_rr_est_req_sapi3(d))
    BY <2>7, GoodQueued, Sapi3Onward
  <2>12. Sure(gsm48_mmxx_upmsg(d, {ref}, "EST_CNF")) /\ Sure(gsm48_rr_est_req_sapi3(d))
    BY <2>8, <2>10, <2>11, ServesSure, OnwardSure DEF SameRr
  <2>13. Fair(d, gsm48_mmxx_upmsg(d, {ref}, "EST_CNF")) /\ Fair(d, gsm48_rr_est_req_sapi3(d))
    BY <2>10, <2>11, OnwardFair DEF Serves
  <2>14. Fair(e, d)
    BY <1>1, <2>6, FairTwice DEF Serves
  <2> QED BY <2>5, <2>12, <2>13, <2>14, FairTwice
<1> QED BY <1>4, <1>5

LEMMA ServiceRejSure ==
  ASSUME NEW e, Good(e), OnAir(e), NEW cause
  PROVE  Sure(gsm48_mm_rx_cm_service_rej(e, cause)) /\ Fair(e, gsm48_mm_rx_cm_service_rej(e, cause))
<1> DEFINE t == [e EXCEPT !.t3230 = FALSE]
           unknown == cause \in {"CM_REJ_UNKNOWN", "CM_REJ_ILLEGAL"}
           refs == IF unknown THEN Connected(e) ELSE Pending(e)
           d == gsm48_mm_release_mm_conn(t, refs, "REL_IND")
           u == IF unknown THEN Unregistered(d, cause = "CM_REJ_ILLEGAL") ELSE d
           w == WaitNetworkCommand(u)
           a == [u EXCEPT !.mm = "CONN_ACTIVE"]
<1>1. gsm48_mm_rx_cm_service_rej(e, cause) = IF Connected(u) = {} THEN w ELSE a
  BY Zenon DEF gsm48_mm_rx_cm_service_rej
<1>2. Good(t)
  BY T3230Kept
<1>3. Serves(e, t) /\ t.conn = e.conn
  <2>1. DOMAIN e = Fields
    BY DEF Good, Typed
  <2> QED BY Zenon, <2>1, TimersServe
<1> HIDE DEF t
<1>4. refs \subseteq Connected(t)
  BY <1>3 DEF Connected, Pending
<1> HIDE DEF refs, unknown
<1>5. Serves(t, d)
  BY <1>2, <1>4, ReleaseServes
<1> HIDE DEF d
<1>6. Serves(e, d) /\ DOMAIN d = Fields
  BY <1>3, <1>5, ServesTwice DEF Serves, Calm, Good, Typed
<1>7. Serves(e, u) /\ DOMAIN u = Fields
  <2>1. Serves(e, u)
    <3>1. CASE unknown
      BY Zenon, <1>6, <3>1, UnregisteredServes, ServesTwice
    <3>2. CASE ~unknown
      BY Zenon, <1>6, <3>2
    <3> QED BY <3>1, <3>2
  <2>2. DOMAIN u = DOMAIN e /\ DOMAIN d = DOMAIN e
    BY Zenon, <1>6, <2>1 DEF Serves, Calm
  <2> QED BY Zenon, <1>6, <2>1, <2>2
<1> HIDE DEF u
<1>8. /\ Fair(u, w) /\ Calm(u, w) /\ w.t3210 = u.t3210 /\ w.conn = u.conn /\ w.stray = u.stray
      /\ Fair(u, a) /\ Calm(u, a) /\ a.t3210 = u.t3210 /\ a.mm = "CONN_ACTIVE"
  <2>1. a.mm = "CONN_ACTIVE"
    BY <1>7 DEF Fields
  <2> HIDE DEF a, w
  <2>2. \A x \in {w, a} : SameUsers(u, x) /\ Fair(u, x) /\ Calm(u, x) /\ x.t3210 = u.t3210
    <3>1. SameUsers(u, w) /\ Fair(u, w) /\ Calm(u, w) /\ w.t3210 = u.t3210
      BY <1>7, MovesServe DEF w
    <3>2. SameUsers(u, a) /\ Fair(u, a) /\ Calm(u, a) /\ a.t3210 = u.t3210
      BY <1>7, MovesServe DEF a
    <3> QED BY <3>1, <3>2
  <2> QED BY <2>1, <2>2 DEF SameUsers
<1> HIDE DEF a, w
<1>9. Fair(e, w) /\ Fair(e, a)
  BY <1>7, <1>8, FairTwice DEF Serves
<1>10. Calm(e, w) /\ Calm(e, a)
  BY <1>7, <1>8 DEF Serves, Calm, SameRr
<1>11. Sure(a)
  BY <1>7, <1>8, <1>9, <1>10, OnAirSure DEF Serves, ConnStates
<1>12. Connected(u) = {} => Sure(w)
  <2>1. Connected(u) = {} => Users(w) = {}
    BY <1>8 DEF Connected, Users
  <2> QED BY <1>9, <1>10, <2>1, CalmSure DEF OnAir, Granted
<1> QED BY <1>1, <1>9, <1>11, <1>12

\* The network aborts the connections, or the phone is not allowed.  In connected mode
\* MM does not return to idle.
LEMMA AbortSure ==
  ASSUME NEW e, Good(e), OnAir(e), NEW cause
  PROVE  /\ Sure(gsm48_mm_rx_abort(e, cause)) /\ Fair(e, gsm48_mm_rx_abort(e, cause))
         /\ Sure(gsm48_mm_rx_auth_rej(e)) /\ Fair(e, gsm48_mm_rx_auth_rej(e))
<1> DEFINE t == [e EXCEPT !.t3230 = FALSE]
           d == gsm48_mm_release_mm_conn(t, Connected(e), "REL_IND")
           u == Unregistered(d, TRUE)
           s == [e EXCEPT !.t3212 = FALSE]
           v == Unregistered(s, TRUE)
<1>1. Good(t)
  BY T3230Kept
<1>2. /\ Serves(e, t) /\ t.conn = e.conn
      /\ Serves(e, s) /\ DOMAIN s = Fields /\ Serves(e, e)
  <2>1. DOMAIN e = Fields
    BY DEF Good, Typed
  <2> QED BY Zenon, <2>1, TimersServe
<1> HIDE DEF t, s
<1>3. Connected(e) \subseteq Connected(t)
  BY <1>2 DEF Connected
<1>4. Serves(t, d)
  BY <1>1, <1>3, ReleaseServes
<1> HIDE DEF d
<1>5. Serves(e, d) /\ DOMAIN d = Fields
  BY <1>2, <1>4, ServesTwice DEF Serves, Calm, Good, Typed
<1>6. Serves(e, u) /\ Serves(e, v)
  BY <1>2, <1>5, UnregisteredServes, ServesTwice
<1>7. gsm48_mm_return_idle(u) = u
  <2>1. u.cs = "CONNECTED"
    BY <1>6 DEF Serves, Calm, SameRr, OnAir
  <2> HIDE DEF u
  <2> QED BY <2>1 DEF gsm48_mm_return_idle, ReturnIdle
<1> HIDE DEF u, v
<1>8. gsm48_mm_rx_abort(e, cause) \in {e, d, u}
  BY <1>7 DEF gsm48_mm_rx_abort, u, d, t
<1>9. gsm48_mm_rx_auth_rej(e) = v
  BY DEF gsm48_mm_rx_auth_rej, v, s
<1>10. \A x \in {e, d, u, v} : Serves(e, x)
  BY <1>2, <1>5, <1>6
<1> QED BY <1>8, <1>9, <1>10, ServesSure DEF OnAir, Serves

LEMMA LocUpdAnswersSure ==
  ASSUME NEW e, Good(e), OnAir(e), e.mm \in UpdateStates
  PROVE  /\ Sure(gsm48_mm_est_loc_upd(e)) /\ Fair(e, gsm48_mm_est_loc_upd(e))
         /\ Sure(gsm48_mm_rx_loc_upd_acc(e)) /\ Fair(e, gsm48_mm_rx_loc_upd_acc(e))
         /\ \A cause : /\ Sure(gsm48_mm_rx_loc_upd_rej(e, cause))
                       /\ Fair(e, gsm48_mm_rx_loc_upd_rej(e, cause))
<1>1. ASSUME NEW d, SameUsers(e, d), Calm(e, d) PROVE Sure(d) /\ Fair(e, d)
  <2>1. Users(e) = {} /\ Fair(e, d)
    BY <1>1, SameUsersFair DEF OnAir, Sure, Served, UpdateStates, ConnStates
  <2> QED BY <1>1, <2>1, OnAirSure
<1>2. LET d == gsm48_mm_est_loc_upd(e) IN SameUsers(e, d) /\ Calm(e, d)
  BY DEF gsm48_mm_est_loc_upd, Good, Typed, Fields, SameUsers, Calm, SameRr
<1>3. \A cause : LET d == gsm48_mm_rx_loc_upd_rej(e, cause) IN SameUsers(e, d) /\ Calm(e, d)
  BY DEF gsm48_mm_rx_loc_upd_rej, Good, Typed, Fields, SameUsers, Calm, SameRr
<1>4. LET d == gsm48_mm_rx_loc_upd_acc(e) IN SameUsers(e, d) /\ Calm(e, d)
  <2> DEFINE u == UpdateDone(e)
             d == [u EXCEPT !.t3212 = FALSE, !.t3210 = FALSE, !.t3240 = TRUE,
                            !.reg = e.la, !.forb = @ \ {e.la}]
  <2>1. DOMAIN u = Fields /\ SameUsers(e, u) /\ Calm(e, u)
    BY DEF UpdateDone, Good, Typed, Fields, SameUsers, Calm, SameRr
  <2> HIDE DEF u
  <2>2. DOMAIN d = Fields /\ SameUsers(u, d) /\ Calm(u, d)
    BY <2>1 DEF Fields, SameUsers, Calm, SameRr
  <2> HIDE DEF d
  <2>3. SameUsers(d, WaitNetworkCommand(d)) /\ Calm(d, WaitNetworkCommand(d))
    BY <2>2, MovesServe
  <2>4. LET x == WaitNetworkCommand(d) IN SameUsers(e, x) /\ Calm(e, x)
    BY <2>1, <2>2, <2>3 DEF SameUsers, Calm, SameRr
  <2> QED BY <2>4 DEF gsm48_mm_rx_loc_upd_acc, d, u
<1> QED BY <1>1, <1>2, <1>3, <1>4

\* A call is set up: a connection that is not in stray uses the channel.
LEMMA SetupSure ==
  ASSUME NEW e, Good(e), OnAir(e), e.mm # "IDLE", NEW ref \in Refs
  PROVE  LET d == gsm48_mm_data_ind_setup(e, ref) IN
         /\ Sure(d) /\ d.mmxx = e.mmxx /\ e.stray \subseteq d.stray
         /\ \A r \in Refs : d.conn[r] = IF r = ref THEN "IDLE" ELSE e.conn[r]
<1> DEFINE left == e.rel_wait \/ e.t3210 \/ e.mm \in UpdateStates
           conns == [e.conn EXCEPT ![ref] = "IDLE"]
           strays == IF left THEN e.stray \cup {ref} ELSE e.stray
           d == [e EXCEPT !.conn[ref] = "IDLE", !.stray = strays]
           g == [d EXCEPT !.t3240 = FALSE, !.mm = "CONN_ACTIVE"]
           x == gsm48_mm_data_ind_setup(e, ref)
<1>1. DOMAIN e = Fields /\ e.mm \in MmStates /\ \A r \in Refs : conns[r] = IF r = ref THEN "IDLE" ELSE e.conn[r]
  BY DEF Good, Typed, MmStates
<1>2. x = IF e.mm = "WAIT_NETWORK_CMD" THEN g ELSE d
  BY Zenon DEF gsm48_mm_data_ind_setup
<1>3. strays = IF left THEN e.stray \cup {ref} ELSE e.stray
  OBVIOUS
<1> HIDE DEF strays, x
<1>4. /\ DOMAIN d = Fields /\ Calm(e, d) /\ d.conn = conns /\ d.stray = strays /\ d.mmxx = e.mmxx
      /\ d.mm = e.mm /\ d.t3210 = e.t3210
  BY <1>1 DEF Fields, Calm, SameRr
<1> HIDE DEF d
<1>5. /\ Calm(d, g) /\ g.conn = d.conn /\ g.stray = d.stray /\ g.mmxx = d.mmxx
      /\ g.mm = "CONN_ACTIVE" /\ g.t3210 = d.t3210
  BY <1>4 DEF Fields, Calm, SameRr
<1> HIDE DEF g, conns
<1>6. /\ Calm(e, x) /\ x.conn = conns /\ x.stray = strays /\ x.mmxx = e.mmxx /\ x.t3210 = e.t3210
      /\ x.mm = IF e.mm = "WAIT_NETWORK_CMD" THEN "CONN_ACTIVE" ELSE e.mm
  BY <1>2, <1>4, <1>5 DEF Calm, SameRr
<1>7. Users(x) \subseteq Users(e) \cup {ref} /\ (ref \in Users(x) => ~left)
  BY <1>1, <1>3, <1>6 DEF Users, Connected
<1>8. ASSUME Users(x) # {} PROVE x.mm \in ConnStates /\ ~x.t3210 /\ ~x.rel_wait
  <2>1. CASE ref \in Users(x)
    BY <1>1, <1>6, <1>7, <2>1 DEF Calm, SameRr, MmStates, ConnStates, UpdateStates
  <2>2. CASE ref \notin Users(x)
    <3>1. Users(e) # {}
      BY <1>7, <1>8, <2>2
    <3> QED BY <1>6, <3>1 DEF OnAir, Sure, Served, Calm, SameRr, ConnStates
  <2> QED BY <2>1, <2>2
<1>9. Granted(x) /\ ~x.plmn
  BY <1>6 DEF OnAir, Granted, Calm, SameRr
<1>10. x.access => x.rr \in {"CONN_PEND", "IDLE"} \/ x.rel_wait \/ Closing(x)
  BY <1>6 DEF OnAir, Sure, Orderly, Calm, SameRr, Closing
<1>11. Sure(x)
  BY <1>8, <1>9, <1>10 DEF Sure, Orderly, Served
<1> QED BY <1>1, <1>3, <1>6, <1>11 DEF x

\* Messages over the channel, but for setups.
LEMMA UpSure ==
  ASSUME NEW e, Good(e), OnAir(e), NEW prim, prim \notin Ends \cup Incoming,
         e.mm = "IDLE" => prim = "EST_IND"
  PROVE  Sure(gsm48_rcv_rr(e, prim)) /\ Fair(e, gsm48_rcv_rr(e, prim))
<1>1. DOMAIN e = Fields
  BY DEF Good, Typed
<1>2. e.mm = "IDLE" => Sure(WaitNetworkCommand(e)) /\ Fair(e, WaitNetworkCommand(e))
  BY <1>1, WaitSure
<1>3. Sure(gsm48_mm_est_mm_con(e)) /\ Fair(e, gsm48_mm_est_mm_con(e))
  BY <1>1, WaitSure
<1>4. /\ Sure(gsm48_mm_rx_cm_service_acc(e)) /\ Fair(e, gsm48_mm_rx_cm_service_acc(e))
      /\ Sure(gsm48_mm_rx_cm_service_rej(e, prim)) /\ Fair(e, gsm48_mm_rx_cm_service_rej(e, prim))
      /\ Sure(gsm48_mm_rx_abort(e, prim)) /\ Fair(e, gsm48_mm_rx_abort(e, prim))
      /\ Sure(gsm48_mm_rx_auth_rej(e)) /\ Fair(e, gsm48_mm_rx_auth_rej(e))
  BY ServiceAccSure, ServiceRejSure, AbortSure
<1>5. e.mm \in UpdateStates =>
        /\ Sure(gsm48_mm_est_loc_upd(e)) /\ Fair(e, gsm48_mm_est_loc_upd(e))
        /\ Sure(gsm48_mm_rx_loc_upd_acc(e)) /\ Fair(e, gsm48_mm_rx_loc_upd_acc(e))
        /\ Sure(gsm48_mm_rx_loc_upd_rej(e, prim)) /\ Fair(e, gsm48_mm_rx_loc_upd_rej(e, prim))
  BY LocUpdAnswersSure
<1>6. Sure(e) /\ Fair(e, e)
  BY SameUsersFair DEF OnAir, SameUsers
<1> DEFINE Done(x) == Sure(x) /\ Fair(e, x)
<1>7. /\ Done(e) /\ (e.mm = "IDLE" => Done(WaitNetworkCommand(e))) /\ Done(gsm48_mm_est_mm_con(e))
      /\ Done(gsm48_mm_rx_cm_service_acc(e)) /\ Done(gsm48_mm_rx_cm_service_rej(e, prim))
      /\ Done(gsm48_mm_rx_abort(e, prim)) /\ Done(gsm48_mm_rx_auth_rej(e))
      /\ e.mm \in {"WAIT_RR_CONN_LUPD", "LOC_UPD_INIT"} =>
           /\ Done(gsm48_mm_est_loc_upd(e)) /\ Done(gsm48_mm_rx_loc_upd_acc(e))
           /\ Done(gsm48_mm_rx_loc_upd_rej(e, prim))
  BY <1>2, <1>3, <1>4, <1>5, <1>6 DEF UpdateStates
<1> HIDE DEF Done
<1>8. Done(gsm48_rcv_rr(e, prim))
  BY <1>7 DEF gsm48_rcv_rr, Ends
<1> QED BY <1>8 DEF Done

\* A setup is known by its reference.
LEMMA SetupTaken ==
  ASSUME NEW e, NEW ref \in Incoming
  PROVE  gsm48_rcv_rr(e, ref) = gsm48_mm_data_ind_setup(e, ref)
<1>1. ref \in Refs
  BY DEF Refs
<1> QED BY <1>1, RefAssumption DEF gsm48_rcv_rr, Commands

-----------------------------------------------------------------------------
(* The end of the channel, and what else takes MM back to idle              *)

LEMMA FailedIdles ==
  ASSUME NEW e, Good(e), Orderly(e)
  PROVE  Idles(e, gsm48_mm_loc_upd_failed(e))
<1> DEFINE d == [e EXCEPT !.t3210 = FALSE, !.t3211 = TRUE]
           g == [e EXCEPT !.t3210 = FALSE, !.reg = None, !.start_t3211 = TRUE]
<1>1. IsFcn(d) /\ IsFcn(g)
  BY Zenon DEF IsFcn
<1>2. /\ Typed(d) /\ d.cs = e.cs /\ d.ev = e.ev /\ d.conn = e.conn
      /\ Typed(g) /\ g.cs = e.cs /\ g.ev = e.ev /\ g.conn = e.conn
  BY DEF Good, Typed, Fields
<1>3. DOMAIN e = Fields
  BY DEF Good, Typed
<1>4. Aside(e, d) /\ Aside(e, g)
  BY <1>3 DEF Fields, Aside, SameUsers, SameRr
<1> HIDE DEF d, g
<1>5. Good(d) /\ Good(g)
  BY <1>1, <1>2 DEF Good, OnePending, Pending, CellReported
<1>6. Idles(d, gsm48_mm_return_idle(d)) /\ Idles(g, gsm48_mm_return_idle(g))
  BY <1>4, <1>5, AsideOrderly, MmIdleIdles
<1>7. Idles(e, gsm48_mm_return_idle(d)) /\ Idles(e, gsm48_mm_return_idle(g))
  BY <1>4, <1>6, IdlesAfter DEF Aside
<1> QED BY <1>7 DEF gsm48_mm_loc_upd_failed, d, g

LEMMA RejectedIdles ==
  ASSUME NEW e, Good(e), Orderly(e), e.mm = "LOC_UPD_REJ"
  PROVE  Idles(e, gsm48_mm_rel_loc_upd_rej(e))
<1> DEFINE d == [e EXCEPT !.t3240 = FALSE, !.plmn = e.rej # "LU_OTHER"]
           g == [d EXCEPT !.forb = @ \cup {e.la}]
           du == UpdateDone(Unregistered(d, TRUE))
           gu == UpdateDone(Unregistered(g, FALSE))
<1>1. IsFcn(d) /\ IsFcn(g)
  BY Zenon DEF IsFcn
<1>2. Typed(d) /\ Same(e, d) /\ Typed(g) /\ Same(e, g)
  BY DEF Good, Typed, Fields, Same
<1>3. Good(d) /\ Good(g)
  BY <1>1, <1>2, SameGood
<1>4. DOMAIN e = Fields
  BY DEF Good, Typed
<1>5. /\ DOMAIN d = Fields /\ SameUsers(e, d) /\ SameRr(e, d) /\ d.rslq = e.rslq /\ d.mm = e.mm
      /\ d.la = e.la
  BY <1>4 DEF Fields, SameUsers, SameRr
<1>6. Orderly(d)
  BY <1>5 DEF Orderly, SameRr, Closing, UsingStates, ConnStates, Granted
<1>7. Aside(d, g) /\ DOMAIN g = Fields
  BY <1>5 DEF Fields, Aside, SameUsers, SameRr
<1> HIDE DEF d, g
<1>8. Good(du) /\ Good(gu)
  BY <1>3, UnregisteredGood, UpdateDoneGood
<1>9. /\ Aside(d, Unregistered(d, TRUE)) /\ DOMAIN Unregistered(d, TRUE) = Fields
      /\ Aside(g, Unregistered(g, FALSE)) /\ DOMAIN Unregistered(g, FALSE) = Fields
  <2>1. ASSUME NEW f, DOMAIN f = Fields, NEW illegal \in BOOLEAN
        PROVE  Aside(f, Unregistered(f, illegal)) /\ DOMAIN Unregistered(f, illegal) = Fields
    <3>1. PICK sim : Unregistered(f, illegal) = [f EXCEPT !.reg = None, !.sim = sim]
      BY Zenon DEF Unregistered
    <3> QED BY <2>1, <3>1 DEF Fields, Aside, SameUsers, SameRr
  <2> QED BY <1>5, <1>7, <2>1
<1>10. Aside(d, du) /\ Aside(d, gu)
  BY <1>7, <1>9, IdleAside, AsideTwice
<1> HIDE DEF du, gu
<1>11. Orderly(du) /\ Orderly(gu) /\ SameUsers(e, du) /\ SameUsers(e, gu)
  BY <1>5, <1>6, <1>10, AsideOrderly DEF Aside, SameUsers
<1>12. /\ Idles(e, gsm48_mm_return_idle(du)) /\ Idles(e, gsm48_mm_return_idle(gu))
       /\ Idles(e, gsm48_mm_loc_upd_failed(d))
  BY <1>3, <1>5, <1>6, <1>8, <1>11, MmIdleIdles, FailedIdles, IdlesAfter
<1> QED BY <1>5, <1>12 DEF gsm48_mm_rel_loc_upd_rej, g, d, du, gu

LEMMA ReleasedSure ==
  ASSUME NEW e, Good(e), Orderly(e), Users(e) # {} => e.mm \in ConnStates, NEW prim \in Ends
  PROVE  Sure(gsm48_rcv_rr(e, prim)) /\ Fair(e, gsm48_rcv_rr(e, prim))
<1> DEFINE d == [e EXCEPT !.t3240 = FALSE, !.t3230 = FALSE]
           g == [e EXCEPT !.t3240 = FALSE]
           r == gsm48_mm_release_mm_conn(d, Connected(e), "ERR_IND")
           i == gsm48_mm_return_idle(r)
<1>1. IsFcn(d) /\ IsFcn(g)
  BY Zenon DEF IsFcn
<1>2. Typed(d) /\ Same(e, d) /\ Typed(g) /\ Same(e, g)
  BY DEF Good, Typed, Fields, Same
<1>3. Good(d) /\ Good(g) /\ DOMAIN e = Fields
  BY ZenonT(40), <1>1, <1>2, SameGood DEF Good, Typed
<1>4. Serves(e, d) /\ Connected(d) = Connected(e)
  BY ZenonT(40), <1>3, TimersServe DEF Connected
<1>5. Aside(e, g)
  BY <1>3 DEF Fields, Aside, SameUsers, SameRr
<1> HIDE DEF d, g
<1>6. Good(r) /\ Serves(d, r) /\ Connected(r) = {}
  BY <1>3, <1>4, ReleaseConnKept, ReleaseServes DEF MmxxPrims
<1> HIDE DEF r
<1>7. Serves(e, r)
  BY <1>4, <1>6, ServesTwice
<1>8. Orderly(r) /\ Users(r) = {} /\ Fair(e, r)
  BY <1>6, <1>7 DEF Serves, Orderly, Calm, SameRr, Closing, Granted, Users
<1>9. Idles(r, i)
  BY <1>6, <1>8, MmIdleIdles
<1> HIDE DEF i
<1>10. Sure(i) /\ Fair(e, i)
  BY <1>8, <1>9, IdlesSure, IdlesFair, FairTwice
<1>11. Orderly(g) /\ SameUsers(e, g)
  BY <1>5, AsideOrderly DEF Aside
<1>12. Idles(e, gsm48_mm_loc_upd_failed(g)) /\ Idles(e, gsm48_mm_return_idle(g))
  BY <1>3, <1>11, FailedIdles, MmIdleIdles, IdlesAfter
<1>13. e.mm \notin ConnStates =>
         /\ Sure(gsm48_mm_rel_loc_upd_abort(e)) /\ Fair(e, gsm48_mm_rel_loc_upd_abort(e))
         /\ Sure(gsm48_mm_rel_other(e)) /\ Fair(e, gsm48_mm_rel_other(e))
  BY <1>12, IdlesSure, IdlesFair DEF gsm48_mm_rel_loc_upd_abort, gsm48_mm_rel_other, g
<1>14. e.mm = "LOC_UPD_REJ" => Sure(gsm48_mm_rel_loc_upd_rej(e)) /\ Fair(e, gsm48_mm_rel_loc_upd_rej(e))
  BY RejectedIdles, IdlesSure, IdlesFair DEF ConnStates
<1>15. gsm48_mm_abort_mm_con(e) = i
  BY DEF gsm48_mm_abort_mm_con, i, r, d
<1> DEFINE Done(x) == Sure(x) /\ Fair(e, x)
<1>16. /\ e.mm \notin ConnStates =>
            Done(gsm48_mm_rel_loc_upd_abort(e)) /\ Done(gsm48_mm_rel_other(e))
       /\ e.mm = "LOC_UPD_REJ" => Done(gsm48_mm_rel_loc_upd_rej(e))
       /\ Done(gsm48_mm_abort_mm_con(e))
  BY <1>10, <1>13, <1>14, <1>15
<1> HIDE DEF Done
<1>17. Done(gsm48_rcv_rr(e, prim))
  BY <1>16 DEF gsm48_rcv_rr, Ends, ConnStates, CmRejections, LuRejections
<1> QED BY <1>17 DEF Done

LEMMA RcvSapi3Sure ==
  ASSUME NEW e, Good(e), Sure(e), NEW prim
  PROVE  Sure(gsm48_rcv_rr_sapi3(e, prim)) /\ Fair(e, gsm48_rcv_rr_sapi3(e, prim))
<1> DEFINE d == [e EXCEPT !.sapi3_link = TRUE]
           g == [e EXCEPT !.sapi3_link = FALSE]
           refs == {ref \in Messages : e.conn[ref] = "DEDICATED"}
           u == gsm48_mmxx_upmsg(d, refs, "EST_CNF")
           r == gsm48_mm_release_mm_conn(g, Connected(e) \cap Messages, "REL_IND")
<1>1. IsFcn(d) /\ IsFcn(g)
  BY Zenon DEF IsFcn
<1>2. Typed(d) /\ Same(e, d) /\ Typed(g) /\ Same(e, g)
  BY DEF Good, Typed, Fields, Same
<1>3. Good(d) /\ Good(g) /\ DOMAIN e = Fields
  BY ZenonT(40), <1>1, <1>2, SameGood DEF Good, Typed
<1>4. Serves(e, d) /\ Serves(e, g) /\ Serves(e, e) /\ d.conn = e.conn /\ g.conn = e.conn
  BY <1>3, TimersServe
<1> HIDE DEF d, g
<1>5. refs \subseteq Connected(d) /\ Connected(e) \cap Messages \subseteq Connected(g)
  BY <1>4 DEF Connected, Refs
<1> HIDE DEF refs
<1>6. Serves(d, u) /\ Serves(g, r)
  BY <1>3, <1>5, ConfirmServes, ReleaseServes
<1> HIDE DEF u, r
<1>7. Serves(e, u) /\ Serves(e, r)
  BY <1>4, <1>6, ServesTwice
<1>8. gsm48_rcv_rr_sapi3(e, prim) \in {u, r, e}
  BY DEF gsm48_rcv_rr_sapi3, u, r, d, g, refs
<1> QED BY <1>4, <1>7, <1>8, ServesSure DEF Serves

\* A connection keeps MM from being moved by cell selection: it is in connected mode.
LEMMA EventSure ==
  ASSUME NEW e, Good(e), Sure(e), NEW event,
         Users(e) # {} => e.cs = "CONNECTED" /\ event # "NO_CELL_FOUND"
  PROVE  LET d == gsm48_mm_event(e, event) IN
         Sure(d) /\ SameUsers(e, d) /\ (Users(e) # {} => d = e)
<1>1. CASE Users(e) # {}
  <2>1. e.mm # "IDLE" /\ e.cs = "CONNECTED" /\ event # "NO_CELL_FOUND"
    BY <1>1 DEF Sure, Served, ConnStates
  <2>2. gsm48_mm_return_idle(e) = e
    BY <2>1 DEF gsm48_mm_return_idle, ReturnIdle
  <2>3. gsm48_mm_event(e, event) = e
    BY <2>1, <2>2 DEF gsm48_mm_event
  <2> QED BY <2>3 DEF SameUsers
<1>2. CASE Users(e) = {}
  <2>1. Orderly(e) /\ Idles(e, e)
    BY DEF Sure, Idles, SameUsers
  <2>2. /\ Idles(e, gsm48_mm_return_idle(e)) /\ Idles(e, gsm48_mm_loc_upd_normal(e))
        /\ \A sst \in {"NO_IMSI", "NORMAL", "LIMITED_SERVICE", "LOC_UPD_NEEDED", "NO_CELL", "PLMN_SEARCH"} :
             Idles(e, new_mm_state_idle(e, sst))
    BY <2>1, MmIdleIdles DEF SubStates, Serving
  <2>3. Idles(e, gsm48_mm_cell_selected(e))
    BY <2>2 DEF gsm48_mm_cell_selected
  <2>4. Idles(e, gsm48_mm_event(e, event))
    BY <2>1, <2>2, <2>3 DEF gsm48_mm_event
  <2> QED BY <1>2, <2>4, IdlesSure DEF Idles
<1> QED BY <1>1, <1>2

LEMMA ActiveOrWaitSure ==
  ASSUME NEW e, Sure(e), NEW d, Calm(e, d), DOMAIN d = Fields, d.mm = e.mm, d.t3210 = e.t3210,
         Users(d) \subseteq Users(e), e.mm \in UsingStates
  PROVE  LET x == ActiveOrWait(d) IN Sure(x) /\ SameUsers(d, x)
<1> DEFINE w == WaitNetworkCommand([d EXCEPT !.t3240 = TRUE])
           a == [d EXCEPT !.mm = "CONN_ACTIVE"]
           x == ActiveOrWait(d)
<1>1. /\ SameUsers(d, w) /\ Calm(d, w) /\ w.t3210 = d.t3210
      /\ SameUsers(d, a) /\ Calm(d, a) /\ a.t3210 = d.t3210
  BY MovesServe
<1>2. w.mm = "WAIT_NETWORK_CMD" /\ a.mm = "CONN_ACTIVE"
  BY DEF WaitNetworkCommand, Fields
<1>3. IF Connected(d) = {} THEN x = w ELSE x = a
  BY DEF ActiveOrWait
<1> HIDE DEF w, a, x
<1>4. /\ SameUsers(d, x) /\ Calm(e, x) /\ x.t3210 = e.t3210 /\ x.mm \in UsingStates
      /\ Connected(d) # {} => x.mm \in ConnStates
  BY <1>1, <1>2, <1>3 DEF Calm, SameRr, UsingStates, ConnStates
<1>5. Users(x) = Users(d) /\ (Users(x) # {} => Connected(d) # {})
  BY <1>4 DEF SameUsers, Users, Connected
<1>6. Orderly(x)
  BY <1>4 DEF Sure, Orderly, Calm, SameRr, Granted, Closing
<1>7. Served(x)
  BY <1>4, <1>5 DEF Sure, Served, Calm, SameRr, Granted, Tells
<1> QED BY <1>4, <1>6, <1>7 DEF Sure, x

\* Timers of mobility management.
LEMMA ServiceTimersSure ==
  ASSUME NEW e, Kept(e), Sure(e), Tuned(e) => e.cs = "CONNECTED"
  PROVE  /\ Sure(timeout_mm_t3230(e)) /\ Fair(e, timeout_mm_t3230(e))
         /\ Sure(timeout_mm_t3240(e)) /\ Fair(e, timeout_mm_t3240(e))
         /\ e.t3210 => Sure(timeout_mm_t3210(e)) /\ Fair(e, timeout_mm_t3210(e))
<1> DEFINE d == [e EXCEPT !.t3230 = FALSE]
           g == [e EXCEPT !.t3240 = FALSE]
           h == [e EXCEPT !.t3210 = FALSE]
           r == gsm48_mm_release_mm_conn(d, Pending(d), "REL_IND")
<1>1. IsFcn(d) /\ IsFcn(g) /\ IsFcn(h)
  BY Zenon DEF IsFcn
<1>2. Typed(d) /\ Same(e, d) /\ Typed(g) /\ Same(e, g) /\ Typed(h) /\ Same(e, h)
  BY DEF Kept, Good, Typed, Fields, Same
<1>3. Good(d) /\ Kept(g) /\ Kept(h) /\ DOMAIN e = Fields
  <2>1. Good(e) /\ DOMAIN e = Fields
    BY DEF Kept, Good, Typed
  <2>2. Good(d)
    BY <1>1, <1>2, <2>1, SameGood
  <2>3. Kept(g) /\ Kept(h)
    BY <1>1, <1>2, SameKept
  <2> QED BY <2>1, <2>2, <2>3
<1>4. Serves(e, d) /\ d.conn = e.conn /\ Serves(e, g)
  BY <1>3, TimersServe
<1>5. Aside(e, g) /\ Aside(e, h) /\ h.t3210 = FALSE
  BY <1>3 DEF Fields, Aside, SameUsers, SameRr
<1> HIDE DEF d, g, h
<1>6. /\ Sure(d) /\ Sure(g) /\ Sure(h) /\ Fair(e, h)
  <2>1. Sure(d) /\ Sure(g)
    BY <1>4, ServesSure
  <2>2. Sure(h)
    BY <1>5, AsideOrderly
  <2>3. Fair(e, h)
    BY <1>5, SameUsersFair DEF Aside
  <2> QED BY <2>1, <2>2, <2>3
<1>7. ASSUME e.mm \in {"WAIT_OUT_MM_CONN", "WAIT_ADD_OUT_MM_CON"}
      PROVE  Sure(timeout_mm_t3230(e)) /\ Fair(e, timeout_mm_t3230(e))
  <2>1. Serves(d, r) /\ DOMAIN r = Fields
    <3>1. Pending(d) \subseteq Connected(d)
      BY DEF Pending, Connected
    <3>2. Serves(d, r)
      BY <1>3, <3>1, ReleaseServes
    <3> QED BY <1>3, <3>2 DEF Serves, Calm, Good, Typed
  <2> HIDE DEF r
  <2>2. Serves(e, r)
    BY <1>4, <2>1, ServesTwice
  <2>3. Sure(ActiveOrWait(r)) /\ SameUsers(r, ActiveOrWait(r))
    BY <1>7, <2>1, <2>2, FairUsers, ActiveOrWaitSure DEF Serves, UsingStates
  <2>4. Fair(e, ActiveOrWait(r))
    BY <2>2, <2>3, SameUsersFair, FairTwice DEF Serves
  <2>5. timeout_mm_t3230(e) = ActiveOrWait(r)
    BY <1>7 DEF timeout_mm_t3230, gsm48_mm_timeout_mm_con, d, r
  <2> QED BY <2>3, <2>4, <2>5
<1>8. Sure(timeout_mm_t3230(e)) /\ Fair(e, timeout_mm_t3230(e))
  BY <1>4, <1>6, <1>7 DEF timeout_mm_t3230, Serves, d
<1>9. ASSUME NEW f, Kept(f), Sure(f), Users(f) = {}, Tuned(f) => f.cs = "CONNECTED"
      PROVE  LET a == gsm48_rr_abort_req(f)
             IN  /\ Sure(gsm48_mm_return_idle(a)) /\ Fair(f, gsm48_mm_return_idle(a))
                 /\ Sure(gsm48_mm_loc_upd_failed(a)) /\ Fair(f, gsm48_mm_loc_upd_failed(a))
  <2> DEFINE a == gsm48_rr_abort_req(f)
  <2>1. Sure(a) /\ Onward(f, a)
    BY <1>9, GoodQueued, AbortReqSure DEF Kept
  <2>2. Good(a)
    BY <1>9, AbortReqKept DEF Kept
  <2> HIDE DEF a
  <2>3. Users(a) = {} /\ Fair(f, a)
    BY <1>9, <2>1, OnwardUsers, OnwardFair
  <2>4. Idles(a, gsm48_mm_return_idle(a)) /\ Idles(a, gsm48_mm_loc_upd_failed(a))
    BY <2>1, <2>2, MmIdleIdles, FailedIdles DEF Sure
  <2> QED BY <2>3, <2>4, IdlesSure, IdlesFair, FairTwice DEF a
<1>10. Tuned(g) = Tuned(e) /\ g.cs = e.cs /\ Tuned(h) = Tuned(e) /\ h.cs = e.cs
       /\ Users(g) = Users(e) /\ Users(h) = Users(e)
  BY <1>5, AsideOrderly DEF Aside, SameRr, Tuned
<1>11. Sure(timeout_mm_t3240(e)) /\ Fair(e, timeout_mm_t3240(e))
  <2>1. e.mm \in {"WAIT_NETWORK_CMD", "LOC_UPD_REJ"} => Users(e) = {}
    BY DEF Sure, Served, ConnStates
  <2>2. e.mm \in {"WAIT_NETWORK_CMD", "LOC_UPD_REJ"} =>
          LET x == gsm48_mm_return_idle(gsm48_rr_abort_req(g)) IN Sure(x) /\ Fair(e, x)
    BY <1>3, <1>4, <1>6, <1>9, <1>10, <2>1, FairTwice DEF Serves
  <2> QED BY <1>4, <1>6, <2>2 DEF timeout_mm_t3240, gsm48_mm_abort_rr, Serves, g
<1>12. e.t3210 => Sure(timeout_mm_t3210(e)) /\ Fair(e, timeout_mm_t3210(e))
  <2>1. e.t3210 => Users(e) = {}
    BY DEF Sure, Served
  <2>2. e.t3210 =>
          LET x == gsm48_mm_loc_upd_failed(gsm48_rr_abort_req(h)) IN Sure(x) /\ Fair(e, x)
    BY <1>3, <1>6, <1>9, <1>10, <2>1, FairTwice
  <2> QED BY <1>6, <2>2 DEF timeout_mm_t3210, h
<1> QED BY <1>8, <1>11, <1>12

LEMMA UpdateTimersSure ==
  ASSUME NEW e, Good(e), Sure(e)
  PROVE  /\ Sure(timeout_mm_t3211(e)) /\ Fair(e, timeout_mm_t3211(e))
         /\ Sure(timeout_mm_t3212(e)) /\ Fair(e, timeout_mm_t3212(e))
<1> DEFINE d == [e EXCEPT !.t3211 = FALSE]
           l == [d EXCEPT !.lost = @ \/ e.pending]
           r == [d EXCEPT !.retry = TRUE]
           g == [e EXCEPT !.t3212 = FALSE]
           p == [g EXCEPT !.periodic = TRUE]
<1>1. IsFcn(d) /\ IsFcn(g)
  BY Zenon DEF IsFcn
<1>2. Typed(d) /\ Same(e, d) /\ Typed(g) /\ Same(e, g)
  BY DEF Good, Typed, Fields, Same
<1>3. Good(d) /\ Good(g) /\ DOMAIN e = Fields
  BY ZenonT(40), <1>1, <1>2, SameGood DEF Good, Typed
<1>4. /\ Aside(e, d) /\ d.t3210 = e.t3210 /\ Aside(e, l) /\ l.t3210 = e.t3210
      /\ Aside(e, r) /\ r.t3210 = e.t3210 /\ Aside(e, g) /\ g.t3210 = e.t3210
      /\ Aside(e, p) /\ p.t3210 = e.t3210
  BY <1>3 DEF Fields, Aside, SameUsers, SameRr
<1> HIDE DEF d, l, r, g, p
<1>5. \A x \in {d, l, r, g, p} : Sure(x) /\ Fair(e, x)
  <2>1. ASSUME NEW x, Aside(e, x), x.t3210 = e.t3210 PROVE Sure(x) /\ Fair(e, x)
    BY <2>1, AsideOrderly, SameUsersFair DEF Aside, Sure, Served
  <2> QED BY <1>4, <2>1
<1>6. Idles(d, gsm48_mm_loc_upd(d)) /\ Idles(g, gsm48_mm_loc_upd_periodic(g))
  BY <1>3, <1>5, MmIdleIdles DEF Sure
<1>7. e.mm = "IDLE" => Users(d) = {} /\ Users(g) = {}
  <2>1. e.mm = "IDLE" => Users(e) = {}
    BY DEF Sure, Served, ConnStates
  <2> QED BY <1>4, <2>1, AsideOrderly
<1>8. e.mm = "IDLE" =>
        /\ Sure(gsm48_mm_loc_upd(d)) /\ Fair(e, gsm48_mm_loc_upd(d))
        /\ Sure(gsm48_mm_loc_upd_periodic(g)) /\ Fair(e, gsm48_mm_loc_upd_periodic(g))
  BY <1>5, <1>6, <1>7, IdlesSure, IdlesFair, FairTwice
<1> QED BY <1>5, <1>8 DEF timeout_mm_t3211, timeout_mm_t3212, d, g, l, r, p

-----------------------------------------------------------------------------
\* The users ask for connections and give them back, in an idle main loop.

\* A connection that is asked for is pending, or its user is told that it ended.
AskedFor(e, d, ref) ==
  /\ e.stray \subseteq d.stray
  /\ \A r \in Refs \ {ref} : d.conn[r] = e.conn[r] /\ d.mmxx[r] = e.mmxx[r]
  /\ \/ d.conn[ref] = "PEND" /\ d.mmxx[ref] = e.mmxx[ref]
     \/ d.conn[ref] = e.conn[ref] /\ EndedIn(d, ref)

LEMMA RejectSure ==
  ASSUME NEW e, Good(e), Sure(e), NEW ref \in Refs
  PROVE  LET d == gsm48_mm_init_mm_reject(e, ref) IN Sure(d) /\ AskedFor(e, d, ref)
<1> DEFINE d == gsm48_mm_init_mm_reject(e, ref)
<1>1. d = gsm48_mmxx_upmsg(e, {ref}, "REL_IND")
  BY DEF gsm48_mm_init_mm_reject
<1>2. /\ Calm(e, d) /\ d.mm = e.mm /\ d.t3210 = e.t3210 /\ d.conn = e.conn /\ d.stray = e.stray
      /\ \A r \in Refs : IF r \in {ref} THEN EndedIn(d, r) <=> EndedIn(e, r) \/ "REL_IND" \in {"REL_IND", "ERR_IND"}
                                        ELSE d.mmxx[r] = e.mmxx[r]
  BY <1>1, MmxxUpmsgUsers DEF MmxxPrims
<1> HIDE DEF d
<1>3. Sure(d)
  BY <1>2 DEF Calm, SameRr, Sure, Orderly, Served, Users, Connected, Granted, Tells, Closing
<1>4. AskedFor(e, d, ref)
  BY <1>2 DEF AskedFor
<1> QED BY <1>3, <1>4 DEF d

LEMMA NoRrSure ==
  ASSUME NEW e, Good(e), Sure(e), ~e.plmn, e.mm = "IDLE", NEW ref \in Refs
  PROVE  LET d == gsm48_mm_init_mm_no_rr(e, ref) IN Sure(d) /\ AskedFor(e, d, ref)
<1> DEFINE p == [e EXCEPT !.conn[ref] = "PEND"]
           q == gsm48_rr_est_req(p, ref)
           strays == IF e.rel_wait \/ e.t3210 THEN q.stray \cup {ref} ELSE q.stray
           d == [q EXCEPT !.mm = "WAIT_RR_CONN_MM_CON", !.stray = strays]
<1>1. Queued(e) /\ DOMAIN e = Fields /\ DOMAIN e.conn = Refs
  BY GoodQueued DEF Good, Typed
<1>2. /\ Queued(p) /\ SameRr(e, p) /\ p.conn[ref] = "PEND" /\ p.mmxx = e.mmxx /\ p.stray = e.stray
      /\ p.t3210 = e.t3210 /\ p.plmn = e.plmn /\ p.rslq = e.rslq
      /\ \A r \in Refs \ {ref} : p.conn[r] = e.conn[r]
  BY <1>1 DEF Queued, Fields, SameRr
<1>3. gsm48_mm_init_mm_no_rr(e, ref) = d
  BY Zenon DEF gsm48_mm_init_mm_no_rr
<1> HIDE DEF p
<1>4. /\ Onward(p, q) /\ q.rel_wait = p.rel_wait
      /\ \/ Tells(q) /\ SameRr(p, q)
         \/ q.rr = "CONN_PEND" /\ q.cs = "CONNECTED" /\ q.est_req
  BY <1>2, EstReqOnward
<1> HIDE DEF q
<1>5. strays = IF e.rel_wait \/ e.t3210 THEN q.stray \cup {ref} ELSE q.stray
  OBVIOUS
<1> HIDE DEF strays
<1>6. /\ d.mm = "WAIT_RR_CONN_MM_CON" /\ d.stray = strays /\ d.conn = q.conn /\ d.mmxx = q.mmxx
      /\ SameRr(q, d) /\ d.t3210 = q.t3210 /\ d.plmn = q.plmn /\ d.rslq = q.rslq /\ d.rrq = q.rrq
  BY <1>4 DEF Onward, Queued, Fields, SameRr
<1> HIDE DEF d
<1>7. Users(d) # {} => ~e.rel_wait /\ ~e.t3210
  <2>1. Users(e) = {}
    BY DEF Sure, Served, ConnStates
  <2> QED BY <1>2, <1>4, <1>5, <1>6, <2>1 DEF Users, Connected, Onward
<1>8. Orderly(d)
  BY <1>2, <1>4, <1>6 DEF Sure, Orderly, SameRr, Onward, Closing, UsingStates
<1>9. Served(d)
  BY <1>2, <1>4, <1>6, <1>7 DEF Served, SameRr, Onward, Tells, Granted, ConnStates
<1>10. AskedFor(e, d, ref)
  BY <1>2, <1>4, <1>5, <1>6 DEF AskedFor, Onward
<1> QED BY <1>3, <1>8, <1>9, <1>10 DEF Sure

LEMMA MoreSure ==
  ASSUME NEW e, Good(e), Sure(e), e.rslq = <<>>, e.mm = "CONN_ACTIVE", NEW ref \in Refs
  PROVE  LET d == gsm48_mm_init_mm_more(e, ref) IN Sure(d) /\ AskedFor(e, d, ref)
<1> DEFINE p == [e EXCEPT !.conn[ref] = "PEND"]
           q == gsm48_rr_data_req(p, ref)
           strays == IF e.rr = "IDLE" \/ e.rel_wait \/ e.t3210 THEN q.stray \cup {ref} ELSE q.stray
           d == [q EXCEPT !.mm = "WAIT_ADD_OUT_MM_CON", !.t3230 = TRUE, !.stray = strays]
           Alone(x) == /\ DOMAIN x = Fields /\ SameRr(e, x) /\ x.conn[ref] = "PEND" /\ x.mmxx = e.mmxx
                       /\ x.t3210 = e.t3210 /\ x.plmn = e.plmn /\ x.rslq = e.rslq /\ x.rrq = e.rrq
                       /\ \A r \in Refs \ {ref} : x.conn[r] = e.conn[r]
<1>1. DOMAIN e = Fields /\ DOMAIN e.conn = Refs
  BY DEF Good, Typed
<1>2. Alone(p) /\ p.stray = e.stray
  BY <1>1 DEF Fields, SameRr
<1>3. gsm48_mm_init_mm_more(e, ref) = d
  BY Zenon DEF gsm48_mm_init_mm_more
<1> HIDE DEF p
<1>4. Alone(q) /\ q.stray = e.stray
  BY <1>2 DEF gsm48_rr_data_req, Fields, SameRr
<1> HIDE DEF q
<1>5. strays = IF e.rr = "IDLE" \/ e.rel_wait \/ e.t3210 THEN q.stray \cup {ref} ELSE q.stray
  OBVIOUS
<1> HIDE DEF strays
<1>6. Alone(d) /\ d.stray = strays /\ d.mm = "WAIT_ADD_OUT_MM_CON"
  BY <1>4 DEF Fields, SameRr
<1> HIDE DEF d
<1>7. /\ Users(d) \subseteq Users(e) \cup {ref}
      /\ ref \in Users(d) => e.rr # "IDLE" /\ ~e.rel_wait /\ ~e.t3210
  BY <1>4, <1>5, <1>6 DEF Users, Connected
<1>8. ~Closing(e)
  BY DEF Closing
<1>9. Orderly(d)
  BY <1>6 DEF Sure, Orderly, SameRr, Granted, Closing, UsingStates, ConnStates
<1>10. ASSUME Users(d) # {}
       PROVE  ~d.t3210 /\ (Tells(d) \/ (Granted(d) /\ ~d.rel_wait))
  <2>1. CASE ref \in Users(d)
    <3>1. Granted(e) /\ ~e.rel_wait /\ ~e.t3210
      BY <1>7, <1>8, <2>1 DEF Sure, Orderly, UsingStates
    <3> QED BY <1>6, <3>1 DEF SameRr, Granted
  <2>2. CASE ref \notin Users(d)
    <3>1. Users(e) # {}
      BY <1>7, <1>10, <2>2
    <3> QED BY <1>6, <3>1 DEF Sure, Served, SameRr, Granted, Tells
  <2> QED BY <2>1, <2>2
<1>11. AskedFor(e, d, ref)
  BY <1>4, <1>5, <1>6 DEF AskedFor
<1>12. Sure(d)
  BY <1>6, <1>9, <1>10 DEF Sure, Served, ConnStates
<1> QED BY <1>3, <1>11, <1>12

LEMMA MmEstReqSure ==
  ASSUME NEW e, Good(e), Sure(e), e.rslq = <<>>, ~e.plmn, NEW ref \in Refs
  PROVE  Sure(MmEstReq(e, ref)) /\ AskedFor(e, MmEstReq(e, ref), ref)
<1> DEFINE Done(x) == Sure(x) /\ AskedFor(e, x, ref)
<1>1. Done(gsm48_mm_init_mm_reject(e, ref))
  BY RejectSure
<1>2. e.mm = "IDLE" => Done(gsm48_mm_init_mm_no_rr(e, ref))
  BY NoRrSure
<1>3. e.mm = "CONN_ACTIVE" => Done(gsm48_mm_init_mm_more(e, ref))
  BY MoreSure
<1> HIDE DEF Done
<1>4. Done(MmEstReq(e, ref))
  BY <1>1, <1>2, <1>3 DEF MmEstReq
<1> QED BY <1>4 DEF Done

LEMMA MmRelReqSure ==
  ASSUME NEW e, Good(e), Sure(e), NEW ref \in Refs
  PROVE  LET d == MmRelReq(e, ref) IN
         /\ Sure(d) /\ d.mmxx = e.mmxx /\ d.stray = e.stray
         /\ \A r \in Refs \ {ref} : d.conn[r] = e.conn[r]
         /\ ref \notin e.stray => d.conn[ref] = "NONE"
<1> DEFINE f == mm_conn_free(e, ref)
           Done(x) == /\ Sure(x) /\ x.mmxx = e.mmxx /\ x.stray = e.stray
                      /\ \A r \in Refs \ {ref} : x.conn[r] = e.conn[r]
                      /\ ref \notin e.stray => x.conn[ref] = "NONE"
<1>1. DOMAIN e = Fields /\ DOMAIN e.conn = Refs
  BY DEF Good, Typed
<1>2. /\ DOMAIN f = Fields /\ Calm(e, f) /\ f.mm = e.mm /\ f.t3210 = e.t3210
      /\ f.mmxx = e.mmxx /\ f.stray = e.stray /\ f.conn[ref] = "NONE"
      /\ \A r \in Refs \ {ref} : f.conn[r] = e.conn[r]
  BY <1>1 DEF mm_conn_free, Fields, Calm, SameRr
<1> HIDE DEF f
<1>3. Users(f) \subseteq Users(e)
  BY <1>2 DEF Users, Connected
<1>4. Done(f)
  <2>1. Sure(f)
    BY <1>2, <1>3 DEF Calm, SameRr, Sure, Orderly, Served, Granted, Tells, Closing
  <2> QED BY <1>2, <2>1
<1>5. e.mm \in UsingStates => Done(ActiveOrWait(f))
  BY <1>2, <1>3, ActiveOrWaitSure DEF SameUsers
<1>6. e.mm = "WAIT_OUT_MM_CONN" => Done(gsm48_mm_release_wait_active(e, ref))
  BY <1>4, <1>5 DEF gsm48_mm_release_wait_active, ActiveOrWait, UsingStates, f
<1>7. e.mm \notin ConnStates => Done(e)
  BY DEF Sure, Served, Users, Connected
<1> HIDE DEF Done
<1>8. Done(MmRelReq(e, ref))
  BY <1>4, <1>5, <1>6, <1>7 DEF MmRelReq, UsingStates, ConnStates, f
<1> QED BY <1>8 DEF Done

-----------------------------------------------------------------------------
(* The connections and their users, step by step                            *)

\* A user that has not begun has nothing; any other counts on the connection
\* exactly as long as mobility management has it.
Agreeing(d, v) ==
  \A ref \in Refs :
    /\ v[ref] = "none" => d.mmxx[ref] = <<>> /\ d.conn[ref] = "NONE"
    /\ ref \notin d.stray => (d.conn[ref] # "NONE" <=> v[ref] \in {"asked", "open"} /\ ~EndedIn(d, ref))

\* A call that is being set up is new to its user, and a channel comes up at the
\* end of the random access.
RslExpects(d, v) ==
  d.rslq # <<>> /\ Head(d.rslq).sapi = 0 =>
    /\ Head(d.rslq).prim \in Refs => v[Head(d.rslq).prim] = "none"
    /\ Head(d.rslq).prim = "EST_CONF" => d.rr \in {"REL_PEND", "DEDICATED"} \/ ~d.access
RrExpects(d, v) ==
  d.rrq # <<>> /\ Head(d.rrq).sapi = 0 /\ Head(d.rrq).prim \in Refs => v[Head(d.rrq).prim] = "none"

\* While the users and cell selection are served, radio resources have nothing to
\* tell as long as a user has a connection.
Settled(d, t) == t \in {"mmxx", "ev"} /\ d.rrq # <<>> => Users(d) = {}

ViewState ==
  /\ Agreeing(c, view) /\ Sure(c) /\ Settled(c, turn)
  /\ RslExpects(c, view) /\ RrExpects(c, view)

LEMMA FairAgreeing ==
  ASSUME NEW e, NEW d, NEW v, Fair(e, d), Agreeing(e, v)
  PROVE  Agreeing(d, v)
BY DEF Fair, Agreeing

\* The first message of a call is the only message that bears a reference.
LEMMA OwnPrims ==
  /\ Refs \cap ({"EST_CONF", "REL_CONF", "ERROR_IND", "EST_CNF", "EST_IND", "CHAN_REL"} \cup Ends) = {}
  /\ RrPrims \cap Refs \subseteq Incoming
  /\ \A req \in Refs \cup {Lupd} : Answers(req) \cap (Refs \cup {"EST_CONF"}) = {}
  /\ Commands \cap (Refs \cup {"EST_CONF"}) = {}
BY RefAssumption DEF Ends, RrPrims, Downlink, Answers, Commands, LuRejections, CmRejections, Refs

LEMMA LinkedExpects ==
  ASSUME NEW e, NEW v, Linked(e)
  PROVE  RslExpects(e, v)
<1>1. e.rslq # <<>> => Head(e.rslq) \in RslOwn
  BY TakenLinked
<1>2. \A m \in RslOwn : m.sapi = 0 => m.prim \in {"REL_IND", "REL_CONF", "ERROR_IND"}
  BY DEF RslOwn
<1> QED BY <1>1, <1>2, OwnPrims DEF RslExpects, Ends

LEMMA KnownExpects ==
  ASSUME NEW e, NEW v, Known(e)
  PROVE  RrExpects(e, v)
<1>1. ASSUME NEW S, NEW s \in Seq(S), s # <<>> PROVE Head(s) \in S
  BY <1>1
<1>2. e.rrq # <<>> => Head(e.rrq) \in RrDown
  BY <1>1 DEF Known, Aware
<1>3. \A m \in RrDown : m.sapi = 0 => m.prim \in Ends
  BY DEF RrDown
<1> QED BY <1>2, <1>3, OwnPrims DEF RrExpects

\* Nothing of the network is under way at the turn of any queue but the first.
LEMMA TurnExpects ==
  ASSUME LinkedState', ChannelState', turn' # "rsl"
  PROVE  RslExpects(c', view') /\ RrExpects(c', view')
<1>1. Linked(c') /\ Known(c')
  BY DEF LinkedState, ChannelState, FreshRsl, FreshRr, FreshUp
<1> QED BY <1>1, LinkedExpects, KnownExpects

\* From a turn other than its own, a queue is served when the queue of radio
\* resources is empty, or from that of the users.
LEMMA ServedAfter ==
  ASSUME turn \in Turns, NEW q \in {"mmxx", "ev"}, At(q), turn # q, turn # "mmxx"
  PROVE  c.rrq = <<>>
<1> DEFINE from == CHOOSE i \in DOMAIN Order : Order[i] = turn
           to == CHOOSE i \in DOMAIN Order : Order[i] = q
           passed == IF from <= to THEN from..(to - 1) ELSE DOMAIN Order \ (to..(from - 1))
<1>1. /\ DOMAIN Order = 1..5
      /\ Order[1] = "rsl" /\ Order[2] = "rr" /\ Order[3] = "mmxx" /\ Order[4] = "ev" /\ Order[5] = "plmn"
  BY DEF Order
<1>2. \A i \in passed : ~Filled[Order[i]]
  BY Zenon DEF At
<1>3. from \in 1..5 /\ Order[from] = turn
  <2>1. \E i \in DOMAIN Order : Order[i] = turn
    BY <1>1 DEF Turns
  <2>2. from \in DOMAIN Order /\ Order[from] = turn
    BY Zenon, <2>1
  <2> HIDE DEF from
  <2> QED BY <1>1, <2>2
<1>4. to \in 3..4 /\ Order[to] = q
  <2>1. \E i \in DOMAIN Order : Order[i] = q
    BY <1>1
  <2>2. to \in DOMAIN Order /\ Order[to] = q
    BY Zenon, <2>1
  <2> HIDE DEF to
  <2> QED BY <1>1, <2>2
<1> HIDE DEF from, to
<1>5. from # to /\ from # 3
  BY <1>1, <1>3, <1>4
<1>6. 2 \in passed
  BY <1>1, <1>3, <1>4, <1>5
<1>7. ~Filled["rr"]
  BY <1>1, <1>2, <1>6
<1> QED BY <1>7 DEF Filled

LEMMA ServedSettled ==
  ASSUME IInv, ViewState, NEW q \in {"mmxx", "ev"}, At(q)
  PROVE  c.rrq = <<>> \/ Users(c) = {}
<1>1. CASE turn \in {"mmxx", "ev"}
  BY <1>1 DEF ViewState, Settled
<1>2. CASE turn \notin {"mmxx", "ev"}
  BY <1>2, ServedAfter DEF IInv
<1> QED BY <1>1, <1>2

LEMMA RslSure ==
  ASSUME NEW e, Kept(e), Sure(e), Known(e), e.rslq # <<>>,
         Head(e.rslq).sapi = 0 /\ Head(e.rslq).prim = "EST_CONF" =>
           e.rr # "IDLE" /\ (e.rr \in {"REL_PEND", "DEDICATED"} \/ ~e.access),
         Head(e.rslq).sapi = 0 => Head(e.rslq).prim \in {"EST_CONF", "REL_IND", "REL_CONF", "ERROR_IND"} \cup Downlink
  PROVE  LET d == gsm48_rcv_rll([e EXCEPT !.rslq = Tail(@)], Head(e.rslq)) IN Sure(d) /\ Fair(e, d)
<1> DEFINE t == [e EXCEPT !.rslq = Tail(@)]
           m == Head(e.rslq)
           x == gsm48_rcv_rll(t, m)
           Done(d) == Sure(d) /\ Onward(t, d)
<1>1. Queued(e)
  BY GoodQueued DEF Kept
<1>2. ASSUME NEW S, NEW s \in Seq(S), s # <<>>
      PROVE  Head(s) \in S /\ Tail(s) \in Seq(S) /\ Head(s) = s[1]
             /\ \A i \in DOMAIN s : i = 1 \/ (i - 1 \in DOMAIN Tail(s) /\ Tail(s)[i - 1] = s[i])
  BY <1>2
<1>3. /\ Tail(e.rslq) \in Seq([prim : RslPrims, sapi : {0, 3}]) /\ m = e.rslq[1]
      /\ m \in [prim : RslPrims, sapi : {0, 3}]
      /\ \A i \in DOMAIN e.rslq :
           i = 1 \/ (i - 1 \in DOMAIN Tail(e.rslq) /\ Tail(e.rslq)[i - 1] = e.rslq[i])
  BY <1>1, <1>2 DEF Queued
<1>4. /\ Queued(t) /\ t.rslq = Tail(e.rslq) /\ t.rrq = e.rrq /\ t.mm = e.mm /\ t.plmn = e.plmn
      /\ SameUsers(e, t) /\ SameRr(e, t) /\ t.t3210 = e.t3210
  BY <1>1, <1>3 DEF Queued, Fields, SameUsers, SameRr
<1> HIDE DEF t
<1>5. Served(t) /\ (t.plmn => t.mm \notin UsingStates \cup ConnStates) /\ (Tuned(t) => t.cs = "CONNECTED")
  <2>1. Users(t) = Users(e) /\ (Tells(t) <=> Tells(e)) /\ (Granted(t) <=> Granted(e))
    BY <1>4 DEF SameUsers, SameRr, Users, Connected, Tells, Granted
  <2>2. Tuned(t) => t.cs = "CONNECTED"
    BY <1>4 DEF SameRr, Tuned, Known, Aware
  <2>3. t.plmn => t.mm \notin UsingStates \cup ConnStates
    BY <1>4 DEF Sure, Orderly
  <2>4. Served(t)
    BY <1>4, <2>1 DEF Sure, Served, SameRr
  <2> QED BY <2>2, <2>3, <2>4
<1>6. m.sapi = 3 \/ m.prim # "REL_CONF" => Sure(t)
  <2>1. m.sapi = 3 \/ m.prim # "REL_CONF" => (Closing(e) => Closing(t))
    <3> HIDE DEF m
    <3> SUFFICES ASSUME m.sapi = 3 \/ m.prim # "REL_CONF", Closing(e) PROVE Closing(t)
      OBVIOUS
    <3>1. PICK i \in DOMAIN e.rslq : e.rslq[i].sapi = 0 /\ e.rslq[i].prim = "REL_CONF"
      BY DEF Closing
    <3>2. i # 1
      BY <1>3, <3>1
    <3>3. i - 1 \in DOMAIN t.rslq /\ t.rslq[i - 1] = e.rslq[i]
      BY <1>3, <1>4, <3>2
    <3> QED BY <3>1, <3>3 DEF Closing
  <2> QED BY <1>4, <1>5, <2>1 DEF Sure, Orderly, SameRr, Granted
<1> HIDE DEF m
<1>7. m.sapi \in {0, 3}
  BY <1>3
<1>8. m.sapi = 3 \/ m.prim # "REL_CONF" => Done(t)
  BY <1>4, <1>6, OnwardSelf
<1>9. ASSUME m.sapi = 3 PROVE Done(x)
  <2>1. \A d \in {gsm48_rr_estab_cnf_sapi3(t), gsm48_rr_estab_ind_sapi3(t), gsm48_rr_rel_ind_sapi3(t),
                  gsm48_rr_mdl_error_ind_sapi3(t), gsm48_rr_est_req_sapi3(t)} : Done(d)
    <3> TAKE d \in {gsm48_rr_estab_cnf_sapi3(t), gsm48_rr_estab_ind_sapi3(t), gsm48_rr_rel_ind_sapi3(t),
                  gsm48_rr_mdl_error_ind_sapi3(t), gsm48_rr_est_req_sapi3(t)}
    <3>1. Onward(t, d) /\ SameRr(t, d)
      BY <1>4, Sapi3Onward
    <3>2. Sure(t)
      BY <1>6, <1>9
    <3> HIDE DEF Done
    <3>3. d.rr = t.rr /\ d.cs = t.cs /\ d.est_req = t.est_req /\ d.rel_wait = t.rel_wait /\ d.access = t.access
      BY <3>1 DEF SameRr
    <3>4. Sure(d)
      BY ONLY <3>1, <3>2, <3>3, OnwardSure
    <3> QED BY <3>1, <3>4 DEF Done
  <2> HIDE DEF Done
  <2>2. Done(gsm48_rcv_rll(t, m))
    BY <1>8, <1>9, <2>1 DEF gsm48_rcv_rll
  <2> QED BY <2>2
<1>10. ASSUME m.sapi = 0 PROVE Done(x)
  <2>1. m.prim = "EST_CONF" => Done(gsm48_rr_estab_cnf(t))
    BY <1>4, <1>5, <1>6, <1>10, EstabCnfSure DEF SameRr, m
  <2>2. m.prim # "REL_CONF" =>
          Done(gsm48_rr_rel_ind(t)) /\ Done(gsm48_rr_mdl_error_ind(t)) /\ Done(gsm48_rr_rx_chan_rel(t))
    BY <1>4, <1>5, <1>6, RrDownSure
  <2>3. Done(gsm48_rr_rel_cnf(t))
    BY <1>4, <1>5, RelCnfSure
  <2>4. m.prim \in Downlink => Done(gsm48_rr_data_ind(t, m.prim))
    <3>1. ASSUME m.prim \in Downlink PROVE Done(gsm48_rr_upmsg(t, m.prim, 0))
      <4>1. Onward(t, gsm48_rr_upmsg(t, m.prim, 0)) /\ SameRr(t, gsm48_rr_upmsg(t, m.prim, 0))
        BY <1>4, <3>1, UpmsgOnward DEF RrPrims
      <4>2. m.prim # "REL_CONF"
        BY <3>1, RefAssumption DEF Downlink, Answers, Commands, LuRejections, CmRejections, Refs
      <4> QED BY <1>6, <4>1, <4>2, OnwardSure DEF SameRr
    <3>2. m.prim \in Downlink => m.prim # "REL_CONF"
      BY RefAssumption DEF Downlink, Answers, Commands, LuRejections, CmRejections, Refs
    <3> HIDE DEF Done
    <3> QED BY <1>8, <3>1, <3>2 DEF gsm48_rr_data_ind
  <2>5. m.prim \in {"EST_CONF", "REL_IND", "REL_CONF", "ERROR_IND"} \cup Downlink
    BY <1>10 DEF m
  <2> HIDE DEF Done
  <2>6. Done(gsm48_rcv_rll(t, m))
    BY <1>10, <2>1, <2>2, <2>3, <2>4, <2>5 DEF gsm48_rcv_rll
  <2> QED BY <2>6
<1>11. Done(x)
  <2> HIDE DEF Done, x
  <2> QED BY <1>7, <1>9, <1>10
<1>12. Fair(e, t)
  BY <1>4, SameUsersFair
<1> QED BY <1>11, <1>12, OnwardFair, FairTwice DEF t, m

LEMMA ServeRslView ==
  ASSUME IInv, ChannelState, ViewState, ServeRsl
  PROVE  ViewState'
<1> DEFINE m == Head(c.rslq)
<1>1. /\ c.rslq # <<>> /\ turn' = "rsl" /\ view' = view
      /\ c' = gsm48_rcv_rll([c EXCEPT !.rslq = Tail(@)], Head(c.rslq))
  BY DEF ServeRsl, At, Filled
<1>2. Known(c) /\ ~FreshRr
  BY <1>1 DEF ChannelState, FreshUp, FreshRr
<1>3. m.sapi = 0 => m.prim \in {"REL_IND", "REL_CONF", "ERROR_IND"} \/ FreshRsl
  <2>1. Linked(c) => m \in RslOwn
    BY <1>1, TakenLinked
  <2> HIDE DEF m
  <2> QED BY <1>2, <2>1 DEF IInv, LinkedState, RslOwn
<1>4. /\ m.sapi = 0 /\ m.prim = "EST_CONF" => c.rr # "IDLE" /\ (c.rr \in {"REL_PEND", "DEDICATED"} \/ ~c.access)
      /\ m.sapi = 0 => m.prim \in {"EST_CONF", "REL_IND", "REL_CONF", "ERROR_IND"} \cup Downlink
  BY <1>1, <1>3 DEF FreshRsl, ViewState, RslExpects
<1>5. Sure(c') /\ Fair(c, c')
  BY <1>1, <1>2, <1>4, RslSure DEF IInv, ViewState
<1>6. Agreeing(c', view')
  BY <1>1, <1>5, FairAgreeing DEF ViewState
<1>7. RslExpects(c', view')
  <2>1. Linked(c') \/ c'.rslq = <<>>
    BY ServeRslLinked DEF FreshRr
  <2> QED BY <2>1, LinkedExpects DEF RslExpects
<1>8. RrExpects(c', view')
  <2>1. CASE Known(c')
    BY <2>1, KnownExpects
  <2>2. CASE FreshUp' /\ FreshRsl /\ Head(c'.rrq).prim \in {m.prim, "EST_CNF", "EST_IND"}
    <3>1. m.prim \in Refs => view[m.prim] = "none"
      BY <1>1, <2>2 DEF FreshRsl, ViewState, RslExpects
    <3> QED BY <1>1, <2>2, <3>1, OwnPrims DEF RrExpects
  <2> QED BY <2>1, <2>2, ServeRslKnown
<1> QED BY <1>1, <1>5, <1>6, <1>7, <1>8 DEF ViewState, Settled

\* A message about the end of the channel, or about SAPI 3.
LEMMA DownServed ==
  ASSUME IInv, Known(c), ViewState, ServeRr
  PROVE  Sure(c') /\ Fair(c, c') /\ view' = view
<1> DEFINE d == [c EXCEPT !.rrq = Tail(@)]
           m == Head(c.rrq)
<1>1. /\ c.rrq # <<>> /\ Good(d)
      /\ c' = IF m.sapi = 0 THEN gsm48_rcv_rr(d, m.prim) ELSE gsm48_rcv_rr_sapi3(d, m.prim)
      /\ view' = [ref \in Refs |-> IF ref = m.prim THEN "open" ELSE view[ref]]
  BY RrTakenKept DEF ServeRr, At, Filled, Kept
<1>2. /\ d.rrq = Tail(c.rrq) /\ d.mm = c.mm /\ d.plmn = c.plmn /\ d.rslq = c.rslq
      /\ SameUsers(c, d) /\ SameRr(c, d) /\ d.t3210 = c.t3210
  BY DEF IInv, Kept, Good, Typed, Fields, SameUsers, SameRr
<1>3. ASSUME NEW s \in Seq(RrDown), s # <<>>
      PROVE  Head(s) \in RrDown /\ Head(s) = s[1]
             /\ \A i \in DOMAIN s : i = 1 \/ (i - 1 \in DOMAIN Tail(s) /\ Tail(s)[i - 1] = s[i])
  BY <1>3
<1>4. /\ m \in RrDown /\ m = c.rrq[1]
      /\ \A i \in DOMAIN c.rrq : i = 1 \/ (i - 1 \in DOMAIN Tail(c.rrq) /\ Tail(c.rrq)[i - 1] = c.rrq[i])
  BY <1>1, <1>3 DEF Known, Aware
<1> HIDE DEF d, m
<1>5. m.prim \in {"EST_CNF", "EST_IND"} \cup Ends /\ (m.sapi = 0 => m.prim \in Ends)
  BY <1>4 DEF RrDown
<1>6. view' = view
  BY <1>1, <1>5, OwnPrims DEF IInv, Views
<1>7. Orderly(d) /\ Users(d) = Users(c) /\ (Users(d) # {} => d.mm \in ConnStates)
  BY <1>2 DEF ViewState, Sure, Orderly, Served, SameUsers, SameRr, Users, Connected, Granted, Closing
<1>8. m.sapi = 0 => Sure(c') /\ Fair(d, c')
  BY <1>1, <1>5, <1>7, ReleasedSure
<1>9. m.sapi # 0 => Sure(d)
  <2>1. m.sapi # 0 => (Tells(c) => Tells(d))
    BY <1>2, <1>4 DEF Tells
  <2> QED BY <1>2, <1>7, <2>1 DEF ViewState, Sure, Served, SameRr, Granted
<1>10. m.sapi # 0 => Sure(c') /\ Fair(d, c')
  BY <1>1, <1>9, RcvSapi3Sure
<1>11. Fair(c, c')
  BY <1>2, <1>8, <1>10, SameUsersFair, FairTwice
<1> QED BY <1>6, <1>8, <1>10, <1>11

\* A message that came over the channel, or tells that it is up.
LEMMA UpServedSure ==
  ASSUME IInv, FreshUp, ViewState, ServeRr
  PROVE  Sure(c') /\ Agreeing(c', view')
<1> DEFINE d == [c EXCEPT !.rrq = Tail(@)]
           m == Head(c.rrq)
<1>1. /\ c.rrq # <<>> /\ Good(d)
      /\ m.sapi = 0 /\ c' = gsm48_rcv_rr(d, m.prim)
      /\ view' = [ref \in Refs |-> IF ref = m.prim THEN "open" ELSE view[ref]]
  BY RrTakenKept DEF ServeRr, At, Filled, Kept, FreshUp
<1>2. /\ d.rrq = Tail(c.rrq) /\ d.mm = c.mm /\ d.plmn = c.plmn /\ d.rslq = c.rslq
      /\ SameUsers(c, d) /\ SameRr(c, d) /\ d.t3210 = c.t3210
  BY DEF IInv, Kept, Good, Typed, Fields, SameUsers, SameRr
<1>3. ASSUME NEW S, NEW s \in Seq(S), s # <<>>, Tail(s) = <<>>
      PROVE  Head(s) \in S /\ \A i \in DOMAIN s : s[i] = Head(s)
  <2>1. Head(s) \in S /\ Head(s) = s[1] /\ DOMAIN s = 1..Len(s) /\ Len(s) \in Nat
    BY <1>3
  <2>2. Len(s) = 1
    <3>1. Len(s) # 0 => Len(Tail(s)) = Len(s) - 1
      BY <1>3
    <3>2. Len(s) # 0
      BY <1>3
    <3>3. Len(<<>>) = 0
      OBVIOUS
    <3>4. Len(Tail(s)) = 0
      BY Zenon, <1>3, <3>3
    <3>5. ASSUME NEW n \in Nat, NEW k, k = n - 1, k = 0 PROVE n = 1
      BY <3>5
    <3> QED BY ONLY <2>1, <3>1, <3>2, <3>4, <3>5
  <2> QED BY <2>1, <2>2
<1>4. m \in [prim : RrPrims, sapi : {0, 3}] /\ \A i \in DOMAIN c.rrq : c.rrq[i] = m
  <2>1. c.rrq \in Seq([prim : RrPrims, sapi : {0, 3}]) /\ c.rrq # <<>> /\ Tail(c.rrq) = <<>>
    BY DEF FreshUp, IInv, Kept, Good, Typed
  <2> QED BY ONLY <1>3, <2>1
<1>5. /\ m.prim \in RrPrims /\ m.prim \notin Ends /\ c.rr = "DEDICATED"
      /\ c.mm = "IDLE" => m.prim = "EST_IND"
      /\ Aware(d)
  BY <1>4 DEF FreshUp
<1> HIDE DEF d, m
<1>6. d.cs = "CONNECTED" /\ d.rr = "DEDICATED"
  BY <1>2, <1>5 DEF Aware, Tuned, SameRr
<1>7. ~d.plmn
  <2>1. ~FreshRsl
    BY DEF FreshUp, FreshRsl
  <2> QED BY <1>2, <1>5, <2>1 DEF IInv, LinkedState, FreshRr, Linked, Loose, Tuned
<1>8. ~Tells(c)
  BY <1>4, <1>5 DEF Tells
<1>9. Orderly(d) /\ Users(d) = Users(c)
  BY <1>2 DEF ViewState, Sure, Orderly, SameUsers, SameRr, Users, Connected, Granted, Closing
<1>10. Users(d) # {} => /\ d.mm \in ConnStates /\ ~d.t3210 /\ Granted(d) /\ ~d.rel_wait
  BY <1>2, <1>8, <1>9 DEF ViewState, Sure, Served, SameRr, Granted
<1>11. OnAir(d)
  BY <1>6, <1>7, <1>9, <1>10 DEF OnAir, Sure, Served
<1>12. Agreeing(d, view)
  <2>1. Fair(c, d)
    BY <1>2, SameUsersFair
  <2> QED BY <2>1, FairAgreeing DEF ViewState
<1>13. CASE m.prim \notin Incoming
  <2>1. Sure(c') /\ Fair(d, c')
    BY <1>1, <1>2, <1>5, <1>11, <1>13, UpSure
  <2>2. view' = view
    BY <1>1, <1>5, <1>13, OwnPrims DEF IInv, Views
  <2> QED BY <1>12, <2>1, <2>2, FairAgreeing
<1>14. CASE m.prim \in Incoming
  <2>1. m.prim \in Refs /\ d.mm # "IDLE"
    BY <1>2, <1>5, <1>14, OwnPrims DEF Refs
  <2>2. /\ Sure(c') /\ c'.mmxx = d.mmxx /\ d.stray \subseteq c'.stray
        /\ \A r \in Refs : c'.conn[r] = IF r = m.prim THEN "IDLE" ELSE d.conn[r]
    BY <1>1, <1>11, <1>14, <2>1, SetupTaken, SetupSure
  <2>3. view[m.prim] = "none"
    BY <1>1, <2>1 DEF ViewState, RrExpects, m
  <2>4. d.mmxx[m.prim] = <<>>
    BY <1>12, <2>1, <2>3 DEF Agreeing
  <2>5. \A r \in Refs : view'[r] = IF r = m.prim THEN "open" ELSE view[r]
    BY <1>1
  <2>6. \A r \in Refs : EndedIn(c', r) <=> EndedIn(d, r)
    BY <2>2 DEF EndedIn
  <2>7. ~EndedIn(c', m.prim)
    BY <2>2, <2>4 DEF EndedIn
  <2>8. Agreeing(c', view')
    BY <1>12, <2>1, <2>2, <2>5, <2>6, <2>7 DEF Agreeing
  <2> QED BY <2>2, <2>8
<1> QED BY <1>13, <1>14

LEMMA ServeRrView ==
  ASSUME IInv, ChannelState, ViewState, ServeRr
  PROVE  ViewState'
<1>1. turn' = "rr"
  BY DEF ServeRr
<1>2. Sure(c') /\ Agreeing(c', view')
  BY DownServed, UpServedSure, FairAgreeing DEF ChannelState, ViewState
<1>3. RslExpects(c', view') /\ RrExpects(c', view')
  BY <1>1, ServeRrLinked, ServeRrKnown, TurnExpects
<1> QED BY <1>1, <1>2, <1>3 DEF ViewState, Settled

\* The user takes what mobility management tells it.
LEMMA ServeMmxxAgreeing ==
  ASSUME IInv, ViewState, NEW ref \in Waiting,
         c' = [c EXCEPT !.mmxx[ref] = Tail(@)],
         view' = [view EXCEPT ![ref] =
                   IF @ # "gone" /\ Head(c.mmxx[ref]) = "EST_CNF" THEN "open" ELSE "gone"]
  PROVE  Agreeing(c', view')
<1> DEFINE q == c.mmxx[ref]
<1>1. ASSUME NEW s \in Seq(MmxxPrims), s # <<>>
      PROVE  /\ Head(s) \in MmxxPrims /\ Head(s) = s[1] /\ 1 \in DOMAIN s
             /\ \A i \in DOMAIN s : i = 1 \/ (i - 1 \in DOMAIN Tail(s) /\ Tail(s)[i - 1] = s[i])
             /\ \A i \in DOMAIN Tail(s) : i + 1 \in DOMAIN s /\ Tail(s)[i] = s[i + 1]
  BY <1>1
<1>2. ref \in Refs /\ q \in Seq(MmxxPrims) /\ q # <<>> /\ view \in Views
  BY DEF Waiting, IInv, Kept, Good, Typed, MmxxPrims
<1>3. /\ Head(q) \in MmxxPrims /\ Head(q) = q[1] /\ 1 \in DOMAIN q
      /\ \A i \in DOMAIN q : i = 1 \/ (i - 1 \in DOMAIN Tail(q) /\ Tail(q)[i - 1] = q[i])
      /\ \A i \in DOMAIN Tail(q) : i + 1 \in DOMAIN q /\ Tail(q)[i] = q[i + 1]
  BY <1>1, <1>2
<1>4. /\ c'.conn = c.conn /\ c'.stray = c.stray /\ c'.mmxx[ref] = Tail(q)
      /\ \A r \in Refs \ {ref} : c'.mmxx[r] = c.mmxx[r]
  BY <1>2 DEF IInv, Kept, Good, Typed, Fields
<1>5. /\ view'[ref] = IF view[ref] # "gone" /\ Head(q) = "EST_CNF" THEN "open" ELSE "gone"
      /\ \A r \in Refs \ {ref} : view'[r] = view[r]
  BY <1>2 DEF Views
<1>6. view[ref] # "none"
  BY <1>2 DEF ViewState, Agreeing
<1> HIDE DEF q
<1>7. IF Head(q) = "EST_CNF" THEN EndedIn(c', ref) <=> EndedIn(c, ref) ELSE EndedIn(c, ref)
  <2>1. CASE Head(q) = "EST_CNF"
    <3>1. ASSUME NEW i \in DOMAIN Tail(q), Tail(q)[i] \in {"REL_IND", "ERR_IND"}
          PROVE  \E j \in DOMAIN q : q[j] \in {"REL_IND", "ERR_IND"}
      BY <1>3, <3>1
    <3>2. ASSUME NEW i \in DOMAIN q, q[i] \in {"REL_IND", "ERR_IND"}
          PROVE  \E j \in DOMAIN Tail(q) : Tail(q)[j] \in {"REL_IND", "ERR_IND"}
      <4>1. i # 1
        BY <1>3, <2>1, <3>2
      <4> QED BY <1>3, <3>2, <4>1
    <3>3. EndedIn(c, ref) <=> \E j \in DOMAIN q : q[j] \in {"REL_IND", "ERR_IND"}
      BY DEF EndedIn, q
    <3>4. EndedIn(c', ref) <=> \E j \in DOMAIN Tail(q) : Tail(q)[j] \in {"REL_IND", "ERR_IND"}
      BY <1>4 DEF EndedIn
    <3> QED BY <2>1, <3>1, <3>2, <3>3, <3>4
  <2>2. CASE Head(q) # "EST_CNF"
    BY <1>3, <2>2 DEF EndedIn, MmxxPrims, q
  <2> QED BY <2>1, <2>2
<1>8. ref \notin c.stray => (c.conn[ref] # "NONE" <=> view[ref] \in {"asked", "open"} /\ ~EndedIn(c, ref))
  BY <1>2 DEF ViewState, Agreeing
<1>9. view[ref] \in {"none", "asked", "open", "gone"}
  BY <1>2 DEF Views
<1>10. /\ view'[ref] # "none"
       /\ ref \notin c'.stray => (c'.conn[ref] # "NONE" <=> view'[ref] \in {"asked", "open"} /\ ~EndedIn(c', ref))
  BY <1>4, <1>5, <1>6, <1>7, <1>8, <1>9
<1>11. \A r \in Refs \ {ref} : EndedIn(c', r) <=> EndedIn(c, r)
  BY <1>4 DEF EndedIn
<1> QED BY ZenonT(40), <1>4, <1>5, <1>10, <1>11 DEF ViewState, Agreeing

LEMMA ServeMmxxView ==
  ASSUME IInv, ChannelState, ViewState, ServeMmxx
  PROVE  ViewState'
<1>1. PICK ref \in Waiting :
        /\ c' = [c EXCEPT !.mmxx[ref] = Tail(@)]
        /\ view' = [view EXCEPT ![ref] =
                     IF @ # "gone" /\ Head(c.mmxx[ref]) = "EST_CNF" THEN "open" ELSE "gone"]
  BY DEF ServeMmxx
<1>2. Agreeing(c', view')
  BY <1>1, ServeMmxxAgreeing
<1>3. /\ c'.conn = c.conn /\ c'.stray = c.stray /\ c'.rrq = c.rrq /\ c'.rslq = c.rslq /\ SameRr(c, c')
      /\ c'.mm = c.mm /\ c'.plmn = c.plmn /\ c'.t3210 = c.t3210
  BY <1>1 DEF IInv, Kept, Good, Typed, Fields, SameRr
<1>4. Users(c') = Users(c)
  BY <1>3 DEF Users, Connected
<1>5. Sure(c')
  BY <1>3, <1>4 DEF ViewState, SameRr, Sure, Orderly, Served, Granted, Tells, Closing
<1>6. c'.rrq = <<>> \/ Users(c') = {}
  BY <1>3, <1>4, ServedSettled DEF ServeMmxx
<1>7. turn' # "rsl" /\ RslExpects(c', view') /\ RrExpects(c', view')
  BY ServeRestLinked, ServeRestKnown, TurnExpects DEF ServeMmxx
<1> QED BY <1>2, <1>5, <1>6, <1>7 DEF ViewState, Settled

LEMMA ServeEventView ==
  ASSUME IInv, ChannelState, ViewState, ServeEvent
  PROVE  ViewState'
<1> DEFINE d == [c EXCEPT !.ev = Tail(@)]
           event == Head(c.ev)
<1>1. c.ev # <<>> /\ c' = gsm48_mm_event(d, event) /\ view' = view /\ turn' = "ev" /\ At("ev")
  BY DEF ServeEvent, At, Filled
<1>2. Good(d)
  BY <1>1, EventTakenGood DEF IInv, Kept
<1>3. Known(c)
  BY <1>1, RestKnown
<1>4. Aside(c, d) /\ d.t3210 = c.t3210
  BY DEF IInv, Kept, Good, Typed, Fields, Aside, SameUsers, SameRr
<1>5. ASSUME NEW S, NEW s \in Seq(S), s # <<>> PROVE Head(s) \in S
  BY <1>5
<1>6. c.cs = "CONNECTED" => event \in OfCell
  BY <1>1, <1>3, <1>5 DEF Known, Aware
<1> HIDE DEF d, event
<1>7. Sure(d) /\ Users(d) = Users(c)
  BY <1>4, AsideOrderly DEF ViewState, Sure, Served
<1>8. ASSUME Users(c) # {} PROVE c.rrq = <<>> /\ c.cs = "CONNECTED"
  <2>1. c.rrq = <<>>
    BY <1>1, <1>8, ServedSettled
  <2>2. ~Tells(c)
    BY <2>1 DEF Tells
  <2> QED BY <1>8, <2>1, <2>2 DEF ViewState, Sure, Served, Granted
<1>9. Users(d) # {} => d.cs = "CONNECTED" /\ event # "NO_CELL_FOUND"
  BY <1>4, <1>6, <1>7, <1>8 DEF Aside, SameRr, OfCell
<1>10. Sure(c') /\ SameUsers(d, c') /\ (Users(d) # {} => c' = d)
  BY <1>1, <1>2, <1>7, <1>9, EventSure
<1>11. Agreeing(c', view')
  BY <1>1, <1>4, <1>10, SameUsersFair, FairTwice, FairAgreeing DEF Aside, ViewState
<1>12. c'.rrq = <<>> \/ Users(c') = {}
  BY <1>4, <1>7, <1>8, <1>10 DEF Aside, SameUsers, Users, Connected
<1>13. RslExpects(c', view') /\ RrExpects(c', view')
  BY <1>1, ServeRestLinked, ServeRestKnown, TurnExpects
<1> QED BY <1>10, <1>11, <1>12, <1>13 DEF ViewState, Settled

LEMMA ServePlmnView ==
  ASSUME IInv, ChannelState, ViewState, ServePlmn
  PROVE  ViewState'
<1>1. c.plmn /\ turn' = "plmn" /\ view' = view
      /\ \E cs \in {c.cs, "CHOOSING"} : c' = [c EXCEPT !.plmn = FALSE, !.cs = cs]
  BY DEF ServePlmn, At, Filled
<1>2. SameUsers(c, c') /\ c'.mm = c.mm /\ c'.rr = c.rr /\ c'.access = c.access /\ c'.rel_wait = c.rel_wait
      /\ c'.rslq = c.rslq /\ c'.plmn = FALSE
  BY <1>1 DEF IInv, Kept, Good, Typed, Fields, SameUsers
<1>3. Users(c) = {} /\ c.mm \notin UsingStates
  BY <1>1 DEF ViewState, Sure, Orderly, Served
<1>4. Users(c') = {}
  BY <1>2, <1>3 DEF SameUsers, Users, Connected
<1>5. Sure(c')
  BY <1>2, <1>3, <1>4 DEF ViewState, Sure, Orderly, Served, Closing
<1>6. Agreeing(c', view')
  BY <1>1, <1>2, SameUsersFair, FairAgreeing DEF ViewState
<1>7. RslExpects(c', view') /\ RrExpects(c', view')
  BY <1>1, ServeRestLinked, ServeRestKnown, TurnExpects
<1> QED BY <1>1, <1>5, <1>6, <1>7 DEF ViewState, Settled

\* What holds when the queues are empty.
LEMMA QuietView ==
  ASSUME IInv, ChannelState, ViewState, Quiet
  PROVE  /\ Kept(c) /\ Good(c) /\ Queued(c) /\ Known(c) /\ Sure(c) /\ Agreeing(c, view)
         /\ c.rslq = <<>> /\ c.rrq = <<>> /\ c.ev = <<>> /\ ~c.plmn
         /\ Tuned(c) => c.cs = "CONNECTED"
         /\ ~Tells(c) /\ ~Closing(c)
         /\ c.cs # "CONNECTED" => Users(c) = {}
         /\ \A ref \in Refs : c.mmxx[ref] = <<>>
<1>1. Kept(c) /\ Good(c) /\ Queued(c) /\ Known(c) /\ Sure(c) /\ Agreeing(c, view) /\ c.ev = <<>>
  BY QuietKnown, GoodQueued DEF Kept, ViewState
<1>2. c.rslq = <<>> /\ c.rrq = <<>> /\ ~c.plmn
  BY QuietLinked
<1>3. ~Tells(c) /\ ~Closing(c)
  BY <1>2 DEF Tells, Closing
<1>4. c.cs # "CONNECTED" => Users(c) = {}
  BY <1>1, <1>3 DEF Sure, Served, Granted
<1>5. ~Filled["mmxx"]
  BY DEF Quiet, Filled
<1>6. \A ref \in Refs : c.mmxx[ref] = <<>>
  BY <1>5 DEF Filled, Waiting
<1> QED BY <1>1, <1>2, <1>3, <1>4, <1>6 DEF Known, Aware

\* An event that brings no message of the network.
LEMMA EventView ==
  ASSUME Sure(c'), Agreeing(c', view'), turn' = "rsl", Linked(c'), Known(c')
  PROVE  ViewState'
<1>1. RslExpects(c', view') /\ RrExpects(c', view')
  BY LinkedExpects, KnownExpects
<1> QED BY <1>1 DEF ViewState, Settled

\* An event that is a message of layer 2.
LEMMA SentView ==
  ASSUME IInv, ChannelState, ViewState, Quiet,
         NEW d, Onward(c, d), SameRr(c, d), d.rslq = <<>>, d.rrq = <<>>,
         NEW p \in RslPrims, NEW s \in {0, 3}, c' = RslUp(d, p, s), view' = view, turn' = "rsl",
         s = 0 => /\ p \in Refs => view[p] = "none"
                  /\ p = "EST_CONF" => c.rr \in {"REL_PEND", "DEDICATED"} \/ ~c.access
  PROVE  ViewState'
<1> DEFINE n == [prim |-> p, sapi |-> s]
           x == RslUp(d, p, s)
<1>1. Sure(c) /\ Agreeing(c, view)
  BY DEF ViewState
<1>2. Onward(d, x) /\ SameRr(d, x)
  BY RslUpOnward DEF Onward
<1>3. x.rslq = <<n>> /\ x.rrq = <<>>
  BY DEF RslUp, Onward, Queued, Fields
<1> HIDE DEF x
<1>4. Onward(c, x) /\ SameRr(c, x)
  BY <1>2, OnwardTwice
<1>5. Sure(x)
  BY <1>1, <1>4, OnwardSure DEF SameRr
<1>6. Agreeing(x, view)
  BY <1>1, <1>4, OnwardFair, FairAgreeing
<1>7. Head(x.rslq) = n /\ n.prim = p /\ n.sapi = s
  BY <1>3
<1>8. RslExpects(x, view) /\ RrExpects(x, view)
  BY <1>3, <1>4, <1>7 DEF RslExpects, RrExpects, SameRr
<1>9. c' = x
  BY DEF x
<1> QED BY <1>5, <1>6, <1>8, <1>9 DEF ViewState, Settled

LEMMA UsersView ==
  ASSUME IInv, ChannelState, ViewState, NEW ref \in Refs, Request(ref) \/ Release(ref)
  PROVE  ViewState'
<1>1. Quiet /\ turn' = "rsl" /\ view \in Views
  BY DEF Request, Release, Event, IInv
<1>2. /\ Good(c) /\ Sure(c) /\ Agreeing(c, view) /\ Known(c) /\ c.rslq = <<>> /\ ~c.plmn
      /\ \A r \in Refs : c.mmxx[r] = <<>>
  BY <1>1, QuietView
<1>3. \A r \in Refs : ~EndedIn(c, r)
  BY <1>2 DEF EndedIn
<1>4. CASE Request(ref)
  <2>1. c' = MmEstReq(c, ref) /\ view[ref] = "none"
        /\ \A r \in Refs : view'[r] = IF r = ref THEN "asked" ELSE view[r]
    BY <1>1, <1>4 DEF Request, Event, Views
  <2>2. Sure(c') /\ AskedFor(c, c', ref)
    BY <1>2, <2>1, MmEstReqSure
  <2>3. \A r \in Refs : c'.mmxx[r] = c.mmxx[r] => (EndedIn(c', r) <=> EndedIn(c, r))
    BY DEF EndedIn
  <2>4. Agreeing(c', view')
    BY <1>2, <1>3, <2>1, <2>2, <2>3 DEF AskedFor, Agreeing
  <2>5. Linked(c') /\ Known(c')
    BY <1>2, <1>4, <2>1, RequestLinked, MmEstReqKnown
  <2> QED BY <1>1, <2>2, <2>4, <2>5, EventView
<1>5. CASE Release(ref)
  <2>1. c' = MmRelReq(c, ref)
        /\ \A r \in Refs : view'[r] = IF r = ref THEN "gone" ELSE view[r]
    BY <1>1, <1>5 DEF Release, Event, Views
  <2>2. /\ Sure(c') /\ c'.mmxx = c.mmxx /\ c'.stray = c.stray
        /\ \A r \in Refs \ {ref} : c'.conn[r] = c.conn[r]
        /\ ref \notin c.stray => c'.conn[ref] = "NONE"
    BY <1>2, <2>1, MmRelReqSure
  <2>3. \A r \in Refs : EndedIn(c', r) <=> EndedIn(c, r)
    BY <2>2 DEF EndedIn
  <2>4. Agreeing(c', view')
    BY <1>2, <2>1, <2>2, <2>3 DEF Agreeing
  <2>5. Linked(c') /\ Known(c')
    BY <1>2, <1>5, <2>1, RequestLinked, MmRelReqKnown
  <2> QED BY <1>1, <2>2, <2>4, <2>5, EventView
<1> QED BY <1>4, <1>5

\* The network and layer 2
LEMMA CommandView ==
  ASSUME IInv, ChannelState, ViewState, UNCHANGED view,
         NEW p \in RslPrims, Command(p), p \in Refs => view[p] = "none", p # "EST_CONF"
  PROVE  ViewState'
<1>1. Quiet /\ turn' = "rsl" /\ c' = RslUp(c, p, 0)
  BY DEF Command, Event
<1>2. Onward(c, c) /\ SameRr(c, c) /\ c.rslq = <<>> /\ c.rrq = <<>>
  BY <1>1, QuietView, OnwardSelf
<1> QED BY <1>1, <1>2, SentView

LEMMA AnswerView ==
  ASSUME IInv, ChannelState, ViewState, UNCHANGED view, NEW p, Answer(p)
  PROVE  ViewState'
<1>1. PICK req \in c.net :
        p \in Answers(req) /\ Quiet /\ turn' = "rsl" /\ c' = RslUp([c EXCEPT !.net = @ \ {req}], p, 0)
  BY DEF Answer, Event
<1> DEFINE d == [c EXCEPT !.net = @ \ {req}]
<1>2. Queued(c) /\ c.rslq = <<>> /\ c.rrq = <<>>
  BY <1>1, QuietView
<1>3. Onward(c, d) /\ SameRr(c, d) /\ d.rslq = <<>> /\ d.rrq = <<>>
  BY ZenonT(40), <1>2 DEF Queued, Fields, Onward, SameRr, Tells, Closing
<1> HIDE DEF d
<1>4. req \in Refs \cup {Lupd}
  BY DEF IInv, Kept, Good, Typed
<1>5. p \in RslPrims /\ p \notin Refs /\ p # "EST_CONF"
  BY <1>1, <1>4, OwnPrims DEF RslPrims, Downlink
<1> QED BY <1>1, <1>3, <1>5, SentView DEF d

LEMMA LinkView ==
  ASSUME IInv, ChannelState, ViewState, UNCHANGED view,
         LinkUp \/ LinkReleased \/ LinkFails \/ (\E sapi \in {0, 3} : LinkError(sapi))
  PROVE  ViewState'
<1>1. Quiet /\ turn' = "rsl"
  BY DEF LinkUp, LinkReleased, LinkFails, LinkError, Event
<1>2. Queued(c) /\ c.rslq = <<>> /\ c.rrq = <<>>
  BY <1>1, QuietView
<1>3. {"EST_CONF", "REL_IND", "REL_CONF", "ERROR_IND"} \subseteq RslPrims
      /\ {"EST_CONF", "REL_IND", "REL_CONF", "ERROR_IND"} \cap Refs = {}
  BY OwnPrims DEF RslPrims, Ends
<1>4. CASE LinkUp
  <2> DEFINE d == [c EXCEPT !.dl = "EST", !.net = {c.sabm} \ {None}, !.sabm = None]
  <2>1. c' = RslUp(d, "EST_CONF", 0) /\ (c.rr \in {"REL_PEND", "DEDICATED"} \/ ~c.access)
    BY <1>4 DEF LinkUp, Event, OnChannel
  <2>2. Onward(c, d) /\ SameRr(c, d) /\ d.rslq = <<>> /\ d.rrq = <<>>
    BY ZenonT(40), <1>2 DEF Queued, Fields, Onward, SameRr, Tells, Closing
  <2> HIDE DEF d
  <2> QED BY <1>1, <1>3, <2>1, <2>2, SentView
<1>5. CASE LinkReleased \/ LinkFails
  <2>1. c' = RslUp(LinkDown(c), "REL_IND", 0) \/ c' = RslUp(LinkDown(c), "REL_CONF", 0)
    BY <1>5 DEF LinkReleased, LinkFails, Event
  <2>2. Onward(c, LinkDown(c)) /\ SameRr(c, LinkDown(c))
    BY <1>2, LinkDownOnward
  <2>3. LinkDown(c).rslq = <<>> /\ LinkDown(c).rrq = <<>>
    BY <1>2 DEF LinkDown, Queued, Fields
  <2> QED BY <1>1, <1>3, <2>1, <2>2, <2>3, SentView
<1>6. CASE \E sapi \in {0, 3} : LinkError(sapi)
  <2>1. \E sapi \in {0, 3} : c' = RslUp(c, "ERROR_IND", sapi)
    BY <1>6 DEF LinkError, Event
  <2>2. Onward(c, c) /\ SameRr(c, c)
    BY <1>2, OnwardSelf
  <2> QED BY <1>1, <1>2, <1>3, <2>1, <2>2, SentView
<1> QED BY <1>4, <1>5, <1>6

LEMMA Link3View ==
  ASSUME IInv, ChannelState, ViewState, UNCHANGED view,
         Link3Up \/ Link3Established \/ Link3Released \/ Link3Fails
  PROVE  ViewState'
<1> DEFINE d == [c EXCEPT !.dl3 = "EST"]
           g == [c EXCEPT !.dl3 = "IDLE"]
<1>1. /\ Quiet /\ turn' = "rsl"
      /\ \E p \in {"EST_CONF", "EST_IND", "REL_IND"} : c' = RslUp(d, p, 3) \/ c' = RslUp(g, p, 3)
  BY DEF Link3Up, Link3Established, Link3Released, Link3Fails, Event
<1>2. Queued(c) /\ c.rslq = <<>> /\ c.rrq = <<>>
  BY <1>1, QuietView
<1>3. /\ Onward(c, d) /\ SameRr(c, d) /\ d.rslq = <<>> /\ d.rrq = <<>>
      /\ Onward(c, g) /\ SameRr(c, g) /\ g.rslq = <<>> /\ g.rrq = <<>>
  BY ZenonT(40), <1>2 DEF Queued, Fields, Onward, SameRr, Tells, Closing
<1> HIDE DEF d, g
<1>4. {"EST_CONF", "EST_IND", "REL_IND"} \subseteq RslPrims
  BY DEF RslPrims
<1> QED BY <1>1, <1>3, <1>4, SentView

LEMMA AccessView ==
  ASSUME IInv, ChannelState, ViewState, UNCHANGED view, Page \/ Assign \/ AssignReject
  PROVE  ViewState'
<1>1. Quiet /\ turn' = "rsl"
  BY DEF Page, Assign, AssignReject, Event
<1>2. /\ Queued(c) /\ Known(c) /\ Sure(c) /\ Agreeing(c, view) /\ c.ev = <<>> /\ ~c.plmn
      /\ ~Tells(c) /\ (c.cs # "CONNECTED" => Users(c) = {})
  BY <1>1, QuietView
<1>3. Linked(c') /\ Known(c')
  <2>1. Linked(c) /\ Known(c')
    BY <1>1, QuietLinked, NetworkKnown DEF Network
  <2> QED BY <1>1, <2>1, QuietLinked, ChanReqLinked, RrUpLinked DEF Page, Assign, AssignReject, Event, Linked
<1>4. Sure(c') /\ Onward(c, c')
  <2>1. CASE Page
    <3> DEFINE d == gsm48_rr_chan_req(c, FALSE)
    <3>1. c' = d /\ c.cs = "CAMPED"
      BY <2>1 DEF Page, Event
    <3>2. Onward(c, d) /\ d.rr = "CONN_PEND"
      BY <1>2, ChanReqOnward
    <3> HIDE DEF d
    <3>3. c.mm \notin UsingStates /\ Users(c) = {}
      BY <1>2, <3>1 DEF Known, Heard
    <3>4. Users(d) = {}
      BY <3>2, <3>3, OnwardUsers
    <3>5. Sure(d)
      BY <1>2, <3>2, <3>3, <3>4 DEF Sure, Orderly, Served, Onward
    <3> QED BY <3>1, <3>2, <3>5
  <2>2. CASE Assign \/ AssignReject
    BY <1>2, <2>2, ImmAssSure DEF Assign, AssignReject, Event
  <2> QED BY <2>1, <2>2
<1>5. Agreeing(c', view')
  BY <1>2, <1>4, OnwardFair, FairAgreeing
<1> QED BY <1>1, <1>3, <1>4, <1>5, EventView

LEMMA NetworkView ==
  ASSUME IInv, ChannelState, ViewState, Network, UNCHANGED view
  PROVE  ViewState'
<1>1. CASE Page \/ Assign \/ AssignReject
  BY <1>1, AccessView
<1>2. CASE \E prim \in Said : Answer(prim) \/ (prim \in Commands /\ Command(prim))
  <2>1. Commands \subseteq RslPrims /\ Commands \cap (Refs \cup {"EST_CONF"}) = {}
    BY CommandPrims, OwnPrims
  <2> QED BY <1>2, <2>1, AnswerView, CommandView
<1>3. CASE LinkUp \/ LinkReleased \/ (\E sapi \in {0, 3} : LinkError(sapi))
  BY <1>3, LinkView
<1>4. CASE Link3Up \/ Link3Established \/ Link3Released
  BY <1>4, Link3View
<1> QED BY Zenon, <1>1, <1>2, <1>3, <1>4 DEF Network

LEMMA TimerView ==
  ASSUME IInv, ChannelState, ViewState, Timer \/ LossOfSignal, UNCHANGED view
  PROVE  ViewState'
<1> DEFINE d == [c EXCEPT !.t3122 = FALSE]
           Done(x) == Sure(x) /\ Fair(c, x)
<1>1. Quiet /\ turn' = "rsl"
  BY DEF Timer, LossOfSignal, Event, T3122Expires, T3126Expires, T3110Expires, RelWaitExpires,
         T3210Expires, T3211Expires, T3212Expires, T3230Expires, T3240Expires
<1>2. /\ Kept(c) /\ Good(c) /\ Queued(c) /\ Sure(c) /\ Agreeing(c, view)
      /\ c.rslq = <<>> /\ c.rrq = <<>> /\ (Tuned(c) => c.cs = "CONNECTED")
  BY <1>1, QuietView
<1>3. Done(d)
  <2>1. Onward(c, d) /\ SameRr(c, d)
    BY ZenonT(40), <1>2 DEF Queued, Fields, Onward, SameRr, Tells, Closing
  <2> QED BY <1>2, <2>1, OnwardSure, OnwardFair DEF SameRr
<1>4. /\ c.access => Done(timeout_rr_t3126(c))
      /\ Done(timeout_rr_t3110(c)) /\ Done(gsm48_rr_los(c))
      /\ c.rel_wait => Done(timeout_rr_t_rel_wait(c))
  BY <1>2, RrTimersSure, OnwardFair
<1>5. /\ Done(timeout_mm_t3230(c)) /\ Done(timeout_mm_t3240(c))
      /\ c.t3210 => Done(timeout_mm_t3210(c))
  BY <1>2, ServiceTimersSure
<1>6. Done(timeout_mm_t3211(c)) /\ Done(timeout_mm_t3212(c))
  BY <1>2, UpdateTimersSure
<1> HIDE DEF Done
<1>7. Done(c')
  BY <1>3, <1>4, <1>5, <1>6
     DEF Timer, LossOfSignal, Event, T3122Expires, T3126Expires, T3110Expires, RelWaitExpires,
         T3210Expires, T3211Expires, T3212Expires, T3230Expires, T3240Expires
<1>8. Sure(c') /\ Agreeing(c', view')
  BY <1>2, <1>7, FairAgreeing DEF Done
<1> QED BY <1>1, <1>8, TimerLinked, TimerKnown, EventView

LEMMA CellView ==
  ASSUME IInv, ChannelState, ViewState, UNCHANGED view,
         (\E area \in Areas : SelectCell(area)) \/ NoCell \/ Reselect \/ AnySearch
  PROVE  ViewState'
<1>1. Quiet /\ turn' = "rsl" /\ c.cs # "CONNECTED"
  BY DEF SelectCell, NoCell, Reselect, AnySearch, Event
<1>2. DOMAIN c = Fields /\ Sure(c) /\ Agreeing(c, view) /\ ~c.plmn /\ ~Closing(c) /\ Users(c) = {}
  BY <1>1, QuietView DEF Queued
<1>3. /\ SameUsers(c, c') /\ c'.mm = c.mm /\ c'.rr = c.rr /\ c'.access = c.access
      /\ c'.rel_wait = c.rel_wait /\ c'.plmn = c.plmn
  <2>1. CASE \E area \in Areas : SelectCell(area)
    <3>1. \E area \in Areas, camp \in {"CAMPED", "ANY"} :
            c' = [c EXCEPT !.cs = camp, !.la = area, !.ev = Append(@, "CELL_SELECTED")]
      BY <2>1 DEF SelectCell, Event
    <3> QED BY <1>2, <3>1 DEF Fields, SameUsers
  <2>2. CASE NoCell \/ Reselect
    <3>1. \E cs, ev : c' = [c EXCEPT !.cs = cs, !.ev = ev]
      BY <2>2 DEF NoCell, Reselect, Event
    <3> QED BY <1>2, <3>1 DEF Fields, SameUsers
  <2>3. CASE AnySearch
    <3>1. c' = [c EXCEPT !.cs = "CHOOSING"]
      BY <2>3 DEF AnySearch, Event
    <3> QED BY <1>2, <3>1 DEF Fields, SameUsers
  <2> QED BY <2>1, <2>2, <2>3
<1>4. c.mm \in UsingStates => c.rr = "IDLE"
  BY <1>1, <1>2 DEF Sure, Orderly, Granted
<1>5. Users(c') = {}
  BY <1>2, <1>3 DEF SameUsers, Users, Connected
<1>6. Sure(c')
  BY <1>2, <1>3, <1>4, <1>5 DEF Sure, Orderly, Served
<1>7. Agreeing(c', view')
  BY <1>2, <1>3, SameUsersFair, FairAgreeing
<1> QED BY <1>1, <1>6, <1>7, CellLinked, CellKnown, EventView

LEMMA ViewStepwise == IInv /\ ChannelState /\ ViewState /\ [Next]_vars => ViewState'
<1> SUFFICES ASSUME IInv, ChannelState, ViewState, [Next]_vars PROVE ViewState'
  OBVIOUS
<1>1. CASE MobileWork
  BY <1>1, ServeRslView, ServeRrView, ServeMmxxView, ServeEventView, ServePlmnView DEF MobileWork
<1>2. CASE \E ref \in Refs : Request(ref) \/ Release(ref)
  BY <1>2, UsersView
<1>3. CASE \E ref \in Incoming : Setup(ref) /\ UNCHANGED view
  <2>1. PICK ref \in Incoming : Setup(ref) /\ UNCHANGED view
    BY <1>3
  <2>2. ref \in Refs /\ ref \in RslPrims /\ ref # "EST_CONF"
    BY CommandPrims, OwnPrims DEF Refs
  <2> QED BY <2>1, <2>2, CommandView DEF Setup
<1>4. CASE Network /\ UNCHANGED view
  BY <1>4, NetworkView
<1>5. CASE (LinkFails \/ Link3Fails \/ LossOfSignal \/ Timer) /\ UNCHANGED view
  BY <1>5, LinkView, Link3View, TimerView
<1>6. CASE ((\E area \in Areas : SelectCell(area)) \/ NoCell \/ Reselect \/ AnySearch) /\ UNCHANGED view
  BY <1>6, CellView
<1>7. CASE UNCHANGED vars
  BY <1>7 DEF vars, ViewState
<1> QED BY <1>1, <1>2, <1>3, <1>4, <1>5, <1>6, <1>7 DEF Next

LEMMA ViewInitially == Init => ViewState
<1> SUFFICES ASSUME Init PROVE ViewState
  OBVIOUS
<1>1. /\ c.rr = "IDLE" /\ c.access = FALSE /\ c.plmn = FALSE /\ c.mm = "IDLE"
      /\ c.rslq = <<>> /\ c.rrq = <<>> /\ c.mmxx = [ref \in Refs |-> <<>>]
      /\ c.conn = [ref \in Refs |-> "NONE"] /\ c.stray = {}
      /\ view = [ref \in Refs |-> "none"] /\ turn = "rsl"
  BY DEF Init
<1>2. Users(c) = {}
  BY <1>1 DEF Users, Connected
<1>3. Sure(c)
  BY <1>1, <1>2 DEF Sure, Orderly, Served, UsingStates, ConnStates
<1>4. Agreeing(c, view)
  BY <1>1 DEF Agreeing
<1> QED BY <1>1, <1>3, <1>4 DEF ViewState, Settled, RslExpects, RrExpects

\* Both sides of the MM service agree (gsm48_mm.c against its users): mobility
\* management has a connection exactly as long as its user counts on it and no
\* indication of its end is under way, for any number of calls, messages and areas,
\* whatever the network, layer 2, the timers and cell selection do.
THEOREM ViewAlwaysKept == Spec => []ViewKept
<1>1. ViewState => ViewKept
  BY DEF ViewState, Agreeing, EndedIn, ViewKept, Ended
<1>2. IInv /\ ChannelState /\ [Next]_vars => ChannelState'
  BY KnownStepwise
<1>3. IInv /\ ChannelState /\ ViewState /\ [Next]_vars => ViewState'
  BY ViewStepwise
<1>4. Init => ChannelState /\ ViewState
  BY KnownInitially, ViewInitially
<1> QED BY <1>1, <1>2, <1>3, <1>4, ConnInvariant, PTL DEF Spec
=============================================================================
