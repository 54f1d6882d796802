--------------------------- MODULE MmUpdateProofs ---------------------------
(***************************************************************************)
(* Proofs about MmConn, continued: that a location update that is pending  *)
(* is under way or will be tried again, for any calls, messages, areas and *)
(* networks.                                                               *)
(*                                                                         *)
(* An update that no retry guards is under way in a state that the end of  *)
(* the channel takes mobility management out of, with a retry timer        *)
(* started on the way.  So it is followed from the request to radio        *)
(* resources to the end of the channel, or to the cell that is reported    *)
(* after it: first through the operators of Gsm48Rr, then through those of *)
(* Gsm48Mm, and in the end step by step.                                   *)
(***************************************************************************)
EXTENDS MmProofs

\* Nothing but the state of MM says that the update will end or be tried again.
Open(d) == d.pending /\ ~d.lost /\ ~d.t3211 /\ ~d.retry

\* A data link that is down has no request, and that of an update no other one.
Neat(d) == d.dl = "IDLE" => d.net = {} /\ d.sabm = None
Alone(d) == d.net \subseteq {Lupd} /\ d.sabm \in {None, Lupd} /\ d.est_msg \in {None, Lupd}

\* The update was begun on a cell, and returns to it.
OnCell(d) == d.cs = "CAMPED" \/ (d.cs = "CONNECTED" /\ d.lupd /\ d.rr # "IDLE")

\* MM will hear of the end of the channel, or starts T3211 when it hears of the cell,
\* or has or awaits a channel.
Told(d) == Tells(d) \/ (d.start_t3211 /\ (d.cs = "CONNECTED" \/ d.ev # <<>>))
Awaits(d) == Granted(d) /\ ~d.rel_wait /\ (d.rr = "CONN_PEND" => d.mm # "LOC_UPD_REJ")

Begun(d) ==
  Open(d) => /\ d.mm \in UpdateStates /\ ~d.plmn /\ OnCell(d)
             /\ d.cs = "CONNECTED" => Alone(d)
Tended(d) == Neat(d) /\ Begun(d)
Followed(d) == Tended(d) /\ (Open(d) => Told(d) \/ Awaits(d))

\* One cell is reported at a time, after the channel has been given back.
OneCell(d) == Len(d.ev) <= 1 /\ (d.ev # <<>> => d.rr = "IDLE")

\* What radio resources do, short of returning to idle, leaves the update alone.
SameUpdate(e, d) ==
  /\ d.pending = e.pending /\ d.lost = e.lost /\ d.t3211 = e.t3211 /\ d.retry = e.retry
  /\ d.start_t3211 = e.start_t3211 /\ d.lupd = e.lupd /\ d.ev = e.ev
Beside(e, d) ==
  /\ Onward(e, d) /\ SameUpdate(e, d)
  /\ (Neat(e) => Neat(d)) /\ (Alone(e) => Alone(d))

LEMMA ShutFollowed ==
  ASSUME NEW d, Neat(d), ~Open(d)
  PROVE  Followed(d)
BY DEF Followed, Tended, Begun

LEMMA BesideTwice ==
  ASSUME NEW e, NEW d, NEW f, Beside(e, d), Beside(d, f)
  PROVE  Beside(e, f) /\ (SameRr(e, d) /\ SameRr(d, f) => SameRr(e, f))
BY OnwardTwice DEF Beside, SameUpdate

LEMMA BesideSelf ==
  ASSUME NEW e, Queued(e)
  PROVE  Beside(e, e) /\ SameRr(e, e)
BY OnwardSelf DEF Beside, SameUpdate

\* The channel stays as it is, or as far as MM sees it.
LEMMA BesideFollowed ==
  ASSUME NEW e, NEW d, Beside(e, d), d.cs = e.cs,
         (d.rr = e.rr /\ d.est_req = e.est_req) \/ d.rr \in {"REL_PEND", "DEDICATED"}
  PROVE  /\ Tended(e) => Tended(d)
         /\ Followed(e) /\ (d.rel_wait = e.rel_wait \/ Tells(d)) => Followed(d)
         /\ OneCell(e) /\ (d.rr # "IDLE" => e.rr # "IDLE" \/ e.ev = <<>>) => OneCell(d)
<1>1. Open(d) = Open(e) /\ (Told(e) => Told(d)) /\ (OnCell(e) => OnCell(d))
  BY DEF Beside, SameUpdate, Onward, Open, Told, OnCell
<1>2. Tended(e) => Tended(d)
  BY <1>1 DEF Tended, Begun, Beside, Onward
<1>3. Awaits(e) /\ d.rel_wait = e.rel_wait => Awaits(d)
  BY DEF Awaits, Granted, Beside, Onward
<1>4. Tells(d) => Told(d)
  BY DEF Told
<1>5. OneCell(e) /\ (d.rr # "IDLE" => e.rr # "IDLE" \/ e.ev = <<>>) => OneCell(d)
  BY DEF OneCell, Beside, SameUpdate
<1> QED BY <1>1, <1>2, <1>3, <1>4, <1>5 DEF Followed

LEMMA RslUpBeside ==
  ASSUME NEW e, Queued(e), NEW p \in RslPrims, NEW s \in {0, 3}
  PROVE  Beside(e, RslUp(e, p, s))
<1>1. Onward(e, RslUp(e, p, s))
  BY RslUpOnward
<1>2. DOMAIN e = Fields
  BY DEF Queued
<1> QED BY <1>1, <1>2 DEF Fields, RslUp, Beside, SameUpdate, Neat, Alone

LEMMA UpmsgBeside ==
  ASSUME NEW e, Queued(e), NEW p \in RrPrims, NEW s \in {0, 3}
  PROVE  Beside(e, gsm48_rr_upmsg(e, p, s))
<1>1. Onward(e, gsm48_rr_upmsg(e, p, s))
  BY UpmsgOnward
<1>2. DOMAIN e = Fields
  BY DEF Queued
<1> QED BY <1>1, <1>2 DEF Fields, gsm48_rr_upmsg, Beside, SameUpdate, Neat, Alone

\* Timers, the random access and the link of SAPI 3.
LEMMA TimerBeside ==
  ASSUME NEW e, Queued(e), NEW v, NEW w
  PROVE  /\ Beside(e, [e EXCEPT !.t3110 = v]) /\ Beside(e, [e EXCEPT !.t3122 = v])
         /\ Beside(e, [e EXCEPT !.access = v]) /\ Beside(e, [e EXCEPT !.rel_wait = v])
         /\ Beside(e, [e EXCEPT !.dl3 = v]) /\ Beside(e, [e EXCEPT !.s3 = v])
         /\ Beside(e, [e EXCEPT !.s3 = v, !.dl3 = w])
<1>1. DOMAIN e = Fields
  BY DEF Queued
<1> QED BY <1>1 DEF Fields, Queued, Onward, Tells, Closing, Beside, SameUpdate, Neat, Alone

\* What is asked of the data link.
LEMMA LinkDownBeside ==
  ASSUME NEW e, Queued(e)
  PROVE  /\ Beside(e, LinkDown(e)) /\ Beside(e, DlEstReq(e))
         /\ \A local \in BOOLEAN : Beside(e, DlRelReq(e, local))
<1> DEFINE d == [e EXCEPT !.dl = "DISC_SENT"]
           l == LinkDown(e)
           r == RslUp(l, "REL_CONF", 0)
<1>0. DOMAIN e = Fields
  BY DEF Queued
<1>1. Beside(e, l)
  BY ZenonT(40), <1>0, LinkDownOnward DEF Fields, LinkDown, Beside, SameUpdate, Neat, Alone
<1>2. Beside(e, DlEstReq(e))
  BY ZenonT(40), <1>0, LinkDownOnward DEF Fields, DlEstReq, Beside, SameUpdate, Neat, Alone
<1>3. Beside(e, d)
  BY <1>0 DEF Queued, Fields, Onward, Tells, Closing, Beside, SameUpdate, Neat, Alone
<1> HIDE DEF d, l
<1>4. Beside(l, r)
  BY <1>1, RslUpBeside DEF Beside, Onward, RslPrims
<1> HIDE DEF r
<1>5. Beside(e, r)
  BY <1>1, <1>4, BesideTwice
<1>6. \A local \in BOOLEAN : DlRelReq(e, local) \in {r, d}
  BY DEF DlRelReq, r, l, d
<1> QED BY <1>1, <1>2, <1>3, <1>5, <1>6 DEF l

LEMMA ReleaseSapi3Beside ==
  ASSUME NEW e, Queued(e)
  PROVE  Beside(e, gsm48_release_sapi3_link(e)) /\ SameRr(e, gsm48_release_sapi3_link(e))
<1> DEFINE d == [e EXCEPT !.s3 = "IDLE", !.dl3 = "IDLE"]
           u == gsm48_rr_upmsg(d, "REL_IND", 3)
<1>1. Beside(e, d)
  BY TimerBeside
<1> HIDE DEF d
<1>2. Beside(d, u)
  BY <1>1, UpmsgBeside DEF Beside, Onward, RrPrims
<1> HIDE DEF u
<1>3. gsm48_release_sapi3_link(e) \in {e, u}
  BY DEF gsm48_release_sapi3_link, u, d
<1>4. Beside(e, gsm48_release_sapi3_link(e))
  BY <1>1, <1>2, <1>3, BesideTwice, BesideSelf
<1> QED BY <1>4, ReleaseSapi3Onward

LEMMA NewRrStateBeside ==
  ASSUME NEW e, Queued(e), NEW state, state # "IDLE"
  PROVE  LET d == new_rr_state(e, state) IN
         /\ Beside(e, d) /\ d.rr = state /\ d.rel_wait = e.rel_wait /\ d.cs = e.cs
<1> DEFINE d == [e EXCEPT !.rr = state]
<1>1. new_rr_state(e, state) = d
  BY DEF new_rr_state
<1>2. DOMAIN e = Fields
  BY DEF Queued
<1>3. Beside(e, d) /\ d.rr = state /\ d.rel_wait = e.rel_wait /\ d.cs = e.cs
  BY <1>2 DEF Queued, Fields, Onward, Tells, Closing, Beside, SameUpdate, Neat, Alone
<1> HIDE DEF d
<1> QED BY <1>1, <1>3

\* The channel is given back: after an update, the phone camps where it was.
LEMMA ReturnFollowed ==
  ASSUME NEW e, Queued(e), e.ev \in Seq(Events), Tended(e)
  PROVE  LET d == new_rr_state(e, "IDLE") IN
         /\ Onward(e, d) /\ Tended(d)
         /\ (Open(e) => Told(e)) => Followed(d)
         /\ OneCell(e) => OneCell(d)
         /\ Open(d) = Open(e) /\ d.start_t3211 = e.start_t3211 /\ d.rslq = e.rslq
<1> DEFINE n == new_rr_state(e, "IDLE")
<1>0. DOMAIN e = Fields /\ Onward(e, n) /\ n.rr = "IDLE"
  BY ZenonT(40), NewRrStateOnward DEF Queued
<1>1. /\ n.pending = e.pending /\ n.lost = e.lost /\ n.t3211 = e.t3211 /\ n.retry = e.retry
      /\ n.start_t3211 = e.start_t3211 /\ n.dl = e.dl /\ n.net = e.net /\ n.sabm = e.sabm
      /\ n.rslq = e.rslq
      /\ \/ n.cs = e.cs /\ n.ev = e.ev /\ (e.rr # "IDLE" => e.cs # "CONNECTED")
         \/ /\ n.cs = "CAMPED" /\ n.ev = Append(e.ev, "CELL_SELECTED")
            /\ e.cs = "CONNECTED" /\ e.lupd /\ e.rr # "IDLE"
         \/ n.cs = "CHOOSING" /\ n.ev = e.ev /\ e.cs = "CONNECTED" /\ ~e.lupd /\ e.rr # "IDLE"
  BY <1>0 DEF Fields, new_rr_state, RetIdle
<1> HIDE DEF n
<1>2. Append(e.ev, "CELL_SELECTED") # <<>> /\ Len(Append(e.ev, "CELL_SELECTED")) = Len(e.ev) + 1
  OBVIOUS
<1>3. Open(n) = Open(e) /\ Neat(n)
  BY <1>1 DEF Open, Neat, Tended
<1>4. Open(e) => n.cs = "CAMPED" /\ n.mm \in UpdateStates /\ ~n.plmn
  BY <1>0, <1>1 DEF Tended, Begun, OnCell, Onward
<1>5. Tended(n)
  BY <1>3, <1>4 DEF Tended, Begun, OnCell
<1>6. Open(e) /\ Told(e) => Told(n)
  <2>1. Tells(e) => Tells(n)
    BY <1>0 DEF Onward
  <2>2. Open(e) /\ e.cs = "CONNECTED" => n.ev # <<>>
    BY <1>1, <1>2, <1>4
  <2>3. e.ev # <<>> => n.ev # <<>>
    BY <1>1, <1>2
  <2> QED BY <1>1, <2>1, <2>2, <2>3 DEF Told
<1>7. OneCell(e) => OneCell(n)
  <2>1. e.ev = <<>> => Len(e.ev) = 0
    OBVIOUS
  <2> QED BY <1>0, <1>1, <1>2, <2>1 DEF OneCell
<1> QED BY <1>0, <1>1, <1>3, <1>5, <1>6, <1>7 DEF Followed, n

\* The update is followed, and one cell reported, as before.
Moves(e, d) == Followed(d) /\ (OneCell(e) => OneCell(d))

LEMMA MovesSelf ==
  ASSUME NEW e, Followed(e)
  PROVE  Moves(e, e)
BY DEF Moves

\* The channel is closed from this side.
LEMMA ClosedFollowed ==
  ASSUME NEW e, Queued(e), Followed(e), e.rr # "IDLE" \/ e.ev = <<>>, NEW local \in BOOLEAN, NEW t
  PROVE  LET n == new_rr_state(e, "REL_PEND") IN
         /\ Moves(e, gsm48_release_sapi3_link(DlRelReq(n, local)))
         /\ Beside(e, gsm48_release_sapi3_link(DlRelReq(n, local)))
         /\ gsm48_release_sapi3_link(DlRelReq(n, local)).cs = e.cs
         /\ Moves(e, gsm48_release_sapi3_link(DlRelReq([n EXCEPT !.t3110 = t], local)))
<1> DEFINE n == new_rr_state(e, "REL_PEND")
           g == [n EXCEPT !.t3110 = t]
<1>1. Beside(e, n) /\ n.rr = "REL_PEND" /\ n.rel_wait = e.rel_wait /\ n.cs = e.cs
  BY NewRrStateBeside
<1> HIDE DEF n
<1>2. Beside(n, g) /\ SameRr(n, g)
  <2>1. Queued(n) /\ DOMAIN n = Fields
    BY Zenon, <1>1 DEF Beside, Onward, Queued
  <2>2. Beside(n, g)
    BY Zenon, <2>1, TimerBeside
  <2>3. SameRr(n, g)
    BY <2>1 DEF Fields, SameRr
  <2> QED BY Zenon, <2>2, <2>3
<1> HIDE DEF g
<1>3. ASSUME NEW f, Beside(n, f), SameRr(n, f)
      PROVE  /\ Moves(e, gsm48_release_sapi3_link(DlRelReq(f, local)))
             /\ Beside(e, gsm48_release_sapi3_link(DlRelReq(f, local)))
             /\ gsm48_release_sapi3_link(DlRelReq(f, local)).cs = e.cs
  <2> DEFINE r == DlRelReq(f, local)
             d == gsm48_release_sapi3_link(r)
  <2>1. Beside(f, r) /\ SameRr(f, r)
    BY <1>3, LinkDownBeside, LinkDownOnward DEF Beside, Onward
  <2> HIDE DEF r
  <2>2. Beside(r, d) /\ SameRr(r, d)
    BY <2>1, ReleaseSapi3Beside DEF Beside, Onward
  <2> HIDE DEF d
  <2>3. Beside(n, d) /\ SameRr(n, d)
    BY <1>3, <2>1, <2>2, BesideTwice
  <2>4. Beside(e, d) /\ d.rr = "REL_PEND" /\ d.rel_wait = e.rel_wait /\ d.cs = e.cs
    BY <1>1, <2>3, BesideTwice DEF SameRr
  <2> QED BY <2>4, BesideFollowed DEF Moves, d, r
<1>4. Beside(n, n) /\ SameRr(n, n)
  BY <1>1, BesideSelf DEF Beside, Onward
<1> QED BY <1>2, <1>3, <1>4 DEF n, g

\* The end of the channel, as layer 2 and the network tell of it.
LEMMA RrDownFollowed ==
  ASSUME NEW e, Queued(e), e.ev \in Seq(Events), Followed(e)
  PROVE  /\ Moves(e, gsm48_rr_rel_ind(e)) /\ Moves(e, gsm48_rr_rel_cnf(e))
         /\ Moves(e, gsm48_rr_mdl_error_ind(e)) /\ Moves(e, gsm48_rr_rx_chan_rel(e))
<1>0. Moves(e, e)
  BY MovesSelf
<1>1. Moves(e, gsm48_rr_rel_ind(e))
  <2> DEFINE told == gsm48_rr_upmsg(e, "REL_IND", 0)
             w == [told EXCEPT !.rel_wait = TRUE]
             n == new_rr_state(w, "REL_PEND")
             d == gsm48_release_sapi3_link(n)
  <2>1. Beside(e, told) /\ SameRr(e, told) /\ Tells(told)
    BY UpmsgBeside, UpmsgOnward DEF RrPrims, Ends
  <2> HIDE DEF told
  <2>2. Beside(told, w) /\ w.cs = told.cs
    <3>1. Queued(told) /\ DOMAIN told = Fields
      BY Zenon, <2>1 DEF Beside, Onward, Queued
    <3>2. Beside(told, w)
      BY Zenon, <3>1, TimerBeside
    <3>3. w.cs = told.cs
      BY <3>1 DEF Fields
    <3> QED BY Zenon, <3>2, <3>3
  <2> HIDE DEF w
  <2>3. Beside(w, n) /\ n.rr = "REL_PEND" /\ n.cs = w.cs
    BY <2>2, NewRrStateBeside DEF Beside, Onward
  <2> HIDE DEF n
  <2>4. Beside(n, d) /\ SameRr(n, d)
    BY <2>3, ReleaseSapi3Beside DEF Beside, Onward
  <2> HIDE DEF d
  <2>5. Beside(told, d)
    BY <2>2, <2>3, <2>4, BesideTwice
  <2>6. Beside(e, d) /\ Tells(d) /\ d.rr = "REL_PEND" /\ d.cs = e.cs
    BY <2>1, <2>2, <2>3, <2>4, <2>5, BesideTwice DEF Beside, Onward, SameRr
  <2>7. e.rr # "IDLE" => Moves(e, d)
    BY <2>6, BesideFollowed DEF Moves
  <2> QED BY <1>0, <2>7 DEF gsm48_rr_rel_ind, d, n, w, told
<1>2. Moves(e, gsm48_rr_rel_cnf(e))
  <2> DEFINE d == [e EXCEPT !.t3110 = FALSE]
             told == gsm48_rr_upmsg(d, "REL_IND", 0)
             n == new_rr_state(told, "IDLE")
  <2>1. Beside(e, d) /\ SameRr(e, d)
    BY TimerBeside DEF Queued, Fields, SameRr
  <2> HIDE DEF d
  <2>2. Beside(d, told) /\ SameRr(d, told) /\ Tells(told)
    BY <2>1, UpmsgBeside, UpmsgOnward DEF Beside, Onward, RrPrims, Ends
  <2> HIDE DEF told
  <2>3. Beside(e, told) /\ SameRr(e, told)
    BY <2>1, <2>2, BesideTwice
  <2>4. Tended(told) /\ (OneCell(e) => OneCell(told)) /\ Queued(told) /\ told.ev \in Seq(Events)
    BY <2>3, BesideFollowed DEF SameRr, Followed, Beside, SameUpdate, Onward
  <2>5. Moves(e, n)
    BY <2>2, <2>4, ReturnFollowed DEF Moves, Told
  <2> QED BY <1>0, <2>5 DEF gsm48_rr_rel_cnf, n, told, d
<1>3. Moves(e, gsm48_rr_mdl_error_ind(e))
  <2> DEFINE r == DlRelReq(e, TRUE)
             told == gsm48_rr_upmsg(r, "ABORT_IND", 0)
             n == new_rr_state(told, "IDLE")
             d == gsm48_release_sapi3_link(n)
  <2>1. Beside(e, r) /\ SameRr(e, r)
    BY LinkDownBeside, LinkDownOnward
  <2> HIDE DEF r
  <2>2. Beside(r, told) /\ SameRr(r, told) /\ Tells(told)
    BY <2>1, UpmsgBeside, UpmsgOnward DEF Beside, Onward, RrPrims, Ends
  <2> HIDE DEF told
  <2>3. Beside(e, told) /\ SameRr(e, told)
    BY <2>1, <2>2, BesideTwice
  <2>4. Tended(told) /\ (OneCell(e) => OneCell(told)) /\ Queued(told) /\ told.ev \in Seq(Events)
    BY <2>3, BesideFollowed DEF SameRr, Followed, Beside, SameUpdate, Onward
  <2>5. Moves(e, n) /\ Queued(n)
    BY <2>2, <2>4, ReturnFollowed DEF Moves, Told, Onward
  <2> HIDE DEF n
  <2>6. Beside(n, d) /\ SameRr(n, d)
    BY <2>5, ReleaseSapi3Beside
  <2>7. Moves(e, d)
    BY <2>5, <2>6, BesideFollowed DEF SameRr, Moves
  <2> QED BY <1>0, <2>7 DEF gsm48_rr_mdl_error_ind, d, n, told, r
<1>4. Moves(e, gsm48_rr_rx_chan_rel(e))
  BY <1>0, ClosedFollowed DEF gsm48_rr_rx_chan_rel
<1> QED BY <1>1, <1>2, <1>3, <1>4

\* The channel comes up, and messages come over it.
LEMMA RrUpFollowed ==
  ASSUME NEW e, Queued(e), Followed(e)
  PROVE  /\ e.rr # "IDLE" => Moves(e, gsm48_rr_estab_cnf(e)) /\ Beside(e, gsm48_rr_estab_cnf(e))
         /\ \A p \in RrPrims : Moves(e, gsm48_rr_data_ind(e, p)) /\ Beside(e, gsm48_rr_data_ind(e, p))
         /\ Moves(e, gsm48_rr_rx_imm_ass(e)) /\ Moves(e, gsm48_rr_rx_imm_ass_rej(e))
<1>0. Moves(e, e) /\ Beside(e, e)
  BY MovesSelf, BesideSelf
<1>1. ASSUME e.rr # "IDLE"
      PROVE  Moves(e, gsm48_rr_estab_cnf(e)) /\ Beside(e, gsm48_rr_estab_cnf(e))
  <2> DEFINE n == new_rr_state(e, "DEDICATED")
             p == IF e.est_req THEN "EST_CNF" ELSE "EST_IND"
             d == gsm48_rr_upmsg(n, p, 0)
             r == DlRelReq(e, FALSE)
  <2>1. Beside(e, r) /\ SameRr(e, r)
    BY LinkDownBeside, LinkDownOnward
  <2> HIDE DEF r
  <2>2. Beside(e, n) /\ n.rr = "DEDICATED" /\ n.rel_wait = e.rel_wait /\ n.cs = e.cs
    BY NewRrStateBeside
  <2> HIDE DEF n
  <2>3. Beside(n, d) /\ SameRr(n, d)
    <3>1. Queued(n)
      BY Zenon, <2>2 DEF Beside, Onward
    <3>2. p \in RrPrims
      BY DEF RrPrims
    <3> HIDE DEF p
    <3> QED BY Zenon, <3>1, <3>2, UpmsgBeside, UpmsgOnward
  <2> HIDE DEF d
  <2>4. Beside(e, d) /\ d.rr = "DEDICATED" /\ d.rel_wait = e.rel_wait /\ d.cs = e.cs
    BY <2>2, <2>3, BesideTwice DEF SameRr
  <2>5. Moves(e, d) /\ Moves(e, r)
    BY <1>1, <2>1, <2>4, BesideFollowed DEF SameRr, Moves
  <2> QED BY <1>0, <2>1, <2>4, <2>5 DEF gsm48_rr_estab_cnf, d, p, n, r
<1>2. ASSUME NEW p \in RrPrims
      PROVE  Moves(e, gsm48_rr_data_ind(e, p)) /\ Beside(e, gsm48_rr_data_ind(e, p))
  <2> DEFINE u == gsm48_rr_upmsg(e, p, 0)
  <2>1. Beside(e, u) /\ SameRr(e, u)
    BY UpmsgBeside, UpmsgOnward
  <2> HIDE DEF u
  <2>2. Moves(e, u)
    BY <2>1, BesideFollowed DEF SameRr, Moves
  <2> QED BY <1>0, <2>1, <2>2 DEF gsm48_rr_data_ind, u
<1>3. Moves(e, gsm48_rr_rx_imm_ass(e)) /\ Moves(e, gsm48_rr_rx_imm_ass_rej(e))
  <2> DEFINE d == [e EXCEPT !.access = FALSE]
             g == [e EXCEPT !.t3122 = TRUE]
             l == DlEstReq(d)
  <2>1. /\ Beside(e, d) /\ Beside(e, g)
        /\ d.rr = e.rr /\ d.cs = e.cs /\ d.est_req = e.est_req /\ d.rel_wait = e.rel_wait
        /\ g.rr = e.rr /\ g.cs = e.cs /\ g.est_req = e.est_req /\ g.rel_wait = e.rel_wait
    BY TimerBeside DEF Queued, Fields
  <2> HIDE DEF d, g
  <2>2. Beside(d, l) /\ SameRr(d, l)
    BY <2>1, LinkDownBeside, LinkDownOnward DEF Beside, Onward
  <2> HIDE DEF l
  <2>3. Beside(e, l)
    BY <2>1, <2>2, BesideTwice
  <2>4. Moves(e, l) /\ Moves(e, g)
    BY <2>1, <2>2, <2>3, BesideFollowed DEF SameRr, Moves
  <2> QED BY <1>0, <2>4 DEF gsm48_rr_rx_imm_ass, gsm48_rr_rx_imm_ass_rej, gsm48_rr_dl_est, l, d, g
<1> QED BY <1>1, <1>2, <1>3

LEMMA Sapi3Followed ==
  ASSUME NEW e, Queued(e), Followed(e),
         NEW d \in {gsm48_rr_estab_cnf_sapi3(e), gsm48_rr_estab_ind_sapi3(e), gsm48_rr_rel_ind_sapi3(e),
                    gsm48_rr_mdl_error_ind_sapi3(e), gsm48_rr_est_req_sapi3(e)}
  PROVE  Moves(e, d) /\ Beside(e, d)
<1> DEFINE x == [e EXCEPT !.s3 = "ESTAB"]
           y == [e EXCEPT !.s3 = "IDLE"]
           z == [e EXCEPT !.s3 = "IDLE", !.dl3 = "IDLE"]
           w == [e EXCEPT !.s3 = "WAIT_EST", !.dl3 = IF @ = "IDLE" THEN "SABM_SENT" ELSE @]
<1>1. Beside(e, x) /\ Beside(e, y) /\ Beside(e, z) /\ Beside(e, e)
  BY TimerBeside, BesideSelf
<1>2. Beside(e, w)
  BY DEF Fields, Queued, Onward, Tells, Closing, Beside, SameUpdate, Neat, Alone
<1>3. \/ d \in {e, w, gsm48_release_sapi3_link(e)}
      \/ \E f \in {e, x, y, z}, p \in {"EST_CNF", "EST_IND", "REL_IND", "ABORT_IND"} :
           d = gsm48_rr_upmsg(f, p, 3)
  BY DEF gsm48_rr_estab_cnf_sapi3, gsm48_rr_estab_ind_sapi3, gsm48_rr_rel_ind_sapi3,
         gsm48_rr_mdl_error_ind_sapi3, gsm48_rr_est_req_sapi3
<1> HIDE DEF x, y, z, w
<1>4. ASSUME NEW f \in {e, x, y, z}, NEW p \in {"EST_CNF", "EST_IND", "REL_IND", "ABORT_IND"}
      PROVE  Beside(e, gsm48_rr_upmsg(f, p, 3))
  <2>1. Beside(e, f) /\ Queued(f) /\ p \in RrPrims
    BY <1>1 DEF Beside, Onward, RrPrims
  <2>2. Beside(f, gsm48_rr_upmsg(f, p, 3))
    BY <2>1, UpmsgBeside
  <2> QED BY <2>1, <2>2, BesideTwice
<1>5. Beside(e, d)
  BY <1>1, <1>2, <1>3, <1>4, ReleaseSapi3Beside
<1>6. SameRr(e, d)
  BY Sapi3Onward
<1> QED BY <1>5, <1>6, BesideFollowed DEF SameRr, Moves

\* Timers and loss of signal come when no message waits.
LEMMA RrTimersFollowed ==
  ASSUME NEW e, Queued(e), Orderly(e), Followed(e), e.rslq = <<>>, e.rrq = <<>>, e.ev = <<>>
  PROVE  /\ e.access => Moves(e, timeout_rr_t3126(e))
         /\ Moves(e, timeout_rr_t3110(e))
         /\ e.rel_wait => Moves(e, timeout_rr_t_rel_wait(e))
         /\ Moves(e, gsm48_rr_los(e))
<1> DEFINE d == [e EXCEPT !.t3110 = FALSE]
           g == [e EXCEPT !.rel_wait = FALSE]
           h == [d EXCEPT !.access = FALSE]
           u == gsm48_rr_upmsg(h, "REL_IND", 0)
           told == IF e.est_req THEN gsm48_rr_upmsg(e, "REL_IND", 0) ELSE e
           a == [told EXCEPT !.access = FALSE]
           r == gsm48_release_sapi3_link(DlRelReq(new_rr_state(d, "REL_PEND"), TRUE))
<1>0. ~Tells(e) /\ ~Closing(e) /\ Beside(e, e) /\ e.ev \in Seq(Events)
  BY BesideSelf DEF Tells, Closing
<1>1. Beside(e, d) /\ SameRr(e, d) /\ Beside(e, g) /\ g.rr = e.rr /\ g.cs = e.cs /\ g.est_req = e.est_req
  BY TimerBeside DEF Queued, Fields, SameRr
<1> HIDE DEF d, g
<1>2. Moves(e, d) /\ Queued(d) /\ d.rr = e.rr /\ d.ev = <<>>
  BY <1>1, BesideFollowed DEF SameRr, Moves, Beside, Onward, SameUpdate
<1>3. Moves(e, r)
  BY <1>2, ClosedFollowed DEF Moves
<1> HIDE DEF r
<1>4. ASSUME NEW x, Beside(e, x), x.rr = e.rr, x.cs = e.cs, x.est_req = e.est_req,
             Open(e) => Told(x)
      PROVE  Moves(e, new_rr_state(x, "IDLE"))
  <2>1. Tended(x) /\ (OneCell(e) => OneCell(x)) /\ Queued(x) /\ x.ev \in Seq(Events) /\ Open(x) = Open(e)
    BY <1>0, <1>4, BesideFollowed DEF Followed, Beside, Onward, SameUpdate, Open
  <2> QED BY <1>4, <2>1, ReturnFollowed DEF Moves
<1>5. Moves(e, new_rr_state(u, "IDLE"))
  <2>1. Beside(d, h) /\ h.rr = d.rr /\ h.cs = d.cs /\ h.est_req = d.est_req
    <3>1. Queued(d) /\ DOMAIN d = Fields
      BY Zenon, <1>1 DEF Beside, Onward, Queued
    <3>2. Beside(d, h)
      BY Zenon, <3>1, TimerBeside
    <3>3. h.rr = d.rr /\ h.cs = d.cs /\ h.est_req = d.est_req
      BY <3>1 DEF Fields
    <3> QED BY Zenon, <3>2, <3>3
  <2> HIDE DEF h
  <2>2. Beside(h, u) /\ SameRr(h, u) /\ Tells(u)
    BY <2>1, UpmsgBeside, UpmsgOnward DEF Beside, Onward, RrPrims, Ends
  <2> HIDE DEF u
  <2>3. Beside(e, u)
    BY <1>1, <2>1, <2>2, BesideTwice
  <2> QED BY <1>1, <1>4, <2>1, <2>2, <2>3 DEF SameRr, Told
<1>6. e.rel_wait => Moves(e, new_rr_state(g, "IDLE"))
  <2>1. e.rel_wait /\ Open(e) => Told(g)
    BY <1>0, <1>1 DEF Followed, Awaits, Told, Beside, SameUpdate
  <2> QED BY <1>1, <1>4, <2>1
<1>7. e.access => Moves(e, new_rr_state(a, "IDLE"))
  <2>1. Beside(e, told) /\ SameRr(e, told) /\ (e.est_req => Tells(told))
    BY <1>0, BesideSelf, UpmsgBeside, UpmsgOnward DEF RrPrims, Ends
  <2> HIDE DEF told
  <2>2. Beside(told, a) /\ a.rr = told.rr /\ a.cs = told.cs /\ a.est_req = told.est_req
    <3>1. Queued(told) /\ DOMAIN told = Fields
      BY Zenon, <2>1 DEF Beside, Onward, Queued
    <3>2. Beside(told, a)
      BY Zenon, <3>1, TimerBeside
    <3>3. a.rr = told.rr /\ a.cs = told.cs /\ a.est_req = told.est_req
      BY <3>1 DEF Fields
    <3> QED BY Zenon, <3>2, <3>3
  <2> HIDE DEF a
  <2>3. Beside(e, a) /\ (e.est_req => Tells(a))
    BY <2>1, <2>2, BesideTwice DEF Beside, Onward
  <2>4. e.access /\ Awaits(e) => e.est_req
    BY <1>0 DEF Orderly, Awaits, Granted
  <2>5. a.rr = e.rr /\ a.cs = e.cs /\ a.est_req = e.est_req
    BY <2>1, <2>2 DEF SameRr
  <2>6. e.access /\ Open(e) => Told(a)
    BY <1>0, <2>3, <2>4, <2>5 DEF Followed, Told, Beside, SameUpdate
  <2> QED BY <1>4, <2>3, <2>5, <2>6
<1>8. timeout_rr_t3126(e) = new_rr_state(a, "IDLE")
  BY DEF timeout_rr_t3126, a, told
<1>9. timeout_rr_t3110(e) = r
  BY DEF timeout_rr_t3110, d, r
<1>10. timeout_rr_t_rel_wait(e) = new_rr_state(g, "IDLE")
  BY DEF timeout_rr_t_rel_wait, g
<1>11. gsm48_rr_los(e) \in {new_rr_state(u, "IDLE"), d, r}
  BY DEF gsm48_rr_los, u, h, d, r
<1> HIDE DEF u, told, a
<1> QED BY <1>2, <1>3, <1>5, <1>6, <1>7, <1>8, <1>9, <1>10, <1>11

\* MM gives the channel up.
LEMMA AbortReqFollowed ==
  ASSUME NEW e, Queued(e), Followed(e), e.rslq = <<>>, e.ev = <<>>
  PROVE  LET d == gsm48_rr_abort_req(e) IN
         /\ Tended(d) /\ (Open(d) => Open(e)) /\ d.start_t3211 = e.start_t3211
         /\ d.mm = e.mm /\ d.plmn = e.plmn /\ (e.rr # "CONN_PEND" => d.cs = e.cs)
         /\ (e.rr = "CONN_PEND" /\ Open(e) => Told(e)) => Followed(d)
         /\ Len(d.ev) <= 1 /\ (d.rslq = <<>> \/ d.ev = <<>>)
<1> DEFINE a == [e EXCEPT !.access = FALSE]
           n == new_rr_state(a, "IDLE")
           r == gsm48_release_sapi3_link(DlRelReq(new_rr_state(e, "REL_PEND"), FALSE))
           Done(d) == /\ Tended(d) /\ (Open(d) => Open(e)) /\ d.start_t3211 = e.start_t3211
                      /\ d.mm = e.mm /\ d.plmn = e.plmn /\ (e.rr # "CONN_PEND" => d.cs = e.cs)
                      /\ (e.rr = "CONN_PEND" /\ Open(e) => Told(e)) => Followed(d)
                      /\ Len(d.ev) <= 1 /\ (d.rslq = <<>> \/ d.ev = <<>>)
<1>0. e.ev \in Seq(Events) /\ OneCell(e)
  BY DEF OneCell
<1>1. Done(e)
  BY <1>0 DEF Followed, OneCell
<1>2. Done(r)
  <2>1. Moves(e, r) /\ Beside(e, r) /\ r.cs = e.cs
    BY ClosedFollowed
  <2> HIDE DEF r
  <2> QED BY <1>0, <2>1 DEF Moves, Followed, Beside, SameUpdate, Onward, Open, OneCell
<1>3. e.rr = "CONN_PEND" => Done(n)
  <2>1. Beside(e, a) /\ a.rr = e.rr /\ a.cs = e.cs /\ a.est_req = e.est_req /\ a.rslq = <<>>
    BY TimerBeside DEF Queued, Fields
  <2> HIDE DEF a
  <2>2. /\ Tended(a) /\ OneCell(a) /\ Queued(a) /\ a.ev \in Seq(Events) /\ (Open(a) => Open(e))
        /\ a.start_t3211 = e.start_t3211 /\ (Told(e) => Told(a)) /\ a.mm = e.mm /\ a.plmn = e.plmn
    BY <1>0, <2>1, BesideFollowed DEF Followed, Beside, Onward, SameUpdate, Open, Told
  <2>3. /\ Onward(a, n) /\ Tended(n) /\ ((Open(a) => Told(a)) => Followed(n)) /\ OneCell(n)
        /\ Open(n) = Open(a) /\ n.start_t3211 = a.start_t3211 /\ n.rslq = a.rslq
    BY <2>2, ReturnFollowed
  <2> HIDE DEF n
  <2>4. ASSUME e.rr = "CONN_PEND" PROVE Done(n)
    BY <2>1, <2>2, <2>3, <2>4 DEF Onward, OneCell
  <2> QED BY <2>4
<1> HIDE DEF Done, r, n
<1>4. Done(gsm48_rr_abort_req(e))
  BY <1>1, <1>2, <1>3 DEF gsm48_rr_abort_req, r, n
<1> QED BY <1>4 DEF Done

-----------------------------------------------------------------------------
(* The update, while mobility management returns to idle                    *)

\* Where MM goes idle or begins an update, no message is taken or sent to it, and what
\* was put off is at most used up.
Steady(e, d) ==
  /\ d.la = e.la /\ d.forb = e.forb /\ d.plmn = e.plmn /\ d.ev = e.ev /\ d.rslq = e.rslq
  /\ (d.retry => e.retry) /\ (d.periodic => e.periodic)

\* The update can be begun; and what may be put off still, where the calls are nested
\* k deep at most.
Camping(e) == e.pending /\ e.cs = "CAMPED" /\ e.la \notin e.forb
Spent(k, e) == (k < 2 => ~e.retry) /\ (k < 1 => ~e.periodic)
Able(k, e) == Camping(e) \/ (k > 0 /\ (k < 3 => ~e.retry) /\ (k < 2 => ~e.periodic))

Resting(e) == Good(e) /\ Neat(e) /\ ~e.plmn
Goes(e, d) == Followed(d) /\ Steady(e, d)
SettlesFollowed(locUpd, k) == \A e : Resting(e) /\ Able(k, e) => Goes(e, locUpd[e])

LEMMA SteadyTwice ==
  ASSUME NEW e, NEW d, NEW f, Steady(e, d), Steady(d, f)
  PROVE  Steady(e, f)
BY DEF Steady

LEMMA SteadyGoes ==
  ASSUME NEW e, NEW d, NEW f, Steady(e, d), Goes(d, f)
  PROVE  Goes(e, f)
BY DEF Steady, Goes

LEMMA PendingResting ==
  ASSUME NEW e, Resting(e)
  PROVE  LET p == [e EXCEPT !.pending = TRUE] IN
         /\ Resting(p) /\ Steady(e, p) /\ p.pending /\ p.cs = e.cs
         /\ p.retry = e.retry /\ p.periodic = e.periodic
<1> DEFINE p == [e EXCEPT !.pending = TRUE]
<1>1. Good(p)
  BY PendingGood DEF Resting
<1>2. DOMAIN e = Fields
  BY DEF Resting, Good, Typed
<1>3. /\ Neat(p) /\ ~p.plmn /\ Steady(e, p) /\ p.pending /\ p.cs = e.cs
      /\ p.retry = e.retry /\ p.periodic = e.periodic
  BY <1>2 DEF Resting, Fields, Neat, Steady
<1> QED BY <1>1, <1>3 DEF Resting

LEMMA LocUpdPeriodicFollowed ==
  ASSUME NEW e, Resting(e), ~Open(e), NEW locUpd, NEW k \in 0..3, SettlesFollowed(locUpd, k),
         k > 0 /\ (k < 3 => ~e.retry) /\ (k < 2 => ~e.periodic)
  PROVE  Goes(e, LocUpdPeriodic(e, locUpd))
<1> DEFINE p == [e EXCEPT !.pending = TRUE]
<1>1. Resting(p) /\ Steady(e, p) /\ Able(k, p)
  BY PendingResting DEF Able
<1> HIDE DEF p
<1>2. Goes(e, locUpd[p])
  BY <1>1, SteadyGoes DEF SettlesFollowed
<1>3. Goes(e, e)
  BY ShutFollowed DEF Goes, Steady, Resting
<1> QED BY <1>2, <1>3 DEF LocUpdPeriodic, p

LEMMA EnterIdleFollowed ==
  ASSUME NEW e, Resting(e), ~Open(e), NEW sst \in SubStates,
         NEW locUpd, NEW k \in 0..3, SettlesFollowed(locUpd, k), Spent(k, e)
  PROVE  Goes(e, EnterIdle(e, sst, locUpd))
<1> DEFINE updating == sst \in {"NORMAL", "ATTEMPT_UPDATE"}
           d == [e EXCEPT !.mm = "IDLE", !.sst = sst, !.rej = None,
                          !.t3212 = @ \/ (Periodic /\ updating)]
           r == [d EXCEPT !.retry = FALSE]
           p == [d EXCEPT !.periodic = FALSE]
<1>1. IsFcn(d) /\ IsFcn(r) /\ IsFcn(p)
  BY Zenon DEF IsFcn
<1>2. Typed(d) /\ d.cs = e.cs /\ d.ev = e.ev /\ d.conn = e.conn
  BY RefAssumption DEF Resting, Good, Typed, Fields, SubStates
<1>3. DOMAIN e = Fields
  BY DEF Resting, Good, Typed
<1>4. /\ Steady(e, d) /\ Neat(d) /\ ~d.plmn /\ ~Open(d) /\ d.retry = e.retry /\ d.periodic = e.periodic
  BY <1>3 DEF Resting, Fields, Steady, Neat, Open
<1>5. \/ EnterIdle(e, sst, locUpd) = locUpd[r] /\ e.retry
      \/ EnterIdle(e, sst, locUpd) = LocUpdPeriodic(p, locUpd) /\ ~e.retry /\ e.periodic
      \/ EnterIdle(e, sst, locUpd) = d
  BY DEF EnterIdle
<1> HIDE DEF d
<1>6. Good(d)
  BY <1>1, <1>2 DEF Resting, Good, OnePending, Pending, CellReported
<1>7. Typed(r) /\ Same(d, r) /\ Typed(p) /\ Same(d, p)
  BY <1>2 DEF Typed, Fields, Same
<1>8. Good(r) /\ Good(p)
  BY <1>1, <1>6, <1>7, SameGood
<1>9. /\ Neat(r) /\ ~r.plmn /\ Steady(d, r) /\ ~r.retry /\ r.periodic = d.periodic
      /\ Neat(p) /\ ~p.plmn /\ Steady(d, p) /\ ~Open(p) /\ ~p.periodic /\ p.retry = d.retry
  BY <1>2, <1>4 DEF Typed, Fields, Neat, Steady, Open
<1> HIDE DEF r, p
<1>10. Goes(e, d)
  BY <1>4, ShutFollowed DEF Goes
<1>11. ASSUME e.retry PROVE Goes(e, locUpd[r])
  <2>1. Able(k, r)
    BY <1>9, <1>11 DEF Spent, Able
  <2>2. Goes(r, locUpd[r])
    BY <1>8, <1>9, <2>1 DEF SettlesFollowed, Resting
  <2> QED BY <1>4, <1>9, <2>2, SteadyTwice, SteadyGoes
<1>12. ASSUME ~e.retry, e.periodic PROVE Goes(e, LocUpdPeriodic(p, locUpd))
  <2>1. k > 0 /\ (k < 3 => ~p.retry) /\ (k < 2 => ~p.periodic)
    BY <1>4, <1>9, <1>12 DEF Spent
  <2>2. Goes(p, LocUpdPeriodic(p, locUpd))
    BY <1>8, <1>9, <2>1, LocUpdPeriodicFollowed DEF Resting
  <2> QED BY <1>4, <1>9, <2>2, SteadyTwice, SteadyGoes
<1> QED BY <1>5, <1>10, <1>11, <1>12

LEMMA LocUpdNormalFollowed ==
  ASSUME NEW e, Resting(e), Followed(e), NEW locUpd, NEW k \in 0..3, SettlesFollowed(locUpd, k),
         Spent(k, e), e.la \notin e.forb \/ k = 3
  PROVE  Goes(e, LocUpdNormal(e, locUpd))
<1> DEFINE p == [e EXCEPT !.pending = TRUE]
           n == EnterIdle(e, "NORMAL", locUpd)
<1>1. ~e.pending => Goes(e, n)
  BY EnterIdleFollowed DEF SubStates, Serving, Open
<1>2. Resting(p) /\ Steady(e, p) /\ p.pending /\ p.cs = e.cs
  BY PendingResting
<1> HIDE DEF p, n
<1>3. ASSUME e.cs = "CAMPED" PROVE Goes(e, locUpd[p])
  <2>1. Able(k, p)
    BY <1>2, <1>3 DEF Able, Camping, Steady
  <2> QED BY <1>2, <2>1, SteadyGoes DEF SettlesFollowed
<1>4. Goes(e, e)
  BY DEF Goes, Steady
<1> QED BY <1>1, <1>3, <1>4 DEF LocUpdNormal, n, p

LEMMA NewStateIdleFollowed ==
  ASSUME NEW e, Resting(e), ~Open(e), NEW sst \in SubStates \cup {"LOC_UPD_NEEDED"},
         NEW locUpd, Settles(locUpd), NEW k \in 0..3, SettlesFollowed(locUpd, k), Spent(k, e),
         sst = "LOC_UPD_NEEDED" => e.la \notin e.forb \/ k = 3
  PROVE  Goes(e, NewStateIdle(e, sst, locUpd))
<1>1. CASE sst = "LOC_UPD_NEEDED"
  <2> DEFINE a == EnterIdle(e, "ATTEMPT_UPDATE", locUpd)
  <2>1. Good(a) /\ Goes(e, a)
    BY EnterIdleKept, EnterIdleFollowed DEF SubStates, Serving, Kept, Resting
  <2> HIDE DEF a
  <2>2. Resting(a) /\ Followed(a) /\ Steady(e, a) /\ Spent(k, a) /\ (a.la \notin a.forb \/ k = 3)
    BY <1>1, <2>1 DEF Goes, Steady, Spent, Resting, Followed, Tended
  <2>3. Goes(a, LocUpdNormal(a, locUpd))
    BY <2>2, LocUpdNormalFollowed
  <2> QED BY <1>1, <2>2, <2>3, SteadyGoes DEF NewStateIdle, a
<1>2. CASE sst # "LOC_UPD_NEEDED"
  BY <1>2, EnterIdleFollowed DEF NewStateIdle
<1> QED BY <1>1, <1>2

\* T3211 starts on the way to idle.
LEMMA ReturnIdleFollowed ==
  ASSUME NEW e, Resting(e), e.cs \notin {"CAMPED", "ANY"} => Followed(e),
         e.cs \in {"CAMPED", "ANY"} /\ Open(e) => e.start_t3211,
         NEW locUpd, Settles(locUpd), NEW k \in 0..3, SettlesFollowed(locUpd, k), Spent(k, e)
  PROVE  Goes(e, ReturnIdle(e, locUpd))
<1>1. CASE e.cs \notin {"CAMPED", "ANY"}
  BY <1>1 DEF ReturnIdle, Goes, Steady
<1>2. CASE e.cs \in {"CAMPED", "ANY"}
  <2> DEFINE d == [e EXCEPT !.t3211 = @ \/ e.start_t3211, !.start_t3211 = FALSE]
             n == [d EXCEPT !.t3212 = FALSE]
             u == UpdateDone(n)
  <2>1. IsFcn(d) /\ IsFcn(n)
    BY Zenon DEF IsFcn
  <2>2. Typed(d) /\ Same(e, d) /\ Typed(n) /\ Same(e, n)
    BY DEF Resting, Good, Typed, Fields, Same
  <2>3. Good(d) /\ Good(n) /\ Good(u)
    BY <2>1, <2>2, SameGood, UpdateDoneGood DEF Resting
  <2>4. /\ Neat(d) /\ ~d.plmn /\ Steady(e, d) /\ ~Open(d)
        /\ Neat(n) /\ ~n.plmn /\ Steady(e, n) /\ DOMAIN n = Fields
    BY <1>2 DEF Resting, Good, Typed, Fields, Neat, Steady, Open
  <2> HIDE DEF d, n
  <2>5. Neat(u) /\ ~u.plmn /\ Steady(n, u) /\ ~Open(u)
    BY <2>4 DEF Fields, UpdateDone, Neat, Steady, Open
  <2> HIDE DEF u
  <2>6. Resting(d) /\ Resting(u) /\ Steady(e, u) /\ Spent(k, d) /\ Spent(k, u)
    BY <2>3, <2>4, <2>5, SteadyTwice DEF Resting, Steady, Spent
  <2>7. \A sst \in SubStates \cup {"LOC_UPD_NEEDED"} :
          (sst = "LOC_UPD_NEEDED" => d.la \notin d.forb) => Goes(d, NewStateIdle(d, sst, locUpd))
    BY <2>4, <2>6, NewStateIdleFollowed
  <2>8. \A sst \in SubStates \cup {"LOC_UPD_NEEDED"} :
          (sst = "LOC_UPD_NEEDED" => e.la \notin e.forb) => Goes(e, NewStateIdle(d, sst, locUpd))
    BY <2>4, <2>7, SteadyGoes DEF Steady
  <2>9. Goes(e, NewStateIdle(u, "NO_IMSI", locUpd))
    BY <2>5, <2>6, NewStateIdleFollowed, SteadyGoes DEF SubStates
  <2> QED BY <1>2, <2>8, <2>9 DEF ReturnIdle, SubStates, Serving, d, n, u
<1> QED BY <1>1, <1>2

\* Radio resources refuse the update, and say so, or ask for a channel for it.
LEMMA BeginLocUpdFollowed ==
  ASSUME NEW e, Resting(e), e.pending => e.cs = "CAMPED"
  PROVE  Goes(e, BeginLocUpd(e))
<1> DEFINE b == [e EXCEPT !.mm = "WAIT_RR_CONN_LUPD",
                          !.lost = @ \/ e.rel_wait \/ e.dl # "IDLE"]
           u == gsm48_rr_upmsg(b, "REL_IND", 0)
           a == [b EXCEPT !.est_req = TRUE, !.est_msg = Lupd]
           n == gsm48_rr_chan_req(a, TRUE)
<1>0. DOMAIN e = Fields /\ Queued(e)
  BY GoodQueued DEF Resting, Queued
<1>1. /\ Steady(e, b) /\ Neat(b) /\ ~b.plmn /\ Queued(b) /\ b.mm = "WAIT_RR_CONN_LUPD"
      /\ b.pending = e.pending /\ b.cs = e.cs
      /\ Open(b) => b.net = {} /\ b.sabm = None /\ ~b.rel_wait
  BY ZenonT(40), <1>0 DEF Resting, Fields, Steady, Neat, Queued, Open
<1> HIDE DEF b
<1>2. Goes(e, u)
  <2>1. Beside(b, u) /\ SameRr(b, u) /\ Tells(u)
    BY <1>1, UpmsgBeside, UpmsgOnward DEF RrPrims, Ends
  <2>2. Steady(b, u)
    BY <1>1 DEF Queued, Fields, gsm48_rr_upmsg, Steady
  <2> HIDE DEF u
  <2>3. Open(b) => b.cs = "CAMPED"
    BY <1>1 DEF Open
  <2>4. Tended(b)
    BY <1>1, <2>3 DEF Tended, Begun, OnCell, UpdateStates
  <2>5. Tended(u)
    BY <2>1, <2>4, BesideFollowed DEF SameRr
  <2>6. Followed(u)
    BY <2>1, <2>5 DEF Followed, Told
  <2> QED BY <1>1, <2>2, <2>6, SteadyTwice DEF Goes
<1>3. Goes(e, n)
  <2>1. /\ Steady(b, a) /\ a.est_req = TRUE /\ a.est_msg = Lupd /\ DOMAIN a = Fields
        /\ a.net = b.net /\ a.sabm = b.sabm /\ a.dl = b.dl /\ a.rel_wait = b.rel_wait
        /\ a.mm = b.mm /\ a.plmn = b.plmn /\ Open(a) = Open(b)
    BY <1>1 DEF Queued, Fields, Steady, Open
  <2> HIDE DEF a
  <2>2. n = [[a EXCEPT !.rr = "CONN_PEND"] EXCEPT !.cs = "CONNECTED", !.access = TRUE, !.lupd = TRUE]
    BY DEF gsm48_rr_chan_req, new_rr_state
  <2>3. /\ Steady(a, n) /\ n.est_req = TRUE /\ n.est_msg = Lupd
        /\ n.net = a.net /\ n.sabm = a.sabm /\ n.dl = a.dl /\ n.rel_wait = a.rel_wait
        /\ n.mm = a.mm /\ n.plmn = a.plmn /\ Open(n) = Open(a)
        /\ n.rr = "CONN_PEND" /\ n.cs = "CONNECTED" /\ n.lupd = TRUE
    <3> HIDE DEF n
    <3> QED BY <2>1, <2>2, SMTT(60) DEF Fields, Steady, Open
  <2> HIDE DEF n
  <2>4. Neat(n)
    BY <1>1, <2>1, <2>3 DEF Neat
  <2>5. Open(n) => Awaits(n) /\ n.mm \in UpdateStates /\ ~n.plmn /\ OnCell(n) /\ Alone(n)
    BY <1>1, <2>1, <2>3 DEF Awaits, Granted, UpdateStates, OnCell, Alone
  <2>6. Followed(n)
    BY <2>4, <2>5 DEF Followed, Tended, Begun
  <2>7. Steady(e, n)
    BY <1>1, <2>1, <2>3, SteadyTwice
  <2> QED BY <2>6, <2>7 DEF Goes
<1>4. BeginLocUpd(e) \in {u, n}
  BY DEF BeginLocUpd, gsm48_rr_est_req, u, n, a, b
<1> HIDE DEF u, n
<1> QED BY <1>2, <1>3, <1>4

LEMMA TryLocUpdFollowed ==
  ASSUME NEW e, Resting(e), NEW locUpd, Settles(locUpd), NEW k \in 0..2, SettlesFollowed(locUpd, k),
         Able(k + 1, e)
  PROVE  Goes(e, TryLocUpd(e, locUpd))
<1> DEFINE u == UpdateDone(e)
<1>1. Goes(e, BeginLocUpd(e)) \/ (e.pending /\ e.cs # "CAMPED")
  BY BeginLocUpdFollowed
<1>2. ~Camping(e) => Spent(k, e)
  BY DEF Able, Spent
<1>3. Good(u)
  BY UpdateDoneGood DEF Resting
<1>4. DOMAIN e = Fields
  BY DEF Resting, Good, Typed
<1>5. Neat(u) /\ ~u.plmn /\ Steady(e, u) /\ ~Open(u) /\ (Spent(k, e) => Spent(k, u))
  BY <1>4 DEF Resting, Fields, UpdateDone, Neat, Steady, Open, Spent
<1> HIDE DEF u
<1>6. Resting(u) /\ Followed(u)
  BY <1>3, <1>5, ShutFollowed DEF Resting
<1>7. k \in 0..3
  OBVIOUS
<1>8. ~Camping(e) => Goes(e, ReturnIdle(u, locUpd))
  BY <1>2, <1>5, <1>6, <1>7, ReturnIdleFollowed, SteadyGoes
<1>9. ~e.pending => Goes(e, ReturnIdle(e, locUpd))
  <2>1. ASSUME ~e.pending PROVE ~Open(e) /\ Followed(e) /\ Spent(k, e)
    BY <1>2, <2>1, ShutFollowed DEF Open, Camping, Resting
  <2> QED BY <1>7, <2>1, ReturnIdleFollowed
<1>10. e.pending /\ (e.cs # "CAMPED" \/ e.la \in e.forb) => ~Camping(e)
  BY DEF Camping
<1> QED BY <1>1, <1>8, <1>9, <1>10 DEF TryLocUpd, u

LEMMA LocUpdFollowed == SettlesFollowed(LocUpd3, 3)
<1>0. Settles(LocUpd0) /\ Settles(LocUpd1) /\ Settles(LocUpd2)
  BY LocUpdInnerSettles
<1>1. SettlesFollowed(LocUpd0, 0)
  <2>1. ASSUME NEW e, Resting(e), Able(0, e) PROVE e.pending => e.cs = "CAMPED"
    BY <2>1 DEF Able, Camping
  <2> QED BY <2>1, GoodPhone, BeginLocUpdFollowed DEF SettlesFollowed, LocUpd0, Resting
<1>2. SettlesFollowed(LocUpd1, 1)
  <2>1. ASSUME NEW e, Resting(e), Able(1, e) PROVE Goes(e, TryLocUpd(e, LocUpd0))
    BY <1>0, <1>1, <2>1, TryLocUpdFollowed
  <2> QED BY <2>1, GoodPhone DEF SettlesFollowed, LocUpd1, Resting
<1>3. SettlesFollowed(LocUpd2, 2)
  <2>1. ASSUME NEW e, Resting(e), Able(2, e) PROVE Goes(e, TryLocUpd(e, LocUpd1))
    BY <1>0, <1>2, <2>1, TryLocUpdFollowed
  <2> QED BY <2>1, GoodPhone DEF SettlesFollowed, LocUpd2, Resting
<1>4. ASSUME NEW e, Resting(e), Able(3, e) PROVE Goes(e, TryLocUpd(e, LocUpd2))
  BY <1>0, <1>3, <1>4, TryLocUpdFollowed
<1> QED BY <1>4, GoodPhone DEF SettlesFollowed, LocUpd3, Resting

\* Back to idle, when PLMN selection has nothing to do.
LEMMA MmIdleFollowed ==
  ASSUME NEW e, Resting(e)
  PROVE  /\ (IF e.cs \in {"CAMPED", "ANY"} THEN Open(e) => e.start_t3211 ELSE Followed(e)) =>
              Goes(e, gsm48_mm_return_idle(e))
         /\ Goes(e, gsm48_mm_loc_upd(e))
         /\ ~Open(e) => /\ Goes(e, gsm48_mm_loc_upd_periodic(e))
                        /\ \A sst \in SubStates \cup {"LOC_UPD_NEEDED"} : Goes(e, new_mm_state_idle(e, sst))
         /\ Followed(e) => Goes(e, gsm48_mm_loc_upd_normal(e))
<1>1. SettlesFollowed(LocUpd3, 3) /\ Settles(LocUpd3) /\ Spent(3, e) /\ Able(3, e) /\ 3 \in 0..3
  BY LocUpdFollowed, LocUpdSettles DEF Spent, Able
<1>2. (IF e.cs \in {"CAMPED", "ANY"} THEN Open(e) => e.start_t3211 ELSE Followed(e)) =>
        Goes(e, gsm48_mm_return_idle(e))
  BY <1>1, ReturnIdleFollowed DEF gsm48_mm_return_idle
<1>3. Goes(e, gsm48_mm_loc_upd(e))
  BY <1>1 DEF gsm48_mm_loc_upd, SettlesFollowed
<1>4. ~Open(e) => Goes(e, gsm48_mm_loc_upd_periodic(e))
  BY <1>1, LocUpdPeriodicFollowed DEF gsm48_mm_loc_upd_periodic
<1>5. ~Open(e) => \A sst \in SubStates \cup {"LOC_UPD_NEEDED"} : Goes(e, new_mm_state_idle(e, sst))
  BY <1>1, NewStateIdleFollowed DEF new_mm_state_idle
<1>6. Followed(e) => Goes(e, gsm48_mm_loc_upd_normal(e))
  BY <1>1, LocUpdNormalFollowed DEF gsm48_mm_loc_upd_normal
<1> QED BY <1>2, <1>3, <1>4, <1>5, <1>6

\* While PLMN selection has yet to choose, no update is begun.
LEMMA EnterLimitedFollowed ==
  ASSUME NEW e, DOMAIN e = Fields, Neat(e), ~Open(e), NEW sst, sst \notin {"NORMAL", "ATTEMPT_UPDATE"},
         NEW locUpd
  PROVE  Goes(e, EnterIdle(e, sst, locUpd))
<1> DEFINE d == [e EXCEPT !.mm = "IDLE", !.sst = sst, !.rej = None, !.t3212 = @ \/ (Periodic /\ FALSE)]
<1>1. EnterIdle(e, sst, locUpd) = d
  BY DEF EnterIdle
<1>2. Neat(d) /\ ~Open(d) /\ Steady(e, d)
  BY DEF Fields, Neat, Open, Steady
<1> HIDE DEF d
<1> QED BY <1>1, <1>2, ShutFollowed DEF Goes

LEMMA RefusedReturnFollowed ==
  ASSUME NEW e, Linked(e), Neat(e), ~Open(e), e.plmn, NEW locUpd
  PROVE  Goes(e, ReturnIdle(e, locUpd))
<1> DEFINE d == [e EXCEPT !.t3211 = @ \/ e.start_t3211, !.start_t3211 = FALSE]
           n == [d EXCEPT !.t3212 = FALSE]
           u == UpdateDone(n)
<1>0. DOMAIN e = Fields
  BY DEF Linked, Loose
<1>1. /\ Neat(d) /\ ~Open(d) /\ Steady(e, d) /\ DOMAIN d = Fields
      /\ Neat(n) /\ ~Open(n) /\ Steady(e, n) /\ DOMAIN n = Fields
  BY ZenonT(40), <1>0 DEF Fields, Neat, Open, Steady
<1> HIDE DEF d, n
<1>2. Neat(u) /\ ~Open(u) /\ Steady(e, u) /\ DOMAIN u = Fields
  BY ZenonT(40), <1>1 DEF Fields, UpdateDone, Neat, Open, Steady
<1> HIDE DEF u
<1>3. \A sst \in {"PLMN_SEARCH", "LIMITED_SERVICE"} : Goes(e, NewStateIdle(d, sst, locUpd))
  BY <1>1, EnterLimitedFollowed, SteadyGoes DEF NewStateIdle
<1>4. Goes(e, NewStateIdle(u, "NO_IMSI", locUpd))
  BY <1>2, EnterLimitedFollowed, SteadyGoes DEF NewStateIdle
<1>5. ASSUME e.sim PROVE e.la \in e.forb /\ e.reg # e.la
  BY <1>5, RefAssumption DEF Linked, Loose, Refused
<1>6. Goes(e, e)
  BY ShutFollowed DEF Goes, Steady
<1> QED BY <1>3, <1>4, <1>5, <1>6 DEF ReturnIdle, d, n, u

LEMMA RefusedFollowed ==
  ASSUME NEW e, Good(e), Linked(e), Neat(e), ~Open(e), e.plmn
  PROVE  /\ Goes(e, gsm48_mm_return_idle(e))
         /\ e.la \in e.forb => Goes(e, gsm48_mm_loc_upd_normal(e))
<1>1. Goes(e, gsm48_mm_return_idle(e))
  BY RefusedReturnFollowed DEF gsm48_mm_return_idle
<1>2. ASSUME e.la \in e.forb PROVE Goes(e, gsm48_mm_loc_upd_normal(e))
  <2> DEFINE p == [e EXCEPT !.pending = TRUE]
             u == UpdateDone(p)
  <2>0. DOMAIN e = Fields
    BY DEF Good, Typed
  <2>1. Good(p)
    BY PendingGood
  <2>2. /\ Alike(e, p) /\ DOMAIN p = Fields /\ p.pending /\ Neat(p) /\ Steady(e, p)
    BY ZenonT(40), <2>0 DEF Fields, Alike, SameCell, Neat, Steady
  <2> HIDE DEF p
  <2>3. Linked(u) /\ u.plmn
    BY ZenonT(40), <2>2, UpdateDoneAlike, AlikeLinked DEF Alike, SameCell
  <2>4. Neat(u) /\ ~Open(u) /\ Steady(e, u)
    BY ZenonT(40), <2>2 DEF Fields, UpdateDone, Neat, Open, Steady
  <2> HIDE DEF u
  <2>5. LocUpd3[p] = TryLocUpd(p, LocUpd2)
    BY <2>1, GoodPhone DEF LocUpd3
  <2>6. TryLocUpd(p, LocUpd2) = ReturnIdle(u, LocUpd2)
    BY <1>2, <2>2 DEF TryLocUpd, u, Alike, SameCell
  <2>7. Goes(e, LocUpd3[p])
    BY <2>3, <2>4, <2>5, <2>6, RefusedReturnFollowed, SteadyGoes
  <2>8. e.reg # e.la
    BY RefAssumption DEF Linked, Loose, Refused
  <2>9. Goes(e, e)
    BY ShutFollowed DEF Goes, Steady
  <2> QED BY <2>7, <2>8, <2>9 DEF gsm48_mm_loc_upd_normal, LocUpdNormal, p
<1> QED BY <1>1, <1>2

-----------------------------------------------------------------------------
(* What mobility management is told, and its timers                         *)

\* A message is heard: the cells that are reported, and the data link, are left alone.
Hears(e, d) == Followed(d) /\ d.ev = e.ev /\ d.rslq = e.rslq

\* A phone with the same update and no other channel; and with the same channel besides,
\* and MM in the same state.
Put(e, d) ==
  /\ DOMAIN d = DOMAIN e
  /\ d.pending = e.pending /\ d.lost = e.lost /\ d.t3211 = e.t3211 /\ d.retry = e.retry
  /\ d.dl = e.dl /\ d.net = e.net /\ d.sabm = e.sabm
  /\ d.ev = e.ev /\ d.rslq = e.rslq
SameTurn(e, d) ==
  /\ d.start_t3211 = e.start_t3211 /\ d.lupd = e.lupd /\ d.mm = e.mm /\ d.plmn = e.plmn
  /\ d.cs = e.cs /\ d.rr = e.rr /\ d.rrq = e.rrq /\ d.est_req = e.est_req /\ d.est_msg = e.est_msg
  /\ d.rel_wait = e.rel_wait
Like(e, d) == Put(e, d) /\ SameTurn(e, d)

LEMMA LikeFollowed ==
  ASSUME NEW e, NEW d, Like(e, d)
  PROVE  /\ Tended(e) => Tended(d)
         /\ Followed(e) => Hears(e, d)
         /\ Open(d) = Open(e)
BY DEF Like, Put, SameTurn, Tended, Begun, Followed, Hears, Open, Neat, OnCell, Alone, Told, Tells,
       Awaits, Granted

LEMMA LikeTwice ==
  ASSUME NEW e, NEW d, NEW f, Like(e, d), Like(d, f)
  PROVE  Like(e, f)
BY DEF Like, Put, SameTurn

LEMMA PutFollowed ==
  ASSUME NEW e, NEW d, Put(e, d)
  PROVE  /\ Open(d) = Open(e)
         /\ Neat(e) /\ ~Open(e) => Hears(e, d)
<1>1. Open(d) = Open(e) /\ (Neat(e) => Neat(d))
  BY DEF Put, Open, Neat
<1> QED BY <1>1, ShutFollowed DEF Put, Hears

LEMMA PutTwice ==
  ASSUME NEW e, NEW d, NEW f, Put(e, d), Put(d, f)
  PROVE  Put(e, f)
BY DEF Put

LEMMA PutDomain ==
  ASSUME NEW e, DOMAIN e = Fields, NEW d
  PROVE  (Put(e, d) => DOMAIN d = Fields) /\ (Like(e, d) => Put(e, d) /\ DOMAIN d = Fields)
BY DEF Like, Put

LEMMA GoesHears ==
  ASSUME NEW e, NEW d, NEW f, Put(e, d), Goes(d, f)
  PROVE  Hears(e, f)
BY DEF Put, Goes, Steady, Hears

LEMMA ConnLike ==
  ASSUME NEW e, DOMAIN e = Fields, NEW refs, NEW p, NEW ref
  PROVE  /\ Like(e, gsm48_mmxx_upmsg(e, refs, p)) /\ Like(e, mm_conn_free(e, ref))
         /\ Like(e, gsm48_mm_release_mm_conn(e, refs, p))
         /\ \A s, t : Like(e, [e EXCEPT !.conn[ref] = s]) /\ Like(e, [e EXCEPT !.conn[ref] = s, !.stray = t])
<1>1. Like(e, gsm48_mmxx_upmsg(e, refs, p)) /\ Like(e, mm_conn_free(e, ref))
  BY DEF Fields, Like, Put, SameTurn, gsm48_mmxx_upmsg, mm_conn_free
<1>2. \A s, t : Like(e, [e EXCEPT !.conn[ref] = s]) /\ Like(e, [e EXCEPT !.conn[ref] = s, !.stray = t])
  BY DEF Fields, Like, Put, SameTurn
<1> DEFINE u == gsm48_mmxx_upmsg(e, refs, p)
           d == [u EXCEPT !.conn = [r \in Refs |-> IF r \in refs THEN "NONE" ELSE u.conn[r]]]
<1>3. gsm48_mm_release_mm_conn(e, refs, p) = d
  BY Zenon DEF gsm48_mm_release_mm_conn
<1>4. DOMAIN u = Fields /\ Like(e, u)
  BY <1>1 DEF Like, Put
<1> HIDE DEF u
<1>5. Like(u, d)
  BY <1>4 DEF Fields, Like, Put, SameTurn
<1> HIDE DEF d
<1> QED BY <1>1, <1>2, <1>3, <1>4, <1>5, LikeTwice

LEMMA TimerLike ==
  ASSUME NEW e, DOMAIN e = Fields, NEW v, NEW w
  PROVE  /\ Like(e, [e EXCEPT !.t3230 = v]) /\ Like(e, [e EXCEPT !.t3240 = v])
         /\ Like(e, [e EXCEPT !.t3210 = v]) /\ Like(e, [e EXCEPT !.t3212 = v])
         /\ Like(e, [e EXCEPT !.t3240 = v, !.t3230 = w]) /\ Like(e, [e EXCEPT !.periodic = v])
         /\ Like(e, [e EXCEPT !.sapi3_link = v])
         /\ Like(e, e)
BY DEF Fields, Like, Put, SameTurn

LEMMA UnregisteredLike ==
  ASSUME NEW e, DOMAIN e = Fields, NEW illegal
  PROVE  Like(e, Unregistered(e, illegal))
<1>1. PICK sim : Unregistered(e, illegal) = [e EXCEPT !.reg = None, !.sim = sim]
  BY Zenon DEF Unregistered
<1>2. \A s : Like(e, [e EXCEPT !.reg = None, !.sim = s])
  BY SMTT(20) DEF Fields, Like, Put, SameTurn
<1> QED BY <1>1, <1>2

LEMMA MovePut ==
  ASSUME NEW e, DOMAIN e = Fields
  PROVE  /\ Put(e, WaitNetworkCommand(e)) /\ Put(e, ActiveOrWait(e)) /\ Put(e, gsm48_mm_est_mm_con(e))
         /\ \A s : Put(e, [e EXCEPT !.mm = s])
         /\ \A s, v : Put(e, [e EXCEPT !.t3230 = v, !.mm = s]) /\ Put(e, [e EXCEPT !.t3240 = v, !.mm = s])
<1>1. \A s : Put(e, [e EXCEPT !.mm = s])
  BY DEF Fields, Put
<1>2. \A s, v : Put(e, [e EXCEPT !.t3230 = v, !.mm = s]) /\ Put(e, [e EXCEPT !.t3240 = v, !.mm = s])
  BY DEF Fields, Put
<1>3. Put(e, WaitNetworkCommand([e EXCEPT !.t3240 = TRUE])) /\ Put(e, WaitNetworkCommand(e))
  BY DEF Fields, Put, WaitNetworkCommand
<1> QED BY <1>1, <1>2, <1>3 DEF ActiveOrWait, gsm48_mm_est_mm_con

\* The update fails: it is tried again after T3211, which starts now or on the way to idle.
LEMMA FailedFollowed ==
  ASSUME NEW e, Good(e), Tended(e), ~e.plmn
  PROVE  Hears(e, gsm48_mm_loc_upd_failed(e))
<1> DEFINE d == [e EXCEPT !.t3210 = FALSE, !.t3211 = TRUE]
           g == [e EXCEPT !.t3210 = FALSE, !.reg = None, !.start_t3211 = TRUE]
<1>1. IsFcn(d) /\ IsFcn(g)
  BY Zenon DEF IsFcn
<1>2. /\ Typed(d) /\ d.cs = e.cs /\ d.ev = e.ev /\ d.conn = e.conn
      /\ Typed(g) /\ g.cs = e.cs /\ g.ev = e.ev /\ g.conn = e.conn
  BY DEF Good, Typed, Fields
<1>3. DOMAIN e = Fields
  BY DEF Good, Typed
<1>4. /\ Neat(d) /\ ~d.plmn /\ ~Open(d) /\ d.ev = e.ev /\ d.rslq = e.rslq
      /\ Tended(g) /\ ~g.plmn /\ g.start_t3211 /\ g.cs = e.cs /\ g.ev = e.ev /\ g.rslq = e.rslq
  BY <1>3 DEF Fields, Tended, Begun, Neat, Open, OnCell, Alone
<1> HIDE DEF d, g
<1>5. Resting(d) /\ Resting(g)
  BY <1>1, <1>2, <1>4 DEF Resting, Good, OnePending, Pending, CellReported, Tended
<1>6. Followed(d)
  BY <1>4, ShutFollowed
<1>7. g.cs \notin {"CAMPED", "ANY"} => Followed(g)
  BY <1>4 DEF Followed, Told, Tended, Begun, OnCell
<1>8. Goes(d, gsm48_mm_return_idle(d)) /\ Goes(g, gsm48_mm_return_idle(g))
  BY <1>4, <1>5, <1>6, <1>7, MmIdleFollowed
<1>9. Hears(e, gsm48_mm_return_idle(d)) /\ Hears(e, gsm48_mm_return_idle(g))
  BY <1>4, <1>8 DEF Goes, Steady, Hears
<1> QED BY <1>9 DEF gsm48_mm_loc_upd_failed, d, g

\* The update is refused for good where it was asked for.
LEMMA RejectedFollowed ==
  ASSUME NEW e, Good(e), Linked(e), Tended(e), ~Tuned(e), e.mm = "LOC_UPD_REJ"
  PROVE  Hears(e, gsm48_mm_rel_loc_upd_rej(e))
<1> DEFINE d == [e EXCEPT !.t3240 = FALSE, !.plmn = e.rej # "LU_OTHER"]
           g == [d EXCEPT !.forb = @ \cup {e.la}]
           du == Unregistered(d, TRUE)
           gu == Unregistered(g, FALSE)
<1>1. IsFcn(d) /\ IsFcn(g)
  BY Zenon DEF IsFcn
<1>2. Typed(d) /\ Same(e, d) /\ Typed(g) /\ Same(e, g)
  BY DEF Good, Typed, Fields, Same
<1>3. Good(d) /\ Good(g)
  BY <1>1, <1>2, SameGood
<1>4. /\ DOMAIN d = Fields /\ d.rr = e.rr /\ d.cs = e.cs /\ d.rslq = e.rslq /\ d.rrq = e.rrq
      /\ d.la = e.la /\ d.mm = e.mm /\ d.sst = e.sst /\ d.rej = e.rej
      /\ d.plmn = (e.rej # "LU_OTHER") /\ Put(e, d) /\ Neat(d)
      /\ Open(d) = Open(e) /\ (e.rej = "LU_OTHER" => Tended(d))
  <2>0. DOMAIN e = Fields
    BY Zenon DEF Linked, Loose
  <2>1. /\ DOMAIN d = Fields /\ d.rr = e.rr /\ d.cs = e.cs /\ d.rslq = e.rslq /\ d.rrq = e.rrq
        /\ d.la = e.la /\ d.mm = e.mm /\ d.sst = e.sst /\ d.rej = e.rej
        /\ d.plmn = (e.rej # "LU_OTHER")
    BY <2>0 DEF Fields
  <2>2. Put(e, d)
    BY <2>0 DEF Fields, Put
  <2>3. d.lupd = e.lupd /\ d.est_msg = e.est_msg
    BY <2>0 DEF Fields
  <2> HIDE DEF d
  <2>4. Open(d) = Open(e) /\ Neat(d)
    BY Zenon, <2>2 DEF Put, Open, Tended, Neat
  <2>5. e.rej = "LU_OTHER" => Tended(d)
    BY <2>1, <2>2, <2>3, <2>4 DEF Put, Tended, Begun, OnCell, Alone
  <2> QED BY Zenon, <2>1, <2>2, <2>4, <2>5
<1>5. /\ DOMAIN g = Fields /\ g.rr = e.rr /\ g.cs = e.cs /\ g.rslq = e.rslq /\ g.rrq = e.rrq
      /\ g.la = e.la /\ g.mm = e.mm /\ g.sst = e.sst /\ g.rej = e.rej
      /\ e.la \in g.forb /\ g.plmn = d.plmn /\ Put(e, g) /\ Neat(g)
  BY <1>4 DEF Linked, Loose, Fields, Put, Neat
<1> HIDE DEF d, g
<1>6. ASSUME NEW q, NEW illegal \in BOOLEAN, DOMAIN q = Fields, Neat(q), Put(e, q), q.plmn, Good(q),
             q.rr = e.rr, q.cs = e.cs, q.rslq = e.rslq, q.rrq = e.rrq, q.la = e.la, q.mm = e.mm,
             q.sst = e.sst, q.rej = e.rej, illegal \/ e.la \in q.forb
      PROVE  Hears(e, gsm48_mm_return_idle(UpdateDone(Unregistered(q, illegal))))
  <2> DEFINE r == Unregistered(q, illegal)
             u == UpdateDone(r)
  <2>1. PICK sim : (illegal => ~sim) /\ r = [q EXCEPT !.reg = None, !.sim = sim]
    BY Zenon DEF Unregistered
  <2>2. /\ DOMAIN r = Fields /\ r.reg = None /\ r.sim = sim /\ r.forb = q.forb
        /\ r.rr = e.rr /\ r.cs = e.cs /\ r.rslq = e.rslq /\ r.rrq = e.rrq /\ r.la = e.la
        /\ r.mm = e.mm /\ r.sst = e.sst /\ r.rej = e.rej /\ r.plmn
    BY <1>6, <2>1 DEF Fields
  <2>3. Like(q, r) /\ Good(r)
    BY <1>6, UnregisteredLike, UnregisteredGood
  <2> HIDE DEF r
  <2>4. Linked(r)
    BY <1>6, <2>1, <2>2 DEF Linked, Loose, Ending, Tuned, Refused
  <2>5. Good(u) /\ Linked(u) /\ u.plmn
    BY <2>2, <2>3, <2>4, UpdateDoneGood, UpdateDoneAlike, AlikeLinked DEF Alike, SameCell
  <2>6. Neat(u) /\ ~Open(u) /\ u.ev = e.ev /\ u.rslq = e.rslq
    BY <1>6, <2>2, <2>3 DEF Fields, UpdateDone, Neat, Open, Like, Put
  <2> HIDE DEF u
  <2>7. Goes(u, gsm48_mm_return_idle(u))
    BY <2>5, <2>6, RefusedFollowed
  <2> QED BY <2>6, <2>7 DEF Goes, Steady, Hears, u, r
<1>7. e.rej # "LU_OTHER" => /\ Hears(e, gsm48_mm_return_idle(UpdateDone(du)))
                            /\ Hears(e, gsm48_mm_return_idle(UpdateDone(gu)))
  BY <1>3, <1>4, <1>5, <1>6
<1>8. ASSUME e.rej = "LU_OTHER" PROVE Hears(e, gsm48_mm_loc_upd_failed(d))
  <2>1. Hears(d, gsm48_mm_loc_upd_failed(d))
    BY <1>3, <1>4, <1>8, FailedFollowed
  <2> QED BY <1>4, <2>1 DEF Hears, Put
<1>9. e.rej \in LuRejections
  BY DEF Linked, Loose
<1> QED BY <1>7, <1>8, <1>9 DEF gsm48_mm_rel_loc_upd_rej, LuRejections, g, d, du, gu

LEMMA ReleasedFollowed ==
  ASSUME NEW e, Good(e), Linked(e), Tended(e), Orderly(e), NEW prim \in Ends,
         e.mm = "LOC_UPD_REJ" => ~Tuned(e)
  PROVE  Hears(e, gsm48_rcv_rr(e, prim))
<1> DEFINE d == [e EXCEPT !.t3240 = FALSE, !.t3230 = FALSE]
           g == [e EXCEPT !.t3240 = FALSE]
           r == gsm48_mm_release_mm_conn(d, Connected(e), "ERR_IND")
<1>1. IsFcn(d) /\ IsFcn(g)
  BY Zenon DEF IsFcn
<1>2. Typed(d) /\ Same(e, d) /\ Typed(g) /\ Same(e, g)
  BY DEF Good, Typed, Fields, Same
<1>3. Good(d) /\ Good(g) /\ DOMAIN e = Fields
  BY ZenonT(40), <1>1, <1>2, SameGood DEF Good, Typed
<1>4. /\ Like(e, d) /\ Alike(e, d) /\ DOMAIN d = Fields /\ Like(e, g) /\ Alike(e, g)
  <2>1. Like(e, d) /\ Like(e, g)
    BY <1>3, TimerLike
  <2>2. Alike(e, d) /\ Alike(e, g)
    BY <1>3, TimerAlike
  <2> QED BY <1>3, <2>1, <2>2 DEF Alike, SameCell
<1> HIDE DEF d, g
<1>5. Good(r) /\ Like(d, r)
  BY <1>3, <1>4, ReleaseConnKept, ConnLike DEF MmxxPrims
<1> HIDE DEF r
<1>6. Like(e, r) /\ Tended(r) /\ Tended(g) /\ Linked(g)
  BY <1>4, <1>5, LikeTwice, LikeFollowed, AlikeLinked
<1>7. e.mm \notin UpdateStates => ~Open(r) /\ ~Open(g) /\ ~Open(e)
  BY <1>4, <1>6, LikeFollowed DEF Tended, Begun
<1>8. e.mm \in {"WAIT_RR_CONN_LUPD", "LOC_UPD_INIT"} => Hears(e, gsm48_mm_rel_loc_upd_abort(e))
  <2>1. ASSUME e.mm \in {"WAIT_RR_CONN_LUPD", "LOC_UPD_INIT"} PROVE ~g.plmn
    BY <1>4, <2>1 DEF Linked, Loose, Refused, Like, SameTurn
  <2>2. ~g.plmn => Hears(g, gsm48_mm_loc_upd_failed(g))
    BY <1>3, <1>6, FailedFollowed
  <2> QED BY <1>4, <2>1, <2>2 DEF gsm48_mm_rel_loc_upd_abort, g, Hears, Like, Put
<1>9. ASSUME NEW f, Good(f), Like(e, f), Tended(f), ~Open(f), f.plmn => Linked(f)
      PROVE  Hears(e, gsm48_mm_return_idle(f))
  <2>1. ~f.plmn => Goes(f, gsm48_mm_return_idle(f))
    BY <1>9, ShutFollowed, MmIdleFollowed DEF Resting, Tended
  <2>2. f.plmn => Goes(f, gsm48_mm_return_idle(f))
    BY <1>9, RefusedFollowed DEF Tended
  <2> QED BY <1>9, <2>1, <2>2, GoesHears DEF Like
<1>10. e.mm \in {"IDLE", "WAIT_NETWORK_CMD"} => Hears(e, gsm48_mm_rel_other(e))
  BY <1>3, <1>4, <1>6, <1>7, <1>9 DEF UpdateStates, gsm48_mm_rel_other, g
<1>11. ASSUME e.mm \in ConnStates PROVE Hears(e, gsm48_mm_abort_mm_con(e))
  <2>1. ~Open(r) /\ ~r.plmn
    BY <1>6, <1>7, <1>11 DEF UpdateStates, ConnStates, Orderly, Like, SameTurn
  <2> QED BY <1>5, <1>6, <1>9, <2>1 DEF gsm48_mm_abort_mm_con, r, d
<1>12. e.mm = "LOC_UPD_REJ" => Hears(e, gsm48_mm_rel_loc_upd_rej(e))
  BY RejectedFollowed
<1>13. e.mm \in {"IDLE", "WAIT_NETWORK_CMD"} \cup ConnStates \cup UpdateStates
  BY DEF Good, Typed, ConnStates, UpdateStates
<1> QED BY <1>8, <1>10, <1>11, <1>12, <1>13
        DEF gsm48_rcv_rr, Ends, ConnStates, UpdateStates, CmRejections, LuRejections

\* An answer to a request for a connection comes when no update is followed by the
\* state of MM only.
LEMMA ServiceFollowed ==
  ASSUME NEW e, Good(e), Followed(e), ~Open(e), NEW cause
  PROVE  Hears(e, gsm48_mm_rx_cm_service_acc(e)) /\ Hears(e, gsm48_mm_rx_cm_service_rej(e, cause))
<1>0. DOMAIN e = Fields /\ Neat(e)
  BY DEF Good, Typed, Followed, Tended
<1>1. Put(e, gsm48_mm_rx_cm_service_acc(e))
  <2> DEFINE a == [e EXCEPT !.t3230 = FALSE, !.mm = "CONN_ACTIVE"]
             ref == CHOOSE r \in Pending(a) : TRUE
             d == [a EXCEPT !.conn[ref] = "DEDICATED"]
             w == [d EXCEPT !.s3 = "WAIT_EST", !.dl3 = IF @ = "IDLE" THEN "SABM_SENT" ELSE @]
  <2>1. Put(e, a) /\ DOMAIN a = Fields
    BY <1>0, MovePut, PutDomain
  <2> HIDE DEF a
  <2>2. Put(a, d) /\ DOMAIN d = Fields
    BY <2>1, ConnLike, PutDomain
  <2> HIDE DEF d
  <2>3. \A p : Put(d, gsm48_rr_upmsg(d, p, 3))
    BY <2>2 DEF Fields, Put, gsm48_rr_upmsg
  <2>4. Put(d, w)
    BY <2>2 DEF Fields, Put
  <2> HIDE DEF w
  <2>5. Put(d, gsm48_rr_est_req_sapi3(d))
    BY <2>3, <2>4 DEF gsm48_rr_est_req_sapi3, w, Put
  <2>6. Put(d, gsm48_mmxx_upmsg(d, {ref}, "EST_CNF"))
    BY <2>2, ConnLike, PutDomain
  <2>7. Put(a, gsm48_mm_conn_go_dedic(a))
    BY <2>2, <2>5, <2>6, PutTwice DEF gsm48_mm_conn_go_dedic, d, ref, Put
  <2> QED BY Zenon, <2>1, <2>7, PutTwice DEF gsm48_mm_rx_cm_service_acc, a
<1>2. Put(e, gsm48_mm_rx_cm_service_rej(e, cause))
  <2> DEFINE unknown == cause \in {"CM_REJ_UNKNOWN", "CM_REJ_ILLEGAL"}
             t == [e EXCEPT !.t3230 = FALSE]
             d == gsm48_mm_release_mm_conn(t, IF unknown THEN Connected(e) ELSE Pending(e), "REL_IND")
             u == Unregistered(d, cause = "CM_REJ_ILLEGAL")
             f == IF unknown THEN u ELSE d
  <2>1. Like(e, t)
    BY <1>0, TimerLike
  <2> HIDE DEF t, unknown
  <2>2. Like(t, d)
    BY <1>0, <2>1, ConnLike, PutDomain
  <2> HIDE DEF d
  <2>3. Like(e, d) /\ DOMAIN d = Fields
    BY <1>0, <2>1, <2>2, LikeTwice, PutDomain
  <2>4. Like(d, u)
    BY <2>3, UnregisteredLike
  <2> HIDE DEF u
  <2>5. Put(e, f) /\ DOMAIN f = Fields
    <3>1. Like(e, u) /\ f \in {d, u}
      BY <2>3, <2>4, LikeTwice
    <3> HIDE DEF f
    <3> QED BY <1>0, <2>3, <3>1, PutDomain
  <2>6. gsm48_mm_rx_cm_service_rej(e, cause) \in {WaitNetworkCommand(f), [f EXCEPT !.mm = "CONN_ACTIVE"]}
    BY Zenon DEF gsm48_mm_rx_cm_service_rej, f, u, d, t, unknown
  <2> HIDE DEF f
  <2>7. Put(f, WaitNetworkCommand(f)) /\ Put(f, [f EXCEPT !.mm = "CONN_ACTIVE"])
    BY <2>5, MovePut
  <2> QED BY <2>5, <2>6, <2>7, PutTwice
<1> QED BY <1>0, <1>1, <1>2, PutFollowed

LEMMA AbortFollowed ==
  ASSUME NEW e, Good(e), Followed(e), e.cs = "CONNECTED", NEW cause
  PROVE  Hears(e, gsm48_mm_rx_abort(e, cause)) /\ Hears(e, gsm48_mm_rx_auth_rej(e))
<1> DEFINE t == [e EXCEPT !.t3230 = FALSE]
           d == gsm48_mm_release_mm_conn(t, Connected(e), "REL_IND")
           u == Unregistered(d, TRUE)
           s == [e EXCEPT !.t3212 = FALSE]
           v == Unregistered(s, TRUE)
<1>0. DOMAIN e = Fields
  BY DEF Good, Typed
<1>1. Like(e, t) /\ Like(e, s) /\ Like(e, e)
  BY <1>0, TimerLike
<1> HIDE DEF t, s
<1>2. Like(t, d) /\ Like(s, v)
  BY <1>0, <1>1, ConnLike, UnregisteredLike, PutDomain
<1> HIDE DEF d, v
<1>3. Like(e, d) /\ Like(e, v) /\ DOMAIN d = Fields
  BY <1>0, <1>1, <1>2, LikeTwice, PutDomain
<1>4. Like(e, u)
  BY <1>3, UnregisteredLike, LikeTwice
<1> HIDE DEF u
<1>5. gsm48_mm_return_idle(u) = u
  BY <1>4 DEF gsm48_mm_return_idle, ReturnIdle, Like, SameTurn
<1>6. gsm48_mm_rx_abort(e, cause) \in {e, d, u} /\ gsm48_mm_rx_auth_rej(e) = v
  BY <1>5 DEF gsm48_mm_rx_abort, gsm48_mm_rx_auth_rej, u, d, t, v, s
<1> QED BY <1>1, <1>3, <1>4, <1>6, LikeFollowed

LEMMA SetupFollowed ==
  ASSUME NEW e, Good(e), Followed(e), NEW ref
  PROVE  Hears(e, gsm48_mm_data_ind_setup(e, ref))
<1> DEFINE left == e.rel_wait \/ e.t3210 \/ e.mm \in UpdateStates
           strays == IF left THEN e.stray \cup {ref} ELSE e.stray
           d == [e EXCEPT !.conn[ref] = "IDLE", !.stray = strays]
           g == [d EXCEPT !.t3240 = FALSE, !.mm = "CONN_ACTIVE"]
<1> HIDE DEF left, strays
<1>1. Like(e, d)
  BY ConnLike DEF Good, Typed
<1> HIDE DEF d
<1>2. Put(d, g)
  BY <1>1, MovePut DEF Good, Typed, Like, Put
<1> HIDE DEF g
<1>3. Hears(e, d)
  BY <1>1, LikeFollowed
<1>4. e.mm = "WAIT_NETWORK_CMD" => Hears(e, g)
  <2>1. e.mm = "WAIT_NETWORK_CMD" => ~Open(e)
    BY DEF Followed, Tended, Begun, UpdateStates
  <2> QED BY <1>1, <1>2, <2>1, PutTwice, PutFollowed DEF Followed, Tended, Like
<1>5. gsm48_mm_data_ind_setup(e, ref) = IF e.mm = "WAIT_NETWORK_CMD" THEN g ELSE d
  BY Zenon DEF gsm48_mm_data_ind_setup, d, g, strays, left
<1> QED BY <1>3, <1>4, <1>5

\* The channel is up: the update goes on there, or ends.
LEMMA LocUpdAnswersFollowed ==
  ASSUME NEW e, Good(e), Followed(e), e.rr = "DEDICATED", e.mm \in {"WAIT_RR_CONN_LUPD", "LOC_UPD_INIT"},
         NEW cause
  PROVE  /\ Hears(e, gsm48_mm_est_loc_upd(e)) /\ Hears(e, gsm48_mm_rx_loc_upd_acc(e))
         /\ Hears(e, gsm48_mm_rx_loc_upd_rej(e, cause))
<1>0. DOMAIN e = Fields
  BY DEF Good, Typed
<1>1. ASSUME NEW d, Put(e, d), d.mm \in UpdateStates, d.start_t3211 = e.start_t3211, d.lupd = e.lupd,
             d.plmn = e.plmn, d.cs = e.cs, d.rr = e.rr, d.rrq = e.rrq, d.est_msg = e.est_msg,
             d.rel_wait = e.rel_wait
      PROVE  Hears(e, d)
  BY <1>1 DEF Put, Hears, Followed, Tended, Begun, Open, Neat, OnCell, Alone, Told, Tells, Awaits, Granted
<1>2. Hears(e, gsm48_mm_est_loc_upd(e))
  <2> DEFINE d == gsm48_mm_est_loc_upd(e)
  <2>1. /\ Put(e, d) /\ d.mm \in UpdateStates /\ d.start_t3211 = e.start_t3211 /\ d.lupd = e.lupd
        /\ d.plmn = e.plmn /\ d.cs = e.cs /\ d.rr = e.rr /\ d.rrq = e.rrq /\ d.est_msg = e.est_msg
        /\ d.rel_wait = e.rel_wait
    BY <1>0 DEF gsm48_mm_est_loc_upd, Fields, Put, UpdateStates
  <2> QED BY <1>1, <2>1
<1>3. Hears(e, gsm48_mm_rx_loc_upd_rej(e, cause))
  <2> DEFINE d == gsm48_mm_rx_loc_upd_rej(e, cause)
  <2>1. /\ Put(e, d) /\ d.mm \in UpdateStates /\ d.start_t3211 = e.start_t3211 /\ d.lupd = e.lupd
        /\ d.plmn = e.plmn /\ d.cs = e.cs /\ d.rr = e.rr /\ d.rrq = e.rrq /\ d.est_msg = e.est_msg
        /\ d.rel_wait = e.rel_wait
    BY <1>0 DEF gsm48_mm_rx_loc_upd_rej, Fields, Put, UpdateStates
  <2> QED BY <1>1, <2>1
<1>4. Hears(e, gsm48_mm_rx_loc_upd_acc(e))
  <2> DEFINE u == UpdateDone(e)
             d == [u EXCEPT !.t3212 = FALSE, !.t3210 = FALSE, !.t3240 = TRUE,
                            !.reg = e.la, !.forb = @ \ {e.la}]
  <2>1. Neat(u) /\ ~Open(u) /\ u.ev = e.ev /\ u.rslq = e.rslq /\ DOMAIN u = Fields
    BY <1>0 DEF Fields, UpdateDone, Neat, Open, Followed, Tended
  <2> HIDE DEF u
  <2>2. Put(u, d) /\ DOMAIN d = Fields
    BY SMTT(20), <2>1 DEF Fields, Put
  <2> HIDE DEF d
  <2>3. Put(u, WaitNetworkCommand(d))
    BY <2>2, MovePut, PutTwice
  <2>4. Hears(u, WaitNetworkCommand(d))
    BY <2>1, <2>3, PutFollowed
  <2> QED BY <2>1, <2>4 DEF gsm48_mm_rx_loc_upd_acc, d, u, Hears
<1> QED BY <1>2, <1>3, <1>4

\* A message over the channel, or that it is up.
LEMMA UpFollowed ==
  ASSUME NEW e, Good(e), Followed(e), NEW prim, prim \notin Ends,
         prim \in {"CM_SERV_ACC"} \cup CmRejections => ~Open(e),
         e.rr = "DEDICATED", e.cs = "CONNECTED"
  PROVE  Hears(e, gsm48_rcv_rr(e, prim))
<1>0. DOMAIN e = Fields /\ Neat(e)
  BY DEF Good, Typed, Followed, Tended
<1>1. Hears(e, e)
  BY Zenon DEF Hears
<1>2. e.mm \notin UpdateStates => Hears(e, WaitNetworkCommand(e)) /\ Hears(e, gsm48_mm_est_mm_con(e))
  <2>1. e.mm \notin UpdateStates => ~Open(e)
    BY DEF Followed, Tended, Begun
  <2> QED BY <1>0, <2>1, MovePut, PutFollowed
<1>3. /\ prim \in {"CM_SERV_ACC"} \cup CmRejections =>
           Hears(e, gsm48_mm_rx_cm_service_acc(e)) /\ Hears(e, gsm48_mm_rx_cm_service_rej(e, prim))
      /\ Hears(e, gsm48_mm_rx_abort(e, prim)) /\ Hears(e, gsm48_mm_rx_auth_rej(e))
      /\ Hears(e, gsm48_mm_data_ind_setup(e, prim))
  BY ServiceFollowed, AbortFollowed, SetupFollowed
<1>4. e.mm \in {"WAIT_RR_CONN_LUPD", "LOC_UPD_INIT"} =>
        /\ Hears(e, gsm48_mm_est_loc_upd(e)) /\ Hears(e, gsm48_mm_rx_loc_upd_acc(e))
        /\ Hears(e, gsm48_mm_rx_loc_upd_rej(e, prim))
  BY LocUpdAnswersFollowed
<1> QED BY <1>1, <1>2, <1>3, <1>4 DEF gsm48_rcv_rr, Ends, UpdateStates

LEMMA RcvSapi3Followed ==
  ASSUME NEW e, Good(e), Followed(e), NEW prim
  PROVE  Hears(e, gsm48_rcv_rr_sapi3(e, prim))
<1> DEFINE d == [e EXCEPT !.sapi3_link = TRUE]
           g == [e EXCEPT !.sapi3_link = FALSE]
           x == gsm48_mmxx_upmsg(d, {ref \in Messages : e.conn[ref] = "DEDICATED"}, "EST_CNF")
           y == gsm48_mm_release_mm_conn(g, Connected(e) \cap Messages, "REL_IND")
<1>0. DOMAIN e = Fields
  BY DEF Good, Typed
<1>1. Like(e, d) /\ Like(e, g) /\ Like(e, e)
  BY <1>0, TimerLike
<1> HIDE DEF d, g
<1>2. Like(d, x) /\ Like(g, y)
  BY <1>0, <1>1, ConnLike, PutDomain
<1> HIDE DEF x, y
<1>3. Like(e, x) /\ Like(e, y)
  BY <1>1, <1>2, LikeTwice
<1>4. gsm48_rcv_rr_sapi3(e, prim) \in {x, y, e}
  BY DEF gsm48_rcv_rr_sapi3, d, g, x, y
<1> QED BY <1>1, <1>3, <1>4, LikeFollowed

\* Cell selection reports: an update that is followed was begun on a cell.
LEMMA EventFollowed ==
  ASSUME NEW e, Good(e), Linked(e), Tended(e), ~Tells(e), NEW event \in Events,
         Open(e) => e.start_t3211 \/ Awaits(e),
         event = "NO_CELL_FOUND" => e.cs \in {"NO_CELL", "CHOOSING"},
         event = "LOST_COVERAGE" => e.cs # "CAMPED"
  PROVE  Hears(e, gsm48_mm_event(e, event))
<1>1. Neat(e) /\ (e.mm \notin UpdateStates => ~Open(e))
  BY DEF Tended, Begun
<1>2. Open(e) => e.cs \in {"CAMPED", "CONNECTED"} /\ ~e.plmn
  BY DEF Tended, Begun, OnCell
<1>3. ~Open(e) => Followed(e)
  BY <1>1, ShutFollowed
<1>4. ASSUME NEW f, Goes(e, f) PROVE Hears(e, f)
  BY <1>4 DEF Goes, Steady, Hears
<1>5. Open(e) /\ e.cs = "CONNECTED" => Followed(e)
  BY DEF Followed, Told
<1>6. Open(e) /\ e.cs # "CONNECTED" => e.start_t3211
  BY DEF Awaits, Granted
<1>7. Hears(e, gsm48_mm_return_idle(e))
  <2>1. ~e.plmn => Goes(e, gsm48_mm_return_idle(e))
    BY <1>1, <1>2, <1>3, <1>5, <1>6, MmIdleFollowed DEF Resting
  <2>2. e.plmn => Goes(e, gsm48_mm_return_idle(e))
    BY <1>1, <1>2, RefusedFollowed
  <2> QED BY <1>4, <2>1, <2>2
<1>8. ASSUME ~Open(e), NEW sst \in {"NO_CELL", "PLMN_SEARCH", "NO_IMSI", "LIMITED_SERVICE"}
      PROVE  Goes(e, new_mm_state_idle(e, sst))
  <2>1. ~e.plmn => Goes(e, new_mm_state_idle(e, sst))
    BY <1>1, <1>8, MmIdleFollowed DEF Resting, SubStates, Serving
  <2>2. Goes(e, EnterIdle(e, sst, LocUpd3))
    BY <1>1, <1>8, EnterLimitedFollowed DEF Good, Typed
  <2> QED BY <2>1, <2>2 DEF new_mm_state_idle, NewStateIdle
<1>9. ASSUME e.mm = "IDLE", e.sst \in Serving PROVE Goes(e, gsm48_mm_loc_upd_normal(e))
  <2>1. ~Open(e) /\ Followed(e)
    BY <1>1, <1>3, <1>9 DEF UpdateStates
  <2>2. ~e.plmn => Goes(e, gsm48_mm_loc_upd_normal(e))
    BY <1>1, <2>1, MmIdleFollowed DEF Resting
  <2>3. e.plmn => Goes(e, gsm48_mm_loc_upd_normal(e))
    BY <1>1, <1>9, <2>1, RefusedFollowed DEF Linked, Loose, Refused
  <2> QED BY <2>2, <2>3
<1>10. ASSUME e.mm = "IDLE" PROVE Goes(e, gsm48_mm_cell_selected(e))
  <2>1. ~Open(e)
    BY <1>1, <1>10 DEF UpdateStates
  <2>2. ~e.plmn => \A sst \in {"NORMAL", "LOC_UPD_NEEDED"} : Goes(e, new_mm_state_idle(e, sst))
    BY <1>1, <2>1, MmIdleFollowed DEF Resting, SubStates, Serving
  <2>3. e.plmn /\ e.sim => e.la \in e.forb /\ e.reg # e.la
    BY RefAssumption DEF Linked, Loose, Refused
  <2> QED BY <1>8, <2>1, <2>2, <2>3 DEF gsm48_mm_cell_selected
<1>11. ASSUME event = "NO_CELL_FOUND" PROVE ~Open(e)
  BY <1>2, <1>11
<1>12. event = "LOST_COVERAGE" => Followed(e)
  BY <1>2, <1>3, <1>5
<1>13. Followed(e) => Hears(e, e)
  BY DEF Hears
<1>14. e.mm = "IDLE" => ~Open(e)
  BY <1>1 DEF UpdateStates
<1>15. CASE event = "CELL_SELECTED"
  BY <1>3, <1>4, <1>7, <1>9, <1>10, <1>13, <1>14, <1>15 DEF gsm48_mm_event
<1>16. CASE event = "NO_CELL_FOUND"
  BY <1>3, <1>4, <1>8, <1>11, <1>13, <1>16 DEF gsm48_mm_event
<1>17. CASE event = "LOST_COVERAGE"
  BY <1>4, <1>8, <1>12, <1>13, <1>14, <1>17 DEF gsm48_mm_event
<1> QED BY <1>15, <1>16, <1>17 DEF Events

\* One cell is reported at a time, and not while a message of the data link waits that
\* could bring a channel.
Single(d) == Len(d.ev) <= 1 /\ (d.rslq = <<>> \/ d.ev = <<>> \/ d.rr = "IDLE")

LEMMA HearsSingle ==
  ASSUME NEW e, NEW d, Hears(e, d), Len(e.ev) <= 1, e.rslq = <<>> \/ e.ev = <<>>
  PROVE  Followed(d) /\ Single(d)
BY DEF Hears, Single

\* What MM stops a timer of remains as it was.
LEMMA StoppedKept ==
  ASSUME NEW e, Kept(e)
  PROVE  Kept([e EXCEPT !.t3240 = FALSE]) /\ Kept([e EXCEPT !.t3210 = FALSE])
<1> DEFINE g == [e EXCEPT !.t3240 = FALSE]
           h == [e EXCEPT !.t3210 = FALSE]
<1>1. IsFcn(g) /\ IsFcn(h)
  BY Zenon DEF IsFcn
<1>2. Typed(g) /\ Same(e, g) /\ Typed(h) /\ Same(e, h)
  BY DEF Kept, Good, Typed, Fields, Same
<1> HIDE DEF g, h
<1>3. Kept(g) /\ Kept(h)
  BY <1>1, <1>2, SameKept
<1> QED BY <1>3 DEF g, h

\* Timers come when no message waits.
LEMMA ServiceTimersFollowed ==
  ASSUME NEW e, Kept(e), Followed(e), ~e.plmn, e.rslq = <<>>, e.rrq = <<>>, e.ev = <<>>
  PROVE  /\ Followed(timeout_mm_t3230(e)) /\ Single(timeout_mm_t3230(e))
         /\ Followed(timeout_mm_t3240(e)) /\ Single(timeout_mm_t3240(e))
         /\ Followed(timeout_mm_t3210(e)) /\ Single(timeout_mm_t3210(e))
<1> DEFINE d == [e EXCEPT !.t3230 = FALSE]
           g == [e EXCEPT !.t3240 = FALSE]
           h == [e EXCEPT !.t3210 = FALSE]
           r == gsm48_mm_release_mm_conn(d, Pending(d), "REL_IND")
<1>0. DOMAIN e = Fields /\ Neat(e) /\ Len(e.ev) <= 1
  BY DEF Kept, Good, Typed, Followed, Tended
<1>3. Kept(g) /\ Kept(h)
  BY StoppedKept
<1>4. Like(e, d) /\ Like(e, g) /\ Like(e, h)
  BY <1>0, TimerLike
<1> HIDE DEF d, g, h
<1>5. Like(d, r)
  BY <1>0, <1>4, ConnLike, PutDomain
<1> HIDE DEF r
<1>6. Like(e, r) /\ DOMAIN r = Fields
  BY <1>0, <1>4, <1>5, LikeTwice, PutDomain
<1> DEFINE Done(x) == Followed(x) /\ Single(x)
<1>7. \A x : Hears(e, x) => Done(x)
  BY <1>0, HearsSingle
<1>8. Done(d) /\ Done(g) /\ Done(h)
  BY <1>4, <1>7, LikeFollowed
<1>9. e.mm \in {"WAIT_OUT_MM_CONN", "WAIT_ADD_OUT_MM_CON"} => Done(ActiveOrWait(r))
  <2>1. Put(e, ActiveOrWait(r))
    BY <1>0, <1>6, MovePut, PutTwice, PutDomain
  <2>2. e.mm \in {"WAIT_OUT_MM_CONN", "WAIT_ADD_OUT_MM_CON"} => ~Open(e)
    BY DEF Followed, Tended, Begun, UpdateStates
  <2> QED BY Zenon, <1>0, <1>7, <2>1, <2>2, PutFollowed
<1>10. ASSUME NEW f \in {g, h}
       PROVE  LET a == gsm48_rr_abort_req(f) IN
              /\ Good(a) /\ Tended(a) /\ ~a.plmn /\ (Open(a) => Open(e)) /\ a.start_t3211 = e.start_t3211
              /\ e.rr # "CONN_PEND" => a.cs = e.cs
              /\ (e.rr = "CONN_PEND" /\ Open(e) => Told(e)) => Followed(a)
              /\ Len(a.ev) <= 1 /\ (a.rslq = <<>> \/ a.ev = <<>>)
  <2>1. Kept(f) /\ Like(e, f)
    BY <1>3, <1>4
  <2>2. /\ f.rslq = <<>> /\ f.ev = <<>> /\ f.start_t3211 = e.start_t3211 /\ f.rr = e.rr /\ f.cs = e.cs
        /\ f.plmn = e.plmn /\ (Told(e) => Told(f))
    BY <2>1 DEF Like, Put, SameTurn, Told, Tells
  <2>3. Followed(f) /\ Open(f) = Open(e) /\ Queued(f)
    BY <2>1, LikeFollowed, GoodQueued DEF Hears, Kept
  <2> DEFINE a == gsm48_rr_abort_req(f)
  <2>4. Good(a)
    BY <2>1, AbortReqKept DEF Kept
  <2>5. /\ Tended(a) /\ (Open(a) => Open(f)) /\ a.start_t3211 = f.start_t3211
        /\ a.plmn = f.plmn /\ (f.rr # "CONN_PEND" => a.cs = f.cs)
        /\ (f.rr = "CONN_PEND" /\ Open(f) => Told(f)) => Followed(a)
        /\ Len(a.ev) <= 1 /\ (a.rslq = <<>> \/ a.ev = <<>>)
    BY <2>2, <2>3, AbortReqFollowed
  <2> HIDE DEF a
  <2>6. /\ Good(a) /\ Tended(a) /\ ~a.plmn /\ (Open(a) => Open(e)) /\ a.start_t3211 = e.start_t3211
        /\ e.rr # "CONN_PEND" => a.cs = e.cs
        /\ (e.rr = "CONN_PEND" /\ Open(e) => Told(e)) => Followed(a)
        /\ Len(a.ev) <= 1 /\ (a.rslq = <<>> \/ a.ev = <<>>)
    BY <2>2, <2>3, <2>4, <2>5
  <2> QED BY <2>6 DEF a
<1>11. e.mm # "IDLE" => Done(gsm48_mm_loc_upd_failed(gsm48_rr_abort_req(h)))
  <2> DEFINE a == gsm48_rr_abort_req(h)
  <2>1. /\ Good(a) /\ Tended(a) /\ ~a.plmn
        /\ Len(a.ev) <= 1 /\ (a.rslq = <<>> \/ a.ev = <<>>)
    BY <1>10
  <2> HIDE DEF a
  <2>2. Hears(a, gsm48_mm_loc_upd_failed(a))
    BY <2>1, FailedFollowed
  <2> QED BY <2>1, <2>2, HearsSingle DEF a
<1>12. ASSUME e.mm \in {"WAIT_NETWORK_CMD", "LOC_UPD_REJ"}
       PROVE  Done(gsm48_mm_return_idle(gsm48_rr_abort_req(g)))
  <2> DEFINE a == gsm48_rr_abort_req(g)
  <2>1. /\ Good(a) /\ Tended(a) /\ ~a.plmn /\ (Open(a) => Open(e)) /\ a.start_t3211 = e.start_t3211
        /\ e.rr # "CONN_PEND" => a.cs = e.cs
        /\ (e.rr = "CONN_PEND" /\ Open(e) => Told(e)) => Followed(a)
        /\ Len(a.ev) <= 1 /\ (a.rslq = <<>> \/ a.ev = <<>>)
    BY <1>10
  <2> HIDE DEF a
  <2>2. Open(e) => e.mm = "LOC_UPD_REJ"
    BY <1>12 DEF Followed, Tended, Begun, UpdateStates
  <2>3. ~Tells(e)
    BY DEF Tells
  <2>4. Open(e) => (e.start_t3211 /\ Told(e)) \/ (Awaits(e) /\ e.rr # "CONN_PEND" /\ e.cs = "CONNECTED")
    BY <2>2, <2>3 DEF Followed, Told, Awaits, Granted
  <2>5. Followed(a)
    BY <2>1, <2>4
  <2>6. a.cs \in {"CAMPED", "ANY"} /\ Open(a) => a.start_t3211
    BY <2>1, <2>4
  <2>7. Goes(a, gsm48_mm_return_idle(a))
    BY <2>1, <2>5, <2>6, MmIdleFollowed DEF Resting, Tended
  <2> QED BY <2>1, <2>7, HearsSingle DEF Goes, Steady, Hears, a
<1> HIDE DEF Done
<1>13. Done(timeout_mm_t3230(e)) /\ Done(timeout_mm_t3240(e)) /\ Done(timeout_mm_t3210(e))
  BY <1>8, <1>9, <1>11, <1>12
     DEF timeout_mm_t3230, timeout_mm_t3240, timeout_mm_t3210, gsm48_mm_timeout_mm_con,
         gsm48_mm_abort_rr, d, g, h, r
<1> QED BY <1>13 DEF Done

\* When T3211 expires the update is tried, put off or noted as lost.
LEMMA UpdateTimersFollowed ==
  ASSUME NEW e, Good(e), Followed(e), ~e.plmn
  PROVE  Hears(e, timeout_mm_t3211(e)) /\ Hears(e, timeout_mm_t3212(e))
<1> DEFINE d == [e EXCEPT !.t3211 = FALSE]
           l == [d EXCEPT !.lost = @ \/ e.pending]
           r == [d EXCEPT !.retry = TRUE]
           g == [e EXCEPT !.t3212 = FALSE]
           p == [g EXCEPT !.periodic = TRUE]
<1>0. DOMAIN e = Fields /\ Neat(e) /\ (e.mm = "IDLE" => ~Open(e))
  BY DEF Good, Typed, Followed, Tended, Begun, UpdateStates
<1>1. IsFcn(d) /\ IsFcn(g)
  BY Zenon DEF IsFcn
<1>2. Typed(d) /\ Same(e, d) /\ Typed(g) /\ Same(e, g)
  BY DEF Good, Typed, Fields, Same
<1>3. Good(d) /\ Good(g)
  BY <1>1, <1>2, SameGood
<1>4. Like(e, g) /\ DOMAIN g = Fields
  BY <1>0, TimerLike, PutDomain
<1>5. /\ Neat(d) /\ ~d.plmn /\ d.ev = e.ev /\ d.rslq = e.rslq /\ d.pending = e.pending
      /\ d.mm = e.mm /\ d.sst = e.sst
      /\ Neat(l) /\ ~Open(l) /\ l.ev = e.ev /\ l.rslq = e.rslq
      /\ Neat(r) /\ ~Open(r) /\ r.ev = e.ev /\ r.rslq = e.rslq
  BY ZenonT(40), <1>0 DEF Fields, Neat, Open
<1> HIDE DEF d, g, l, r
<1>6. Like(g, p)
  BY <1>4, TimerLike
<1> HIDE DEF p
<1>7. Hears(e, l) /\ Hears(e, r)
  BY <1>5, ShutFollowed DEF Hears
<1>8. Hears(e, gsm48_mm_loc_upd(d))
  <2>1. Goes(d, gsm48_mm_loc_upd(d))
    BY <1>3, <1>5, MmIdleFollowed DEF Resting
  <2> QED BY <1>5, <2>1 DEF Goes, Steady, Hears
<1>9. Hears(e, g) /\ Hears(e, p)
  BY <1>4, <1>6, LikeTwice, LikeFollowed
<1>10. e.mm = "IDLE" => Hears(e, gsm48_mm_loc_upd_periodic(g))
  <2>1. Resting(g) /\ (e.mm = "IDLE" => ~Open(g))
    BY <1>0, <1>3, <1>4, <1>9, LikeFollowed DEF Resting, Hears, Followed, Tended, Like, SameTurn
  <2>2. e.mm = "IDLE" => Goes(g, gsm48_mm_loc_upd_periodic(g))
    BY <2>1, MmIdleFollowed
  <2> QED BY <1>4, <2>2, GoesHears DEF Like
<1>11. timeout_mm_t3211(e) \in {l, r} \/ timeout_mm_t3211(e) = gsm48_mm_loc_upd(d)
  BY DEF timeout_mm_t3211, l, r, d
<1>12. timeout_mm_t3212(e) \in {g, p} \/ (e.mm = "IDLE" /\ timeout_mm_t3212(e) = gsm48_mm_loc_upd_periodic(g))
  BY DEF timeout_mm_t3212, g, p
<1> QED BY <1>7, <1>8, <1>9, <1>10, <1>11, <1>12

\* Requests of the users come when no update is under way, or are rejected.
LEMMA RequestFollowed ==
  ASSUME NEW e, Good(e), Followed(e), NEW ref
  PROVE  Hears(e, MmEstReq(e, ref)) /\ Hears(e, MmRelReq(e, ref))
<1>0. DOMAIN e = Fields /\ Neat(e) /\ (e.mm \notin UpdateStates => ~Open(e))
  BY DEF Good, Typed, Followed, Tended, Begun
<1> DEFINE n == [e EXCEPT !.conn[ref] = "PEND"]
           f == mm_conn_free(e, ref)
<1>1. /\ Like(e, n) /\ DOMAIN n = Fields /\ Like(e, f) /\ DOMAIN f = Fields
      /\ Like(e, gsm48_mm_init_mm_reject(e, ref))
  BY <1>0, ConnLike, PutDomain DEF gsm48_mm_init_mm_reject
<1> HIDE DEF n, f
<1>2. Hears(e, e)
  BY DEF Hears
<1>3. ~Open(e) => Hears(e, gsm48_mm_init_mm_no_rr(e, ref))
  <2> DEFINE a == [n EXCEPT !.est_req = TRUE, !.est_msg = ref]
             b == [a EXCEPT !.rr = "CONN_PEND"]
             w == [b EXCEPT !.cs = "CONNECTED", !.access = TRUE, !.lupd = ref = Lupd]
             u == gsm48_rr_upmsg(n, "REL_IND", 0)
             q == gsm48_rr_est_req(n, ref)
             strays == IF e.rel_wait \/ e.t3210 THEN q.stray \cup {ref} ELSE q.stray
  <2>1. Put(n, u)
    BY <1>1 DEF Fields, Put, gsm48_rr_upmsg
  <2>2. Put(n, a) /\ DOMAIN a = Fields
    BY <1>1 DEF Fields, Put
  <2> HIDE DEF a
  <2>3. Put(a, b) /\ DOMAIN b = Fields
    BY <2>2 DEF Fields, Put
  <2> HIDE DEF b
  <2>4. Put(b, w)
    BY <2>3 DEF Fields, Put
  <2> HIDE DEF w
  <2>5. q \in {u, w}
    BY DEF gsm48_rr_est_req, gsm48_rr_chan_req, new_rr_state, u, w, b, a, q
  <2> HIDE DEF q, u
  <2>6. Put(n, q) /\ DOMAIN q = Fields
    BY <1>1, <2>1, <2>2, <2>3, <2>4, <2>5, PutTwice, PutDomain
  <2>7. \A s : Put(q, [q EXCEPT !.mm = "WAIT_RR_CONN_MM_CON", !.stray = s])
    BY <2>6 DEF Fields, Put
  <2>8. gsm48_mm_init_mm_no_rr(e, ref) = [q EXCEPT !.mm = "WAIT_RR_CONN_MM_CON", !.stray = strays]
    BY Zenon DEF gsm48_mm_init_mm_no_rr, q, n, strays
  <2> HIDE DEF strays
  <2>9. Put(e, gsm48_mm_init_mm_no_rr(e, ref))
    BY <1>1, <2>6, <2>7, <2>8, PutTwice DEF Like
  <2> QED BY <1>0, <2>9, PutFollowed
<1>4. ~Open(e) => Hears(e, gsm48_mm_init_mm_more(e, ref))
  <2> DEFINE q == gsm48_rr_data_req(n, ref)
             strays == IF e.rr = "IDLE" \/ e.rel_wait \/ e.t3210 THEN q.stray \cup {ref} ELSE q.stray
             m == [q EXCEPT !.mm = "WAIT_ADD_OUT_MM_CON", !.t3230 = TRUE, !.stray = strays]
  <2>1. ASSUME ~Open(e)
        PROVE  Neat(q) /\ ~Open(q) /\ q.ev = e.ev /\ q.rslq = e.rslq /\ DOMAIN q = Fields
    <3>1. Neat(n) /\ ~Open(n) /\ n.ev = e.ev /\ n.rslq = e.rslq
      BY <1>0, <1>1, <2>1 DEF Like, Put, Neat, Open
    <3> QED BY <1>1, <3>1 DEF Fields, gsm48_rr_data_req, Neat, Open
  <2> HIDE DEF q, strays
  <2>2. DOMAIN q = Fields => Put(q, m)
    BY DEF Fields, Put
  <2> HIDE DEF m
  <2>3. gsm48_mm_init_mm_more(e, ref) = m
    BY Zenon DEF gsm48_mm_init_mm_more, q, n, strays, m
  <2>4. ~Open(e) => Hears(q, m)
    BY <2>1, <2>2, PutFollowed
  <2> QED BY <2>1, <2>3, <2>4 DEF Hears
<1>5. Hears(e, MmEstReq(e, ref))
  <2>1. Hears(e, gsm48_mm_init_mm_reject(e, ref))
    BY <1>1, LikeFollowed
  <2> QED BY <1>0, <1>3, <1>4, <2>1 DEF MmEstReq, UpdateStates
<1>6. Hears(e, MmRelReq(e, ref))
  <2> DEFINE t == [f EXCEPT !.t3240 = TRUE]
  <2>1. Put(e, ActiveOrWait(f)) /\ Put(e, f)
    <3>1. Put(f, ActiveOrWait(f))
      BY <1>1, MovePut
    <3> QED BY Zenon, <1>1, <3>1, PutTwice DEF Like
  <2>2. Put(f, t) /\ DOMAIN t = Fields
    BY Zenon, <1>1, TimerLike, PutDomain
  <2> HIDE DEF t
  <2>3. Put(e, WaitNetworkCommand(t))
    BY <2>1, <2>2, MovePut, PutTwice
  <2>4. ~Open(e) => Hears(e, ActiveOrWait(f)) /\ Hears(e, f) /\ Hears(e, WaitNetworkCommand(t))
    BY <1>0, <2>1, <2>3, PutFollowed
  <2> QED BY <1>0, <1>2, <2>4 DEF MmRelReq, gsm48_mm_release_wait_active, UpdateStates, f, t
<1> QED BY <1>5, <1>6

-----------------------------------------------------------------------------
(* The update, step by step                                                 *)

\* An answer to the request of a user, which no update has, is next in the queue.
CmAnswers == {"CM_SERV_ACC"} \cup CmRejections
Answering(q) == q # <<>> /\ Head(q).sapi = 0 /\ Head(q).prim \in CmAnswers

\* With what the turns of mobile_work leave behind: the messages of the data link are
\* served first, and a cell that was reported before another one is.
UpdateState ==
  /\ Followed(c) /\ Single(c)
  /\ c.rslq # <<>> => turn = "rsl"
  /\ turn = "mmxx" => c.rrq = <<>>
  /\ turn = "ev" => c.ev = <<>>
  /\ Open(c) => ~Answering(c.rslq) /\ ~Answering(c.rrq)

LEMMA AnswerPrims ==
  /\ CmAnswers \cap ({"REL_IND", "REL_CONF", "ERROR_IND", "EST_CONF", "EST_CNF", "EST_IND"} \cup Ends) = {}
  /\ CmAnswers \cap (Answers(Lupd) \cup Commands \cup Incoming) = {}
BY RefAssumption DEF CmAnswers, Ends, Answers, Commands, LuRejections, CmRejections, Refs

LEMMA OwnAnswering ==
  ASSUME NEW e
  PROVE  (Linked(e) => ~Answering(e.rslq)) /\ (Known(e) => ~Answering(e.rrq))
<1>1. ASSUME NEW S, NEW s \in Seq(S), s # <<>> PROVE Head(s) \in S
  BY <1>1
<1>2. Linked(e) /\ e.rslq # <<>> => Head(e.rslq) \in RslOwn
  BY TakenLinked
<1>3. Known(e) /\ e.rrq # <<>> => Head(e.rrq) \in RrDown
  BY <1>1 DEF Known, Aware
<1>4. /\ \A m \in RslOwn : m.sapi = 0 => m.prim \in {"REL_IND", "REL_CONF", "ERROR_IND"}
      /\ \A m \in RrDown : m.sapi = 0 => m.prim \in Ends
  BY DEF RslOwn, RrDown
<1> QED BY <1>2, <1>3, <1>4, AnswerPrims DEF Answering

LEMMA MovesSingle ==
  ASSUME NEW e, NEW d, Moves(e, d), OneCell(e)
  PROVE  Followed(d) /\ Single(d)
BY DEF Moves, OneCell, Single

\* The queue of the data link is served before that of radio resources.
LEMMA RslServed ==
  ASSUME At("rr"), turn = "rsl"
  PROVE  c.rslq = <<>>
<1> DEFINE from == CHOOSE i \in DOMAIN Order : Order[i] = turn
           to == CHOOSE i \in DOMAIN Order : Order[i] = "rr"
           passed == IF from <= to THEN from..(to - 1) ELSE DOMAIN Order \ (to..(from - 1))
<1>1. /\ DOMAIN Order = 1..5
      /\ Order[1] = "rsl" /\ Order[2] = "rr" /\ Order[3] = "mmxx" /\ Order[4] = "ev" /\ Order[5] = "plmn"
  BY DEF Order
<1>2. \A i \in passed : ~Filled[Order[i]]
  BY Zenon DEF At
<1>3. from = 1
  <2>1. \E i \in DOMAIN Order : Order[i] = turn
    BY <1>1
  <2>2. from \in DOMAIN Order /\ Order[from] = turn
    BY Zenon, <2>1
  <2> HIDE DEF from
  <2> QED BY <1>1, <2>2
<1>4. to = 2
  <2>1. \E i \in DOMAIN Order : Order[i] = "rr"
    BY <1>1
  <2>2. to \in DOMAIN Order /\ Order[to] = "rr"
    BY Zenon, <2>1
  <2> HIDE DEF to
  <2> QED BY <1>1, <2>2
<1> HIDE DEF from, to
<1>5. 1 \in passed
  BY <1>3, <1>4
<1>6. ~Filled["rsl"]
  BY <1>1, <1>2, <1>5
<1> QED BY <1>6 DEF Filled

\* A message of the data link is served.
LEMMA ServeRslUpdate ==
  ASSUME IInv, ChannelState, ViewState, UpdateState, ServeRsl
  PROVE  UpdateState'
<1> DEFINE m == Head(c.rslq)
           t == [c EXCEPT !.rslq = Tail(@)]
           x == gsm48_rcv_rll(t, m)
<1>1. c.rslq # <<>> /\ turn' = "rsl" /\ c' = x
  BY DEF ServeRsl, At, Filled
<1>2. Known(c) /\ ~FreshRr
  BY <1>1 DEF ChannelState, FreshUp, FreshRr
<1>3. m.sapi = 0 => m.prim \in {"REL_IND", "REL_CONF", "ERROR_IND"} \/ FreshRsl
  <2>1. Linked(c) => m \in RslOwn
    BY <1>1, TakenLinked
  <2> HIDE DEF m
  <2> QED BY <1>2, <2>1 DEF IInv, LinkedState, RslOwn
<1>4. /\ m.sapi = 0 /\ m.prim = "EST_CONF" => c.rr # "IDLE"
      /\ m.sapi = 0 => m.prim \in {"EST_CONF", "REL_IND", "REL_CONF", "ERROR_IND"} \cup Downlink
      /\ m.sapi = 0 /\ m.prim = "CHAN_REL" => m.prim \in Downlink
  BY <1>1, <1>3 DEF FreshRsl
<1>5. ASSUME NEW S, NEW s \in Seq(S), s # <<>> PROVE Head(s) \in S /\ Tail(s) \in Seq(S)
  BY <1>5
<1>6. Queued(c) /\ Followed(c) /\ Single(c) /\ c.ev \in Seq(Events)
  BY GoodQueued DEF IInv, Kept, Good, Typed, Events, UpdateState
<1>7. Tail(c.rslq) \in Seq([prim : RslPrims, sapi : {0, 3}]) /\ m.sapi \in {0, 3}
  <2>1. c.rslq \in Seq([prim : RslPrims, sapi : {0, 3}]) /\ c.rslq # <<>>
    BY <1>1, <1>6 DEF Queued
  <2>2. m \in [prim : RslPrims, sapi : {0, 3}] /\ Tail(c.rslq) \in Seq([prim : RslPrims, sapi : {0, 3}])
    BY ONLY <1>5, <2>1
  <2> HIDE DEF m
  <2> QED BY <2>2
<1>8. /\ Queued(t) /\ t.ev = c.ev /\ t.rr = c.rr
      /\ Followed(t) /\ OneCell(t) /\ Open(t) = Open(c)
  <2>1. /\ Queued(t) /\ t.ev = c.ev /\ t.rr = c.rr /\ t.cs = c.cs /\ t.mm = c.mm
        /\ t.rrq = c.rrq /\ t.est_req = c.est_req /\ t.rel_wait = c.rel_wait /\ t.lupd = c.lupd
        /\ t.pending = c.pending /\ t.lost = c.lost /\ t.t3211 = c.t3211 /\ t.retry = c.retry
        /\ t.start_t3211 = c.start_t3211 /\ t.plmn = c.plmn
        /\ t.dl = c.dl /\ t.net = c.net /\ t.sabm = c.sabm /\ t.est_msg = c.est_msg
    BY <1>6, <1>7 DEF Queued, Fields
  <2> HIDE DEF t
  <2>2. Open(t) = Open(c) /\ Neat(t) = Neat(c) /\ Alone(t) = Alone(c) /\ OnCell(t) = OnCell(c)
    BY <2>1 DEF Open, Neat, Alone, OnCell
  <2>3. Told(t) = Told(c) /\ Awaits(t) = Awaits(c)
    BY <2>1 DEF Told, Tells, Awaits, Granted
  <2>4. Followed(t)
    BY <1>6, <2>1, <2>2, <2>3 DEF Followed, Tended, Begun
  <2>5. OneCell(t)
    BY <1>1, <1>6, <2>1 DEF OneCell, Single
  <2> QED BY <2>1, <2>2, <2>4, <2>5
<1> HIDE DEF t, m
<1>9. RrPrims \cap Downlink = Downlink
  BY DEF RrPrims
<1>10. Moves(t, x)
  <2>1. CASE m.sapi = 3
    <3>1. \A d \in {gsm48_rr_estab_cnf_sapi3(t), gsm48_rr_estab_ind_sapi3(t), gsm48_rr_rel_ind_sapi3(t),
                    gsm48_rr_mdl_error_ind_sapi3(t), t} : Moves(t, d)
      BY <1>8, Sapi3Followed, MovesSelf
    <3> QED BY <2>1, <3>1 DEF gsm48_rcv_rll
  <2>2. CASE m.sapi = 0
    <3>1. m.prim = "EST_CONF" => Moves(t, gsm48_rr_estab_cnf(t))
      BY <1>4, <1>8, <2>2, RrUpFollowed
    <3>2. /\ Moves(t, gsm48_rr_rel_ind(t)) /\ Moves(t, gsm48_rr_rel_cnf(t))
          /\ Moves(t, gsm48_rr_mdl_error_ind(t)) /\ Moves(t, gsm48_rr_rx_chan_rel(t))
      BY <1>6, <1>8, RrDownFollowed
    <3>3. m.prim \in Downlink => Moves(t, gsm48_rr_data_ind(t, m.prim))
      BY <1>8, <1>9, RrUpFollowed
    <3>4. m.prim \in {"EST_CONF", "REL_IND", "REL_CONF", "ERROR_IND"} \cup Downlink
      BY <1>4, <2>2
    <3> HIDE DEF Moves
    <3> QED BY <2>2, <3>1, <3>2, <3>3, <3>4 DEF gsm48_rcv_rll
  <2> HIDE DEF x
  <2> QED BY <1>7, <2>1, <2>2
<1>11. Followed(c') /\ Single(c')
  BY <1>1, <1>8, <1>10, MovesSingle
<1>12. ~Answering(c'.rslq)
  <2>1. Linked(c') \/ c'.rslq = <<>>
    BY ServeRslLinked DEF FreshRr
  <2> QED BY <2>1, OwnAnswering DEF Answering
<1>13. Open(c') => ~Answering(c'.rrq)
  <2>1. CASE Known(c')
    BY <2>1, OwnAnswering
  <2>2. CASE FreshUp' /\ FreshRsl /\ Head(c'.rrq).prim \in {m.prim, "EST_CNF", "EST_IND"}
    <3>1. Answering(c'.rrq) => m.sapi = 0 /\ m.prim \in CmAnswers
      BY <2>2, AnswerPrims DEF FreshRsl, Answering, m
    <3>2. m.sapi = 0 /\ m.prim \in CmAnswers => ~Open(c)
      BY <1>1 DEF UpdateState, Answering, m
    <3>3. m.prim \in CmAnswers => m.prim \in RrPrims
      BY <1>9, <2>2, AnswerPrims DEF FreshRsl, m
    <3>4. m.sapi = 0 /\ m.prim \in CmAnswers => x = gsm48_rr_data_ind(t, m.prim)
      BY AnswerPrims DEF gsm48_rcv_rll, Commands
    <3>5. m.sapi = 0 /\ m.prim \in CmAnswers => Beside(t, x)
      BY <1>8, <3>3, <3>4, RrUpFollowed
    <3>6. Beside(t, x) => Open(x) = Open(t)
      BY DEF Beside, SameUpdate, Open
    <3> HIDE DEF x
    <3> QED BY <1>1, <1>8, <3>1, <3>2, <3>5, <3>6
  <2> QED BY <2>1, <2>2, ServeRslKnown DEF m
<1> QED BY <1>1, <1>11, <1>12, <1>13 DEF UpdateState

\* What the message that is taken does not tell of the end of the channel, those that
\* follow it do.
LEMMA TakenFollowed ==
  ASSUME Kept(c), Followed(c), c.rrq # <<>>
  PROVE  LET d == [c EXCEPT !.rrq = Tail(@)]
             m == Head(c.rrq)
         IN  /\ Tended(d) /\ Open(d) = Open(c) /\ d.ev = c.ev /\ d.rslq = c.rslq
             /\ d.rr = c.rr /\ d.cs = c.cs /\ d.mm = c.mm
             /\ (m.sapi = 3 \/ m.prim \notin Ends) => Followed(d)
<1> DEFINE d == [c EXCEPT !.rrq = Tail(@)]
           m == Head(c.rrq)
<1>1. ASSUME NEW S, NEW s \in Seq(S), s # <<>>
      PROVE  Head(s) = s[1]
             /\ \A i \in DOMAIN s : i = 1 \/ (i - 1 \in DOMAIN Tail(s) /\ Tail(s)[i - 1] = s[i])
  BY <1>1
<1>2. m = c.rrq[1]
      /\ \A i \in DOMAIN c.rrq : i = 1 \/ (i - 1 \in DOMAIN Tail(c.rrq) /\ Tail(c.rrq)[i - 1] = c.rrq[i])
  BY <1>1 DEF Kept, Good, Typed
<1>3. /\ d.rrq = Tail(c.rrq) /\ d.ev = c.ev /\ d.rr = c.rr /\ d.cs = c.cs /\ d.mm = c.mm
      /\ d.rslq = c.rslq /\ d.est_req = c.est_req /\ d.rel_wait = c.rel_wait /\ d.lupd = c.lupd
      /\ d.pending = c.pending /\ d.lost = c.lost /\ d.t3211 = c.t3211 /\ d.retry = c.retry
      /\ d.start_t3211 = c.start_t3211 /\ d.plmn = c.plmn
      /\ d.dl = c.dl /\ d.net = c.net /\ d.sabm = c.sabm /\ d.est_msg = c.est_msg
  BY DEF Kept, Good, Typed, Fields
<1> HIDE DEF d, m
<1>4. Open(d) = Open(c) /\ Neat(d) = Neat(c) /\ Alone(d) = Alone(c) /\ OnCell(d) = OnCell(c)
  BY <1>3 DEF Open, Neat, Alone, OnCell
<1>5. Tended(d)
  BY <1>3, <1>4 DEF Followed, Tended, Begun
<1>6. Awaits(d) = Awaits(c)
  BY <1>3 DEF Awaits, Granted
<1>7. ASSUME m.sapi = 3 \/ m.prim \notin Ends, Tells(c) PROVE Tells(d)
  <2>1. PICK i \in DOMAIN c.rrq : c.rrq[i].sapi = 0 /\ c.rrq[i].prim \in Ends
    BY <1>7 DEF Tells
  <2>2. i # 1
    BY <1>2, <1>7, <2>1
  <2>3. i - 1 \in DOMAIN d.rrq /\ d.rrq[i - 1] = c.rrq[i]
    BY <1>2, <1>3, <2>2
  <2> QED BY <2>1, <2>3 DEF Tells
<1>8. (m.sapi = 3 \/ m.prim \notin Ends) => (Told(c) => Told(d))
  BY <1>3, <1>7 DEF Told
<1>9. (m.sapi = 3 \/ m.prim \notin Ends) => Followed(d)
  BY <1>4, <1>5, <1>6, <1>8 DEF Followed
<1> QED BY <1>3, <1>4, <1>5, <1>9 DEF d, m

\* A message about the end of the channel, or about SAPI 3.
LEMMA DownFollowed ==
  ASSUME IInv, Known(c), ViewState, Followed(c), c.rslq = <<>>, ServeRr
  PROVE  Hears(c, c')
<1> DEFINE d == [c EXCEPT !.rrq = Tail(@)]
           m == Head(c.rrq)
<1>1. /\ c.rrq # <<>> /\ Good(d)
      /\ c' = IF m.sapi = 0 THEN gsm48_rcv_rr(d, m.prim) ELSE gsm48_rcv_rr_sapi3(d, m.prim)
  BY RrTakenKept DEF ServeRr, At, Filled, Kept
<1>2. /\ Tended(d) /\ Open(d) = Open(c) /\ d.ev = c.ev /\ d.rslq = c.rslq
      /\ d.rr = c.rr /\ d.cs = c.cs /\ d.mm = c.mm
      /\ (m.sapi = 3 \/ m.prim \notin Ends) => Followed(d)
  BY <1>1, TakenFollowed DEF IInv
<1>3. ASSUME NEW S, NEW s \in Seq(S), s # <<>> PROVE Head(s) \in S
  BY <1>3
<1>4. m \in RrDown
  BY <1>1, <1>3 DEF Known, Aware
<1>5. Orderly(d)
  BY DEF IInv, Kept, Good, Typed, Fields, ViewState, Sure, Orderly, Granted, Closing
<1> HIDE DEF m
<1>6. m.sapi \in {0, 3} /\ (m.sapi = 0 => m.prim \in Ends)
  BY <1>4 DEF RrDown
<1>7. ASSUME m.sapi = 0 PROVE Linked(d) /\ (d.mm = "LOC_UPD_REJ" => ~Tuned(d))
  <2>1. m.prim \notin Downlink
    BY <1>6, <1>7, RefAssumption DEF Ends, Downlink, Answers, Commands, LuRejections, CmRejections, Refs
  <2>2. Linked(c)
    BY <2>1 DEF IInv, LinkedState, FreshRsl, FreshRr, m
  <2>3. m \notin RrLive
    BY <1>6, <1>7 DEF RrLive, Ends
  <2>4. Linked(d) /\ (c.mm = "LOC_UPD_REJ" => ~Tuned(c))
    BY <1>1, <2>2, <2>3, TakenLinked DEF m
  <2> QED BY <1>2, <2>4 DEF Tuned
<1> HIDE DEF d
<1>8. m.sapi = 0 => Hears(d, c')
  BY <1>1, <1>2, <1>5, <1>6, <1>7, ReleasedFollowed
<1>9. m.sapi = 3 => Hears(d, c')
  BY <1>1, <1>2, RcvSapi3Followed
<1> QED BY <1>2, <1>6, <1>8, <1>9 DEF Hears

\* A message that came over the channel, or tells that it is up.
LEMMA UpServedFollowed ==
  ASSUME IInv, FreshUp, Followed(c), Open(c) => ~Answering(c.rrq), ServeRr
  PROVE  Hears(c, c')
<1> DEFINE d == [c EXCEPT !.rrq = Tail(@)]
           m == Head(c.rrq)
<1>1. /\ c.rrq # <<>> /\ Good(d)
      /\ m.sapi = 0 /\ m.prim \notin Ends /\ c' = gsm48_rcv_rr(d, m.prim)
      /\ c.rr = "DEDICATED" /\ Aware(d)
  BY RrTakenKept DEF ServeRr, At, Filled, Kept, FreshUp
<1>2. /\ Followed(d) /\ Open(d) = Open(c) /\ d.ev = c.ev /\ d.rslq = c.rslq
      /\ d.rr = c.rr /\ d.cs = c.cs
  BY <1>1, TakenFollowed DEF IInv
<1>3. m.prim \in {"CM_SERV_ACC"} \cup CmRejections => ~Open(d)
  BY <1>1, <1>2 DEF Answering, CmAnswers
<1> HIDE DEF d, m
<1>4. d.cs = "CONNECTED" /\ d.rr = "DEDICATED"
  BY <1>1, <1>2 DEF Aware, Tuned
<1>5. Hears(d, c')
  BY <1>1, <1>2, <1>3, <1>4, UpFollowed
<1> QED BY <1>2, <1>5 DEF Hears

LEMMA ServeRrUpdate ==
  ASSUME IInv, ChannelState, ViewState, UpdateState, ServeRr
  PROVE  UpdateState'
<1>1. turn' = "rr" /\ At("rr")
  BY DEF ServeRr
<1>2. c.rslq = <<>> /\ Followed(c) /\ Len(c.ev) <= 1
  BY <1>1, RslServed DEF UpdateState, Single
<1>3. Hears(c, c')
  BY <1>2, DownFollowed, UpServedFollowed DEF ChannelState, UpdateState
<1>4. Followed(c') /\ Single(c') /\ c'.rslq = <<>>
  BY <1>2, <1>3, HearsSingle DEF Hears
<1>5. Known(c')
  BY <1>1, ServeRrKnown DEF ChannelState, FreshUp
<1> QED BY <1>1, <1>4, <1>5, OwnAnswering DEF UpdateState, Answering

\* At the turn of any other queue, nothing waits that the data link or the network said.
LEMMA ServedUpdate ==
  ASSUME IInv, ChannelState, UpdateState,
         NEW q \in {"mmxx", "ev", "plmn"}, At(q)
  PROVE  /\ c.rslq = <<>> /\ Followed(c) /\ Len(c.ev) <= 1 /\ Known(c) /\ Linked(c)
         /\ q # "plmn" => c.rrq = <<>>
<1>1. c.rslq = <<>>
  BY ServedFirst DEF UpdateState
<1>2. Followed(c) /\ Len(c.ev) <= 1
  BY DEF UpdateState, Single
<1>3. Known(c) /\ Linked(c)
  BY RestKnown, RestLinked
<1>4. ASSUME q = "ev" PROVE c.ev # <<>>
  <2>1. Filled["ev"]
    BY <1>4 DEF At
  <2> QED BY <2>1 DEF Filled
<1>5. q # "plmn" => c.rrq = <<>>
  BY <1>4, ServedAfter DEF IInv, UpdateState
<1> QED BY <1>1, <1>2, <1>3, <1>5

LEMMA RestUpdate ==
  ASSUME ChannelState', turn' \in {"mmxx", "ev", "plmn"},
         Hears(c, c') \/ (Followed(c') /\ c'.ev = <<>> /\ c'.rslq = <<>>),
         c.rslq = <<>>, Len(c.ev) <= 1,
         turn' = "mmxx" => c'.rrq = <<>>, turn' = "ev" => c'.ev = <<>>
  PROVE  UpdateState'
<1>1. Len(<<>>) <= 1
  OBVIOUS
<1>2. Followed(c') /\ Single(c') /\ c'.rslq = <<>>
  BY <1>1, HearsSingle DEF Hears, Single
<1>3. Known(c')
  BY DEF ChannelState, FreshUp
<1> QED BY <1>2, <1>3, OwnAnswering DEF UpdateState, Answering

\* The user takes what mobility management tells it.
LEMMA ServeMmxxUpdate ==
  ASSUME IInv, ChannelState, UpdateState, ServeMmxx
  PROVE  UpdateState'
<1>1. turn' = "mmxx" /\ At("mmxx") /\ \E ref \in Waiting : c' = [c EXCEPT !.mmxx[ref] = Tail(@)]
  BY DEF ServeMmxx
<1>2. c.rslq = <<>> /\ Followed(c) /\ Len(c.ev) <= 1 /\ c.rrq = <<>> /\ DOMAIN c = Fields
  BY <1>1, ServedUpdate DEF Known, Aware
<1>3. Like(c, c') /\ c'.rrq = <<>>
  BY <1>1, <1>2 DEF Fields, Like, Put, SameTurn
<1>4. Hears(c, c')
  BY <1>2, <1>3, LikeFollowed
<1> QED BY <1>1, <1>2, <1>3, <1>4, ServeRestKnown, RestUpdate

\* Cell selection reports, when the update was told of the end of its channel.
LEMMA ServeEventUpdate ==
  ASSUME IInv, ChannelState, UpdateState, ServeEvent
  PROVE  UpdateState'
<1> DEFINE d == [c EXCEPT !.ev = Tail(@)]
           event == Head(c.ev)
<1>1. c.ev # <<>> /\ c' = gsm48_mm_event(d, event) /\ turn' = "ev" /\ At("ev")
  BY DEF ServeEvent, At, Filled
<1>2. c.rslq = <<>> /\ Followed(c) /\ Len(c.ev) <= 1 /\ c.rrq = <<>> /\ Known(c) /\ Linked(c)
  BY <1>1, ServedUpdate
<1>3. Good(d) /\ DOMAIN c = Fields
  <2>1. Good(d)
    BY <1>1, EventTakenGood DEF IInv, Kept
  <2>2. DOMAIN c = Fields
    BY <1>2 DEF Known, Aware
  <2> HIDE DEF d
  <2> QED BY <2>1, <2>2
<1>4. Linked(d)
  <2>1. Alike(c, d)
    BY <1>3 DEF Fields, Alike, SameCell
  <2> HIDE DEF d
  <2> QED BY <1>2, <2>1, AlikeLinked
<1>5. ASSUME NEW S, NEW s \in Seq(S), s # <<>>, Len(s) <= 1
      PROVE  Head(s) \in S /\ Head(s) = s[Len(s)] /\ Tail(s) = <<>>
  <2>1. Len(s) \in Nat /\ Len(s) # 0 /\ Head(s) \in S /\ Head(s) = s[1] /\ Tail(s) \in Seq(S)
    BY <1>5
  <2>2. Len(s) # 0 => Len(Tail(s)) = Len(s) - 1
    BY <1>5
  <2>3. Len(s) = 1 /\ Len(Tail(s)) = 0
    BY <1>5, <2>1, <2>2
  <2>4. ASSUME NEW t \in Seq(S), Len(t) = 0 PROVE t = <<>>
    BY <2>4
  <2> QED BY <2>1, <2>3, <2>4
<1>6. c.ev \in Seq(Events) /\ (c.cs \notin {"NO_CELL", "CHOOSING"} => c.ev \in Seq(OfCell))
  BY <1>2 DEF Known, Aware
<1>7. event \in Events /\ event = c.ev[Len(c.ev)] /\ Tail(c.ev) = <<>>
  BY <1>1, <1>2, <1>5, <1>6
<1>8. event = "NO_CELL_FOUND" => c.cs \in {"NO_CELL", "CHOOSING"}
  BY <1>1, <1>2, <1>5, <1>6 DEF OfCell
<1>9. event = "LOST_COVERAGE" => c.cs # "CAMPED"
  BY <1>1, <1>7 DEF IInv, Kept, Good, CellReported
<1>10. /\ d.ev = <<>> /\ d.rslq = <<>> /\ d.rrq = <<>> /\ d.rr = c.rr /\ d.cs = c.cs /\ d.mm = c.mm
       /\ d.est_req = c.est_req /\ d.rel_wait = c.rel_wait /\ d.lupd = c.lupd
       /\ d.pending = c.pending /\ d.lost = c.lost /\ d.t3211 = c.t3211 /\ d.retry = c.retry
       /\ d.start_t3211 = c.start_t3211 /\ d.plmn = c.plmn
       /\ d.dl = c.dl /\ d.net = c.net /\ d.sabm = c.sabm /\ d.est_msg = c.est_msg
  BY <1>2, <1>3, <1>7 DEF Fields
<1> HIDE DEF d, event
<1>11. Open(d) = Open(c) /\ Neat(d) = Neat(c) /\ Alone(d) = Alone(c) /\ OnCell(d) = OnCell(c)
  BY <1>10 DEF Open, Neat, Alone, OnCell
<1>12. Tended(d)
  BY <1>2, <1>10, <1>11 DEF Followed, Tended, Begun
<1>13. ~Tells(c) /\ ~Tells(d)
  BY <1>2, <1>10 DEF Tells
<1>14. Open(d) => d.start_t3211 \/ Awaits(d)
  <2>1. Awaits(d) = Awaits(c)
    BY <1>10 DEF Awaits, Granted
  <2> QED BY <1>2, <1>10, <1>11, <1>13, <2>1 DEF Followed, Told
<1>15. Hears(d, c')
  BY <1>1, <1>3, <1>4, <1>7, <1>8, <1>9, <1>10, <1>12, <1>13, <1>14, EventFollowed
<1>16. Followed(c') /\ c'.ev = <<>> /\ c'.rslq = <<>>
  BY <1>10, <1>15 DEF Hears
<1> QED BY <1>1, <1>2, <1>16, ServeRestKnown, RestUpdate

\* PLMN selection is told when no update is under way.
LEMMA ServePlmnUpdate ==
  ASSUME IInv, ChannelState, UpdateState, ServePlmn
  PROVE  UpdateState'
<1>1. c.plmn /\ turn' = "plmn" /\ At("plmn")
      /\ \E cs \in {c.cs, "CHOOSING"} : c' = [c EXCEPT !.plmn = FALSE, !.cs = cs]
  BY DEF ServePlmn, At, Filled
<1>2. c.rslq = <<>> /\ Followed(c) /\ Len(c.ev) <= 1 /\ DOMAIN c = Fields
  BY <1>1, ServedUpdate DEF Known, Aware
<1>3. Neat(c) /\ ~Open(c)
  BY <1>1, <1>2 DEF Followed, Tended, Begun
<1>4. Put(c, c')
  BY <1>1, <1>2 DEF Fields, Put
<1>5. Hears(c, c')
  BY <1>3, <1>4, PutFollowed
<1> QED BY <1>1, <1>2, <1>5, ServeRestKnown, RestUpdate

\* What holds when the queues are empty: an update that is pending has a channel, or asks
\* for one, and is alone on it.
LEMMA QuietUpdate ==
  ASSUME IInv, ChannelState, ViewState, UpdateState, Quiet
  PROVE  /\ Kept(c) /\ Good(c) /\ Queued(c) /\ Orderly(c) /\ Linked(c) /\ Known(c) /\ DOMAIN c = Fields
         /\ c.rslq = <<>> /\ c.rrq = <<>> /\ c.ev = <<>> /\ ~c.plmn
         /\ Followed(c) /\ Neat(c) /\ OneCell(c) /\ Len(c.ev) <= 1
         /\ Open(c) => c.cs = "CONNECTED" /\ Alone(c)
<1>1. /\ Kept(c) /\ Good(c) /\ Queued(c) /\ Known(c) /\ Sure(c)
      /\ c.rslq = <<>> /\ c.rrq = <<>> /\ c.ev = <<>> /\ ~c.plmn /\ ~Tells(c)
  BY QuietView
<1>2. Followed(c) /\ Len(c.ev) <= 1
  BY DEF UpdateState, Single
<1>3. OneCell(c)
  BY <1>1, <1>2 DEF OneCell
<1>4. Open(c) => c.cs = "CONNECTED" /\ Alone(c)
  BY <1>1, <1>2 DEF Followed, Tended, Begun, Told, Awaits, Granted
<1>5. DOMAIN c = Fields /\ Neat(c) /\ Orderly(c)
  BY <1>1, <1>2 DEF Queued, Followed, Tended, Sure
<1> QED BY <1>1, <1>2, <1>3, <1>4, <1>5, QuietLinked

\* An event that brings no message of the network.
LEMMA EventUpdate ==
  ASSUME Followed(c'), Single(c'), turn' = "rsl", Linked(c'), Known(c')
  PROVE  UpdateState'
BY OwnAnswering DEF UpdateState

\* An event that is a message of layer 2.
LEMMA SentUpdate ==
  ASSUME IInv, ChannelState, ViewState, UpdateState, Quiet,
         NEW d, Beside(c, d), SameRr(c, d), d.rslq = <<>>, d.rrq = <<>>,
         NEW p \in RslPrims, NEW s \in {0, 3}, c' = RslUp(d, p, s), turn' = "rsl",
         s = 0 /\ p \in CmAnswers => ~Open(c)
  PROVE  UpdateState'
<1> DEFINE n == [prim |-> p, sapi |-> s]
           x == RslUp(d, p, s)
<1>1. Followed(c) /\ Queued(c) /\ c.ev = <<>> /\ Len(c.ev) <= 1
  BY QuietUpdate
<1>2. Queued(d) /\ Beside(d, x)
  BY RslUpBeside DEF Beside, Onward
<1>3. x.rslq = <<n>> /\ x.rrq = <<>> /\ x.ev = d.ev /\ SameRr(d, x)
  BY <1>2 DEF RslUp, Queued, Fields, SameRr
<1> HIDE DEF x
<1>4. Beside(c, x) /\ SameRr(c, x)
  BY <1>2, <1>3, BesideTwice DEF SameRr
<1>5. Followed(x)
  BY <1>1, <1>4, BesideFollowed DEF SameRr
<1>6. x.ev = c.ev /\ Open(x) = Open(c)
  BY <1>4 DEF Beside, SameUpdate, Open
<1>7. Single(x)
  BY <1>1, <1>6 DEF Single
<1>8. x.rslq # <<>> /\ Head(x.rslq).prim = p /\ Head(x.rslq).sapi = s
  BY <1>3
<1>9. Open(x) => ~Answering(x.rslq) /\ ~Answering(x.rrq)
  BY <1>3, <1>6, <1>8 DEF Answering
<1>10. c' = x
  BY DEF x
<1> QED BY <1>5, <1>7, <1>9, <1>10 DEF UpdateState

LEMMA UsersUpdate ==
  ASSUME IInv, ChannelState, ViewState, UpdateState, NEW ref \in Refs, Request(ref) \/ Release(ref)
  PROVE  UpdateState'
<1>1. Quiet /\ turn' = "rsl" /\ (c' = MmEstReq(c, ref) \/ c' = MmRelReq(c, ref))
  BY DEF Request, Release, Event
<1>2. Good(c) /\ Followed(c) /\ Known(c) /\ c.rslq = <<>> /\ Len(c.ev) <= 1
  BY <1>1, QuietUpdate
<1>3. Hears(c, c')
  BY <1>1, <1>2, RequestFollowed
<1>4. Followed(c') /\ Single(c')
  BY <1>2, <1>3, HearsSingle
<1>5. Linked(c') /\ Known(c')
  BY <1>1, <1>2, RequestLinked, MmEstReqKnown, MmRelReqKnown
<1> QED BY <1>1, <1>4, <1>5, EventUpdate

LEMMA CommandUpdate ==
  ASSUME IInv, ChannelState, ViewState, UpdateState, NEW p \in Commands \cup Incoming, Command(p)
  PROVE  UpdateState'
<1>1. Quiet /\ turn' = "rsl" /\ c' = RslUp(c, p, 0)
  BY DEF Command, Event
<1>2. Beside(c, c) /\ SameRr(c, c) /\ c.rslq = <<>> /\ c.rrq = <<>>
  BY <1>1, QuietUpdate, BesideSelf
<1>3. p \in RslPrims /\ p \notin CmAnswers
  BY CommandPrims, AnswerPrims
<1> QED BY <1>1, <1>2, <1>3, SentUpdate

\* The network answers the request of a user, which an update has not sent.
LEMMA AnswerUpdate ==
  ASSUME IInv, ChannelState, ViewState, UpdateState, NEW p, Answer(p)
  PROVE  UpdateState'
<1>1. PICK req \in c.net :
        p \in Answers(req) /\ Quiet /\ turn' = "rsl" /\ c' = RslUp([c EXCEPT !.net = @ \ {req}], p, 0)
  BY DEF Answer, Event
<1> DEFINE d == [c EXCEPT !.net = @ \ {req}]
<1>2. Queued(c) /\ c.rslq = <<>> /\ c.rrq = <<>> /\ (Open(c) => Alone(c))
  BY <1>1, QuietUpdate
<1>3. d.rslq = <<>> /\ d.rrq = <<>> /\ SameRr(c, d)
  BY <1>2 DEF Queued, Fields, SameRr
<1>4. Beside(c, d)
  BY ZenonT(40), <1>2 DEF Queued, Fields, Onward, Tells, Closing, Beside, SameUpdate, Neat, Alone
<1> HIDE DEF d
<1>5. req \in Refs \cup {Lupd}
  BY DEF IInv, Kept, Good, Typed
<1>6. p \in RslPrims
  BY <1>1, <1>5 DEF RslPrims, Downlink
<1>7. p \in CmAnswers => ~Open(c)
  <2>1. p \in CmAnswers => req # Lupd
    BY <1>1, AnswerPrims
  <2> QED BY <1>1, <1>2, <2>1 DEF Alone
<1> QED BY <1>1, <1>3, <1>4, <1>6, <1>7, SentUpdate DEF d

LEMMA LinkUpdate ==
  ASSUME IInv, ChannelState, ViewState, UpdateState,
         LinkUp \/ LinkReleased \/ LinkFails \/ (\E sapi \in {0, 3} : LinkError(sapi))
  PROVE  UpdateState'
<1>1. Quiet /\ turn' = "rsl"
  BY DEF LinkUp, LinkReleased, LinkFails, LinkError, Event
<1>2. Queued(c) /\ c.rslq = <<>> /\ c.rrq = <<>>
  BY <1>1, QuietUpdate
<1>3. {"EST_CONF", "REL_IND", "REL_CONF", "ERROR_IND"} \subseteq RslPrims
      /\ {"EST_CONF", "REL_IND", "REL_CONF", "ERROR_IND"} \cap CmAnswers = {}
  BY AnswerPrims DEF RslPrims
<1>4. CASE LinkUp
  <2> DEFINE d == [c EXCEPT !.dl = "EST", !.net = {c.sabm} \ {None}, !.sabm = None]
  <2>1. c' = RslUp(d, "EST_CONF", 0)
    BY <1>4 DEF LinkUp, Event
  <2>2. SameRr(c, d) /\ d.rslq = <<>> /\ d.rrq = <<>>
    BY <1>2 DEF Queued, Fields, SameRr
  <2>3. Beside(c, d)
    BY ZenonT(40), <1>2 DEF Queued, Fields, Onward, Tells, Closing, Beside, SameUpdate, Neat, Alone
  <2> HIDE DEF d
  <2> QED BY <1>1, <1>3, <2>1, <2>2, <2>3, SentUpdate
<1>5. CASE LinkReleased \/ LinkFails
  <2>1. c' = RslUp(LinkDown(c), "REL_IND", 0) \/ c' = RslUp(LinkDown(c), "REL_CONF", 0)
    BY <1>5 DEF LinkReleased, LinkFails, Event
  <2>2. Beside(c, LinkDown(c)) /\ SameRr(c, LinkDown(c))
    BY <1>2, LinkDownBeside, LinkDownOnward
  <2>3. LinkDown(c).rslq = <<>> /\ LinkDown(c).rrq = <<>>
    BY <1>2 DEF LinkDown, Queued, Fields
  <2> QED BY <1>1, <1>3, <2>1, <2>2, <2>3, SentUpdate
<1>6. CASE \E sapi \in {0, 3} : LinkError(sapi)
  <2>1. \E sapi \in {0, 3} : c' = RslUp(c, "ERROR_IND", sapi)
    BY <1>6 DEF LinkError, Event
  <2>2. Beside(c, c) /\ SameRr(c, c)
    BY <1>2, BesideSelf
  <2> QED BY <1>1, <1>2, <1>3, <2>1, <2>2, SentUpdate
<1> QED BY <1>4, <1>5, <1>6

LEMMA Link3Update ==
  ASSUME IInv, ChannelState, ViewState, UpdateState,
         Link3Up \/ Link3Established \/ Link3Released \/ Link3Fails
  PROVE  UpdateState'
<1> DEFINE d == [c EXCEPT !.dl3 = "EST"]
           g == [c EXCEPT !.dl3 = "IDLE"]
<1>1. /\ Quiet /\ turn' = "rsl"
      /\ \E p \in {"EST_CONF", "EST_IND", "REL_IND"} : c' = RslUp(d, p, 3) \/ c' = RslUp(g, p, 3)
  BY DEF Link3Up, Link3Established, Link3Released, Link3Fails, Event
<1>2. Queued(c) /\ c.rslq = <<>> /\ c.rrq = <<>>
  BY <1>1, QuietUpdate
<1>3. Beside(c, d) /\ Beside(c, g)
  BY <1>2, TimerBeside
<1>4. /\ SameRr(c, d) /\ d.rslq = <<>> /\ d.rrq = <<>>
      /\ SameRr(c, g) /\ g.rslq = <<>> /\ g.rrq = <<>>
  BY <1>2 DEF Queued, Fields, SameRr
<1> HIDE DEF d, g
<1>5. {"EST_CONF", "EST_IND", "REL_IND"} \subseteq RslPrims
  BY DEF RslPrims
<1> QED BY <1>1, <1>3, <1>4, <1>5, SentUpdate

LEMMA AccessUpdate ==
  ASSUME IInv, ChannelState, ViewState, UpdateState, Page \/ Assign \/ AssignReject
  PROVE  UpdateState'
<1>1. Quiet /\ turn' = "rsl"
  BY DEF Page, Assign, AssignReject, Event
<1>2. /\ Queued(c) /\ Followed(c) /\ Neat(c) /\ OneCell(c) /\ DOMAIN c = Fields
      /\ c.rslq = <<>> /\ Len(c.ev) <= 1 /\ (Open(c) => c.cs = "CONNECTED")
  BY <1>1, QuietUpdate
<1>3. Linked(c') /\ Known(c')
  <2>1. Linked(c) /\ Known(c')
    BY <1>1, QuietLinked, NetworkKnown DEF Network
  <2> QED BY <1>1, <2>1, QuietLinked, ChanReqLinked, RrUpLinked DEF Page, Assign, AssignReject, Event, Linked
<1>4. Followed(c') /\ Single(c')
  <2>1. CASE Page
    <3> DEFINE n == new_rr_state(c, "CONN_PEND")
    <3>1. Put(c, n) /\ DOMAIN n = Fields
      BY <1>2 DEF new_rr_state, Fields, Put
    <3> HIDE DEF n
    <3>2. Put(n, gsm48_rr_chan_req(c, FALSE))
      BY <3>1 DEF gsm48_rr_chan_req, Fields, Put, n
    <3>3. Put(c, c') /\ c.cs = "CAMPED"
      BY <2>1, <3>1, <3>2, PutTwice DEF Page, Event
    <3>4. Hears(c, c')
      BY <1>2, <3>3, PutFollowed
    <3> QED BY <1>2, <3>4, HearsSingle
  <2>2. CASE Assign \/ AssignReject
    <3>1. Moves(c, c')
      BY <1>2, <2>2, RrUpFollowed DEF Assign, AssignReject, Event
    <3> QED BY <1>2, <3>1, MovesSingle
  <2> QED BY <2>1, <2>2
<1> QED BY <1>1, <1>3, <1>4, EventUpdate

LEMMA NetworkUpdate ==
  ASSUME IInv, ChannelState, ViewState, UpdateState, Network
  PROVE  UpdateState'
<1>1. CASE Page \/ Assign \/ AssignReject
  BY <1>1, AccessUpdate
<1>2. CASE \E prim \in Said : Answer(prim) \/ (prim \in Commands /\ Command(prim))
  BY <1>2, AnswerUpdate, CommandUpdate
<1>3. CASE LinkUp \/ LinkReleased \/ (\E sapi \in {0, 3} : LinkError(sapi))
  BY <1>3, LinkUpdate
<1>4. CASE Link3Up \/ Link3Established \/ Link3Released
  BY <1>4, Link3Update
<1> QED BY Zenon, <1>1, <1>2, <1>3, <1>4 DEF Network

LEMMA TimerUpdate ==
  ASSUME IInv, ChannelState, ViewState, UpdateState, Timer \/ LossOfSignal
  PROVE  UpdateState'
<1> DEFINE d == [c EXCEPT !.t3122 = FALSE]
           Done(x) == Followed(x) /\ Single(x)
<1>1. Quiet /\ turn' = "rsl"
  BY DEF Timer, LossOfSignal, Event, T3122Expires, T3126Expires, T3110Expires, RelWaitExpires,
         T3210Expires, T3211Expires, T3212Expires, T3230Expires, T3240Expires
<1>2. /\ Kept(c) /\ Good(c) /\ Queued(c) /\ Orderly(c) /\ Followed(c) /\ OneCell(c) /\ Len(c.ev) <= 1
      /\ c.rslq = <<>> /\ c.rrq = <<>> /\ c.ev = <<>> /\ ~c.plmn
  BY <1>1, QuietUpdate
<1>3. Done(d)
  <2>1. Beside(c, d)
    BY <1>2, TimerBeside
  <2>2. d.cs = c.cs /\ d.rr = c.rr /\ d.est_req = c.est_req /\ d.rel_wait = c.rel_wait /\ d.ev = c.ev
    BY <1>2 DEF Queued, Fields
  <2> HIDE DEF d
  <2>3. Followed(d)
    BY <1>2, <2>1, <2>2, BesideFollowed
  <2> QED BY <1>2, <2>2, <2>3 DEF Single
<1>4. \A x : Moves(c, x) => Done(x)
  BY <1>2, MovesSingle
<1>5. \A x : Hears(c, x) => Done(x)
  BY <1>2, HearsSingle
<1>6. /\ c.access => Done(timeout_rr_t3126(c))
      /\ Done(timeout_rr_t3110(c)) /\ Done(gsm48_rr_los(c))
      /\ c.rel_wait => Done(timeout_rr_t_rel_wait(c))
  <2> HIDE DEF Done
  <2> QED BY <1>2, <1>4, RrTimersFollowed
<1>7. Done(timeout_mm_t3230(c)) /\ Done(timeout_mm_t3240(c)) /\ Done(timeout_mm_t3210(c))
  BY <1>2, ServiceTimersFollowed
<1>8. Done(timeout_mm_t3211(c)) /\ Done(timeout_mm_t3212(c))
  <2> HIDE DEF Done
  <2> QED BY <1>2, <1>5, UpdateTimersFollowed
<1> HIDE DEF Done
<1>9. Done(c')
  BY <1>3, <1>6, <1>7, <1>8
     DEF Timer, LossOfSignal, Event, T3122Expires, T3126Expires, T3110Expires, RelWaitExpires,
         T3210Expires, T3211Expires, T3212Expires, T3230Expires, T3240Expires
<1> QED BY <1>1, <1>9, TimerLinked, TimerKnown, EventUpdate DEF Done

\* Cell selection is on its own while no update is pending that was not told so.
LEMMA CellUpdate ==
  ASSUME IInv, ChannelState, ViewState, UpdateState,
         (\E area \in Areas : SelectCell(area)) \/ NoCell \/ Reselect \/ AnySearch
  PROVE  UpdateState'
<1>1. Quiet /\ turn' = "rsl" /\ c.cs # "CONNECTED"
  BY DEF SelectCell, NoCell, Reselect, AnySearch, Event
<1>2. DOMAIN c = Fields /\ Neat(c) /\ ~Open(c) /\ c.ev = <<>> /\ c.rslq = <<>>
  BY <1>1, QuietUpdate
<1>3. ASSUME NEW event PROVE Len(Append(<<>>, event)) <= 1 /\ Len(<<>>) <= 1
  OBVIOUS
<1>4. /\ c'.pending = c.pending /\ c'.lost = c.lost /\ c'.t3211 = c.t3211 /\ c'.retry = c.retry
      /\ c'.dl = c.dl /\ c'.net = c.net /\ c'.sabm = c.sabm /\ c'.rslq = <<>> /\ Len(c'.ev) <= 1
  <2>1. CASE \E area \in Areas : SelectCell(area)
    <3>1. \E area \in Areas, camp \in {"CAMPED", "ANY"} :
            c' = [c EXCEPT !.cs = camp, !.la = area, !.ev = Append(@, "CELL_SELECTED")]
      BY <2>1 DEF SelectCell, Event
    <3> QED BY <1>2, <1>3, <3>1 DEF Fields
  <2>2. CASE NoCell \/ Reselect
    <3>1. \E cs, event : c' = [c EXCEPT !.cs = cs, !.ev = Append(@, event)]
      BY <2>2 DEF NoCell, Reselect, Event
    <3> QED BY <1>2, <1>3, <3>1 DEF Fields
  <2>3. CASE AnySearch
    <3>1. c' = [c EXCEPT !.cs = "CHOOSING"]
      BY <2>3 DEF AnySearch, Event
    <3> QED BY <1>2, <1>3, <3>1 DEF Fields
  <2> QED BY <2>1, <2>2, <2>3
<1>5. Followed(c')
  BY <1>2, <1>4, ShutFollowed DEF Neat, Open
<1> QED BY <1>1, <1>4, <1>5, CellLinked, CellKnown, EventUpdate DEF Single

LEMMA UpdateStepwise ==
  IInv /\ ChannelState /\ ViewState /\ UpdateState /\ [Next]_vars => UpdateState'
<1> SUFFICES ASSUME IInv, ChannelState, ViewState, UpdateState, [Next]_vars PROVE UpdateState'
  OBVIOUS
<1>1. CASE MobileWork
  BY <1>1, ServeRslUpdate, ServeRrUpdate, ServeMmxxUpdate, ServeEventUpdate, ServePlmnUpdate DEF MobileWork
<1>2. CASE \E ref \in Refs : Request(ref) \/ Release(ref)
  BY <1>2, UsersUpdate
<1>3. CASE \E ref \in Incoming : Setup(ref) /\ UNCHANGED view
  BY <1>3, CommandUpdate DEF Setup
<1>4. CASE Network /\ UNCHANGED view
  BY <1>4, NetworkUpdate
<1>5. CASE (LinkFails \/ Link3Fails \/ LossOfSignal \/ Timer) /\ UNCHANGED view
  BY <1>5, LinkUpdate, Link3Update, TimerUpdate
<1>6. CASE ((\E area \in Areas : SelectCell(area)) \/ NoCell \/ Reselect \/ AnySearch) /\ UNCHANGED view
  BY <1>6, CellUpdate
<1>7. CASE UNCHANGED vars
  BY <1>7 DEF vars, UpdateState
<1> QED BY <1>1, <1>2, <1>3, <1>4, <1>5, <1>6, <1>7 DEF Next

LEMMA UpdateInitially == Init => UpdateState
<1> SUFFICES ASSUME Init PROVE UpdateState
  OBVIOUS
<1>1. /\ c.pending = FALSE /\ c.net = {} /\ c.sabm = None
      /\ c.rslq = <<>> /\ c.rrq = <<>> /\ c.ev = <<>> /\ turn = "rsl"
  BY DEF Init
<1>2. Followed(c)
  BY <1>1, ShutFollowed DEF Neat, Open
<1> QED BY <1>1, <1>2 DEF UpdateState, Single, Open

\* A location update that is pending is under way or will be tried again (lupd_pending
\* of gsm48_mm.c): a retry timer runs, or starts when mobility management returns to idle,
\* or the retry is noted for normal service; for any number of calls, messages and areas,
\* whatever the network, layer 2, the timers and cell selection do. Excepted are
\* the updates of lost.
THEOREM UpdateAlwaysGuarded == Spec => []UpdateGuarded
<1>1. UpdateState => UpdateGuarded
  BY DEF UpdateState, Followed, Tended, Begun, Open, UpdateGuarded
<1>2. IInv /\ ChannelState /\ [Next]_vars => ChannelState'
  BY KnownStepwise
<1>3. IInv /\ ChannelState /\ ViewState /\ [Next]_vars => ViewState'
  BY ViewStepwise
<1>4. IInv /\ ChannelState /\ ViewState /\ UpdateState /\ [Next]_vars => UpdateState'
  BY UpdateStepwise
<1>5. Init => ChannelState /\ ViewState /\ UpdateState
  BY KnownInitially, ViewInitially, UpdateInitially
<1> QED BY <1>1, <1>2, <1>3, <1>4, <1>5, ConnInvariant, PTL DEF Spec
=============================================================================
