--------------------------- MODULE LapdmLinkProofs ---------------------------
(***************************************************************************)
(* Theorems of LapdmLink, for any number of mobiles, any messages, window  *)
(* and retransmission limits, and an air of any capacity.  Each entity's   *)
(* part of the invariant is preserved by each handler whatever frame       *)
(* arrives (LapdCoreProofs); here the handlers are put together, for what  *)
(* is proved there and then for the window, the history and T200.          *)
(***************************************************************************)
EXTENDS LapdmLink, LapdCoreProofs

IInv == TypeOK /\ CommandStored /\ Layer3Informed

\* The air carries frames: what does not fit is lost, nothing is altered.
LEMMA OnAirType ==
  ASSUME NEW q \in Frames, NEW fs \in Frames
  PROVE  OnAir(q, fs) \in Frames
  BY InputAssumption DEF OnAir, Frames

\* What a mobile hands to layer 1 is frames on its uplink.
LEMMA TransmittedType ==
  ASSUME NEW c \in Context, NEW e, up \in [Mobiles -> Frames]
  PROVE  Transmitted(e, c) \in [Mobiles -> Frames]
  BY OnAirType DEF Transmitted, Context

\* An entity within the invariant is one whose handler may start.
LEMMA EntryStarts ==
  ASSUME NEW d \in Datalink, Kept(d)
  PROVE  Starts(Entry(d)) /\ Entry(d).dl = d
  <1>1. Entry(d) \in Context /\ Entry(d).dl = d /\ Entry(d).l3 = <<>>
    BY SequenceTypes DEF Entry, Context
  <1>2. DOMAIN <<>> = {}
    OBVIOUS
  <1>3. ~RelTold(Entry(d)) /\ ~EstTold(Entry(d))
    BY <1>1, <1>2 DEF RelTold, EstTold
  <1>4. QED
    BY <1>1, <1>3 DEF Starts

\* The datalink lapd_dl_init2 sets up is well formed and idle.
LEMMA InitialDatalink ==
  ASSUME NEW mode \in Mode, NEW polling \in BOOLEAN
  PROVE  /\ InitDatalink(mode, polling) \in Datalink
         /\ InitDatalink(mode, polling).state = "IDLE"
  BY NoHistType, SequenceTypes
  DEF InitDatalink, Datalink, State, Seqno, VRange

\* The invariant holds initially (lapdm_entity_init3).
THEOREM InitInvariant == Init => IInv
  <1> SUFFICES ASSUME Init
               PROVE  IInv
    OBVIOUS
  <1>1. \A e \in Entity : dl[e] \in Datalink /\ dl[e].state = "IDLE"
    BY InitialDatalink DEF Init, Mode
  <1>2. TypeOK
    <2>1. dl \in [Entity -> Datalink]
      BY <1>1 DEF Init
    <2>2. QED
      BY <2>1, SequenceTypes DEF Init, TypeOK
  <1>3. CommandStored
    BY <1>1 DEF CommandStored
  <1>4. Layer3Informed
    BY <1>1 DEF Init, Layer3Informed, Established
  <1>5. QED
    BY <1>2, <1>3, <1>4 DEF IInv

\* What layer 3 believes after a handler that did its duty.
LEMMA LinkAfterFine ==
  ASSUME NEW old \in Content \cup {Empty, Null}, NEW s \in State, NEW c, Fine(s, c),
         s = "IDLE" => old = Null,
         s \in Established => old # Null
  PROVE  /\ LinkAfter(old, c) \in Content \cup {Empty, Null}
         /\ c.dl.state = "IDLE" => LinkAfter(old, c) = Null
         /\ c.dl.state \in Established => LinkAfter(old, c) # Null
  <1> DEFINE ind == {i \in DOMAIN c.l3 : c.l3[i].prim = "EST_IND"}
             i0 == CHOOSE i \in DOMAIN c.l3 : c.l3[i].prim = "EST_IND"
  <1>1. c.l3 \in Prims
    BY DEF Fine, Context
  <1>2. Empty # Null /\ \A x \in Content : x # Null
    BY NullAssumption DEF Info
  <1>3. Told(c, {"REL_IND", "REL_CONF"}) <=> RelTold(c)
    BY DEF Told, RelTold
  <1>4. EstTold(c) <=> Told(c, {"EST_CONF"}) \/ Told(c, {"EST_IND"})
    BY DEF Told, EstTold
  <1>5. ASSUME Told(c, {"EST_IND"})
        PROVE  c.l3[i0].info \in Content \cup {Empty}
    <2>1. i0 \in DOMAIN c.l3
      BY <1>5 DEF Told
    <2> HIDE DEF i0
    <2>2. c.l3[i0] \in Prim
      BY <1>1, <2>1 DEF Prims
    <2>3. QED
      BY <2>2 DEF Prim, Carried
  <1>6. LinkAfter(old, c) = IF Told(c, {"REL_IND", "REL_CONF"}) THEN Null
                            ELSE IF Told(c, {"EST_CONF"}) THEN Empty
                            ELSE IF Told(c, {"EST_IND"}) THEN c.l3[i0].info
                            ELSE old
    BY DEF LinkAfter
  <1> HIDE DEF i0
  <1>7. QED
    BY <1>2, <1>3, <1>4, <1>5, <1>6 DEF Fine, Established

\* The entity's own part of the invariant.
LEMMA StepInvariant ==
  ASSUME IInv, NEW e \in Entity, NEW c, Fine(dl[e].state, c), Step(e, c),
         up' \in [Mobiles -> Frames], down' \in [Mobiles -> Frames],
         requests' \in [Entity -> Nat], sent' \in [Entity -> Messages]
  PROVE  IInv'
  <1>1. c \in Context /\ c.dl \in Datalink /\ c.data \in Deliveries /\ Kept(c.dl)
    BY DEF Fine, Context
  <1>2. dl' = [dl EXCEPT ![e] = c.dl] /\ dl' \in [Entity -> Datalink]
    BY <1>1 DEF Step, IInv, TypeOK
  <1>3. /\ link[e] \in Content \cup {Empty, Null}
        /\ dl[e].state \in State
        /\ dl[e].state = "IDLE" => link[e] = Null
        /\ dl[e].state \in Established => link[e] # Null
    BY DEF IInv, TypeOK, Layer3Informed, Datalink
  <1>4. /\ LinkAfter(link[e], c) \in Content \cup {Empty, Null}
        /\ c.dl.state = "IDLE" => LinkAfter(link[e], c) = Null
        /\ c.dl.state \in Established => LinkAfter(link[e], c) # Null
    BY <1>3, LinkAfterFine
  <1>5. link' = [link EXCEPT ![e] = LinkAfter(link[e], c)]
    BY DEF Step, Indicate
  <1>6. link' \in [Entity -> Content \cup {Empty, Null}]
    BY <1>4, <1>5 DEF IInv, TypeOK
  <1>7. mdl' \in [Entity -> BOOLEAN]
    BY DEF Step, Indicate, IInv, TypeOK, Told
  <1>8. got' \in [Entity -> Deliveries]
    <2>1. got[e] \o c.data \in Deliveries
      BY <1>1 DEF IInv, TypeOK, Deliveries
    <2>2. QED
      BY <2>1 DEF Step, Indicate, IInv, TypeOK
  <1>9. TypeOK'
    BY <1>2, <1>6, <1>7, <1>8 DEF TypeOK
  <1>10. CommandStored'
    BY <1>1, <1>2 DEF CommandStored, Kept, Waiting, IInv, TypeOK
  <1>11. Layer3Informed'
    <2>1. \A x \in Entity \ {e} : dl'[x] = dl[x] /\ link'[x] = link[x]
      BY <1>2, <1>5 DEF IInv, TypeOK
    <2>2. dl'[e] = c.dl /\ link'[e] = LinkAfter(link[e], c)
      BY <1>2, <1>5 DEF IInv, TypeOK
    <2>3. QED
      BY <1>4, <2>1, <2>2 DEF Layer3Informed, IInv
  <1>12. QED
    BY <1>9, <1>10, <1>11 DEF IInv

\* Every entity of a state within the invariant may start a handler.
LEMMA EntityStarts ==
  ASSUME IInv, NEW e \in Entity
  PROVE  Starts(Entry(dl[e])) /\ Entry(dl[e]).dl = dl[e]
  BY EntryStarts DEF IInv, TypeOK, CommandStored, Kept, Waiting

\* A request whose handler is fine preserves the entity's part of the invariant.
LEMMA ServeInvariant ==
  ASSUME IInv, NEW e \in Entity, NEW req, NEW c, Fine(dl[e].state, c), Serve(e, req, c),
         requests' \in [Entity -> Nat], sent' \in [Entity -> Messages]
  PROVE  IInv'
  <1>1. Step(e, c) /\ up' = Transmitted(e, c) /\ down' = down
    BY DEF Serve
  <1>2. up' \in [Mobiles -> Frames]
    BY <1>1, TransmittedType DEF IInv, TypeOK, Fine
  <1>3. down' \in [Mobiles -> Frames]
    BY <1>1 DEF IInv, TypeOK
  <1>4. QED
    BY <1>1, <1>2, <1>3, StepInvariant

\* Every request of layer 3, and the channel reset, preserves the invariant.
LEMMA Layer3Invariant ==
  ASSUME IInv, NEW e \in Entity, Layer3(e)
  PROVE  IInv'
  <1> DEFINE c == Entry(dl[e])
  <1>1. Starts(c) /\ c.dl = dl[e]
    BY EntityStarts
  <1>2. requests \in [Entity -> Nat] /\ sent \in [Entity -> Messages]
    BY DEF IInv, TypeOK
  <1>3. LinkRequest(e) => requests' \in [Entity -> Nat]
    BY <1>2 DEF LinkRequest
  <1>4. \A m \in Msg : [sent EXCEPT ![e] = Append(@, m)] \in [Entity -> Messages]
    BY <1>2, SequenceTypes
  <1> HIDE DEF c
  <1>5. CASE EstReq(e)
    <2>1. PICK info \in SabmInfo[e] : /\ LinkRequest(e)
                                      /\ Serve(e, "EST", lapd_est_req(c, info))
                                      /\ UNCHANGED sent
      BY <1>5 DEF EstReq, c
    <2>2. info \in Carried
      BY InputAssumption DEF Carried
    <2>3. Fine(dl[e].state, lapd_est_req(c, info))
      BY <1>1, <2>2, EstablishFine
    <2>4. QED
      BY <1>2, <1>3, <2>1, <2>3, ServeInvariant
  <1>6. CASE DataReq(e)
    <2>1. PICK m \in Outbox[e] \ Handover :
            /\ Serve(e, "DATA", lapd_data_req(c, m))
            /\ sent' = [sent EXCEPT ![e] = Append(@, m)]
            /\ UNCHANGED requests
      BY <1>6 DEF DataReq, c
    <2>2. m \in Msg
      BY InputAssumption
    <2>3. dl[e].state \in Established
      BY <2>1 DEF Serve, ServedIn
    <2>4. Fine(dl[e].state, lapd_data_req(c, m))
      BY <1>1, <2>2, <2>3, DataFine
    <2>5. QED
      BY <1>2, <1>4, <2>1, <2>2, <2>4, ServeInvariant
  <1>7. CASE RelReq(e)
    <2>1. PICK local \in BOOLEAN : /\ LinkRequest(e)
                                   /\ Serve(e, "REL", lapd_rel_req(c, local))
                                   /\ UNCHANGED sent
      BY <1>7 DEF RelReq, c
    <2>2. Fine(dl[e].state, lapd_rel_req(c, local))
      BY <1>1, ReleaseFine
    <2>3. QED
      BY <1>2, <1>3, <2>1, <2>2, ServeInvariant
  <1>8. CASE SuspReq(e)
    <2>1. LinkRequest(e) /\ Serve(e, "SUSP", lapd_susp_req(c)) /\ UNCHANGED sent
      BY <1>8 DEF SuspReq, c
    <2>2. dl[e].state \in Established
      BY <2>1 DEF Serve, ServedIn
    <2>3. Fine(dl[e].state, lapd_susp_req(c))
      BY <1>1, <2>2, SuspendFine
    <2>4. QED
      BY <1>2, <1>3, <2>1, <2>3, ServeInvariant
  <1>9. CASE ResReq(e)
    <2>1. PICK req \in {"RES", "RECON"}, m \in (Outbox[e] \cap Handover) \cup {Null} :
            /\ LinkRequest(e)
            /\ Serve(e, req, lapd_res_req(c, m))
            /\ sent' = [sent EXCEPT ![e] = IF m = Null THEN @ ELSE Append(@, m)]
      BY <1>9 DEF ResReq, c
    <2>2. m \in Msg \cup {Null}
      BY InputAssumption
    <2>3. Fine(dl[e].state, lapd_res_req(c, m))
      BY <1>1, <2>2, ResumeFine
    <2>4. sent' \in [Entity -> Messages]
      BY <1>2, <1>4, <2>1, <2>2
    <2>5. QED
      BY <1>3, <2>1, <2>3, <2>4, ServeInvariant
  <1>10. CASE Reset(e)
    <2> DEFINE d == lapd_dl_reset(c).dl
    <2>1. /\ dl' = [dl EXCEPT ![e] = d] /\ link' = [link EXCEPT ![e] = Null]
          /\ UNCHANGED <<up, down, mdl, sent, got>>
      BY <1>10 DEF Reset, c
    <2>2. d \in Datalink /\ d.state = "IDLE"
      BY <1>1, ResetIdle DEF Starts, Context
    <2>3. LinkRequest(e)
      BY <1>10 DEF Reset
    <2> HIDE DEF d
    <2>4. TypeOK'
      BY <1>3, <2>1, <2>2, <2>3 DEF IInv, TypeOK
    <2>5. CommandStored'
      BY <2>1, <2>2 DEF IInv, TypeOK, CommandStored
    <2>6. Layer3Informed'
      BY <2>1, <2>2 DEF IInv, TypeOK, Layer3Informed, Established
    <2>7. QED
      BY <2>4, <2>5, <2>6 DEF IInv
  <1>11. QED
    BY <1>5, <1>6, <1>7, <1>8, <1>9, <1>10 DEF Layer3

\* The head of a queue of frames is a frame, its tail is a queue of frames.
LEMMA QueueTypes ==
  ASSUME NEW q \in Frames, q # <<>>
  PROVE  Head(q) \in Frame /\ Tail(q) \in Frames /\ <<Head(q)>> \in Frames
  BY DEF Frames

\* A frame received by the base station preserves the invariant.
LEMMA BtsRxInvariant ==
  ASSUME IInv, NEW m \in Mobiles, BtsRx(m)
  PROVE  IInv'
  <1> DEFINE c == lapd_ph_data_ind(Entry(dl[Bts]), Head(up[m]))
  <1>1. up[m] \in Frames /\ up[m] # <<>> /\ Bts \in Entity
    BY DEF BtsRx, IInv, TypeOK, Entity
  <1>2. Fine(dl[Bts].state, c)
    BY <1>1, QueueTypes, EntityStarts, FrameFine
  <1>3. Step(Bts, c)
    BY DEF BtsRx
  <1>4. up' \in [Mobiles -> Frames]
    BY <1>1, QueueTypes DEF BtsRx, IInv, TypeOK
  <1>5. /\ down' \in [Mobiles -> Frames]
        /\ requests' \in [Entity -> Nat]
        /\ sent' \in [Entity -> Messages]
    BY DEF BtsRx, IInv, TypeOK
  <1> HIDE DEF c
  <1>6. QED
    BY <1>1, <1>2, <1>3, <1>4, <1>5, StepInvariant

\* A frame received by a mobile preserves the invariant.
LEMMA MobileRxInvariant ==
  ASSUME IInv, NEW m \in Mobiles, MobileRx(m)
  PROVE  IInv'
  <1> DEFINE c == lapd_ph_data_ind(Entry(dl[m]), Head(down[m]))
  <1>1. /\ Step(m, c)
        /\ down' = [down EXCEPT ![m] = Tail(@)]
        /\ up' = Transmitted(m, c)
        /\ UNCHANGED <<requests, sent>>
    BY DEF MobileRx
  <1>2. down[m] \in Frames /\ down[m] # <<>> /\ m \in Entity
    BY DEF MobileRx, IInv, TypeOK, Entity
  <1>3. Fine(dl[m].state, c)
    BY <1>2, QueueTypes, EntityStarts, FrameFine
  <1> HIDE DEF c
  <1>4. up' \in [Mobiles -> Frames]
    BY <1>1, <1>3, TransmittedType DEF Fine, IInv, TypeOK
  <1>5. down' \in [Mobiles -> Frames]
    BY <1>1, <1>2, QueueTypes DEF IInv, TypeOK
  <1>6. requests' \in [Entity -> Nat] /\ sent' \in [Entity -> Messages]
    BY <1>1 DEF IInv, TypeOK
  <1>7. QED
    BY <1>1, <1>2, <1>3, <1>4, <1>5, <1>6, StepInvariant

\* An expiry of T200 preserves the invariant, early or not.
LEMMA T200Invariant ==
  ASSUME IInv, NEW e \in Entity, T200Expires(e)
  PROVE  IInv'
  <1> DEFINE c == lapd_t200_cb(Entry(dl[e]))
  <1>1. Step(e, c) /\ up' = Transmitted(e, c) /\ UNCHANGED <<down, requests, sent>>
    BY DEF T200Expires
  <1>2. Fine(dl[e].state, c)
    BY EntityStarts, TimerFine
  <1> HIDE DEF c
  <1>3. up' \in [Mobiles -> Frames]
    BY <1>1, <1>2, TransmittedType DEF Fine, IInv, TypeOK
  <1>4. /\ down' \in [Mobiles -> Frames]
        /\ requests' \in [Entity -> Nat]
        /\ sent' \in [Entity -> Messages]
    BY <1>1 DEF IInv, TypeOK
  <1>5. QED
    BY <1>1, <1>2, <1>3, <1>4, StepInvariant

\* PH-READY-TO-SEND preserves the invariant.
LEMMA ReadyToSendInvariant ==
  ASSUME IInv, ReadyToSend
  PROVE  IInv'
  <1> DEFINE q == dl[Bts].tx_queue
             d == [dl[Bts] EXCEPT !.tx_queue = Tail(q)]
  <1>1. Bts \in Entity /\ dl[Bts] \in Datalink /\ q \in Frames /\ q # <<>>
    BY DEF ReadyToSend, IInv, TypeOK, Entity, Datalink
  <1>2. Tail(q) \in Frames /\ <<Head(q)>> \in Frames
    BY <1>1, QueueTypes
  <1>3. d \in Datalink
    BY <1>1, <1>2 DEF Datalink
  <1>4. /\ d.state = dl[Bts].state /\ d.v_send = dl[Bts].v_send
        /\ d.tx_hist = dl[Bts].tx_hist
    BY <1>1 DEF Datalink
  <1>5. dl' = [dl EXCEPT ![Bts] = d]
    BY <1>1 DEF ReadyToSend, IInv, TypeOK
  <1>6. down' \in [Mobiles -> Frames]
    BY <1>2, OnAirType DEF ReadyToSend, IInv, TypeOK
  <1>7. UNCHANGED <<up, requests, link, mdl, sent, got>>
    BY DEF ReadyToSend
  <1> HIDE DEF d, q
  <1>8. TypeOK'
    BY <1>3, <1>5, <1>6, <1>7 DEF IInv, TypeOK
  <1>9. CommandStored'
    BY <1>1, <1>4, <1>5 DEF IInv, TypeOK, CommandStored
  <1>10. Layer3Informed'
    BY <1>1, <1>4, <1>5, <1>7 DEF IInv, TypeOK, Layer3Informed
  <1>11. QED
    BY <1>8, <1>9, <1>10 DEF IInv

\* The loss of a frame preserves the invariant.
LEMMA LossInvariant ==
  ASSUME IInv, NEW m \in Mobiles, LoseUp(m) \/ LoseDown(m)
  PROVE  IInv'
  <1>1. up' \in [Mobiles -> Frames] /\ down' \in [Mobiles -> Frames]
    BY ZenonT(40), QueueTypes DEF LoseUp, LoseDown, IInv, TypeOK
  <1>2. UNCHANGED <<dl, requests, link, mdl, sent, got>>
    BY DEF LoseUp, LoseDown
  <1>3. QED
    BY <1>1, <1>2 DEF IInv, TypeOK, CommandStored, Layer3Informed

\* Every step of the specification preserves the invariant: it is inductive.
THEOREM NextInvariant == IInv /\ [Next]_vars => IInv'
  <1> SUFFICES ASSUME IInv, [Next]_vars
               PROVE  IInv'
    OBVIOUS
  <1>1. CASE \E e \in Entity : Layer3(e) \/ T200Expires(e)
    BY <1>1, Layer3Invariant, T200Invariant
  <1>2. CASE \E m \in Mobiles : Layer1(m)
    BY <1>2, BtsRxInvariant, MobileRxInvariant, LossInvariant DEF Layer1
  <1>3. CASE ReadyToSend
    BY <1>3, ReadyToSendInvariant
  <1>4. CASE UNCHANGED vars
    BY <1>4 DEF vars, IInv, TypeOK, CommandStored, Layer3Informed
  <1>5. QED
    BY <1>1, <1>2, <1>3, <1>4 DEF Next

\* The invariant holds in every reachable state.
THEOREM Invariant == Spec => []IInv
  <1>1. QED
    BY InitInvariant, NextInvariant, PTL DEF Spec

\* No sequence number leaves its range, no frame without a legal information
\* field is sent and no slot outside tx_hist is used, whatever the air does.
THEOREM TypeCorrect == Spec => []TypeOK
  <1>1. IInv => TypeOK
    BY DEF IInv
  <1>2. QED
    BY <1>1, Invariant, PTL

\* lapd_send_resend and lapd_rx_u_ua never find tx_hist[0] empty.
THEOREM CommandAlwaysStored == Spec => []CommandStored
  <1>1. IInv => CommandStored
    BY DEF IInv
  <1>2. QED
    BY <1>1, Invariant, PTL

\* Layer 3 never holds on to a link layer 2 has given up, nor misses one.
THEOREM Layer3AlwaysInformed == Spec => []Layer3Informed
  <1>1. IInv => Layer3Informed
    BY DEF IInv
  <1>2. QED
    BY <1>1, Invariant, PTL

-----------------------------------------------------------------------------
(* Why nobody waits for ever on the data link, for any window, any limits  *)
(* and whatever frames arrive.  T200 is started with a frame and stopped   *)
(* when lapd_acknowledge finds the last frame acknowledged: in the slot of *)
(* tx_hist before V(S).  That this slot tells the truth depends on where   *)
(* the other frames are: between V(A) and V(A)+k, with V(S) at most k      *)
(* ahead of V(A).  So the invariant is about the window, the history and   *)
(* the timer together; with a window of 1 it also says what send_buffer    *)
(* holds.  An N(R) outside the window breaks it, and layer 3 is told.      *)

\* The frames of the history are among the k frames from V(A) on.
HistInWindow(d) ==
  \A h \in Slot : d.tx_hist[h] # Null =>
    \E i \in 0 .. K - 1 : h = do_mod(d.v_ack + i, RangeHist)

WindowOpen(d) == sub_mod(d.v_send, d.v_ack, VRange) <= K

\* With a window of 1 the frame in the history is the last segment cut.
InBuffer(d) ==
  K = 1 => \A h \in Slot : d.tx_hist[h] # Null =>
             d.send_buffer = d.tx_hist[h].msg /\ d.send_out = d.tx_hist[h].part

Windowed(d) ==
  /\ d.state \in Established => HistInWindow(d) /\ InBuffer(d)
  /\ d.state = "MF_EST" => WindowOpen(d)

Timed(d) ==
  /\ d.state \in {"SABM_SENT", "TIMER_RECOV"} => d.t200
  /\ d.state = "MF_EST" /\ Outstanding(d) => d.t200

\* tm: the timer is part of the claim (it is not on a link that was suspended).
Sound(d, tm) == Windowed(d) /\ (tm => Timed(d))

ErrTold(c) == \E i \in DOMAIN c.l3 : c.l3[i].prim = "MDL_ERROR"

\* What a handler has to achieve, and what one goes on from in a running link.
Good(c, tm) == c \in Context /\ (ErrTold(c) \/ Sound(c.dl, tm))
Going(c, tm) == Good(c, tm) /\ c.dl.state \in Established

-----------------------------------------------------------------------------
(* The slots of the history.                                                *)

\* The window has fewer frames than the history has slots (range_hist).
LEMMA WindowFits ==
  /\ K \in 1 .. 7
  /\ \/ RangeHist = 2 /\ K = 1
     \/ RangeHist = 4 /\ K \in 2 .. 3
     \/ RangeHist = 8 /\ K \in 4 .. 7
  BY WindowAssumption DEF RangeHist

\* The slot before V(S), where lapd_acknowledge looks, is not one of the window from V(S) on.
LEMMA LastFree ==
  ASSUME NEW v \in Seqno, NEW i \in 0 .. K - 1
  PROVE  do_mod(sub_mod(v, 1, VRange), RangeHist) # do_mod(v + i, RangeHist)
  <1>1. CASE RangeHist = 2 /\ K = 1
    BY <1>1 DEF do_mod, sub_mod, Seqno, VRange
  <1>2. CASE RangeHist = 4 /\ K \in 2 .. 3
    BY <1>2 DEF do_mod, sub_mod, Seqno, VRange
  <1>3. CASE RangeHist = 8 /\ K \in 4 .. 7
    BY <1>3 DEF do_mod, sub_mod, Seqno, VRange
  <1>4. QED
    BY <1>1, <1>2, <1>3, WindowFits

\* lapd_acknowledge and the callback of T200 compute the same slot.
LEMMA LastSlot ==
  ASSUME NEW v \in Seqno
  PROVE  do_mod(sub_mod(v, 1, VRange), RangeHist) = sub_mod(v, 1, RangeHist)
  <1>1. CASE RangeHist = 2
    BY <1>1 DEF do_mod, sub_mod, Seqno, VRange
  <1>2. CASE RangeHist = 4
    BY <1>2 DEF do_mod, sub_mod, Seqno, VRange
  <1>3. CASE RangeHist = 8
    BY <1>3 DEF do_mod, sub_mod, Seqno, VRange
  <1>4. QED
    BY <1>1, <1>2, <1>3, WindowFits

\* What lapd_acknowledge leaves of the window from va on is within the window from nr on.
LEMMA AckedWindow ==
  ASSUME NEW va \in Seqno, NEW nr \in Seqno, NEW h \in Slot, h \notin Acked(va, nr),
         NEW i \in 0 .. K - 1, h = do_mod(va + i, RangeHist)
  PROVE  \E j \in 0 .. K - 1 : h = do_mod(nr + j, RangeHist)
  <1> DEFINE n == sub_mod(nr, va, VRange)
  <1>1. n \in 0 .. 7 /\ i \in Int /\ K \in 1 .. 7
    BY WindowFits DEF sub_mod, Seqno, VRange
  <1>2. do_mod(va + i, RangeHist) = do_mod(add_mod(va, i, VRange), RangeHist)
    <2>1. CASE RangeHist = 2
      BY <2>1 DEF do_mod, add_mod, Seqno, VRange
    <2>2. CASE RangeHist = 4
      BY <2>2 DEF do_mod, add_mod, Seqno, VRange
    <2>3. CASE RangeHist = 8
      BY <2>3 DEF do_mod, add_mod, Seqno, VRange
    <2>4. QED
      BY <2>1, <2>2, <2>3, WindowFits
  <1>3. ~(i < n)
    <2>1. SUFFICES ASSUME i < n
                   PROVE  FALSE
      OBVIOUS
    <2>2. i \in 0 .. n - 1
      BY <1>1, <2>1
    <2>3. QED
      BY <1>2, <2>2 DEF Acked
  <1>4. i - n \in 0 .. K - 1
    BY <1>1, <1>3
  <1>5. do_mod(nr + (i - n), RangeHist) = do_mod(va + i, RangeHist)
    <2>1. CASE RangeHist = 2
      BY <2>1 DEF do_mod, sub_mod, Seqno, VRange
    <2>2. CASE RangeHist = 4
      BY <2>2 DEF do_mod, sub_mod, Seqno, VRange
    <2>3. CASE RangeHist = 8
      BY <2>3 DEF do_mod, sub_mod, Seqno, VRange
    <2>4. QED
      BY <2>1, <2>2, <2>3, WindowFits
  <1>6. QED
    BY <1>4, <1>5

\* The slot lapd_send_i fills next is in the window, which is no wider afterwards.
LEMMA NextSlot ==
  ASSUME NEW vs \in Seqno, NEW va \in Seqno, sub_mod(vs, va, VRange) <= K,
         vs # add_mod(va, K, VRange)
  PROVE  /\ \E i \in 0 .. K - 1 : do_mod(vs, RangeHist) = do_mod(va + i, RangeHist)
         /\ sub_mod(inc_mod(vs, VRange), va, VRange) <= K
         /\ K = 1 => vs = va
  <1> DEFINE n == sub_mod(vs, va, VRange)
  <1>1. K \in 1 .. 7
    BY WindowFits
  <1>2. n \in 0 .. K - 1
    BY <1>1 DEF sub_mod, add_mod, Seqno, VRange
  <1>3. do_mod(vs, RangeHist) = do_mod(va + n, RangeHist)
    <2>1. CASE RangeHist = 2
      BY <2>1 DEF do_mod, sub_mod, Seqno, VRange
    <2>2. CASE RangeHist = 4
      BY <2>2 DEF do_mod, sub_mod, Seqno, VRange
    <2>3. CASE RangeHist = 8
      BY <2>3 DEF do_mod, sub_mod, Seqno, VRange
    <2>4. QED
      BY <2>1, <2>2, <2>3, WindowFits
  <1>4. sub_mod(inc_mod(vs, VRange), va, VRange) <= K
    BY <1>1, <1>2 DEF sub_mod, inc_mod, Seqno, VRange
  <1>5. K = 1 => vs = va
    BY <1>2 DEF sub_mod, Seqno, VRange
  <1>6. QED
    BY <1>2, <1>3, <1>4, <1>5

\* A valid N(R) leaves the window no wider (validity as lapd_acknowledge tests it).
LEMMA AckedOpen ==
  ASSUME NEW vs \in Seqno, NEW va \in Seqno, NEW nr \in Seqno,
         sub_mod(vs, va, VRange) <= K,
         ~(sub_mod(nr, va, VRange) > sub_mod(vs, va, VRange))
  PROVE  sub_mod(vs, nr, VRange) <= K
  <1>1. sub_mod(vs, nr, VRange) = sub_mod(vs, va, VRange) - sub_mod(nr, va, VRange)
    BY DEF sub_mod, Seqno, VRange
  <1>2. sub_mod(nr, va, VRange) \in 0 .. 7
    BY DEF sub_mod, Seqno, VRange
  <1>3. QED
    BY <1>1, <1>2, WindowFits DEF sub_mod, Seqno, VRange

-----------------------------------------------------------------------------
(* Steps that leave the window, the history and the timer alone.            *)

\* d differs from c at most in the queues, the receiving side and the air.
Alike(c, d) ==
  /\ d \in Context
  /\ d.l3 = c.l3
  /\ d.dl.state = c.dl.state
  /\ d.dl.v_send = c.dl.v_send /\ d.dl.v_ack = c.dl.v_ack
  /\ d.dl.t200 = c.dl.t200 /\ d.dl.tx_hist = c.dl.tx_hist
  /\ d.dl.send_buffer = c.dl.send_buffer /\ d.dl.send_out = c.dl.send_out

\* Such steps compose, and keep a handler on its way.
LEMMA AlikeGoing ==
  ASSUME NEW tm \in BOOLEAN, NEW b, NEW c, NEW d, Alike(c, d)
  PROVE  /\ Alike(b, c) => Alike(b, d)
         /\ Good(c, tm) => Good(d, tm)
         /\ Going(c, tm) => Going(d, tm)
  <1>1. Alike(b, c) => Alike(b, d)
    BY DEF Alike
  <1>2. ErrTold(c) => ErrTold(d)
    BY DEF Alike, ErrTold
  <1>3. Windowed(c.dl) => Windowed(d.dl)
    BY DEF Alike, Windowed, HistInWindow, InBuffer, WindowOpen
  <1>4. Timed(c.dl) => Timed(d.dl)
    BY DEF Alike, Timed, Outstanding
  <1>5. Sound(c.dl, tm) => Sound(d.dl, tm)
    BY <1>3, <1>4 DEF Sound
  <1>6. Good(c, tm) => Good(d, tm)
    BY <1>2, <1>5 DEF Good, Alike
  <1>7. QED
    BY <1>1, <1>6 DEF Going, Alike

\* Frames are sent without a look at the window, and so are the answers.
LEMMA SendAlike ==
  ASSUME NEW c \in Context, NEW f \in Frame
  PROVE  Alike(c, Send(c, f))
  <1>1. Send(c, f) \in Context
    BY SendType
  <1>2. QED
    BY <1>1 DEF Alike, Send, Context, Datalink

\* lapd_send_ua, _dm, _rr, _rej and the answer to a poll leave the window alone.
LEMMA AnswersAlike ==
  ASSUME NEW c \in Context, NEW f \in Frame, NEW pf \in BOOLEAN, NEW cmd \in BOOLEAN
  PROVE  /\ Alike(c, c)
         /\ f.type # "I" => Alike(c, SendUa(c, f))
         /\ Alike(c, SendDm(c, f))
         /\ Alike(c, SendRr(c, pf, cmd))
         /\ Alike(c, SendRej(c, pf))
         /\ Alike(c, AnswerPoll(c, f))
  <1>1. f.pf \in BOOLEAN /\ (f.type # "I" => f.info \in Carried)
    BY DEF Frame
  <1>2. c.dl.v_recv \in Seqno
    BY DEF Context, Datalink
  <1>3. Empty \in Carried
    BY DEF Carried
  <1>4. f.type # "I" => Alike(c, SendUa(c, f))
    BY <1>1, FrameTypes, SendAlike DEF SendUa
  <1>5. Alike(c, SendDm(c, f))
    BY <1>1, <1>3, FrameTypes, SendAlike DEF SendDm
  <1>6. \A p \in BOOLEAN, m \in BOOLEAN : Alike(c, SendRr(c, p, m))
    BY <1>2, FrameTypes, SendAlike DEF SendRr
  <1>7. Alike(c, SendRej(c, pf))
    BY <1>2, FrameTypes, SendAlike DEF SendRej
  <1>8. Alike(c, c)
    BY DEF Alike
  <1>9. Alike(c, AnswerPoll(c, f))
    BY <1>6, <1>8 DEF AnswerPoll
  <1>10. QED
    BY <1>4, <1>5, <1>6, <1>7, <1>8, <1>9

\* Telling layer 3 changes no field of the datalink, and what it was told stays told.
LEMMA TellSound ==
  ASSUME NEW c \in Context, NEW info \in Carried, NEW tm \in BOOLEAN,
         NEW p \in {"EST_IND", "EST_CONF", "REL_IND", "REL_CONF", "SUSP_CONF", "MDL_ERROR"}
  PROVE  /\ Tell(c, p, info) \in Context
         /\ Tell(c, p, info).dl = c.dl
         /\ ErrTold(c) => ErrTold(Tell(c, p, info))
         /\ p = "MDL_ERROR" => ErrTold(Tell(c, p, info))
         /\ Good(c, tm) => Good(Tell(c, p, info), tm)
  <1> DEFINE x == [prim |-> p, info |-> info]
             d == Tell(c, p, info)
             n == Len(c.l3)
  <1>1. c.l3 \in Prims
    BY DEF Context
  <1>2. d.dl = c.dl /\ d.l3 = Append(c.l3, x)
    BY DEF Context, Tell
  <1>3. /\ n \in Nat
        /\ DOMAIN c.l3 = 1 .. n
        /\ DOMAIN d.l3 = 1 .. n + 1
        /\ d.l3[n + 1] = x
        /\ \A i \in 1 .. n : d.l3[i] = c.l3[i]
    BY <1>1, <1>2 DEF Prims
  <1>4. x.prim = p
    OBVIOUS
  <1>5. d \in Context
    BY TellType
  <1> HIDE DEF d, x, n
  <1>6. ErrTold(c) => ErrTold(d)
    BY <1>3 DEF ErrTold
  <1>7. p = "MDL_ERROR" => ErrTold(d)
    BY <1>3, <1>4 DEF ErrTold
  <1>8. QED
    BY <1>2, <1>5, <1>6, <1>7 DEF d, Good

\* An MDL-ERROR-INDICATION: from here on layer 3 knows, whatever follows.
LEMMA ErrorGood ==
  ASSUME NEW c \in Context, NEW tm \in BOOLEAN
  PROVE  /\ MdlError(c).dl = c.dl
         /\ ErrTold(MdlError(c))
         /\ Good(MdlError(c), tm)
         /\ c.dl.state \in Established => Going(MdlError(c), tm)
  <1>1. Empty \in Carried
    BY DEF Carried
  <1>2. /\ MdlError(c) \in Context
        /\ MdlError(c).dl = c.dl
        /\ ErrTold(MdlError(c))
    BY <1>1, TellSound DEF MdlError, TellSimple
  <1>3. QED
    BY <1>2 DEF Good, Going

-----------------------------------------------------------------------------
(* lapd_send_i.                                                             *)

\* Fetching a message changes the queue and the buffer only.
LEMMA FetchFields ==
  ASSUME NEW c \in Context
  PROVE  /\ Fetch(c).dl.state = c.dl.state
         /\ Fetch(c).dl.v_send = c.dl.v_send /\ Fetch(c).dl.v_ack = c.dl.v_ack
         /\ Fetch(c).dl.t200 = c.dl.t200 /\ Fetch(c).dl.tx_hist = c.dl.tx_hist
  BY DEF Fetch, Context, Datalink

\* A segment that is cut goes into one slot, and the buffer says which it is.
LEMMA CutFields ==
  ASSUME NEW c \in Context, NEW h \in Slot, NEW d, d = CutSegment(c, h)
  PROVE  /\ d.dl.state = c.dl.state
         /\ d.dl.v_send = c.dl.v_send /\ d.dl.v_ack = c.dl.v_ack
         /\ d.dl.t200 = c.dl.t200
         /\ \A x \in Slot \ {h} : d.dl.tx_hist[x] = c.dl.tx_hist[x]
         /\ \/ d.dl.tx_hist = c.dl.tx_hist
            \/ /\ d.dl.tx_hist[h] = [msg |-> d.dl.send_buffer, part |-> d.dl.send_out]
  <1> DEFINE b == Fetch(c)
             n == b.dl.send_out + 1
             seg == [msg |-> b.dl.send_buffer, part |-> n]
  <1>1. b \in Context
    BY FetchType
  <1>2. /\ b.dl.state = c.dl.state
        /\ b.dl.v_send = c.dl.v_send /\ b.dl.v_ack = c.dl.v_ack
        /\ b.dl.t200 = c.dl.t200 /\ b.dl.tx_hist = c.dl.tx_hist
    BY FetchFields
  <1>3. d = IF b.dl.send_buffer = Null THEN b
            ELSE [b EXCEPT !.dl.tx_hist[h] = seg, !.dl.send_out = n]
    BY DEF CutSegment
  <1> HIDE DEF b, n, seg
  <1>4. CASE b.dl.send_buffer = Null
    BY <1>2, <1>3, <1>4
  <1>5. CASE b.dl.send_buffer # Null
    <2>1. d = [b EXCEPT !.dl.tx_hist[h] = seg, !.dl.send_out = n]
      BY <1>3, <1>5
    <2>2. b.dl.tx_hist \in [Slot -> Info \cup {Null}]
      BY <1>1 DEF Context, Datalink
    <2> DEFINE hist == [b.dl.tx_hist EXCEPT ![h] = seg]
    <2>6. d = [b EXCEPT !.dl.tx_hist = hist, !.dl.send_out = n]
      BY <2>1
    <2>7. hist[h] = seg /\ \A x \in Slot \ {h} : hist[x] = b.dl.tx_hist[x]
      BY <2>2
    <2> HIDE DEF hist
    <2>3. /\ d.dl.state = b.dl.state
          /\ d.dl.v_send = b.dl.v_send /\ d.dl.v_ack = b.dl.v_ack
          /\ d.dl.t200 = b.dl.t200
          /\ d.dl.tx_hist = hist
          /\ d.dl.send_buffer = b.dl.send_buffer /\ d.dl.send_out = n
      <3>1. d.dl.t200 = b.dl.t200
        BY ZenonT(40), <1>1, <2>6 DEF Context, Datalink
      <3>2. d.dl.tx_hist = hist
        BY ZenonT(40), <1>1, <2>6 DEF Context, Datalink
      <3>3. d.dl.send_out = n
        BY ZenonT(40), <1>1, <2>6 DEF Context, Datalink
      <3>4. /\ d.dl.state = b.dl.state /\ d.dl.send_buffer = b.dl.send_buffer
            /\ d.dl.v_send = b.dl.v_send /\ d.dl.v_ack = b.dl.v_ack
        <4>1. d.dl.state = b.dl.state /\ d.dl.send_buffer = b.dl.send_buffer
          BY ZenonT(40), <1>1, <2>6 DEF Context, Datalink
        <4>2. d.dl.v_send = b.dl.v_send /\ d.dl.v_ack = b.dl.v_ack
          BY ZenonT(40), <1>1, <2>6 DEF Context, Datalink
        <4>3. QED
          BY <4>1, <4>2
      <3>5. QED
        BY <3>1, <3>2, <3>3, <3>4
    <2>4. d.dl.tx_hist[h] = seg /\ \A x \in Slot \ {h} : d.dl.tx_hist[x] = b.dl.tx_hist[x]
      BY <2>7, <2>3
    <2>5. QED
      BY <1>2, <2>3, <2>4 DEF seg
  <1>6. QED
    BY <1>4, <1>5

\* V(S) and the slots it points at and before are in range and apart.
LEMMA SendSlots ==
  ASSUME NEW c \in Context, NEW h, h = do_mod(c.dl.v_send, RangeHist),
         NEW l, l = do_mod(sub_mod(c.dl.v_send, 1, VRange), RangeHist)
  PROVE  c.dl.v_send \in Seqno /\ c.dl.v_ack \in Seqno /\ h \in Slot /\ l \in Slot /\ l # h
  <1>1. c.dl.v_send \in Seqno /\ c.dl.v_ack \in Seqno
    BY DEF Context, Datalink
  <1>2. sub_mod(c.dl.v_send, 1, VRange) \in Seqno
    BY <1>1 DEF sub_mod, Seqno, VRange
  <1>3. h \in Slot /\ l \in Slot
    BY <1>1, <1>2, SlotOps DEF Seqno
  <1>4. do_mod(c.dl.v_send + 0, RangeHist) = h
    BY <1>1 DEF Seqno
  <1>5. QED
    BY <1>1, <1>3, <1>4, LastFree, WindowFits

\* Cutting the next segment keeps window, buffer and timer in order.
LEMMA CutSound ==
  ASSUME NEW c \in Context, NEW tm \in BOOLEAN, NEW h, h = do_mod(c.dl.v_send, RangeHist),
         Sound(c.dl, tm), c.dl.state = "MF_EST", CanSend(c.dl), c.dl.tx_hist[h] = Null,
         NEW d, d = CutSegment(c, h)
  PROVE  /\ d \in Context /\ d.dl.state = "MF_EST"
         /\ CanSend(d.dl) /\ d.dl.v_send = c.dl.v_send
         /\ Windowed(d.dl)
         /\ d.dl.tx_hist[h] = Null => Sound(d.dl, tm)
  <1> DEFINE l == do_mod(sub_mod(c.dl.v_send, 1, VRange), RangeHist)
  <1>1. c.dl.v_send \in Seqno /\ c.dl.v_ack \in Seqno /\ h \in Slot /\ l \in Slot /\ l # h
    BY SendSlots
  <1>2. d \in Context
    BY <1>1, CutSegmentType
  <1>3. /\ d.dl.state = c.dl.state
        /\ d.dl.v_send = c.dl.v_send /\ d.dl.v_ack = c.dl.v_ack
        /\ d.dl.t200 = c.dl.t200
        /\ \A x \in Slot \ {h} : d.dl.tx_hist[x] = c.dl.tx_hist[x]
        /\ \/ d.dl.tx_hist = c.dl.tx_hist
           \/ d.dl.tx_hist[h] = [msg |-> d.dl.send_buffer, part |-> d.dl.send_out]
    BY <1>1, CutFields
  <1>4. HistInWindow(c.dl) /\ InBuffer(c.dl) /\ WindowOpen(c.dl)
    BY DEF Sound, Windowed, Established
  <1>5. /\ \E i \in 0 .. K - 1 : h = do_mod(c.dl.v_ack + i, RangeHist)
        /\ K = 1 => c.dl.v_send = c.dl.v_ack
    <2>1. c.dl.v_send # add_mod(c.dl.v_ack, K, VRange)
      BY DEF CanSend
    <2>2. sub_mod(c.dl.v_send, c.dl.v_ack, VRange) <= K
      BY <1>4 DEF WindowOpen
    <2>3. QED
      BY <1>1, <2>1, <2>2, NextSlot
  <1>6. CanSend(d.dl) /\ WindowOpen(d.dl)
    BY <1>3, <1>4 DEF CanSend, WindowOpen
  <1>7. HistInWindow(d.dl)
    BY <1>3, <1>4, <1>5 DEF HistInWindow
  <1>8. ASSUME K = 1, NEW x \in Slot, x # h
        PROVE  c.dl.tx_hist[x] = Null
    <2>1. 0 .. K - 1 = {0} /\ c.dl.v_ack + 0 = c.dl.v_ack
      BY <1>1, <1>8 DEF Seqno
    <2>2. c.dl.tx_hist[x] # Null => x = do_mod(c.dl.v_ack, RangeHist)
      BY <1>4, <2>1 DEF HistInWindow
    <2>3. QED
      BY <1>5, <1>8, <2>2
  <1>9. InBuffer(d.dl)
    <2>1. SUFFICES ASSUME K = 1, NEW x \in Slot, d.dl.tx_hist[x] # Null
                   PROVE  /\ d.dl.send_buffer = d.dl.tx_hist[x].msg
                          /\ d.dl.send_out = d.dl.tx_hist[x].part
      BY DEF InBuffer
    <2>2. x = h
      BY <1>3, <1>8, <2>1
    <2>3. d.dl.tx_hist[h] = [msg |-> d.dl.send_buffer, part |-> d.dl.send_out]
      BY <1>3, <2>1, <2>2
    <2>4. QED
      BY <2>2, <2>3
  <1>10. Windowed(d.dl)
    BY <1>3, <1>6, <1>7, <1>9 DEF Windowed
  <1>11. Timed(c.dl) => Timed(d.dl)
    <2>1. d.dl.tx_hist[l] = c.dl.tx_hist[l]
      BY <1>1, <1>3
    <2>2. Outstanding(d.dl) <=> Outstanding(c.dl)
      BY <1>3, <2>1 DEF Outstanding
    <2>3. QED
      BY <1>3, <2>2 DEF Timed
  <1>12. QED
    BY <1>2, <1>3, <1>6, <1>10, <1>11 DEF Sound

\* Sending an I frame moves V(S) within the window, and starts T200.
LEMMA TransmitSound ==
  ASSUME NEW c \in Context, NEW tm \in BOOLEAN, NEW h, h = do_mod(c.dl.v_send, RangeHist),
         Windowed(c.dl), c.dl.state = "MF_EST", CanSend(c.dl), c.dl.tx_hist[h] # Null
  PROVE  Going(Transmit(c, h), tm)
  <1> DEFINE f == IFrame(FALSE, c.dl.v_send, c.dl.v_recv, c.dl.tx_hist[h])
             n == inc_mod(c.dl.v_send, VRange)
             d == [c EXCEPT !.dl.v_send = n, !.dl.t200 = TRUE]
  <1>1. c.dl.v_send \in Seqno /\ c.dl.v_ack \in Seqno /\ h \in Slot /\ c.dl.v_recv \in Seqno
    BY SendSlots DEF Context, Datalink
  <1>2. f \in Frame
    <2>1. c.dl.tx_hist[h] \in Info
      BY <1>1 DEF Context, Datalink
    <2>2. QED
      BY <1>1, <2>1, FrameTypes
  <1>3. n \in Seqno
    BY <1>1 DEF inc_mod, Seqno, VRange
  <1>4. Transmit(c, h) = Send(d, f)
    BY DEF Transmit
  <1>5. sub_mod(n, c.dl.v_ack, VRange) <= K
    <2>1. c.dl.v_send # add_mod(c.dl.v_ack, K, VRange)
      BY DEF CanSend
    <2>2. sub_mod(c.dl.v_send, c.dl.v_ack, VRange) <= K
      BY DEF Windowed, WindowOpen
    <2>3. QED
      BY <1>1, <2>1, <2>2, NextSlot
  <1> HIDE DEF f, n
  <1>6. d \in Context
    BY <1>3 DEF Context, Datalink
  <1>7. /\ d.dl.state = c.dl.state /\ d.dl.v_send = n /\ d.dl.v_ack = c.dl.v_ack
        /\ d.dl.tx_hist = c.dl.tx_hist
        /\ d.dl.send_buffer = c.dl.send_buffer /\ d.dl.send_out = c.dl.send_out
    BY DEF Context, Datalink
  <1>8. d.dl.t200 = TRUE
    BY DEF Context, Datalink
  <1> HIDE DEF d
  <1>9. Windowed(d.dl)
    BY <1>5, <1>7 DEF Windowed, HistInWindow, InBuffer, WindowOpen
  <1>10. Timed(d.dl)
    BY <1>8 DEF Timed
  <1>11. Going(d, tm)
    BY <1>6, <1>7, <1>9, <1>10 DEF Going, Good, Sound, Established
  <1>12. QED
    BY <1>2, <1>4, <1>6, <1>11, SendAlike, AlikeGoing

\* One turn of the loop of lapd_send_i.
LEMMA NextFrameGoing ==
  ASSUME NEW c, NEW tm \in BOOLEAN, Going(c, tm)
  PROVE  Going(NextFrame(c), tm)
  <1> DEFINE h == do_mod(c.dl.v_send, RangeHist)
             d == IF c.dl.tx_hist[h] = Null THEN CutSegment(c, h) ELSE c
  <1>1. c \in Context /\ c.dl.state \in Established
    BY DEF Going, Good
  <1>2. Quietly(c, NextFrame(c))
    BY <1>1, QuietNextFrame
  <1>3. CASE ErrTold(c)
    BY <1>1, <1>2, <1>3 DEF Quietly, ErrTold, Going, Good
  <1>4. CASE ~CanSend(c.dl)
    BY <1>4 DEF NextFrame
  <1>5. CASE ~ErrTold(c) /\ CanSend(c.dl)
    <2>1. c.dl.state = "MF_EST" /\ Sound(c.dl, tm)
      BY <1>1, <1>5 DEF Going, Good, CanSend, Established
    <2>2. NextFrame(c) = IF d.dl.tx_hist[h] = Null THEN d ELSE Transmit(d, h)
      BY <1>5 DEF NextFrame
    <2>3. /\ d \in Context /\ d.dl.state = "MF_EST"
          /\ CanSend(d.dl) /\ d.dl.v_send = c.dl.v_send
          /\ Windowed(d.dl)
          /\ d.dl.tx_hist[h] = Null => Sound(d.dl, tm)
      <3>1. CASE c.dl.tx_hist[h] = Null
        <4>1. d = CutSegment(c, h)
          BY <3>1
        <4> HIDE DEF h, d
        <4>2. h = do_mod(c.dl.v_send, RangeHist)
          BY DEF h
        <4>3. QED
          BY <1>1, <1>5, <2>1, <3>1, <4>1, <4>2, CutSound
      <3>2. CASE c.dl.tx_hist[h] # Null
        BY <1>1, <1>5, <2>1, <3>2 DEF Sound
      <3>3. QED
        BY <3>1, <3>2
    <2>4. h = do_mod(d.dl.v_send, RangeHist)
      BY <2>3
    <2> HIDE DEF h, d
    <2>5. CASE d.dl.tx_hist[h] = Null
      BY <2>2, <2>3, <2>5 DEF Going, Good, Established
    <2>6. CASE d.dl.tx_hist[h] # Null
      BY <2>2, <2>3, <2>4, <2>6, TransmitSound
    <2>7. QED
      BY <2>5, <2>6
  <1>6. QED
    BY <1>3, <1>4, <1>5

\* lapd_send_i, whatever number of frames it sends.
LEMMA SendIGoing ==
  ASSUME NEW c, NEW tm \in BOOLEAN, Going(c, tm)
  PROVE  Going(SendI(c), tm)
  <1>1. \A x : Going(x, tm) => Going(TwoFrames(x), tm)
    BY NextFrameGoing DEF TwoFrames
  <1>2. \A x : Going(x, tm) => Going(FourFrames(x), tm)
    BY <1>1 DEF FourFrames
  <1>3. QED
    BY <1>2 DEF SendI

-----------------------------------------------------------------------------
(* lapd_acknowledge.                                                        *)

\* What lapd_acknowledge does to each field, for any N(R).
LEMMA AckFields ==
  ASSUME NEW c \in Context, NEW f \in Frame, NEW d, d = Acknowledge(c, f)
  PROVE  /\ d \in Context
         /\ d.dl.state = c.dl.state /\ d.dl.v_send = c.dl.v_send /\ d.dl.v_ack = f.nr
         /\ d.dl.send_buffer = c.dl.send_buffer /\ d.dl.send_out = c.dl.send_out
         /\ d.dl.tx_hist = [h \in Slot |-> IF h \in Acked(c.dl.v_ack, f.nr) THEN Null
                                                                 ELSE c.dl.tx_hist[h]]
         /\ c.dl.state = "TIMER_RECOV" => d.dl.t200 = c.dl.t200
         /\ c.dl.state # "TIMER_RECOV" /\ f.type # "REJ" =>
              d.dl.t200 = IF f.nr = c.dl.v_ack THEN c.dl.t200
                          ELSE d.dl.tx_hist[sub_mod(c.dl.v_send, 1, RangeHist)] # Null
         /\ ErrTold(c) => ErrTold(d)
         /\ c.dl.state # "TIMER_RECOV"
            /\ sub_mod(f.nr, c.dl.v_ack, VRange) > sub_mod(c.dl.v_send, c.dl.v_ack, VRange)
              => ErrTold(d)
  <1> DEFINE va == c.dl.v_ack
             rej == f.type = "REJ"
             recov == c.dl.state = "TIMER_RECOV"
             reset == ~recov /\ (rej <=> f.nr = va)
             invalid == ~recov /\ sub_mod(f.nr, va, VRange)
                                    > sub_mod(c.dl.v_send, va, VRange)
             last == sub_mod(c.dl.v_send, 1, RangeHist)
             hist == [h \in Slot |-> IF h \in Acked(va, f.nr) THEN Null
                                                             ELSE c.dl.tx_hist[h]]
             t == IF reset THEN ~rej /\ hist[last] # Null ELSE c.dl.t200
             b == [c EXCEPT !.dl.tx_hist = hist, !.dl.v_ack = f.nr, !.dl.t200 = t]
  <1>1. d = IF invalid THEN MdlError(b) ELSE b
    BY DEF Acknowledge
  <1>2. hist \in [Slot -> Info \cup {Null}]
    BY DEF Context, Datalink
  <1>3. f.nr \in Seqno
    BY DEF Frame
  <1>4. t \in BOOLEAN
    BY DEF Context, Datalink
  <1>5. recov => t = c.dl.t200
    OBVIOUS
  <1>6. ~recov /\ ~rej => t = IF f.nr = va THEN c.dl.t200 ELSE hist[last] # Null
    OBVIOUS
  <1>7. invalid <=> c.dl.state # "TIMER_RECOV"
                    /\ sub_mod(f.nr, va, VRange) > sub_mod(c.dl.v_send, va, VRange)
    OBVIOUS
  <1> HIDE DEF invalid, hist, t
  <1>8. b \in Context
    BY <1>2, <1>3, <1>4 DEF Context, Datalink
  <1>9. /\ b.dl.state = c.dl.state /\ b.dl.v_send = c.dl.v_send /\ b.dl.v_ack = f.nr
        /\ b.dl.send_buffer = c.dl.send_buffer /\ b.dl.send_out = c.dl.send_out
        /\ b.dl.tx_hist = hist
        /\ b.l3 = c.l3
    BY DEF Context, Datalink
  <1>10. b.dl.t200 = t
    BY DEF Context, Datalink
  <1> HIDE DEF b
  <1>11. ErrTold(c) => ErrTold(b)
    BY <1>9 DEF ErrTold
  <1>12. MdlError(b).dl = b.dl /\ ErrTold(MdlError(b)) /\ MdlError(b) \in Context
    BY <1>8, ErrorGood DEF Good
  <1>13. d.dl = b.dl /\ d \in Context
    BY <1>1, <1>8, <1>12
  <1>14. (ErrTold(c) => ErrTold(d)) /\ (invalid => ErrTold(d))
    BY <1>1, <1>11, <1>12
  <1>15. d.dl.tx_hist = [h \in Slot |-> IF h \in Acked(c.dl.v_ack, f.nr) THEN Null
                                                              ELSE c.dl.tx_hist[h]]
    BY <1>9, <1>13 DEF hist
  <1>16. d.dl.t200 = t /\ d.dl.tx_hist = hist
    BY <1>9, <1>10, <1>13
  <1>17. /\ c.dl.state = "TIMER_RECOV" => d.dl.t200 = c.dl.t200
         /\ c.dl.state # "TIMER_RECOV" /\ f.type # "REJ" =>
              d.dl.t200 = IF f.nr = c.dl.v_ack THEN c.dl.t200
                          ELSE d.dl.tx_hist[sub_mod(c.dl.v_send, 1, RangeHist)] # Null
    BY <1>5, <1>6, <1>16
  <1>18. QED
    BY <1>7, <1>9, <1>13, <1>14, <1>15, <1>17

\* What RxRej needs of it.
LEMMA AckBasics ==
  ASSUME NEW c \in Context, NEW f \in Frame, NEW d, d = Acknowledge(c, f)
  PROVE  /\ d \in Context /\ d.dl.state = c.dl.state /\ d.dl.v_ack = f.nr
         /\ c.dl.state = "TIMER_RECOV" => d.dl.t200 = c.dl.t200
         /\ ErrTold(c) => ErrTold(d)
  <1> DEFINE recov == c.dl.state = "TIMER_RECOV"
             va == c.dl.v_ack
             last == sub_mod(c.dl.v_send, 1, RangeHist)
             rej == f.type = "REJ"
             reset == ~recov /\ (rej <=> f.nr = va)
             invalid == ~recov /\ sub_mod(f.nr, va, VRange)
                                    > sub_mod(c.dl.v_send, va, VRange)
             hist == [h \in Slot |-> IF h \in Acked(va, f.nr) THEN Null
                                                             ELSE c.dl.tx_hist[h]]
             t == IF reset THEN ~rej /\ hist[last] # Null ELSE c.dl.t200
             b == [c EXCEPT !.dl.tx_hist = hist, !.dl.v_ack = f.nr, !.dl.t200 = t]
  <1>1. d = IF invalid THEN MdlError(b) ELSE b
    BY DEF Acknowledge
  <1>2. recov => t = c.dl.t200
    OBVIOUS
  <1>3. hist \in [Slot -> Info \cup {Null}] /\ f.nr \in Seqno /\ t \in BOOLEAN
    BY DEF Context, Datalink, Frame
  <1> HIDE DEF invalid, hist, t
  <1>4. b \in Context
    BY <1>3 DEF Context, Datalink
  <1>5. b.dl.state = c.dl.state /\ b.dl.v_ack = f.nr /\ b.l3 = c.l3
    BY DEF Context, Datalink
  <1>6. b.dl.t200 = t
    BY DEF Context, Datalink
  <1> HIDE DEF b
  <1>7. MdlError(b).dl = b.dl /\ ErrTold(MdlError(b)) /\ MdlError(b) \in Context
    BY <1>4, ErrorGood DEF Good
  <1>8. d.dl = b.dl /\ d \in Context
    BY <1>1, <1>4, <1>7
  <1>9. ErrTold(c) => ErrTold(d)
    BY <1>1, <1>5, <1>7 DEF ErrTold
  <1>10. QED
    BY <1>2, <1>5, <1>6, <1>8, <1>9

\* Whatever N(R) says, the frames left in the history are in the window from it on.
LEMMA AckHist ==
  ASSUME NEW c \in Context, NEW f \in Frame, NEW d, d = Acknowledge(c, f),
         HistInWindow(c.dl), InBuffer(c.dl)
  PROVE  HistInWindow(d.dl) /\ InBuffer(d.dl)
  <1>1. /\ d.dl.v_ack = f.nr
        /\ d.dl.send_buffer = c.dl.send_buffer /\ d.dl.send_out = c.dl.send_out
        /\ d.dl.tx_hist = [h \in Slot |-> IF h \in Acked(c.dl.v_ack, f.nr) THEN Null
                                                                ELSE c.dl.tx_hist[h]]
    BY AckFields
  <1>2. c.dl.v_ack \in Seqno /\ f.nr \in Seqno
    BY DEF Context, Datalink, Frame
  <1>3. \A h \in Slot : d.dl.tx_hist[h] # Null =>
          h \notin Acked(c.dl.v_ack, f.nr) /\ d.dl.tx_hist[h] = c.dl.tx_hist[h]
    BY <1>1
  <1>4. HistInWindow(d.dl)
    <2>1. SUFFICES ASSUME NEW h \in Slot, d.dl.tx_hist[h] # Null
                   PROVE  \E j \in 0 .. K - 1 : h = do_mod(f.nr + j, RangeHist)
      BY <1>1 DEF HistInWindow
    <2>2. h \notin Acked(c.dl.v_ack, f.nr) /\ c.dl.tx_hist[h] # Null
      BY <1>3, <2>1
    <2>3. PICK i \in 0 .. K - 1 : h = do_mod(c.dl.v_ack + i, RangeHist)
      BY <2>2 DEF HistInWindow
    <2>4. QED
      BY <1>2, <2>2, <2>3, AckedWindow
  <1>5. InBuffer(d.dl)
    BY <1>1, <1>3 DEF InBuffer
  <1>6. QED
    BY <1>4, <1>5

\* An acknowledgement that repeats V(A) acknowledges nothing.
LEMMA AckNothing ==
  ASSUME NEW va \in Seqno
  PROVE  Acked(va, va) = {}
  <1>1. sub_mod(va, va, VRange) = 0
    BY DEF sub_mod, Seqno, VRange
  <1>2. 0 .. 0 - 1 = {}
    OBVIOUS
  <1>3. QED
    BY <1>1, <1>2 DEF Acked

\* lapd_acknowledge, for any frame but REJ: window and timer stay in order, or
\* N(R) was invalid and layer 3 is told.
LEMMA AckGoing ==
  ASSUME NEW c, NEW tm \in BOOLEAN, Going(c, tm), NEW f \in Frame, f.type # "REJ",
         NEW d, d = Acknowledge(c, f)
  PROVE  Going(d, tm) /\ d.dl.state = c.dl.state /\ d.dl.v_ack = f.nr
  <1>1. c \in Context /\ c.dl.state \in Established
    BY DEF Going, Good
  <1>2. /\ d \in Context
        /\ d.dl.state = c.dl.state /\ d.dl.v_send = c.dl.v_send /\ d.dl.v_ack = f.nr
        /\ d.dl.tx_hist = [h \in Slot |-> IF h \in Acked(c.dl.v_ack, f.nr) THEN Null
                                                                ELSE c.dl.tx_hist[h]]
        /\ c.dl.state = "TIMER_RECOV" => d.dl.t200 = c.dl.t200
        /\ c.dl.state # "TIMER_RECOV" =>
             d.dl.t200 = IF f.nr = c.dl.v_ack THEN c.dl.t200
                         ELSE d.dl.tx_hist[sub_mod(c.dl.v_send, 1, RangeHist)] # Null
        /\ ErrTold(c) => ErrTold(d)
        /\ c.dl.state # "TIMER_RECOV"
           /\ sub_mod(f.nr, c.dl.v_ack, VRange) > sub_mod(c.dl.v_send, c.dl.v_ack, VRange)
             => ErrTold(d)
    BY <1>1, AckFields
  <1>3. CASE ErrTold(d)
    BY <1>1, <1>2, <1>3 DEF Going, Good
  <1>4. CASE ~ErrTold(d)
    <2>1. Sound(c.dl, tm) /\ HistInWindow(c.dl) /\ InBuffer(c.dl)
      BY <1>1, <1>2, <1>4 DEF Going, Good, Sound, Windowed
    <2>2. HistInWindow(d.dl) /\ InBuffer(d.dl)
      BY <1>1, <2>1, AckHist
    <2>3. c.dl.v_send \in Seqno /\ c.dl.v_ack \in Seqno /\ f.nr \in Seqno
      BY <1>1 DEF Context, Datalink, Frame
    <2>4. CASE c.dl.state = "TIMER_RECOV"
      BY <1>1, <1>2, <2>1, <2>2, <2>4 DEF Going, Good, Sound, Windowed, Timed
    <2>5. CASE c.dl.state = "MF_EST"
      <3>1. WindowOpen(d.dl)
        <4>1. ~(sub_mod(f.nr, c.dl.v_ack, VRange) > sub_mod(c.dl.v_send, c.dl.v_ack, VRange))
          BY <1>2, <1>4, <2>5
        <4>2. sub_mod(c.dl.v_send, c.dl.v_ack, VRange) <= K
          BY <2>1, <2>5 DEF Sound, Windowed, WindowOpen
        <4>3. sub_mod(c.dl.v_send, f.nr, VRange) <= K
          BY <2>3, <4>1, <4>2, AckedOpen
        <4>4. QED
          BY <1>2, <4>3 DEF WindowOpen
      <3>2. Outstanding(d.dl) <=> d.dl.tx_hist[sub_mod(c.dl.v_send, 1, RangeHist)] # Null
        BY <1>2, <2>3, LastSlot DEF Outstanding
      <3>3. ASSUME tm
            PROVE  Outstanding(d.dl) => d.dl.t200
        <4>1. CASE f.nr # c.dl.v_ack
          BY <1>2, <2>5, <3>2, <4>1
        <4>2. CASE f.nr = c.dl.v_ack
          <5>1. Acked(c.dl.v_ack, f.nr) = {}
            BY <2>3, <4>2, AckNothing
          <5>2. d.dl.tx_hist = c.dl.tx_hist
            <6>1. c.dl.tx_hist \in [Slot -> Info \cup {Null}]
              BY <1>1 DEF Context, Datalink
            <6>2. QED
              BY <1>2, <5>1, <6>1
          <5>3. Outstanding(c.dl) => c.dl.t200
            BY <2>1, <2>5, <3>3 DEF Sound, Timed
          <5>4. QED
            BY <1>2, <2>5, <4>2, <5>2, <5>3 DEF Outstanding
        <4>3. QED
          BY <4>1, <4>2
      <3>4. Sound(d.dl, tm)
        BY <1>2, <2>2, <2>5, <3>1, <3>3 DEF Sound, Windowed, Timed
      <3>5. QED
        BY <1>1, <1>2, <3>4 DEF Going, Good
    <2>6. QED
      BY <1>1, <2>4, <2>5 DEF Established
  <1>5. QED
    BY <1>3, <1>4

\* V(S) set back to V(A): nothing is outstanding, so no timer has to run.
LEMMA CaughtUp ==
  ASSUME NEW tm \in BOOLEAN, NEW d \in Context, d.dl.state = "MF_EST",
         d.dl.v_send = d.dl.v_ack,
         ErrTold(d) \/ (HistInWindow(d.dl) /\ InBuffer(d.dl))
  PROVE  Going(d, tm)
  <1> DEFINE l == do_mod(sub_mod(d.dl.v_send, 1, VRange), RangeHist)
  <1>1. d.dl.v_send \in Seqno /\ l \in Slot
    BY SendSlots
  <1>2. WindowOpen(d.dl)
    <2>1. sub_mod(d.dl.v_send, d.dl.v_ack, VRange) = 0
      BY <1>1 DEF sub_mod, Seqno, VRange
    <2>2. QED
      BY <2>1, WindowFits DEF WindowOpen
  <1>3. HistInWindow(d.dl) => ~Outstanding(d.dl)
    <2>1. \A i \in 0 .. K - 1 : l # do_mod(d.dl.v_ack + i, RangeHist)
      BY <1>1, LastFree
    <2>2. QED
      BY <1>1, <2>1 DEF HistInWindow, Outstanding
  <1>4. QED
    BY <1>2, <1>3 DEF Going, Good, Sound, Windowed, Timed, Established

-----------------------------------------------------------------------------
(* Numbered frames.                                                         *)

SetVS(c, n) == [c EXCEPT !.dl.v_send = n]
SetVSVA(c, n) == [c EXCEPT !.dl.v_send = n, !.dl.v_ack = n]

\* Writing V(S) changes just that.
LEMMA SetSend ==
  ASSUME NEW c \in Context, NEW n \in Seqno, NEW d, d = SetVS(c, n)
  PROVE  /\ d \in Context /\ d.l3 = c.l3 /\ d.dl.state = c.dl.state
         /\ d.dl.v_send = n /\ d.dl.v_ack = c.dl.v_ack
         /\ d.dl.t200 = c.dl.t200 /\ d.dl.tx_hist = c.dl.tx_hist
         /\ d.dl.send_buffer = c.dl.send_buffer /\ d.dl.send_out = c.dl.send_out
  <1>1. d \in Context
    BY DEF SetVS, Context, Datalink
  <1>2. d.dl.t200 = c.dl.t200
    BY DEF SetVS, Context, Datalink
  <1>3. /\ d.l3 = c.l3 /\ d.dl.state = c.dl.state
        /\ d.dl.v_send = n /\ d.dl.v_ack = c.dl.v_ack /\ d.dl.tx_hist = c.dl.tx_hist
        /\ d.dl.send_buffer = c.dl.send_buffer /\ d.dl.send_out = c.dl.send_out
    BY DEF SetVS, Context, Datalink
  <1>4. QED
    BY <1>1, <1>2, <1>3

\* Writing V(S) and V(A) changes just these.
LEMMA SetBoth ==
  ASSUME NEW c \in Context, NEW n \in Seqno,
         NEW d, d = SetVSVA(c, n)
  PROVE  /\ d \in Context /\ d.l3 = c.l3 /\ d.dl.state = c.dl.state
         /\ d.dl.v_send = n /\ d.dl.v_ack = n
         /\ d.dl.t200 = c.dl.t200 /\ d.dl.tx_hist = c.dl.tx_hist
         /\ d.dl.send_buffer = c.dl.send_buffer /\ d.dl.send_out = c.dl.send_out
  <1>1. d \in Context
    BY DEF SetVSVA, Context, Datalink
  <1>2. d.dl.t200 = c.dl.t200
    BY DEF SetVSVA, Context, Datalink
  <1>3. /\ d.l3 = c.l3 /\ d.dl.state = c.dl.state
        /\ d.dl.v_send = n /\ d.dl.v_ack = n /\ d.dl.tx_hist = c.dl.tx_hist
        /\ d.dl.send_buffer = c.dl.send_buffer /\ d.dl.send_out = c.dl.send_out
    BY DEF SetVSVA, Context, Datalink
  <1>4. QED
    BY <1>1, <1>2, <1>3

\* The end of timer recovery, V(S) set back to N(R).
LEMMA LeaveGoing ==
  ASSUME NEW tm \in BOOLEAN, NEW d \in Context, d.dl.v_send = d.dl.v_ack,
         ErrTold(d) \/ (HistInWindow(d.dl) /\ InBuffer(d.dl)),
         NEW r, r \in {StopT200(d), LeaveRecovery(d)}, r.dl.state = "MF_EST"
  PROVE  Going(r, tm)
  <1> DEFINE b == StopT200(d)
             e == NewState(b, "MF_EST")
  <1>1. /\ b \in Context /\ b.l3 = d.l3
        /\ b.dl.v_send = d.dl.v_send /\ b.dl.v_ack = d.dl.v_ack /\ b.dl.tx_hist = d.dl.tx_hist
        /\ b.dl.send_buffer = d.dl.send_buffer /\ b.dl.send_out = d.dl.send_out
    BY StartStop DEF StopT200, Context, Datalink
  <1>2. r = b \/ r = e
    BY DEF LeaveRecovery
  <1> HIDE DEF b
  <1>3. /\ e.l3 = b.l3
        /\ e.dl.v_send = b.dl.v_send /\ e.dl.v_ack = b.dl.v_ack /\ e.dl.tx_hist = b.dl.tx_hist
        /\ e.dl.send_buffer = b.dl.send_buffer /\ e.dl.send_out = b.dl.send_out
    BY <1>1 DEF NewState, Context, Datalink
  <1>4. e \in Context
    BY <1>1, NewStateType DEF State
  <1> HIDE DEF e
  <1>5. /\ r \in Context /\ r.l3 = d.l3
        /\ r.dl.v_send = d.dl.v_send /\ r.dl.v_ack = d.dl.v_ack /\ r.dl.tx_hist = d.dl.tx_hist
        /\ r.dl.send_buffer = d.dl.send_buffer /\ r.dl.send_out = d.dl.send_out
    BY <1>1, <1>2, <1>3, <1>4
  <1>6. ErrTold(d) => ErrTold(r)
    BY <1>5 DEF ErrTold
  <1>7. HistInWindow(d.dl) => HistInWindow(r.dl)
    BY <1>5 DEF HistInWindow
  <1>8. InBuffer(d.dl) => InBuffer(r.dl)
    BY <1>5 DEF InBuffer
  <1>9. QED
    BY <1>5, <1>6, <1>7, <1>8, CaughtUp

\* An RR, acknowledging, polling or ending the recovery.
LEMMA RrGoing ==
  ASSUME NEW c, NEW tm \in BOOLEAN, Going(c, tm), NEW f \in Frame, f.type = "RR"
  PROVE  Going(RxRr(c, f), tm)
  <1> DEFINE a == Acknowledge(c, f)
             n == f.nr
             d == SetVS(a, n)
             e == IF ~f.cmd /\ f.pf /\ a.dl.state = "TIMER_RECOV"
                  THEN LeaveRecovery(d) ELSE AnswerPoll(a, f)
  <1>1. Going(a, tm) /\ a.dl.v_ack = n
    BY AckGoing
  <1>2. n \in Seqno
    BY DEF Frame
  <1>3. RxRr(c, f) = SendI(e)
    BY DEF RxRr, SetVS
  <1>4. a \in Context /\ a.dl.state \in Established
    BY <1>1 DEF Going, Good
  <1> HIDE DEF a, n
  <1>5. Going(AnswerPoll(a, f), tm)
    BY <1>1, <1>4, AnswersAlike, AlikeGoing
  <1>6. Going(LeaveRecovery(d), tm)
    <2>1. /\ d \in Context /\ d.l3 = a.l3 /\ d.dl.v_send = n /\ d.dl.v_ack = n
          /\ d.dl.tx_hist = a.dl.tx_hist
          /\ d.dl.send_buffer = a.dl.send_buffer /\ d.dl.send_out = a.dl.send_out
      BY <1>1, <1>2, <1>4, SetSend
    <2> HIDE DEF d
    <2>2. ErrTold(d) \/ (HistInWindow(d.dl) /\ InBuffer(d.dl))
      <3>1. ErrTold(a) => ErrTold(d)
        BY <2>1 DEF ErrTold
      <3>2. HistInWindow(a.dl) => HistInWindow(d.dl)
        BY <1>1, <2>1 DEF HistInWindow
      <3>3. InBuffer(a.dl) => InBuffer(d.dl)
        BY <2>1 DEF InBuffer
      <3>4. QED
        BY <1>1, <1>4, <3>1, <3>2, <3>3 DEF Going, Good, Sound, Windowed
    <2>3. LeaveRecovery(d).dl.state = "MF_EST"
      BY <2>1, StartStop, NewStateMoves DEF LeaveRecovery, Moves, State
    <2>4. QED
      BY <2>1, <2>2, <2>3, LeaveGoing
  <1>7. Going(e, tm)
    BY <1>5, <1>6
  <1> HIDE DEF e
  <1>8. QED
    BY <1>3, <1>7, SendIGoing

\* A REJ: V(S) and V(A) are set to N(R), whatever it is.
LEMMA RejGoing ==
  ASSUME NEW c, NEW tm \in BOOLEAN, Going(c, tm), NEW f \in Frame, f.type = "REJ"
  PROVE  Going(RxRej(c, f), tm)
  <1> DEFINE a == Acknowledge(c, f)
             n == f.nr
             d == SetVSVA(a, n)
             final == ~f.cmd /\ f.pf
             e == CASE d.dl.state # "TIMER_RECOV" /\ final -> MdlError(StopT200(d))
                    [] d.dl.state # "TIMER_RECOV" /\ ~final -> AnswerPoll(StopT200(d), f)
                    [] d.dl.state = "TIMER_RECOV" /\ final -> LeaveRecovery(d)
                    [] d.dl.state = "TIMER_RECOV" /\ ~final -> AnswerPoll(d, f)
  <1>1. c \in Context /\ c.dl.state \in Established
    BY DEF Going, Good
  <1>4. n \in Seqno
    BY DEF Frame
  <1>5. RxRej(c, f) = SendI(e)
    BY DEF RxRej, SetVSVA
  <1>0. a = Acknowledge(c, f) /\ n = f.nr
    OBVIOUS
  <1> HIDE DEF a, n
  <1>2. /\ a \in Context /\ a.dl.state = c.dl.state /\ a.dl.v_ack = n
        /\ c.dl.state = "TIMER_RECOV" => a.dl.t200 = c.dl.t200
        /\ ErrTold(c) => ErrTold(a)
    BY <1>0, <1>1, AckBasics
  <1>3. HistInWindow(c.dl) /\ InBuffer(c.dl) => HistInWindow(a.dl) /\ InBuffer(a.dl)
    BY <1>0, <1>1, AckHist
  <1>6. /\ d \in Context /\ d.l3 = a.l3 /\ d.dl.state = a.dl.state
        /\ d.dl.v_send = n /\ d.dl.v_ack = n
        /\ d.dl.t200 = a.dl.t200 /\ d.dl.tx_hist = a.dl.tx_hist
        /\ d.dl.send_buffer = a.dl.send_buffer /\ d.dl.send_out = a.dl.send_out
    BY <1>2, <1>4, SetBoth
  <1> HIDE DEF d
  <1>7. d.dl.state \in Established /\ d.dl.state = c.dl.state
    BY <1>1, <1>2, <1>6
  <1>8. ErrTold(d) \/ (HistInWindow(d.dl) /\ InBuffer(d.dl) /\ Sound(c.dl, tm))
    <2>1. ErrTold(c) => ErrTold(d)
      BY <1>2, <1>6 DEF ErrTold
    <2>2. HistInWindow(a.dl) => HistInWindow(d.dl)
      BY <1>2, <1>6 DEF HistInWindow
    <2>3. InBuffer(a.dl) => InBuffer(d.dl)
      BY <1>6 DEF InBuffer
    <2>4. QED
      BY <1>1, <1>3, <2>1, <2>2, <2>3 DEF Going, Good, Sound, Windowed
  <1>9. CASE d.dl.state = "TIMER_RECOV"
    <2>1. Going(d, tm)
      BY <1>2, <1>6, <1>7, <1>8, <1>9 DEF Going, Good, Sound, Windowed, Timed
    <2>2. Going(AnswerPoll(d, f), tm)
      BY <1>6, <2>1, AnswersAlike, AlikeGoing
    <2>3. LeaveRecovery(d).dl.state = "MF_EST"
      BY <1>6, StartStop, NewStateMoves DEF LeaveRecovery, Moves, State
    <2>4. Going(LeaveRecovery(d), tm)
      BY <1>6, <1>8, <2>3, LeaveGoing
    <2>5. QED
      BY <1>5, <1>9, <2>2, <2>4, SendIGoing
  <1>10. CASE d.dl.state # "TIMER_RECOV"
    <2> DEFINE b == StopT200(d)
    <2>1. b.dl.state = "MF_EST" /\ b \in Context
      <3>1. b.dl.state = d.dl.state /\ b \in Context
        BY <1>6, TimerKeeps DEF Keeps, Moves
      <3>2. QED
        BY <1>7, <1>10, <3>1 DEF Established
    <2>2. Going(b, tm)
      BY <1>6, <1>8, <2>1, LeaveGoing
    <2> HIDE DEF b
    <2>3. Going(AnswerPoll(b, f), tm)
      BY <2>1, <2>2, AnswersAlike, AlikeGoing
    <2>4. Going(MdlError(b), tm)
      BY <2>1, ErrorGood DEF Established
    <2>5. QED
      BY <1>5, <1>10, <2>3, <2>4, SendIGoing DEF b
  <1>11. QED
    BY <1>9, <1>10

\* A segment received and a message delivered do not touch the window.
LEMMA DeliverAlike ==
  ASSUME NEW c \in Context, NEW seg \in Segment
  PROVE  Alike(c, Deliver(c, seg))
  <1> DEFINE full == Len(c.dl.rcv_buffer) + 1 > MaxF
             buf == IF full THEN c.dl.rcv_buffer ELSE Append(c.dl.rcv_buffer, seg)
             del == Append(c.data, buf)
             x == [c EXCEPT !.dl.rcv_buffer = buf]
             y == [c EXCEPT !.dl.rcv_buffer = <<>>, !.data = del]
  <1>1. Deliver(c, seg) \in {x, y}
    BY DEF Deliver
  <1>2. c.dl.rcv_buffer \in Assembly /\ c.data \in Deliveries
    BY DEF Context, Datalink
  <1> HIDE DEF full
  <1>3. buf \in Assembly
    BY <1>2, SequenceTypes
  <1> HIDE DEF buf
  <1>4. del \in Deliveries
    BY <1>2, <1>3, SequenceTypes
  <1> HIDE DEF del
  <1>5. Alike(c, x)
    BY <1>3 DEF Alike, Context, Datalink
  <1>6. Alike(c, y)
    BY <1>4, SequenceTypes DEF Alike, Context, Datalink
  <1> HIDE DEF x, y
  <1>7. QED
    BY <1>1, <1>5, <1>6

\* update_pending_frames and the RR sent instead do not touch the window.
LEMMA UpdatePendingAlike ==
  ASSUME NEW c \in Context
  PROVE  Alike(c, UpdatePending(c))
  <1> DEFINE nr == c.dl.v_recv
             q == [i \in DOMAIN c.dl.tx_queue |->
                     IF c.dl.tx_queue[i].type = "I"
                     THEN [c.dl.tx_queue[i] EXCEPT !.nr = nr]
                     ELSE c.dl.tx_queue[i]]
             d == [c EXCEPT !.dl.tx_queue = q]
  <1>1. UpdatePending(c) = IF IsPending(c.dl) THEN d ELSE SendRr(c, FALSE, FALSE)
    BY DEF UpdatePending
  <1>2. nr \in Seqno /\ c.dl.tx_queue \in Frames
    BY DEF Context, Datalink
  <1>3. q \in Frames
    BY <1>2, RewrittenFrames
  <1> HIDE DEF q
  <1>4. Alike(c, d)
    BY <1>3 DEF Alike, Context, Datalink
  <1> HIDE DEF d
  <1>5. Alike(c, SendRr(c, FALSE, FALSE))
    <2>1. SFrame("RR", FALSE, FALSE, c.dl.v_recv) \in Frame
      BY <1>2, FrameTypes
    <2>2. QED
      BY <2>1, SendAlike DEF SendRr
  <1>6. QED
    BY <1>1, <1>4, <1>5

\* An I frame out of sequence still acknowledges.
LEMMA OutOfSequenceGoing ==
  ASSUME NEW c, NEW tm \in BOOLEAN, Going(c, tm), NEW f \in Frame, f.type = "I"
  PROVE  Going(OutOfSequence(c, f), tm)
  <1> DEFINE b == [c EXCEPT !.dl.seq_err_cond = 1]
             x == [c EXCEPT !.dl.seq_err_cond = 2]
             d == IF c.dl.seq_err_cond = 1 THEN x ELSE SendRej(b, f.pf)
             a == Acknowledge(d, f)
  <1>1. OutOfSequence(c, f) = SendI(a)
    BY DEF OutOfSequence
  <1>2. c \in Context /\ f.pf \in BOOLEAN
    BY DEF Going, Good, Frame
  <1>3. Alike(c, b)
    BY <1>2 DEF Alike, Context, Datalink
  <1>4. Alike(c, x)
    BY <1>2 DEF Alike, Context, Datalink
  <1> HIDE DEF b, x
  <1>5. Alike(b, SendRej(b, f.pf))
    BY <1>2, <1>3, AnswersAlike DEF Alike
  <1>6. Going(x, tm) /\ Going(b, tm)
    BY <1>3, <1>4, AlikeGoing
  <1>7. Going(SendRej(b, f.pf), tm)
    BY <1>5, <1>6, AlikeGoing
  <1>8. Going(d, tm)
    BY <1>6, <1>7
  <1> HIDE DEF d
  <1>9. Going(a, tm)
    BY <1>8, AckGoing
  <1> HIDE DEF a
  <1>10. QED
    BY <1>1, <1>9, SendIGoing

\* An I frame in sequence acknowledges, delivers, and is acknowledged.
LEMMA InSequenceGoing ==
  ASSUME NEW c, NEW tm \in BOOLEAN, Going(c, tm), NEW f \in Frame, f.type = "I",
         f.info \in Segment
  PROVE  Going(InSequence(c, f), tm)
  <1> DEFINE n == inc_mod(c.dl.v_recv, VRange)
             b == [c EXCEPT !.dl.seq_err_cond = 0, !.dl.v_recv = n]
             a == Acknowledge(b, f)
             x == Deliver(a, f.info)
             d == SendI(x)
             y == SendRr(x, TRUE, FALSE)
  <1>1. InSequence(c, f) \in {SendI(y), d, UpdatePending(d)}
    BY DEF InSequence
  <1>2. c \in Context
    BY DEF Going, Good
  <1>3. n \in Seqno
    BY <1>2 DEF Context, Datalink, inc_mod, VRange, Seqno
  <1> HIDE DEF n
  <1>4. Alike(c, b)
    <2> DEFINE z == [c EXCEPT !.dl.v_recv = n]
    <2>1. z \in Context
      BY <1>2, <1>3 DEF Context, Datalink
    <2>2. b = [z EXCEPT !.dl.seq_err_cond = 0]
      BY ZenonT(40), <1>2 DEF Context, Datalink
    <2>3. Alike(c, z)
      BY <1>2, <2>1 DEF Alike, Context, Datalink
    <2> HIDE DEF z, b
    <2>4. 0 \in 0 .. 2
      OBVIOUS
    <2>5. Alike(z, b)
      BY <2>1, <2>2, <2>4 DEF Alike, Context, Datalink
    <2>6. QED
      BY <2>3, <2>5, AlikeGoing
  <1> HIDE DEF b
  <1>5. Going(b, tm)
    BY <1>4, AlikeGoing
  <1>6. Going(a, tm)
    BY <1>5, AckGoing
  <1> HIDE DEF a
  <1>7. Going(x, tm)
    BY <1>6, DeliverAlike, AlikeGoing DEF Going, Good
  <1> HIDE DEF x
  <1>8. Going(y, tm)
    <2>1. Alike(x, SendRr(x, TRUE, FALSE))
      BY <1>7, AnswersAlike DEF Going, Good
    <2>2. QED
      BY <1>7, <2>1, AlikeGoing
  <1>9. Going(d, tm)
    BY <1>7, SendIGoing
  <1> HIDE DEF d, y
  <1>10. Going(UpdatePending(d), tm)
    BY <1>9, UpdatePendingAlike, AlikeGoing DEF Going, Good
  <1>11. Going(SendI(y), tm)
    BY <1>8, SendIGoing
  <1>12. QED
    BY <1>1, <1>9, <1>10, <1>11

-----------------------------------------------------------------------------
(* Frames from layer 1, handler by handler.                                 *)

\* Where nothing is established and no SABM is outstanding nothing is claimed.
LEMMA RestGood ==
  ASSUME NEW d \in Context, NEW tm \in BOOLEAN, d.dl.state \in {"IDLE", "DISC_SENT"}
  PROVE  Good(d, tm)
  BY DEF Good, Sound, Windowed, Timed, Established

\* lapd_rx_i.
LEMMA InformationGood ==
  ASSUME NEW c, NEW tm \in BOOLEAN, Good(c, tm), NEW f \in Frame, f.type = "I"
  PROVE  Good(lapd_rx_i(c, f), tm)
  <1>1. c \in Context /\ c.dl.state \in State
    BY DEF Good, Context, Datalink
  <1>2. lapd_rx_i(c, f) \in {MdlError(c), SendDm(c, f), c}
        \/ /\ c.dl.state \in Established /\ f.info \in Segment
           /\ lapd_rx_i(c, f) \in {OutOfSequence(c, f), InSequence(c, f)}
    BY <1>1 DEF lapd_rx_i, State, Established
  <1>3. Good(MdlError(c), tm)
    BY <1>1, ErrorGood
  <1>4. Good(SendDm(c, f), tm)
    <2>1. Alike(c, SendDm(c, f))
      BY <1>1, AnswersAlike
    <2>2. QED
      BY <2>1, AlikeGoing
  <1>5. c.dl.state \in Established /\ f.info \in Segment =>
          Good(OutOfSequence(c, f), tm) /\ Good(InSequence(c, f), tm)
    BY OutOfSequenceGoing, InSequenceGoing DEF Going
  <1>6. QED
    BY <1>2, <1>3, <1>4, <1>5

\* lapd_rx_s.
LEMMA SupervisoryGood ==
  ASSUME NEW c, NEW tm \in BOOLEAN, Good(c, tm), NEW f \in Frame, f.type \in {"RR", "REJ"}
  PROVE  Good(lapd_rx_s(c, f), tm)
  <1> DEFINE d == IF ~f.cmd /\ f.pf /\ c.dl.state # "TIMER_RECOV" THEN MdlError(c) ELSE c
  <1>1. c \in Context /\ c.dl.state \in State
    BY DEF Good, Context, Datalink
  <1>2. lapd_rx_s(c, f) = CASE c.dl.state = "IDLE" -> IF f.pf THEN SendDm(d, f) ELSE d
             [] c.dl.state \in {"SABM_SENT", "DISC_SENT"} -> d
             [] c.dl.state \in Established ->
                  IF f.type = "RR" THEN RxRr(d, f) ELSE RxRej(d, f)
    BY DEF lapd_rx_s
  <1>3. Good(d, tm) /\ d.dl = c.dl
    BY <1>1, ErrorGood
  <1> HIDE DEF d
  <1>4. lapd_rx_s(c, f) \in {d, SendDm(d, f)}
        \/ /\ c.dl.state \in Established
           /\ lapd_rx_s(c, f) = IF f.type = "RR" THEN RxRr(d, f) ELSE RxRej(d, f)
    BY <1>1, <1>2 DEF State, Established
  <1>5. Good(SendDm(d, f), tm)
    <2>1. Alike(d, SendDm(d, f))
      BY <1>3, AnswersAlike DEF Good
    <2>2. QED
      BY <1>3, <2>1, AlikeGoing
  <1>6. ASSUME c.dl.state \in Established
        PROVE  Good(IF f.type = "RR" THEN RxRr(d, f) ELSE RxRej(d, f), tm)
    <2>1. Going(d, tm)
      BY <1>3, <1>6 DEF Going
    <2>2. QED
      BY <2>1, RrGoing, RejGoing DEF Going
  <1>7. QED
    BY <1>3, <1>4, <1>5, <1>6

\* With the numbers reset and the history flushed the link starts with nothing outstanding.
LEMMA FreshGoing ==
  ASSUME NEW c \in Context, NEW tm \in BOOLEAN
  PROVE  Going(NewState(FlushHist(ResetSeqnos(c)), "MF_EST"), tm)
  <1> DEFINE a == ResetSeqnos(c)
             b == FlushHist(a)
             d == NewState(b, "MF_EST")
  <1>1. a \in Context /\ a.dl.v_send = 0 /\ a.dl.v_ack = 0
    <2>1. a \in Context
      BY FlushMoves DEF Moves
    <2>2. a.dl.v_send = 0 /\ a.dl.v_ack = 0
      BY DEF ResetSeqnos, Context, Datalink
    <2>3. QED
      BY <2>1, <2>2
  <1> HIDE DEF a
  <1>2. b \in Context /\ b.dl.v_send = 0 /\ b.dl.v_ack = 0 /\ b.dl.tx_hist = NoHist
    <2>1. b \in Context
      BY <1>1, FlushType
    <2>2. b.dl.v_send = 0 /\ b.dl.v_ack = 0 /\ b.dl.tx_hist = NoHist
      BY <1>1 DEF FlushHist, Context, Datalink
    <2>3. QED
      BY <2>1, <2>2
  <1> HIDE DEF b
  <1>3. /\ d \in Context /\ d.dl.state = "MF_EST"
        /\ d.dl.v_send = 0 /\ d.dl.v_ack = 0 /\ d.dl.tx_hist = NoHist
    <2>1. d \in Context
      BY <1>2, NewStateType DEF State
    <2>2. /\ d.dl.state = "MF_EST"
          /\ d.dl.v_send = 0 /\ d.dl.v_ack = 0 /\ d.dl.tx_hist = NoHist
      BY <1>2 DEF NewState, Context, Datalink
    <2>3. QED
      BY <2>1, <2>2
  <1> HIDE DEF d
  <1>4. HistInWindow(d.dl) /\ InBuffer(d.dl)
    BY <1>3 DEF HistInWindow, InBuffer, NoHist
  <1>5. Going(d, tm)
    BY <1>3, <1>4, CaughtUp
  <1>6. QED
    BY <1>5 DEF a, b, d

\* The end of lapd_rx_u_sabm.
LEMMA AcceptSabmGood ==
  ASSUME NEW c \in Context, NEW tm \in BOOLEAN, NEW f \in Frame, f.type = "SABM"
  PROVE  Good(AcceptSabm(c, f), tm)
  <1> DEFINE s == SendUa(c, f)
             d == NewState(FlushHist(ResetSeqnos(s)), "MF_EST")
             stored == d.dl.mode = "NETWORK" /\ f.info # Empty
             x == IF stored THEN f.info ELSE d.dl.cont_res
             e == [d EXCEPT !.dl.cont_res = x]
  <1>1. AcceptSabm(c, f) = Tell(e, "EST_IND", f.info)
    BY DEF AcceptSabm
  <1>2. f.info \in Carried
    BY DEF Frame
  <1>3. s \in Context
    BY AnswersAlike DEF Alike
  <1> HIDE DEF s
  <1>4. Going(d, tm)
    BY <1>3, FreshGoing
  <1> HIDE DEF d
  <1>5. d \in Context
    BY <1>4 DEF Going, Good
  <1>6. x \in Content \cup {Null}
    BY <1>2, <1>5 DEF Context, Datalink, Carried
  <1> HIDE DEF x
  <1>7. Alike(d, e)
    BY <1>5, <1>6 DEF Alike, Context, Datalink
  <1> HIDE DEF e
  <1>8. Good(e, tm)
    BY <1>4, <1>7, AlikeGoing DEF Going
  <1>9. QED
    BY SMTT(40), <1>1, <1>2, <1>8, TellSound DEF Good

\* A SABM in every state: accepted, repeated, in collision, refused.
LEMMA SabmGood ==
  ASSUME NEW c, NEW tm \in BOOLEAN, Good(c, tm), NEW f \in Frame, f.type = "SABM"
  PROVE  Good(lapd_rx_u_sabm(c, f), tm)
  <1> DEFINE b == [c EXCEPT !.dl.seq_err_cond = 0]
             r == lapd_rx_u_sabm(c, f)
  <1>1. c \in Context
    BY DEF Good
  <1>2. Alike(c, b)
    <2>1. 0 \in 0 .. 2
      OBVIOUS
    <2>2. QED
      BY <1>1, <2>1 DEF Alike, Context, Datalink
  <1>3. r = CASE b.dl.state = "IDLE" -> AcceptSabm(b, f)
              [] b.dl.state = "TIMER_RECOV" ->
                   IF f.info # Empty THEN SendDm(MdlError(b), f)
                                     ELSE AcceptSabm(StopT200(b), f)
              [] b.dl.state = "MF_EST" -> RxSabmEstablished(b, f)
              [] b.dl.state = "DISC_SENT" ->
                   TellSimple(StopT200(SendDm(b, f)), "EST_IND")
              [] b.dl.state = "SABM_SENT" -> RxSabmCollision(b, f)
    BY DEF lapd_rx_u_sabm
  <1> HIDE DEF b, r
  <1>4. b \in Context /\ Good(b, tm) /\ b.dl.state \in State
    BY <1>2, AlikeGoing DEF Alike, Context, Datalink
  <1>5. Good(AcceptSabm(b, f), tm) /\ Good(AcceptSabm(StopT200(b), f), tm)
    BY <1>4, AcceptSabmGood, StartStop
  <1>6. Good(MdlError(b), tm)
    BY <1>4, ErrorGood
  <1>7. \A x : Good(x, tm) => Good(SendDm(x, f), tm) /\ Good(SendUa(x, f), tm)
    BY AnswersAlike, AlikeGoing DEF Good
  <1>8. Good(RxSabmEstablished(b, f), tm)
    BY <1>4, <1>5, <1>6, <1>7 DEF RxSabmEstablished
  <1>9. Good(RxSabmCollision(b, f), tm)
    BY <1>4, <1>6, <1>7 DEF RxSabmCollision
  <1>10. b.dl.state = "DISC_SENT" => Good(TellSimple(StopT200(SendDm(b, f)), "EST_IND"), tm)
    <2> DEFINE e == StopT200(SendDm(b, f))
    <2>1. e \in Context /\ e.dl.state = b.dl.state
      BY <1>4, AnswersAlike, TimerKeeps DEF Alike, Keeps, Moves
    <2> HIDE DEF e
    <2>2. b.dl.state = "DISC_SENT" => Good(e, tm)
      BY <2>1, RestGood
    <2>3. Empty \in Carried
      BY DEF Carried
    <2>4. b.dl.state = "DISC_SENT" => Good(TellSimple(e, "EST_IND"), tm)
      BY <2>1, <2>2, <2>3, TellSound DEF TellSimple
    <2>5. QED
      BY <2>4 DEF e
  <1>11. QED
    BY <1>3, <1>4, <1>5, <1>6, <1>7, <1>8, <1>9, <1>10 DEF State, r

\* A handler that ends idle and then tells layer 3 leaves nothing to guard.
LEMMA EndGood ==
  ASSUME NEW c \in Context, NEW tm \in BOOLEAN, NEW p \in {"REL_IND", "REL_CONF"}
  PROVE  /\ c.dl.state = "IDLE" => Good(TellSimple(c, p), tm)
         /\ Good(TellSimple(NewState(c, "IDLE"), p), tm)
  <1>1. Empty \in Carried
    BY DEF Carried
  <1>2. \A d \in Context : d.dl.state = "IDLE" => Good(TellSimple(d, p), tm)
    BY <1>1, RestGood, TellSound DEF TellSimple
  <1>3. NewState(c, "IDLE") \in Context /\ NewState(c, "IDLE").dl.state = "IDLE"
    BY IdleMoves DEF Moves
  <1>4. QED
    BY <1>2, <1>3

\* A DM, a DISC and a UA in every state.
LEMMA DmGood ==
  ASSUME NEW c, NEW tm \in BOOLEAN, Good(c, tm), NEW f \in Frame
  PROVE  Good(lapd_rx_u_dm(c, f), tm)
  <1> DEFINE s == StopT200(c)
             t == FlushSend(FlushTx(s))
             x == TellSimple(NewState(s, "IDLE"), "REL_IND")
             y == TellSimple(NewState(t, "IDLE"), "REL_CONF")
  <1>1. c \in Context /\ c.dl.state \in State /\ f.pf \in BOOLEAN
    BY DEF Good, Context, Datalink, Frame
  <1>2. lapd_rx_u_dm(c, f) \in {c, MdlError(c), x, y}
    BY <1>1 DEF lapd_rx_u_dm, State
  <1>3. s \in Context /\ t \in Context
    BY <1>1, StartStop, FlushType
  <1> HIDE DEF s, t
  <1>4. Good(x, tm) /\ Good(y, tm)
    BY <1>3, EndGood
  <1> HIDE DEF x, y
  <1>5. QED
    BY <1>1, <1>2, <1>4, ErrorGood

\* A DISC ends the link in every state.
LEMMA DiscGood ==
  ASSUME NEW c, NEW tm \in BOOLEAN, Good(c, tm), NEW f \in Frame, f.type = "DISC"
  PROVE  Good(lapd_rx_u_disc(c, f), tm)
  <1> DEFINE a == FlushSend(FlushTx(c))
             b == [a EXCEPT !.dl.seq_err_cond = 0]
             r == lapd_rx_u_disc(c, f)
             dm == StopT200(SendDm(b, f))
             ua == StopT200(SendUa(b, f))
  <1>1. a \in Context
    BY FlushType DEF Good
  <1>2. r = CASE b.dl.state = "IDLE" -> SendDm(b, f)
              [] b.dl.state = "SABM_SENT" -> TellSimple(NewState(dm, "IDLE"), "REL_IND")
              [] b.dl.state \in Established -> TellSimple(NewState(ua, "IDLE"), "REL_IND")
              [] b.dl.state = "DISC_SENT" -> TellSimple(NewState(ua, "IDLE"), "REL_CONF")
    BY DEF lapd_rx_u_disc
  <1> HIDE DEF a
  <1>3. Alike(a, b)
    <2>1. 0 \in 0 .. 2
      OBVIOUS
    <2>2. QED
      BY <1>1, <2>1 DEF Alike, Context, Datalink
  <1> HIDE DEF b
  <1>4. b \in Context /\ b.dl.state \in State
    BY <1>3 DEF Alike, Context, Datalink
  <1>5. Alike(b, SendDm(b, f)) /\ Alike(b, SendUa(b, f))
    BY <1>4, AnswersAlike
  <1>6. dm \in Context /\ ua \in Context
    BY <1>5, StartStop DEF Alike
  <1> HIDE DEF dm, ua
  <1>7. /\ Good(TellSimple(NewState(dm, "IDLE"), "REL_IND"), tm)
        /\ Good(TellSimple(NewState(ua, "IDLE"), "REL_IND"), tm)
        /\ Good(TellSimple(NewState(ua, "IDLE"), "REL_CONF"), tm)
    BY <1>6, EndGood
  <1>8. b.dl.state = "IDLE" => Good(SendDm(b, f), tm)
    BY <1>5, RestGood DEF Alike
  <1> HIDE DEF r
  <1>9. Good(r, tm)
    BY <1>2, <1>4, <1>7, <1>8 DEF State, Established
  <1>10. QED
    BY <1>9 DEF r

\* A UA, expected or not.
LEMMA UaGood ==
  ASSUME NEW c, NEW tm \in BOOLEAN, Good(c, tm), NEW f \in Frame
  PROVE  Good(lapd_rx_u_ua(c, f), tm)
  <1> DEFINE s == StopT200(c)
             t == FlushSend(FlushTx(s))
             n == NewState(FlushHist(ResetSeqnos(s)), "MF_EST")
             w == TellSimple(SendI(n), "EST_CONF")
             x == TellSimple(NewState(t, "IDLE"), "REL_CONF")
             y == TellSimple(NewState(t, "IDLE"), "REL_IND")
  <1>1. c \in Context /\ c.dl.state \in State /\ f.pf \in BOOLEAN
    BY DEF Good, Context, Datalink, Frame
  <1>2. lapd_rx_u_ua(c, f) \in {c, MdlError(c), w, x, y}
    BY <1>1 DEF lapd_rx_u_ua, State, Established
  <1>3. s \in Context /\ t \in Context
    BY <1>1, StartStop, FlushType
  <1> HIDE DEF s, t
  <1>4. Good(x, tm) /\ Good(y, tm)
    BY <1>3, EndGood
  <1>5. Going(n, tm)
    BY <1>3, FreshGoing
  <1> HIDE DEF n
  <1>6. Good(SendI(n), tm)
    BY <1>5, SendIGoing DEF Going
  <1>7. Empty \in Carried
    BY DEF Carried
  <1>8. Good(w, tm)
    BY <1>6, <1>7, TellSound DEF TellSimple, Good
  <1> HIDE DEF w, x, y
  <1>9. QED
    BY <1>1, <1>2, <1>4, <1>8, ErrorGood

\* Any frame in any state.
LEMMA FrameGood ==
  ASSUME NEW c, NEW tm \in BOOLEAN, Good(c, tm), NEW f \in Frame
  PROVE  Good(lapd_ph_data_ind(c, f), tm)
  <1> DEFINE r == lapd_ph_data_ind(c, f)
  <1>1. Good(MdlError(c), tm)
    BY ErrorGood DEF Good
  <1>2. f.type \in {"SABM", "UA", "DM", "DISC", "I", "RR", "REJ"}
    BY DEF Frame
  <1>3. CASE NotPermitted(c.dl, f)
    <2>1. f.type = "SABM"
      BY <1>3 DEF NotPermitted
    <2>2. r = MdlError(c)
      BY <1>3, <2>1 DEF lapd_ph_data_ind
    <2>3. QED
      BY <1>1, <2>2
  <1>4. CASE ~NotPermitted(c.dl, f)
    <2>1. r = CASE f.type = "SABM" -> lapd_rx_u_sabm(c, f)
                [] f.type = "DM" -> lapd_rx_u_dm(c, f)
                [] f.type = "DISC" -> lapd_rx_u_disc(c, f)
                [] f.type = "UA" -> lapd_rx_u_ua(c, f)
                [] f.type \in {"RR", "REJ"} -> lapd_rx_s(c, f)
                [] f.type = "I" -> lapd_rx_i(c, f)
      BY <1>2, <1>4 DEF lapd_ph_data_ind
    <2> HIDE DEF r
    <2>2. Good(r, tm)
      BY <1>2, <2>1, SabmGood, DmGood, DiscGood, UaGood, SupervisoryGood, InformationGood
    <2>3. QED
      BY <2>2 DEF r
  <1>5. QED
    BY <1>3, <1>4

-----------------------------------------------------------------------------
(* The timer and the requests.                                              *)

\* Starting T200 sets the timer and nothing else.
LEMMA StartFields ==
  ASSUME NEW c \in Context, NEW d, d = StartT200(c)
  PROVE  /\ d \in Context /\ d.l3 = c.l3 /\ d.dl.state = c.dl.state /\ d.dl.t200
         /\ d.dl.v_send = c.dl.v_send /\ d.dl.v_ack = c.dl.v_ack
         /\ d.dl.tx_hist = c.dl.tx_hist
         /\ d.dl.send_buffer = c.dl.send_buffer /\ d.dl.send_out = c.dl.send_out
  <1>1. d \in Context
    BY StartStop
  <1>2. d.dl.t200 = TRUE
    BY DEF StartT200, Context, Datalink
  <1>3. /\ d.l3 = c.l3 /\ d.dl.state = c.dl.state
        /\ d.dl.v_send = c.dl.v_send /\ d.dl.v_ack = c.dl.v_ack
        /\ d.dl.tx_hist = c.dl.tx_hist
        /\ d.dl.send_buffer = c.dl.send_buffer /\ d.dl.send_out = c.dl.send_out
    BY DEF StartT200, Context, Datalink
  <1>4. QED
    BY <1>1, <1>2, <1>3

\* With T200 running, a link that waits or recovers is guarded.
LEMMA RunningGood ==
  ASSUME NEW c \in Context, NEW tm \in BOOLEAN,
         \/ c.dl.state \in Waiting
         \/ /\ c.dl.state = "TIMER_RECOV"
            /\ ErrTold(c) \/ (HistInWindow(c.dl) /\ InBuffer(c.dl))
  PROVE  Good(StartT200(c), tm)
  <1> DEFINE d == StartT200(c)
  <1>1. /\ d \in Context /\ d.l3 = c.l3 /\ d.dl.state = c.dl.state /\ d.dl.t200
        /\ d.dl.v_ack = c.dl.v_ack /\ d.dl.tx_hist = c.dl.tx_hist
        /\ d.dl.send_buffer = c.dl.send_buffer /\ d.dl.send_out = c.dl.send_out
    BY StartFields
  <1> HIDE DEF d
  <1>2. ErrTold(c) => ErrTold(d)
    BY <1>1 DEF ErrTold
  <1>3. HistInWindow(c.dl) /\ InBuffer(c.dl) => HistInWindow(d.dl) /\ InBuffer(d.dl)
    BY <1>1 DEF HistInWindow, InBuffer
  <1>4. Good(d, tm)
    BY <1>1, <1>2, <1>3 DEF Good, Sound, Windowed, Timed, Established, Waiting
  <1>5. QED
    BY <1>4 DEF d

\* A poll does not touch the window.
LEMMA PollAlike ==
  ASSUME NEW c \in Context
  PROVE  Alike(c, PollPeer(c))
  <1> DEFINE vs == sub_mod(c.dl.v_send, 1, VRange)
             h == do_mod(vs, RangeHist)
             seg == c.dl.tx_hist[h]
             f == IFrame(TRUE, vs, c.dl.v_recv, seg)
             g == SFrame("RR", TRUE, TRUE, c.dl.v_recv)
  <1>2. c.dl.v_send \in Seqno /\ c.dl.v_recv \in Seqno
    BY DEF Context, Datalink
  <1>3. vs \in Seqno /\ vs \in Int
    BY <1>2 DEF sub_mod, Seqno, VRange
  <1>4. PollPeer(c) = IF seg # Null THEN Send(c, f)
                      ELSE IF c.dl.seq_err_cond = 0 THEN Send(c, g) ELSE c
    BY DEF PollPeer, SendRr
  <1> HIDE DEF vs
  <1>5. h \in Slot
    BY <1>3, SlotOps
  <1> HIDE DEF h
  <1>6. seg \in Info \cup {Null}
    BY <1>5 DEF Context, Datalink
  <1> HIDE DEF seg
  <1>7. seg # Null => f \in Frame
    BY <1>2, <1>3, <1>6, FrameTypes
  <1>8. g \in Frame
    BY <1>2, FrameTypes
  <1> HIDE DEF f, g
  <1>9. Alike(c, c)
    BY DEF Alike
  <1>10. QED
    BY <1>4, <1>7, <1>8, <1>9, SendAlike

\* A timeout in timer recovery polls and starts T200, or reports the error.
LEMMA RecoverGood ==
  ASSUME NEW c \in Context, NEW tm \in BOOLEAN, c.dl.state = "TIMER_RECOV",
         ErrTold(c) \/ (HistInWindow(c.dl) /\ InBuffer(c.dl))
  PROVE  Good(Recover(c), tm)
  <1> DEFINE n == c.dl.retrans_ctr + 1
             d == [c EXCEPT !.dl.retrans_ctr = n]
             p == PollPeer(d)
  <1>1. Recover(c) \in {StartT200(p), MdlError(d)}
    BY DEF Recover
  <1>2. n \in Nat
    BY DEF Context, Datalink
  <1> HIDE DEF n
  <1>3. Alike(c, d)
    BY <1>2 DEF Alike, Context, Datalink
  <1> HIDE DEF d
  <1>4. Alike(d, p)
    BY <1>3, PollAlike DEF Alike
  <1>5. Alike(c, p)
    BY <1>3, <1>4, AlikeGoing
  <1> HIDE DEF p
  <1>6. ErrTold(p) \/ (HistInWindow(p.dl) /\ InBuffer(p.dl))
    BY <1>5 DEF Alike, ErrTold, HistInWindow, InBuffer
  <1>7. Good(StartT200(p), tm)
    BY <1>5, <1>6, RunningGood DEF Alike
  <1>8. Good(MdlError(d), tm)
    BY <1>3, ErrorGood DEF Alike
  <1>9. QED
    BY <1>1, <1>7, <1>8

\* lapd_t200_cb in every state.
LEMMA TimerGood ==
  ASSUME NEW c, NEW tm \in BOOLEAN, Starts(c), Good(c, tm)
  PROVE  Good(lapd_t200_cb(c), tm)
  <1> DEFINE b == StopT200(c)
             r == lapd_t200_cb(c)
             x == [b EXCEPT !.dl.retrans_ctr = 0]
             y == NewState(x, "TIMER_RECOV")
  <1>1. c \in Context /\ c.dl.state \in State
    BY DEF Starts, Context, Datalink
  <1>2. Keeps(c, b) /\ Kept(b.dl)
    BY <1>1, TimerKeeps DEF Keeps, Moves, Kept, Starts
  <1>3. /\ b \in Context /\ b.dl.state = c.dl.state /\ b.l3 = c.l3
        /\ b.dl.v_ack = c.dl.v_ack /\ b.dl.tx_hist = c.dl.tx_hist
        /\ b.dl.send_buffer = c.dl.send_buffer /\ b.dl.send_out = c.dl.send_out
    BY <1>1, StartStop DEF StopT200, Context, Datalink
  <1>4. r \in CASE b.dl.state = "SABM_SENT" -> {TellSimple(GiveUp(b), "REL_IND"),
                                                RetryUnnumbered(b)}
                [] b.dl.state = "DISC_SENT" -> {TellSimple(GiveUp(b), "REL_CONF"),
                                                RetryUnnumbered(b)}
                [] b.dl.state = "MF_EST" -> {Recover(y)}
                [] b.dl.state = "TIMER_RECOV" -> {Recover(b)}
                [] b.dl.state = "IDLE" -> {b}
    BY <1>1, <1>3 DEF lapd_t200_cb, State
  <1> HIDE DEF b, r
  <1>5. ASSUME b.dl.state \in Established
        PROVE  ErrTold(b) \/ (HistInWindow(b.dl) /\ InBuffer(b.dl))
    <2>1. ErrTold(c) => ErrTold(b)
      BY <1>3 DEF ErrTold
    <2>2. HistInWindow(c.dl) => HistInWindow(b.dl)
      BY <1>3 DEF HistInWindow
    <2>3. InBuffer(c.dl) => InBuffer(b.dl)
      BY <1>3 DEF InBuffer
    <2>4. QED
      BY <1>3, <1>5, <2>1, <2>2, <2>3 DEF Good, Sound, Windowed
  <1>6. CASE b.dl.state \in Waiting
    <2>1. /\ Good(TellSimple(GiveUp(b), "REL_IND"), tm)
          /\ Good(TellSimple(GiveUp(b), "REL_CONF"), tm)
      <3>1. \A p \in {"REL_IND", "REL_CONF"} :
              TellSimple(GiveUp(b), p) \in Context /\ TellSimple(GiveUp(b), p).dl.state = "IDLE"
        BY <1>3, GiveUpEnds DEF Ends
      <3>2. QED
        BY <3>1, RestGood
    <2>2. Good(RetryUnnumbered(b), tm)
      <3> DEFINE s == Resend(b)
                 m == s.dl.retrans_ctr + 1
                 z == [s EXCEPT !.dl.retrans_ctr = m]
                 h == do_mod(b.dl.v_send, RangeHist)
                 type == IF b.dl.state = "SABM_SENT" THEN "SABM" ELSE "DISC"
                 f == UFrame(type, TRUE, TRUE, b.dl.tx_hist[h])
      <3>1. RetryUnnumbered(b) = StartT200(z)
        BY DEF RetryUnnumbered
      <3>2. f \in Frame
        <4>1. b.dl.v_send = 0 /\ b.dl.tx_hist[0] \in Carried
          BY <1>2, <1>6 DEF Kept
        <4>2. h = 0
          BY <4>1, RangeHistValues DEF do_mod
        <4>3. QED
          BY <4>1, <4>2, FrameTypes
      <3>3. s = Send(b, f)
        BY DEF Resend
      <3> HIDE DEF f, s
      <3>4. Alike(b, s)
        BY <1>3, <3>2, <3>3, SendAlike
      <3>5. s \in Context /\ m \in Nat
        BY <3>4 DEF Alike, Context, Datalink
      <3> HIDE DEF m
      <3>6. Alike(s, z)
        BY <3>5 DEF Alike, Context, Datalink
      <3> HIDE DEF z
      <3>7. z \in Context /\ z.dl.state \in Waiting
        BY <1>6, <3>4, <3>6 DEF Alike
      <3>8. QED
        BY <3>1, <3>7, RunningGood
    <2>3. QED
      BY <1>4, <1>6, <2>1, <2>2 DEF Waiting, r
  <1>7. CASE b.dl.state = "MF_EST"
    <2>1. Alike(b, x)
      BY <1>3 DEF Alike, Context, Datalink
    <2> HIDE DEF x
    <2>2. /\ y \in Context /\ y.dl.state = "TIMER_RECOV" /\ y.l3 = x.l3
          /\ y.dl.v_ack = x.dl.v_ack /\ y.dl.tx_hist = x.dl.tx_hist
          /\ y.dl.send_buffer = x.dl.send_buffer /\ y.dl.send_out = x.dl.send_out
      <3>1. x \in Context
        BY <2>1 DEF Alike
      <3>2. y \in Context
        BY <3>1, NewStateType DEF State
      <3>3. QED
        BY <3>1, <3>2 DEF NewState, Context, Datalink
    <2> HIDE DEF y
    <2>3. ErrTold(y) \/ (HistInWindow(y.dl) /\ InBuffer(y.dl))
      <3>1. ErrTold(b) => ErrTold(y)
        BY <2>1, <2>2 DEF Alike, ErrTold
      <3>2. HistInWindow(b.dl) => HistInWindow(y.dl)
        BY <2>1, <2>2 DEF Alike, HistInWindow
      <3>3. InBuffer(b.dl) => InBuffer(y.dl)
        BY <2>1, <2>2 DEF Alike, InBuffer
      <3>4. QED
        BY <1>5, <1>7, <3>1, <3>2, <3>3 DEF Established
    <2>4. Good(Recover(y), tm)
      BY <2>2, <2>3, RecoverGood
    <2>5. QED
      BY <1>4, <1>7, <2>4 DEF r
  <1>8. CASE b.dl.state = "TIMER_RECOV"
    <2>1. Good(Recover(b), tm)
      BY <1>3, <1>5, <1>8, RecoverGood DEF Established
    <2>2. QED
      BY <1>4, <1>8, <2>1 DEF r
  <1>9. CASE b.dl.state = "IDLE"
    <2>1. Good(b, tm)
      BY <1>3, <1>9, RestGood
    <2>2. QED
      BY <1>4, <1>9, <2>1 DEF r
  <1>10. QED
    BY <1>1, <1>3, <1>6, <1>7, <1>8, <1>9 DEF State, Waiting

\* The first SABM or DISC of a request is sent with T200.
LEMMA StartGood ==
  ASSUME NEW c \in Context, NEW tm \in BOOLEAN, NEW type \in {"SABM", "DISC"},
         NEW s \in Waiting, NEW info \in Carried
  PROVE  Good(Start(c, type, s, info), tm)
  <1> DEFINE hist == [c.dl.tx_hist EXCEPT ![0] = info]
             f == UFrame(type, TRUE, TRUE, info)
             d == [c EXCEPT !.dl.tx_hist[0] = info, !.dl.v_send = 0,
                            !.dl.retrans_ctr = 0]
             e == [c EXCEPT !.dl.tx_hist = hist, !.dl.v_send = 0,
                            !.dl.retrans_ctr = 0]
             n == NewState(d, s)
  <1>1. Start(c, type, s, info) = StartT200(Send(n, f))
    BY DEF Start
  <1>2. f \in Frame
    BY FrameTypes
  <1>3. d = e
    BY DEF Context, Datalink
  <1>4. hist \in [Slot -> Info \cup {Null}]
    BY SlotOps DEF Context, Datalink, Carried, Info
  <1>5. 0 \in Seqno
    BY DEF Seqno, VRange
  <1> HIDE DEF hist, d, f
  <1>6. e \in Context
    BY <1>4, <1>5 DEF Context, Datalink
  <1> HIDE DEF e
  <1>7. n \in Context /\ n.dl.state = s
    BY <1>3, <1>6, NewStateMoves DEF Moves, State, Waiting
  <1> HIDE DEF n
  <1>8. Alike(n, Send(n, f))
    BY <1>2, <1>7, SendAlike
  <1>9. QED
    BY <1>1, <1>7, <1>8, RunningGood DEF Alike

\* lapd_est_req, and lapd_res_req for a resumption or a reconnection.
LEMMA EstablishGood ==
  ASSUME NEW c \in Context, NEW tm \in BOOLEAN
  PROVE  /\ \A info \in Carried : Good(lapd_est_req(c, info), tm)
         /\ \A m \in Msg \cup {Null} : Good(lapd_res_req(c, m), tm)
  <1>1. \A info \in Carried : Good(lapd_est_req(c, info), tm)
    <2>1. Discard(FlushHist(FlushSend(c))) \in Context
      BY FlushMoves DEF Moves
    <2>2. QED
      BY <2>1, StartGood DEF lapd_est_req, Waiting
  <1>2. ASSUME NEW m \in Msg \cup {Null}
        PROVE  Good(lapd_res_req(c, m), tm)
    <2> DEFINE a == FlushHist(c)
               d == [a EXCEPT !.dl.send_buffer = m, !.dl.send_out = 0]
    <2>1. a \in Context
      BY FlushType
    <2>2. lapd_res_req(c, m) = Start(Discard(d), "SABM", "SABM_SENT", Empty)
      BY DEF lapd_res_req
    <2> HIDE DEF a
    <2>3. d \in Context
      BY <2>1 DEF Context, Datalink
    <2> HIDE DEF d
    <2>4. Discard(d) \in Context
      BY <2>3, FlushMoves DEF Moves
    <2>5. QED
      BY <2>2, <2>4, StartGood DEF Waiting, Carried
  <1>3. QED
    BY <1>1, <1>2

\* lapd_data_req: the message is queued and what the window allows is sent.
LEMMA DataGood ==
  ASSUME NEW c, NEW tm \in BOOLEAN, Going(c, tm), NEW m \in Msg
  PROVE  Good(lapd_data_req(c, m), tm)
  <1> DEFINE q == Append(c.dl.send_queue, m)
             d == [c EXCEPT !.dl.send_queue = q]
  <1>1. c \in Context
    BY DEF Going, Good
  <1>2. q \in Messages
    BY <1>1, SequenceTypes DEF Context, Datalink
  <1>3. lapd_data_req(c, m) = SendI(d)
    BY DEF lapd_data_req
  <1> HIDE DEF q
  <1>4. Alike(c, d)
    BY <1>1, <1>2 DEF Alike, Context, Datalink
  <1> HIDE DEF d
  <1>5. QED
    BY <1>3, <1>4, AlikeGoing, SendIGoing DEF Going

\* lapd_susp_req: nothing is left in the history.  The timer is stopped, too, so
\* this holds where the timer is not part of the claim.
LEMMA SuspendGood ==
  ASSUME NEW c, Going(c, FALSE)
  PROVE  Good(lapd_susp_req(c), FALSE)
  <1> DEFINE back == IF c.dl.send_buffer = Null THEN <<>> ELSE <<c.dl.send_buffer>>
             q == back \o c.dl.send_queue
             d == [c EXCEPT !.dl.send_queue = q, !.dl.send_buffer = Null]
             g == FlushTx(d)
             e == StopT200(g)
  <1>1. c \in Context /\ c.dl.state \in Established
    BY DEF Going, Good
  <1>2. q \in Messages
    BY <1>1 DEF Context, Datalink, Messages
  <1>3. lapd_susp_req(c) = TellSimple(e, "SUSP_CONF")
    BY DEF lapd_susp_req
  <1> HIDE DEF q
  <1>4. d \in Context /\ d.dl.state = c.dl.state /\ d.l3 = c.l3
        /\ d.dl.v_send = c.dl.v_send /\ d.dl.v_ack = c.dl.v_ack
    BY <1>1, <1>2 DEF Context, Datalink
  <1> HIDE DEF d
  <1>5. g \in Context /\ g.dl.state = d.dl.state /\ g.l3 = d.l3
        /\ g.dl.v_send = d.dl.v_send /\ g.dl.v_ack = d.dl.v_ack /\ g.dl.tx_hist = NoHist
    <2>1. g \in Context
      BY <1>4, FlushType
    <2>2. QED
      BY <1>4, <2>1 DEF FlushTx, Context, Datalink
  <1> HIDE DEF g
  <1>6. e \in Context /\ e.dl.state = g.dl.state /\ e.l3 = g.l3
        /\ e.dl.v_send = g.dl.v_send /\ e.dl.v_ack = g.dl.v_ack /\ e.dl.tx_hist = g.dl.tx_hist
    <2>1. e \in Context
      BY <1>5, StartStop
    <2>2. QED
      BY <1>5, <2>1 DEF StopT200, Context, Datalink
  <1> HIDE DEF e
  <1>7. ErrTold(c) => ErrTold(e)
    BY <1>4, <1>5, <1>6 DEF ErrTold
  <1>8. HistInWindow(e.dl) /\ InBuffer(e.dl)
    BY <1>5, <1>6 DEF HistInWindow, InBuffer, NoHist
  <1>9. e.dl.state = "MF_EST" /\ Sound(c.dl, FALSE) => WindowOpen(e.dl)
    BY <1>4, <1>5, <1>6 DEF Sound, Windowed, WindowOpen
  <1>10. Good(e, FALSE)
    BY <1>6, <1>7, <1>8, <1>9 DEF Going, Good, Sound, Windowed
  <1>11. Empty \in Carried
    BY DEF Carried
  <1>12. QED
    BY <1>3, <1>6, <1>10, <1>11, TellSound DEF TellSimple

\* lapd_rel_req in every state, local or not.
LEMMA ReleaseGood ==
  ASSUME NEW c, NEW tm \in BOOLEAN, Good(c, tm), NEW local \in BOOLEAN
  PROVE  Good(lapd_rel_req(c, local), tm)
  <1> DEFINE d == FlushSend(FlushTx(NewState(StopT200(c), "IDLE")))
             x == TellSimple(d, "REL_CONF")
             y == Start(FlushHist(c), "DISC", "DISC_SENT", Empty)
  <1>1. c \in Context /\ c.dl.state \in State
    BY DEF Good, Context, Datalink
  <1>2. \/ c.dl.state = "IDLE" /\ lapd_rel_req(c, local) = TellSimple(c, "REL_CONF")
        \/ lapd_rel_req(c, local) \in {x, c, y}
    BY <1>1 DEF lapd_rel_req, State
  <1>3. d \in Context /\ d.dl.state = "IDLE"
    <2>1. NewState(StopT200(c), "IDLE") \in Context
          /\ NewState(StopT200(c), "IDLE").dl.state = "IDLE"
      BY <1>1, StartStop, IdleMoves DEF Moves
    <2>2. QED
      BY <2>1, FlushMoves DEF Moves
  <1> HIDE DEF d
  <1>4. Good(x, tm)
    BY <1>3, EndGood
  <1>5. Good(y, tm)
    BY <1>1, FlushType, StartGood DEF Waiting, Carried
  <1>6. c.dl.state = "IDLE" => Good(TellSimple(c, "REL_CONF"), tm)
    BY <1>1, EndGood
  <1> HIDE DEF x, y
  <1>7. QED
    BY <1>2, <1>4, <1>5, <1>6

-----------------------------------------------------------------------------
(* The link as a whole.                                                     *)

\* A link that is never suspended.
Guarded(e) == "SUSP" \notin Requests[e]

\* Layer 3 of e was told of an error, or the link of e is sound.
SoundOrTold == \A e \in Entity : mdl[e] \/ Sound(dl[e], Guarded(e))

TimedInv == IInv /\ SoundOrTold

\* The claim about the timer is a truth value, as the lemmas require.
LEMMA GuardedType == \A e : Guarded(e) \in BOOLEAN
  BY DEF Guarded

\* Initially every link is idle.
LEMMA InitTimed == Init => SoundOrTold
  <1> SUFFICES ASSUME Init, NEW e \in Entity
               PROVE  Sound(dl[e], Guarded(e))
    BY DEF SoundOrTold
  <1>1. dl[e].state = "IDLE"
    BY InitialDatalink DEF Init, Mode
  <1>2. QED
    BY <1>1 DEF Sound, Windowed, Timed, Established

\* The entity that steps stays sound or tells; the others do nothing.
LEMMA StepSound ==
  ASSUME TimedInv, NEW e \in Entity, NEW c, Step(e, c), mdl[e] \/ Good(c, Guarded(e))
  PROVE  SoundOrTold'
  <1> SUFFICES ASSUME NEW x \in Entity
               PROVE  mdl'[x] \/ Sound(dl'[x], Guarded(x))
    BY DEF SoundOrTold, Guarded, Sound, Windowed, Timed, HistInWindow, WindowOpen,
           InBuffer, Outstanding
  <1> DEFINE told == Told(c, {"MDL_ERROR"})
  <1>1. dl' = [dl EXCEPT ![e] = c.dl] /\ dl \in [Entity -> Datalink]
    BY DEF Step, TimedInv, IInv, TypeOK
  <1>2. mdl' = [mdl EXCEPT ![e] = mdl[e] \/ told] /\ mdl \in [Entity -> BOOLEAN]
    BY DEF Step, Indicate, TimedInv, IInv, TypeOK
  <1>3. told <=> ErrTold(c)
    BY DEF Told, ErrTold
  <1> HIDE DEF told
  <1>4. CASE x = e
    <2>1. dl'[x] = c.dl
      BY <1>1, <1>4
    <2>2. mdl'[x] <=> (mdl[e] \/ told)
      BY <1>2, <1>4
    <2>3. mdl[e] \/ ErrTold(c) \/ Sound(c.dl, Guarded(e))
      BY DEF Good
    <2>4. QED
      BY <1>3, <1>4, <2>1, <2>2, <2>3
  <1>5. CASE x # e
    <2>1. dl'[x] = dl[x]
      BY <1>1, <1>5
    <2>2. mdl'[x] = mdl[x]
      BY <1>2, <1>5
    <2>3. mdl[x] \/ Sound(dl[x], Guarded(x))
      BY DEF TimedInv, SoundOrTold
    <2>4. QED
      BY <2>1, <2>2, <2>3
  <1>6. QED
    BY <1>4, <1>5

\* A handler starts from a sound link, unless layer 3 was told before.
LEMMA EntrySound ==
  ASSUME TimedInv, NEW e \in Entity, ~mdl[e]
  PROVE  Starts(Entry(dl[e])) /\ Entry(dl[e]).dl = dl[e] /\ Good(Entry(dl[e]), Guarded(e))
  <1>1. Starts(Entry(dl[e])) /\ Entry(dl[e]).dl = dl[e]
    BY EntityStarts DEF TimedInv
  <1>2. Sound(dl[e], Guarded(e))
    BY DEF TimedInv, SoundOrTold
  <1>3. QED
    BY <1>1, <1>2 DEF Good, Starts

\* Every request of layer 3, and the channel reset, leaves the link sound.
LEMMA Layer3Sound ==
  ASSUME TimedInv, NEW e \in Entity, Layer3(e)
  PROVE  SoundOrTold'
  <1> DEFINE c == Entry(dl[e])
             tm == Guarded(e)
  <1>1. tm \in BOOLEAN
    BY GuardedType
  <1>2. mdl[e] \/ (c \in Context /\ c.dl = dl[e] /\ Good(c, tm))
    BY EntrySound DEF Starts
  <1> HIDE DEF c, tm
  <1>3. \A req, r : Serve(e, req, r) => Step(e, r) /\ req \in Requests[e]
                                        /\ dl[e].state \in ServedIn(req)
    BY DEF Serve
  <1>4. \A r : Step(e, r) /\ (mdl[e] \/ Good(r, tm)) => SoundOrTold'
    BY StepSound DEF tm
  <1>5. CASE EstReq(e)
    <2>1. PICK info \in SabmInfo[e] : Serve(e, "EST", lapd_est_req(c, info))
      BY <1>5 DEF EstReq, c
    <2>2. info \in Carried
      BY InputAssumption DEF Carried
    <2>3. mdl[e] \/ Good(lapd_est_req(c, info), tm)
      BY <1>1, <1>2, <2>2, EstablishGood
    <2>4. QED
      BY <1>3, <1>4, <2>1, <2>3
  <1>6. CASE DataReq(e)
    <2>1. PICK m \in Outbox[e] \ Handover : Serve(e, "DATA", lapd_data_req(c, m))
      BY <1>6 DEF DataReq, c
    <2>2. m \in Msg
      BY InputAssumption
    <2>3. dl[e].state \in Established
      BY <1>3, <2>1 DEF ServedIn
    <2>4. mdl[e] \/ Good(lapd_data_req(c, m), tm)
      BY <1>1, <1>2, <2>2, <2>3, DataGood DEF Going
    <2>5. QED
      BY <1>3, <1>4, <2>1, <2>4
  <1>7. CASE RelReq(e)
    <2>1. PICK local \in BOOLEAN : Serve(e, "REL", lapd_rel_req(c, local))
      BY <1>7 DEF RelReq, c
    <2>2. mdl[e] \/ Good(lapd_rel_req(c, local), tm)
      BY <1>1, <1>2, ReleaseGood
    <2>3. QED
      BY <1>3, <1>4, <2>1, <2>2
  <1>8. CASE SuspReq(e)
    <2>1. Serve(e, "SUSP", lapd_susp_req(c))
      BY <1>8 DEF SuspReq, c
    <2>2. tm = FALSE
      BY <1>3, <2>1 DEF tm, Guarded
    <2>3. dl[e].state \in Established
      BY <1>3, <2>1 DEF ServedIn
    <2>4. mdl[e] \/ Good(lapd_susp_req(c), tm)
      BY <1>2, <2>2, <2>3, SuspendGood DEF Going
    <2>5. QED
      BY <1>3, <1>4, <2>1, <2>4
  <1>9. CASE ResReq(e)
    <2>1. PICK req \in {"RES", "RECON"}, m \in (Outbox[e] \cap Handover) \cup {Null} :
            Serve(e, req, lapd_res_req(c, m))
      BY <1>9 DEF ResReq, c
    <2>2. m \in Msg \cup {Null}
      BY InputAssumption
    <2>3. mdl[e] \/ Good(lapd_res_req(c, m), tm)
      BY <1>1, <1>2, <2>2, EstablishGood
    <2>4. QED
      BY <1>3, <1>4, <2>1, <2>3
  <1>10. CASE Reset(e)
    <2> DEFINE d == lapd_dl_reset(c).dl
    <2>1. dl' = [dl EXCEPT ![e] = d] /\ mdl' = mdl
      BY <1>10 DEF Reset, c
    <2>2. c \in Context
      BY EntityStarts DEF c, Starts, TimedInv
    <2>3. d.state = "IDLE"
      BY <2>2, ResetIdle DEF Context
    <2> HIDE DEF d
    <2>4. Sound(d, Guarded(e))
      BY <2>3 DEF Sound, Windowed, Timed, Established
    <2>5. \A x \in Entity : dl'[x] = IF x = e THEN d ELSE dl[x]
      BY <2>1 DEF TimedInv, IInv, TypeOK
    <2>6. \A x \in Entity : mdl'[x] \/ Sound(dl'[x], Guarded(x))
      BY <2>1, <2>4, <2>5 DEF TimedInv, SoundOrTold
    <2>7. QED
      BY <2>6 DEF SoundOrTold, Guarded, Sound, Windowed, Timed, HistInWindow,
                  WindowOpen, InBuffer, Outstanding
  <1>11. QED
    BY <1>5, <1>6, <1>7, <1>8, <1>9, <1>10 DEF Layer3

\* A frame leaves the link that receives it sound, whatever the frame.
LEMMA ReceiveSound ==
  ASSUME TimedInv, NEW m \in Mobiles, BtsRx(m) \/ MobileRx(m)
  PROVE  SoundOrTold'
  <1>1. ASSUME NEW e \in Entity, NEW q \in Frames, q # <<>>,
               Step(e, lapd_ph_data_ind(Entry(dl[e]), Head(q)))
        PROVE  SoundOrTold'
    <2>1. mdl[e] \/ Good(lapd_ph_data_ind(Entry(dl[e]), Head(q)), Guarded(e))
      BY <1>1, QueueTypes, EntrySound, FrameGood, GuardedType
    <2>2. QED
      BY <1>1, <2>1, StepSound
  <1>2. up[m] \in Frames /\ down[m] \in Frames /\ m \in Entity /\ Bts \in Entity
    BY DEF TimedInv, IInv, TypeOK, Entity
  <1>3. CASE BtsRx(m)
    <2>1. up[m] # <<>> /\ Step(Bts, lapd_ph_data_ind(Entry(dl[Bts]), Head(up[m])))
      BY <1>3 DEF BtsRx
    <2>2. QED
      BY <1>1, <1>2, <2>1
  <1>4. CASE MobileRx(m)
    <2>1. down[m] # <<>> /\ Step(m, lapd_ph_data_ind(Entry(dl[m]), Head(down[m])))
      BY <1>4 DEF MobileRx
    <2>2. QED
      BY <1>1, <1>2, <2>1
  <1>5. QED
    BY <1>3, <1>4

\* An expiry of T200 leaves the link sound: the timer runs again, layer 3 is
\* told, or nothing is waited for.
LEMMA T200Sound ==
  ASSUME TimedInv, NEW e \in Entity, T200Expires(e)
  PROVE  SoundOrTold'
  <1>1. Step(e, lapd_t200_cb(Entry(dl[e])))
    BY DEF T200Expires
  <1>2. mdl[e] \/ Good(lapd_t200_cb(Entry(dl[e])), Guarded(e))
    BY EntrySound, TimerGood, GuardedType
  <1>3. QED
    BY <1>1, <1>2, StepSound

\* PH-READY-TO-SEND and the air touch neither the window nor the timer.
LEMMA AirSound ==
  ASSUME TimedInv,
         ReadyToSend \/ (\E m \in Mobiles : LoseUp(m) \/ LoseDown(m)) \/ UNCHANGED vars
  PROVE  SoundOrTold'
  <1>1. dl \in [Entity -> Datalink] /\ mdl' = mdl
    BY DEF TimedInv, IInv, TypeOK, ReadyToSend, LoseUp, LoseDown, vars
  <1>2. ASSUME NEW e \in Entity
        PROVE  /\ dl'[e].state = dl[e].state /\ dl'[e].v_send = dl[e].v_send
               /\ dl'[e].v_ack = dl[e].v_ack /\ dl'[e].tx_hist = dl[e].tx_hist
               /\ dl'[e].send_buffer = dl[e].send_buffer
               /\ dl'[e].send_out = dl[e].send_out
               /\ dl'[e].t200 = dl[e].t200
    <2>1. CASE dl' = dl
      BY <2>1
    <2>2. CASE ReadyToSend
      <3> DEFINE d == [dl[Bts] EXCEPT !.tx_queue = Tail(dl[Bts].tx_queue)]
      <3>1. dl' = [dl EXCEPT ![Bts] = d] /\ dl[e] \in Datalink
        BY <1>1, <2>2 DEF ReadyToSend
      <3>2. d.state = dl[Bts].state /\ d.v_send = dl[Bts].v_send
            /\ d.v_ack = dl[Bts].v_ack /\ d.tx_hist = dl[Bts].tx_hist
            /\ d.send_buffer = dl[Bts].send_buffer
            /\ d.send_out = dl[Bts].send_out
            /\ d.t200 = dl[Bts].t200
        BY <1>1 DEF Datalink, Entity
      <3> HIDE DEF d
      <3>3. dl'[e] = IF e = Bts THEN d ELSE dl[e]
        BY <1>1, <3>1
      <3>4. QED
        BY <3>2, <3>3
    <2>3. QED
      BY <2>1, <2>2 DEF LoseUp, LoseDown, vars
  <1>3. \A e \in Entity : mdl'[e] \/ Sound(dl'[e], Guarded(e))
    BY <1>1, <1>2 DEF TimedInv, SoundOrTold, Sound, Windowed, Timed, HistInWindow,
                      WindowOpen, InBuffer, Outstanding
  <1>4. QED
    BY <1>3 DEF SoundOrTold, Guarded, Sound, Windowed, Timed, HistInWindow,
                WindowOpen, InBuffer, Outstanding

\* The window, the history and T200 of every entity agree in every reachable
\* state, whatever the air and the other side do, or its layer 3 was told.
THEOREM TimedInvariant == Spec => []TimedInv
  <1>1. Init => TimedInv
    BY InitInvariant, InitTimed DEF TimedInv
  <1>2. TimedInv /\ [Next]_vars => TimedInv'
    <2> SUFFICES ASSUME TimedInv, [Next]_vars
                 PROVE  TimedInv'
      OBVIOUS
    <2>1. SUFFICES SoundOrTold'
      BY NextInvariant DEF TimedInv
    <2>2. CASE \E e \in Entity : Layer3(e) \/ T200Expires(e)
      BY <2>2, Layer3Sound, T200Sound
    <2>3. CASE \E m \in Mobiles : Layer1(m)
      BY <2>3, ReceiveSound, AirSound DEF Layer1
    <2>4. CASE ReadyToSend \/ UNCHANGED vars
      BY <2>4, AirSound
    <2>5. QED
      BY <2>2, <2>3, <2>4 DEF Next
  <1>3. QED
    BY <1>1, <1>2, PTL DEF Spec

\* Nobody waits for an answer without T200 running (lapd_send_i,
\* lapd_acknowledge, lapd_t200_cb), for any window and whatever arrives.
THEOREM TimerAlwaysGuards == Spec => []TimerGuardsWait
  <1>1. TimedInv => TimerGuardsWait
    BY DEF TimedInv, SoundOrTold, Sound, Timed, Guarded, TimerGuardsWait
  <1>2. QED
    BY <1>1, TimedInvariant, PTL

\* With a window of 1, what a suspension puts back into the queue is what is
\* still unacknowledged (lapd_core.c:45).
THEOREM UnackedAlwaysInBuffer == Spec => []UnackedInBuffer
  <1>1. TimedInv => UnackedInBuffer
    BY DEF TimedInv, SoundOrTold, Sound, Windowed, InBuffer, UnackedInBuffer
  <1>2. QED
    BY <1>1, TimedInvariant, PTL
=============================================================================
