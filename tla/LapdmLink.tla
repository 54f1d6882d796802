----------------------------- MODULE LapdmLink -----------------------------
(***************************************************************************)
(* The LAPDm data link of one SAPI of a dedicated channel: a base station  *)
(* and the mobiles that believe the channel is theirs (one, or two after a *)
(* collision on the random access channel), each running LapdCore, over a  *)
(* radio channel that loses frames.                                        *)
(*                                                                         *)
(* As in tests/lapd/lapd_test.c the base station is polled (its frames     *)
(* wait in tx_queue until PH-READY-TO-SEND) and a mobile hands its frames  *)
(* to layer 1 at once.  What the base station sends, every mobile hears.   *)
(* Layer 3 may request anything the data link serves in its state, within  *)
(* the budget of MaxRequests requests per entity; every message is         *)
(* submitted at most once.                                                 *)
(***************************************************************************)
EXTENDS LapdCore, FiniteSets

CONSTANTS
  Mobiles,      \* the mobiles on the channel
  Bts,          \* the base station
  Listening,    \* mobiles that listen even before their first request
  SabmInfo,     \* SabmInfo[e]: what the SABM of entity e may carry
  Outbox,       \* Outbox[e]: messages layer 3 of e may submit
  Handover,     \* messages that go with a resumption or reconnection
  Requests,     \* Requests[e]: the requests layer 3 of e makes
  MaxRequests,  \* bound: EST, REL, SUSP, RES and RECON requests of one entity
  AirMax,       \* bound: frames on the air per mobile and direction
  TxMax,        \* bound: frames waiting for PH-READY-TO-SEND
  EarlyT200     \* T200 may expire while frames are on their way

Entity == Mobiles \cup {Bts}

ASSUME EntityAssumption == Bts \notin Mobiles
ASSUME InputAssumption == /\ SabmInfo \in [Entity -> SUBSET (Content \cup {Empty})]
                          /\ Outbox \in [Entity -> SUBSET Msg]
                          /\ Handover \subseteq Msg
                          /\ Listening \subseteq Mobiles
                          /\ MaxRequests \in Nat
                          /\ AirMax \in Nat \ {0}
                          /\ TxMax \in Nat \ {0}
                          /\ EarlyT200 \in BOOLEAN

VARIABLES
  dl,        \* dl[e]: struct lapd_datalink of e
  up,        \* up[m]: frames of mobile m on the air
  down,      \* down[m]: frames of the base station that m may still hear
  requests,  \* requests[e]: link requests made so far
  link,      \* link[e]: what layer 3 of e was last told: Null (no link) or the
             \* information field the establishment came with
  mdl,       \* mdl[e]: layer 3 of e received an MDL-ERROR-INDICATION
  sent,      \* sent[e]: messages submitted by layer 3 of e, in order
  got        \* got[e]: messages delivered to layer 3 of e, in order

vars == <<dl, up, down, requests, link, mdl, sent, got>>

-----------------------------------------------------------------------------

Init ==
  /\ dl = [e \in Entity |-> InitDatalink(IF e = Bts THEN "NETWORK" ELSE "USER",
                                         e = Bts)]
  /\ up = [m \in Mobiles |-> <<>>]
  /\ down = [m \in Mobiles |-> <<>>]
  /\ requests = [e \in Entity |-> 0]
  /\ link = [e \in Entity |-> Null]
  /\ mdl = [e \in Entity |-> FALSE]
  /\ sent = [e \in Entity |-> <<>>]
  /\ got = [e \in Entity |-> <<>>]

\* The air holds AirMax frames; what is sent beyond is lost.
OnAir(q, fs) == SubSeq(q \o fs, 1, IF Len(q \o fs) < AirMax THEN Len(q \o fs)
                                                          ELSE AirMax)

Told(c, prims) == {i \in DOMAIN c.l3 : c.l3[i].prim \in prims} # {}

\* The link as layer 3 knows it after the primitives of a handler: at most one
\* of them is about establishment or release.
LinkAfter(old, c) ==
  IF Told(c, {"REL_IND", "REL_CONF"}) THEN Null
  ELSE IF Told(c, {"EST_CONF"}) THEN Empty
  ELSE IF Told(c, {"EST_IND"})
  THEN c.l3[CHOOSE i \in DOMAIN c.l3 : c.l3[i].prim = "EST_IND"].info
  ELSE old

\* What layer 3 of e makes of the primitives of a handler.
Indicate(e, c) ==
  /\ link' = [link EXCEPT ![e] = LinkAfter(@, c)]
  /\ mdl' = [mdl EXCEPT ![e] = @ \/ Told(c, {"MDL_ERROR"})]
  /\ got' = [got EXCEPT ![e] = @ \o c.data]

\* The entity e takes the step whose outcome is the context c.
Step(e, c) ==
  /\ dl' = [dl EXCEPT ![e] = c.dl]
  /\ Indicate(e, c)

\* Frames a mobile sends without being polled; the base station only queues.
Transmitted(e, c) == [m \in Mobiles |-> IF m = e THEN OnAir(up[m], c.ph) ELSE up[m]]

-----------------------------------------------------------------------------
(* Requests of layer 3.                                                     *)

Serve(e, req, c) ==
  /\ req \in Requests[e]
  /\ dl[e].state \in ServedIn(req)
  /\ Len(dl[e].tx_queue) < TxMax
  /\ Step(e, c)
  /\ up' = Transmitted(e, c)
  /\ UNCHANGED down

LinkRequest(e) ==
  /\ requests[e] < MaxRequests
  /\ requests' = [requests EXCEPT ![e] = @ + 1]

Fresh(e, m) == m \in Outbox[e] /\ \A i \in DOMAIN sent[e] : sent[e][i] # m

EstReq(e) ==
  \E info \in SabmInfo[e] :
    /\ LinkRequest(e)
    /\ Serve(e, "EST", lapd_est_req(Entry(dl[e]), info))
    /\ UNCHANGED sent

DataReq(e) ==
  \E m \in Outbox[e] \ Handover :
    /\ Fresh(e, m)
    /\ Serve(e, "DATA", lapd_data_req(Entry(dl[e]), m))
    /\ sent' = [sent EXCEPT ![e] = Append(@, m)]
    /\ UNCHANGED requests

RelReq(e) ==
  \E local \in BOOLEAN :
    /\ LinkRequest(e)
    /\ Serve(e, "REL", lapd_rel_req(Entry(dl[e]), local))
    /\ UNCHANGED sent

\* Suspension, resumption and reconnection exist on the mobile side only.
SuspReq(e) ==
  /\ e \in Mobiles
  /\ LinkRequest(e)
  /\ Serve(e, "SUSP", lapd_susp_req(Entry(dl[e])))
  /\ UNCHANGED sent

\* Resumption (after a suspension) or reconnection (also from idle), with or
\* without a message to send before those still queued.
ResReq(e) ==
  \E req \in {"RES", "RECON"}, m \in (Outbox[e] \cap Handover) \cup {Null} :
    /\ e \in Mobiles
    /\ m # Null => Fresh(e, m)
    /\ LinkRequest(e)
    /\ Serve(e, req, lapd_res_req(Entry(dl[e]), m))
    /\ sent' = [sent EXCEPT ![e] = IF m = Null THEN @ ELSE Append(@, m)]

\* lapdm_channel_reset: the channel is given up or taken into use again.
\* Layer 3 asked for it and is told nothing.
Reset(e) ==
  /\ "RESET" \in Requests[e]
  /\ LinkRequest(e)
  /\ dl' = [dl EXCEPT ![e] = lapd_dl_reset(Entry(@)).dl]
  /\ link' = [link EXCEPT ![e] = Null]
  /\ UNCHANGED <<up, down, mdl, sent, got>>

-----------------------------------------------------------------------------
(* Layer 1 and the timer.                                                   *)

BtsRx(m) ==
  /\ up[m] # <<>>
  /\ Len(dl[Bts].tx_queue) < TxMax
  /\ Step(Bts, lapd_ph_data_ind(Entry(dl[Bts]), Head(up[m])))
  /\ up' = [up EXCEPT ![m] = Tail(@)]
  /\ UNCHANGED <<down, requests, sent>>

MobileRx(m) ==
  LET c == lapd_ph_data_ind(Entry(dl[m]), Head(down[m]))
  IN /\ down[m] # <<>>
     /\ Step(m, c)
     /\ down' = [down EXCEPT ![m] = Tail(@)]
     /\ up' = Transmitted(m, c)
     /\ UNCHANGED <<requests, sent>>

OnChannel == Listening \cup {m \in Mobiles : requests[m] > 0}

\* PH-READY-TO-SEND: lapdm_phsap_dequeue_prim takes the oldest frame.
ReadyToSend ==
  /\ dl[Bts].tx_queue # <<>>
  /\ dl' = [dl EXCEPT ![Bts].tx_queue = Tail(@)]
  /\ down' = [m \in Mobiles |-> IF m \in OnChannel
                                THEN OnAir(down[m], <<Head(dl[Bts].tx_queue)>>)
                                ELSE down[m]]
  /\ UNCHANGED <<up, requests, link, mdl, sent, got>>

Quiet == dl[Bts].tx_queue = <<>> /\ \A m \in Mobiles : up[m] = <<>> /\ down[m] = <<>>

T200Expires(e) ==
  LET c == lapd_t200_cb(Entry(dl[e]))
  IN /\ dl[e].t200
     /\ EarlyT200 \/ Quiet
     /\ Len(dl[e].tx_queue) < TxMax
     /\ Step(e, c)
     /\ up' = Transmitted(e, c)
     /\ UNCHANGED <<down, requests, sent>>

LoseUp(m) ==
  /\ up[m] # <<>>
  /\ up' = [up EXCEPT ![m] = Tail(@)]
  /\ UNCHANGED <<dl, down, requests, link, mdl, sent, got>>

LoseDown(m) ==
  /\ down[m] # <<>>
  /\ down' = [down EXCEPT ![m] = Tail(@)]
  /\ UNCHANGED <<dl, up, requests, link, mdl, sent, got>>

Layer3(e) == EstReq(e) \/ DataReq(e) \/ RelReq(e) \/ SuspReq(e) \/ ResReq(e)
             \/ Reset(e)
Layer1(m) == BtsRx(m) \/ MobileRx(m) \/ LoseUp(m) \/ LoseDown(m)

Next ==
  \/ \E e \in Entity : Layer3(e) \/ T200Expires(e)
  \/ \E m \in Mobiles : Layer1(m)
  \/ ReadyToSend

Spec == Init /\ [][Next]_vars

\* The main loop serves layer 1 and the expired timers.  Nothing obliges layer
\* 3 to request anything, and the air may lose every frame.  This is weak
\* fairness with ENABLED written out as the guard of the action.
BtsBusy(m) == up[m] # <<>> /\ Len(dl[Bts].tx_queue) < TxMax
T200Due(e) == dl[e].t200 /\ (EarlyT200 \/ Quiet) /\ Len(dl[e].tx_queue) < TxMax

Fairness ==
  /\ \A m \in Mobiles : []<>~BtsBusy(m) \/ []<><<BtsRx(m)>>_vars
  /\ \A m \in Mobiles : []<>(down[m] = <<>>) \/ []<><<MobileRx(m)>>_vars
  /\ \A e \in Entity : []<>~T200Due(e) \/ []<><<T200Expires(e)>>_vars
  /\ []<>(dl[Bts].tx_queue = <<>>) \/ []<><<ReadyToSend>>_vars

FairSpec == Spec /\ Fairness

-----------------------------------------------------------------------------
(* What has to hold.                                                        *)

\* Types, and with them: sequence numbers stay below v_range, every frame has
\* an information field its type allows to send, tx_hist is read in range.
TypeOK ==
  /\ dl \in [Entity -> Datalink]
  /\ up \in [Mobiles -> Frames]
  /\ down \in [Mobiles -> Frames]
  /\ requests \in [Entity -> Nat]
  /\ link \in [Entity -> Content \cup {Empty, Null}]
  /\ mdl \in [Entity -> BOOLEAN]
  /\ sent \in [Entity -> Messages]
  /\ got \in [Entity -> Deliveries]

\* lapd_send_resend and lapd_rx_u_ua use tx_hist[0].msg without looking whether
\* it is NULL (lapd_core.c:548, 1228): while a SABM or DISC is outstanding no
\* frame, timeout or request takes its information field out of the history,
\* puts a segment in its place or moves v_send off it.
CommandStored ==
  \A e \in Entity :
    dl[e].state \in {"SABM_SENT", "DISC_SENT"} =>
      dl[e].v_send = 0 /\ dl[e].tx_hist[0] \in Carried

Outstanding(d) ==
  d.tx_hist[do_mod(sub_mod(d.v_send, 1, VRange), RangeHist)] # Null

\* Nobody waits for an answer for ever: while a SABM, a poll or an I frame is
\* unanswered, T200 runs, or layer 3 was told of an error.  A suspended link
\* waits for its resumption instead: lapd_susp_req stops T200 and leaves the
\* state (lapd_core.c:1988).
TimerGuardsWait ==
  \A e \in Entity :
    /\ "SUSP" \notin Requests[e]
    /\ \/ dl[e].state \in {"SABM_SENT", "TIMER_RECOV"}
       \/ dl[e].state = "MF_EST" /\ Outstanding(dl[e])
    => dl[e].t200 \/ mdl[e]

\* Layer 3 is told of every end of a link: it never holds on to one that layer
\* 2 has given up, and has one whenever layer 2 is established.
Layer3Informed ==
  \A e \in Entity : /\ dl[e].state = "IDLE" => link[e] = Null
                    /\ dl[e].state \in Established => link[e] # Null

Subsequence(a, b) ==
  \E f \in [DOMAIN a -> DOMAIN b] :
    \A i \in DOMAIN a : /\ a[i] = b[f[i]]
                       /\ \A j \in DOMAIN a : i < j => f[i] < f[j]

\* The messages of s, each cut into its segments.
Whole(m) == [i \in 1 .. Segments[m] |-> [msg |-> m, part |-> i]]
Wholes(s) == [i \in DOMAIN s |-> Whole(s[i])]

\* Releases, failures and new establishments may lose messages, but what layer
\* 3 receives are messages the other side submitted, complete, each at most
\* once and in the order they were submitted.
DeliveredInOrder ==
  \A m \in Mobiles : /\ Subsequence(got[m], Wholes(sent[Bts]))
                     /\ Subsequence(got[Bts], Wholes(sent[m]))

\* The same without the order: no message is spliced from parts of two.
DeliveredWhole ==
  \A e \in Entity : \A i \in DOMAIN got[e] : got[e][i] \in {Whole(m) : m \in Msg}

\* Suspension and resumption may repeat a message whose acknowledgement was
\* lost, but none overtakes one submitted before it: only the message of a
\* resumption goes first.
NeverOvertaken ==
  \A m \in Mobiles : \A p, q \in DOMAIN got[Bts] : \A i, j \in DOMAIN sent[m] :
    /\ p < q /\ i < j
    /\ got[Bts][p] = Whole(sent[m][j]) /\ got[Bts][q] = Whole(sent[m][i])
    => \E r \in p .. q - 1 : \E h \in Handover : got[Bts][r] = Whole(h)

Peers == {<<m, Bts>> : m \in Mobiles} \cup {<<Bts, m>> : m \in Mobiles}
BothEstablished(p) == dl[p[1]].state \in Established /\ dl[p[2]].state \in Established

\* The receiver of a window never runs ahead of its sender: it expects a frame
\* between the oldest one that is not acknowledged and the next one.
WindowAgreement ==
  \A p \in Peers :
    LET s == dl[p[1]]  r == dl[p[2]]
    IN BothEstablished(p) =>
         /\ sub_mod(r.v_recv, s.v_ack, VRange) <= sub_mod(s.v_send, s.v_ack, VRange)
         /\ sub_mod(s.v_send, s.v_ack, VRange) <= K

Pending(s, r) == IF s = Bts THEN down[r] \o dl[Bts].tx_queue ELSE up[s]

\* No N(R) on its way is invalid where it will arrive, so lapd_acknowledge,
\* which accepts any N(R) (lapd_core.c:792), never moves V(A) out of the window.
NrValid ==
  \A p \in Peers :
    LET q == Pending(p[1], p[2])  r == dl[p[2]]
    IN BothEstablished(p) =>
         \A i \in DOMAIN q : q[i].type \in {"I", "RR", "REJ"} =>
           sub_mod(q[i].nr, r.v_ack, VRange) <= sub_mod(r.v_send, r.v_ack, VRange)

\* "In case we have SAPI 0, we only have a window size of 1, so the unack-
\* nowledged message resides always in the send_buffer" (lapd_core.c:45): what a
\* suspension puts back into the queue is what is still unacknowledged.  Only an
\* N(R) outside the window, of which layer 3 is told, may break that.
UnackedInBuffer ==
  \A e \in Entity : \A h \in Slot :
    /\ K = 1 /\ ~mdl[e]
    /\ dl[e].state \in Established /\ dl[e].tx_hist[h] # Null
    => /\ dl[e].send_buffer = dl[e].tx_hist[h].msg
       /\ dl[e].send_out = dl[e].tx_hist[h].part

\* Contention resolution: of the mobiles that took the same channel at most one
\* gets the link, and it is the one whose content the base station reported to
\* its layer 3.
OneOwner ==
  \A m \in Mobiles : link[m] # Null =>
    /\ \A n \in Mobiles \ {m} : link[n] = Null
    /\ link[Bts] \in SabmInfo[m] \cup {Null}

\* An attempt to establish ends: T200 and the limit of its retransmissions see
\* to it that layer 3 gets its answer whatever the air loses.
Concluded ==
  \A m \in Mobiles : dl[m].state = "SABM_SENT" ~> dl[m].state # "SABM_SENT"

-----------------------------------------------------------------------------
(* With one mobile and one establishment the two data links implement the   *)
(* service layer 3 relies on.                                               *)

PeerOf == [e \in Entity |-> IF e = Bts THEN CHOOSE m \in Mobiles : TRUE ELSE Bts]

Service == INSTANCE DlService WITH
  Peer <- PeerOf,
  Unit <- {Whole(m) : m \in Msg},
  submitted <- [e \in Entity |-> Wholes(sent[e])],
  delivered <- got,
  failed <- [e \in Entity |-> mdl[e] \/ link[e] = Null]

ServiceSpec == Service!Spec
ServiceLive == Service!Live
=============================================================================
