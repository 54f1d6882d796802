------------------------------- MODULE MmConn -------------------------------
(***************************************************************************)
(* The phone with its users above and the network below: calls and short   *)
(* messages ask mobility management for a connection, use it and give it   *)
(* back, while the network assigns, answers, pages, releases or is silent, *)
(* and cell selection comes and goes.                                      *)
(*                                                                         *)
(* One turn of the main loop is one event (a timer, a message from layer 2,*)
(* a request of the user) and then mobile_work, which serves the queues in *)
(* a fixed order until all are empty.  Every message served is a step.     *)
(***************************************************************************)
EXTENDS Gsm48Mm

CONSTANT Said     \* what the network of the instance sends or does, of what is below

VARIABLES c,      \* the phone
          view,   \* what the user of each reference believes
          turn    \* the queue that mobile_work is at

vars == <<c, view, turn>>

\* Types, and what mm_conn relies on: one connection at most is pending, as the
\* answer of the network does not say which one it is for.
TypeOK ==
  /\ c \in Phone
  /\ view \in [Refs -> {"none", "asked", "open", "gone"}]
  /\ turn \in {"rsl", "rr", "mmxx", "ev", "plmn"}
  /\ \A r1, r2 \in Pending(c) : r1 = r2

Init ==
  /\ \E area \in Areas :
     c = [rr |-> "IDLE", est_req |-> FALSE, est_msg |-> None, s3 |-> "IDLE", t3110 |-> FALSE,
          t3122 |-> FALSE, rel_wait |-> FALSE, access |-> FALSE, lupd |-> FALSE,
          dl |-> "IDLE", dl3 |-> "IDLE", sabm |-> None, net |-> {}, cs |-> "CAMPED",
          la |-> area, reg |-> area, sim |-> TRUE, forb |-> {},
          pending |-> FALSE, retry |-> FALSE, periodic |-> FALSE, start_t3211 |-> FALSE, plmn |-> FALSE,
          rej |-> None, lost |-> FALSE, t3210 |-> FALSE, t3211 |-> FALSE, t3212 |-> Periodic,
          rslq |-> <<>>, rrq |-> <<>>, mmxx |-> [ref \in Refs |-> <<>>], ev |-> <<>>,
          mm |-> "IDLE", sst |-> "NORMAL", conn |-> [ref \in Refs |-> "NONE"],
          sapi3_link |-> FALSE, t3230 |-> FALSE, t3240 |-> FALSE, stray |-> {}]
  /\ view = [ref \in Refs |-> "none"]
  /\ turn = "rsl"

-----------------------------------------------------------------------------
(* mobile_work                                                              *)

Waiting == {ref \in Refs : c.mmxx[ref] # <<>>}

Filled == [rsl |-> c.rslq # <<>>, rr |-> c.rrq # <<>>,
           mmxx |-> Waiting # {}, ev |-> c.ev # <<>>, plmn |-> c.plmn]

Quiet == \A q \in DOMAIN Filled : ~Filled[q]

Order == <<"rsl", "rr", "mmxx", "ev", "plmn">>

\* mobile_work is at queue q: those it passes on its way from turn are empty.
At(q) ==
  /\ Filled[q]
  /\ LET from == CHOOSE i \in DOMAIN Order : Order[i] = turn
         to == CHOOSE i \in DOMAIN Order : Order[i] = q
         passed == IF from <= to THEN from..(to - 1) ELSE DOMAIN Order \ (to..(from - 1))
     IN  \A i \in passed : ~Filled[Order[i]]

gsm48_rcv_rll(d, m) ==
  IF m.sapi = 0
  THEN CASE m.prim = "EST_CONF" -> gsm48_rr_estab_cnf(d)
         [] m.prim = "REL_IND" -> gsm48_rr_rel_ind(d)
         [] m.prim = "REL_CONF" -> gsm48_rr_rel_cnf(d)
         [] m.prim = "ERROR_IND" -> gsm48_rr_mdl_error_ind(d)
         [] m.prim = "CHAN_REL" -> gsm48_rr_rx_chan_rel(d)
         [] OTHER -> gsm48_rr_data_ind(d, m.prim)
  ELSE CASE m.prim = "EST_CONF" -> gsm48_rr_estab_cnf_sapi3(d)
         [] m.prim = "EST_IND" -> gsm48_rr_estab_ind_sapi3(d)
         [] m.prim = "REL_IND" -> gsm48_rr_rel_ind_sapi3(d)
         [] m.prim = "ERROR_IND" -> gsm48_rr_mdl_error_ind_sapi3(d)
         [] OTHER -> d

ServeRsl ==
  /\ At("rsl")
  /\ c' = gsm48_rcv_rll([c EXCEPT !.rslq = Tail(@)], Head(c.rslq))
  /\ turn' = "rsl"
  /\ UNCHANGED view

\* A message that begins a call reaches call control in the same step.
ServeRr ==
  /\ At("rr")
  /\ LET m == Head(c.rrq)
         d == [c EXCEPT !.rrq = Tail(@)]
     IN  /\ c' = IF m.sapi = 0 THEN gsm48_rcv_rr(d, m.prim) ELSE gsm48_rcv_rr_sapi3(d, m.prim)
         /\ view' = [ref \in Refs |-> IF ref = m.prim THEN "open" ELSE view[ref]]
  /\ turn' = "rr"

\* The user frees its transaction at an indication that the connection ended.
ServeMmxx ==
  /\ At("mmxx")
  /\ \E ref \in Waiting :
       /\ c' = [c EXCEPT !.mmxx[ref] = Tail(@)]
       /\ view' = [view EXCEPT ![ref] =
                    IF @ # "gone" /\ Head(c.mmxx[ref]) = "EST_CNF" THEN "open" ELSE "gone"]
  /\ turn' = "mmxx"

ServeEvent ==
  /\ At("ev")
  /\ c' = gsm48_mm_event([c EXCEPT !.ev = Tail(@)], Head(c.ev))
  /\ turn' = "ev"
  /\ UNCHANGED view

\* PLMN selection learns that the registration failed or was refused.  It selects
\* a PLMN, for which a cell is chosen, or it is in a state that ignores this.
ServePlmn ==
  /\ At("plmn")
  /\ \E cs \in {c.cs, "CHOOSING"} : c' = [c EXCEPT !.plmn = FALSE, !.cs = cs]
  /\ turn' = "plmn"
  /\ UNCHANGED view

MobileWork == ServeRsl \/ ServeRr \/ ServeMmxx \/ ServeEvent \/ ServePlmn

-----------------------------------------------------------------------------
(* Events: each begins a turn of the main loop                              *)

Event(d) == Quiet /\ c' = d /\ turn' = "rsl"

Request(ref) ==
  /\ view[ref] = "none" /\ ref \notin Incoming
  /\ Event(MmEstReq(c, ref))
  /\ view' = [view EXCEPT ![ref] = "asked"]

Release(ref) ==
  /\ view[ref] \in {"asked", "open"}
  /\ Event(MmRelReq(c, ref))
  /\ view' = [view EXCEPT ![ref] = "gone"]

\* The channel of the phone is on the air.
OnChannel == c.rr \in {"DEDICATED", "REL_PEND"} \/ (c.rr = "CONN_PEND" /\ ~c.access)

\* The network's side
Page ==
  /\ c.cs = "CAMPED" /\ c.rr = "IDLE"
  /\ Event(gsm48_rr_chan_req(c, FALSE))

Assign == c.access /\ Event(gsm48_rr_rx_imm_ass(c))

AssignReject == c.access /\ Event(gsm48_rr_rx_imm_ass_rej(c))

LinkUp ==
  /\ OnChannel /\ c.dl = "SABM_SENT"
  /\ Event(RslUp([c EXCEPT !.dl = "EST", !.net = {c.sabm} \ {None}, !.sabm = None], "EST_CONF", 0))

LinkReleased ==
  /\ "REL_IND" \in Said /\ OnChannel /\ c.dl = "EST"
  /\ Event(RslUp(LinkDown(c), "REL_IND", 0))

\* The network answers a request that it knows of.
Answer(prim) ==
  /\ OnChannel /\ c.dl = "EST"
  /\ \E req \in c.net :
       prim \in Answers(req) /\ Event(RslUp([c EXCEPT !.net = @ \ {req}], prim, 0))

Command(prim) == OnChannel /\ c.dl = "EST" /\ Event(RslUp(c, prim, 0))

Setup(ref) == view[ref] = "none" /\ Command(ref)

Link3Up ==
  /\ OnChannel /\ c.dl3 = "SABM_SENT"
  /\ Event(RslUp([c EXCEPT !.dl3 = "EST"], "EST_CONF", 3))

Link3Established ==
  /\ "EST_IND" \in Said /\ OnChannel /\ c.dl3 = "IDLE" /\ c.dl = "EST"
  /\ Event(RslUp([c EXCEPT !.dl3 = "EST"], "EST_IND", 3))

Link3Released ==
  /\ OnChannel /\ c.dl3 = "EST"
  /\ Event(RslUp([c EXCEPT !.dl3 = "IDLE"], "REL_IND", 3))

\* Layer 2 reports an error that radio resources take for a failure.
LinkError(sapi) ==
  /\ "ERROR_IND" \in Said
  /\ IF sapi = 0 THEN c.dl = "EST" ELSE c.dl3 = "EST"
  /\ Event(RslUp(c, "ERROR_IND", sapi))

\* The retransmissions of layer 2 are exhausted.
LinkFails ==
  \/ /\ c.dl = "SABM_SENT"
     /\ Event(RslUp(LinkDown(c), "REL_IND", 0))
  \/ /\ c.dl = "DISC_SENT"
     /\ Event(RslUp(LinkDown(c), "REL_CONF", 0))

Link3Fails == c.dl3 = "SABM_SENT" /\ Event(RslUp([c EXCEPT !.dl3 = "IDLE"], "REL_IND", 3))

LossOfSignal == c.cs = "CONNECTED" /\ Event(gsm48_rr_los(c))

T3122Expires == c.t3122 /\ Event([c EXCEPT !.t3122 = FALSE])
T3126Expires == c.access /\ Event(timeout_rr_t3126(c))
T3110Expires == c.t3110 /\ Event(timeout_rr_t3110(c))
RelWaitExpires == c.rel_wait /\ Event(timeout_rr_t_rel_wait(c))
T3210Expires == c.t3210 /\ Event(timeout_mm_t3210(c))
T3211Expires == c.t3211 /\ ~c.rel_wait /\ Event(timeout_mm_t3211(c))
T3212Expires == c.t3212 /\ Event(timeout_mm_t3212(c))
T3230Expires == c.t3230 /\ Event(timeout_mm_t3230(c))
T3240Expires == c.t3240 /\ Event(timeout_mm_t3240(c))

\* T_rel_wait is 1.5 s: the search for a cell takes longer.  A cell is suitable
\* where the phone is not forbidden; on any other it camps for emergencies.
SelectCell(area) ==
  /\ c.cs \in {"CHOOSING", "NO_CELL"} /\ ~c.rel_wait
  /\ \E camp \in {"CAMPED", "ANY"} :
       /\ camp = "CAMPED" => c.sim /\ area \notin c.forb
       /\ Event([c EXCEPT !.cs = camp, !.la = area, !.ev = Append(@, "CELL_SELECTED")])

NoCell ==
  /\ c.cs = "CHOOSING"
  /\ Event([c EXCEPT !.cs = "NO_CELL", !.ev = Append(@, "NO_CELL_FOUND")])

Reselect ==
  /\ c.cs \in {"CAMPED", "ANY"}
  /\ Event([c EXCEPT !.cs = "CHOOSING", !.ev = Append(@, "LOST_COVERAGE")])

\* The timer of a phone that camps on any cell has it look for a better one.
AnySearch == c.cs = "ANY" /\ c.sim /\ Event([c EXCEPT !.cs = "CHOOSING"])

Network ==
  \/ Page \/ Assign \/ AssignReject \/ LinkUp \/ LinkReleased
  \/ \E prim \in Said : Answer(prim) \/ (prim \in Commands /\ Command(prim))
  \/ Link3Up \/ Link3Established \/ Link3Released
  \/ \E sapi \in {0, 3} : LinkError(sapi)

Timer ==
  \/ T3122Expires \/ T3126Expires \/ T3110Expires \/ RelWaitExpires
  \/ T3210Expires \/ T3211Expires \/ T3212Expires \/ T3230Expires \/ T3240Expires

Next ==
  \/ MobileWork
  \/ \E ref \in Refs : Request(ref) \/ Release(ref)
  \/ \E ref \in Incoming : Setup(ref) /\ UNCHANGED view
  \/ Network /\ UNCHANGED view
  \/ (LinkFails \/ Link3Fails \/ LossOfSignal \/ Timer) /\ UNCHANGED view
  \/ ((\E area \in Areas : SelectCell(area)) \/ NoCell \/ Reselect \/ AnySearch) /\ UNCHANGED view

Spec == Init /\ [][Next]_vars

\* The main loop serves every queue, runs every timer that expired, and layer 2
\* comes to an end; the network and cell selection need not do anything.
Fairness ==
  /\ WF_vars(MobileWork)
  /\ <>[]c.access => []<><<T3126Expires>>_vars
  /\ <>[]c.t3110 => []<><<T3110Expires>>_vars
  /\ <>[]c.rel_wait => []<><<RelWaitExpires>>_vars
  /\ <>[]c.t3210 => []<><<T3210Expires>>_vars
  /\ <>[]c.t3230 => []<><<T3230Expires>>_vars
  /\ <>[]c.t3240 => []<><<T3240Expires>>_vars
  /\ <>[](c.dl \in {"SABM_SENT", "DISC_SENT"}) => []<><<LinkFails>>_vars
  /\ <>[](c.dl3 = "SABM_SENT") => []<><<Link3Fails>>_vars

FairSpec == Spec /\ Fairness

-----------------------------------------------------------------------------
(* Properties                                                               *)

Ended(ref) == \E i \in DOMAIN c.mmxx[ref] : c.mmxx[ref][i] \in {"REL_IND", "ERR_IND"}

\* Both sides of the MM service agree (gsm48_mm.c against its users): mobility
\* management has a connection exactly as long as the user that asked for it, or
\* was called, has not ended it and has no indication of its end under way, through
\* losses of the channel, aborts, rejections and requests that cross them.
\* Excepted are the connections of stray.
ViewKept ==
  \A ref \in Refs \ c.stray :
    c.conn[ref] # "NONE" <=> view[ref] \in {"asked", "open"} /\ ~Ended(ref)

RrTells(prims) == \E i \in DOMAIN c.rrq : c.rrq[i].sapi = 0 /\ c.rrq[i].prim \in prims

\* Mobility management and radio resources agree about the channel (gsm48_mm.c
\* against gsm48_rr.c): while MM is in a state that uses one, RR has it, or a
\* message that takes MM out of the state is under way, or cell selection will
\* report a cell and does it then; and no channel is up behind the back of MM.
ChannelKnown ==
  /\ c.mm \in {"WAIT_OUT_MM_CONN", "CONN_ACTIVE", "WAIT_ADD_OUT_MM_CON", "WAIT_NETWORK_CMD"} =>
       \/ c.rr \in {"DEDICATED", "REL_PEND"}
       \/ RrTells({"REL_IND", "ABORT_IND"})
       \/ c.cs # "CAMPED" \/ c.ev # <<>>
  /\ c.rr = "DEDICATED" => c.mm # "IDLE" \/ RrTells({"EST_CNF", "EST_IND"})


\* A location update that is pending is under way or will be tried again
\* (lupd_pending of gsm48_mm.c, which keeps every other update from being begun):
\* a retry timer runs, or starts when MM returns to idle, or the retry is noted
\* for normal service; through losses of cells and channels, rejections, calls and
\* periodic updates that cross it.  Excepted are the updates of lost.
UpdateGuarded ==
  c.pending /\ ~c.lost =>
    \/ c.mm \in UpdateStates
    \/ c.t3211 \/ c.retry
    \/ c.start_t3211 /\ c.mm # "IDLE"

\* The phone claims normal service only where the network has registered it
\* (gsm48_mm.c against gsm322.c), once cell selection has been heard.
ServiceTrue ==
  c.mm = "IDLE" /\ c.sst = "NORMAL" /\ c.cs = "CAMPED" /\ c.ev = <<>> =>
    c.reg = c.la \/ c.pending

\* While radio resources ask for a channel or use one, cell selection is in connected
\* mode (gsm48_rr_chan_req and new_rr_state of gsm48_rr.c against gsm322.c): no answer
\* of PLMN selection to a refused registration chooses a cell under the channel.
ChannelOnCell == c.rr \in {"CONN_PEND", "DEDICATED"} => c.cs = "CONNECTED"

\* "Try location update later" (gsm48_mm.c:2695, :2722): what gsm48_mm_loc_upd_failed
\* says of an update that failed, without the exception that UpdateGuarded makes.
UpdateTriedLater == c.pending => c.mm \in UpdateStates \/ c.t3211 \/ c.start_t3211 \/ c.retry

=============================================================================
