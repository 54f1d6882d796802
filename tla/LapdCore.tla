------------------------------ MODULE LapdCore ------------------------------
(***************************************************************************)
(* One LAPD data link of libosmocore, src/gsm/lapd_core.c: the record      *)
(* `struct lapd_datalink' and every handler that changes it.  The module   *)
(* declares no variables.  A handler is an operator from a context to a    *)
(* context: the datalink, the frames it has handed to layer 1 so far and   *)
(* the primitives it has sent up to layer 3 so far, in the order of the    *)
(* calls.  Handlers compose the way the C functions call each other.       *)
(*                                                                         *)
(* Data is abstracted to what the protocol can tell apart.  A layer 3      *)
(* message m is cut into Segments[m] segments (N201 octets each but the    *)
(* last); the M bit of an I frame and `more' in tx_hist are a function of  *)
(* the segment.  A SABM or UA carries a contention resolution content or   *)
(* Empty (length 0).                                                       *)
(*                                                                         *)
(* Left out because nothing in the program reaches it: T203 (lapdm.c sets  *)
(* it to 0), re-establishment (`reestablish' is 0), own_busy (never set)   *)
(* and so RNR and peer_busy, FRMR (never sent).                            *)
(*                                                                         *)
(* A definition marked `Faulty variant' is a plausible mistake in the one  *)
(* it stands next to; no other definition uses it.                         *)
(***************************************************************************)
EXTENDS Integers, Sequences

CONSTANTS
  Msg,            \* layer 3 messages for DL-DATA-REQUEST
  Segments,       \* Segments[m]: I frames needed for message m
  Content,        \* layer 3 messages carried by a SABM
  Empty,          \* the information field of length 0
  Null,           \* a NULL pointer
  K,              \* window: dl->k
  N200,           \* dl->n200, retransmissions in timer recovery
  N200_EST_REL,   \* dl->n200_est_rel, retransmissions of SABM and DISC
  MaxF            \* dl->maxf, in segments

ASSUME SegmentsAssumption == Segments \in [Msg -> Nat \ {0}]
ASSUME WindowAssumption == K \in 1..7
ASSUME N200Assumption == N200 \in Nat /\ N200_EST_REL \in Nat
ASSUME MaxFAssumption == MaxF \in Nat \ {0}

Segment == {s \in [msg : Msg, part : Nat \ {0}] : s.part <= Segments[s.msg]}
Info == Segment \cup Content \cup {Empty}

ASSUME NullAssumption == Null \notin Info \cup Msg
ASSUME EmptyAssumption == Empty \notin Content

More(s) == s.part < Segments[s.msg]

-----------------------------------------------------------------------------
(* Sequence numbers: v_range is 8, range_hist the smallest power of two     *)
(* that is at least k+1.                                                    *)

VRange == 8
RangeHist == IF K < 2 THEN 2 ELSE IF K < 4 THEN 4 ELSE 8

Seqno == 0 .. VRange - 1
Slot == 0 .. RangeHist - 1

do_mod(x, m) == x % m
inc_mod(x, m) == (x + 1) % m
add_mod(x, y, m) == (x + y) % m
sub_mod(x, y, m) == (x - y) % m

-----------------------------------------------------------------------------
(* Types.                                                                   *)

State == {"IDLE", "SABM_SENT", "DISC_SENT", "MF_EST", "TIMER_RECOV"}
Mode == {"USER", "NETWORK"}
Established == {"MF_EST", "TIMER_RECOV"}

\* What a SABM or UA may carry and layer 3 is told with an EST primitive.
Carried == Content \cup {Empty}

Frame == {f \in [type : {"SABM", "UA", "DM", "DISC", "I", "RR", "REJ"},
                 cmd : BOOLEAN, pf : BOOLEAN, ns : Seqno, nr : Seqno, info : Info] :
            f.type # "I" => f.info \in Carried}

Prim == [prim : {"EST_IND", "EST_CONF", "REL_IND", "REL_CONF", "SUSP_CONF",
                 "MDL_ERROR"},
         info : Carried]

Frames == Seq(Frame)
Messages == Seq(Msg)
Assembly == Seq(Segment)

Datalink == [mode : Mode, polling : BOOLEAN, state : State,
             v_send : Seqno, v_ack : Seqno, v_recv : Seqno,
             seq_err_cond : 0..2, retrans_ctr : Nat, t200 : BOOLEAN,
             tx_queue : Frames, send_queue : Messages,
             send_buffer : Msg \cup {Null}, send_out : Nat,
             tx_hist : [Slot -> Info \cup {Null}],
             rcv_buffer : Assembly, cont_res : Content \cup {Null}]

\* ph: frames passed to layer 1; l3: primitives to layer 3, DL-DATA-INDICATION
\* apart, whose messages (the segments put together) are in data.
Prims == Seq(Prim)
Deliveries == Seq(Assembly)
Context == [dl : Datalink, ph : Frames, l3 : Prims, data : Deliveries]

NoHist == [h \in Slot |-> Null]

\* lapd_dl_init2 as lapdm_dl_init calls it, then lapd_set_mode.
InitDatalink(mode, polling) ==
  [mode |-> mode, polling |-> polling, state |-> "IDLE",
   v_send |-> 0, v_ack |-> 0, v_recv |-> 0, seq_err_cond |-> 0,
   retrans_ctr |-> 0, t200 |-> FALSE, tx_queue |-> <<>>,
   send_queue |-> <<>>, send_buffer |-> Null, send_out |-> 0,
   tx_hist |-> NoHist, rcv_buffer |-> <<>>, cont_res |-> Null]

Entry(dl) == [dl |-> dl, ph |-> <<>>, l3 |-> <<>>, data |-> <<>>]

-----------------------------------------------------------------------------
(* The small functions the handlers are made of.                            *)

StartT200(c) == [c EXCEPT !.dl.t200 = TRUE]
StopT200(c) == [c EXCEPT !.dl.t200 = FALSE]

NewState(c, s) ==
  [c EXCEPT !.dl.state = s,
            !.dl.cont_res = IF c.dl.state = "MF_EST" /\ s # "MF_EST"
                            THEN Null ELSE @]

FlushHist(c) == [c EXCEPT !.dl.tx_hist = NoHist]
FlushTx(c) == [c EXCEPT !.dl.tx_hist = NoHist, !.dl.tx_queue = <<>>]
FlushSend(c) == [c EXCEPT !.dl.send_queue = <<>>, !.dl.send_buffer = Null]

\* send_ph_data_req: a polled entity queues the frame, another one passes
\* it to layer 1 at once.
Send(c, f) ==
  IF c.dl.polling THEN [c EXCEPT !.dl.tx_queue = Append(@, f)]
                  ELSE [c EXCEPT !.ph = Append(@, f)]

Tell(c, p, info) == [c EXCEPT !.l3 = Append(@, [prim |-> p, info |-> info])]
TellSimple(c, p) == Tell(c, p, Empty)
MdlError(c) == TellSimple(c, "MDL_ERROR")

UFrame(type, cmd, pf, info) ==
  [type |-> type, cmd |-> cmd, pf |-> pf, ns |-> 0, nr |-> 0, info |-> info]
SFrame(type, cmd, pf, nr) ==
  [type |-> type, cmd |-> cmd, pf |-> pf, ns |-> 0, nr |-> nr, info |-> Empty]
IFrame(pf, ns, nr, seg) ==
  [type |-> "I", cmd |-> TRUE, pf |-> pf, ns |-> ns, nr |-> nr, info |-> seg]

SendUa(c, f) == Send(c, UFrame("UA", FALSE, f.pf, f.info))
SendDm(c, f) == Send(c, UFrame("DM", FALSE, f.pf, Empty))
SendRr(c, pf, cmd) == Send(c, SFrame("RR", cmd, pf, c.dl.v_recv))
SendRej(c, pf) == Send(c, SFrame("REJ", FALSE, pf, c.dl.v_recv))

\* Answer to a polling RR or REJ command: nothing while in sequence error.
AnswerPoll(c, f) ==
  IF f.cmd /\ f.pf /\ c.dl.seq_err_cond = 0 THEN SendRr(c, TRUE, FALSE) ELSE c

-----------------------------------------------------------------------------
(* lapd_send_i: send I frames until the window is full, the peer is being   *)
(* recovered, or there is nothing to send.                                  *)

\* Faulty variant: the window is one frame too wide.
CanSendOneMore(dl) ==
  dl.state # "TIMER_RECOV" /\ dl.v_send # add_mod(dl.v_ack, K + 1, VRange)
CanSend(dl) == dl.state # "TIMER_RECOV" /\ dl.v_send # add_mod(dl.v_ack, K, VRange)

\* The message whose next segment is due: the one in send_buffer, or the
\* next of send_queue once every segment of it was sent.
Fetch(c) ==
  IF c.dl.send_buffer # Null /\ c.dl.send_out < Segments[c.dl.send_buffer]
  THEN c
  ELSE IF c.dl.send_queue = <<>>
  THEN [c EXCEPT !.dl.send_out = 0, !.dl.send_buffer = Null]
  ELSE [c EXCEPT !.dl.send_out = 0,
                 !.dl.send_buffer = Head(c.dl.send_queue),
                 !.dl.send_queue = Tail(@)]

\* Cut the next segment into slot h of the history, if there is a message.
CutSegment(c, h) ==
  LET d == Fetch(c)
      seg == [msg |-> d.dl.send_buffer, part |-> d.dl.send_out + 1]
  IN IF d.dl.send_buffer = Null THEN d
     ELSE [d EXCEPT !.dl.tx_hist[h] = seg, !.dl.send_out = @ + 1]

\* Faulty variant: T200 is not started.
TransmitUntimed(c, h) ==
  Send([c EXCEPT !.dl.v_send = inc_mod(@, VRange)],
       IFrame(FALSE, c.dl.v_send, c.dl.v_recv, c.dl.tx_hist[h]))
Transmit(c, h) ==
  LET f == IFrame(FALSE, c.dl.v_send, c.dl.v_recv, c.dl.tx_hist[h])
  IN Send([c EXCEPT !.dl.v_send = inc_mod(@, VRange), !.dl.t200 = TRUE], f)

\* One turn of the loop at next_frame; the identity once the loop is left.
NextFrame(c) ==
  LET h == do_mod(c.dl.v_send, RangeHist)
      d == IF c.dl.tx_hist[h] = Null THEN CutSegment(c, h) ELSE c
  IN IF ~CanSend(c.dl) THEN c
     ELSE IF d.dl.tx_hist[h] = Null THEN d
     ELSE Transmit(d, h)

\* v_send meets v_ack + k after at most v_range - 1 frames.
TwoFrames(c) == NextFrame(NextFrame(c))
FourFrames(c) == TwoFrames(TwoFrames(c))
SendI(c) == FourFrames(FourFrames(c))

-----------------------------------------------------------------------------
(* lapd_acknowledge.                                                        *)

\* Faulty variant: N(R) taken as acknowledged too.
AckedOneMore(va, nr) ==
  {do_mod(add_mod(va, i, VRange), RangeHist) : i \in 0 .. sub_mod(nr, va, VRange)}
Acked(va, nr) ==
  {do_mod(add_mod(va, i, VRange), RangeHist) : i \in 0 .. sub_mod(nr, va, VRange) - 1}

Acknowledge(c, f) ==
  LET va == c.dl.v_ack
      rej == f.type = "REJ"
      recov == c.dl.state = "TIMER_RECOV"
      reset == ~recov /\ (rej <=> f.nr = va)
      invalid == ~recov /\ sub_mod(f.nr, va, VRange)
                              > sub_mod(c.dl.v_send, va, VRange)
      last == sub_mod(c.dl.v_send, 1, RangeHist)
      hist == [h \in Slot |-> IF h \in Acked(va, f.nr) THEN Null
                                                       ELSE c.dl.tx_hist[h]]
      d == [c EXCEPT !.dl.tx_hist = hist, !.dl.v_ack = f.nr,
                     !.dl.t200 = IF reset THEN ~rej /\ hist[last] # Null ELSE @]
  IN IF invalid THEN MdlError(d) ELSE d

-----------------------------------------------------------------------------
(* Frames from layer 1.                                                     *)

ResetSeqnos(c) == [c EXCEPT !.dl.v_send = 0, !.dl.v_recv = 0, !.dl.v_ack = 0]

\* Faulty variant: layer 3 is not told.
AcceptSabmSilently(c, f) ==
  NewState(FlushHist(ResetSeqnos(SendUa(c, f))), "MF_EST")
\* End of lapd_rx_u_sabm: the link is (re-)established by the peer.  The
\* receive buffer, the send queue and T200 are left as they are.
AcceptSabm(c, f) ==
  LET d == NewState(FlushHist(ResetSeqnos(SendUa(c, f))), "MF_EST")
      stored == d.dl.mode = "NETWORK" /\ f.info # Empty
  IN Tell([d EXCEPT !.dl.cont_res = IF stored THEN f.info ELSE @],
          "EST_IND", f.info)

RxSabmEstablished(c, f) ==
  IF f.info = Empty THEN AcceptSabm(c, f)
  ELSE IF c.dl.cont_res = Null THEN MdlError(c)
  ELSE IF c.dl.mode = "NETWORK" /\ c.dl.cont_res # f.info THEN c
  ELSE SendUa(c, f)

RxSabmCollision(c, f) ==
  SendUa(IF c.dl.tx_hist[0] \notin {Null, Empty} THEN MdlError(c) ELSE c, f)

lapd_rx_u_sabm(c0, f) ==
  LET c == [c0 EXCEPT !.dl.seq_err_cond = 0]
  IN CASE c.dl.state = "IDLE" -> AcceptSabm(c, f)
       [] c.dl.state = "TIMER_RECOV" ->
            IF f.info # Empty THEN SendDm(MdlError(c), f)
                              ELSE AcceptSabm(StopT200(c), f)
       [] c.dl.state = "MF_EST" -> RxSabmEstablished(c, f)
       [] c.dl.state = "DISC_SENT" -> TellSimple(StopT200(SendDm(c, f)), "EST_IND")
       [] c.dl.state = "SABM_SENT" -> RxSabmCollision(c, f)

lapd_rx_u_dm(c, f) ==
  CASE ~f.pf -> c
    [] f.pf /\ c.dl.state = "MF_EST" -> MdlError(c)
    [] f.pf /\ c.dl.state \in {"SABM_SENT", "TIMER_RECOV"} ->
         TellSimple(NewState(StopT200(c), "IDLE"), "REL_IND")
    [] f.pf /\ c.dl.state = "DISC_SENT" ->
         TellSimple(NewState(FlushSend(FlushTx(StopT200(c))), "IDLE"), "REL_CONF")
    [] f.pf /\ c.dl.state = "IDLE" -> c

lapd_rx_u_disc(c0, f) ==
  LET c == [FlushSend(FlushTx(c0)) EXCEPT !.dl.seq_err_cond = 0]
  IN CASE c.dl.state = "IDLE" -> SendDm(c, f)
       [] c.dl.state = "SABM_SENT" ->
            TellSimple(NewState(StopT200(SendDm(c, f)), "IDLE"), "REL_IND")
       [] c.dl.state \in Established ->
            TellSimple(NewState(StopT200(SendUa(c, f)), "IDLE"), "REL_IND")
       [] c.dl.state = "DISC_SENT" ->
            TellSimple(NewState(StopT200(SendUa(c, f)), "IDLE"), "REL_CONF")

\* Faulty variant: the content is not compared.
UaAlwaysMatches(dl, f) == TRUE
\* The UA of a SABM with content must repeat that content.
UaMatches(dl, f) == dl.tx_hist[0] = Empty \/ dl.tx_hist[0] = f.info

lapd_rx_u_ua(c, f) ==
  CASE ~f.pf -> c
    [] f.pf /\ c.dl.state \in Established -> MdlError(c)
    [] f.pf /\ c.dl.state = "DISC_SENT" ->
         TellSimple(NewState(FlushSend(FlushTx(StopT200(c))), "IDLE"), "REL_CONF")
    [] f.pf /\ c.dl.state = "SABM_SENT" ->
         IF UaMatches(c.dl, f)
         THEN TellSimple(SendI(NewState(FlushHist(ResetSeqnos(StopT200(c))),
                                        "MF_EST")), "EST_CONF")
         ELSE TellSimple(NewState(FlushSend(FlushTx(StopT200(c))), "IDLE"),
                         "REL_IND")
    [] f.pf /\ c.dl.state = "IDLE" -> c

LeaveRecovery(c) == NewState(StopT200(c), "MF_EST")

RxRr(c, f) ==
  LET d == Acknowledge(c, f)
  IN SendI(IF ~f.cmd /\ f.pf /\ d.dl.state = "TIMER_RECOV"
           THEN LeaveRecovery([d EXCEPT !.dl.v_send = f.nr])
           ELSE AnswerPoll(d, f))

RxRej(c, f) ==
  LET a == Acknowledge(c, f)
      d == [a EXCEPT !.dl.v_send = f.nr, !.dl.v_ack = f.nr]
      final == ~f.cmd /\ f.pf
  IN SendI(CASE d.dl.state # "TIMER_RECOV" /\ final -> MdlError(StopT200(d))
             [] d.dl.state # "TIMER_RECOV" /\ ~final -> AnswerPoll(StopT200(d), f)
             [] d.dl.state = "TIMER_RECOV" /\ final -> LeaveRecovery(d)
             [] d.dl.state = "TIMER_RECOV" /\ ~final -> AnswerPoll(d, f))

lapd_rx_s(c, f) ==
  LET d == IF ~f.cmd /\ f.pf /\ c.dl.state # "TIMER_RECOV" THEN MdlError(c) ELSE c
  IN CASE c.dl.state = "IDLE" -> IF f.pf THEN SendDm(d, f) ELSE d
       [] c.dl.state \in {"SABM_SENT", "DISC_SENT"} -> d
       [] c.dl.state \in Established ->
            IF f.type = "RR" THEN RxRr(d, f) ELSE RxRej(d, f)

\* Every second of subsequent N(S) errors is not answered.
OutOfSequence(c, f) ==
  LET d == IF c.dl.seq_err_cond = 1
           THEN [c EXCEPT !.dl.seq_err_cond = 2]
           ELSE SendRej([c EXCEPT !.dl.seq_err_cond = 1], f.pf)
  IN SendI(Acknowledge(d, f))

\* Faulty variant: rcv_buffer is not cleared.
DeliverKeepsBuffer(c, seg) ==
  LET buf == Append(c.dl.rcv_buffer, seg)
      d == [c EXCEPT !.dl.rcv_buffer = buf]
  IN IF More(seg) THEN d ELSE [d EXCEPT !.data = Append(@, buf)]
Deliver(c, seg) ==
  LET full == Len(c.dl.rcv_buffer) + 1 > MaxF
      buf == IF full THEN c.dl.rcv_buffer ELSE Append(c.dl.rcv_buffer, seg)
  IN IF More(seg) THEN [c EXCEPT !.dl.rcv_buffer = buf]
     ELSE [c EXCEPT !.dl.rcv_buffer = <<>>, !.data = Append(@, buf)]

\* update_pending_frames of lapdm.c, and the RR if there was none.
IsPending(dl) == \E i \in DOMAIN dl.tx_queue : dl.tx_queue[i].type = "I"
UpdatePending(c) ==
  IF IsPending(c.dl)
  THEN [c EXCEPT !.dl.tx_queue =
          [i \in DOMAIN @ |-> IF @[i].type = "I"
                              THEN [@[i] EXCEPT !.nr = c.dl.v_recv] ELSE @[i]]]
  ELSE SendRr(c, FALSE, FALSE)

InSequence(c0, f) ==
  LET c1 == [c0 EXCEPT !.dl.seq_err_cond = 0, !.dl.v_recv = inc_mod(@, VRange)]
      c == Deliver(Acknowledge(c1, f), f.info)
      d == SendI(c)
  IN IF f.pf THEN SendI(SendRr(c, TRUE, FALSE))
     ELSE IF d.dl.v_send # c.dl.v_send THEN d
     ELSE UpdatePending(d)

\* Faulty variant: N(S) is not looked at.
rx_i_any_ns(c, f) ==
  IF c.dl.state \in Established /\ f.info \in Segment THEN InSequence(c, f) ELSE c
lapd_rx_i(c, f) ==
  CASE f.info \notin Segment -> MdlError(c)
    [] f.info \in Segment /\ c.dl.state = "IDLE" ->
         IF f.pf THEN SendDm(c, f) ELSE c
    [] f.info \in Segment /\ c.dl.state \in {"SABM_SENT", "DISC_SENT"} -> c
    [] f.info \in Segment /\ c.dl.state \in Established ->
         IF f.ns # c.dl.v_recv THEN OutOfSequence(c, f) ELSE InSequence(c, f)

\* lapdm_rx_not_permitted: a mobile never receives contention resolution.
NotPermitted(dl, f) == f.type = "SABM" /\ dl.mode = "USER" /\ f.info # Empty

lapd_ph_data_ind(c, f) ==
  CASE NotPermitted(c.dl, f) -> MdlError(c)
    [] ~NotPermitted(c.dl, f) /\ f.type = "SABM" -> lapd_rx_u_sabm(c, f)
    [] f.type = "DM" -> lapd_rx_u_dm(c, f)
    [] f.type = "DISC" -> lapd_rx_u_disc(c, f)
    [] f.type = "UA" -> lapd_rx_u_ua(c, f)
    [] f.type \in {"RR", "REJ"} -> lapd_rx_s(c, f)
    [] f.type = "I" -> lapd_rx_i(c, f)

-----------------------------------------------------------------------------
(* T200.  The timer is no longer pending when its callback runs.            *)

\* lapd_send_resend: the frame is in the history at v_send.
Resend(c) ==
  LET h == do_mod(c.dl.v_send, RangeHist)
      type == IF c.dl.state = "SABM_SENT" THEN "SABM" ELSE "DISC"
  IN Send(c, UFrame(type, TRUE, TRUE, c.dl.tx_hist[h]))

\* Faulty variant: the history is cleared after the retransmission.
RetryMovesCommand(c) ==
  FlushHist(StartT200([Resend(c) EXCEPT !.dl.retrans_ctr = @ + 1]))
\* Faulty variant: retrans_ctr is not incremented.
RetryUncounted(c) == StartT200(Resend(c))
RetryUnnumbered(c) ==
  StartT200([Resend(c) EXCEPT !.dl.retrans_ctr = @ + 1])

GiveUp(c) == MdlError(NewState(FlushSend(FlushTx(c)), "IDLE"))

\* Faulty variant: the repeated frame carries V(S) instead of V(S)-1.
PollPeerNext(c) ==
  LET seg == c.dl.tx_hist[do_mod(sub_mod(c.dl.v_send, 1, VRange), RangeHist)]
  IN IF seg # Null THEN Send(c, IFrame(TRUE, c.dl.v_send, c.dl.v_recv, seg))
                   ELSE SendRr(c, TRUE, TRUE)
\* Repeat the last I frame with P=1, or poll with RR if it is acknowledged.
PollPeer(c) ==
  LET vs == sub_mod(c.dl.v_send, 1, VRange)
      seg == c.dl.tx_hist[do_mod(vs, RangeHist)]
  IN IF seg # Null THEN Send(c, IFrame(TRUE, vs, c.dl.v_recv, seg))
     ELSE IF c.dl.seq_err_cond = 0 THEN SendRr(c, TRUE, TRUE) ELSE c

\* Faulty variant: T200 is not restarted.
RecoverOnce(c) ==
  LET d == [c EXCEPT !.dl.retrans_ctr = @ + 1]
  IN IF d.dl.retrans_ctr <= N200 THEN PollPeer(d) ELSE MdlError(d)
Recover(c) ==
  LET d == [c EXCEPT !.dl.retrans_ctr = @ + 1]
  IN IF d.dl.retrans_ctr <= N200 THEN StartT200(PollPeer(d)) ELSE MdlError(d)

lapd_t200_cb(c0) ==
  LET c == StopT200(c0)
      exhausted == c.dl.retrans_ctr >= N200_EST_REL + 1
  IN CASE c.dl.state = "SABM_SENT" ->
            IF exhausted THEN TellSimple(GiveUp(c), "REL_IND")
                         ELSE RetryUnnumbered(c)
       [] c.dl.state = "DISC_SENT" ->
            IF exhausted THEN TellSimple(GiveUp(c), "REL_CONF")
                         ELSE RetryUnnumbered(c)
       [] c.dl.state = "MF_EST" ->
            Recover(NewState([c EXCEPT !.dl.retrans_ctr = 0], "TIMER_RECOV"))
       [] c.dl.state = "TIMER_RECOV" -> Recover(c)
       [] c.dl.state = "IDLE" -> c

-----------------------------------------------------------------------------
(* Requests of layer 3.  l2downstatelist says in which states a request is  *)
(* served; in the others it is dropped.                                     *)

ServedIn(req) ==
  CASE req = "EST" -> {"IDLE"}
    [] req \in {"DATA", "SUSP", "RES"} -> Established
    [] req = "RECON" -> Established \cup {"IDLE"}
    [] req = "REL" -> State

Discard(c) == [c EXCEPT !.dl.rcv_buffer = <<>>]

\* Send the first SABM or DISC: it is kept in slot 0, where v_send points.
Start(c, type, state, info) ==
  LET d == [c EXCEPT !.dl.tx_hist[0] = info, !.dl.v_send = 0,
                     !.dl.retrans_ctr = 0]
  IN StartT200(Send(NewState(d, state), UFrame(type, TRUE, TRUE, info)))

lapd_est_req(c, info) ==
  Start(Discard(FlushHist(FlushSend(c))), "SABM", "SABM_SENT", info)

lapd_data_req(c, m) == SendI([c EXCEPT !.dl.send_queue = Append(@, m)])

\* Faulty variant: the message goes to the end of the queue.
susp_req_at_end(c) ==
  LET back == IF c.dl.send_buffer = Null THEN <<>> ELSE <<c.dl.send_buffer>>
      d == [c EXCEPT !.dl.send_queue = @ \o back, !.dl.send_buffer = Null]
  IN TellSimple(StopT200(FlushTx(d)), "SUSP_CONF")
lapd_susp_req(c) ==
  LET back == IF c.dl.send_buffer = Null THEN <<>> ELSE <<c.dl.send_buffer>>
      d == [c EXCEPT !.dl.send_queue = back \o @, !.dl.send_buffer = Null]
  IN TellSimple(StopT200(FlushTx(d)), "SUSP_CONF")

\* Resume or reconnect; m is sent before the messages still queued.
lapd_res_req(c, m) ==
  Start(Discard([FlushHist(c) EXCEPT !.dl.send_buffer = m, !.dl.send_out = 0]),
        "SABM", "SABM_SENT", Empty)

lapd_rel_req(c, local) ==
  CASE c.dl.state = "IDLE" -> TellSimple(c, "REL_CONF")
    [] c.dl.state # "IDLE" /\ local ->
         TellSimple(FlushSend(FlushTx(NewState(StopT200(c), "IDLE"))), "REL_CONF")
    [] c.dl.state = "DISC_SENT" /\ ~local -> c
    [] c.dl.state \notin {"IDLE", "DISC_SENT"} /\ ~local ->
         Start(FlushHist(c), "DISC", "DISC_SENT", Empty)

lapd_dl_reset(c) ==
  StopT200(Discard(FlushSend(FlushTx(NewState(c, "IDLE")))))
=============================================================================
