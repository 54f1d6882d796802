--------------------------- MODULE LapdCoreProofs ---------------------------
(***************************************************************************)
(* Lemmas about the handlers of LapdCore, one per handler, for any frame,  *)
(* any request and any values of the constants.  A handler that starts     *)
(* from a well-formed context in state s is Fine(s, _): its outcome is     *)
(* well formed; while a SABM or DISC is outstanding its information field  *)
(* is in slot 0 of the history and V(S) is 0; and what layer 3 is told of  *)
(* the link agrees with the state the handler ends in.  LapdmLinkProofs    *)
(* builds the invariant of the system from these.                          *)
(***************************************************************************)
EXTENDS LapdCore, TLAPS

\* The history has 2, 4 or 8 slots, so slots wrap where sequence numbers do.
LEMMA RangeHistValues == RangeHist \in {2, 4, 8}
  BY DEF RangeHist

\* The arithmetic modulo v_range yields sequence numbers (inc_mod, add_mod, sub_mod).
LEMMA SeqnoOps ==
  ASSUME NEW x \in Int, NEW y \in Int
  PROVE  /\ inc_mod(x, VRange) \in Seqno
         /\ add_mod(x, y, VRange) \in Seqno
         /\ sub_mod(x, y, VRange) \in Seqno
         /\ do_mod(x, VRange) \in Seqno
  BY DEF inc_mod, add_mod, sub_mod, do_mod, VRange, Seqno

\* do_mod maps a sequence number, and V(S)-1, to a slot of tx_hist: reads stay in bounds.
LEMMA SlotOps ==
  ASSUME NEW x \in Int, NEW y \in Int
  PROVE  /\ do_mod(x, RangeHist) \in Slot
         /\ sub_mod(x, y, RangeHist) \in Slot
         /\ 0 \in Slot
  <1>1. CASE RangeHist = 2
    BY <1>1 DEF do_mod, sub_mod, Slot
  <1>2. CASE RangeHist = 4
    BY <1>2 DEF do_mod, sub_mod, Slot
  <1>3. CASE RangeHist = 8
    BY <1>3 DEF do_mod, sub_mod, Slot
  <1>4. QED
    BY <1>1, <1>2, <1>3, RangeHistValues

\* Starting and stopping T200 keeps a context well formed.
LEMMA StartStop ==
  ASSUME NEW c \in Context
  PROVE  StartT200(c) \in Context /\ StopT200(c) \in Context
  BY DEF Context, Datalink, StartT200, StopT200

\* A state change keeps a context well formed, cont_res freed or not.
LEMMA NewStateType ==
  ASSUME NEW c \in Context, NEW s \in State
  PROVE  NewState(c, s) \in Context
  BY DEF Context, Datalink, NewState

\* The empty history is a history.
LEMMA NoHistType == NoHist \in [Slot -> Info \cup {Null}]
  BY DEF NoHist

\* Appending to and concatenating the queues of a context keeps their types.
LEMMA SequenceTypes ==
  /\ <<>> \in Frames /\ <<>> \in Messages /\ <<>> \in Assembly
  /\ <<>> \in Prims /\ <<>> \in Deliveries
  /\ \A q \in Frames, f \in Frame : Append(q, f) \in Frames
  /\ \A q \in Messages, m \in Msg : Append(q, m) \in Messages
  /\ \A q \in Assembly, s \in Segment : Append(q, s) \in Assembly
  /\ \A q \in Prims, p \in Prim : Append(q, p) \in Prims
  /\ \A q \in Deliveries, b \in Assembly : Append(q, b) \in Deliveries
  BY DEF Frames, Messages, Assembly, Prims, Deliveries

\* The flush functions keep a context well formed.
LEMMA FlushType ==
  ASSUME NEW c \in Context
  PROVE  FlushHist(c) \in Context /\ FlushTx(c) \in Context /\ FlushSend(c) \in Context
  <1>1. FlushHist(c) \in Context
    BY NoHistType DEF Context, Datalink, FlushHist
  <1>2. FlushTx(c) \in Context
    BY NoHistType, SequenceTypes DEF Context, Datalink, FlushTx
  <1>3. FlushSend(c) \in Context
    BY SequenceTypes DEF Context, Datalink, FlushSend
  <1>4. QED
    BY <1>1, <1>2, <1>3

\* A frame queued or handed to layer 1 keeps a context well formed.
LEMMA SendType ==
  ASSUME NEW c \in Context, NEW f \in Frame
  PROVE  Send(c, f) \in Context
  BY SequenceTypes DEF Context, Datalink, Send

\* A primitive told to layer 3 keeps a context well formed.
LEMMA TellType ==
  ASSUME NEW c \in Context, NEW info \in Carried,
         NEW p \in {"EST_IND", "EST_CONF", "REL_IND", "REL_CONF", "SUSP_CONF", "MDL_ERROR"}
  PROVE  /\ Tell(c, p, info) \in Context
         /\ TellSimple(c, p) \in Context
         /\ MdlError(c) \in Context
  <1>1. \A i \in Carried : [prim |-> p, info |-> i] \in Prim
    BY DEF Prim
  <1>2. \A i \in Carried : Tell(c, p, i) \in Context
    BY <1>1, SequenceTypes DEF Context, Tell
  <1>3. Empty \in Carried
    BY DEF Carried
  <1>4. [prim |-> "MDL_ERROR", info |-> Empty] \in Prim
    BY <1>3 DEF Prim
  <1>5. MdlError(c) \in Context
    BY <1>4, SequenceTypes DEF Context, MdlError, TellSimple, Tell
  <1>6. QED
    BY <1>2, <1>3, <1>5 DEF TellSimple

\* The frames the send functions assemble are frames.
LEMMA FrameTypes ==
  /\ \A type \in {"SABM", "UA", "DM", "DISC"}, cmd \in BOOLEAN, pf \in BOOLEAN,
        info \in Carried : UFrame(type, cmd, pf, info) \in Frame
  /\ \A type \in {"RR", "REJ"}, cmd \in BOOLEAN, pf \in BOOLEAN, nr \in Seqno :
        SFrame(type, cmd, pf, nr) \in Frame
  /\ \A pf \in BOOLEAN, ns \in Seqno, nr \in Seqno, seg \in Info :
        IFrame(pf, ns, nr, seg) \in Frame
  <1>1. 0 \in Seqno
    BY DEF Seqno, VRange
  <1>2. Carried \subseteq Info
    BY DEF Carried, Info
  <1>3. Empty \in Carried
    BY DEF Carried
  <1>4. QED
    BY <1>1, <1>2, <1>3 DEF Frame, UFrame, SFrame, IFrame

\* lapd_send_ua, _dm, _rr, _rej and the answer to a poll keep a context well formed.
LEMMA AnswerTypes ==
  ASSUME NEW c \in Context, NEW f \in Frame, NEW pf \in BOOLEAN, NEW cmd \in BOOLEAN
  PROVE  /\ f.type # "I" => SendUa(c, f) \in Context
         /\ SendDm(c, f) \in Context
         /\ SendRr(c, pf, cmd) \in Context
         /\ SendRej(c, pf) \in Context
         /\ AnswerPoll(c, f) \in Context
  <1>1. f.pf \in BOOLEAN /\ (f.type # "I" => f.info \in Carried)
    BY DEF Frame
  <1>2. c.dl.v_recv \in Seqno
    BY DEF Context, Datalink
  <1>3. Empty \in Carried
    BY DEF Carried
  <1>4. f.type # "I" => SendUa(c, f) \in Context
    BY <1>1, FrameTypes, SendType DEF SendUa
  <1>5. SendDm(c, f) \in Context
    BY <1>1, <1>3, FrameTypes, SendType DEF SendDm
  <1>6. \A p \in BOOLEAN, m \in BOOLEAN : SendRr(c, p, m) \in Context
    BY <1>2, FrameTypes, SendType DEF SendRr
  <1>7. SendRej(c, pf) \in Context
    BY <1>2, FrameTypes, SendType DEF SendRej
  <1>8. AnswerPoll(c, f) \in Context
    BY <1>6 DEF AnswerPoll
  <1>9. QED
    BY <1>4, <1>5, <1>6, <1>7, <1>8

\* lapd_send_i takes only messages out of send_queue, and what it takes is within send_out.
LEMMA FetchType ==
  ASSUME NEW c \in Context
  PROVE  /\ Fetch(c) \in Context
         /\ Fetch(c).dl.send_buffer # Null =>
              /\ Fetch(c).dl.send_buffer \in Msg
              /\ Fetch(c).dl.send_out < Segments[Fetch(c).dl.send_buffer]
  <1>1. /\ c.dl.send_buffer \in Msg \cup {Null}
        /\ c.dl.send_queue \in Messages
        /\ c.dl.send_out \in Nat
    BY DEF Context, Datalink
  <1>2. Null \notin Msg /\ \A m \in Msg : Segments[m] \in Nat /\ 0 < Segments[m]
    BY NullAssumption, SegmentsAssumption
  <1>3. CASE c.dl.send_buffer # Null /\ c.dl.send_out < Segments[c.dl.send_buffer]
    BY <1>1, <1>3 DEF Fetch
  <1>4. CASE ~(c.dl.send_buffer # Null /\ c.dl.send_out < Segments[c.dl.send_buffer])
             /\ c.dl.send_queue = <<>>
    <2> DEFINE d == [c EXCEPT !.dl.send_out = 0, !.dl.send_buffer = Null]
    <2>1. d \in Context
      BY DEF Context, Datalink
    <2>2. d.dl.send_buffer = Null
      BY DEF Context, Datalink
    <2>3. Fetch(c) = d
      BY <1>4 DEF Fetch
    <2> HIDE DEF d
    <2>4. QED
      BY <2>1, <2>2, <2>3
  <1>5. CASE ~(c.dl.send_buffer # Null /\ c.dl.send_out < Segments[c.dl.send_buffer])
             /\ c.dl.send_queue # <<>>
    <2> DEFINE m == Head(c.dl.send_queue)
               q == Tail(c.dl.send_queue)
               d == [c EXCEPT !.dl.send_out = 0, !.dl.send_buffer = m,
                              !.dl.send_queue = q]
    <2>1. m \in Msg /\ q \in Messages
      BY <1>1, <1>5 DEF Messages
    <2>2. Fetch(c) = d
      BY <1>5 DEF Fetch
    <2> HIDE DEF m, q
    <2>3. d \in Context
      BY <2>1 DEF Context, Datalink
    <2>4. d.dl.send_buffer = m /\ d.dl.send_out = 0
      BY DEF Context, Datalink
    <2> HIDE DEF d
    <2>5. QED
      BY <1>2, <2>1, <2>2, <2>3, <2>4
  <1>6. QED
    BY <1>3, <1>4, <1>5

\* lapd_send_i cuts only segments the message has, into one slot of the history.
LEMMA CutSegmentType ==
  ASSUME NEW c \in Context, NEW h \in Slot
  PROVE  CutSegment(c, h) \in Context
  <1> DEFINE d == Fetch(c)
             seg == [msg |-> d.dl.send_buffer, part |-> d.dl.send_out + 1]
  <1>1. d \in Context
    BY FetchType
  <1>2. d.dl.send_out \in Nat
    BY <1>1 DEF Context, Datalink
  <1>3. ASSUME d.dl.send_buffer # Null
        PROVE  seg \in Info
    <2>1. d.dl.send_buffer \in Msg /\ d.dl.send_out < Segments[d.dl.send_buffer]
      BY <1>3, FetchType
    <2>2. Segments[d.dl.send_buffer] \in Nat
      BY <2>1, SegmentsAssumption
    <2>3. seg \in Segment
      BY <1>2, <2>1, <2>2 DEF Segment
    <2>4. QED
      BY <2>3 DEF Info
  <1>4. CutSegment(c, h) = IF d.dl.send_buffer = Null THEN d
          ELSE [d EXCEPT !.dl.tx_hist[h] = seg, !.dl.send_out = @ + 1]
    BY DEF CutSegment
  <1>5. CASE d.dl.send_buffer = Null
    BY <1>1, <1>4, <1>5
  <1>6. CASE d.dl.send_buffer # Null
    <2> HIDE DEF d, seg
    <2>1. d.dl.tx_hist \in [Slot -> Info \cup {Null}]
      BY <1>1 DEF Context, Datalink
    <2>2. [d.dl.tx_hist EXCEPT ![h] = seg] \in [Slot -> Info \cup {Null}]
      BY <2>1, <1>3, <1>6
    <2>3. d.dl.send_out + 1 \in Nat
      BY <1>2
    <2>4. [d EXCEPT !.dl.tx_hist[h] = seg, !.dl.send_out = @ + 1] \in Context
      BY <1>1, <2>2, <2>3 DEF Context, Datalink
    <2>5. QED
      BY <2>4, <1>4, <1>6
  <1>7. QED
    BY <1>5, <1>6

\* The step from c to d keeps the types, the state and what layer 3 was told.
Quietly(c, d) == d \in Context /\ d.dl.state = c.dl.state /\ d.l3 = c.l3

\* Quiet steps compose: no primitive, no state change.
LEMMA QuietlyTransitive ==
  ASSUME NEW a, NEW b, NEW c, Quietly(a, b), Quietly(b, c)
  PROVE  Quietly(a, c)
  BY DEF Quietly

\* Fetching the next message is quiet.
LEMMA QuietFetch ==
  ASSUME NEW c \in Context
  PROVE  Quietly(c, Fetch(c))
  <1>1. /\ Fetch(c).dl.state = c.dl.state
        /\ Fetch(c).l3 = c.l3
    BY DEF Context, Datalink, Fetch
  <1>2. QED
    BY <1>1, FetchType DEF Quietly

\* Cutting a segment is quiet.
LEMMA QuietCut ==
  ASSUME NEW c \in Context, NEW h \in Slot
  PROVE  Quietly(c, CutSegment(c, h))
  <1> DEFINE d == Fetch(c)
  <1>1. Quietly(c, d)
    BY QuietFetch
  <1>2. d \in Context
    BY <1>1 DEF Quietly
  <1> HIDE DEF d
  <1>3. \A x : /\ [d EXCEPT !.dl.tx_hist[h] = x, !.dl.send_out = @ + 1].dl.state = d.dl.state
               /\ [d EXCEPT !.dl.tx_hist[h] = x, !.dl.send_out = @ + 1].l3 = d.l3
    BY <1>2 DEF Context, Datalink
  <1>4. /\ CutSegment(c, h).dl.state = d.dl.state
        /\ CutSegment(c, h).l3 = d.l3
    BY <1>3 DEF CutSegment, d
  <1>5. QED
    BY <1>1, <1>4, CutSegmentType DEF Quietly

\* Handing a frame on is quiet.
LEMMA QuietSend ==
  ASSUME NEW c \in Context, NEW f \in Frame
  PROVE  Quietly(c, Send(c, f))
  <1>1. /\ Send(c, f).dl.state = c.dl.state
        /\ Send(c, f).l3 = c.l3
    BY DEF Context, Datalink, Send
  <1>2. QED
    BY <1>1, SendType DEF Quietly

\* Sending an I frame is quiet.
LEMMA QuietTransmit ==
  ASSUME NEW c \in Context, NEW h \in Slot, c.dl.tx_hist[h] # Null
  PROVE  Quietly(c, Transmit(c, h))
  <1> DEFINE f == IFrame(FALSE, c.dl.v_send, c.dl.v_recv, c.dl.tx_hist[h])
             n == inc_mod(c.dl.v_send, VRange)
             d == [c EXCEPT !.dl.v_send = n, !.dl.t200 = TRUE]
  <1>1. /\ c.dl.tx_hist[h] \in Info
        /\ c.dl.v_send \in Seqno
        /\ c.dl.v_recv \in Seqno
    BY DEF Context, Datalink
  <1>2. f \in Frame
    BY <1>1, FrameTypes
  <1>3. n \in Seqno
    BY <1>1 DEF inc_mod, VRange, Seqno
  <1>4. Transmit(c, h) = Send(d, f)
    BY DEF Transmit
  <1> HIDE DEF f, n
  <1>5. d \in Context
    BY <1>3 DEF Context, Datalink
  <1>6. d.dl.state = c.dl.state /\ d.l3 = c.l3
    BY DEF Context, Datalink
  <1> HIDE DEF d
  <1>7. Quietly(c, d)
    BY <1>5, <1>6 DEF Quietly
  <1>8. Quietly(d, Send(d, f))
    BY <1>2, <1>5, QuietSend
  <1>9. QED
    BY <1>4, <1>7, <1>8, QuietlyTransitive

\* One turn of the loop of lapd_send_i is quiet.
LEMMA QuietNextFrame ==
  ASSUME NEW c \in Context
  PROVE  Quietly(c, NextFrame(c))
  <1> DEFINE h == do_mod(c.dl.v_send, RangeHist)
             d == IF c.dl.tx_hist[h] = Null THEN CutSegment(c, h) ELSE c
  <1>1. h \in Slot
    <2>1. c.dl.v_send \in Int
      BY DEF Context, Datalink, Seqno
    <2>2. QED
      BY <2>1, SlotOps
  <1> HIDE DEF h
  <1>2. Quietly(c, c)
    BY DEF Quietly
  <1>3. Quietly(c, d)
    BY <1>1, <1>2, QuietCut
  <1>4. NextFrame(c) = IF ~CanSend(c.dl) THEN c
                       ELSE IF d.dl.tx_hist[h] = Null THEN d ELSE Transmit(d, h)
    BY DEF NextFrame, h
  <1>5. d \in Context
    BY <1>3 DEF Quietly
  <1> HIDE DEF d
  <1>6. d.dl.tx_hist[h] # Null => Quietly(c, Transmit(d, h))
    BY <1>1, <1>3, <1>5, QuietTransmit, QuietlyTransitive
  <1>7. QED
    BY <1>2, <1>3, <1>4, <1>6

\* lapd_send_i tells layer 3 nothing and changes no state, however many frames it sends.
LEMMA QuietSendI ==
  ASSUME NEW c \in Context
  PROVE  Quietly(c, SendI(c))
  <1>1. \A x \in Context : Quietly(x, TwoFrames(x))
    BY QuietNextFrame, QuietlyTransitive DEF TwoFrames, Quietly
  <1>2. \A x \in Context : Quietly(x, FourFrames(x))
    BY <1>1, QuietlyTransitive DEF FourFrames, Quietly
  <1>3. QED
    BY <1>2, QuietlyTransitive DEF SendI, Quietly

\* lapd_acknowledge keeps a context well formed for any N(R), valid or not.
LEMMA AcknowledgeType ==
  ASSUME NEW c \in Context, NEW f \in Frame
  PROVE  /\ Acknowledge(c, f) \in Context
         /\ Acknowledge(c, f).dl.state = c.dl.state
         /\ Acknowledge(c, f).l3 \in {c.l3, MdlError(c).l3}
  <1> DEFINE va == c.dl.v_ack
             rej == f.type = "REJ"
             recov == c.dl.state = "TIMER_RECOV"
             reset == ~recov /\ (rej <=> f.nr = va)
             invalid == ~recov /\ sub_mod(f.nr, va, VRange)
                                    > sub_mod(c.dl.v_send, va, VRange)
             last == sub_mod(c.dl.v_send, 1, RangeHist)
             hist == [h \in Slot |-> IF h \in Acked(va, f.nr) THEN Null
                                                             ELSE c.dl.tx_hist[h]]
             t == IF reset THEN ~rej /\ hist[last] # Null ELSE c.dl.t200
             d == [c EXCEPT !.dl.tx_hist = hist, !.dl.v_ack = f.nr, !.dl.t200 = t]
  <1>1. Acknowledge(c, f) = IF invalid THEN MdlError(d) ELSE d
    BY DEF Acknowledge
  <1>2. hist \in [Slot -> Info \cup {Null}]
    BY DEF Context, Datalink
  <1>3. f.nr \in Seqno
    BY DEF Frame
  <1>4. t \in BOOLEAN
    BY DEF Context, Datalink
  <1> HIDE DEF invalid, hist, t
  <1>5. d \in Context
    BY <1>2, <1>3, <1>4 DEF Context, Datalink
  <1>6. d.dl.state = c.dl.state /\ d.l3 = c.l3
    BY DEF Context, Datalink
  <1> HIDE DEF d
  <1>7. /\ MdlError(d).dl = d.dl
        /\ MdlError(d).l3 = Append(d.l3, [prim |-> "MDL_ERROR", info |-> Empty])
    BY <1>5 DEF Context, MdlError, TellSimple, Tell
  <1>8. MdlError(c).l3 = Append(c.l3, [prim |-> "MDL_ERROR", info |-> Empty])
    BY DEF Context, MdlError, TellSimple, Tell
  <1>9. MdlError(d) \in Context
    <2>1. Empty \in Carried
      BY DEF Carried
    <2>2. QED
      BY <1>5, <2>1, TellType
  <1>10. QED
    BY <1>1, <1>5, <1>6, <1>7, <1>8, <1>9

-----------------------------------------------------------------------------
(* What a handler is allowed to do to the state and to tell layer 3.        *)

RelTold(c) == \E i \in DOMAIN c.l3 : c.l3[i].prim \in {"REL_IND", "REL_CONF"}
EstTold(c) == \E i \in DOMAIN c.l3 : c.l3[i].prim \in {"EST_IND", "EST_CONF"}

\* From c to d the state becomes s, and layer 3 is not told of it.
Moves(c, d, s) ==
  /\ d \in Context
  /\ d.dl.state = s
  /\ RelTold(d) <=> RelTold(c)
  /\ EstTold(d) <=> EstTold(c)

\* The stored command stays where it is, too.
Keeps(c, d) ==
  /\ Moves(c, d, c.dl.state)
  /\ d.dl.v_send = c.dl.v_send
  /\ d.dl.tx_hist = c.dl.tx_hist

Ends(d) == d \in Context /\ d.dl.state = "IDLE" /\ RelTold(d)
Begins(d) == d \in Context /\ d.dl.state \in Established /\ EstTold(d) /\ ~RelTold(d)

Waiting == {"SABM_SENT", "DISC_SENT"}

\* The strengthening of CommandStored that is inductive: what is stored is the
\* information field of a SABM or DISC, so that its repetition is a legal frame.
Kept(d) == d.state \in Waiting => d.v_send = 0 /\ d.tx_hist[0] \in Carried

\* A handler that starts in state s, its datalink well formed, ends in d.
Fine(s, d) ==
  /\ d \in Context
  /\ Kept(d.dl)
  /\ d.dl.state = "IDLE" => RelTold(d) \/ (s = "IDLE" /\ ~EstTold(d))
  /\ d.dl.state \in Established => ~RelTold(d) /\ (EstTold(d) \/ s \in Established)

\* The context a handler starts from.
Starts(c) == c \in Context /\ Kept(c.dl) /\ ~RelTold(c) /\ ~EstTold(c)

\* Steps that tell layer 3 nothing of the link compose.
LEMMA MovesTransitive ==
  ASSUME NEW b, NEW c, NEW d, NEW r, NEW s, Moves(b, c, r), Moves(c, d, s)
  PROVE  Moves(b, d, s)
  BY DEF Moves

\* Steps that also keep the outstanding command compose.
LEMMA KeepsTransitive ==
  ASSUME NEW b, NEW c, NEW d, Keeps(b, c), Keeps(c, d)
  PROVE  Keeps(b, d)
  BY DEF Keeps, Moves

\* A quiet step is one that moves to the state it is in.
LEMMA QuietMoves ==
  ASSUME NEW c, NEW d, Quietly(c, d)
  PROVE  Moves(c, d, c.dl.state)
  BY DEF Quietly, Moves, RelTold, EstTold

\* Three ways for a handler to be fine: it ends the link, begins one, or leaves it alone.
LEMMA FineCases ==
  ASSUME NEW c, NEW d, Starts(c)
  PROVE  /\ Ends(d) => Fine(c.dl.state, d)
         /\ Begins(d) => Fine(c.dl.state, d)
         /\ Keeps(c, d) => Fine(c.dl.state, d)
         /\ c.dl.state \in Established /\ (\E s \in Established : Moves(c, d, s))
              => Fine(c.dl.state, d)
  <1>1. Ends(d) => Fine(c.dl.state, d)
    BY DEF Ends, Fine, Kept, Waiting, Established
  <1>2. Begins(d) => Fine(c.dl.state, d)
    BY DEF Begins, Fine, Kept, Waiting, Established
  <1>3. Keeps(c, d) => Fine(c.dl.state, d)
    BY DEF Keeps, Moves, Starts, Fine, Kept
  <1>4. c.dl.state \in Established /\ (\E s \in Established : Moves(c, d, s))
          => Fine(c.dl.state, d)
    BY DEF Moves, Starts, Fine, Kept, Waiting, Established
  <1>5. QED
    BY <1>1, <1>2, <1>3, <1>4

\* Telling layer 3 adds exactly the primitive told to those it was told before.
LEMMA TellPrims ==
  ASSUME NEW c \in Context, NEW p, NEW info
  PROVE  /\ Tell(c, p, info).dl = c.dl
         /\ RelTold(Tell(c, p, info)) <=> RelTold(c) \/ p \in {"REL_IND", "REL_CONF"}
         /\ EstTold(Tell(c, p, info)) <=> EstTold(c) \/ p \in {"EST_IND", "EST_CONF"}
  <1> DEFINE x == [prim |-> p, info |-> info]
             d == Tell(c, p, info)
             n == Len(c.l3)
  <1>1. c.l3 \in Prims
    BY DEF Context
  <1>2. d.dl = c.dl /\ d.l3 = Append(c.l3, x)
    BY DEF Context, Tell
  <1>3. /\ n \in Nat
        /\ DOMAIN c.l3 = 1 .. n
        /\ DOMAIN d.l3 = 1 .. n + 1
        /\ d.l3[n + 1] = x
        /\ \A i \in 1 .. n : d.l3[i] = c.l3[i]
    BY <1>1, <1>2 DEF Prims
  <1>4. x.prim = p
    OBVIOUS
  <1> HIDE DEF d, x, n
  <1>5. RelTold(d) <=> RelTold(c) \/ p \in {"REL_IND", "REL_CONF"}
    BY <1>3, <1>4 DEF RelTold
  <1>6. EstTold(d) <=> EstTold(c) \/ p \in {"EST_IND", "EST_CONF"}
    BY <1>3, <1>4 DEF EstTold
  <1>7. QED
    BY <1>2, <1>5, <1>6 DEF d

\* A primitive that is not about the link leaves the link alone (MDL errors, suspension).
LEMMA TellKeeps ==
  ASSUME NEW c \in Context
  PROVE  /\ Keeps(c, c)
         /\ Keeps(c, MdlError(c))
         /\ Keeps(c, TellSimple(c, "SUSP_CONF"))
  <1>1. Empty \in Carried
    BY DEF Carried
  <1>2. MdlError(c) \in Context /\ TellSimple(c, "SUSP_CONF") \in Context
    BY <1>1, TellType
  <1>3. QED
    BY <1>2, TellPrims DEF Keeps, Moves, MdlError, TellSimple

\* A handler that goes idle and then tells of the release ends the link.
LEMMA TellEnds ==
  ASSUME NEW c \in Context, c.dl.state = "IDLE", NEW p \in {"REL_IND", "REL_CONF"}
  PROVE  Ends(TellSimple(c, p))
  <1>1. Empty \in Carried
    BY DEF Carried
  <1>2. TellSimple(c, p) \in Context
    BY <1>1, TellType
  <1>3. QED
    BY <1>2, TellPrims DEF Ends, TellSimple

\* A handler that establishes and then tells of it begins the link.
LEMMA TellBegins ==
  ASSUME NEW c \in Context, c.dl.state \in Established, ~RelTold(c),
         NEW p \in {"EST_IND", "EST_CONF"}, NEW info \in Carried
  PROVE  Begins(Tell(c, p, info))
  <1>1. Tell(c, p, info) \in Context
    BY TellType
  <1>2. QED
    BY <1>1, TellPrims DEF Begins

\* Sending a frame leaves the link and the outstanding command alone.
LEMMA SendKeeps ==
  ASSUME NEW c \in Context, NEW f \in Frame
  PROVE  Keeps(c, Send(c, f))
  <1>1. /\ Send(c, f).dl.v_send = c.dl.v_send
        /\ Send(c, f).dl.tx_hist = c.dl.tx_hist
    BY DEF Context, Datalink, Send
  <1>2. QED
    BY <1>1, QuietSend, QuietMoves DEF Keeps

\* Starting and stopping T200 leaves the link and the outstanding command alone.
LEMMA TimerKeeps ==
  ASSUME NEW c \in Context
  PROVE  Keeps(c, StartT200(c)) /\ Keeps(c, StopT200(c))
  <1>1. /\ StartT200(c).dl.v_send = c.dl.v_send
        /\ StartT200(c).dl.tx_hist = c.dl.tx_hist
        /\ StartT200(c).dl.state = c.dl.state
        /\ StartT200(c).l3 = c.l3
    BY DEF Context, Datalink, StartT200
  <1>2. /\ StopT200(c).dl.v_send = c.dl.v_send
        /\ StopT200(c).dl.tx_hist = c.dl.tx_hist
        /\ StopT200(c).dl.state = c.dl.state
        /\ StopT200(c).l3 = c.l3
    BY DEF Context, Datalink, StopT200
  <1>3. QED
    BY <1>1, <1>2, StartStop DEF Keeps, Moves, RelTold, EstTold

\* The answers of a receiver leave the link and the outstanding command alone.
LEMMA AnswerKeeps ==
  ASSUME NEW c \in Context, NEW f \in Frame, NEW pf \in BOOLEAN, NEW cmd \in BOOLEAN
  PROVE  /\ f.type # "I" => Keeps(c, SendUa(c, f))
         /\ Keeps(c, SendDm(c, f))
         /\ Keeps(c, SendRr(c, pf, cmd))
         /\ Keeps(c, SendRej(c, pf))
         /\ Keeps(c, AnswerPoll(c, f))
  <1>1. f.pf \in BOOLEAN /\ (f.type # "I" => f.info \in Carried)
    BY DEF Frame
  <1>2. c.dl.v_recv \in Seqno
    BY DEF Context, Datalink
  <1>3. Empty \in Carried
    BY DEF Carried
  <1>4. f.type # "I" => Keeps(c, SendUa(c, f))
    BY <1>1, FrameTypes, SendKeeps DEF SendUa
  <1>5. Keeps(c, SendDm(c, f))
    BY <1>1, <1>3, FrameTypes, SendKeeps DEF SendDm
  <1>6. \A p \in BOOLEAN, m \in BOOLEAN : Keeps(c, SendRr(c, p, m))
    BY <1>2, FrameTypes, SendKeeps DEF SendRr
  <1>7. Keeps(c, SendRej(c, pf))
    BY <1>2, FrameTypes, SendKeeps DEF SendRej
  <1>8. Keeps(c, AnswerPoll(c, f))
    BY <1>6, TellKeeps DEF AnswerPoll
  <1>9. QED
    BY <1>4, <1>5, <1>6, <1>7, <1>8

\* lapd_dl_newstate tells layer 3 nothing.
LEMMA NewStateMoves ==
  ASSUME NEW c \in Context, NEW s \in State
  PROVE  /\ Moves(c, NewState(c, s), s)
         /\ NewState(c, s).dl.v_send = c.dl.v_send
         /\ NewState(c, s).dl.tx_hist = c.dl.tx_hist
  <1>1. /\ NewState(c, s).dl.state = s
        /\ NewState(c, s).dl.v_send = c.dl.v_send
        /\ NewState(c, s).dl.tx_hist = c.dl.tx_hist
        /\ NewState(c, s).l3 = c.l3
    BY DEF Context, Datalink, NewState
  <1>2. QED
    BY <1>1, NewStateType DEF Moves, RelTold, EstTold

\* Flushing queues and history tells layer 3 nothing.
LEMMA FlushMoves ==
  ASSUME NEW c \in Context
  PROVE  /\ Moves(c, FlushHist(c), c.dl.state)
         /\ Moves(c, FlushTx(c), c.dl.state)
         /\ Moves(c, FlushSend(c), c.dl.state)
         /\ Moves(c, ResetSeqnos(c), c.dl.state)
         /\ Moves(c, Discard(c), c.dl.state)
  <1>1. /\ FlushHist(c).dl.state = c.dl.state /\ FlushHist(c).l3 = c.l3
        /\ FlushTx(c).dl.state = c.dl.state /\ FlushTx(c).l3 = c.l3
        /\ FlushSend(c).dl.state = c.dl.state /\ FlushSend(c).l3 = c.l3
    BY DEF Context, Datalink, FlushHist, FlushTx, FlushSend
  <1>2. /\ ResetSeqnos(c).dl.state = c.dl.state /\ ResetSeqnos(c).l3 = c.l3
        /\ Discard(c).dl.state = c.dl.state /\ Discard(c).l3 = c.l3
    BY DEF Context, Datalink, ResetSeqnos, Discard
  <1>3. 0 \in Seqno
    BY DEF Seqno, VRange
  <1>4. ResetSeqnos(c) \in Context
    BY <1>3 DEF Context, Datalink, ResetSeqnos
  <1>5. Discard(c) \in Context
    BY SequenceTypes DEF Context, Datalink, Discard
  <1>6. QED
    BY <1>1, <1>2, <1>4, <1>5, FlushType DEF Moves, RelTold, EstTold

-----------------------------------------------------------------------------
(* Frames from layer 1, handler by handler.                                 *)

\* Out of a state in which nothing is outstanding the new state is IDLE.
LEMMA IdleMoves ==
  ASSUME NEW c \in Context
  PROVE  Moves(c, NewState(c, "IDLE"), "IDLE")
  BY NewStateMoves DEF State

\* Setting or clearing the sequence error condition leaves the link alone.
LEMMA SetSeqErr ==
  ASSUME NEW c \in Context, NEW n \in 0..2
  PROVE  Keeps(c, [c EXCEPT !.dl.seq_err_cond = n])
  <1> DEFINE d == [c EXCEPT !.dl.seq_err_cond = n]
  <1>1. d \in Context
    BY DEF Context, Datalink
  <1>2. /\ d.dl.state = c.dl.state /\ d.dl.v_send = c.dl.v_send
        /\ d.dl.tx_hist = c.dl.tx_hist /\ d.l3 = c.l3
    BY DEF Context, Datalink
  <1> HIDE DEF d
  <1>3. Keeps(c, d)
    BY <1>1, <1>2 DEF Keeps, Moves, RelTold, EstTold
  <1>4. QED
    BY <1>3 DEF d

\* The end of lapd_rx_u_sabm begins a link, whatever the state before.
LEMMA AcceptSabmBegins ==
  ASSUME NEW c \in Context, ~RelTold(c), NEW f \in Frame, f.type = "SABM"
  PROVE  Begins(AcceptSabm(c, f))
  <1> DEFINE a == FlushHist(ResetSeqnos(SendUa(c, f)))
             d == NewState(a, "MF_EST")
             stored == d.dl.mode = "NETWORK" /\ f.info # Empty
             x == IF stored THEN f.info ELSE d.dl.cont_res
             e == [d EXCEPT !.dl.cont_res = x]
  <1>1. AcceptSabm(c, f) = Tell(e, "EST_IND", f.info)
    BY DEF AcceptSabm
  <1>2. f.info \in Carried
    BY DEF Frame
  <1>3. Moves(c, a, c.dl.state)
    <2>1. Moves(c, SendUa(c, f), c.dl.state)
      BY AnswerKeeps DEF Keeps
    <2>2. QED
      BY <2>1, FlushMoves DEF Moves
  <1>4. Moves(a, d, "MF_EST")
    BY <1>3, NewStateMoves DEF Moves, State
  <1>5. d \in Context /\ d.dl.state = "MF_EST" /\ ~RelTold(d)
    BY <1>3, <1>4 DEF Moves
  <1> HIDE DEF a, d
  <1>6. x \in Content \cup {Null}
    BY <1>2, <1>5 DEF Context, Datalink, Carried
  <1> HIDE DEF x
  <1>7. e \in Context
    BY <1>5, <1>6 DEF Context, Datalink
  <1>8. e.dl.state = "MF_EST" /\ e.l3 = d.l3
    BY <1>5 DEF Context, Datalink
  <1> HIDE DEF e
  <1>9. ~RelTold(e)
    BY <1>5, <1>8 DEF RelTold
  <1>10. QED
    BY <1>1, <1>2, <1>7, <1>8, <1>9, TellBegins DEF Established

\* lapd_rx_u_sabm in every state: idle, collision, established, recovering, releasing.
LEMMA SabmFine ==
  ASSUME NEW c, NEW f \in Frame, Starts(c), f.type = "SABM"
  PROVE  Fine(c.dl.state, lapd_rx_u_sabm(c, f))
  <1> DEFINE b == [c EXCEPT !.dl.seq_err_cond = 0]
             r == lapd_rx_u_sabm(c, f)
  <1>1. c \in Context /\ ~RelTold(c) /\ ~EstTold(c) /\ c.dl.state \in State
    BY DEF Starts, Context, Datalink
  <1>2. Keeps(c, b)
    <2>1. 0 \in 0..2
      OBVIOUS
    <2>2. QED
      BY <1>1, <2>1, SetSeqErr, Zenon
  <1>3. b \in Context /\ b.dl.state = c.dl.state /\ ~RelTold(b) /\ ~EstTold(b)
    BY <1>1, <1>2 DEF Keeps, Moves
  <1>4. r = CASE b.dl.state = "IDLE" -> AcceptSabm(b, f)
              [] b.dl.state = "TIMER_RECOV" ->
                   IF f.info # Empty THEN SendDm(MdlError(b), f)
                                     ELSE AcceptSabm(StopT200(b), f)
              [] b.dl.state = "MF_EST" -> RxSabmEstablished(b, f)
              [] b.dl.state = "DISC_SENT" ->
                   TellSimple(StopT200(SendDm(b, f)), "EST_IND")
              [] b.dl.state = "SABM_SENT" -> RxSabmCollision(b, f)
    BY DEF lapd_rx_u_sabm
  <1> HIDE DEF b, r
  <1>5. Begins(AcceptSabm(b, f))
    BY <1>3, AcceptSabmBegins
  <1>6. Begins(AcceptSabm(StopT200(b), f))
    BY <1>3, TimerKeeps, AcceptSabmBegins DEF Keeps, Moves
  <1>7. Keeps(b, SendDm(MdlError(b), f))
    <2>1. Keeps(b, MdlError(b))
      BY <1>3, TellKeeps
    <2>2. Keeps(MdlError(b), SendDm(MdlError(b), f))
      BY <2>1, AnswerKeeps DEF Keeps, Moves
    <2>3. QED
      BY <2>1, <2>2, KeepsTransitive
  <1>8. RxSabmEstablished(b, f) = AcceptSabm(b, f)
          \/ Keeps(b, RxSabmEstablished(b, f))
    BY <1>3, TellKeeps, AnswerKeeps DEF RxSabmEstablished
  <1>9. Keeps(b, RxSabmCollision(b, f))
    <2> DEFINE e == IF b.dl.tx_hist[0] \notin {Null, Empty} THEN MdlError(b) ELSE b
    <2>1. Keeps(b, e)
      BY <1>3, TellKeeps
    <2>2. RxSabmCollision(b, f) = SendUa(e, f)
      BY DEF RxSabmCollision
    <2> HIDE DEF e
    <2>3. Keeps(e, SendUa(e, f))
      BY <2>1, AnswerKeeps DEF Keeps, Moves
    <2>4. QED
      BY <2>1, <2>2, <2>3, KeepsTransitive
  <1>10. ASSUME b.dl.state = "DISC_SENT"
         PROVE  Fine(c.dl.state, r)
    <2> DEFINE e == StopT200(SendDm(b, f))
    <2>1. Keeps(b, SendDm(b, f))
      BY <1>3, AnswerKeeps
    <2>2. Keeps(SendDm(b, f), e)
      BY <2>1, TimerKeeps DEF Keeps, Moves
    <2>3. Keeps(c, e)
      BY <1>2, <2>1, <2>2, KeepsTransitive
    <2>4. r = Tell(e, "EST_IND", Empty)
      BY <1>4, <1>10 DEF TellSimple
    <2> HIDE DEF e
    <2>5. e \in Context
      BY <2>3 DEF Keeps, Moves
    <2>6. Empty \in Carried
      BY DEF Carried
    <2>7. r \in Context /\ r.dl = e.dl
      BY <2>4, <2>5, <2>6, TellType, TellPrims
    <2>8. Kept(r.dl) /\ r.dl.state = "DISC_SENT"
      BY <1>3, <1>10, <2>3, <2>7 DEF Keeps, Moves, Kept, Starts
    <2>9. QED
      BY <2>7, <2>8 DEF Fine, Established
  <1>11. Begins(r) \/ Keeps(b, r) \/ b.dl.state = "DISC_SENT"
    BY <1>1, <1>3, <1>4, <1>5, <1>6, <1>7, <1>8, <1>9 DEF State
  <1>12. QED
    BY <1>2, <1>10, <1>11, KeepsTransitive, FineCases DEF r

\* Everything flushed, layer 3 told of the release.
LEMMA ReleaseEnds ==
  ASSUME NEW c \in Context, NEW p \in {"REL_IND", "REL_CONF"}
  PROVE  /\ Ends(TellSimple(NewState(c, "IDLE"), p))
         /\ Ends(TellSimple(NewState(StopT200(c), "IDLE"), p))
         /\ Ends(TellSimple(NewState(FlushSend(FlushTx(StopT200(c))), "IDLE"), p))
  <1>1. ASSUME NEW d \in Context
        PROVE  Ends(TellSimple(NewState(d, "IDLE"), p))
    <2>1. NewState(d, "IDLE") \in Context /\ NewState(d, "IDLE").dl.state = "IDLE"
      BY IdleMoves DEF Moves
    <2>2. QED
      BY <2>1, TellEnds
  <1>2. StopT200(c) \in Context
    BY StartStop
  <1>3. FlushSend(FlushTx(StopT200(c))) \in Context
    BY <1>2, FlushType
  <1>4. QED
    BY <1>1, <1>2, <1>3

\* lapd_rx_u_dm in every state.
LEMMA DmFine ==
  ASSUME NEW c, NEW f \in Frame, Starts(c)
  PROVE  Fine(c.dl.state, lapd_rx_u_dm(c, f))
  <1>1. c \in Context /\ c.dl.state \in State
    BY DEF Starts, Context, Datalink
  <1>2. Keeps(c, c) /\ Keeps(c, MdlError(c))
    BY <1>1, TellKeeps
  <1>3. f.pf \in BOOLEAN
    BY DEF Frame
  <1> DEFINE x == TellSimple(NewState(StopT200(c), "IDLE"), "REL_IND")
             y == TellSimple(NewState(FlushSend(FlushTx(StopT200(c))), "IDLE"), "REL_CONF")
  <1>4. Ends(x) /\ Ends(y)
    BY <1>1, ReleaseEnds
  <1>5. lapd_rx_u_dm(c, f) \in {c, MdlError(c), x, y}
    BY <1>1, <1>3 DEF lapd_rx_u_dm, State
  <1> HIDE DEF x, y
  <1>6. QED
    BY <1>2, <1>4, <1>5, FineCases

\* lapd_rx_u_disc in every state.
LEMMA DiscFine ==
  ASSUME NEW c, NEW f \in Frame, Starts(c), f.type = "DISC"
  PROVE  Fine(c.dl.state, lapd_rx_u_disc(c, f))
  <1> DEFINE a == FlushSend(FlushTx(c))
             b == [a EXCEPT !.dl.seq_err_cond = 0]
             r == lapd_rx_u_disc(c, f)
  <1>1. c \in Context /\ c.dl.state \in State /\ ~RelTold(c) /\ ~EstTold(c)
    BY DEF Starts, Context, Datalink
  <1>2. Moves(c, a, c.dl.state)
    BY <1>1, FlushMoves DEF Moves
  <1>3. Keeps(a, b)
    <2>1. 0 \in 0..2
      OBVIOUS
    <2>2. a \in Context
      BY <1>2 DEF Moves
    <2>3. QED
      BY <2>1, <2>2, SetSeqErr, Zenon
  <1>4. b \in Context /\ b.dl.state = c.dl.state /\ ~RelTold(b) /\ ~EstTold(b)
    BY <1>1, <1>2, <1>3 DEF Moves, Keeps
  <1> DEFINE w == SendDm(b, f)
             x == TellSimple(NewState(StopT200(SendDm(b, f)), "IDLE"), "REL_IND")
             y == TellSimple(NewState(StopT200(SendUa(b, f)), "IDLE"), "REL_IND")
             z == TellSimple(NewState(StopT200(SendUa(b, f)), "IDLE"), "REL_CONF")
  <1>5. r \in {x, y, z} \/ (b.dl.state = "IDLE" /\ r = w)
    BY <1>1, <1>4 DEF lapd_rx_u_disc, State, Established
  <1> HIDE DEF a, b, r
  <1>6. Keeps(b, SendDm(b, f)) /\ SendUa(b, f) \in Context
    BY <1>4, AnswerKeeps DEF Keeps, Moves
  <1>7. Ends(x) /\ Ends(y) /\ Ends(z)
    BY <1>6, ReleaseEnds DEF Keeps, Moves
  <1>8. ASSUME b.dl.state = "IDLE", r = w
        PROVE  Fine(c.dl.state, r)
    BY <1>4, <1>6, <1>8 DEF Keeps, Moves, Fine, Kept, Waiting, Established
  <1> HIDE DEF w, x, y, z
  <1>9. QED
    BY <1>5, <1>7, <1>8, FineCases DEF r

\* lapd_rx_u_ua in every state, the content of the SABM matched or not.
LEMMA UaFine ==
  ASSUME NEW c, NEW f \in Frame, Starts(c)
  PROVE  Fine(c.dl.state, lapd_rx_u_ua(c, f))
  <1> DEFINE a == FlushHist(ResetSeqnos(StopT200(c)))
             n == NewState(a, "MF_EST")
             w == TellSimple(SendI(n), "EST_CONF")
             x == TellSimple(NewState(FlushSend(FlushTx(StopT200(c))), "IDLE"), "REL_CONF")
             y == TellSimple(NewState(FlushSend(FlushTx(StopT200(c))), "IDLE"), "REL_IND")
             r == lapd_rx_u_ua(c, f)
  <1>1. c \in Context /\ c.dl.state \in State /\ ~RelTold(c) /\ ~EstTold(c)
    BY DEF Starts, Context, Datalink
  <1>2. f.pf \in BOOLEAN
    BY DEF Frame
  <1>3. r \in {c, MdlError(c), w, x, y}
    BY <1>1, <1>2 DEF lapd_rx_u_ua, State, Established
  <1>4. Keeps(c, c) /\ Keeps(c, MdlError(c))
    BY <1>1, TellKeeps
  <1>5. Ends(x) /\ Ends(y)
    BY <1>1, ReleaseEnds
  <1>6. a \in Context /\ ~RelTold(a)
    BY <1>1, TimerKeeps, FlushMoves DEF Keeps, Moves
  <1> HIDE DEF a
  <1>7. n \in Context /\ n.dl.state = "MF_EST" /\ ~RelTold(n)
    BY <1>6, NewStateMoves DEF State, Moves
  <1> HIDE DEF n
  <1>8. SendI(n) \in Context /\ SendI(n).dl.state = "MF_EST" /\ ~RelTold(SendI(n))
    BY <1>7, QuietSendI, QuietMoves DEF Moves
  <1>9. Empty \in Carried
    BY DEF Carried
  <1>10. Begins(w)
    BY <1>8, <1>9, TellBegins DEF TellSimple, Established
  <1> HIDE DEF r, w, x, y
  <1>11. QED
    BY <1>3, <1>4, <1>5, <1>10, FineCases DEF r

\* lapd_acknowledge tells layer 3 of an error at most and changes no state.
LEMMA AcknowledgeMoves ==
  ASSUME NEW c \in Context, NEW f \in Frame
  PROVE  Moves(c, Acknowledge(c, f), c.dl.state)
  <1>1. \A d : d.l3 = c.l3 \/ d.l3 = MdlError(c).l3 =>
          (RelTold(d) <=> RelTold(c)) /\ (EstTold(d) <=> EstTold(c))
    <2>1. Keeps(c, MdlError(c))
      BY TellKeeps
    <2>2. QED
      BY <2>1 DEF Keeps, Moves, RelTold, EstTold
  <1>2. QED
    BY <1>1, AcknowledgeType DEF Moves

\* lapd_send_i as a step that moves nowhere.
LEMMA SendIMoves ==
  ASSUME NEW c \in Context
  PROVE  Moves(c, SendI(c), c.dl.state)
  BY QuietSendI, QuietMoves

\* A step inside the established states; what every handler of numbered frames
\* does once the link is up.
Runs(c, d) == \E s \in Established : Moves(c, d, s)

\* What keeps an established link running: acknowledging, sending, answering, timers, V(S) and V(A).
LEMMA RunsSteps ==
  ASSUME NEW c \in Context, c.dl.state \in Established
  PROVE  /\ Runs(c, c)
         /\ Runs(c, SendI(c))
         /\ Runs(c, MdlError(c))
         /\ Runs(c, NewState(c, "MF_EST"))
         /\ Runs(c, NewState(c, "TIMER_RECOV"))
         /\ Runs(c, StopT200(c))
         /\ Runs(c, StartT200(c))
         /\ \A f \in Frame : /\ Runs(c, Acknowledge(c, f))
                             /\ Runs(c, AnswerPoll(c, f))
                             /\ Runs(c, Send(c, f))
         /\ \A pf \in BOOLEAN, cmd \in BOOLEAN : /\ Runs(c, SendRr(c, pf, cmd))
                                                 /\ Runs(c, SendRej(c, pf))
  <1>1. {"MF_EST", "TIMER_RECOV"} \subseteq State \cap Established
    BY DEF State, Established
  <1>2. \A d : Keeps(c, d) => Runs(c, d)
    BY DEF Keeps, Runs
  <1>3. Runs(c, SendI(c))
    BY SendIMoves DEF Runs
  <1>4. Runs(c, NewState(c, "MF_EST")) /\ Runs(c, NewState(c, "TIMER_RECOV"))
    BY <1>1, NewStateMoves DEF Runs
  <1>5. Runs(c, c) /\ Runs(c, MdlError(c))
    BY <1>2, TellKeeps
  <1>6. Runs(c, StopT200(c)) /\ Runs(c, StartT200(c))
    BY <1>2, TimerKeeps
  <1>7. ASSUME NEW f \in Frame
        PROVE  Runs(c, Acknowledge(c, f)) /\ Runs(c, AnswerPoll(c, f)) /\ Runs(c, Send(c, f))
    <2>1. Runs(c, Acknowledge(c, f))
      BY AcknowledgeMoves DEF Runs
    <2>2. Runs(c, AnswerPoll(c, f))
      BY <1>2, AnswerKeeps
    <2>3. Runs(c, Send(c, f))
      BY <1>2, SendKeeps
    <2>4. QED
      BY <2>1, <2>2, <2>3
  <1>8. ASSUME NEW pf \in BOOLEAN, NEW cmd \in BOOLEAN
        PROVE  Runs(c, SendRr(c, pf, cmd)) /\ Runs(c, SendRej(c, pf))
    <2>1. c.dl.v_recv \in Seqno
      BY DEF Context, Datalink
    <2>2. Runs(c, SendRr(c, pf, cmd))
      BY <1>2, <2>1, FrameTypes, SendKeeps DEF SendRr
    <2>3. Runs(c, SendRej(c, pf))
      BY <1>2, <2>1, FrameTypes, SendKeeps DEF SendRej
    <2>4. QED
      BY <2>2, <2>3
  <1>9. QED
    BY <1>3, <1>4, <1>5, <1>6, <1>7, <1>8

\* A step of the same state keeps an established link running.
LEMMA RunsOn ==
  ASSUME NEW c, NEW d, Runs(c, d)
  PROVE  /\ d \in Context /\ d.dl.state \in Established
         /\ \A e : Runs(d, e) => Runs(c, e)
  BY DEF Runs, Moves

\* Writing a field other than the state and the list of primitives.
LEMMA RunsAssign ==
  ASSUME NEW c, NEW d, c \in Context, c.dl.state \in Established, d \in Context,
         d.dl.state = c.dl.state, d.l3 = c.l3
  PROVE  Runs(c, d)
  BY DEF Runs, Moves, RelTold, EstTold

\* An RR keeps an established link running, and may end its recovery.
LEMMA RrRuns ==
  ASSUME NEW c \in Context, NEW f \in Frame, c.dl.state \in Established
  PROVE  Runs(c, RxRr(c, f))
  <1> DEFINE a == Acknowledge(c, f)
             n == f.nr
             d == [a EXCEPT !.dl.v_send = n]
             e == IF ~f.cmd /\ f.pf /\ a.dl.state = "TIMER_RECOV"
                  THEN LeaveRecovery(d) ELSE AnswerPoll(a, f)
  <1>1. Runs(c, a)
    BY RunsSteps
  <1>2. n \in Seqno
    BY DEF Frame
  <1>3. RxRr(c, f) = SendI(e)
    BY DEF RxRr
  <1>4. a \in Context /\ a.dl.state \in Established
    BY <1>1, RunsOn
  <1> HIDE DEF a, n
  <1>5. d \in Context /\ d.dl.state = a.dl.state /\ d.l3 = a.l3
    BY <1>2, <1>4 DEF Context, Datalink
  <1> HIDE DEF d
  <1>6. Runs(a, d)
    BY <1>4, <1>5, RunsAssign
  <1>7. Runs(d, StopT200(d))
    BY <1>6, RunsOn, RunsSteps
  <1>8. Runs(StopT200(d), LeaveRecovery(d))
    BY <1>7, RunsOn, RunsSteps DEF LeaveRecovery
  <1>9. Runs(a, LeaveRecovery(d))
    BY <1>6, <1>7, <1>8, RunsOn
  <1>10. Runs(a, AnswerPoll(a, f))
    BY <1>4, RunsSteps
  <1>11. Runs(a, e)
    BY <1>9, <1>10
  <1> HIDE DEF e
  <1>12. Runs(e, SendI(e))
    BY <1>11, RunsOn, RunsSteps
  <1>13. QED
    BY <1>1, <1>3, <1>11, <1>12, RunsOn

\* A REJ keeps an established link running, and may end its recovery.
LEMMA RejRuns ==
  ASSUME NEW c \in Context, NEW f \in Frame, c.dl.state \in Established
  PROVE  Runs(c, RxRej(c, f))
  <1> DEFINE a == Acknowledge(c, f)
             n == f.nr
             d == [a EXCEPT !.dl.v_send = n, !.dl.v_ack = n]
             final == ~f.cmd /\ f.pf
             e == CASE d.dl.state # "TIMER_RECOV" /\ final -> MdlError(StopT200(d))
                    [] d.dl.state # "TIMER_RECOV" /\ ~final -> AnswerPoll(StopT200(d), f)
                    [] d.dl.state = "TIMER_RECOV" /\ final -> LeaveRecovery(d)
                    [] d.dl.state = "TIMER_RECOV" /\ ~final -> AnswerPoll(d, f)
  <1>1. Runs(c, a)
    BY RunsSteps
  <1>2. n \in Seqno
    BY DEF Frame
  <1>3. RxRej(c, f) = SendI(e)
    BY DEF RxRej
  <1>4. a \in Context /\ a.dl.state \in Established
    BY <1>1, RunsOn
  <1> HIDE DEF a, n, final
  <1>5. d \in Context /\ d.dl.state = a.dl.state /\ d.l3 = a.l3
    BY <1>2, <1>4 DEF Context, Datalink
  <1> HIDE DEF d
  <1>6. Runs(a, d)
    BY <1>4, <1>5, RunsAssign
  <1>7. Runs(d, StopT200(d)) /\ Runs(d, AnswerPoll(d, f))
    BY <1>6, RunsOn, RunsSteps
  <1>8. /\ Runs(StopT200(d), LeaveRecovery(d))
        /\ Runs(StopT200(d), MdlError(StopT200(d)))
        /\ Runs(StopT200(d), AnswerPoll(StopT200(d), f))
    BY <1>7, RunsOn, RunsSteps DEF LeaveRecovery
  <1>9. e \in {MdlError(StopT200(d)), AnswerPoll(StopT200(d), f), LeaveRecovery(d),
               AnswerPoll(d, f)}
    OBVIOUS
  <1> HIDE DEF e
  <1>10. Runs(d, e)
    BY <1>7, <1>8, <1>9, RunsOn
  <1>11. Runs(e, SendI(e))
    BY <1>10, RunsOn, RunsSteps
  <1>12. QED
    BY <1>1, <1>3, <1>6, <1>10, <1>11, RunsOn

\* lapd_rx_s in every state.
LEMMA SupervisoryFine ==
  ASSUME NEW c, NEW f \in Frame, Starts(c), f.type \in {"RR", "REJ"}
  PROVE  Fine(c.dl.state, lapd_rx_s(c, f))
  <1> DEFINE d == IF ~f.cmd /\ f.pf /\ c.dl.state # "TIMER_RECOV" THEN MdlError(c) ELSE c
             r == lapd_rx_s(c, f)
  <1>1. c \in Context /\ c.dl.state \in State
    BY DEF Starts, Context, Datalink
  <1>2. Keeps(c, d)
    BY <1>1, TellKeeps
  <1>3. r = CASE c.dl.state = "IDLE" -> IF f.pf THEN SendDm(d, f) ELSE d
              [] c.dl.state \in {"SABM_SENT", "DISC_SENT"} -> d
              [] c.dl.state \in Established ->
                   IF f.type = "RR" THEN RxRr(d, f) ELSE RxRej(d, f)
    BY DEF lapd_rx_s
  <1> HIDE DEF d
  <1>4. d \in Context /\ d.dl.state = c.dl.state
    BY <1>2 DEF Keeps, Moves
  <1>5. Keeps(c, SendDm(d, f))
    BY <1>2, <1>4, AnswerKeeps, KeepsTransitive
  <1>6. CASE c.dl.state \notin Established
    <2>1. r \in {d, SendDm(d, f)}
      BY <1>1, <1>3, <1>6 DEF State, Established
    <2>2. QED
      BY <1>2, <1>5, <2>1, FineCases
  <1>7. CASE c.dl.state \in Established
    <2>1. r \in {RxRr(d, f), RxRej(d, f)}
      BY <1>1, <1>3, <1>7 DEF State, Established
    <2>2. Runs(d, r)
      BY <1>4, <1>7, <2>1, RrRuns, RejRuns
    <2>3. \E s \in Established : Moves(c, r, s)
      BY <1>2, <2>2 DEF Runs, Moves, Keeps
    <2>4. QED
      BY <1>7, <2>3, FineCases
  <1>8. QED
    BY <1>6, <1>7

\* An I frame out of sequence keeps the link running.
LEMMA OutOfSequenceRuns ==
  ASSUME NEW c \in Context, NEW f \in Frame, c.dl.state \in Established
  PROVE  Runs(c, OutOfSequence(c, f))
  <1> DEFINE b == [c EXCEPT !.dl.seq_err_cond = 1]
             x == [c EXCEPT !.dl.seq_err_cond = 2]
             d == IF c.dl.seq_err_cond = 1 THEN x ELSE SendRej(b, f.pf)
  <1>1. OutOfSequence(c, f) = SendI(Acknowledge(d, f))
    BY DEF OutOfSequence
  <1>2. b \in Context /\ b.dl.state = c.dl.state /\ b.l3 = c.l3
    BY DEF Context, Datalink
  <1>3. x \in Context /\ x.dl.state = c.dl.state /\ x.l3 = c.l3
    BY DEF Context, Datalink
  <1>4. f.pf \in BOOLEAN
    BY DEF Frame
  <1> HIDE DEF b, x
  <1>5. Runs(c, b) /\ Runs(c, x)
    BY <1>2, <1>3, RunsAssign
  <1>6. Runs(b, SendRej(b, f.pf))
    BY <1>4, <1>5, RunsOn, RunsSteps
  <1>7. Runs(c, d)
    BY <1>5, <1>6, RunsOn
  <1> HIDE DEF d
  <1>8. Runs(d, Acknowledge(d, f))
    BY <1>7, RunsOn, RunsSteps
  <1>9. Runs(Acknowledge(d, f), SendI(Acknowledge(d, f)))
    BY <1>8, RunsOn, RunsSteps
  <1>10. QED
    BY <1>1, <1>7, <1>8, <1>9, RunsOn

\* Taking a segment into rcv_buffer, and delivering a complete message, keeps the link running.
LEMMA DeliverRuns ==
  ASSUME NEW c \in Context, NEW seg \in Segment, c.dl.state \in Established
  PROVE  Runs(c, Deliver(c, seg))
  <1> DEFINE full == Len(c.dl.rcv_buffer) + 1 > MaxF
             buf == IF full THEN c.dl.rcv_buffer ELSE Append(c.dl.rcv_buffer, seg)
             del == Append(c.data, buf)
             x == [c EXCEPT !.dl.rcv_buffer = buf]
             y == [c EXCEPT !.dl.rcv_buffer = <<>>, !.data = del]
  <1>1. Deliver(c, seg) \in {x, y}
    BY DEF Deliver
  <1>2. c.dl.rcv_buffer \in Assembly /\ c.data \in Deliveries
    BY DEF Context, Datalink
  <1> HIDE DEF full
  <1>3. buf \in Assembly
    BY <1>2, SequenceTypes
  <1> HIDE DEF buf
  <1>4. del \in Deliveries
    BY <1>2, <1>3, SequenceTypes
  <1> HIDE DEF del
  <1>5. x \in Context /\ x.dl.state = c.dl.state /\ x.l3 = c.l3
    BY <1>3 DEF Context, Datalink
  <1>6. y \in Context /\ y.dl.state = c.dl.state /\ y.l3 = c.l3
    BY <1>4, SequenceTypes DEF Context, Datalink
  <1> HIDE DEF x, y
  <1>7. QED
    BY <1>1, <1>5, <1>6, RunsAssign

\* The rewriting of N(R) in the frames that wait leaves them frames.
LEMMA RewrittenFrames ==
  ASSUME NEW q \in Frames, NEW nr \in Seqno
  PROVE  [i \in DOMAIN q |-> IF q[i].type = "I" THEN [q[i] EXCEPT !.nr = nr]
                                               ELSE q[i]] \in Frames
  <1>1. \A f \in Frame : [f EXCEPT !.nr = nr] \in Frame
    BY DEF Frame
  <1>2. \A i \in DOMAIN q : q[i] \in Frame
    BY DEF Frames
  <1>3. QED
    BY <1>1, <1>2 DEF Frames

\* update_pending_frames, or the RR sent instead, keeps the link running.
LEMMA UpdatePendingRuns ==
  ASSUME NEW c \in Context, c.dl.state \in Established
  PROVE  Runs(c, UpdatePending(c))
  <1> DEFINE nr == c.dl.v_recv
             q == [i \in DOMAIN c.dl.tx_queue |->
                     IF c.dl.tx_queue[i].type = "I"
                     THEN [c.dl.tx_queue[i] EXCEPT !.nr = nr]
                     ELSE c.dl.tx_queue[i]]
             d == [c EXCEPT !.dl.tx_queue = q]
  <1>1. UpdatePending(c) = IF IsPending(c.dl) THEN d ELSE SendRr(c, FALSE, FALSE)
    BY DEF UpdatePending
  <1>2. nr \in Seqno /\ c.dl.tx_queue \in Frames
    BY DEF Context, Datalink
  <1>3. q \in Frames
    BY <1>2, RewrittenFrames
  <1> HIDE DEF q
  <1>4. d \in Context /\ d.dl.state = c.dl.state /\ d.l3 = c.l3
    BY <1>3 DEF Context, Datalink
  <1> HIDE DEF d
  <1>5. Runs(c, d) /\ Runs(c, SendRr(c, FALSE, FALSE))
    BY <1>4, RunsAssign, RunsSteps
  <1>6. QED
    BY <1>1, <1>5

\* An I frame in sequence keeps the link running.
LEMMA InSequenceRuns ==
  ASSUME NEW c \in Context, NEW f \in Frame, c.dl.state \in Established,
         f.info \in Segment
  PROVE  Runs(c, InSequence(c, f))
  <1> DEFINE n == inc_mod(c.dl.v_recv, VRange)
             b == [c EXCEPT !.dl.seq_err_cond = 0, !.dl.v_recv = n]
             x == Deliver(Acknowledge(b, f), f.info)
             d == SendI(x)
  <1>1. InSequence(c, f) \in {SendI(SendRr(x, TRUE, FALSE)), d, UpdatePending(d)}
    BY DEF InSequence
  <1>2. n \in Seqno
    BY DEF Context, Datalink, inc_mod, VRange, Seqno
  <1> HIDE DEF n
  <1>3. b \in Context /\ b.dl.state = c.dl.state /\ b.l3 = c.l3
    <2> DEFINE y == [c.dl EXCEPT !.seq_err_cond = 0, !.v_recv = n]
    <2>1. b \in Context
      <3>1. c.dl \in Datalink
        BY DEF Context
      <3>2. y \in Datalink
        <4> DEFINE z == [c.dl EXCEPT !.v_recv = n]
        <4>1. z \in Datalink
          BY <1>2, <3>1 DEF Datalink
        <4>2. y = [z EXCEPT !.seq_err_cond = 0]
          BY <3>1 DEF Datalink
        <4> HIDE DEF z
        <4>3. 0 \in 0..2
          OBVIOUS
        <4>4. QED
          BY ZenonT(40), <4>1, <4>2, <4>3 DEF Datalink
      <3>3. b = [c EXCEPT !.dl = y]
        BY DEF Context
      <3> HIDE DEF y
      <3>4. QED
        BY <3>2, <3>3 DEF Context
    <2>2. b.dl.state = c.dl.state /\ b.l3 = c.l3
      BY DEF Context, Datalink
    <2>3. QED
      BY <2>1, <2>2
  <1> HIDE DEF b
  <1>4. Runs(c, b)
    BY <1>3, RunsAssign
  <1>5. Runs(b, Acknowledge(b, f))
    BY <1>4, RunsOn, RunsSteps
  <1>6. Runs(Acknowledge(b, f), x)
    BY <1>5, RunsOn, DeliverRuns
  <1>7. Runs(c, x)
    BY <1>4, <1>5, <1>6, RunsOn
  <1> HIDE DEF x
  <1>8. Runs(x, d) /\ Runs(x, SendRr(x, TRUE, FALSE))
    BY <1>7, RunsOn, RunsSteps
  <1>9. Runs(SendRr(x, TRUE, FALSE), SendI(SendRr(x, TRUE, FALSE)))
    BY <1>8, RunsOn, RunsSteps
  <1>10. Runs(d, UpdatePending(d))
    BY <1>8, RunsOn, UpdatePendingRuns
  <1> HIDE DEF d
  <1>11. QED
    BY <1>1, <1>7, <1>8, <1>9, <1>10, RunsOn

\* lapd_rx_i in every state.
LEMMA InformationFine ==
  ASSUME NEW c, NEW f \in Frame, Starts(c), f.type = "I"
  PROVE  Fine(c.dl.state, lapd_rx_i(c, f))
  <1> DEFINE r == lapd_rx_i(c, f)
  <1>1. c \in Context /\ c.dl.state \in State
    BY DEF Starts, Context, Datalink
  <1>2. Keeps(c, c) /\ Keeps(c, MdlError(c)) /\ Keeps(c, SendDm(c, f))
    BY <1>1, TellKeeps, AnswerKeeps
  <1>3. CASE f.info \notin Segment \/ c.dl.state \notin Established
    <2>1. r \in {c, MdlError(c), SendDm(c, f)}
      BY <1>1, <1>3 DEF lapd_rx_i, State, Established
    <2>2. QED
      BY <1>2, <2>1, FineCases
  <1>4. CASE f.info \in Segment /\ c.dl.state \in Established
    <2>1. r \in {OutOfSequence(c, f), InSequence(c, f)}
      BY <1>1, <1>4 DEF lapd_rx_i, State, Established
    <2>2. Runs(c, r)
      BY <1>1, <1>4, <2>1, OutOfSequenceRuns, InSequenceRuns
    <2>3. QED
      BY <1>4, <2>2, FineCases DEF Runs
  <1>5. QED
    BY <1>3, <1>4

\* Any frame in any state: the sum of the above.
LEMMA FrameFine ==
  ASSUME NEW c, NEW f \in Frame, Starts(c)
  PROVE  Fine(c.dl.state, lapd_ph_data_ind(c, f))
  <1> DEFINE r == lapd_ph_data_ind(c, f)
  <1>1. c \in Context
    BY DEF Starts
  <1>2. Fine(c.dl.state, MdlError(c))
    BY <1>1, TellKeeps, FineCases
  <1>3. f.type \in {"SABM", "UA", "DM", "DISC", "I", "RR", "REJ"}
    BY DEF Frame
  <1>4. CASE NotPermitted(c.dl, f)
    <2>1. f.type = "SABM"
      BY <1>4 DEF NotPermitted
    <2>2. r = MdlError(c)
      BY <1>4, <2>1 DEF lapd_ph_data_ind
    <2>3. QED
      BY <1>2, <2>2
  <1>5. CASE ~NotPermitted(c.dl, f)
    <2>1. r = CASE f.type = "SABM" -> lapd_rx_u_sabm(c, f)
                [] f.type = "DM" -> lapd_rx_u_dm(c, f)
                [] f.type = "DISC" -> lapd_rx_u_disc(c, f)
                [] f.type = "UA" -> lapd_rx_u_ua(c, f)
                [] f.type \in {"RR", "REJ"} -> lapd_rx_s(c, f)
                [] f.type = "I" -> lapd_rx_i(c, f)
      BY <1>3, <1>5 DEF lapd_ph_data_ind
    <2> HIDE DEF r
    <2>2. QED
      BY <1>3, <2>1, SabmFine, DmFine, DiscFine, UaFine, SupervisoryFine,
         InformationFine DEF r
  <1>6. QED
    BY <1>4, <1>5

-----------------------------------------------------------------------------
(* The timer.                                                               *)

\* A retransmission of SABM or DISC finds its information field in the history and leaves it there.
LEMMA RetryKeeps ==
  ASSUME NEW c \in Context, Kept(c.dl), c.dl.state \in Waiting
  PROVE  Keeps(c, RetryUnnumbered(c))
  <1> DEFINE h == do_mod(c.dl.v_send, RangeHist)
             type == IF c.dl.state = "SABM_SENT" THEN "SABM" ELSE "DISC"
             f == UFrame(type, TRUE, TRUE, c.dl.tx_hist[h])
             a == Send(c, f)
             n == a.dl.retrans_ctr + 1
             b == [a EXCEPT !.dl.retrans_ctr = n]
  <1>1. c.dl.v_send = 0 /\ c.dl.tx_hist[0] \in Carried
    BY DEF Kept
  <1>2. h = 0
    BY <1>1, RangeHistValues DEF do_mod
  <1>3. f \in Frame
    BY <1>1, <1>2, FrameTypes
  <1>4. RetryUnnumbered(c) = StartT200(b)
    BY DEF RetryUnnumbered, Resend
  <1> HIDE DEF f
  <1>5. Keeps(c, a)
    BY <1>3, SendKeeps
  <1>6. a \in Context
    BY <1>5 DEF Keeps, Moves
  <1>7. n \in Nat
    BY <1>6 DEF Context, Datalink
  <1> HIDE DEF a, n
  <1>8. b \in Context
    BY <1>6, <1>7 DEF Context, Datalink
  <1>9. /\ b.dl.state = a.dl.state /\ b.l3 = a.l3
        /\ b.dl.v_send = a.dl.v_send /\ b.dl.tx_hist = a.dl.tx_hist
    BY <1>6 DEF Context, Datalink
  <1> HIDE DEF b
  <1>10. Keeps(a, b)
    BY <1>8, <1>9 DEF Keeps, Moves, RelTold, EstTold
  <1>11. Keeps(b, StartT200(b))
    BY <1>8, TimerKeeps
  <1>12. QED
    BY <1>4, <1>5, <1>10, <1>11, KeepsTransitive

\* Giving up an establishment or a release ends the link.
LEMMA GiveUpEnds ==
  ASSUME NEW c \in Context, NEW p \in {"REL_IND", "REL_CONF"}
  PROVE  Ends(TellSimple(GiveUp(c), p))
  <1> DEFINE d == NewState(FlushSend(FlushTx(c)), "IDLE")
  <1>1. d \in Context /\ d.dl.state = "IDLE"
    BY FlushType, IdleMoves DEF Moves
  <1> HIDE DEF d
  <1>2. MdlError(d) \in Context /\ MdlError(d).dl.state = "IDLE"
    BY <1>1, TellKeeps DEF Keeps, Moves
  <1>3. QED
    BY <1>2, TellEnds DEF GiveUp, d

\* Repeating the last I frame, or polling with RR, keeps the link running.
LEMMA PollPeerRuns ==
  ASSUME NEW c \in Context, c.dl.state \in Established
  PROVE  Runs(c, PollPeer(c))
  <1> DEFINE vs == sub_mod(c.dl.v_send, 1, VRange)
             h == do_mod(vs, RangeHist)
             seg == c.dl.tx_hist[h]
             f == IFrame(TRUE, vs, c.dl.v_recv, seg)
  <1>1. PollPeer(c) = IF seg # Null THEN Send(c, f)
                      ELSE IF c.dl.seq_err_cond = 0 THEN SendRr(c, TRUE, TRUE) ELSE c
    BY DEF PollPeer
  <1>2. c.dl.v_send \in Int /\ c.dl.v_recv \in Seqno
    BY DEF Context, Datalink, Seqno
  <1>3. vs \in Seqno /\ vs \in Int
    BY <1>2, SeqnoOps DEF Seqno
  <1> HIDE DEF vs
  <1>4. h \in Slot
    BY <1>3, SlotOps
  <1> HIDE DEF h
  <1>5. seg \in Info \cup {Null}
    BY <1>4 DEF Context, Datalink
  <1> HIDE DEF seg
  <1>6. seg # Null => f \in Frame
    BY <1>2, <1>3, <1>5, FrameTypes
  <1> HIDE DEF f
  <1>7. QED
    BY <1>1, <1>6, RunsSteps

\* A timeout in timer recovery keeps the link running, the limit N200 reached or not.
LEMMA RecoverRuns ==
  ASSUME NEW c \in Context, c.dl.state \in Established
  PROVE  Runs(c, Recover(c))
  <1> DEFINE n == c.dl.retrans_ctr + 1
             d == [c EXCEPT !.dl.retrans_ctr = n]
  <1>1. Recover(c) \in {StartT200(PollPeer(d)), MdlError(d)}
    BY DEF Recover
  <1>2. n \in Nat
    BY DEF Context, Datalink
  <1> HIDE DEF n
  <1>3. d \in Context
    BY <1>2 DEF Context, Datalink
  <1>4. d.dl.state = c.dl.state /\ d.l3 = c.l3
    BY DEF Context, Datalink
  <1> HIDE DEF d
  <1>5. Runs(c, d)
    BY <1>3, <1>4, RunsAssign
  <1>6. Runs(d, MdlError(d)) /\ Runs(d, PollPeer(d))
    BY <1>5, RunsOn, RunsSteps, PollPeerRuns
  <1>7. Runs(PollPeer(d), StartT200(PollPeer(d)))
    BY <1>6, RunsOn, RunsSteps
  <1>8. QED
    BY <1>1, <1>5, <1>6, <1>7, RunsOn

\* lapd_t200_cb in every state.
LEMMA TimerFine ==
  ASSUME NEW c, Starts(c)
  PROVE  Fine(c.dl.state, lapd_t200_cb(c))
  <1> DEFINE b == StopT200(c)
             r == lapd_t200_cb(c)
             x == [b EXCEPT !.dl.retrans_ctr = 0]
             y == NewState(x, "TIMER_RECOV")
  <1>1. c \in Context /\ c.dl.state \in State
    BY DEF Starts, Context, Datalink
  <1>2. Keeps(c, b)
    BY <1>1, TimerKeeps
  <1>3. b \in Context /\ b.dl.state = c.dl.state /\ Kept(b.dl)
    BY <1>2 DEF Keeps, Moves, Kept, Starts
  <1>4. r \in CASE b.dl.state = "SABM_SENT" -> {TellSimple(GiveUp(b), "REL_IND"),
                                                RetryUnnumbered(b)}
                [] b.dl.state = "DISC_SENT" -> {TellSimple(GiveUp(b), "REL_CONF"),
                                                RetryUnnumbered(b)}
                [] b.dl.state = "MF_EST" -> {Recover(y)}
                [] b.dl.state = "TIMER_RECOV" -> {Recover(b)}
                [] b.dl.state = "IDLE" -> {b}
    BY <1>1, <1>3 DEF lapd_t200_cb, State
  <1> HIDE DEF b, r
  <1>5. CASE b.dl.state \in Waiting
    <2>1. Keeps(b, RetryUnnumbered(b))
      BY <1>3, <1>5, RetryKeeps
    <2>2. /\ Ends(TellSimple(GiveUp(b), "REL_IND"))
          /\ Ends(TellSimple(GiveUp(b), "REL_CONF"))
      BY <1>3, GiveUpEnds
    <2>3. Keeps(b, r) \/ Ends(r)
      BY <1>4, <1>5, <2>1, <2>2 DEF Waiting
    <2>4. QED
      BY <1>2, <2>3, KeepsTransitive, FineCases DEF r
  <1>6. CASE b.dl.state \in Established
    <2>1. x \in Context
      BY <1>3 DEF Context, Datalink
    <2>2. x.dl.state = b.dl.state /\ x.l3 = b.l3
      BY <1>3 DEF Context, Datalink
    <2> HIDE DEF x
    <2>3. Runs(b, x)
      BY <1>3, <1>6, <2>1, <2>2, RunsAssign
    <2>4. Runs(x, y)
      BY <2>3, RunsOn, RunsSteps
    <2>5. Runs(y, Recover(y)) /\ Runs(b, Recover(b))
      BY <1>3, <1>6, <2>4, RunsOn, RecoverRuns
    <2> HIDE DEF y
    <2>6. Runs(b, r)
      BY <1>4, <1>6, <2>3, <2>4, <2>5, RunsOn DEF Established
    <2>7. \E s \in Established : Moves(c, r, s)
      BY <1>2, <2>6 DEF Runs, Moves, Keeps
    <2>8. QED
      BY <1>3, <1>6, <2>7, FineCases DEF r
  <1>7. CASE b.dl.state = "IDLE"
    <2>1. r = b
      BY <1>4, <1>7
    <2>2. QED
      BY <1>2, <2>1, FineCases DEF r
  <1>8. QED
    BY <1>1, <1>3, <1>5, <1>6, <1>7 DEF State, Waiting, Established

-----------------------------------------------------------------------------
(* Requests of layer 3, made in the states that serve them.                 *)

\* Sending the first SABM or DISC stores its information field where V(S) points.
LEMMA StartFine ==
  ASSUME NEW c \in Context, NEW type \in {"SABM", "DISC"}, NEW s \in Waiting,
         NEW info \in Carried, NEW old
  PROVE  Fine(old, Start(c, type, s, info))
  <1> DEFINE hist == [c.dl.tx_hist EXCEPT ![0] = info]
             f == UFrame(type, TRUE, TRUE, info)
             d == [c EXCEPT !.dl.tx_hist[0] = info, !.dl.v_send = 0,
                            !.dl.retrans_ctr = 0]
             e == [c EXCEPT !.dl.tx_hist = hist, !.dl.v_send = 0,
                            !.dl.retrans_ctr = 0]
             n == NewState(d, s)
  <1>1. Start(c, type, s, info) = StartT200(Send(n, f))
    BY DEF Start
  <1>2. f \in Frame
    BY FrameTypes
  <1>3. d = e
    BY DEF Context, Datalink
  <1>4. hist \in [Slot -> Info \cup {Null}] /\ hist[0] = info
    BY SlotOps DEF Context, Datalink, Carried, Info
  <1>5. 0 \in Seqno
    BY DEF Seqno, VRange
  <1> HIDE DEF hist, d, f
  <1>6. e \in Context
    BY <1>4, <1>5 DEF Context, Datalink
  <1>7. e.dl.v_send = 0 /\ e.dl.tx_hist = hist
    BY DEF Context, Datalink
  <1> HIDE DEF e
  <1>8. /\ n \in Context /\ n.dl.state = s
        /\ n.dl.v_send = 0 /\ n.dl.tx_hist[0] = info
    BY <1>3, <1>4, <1>6, <1>7, NewStateMoves DEF Moves, State, Waiting
  <1> HIDE DEF n
  <1>9. Keeps(n, Send(n, f))
    BY <1>2, <1>8, SendKeeps
  <1>10. Keeps(Send(n, f), StartT200(Send(n, f)))
    BY <1>9, TimerKeeps DEF Keeps, Moves
  <1>11. Keeps(n, StartT200(Send(n, f)))
    BY <1>9, <1>10, KeepsTransitive
  <1>12. QED
    BY <1>1, <1>8, <1>11 DEF Keeps, Moves, Fine, Kept, Waiting, Established

\* lapd_est_req, which is served in idle state.
LEMMA EstablishFine ==
  ASSUME NEW c, Starts(c), NEW info \in Carried
  PROVE  Fine(c.dl.state, lapd_est_req(c, info))
  <1>1. Discard(FlushHist(FlushSend(c))) \in Context
    BY FlushMoves DEF Starts, Moves
  <1>2. QED
    BY <1>1, StartFine DEF lapd_est_req, Waiting

\* lapd_data_req, which is served while established.
LEMMA DataFine ==
  ASSUME NEW c, Starts(c), NEW m \in Msg, c.dl.state \in Established
  PROVE  Fine(c.dl.state, lapd_data_req(c, m))
  <1> DEFINE q == Append(c.dl.send_queue, m)
             d == [c EXCEPT !.dl.send_queue = q]
  <1>1. c \in Context
    BY DEF Starts
  <1>2. q \in Messages
    BY <1>1, SequenceTypes DEF Context, Datalink
  <1>3. lapd_data_req(c, m) = SendI(d)
    BY DEF lapd_data_req
  <1> HIDE DEF q
  <1>4. d \in Context /\ d.dl.state = c.dl.state /\ d.l3 = c.l3
    BY <1>1, <1>2 DEF Context, Datalink
  <1> HIDE DEF d
  <1>5. Runs(c, d)
    BY <1>1, <1>4, RunsAssign
  <1>6. Runs(d, SendI(d))
    BY <1>5, RunsOn, RunsSteps
  <1>7. QED
    BY SMTT(40), <1>3, <1>5, <1>6, RunsOn, FineCases DEF Runs

\* lapd_susp_req, which is served while established.
LEMMA SuspendFine ==
  ASSUME NEW c, Starts(c), c.dl.state \in Established
  PROVE  Fine(c.dl.state, lapd_susp_req(c))
  <1> DEFINE back == IF c.dl.send_buffer = Null THEN <<>> ELSE <<c.dl.send_buffer>>
             q == back \o c.dl.send_queue
             d == [c EXCEPT !.dl.send_queue = q, !.dl.send_buffer = Null]
             e == StopT200(FlushTx(d))
  <1>1. c \in Context
    BY DEF Starts
  <1>2. q \in Messages
    BY <1>1 DEF Context, Datalink, Messages
  <1>3. lapd_susp_req(c) = TellSimple(e, "SUSP_CONF")
    BY DEF lapd_susp_req
  <1> HIDE DEF q
  <1>4. d \in Context /\ d.dl.state = c.dl.state /\ d.l3 = c.l3
    BY <1>1, <1>2 DEF Context, Datalink
  <1> HIDE DEF d
  <1>5. Runs(c, d)
    BY <1>1, <1>4, RunsAssign
  <1>6. Runs(d, FlushTx(d))
    BY <1>5, RunsOn, FlushMoves DEF Runs
  <1>7. Runs(FlushTx(d), e)
    BY <1>6, RunsOn, RunsSteps
  <1>8. Runs(e, TellSimple(e, "SUSP_CONF"))
    BY <1>7, RunsOn, TellKeeps DEF Keeps, Runs
  <1> HIDE DEF e
  <1>9. Runs(d, TellSimple(e, "SUSP_CONF"))
    BY <1>6, <1>7, <1>8, RunsOn
  <1>10. Runs(c, TellSimple(e, "SUSP_CONF"))
    BY <1>5, <1>9, RunsOn
  <1>11. QED
    BY <1>3, <1>10, FineCases DEF Runs

\* lapd_res_req, to resume or, also from idle, to reconnect.
LEMMA ResumeFine ==
  ASSUME NEW c, Starts(c), NEW m \in Msg \cup {Null}
  PROVE  Fine(c.dl.state, lapd_res_req(c, m))
  <1> DEFINE a == FlushHist(c)
             d == [a EXCEPT !.dl.send_buffer = m, !.dl.send_out = 0]
  <1>1. a \in Context
    BY FlushType DEF Starts
  <1>2. lapd_res_req(c, m) = Start(Discard(d), "SABM", "SABM_SENT", Empty)
    BY DEF lapd_res_req
  <1> HIDE DEF a
  <1>3. d \in Context
    BY <1>1 DEF Context, Datalink
  <1> HIDE DEF d
  <1>4. Discard(d) \in Context
    BY <1>3, FlushMoves DEF Moves
  <1>5. QED
    BY <1>2, <1>4, StartFine DEF Waiting, Carried

\* lapd_rel_req in every state, local or not.
LEMMA ReleaseFine ==
  ASSUME NEW c, Starts(c), NEW local \in BOOLEAN
  PROVE  Fine(c.dl.state, lapd_rel_req(c, local))
  <1> DEFINE r == lapd_rel_req(c, local)
             x == TellSimple(FlushSend(FlushTx(NewState(StopT200(c), "IDLE"))), "REL_CONF")
             y == Start(FlushHist(c), "DISC", "DISC_SENT", Empty)
  <1>1. c \in Context /\ c.dl.state \in State
    BY DEF Starts, Context, Datalink
  <1>2. \/ c.dl.state = "IDLE" /\ r = TellSimple(c, "REL_CONF")
        \/ r \in {x, c, y}
    BY <1>1 DEF lapd_rel_req, State
  <1>3. Ends(x)
    <2> DEFINE d == NewState(StopT200(c), "IDLE")
    <2>1. d \in Context /\ d.dl.state = "IDLE"
      BY <1>1, StartStop, IdleMoves DEF Moves
    <2>2. FlushSend(FlushTx(d)) \in Context /\ FlushSend(FlushTx(d)).dl.state = "IDLE"
      BY <2>1, FlushMoves DEF Moves
    <2>3. QED
      BY <2>2, TellEnds
  <1>4. Fine(c.dl.state, y)
    BY <1>1, FlushType, StartFine DEF Waiting, Carried
  <1>5. c.dl.state = "IDLE" => Ends(TellSimple(c, "REL_CONF"))
    BY <1>1, TellEnds
  <1>6. Keeps(c, c)
    BY <1>1, TellKeeps
  <1> HIDE DEF r, x, y
  <1>7. QED
    BY <1>2, <1>3, <1>4, <1>5, <1>6, FineCases DEF r

\* lapd_dl_reset leaves the data link idle, with nothing outstanding.
LEMMA ResetIdle ==
  ASSUME NEW c \in Context
  PROVE  lapd_dl_reset(c) \in Context /\ lapd_dl_reset(c).dl.state = "IDLE"
  <1> DEFINE d == NewState(c, "IDLE")
             e == Discard(FlushSend(FlushTx(d)))
  <1>1. d \in Context /\ d.dl.state = "IDLE"
    BY IdleMoves DEF Moves
  <1>2. e \in Context /\ e.dl.state = "IDLE"
    BY <1>1, FlushMoves DEF Moves
  <1>3. lapd_dl_reset(c) = StopT200(e)
    BY DEF lapd_dl_reset
  <1>4. QED
    BY <1>2, <1>3, TimerKeeps DEF Keeps, Moves
=============================================================================
