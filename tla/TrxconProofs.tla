---------------------------- MODULE TrxconProofs ----------------------------
(***************************************************************************)
(* Proofs about Trxcon, for any retry limit, any clients and transceiver   *)
(* frequencies, any losses and also for a timer that expires while the     *)
(* answer is on its way: a waiting command is never forgotten, and the     *)
(* state machine never disagrees with powered_up.                          *)
(*                                                                         *)
(* Both are local to trxcon: whatever arrives, every handler preserves     *)
(* them.  The proof has a lemma per operator of TrxIf, from the queue up   *)
(* to the L1CTL requests, and one step per action.                         *)
(***************************************************************************)
EXTENDS Trxcon, SequenceTheorems, TLAPS

Fields == {"list", "timer", "state", "prev", "powered_up", "pm", "arfcn", "ta", "ts",
           "sch", "fbsb_conf_sent", "fbsb_timer", "events", "issued", "out", "up"}

\* States in which trxcon does not wait for an answer.
Settled == {"OFFLINE", "IDLE", "ACTIVE"}

PowerAgrees(c) ==
  c.powered_up <=> c.state = "ACTIVE" \/ (c.state = "RSP_WAIT" /\ c.prev = "ACTIVE")

IsSeq(s) == \E S : s \in Seq(S)

\* The answer to ECHO finds the transceiver off: the command before it is a
\* POWEROFF, or was one and has been answered.
EchoOrdered(l, off) ==
  \A n \in 1 .. Len(l) :
    l[n].cmd.word = "ECHO" => IF n = 1 THEN off ELSE l[n-1].cmd.word = "POWEROFF"

\* What holds even between the steps of a handler.
Consistent(c) ==
  /\ DOMAIN c = Fields
  /\ c.state \in Settled \cup {"RSP_WAIT"}
  /\ c.prev \in Settled
  /\ c.powered_up \in BOOLEAN
  /\ IsSeq(c.list)
  /\ EchoOrdered(c.list, ~c.powered_up)
  /\ "OFFLINE" \notin c.events => PowerAgrees(c)

\* What holds when a handler begins and ends.
Guarded(c) ==
  c.list # <<>> => /\ c.timer \/ c.events # {}
                   /\ "OFFLINE" \notin c.events => c.state = "RSP_WAIT"

Sound(c) == Consistent(c) /\ Guarded(c)

-----------------------------------------------------------------------------

\* Whatever the state, trx_ctrl_send leaves the queue waiting under its timer.
LEMMA SendSound ==
  ASSUME NEW c, Consistent(c)
  PROVE  Sound(Send(c))
<1>1. CASE c.list = <<>>
  BY <1>1 DEF Send, Sound, Guarded
<1>2. CASE c.list # <<>> /\ c.state = "RSP_WAIT"
  <2> DEFINE d == [c EXCEPT !.timer = TRUE, !.out = Append(@, Head(c.list).cmd)]
  <2>1. Send(c) = d
    BY <1>2 DEF Send
  <2>2. Sound(d)
    BY <1>2 DEF Consistent, Sound, Guarded, Fields, PowerAgrees
  <2> QED
    BY <2>1, <2>2
<1>3. CASE c.list # <<>> /\ c.state # "RSP_WAIT"
  <2> DEFINE b == [c EXCEPT !.prev = c.state]
             e == [b EXCEPT !.state = "RSP_WAIT"]
             d == [e EXCEPT !.timer = TRUE, !.out = Append(@, Head(c.list).cmd)]
  <2>1. StateChg(b, "RSP_WAIT") = e
    <3>1. b.state = c.state /\ "RSP_WAIT" \in OutStates[c.state]
      BY <1>3 DEF Consistent, Fields, Settled, OutStates
    <3> QED
      BY <3>1 DEF StateChg
  <2>2. Send(c) = d
    BY <1>3, <2>1 DEF Send
  <2>3. Sound(d)
    BY <1>3 DEF Consistent, Sound, Guarded, Fields, PowerAgrees, Settled
  <2> QED
    BY <2>2, <2>3
<1> QED
  BY <1>1, <1>2, <1>3

\* A command at the end of a queue.
LEMMA AppendSeq ==
  ASSUME NEW s, IsSeq(s), NEW e
  PROVE  /\ IsSeq(Append(s, e))
         /\ Len(s) \in Nat
         /\ Append(s, e) # <<>>
         /\ Len(Append(s, e)) = Len(s) + 1
         /\ \A n \in 1 .. Len(s) : Append(s, e)[n] = s[n]
         /\ Append(s, e)[Len(s) + 1] = e
<1>1. PICK S : s \in Seq(S)
  BY DEF IsSeq
<1>2. s \in Seq(S \cup {e})
  BY <1>1, SeqMonotonic
<1> QED
  BY <1>2, AppendProperties, LenProperties DEF IsSeq

\* The head of a queue is gone.
LEMMA TailSeq ==
  ASSUME NEW s, IsSeq(s), s # <<>>
  PROVE  /\ IsSeq(Tail(s))
         /\ Len(s) \in Nat \ {0}
         /\ Head(s) = s[1]
         /\ Len(Tail(s)) = Len(s) - 1
         /\ \A n \in 1 .. Len(s) - 1 : Tail(s)[n] = s[n+1]
<1>1. PICK S : s \in Seq(S)
  BY DEF IsSeq
<1> QED
  BY <1>1, HeadTailProperties, EmptySeq DEF IsSeq

\* Appending a command keeps the order around ECHO, if it is not an ECHO or
\* follows a POWEROFF.
LEMMA EchoAppend ==
  ASSUME NEW s, IsSeq(s), NEW off \in BOOLEAN, EchoOrdered(s, off), NEW e,
         e.cmd.word = "ECHO" => s # <<>> /\ s[Len(s)].cmd.word = "POWEROFF"
  PROVE  EchoOrdered(Append(s, e), off)
<1>1. SUFFICES ASSUME NEW n \in 1 .. Len(Append(s, e)),
                      Append(s, e)[n].cmd.word = "ECHO"
               PROVE  IF n = 1 THEN off ELSE Append(s, e)[n-1].cmd.word = "POWEROFF"
  BY DEF EchoOrdered
<1>2. CASE n \in 1 .. Len(s)
  BY <1>1, <1>2, AppendSeq DEF EchoOrdered
<1>3. CASE n = Len(s) + 1
  <2>1. s # <<>> /\ s[Len(s)].cmd.word = "POWEROFF"
    BY <1>1, <1>3, AppendSeq
  <2>2. Len(s) \in Nat \ {0}
    BY <2>1, TailSeq
  <2> QED
    BY <1>3, <2>1, <2>2, AppendSeq
<1> QED
  BY <1>2, <1>3, AppendSeq

\* A word that may be appended to a queue.
MayFollow(l, word) ==
  word = "ECHO" => l # <<>> /\ l[Len(l)].cmd.word = "POWEROFF"

\* A new command leaves the rest of the state alone.
LEMMA EnlistConsistent ==
  ASSUME NEW c, Consistent(c), NEW word, NEW arg, MayFollow(c.list, word)
  PROVE  /\ Consistent(Enlist(c, word, arg))
         /\ Enlist(c, word, arg).timer = c.timer
         /\ Enlist(c, word, arg).events = c.events
         /\ Enlist(c, word, arg).state = c.state
         /\ Enlist(c, word, arg).powered_up = c.powered_up
         /\ \E e : Enlist(c, word, arg).list = Append(c.list, e) /\ e.cmd.word = word
<1> DEFINE e == [cmd |-> [word |-> word, arg |-> arg, id |-> c.issued + 1], retry_cnt |-> 0]
           q == [c EXCEPT !.issued = @ + 1, !.list = Append(@, e)]
<1>1. Enlist(c, word, arg) = q
  BY DEF Enlist
<1>2. /\ DOMAIN q = Fields
      /\ q.timer = c.timer /\ q.events = c.events /\ q.state = c.state
      /\ q.prev = c.prev /\ q.powered_up = c.powered_up
      /\ q.list = Append(c.list, e)
  BY DEF Consistent, Fields
<1>3. e.cmd.word = word
  OBVIOUS
<1>4. IsSeq(q.list) /\ EchoOrdered(q.list, ~c.powered_up)
  <2>1. IsSeq(Append(c.list, e))
    BY AppendSeq DEF Consistent
  <2>2. EchoOrdered(Append(c.list, e), ~c.powered_up)
    BY <1>3, EchoAppend DEF Consistent, MayFollow
  <2> QED
    BY <1>2, <2>1, <2>2
<1>5. Consistent(q)
  BY <1>2, <1>4 DEF Consistent, PowerAgrees
<1> QED
  BY <1>1, <1>2, <1>3, <1>5

\* trx_ctrl_send touches neither the queue nor powered_up.
LEMMA SendKeeps ==
  ASSUME NEW c, Consistent(c)
  PROVE  Send(c).list = c.list /\ Send(c).powered_up = c.powered_up
BY DEF Send, StateChg, Consistent, Fields

\* What the queue is after trx_ctrl_cmd.
LEMMA CtrlCmdList ==
  ASSUME NEW c, Consistent(c), NEW word, NEW arg, MayFollow(c.list, word)
  PROVE  LET d == trx_ctrl_cmd(c, word, arg)
         IN /\ d.powered_up = c.powered_up
            /\ IsSeq(d.list) /\ d.list # <<>>
            /\ c.list # <<>> => d.list[1] = c.list[1]
            /\ d.list[Len(d.list)].cmd.word = word
<1> DEFINE q == Enlist(c, word, arg)
           d == trx_ctrl_cmd(c, word, arg)
<1>1. Consistent(q) /\ q.powered_up = c.powered_up
  BY EnlistConsistent
<1>2. PICK e : q.list = Append(c.list, e) /\ e.cmd.word = word
  BY EnlistConsistent
<1>3. d.list = q.list /\ d.powered_up = c.powered_up
  BY <1>1, SendKeeps DEF trx_ctrl_cmd
<1>4. IsSeq(c.list)
  BY DEF Consistent
<1>5. /\ IsSeq(d.list) /\ d.list # <<>>
      /\ d.list[Len(d.list)].cmd.word = word
  BY <1>2, <1>3, <1>4, AppendSeq
<1>6. c.list # <<>> => d.list[1] = c.list[1]
  BY <1>2, <1>3, <1>4, AppendSeq, TailSeq
<1> QED
  BY <1>3, <1>5, <1>6

\* trx_ctrl_cmd within a handler that has stopped the timer.
LEMMA CtrlCmdConsistent ==
  ASSUME NEW c, Consistent(c), NEW word, NEW arg, MayFollow(c.list, word)
  PROVE  Consistent(trx_ctrl_cmd(c, word, arg))
BY EnlistConsistent, SendSound DEF trx_ctrl_cmd, Sound

\* trx_ctrl_cmd sends the command or leaves it behind one that is guarded.
LEMMA CtrlCmdSound ==
  ASSUME NEW c, Sound(c), NEW word, NEW arg, MayFollow(c.list, word)
  PROVE  Sound(trx_ctrl_cmd(c, word, arg))
<1>1. CASE c.list = <<>>
  BY <1>1, EnlistConsistent, SendSound DEF trx_ctrl_cmd, Sound
<1>2. CASE c.list # <<>>
  BY <1>2, EnlistConsistent DEF trx_ctrl_cmd, Sound, Guarded
<1> QED
  BY <1>1, <1>2

\* Fields that the queue does not read may change freely.
LEMMA OtherFields ==
  ASSUME NEW c, NEW d, DOMAIN d = Fields,
         d.list = c.list, d.timer = c.timer, d.state = c.state, d.prev = c.prev,
         d.powered_up = c.powered_up, d.events = c.events
  PROVE  /\ Consistent(c) => Consistent(d)
         /\ Sound(c) => Sound(d)
BY DEF Sound, Consistent, Guarded, PowerAgrees

\* A timeout repeats the command or gives it up as offline.
LEMMA TimerSound ==
  ASSUME NEW c, Sound(c)
  PROVE  Sound(trx_ctrl_timer_cb(c))
<1> DEFINE q == [c EXCEPT !.timer = FALSE, !.list[1].retry_cnt = @ + 1]
           r == StateChg(q, "OFFLINE")
<1>1. ASSUME c.list # <<>>
      PROVE  Consistent(q) /\ q.events = c.events
  <2>1. PICK S : c.list \in Seq(S)
    BY DEF Sound, Consistent, IsSeq
  <2> DEFINE e == [c.list[1] EXCEPT !.retry_cnt = @ + 1]
  <2>2. q.list = [c.list EXCEPT ![1] = e]
    BY DEF Sound, Consistent, Fields
  <2>3. c.list \in Seq(S \cup {e}) /\ 1 \in 1 .. Len(c.list)
    BY <1>1, <2>1, SeqMonotonic, EmptySeq
  <2>4. /\ q.list \in Seq(S \cup {e})
        /\ Len(q.list) = Len(c.list)
        /\ \A j \in 1 .. Len(c.list) : q.list[j] = IF j = 1 THEN e ELSE c.list[j]
    BY <2>2, <2>3, ExceptSeq
  <2>5. e.cmd = c.list[1].cmd
    OBVIOUS
  <2>6. IsSeq(q.list)
    BY <2>4 DEF IsSeq
  <2>7. \A j \in 1 .. Len(c.list) : q.list[j].cmd = c.list[j].cmd
    BY <2>4, <2>5
  <2>8. EchoOrdered(q.list, ~c.powered_up)
    BY <2>3, <2>4, <2>7 DEF EchoOrdered, Sound, Consistent
  <2>9. /\ DOMAIN q = Fields
        /\ q.events = c.events /\ q.state = c.state
        /\ q.prev = c.prev /\ q.powered_up = c.powered_up
    BY DEF Sound, Consistent, Fields
  <2> QED
    BY <2>6, <2>8, <2>9 DEF Sound, Consistent, PowerAgrees
<1>2. CASE c.list = <<>>
  BY <1>2, OtherFields DEF trx_ctrl_timer_cb, Sound, Consistent, Guarded, Fields, PowerAgrees
<1>3. CASE c.list # <<>> /\ Head(q.list).retry_cnt > MaxRetry
  <2>1. /\ DOMAIN r = Fields
        /\ r.state \in Settled \cup {"RSP_WAIT"}
        /\ r.prev = q.prev /\ r.powered_up = q.powered_up /\ r.list = q.list
    BY <1>1, <1>3 DEF StateChg, Consistent, Fields, Settled
  <2>2. trx_ctrl_timer_cb(c) = [r EXCEPT !.events = @ \cup {"OFFLINE"}]
    BY <1>3 DEF trx_ctrl_timer_cb
  <2> QED
    BY <1>1, <1>3, <2>1, <2>2 DEF Sound, Consistent, Guarded, Fields
<1>4. CASE c.list # <<>> /\ ~(Head(q.list).retry_cnt > MaxRetry)
  <2>1. trx_ctrl_timer_cb(c) = Send(q)
    BY <1>4 DEF trx_ctrl_timer_cb
  <2> QED
    BY <1>1, <1>4, <2>1, SendSound
<1> QED
  BY <1>2, <1>3, <1>4

\* The queue of d is the one of c with commands added at the end.
Extends(c, d) == /\ d.list # <<>>
                 /\ d.powered_up = c.powered_up
                 /\ c.list # <<>> => d.list[1] = c.list[1]

\* trx_if_cmd_measure
LEMMA CmdMeasureSound ==
  ASSUME NEW c, Consistent(c), NEW start, NEW stop
  PROVE  /\ Consistent(trx_if_cmd_measure(c, start, stop))
         /\ Extends(c, trx_if_cmd_measure(c, start, stop))
         /\ Sound(c) => Sound(trx_if_cmd_measure(c, start, stop))
<1> DEFINE q == [c EXCEPT !.pm = <<start, stop>>]
           d == trx_ctrl_cmd(q, "MEASURE", <<start>>)
<1>1. MayFollow(q.list, "MEASURE")
  BY DEF MayFollow
<1>2. /\ q.list = c.list /\ q.powered_up = c.powered_up
      /\ Consistent(q) /\ (Sound(c) => Sound(q))
  BY OtherFields DEF Consistent, Fields
<1>3. Consistent(d) /\ (Sound(q) => Sound(d))
  <2> HIDE DEF q
  <2> QED
    BY <1>1, <1>2, CtrlCmdConsistent, CtrlCmdSound
<1>4. Extends(q, d)
  <2> HIDE DEF q
  <2> QED
    BY <1>1, <1>2, CtrlCmdList DEF Extends
<1>5. trx_if_cmd_measure(c, start, stop) = d
  BY DEF trx_if_cmd_measure
<1> HIDE DEF q, d
<1> QED
  BY <1>2, <1>3, <1>4, <1>5 DEF Extends

\* trx_if_measure_rsp_cb adds to the end of the queue, if anything.
LEMMA MeasureRspConsistent ==
  ASSUME NEW c, Consistent(c), c.list # <<>>, NEW arfcn
  PROVE  /\ Consistent(trx_if_measure_rsp_cb(c, arfcn))
         /\ Extends(c, trx_if_measure_rsp_cb(c, arfcn))
<1> DEFINE q == [c EXCEPT !.up = Append(@, PmConf(arfcn, arfcn = c.pm[2]))]
           d == trx_if_cmd_measure(q, arfcn + 1, c.pm[2])
<1>1. Consistent(q) /\ Extends(c, q) /\ q.list = c.list
  BY OtherFields DEF Consistent, Fields, Extends
<1>2. Consistent(d) /\ Extends(q, d)
  <2> HIDE DEF q
  <2> QED
    BY <1>1, CmdMeasureSound
<1>3. Consistent(d) /\ Extends(c, d)
  BY <1>1, <1>2 DEF Extends
<1>4. Extends(c, c)
  BY DEF Extends
<1>5. trx_if_measure_rsp_cb(c, arfcn) \in {c, q, d}
  BY DEF trx_if_measure_rsp_cb
<1> QED
  BY <1>1, <1>3, <1>4, <1>5

\* An answer moves the state machine together with powered_up.
LEMMA AnsweredConsistent ==
  ASSUME NEW c, Consistent(c), NEW rsp, c.list # <<>>,
         c.list[1].cmd.word = rsp.word,
         "OFFLINE" \notin c.events => c.state = "RSP_WAIT"
  PROVE  LET d == Answered(c, rsp)
         IN /\ Consistent(d) /\ d.list # <<>>
            /\ d.list[1] = c.list[1]
            /\ rsp.word = "POWEROFF" => ~d.powered_up
<1> DEFINE d == Answered(c, rsp)
<1>0. Len(c.list) \in Nat \ {0}
  BY TailSeq DEF Consistent
<1>1. CASE rsp.word = "POWERON"
  <2>1. d = StateChg([c EXCEPT !.powered_up = TRUE], "ACTIVE")
    BY <1>1 DEF Answered
  <2>2. /\ DOMAIN d = Fields /\ d.powered_up = TRUE /\ d.list = c.list
        /\ d.prev = c.prev /\ d.events = c.events
        /\ d.state \in Settled \cup {"RSP_WAIT"}
        /\ c.state = "RSP_WAIT" => d.state = "ACTIVE"
    BY <2>1 DEF Consistent, Fields, Settled, StateChg, OutStates
  <2>3. EchoOrdered(c.list, FALSE)
    BY <1>0, <1>1 DEF Consistent, EchoOrdered
  <2> QED
    BY <1>1, <2>2, <2>3 DEF Consistent, PowerAgrees
<1>2. CASE rsp.word = "POWEROFF"
  <2>1. d = StateChg([c EXCEPT !.powered_up = FALSE], "IDLE")
    BY <1>2 DEF Answered
  <2>2. /\ DOMAIN d = Fields /\ d.powered_up = FALSE /\ d.list = c.list
        /\ d.prev = c.prev /\ d.events = c.events
        /\ d.state \in Settled \cup {"RSP_WAIT"}
        /\ c.state = "RSP_WAIT" => d.state = "IDLE"
    BY <2>1 DEF Consistent, Fields, Settled, StateChg, OutStates
  <2>3. EchoOrdered(c.list, TRUE)
    BY <1>0, <1>2 DEF Consistent, EchoOrdered
  <2> QED
    BY <1>2, <2>2, <2>3 DEF Consistent, PowerAgrees
<1>3. CASE rsp.word = "MEASURE"
  BY <1>3, MeasureRspConsistent DEF Answered, Extends
<1>4. CASE rsp.word = "ECHO"
  <2>1. d = StateChg(c, "IDLE")
    BY <1>4 DEF Answered
  <2>2. ~c.powered_up
    BY <1>0, <1>4 DEF Consistent, EchoOrdered
  <2>3. /\ DOMAIN d = Fields /\ d.powered_up = c.powered_up /\ d.list = c.list
        /\ d.prev = c.prev /\ d.events = c.events
        /\ d.state \in Settled \cup {"RSP_WAIT"}
        /\ c.state = "RSP_WAIT" => d.state = "IDLE"
    BY <2>1 DEF Consistent, Fields, Settled, StateChg, OutStates
  <2> QED
    BY <1>4, <2>2, <2>3 DEF Consistent, PowerAgrees
<1>5. CASE rsp.word \notin {"POWERON", "POWEROFF", "MEASURE", "ECHO"}
  <2>1. d = StateChg(c, c.prev)
    BY <1>5 DEF Answered
  <2>2. /\ DOMAIN d = Fields /\ d.powered_up = c.powered_up /\ d.list = c.list
        /\ d.prev = c.prev /\ d.events = c.events
        /\ d.state \in Settled \cup {"RSP_WAIT"}
        /\ c.state = "RSP_WAIT" => d.state = c.prev
    BY <2>1 DEF Consistent, Fields, Settled, StateChg, OutStates
  <2> QED
    BY <1>5, <2>2 DEF Consistent, PowerAgrees, Settled
<1> QED
  BY <1>1, <1>2, <1>3, <1>4, <1>5

\* An answer takes the head off the queue, or leaves it with the failure reported.
LEMMA ReadSound ==
  ASSUME NEW c, Sound(c), NEW rsp
  PROVE  Sound(trx_ctrl_read_cb(c, rsp))
<1> DEFINE d == [c EXCEPT !.timer = FALSE]
           a == Answered(d, rsp)
           p == [a EXCEPT !.list = Tail(@)]
<1>1. /\ Consistent(d) /\ d.list = c.list /\ d.state = c.state
      /\ d.events = c.events /\ d.timer = FALSE
  BY DEF Sound, Consistent, Fields, PowerAgrees
<1>2. CASE Accepts(c, rsp)
  <2>1. c.list # <<>> /\ c.list[1].cmd.word = rsp.word
    BY <1>2, TailSeq DEF Accepts, Sound, Consistent
  <2>2. "OFFLINE" \notin d.events => d.state = "RSP_WAIT"
    BY <1>1, <2>1 DEF Sound, Guarded
  <2>3. /\ Consistent(a) /\ a.list # <<>>
        /\ a.list[1] = c.list[1]
        /\ rsp.word = "POWEROFF" => ~a.powered_up
    <3> HIDE DEF d
    <3> QED
      BY <1>1, <2>1, <2>2, AnsweredConsistent
  <2> HIDE DEF a
  <2>4. /\ DOMAIN p = Fields /\ p.list = Tail(a.list) /\ p.powered_up = a.powered_up
        /\ p.state = a.state /\ p.prev = a.prev /\ p.events = a.events
    BY <2>3 DEF Consistent, Fields
  <2>5. IsSeq(p.list)
    BY <2>3, <2>4, TailSeq DEF Consistent
  <2>6. EchoOrdered(p.list, ~a.powered_up)
    <3>1. SUFFICES ASSUME NEW n \in 1 .. Len(Tail(a.list)), Tail(a.list)[n].cmd.word = "ECHO"
                   PROVE  IF n = 1 THEN ~a.powered_up ELSE Tail(a.list)[n-1].cmd.word = "POWEROFF"
      BY <2>4 DEF EchoOrdered
    <3>2. /\ Len(a.list) \in Nat \ {0}
          /\ Len(Tail(a.list)) = Len(a.list) - 1
          /\ \A i \in 1 .. Len(a.list) - 1 : Tail(a.list)[i] = a.list[i+1]
      BY <2>3, TailSeq DEF Consistent
    <3>3. a.list[n].cmd.word = "POWEROFF"
      <4>1. n + 1 \in 1 .. Len(a.list) /\ n + 1 # 1 /\ n + 1 - 1 = n
        BY <3>1, <3>2
      <4>2. a.list[n+1].cmd.word = "ECHO"
        BY <3>1, <3>2
      <4> QED
        BY <2>3, <4>1, <4>2 DEF Consistent, EchoOrdered
    <3>4. CASE n = 1
      BY <2>1, <2>3, <3>3, <3>4
    <3>5. CASE n # 1
      <4>1. n - 1 \in 1 .. Len(a.list) - 1 /\ n - 1 + 1 = n
        BY <3>1, <3>2, <3>5
      <4> QED
        BY <3>2, <3>3, <3>5, <4>1
    <3> QED
      BY <3>4, <3>5
  <2>7. Consistent(p)
    BY <2>3, <2>4, <2>5, <2>6 DEF Consistent, PowerAgrees
  <2>8. trx_ctrl_read_cb(c, rsp) = Send(p)
    BY <1>2 DEF trx_ctrl_read_cb, a
  <2> HIDE DEF p
  <2> QED
    BY <2>7, <2>8, SendSound
<1>3. CASE ~Accepts(c, rsp)
  <2> DEFINE e == [d EXCEPT !.events = IF c.list = <<>> THEN @ ELSE @ \cup {"RSP_ERROR"}]
  <2>1. trx_ctrl_read_cb(c, rsp) = e
    BY <1>3 DEF trx_ctrl_read_cb
  <2>2. /\ DOMAIN e = Fields /\ e.list = c.list /\ e.state = c.state /\ e.prev = c.prev
        /\ e.powered_up = c.powered_up
        /\ c.list # <<>> => e.events # {}
        /\ "OFFLINE" \in e.events <=> "OFFLINE" \in c.events
    BY DEF Sound, Consistent, Fields
  <2> HIDE DEF e
  <2> QED
    BY <2>1, <2>2 DEF Sound, Consistent, Guarded, PowerAgrees
<1> QED
  BY <1>2, <1>3

-----------------------------------------------------------------------------
(* The handlers                                                            *)

\* A command other than ECHO may follow any other.
LEMMA PlainCmdSound ==
  ASSUME NEW c, Sound(c), NEW word, word # "ECHO", NEW arg
  PROVE  Sound(trx_ctrl_cmd(c, word, arg))
BY CtrlCmdSound DEF MayFollow

\* Fields of the scheduler, of the configuration and of the link may be set freely.
LEMMA FreeFields ==
  ASSUME NEW c, Sound(c), NEW v, NEW w
  PROVE  /\ Sound([c EXCEPT !.ts = v])
         /\ Sound([c EXCEPT !.sch = v])
         /\ Sound([c EXCEPT !.ts = v, !.sch = w])
         /\ Sound([c EXCEPT !.arfcn = v])
         /\ Sound([c EXCEPT !.ta = v])
         /\ Sound([c EXCEPT !.up = v])
         /\ Sound([c EXCEPT !.fbsb_conf_sent = v])
         /\ Sound([c EXCEPT !.fbsb_timer = v])
<1>1. DOMAIN c = Fields
  BY DEF Sound, Consistent
<1>2. Sound([c EXCEPT !.ts = v]) /\ Sound([c EXCEPT !.sch = v])
  BY <1>1, OtherFields DEF Fields
<1>3. Sound([c EXCEPT !.ts = v, !.sch = w])
  BY <1>1, OtherFields DEF Fields
<1>4. Sound([c EXCEPT !.arfcn = v]) /\ Sound([c EXCEPT !.ta = v])
  BY <1>1, OtherFields DEF Fields
<1>5. Sound([c EXCEPT !.up = v])
  BY <1>1, OtherFields DEF Fields
<1>6. Sound([c EXCEPT !.fbsb_conf_sent = v]) /\ Sound([c EXCEPT !.fbsb_timer = v])
  BY <1>1, OtherFields DEF Fields
<1> QED
  BY <1>2, <1>3, <1>4, <1>5, <1>6

\* trx_if_cmd_poweron
LEMMA PoweronSound ==
  ASSUME NEW c, Sound(c)
  PROVE  Sound(trx_if_cmd_poweron(c))
BY PlainCmdSound DEF trx_if_cmd_poweron

\* A timeslot is deleted.
LEMMA DelTsSound ==
  ASSUME NEW c, Sound(c), NEW tn
  PROVE  Sound(sched_trx_del_ts(c, tn))
<1>1. Sound(RemoveTs(c, tn))
  BY FreeFields DEF RemoveTs
<1>2. Sound(trx_ctrl_cmd(RemoveTs(c, tn), "SETSLOT", <<tn, 0>>))
  BY <1>1, PlainCmdSound
<1> QED
  BY <1>2 DEF sched_trx_del_ts

\* All timeslots are deleted.
LEMMA ResetSound ==
  ASSUME NEW c, Sound(c)
  PROVE  Sound(sched_trx_reset(c))
<1> DEFINE four(d, tn) == sched_trx_del_ts(sched_trx_del_ts(
                            sched_trx_del_ts(sched_trx_del_ts(d, tn), tn + 1), tn + 2), tn + 3)
<1>1. ASSUME NEW d, Sound(d), NEW tn
      PROVE  Sound(four(d, tn))
  <2>1. Sound(sched_trx_del_ts(d, tn))
    BY <1>1, DelTsSound
  <2>2. Sound(sched_trx_del_ts(sched_trx_del_ts(d, tn), tn + 1))
    BY <2>1, DelTsSound
  <2>3. Sound(sched_trx_del_ts(sched_trx_del_ts(sched_trx_del_ts(d, tn), tn + 1), tn + 2))
    BY <2>2, DelTsSound
  <2> QED
    BY <2>3, DelTsSound
<1>2. Sound(four(c, 0))
  BY <1>1
<1>3. Sound(four(four(c, 0), 4))
  <2> HIDE DEF four
  <2> QED
    BY <1>1, <1>2
<1> QED
  BY <1>3 DEF sched_trx_reset

\* A timeslot is configured, after it was deleted if it exists.
LEMMA ConfigureTsSound ==
  ASSUME NEW c, Sound(c), NEW tn
  PROVE  Sound(sched_trx_configure_ts(c, tn))
<1> DEFINE d == IF tn \in c.ts THEN trx_ctrl_cmd(c, "SETSLOT", <<tn, 0>>)
                ELSE [c EXCEPT !.ts = @ \cup {tn}]
           e == [d EXCEPT !.sch = @ \/ tn = 0]
<1>1. Sound(d)
  BY PlainCmdSound, FreeFields
<1>2. Sound(e)
  <2> HIDE DEF d
  <2> QED
    BY <1>1, FreeFields
<1>3. Sound(trx_ctrl_cmd(e, "SETSLOT", <<tn, 1>>))
  <2> HIDE DEF e
  <2> QED
    BY <1>2, PlainCmdSound
<1> QED
  BY <1>3 DEF sched_trx_configure_ts

\* The two tuning commands.
LEMMA TuneSound ==
  ASSUME NEW c, Sound(c), NEW arfcn
  PROVE  Sound(TuneIfDiffers(c, arfcn))
<1> DEFINE q == [c EXCEPT !.arfcn = arfcn]
           r == trx_ctrl_cmd(q, "RXTUNE", <<arfcn>>)
<1>1. Sound(q)
  BY FreeFields
<1>2. Sound(r)
  <2> HIDE DEF q
  <2> QED
    BY <1>1, PlainCmdSound
<1>3. Sound(trx_ctrl_cmd(r, "TXTUNE", <<arfcn>>))
  <2> HIDE DEF r
  <2> QED
    BY <1>2, PlainCmdSound
<1> QED
  BY <1>3 DEF TuneIfDiffers, Tune

\* POWEROFF and the ECHO right behind it.
LEMMA PowerCycleSound ==
  ASSUME NEW c, Sound(c)
  PROVE  Sound(PowerCycle(c))
<1> DEFINE q == trx_ctrl_cmd(c, "POWEROFF", <<>>)
<1>1. Sound(q)
  BY PlainCmdSound
<1>2. MayFollow(q.list, "ECHO")
  BY CtrlCmdList DEF MayFollow, Sound
<1>3. Sound(trx_ctrl_cmd(q, "ECHO", <<>>))
  <2> HIDE DEF q
  <2> QED
    BY <1>1, <1>2, CtrlCmdSound
<1> QED
  BY <1>3 DEF PowerCycle

\* A request to synchronise.
LEMMA FbsbReqSound ==
  ASSUME NEW c, Sound(c), NEW arfcn
  PROVE  Sound(l1ctl_rx_fbsb_req(c, arfcn))
<1> DEFINE q == sched_trx_configure_ts(sched_trx_reset(c), 0)
           r == [q EXCEPT !.fbsb_conf_sent = FALSE]
           s == trx_if_cmd_poweron(TuneIfDiffers(r, arfcn))
<1>1. Sound(q)
  BY ResetSound, ConfigureTsSound
<1>2. Sound(r)
  <2> HIDE DEF q
  <2> QED
    BY <1>1, FreeFields
<1>3. Sound(s)
  <2> HIDE DEF r
  <2> QED
    BY <1>2, TuneSound, PoweronSound
<1>4. Sound([s EXCEPT !.fbsb_timer = TRUE])
  <2> HIDE DEF s
  <2> QED
    BY <1>3, FreeFields
<1> QED
  BY <1>4 DEF l1ctl_rx_fbsb_req

\* A request to reset.
LEMMA ResetReqSound ==
  ASSUME NEW c, Sound(c), NEW full
  PROVE  Sound(l1ctl_rx_reset_req(c, full))
<1> DEFINE q == IF full THEN PowerCycle(c) ELSE c
           r == sched_trx_reset(q)
<1>1. Sound(q)
  BY PowerCycleSound
<1>2. Sound(r)
  <2> HIDE DEF q
  <2> QED
    BY <1>1, ResetSound
<1>3. Sound([r EXCEPT !.up = Append(@, [kind |-> "RESET_CONF"])])
  <2> HIDE DEF r
  <2> QED
    BY <1>2, FreeFields
<1> QED
  BY <1>3 DEF l1ctl_rx_reset_req

\* The requests for a dedicated channel, hopping or not.
LEMMA EstReqSound ==
  ASSUME NEW c, Sound(c), NEW tn, NEW arfcn
  PROVE  /\ Sound(l1ctl_rx_dm_est_req_h0(c, tn, arfcn))
         /\ Sound(l1ctl_rx_dm_est_req_h1(c, tn))
<1>1. ASSUME NEW d, Sound(d)
      PROVE  Sound(Dedicate(d, tn))
  <2> DEFINE e == sched_trx_configure_ts(d, tn)
  <2>1. Sound(e)
    BY <1>1, ConfigureTsSound
  <2>2. Sound([e EXCEPT !.sch = @ /\ tn # 0])
    <3> HIDE DEF e
    <3> QED
      BY <2>1, FreeFields
  <2> QED
    BY <2>2 DEF Dedicate
<1>2. Sound(l1ctl_rx_dm_est_req_h0(c, tn, arfcn))
  BY <1>1, TuneSound DEF l1ctl_rx_dm_est_req_h0
<1>3. Sound(l1ctl_rx_dm_est_req_h1(c, tn))
  BY <1>1, PlainCmdSound DEF l1ctl_rx_dm_est_req_h1
<1> QED
  BY <1>2, <1>3

\* A change of the timing advance.
LEMMA ParamReqSound ==
  ASSUME NEW c, Sound(c), NEW ta
  PROVE  Sound(l1ctl_rx_param_req(c, ta))
<1> DEFINE q == trx_ctrl_cmd(c, "SETTA", <<ta>>)
<1>1. Sound(q)
  BY PlainCmdSound
<1>2. Sound([q EXCEPT !.ta = ta])
  <2> HIDE DEF q
  <2> QED
    BY <1>1, FreeFields
<1> QED
  BY <1>2 DEF l1ctl_rx_param_req

\* A change of the CCCH mode.
LEMMA CcchModeReqSound ==
  ASSUME NEW c, Sound(c), NEW differs
  PROVE  Sound(l1ctl_rx_ccch_mode_req(c, differs))
<1> DEFINE q == IF differs THEN sched_trx_configure_ts(c, 0) ELSE c
<1>1. Sound(q)
  BY ConfigureTsSound
<1>2. Sound([q EXCEPT !.up = Append(@, [kind |-> "CCCH_MODE_CONF"])])
  <2> HIDE DEF q
  <2> QED
    BY <1>1, FreeFields
<1> QED
  BY <1>2 DEF l1ctl_rx_ccch_mode_req

\* The confirmations of a synchronisation, by a burst or by the timer.
LEMMA FbsbConfSound ==
  ASSUME NEW c, Sound(c)
  PROVE  Sound(rx_sch_fn(c)) /\ Sound(fbsb_timer_cb(c))
<1> DEFINE Told(m) == [c EXCEPT !.fbsb_conf_sent = TRUE, !.fbsb_timer = FALSE, !.up = m]
<1>1. DOMAIN c = Fields
  BY DEF Sound, Consistent
<1>2. ASSUME NEW m
      PROVE  Sound(Told(m))
  BY <1>1, OtherFields DEF Fields
<1>3. Sound(fbsb_timer_cb(c))
  BY <1>2 DEF fbsb_timer_cb
<1>4. Sound(l1ctl_tx_fbsb_conf(c, c.arfcn))
  BY <1>2 DEF l1ctl_tx_fbsb_conf
<1> QED
  BY <1>3, <1>4 DEF rx_sch_fn

\* The client is gone.
LEMMA DisconnectSound ==
  ASSUME NEW c, Sound(c)
  PROVE  Sound(L1ctlDisconnect(c))
BY ResetSound, PowerCycleSound DEF L1ctlDisconnect

\* Sending what a handler produced changes nothing else.
LEMMA CommitSound ==
  ASSUME NEW c, Sound(c), NEW a, Commit(c, a)
  PROVE  Sound(trx')
<1>1. DOMAIN c = Fields /\ trx' = [c EXCEPT !.out = <<>>, !.up = <<>>]
  BY DEF Commit, Sound, Consistent
<1> QED
  BY <1>1, OtherFields DEF Fields

-----------------------------------------------------------------------------

\* The inductive invariant.
IInv == Sound(trx)

\* trxcon starts offline with an empty queue, and every action preserves IInv.
THEOREM NextInvariant == Spec => []IInv
<1>1. Init => IInv
  <2>1. Init => trx = InitInstance
    BY DEF Init
  <2>2. InitInstance.list = <<>> /\ <<>> \in Seq({})
    BY EmptySeq DEF InitInstance
  <2>3. Sound(InitInstance)
    BY <2>2, EmptySeq
       DEF InitInstance, Sound, Consistent, Guarded, Fields, Settled, PowerAgrees, IsSeq, EchoOrdered
  <2> QED
    BY <2>1, <2>3 DEF IInv
<1>2. IInv /\ [Next]_vars => IInv'
  <2> SUFFICES ASSUME Sound(trx), [Next]_vars
               PROVE  Sound(trx')
    BY DEF IInv
  <2>1. CASE TransceiverServes \/ LoseCommand \/ LoseAnswer \/ Connect \/ UNCHANGED vars
    BY <2>1 DEF TransceiverServes, LoseCommand, LoseAnswer, Connect, vars
  <2>2. CASE ReadAnswer
    BY <2>2, ReadSound, CommitSound DEF ReadAnswer
  <2>3. CASE CtrlTimerExpires
    BY <2>3, TimerSound, CommitSound DEF CtrlTimerExpires
  <2>4. CASE FbsbTimerExpires
    BY <2>4, FbsbConfSound, CommitSound DEF FbsbTimerExpires
  <2>5. CASE RxSch
    BY <2>5, FbsbConfSound, CommitSound DEF RxSch
  <2>6. CASE \E arfcn \in Arfcns : FbsbReq(arfcn)
    BY <2>6, FbsbReqSound, CommitSound DEF FbsbReq
  <2>7. CASE \E start, stop \in Arfcns : PmReq(start, stop)
    <3>1. PICK start, stop \in Arfcns : PmReq(start, stop)
      BY <2>7
    <3>2. Sound(trx_if_cmd_measure(trx, start, stop))
      BY CmdMeasureSound DEF Sound
    <3> QED
      BY <3>1, <3>2, CommitSound DEF PmReq
  <2>8. CASE \E full \in BOOLEAN : ResetReq(full)
    BY <2>8, ResetReqSound, CommitSound DEF ResetReq
  <2>9. CASE \E tn \in Slots, arfcn \in Arfcns : EstReqH0(tn, arfcn)
    BY <2>9, EstReqSound, CommitSound DEF EstReqH0
  <2>10. CASE \E tn \in Slots : EstReqH1(tn)
    BY <2>10, EstReqSound, CommitSound DEF EstReqH1
  <2>11. CASE RelReq
    BY <2>11, ResetSound, CommitSound DEF RelReq, l1ctl_rx_dm_rel_req
  <2>12. CASE \E ta \in {0, 1} : ParamReq(ta)
    BY <2>12, ParamReqSound, CommitSound DEF ParamReq
  <2>13. CASE \E differs \in BOOLEAN : CcchModeReq(differs)
    BY <2>13, CcchModeReqSound, CommitSound DEF CcchModeReq
  <2>14. CASE Disconnect
    BY <2>14, DisconnectSound, CommitSound DEF Disconnect
  <2> QED
    BY <2>1, <2>2, <2>3, <2>4, <2>5, <2>6, <2>7, <2>8, <2>9, <2>10, <2>11, <2>12, <2>13, <2>14
       DEF Next, Client
<1> QED
  BY <1>1, <1>2, PTL DEF Spec

\* A command at the head of the queue is never forgotten: its timer runs, or a
\* failure was reported to the application's state machine.
THEOREM HeadAlwaysGuarded == Spec => []HeadGuarded
<1>1. IInv => HeadGuarded
  BY DEF IInv, Sound, Guarded, HeadGuarded
<1> QED
  BY <1>1, NextInvariant, PTL

\* Until the transceiver is given up as offline, powered_up and the state
\* machine say the same, over any number of commands that are sent, repeated,
\* answered late or rejected in between.
THEOREM PowerAlwaysMatches == Spec => []PowerMatchesState
<1>1. IInv => PowerMatchesState
  BY DEF IInv, Sound, Consistent, PowerMatchesState, PowerAgrees, Settled
<1> QED
  BY <1>1, NextInvariant, PTL
=============================================================================
