--------------------------- MODULE TrxQueueProofs ---------------------------
(***************************************************************************)
(* Proofs about Trxcon, continued: what relates trxcon to the transceiver  *)
(* and to its client, again for every value of the constants.              *)
(*                                                                         *)
(* As long as the control timer waits for the answer, one datagram at most *)
(* is under way, the transceiver executes the commands in order and skips  *)
(* none, and once the queue is empty both sides agree.  The argument looks *)
(* at the settings of the transceiver as registers: each is about to get   *)
(* the value trxcon keeps for it, from the last command in the queue that  *)
(* writes it, or has it.  And a client that synchronises is answered once. *)
(***************************************************************************)
EXTENDS TrxconProofs

\* The registers, by the command that writes them; there is one per timeslot.
Registers == {"SETSLOT", "SETTA", "RXTUNE", "TXTUNE"}
Register(w, i) == w \in Registers /\ (w # "SETSLOT" => i = 0)

Writes(cmd, w, i) == cmd.word = w /\ (w = "SETSLOT" => cmd.arg[1] = i)

Value(cmd) == IF cmd.word = "SETSLOT" THEN IF cmd.arg[2] = 0 THEN 0 ELSE 1
              ELSE cmd.arg[1]

\* From the register's value H, the commands of l after the first m lead to v.
Converges(l, m, w, i, H, v) ==
  \/ H = {v} /\ \A n \in m + 1 .. Len(l) : ~Writes(l[n].cmd, w, i)
  \/ \E n \in m + 1 .. Len(l) :
       /\ Writes(l[n].cmd, w, i) /\ Value(l[n].cmd) = v
       /\ \A k \in n + 1 .. Len(l) : ~Writes(l[k].cmd, w, i)

\* A command at the end that does not write the register, and one that does.
LEMMA ConvergesAppend ==
  ASSUME NEW l, IsSeq(l), NEW m \in 0 .. Len(l), NEW w, NEW i, NEW H, NEW v, NEW e,
         IF Writes(e.cmd, w, i) THEN Value(e.cmd) = v ELSE Converges(l, m, w, i, H, v)
  PROVE  Converges(Append(l, e), m, w, i, H, v)
<1> DEFINE a == Append(l, e)
<1>1. /\ Len(l) \in Nat /\ Len(a) = Len(l) + 1
      /\ \A n \in 1 .. Len(l) : a[n] = l[n]
      /\ a[Len(l) + 1] = e
  BY AppendSeq
<1> HIDE DEF a
<1>2. CASE Writes(e.cmd, w, i)
  BY <1>1, <1>2 DEF Converges
<1>3. CASE ~Writes(e.cmd, w, i)
  <2>1. CASE H = {v} /\ \A n \in m + 1 .. Len(l) : ~Writes(l[n].cmd, w, i)
    <3>1. ASSUME NEW n \in m + 1 .. Len(a)
          PROVE  ~Writes(a[n].cmd, w, i)
      <4>1. n \in m + 1 .. Len(l) \/ n = Len(l) + 1
        BY <1>1
      <4> QED
        BY <1>1, <1>3, <2>1, <4>1
    <3> QED
      BY <2>1, <3>1 DEF Converges
  <2>2. CASE \E n \in m + 1 .. Len(l) :
               /\ Writes(l[n].cmd, w, i) /\ Value(l[n].cmd) = v
               /\ \A k \in n + 1 .. Len(l) : ~Writes(l[k].cmd, w, i)
    <3>1. PICK n \in m + 1 .. Len(l) :
               /\ Writes(l[n].cmd, w, i) /\ Value(l[n].cmd) = v
               /\ \A k \in n + 1 .. Len(l) : ~Writes(l[k].cmd, w, i)
      BY <2>2
    <3>2. n \in m + 1 .. Len(a) /\ a[n] = l[n]
      BY <1>1
    <3>3. ASSUME NEW k \in n + 1 .. Len(a)
          PROVE  ~Writes(a[k].cmd, w, i)
      <4>1. k \in n + 1 .. Len(l) \/ k = Len(l) + 1
        BY <1>1
      <4> QED
        BY <1>1, <1>3, <3>1, <4>1
    <3> QED
      BY <3>1, <3>2, <3>3 DEF Converges
  <2> QED
    BY <1>3, <2>1, <2>2 DEF Converges
<1> QED
  BY <1>2, <1>3 DEF a

\* The head executed, for the first time or again.
LEMMA ConvergesExecuted ==
  ASSUME NEW l, IsSeq(l), l # <<>>, NEW w, NEW i, NEW H, NEW v, NEW J,
         Converges(l, 0, w, i, H, v),
         IF Writes(l[1].cmd, w, i) THEN J = {Value(l[1].cmd)} ELSE J = H
  PROVE  Converges(l, 0, w, i, J, v) /\ Converges(l, 1, w, i, J, v)
<1>1. Len(l) \in Nat \ {0}
  BY TailSeq
<1>2. CASE H = {v} /\ \A n \in 0 + 1 .. Len(l) : ~Writes(l[n].cmd, w, i)
  BY <1>1, <1>2 DEF Converges
<1>3. CASE \E n \in 0 + 1 .. Len(l) :
             /\ Writes(l[n].cmd, w, i) /\ Value(l[n].cmd) = v
             /\ \A k \in n + 1 .. Len(l) : ~Writes(l[k].cmd, w, i)
  <2>1. PICK n \in 0 + 1 .. Len(l) :
             /\ Writes(l[n].cmd, w, i) /\ Value(l[n].cmd) = v
             /\ \A k \in n + 1 .. Len(l) : ~Writes(l[k].cmd, w, i)
    BY <1>3
  <2>2. CASE n = 1
    BY <1>1, <2>1, <2>2 DEF Converges
  <2>3. CASE n # 1
    <3>1. n \in 1 + 1 .. Len(l)
      BY <1>1, <2>3
    <3> QED
      BY <2>1, <3>1 DEF Converges
  <2> QED
    BY <2>2, <2>3
<1> QED
  BY <1>2, <1>3 DEF Converges

\* The head answered.
LEMMA ConvergesTail ==
  ASSUME NEW l, IsSeq(l), l # <<>>, NEW w, NEW i, NEW H, NEW v,
         Converges(l, 1, w, i, H, v)
  PROVE  Converges(Tail(l), 0, w, i, H, v)
<1> DEFINE t == Tail(l)
<1>1. /\ Len(l) \in Nat \ {0} /\ Len(t) = Len(l) - 1
      /\ \A n \in 1 .. Len(l) - 1 : t[n] = l[n+1]
  BY TailSeq
<1> HIDE DEF t
<1>2. CASE H = {v} /\ \A n \in 1 + 1 .. Len(l) : ~Writes(l[n].cmd, w, i)
  <2>1. ASSUME NEW n \in 0 + 1 .. Len(t)
        PROVE  ~Writes(t[n].cmd, w, i)
    <3>1. n + 1 \in 1 + 1 .. Len(l) /\ t[n] = l[n+1]
      BY <1>1
    <3> QED
      BY <1>2, <3>1
  <2> QED
    BY <1>2, <2>1 DEF Converges, t
<1>3. CASE \E n \in 1 + 1 .. Len(l) :
             /\ Writes(l[n].cmd, w, i) /\ Value(l[n].cmd) = v
             /\ \A k \in n + 1 .. Len(l) : ~Writes(l[k].cmd, w, i)
  <2>1. PICK n \in 1 + 1 .. Len(l) :
             /\ Writes(l[n].cmd, w, i) /\ Value(l[n].cmd) = v
             /\ \A k \in n + 1 .. Len(l) : ~Writes(l[k].cmd, w, i)
    BY <1>3
  <2>2. n - 1 \in 0 + 1 .. Len(t) /\ t[n-1] = l[n]
    BY <1>1
  <2>3. ASSUME NEW k \in n - 1 + 1 .. Len(t)
        PROVE  ~Writes(t[k].cmd, w, i)
    <3>1. k + 1 \in n + 1 .. Len(l) /\ t[k] = l[k+1]
      BY <1>1
    <3> QED
      BY <2>1, <3>1
  <2> QED
    BY <2>1, <2>2, <2>3 DEF Converges, t
<1> QED
  BY <1>2, <1>3 DEF Converges

-----------------------------------------------------------------------------
(* What the handlers make of the queue                                     *)

\* The number of the last command that was answered.
Base(c) == c.issued - Len(c.list)

\* The commands in the queue are the last ones issued.
Typed(c) ==
  /\ DOMAIN c = Fields
  /\ IsSeq(c.list)
  /\ c.issued \in Int
  /\ \A n \in 1 .. Len(c.list) : c.list[n].cmd.id = Base(c) + n

\* What the register is, and what trxcon takes it for.
Have(dv, w, i) == CASE w = "SETSLOT" -> IF i \in dv.slots THEN {1} ELSE {0}
                    [] w = "SETTA"   -> {dv.ta}
                    [] w = "RXTUNE"  -> dv.rx
                    [] OTHER         -> dv.tx
Want(c, w, i) == CASE w = "SETSLOT" -> IF i \in c.ts THEN 1 ELSE 0
                   [] w = "SETTA"   -> c.ta
                   [] OTHER         -> c.arfcn

\* No frequency is wanted before the first request for one.
Wanted(c, w) == w \in {"RXTUNE", "TXTUNE"} => c.arfcn # 0

\* All registers but those of X converge.
Agreement(c, m, dv, X) ==
  \A w, i :
    Register(w, i) /\ <<w, i>> \notin X /\ Wanted(c, w) =>
      Converges(c.list, m, w, i, Have(dv, w, i), Want(c, w, i))

\* A handler leaves the head of the queue in place; it sends the head, once,
\* when the queue was empty.
Sends(c, d) ==
  IF c.list # <<>> THEN d.list # <<>> /\ d.list[1] = c.list[1] /\ d.out = c.out
  ELSE d.out = IF d.list = <<>> THEN c.out ELSE Append(c.out, d.list[1].cmd)

\* No L1CTL_FBSB_CONF among the messages, no POWERON among the commands.
NoConf(ms) == IsSeq(ms) /\ \A n \in 1 .. Len(ms) : ms[n].kind # "FBSB_CONF"
NoPoweron(l) == \A n \in 1 .. Len(l) : l[n].cmd.word # "POWERON"

\* d is what a handler that began with c may have made of it, all registers
\* but those of X dealt with.
Served(c, d, X) ==
  /\ Typed(d)
  /\ Len(c.list) <= Len(d.list)
  /\ Base(d) = Base(c)
  /\ d.powered_up = c.powered_up
  /\ Sends(c, d)
  /\ NoConf(c.up) => NoConf(d.up)
  /\ \A m \in 0 .. Len(c.list) : \A dv : Agreement(c, m, dv, {}) => Agreement(d, m, dv, X)

\* A handler that has nothing to do with synchronisation.
Muted(c, d) ==
  /\ d.fbsb_timer = c.fbsb_timer
  /\ d.fbsb_conf_sent = c.fbsb_conf_sent
  /\ NoPoweron(c.list) => NoPoweron(d.list)

LEMMA ServedBegin ==
  ASSUME NEW c, Typed(c)
  PROVE  Served(c, c, {}) /\ Muted(c, c)
BY DEF Served, Muted, Sends, Typed

\* What trx_ctrl_cmd does, field by field.
LEMMA CtrlCmdIs ==
  ASSUME NEW c, DOMAIN c = Fields, NEW word, NEW arg
  PROVE  LET d == trx_ctrl_cmd(c, word, arg)
             e == [cmd |-> [word |-> word, arg |-> arg, id |-> c.issued + 1], retry_cnt |-> 0]
         IN /\ DOMAIN d = Fields
            /\ d.list = Append(c.list, e)
            /\ d.issued = c.issued + 1
            /\ d.out = IF c.list = <<>> THEN Append(c.out, e.cmd) ELSE c.out
            /\ d.powered_up = c.powered_up /\ d.up = c.up /\ d.ts = c.ts
            /\ d.ta = c.ta /\ d.arfcn = c.arfcn
            /\ d.fbsb_timer = c.fbsb_timer /\ d.fbsb_conf_sent = c.fbsb_conf_sent
<1> DEFINE e == [cmd |-> [word |-> word, arg |-> arg, id |-> c.issued + 1], retry_cnt |-> 0]
           q == Enlist(c, word, arg)
           d == trx_ctrl_cmd(c, word, arg)
<1>1. /\ DOMAIN q = Fields
      /\ q.list = Append(c.list, e) /\ q.issued = c.issued + 1
      /\ q.out = c.out /\ q.powered_up = c.powered_up /\ q.up = c.up /\ q.ts = c.ts
      /\ q.ta = c.ta /\ q.arfcn = c.arfcn
      /\ q.fbsb_timer = c.fbsb_timer /\ q.fbsb_conf_sent = c.fbsb_conf_sent
  BY DEF Enlist, Fields
<1>2. CASE c.list # <<>>
  BY <1>1, <1>2 DEF trx_ctrl_cmd
<1>3. CASE c.list = <<>>
  <2>1. q.list # <<>> /\ Head(q.list).cmd = e.cmd
    <3> HIDE DEF e, q
    <3>1. q.list = <<e>>
      BY <1>1, <1>3
    <3> QED
      BY <3>1
  <2>2. d = Send(q)
    BY <1>3 DEF trx_ctrl_cmd
  <2> HIDE DEF q, d, e
  <2>3. \E w : /\ DOMAIN w = Fields
               /\ w.list = q.list /\ w.issued = q.issued
               /\ w.out = q.out /\ w.powered_up = q.powered_up /\ w.up = q.up /\ w.ts = q.ts
               /\ w.ta = q.ta /\ w.arfcn = q.arfcn
               /\ w.fbsb_timer = q.fbsb_timer /\ w.fbsb_conf_sent = q.fbsb_conf_sent
               /\ d = [w EXCEPT !.timer = TRUE, !.out = Append(@, Head(q.list).cmd)]
    BY <1>1, <2>1, <2>2 DEF Send, StateChg, Fields
  <2>4. /\ DOMAIN d = Fields
        /\ d.list = q.list /\ d.issued = q.issued
        /\ d.out = Append(q.out, e.cmd)
        /\ d.powered_up = q.powered_up /\ d.up = q.up /\ d.ts = q.ts
        /\ d.ta = q.ta /\ d.arfcn = q.arfcn
        /\ d.fbsb_timer = q.fbsb_timer /\ d.fbsb_conf_sent = q.fbsb_conf_sent
    BY <2>1, <2>3 DEF Fields
  <2> QED
    BY <1>1, <1>3, <2>4 DEF d, e
<1> QED
  BY <1>2, <1>3

\* What trxcon takes the registers for does not change with a command.
LEMMA CtrlCmdKeeps ==
  ASSUME NEW c, DOMAIN c = Fields, NEW word, NEW arg, NEW d, d = trx_ctrl_cmd(c, word, arg)
  PROVE  DOMAIN d = Fields /\ d.ts = c.ts /\ d.ta = c.ta /\ d.arfcn = c.arfcn
<1> DEFINE q == Enlist(c, word, arg)
<1>1. DOMAIN q = Fields /\ q.ts = c.ts /\ q.ta = c.ta /\ q.arfcn = c.arfcn
  BY DEF Enlist, Fields
<1> HIDE DEF q
<1>2. /\ DOMAIN Send(q) = Fields
      /\ Send(q).ts = q.ts /\ Send(q).ta = q.ta /\ Send(q).arfcn = q.arfcn
  BY <1>1 DEF Send, StateChg, Fields
<1> QED
  BY <1>1, <1>2 DEF trx_ctrl_cmd, q

\* trx_ctrl_cmd deals with the register its command writes and spoils no other.
LEMMA CmdServed ==
  ASSUME NEW c, NEW q, NEW X, Typed(c), Served(c, q, X), NEW word, NEW arg, NEW Y,
         \A w, i :
           Register(w, i) /\ <<w, i>> \notin Y =>
             IF Writes([word |-> word, arg |-> arg], w, i)
             THEN Value([word |-> word, arg |-> arg]) = Want(q, w, i)
             ELSE <<w, i>> \notin X
  PROVE  /\ Served(c, trx_ctrl_cmd(q, word, arg), Y)
         /\ Muted(c, q) /\ word # "POWERON" => Muted(c, trx_ctrl_cmd(q, word, arg))
<1> DEFINE d == trx_ctrl_cmd(q, word, arg)
           e == [cmd |-> [word |-> word, arg |-> arg, id |-> q.issued + 1], retry_cnt |-> 0]
<1>1. DOMAIN q = Fields /\ IsSeq(q.list) /\ Len(q.list) \in Nat /\ IsSeq(c.list) /\ Len(c.list) \in Nat
  BY AppendSeq DEF Served, Typed
<1>2. /\ DOMAIN d = Fields
      /\ d.list = Append(q.list, e)
      /\ d.issued = q.issued + 1
      /\ d.out = IF q.list = <<>> THEN Append(q.out, e.cmd) ELSE q.out
      /\ d.powered_up = q.powered_up /\ d.up = q.up /\ d.ts = q.ts
      /\ d.ta = q.ta /\ d.arfcn = q.arfcn
      /\ d.fbsb_timer = q.fbsb_timer /\ d.fbsb_conf_sent = q.fbsb_conf_sent
  BY <1>1, CtrlCmdIs
<1>3. e.cmd.word = word /\ e.cmd.arg = arg /\ e.cmd.id = q.issued + 1
  OBVIOUS
<1> HIDE DEF d, e
<1>4. /\ IsSeq(d.list) /\ d.list # <<>>
      /\ Len(d.list) = Len(q.list) + 1
      /\ \A n \in 1 .. Len(q.list) : d.list[n] = q.list[n]
      /\ d.list[Len(q.list) + 1] = e
  BY SMTT(40), <1>1, <1>2, AppendSeq
<1>5. Typed(d) /\ Base(d) = Base(q)
  <2>1. q.issued \in Int /\ \A n \in 1 .. Len(q.list) : q.list[n].cmd.id = Base(q) + n
    BY DEF Served, Typed
  <2>2. d.issued \in Int /\ Base(d) = Base(q)
    <3>1. d.issued = q.issued + 1 /\ Len(d.list) = Len(q.list) + 1 /\ Len(q.list) \in Nat
      BY <1>1, <1>2, <1>4
    <3>2. Base(q) = q.issued - Len(q.list) /\ Base(d) = d.issued - Len(d.list)
      BY Zenon DEF Base
    <3>3. d.issued - Len(d.list) = (q.issued + 1) - (Len(q.list) + 1)
      BY <3>1
    <3>4. q.issued \in Int
      BY <2>1
    <3>5. (q.issued + 1) - (Len(q.list) + 1) = q.issued - Len(q.list)
      BY SMTT(40), <3>1, <3>4
    <3> QED
      BY <3>1, <3>2, <3>3, <3>4, <3>5
  <2>3. ASSUME NEW n \in 1 .. Len(d.list)
        PROVE  d.list[n].cmd.id = Base(q) + n
    <3>1. n \in 1 .. Len(q.list) \/ n = Len(q.list) + 1
      BY <1>1, <1>4
    <3>2. Base(q) + (Len(q.list) + 1) = q.issued + 1
      BY <1>1, <2>1 DEF Base
    <3> QED
      BY <1>3, <1>4, <2>1, <3>1, <3>2
  <2> QED
    BY <1>2, <1>4, <2>2, <2>3 DEF Typed
<1>6. Sends(c, d)
  <2>1. q.list # <<>> => d.list[1] = q.list[1]
    BY <1>1, <1>4, TailSeq
  <2>2. q.list = <<>> => d.list[1] = e /\ c.list = <<>>
    BY <1>1, <1>4, EmptySeq DEF Served, Sends
  <2> QED
    BY <1>2, <1>4, <2>1, <2>2 DEF Served, Sends
<1>7. ASSUME NEW m \in 0 .. Len(c.list), NEW dv, Agreement(c, m, dv, {})
      PROVE  Agreement(d, m, dv, Y)
  <2>1. SUFFICES ASSUME NEW w, NEW i, Register(w, i), <<w, i>> \notin Y, Wanted(d, w)
                 PROVE  Converges(d.list, m, w, i, Have(dv, w, i), Want(d, w, i))
    BY DEF Agreement
  <2>2. Want(d, w, i) = Want(q, w, i) /\ Wanted(q, w)
    BY <1>2, <2>1 DEF Want, Wanted
  <2>3. m \in 0 .. Len(q.list) /\ Agreement(q, m, dv, X)
    BY <1>1, <1>7 DEF Served
  <2>4. /\ Writes([word |-> word, arg |-> arg], w, i) <=> Writes(e.cmd, w, i)
        /\ Value([word |-> word, arg |-> arg]) = Value(e.cmd)
    BY <1>3 DEF Writes, Value
  <2>5. IF Writes(e.cmd, w, i) THEN Value(e.cmd) = Want(q, w, i)
        ELSE Converges(q.list, m, w, i, Have(dv, w, i), Want(q, w, i))
    BY <2>1, <2>2, <2>3, <2>4 DEF Agreement
  <2> QED
    BY <1>1, <1>2, <2>2, <2>3, <2>5, ConvergesAppend
<1>8. Muted(c, q) /\ word # "POWERON" => Muted(c, d)
  <2>1. ASSUME NoPoweron(q.list), word # "POWERON", NEW n \in 1 .. Len(d.list)
        PROVE  d.list[n].cmd.word # "POWERON"
    <3>1. n \in 1 .. Len(q.list) \/ n = Len(q.list) + 1
      BY <1>1, <1>4
    <3> QED
      BY <1>3, <1>4, <2>1, <3>1 DEF NoPoweron
  <2> QED
    BY <1>2, <2>1 DEF Muted, NoPoweron
<1> QED
  BY <1>1, <1>2, <1>4, <1>5, <1>6, <1>7, <1>8 DEF Served, d

\* Fields of the scheduler and of the configuration may change as long as the
\* registers that then want another value are dealt with.
LEMMA FieldsServed ==
  ASSUME NEW c, NEW q, NEW X, Typed(c), Served(c, q, X), NEW d, NEW Y,
         DOMAIN d = Fields, d.list = q.list, d.issued = q.issued, d.out = q.out,
         d.powered_up = q.powered_up, NoConf(q.up) => NoConf(d.up),
         \A w, i :
           Register(w, i) /\ <<w, i>> \notin Y =>
             /\ <<w, i>> \notin X
             /\ Want(d, w, i) = Want(q, w, i)
             /\ Wanted(d, w) => Wanted(q, w)
  PROVE  Served(c, d, Y)
<1>1. Typed(d) /\ Base(d) = Base(q)
  BY DEF Served, Typed, Base
<1>2. Sends(c, d)
  BY DEF Served, Sends
<1>3. ASSUME NEW m \in 0 .. Len(c.list), NEW dv, Agreement(c, m, dv, {})
      PROVE  Agreement(d, m, dv, Y)
  BY <1>3 DEF Served, Agreement
<1> QED
  BY <1>1, <1>2, <1>3 DEF Served

\* A command that writes no register.
LEMMA PlainServed ==
  ASSUME NEW c, NEW q, Typed(c), Served(c, q, {}), NEW word, word \notin Registers, NEW arg
  PROVE  /\ Served(c, trx_ctrl_cmd(q, word, arg), {})
         /\ Muted(c, q) /\ word # "POWERON" => Muted(c, trx_ctrl_cmd(q, word, arg))
<1>1. \A w, i : Register(w, i) => ~Writes([word |-> word, arg |-> arg], w, i)
  BY DEF Register, Writes
<1> QED
  BY <1>1, CmdServed

\* SETSLOT deals with the timeslot if it says what trxcon takes it for.
LEMMA SlotServed ==
  ASSUME NEW c, NEW q, NEW tn, NEW X, X \subseteq {<<"SETSLOT", tn>>},
         Typed(c), Served(c, q, X), NEW b \in {0, 1}
  PROVE  /\ Served(c, trx_ctrl_cmd(q, "SETSLOT", <<tn, b>>), {<<"SETSLOT", tn>>})
         /\ (b = 1 <=> tn \in q.ts) => Served(c, trx_ctrl_cmd(q, "SETSLOT", <<tn, b>>), {})
         /\ Muted(c, q) => Muted(c, trx_ctrl_cmd(q, "SETSLOT", <<tn, b>>))
<1> DEFINE cmd == [word |-> "SETSLOT", arg |-> <<tn, b>>]
<1>1. \A w, i : Register(w, i) => (Writes(cmd, w, i) <=> <<w, i>> = <<"SETSLOT", tn>>)
  BY DEF Register, Writes
<1>2. Value(cmd) = b
  BY DEF Value
<1>3. /\ Served(c, trx_ctrl_cmd(q, "SETSLOT", <<tn, b>>), {<<"SETSLOT", tn>>})
      /\ Muted(c, q) => Muted(c, trx_ctrl_cmd(q, "SETSLOT", <<tn, b>>))
  BY <1>1, CmdServed
<1>4. ASSUME b = 1 <=> tn \in q.ts
      PROVE  Served(c, trx_ctrl_cmd(q, "SETSLOT", <<tn, b>>), {})
  <2>1. Want(q, "SETSLOT", tn) = b
    BY <1>4 DEF Want
  <2>2. \A w, i : Register(w, i) => IF Writes(cmd, w, i) THEN Value(cmd) = Want(q, w, i)
                                    ELSE <<w, i>> \notin X
    BY <1>1, <1>2, <2>1
  <2> QED
    BY <2>2, CmdServed
<1> QED
  BY <1>3, <1>4

\* A timeslot is deleted, or left alone if there is none.
LEMMA DelTsServed ==
  ASSUME NEW c, NEW q, NEW tn, Typed(c), Served(c, q, {})
  PROVE  /\ Served(c, sched_trx_del_ts(q, tn), {})
         /\ Muted(c, q) => Muted(c, sched_trx_del_ts(q, tn))
<1> DEFINE r == RemoveTs(q, tn)
<1>1. /\ DOMAIN r = Fields /\ r.list = q.list /\ r.issued = q.issued /\ r.out = q.out
      /\ r.powered_up = q.powered_up /\ r.up = q.up /\ r.ts = q.ts \ {tn}
      /\ r.ta = q.ta /\ r.arfcn = q.arfcn
      /\ r.fbsb_timer = q.fbsb_timer /\ r.fbsb_conf_sent = q.fbsb_conf_sent
  BY DEF RemoveTs, Served, Typed, Fields
<1> HIDE DEF r
<1>2. \A w, i : Register(w, i) /\ <<w, i>> # <<"SETSLOT", tn>> => Want(r, w, i) = Want(q, w, i)
  BY <1>1 DEF Want, Register
<1>3. \A w : Wanted(r, w) => Wanted(q, w)
  BY <1>1 DEF Wanted
<1>4. Served(c, r, {<<"SETSLOT", tn>>})
  BY <1>1, <1>2, <1>3, FieldsServed
<1>5. Muted(c, q) => Muted(c, r)
  BY <1>1 DEF Muted
<1>6. /\ Served(c, trx_ctrl_cmd(r, "SETSLOT", <<tn, 0>>), {})
      /\ Muted(c, r) => Muted(c, trx_ctrl_cmd(r, "SETSLOT", <<tn, 0>>))
  <2>1. 0 = 1 <=> tn \in r.ts
    BY <1>1
  <2> QED
    BY <1>4, <2>1, SlotServed
<1> QED
  BY <1>5, <1>6 DEF sched_trx_del_ts, r

\* All timeslots are deleted.
LEMMA ResetServed ==
  ASSUME NEW c, NEW q, Typed(c), Served(c, q, {})
  PROVE  /\ Served(c, sched_trx_reset(q), {})
         /\ Muted(c, q) => Muted(c, sched_trx_reset(q))
<1> DEFINE four(d, tn) == sched_trx_del_ts(sched_trx_del_ts(
                            sched_trx_del_ts(sched_trx_del_ts(d, tn), tn + 1), tn + 2), tn + 3)
           OK(d) == Served(c, d, {}) /\ (Muted(c, q) => Muted(c, d))
<1>1. ASSUME NEW d, OK(d), NEW tn
      PROVE  OK(sched_trx_del_ts(d, tn))
  BY <1>1, DelTsServed
<1> HIDE DEF OK
<1>2. ASSUME NEW d, OK(d), NEW tn
      PROVE  OK(four(d, tn))
  <2>1. OK(sched_trx_del_ts(d, tn))
    BY <1>1, <1>2
  <2>2. OK(sched_trx_del_ts(sched_trx_del_ts(d, tn), tn + 1))
    BY <1>1, <2>1
  <2>3. OK(sched_trx_del_ts(sched_trx_del_ts(sched_trx_del_ts(d, tn), tn + 1), tn + 2))
    BY <1>1, <2>2
  <2> QED
    BY <1>1, <2>3
<1>3. OK(q)
  BY DEF OK
<1>4. OK(four(four(q, 0), 4))
  <2> HIDE DEF four
  <2> QED
    BY <1>2, <1>3
<1>5. OK(sched_trx_reset(q))
  BY <1>4 DEF sched_trx_reset
<1> QED
  BY <1>5 DEF OK

\* A timeslot is configured, after it was deleted if it exists.
LEMMA ConfigureTsServed ==
  ASSUME NEW c, NEW q, NEW tn, Typed(c), Served(c, q, {})
  PROVE  /\ Served(c, sched_trx_configure_ts(q, tn), {})
         /\ Muted(c, q) => Muted(c, sched_trx_configure_ts(q, tn))
<1> DEFINE d == IF tn \in q.ts THEN trx_ctrl_cmd(q, "SETSLOT", <<tn, 0>>)
                ELSE [q EXCEPT !.ts = @ \cup {tn}]
           e == [d EXCEPT !.sch = @ \/ tn = 0]
           X == {<<"SETSLOT", tn>>}
<1>1. DOMAIN q = Fields
  BY DEF Served, Typed
<1>2. Served(c, d, X) /\ tn \in d.ts /\ (Muted(c, q) => Muted(c, d))
  <2>1. CASE tn \in q.ts
    <3>1. d = trx_ctrl_cmd(q, "SETSLOT", <<tn, 0>>)
      BY <2>1
    <3> HIDE DEF d
    <3>2. d.ts = q.ts
      BY <1>1, <3>1, CtrlCmdKeeps
    <3>3. Served(c, d, X) /\ (Muted(c, q) => Muted(c, d))
      BY <3>1, SlotServed
    <3> QED
      BY <2>1, <3>2, <3>3
  <2>2. CASE tn \notin q.ts
    <3>1. /\ DOMAIN d = Fields /\ d.list = q.list /\ d.issued = q.issued /\ d.out = q.out
          /\ d.powered_up = q.powered_up /\ d.up = q.up /\ d.ts = q.ts \cup {tn}
          /\ d.ta = q.ta /\ d.arfcn = q.arfcn
          /\ d.fbsb_timer = q.fbsb_timer /\ d.fbsb_conf_sent = q.fbsb_conf_sent
      BY <1>1, <2>2 DEF Fields
    <3> HIDE DEF d
    <3>2. \A w, i : Register(w, i) /\ <<w, i>> \notin X => Want(d, w, i) = Want(q, w, i)
      BY <3>1 DEF Want, Register
    <3>3. \A w : Wanted(d, w) => Wanted(q, w)
      BY <3>1 DEF Wanted
    <3>4. Served(c, d, X)
      BY <3>1, <3>2, <3>3, FieldsServed
    <3> QED
      BY <3>1, <3>4 DEF Muted
  <2> QED
    BY <2>1, <2>2
<1> HIDE DEF d
<1>3. /\ DOMAIN e = Fields /\ e.list = d.list /\ e.issued = d.issued /\ e.out = d.out
      /\ e.powered_up = d.powered_up /\ e.up = d.up /\ e.ts = d.ts
      /\ e.ta = d.ta /\ e.arfcn = d.arfcn
      /\ e.fbsb_timer = d.fbsb_timer /\ e.fbsb_conf_sent = d.fbsb_conf_sent
  BY <1>2 DEF Served, Typed, Fields
<1> HIDE DEF e
<1>4. Served(c, e, X) /\ (Muted(c, q) => Muted(c, e))
  <2>1. \A w, i : Want(e, w, i) = Want(d, w, i) /\ (Wanted(e, w) => Wanted(d, w))
    BY <1>3 DEF Want, Wanted
  <2> QED
    BY <1>2, <1>3, <2>1, FieldsServed DEF Muted
<1>5. /\ Served(c, trx_ctrl_cmd(e, "SETSLOT", <<tn, 1>>), {})
      /\ Muted(c, q) => Muted(c, trx_ctrl_cmd(e, "SETSLOT", <<tn, 1>>))
  BY <1>2, <1>3, <1>4, SlotServed
<1> QED
  BY <1>5 DEF sched_trx_configure_ts, d, e

\* The two tuning commands, when the frequency changes.
LEMMA TuneServed ==
  ASSUME NEW c, NEW q, NEW arfcn, Typed(c), Served(c, q, {})
  PROVE  /\ Served(c, TuneIfDiffers(q, arfcn), {})
         /\ Muted(c, q) => Muted(c, TuneIfDiffers(q, arfcn))
<1> DEFINE r == [q EXCEPT !.arfcn = arfcn]
           s == trx_ctrl_cmd(r, "RXTUNE", <<arfcn>>)
           d == trx_ctrl_cmd(s, "TXTUNE", <<arfcn>>)
           RX == [word |-> "RXTUNE", arg |-> <<arfcn>>]
           TX == [word |-> "TXTUNE", arg |-> <<arfcn>>]
<1>1. /\ DOMAIN r = Fields /\ r.list = q.list /\ r.issued = q.issued /\ r.out = q.out
      /\ r.powered_up = q.powered_up /\ r.up = q.up /\ r.ts = q.ts
      /\ r.ta = q.ta /\ r.arfcn = arfcn
      /\ r.fbsb_timer = q.fbsb_timer /\ r.fbsb_conf_sent = q.fbsb_conf_sent
  BY DEF Served, Typed, Fields
<1> HIDE DEF r
<1>2. Served(c, r, {<<"RXTUNE", 0>>, <<"TXTUNE", 0>>}) /\ (Muted(c, q) => Muted(c, r))
  <2>1. \A w, i : Register(w, i) /\ <<w, i>> \notin {<<"RXTUNE", 0>>, <<"TXTUNE", 0>>} =>
                    w \in {"SETSLOT", "SETTA"}
    BY DEF Register, Registers
  <2>2. \A i : \A w \in {"SETSLOT", "SETTA"} : Want(r, w, i) = Want(q, w, i) /\ Wanted(q, w)
    BY <1>1 DEF Want, Wanted
  <2> QED
    BY <1>1, <2>1, <2>2, FieldsServed DEF Muted
<1>3. /\ Served(c, s, {<<"TXTUNE", 0>>}) /\ (Muted(c, q) => Muted(c, s))
      /\ DOMAIN s = Fields /\ s.arfcn = arfcn
  <2>1. \A w, i : Register(w, i) => (Writes(RX, w, i) <=> <<w, i>> = <<"RXTUNE", 0>>)
    BY DEF Register, Writes
  <2>2. \A i : Value(RX) = Want(r, "RXTUNE", i)
    BY <1>1 DEF Value, Want
  <2>3. \A w, i : Register(w, i) /\ <<w, i>> \notin {<<"TXTUNE", 0>>} =>
          IF Writes(RX, w, i) THEN Value(RX) = Want(r, w, i)
          ELSE <<w, i>> \notin {<<"RXTUNE", 0>>, <<"TXTUNE", 0>>}
    BY <2>1, <2>2
  <2>4. DOMAIN s = Fields /\ s.arfcn = arfcn
    <3>1. s = trx_ctrl_cmd(r, "RXTUNE", <<arfcn>>)
      OBVIOUS
    <3> HIDE DEF s
    <3> QED
      BY <1>1, <3>1, CtrlCmdKeeps
  <2>5. Served(c, s, {<<"TXTUNE", 0>>}) /\ (Muted(c, r) => Muted(c, s))
    BY <1>2, <2>3, CmdServed
  <2> QED
    BY <1>2, <2>4, <2>5
<1> HIDE DEF s
<1>4. Served(c, d, {}) /\ (Muted(c, q) => Muted(c, d))
  <2>1. \A w, i : Register(w, i) => (Writes(TX, w, i) <=> <<w, i>> = <<"TXTUNE", 0>>)
    BY DEF Register, Writes
  <2>2. \A i : Value(TX) = Want(s, "TXTUNE", i)
    BY <1>3 DEF Value, Want
  <2>3. \A w, i : Register(w, i) /\ <<w, i>> \notin {} =>
          IF Writes(TX, w, i) THEN Value(TX) = Want(s, w, i)
          ELSE <<w, i>> \notin {<<"TXTUNE", 0>>}
    BY <2>1, <2>2
  <2> QED
    BY <1>3, <2>3, CmdServed
<1> QED
  BY <1>4 DEF TuneIfDiffers, Tune, r, s

\* The timing advance, when it changes.
LEMMA ParamServed ==
  ASSUME NEW c, NEW q, NEW ta, Typed(c), Served(c, q, {})
  PROVE  /\ Served(c, l1ctl_rx_param_req(q, ta), {})
         /\ Muted(c, q) => Muted(c, l1ctl_rx_param_req(q, ta))
<1> DEFINE r == trx_ctrl_cmd(q, "SETTA", <<ta>>)
           d == [r EXCEPT !.ta = ta]
           TA == [word |-> "SETTA", arg |-> <<ta>>]
           e == [cmd |-> [word |-> "SETTA", arg |-> <<ta>>, id |-> q.issued + 1], retry_cnt |-> 0]
<1>1. /\ Served(c, r, {<<"SETTA", 0>>}) /\ (Muted(c, q) => Muted(c, r))
      /\ DOMAIN r = Fields /\ r.list = Append(q.list, e)
  <2>1. \A w, i : Register(w, i) => (Writes(TA, w, i) <=> <<w, i>> = <<"SETTA", 0>>)
    BY DEF Register, Writes
  <2>2. DOMAIN q = Fields
    BY DEF Served, Typed
  <2> QED
    BY <2>1, <2>2, CmdServed, CtrlCmdIs
<1>2. Typed(r) /\ Len(c.list) <= Len(r.list)
  BY <1>1 DEF Served
<1>3. e.cmd.word = "SETTA" /\ e.cmd.arg = <<ta>>
  OBVIOUS
<1> HIDE DEF r, e
<1>4. /\ DOMAIN d = Fields /\ d.list = r.list /\ d.issued = r.issued /\ d.out = r.out
      /\ d.powered_up = r.powered_up /\ d.up = r.up /\ d.ts = r.ts
      /\ d.ta = ta /\ d.arfcn = r.arfcn
      /\ d.fbsb_timer = r.fbsb_timer /\ d.fbsb_conf_sent = r.fbsb_conf_sent
  BY <1>1 DEF Fields
<1> HIDE DEF d
<1>5. Served(c, d, {<<"SETTA", 0>>}) /\ (Muted(c, q) => Muted(c, d))
  <2>1. \A w, i : Register(w, i) /\ <<w, i>> # <<"SETTA", 0>> =>
                    Want(d, w, i) = Want(r, w, i) /\ (Wanted(d, w) => Wanted(r, w))
    BY <1>4 DEF Want, Wanted, Register
  <2> QED
    BY <1>1, <1>4, <2>1, FieldsServed DEF Muted
<1>6. ASSUME NEW m \in 0 .. Len(c.list), NEW dv
      PROVE  Converges(d.list, m, "SETTA", 0, Have(dv, "SETTA", 0), Want(d, "SETTA", 0))
  <2>1. Writes(e.cmd, "SETTA", 0) /\ Value(e.cmd) = Want(d, "SETTA", 0)
    BY <1>3, <1>4 DEF Writes, Value, Want
  <2>2. IsSeq(q.list) /\ m \in 0 .. Len(q.list)
    <3>1. IsSeq(q.list) /\ Len(c.list) <= Len(q.list) /\ IsSeq(c.list)
      BY DEF Served, Typed
    <3> QED
      BY <3>1, AppendSeq
  <2> QED
    BY <1>1, <1>4, <2>1, <2>2, ConvergesAppend
<1>7. Served(c, d, {})
  BY <1>5, <1>6 DEF Served, Agreement
<1> QED
  BY <1>5, <1>7 DEF l1ctl_rx_param_req, r, d

\* Fields that no register, no command and no message depends on.
LEMMA AsideServed ==
  ASSUME NEW c, NEW q, Typed(c), Served(c, q, {}), NEW v
  PROVE  /\ Served(c, [q EXCEPT !.pm = v], {}) /\ (Muted(c, q) => Muted(c, [q EXCEPT !.pm = v]))
         /\ Served(c, [q EXCEPT !.sch = v], {}) /\ (Muted(c, q) => Muted(c, [q EXCEPT !.sch = v]))
         /\ Served(c, [q EXCEPT !.fbsb_conf_sent = v], {})
         /\ Served(c, [q EXCEPT !.fbsb_timer = v], {})
<1>1. ASSUME NEW d, DOMAIN d = Fields, d.list = q.list, d.issued = q.issued, d.out = q.out,
             d.powered_up = q.powered_up, d.up = q.up, d.ts = q.ts, d.ta = q.ta,
             d.arfcn = q.arfcn
      PROVE  Served(c, d, {})
  <2>1. \A w, i : Want(d, w, i) = Want(q, w, i) /\ (Wanted(d, w) => Wanted(q, w))
    BY <1>1 DEF Want, Wanted
  <2> QED
    BY <1>1, <2>1, FieldsServed
<1>2. DOMAIN q = Fields
  BY DEF Served, Typed
<1>3. Served(c, [q EXCEPT !.pm = v], {}) /\ Served(c, [q EXCEPT !.sch = v], {})
  BY <1>1, <1>2 DEF Fields
<1>4. Served(c, [q EXCEPT !.fbsb_conf_sent = v], {}) /\ Served(c, [q EXCEPT !.fbsb_timer = v], {})
  BY <1>1, <1>2 DEF Fields
<1>5. (Muted(c, q) => Muted(c, [q EXCEPT !.pm = v])) /\ (Muted(c, q) => Muted(c, [q EXCEPT !.sch = v]))
  BY <1>2 DEF Muted, Fields
<1> QED
  BY <1>3, <1>4, <1>5

\* An L1CTL message other than L1CTL_FBSB_CONF is produced.
LEMMA TellServed ==
  ASSUME NEW c, NEW q, Typed(c), Served(c, q, {}), NEW m, m.kind # "FBSB_CONF"
  PROVE  /\ Served(c, [q EXCEPT !.up = Append(@, m)], {})
         /\ Muted(c, q) => Muted(c, [q EXCEPT !.up = Append(@, m)])
<1> DEFINE d == [q EXCEPT !.up = Append(@, m)]
<1>1. /\ DOMAIN d = Fields /\ d.list = q.list /\ d.issued = q.issued /\ d.out = q.out
      /\ d.powered_up = q.powered_up /\ d.up = Append(q.up, m) /\ d.ts = q.ts
      /\ d.ta = q.ta /\ d.arfcn = q.arfcn
      /\ d.fbsb_timer = q.fbsb_timer /\ d.fbsb_conf_sent = q.fbsb_conf_sent
  BY DEF Served, Typed, Fields
<1> HIDE DEF d
<1>2. ASSUME NoConf(q.up)
      PROVE  NoConf(d.up)
  <2>1. /\ IsSeq(d.up) /\ Len(q.up) \in Nat /\ Len(d.up) = Len(q.up) + 1
        /\ \A n \in 1 .. Len(q.up) : d.up[n] = q.up[n]
        /\ d.up[Len(q.up) + 1] = m
    BY <1>1, <1>2, AppendSeq DEF NoConf
  <2>2. ASSUME NEW n \in 1 .. Len(d.up)
        PROVE  d.up[n].kind # "FBSB_CONF"
    <3>1. n \in 1 .. Len(q.up) \/ n = Len(q.up) + 1
      BY <2>1
    <3> QED
      BY <1>2, <2>1, <3>1 DEF NoConf
  <2> QED
    BY <2>1, <2>2 DEF NoConf
<1>3. \A w, i : Want(d, w, i) = Want(q, w, i) /\ (Wanted(d, w) => Wanted(q, w))
  BY <1>1 DEF Want, Wanted
<1>4. Served(c, d, {})
  <2>1. NoConf(q.up) => NoConf(d.up)
    BY <1>2
  <2>2. /\ DOMAIN d = Fields /\ d.list = q.list /\ d.issued = q.issued /\ d.out = q.out
        /\ d.powered_up = q.powered_up
    BY <1>1
  <2> QED
    BY <1>3, <2>1, <2>2, FieldsServed
<1> QED
  BY <1>1, <1>4 DEF Muted, d

\* trx_if_cmd_measure, trx_if_cmd_poweron and the two commands of a power cycle.
LEMMA PowerServed ==
  ASSUME NEW c, NEW q, Typed(c), Served(c, q, {}), NEW start, NEW stop
  PROVE  /\ Served(c, trx_if_cmd_measure(q, start, stop), {})
         /\ Muted(c, q) => Muted(c, trx_if_cmd_measure(q, start, stop))
         /\ Served(c, trx_if_cmd_poweron(q), {})
         /\ Served(c, PowerCycle(q), {})
         /\ Muted(c, q) => Muted(c, PowerCycle(q))
<1>1. {"MEASURE", "POWERON", "POWEROFF", "ECHO"} \cap Registers = {}
  BY DEF Registers
<1>2. /\ Served(c, trx_if_cmd_measure(q, start, stop), {})
      /\ Muted(c, q) => Muted(c, trx_if_cmd_measure(q, start, stop))
  <2> DEFINE r == [q EXCEPT !.pm = <<start, stop>>]
  <2>1. Served(c, r, {}) /\ (Muted(c, q) => Muted(c, r))
    BY AsideServed
  <2> HIDE DEF r
  <2>2. /\ Served(c, trx_ctrl_cmd(r, "MEASURE", <<start>>), {})
        /\ Muted(c, q) => Muted(c, trx_ctrl_cmd(r, "MEASURE", <<start>>))
    BY <1>1, <2>1, PlainServed
  <2> QED
    BY <2>2 DEF trx_if_cmd_measure, r
<1>3. Served(c, trx_if_cmd_poweron(q), {})
  BY <1>1, PlainServed DEF trx_if_cmd_poweron
<1>4. /\ Served(c, PowerCycle(q), {})
      /\ Muted(c, q) => Muted(c, PowerCycle(q))
  <2> DEFINE r == trx_ctrl_cmd(q, "POWEROFF", <<>>)
  <2>1. Served(c, r, {}) /\ (Muted(c, q) => Muted(c, r))
    BY <1>1, PlainServed
  <2> HIDE DEF r
  <2>2. /\ Served(c, trx_ctrl_cmd(r, "ECHO", <<>>), {})
        /\ Muted(c, q) => Muted(c, trx_ctrl_cmd(r, "ECHO", <<>>))
    BY <1>1, <2>1, PlainServed
  <2> QED
    BY <2>2 DEF PowerCycle, r
<1> QED
  BY <1>2, <1>3, <1>4

\* The request to synchronise clears fbsb_conf_sent and starts the expire timer.
LEMMA FbsbReqServed ==
  ASSUME NEW c, Typed(c), NEW arfcn
  PROVE  Served(c, l1ctl_rx_fbsb_req(c, arfcn), {})
<1> DEFINE p == sched_trx_configure_ts(sched_trx_reset(c), 0)
           q == [p EXCEPT !.fbsb_conf_sent = FALSE]
           r == trx_if_cmd_poweron(TuneIfDiffers(q, arfcn))
<1>1. Served(c, p, {})
  <2>1. Served(c, sched_trx_reset(c), {})
    BY ServedBegin, ResetServed
  <2> QED
    BY <2>1, ConfigureTsServed
<1> HIDE DEF p
<1>2. Served(c, q, {})
  BY <1>1, AsideServed
<1> HIDE DEF q
<1>3. Served(c, r, {})
  <2>1. Served(c, TuneIfDiffers(q, arfcn), {})
    BY <1>2, TuneServed
  <2> QED
    BY <2>1, PowerServed
<1> HIDE DEF r
<1>4. Served(c, [r EXCEPT !.fbsb_timer = TRUE], {})
  BY <1>3, AsideServed
<1> QED
  BY <1>4 DEF l1ctl_rx_fbsb_req, p, q, r

\* A request to reset.
LEMMA ResetReqServed ==
  ASSUME NEW c, Typed(c), NEW full
  PROVE  Served(c, l1ctl_rx_reset_req(c, full), {}) /\ Muted(c, l1ctl_rx_reset_req(c, full))
<1> DEFINE q == IF full THEN PowerCycle(c) ELSE c
           r == sched_trx_reset(q)
           m == [kind |-> "RESET_CONF"]
<1>1. Served(c, q, {}) /\ Muted(c, q)
  BY ServedBegin, PowerServed
<1> HIDE DEF q
<1>2. Served(c, r, {}) /\ Muted(c, r)
  BY <1>1, ResetServed
<1> HIDE DEF r
<1>3. m.kind # "FBSB_CONF"
  OBVIOUS
<1> HIDE DEF m
<1>4. Served(c, [r EXCEPT !.up = Append(@, m)], {}) /\ Muted(c, [r EXCEPT !.up = Append(@, m)])
  BY <1>2, <1>3, TellServed
<1> QED
  BY <1>4 DEF l1ctl_rx_reset_req, q, r, m

\* The requests for a dedicated channel, hopping or not.
LEMMA EstReqServed ==
  ASSUME NEW c, Typed(c), NEW tn, NEW arfcn
  PROVE  /\ Served(c, l1ctl_rx_dm_est_req_h0(c, tn, arfcn), {})
         /\ Muted(c, l1ctl_rx_dm_est_req_h0(c, tn, arfcn))
         /\ Served(c, l1ctl_rx_dm_est_req_h1(c, tn), {})
         /\ Muted(c, l1ctl_rx_dm_est_req_h1(c, tn))
<1>1. ASSUME NEW q, Served(c, q, {}), Muted(c, q)
      PROVE  Served(c, Dedicate(q, tn), {}) /\ Muted(c, Dedicate(q, tn))
  <2> DEFINE e == sched_trx_configure_ts(q, tn)
  <2>1. Served(c, e, {}) /\ Muted(c, e)
    BY <1>1, ConfigureTsServed
  <2> HIDE DEF e
  <2>2. Served(c, [e EXCEPT !.sch = @ /\ tn # 0], {}) /\ Muted(c, [e EXCEPT !.sch = @ /\ tn # 0])
    BY <2>1, AsideServed
  <2> QED
    BY <2>2 DEF Dedicate, e
<1>2. Served(c, TuneIfDiffers(c, arfcn), {}) /\ Muted(c, TuneIfDiffers(c, arfcn))
  BY ServedBegin, TuneServed
<1>3. /\ Served(c, trx_ctrl_cmd(c, "SETFH", <<>>), {})
      /\ Muted(c, trx_ctrl_cmd(c, "SETFH", <<>>))
  BY ServedBegin, PlainServed DEF Registers
<1> QED
  BY <1>1, <1>2, <1>3 DEF l1ctl_rx_dm_est_req_h0, l1ctl_rx_dm_est_req_h1

\* A change of the CCCH mode.
LEMMA CcchModeServed ==
  ASSUME NEW c, Typed(c), NEW differs
  PROVE  Served(c, l1ctl_rx_ccch_mode_req(c, differs), {}) /\ Muted(c, l1ctl_rx_ccch_mode_req(c, differs))
<1> DEFINE q == IF differs THEN sched_trx_configure_ts(c, 0) ELSE c
           m == [kind |-> "CCCH_MODE_CONF"]
<1>1. Served(c, q, {}) /\ Muted(c, q)
  BY ServedBegin, ConfigureTsServed
<1> HIDE DEF q
<1>2. m.kind # "FBSB_CONF"
  OBVIOUS
<1> HIDE DEF m
<1>3. Served(c, [q EXCEPT !.up = Append(@, m)], {}) /\ Muted(c, [q EXCEPT !.up = Append(@, m)])
  BY <1>1, <1>2, TellServed
<1> QED
  BY <1>3, ServedBegin DEF l1ctl_rx_ccch_mode_req, q, m

\* The client is gone.
LEMMA DisconnectServed ==
  ASSUME NEW c, Typed(c)
  PROVE  Served(c, L1ctlDisconnect(c), {}) /\ Muted(c, L1ctlDisconnect(c))
<1>1. Served(c, sched_trx_reset(c), {}) /\ Muted(c, sched_trx_reset(c))
  BY ServedBegin, ResetServed
<1> QED
  BY <1>1, ServedBegin, PowerServed DEF L1ctlDisconnect

\* What an answer to the head makes of powered_up.
NewPower(c, word) == CASE word = "POWERON"  -> TRUE
                       [] word = "POWEROFF" -> FALSE
                       [] OTHER             -> c.powered_up

\* Only the state machine's state, powered_up and the timer differ.
Alike(c, d) ==
  /\ DOMAIN d = Fields
  /\ d.list = c.list /\ d.issued = c.issued /\ d.out = c.out /\ d.up = c.up
  /\ d.ts = c.ts /\ d.ta = c.ta /\ d.arfcn = c.arfcn
  /\ d.fbsb_timer = c.fbsb_timer /\ d.fbsb_conf_sent = c.fbsb_conf_sent

\* An answer to the head leaves it in place, and sends nothing yet.
Worked(c, a) ==
  /\ Typed(a)
  /\ a.list # <<>> /\ a.list[1] = c.list[1] /\ a.out = c.out
  /\ Base(a) = Base(c)
  /\ NoConf(c.up) => NoConf(a.up)
  /\ Muted(c, a)
  /\ \A dv : Agreement(c, 1, dv, {}) => Agreement(a, 1, dv, {})

LEMMA AlikeWorked ==
  ASSUME NEW c, Typed(c), c.list # <<>>, NEW d, Alike(c, d)
  PROVE  Worked(c, d)
<1>1. Typed(d) /\ Base(d) = Base(c)
  BY DEF Alike, Typed, Base
<1>2. \A w, i : Want(d, w, i) = Want(c, w, i) /\ (Wanted(d, w) => Wanted(c, w))
  BY DEF Alike, Want, Wanted
<1>3. \A dv : Agreement(c, 1, dv, {}) => Agreement(d, 1, dv, {})
  BY <1>2 DEF Agreement, Alike
<1> QED
  BY <1>1, <1>3 DEF Worked, Alike, Muted

LEMMA ServedWorked ==
  ASSUME NEW c, Typed(c), c.list # <<>>, NEW d, Served(c, d, {}), Muted(c, d)
  PROVE  Worked(c, d)
<1>1. 1 \in 0 .. Len(c.list)
  BY TailSeq DEF Typed
<1> QED
  BY <1>1 DEF Served, Sends, Worked

LEMMA AnsweredWorked ==
  ASSUME NEW c, Typed(c), c.list # <<>>, NEW rsp
  PROVE  /\ Worked(c, Answered(c, rsp))
         /\ Answered(c, rsp).powered_up = NewPower(c, rsp.word)
<1> DEFINE a == Answered(c, rsp)
<1>1. DOMAIN c = Fields
  BY DEF Typed
<1>2. CASE rsp.word \in {"POWERON", "POWEROFF"}
  <2>1. Alike(c, a) /\ a.powered_up = NewPower(c, rsp.word)
    BY <1>1, <1>2 DEF Answered, StateChg, Alike, NewPower, Fields
  <2> QED
    BY <2>1, AlikeWorked
<1>3. CASE rsp.word \notin {"POWERON", "POWEROFF", "MEASURE"}
  <2>1. Alike(c, a) /\ a.powered_up = NewPower(c, rsp.word)
    BY <1>1, <1>3 DEF Answered, StateChg, Alike, NewPower, Fields
  <2> QED
    BY <2>1, AlikeWorked
<1>4. CASE rsp.word = "MEASURE"
  <2> DEFINE n == rsp.arg[1]
             m == PmConf(n, n = c.pm[2])
             q == [c EXCEPT !.up = Append(@, m)]
             d == trx_if_cmd_measure(q, n + 1, c.pm[2])
  <2>1. a = trx_if_measure_rsp_cb(c, n)
    BY <1>4 DEF Answered
  <2>2. m.kind # "FBSB_CONF"
    BY DEF PmConf
  <2>3. Served(c, c, {}) /\ Muted(c, c)
    BY ServedBegin
  <2>4. Served(c, q, {}) /\ Muted(c, q)
    <3> HIDE DEF m
    <3> QED
      BY <2>2, <2>3, TellServed
  <2>5. Served(c, d, {}) /\ Muted(c, d)
    <3> HIDE DEF q
    <3> QED
      BY <2>4, PowerServed
  <2>6. a \in {c, q, d}
    BY <2>1 DEF trx_if_measure_rsp_cb
  <2>7. Served(c, a, {}) /\ Muted(c, a)
    <3> HIDE DEF q, d, a
    <3> QED
      BY <2>3, <2>4, <2>5, <2>6
  <2> HIDE DEF a
  <2>8. Worked(c, a)
    BY <2>7, ServedWorked
  <2>9. a.powered_up = c.powered_up
    BY <2>7 DEF Served
  <2> QED
    BY <1>4, <2>8, <2>9 DEF NewPower, a
<1> QED
  BY <1>2, <1>3, <1>4

\* What an accepted answer makes of the state: the head is gone, the next command
\* sent, and registers that converged after the head do.
LEMMA ReadAccepted ==
  ASSUME NEW c, Typed(c), NEW rsp, Accepts(c, rsp)
  PROVE  LET d == trx_ctrl_read_cb(c, rsp)
         IN /\ Typed(d)
            /\ Base(d) = Base(c) + 1
            /\ d.out = IF d.list = <<>> THEN c.out ELSE Append(c.out, d.list[1].cmd)
            /\ d.powered_up = NewPower(c, rsp.word)
            /\ NoConf(c.up) => NoConf(d.up)
            /\ Muted(c, d)
            /\ \A dv : Agreement(c, 1, dv, {}) => Agreement(d, 0, dv, {})
<1> DEFINE b == [c EXCEPT !.timer = FALSE]
           a == Answered(b, rsp)
           p == [a EXCEPT !.list = Tail(@)]
           d == Send(p)
<1>1. DOMAIN c = Fields /\ c.list # <<>>
  BY DEF Typed, Accepts
<1>2. Alike(c, b) /\ b.powered_up = c.powered_up
  BY <1>1 DEF Alike, Fields
<1>3. Worked(c, b) /\ Typed(b) /\ b.list # <<>>
  BY <1>1, <1>2, AlikeWorked DEF Worked
<1> HIDE DEF b
<1>4. Worked(b, a) /\ a.powered_up = NewPower(b, rsp.word)
  BY <1>3, AnsweredWorked
<1>5. /\ Worked(c, a) /\ a.powered_up = NewPower(c, rsp.word)
  BY <1>2, <1>3, <1>4 DEF Worked, Muted, NewPower
<1>6. trx_ctrl_read_cb(c, rsp) = d
  BY DEF trx_ctrl_read_cb, b
<1> HIDE DEF a
<1>7. /\ DOMAIN p = Fields /\ p.list = Tail(a.list) /\ p.issued = a.issued
      /\ p.out = a.out /\ p.up = a.up /\ p.powered_up = a.powered_up
      /\ p.ts = a.ts /\ p.ta = a.ta /\ p.arfcn = a.arfcn
      /\ p.fbsb_timer = a.fbsb_timer /\ p.fbsb_conf_sent = a.fbsb_conf_sent
  BY <1>5 DEF Worked, Typed, Fields
<1>8. /\ IsSeq(p.list)
      /\ Len(a.list) \in Nat \ {0}
      /\ Len(p.list) = Len(a.list) - 1
      /\ \A n \in 1 .. Len(a.list) - 1 : p.list[n] = a.list[n+1]
      /\ p.list # <<>> => Head(p.list) = p.list[1]
  BY <1>5, <1>7, TailSeq DEF Worked, Typed
<1> HIDE DEF p
<1>9. /\ DOMAIN d = Fields /\ d.list = p.list /\ d.issued = p.issued /\ d.up = p.up
      /\ d.powered_up = p.powered_up
      /\ d.ts = p.ts /\ d.ta = p.ta /\ d.arfcn = p.arfcn
      /\ d.fbsb_timer = p.fbsb_timer /\ d.fbsb_conf_sent = p.fbsb_conf_sent
  BY <1>7 DEF Send, StateChg, Fields
<1>10. d.out = IF p.list = <<>> THEN p.out ELSE Append(p.out, p.list[1].cmd)
  BY <1>7, <1>8 DEF Send, StateChg, Fields
<1> HIDE DEF d
<1>11. Typed(d) /\ Base(d) = Base(c) + 1
  <2>1. a.issued \in Int /\ Base(a) = Base(c) /\ \A n \in 1 .. Len(a.list) : a.list[n].cmd.id = Base(a) + n
    BY <1>5 DEF Worked, Typed
  <2>2. a.issued - (Len(a.list) - 1) = (a.issued - Len(a.list)) + 1
    BY <1>8, <2>1
  <2>3. Base(a) = a.issued - Len(a.list) /\ Base(d) = d.issued - Len(d.list)
    BY Zenon DEF Base
  <2>4. Base(d) = Base(a) + 1
    BY <1>7, <1>8, <1>9, <2>2, <2>3
  <2>5. Base(a) \in Int
    BY <1>8, <2>1, <2>3
  <2>6. ASSUME NEW n \in 1 .. Len(d.list)
        PROVE  d.list[n].cmd.id = Base(d) + n
    <3>1. n + 1 \in 1 .. Len(a.list) /\ d.list[n] = a.list[n+1]
      BY <1>8, <1>9
    <3>2. d.list[n].cmd.id = Base(a) + (n + 1)
      BY <2>1, <3>1
    <3>3. n \in Int
      BY <1>8, <1>9
    <3> QED
      BY <2>4, <2>5, <3>2, <3>3
  <2> QED
    BY <1>7, <1>8, <1>9, <2>1, <2>4, <2>6 DEF Typed
<1>12. Muted(c, d)
  <2>1. ASSUME NoPoweron(a.list), NEW n \in 1 .. Len(d.list)
        PROVE  d.list[n].cmd.word # "POWERON"
    <3>1. n + 1 \in 1 .. Len(a.list) /\ d.list[n] = a.list[n+1]
      BY <1>8, <1>9
    <3> QED
      BY <2>1, <3>1 DEF NoPoweron
  <2> QED
    BY <1>5, <1>7, <1>9, <2>1 DEF Worked, Muted, NoPoweron
<1>13. ASSUME NEW dv, Agreement(c, 1, dv, {})
       PROVE  Agreement(d, 0, dv, {})
  <2>1. SUFFICES ASSUME NEW w, NEW i, Register(w, i), Wanted(d, w)
                 PROVE  Converges(d.list, 0, w, i, Have(dv, w, i), Want(d, w, i))
    BY DEF Agreement
  <2>2. Want(d, w, i) = Want(a, w, i) /\ Wanted(a, w)
    BY <1>7, <1>9, <2>1 DEF Want, Wanted
  <2>3. Converges(a.list, 1, w, i, Have(dv, w, i), Want(a, w, i))
    BY <1>5, <1>13, <2>1, <2>2 DEF Worked, Agreement
  <2>4. IsSeq(a.list) /\ a.list # <<>>
    BY <1>5 DEF Worked, Typed
  <2> QED
    BY <1>9, <2>2, <2>3, <2>4, ConvergesTail DEF p
<1> QED
  BY <1>5, <1>6, <1>7, <1>9, <1>10, <1>11, <1>12, <1>13 DEF Worked

\* An answer that is not accepted changes neither the queue nor a register.
LEMMA ReadRejected ==
  ASSUME NEW c, DOMAIN c = Fields, NEW rsp, ~Accepts(c, rsp)
  PROVE  /\ Alike(c, trx_ctrl_read_cb(c, rsp))
         /\ trx_ctrl_read_cb(c, rsp).powered_up = c.powered_up
BY DEF trx_ctrl_read_cb, Alike, Fields

\* A timeout repeats the head, counts it, or gives up.
LEMMA TimerServed ==
  ASSUME NEW c, Typed(c)
  PROVE  LET d == trx_ctrl_timer_cb(c)
         IN /\ Typed(d)
            /\ Base(d) = Base(c) /\ Len(d.list) = Len(c.list)
            /\ d.list = <<>> <=> c.list = <<>>
            /\ \A n \in 1 .. Len(c.list) : d.list[n].cmd = c.list[n].cmd
            /\ d.out = c.out \/ (d.list # <<>> /\ d.out = Append(c.out, d.list[1].cmd))
            /\ d.powered_up = c.powered_up
            /\ d.up = c.up
            /\ Muted(c, d)
            /\ \A m, dv : m \in 0 .. Len(c.list) /\ Agreement(c, m, dv, {}) => Agreement(d, m, dv, {})
<1> DEFINE q == [c EXCEPT !.timer = FALSE, !.list[1].retry_cnt = @ + 1]
           e == [c.list[1] EXCEPT !.retry_cnt = @ + 1]
           d == trx_ctrl_timer_cb(c)
<1>1. PICK S : c.list \in Seq(S)
  BY DEF Typed, IsSeq
<1>2. DOMAIN c = Fields
  BY DEF Typed
<1>3. CASE c.list = <<>>
  <2>1. d = [c EXCEPT !.timer = FALSE]
    BY <1>3 DEF trx_ctrl_timer_cb
  <2>2. Alike(c, d) /\ d.powered_up = c.powered_up
    BY <1>2, <2>1 DEF Alike, Fields
  <2> HIDE DEF d
  <2>3. Typed(d) /\ Base(d) = Base(c)
    BY <2>2 DEF Alike, Typed, Base
  <2>4. \A w, i : Want(d, w, i) = Want(c, w, i) /\ (Wanted(d, w) => Wanted(c, w))
    BY <2>2 DEF Alike, Want, Wanted
  <2>5. \A m, dv : Agreement(c, m, dv, {}) => Agreement(d, m, dv, {})
    BY <2>2, <2>4 DEF Agreement, Alike
  <2>6. Muted(c, d)
    BY <2>2 DEF Muted, Alike
  <2> QED
    BY <2>2, <2>3, <2>5, <2>6 DEF Alike, d
<1>4. CASE c.list # <<>>
  <2>1. q.list = [c.list EXCEPT ![1] = e]
    BY <1>2 DEF Fields
  <2>2. c.list \in Seq(S \cup {e}) /\ 1 \in 1 .. Len(c.list) /\ Len(c.list) \in Nat
    BY <1>1, <1>4, SeqMonotonic, EmptySeq, LenProperties
  <2>3. /\ q.list \in Seq(S \cup {e})
        /\ Len(q.list) = Len(c.list)
        /\ \A n \in 1 .. Len(c.list) : q.list[n] = IF n = 1 THEN e ELSE c.list[n]
    BY <2>1, <2>2, ExceptSeq
  <2>4. e.cmd = c.list[1].cmd
    OBVIOUS
  <2>5. \A n \in 1 .. Len(c.list) : q.list[n].cmd = c.list[n].cmd
    BY <2>3, <2>4
  <2>6. IsSeq(q.list) /\ q.list # <<>>
    BY <2>2, <2>3, EmptySeq DEF IsSeq
  <2>7. Head(q.list) = q.list[1]
    BY <2>6, TailSeq
  <2>8. /\ DOMAIN q = Fields /\ q.issued = c.issued /\ q.out = c.out /\ q.up = c.up
        /\ q.powered_up = c.powered_up
        /\ q.ts = c.ts /\ q.ta = c.ta /\ q.arfcn = c.arfcn
        /\ q.fbsb_timer = c.fbsb_timer /\ q.fbsb_conf_sent = c.fbsb_conf_sent
    BY <1>2 DEF Fields
  <2> DEFINE g == [StateChg(q, "OFFLINE") EXCEPT !.events = @ \cup {"OFFLINE"}]
  <2>9. d = g \/ d = Send(q)
    BY <1>4 DEF trx_ctrl_timer_cb
  <2> HIDE DEF q, d, e
  <2>10. /\ Alike(q, g) /\ g.powered_up = q.powered_up
    BY <2>8 DEF StateChg, Fields, Alike
  <2>11. /\ DOMAIN Send(q) = Fields /\ Send(q).list = q.list /\ Send(q).issued = q.issued
         /\ Send(q).up = q.up /\ Send(q).powered_up = q.powered_up
         /\ Send(q).ts = q.ts /\ Send(q).ta = q.ta /\ Send(q).arfcn = q.arfcn
         /\ Send(q).fbsb_timer = q.fbsb_timer /\ Send(q).fbsb_conf_sent = q.fbsb_conf_sent
    BY <2>8 DEF Send, StateChg, Fields
  <2>12. Send(q).out = Append(q.out, q.list[1].cmd)
    BY <2>6, <2>7, <2>8 DEF Send, StateChg, Fields
  <2> HIDE DEF g
  <2>13. /\ DOMAIN d = Fields /\ d.list = q.list /\ d.issued = q.issued /\ d.up = q.up
         /\ d.powered_up = q.powered_up
         /\ d.ts = q.ts /\ d.ta = q.ta /\ d.arfcn = q.arfcn
         /\ d.fbsb_timer = q.fbsb_timer /\ d.fbsb_conf_sent = q.fbsb_conf_sent
    BY <2>9, <2>10, <2>11 DEF Alike
  <2>14. d.out = q.out \/ d.out = Append(q.out, q.list[1].cmd)
    BY <2>9, <2>10, <2>12 DEF Alike
  <2>15. Base(d) = Base(c) /\ Typed(d)
    <3>1. Base(d) = Base(c)
      BY <2>3, <2>8, <2>13 DEF Base
    <3> QED
      BY <2>3, <2>5, <2>6, <2>8, <2>13, <3>1 DEF Typed
  <2>16. Muted(c, d)
    BY <2>3, <2>5, <2>8, <2>13 DEF Muted, NoPoweron
  <2>17. ASSUME NEW m \in 0 .. Len(c.list), NEW dv, Agreement(c, m, dv, {})
         PROVE  Agreement(d, m, dv, {})
    <3>1. SUFFICES ASSUME NEW w, NEW i, Register(w, i), Wanted(d, w)
                   PROVE  Converges(d.list, m, w, i, Have(dv, w, i), Want(d, w, i))
      BY DEF Agreement
    <3>2. Want(d, w, i) = Want(c, w, i) /\ Wanted(c, w)
      BY <2>8, <2>13, <3>1 DEF Want, Wanted
    <3>3. Converges(c.list, m, w, i, Have(dv, w, i), Want(c, w, i))
      BY <2>17, <3>1, <3>2 DEF Agreement
    <3>4. Len(d.list) = Len(c.list) /\ \A n \in m + 1 .. Len(c.list) : d.list[n].cmd = c.list[n].cmd
      BY <2>2, <2>3, <2>5, <2>13
    <3>5. ASSUME NEW n \in m + 1 .. Len(c.list), NEW k \in n + 1 .. Len(c.list)
          PROVE  d.list[k].cmd = c.list[k].cmd
      BY <2>2, <3>4
    <3> QED
      BY <3>2, <3>3, <3>4, <3>5 DEF Converges
  <2> QED
    BY <1>4, <2>3, <2>5, <2>6, <2>8, <2>13, <2>14, <2>15, <2>16, <2>17 DEF d
<1> QED
  BY <1>3, <1>4

-----------------------------------------------------------------------------
(* The command-response protocol                                           *)

\* m is 1 when the transceiver has executed the head of the queue, else 0: until
\* then powered_up is what the transceiver is.
Powered(c, m, dv) ==
  /\ m = 0 \/ c.list[1].cmd.word \notin {"POWERON", "POWEROFF"} => c.powered_up = dv.running
  /\ m = 1 /\ c.list[1].cmd.word = "POWEROFF" => dv.running = FALSE

Reply(cmd, ok) == [word |-> cmd.word, arg |-> cmd.arg, id |-> cmd.id, ok |-> ok]

\* Nothing is under way, or the head of the queue, or the answer to it.
Wire(c, m, dv, cs, rs) ==
  \/ cs = <<>> /\ rs = <<>>
  \/ c.list # <<>> /\ cs = <<c.list[1].cmd>> /\ rs = <<>>
  \/ /\ c.list # <<>> /\ cs = <<>> /\ m = 1
     /\ \E ok \in BOOLEAN :
          /\ rs = <<Reply(c.list[1].cmd, ok)>>
          /\ c.list[1].cmd.word = "POWERON" /\ ok => dv.running = TRUE

\* trxcon and the transceiver with what is between them; m as above.
PairedAt(c, m, dv, cs, rs) ==
  /\ m \in {0, 1} /\ dv.executed = Base(c) + m
  /\ m = 1 => c.list # <<>>
  /\ Wire(c, m, dv, cs, rs)
  /\ Powered(c, m, dv)
  /\ Agreement(c, 0, dv, {})
  /\ m = 1 => Agreement(c, 1, dv, {})

Paired(c, dv, cs, rs) == \E m \in {0, 1} : PairedAt(c, m, dv, cs, rs)

\* Between two handlers nothing waits to be sent.
AtRest(c) == Typed(c) /\ c.out = <<>> /\ c.up = <<>>

Counters == {"requests", "connects", "cmd_loss", "rsp_loss", "early"}
Settings == {"running", "rx", "tx", "fh", "slots", "ta", "executed"}

Kept ==
  /\ AtRest(trx)
  /\ DOMAIN used = Counters /\ used.early \in Nat /\ used.connects \in Nat
  /\ DOMAIN dev = Settings
  /\ DOMAIN asked = {"fbsb", "pm"}

\* The inductive invariant behind the protocol.
QInv == Kept /\ (Punctual => Paired(trx, dev, cmds, rsps))

\* Sending what a handler produced changes no register and no command.
LEMMA CommitKeeps ==
  ASSUME NEW c, Typed(c), NEW a, Commit(c, a)
  PROVE  /\ AtRest(trx')
         /\ trx'.list = c.list /\ Base(trx') = Base(c) /\ trx'.powered_up = c.powered_up
         /\ trx'.ts = c.ts /\ trx'.ta = c.ta /\ trx'.arfcn = c.arfcn
         /\ trx'.fbsb_timer = c.fbsb_timer /\ trx'.fbsb_conf_sent = c.fbsb_conf_sent
         /\ \A m, dv : Agreement(c, m, dv, {}) => Agreement(trx', m, dv, {})
<1>1. /\ DOMAIN trx' = Fields
      /\ trx'.list = c.list /\ trx'.issued = c.issued /\ trx'.powered_up = c.powered_up
      /\ trx'.ts = c.ts /\ trx'.ta = c.ta /\ trx'.arfcn = c.arfcn
      /\ trx'.fbsb_timer = c.fbsb_timer /\ trx'.fbsb_conf_sent = c.fbsb_conf_sent
      /\ trx'.out = <<>> /\ trx'.up = <<>>
  BY DEF Commit, Typed, Fields
<1> DEFINE t == trx'
<1>2. /\ DOMAIN t = Fields
      /\ t.list = c.list /\ t.issued = c.issued
      /\ t.ts = c.ts /\ t.ta = c.ta /\ t.arfcn = c.arfcn
      /\ t.out = <<>> /\ t.up = <<>>
  BY <1>1
<1> HIDE DEF t
<1>3. AtRest(t) /\ Base(t) = Base(c)
  BY <1>2 DEF AtRest, Typed, Base
<1>4. \A w, i : Want(t, w, i) = Want(c, w, i) /\ (Wanted(t, w) => Wanted(c, w))
  BY <1>2 DEF Want, Wanted
<1>5. \A m, dv : Agreement(c, m, dv, {}) => Agreement(t, m, dv, {})
  BY <1>2, <1>4 DEF Agreement
<1> QED
  BY <1>1, <1>3, <1>5 DEF t

\* A request is served.
LEMMA RequestPaired ==
  ASSUME AtRest(trx), Paired(trx, dev, cmds, rsps),
         NEW d, Served(trx, d, {}), NEW a, Commit(d, a)
  PROVE  Paired(trx', dev, cmds', rsps)
<1>1. PICK m \in {0, 1} : PairedAt(trx, m, dev, cmds, rsps)
  BY DEF Paired
<1>2. /\ trx'.list = d.list /\ Base(trx') = Base(d) /\ trx'.powered_up = d.powered_up
      /\ \A k, dv : Agreement(d, k, dv, {}) => Agreement(trx', k, dv, {})
  BY CommitKeeps DEF Served
<1>3. cmds' = cmds \o d.out
  BY DEF Commit
<1>4. IsSeq(trx.list) /\ trx.out = <<>>
  BY DEF AtRest, Typed
<1>5. trx.list # <<>> => Len(trx.list) \in Nat \ {0}
  BY <1>4, TailSeq
<1>6. 0 \in 0 .. Len(trx.list) /\ (m = 1 => 1 \in 0 .. Len(trx.list))
  BY <1>1, <1>4, <1>5, EmptySeq DEF PairedAt
<1>7. /\ Agreement(trx', 0, dev, {})
      /\ m = 1 => Agreement(trx', 1, dev, {})
  BY <1>1, <1>2, <1>6 DEF PairedAt, Served
<1>8. /\ trx.list # <<>> => trx'.list # <<>> /\ trx'.list[1] = trx.list[1] /\ d.out = <<>>
      /\ trx.list = <<>> => d.out = IF trx'.list = <<>> THEN <<>> ELSE <<trx'.list[1].cmd>>
  BY <1>2, <1>4 DEF Served, Sends
<1>9. Wire(trx', m, dev, cmds', rsps)
  <2>1. CASE cmds = <<>> /\ rsps = <<>>
    <3>1. cmds' = d.out
      <4>1. d.out = <<>> \/ \E x : d.out = <<x>>
        BY <1>8
      <4> QED
        BY <1>3, <2>1, <4>1
    <3> QED
      BY <1>8, <2>1, <3>1 DEF Wire
  <2>2. CASE trx.list # <<>> /\ cmds = <<trx.list[1].cmd>> /\ rsps = <<>>
    <3>1. cmds' = cmds
      <4> DEFINE x == trx.list[1].cmd
      <4>1. <<x>> \o <<>> = <<x>>
        OBVIOUS
      <4> QED
        BY <1>3, <1>8, <2>2, <4>1
    <3> QED
      BY <1>8, <2>2, <3>1 DEF Wire
  <2>3. CASE /\ trx.list # <<>> /\ cmds = <<>> /\ m = 1
             /\ \E ok \in BOOLEAN :
                  /\ rsps = <<Reply(trx.list[1].cmd, ok)>>
                  /\ trx.list[1].cmd.word = "POWERON" /\ ok => dev.running = TRUE
    <3>1. cmds' = <<>>
      BY <1>3, <1>8, <2>3
    <3> QED
      BY <1>8, <2>3, <3>1 DEF Wire
  <2> QED
    BY <1>1, <2>1, <2>2, <2>3 DEF PairedAt, Wire
<1>10. Powered(trx', m, dev)
  BY <1>1, <1>2, <1>8 DEF PairedAt, Powered, Served
<1>11. dev.executed = Base(trx') + m /\ (m = 1 => trx'.list # <<>>)
  BY <1>1, <1>2, <1>8 DEF PairedAt, Served
<1> QED
  BY <1>7, <1>9, <1>10, <1>11 DEF PairedAt, Paired

\* What the transceiver makes of a command: its number and the power.
LEMMA ExecuteIs ==
  ASSUME NEW dv, DOMAIN dv = Settings, NEW cmd
  PROVE  LET dw == Execute(dv, cmd)
         IN /\ DOMAIN dw = Settings
            /\ dw.executed = cmd.id
            /\ cmd.word = "POWERON" => dw.running = IF Succeeds(dv, cmd) THEN TRUE ELSE dv.running
            /\ cmd.word = "POWEROFF" => dw.running = FALSE
            /\ cmd.word \notin {"POWERON", "POWEROFF"} => dw.running = dv.running
<1>1. CASE cmd.word = "POWERON"
  BY <1>1 DEF Execute, Settings
<1>2. CASE cmd.word = "POWEROFF"
  BY <1>2 DEF Execute, Succeeds, Settings
<1>3. CASE cmd.word \notin {"POWERON", "POWEROFF"} \cup Registers
  BY <1>3 DEF Execute, Succeeds, Settings, Registers
<1>4. CASE cmd.word \in Registers
  BY <1>4 DEF Execute, Succeeds, Settings, Registers
<1> QED
  BY <1>1, <1>2, <1>3, <1>4

\* A register has the value the command writes to it, or the one it had.
LEMMA RegisterExecuted ==
  ASSUME NEW dv, DOMAIN dv = Settings, NEW cmd, NEW dw, dw = Execute(dv, cmd),
         NEW w, NEW i, Register(w, i)
  PROVE  IF Writes(cmd, w, i) THEN Have(dw, w, i) = {Value(cmd)}
                              ELSE Have(dw, w, i) = Have(dv, w, i)
<1>1. /\ dw.slots = CASE cmd.word # "SETSLOT" -> dv.slots
                      [] cmd.word = "SETSLOT" /\ cmd.arg[2] = 0 -> dv.slots \ {cmd.arg[1]}
                      [] OTHER -> dv.slots \cup {cmd.arg[1]}
      /\ dw.ta = IF cmd.word = "SETTA" THEN cmd.arg[1] ELSE dv.ta
      /\ dw.rx = IF cmd.word = "RXTUNE" THEN {cmd.arg[1]} ELSE dv.rx
      /\ dw.tx = IF cmd.word = "TXTUNE" THEN {cmd.arg[1]} ELSE dv.tx
  <2>1. CASE cmd.word = "POWERON"
    BY <2>1 DEF Execute, Settings
  <2>2. CASE cmd.word \in Registers
    BY <2>2 DEF Execute, Succeeds, Settings, Registers
  <2>3. CASE cmd.word \notin {"POWERON"} \cup Registers
    BY <2>3 DEF Execute, Succeeds, Settings, Registers
  <2> QED
    BY <2>1, <2>2, <2>3
<1>2. CASE w = "SETSLOT"
  BY <1>1, <1>2 DEF Register, Registers, Writes, Have, Value
<1>3. CASE w # "SETSLOT"
  BY <1>1, <1>3 DEF Register, Registers, Writes, Have, Value
<1> QED
  BY <1>2, <1>3

\* The transceiver serves its socket.
LEMMA ServesPaired ==
  ASSUME Kept, Paired(trx, dev, cmds, rsps), TransceiverServes
  PROVE  /\ Paired(trx', dev', cmds', rsps')
         /\ dev'.executed \in {dev.executed, dev.executed + 1}
<1>1. PICK m \in {0, 1} : PairedAt(trx, m, dev, cmds, rsps)
  BY DEF Paired
<1> DEFINE h == trx.list[1].cmd
           ok == Succeeds(dev, h)
<1>2. trx.list # <<>> /\ cmds = <<h>> /\ rsps = <<>>
  BY <1>1 DEF PairedAt, Wire, TransceiverServes
<1>3. Head(cmds) = h /\ Tail(cmds) = <<>>
  BY <1>2
<1>4. /\ trx' = trx /\ dev' = Execute(dev, h) /\ cmds' = <<>>
      /\ rsps' = <<Reply(h, ok)>>
  BY <1>2, <1>3 DEF TransceiverServes, Reply
<1>5. IsSeq(trx.list) /\ Len(trx.list) \in Nat \ {0} /\ trx.issued \in Int
  BY <1>2, TailSeq DEF Kept, AtRest, Typed
<1>6. h.id = Base(trx) + 1 /\ Base(trx) \in Int
  BY <1>5 DEF Kept, AtRest, Typed, Base
<1>7. DOMAIN dev = Settings
  BY DEF Kept
<1>8. dev'.executed = Base(trx) + 1
  <2> HIDE DEF h
  <2>1. Execute(dev, h).executed = h.id
    BY <1>7, ExecuteIs
  <2> QED
    BY <1>4, <1>6, <2>1
<1>9. dev'.executed \in {dev.executed, dev.executed + 1}
  BY <1>1, <1>6, <1>8 DEF PairedAt
<1>10. Agreement(trx, 0, dev', {}) /\ Agreement(trx, 1, dev', {})
  <2>1. ASSUME NEW w, NEW i, Register(w, i), Wanted(trx, w)
        PROVE  /\ Converges(trx.list, 0, w, i, Have(dev', w, i), Want(trx, w, i))
               /\ Converges(trx.list, 1, w, i, Have(dev', w, i), Want(trx, w, i))
    <3>1. Converges(trx.list, 0, w, i, Have(dev, w, i), Want(trx, w, i))
      BY <1>1, <2>1 DEF PairedAt, Agreement
    <3> HIDE DEF h
    <3>2. IF Writes(h, w, i) THEN Have(dev', w, i) = {Value(h)}
                             ELSE Have(dev', w, i) = Have(dev, w, i)
      BY <1>4, <1>7, <2>1, RegisterExecuted
    <3>3. h = trx.list[1].cmd
      BY DEF h
    <3> QED
      BY <1>2, <1>5, <3>1, <3>2, <3>3, ConvergesExecuted
  <2> QED
    BY <2>1 DEF Agreement
<1>11. Powered(trx, 1, dev')
  <2>1. h.word = "POWEROFF" => dev'.running = FALSE
    BY ZenonT(40), <1>4, <1>7, ExecuteIs
  <2>2. h.word \notin {"POWERON", "POWEROFF"} => dev'.running = dev.running
    BY <1>4, <1>7, ExecuteIs
  <2>3. h.word \notin {"POWERON", "POWEROFF"} => trx.powered_up = dev.running
    BY <1>1 DEF PairedAt, Powered
  <2> QED
    BY <2>1, <2>2, <2>3 DEF Powered
<1>12. Wire(trx, 1, dev', <<>>, <<Reply(h, ok)>>)
  <2>1. ok \in BOOLEAN
    BY DEF Succeeds
  <2>2. h.word = "POWERON" /\ ok => dev'.running = TRUE
    BY <1>4, <1>7, ExecuteIs
  <2> HIDE DEF ok
  <2> QED
    BY <1>2, <2>1, <2>2 DEF Wire
<1>13. PairedAt(trx, 1, dev', <<>>, <<Reply(h, ok)>>)
  BY <1>2, <1>8, <1>10, <1>11, <1>12 DEF PairedAt
<1>14. Paired(trx, dev', <<>>, <<Reply(h, ok)>>)
  BY <1>13 DEF Paired
<1> QED
  BY <1>4, <1>9, <1>14

\* What concerns the protocol is the queue, powered_up and the registers.
LEMMA StillPaired ==
  ASSUME NEW c, NEW d, NEW m, NEW dv, NEW cs, NEW rs, PairedAt(c, m, dv, cs, rs),
         d.list = c.list, Base(d) = Base(c), d.powered_up = c.powered_up,
         d.ts = c.ts, d.ta = c.ta, d.arfcn = c.arfcn
  PROVE  PairedAt(d, m, dv, cs, rs)
<1>1. \A w, i : Want(d, w, i) = Want(c, w, i) /\ (Wanted(d, w) => Wanted(c, w))
  BY DEF Want, Wanted
<1>2. \A n : Agreement(c, n, dv, {}) => Agreement(d, n, dv, {})
  BY <1>1 DEF Agreement
<1>3. Wire(d, m, dv, cs, rs)
  BY DEF Wire, PairedAt
<1>4. Powered(d, m, dv)
  BY DEF Powered, PairedAt
<1> QED
  BY <1>2, <1>3, <1>4 DEF PairedAt

\* The answer to the head of the queue arrives.
LEMMA ReadPaired ==
  ASSUME Kept, Paired(trx, dev, cmds, rsps), ReadAnswer
  PROVE  Paired(trx', dev', cmds', rsps')
<1>1. PICK m \in {0, 1} : PairedAt(trx, m, dev, cmds, rsps)
  BY DEF Paired
<1> DEFINE h == trx.list[1].cmd
<1>2. trx.list # <<>> /\ cmds = <<>> /\ m = 1
  BY <1>1 DEF PairedAt, Wire, ReadAnswer
<1>3. PICK ok \in BOOLEAN : rsps = <<Reply(h, ok)>> /\ (h.word = "POWERON" /\ ok => dev.running = TRUE)
  BY <1>1 DEF PairedAt, Wire, ReadAnswer
<1> DEFINE r == Reply(h, ok)
           d == trx_ctrl_read_cb(trx, r)
<1>4. Commit(d, asked) /\ rsps' = <<>> /\ dev' = dev
  <2>1. Head(rsps) = r /\ Tail(rsps) = <<>>
    BY <1>3
  <2> QED
    BY <2>1 DEF ReadAnswer
<1>5. AtRest(trx) /\ Typed(trx) /\ DOMAIN trx = Fields /\ trx.out = <<>>
  BY DEF Kept, AtRest, Typed
<1>6. r.word = h.word /\ r.ok = ok
  BY DEF Reply
<1>7. cmds' = d.out
  <2>1. cmds' = <<>> \o d.out
    BY <1>2, <1>4 DEF Commit
  <2>2. d.out = <<>> \/ \E x : d.out = <<x>>
    <3>1. CASE Accepts(trx, r)
      <4>1. d.out = IF d.list = <<>> THEN trx.out ELSE Append(trx.out, d.list[1].cmd)
        BY <1>5, <3>1, ReadAccepted
      <4> HIDE DEF d
      <4>2. \A x : Append(<<>>, x) = <<x>>
        OBVIOUS
      <4> QED
        BY <1>5, <4>1, <4>2
    <3>2. CASE ~Accepts(trx, r)
      BY <1>5, <3>2, ReadRejected DEF Alike
    <3> QED
      BY <3>1, <3>2
  <2> QED
    BY <2>1, <2>2
<1> HIDE DEF h, r, d
<1>8. CASE Accepts(trx, r)
  <2>1. /\ Typed(d) /\ Base(d) = Base(trx) + 1
        /\ d.out = IF d.list = <<>> THEN <<>> ELSE <<d.list[1].cmd>>
        /\ d.powered_up = NewPower(trx, h.word)
        /\ Agreement(trx, 1, dev, {}) => Agreement(d, 0, dev, {})
    <3>1. LET e == trx_ctrl_read_cb(trx, r)
          IN /\ Typed(e) /\ Base(e) = Base(trx) + 1
             /\ e.out = IF e.list = <<>> THEN trx.out ELSE Append(trx.out, e.list[1].cmd)
             /\ e.powered_up = NewPower(trx, r.word)
             /\ \A dv : Agreement(trx, 1, dv, {}) => Agreement(e, 0, dv, {})
      BY <1>5, <1>8, ReadAccepted
    <3>2. \A x : Append(<<>>, x) = <<x>>
      OBVIOUS
    <3> QED
      BY <1>5, <1>6, <3>1, <3>2 DEF d
  <2>2. Agreement(d, 0, dev, {})
    BY <1>1, <1>2, <2>1 DEF PairedAt
  <2>3. d.powered_up = dev.running
    <3>1. h.word = "POWERON" => dev.running = TRUE
      BY <1>3, <1>6, <1>8 DEF Accepts, Critical
    <3>2. /\ h.word \notin {"POWERON", "POWEROFF"} => trx.powered_up = dev.running
          /\ h.word = "POWEROFF" => dev.running = FALSE
      BY <1>1, <1>2 DEF PairedAt, Powered, h
    <3> QED
      BY <2>1, <3>1, <3>2 DEF NewPower
  <2>4. dev.executed = Base(d) + 0
    <3>1. Base(trx) \in Int
      <4>1. Len(trx.list) \in Nat
        BY <1>5, AppendSeq DEF Typed
      <4> QED
        BY <1>5, <4>1 DEF Typed, Base
    <3> QED
      BY <1>1, <1>2, <2>1, <3>1 DEF PairedAt
  <2>5. Wire(d, 0, dev, d.out, <<>>)
    BY <2>1 DEF Wire
  <2>6. PairedAt(d, 0, dev, d.out, <<>>)
    BY <2>2, <2>3, <2>4, <2>5 DEF PairedAt, Powered
  <2>7. /\ trx'.list = d.list /\ Base(trx') = Base(d) /\ trx'.powered_up = d.powered_up
        /\ trx'.ts = d.ts /\ trx'.ta = d.ta /\ trx'.arfcn = d.arfcn
    BY <1>4, <2>1, CommitKeeps
  <2>8. PairedAt(trx', 0, dev, d.out, <<>>)
    BY <2>6, <2>7, StillPaired
  <2> QED
    BY <1>4, <1>7, <2>8 DEF Paired
<1>9. CASE ~Accepts(trx, r)
  <2>1. Alike(trx, d) /\ d.powered_up = trx.powered_up
    BY <1>5, <1>9, ReadRejected DEF d
  <2>2. Typed(d) /\ Base(d) = Base(trx) /\ d.out = <<>>
    BY <1>5, <2>1 DEF Alike, Typed, Base
  <2>3. PairedAt(trx, 1, dev, <<>>, <<>>)
    BY <1>1, <1>2 DEF PairedAt, Wire
  <2>4. /\ trx'.list = trx.list /\ Base(trx') = Base(trx) /\ trx'.powered_up = trx.powered_up
        /\ trx'.ts = trx.ts /\ trx'.ta = trx.ta /\ trx'.arfcn = trx.arfcn
    BY <1>4, <2>1, <2>2, CommitKeeps DEF Alike
  <2>5. PairedAt(trx', 1, dev, <<>>, <<>>)
    BY <2>3, <2>4, StillPaired
  <2> QED
    BY <1>4, <1>7, <2>2, <2>5 DEF Paired
<1> QED
  BY <1>8, <1>9

\* The timer expires, with nothing under way.
LEMMA TimerPaired ==
  ASSUME Kept, Paired(trx, dev, cmds, rsps), CtrlTimerExpires, cmds = <<>>, rsps = <<>>
  PROVE  Paired(trx', dev', cmds', rsps')
<1>1. PICK m \in {0, 1} : PairedAt(trx, m, dev, cmds, rsps)
  BY DEF Paired
<1> DEFINE d == trx_ctrl_timer_cb(trx)
<1>2. Commit(d, asked) /\ rsps' = <<>> /\ dev' = dev /\ cmds' = <<>> \o d.out
  BY DEF CtrlTimerExpires, Commit
<1>3. Typed(trx) /\ trx.out = <<>> /\ IsSeq(trx.list)
  BY DEF Kept, AtRest, Typed
<1>4. /\ Typed(d) /\ Base(d) = Base(trx)
      /\ d.list = <<>> <=> trx.list = <<>>
      /\ \A n \in 1 .. Len(trx.list) : d.list[n].cmd = trx.list[n].cmd
      /\ d.out = <<>> \/ (d.list # <<>> /\ d.out = <<d.list[1].cmd>>)
      /\ d.powered_up = trx.powered_up
      /\ \A n, dv : n \in 0 .. Len(trx.list) /\ Agreement(trx, n, dv, {}) => Agreement(d, n, dv, {})
  BY <1>3, TimerServed
<1> HIDE DEF d
<1>5. trx.list # <<>> => Len(trx.list) \in Nat \ {0} /\ d.list[1].cmd = trx.list[1].cmd
  BY <1>3, <1>4, TailSeq
<1>6. 0 \in 0 .. Len(trx.list) /\ (m = 1 => 1 \in 0 .. Len(trx.list))
  BY <1>1, <1>3, <1>5, EmptySeq DEF PairedAt
<1>7. Agreement(d, 0, dev, {}) /\ (m = 1 => Agreement(d, 1, dev, {}))
  BY <1>1, <1>4, <1>6 DEF PairedAt
<1>8. cmds' = d.out
  BY <1>2, <1>4
<1>9. Wire(d, m, dev, d.out, <<>>)
  BY <1>4 DEF Wire
<1>10. Powered(d, m, dev)
  BY <1>1, <1>4, <1>5 DEF PairedAt, Powered
<1>11. PairedAt(d, m, dev, d.out, <<>>)
  BY <1>1, <1>4, <1>7, <1>9, <1>10 DEF PairedAt
<1>12. /\ trx'.list = d.list /\ Base(trx') = Base(d) /\ trx'.powered_up = d.powered_up
       /\ trx'.ts = d.ts /\ trx'.ta = d.ta /\ trx'.arfcn = d.arfcn
  BY <1>2, <1>4, CommitKeeps
<1>13. PairedAt(trx', m, dev, d.out, <<>>)
  BY <1>11, <1>12, StillPaired
<1> QED
  BY <1>2, <1>8, <1>13 DEF Paired

\* A datagram is lost.
LEMMA LossPaired ==
  ASSUME Paired(trx, dev, cmds, rsps), LoseCommand \/ LoseAnswer
  PROVE  Paired(trx', dev', cmds', rsps')
<1>1. PICK m \in {0, 1} : PairedAt(trx, m, dev, cmds, rsps)
  BY DEF Paired
<1>2. trx' = trx /\ dev' = dev /\ cmds' = <<>> /\ rsps' = <<>>
  <2>1. \/ \E x : cmds = <<x>> /\ rsps = <<>> /\ LoseCommand
        \/ \E x : rsps = <<x>> /\ cmds = <<>> /\ LoseAnswer
    BY <1>1 DEF PairedAt, Wire, LoseCommand, LoseAnswer
  <2>2. \A x : Tail(<<x>>) = <<>>
    OBVIOUS
  <2>3. CASE \E x : cmds = <<x>> /\ rsps = <<>> /\ LoseCommand
    BY <2>2, <2>3 DEF LoseCommand
  <2>4. CASE \E x : rsps = <<x>> /\ cmds = <<>> /\ LoseAnswer
    BY <2>2, <2>4 DEF LoseAnswer
  <2> QED
    BY <2>1, <2>3, <2>4
<1>3. PairedAt(trx, m, dev, <<>>, <<>>)
  BY <1>1 DEF PairedAt, Wire
<1> QED
  BY <1>2, <1>3 DEF Paired

\* The confirmations of a synchronisation touch nothing of this.
LEMMA ConfPaired ==
  ASSUME Kept, FbsbTimerExpires \/ RxSch
  PROVE  /\ AtRest(trx')
         /\ Paired(trx, dev, cmds, rsps) => Paired(trx', dev', cmds', rsps')
<1>1. PICK d \in {fbsb_timer_cb(trx), rx_sch_fn(trx)} : Commit(d, asked)
  BY DEF FbsbTimerExpires, RxSch
<1>2. Typed(trx) /\ trx.out = <<>> /\ DOMAIN trx = Fields
  BY DEF Kept, AtRest, Typed
<1>3. /\ DOMAIN d = Fields
      /\ d.list = trx.list /\ d.issued = trx.issued /\ d.out = trx.out
      /\ d.powered_up = trx.powered_up /\ d.ts = trx.ts /\ d.ta = trx.ta /\ d.arfcn = trx.arfcn
  <2> DEFINE Told(ms) == [trx EXCEPT !.fbsb_conf_sent = TRUE, !.fbsb_timer = FALSE, !.up = ms]
  <2>1. d = trx \/ \E ms : d = Told(ms)
    BY <1>1 DEF fbsb_timer_cb, rx_sch_fn, l1ctl_tx_fbsb_conf
  <2> QED
    BY ZenonT(40), <1>2, <2>1 DEF Fields
<1>4. Typed(d) /\ Base(d) = Base(trx)
  BY <1>2, <1>3 DEF Typed, Base
<1>5. /\ AtRest(trx')
      /\ trx'.list = trx.list /\ Base(trx') = Base(trx) /\ trx'.powered_up = trx.powered_up
      /\ trx'.ts = trx.ts /\ trx'.ta = trx.ta /\ trx'.arfcn = trx.arfcn
  BY <1>1, <1>3, <1>4, CommitKeeps
<1>6. dev' = dev /\ rsps' = rsps /\ cmds' = cmds \o <<>>
  BY <1>1, <1>2, <1>3 DEF FbsbTimerExpires, RxSch, Commit
<1>7. ASSUME NEW m \in {0, 1}, PairedAt(trx, m, dev, cmds, rsps)
      PROVE  Paired(trx', dev', cmds', rsps')
  <2>1. cmds = <<>> \/ \E x : cmds = <<x>>
    BY <1>7 DEF PairedAt, Wire
  <2>2. cmds' = cmds
    BY <1>6, <2>1
  <2>3. PairedAt(trx', m, dev, cmds, rsps)
    BY <1>5, <1>7, StillPaired
  <2> QED
    BY <1>6, <2>2, <2>3 DEF Paired
<1> QED
  BY <1>5, <1>7 DEF Paired

\* The history of what the client waits for keeps its shape.
LEMMA StillAskedIs ==
  ASSUME NEW a, DOMAIN a = {"fbsb", "pm"}, NEW ms
  PROVE  DOMAIN StillAsked(a, ms) = {"fbsb", "pm"}
BY DEF StillAsked

\* A request, or the end of a connection.
LEMMA ServedQ ==
  ASSUME QInv, NEW d, Served(trx, d, {}),
         NEW a, DOMAIN a = {"fbsb", "pm"}, Commit(d, a),
         rsps' = rsps, dev' = dev,
         DOMAIN used' = Counters, used'.early = used.early, used'.connects = used.connects
  PROVE  QInv'
<1>1. AtRest(trx')
  BY CommitKeeps DEF Served
<1>2. DOMAIN asked' = {"fbsb", "pm"}
  BY StillAskedIs DEF Commit
<1>3. Kept'
  BY <1>1, <1>2 DEF QInv, Kept
<1>4. Punctual' => Paired(trx', dev', cmds', rsps')
  <2>1. AtRest(trx) /\ (Punctual' => Punctual)
    BY DEF QInv, Kept, Punctual
  <2>2. Paired(trx, dev, cmds, rsps) => Paired(trx', dev, cmds', rsps)
    BY <2>1, RequestPaired
  <2> QED
    BY <2>1, <2>2 DEF QInv
<1> QED
  BY <1>3, <1>4 DEF QInv

\* The invariant of trxcon and the transceiver.
THEOREM QInvariant == Spec => []QInv
<1>1. Init => QInv
  <2> SUFFICES ASSUME Init
               PROVE  QInv
    OBVIOUS
  <2> DEFINE c == InitInstance
             dv == InitTransceiver
  <2>1. /\ DOMAIN c = Fields /\ c.list = <<>> /\ c.issued = 0 /\ c.out = <<>> /\ c.up = <<>>
        /\ c.ts = {} /\ c.ta = 0 /\ c.arfcn = 0 /\ c.powered_up = FALSE
    BY DEF InitInstance, Fields
  <2>2. /\ DOMAIN dv = Settings /\ dv.slots = {} /\ dv.ta = 0 /\ dv.running = FALSE
        /\ dv.executed = 0
    BY DEF InitTransceiver, Settings
  <2>3. /\ trx = c /\ dev = dv /\ cmds = <<>> /\ rsps = <<>>
        /\ DOMAIN used = Counters /\ used.early \in Nat /\ used.connects \in Nat
        /\ DOMAIN asked = {"fbsb", "pm"}
    BY DEF Init, Counters
  <2> HIDE DEF c, dv
  <2>4. <<>> \in Seq({}) /\ Len(<<>>) = 0
    OBVIOUS
  <2>5. AtRest(c) /\ Base(c) = 0
    <3>1. Len(c.list) = 0
      BY <2>1, <2>4
    <3>2. Base(c) = 0
      <4>1. Base(c) = c.issued - Len(c.list)
        BY Zenon DEF Base
      <4>2. c.issued = 0
        BY <2>1
      <4>3. c.issued - Len(c.list) = 0
        BY <3>1, <4>2
      <4> QED
        BY <4>1, <4>3
    <3>3. IsSeq(c.list)
      BY <2>1, <2>4 DEF IsSeq
    <3> QED
      BY <2>1, <3>1, <3>2, <3>3 DEF AtRest, Typed
  <2>6. Agreement(c, 0, dv, {})
    <3>1. ASSUME NEW w, NEW i, Register(w, i), Wanted(c, w)
          PROVE  Have(dv, w, i) = {Want(c, w, i)}
      BY <2>1, <2>2, <3>1 DEF Register, Registers, Wanted, Have, Want
    <3> QED
      BY <2>1, <2>4, <3>1 DEF Agreement, Converges
  <2>7. PairedAt(c, 0, dv, <<>>, <<>>)
    <3>1. Powered(c, 0, dv) /\ Wire(c, 0, dv, <<>>, <<>>)
      BY <2>1, <2>2 DEF Powered, Wire
    <3>2. dv.executed = Base(c) + 0
      BY <2>2, <2>5
    <3> QED
      BY <2>6, <3>1, <3>2 DEF PairedAt
  <2> QED
    BY <2>2, <2>3, <2>5, <2>7 DEF QInv, Kept, Paired
<1>2. QInv /\ [Next]_vars => QInv'
  <2> SUFFICES ASSUME QInv, [Next]_vars
               PROVE  QInv'
    OBVIOUS
  <2>1. /\ Kept /\ AtRest(trx) /\ Typed(trx)
        /\ Punctual => Paired(trx, dev, cmds, rsps)
        /\ DOMAIN asked = {"fbsb", "pm"} /\ DOMAIN used = Counters
        /\ DOMAIN [asked EXCEPT !.fbsb = TRUE] = {"fbsb", "pm"}
        /\ DOMAIN [asked EXCEPT !.pm = TRUE] = {"fbsb", "pm"}
        /\ DOMAIN [asked EXCEPT !.fbsb = FALSE, !.pm = FALSE] = {"fbsb", "pm"}
    BY DEF QInv, Kept, AtRest
  <2>2. CASE TransceiverServes
    <3>1. /\ trx' = trx /\ used' = used /\ asked' = asked
          /\ DOMAIN dev' = Settings
      BY <2>1, <2>2, ExecuteIs DEF TransceiverServes, Kept
    <3> QED
      BY <2>1, <2>2, <3>1, ServesPaired DEF QInv, Kept, Punctual
  <2>3. CASE LoseCommand \/ LoseAnswer
    <3>1. /\ trx' = trx /\ dev' = dev /\ asked' = asked
          /\ DOMAIN used' = Counters /\ used'.early = used.early /\ used'.connects = used.connects
      BY <2>1, <2>3 DEF LoseCommand, LoseAnswer, Counters
    <3> QED
      BY <2>1, <2>3, <3>1, LossPaired DEF QInv, Kept, Punctual
  <2>4. CASE ReadAnswer
    <3> DEFINE d == trx_ctrl_read_cb(trx, Head(rsps))
    <3>1. Typed(d)
      <4>1. CASE Accepts(trx, Head(rsps))
        BY <2>1, <4>1, ReadAccepted
      <4>2. CASE ~Accepts(trx, Head(rsps))
        BY <2>1, <4>2, ReadRejected DEF Typed, Alike, Base
      <4> QED
        BY <4>1, <4>2
    <3> HIDE DEF d
    <3>2. Commit(d, asked) /\ dev' = dev /\ used' = used
      BY <2>4 DEF ReadAnswer, d
    <3>3. AtRest(trx') /\ DOMAIN asked' = {"fbsb", "pm"}
      BY <2>1, <3>1, <3>2, CommitKeeps, StillAskedIs DEF Commit
    <3>4. Kept'
      BY <2>1, <3>2, <3>3 DEF Kept
    <3> QED
      BY <2>1, <2>4, <3>2, <3>4, ReadPaired DEF QInv, Punctual
  <2>5. CASE CtrlTimerExpires
    <3> DEFINE d == trx_ctrl_timer_cb(trx)
    <3>1. Typed(d)
      BY <2>1, TimerServed
    <3> HIDE DEF d
    <3>2. Commit(d, asked) /\ dev' = dev
      BY <2>5 DEF CtrlTimerExpires, d
    <3>3. AtRest(trx') /\ DOMAIN asked' = {"fbsb", "pm"}
      BY <2>1, <3>1, <3>2, CommitKeeps, StillAskedIs DEF Commit
    <3>4. used.early \in Nat
      BY <2>1 DEF Kept
    <3>5. /\ DOMAIN used' = Counters /\ used'.early \in Nat /\ used'.connects = used.connects
          /\ Punctual' => Punctual /\ cmds = <<>> /\ rsps = <<>>
      <4>1. CASE cmds = <<>> /\ rsps = <<>> /\ UNCHANGED used
        BY <2>1, <3>4, <4>1 DEF Punctual
      <4>2. CASE used' = [used EXCEPT !.early = @ + 1]
        BY <2>1, <3>4, <4>2 DEF Punctual, Counters
      <4> QED
        BY <2>5, <4>1, <4>2 DEF CtrlTimerExpires
    <3>6. Kept'
      BY <2>1, <3>2, <3>3, <3>5 DEF Kept
    <3> QED
      BY <2>1, <2>5, <3>5, <3>6, TimerPaired DEF QInv
  <2>6. CASE FbsbTimerExpires \/ RxSch
    <3>1. /\ dev' = dev /\ used' = used /\ DOMAIN asked' = {"fbsb", "pm"}
      BY <2>1, <2>6, StillAskedIs DEF FbsbTimerExpires, RxSch, Commit
    <3> QED
      BY <2>1, <2>6, <3>1, ConfPaired DEF QInv, Kept, Punctual
  <2>7. CASE Connect
    <3>1. used.connects \in Nat
      BY <2>1 DEF Kept
    <3>2. /\ DOMAIN used' = Counters /\ used'.early = used.early /\ used'.connects \in Nat
      BY <2>1, <2>7, <3>1 DEF Connect, Counters
    <3> QED
      BY <2>1, <2>7, <3>2 DEF Connect, QInv, Kept, Punctual
  <2>8. ASSUME NEW kind, Request(kind)
        PROVE  /\ rsps' = rsps /\ dev' = dev
               /\ DOMAIN used' = Counters
               /\ used'.early = used.early /\ used'.connects = used.connects
    BY <2>1, <2>8 DEF Request, Counters
  <2>9. CASE \E arfcn \in Arfcns : FbsbReq(arfcn)
    BY <2>1, <2>8, <2>9, FbsbReqServed, ServedQ DEF FbsbReq
  <2>10. CASE \E start, stop \in Arfcns : PmReq(start, stop)
    <3>1. \A start, stop : Served(trx, trx_if_cmd_measure(trx, start, stop), {})
      BY <2>1, ServedBegin, PowerServed
    <3> QED
      BY <2>1, <2>8, <2>10, <3>1, ServedQ DEF PmReq
  <2>11. CASE \E full \in BOOLEAN : ResetReq(full)
    BY <2>1, <2>8, <2>11, ResetReqServed, ServedQ DEF ResetReq
  <2>12. CASE \E tn \in Slots, arfcn \in Arfcns : EstReqH0(tn, arfcn)
    BY <2>1, <2>8, <2>12, EstReqServed, ServedQ DEF EstReqH0
  <2>13. CASE \E tn \in Slots : EstReqH1(tn)
    BY <2>1, <2>8, <2>13, EstReqServed, ServedQ DEF EstReqH1
  <2>14. CASE RelReq
    <3>1. Served(trx, l1ctl_rx_dm_rel_req(trx), {})
      BY <2>1, ServedBegin, ResetServed DEF l1ctl_rx_dm_rel_req
    <3> QED
      BY <2>1, <2>8, <2>14, <3>1, ServedQ DEF RelReq
  <2>15. CASE \E ta \in {0, 1} : ParamReq(ta)
    <3>1. \A ta : Served(trx, l1ctl_rx_param_req(trx, ta), {})
      BY <2>1, ServedBegin, ParamServed
    <3> QED
      BY <2>1, <2>8, <2>15, <3>1, ServedQ DEF ParamReq
  <2>16. CASE \E differs \in BOOLEAN : CcchModeReq(differs)
    BY <2>1, <2>8, <2>16, CcchModeServed, ServedQ DEF CcchModeReq
  <2>17. CASE Disconnect
    BY <2>1, <2>17, DisconnectServed, ServedQ DEF Disconnect
  <2>18. CASE UNCHANGED vars
    BY <2>1, <2>18 DEF vars, QInv, Kept, Punctual
  <2> QED
    BY <2>2, <2>3, <2>4, <2>5, <2>6, <2>7, <2>9, <2>10, <2>11, <2>12, <2>13, <2>14, <2>15,
       <2>16, <2>17, <2>18 DEF Next, Client
<1> QED
  BY <1>1, <1>2, PTL DEF Spec

\* As long as the timer waits for the answer, one datagram at most is under way,
\* in either direction, and it belongs to the command at the head of the queue.
THEOREM OneAlwaysOutstanding == Spec => []OneOutstanding
<1>1. QInv => OneOutstanding
  <2> SUFFICES ASSUME QInv, Punctual
               PROVE  /\ Len(cmds) + Len(rsps) <= 1
                      /\ \A n \in DOMAIN cmds : trx.list # <<>> /\ cmds[n] = Head(trx.list).cmd
                      /\ \A n \in DOMAIN rsps : trx.list # <<>> /\ rsps[n].id = Head(trx.list).cmd.id
    BY DEF OneOutstanding
  <2>1. PICK m \in {0, 1} : PairedAt(trx, m, dev, cmds, rsps)
    BY DEF QInv, Paired
  <2> DEFINE h == trx.list[1].cmd
  <2>2. trx.list # <<>> => Head(trx.list).cmd = h
    <3>1. IsSeq(trx.list)
      BY DEF QInv, Kept, AtRest, Typed
    <3>2. trx.list # <<>> => Head(trx.list) = trx.list[1]
      BY <3>1, TailSeq
    <3> QED
      BY <3>2
  <2>3. \/ cmds = <<>> /\ rsps = <<>>
        \/ trx.list # <<>> /\ cmds = <<h>> /\ rsps = <<>>
        \/ trx.list # <<>> /\ cmds = <<>> /\ \E ok \in BOOLEAN : rsps = <<Reply(h, ok)>>
    BY <2>1 DEF PairedAt, Wire
  <2>4. \A ok : Reply(h, ok).id = h.id
    BY DEF Reply
  <2> HIDE DEF h
  <2>5. CASE cmds = <<>> /\ rsps = <<>>
    BY <2>5
  <2>6. CASE trx.list # <<>> /\ cmds = <<h>> /\ rsps = <<>>
    BY <2>2, <2>6
  <2>7. CASE trx.list # <<>> /\ cmds = <<>> /\ \E ok \in BOOLEAN : rsps = <<Reply(h, ok)>>
    <3>1. PICK r : rsps = <<r>> /\ r.id = h.id
      BY <2>4, <2>7
    <3> QED
      BY <2>2, <2>7, <3>1
  <2> QED
    BY <2>3, <2>5, <2>6, <2>7
<1> QED
  BY <1>1, QInvariant, PTL

\* Once the queue is empty, trxcon and the transceiver agree on the power, the
\* timeslots, the timing advance and the frequencies, whatever was requested,
\* lost and repeated on the way.
THEOREM TransceiverAlwaysAgrees == Spec => []TransceiverAgrees
<1>1. QInv => TransceiverAgrees
  <2> SUFFICES ASSUME QInv, Punctual, trx.list = <<>>
               PROVE  /\ trx.powered_up = dev.running
                      /\ trx.ts = dev.slots
                      /\ trx.ta = dev.ta
                      /\ trx.arfcn # 0 => dev.rx = {trx.arfcn} /\ dev.tx = {trx.arfcn}
    BY DEF TransceiverAgrees
  <2>1. PairedAt(trx, 0, dev, cmds, rsps)
    BY DEF QInv, Paired, PairedAt
  <2>2. \A w, i : Register(w, i) /\ Wanted(trx, w) => Have(dev, w, i) = {Want(trx, w, i)}
    BY <2>1 DEF PairedAt, Agreement, Converges
  <2>3. trx.powered_up = dev.running
    BY <2>1 DEF PairedAt, Powered
  <2>4. \A i : i \in dev.slots <=> i \in trx.ts
    <3> SUFFICES ASSUME NEW i
                 PROVE  i \in dev.slots <=> i \in trx.ts
      OBVIOUS
    <3>1. Have(dev, "SETSLOT", i) = {Want(trx, "SETSLOT", i)}
      BY <2>2 DEF Register, Registers, Wanted
    <3> QED
      BY <3>1 DEF Have, Want
  <2>5. {dev.ta} = {trx.ta}
    BY <2>2 DEF Register, Registers, Wanted, Have, Want
  <2>6. trx.arfcn # 0 => dev.rx = {trx.arfcn} /\ dev.tx = {trx.arfcn}
    <3>1. ASSUME trx.arfcn # 0
          PROVE  Have(dev, "RXTUNE", 0) = {trx.arfcn} /\ Have(dev, "TXTUNE", 0) = {trx.arfcn}
      BY <2>2, <3>1 DEF Register, Registers, Wanted, Want
    <3> QED
      BY <3>1 DEF Have
  <2> QED
    BY <2>3, <2>4, <2>5, <2>6
<1> QED
  BY <1>1, QInvariant, PTL

\* The transceiver executes the commands in the order in which trxcon issued
\* them and skips none; one that is repeated is executed again.
THEOREM AlwaysExecutedInOrder == Spec => ExecutedInOrder
<1>1. QInv /\ [Next]_vars => (Punctual' => dev'.executed \in {dev.executed, dev.executed + 1})
  <2> SUFFICES ASSUME QInv, [Next]_vars, Punctual'
               PROVE  dev'.executed \in {dev.executed, dev.executed + 1}
    OBVIOUS
  <2>1. CASE TransceiverServes
    <3>1. Punctual
      BY <2>1 DEF TransceiverServes, Punctual
    <3> QED
      BY <2>1, <3>1, ServesPaired DEF QInv
  <2>2. CASE dev' = dev
    BY <2>2
  <2>3. TransceiverServes \/ dev' = dev
    BY DEF Next, Client, vars, LoseCommand, LoseAnswer, ReadAnswer, CtrlTimerExpires,
           FbsbTimerExpires, RxSch, Connect, Disconnect, Request, FbsbReq, PmReq, ResetReq,
           EstReqH0, EstReqH1, RelReq, ParamReq, CcchModeReq
  <2> QED
    BY <2>1, <2>2, <2>3
<1> QED
  BY <1>1, QInvariant, PTL DEF Spec, ExecutedInOrder

-----------------------------------------------------------------------------
(* Synchronisation is confirmed once                                       *)

\* Before the first connection nothing has happened.
Fresh ==
  /\ trx = InitInstance /\ cmds = <<>> /\ rsps = <<>> /\ dev = InitTransceiver
  /\ connected = FALSE

\* The transceiver is off, and nothing that trxcon has sent or has yet to send
\* switches it on.
Quiet(l, cs, dv) ==
  /\ dv.running = FALSE
  /\ NoPoweron(l)
  /\ \A n \in 1 .. Len(cs) : cs[n].word # "POWERON"

\* The expire timer runs for a request without an answer; without such a request
\* no burst is confirmed either, as the last one was or none can be received.
ConfInv ==
  /\ IsSeq(cmds) /\ asked.fbsb \in BOOLEAN
  /\ used.connects = 0 => Fresh
  /\ used.connects <= 1 /\ connected =>
       /\ trx.fbsb_timer => asked.fbsb
       /\ trx.fbsb_conf_sent \/ asked.fbsb \/ Quiet(trx.list, cmds, dev)

\* What a handler sends: nothing, or the head of the queue.
SendsHead(d) == d.out = <<>> \/ (d.list # <<>> /\ d.out = <<d.list[1].cmd>>)

\* Datagrams added at the end and taken from the front.
LEMMA AddedCmd ==
  ASSUME NEW cs, IsSeq(cs), NEW d, SendsHead(d), IsSeq(d.list)
  PROVE  /\ IsSeq(cs \o d.out)
         /\ NoPoweron(d.list) /\ (\A n \in 1 .. Len(cs) : cs[n].word # "POWERON") =>
              \A n \in 1 .. Len(cs \o d.out) : (cs \o d.out)[n].word # "POWERON"
<1>1. PICK S : cs \in Seq(S)
  BY DEF IsSeq
<1>2. CASE d.out = <<>>
  <2>1. cs \o d.out = cs
    BY <1>1, <1>2
  <2> QED
    BY <1>1, <2>1 DEF IsSeq
<1>3. CASE d.list # <<>> /\ d.out = <<d.list[1].cmd>>
  <2> DEFINE x == d.list[1].cmd
  <2>1. NoPoweron(d.list) => x.word # "POWERON"
    <3>1. Len(d.list) \in Nat \ {0}
      BY <1>3, TailSeq
    <3> QED
      BY <3>1 DEF NoPoweron
  <2> HIDE DEF x
  <2>2. cs \o d.out = Append(cs, x)
    BY <1>1, <1>3 DEF x
  <2>3. /\ IsSeq(Append(cs, x)) /\ Len(cs) \in Nat
        /\ Len(Append(cs, x)) = Len(cs) + 1
        /\ \A n \in 1 .. Len(cs) : Append(cs, x)[n] = cs[n]
        /\ Append(cs, x)[Len(cs) + 1] = x
    BY AppendSeq
  <2>4. ASSUME NoPoweron(d.list), \A n \in 1 .. Len(cs) : cs[n].word # "POWERON",
               NEW n \in 1 .. Len(cs) + 1
        PROVE  Append(cs, x)[n].word # "POWERON"
    <3>1. n \in 1 .. Len(cs) \/ n = Len(cs) + 1
      BY <2>3
    <3> QED
      BY <2>1, <2>3, <2>4, <3>1
  <2> QED
    BY <2>2, <2>3, <2>4
<1> QED
  BY <1>2, <1>3 DEF SendsHead

LEMMA TakenCmd ==
  ASSUME NEW cs, IsSeq(cs), cs # <<>>
  PROVE  /\ IsSeq(Tail(cs)) /\ Head(cs) = cs[1] /\ 1 \in 1 .. Len(cs)
         /\ (\A n \in 1 .. Len(cs) : cs[n].word # "POWERON") =>
              \A n \in 1 .. Len(Tail(cs)) : Tail(cs)[n].word # "POWERON"
<1> DEFINE t == Tail(cs)
<1>1. /\ IsSeq(t) /\ Len(cs) \in Nat \ {0} /\ Len(t) = Len(cs) - 1
      /\ \A n \in 1 .. Len(cs) - 1 : t[n] = cs[n+1]
      /\ Head(cs) = cs[1]
  BY TailSeq
<1> HIDE DEF t
<1>2. ASSUME \A n \in 1 .. Len(cs) : cs[n].word # "POWERON", NEW n \in 1 .. Len(t)
      PROVE  t[n].word # "POWERON"
  <2>1. n + 1 \in 1 .. Len(cs) /\ t[n] = cs[n+1]
    BY <1>1
  <2> QED
    BY <1>2, <2>1
<1> QED
  BY <1>1, <1>2 DEF t

\* Messages without a confirmation leave the client waiting as it was.
LEMMA NoConfAsked ==
  ASSUME NEW d, NoConf(d.up), NEW a, Commit(d, a), DOMAIN a = {"fbsb", "pm"}, a.fbsb \in BOOLEAN
  PROVE  /\ asked'.fbsb = a.fbsb
         /\ ~\E n \in DOMAIN up' : up'[n].kind = "FBSB_CONF"
<1>1. ~\E n \in DOMAIN up' : up'[n].kind = "FBSB_CONF"
  <2>1. CASE connected
    <3>1. PICK S : d.up \in Seq(S)
      BY DEF NoConf, IsSeq
    <3>2. DOMAIN d.up = 1 .. Len(d.up)
      BY <3>1
    <3> QED
      BY <2>1, <3>2 DEF Commit, NoConf
  <2>2. CASE ~connected
    <3>1. DOMAIN <<>> = {}
      OBVIOUS
    <3> QED
      BY <2>2, <3>1 DEF Commit
  <2> QED
    BY <2>1, <2>2
<1>2. ~\E m \in {up'[n] : n \in DOMAIN up'} : m.kind = "FBSB_CONF"
  BY <1>1
<1>3. asked'.fbsb = (a.fbsb /\ ~\E m \in {up'[n] : n \in DOMAIN up'} : m.kind = "FBSB_CONF")
  BY DEF Commit, StillAsked
<1> QED
  BY <1>1, <1>2, <1>3

\* A handler that has nothing to do with synchronisation.
LEMMA MutedConf ==
  ASSUME Kept, ConfInv, used.connects # 0,
         NEW d, Typed(d), NoConf(d.up), SendsHead(d), Muted(trx, d),
         NEW a, DOMAIN a = {"fbsb", "pm"}, a.fbsb \in BOOLEAN, connected' => a.fbsb = asked.fbsb,
         Commit(d, a), connected' => connected, dev' = dev, used'.connects = used.connects
  PROVE  ConfInv' /\ ~\E n \in DOMAIN up' : up'[n].kind = "FBSB_CONF"
<1>1. asked'.fbsb = a.fbsb /\ ~\E n \in DOMAIN up' : up'[n].kind = "FBSB_CONF"
  BY NoConfAsked
<1>2. /\ trx'.list = d.list
      /\ trx'.fbsb_timer = trx.fbsb_timer /\ trx'.fbsb_conf_sent = trx.fbsb_conf_sent
  BY CommitKeeps DEF Muted
<1>3. cmds' = cmds \o d.out
  BY DEF Commit
<1>4. IsSeq(cmds')
  BY <1>3, AddedCmd DEF ConfInv, Typed
<1>5. Quiet(trx.list, cmds, dev) => Quiet(trx'.list, cmds', dev')
  BY <1>2, <1>3, AddedCmd DEF Quiet, Muted, Typed, ConfInv
<1>6. ASSUME used'.connects <= 1, connected'
      PROVE  /\ trx'.fbsb_timer => asked'.fbsb
             /\ trx'.fbsb_conf_sent \/ asked'.fbsb \/ Quiet(trx'.list, cmds', dev')
  BY <1>1, <1>2, <1>5, <1>6 DEF ConfInv
<1>7. asked'.fbsb \in BOOLEAN
  BY <1>1
<1> QED
  BY <1>1, <1>4, <1>6, <1>7 DEF ConfInv

\* A request that was served, as such a handler.
LEMMA ServedConf ==
  ASSUME Kept, ConfInv, used.connects # 0,
         NEW d, Served(trx, d, {}), Muted(trx, d),
         NEW a, DOMAIN a = {"fbsb", "pm"}, a.fbsb \in BOOLEAN, connected' => a.fbsb = asked.fbsb,
         Commit(d, a), connected' => connected, dev' = dev, used'.connects = used.connects
  PROVE  ConfInv' /\ ~\E n \in DOMAIN up' : up'[n].kind = "FBSB_CONF"
<1>1. trx.out = <<>> /\ trx.up = <<>>
  BY DEF Kept, AtRest
<1>2. NoConf(trx.up)
  <2>1. <<>> \in Seq({}) /\ Len(<<>>) = 0
    OBVIOUS
  <2> QED
    BY <1>1, <2>1 DEF NoConf, IsSeq
<1>3. Typed(d) /\ NoConf(d.up)
  BY <1>2 DEF Served
<1>4. SendsHead(d)
  <2>1. \A x : Append(<<>>, x) = <<x>>
    OBVIOUS
  <2> QED
    BY <1>1, <2>1 DEF Served, Sends, SendsHead
<1> QED
  BY <1>3, <1>4, MutedConf

\* What the two actions that answer the head of the queue, or miss the answer,
\* make of the state.
LEMMA ReadQuiet ==
  ASSUME Kept, NEW d, NEW rsp, d \in {trx_ctrl_read_cb(trx, rsp), trx_ctrl_timer_cb(trx)}
  PROVE  Typed(d) /\ NoConf(d.up) /\ SendsHead(d) /\ Muted(trx, d)
<1>1. Typed(trx) /\ trx.out = <<>> /\ trx.up = <<>>
  BY DEF Kept, AtRest
<1>2. NoConf(trx.up)
  <2>1. <<>> \in Seq({}) /\ Len(<<>>) = 0
    OBVIOUS
  <2> QED
    BY <1>1, <2>1 DEF NoConf, IsSeq
<1>3. \A x : Append(<<>>, x) = <<x>>
  OBVIOUS
<1>4. CASE d = trx_ctrl_read_cb(trx, rsp) /\ Accepts(trx, rsp)
  <2>1. LET e == trx_ctrl_read_cb(trx, rsp)
        IN /\ Typed(e) /\ (NoConf(trx.up) => NoConf(e.up)) /\ Muted(trx, e)
           /\ e.out = IF e.list = <<>> THEN trx.out ELSE Append(trx.out, e.list[1].cmd)
    BY <1>1, <1>4, ReadAccepted
  <2> QED
    BY <1>1, <1>2, <1>3, <1>4, <2>1 DEF SendsHead
<1>5. CASE d = trx_ctrl_read_cb(trx, rsp) /\ ~Accepts(trx, rsp)
  <2>1. Alike(trx, d)
    BY <1>1, <1>5, ReadRejected DEF Typed
  <2> QED
    BY <1>1, <1>2, <2>1 DEF Alike, Typed, Base, SendsHead, Muted
<1>6. CASE d = trx_ctrl_timer_cb(trx)
  <2>1. LET e == trx_ctrl_timer_cb(trx)
        IN /\ Typed(e) /\ e.up = trx.up /\ Muted(trx, e)
           /\ e.out = trx.out \/ (e.list # <<>> /\ e.out = Append(trx.out, e.list[1].cmd))
    BY <1>1, TimerServed
  <2> QED
    BY <1>1, <1>2, <1>3, <1>6, <2>1 DEF SendsHead
<1> QED
  BY <1>4, <1>5, <1>6

\* A request to synchronise: from now on the client waits for the answer.
LEMMA FbsbReqConf ==
  ASSUME Kept, ConfInv, used.connects # 0, NEW arfcn, FbsbReq(arfcn)
  PROVE  ConfInv' /\ ~\E n \in DOMAIN up' : up'[n].kind = "FBSB_CONF"
<1> DEFINE d == l1ctl_rx_fbsb_req(trx, arfcn)
           a == [asked EXCEPT !.fbsb = TRUE]
<1>1. trx.out = <<>> /\ trx.up = <<>> /\ Typed(trx) /\ DOMAIN used = Counters
  BY DEF Kept, AtRest
<1>2. Served(trx, d, {})
  BY <1>1, FbsbReqServed
<1>3. DOMAIN a = {"fbsb", "pm"} /\ a.fbsb = TRUE
  BY DEF Kept
<1>4. Commit(d, a) /\ used'.connects = used.connects
  BY <1>1 DEF FbsbReq, Request, Counters
<1> HIDE DEF d, a
<1>5. NoConf(d.up) /\ SendsHead(d) /\ Typed(d)
  <2>1. <<>> \in Seq({}) /\ Len(<<>>) = 0
    OBVIOUS
  <2>2. NoConf(trx.up)
    BY <1>1, <2>1 DEF NoConf, IsSeq
  <2>3. \A x : Append(<<>>, x) = <<x>>
    OBVIOUS
  <2> QED
    BY <1>1, <1>2, <2>2, <2>3 DEF Served, Sends, SendsHead
<1>6. asked'.fbsb = TRUE /\ ~\E n \in DOMAIN up' : up'[n].kind = "FBSB_CONF"
  BY <1>3, <1>4, <1>5, NoConfAsked
<1>7. IsSeq(cmds')
  BY <1>4, <1>5, AddedCmd DEF Commit, ConfInv, Typed
<1> QED
  BY <1>4, <1>6, <1>7 DEF ConfInv

\* A synchronisation is confirmed: nothing is left to confirm.
LEMMA ToldConf ==
  ASSUME Kept, ConfInv, used.connects # 0, NEW ms,
         Commit([trx EXCEPT !.fbsb_conf_sent = TRUE, !.fbsb_timer = FALSE, !.up = ms], asked),
         connected' = connected, used' = used
  PROVE  ConfInv'
<1> DEFINE d == [trx EXCEPT !.fbsb_conf_sent = TRUE, !.fbsb_timer = FALSE, !.up = ms]
<1>1. Typed(trx) /\ trx.out = <<>>
  BY DEF Kept, AtRest
<1>2. /\ DOMAIN d = Fields /\ d.list = trx.list /\ d.issued = trx.issued /\ d.out = <<>>
      /\ d.fbsb_conf_sent = TRUE /\ d.fbsb_timer = FALSE
  BY <1>1 DEF Typed, Fields
<1>3. Commit(d, asked)
  OBVIOUS
<1> HIDE DEF d
<1>4. Typed(d)
  BY <1>1, <1>2 DEF Typed, Base
<1>5. trx'.fbsb_conf_sent = TRUE /\ trx'.fbsb_timer = FALSE
  BY <1>2, <1>3, <1>4, CommitKeeps
<1>6. IsSeq(cmds')
  BY <1>2, <1>3, <1>4, AddedCmd DEF Commit, SendsHead, ConfInv, Typed
<1>7. asked'.fbsb \in BOOLEAN
  BY <1>3 DEF Commit, StillAsked, Kept
<1> QED
  BY <1>5, <1>6, <1>7 DEF ConfInv

\* Every step keeps ConfInv, and confirms only what the client waits for.
LEMMA ConfStep ==
  ASSUME QInv, ConfInv, Next
  PROVE  /\ ConfInv'
         /\ used.connects <= 1 /\ (\E n \in DOMAIN up' : up'[n].kind = "FBSB_CONF") => asked.fbsb
<1>1. /\ Kept /\ AtRest(trx) /\ Typed(trx) /\ DOMAIN dev = Settings
      /\ DOMAIN asked = {"fbsb", "pm"} /\ DOMAIN used = Counters /\ used.connects \in Nat
  BY DEF QInv, Kept, AtRest
<1> DEFINE Told == \E n \in DOMAIN up' : up'[n].kind = "FBSB_CONF"
<1>2. up' = <<>> => ~Told
  <2>1. DOMAIN <<>> = {}
    OBVIOUS
  <2> QED
    BY <2>1
<1>3. CASE TransceiverServes
  <2>1. cmds # <<>> /\ used.connects # 0
    BY <1>3 DEF TransceiverServes, ConfInv, Fresh
  <2>2. /\ dev' = Execute(dev, Head(cmds)) /\ cmds' = Tail(cmds)
        /\ trx' = trx /\ connected' = connected /\ used' = used /\ asked' = asked /\ up' = <<>>
    BY <1>3 DEF TransceiverServes
  <2>3. /\ IsSeq(Tail(cmds)) /\ Head(cmds) = cmds[1] /\ 1 \in 1 .. Len(cmds)
        /\ (\A n \in 1 .. Len(cmds) : cmds[n].word # "POWERON") =>
             \A n \in 1 .. Len(Tail(cmds)) : Tail(cmds)[n].word # "POWERON"
    BY <2>1, TakenCmd DEF ConfInv
  <2>4. Quiet(trx.list, cmds, dev) => Quiet(trx'.list, cmds', dev')
    <3>1. Head(cmds).word = "POWEROFF" => dev'.running = FALSE
      BY <1>1, <2>2, ExecuteIs
    <3>2. Head(cmds).word \notin {"POWERON", "POWEROFF"} => dev'.running = dev.running
      BY <1>1, <2>2, ExecuteIs
    <3> QED
      BY <2>2, <2>3, <3>1, <3>2 DEF Quiet
  <2>5. ConfInv'
    BY <2>1, <2>2, <2>3, <2>4 DEF ConfInv
  <2> QED
    BY <1>2, <2>2, <2>5
<1>4. CASE LoseCommand
  <2>1. cmds # <<>> /\ used.connects # 0
    BY <1>4 DEF LoseCommand, ConfInv, Fresh
  <2>2. /\ dev' = dev /\ cmds' = Tail(cmds)
        /\ trx' = trx /\ connected' = connected /\ used'.connects = used.connects
        /\ asked' = asked /\ up' = <<>>
    BY <1>1, <1>4 DEF LoseCommand, Counters
  <2>3. /\ IsSeq(Tail(cmds))
        /\ (\A n \in 1 .. Len(cmds) : cmds[n].word # "POWERON") =>
             \A n \in 1 .. Len(Tail(cmds)) : Tail(cmds)[n].word # "POWERON"
    BY <2>1, TakenCmd DEF ConfInv
  <2>4. Quiet(trx.list, cmds, dev) => Quiet(trx'.list, cmds', dev')
    BY <2>2, <2>3 DEF Quiet
  <2>5. ConfInv'
    BY <2>1, <2>2, <2>3, <2>4 DEF ConfInv
  <2> QED
    BY <1>2, <2>2, <2>5
<1>5. CASE LoseAnswer
  <2>1. used.connects # 0
    BY <1>5 DEF LoseAnswer, ConfInv, Fresh
  <2>2. /\ dev' = dev /\ cmds' = cmds
        /\ trx' = trx /\ connected' = connected /\ used'.connects = used.connects
        /\ asked' = asked /\ up' = <<>>
    BY <1>1, <1>5 DEF LoseAnswer, Counters
  <2>3. ConfInv'
    BY <2>1, <2>2 DEF ConfInv, Quiet
  <2> QED
    BY <1>2, <2>2, <2>3
<1>6. CASE ReadAnswer
  <2>1. used.connects # 0
    BY <1>6 DEF ReadAnswer, ConfInv, Fresh
  <2> DEFINE d == trx_ctrl_read_cb(trx, Head(rsps))
  <2>2. Typed(d) /\ NoConf(d.up) /\ SendsHead(d) /\ Muted(trx, d)
    BY <1>1, ReadQuiet
  <2>3. Commit(d, asked) /\ connected' = connected /\ dev' = dev /\ used' = used
    BY <1>6 DEF ReadAnswer
  <2>4. asked.fbsb \in BOOLEAN
    BY DEF ConfInv
  <2> HIDE DEF d
  <2> QED
    BY <1>1, <2>1, <2>2, <2>3, <2>4, MutedConf
<1>7. CASE CtrlTimerExpires
  <2>1. used.connects # 0
    BY <1>7 DEF CtrlTimerExpires, ConfInv, Fresh, InitInstance
  <2> DEFINE d == trx_ctrl_timer_cb(trx)
  <2>2. Typed(d) /\ NoConf(d.up) /\ SendsHead(d) /\ Muted(trx, d)
    BY <1>1, ReadQuiet
  <2>3. /\ Commit(d, asked) /\ connected' = connected /\ dev' = dev
        /\ used'.connects = used.connects
    BY <1>1, <1>7 DEF CtrlTimerExpires, Counters
  <2>4. asked.fbsb \in BOOLEAN
    BY DEF ConfInv
  <2> HIDE DEF d
  <2> QED
    BY <1>1, <2>1, <2>2, <2>3, <2>4, MutedConf
<1>8. CASE FbsbTimerExpires
  <2>1. used.connects # 0
    BY <1>8 DEF FbsbTimerExpires, ConfInv, Fresh, InitInstance
  <2>2. ConfInv'
    BY <1>1, <1>8, <2>1, ToldConf DEF FbsbTimerExpires, fbsb_timer_cb
  <2>3. connected \/ up' = <<>>
    BY <1>8 DEF FbsbTimerExpires, Commit
  <2>4. used.connects <= 1 /\ connected => asked.fbsb
    BY <1>8 DEF FbsbTimerExpires, ConfInv
  <2> QED
    BY <1>2, <2>2, <2>3, <2>4
<1>9. CASE RxSch
  <2>1. used.connects # 0
    BY <1>9 DEF RxSch, ConfInv, Fresh, InitTransceiver
  <2>2. ConfInv'
    BY <1>1, <1>9, <2>1, ToldConf DEF RxSch, rx_sch_fn, l1ctl_tx_fbsb_conf
  <2>3. connected \/ up' = <<>>
    BY <1>9 DEF RxSch, Commit
  <2>4. used.connects <= 1 /\ connected => asked.fbsb
    BY <1>9 DEF RxSch, ConfInv, Quiet
  <2> QED
    BY <1>2, <2>2, <2>3, <2>4
<1>10. CASE Connect
  <2>1. /\ trx' = trx /\ cmds' = cmds /\ dev' = dev /\ asked' = asked /\ up' = <<>>
        /\ used'.connects = used.connects + 1
    BY <1>1, <1>10 DEF Connect, Counters
  <2>2. used'.connects # 0
    BY <1>1, <2>1
  <2>3. used'.connects <= 1 => Fresh
    BY <1>1, <2>1 DEF ConfInv
  <2>4. Fresh => trx.fbsb_timer = FALSE /\ Quiet(trx.list, cmds, dev)
    <3>1. Len(<<>>) = 0
      OBVIOUS
    <3> QED
      BY <3>1 DEF Fresh, InitInstance, InitTransceiver, Quiet, NoPoweron
  <2>5. ConfInv'
    BY <2>1, <2>2, <2>3, <2>4 DEF ConfInv
  <2> QED
    BY <1>2, <2>1, <2>5
<1>11. ASSUME NEW kind, Request(kind)
       PROVE  /\ used.connects # 0 /\ connected' = connected /\ dev' = dev
              /\ used'.connects = used.connects
  BY <1>1, <1>11 DEF Request, Counters, ConfInv, Fresh
<1>12. asked.fbsb \in BOOLEAN
  BY DEF ConfInv
<1>13. CASE \E arfcn \in Arfcns : FbsbReq(arfcn)
  BY <1>1, <1>11, <1>13, FbsbReqConf DEF FbsbReq
<1>14. CASE \E start, stop \in Arfcns : PmReq(start, stop)
  <2>1. PICK start, stop \in Arfcns : PmReq(start, stop)
    BY <1>14
  <2> DEFINE d == trx_if_cmd_measure(trx, start, stop)
             a == [asked EXCEPT !.pm = TRUE]
  <2>2. Served(trx, d, {}) /\ Muted(trx, d)
    BY <1>1, ServedBegin, PowerServed
  <2>3. DOMAIN a = {"fbsb", "pm"} /\ a.fbsb = asked.fbsb
    BY <1>1
  <2>4. Commit(d, a) /\ Request("PM")
    BY <2>1 DEF PmReq
  <2> HIDE DEF d, a
  <2> QED
    BY <1>1, <1>11, <1>12, <2>2, <2>3, <2>4, ServedConf
<1>15. CASE \E full \in BOOLEAN : ResetReq(full)
  BY <1>1, <1>11, <1>12, <1>15, ResetReqServed, ServedConf DEF ResetReq
<1>16. CASE \E tn \in Slots, arfcn \in Arfcns : EstReqH0(tn, arfcn)
  BY <1>1, <1>11, <1>12, <1>16, EstReqServed, ServedConf DEF EstReqH0
<1>17. CASE \E tn \in Slots : EstReqH1(tn)
  BY <1>1, <1>11, <1>12, <1>17, EstReqServed, ServedConf DEF EstReqH1
<1>18. CASE RelReq
  <2>1. Served(trx, l1ctl_rx_dm_rel_req(trx), {}) /\ Muted(trx, l1ctl_rx_dm_rel_req(trx))
    BY <1>1, ServedBegin, ResetServed DEF l1ctl_rx_dm_rel_req
  <2> QED
    BY <1>1, <1>11, <1>12, <1>18, <2>1, ServedConf DEF RelReq
<1>19. CASE \E ta \in {0, 1} : ParamReq(ta)
  <2>1. \A ta : Served(trx, l1ctl_rx_param_req(trx, ta), {}) /\ Muted(trx, l1ctl_rx_param_req(trx, ta))
    BY <1>1, ServedBegin, ParamServed
  <2> QED
    BY <1>1, <1>11, <1>12, <1>19, <2>1, ServedConf DEF ParamReq
<1>20. CASE \E differs \in BOOLEAN : CcchModeReq(differs)
  BY <1>1, <1>11, <1>12, <1>20, CcchModeServed, ServedConf DEF CcchModeReq
<1>21. CASE Disconnect
  <2> DEFINE a == [asked EXCEPT !.fbsb = FALSE, !.pm = FALSE]
             d == L1ctlDisconnect(trx)
  <2>1. used.connects # 0 /\ connected' = FALSE /\ dev' = dev /\ used' = used /\ Commit(d, a) /\ connected
    BY <1>21 DEF Disconnect, ConfInv, Fresh
  <2>2. DOMAIN a = {"fbsb", "pm"} /\ a.fbsb \in BOOLEAN
    BY <1>1
  <2>3. Served(trx, d, {}) /\ Muted(trx, d)
    BY <1>1, DisconnectServed
  <2> HIDE DEF a, d
  <2> QED
    BY <1>1, <2>1, <2>2, <2>3, ServedConf
<1> QED
  BY <1>3, <1>4, <1>5, <1>6, <1>7, <1>8, <1>9, <1>10, <1>13, <1>14, <1>15, <1>16, <1>17, <1>18,
     <1>19, <1>20, <1>21 DEF Next, Client

\* The first client gets L1CTL_FBSB_CONF only for a request it has not had an
\* answer to: the expire timer and the SCH burst never both answer, whatever
\* becomes of the commands in between.
THEOREM AlwaysConfSolicited == Spec => ConfSolicited
<1>1. Init => ConfInv
  <2>1. <<>> \in Seq({})
    OBVIOUS
  <2> QED
    BY <2>1 DEF Init, ConfInv, Fresh, IsSeq
<1>2. QInv /\ ConfInv /\ [Next]_vars => ConfInv'
  <2>1. CASE UNCHANGED vars
    BY <2>1 DEF vars, ConfInv, Fresh
  <2> QED
    BY <2>1, ConfStep
<1>3. QInv /\ ConfInv /\ [Next]_vars =>
        [used.connects <= 1 /\ (\E n \in DOMAIN up' : up'[n].kind = "FBSB_CONF") => asked.fbsb]_vars
  BY ConfStep
<1> QED
  BY <1>1, <1>2, <1>3, QInvariant, PTL DEF Spec, ConfSolicited
=============================================================================
