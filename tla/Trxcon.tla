------------------------------- MODULE Trxcon -------------------------------
(***************************************************************************)
(* trxcon between a layer 2 program and a transceiver.  Above it, L1CTL    *)
(* clients connect one after the other and request what they like; below   *)
(* it, control commands travel as datagrams to a transceiver that answers  *)
(* as trx_toolkit does.  Datagrams keep their order but may be lost, either *)
(* way, within a budget.                                                   *)
(***************************************************************************)
EXTENDS TrxIf

CONSTANTS
  Arfcns,        \* ARFCNs a client may ask for
  Slots,         \* timeslots a client may ask for
  Kinds,         \* the L1CTL requests a client makes
  MaxRequests,   \* bound: L1CTL requests
  MaxConnects,   \* bound: L1CTL connections
  MaxCmdLoss,    \* bound: commands lost
  MaxRspLoss,    \* bound: answers lost
  MaxEarly       \* bound: times the 2 s timer expires while datagrams are on their way

ASSUME InputAssumption ==
  /\ Arfcns \subseteq Nat
  /\ Slots \subseteq 0 .. 7
  /\ Kinds \subseteq {"FBSB", "PM", "RESET", "EST_H0", "EST_H1", "REL", "PARAM", "CCCH_MODE"}
  /\ MaxRequests \in Nat /\ MaxConnects \in Nat
  /\ MaxCmdLoss \in Nat /\ MaxRspLoss \in Nat
  /\ MaxEarly \in Nat

VARIABLES
  trx,        \* struct trx_instance with its L1CTL link
  connected,  \* an L1CTL client is connected
  cmds,       \* commands on their way to the transceiver
  rsps,       \* answers on their way back
  dev,        \* the transceiver
  used,       \* how much of each bound is used up
  up,         \* the L1CTL messages the last step sent to the client
  asked       \* what the client still waits for

vars == <<trx, connected, cmds, rsps, dev, used, up, asked>>

\* The transceiver of trx_toolkit; `executed' is the number of the last command
\* it executed, a history.
InitTransceiver == [running |-> FALSE, rx |-> {}, tx |-> {}, fh |-> FALSE,
                    slots |-> {}, ta |-> 0, executed |-> 0]

Init ==
  /\ trx = InitInstance
  /\ connected = FALSE
  /\ cmds = <<>>
  /\ rsps = <<>>
  /\ dev = InitTransceiver
  /\ used = [requests |-> 0, connects |-> 0, cmd_loss |-> 0, rsp_loss |-> 0, early |-> 0]
  /\ up = <<>>
  /\ asked = [fbsb |-> FALSE, pm |-> FALSE]

-----------------------------------------------------------------------------
(* The transceiver                                                         *)

\* Both frequencies are set, or the transceiver hops.
Ready(d) == (d.rx # {} /\ d.tx # {}) \/ d.fh

Succeeds(d, cmd) == cmd.word = "POWERON" => ~d.running /\ Ready(d)

\* CTRLInterfaceTRX.parse_cmd
Execute(d, cmd) ==
  LET arg == cmd.arg
      e == CASE cmd.word = "POWERON"  -> [d EXCEPT !.running = TRUE]
             [] cmd.word = "POWEROFF" -> [d EXCEPT !.running = FALSE, !.fh = FALSE]
             [] cmd.word = "RXTUNE"   -> [d EXCEPT !.rx = {arg[1]}]
             [] cmd.word = "TXTUNE"   -> [d EXCEPT !.tx = {arg[1]}]
             [] cmd.word = "SETSLOT"  -> [d EXCEPT !.slots = IF arg[2] = 0 THEN @ \ {arg[1]}
                                                             ELSE @ \cup {arg[1]}]
             [] cmd.word = "SETFH"    -> [d EXCEPT !.fh = TRUE]
             [] cmd.word = "SETTA"    -> [d EXCEPT !.ta = arg[1]]
             [] OTHER                 -> d
  IN [(IF Succeeds(d, cmd) THEN e ELSE d) EXCEPT !.executed = cmd.id]

TransceiverServes ==
  /\ cmds # <<>>
  /\ dev' = Execute(dev, Head(cmds))
  /\ rsps' = Append(rsps, [word |-> Head(cmds).word, arg |-> Head(cmds).arg,
                           id |-> Head(cmds).id, ok |-> Succeeds(dev, Head(cmds))])
  /\ cmds' = Tail(cmds)
  /\ up' = <<>>
  /\ UNCHANGED <<trx, connected, used, asked>>

LoseCommand ==
  /\ cmds # <<>> /\ used.cmd_loss < MaxCmdLoss
  /\ cmds' = Tail(cmds)
  /\ used' = [used EXCEPT !.cmd_loss = @ + 1]
  /\ up' = <<>>
  /\ UNCHANGED <<trx, connected, rsps, dev, asked>>

LoseAnswer ==
  /\ rsps # <<>> /\ used.rsp_loss < MaxRspLoss
  /\ rsps' = Tail(rsps)
  /\ used' = [used EXCEPT !.rsp_loss = @ + 1]
  /\ up' = <<>>
  /\ UNCHANGED <<trx, connected, cmds, dev, asked>>

-----------------------------------------------------------------------------
(* trxcon                                                                  *)

\* What the client still waits for after the messages ms.
StillAsked(a, ms) ==
  LET sent == {ms[n] : n \in DOMAIN ms}
  IN [a EXCEPT !.fbsb = @ /\ ~\E m \in sent : m.kind = "FBSB_CONF",
               !.pm   = @ /\ ~\E m \in sent : m.kind = "PM_CONF" /\ m.done]

\* A handler ends: its datagrams are on their way, its messages with the client
\* if there is one; a is what the client waited for before.
Commit(c, a) ==
  /\ trx' = [c EXCEPT !.out = <<>>, !.up = <<>>]
  /\ cmds' = cmds \o c.out
  /\ up' = IF connected THEN c.up ELSE <<>>
  /\ asked' = StillAsked(a, up')

ReadAnswer ==
  /\ rsps # <<>>
  /\ Commit(trx_ctrl_read_cb(trx, Head(rsps)), asked)
  /\ rsps' = Tail(rsps)
  /\ UNCHANGED <<connected, dev, used>>

CtrlTimerExpires ==
  /\ trx.timer
  /\ \/ cmds = <<>> /\ rsps = <<>> /\ UNCHANGED used
     \/ /\ cmds # <<>> \/ rsps # <<>>
        /\ used.early < MaxEarly
        /\ used' = [used EXCEPT !.early = @ + 1]
  /\ Commit(trx_ctrl_timer_cb(trx), asked)
  /\ UNCHANGED <<connected, rsps, dev>>

FbsbTimerExpires ==
  /\ trx.fbsb_timer
  /\ Commit(fbsb_timer_cb(trx), asked)
  /\ UNCHANGED <<connected, rsps, dev, used>>

\* A burst of the cell the transceiver is tuned to.
RxSch ==
  /\ dev.running /\ dev.rx # {} /\ 0 \in dev.slots
  /\ trx.sch /\ ~trx.fbsb_conf_sent
  /\ Commit(rx_sch_fn(trx), asked)
  /\ UNCHANGED <<connected, rsps, dev, used>>

Request(kind) ==
  /\ connected
  /\ kind \in Kinds
  /\ used.requests < MaxRequests
  /\ used' = [used EXCEPT !.requests = @ + 1]
  /\ UNCHANGED <<connected, rsps, dev>>

FbsbReq(arfcn) ==
  /\ Request("FBSB")
  /\ Commit(l1ctl_rx_fbsb_req(trx, arfcn), [asked EXCEPT !.fbsb = TRUE])

PmReq(start, stop) ==
  /\ Request("PM")
  /\ start <= stop
  /\ Commit(trx_if_cmd_measure(trx, start, stop), [asked EXCEPT !.pm = TRUE])

ResetReq(full) ==
  /\ Request("RESET")
  /\ Commit(l1ctl_rx_reset_req(trx, full), asked)

EstReqH0(tn, arfcn) ==
  Request("EST_H0") /\ Commit(l1ctl_rx_dm_est_req_h0(trx, tn, arfcn), asked)

EstReqH1(tn) == Request("EST_H1") /\ Commit(l1ctl_rx_dm_est_req_h1(trx, tn), asked)

RelReq == Request("REL") /\ Commit(l1ctl_rx_dm_rel_req(trx), asked)

ParamReq(ta) == Request("PARAM") /\ Commit(l1ctl_rx_param_req(trx, ta), asked)

CcchModeReq(differs) ==
  Request("CCCH_MODE") /\ Commit(l1ctl_rx_ccch_mode_req(trx, differs), asked)

Connect ==
  /\ ~connected
  /\ used.connects < MaxConnects
  /\ connected' = TRUE
  /\ used' = [used EXCEPT !.connects = @ + 1]
  /\ up' = <<>>
  /\ UNCHANGED <<trx, cmds, rsps, dev, asked>>

Disconnect ==
  /\ connected
  /\ connected' = FALSE
  /\ Commit(L1ctlDisconnect(trx), [asked EXCEPT !.fbsb = FALSE, !.pm = FALSE])
  /\ UNCHANGED <<rsps, dev, used>>

Client ==
  \/ \E arfcn \in Arfcns : FbsbReq(arfcn)
  \/ \E start, stop \in Arfcns : PmReq(start, stop)
  \/ \E full \in BOOLEAN : ResetReq(full)
  \/ \E tn \in Slots, arfcn \in Arfcns : EstReqH0(tn, arfcn)
  \/ \E tn \in Slots : EstReqH1(tn)
  \/ RelReq
  \/ \E ta \in {0, 1} : ParamReq(ta)
  \/ \E differs \in BOOLEAN : CcchModeReq(differs)
  \/ Connect
  \/ Disconnect

Next ==
  \/ TransceiverServes
  \/ LoseCommand
  \/ LoseAnswer
  \/ ReadAnswer
  \/ CtrlTimerExpires
  \/ FbsbTimerExpires
  \/ RxSch
  \/ Client

Spec == Init /\ [][Next]_vars

\* The transceiver serves its socket, the main loop its sockets and timers.
FairSpec == /\ Spec
            /\ WF_vars(TransceiverServes)
            /\ WF_vars(ReadAnswer)
            /\ WF_vars(CtrlTimerExpires)
            /\ WF_vars(FbsbTimerExpires)

-----------------------------------------------------------------------------
(* Properties                                                              *)

\* As long as the timer waits for the answer, the queue really is the
\* command-response protocol: all that is under way, in either direction, is one
\* datagram, and it belongs to the command at the head.
Punctual == used.early = 0
OneOutstanding ==
  Punctual =>
    /\ Len(cmds) + Len(rsps) <= 1
    /\ \A n \in DOMAIN cmds : trx.list # <<>> /\ cmds[n] = Head(trx.list).cmd
    /\ \A n \in DOMAIN rsps : trx.list # <<>> /\ rsps[n].id = Head(trx.list).cmd.id

\* The transceiver executes the commands in the order in which trxcon issued
\* them and skips none, however many are lost and repeated.
ExecutedInOrder == [][Punctual' => dev'.executed \in {dev.executed, dev.executed + 1}]_vars

\* A command at the head is never forgotten: its timer runs, or the failure was
\* reported to the application's state machine.
HeadGuarded == trx.list # <<>> => trx.timer \/ trx.events # {}

\* When no command is left trxcon and the transceiver agree on the power, the
\* timeslots, the timing advance and, once tuned, on the frequencies.
TransceiverAgrees ==
  Punctual /\ trx.list = <<>> =>
    /\ trx.powered_up = dev.running
    /\ trx.ts = dev.slots
    /\ trx.ta = dev.ta
    /\ trx.arfcn # 0 => dev.rx = {trx.arfcn} /\ dev.tx = {trx.arfcn}

\* powered_up and the state machine, which keeps the state to return to in
\* prev_state over any number of commands, say the same, until the transceiver
\* is given up as offline.
PowerMatchesState ==
  "OFFLINE" \notin trx.events =>
    (trx.powered_up <=> "ACTIVE" \in {trx.state, IF trx.state = "RSP_WAIT" THEN trx.prev ELSE "IDLE"})

\* The first client gets L1CTL_FBSB_CONF only for a request it has not had an
\* answer to: the expire timer and the SCH burst never both answer.  The next
\* one may get the answer to its predecessor, whose timer keeps running.
ConfSolicited ==
  [][used.connects <= 1 /\ (\E n \in DOMAIN up' : up'[n].kind = "FBSB_CONF") => asked.fbsb]_vars

\* The queue is worked off unless a failure was reported.
QueueWorkedOff == []<>(trx.list = <<>> \/ trx.events # {})

\* A power measurement ends with L1CTL_F_DONE, also when a further request
\* interrupts it, unless a failure was reported, the client has gone, or the
\* timer ran ahead of an answer: a late answer to a repeated MEASURE takes the
\* next one off the queue without being its result.
PmConcluded == <>(trx.events # {} \/ ~Punctual) \/ (asked.pm ~> ~asked.pm)

\* Every request to synchronise is confirmed, one way or the other, even when
\* the transceiver is lost.
FbsbConcluded == asked.fbsb ~> ~asked.fbsb
=============================================================================
