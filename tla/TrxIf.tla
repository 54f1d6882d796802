------------------------------- MODULE TrxIf -------------------------------
(***************************************************************************)
(* The control interface of trxcon towards the transceiver (trx_if.c) and  *)
(* the part of its L1CTL server (l1ctl.c) and of its scheduler             *)
(* (sched_trx.c) that drives it, as operators that map the state before a  *)
(* handler to the state after it.                                          *)
(*                                                                         *)
(* Commands wait in trx_ctrl_list; only the head is on its way.  A state   *)
(* is struct trx_instance with the two fields of struct l1ctl_link that    *)
(* concern synchronisation, and collects in out the datagrams sent and in  *)
(* up the L1CTL messages produced.  Histories are the number `id' of a     *)
(* command, by which properties tell commands apart, and the events        *)
(* dispatched to the application's state machine, which ignores them.      *)
(* A definition marked `Faulty variant' is a plausible mistake in the one  *)
(* after it, for the run that notices it.                                  *)
(***************************************************************************)
EXTENDS Naturals, Sequences, FiniteSets

CONSTANT MaxRetry   \* unanswered transmissions of one command (3 in the code)

ASSUME RetryAssumption == MaxRetry \in Nat

Words == {"POWERON", "POWEROFF", "ECHO", "RXTUNE", "TXTUNE", "SETSLOT",
          "SETFH", "SETTA", "MEASURE"}

\* SETTA alone may be rejected without consequence.
Critical(word) == word # "SETTA"

\* Where osmo_fsm_inst_state_chg lets the transceiver FSM go.
OutStates == [OFFLINE  |-> {"IDLE", "RSP_WAIT"},
              IDLE     |-> {"OFFLINE", "IDLE", "ACTIVE", "RSP_WAIT"},
              ACTIVE   |-> {"IDLE", "RSP_WAIT"},
              RSP_WAIT |-> {"IDLE", "ACTIVE", "OFFLINE"}]

InitInstance ==
  [list |-> <<>>, timer |-> FALSE, state |-> "OFFLINE", prev |-> "OFFLINE",
   powered_up |-> FALSE, pm |-> <<0, 0>>, arfcn |-> 0, ta |-> 0,
   ts |-> {}, sch |-> FALSE,
   fbsb_conf_sent |-> FALSE, fbsb_timer |-> FALSE,
   events |-> {}, issued |-> 0, out |-> <<>>, up |-> <<>>]

StateChg(c, s) == IF s \in OutStates[c.state] THEN [c EXCEPT !.state = s] ELSE c

-----------------------------------------------------------------------------
(* The command queue                                                       *)

\* Faulty variant: the state to return to is overwritten on every transmission.
SendForgetsState(c) ==
  IF c.list = <<>> THEN c
  ELSE [StateChg([c EXCEPT !.prev = c.state], "RSP_WAIT")
          EXCEPT !.timer = TRUE, !.out = Append(@, Head(c.list).cmd)]

\* trx_ctrl_send
Send(c) ==
  IF c.list = <<>> THEN c
  ELSE LET w == IF c.state = "RSP_WAIT" THEN c
                ELSE StateChg([c EXCEPT !.prev = c.state], "RSP_WAIT")
       IN [w EXCEPT !.timer = TRUE, !.out = Append(@, Head(c.list).cmd)]

Enlist(c, word, arg) ==
  [c EXCEPT !.issued = @ + 1,
            !.list = Append(@, [cmd |-> [word |-> word, arg |-> arg, id |-> c.issued + 1],
                                retry_cnt |-> 0])]

\* Faulty variant: a command is sent although another one waits for its answer.
ctrl_cmd_at_once(c, word, arg) ==
  LET q == Enlist(c, word, arg)
  IN [Send(q) EXCEPT !.out = Append(c.out, q.list[Len(q.list)].cmd)]

\* Faulty variant: llist_add in place of llist_add_tail.
ctrl_cmd_at_head(c, word, arg) ==
  LET q == Enlist(c, word, arg)
      r == [q EXCEPT !.list = <<q.list[Len(q.list)]>> \o c.list]
  IN IF c.list = <<>> THEN Send(r) ELSE r

trx_ctrl_cmd(c, word, arg) ==
  IF c.list = <<>> THEN Send(Enlist(c, word, arg)) ELSE Enlist(c, word, arg)

\* Faulty variant: the command is not repeated, only counted.
timer_cb_silent(c) == [c EXCEPT !.timer = FALSE]

\* The command given up stays at the head of the list, with no timer.
trx_ctrl_timer_cb(c) ==
  LET q == [c EXCEPT !.timer = FALSE, !.list[1].retry_cnt = @ + 1]
  IN IF c.list = <<>> THEN [c EXCEPT !.timer = FALSE]
     ELSE IF Head(q.list).retry_cnt > MaxRetry
          THEN [StateChg(q, "OFFLINE") EXCEPT !.events = @ \cup {"OFFLINE"}]
          ELSE Send(q)

trx_if_cmd_poweron(c) == IF c.powered_up THEN c ELSE trx_ctrl_cmd(c, "POWERON", <<>>)

trx_if_cmd_measure(c, start, stop) ==
  trx_ctrl_cmd([c EXCEPT !.pm = <<start, stop>>], "MEASURE", <<start>>)

PmConf(arfcn, last) == [kind |-> "PM_CONF", arfcn |-> arfcn, done |-> last]

\* Faulty variant: the next measurement is not scheduled.
measure_rsp_cb_once(c, arfcn) ==
  IF arfcn # c.pm[1] THEN c
  ELSE [c EXCEPT !.up = Append(@, PmConf(arfcn, arfcn = c.pm[2]))]

\* An answer that is not for pm_band_arfcn_start ends there; otherwise it is
\* confirmed and the next ARFCN measured.
trx_if_measure_rsp_cb(c, arfcn) ==
  LET last == arfcn = c.pm[2]
      q == [c EXCEPT !.up = Append(@, PmConf(arfcn, last))]
  IN IF arfcn # c.pm[1] THEN c
     ELSE IF last THEN q ELSE trx_if_cmd_measure(q, arfcn + 1, c.pm[2])

\* What trx_ctrl_read_cb does with an answer to the head of the list.
Answered(c, rsp) ==
  CASE rsp.word = "POWERON"  -> StateChg([c EXCEPT !.powered_up = TRUE], "ACTIVE")
    [] rsp.word = "POWEROFF" -> StateChg([c EXCEPT !.powered_up = FALSE], "IDLE")
    [] rsp.word = "MEASURE"  -> trx_if_measure_rsp_cb(c, rsp.arg[1])
    [] rsp.word = "ECHO"     -> StateChg(c, "IDLE")
    [] OTHER                 -> StateChg(c, c.prev)

\* The answer is taken for the head of the list: the command words agree, the
\* status is 0 or does not matter.
Accepts(c, rsp) == /\ c.list # <<>>
                   /\ rsp.word = Head(c.list).cmd.word
                   /\ rsp.ok \/ ~Critical(rsp.word)

\* Faulty variant: the rest of the list waits for another command.
read_cb_stops(c, rsp) ==
  IF Accepts(c, rsp)
  THEN [Answered([c EXCEPT !.timer = FALSE], rsp) EXCEPT !.list = Tail(@)]
  ELSE [c EXCEPT !.timer = FALSE,
                 !.events = IF c.list = <<>> THEN @ ELSE @ \cup {"RSP_ERROR"}]

\* An answer that is not accepted leaves the command where it is, and the
\* timer stopped.
trx_ctrl_read_cb(c, rsp) ==
  LET d == [c EXCEPT !.timer = FALSE]
  IN IF Accepts(c, rsp)
     THEN Send([Answered(d, rsp) EXCEPT !.list = Tail(@)])
     ELSE [d EXCEPT !.events = IF c.list = <<>> THEN @ ELSE @ \cup {"RSP_ERROR"}]

-----------------------------------------------------------------------------
(* The scheduler's timeslots                                               *)

\* The timeslot and its logical channels are gone; TS0 takes the SCH with it.
RemoveTs(c, tn) == [c EXCEPT !.ts = @ \ {tn}, !.sch = @ /\ tn # 0]

\* Faulty variant: the transceiver is not told of the timeslot.
del_ts_silently(c, tn) == IF tn \notin c.ts THEN c ELSE RemoveTs(c, tn)

sched_trx_del_ts(c, tn) ==
  IF tn \notin c.ts THEN c
  ELSE trx_ctrl_cmd(RemoveTs(c, tn), "SETSLOT", <<tn, 0>>)

\* The loop over the eight timeslots.
sched_trx_reset(c) ==
  LET four(d, tn) == sched_trx_del_ts(sched_trx_del_ts(
                       sched_trx_del_ts(sched_trx_del_ts(d, tn), tn + 1), tn + 2), tn + 3)
  IN four(four(c, 0), 4)

\* On TS0 every configuration used here has an SCH, enabled automatically.
sched_trx_configure_ts(c, tn) ==
  LET d == IF tn \in c.ts THEN trx_ctrl_cmd(c, "SETSLOT", <<tn, 0>>)
           ELSE [c EXCEPT !.ts = @ \cup {tn}]
  IN trx_ctrl_cmd([d EXCEPT !.sch = @ \/ tn = 0], "SETSLOT", <<tn, 1>>)

-----------------------------------------------------------------------------
(* The L1CTL requests                                                      *)

Tune(c, arfcn) == trx_ctrl_cmd(trx_ctrl_cmd(c, "RXTUNE", <<arfcn>>), "TXTUNE", <<arfcn>>)

TuneIfDiffers(c, arfcn) == IF c.arfcn = arfcn THEN c
                           ELSE Tune([c EXCEPT !.arfcn = arfcn], arfcn)

\* Faulty variant: the timer is not started.
fbsb_req_untimed(c, arfcn) ==
  trx_if_cmd_poweron(
    TuneIfDiffers([sched_trx_configure_ts(sched_trx_reset(c), 0)
                     EXCEPT !.fbsb_conf_sent = FALSE], arfcn))

l1ctl_rx_fbsb_req(c, arfcn) ==
  LET configured == [sched_trx_configure_ts(sched_trx_reset(c), 0)
                       EXCEPT !.fbsb_conf_sent = FALSE]
  IN [trx_if_cmd_poweron(TuneIfDiffers(configured, arfcn)) EXCEPT !.fbsb_timer = TRUE]

PowerCycle(c) == trx_ctrl_cmd(trx_ctrl_cmd(c, "POWEROFF", <<>>), "ECHO", <<>>)

\* The confirmation does not wait for the transceiver.
l1ctl_rx_reset_req(c, full) ==
  [sched_trx_reset(IF full THEN PowerCycle(c) ELSE c)
     EXCEPT !.up = Append(@, [kind |-> "RESET_CONF"])]

\* Activation of one logical channel, after all of the timeslot were deactivated.
Dedicate(c, tn) == [sched_trx_configure_ts(c, tn) EXCEPT !.sch = @ /\ tn # 0]

l1ctl_rx_dm_est_req_h0(c, tn, arfcn) == Dedicate(TuneIfDiffers(c, arfcn), tn)

l1ctl_rx_dm_est_req_h1(c, tn) == Dedicate(trx_ctrl_cmd(c, "SETFH", <<>>), tn)

l1ctl_rx_dm_rel_req(c) == sched_trx_reset(c)

l1ctl_rx_param_req(c, ta) ==
  IF c.ta = ta THEN c ELSE [trx_ctrl_cmd(c, "SETTA", <<ta>>) EXCEPT !.ta = ta]

\* `differs': whether the channel combination of TS0 has to change.
l1ctl_rx_ccch_mode_req(c, differs) ==
  IF 0 \notin c.ts THEN c
  ELSE [(IF differs THEN sched_trx_configure_ts(c, 0) ELSE c)
          EXCEPT !.up = Append(@, [kind |-> "CCCH_MODE_CONF"])]

\* Faulty variant: the expire timer keeps running.
fbsb_conf_timer_left(c, arfcn) ==
  [c EXCEPT !.fbsb_conf_sent = TRUE,
            !.up = Append(@, [kind |-> "FBSB_CONF", result |-> 0, arfcn |-> arfcn])]

l1ctl_tx_fbsb_conf(c, arfcn) ==
  [c EXCEPT !.fbsb_conf_sent = TRUE, !.fbsb_timer = FALSE,
            !.up = Append(@, [kind |-> "FBSB_CONF", result |-> 0, arfcn |-> arfcn])]

fbsb_timer_cb(c) ==
  [c EXCEPT !.fbsb_conf_sent = TRUE, !.fbsb_timer = FALSE,
            !.up = Append(@, [kind |-> "FBSB_CONF", result |-> 255, arfcn |-> c.arfcn])]

\* An SCH burst that decodes, with SCH active on TS0.
rx_sch_fn(c) == IF c.fbsb_conf_sent THEN c ELSE l1ctl_tx_fbsb_conf(c, c.arfcn)

\* trxcon_fsm: the L1CTL client has gone.
L1ctlDisconnect(c) ==
  IF c.state = "OFFLINE" THEN c ELSE PowerCycle(sched_trx_reset(c))
============================================================================
