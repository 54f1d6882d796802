------------------------------- MODULE MCLink -------------------------------
(***************************************************************************)
(* Instances of LapdmLink for TLC: one or two mobiles ms1 and ms2, uplink  *)
(* messages u1 and u2, downlink messages d1 and d2, a handover message ho, *)
(* and what the SABM of the mobiles carries, id1 and id2.                  *)
(***************************************************************************)
EXTENDS LapdmLink

CONSTANTS ms1, ms2, bts, u1, u2, d1, d2, ho, id1, id2

OneSegment == [m \in Msg |-> 1]
LongAndShort == [m \in Msg |-> IF m = u1 THEN 8 ELSE IF m = u2 THEN 1 ELSE 2]
TwoSegments == [m \in Msg |-> IF m = u1 THEN 2 ELSE 1]

ByRole(mobile, station) == [e \in Entity |-> IF e = bts THEN station ELSE mobile]

ContentSabm == [e \in Entity |-> CASE e = ms1 -> {id1} [] e = ms2 -> {id2} [] e = bts -> {}]
AnySabm == ByRole({id1, Empty}, {Empty})

BothWays == ByRole({u1}, {d1})
StationOnly == ByRole({}, {d1})
TwoUpDown == ByRole({u1, u2}, {d1})
TwoUplink == ByRole({u1, u2}, {})
WithHandover == ByRole({u1, u2, ho}, {})

Transfer == ByRole({"EST", "DATA"}, {"DATA"})
Release == ByRole({"EST", "DATA", "REL"}, {"DATA", "REL"})
Everything == ByRole({"EST", "DATA", "REL", "RESET", "SUSP", "RES", "RECON"},
                     {"EST", "DATA", "REL", "RESET"})
Suspend == ByRole({"EST", "DATA", "SUSP", "RES", "RECON"}, {"DATA"})
Establish == ByRole({"EST"}, {"DATA"})
=============================================================================
