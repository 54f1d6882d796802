----------------------------- MODULE SmsService -----------------------------
(***************************************************************************)
(* What the short message service promises the application that submits a  *)
(* message: the other side takes it once at most, the application is told  *)
(* the outcome once, and `successful' only after the message was taken.    *)
(***************************************************************************)
EXTENDS Naturals, Sequences

CONSTANT Sms

VARIABLES
  asked,    \* messages submitted
  reports,  \* what their applications were told
  taken,    \* how often each was taken at the other side
  doubtful  \* messages of which that is not certain

vars == <<asked, reports, taken, doubtful>>

Init ==
  /\ asked = {}
  /\ reports = [i \in Sms |-> <<>>]
  /\ taken = [i \in Sms |-> 0]
  /\ doubtful = {}

Submit(id) ==
  /\ id \notin asked /\ asked' = asked \cup {id}
  /\ UNCHANGED <<reports, taken, doubtful>>

Take(id) ==
  /\ id \in asked
  /\ doubtful \subseteq doubtful'
  /\ taken[id] = 0 \/ id \in doubtful'
  /\ taken' = [taken EXCEPT ![id] = @ + 1]
  /\ UNCHANGED <<asked, reports>>

\* Several transactions may end at once, with the connection they share.
Report(T) ==
  /\ T \subseteq asked /\ \A i \in T : reports[i] = <<>>
  /\ doubtful \subseteq doubtful'
  /\ \E res \in [T -> {"OK", "FAILED"}] :
       /\ \A i \in T : res[i] = "OK" => taken[i] > 0 \/ i \in doubtful'
       /\ reports' = [i \in Sms |-> IF i \in T THEN <<res[i]>> ELSE reports[i]]
  /\ UNCHANGED <<asked, taken>>

Next ==
  \/ \E id \in Sms : Submit(id) \/ Take(id)
  \/ \E T \in SUBSET Sms : Report(T)

Spec == Init /\ [][Next]_vars
=============================================================================
