----------------------------- MODULE AtLeastOnce -----------------------------
(***************************************************************************)
(* What a stream upload promises the application, without slots, packs,    *)
(* goroutines or retries: a record is acknowledged only after it has been  *)
(* stored, and stored a second time only after doubt about it was          *)
(* justified, that is, after an answer to a request with it was lost.      *)
(***************************************************************************)
EXTENDS Naturals

CONSTANT Records

VARIABLES
  given,     \* records the application has handed over
  count,     \* how often each record is stored
  doubtful,  \* records of requests whose answer was lost
  acked      \* records reported as uploaded

vars == <<given, count, doubtful, acked>>

Init ==
  /\ given = {} /\ doubtful = {} /\ acked = {}
  /\ count = [r \in Records |-> 0]

Give(r) ==
  /\ given' = given \cup {r}
  /\ UNCHANGED <<count, doubtful, acked>>

Deliver(S) ==
  /\ \A r \in S : count[r] = 0 \/ r \in doubtful
  /\ count' = [r \in Records |-> IF r \in S THEN count[r] + 1 ELSE count[r]]
  /\ UNCHANGED <<given, doubtful, acked>>

LoseAnswer(S) ==
  /\ doubtful' = doubtful \cup S
  /\ UNCHANGED <<given, count, acked>>

Acknowledge(S) ==
  /\ S \cap acked = {}
  /\ \A r \in S : count[r] > 0
  /\ acked' = acked \cup S
  /\ UNCHANGED <<given, count, doubtful>>

Next ==
  \/ \E r \in Records : Give(r)
  \/ \E S \in SUBSET given : Deliver(S) \/ LoseAnswer(S) \/ Acknowledge(S)

Spec == Init /\ [][Next]_vars
=============================================================================
