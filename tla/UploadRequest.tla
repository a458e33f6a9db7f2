---------------------------- MODULE UploadRequest ----------------------------
(***************************************************************************)
(* What one upload request promises its producer, without pipe, goroutine, *)
(* channel or network: a request takes effect at most once and only as a   *)
(* whole, it is reported as a success only after it took effect, it may    *)
(* take effect after it was reported as a failure, and a report is final.  *)
(***************************************************************************)

VARIABLES
  complete,  \* the whole body has been handed to the service
  stored,    \* the service has taken the request
  result     \* what the producer was told

vars == <<complete, stored, result>>

Init == complete = FALSE /\ stored = FALSE /\ result = "none"

Complete ==
  /\ ~complete
  /\ complete' = TRUE
  /\ UNCHANGED <<stored, result>>

TakeEffect ==
  /\ complete /\ ~stored
  /\ stored' = TRUE
  /\ UNCHANGED <<complete, result>>

Succeed ==
  /\ result = "none" /\ stored
  /\ result' = "ok"
  /\ UNCHANGED <<complete, stored>>

Fail ==
  /\ result = "none"
  /\ result' = "error"
  /\ UNCHANGED <<complete, stored>>

Next == Complete \/ TakeEffect \/ Succeed \/ Fail

Spec == Init /\ [][Next]_vars
=============================================================================
