--------------------------- MODULE HttpConn_proofs ---------------------------
(* Proofs about HttpConn, for a body of any number of pieces.               *)
EXTENDS HttpConn, TLAPS

\* What the producer has put on the wire when it closes the pipe.
Ready == IF kind = "flush" THEN written = MaxChunks ELSE footer = FooterLen

\* The pipe: one write at a time, a piece read is a piece written (or about to be
\* counted as written), and a write error means the read end is closed.
PipeInv ==
  /\ pending => pc \in {"write", "footer"}
  /\ received = IF pc = "write" /\ ~pending THEN written + 1 ELSE written
  /\ tail = IF pc = "footer" /\ ~pending THEN footer + 1 ELSE footer
  /\ failed => rClosed
  /\ pc = "write" => written < MaxChunks
  /\ pc \in {"ready", "write"} => footer = 0
  /\ pc = "footer" => footer < FooterLen

\* The producer closes the pipe only after the whole body, or after a failure.
CloseInv ==
  /\ wClosed => pc \in {"receive", "returned"}
  /\ pc = "footer" => kind # "flush"
  /\ pc = "closing" /\ ~failed => Ready
  /\ wClosed /\ ~failed => Ready
  /\ body = "eof" => wClosed /\ rClosed /\ ~failed

\* The outcome, and who holds it.
OutcomeInv ==
  /\ outcome = "ok" => stored /\ body = "eof"
  /\ result = "ok" => outcome = "ok" /\ ~failed /\ pc = "returned"
  /\ pc = "returned" <=> sender = "ended"
  /\ result # "none" => pc = "returned"
  /\ stored => sender \in {"report", "ended"}

IInv == TypeOK /\ PipeInv /\ CloseInv /\ OutcomeInv

\* The initial states satisfy the invariant.
LEMMA ConnInit == Init => IInv
  <1> USE ConnAssumption DEF Init
  <1>0. 0 \in 0 .. MaxChunks /\ 0 \in 0 .. FooterLen
    OBVIOUS
  <1>1. Init => TypeOK
    BY <1>0, Zenon DEF TypeOK
  <1>2. Init => PipeInv
    BY DEF PipeInv
  <1>3. Init => CloseInv
    BY DEF CloseInv
  <1>4. Init => OutcomeInv
    BY DEF OutcomeInv
  <1> QED
    BY <1>1, <1>2, <1>3, <1>4 DEF IInv

\* Every step of the three parties keeps it.
LEMMA ConnStep == ASSUME IInv, [Next]_vars PROVE IInv'
  <1> USE ConnAssumption DEF IInv, TypeOK, PipeInv, CloseInv, OutcomeInv, Ready, pipeVars, wireVars
  <1>1. CASE Write
    BY <1>1 DEF Write
  <1>2. CASE WriteTaken
    BY <1>2 DEF WriteTaken
  <1>3. CASE WriteFails
    <2>1. TypeOK'
      BY <1>3 DEF WriteFails, AfterWriteError
    <2>2. PipeInv'
      BY <1>3 DEF WriteFails, AfterWriteError
    <2>3. CloseInv'
      BY <1>3 DEF WriteFails, AfterWriteError
    <2>4. OutcomeInv'
      BY <1>3 DEF WriteFails, AfterWriteError
    <2> QED
      BY <2>1, <2>2, <2>3, <2>4
  <1>4. CASE Close
    <2>1. TypeOK'
      BY <1>4 DEF Close, CloseStartsAt
    <2>2. PipeInv'
      <3>1. /\ pc = "ready" /\ ~pending
            /\ UNCHANGED <<written, footer, failed, rClosed, received, tail>>
        BY <1>4 DEF Close
      <3>2. CASE kind = "flush"
        <4>1. pc' = "closing" /\ pending' = FALSE
          BY <1>4, <3>2 DEF Close, CloseStartsAt
        <4> QED
          BY <3>1, <4>1
      <3>3. CASE kind # "flush"
        <4>1. pc' = "footer" /\ pending' = TRUE
          BY <1>4, <3>3 DEF Close, CloseStartsAt
        <4> QED
          BY <3>1, <4>1
      <3> QED
        BY <3>2, <3>3
    <2>3. CloseInv'
      BY <1>4 DEF Close, CloseStartsAt
    <2>4. OutcomeInv'
      BY <1>4 DEF Close, CloseStartsAt
    <2> QED
      BY <2>1, <2>2, <2>3, <2>4
  <1>5. CASE FooterTaken
    <2>1. TypeOK'
      BY <1>5 DEF FooterTaken, FooterIsWritten, AfterFooter
    <2>2. PipeInv'
      BY <1>5 DEF FooterTaken, FooterIsWritten, AfterFooter
    <2>3. CloseInv'
      BY <1>5 DEF FooterTaken, FooterIsWritten, AfterFooter
    <2>4. OutcomeInv'
      BY <1>5 DEF FooterTaken, FooterIsWritten, AfterFooter
    <2> QED
      BY <2>1, <2>2, <2>3, <2>4
  <1>6. CASE FooterFails
    BY <1>6 DEF FooterFails, AfterFooterError
  <1>7. CASE WriterClose
    BY <1>7 DEF WriterClose
  <1>8. CASE ReceiveRes
    BY <1>8 DEF ReceiveRes, ResultOf
  <1>9. CASE SenderStep
    <2>1. TypeOK'
      BY <1>9 DEF SenderStep, SignRequest, SignRequestFails
    <2>2. PipeInv'
      BY <1>9 DEF SenderStep, SignRequest, SignRequestFails
    <2>3. CloseInv'
      BY <1>9 DEF SenderStep, SignRequest, SignRequestFails
    <2>4. OutcomeInv'
      BY <1>9 DEF SenderStep, SignRequest, SignRequestFails
    <2> QED
      BY <2>1, <2>2, <2>3, <2>4
  <1>10. CASE ReadBody
    <2>0. received' \in 0 .. MaxChunks /\ tail' \in 0 .. FooterLen
      BY <1>10 DEF ReadBody
    <2>1. TypeOK'
      BY <1>10, <2>0, Zenon DEF ReadBody
    <2>2. PipeInv'
      BY <1>10 DEF ReadBody
    <2>3. CloseInv'
      BY <1>10 DEF ReadBody
    <2>4. OutcomeInv'
      BY <1>10 DEF ReadBody
    <2> QED
      BY <2>1, <2>2, <2>3, <2>4
  <1>11. CASE ReadEOF
    BY <1>11 DEF ReadEOF
  <1>12. CASE DoAnswered
    BY <1>12 DEF DoAnswered
  <1>13. CASE DoFails
    BY <1>13 DEF DoFails
  <1>14. CASE CloseBody
    BY <1>14 DEF CloseBody
  <1>15. CASE UNCHANGED vars
    BY <1>15 DEF vars
  <1> QED
    BY <1>1, <1>2, <1>3, <1>4, <1>5, <1>6, <1>7, <1>8, <1>9, <1>10, <1>11, <1>12,
       <1>13, <1>14, <1>15 DEF Next, ProducerStep, NetStep

\* The invariant holds in every state of the connection.
THEOREM ConnInvariant == Spec => []IInv
  <1>1. IInv /\ [Next]_vars => IInv'
    BY ConnStep
  <1> QED
    BY ConnInit, <1>1, PTL DEF Spec

\* The variables of a connection keep their types.
THEOREM ConnTypeCorrect == Spec => []TypeOK
  <1>1. IInv => TypeOK
    BY DEF IInv
  <1> QED
    BY ConnInvariant, <1>1, PTL

\* closeRes and flushStream report success only for a request that was sent whole
\* and stored by the service.
THEOREM ReportedIsStored == Spec => []SuccessIsStored
  <1>1. IInv => SuccessIsStored
    BY DEF IInv, OutcomeInv, CloseInv, PipeInv, TypeOK, SuccessIsStored, Whole, Ready
  <1> QED
    BY ConnInvariant, <1>1, PTL

\* A request that ends properly on the wire carries everything the producer wrote,
\* the footer included.
THEOREM EndedIsWhole == Spec => []EndedBodyIsWhole
  <1>1. IInv => EndedBodyIsWhole
    BY ConnAssumption
    DEF IInv, OutcomeInv, CloseInv, PipeInv, TypeOK, EndedBodyIsWhole, Whole, Ready
  <1> QED
    BY ConnInvariant, <1>1, PTL

\* The sender goroutine is gone when flushStream or Close returns.
THEOREM SenderIsGone == Spec => []NothingLeaks
  <1>1. IInv => NothingLeaks
    BY DEF IInv, OutcomeInv, NothingLeaks
  <1> QED
    BY ConnInvariant, <1>1, PTL

-----------------------------------------------------------------------------
(* The connection implements an upload request.                             *)

\* What the abstract request calls a complete body.
Complete == body = "eof" /\ Whole /\ ~failed

\* Once the body has ended it is whole, and nothing is written or read any more.
LEMMA EndedStaysWhole ==
  ASSUME IInv, [Next]_vars, body = "eof"
  PROVE  Complete /\ Complete'
  <1>1. Complete
    BY ConnAssumption DEF Complete, IInv, CloseInv, PipeInv, TypeOK, Whole, Ready
  <1>2. wClosed /\ rClosed /\ ~pending /\ pc \in {"receive", "returned"}
    BY DEF IInv, CloseInv, PipeInv
  <1>3. UNCHANGED <<kind, written, footer, received, tail, failed, body>>
    BY <1>2
    DEF Next, ProducerStep, SenderStep, NetStep, Write, WriteTaken, WriteFails, Close,
        FooterTaken, FooterFails, WriterClose, ReceiveRes, SignRequest,
        SignRequestFails, ReadBody, ReadEOF, DoAnswered, DoFails, CloseBody, vars, pipeVars, wireVars
  <1> QED
    BY <1>1, <1>3 DEF Complete, Whole

\* Only the outcome of Do makes the service's store change, and only receiving it
\* makes the producer's result change; a step that ends the body does neither.
LEMMA OneThingAtATime ==
  ASSUME IInv, [Next]_vars
  PROVE  \/ UNCHANGED <<stored, result>>
         \/ DoAnswered /\ body = "eof" /\ result' = result
         \/ ReceiveRes /\ stored' = stored /\ (body = "eof" <=> body' = "eof")
  BY DEF Next, ProducerStep, SenderStep, NetStep, Write, WriteTaken, WriteFails, Close,
         FooterTaken, FooterFails, WriterClose, ReceiveRes, SignRequest,
         SignRequestFails, ReadBody, ReadEOF, DoAnswered, DoFails, CloseBody, vars

\* Every step of the three parties is a step of the abstract request or none.
LEMMA ConnSimulates ==
  ASSUME IInv, [Next]_vars
  PROVE  [Request!Next]_(Request!vars)
  <1>1. Complete => Complete'
    BY EndedStaysWhole DEF Complete
  <1>2. CASE UNCHANGED <<stored, result>>
    <2>1. CASE Complete
      <3>1. Complete' = Complete
        BY <1>1, <2>1
      <3> QED
        BY <1>2, <3>1, Zenon DEF Complete, Request!Next, Request!vars, Request!Complete,
                             Request!TakeEffect, Request!Succeed, Request!Fail
    <2>2. CASE ~Complete
      BY <1>2, <2>2, Zenon DEF Complete, Request!Next, Request!vars, Request!Complete,
            Request!TakeEffect, Request!Succeed, Request!Fail
    <2> QED
      BY <2>1, <2>2
  <1>3. CASE DoAnswered /\ body = "eof" /\ result' = result
    <2>1. Complete /\ Complete'
      BY <1>3, EndedStaysWhole
    <2>2. stored' = stored \/ (~stored /\ stored' = TRUE)
      BY <1>3 DEF DoAnswered, IInv, TypeOK, OutcomeInv
    <2>3. Complete' = Complete
      BY <2>1
    <2> QED
      BY <1>3, <2>1, <2>2, <2>3, Zenon
      DEF Complete, Request!Next, Request!vars, Request!Complete,
            Request!TakeEffect, Request!Succeed, Request!Fail
  <1>4. CASE ReceiveRes /\ stored' = stored /\ (body = "eof" <=> body' = "eof")
    <2>1. Complete' = Complete
      <3>1. CASE body = "eof"
        <4>1. Complete /\ Complete'
          BY <3>1, EndedStaysWhole
        <4> QED
          BY <4>1
      <3>2. CASE body # "eof"
        BY <1>4, <3>2 DEF Complete
      <3> QED
        BY <3>1, <3>2
    <2>2. result = "none"
      BY <1>4 DEF ReceiveRes, IInv, OutcomeInv, TypeOK
    <2>3. (result' = "ok" /\ stored) \/ result' = "error"
      BY <1>4 DEF ReceiveRes, ResultOf, IInv, OutcomeInv
    <2> QED
      BY <1>4, <2>1, <2>2, <2>3, Zenon
      DEF Complete, Request!Next, Request!vars, Request!Complete,
            Request!TakeEffect, Request!Succeed, Request!Fail
  <1> QED
    BY <1>2, <1>3, <1>4, OneThingAtATime

\* Producer, pipe, sender goroutine and net/http implement one upload request, for
\* bodies of any length and each of the three kinds of producers.
THEOREM ConnectionIsARequest == Spec => ConnectionUploads
  <1>1. Init => Request!Init
    BY DEF Init, Request!Init
  <1>2. IInv /\ [Next]_vars => [Request!Next]_(Request!vars)
    BY ConnSimulates
  <1> QED
    BY ConnInvariant, <1>1, <1>2, PTL DEF Spec, ConnectionUploads, Request!Spec
=============================================================================
