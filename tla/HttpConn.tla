------------------------------ MODULE HttpConn ------------------------------
(***************************************************************************)
(* One upload request: httpConnection of odps/tunnel/http_conn.go, opened  *)
(* by newUploadConnection of a stream or a block upload session.  Three    *)
(* parties share it:                                                       *)
(*   - the producer, which writes the body into an io.Pipe and then        *)
(*     receives the outcome on an unbuffered channel;                      *)
(*   - the sender goroutine, which runs RestClient.Do with the read end of *)
(*     the pipe as request body and then sends the outcome;                *)
(*   - net/http and the tunnel service (external).                         *)
(*                                                                         *)
(* kind tells the three producers apart: "flush" is flushStream, "protoc"  *)
(* a RecordProtocWriter and "arrow" a RecordArrowWriter on a block.        *)
(* io.Pipe has no buffer: a Write returns when the reader has taken the    *)
(* data or either end is closed.                                           *)
(***************************************************************************)
EXTENDS Integers

CONSTANTS
  MaxChunks,   \* pieces of body before the footer
  FooterLen    \* pieces of the footer

ASSUME ConnAssumption == MaxChunks \in Nat /\ FooterLen \in Nat \ {0}

VARIABLES
  kind,
  pc,        \* the producer
  written,   \* pieces of body the pipe has taken from the producer
  footer,    \* and pieces of the footer
  failed,    \* a write has returned an error
  pending,   \* a write is waiting in the pipe
  rClosed, wClosed,   \* the ends of the pipe
  sender,    \* the goroutine: before Do, in http.Client.Do, at resChan <-, gone
  http,      \* http.Client.Do has been entered
  outcome,   \* what Do returned
  received,  \* pieces of body net/http has read from the pipe
  tail,      \* and pieces of the footer
  body,      \* how the request body stands on the wire
  stored,    \* the service has taken the request as a complete upload
  result     \* what the producer's Close or flushStream returned

pipeVars == <<pending, rClosed, wClosed>>
wireVars == <<received, tail>>
vars == <<kind, pc, written, footer, failed, pipeVars, sender, http, outcome, wireVars,
          body, stored, result>>

TypeOK ==
  /\ kind \in {"flush", "protoc", "arrow"}
  /\ pc \in {"ready", "write", "footer", "closing", "receive", "returned"}
  /\ written \in 0 .. MaxChunks /\ footer \in 0 .. FooterLen
  /\ failed \in BOOLEAN /\ pending \in BOOLEAN
  /\ rClosed \in BOOLEAN /\ wClosed \in BOOLEAN
  /\ sender \in {"new", "doing", "report", "ended"}
  /\ http \in BOOLEAN
  /\ outcome \in {"none", "ok", "bad"}
  /\ received \in 0 .. MaxChunks /\ tail \in 0 .. FooterLen
  /\ body \in {"open", "eof", "aborted"}
  /\ stored \in BOOLEAN
  /\ result \in {"none", "ok", "error"}

\* newUploadConnection: the pipe is made and the goroutine started.
Init ==
  /\ kind \in {"flush", "protoc", "arrow"}
  /\ pc = "ready" /\ written = 0 /\ footer = 0 /\ failed = FALSE
  /\ pending = FALSE /\ rClosed = FALSE /\ wClosed = FALSE
  /\ sender = "new" /\ http = FALSE /\ outcome = "none"
  /\ received = 0 /\ tail = 0 /\ body = "open" /\ stored = FALSE
  /\ result = "none"

-----------------------------------------------------------------------------
(* The producer.                                                            *)

\* A piece of body.  flushStream writes the whole buffer in one call, which
\* net/http takes piece by piece; a block writer is called once per record.
Write ==
  /\ pc = "ready" /\ written < MaxChunks /\ (kind = "flush" => ~failed)
  /\ pc' = "write" /\ pending' = TRUE
  /\ UNCHANGED <<kind, written, footer, failed, rClosed, wClosed, sender, http, outcome,
                 wireVars, body, stored, result>>

\* Mutant: flushStream returns the write error without waiting for the sender.
ReturnAtOnce == IF kind = "flush" THEN "returned" ELSE "ready"
\* A write fails when net/http has closed the reader.  flushStream then closes the
\* reader itself (by now a no-op) and waits for the sender; a block writer hands the
\* error to the application, which may still call Close.
AfterWriteError == IF kind = "flush" THEN "receive" ELSE "ready"

WriteTaken ==
  /\ pc = "write" /\ ~pending
  /\ pc' = "ready" /\ written' = written + 1
  /\ UNCHANGED <<kind, footer, failed, pipeVars, sender, http, outcome, wireVars, body,
                 stored, result>>

WriteFails ==
  /\ pc = "write" /\ pending /\ rClosed
  /\ pc' = AfterWriteError /\ failed' = TRUE /\ pending' = FALSE
  /\ UNCHANGED <<kind, written, footer, rClosed, wClosed, sender, http, outcome, wireVars,
                 body, stored, result>>

\* flushStream closes the writer after the last piece (the footer is in its
\* buffer); Close of a block writer writes the footer first (record count and
\* checksum, or end of stream and global checksum).  A RecordProtocWriter whose
\* footer cannot be written does not close the pipe, a RecordArrowWriter does.
CloseStartsAt == IF kind = "flush" THEN "closing" ELSE "footer"
\* Mutants: the pipe is closed behind the record count, without the checksum; the
\* protoc writer does not close it.
WithoutChecksum(n) == n = 1
FooterIsWritten(n) == n = FooterLen
NoClose == IF kind = "protoc" THEN "receive" ELSE "closing"
AfterFooter == "closing"
AfterFooterError == IF kind = "protoc" THEN "receive" ELSE "closing"

Close ==
  /\ pc = "ready" /\ (kind = "flush" => written = MaxChunks)
  /\ pc' = CloseStartsAt
  /\ pending' = (pc' = "footer")
  /\ UNCHANGED <<kind, written, footer, failed, rClosed, wClosed, sender, http, outcome,
                 wireVars, body, stored, result>>

\* The pieces of the footer are writes of their own, each may be the one that fails.
FooterTaken ==
  /\ pc = "footer" /\ ~pending
  /\ footer' = footer + 1
  /\ pending' = ~FooterIsWritten(footer')
  /\ pc' = IF pending' THEN "footer" ELSE AfterFooter
  /\ UNCHANGED <<kind, written, failed, rClosed, wClosed, sender, http, outcome, wireVars,
                 body, stored, result>>

FooterFails ==
  /\ pc = "footer" /\ pending /\ rClosed
  /\ pc' = AfterFooterError /\ failed' = TRUE /\ pending' = FALSE
  /\ UNCHANGED <<kind, written, footer, rClosed, wClosed, sender, http, outcome, wireVars,
                 body, stored, result>>

WriterClose ==
  /\ pc = "closing"
  /\ pc' = "receive" /\ wClosed' = TRUE
  /\ UNCHANGED <<kind, written, footer, failed, pending, rClosed, sender, http, outcome,
                 wireVars, body, stored, result>>

\* <-resChan, in closeRes and in flushStream.  A write error is reported even
\* when the service has answered 2xx.  The goroutine of a block session then runs
\* its deferred reader.Close().
\* Mutants: closeRes drops the error of Do; the outcome of Do is returned as it is.
RawOutcome(o, f) == o
DropError(o, f) == IF f THEN "error" ELSE "ok"
ResultOf(o, f) == IF o = "ok" /\ ~f THEN "ok" ELSE "error"

ReceiveRes ==
  /\ pc = "receive" /\ sender = "report"
  /\ pc' = "returned" /\ sender' = "ended"
  /\ result' = ResultOf(outcome, failed)
  /\ rClosed' = (rClosed \/ kind # "flush")
  /\ UNCHANGED <<kind, written, footer, failed, pending, wClosed, http, outcome, wireVars,
                 body, stored>>

-----------------------------------------------------------------------------
(* The sender goroutine, up to http.Client.Do.                              *)

SignRequest ==
  /\ sender = "new"
  /\ sender' = "doing" /\ http' = TRUE
  /\ UNCHANGED <<kind, pc, written, footer, failed, pipeVars, outcome, wireVars, body, stored,
                 result>>

\* An account that has to fetch its credentials may fail to.  Do returns the error
\* before net/http has seen the body, so nobody closes the read end of the pipe.
SignRequestFails ==
  /\ sender = "new"
  /\ sender' = "report" /\ outcome' = "bad"
  /\ UNCHANGED <<kind, pc, written, footer, failed, pipeVars, http, wireVars, body, stored,
                 result>>

-----------------------------------------------------------------------------
(* net/http and the tunnel service (external).                              *)

ReadBody ==
  /\ http /\ body = "open" /\ pending /\ ~rClosed
  /\ pending' = FALSE
  /\ IF pc = "footer" THEN tail' = tail + 1 /\ UNCHANGED received
     ELSE received' = received + 1 /\ UNCHANGED tail
  /\ UNCHANGED <<kind, pc, written, footer, failed, rClosed, wClosed, sender, http, outcome,
                 body, stored, result>>

\* The writer was closed: the request is ended properly on the wire.
ReadEOF ==
  /\ http /\ body = "open" /\ wClosed /\ ~pending /\ ~rClosed
  /\ body' = "eof" /\ rClosed' = TRUE
  /\ UNCHANGED <<kind, pc, written, footer, failed, pending, wClosed, sender, http, outcome,
                 wireVars, stored, result>>

\* The service answers a complete request, or the answer is lost on the way.
DoAnswered ==
  /\ sender = "doing" /\ body = "eof"
  /\ sender' = "report"
  /\ \/ outcome' = "ok" /\ stored' = TRUE
     \/ outcome' = "bad" /\ stored' \in BOOLEAN
  /\ UNCHANGED <<kind, pc, written, footer, failed, pipeVars, http, wireVars, body, result>>

\* Do returns early: no connection, a timeout, a broken connection, a status that
\* is not 2xx before the body was sent.
DoFails ==
  /\ sender = "doing" /\ body = "open"
  /\ sender' = "report" /\ outcome' = "bad"
  /\ UNCHANGED <<kind, pc, written, footer, failed, pipeVars, http, wireVars, body, stored,
                 result>>

\* net/http closes the request body in every case, if need be after Do returned.
CloseBody ==
  /\ http /\ outcome # "none" /\ body = "open"
  /\ rClosed' = TRUE /\ body' = "aborted"
  /\ UNCHANGED <<kind, pc, written, footer, failed, pending, wClosed, sender, http, outcome,
                 wireVars, stored, result>>

-----------------------------------------------------------------------------

\* What runs by itself once it has begun.
ProducerStep ==
  \/ WriteTaken \/ WriteFails \/ FooterTaken \/ FooterFails \/ WriterClose \/ ReceiveRes
  \/ (kind = "flush" /\ (Write \/ Close))
NetStep == ReadBody \/ ReadEOF \/ DoAnswered \/ CloseBody
SenderStep == SignRequest \/ SignRequestFails

Next == ProducerStep \/ Write \/ Close \/ SenderStep \/ NetStep \/ DoFails

Spec == Init /\ [][Next]_vars

\* Goroutines are scheduled; net/http reads what it is given and the service
\* answers complete requests (or the http timeout, if one was set, ends them).
\* Nothing makes the application write or close a block.
FairSpec == Spec /\ WF_vars(ProducerStep) /\ WF_vars(NetStep) /\ WF_vars(SenderStep)

-----------------------------------------------------------------------------
(* Properties.                                                              *)

\* net/http has read what the producer had to send: the pack with the footer in its
\* buffer, or every record that was written and the whole footer.
Whole ==
  /\ received = written
  /\ IF kind = "flush" THEN received = MaxChunks ELSE tail = FooterLen

\* A Close or a flush that reports success has had every piece and the footer read
\* by net/http and the request accepted by the service.
SuccessIsStored == result = "ok" => stored /\ body = "eof" /\ ~failed /\ Whole

\* The service never sees a properly ended request that lacks a piece the producer
\* wrote or any piece of the footer: a producer that fails, also in the middle of the
\* footer, leaves an aborted request.
EndedBodyIsWhole == body = "eof" => Whole /\ ~failed /\ wClosed

\* Every Write, Close and flush of a request that could be signed returns, whatever
\* the network and the service do to the request.
Unsigned == outcome # "none" /\ ~http
CallsReturn == pc \notin {"ready", "returned"} ~> pc \in {"ready", "returned"} \/ Unsigned

\* "Close the pipe writer if request creation fails to prevent resource leak": claim
\* that no failure on the way to the service leaves the producer waiting.
CallsAlwaysReturn == pc \notin {"ready", "returned"} ~> pc \in {"ready", "returned"}

\* No sender goroutine outlives a flush or a Close that has returned.
NothingLeaks == pc = "returned" => sender = "ended"

-----------------------------------------------------------------------------
(* What a connection implements.                                            *)

Request == INSTANCE UploadRequest WITH
  complete <- body = "eof" /\ Whole /\ ~failed,
  stored <- stored,
  result <- result

\* Producer, pipe, sender goroutine and net/http together are one upload request:
\* it takes effect only with its whole body, success is reported only after that,
\* and what was reported is never revised.
ConnectionUploads == Request!Spec
=============================================================================
