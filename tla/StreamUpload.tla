---------------------------- MODULE StreamUpload ----------------------------
(***************************************************************************)
(* A StreamUploadSession shared by several goroutines, each with its own   *)
(* RecordPackStreamWriter (odps/tunnel/stream_upload_session.go,           *)
(* record_pack_stream_writer.go), and the tunnel service it talks to.      *)
(*                                                                         *)
(* A goroutine's control point is pc[w].  Everything a goroutine does      *)
(* between two accesses to shared state (the selector, the stale mark, the *)
(* network) is one step; only the mark that a failed update or reload sets *)
(* belongs to the step that failed, for nothing but a return lies between. *)
(* The tunnel service is external: it is modelled from the requests        *)
(* flushStream sends and the answers it tells apart.                       *)
(***************************************************************************)
EXTENDS SlotSelector, FiniteSets

CONSTANTS
  Writers,     \* goroutines, each with one RecordPackStreamWriter
  Records,     \* the records the application appends, each once
  Routes,      \* the slot maps the tunnel service may have
  Footer,      \* the closing tags protocWriter.Close writes
  Partial,     \* the bytes a failed protocWriter.Write leaves behind
  NoSlot, NoServer,
  MaxFaults,   \* bound on network and service faults
  MaxMoves     \* bound on changes of the service's slot map

ASSUME StreamAssumption ==
  /\ Routes \subseteq Seq(Slot) /\ Routes # {} /\ <<>> \notin Routes
  /\ Footer \notin Records /\ Partial \notin Records /\ Footer # Partial
  /\ NoServer \notin ServerText
  /\ MaxFaults \in Nat /\ MaxMoves \in Nat

VARIABLES
  opened,       \* CreateStreamUploadSession has returned a session
  sel,          \* su.slotSelector
  slotsStale,   \* su.slotsStale
  buffer,       \* rsw.buffer, as the items written to it
  recordCount, flushing, appendErr,
  closed,       \* rsw.protocWriter.closed
  pc,           \* where the goroutine is in Flush / flushStream
  cur,          \* currentSlot
  answer,       \* what arrived on resChan
  loaded,       \* the decoded answer to a reload
  returnTo,     \* where reloadSlotNum was called from
  route,        \* the service's own slot map
  commits,      \* how often the service has stored each record
  late,         \* requests given up by the client that may still be served
  faults, moves,
  appended,     \* history: records handed to Append
  acked,        \* history: records a Flush reported as uploaded
  abandoned,    \* history: records of requests whose answer was lost
  evidence      \* history: writers that found the routing wrong, no reload since

sessionVars == <<opened, sel, slotsStale>>
writerVars  == <<buffer, recordCount, flushing, appendErr, closed>>
flushVars   == <<cur, answer, loaded, returnTo>>
serviceVars == <<route, commits, late, faults, moves>>
historyVars == <<appended, acked, abandoned, evidence>>
vars == <<sessionVars, writerVars, pc, flushVars, serviceVars, historyVars>>

-----------------------------------------------------------------------------

Item == Records \cup {Footer, Partial}

\* An error as slotRoutingIsStale sees it: "rerouted" is 308, 502 or 504,
\* "refused" any other HTTP status that is not 2xx, "transport" no status at all.
Code == {"none", "ok", "rerouted", "refused", "transport"}
NoAnswer == [code |-> "none", num |-> 0, server |-> NoServer]
\* num is the odps-tunnel-slot-num header, -1 when it is not a number.
Answer == [code : Code, num : Nat \cup {-1}, server : ServerText \cup {NoServer}]

NotLoaded == [ok |-> FALSE, slots |-> <<>>]
Loaded == [ok : BOOLEAN, slots : Seq(Slot)]

Points == {"idle", "take", "reload", "apply", "next", "connect", "sent",
           "answered", "update", "done"}

RecordsIn(b) == {r \in Records : \E i \in DOMAIN b : b[i] = r}

TypeOK ==
  /\ opened \in BOOLEAN
  /\ sel \in Selector
  /\ slotsStale \in BOOLEAN
  /\ buffer \in [Writers -> Seq(Item)]
  /\ recordCount \in [Writers -> Nat]
  /\ flushing \in [Writers -> BOOLEAN]
  /\ appendErr \in [Writers -> BOOLEAN]
  /\ closed \in [Writers -> BOOLEAN]
  /\ pc \in [Writers -> Points]
  /\ cur \in [Writers -> Slot \cup {NoSlot}]
  /\ answer \in [Writers -> Answer]
  /\ loaded \in [Writers -> Loaded]
  /\ returnTo \in [Writers -> {"next", "done"}]
  /\ route \in Routes
  /\ commits \in [Records -> Nat]
  /\ late \in SUBSET [nr : Nat, body : Seq(Item)]
  /\ faults \in 0 .. MaxFaults
  /\ moves \in 0 .. MaxMoves
  /\ appended \in SUBSET Records
  /\ acked \in SUBSET Records
  /\ abandoned \in SUBSET Records
  /\ evidence \in SUBSET Writers

Init ==
  /\ opened = FALSE
  /\ sel = newSlotSelect
  /\ slotsStale = FALSE
  /\ buffer = [w \in Writers |-> <<>>]
  /\ recordCount = [w \in Writers |-> 0]
  /\ flushing = [w \in Writers |-> FALSE]
  /\ appendErr = [w \in Writers |-> FALSE]
  /\ closed = [w \in Writers |-> FALSE]
  /\ pc = [w \in Writers |-> "idle"]
  /\ cur = [w \in Writers |-> NoSlot]
  /\ answer = [w \in Writers |-> NoAnswer]
  /\ loaded = [w \in Writers |-> NotLoaded]
  /\ returnTo = [w \in Writers |-> "next"]
  /\ route \in Routes
  /\ commits = [r \in Records |-> 0]
  /\ late = {}
  /\ faults = 0 /\ moves = 0
  /\ appended = {} /\ acked = {} /\ abandoned = {}
  /\ evidence = {}

Goto(w, p) == pc' = [pc EXCEPT ![w] = p]

-----------------------------------------------------------------------------
(* The session: creation, and loadInformation on a reload.                 *)

\* The slots an answer to the initiation request carries: the service's map, or
\* none.  Creation fails on an empty list and no session comes into being.
CreationAccepts(slots) == Len(slots) > 0

CreateStreamUploadSession ==
  /\ ~opened
  /\ \E slots \in {route, <<>>} :
       /\ CreationAccepts(slots)
       /\ sel' \in Reset(sel, slots)
  /\ opened' = TRUE
  /\ UNCHANGED <<slotsStale, writerVars, pc, flushVars, serviceVars, historyVars>>

\* The service answers the request of reloadSlotNum with its map of this moment,
\* with an empty list, or not in a way loadInformation accepts: no answer, a
\* status that is not 2xx, a body that does not decode, status "init", a slot
\* with a malformed server.
ServeReload(w) ==
  /\ pc[w] = "reload"
  /\ \/ /\ loaded' = [loaded EXCEPT ![w] = [ok |-> TRUE, slots |-> route]]
        /\ evidence' = {}
        /\ UNCHANGED faults
     \/ /\ faults < MaxFaults /\ faults' = faults + 1
        /\ loaded' = [loaded EXCEPT ![w] = [ok |-> TRUE, slots |-> <<>>]]
        /\ evidence' = {}
     \/ /\ faults < MaxFaults /\ faults' = faults + 1
        /\ loaded' = [loaded EXCEPT ![w] = NotLoaded]
        /\ UNCHANGED evidence
  /\ Goto(w, "apply")
  /\ UNCHANGED <<sessionVars, writerVars, cur, answer, returnTo, route, commits,
                 late, moves, appended, acked, abandoned>>

\* A reload that fails puts the stale mark back, both before a flush
\* (reloadSlotsIfStale) and after one (refreshSlotRouting).
\* Mutant: the mark stays cleared when the reload fails.
MarkNotRestored(ok) == slotsStale
MarkAfterReload(ok) == slotsStale \/ ~ok

ReloadSlotNum(w) ==
  /\ pc[w] = "apply"
  /\ sel' \in IF loaded[w].ok THEN Reset(sel, loaded[w].slots) ELSE {sel}
  /\ slotsStale' = MarkAfterReload(loaded[w].ok)
  /\ loaded' = [loaded EXCEPT ![w] = NotLoaded]
  /\ Goto(w, returnTo[w])
  /\ UNCHANGED <<opened, writerVars, cur, answer, returnTo, serviceVars, historyVars>>

-----------------------------------------------------------------------------
(* RecordPackStreamWriter: Append, Flush up to flushStream, Reset.          *)

\* Append after an unsuccessful flush is refused and remembered as an append
\* error.
AppendRefused(w) ==
  /\ opened /\ pc[w] = "idle" /\ flushing[w]
  /\ appendErr' = [appendErr EXCEPT ![w] = TRUE]
  /\ UNCHANGED <<sessionVars, buffer, recordCount, flushing, closed, pc, flushVars,
                 serviceVars, historyVars>>

AppendRecord(w) ==
  /\ opened /\ pc[w] = "idle" /\ ~flushing[w]
  /\ \E r \in Records \ appended :
       /\ buffer' = [buffer EXCEPT ![w] = Append(@, r)]
       /\ appended' = appended \cup {r}
  /\ recordCount' = [recordCount EXCEPT ![w] = @ + 1]
  /\ UNCHANGED <<sessionVars, flushing, appendErr, closed, pc, flushVars, serviceVars,
                 acked, abandoned, evidence>>

\* A record whose schema does not match leaves the buffer alone, one that
\* protocWriter.Write fails on leaves the fields before the failing one in it
\* (bound: one such remnant per pack).
AppendFails(w) ==
  /\ opened /\ pc[w] = "idle" /\ ~flushing[w]
  /\ \/ UNCHANGED buffer
     \/ /\ \A i \in DOMAIN buffer[w] : buffer[w][i] # Partial
        /\ buffer' = [buffer EXCEPT ![w] = Append(@, Partial)]
  /\ appendErr' = [appendErr EXCEPT ![w] = TRUE]
  /\ UNCHANGED <<sessionVars, recordCount, flushing, closed, pc, flushVars,
                 serviceVars, historyVars>>

\* Flush returns at once when an append has failed or nothing is buffered.
MayFlush(w) == ~appendErr[w] /\ recordCount[w] > 0

\* The footer is written by the first attempt only.
\* Mutant: every attempt closes the protoc stream again.
CloseAgain(w) == TRUE
MustClose(w) == ~flushing[w] /\ ~closed[w]

Flush(w) ==
  /\ opened /\ pc[w] = "idle" /\ MayFlush(w)
  /\ buffer' = [buffer EXCEPT ![w] = IF MustClose(w) THEN Append(@, Footer) ELSE @]
  /\ closed' = [closed EXCEPT ![w] = TRUE]
  /\ flushing' = [flushing EXCEPT ![w] = TRUE]
  /\ Goto(w, "take")
  /\ UNCHANGED <<sessionVars, recordCount, appendErr, flushVars, serviceVars, historyVars>>

\* What Reset assigns; flushing is not among it.
Emptied(w) ==
  /\ buffer' = [buffer EXCEPT ![w] = <<>>]
  /\ closed' = [closed EXCEPT ![w] = FALSE]
  /\ recordCount' = [recordCount EXCEPT ![w] = 0]
  /\ appendErr' = [appendErr EXCEPT ![w] = FALSE]

WriterReset(w) ==
  /\ opened /\ pc[w] = "idle"
  /\ Emptied(w)
  /\ UNCHANGED <<sessionVars, flushing, pc, flushVars, serviceVars, historyVars>>

-----------------------------------------------------------------------------
(* flushStream.                                                             *)

TakeSlotsStale(w) ==
  /\ pc[w] = "take"
  /\ slotsStale' = FALSE
  /\ returnTo' = [returnTo EXCEPT ![w] = "next"]
  /\ Goto(w, IF slotsStale THEN "reload" ELSE "next")
  /\ UNCHANGED <<opened, sel, writerVars, cur, answer, loaded, serviceVars, historyVars>>

\* NextSlot's error on an empty list is unreachable, see SlotsAvailable.
TakeNextSlot(w) ==
  /\ pc[w] = "next"
  /\ cur' = [cur EXCEPT ![w] = NextSlot(sel)]
  /\ sel' = AfterNextSlot(sel)
  /\ Goto(w, "connect")
  /\ UNCHANGED <<opened, slotsStale, writerVars, answer, loaded, returnTo,
                 serviceVars, historyVars>>

\* newUploadConnection starts the request with the buffer as its body.
NewUploadConnection(w) ==
  /\ pc[w] = "connect"
  /\ Goto(w, "sent")
  /\ UNCHANGED <<sessionVars, writerVars, flushVars, serviceVars, historyVars>>

\* The request cannot be built: Flush fails without touching the stale mark.
NewUploadConnectionFails(w) ==
  /\ pc[w] = "connect"
  /\ faults < MaxFaults /\ faults' = faults + 1
  /\ cur' = [cur EXCEPT ![w] = NoSlot]
  /\ Goto(w, "idle")
  /\ UNCHANGED <<sessionVars, writerVars, answer, loaded, returnTo, route, commits,
                 late, moves, historyVars>>

-----------------------------------------------------------------------------
(* The tunnel service (external).                                           *)

Known(w) == \E i \in DOMAIN route : route[i].id = cur[w].id
Misrouted(w) == \A i \in DOMAIN route : route[i] # cur[w]

Store(body) ==
  commits' = [r \in Records |-> commits[r] + (IF r \in RecordsIn(body) THEN 1 ELSE 0)]

Answered(w, a) == answer' = [answer EXCEPT ![w] = a] /\ Goto(w, "answered")

\* The service stores the pack and says so, naming the number of slots and, in
\* some answers, the server the slot is on now.
ServeFlush(w) ==
  /\ pc[w] = "sent" /\ Known(w)
  /\ Store(buffer[w])
  /\ \E i \in DOMAIN route :
       /\ route[i].id = cur[w].id
       /\ \E server \in {NoServer, ServerOf(route[i])} :
            Answered(w, [code |-> "ok", num |-> Len(route), server |-> server])
  /\ UNCHANGED <<sessionVars, writerVars, cur, loaded, returnTo, route, late, faults,
                 moves, historyVars>>

\* The same with a header the client cannot use.
ServeFlushGarbled(w) ==
  /\ pc[w] = "sent" /\ Known(w)
  /\ faults < MaxFaults /\ faults' = faults + 1
  /\ Store(buffer[w])
  /\ \/ Answered(w, [code |-> "ok", num |-> -1, server |-> NoServer])
     \/ \E text \in ServerText \ Server :
          Answered(w, [code |-> "ok", num |-> Len(route), server |-> text])
  /\ UNCHANGED <<sessionVars, writerVars, cur, loaded, returnTo, route, late, moves,
                 historyVars>>

\* The request fails and stores nothing: the service refuses it, the connection
\* cannot be made, or writing the body fails half-way (in which case flushStream
\* takes the error of closeRes, or the write error after a 2xx).  A request to a
\* server that no longer has the slot fails like this as often as it is sent.
FlushRejected(w) ==
  /\ pc[w] = "sent"
  /\ \E code \in {"rerouted", "refused", "transport"} :
       /\ Answered(w, [NoAnswer EXCEPT !.code = code])
       /\ IF Misrouted(w) /\ code # "refused"
          THEN UNCHANGED faults
          ELSE faults < MaxFaults /\ faults' = faults + 1
  /\ UNCHANGED <<sessionVars, writerVars, cur, loaded, returnTo, route, commits, late,
                 moves, historyVars>>

\* A timeout or a lost connection after the whole body was sent: the client gives
\* up, the service may still store the pack, now or later.
AnswerLost(w) ==
  /\ pc[w] = "sent"
  /\ faults < MaxFaults /\ faults' = faults + 1
  /\ late' \in {late, late \cup {[nr |-> faults', body |-> buffer[w]]}}
  /\ abandoned' = abandoned \cup RecordsIn(buffer[w])
  /\ Answered(w, [NoAnswer EXCEPT !.code = "transport"])
  /\ UNCHANGED <<sessionVars, writerVars, cur, loaded, returnTo, route, commits, moves,
                 appended, acked, evidence>>

ServeLate(m) ==
  /\ Store(m.body)
  /\ late' = late \ {m}
  /\ UNCHANGED <<sessionVars, writerVars, pc, flushVars, route, faults, moves,
                 historyVars>>

\* Slots are rescheduled to other servers, added or removed.
MoveSlots ==
  /\ moves < MaxMoves /\ moves' = moves + 1
  /\ route' \in Routes \ {route}
  /\ UNCHANGED <<sessionVars, writerVars, pc, flushVars, commits, late, faults,
                 historyVars>>

-----------------------------------------------------------------------------
(* flushStream, once the answer is there.                                   *)

\* Mutant: 502 and 504 are taken for a healthy route.
StaleOnTransportOnly(code) == code = "transport"
SlotRoutingIsStale(code) == code \in {"rerouted", "transport"}

\* Mutants: a status that is not 2xx is taken for a success; a flush that failed on
\* a bad route is tried again on the next slot without leaving flushStream.
IgnoreStatus(code) == IF code = "refused" THEN "done" ELSE "idle"
RetryInside(code) == IF code = "refused" THEN "idle" ELSE "next"
AfterFailure(code) == "idle"

\* A failed flush returns before Flush resets the writer.
\* Mutant: the pack is dropped.
DropPack(w) == Emptied(w) /\ flushing' = [flushing EXCEPT ![w] = FALSE]
KeepPack(w) == UNCHANGED writerVars

FlushFailed(w) ==
  /\ pc[w] = "answered" /\ answer[w].code # "ok"
  /\ KeepPack(w)
  /\ slotsStale' = (slotsStale \/ SlotRoutingIsStale(answer[w].code))
  /\ evidence' = IF answer[w].code \in {"rerouted", "transport"}
                 THEN evidence \cup {w} ELSE evidence
  /\ cur' = [cur EXCEPT ![w] = NoSlot]
  /\ answer' = [answer EXCEPT ![w] = NoAnswer]
  /\ Goto(w, AfterFailure(answer[w].code))
  /\ UNCHANGED <<opened, sel, loaded, returnTo, serviceVars, appended,
                 acked, abandoned>>

\* refreshSlotRouting, up to its calls of reloadSlotNum and UpdateServer.
RefreshSlotRouting(w) ==
  LET a == answer[w] IN
  /\ pc[w] = "answered" /\ a.code = "ok"
  /\ returnTo' = [returnTo EXCEPT ![w] = "done"]
  /\ \/ /\ a.num = -1
        /\ slotsStale' = TRUE /\ evidence' = evidence \cup {w}
        /\ Goto(w, "done")
     \/ /\ a.num # -1 /\ a.num # SlotNum(sel)
        /\ evidence' = evidence \cup {w}
        /\ Goto(w, "reload")
        /\ UNCHANGED slotsStale
     \/ /\ a.num = SlotNum(sel)
        /\ Goto(w, IF a.server \in {NoServer, ServerOf(cur[w])} THEN "done" ELSE "update")
        /\ UNCHANGED <<slotsStale, evidence>>
  /\ UNCHANGED <<opened, sel, writerVars, cur, answer, loaded, serviceVars, appended,
                 acked, abandoned>>

\* Mutant: a routing failure after the commit is reported as a failed flush.
FailAfterCommit(failed) == IF failed THEN "idle" ELSE "done"
AfterUpdate(failed) == "done"

UpdateSlotServer(w) ==
  LET failed == UpdateServerFails(sel, cur[w].id, answer[w].server) IN
  /\ pc[w] = "update"
  /\ sel' = UpdateServer(sel, cur[w].id, answer[w].server)
  /\ slotsStale' = (slotsStale \/ failed)
  /\ evidence' = IF failed THEN evidence \cup {w} ELSE evidence
  /\ Goto(w, AfterUpdate(failed))
  /\ UNCHANGED <<opened, writerVars, flushVars, serviceVars, appended, acked, abandoned>>

\* Flush returns the number of records; the writer is ready for the next pack.
FlushDone(w) ==
  /\ pc[w] = "done"
  /\ acked' = acked \cup RecordsIn(buffer[w])
  /\ flushing' = [flushing EXCEPT ![w] = FALSE]
  /\ Emptied(w)
  /\ cur' = [cur EXCEPT ![w] = NoSlot]
  /\ answer' = [answer EXCEPT ![w] = NoAnswer]
  /\ Goto(w, "idle")
  /\ UNCHANGED <<sessionVars, loaded, returnTo, serviceVars, appended, abandoned,
                 evidence>>

-----------------------------------------------------------------------------

\* The client side of a flush, once Flush has been called.
ClientStep(w) ==
  \/ TakeSlotsStale(w) \/ ReloadSlotNum(w) \/ TakeNextSlot(w)
  \/ NewUploadConnection(w) \/ NewUploadConnectionFails(w)
  \/ FlushFailed(w) \/ RefreshSlotRouting(w) \/ UpdateSlotServer(w) \/ FlushDone(w)

\* The service, or the transport on its behalf, ends a request.
ServiceStep(w) ==
  \/ ServeReload(w)
  \/ ServeFlush(w) \/ ServeFlushGarbled(w) \/ FlushRejected(w) \/ AnswerLost(w)

\* What the application calls.
CallerStep(w) ==
  \/ AppendRefused(w) \/ AppendRecord(w) \/ AppendFails(w) \/ WriterReset(w)

Next ==
  \/ CreateStreamUploadSession
  \/ \E w \in Writers : CallerStep(w) \/ Flush(w) \/ ClientStep(w) \/ ServiceStep(w)
  \/ \E m \in late : ServeLate(m)
  \/ MoveSlots

Spec == Init /\ [][Next]_vars

\* Goroutines are scheduled, every request ends (the service answers, the connection
\* breaks or the timeout given to Flush or SetHttpTimeout passes; by default there is
\* none), and an application that holds an unsent pack calls Flush again.
Fairness ==
  \A w \in Writers :
    /\ WF_vars(ClientStep(w))
    /\ WF_vars(ServiceStep(w))
    /\ WF_vars(Flush(w))

FairSpec == Spec /\ Fairness

-----------------------------------------------------------------------------
(* Properties.                                                              *)

\* A session always has a slot to send to, whatever the reloads return, so the
\* error of NextSlot and an index out of range are never met, and the rotating
\* index never runs past the end of the list by more than one.
SlotsAvailable ==
  /\ opened => Len(sel.arr) > 0
  /\ sel.index \in 0 .. Len(sel.arr)

\* A Flush that reports success has its records stored by the service.
AckedStored == \A r \in acked : commits[r] > 0

\* A record is stored twice only after an answer to a request with it was lost: an
\* answer that reached flushStream with a 2xx is never turned into a failure the
\* caller would retry.
DuplicatesNeedALostAnswer ==
  \A r \in Records : commits[r] > 1 => r \in abandoned

\* What is sent is a complete pack: the announced number of whole records followed
\* by exactly one footer, on the first attempt and on every retry.
IsPack(b, n) ==
  /\ Len(b) = n + 1 /\ b[n + 1] = Footer
  /\ \A i \in 1 .. n : b[i] \in Records
PacksAreWhole == \A w \in Writers : pc[w] = "sent" => IsPack(buffer[w], recordCount[w])

\* Once a flush has shown the routing to be wrong, the stale mark stays set, or a
\* goroutine is on its way to a reload, until a reload has been answered: the mark
\* taken by one goroutine is not lost for the others when its reload fails.
Reloading(w) == pc[w] = "reload" \/ (pc[w] = "apply" /\ ~loaded[w].ok)
EvidenceKept == evidence # {} => slotsStale \/ \E w \in Writers : Reloading(w)

\* A pack leaves a writer only by being acknowledged or by Reset: a flush that
\* fails keeps every record of the pack for the retry.
FailedFlushKeepsPack ==
  [][\A w \in Writers :
       pc[w] # "idle" /\ pc'[w] = "idle"
         => RecordsIn(buffer[w]) \subseteq acked' \/ (buffer'[w] = buffer[w] /\ flushing'[w])]_vars

\* Every Flush returns.
FlushReturns == \A w \in Writers : pc[w] # "idle" ~> pc[w] = "idle"

\* A pack that is flushed again and again is delivered once the service's slot map
\* and the network settle (their faults are bounded): the reloads the failures
\* trigger lead the session back to the servers that have the slots.
Pending(w) == flushing[w] /\ recordCount[w] > 0 /\ ~appendErr[w]
RetryDelivers == \A w \in Writers : Pending(w) ~> ~Pending(w)

\* Append refuses records after a failed flush and says: "you should call flush to
\* retry or call Reset to drop the data".  Claim that a writer which refuses records
\* for this reason has a pack that Flush sends, so that the advice leads on.
RefusalCanBeResolved ==
  \A w \in Writers : pc[w] = "idle" /\ flushing[w] => MayFlush(w)

-----------------------------------------------------------------------------
(* What all this implements.                                                *)

Delivery == INSTANCE AtLeastOnce WITH
  given <- appended, count <- commits, doubtful <- abandoned, acked <- acked

\* However flushes, reloads, retries and faults interleave, the session gives the
\* application what AtLeastOnce promises: flushStream and Flush acknowledge only
\* what is stored and make the service store a record again only after an answer to
\* a request with it was lost.
DeliversAtLeastOnce == Delivery!Spec
=============================================================================
