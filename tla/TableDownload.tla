---------------------------- MODULE TableDownload ----------------------------
(***************************************************************************)
(* A DownloadSession of odps/tunnel/download_session.go: readers in        *)
(* goroutines of their own share the table by the session's record count.  *)
(* Connections are those of Transport; what goes over them is in           *)
(* ProtocStream and ArrowStream, here a reader receives the rows of its    *)
(* range.  The tunnel service is external.                                 *)
(***************************************************************************)
EXTENDS Transport

CONSTANTS
  Rows   \* number of rows of the table

ASSUME DownloadAssumption == Rows \in Nat

VARIABLES
  session,      \* the DownloadSession
  status, recordCount,
  async,        \* the session is created in async mode
  ready,        \* the service has finished the preparation of the session
  use,          \* what the request of a goroutine is for
  left,         \* rows of the body before a reader
  taken,        \* rows of its range a reader has handed out
  count         \* history: how often each row has been handed out

sessionVars == <<session, status, recordCount, async, ready>>
readerVars  == <<use, left, taken, count>>
vars == <<transportVars, sessionVars, readerVars>>

Init ==
  /\ TransportInit
  /\ session = "none" /\ status = "UNKNOWN" /\ recordCount = 0
  /\ async \in BOOLEAN /\ ready = FALSE
  /\ use = [g \in Readers |-> "read"]
  /\ left = [g \in Readers |-> {}] /\ taken = [g \in Readers |-> 0]
  /\ count = [n \in 1 .. Rows |-> 0]

-----------------------------------------------------------------------------
(* The session.                                                             *)

\* CreateDownloadSession and AttachToExistedDownloadSession copy the RestClient and
\* make the first request with it before they return the session.
StartLoading(g) ==
  /\ session' = "loading"
  /\ use' = [use EXCEPT ![g] = "load"]
  /\ Goto(g, "client")
  /\ clients' = 0 /\ idle' = 0
  /\ cache' = 0 /\ slices' = NoSlices /\ fresh' = {} /\ UNCHANGED expiries
  /\ UNCHANGED <<dialVars, networkVars, status, recordCount, async, ready, left, taken, count>>

CreateDownloadSession(g) ==
  /\ session = "none" /\ status = "UNKNOWN" /\ pc[g] = "idle"
  /\ StartLoading(g)

\* The only way to learn that an asynchronous session is ready: Load is not offered.
AttachToExistedDownloadSession(g) ==
  /\ session \in {"none", "open"} /\ status = "INITIATING"
  /\ \A h \in Readers : pc[h] = "idle"
  /\ StartLoading(g)

\* loadInformation: status and record count as the service tells them.
LoadInformation(g) ==
  /\ pc[g] = "request" /\ use[g] = "load" /\ peer[g] = "service"
  /\ status' = IF ~async \/ ready THEN "NORMAL" ELSE "INITIATING"
  /\ recordCount' = IF ~async \/ ready THEN Rows ELSE 0
  /\ session' = "open"
  /\ idle' = idle + 1
  /\ use' = [use EXCEPT ![g] = "read"] /\ Set(peer, g, "none")
  /\ Goto(g, "idle")
  /\ UNCHANGED <<clients, resolverVars, addressVars, networkVars, async, ready, left, taken,
                 count>>

\* No connection, no usable answer, or an answer that is not the service's: no session
\* comes of it, and the caller creates or attaches again.
LoadFails(g) ==
  /\ use[g] = "load"
  /\ \/ pc[g] = "refused" /\ NoFault
     \/ pc[g] = "request" /\ (IF peer[g] = "service" THEN Fault ELSE NoFault)
  /\ session' = "none"
  /\ use' = [use EXCEPT ![g] = "read"] /\ Set(peer, g, "none")
  /\ Goto(g, "idle")
  /\ UNCHANGED <<clientVars, addressVars, dns, moves, status, recordCount, async, ready, left,
                 taken, count>>

\* The service has prepared an asynchronous session (external).
Prepare ==
  /\ status = "INITIATING" /\ ~ready
  /\ ready' = TRUE
  /\ UNCHANGED <<transportVars, session, status, recordCount, async, readerVars>>

-----------------------------------------------------------------------------
(* The readers.                                                             *)

\* The application gives every reader its share of the record count, and opens the
\* rest of a share again until it has all of it.
First(g) == ((g - 1) * recordCount) \div NumReaders
Last(g)  == (g * recordCount) \div NumReaders
Finished(g) == pc[g] = "idle" /\ taken[g] = Last(g) - First(g)

OpenRecordReader(g) ==
  /\ session = "open" /\ pc[g] = "idle" /\ ~Finished(g)
  /\ Goto(g, "client")
  /\ UNCHANGED <<clientVars, dialVars, networkVars, sessionVars, readerVars>>

\* The range asked for: what is left of the share, from where the last reader stopped.
\* Mutant: the start is left out of the range.
FromTheStart(g) == [start |-> 0, count |-> Last(g) - First(g) - taken[g]]
RowRange(g) == [start |-> First(g) + taken[g], count |-> Last(g) - First(g) - taken[g]]

\* The service sends the rows of the range that exist (external).
Sent(g) == {n \in 1 .. Rows : RowRange(g).start < n /\ n <= RowRange(g).start + RowRange(g).count}

NewDownloadConnection(g) ==
  /\ pc[g] = "request" /\ use[g] = "read" /\ peer[g] = "service"
  /\ left' = [left EXCEPT ![g] = Sent(g)]
  /\ Goto(g, "reading")
  /\ UNCHANGED <<clientVars, dialVars, networkVars, sessionVars, use, taken, count>>

Read(g) ==
  /\ pc[g] = "reading" /\ left[g] # {}
  /\ \E n \in left[g] :
       /\ \A m \in left[g] : n <= m
       /\ left' = [left EXCEPT ![g] = @ \ {n}]
       /\ count' = [count EXCEPT ![n] = @ + 1]
  /\ taken' = [taken EXCEPT ![g] = @ + 1]
  /\ UNCHANGED <<transportVars, sessionVars, use>>

\* The body ends, after all rows or, by a fault of the service, before.
ReadEOF(g) ==
  /\ pc[g] = "reading" /\ (IF left[g] = {} THEN NoFault ELSE Fault)
  /\ left' = [left EXCEPT ![g] = {}]
  /\ idle' = idle + 1 /\ Set(peer, g, "none")
  /\ Goto(g, "idle")
  /\ UNCHANGED <<clients, resolverVars, addressVars, dns, moves, sessionVars, use, taken,
                 count>>

\* The connection cannot be had or breaks: the application opens the rest again.
ReadFails(g) ==
  /\ use[g] = "read"
  /\ \/ pc[g] = "refused" /\ NoFault
     \/ pc[g] \in {"request", "reading"} /\ (IF peer[g] = "service" THEN Fault ELSE NoFault)
  /\ left' = [left EXCEPT ![g] = {}] /\ Set(peer, g, "none")
  /\ Goto(g, "idle")
  /\ UNCHANGED <<clientVars, addressVars, dns, moves, sessionVars, use, taken, count>>

-----------------------------------------------------------------------------

SessionStep(g) ==
  CreateDownloadSession(g) \/ AttachToExistedDownloadSession(g) \/ OpenRecordReader(g)

RequestStep(g) ==
  \/ ConnectStep(g) /\ UNCHANGED <<sessionVars, readerVars>>
  \/ LoadInformation(g) \/ LoadFails(g)
  \/ NewDownloadConnection(g) \/ Read(g) \/ ReadEOF(g) \/ ReadFails(g)

EntryExpires == Expire /\ UNCHANGED <<sessionVars, readerVars>>

Next ==
  \/ \E g \in Readers : SessionStep(g) \/ RequestStep(g)
  \/ Prepare
  \/ MoveHost /\ UNCHANGED <<sessionVars, readerVars>>
  \/ EntryExpires

Spec == Init /\ [][Next]_vars

\* Goroutines run and requests end; the application goes on until it has its rows, the
\* service gets a session ready, and cache entries grow old.
FairSpec ==
  /\ Spec
  /\ \A g \in Readers : WF_vars(SessionStep(g)) /\ WF_vars(RequestStep(g))
  /\ WF_vars(Prepare) /\ WF_vars(EntryExpires)

-----------------------------------------------------------------------------
(* Properties.                                                              *)

\* client() checks and assigns without a lock, yet no two readers of a session ever
\* make a client each: the first request is made before the session is handed out.
OneClientPerSession == clients <= 1

\* A dial that met no fault and no move fails only if the slice it was given had been made
\* before the host moved and silent addresses of it used up the deadline of the request:
\* whatever lookups, expiry and unlocked shuffles have done to a slice made since, no
\* address of other times gets into it, and what is torn costs no time.
CalmDialSucceeds ==
  \A g \in Readers : pc[g] = "refused" /\ calm[g] => old[g] /\ spent[g] >= Budget

\* Readers that have all of their shares have handed out every row of the table once,
\* through any number of failed, cut and reopened readers, unless the session was still
\* being initiated when it was loaded.
DownloadIsComplete ==
  /\ \A n \in 1 .. Rows : count[n] <= 1
  /\ status = "NORMAL" /\ (\A g \in Readers : Finished(g)) => \A n \in 1 .. Rows : count[n] = 1

\* A download comes to its end once the network is quiet (its faults are bounded).
DownloadFinishes == <>(status = "NORMAL" /\ \A g \in Readers : Finished(g))
=============================================================================
