---------------------------- MODULE UploadSession ----------------------------
(***************************************************************************)
(* A block upload: UploadSession of odps/tunnel/upload_session.go, the     *)
(* writers it opens on its blocks, and Commit with the loop of Retry       *)
(* (odps/tunnel/common.go).  Writers belong to goroutines of their own;    *)
(* what happens on one connection is in HttpConn, here a Close is a PUT    *)
(* that the service stores, refuses or leaves unanswered.  The data of a   *)
(* writer is the writer itself.  The tunnel service is external.           *)
(***************************************************************************)
EXTENDS Integers, Sequences, FiniteSets, Functions

CONSTANTS
  Blocks,      \* block ids
  Writers,
  Lists,       \* the block lists the application passes to Commit
  None,
  MaxFaults,   \* bound on network and service faults
  MaxCommits   \* bound on the calls of Commit

ASSUME UploadAssumption ==
  /\ IsFiniteSet(Blocks) /\ None \notin Writers
  /\ Lists \subseteq Seq(Blocks)
  /\ MaxFaults \in Nat /\ MaxCommits \in Nat

VARIABLES
  phase,     \* of each writer
  block,     \* the block a writer was opened on
  answer,    \* what its sender goroutine put on resChan
  inflight,  \* PUT requests the service may still act on
  cpc,       \* where Commit is
  list,      \* its argument
  tries,     \* attempts made by Retry
  result,    \* what the last Commit returned
  status,    \* the session on the service
  store,     \* the block data the service holds
  table,     \* what the commit put into the table
  faults, commits,
  before,    \* history: writers that had closed well when Commit was called
  landed,    \* history: blocks stored since the Load of the last Commit
  lost,      \* history: writers whose PUT was left unanswered
  lostPost,  \* history: a request of the last Commit was left unanswered
  already,   \* history: the session was committed when Commit was called
  earlier    \* history: per writer, those whose Close had returned before its own

writerVars  == <<phase, block, answer, inflight>>
commitVars  == <<cpc, list, tries, result>>
serviceVars == <<status, store, table>>
boundVars   == <<faults, commits>>
historyVars == <<before, landed, lost, lostPost, already, earlier>>
vars == <<writerVars, commitVars, serviceVars, boundVars, historyVars>>

MaxTries == 3

Held == {b \in Blocks : store[b] # None}

TypeOK ==
  /\ phase \in [Writers -> {"new", "open", "closing", "closed", "failed"}]
  /\ block \in [Writers -> Blocks \cup {None}]
  /\ answer \in [Writers -> {"none", "ok", "bad"}]
  /\ inflight \in SUBSET Writers
  /\ cpc \in {"idle", "load", "post"}
  /\ list \in Seq(Blocks)
  /\ tries \in 0 .. MaxTries
  /\ result \in {"none", "ok", "error"}
  /\ status \in {"normal", "committed"}
  /\ store \in [Blocks -> Writers \cup {None}]
  /\ table \in [Blocks -> Writers \cup {None}]
  /\ faults \in 0 .. MaxFaults /\ commits \in 0 .. MaxCommits
  /\ before \in SUBSET Writers /\ landed \in SUBSET Blocks
  /\ lost \in SUBSET Writers /\ lostPost \in BOOLEAN /\ already \in BOOLEAN
  /\ earlier \in [Writers -> SUBSET Writers]

\* CreateUploadSession has returned.
Init ==
  /\ phase = [w \in Writers |-> "new"]
  /\ block = [w \in Writers |-> None]
  /\ answer = [w \in Writers |-> "none"]
  /\ inflight = {}
  /\ cpc = "idle" /\ list = <<>> /\ tries = 0 /\ result = "none"
  /\ status = "normal"
  /\ store = [b \in Blocks |-> None]
  /\ table = [b \in Blocks |-> None]
  /\ faults = 0 /\ commits = 0
  /\ before = {} /\ landed = {} /\ lost = {} /\ lostPost = FALSE
  /\ already = FALSE
  /\ earlier = [w \in Writers |-> {}]

Fault == faults < MaxFaults /\ faults' = faults + 1

-----------------------------------------------------------------------------
(* Writers.                                                                 *)

OpenRecordWriter(w) ==
  /\ phase[w] = "new"
  /\ \E b \in Blocks : block' = [block EXCEPT ![w] = b]
  /\ phase' = [phase EXCEPT ![w] = "open"]
  /\ UNCHANGED <<answer, inflight, commitVars, serviceVars, boundVars, historyVars>>

\* Close ends the body; the request is now complete and the service's to store.
CloseWriter(w) ==
  /\ phase[w] = "open"
  /\ phase' = [phase EXCEPT ![w] = "closing"]
  /\ inflight' = inflight \cup {w}
  /\ earlier' = [earlier EXCEPT ![w] = {v \in Writers : phase[v] \in {"closed", "failed"}}]
  /\ UNCHANGED <<block, answer, commitVars, serviceVars, boundVars, before, landed, lost,
                 lostPost, already>>

\* closeRes waits for the sender's outcome.
\* Mutants: Close returns without it; Close waits for a success.
WaitForSuccess(w) == answer[w] = "ok"
DoNotWait(w) == TRUE
ResIsThere(w) == answer[w] # "none"

CloseReturns(w) ==
  /\ phase[w] = "closing" /\ ResIsThere(w)
  /\ phase' = [phase EXCEPT ![w] = IF answer[w] = "bad" THEN "failed" ELSE "closed"]
  /\ UNCHANGED <<block, answer, inflight, commitVars, serviceVars, boundVars, historyVars>>

-----------------------------------------------------------------------------
(* The service on a block (external): the last body to arrive is kept, and  *)
(* a session that is committed takes no more blocks.                        *)

ServePut(w) ==
  /\ w \in inflight /\ status = "normal"
  /\ store' = [store EXCEPT ![block[w]] = w]
  /\ landed' = landed \cup {block[w]}
  /\ inflight' = inflight \ {w}
  /\ answer' = [answer EXCEPT ![w] = IF @ = "none" THEN "ok" ELSE @]
  /\ UNCHANGED <<phase, block, commitVars, status, table, boundVars, before, lost,
                 lostPost, already, earlier>>

PutRefused(w) ==
  /\ w \in inflight /\ answer[w] = "none"
  /\ IF status = "normal" THEN Fault ELSE UNCHANGED faults
  /\ answer' = [answer EXCEPT ![w] = "bad"]
  /\ inflight' = inflight \ {w}
  /\ UNCHANGED <<phase, block, commitVars, serviceVars, commits, historyVars>>

\* A timeout: the client has an error, the request may still be stored.
PutLost(w) ==
  /\ w \in inflight /\ answer[w] = "none"
  /\ Fault
  /\ answer' = [answer EXCEPT ![w] = "bad"]
  /\ lost' = lost \cup {w}
  /\ UNCHANGED <<phase, block, inflight, commitVars, serviceVars, commits, before, landed,
                 lostPost, already, earlier>>

-----------------------------------------------------------------------------
(* Commit.                                                                  *)

Commit ==
  /\ cpc = "idle" /\ commits < MaxCommits
  /\ \E l \in Lists : list' = l
  /\ cpc' = "load" /\ result' = "none" /\ tries' = 0
  /\ commits' = commits + 1
  /\ before' = {w \in Writers : phase[w] = "closed"}
  /\ lostPost' = FALSE /\ already' = (status = "committed")
  /\ UNCHANGED <<writerVars, serviceVars, faults, landed, lost, earlier>>

\* The list must have the length of the service's and every member in it.  The
\* service lists each block once, in whatever order; the application's list may name a
\* block twice.
\* Mutants: only one of the two is checked.
LengthOnly(l, ids) == Len(l) = Cardinality(ids)
MembersOnly(l, ids) == \A i \in DOMAIN l : l[i] \in ids
CommitAccepts(l, ids) ==
  /\ Len(l) = Cardinality(ids)
  /\ \A i \in DOMAIN l : l[i] \in ids

\* Lists that differ are an error.
AfterMismatch == "idle"

\* Load succeeds and the block lists are compared.
LoadThenCheck ==
  /\ cpc = "load"
  /\ landed' = {}
  /\ IF CommitAccepts(list, Held)
     THEN cpc' = "post" /\ UNCHANGED result
     ELSE cpc' = AfterMismatch /\ result' = "error"
  /\ UNCHANGED <<writerVars, list, tries, serviceVars, boundVars, before, lost, lostPost,
                 already, earlier>>

LoadFails ==
  /\ cpc = "load" /\ Fault
  /\ cpc' = "idle" /\ result' = "error"
  /\ UNCHANGED <<writerVars, list, tries, serviceVars, commits, historyVars>>

\* Retry: the loop ends with the first success or after three attempts, and
\* returns the error of the last one.
\* Mutants: a fourth attempt; no break after a success.
OneMore(n, ok) == ok \/ n = MaxTries + 1
NoBreak(n, ok) == n = MaxTries
RetryEnds(n, ok) == ok \/ n = MaxTries

Posted(ok) ==
  /\ tries' = tries + 1
  /\ cpc' = IF RetryEnds(tries + 1, ok) THEN "idle" ELSE "post"
  /\ result' = IF RetryEnds(tries + 1, ok) THEN (IF ok THEN "ok" ELSE "error") ELSE result
  /\ UNCHANGED list

\* The commit request takes effect on the service once.
TakeEffect ==
  /\ status' = "committed"
  /\ table' = IF status = "normal" THEN store ELSE table
  /\ UNCHANGED store

\* The service commits the session; asked to commit it again, it may accept or
\* refuse.
PostServed ==
  /\ cpc = "post"
  /\ TakeEffect
  /\ Posted(TRUE) \/ (status = "committed" /\ Posted(FALSE))
  /\ UNCHANGED <<writerVars, boundVars, historyVars>>

PostRefused ==
  /\ cpc = "post" /\ Fault
  /\ Posted(FALSE)
  /\ UNCHANGED <<writerVars, serviceVars, commits, historyVars>>

\* Committed, but the answer does not arrive.
PostLost ==
  /\ cpc = "post" /\ Fault
  /\ TakeEffect
  /\ lostPost' = TRUE
  /\ Posted(FALSE)
  /\ UNCHANGED <<writerVars, commits, before, landed, lost, already, earlier>>

-----------------------------------------------------------------------------

WriterStep(w) == OpenRecordWriter(w) \/ CloseWriter(w) \/ CloseReturns(w)
PutStep(w) == ServePut(w) \/ PutRefused(w) \/ PutLost(w)
CommitStep == LoadThenCheck \/ LoadFails \/ PostServed \/ PostRefused \/ PostLost

Next ==
  \/ \E w \in Writers : WriterStep(w) \/ PutStep(w)
  \/ Commit
  \/ CommitStep

Spec == Init /\ [][Next]_vars

\* Requests end and goroutines run; nothing makes the application open, close or
\* commit.
FairSpec ==
  /\ Spec
  /\ WF_vars(CommitStep)
  /\ \A w \in Writers : WF_vars(CloseReturns(w)) /\ WF_vars(PutStep(w))

-----------------------------------------------------------------------------
(* Properties.                                                              *)

InTable == {b \in Blocks : table[b] # None}

\* After a Commit that reports success the table has every block it listed; another one
\* only if its data arrived after the Load of this Commit, or if the list named a block
\* twice.
CommittedAsListed ==
  result = "ok" =>
    /\ status = "committed"
    /\ Range(list) \subseteq InTable
    /\ IsInjective(list) => InTable = Range(list) \cup landed

\* A block whose writer had closed with success when Commit was called is in the table
\* after a Commit that reports success, and was in its list, unless the list named
\* another block twice.
NoClosedBlockOmitted ==
  result = "ok" => \A w \in before :
    /\ block[w] \in InTable
    /\ IsInjective(list) => block[w] \in Range(list)

\* A Commit that returns an error has not committed the session, unless an answer
\* to one of its own attempts was lost.
FailedCommitIsHonest ==
  result = "error" /\ status = "committed" => already \/ lostPost

\* "If multiply RecordWriters are created with the same block id, the data will be
\* overwritten, and only the data from the writer who calls Close lastly will be
\* kept": a writer whose Close had returned before another one's was called does
\* not overwrite it, unless its own request was left unanswered.
LastCloseWins ==
  \A v, w \in Writers :
    /\ v \in earlier[w] /\ block[v] = block[w] /\ phase[w] = "closed"
    /\ store[block[w]] = v
    => v \in lost

\* Commit returns after its bounded retries, and every Close returns, whatever happens
\* to the requests of the other writers.
CallsReturn ==
  /\ cpc # "idle" ~> cpc = "idle"
  /\ \A w \in Writers : phase[w] = "closing" ~> phase[w] # "closing"

-----------------------------------------------------------------------------
(* The writers as upload requests: what HttpConn implements.                *)

Put(w) == INSTANCE UploadRequest WITH
  complete <- phase[w] \in {"closing", "closed", "failed"},
  stored <- /\ phase[w] \in {"closing", "closed", "failed"}
            /\ w \notin inflight
            /\ answer[w] = "ok" \/ w \in lost,
  result <- CASE phase[w] = "closed" -> "ok"
              [] phase[w] = "failed" -> "error"
              [] OTHER -> "none"

\* Every writer of the session is one upload request, whatever the others and
\* Commit do: this is the part of HttpConn the session relies on.
WritersUpload ==
  /\ \A w \in Writers : Put(w)!Init
  /\ [][\A w \in Writers : [Put(w)!Next]_(Put(w)!vars)]_vars
=============================================================================
