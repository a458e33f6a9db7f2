------------------------ MODULE UploadSession_proofs ------------------------
(* Proofs about UploadSession, for any set of blocks and any number of      *)
(* writers.                                                                 *)
EXTENDS UploadSession, FiniteSetTheorems, TLAPS

\* The check of Commit is exact for a list without duplicates: as many blocks as
\* the service has, all of them blocks the service has, are the service's blocks.
LEMMA CheckIsExact ==
  ASSUME NEW l \in Seq(Blocks), IsInjective(l), NEW ids \in SUBSET Blocks,
         CommitAccepts(l, ids)
  PROVE  Range(l) = ids
  <1>1. IsFiniteSet(ids) /\ Cardinality(ids) \in Nat
    BY UploadAssumption, FS_Subset, FS_CardinalityType
  <1>2. Range(l) \in SUBSET ids
    BY DEF CommitAccepts, Range
  <1>3. l \in Bijection(1 .. Len(l), Range(l))
    BY DEF Bijection, Injection, Surjection, IsInjective, Range
  <1>4. IsFiniteSet(1 .. Len(l)) /\ Cardinality(1 .. Len(l)) = Len(l)
    <2>1. Len(l) \in Nat
      OBVIOUS
    <2>2. /\ IsFiniteSet(1 .. Len(l))
          /\ Cardinality(1 .. Len(l)) = IF 1 > Len(l) THEN 0 ELSE Len(l) - 1 + 1
      BY <2>1, FS_Interval
    <2> QED
      BY <2>1, <2>2
  <1>5. Cardinality(Range(l)) = Len(l)
    BY <1>3, <1>4, FS_Bijection DEF ExistsBijection
  <1> QED
    BY <1>1, <1>2, <1>5, FS_Subset DEF CommitAccepts

\* A writer whose Close returned with success is in the store, as is any writer
\* with a positive answer; requests in flight have a block to go to.
BlockInv ==
  /\ \A w \in Writers : phase[w] = "new" => block[w] = None /\ answer[w] = "none"
  /\ \A w \in Writers : phase[w] # "new" => block[w] \in Blocks
  /\ \A w \in Writers : answer[w] = "ok" => store[block[w]] # None
  /\ \A w \in Writers : phase[w] = "closed" => answer[w] = "ok"
  /\ \A w \in inflight : phase[w] # "new"
  /\ before \subseteq {w \in Writers : phase[w] = "closed"}

\* From the check on, the store differs from the list by what has landed since; the
\* table is a copy of a store that no longer changes.
CommitInv ==
  /\ list # <<>> => list \in Lists
  /\ cpc \in {"load", "post"} => list \in Lists
  /\ cpc # "idle" => result = "none"
  /\ status = "committed" => table = store
  /\ cpc = "post" \/ result = "ok" => Range(list) \subseteq Held
  /\ cpc = "post" \/ result = "ok" => (IsInjective(list) => Held = Range(list) \cup landed)
  /\ cpc = "post" \/ result = "ok" =>
       (IsInjective(list) => \A w \in before : block[w] \in Range(list))
  /\ result = "ok" => status = "committed"
  /\ cpc # "idle" => tries < MaxTries

IInv == TypeOK /\ BlockInv /\ CommitInv

\* The initial states satisfy the invariant.
LEMMA UploadInit == Init => IInv
  <1> SUFFICES ASSUME Init PROVE IInv
    OBVIOUS
  <1>1. TypeOK
    <2>1. <<>> \in Seq(Blocks) /\ 0 \in 0 .. MaxTries /\ 0 \in 0 .. MaxFaults
          /\ 0 \in 0 .. MaxCommits
      BY UploadAssumption DEF MaxTries
    <2> QED
      BY <2>1, Zenon DEF Init, TypeOK
  <1>2. BlockInv
    BY DEF Init, BlockInv
  <1>3. CommitInv
    BY UploadAssumption DEF Init, CommitInv, MaxTries
  <1> QED
    BY <1>1, <1>2, <1>3 DEF IInv

\* The steps of writers and of the service on their requests.
LEMMA UploadWriterStep ==
  ASSUME IInv, NEW w \in Writers, WriterStep(w) \/ PutStep(w)
  PROVE  IInv'
  <1> USE UploadAssumption DEF IInv, commitVars, serviceVars, boundVars, historyVars, Fault
  <1>1. CASE OpenRecordWriter(w)
    <2>1. TypeOK'
      BY <1>1 DEF OpenRecordWriter, TypeOK
    <2>2. BlockInv'
      BY <1>1 DEF OpenRecordWriter, TypeOK, BlockInv
    <2>3. CommitInv'
      BY <1>1 DEF OpenRecordWriter, TypeOK, BlockInv, CommitInv, Held
    <2> QED
      BY <2>1, <2>2, <2>3
  <1>2. CASE CloseWriter(w)
    <2>1. TypeOK'
      BY <1>2 DEF CloseWriter, TypeOK
    <2>2. BlockInv'
      BY <1>2 DEF CloseWriter, TypeOK, BlockInv
    <2>3. CommitInv'
      BY <1>2 DEF CloseWriter, CommitInv, Held
    <2> QED
      BY <2>1, <2>2, <2>3
  <1>3. CASE CloseReturns(w)
    <2>1. TypeOK'
      BY <1>3 DEF CloseReturns, TypeOK
    <2>2. BlockInv'
      BY <1>3 DEF CloseReturns, ResIsThere, TypeOK, BlockInv
    <2>3. CommitInv'
      BY <1>3 DEF CloseReturns, CommitInv, Held
    <2> QED
      BY <2>1, <2>2, <2>3
  <1>4. CASE ServePut(w)
    <2>0. block[w] \in Blocks /\ w # None
      BY <1>4 DEF ServePut, BlockInv
    <2>1. TypeOK'
      BY <1>4, <2>0 DEF ServePut, TypeOK
    <2>2. BlockInv'
      BY <1>4, <2>0 DEF ServePut, TypeOK, BlockInv
    <2>3. CommitInv'
      BY <1>4, <2>0 DEF ServePut, TypeOK, CommitInv, Held
    <2> QED
      BY <2>1, <2>2, <2>3
  <1>5. CASE PutRefused(w) \/ PutLost(w)
    <2>1. TypeOK'
      BY <1>5 DEF PutRefused, PutLost, TypeOK
    <2>2. BlockInv'
      BY <1>5 DEF PutRefused, PutLost, TypeOK, BlockInv
    <2>3. CommitInv'
      BY <1>5 DEF PutRefused, PutLost, CommitInv, Held
    <2> QED
      BY <2>1, <2>2, <2>3
  <1> QED
    BY <1>1, <1>2, <1>3, <1>4, <1>5 DEF WriterStep, PutStep

\* The steps of Commit.
LEMMA UploadCommitStep ==
  ASSUME IInv, Commit \/ CommitStep
  PROVE  IInv'
  <1> USE UploadAssumption
      DEF IInv, writerVars, serviceVars, boundVars, historyVars, Fault, MaxTries
  <1>1. CASE Commit
    <2>1. TypeOK'
      <3>1. list' \in Seq(Blocks) /\ tries' \in 0 .. MaxTries
        BY <1>1 DEF Commit
      <3>2. commits' \in 0 .. MaxCommits
        BY <1>1 DEF Commit, TypeOK
      <3>3. before' \in SUBSET Writers
        BY <1>1 DEF Commit
      <3> QED
        BY <1>1, <3>1, <3>2, <3>3, Zenon DEF Commit, TypeOK
    <2>2. BlockInv'
      BY <1>1 DEF Commit, TypeOK, BlockInv
    <2>3. CommitInv'
      BY <1>1 DEF Commit, CommitInv, Held
    <2> QED
      BY <2>1, <2>2, <2>3
  <1>2. CASE LoadThenCheck
    <2>1. TypeOK'
      BY <1>2 DEF LoadThenCheck, AfterMismatch, TypeOK
    <2>2. BlockInv'
      BY <1>2 DEF LoadThenCheck, BlockInv
    <2>3. CommitAccepts(list, Held) /\ IsInjective(list) => Range(list) = Held
      <3>1. list \in Seq(Blocks) /\ Held \in SUBSET Blocks
        BY <1>2 DEF LoadThenCheck, CommitInv, TypeOK, Held
      <3> QED
        BY <3>1, CheckIsExact
    <2>4. \A w \in before : block[w] \in Held
      BY DEF BlockInv, Held, TypeOK
    <2>5. CommitInv'
      <3>1. CASE CommitAccepts(list, Held)
        <4>0. UNCHANGED <<list, Held, before, block>> /\ landed' = {}
          BY <1>2 DEF LoadThenCheck, Held
        <4>1. Range(list) \subseteq Held
          BY <3>1 DEF CommitAccepts, Range
        <4>2. IsInjective(list) => Held = Range(list) \cup landed'
          BY <2>3, <3>1, <4>0
        <4>3. IsInjective(list) => \A w \in before : block[w] \in Range(list)
          BY <2>3, <2>4, <3>1
        <4> QED
          BY <1>2, <3>1, <4>0, <4>1, <4>2, <4>3 DEF LoadThenCheck, CommitInv, TypeOK
      <3>2. CASE ~CommitAccepts(list, Held)
        BY <1>2, <3>2 DEF LoadThenCheck, AfterMismatch, CommitInv
      <3> QED
        BY <3>1, <3>2
    <2> QED
      BY <2>1, <2>2, <2>5
  <1>3. CASE LoadFails
    <2>1. TypeOK'
      BY <1>3 DEF LoadFails, TypeOK
    <2>2. BlockInv'
      BY <1>3 DEF LoadFails, BlockInv
    <2>3. CommitInv'
      BY <1>3 DEF LoadFails, CommitInv, Held
    <2> QED
      BY <2>1, <2>2, <2>3
  <1>4. CASE PostServed \/ PostRefused \/ PostLost
    <2>1. TypeOK'
      <3>0. cpc = "post" /\ tries' = tries + 1
        BY <1>4, Zenon DEF PostServed, PostRefused, PostLost, Posted
      <3>1. tries' \in 0 .. MaxTries
        BY <3>0 DEF TypeOK, CommitInv
      <3>2. faults' \in 0 .. MaxFaults
        <4>1. CASE PostServed
          BY <4>1 DEF PostServed, TypeOK
        <4>2. CASE PostRefused
          BY <4>2 DEF PostRefused, TypeOK
        <4>3. CASE PostLost
          BY <4>3 DEF PostLost, TypeOK
        <4> QED
          BY <1>4, <4>1, <4>2, <4>3
      <3>3. cpc' \in {"idle", "load", "post"} /\ result' \in {"none", "ok", "error"}
        BY <1>4 DEF PostServed, PostRefused, PostLost, Posted, TypeOK
      <3>4. /\ status' \in {"normal", "committed"}
            /\ table' \in [Blocks -> Writers \cup {None}] /\ store' = store
        BY <1>4 DEF PostServed, PostRefused, PostLost, TakeEffect, TypeOK
      <3>5. list' = list /\ lostPost' \in BOOLEAN
        BY <1>4, Zenon DEF PostServed, PostRefused, PostLost, Posted, TypeOK
      <3> QED
        BY <1>4, <3>1, <3>2, <3>3, <3>4, <3>5, Zenon
        DEF PostServed, PostRefused, PostLost, TypeOK
    <2>2. BlockInv'
      BY <1>4 DEF PostServed, PostRefused, PostLost, TakeEffect, BlockInv
    <2>3. CommitInv'
      BY <1>4
      DEF PostServed, PostRefused, PostLost, Posted, RetryEnds, TakeEffect, CommitInv,
          Held, TypeOK
    <2> QED
      BY <2>1, <2>2, <2>3
  <1> QED
    BY <1>1, <1>2, <1>3, <1>4 DEF CommitStep

\* The invariant holds in every state of a session, whatever lists it is given.
THEOREM UploadInvariant ==
  Spec => []IInv
  <1>1. ASSUME IInv, UNCHANGED vars PROVE IInv'
    BY <1>1
    DEF IInv, TypeOK, BlockInv, CommitInv, Held, vars, writerVars, commitVars,
        serviceVars, boundVars, historyVars
  <1>2. IInv /\ [Next]_vars => IInv'
    BY <1>1, UploadWriterStep, UploadCommitStep DEF Next
  <1> QED
    BY UploadInit, <1>2, PTL DEF Spec

\* A successful Commit puts into the table the blocks it was given, and, if it was given
\* none twice, beyond them only what arrived while it ran.
THEOREM CommitIsExact ==
  Spec => []CommittedAsListed
  <1>1. IInv => CommittedAsListed
    BY DEF IInv, CommitInv, CommittedAsListed, Held, InTable
  <1> QED
    BY UploadInvariant, <1>1, PTL

\* After a successful Commit every block closed with success before it is in the table,
\* and in the list if that names no block twice.
THEOREM CommitOmitsNothing ==
  Spec => []NoClosedBlockOmitted
  <1>1. IInv => NoClosedBlockOmitted
    <2>1. ASSUME IInv, result = "ok", NEW w \in before PROVE block[w] \in InTable
      <3>1. w \in Writers /\ block[w] \in Blocks /\ store[block[w]] # None
        BY <2>1 DEF IInv, TypeOK, BlockInv
      <3>2. table = store
        BY <2>1 DEF IInv, CommitInv
      <3> QED
        BY <3>1, <3>2 DEF InTable
    <2> QED
      BY <2>1 DEF IInv, CommitInv, NoClosedBlockOmitted
  <1> QED
    BY UploadInvariant, <1>1, PTL

\* The types, in particular: Retry makes at most three attempts.
THEOREM UploadTypeCorrect ==
  Spec => []TypeOK
  <1>1. IInv => TypeOK
    BY DEF IInv
  <1> QED
    BY UploadInvariant, <1>1, PTL
-----------------------------------------------------------------------------
(* The writers and their requests.                                          *)

\* A request is in flight from Close to its answer, and longer only if the answer
\* was lost; an earlier writer has closed; the store holds an earlier writer's data
\* in place of a later one's only if the earlier request was left unanswered.
RequestInv ==
  /\ \A w \in Writers : phase[w] \in {"new", "open"} => answer[w] = "none" /\ w \notin inflight
  /\ \A w \in Writers : phase[w] \in {"closed", "failed"} => answer[w] # "none"
  /\ \A w \in Writers : answer[w] = "ok" => w \notin inflight
  /\ \A w \in Writers : w \in inflight /\ answer[w] # "none" => w \in lost
  /\ \A w \in Writers : w \in lost => answer[w] = "bad"
  /\ \A v, w \in Writers : v \in earlier[w] => v # w /\ phase[v] \in {"closed", "failed"}
  /\ \A v, w \in Writers :
       /\ v \in earlier[w] /\ block[v] = block[w] /\ answer[w] = "ok"
       /\ store[block[w]] = v
       => v \in lost

\* A Commit that is running or has failed found the session committed or lost an
\* answer, if the session is committed now.
HonestInv ==
  (cpc # "idle" \/ result = "error") /\ status = "committed" => already \/ lostPost

\* What is known of the requests is kept by every step.
LEMMA RequestStep ==
  ASSUME IInv, RequestInv, Next
  PROVE  RequestInv'
  <1>0. TypeOK /\ BlockInv
    BY DEF IInv
  <1> USE DEF commitVars, serviceVars, boundVars, historyVars, writerVars, Fault
  <1>1. ASSUME NEW u \in Writers, OpenRecordWriter(u) PROVE RequestInv'
    <2>1. /\ phase' = [phase EXCEPT ![u] = "open"] /\ phase[u] = "new"
          /\ \A v \in Writers \ {u} : block'[v] = block[v]
          /\ UNCHANGED <<answer, inflight, lost, earlier, store>>
      BY <1>0, <1>1 DEF OpenRecordWriter, TypeOK
    <2> QED
      BY <1>0, <2>1 DEF RequestInv, TypeOK
  <1>2. ASSUME NEW u \in Writers, CloseWriter(u) PROVE RequestInv'
    <2>1. /\ phase' = [phase EXCEPT ![u] = "closing"] /\ phase[u] = "open"
          /\ inflight' = inflight \cup {u}
          /\ earlier' = [earlier EXCEPT ![u] = {v \in Writers : phase[v] \in {"closed", "failed"}}]
          /\ UNCHANGED <<block, answer, lost, store>>
      BY <1>2 DEF CloseWriter
    <2>2. answer[u] = "none"
      BY <2>1 DEF RequestInv
    <2> QED
      BY <1>0, <2>1, <2>2 DEF RequestInv, TypeOK
  <1>3. ASSUME NEW u \in Writers, CloseReturns(u) PROVE RequestInv'
    <2>1. /\ phase' = [phase EXCEPT ![u] = IF answer[u] = "bad" THEN "failed" ELSE "closed"]
          /\ phase[u] = "closing" /\ answer[u] # "none"
          /\ UNCHANGED <<block, answer, inflight, lost, earlier, store>>
      BY <1>3 DEF CloseReturns, ResIsThere
    <2> QED
      BY <1>0, <2>1 DEF RequestInv, TypeOK
  <1>4. ASSUME NEW u \in Writers, ServePut(u) PROVE RequestInv'
    <2>1. /\ u \in inflight /\ inflight' = inflight \ {u}
          /\ store' = [store EXCEPT ![block[u]] = u]
          /\ answer' = [answer EXCEPT ![u] = IF @ = "none" THEN "ok" ELSE @]
          /\ UNCHANGED <<phase, block, lost, earlier>>
      BY <1>4 DEF ServePut
    <2>2. phase[u] \in {"closed", "failed"} => u \in lost
      BY <2>1 DEF RequestInv
    <2>3. \A w \in Writers : answer[w] = "ok" => block[w] \in Blocks
      BY <1>0 DEF BlockInv, TypeOK
    <2>4. block[u] \in Blocks
      BY <1>0, <2>1 DEF BlockInv
    <2>5. \A v, w \in Writers :
            /\ v \in earlier[w] /\ block[v] = block[w] /\ answer'[w] = "ok"
            /\ store'[block[w]] = v
            => v \in lost
      <3> SUFFICES ASSUME NEW v \in Writers, NEW w \in Writers, v \in earlier[w],
                          block[v] = block[w], answer'[w] = "ok", store'[block[w]] = v
                   PROVE  v \in lost
        OBVIOUS
      <3>1. v # w /\ phase[v] \in {"closed", "failed"}
        BY DEF RequestInv
      <3>2. CASE v = u
        BY <2>2, <3>1, <3>2
      <3>3. CASE v # u
        <4>1. block[w] # block[u] /\ w # u
          BY <1>0, <2>1, <2>4, <3>3 DEF TypeOK
        <4>2. store[block[w]] = v /\ answer[w] = "ok"
          BY <1>0, <2>1, <4>1 DEF TypeOK
        <4> QED
          BY <4>2 DEF RequestInv
      <3> QED
        BY <3>2, <3>3
    <2>6. \A w \in Writers : w # u => answer'[w] = answer[w]
      BY <1>0, <2>1 DEF TypeOK
    <2>7. answer'[u] = IF answer[u] = "none" THEN "ok" ELSE answer[u]
      BY <1>0, <2>1 DEF TypeOK
    <2> QED
      BY <2>1, <2>5, <2>6, <2>7 DEF RequestInv
  <1>5. ASSUME NEW u \in Writers, PutRefused(u) PROVE RequestInv'
    <2>1. /\ u \in inflight /\ inflight' = inflight \ {u} /\ answer[u] = "none"
          /\ answer' = [answer EXCEPT ![u] = "bad"]
          /\ UNCHANGED <<phase, block, lost, earlier, store>>
      BY <1>5 DEF PutRefused
    <2> QED
      BY <1>0, <2>1 DEF RequestInv, TypeOK
  <1>6. ASSUME NEW u \in Writers, PutLost(u) PROVE RequestInv'
    <2>1. /\ u \in inflight /\ inflight' = inflight /\ answer[u] = "none"
          /\ answer' = [answer EXCEPT ![u] = "bad"] /\ lost' = lost \cup {u}
          /\ UNCHANGED <<phase, block, earlier, store>>
      BY <1>6 DEF PutLost
    <2> QED
      BY <1>0, <2>1 DEF RequestInv, TypeOK
  <1>7. CASE Commit \/ CommitStep
    <2>1. UNCHANGED <<phase, block, answer, inflight, lost, earlier, store>>
      BY <1>7 DEF Commit, CommitStep, LoadThenCheck, LoadFails, PostServed, PostRefused,
                  PostLost, TakeEffect
    <2> QED
      BY <2>1 DEF RequestInv
  <1> QED
    BY <1>1, <1>2, <1>3, <1>4, <1>5, <1>6, <1>7 DEF Next, WriterStep, PutStep

\* Every step keeps the account of what a failed Commit may have done.
LEMMA HonestStep ==
  ASSUME IInv, HonestInv, Next
  PROVE  HonestInv'
  <1> USE DEF commitVars, serviceVars, boundVars, historyVars, writerVars
  <1>1. ASSUME NEW w \in Writers, WriterStep(w) \/ PutStep(w) PROVE HonestInv'
    <2>1. UNCHANGED <<cpc, result, status, already, lostPost>>
      BY <1>1 DEF WriterStep, OpenRecordWriter, CloseWriter, CloseReturns, PutStep, ServePut,
                  PutRefused, PutLost
    <2> QED
      BY <2>1 DEF HonestInv
  <1>2. CASE Commit
    BY <1>2 DEF Commit, HonestInv
  <1>3. CASE LoadThenCheck \/ LoadFails \/ PostRefused
    BY <1>3 DEF LoadThenCheck, LoadFails, PostRefused, HonestInv
  <1>4. CASE PostLost
    BY <1>4 DEF PostLost, HonestInv
  <1>5. CASE PostServed
    <2>1. CASE Posted(TRUE)
      <3>1. cpc' = "idle" /\ result' = "ok"
        BY <2>1 DEF Posted, RetryEnds
      <3> QED
        BY <3>1 DEF HonestInv
    <2>2. CASE status = "committed"
      BY <1>5, <2>2 DEF PostServed, HonestInv
    <2> QED
      BY <1>5, <2>1, <2>2 DEF PostServed
  <1> QED
    BY <1>1, <1>2, <1>3, <1>4, <1>5 DEF Next, CommitStep

\* The account of the requests holds in every state of a session.
THEOREM RequestInvariant ==
  Spec => [](RequestInv /\ HonestInv)
  <1>1. Init => RequestInv /\ HonestInv
    BY DEF Init, RequestInv, HonestInv
  <1>2. IInv /\ RequestInv /\ HonestInv /\ [Next]_vars => (RequestInv /\ HonestInv)'
    <2>1. RequestInv /\ HonestInv /\ UNCHANGED vars => (RequestInv /\ HonestInv)'
      BY DEF RequestInv, HonestInv, vars, writerVars, commitVars, serviceVars, historyVars
    <2> QED
      BY <2>1, RequestStep, HonestStep
  <1> QED
    BY UploadInvariant, <1>1, <1>2, PTL DEF Spec

\* A Commit that reports an error has changed the table only if the answer to one
\* of its own attempts was lost, or an earlier Commit had.
THEOREM FailureIsHonest ==
  Spec => []FailedCommitIsHonest
  <1>1. HonestInv => FailedCommitIsHonest
    BY DEF HonestInv, FailedCommitIsHonest
  <1> QED
    BY RequestInvariant, <1>1, PTL

\* Of two writers of one block the one that is closed after the other returned
\* wins, however many writers share the block and however requests are delayed.
THEOREM LaterCloseWins ==
  Spec => []LastCloseWins
  <1>1. IInv /\ RequestInv => LastCloseWins
    <2>1. BlockInv => \A w \in Writers : phase[w] = "closed" => answer[w] = "ok"
      BY DEF BlockInv
    <2> QED
      BY <2>1 DEF IInv, RequestInv, LastCloseWins
  <1> QED
    BY UploadInvariant, RequestInvariant, <1>1, PTL

\* Every step of the session is a step of each writer's upload request, or none.
LEMMA PutSimulates ==
  ASSUME IInv, RequestInv, Next, NEW w \in Writers
  PROVE  [Put(w)!Next]_(Put(w)!vars)
  <1>0. TypeOK /\ BlockInv
    BY DEF IInv
  <1> DEFINE complete == phase[w] \in {"closing", "closed", "failed"}
             stored == complete /\ w \notin inflight /\ (answer[w] = "ok" \/ w \in lost)
             outcome == CASE phase[w] = "closed" -> "ok"
                          [] phase[w] = "failed" -> "error"
                          [] OTHER -> "none"
  <1> USE DEF commitVars, serviceVars, boundVars, historyVars, writerVars, Fault
  <1>1. CASE UNCHANGED <<phase[w], answer[w], w \in inflight, w \in lost>>
    <2>1. complete' = complete /\ stored' = stored /\ outcome' = outcome
      BY <1>1
    <2> QED
      BY <2>1 DEF Put!vars
  <1>2. CASE OpenRecordWriter(w)
    <2>1. phase[w] = "new" /\ phase'[w] = "open"
      BY <1>0, <1>2 DEF OpenRecordWriter, TypeOK
    <2>2. complete' = complete /\ stored' = stored /\ outcome' = outcome
      BY <2>1
    <2> QED
      BY <2>2 DEF Put!vars
  <1>3. CASE CloseWriter(w)
    <2>1. phase[w] = "open" /\ phase'[w] = "closing" /\ w \in inflight'
      BY <1>0, <1>3 DEF CloseWriter, TypeOK
    <2>2. ~complete /\ complete' = TRUE /\ stored' = stored /\ outcome' = outcome
      BY <2>1
    <2> QED
      BY <2>2 DEF Put!Next, Put!Complete
  <1>4. CASE CloseReturns(w)
    <2>1. /\ phase[w] = "closing" /\ answer[w] \in {"ok", "bad"}
          /\ phase'[w] = IF answer[w] = "bad" THEN "failed" ELSE "closed"
          /\ UNCHANGED <<answer, inflight, lost>>
      BY <1>0, <1>4 DEF CloseReturns, ResIsThere, TypeOK
    <2>2. complete' = complete /\ stored' = stored /\ outcome = "none"
      BY <2>1
    <2>3. CASE answer[w] = "bad"
      <3>1. outcome' = "error"
        BY <2>1, <2>3
      <3> QED
        BY <2>2, <3>1 DEF Put!Next, Put!Fail
    <2>4. CASE answer[w] = "ok"
      <3>1. outcome' = "ok" /\ stored
        BY <2>1, <2>4 DEF RequestInv
      <3> QED
        BY <2>2, <3>1 DEF Put!Next, Put!Succeed
    <2> QED
      BY <2>1, <2>3, <2>4
  <1>5. CASE ServePut(w)
    <2>1. /\ w \in inflight /\ w \notin inflight' /\ UNCHANGED <<phase, lost>>
          /\ answer'[w] = IF answer[w] = "none" THEN "ok" ELSE answer[w]
      BY <1>0, <1>5 DEF ServePut, TypeOK
    <2>2. complete /\ ~stored
      BY <1>0, <2>1 DEF RequestInv, TypeOK
    <2>3. answer[w] # "none" => w \in lost
      BY <2>1 DEF RequestInv
    <2>4. stored' = TRUE /\ complete' = complete /\ outcome' = outcome
      BY <2>1, <2>2, <2>3
    <2> QED
      BY <2>2, <2>4 DEF Put!Next, Put!TakeEffect
  <1>6. CASE PutRefused(w)
    <2>1. /\ w \in inflight /\ UNCHANGED <<phase, lost>> /\ answer[w] = "none"
          /\ answer'[w] = "bad"
      BY <1>0, <1>6 DEF PutRefused, TypeOK
    <2>2. w \notin lost
      BY <2>1 DEF RequestInv
    <2>3. complete' = complete /\ stored' = stored /\ outcome' = outcome
      BY <2>1, <2>2
    <2> QED
      BY <2>3 DEF Put!vars
  <1>7. CASE PutLost(w)
    <2>1. w \in inflight /\ UNCHANGED <<phase, inflight>>
      BY <1>7 DEF PutLost
    <2>2. complete' = complete /\ stored' = stored /\ outcome' = outcome
      BY <2>1
    <2> QED
      BY <2>2 DEF Put!vars
  <1>8. ASSUME NEW u \in Writers, u # w, WriterStep(u) \/ PutStep(u)
        PROVE  UNCHANGED <<phase[w], answer[w], w \in inflight, w \in lost>>
    BY <1>0, <1>8 DEF WriterStep, OpenRecordWriter, CloseWriter, CloseReturns, PutStep,
                      ServePut, PutRefused, PutLost, TypeOK
  <1>9. CASE Commit \/ CommitStep
    <2>1. UNCHANGED <<phase, answer, inflight, lost>>
      BY <1>9 DEF Commit, CommitStep, LoadThenCheck, LoadFails, PostServed, PostRefused, PostLost
    <2> QED
      BY <1>1, <2>1
  <1> QED
    BY <1>1, <1>2, <1>3, <1>4, <1>5, <1>6, <1>7, <1>8, <1>9 DEF Next, WriterStep, PutStep

\* Each writer of a session implements UploadRequest, the promise HttpConn keeps:
\* the session is what connections of that kind make of it.
THEOREM WritersAreRequests ==
  Spec => WritersUpload
  <1>1. Init => \A w \in Writers : Put(w)!Init
    BY DEF Init, Put!Init
  <1>2. IInv /\ RequestInv /\ [Next]_vars
          => [\A w \in Writers : [Put(w)!Next]_(Put(w)!vars)]_vars
    BY PutSimulates
  <1> QED
    BY <1>1, <1>2, UploadInvariant, RequestInvariant, PTL DEF Spec, WritersUpload
=============================================================================
