------------------------------ MODULE SqlQuery ------------------------------
(***************************************************************************)
(* Running SQL: Instances.CreateTask (odps/instances.go), the polling of   *)
(* Instance.WaitForSuccess (odps/instance.go), and what sqldriver does     *)
(* with a finished instance: an InstanceResultDownloadSession (odps/tunnel) *)
(* and a rowsReader over its records.                                      *)
(*                                                                         *)
(* One goroutine runs the statement; other clients may terminate the       *)
(* instance while it polls.  The service (external) runs the tasks of the  *)
(* instance.  Time is counted in ticks from the start of CreateTask; a     *)
(* request takes a tick and the clock stands still at Horizon.             *)
(***************************************************************************)
EXTENDS Integers, FiniteSets

CONSTANTS
  Tasks,         \* the tasks of the instance
  MaxRows,       \* bound on the rows of the result
  MaxRetry,      \* maxRetryDuration
  RetryAfter,    \* the numbers a Retry-After header may hold
  DefaultWait,   \* the wait when the header is absent or not a number
  Horizon,       \* bound on the clock
  MaxFaults,     \* bound on network and service faults
  MaxWaits       \* bound on the calls of WaitForSuccess

ASSUME QueryAssumption ==
  /\ Tasks # {}
  /\ MaxRows \in Nat /\ MaxRetry \in Nat /\ RetryAfter \subseteq Int
  /\ DefaultWait \in Nat /\ Horizon \in Nat
  /\ \A n \in RetryAfter \cup {DefaultWait} : MaxRetry + n < Horizon
  /\ MaxFaults \in Nat /\ MaxWaits \in Nat

VARIABLES
  pc,        \* where the goroutine is
  elapsed,   \* time since CreateTask was called
  isSync,    \* instance.isSync
  bad,       \* taskResults holds a result that is not a success
  waits,     \* calls of WaitForSuccess
  tries,     \* attempts of Retry at the download connection
  count,     \* session.recordCount
  left,      \* rows the reader has before it
  read,      \* rows handed to the caller of Next
  result,    \* what the last call returned
  created,   \* the service: instances it has created for this call
  listed,    \* it lists the tasks of the instance
  task,      \* their statuses
  rows,      \* the rows of the result
  cut,       \* it ended the body of this download early
  maxqa,     \* it may answer Load with the task results
  faults,
  unknown    \* history: tasks whose status the last poll did not recognise

callVars    == <<isSync, bad, waits, tries, count, left, read, result>>
serviceVars == <<created, listed, task, rows, cut, maxqa>>
vars == <<pc, elapsed, callVars, serviceVars, faults, unknown>>

-----------------------------------------------------------------------------
(* Statuses.  TaskStatusFromStr makes any other text TaskStatusUnknown.     *)

Failures == {"FAILED", "CANCELLED", "SUSPENDED"}
Statuses == {"WAITING", "RUNNING", "SUCCESS", "OTHER"} \cup Failures
Final    == {"SUCCESS", "FAILED", "CANCELLED"}

\* Mutant: a suspended task is no failure.
FailedOrCancelled(s) == s \in {"FAILED", "CANCELLED"}
IsFailure(s) == s \in Failures
\* Mutant: everything that is no failure is polled again.
NotFailed(s) == s \notin Failures
IsRunning(s) == s \in {"RUNNING", "WAITING"}

AtRest == {"start", "submitted", "waited", "rows", "returned"}

TypeOK ==
  /\ pc \in AtRest \cup {"post", "sleep", "load", "tasks", "result", "session", "open"}
  /\ elapsed \in 0 .. Horizon
  /\ isSync \in BOOLEAN /\ bad \in BOOLEAN
  /\ waits \in 0 .. MaxWaits /\ tries \in 0 .. 3
  /\ count \in 0 .. MaxRows /\ left \in 0 .. MaxRows /\ read \in 0 .. MaxRows
  /\ result \in {"none", "ok", "eof", "error"}
  /\ created \in Nat /\ listed \in BOOLEAN
  /\ task \in [Tasks -> Statuses]
  /\ rows \in 0 .. MaxRows /\ cut \in BOOLEAN /\ maxqa \in BOOLEAN
  /\ faults \in 0 .. MaxFaults
  /\ unknown \in SUBSET Tasks

Init ==
  /\ pc = "start" /\ elapsed = 0
  /\ isSync = FALSE /\ bad = FALSE /\ waits = 0 /\ tries = 0
  /\ count = 0 /\ left = 0 /\ read = 0 /\ result = "none"
  /\ created = 0 /\ listed = FALSE
  /\ task = [t \in Tasks |-> "WAITING"]
  /\ rows \in 0 .. MaxRows /\ cut = FALSE /\ maxqa \in BOOLEAN
  /\ faults = 0 /\ unknown = {}

Fault == faults < MaxFaults /\ faults' = faults + 1
Later(d) == IF elapsed + d < Horizon THEN elapsed + d ELSE Horizon

\* A call ends with this result; the goroutine goes on at p.
Return(p, r) == pc' = p /\ result' = r

\* CreateTask ends, and its startTime with it.
Leave(p, r) == Return(p, r) /\ elapsed' = 0

-----------------------------------------------------------------------------
(* CreateTask.                                                              *)

CreateTask ==
  /\ pc = "start"
  /\ pc' = "post"
  /\ UNCHANGED <<elapsed, callVars, serviceVars, faults, unknown>>

\* 201: the instance runs by itself.
PostCreated ==
  /\ pc = "post"
  /\ created' = created + 1
  /\ Leave("submitted", "ok")
  /\ UNCHANGED <<isSync, bad, waits, tries, count, left, read, listed, task, rows, cut,
                 maxqa, faults, unknown>>

\* 200 with results: the instance is taken to have been run, whatever their statuses; a
\* failure among them is returned as an error, together with the instance.
PostRun ==
  LET failed == \E t \in Tasks : IsFailure(task'[t]) IN
  /\ pc = "post"
  /\ created' = created + 1 /\ listed' = TRUE
  /\ task' \in [Tasks -> Statuses]
  /\ isSync' = TRUE /\ bad' = \E t \in Tasks : task'[t] # "SUCCESS"
  /\ IF failed THEN Leave("returned", "error") ELSE Leave("submitted", "ok")
  /\ UNCHANGED <<waits, tries, count, left, read, rows, cut, maxqa, faults, unknown>>

\* Any error but 409 is returned: the request did not reach the service, was refused,
\* or created an instance whose answer is lost or cannot be used.
\* Mutant: the loop is entered again.
PostAgain == "post"
AfterPostError == "returned"

PostFails ==
  /\ pc = "post" /\ Fault
  /\ created' \in {created, created + 1}
  /\ Leave(AfterPostError, "error")
  /\ UNCHANGED <<isSync, bad, waits, tries, count, left, read, listed, task, rows, cut,
                 maxqa, unknown>>

\* The loop is left once an error comes maxRetryDuration or more after its start.
RetryIsOver(p) == p >= MaxRetry

\* How long a 409 makes the loop sleep: Retry-After, if it is a number.
Sleeps == {IF n > 0 THEN n ELSE 0 : n \in RetryAfter} \cup {DefaultWait}

PostConflict ==
  /\ pc = "post"
  /\ IF RetryIsOver(Later(1)) THEN Leave("returned", "error")
                              ELSE pc' = "sleep" /\ elapsed' = Later(1) /\ UNCHANGED result
  /\ UNCHANGED <<isSync, bad, waits, tries, count, left, read, serviceVars, faults,
                 unknown>>

SleepAfterConflict ==
  /\ pc = "sleep"
  /\ \E d \in Sleeps : elapsed' = Later(d)
  /\ pc' = "post"
  /\ UNCHANGED <<callVars, serviceVars, faults, unknown>>

-----------------------------------------------------------------------------
(* WaitForSuccess.                                                          *)

\* Called by sqldriver after CreateTask, by an application also after an earlier
\* call, whatever that returned.
WaitForSuccess ==
  /\ pc \in {"submitted", "waited", "returned"} /\ created > 0 /\ waits < MaxWaits
  /\ pc = "returned" => isSync \/ waits > 0
  /\ waits' = waits + 1
  /\ IF isSync THEN Return("waited", "ok") ELSE pc' = "load" /\ result' = "none"
  /\ UNCHANGED <<elapsed, isSync, bad, tries, count, left, read, serviceVars, faults,
                 unknown>>

\* What Load keeps of an answer, with task results or without; it does not look at their
\* statuses.
TakeResults ==
  \/ UNCHANGED <<isSync, bad>>
  \/ maxqa /\ isSync' = TRUE /\ bad' = \E t \in Tasks : task[t] # "SUCCESS"

Load ==
  /\ pc = "load"
  /\ TakeResults
  /\ pc' = "tasks"
  /\ UNCHANGED <<elapsed, waits, tries, count, left, read, result, serviceVars, faults,
                 unknown>>

\* GetTasks, and the loop over its answer: a task that failed ends the call, no task
\* at all or one that is running makes it poll again after a second.
Poll ==
  /\ pc = "tasks"
  /\ IF listed
     THEN /\ unknown' = {t \in Tasks : task[t] = "OTHER"}
          /\ IF \E t \in Tasks : IsFailure(task[t]) THEN pc' = "result" /\ UNCHANGED result
             ELSE IF \E t \in Tasks : IsRunning(task[t]) THEN pc' = "load" /\ UNCHANGED result
             ELSE Return("waited", "ok")
     ELSE pc' = "load" /\ UNCHANGED <<result, unknown>>
  /\ UNCHANGED <<elapsed, isSync, bad, waits, tries, count, left, read, serviceVars,
                 faults>>

\* GetResult of a failed task: whatever it yields becomes the text of the error.
GetResult ==
  /\ pc = "result"
  /\ IF isSync THEN UNCHANGED <<isSync, bad>> ELSE TakeResults
  /\ Return("returned", "error")
  /\ UNCHANGED <<elapsed, waits, tries, count, left, read, serviceVars, faults, unknown>>

\* A request of the poll fails.
PollFails ==
  /\ pc \in {"load", "tasks", "result"} /\ Fault
  /\ Return("returned", "error")
  /\ UNCHANGED <<elapsed, isSync, bad, waits, tries, count, left, read, serviceVars,
                 unknown>>

-----------------------------------------------------------------------------
(* sqldriver: query goes on with the result, exec does not.                 *)

Query ==
  /\ pc = "waited"
  /\ pc' = "session" /\ result' = "none"
  /\ UNCHANGED <<elapsed, isSync, bad, waits, tries, count, left, read, serviceVars,
                 faults, unknown>>

\* CreateInstanceResultDownloadSession: the service tells the number of records.
CreateSession ==
  /\ pc = "session"
  /\ pc' = "open" /\ count' = rows /\ tries' = 0
  /\ UNCHANGED <<elapsed, isSync, bad, waits, left, read, result, serviceVars, faults,
                 unknown>>

\* A log view or a tunnel endpoint that cannot be had, or a session that cannot be
\* created.
CreateSessionFails ==
  /\ pc = "session" /\ Fault
  /\ Return("returned", "error")
  /\ UNCHANGED <<elapsed, isSync, bad, waits, tries, count, left, read, serviceVars,
                 unknown>>

\* The range asked for: from the first record, and one record when there is none.
\* Mutant: it starts after the first.
FromSecond == [start |-> 1, count |-> IF count = 0 THEN 1 ELSE count]
RowRange == [start |-> 0, count |-> IF count = 0 THEN 1 ELSE count]

\* The service sends the rows of that range that exist.
Sent == {i \in 1 .. rows : RowRange.start < i /\ i <= RowRange.start + RowRange.count}

OpenRecordReader ==
  /\ pc = "open"
  /\ left' = Cardinality(Sent)
  /\ read' = 0 /\ cut' = FALSE
  /\ Return("rows", "ok")
  /\ UNCHANGED <<elapsed, isSync, bad, waits, tries, count, created, listed, task, rows,
                 maxqa, faults, unknown>>

\* Retry: three attempts.
\* Mutant: four.
FourAttempts(n) == n = 4
AttemptsEnd(n) == n = 3
OpenFails ==
  /\ pc = "open" /\ Fault
  /\ tries' = tries + 1
  /\ IF AttemptsEnd(tries') THEN Return("returned", "error") ELSE UNCHANGED <<pc, result>>
  /\ UNCHANGED <<elapsed, isSync, bad, waits, count, left, read, serviceVars, unknown>>

\* rowsReader.Next.
NextRow ==
  /\ pc = "rows" /\ left > 0
  /\ left' = left - 1 /\ read' = read + 1
  /\ result' = "ok"
  /\ UNCHANGED <<pc, elapsed, isSync, bad, waits, tries, count, serviceVars, faults,
                 unknown>>

NextEOF ==
  /\ pc = "rows" /\ left = 0
  /\ Return("returned", "eof")
  /\ UNCHANGED <<elapsed, isSync, bad, waits, tries, count, left, read, serviceVars,
                 faults, unknown>>

\* The connection breaks, or a checksum does not match.
NextFails ==
  /\ pc = "rows" /\ Fault
  /\ Return("returned", "error")
  /\ UNCHANGED <<elapsed, isSync, bad, waits, tries, count, left, read, serviceVars,
                 unknown>>

-----------------------------------------------------------------------------
(* The service (external), and other clients.                               *)

\* How a task goes on by itself.  A suspended one does not; resuming it is left out.
Successors(s) ==
  CASE s = "WAITING" -> {"RUNNING", "OTHER"}
    [] s = "OTHER"   -> {"RUNNING"}
    [] s = "RUNNING" -> {"SUCCESS", "FAILED", "SUSPENDED"}
    [] OTHER         -> {}

RunTask(t) ==
  /\ created > 0
  /\ \E s \in Successors(task[t]) : task' = [task EXCEPT ![t] = s]
  /\ UNCHANGED <<pc, elapsed, callVars, created, listed, rows, cut, maxqa, faults,
                 unknown>>

ListTasks ==
  /\ created > 0 /\ ~listed
  /\ listed' = TRUE
  /\ UNCHANGED <<pc, elapsed, callVars, created, task, rows, cut, maxqa, faults,
                 unknown>>

\* The body of the download ends before all rows were sent, without an error.
EndBodyEarly ==
  /\ pc = "rows" /\ left > 0 /\ Fault
  /\ cut' = TRUE /\ left' = 0
  /\ UNCHANGED <<pc, elapsed, isSync, bad, waits, tries, count, read, result, created,
                 listed, task, rows, maxqa, unknown>>

\* Terminate, by any client that knows the instance.
Terminate ==
  /\ created > 0
  /\ \E t \in Tasks : task[t] \notin Final
  /\ task' = [t \in Tasks |-> IF task[t] \in Final THEN task[t] ELSE "CANCELLED"]
  /\ UNCHANGED <<pc, elapsed, callVars, created, listed, rows, cut, maxqa, faults,
                 unknown>>

-----------------------------------------------------------------------------

\* What runs by itself once a call has begun.
CallStep ==
  \/ PostCreated \/ PostRun \/ PostFails \/ PostConflict \/ SleepAfterConflict
  \/ Load \/ Poll \/ GetResult \/ PollFails
  \/ CreateSession \/ CreateSessionFails \/ OpenRecordReader \/ OpenFails

CallerStep ==
  \/ CreateTask \/ WaitForSuccess \/ Query
  \/ NextRow \/ NextEOF \/ NextFails

Next ==
  \/ CallStep \/ CallerStep
  \/ \E t \in Tasks : RunTask(t)
  \/ ListTasks \/ EndBodyEarly \/ Terminate

Spec == Init /\ [][Next]_vars

\* Requests end and sleeps are over after a while; the service lists the tasks of an
\* instance and runs them.
FairSpec ==
  /\ Spec
  /\ WF_vars(CallStep)
  /\ WF_vars(ListTasks)
  /\ \A t \in Tasks : WF_vars(RunTask(t))

-----------------------------------------------------------------------------
(* Properties.                                                              *)

\* One call of CreateTask runs the statement at most once, whatever answers are lost
\* and however often it is told to come back later.
OneInstancePerCall == created <= 1

\* CreateTask sends no request later than the longest sleep after its time is over.
RetriesAreBounded ==
  pc = "post" => elapsed = 0 \/ \E d \in Sleeps : elapsed < MaxRetry + d

\* A call of WaitForSuccess that returned nil, and so a query that got as far as its
\* result, has run every task to success; except for a task with a status the client
\* does not know, and for an instance in which CreateTask or an earlier call has
\* stored a result other than a success, at which WaitForSuccess does not look.
WaitMeansSuccess ==
  pc \in {"waited", "session", "open", "rows"} =>
    (isSync /\ bad) \/ \A t \in Tasks : task[t] = "SUCCESS" \/ t \in unknown

\* A query whose rows end with io.EOF has handed out all rows of the result, unless
\* the service ended the body early.
RowsAreAll == result = "eof" => read = rows \/ cut

\* CreateTask, WaitForSuccess and query return: a task that ends in any way, is
\* suspended or is terminated by somebody else ends the wait, and a service that
\* answers 409 for ever does not hold CreateTask.
CallsReturn == pc \notin AtRest ~> pc \in AtRest
=============================================================================
