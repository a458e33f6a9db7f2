--------------------------- MODULE SqlQuery_proofs ---------------------------
(***************************************************************************)
(* Proofs about SqlQuery for any number of tasks, rows, faults and calls,  *)
(* and any Retry-After values.                                             *)
(***************************************************************************)
EXTENDS SqlQuery, FiniteSetTheorems, TLAPS

\* CreateTask has created nothing as long as it runs.
CreateInv ==
  /\ created \in {0, 1}
  /\ pc \in {"start", "post", "sleep"} => created = 0

\* Its clock: a sleep begins before the time is over.
ClockInv ==
  /\ elapsed \in Nat
  /\ pc = "start" => elapsed = 0
  /\ pc = "sleep" => elapsed < MaxRetry
  /\ RetriesAreBounded

\* Results stored in the instance are those of tasks that have ended.
WaitInv ==
  /\ task \in [Tasks -> Statuses]
  /\ isSync => bad \/ \A t \in Tasks : task[t] = "SUCCESS"
  /\ WaitMeansSuccess

\* The reader has the rows before it that were not handed out yet.
RowInv ==
  /\ rows \in Nat /\ left \in Nat /\ read \in Nat
  /\ pc = "open" => count = rows
  /\ pc = "rows" => cut \/ read + left = rows
  /\ pc = "rows" => result # "eof"
  /\ RowsAreAll

USE DEF callVars, serviceVars, Return, Leave

-----------------------------------------------------------------------------

\* A statement that was run at once ends CreateTask, one way or the other.
LEMMA PostRunEnds ==
  ASSUME PostRun
  PROVE  /\ pc = "post" /\ pc' \in {"submitted", "returned"}
         /\ elapsed' = 0 /\ created' = created + 1
  <1> DEFINE failed == \E t \in Tasks : IsFailure(task'[t])
  <1>1. CASE failed
    BY <1>1 DEF PostRun
  <1>2. CASE ~failed
    BY <1>2 DEF PostRun
  <1> QED
    BY <1>1, <1>2

\* As long as CreateTask runs it has created no instance, and no other call does.
LEMMA CreateStep == ASSUME CreateInv, [Next]_vars PROVE CreateInv'
  <1> USE DEF CreateInv, AfterPostError
  <1>1. CASE CallStep
    <2>1. CASE PostRun
      BY <2>1, PostRunEnds
    <2>2. CASE PostCreated \/ PostFails \/ PostConflict \/ SleepAfterConflict
      BY <2>2 DEF PostCreated, PostFails, PostConflict, SleepAfterConflict
    <2>3. CASE Load \/ Poll \/ GetResult \/ PollFails \/ CreateSession \/ CreateSessionFails
               \/ OpenRecordReader \/ OpenFails
      BY <2>3 DEF Load, Poll, GetResult, PollFails, CreateSession, CreateSessionFails,
           OpenRecordReader, OpenFails
    <2> QED
      BY <1>1, <2>1, <2>2, <2>3 DEF CallStep
  <1>2. CASE CallerStep
    BY <1>2 DEF CallerStep, CreateTask, WaitForSuccess, Query, NextRow, NextEOF, NextFails
  <1>3. CASE (\E t \in Tasks : RunTask(t)) \/ ListTasks \/ EndBodyEarly \/ Terminate
    BY <1>3 DEF RunTask, ListTasks, EndBodyEarly, Terminate
  <1>4. CASE UNCHANGED vars
    BY <1>4 DEF vars
  <1> QED
    BY <1>1, <1>2, <1>3, <1>4 DEF Next

\* A request follows a sleep that began before the time was over, or nothing.
LEMMA ClockStep == ASSUME ClockInv, [Next]_vars PROVE ClockInv'
  <1> USE QueryAssumption DEF ClockInv, RetriesAreBounded, AfterPostError, Later, Sleeps
  <1>1. CASE CallStep
    <2>1. CASE PostConflict
      BY <2>1 DEF PostConflict, RetryIsOver
    <2>2. CASE SleepAfterConflict
      <3>1. PICK d \in Sleeps : elapsed' = Later(d)
        BY <2>2 DEF SleepAfterConflict
      <3>2. d \in Nat /\ MaxRetry \in Nat /\ MaxRetry + d < Horizon
        BY <3>1
      <3>3. elapsed < MaxRetry /\ pc' = "post"
        BY <2>2 DEF SleepAfterConflict
      <3>4. elapsed' = elapsed + d /\ elapsed' < MaxRetry + d
        BY <3>1, <3>2, <3>3
      <3> QED
        BY <3>1, <3>2, <3>3, <3>4
    <2>3. CASE PostCreated \/ PostRun \/ PostFails
      BY <2>3, PostRunEnds DEF PostCreated, PostFails
    <2>4. CASE Load \/ Poll \/ GetResult \/ PollFails \/ CreateSession \/ CreateSessionFails
               \/ OpenRecordReader \/ OpenFails
      BY <2>4 DEF Load, Poll, GetResult, PollFails, CreateSession, CreateSessionFails,
           OpenRecordReader, OpenFails
    <2> QED
      BY <1>1, <2>1, <2>2, <2>3, <2>4 DEF CallStep
  <1>2. CASE CallerStep
    BY <1>2 DEF CallerStep, CreateTask, WaitForSuccess, Query, NextRow, NextEOF, NextFails
  <1>3. CASE (\E t \in Tasks : RunTask(t)) \/ ListTasks \/ EndBodyEarly \/ Terminate
    BY <1>3 DEF RunTask, ListTasks, EndBodyEarly, Terminate
  <1>4. CASE UNCHANGED vars
    BY <1>4 DEF vars
  <1> QED
    BY <1>1, <1>2, <1>3, <1>4 DEF Next

\* Polls, stored results and the steps of tasks keep what a finished wait means.
LEMMA WaitStep == ASSUME WaitInv, [Next]_vars PROVE WaitInv'
  <1> USE DEF WaitInv, WaitMeansSuccess, Statuses, Failures, Final, IsFailure, AfterPostError
  <1>1. CASE PostRun
    <2>1. task' \in [Tasks -> Statuses] /\ pc' \in {"submitted", "returned"}
      BY <1>1 DEF PostRun
    <2>2. bad' \/ \A t \in Tasks : task'[t] = "SUCCESS"
      BY <1>1, <2>1 DEF PostRun
    <2> QED
      BY <2>1, <2>2
  <1>2. ASSUME TakeResults, UNCHANGED task
        PROVE  isSync' => bad' \/ \A t \in Tasks : task'[t] = "SUCCESS"
    BY <1>2 DEF TakeResults
  <1>3. CASE Load
    BY <1>2, <1>3 DEF Load
  <1>4. CASE GetResult
    BY <1>2, <1>4 DEF GetResult
  <1>5. CASE Poll
    <2>1. UNCHANGED <<isSync, bad, task>>
      BY <1>5 DEF Poll
    <2>2. pc' \in {"result", "load"} \/ \A t \in Tasks : task[t] = "SUCCESS" \/ t \in unknown'
      BY <1>5 DEF Poll, IsRunning
    <2>3. pc' \notin {"session", "open", "rows"}
      BY <1>5 DEF Poll
    <2> QED
      BY <2>1, <2>2, <2>3
  <1>6. CASE WaitForSuccess
    BY <1>6 DEF WaitForSuccess
  <1>7. ASSUME NEW t \in Tasks, RunTask(t)
        PROVE  WaitInv'
    <2>1. PICK s \in Successors(task[t]) : task' = [task EXCEPT ![t] = s]
      BY <1>7 DEF RunTask
    <2>2. task[t] # "SUCCESS" /\ s \in Statuses
      BY <2>1 DEF Successors
    <2>3. task' \in [Tasks -> Statuses]
          /\ \A u \in Tasks : task[u] = "SUCCESS" => task'[u] = "SUCCESS"
      BY <2>1, <2>2
    <2>4. UNCHANGED <<pc, isSync, bad, unknown>>
      BY <1>7 DEF RunTask
    <2> QED
      BY <2>3, <2>4
  <1>8. CASE Terminate
    <2>1. task' \in [Tasks -> Statuses]
          /\ \A u \in Tasks : task[u] = "SUCCESS" => task'[u] = "SUCCESS"
      BY <1>8 DEF Terminate
    <2>2. UNCHANGED <<pc, isSync, bad, unknown>>
      BY <1>8 DEF Terminate
    <2> QED
      BY <2>1, <2>2
  <1>9. CASE PostCreated \/ PostFails \/ PostConflict \/ SleepAfterConflict \/ PollFails
             \/ CreateTask \/ ListTasks \/ NextEOF \/ NextFails \/ CreateSessionFails
    BY <1>9 DEF PostCreated, PostFails, PostConflict, SleepAfterConflict, PollFails,
         CreateTask, ListTasks, NextEOF, NextFails, CreateSessionFails
  <1>10. CASE CreateSession \/ OpenRecordReader \/ OpenFails \/ Query \/ NextRow
              \/ EndBodyEarly
    BY <1>10 DEF CreateSession, OpenRecordReader, OpenFails, Query, NextRow, EndBodyEarly
  <1>11. CASE UNCHANGED vars
    BY <1>11 DEF vars
  <1> QED
    BY <1>1, <1>3, <1>4, <1>5, <1>6, <1>7, <1>8, <1>9, <1>10, <1>11
       DEF Next, CallStep, CallerStep

\* The rows of a range that begins with the first record and is as long as the
\* session says are all rows.
LEMMA AllRowsSent == ASSUME rows \in Nat, count = rows PROVE Cardinality(Sent) = rows
  <1>1. Sent = 1 .. rows
    BY DEF Sent, RowRange
  <1> QED
    BY <1>1, FS_Interval

\* Handing out rows keeps the account of them.
LEMMA RowStep == ASSUME RowInv, [Next]_vars PROVE RowInv'
  <1> USE DEF RowInv, RowsAreAll, AfterPostError
  <1>1. CASE OpenRecordReader
    BY <1>1, AllRowsSent DEF OpenRecordReader
  <1>2. CASE NextRow
    BY <1>2 DEF NextRow
  <1>3. CASE NextEOF
    BY <1>3 DEF NextEOF
  <1>4. CASE EndBodyEarly
    BY <1>4 DEF EndBodyEarly
  <1>5. CASE CreateSession \/ CreateSessionFails \/ OpenFails \/ NextFails \/ Query
             \/ CreateTask \/ WaitForSuccess
    BY <1>5 DEF CreateSession, CreateSessionFails, OpenFails, NextFails, Query, CreateTask,
         WaitForSuccess
  <1>6. CASE PostCreated \/ PostRun \/ PostFails \/ PostConflict \/ SleepAfterConflict
    BY <1>6 DEF PostCreated, PostRun, PostFails, PostConflict, SleepAfterConflict
  <1>7. CASE Load \/ Poll \/ GetResult \/ PollFails
    BY <1>7 DEF Load, Poll, GetResult, PollFails
  <1>8. CASE (\E t \in Tasks : RunTask(t)) \/ ListTasks \/ Terminate
    BY <1>8 DEF RunTask, ListTasks, Terminate
  <1>9. CASE UNCHANGED vars
    BY <1>9 DEF vars
  <1> QED
    BY <1>1, <1>2, <1>3, <1>4, <1>5, <1>6, <1>7, <1>8, <1>9 DEF Next, CallStep, CallerStep

-----------------------------------------------------------------------------

\* CreateTask runs a statement at most once, for any number of conflicts, lost answers
\* and faults.
THEOREM StatementRunsOnce == Spec => []OneInstancePerCall
  <1>1. Init => CreateInv
    BY DEF Init, CreateInv
  <1>2. CreateInv => OneInstancePerCall
    BY DEF CreateInv, OneInstancePerCall
  <1> QED
    BY <1>1, <1>2, CreateStep, PTL DEF Spec

\* CreateTask sends no request later than one sleep after its time is over, for any
\* values of Retry-After.
THEOREM ConflictsAreBounded == Spec => []RetriesAreBounded
  <1>1. Init => ClockInv
    BY DEF Init, ClockInv, RetriesAreBounded
  <1>2. ClockInv => RetriesAreBounded
    BY DEF ClockInv
  <1> QED
    BY <1>1, <1>2, ClockStep, PTL DEF Spec

\* WaitForSuccess returns nil only for tasks that succeeded, but for the exceptions
\* the property names, for any number of tasks and any interleaving with Terminate.
THEOREM WaitedForSuccess == Spec => []WaitMeansSuccess
  <1>1. Init => WaitInv
    BY DEF Init, WaitInv, WaitMeansSuccess, Statuses
  <1>2. WaitInv => WaitMeansSuccess
    BY DEF WaitInv
  <1> QED
    BY <1>1, <1>2, WaitStep, PTL DEF Spec

\* A query that ends with io.EOF has handed out every row, unless the body was ended
\* early by the service.
THEOREM EveryRowIsRead == Spec => []RowsAreAll
  <1>1. Init => RowInv
    BY QueryAssumption DEF Init, RowInv, RowsAreAll
  <1>2. RowInv => RowsAreAll
    BY DEF RowInv
  <1> QED
    BY <1>1, <1>2, RowStep, PTL DEF Spec

-----------------------------------------------------------------------------
(* Types: the attempts of Retry, the clock and the rows stay in their bounds. *)

TypeInv ==
  /\ TypeOK
  /\ pc = "open" => tries < 3
  /\ pc = "rows" => read + left <= rows

LEMMA TypeStep == ASSUME TypeInv, RowInv, [Next]_vars PROVE TypeInv'
  <1> USE QueryAssumption DEF TypeInv, TypeOK, AtRest
  <1>1. CASE PostRun
    <2>1. task' \in [Tasks -> Statuses] /\ bad' \in BOOLEAN
      BY <1>1 DEF PostRun, Statuses, Final, Failures
    <2>2. pc' \in {"submitted", "returned"} /\ result' \in {"ok", "error"} /\ elapsed' = 0
      BY <1>1 DEF PostRun
    <2>3. isSync' = TRUE /\ listed' = TRUE /\ created' = created + 1
      BY <1>1 DEF PostRun
    <2>4. UNCHANGED <<waits, tries, count, left, read, rows, cut, maxqa, faults, unknown>>
      BY <1>1 DEF PostRun
    <2> QED
      BY <2>1, <2>2, <2>3, <2>4
  <1>2. CASE PostCreated \/ PostFails \/ CreateTask
    BY <1>2 DEF PostCreated, PostFails, AfterPostError, CreateTask, Fault
  <1>3. CASE PostConflict
    BY <1>3 DEF PostConflict, Later
  <1>4. CASE SleepAfterConflict
    <2>1. \A d \in Sleeps : d \in Nat
      BY DEF Sleeps
    <2>2. elapsed' \in 0 .. Horizon
      BY <1>4, <2>1 DEF SleepAfterConflict, Later
    <2> QED
      BY <1>4, <2>2 DEF SleepAfterConflict
  <1>5. ASSUME TakeResults PROVE isSync' \in BOOLEAN /\ bad' \in BOOLEAN
    BY <1>5 DEF TakeResults
  <1>6. CASE Load
    BY <1>5, <1>6 DEF Load
  <1>7. CASE GetResult
    BY <1>5, <1>7 DEF GetResult
  <1>8. CASE WaitForSuccess
    BY <1>8 DEF WaitForSuccess
  <1>9. CASE Poll
    <2>1. unknown' \in SUBSET Tasks /\ pc' \in {"result", "load", "waited"}
          /\ result' \in {result, "ok"}
      BY <1>9 DEF Poll
    <2> QED
      BY <1>9, <2>1 DEF Poll
  <1>10. CASE PollFails \/ Query \/ CreateSessionFails \/ NextFails \/ NextEOF
    BY <1>10 DEF PollFails, Query, CreateSessionFails, NextFails, NextEOF, Fault
  <1>11. CASE CreateSession \/ OpenFails
    BY <1>11 DEF CreateSession, OpenFails, AttemptsEnd, Fault
  <1>12. CASE OpenRecordReader
    <2>1. left' = rows
      BY <1>12, AllRowsSent DEF OpenRecordReader, RowInv
    <2>2. read' = 0 /\ cut' = FALSE /\ pc' = "rows" /\ result' = "ok"
      BY <1>12 DEF OpenRecordReader
    <2>3. UNCHANGED <<elapsed, isSync, bad, waits, tries, count, created, listed, task, rows,
                      maxqa, faults, unknown>>
      BY <1>12 DEF OpenRecordReader
    <2>4. left' \in 0 .. MaxRows /\ read' \in 0 .. MaxRows /\ read' + left' <= rows'
      BY <2>1, <2>2, <2>3
    <2> QED
      BY <2>2, <2>3, <2>4
  <1>13. CASE NextRow \/ EndBodyEarly
    <2>1. /\ read \in Nat /\ left \in Nat /\ rows \in Nat /\ MaxRows \in Nat
          /\ read + left <= rows /\ rows <= MaxRows
      BY <1>13 DEF NextRow, EndBodyEarly
    <2>2. CASE NextRow
      <3>1. /\ left' = left - 1 /\ read' = read + 1 /\ result' = "ok" /\ left > 0
            /\ UNCHANGED <<pc, elapsed, isSync, bad, waits, tries, count, serviceVars, faults,
                           unknown>>
        BY <2>2 DEF NextRow
      <3>2. left' \in 0 .. MaxRows /\ read' \in 0 .. MaxRows /\ read' + left' <= rows
        BY <2>1, <3>1
      <3> QED
        BY <3>1, <3>2
    <2>3. CASE EndBodyEarly
      <3>1. /\ left' = 0 /\ cut' = TRUE /\ faults' \in 0 .. MaxFaults
            /\ UNCHANGED <<pc, elapsed, isSync, bad, waits, tries, count, read, result, created,
                           listed, task, rows, maxqa, unknown>>
        BY <2>3 DEF EndBodyEarly, Fault
      <3>2. left' \in 0 .. MaxRows /\ read + left' <= rows
        BY <2>1, <3>1
      <3> QED
        BY <3>1, <3>2
    <2> QED
      BY <1>13, <2>2, <2>3
  <1>14. ASSUME NEW t \in Tasks, RunTask(t) PROVE TypeInv'
    <2>1. task' \in [Tasks -> Statuses]
      <3>1. PICK s \in Successors(task[t]) : task' = [task EXCEPT ![t] = s]
        BY <1>14 DEF RunTask
      <3>2. s \in Statuses
        BY <3>1 DEF Successors, Statuses, Failures
      <3> QED
        BY <3>1, <3>2
    <2> QED
      BY <1>14, <2>1 DEF RunTask
  <1>15. CASE Terminate
    <2>1. task' \in [Tasks -> Statuses]
      BY <1>15 DEF Terminate, Statuses, Failures
    <2> QED
      BY <1>15, <2>1 DEF Terminate
  <1>16. CASE ListTasks
    BY <1>16 DEF ListTasks
  <1>17. CASE UNCHANGED vars
    BY <1>17 DEF vars
  <1> QED
    BY <1>1, <1>2, <1>3, <1>4, <1>6, <1>7, <1>8, <1>9, <1>10, <1>11, <1>12, <1>13, <1>14,
       <1>15, <1>16, <1>17 DEF Next, CallStep, CallerStep

\* Every variable keeps its type: Retry makes three attempts at most, and a reader never
\* hands out more rows than the result has.
THEOREM QueryTypeCorrect == Spec => []TypeOK
  <1>1. Init => TypeInv /\ RowInv
    <2> SUFFICES ASSUME Init PROVE TypeInv /\ RowInv
      OBVIOUS
    <2>1. RowInv
      BY QueryAssumption DEF Init, RowInv, RowsAreAll
    <2>2. task \in [Tasks -> Statuses] /\ unknown \in SUBSET Tasks
      BY DEF Init, Statuses
    <2>3. /\ pc = "start" /\ result = "none" /\ created = 0
          /\ isSync = FALSE /\ bad = FALSE /\ listed = FALSE /\ cut = FALSE /\ maxqa \in BOOLEAN
      BY DEF Init
    <2>4. /\ elapsed \in 0 .. Horizon /\ waits \in 0 .. MaxWaits /\ tries \in 0 .. 3
          /\ count \in 0 .. MaxRows /\ left \in 0 .. MaxRows /\ read \in 0 .. MaxRows
          /\ rows \in 0 .. MaxRows /\ faults \in 0 .. MaxFaults
      BY QueryAssumption DEF Init
    <2>5. TypeInv
      BY <2>2, <2>3, <2>4 DEF TypeInv, TypeOK, AtRest
    <2> QED
      BY <2>1, <2>5
  <1>2. TypeInv => TypeOK
    BY DEF TypeInv
  <1> QED
    BY <1>1, <1>2, TypeStep, RowStep, PTL DEF Spec
=============================================================================
