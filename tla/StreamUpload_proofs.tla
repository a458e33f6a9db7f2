------------------------- MODULE StreamUpload_proofs -------------------------
(***************************************************************************)
(* Proofs about StreamUpload for any number of writers, records, slots,    *)
(* faults and moves of slots.                                              *)
(***************************************************************************)
EXTENDS StreamUpload, SequenceTheorems, TLAPS

\* The writer holds a pack, or the records of one, whenever no append has failed.
\* A writer that was Reset after a failed flush holds nothing and stays so.
WriterShape(w) ==
  /\ closed[w] => flushing[w]
  /\ flushing[w] /\ ~closed[w] => recordCount[w] = 0
  /\ ~appendErr[w] =>
       IF closed[w] THEN IsPack(buffer[w], recordCount[w])
       ELSE /\ Len(buffer[w]) = recordCount[w]
            /\ \A i \in 1 .. recordCount[w] : buffer[w][i] \in Records

\* A goroutine inside Flush works on a pack that may be flushed.
InFlush(w) ==
  pc[w] # "idle" =>
    opened /\ flushing[w] /\ closed[w] /\ ~appendErr[w] /\ recordCount[w] > 0

\* UpdateServer is called with a header that was there.
HasServer(w) == pc[w] = "update" => answer[w].server \in ServerText

WriterInv == \A w \in Writers : WriterShape(w) /\ InFlush(w) /\ HasServer(w)

\* The goroutine has received a 2xx for the pack it holds.
Confirmed(w) ==
  \/ pc[w] \in {"update", "done"}
  \/ pc[w] = "answered" /\ answer[w].code = "ok"
  \/ pc[w] \in {"reload", "apply"} /\ returnTo[w] = "done"

\* Records have one owner, and those of a pack under way are not acknowledged yet.
OwnerInv ==
  /\ acked \subseteq appended
  /\ abandoned \subseteq appended
  /\ \A w \in Writers : RecordsIn(buffer[w]) \subseteq appended \ acked
  /\ \A v, w \in Writers : v # w => RecordsIn(buffer[v]) \cap RecordsIn(buffer[w]) = {}
  /\ \A m \in late : RecordsIn(m.body) \subseteq abandoned

\* What is acknowledged or confirmed is stored, and a record whose answers all
\* arrived is stored at most once, and only if acknowledged or confirmed.
StoreInv ==
  /\ \A r \in acked : commits[r] > 0
  /\ \A w \in Writers : Confirmed(w) =>
       \A r \in RecordsIn(buffer[w]) : commits[r] > 0
  /\ \A r \in Records \ abandoned :
       commits[r] # 0 =>
         /\ commits[r] = 1
         /\ r \in acked \/ \E w \in Writers : Confirmed(w) /\ r \in RecordsIn(buffer[w])

IInv == TypeOK /\ SlotsAvailable /\ WriterInv /\ OwnerInv /\ StoreInv
USE DEF sessionVars, writerVars, flushVars, serviceVars, historyVars, Goto

-----------------------------------------------------------------------------
(* The operators.                                                           *)

\* Reset keeps a selector a selector, and never leaves it without slots if it
\* or the new list had some.
LEMMA ResetLemma ==
  ASSUME NEW s \in Selector, NEW arr \in Seq(Slot), NEW t \in Reset(s, arr),
         s.index \in 0 .. Len(s.arr)
  PROVE  /\ t \in Selector
         /\ t.index \in 0 .. Len(t.arr)
         /\ Len(arr) > 0 \/ Len(s.arr) > 0 => Len(t.arr) > 0
  BY DEF Selector, Reset

\* NextSlot returns a slot of a list that is not empty and keeps the index in range.
LEMMA NextSlotLemma ==
  ASSUME NEW s \in Selector, Len(s.arr) > 0, s.index \in 0 .. Len(s.arr)
  PROVE  /\ NextSlot(s) \in Slot
         /\ AfterNextSlot(s) \in Selector
         /\ AfterNextSlot(s).arr = s.arr
         /\ AfterNextSlot(s).index \in 0 .. Len(s.arr)
  BY DEF Selector, NextSlot, AfterNextSlot, WrapIndex

\* SetServer returns a slot with the same id whatever text the service sends.
LEMMA SetServerLemma ==
  ASSUME NEW s \in Slot, NEW text \in ServerText
  PROVE  SetServer(s, text) \in Slot /\ SetServer(s, text).id = s.id
  BY SelectorAssumption DEF SetServer, Slot, ServerText

\* UpdateServer rewrites servers only: the list keeps its length and its ids.
LEMMA UpdateServerLemma ==
  ASSUME NEW s \in Selector, NEW id, NEW text \in ServerText
  PROVE  /\ UpdateServer(s, id, text) \in Selector
         /\ UpdateServer(s, id, text).index = s.index
         /\ Len(UpdateServer(s, id, text).arr) = Len(s.arr)
  <1> DEFINE new == [i \in DOMAIN s.arr |->
                      IF IsFirst(s, id, i) THEN SetServer(s.arr[i], text) ELSE s.arr[i]]
  <1>1. s.arr \in Seq(Slot) /\ s.index \in Nat
    BY DEF Selector
  <1>2. DOMAIN s.arr = 1 .. Len(s.arr) /\ Len(s.arr) \in Nat
    BY <1>1
  <1>3. \A i \in 1 .. Len(s.arr) : s.arr[i] \in Slot /\ SetServer(s.arr[i], text) \in Slot
    BY <1>1, SetServerLemma
  <1>4. new \in [1 .. Len(s.arr) -> Slot]
    BY <1>2, <1>3
  <1>5. new \in Seq(Slot)
    BY <1>2, <1>4, SeqDef
  <1>6. Len(new) = Len(s.arr)
    BY <1>2, <1>4, <1>5
  <1>7. UpdateServer(s, id, text) = [arr |-> new, index |-> s.index]
    BY DEF UpdateServer
  <1> QED
    BY <1>1, <1>5, <1>6, <1>7 DEF Selector

\* Appending an item adds it to the records of a buffer if it is one.
LEMMA RecordsInAppend ==
  ASSUME NEW b \in Seq(Item), NEW x \in Item
  PROVE  RecordsIn(Append(b, x)) = RecordsIn(b) \cup ({x} \cap Records)
  <1>1. /\ DOMAIN b = 1 .. Len(b) /\ Len(b) \in Nat
        /\ DOMAIN Append(b, x) = 1 .. Len(b) + 1
        /\ Append(b, x)[Len(b) + 1] = x
        /\ \A i \in 1 .. Len(b) : Append(b, x)[i] = b[i]
    OBVIOUS
  <1>2. \A i \in DOMAIN Append(b, x) : i \in DOMAIN b \/ i = Len(b) + 1
    BY <1>1
  <1>3. Len(b) + 1 \in DOMAIN Append(b, x) /\ \A i \in DOMAIN b : i \in DOMAIN Append(b, x)
    BY <1>1
  <1> QED
    BY <1>1, <1>2, <1>3 DEF RecordsIn

\* An empty buffer holds no records.
LEMMA RecordsInEmpty == RecordsIn(<<>>) = {}
  BY DEF RecordsIn

\* The service's map always has slots, all of them well formed.
LEMMA RouteLemma == TypeOK => route \in Seq(Slot) /\ Len(route) > 0
  BY StreamAssumption DEF TypeOK
-----------------------------------------------------------------------------
(* Every action keeps the types and the slots.                              *)

\* Every step of a session keeps the types, and a session that is open keeps a
\* slot and an index within the list.
LEMMA TypeStep ==
  ASSUME IInv, Next
  PROVE  TypeOK' /\ SlotsAvailable'
  <1> USE DEF IInv, TypeOK, SlotsAvailable, Points, Loaded, NotLoaded, Answer, Code, NoAnswer, Item
  <1>0. CASE CreateStreamUploadSession
    <2>1. sel \in Selector /\ sel.index \in 0 .. Len(sel.arr) /\ route \in Seq(Slot) /\ Len(route) > 0
      BY RouteLemma
    <2>2. sel' \in Reset(sel, route)
      BY <1>0 DEF CreateStreamUploadSession, CreationAccepts
    <2>3. sel' \in Selector /\ sel'.index \in 0 .. Len(sel'.arr) /\ Len(sel'.arr) > 0
      BY <2>1, <2>2, ResetLemma
    <2> QED
      BY <1>0, <2>3 DEF CreateStreamUploadSession
  <1>r. ASSUME NEW w \in Writers, CallerStep(w) \/ Flush(w) \/ ClientStep(w) \/ ServiceStep(w)
        PROVE  TypeOK' /\ SlotsAvailable'
    <2>1. CASE TakeSlotsStale(w)
      BY <2>1 DEF TakeSlotsStale
    <2>2. CASE ReloadSlotNum(w)
      BY <2>2, ResetLemma, SMTT(30) DEF ReloadSlotNum, MarkAfterReload
    <2>3. CASE TakeNextSlot(w)
      BY <2>3, NextSlotLemma DEF WriterInv, InFlush, TakeNextSlot
    <2>4. CASE NewUploadConnection(w)
      BY <2>4 DEF NewUploadConnection
    <2>5. CASE NewUploadConnectionFails(w)
      BY <2>5, StreamAssumption, SMTT(30) DEF NewUploadConnectionFails
    <2>6. CASE FlushFailed(w)
      BY <2>6 DEF FlushFailed, AfterFailure, KeepPack
    <2>7. CASE RefreshSlotRouting(w)
      BY <2>7 DEF RefreshSlotRouting
    <2>8. CASE UpdateSlotServer(w)
      BY <2>8, UpdateServerLemma DEF WriterInv, HasServer, UpdateSlotServer, AfterUpdate
    <2>9. CASE FlushDone(w)
      BY <2>9 DEF FlushDone, Emptied, RecordsIn
    <2>10. CASE ServeReload(w)
      <3>1. route \in Seq(Slot) /\ <<>> \in Seq(Slot)
        BY RouteLemma
      <3>2. \A ok \in BOOLEAN, slots \in Seq(Slot) :
              [loaded EXCEPT ![w] = [ok |-> ok, slots |-> slots]] \in [Writers -> Loaded]
        OBVIOUS
      <3>3. loaded' \in [Writers -> Loaded]
        <4>1. \/ loaded' = [loaded EXCEPT ![w] = [ok |-> TRUE, slots |-> route]]
              \/ loaded' = [loaded EXCEPT ![w] = [ok |-> TRUE, slots |-> <<>>]]
              \/ loaded' = [loaded EXCEPT ![w] = [ok |-> FALSE, slots |-> <<>>]]
          BY <2>10 DEF ServeReload
        <4> HIDE DEF IInv, Loaded
        <4> QED
          BY <3>1, <3>2, <4>1, ZenonT(60)
      <3>4. faults' \in 0 .. MaxFaults /\ evidence' \in SUBSET Writers
        BY <2>10, StreamAssumption DEF ServeReload
      <3> QED
        BY <2>10, <3>3, <3>4 DEF ServeReload
    <2>11. CASE ServeFlush(w)
      <3>1. answer' \in [Writers -> Answer]
        <4>1. \A x \in Answer : [answer EXCEPT ![w] = x] \in [Writers -> Answer]
          OBVIOUS
        <4> QED
          <5>1. PICK i \in DOMAIN route : \E server \in {NoServer, ServerOf(route[i])} :
                  answer' = [answer EXCEPT ![w] = [code |-> "ok", num |-> Len(route), server |-> server]]
            BY <2>11 DEF ServeFlush, Answered
          <5>2. route[i] \in Slot /\ Len(route) \in Nat
            BY RouteLemma, SMTT(30)
          <5>3. \A server \in {NoServer, ServerOf(route[i])} :
                  [code |-> "ok", num |-> Len(route), server |-> server] \in Answer
            BY <5>2 DEF ServerOf, ServerText, Slot
          <5> HIDE DEF IInv, Answer, NoAnswer
          <5> QED
            BY <4>1, <5>1, <5>3
      <3>2. pc' \in [Writers -> Points]
        BY <2>11 DEF ServeFlush, Answered
      <3>3. commits' \in [Records -> Nat]
        BY <2>11 DEF ServeFlush, Store
      <3>4. faults' \in 0 .. MaxFaults
        BY <2>11, StreamAssumption DEF ServeFlush
      <3> QED
        BY <2>11, <3>1, <3>2, <3>3, <3>4 DEF ServeFlush
    <2>12. CASE ServeFlushGarbled(w)
      <3>1. answer' \in [Writers -> Answer]
        <4>1. \A x \in Answer : [answer EXCEPT ![w] = x] \in [Writers -> Answer]
          OBVIOUS
        <4> QED
          <5>1. \/ answer' = [answer EXCEPT ![w] = [code |-> "ok", num |-> -1, server |-> NoServer]]
                \/ \E text \in ServerText :
                     answer' = [answer EXCEPT ![w] = [code |-> "ok", num |-> Len(route), server |-> text]]
            BY <2>12 DEF ServeFlushGarbled, Answered
          <5>2. /\ [code |-> "ok", num |-> -1, server |-> NoServer] \in Answer
                /\ \A text \in ServerText :
                     [code |-> "ok", num |-> Len(route), server |-> text] \in Answer
            BY RouteLemma
          <5> HIDE DEF IInv, Answer, NoAnswer
          <5> QED
            BY <4>1, <5>1, <5>2
      <3>2. pc' \in [Writers -> Points]
        BY <2>12, ZenonT(60) DEF ServeFlushGarbled, Answered
      <3>3. commits' \in [Records -> Nat]
        BY <2>12 DEF ServeFlushGarbled, Store
      <3>4. faults' \in 0 .. MaxFaults
        BY <2>12, StreamAssumption DEF ServeFlushGarbled
      <3> QED
        BY <2>12, <3>1, <3>2, <3>3, <3>4 DEF ServeFlushGarbled
    <2>13. CASE FlushRejected(w)
      <3>1. answer' \in [Writers -> Answer]
        <4>1. \A x \in Answer : [answer EXCEPT ![w] = x] \in [Writers -> Answer]
          OBVIOUS
        <4> QED
          <5>1. \E code \in {"rerouted", "refused", "transport"} :
                  answer' = [answer EXCEPT ![w] = [NoAnswer EXCEPT !.code = code]]
            BY <2>13 DEF FlushRejected, Answered
          <5>2. \A code \in {"rerouted", "refused", "transport"} :
                  [NoAnswer EXCEPT !.code = code] \in Answer
            OBVIOUS
          <5> HIDE DEF IInv, Answer, NoAnswer
          <5> QED
            BY <4>1, <5>1, <5>2
      <3>2. pc' \in [Writers -> Points]
        BY <2>13 DEF FlushRejected, Answered
      <3>3. commits' \in [Records -> Nat]
        BY <2>13 DEF FlushRejected, Store
      <3>4. faults' \in 0 .. MaxFaults
        BY <2>13, StreamAssumption DEF FlushRejected
      <3> QED
        BY <2>13, <3>1, <3>2, <3>3, <3>4 DEF FlushRejected
    <2>14. CASE AnswerLost(w)
      <3>1. answer' \in [Writers -> Answer]
        <4>1. \A x \in Answer : [answer EXCEPT ![w] = x] \in [Writers -> Answer]
          OBVIOUS
        <4> QED
          BY <2>14, <4>1 DEF AnswerLost, Answered
      <3>2. pc' \in [Writers -> Points]
        BY <2>14 DEF AnswerLost, Answered
      <3>3. commits' \in [Records -> Nat]
        BY <2>14 DEF AnswerLost, Store
      <3>4. faults' \in 0 .. MaxFaults
        BY <2>14, StreamAssumption DEF AnswerLost
      <3>5. late' \in SUBSET [nr : Nat, body : Seq(Item)]
        BY <2>14, StreamAssumption, SMTT(30) DEF AnswerLost
      <3>6. abandoned' \in SUBSET Records
        BY <2>14 DEF AnswerLost, RecordsIn
      <3> QED
        BY <2>14, <3>5, <3>6, <3>1, <3>2, <3>3, <3>4 DEF AnswerLost
    <2>15. CASE AppendRefused(w)
      BY <2>15 DEF AppendRefused
    <2>16. CASE AppendRecord(w)
      <3>1. PICK r \in Records \ appended :
              buffer' = [buffer EXCEPT ![w] = Append(buffer[w], r)]
                /\ appended' = appended \cup {r}
        BY <2>16 DEF AppendRecord
      <3>2. buffer' \in [Writers -> Seq(Item)]
        <4>1. r \in Item
          OBVIOUS
        <4>2. Append(buffer[w], r) \in Seq(Item)
          BY <4>1
        <4>3. buffer \in [Writers -> Seq(Item)]
          OBVIOUS
        <4> HIDE DEF Item, IInv
        <4> QED
          BY <3>1, <4>2, <4>3
      <3>3. appended' \in SUBSET Records
        BY <3>1
      <3>4. recordCount' \in [Writers -> Nat]
        BY <2>16 DEF AppendRecord
      <3> QED
        BY <2>16, <3>2, <3>3, <3>4 DEF AppendRecord
    <2>17. CASE AppendFails(w)
      <3>1. Partial \in Item
        OBVIOUS
      <3>2. buffer' \in [Writers -> Seq(Item)]
        <4>1. \/ buffer' = buffer
              \/ buffer' = [buffer EXCEPT ![w] = Append(buffer[w], Partial)]
          BY <2>17 DEF AppendFails
        <4>2. Append(buffer[w], Partial) \in Seq(Item)
          BY <3>1
        <4>3. buffer \in [Writers -> Seq(Item)]
          OBVIOUS
        <4> HIDE DEF Item, IInv
        <4> QED
          BY <4>1, <4>2, <4>3
      <3>3. appendErr' \in [Writers -> BOOLEAN]
        BY <2>17 DEF AppendFails
      <3> QED
        BY <2>17, <3>2, <3>3 DEF AppendFails
    <2>18. CASE WriterReset(w)
      BY <2>18 DEF WriterReset, Emptied
    <2>19. CASE Flush(w)
      BY <2>19, SMTT(30) DEF Flush, MustClose
    <2> QED
      BY <1>r, <2>1, <2>2, <2>3, <2>4, <2>5, <2>6, <2>7, <2>8, <2>9, <2>10, <2>11, <2>12, <2>13, <2>14, <2>15, <2>16, <2>17, <2>18, <2>19 DEF CallerStep, ClientStep, ServiceStep
  <1>l. ASSUME NEW m \in late, ServeLate(m) PROVE TypeOK' /\ SlotsAvailable'
    BY <1>l DEF ServeLate, Store
  <1>m. CASE MoveSlots
    BY <1>m, StreamAssumption DEF MoveSlots
  <1> QED
    BY <1>0, <1>r, <1>l, <1>m DEF Next

-----------------------------------------------------------------------------
(* Every action keeps the writers' shape.                                   *)

\* The actions that neither touch a writer's fields nor enter Flush.
LEMMA WriterFrame ==
  ASSUME TypeOK, WriterInv, NEW w \in Writers, NEW p \in Points,
         UNCHANGED writerVars, opened' = opened, pc[w] # "idle",
         pc' = [pc EXCEPT ![w] = p],
         p = "update" => answer'[w].server \in ServerText,
         \A v \in Writers : v # w => answer'[v] = answer[v]
  PROVE  WriterInv'
  <1> SUFFICES ASSUME NEW v \in Writers
               PROVE  WriterShape(v)' /\ InFlush(v)' /\ HasServer(v)'
    BY DEF WriterInv
  <1>1. WriterShape(v) /\ InFlush(v) /\ HasServer(v) /\ InFlush(w)
    BY DEF WriterInv
  <1>2. pc'[v] = IF v = w THEN p ELSE pc[v]
    BY DEF TypeOK
  <1>3. WriterShape(v)'
    BY <1>1 DEF WriterShape, IsPack
  <1>4. InFlush(v)'
    BY <1>1, <1>2 DEF InFlush
  <1>5. HasServer(v)'
    BY <1>1, <1>2 DEF HasServer
  <1> QED
    BY <1>3, <1>4, <1>5

\* A change to the fields of one idle writer.
LEMMA WriterLocal ==
  ASSUME TypeOK, WriterInv, NEW w \in Writers, opened' = opened,
         \A v \in Writers \ {w} :
            /\ answer'[v] = answer[v] /\ buffer'[v] = buffer[v]
            /\ recordCount'[v] = recordCount[v] /\ flushing'[v] = flushing[v]
            /\ closed'[v] = closed[v] /\ appendErr'[v] = appendErr[v] /\ pc'[v] = pc[v],
         WriterShape(w)', InFlush(w)', pc'[w] # "update"
  PROVE  WriterInv'
  <1> SUFFICES ASSUME NEW v \in Writers
               PROVE  WriterShape(v)' /\ InFlush(v)' /\ HasServer(v)'
    BY DEF WriterInv
  <1>1. CASE v = w
    BY <1>1 DEF HasServer
  <1>2. CASE v # w
    BY <1>2 DEF WriterInv, WriterShape, IsPack, InFlush, HasServer
  <1> QED
    BY <1>1, <1>2

\* Every step keeps the shape of the buffers: whole records, and the footer once the
\* writer is flushing.
LEMMA WriterStep ==
  ASSUME IInv, Next
  PROVE  WriterInv'
  <1>1. TypeOK /\ WriterInv
    BY DEF IInv
  <1>2. \/ CreateStreamUploadSession
        \/ \E w \in Writers : CallerStep(w) \/ Flush(w) \/ ClientStep(w) \/ ServiceStep(w)
        \/ \E m \in late : ServeLate(m)
        \/ MoveSlots
    BY DEF Next
  <1> HIDE DEF IInv, Next
  <1>3. CASE CreateStreamUploadSession \/ MoveSlots \/ \E m \in late : ServeLate(m)
    <2>1. UNCHANGED <<writerVars, pc, answer>> /\ (opened => opened')
      BY <1>3 DEF CreateStreamUploadSession, MoveSlots, ServeLate
    <2> QED
      BY <1>1, <2>1 DEF WriterInv, WriterShape, IsPack, InFlush, HasServer
  <1>4. ASSUME NEW w \in Writers, CallerStep(w) \/ Flush(w) \/ ClientStep(w) \/ ServiceStep(w)
        PROVE  WriterInv'
    <2>0. /\ WriterShape(w) /\ InFlush(w)
          /\ buffer[w] \in Seq(Item) /\ recordCount[w] \in Nat
          /\ flushing[w] \in BOOLEAN /\ closed[w] \in BOOLEAN /\ appendErr[w] \in BOOLEAN
      BY <1>1 DEF WriterInv, TypeOK
    <2>1. CASE TakeSlotsStale(w)
      BY <2>1, <1>1, WriterFrame DEF TakeSlotsStale, Points
    <2>2. CASE ReloadSlotNum(w)
      <3>1. returnTo[w] \in Points /\ returnTo[w] # "update"
        BY <1>1 DEF TypeOK, Points
      <3> QED
        BY <2>2, <3>1, <1>1, WriterFrame DEF ReloadSlotNum
    <2>3. CASE TakeNextSlot(w)
      BY <2>3, <1>1, WriterFrame DEF TakeNextSlot, Points
    <2>4. CASE NewUploadConnection(w)
      BY <2>4, <1>1, WriterFrame DEF NewUploadConnection, Points
    <2>5. CASE NewUploadConnectionFails(w)
      BY <2>5, <1>1, WriterFrame DEF NewUploadConnectionFails, Points
    <2>6. CASE FlushFailed(w)
      <3>1. \A v \in Writers : v # w => answer'[v] = answer[v]
        BY <2>6, <1>1 DEF FlushFailed, TypeOK
      <3> QED
        BY <2>6, <3>1, <1>1, WriterFrame DEF FlushFailed, AfterFailure, KeepPack, Points
    <2>7. CASE RefreshSlotRouting(w)
      <3>1. answer[w].server \in ServerText \cup {NoServer}
        BY <1>1 DEF TypeOK, Answer
      <3>2. PICK p \in {"done", "reload", "update"} :
              pc' = [pc EXCEPT ![w] = p] /\ (p = "update" => answer[w].server # NoServer)
        BY <2>7 DEF RefreshSlotRouting
      <3>3. p \in Points /\ (p = "update" => answer'[w].server \in ServerText)
        BY <2>7, <3>1, <3>2 DEF RefreshSlotRouting, Points
      <3>4. UNCHANGED <<opened, writerVars, answer>> /\ pc[w] # "idle"
        BY <2>7 DEF RefreshSlotRouting
      <3> QED
        BY <3>2, <3>3, <3>4, <1>1, WriterFrame
    <2>8. CASE UpdateSlotServer(w)
      BY <2>8, <1>1, WriterFrame DEF UpdateSlotServer, AfterUpdate, Points
    <2>9. CASE FlushDone(w)
      <3>1. /\ buffer'[w] = <<>> /\ recordCount'[w] = 0 /\ pc'[w] = "idle"
            /\ flushing'[w] = FALSE /\ closed'[w] = FALSE
        BY <2>9, <1>1 DEF FlushDone, Emptied, TypeOK
      <3>2. WriterShape(w)' /\ InFlush(w)'
        BY <3>1 DEF WriterShape, InFlush
      <3>3. /\ opened' = opened
            /\ \A v \in Writers \ {w} :
                 /\ answer'[v] = answer[v] /\ buffer'[v] = buffer[v]
                 /\ recordCount'[v] = recordCount[v] /\ flushing'[v] = flushing[v]
                 /\ closed'[v] = closed[v] /\ appendErr'[v] = appendErr[v] /\ pc'[v] = pc[v]
        BY <2>9, <1>1 DEF FlushDone, Emptied, TypeOK
      <3> QED
        BY <3>1, <3>2, <3>3, <1>1, WriterLocal
    <2>10. CASE ServiceStep(w)
      <3>1. /\ UNCHANGED <<opened, writerVars>> /\ pc[w] # "idle"
            /\ \A v \in Writers : v # w => answer'[v] = answer[v]
            /\ pc' = [pc EXCEPT ![w] = "apply"] \/ pc' = [pc EXCEPT ![w] = "answered"]
        BY <2>10, <1>1 DEF ServiceStep, ServeReload, ServeFlush, ServeFlushGarbled,
                           FlushRejected, AnswerLost, Answered, TypeOK
      <3> QED
        BY <3>1, <1>1, WriterFrame DEF Points
    <2>11. CASE AppendRefused(w)
      <3>1. /\ buffer' = buffer /\ recordCount' = recordCount /\ pc' = pc /\ flushing' = flushing
            /\ closed' = closed /\ opened' = opened /\ answer' = answer /\ pc[w] = "idle"
            /\ appendErr'[w] = TRUE
            /\ \A v \in Writers \ {w} : appendErr'[v] = appendErr[v]
        BY <2>11, <1>1 DEF AppendRefused, TypeOK
      <3>2. WriterShape(w)' /\ InFlush(w)'
        BY <2>0, <3>1 DEF WriterShape, InFlush
      <3> QED
        BY <3>1, <3>2, <1>1, WriterLocal
    <2>12. CASE AppendRecord(w)
      <3>1. /\ pc' = pc /\ flushing' = flushing /\ closed' = closed /\ opened' = opened
            /\ answer' = answer /\ pc[w] = "idle" /\ appendErr' = appendErr /\ ~flushing[w]
            /\ recordCount'[w] = recordCount[w] + 1
            /\ \E r \in Records : buffer'[w] = Append(buffer[w], r)
            /\ \A v \in Writers \ {w} : buffer'[v] = buffer[v] /\ recordCount'[v] = recordCount[v]
        BY <2>12, <1>1 DEF AppendRecord, TypeOK
      <3>2. WriterShape(w)' /\ InFlush(w)'
        BY <2>0, <3>1 DEF WriterShape, InFlush
      <3> QED
        BY <3>1, <3>2, <1>1, WriterLocal
    <2>13. CASE AppendFails(w)
      <3>1. /\ pc' = pc /\ flushing' = flushing /\ closed' = closed /\ opened' = opened
            /\ answer' = answer /\ pc[w] = "idle" /\ recordCount' = recordCount /\ ~flushing[w]
            /\ appendErr'[w] = TRUE
            /\ \A v \in Writers \ {w} : buffer'[v] = buffer[v] /\ appendErr'[v] = appendErr[v]
        BY <2>13, <1>1 DEF AppendFails, TypeOK
      <3>2. WriterShape(w)' /\ InFlush(w)'
        BY <2>0, <3>1 DEF WriterShape, InFlush
      <3> QED
        BY <3>1, <3>2, <1>1, WriterLocal
    <2>14. CASE WriterReset(w)
      <3>1. /\ pc' = pc /\ flushing' = flushing /\ opened' = opened /\ answer' = answer
            /\ pc[w] = "idle" /\ buffer'[w] = <<>> /\ recordCount'[w] = 0 /\ closed'[w] = FALSE
            /\ \A v \in Writers \ {w} :
                 /\ buffer'[v] = buffer[v] /\ recordCount'[v] = recordCount[v]
                 /\ closed'[v] = closed[v] /\ appendErr'[v] = appendErr[v]
        BY <2>14, <1>1 DEF WriterReset, Emptied, TypeOK
      <3>2. WriterShape(w)' /\ InFlush(w)'
        BY <2>0, <3>1 DEF WriterShape, InFlush
      <3> QED
        BY <3>1, <3>2, <1>1, WriterLocal
    <2>15. CASE Flush(w)
      <3>1. /\ opened /\ opened' = opened /\ answer' = answer /\ recordCount' = recordCount
            /\ appendErr' = appendErr /\ ~appendErr[w] /\ recordCount[w] > 0
            /\ buffer'[w] = IF ~flushing[w] /\ ~closed[w] THEN Append(buffer[w], Footer) ELSE buffer[w]
            /\ flushing'[w] = TRUE /\ closed'[w] = TRUE /\ pc'[w] = "take"
            /\ \A v \in Writers \ {w} :
                 /\ buffer'[v] = buffer[v] /\ flushing'[v] = flushing[v]
                 /\ closed'[v] = closed[v] /\ pc'[v] = pc[v]
        BY <2>15, <1>1 DEF Flush, MayFlush, MustClose, TypeOK
      <3>2. InFlush(w)'
        BY <3>1 DEF InFlush
      <3>3. WriterShape(w)'
        BY <2>0, <3>1 DEF WriterShape, IsPack, Item
      <3> QED
        BY <3>1, <3>2, <3>3, <1>1, WriterLocal
    <2> QED
      BY <1>4, <2>1, <2>2, <2>3, <2>4, <2>5, <2>6, <2>7, <2>8, <2>9, <2>10, <2>11, <2>12,
         <2>13, <2>14, <2>15 DEF CallerStep, ClientStep
  <1> QED
    BY <1>2, <1>3, <1>4

-----------------------------------------------------------------------------
(* Every action keeps the ownership of records.                             *)

\* A change of one buffer that brings no record into it but fresh ones.
LEMMA OwnerLocal ==
  ASSUME OwnerInv, NEW w \in Writers, appended \subseteq appended',
         \/ acked' = acked
         \/ acked' = acked \cup RecordsIn(buffer[w]) /\ RecordsIn(buffer'[w]) = {},
         UNCHANGED <<abandoned, late>>,
         RecordsIn(buffer'[w]) \subseteq RecordsIn(buffer[w]) \cup (appended' \ appended),
         \A v \in Writers \ {w} : buffer'[v] = buffer[v]
  PROVE  OwnerInv'
  <1>1. (acked \subseteq appended /\ abandoned \subseteq appended)'
    BY DEF OwnerInv
  <1>2. \A v \in Writers : (RecordsIn(buffer[v]) \subseteq appended \ acked)'
    <2> SUFFICES ASSUME NEW v \in Writers
                 PROVE  RecordsIn(buffer'[v]) \subseteq appended' \ acked'
      BY DEF RecordsIn
    <2>1. CASE v = w
      BY <2>1 DEF OwnerInv
    <2>2. CASE v # w
      BY <2>2 DEF OwnerInv
    <2> QED
      BY <2>1, <2>2
  <1>3. \A u, v \in Writers : u # v => RecordsIn(buffer'[u]) \cap RecordsIn(buffer'[v]) = {}
    <2>1. \A v \in Writers \ {w} : RecordsIn(buffer[v]) \subseteq appended
      BY DEF OwnerInv
    <2>2. \A v \in Writers \ {w} : RecordsIn(buffer'[v]) \cap RecordsIn(buffer'[w]) = {}
      BY <2>1 DEF OwnerInv
    <2>3. \A u, v \in Writers \ {w} : u # v => RecordsIn(buffer'[u]) \cap RecordsIn(buffer'[v]) = {}
      BY DEF OwnerInv
    <2> QED
      BY <2>2, <2>3
  <1>4. \A m \in late' : RecordsIn(m.body) \subseteq abandoned'
    BY DEF OwnerInv
  <1> QED
    BY <1>1, <1>2, <1>3, <1>4 DEF OwnerInv, RecordsIn

\* Every step keeps each record in at most one buffer, and out of the buffers of
\* others once it was acknowledged.
LEMMA OwnerStep ==
  ASSUME IInv, Next
  PROVE  OwnerInv'
  <1>1. TypeOK /\ OwnerInv
    BY DEF IInv
  <1>2. \/ CreateStreamUploadSession
        \/ \E w \in Writers : CallerStep(w) \/ Flush(w) \/ ClientStep(w) \/ ServiceStep(w)
        \/ \E m \in late : ServeLate(m)
        \/ MoveSlots
    BY DEF Next
  <1> HIDE DEF IInv, Next
  <1>3. ASSUME UNCHANGED <<buffer, appended, acked, abandoned>>, late' \subseteq late
        PROVE  OwnerInv'
    BY <1>1, <1>3 DEF OwnerInv, RecordsIn
  <1>4. CASE CreateStreamUploadSession \/ MoveSlots \/ \E m \in late : ServeLate(m)
    BY <1>3, <1>4 DEF CreateStreamUploadSession, MoveSlots, ServeLate
  <1>5. ASSUME NEW w \in Writers, CallerStep(w) \/ Flush(w) \/ ClientStep(w) \/ ServiceStep(w)
        PROVE  OwnerInv'
    <2>0. buffer[w] \in Seq(Item) /\ Footer \in Item /\ Partial \in Item /\ Records \subseteq Item
      BY <1>1 DEF TypeOK, Item
    <2>1. CASE FlushDone(w)
      <3>1. /\ buffer'[w] = <<>> /\ \A v \in Writers \ {w} : buffer'[v] = buffer[v]
            /\ acked' = acked \cup RecordsIn(buffer[w]) /\ UNCHANGED <<appended, abandoned, late>>
        BY <2>1, <1>1 DEF FlushDone, Emptied, TypeOK
      <3> QED
        BY <3>1, <1>1, OwnerLocal, RecordsInEmpty
    <2>2. CASE WriterReset(w)
      <3>1. /\ buffer'[w] = <<>> /\ \A v \in Writers \ {w} : buffer'[v] = buffer[v]
            /\ UNCHANGED <<acked, appended, abandoned, late>>
        BY <2>2, <1>1 DEF WriterReset, Emptied, TypeOK
      <3> QED
        BY <3>1, <1>1, OwnerLocal, RecordsInEmpty
    <2>3. CASE AppendRecord(w)
      <3>1. PICK r \in Records \ appended :
              /\ buffer' = [buffer EXCEPT ![w] = Append(buffer[w], r)]
              /\ appended' = appended \cup {r}
        BY <2>3 DEF AppendRecord
      <3>2. buffer'[w] = Append(buffer[w], r) /\ \A v \in Writers \ {w} : buffer'[v] = buffer[v]
        BY <3>1, <1>1 DEF TypeOK
      <3>3. RecordsIn(buffer'[w]) \subseteq RecordsIn(buffer[w]) \cup {r}
        BY <2>0, <3>2, RecordsInAppend
      <3>4. acked' = acked /\ UNCHANGED <<abandoned, late>>
        BY <2>3 DEF AppendRecord
      <3>5. appended \subseteq appended' /\ r \in appended' \ appended
        BY <3>1
      <3>6. RecordsIn(buffer'[w]) \subseteq RecordsIn(buffer[w]) \cup (appended' \ appended)
        BY <3>3, <3>5
      <3>7. \A v \in Writers \ {w} : buffer'[v] = buffer[v]
        BY <3>2
      <3> QED
        BY <1>1, <3>4, <3>5, <3>6, <3>7, OwnerLocal
    <2>4. CASE AppendFails(w) \/ Flush(w)
      <3>1. /\ \/ buffer'[w] = buffer[w]
               \/ buffer'[w] = Append(buffer[w], Partial)
               \/ buffer'[w] = Append(buffer[w], Footer)
        BY <2>4, <1>1 DEF AppendFails, Flush, TypeOK
      <3>2. RecordsIn(buffer'[w]) = RecordsIn(buffer[w])
        <4>1. {Partial} \cap Records = {} /\ {Footer} \cap Records = {}
          BY StreamAssumption
        <4>2. /\ RecordsIn(Append(buffer[w], Partial)) = RecordsIn(buffer[w])
              /\ RecordsIn(Append(buffer[w], Footer)) = RecordsIn(buffer[w])
          BY <2>0, <4>1, RecordsInAppend, ZenonT(60)
        <4> QED
          BY <3>1, <4>2
      <3>3. /\ \A v \in Writers \ {w} : buffer'[v] = buffer[v]
            /\ UNCHANGED <<acked, appended, abandoned, late>>
        BY <2>4, <1>1 DEF AppendFails, Flush, TypeOK
      <3> QED
        BY <1>1, <3>2, <3>3, OwnerLocal
    <2>5. CASE AnswerLost(w)
      <3>1. UNCHANGED <<buffer, appended, acked>>
        BY <2>5 DEF AnswerLost
      <3>2. abandoned' = abandoned \cup RecordsIn(buffer[w])
        BY <2>5 DEF AnswerLost
      <3>3. \A m \in late' : m \in late \/ m.body = buffer[w]
        BY <2>5 DEF AnswerLost
      <3> QED
        BY <1>1, <3>1, <3>2, <3>3 DEF OwnerInv, RecordsIn
    <2>6. CASE AppendRefused(w) \/ TakeSlotsStale(w) \/ ReloadSlotNum(w) \/ TakeNextSlot(w)
               \/ NewUploadConnection(w) \/ NewUploadConnectionFails(w) \/ FlushFailed(w)
               \/ RefreshSlotRouting(w) \/ UpdateSlotServer(w) \/ ServeReload(w)
               \/ ServeFlush(w) \/ ServeFlushGarbled(w) \/ FlushRejected(w)
      BY <1>3, <2>6 DEF AppendRefused, TakeSlotsStale, ReloadSlotNum, TakeNextSlot,
           NewUploadConnection, NewUploadConnectionFails, FlushFailed, KeepPack,
           RefreshSlotRouting, UpdateSlotServer, ServeReload, ServeFlush,
           ServeFlushGarbled, FlushRejected
    <2> QED
      BY <1>5, <2>1, <2>2, <2>3, <2>4, <2>5, <2>6 DEF CallerStep, ClientStep, ServiceStep
  <1> QED
    BY <1>2, <1>4, <1>5

-----------------------------------------------------------------------------
(* Every action keeps what is known about stored records.                   *)

\* Nothing is stored or acknowledged, and confirmed packs stay what they are.
LEMMA StoreFrame ==
  ASSUME StoreInv, UNCHANGED <<commits, acked>>, abandoned \subseteq abandoned',
         \A v \in Writers : Confirmed(v)' <=> Confirmed(v),
         \A v \in Writers : Confirmed(v) => buffer'[v] = buffer[v]
  PROVE  StoreInv'
  <1>1. \A v \in Writers : Confirmed(v) => RecordsIn(buffer[v])' = RecordsIn(buffer[v])
    BY DEF RecordsIn
  <1> QED
    BY <1>1 DEF StoreInv

\* The service stores the body of a request that writer w, if any, gets confirmed.
LEMMA StoreMore ==
  ASSUME TypeOK, OwnerInv, StoreInv, NEW body, Store(body),
         UNCHANGED <<acked, abandoned, buffer>>,
         \A r \in RecordsIn(body) \ abandoned :
            /\ commits[r] = 0
            /\ \E v \in Writers : Confirmed(v)' /\ r \in RecordsIn(buffer[v]),
         \A v \in Writers : Confirmed(v) => Confirmed(v)',
         \A v \in Writers : Confirmed(v)' =>
            Confirmed(v) \/ RecordsIn(buffer[v]) \subseteq RecordsIn(body)
  PROVE  StoreInv'
  <1>1. \A r \in Records :
          /\ commits[r] \in Nat
          /\ r \in RecordsIn(body) => commits'[r] = commits[r] + 1
          /\ r \notin RecordsIn(body) => commits'[r] = commits[r]
    BY DEF TypeOK, Store
  <1>a. \A r \in Records : commits[r] > 0 => commits'[r] > 0
    <2> SUFFICES ASSUME NEW r \in Records, commits[r] > 0 PROVE commits'[r] > 0
      OBVIOUS
    <2>1. commits[r] \in Nat /\ (commits'[r] = commits[r] + 1 \/ commits'[r] = commits[r])
      BY <1>1
    <2> QED
      BY <2>1
  <1>2. \A r \in acked : commits'[r] > 0
    <2>1. \A r \in acked : r \in Records /\ commits[r] > 0
      BY DEF StoreInv, TypeOK
    <2> QED
      BY <1>a, <2>1
  <1>3. \A v \in Writers : RecordsIn(buffer[v])' = RecordsIn(buffer[v])
    BY DEF RecordsIn
  <1>4. \A v \in Writers : Confirmed(v)' => \A r \in RecordsIn(buffer[v]) : commits'[r] > 0
    <2> SUFFICES ASSUME NEW v \in Writers, Confirmed(v)', NEW r \in RecordsIn(buffer[v])
                 PROVE  commits'[r] > 0
      OBVIOUS
    <2>1. r \in Records /\ commits[r] \in Nat
      BY <1>1 DEF RecordsIn
    <2>2. CASE Confirmed(v)
      <3>1. commits[r] > 0
        BY <2>2 DEF StoreInv
      <3> QED
        BY <1>a, <2>1, <3>1
    <2>3. CASE r \in RecordsIn(body)
      <3>1. commits'[r] = commits[r] + 1
        BY <1>1, <2>1, <2>3
      <3> QED
        BY <2>1, <3>1
    <2> QED
      BY <2>2, <2>3
  <1>5. ASSUME NEW r \in Records \ abandoned, commits'[r] # 0
        PROVE  /\ commits'[r] = 1
               /\ \/ r \in acked
                  \/ \E v \in Writers : Confirmed(v)' /\ r \in RecordsIn(buffer[v])
    <2>1. CASE r \in RecordsIn(body)
      <3>1. commits'[r] = commits[r] + 1 /\ commits[r] = 0
        BY <1>1, <2>1
      <3>2. \E v \in Writers : Confirmed(v)' /\ r \in RecordsIn(buffer[v])
        BY <2>1
      <3> QED
        BY <3>1, <3>2
    <2>2. CASE r \notin RecordsIn(body)
      <3>1. commits'[r] = commits[r] /\ commits[r] # 0
        BY <1>1, <1>5, <2>2
      <3>2. /\ commits[r] = 1
            /\ r \in acked \/ \E v \in Writers : Confirmed(v) /\ r \in RecordsIn(buffer[v])
        BY <3>1 DEF StoreInv
      <3> QED
        BY <3>1, <3>2
    <2> QED
      BY <2>1, <2>2
  <1> QED
    BY <1>2, <1>3, <1>4, <1>5 DEF StoreInv

\* A record of a pack that is being sent and not confirmed has not been stored,
\* unless an answer was lost.
LEMMA SentNotStored ==
  ASSUME TypeOK, OwnerInv, StoreInv, NEW w \in Writers, ~Confirmed(w),
         NEW r \in RecordsIn(buffer[w]) \ abandoned
  PROVE  commits[r] = 0
  <1>1. r \in Records /\ r \notin acked
    BY DEF OwnerInv, RecordsIn
  <1>2. \A v \in Writers : Confirmed(v) => r \notin RecordsIn(buffer[v])
    BY DEF OwnerInv
  <1> QED
    BY <1>1, <1>2 DEF StoreInv

\* Every step keeps the account of what the service has stored against what was
\* acknowledged, confirmed and abandoned.
LEMMA StoreStep ==
  ASSUME IInv, Next
  PROVE  StoreInv'
  <1>1. TypeOK /\ OwnerInv /\ StoreInv
    BY DEF IInv
  <1>2. \/ CreateStreamUploadSession
        \/ \E w \in Writers : CallerStep(w) \/ Flush(w) \/ ClientStep(w) \/ ServiceStep(w)
        \/ \E m \in late : ServeLate(m)
        \/ MoveSlots
    BY DEF Next
  <1> HIDE DEF IInv, Next
  <1>3. CASE CreateStreamUploadSession \/ MoveSlots
    <2>1. UNCHANGED <<commits, acked, abandoned, buffer, pc, answer, returnTo>>
      BY <1>3 DEF CreateStreamUploadSession, MoveSlots
    <2>2. \A v \in Writers : Confirmed(v)' <=> Confirmed(v)
      BY <2>1 DEF Confirmed
    <2> QED
      BY <1>1, <2>1, <2>2, StoreFrame
  <1>4. ASSUME NEW m \in late, ServeLate(m)
        PROVE  StoreInv'
    <2>1. UNCHANGED <<acked, abandoned, buffer, pc, answer, returnTo>> /\ Store(m.body)
      BY <1>4 DEF ServeLate
    <2>2. \A v \in Writers : Confirmed(v)' <=> Confirmed(v)
      BY <2>1 DEF Confirmed
    <2>3. RecordsIn(m.body) \ abandoned = {}
      BY <1>1 DEF OwnerInv
    <2> QED
      BY <1>1, <2>1, <2>2, <2>3, StoreMore
  <1>5. ASSUME NEW w \in Writers, CallerStep(w) \/ Flush(w) \/ ClientStep(w) \/ ServiceStep(w)
        PROVE  StoreInv'
    <2>1. CASE CallerStep(w) \/ Flush(w)
      <3>1. /\ UNCHANGED <<commits, acked, abandoned, answer, returnTo>>
            /\ pc[w] = "idle" /\ (pc' = pc \/ pc' = [pc EXCEPT ![w] = "take"])
            /\ \A v \in Writers \ {w} : buffer'[v] = buffer[v]
        BY <2>1, <1>1 DEF CallerStep, AppendRefused, AppendRecord, AppendFails, WriterReset,
                          Emptied, Flush, TypeOK
      <3>2. ~Confirmed(w) /\ ~Confirmed(w)'
        BY <3>1, <1>1 DEF Confirmed, TypeOK
      <3>3. \A v \in Writers \ {w} : Confirmed(v)' <=> Confirmed(v)
        BY <3>1, <1>1 DEF Confirmed, TypeOK
      <3> QED
        BY <1>1, <3>1, <3>2, <3>3, StoreFrame
    <2>2. CASE \/ TakeSlotsStale(w) \/ ReloadSlotNum(w) \/ TakeNextSlot(w)
               \/ NewUploadConnection(w) \/ NewUploadConnectionFails(w) \/ FlushFailed(w)
               \/ RefreshSlotRouting(w) \/ UpdateSlotServer(w) \/ ServeReload(w)
               \/ FlushRejected(w) \/ AnswerLost(w)
      <3>1. UNCHANGED <<commits, acked, buffer>> /\ abandoned \subseteq abandoned'
        BY <2>2 DEF TakeSlotsStale, ReloadSlotNum, TakeNextSlot, NewUploadConnection,
             NewUploadConnectionFails, FlushFailed, KeepPack, RefreshSlotRouting,
             UpdateSlotServer, ServeReload, FlushRejected, AnswerLost
      <3>2. \A v \in Writers \ {w} :
              pc'[v] = pc[v] /\ answer'[v] = answer[v] /\ returnTo'[v] = returnTo[v]
        BY <2>2, <1>1 DEF TakeSlotsStale, ReloadSlotNum, TakeNextSlot, NewUploadConnection,
             NewUploadConnectionFails, FlushFailed, RefreshSlotRouting,
             UpdateSlotServer, ServeReload, FlushRejected, AnswerLost, Answered, TypeOK
      <3>3. Confirmed(w)' <=> Confirmed(w)
        <4>1. CASE TakeSlotsStale(w)
          BY <4>1, <1>1 DEF TakeSlotsStale, Confirmed, TypeOK
        <4>2. CASE ReloadSlotNum(w)
          BY <4>2, <1>1 DEF ReloadSlotNum, Confirmed, TypeOK
        <4>3. CASE TakeNextSlot(w) \/ NewUploadConnection(w) \/ NewUploadConnectionFails(w)
          BY <4>3, <1>1 DEF TakeNextSlot, NewUploadConnection, NewUploadConnectionFails,
                            Confirmed, TypeOK
        <4>4. CASE FlushFailed(w)
          BY <4>4, <1>1 DEF FlushFailed, AfterFailure, Confirmed, TypeOK
        <4>5. CASE RefreshSlotRouting(w)
          BY <4>5, <1>1 DEF RefreshSlotRouting, Confirmed, TypeOK
        <4>6. CASE UpdateSlotServer(w)
          BY <4>6, <1>1 DEF UpdateSlotServer, AfterUpdate, Confirmed, TypeOK
        <4>7. CASE ServeReload(w)
          BY <4>7, <1>1 DEF ServeReload, Confirmed, TypeOK
        <4>8. CASE FlushRejected(w) \/ AnswerLost(w)
          <5>1. /\ pc[w] = "sent" /\ pc'[w] = "answered"
                /\ answer'[w].code \in {"rerouted", "refused", "transport"}
            BY <4>8, <1>1 DEF FlushRejected, AnswerLost, Answered, NoAnswer, TypeOK
          <5> QED
            BY <5>1 DEF Confirmed
        <4> QED
          BY <2>2, <4>1, <4>2, <4>3, <4>4, <4>5, <4>6, <4>7, <4>8
      <3>4. \A v \in Writers : Confirmed(v)' <=> Confirmed(v)
        BY <3>2, <3>3 DEF Confirmed
      <3> QED
        BY <1>1, <3>1, <3>4, StoreFrame
    <2>3. CASE ServeFlush(w) \/ ServeFlushGarbled(w)
      <3>1. /\ Store(buffer[w]) /\ UNCHANGED <<acked, abandoned, buffer, returnTo>>
            /\ pc[w] = "sent" /\ pc'[w] = "answered" /\ answer'[w].code = "ok"
            /\ \A v \in Writers \ {w} : pc'[v] = pc[v] /\ answer'[v] = answer[v]
        BY <2>3, <1>1 DEF ServeFlush, ServeFlushGarbled, Answered, TypeOK
      <3>2. ~Confirmed(w) /\ Confirmed(w)'
        BY <3>1 DEF Confirmed
      <3>3. \A v \in Writers \ {w} : Confirmed(v)' <=> Confirmed(v)
        BY <3>1 DEF Confirmed
      <3>4. \A r \in RecordsIn(buffer[w]) \ abandoned : commits[r] = 0
        BY <1>1, <3>2, SentNotStored
      <3> QED
        BY <1>1, <3>1, <3>2, <3>3, <3>4, StoreMore
    <2>4. CASE FlushDone(w)
      <3>1. /\ acked' = acked \cup RecordsIn(buffer[w]) /\ UNCHANGED <<commits, abandoned>>
            /\ pc[w] = "done" /\ pc'[w] = "idle" /\ buffer'[w] = <<>>
            /\ \A v \in Writers \ {w} :
                 /\ pc'[v] = pc[v] /\ answer'[v] = answer[v] /\ returnTo'[v] = returnTo[v]
                 /\ buffer'[v] = buffer[v]
        BY <2>4, <1>1 DEF FlushDone, Emptied, TypeOK
      <3>2. Confirmed(w) /\ ~Confirmed(w)'
        BY <3>1 DEF Confirmed
      <3>3. \A v \in Writers \ {w} :
              (Confirmed(v)' <=> Confirmed(v)) /\ RecordsIn(buffer[v])' = RecordsIn(buffer[v])
        BY <3>1 DEF Confirmed, RecordsIn
      <3> QED
        BY <1>1, <3>1, <3>2, <3>3 DEF StoreInv
    <2> QED
      BY <1>5, <2>1, <2>2, <2>3, <2>4 DEF ClientStep, ServiceStep
  <1> QED
    BY <1>2, <1>3, <1>4, <1>5

-----------------------------------------------------------------------------
(* The theorems.                                                            *)

\* The initial states satisfy the invariant.
LEMMA InitInv == Init => IInv
  <1> SUFFICES ASSUME Init PROVE IInv
    OBVIOUS
  <1>1. TypeOK /\ SlotsAvailable
    <2>1. /\ newSlotSelect \in Selector /\ newSlotSelect.index \in 0 .. Len(newSlotSelect.arr)
          /\ NoAnswer \in Answer /\ NotLoaded \in Loaded
      BY DEF newSlotSelect, Selector, NoAnswer, Answer, Code, NotLoaded, Loaded
    <2>2. 0 \in 0 .. MaxFaults /\ 0 \in 0 .. MaxMoves /\ "idle" \in Points
      BY StreamAssumption DEF Points
    <2>3. <<>> \in Seq(Item)
      OBVIOUS
    <2> QED
      BY <2>1, <2>2, <2>3 DEF Init, TypeOK, SlotsAvailable
  <1>2. WriterInv
    BY DEF Init, WriterInv, WriterShape, InFlush, HasServer
  <1>3. OwnerInv
    <2>1. \A w \in Writers : RecordsIn(buffer[w]) = {}
      BY RecordsInEmpty DEF Init
    <2> QED
      BY <2>1 DEF Init, OwnerInv
  <1>4. StoreInv
    BY DEF Init, StoreInv, Confirmed
  <1> QED
    BY <1>1, <1>2, <1>3, <1>4 DEF IInv

\* Stuttering keeps it.
LEMMA StutterInv == IInv /\ UNCHANGED vars => IInv'
  <1> SUFFICES ASSUME IInv, UNCHANGED vars PROVE IInv'
    OBVIOUS
  <1>1. (TypeOK /\ SlotsAvailable)'
    BY DEF IInv, vars, TypeOK, SlotsAvailable
  <1>2. WriterInv'
    BY DEF IInv, vars, WriterInv, WriterShape, InFlush, HasServer, IsPack
  <1>3. OwnerInv'
    BY DEF IInv, vars, OwnerInv, RecordsIn
  <1>4. StoreInv'
    BY DEF IInv, vars, StoreInv, Confirmed, RecordsIn
  <1> QED
    BY <1>1, <1>2, <1>3, <1>4 DEF IInv

\* The inductive invariant holds in every reachable state of a session.
THEOREM InductiveInvariant == Spec => []IInv
  <1>1. IInv /\ [Next]_vars => IInv'
    BY StutterInv, TypeStep, WriterStep, OwnerStep, StoreStep DEF IInv
  <1> QED
    BY InitInv, <1>1, PTL DEF Spec

\* The fields of the session and of every RecordPackStreamWriter keep their types
\* through every interleaving of flushes, reloads and faults.
THEOREM TypeCorrect == Spec => []TypeOK
  <1>1. IInv => TypeOK
    BY DEF IInv
  <1> QED
    BY <1>1, InductiveInvariant, PTL

\* NextSlot always finds a slot: neither a reload that returns no slot nor a list
\* that shrinks under a goroutine makes the session unusable.
THEOREM SlotsAlwaysAvailable == Spec => []SlotsAvailable
  <1>1. IInv => SlotsAvailable
    BY DEF IInv
  <1> QED
    BY <1>1, InductiveInvariant, PTL

\* A Flush that reports success has its records stored by the service.
THEOREM AcknowledgedIsStored == Spec => []AckedStored
  <1>1. IInv => AckedStored
    BY DEF IInv, StoreInv, AckedStored
  <1> QED
    BY <1>1, InductiveInvariant, PTL

\* flushStream never reports a committed flush as a failure: without a lost answer
\* no record is stored twice, however often and concurrently packs are retried.
THEOREM NoDuplicateWithoutLoss == Spec => []DuplicatesNeedALostAnswer
  <1>1. IInv => DuplicatesNeedALostAnswer
    <2> SUFFICES ASSUME IInv, NEW r \in Records, commits[r] > 1 PROVE r \in abandoned
      BY DEF DuplicatesNeedALostAnswer
    <2>1. r \in Records \ abandoned => commits[r] = 0 \/ commits[r] = 1
      BY DEF IInv, StoreInv
    <2> QED
      BY <2>1
  <1> QED
    BY <1>1, InductiveInvariant, PTL

\* Every request body is a closed pack of whole records, retries included.
THEOREM OnlyWholePacksAreSent == Spec => []PacksAreWhole
  <1>1. IInv => PacksAreWhole
    BY DEF IInv, WriterInv, WriterShape, InFlush, PacksAreWhole
  <1> QED
    BY <1>1, InductiveInvariant, PTL
-----------------------------------------------------------------------------
(* The stale mark.                                                          *)

\* No step loses the knowledge that the routing is wrong.
LEMMA EvidenceStep ==
  ASSUME TypeOK, EvidenceKept, Next
  PROVE  EvidenceKept'
  <1>1. CASE \/ CreateStreamUploadSession \/ MoveSlots \/ \E m \in late : ServeLate(m)
    <2>1. UNCHANGED <<evidence, slotsStale, pc, loaded>>
      BY <1>1 DEF CreateStreamUploadSession, MoveSlots, ServeLate
    <2> QED
      BY <2>1 DEF EvidenceKept, Reloading
  <1>2. ASSUME NEW w \in Writers, CallerStep(w) \/ Flush(w) \/ ClientStep(w) \/ ServiceStep(w)
        PROVE  EvidenceKept'
    <2>1. CASE TakeSlotsStale(w)
      <3>1. /\ pc' = [pc EXCEPT ![w] = IF slotsStale THEN "reload" ELSE "next"]
            /\ pc[w] = "take" /\ UNCHANGED <<evidence, loaded>>
        BY <2>1 DEF TakeSlotsStale
      <3>2. slotsStale => Reloading(w)'
        BY <3>1 DEF Reloading, TypeOK
      <3>3. \A v \in Writers : Reloading(v) => Reloading(v)'
        BY <3>1 DEF Reloading, TypeOK
      <3> QED
        BY <3>1, <3>2, <3>3 DEF EvidenceKept
    <2>2. CASE ReloadSlotNum(w)
      <3>1. /\ pc' = [pc EXCEPT ![w] = returnTo[w]] /\ pc[w] = "apply"
            /\ loaded' = [loaded EXCEPT ![w] = NotLoaded]
            /\ evidence' = evidence
            /\ slotsStale' = (slotsStale \/ ~loaded[w].ok)
        BY <2>2 DEF ReloadSlotNum, MarkAfterReload
      <3>2. \A v \in Writers : Reloading(v) => slotsStale' \/ Reloading(v)'
        BY <3>1 DEF Reloading, TypeOK
      <3> QED
        BY <3>1, <3>2 DEF EvidenceKept
    <2>3. CASE ServeReload(w)
      <3>1. /\ pc' = [pc EXCEPT ![w] = "apply"] /\ pc[w] = "reload"
            /\ \A v \in Writers \ {w} : loaded'[v] = loaded[v]
            /\ slotsStale' = slotsStale
            /\ evidence' = {} \/ (evidence' = evidence /\ loaded' = [loaded EXCEPT ![w] = NotLoaded])
        BY <2>3 DEF ServeReload, TypeOK
      <3>2. CASE evidence' = {}
        BY <3>2 DEF EvidenceKept
      <3>3. CASE evidence' = evidence /\ loaded' = [loaded EXCEPT ![w] = NotLoaded]
        <4>1. pc'[w] = "apply" /\ loaded'[w] = NotLoaded
          BY <3>1, <3>3 DEF TypeOK
        <4>2. Reloading(w)'
          BY <4>1 DEF Reloading, NotLoaded
        <4> QED
          BY <4>2 DEF EvidenceKept
      <3> QED
        BY <3>1, <3>2, <3>3
    <2>4. CASE RefreshSlotRouting(w)
      <3>1. /\ pc[w] = "answered" /\ loaded' = loaded
            /\ \A v \in Writers \ {w} : pc'[v] = pc[v]
            /\ \/ slotsStale' = TRUE
               \/ pc'[w] = "reload"
               \/ UNCHANGED <<slotsStale, evidence>>
        BY <2>4 DEF RefreshSlotRouting, TypeOK
      <3>2. pc'[w] = "reload" => Reloading(w)'
        BY DEF Reloading
      <3>3. \A v \in Writers : Reloading(v) => Reloading(v)'
        BY <3>1 DEF Reloading
      <3> QED
        BY <3>1, <3>2, <3>3 DEF EvidenceKept
    <2>5. CASE FlushFailed(w) \/ UpdateSlotServer(w)
      <3>1. /\ pc[w] \in {"answered", "update"} /\ loaded' = loaded
            /\ \A v \in Writers \ {w} : pc'[v] = pc[v]
            /\ slotsStale' \/ (evidence' = evidence /\ slotsStale' = slotsStale)
        BY <2>5 DEF FlushFailed, SlotRoutingIsStale, UpdateSlotServer, TypeOK
      <3>2. \A v \in Writers : Reloading(v) => Reloading(v)'
        BY <3>1 DEF Reloading
      <3> QED
        BY <3>1, <3>2 DEF EvidenceKept
    <2>6. CASE \/ CallerStep(w) \/ Flush(w) \/ TakeNextSlot(w) \/ NewUploadConnection(w)
               \/ NewUploadConnectionFails(w) \/ FlushDone(w) \/ ServeFlush(w)
               \/ ServeFlushGarbled(w) \/ FlushRejected(w) \/ AnswerLost(w)
      <3>1. /\ pc[w] \in {"idle", "next", "connect", "done", "sent"}
            /\ UNCHANGED <<loaded, evidence, slotsStale>>
            /\ \A v \in Writers \ {w} : pc'[v] = pc[v]
        BY <2>6 DEF CallerStep, AppendRefused, AppendRecord, AppendFails, WriterReset, Flush,
             TakeNextSlot, NewUploadConnection, NewUploadConnectionFails, FlushDone,
             ServeFlush, ServeFlushGarbled, FlushRejected, AnswerLost, Answered, TypeOK
      <3>2. \A v \in Writers : Reloading(v) => Reloading(v)'
        BY <3>1 DEF Reloading
      <3> QED
        BY <3>1, <3>2 DEF EvidenceKept
    <2> QED
      BY <1>2, <2>1, <2>2, <2>3, <2>4, <2>5, <2>6 DEF ClientStep, ServiceStep
  <1> QED
    BY <1>1, <1>2 DEF Next

\* Once a flush has shown the routing to be wrong, every interleaving of takes,
\* reloads and failures keeps the mark or a reload under way, for any number of
\* goroutines that share the session.
THEOREM StaleRoutingIsRemembered == Spec => []EvidenceKept
  <1>1. Init => EvidenceKept
    BY DEF Init, EvidenceKept
  <1>2. TypeOK /\ EvidenceKept /\ [Next]_vars => EvidenceKept'
    <2>1. EvidenceKept /\ UNCHANGED vars => EvidenceKept'
      BY DEF EvidenceKept, Reloading, vars
    <2> QED
      BY <2>1, EvidenceStep
  <1> QED
    BY <1>1, <1>2, TypeCorrect, PTL DEF Spec

-----------------------------------------------------------------------------
(* The session implements AtLeastOnce.                                      *)

\* Storing a pack under way, or a late one, is a delivery of its records.
LEMMA StoreDelivers ==
  ASSUME TypeOK, NEW body, Store(body), UNCHANGED <<appended, acked, abandoned>>,
         RecordsIn(body) \subseteq appended,
         \A r \in RecordsIn(body) : commits[r] = 0 \/ r \in abandoned
  PROVE  Delivery!Next
  <1>1. commits' = [r \in Records |->
                      IF r \in RecordsIn(body) THEN commits[r] + 1 ELSE commits[r]]
    BY DEF Store, TypeOK
  <1>2. Delivery!Deliver(RecordsIn(body))
    BY <1>1 DEF Delivery!Deliver
  <1> QED
    BY <1>2 DEF Delivery!Next

\* Every step of the session is a step of AtLeastOnce or none.
LEMMA DeliverySimulates ==
  ASSUME IInv, Next
  PROVE  Delivery!Next \/ UNCHANGED Delivery!vars
  <1>1. TypeOK /\ OwnerInv /\ StoreInv
    BY DEF IInv
  <1>2. CASE CreateStreamUploadSession \/ MoveSlots
    BY <1>2 DEF CreateStreamUploadSession, MoveSlots, Delivery!vars
  <1>3. ASSUME NEW m \in late, ServeLate(m) PROVE Delivery!Next
    <2>1. Store(m.body) /\ UNCHANGED <<appended, acked, abandoned>>
      BY <1>3 DEF ServeLate
    <2>2. RecordsIn(m.body) \subseteq abandoned /\ abandoned \subseteq appended
      BY <1>1 DEF OwnerInv
    <2> QED
      BY <1>1, <2>1, <2>2, StoreDelivers
  <1>4. ASSUME NEW w \in Writers, CallerStep(w) \/ Flush(w) \/ ClientStep(w) \/ ServiceStep(w)
        PROVE  Delivery!Next \/ UNCHANGED Delivery!vars
    <2>0. RecordsIn(buffer[w]) \subseteq appended \ acked
      BY <1>1 DEF OwnerInv
    <2>1. CASE AppendRecord(w)
      <3>1. PICK r \in Records : appended' = appended \cup {r}
        BY <2>1 DEF AppendRecord
      <3>2. Delivery!Give(r)
        BY <2>1, <3>1 DEF AppendRecord, Delivery!Give
      <3> QED
        BY <3>2 DEF Delivery!Next
    <2>2. CASE ServeFlush(w) \/ ServeFlushGarbled(w)
      <3>1. Store(buffer[w]) /\ UNCHANGED <<appended, acked, abandoned>> /\ pc[w] = "sent"
        BY <2>2 DEF ServeFlush, ServeFlushGarbled
      <3>2. ~Confirmed(w)
        BY <3>1 DEF Confirmed
      <3>3. \A r \in RecordsIn(buffer[w]) : commits[r] = 0 \/ r \in abandoned
        BY <1>1, <3>2, SentNotStored
      <3> QED
        BY <1>1, <2>0, <3>1, <3>3, StoreDelivers
    <2>3. CASE AnswerLost(w)
      <3>1. Delivery!LoseAnswer(RecordsIn(buffer[w]))
        BY <2>3 DEF AnswerLost, Delivery!LoseAnswer
      <3> QED
        BY <2>0, <3>1 DEF Delivery!Next
    <2>4. CASE FlushDone(w)
      <3>1. Confirmed(w)
        BY <2>4 DEF FlushDone, Confirmed
      <3>2. \A r \in RecordsIn(buffer[w]) : commits[r] > 0
        BY <1>1, <3>1 DEF StoreInv
      <3>3. RecordsIn(buffer[w]) \cap acked = {}
        BY <2>0
      <3>4. acked' = acked \cup RecordsIn(buffer[w]) /\ UNCHANGED <<appended, commits, abandoned>>
        BY <2>4 DEF FlushDone
      <3>5. Delivery!Acknowledge(RecordsIn(buffer[w]))
        BY <3>2, <3>3, <3>4 DEF Delivery!Acknowledge
      <3> QED
        BY <2>0, <3>5 DEF Delivery!Next
    <2>5. CASE \/ AppendRefused(w) \/ AppendFails(w) \/ WriterReset(w) \/ Flush(w)
               \/ TakeSlotsStale(w) \/ ReloadSlotNum(w) \/ TakeNextSlot(w)
               \/ NewUploadConnection(w) \/ NewUploadConnectionFails(w) \/ FlushFailed(w)
               \/ RefreshSlotRouting(w) \/ UpdateSlotServer(w) \/ ServeReload(w)
               \/ FlushRejected(w)
      <3>1. UNCHANGED <<appended, commits, abandoned, acked>>
        BY <2>5 DEF AppendRefused, AppendFails, WriterReset, Flush, TakeSlotsStale,
             ReloadSlotNum, TakeNextSlot, NewUploadConnection, NewUploadConnectionFails,
             FlushFailed, RefreshSlotRouting, UpdateSlotServer, ServeReload, FlushRejected
      <3> QED
        BY <3>1 DEF Delivery!vars
    <2> QED
      BY <1>4, <2>1, <2>2, <2>3, <2>4, <2>5 DEF CallerStep, ClientStep, ServiceStep
  <1> QED
    BY <1>2, <1>3, <1>4 DEF Next

\* A session shared by any number of goroutines implements AtLeastOnce: Flush
\* acknowledges what the service has stored, and flushStream makes it store a
\* record again only after an answer to a request with that record was lost.
THEOREM SessionIsAtLeastOnce == Spec => DeliversAtLeastOnce
  <1>1. Init => Delivery!Init
    BY DEF Init, Delivery!Init
  <1>2. IInv /\ [Next]_vars => [Delivery!Next]_(Delivery!vars)
    <2>1. UNCHANGED vars => UNCHANGED Delivery!vars
      BY DEF vars, Delivery!vars
    <2> QED
      BY <2>1, DeliverySimulates
  <1> QED
    BY <1>1, <1>2, InductiveInvariant, PTL DEF Spec, DeliversAtLeastOnce, Delivery!Spec

\* A flush that returns without success leaves the pack as it was, for the retry.
THEOREM FailureKeepsThePack == Spec => FailedFlushKeepsPack
  <1> DEFINE Kept(w) == pc[w] # "idle" /\ pc'[w] = "idle" =>
        RecordsIn(buffer[w]) \subseteq acked' \/ (buffer'[w] = buffer[w] /\ flushing'[w])
  <1>1. IInv /\ [Next]_vars => [\A w \in Writers : Kept(w)]_vars
    <2> SUFFICES ASSUME IInv, Next, NEW w \in Writers, pc[w] # "idle", pc'[w] = "idle"
                 PROVE  RecordsIn(buffer[w]) \subseteq acked' \/ (buffer'[w] = buffer[w] /\ flushing'[w])
      OBVIOUS
    <2>0. TypeOK /\ flushing[w]
      BY DEF IInv, WriterInv, InFlush
    <2>1. CASE CreateStreamUploadSession \/ MoveSlots \/ \E m \in late : ServeLate(m)
      BY <2>1 DEF CreateStreamUploadSession, MoveSlots, ServeLate
    <2>2. ASSUME NEW v \in Writers, CallerStep(v) \/ Flush(v) \/ ClientStep(v) \/ ServiceStep(v)
          PROVE  RecordsIn(buffer[w]) \subseteq acked' \/ (buffer'[w] = buffer[w] /\ flushing'[w])
      <3>1. CASE FlushDone(v)
        <4>1. v = w
          BY <2>0, <3>1 DEF FlushDone, TypeOK
        <4> QED
          BY <3>1, <4>1 DEF FlushDone
      <3>2. CASE CallerStep(v) \/ Flush(v)
        BY <2>0, <3>2 DEF CallerStep, AppendRefused, AppendRecord, AppendFails, WriterReset,
                          Flush, TypeOK
      <3>3. CASE \/ TakeSlotsStale(v) \/ ReloadSlotNum(v) \/ TakeNextSlot(v)
                 \/ NewUploadConnection(v) \/ NewUploadConnectionFails(v) \/ FlushFailed(v)
                 \/ RefreshSlotRouting(v) \/ UpdateSlotServer(v) \/ ServiceStep(v)
        <4>1. UNCHANGED <<buffer, flushing>>
          BY <3>3 DEF TakeSlotsStale, ReloadSlotNum, TakeNextSlot, NewUploadConnection,
               NewUploadConnectionFails, FlushFailed, KeepPack, RefreshSlotRouting,
               UpdateSlotServer, ServiceStep, ServeReload, ServeFlush, ServeFlushGarbled,
               FlushRejected, AnswerLost
        <4> QED
          BY <2>0, <4>1
      <3> QED
        BY <2>2, <3>1, <3>2, <3>3 DEF ClientStep
    <2> QED
      BY <2>1, <2>2 DEF Next
  <1> QED
    BY <1>1, InductiveInvariant, PTL DEF Spec, FailedFlushKeepsPack
=============================================================================
