-------------------------- MODULE Resources_proofs --------------------------
(* Proofs about Catalog and Resources, for any number of goroutines, names, *)
(* pages, calls and faults, and any parser of type names.                   *)
EXTENDS Resources, FiniteSetTheorems, SequenceTheorems, WellFoundedInduction, TLAPS
-----------------------------------------------------------------------------
(* Where a goroutine is, and what the history records.                      *)
Places == {"idle", "get", "text", "parse", "array", "column", "page", "handout", "endpoint", "ask", "set", "build",
           "preview", "read", "part", "merge"}
Calls == {"none", "change", "load", "exists", "list", "preview", "upload"}
Objects == TableTypes \cup {None, Plain} \cup Seq(STRING)
Outcomes == {"none", "ok", "error", "true", "false"}

CallType ==
  /\ kind \in Kinds
  /\ pc \in [Procs -> Places] /\ op \in [Procs -> Calls] /\ out \in [Procs -> Outcomes]
  /\ calm \in [Procs -> BOOLEAN]
  /\ half \in [Procs -> {0, 1, 2}]

\* The call of a goroutine by the place it is at, and the objects it is about.
PlaceInv ==
  \A p \in Procs :
    /\ pc[p] = "get" \/ Decoding(p) => op[p] \in {"load", "exists", "preview"}
    /\ Decoding(p) => kind = "table"
    /\ half[p] # 0 => pc[p] \in {"text", "column", "set"}
    /\ pc[p] \in {"page", "handout"} => op[p] = "list"
    /\ pc[p] \in {"endpoint", "ask", "set", "build", "preview"} => op[p] = "preview"
    /\ pc[p] \in {"read", "part", "merge"} => op[p] = "upload"
    /\ op[p] = "exists" => kind # "partition"
    /\ op[p] = "upload" => kind = "resource"

LEMMA OneIsAName == 1 \in Names /\ Names \subseteq Nat
  BY CatalogAssumption DEF Names
\* What Exists answers for each outcome of Load.
LEMMA ExistsAnswers ==
  /\ \A r : ExistsAnswer(r) \in {"true", "false", "error"}
  /\ ExistsAnswer("ok") = "true"
  /\ ExistsAnswer("missing") # "true"
  /\ ExistsAnswer("refused") = "error"
  /\ kind \in {"table", "project"} => ExistsAnswer("broken") = "error"
  /\ ExistsAnswer("broken") # "false"
  BY DEF ExistsAnswer, TableExists, ProjectsExists, SchemaExists

LEMMA CallStep ==
  ASSUME CallType, PlaceInv, [Next]_vars
  PROVE  CallType' /\ PlaceInv'
  <1> USE DEF CallType, PlaceInv, Of, Places, Calls, Outcomes, Decoding
  <1>1. CASE UNCHANGED vars
    BY <1>1 DEF vars, catalogVars, serviceVars, boundVars
  <1>2. ASSUME NEW p \in Procs, NEW o \in {"load", "exists"}, StartLoad(p, o)
        PROVE  CallType' /\ PlaceInv'
    BY <1>2 DEF StartLoad, Call, serviceVars
  <1>0. \A x : ExistsAnswer(x) \in Outcomes
    BY ExistsAnswers
  <1>3. ASSUME NEW p \in Procs, op' = op, kind' = kind, calm' \in [Procs -> BOOLEAN],
               half' \in [Procs -> {0, 1, 2}], \A q \in Procs \ {p} : half'[q] = half[q],
               op[p] \in {"load", "exists", "preview"},
               NEW r, LoadEnds(p, r), half'[p] = 0
        PROVE  CallType' /\ PlaceInv'
    <2>1. \/ \E o \in Outcomes : Return(p, o)
          \/ op[p] = "preview" /\ pc' = Of(pc, p, "endpoint") /\ UNCHANGED out
      BY <1>0, <1>3 DEF LoadEnds
    <2> QED
      BY <1>3, <2>1 DEF Return
  <1>15. ASSUME NEW p \in Procs, op' = op, kind' = kind, calm' = calm,
                half' \in [Procs -> {0, 1, 2}], \A q \in Procs \ {p} : half'[q] = half[q],
                Decoding(p) \/ pc[p] = "get", out' = out,
                NEW at \in {"get", "text", "parse", "array", "column"}, pc' = Of(pc, p, at),
                at # "get" => kind = "table",
                half'[p] # 0 => at \in {"text", "column"}
         PROVE  CallType' /\ PlaceInv'
    BY <1>15
  <1>16. ASSUME NEW p \in Procs, Get(p) PROVE CallType' /\ PlaceInv'
    <2>1. pc[p] = "get" /\ op' = op /\ kind' = kind /\ half' = half /\ half[p] = 0
          /\ calm' \in [Procs -> BOOLEAN]
      BY <1>16 DEF Get, Fault, NoFault
    <2>2. \/ \E r : LoadEnds(p, r)
          \/ /\ kind = "table" /\ calm' = calm /\ out' = out
             /\ \E at \in {"text", "parse"} : pc' = Of(pc, p, at)
      BY <1>16 DEF Get, NoFault
    <2> QED
      BY <1>3, <1>15, <2>1, <2>2
  <1>17. ASSUME NEW p \in Procs, StoreText(p) PROVE CallType' /\ PlaceInv'
    <2>1. /\ pc[p] = "text" /\ op' = op /\ kind' = kind /\ calm' = calm /\ out' = out
          /\ \E w \in Left(p) : Halfway(p, w)
          /\ pc' = IF half[p] = 0 THEN pc ELSE Of(pc, p, "parse")
      BY <1>17 DEF StoreText, Decodes, NoFault
    <2>2. /\ half' \in [Procs -> {0, 1, 2}] /\ \A q \in Procs \ {p} : half'[q] = half[q]
          /\ half[p] # 0 => half'[p] = 0
      BY <2>1 DEF Left, Halfway
    <2>3. \E at \in {"text", "parse"} : pc' = Of(pc, p, at) /\ (at = "parse" => half[p] # 0)
      BY <2>1
    <2> QED
      BY <1>15, <2>1, <2>2, <2>3
  <1>18. ASSUME NEW p \in Procs, ParseText(p) PROVE CallType' /\ PlaceInv'
    <2>1. /\ pc[p] = "parse" /\ op' = op /\ kind' = kind /\ calm' = calm /\ half' = half
          /\ half[p] = 0
      BY <1>18 DEF ParseText, Decodes, NoFault
    <2>2. \/ LoadEnds(p, "broken")
          \/ out' = out /\ \E at \in {"array", "column"} : pc' = Of(pc, p, at)
      BY <1>18 DEF ParseText
    <2> QED
      BY <1>3, <1>15, <2>1, <2>2
  <1>19. ASSUME NEW p \in Procs, MakeArray(p) PROVE CallType' /\ PlaceInv'
    <2>1. /\ pc[p] = "array" /\ op' = op /\ kind' = kind /\ calm' = calm /\ half' = half
          /\ out' = out /\ pc' = Of(pc, p, "column")
      BY <1>19 DEF MakeArray, Decodes, NoFault
    <2> QED
      BY <1>15, <2>1
  <1>20. ASSUME NEW p \in Procs, StoreColumn(p) PROVE CallType' /\ PlaceInv'
    <2>1. /\ pc[p] = "column" /\ op' = op /\ kind' = kind /\ calm' = calm
          /\ \E w \in Left(p) : Halfway(p, w)
          /\ \/ half[p] = 0 /\ pc' = pc /\ out' = out
             \/ half[p] # 0 /\ LoadEnds(p, "ok")
             \/ half[p] # 0 /\ pc' = Of(pc, p, "get") /\ out' = out
      BY <1>20 DEF StoreColumn, Decodes, NoFault
    <2>2. /\ half' \in [Procs -> {0, 1, 2}] /\ \A q \in Procs \ {p} : half'[q] = half[q]
          /\ half[p] # 0 => half'[p] = 0
      BY <2>1 DEF Left, Halfway
    <2>3. CASE half[p] = 0 /\ pc' = pc /\ out' = out
      <3>1. pc' = Of(pc, p, "column")
        BY <2>1, <2>3
      <3> QED
        BY <1>15, <2>1, <2>2, <2>3, <3>1
    <2> QED
      BY <1>3, <1>15, <2>1, <2>2, <2>3
  <1>21. ASSUME NEW p \in Procs, NoColumn(p) PROVE CallType' /\ PlaceInv'
    <2>1. /\ pc[p] = "column" /\ op' = op /\ kind' = kind /\ calm' = calm /\ half' = half
          /\ half[p] = 0 /\ LoadEnds(p, "broken")
      BY <1>21 DEF NoColumn, Decodes, NoFault
    <2> QED
      BY <1>3, <2>1
  <1>4. ASSUME NEW p \in Procs, NEW n \in Names,
               Create(p, n) \/ Delete(p, n) \/ AlterColumnType(p)
        PROVE  CallType' /\ PlaceInv'
    <2>1. Changes(p) /\ \E o \in {"ok", "error"} : out' = Of(out, p, o)
      BY <1>4 DEF Create, Delete, AlterColumnType, Change, Refused
    <2>2. calm' \in [Procs -> BOOLEAN]
      BY <1>4 DEF Create, Delete, AlterColumnType, Change, Refused, Fault, NoFault
    <2>3. /\ pc[p] = "idle" /\ pc' = pc /\ kind' = kind /\ half' = half
          /\ op' = Of(op, p, "change")
      BY <2>1 DEF Changes
    <2> QED
      BY <2>1, <2>2, <2>3
  <1>5. ASSUME NEW p \in Procs, List(p) PROVE CallType' /\ PlaceInv'
    BY <1>5 DEF List, Call, serviceVars
  <1>6. ASSUME NEW p \in Procs, GetPage(p) PROVE CallType' /\ PlaceInv'
    <2>1. /\ pc[p] = "page" /\ op' = op /\ kind' = kind /\ calm' \in [Procs -> BOOLEAN]
          /\ half' = half
      BY <1>6 DEF GetPage, Fault, NoFault
    <2>2. Return(p, "error") \/ (pc' = Of(pc, p, "handout") /\ UNCHANGED out)
      BY <1>6 DEF GetPage
    <2> QED
      BY <2>1, <2>2 DEF Return
  <1>7. ASSUME NEW p \in Procs, HandOut(p) PROVE CallType' /\ PlaceInv'
    BY <1>7 DEF HandOut, Return, boundVars
  <1>8. ASSUME NEW p \in Procs, Preview(p) PROVE CallType' /\ PlaceInv'
    <2>1. PICK at \in {"endpoint", "get"} : Call(p, "preview", at)
      BY <1>8 DEF Preview
    <2>2. kind' = kind /\ half' = half /\ calm' \in [Procs -> BOOLEAN]
      BY <1>8, <2>1 DEF Preview, Call, serviceVars
    <2> QED
      BY <2>1, <2>2 DEF Call
  <1>9. ASSUME NEW p \in Procs,
               CheckEndpoint(p) \/ GetTunnelEndpoint(p) \/ SetEndpoint(p) \/ NewRestClient(p)
        PROVE  CallType' /\ PlaceInv'
    <2>1. /\ pc[p] \in {"endpoint", "ask", "set", "build"}
          /\ op' = op /\ kind' = kind /\ calm' \in [Procs -> BOOLEAN]
      BY <1>9 DEF CheckEndpoint, GetTunnelEndpoint, SetEndpoint, NewRestClient, Fault, NoFault,
                  boundVars
    <2>2. \/ half' = half
          \/ pc[p] = "set" /\ \E w \in Left(p) : Halfway(p, w)
      BY <1>9 DEF CheckEndpoint, GetTunnelEndpoint, SetEndpoint, NewRestClient
    <2>3. /\ half' \in [Procs -> {0, 1, 2}] /\ \A q \in Procs \ {p} : half'[q] = half[q]
          /\ half[p] # 0 => half'[p] = 0
      <3>1. half' = half => half[p] = 0 \/ pc[p] = "set"
        BY <2>1
      <3>2. CASE \E w \in Left(p) : Halfway(p, w)
        BY <3>2 DEF Left, Halfway
      <3>3. CASE half' = half /\ pc[p] # "set"
        BY <2>1, <3>3
      <3>4. CASE half' = half /\ pc[p] = "set"
        BY <1>9, <3>2, <3>4 DEF CheckEndpoint, GetTunnelEndpoint, SetEndpoint, NewRestClient
      <3> QED
        BY <2>2, <3>2, <3>3, <3>4
    <2>4. \/ Return(p, "error") /\ half' = half /\ half[p] = 0
          \/ UNCHANGED out /\ \E at \in {"ask", "set", "build", "preview"} :
                                 pc' = Of(pc, p, at) /\ (half'[p] # 0 => at = "set")
      <3>1. CASE CheckEndpoint(p) \/ GetTunnelEndpoint(p) \/ NewRestClient(p)
        BY <2>1, <3>1 DEF CheckEndpoint, GetTunnelEndpoint, NewRestClient
      <3>2. CASE SetEndpoint(p) /\ half[p] = 0
        BY <3>2 DEF SetEndpoint
      <3>3. CASE SetEndpoint(p) /\ half[p] # 0
        BY <2>3, <3>3 DEF SetEndpoint
      <3> QED
        BY <1>9, <3>1, <3>2, <3>3
    <2> QED
      BY <2>1, <2>3, <2>4 DEF Return
  <1>10. ASSUME NEW p \in Procs, ReadPreview(p) PROVE CallType' /\ PlaceInv'
    <2>1. /\ pc[p] = "preview" /\ op' = op /\ kind' = kind /\ calm' \in [Procs -> BOOLEAN]
          /\ half' = half
      BY <1>10 DEF ReadPreview, Fault, NoFault
    <2>2. \E o \in {"ok", "error"} : Return(p, o)
      BY <1>10 DEF ReadPreview
    <2> QED
      BY <2>1, <2>2 DEF Return
  <1>11. ASSUME NEW p \in Procs, CreateFileResource(p) PROVE CallType' /\ PlaceInv'
    BY <1>11 DEF CreateFileResource, Call, serviceVars
  <1>12. ASSUME NEW p \in Procs, ReadChunk(p) \/ ReadEnds(p) \/ ReadFails(p)
         PROVE  CallType' /\ PlaceInv'
    <2>1. /\ pc[p] = "read" /\ op' = op /\ kind' = kind /\ calm' \in [Procs -> BOOLEAN]
          /\ half' = half
      BY <1>12 DEF ReadChunk, ReadEnds, ReadFails, Quiet, Fault, NoFault
    <2>2. \/ Return(p, "error")
          \/ UNCHANGED out /\ \E at \in {"part", "merge"} : pc' = Of(pc, p, at)
      BY <1>12 DEF ReadChunk, ReadEnds, ReadFails, AfterReadError
    <2> QED
      BY <2>1, <2>2 DEF Return
  <1>13. ASSUME NEW p \in Procs, CreateTempPartFile(p) PROVE CallType' /\ PlaceInv'
    <2>1. /\ pc[p] = "part" /\ op' = op /\ kind' = kind /\ calm' \in [Procs -> BOOLEAN]
          /\ half' = half
      BY <1>13 DEF CreateTempPartFile, Quiet, Fault, NoFault
    <2>2. Return(p, "error") \/ (pc' = Of(pc, p, "read") /\ UNCHANGED out)
      BY <1>13 DEF CreateTempPartFile
    <2> QED
      BY <2>1, <2>2 DEF Return
  <1>14. ASSUME NEW p \in Procs, MergeTempPartFile(p) PROVE CallType' /\ PlaceInv'
    <2>1. /\ pc[p] = "merge" /\ op' = op /\ kind' = kind /\ calm' \in [Procs -> BOOLEAN]
          /\ half' = half
      BY <1>14 DEF MergeTempPartFile, Quiet, Fault, NoFault
    <2>2. \E o \in {"ok", "error"} : Return(p, o)
      BY <1>14 DEF MergeTempPartFile
    <2> QED
      BY <2>1, <2>2 DEF Return
  <1> QED
    BY <1>1, <1>2, <1>4, <1>5, <1>6, <1>7, <1>8, <1>9, <1>10, <1>11, <1>12, <1>13, <1>14, <1>16,
       <1>17, <1>18, <1>19, <1>20, <1>21, OneIsAName
    DEF Next, CatalogStep, Loading, UploadStep

-----------------------------------------------------------------------------
(* The upload of a file.                                                    *)

\* The content of p's file, or all of it but what came with io.EOF.
WholeFile(p, v) == v = Content[p] \/ (eager[p] /\ v = SubSeq(Content[p], 1, Len(Content[p]) - 1))

\* What was hashed and what is still to be read are the file; when the reading has ended
\* the hash is of a whole content.
UploadInv ==
  /\ unread \in [Procs -> Seq(STRING)] /\ hash \in [Procs -> Seq(STRING)]
  /\ \A p \in Procs :
       /\ pc[p] \in {"read", "part"} => hash[p] \o unread[p] = Content[p]
       /\ pc[p] = "merge" => WholeFile(p, hash[p])

\* Only the first two steps of an upload and the end of its reading change what it has
\* read; no other step brings a goroutine to read, and none but the part's answer back to it.
LEMMA UploadFrame ==
  ASSUME Next
  PROVE  \/ \E p \in Procs : CreateFileResource(p) \/ ReadChunk(p) \/ ReadEnds(p)
         \/ /\ UNCHANGED <<unread, eager, hash>>
            /\ \E p \in Procs : \/ pc[p] = "part" /\ pc' = Of(pc, p, "read")
                                \/ \E at \in Places \ {"read", "part", "merge"} : pc' = Of(pc, p, at)
                                \/ pc' = pc
  <1> USE DEF Places
  <1>1. ASSUME NEW p \in Procs, CatalogStep(p)
        PROVE  \/ \E at \in Places \ {"read", "part", "merge"} : pc' = Of(pc, p, at)
               \/ pc' = pc
    <2>1. CASE Loading(p)
      BY <2>1 DEF Loading, Get, StoreText, ParseText, MakeArray, StoreColumn, NoColumn, LoadEnds,
                  Return
    <2>2. CASE ~Loading(p)
      BY <1>1, <2>2 DEF CatalogStep, StartLoad, Create, Delete, AlterColumnType, Change, Changes,
             Refused, List, GetPage, HandOut, Preview, CheckEndpoint, GetTunnelEndpoint,
             SetEndpoint, NewRestClient, ReadPreview, Call, Return
    <2> QED
      BY <2>1, <2>2
  <1>2. ASSUME NEW p \in Procs, ReadFails(p) \/ CreateTempPartFile(p) \/ MergeTempPartFile(p)
        PROVE  /\ UNCHANGED <<unread, eager, hash>>
               /\ (pc[p] = "part" /\ pc' = Of(pc, p, "read")) \/ pc' = Of(pc, p, "idle")
    BY <1>2 DEF ReadFails, CreateTempPartFile, MergeTempPartFile, AfterReadError, Return, uploadVars
  <1> QED
    BY <1>1, <1>2 DEF Next, UploadStep, uploadVars

\* A chunk that moves from what is unread to what is hashed leaves the file as it is.
LEMMA ChunkMoves ==
  ASSUME NEW S, NEW h \in Seq(S), NEW u \in Seq(S)
  PROVE  /\ h \o <<>> = h
         /\ u # <<>> => /\ Append(h, Head(u)) \in Seq(S) /\ Tail(u) \in Seq(S)
                        /\ Append(h, Head(u)) \o Tail(u) = h \o u
  <1>1. h \o <<>> = h
    BY ConcatEmptySeq
  <1>2. ASSUME u # <<>>
        PROVE  /\ Append(h, Head(u)) \in Seq(S) /\ Tail(u) \in Seq(S)
               /\ Append(h, Head(u)) \o Tail(u) = h \o u
    <2>1. Head(u) \in S /\ Tail(u) \in Seq(S) /\ u = <<Head(u)>> \o Tail(u)
      BY <1>2
    <2>2. Append(h, Head(u)) = h \o <<Head(u)>> /\ <<Head(u)>> \in Seq(S)
      BY <2>1, AppendIsConcat
    <2> QED
      BY <2>1, <2>2, ConcatAssociative
  <1> QED
    BY <1>1, <1>2

\* What was hashed when one chunk is left is all but that chunk.
LEMMA LastChunkLeft ==
  ASSUME NEW S, NEW h \in Seq(S), NEW u \in Seq(S), NEW c, c = h \o u, Len(u) = 1
  PROVE  h = SubSeq(c, 1, Len(c) - 1)
  <1>1. Len(h \o u) = Len(h) + Len(u)
    BY ConcatProperties
  <1>2. SubSeq(h \o u, 1, Len(h)) = h
    OBVIOUS
  <1> QED
    BY <1>1, <1>2

LEMMA UploadInvStep ==
  ASSUME CallType, UploadInv, [Next]_vars
  PROVE  UploadInv'
  <1> USE DEF UploadInv, WholeFile, CallType, Of
  <1>1. CASE UNCHANGED vars
    BY <1>1 DEF vars, catalogVars, uploadVars
  <1>2. ASSUME NEW p \in Procs, CreateFileResource(p) PROVE UploadInv'
    BY <1>2, ContentAssumption DEF CreateFileResource, Call
  <1>3. ASSUME NEW p \in Procs, ReadChunk(p) PROVE UploadInv'
    <2>1. /\ pc[p] = "read" /\ unread[p] # <<>> /\ pc' = [pc EXCEPT ![p] = "part"]
          /\ hash' = [hash EXCEPT ![p] = Append(hash[p], Head(unread[p]))]
          /\ unread' = [unread EXCEPT ![p] = Tail(unread[p])] /\ eager' = eager
      BY <1>3 DEF ReadChunk
    <2>2. /\ Append(hash[p], Head(unread[p])) \in Seq(STRING) /\ Tail(unread[p]) \in Seq(STRING)
          /\ Append(hash[p], Head(unread[p])) \o Tail(unread[p]) = hash[p] \o unread[p]
      BY <2>1, ChunkMoves
    <2> QED
      BY <2>1, <2>2
  <1>4. ASSUME NEW p \in Procs, ReadEnds(p) PROVE UploadInv'
    <2>1. /\ pc[p] = "read" /\ (unread[p] = <<>> \/ (eager[p] /\ Len(unread[p]) = 1))
          /\ pc' = [pc EXCEPT ![p] = "merge"] /\ unread' = [unread EXCEPT ![p] = <<>>]
          /\ hash' = hash /\ eager' = eager
      BY <1>4 DEF ReadEnds
    <2>2. hash[p] \o unread[p] = Content[p] /\ hash[p] \in Seq(STRING) /\ unread[p] \in Seq(STRING)
      BY <2>1
    <2>3. CASE unread[p] = <<>>
      <3>1. hash[p] = Content[p]
        BY <2>2, <2>3, ChunkMoves
      <3> QED
        BY <2>1, <3>1
    <2>4. CASE eager[p] /\ Len(unread[p]) = 1
      <3>1. hash[p] = SubSeq(Content[p], 1, Len(Content[p]) - 1)
        <4>1. Len(unread[p]) = 1
          BY <2>4
        <4> HIDE DEF UploadInv, WholeFile
        <4> QED
          BY <2>2, <4>1, LastChunkLeft
      <3> QED
        BY <2>1, <2>4, <3>1
    <2> QED
      BY <2>1, <2>3, <2>4
  <1>5. ASSUME UNCHANGED <<unread, eager, hash>>,
               NEW p \in Procs, \/ pc[p] = "part" /\ pc' = Of(pc, p, "read")
                                \/ \E at \in Places \ {"read", "part", "merge"} : pc' = Of(pc, p, at)
                                \/ pc' = pc
        PROVE  UploadInv'
    <2>1. CASE pc[p] = "part" /\ pc' = Of(pc, p, "read")
      BY <1>5, <2>1
    <2>2. ASSUME NEW at \in Places \ {"read", "part", "merge"}, pc' = Of(pc, p, at)
          PROVE  UploadInv'
      <3>1. at \notin {"read", "part", "merge"}
        BY <2>2
      <3> QED
        BY <1>5, <2>2, <3>1
    <2>3. CASE pc' = pc
      BY <1>5, <2>3
    <2> QED
      BY <1>5, <2>1, <2>2, <2>3
  <1> QED
    BY <1>1, <1>2, <1>3, <1>4, <1>5, UploadFrame

-----------------------------------------------------------------------------
(* The objects, and the history of a call.                                  *)

\* What the objects can be, and that object 1 is in its own history.
ObjectInv ==
  /\ objs \in [Names -> Objects]
  /\ objs[1] \in had
  /\ kind = "table" => objs[1] \in TableTypes \cup {None}

\* What was there throughout a call is there; what is there was there at some time of it.
HistoryInv ==
  /\ always \in [Procs -> SUBSET Names] /\ ever \in [Procs -> SUBSET Names]
  /\ \A p \in Procs :
       /\ always[p] \subseteq Existing
       /\ op[p] \notin {"none", "change"} => Existing \subseteq ever[p]

\* What a step may put in the place of object n.
MayPut(n, v) ==
  \/ v = None
  \/ v \in Values(n)
  \/ kind = "resource" /\ n = 1 /\ \E p \in Procs : pc[p] = "merge" /\ v = hash[p]

\* A step changes an object, or starts a call, or does neither; only a step that starts a
\* call gives a goroutine a call other than "change".
LEMMA ObjectFrame ==
  ASSUME CallType, PlaceInv, Next
  PROVE  /\ kind' = kind
         /\ \/ /\ \/ \E n \in Names : \E v : Put(n, v) /\ MayPut(n, v)
                  \/ NoPut
               /\ \E p \in Procs : op' = op \/ op' = Of(op, p, "change")
            \/ /\ UNCHANGED <<objs, had>>
               /\ \E p \in Procs, o \in Calls, at \in Places : Call(p, o, at)
  <1> DEFINE Frame(p) ==
        /\ kind' = kind
        /\ \/ /\ \/ \E n \in Names : \E v : Put(n, v) /\ MayPut(n, v)
                 \/ NoPut
              /\ op' = op \/ op' = Of(op, p, "change")
           \/ /\ UNCHANGED <<objs, had>>
              /\ \E o \in Calls, at \in Places : Call(p, o, at)
  <1>1. ASSUME NEW p \in Procs, (\E o \in {"load", "exists"} : StartLoad(p, o)) \/ List(p)
                                 \/ CreateFileResource(p)
        PROVE  Frame(p)
    BY <1>1 DEF StartLoad, List, CreateFileResource, serviceVars, Calls, Places
  <1>2. ASSUME NEW p \in Procs, Preview(p) PROVE Frame(p)
    BY <1>2 DEF Preview, serviceVars, Calls, Places
  <1>3. ASSUME NEW p \in Procs, NEW n \in Names,
               Create(p, n) \/ Delete(p, n) \/ (n = 1 /\ AlterColumnType(p))
        PROVE  Frame(p)
    <2>1. kind' = kind /\ op' = Of(op, p, "change")
      BY <1>3 DEF Create, Delete, AlterColumnType, Change, Changes, Refused
    <2>2. ASSUME NEW v, Change(p, n, v) PROVE Put(n, v) \/ NoPut
      BY <2>2 DEF Change
    <2>3. ASSUME NEW v \in Values(n) PROVE MayPut(n, v)
      BY <2>3 DEF MayPut
    <2>4. MayPut(n, None)
      BY DEF MayPut
    <2>5. \/ \E v \in Values(n) : Change(p, n, v)
          \/ Change(p, n, None)
          \/ NoPut
      BY <1>3 DEF Create, Delete, AlterColumnType, Values, Refused
    <2> QED
      BY <2>1, <2>2, <2>3, <2>4, <2>5
  <1>4. ASSUME NEW p \in Procs, MergeTempPartFile(p) PROVE Frame(p)
    <2>1. kind' = kind /\ op' = op /\ pc[p] = "merge"
      BY <1>4 DEF MergeTempPartFile, Quiet
    <2>2. Put(1, hash[p]) \/ NoPut
      BY <1>4 DEF MergeTempPartFile
    <2>3. MayPut(1, hash[p])
      BY <2>1 DEF MayPut, PlaceInv
    <2> QED
      BY <2>1, <2>2, <2>3, OneIsAName
  <1>5. ASSUME NEW p \in Procs, ReadChunk(p) \/ ReadEnds(p) \/ ReadFails(p) \/ CreateTempPartFile(p)
        PROVE  Frame(p)
    BY <1>5 DEF ReadChunk, ReadEnds, ReadFails, CreateTempPartFile, Quiet
  <1>6. ASSUME NEW p \in Procs,
               \/ Loading(p) \/ GetPage(p) \/ HandOut(p) \/ CheckEndpoint(p)
               \/ GetTunnelEndpoint(p) \/ SetEndpoint(p) \/ NewRestClient(p) \/ ReadPreview(p)
        PROVE  Frame(p)
    BY <1>6 DEF Loading, Get, StoreText, ParseText, MakeArray, StoreColumn, NoColumn, Decodes,
                GetPage, HandOut, CheckEndpoint, GetTunnelEndpoint, SetEndpoint, NewRestClient,
                ReadPreview
  <1>7. \E p \in Procs : Frame(p)
    BY <1>1, <1>2, <1>3, <1>4, <1>5, <1>6, OneIsAName DEF Next, CatalogStep, UploadStep
  <1> QED
    BY <1>7

LEMMA ObjectStep ==
  ASSUME CallType, PlaceInv, UploadInv, ObjectInv, [Next]_vars
  PROVE  ObjectInv'
  <1>1. CASE UNCHANGED <<kind, objs, had>>
    BY <1>1 DEF ObjectInv
  <1>2. ASSUME NEW n \in Names, NEW v, Put(n, v), MayPut(n, v), kind' = kind
        PROVE  ObjectInv'
    <2>1. v \in Objects
      BY <1>2, CatalogAssumption DEF MayPut, Objects, Values, UploadInv
    <2>2. kind = "table" /\ n = 1 => v \in TableTypes \cup {None}
      BY <1>2, CatalogAssumption DEF MayPut, Values
    <2>3. /\ objs' = [objs EXCEPT ![n] = v]
          /\ had' = IF n = 1 THEN had \cup {v} ELSE had
      BY <1>2 DEF Put
    <2> QED
      BY <1>2, <2>1, <2>2, <2>3, OneIsAName DEF ObjectInv
  <1> QED
    BY <1>1, <1>2, ObjectFrame DEF vars, catalogVars, serviceVars, NoPut

LEMMA HistoryStep ==
  ASSUME CallType, PlaceInv, ObjectInv, HistoryInv, [Next]_vars
  PROVE  HistoryInv'
  <1> USE DEF HistoryInv, ObjectInv, Existing, CallType, Of
  <1>1. CASE UNCHANGED <<objs, always, ever, op>>
    BY <1>1
  <1>2. ASSUME UNCHANGED <<objs, always, ever>>, NEW p \in Procs, op' = Of(op, p, "change")
        PROVE  HistoryInv'
    BY <1>2
  <1>3. ASSUME NEW n \in Names, NEW v, Put(n, v),
               NEW p \in Procs, op' = op \/ op' = Of(op, p, "change")
        PROVE  HistoryInv'
    BY <1>3 DEF Put
  <1>4. ASSUME NEW p \in Procs, NEW o \in Calls, NEW at \in Places, Call(p, o, at), objs' = objs
        PROVE  HistoryInv'
    BY <1>4 DEF Call
  <1> QED
    BY <1>1, <1>2, <1>3, <1>4, ObjectFrame DEF vars, catalogVars, serviceVars, NoPut

\* The parts of the inductive invariant that every call needs.
CallInv == CallType /\ PlaceInv /\ UploadInv /\ ObjectInv /\ HistoryInv

LEMMA CallInvHolds == Spec => []CallInv
  <1>1. Init => CallInv
    <2> SUFFICES ASSUME Init PROVE CallInv
      OBVIOUS
    <2>1. CallType /\ PlaceInv
      BY DEF Init, CatalogInit, CallType, PlaceInv, Decoding, Places, Calls, Outcomes
    <2>2. UploadInv
      BY DEF Init, CatalogInit, UploadInv
    <2>3. ObjectInv
      BY OneIsAName DEF Init, CatalogInit, ObjectInv, Objects
    <2>4. HistoryInv
      BY DEF Init, CatalogInit, HistoryInv
    <2> QED
      BY <2>1, <2>2, <2>3, <2>4 DEF CallInv
  <1>2. CallInv /\ [Next]_vars => CallInv'
    BY CallStep, UploadInvStep, ObjectStep, HistoryStep DEF CallInv
  <1> QED
    BY <1>1, <1>2, PTL DEF Spec

\* In the history of a call, objects only drop out of those there throughout and only
\* join those that were there, unless the call has just begun.
LEMMA HistoryGrows ==
  ASSUME CallInv, Next, NEW q \in Procs, out'[q] # "none" \/ pc[q] # "idle"
  PROVE  always'[q] \subseteq always[q] /\ ever[q] \subseteq ever'[q]
  <1>1. ASSUME NEW n \in Names, NEW v, Put(n, v)
        PROVE  always'[q] \subseteq always[q] /\ ever[q] \subseteq ever'[q]
    BY <1>1 DEF Put, CallInv, HistoryInv
  <1>2. ASSUME NEW p \in Procs, NEW o, NEW at, Call(p, o, at)
        PROVE  always'[q] \subseteq always[q] /\ ever[q] \subseteq ever'[q]
    <2>1. CASE q = p
      BY <1>2, <2>1 DEF Call, Of, CallInv, CallType
    <2>2. CASE q # p
      BY <1>2, <2>2 DEF Call, Of, CallInv, HistoryInv
    <2> QED
      BY <2>1, <2>2
  <1> QED
    BY <1>1, <1>2, ObjectFrame DEF CallInv, NoPut

\* What a step of Load does to its goroutine: nothing yet, or the result of a Load whose
\* outcome r is what the service had.
BadText(p) ==
  /\ pc[p] = "parse"
  /\ LET x == IF extended[p] THEN Words(ans[p]) ELSE text
     IN  ~Whole(x) \/ Decoded(x[1]).what # "type"

LoadResult(p, r) ==
  /\ out' = Of(out, p, IF op[p] = "exists" THEN ExistsAnswer(r) ELSE IF r = "ok" THEN "ok" ELSE "error")
  /\ r = "ok" => Decoding(p) \/ (objs[1] # None /\ kind # "table")
  /\ r = "missing" => objs[1] = None
  /\ r = "refused" => ~calm'[p]
  /\ r = "broken" => ~calm'[p] \/ BadText(p) \/ (pc[p] = "column" /\ stale[p])

LEMMA LoadResults ==
  ASSUME CallType, NEW p \in Procs, Loading(p)
  PROVE  /\ UNCHANGED <<kind, op, objs, always, ever, had>>
         /\ \A q \in Procs \ {p} : calm'[q] = calm[q]
         /\ calm'[p] => calm[p]
         /\ crossed => crossed'
         /\ out' = out \/ \E r \in {"ok", "missing", "refused", "broken"} : LoadResult(p, r)
  <1>1. UNCHANGED <<kind, op, objs, always, ever, had>>
    BY DEF Loading, Get, StoreText, ParseText, MakeArray, StoreColumn, NoColumn, Decodes, NoPut
  <1>2. (\A q \in Procs \ {p} : calm'[q] = calm[q]) /\ (calm'[p] => calm[p])
    BY DEF Loading, Get, StoreText, ParseText, MakeArray, StoreColumn, NoColumn, Decodes, Fault,
           NoFault, Of, CallType
  <1>3. crossed => crossed'
    BY DEF Loading, Get, StoreText, ParseText, MakeArray, StoreColumn, NoColumn, Decodes
  <1>4. ASSUME NEW r, LoadEnds(p, r)
        PROVE  \/ out' = out
               \/ out' = Of(out, p, IF op[p] = "exists" THEN ExistsAnswer(r)
                                    ELSE IF r = "ok" THEN "ok" ELSE "error")
    BY <1>4 DEF LoadEnds, Return
  <1>5. ASSUME Get(p)
        PROVE  out' = out \/ \E r \in {"ok", "missing", "refused", "broken"} : LoadResult(p, r)
    <2>1. Fault(p) => ~calm'[p]
      BY DEF Fault, Of, CallType
    <2>2. \/ \E r \in {"broken", "refused"} : Fault(p) /\ LoadEnds(p, r)
          \/ objs[1] = None /\ LoadEnds(p, "missing")
          \/ objs[1] # None /\ kind # "table" /\ LoadEnds(p, "ok")
          \/ out' = out
      BY <1>5 DEF Get
    <2> QED
      BY <2>1, <2>2, <1>4 DEF LoadResult
  <1>6. ASSUME StoreText(p) \/ MakeArray(p) PROVE out' = out
    BY <1>6 DEF StoreText, MakeArray
  <1>7. ASSUME ParseText(p) PROVE out' = out \/ LoadResult(p, "broken")
    <2>1. pc[p] = "parse" /\ (out' = out \/ (BadText(p) /\ LoadEnds(p, "broken")))
      BY <1>7 DEF ParseText, BadText
    <2> QED
      BY <1>4, <2>1 DEF LoadResult
  <1>8. ASSUME StoreColumn(p) PROVE out' = out \/ LoadResult(p, "ok")
    <2>1. Decoding(p) /\ (out' = out \/ LoadEnds(p, "ok"))
      BY <1>8 DEF StoreColumn, Decoding
    <2> QED
      BY <1>4, <2>1 DEF LoadResult
  <1>9. ASSUME NoColumn(p) PROVE out' = out \/ LoadResult(p, "broken")
    <2>1. pc[p] = "column" /\ stale[p] /\ LoadEnds(p, "broken")
      BY <1>9 DEF NoColumn
    <2> QED
      BY <1>4, <2>1 DEF LoadResult
  <1> QED
    BY <1>1, <1>2, <1>3, <1>5, <1>6, <1>7, <1>8, <1>9 DEF Loading

\* The end of a Load or an Exists is a step of Load: a step after which a goroutine is in
\* such a call either is one of its steps, or starts the call, or is another's.
LEMMA LoadFrame ==
  ASSUME CallInv, Next
  PROVE  \E p \in Procs :
           /\ \A q \in Procs \ {p} : /\ pc'[q] = pc[q] /\ half'[q] = half[q]
                                     /\ op'[q] = op[q] /\ out'[q] = out[q] /\ calm'[q] = calm[q]
           /\ \/ Loading(p)
              \/ /\ UNCHANGED loadVars /\ ~Decoding(p) /\ ~Decoding(p)'
                 /\ op'[p] \in {"load", "exists"} => out'[p] = "none"
  <1> DEFINE Others(p) ==
        \A q \in Procs \ {p} : /\ pc'[q] = pc[q] /\ half'[q] = half[q]
                               /\ op'[q] = op[q] /\ out'[q] = out[q] /\ calm'[q] = calm[q]
             Frame(p) ==
        /\ Others(p)
        /\ \/ Loading(p)
           \/ /\ UNCHANGED loadVars /\ ~Decoding(p) /\ ~Decoding(p)'
              /\ op'[p] \in {"load", "exists"} => out'[p] = "none"
  <1> USE DEF Of, CallType
  <1>0. CallType /\ PlaceInv
    BY DEF CallInv
  <1>1. ASSUME NEW p \in Procs, NEW o, NEW at \in {"get", "page", "endpoint", "read"},
               Call(p, o, at), UNCHANGED loadVars, half' = half
        PROVE  Frame(p)
    BY <1>0, <1>1 DEF Call, Decoding
  <1>2. ASSUME NEW p \in Procs, Loading(p) PROVE Frame(p)
    <2>1. op' = op /\ (half' = half \/ \E w : Halfway(p, w))
          /\ \A q \in Procs \ {p} : calm'[q] = calm[q]
      BY <1>0, <1>2, LoadResults DEF Loading, Get, StoreText, ParseText, MakeArray, StoreColumn,
         NoColumn, Decodes
    <2>2. \/ \E r : LoadEnds(p, r)
          \/ out' = out /\ (pc' = pc \/ \E at : pc' = Of(pc, p, at))
      BY <1>2 DEF Loading, Get, StoreText, ParseText, MakeArray, StoreColumn, NoColumn
    <2>3. /\ pc' = pc \/ \E at : pc' = Of(pc, p, at)
          /\ out' = out \/ \E o : out' = Of(out, p, o)
      BY <2>2 DEF LoadEnds, Return
    <2>4. Others(p)
      BY <1>0, <2>1, <2>3 DEF Halfway
    <2> QED
      BY <1>2, <2>4
  <1>3. ASSUME NEW p \in Procs, NEW n \in Names,
               Create(p, n) \/ Delete(p, n) \/ AlterColumnType(p)
        PROVE  Frame(p)
    <2>1. /\ op' = Of(op, p, "change") /\ UNCHANGED loadVars /\ half' = half
          /\ pc' = pc /\ pc[p] = "idle"
      BY <1>3 DEF Create, Delete, AlterColumnType, Change, Changes, Refused, handleVars
    <2>2. \E o : out' = Of(out, p, o)
      BY <1>3 DEF Create, Delete, AlterColumnType, Change, Refused
    <2>3. calm' = calm \/ calm' = Of(calm, p, FALSE)
      BY <1>3 DEF Create, Delete, AlterColumnType, Change, Refused, Fault, NoFault
    <2> QED
      BY <1>0, <2>1, <2>2, <2>3 DEF Decoding
  <1>4. ASSUME NEW p \in Procs, op' = op, UNCHANGED loadVars,
               op[p] \in {"list", "preview", "upload"}, ~Decoding(p),
               half' = half \/ \E w : Halfway(p, w),
               pc' = pc \/ \E at \in Places : pc' = Of(pc, p, at) /\ at \notin {"text", "parse", "array", "column"},
               out' = out \/ \E o : out' = Of(out, p, o),
               calm' = calm \/ calm' = Of(calm, p, FALSE)
        PROVE  Frame(p)
    <2>1. ~Decoding(p)'
      BY <1>0, <1>4 DEF Decoding
    <2>2. Others(p)
      BY <1>0, <1>4 DEF Halfway
    <2> QED
      BY <1>4, <2>1, <2>2
  <1>5. ASSUME NEW p \in Procs,
               \/ GetPage(p) \/ HandOut(p) \/ CheckEndpoint(p) \/ GetTunnelEndpoint(p)
               \/ SetEndpoint(p) \/ NewRestClient(p) \/ ReadPreview(p)
        PROVE  Frame(p)
    <2>1. op' = op /\ UNCHANGED loadVars /\ (half' = half \/ \E w : Halfway(p, w))
      BY <1>5 DEF GetPage, HandOut, CheckEndpoint, GetTunnelEndpoint, SetEndpoint, NewRestClient,
                  ReadPreview, handleVars
    <2>2. pc[p] \in {"page", "handout", "endpoint", "ask", "set", "build", "preview"}
      BY <1>5 DEF GetPage, HandOut, CheckEndpoint, GetTunnelEndpoint, SetEndpoint, NewRestClient,
                  ReadPreview
    <2>3. out' = out \/ \E o : out' = Of(out, p, o)
      BY <1>5 DEF GetPage, HandOut, CheckEndpoint, GetTunnelEndpoint, SetEndpoint, NewRestClient,
                  ReadPreview, Return
    <2>4. calm' = calm \/ calm' = Of(calm, p, FALSE)
      BY <1>5 DEF GetPage, HandOut, CheckEndpoint, GetTunnelEndpoint, SetEndpoint, NewRestClient,
                  ReadPreview, Fault, NoFault, boundVars
    <2>5. \/ pc' = pc
          \/ \E at \in {"idle", "page", "handout", "ask", "set", "build", "preview"} : pc' = Of(pc, p, at)
      BY <1>5 DEF GetPage, HandOut, CheckEndpoint, GetTunnelEndpoint, SetEndpoint, NewRestClient,
                  ReadPreview, Return
    <2>6. op[p] \in {"list", "preview"} /\ ~Decoding(p)
      BY <1>0, <2>2 DEF PlaceInv, Decoding
    <2> QED
      BY <1>4, <2>1, <2>3, <2>4, <2>5, <2>6 DEF Places
  <1>6. ASSUME NEW p \in Procs, \/ ReadChunk(p) \/ ReadEnds(p) \/ ReadFails(p)
                                \/ CreateTempPartFile(p) \/ MergeTempPartFile(p)
        PROVE  Frame(p)
    <2>1. op' = op /\ UNCHANGED loadVars /\ half' = half /\ pc[p] \in {"read", "part", "merge"}
      BY <1>6 DEF ReadChunk, ReadEnds, ReadFails, CreateTempPartFile, MergeTempPartFile, Quiet,
                  handleVars
    <2>2. /\ out' = out \/ \E o : out' = Of(out, p, o)
          /\ \E at \in {"idle", "read", "part", "merge"} : pc' = Of(pc, p, at)
      BY <1>6 DEF ReadChunk, ReadEnds, ReadFails, CreateTempPartFile, MergeTempPartFile,
                  AfterReadError, Return
    <2>3. calm' = calm \/ calm' = Of(calm, p, FALSE)
      BY <1>6 DEF ReadChunk, ReadEnds, ReadFails, CreateTempPartFile, MergeTempPartFile, Fault,
                  NoFault
    <2>4. op[p] = "upload" /\ ~Decoding(p)
      BY <1>0, <2>1 DEF PlaceInv, Decoding
    <2> QED
      BY <1>4, <2>1, <2>2, <2>3, <2>4 DEF Places
  <1>7. ASSUME NEW p \in Procs, \/ (\E o \in {"load", "exists"} : StartLoad(p, o)) \/ List(p)
                                \/ Preview(p) \/ CreateFileResource(p)
        PROVE  Frame(p)
    <2>1. /\ UNCHANGED loadVars /\ half' = half
          /\ \E o : \E at \in {"get", "page", "endpoint", "read"} : Call(p, o, at)
      BY <1>7 DEF StartLoad, List, Preview, CreateFileResource, handleVars
    <2> QED
      BY <1>1, <2>1
  <1>8. \E p \in Procs : Frame(p)
    BY <1>2, <1>3, <1>5, <1>6, <1>7, OneIsAName DEF Next, CatalogStep, UploadStep
  <1> QED
    BY <1>8

\* A description that is being decoded was of an object there at some time of the call.
ExistsInv == ExistsIsHonest /\ \A p \in Procs : Decoding(p) => 1 \in ever[p]

\* Whatever is created and dropped between its requests, Exists of a Table, a Schema, a
\* Function, a Resource or a Project answers by what was there at some time of the call.
LEMMA ExistsStep ==
  ASSUME CallInv, ExistsInv, [Next]_vars
  PROVE  ExistsInv'
  <1> DEFINE Honest(q) ==
        /\ Decoding(q) => 1 \in ever[q]
        /\ op[q] = "exists" =>
             /\ out[q] = "false" => 1 \notin always[q]
             /\ out[q] = "true" => \/ 1 \in ever[q]
                                   \/ ~calm[q] /\ kind \in {"schema", "function", "resource"}
  <1>0. \A q \in Procs : Honest(q)
    BY DEF ExistsInv, ExistsIsHonest
  <1>1. CASE UNCHANGED vars
    BY <1>1 DEF vars, catalogVars, serviceVars, boundVars, ExistsInv, ExistsIsHonest, Decoding
  <1>2. ASSUME Next PROVE ExistsInv'
    <2>1. PICK p \in Procs :
            /\ \A q \in Procs \ {p} : /\ pc'[q] = pc[q]
                                      /\ op'[q] = op[q] /\ out'[q] = out[q] /\ calm'[q] = calm[q]
            /\ Loading(p) \/ (~Decoding(p)' /\ (op'[p] \in {"load", "exists"} => out'[p] = "none"))
      BY <1>2, LoadFrame
    <2>2. kind' = kind
      BY <1>2, ObjectFrame DEF CallInv
    <2>3. ASSUME NEW q \in Procs, q # p PROVE Honest(q)'
      <3>1. CASE out'[q] = "none" /\ ~Decoding(q)
        BY <2>1, <2>3, <3>1 DEF Decoding
      <3>2. CASE out'[q] # "none" \/ Decoding(q)
        <4>1. always'[q] \subseteq always[q] /\ ever[q] \subseteq ever'[q]
          BY <1>2, <2>1, <2>3, <3>2, HistoryGrows DEF Decoding
        <4> QED
          BY <1>0, <2>1, <2>2, <2>3, <4>1 DEF Decoding
      <3> QED
        BY <3>1, <3>2
    <2>4. ASSUME Loading(p) PROVE Honest(p)'
      <3>1. /\ UNCHANGED <<kind, op, objs, always, ever>> /\ (calm'[p] => calm[p])
            /\ out' = out \/ \E r \in {"ok", "missing", "refused", "broken"} : LoadResult(p, r)
        BY <2>4, LoadResults DEF CallInv
      <3>2. 1 \in always[p] => objs[1] # None
        BY DEF CallInv, HistoryInv, Existing
      <3>3. op[p] # "none" /\ op[p] # "change"
        <4>1. pc[p] = "get" \/ Decoding(p)
          BY <2>4 DEF Loading, Get, StoreText, ParseText, MakeArray, StoreColumn, NoColumn, Decoding
        <4> QED
          BY <4>1 DEF CallInv, PlaceInv
      <3>4. objs[1] # None => 1 \in ever[p]
        BY <3>3, OneIsAName DEF CallInv, HistoryInv, Existing
      <3>5. Decoding(p)' => 1 \in ever'[p]
        <4>1. Get(p) => pc'[p] = "idle" \/ pc'[p] = "endpoint" \/ objs[1] # None
          BY DEF Get, LoadEnds, Return, Of, CallInv, CallType
        <4>2. ~Get(p) => Decoding(p)
          BY <2>4 DEF Loading, StoreText, ParseText, MakeArray, StoreColumn, NoColumn, Decoding
        <4> QED
          BY <1>0, <3>1, <3>4, <4>1, <4>2 DEF Decoding
      <3>6. CASE out' = out
        BY <1>0, <3>1, <3>5, <3>6
      <3>7. ASSUME NEW r \in {"ok", "missing", "refused", "broken"}, LoadResult(p, r)
            PROVE  Honest(p)'
        <4>1. op[p] = "exists" => out'[p] = ExistsAnswer(r)
          BY <3>7 DEF LoadResult, Of, CallInv, CallType
        <4>2. op[p] = "exists" => kind # "partition" /\ kind \in Kinds
          BY DEF CallInv, PlaceInv, CallType
        <4>3. CASE r \in {"ok", "missing", "refused"}
          BY <1>0, <3>1, <3>2, <3>4, <3>5, <3>7, <4>1, <4>3, ExistsAnswers DEF LoadResult
        <4>4. CASE r = "broken"
          <5>1. op[p] = "exists" => ExistsAnswer(r) # "false"
            BY <4>4, ExistsAnswers
          <5>2. op[p] = "exists" /\ ExistsAnswer(r) = "true"
                   => kind \in {"schema", "function", "resource"}
            BY <4>2, <4>4, ExistsAnswers DEF Kinds
          <5>3. op[p] = "exists" /\ ExistsAnswer(r) = "true" => ~calm'[p]
            <6>1. Decoding(p) => kind = "table"
              BY DEF CallInv, PlaceInv
            <6> QED
              BY <3>7, <4>4, <5>2, <6>1 DEF LoadResult, BadText, Decoding
          <5> QED
            BY <3>1, <3>5, <4>1, <5>1, <5>2, <5>3
        <4> QED
          BY <4>3, <4>4
      <3> QED
        BY <3>1, <3>6, <3>7
    <2>5. CASE ~Loading(p)
      <3>1. Honest(p)'
        BY <2>1, <2>5
      <3> QED
        BY <2>3, <3>1 DEF ExistsInv, ExistsIsHonest
    <2> QED
      BY <2>1, <2>3, <2>4, <2>5 DEF ExistsInv, ExistsIsHonest
  <1> QED
    BY <1>1, <1>2

\* What Exists answers is so of some moment of the call, for every number of goroutines
\* that create and drop the object meanwhile, but for the answer after a lost request.
THEOREM ExistsTellsTheTruth == Spec => []ExistsIsHonest
  <1>1. Init => ExistsInv
    BY DEF Init, CatalogInit, ExistsInv, ExistsIsHonest, Decoding
  <1>2. ExistsInv => ExistsIsHonest
    BY DEF ExistsInv
  <1> QED
    BY <1>1, <1>2, CallInvHolds, ExistsStep, PTL DEF Spec

-----------------------------------------------------------------------------
(* Load.                                                                    *)

\* The parser reads every name it accepts as the type it was written for, and refuses the
\* names of Unreadable only.  For the parser of DataTypes this is what the run of this
\* module shows of the types it is given: another one misread, or refused, breaks
\* LoadIsFaithful there.
ParserReads ==
  \A t \in TableTypes :
    /\ Decoded(t).what = "type" => Decoded(t).type = t
    /\ t \notin Unreadable => Decoded(t).what = "type"

\* Every word on the way into the handle is of a type the table has had, or not there yet.
Seen == (had \cap TableTypes) \cup {None}
WordInv ==
  /\ schema \in [{1, 2} -> Seen] /\ text \in [{1, 2} -> Seen] /\ ans \in [Procs -> Seen]
  /\ extended \in [Procs -> BOOLEAN] /\ stale \in [Procs -> BOOLEAN]
  /\ \A p \in Procs :
       /\ Decoding(p) => ans[p] # None
       /\ pc[p] = "text" /\ half[p] # 0 => text[3 - half[p]] # None
       /\ pc[p] = "parse" /\ ~extended[p] => text[1] # None /\ text[2] # None

\* As long as decoders have not crossed, those there are have the same description, and a
\* goroutine finds the words it has stored.
HasType == schema[1] # None /\ schema[2] # None
AloneInv ==
  /\ \A p, q \in Procs : p # q /\ Decoding(p) /\ Decoding(q) => ans[p] = ans[q] /\ HasType
  /\ \A p \in Procs :
       /\ ~stale[p]
       /\ pc[p] = "array" => schema = Empty
       /\ pc[p] = "text" /\ half[p] # 0 => text[3 - half[p]] = ans[p]
       /\ pc[p] = "parse" /\ ~extended[p] => text[1] = ans[p] /\ text[2] = ans[p]
       /\ pc[p] = "column" /\ half[p] # 0 => schema[3 - half[p]] = ans[p]
       /\ op[p] = "load" /\ out[p] = "ok" /\ kind = "table" => HasType
  /\ (\A p \in Procs : ~(pc[p] = "column" /\ half[p] # 0)) => Whole(schema)

LoadInv == WordInv /\ (~crossed => AloneInv)

\* A step that leaves the handle and the goroutines that decode into it.
LEMMA LoadKept ==
  ASSUME CallInv, LoadInv, UNCHANGED <<kind, loadVars>>, had \subseteq had', NEW p \in Procs,
         ~Decoding(p), ~Decoding(p)', op'[p] \in {"load", "exists"} => out'[p] = "none",
         \A q \in Procs \ {p} : pc'[q] = pc[q] /\ half'[q] = half[q] /\ op'[q] = op[q] /\ out'[q] = out[q]
  PROVE  LoadInv'
  <1>1. UNCHANGED <<schema, text, extended, ans, stale, crossed>> /\ Seen \subseteq Seen'
    BY DEF loadVars, Seen
  <1>2. pc[p] \notin {"text", "parse", "array", "column"} /\ pc'[p] \notin {"text", "parse", "array", "column"}
    BY DEF Decoding
  <1>3. WordInv'
    BY <1>1, <1>2 DEF LoadInv, WordInv, Decoding
  <1>4. ASSUME AloneInv PROVE AloneInv'
    <2>1. HasType' = HasType /\ Whole(schema)' = Whole(schema)
      BY <1>1 DEF HasType, Whole
    <2>2. \A q \in Procs : Decoding(q)' => q # p /\ Decoding(q)
      BY DEF Decoding
    <2> QED
      BY <1>1, <1>2, <1>4, <2>1, <2>2 DEF AloneInv
  <1> QED
    BY <1>1, <1>3, <1>4 DEF LoadInv

\* What every step of Load leaves.
LEMMA LoadingLeaves ==
  ASSUME CallInv, NEW p \in Procs, Loading(p)
  PROVE  /\ UNCHANGED <<kind, op, objs, had>> /\ Seen' = Seen
         /\ pc \in [Procs -> Places] /\ out \in [Procs -> Outcomes] /\ half \in [Procs -> {0, 1, 2}]
         /\ \A q \in Procs \ {p} : pc'[q] = pc[q] /\ half'[q] = half[q] /\ out'[q] = out[q]
         /\ kind = "table" => objs[1] \in Seen
         /\ half[p] # 0 => pc[p] \in {"text", "column", "set"}
  <1>1. CallType /\ PlaceInv
    BY DEF CallInv
  <1>2. UNCHANGED <<kind, op, objs, had>>
    BY <1>1, LoadResults
  <1>3. half' = half \/ \E w : Halfway(p, w)
    BY DEF Loading, Get, StoreText, ParseText, MakeArray, StoreColumn, NoColumn
  <1>4. \/ \E r : LoadEnds(p, r)
        \/ out' = out /\ (pc' = pc \/ \E at : pc' = Of(pc, p, at))
    BY DEF Loading, Get, StoreText, ParseText, MakeArray, StoreColumn, NoColumn
  <1>5. /\ pc' = pc \/ \E at : pc' = Of(pc, p, at)
        /\ out' = out \/ \E o : out' = Of(out, p, o)
    BY <1>4 DEF LoadEnds, Return
  <1>6. \A q \in Procs \ {p} : pc'[q] = pc[q] /\ half'[q] = half[q] /\ out'[q] = out[q]
    BY <1>1, <1>3, <1>5 DEF CallType, Of, Halfway
  <1> QED
    BY <1>1, <1>2, <1>6 DEF Seen, CallInv, CallType, PlaceInv, ObjectInv

\* A Load that ends without a column leaves the handle; it ends well only with a type there.
LEMMA LoadInvEnds ==
  ASSUME CallInv, LoadInv, NEW p \in Procs, Loading(p), NEW r, LoadEnds(p, r),
         UNCHANGED <<schema, text, half, crossed>>, half[p] = 0,
         stale' = stale \/ stale' = Of(stale, p, FALSE), r = "ok" => kind # "table"
  PROVE  LoadInv'
  <1>1. /\ UNCHANGED <<kind, op>> /\ Seen' = Seen
        /\ pc \in [Procs -> Places] /\ out \in [Procs -> Outcomes]
        /\ \A q \in Procs \ {p} : pc'[q] = pc[q] /\ out'[q] = out[q]
    BY LoadingLeaves
  <1>2. /\ ans' = [ans EXCEPT ![p] = None] /\ extended' = [extended EXCEPT ![p] = FALSE]
        /\ pc'[p] \in {"idle", "endpoint"}
        /\ op[p] = "load" /\ out'[p] = "ok" => r = "ok"
    BY <1>1 DEF LoadEnds, Return, Of
  <1>3. \A q \in Procs : Decoding(q)' => q # p /\ Decoding(q)
    BY <1>1, <1>2 DEF Decoding
  <1>4. WordInv'
    BY <1>1, <1>2, <1>3 DEF LoadInv, WordInv, Seen, Of
  <1>5. ASSUME AloneInv PROVE AloneInv'
    <2>1. HasType' = HasType /\ Whole(schema)' = Whole(schema)
      BY DEF HasType, Whole
    <2>2. \A q \in Procs : ~stale'[q]
      BY <1>5 DEF AloneInv, LoadInv, WordInv, Of
    <2>3. \A q \in Procs \ {p} : ans'[q] = ans[q] /\ extended'[q] = extended[q]
      BY <1>2 DEF LoadInv, WordInv
    <2> QED
      BY <1>1, <1>2, <1>3, <1>5, <2>1, <2>2, <2>3 DEF AloneInv
  <1> QED
    BY <1>4, <1>5 DEF LoadInv

LEMMA LoadInvGet ==
  ASSUME CallInv, LoadInv, NEW p \in Procs, Get(p)
  PROVE  LoadInv'
  <1>1. Loading(p) /\ pc[p] = "get" /\ UNCHANGED <<schema, text, half, stale>>
    BY DEF Loading, Get
  <1>2. /\ UNCHANGED <<kind, op>> /\ Seen' = Seen
        /\ pc \in [Procs -> Places] /\ out \in [Procs -> Outcomes]
        /\ \A q \in Procs \ {p} : pc'[q] = pc[q]
        /\ kind = "table" => objs[1] \in Seen
        /\ half[p] = 0
    BY <1>1, LoadingLeaves
  <1>3. CASE \E r : LoadEnds(p, r) /\ crossed' = crossed /\ (r = "ok" => kind # "table")
    BY <1>1, <1>2, <1>3, LoadInvEnds
  <1>4. CASE /\ objs[1] # None /\ kind = "table"
             /\ ans' = Of(ans, p, objs[1])
             /\ crossed' = (crossed \/ \E q \in Procs \ {p} :
                  Decoding(q) /\ (ans[q] # objs[1] \/ schema[1] = None \/ schema[2] = None))
             /\ pc' = Of(pc, p, IF extended[p] THEN "parse" ELSE "text")
             /\ UNCHANGED <<loaded, extended, out>>
    <2>1. /\ pc'[p] = IF extended[p] THEN "parse" ELSE "text"
          /\ ans'[p] = objs[1] /\ \A q \in Procs \ {p} : ans'[q] = ans[q]
          /\ ans' \in [Procs -> Seen]
      BY <1>2, <1>4 DEF LoadInv, WordInv, Of
    <2>2. \A q \in Procs : Decoding(q)' => q = p \/ Decoding(q)
      BY <1>2 DEF Decoding
    <2>3. WordInv'
      BY <1>1, <1>2, <1>4, <2>1, <2>2 DEF LoadInv, WordInv
    <2>4. ASSUME ~crossed' PROVE AloneInv'
      <3>1. AloneInv /\ \A q \in Procs \ {p} : Decoding(q) => ans[q] = objs[1] /\ HasType
        BY <1>4, <2>4 DEF LoadInv, HasType
      <3>2. HasType' = HasType /\ Whole(schema)' = Whole(schema)
        BY <1>1 DEF HasType, Whole
      <3>3. \A q, z \in Procs : q # z /\ Decoding(q)' /\ Decoding(z)' => ans'[q] = ans'[z] /\ HasType'
        BY <2>1, <2>2, <3>1, <3>2 DEF AloneInv
      <3>4. \A q \in Procs :
              /\ ~stale'[q]
              /\ pc'[q] = "array" => schema' = Empty
              /\ pc'[q] = "text" /\ half'[q] # 0 => text'[3 - half'[q]] = ans'[q]
              /\ pc'[q] = "parse" /\ ~extended'[q] => text'[1] = ans'[q] /\ text'[2] = ans'[q]
              /\ pc'[q] = "column" /\ half'[q] # 0 => schema'[3 - half'[q]] = ans'[q]
              /\ op'[q] = "load" /\ out'[q] = "ok" /\ kind' = "table" => HasType'
        BY <1>1, <1>2, <1>4, <2>1, <3>1, <3>2 DEF AloneInv
      <3>5. (\A q \in Procs : ~(pc'[q] = "column" /\ half'[q] # 0)) => Whole(schema)'
        BY <1>1, <1>2, <2>1, <3>1, <3>2 DEF AloneInv
      <3> QED
        BY <3>3, <3>4, <3>5 DEF AloneInv
    <2> QED
      BY <2>3, <2>4 DEF LoadInv
  <1> QED
    BY <1>3, <1>4 DEF Get

LEMMA LoadInvText ==
  ASSUME CallInv, LoadInv, NEW p \in Procs, StoreText(p)
  PROVE  LoadInv'
  <1>1. Loading(p) /\ pc[p] = "text" /\ UNCHANGED <<schema, extended, ans, stale, out, crossed>>
    BY DEF Loading, StoreText, Decodes
  <1>2. /\ UNCHANGED <<kind, op>> /\ Seen' = Seen
        /\ pc \in [Procs -> Places] /\ half \in [Procs -> {0, 1, 2}]
        /\ \A q \in Procs \ {p} : pc'[q] = pc[q] /\ half'[q] = half[q]
    BY <1>1, LoadingLeaves
  <1>3. PICK w \in Left(p) : text' = [text EXCEPT ![w] = ans[p]] /\ Halfway(p, w)
    BY DEF StoreText, Stored
  <1>4. /\ w \in {1, 2} /\ half'[p] \in {0, 1, 2}
        /\ half[p] = 0 => 3 - half'[p] = w /\ half'[p] # 0 /\ pc'[p] = "text"
        /\ half[p] # 0 => half[p] = w /\ half'[p] = 0 /\ pc'[p] = "parse"
    BY <1>1, <1>2, <1>3 DEF StoreText, Left, Halfway, Of
  <1>5. /\ text'[w] = ans[p] /\ \A v \in {1, 2} \ {w} : text'[v] = text[v]
        /\ text' \in [{1, 2} -> Seen] /\ ans[p] # None
    BY <1>1, <1>3, <1>4 DEF LoadInv, WordInv, Decoding
  <1>6. \A q \in Procs : Decoding(q)' = Decoding(q)
    BY <1>1, <1>2, <1>4 DEF Decoding
  <1>7. \A q \in Procs : half[q] # 0 => 3 - half[q] \in {1, 2} /\ half[q] \in {1, 2}
    BY <1>2
  <1>8. WordInv'
    <2>1. \A q \in Procs \ {p} :
            /\ pc'[q] = "text" /\ half'[q] # 0 => text'[3 - half'[q]] # None
            /\ pc'[q] = "parse" /\ ~extended'[q] => text'[1] # None /\ text'[2] # None
      BY <1>1, <1>2, <1>4, <1>5, <1>7 DEF LoadInv, WordInv
    <2>2. /\ pc'[p] = "text" /\ half'[p] # 0 => text'[3 - half'[p]] # None
          /\ pc'[p] = "parse" => text'[1] # None /\ text'[2] # None
      <3>1. CASE half[p] = 0
        BY <1>4, <1>5, <3>1
      <3>2. CASE half[p] # 0
        <4>1. text[3 - w] # None
          BY <1>1, <1>4, <3>2 DEF LoadInv, WordInv
        <4> QED
          BY <1>4, <1>5, <3>2, <4>1
      <3> QED
        BY <3>1, <3>2
    <2> QED
      BY <1>1, <1>2, <1>5, <1>6, <2>1, <2>2 DEF LoadInv, WordInv
  <1>9. ASSUME AloneInv PROVE AloneInv'
    <2>1. HasType' = HasType /\ Whole(schema)' = Whole(schema)
      BY <1>1 DEF HasType, Whole
    <2>2. ASSUME NEW q \in Procs \ {p}
          PROVE  /\ pc'[q] = "text" /\ half'[q] # 0 => text'[3 - half'[q]] = ans'[q]
                 /\ pc'[q] = "parse" /\ ~extended'[q] => text'[1] = ans'[q] /\ text'[2] = ans'[q]
      <3>1. Decoding(q) => ans[q] = ans[p]
        BY <1>1, <1>9 DEF AloneInv, Decoding
      <3> QED
        BY <1>1, <1>2, <1>4, <1>5, <1>7, <1>9, <3>1 DEF AloneInv, Decoding
    <2>3. /\ pc'[p] = "text" /\ half'[p] # 0 => text'[3 - half'[p]] = ans'[p]
          /\ pc'[p] = "parse" => text'[1] = ans'[p] /\ text'[2] = ans'[p]
      <3>1. CASE half[p] = 0
        BY <1>1, <1>4, <1>5, <3>1
      <3>2. CASE half[p] # 0
        <4>1. text[3 - w] = ans[p]
          BY <1>1, <1>4, <1>9, <3>2 DEF AloneInv
        <4> QED
          BY <1>1, <1>4, <1>5, <3>2, <4>1
      <3> QED
        BY <3>1, <3>2
    <2>4. \A q \in Procs :
            /\ pc'[q] = "column" => q # p
            /\ pc'[q] = "array" => q # p
      BY <1>4
    <2>5. \A q \in Procs :
            /\ ~stale'[q]
            /\ pc'[q] = "array" => schema' = Empty
            /\ pc'[q] = "column" /\ half'[q] # 0 => schema'[3 - half'[q]] = ans'[q]
            /\ op'[q] = "load" /\ out'[q] = "ok" /\ kind' = "table" => HasType'
      BY <1>1, <1>2, <1>9, <2>1, <2>4 DEF AloneInv
    <2>6. (\A q \in Procs : ~(pc'[q] = "column" /\ half'[q] # 0)) => Whole(schema)'
      BY <1>1, <1>2, <1>9, <2>1 DEF AloneInv
    <2>7. \A q, z \in Procs : q # z /\ Decoding(q)' /\ Decoding(z)' => ans'[q] = ans'[z] /\ HasType'
      BY <1>1, <1>6, <1>9, <2>1 DEF AloneInv
    <2> QED
      BY <2>2, <2>3, <2>5, <2>6, <2>7 DEF AloneInv
  <1> QED
    BY <1>1, <1>8, <1>9 DEF LoadInv

LEMMA LoadInvParse ==
  ASSUME ParserReads, CallInv, LoadInv, NEW p \in Procs, ParseText(p)
  PROVE  LoadInv'
  <1> DEFINE x == IF extended[p] THEN Words(ans[p]) ELSE text
             t == x[1]
  <1>1. Loading(p) /\ pc[p] = "parse" /\ UNCHANGED <<schema, text, half, stale, crossed>>
    BY DEF Loading, ParseText, Decodes
  <1>2. /\ UNCHANGED <<kind, op>> /\ Seen' = Seen
        /\ pc \in [Procs -> Places] /\ half[p] = 0
        /\ \A q \in Procs \ {p} : pc'[q] = pc[q]
    BY <1>1, LoadingLeaves
  <1>3. CASE LoadEnds(p, "broken")
    BY <1>1, <1>2, <1>3, LoadInvEnds
  <1>4. CASE /\ Whole(x) /\ Decoded(t).what = "type"
             /\ ans' = Of(ans, p, Decoded(t).type)
             /\ pc' = Of(pc, p, IF schema = Empty THEN "array" ELSE "column")
             /\ UNCHANGED <<loaded, extended, out>>
    <2>1. t \in Seen /\ t # None
      BY <1>1 DEF LoadInv, WordInv, Words, Decoding
    <2>2. Decoded(t).type = t
      BY <1>4, <2>1 DEF ParserReads, Seen
    <2>3. /\ pc'[p] = IF schema = Empty THEN "array" ELSE "column"
          /\ ans'[p] = t /\ \A q \in Procs \ {p} : ans'[q] = ans[q]
          /\ ans' \in [Procs -> Seen]
      BY <1>2, <1>4, <2>1, <2>2 DEF LoadInv, WordInv, Of
    <2>4. \A q \in Procs : Decoding(q)' = Decoding(q)
      BY <1>1, <1>2, <2>3 DEF Decoding
    <2>5. WordInv'
      BY <1>1, <1>2, <1>4, <2>1, <2>3, <2>4 DEF LoadInv, WordInv
    <2>6. ASSUME AloneInv PROVE AloneInv'
      <3>1. t = ans[p]
        BY <1>1, <2>6 DEF AloneInv, Words
      <3>2. \A q \in Procs : ans'[q] = ans[q]
        BY <2>3, <3>1
      <3>3. HasType' = HasType /\ Whole(schema)' = Whole(schema)
        BY <1>1 DEF HasType, Whole
      <3>4. \A q, z \in Procs : q # z /\ Decoding(q)' /\ Decoding(z)' => ans'[q] = ans'[z] /\ HasType'
        BY <2>4, <2>6, <3>2, <3>3 DEF AloneInv
      <3>5. \A q \in Procs :
              /\ ~stale'[q]
              /\ pc'[q] = "array" => schema' = Empty
              /\ pc'[q] = "text" /\ half'[q] # 0 => text'[3 - half'[q]] = ans'[q]
              /\ pc'[q] = "parse" /\ ~extended'[q] => text'[1] = ans'[q] /\ text'[2] = ans'[q]
              /\ pc'[q] = "column" /\ half'[q] # 0 => schema'[3 - half'[q]] = ans'[q]
              /\ op'[q] = "load" /\ out'[q] = "ok" /\ kind' = "table" => HasType'
        BY <1>1, <1>2, <1>4, <2>3, <2>6, <3>2, <3>3 DEF AloneInv
      <3>6. (\A q \in Procs : ~(pc'[q] = "column" /\ half'[q] # 0)) => Whole(schema)'
        BY <1>1, <1>2, <2>3, <2>6, <3>3 DEF AloneInv
      <3> QED
        BY <3>4, <3>5, <3>6 DEF AloneInv
    <2> QED
      BY <1>1, <2>5, <2>6 DEF LoadInv
  <1> QED
    BY <1>3, <1>4 DEF ParseText

LEMMA LoadInvArray ==
  ASSUME CallInv, LoadInv, NEW p \in Procs, MakeArray(p)
  PROVE  LoadInv'
  <1>1. /\ Loading(p) /\ pc[p] = "array" /\ schema' = Empty
        /\ UNCHANGED <<text, extended, ans, half, out, crossed>>
        /\ stale' = [q \in Procs |-> stale[q] \/ pc[q] = "column"] /\ pc' = Of(pc, p, "column")
    BY DEF Loading, MakeArray, Decodes
  <1>2. /\ UNCHANGED <<kind, op>> /\ Seen' = Seen
        /\ pc \in [Procs -> Places] /\ half[p] = 0
        /\ \A q \in Procs \ {p} : pc'[q] = pc[q]
    BY <1>1, LoadingLeaves
  <1>3. pc'[p] = "column"
    BY <1>1, <1>2 DEF Of
  <1>4. \A q \in Procs : Decoding(q)' = Decoding(q)
    BY <1>1, <1>2, <1>3 DEF Decoding
  <1>5. WordInv'
    <2>1. schema' \in [{1, 2} -> Seen]
      BY <1>1 DEF Empty, Words, Seen
    <2>2. stale' \in [Procs -> BOOLEAN]
      BY <1>1 DEF LoadInv, WordInv
    <2> QED
      BY <1>1, <1>2, <1>3, <1>4, <2>1, <2>2 DEF LoadInv, WordInv
  <1>6. ASSUME AloneInv PROVE AloneInv'
    <2>1. ~HasType
      BY <1>1, <1>6 DEF AloneInv, HasType, Empty, Words
    <2>2. \A q \in Procs \ {p} : ~Decoding(q) /\ ~Decoding(q)'
      BY <1>1, <1>4, <1>6, <2>1 DEF AloneInv, Decoding
    <2>3. \A q \in Procs : op[q] = "load" /\ out[q] = "ok" => kind # "table"
      BY <1>6, <2>1 DEF AloneInv
    <2>4. Whole(schema)'
      BY <1>1 DEF Whole, Empty, Words
    <2>5. \A q \in Procs : ~stale'[q]
      BY <1>1, <1>6, <2>2 DEF AloneInv, Decoding
    <2> QED
      BY <1>1, <1>2, <1>3, <2>2, <2>3, <2>4, <2>5 DEF AloneInv, Decoding
  <1> QED
    BY <1>1, <1>5, <1>6 DEF LoadInv

LEMMA LoadInvColumn ==
  ASSUME CallInv, LoadInv, NEW p \in Procs, StoreColumn(p)
  PROVE  LoadInv'
  <1>1. Loading(p) /\ pc[p] = "column" /\ UNCHANGED <<text, crossed>>
    BY DEF Loading, StoreColumn, Decodes
  <1>2. /\ UNCHANGED <<kind, op>> /\ Seen' = Seen
        /\ pc \in [Procs -> Places] /\ half \in [Procs -> {0, 1, 2}] /\ out \in [Procs -> Outcomes]
        /\ \A q \in Procs \ {p} : pc'[q] = pc[q] /\ half'[q] = half[q] /\ out'[q] = out[q]
    BY <1>1, LoadingLeaves
  <1>3. PICK w \in Left(p) :
          /\ Halfway(p, w)
          /\ \/ /\ ~stale[p] \/ half[p] = 0
                /\ schema' = [schema EXCEPT ![w] = ans[p]] /\ stale' = Of(stale, p, FALSE)
             \/ stale[p] /\ schema' = schema /\ stale' = Of(stale, p, half[p] = 0)
    BY DEF StoreColumn, Stored
  <1>4. /\ w \in {1, 2} /\ half'[p] \in {0, 1, 2}
        /\ half[p] = 0 => 3 - half'[p] = w /\ half'[p] # 0
        /\ half[p] # 0 => half[p] = w /\ half'[p] = 0
    BY <1>1, <1>2, <1>3 DEF Left, Halfway, Of
  <1>5. /\ half[p] = 0 => pc' = pc /\ out' = out /\ extended' = extended /\ ans' = ans
        /\ half[p] # 0 => /\ pc'[p] \in {"get", "idle", "endpoint"}
                          /\ ans' = [ans EXCEPT ![p] = None]
                          /\ \A q \in Procs \ {p} : extended'[q] = extended[q]
                          /\ extended' \in [Procs -> BOOLEAN]
    <2>1. CASE half[p] = 0
      BY <2>1 DEF StoreColumn
    <2>2. CASE half[p] # 0 /\ LoadEnds(p, "ok")
      BY <1>2, <2>2 DEF LoadEnds, Return, Of, LoadInv, WordInv
    <2>3. CASE half[p] # 0 /\ pc' = Of(pc, p, "get") /\ extended' = Of(extended, p, TRUE)
               /\ ans' = Of(ans, p, None)
      BY <1>2, <2>3 DEF Of, LoadInv, WordInv
    <2> QED
      BY <2>1, <2>2, <2>3 DEF StoreColumn
  <1>6. /\ ans' \in [Procs -> Seen] /\ extended' \in [Procs -> BOOLEAN]
        /\ \A q \in Procs \ {p} : ans'[q] = ans[q] /\ extended'[q] = extended[q]
        /\ ans[p] # None /\ ans[p] \in Seen
    BY <1>1, <1>5 DEF LoadInv, WordInv, Seen, Decoding
  <1>7. \A q \in Procs : Decoding(q)' => Decoding(q) /\ (q = p => half[p] = 0)
    BY <1>1, <1>2, <1>5 DEF Decoding
  <1>8. pc'[p] \notin {"text", "parse", "array"} /\ (half[p] = 0 => pc'[p] = "column")
        /\ (half[p] # 0 => pc'[p] # "column")
    BY <1>1, <1>5
  <1>9. WordInv'
    <2>1. schema' \in [{1, 2} -> Seen]
      BY <1>3, <1>4, <1>6 DEF LoadInv, WordInv
    <2>2. stale' \in [Procs -> BOOLEAN]
      BY <1>3 DEF LoadInv, WordInv, Of
    <2>3. \A q \in Procs : Decoding(q)' => ans'[q] # None
      BY <1>5, <1>6, <1>7 DEF LoadInv, WordInv
    <2> QED
      BY <1>1, <1>2, <1>6, <1>8, <2>1, <2>2, <2>3 DEF LoadInv, WordInv
  <1>10. ASSUME AloneInv PROVE AloneInv'
    <2>1. /\ schema' = [schema EXCEPT ![w] = ans[p]] /\ stale' = Of(stale, p, FALSE)
      BY <1>3, <1>10 DEF AloneInv
    <2>2. /\ schema'[w] = ans[p] /\ \A v \in {1, 2} \ {w} : schema'[v] = schema[v]
      BY <1>4, <2>1 DEF LoadInv, WordInv
    <2>3. \A q \in Procs : ~stale'[q]
      BY <1>10, <2>1 DEF AloneInv, LoadInv, WordInv, Of
    <2>4. HasType => HasType'
      BY <1>4, <1>6, <2>2 DEF HasType
    <2>5. half[p] # 0 => schema'[1] = ans[p] /\ schema'[2] = ans[p]
      <3>1. half[p] # 0 => schema[3 - w] = ans[p] /\ 3 - w \in {1, 2} \ {w}
        BY <1>1, <1>4, <1>10 DEF AloneInv
      <3> QED
        BY <1>4, <2>2, <3>1
    <2>6. half[p] # 0 => HasType' /\ Whole(schema')
      BY <1>6, <2>5 DEF HasType, Whole
    <2>7. ASSUME NEW q \in Procs \ {p}, Decoding(q) PROVE ans[q] = ans[p] /\ HasType /\ schema # Empty
      BY <1>1, <1>10, <2>7 DEF AloneInv, Decoding, HasType, Empty, Words
    <2>8. ASSUME NEW q \in Procs
          PROVE  /\ pc'[q] = "array" => schema' = Empty
                 /\ pc'[q] = "text" /\ half'[q] # 0 => text'[3 - half'[q]] = ans'[q]
                 /\ pc'[q] = "parse" /\ ~extended'[q] => text'[1] = ans'[q] /\ text'[2] = ans'[q]
      <3>1. CASE q = p
        BY <1>8, <3>1
      <3>2. CASE q # p
        BY <1>1, <1>2, <1>6, <1>10, <2>7, <3>2 DEF AloneInv, Decoding
      <3> QED
        BY <3>1, <3>2
    <2>9. ASSUME NEW q \in Procs, pc'[q] = "column", half'[q] # 0
          PROVE  schema'[3 - half'[q]] = ans'[q]
      <3>1. CASE q = p
        BY <1>4, <1>5, <1>8, <2>2, <2>9, <3>1
      <3>2. CASE q # p
        <4>1. 3 - half[q] \in {1, 2} /\ half'[q] = half[q] /\ pc[q] = "column" /\ ans'[q] = ans[q]
          BY <1>2, <1>6, <2>9, <3>2
        <4>2. schema[3 - half[q]] = ans[q] /\ ans[q] = ans[p]
          BY <1>10, <2>7, <2>9, <3>2, <4>1 DEF AloneInv, Decoding
        <4> QED
          BY <2>2, <4>1, <4>2
      <3> QED
        BY <3>1, <3>2
    <2>10. ASSUME NEW q \in Procs, op'[q] = "load", out'[q] = "ok", kind' = "table" PROVE HasType'
      <3>1. CASE q = p /\ half[p] # 0
        BY <2>6, <3>1
      <3>2. CASE q # p \/ half[p] = 0
        BY <1>2, <1>5, <1>10, <2>4, <2>10, <3>2 DEF AloneInv
      <3> QED
        BY <3>1, <3>2
    <2>11. (\A q \in Procs : ~(pc'[q] = "column" /\ half'[q] # 0)) => Whole(schema)'
      BY <1>4, <1>8, <2>6
    <2>12. \A q, z \in Procs : q # z /\ Decoding(q)' /\ Decoding(z)' => ans'[q] = ans'[z] /\ HasType'
      BY <1>5, <1>6, <1>7, <1>10, <2>4 DEF AloneInv
    <2> QED
      BY <2>3, <2>8, <2>9, <2>10, <2>11, <2>12 DEF AloneInv
  <1> QED
    BY <1>1, <1>9, <1>10 DEF LoadInv

LEMMA LoadInvStep ==
  ASSUME ParserReads, CallInv, LoadInv, [Next]_vars
  PROVE  LoadInv'
  <1>1. CASE UNCHANGED vars
    BY <1>1 DEF vars, catalogVars, handleVars, loadVars, serviceVars, LoadInv, WordInv, AloneInv,
                HasType, Seen, Decoding
  <1>2. ASSUME Next PROVE LoadInv'
    <2>1. PICK p \in Procs :
            /\ \A q \in Procs \ {p} : /\ pc'[q] = pc[q] /\ half'[q] = half[q]
                                      /\ op'[q] = op[q] /\ out'[q] = out[q] /\ calm'[q] = calm[q]
            /\ \/ Loading(p)
               \/ /\ UNCHANGED loadVars /\ ~Decoding(p) /\ ~Decoding(p)'
                  /\ op'[p] \in {"load", "exists"} => out'[p] = "none"
      BY <1>2, LoadFrame
    <2>2. kind' = kind /\ had \subseteq had'
      BY <1>2, ObjectFrame DEF CallInv, NoPut, Put
    <2>3. CASE ~Loading(p)
      BY <2>1, <2>2, <2>3, LoadKept
    <2>4. CASE NoColumn(p)
      <3>1. /\ Loading(p) /\ LoadEnds(p, "broken") /\ half[p] = 0
            /\ UNCHANGED <<schema, text, half, crossed>> /\ stale' = Of(stale, p, FALSE)
        BY <2>4 DEF Loading, NoColumn, Decodes
      <3> QED
        BY <3>1, LoadInvEnds
    <2> QED
      BY <2>1, <2>3, <2>4, LoadInvGet, LoadInvText, LoadInvParse, LoadInvArray, LoadInvColumn
      DEF Loading
  <1> QED
    BY <1>1, <1>2

\* A Load of a table that is there throughout does not fail by itself.
LoadSucceeds ==
  ~crossed =>
    \A p \in Procs :
      op[p] = "load" /\ out[p] = "error" /\ calm[p] /\ had \cap Unreadable = {} => 1 \notin always[p]

LEMMA LoadSucceedsStep ==
  ASSUME ParserReads, CallInv, LoadInv, LoadSucceeds, [Next]_vars
  PROVE  LoadSucceeds'
  <1> DEFINE Succeeds(q) ==
        op[q] = "load" /\ out[q] = "error" /\ calm[q] /\ had \cap Unreadable = {} => 1 \notin always[q]
  <1>1. CASE UNCHANGED vars
    BY <1>1 DEF vars, catalogVars, handleVars, loadVars, boundVars, LoadSucceeds
  <1>2. ASSUME Next, ~crossed' PROVE LoadSucceeds'
    <2>1. PICK p \in Procs :
            /\ \A q \in Procs \ {p} : op'[q] = op[q] /\ out'[q] = out[q] /\ calm'[q] = calm[q]
            /\ \/ Loading(p)
               \/ UNCHANGED loadVars /\ (op'[p] \in {"load", "exists"} => out'[p] = "none")
      BY <1>2, LoadFrame
    <2>2. had \subseteq had'
      BY <1>2, ObjectFrame DEF CallInv, NoPut, Put
    <2>3. ~crossed
      BY <1>2, <2>1, LoadResults DEF CallInv, loadVars
    <2>4. ASSUME NEW q \in Procs, q # p PROVE Succeeds(q)'
      <3>1. CASE out'[q] = "none"
        BY <3>1
      <3>2. CASE out'[q] # "none"
        BY <1>2, <2>1, <2>2, <2>3, <2>4, <3>2, HistoryGrows DEF LoadSucceeds
      <3> QED
        BY <3>1, <3>2
    <2>5. ASSUME Loading(p) PROVE Succeeds(p)'
      <3>1. /\ UNCHANGED <<kind, op, objs, always, had>> /\ (calm'[p] => calm[p])
            /\ out' = out \/ \E r \in {"ok", "missing", "refused", "broken"} : LoadResult(p, r)
        BY <2>5, LoadResults DEF CallInv
      <3>2. CASE out' = out
        BY <2>3, <3>1, <3>2 DEF LoadSucceeds
      <3>3. ASSUME NEW r \in {"ok", "missing", "refused", "broken"}, LoadResult(p, r)
            PROVE  Succeeds(p)'
        <4>1. op[p] = "load" => out'[p] = IF r = "ok" THEN "ok" ELSE "error"
          BY <3>3 DEF LoadResult, Of, CallInv, CallType
        <4>2. 1 \in always[p] => objs[1] # None
          BY DEF CallInv, HistoryInv, Existing
        <4>3. ~stale[p]
          BY <2>3 DEF LoadInv, AloneInv
        <4>4. had \cap Unreadable = {} => ~BadText(p)
          <5> SUFFICES ASSUME had \cap Unreadable = {}, pc[p] = "parse" PROVE ~BadText(p)
            BY DEF BadText
          <5> DEFINE x == IF extended[p] THEN Words(ans[p]) ELSE text
          <5>1. x[1] = ans[p] /\ x[2] = ans[p]
            BY <2>3 DEF LoadInv, AloneInv, Words
          <5>2. ans[p] \in TableTypes \ Unreadable
            BY DEF LoadInv, WordInv, Decoding, Seen
          <5>3. Decoded(ans[p]).what = "type"
            BY <5>2 DEF ParserReads
          <5> QED
            BY <5>1, <5>3 DEF BadText, Whole
        <4> QED
          BY <3>1, <3>3, <4>1, <4>2, <4>3, <4>4 DEF LoadResult
      <3> QED
        BY <3>1, <3>2, <3>3
    <2>6. Succeeds(p)'
      BY <2>1, <2>5
    <2> QED
      BY <2>4, <2>6 DEF LoadSucceeds
  <1> QED
    BY <1>1, <1>2 DEF LoadSucceeds

\* With a parser that refuses the names of Unreadable only and misreads none, and however
\* the stores of any number of Loads interleave, each word of the column's type in the
\* shared handle is of a type the table has had; and until two goroutines have decoded
\* different descriptions, or their first, at one time, the type is whole between decodes,
\* a Load that returns nil has left one, and no calm Load of a readable table fails.
THEOREM LoadGetsTheType ==
  ASSUME ParserReads
  PROVE  Spec => []LoadIsFaithful
  <1>1. Init => LoadInv /\ LoadSucceeds
    <2> SUFFICES ASSUME Init PROVE LoadInv /\ LoadSucceeds
      OBVIOUS
    <2>1. schema \in [{1, 2} -> Seen] /\ Whole(schema) /\ text = schema
      BY DEF Init, CatalogInit, Seen, Empty, Words, Whole
    <2>2. \A p \in Procs : pc[p] = "idle" /\ out[p] = "none" /\ ~stale[p]
      BY DEF Init, CatalogInit
    <2>3. WordInv
      BY <2>1, <2>2 DEF Init, CatalogInit, WordInv, Decoding, Seen
    <2>4. AloneInv
      BY <2>1, <2>2 DEF AloneInv, Decoding
    <2> QED
      BY <2>2, <2>3, <2>4 DEF LoadInv, LoadSucceeds
  <1>2. LoadInv /\ LoadSucceeds => LoadIsFaithful
    <2> SUFFICES ASSUME LoadInv, LoadSucceeds PROVE LoadIsFaithful
      OBVIOUS
    <2>1. schema[1] \in had \cup {None} /\ schema[2] \in had \cup {None}
      BY DEF LoadInv, WordInv, Seen
    <2>2. ~crossed => ((\A p \in Procs : ~Decoding(p)) => Whole(schema))
      BY DEF LoadInv, AloneInv, Decoding
    <2>3. ~crossed => \A p \in Procs :
            op[p] = "load" /\ kind = "table" /\ out[p] = "ok" => schema[1] # None /\ schema[2] # None
      BY DEF LoadInv, AloneInv, HasType
    <2> QED
      BY <2>1, <2>2, <2>3 DEF LoadSucceeds, LoadIsFaithful
  <1>3. CallInv /\ LoadInv /\ LoadSucceeds /\ [Next]_vars => LoadInv' /\ LoadSucceeds'
    BY LoadInvStep, LoadSucceedsStep
  <1> QED
    BY <1>1, <1>2, <1>3, CallInvHolds, PTL DEF Spec

-----------------------------------------------------------------------------
(* The endpoint of the tunnel.                                              *)

\* Every word was named by the service or is not there yet.  As long as nobody has set or
\* read the endpoint while another was setting it, one goroutine at most is between its
\* two stores, and has stored the word it has not left.
EndpointInv ==
  /\ got \in [Procs -> named \cup {None}]
  /\ endpoint \in [{1, 2} -> named \cup {None}]
  /\ url \in [Procs -> [{1, 2} -> named \cup {None}]]
  /\ ~torn =>
       /\ \A p \in Procs : Whole(url[p])
       /\ \A p, q \in Procs : Setting(p) /\ Setting(q) => p = q
       /\ \A p \in Procs : Setting(p) => endpoint[3 - half[p]] = got[p]
       /\ (\A p \in Procs : ~Setting(p)) => Whole(endpoint)

\* Every other step leaves the endpoint alone, and those who are setting it.
LEMMA TunnelFrame ==
  ASSUME CallInv, Next
  PROVE  \/ \E p \in Procs : Preview(p) \/ GetTunnelEndpoint(p) \/ SetEndpoint(p) \/ NewRestClient(p)
         \/ /\ UNCHANGED tunnelVars
            /\ \A q \in Procs : Setting(q)' = Setting(q) /\ (Setting(q) => half'[q] = half[q])
  <1> DEFINE Frame == /\ UNCHANGED tunnelVars
                      /\ \A q \in Procs : /\ Setting(q)' = Setting(q)
                                          /\ Setting(q) => half'[q] = half[q]
  <1>0. CallType /\ CallType'
    BY CallStep DEF CallInv
  <1>1. ASSUME NEW p \in Procs, UNCHANGED tunnelVars, pc[p] # "set", pc'[p] # "set",
               \A q \in Procs \ {p} : pc'[q] = pc[q] /\ half'[q] = half[q]
        PROVE  Frame
    BY <1>1 DEF Setting
  <1>2. ASSUME NEW p \in Procs, Loading(p) PROVE Frame
    <2>1. /\ UNCHANGED tunnelVars
          /\ half' = half \/ \E w \in Left(p) : Halfway(p, w)
          /\ pc[p] \in {"get", "text", "parse", "array", "column"}
      BY <1>2 DEF Loading, Get, StoreText, ParseText, MakeArray, StoreColumn, NoColumn, Decodes
    <2>2. \/ \E r : LoadEnds(p, r)
          \/ \E at \in {"get", "text", "parse", "array", "column"} : pc' = Of(pc, p, at)
          \/ pc' = pc
      BY <1>2 DEF Loading, Get, StoreText, ParseText, MakeArray, StoreColumn, NoColumn
    <2>3. \/ \E at \in {"idle", "endpoint", "get", "text", "parse", "array", "column"} : pc' = Of(pc, p, at)
          \/ pc' = pc
      BY <2>2 DEF LoadEnds, Return
    <2>4. \A q \in Procs \ {p} : pc'[q] = pc[q] /\ half'[q] = half[q]
      BY <1>0, <2>1, <2>3 DEF CallType, Of, Halfway
    <2>5. pc'[p] # "set"
      BY <1>0, <2>1, <2>3 DEF CallType, Of
    <2> QED
      BY <1>1, <2>1, <2>4, <2>5
  <1>3. ASSUME NEW p \in Procs, UNCHANGED tunnelVars, half' = half, pc[p] # "set",
               pc' = pc \/ \E at \in Places \ {"set"} : pc' = Of(pc, p, at)
        PROVE  Frame
    <2>1. pc'[p] # "set" /\ \A q \in Procs \ {p} : pc'[q] = pc[q]
      BY <1>0, <1>3 DEF CallType, Of
    <2> QED
      BY <1>1, <1>3, <2>1
  <1>4. ASSUME NEW p \in Procs, UploadStep(p) PROVE Frame
    <2>1. UNCHANGED tunnelVars /\ half' = half /\ pc[p] \in {"idle", "read", "part", "merge"}
      BY <1>4 DEF UploadStep, CreateFileResource, Call, ReadChunk, ReadEnds, ReadFails,
                  CreateTempPartFile, MergeTempPartFile, Quiet
    <2>2. \E at \in {"idle", "read", "part", "merge"} : pc' = Of(pc, p, at)
      BY <1>4 DEF UploadStep, CreateFileResource, Call, ReadChunk, ReadEnds, ReadFails,
                  AfterReadError, CreateTempPartFile, MergeTempPartFile, Return
    <2> QED
      BY <1>3, <2>1, <2>2 DEF Places
  <1>5. ASSUME NEW p \in Procs,
               \/ (\E o \in {"load", "exists"} : StartLoad(p, o))
               \/ (\E n \in Names : Create(p, n) \/ Delete(p, n)) \/ AlterColumnType(p)
               \/ List(p) \/ GetPage(p) \/ HandOut(p) \/ CheckEndpoint(p) \/ ReadPreview(p)
        PROVE  Frame
    <2>1. UNCHANGED tunnelVars /\ half' = half
          /\ pc[p] \in {"idle", "page", "handout", "endpoint", "preview"}
      BY <1>5 DEF StartLoad, Create, Delete, AlterColumnType, Change, Changes, Refused, List, Call,
                  GetPage, HandOut, CheckEndpoint, ReadPreview
    <2>2. \/ pc' = pc
          \/ \E at \in {"get", "idle", "page", "handout", "ask", "build"} : pc' = Of(pc, p, at)
      BY <1>5 DEF StartLoad, Create, Delete, AlterColumnType, Change, Changes, Refused, List, Call,
                  GetPage, HandOut, CheckEndpoint, ReadPreview, Return
    <2> QED
      BY <1>3, <2>1, <2>2 DEF Places
  <1> QED
    BY <1>2, <1>4, <1>5 DEF Next, CatalogStep

LEMMA EndpointStep ==
  ASSUME CallInv, EndpointInv, [Next]_vars
  PROVE  EndpointInv'
  <1>0. CallType /\ PlaceInv
    BY DEF CallInv
  <1>1. ASSUME UNCHANGED tunnelVars,
               \A q \in Procs : Setting(q)' = Setting(q) /\ (Setting(q) => half'[q] = half[q])
        PROVE  EndpointInv'
    BY <1>1 DEF EndpointInv, tunnelVars
  <1>2. CASE UNCHANGED vars
    BY <1>1, <1>2 DEF vars, catalogVars, tunnelVars, Setting
  <1>3. ASSUME NEW p \in Procs, Preview(p) PROVE EndpointInv'
    <2>1. /\ url' = [url EXCEPT ![p] = Empty] /\ UNCHANGED <<endpoint, got, named, torn, half>>
          /\ pc[p] = "idle"
          /\ \E at \in {"endpoint", "get"} : pc' = [pc EXCEPT ![p] = at]
      BY <1>3 DEF Preview, Call, Of
    <2>2. \A q \in Procs : Setting(q)' = Setting(q)
      BY <1>0, <2>1 DEF Setting, CallType
    <2>3. Empty \in [{1, 2} -> named \cup {None}] /\ Whole(Empty)
      BY DEF Empty, Words, Whole
    <2> QED
      BY <2>1, <2>2, <2>3 DEF EndpointInv
  <1>4. ASSUME NEW p \in Procs, GetTunnelEndpoint(p) PROVE EndpointInv'
    <2>1. /\ UNCHANGED <<endpoint, url, torn, half>> /\ named \subseteq named'
          /\ pc[p] = "ask" /\ half[p] = 0
          /\ \/ \E e \in named' : got' = [got EXCEPT ![p] = e] /\ pc' = [pc EXCEPT ![p] = "set"]
             \/ got' = got /\ pc' = [pc EXCEPT ![p] = "idle"]
      BY <1>0, <1>4 DEF GetTunnelEndpoint, NoError, Return, Of, PlaceInv
    <2>2. \A q \in Procs : Setting(q)' = Setting(q) /\ (Setting(q) => got'[q] = got[q])
      BY <1>0, <2>1 DEF Setting, CallType, EndpointInv
    <2>3. got' \in [Procs -> named' \cup {None}]
      BY <2>1 DEF EndpointInv
    <2> QED
      BY <2>1, <2>2, <2>3 DEF EndpointInv
  <1>5. ASSUME NEW p \in Procs, SetEndpoint(p) PROVE EndpointInv'
    <2>1. PICK w \in Left(p) : endpoint' = [endpoint EXCEPT ![w] = got[p]] /\ Halfway(p, w)
      BY <1>5 DEF SetEndpoint, Stored
    <2>2. /\ pc[p] = "set" /\ UNCHANGED <<url, named>>
          /\ torn' = Torn(p)
          /\ half[p] = 0 => pc' = pc /\ got' = got
          /\ half[p] # 0 => pc' = [pc EXCEPT ![p] = "build"] /\ got' = [got EXCEPT ![p] = None]
      BY <1>5 DEF SetEndpoint, Of
    <2>3. /\ half \in [Procs -> {0, 1, 2}] /\ w \in {1, 2} /\ (half[p] # 0 => w = half[p])
          /\ half' = [half EXCEPT ![p] = IF half[p] = 0 THEN 3 - w ELSE 0]
      BY <1>0, <2>1 DEF Left, Halfway, Of, CallType
    <2>4. /\ endpoint' \in [{1, 2} -> named' \cup {None}]
          /\ got' \in [Procs -> named' \cup {None}]
      BY <2>1, <2>2, <2>3 DEF EndpointInv
    <2>5. ASSUME ~torn'
          PROVE  /\ ~torn /\ \A q \in Procs \ {p} : ~Setting(q) /\ ~Setting(q)'
      BY <1>0, <2>2, <2>3, <2>5 DEF Torn, Setting, CallType
    <2>6. CASE half[p] = 0
      <3>1. half'[p] = 3 - w /\ 3 - half'[p] = w /\ got'[p] = got[p]
        BY <2>2, <2>3, <2>6
      <3>2. endpoint'[3 - half'[p]] = got'[p]
        BY <2>1, <2>3, <3>1 DEF EndpointInv
      <3>3. Setting(p)'
        BY <1>0, <2>2, <2>3, <2>6 DEF Setting
      <3> QED
        BY <2>2, <2>4, <2>5, <3>2, <3>3 DEF EndpointInv
    <2>7. CASE half[p] # 0
      <3>1. ~Setting(p)'
        BY <1>0, <2>2, <2>7 DEF Setting, CallType
      <3>2. ~torn => endpoint[3 - w] = got[p]
        BY <2>2, <2>3, <2>7 DEF EndpointInv, Setting
      <3>3. endpoint'[w] = got[p] /\ endpoint'[3 - w] = endpoint[3 - w]
        BY <2>1, <2>3 DEF EndpointInv
      <3>4. ~torn => Whole(endpoint')
        BY <2>3, <3>2, <3>3 DEF Whole
      <3> QED
        BY <2>2, <2>4, <2>5, <3>1, <3>4 DEF EndpointInv
    <2> QED
      BY <2>6, <2>7
  <1>6. ASSUME NEW p \in Procs, NewRestClient(p) PROVE EndpointInv'
    <2>1. /\ pc[p] = "build" /\ url' = [url EXCEPT ![p] = endpoint] /\ torn' = Torn(p)
          /\ pc' = [pc EXCEPT ![p] = "preview"] /\ UNCHANGED <<endpoint, got, named, half>>
      BY <1>6 DEF NewRestClient, Of
    <2>2. \A q \in Procs : Setting(q)' = Setting(q)
      BY <1>0, <2>1 DEF Setting, CallType
    <2>3. ~Setting(p)
      BY <2>1 DEF Setting
    <2>4. ~torn' => ~torn /\ Whole(endpoint)
      BY <2>1, <2>3 DEF Torn, EndpointInv
    <2> QED
      BY <2>1, <2>2, <2>4 DEF EndpointInv
  <1> QED
    BY <1>1, <1>2, <1>3, <1>4, <1>5, <1>6, TunnelFrame

\* Whichever goroutines set and read the endpoint of the shared Tunnel word by word, and
\* however often GetTunnelEndpoint fails, getRestClient makes a client of words the service
\* has named, and of one endpoint's unless a store of another goroutine was under way.
THEOREM ClientsHaveNamedEndpoints == Spec => []EndpointIsNamed
  <1>1. Init => EndpointInv
    BY DEF Init, CatalogInit, EndpointInv, Setting, Whole, Empty, Words
  <1>2. EndpointInv => EndpointIsNamed
    BY DEF EndpointInv, EndpointIsNamed
  <1> QED
    BY <1>1, <1>2, CallInvHolds, EndpointStep, PTL DEF Spec

-----------------------------------------------------------------------------
(* The content of a file resource.                                          *)

LEMMA WholeStep ==
  ASSUME CallInv, ResourceIsWhole, [Next]_vars
  PROVE  ResourceIsWhole'
  <1>1. eager' = eager
    BY DEF Next, CatalogStep, UploadStep, CreateFileResource, ReadChunk, ReadEnds, ReadFails,
           CreateTempPartFile, MergeTempPartFile, uploadVars, vars
  <1>2. ASSUME NEW n \in Names, NEW v, Put(n, v), MayPut(n, v), kind' = kind
        PROVE  ResourceIsWhole'
    <2>1. had' \subseteq had \cup {v}
      BY <1>2 DEF Put
    <2>2. kind = "resource" => v \in {None, Plain} \/ \E p \in Procs : WholeFile(p, v)
      BY <1>2 DEF MayPut, Values, CallInv, UploadInv
    <2> QED
      BY <1>1, <1>2, <2>1, <2>2 DEF ResourceIsWhole, WholeFile
  <1>3. CASE UNCHANGED <<kind, had>>
    BY <1>1, <1>3 DEF ResourceIsWhole
  <1> QED
    BY <1>2, <1>3, ObjectFrame DEF CallInv, NoPut, vars, catalogVars, serviceVars

\* However many uploads of the same name replace each other's parts and fail, what the
\* service merges is the whole content of one of them.
THEOREM MergedFilesAreWhole == Spec => []ResourceIsWhole
  <1>1. Init => ResourceIsWhole
    BY OneIsAName DEF Init, CatalogInit, ResourceIsWhole
  <1> QED
    BY <1>1, CallInvHolds, WholeStep, PTL DEF Spec

-----------------------------------------------------------------------------
(* The pages of a listing.                                                  *)

\* Every non-empty set of natural numbers has a least element.
LEMMA LeastElement ==
  ASSUME NEW T, T \subseteq Nat, T # {}
  PROVE  \E x \in T : \A y \in T : x <= y
  <1>1. PICK R : IsWellFoundedOn(R, Nat) /\ R = OpToRel(<, Nat)
    BY NatLessThanWellFounded
  <1>2. \A m, n \in Nat : m < n => <<m, n>> \in R
    BY <1>1, Zenon DEF OpToRel
  <1>3. PICK x \in T : \A y \in T : ~ (<<y, x>> \in R)
    BY <1>1, WFMin
  <1>4. \A y \in T : ~ (y < x)
    BY <1>2, <1>3, Zenon
  <1>5. \A y \in T : x <= y
    BY <1>4, SMT
  <1> QED
    BY <1>5

\* A set of names that is not empty has a last one, which is what CHOOSE picks.
LEMMA LastName ==
  ASSUME NEW S \in SUBSET Names, S # {}
  PROVE  LET last == CHOOSE n \in S : \A m \in S : m <= n
         IN  last \in S /\ \A m \in S : m <= last
  <1> DEFINE T == {NumNames - n : n \in S}
  <1>0. \A n \in S : NumNames - n \in Nat
    BY CatalogAssumption DEF Names
  <1>1. T \subseteq Nat /\ T # {}
    BY <1>0
  <1> HIDE DEF T
  <1>2. PICK x \in T : \A y \in T : x <= y
    BY <1>1, LeastElement
  <1>3. PICK n \in S : x = NumNames - n
    BY DEF T
  <1>4. \A m \in S : NumNames - m \in T
    BY DEF T
  <1>5. \A m \in S : m <= n
    BY <1>2, <1>3, <1>4, CatalogAssumption DEF Names
  <1> QED
    BY <1>5

\* How many names of S come before n.
Before(S, n) == {m \in S : m < n}

LEMMA FiniteNames ==
  ASSUME NEW S \in SUBSET Names
  PROVE  /\ IsFiniteSet(S) /\ Cardinality(S) \in Nat
         /\ \A n : /\ Before(S, n) \in SUBSET S /\ IsFiniteSet(Before(S, n))
                   /\ Cardinality(Before(S, n)) \in Nat
  <1>1. IsFiniteSet(Names)
    <2>1. 1 \in Int /\ NumNames \in Int
      BY CatalogAssumption
    <2> QED
      BY <2>1, FS_Interval DEF Names
  <1>2. IsFiniteSet(S) /\ Cardinality(S) \in Nat
    BY <1>1, FS_Subset, FS_CardinalityType
  <1>3. ASSUME NEW n PROVE /\ Before(S, n) \in SUBSET S /\ IsFiniteSet(Before(S, n))
                           /\ Cardinality(Before(S, n)) \in Nat
    <2>1. Before(S, n) \in SUBSET S
      BY DEF Before
    <2> QED
      BY <1>2, <2>1, FS_Subset, FS_CardinalityType
  <1> QED
    BY <1>2, <1>3

\* More names come before a later name of S, and fewer than all before one of them.
LEMMA BeforeGrows ==
  ASSUME NEW S \in SUBSET Names, NEW n \in S
  PROVE  /\ Cardinality(Before(S, n)) < Cardinality(S)
         /\ \A m \in S : n < m => Cardinality(Before(S, n)) < Cardinality(Before(S, m))
  <1>1. ASSUME NEW U, IsFiniteSet(U), Cardinality(U) \in Nat, Before(S, n) \in SUBSET U, n \in U
        PROVE  Cardinality(Before(S, n)) < Cardinality(U)
    <2>1. n \notin Before(S, n)
      BY DEF Before, Names
    <2>2. Cardinality(Before(S, n)) <= Cardinality(U)
          /\ (Cardinality(U) = Cardinality(Before(S, n)) => U = Before(S, n))
      BY <1>1, FS_Subset
    <2>3. Cardinality(Before(S, n)) \in Nat
      BY FiniteNames
    <2> QED
      BY <1>1, <2>1, <2>2, <2>3
  <1>2. Cardinality(Before(S, n)) < Cardinality(S)
    BY <1>1, FiniteNames
  <1>3. ASSUME NEW m \in S, n < m PROVE Cardinality(Before(S, n)) < Cardinality(Before(S, m))
    <2>1. Before(S, n) \in SUBSET Before(S, m) /\ n \in Before(S, m)
      <3>1. S \subseteq Int /\ n \in Int /\ m \in Int
        BY <1>3 DEF Names
      <3>2. ASSUME NEW k \in S, k < n PROVE k < m
        BY <1>3, <3>1, <3>2
      <3> QED
        BY <1>3, <3>2 DEF Before
    <2> QED
      BY <1>1, <2>1, FiniteNames
  <1> QED
    BY <1>2, <1>3

\* A page holds, of the names behind its marker, all up to the last one it holds, and
\* is empty only if there are none.
LEMMA PageIsInitial ==
  ASSUME NEW m \in Nat
  PROVE  /\ After(m) \in SUBSET Names /\ InPage(m) \in SUBSET After(m)
         /\ \A n \in InPage(m), k \in After(m) : k < n => k \in InPage(m)
         /\ After(m) # {} => InPage(m) # {}
  <1> DEFINE A == After(m)
             P == InPage(m)
  <1>1. A \in SUBSET Names /\ P \in SUBSET A
    BY DEF After, InPage, Existing
  <1>2. P = {n \in A : Cardinality(Before(A, n)) < PageSize}
    BY DEF InPage, Before
  <1> HIDE DEF A, P
  <1>3. ASSUME NEW n \in P, NEW k \in A, k < n PROVE k \in P
    <2>1. n \in A /\ Cardinality(Before(A, n)) < PageSize
      BY <1>2
    <2>2. Cardinality(Before(A, k)) < Cardinality(Before(A, n))
      BY <1>1, <1>3, <2>1, BeforeGrows
    <2>3. Cardinality(Before(A, k)) \in Nat /\ Cardinality(Before(A, n)) \in Nat
      BY <1>1, FiniteNames
    <2>4. Cardinality(Before(A, k)) < PageSize
      BY <2>1, <2>2, <2>3, CatalogAssumption
    <2> QED
      BY <1>2, <2>4
  <1>4. ASSUME A # {} PROVE P # {}
    <2>1. A \subseteq Nat
      BY <1>1, OneIsAName
    <2>2. PICK x \in A : \A y \in A : x <= y
      BY <1>4, <2>1, LeastElement
    <2>3. Before(A, x) = {}
      <3>1. \A y \in A : ~(y < x)
        BY <2>1, <2>2
      <3> QED
        BY <3>1 DEF Before
    <2>4. Cardinality(Before(A, x)) = 0
      BY <2>3, FS_EmptySet
    <2> QED
      BY <1>2, <2>4, CatalogAssumption
  <1> QED
    BY <1>1, <1>3, <1>4 DEF A, P

Elements(s) == {s[k] : k \in 1 .. Len(s)}
Distinct(s) == \A i, j \in 1 .. Len(s) : s[i] = s[j] => i = j

\* A page in ascending order has every name of its set, once.
LEMMA AscendingLists ==
  ASSUME NEW S \in SUBSET Names
  PROVE  /\ Ascending(S) \in Seq(Names)
         /\ Elements(Ascending(S)) = S /\ Distinct(Ascending(S))
  <1> DEFINE N == Cardinality(S)
             rank == [n \in S |-> Cardinality(Before(S, n)) + 1]
             Nth(k) == CHOOSE n \in S : Cardinality(Before(S, n)) = k - 1
  <1>1. N \in Nat /\ IsFiniteSet(S) /\ S \subseteq Nat
    BY FiniteNames, OneIsAName
  <1>2. \A n \in S : Cardinality(Before(S, n)) \in Nat /\ Cardinality(Before(S, n)) < N
    BY FiniteNames, BeforeGrows
  <1>3. rank \in [S -> 1 .. N]
    BY <1>1, <1>2
  <1>4. ASSUME NEW a \in S, NEW b \in S, Cardinality(Before(S, a)) = Cardinality(Before(S, b))
        PROVE  a = b
    <2>1. ~(a < b) /\ ~(b < a)
      BY <1>2, <1>4, BeforeGrows
    <2> QED
      BY <1>1, <2>1
  <1>5. rank \in Injection(S, 1 .. N)
    <2>1. ASSUME NEW a \in S, NEW b \in S, rank[a] = rank[b] PROVE a = b
      <3>1. rank[a] = Cardinality(Before(S, a)) + 1 /\ rank[b] = Cardinality(Before(S, b)) + 1
        OBVIOUS
      <3>2. Cardinality(Before(S, a)) = Cardinality(Before(S, b))
        BY <1>2, <2>1, <3>1
      <3> QED
        BY <1>4, <3>2
    <2> HIDE DEF rank
    <2> QED
      BY <1>3, <2>1 DEF Injection, IsInjective
  <1>6. IsFiniteSet(1 .. N) /\ Cardinality(1 .. N) = N
    <2>1. 1 \in Int /\ N \in Int
      BY <1>1
    <2>2. IsFiniteSet(1 .. N) /\ Cardinality(1 .. N) = IF 1 > N THEN 0 ELSE N - 1 + 1
      BY <2>1, FS_Interval
    <2> QED
      BY <1>1, <2>2
  <1>7. rank \in Surjection(S, 1 .. N)
    BY <1>5, <1>6, FS_Injection
  <1>8. ASSUME NEW k \in 1 .. N PROVE Nth(k) \in S /\ Cardinality(Before(S, Nth(k))) = k - 1
    <2>1. \E n \in S : rank[n] = k
      BY <1>7 DEF Surjection
    <2>2. \E n \in S : Cardinality(Before(S, n)) = k - 1
      BY <1>1, <1>2, <2>1
    <2> QED
      BY <2>2
  <1>9. Ascending(S) = [k \in 1 .. N |-> Nth(k)]
    BY DEF Ascending, Before
  <1>10. \A n \in S : \E k \in 1 .. N : Nth(k) = n
    <2> TAKE n \in S
    <2>1. rank[n] \in 1 .. N /\ rank[n] - 1 = Cardinality(Before(S, n))
      BY <1>2, <1>3
    <2>2. Nth(rank[n]) \in S /\ Cardinality(Before(S, Nth(rank[n]))) = rank[n] - 1
      BY <1>8, <2>1
    <2> QED
      BY <1>4, <2>1, <2>2
  <1> HIDE DEF N, rank, Nth
  <1>11. Ascending(S) \in Seq(Names) /\ Len(Ascending(S)) = N
         /\ \A k \in 1 .. N : Ascending(S)[k] = Nth(k)
    <2>1. \A k \in 1 .. N : Nth(k) \in Names
      BY <1>8
    <2> QED
      BY <1>1, <1>9, <2>1
  <1>12. Elements(Ascending(S)) = S
    BY <1>8, <1>10, <1>11 DEF Elements
  <1>13. Distinct(Ascending(S))
    <2>1. ASSUME NEW i \in 1 .. N, NEW j \in 1 .. N, Nth(i) = Nth(j) PROVE i = j
      BY <1>1, <1>8, <2>1
    <2> QED
      BY <1>11, <2>1 DEF Distinct
  <1> QED
    BY <1>11, <1>12, <1>13

LEMMA ElementsAreNames ==
  ASSUME NEW s \in Seq(Names)
  PROVE  Elements(s) \subseteq Names
  BY DEF Elements

\* A page is added to names listed before it.
LEMMA PageAdded ==
  ASSUME NEW s \in Seq(Names), NEW t \in Seq(Names), Distinct(s), Distinct(t),
         \A a \in Elements(s), b \in Elements(t) : a # b
  PROVE  /\ s \o t \in Seq(Names)
         /\ Distinct(s \o t) /\ Elements(s \o t) = Elements(s) \cup Elements(t)
  <1> DEFINE u == s \o t
  <1>1. u \in Seq(Names) /\ Len(u) = Len(s) + Len(t) /\ Len(s) \in Nat /\ Len(t) \in Nat
    BY ConcatProperties
  <1>2. \A i \in 1 .. Len(u) : u[i] = IF i <= Len(s) THEN s[i] ELSE t[i - Len(s)]
    BY ConcatProperties
  <1> HIDE DEF u
  <1>3. \A i \in 1 .. Len(s) : s[i] \in Elements(s) /\ i \in 1 .. Len(u) /\ u[i] = s[i]
    BY <1>1, <1>2 DEF Elements
  <1>4. \A i \in 1 .. Len(t) : t[i] \in Elements(t) /\ Len(s) + i \in 1 .. Len(u) /\ u[Len(s) + i] = t[i]
    BY <1>1, <1>2 DEF Elements
  <1>5. \A i \in 1 .. Len(u) : i \in 1 .. Len(s) \/ (i > Len(s) /\ i - Len(s) \in 1 .. Len(t))
    BY <1>1
  <1>8. ASSUME NEW i \in 1 .. Len(u)
        PROVE  (i <= Len(s) => u[i] \in Elements(s)) /\ (i > Len(s) => u[i] \in Elements(t))
    <2>1. CASE i <= Len(s)
      BY <1>1, <1>3, <2>1
    <2>2. CASE i > Len(s)
      <3> DEFINE j == i - Len(s)
      <3>1. j \in 1 .. Len(t)
        BY <1>1, <2>2
      <3>2. u[i] = t[j]
        BY <1>1, <1>2, <2>2
      <3> HIDE DEF j
      <3>3. t[j] \in Elements(t)
        BY <1>4, <3>1
      <3> QED
        BY <1>1, <2>2, <3>2, <3>3
    <2> QED
      BY <1>1, <2>1, <2>2
  <1>6. Elements(u) = Elements(s) \cup Elements(t)
    <2>1. \A i \in 1 .. Len(u) : u[i] \in Elements(s) \cup Elements(t)
      BY <1>1, <1>8
    <2>2. \A a \in Elements(s) : \E i \in 1 .. Len(u) : u[i] = a
      BY <1>3 DEF Elements
    <2>3. \A a \in Elements(t) : \E i \in 1 .. Len(u) : u[i] = a
      BY <1>4 DEF Elements
    <2>4. \A a : a \in Elements(u) <=> \E i \in 1 .. Len(u) : u[i] = a
      BY DEF Elements
    <2> QED
      BY <2>1, <2>2, <2>3, <2>4
  <1>7. ASSUME NEW i \in 1 .. Len(u), NEW j \in 1 .. Len(u), u[i] = u[j] PROVE i = j
    <2>1. CASE i <= Len(s) /\ j <= Len(s)
      BY <1>1, <1>2, <1>5, <1>7, <2>1 DEF Distinct
    <2>2. CASE i > Len(s) /\ j > Len(s)
      BY <1>1, <1>2, <1>5, <1>7, <2>2 DEF Distinct
    <2>3. CASE i <= Len(s) /\ j > Len(s)
      <3>1. u[i] \in Elements(s) /\ u[j] \in Elements(t)
        BY <1>8, <2>3
      <3> QED
        BY <1>7, <3>1
    <2>4. CASE i > Len(s) /\ j <= Len(s)
      <3>1. u[j] \in Elements(s) /\ u[i] \in Elements(t)
        BY <1>8, <2>4
      <3> QED
        BY <1>7, <3>1
    <2> QED
      BY <1>1, <2>1, <2>2, <2>3, <2>4
  <1> QED
    BY <1>1, <1>6, <1>7 DEF u, Distinct

\* What a listing has got: no name twice, none that never was there, ...
Sound(p, s) == Distinct(s) /\ Elements(s) \subseteq ever[p]
\* ... and of the names that were there throughout, all up to the marker m.
UpTo(p, s, m) ==
  /\ \A n \in Elements(s) : n <= m
  /\ \A n \in always[p] : n <= m => n \in Elements(s)

ListInv ==
  /\ marker \in [Procs -> Nat]
  /\ page \in [Procs -> Seq(Names)] /\ listed \in [Procs -> Seq(Names)]
  /\ \A p \in Procs :
       /\ pc[p] \in {"page", "handout"} => out[p] = "none"
       /\ pc[p] = "page" => /\ page[p] = <<>>
                            /\ Sound(p, listed[p]) /\ UpTo(p, listed[p], marker[p])
       /\ pc[p] = "handout" =>
            LET s == listed[p] \o page[p]
            IN  /\ Sound(p, s)
                /\ IF marker[p] = 0 THEN always[p] \subseteq Elements(s) ELSE UpTo(p, s, marker[p])
       /\ op[p] = "list" /\ out[p] = "ok" => Sound(p, listed[p]) /\ always[p] \subseteq Elements(listed[p])

\* Every other step leaves the listing of its goroutine, which is in another call then.
LEMMA ListFrame ==
  ASSUME CallInv, Next
  PROVE  \E p \in Procs :
           /\ \A q \in Procs \ {p} : pc'[q] = pc[q] /\ op'[q] = op[q] /\ out'[q] = out[q]
           /\ \/ List(p) \/ GetPage(p) \/ HandOut(p)
              \/ UNCHANGED listVars /\ op'[p] # "list" /\ pc'[p] \notin {"page", "handout"}
  <1> DEFINE Frame(p) ==
        /\ \A q \in Procs \ {p} : pc'[q] = pc[q] /\ op'[q] = op[q] /\ out'[q] = out[q]
        /\ \/ List(p) \/ GetPage(p) \/ HandOut(p)
           \/ UNCHANGED listVars /\ op'[p] # "list" /\ pc'[p] \notin {"page", "handout"}
  <1> USE DEF Of
  <1>0. CallType /\ PlaceInv
    BY DEF CallInv
  <1>1. ASSUME NEW p \in Procs, List(p) \/ GetPage(p) \/ HandOut(p) PROVE Frame(p)
    <2>1. \A q \in Procs \ {p} : pc'[q] = pc[q] /\ op'[q] = op[q] /\ out'[q] = out[q]
      BY <1>0, <1>1 DEF List, GetPage, HandOut, Call, Return, CallType
    <2> QED
      BY <1>1, <2>1
  <1>2. ASSUME NEW p \in Procs, NEW o \in Calls \ {"list"}, NEW at \in Places \ {"page", "handout"},
               Call(p, o, at), UNCHANGED listVars
        PROVE  Frame(p)
    BY <1>0, <1>2 DEF Call, CallType
  <1>3. ASSUME NEW p \in Procs, NEW n \in Names,
               Create(p, n) \/ Delete(p, n) \/ AlterColumnType(p)
        PROVE  Frame(p)
    <2>1. op' = Of(op, p, "change") /\ pc' = pc /\ pc[p] = "idle" /\ UNCHANGED listVars
      BY <1>3 DEF Create, Delete, AlterColumnType, Change, Changes, Refused, listVars
    <2>2. \E o : out' = Of(out, p, o)
      BY <1>3 DEF Create, Delete, AlterColumnType, Change, Refused
    <2> QED
      BY <1>0, <2>1, <2>2 DEF CallType
  <1>4. ASSUME NEW p \in Procs, op' = op, UNCHANGED listVars, pc[p] \notin {"idle", "page", "handout"},
               out' = out \/ \E o : out' = Of(out, p, o),
               \E at \in Places \ {"page", "handout"} : pc' = Of(pc, p, at)
        PROVE  Frame(p)
    <2>1. op[p] # "list" /\ pc \in [Procs -> Places] /\ op \in [Procs -> Calls]
          /\ out \in [Procs -> Outcomes]
      BY <1>0, <1>4 DEF CallType, PlaceInv, Places, Decoding
    <2> HIDE DEF Places
    <2> QED
      BY <1>4, <2>1
  <1>5. ASSUME NEW p \in Procs, Loading(p) PROVE Frame(p)
    <2>1. op' = op /\ UNCHANGED listVars /\ pc[p] \in {"get", "text", "parse", "array", "column"}
      BY <1>5 DEF Loading, Get, StoreText, ParseText, MakeArray, StoreColumn, NoColumn, Decodes,
                  listVars
    <2>2. \/ \E r : LoadEnds(p, r)
          \/ out' = out /\ \E at \in {"get", "text", "parse", "array", "column"} : pc' = Of(pc, p, at)
      BY <1>0, <1>5 DEF Loading, Get, StoreText, ParseText, MakeArray, StoreColumn, NoColumn,
                        CallType
    <2>3. /\ out' = out \/ \E o : out' = Of(out, p, o)
          /\ \E at \in {"idle", "endpoint", "get", "text", "parse", "array", "column"} :
               pc' = Of(pc, p, at)
      BY <2>2 DEF LoadEnds, Return
    <2> QED
      BY <1>4, <2>1, <2>3 DEF Places
  <1>6. ASSUME NEW p \in Procs, \/ CheckEndpoint(p) \/ GetTunnelEndpoint(p) \/ SetEndpoint(p)
                                \/ NewRestClient(p) \/ ReadPreview(p)
        PROVE  Frame(p)
    <2>1. /\ op' = op /\ UNCHANGED listVars
          /\ pc[p] \in {"endpoint", "ask", "set", "build", "preview"}
      BY <1>6 DEF CheckEndpoint, GetTunnelEndpoint, SetEndpoint, NewRestClient, ReadPreview, listVars
    <2>2. /\ out' = out \/ \E o : out' = Of(out, p, o)
          /\ \E at \in {"idle", "ask", "set", "build", "preview"} : pc' = Of(pc, p, at)
      BY <1>0, <1>6 DEF CallType, CheckEndpoint, GetTunnelEndpoint, SetEndpoint, NewRestClient, ReadPreview, Return
    <2> QED
      BY <1>4, <2>1, <2>2 DEF Places
  <1>7. ASSUME NEW p \in Procs, \/ ReadChunk(p) \/ ReadEnds(p) \/ ReadFails(p)
                                \/ CreateTempPartFile(p) \/ MergeTempPartFile(p)
        PROVE  Frame(p)
    <2>1. op' = op /\ UNCHANGED listVars /\ pc[p] \in {"read", "part", "merge"}
      BY <1>7 DEF ReadChunk, ReadEnds, ReadFails, CreateTempPartFile, MergeTempPartFile, Quiet,
                  listVars
    <2>2. /\ out' = out \/ \E o : out' = Of(out, p, o)
          /\ \E at \in {"idle", "read", "part", "merge"} : pc' = Of(pc, p, at)
      BY <1>7 DEF ReadChunk, ReadEnds, ReadFails, CreateTempPartFile, MergeTempPartFile,
                  AfterReadError, Return
    <2> QED
      BY <1>4, <2>1, <2>2 DEF Places
  <1>8. ASSUME NEW p \in Procs, \/ (\E o \in {"load", "exists"} : StartLoad(p, o))
                                \/ Preview(p) \/ CreateFileResource(p)
        PROVE  Frame(p)
    <2>1. UNCHANGED listVars /\ \E o \in {"load", "exists", "preview", "upload"},
                                   at \in {"get", "endpoint", "read"} : Call(p, o, at)
      BY <1>8 DEF StartLoad, Preview, CreateFileResource, listVars
    <2> QED
      BY <1>2, <2>1 DEF Calls, Places
  <1>9. \E p \in Procs : Frame(p)
    BY <1>1, <1>3, <1>5, <1>6, <1>7, <1>8, OneIsAName DEF Next, CatalogStep, UploadStep
  <1> QED
    BY <1>9

LEMMA ListStep ==
  ASSUME CallInv, ListInv, [Next]_vars
  PROVE  ListInv'
  <1> DEFINE Kept(p) ==
        /\ pc[p] \in {"page", "handout"} => out[p] = "none"
        /\ pc[p] = "page" => /\ page[p] = <<>>
                             /\ Sound(p, listed[p]) /\ UpTo(p, listed[p], marker[p])
        /\ pc[p] = "handout" =>
             LET s == listed[p] \o page[p]
             IN  /\ Sound(p, s)
                 /\ IF marker[p] = 0 THEN always[p] \subseteq Elements(s) ELSE UpTo(p, s, marker[p])
        /\ op[p] = "list" /\ out[p] = "ok" =>
             Sound(p, listed[p]) /\ always[p] \subseteq Elements(listed[p])
             Types == /\ marker \in [Procs -> Nat]
                      /\ page \in [Procs -> Seq(Names)] /\ listed \in [Procs -> Seq(Names)]
  <1>0. CallType /\ PlaceInv /\ ObjectInv /\ HistoryInv /\ Types /\ \A q \in Procs : Kept(q)
    BY DEF CallInv, ListInv
  <1>1. CASE UNCHANGED vars
    BY <1>1 DEF vars, catalogVars, listVars, ListInv, Sound, UpTo
  <1>2. ASSUME Next PROVE ListInv'
    <2>1. PICK p \in Procs :
            /\ \A q \in Procs \ {p} : pc'[q] = pc[q] /\ op'[q] = op[q] /\ out'[q] = out[q]
            /\ \/ List(p) \/ GetPage(p) \/ HandOut(p)
               \/ UNCHANGED listVars /\ op'[p] # "list" /\ pc'[p] \notin {"page", "handout"}
      BY <1>2, ListFrame
    <2>2. ASSUME NEW q \in Procs, q # p,
                 marker'[q] = marker[q], page'[q] = page[q], listed'[q] = listed[q]
          PROVE  Kept(q)'
      <3>1. CASE pc[q] = "idle" /\ out[q] = "none"
        BY <2>1, <2>2, <3>1
      <3>2. CASE pc[q] # "idle" \/ out[q] # "none"
        <4>1. always'[q] \subseteq always[q] /\ ever[q] \subseteq ever'[q]
          BY <1>2, <2>1, <2>2, <3>2, HistoryGrows
        <4> QED
          BY <1>0, <2>1, <2>2, <4>1 DEF Sound, UpTo
      <3> QED
        BY <3>1, <3>2
    <2>3. ASSUME Types', Kept(p)',
                 \A q \in Procs \ {p} :
                   marker'[q] = marker[q] /\ page'[q] = page[q] /\ listed'[q] = listed[q]
          PROVE  ListInv'
      <3>1. \A q \in Procs : Kept(q)'
        BY <2>2, <2>3
      <3> QED
        BY <2>3, <3>1 DEF ListInv
    <2>4. CASE List(p)
      <3>1. /\ marker' = Of(marker, p, 0) /\ page' = Of(page, p, <<>>)
            /\ listed' = Of(listed, p, <<>>) /\ pc' = Of(pc, p, "page") /\ out' = Of(out, p, "none")
        BY <2>4 DEF List, Call
      <3>2. /\ marker'[p] = 0 /\ page'[p] = <<>> /\ listed'[p] = <<>> /\ pc'[p] = "page"
            /\ out'[p] = "none"
        BY <1>0, <3>1 DEF Of, CallType
      <3>3. Types'
        BY <1>0, <3>1 DEF Of
      <3>4. HistoryInv'
        BY <1>2, HistoryStep DEF CallInv
      <3>5. Elements(listed'[p]) = {} /\ Distinct(listed'[p])
        BY <3>2 DEF Elements, Distinct
      <3>6. Kept(p)'
        BY <3>2, <3>4, <3>5 DEF Sound, UpTo, HistoryInv, Names
      <3> QED
        BY <1>0, <2>3, <3>1, <3>3, <3>6 DEF Of
    <2>5. CASE GetPage(p)
      <3> DEFINE m == marker[p]
                 S == InPage(m)
                 last == CHOOSE n \in S : \A k \in S : k <= n
      <3>1. /\ pc[p] = "page" /\ op[p] = "list" /\ op' = op /\ listed' = listed
            /\ always' = always /\ ever' = ever
        BY <1>0, <2>5 DEF GetPage, PlaceInv, NoPut
      <3>2. ASSUME UNCHANGED <<marker, page>>, Return(p, "error") PROVE ListInv'
        <4>1. pc'[p] = "idle" /\ out'[p] = "error"
          BY <1>0, <3>2 DEF Return, Of, CallType
        <4> QED
          BY <1>0, <2>3, <3>1, <3>2, <4>1
      <3>3. ASSUME page' = Of(page, p, page[p] \o Ascending(S)),
                   marker' = Of(marker, p, IF S # After(m) THEN last ELSE 0),
                   pc' = Of(pc, p, "handout"), out' = out
            PROVE  ListInv'
        <4>1. /\ After(m) \in SUBSET Names /\ S \in SUBSET After(m)
              /\ \A n \in S, k \in After(m) : k < n => k \in S
              /\ After(m) # {} => S # {}
          BY <1>0, PageIsInitial
        <4>2. /\ Ascending(S) \in Seq(Names)
              /\ Elements(Ascending(S)) = S /\ Distinct(Ascending(S))
          BY <4>1, AscendingLists
        <4>3. page[p] = <<>> /\ Sound(p, listed[p]) /\ UpTo(p, listed[p], m)
          BY <1>0, <3>1
        <4>4. /\ \A n \in After(m) : n \in Existing /\ n > m
              /\ \A n \in Existing : n > m => n \in After(m)
          BY DEF After
        <4>5. S # After(m) => last \in S /\ \A k \in S : k <= last
          BY <4>1, LastName
        <4>6. page'[p] = Ascending(S) /\ page' = Of(page, p, Ascending(S))
          BY <1>0, <3>3, <4>2, <4>3 DEF Of
        <4>7. marker'[p] = (IF S # After(m) THEN last ELSE 0)
          BY <1>0, <3>3 DEF Of
        <4> HIDE DEF S, m, last
        <4>s. PICK s : s = listed[p] \o Ascending(S)
          OBVIOUS
        <4>17. Elements(listed[p]) \subseteq Nat
          <5>1. listed[p] \in Seq(Names)
            BY <1>0
          <5> QED
            BY <5>1, ElementsAreNames, OneIsAName
        <4>8. \A a \in Elements(listed[p]), b \in Elements(Ascending(S)) : a # b
          <5>1. m \in Nat
            BY <1>0 DEF m
          <5>2. \A a \in Elements(listed[p]) : a <= m
            BY <4>3 DEF UpTo
          <5>3. \A b \in S : b > m /\ b \in Nat
            BY <4>1, <4>4, OneIsAName
          <5> QED
            BY <4>2, <4>17, <5>1, <5>2, <5>3
        <4>9. s \in Seq(Names) /\ Distinct(s) /\ Elements(s) = Elements(listed[p]) \cup S
          <5>1. listed[p] \in Seq(Names) /\ Distinct(listed[p])
            BY <1>0, <4>3 DEF Sound
          <5> QED
            BY <4>s, <4>2, <4>8, <5>1, PageAdded
        <4>10. always[p] \subseteq Existing /\ Existing \subseteq ever[p] /\ m \in Nat
          BY <1>0, <3>1 DEF HistoryInv, m
        <4>11. Sound(p, s)
          BY <4>1, <4>3, <4>4, <4>9, <4>10 DEF Sound
        <4>12. S = After(m) => always[p] \subseteq Elements(s)
          <5> SUFFICES ASSUME S = After(m), NEW n \in always[p] PROVE n \in Elements(s)
            OBVIOUS
          <5>1. n \in Existing /\ n \in Nat
            BY <4>10, OneIsAName DEF Existing
          <5>2. CASE n <= m
            BY <4>3, <4>9, <5>2 DEF UpTo
          <5>3. CASE n > m
            BY <4>4, <4>9, <5>1, <5>3
          <5> QED
            BY <4>10, <5>1, <5>2, <5>3
        <4>13. ASSUME S # After(m) PROVE last \in Nat \ {0} /\ UpTo(p, s, last)
          <5>1. last \in S /\ last \in Names /\ last > m /\ S \subseteq Nat
            BY <4>1, <4>4, <4>5, <4>13, OneIsAName
          <5>2. last \in Nat \ {0}
            BY <5>1, OneIsAName DEF Names
          <5>3. ASSUME NEW n \in Elements(s) PROVE n <= last
            <6>1. CASE n \in S
              BY <4>5, <4>13, <6>1
            <6>2. CASE n \in Elements(listed[p])
              <7>1. n <= m
                BY <4>3, <6>2 DEF UpTo
              <7>2. n \in Nat
                BY <4>17, <6>2
              <7> QED
                BY <4>10, <5>1, <5>2, <7>1, <7>2
            <6> QED
              BY <4>9, <6>1, <6>2
          <5>4. ASSUME NEW n \in always[p], n <= last PROVE n \in Elements(s)
            <6>1. n \in Existing /\ n \in Nat
              BY <4>10, OneIsAName DEF Existing
            <6>2. CASE n <= m
              BY <4>3, <4>9, <6>2 DEF UpTo
            <6>3. CASE n > m
              <7>1. n \in After(m)
                BY <4>4, <6>1, <6>3
              <7>2. n = last \/ n < last
                BY <5>2, <5>4, <6>1
              <7>3. n \in S
                BY <4>1, <5>1, <7>1, <7>2
              <7> QED
                BY <4>9, <7>3
            <6> QED
              BY <4>10, <6>1, <6>2, <6>3
          <5> QED
            BY <5>2, <5>3, <5>4 DEF UpTo
        <4>14. Types'
          <5>1. marker' \in [Procs -> Nat]
            BY <1>0, <3>3, <4>13 DEF Of
          <5> QED
            BY <1>0, <3>1, <4>2, <4>6, <5>1 DEF Of
        <4>15. pc'[p] = "handout" /\ out'[p] = "none" /\ op'[p] = op[p] /\ listed'[p] = listed[p]
          BY <1>0, <3>1, <3>3 DEF Of, CallType
        <4>16. Kept(p)'
          <5>1. (listed[p] \o page[p])' = s
            BY <4>s, <4>6, <4>15
          <5>2. Sound(p, s)'
            BY <3>1, <4>11 DEF Sound
          <5>3. IF marker'[p] = 0 THEN always'[p] \subseteq Elements(s) ELSE UpTo(p, s, marker[p])'
            BY <3>1, <4>7, <4>12, <4>13 DEF UpTo
          <5>4. /\ Sound(p, listed[p] \o page[p])'
                /\ (IF marker[p] = 0 THEN always[p] \subseteq Elements(listed[p] \o page[p])
                    ELSE UpTo(p, listed[p] \o page[p], marker[p]))'
            BY <5>1, <5>2, <5>3 DEF Sound, UpTo
          <5> QED
            BY <4>15, <5>4
        <4> QED
          BY <1>0, <2>3, <3>1, <3>3, <4>14, <4>16 DEF Of
      <3> QED
        BY <2>5, <3>2, <3>3 DEF GetPage
    <2>6. CASE HandOut(p)
      <3>1. /\ pc[p] = "handout" /\ op' = op /\ marker' = marker
            /\ always' = always /\ ever' = ever
            /\ listed' = Of(listed, p, listed[p] \o page[p]) /\ page' = Of(page, p, <<>>)
            /\ IF marker[p] # 0 THEN pc' = Of(pc, p, "page") /\ out' = out ELSE Return(p, "ok")
        BY <2>6 DEF HandOut, NoPut, NewModel
      <3> DEFINE s == listed[p] \o page[p]
      <3>2. /\ s \in Seq(Names) /\ Sound(p, s)
            /\ IF marker[p] = 0 THEN always[p] \subseteq Elements(s) ELSE UpTo(p, s, marker[p])
        <4>1. listed[p] \in Seq(Names) /\ page[p] \in Seq(Names)
          BY <1>0
        <4> QED
          BY <1>0, <3>1, <4>1, ConcatProperties
      <3> HIDE DEF s
      <3>3. Types'
        BY <1>0, <3>1, <3>2 DEF Of, s
      <3>4. listed'[p] = s /\ page'[p] = <<>> /\ marker'[p] = marker[p] /\ op'[p] = op[p]
        BY <1>0, <3>1 DEF Of, s
      <3>5. /\ marker[p] # 0 => pc'[p] = "page" /\ out'[p] = out[p]
            /\ marker[p] = 0 => pc'[p] = "idle" /\ out'[p] = "ok"
        BY <1>0, <3>1 DEF Return, Of, CallType
      <3>6. out[p] = "none"
        BY <1>0, <3>1
      <3>7. Kept(p)'
        BY <3>1, <3>2, <3>4, <3>5, <3>6 DEF Sound, UpTo
      <3> QED
        BY <1>0, <2>3, <3>1, <3>3, <3>7 DEF Of
    <2>7. CASE UNCHANGED listVars /\ op'[p] # "list" /\ pc'[p] \notin {"page", "handout"}
      BY <1>0, <2>3, <2>7 DEF listVars
    <2> QED
      BY <2>1, <2>4, <2>5, <2>6, <2>7
  <1> QED
    BY <1>1, <1>2

\* A sequence without repetition has as many elements as it is long.
LEMMA ElementsCounted ==
  ASSUME NEW s \in Seq(Names), Distinct(s)
  PROVE  Cardinality(Elements(s)) = Len(s)
  <1> DEFINE I == 1 .. Len(s)
  <1>1. Len(s) \in Nat /\ s \in [I -> Names]
    OBVIOUS
  <1>2. s \in Injection(I, Elements(s)) /\ s \in Surjection(I, Elements(s))
    BY <1>1 DEF Injection, IsInjective, Surjection, Elements, Distinct
  <1>3. s \in Bijection(I, Elements(s))
    BY <1>2 DEF Bijection
  <1>4. IsFiniteSet(I) /\ Cardinality(I) = Len(s)
    <2>1. 1 \in Int /\ Len(s) \in Int
      BY <1>1
    <2>2. IsFiniteSet(I) /\ Cardinality(I) = IF 1 > Len(s) THEN 0 ELSE Len(s) - 1 + 1
      BY <2>1, FS_Interval
    <2> QED
      BY <1>1, <2>2
  <1> QED
    BY <1>3, <1>4, FS_Bijection DEF ExistsBijection

\* A listing that ends without an error is complete (ListingIsComplete): whatever is created
\* and dropped between its pages, GetWithModel and the callback have every name up to the
\* marker that was there throughout, and none twice (ListInv).
THEOREM ListingsAreComplete == Spec => []ListingIsComplete
  <1>1. Init => ListInv
    BY DEF Init, CatalogInit, ListInv
  <1>2. CallInv /\ ListInv => ListingIsComplete
    <2> SUFFICES ASSUME CallInv, ListInv, NEW p \in Procs, op[p] = "list", out[p] = "ok"
                 PROVE  LET S == {listed[p][k] : k \in 1 .. Len(listed[p])}
                        IN  /\ always[p] \subseteq S /\ S \subseteq ever[p]
                            /\ Cardinality(S) = Len(listed[p])
      BY DEF ListingIsComplete
    <2>1. listed[p] \in Seq(Names)
      BY DEF ListInv
    <2>2. Sound(p, listed[p]) /\ always[p] \subseteq Elements(listed[p])
      BY DEF ListInv
    <2>3. Cardinality(Elements(listed[p])) = Len(listed[p])
      BY <2>1, <2>2, ElementsCounted DEF Sound
    <2> QED
      BY <2>2, <2>3 DEF Sound, Elements
  <1>3. CallInv /\ ListInv /\ [Next]_vars => ListInv'
    BY ListStep
  <1> QED
    BY <1>1, <1>2, <1>3, CallInvHolds, PTL DEF Spec
=============================================================================
