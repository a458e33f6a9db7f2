------------------------------ MODULE Resources ------------------------------
(***************************************************************************)
(* Resources.CreateFileResource of odps/resources.go beside the other      *)
(* calls of the catalog: the file is read in chunks, each is stored as a   *)
(* temporary resource named after the file and the chunk's number, and the *)
(* last request has them merged.  Two uploads of one name share the names  *)
(* of their parts.                                                         *)
(***************************************************************************)
EXTENDS Catalog, TLC

CONSTANTS
  Content   \* the chunks of the file each goroutine uploads

ASSUME ContentAssumption == \A p \in Procs : Content[p] \in Seq(STRING)

VARIABLES
  unread,   \* chunks before a goroutine's reader
  eager,    \* its reader returns the last chunk together with io.EOF
  hash,     \* the chunks written to the hash
  cnt,      \* parts acknowledged
  parts     \* the service's temporary parts of the name

uploadVars == <<unread, eager, hash, cnt>>
vars == <<catalogVars, uploadVars, parts>>

Init ==
  /\ CatalogInit
  /\ unread = [p \in Procs |-> <<>>] /\ hash = [p \in Procs |-> <<>>]
  /\ eager \in [Procs -> IF kind = "resource" THEN BOOLEAN ELSE {FALSE}]
  /\ cnt = [p \in Procs |-> 0]
  /\ parts = <<>>

Quiet == UNCHANGED <<kind, handleVars, half, op, listVars, tunnelVars, calls>>

CreateFileResource(p) ==
  /\ kind = "resource"
  /\ Call(p, "upload", "read")
  /\ unread' = Of(unread, p, Content[p]) /\ hash' = Of(hash, p, <<>>) /\ cnt' = Of(cnt, p, 0)
  /\ UNCHANGED <<serviceVars, handleVars, half, listVars, tunnelVars, faults, had, eager, parts>>

\* Bytes that come without an error are hashed and sent.
ReadChunk(p) ==
  /\ pc[p] = "read" /\ unread[p] # <<>> /\ ~(eager[p] /\ Len(unread[p]) = 1)
  /\ hash' = Of(hash, p, Append(hash[p], Head(unread[p])))
  /\ unread' = Of(unread, p, Tail(unread[p]))
  /\ pc' = Of(pc, p, "part")
  /\ NoPut /\ NoFault /\ Quiet /\ UNCHANGED <<out, eager, cnt, parts>>

\* io.EOF ends the loop; bytes that came with it are left out.
ReadEnds(p) ==
  /\ pc[p] = "read" /\ (unread[p] = <<>> \/ (eager[p] /\ Len(unread[p]) = 1))
  /\ pc' = Of(pc, p, "merge")
  /\ unread' = Of(unread, p, <<>>)
  /\ NoPut /\ NoFault /\ Quiet /\ UNCHANGED <<out, eager, hash, cnt, parts>>

\* Any other error is returned.
\* Mutant: it ends the loop like io.EOF.
EndLoop(p) == pc' = Of(pc, p, "merge") /\ UNCHANGED out
AfterReadError(p) == Return(p, "error")

ReadFails(p) ==
  /\ pc[p] = "read" /\ Fault(p)
  /\ AfterReadError(p)
  /\ NoPut /\ Quiet /\ UNCHANGED <<uploadVars, parts>>

\* createTempPartFile: the part replaces one of the same name.
CreateTempPartFile(p) ==
  /\ pc[p] = "part"
  /\ \/ /\ parts' = (cnt[p] :> hash[p][Len(hash[p])]) @@ parts
        /\ NoFault /\ cnt' = Of(cnt, p, cnt[p] + 1) /\ pc' = Of(pc, p, "read") /\ UNCHANGED out
     \/ /\ parts' \in {parts, (cnt[p] :> hash[p][Len(hash[p])]) @@ parts}
        /\ Fault(p) /\ Return(p, "error") /\ UNCHANGED cnt
  /\ NoPut /\ Quiet /\ UNCHANGED <<unread, eager, hash>>

\* The service merges the parts listed if their checksum is the one sent (external).
Merged(p) == [k \in 1 .. cnt[p] |-> parts[k - 1]]
Accepts(p, overwrite) ==
  /\ Merged(p) = hash[p]
  /\ overwrite <=> objs[1] # None

\* mergeTempPartFile: only status 201 is success.
MergeTempPartFile(p) ==
  /\ pc[p] = "merge"
  /\ \E overwrite \in BOOLEAN :
       \/ Accepts(p, overwrite) /\ Put(1, hash[p]) /\ NoFault /\ Return(p, "ok")
       \/ Accepts(p, overwrite) /\ Put(1, hash[p]) /\ Fault(p) /\ Return(p, "error")
       \/ ~Accepts(p, overwrite) /\ NoPut /\ NoFault /\ Return(p, "error")
       \/ NoPut /\ Fault(p) /\ Return(p, "error")
  /\ Quiet /\ UNCHANGED <<uploadVars, parts>>

-----------------------------------------------------------------------------

UploadStep(p) ==
  \/ CreateFileResource(p) \/ ReadChunk(p) \/ ReadEnds(p) \/ ReadFails(p)
  \/ CreateTempPartFile(p) \/ MergeTempPartFile(p)

Next ==
  \E p \in Procs : UploadStep(p) \/ (CatalogStep(p) /\ UNCHANGED <<uploadVars, parts>>)

Spec == Init /\ [][Next]_vars

-----------------------------------------------------------------------------
(* Properties.                                                              *)

\* A file resource has the whole content of one upload, whatever two uploads of the same
\* name have done to each other's parts and whichever of their requests failed, unless
\* the reader returned its last bytes together with io.EOF.
ResourceIsWhole ==
  kind = "resource" =>
    \A v \in had \ {None, Plain} :
      \/ \E p \in Procs : v = Content[p]
      \/ \E p \in Procs : eager[p] /\ v = SubSeq(Content[p], 1, Len(Content[p]) - 1)
=============================================================================
