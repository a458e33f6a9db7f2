------------------------ MODULE TableDownload_proofs ------------------------
(***************************************************************************)
(* Proofs about TableDownload and Transport for any number of readers,     *)
(* addresses, rows, faults, moves of the host and expiries of the cache.   *)
(***************************************************************************)
EXTENDS TableDownload, FiniteSetTheorems, TLAPS

\* Where a goroutine is once client() has returned.
HasClient == {"connect", "lookup", "resolve", "cache", "shuffle", "swap1", "swap2", "swap3",
              "swap4", "try", "plain", "refused", "request", "reading"}

Places == HasClient \cup {"idle", "client", "make"}

\* A session is loaded by one goroutine, which makes the client, before any other can
\* use it: this is what makes up for the missing lock.
ClientInv ==
  /\ pc \in [Readers -> Places]
  /\ use \in [Readers -> {"load", "read"}]
  /\ clients \in {0, 1}
  /\ session \in {"none", "loading", "open"}
  /\ \A g \in Readers : pc[g] \in {"idle", "reading"} => use[g] = "read"
  /\ session = "none" => \A g \in Readers : pc[g] = "idle"
  /\ session = "loading" =>
       \A g \in Readers : pc[g] # "idle" =>
         /\ use[g] = "load"
         /\ clients = IF pc[g] \in {"client", "make"} THEN 0 ELSE 1
         /\ \A h \in Readers : pc[h] # "idle" => h = g
  /\ session = "open" =>
       clients = 1 /\ \A g \in Readers : use[g] = "read" /\ pc[g] # "make"

\* Goroutine g goes from one place to another, the others stay.
Moves(g) ==
  /\ pc' \in [Readers -> Places]
  /\ \A h \in Readers \ {g} : pc'[h] = pc[h]

USE DEF clientVars, resolverVars, dialVars, addressVars, networkVars, Goto

-----------------------------------------------------------------------------

\* The steps of Transport behind client() leave the number of clients alone.
LEMMA DialFrame ==
  ASSUME NEW g \in Readers, pc \in [Readers -> Places],
         \/ GetConn(g) \/ Lookup(g) \/ Resolve(g) \/ ResolveFails(g) \/ StoreEntry(g)
         \/ ReadPair(g) \/ Swap(g) \/ EndShuffle(g)
         \/ TryAddress(g) \/ EndOfSlice(g) \/ DialByName(g)
  PROVE  /\ clients' = clients /\ Moves(g)
         /\ pc[g] \in HasClient /\ pc'[g] \in HasClient \ {"reading"}
  <1> USE DEF HasClient, Places, Moves
  <1>1. CASE GetConn(g) \/ Lookup(g) \/ Resolve(g) \/ ResolveFails(g) \/ StoreEntry(g)
    BY <1>1 DEF GetConn, Lookup, Resolve, ResolveFails, StoreEntry
  <1>2. CASE ReadPair(g) \/ EndShuffle(g)
    BY <1>2 DEF ReadPair, EndShuffle
  <1>3. CASE Swap(g)
    BY <1>3 DEF Swap, StoreCell
  <1>4. CASE TryAddress(g)
    BY <1>4 DEF TryAddress, Connected, NextAddress
  <1>5. CASE EndOfSlice(g) \/ DialByName(g)
    BY <1>5 DEF EndOfSlice, AfterSlice, DialByName, Connected
  <1> QED
    BY <1>1, <1>2, <1>3, <1>4, <1>5

\* No step lets a second goroutine come to the place where a client is made.
LEMMA ClientStep == ASSUME ClientInv, [Next]_vars PROVE ClientInv'
  <1> USE DEF ClientInv, Places, Moves, sessionVars, readerVars
  <1>1. ASSUME NEW g \in Readers, ConnectStep(g), UNCHANGED <<sessionVars, readerVars>>
        PROVE  ClientInv'
    <2>1. CASE Client(g)
      BY <1>1, <2>1 DEF Client, ClientIsSet, HasClient
    <2>2. CASE MakeClient(g)
      BY <1>1, <2>2 DEF MakeClient, HasClient
    <2>3. CASE ~Client(g) /\ ~MakeClient(g)
      <3>1. /\ clients' = clients /\ Moves(g)
            /\ pc[g] \in HasClient /\ pc'[g] \in HasClient \ {"reading"}
        BY <1>1, <2>3, DialFrame DEF ConnectStep
      <3> QED
        BY <1>1, <3>1 DEF HasClient
    <2> QED
      BY <2>1, <2>2, <2>3
  <1>2. ASSUME NEW g \in Readers, SessionStep(g) PROVE ClientInv'
    <2>1. CASE CreateDownloadSession(g) \/ AttachToExistedDownloadSession(g)
      BY <2>1 DEF CreateDownloadSession, AttachToExistedDownloadSession, StartLoading
    <2>2. CASE OpenRecordReader(g)
      BY <2>2 DEF OpenRecordReader
    <2> QED
      BY <1>2, <2>1, <2>2 DEF SessionStep
  <1>3. ASSUME NEW g \in Readers, LoadInformation(g) \/ LoadFails(g) PROVE ClientInv'
    BY <1>3 DEF LoadInformation, LoadFails
  <1>4. ASSUME NEW g \in Readers,
               NewDownloadConnection(g) \/ Read(g) \/ ReadEOF(g) \/ ReadFails(g)
        PROVE  ClientInv'
    <2>1. CASE NewDownloadConnection(g)
      BY <2>1 DEF NewDownloadConnection, HasClient
    <2>2. CASE Read(g)
      BY <2>2 DEF Read, transportVars
    <2>3. CASE ReadEOF(g)
      BY <2>3 DEF ReadEOF
    <2>4. CASE ReadFails(g)
      BY <2>4 DEF ReadFails
    <2> QED
      BY <1>4, <2>1, <2>2, <2>3, <2>4
  <1>5. CASE Prepare \/ (MoveHost /\ UNCHANGED <<sessionVars, readerVars>>) \/ EntryExpires
    BY <1>5 DEF Prepare, MoveHost, EntryExpires, Expire, transportVars
  <1>6. CASE UNCHANGED vars
    BY <1>6 DEF vars, transportVars
  <1> QED
    BY <1>1, <1>2, <1>3, <1>4, <1>5, <1>6 DEF Next, RequestStep

\* However many readers a download session has, and although client() checks and assigns
\* without a lock, its RestClient makes one http.Client at most.
THEOREM ClientIsMadeOnce == Spec => []OneClientPerSession
  <1>1. Init => ClientInv
    BY DEF Init, TransportInit, ClientInv, Places, HasClient
  <1>2. ClientInv => OneClientPerSession
    BY DEF ClientInv, OneClientPerSession
  <1> QED
    BY <1>1, <1>2, ClientStep, PTL DEF Spec

-----------------------------------------------------------------------------
(* Dials.                                                                   *)

Swapping == {"swap1", "swap2", "swap3", "swap4"}
Shuffling == {"cache", "shuffle"} \cup Swapping
Using == Shuffling \cup {"try"}

\* A dial has a slice while it uses one, and its shuffle stays within it.
DialTypes ==
  /\ calm \in [Readers -> BOOLEAN] /\ old \in [Readers -> BOOLEAN]
  /\ spent \in [Readers -> Nat] /\ i \in [Readers -> Int] /\ j \in [Readers -> Int]
  /\ dns \in SUBSET Addrs
  /\ slices \in [SliceIds -> Seq(Cell)] /\ fresh \in SUBSET SliceIds
  /\ cache \in SliceIds \cup {0} /\ ref \in [Readers -> SliceIds \cup {0}]
  /\ DOMAIN tmp = Readers
  /\ \A g \in Readers : pc[g] \in Using => ref[g] \in SliceIds
  /\ \A g \in Readers : pc[g] \in Shuffling => i[g] <= Len(slices[ref[g]])
  /\ \A g \in Readers : pc[g] \in Swapping =>
       i[g] > 1 /\ j[g] \in 1 .. i[g] /\ tmp[g] \in Cell \X Cell

Current(cell) == cell.ptr \in dns /\ cell.len \in dns

\* No word of another address than the host's gets into a slice made since its last move,
\* nor into the hands of a goroutine that shuffles one; a calm dial that is not on an old
\* slice is on such a one, and has lost no time.
FreshInv ==
  /\ \A s \in fresh : \A n \in 1 .. Len(slices[s]) : Current(slices[s][n])
  /\ \A g \in Readers : pc[g] \in Swapping /\ ref[g] \in fresh =>
       Current(tmp[g][1]) /\ Current(tmp[g][2])
  /\ \A g \in Readers : pc[g] \in Using /\ calm[g] /\ ~old[g] => ref[g] \in fresh
  /\ \A g \in Readers : pc[g] \in {"lookup", "resolve"} => spent[g] = 0
  /\ \A g \in Readers : pc[g] \in Dialling /\ calm[g] /\ ~old[g] => spent[g] = 0
  /\ CalmDialSucceeds

USE DEF Set

\* What a swap stores: words of the two texts that were read and of the cell they go to.
LEMMA SwapStores ==
  ASSUME NEW g \in Readers, ClientInv, DialTypes, Swap(g)
  PROVE  /\ pc[g] \in Swapping /\ pc' = [pc EXCEPT ![g] = pc'[g]]
         /\ pc'[g] \in Swapping \cup {"shuffle"}
         /\ pc'[g] \in Swapping => UNCHANGED <<i, j, tmp>>
         /\ pc'[g] = "shuffle" =>
              /\ i' = [i EXCEPT ![g] = i[g] - 1] /\ j' = [j EXCEPT ![g] = 0]
              /\ tmp' = [tmp EXCEPT ![g] = <<>>]
         /\ UNCHANGED <<ref, k, spent, old, peer, clients, idle, cache, expiries, fresh,
                        networkVars>>
         /\ \E n \in 1 .. Len(Slice(g)), cell \in Cell :
              /\ slices' = [slices EXCEPT ![ref[g]][n] = cell]
              /\ \A w \in {cell.ptr, cell.len} :
                   w \in {tmp[g][1].ptr, tmp[g][1].len, tmp[g][2].ptr, tmp[g][2].len,
                          Slice(g)[n].ptr, Slice(g)[n].len}
  <1>1. pc[g] \in Swapping
    BY DEF Swap, StoreCell, Swapping
  <1>2. /\ i[g] \in 1 .. Len(Slice(g)) /\ j[g] \in 1 .. Len(Slice(g))
        /\ tmp[g][1] \in Cell /\ tmp[g][2] \in Cell /\ Slice(g) \in Seq(Cell)
    BY <1>1 DEF DialTypes, Slice, Using, Shuffling
  <1>3. \A n \in 1 .. Len(Slice(g)) : Slice(g)[n] \in Cell
    BY <1>2
  <1>4. \A was, new \in Cell : \A half \in Halves(was, new) :
          half \in Cell /\ half.ptr \in {was.ptr, new.ptr} /\ half.len \in {was.len, new.len}
    BY DEF Halves, Cell
  <1> DEFINE Words(n) == {tmp[g][1].ptr, tmp[g][1].len, tmp[g][2].ptr, tmp[g][2].len,
                          Slice(g)[n].ptr, Slice(g)[n].len}
             Stored(to) == \E n \in 1 .. Len(Slice(g)), cell \in Cell :
                             /\ StoreCell(g, pc[g], to, n, cell)
                             /\ \A w \in {cell.ptr, cell.len} : w \in Words(n)
  <1>5. \/ UNCHANGED <<i, j, tmp>> /\ \E to \in Swapping : Stored(to)
        \/ /\ Stored("shuffle") /\ i' = [i EXCEPT ![g] = i[g] - 1]
           /\ j' = [j EXCEPT ![g] = 0] /\ tmp' = [tmp EXCEPT ![g] = <<>>]
    <2>1. ASSUME pc[g] = "swap1"
          PROVE  UNCHANGED <<i, j, tmp>> /\ Stored("swap2")
      <3>1. PICK half \in Halves(Slice(g)[i[g]], tmp[g][2]) :
              StoreCell(g, "swap1", "swap2", i[g], half)
        BY <2>1 DEF Swap, StoreCell
      <3>2. half \in Cell /\ \A w \in {half.ptr, half.len} : w \in Words(i[g])
        BY <1>2, <1>3, <1>4
      <3> HIDE DEF Words
      <3> QED
        BY <1>2, <2>1, <3>1, <3>2 DEF Swap, StoreCell
    <2>2. ASSUME pc[g] = "swap2"
          PROVE  UNCHANGED <<i, j, tmp>> /\ Stored("swap3")
      <3>1. StoreCell(g, "swap2", "swap3", i[g], tmp[g][2]) /\ UNCHANGED <<i, j, tmp>>
        BY <2>2 DEF Swap, StoreCell
      <3> QED
        BY <1>2, <2>2, <3>1
    <2>3. ASSUME pc[g] = "swap3"
          PROVE  UNCHANGED <<i, j, tmp>> /\ Stored("swap4")
      <3>1. PICK half \in Halves(Slice(g)[j[g]], tmp[g][1]) :
              StoreCell(g, "swap3", "swap4", j[g], half)
        BY <2>3 DEF Swap, StoreCell
      <3>2. half \in Cell /\ \A w \in {half.ptr, half.len} : w \in Words(j[g])
        BY <1>2, <1>3, <1>4
      <3> HIDE DEF Words
      <3> QED
        BY <1>2, <2>3, <3>1, <3>2 DEF Swap, StoreCell
    <2>4. ASSUME pc[g] = "swap4"
          PROVE  /\ Stored("shuffle") /\ i' = [i EXCEPT ![g] = i[g] - 1]
                 /\ j' = [j EXCEPT ![g] = 0] /\ tmp' = [tmp EXCEPT ![g] = <<>>]
      <3>1. /\ StoreCell(g, "swap4", "shuffle", j[g], tmp[g][1])
            /\ i' = [i EXCEPT ![g] = i[g] - 1]
            /\ j' = [j EXCEPT ![g] = 0] /\ tmp' = [tmp EXCEPT ![g] = <<>>]
        BY <2>4 DEF Swap, StoreCell, Decremented
      <3> QED
        BY <1>2, <2>4, <3>1
    <2> HIDE DEF Stored
    <2> QED
      BY <1>1, <2>1, <2>2, <2>3, <2>4 DEF Swapping
  <1>6. PICK to \in Swapping \cup {"shuffle"} :
          /\ Stored(to)
          /\ to \in Swapping => UNCHANGED <<i, j, tmp>>
          /\ to = "shuffle" =>
               /\ i' = [i EXCEPT ![g] = i[g] - 1] /\ j' = [j EXCEPT ![g] = 0]
               /\ tmp' = [tmp EXCEPT ![g] = <<>>]
    <2> HIDE DEF Stored
    <2> QED
      BY <1>5 DEF Swapping
  <1>7. PICK n \in 1 .. Len(Slice(g)), cell \in Cell :
          /\ StoreCell(g, pc[g], to, n, cell)
          /\ \A w \in {cell.ptr, cell.len} : w \in Words(n)
    BY <1>6
  <1>8. /\ pc' = [pc EXCEPT ![g] = to]
        /\ slices' = [slices EXCEPT ![ref[g]][n] = cell]
        /\ UNCHANGED <<ref, k, spent, old, peer, clients, idle, cache, expiries, fresh,
                       networkVars>>
    BY <1>7 DEF StoreCell
  <1>9. pc'[g] = to
    BY <1>8 DEF ClientInv
  <1> QED
    BY <1>1, <1>6, <1>7, <1>8, <1>9

\* A swap keeps the slices, and every word it puts into one is of a text that was there.
LEMMA SwapKeepsSlices ==
  ASSUME NEW g \in Readers, ClientInv, DialTypes, Swap(g)
  PROVE  /\ slices' \in [SliceIds -> Seq(Cell)]
         /\ \A s \in SliceIds : Len(slices'[s]) = Len(slices[s])
         /\ \A s \in SliceIds : \A m \in 1 .. Len(slices[s]) :
              \/ slices'[s][m] = slices[s][m]
              \/ /\ s = ref[g]
                 /\ \E n \in 1 .. Len(slices[s]) :
                      \A w \in {slices'[s][m].ptr, slices'[s][m].len} :
                        w \in {tmp[g][1].ptr, tmp[g][1].len, tmp[g][2].ptr, tmp[g][2].len,
                              slices[s][n].ptr, slices[s][n].len}
  <1>1. PICK n \in 1 .. Len(Slice(g)), cell \in Cell :
          /\ slices' = [slices EXCEPT ![ref[g]][n] = cell]
          /\ \A w \in {cell.ptr, cell.len} :
               w \in {tmp[g][1].ptr, tmp[g][1].len, tmp[g][2].ptr, tmp[g][2].len,
                     Slice(g)[n].ptr, Slice(g)[n].len}
    <2>1. \E n \in 1 .. Len(Slice(g)), cell \in Cell :
            /\ slices' = [slices EXCEPT ![ref[g]][n] = cell]
            /\ \A w \in {cell.ptr, cell.len} :
                 w \in {tmp[g][1].ptr, tmp[g][1].len, tmp[g][2].ptr, tmp[g][2].len,
                       Slice(g)[n].ptr, Slice(g)[n].len}
      BY SwapStores
    <2> QED
      BY <2>1
  <1>2. ref[g] \in SliceIds
    BY SwapStores DEF DialTypes, Using, Shuffling
  <1>3. /\ slices' \in [SliceIds -> Seq(Cell)]
        /\ \A s \in SliceIds : Len(slices'[s]) = Len(slices[s])
        /\ \A s \in SliceIds : \A m \in 1 .. Len(slices[s]) :
             slices'[s][m] = slices[s][m] \/ (s = ref[g] /\ slices'[s][m] = cell)
    <2> DEFINE S == slices[ref[g]]
               T == [S EXCEPT ![n] = cell]
    <2>1. S \in Seq(Cell) /\ n \in 1 .. Len(S)
      BY <1>2 DEF DialTypes, Slice
    <2> HIDE DEF S
    <2>2. T \in Seq(Cell) /\ Len(T) = Len(S)
      BY <2>1
    <2>3. \A m \in 1 .. Len(S) : T[m] = S[m] \/ T[m] = cell
      BY <2>1
    <2> HIDE DEF T
    <2>4. slices' = [slices EXCEPT ![ref[g]] = T]
      BY <1>1 DEF S, T
    <2>5. slices'[ref[g]] = T /\ \A s \in SliceIds \ {ref[g]} : slices'[s] = slices[s]
      BY <1>2, <2>4 DEF DialTypes
    <2>6. slices' \in [SliceIds -> Seq(Cell)]
      <3> DEFINE B == Seq(Cell)
      <3>1. T \in B /\ slices \in [SliceIds -> B]
        BY <2>2 DEF DialTypes
      <3> HIDE DEF B
      <3>2. slices' \in [SliceIds -> B]
        BY <1>2, <2>4, <3>1
      <3> QED
        BY <3>2 DEF B
    <2>7. ASSUME NEW s \in SliceIds PROVE Len(slices'[s]) = Len(slices[s])
      BY <2>2, <2>5 DEF S
    <2>8. ASSUME NEW s \in SliceIds, NEW m \in 1 .. Len(slices[s])
          PROVE  slices'[s][m] = slices[s][m] \/ (s = ref[g] /\ slices'[s][m] = cell)
      BY <2>3, <2>5 DEF S
    <2> QED
      BY <2>6, <2>7, <2>8
  <1> QED
    BY <1>1, <1>3 DEF Slice

\* The slice a lookup makes: one cell for each address of the host, all of them whole, and
\* every slice in use is left as it is.
LEMMA SliceResolved ==
  ASSUME NEW g \in Readers, DialTypes, Resolve(g)
  PROVE  /\ slices' \in [SliceIds -> Seq(Cell)]
         /\ ref' = [ref EXCEPT ![g] = ref'[g]] /\ ref'[g] \in SliceIds
         /\ ref'[g] \notin {ref[h] : h \in Readers} /\ ref'[g] # cache
         /\ \A s \in SliceIds : s \in Used /\ s # ref'[g] => slices'[s] = slices[s]
         /\ Len(slices'[ref'[g]]) = i'[g]
         /\ i'[g] \in Int /\ i' = [i EXCEPT ![g] = i'[g]]
         /\ \A n \in 1 .. Len(slices'[ref'[g]]) : Current(slices'[ref'[g]][n])
         /\ fresh' \subseteq (fresh \cap Used) \cup {ref'[g]}
         /\ ref'[g] \in fresh' /\ fresh \cap Used \subseteq fresh'
  <1>1. PICK s \in Unused :
          /\ \E a \in Answers :
               slices' = [u \in SliceIds |->
                            CASE u = s -> [n \in DOMAIN a |-> Text(a[n])]
                              [] u \in Used -> slices[u]
                              [] OTHER -> <<>>]
          /\ fresh' = (fresh \cap Used) \cup {s}
          /\ ref' = [ref EXCEPT ![g] = s]
    BY DEF Resolve
  <1>2. PICK a \in Answers :
          slices' = [u \in SliceIds |->
                       CASE u = s -> [n \in DOMAIN a |-> Text(a[n])]
                         [] u \in Used -> slices[u]
                         [] OTHER -> <<>>]
    BY <1>1
  <1>3. s \in SliceIds /\ s \notin Used /\ ref'[g] = s
    BY <1>1 DEF Unused, DialTypes
  <1>4. Cardinality(dns) \in Nat /\ i' = [i EXCEPT ![g] = Cardinality(dns)]
    BY TransportAssumption, FS_Subset, FS_CardinalityType DEF Resolve, DialTypes
  <1> DEFINE T == [n \in DOMAIN a |-> Text(a[n])]
             c == Cardinality(dns)
  <1>5. DOMAIN a = 1 .. c /\ \A n \in 1 .. c : a[n] \in dns /\ a[n] \in Addrs
    BY DEF Answers, DialTypes
  <1>6. \A n \in 1 .. c : Text(a[n]) \in Cell /\ Current(Text(a[n]))
    BY <1>5 DEF Text, Cell, Current
  <1> HIDE DEF c
  <1>7. T \in Seq(Cell) /\ Len(T) = c /\ \A n \in 1 .. c : Current(T[n])
    <2>1. c \in Nat
      BY <1>4 DEF c
    <2>2. T = [n \in 1 .. c |-> Text(a[n])]
      BY <1>5
    <2> QED
      BY <1>6, <2>1, <2>2
  <1> DEFINE B == Seq(Cell)
  <1>8. T \in B /\ <<>> \in B /\ slices \in [SliceIds -> B]
    BY <1>7 DEF DialTypes
  <1>9. slices' = [u \in SliceIds |-> CASE u = s -> T [] u \in Used -> slices[u] [] OTHER -> <<>>]
    BY <1>2
  <1> HIDE DEF B, T
  <1>10. /\ slices' \in [SliceIds -> B] /\ slices'[s] = T
         /\ \A u \in SliceIds : u \in Used /\ u # s => slices'[u] = slices[u]
    BY <1>3, <1>8, <1>9
  <1>11. i'[g] = c /\ i' = [i EXCEPT ![g] = i'[g]] /\ i'[g] \in Int
    BY <1>4 DEF DialTypes, c
  <1>12. s \notin {ref[h] : h \in Readers} /\ s # cache
    BY <1>3 DEF Used
  <1>13. ref' = [ref EXCEPT ![g] = ref'[g]]
    BY <1>1, <1>3
  <1>14. Len(slices'[s]) = i'[g] /\ \A n \in 1 .. Len(slices'[s]) : Current(slices'[s][n])
    BY <1>7, <1>10, <1>11
  <1> QED
    BY <1>1, <1>3, <1>10, <1>11, <1>12, <1>13, <1>14 DEF B

\* Steps that leave addresses and dials alone, but may take goroutines out of a dial.
LEMMA DialsUntouched ==
  ASSUME ClientInv, DialTypes, UNCHANGED <<slices, ref, i, j, tmp>>,
         spent' \in [Readers -> Nat], old' \in [Readers -> BOOLEAN],
         dns' \in SUBSET Addrs, cache' \in SliceIds \cup {0}, fresh' \in SUBSET SliceIds,
         calm' \in [Readers -> BOOLEAN],
         \A g \in Readers : pc'[g] \in Using => pc'[g] = pc[g]
  PROVE  DialTypes'
  BY DEF DialTypes, Using, Shuffling, Swapping

\* Every step keeps a dial within its slice.
LEMMA DialTypeStep == ASSUME ClientInv, DialTypes, [Next]_vars PROVE DialTypes'
  <1> USE DEF Fault, NoFault, Disturb
  <1>0. pc \in [Readers -> Places]
    BY DEF ClientInv
  <1>1. ASSUME NEW g \in Readers, ConnectStep(g) PROVE DialTypes'
    <2> USE DEF Using, Shuffling, Swapping
    <2>1. CASE Client(g) \/ MakeClient(g)
      <3>1. /\ UNCHANGED <<slices, addressVars, dns, fresh, calm>> /\ cache' \in {cache, 0}
            /\ pc'[g] \notin Using /\ \A h \in Readers \ {g} : pc'[h] = pc[h]
        BY <1>0, <2>1 DEF Client, MakeClient
      <3> QED
        BY <3>1, DialsUntouched DEF DialTypes
    <2>2. CASE GetConn(g)
      <3>1. /\ UNCHANGED <<slices, ref, i, j, tmp, old, dns, fresh, cache>>
            /\ pc'[g] \in {"request", "lookup"} /\ \A h \in Readers \ {g} : pc'[h] = pc[h]
            /\ spent' = [spent EXCEPT ![g] = 0] /\ calm' \in [Readers -> BOOLEAN]
        BY <1>0, <2>2 DEF GetConn, SpentAtStart, DialTypes
      <3> QED
        BY <3>1 DEF DialTypes
    <2>3. CASE Lookup(g) /\ cache # 0
      <3>1. /\ ref' = [ref EXCEPT ![g] = cache] /\ i' = [i EXCEPT ![g] = Len(slices[cache])]
            /\ pc' = [pc EXCEPT ![g] = "shuffle"]
            /\ old' = [old EXCEPT ![g] = cache \notin fresh]
            /\ UNCHANGED <<j, tmp, spent, slices, cache, fresh, dns, calm>>
        BY <2>3 DEF Lookup
      <3>2. cache \in SliceIds /\ Len(slices[cache]) \in Int
        BY <2>3 DEF DialTypes
      <3> QED
        BY <1>0, <3>1, <3>2 DEF DialTypes
    <2>4. CASE Lookup(g) /\ cache = 0
      <3>1. /\ pc' = [pc EXCEPT ![g] = "resolve"] /\ old' = [old EXCEPT ![g] = FALSE]
            /\ UNCHANGED <<ref, i, j, tmp, spent, slices, cache, fresh, dns, calm>>
        BY <2>4 DEF Lookup
      <3> QED
        BY <1>0, <3>1 DEF DialTypes
    <2>5. CASE Resolve(g)
      <3>1. /\ pc' = [pc EXCEPT ![g] = "cache"] /\ pc[g] = "resolve"
            /\ UNCHANGED <<j, tmp, spent, old, cache, dns, calm>>
        BY <2>5 DEF Resolve
      <3>2. /\ slices' \in [SliceIds -> Seq(Cell)]
            /\ ref' = [ref EXCEPT ![g] = ref'[g]] /\ ref'[g] \in SliceIds
            /\ ref'[g] \notin {ref[h] : h \in Readers}
            /\ \A s \in SliceIds : s \in Used /\ s # ref'[g] => slices'[s] = slices[s]
            /\ Len(slices'[ref'[g]]) = i'[g]
            /\ i'[g] \in Int /\ i' = [i EXCEPT ![g] = i'[g]]
            /\ fresh' \subseteq (fresh \cap Used) \cup {ref'[g]}
        BY <2>5, SliceResolved
      <3>3. /\ ref' \in [Readers -> SliceIds \cup {0}] /\ i' \in [Readers -> Int]
            /\ fresh' \in SUBSET SliceIds
            /\ \A h \in Readers \ {g} : pc'[h] = pc[h] /\ ref'[h] = ref[h] /\ i'[h] = i[h]
        BY <1>0, <3>1, <3>2 DEF DialTypes
      <3>4. \A h \in Readers \ {g} : pc[h] \in Using => slices'[ref[h]] = slices[ref[h]]
        BY <3>2 DEF DialTypes, Used
      <3>5. pc'[g] = "cache"
        BY <1>0, <3>1
      <3>6. \A h \in Readers : pc'[h] \in Shuffling => i'[h] <= Len(slices'[ref'[h]])
        <4>1. i'[g] <= Len(slices'[ref'[g]])
          BY <3>2
        <4> QED
          BY <3>3, <3>4, <4>1 DEF DialTypes
      <3>7. /\ \A h \in Readers : pc'[h] \in Using => ref'[h] \in SliceIds
            /\ \A h \in Readers : pc'[h] \in Swapping =>
                 i'[h] > 1 /\ j'[h] \in 1 .. i'[h] /\ tmp'[h] \in Cell \X Cell
        BY <3>1, <3>2, <3>3, <3>5 DEF DialTypes
      <3> QED
        BY <3>1, <3>2, <3>3, <3>6, <3>7 DEF DialTypes
    <2>6. CASE ResolveFails(g)
      <3>1. /\ UNCHANGED <<slices, ref, i, j, tmp, old, dns, fresh, cache>>
            /\ pc' = [pc EXCEPT ![g] = "plain"]
            /\ \E n \in {0, 1} : spent' = [spent EXCEPT ![g] = spent[g] + n]
            /\ calm' \in [Readers -> BOOLEAN]
        BY <2>6 DEF ResolveFails, DialTypes
      <3> QED
        BY <1>0, <3>1 DEF DialTypes
    <2>7. CASE StoreEntry(g)
      BY <1>0, <2>7 DEF StoreEntry, DialTypes
    <2>8. CASE ReadPair(g)
      <3>1. PICK n \in 1 .. i[g] : /\ j' = [j EXCEPT ![g] = n]
                                   /\ tmp' = [tmp EXCEPT ![g] = <<Slice(g)[i[g]], Slice(g)[n]>>]
        BY <2>8 DEF ReadPair
      <3>2. /\ pc' = [pc EXCEPT ![g] = "swap1"] /\ pc[g] = "shuffle" /\ i[g] > 1
            /\ UNCHANGED <<slices, ref, i, spent, old, dns, fresh, cache, calm>>
        BY <2>8 DEF ReadPair
      <3>3. n \in Int /\ n \in 1 .. i[g] /\ i[g] \in 1 .. Len(Slice(g)) /\ n \in 1 .. Len(Slice(g))
        BY <3>1, <3>2 DEF DialTypes, Slice
      <3>4. <<Slice(g)[i[g]], Slice(g)[n]>> \in Cell \X Cell
        <4>1. Slice(g) \in Seq(Cell)
          BY <3>2 DEF DialTypes, Slice
        <4>2. Slice(g)[i[g]] \in Cell /\ Slice(g)[n] \in Cell
          BY <3>3, <4>1
        <4> QED
          BY <4>2
      <3> HIDE DEF Slice
      <3> QED
        BY <1>0, <3>1, <3>2, <3>3, <3>4 DEF DialTypes
    <2>9. CASE EndShuffle(g)
      BY <1>0, <2>9 DEF EndShuffle, DialTypes
    <2>10. CASE Swap(g)
      <3>1. /\ pc[g] \in Swapping /\ pc' = [pc EXCEPT ![g] = pc'[g]]
            /\ pc'[g] \in Swapping \cup {"shuffle"}
            /\ pc'[g] \in Swapping => UNCHANGED <<i, j, tmp>>
            /\ pc'[g] = "shuffle" =>
                 /\ i' = [i EXCEPT ![g] = i[g] - 1] /\ j' = [j EXCEPT ![g] = 0]
                 /\ tmp' = [tmp EXCEPT ![g] = <<>>]
            /\ UNCHANGED <<ref, spent, old, cache, fresh, dns, calm>>
        BY <2>10, SwapStores
      <3>2. /\ slices' \in [SliceIds -> Seq(Cell)]
            /\ \A s \in SliceIds : Len(slices'[s]) = Len(slices[s])
        BY <2>10, SwapKeepsSlices
      <3>3. CASE pc'[g] \in Swapping
        BY <1>0, <3>1, <3>2, <3>3 DEF DialTypes
      <3>4. CASE pc'[g] = "shuffle"
        <4>1. /\ i[g] \in Int /\ i'[g] = i[g] - 1 /\ i[g] <= Len(slices[ref[g]])
              /\ ref[g] \in SliceIds /\ Len(slices[ref[g]]) \in Int
          BY <3>1, <3>4 DEF DialTypes
        <4>2. i'[g] \in Int /\ i'[g] <= Len(slices'[ref[g]])
          BY <3>2, <4>1
        <4>3. \A h \in Readers \ {g} :
                pc'[h] = pc[h] /\ i'[h] = i[h] /\ j'[h] = j[h] /\ tmp'[h] = tmp[h]
          BY <1>0, <3>1, <3>4 DEF DialTypes
        <4>4. /\ i' \in [Readers -> Int] /\ j' \in [Readers -> Int] /\ DOMAIN tmp' = Readers
          BY <3>1, <3>4, <4>2 DEF DialTypes
        <4>5. \A h \in Readers : pc'[h] \in Shuffling => i'[h] <= Len(slices'[ref[h]])
          BY <3>1, <3>2, <4>2, <4>3 DEF DialTypes
        <4> QED
          BY <3>1, <3>2, <3>4, <4>3, <4>4, <4>5 DEF DialTypes
      <3> QED
        BY <3>1, <3>3, <3>4
    <2>11. CASE TryAddress(g)
      <3>1. /\ UNCHANGED <<slices, i, j, tmp, dns, fresh, cache>>
            /\ pc[g] = "try" /\ pc'[g] \in {"try", "request"}
            /\ \A h \in Readers \ {g} : pc'[h] = pc[h]
        BY <1>0, <2>11 DEF TryAddress, Connected, NextAddress, LeaveSlice
      <3>2. calm' \in [Readers -> BOOLEAN]
        BY <2>11 DEF TryAddress, DialTypes
      <3>3. CASE NextAddress(g)
        <4>1. UNCHANGED <<pc, ref, i, j, tmp, old>>
          BY <3>3 DEF NextAddress
        <4>2. \E n \in Nat : spent' = [spent EXCEPT ![g] = n] \/ spent' = spent
          BY <2>11 DEF TryAddress, Connected, DialTypes
        <4>3. spent' \in [Readers -> Nat] /\ old' \in [Readers -> BOOLEAN]
          BY <4>1, <4>2 DEF DialTypes
        <4>4. /\ dns' \in SUBSET Addrs /\ cache' \in SliceIds \cup {0}
              /\ fresh' \in SUBSET SliceIds
          BY <3>1 DEF DialTypes
        <4> QED
          BY <3>1, <3>2, <4>1, <4>3, <4>4, DialsUntouched
      <3>4. CASE ~NextAddress(g)
        <4>1. /\ pc' = [pc EXCEPT ![g] = "request"] /\ ref' = [ref EXCEPT ![g] = 0]
              /\ spent' = [spent EXCEPT ![g] = 0] /\ old' = [old EXCEPT ![g] = FALSE]
          BY <2>11, <3>4 DEF TryAddress, Connected, LeaveSlice
        <4> QED
          BY <1>0, <3>1, <3>2, <4>1 DEF DialTypes
      <3> QED
        BY <3>3, <3>4
    <2>12. CASE EndOfSlice(g)
      BY <1>0, <2>12 DEF EndOfSlice, AfterSlice, LeaveSlice, DialTypes
    <2>13. CASE DialByName(g)
      <3>1. /\ UNCHANGED <<slices, ref, i, j, tmp, dns, fresh, cache>>
            /\ pc' \in {[pc EXCEPT ![g] = "request"], [pc EXCEPT ![g] = "refused"]}
            /\ spent' \in {spent, [spent EXCEPT ![g] = 0]}
            /\ old' \in {old, [old EXCEPT ![g] = FALSE]}
        BY <2>13 DEF DialByName, Connected
      <3>2. calm' \in [Readers -> BOOLEAN]
        BY <2>13 DEF DialByName, DialTypes
      <3>3. spent' \in [Readers -> Nat] /\ old' \in [Readers -> BOOLEAN]
        <4>1. /\ [spent EXCEPT ![g] = 0] \in [Readers -> Nat] /\ spent \in [Readers -> Nat]
              /\ [old EXCEPT ![g] = FALSE] \in [Readers -> BOOLEAN]
              /\ old \in [Readers -> BOOLEAN]
          BY DEF DialTypes
        <4> QED
          BY <3>1, <4>1
      <3>4. \A h \in Readers : pc'[h] \in Using => pc'[h] = pc[h]
        BY <1>0, <3>1
      <3>5. /\ dns' \in SUBSET Addrs /\ cache' \in SliceIds \cup {0}
            /\ fresh' \in SUBSET SliceIds
        BY <3>1 DEF DialTypes
      <3> QED
        BY <3>1, <3>2, <3>3, <3>4, <3>5, DialsUntouched
    <2> QED
      BY <1>1, <2>1, <2>2, <2>3, <2>4, <2>5, <2>6, <2>7, <2>8, <2>9, <2>10, <2>11, <2>12, <2>13
      DEF ConnectStep
  <1> USE DEF Using, Shuffling, Swapping
  <1>2. ASSUME NEW g \in Readers,
               CreateDownloadSession(g) \/ AttachToExistedDownloadSession(g)
        PROVE  DialTypes'
    <2>1. \A h \in Readers : pc[h] = "idle"
      BY <1>2 DEF CreateDownloadSession, AttachToExistedDownloadSession, ClientInv
    <2>2. /\ pc' = [pc EXCEPT ![g] = "client"] /\ slices' = NoSlices /\ cache' = 0 /\ fresh' = {}
          /\ UNCHANGED <<ref, i, j, tmp, spent, old, dns, calm>>
      BY <1>2 DEF CreateDownloadSession, AttachToExistedDownloadSession, StartLoading
    <2>3. \A h \in Readers : pc'[h] \in {"idle", "client"}
      BY <1>0, <2>1, <2>2
    <2>4. NoSlices \in [SliceIds -> Seq(Cell)]
      BY DEF NoSlices
    <2> QED
      BY <2>2, <2>3, <2>4 DEF DialTypes
  <1>3. ASSUME NEW g \in Readers,
               \/ OpenRecordReader(g) \/ LoadInformation(g) \/ LoadFails(g)
               \/ NewDownloadConnection(g) \/ Read(g) \/ ReadEOF(g) \/ ReadFails(g)
        PROVE  DialTypes'
    <2>1. /\ UNCHANGED <<slices, addressVars, dns, fresh, cache>>
          /\ \A h \in Readers : pc'[h] \in Using => pc'[h] = pc[h]
      BY <1>0, <1>3
      DEF OpenRecordReader, LoadInformation, LoadFails, NewDownloadConnection, Read, ReadEOF,
          ReadFails, transportVars
    <2>2. calm' \in [Readers -> BOOLEAN]
      BY <1>3
      DEF OpenRecordReader, LoadInformation, LoadFails, NewDownloadConnection, Read, ReadEOF,
          ReadFails, transportVars, DialTypes
    <2> QED
      BY <2>1, <2>2, DialsUntouched DEF DialTypes
  <1>4. CASE Prepare \/ MoveHost \/ EntryExpires \/ UNCHANGED vars
    <2>1. /\ UNCHANGED <<pc, slices, addressVars>> /\ dns' \in SUBSET Addrs
          /\ cache' \in SliceIds \cup {0} /\ fresh' \in SUBSET SliceIds
          /\ calm' \in [Readers -> BOOLEAN]
          /\ spent' \in [Readers -> Nat] /\ old' \in [Readers -> BOOLEAN]
      BY <1>4 DEF Prepare, MoveHost, EntryExpires, Expire, vars, transportVars, DialTypes
    <2> QED
      BY <2>1, DialsUntouched
  <1> QED
    BY <1>1, <1>2, <1>3, <1>4 DEF Next, SessionStep, RequestStep

\* Steps that leave addresses and the locals of dials alone, and after which no goroutine
\* is in a dial, or at its end, that was not before.
LEMMA FreshUntouched ==
  ASSUME ClientInv, DialTypes, FreshInv,
         UNCHANGED <<slices, addressVars, dns, fresh>>,
         calm' = calm \/ calm' = [g \in Readers |-> calm[g] /\ pc[g] \notin Dialling],
         \A g \in Readers : pc'[g] \in Dialling \cup {"refused"} => pc'[g] = pc[g]
  PROVE  FreshInv'
  <1>1. \A g \in Readers : calm'[g] => calm[g]
    BY DEF DialTypes
  <1>2. \A s \in fresh : \A n \in 1 .. Len(slices'[s]) : Current(slices'[s][n])
    BY DEF FreshInv
  <1>3. \A g \in Readers : pc'[g] \in Using => pc'[g] = pc[g]
    BY DEF Using, Shuffling, Swapping, Dialling
  <1>4. \A g \in Readers : pc'[g] \in Swapping /\ ref[g] \in fresh =>
          Current(tmp[g][1]) /\ Current(tmp[g][2])
    BY <1>3 DEF FreshInv, Using, Shuffling
  <1>5. \A g \in Readers : pc'[g] \in Using /\ calm'[g] /\ ~old[g] => ref[g] \in fresh
    BY <1>1, <1>3 DEF FreshInv
  <1>6. /\ \A g \in Readers : pc'[g] \in {"lookup", "resolve"} => spent[g] = 0
        /\ \A g \in Readers : pc'[g] \in Dialling /\ calm'[g] /\ ~old[g] => spent[g] = 0
    BY <1>1 DEF FreshInv, Dialling
  <1>7. CalmDialSucceeds'
    BY <1>1 DEF FreshInv, CalmDialSucceeds
  <1> QED
    BY <1>2, <1>4, <1>5, <1>6, <1>7 DEF FreshInv, Current

\* Steps of a dial that leave the slices alone.
LEMMA FreshDial ==
  ASSUME ClientInv, DialTypes, FreshInv, NEW g \in Readers,
         UNCHANGED <<slices, dns, fresh>>,
         \A h \in Readers \ {g} :
           UNCHANGED <<pc[h], ref[h], tmp[h], spent[h], old[h]>> /\ (calm'[h] => calm[h]),
         pc'[g] \in Swapping /\ ref'[g] \in fresh => Current(tmp'[g][1]) /\ Current(tmp'[g][2]),
         pc'[g] \in Using /\ calm'[g] /\ ~old'[g] => ref'[g] \in fresh,
         pc'[g] \in {"lookup", "resolve"} => spent'[g] = 0,
         pc'[g] \in Dialling /\ calm'[g] /\ ~old'[g] => spent'[g] = 0,
         pc'[g] = "refused" /\ calm'[g] => old'[g] /\ spent'[g] >= Budget
  PROVE  FreshInv'
  <1>1. \A s \in fresh : \A n \in 1 .. Len(slices'[s]) : Current(slices'[s][n])
    BY DEF FreshInv
  <1>2. \A h \in Readers : pc'[h] \in Swapping /\ ref'[h] \in fresh =>
          Current(tmp'[h][1]) /\ Current(tmp'[h][2])
    BY DEF FreshInv
  <1>3. \A h \in Readers : pc'[h] \in Using /\ calm'[h] /\ ~old'[h] => ref'[h] \in fresh
    BY DEF FreshInv
  <1>4. /\ \A h \in Readers : pc'[h] \in {"lookup", "resolve"} => spent'[h] = 0
        /\ \A h \in Readers : pc'[h] \in Dialling /\ calm'[h] /\ ~old'[h] => spent'[h] = 0
    BY DEF FreshInv
  <1>5. CalmDialSucceeds'
    BY DEF FreshInv, CalmDialSucceeds
  <1> QED
    BY <1>1, <1>2, <1>3, <1>4, <1>5 DEF FreshInv, Current

\* Every step of a goroutine keeps the slices made since the last move free of other
\* addresses, and its dial on such a one unless something happened.
LEMMA FreshConnect ==
  ASSUME ClientInv, DialTypes, FreshInv, NEW g \in Readers, ConnectStep(g)
  PROVE  FreshInv'
  <1> USE DEF Fault, NoFault, Disturb
  <1>0. pc \in [Readers -> Places]
    BY DEF ClientInv
  <1>a. Budget \in Nat \ {0}
    BY TransportAssumption
  <1> USE DEF Dialling, Using, Shuffling, Swapping
  <1>1. CASE Client(g) \/ MakeClient(g)
    <2>1. /\ UNCHANGED <<slices, addressVars, dns, fresh, calm>>
          /\ \A h \in Readers : pc'[h] \in Dialling \cup {"refused"} => pc'[h] = pc[h]
      BY <1>0, <1>1 DEF Client, MakeClient
    <2> QED
      BY <2>1, FreshUntouched
  <1>2. CASE GetConn(g)
    <2>1. /\ UNCHANGED <<slices, ref, tmp, old, dns, fresh>>
          /\ pc'[g] \in {"request", "lookup"} /\ \A h \in Readers \ {g} : pc'[h] = pc[h]
          /\ spent' = [spent EXCEPT ![g] = 0]
          /\ calm' \in {calm, [calm EXCEPT ![g] = TRUE]}
      BY <1>0, <1>2 DEF GetConn, SpentAtStart
    <2>2. spent'[g] = 0 /\ \A h \in Readers \ {g} : spent'[h] = spent[h] /\ calm'[h] = calm[h]
      BY <2>1 DEF DialTypes
    <2> QED
      BY <2>1, <2>2, FreshDial
  <1>3. CASE Lookup(g) /\ cache # 0
    <2>1. /\ ref' = [ref EXCEPT ![g] = cache] /\ pc' = [pc EXCEPT ![g] = "shuffle"]
          /\ old' = [old EXCEPT ![g] = cache \notin fresh] /\ pc[g] = "lookup"
          /\ UNCHANGED <<tmp, spent, slices, fresh, dns, calm>>
      BY <1>3 DEF Lookup
    <2>2. /\ pc'[g] = "shuffle" /\ ref'[g] = cache /\ old'[g] = (cache \notin fresh)
          /\ spent'[g] = 0
          /\ \A h \in Readers \ {g} : pc'[h] = pc[h] /\ ref'[h] = ref[h] /\ old'[h] = old[h]
      BY <1>0, <2>1 DEF DialTypes, FreshInv
    <2> QED
      BY <2>1, <2>2, FreshDial
  <1>4. CASE Lookup(g) /\ cache = 0
    <2>1. /\ pc' = [pc EXCEPT ![g] = "resolve"] /\ pc[g] = "lookup"
          /\ old' = [old EXCEPT ![g] = FALSE]
          /\ UNCHANGED <<ref, tmp, spent, slices, fresh, dns, calm>>
      BY <1>4 DEF Lookup
    <2>2. /\ pc'[g] = "resolve" /\ spent'[g] = 0
          /\ \A h \in Readers \ {g} : pc'[h] = pc[h] /\ old'[h] = old[h]
      BY <1>0, <2>1 DEF DialTypes, FreshInv
    <2> QED
      BY <2>1, <2>2, FreshDial
  <1>5. CASE Resolve(g)
    <2>1. /\ pc' = [pc EXCEPT ![g] = "cache"] /\ pc[g] = "resolve"
          /\ UNCHANGED <<tmp, spent, old, dns, calm>>
      BY <1>5 DEF Resolve
    <2>2. /\ ref' = [ref EXCEPT ![g] = ref'[g]] /\ ref'[g] \in SliceIds
          /\ ref'[g] \notin {ref[h] : h \in Readers}
          /\ \A s \in SliceIds : s \in Used /\ s # ref'[g] => slices'[s] = slices[s]
          /\ \A n \in 1 .. Len(slices'[ref'[g]]) : Current(slices'[ref'[g]][n])
          /\ fresh' \subseteq (fresh \cap Used) \cup {ref'[g]}
          /\ ref'[g] \in fresh' /\ fresh \cap Used \subseteq fresh'
      BY <1>5, SliceResolved
    <2>3. /\ pc'[g] = "cache" /\ spent'[g] = 0
          /\ \A h \in Readers \ {g} : pc'[h] = pc[h] /\ ref'[h] = ref[h]
      BY <1>0, <2>1, <2>2 DEF DialTypes, FreshInv
    <2>4. \A s \in fresh' : \A n \in 1 .. Len(slices'[s]) : Current(slices'[s][n])
      <3>1. ASSUME NEW s \in fresh', s # ref'[g]
            PROVE  \A n \in 1 .. Len(slices'[s]) : Current(slices'[s][n])
        <4>1. s \in fresh /\ s \in Used /\ s \in SliceIds /\ slices'[s] = slices[s]
          BY <2>2, <3>1 DEF DialTypes
        <4> QED
          BY <4>1 DEF FreshInv
      <3> QED
        BY <2>2, <3>1
    <2>5. \A h \in Readers : pc'[h] \in Swapping /\ ref'[h] \in fresh' =>
            Current(tmp'[h][1]) /\ Current(tmp'[h][2])
      <3>1. ASSUME NEW h \in Readers, pc'[h] \in Swapping, ref'[h] \in fresh'
            PROVE  Current(tmp[h][1]) /\ Current(tmp[h][2])
        <4>1. h # g /\ pc[h] \in Swapping /\ ref'[h] = ref[h]
          BY <2>3, <3>1
        <4>2. ref[h] \in fresh
          BY <2>2, <3>1, <4>1
        <4> QED
          BY <4>1, <4>2 DEF FreshInv
      <3> QED
        BY <2>1, <3>1
    <2>6. \A h \in Readers : pc'[h] \in Using /\ calm'[h] /\ ~old'[h] => ref'[h] \in fresh'
      <3>1. ASSUME NEW h \in Readers \ {g}, pc'[h] \in Using, calm'[h], ~old'[h]
            PROVE  ref'[h] \in fresh'
        <4>1. ref'[h] = ref[h] /\ ref[h] \in fresh
          BY <2>1, <2>3, <3>1 DEF FreshInv
        <4> QED
          BY <2>2, <4>1 DEF Used
      <3> QED
        BY <2>2, <3>1
    <2>7. /\ \A h \in Readers : pc'[h] \in {"lookup", "resolve"} => spent'[h] = 0
          /\ \A h \in Readers : pc'[h] \in Dialling /\ calm'[h] /\ ~old'[h] => spent'[h] = 0
      BY <2>1, <2>3 DEF FreshInv
    <2>8. CalmDialSucceeds'
      BY <2>1, <2>3 DEF FreshInv, CalmDialSucceeds
    <2> QED
      BY <2>1, <2>4, <2>5, <2>6, <2>7, <2>8 DEF FreshInv, Current
  <1>6. CASE ResolveFails(g)
    <2>1. /\ UNCHANGED <<slices, ref, tmp, old, dns, fresh>>
          /\ pc' = [pc EXCEPT ![g] = "plain"] /\ pc[g] = "resolve"
          /\ \E n \in {0, 1} : spent' = [spent EXCEPT ![g] = spent[g] + n]
          /\ calm' = [h \in Readers |-> calm[h] /\ pc[h] \notin Dialling]
      BY <1>6 DEF ResolveFails
    <2>2. /\ pc'[g] = "plain" /\ ~calm'[g]
          /\ \A h \in Readers \ {g} : /\ pc'[h] = pc[h] /\ spent'[h] = spent[h]
                                      /\ calm'[h] => calm[h]
      BY <1>0, <2>1 DEF DialTypes
    <2> QED
      BY <2>1, <2>2, FreshDial
  <1>7. CASE StoreEntry(g) \/ EndShuffle(g) \/ EndOfSlice(g)
    <2>1. /\ UNCHANGED <<slices, tmp, spent, old, dns, fresh, calm>>
          /\ pc[g] \in Using /\ pc'[g] \in {"shuffle", "try", "plain"}
          /\ pc'[g] # "plain" => ref' = ref
          /\ \A h \in Readers \ {g} : pc'[h] = pc[h] /\ ref'[h] = ref[h]
      BY <1>0, <1>7 DEF StoreEntry, EndShuffle, EndOfSlice, AfterSlice, LeaveSlice, DialTypes
    <2>2. /\ pc'[g] \in Using /\ calm'[g] /\ ~old'[g] => ref'[g] \in fresh
          /\ calm'[g] /\ ~old'[g] => spent'[g] = 0
      BY <2>1 DEF FreshInv
    <2> QED
      BY <2>1, <2>2, FreshDial
  <1>8. CASE ReadPair(g)
    <2>1. PICK n \in 1 .. i[g] : tmp' = [tmp EXCEPT ![g] = <<Slice(g)[i[g]], Slice(g)[n]>>]
      BY <1>8 DEF ReadPair
    <2>2. /\ pc' = [pc EXCEPT ![g] = "swap1"] /\ pc[g] = "shuffle" /\ i[g] > 1
          /\ UNCHANGED <<slices, ref, spent, old, dns, fresh, calm>>
      BY <1>8 DEF ReadPair
    <2>3. i[g] \in 1 .. Len(slices[ref[g]]) /\ n \in 1 .. Len(slices[ref[g]])
      BY <2>1, <2>2 DEF DialTypes
    <2>4. ref[g] \in fresh => Current(Slice(g)[i[g]]) /\ Current(Slice(g)[n])
      BY <2>3 DEF FreshInv, Slice
    <2>5. /\ tmp'[g] = <<Slice(g)[i[g]], Slice(g)[n]>> /\ pc'[g] = "swap1"
          /\ \A h \in Readers \ {g} : pc'[h] = pc[h] /\ tmp'[h] = tmp[h]
      BY <1>0, <2>1, <2>2 DEF DialTypes
    <2>6. ref'[g] \in fresh => Current(tmp'[g][1]) /\ Current(tmp'[g][2])
      BY <2>2, <2>4, <2>5
    <2>7. /\ calm'[g] /\ ~old'[g] => ref'[g] \in fresh
          /\ calm'[g] /\ ~old'[g] => spent'[g] = 0
      BY <2>2 DEF FreshInv
    <2> QED
      BY <2>2, <2>5, <2>6, <2>7, FreshDial
  <1>9. CASE Swap(g)
    <2>1. /\ pc[g] \in Swapping /\ pc' = [pc EXCEPT ![g] = pc'[g]]
          /\ pc'[g] \in Swapping \cup {"shuffle"}
          /\ pc'[g] \in Swapping => UNCHANGED <<i, j, tmp>>
          /\ pc'[g] = "shuffle" => tmp' = [tmp EXCEPT ![g] = <<>>]
          /\ UNCHANGED <<ref, spent, old, fresh, dns, calm>>
      BY <1>9, SwapStores
    <2>2. \A h \in Readers \ {g} : pc'[h] = pc[h] /\ tmp'[h] = tmp[h]
      BY <1>0, <2>1 DEF DialTypes
    <2>3. \A s \in fresh : \A n \in 1 .. Len(slices'[s]) : Current(slices'[s][n])
      <3>1. SUFFICES ASSUME NEW s \in fresh, NEW m \in 1 .. Len(slices[s])
                     PROVE  Current(slices'[s][m])
        BY <1>9, SwapKeepsSlices DEF DialTypes
      <3>2. s \in SliceIds
        BY DEF DialTypes
      <3>3. CASE slices'[s][m] = slices[s][m]
        BY <3>3 DEF FreshInv
      <3>4. CASE slices'[s][m] # slices[s][m]
        <4>1. /\ s = ref[g]
              /\ \E n \in 1 .. Len(slices[s]) :
                   \A w \in {slices'[s][m].ptr, slices'[s][m].len} :
                     w \in {tmp[g][1].ptr, tmp[g][1].len, tmp[g][2].ptr, tmp[g][2].len,
                            slices[s][n].ptr, slices[s][n].len}
          BY <1>9, <3>2, <3>4, SwapKeepsSlices
        <4>2. PICK n \in 1 .. Len(slices[s]) :
                \A w \in {slices'[s][m].ptr, slices'[s][m].len} :
                  w \in {tmp[g][1].ptr, tmp[g][1].len, tmp[g][2].ptr, tmp[g][2].len,
                         slices[s][n].ptr, slices[s][n].len}
          BY <4>1
        <4>3. Current(slices[s][n]) /\ Current(tmp[g][1]) /\ Current(tmp[g][2])
          BY <2>1, <4>1 DEF FreshInv
        <4> QED
          BY <4>2, <4>3 DEF Current
      <3> QED
        BY <3>3, <3>4
    <2>4. \A h \in Readers : pc'[h] \in Swapping /\ ref'[h] \in fresh =>
            Current(tmp'[h][1]) /\ Current(tmp'[h][2])
      BY <2>1, <2>2 DEF FreshInv
    <2>5. /\ \A h \in Readers : pc'[h] \in Using /\ calm'[h] /\ ~old'[h] => ref'[h] \in fresh
          /\ \A h \in Readers : pc'[h] \in {"lookup", "resolve"} => spent'[h] = 0
          /\ \A h \in Readers : pc'[h] \in Dialling /\ calm'[h] /\ ~old'[h] => spent'[h] = 0
      BY <2>1, <2>2 DEF FreshInv
    <2>6. CalmDialSucceeds'
      BY <2>1, <2>2 DEF FreshInv, CalmDialSucceeds
    <2> QED
      BY <2>1, <2>3, <2>4, <2>5, <2>6 DEF FreshInv, Current
  <1>10. CASE TryAddress(g)
    <2>1. /\ UNCHANGED <<slices, tmp, dns, fresh>> /\ pc[g] = "try" /\ k[g] \in 1 .. Len(slices[ref[g]])
          /\ pc'[g] \in {"try", "request"} /\ \A h \in Readers \ {g} : pc'[h] = pc[h]
      BY <1>0, <1>10 DEF TryAddress, Connected, NextAddress, LeaveSlice, Slice
    <2>2. \A h \in Readers : calm'[h] => calm[h]
      BY <1>10 DEF TryAddress, DialTypes
    <2>3. \A h \in Readers \ {g} : ref'[h] = ref[h] /\ spent'[h] = spent[h] /\ old'[h] = old[h]
      BY <1>10 DEF TryAddress, Connected, NextAddress, LeaveSlice, DialTypes
    <2>4. CASE pc'[g] = "request"
      BY <2>1, <2>2, <2>3, <2>4, FreshDial
    <2>5. CASE pc'[g] = "try"
      <3>1. UNCHANGED <<ref, old>>
        BY <1>0, <1>10, <2>5 DEF TryAddress, Connected, NextAddress
      <3>2. calm'[g] /\ ~old[g] => ref[g] \in fresh /\ spent[g] = 0
        BY <2>1, <2>2 DEF FreshInv
      <3>3. calm'[g] /\ ~old[g] => spent'[g] = 0
        <4>1. SUFFICES ASSUME calm'[g], ~old[g], spent' = [spent EXCEPT ![g] = spent[g] + 1]
                       PROVE  FALSE
          BY <1>0, <1>10, <2>5, <3>2 DEF TryAddress, Connected
        <4>2. spent'[g] # spent[g]
          BY <4>1 DEF DialTypes
        <4>3. \/ ~calm'[g]
              \/ Slice(g)[k[g]].ptr \notin dns
          BY <1>0, <1>10, <2>1, <2>5, <4>2 DEF TryAddress, Connected, DialTypes
        <4>4. ref[g] \in fresh /\ Current(Slice(g)[k[g]])
          BY <2>1, <3>2, <4>1 DEF FreshInv, Slice
        <4> QED
          BY <4>1, <4>3, <4>4 DEF Current
      <3> QED
        BY <2>1, <2>2, <2>3, <2>5, <3>1, <3>2, <3>3, FreshDial
    <2> QED
      BY <2>1, <2>4, <2>5
  <1>11. CASE DialByName(g)
    <2>1. /\ UNCHANGED <<slices, ref, tmp, dns, fresh>> /\ pc[g] = "plain"
          /\ \A h \in Readers \ {g} : pc'[h] = pc[h] /\ spent'[h] = spent[h] /\ old'[h] = old[h]
          /\ pc'[g] \in {"request", "refused"}
          /\ \A h \in Readers : calm'[h] => calm[h]
      BY <1>0, <1>11 DEF DialByName, Connected, DialTypes
    <2>2. CASE pc'[g] = "refused"
      <3>1. UNCHANGED <<spent, old>> /\ (Late(g) \/ ~calm'[g])
        BY <1>0, <1>11, <2>1, <2>2 DEF DialByName, Connected
      <3>2. calm'[g] => old[g] /\ spent[g] >= Budget
        BY <1>a, <2>1, <3>1 DEF FreshInv, Late
      <3> QED
        BY <2>1, <2>2, <3>1, <3>2, FreshDial
    <2>3. CASE pc'[g] = "request"
      BY <2>1, <2>3, FreshDial
    <2> QED
      BY <2>1, <2>2, <2>3
  <1> QED
    BY <1>1, <1>2, <1>3, <1>4, <1>5, <1>6, <1>7, <1>8, <1>9, <1>10, <1>11 DEF ConnectStep

\* So does every other step.
LEMMA FreshStep == ASSUME ClientInv, DialTypes, FreshInv, [Next]_vars PROVE FreshInv'
  <1> USE DEF Fault, NoFault, Disturb
  <1>0. pc \in [Readers -> Places]
    BY DEF ClientInv
  <1>1. ASSUME NEW g \in Readers, ConnectStep(g) PROVE FreshInv'
    BY <1>1, FreshConnect
  <1>2. ASSUME NEW g \in Readers,
               CreateDownloadSession(g) \/ AttachToExistedDownloadSession(g)
        PROVE  FreshInv'
    <2>1. \A h \in Readers : pc[h] = "idle"
      BY <1>2 DEF CreateDownloadSession, AttachToExistedDownloadSession, ClientInv
    <2>2. pc' = [pc EXCEPT ![g] = "client"] /\ fresh' = {}
      BY <1>2 DEF CreateDownloadSession, AttachToExistedDownloadSession, StartLoading
    <2>3. \A h \in Readers : pc'[h] \in {"idle", "client"}
      BY <1>0, <2>1, <2>2
    <2> QED
      BY <2>2, <2>3
      DEF FreshInv, CalmDialSucceeds, Dialling, Using, Shuffling, Swapping
  <1>3. ASSUME NEW g \in Readers,
               \/ OpenRecordReader(g) \/ LoadInformation(g) \/ LoadFails(g)
               \/ NewDownloadConnection(g) \/ Read(g) \/ ReadEOF(g) \/ ReadFails(g)
        PROVE  FreshInv'
    <2>1. /\ UNCHANGED <<slices, addressVars, dns, fresh>>
          /\ calm' = calm \/ calm' = [h \in Readers |-> calm[h] /\ pc[h] \notin Dialling]
      BY <1>3
      DEF OpenRecordReader, LoadInformation, LoadFails, NewDownloadConnection, Read, ReadEOF,
          ReadFails, transportVars
    <2>2. \A h \in Readers : pc'[h] \in Dialling \cup {"refused"} => pc'[h] = pc[h]
      BY <1>0, <1>3
      DEF OpenRecordReader, LoadInformation, LoadFails, NewDownloadConnection, Read, ReadEOF,
          ReadFails, transportVars, Dialling
    <2> QED
      BY <2>1, <2>2, FreshUntouched
  <1>4. CASE Prepare \/ EntryExpires \/ UNCHANGED vars
    <2>1. UNCHANGED <<pc, slices, addressVars, dns, fresh, calm>>
      BY <1>4 DEF Prepare, EntryExpires, Expire, vars, transportVars
    <2> QED
      BY <2>1, FreshUntouched
  <1>5. CASE MoveHost
    <2>1. /\ fresh' = {} /\ UNCHANGED <<pc, spent, old>>
          /\ calm' = [h \in Readers |-> calm[h] /\ pc[h] \notin Dialling]
      BY <1>5 DEF MoveHost
    <2>2. \A h \in Readers : pc[h] \in Dialling => ~calm'[h]
      BY <2>1
    <2> QED
      BY <2>1, <2>2 DEF FreshInv, CalmDialSucceeds, Dialling, Using, Shuffling, Swapping
  <1> QED
    BY <1>1, <1>2, <1>3, <1>4, <1>5 DEF Next, SessionStep, RequestStep

\* For any number of addresses and readers, any deadline and however often entries grow
\* old: a dial that met no fault and no move fails only if it was given addresses of the
\* time before a move and they used up its deadline.  Unlocked shuffles that tear the
\* cells of a shared slice never bring such an address into a slice made since.
THEOREM CalmDialsConnect == Spec => []CalmDialSucceeds
  <1>1. Init => ClientInv /\ DialTypes /\ FreshInv
    <2> SUFFICES ASSUME Init PROVE ClientInv /\ DialTypes /\ FreshInv
      OBVIOUS
    <2>1. ClientInv /\ FreshInv
      BY DEF Init, TransportInit, ClientInv, Places, HasClient, FreshInv, CalmDialSucceeds,
             Dialling, Using, Shuffling, Swapping
    <2>2. DialTypes
      BY DEF Init, TransportInit, DialTypes, NoSlices, Using, Shuffling, Swapping
    <2> QED
      BY <2>1, <2>2
  <1>2. FreshInv => CalmDialSucceeds
    BY DEF FreshInv
  <1> QED
    BY <1>1, <1>2, ClientStep, DialTypeStep, FreshStep, PTL DEF Spec

-----------------------------------------------------------------------------
(* The shares of the readers.                                               *)

LEMMA ProductMonotone ==
  ASSUME NEW a \in Nat, NEW b \in Nat, a <= b, NEW c \in Nat
  PROVE  a * c <= b * c
  <1>1. b - a \in Nat
    OBVIOUS
  <1>2. \A x \in Nat : x * c >= 0
    OBVIOUS
  <1>3. (b - a) * c = b * c - a * c
    OBVIOUS
  <1> QED
    BY <1>1, <1>2, <1>3

LEMMA QuotientBounds ==
  ASSUME NEW a \in Nat, NEW n \in Nat \ {0}
  PROVE  a \div n \in Nat /\ n * (a \div n) <= a /\ a < n * (a \div n) + n
  OBVIOUS

\* The quotient is the largest number whose product does not exceed the dividend.
LEMMA QuotientIsLargest ==
  ASSUME NEW a \in Nat, NEW n \in Nat \ {0}, NEW q \in Nat
  PROVE  q <= a \div n <=> q * n <= a
  <1> DEFINE p == a \div n
  <1>1. p \in Nat /\ n * p <= a /\ a < n * p + n
    BY QuotientBounds
  <1> HIDE DEF p
  <1>2. ASSUME q <= p PROVE q * n <= a
    <2>1. q * n <= p * n
      BY <1>1, <1>2, ProductMonotone
    <2> QED
      BY <1>1, <2>1
  <1>3. ASSUME p + 1 <= q PROVE ~(q * n <= a)
    <2>1. (p + 1) * n <= q * n
      BY <1>1, <1>3, ProductMonotone
    <2>2. (p + 1) * n = n * p + n
      BY <1>1
    <2> QED
      BY <1>1, <2>1, <2>2
  <1> QED
    BY <1>1, <1>2, <1>3 DEF p

\* The shares lie one behind the other and cover the record count.
SharesFit ==
  /\ \A g \in Readers : /\ First(g) \in Nat /\ Last(g) \in Nat
                        /\ First(g) <= Last(g) /\ Last(g) <= recordCount
  /\ \A g, h \in Readers : g < h => Last(g) <= First(h)
  /\ \A n \in 1 .. recordCount : \E g \in Readers : First(g) < n /\ n <= Last(g)

LEMMA Shares == recordCount \in Nat => SharesFit
  <1> SUFFICES ASSUME recordCount \in Nat PROVE SharesFit
    OBVIOUS
  <1> DEFINE R == recordCount
             N == NumReaders
             Cut(g) == (g * R) \div N
  <1>0. N \in Nat \ {0} /\ R \in Nat
    BY TransportAssumption
  <1>1. \A g \in Nat : g * R \in Nat /\ Cut(g) \in Nat
    BY <1>0, QuotientBounds
  <1>2. ASSUME NEW g \in Nat, NEW h \in Nat, g <= h PROVE Cut(g) <= Cut(h)
    <2>1. Cut(g) * N <= g * R
      BY <1>0, <1>1, QuotientIsLargest
    <2>2. g * R <= h * R
      BY <1>0, <1>2, ProductMonotone
    <2>3. Cut(g) * N <= h * R
      BY <1>0, <1>1, <2>1, <2>2
    <2> QED
      BY <1>0, <1>1, <2>3, QuotientIsLargest
  <1>3. Cut(N) <= R
    <2>1. ~((R + 1) * N <= N * R)
      BY <1>0
    <2>2. ~(R + 1 <= Cut(N))
      BY <1>0, <1>1, <2>1, QuotientIsLargest
    <2> QED
      BY <1>0, <1>1, <2>2
  <1>4. \A g \in Readers : /\ g \in Nat /\ g - 1 \in Nat /\ g <= N
                           /\ First(g) = Cut(g - 1) /\ Last(g) = Cut(g)
    BY <1>0 DEF Readers, First, Last
  <1>5. ASSUME NEW n \in 1 .. R PROVE \E g \in Readers : First(g) < n /\ n <= Last(g)
    <2> DEFINE g == (n * N + R - 1) \div R
    <2>1. R \in Nat \ {0} /\ n * N + R - 1 \in Nat
      BY <1>0
    <2>2. g \in Nat /\ R * g <= n * N + R - 1 /\ n * N + R - 1 < R * g + R
      BY <2>1, QuotientBounds
    <2> HIDE DEF g
    <2>3. n * N <= g * R /\ (g - 1) * R < n * N
      BY <1>0, <2>2
    <2>4. g >= 1
      <3>1. n * N >= 1
        BY <1>0
      <3> QED
        BY <1>0, <2>2, <2>3, <3>1
    <2>5. g <= N
      <3>1. n * N <= R * N
        BY <1>0, ProductMonotone
      <3>2. SUFFICES ASSUME N <= g - 1 PROVE FALSE
        BY <1>0, <2>2
      <3>3. N * R <= (g - 1) * R
        BY <1>0, <2>2, <2>4, <3>2, ProductMonotone
      <3>4. N * R = R * N
        BY <1>0
      <3> QED
        BY <1>0, <2>2, <2>3, <2>4, <3>1, <3>3, <3>4
    <2>6. n <= Cut(g)
      BY <1>0, <1>1, <2>2, <2>3, QuotientIsLargest
    <2>7. ~(n <= Cut(g - 1))
      BY <1>0, <1>1, <2>2, <2>3, <2>4, QuotientIsLargest
    <2>8. g \in Readers /\ Cut(g - 1) \in Nat
      BY <1>0, <1>1, <2>2, <2>4, <2>5 DEF Readers
    <2> HIDE DEF Cut
    <2> QED
      BY <1>4, <2>6, <2>7, <2>8
  <1> HIDE DEF Cut
  <1>6. \A g \in Readers : First(g) <= Last(g) /\ Last(g) <= R
    BY <1>0, <1>1, <1>2, <1>3, <1>4
  <1>7. \A g, h \in Readers : g < h => Last(g) <= First(h)
    BY <1>0, <1>1, <1>2, <1>4
  <1> QED
    BY <1>1, <1>4, <1>5, <1>6, <1>7 DEF SharesFit

LEMMA SharesAfter == (recordCount \in Nat => SharesFit)'
  BY Shares, PTL

-----------------------------------------------------------------------------
(* The rows.                                                                *)

Handed(n) == \E g \in Readers : First(g) < n /\ n <= First(g) + taken[g]

\* A row has been handed out once if it is among the first of some share, and what
\* is before a reader is the rest of its share or, between two readers, nothing.
\* Nobody reads before the session is ready.
RowInv ==
  /\ status \in {"UNKNOWN", "INITIATING", "NORMAL"}
  /\ recordCount = IF status = "NORMAL" THEN Rows ELSE 0
  /\ status = "NORMAL" => session = "open"
  /\ taken \in [Readers -> Nat]
  /\ left \in [Readers -> SUBSET Nat]
  /\ count \in [1 .. Rows -> Nat]
  /\ status # "NORMAL" =>
       \A g \in Readers : taken[g] = 0 /\ left[g] = {} /\ (pc[g] # "idle" => use[g] = "load")
  /\ \A g \in Readers :
       /\ First(g) + taken[g] <= Last(g)
       /\ left[g] = {} \/ left[g] = First(g) + taken[g] + 1 .. Last(g)
  /\ \A n \in 1 .. Rows : count[n] = IF Handed(n) THEN 1 ELSE 0

LEMMA RowStep ==
  ASSUME ClientInv, RowInv, [Next]_vars
  PROVE  RowInv'
  <1>1. recordCount \in Nat /\ SharesFit
    BY Shares, DownloadAssumption DEF RowInv
  <1>2. recordCount' \in Nat => SharesFit'
    BY SharesAfter
  <1>3. recordCount' = recordCount =>
          \A g \in Readers : First(g)' = First(g) /\ Last(g)' = Last(g)
    BY DEF First, Last
  \* Steps that touch no row.
  <1>4. ASSUME UNCHANGED <<status, recordCount, session, left, taken, count>>,
               status # "NORMAL" =>
                 \A g \in Readers : pc'[g] # "idle" => use'[g] = "load"
        PROVE  RowInv'
    BY <1>3, <1>4 DEF RowInv, Handed
  <1>5. ASSUME NEW g \in Readers, ConnectStep(g), UNCHANGED <<sessionVars, readerVars>>
        PROVE  RowInv'
    <2>1. pc \in [Readers -> Places]
      BY DEF ClientInv
    <2>2. pc[g] # "idle" /\ \A h \in Readers \ {g} : pc'[h] = pc[h]
      <3>1. CASE Client(g) \/ MakeClient(g)
        BY <2>1, <3>1 DEF Client, MakeClient
      <3>2. CASE ~Client(g) /\ ~MakeClient(g)
        BY <1>5, <2>1, <3>2, DialFrame DEF ConnectStep, Moves, HasClient
      <3> QED
        BY <3>1, <3>2
    <2> QED
      BY <1>4, <1>5, <2>2 DEF RowInv, sessionVars, readerVars
  <1>6. ASSUME NEW g \in Readers, SessionStep(g) PROVE RowInv'
    <2>1. CASE CreateDownloadSession(g) \/ AttachToExistedDownloadSession(g)
      <3>1. status # "NORMAL"
        BY <2>1 DEF CreateDownloadSession, AttachToExistedDownloadSession
      <3>2. \A h \in Readers : pc[h] = "idle"
        BY <2>1 DEF CreateDownloadSession, AttachToExistedDownloadSession, ClientInv
      <3>3. /\ UNCHANGED <<status, recordCount, left, taken, count>>
            /\ pc' = [pc EXCEPT ![g] = "client"] /\ use' = [use EXCEPT ![g] = "load"]
        BY <2>1 DEF CreateDownloadSession, AttachToExistedDownloadSession, StartLoading
      <3> QED
        BY <1>3, <3>1, <3>2, <3>3 DEF RowInv, Handed, ClientInv
    <2>2. CASE OpenRecordReader(g)
      <3>1. status = "NORMAL"
        <4>1. SUFFICES ASSUME status # "NORMAL" PROVE Last(g) - First(g) = 0 /\ taken[g] = 0
          BY <2>2, <4>1 DEF OpenRecordReader, Finished
        <4> QED
          BY <1>1, <4>1 DEF RowInv, SharesFit
      <3> QED
        BY <1>4, <2>2, <3>1 DEF OpenRecordReader, sessionVars, readerVars
    <2> QED
      BY <1>6, <2>1, <2>2 DEF SessionStep
  <1>7. ASSUME NEW g \in Readers, LoadInformation(g) PROVE RowInv'
    <2>1. session = "loading" /\ status # "NORMAL"
      BY <1>7 DEF LoadInformation, ClientInv, RowInv
    <2>2. \A h \in Readers : pc'[h] = "idle"
      BY <1>7, <2>1 DEF LoadInformation, ClientInv
    <2>3. /\ status' \in {"INITIATING", "NORMAL"} /\ session' = "open"
          /\ recordCount' = (IF status' = "NORMAL" THEN Rows ELSE 0)
          /\ UNCHANGED <<left, taken, count>>
      BY <1>7 DEF LoadInformation
    <2>4. SharesFit'
      BY <1>2, <2>3, DownloadAssumption
    <2>5. \A n \in 1 .. Rows : ~Handed(n) /\ ~Handed(n)'
      <3>1. \A h \in Readers : /\ First(h) \in Nat /\ First(h)' \in Nat
                               /\ taken[h] = 0 /\ taken'[h] = 0
        BY <1>1, <2>1, <2>3, <2>4 DEF RowInv, SharesFit
      <3>2. \A a \in Nat, n \in 1 .. Rows : ~(a < n /\ n <= a + 0)
        BY DownloadAssumption
      <3> QED
        BY <3>1, <3>2 DEF Handed
    <2> QED
      BY <2>1, <2>2, <2>3, <2>4, <2>5 DEF RowInv, SharesFit
  <1>8. ASSUME NEW g \in Readers, LoadFails(g) PROVE RowInv'
    <2>1. session = "loading" /\ status # "NORMAL"
      BY <1>8 DEF LoadFails, ClientInv, RowInv
    <2>2. \A h \in Readers : pc'[h] = "idle"
      BY <1>8, <2>1 DEF LoadFails, ClientInv
    <2>3. UNCHANGED <<status, recordCount, left, taken, count>>
      BY <1>8 DEF LoadFails
    <2> QED
      BY <1>3, <2>1, <2>2, <2>3 DEF RowInv, Handed
  <1>9. ASSUME NEW g \in Readers, NewDownloadConnection(g) PROVE RowInv'
    <2>1. status = "NORMAL" /\ recordCount = Rows
      BY <1>9 DEF NewDownloadConnection, RowInv
    <2>2. Sent(g) = First(g) + taken[g] + 1 .. Last(g)
      <3>1. /\ First(g) \in Nat /\ Last(g) \in Nat /\ taken[g] \in Nat
            /\ Last(g) <= Rows /\ First(g) + taken[g] <= Last(g)
        BY <1>1, <2>1 DEF RowInv, SharesFit
      <3>2. RowRange(g).start = First(g) + taken[g] /\ RowRange(g).start + RowRange(g).count = Last(g)
        BY <3>1 DEF RowRange
      <3>3. \A n \in 1 .. Rows : n \in Nat /\ n >= 1
        BY DownloadAssumption
      <3>4. Sent(g) = {n \in 1 .. Rows : First(g) + taken[g] < n /\ n <= Last(g)}
        BY <3>2 DEF Sent
      <3> QED
        BY <3>1, <3>3, <3>4, DownloadAssumption
    <2>3. /\ UNCHANGED <<status, recordCount, session, taken, count>>
          /\ left' = [left EXCEPT ![g] = Sent(g)]
      BY <1>9 DEF NewDownloadConnection, sessionVars
    <2>4. Sent(g) \in SUBSET Nat
      BY DownloadAssumption DEF Sent
    <2> QED
      BY <1>3, <2>1, <2>2, <2>3, <2>4 DEF RowInv, Handed
  <1>10. ASSUME NEW g \in Readers, Read(g) PROVE RowInv'
    <2> DEFINE n == First(g) + taken[g] + 1
    <2>1. PICK m \in left[g] : /\ \A x \in left[g] : m <= x
                               /\ left' = [left EXCEPT ![g] = @ \ {m}]
                               /\ count' = [count EXCEPT ![m] = @ + 1]
      BY <1>10 DEF Read
    <2>2. /\ taken' = [taken EXCEPT ![g] = @ + 1]
          /\ UNCHANGED <<status, recordCount, session, pc, use>>
      BY <1>10 DEF Read, transportVars, sessionVars
    <2>3. status = "NORMAL" /\ recordCount = Rows
      BY <2>1 DEF RowInv
    <2>4. /\ First(g) \in Nat /\ Last(g) \in Nat /\ taken[g] \in Nat /\ Last(g) <= Rows
          /\ left[g] = n .. Last(g)
      BY <1>1, <2>1, <2>3 DEF RowInv, SharesFit
    <2>5. n \in Nat /\ n <= Last(g) /\ m = n
      <3>1. n \in Nat /\ m \in n .. Last(g)
        BY <2>1, <2>4
      <3>2. m \in Nat /\ n <= m /\ m <= Last(g)
        BY <2>4, <3>1
      <3>3. n \in left[g]
        BY <2>4, <3>1, <3>2
      <3> QED
        BY <2>1, <3>1, <3>2, <3>3, <2>4
    <2>6. left[g] \ {m} = n + 1 .. Last(g)
      BY <2>4, <2>5
    <2>7. ~Handed(n)
      <3>1. SUFFICES ASSUME NEW h \in Readers, First(h) < n, n <= First(h) + taken[h]
                     PROVE  FALSE
        BY DEF Handed
      <3>2. /\ g \in Nat /\ h \in Nat /\ First(h) \in Nat /\ Last(h) \in Nat
            /\ taken[h] \in Nat /\ First(h) + taken[h] <= Last(h)
        BY <1>1, TransportAssumption DEF SharesFit, RowInv, Readers
      <3>3. CASE h < g
        BY <1>1, <2>4, <3>1, <3>2, <3>3 DEF SharesFit
      <3>4. CASE g < h
        BY <1>1, <2>4, <2>5, <3>1, <3>2, <3>4 DEF SharesFit
      <3>5. CASE h = g
        BY <2>4, <3>1, <3>5
      <3> QED
        BY <3>2, <3>3, <3>4, <3>5
    <2>8. \A h \in Readers : /\ First(h)' = First(h) /\ Last(h)' = Last(h)
                             /\ First(h) \in Nat /\ taken[h] \in Nat
      BY <1>1, <1>3, <2>2 DEF SharesFit, RowInv
    <2>9. ASSUME NEW x \in 1 .. Rows PROVE Handed(x)' <=> Handed(x) \/ x = n
      <3>1. taken'[g] = taken[g] + 1 /\ \A h \in Readers \ {g} : taken'[h] = taken[h]
        BY <2>2 DEF RowInv
      <3>2. x \in Nat
        BY DownloadAssumption
      <3>3. First(g)' < x /\ x <= First(g)' + taken'[g]
              <=> (First(g) < x /\ x <= First(g) + taken[g]) \/ x = n
        BY <2>4, <2>8, <3>1, <3>2
      <3> HIDE DEF n
      <3> QED
        BY <2>8, <3>1, <3>3 DEF Handed
    <2>10. n \in 1 .. Rows
      BY <2>4, <2>5, DownloadAssumption
    <2>11. \A x \in 1 .. Rows : count'[x] = IF Handed(x)' THEN 1 ELSE 0
      <3> HIDE DEF n
      <3> QED
        BY <2>1, <2>5, <2>7, <2>9, <2>10 DEF RowInv
    <2>12. /\ taken' \in [Readers -> Nat] /\ left' \in [Readers -> SUBSET Nat]
           /\ count' \in [1 .. Rows -> Nat]
      <3>1. taken' \in [Readers -> Nat] /\ left' \in [Readers -> SUBSET Nat]
        BY <2>1, <2>2 DEF RowInv
      <3>2. \A x \in 1 .. Rows : count[x] \in Nat /\ count[x] + 1 \in Nat
        BY DEF RowInv
      <3> QED
        BY <2>1, <3>1, <3>2 DEF RowInv
    <2>13. ASSUME NEW h \in Readers
           PROVE  /\ First(h)' + taken'[h] <= Last(h)'
                  /\ left'[h] = {} \/ left'[h] = First(h)' + taken'[h] + 1 .. Last(h)'
      <3>1. CASE h = g
        <4>1. taken'[g] = taken[g] + 1 /\ left'[g] = n + 1 .. Last(g)
          BY <2>1, <2>2, <2>6 DEF RowInv
        <4>2. n + 1 = First(g) + taken'[g] + 1
          BY <2>4, <4>1
        <4> QED
          BY <2>4, <2>5, <2>8, <3>1, <4>1, <4>2
      <3>2. CASE h # g
        BY <2>1, <2>2, <2>8, <3>2 DEF RowInv
      <3> QED
        BY <3>1, <3>2
    <2> QED
      BY <2>2, <2>3, <2>11, <2>12, <2>13 DEF RowInv
  <1>11. ASSUME NEW g \in Readers, ReadEOF(g) \/ ReadFails(g) PROVE RowInv'
    <2>1. /\ UNCHANGED <<status, recordCount, session, taken, count, use>>
          /\ left' = [left EXCEPT ![g] = {}] /\ pc' = [pc EXCEPT ![g] = "idle"]
      BY <1>11 DEF ReadEOF, ReadFails, sessionVars
    <2>2. pc \in [Readers -> Places]
      BY DEF ClientInv
    <2> QED
      BY <1>3, <2>1, <2>2 DEF RowInv, Handed
  <1>12. CASE Prepare \/ (MoveHost /\ UNCHANGED <<sessionVars, readerVars>>) \/ EntryExpires
    BY <1>4, <1>12 DEF Prepare, MoveHost, EntryExpires, Expire, transportVars, sessionVars, readerVars, RowInv
  <1>13. CASE UNCHANGED vars
    BY <1>4, <1>13 DEF vars, transportVars, sessionVars, readerVars, RowInv
  <1> QED
    BY <1>5, <1>6, <1>7, <1>8, <1>9, <1>10, <1>11, <1>12, <1>13 DEF Next, RequestStep

\* For any number of readers and rows: whatever dials, reads and sessions fail, no row is
\* handed out twice, and readers that have finished their shares have handed out all.
THEOREM EveryRowOnce == Spec => []DownloadIsComplete
  <1>1. Init => ClientInv /\ RowInv
    <2> SUFFICES ASSUME Init PROVE ClientInv /\ RowInv
      OBVIOUS
    <2>1. ClientInv
      BY DEF Init, TransportInit, ClientInv, Places, HasClient
    <2>2. SharesFit
      BY Shares DEF Init
    <2>3. \A n \in 1 .. Rows : ~Handed(n)
      BY <2>2, DownloadAssumption DEF Init, Handed, SharesFit
    <2>4. RowInv
      BY <2>2, <2>3 DEF Init, TransportInit, RowInv, SharesFit
    <2> QED
      BY <2>1, <2>4
  <1>2. RowInv => DownloadIsComplete
    <2> SUFFICES ASSUME RowInv PROVE DownloadIsComplete
      OBVIOUS
    <2>1. SharesFit
      BY Shares, DownloadAssumption DEF RowInv
    <2>2. ASSUME status = "NORMAL", \A g \in Readers : Finished(g), NEW n \in 1 .. Rows
          PROVE  Handed(n)
      <3>1. PICK g \in Readers : First(g) < n /\ n <= Last(g)
        BY <2>1, <2>2 DEF RowInv, SharesFit
      <3>2. First(g) + taken[g] = Last(g)
        BY <2>1, <2>2 DEF Finished, SharesFit, RowInv
      <3> QED
        BY <3>1, <3>2 DEF Handed
    <2> QED
      BY <2>2 DEF RowInv, DownloadIsComplete
  <1> QED
    BY <1>1, <1>2, ClientStep, RowStep, PTL DEF Spec
=============================================================================
