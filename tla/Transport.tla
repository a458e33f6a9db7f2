------------------------------ MODULE Transport ------------------------------
(***************************************************************************)
(* How a request gets a connection: the lazily created http.Client of a    *)
(* RestClient (odps/restclient/rest_client.go) and its Dialer with the DNS *)
(* cache (dnscache.go), used by goroutines that share the RestClient.      *)
(*                                                                         *)
(* The cache hands out the slice it holds, and every dial shuffles that    *)
(* slice in place without a lock.  The slices are therefore objects here,  *)
(* and a swap is what the machine does: it reads two cells and stores      *)
(* them one word at a time, so that another goroutine may read a cell with *)
(* the pointer of one string and the length of another.                    *)
(***************************************************************************)
EXTENDS Integers, Sequences, FiniteSets

CONSTANTS
  NumReaders,   \* goroutines
  Addrs,        \* addresses the host may have, texts of different lengths
  MaxFaults,    \* bound on network, DNS and service faults
  MaxMoves,     \* bound on changes of the host's addresses
  MaxExpiries,  \* bound on how often an entry grows too old that is still right
  Budget        \* attempts that time out which fit into HttpTimeout

ASSUME TransportAssumption ==
  /\ NumReaders \in Nat \ {0} /\ Addrs # {} /\ IsFiniteSet(Addrs)
  /\ MaxFaults \in Nat /\ MaxMoves \in Nat /\ MaxExpiries \in Nat
  /\ Budget \in Nat \ {0}

Readers == 1 .. NumReaders

VARIABLES
  pc,        \* where each goroutine is
  clients,   \* how many http.Clients the RestClient has made
  slices,    \* the slices of addresses lookups have made
  cache,     \* the slice in the cache entry of the host, 0 with none that is young enough
  fresh,     \* history: the slices made since the last move of the host
  ref,       \* the slice a dial works on
  i, j, tmp, \* its shuffle
  k,         \* the next address it tries
  spent,     \* how much of the request's deadline silent addresses have used up
  old,       \* history: the dial works on a slice made before the last move
  idle,      \* connections in the client's pool
  peer,      \* whom a goroutine is connected to
  dns,       \* the addresses of the host
  faults, moves, expiries,
  calm       \* history: no fault and no move since the goroutine began its dial

resolverVars == <<cache, expiries, slices, fresh>>
clientVars   == <<clients, idle, resolverVars>>
addressVars  == <<ref, i, j, tmp, k, spent, old>>
dialVars     == <<addressVars, peer>>
networkVars  == <<dns, faults, moves, calm>>
transportVars == <<pc, clientVars, dialVars, networkVars>>

Cell == [ptr : Addrs, len : Addrs]
Text(a) == [ptr |-> a, len |-> a]
Slice(g) == slices[ref[g]]

\* A slice nothing refers to is garbage: each dial and the cache hold one at most.
SliceIds == 1 .. NumReaders + 1
Used == {cache} \cup {ref[g] : g \in Readers}
Unused == SliceIds \ Used
NoSlices == [s \in SliceIds |-> <<>>]

TransportInit ==
  /\ pc = [g \in Readers |-> "idle"]
  /\ clients = 0 /\ idle = 0
  /\ slices = NoSlices /\ cache = 0 /\ fresh = {}
  /\ ref = [g \in Readers |-> 0]
  /\ i = [g \in Readers |-> 0] /\ j = [g \in Readers |-> 0]
  /\ tmp = [g \in Readers |-> <<>>]
  /\ k = [g \in Readers |-> 0]
  /\ spent = [g \in Readers |-> 0] /\ old = [g \in Readers |-> FALSE]
  /\ peer = [g \in Readers |-> "none"]
  /\ dns = Addrs
  /\ faults = 0 /\ moves = 0 /\ expiries = 0
  /\ calm = [g \in Readers |-> TRUE]

Goto(g, p) == pc' = [pc EXCEPT ![g] = p]
Set(f, g, v) == f' = [f EXCEPT ![g] = v]

\* The locals of a dial are gone once it has no more use for its slice.
LeaveSlice(g) ==
  Set(ref, g, 0) /\ Set(k, g, 0) /\ UNCHANGED <<i, j, tmp>>

Dialling == {"lookup", "resolve", "cache", "shuffle", "swap1", "swap2", "swap3", "swap4",
             "try", "plain"}
Disturb == calm' = [g \in Readers |-> calm[g] /\ pc[g] \notin Dialling]
Fault == faults < MaxFaults /\ faults' = faults + 1 /\ Disturb
NoFault == UNCHANGED <<faults, calm>>

-----------------------------------------------------------------------------
(* RestClient.client: a check and, later, an assignment.                    *)

\* Mutant: the field is not looked at.
DoNotLook == FALSE
ClientIsSet == clients > 0

Client(g) ==
  /\ pc[g] = "client"
  /\ Goto(g, IF ClientIsSet THEN "connect" ELSE "make")
  /\ UNCHANGED <<clientVars, dialVars, networkVars>>

\* A client has a Resolver with an empty cache and a Transport with an empty pool.
MakeClient(g) ==
  /\ pc[g] = "make"
  /\ clients' = clients + 1
  /\ cache' = 0 /\ idle' = 0
  /\ Goto(g, "connect")
  /\ UNCHANGED <<slices, fresh, expiries, dialVars, networkVars>>

\* http.Client.Timeout gives every request a deadline of its own.
\* Mutant: the deadline is the client's.
SpentBefore(g) == spent[g]
SpentAtStart(g) == 0
Late(g) == spent[g] >= Budget

\* http.Transport (external) takes an idle connection or dials.
GetConn(g) ==
  /\ pc[g] = "connect"
  /\ Set(spent, g, SpentAtStart(g))
  /\ \/ /\ idle > 0 /\ idle' = idle - 1
        /\ Goto(g, "request") /\ Set(peer, g, "service")
        /\ UNCHANGED calm
     \/ /\ idle = 0
        /\ Goto(g, "lookup") /\ Set(calm, g, TRUE)
        /\ UNCHANGED <<idle, peer>>
  /\ UNCHANGED <<clients, resolverVars, ref, i, j, tmp, k, old, dns, faults, moves>>

-----------------------------------------------------------------------------
(* Resolver.Lookup and lookup.                                              *)

\* The cached slice itself is handed out, not a copy.
Lookup(g) ==
  /\ pc[g] = "lookup"
  /\ IF cache # 0
     THEN /\ Set(ref, g, cache) /\ Goto(g, "shuffle")
          /\ Set(i, g, Len(slices[cache])) /\ Set(old, g, cache \notin fresh)
     ELSE Goto(g, "resolve") /\ Set(old, g, FALSE) /\ UNCHANGED <<ref, i>>
  /\ UNCHANGED <<clientVars, j, tmp, k, spent, peer, networkVars>>

\* Lists of the host's addresses, in any order.
Answers == {s \in [1 .. Cardinality(dns) -> dns] : \A a \in dns : \E n \in DOMAIN s : s[n] = a}

Resolve(g) ==
  /\ pc[g] = "resolve"
  /\ \E s \in Unused :
       /\ \A u \in Unused : s <= u
       /\ \E a \in Answers :
            slices' = [u \in SliceIds |->
                         CASE u = s -> [n \in DOMAIN a |-> Text(a[n])]
                           [] u \in Used -> slices[u]
                           [] OTHER -> <<>>]
       /\ fresh' = (fresh \cap Used) \cup {s}
       /\ Set(ref, g, s)
  /\ Set(i, g, Cardinality(dns))
  /\ Goto(g, "cache")
  /\ UNCHANGED <<clients, idle, cache, expiries, j, tmp, k, spent, old, peer,
                 networkVars>>

\* The error of Lookup is dropped: DialContext goes on without addresses.  A lookup that
\* gets no answer takes time.
ResolveFails(g) ==
  /\ pc[g] = "resolve" /\ Fault
  /\ Goto(g, "plain")
  /\ \E n \in {0, 1} : Set(spent, g, spent[g] + n)
  /\ UNCHANGED <<clientVars, ref, i, j, tmp, k, old, peer, dns, moves>>

StoreEntry(g) ==
  /\ pc[g] = "cache"
  /\ cache' = ref[g]
  /\ Goto(g, "shuffle")
  /\ UNCHANGED <<clients, idle, slices, fresh, expiries, dialVars, networkVars>>

-----------------------------------------------------------------------------
(* Dialer.DialContext.                                                      *)

\* Mutant: the shuffle goes on with the same index.
SameIndex(n) == n
Decremented(n) == n - 1

\* rand.Shuffle calls swap(i, j) for i down to the second element and some j <= i.
ReadPair(g) ==
  /\ pc[g] = "shuffle" /\ i[g] > 1
  /\ \E n \in 1 .. i[g] :
       Set(j, g, n) /\ Set(tmp, g, <<Slice(g)[i[g]], Slice(g)[n]>>)
  /\ Goto(g, "swap1")
  /\ UNCHANGED <<clientVars, ref, i, k, spent, old, peer, networkVars>>

\* One word of the new string has been stored.
Halves(was, new) == {[ptr |-> new.ptr, len |-> was.len], [ptr |-> was.ptr, len |-> new.len]}

StoreCell(g, from, to, n, cell) ==
  /\ pc[g] = from
  /\ slices' = [slices EXCEPT ![ref[g]][n] = cell]
  /\ Goto(g, to)
  /\ UNCHANGED <<clients, idle, cache, expiries, fresh, ref, k, spent, old,
                 peer, networkVars>>

Swap(g) ==
  \/ /\ UNCHANGED <<i, j, tmp>>
     /\ \/ /\ pc[g] = "swap1"
           /\ \E half \in Halves(Slice(g)[i[g]], tmp[g][2]) :
                StoreCell(g, "swap1", "swap2", i[g], half)
        \/ StoreCell(g, "swap2", "swap3", i[g], tmp[g][2])
        \/ /\ pc[g] = "swap3"
           /\ \E half \in Halves(Slice(g)[j[g]], tmp[g][1]) :
                StoreCell(g, "swap3", "swap4", j[g], half)
  \/ /\ StoreCell(g, "swap4", "shuffle", j[g], tmp[g][1])
     /\ Set(i, g, Decremented(i[g])) /\ Set(j, g, 0) /\ Set(tmp, g, <<>>)

EndShuffle(g) ==
  /\ pc[g] = "shuffle" /\ i[g] <= 1
  /\ Set(k, g, 1) /\ Set(i, g, 0)
  /\ Goto(g, "try")
  /\ UNCHANGED <<clientVars, ref, j, tmp, spent, old, peer, networkVars>>

\* The next address of the slice is dialled, with what is left of the deadline: once
\* nothing is left every attempt fails at once.  An address the host no longer has, and a
\* text put together from two, is refused, or it is silent until the attempt times out,
\* or it is somebody else's; that a torn text names a machine at all counts as a fault.
Connected(g, whom) ==
  Goto(g, "request") /\ Set(peer, g, whom) /\ Set(spent, g, 0) /\ Set(old, g, FALSE)
NextAddress(g) == Set(k, g, k[g] + 1) /\ UNCHANGED <<pc, peer, ref, i, j, tmp, old>>

TryAddress(g) ==
  LET cell == Slice(g)[k[g]]
      whole == cell.ptr = cell.len
      live == whole /\ cell.ptr \in dns IN
  /\ pc[g] = "try" /\ k[g] \in 1 .. Len(Slice(g))
  /\ \/ ~Late(g) /\ live /\ NoFault /\ Connected(g, "service") /\ LeaveSlice(g)
     \/ ~Late(g) /\ ~live /\ Fault /\ Connected(g, "stranger") /\ LeaveSlice(g)
     \/ /\ ~Late(g) /\ (IF live THEN Fault ELSE NoFault)
        /\ NextAddress(g) /\ UNCHANGED spent
     \/ /\ ~Late(g) /\ (IF whole /\ ~live THEN NoFault ELSE Fault)
        /\ NextAddress(g) /\ Set(spent, g, spent[g] + 1)
     \/ Late(g) /\ NoFault /\ NextAddress(g) /\ UNCHANGED spent
  /\ UNCHANGED <<clientVars, dns, moves>>

\* When no address of the slice answers the host is dialled by its name.
\* Mutant: the dial fails instead.
GiveUp == "refused"
AfterSlice == "plain"

EndOfSlice(g) ==
  /\ pc[g] = "try" /\ k[g] > Len(Slice(g))
  /\ Goto(g, AfterSlice) /\ LeaveSlice(g)
  /\ UNCHANGED <<clientVars, spent, old, peer, networkVars>>

\* net.Dialer (external) resolves the name by itself and tries every address, if there
\* is time left.
DialByName(g) ==
  /\ pc[g] = "plain"
  /\ \/ ~Late(g) /\ NoFault /\ Connected(g, "service")
     \/ /\ IF Late(g) THEN NoFault ELSE Fault
        /\ Goto(g, "refused") /\ UNCHANGED <<peer, spent, old>>
  /\ UNCHANGED <<clientVars, ref, i, j, tmp, k, dns, moves>>

\* What runs until a request has a connection or none can be had.
ConnectStep(g) ==
  \/ Client(g) \/ MakeClient(g) \/ GetConn(g)
  \/ Lookup(g) \/ Resolve(g) \/ ResolveFails(g) \/ StoreEntry(g)
  \/ ReadPair(g) \/ Swap(g) \/ EndShuffle(g)
  \/ TryAddress(g) \/ EndOfSlice(g) \/ DialByName(g)

\* The host moves to other addresses (external), time passes.
MoveHost ==
  /\ moves < MaxMoves /\ moves' = moves + 1
  /\ dns' \in SUBSET Addrs \ {{}, dns}
  /\ fresh' = {} /\ Disturb
  /\ UNCHANGED <<pc, clients, idle, cache, expiries, slices, dialVars, faults>>

\* CacheTimeSeconds have passed since the entry was made.  It stays in the map, but no
\* lookup uses it any more.
Expire ==
  /\ cache # 0
  /\ \/ cache \in fresh /\ expiries < MaxExpiries /\ expiries' = expiries + 1
     \/ cache \notin fresh /\ UNCHANGED expiries
  /\ cache' = 0
  /\ UNCHANGED <<pc, clients, idle, slices, fresh, dialVars, networkVars>>
=============================================================================
