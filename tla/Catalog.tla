------------------------------- MODULE Catalog -------------------------------
(***************************************************************************)
(* The objects of a project behind the REST service and the calls on them: *)
(* loading and probing through a handle, listing page by page, creating    *)
(* and dropping (odps/table.go, tables.go, schema.go, schemas.go,          *)
(* function.go, functions.go, resource.go, resources.go, project.go,       *)
(* projects.go, partition.go), and the lookup of the tunnel's endpoint     *)
(* with the preview that uses it (odps/tunnel/tunnel.go).                  *)
(*                                                                         *)
(* Goroutines share one handle, for the object called 1, and one Tunnel,   *)
(* and neither has a lock.  A string and an interface are two words, which *)
(* are stored one after the other; what is read of both is read between    *)
(* two such stores.                                                        *)
(* A behaviour is about objects of one kind.  A request and its answer are *)
(* one step of the service; two requests of a call are two steps.          *)
(* Statements of SQL are modelled in SqlQuery; here such a call takes      *)
(* effect and returns, or fails with or without effect.  The parser of     *)
(* type names is a parameter, which runs give the one of DataTypes.        *)
(***************************************************************************)
EXTENDS Integers, Sequences, FiniteSets

CONSTANTS
  Procs,      \* goroutines
  TableTypes, \* column types a table may have
  NewTypes,   \* column types tables are created with
  Decoded(_), \* the outcome of the parser for the name the service gives a type
  Unreadable, \* the types whose name it refuses
  NumNames,   \* names an object may have
  PageSize,   \* objects in a page of a listing
  MaxCalls,   \* bound on calls
  MaxFaults   \* bound on lost requests, lost answers and errors of the service

ASSUME CatalogAssumption ==
  /\ NewTypes \subseteq TableTypes /\ <<"none">> \notin TableTypes
  /\ NumNames \in Nat \ {0} /\ PageSize \in Nat \ {0}
  /\ MaxCalls \in Nat /\ MaxFaults \in Nat

Names == 1 .. NumNames
Kinds == {"table", "schema", "function", "resource", "project", "partition"}

None  == <<"none">>
Plain == <<"plain">>   \* an object of which only its existence matters
Bare  == <<"http://">> \* the text GetTunnelEndpoint returns beside an error

\* The two words of a value: pointer and length of a string, type and data of an interface.
Words(v) == [w \in {1, 2} |-> v]
Whole(x) == x[1] = x[2]
Empty == Words(None)

VARIABLES
  kind,      \* what the objects are
  objs,      \* the objects: the column type of a table, the content of a resource
  loaded,    \* the handle's beLoaded
  schema,    \* the words of its column's type
  text,      \* the words of the schema text in its model
  extended,  \* a goroutine's Load is at the extended information
  ans,       \* what its request has brought, and the type decoded from it
  half,      \* the word it has left to store, or 0
  stale,     \* its column is in an array that another has replaced
  pc, op,    \* where a goroutine is, and in which call
  out,       \* how its last call ended
  marker,    \* a listing's marker
  page,      \* the model a page is decoded into
  listed,    \* the objects handed out
  endpoint,  \* the words of the Tunnel's endpoint
  got, url,  \* what a goroutine was told of it, and the endpoint of its RestClient
  calls, faults,
  always, ever, \* history: objects there throughout the call of a goroutine, and at some time
  had,       \* history: values object 1 has had
  calm,      \* history: no fault during the call
  crossed,   \* history: two goroutines have decoded into the handle at one time
  named,     \* history: endpoints the service has named
  torn       \* history: the endpoint was set or read while another was setting it

serviceVars == <<kind, objs>>
loadVars    == <<schema, text, extended, ans, stale, crossed>>
handleVars  == <<loaded, loadVars>>
listVars    == <<marker, page, listed>>
tunnelVars  == <<endpoint, got, url, named, torn>>
boundVars   == <<calls, faults, calm>>
catalogVars == <<serviceVars, handleVars, half, pc, op, out, listVars, tunnelVars, boundVars,
                 always, ever, had>>

Of(f, p, v) == [f EXCEPT ![p] = v]
Existing == {n \in Names : objs[n] # None}

\* The handle has a name only, or BatchLoadTables has made it from a description.
CatalogInit ==
  /\ kind \in Kinds
  /\ objs \in {o \in [Names -> TableTypes \cup {None, Plain}] :
                 \A n \in Names : o[n] \in {None} \cup
                   (IF kind = "table" /\ n = 1 THEN TableTypes ELSE {Plain})}
  /\ \/ loaded = FALSE /\ schema = Empty
     \/ /\ kind = "table" /\ objs[1] \in TableTypes \ Unreadable
        /\ loaded = TRUE /\ schema = Words(objs[1])
  /\ text = schema
  /\ extended = [p \in Procs |-> FALSE] /\ ans = [p \in Procs |-> None]
  /\ half = [p \in Procs |-> 0] /\ stale = [p \in Procs |-> FALSE] /\ crossed = FALSE
  /\ pc = [p \in Procs |-> "idle"] /\ op = [p \in Procs |-> "none"]
  /\ out = [p \in Procs |-> "none"]
  /\ marker = [p \in Procs |-> 0] /\ page = [p \in Procs |-> <<>>]
  /\ listed = [p \in Procs |-> <<>>]
  /\ endpoint = Empty /\ torn = FALSE
  /\ got = [p \in Procs |-> None] /\ url = [p \in Procs |-> Empty]
  /\ calls = 0 /\ faults = 0 /\ calm = [p \in Procs |-> TRUE]
  /\ always = [p \in Procs |-> {}] /\ ever = [p \in Procs |-> {}]
  /\ had = {objs[1]} /\ named = {}

\* The service's objects change under the calls of others.
Put(n, v) ==
  /\ objs' = [objs EXCEPT ![n] = v]
  /\ always' = [p \in Procs |-> IF v = None THEN always[p] \ {n} ELSE always[p]]
  /\ ever' = [p \in Procs |-> IF v = None THEN ever[p] ELSE ever[p] \cup {n}]
  /\ had' = IF n = 1 THEN had \cup {v} ELSE had

NoPut == UNCHANGED <<objs, always, ever, had>>

Fault(p) == faults < MaxFaults /\ faults' = faults + 1 /\ calm' = Of(calm, p, FALSE)
NoFault  == UNCHANGED <<faults, calm>>

\* A goroutine starts a call.
Call(p, o, at) ==
  /\ pc[p] = "idle" /\ calls < MaxCalls
  /\ calls' = calls + 1
  /\ op' = Of(op, p, o) /\ pc' = Of(pc, p, at) /\ out' = Of(out, p, "none")
  /\ calm' = Of(calm, p, TRUE)
  /\ always' = Of(always, p, Existing) /\ ever' = Of(ever, p, Existing)

Return(p, o) == pc' = Of(pc, p, "idle") /\ out' = Of(out, p, o)

\* A word of the value v is stored, either one first.
Left(p) == IF half[p] = 0 THEN {1, 2} ELSE {half[p]}
Stored(x, w, v) == [x EXCEPT ![w] = v]
Halfway(p, w) == half' = Of(half, p, IF half[p] = 0 THEN 3 - w ELSE 0)

-----------------------------------------------------------------------------
(* Load and Exists through the handle.                                      *)

\* Table, Schema and Resource set beLoaded before the request, Project after it whatever
\* came of it, Function after success; a Partition has no flag.  Projects.Exists loads a
\* handle of its own.
FlagBefore == kind \in {"table", "schema", "resource"}
FlagAfter(o, r) == (kind = "project" /\ o = "load") \/ (kind = "function" /\ r = "ok")

StartLoad(p, o) ==
  /\ o \in {"load", "exists"} /\ (kind = "partition" => o = "load")
  /\ Call(p, o, "get")
  /\ loaded' = (loaded \/ FlagBefore)
  /\ UNCHANGED <<serviceVars, loadVars, half, listVars, tunnelVars, faults, had>>

\* What Exists makes of the result of Load: "missing" is a 404, "refused" another HTTP
\* error, "broken" an error of any other kind.
TableExists(r) ==
  CASE r = "ok" -> "true" [] r = "missing" -> "false" [] OTHER -> "error"

\* Only HTTP errors are looked into; Function.Exist and Resource.Exist do the same.
SchemaExists(r) ==
  CASE r \in {"ok", "broken"} -> "true" [] r = "missing" -> "false" [] OTHER -> "error"

ProjectsExists(r) == IF r = "ok" THEN "true" ELSE "error"

\* Mutant: every HTTP error means that the object is not there.
AnyHttpError(r) ==
  CASE r = "ok" -> "true" [] r \in {"missing", "refused"} -> "false" [] OTHER -> "error"
ExistsAnswer(r) ==
  CASE kind = "table"   -> TableExists(r)
    [] kind = "project" -> ProjectsExists(r)
    [] OTHER            -> SchemaExists(r)

LoadEnds(p, r) ==
  /\ loaded' = (loaded \/ FlagAfter(op[p], r))
  /\ extended' = Of(extended, p, FALSE) /\ ans' = Of(ans, p, None)
  /\ IF op[p] = "preview" /\ r = "ok"
     THEN pc' = Of(pc, p, "endpoint") /\ UNCHANGED out
     ELSE Return(p, IF op[p] = "exists" THEN ExistsAnswer(r)
                    ELSE IF r = "ok" THEN "ok" ELSE "error")

Decoding(p) == pc[p] \in {"text", "parse", "array", "column"}

\* A request of Load: no answer or one that cannot be decoded, an HTTP error, the 404 of
\* an object that is not there, or its description.  A table's is its column type, asked
\* for again with the extended information, in a model of its own.
Get(p) ==
  /\ pc[p] = "get"
  /\ \/ /\ \/ \E r \in {"broken", "refused"} : Fault(p) /\ LoadEnds(p, r)
           \/ objs[1] = None /\ NoFault /\ LoadEnds(p, "missing")
           \/ objs[1] # None /\ kind # "table" /\ NoFault /\ LoadEnds(p, "ok")
        /\ UNCHANGED crossed
     \/ /\ objs[1] # None /\ kind = "table" /\ NoFault
        /\ ans' = Of(ans, p, objs[1])
        /\ crossed' = (crossed \/ \E q \in Procs \ {p} :
             Decoding(q) /\ (ans[q] # objs[1] \/ schema[1] = None \/ schema[2] = None))
        /\ pc' = Of(pc, p, IF extended[p] THEN "parse" ELSE "text")
        /\ UNCHANGED <<loaded, extended, out>>
  /\ NoPut
  /\ UNCHANGED <<kind, schema, text, half, stale, op, listVars, tunnelVars, calls>>

Decodes(p) ==
  /\ NoPut /\ NoFault
  /\ UNCHANGED <<kind, crossed, op, listVars, tunnelVars, calls>>

\* The XML decoder stores the schema's text in the model of the handle.
StoreText(p) ==
  /\ pc[p] = "text"
  /\ \E w \in Left(p) : text' = Stored(text, w, ans[p]) /\ Halfway(p, w)
  /\ pc' = IF half[p] = 0 THEN pc ELSE Of(pc, p, "parse")
  /\ Decodes(p) /\ UNCHANGED <<loaded, schema, extended, ans, stale, out>>

\* json.Unmarshal of that text, or of the one in Load's second model; a text with the
\* length of another is not JSON.  The first column decoded needs an array.
ParseText(p) ==
  /\ pc[p] = "parse"
  /\ LET x == IF extended[p] THEN Words(ans[p]) ELSE text
         o == Decoded(x[1])
     IN  IF ~Whole(x) \/ o.what # "type" THEN LoadEnds(p, "broken")
         ELSE /\ ans' = Of(ans, p, o.type)
              /\ pc' = Of(pc, p, IF schema = Empty THEN "array" ELSE "column")
              /\ UNCHANGED <<loaded, extended, out>>
  /\ Decodes(p) /\ UNCHANGED <<schema, text, half, stale>>

\* The array has no column yet; it replaces what another goroutine has made meanwhile.
MakeArray(p) ==
  /\ pc[p] = "array"
  /\ schema' = Empty
  /\ stale' = [q \in Procs |-> stale[q] \/ pc[q] = "column"]
  /\ pc' = Of(pc, p, "column")
  /\ Decodes(p) /\ UNCHANGED <<loaded, text, extended, ans, half, out>>

\* Column.UnmarshalJSON stores the type in the column; one that looks for its column after
\* the array was replaced may find the new one.
StoreColumn(p) ==
  /\ pc[p] = "column"
  /\ \E w \in Left(p) :
       /\ Halfway(p, w)
       /\ \/ /\ ~stale[p] \/ half[p] = 0
             /\ schema' = Stored(schema, w, ans[p]) /\ stale' = Of(stale, p, FALSE)
          \/ stale[p] /\ UNCHANGED schema /\ stale' = Of(stale, p, half[p] = 0)
  /\ IF half[p] = 0 THEN UNCHANGED <<loaded, extended, ans, pc, out>>
     ELSE IF extended[p] THEN LoadEnds(p, "ok")
     ELSE /\ pc' = Of(pc, p, "get") /\ extended' = Of(extended, p, TRUE)
          /\ ans' = Of(ans, p, None) /\ UNCHANGED <<loaded, out>>
  /\ Decodes(p) /\ UNCHANGED text

\* ... or panic, as the new array has no column yet.
NoColumn(p) ==
  /\ pc[p] = "column" /\ stale[p] /\ half[p] = 0
  /\ LoadEnds(p, "broken")
  /\ stale' = Of(stale, p, FALSE)
  /\ Decodes(p) /\ UNCHANGED <<schema, text, half>>

Loading(p) ==
  \/ Get(p) \/ StoreText(p) \/ ParseText(p) \/ MakeArray(p) \/ StoreColumn(p) \/ NoColumn(p)

-----------------------------------------------------------------------------
(* Create, Delete and AlterColumnType.                                      *)

\* What a call may create: a table by its schema; a function, a schema or a partition;
\* of a resource, one that stands for a table (a file is uploaded in Resources).
Values(n) == IF kind = "table" /\ n = 1 THEN NewTypes ELSE {Plain}

Changes(p) ==
  /\ kind # "project" /\ pc[p] = "idle" /\ calls < MaxCalls
  /\ calls' = calls + 1 /\ op' = Of(op, p, "change")
  /\ UNCHANGED <<kind, handleVars, half, pc, listVars, tunnelVars>>

\* The call takes effect and returns nil, or fails; the answer of one that took effect
\* may be lost.
Change(p, n, v) ==
  /\ Changes(p)
  /\ \/ Put(n, v) /\ NoFault /\ out' = Of(out, p, "ok")
     \/ Put(n, v) /\ Fault(p) /\ out' = Of(out, p, "error")
     \/ NoPut /\ Fault(p) /\ out' = Of(out, p, "error")

\* The service refuses to create what is there and to drop what is not, unless the call
\* says ifNotExists or ifExists, which calls of some kinds can.
Refused(p, lenient) ==
  /\ Changes(p) /\ NoPut /\ NoFault
  /\ \E o \in {"error"} \cup (IF kind \in lenient THEN {"ok"} ELSE {}) : out' = Of(out, p, o)

Create(p, n) ==
  IF objs[n] = None THEN \E v \in Values(n) : Change(p, n, v)
  ELSE Refused(p, {"table", "schema", "partition"})

Delete(p, n) ==
  IF objs[n] # None THEN Change(p, n, None) ELSE Refused(p, {"table", "partition"})

AlterColumnType(p) ==
  /\ kind = "table" /\ objs[1] # None
  /\ \E v \in NewTypes \ {objs[1]} : Change(p, 1, v)

-----------------------------------------------------------------------------
(* Listing.                                                                 *)

\* There is no list of functions.
List(p) ==
  /\ kind # "function"
  /\ Call(p, "list", "page")
  /\ marker' = Of(marker, p, 0) /\ page' = Of(page, p, <<>>) /\ listed' = Of(listed, p, <<>>)
  /\ UNCHANGED <<serviceVars, handleVars, half, tunnelVars, faults, had>>

\* The service's page (external): the first names behind the marker, in order.
After(m) == {n \in Existing : n > m}
InPage(m) == {n \in After(m) : Cardinality({k \in After(m) : k < n}) < PageSize}
Ascending(S) == [k \in 1 .. Cardinality(S) |-> CHOOSE n \in S : Cardinality({m \in S : m < n}) = k - 1]

\* GetWithModel appends the elements it decodes to the slice it is given.
GetPage(p) ==
  /\ pc[p] = "page"
  /\ \/ /\ Fault(p) /\ Return(p, "error")
        /\ UNCHANGED <<marker, page>>
     \/ /\ LET S == InPage(marker[p])
           IN  /\ page' = Of(page, p, page[p] \o Ascending(S))
               /\ marker' = Of(marker, p, IF S # After(marker[p])
                                          THEN CHOOSE n \in S : \A m \in S : m <= n ELSE 0)
        /\ pc' = Of(pc, p, "handout")
        /\ NoFault /\ UNCHANGED out
  /\ NoPut
  /\ UNCHANGED <<kind, handleVars, half, op, listed, tunnelVars, calls>>

\* The model of the next page is a new one.
\* Mutant: the next page is decoded into the same model.
SameModel(pg) == pg
NewModel(pg) == <<>>

\* The callback gets every element; a page without a marker was the last.
HandOut(p) ==
  /\ pc[p] = "handout"
  /\ listed' = Of(listed, p, listed[p] \o page[p])
  /\ page' = Of(page, p, NewModel(page[p]))
  /\ IF marker[p] # 0 THEN pc' = Of(pc, p, "page") /\ UNCHANGED out ELSE Return(p, "ok")
  /\ NoPut
  /\ UNCHANGED <<kind, handleVars, half, op, marker, tunnelVars, boundVars>>

-----------------------------------------------------------------------------
(* Preview, and getRestClient: check, ask, set and use without a lock.      *)

\* The handle is loaded unless its flag is set.
Preview(p) ==
  /\ kind = "table"
  /\ Call(p, "preview", IF loaded THEN "endpoint" ELSE "get")
  /\ loaded' = TRUE
  /\ url' = Of(url, p, Empty)
  /\ UNCHANGED <<serviceVars, loadVars, half, listVars, endpoint, got, named, torn, faults, had>>

\* A string is empty if its length is 0.
CheckEndpoint(p) ==
  /\ pc[p] = "endpoint"
  /\ pc' = Of(pc, p, IF endpoint[2] = None THEN "ask" ELSE "build")
  /\ NoPut
  /\ UNCHANGED <<kind, handleVars, half, op, out, listVars, tunnelVars, boundVars>>

\* Mutant: the error is not looked at.
IgnoreError(e) == TRUE
NoError(e) == e # Bare

\* Project.GetTunnelEndpoint: the service names an endpoint for the caller's project, or
\* the call ends with an error and a scheme without a host beside it.
GetTunnelEndpoint(p) ==
  /\ pc[p] = "ask"
  /\ \E e \in {<<p>>, Bare} :
       /\ IF e = Bare THEN Fault(p) /\ UNCHANGED named
          ELSE NoFault /\ named' = named \cup {e}
       /\ IF NoError(e) THEN got' = Of(got, p, e) /\ pc' = Of(pc, p, "set") /\ UNCHANGED out
          ELSE Return(p, "error") /\ UNCHANGED got
  /\ NoPut
  /\ UNCHANGED <<kind, handleVars, half, op, listVars, endpoint, url, torn, calls>>

\* A goroutine is between the two stores of SetEndpoint.
Setting(p) == pc[p] = "set" /\ half[p] # 0
Torn(p) == torn \/ \E q \in Procs \ {p} : Setting(q)

\* What the endpoint is now, after the answer, is not looked at.
SetEndpoint(p) ==
  /\ pc[p] = "set"
  /\ \E w \in Left(p) : endpoint' = Stored(endpoint, w, got[p]) /\ Halfway(p, w)
  /\ torn' = Torn(p)
  /\ IF half[p] = 0 THEN UNCHANGED <<pc, got>>
     ELSE pc' = Of(pc, p, "build") /\ got' = Of(got, p, None)
  /\ NoPut
  /\ UNCHANGED <<kind, handleVars, op, out, listVars, url, named, boundVars>>

\* NewOdpsRestClient takes the endpoint the tunnel has now.
NewRestClient(p) ==
  /\ pc[p] = "build"
  /\ url' = Of(url, p, endpoint) /\ torn' = Torn(p)
  /\ pc' = Of(pc, p, "preview")
  /\ NoPut
  /\ UNCHANGED <<kind, handleVars, half, op, out, listVars, endpoint, got, named, boundVars>>

\* The rows are converted by the columns of the handle; without columns the conversion
\* panics, which is recovered to an error, and with those of another type it may fail.
\* A body that is cut off ends like a whole one.
ReadPreview(p) ==
  /\ pc[p] = "preview"
  /\ \/ objs[1] # None /\ None \notin {schema[1], schema[2]} /\ NoFault /\ Return(p, "ok")
     \/ (objs[1] = None \/ schema # Words(objs[1])) /\ NoFault /\ Return(p, "error")
     \/ Fault(p) /\ \E o \in {"ok", "error"} : Return(p, o)
  /\ NoPut
  /\ UNCHANGED <<kind, handleVars, half, op, listVars, tunnelVars, calls>>

-----------------------------------------------------------------------------

CatalogStep(p) ==
  \/ (\E o \in {"load", "exists"} : StartLoad(p, o)) \/ Loading(p)
  \/ (\E n \in Names : Create(p, n) \/ Delete(p, n)) \/ AlterColumnType(p)
  \/ List(p) \/ GetPage(p) \/ HandOut(p)
  \/ Preview(p) \/ CheckEndpoint(p) \/ GetTunnelEndpoint(p) \/ SetEndpoint(p)
  \/ NewRestClient(p) \/ ReadPreview(p)

-----------------------------------------------------------------------------
(* Properties.                                                              *)

\* However the Loads of two goroutines interleave, each word of the column's type is of a
\* type the table has had.  Unless two have decoded at one time, different descriptions
\* or the first ones, the type is whole whenever nobody decodes, a Load that returns nil
\* has left one, and a Load of a table that is there throughout does not fail without a
\* fault, but for a table whose type the parser refuses: it reads every other name the
\* service writes as it was meant, nested types included.
LoadIsFaithful ==
  /\ schema[1] \in had \cup {None} /\ schema[2] \in had \cup {None}
  /\ ~crossed =>
       /\ (\A p \in Procs : ~Decoding(p)) => Whole(schema)
       /\ \A p \in Procs : op[p] = "load" =>
            /\ kind = "table" /\ out[p] = "ok" => schema[1] # None /\ schema[2] # None
            /\ out[p] = "error" /\ calm[p] /\ had \cap Unreadable = {} => 1 \notin always[p]

\* An object Exists reports was there at some time of the call, and one it denies was
\* not throughout, also when it is created or dropped between the requests of the call;
\* except that a Schema, Function or Resource is reported after a lost request.
ExistsIsHonest ==
  \A p \in Procs : op[p] = "exists" =>
    /\ out[p] = "false" => 1 \notin always[p]
    /\ out[p] = "true"  => 1 \in ever[p] \/ (~calm[p] /\ kind \in {"schema", "function", "resource"})

\* A listing that ends without an error has handed out every object that was there
\* throughout, no object twice and none that never was there, while others are created
\* and dropped between its pages.
ListingIsComplete ==
  \A p \in Procs : op[p] = "list" /\ out[p] = "ok" =>
    LET S == {listed[p][k] : k \in 1 .. Len(listed[p])}
    IN  always[p] \subseteq S /\ S \subseteq ever[p] /\ Cardinality(S) = Len(listed[p])

\* Whoever sets the endpoint of the shared Tunnel, and however often asking for it fails,
\* each word of a RestClient's endpoint is of an endpoint the service has named or not
\* there yet, never of the text beside an error; and both are of the same one unless
\* somebody set or read the endpoint while another was setting it.  That an endpoint once
\* set is not modified any more (tunnel.go:61) does not hold of goroutines that have both
\* found it empty.
EndpointIsNamed ==
  \A p \in Procs :
    /\ url[p][1] \in named \cup {None} /\ url[p][2] \in named \cup {None}
    /\ ~torn => Whole(url[p])
=============================================================================
