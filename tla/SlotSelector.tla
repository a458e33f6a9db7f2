---------------------------- MODULE SlotSelector ----------------------------
(***************************************************************************)
(* slotSelector of odps/tunnel/slot.go: the list of upload slots of a      *)
(* stream upload session and the rotating index over it.  Every method     *)
(* runs under slotSelector.mu, so each is one step; a method is written    *)
(* here as the value the selector takes (or the set of values, where the   *)
(* code draws the index at random).                                        *)
(*                                                                         *)
(* A slot is [id, ip, port].  The "host:port" text of a server is the pair *)
(* of its parsed parts; a text whose port does not parse is a pair with    *)
(* port BadPort, a text without exactly one ":" or without host is         *)
(* NotAServer.                                                             *)
(***************************************************************************)
EXTENDS Integers, Sequences

CONSTANTS
  SlotIds,     \* the slot ids the tunnel hands out
  Ips, Ports,  \* hosts and ports of tunnel servers
  BadPort,     \* the port of a server text whose port is not a number
  NotAServer   \* a server text that newSlot and SetServer reject at once

ASSUME SelectorAssumption ==
  /\ BadPort \notin Ports
  /\ NotAServer \notin [ip : Ips, port : Ports \cup {BadPort}]

Slot == [id : SlotIds, ip : Ips, port : Ports]

\* What slot.Server() can return, and what a routed-server header can hold.
Server == [ip : Ips, port : Ports]
ServerText == [ip : Ips, port : Ports \cup {BadPort}] \cup {NotAServer}

Selector == [arr : Seq(Slot), index : Nat]

ServerOf(s) == [ip |-> s.ip, port |-> s.port]

newSlotSelect == [arr |-> <<>>, index |-> 0]

\* len(s.arr), read under mu.
SlotNum(sel) == Len(sel.arr)

\* Mutant: an empty list replaces the slots at hand.
ResetToEmpty(sel, arr) ==
  IF Len(arr) = 0 THEN {newSlotSelect}
                  ELSE {[arr |-> arr, index |-> i] : i \in 0 .. Len(arr) - 1}
\* Reset: an empty list is ignored, otherwise the index is rand.Intn(len(arr)).
Reset(sel, arr) ==
  IF Len(arr) = 0 THEN {sel}
                  ELSE {[arr |-> arr, index |-> i] : i \in 0 .. Len(arr) - 1}

\* NextSlot wraps the index, hands out a copy of the slot under it and moves on.
\* WrapIndex is 0-based, TLA+ sequences are 1-based.
WrapIndex(sel) == IF sel.index >= Len(sel.arr) THEN 0 ELSE sel.index

NextSlot(sel) == sel.arr[WrapIndex(sel) + 1]
AfterNextSlot(sel) == [sel EXCEPT !.index = WrapIndex(sel) + 1]

\* SetServer assigns the host before it parses the port: a text whose port does
\* not parse is an error that has already moved the slot to the new host.
\* Mutant: the port is assigned although it did not parse.
SetServerUnparsed(s, text) ==
  IF text = NotAServer THEN s ELSE [s EXCEPT !.ip = text.ip, !.port = text.port]
SetServer(s, text) ==
  IF text = NotAServer THEN s
  ELSE IF text.port = BadPort THEN [s EXCEPT !.ip = text.ip]
  ELSE [s EXCEPT !.ip = text.ip, !.port = text.port]
SetServerFails(text) == text = NotAServer \/ text.port = BadPort

\* UpdateServer rewrites the slot with the given id in place.  It fails when the
\* id has left the list, or with the error of SetServer.
Holds(sel, id) == \E i \in DOMAIN sel.arr : sel.arr[i].id = id
IsFirst(sel, id, i) ==
  sel.arr[i].id = id /\ \A j \in 1 .. i - 1 : sel.arr[j].id # id
UpdateServer(sel, id, text) ==
  [arr   |-> [i \in DOMAIN sel.arr |->
                IF IsFirst(sel, id, i) THEN SetServer(sel.arr[i], text) ELSE sel.arr[i]],
   index |-> sel.index]
UpdateServerFails(sel, id, text) == ~Holds(sel, id) \/ SetServerFails(text)

=============================================================================
