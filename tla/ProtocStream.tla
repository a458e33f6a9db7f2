---------------------------- MODULE ProtocStream ----------------------------
(***************************************************************************)
(* The record stream of odps/tunnel: RecordProtocWriter, the body of the   *)
(* HTTP answer on its way, RecordProtocReader with its Iterator.           *)
(*                                                                         *)
(* A stream is a sequence of tokens: tags (a column, end of record, count, *)
(* checksum) and the values that follow them.  A checksum is ideal: it is  *)
(* the sequence of updates it was computed from.                           *)
(***************************************************************************)
EXTENDS Integers, Sequences, SequencesExt

CONSTANTS
  NumColumns,   \* len(columns)
  Values,       \* what a field can hold
  Null,         \* a field that is not written
  MaxWrites     \* bound on the calls of Write

ASSUME ProtocAssumption ==
  NumColumns \in Nat \ {0} /\ MaxWrites \in Nat /\ Null \notin Values

VARIABLES
  wire,         \* what was written
  wCrc, wCrcs,  \* the writer's recordCrc and crcOfCrc
  written,      \* history: records whose Write returned nil; its length is count
  writes,       \* calls of Write
  poisoned,     \* history: a Write failed half-way
  net,          \* the stream as the reader gets it
  cleanEnd,     \* the body ends with io.EOF (otherwise with ErrUnexpectedEOF)
  phase,        \* "write", "closed", "read"
  pos, rCrc, rCrcs,
  record,       \* the record being read
  got,          \* history: records Read returned; its length is count
  verdict       \* how Iterator ended

writeVars == <<wire, wCrc, wCrcs, written, writes, poisoned>>
readVars  == <<pos, rCrc, rCrcs, record, got, verdict>>
vars == <<writeVars, net, cleanEnd, phase, readVars>>

Columns == 1 .. NumColumns
Records == [Columns -> Values \cup {Null}]
NoFields == [c \in Columns |-> Null]

-----------------------------------------------------------------------------
(* Tokens: a number (a tag or a count), a field's value, a checksum.        *)

EndRecord    == -1
MetaCount    == -2
MetaChecksum == -3

Tag(n)  == [t |-> "tag", n |-> n, v |-> Null, u |-> <<>>]
Val(v)  == [t |-> "val", n |-> 0, v |-> v, u |-> <<>>]
Num(n)  == [t |-> "num", n |-> n, v |-> Null, u |-> <<>>]
Crc(u)  == [t |-> "crc", n |-> 0, v |-> Null, u |-> u]

\* The updates of recordCrc for a field that is read: the column, then what follows it,
\* counted as a value of the column's type whatever was written there.
AsValue(x) == [t |-> "val", n |-> x.n, v |-> x.v, u |-> x.u]
FieldCrc(c, x) == <<Tag(c), AsValue(x)>>

\* What is written of a field, and of the fields before column n, in the order of the
\* columns.
Field(r, c) == IF r[c] = Null THEN <<>> ELSE <<Tag(c), Val(r[c])>>
FieldsBefore(r, n) ==
  LET before[c \in 0 .. NumColumns] == IF c = 0 THEN <<>> ELSE before[c - 1] \o Field(r, c)
  IN  before[n - 1]
Fields(r) == FieldsBefore(r, NumColumns + 1)

-----------------------------------------------------------------------------
(* RecordProtocWriter.                                                      *)

\* Mutant: the checksum of the next record starts with this one's.
CrcKept(crc) == crc
CrcAfterRecord(crc) == <<>>

\* write: every field that is not null, the end tag and the record's checksum.
Write(r) ==
  LET crc == wCrc \o Fields(r) IN
  /\ phase = "write" /\ writes < MaxWrites /\ writes' = writes + 1
  /\ wire' = wire \o Fields(r) \o <<Tag(EndRecord), Crc(crc)>>
  /\ wCrc' = CrcAfterRecord(crc)
  /\ wCrcs' = Append(wCrcs, Crc(crc))
  /\ written' = Append(written, r)
  /\ UNCHANGED <<poisoned, net, cleanEnd, phase, readVars>>

\* A field of column c cannot be written: its column has no wire type (the tag is
\* not written), or its value is of no known type (the tag is).  The column has
\* been counted into the checksum by then, the fields before it are on the wire,
\* and the application may go on with the next record.
WriteFails(r, c) ==
  /\ phase = "write" /\ writes < MaxWrites /\ writes' = writes + 1
  /\ r[c] # Null
  /\ \E tag \in {<<>>, <<Tag(c)>>} : wire' = wire \o FieldsBefore(r, c) \o tag
  /\ wCrc' = wCrc \o FieldsBefore(r, c) \o <<Tag(c)>>
  /\ poisoned' = TRUE
  /\ UNCHANGED <<wCrcs, written, net, cleanEnd, phase, readVars>>

\* close: the number of records and the checksum of their checksums.
Close ==
  /\ phase = "write"
  /\ phase' = "closed"
  /\ wire' = wire \o <<Tag(MetaCount), Num(Len(written)), Tag(MetaChecksum), Crc(wCrcs)>>
  /\ UNCHANGED <<wCrc, wCrcs, written, writes, poisoned, net, cleanEnd, readVars>>

-----------------------------------------------------------------------------
(* The way to the reader (external).  A connection that breaks is reported  *)
(* by net/http as io.ErrUnexpectedEOF; a sender that stops early leaves a   *)
(* body that ends properly.  Damage turns one token into another.           *)

OtherTokens(k) ==
  CASE k.t = "tag" -> {Tag(n) : n \in Columns \cup {EndRecord, MetaCount, MetaChecksum}} \ {k}
    [] k.t = "val" -> {Val(v) : v \in Values \cup {Null}} \ {k}
    [] k.t = "num" -> {Num(n) : n \in 0 .. MaxWrites} \ {k}
    [] k.t = "crc" -> {Crc(<<Num(-1)>>)}

Transfer ==
  /\ phase = "closed"
  /\ phase' = "read"
  /\ \/ net' = wire /\ cleanEnd' = TRUE
     \/ \E n \in 0 .. Len(wire) - 1 :
          net' = SubSeq(wire, 1, n) /\ cleanEnd' \in BOOLEAN
     \/ \E i \in DOMAIN wire : \E k \in OtherTokens(wire[i]) :
          net' = [wire EXCEPT ![i] = k] /\ cleanEnd' = TRUE
  /\ UNCHANGED <<writeVars, readVars>>

-----------------------------------------------------------------------------
(* RecordProtocReader.                                                      *)

\* Tokens left from the current position on.
Left == Len(net) - pos
Tok(i) == net[pos + i]

Reading == phase = "read" /\ verdict = "none"
ReadOn(n) == pos' = pos + n
Ends(how) == verdict' = how

\* Reading past the end: Iterator takes io.EOF for the end of the records wherever
\* it is met, any other error is passed on.
EndOfStream(clean) == IF clean THEN "eof" ELSE "error"

ReadPastEnd ==
  /\ Reading
  /\ \/ Left = 0
     \/ Left = 1 /\ Tok(1).t = "tag" /\ Tok(1).n \in Columns \cup {EndRecord, MetaCount}
  /\ Ends(EndOfStream(cleanEnd))
  /\ UNCHANGED <<writeVars, net, cleanEnd, phase, pos, rCrc, rCrcs, record, got>>

\* A token that is not a tag of a column, of a record's end or of the footer is no
\* tag this reader accepts.
BadTag ==
  /\ Reading /\ Left > 0
  /\ Tok(1).t # "tag" \/ Tok(1).n = MetaChecksum
  /\ Ends("error")
  /\ UNCHANGED <<writeVars, net, cleanEnd, phase, pos, rCrc, rCrcs, record, got>>

\* A field: whatever follows the tag is read as the column's value.
ReadField ==
  /\ Reading /\ Left > 1 /\ Tok(1).t = "tag" /\ Tok(1).n \in Columns
  /\ rCrc' = rCrc \o FieldCrc(Tok(1).n, Tok(2))
  /\ record' = [record EXCEPT ![Tok(1).n] = Tok(2).v]
  /\ ReadOn(2)
  /\ UNCHANGED <<writeVars, net, cleanEnd, phase, rCrcs, got, verdict>>

\* Mutant: the record's checksum is read and not compared.
CrcUnchecked(crc, tok) == TRUE
RecordCrcMatches(crc, tok) == tok = Crc(crc)

ReadEndRecord ==
  /\ Reading /\ Left > 1 /\ Tok(1) = Tag(EndRecord)
  /\ IF RecordCrcMatches(rCrc, Tok(2))
     THEN /\ got' = Append(got, record)
          /\ rCrc' = <<>> /\ rCrcs' = Append(rCrcs, Crc(rCrc))
          /\ record' = NoFields
          /\ ReadOn(2)
          /\ UNCHANGED verdict
     ELSE Ends("error") /\ UNCHANGED <<pos, rCrc, rCrcs, record, got>>
  /\ UNCHANGED <<writeVars, net, cleanEnd, phase>>

\* The footer: the count, the checksum of the checksums, and nothing after it.  The
\* loop of Read then meets the end of the stream.
\* A checksum that cannot be read counts as zero, the checksum of no records.
ReadMeta ==
  /\ Reading /\ Left > 1 /\ Tok(1) = Tag(MetaCount)
  /\ LET sum == IF Left > 3 THEN Tok(4) ELSE Crc(<<>>) IN
     IF /\ Tok(2) = Num(Len(got))
        /\ Left > 2 /\ Tok(3) = Tag(MetaChecksum)
        /\ sum = Crc(rCrcs)
        /\ Left <= 4
     THEN pos' = Len(net) /\ UNCHANGED verdict
     ELSE Ends(IF Tok(2) = Num(Len(got)) /\ Left = 2 THEN EndOfStream(cleanEnd) ELSE "error")
          /\ UNCHANGED pos
  /\ UNCHANGED <<writeVars, net, cleanEnd, phase, rCrc, rCrcs, record, got>>

-----------------------------------------------------------------------------

Init ==
  /\ wire = <<>> /\ wCrc = <<>> /\ wCrcs = <<>>
  /\ written = <<>> /\ writes = 0 /\ poisoned = FALSE
  /\ net = <<>> /\ cleanEnd = TRUE /\ phase = "write"
  /\ pos = 0 /\ rCrc = <<>> /\ rCrcs = <<>> /\ record = NoFields
  /\ got = <<>> /\ verdict = "none"

Next ==
  \/ \E r \in Records : Write(r) \/ \E c \in Columns : WriteFails(r, c)
  \/ Close
  \/ Transfer
  \/ ReadPastEnd \/ BadTag \/ ReadField \/ ReadEndRecord \/ ReadMeta

Spec == Init /\ [][Next]_vars

-----------------------------------------------------------------------------
(* Properties.                                                              *)

\* Whatever happens on the way, and whatever failed writes have left in the stream,
\* the records Read returns are the records written, in order and from the first, and
\* Iterator ends without an error only after all of them, or on a body that its sender
\* ended early.
EndedEarly == cleanEnd /\ Len(net) < Len(wire)
ReadIsFaithful ==
  /\ IsPrefix(got, written)
  /\ verdict = "eof" => got = written \/ EndedEarly

\* A stream that arrives as it was written, all of its writes good, is read to the
\* end without an error.
RoundTrip == net = wire /\ ~poisoned => verdict # "error"
=============================================================================
