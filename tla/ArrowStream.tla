----------------------------- MODULE ArrowStream -----------------------------
(***************************************************************************)
(* The chunked arrow stream of odps/tunnel: ArrowStreamWriter, a network   *)
(* that may truncate or damage the stream, ArrowStreamReader, and on top   *)
(* of it RecordArrowReader with ipc.RecordBatchReader.                     *)
(*                                                                         *)
(* A cell stands for a byte.  A checksum is ideal: it is the data it was   *)
(* computed over, so two checksums are equal only for equal data.  A       *)
(* uint32 on the wire (the chunk size, a checksum) is Word cells.  Data    *)
(* cells are numbered, so the data written so far is its length.           *)
(***************************************************************************)
EXTENDS Integers, Sequences, SequencesExt

CONSTANTS
  ChunkSize,   \* DefaultChunkSize
  Word,        \* cells of a uint32
  RecLen,      \* cells of an arrow message
  MaxRecords   \* bound on the records written

ASSUME ArrowAssumption ==
  /\ ChunkSize \in Nat \ {0} /\ Word \in Nat \ {0} /\ RecLen \in Nat \ {0}
  /\ MaxRecords \in Nat

VARIABLES
  wpc, toWrite,  \* the writer: between calls, in the loop of Write, closed
  wtr,           \* firstWrite, currentChunkLength, chunkCrc, globalCrc
  wire,          \* what was written to the connection
  sent,          \* history: data cells handed to Write
  net,           \* the stream as the reader gets it
  rpc, want,     \* the reader: not started, between calls, in the loop of Read, done
  rdr,           \* firstRead, chunkSize, chunk, eof, globalCrc, position in net
  out,           \* history: cells handed to the caller of Read
  failed,        \* ArrowStreamReader.Read returned an error that is not io.EOF
  records, eof   \* RecordBatchReader: records returned, io.EOF returned

vars == <<wpc, toWrite, wtr, wire, sent, net, rpc, want, rdr, out, failed, records, eof>>

-----------------------------------------------------------------------------
(* Cells.                                                                   *)

DataCell(i) == [t |-> "data", v |-> <<>>, n |-> i, k |-> 0]
SizeWord(n) == [k \in 1 .. Word |-> [t |-> "size", v |-> <<>>, n |-> n, k |-> k]]
CrcWord(d)  == [k \in 1 .. Word |-> [t |-> "crc", v |-> d, n |-> 0, k |-> k]]
Damaged     == [t |-> "damaged", v |-> <<>>, n |-> 0, k |-> 0]

Data(n) == [i \in 1 .. n |-> DataCell(i)]
First(s, n) == SubSeq(s, 1, n)
After(s, n) == SubSeq(s, n + 1, Len(s))

\* The value of the chunk size: what is read may be the checksum of no data at all,
\* which is zero.
SizeOf(w) == IF w = CrcWord(<<>>) THEN 0 ELSE w[1].n

-----------------------------------------------------------------------------
(* ArrowStreamWriter.                                                       *)

\* Mutant: the room left does not count what the chunk already holds.
WholeChunk(w) == ChunkSize
leftChunkLength(w) == ChunkSize - w.length
chunkIsFull(len) == len >= ChunkSize

\* WriteArrowRecord hands one message to Write.
WriteArrowRecord ==
  /\ wpc = "open" /\ sent < MaxRecords * RecLen
  /\ wpc' = "write" /\ toWrite' = RecLen
  /\ wire' = IF wtr.first THEN wire \o SizeWord(ChunkSize) ELSE wire
  /\ wtr' = [wtr EXCEPT !.first = FALSE]
  /\ UNCHANGED <<sent, net, rpc, want, rdr, out, failed, records, eof>>

\* One turn of the loop of Write: fill the chunk, end it when it is full.
WriteLoop ==
  LET n      == Min({leftChunkLength(wtr), toWrite})
      bytes  == [i \in 1 .. n |-> DataCell(sent + i)]
      crc    == wtr.chunkCrc \o bytes
      full   == chunkIsFull(wtr.length + n)
  IN
  /\ wpc = "write" /\ toWrite > 0
  /\ toWrite' = toWrite - n
  /\ sent' = sent + n
  /\ wire' = wire \o bytes \o (IF full THEN CrcWord(crc) ELSE <<>>)
  /\ wtr' = [wtr EXCEPT !.length = IF full THEN 0 ELSE @ + n,
                        !.chunkCrc = IF full THEN <<>> ELSE crc,
                        !.globalCrc = @ \o bytes]
  /\ UNCHANGED <<wpc, net, rpc, want, rdr, out, failed, records, eof>>

WriteReturns ==
  /\ wpc = "write" /\ toWrite = 0
  /\ wpc' = "open"
  /\ UNCHANGED <<toWrite, wtr, wire, sent, net, rpc, want, rdr, out, failed, records, eof>>

\* Close appends the global checksum.
WriterClose ==
  /\ wpc = "open"
  /\ wpc' = "closed"
  /\ wire' = wire \o CrcWord(wtr.globalCrc)
  /\ wtr' = [wtr EXCEPT !.globalCrc = <<>>]
  /\ UNCHANGED <<toWrite, sent, net, rpc, want, rdr, out, failed, records, eof>>

-----------------------------------------------------------------------------
(* The network (external): the stream arrives as it is, cut short, with one *)
(* damaged cell, or with another chunk size at its head.                    *)

Transfer ==
  /\ wpc = "closed" /\ rpc = "none"
  /\ rpc' = "idle"
  /\ \/ net' = wire
     \/ \E k \in 0 .. Len(wire) - 1 : net' = First(wire, k)
     \/ \E i \in DOMAIN wire :
          (sent > 0 => i > Word) /\ net' = [wire EXCEPT ![i] = Damaged]
     \/ \E n \in 0 .. Len(wire) :
          sent > 0 /\ n # ChunkSize /\ net' = SizeWord(n) \o After(wire, Word)
  /\ UNCHANGED <<wpc, toWrite, wtr, wire, sent, want, rdr, out, failed, records, eof>>

-----------------------------------------------------------------------------
(* ArrowStreamReader.                                                       *)

\* io.ReadFull: what is there, up to n cells.
ReadFull(r, n) == SubSeq(net, r.pos + 1, Min({r.pos + n, Len(net)}))

\* The chunk size is read with the first chunk; a stream too short for it is an
\* error.
HeaderMissing(r) == r.first /\ Len(ReadFull(r, Word)) < Word
AfterHeader(r) ==
  IF r.first THEN [r EXCEPT !.first = FALSE, !.pos = @ + Word,
                            !.size = SizeOf(ReadFull(r, Word)) + Word]
             ELSE r

\* Mutants: the checksum of a full chunk is not compared; nor the global one.
AnyCrc(d, w) == TRUE
ChunkCrcMatches(d, w) == w = CrcWord(d)
GlobalCrcMatches(d, w) == w = CrcWord(d)

\* A full chunk: data and its checksum.
\* Mutant: a full chunk does not count for the global checksum.
FullChunkUncounted(r, got) ==
  LET d == First(got, r.size - Word) IN
  [ok |-> ChunkCrcMatches(d, After(got, r.size - Word)),
   r  |-> [r EXCEPT !.pos = @ + r.size, !.chunk = d]]
FullChunk(r, got) ==
  LET d == First(got, r.size - Word) IN
  [ok |-> ChunkCrcMatches(d, After(got, r.size - Word)),
   r  |-> [r EXCEPT !.pos = @ + r.size, !.chunk = d, !.globalCrc = @ \o d]]

\* The end of the stream: what is left and the global checksum, or not even that.
LastChunk(r, got) ==
  LET n == Len(got)
      d == First(got, n - Word)
  IN IF n < Word
     THEN [ok |-> FALSE, r |-> [r EXCEPT !.eof = TRUE, !.pos = @ + n, !.chunk = got]]
     ELSE [ok |-> GlobalCrcMatches(r.globalCrc \o d, After(got, n - Word)),
           r  |-> [r EXCEPT !.eof = TRUE, !.pos = @ + n, !.chunk = d, !.globalCrc = <<>>]]

ReadChunk(r) ==
  IF HeaderMissing(r) THEN [ok |-> FALSE, r |-> [r EXCEPT !.pos = Len(net)]]
  ELSE LET h   == AfterHeader(r)
           got == ReadFull(h, h.size)
       IN IF Len(got) = h.size THEN FullChunk(h, got) ELSE LastChunk(h, got)

\* RecordBatchReader asks for one message.
ReadMessage ==
  /\ rpc = "idle"
  /\ rpc' = "read" /\ want' = RecLen
  /\ UNCHANGED <<wpc, toWrite, wtr, wire, sent, net, rdr, out, failed, records, eof>>

\* Nothing is left in the chunk and no chunk is left in the stream.
Exhausted == rdr.chunk = <<>> /\ rdr.eof

\* One turn of the loop of Read: refill the chunk if it is empty, copy from it.
ReadLoop ==
  LET load == rdr.chunk = <<>>
      c    == IF load THEN ReadChunk(rdr) ELSE [ok |-> TRUE, r |-> rdr]
      n    == Min({Len(c.r.chunk), want})
  IN
  /\ rpc = "read" /\ want > 0 /\ ~failed
  /\ ~Exhausted
  /\ IF c.ok
     THEN /\ out' = out \o First(c.r.chunk, n)
          /\ want' = want - n
          /\ rdr' = [c.r EXCEPT !.chunk = After(@, n)]
          /\ UNCHANGED failed
     ELSE failed' = TRUE /\ rdr' = c.r /\ UNCHANGED <<out, want>>
  /\ UNCHANGED <<wpc, toWrite, wtr, wire, sent, net, rpc, records, eof>>

-----------------------------------------------------------------------------
(* RecordBatchReader.Read.                                                  *)

MessageReturned ==
  /\ rpc = "read" /\ want = 0
  /\ records' = records + 1
  /\ rpc' = "idle"
  /\ UNCHANGED <<wpc, toWrite, wtr, wire, sent, net, want, rdr, out, failed, eof>>

\* The end of the stream, a stream that ends within a message and any error of
\* ArrowStreamReader set done, and done is returned as io.EOF.
EOFReturned ==
  /\ rpc = "read" /\ want > 0 /\ (failed \/ Exhausted)
  /\ rpc' = "done" /\ eof' = TRUE
  /\ UNCHANGED <<wpc, toWrite, wtr, wire, sent, net, want, rdr, out, failed, records>>

-----------------------------------------------------------------------------

Init ==
  /\ wpc = "open" /\ toWrite = 0
  /\ wtr = [first |-> TRUE, length |-> 0, chunkCrc |-> <<>>, globalCrc |-> <<>>]
  /\ wire = <<>> /\ sent = 0
  /\ net = <<>>
  /\ rpc = "none" /\ want = 0
  /\ rdr = [first |-> TRUE, size |-> 0, chunk |-> <<>>, eof |-> FALSE,
            globalCrc |-> <<>>, pos |-> 0]
  /\ out = <<>> /\ failed = FALSE
  /\ records = 0 /\ eof = FALSE

Next ==
  \/ WriteArrowRecord \/ WriteLoop \/ WriteReturns \/ WriterClose
  \/ Transfer
  \/ ReadMessage \/ ReadLoop \/ MessageReturned \/ EOFReturned

Spec == Init /\ [][Next]_vars

-----------------------------------------------------------------------------
(* Properties.                                                              *)

\* The layout of a stream of n data cells: the chunk size, then each full chunk with its
\* checksum after it, then what is left and the checksum of everything.
FullChunks(n) == n \div ChunkSize
Piece(c) == [i \in 1 .. ChunkSize |-> DataCell(c * ChunkSize + i)]
ChunkStart(c) == Word + c * (ChunkSize + Word)
Framed(w, n) ==
  LET last == IF n = 0 THEN 0 ELSE ChunkStart(FullChunks(n))
      rest == After(Data(n), FullChunks(n) * ChunkSize)
  IN  /\ n > 0 => First(w, Word) = SizeWord(ChunkSize)
      /\ \A c \in 0 .. FullChunks(n) - 1 :
           SubSeq(w, ChunkStart(c) + 1, ChunkStart(c + 1)) = Piece(c) \o CrcWord(Piece(c))
      /\ Len(w) >= last /\ After(w, last) = rest \o CrcWord(Data(n))

\* However the data is cut into calls of Write, a closed stream has this layout.
StreamIsFramed == wpc = "closed" => Framed(wire, sent)

\* Whatever the network does, the reader hands out only data that was written, in
\* order and from the start, and ArrowStreamReader reports the end of the stream only
\* after all of it.
ReadIsFaithful ==
  /\ IsPrefix(out, Data(sent))
  /\ Exhausted /\ ~failed => out = Data(sent)

\* A stream that arrives as it was written is read without an error, unless nothing
\* was written: its only word is then taken for the chunk size.
RoundTrip == net = wire /\ sent > 0 => ~failed

\* "When the Reader reaches the end of the underlying stream, it returns (nil,
\* io.EOF)": claim that io.EOF stands for the end of the stream.
EOFMeansAllRecords == eof => records * RecLen = sent
=============================================================================
