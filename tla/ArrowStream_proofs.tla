------------------------- MODULE ArrowStream_proofs -------------------------
(***************************************************************************)
(* Proofs about ArrowStream: every closed stream is framed in chunks with  *)
(* their checksums however the data was cut into calls of Write, what Read *)
(* hands out is what was written, and a stream that arrives whole is read  *)
(* without an error.                                                       *)
(***************************************************************************)
EXTENDS ArrowStream, TLAPS

-----------------------------------------------------------------------------
(* Places in a stream.                                                      *)

\* The data cells of the first c chunks, and where the next chunk starts.
Off(c) == c * ChunkSize
L == ChunkSize + Word

LEMMA Places ==
  /\ ChunkSize \in Nat /\ ChunkSize > 0 /\ Word \in Nat /\ Word > 0 /\ L = ChunkSize + Word
  /\ \A c \in Nat : /\ Off(c) \in Nat /\ ChunkStart(c) \in Nat
                    /\ Off(c + 1) = Off(c) + ChunkSize
                    /\ ChunkStart(c + 1) = ChunkStart(c) + L
                    /\ (c > 0 => Off(c) > 0)
  /\ Off(0) = 0 /\ ChunkStart(0) = Word
  /\ \A c, d \in Nat : c < d => /\ Off(c) + ChunkSize <= Off(d)
                                /\ ChunkStart(c) + L <= ChunkStart(d)
  <1>1. /\ ChunkSize \in Nat /\ ChunkSize > 0 /\ Word \in Nat /\ Word > 0 /\ L = ChunkSize + Word
        /\ L \in Nat
    BY ArrowAssumption DEF L
  <1>2. \A x, c \in Nat : x * c \in Nat /\ (c + 1) * x = c * x + x /\ 0 * x = 0
    OBVIOUS
  <1>3. ASSUME NEW x \in Nat, NEW c \in Nat, NEW d \in Nat, c < d PROVE c * x + x <= d * x
    <2>1. PICK e \in Nat : d = c + 1 + e
      <3>1. d - c - 1 \in Nat /\ d = c + 1 + (d - c - 1)
        BY <1>3
      <3> QED
        BY <3>1
    <2>2. d * x = (c + 1) * x + e * x
      BY <2>1
    <2>3. e * x \in Nat /\ (c + 1) * x = c * x + x /\ c * x \in Nat
      OBVIOUS
    <2> QED
      BY <2>2, <2>3
  <1>4. \A c \in Nat : ChunkStart(c) = Word + c * L
    BY DEF ChunkStart, L
  <1>5. ASSUME NEW c \in Nat
        PROVE  /\ Off(c) \in Nat /\ ChunkStart(c) \in Nat
               /\ Off(c + 1) = Off(c) + ChunkSize
               /\ ChunkStart(c + 1) = ChunkStart(c) + L
    <2>1. c + 1 \in Nat /\ c * ChunkSize \in Nat /\ c * L \in Nat
      BY <1>1
    <2>2. (c + 1) * ChunkSize = c * ChunkSize + ChunkSize /\ (c + 1) * L = c * L + L
      BY <1>1, <1>2
    <2> QED
      BY <1>1, <1>4, <2>1, <2>2 DEF Off
  <1>6. ASSUME NEW c \in Nat, NEW d \in Nat, c < d
        PROVE  Off(c) + ChunkSize <= Off(d) /\ ChunkStart(c) + L <= ChunkStart(d)
    <2>1. c * ChunkSize + ChunkSize <= d * ChunkSize /\ c * L + L <= d * L
      BY <1>1, <1>3, <1>6
    <2>2. c * L \in Nat /\ d * L \in Nat
      BY <1>1
    <2> QED
      BY <1>1, <1>4, <2>1, <2>2 DEF Off
  <1>7. Off(0) = 0 /\ ChunkStart(0) = Word
    BY <1>1, <1>4 DEF Off
  <1>8. ASSUME NEW c \in Nat, c > 0 PROVE Off(c) > 0
    <2>1. Off(0) + ChunkSize <= Off(c)
      BY <1>6, <1>8
    <2> QED
      BY <1>1, <1>5, <1>7, <2>1
  <1> QED
    BY <1>1, <1>5, <1>6, <1>7, <1>8

\* The chunks that n cells fill.
LEMMA ChunksFilled ==
  ASSUME NEW n \in Nat, NEW F \in Nat, Off(F) <= n, n < Off(F) + ChunkSize
  PROVE  FullChunks(n) = F
  <1>1. PICK q, C : q = n \div ChunkSize /\ C = ChunkSize
    OBVIOUS
  <1>2. C \in Nat /\ C > 0
    BY <1>1, Places
  <1>3. q \in Int /\ C * q <= n /\ n < C * q + C
    BY <1>1, <1>2
  <1>4. q \in Nat
    <2> SUFFICES ASSUME q < 0 PROVE FALSE
      BY <1>3
    <2>1. C * (q + 1) <= 0
      BY <1>2, <1>3
    <2> QED
      BY <1>2, <1>3, <2>1
  <1>5. Off(q) = C * q
    BY <1>1, <1>2, <1>4 DEF Off
  <1>8. Off(q) \in Nat /\ Off(q) <= n /\ n < Off(q) + C /\ Off(F) \in Nat
    BY <1>3, <1>4, <1>5, Places
  <1>6. ~(q < F)
    <2> SUFFICES ASSUME q < F PROVE FALSE
      OBVIOUS
    <2>1. Off(q) + C <= Off(F)
      BY <1>1, <1>4, Places
    <2> QED
      BY <1>2, <1>8, <2>1
  <1>7. ~(F < q)
    <2> SUFFICES ASSUME F < q PROVE FALSE
      OBVIOUS
    <2>1. Off(F) + C <= Off(q)
      BY <1>1, <1>4, Places
    <2>2. n < Off(F) + C
      BY <1>1
    <2> QED
      BY <1>2, <1>8, <2>1, <2>2
  <1> QED
    BY <1>1, <1>4, <1>6, <1>7 DEF FullChunks

-----------------------------------------------------------------------------
(* Cells and sequences of cells.                                            *)

DataCells == {DataCell(i) : i \in Nat}
Cells == [t : {"data", "size", "crc", "damaged"}, v : Seq(DataCells), n : Nat, k : Nat]

LEMMA CellFacts ==
  /\ DataCells \subseteq Cells /\ Damaged \in Cells
  /\ \A i \in Nat : DataCell(i) \in DataCells
  /\ \A i, j : DataCell(i) = DataCell(j) => i = j
  /\ \A i : DataCell(i).t = "data"
  <1>1. <<>> \in Seq(DataCells)
    OBVIOUS
  <1>2. \A i \in Nat : DataCell(i) \in Cells
    BY <1>1 DEF DataCell, Cells
  <1>3. Damaged \in Cells
    BY <1>1 DEF Damaged, Cells
  <1>4. \A i, j : DataCell(i) = DataCell(j) => i = j
    BY DEF DataCell
  <1>5. \A i : DataCell(i).t = "data"
    BY DEF DataCell
  <1> QED
    BY <1>2, <1>3, <1>4, <1>5 DEF DataCells

LEMMA DataFacts ==
  ASSUME NEW n \in Nat
  PROVE  /\ Data(n) \in Seq(DataCells) /\ Data(n) \in Seq(Cells) /\ Len(Data(n)) = n
         /\ \A i \in 1 .. n : Data(n)[i] = DataCell(i)
  <1>1. Data(n) \in [1 .. n -> DataCells]
    BY CellFacts DEF Data
  <1>2. Data(n) \in Seq(DataCells) /\ Len(Data(n)) = n
    BY <1>1
  <1>3. Data(n) \in Seq(Cells)
    BY <1>2, CellFacts
  <1> QED
    BY <1>2, <1>3 DEF Data

LEMMA PieceFacts ==
  ASSUME NEW c \in Nat
  PROVE  /\ Piece(c) \in Seq(DataCells) /\ Piece(c) \in Seq(Cells) /\ Len(Piece(c)) = ChunkSize
         /\ \A i \in 1 .. ChunkSize : Piece(c)[i] = DataCell(Off(c) + i)
  <1>0. Off(c) \in Nat /\ ChunkSize \in Nat
    BY Places
  <1>1. Piece(c) = [i \in 1 .. ChunkSize |-> DataCell(Off(c) + i)]
    BY DEF Piece, Off
  <1>2. Piece(c) \in [1 .. ChunkSize -> DataCells]
    BY <1>0, <1>1, CellFacts
  <1>3. Piece(c) \in Seq(DataCells) /\ Len(Piece(c)) = ChunkSize
    BY <1>0, <1>2
  <1>4. Piece(c) \in Seq(Cells)
    BY <1>3, CellFacts
  <1> QED
    BY <1>1, <1>3, <1>4

\* A word, whatever it is made of.
LEMMA WordFacts ==
  /\ \A d : /\ DOMAIN CrcWord(d) = 1 .. Word
            /\ \A k \in 1 .. Word : /\ CrcWord(d)[k].t = "crc" /\ CrcWord(d)[k].v = d
                                    /\ CrcWord(d)[k].n = 0 /\ CrcWord(d)[k].k = k
  /\ \A n : /\ DOMAIN SizeWord(n) = 1 .. Word
            /\ \A k \in 1 .. Word : /\ SizeWord(n)[k].t = "size" /\ SizeWord(n)[k].n = n
  /\ \A d \in Seq(DataCells) : CrcWord(d) \in Seq(Cells) /\ Len(CrcWord(d)) = Word
  /\ \A n \in Nat : SizeWord(n) \in Seq(Cells) /\ Len(SizeWord(n)) = Word
  <1>1. Word \in Nat
    BY Places
  <1>2. ASSUME NEW d
        PROVE  /\ DOMAIN CrcWord(d) = 1 .. Word
               /\ \A k \in 1 .. Word : /\ CrcWord(d)[k].t = "crc" /\ CrcWord(d)[k].v = d
                                       /\ CrcWord(d)[k].n = 0 /\ CrcWord(d)[k].k = k
    BY DEF CrcWord
  <1>3. ASSUME NEW n
        PROVE  /\ DOMAIN SizeWord(n) = 1 .. Word
               /\ \A k \in 1 .. Word : SizeWord(n)[k].t = "size" /\ SizeWord(n)[k].n = n
    BY DEF SizeWord
  <1>4. ASSUME NEW d \in Seq(DataCells) PROVE CrcWord(d) \in Seq(Cells) /\ Len(CrcWord(d)) = Word
    <2>1. \A k \in 1 .. Word : [t |-> "crc", v |-> d, n |-> 0, k |-> k] \in Cells
      BY <1>1 DEF Cells
    <2>2. CrcWord(d) \in [1 .. Word -> Cells]
      BY <2>1 DEF CrcWord
    <2> QED
      BY <1>1, <2>2
  <1>5. ASSUME NEW n \in Nat PROVE SizeWord(n) \in Seq(Cells) /\ Len(SizeWord(n)) = Word
    <2>1. <<>> \in Seq(DataCells)
      OBVIOUS
    <2>2. \A k \in 1 .. Word : [t |-> "size", v |-> <<>>, n |-> n, k |-> k] \in Cells
      BY <1>1, <2>1 DEF Cells
    <2>3. SizeWord(n) \in [1 .. Word -> Cells]
      BY <2>2 DEF SizeWord
    <2> QED
      BY <1>1, <2>3
  <1> QED
    BY <1>2, <1>3, <1>4, <1>5

LEMMA MinFacts ==
  ASSUME NEW a \in Nat, NEW b \in Nat
  PROVE  Min({a, b}) = IF a <= b THEN a ELSE b
  BY DEF Min

\* The first n cells of a sequence, the cells after them, and two sequences in a row.
LEMMA CutFacts ==
  ASSUME NEW S, NEW s \in Seq(S), NEW n \in 0 .. Len(s)
  PROVE  /\ First(s, n) \in Seq(S) /\ Len(First(s, n)) = n
         /\ \A i \in 1 .. n : First(s, n)[i] = s[i]
         /\ After(s, n) \in Seq(S) /\ Len(After(s, n)) = Len(s) - n
         /\ \A i \in 1 .. Len(s) - n : After(s, n)[i] = s[n + i]
  BY DEF First, After

\* The b cells after the first a.
Window(u, s, a, b) == u \in Seq(Cells) /\ Len(u) = b /\ \A i \in 1 .. b : u[i] = s[a + i]

LEMMA WindowFacts ==
  ASSUME NEW s \in Seq(Cells), NEW a \in Nat, NEW b \in Nat, a + b <= Len(s)
  PROVE  Window(SubSeq(s, a + 1, a + b), s, a, b)
  BY DEF Window

Joined(u, s, a, t, b) ==
  /\ Len(u) = a + b /\ a \in Nat /\ b \in Nat
  /\ \A i \in 1 .. a : u[i] = s[i]
  /\ \A i \in 1 .. b : u[a + i] = t[i]
  /\ \A i \in 1 .. a + b : i \in 1 .. a \/ \E j \in 1 .. b : i = a + j

LEMMA JoinFacts ==
  ASSUME NEW S, NEW s \in Seq(S), NEW t \in Seq(S)
  PROVE  s \o t \in Seq(S) /\ Joined(s \o t, s, Len(s), t, Len(t))
  <1>1. PICK u, a, b : u = s \o t /\ a = Len(s) /\ b = Len(t)
    OBVIOUS
  <1>2. /\ u \in Seq(S) /\ Len(u) = a + b /\ a \in Nat /\ b \in Nat
        /\ \A i \in 1 .. a : u[i] = s[i]
    BY <1>1
  <1>3. \A i \in 1 .. b : u[a + i] = t[i]
    BY <1>1
  <1>4. ASSUME NEW i \in 1 .. a + b, i \notin 1 .. a
        PROVE  \E j \in 1 .. b : i = a + j
    <2>1. i - a \in 1 .. b /\ i = a + (i - a)
      BY <1>2, <1>4
    <2> QED
      BY <2>1
  <1> QED
    BY <1>1, <1>2, <1>3, <1>4 DEF Joined

LEMMA SameCells ==
  ASSUME NEW S, NEW s \in Seq(S), NEW t \in Seq(S), Len(s) = Len(t),
         \A i \in 1 .. Len(s) : s[i] = t[i]
  PROVE  s = t
  OBVIOUS

-----------------------------------------------------------------------------
(* The writer.                                                              *)

\* Full chunk c of a stream: its cells and its checksum.
ChunkAt(w, c) ==
  /\ \A i \in 1 .. ChunkSize : w[ChunkStart(c) + i] = DataCell(Off(c) + i)
  /\ \A i \in 1 .. Word : w[ChunkStart(c) + ChunkSize + i] = CrcWord(Piece(c))[i]

InChunkCrc(c, p) == ChunkStart(c) + ChunkSize < p /\ p <= ChunkStart(c) + L

\* What was written before the global checksum.
Body == IF wpc = "closed" THEN Len(wire) - Word ELSE Len(wire)

WriterType ==
  /\ wpc \in {"open", "write", "closed"} /\ toWrite \in 0 .. RecLen /\ sent \in Nat
  /\ wtr = [first |-> wtr.first, length |-> wtr.length,
            chunkCrc |-> wtr.chunkCrc, globalCrc |-> wtr.globalCrc]
  /\ wtr.first \in BOOLEAN /\ wtr.length \in Nat /\ wtr.length < ChunkSize
  /\ wtr.chunkCrc \in Seq(DataCells) /\ wtr.globalCrc \in Seq(DataCells)
  /\ wire \in Seq(Cells) /\ Body \in Nat
  /\ wtr.first => wpc # "write" /\ sent = 0
  /\ wpc = "write" /\ toWrite < RecLen => sent > 0
  /\ ~wtr.first /\ wpc # "write" => sent > 0

\* What the checksums were computed from.
Sums ==
  /\ Len(wtr.chunkCrc) = wtr.length
  /\ \A i \in 1 .. wtr.length : wtr.chunkCrc[i] = DataCell((sent - wtr.length) + i)
  /\ wpc # "closed" => wtr.globalCrc = Data(sent)

\* F chunks are full, and there are checksums after them and nowhere else.
Layout(F) ==
  /\ F \in Nat /\ sent = Off(F) + wtr.length
  /\ IF wtr.first
     THEN F = 0 /\ Body = 0
     ELSE /\ Body = ChunkStart(F) + wtr.length
          /\ \A i \in 1 .. Word : wire[i] = SizeWord(ChunkSize)[i]
  /\ \A c \in 0 .. F - 1 : ChunkAt(wire, c)
  /\ \A i \in 1 .. wtr.length : wire[ChunkStart(F) + i] = DataCell(Off(F) + i)
  /\ \A p \in 1 .. Body : wire[p].t = "crc" => \E c \in 0 .. F - 1 : InChunkCrc(c, p)

\* A closed stream ends with the checksum of everything.
Footer ==
  wpc = "closed" => \A i \in 1 .. Word : wire[Body + i] = CrcWord(Data(sent))[i]

Written(F) == WriterType /\ Sums /\ Layout(F) /\ Footer

\* What is written stays when something is written after it.
LEMMA BodyKept ==
  ASSUME NEW F, Written(F), NEW v, \A i \in 1 .. Body : v[i] = wire[i]
  PROVE  /\ ~wtr.first => \A i \in 1 .. Word : v[i] = SizeWord(ChunkSize)[i]
         /\ \A c \in 0 .. F - 1 : ChunkAt(v, c)
         /\ \A i \in 1 .. wtr.length : v[ChunkStart(F) + i] = DataCell(Off(F) + i)
         /\ \A p \in 1 .. Body : v[p].t = "crc" => \E c \in 0 .. F - 1 : InChunkCrc(c, p)
  <1>1. PICK W, len : W = Body /\ len = wtr.length
    OBVIOUS
  <1>2. /\ F \in Nat /\ W \in Nat /\ len \in Nat /\ ChunkSize \in Nat /\ Word \in Nat
        /\ L = ChunkSize + Word /\ ChunkStart(F) \in Nat
    BY <1>1, Places DEF Written, WriterType, Layout
  <1>3. CASE wtr.first
    <2>1. F = 0 /\ W = 0 /\ len = 0
      <3>1. F = 0 /\ W = 0 /\ sent = 0 /\ sent = Off(F) + len /\ Off(0) = 0
        BY <1>1, <1>3, Places DEF Written, WriterType, Layout
      <3> QED
        BY <1>2, <3>1
    <2> QED
      BY <1>1, <1>3, <2>1
  <1>4. CASE ~wtr.first
    <2>1. W = ChunkStart(F) + len
      BY <1>1, <1>4 DEF Written, Layout
    <2>2. \A i \in 1 .. Word : v[i] = SizeWord(ChunkSize)[i]
      <3>1. Word <= W
        <4>1. ChunkStart(0) = Word
          BY Places
        <4>2. CASE F = 0
          BY <1>2, <2>1, <4>1, <4>2
        <4>3. CASE 0 < F
          <5>1. ChunkStart(0) + L <= ChunkStart(F)
            BY <1>2, <4>3, Places
          <5> QED
            BY <1>2, <2>1, <4>1, <5>1
        <4> QED
          BY <1>2, <4>2, <4>3
      <3>2. \A i \in 1 .. Word : wire[i] = SizeWord(ChunkSize)[i]
        BY <1>4 DEF Written, Layout
      <3> QED
        BY <1>1, <1>2, <3>1, <3>2
    <2>3. ASSUME NEW c \in 0 .. F - 1 PROVE ChunkAt(v, c)
      <3>1. ChunkStart(c) \in Nat /\ ChunkStart(c) + ChunkSize + Word <= W
        <4>1. c \in Nat /\ c < F
          BY <1>2
        <4>2. ChunkStart(c) \in Nat /\ ChunkStart(c) + L <= ChunkStart(F)
          BY <1>2, <4>1, Places
        <4> QED
          BY <1>2, <2>1, <4>2
      <3>2. ChunkAt(wire, c)
        BY DEF Written, Layout
      <3>3. \A i \in 1 .. ChunkSize : ChunkStart(c) + i \in 1 .. W
        BY <1>2, <3>1
      <3>4. \A i \in 1 .. Word : ChunkStart(c) + ChunkSize + i \in 1 .. W
        BY <1>2, <3>1
      <3> QED
        BY <1>1, <3>2, <3>3, <3>4 DEF ChunkAt
    <2>4. \A i \in 1 .. len : v[ChunkStart(F) + i] = DataCell(Off(F) + i)
      <3>1. \A i \in 1 .. len : ChunkStart(F) + i \in 1 .. W
        BY <1>2, <2>1
      <3>2. \A i \in 1 .. len : wire[ChunkStart(F) + i] = DataCell(Off(F) + i)
        BY <1>1 DEF Written, Layout
      <3> QED
        BY <1>1, <3>1, <3>2
    <2>5. \A p \in 1 .. W : v[p].t = "crc" => \E c \in 0 .. F - 1 : InChunkCrc(c, p)
      BY <1>1 DEF Written, Layout
    <2> QED
      BY <1>1, <2>2, <2>3, <2>4, <2>5
  <1> QED
    BY <1>3, <1>4 DEF Written, WriterType

LEMMA FirstCall ==
  ASSUME NEW F, Written(F), WriteArrowRecord
  PROVE  Written(F)'
  <1>1. /\ wpc = "open" /\ wpc' = "write" /\ toWrite' = RecLen /\ sent' = sent
        /\ wire' = IF wtr.first THEN wire \o SizeWord(ChunkSize) ELSE wire
        /\ wtr' = [wtr EXCEPT !.first = FALSE]
    BY DEF WriteArrowRecord
  <1>2. /\ wtr'.first = FALSE /\ wtr'.length = wtr.length
        /\ wtr'.chunkCrc = wtr.chunkCrc /\ wtr'.globalCrc = wtr.globalCrc
        /\ wtr' = [first |-> wtr'.first, length |-> wtr'.length,
                   chunkCrc |-> wtr'.chunkCrc, globalCrc |-> wtr'.globalCrc]
    BY <1>1 DEF Written, WriterType
  <1>3. Body = Len(wire) /\ Body' = Len(wire') /\ wire \in Seq(Cells)
    BY <1>1 DEF Body, Written, WriterType
  <1>4. RecLen \in Nat /\ RecLen > 0
    BY ArrowAssumption
  <1>5. wire' \in Seq(Cells)
    <2>1. SizeWord(ChunkSize) \in Seq(Cells)
      BY WordFacts, Places
    <2> QED
      BY <1>1, <1>3, <2>1
  <1>6. WriterType'
    BY <1>1, <1>2, <1>3, <1>4, <1>5 DEF Written, WriterType
  <1>7. Sums' /\ Footer'
    BY <1>1, <1>2 DEF Written, Sums, Footer
  <1>8. CASE ~wtr.first
    <2>1. wire' = wire /\ Body' = Body
      BY <1>1, <1>3, <1>8
    <2>2. \A c : ChunkAt(wire, c)' <=> ChunkAt(wire, c)
      BY <2>1 DEF ChunkAt
    <2>3. Layout(F)'
      BY <1>1, <1>2, <1>8, <2>1, <2>2 DEF Written, Layout
    <2> QED
      BY <1>6, <1>7, <2>3 DEF Written
  <1>9. CASE wtr.first
    <2>1. F = 0 /\ Len(wire) = 0 /\ sent = 0 /\ wtr.length = 0
      <3>1. sent = 0 /\ F = 0 /\ Body = 0 /\ sent = Off(F) + wtr.length /\ wtr.length \in Nat
        BY <1>9 DEF Written, WriterType, Layout
      <3>2. Off(0) = 0
        BY Places
      <3> QED
        BY <1>3, <3>1, <3>2
    <2>2. /\ Len(wire') = Word /\ \A i \in 1 .. Word : wire'[i] = SizeWord(ChunkSize)[i]
      <3>1. SizeWord(ChunkSize) \in Seq(Cells) /\ Len(SizeWord(ChunkSize)) = Word
        BY WordFacts, Places
      <3>2. wire' = wire \o SizeWord(ChunkSize)
        BY <1>1, <1>9
      <3> QED
        BY <1>3, <2>1, <3>1, <3>2, JoinFacts DEF Joined
    <2>3. Word \in Nat /\ ChunkStart(0) = Word /\ Off(0) = 0
      BY Places
    <2>4. \A p \in 1 .. Word : wire'[p].t # "crc"
      BY <2>2, WordFacts
    <2>5. Layout(F)'
      <3>1. (\A c \in 0 .. F - 1 : FALSE) /\ (\A i \in 1 .. wtr.length : FALSE)
        BY <2>1
      <3>2. Body' = ChunkStart(F) + wtr'.length /\ sent' = Off(F) + wtr'.length /\ F \in Nat
        BY <1>1, <1>2, <1>3, <2>1, <2>2, <2>3
      <3> QED
        BY <1>2, <1>3, <2>2, <2>4, <3>1, <3>2 DEF Layout
    <2> QED
      BY <1>6, <1>7, <2>5 DEF Written
  <1> QED
    BY <1>8, <1>9 DEF Written, WriterType

LEMMA ReturnStep ==
  ASSUME NEW F, Written(F), WriteReturns
  PROVE  Written(F)'
  <1>1. /\ wpc = "write" /\ toWrite = 0 /\ wpc' = "open"
        /\ toWrite' = toWrite /\ wtr' = wtr /\ wire' = wire /\ sent' = sent
    BY DEF WriteReturns
  <1>2. Body' = Body
    BY <1>1 DEF Body
  <1>3. RecLen \in Nat /\ RecLen > 0
    BY ArrowAssumption
  <1>4. sent > 0
    BY <1>1, <1>3 DEF Written, WriterType
  <1>5. WriterType'
    BY <1>1, <1>2, <1>4 DEF Written, WriterType
  <1>6. Sums' /\ Footer'
    BY <1>1 DEF Written, Sums, Footer
  <1>7. \A c : ChunkAt(wire, c)' <=> ChunkAt(wire, c)
    BY <1>1 DEF ChunkAt
  <1>8. Layout(F)'
    BY <1>1, <1>2, <1>7 DEF Written, Layout
  <1> QED
    BY <1>5, <1>6, <1>8 DEF Written

LEMMA LoopStep ==
  ASSUME NEW F, Written(F), WriteLoop
  PROVE  \E G : Written(G)'
  <1>1. PICK n, len, W : n = Min({leftChunkLength(wtr), toWrite}) /\ len = wtr.length /\ W = Len(wire)
    OBVIOUS
  <1>2. PICK bytes : bytes = [i \in 1 .. n |-> DataCell(sent + i)]
    OBVIOUS
  <1>3. PICK crc, glob : crc = wtr.chunkCrc \o bytes /\ glob = wtr.globalCrc \o bytes
    OBVIOUS
  <1>4. /\ wpc = "write" /\ toWrite > 0 /\ wpc' = "write"
        /\ toWrite' = toWrite - n /\ sent' = sent + n
        /\ wire' = wire \o bytes \o (IF len + n >= ChunkSize THEN CrcWord(crc) ELSE <<>>)
        /\ wtr' = [wtr EXCEPT !.length = IF len + n >= ChunkSize THEN 0 ELSE @ + n,
                              !.chunkCrc = IF len + n >= ChunkSize THEN <<>> ELSE crc,
                              !.globalCrc = glob]
    <2>1. /\ wpc = "write" /\ toWrite > 0 /\ wpc' = wpc
          /\ toWrite' = toWrite - n /\ sent' = sent + n
          /\ wire' = wire \o bytes \o (IF chunkIsFull(len + n) THEN CrcWord(crc) ELSE <<>>)
          /\ wtr' = [wtr EXCEPT !.length = IF chunkIsFull(len + n) THEN 0 ELSE @ + n,
                                !.chunkCrc = IF chunkIsFull(len + n) THEN <<>> ELSE crc,
                                !.globalCrc = @ \o bytes]
      BY <1>1, <1>2, <1>3 DEF WriteLoop
    <2> QED
      BY <1>3, <2>1 DEF chunkIsFull
  <1>19. /\ wire \in Seq(Cells) /\ W = Len(wire) /\ Body = W /\ Body' = Len(wire')
         /\ ~wtr.first
    BY <1>1, <1>4 DEF Written, WriterType, Body
  <1>5. /\ F \in Nat /\ len \in Nat /\ len < ChunkSize /\ ChunkSize \in Nat /\ Word \in Nat /\ Word > 0
        /\ sent \in Nat /\ sent = Off(F) + len /\ Off(F) \in Nat /\ ChunkStart(F) \in Nat
        /\ W \in Nat /\ W = ChunkStart(F) + len /\ L = ChunkSize + Word
    <2>1. F \in Nat /\ sent = Off(F) + len /\ W = ChunkStart(F) + len
      BY <1>1, <1>19 DEF Written, Layout
    <2>2. len \in Nat /\ len < ChunkSize /\ sent \in Nat
      BY <1>1 DEF Written, WriterType
    <2>3. W \in Nat
      BY <1>19
    <2> QED
      BY <2>1, <2>2, <2>3, Places
  <1>20. toWrite \in Nat /\ toWrite <= RecLen /\ RecLen \in Nat /\ toWrite > 0
    BY <1>4, ArrowAssumption DEF Written, WriterType
  <1>6. n \in Nat /\ n > 0 /\ n <= toWrite /\ len + n <= ChunkSize
    <2>1. PICK m : m = ChunkSize - len
      OBVIOUS
    <2>2. m \in Nat /\ m > 0 /\ len + m = ChunkSize
      BY <1>5, <2>1
    <2>3. n = Min({m, toWrite})
      BY <1>1, <2>1 DEF leftChunkLength
    <2>4. n = IF m <= toWrite THEN m ELSE toWrite
      BY <1>20, <2>2, <2>3, MinFacts
    <2> QED
      BY <1>5, <1>20, <2>2, <2>4
  <1>7. /\ bytes \in Seq(DataCells) /\ bytes \in Seq(Cells) /\ Len(bytes) = n
        /\ \A i \in 1 .. n : bytes[i] = DataCell(sent + i)
    <2>1. bytes \in [1 .. n -> DataCells]
      BY <1>2, <1>5, <1>6, CellFacts
    <2>2. bytes \in Seq(DataCells) /\ Len(bytes) = n
      BY <1>6, <2>1
    <2>3. bytes \in Seq(Cells)
      BY <2>2, CellFacts
    <2> QED
      BY <1>2, <2>2, <2>3
  <1>8. /\ crc \in Seq(DataCells) /\ Len(crc) = len + n
        /\ \A i \in 1 .. len + n : crc[i] = DataCell(Off(F) + i)
    <2>1. /\ wtr.chunkCrc \in Seq(DataCells) /\ Len(wtr.chunkCrc) = len
          /\ \A i \in 1 .. len : wtr.chunkCrc[i] = DataCell(Off(F) + i)
      <3>1. sent - len = Off(F)
        BY <1>5
      <3> QED
        BY <1>1, <3>1 DEF Written, WriterType, Sums
    <2>2. /\ crc \in Seq(DataCells) /\ Len(crc) = len + n
          /\ \A i \in 1 .. len : crc[i] = wtr.chunkCrc[i]
          /\ \A i \in 1 .. n : crc[len + i] = bytes[i]
          /\ \A i \in 1 .. len + n : i \in 1 .. len \/ \E j \in 1 .. n : i = len + j
      <3>1. PICK s : s = wtr.chunkCrc
        OBVIOUS
      <3>2. s \in Seq(DataCells) /\ bytes \in Seq(DataCells) /\ crc = s \o bytes /\ len = Len(s) /\ n = Len(bytes)
        BY <1>3, <1>7, <2>1, <3>1
      <3>3. crc \in Seq(DataCells) /\ Joined(crc, s, len, bytes, n)
        BY <3>2, JoinFacts
      <3> QED
        BY <3>1, <3>3 DEF Joined
    <2>3. ASSUME NEW j \in 1 .. n PROVE crc[len + j] = DataCell(Off(F) + (len + j))
      <3>1. sent + j = Off(F) + (len + j)
        BY <1>5, <1>6
      <3> QED
        BY <1>7, <2>2, <3>1
    <2> QED
      BY <2>1, <2>2, <2>3
  <1>9. glob = Data(sent + n) /\ glob \in Seq(DataCells)
    <2>1. PICK D, N : N = sent + n /\ D = Data(N)
      OBVIOUS
    <2>6. N \in Nat
      BY <1>5, <1>6, <2>1
    <2>2. /\ D \in Seq(DataCells) /\ Len(D) = sent + n
          /\ \A i \in 1 .. sent + n : D[i] = DataCell(i)
      BY <2>1, <2>6, DataFacts
    <2>3. /\ wtr.globalCrc \in Seq(DataCells) /\ Len(wtr.globalCrc) = sent
          /\ \A i \in 1 .. sent : wtr.globalCrc[i] = DataCell(i)
      <3>1. wtr.globalCrc = Data(sent)
        BY <1>4 DEF Written, Sums
      <3> QED
        BY <1>5, <3>1, DataFacts
    <2>4. /\ glob \in Seq(DataCells) /\ Len(glob) = sent + n
          /\ \A i \in 1 .. sent : glob[i] = DataCell(i)
          /\ \A i \in 1 .. n : glob[sent + i] = DataCell(sent + i)
          /\ \A i \in 1 .. sent + n : i \in 1 .. sent \/ \E j \in 1 .. n : i = sent + j
      <3>1. /\ glob \in Seq(DataCells) /\ Len(glob) = sent + n
            /\ \A i \in 1 .. sent : glob[i] = wtr.globalCrc[i]
            /\ \A i \in 1 .. n : glob[sent + i] = bytes[i]
            /\ \A i \in 1 .. sent + n : i \in 1 .. sent \/ \E j \in 1 .. n : i = sent + j
        <4>1. PICK s : s = wtr.globalCrc
          OBVIOUS
        <4>2. /\ s \in Seq(DataCells) /\ bytes \in Seq(DataCells) /\ glob = s \o bytes
              /\ sent = Len(s) /\ n = Len(bytes)
          BY <1>3, <1>7, <2>3, <4>1
        <4>3. glob \in Seq(DataCells) /\ Joined(glob, s, sent, bytes, n)
          BY <4>2, JoinFacts
        <4> QED
          BY <4>1, <4>3 DEF Joined
      <3> QED
        BY <1>7, <2>3, <3>1
    <2>5. glob = D
      BY <2>2, <2>4, SameCells
    <2> QED
      BY <2>1, <2>4, <2>5
  <1>10. PICK u : u = wire \o bytes
    OBVIOUS
  <1>11. /\ u \in Seq(Cells) /\ Len(u) = W + n
         /\ \A i \in 1 .. W : u[i] = wire[i]
         /\ \A i \in 1 .. n : u[W + i] = DataCell(sent + i)
         /\ \A i \in 1 .. W + n : i \in 1 .. W \/ \E j \in 1 .. n : i = W + j
    <2>1. /\ u \in Seq(Cells) /\ Len(u) = W + n
          /\ \A i \in 1 .. W : u[i] = wire[i]
          /\ \A i \in 1 .. n : u[W + i] = bytes[i]
          /\ \A i \in 1 .. W + n : i \in 1 .. W \/ \E j \in 1 .. n : i = W + j
      <3>1. bytes \in Seq(Cells) /\ n = Len(bytes)
        BY <1>7
      <3>2. u \in Seq(Cells) /\ Joined(u, wire, W, bytes, n)
        BY <1>10, <1>19, <3>1, JoinFacts
      <3> QED
        BY <3>2 DEF Joined
    <2> QED
      BY <1>7, <2>1
  \* The cells of the chunk that is being filled.
  <1>12. \A i \in 1 .. len + n : u[ChunkStart(F) + i] = DataCell(Off(F) + i)
    <2> TAKE i \in 1 .. len + n
    <2>1. CASE i <= len
      <3>1. i \in 1 .. len /\ ChunkStart(F) + i \in 1 .. W
        BY <1>5, <1>6, <2>1
      <3>2. wire[ChunkStart(F) + i] = DataCell(Off(F) + i)
        BY <1>1, <3>1 DEF Written, Layout
      <3> QED
        BY <1>11, <3>1, <3>2
    <2>2. CASE i > len
      <3>1. i - len \in 1 .. n
        BY <1>5, <1>6, <2>2
      <3>2. W + (i - len) = ChunkStart(F) + i /\ sent + (i - len) = Off(F) + i
        BY <1>5, <1>6, <3>1
      <3> QED
        BY <1>11, <3>1, <3>2
    <2> QED
      BY <1>5, <1>6, <2>1, <2>2
  <1>14. /\ wtr'.first = wtr.first /\ wtr'.globalCrc = glob
         /\ wtr'.length = (IF len + n >= ChunkSize THEN 0 ELSE len + n)
         /\ wtr'.chunkCrc = (IF len + n >= ChunkSize THEN <<>> ELSE crc)
         /\ wtr' = [first |-> wtr'.first, length |-> wtr'.length,
                    chunkCrc |-> wtr'.chunkCrc, globalCrc |-> wtr'.globalCrc]
    <2>1. wtr = [first |-> wtr.first, length |-> wtr.length,
                 chunkCrc |-> wtr.chunkCrc, globalCrc |-> wtr.globalCrc]
      BY DEF Written, WriterType
    <2> QED
      BY <1>1, <1>4, <2>1
  <1>15. ASSUME wire' \in Seq(Cells) PROVE WriterType'
    <2>1. toWrite' \in 0 .. RecLen /\ sent' \in Nat /\ sent' > 0
      <3>1. PICK before, left, total : before = toWrite /\ left = toWrite' /\ total = sent'
        OBVIOUS
      <3>2. left = before - n /\ total = sent + n /\ sent \in Nat
        BY <1>4, <1>5, <3>1
      <3>3. before \in Nat /\ before <= RecLen /\ n \in Nat /\ n > 0 /\ n <= before /\ RecLen \in Nat
        BY <1>6, <1>20, <3>1
      <3>4. left \in 0 .. RecLen /\ total \in Nat /\ total > 0
        BY <3>2, <3>3
      <3> QED
        BY <3>1, <3>4
    <2>2. wtr'.length \in Nat /\ wtr'.length < ChunkSize
      BY <1>5, <1>6, <1>14
    <2>3. wtr'.chunkCrc \in Seq(DataCells) /\ wtr'.globalCrc \in Seq(DataCells) /\ wtr'.first = FALSE
      BY <1>5, <1>19, <1>8, <1>9, <1>14 DEF Written, WriterType
    <2>4. Body' \in Nat
      BY <1>5, <1>19, <1>15
    <2> QED
      BY <1>4, <1>14, <1>15, <2>1, <2>2, <2>3, <2>4 DEF WriterType
  <1>16. Footer'
    BY <1>4 DEF Footer
  <1>17. CASE len + n < ChunkSize
    <2>1. wtr'.length = len + n /\ wtr'.chunkCrc = crc
      BY <1>5, <1>6, <1>14, <1>17
    <2>2. wire' = u
      <3>1. wire' = u \o <<>>
        <4>1. ~(len + n >= ChunkSize)
          BY <1>5, <1>6, <1>17
        <4> QED
          BY <1>4, <1>10, <4>1, Zenon
      <3> QED
        BY <1>11, <3>1
    <2>3. Sums'
      <3>1. sent' - wtr'.length = Off(F)
        BY <1>4, <1>5, <1>6, <2>1
      <3>2. wtr'.globalCrc = Data(sent')
        BY <1>4, <1>9, <1>14
      <3> QED
        BY <1>8, <2>1, <3>1, <3>2 DEF Sums
    <2>4. Layout(F)'
      <3>1. sent' = Off(F) + wtr'.length /\ Body' = ChunkStart(F) + wtr'.length
        <4>1. Body' = W + n
          BY <1>11, <1>19, <2>2
        <4>2. sent' = sent + n
          BY <1>4
        <4> QED
          BY <1>5, <1>6, <2>1, <4>1, <4>2
      <3>2. /\ \A i \in 1 .. Word : u[i] = SizeWord(ChunkSize)[i]
            /\ \A c \in 0 .. F - 1 : ChunkAt(u, c)
            /\ \A p \in 1 .. W : u[p].t = "crc" => \E c \in 0 .. F - 1 : InChunkCrc(c, p)
        BY <1>11, <1>19, BodyKept
      <3>3. \A c \in 0 .. F - 1 : ChunkAt(wire, c)'
        BY <2>2, <3>2 DEF ChunkAt
      <3>4. ASSUME NEW p \in 1 .. Body', u[p].t = "crc"
            PROVE  \E c \in 0 .. F - 1 : InChunkCrc(c, p)
        <4>1. p \in 1 .. W + n
          BY <1>11, <1>19, <2>2, <3>4
        <4>2. p \notin 1 .. W => u[p].t = "data"
          BY <1>11, <4>1, CellFacts
        <4> QED
          BY <3>2, <3>4, <4>2
      <3>5. \A i \in 1 .. wtr'.length : wire'[ChunkStart(F) + i] = DataCell(Off(F) + i)
        BY <1>12, <2>1, <2>2
      <3>6. \A p \in 1 .. Body' : wire'[p].t = "crc" => \E c \in 0 .. F - 1 : InChunkCrc(c, p)
        BY <2>2, <3>4
      <3>7. ~wtr'.first /\ F \in Nat /\ \A i \in 1 .. Word : wire'[i] = SizeWord(ChunkSize)[i]
        BY <1>5, <1>19, <1>14, <2>2, <3>2
      <3> QED
        BY <3>1, <3>3, <3>5, <3>6, <3>7 DEF Layout
    <2>5. WriterType'
      BY <1>11, <1>15, <2>2
    <2> QED
      BY <1>16, <2>3, <2>4, <2>5 DEF Written
  <1>18. CASE len + n = ChunkSize
    <2>1. wtr'.length = 0 /\ wtr'.chunkCrc = <<>>
      BY <1>5, <1>14, <1>18
    <2>2. PICK G : G = F + 1
      OBVIOUS
    <2>3. /\ G \in Nat /\ F = G - 1 /\ Off(G) = Off(F) + ChunkSize /\ ChunkStart(G) = ChunkStart(F) + L
          /\ \A c \in 0 .. G - 1 : c \in 0 .. F - 1 \/ c = F
          /\ \A c \in 0 .. F - 1 : c \in 0 .. G - 1
          /\ F \in 0 .. G - 1
      <3>1. G \in Nat /\ F = G - 1
        BY <1>5, <2>2
      <3>2. Off(G) = Off(F) + ChunkSize /\ ChunkStart(G) = ChunkStart(F) + L
        BY <1>5, <2>2, Places
      <3> QED
        BY <1>5, <2>2, <3>1, <3>2
    <2>4. crc = Piece(F) /\ crc \in Seq(DataCells)
      <3>1. PICK P : P = Piece(F)
        OBVIOUS
      <3>2. /\ P \in Seq(DataCells) /\ Len(P) = ChunkSize
            /\ \A i \in 1 .. ChunkSize : P[i] = DataCell(Off(F) + i)
        BY <1>5, <3>1, PieceFacts
      <3>3. crc = P
        BY <1>8, <1>18, <3>2, SameCells
      <3> QED
        BY <1>8, <3>1, <3>3
    <2>5. PICK w : w = CrcWord(crc)
      OBVIOUS
    <2>6. wire' = u \o w
      <3>1. len + n >= ChunkSize
        BY <1>5, <1>18
      <3> QED
        BY <1>4, <1>10, <2>5, <3>1, Zenon
    <2>7. w \in Seq(Cells) /\ Len(w) = Word
      BY <2>4, <2>5, WordFacts
    <2>8. /\ wire' \in Seq(Cells) /\ Len(wire') = W + n + Word
          /\ \A i \in 1 .. W + n : wire'[i] = u[i]
          /\ \A i \in 1 .. Word : wire'[W + n + i] = w[i]
          /\ \A i \in 1 .. W + n + Word : i \in 1 .. W + n \/ \E j \in 1 .. Word : i = W + n + j
      <3>1. PICK V : V = W + n
        OBVIOUS
      <3>2. u \in Seq(Cells) /\ V = Len(u) /\ w \in Seq(Cells) /\ Word = Len(w)
        BY <1>11, <2>7, <3>1
      <3>3. /\ wire' \in Seq(Cells) /\ Len(wire') = V + Word
            /\ \A i \in 1 .. V : wire'[i] = u[i]
            /\ \A i \in 1 .. Word : wire'[V + i] = w[i]
            /\ \A i \in 1 .. V + Word : i \in 1 .. V \/ \E j \in 1 .. Word : i = V + j
        <4>1. wire' \in Seq(Cells) /\ Joined(wire', u, V, w, Word)
          BY <2>6, <3>2, JoinFacts
        <4> QED
          BY <4>1 DEF Joined
      <3> QED
        BY <3>1, <3>3
    <2>9. W + n = ChunkStart(F) + ChunkSize
      BY <1>5, <1>6, <1>18
    <2>10. Sums'
      <3>1. Len(wtr'.chunkCrc) = 0
        BY <2>1
      <3>2. wtr'.globalCrc = Data(sent')
        BY <1>4, <1>9, <1>14
      <3> QED
        BY <2>1, <3>1, <3>2 DEF Sums
    <2>11. \A i \in 1 .. W : wire'[i] = wire[i]
      <3>1. \A i \in 1 .. W : i \in 1 .. W + n
        BY <1>5, <1>6
      <3> QED
        BY <1>11, <2>8, <3>1
    <2>12. /\ \A i \in 1 .. Word : wire'[i] = SizeWord(ChunkSize)[i]
           /\ \A c \in 0 .. F - 1 : ChunkAt(wire', c)
           /\ \A p \in 1 .. W : wire'[p].t = "crc" => \E c \in 0 .. F - 1 : InChunkCrc(c, p)
      BY <1>19, <2>11, BodyKept
    <2>13. \A c \in 0 .. G - 1 : ChunkAt(wire, c)'
      <3>1. \A c \in 0 .. F - 1 : ChunkAt(wire, c)'
        BY <2>12 DEF ChunkAt
      <3>2. ChunkAt(wire, F)'
        <4>1. \A i \in 1 .. ChunkSize : wire'[ChunkStart(F) + i] = DataCell(Off(F) + i)
          <5>1. \A i \in 1 .. ChunkSize : ChunkStart(F) + i \in 1 .. W + n
            BY <1>5, <2>9
          <5> QED
            BY <1>12, <1>18, <2>8, <5>1
        <4>2. \A i \in 1 .. Word : wire'[ChunkStart(F) + ChunkSize + i] = CrcWord(Piece(F))[i]
          BY <2>4, <2>5, <2>8, <2>9
        <4> QED
          BY <4>1, <4>2 DEF ChunkAt
      <3> QED
        BY <2>3, <3>1, <3>2
    <2>14. ASSUME NEW p \in 1 .. Body', wire'[p].t = "crc"
           PROVE  \E c \in 0 .. G - 1 : InChunkCrc(c, p)
      <3>1. p \in 1 .. W + n + Word
        BY <1>19, <2>8, <2>14
      <3>2. CASE p \in 1 .. W
        BY <2>3, <2>12, <2>14, <3>2
      <3>3. CASE p \in 1 .. W + n /\ p \notin 1 .. W
        <4>1. u[p].t = "data"
          BY <1>11, <3>3, CellFacts
        <4> QED
          BY <2>8, <2>14, <3>3, <4>1
      <3>4. ASSUME NEW j \in 1 .. Word, p = W + n + j PROVE InChunkCrc(F, p)
        BY <1>5, <1>6, <2>9, <3>4 DEF InChunkCrc
      <3> QED
        BY <2>3, <2>8, <3>1, <3>2, <3>3, <3>4
    <2>15. Layout(G)'
      <3>1. sent' = Off(G) + wtr'.length /\ Body' = ChunkStart(G) + wtr'.length
        <4>1. sent' = Off(G)
          BY <1>4, <1>5, <1>6, <1>18, <2>3
        <4>2. Body' = ChunkStart(G)
          <5>1. Body' = W + n + Word
            BY <1>19, <2>8
          <5> QED
            BY <1>5, <2>3, <2>9, <5>1
        <4> QED
          BY <1>5, <2>1, <2>3, <4>1, <4>2
      <3>2. \A i \in 1 .. wtr'.length : FALSE
        BY <2>1
      <3>3. ~wtr'.first
        BY <1>14, <1>19
      <3> QED
        BY <2>3, <2>12, <2>13, <2>14, <3>1, <3>2, <3>3 DEF Layout
    <2>16. WriterType'
      BY <1>15, <2>8
    <2> QED
      BY <1>16, <2>10, <2>15, <2>16 DEF Written
  <1> QED
    BY <1>5, <1>6, <1>17, <1>18

LEMMA CloseStep ==
  ASSUME NEW F, Written(F), WriterClose
  PROVE  Written(F)'
  <1>1. /\ wpc = "open" /\ wpc' = "closed" /\ toWrite' = toWrite /\ sent' = sent
        /\ wire' = wire \o CrcWord(wtr.globalCrc)
        /\ wtr' = [wtr EXCEPT !.globalCrc = <<>>]
    BY DEF WriterClose
  <1>2. /\ wtr'.first = wtr.first /\ wtr'.length = wtr.length
        /\ wtr'.chunkCrc = wtr.chunkCrc /\ wtr'.globalCrc = <<>>
        /\ wtr' = [first |-> wtr'.first, length |-> wtr'.length,
                   chunkCrc |-> wtr'.chunkCrc, globalCrc |-> wtr'.globalCrc]
    <2>1. wtr = [first |-> wtr.first, length |-> wtr.length,
                 chunkCrc |-> wtr.chunkCrc, globalCrc |-> wtr.globalCrc]
      BY DEF Written, WriterType
    <2> QED
      BY <1>1, <2>1
  <1>3. PICK D, w, W : D = Data(sent) /\ w = CrcWord(D) /\ W = Len(wire)
    OBVIOUS
  <1>4. wire \in Seq(Cells) /\ Body = W /\ W \in Nat
    BY <1>1, <1>3 DEF Written, WriterType, Body
  <1>5. w \in Seq(Cells) /\ Len(w) = Word /\ Word \in Nat
    <2>1. sent \in Nat
      BY DEF Written, WriterType
    <2>2. D \in Seq(DataCells)
      BY <1>3, <2>1, DataFacts
    <2> QED
      BY <1>3, <2>2, WordFacts, Places
  <1>6. wire' = wire \o w
    BY <1>1, <1>3 DEF Written, Sums
  <1>7. /\ wire' \in Seq(Cells) /\ Len(wire') = W + Word
        /\ \A i \in 1 .. W : wire'[i] = wire[i]
        /\ \A i \in 1 .. Word : wire'[W + i] = w[i]
    <2>1. wire' \in Seq(Cells) /\ Joined(wire', wire, W, w, Word)
      BY <1>3, <1>4, <1>5, <1>6, JoinFacts
    <2> QED
      BY <2>1 DEF Joined
  <1>8. Body' = W
    <2>1. Body' = Len(wire') - Word
      BY <1>1 DEF Body
    <2> QED
      BY <1>4, <1>5, <1>7, <2>1
  <1>9. WriterType'
    <2>1. <<>> \in Seq(DataCells)
      OBVIOUS
    <2> QED
      BY <1>1, <1>2, <1>4, <1>7, <1>8, <2>1 DEF Written, WriterType
  <1>10. Sums'
    BY <1>1, <1>2 DEF Written, Sums
  <1>11. Footer'
    BY <1>1, <1>3, <1>7, <1>8 DEF Footer
  <1>12. Layout(F)'
    <2>1. /\ ~wtr.first => \A i \in 1 .. Word : wire'[i] = SizeWord(ChunkSize)[i]
          /\ \A c \in 0 .. F - 1 : ChunkAt(wire', c)
          /\ \A i \in 1 .. wtr.length : wire'[ChunkStart(F) + i] = DataCell(Off(F) + i)
          /\ \A p \in 1 .. W : wire'[p].t = "crc" => \E c \in 0 .. F - 1 : InChunkCrc(c, p)
      BY <1>4, <1>7, BodyKept
    <2>2. /\ F \in Nat /\ sent = Off(F) + wtr.length
          /\ IF wtr.first THEN F = 0 /\ W = 0 ELSE W = ChunkStart(F) + wtr.length
      BY <1>4 DEF Written, Layout
    <2> QED
      BY <1>1, <1>2, <1>8, <2>1, <2>2 DEF Layout
  <1> QED
    BY <1>9, <1>10, <1>11, <1>12 DEF Written

LEMMA WriterFrame ==
  ASSUME NEW F, Written(F), UNCHANGED <<wpc, toWrite, wtr, wire, sent>>
  PROVE  Written(F)'
  <1>1. wpc' = wpc /\ toWrite' = toWrite /\ wtr' = wtr /\ wire' = wire /\ sent' = sent
    OBVIOUS
  <1>2. Body' = Body
    BY <1>1 DEF Body
  <1>3. WriterType' /\ Sums' /\ Footer'
    BY <1>1, <1>2 DEF Written, WriterType, Sums, Footer
  <1>4. \A c : ChunkAt(wire, c)' <=> ChunkAt(wire, c)
    BY <1>1 DEF ChunkAt
  <1>5. Layout(F)'
    BY <1>1, <1>2, <1>4 DEF Written, Layout
  <1> QED
    BY <1>3, <1>5 DEF Written

\* Where the parts of a closed stream are.
Closed(F) == Written(F) /\ wpc = "closed"

LEMMA ClosedFacts ==
  ASSUME NEW F, Closed(F)
  PROVE  /\ wire \in Seq(Cells) /\ Len(wire) \in Nat /\ F \in Nat /\ sent \in Nat
         /\ wtr.length \in Nat /\ wtr.length < ChunkSize /\ sent = Off(F) + wtr.length
         /\ FullChunks(sent) = F
         /\ sent = 0 => Len(wire) = Word /\ F = 0
         /\ sent > 0 => /\ Len(wire) = ChunkStart(F) + wtr.length + Word
                        /\ \A i \in 1 .. Word : wire[i] = SizeWord(ChunkSize)[i]
         /\ \A c \in 0 .. F - 1 : ChunkAt(wire, c)
         /\ \A i \in 1 .. wtr.length : wire[ChunkStart(F) + i] = DataCell(Off(F) + i)
         /\ Body = Len(wire) - Word /\ Body \in Nat
         /\ \A i \in 1 .. Word : wire[Body + i] = CrcWord(Data(sent))[i]
  <1>1. /\ wire \in Seq(Cells) /\ F \in Nat /\ sent \in Nat
        /\ wtr.length \in Nat /\ wtr.length < ChunkSize /\ sent = Off(F) + wtr.length
        /\ Body = Len(wire) - Word /\ Body \in Nat
    BY DEF Closed, Written, WriterType, Layout, Body
  <1>2. Word \in Nat /\ ChunkSize \in Nat /\ Off(F) \in Nat /\ ChunkStart(F) \in Nat
    BY <1>1, Places
  <1>3. Len(wire) \in Nat /\ Len(wire) = Body + Word
    BY <1>1, <1>2
  <1>4. FullChunks(sent) = F
    BY <1>1, <1>2, ChunksFilled
  <1>5. sent = 0 => Len(wire) = Word /\ F = 0
    <2> SUFFICES ASSUME sent = 0 PROVE Len(wire) = Word /\ F = 0
      OBVIOUS
    <2>1. wtr.first
      BY DEF Closed, Written, WriterType
    <2>2. F = 0 /\ Body = 0
      BY <2>1 DEF Closed, Written, Layout
    <2> QED
      BY <1>2, <1>3, <2>2
  <1>6. sent > 0 => /\ Len(wire) = ChunkStart(F) + wtr.length + Word
                    /\ \A i \in 1 .. Word : wire[i] = SizeWord(ChunkSize)[i]
    <2> SUFFICES ASSUME sent > 0
                 PROVE  /\ Len(wire) = ChunkStart(F) + wtr.length + Word
                        /\ \A i \in 1 .. Word : wire[i] = SizeWord(ChunkSize)[i]
      OBVIOUS
    <2>1. ~wtr.first
      BY DEF Closed, Written, WriterType
    <2>2. Body = ChunkStart(F) + wtr.length /\ \A i \in 1 .. Word : wire[i] = SizeWord(ChunkSize)[i]
      BY <2>1 DEF Closed, Written, Layout
    <2> QED
      BY <1>3, <2>2
  <1>7. /\ \A c \in 0 .. F - 1 : ChunkAt(wire, c)
        /\ \A i \in 1 .. wtr.length : wire[ChunkStart(F) + i] = DataCell(Off(F) + i)
        /\ \A i \in 1 .. Word : wire[Body + i] = CrcWord(Data(sent))[i]
    BY DEF Closed, Written, Layout, Footer
  <1> QED
    BY <1>1, <1>3, <1>4, <1>5, <1>6, <1>7

LEMMA ClosedIsFramed ==
  ASSUME NEW F, Closed(F)
  PROVE  Framed(wire, sent)
  <1>1. PICK n, W, len, D : n = sent /\ W = Len(wire) /\ len = wtr.length /\ D = Data(sent)
    OBVIOUS
  <1>2. /\ wire \in Seq(Cells) /\ W \in Nat /\ F \in Nat /\ n \in Nat /\ len \in Nat
        /\ len < ChunkSize /\ n = Off(F) + len /\ FullChunks(n) = F
        /\ n = 0 => W = Word /\ F = 0
        /\ n > 0 => W = ChunkStart(F) + len + Word
    BY <1>1, ClosedFacts
  <1>3. /\ D \in Seq(Cells) /\ D \in Seq(DataCells) /\ Len(D) = n
        /\ \A i \in 1 .. n : D[i] = DataCell(i)
    BY <1>1, <1>2, DataFacts
  <1>4. /\ Word \in Nat /\ ChunkSize \in Nat /\ Word > 0 /\ ChunkSize > 0 /\ L = ChunkSize + Word
        /\ Off(F) \in Nat /\ ChunkStart(F) \in Nat
    BY <1>2, Places
  <1>5. ASSUME n > 0 PROVE First(wire, Word) = SizeWord(ChunkSize)
    <2>1. PICK u, v : u = First(wire, Word) /\ v = SizeWord(ChunkSize)
      OBVIOUS
    <2>2. Word \in 0 .. W
      BY <1>2, <1>4, <1>5
    <2>3. u \in Seq(Cells) /\ Len(u) = Word /\ \A i \in 1 .. Word : u[i] = wire[i]
      BY <1>1, <1>2, <2>1, <2>2, CutFacts
    <2>4. v \in Seq(Cells) /\ Len(v) = Word
      BY <1>4, <2>1, WordFacts
    <2>5. \A i \in 1 .. Word : wire[i] = v[i]
      BY <1>1, <1>5, <2>1, ClosedFacts
    <2>6. u = v
      BY <2>3, <2>4, <2>5, SameCells
    <2> QED
      BY <2>1, <2>6
  <1>6. ASSUME NEW c \in 0 .. F - 1
        PROVE  SubSeq(wire, ChunkStart(c) + 1, ChunkStart(c + 1)) = Piece(c) \o CrcWord(Piece(c))
    <2>1. PICK a, P, w : a = ChunkStart(c) /\ P = Piece(c) /\ w = CrcWord(P)
      OBVIOUS
    <2>2. c \in Nat /\ c < F /\ F > 0
      BY <1>2
    <2>3. a \in Nat /\ ChunkStart(c + 1) = a + L /\ a + L <= ChunkStart(F)
      BY <1>2, <2>1, <2>2, Places
    <2>4. n > 0
      BY <1>2, <2>2
    <2>5. a + L <= W /\ L \in Nat
      BY <1>2, <1>4, <2>3, <2>4
    <2>6. PICK u : u = SubSeq(wire, a + 1, a + L)
      OBVIOUS
    <2>7. u \in Seq(Cells) /\ Len(u) = L /\ \A i \in 1 .. L : u[i] = wire[a + i]
      BY <1>1, <1>2, <2>3, <2>5, <2>6, WindowFacts DEF Window
    <2>8. /\ P \in Seq(DataCells) /\ P \in Seq(Cells) /\ Len(P) = ChunkSize
          /\ \A i \in 1 .. ChunkSize : P[i] = DataCell(Off(c) + i)
      BY <2>1, <2>2, PieceFacts
    <2>9. w \in Seq(Cells) /\ Len(w) = Word
      BY <2>1, <2>8, WordFacts
    <2>10. PICK v : v = P \o w
      OBVIOUS
    <2>11. v \in Seq(Cells) /\ Joined(v, P, ChunkSize, w, Word)
      BY <2>8, <2>9, <2>10, JoinFacts
    <2>12. ChunkAt(wire, c)
      BY ClosedFacts
    <2>13. \A i \in 1 .. ChunkSize : wire[a + i] = P[i]
      BY <2>1, <2>8, <2>12 DEF ChunkAt
    <2>14. \A i \in 1 .. Word : wire[a + (ChunkSize + i)] = w[i]
      <3>1. \A i \in 1 .. Word : a + (ChunkSize + i) = a + ChunkSize + i
        BY <1>4, <2>3
      <3> QED
        BY <2>1, <2>12, <3>1 DEF ChunkAt
    <2>15. ASSUME NEW i \in 1 .. L PROVE u[i] = v[i]
      <3>1. CASE i \in 1 .. ChunkSize
        BY <2>7, <2>11, <2>13, <3>1 DEF Joined
      <3>2. ASSUME NEW j \in 1 .. Word, i = ChunkSize + j PROVE u[i] = v[i]
        BY <2>7, <2>11, <2>14, <3>2 DEF Joined
      <3>3. i \in 1 .. ChunkSize \/ \E j \in 1 .. Word : i = ChunkSize + j
        BY <1>4, <2>11 DEF Joined
      <3> QED
        BY <3>1, <3>2, <3>3
    <2>16. Len(v) = L
      BY <1>4, <2>11 DEF Joined
    <2>17. u = v
      BY <2>7, <2>11, <2>15, <2>16, SameCells
    <2> QED
      BY <2>1, <2>3, <2>6, <2>10, <2>17
  <1>7. PICK last : last = IF n = 0 THEN 0 ELSE ChunkStart(F)
    OBVIOUS
  <1>8. last \in Nat /\ last + len + Word = W /\ Body = last + len
    <2>1. Body = W - Word
      BY <1>1, ClosedFacts
    <2>2. CASE n = 0
      BY <1>2, <1>4, <1>7, <2>1, <2>2
    <2>3. CASE n > 0
      BY <1>2, <1>4, <1>7, <2>1, <2>3
    <2> QED
      BY <1>2, <2>2, <2>3
  <1>9. After(wire, last) = After(D, Off(F)) \o CrcWord(D)
    <2>1. PICK u, r, w, v : u = After(wire, last) /\ r = After(D, Off(F)) /\ w = CrcWord(D) /\ v = r \o w
      OBVIOUS
    <2>2. u \in Seq(Cells) /\ Len(u) = len + Word /\ \A i \in 1 .. len + Word : u[i] = wire[last + i]
      <3>1. last \in 0 .. W /\ W - last = len + Word
        BY <1>2, <1>4, <1>8
      <3> QED
        BY <1>1, <1>2, <2>1, <3>1, CutFacts
    <2>3. r \in Seq(Cells) /\ Len(r) = len /\ \A i \in 1 .. len : r[i] = D[Off(F) + i]
      <3>1. Off(F) \in 0 .. n /\ n - Off(F) = len
        BY <1>2, <1>4
      <3> QED
        BY <1>3, <2>1, <3>1, CutFacts
    <2>4. w \in Seq(Cells) /\ Len(w) = Word
      BY <1>3, <2>1, WordFacts
    <2>5. v \in Seq(Cells) /\ Joined(v, r, len, w, Word)
      BY <2>1, <2>3, <2>4, JoinFacts
    <2>6. \A i \in 1 .. len : wire[last + i] = r[i]
      <3>1. \A i \in 1 .. len : Off(F) + i \in 1 .. n
        BY <1>2, <1>4
      <3>2. \A i \in 1 .. len : r[i] = DataCell(Off(F) + i)
        BY <1>3, <2>3, <3>1
      <3>3. \A i \in 1 .. len : wire[ChunkStart(F) + i] = DataCell(Off(F) + i)
        BY <1>1, ClosedFacts
      <3>4. n = 0 => \A i \in 1 .. len : FALSE
        BY <1>2, <1>4
      <3> QED
        BY <1>7, <3>2, <3>3, <3>4
    <2>7. \A i \in 1 .. Word : wire[last + (len + i)] = w[i]
      <3>1. \A i \in 1 .. Word : last + (len + i) = Body + i
        BY <1>2, <1>4, <1>8
      <3> QED
        BY <1>1, <2>1, <3>1, ClosedFacts
    <2>8. ASSUME NEW i \in 1 .. len + Word PROVE u[i] = v[i]
      <3>1. CASE i \in 1 .. len
        BY <2>2, <2>5, <2>6, <3>1 DEF Joined
      <3>2. ASSUME NEW j \in 1 .. Word, i = len + j PROVE u[i] = v[i]
        BY <2>2, <2>5, <2>7, <3>2 DEF Joined
      <3>3. i \in 1 .. len \/ \E j \in 1 .. Word : i = len + j
        BY <2>5 DEF Joined
      <3> QED
        BY <3>1, <3>2, <3>3
    <2>9. Len(v) = len + Word
      BY <2>5 DEF Joined
    <2>10. u = v
      BY <2>2, <2>5, <2>8, <2>9, SameCells
    <2> QED
      BY <2>1, <2>10
  <1>10. W >= last
    BY <1>2, <1>4, <1>8
  <1>11. FullChunks(n) * ChunkSize = Off(F)
    BY <1>2 DEF Off
  <1> QED
    BY <1>1, <1>2, <1>5, <1>6, <1>7, <1>9, <1>10, <1>11 DEF Framed

-----------------------------------------------------------------------------
(* The checksums of a stream and where a reader meets them.                 *)

LEMMA CrcPlaces ==
  ASSUME NEW F, Closed(F), NEW p \in 1 .. Len(wire), wire[p].t = "crc"
  PROVE  \/ p > Body /\ wire[p].v = Data(sent) /\ wire[p].k = p - Body
         \/ \E c \in 0 .. F - 1 : InChunkCrc(c, p) /\ wire[p].v = Piece(c)
  <1>1. /\ Len(wire) \in Nat /\ Body \in Nat /\ Len(wire) = Body + Word /\ Word \in Nat /\ ChunkSize \in Nat
        /\ L = ChunkSize + Word /\ F \in Nat
    <2>1. Len(wire) \in Nat /\ Body \in Nat /\ Body = Len(wire) - Word /\ F \in Nat
      BY ClosedFacts
    <2>2. Word \in Nat /\ ChunkSize \in Nat /\ L = ChunkSize + Word
      BY Places
    <2> QED
      BY <2>1, <2>2
  <1>2. CASE p > Body
    <2>1. PICK i : i = p - Body
      OBVIOUS
    <2>2. i \in 1 .. Word /\ p = Body + i
      BY <1>1, <1>2, <2>1
    <2>3. wire[p] = CrcWord(Data(sent))[i]
      BY <2>2, ClosedFacts
    <2>4. wire[p].v = Data(sent) /\ wire[p].k = i
      BY <2>2, <2>3, WordFacts
    <2> QED
      BY <1>2, <2>1, <2>4
  <1>3. CASE p <= Body
    <2>1. p \in 1 .. Body
      BY <1>1, <1>3
    <2>2. PICK c \in 0 .. F - 1 : InChunkCrc(c, p)
      BY <2>1 DEF Closed, Written, Layout
    <2>3. PICK q : q = ChunkStart(c) + ChunkSize
      OBVIOUS
    <2>4. q \in Nat /\ q < p /\ p <= q + Word
      <3>1. c \in Nat
        BY <1>1
      <3>2. ChunkStart(c) \in Nat
        BY <3>1, Places
      <3> QED
        BY <1>1, <2>2, <2>3, <3>2 DEF InChunkCrc
    <2>5. p - q \in 1 .. Word /\ q + (p - q) = p
      BY <1>1, <2>4
    <2>6. wire[p] = CrcWord(Piece(c))[p - q]
      <3>1. ChunkAt(wire, c)
        BY ClosedFacts
      <3> QED
        BY <2>3, <2>5, <3>1 DEF ChunkAt
    <2> QED
      BY <2>2, <2>5, <2>6, WordFacts
  <1> QED
    BY <1>1, <1>2, <1>3

\* What arrives is no longer than the stream and, after the chunk size, made of its cells
\* or damaged; another chunk size comes with all of the stream.
Delivered ==
  /\ net \in Seq(Cells) /\ Len(net) <= Len(wire)
  /\ \A i \in Word + 1 .. Len(net) : net[i] = wire[i] \/ net[i] = Damaged
  /\ sent = 0 => \A i \in 1 .. Len(net) : net[i].n = 0
  /\ sent > 0 /\ Len(net) >= Word =>
       /\ \A i \in 1 .. Word : net[i] = SizeWord(net[1].n)[i]
       /\ net[1].n = ChunkSize \/ Len(net) = Len(wire)

\* A checksum that is read where it is looked for is that of the whole stream at its end or
\* that of a full chunk behind it.
LEMMA ChecksumFound ==
  ASSUME NEW F, Closed(F), Delivered, NEW p \in Word + 1 .. Len(net), NEW v, net[p] = CrcWord(v)[Word]
  PROVE  \/ p = Len(wire) /\ v = Data(sent)
         \/ \E c \in 0 .. F - 1 : InChunkCrc(c, p) /\ v = Piece(c)
  <1>1. Word \in 1 .. Word /\ Word \in Nat
    <2>1. Word \in Nat /\ Word > 0
      BY Places
    <2> QED
      BY <2>1
  <1>2. net[p].t = "crc" /\ net[p].v = v /\ net[p].k = Word
    BY <1>1, WordFacts
  <1>3. net[p] = wire[p]
    <2>1. net[p] # Damaged
      BY <1>2 DEF Damaged
    <2> QED
      BY <2>1 DEF Delivered
  <1>4. Len(wire) \in Nat /\ Body \in Nat /\ Len(wire) = Body + Word
    BY <1>1, ClosedFacts
  <1>5. Len(net) \in Nat /\ Len(net) <= Len(wire)
    BY DEF Delivered
  <1>6. p \in 1 .. Len(wire)
    BY <1>1, <1>4, <1>5
  <1>7. \/ p > Body /\ v = Data(sent) /\ Word = p - Body
        \/ \E c \in 0 .. F - 1 : InChunkCrc(c, p) /\ v = Piece(c)
    BY <1>2, <1>3, <1>6, CrcPlaces
  <1>8. Word = p - Body => p = Len(wire)
    BY <1>4, <1>6
  <1> QED
    BY <1>7, <1>8

LEMMA TransferStep ==
  ASSUME NEW F, Closed(F), Transfer
  PROVE  Delivered'
  <1>1. PICK W : W = Len(wire)
    OBVIOUS
  <1>2. /\ wire \in Seq(Cells) /\ W \in Nat /\ W >= Word /\ Word \in Nat /\ Word > 0 /\ sent \in Nat
        /\ DOMAIN wire = 1 .. W
    <2>1. Body \in Nat /\ Body = W - Word
      BY <1>1, ClosedFacts
    <2> QED
      BY <1>1, <2>1, ClosedFacts, Places
  <1>3. wire' = wire /\ sent' = sent
    BY DEF Transfer
  <1>4. sent = 0 => \A i \in 1 .. W : wire[i].n = 0
    <2>1. sent = 0 => Body = 0 /\ W = Word
      BY <1>1, <1>2, ClosedFacts
    <2>2. \A i \in 1 .. Word : wire[Body + i] = CrcWord(Data(sent))[i]
      BY ClosedFacts
    <2>3. \A i \in 1 .. Word : 0 + i = i
      BY <1>2
    <2> QED
      BY <2>1, <2>2, <2>3, WordFacts
  <1>5. sent > 0 => \A i \in 1 .. Word : wire[i] = SizeWord(ChunkSize)[i]
    BY ClosedFacts
  <1>6. 1 \in 1 .. Word
    BY <1>2
  \* The stream is cut at some cell, or not at all.
  <1>7. ASSUME NEW k \in 0 .. W, net' \in Seq(Cells), Len(net') = k, \A i \in 1 .. k : net'[i] = wire[i]
        PROVE  Delivered'
    <2>1. \A i \in Word + 1 .. k : i \in 1 .. k
      BY <1>2
    <2>2. sent > 0 /\ k >= Word =>
            /\ \A i \in 1 .. Word : net'[i] = SizeWord(net'[1].n)[i]
            /\ net'[1].n = ChunkSize
      <3> SUFFICES ASSUME sent > 0, k >= Word
                   PROVE  /\ \A i \in 1 .. Word : net'[i] = SizeWord(net'[1].n)[i]
                          /\ net'[1].n = ChunkSize
        OBVIOUS
      <3>1. \A i \in 1 .. Word : net'[i] = SizeWord(ChunkSize)[i]
        BY <1>2, <1>5, <1>7
      <3>2. net'[1].n = ChunkSize
        BY <1>6, <3>1, WordFacts
      <3> QED
        BY <3>1, <3>2
    <2>3. sent = 0 => \A i \in 1 .. k : net'[i].n = 0
      <3>1. \A i \in 1 .. k : i \in 1 .. W
        BY <1>2
      <3> QED
        BY <1>4, <1>7, <3>1
    <2>4. k <= W
      BY <1>2
    <2> QED
      BY <1>1, <1>3, <1>7, <2>1, <2>2, <2>3, <2>4 DEF Delivered
  <1>8. CASE net' = wire
    <2>1. W \in 0 .. W
      BY <1>2
    <2> QED
      BY <1>1, <1>2, <1>7, <1>8, <2>1
  <1>9. ASSUME NEW k \in 0 .. Len(wire) - 1, net' = First(wire, k) PROVE Delivered'
    <2>1. k \in 0 .. W
      BY <1>1, <1>2
    <2>2. /\ First(wire, k) \in Seq(Cells) /\ Len(First(wire, k)) = k
          /\ \A i \in 1 .. k : First(wire, k)[i] = wire[i]
      BY <1>1, <1>2, <2>1, CutFacts
    <2> QED
      BY <1>7, <1>9, <2>1, <2>2
  <1>10. ASSUME NEW d \in DOMAIN wire, sent > 0 => d > Word, net' = [wire EXCEPT ![d] = Damaged]
         PROVE  Delivered'
    <2>1. net' \in Seq(Cells) /\ Len(net') = W
      BY <1>1, <1>2, <1>10, CellFacts
    <2>2. \A i \in 1 .. W : net'[i] = IF i = d THEN Damaged ELSE wire[i]
      BY <1>1, <1>2, <1>10
    <2>3. sent > 0 =>
            /\ \A i \in 1 .. Word : net'[i] = SizeWord(net'[1].n)[i]
            /\ net'[1].n = ChunkSize
      <3> SUFFICES ASSUME sent > 0
                   PROVE  /\ \A i \in 1 .. Word : net'[i] = SizeWord(net'[1].n)[i]
                          /\ net'[1].n = ChunkSize
        OBVIOUS
      <3>1. \A i \in 1 .. Word : i \in 1 .. W /\ i # d
        BY <1>2, <1>10
      <3>2. \A i \in 1 .. Word : net'[i] = SizeWord(ChunkSize)[i]
        BY <1>5, <2>2, <3>1
      <3>3. net'[1].n = ChunkSize
        BY <1>6, <3>2, WordFacts
      <3> QED
        BY <3>2, <3>3
    <2>4. sent = 0 => \A i \in 1 .. W : net'[i].n = 0
      BY <1>4, <2>2 DEF Damaged
    <2>5. \A i \in Word + 1 .. W : net'[i] = wire[i] \/ net'[i] = Damaged
      <3>1. \A i \in Word + 1 .. W : i \in 1 .. W
        BY <1>2
      <3> QED
        BY <2>2, <3>1
    <2> QED
      BY <1>1, <1>2, <1>3, <2>1, <2>3, <2>4, <2>5 DEF Delivered
  <1>11. ASSUME NEW n \in 0 .. Len(wire), sent > 0, net' = SizeWord(n) \o After(wire, Word)
         PROVE  Delivered'
    <2>1. PICK h, a : h = SizeWord(n) /\ a = After(wire, Word)
      OBVIOUS
    <2>2. h \in Seq(Cells) /\ Len(h) = Word /\ n \in Nat
      BY <1>1, <1>2, <2>1, WordFacts
    <2>3. a \in Seq(Cells) /\ Len(a) = W - Word /\ \A i \in 1 .. W - Word : a[i] = wire[Word + i]
      <3>1. Word \in 0 .. W
        BY <1>2
      <3> QED
        BY <1>1, <1>2, <2>1, <3>1, CutFacts
    <2>4. net' \in Seq(Cells) /\ Joined(net', h, Word, a, W - Word)
      BY <1>11, <2>1, <2>2, <2>3, JoinFacts
    <2>5. Len(net') = W
      BY <1>2, <2>4 DEF Joined
    <2>6. \A i \in 1 .. Word : net'[i] = SizeWord(n)[i]
      BY <2>1, <2>4 DEF Joined
    <2>7. net'[1].n = n
      BY <1>6, <2>6, WordFacts
    <2>8. \A i \in Word + 1 .. W : net'[i] = wire[i]
      <3> TAKE i \in Word + 1 .. W
      <3>1. i - Word \in 1 .. W - Word /\ Word + (i - Word) = i
        BY <1>2
      <3> QED
        BY <2>3, <2>4, <3>1 DEF Joined
    <2> QED
      BY <1>1, <1>2, <1>3, <1>11, <2>4, <2>5, <2>6, <2>7, <2>8 DEF Delivered
  <1> QED
    BY <1>8, <1>9, <1>10, <1>11 DEF Transfer

-----------------------------------------------------------------------------
(* One chunk is read.                                                       *)

\* A reader that has loaded m data cells is at a full chunk or behind the last; with
\* another chunk size it is at the first, or at the end of what has arrived.
AtChunk(F, pos, m) ==
  /\ pos \in Nat /\ pos <= Len(net) /\ pos >= Word /\ m \in Nat
  /\ IF net[1].n = ChunkSize
     THEN sent > 0 /\ \E c \in 0 .. F : pos = ChunkStart(c) /\ m = Off(c)
     ELSE \/ pos = Len(net)
          \/ sent > 0 /\ pos = Word /\ m = 0 /\ Len(net) = Len(wire)

\* The first n cells are the data cells behind the first m.
IsData(d, m, n) == \A i \in 1 .. n : d[i] = DataCell(m + i)

\* A reader at pos takes a full chunk of s cells up to p and finds the checksum of d there.
TakesFull(F, pos, m, s, N, p, d) ==
  /\ AtChunk(F, pos, m) /\ s = net[1].n /\ N = Len(net)
  /\ p = pos + s + Word /\ p <= N /\ Len(d) = s /\ net[p] = CrcWord(d)[Word]

LEMMA FullChunkRead ==
  ASSUME NEW F, Closed(F), Delivered, NEW pos \in Nat, NEW m \in Nat, NEW s \in Nat,
         NEW N \in Nat, NEW p \in Nat, NEW d, TakesFull(F, pos, m, s, N, p, d)
  PROVE  IsData(d, m, s) /\ m + s <= sent /\ AtChunk(F, p, m + s)
  <1> USE DEF TakesFull, IsData
  <1>1. PICK W, len : W = Len(wire) /\ len = wtr.length
    OBVIOUS
  <1>2. /\ W \in Nat /\ N \in Nat /\ N <= W /\ F \in Nat /\ len \in Nat /\ len < ChunkSize
        /\ sent \in Nat /\ sent = Off(F) + len
        /\ sent > 0 => W = ChunkStart(F) + len + Word
    <2>1. N \in Nat /\ N <= W
      BY <1>1 DEF Delivered
    <2> QED
      BY <1>1, <2>1, ClosedFacts
  <1>3. /\ Word \in Nat /\ Word > 0 /\ ChunkSize \in Nat /\ ChunkSize > 0 /\ L = ChunkSize + Word
    BY Places
  <1>4. /\ pos \in Nat /\ pos >= Word /\ pos <= N /\ m \in Nat /\ p \in Nat /\ p = pos + s + Word /\ p <= N
        /\ s \in Nat
    <2>1. pos \in Nat /\ pos >= Word /\ pos <= N /\ m \in Nat
      BY <1>1 DEF AtChunk
    <2> QED
      BY <1>1, <1>3, <2>1
  <1>5. \/ p = W /\ d = Data(sent)
        \/ \E c \in 0 .. F - 1 : InChunkCrc(c, p) /\ d = Piece(c)
    <2>1. p \in Word + 1 .. N
      BY <1>2, <1>3, <1>4
    <2> QED
      BY <1>1, <2>1, ChecksumFound
  \* The checksum of the stream: its only chunk has another size.
  <1>6. CASE p = W /\ d = Data(sent)
    <2>1. s = sent /\ \A i \in 1 .. sent : d[i] = DataCell(i)
      BY <1>2, <1>6, DataFacts
    <2>2. s # ChunkSize
      <3> SUFFICES ASSUME s = ChunkSize PROVE FALSE
        OBVIOUS
      <3>1. PICK c \in 0 .. F : pos = ChunkStart(c)
        BY DEF AtChunk
      <3>2. c \in Nat /\ ChunkStart(c) \in Nat /\ ChunkStart(F) \in Nat /\ c <= F
        <4>1. c \in Nat /\ c <= F
          BY <1>2
        <4> QED
          BY <1>2, <4>1, Places
      <3>3. ChunkStart(c) + L = ChunkStart(F) + len + Word
        <4>1. W = ChunkStart(F) + len + Word
          BY <1>2, <1>3, <2>1
        <4>2. p = ChunkStart(c) + ChunkSize + Word
          BY <1>4, <3>1
        <4> QED
          BY <1>3, <1>6, <3>2, <4>1, <4>2
      <3>4. c # F
        BY <1>2, <1>3, <3>2, <3>3
      <3>5. ChunkStart(c) + L <= ChunkStart(F)
        BY <1>2, <3>2, <3>4, Places
      <3> QED
        BY <1>2, <1>3, <3>2, <3>3, <3>5
    <2>3. pos # N
      BY <1>2, <1>3, <1>4
    <2>4. m = 0
      BY <1>1, <2>2, <2>3 DEF AtChunk
    <2>5. p = N
      BY <1>2, <1>4, <1>6
    <2>6. p \in Nat /\ p >= Word /\ m + s \in Nat
      BY <1>3, <1>4
    <2>7. AtChunk(F, p, m + s)
      BY <1>1, <2>2, <2>5, <2>6 DEF AtChunk
    <2>8. m + s <= sent /\ \A i \in 1 .. s : m + i = i
      BY <1>2, <2>1, <2>4
    <2> QED
      BY <1>1, <2>1, <2>7, <2>8
  \* The checksum of a full chunk: it is the chunk at hand.
  <1>7. ASSUME NEW e \in 0 .. F - 1, InChunkCrc(e, p), d = Piece(e)
        PROVE  /\ \A i \in 1 .. s : d[i] = DataCell(m + i)
               /\ m + s <= sent
               /\ AtChunk(F, p, m + s)
    <2>0. e \in Nat /\ e < F /\ ChunkStart(e) \in Nat /\ Off(e) \in Nat
      <3>1. e \in Nat /\ e < F
        BY <1>2
      <3> QED
        BY <3>1, Places
    <2>1. s = ChunkSize /\ \A i \in 1 .. ChunkSize : d[i] = DataCell(Off(e) + i)
      BY <1>7, <2>0, PieceFacts
    <2>2. PICK c \in 0 .. F : pos = ChunkStart(c) /\ m = Off(c) /\ sent > 0
      BY <2>1 DEF AtChunk
    <2>3. c \in Nat /\ c <= F
      BY <1>2
    <2>4. ChunkStart(e) + ChunkSize < p /\ p <= ChunkStart(e) + L /\ p = ChunkStart(c) + L
      BY <1>3, <1>4, <1>7, <2>1, <2>2 DEF InChunkCrc
    <2>5. ~(c < e)
      <3> SUFFICES ASSUME c < e PROVE FALSE
        OBVIOUS
      <3>1. ChunkStart(c) + L <= ChunkStart(e)
        BY <2>0, <2>3, Places
      <3>2. PICK b : b = ChunkStart(e)
        OBVIOUS
      <3>3. b \in Nat /\ b + ChunkSize < p /\ p <= b
        BY <2>0, <2>4, <3>1, <3>2
      <3> QED
        BY <1>3, <1>4, <3>3
    <2>6. ~(e < c)
      <3> SUFFICES ASSUME e < c PROVE FALSE
        OBVIOUS
      <3>1. ChunkStart(e) + L <= ChunkStart(c) /\ ChunkStart(c) \in Nat
        BY <2>0, <2>3, Places
      <3>2. PICK a, b : a = ChunkStart(c) /\ b = ChunkStart(e)
        OBVIOUS
      <3>3. a \in Nat /\ b \in Nat /\ b + L <= a /\ a + L <= b + L
        BY <2>0, <2>4, <3>1, <3>2
      <3> QED
        BY <1>3, <3>3
    <2>7. c = e
      BY <2>0, <2>3, <2>5, <2>6
    <2>8. c + 1 \in 0 .. F /\ Off(c + 1) = m + s /\ ChunkStart(c + 1) = p
      <3>1. Off(c + 1) = Off(c) + ChunkSize /\ ChunkStart(c + 1) = ChunkStart(c) + L
        BY <2>3, Places
      <3> QED
        BY <1>2, <2>0, <2>1, <2>2, <2>3, <2>4, <2>7, <3>1
    <2>9. m + s <= sent
      <3>1. Off(e) + ChunkSize <= Off(F) /\ Off(F) \in Nat
        BY <1>2, <2>0, Places
      <3>2. PICK g : g = Off(F)
        OBVIOUS
      <3>3. m + ChunkSize <= g /\ g \in Nat /\ sent = g + len
        BY <1>2, <2>2, <2>7, <3>1, <3>2
      <3> QED
        BY <1>2, <1>3, <2>1, <3>3
    <2>10. AtChunk(F, p, m + s)
      <3>1. p >= Word /\ m + s \in Nat
        BY <1>3, <1>4
      <3> QED
        BY <1>4, <2>1, <2>2, <2>8, <3>1 DEF AtChunk
    <2> QED
      BY <2>1, <2>2, <2>7, <2>9, <2>10
  <1> QED
    BY <1>1, <1>5, <1>6, <1>7

IsAll(m, n) == m + n = sent

\* A reader at pos finds no full chunk, takes n cells up to the last word of the stream and
\* finds the checksum of x there, the m cells read before and these.
TakesLast(F, pos, m, s, N, n, d, x) ==
  /\ AtChunk(F, pos, m) /\ s = net[1].n /\ N = Len(net)
  /\ N < pos + s + Word /\ pos + n + Word = N
  /\ Joined(x, Data(m), m, d, n) /\ net[N] = CrcWord(x)[Word]

LEMMA LastChunkRead ==
  ASSUME NEW F, Closed(F), Delivered, NEW pos \in Nat, NEW m \in Nat, NEW s \in Nat,
         NEW N \in Nat, NEW n \in Nat, NEW d, NEW x, TakesLast(F, pos, m, s, N, n, d, x)
  PROVE  IsData(d, m, n) /\ IsAll(m, n)
  <1> USE DEF TakesLast, IsData, IsAll
  <1>1. PICK W, len : W = Len(wire) /\ len = wtr.length
    OBVIOUS
  <1>2. /\ W \in Nat /\ N \in Nat /\ N <= W /\ F \in Nat /\ len \in Nat /\ len < ChunkSize
        /\ sent \in Nat /\ sent = Off(F) + len
        /\ sent > 0 => W = ChunkStart(F) + len + Word
    <2>1. N \in Nat /\ N <= W
      BY <1>1 DEF Delivered
    <2> QED
      BY <1>1, <2>1, ClosedFacts
  <1>3. /\ Word \in Nat /\ Word > 0 /\ ChunkSize \in Nat /\ ChunkSize > 0 /\ L = ChunkSize + Word
    BY Places
  <1>4. /\ pos \in Nat /\ pos >= Word /\ m \in Nat /\ N = pos + n + Word /\ n \in Nat /\ s \in Nat
    BY <1>1 DEF AtChunk
  <1>5. \/ N = W /\ x = Data(sent)
        \/ \E c \in 0 .. F - 1 : InChunkCrc(c, N) /\ x = Piece(c)
    <2>1. N \in Word + 1 .. N
      BY <1>2, <1>3, <1>4
    <2> QED
      BY <1>1, <2>1, ChecksumFound
  <1>6. /\ Len(x) = m + n
        /\ \A i \in 1 .. m : x[i] = DataCell(i)
        /\ \A i \in 1 .. n : x[m + i] = d[i]
    <2>1. \A i \in 1 .. m : Data(m)[i] = DataCell(i)
      BY <1>4, DataFacts
    <2> QED
      BY <2>1 DEF Joined
  <1>7. CASE x = Data(sent)
    <2>1. Len(x) = sent /\ \A i \in 1 .. sent : x[i] = DataCell(i)
      BY <1>2, <1>7, DataFacts
    <2>2. \A i \in 1 .. n : m + i \in 1 .. sent
      BY <1>4, <1>6, <2>1
    <2> QED
      BY <1>6, <2>1, <2>2
  \* The checksum of a full chunk: a reader with this chunk size takes all of it, and none
  \* with another one gets there.
  <1>8. ASSUME NEW e \in 0 .. F - 1, InChunkCrc(e, N), x = Piece(e) PROVE FALSE
    <2>0. e \in Nat /\ e < F /\ ChunkStart(e) \in Nat /\ Off(e) \in Nat
      <3>1. e \in Nat /\ e < F
        BY <1>2
      <3> QED
        BY <3>1, Places
    <2>1. m + n = ChunkSize /\ \A i \in 1 .. ChunkSize : x[i] = DataCell(Off(e) + i)
      BY <1>6, <1>8, <2>0, PieceFacts
    <2>2. ChunkStart(e) + ChunkSize < N /\ N <= ChunkStart(e) + L /\ ChunkStart(e) + L <= ChunkStart(F)
      <3>1. ChunkStart(e) + L <= ChunkStart(F)
        BY <1>2, <2>0, Places
      <3> QED
        BY <1>8, <3>1 DEF InChunkCrc
    <2>3. sent > 0
      <3>1. Off(e) + ChunkSize <= Off(F) /\ Off(F) \in Nat
        BY <1>2, <2>0, Places
      <3> QED
        BY <1>2, <1>3, <2>0, <3>1
    <2>4. N # W
      <3>1. PICK a, g : a = ChunkStart(e) /\ g = ChunkStart(F)
        OBVIOUS
      <3>2. g \in Nat
        BY <1>2, <3>1, Places
      <3>3. N <= a + L /\ a + L <= g /\ W = g + len + Word
        BY <1>2, <2>2, <2>3, <3>1
      <3>4. a \in Nat
        BY <2>0, <3>1
      <3> QED
        BY <1>2, <1>3, <3>2, <3>3, <3>4
    <2>5. CASE s = ChunkSize
      <3>1. PICK c \in 0 .. F : pos = ChunkStart(c) /\ m = Off(c)
        BY <2>5 DEF AtChunk
      <3>2. c \in Nat
        BY <1>2
      <3>3. N < ChunkStart(c) + L /\ N = ChunkStart(c) + n + Word
        BY <1>1, <1>3, <1>4, <2>5, <3>1
      <3>4. CASE c < e
        <4>1. ChunkStart(c) + L <= ChunkStart(e) /\ ChunkStart(c) \in Nat
          BY <2>0, <3>2, <3>4, Places
        <4>2. PICK a, b : a = ChunkStart(c) /\ b = ChunkStart(e)
          OBVIOUS
        <4>3. a \in Nat /\ b \in Nat /\ a + L <= b /\ b + ChunkSize < N /\ N < a + L
          BY <2>0, <2>2, <3>3, <4>1, <4>2
        <4> QED
          BY <1>3, <4>3
      <3>5. CASE e < c
        <4>1. ChunkStart(e) + L <= ChunkStart(c) /\ ChunkStart(c) \in Nat
          BY <2>0, <3>2, <3>5, Places
        <4>2. PICK a, b : a = ChunkStart(c) /\ b = ChunkStart(e)
          OBVIOUS
        <4>3. a \in Nat /\ b \in Nat /\ b + L <= a /\ N <= b + L /\ N = a + n + Word
          BY <2>0, <2>2, <3>3, <4>1, <4>2
        <4> QED
          BY <1>3, <1>4, <4>3
      <3>6. CASE c = e
        <4>1. c # 0
          <5> SUFFICES ASSUME c = 0 PROVE FALSE
            OBVIOUS
          <5>1. m = 0
            BY <3>1, Places
          <5> QED
            BY <1>3, <1>4, <2>0, <2>1, <3>3, <3>6, <5>1
        <4>2. m > 0
          BY <3>1, <3>2, <4>1, Places
        <4>3. 1 \in 1 .. m /\ 1 \in 1 .. ChunkSize
          BY <1>3, <1>4, <4>2
        <4>4. x[1] = DataCell(1) /\ x[1] = DataCell(Off(e) + 1)
          BY <1>6, <2>1, <4>3
        <4>5. Off(e) + 1 = 1
          BY <4>4, CellFacts
        <4> QED
          BY <2>0, <3>1, <3>6, <4>2, <4>5
      <3> QED
        BY <2>0, <3>2, <3>4, <3>5, <3>6
    <2>6. CASE s # ChunkSize
      <3>1. pos # N
        BY <1>2, <1>3, <1>4
      <3> QED
        BY <1>1, <2>4, <2>6, <3>1 DEF AtChunk
    <2> QED
      BY <2>5, <2>6
  <1> QED
    BY <1>5, <1>7, <1>8

\* In a stream that arrived as it was written every checksum is that of what is before it.
LEMMA FullChunkMatches ==
  ASSUME NEW F, Closed(F), net = wire, sent > 0, NEW pos \in Nat, NEW m, AtChunk(F, pos, m),
         net[1].n = ChunkSize, NEW N \in Nat, N = Len(net), pos + L <= N,
         NEW d \in Seq(Cells), Len(d) = ChunkSize, \A i \in 1 .. ChunkSize : d[i] = net[pos + i],
         NEW w \in Seq(Cells), Len(w) = Word, \A i \in 1 .. Word : w[i] = net[pos + ChunkSize + i]
  PROVE  w = CrcWord(d)
  <1>1. PICK c \in 0 .. F : pos = ChunkStart(c)
    BY DEF AtChunk
  <1>2. PICK g, len : g = ChunkStart(F) /\ len = wtr.length
    OBVIOUS
  <1>3. /\ F \in Nat /\ c \in Nat /\ c <= F /\ len \in Nat /\ len < ChunkSize /\ N = g + len + Word
        /\ g \in Nat
    <2>1. F \in Nat /\ len \in Nat /\ len < ChunkSize /\ N = g + len + Word
      BY <1>2, ClosedFacts
    <2>2. g \in Nat
      BY <1>2, <2>1, Places
    <2>3. c \in Nat /\ c <= F
      BY <2>1
    <2> QED
      BY <2>1, <2>2, <2>3
  <1>4. Word \in Nat /\ ChunkSize \in Nat /\ L = ChunkSize + Word
    BY Places
  <1>5. c # F
    BY <1>1, <1>2, <1>3, <1>4
  <1>6. ChunkAt(wire, c)
    <2>1. c \in 0 .. F - 1
      BY <1>3, <1>5
    <2> QED
      BY <2>1, ClosedFacts
  <1>7. PICK P, v : P = Piece(c) /\ v = CrcWord(P)
    OBVIOUS
  <1>8. /\ P \in Seq(Cells) /\ P \in Seq(DataCells) /\ Len(P) = ChunkSize
        /\ \A i \in 1 .. ChunkSize : P[i] = DataCell(Off(c) + i)
    BY <1>3, <1>7, PieceFacts
  <1>9. d = P
    <2>1. \A i \in 1 .. ChunkSize : d[i] = P[i]
      BY <1>1, <1>6, <1>8 DEF ChunkAt
    <2> QED
      BY <1>8, <2>1, SameCells
  <1>10. v \in Seq(Cells) /\ Len(v) = Word
    BY <1>7, <1>8, WordFacts
  <1>11. w = v
    <2>1. \A i \in 1 .. Word : w[i] = v[i]
      BY <1>1, <1>6, <1>7 DEF ChunkAt
    <2> QED
      BY <1>10, <2>1, SameCells
  <1> QED
    BY <1>7, <1>9, <1>11

\* The n cells d and the checksum w after them are all that is left from pos on, and x is
\* the m cells before them and d.
IsTail(pos, m, N, n, d, x, w) ==
  /\ pos + n + Word = N /\ Window(d, net, pos, n) /\ Window(w, net, pos + n, Word)
  /\ x \in Seq(Cells) /\ Joined(x, Data(m), m, d, n)

LEMMA LastChunkMatches ==
  ASSUME NEW F, Closed(F), net = wire, sent > 0, NEW pos \in Nat, NEW m \in Nat, AtChunk(F, pos, m),
         net[1].n = ChunkSize, NEW N \in Nat, N = Len(net), N < pos + L
  PROVE  /\ pos + Word <= N
         /\ \A n \in Nat : \A d, x, w : IsTail(pos, m, N, n, d, x, w) => w = CrcWord(x)
  <1>1. PICK c \in 0 .. F : pos = ChunkStart(c) /\ m = Off(c)
    BY DEF AtChunk
  <1>2. PICK g, len : g = ChunkStart(F) /\ len = wtr.length
    OBVIOUS
  <1>3. /\ F \in Nat /\ c \in Nat /\ c <= F /\ len \in Nat /\ len < ChunkSize /\ N = g + len + Word
        /\ g \in Nat
    <2>1. F \in Nat /\ len \in Nat /\ len < ChunkSize /\ N = g + len + Word
      BY <1>2, ClosedFacts
    <2>2. g \in Nat
      BY <1>2, <2>1, Places
    <2>3. c \in Nat /\ c <= F
      BY <2>1
    <2> QED
      BY <2>1, <2>2, <2>3
  <1>4. Word \in Nat /\ ChunkSize \in Nat /\ L = ChunkSize + Word
    BY Places
  <1>5. c = F
    <2> SUFFICES ASSUME c < F PROVE FALSE
      BY <1>3
    <2>1. pos + L <= g
      BY <1>1, <1>2, <1>3, Places
    <2> QED
      BY <1>3, <1>4, <2>1
  <1>6. pos = g
    BY <1>1, <1>2, <1>5
  <1>7. pos + Word <= N
    BY <1>3, <1>4, <1>6
  <1>8. ASSUME NEW n \in Nat, NEW d, NEW x \in Seq(Cells), NEW w \in Seq(Cells), pos + n + Word = N,
               \A i \in 1 .. n : d[i] = net[pos + i], Joined(x, Data(m), m, d, n),
               Len(w) = Word, \A i \in 1 .. Word : w[i] = net[pos + n + i]
        PROVE  w = CrcWord(x)
    <2>1. n = len
      <3>1. g + n + Word = g + len + Word
        BY <1>3, <1>6, <1>8
      <3> QED
        BY <1>3, <1>4, <3>1
    <2>2. PICK D, v : D = Data(sent) /\ v = CrcWord(D)
      OBVIOUS
    <2>3. sent \in Nat /\ sent = m + n
      BY <1>1, <1>2, <1>5, <2>1, ClosedFacts
    <2>4. D \in Seq(Cells) /\ D \in Seq(DataCells) /\ Len(D) = m + n /\ \A i \in 1 .. m + n : D[i] = DataCell(i)
      BY <2>2, <2>3, DataFacts
    <2>5. x = D
      <3>1. \A i \in 1 .. n : d[i] = DataCell(m + i)
        <4>1. \A i \in 1 .. len : wire[g + i] = DataCell(Off(F) + i)
          BY <1>2, ClosedFacts
        <4> QED
          BY <1>1, <1>5, <1>6, <1>8, <2>1, <4>1
      <3>2. \A i \in 1 .. m : Data(m)[i] = DataCell(i)
        BY DataFacts
      <3>3. \A i \in 1 .. m : x[i] = DataCell(i)
        BY <1>8, <3>2 DEF Joined
      <3>4. \A i \in 1 .. n : x[m + i] = DataCell(m + i)
        BY <1>8, <3>1 DEF Joined
      <3>5. Len(x) = m + n /\ \A i \in 1 .. m + n : i \in 1 .. m \/ \E j \in 1 .. n : i = m + j
        BY <1>8 DEF Joined
      <3>6. \A i \in 1 .. m + n : x[i] = D[i]
        BY <2>4, <3>3, <3>4, <3>5
      <3> QED
        BY <2>4, <3>5, <3>6, SameCells
    <2>6. v \in Seq(Cells) /\ Len(v) = Word
      BY <2>2, <2>4, WordFacts
    <2>7. \A i \in 1 .. Word : w[i] = v[i]
      <3>1. Body = g + len
        <4>1. Body = N - Word
          BY ClosedFacts
        <4> QED
          BY <1>3, <1>4, <4>1
      <3>2. \A i \in 1 .. Word : wire[g + len + i] = v[i]
        BY <2>2, <3>1, ClosedFacts
      <3> QED
        BY <1>6, <1>8, <2>1, <3>2
    <2>8. w = v
      BY <1>8, <2>6, <2>7, SameCells
    <2> QED
      BY <2>2, <2>5, <2>8
  <1>9. ASSUME NEW n \in Nat, NEW d, NEW x, NEW w, IsTail(pos, m, N, n, d, x, w)
        PROVE  w = CrcWord(x)
    <2>1. /\ pos + n + Word = N /\ x \in Seq(Cells) /\ Joined(x, Data(m), m, d, n)
          /\ \A i \in 1 .. n : d[i] = net[pos + i]
          /\ w \in Seq(Cells) /\ Len(w) = Word /\ \A i \in 1 .. Word : w[i] = net[pos + n + i]
      BY <1>9 DEF IsTail, Window
    <2> QED
      BY <1>8, <2>1
  <1> QED
    BY <1>7, <1>9

-----------------------------------------------------------------------------
(* The reader.                                                              *)

IsReader(r) ==
  /\ r = [first |-> r.first, size |-> r.size, chunk |-> r.chunk, eof |-> r.eof,
          globalCrc |-> r.globalCrc, pos |-> r.pos]
  /\ r.first \in BOOLEAN /\ r.size \in Nat /\ r.chunk \in Seq(Cells) /\ r.eof \in BOOLEAN
  /\ r.globalCrc \in Seq(Cells) /\ r.pos \in Nat

\* A reader that has loaded m data cells and has not met the end.
Ready(F, r, m) ==
  /\ m \in Nat /\ r.globalCrc = Data(m)
  /\ IF r.first THEN r.pos = 0 /\ m = 0
     ELSE r.size = net[1].n + Word /\ AtChunk(F, r.pos, m)

\* Lengths: the place after at most n cells from pos on, and what is before a word.
LEMMA AtMost ==
  ASSUME NEW pos \in Nat, NEW n \in Nat, NEW N \in Nat, pos <= N
  PROVE  /\ pos + n \in Nat /\ (IF pos + n <= N THEN n ELSE N - pos) \in Nat
         /\ pos + (IF pos + n <= N THEN n ELSE N - pos) = IF pos + n <= N THEN pos + n ELSE N
         /\ pos + (IF pos + n <= N THEN n ELSE N - pos) <= N
  OBVIOUS

LEMMA WordLess ==
  ASSUME NEW pos \in Nat, NEW q \in Nat, NEW w \in Nat, q >= w
  PROVE  (q - w) \in Nat /\ (q - w) + w = q /\ pos + (q - w) + w = pos + q
  OBVIOUS

LEMMA ReadFullFacts ==
  ASSUME net \in Seq(Cells), NEW r, NEW pos \in Nat, pos = r.pos, NEW N \in Nat, N = Len(net), pos <= N,
         NEW n \in Nat, NEW g, g = ReadFull(r, n)
  PROVE  Window(g, net, pos, IF pos + n <= N THEN n ELSE N - pos)
  <1>1. PICK k, q : k = (IF pos + n <= N THEN n ELSE N - pos) /\ q = pos + n
    OBVIOUS
  <1>2. q \in Nat /\ k \in Nat /\ pos + k <= N /\ pos + k = IF q <= N THEN q ELSE N
    BY <1>1, AtMost
  <1>3. Min({q, N}) = pos + k
    BY <1>2, MinFacts
  <1>4. g = SubSeq(net, pos + 1, pos + k)
    BY <1>1, <1>3 DEF ReadFull
  <1>5. Window(g, net, pos, k)
    <2>1. pos + k <= Len(net)
      BY <1>2
    <2> QED
      BY <1>2, <1>4, <2>1, WindowFacts
  <1> QED
    BY <1>1, <1>5

\* The chunk size is read once.
LEMMA HeaderRead ==
  ASSUME NEW F, Closed(F), Delivered, NEW r, IsReader(r), NEW m, Ready(F, r, m),
         NEW h, h = AfterHeader(r), ~HeaderMissing(r)
  PROVE  /\ IsReader(h) /\ h.first = FALSE /\ h.globalCrc = r.globalCrc /\ h.eof = r.eof
         /\ net[1].n \in Nat /\ h.size = net[1].n + Word
         /\ AtChunk(F, h.pos, m)
  <1>1. PICK N, w : N = Len(net) /\ w = ReadFull(r, Word)
    OBVIOUS
  <1>2. /\ net \in Seq(Cells) /\ N \in Nat /\ N <= Len(wire) /\ Word \in Nat /\ Word > 0 /\ ChunkSize > 0
    BY <1>1, Places DEF Delivered
  <1>3. ASSUME N >= Word PROVE net[1].n \in Nat
    <2>1. 1 \in 1 .. N
      BY <1>2, <1>3
    <2>2. net[1] \in Cells
      BY <1>1, <1>2, <2>1
    <2> QED
      BY <2>2 DEF Cells
  <1>4. CASE ~r.first
    <2>1. h = r
      BY <1>4 DEF AfterHeader
    <2>2. r.size = net[1].n + Word /\ AtChunk(F, r.pos, m) /\ r.first = FALSE
      BY <1>4 DEF Ready, IsReader
    <2>3. N >= Word
      BY <1>1, <1>2, <2>2 DEF AtChunk
    <2> QED
      BY <1>3, <2>1, <2>2, <2>3
  <1>5. CASE r.first
    <2>1. r.pos = 0 /\ m = 0
      BY <1>5 DEF Ready
    <2>2. /\ w \in Seq(Cells) /\ Len(w) = (IF 0 + Word <= N THEN Word ELSE N - 0)
          /\ \A i \in 1 .. Len(w) : w[i] = net[0 + i]
      <3>1. PICK z : z = 0
        OBVIOUS
      <3>2. z \in Nat /\ z = r.pos /\ z <= N
        BY <1>2, <2>1, <3>1
      <3>3. Window(w, net, z, IF z + Word <= N THEN Word ELSE N - z)
        BY <1>1, <1>2, <3>2, ReadFullFacts
      <3> QED
        BY <3>1, <3>3 DEF Window
    <2>3. ~(Len(w) < Word)
      BY <1>1, <1>5 DEF HeaderMissing
    <2>4. N >= Word /\ Len(w) = Word /\ w[1] = net[1]
      <3>1. N >= Word
        BY <1>2, <2>2, <2>3
      <3>2. Len(w) = Word
        BY <1>2, <2>2, <3>1
      <3>3. 1 \in 1 .. Len(w) /\ 0 + 1 = 1
        BY <1>2, <3>2
      <3>4. w[1] = net[0 + 1]
        BY <2>2, <3>3
      <3> QED
        BY <3>1, <3>2, <3>3, <3>4
    <2>5. SizeOf(w) = net[1].n
      <3>1. 1 \in 1 .. Word
        BY <1>2
      <3> QED
        BY <2>4, <3>1, WordFacts DEF SizeOf
    <2>6. h = [r EXCEPT !.first = FALSE, !.pos = r.pos + Word, !.size = SizeOf(w) + Word]
      BY <1>1, <1>5 DEF AfterHeader
    <2>7. /\ h.first = FALSE /\ h.pos = 0 + Word /\ h.size = net[1].n + Word
          /\ h.chunk = r.chunk /\ h.eof = r.eof /\ h.globalCrc = r.globalCrc
          /\ h = [first |-> h.first, size |-> h.size, chunk |-> h.chunk, eof |-> h.eof,
                  globalCrc |-> h.globalCrc, pos |-> h.pos]
      <3>1. r = [first |-> r.first, size |-> r.size, chunk |-> r.chunk, eof |-> r.eof,
                 globalCrc |-> r.globalCrc, pos |-> r.pos]
        BY DEF IsReader
      <3> QED
        BY <2>1, <2>5, <2>6, <3>1
    <2>8. h.pos = Word /\ net[1].n \in Nat
      BY <1>2, <1>3, <2>4, <2>7
    <2>9. IsReader(h)
      <3>1. h.size \in Nat
        BY <1>2, <2>7, <2>8
      <3> QED
        BY <1>2, <2>7, <2>8, <3>1 DEF IsReader
    <2>10. AtChunk(F, Word, 0)
      <3>1. sent \in Nat /\ F \in Nat /\ (sent = 0 => Len(wire) = Word)
        BY ClosedFacts
      <3>2. Word = ChunkStart(0) /\ 0 = Off(0) /\ 0 \in 0 .. F
        BY <3>1, Places
      <3>3. CASE sent = 0
        <4>1. 1 \in 1 .. N
          BY <1>2, <2>4
        <4>2. net[1].n = 0
          BY <1>1, <3>3, <4>1 DEF Delivered
        <4>3. Word = N
          BY <1>2, <2>4, <3>1, <3>3
        <4> QED
          BY <1>1, <1>2, <4>2, <4>3 DEF AtChunk
      <3>4. CASE sent > 0
        <4>1. net[1].n = ChunkSize \/ Len(net) = Len(wire)
          BY <1>1, <2>4, <3>4 DEF Delivered
        <4> QED
          BY <1>1, <1>2, <2>4, <3>2, <3>4, <4>1 DEF AtChunk
      <3> QED
        BY <3>1, <3>3, <3>4
    <2> QED
      BY <2>1, <2>7, <2>8, <2>9, <2>10
  <1> QED
    BY <1>4, <1>5 DEF IsReader

\* What is read in front of a checksum, and the checksum.
LEMMA SplitFacts ==
  ASSUME NEW pos \in Nat, NEW q \in Nat, NEW g, Window(g, net, pos, q + Word)
  PROVE  Window(First(g, q), net, pos, q) /\ Window(After(g, q), net, pos + q, Word)
  <1>1. Word \in Nat
    BY Places
  <1>2. /\ g \in Seq(Cells) /\ Len(g) = q + Word /\ \A i \in 1 .. q + Word : g[i] = net[pos + i]
    BY DEF Window
  <1>3. PICK d, w : d = First(g, q) /\ w = After(g, q)
    OBVIOUS
  <1>4. /\ d \in Seq(Cells) /\ Len(d) = q /\ \A i \in 1 .. q : d[i] = g[i]
        /\ w \in Seq(Cells) /\ Len(w) = Len(g) - q /\ \A i \in 1 .. Len(g) - q : w[i] = g[q + i]
    <2>1. q \in 0 .. Len(g)
      BY <1>1, <1>2
    <2> QED
      BY <1>2, <1>3, <2>1, CutFacts
  <1>5. Len(g) - q = Word
    BY <1>1, <1>2
  <1>6. \A i \in 1 .. q : d[i] = net[pos + i]
    <2>1. \A i \in 1 .. q : i \in 1 .. q + Word
      BY <1>1
    <2> QED
      BY <1>2, <1>4, <2>1
  <1>7. \A i \in 1 .. Word : w[i] = net[pos + q + i]
    <2> TAKE i \in 1 .. Word
    <2>1. q + i \in 1 .. q + Word /\ pos + (q + i) = pos + q + i
      BY <1>1
    <2>2. g[q + i] = net[pos + (q + i)]
      BY <1>2, <2>1
    <2> QED
      BY <1>4, <1>5, <2>1, <2>2
  <1> QED
    BY <1>3, <1>4, <1>5, <1>6, <1>7 DEF Window

\* A reader whose caller got m data cells and whose chunk holds the next ones, with the
\* rest of the stream in front of it or at its end with all of the data.
Filled(F, r, m) ==
  LET k == m + Len(r.chunk)
  IN  /\ k <= sent
      /\ \A i \in 1 .. Len(r.chunk) : r.chunk[i] = DataCell(m + i)
      /\ IF r.eof THEN k = sent ELSE Ready(F, r, k)

\* What ReadChunk returns behind m data cells: such a reader or an error, and no error in a
\* stream that arrived as it was written.
Loaded(F, c, m) ==
  /\ IsReader(c.r)
  /\ c.ok => Filled(F, c.r, m)
  /\ net = wire /\ sent > 0 => c.ok

LEMMA FullChunkStep ==
  ASSUME NEW F, Closed(F), Delivered, NEW h, IsReader(h), NEW m \in Nat,
         ~h.first, ~h.eof, h.globalCrc = Data(m), NEW pos \in Nat, pos = h.pos, AtChunk(F, pos, m),
         NEW s \in Nat, s = net[1].n, h.size = s + Word, NEW N \in Nat, N = Len(net),
         NEW p \in Nat, p = pos + s + Word, p <= N,
         NEW g, Window(g, net, pos, s + Word), NEW c, c = FullChunk(h, g)
  PROVE  Loaded(F, c, m)
  <1>1. PICK d, w, x : d = First(g, s) /\ w = After(g, s) /\ x = h.globalCrc \o d
    OBVIOUS
  <1>2. Word \in Nat /\ Word > 0 /\ s + Word - Word = s /\ pos + (s + Word) = p
    <2>1. Word \in Nat /\ Word > 0
      BY Places
    <2> QED
      BY <2>1
  <1>3. /\ d \in Seq(Cells) /\ Len(d) = s /\ \A i \in 1 .. s : d[i] = net[pos + i]
        /\ w \in Seq(Cells) /\ Len(w) = Word /\ \A i \in 1 .. Word : w[i] = net[pos + s + i]
    <2>1. Window(d, net, pos, s) /\ Window(w, net, pos + s, Word)
      BY <1>1, SplitFacts
    <2> QED
      BY <2>1 DEF Window
  <1>4. /\ c.ok = (w = CrcWord(d))
        /\ c.r = [h EXCEPT !.pos = p, !.chunk = d, !.globalCrc = x]
    <2>1. PICK z : z = h.size - Word
      OBVIOUS
    <2>2. z = s
      BY <1>2, <2>1
    <2>3. /\ c.ok = ChunkCrcMatches(First(g, z), After(g, z))
          /\ c.r = [h EXCEPT !.pos = h.pos + h.size, !.chunk = First(g, z),
                             !.globalCrc = h.globalCrc \o First(g, z)]
      BY <2>1 DEF FullChunk
    <2>4. h.pos + h.size = p
      BY <1>2
    <2> QED
      BY <1>1, <2>2, <2>3, <2>4 DEF ChunkCrcMatches
  <1>5. /\ c.r.first = h.first /\ c.r.size = h.size /\ c.r.chunk = d /\ c.r.eof = h.eof
        /\ c.r.globalCrc = x /\ c.r.pos = p
        /\ c.r = [first |-> c.r.first, size |-> c.r.size, chunk |-> c.r.chunk, eof |-> c.r.eof,
                  globalCrc |-> c.r.globalCrc, pos |-> c.r.pos]
    <2>1. h = [first |-> h.first, size |-> h.size, chunk |-> h.chunk, eof |-> h.eof,
               globalCrc |-> h.globalCrc, pos |-> h.pos]
      BY DEF IsReader
    <2> QED
      BY <1>4, <2>1
  <1>6. Data(m) \in Seq(Cells) /\ Len(Data(m)) = m /\ \A i \in 1 .. m : Data(m)[i] = DataCell(i)
    BY DataFacts
  <1>7. x \in Seq(Cells) /\ Joined(x, Data(m), m, d, s)
    <2>1. x = Data(m) \o d
      BY <1>1
    <2> QED
      BY <1>3, <1>6, <2>1, JoinFacts
  <1>8. IsReader(c.r)
    BY <1>3, <1>5, <1>7 DEF IsReader
  <1>9. ASSUME c.ok
        PROVE  /\ m + s <= sent
               /\ \A i \in 1 .. s : d[i] = DataCell(m + i)
               /\ Ready(F, c.r, m + s)
    <2>1. net[p] = CrcWord(d)[Word]
      <3>1. Word \in 1 .. Word
        BY <1>2
      <3>2. w[Word] = net[pos + s + Word]
        BY <1>3, <3>1
      <3> QED
        BY <1>4, <1>9, <3>2
    <2>2. /\ \A i \in 1 .. s : d[i] = DataCell(m + i)
          /\ m + s <= sent /\ AtChunk(F, p, m + s)
      <3>1. Len(d) = s
        BY <1>3
      <3>2. TakesFull(F, pos, m, s, N, p, d)
        BY <2>1, <3>1 DEF TakesFull
      <3>3. IsData(d, m, s) /\ m + s <= sent /\ AtChunk(F, p, m + s)
        BY <3>2, FullChunkRead
      <3> QED
        BY <3>3 DEF IsData
    <2>3. x = Data(m + s)
      <3>1. PICK D, k : k = m + s /\ D = Data(k)
        OBVIOUS
      <3>2. D \in Seq(Cells) /\ Len(D) = m + s /\ \A i \in 1 .. m + s : D[i] = DataCell(i)
        <4>1. k \in Nat
          BY <3>1
        <4>2. D \in Seq(Cells) /\ Len(D) = k /\ \A i \in 1 .. k : D[i] = DataCell(i)
          BY <3>1, <4>1, DataFacts
        <4> QED
          BY <3>1, <4>2
      <3>3. Len(x) = m + s /\ \A i \in 1 .. m : x[i] = DataCell(i)
        BY <1>6, <1>7 DEF Joined
      <3>4. \A i \in 1 .. s : x[m + i] = DataCell(m + i)
        BY <1>7, <2>2 DEF Joined
      <3>5. \A i \in 1 .. m + s : i \in 1 .. m \/ \E j \in 1 .. s : i = m + j
        BY <1>7 DEF Joined
      <3>6. \A i \in 1 .. m + s : x[i] = D[i]
        BY <3>2, <3>3, <3>4, <3>5
      <3>7. x = D
        BY <1>7, <3>2, <3>3, <3>6, SameCells
      <3> QED
        BY <3>1, <3>7
    <2> QED
      BY <1>5, <2>2, <2>3 DEF Ready
  <1>10. ASSUME net = wire, sent > 0 PROVE c.ok
    <2>1. net[1].n = ChunkSize
      <3>1. 1 \in 1 .. Word
        BY <1>2
      <3>2. wire[1] = SizeWord(ChunkSize)[1]
        BY <1>10, <3>1, ClosedFacts
      <3>3. SizeWord(ChunkSize)[1].n = ChunkSize
        BY <3>1, WordFacts
      <3> QED
        BY <1>10, <3>2, <3>3
    <2>2. s = ChunkSize /\ pos + L <= N
      <3>1. L = ChunkSize + Word /\ ChunkSize \in Nat
        BY Places
      <3> QED
        BY <1>2, <2>1, <3>1
    <2>3. w = CrcWord(d)
      <3>1. Len(d) = ChunkSize /\ \A i \in 1 .. ChunkSize : d[i] = net[pos + i]
        BY <1>3, <2>2
      <3>2. \A i \in 1 .. Word : w[i] = net[pos + ChunkSize + i]
        BY <1>3, <2>2
      <3> QED
        BY <1>3, <1>10, <2>1, <2>2, <3>1, <3>2, FullChunkMatches
    <2> QED
      BY <1>4, <2>3
  <1> QED
    BY <1>3, <1>5, <1>8, <1>9, <1>10 DEF Loaded, Filled

LEMMA LastChunkStep ==
  ASSUME NEW F, Closed(F), Delivered, NEW h, IsReader(h), NEW m \in Nat,
         ~h.first, ~h.eof, h.globalCrc = Data(m), NEW pos \in Nat, pos = h.pos, AtChunk(F, pos, m),
         NEW s \in Nat, s = net[1].n, h.size = s + Word, NEW N \in Nat, N = Len(net),
         N < pos + s + Word, NEW q \in Nat, pos + q = N,
         NEW g, Window(g, net, pos, q), NEW c, c = LastChunk(h, g)
  PROVE  Loaded(F, c, m)
  <1>1. Word \in Nat /\ Word > 0 /\ Len(g) = q /\ g \in Seq(Cells)
    BY Places DEF Window
  <1>2. net = wire /\ sent > 0 => net[1].n = ChunkSize
    <2>1. 1 \in 1 .. Word
      BY <1>1
    <2>2. sent > 0 => wire[1] = SizeWord(ChunkSize)[1]
      BY <2>1, ClosedFacts
    <2>3. SizeWord(ChunkSize)[1].n = ChunkSize
      BY <2>1, WordFacts
    <2> QED
      BY <2>2, <2>3
  <1>3. h = [first |-> h.first, size |-> h.size, chunk |-> h.chunk, eof |-> h.eof,
             globalCrc |-> h.globalCrc, pos |-> h.pos]
    BY DEF IsReader
  <1>4. net = wire /\ sent > 0 =>
          /\ pos + Word <= N
          /\ \A n \in Nat : \A d, x, w : IsTail(pos, m, N, n, d, x, w) => w = CrcWord(x)
    <2> SUFFICES ASSUME net = wire, sent > 0
                 PROVE  /\ pos + Word <= N
                        /\ \A n \in Nat : \A d, x, w : IsTail(pos, m, N, n, d, x, w) => w = CrcWord(x)
      OBVIOUS
    <2>1. net[1].n = ChunkSize
      BY <1>2
    <2>2. N < pos + L
      <3>1. L = ChunkSize + Word /\ ChunkSize \in Nat
        BY Places
      <3> QED
        BY <1>1, <2>1, <3>1
    <2> QED
      BY <2>1, <2>2, LastChunkMatches
  <1>5. CASE q < Word
    <2>1. c.ok = FALSE /\ c.r = [h EXCEPT !.eof = TRUE, !.pos = h.pos + q, !.chunk = g]
      BY <1>1, <1>5 DEF LastChunk
    <2>2. IsReader(c.r)
      BY <1>1, <1>3, <2>1 DEF IsReader
    <2>3. ~(net = wire /\ sent > 0)
      BY <1>1, <1>4, <1>5
    <2> QED
      BY <2>1, <2>2, <2>3 DEF Loaded, Filled
  <1>6. CASE q >= Word
    <2>1. PICK n : n = q - Word
      OBVIOUS
    <2>2. n \in Nat /\ n + Word = q /\ pos + n + Word = N
      <3>1. Word \in Nat
        BY <1>1
      <3>2. (q - Word) \in Nat /\ (q - Word) + Word = q /\ pos + (q - Word) + Word = pos + q
        BY <1>6, <3>1, WordLess
      <3> QED
        BY <2>1, <3>2
    <2>3. PICK d, w, x : d = First(g, n) /\ w = After(g, n) /\ x = h.globalCrc \o d
      OBVIOUS
    <2>4. /\ d \in Seq(Cells) /\ Len(d) = n /\ \A i \in 1 .. n : d[i] = net[pos + i]
          /\ w \in Seq(Cells) /\ Len(w) = Word /\ \A i \in 1 .. Word : w[i] = net[pos + n + i]
      <3>1. Window(g, net, pos, n + Word)
        BY <2>2
      <3>2. Window(d, net, pos, n) /\ Window(w, net, pos + n, Word)
        BY <2>2, <2>3, <3>1, SplitFacts
      <3> QED
        BY <3>2 DEF Window
    <2>5. /\ c.ok = (w = CrcWord(x))
          /\ c.r = [h EXCEPT !.eof = TRUE, !.pos = h.pos + q, !.chunk = d, !.globalCrc = <<>>]
      <3>1. ~(Len(g) < Word)
        BY <1>1, <1>6
      <3>2. /\ c.ok = GlobalCrcMatches(h.globalCrc \o First(g, n), After(g, n))
            /\ c.r = [h EXCEPT !.eof = TRUE, !.pos = h.pos + q, !.chunk = First(g, n), !.globalCrc = <<>>]
        BY <1>1, <2>1, <3>1 DEF LastChunk
      <3> QED
        BY <2>3, <3>2 DEF GlobalCrcMatches
    <2>6. c.r.chunk = d /\ c.r.eof = TRUE
      BY <1>3, <2>5
    <2>7. IsReader(c.r)
      <3>1. /\ c.r.first = h.first /\ c.r.size = h.size /\ c.r.chunk = d /\ c.r.eof = TRUE
            /\ c.r.globalCrc = <<>> /\ c.r.pos = h.pos + q
            /\ c.r = [first |-> c.r.first, size |-> c.r.size, chunk |-> c.r.chunk, eof |-> c.r.eof,
                      globalCrc |-> c.r.globalCrc, pos |-> c.r.pos]
        BY <1>3, <2>5
      <3>2. <<>> \in Seq(Cells) /\ h.pos + q \in Nat
        BY <1>1
      <3> QED
        BY <2>4, <3>1, <3>2 DEF IsReader
    <2>8. x \in Seq(Cells) /\ Joined(x, Data(m), m, d, n)
      <3>1. Data(m) \in Seq(Cells) /\ Len(Data(m)) = m
        BY DataFacts
      <3>2. x = Data(m) \o d
        BY <2>3
      <3> QED
        BY <2>4, <3>1, <3>2, JoinFacts
    <2>9. ASSUME c.ok PROVE m + n = sent /\ \A i \in 1 .. n : d[i] = DataCell(m + i)
      <3>1. net[N] = CrcWord(x)[Word]
        <4>1. Word \in 1 .. Word
          BY <1>1
        <4>2. w[Word] = net[pos + n + Word]
          BY <2>4, <4>1
        <4> QED
          BY <2>2, <2>5, <2>9, <4>2
      <3>2. n \in Nat /\ pos + n + Word = N
        BY <2>2
      <3>3. Joined(x, Data(m), m, d, n)
        BY <2>8
      <3>4. TakesLast(F, pos, m, s, N, n, d, x)
        BY <3>1, <3>2, <3>3 DEF TakesLast
      <3>5. n \in Nat
        BY <2>2
      <3>6. IsData(d, m, n)
        BY <3>4, <3>5, LastChunkRead
      <3>7. IsAll(m, n)
        BY <3>4, <3>5, LastChunkRead
      <3> QED
        BY <3>6, <3>7 DEF IsData, IsAll
    <2>10. ASSUME net = wire, sent > 0 PROVE c.ok
      <3>1. w = CrcWord(x)
        <4>1. IsTail(pos, m, N, n, d, x, w)
          BY <2>2, <2>4, <2>8 DEF IsTail, Window
        <4> QED
          BY <1>4, <2>2, <2>10, <4>1
      <3> QED
        BY <2>5, <3>1
    <2>11. c.ok => m + n <= sent
      <3>1. sent \in Nat
        BY ClosedFacts
      <3> QED
        BY <2>9, <3>1
    <2> QED
      BY <2>4, <2>6, <2>7, <2>9, <2>10, <2>11 DEF Loaded, Filled
  <1> QED
    BY <1>1, <1>5, <1>6

LEMMA ChunkStep ==
  ASSUME NEW F, Closed(F), Delivered, NEW r, IsReader(r), NEW m \in Nat, Ready(F, r, m), ~r.eof
  PROVE  Loaded(F, ReadChunk(r), m)
  <1>1. PICK c, N, h : c = ReadChunk(r) /\ N = Len(net) /\ h = AfterHeader(r)
    OBVIOUS
  <1>2. /\ net \in Seq(Cells) /\ N \in Nat /\ Word \in Nat /\ Word > 0
    BY <1>1, Places DEF Delivered
  <1>3. CASE HeaderMissing(r)
    <2>1. c.ok = FALSE /\ c.r = [r EXCEPT !.pos = N]
      BY <1>1, <1>3 DEF ReadChunk
    <2>2. IsReader(c.r)
      <3>1. r = [first |-> r.first, size |-> r.size, chunk |-> r.chunk, eof |-> r.eof,
                 globalCrc |-> r.globalCrc, pos |-> r.pos]
        BY DEF IsReader
      <3> QED
        BY <1>2, <2>1, <3>1 DEF IsReader
    <2>3. ASSUME net = wire, sent > 0 PROVE FALSE
      <3>1. PICK z, w : z = 0 /\ w = ReadFull(r, Word)
        OBVIOUS
      <3>2. z \in Nat /\ z = r.pos /\ z <= N
        BY <1>2, <1>3, <3>1 DEF HeaderMissing, Ready
      <3>3. Window(w, net, z, IF z + Word <= N THEN Word ELSE N - z)
        BY <1>1, <1>2, <3>1, <3>2, ReadFullFacts
      <3>4. Word <= N
        <4>1. Body \in Nat /\ N = Body + Word
          BY <1>1, <1>2, <2>3, ClosedFacts
        <4> QED
          BY <1>2, <4>1
      <3>5. Len(w) = Word
        BY <1>2, <3>1, <3>3, <3>4 DEF Window
      <3>6. Len(w) < Word
        BY <1>3, <3>1 DEF HeaderMissing
      <3> QED
        BY <1>2, <3>5, <3>6
    <2> QED
      BY <1>1, <2>1, <2>2, <2>3 DEF Loaded, Filled
  <1>4. CASE ~HeaderMissing(r)
    <2>1. PICK pos, s, n : pos = h.pos /\ s = net[1].n /\ n = h.size
      OBVIOUS
    <2>2. /\ IsReader(h) /\ h.first = FALSE /\ h.globalCrc = Data(m) /\ ~h.eof
          /\ s \in Nat /\ n = s + Word /\ AtChunk(F, pos, m)
      <3>1. /\ IsReader(h) /\ h.first = FALSE /\ h.globalCrc = r.globalCrc /\ h.eof = r.eof
            /\ s \in Nat /\ n = s + Word /\ AtChunk(F, pos, m)
        BY <1>1, <1>4, <2>1, HeaderRead
      <3>2. r.globalCrc = Data(m)
        BY DEF Ready
      <3> QED
        BY <3>1, <3>2
    <2>3. pos \in Nat /\ pos <= N /\ n \in Nat
      BY <1>1, <1>2, <2>2 DEF AtChunk
    <2>4. PICK g : g = ReadFull(h, n)
      OBVIOUS
    <2>5. Window(g, net, pos, IF pos + n <= N THEN n ELSE N - pos)
      BY <1>1, <1>2, <2>1, <2>3, <2>4, ReadFullFacts
    <2>6. c = IF Len(g) = n THEN FullChunk(h, g) ELSE LastChunk(h, g)
      BY <1>1, <1>4, <2>1, <2>4 DEF ReadChunk
    <2>7. CASE pos + n <= N
      <3>1. Window(g, net, pos, s + Word) /\ Len(g) = n
        BY <2>2, <2>5, <2>7 DEF Window
      <3>2. c = FullChunk(h, g)
        BY <2>6, <3>1
      <3>3. PICK p : p = pos + s + Word
        OBVIOUS
      <3>4. p \in Nat /\ p <= N
        BY <1>2, <2>2, <2>3, <2>7, <3>3
      <3> QED
        BY <1>1, <1>2, <2>1, <2>2, <2>3, <3>1, <3>2, <3>3, <3>4, FullChunkStep
    <2>8. CASE ~(pos + n <= N)
      <3>1. PICK q : q = N - pos
        OBVIOUS
      <3>2. q \in Nat /\ pos + q = N /\ q # n
        BY <1>2, <2>3, <2>8, <3>1
      <3>3. Window(g, net, pos, q)
        BY <2>5, <2>8, <3>1
      <3>4. Len(g) = q
        BY <3>3 DEF Window
      <3>5. c = LastChunk(h, g)
        BY <2>6, <3>2, <3>4
      <3>6. N < pos + s + Word
        BY <1>2, <2>2, <2>3, <2>8
      <3> QED
        BY <1>1, <1>2, <2>1, <2>2, <2>3, <3>2, <3>3, <3>5, <3>6, LastChunkStep
    <2> QED
      BY <2>7, <2>8
  <1> QED
    BY <1>3, <1>4

-----------------------------------------------------------------------------
(* The inductive invariant.                                                 *)

\* Nothing has been read.
Unread ==
  /\ rdr = [first |-> TRUE, size |-> 0, chunk |-> <<>>, eof |-> FALSE, globalCrc |-> <<>>, pos |-> 0]
  /\ want = 0 /\ out = <<>> /\ failed = FALSE

\* The caller of Read got the first data cells, and the reader is where it should be behind
\* them as long as there was no error.
Got(F, r, o, w, f) ==
  /\ IsReader(r) /\ w \in Nat /\ o \in Seq(Cells) /\ f \in BOOLEAN
  /\ Len(o) <= sent /\ IsData(o, 0, Len(o))
  /\ ~f => Filled(F, r, Len(o))
  /\ net = wire /\ sent > 0 => ~f

Reading(F) == Closed(F) /\ Delivered /\ Got(F, rdr, out, want, failed)

Inv == \E F : Written(F) /\ IF rpc = "none" THEN Unread ELSE Reading(F)

\* A step that leaves the stream alone.
LEMMA ReadFrame ==
  ASSUME NEW F, Closed(F), Delivered, UNCHANGED <<wpc, toWrite, wtr, wire, sent, net>>,
         NEW r, r = rdr', NEW o, o = out', NEW w, w = want', NEW f, f = failed', Got(F, r, o, w, f)
  PROVE  Written(F)' /\ Reading(F)'
  <1>1. Written(F)'
    BY WriterFrame DEF Closed
  <1>2. Closed(F)'
    BY <1>1 DEF Closed
  <1>3. Delivered'
    BY DEF Delivered
  <1>4. Got(F, rdr, out, want, failed)'
    <2>1. \A pos, m : AtChunk(F, pos, m)' <=> AtChunk(F, pos, m)
      BY DEF AtChunk
    <2> QED
      BY DEF Got, Filled, Ready, AtChunk, IsReader, IsData
  <1> QED
    BY <1>1, <1>2, <1>3, <1>4 DEF Reading

\* Some cells of the chunk go to the caller.
GotSoFar(F, r, o) ==
  IsReader(r) /\ o \in Seq(Cells) /\ Len(o) <= sent /\ IsData(o, 0, Len(o)) /\ Filled(F, r, Len(o))

LEMMA CopyStep ==
  ASSUME NEW F, sent \in Nat, NEW r, NEW o, GotSoFar(F, r, o), NEW n \in 0 .. Len(r.chunk)
  PROVE  GotSoFar(F, [r EXCEPT !.chunk = After(r.chunk, n)], o \o First(r.chunk, n))
  <1>0. PICK p, q : p = o \o First(r.chunk, n) /\ q = [r EXCEPT !.chunk = After(r.chunk, n)]
    OBVIOUS
  <1>1. PICK ch, m, l : ch = r.chunk /\ m = Len(o) /\ l = Len(r.chunk)
    OBVIOUS
  <1>2. /\ ch \in Seq(Cells) /\ m \in Nat /\ l \in Nat /\ n \in Nat /\ n <= l /\ m <= sent
        /\ n \in 0 .. Len(ch)
    BY <1>1 DEF GotSoFar, IsReader
  <1>3. PICK a, b : a = First(ch, n) /\ b = After(ch, n)
    OBVIOUS
  <1>4. /\ a \in Seq(Cells) /\ Len(a) = n /\ \A i \in 1 .. n : a[i] = ch[i]
        /\ b \in Seq(Cells) /\ Len(b) = l - n /\ \A i \in 1 .. l - n : b[i] = ch[n + i]
    <2>1. ch \in Seq(Cells) /\ n \in 0 .. Len(ch)
      BY <1>2
    <2>2. /\ a \in Seq(Cells) /\ Len(a) = n /\ \A i \in 1 .. n : a[i] = ch[i]
          /\ b \in Seq(Cells) /\ Len(b) = Len(ch) - n /\ \A i \in 1 .. Len(ch) - n : b[i] = ch[n + i]
      BY <1>3, <2>1, CutFacts
    <2>3. Len(ch) = l
      BY <1>1
    <2> QED
      BY <2>2, <2>3
  <1>5. p \in Seq(Cells) /\ Joined(p, o, m, a, n)
    <2>1. p = o \o a
      BY <1>0, <1>1, <1>3
    <2> QED
      BY <1>1, <1>4, <2>1, JoinFacts DEF GotSoFar
  <1>6. Len(p) = m + n
    BY <1>5 DEF Joined
  <1>7. /\ m + l <= sent
        /\ \A i \in 1 .. l : ch[i] = DataCell(m + i)
        /\ IF r.eof THEN m + l = sent ELSE Ready(F, r, m + l)
    BY <1>1 DEF GotSoFar, Filled
  <1>8. IsData(p, 0, Len(p))
    <2>1. \A i \in 1 .. m : p[i] = DataCell(i)
      <3>1. \A i \in 1 .. m : o[i] = DataCell(0 + i)
        BY <1>1 DEF GotSoFar, IsData
      <3>2. \A i \in 1 .. m : 0 + i = i
        BY <1>2
      <3> QED
        BY <1>5, <3>1, <3>2 DEF Joined
    <2>2. \A i \in 1 .. n : p[m + i] = DataCell(m + i)
      <3>1. \A i \in 1 .. n : i \in 1 .. l
        BY <1>2
      <3> QED
        BY <1>4, <1>5, <1>7, <3>1 DEF Joined
    <2>3. \A i \in 1 .. m + n : i \in 1 .. m \/ \E j \in 1 .. n : i = m + j
      BY <1>5 DEF Joined
    <2>4. \A i \in 1 .. m + n : p[i] = DataCell(i)
      BY <2>1, <2>2, <2>3
    <2>5. \A i \in 1 .. m + n : 0 + i = i
      BY <1>2
    <2> QED
      BY <1>6, <2>4, <2>5 DEF IsData
  <1>9. /\ q.first = r.first /\ q.size = r.size /\ q.chunk = b /\ q.eof = r.eof
        /\ q.globalCrc = r.globalCrc /\ q.pos = r.pos
        /\ q = [first |-> q.first, size |-> q.size, chunk |-> q.chunk, eof |-> q.eof,
                globalCrc |-> q.globalCrc, pos |-> q.pos]
    <2>1. r = [first |-> r.first, size |-> r.size, chunk |-> r.chunk, eof |-> r.eof,
               globalCrc |-> r.globalCrc, pos |-> r.pos]
      BY DEF GotSoFar, IsReader
    <2>2. q = [r EXCEPT !.chunk = b]
      BY <1>0, <1>1, <1>3
    <2> QED
      BY <2>1, <2>2
  <1>10. IsReader(q)
    BY <1>4, <1>9 DEF GotSoFar, IsReader
  <1>11. Len(p) <= sent
    BY <1>2, <1>6, <1>7
  <1>12. Filled(F, q, Len(p))
    <2>1. PICK k : k = Len(p) + Len(q.chunk)
      OBVIOUS
    <2>2. k = m + l
      BY <1>2, <1>4, <1>6, <1>9, <2>1
    <2>3. \A i \in 1 .. l - n : b[i] = DataCell(m + n + i)
      <3> TAKE i \in 1 .. l - n
      <3>1. n + i \in 1 .. l /\ m + (n + i) = m + n + i
        BY <1>2
      <3> QED
        BY <1>4, <1>7, <3>1
    <2>4. IF q.eof THEN k = sent ELSE Ready(F, q, k)
      <3>1. Ready(F, r, m + l) => Ready(F, q, k)
        BY <1>9, <2>2 DEF Ready
      <3> QED
        BY <1>7, <1>9, <2>2, <3>1
    <2> QED
      BY <1>4, <1>6, <1>7, <1>9, <2>1, <2>2, <2>3, <2>4 DEF Filled
  <1>13. GotSoFar(F, q, p)
    BY <1>5, <1>8, <1>10, <1>11, <1>12 DEF GotSoFar
  <1> QED
    BY <1>0, <1>13

LEMMA ReadStep ==
  ASSUME NEW F, Reading(F), ReadLoop
  PROVE  Written(F)' /\ Reading(F)'
  <1>1. PICK r0, o, m, c : /\ r0 = rdr /\ o = out /\ m = Len(out)
                           /\ c = IF rdr.chunk = <<>> THEN ReadChunk(rdr) ELSE [ok |-> TRUE, r |-> rdr]
    OBVIOUS
  <1>2. PICK n : n = Min({Len(c.r.chunk), want})
    OBVIOUS
  <1>3. /\ want > 0 /\ ~failed /\ ~Exhausted
        /\ UNCHANGED <<wpc, toWrite, wtr, wire, sent, net, rpc, records, eof>>
        /\ c.ok => /\ out' = out \o First(c.r.chunk, n) /\ want' = want - n
                   /\ rdr' = [c.r EXCEPT !.chunk = After(c.r.chunk, n)] /\ failed' = failed
        /\ ~c.ok => failed' = TRUE /\ rdr' = c.r /\ out' = out /\ want' = want
    BY <1>1, <1>2 DEF ReadLoop
  <1>4. /\ Closed(F) /\ Delivered /\ IsReader(r0) /\ want \in Nat /\ o \in Seq(Cells) /\ m \in Nat
        /\ m <= sent /\ IsData(o, 0, m) /\ Filled(F, r0, m) /\ sent \in Nat
    <2>1. sent \in Nat
      BY DEF Reading, Closed, Written, WriterType
    <2> QED
      BY <1>1, <1>3, <2>1 DEF Reading, Got
  <1>5. Loaded(F, c, m)
    <2>1. CASE r0.chunk = <<>>
      <3>1. ~r0.eof
        BY <1>1, <1>3, <2>1 DEF Exhausted
      <3>2. Ready(F, r0, m)
        <4>1. m + Len(r0.chunk) = m
          BY <1>4, <2>1
        <4> QED
          BY <1>4, <3>1, <4>1 DEF Filled
      <3>3. c = ReadChunk(r0)
        BY <1>1, <2>1
      <3> QED
        BY <1>4, <3>1, <3>2, <3>3, ChunkStep
    <2>2. CASE r0.chunk # <<>>
      <3>1. c.ok = TRUE /\ c.r = r0
        BY <1>1, <2>2
      <3> QED
        BY <1>4, <3>1 DEF Loaded
    <2> QED
      BY <2>1, <2>2
  <1>6. CASE c.ok
    <2>1. IsReader(c.r) /\ Filled(F, c.r, m)
      BY <1>5, <1>6 DEF Loaded
    <2>2. n \in 0 .. Len(c.r.chunk) /\ want - n \in Nat
      <3>1. Len(c.r.chunk) \in Nat
        BY <2>1 DEF IsReader
      <3> QED
        BY <1>2, <1>4, <3>1, MinFacts
    <2>3. PICK q, p, w, f : q = rdr' /\ p = out' /\ w = want' /\ f = failed'
      OBVIOUS
    <2>4. p = o \o First(c.r.chunk, n) /\ q = [c.r EXCEPT !.chunk = After(c.r.chunk, n)]
      BY <1>1, <1>3, <1>6, <2>3
    <2>5. /\ IsReader(q) /\ p \in Seq(Cells) /\ Len(p) <= sent /\ IsData(p, 0, Len(p))
          /\ Filled(F, q, Len(p))
      <3>1. GotSoFar(F, c.r, o)
        BY <1>1, <1>4, <2>1 DEF GotSoFar
      <3>2. sent \in Nat /\ n \in 0 .. Len(c.r.chunk)
        BY <1>4, <2>2
      <3>3. GotSoFar(F, [c.r EXCEPT !.chunk = After(c.r.chunk, n)], o \o First(c.r.chunk, n))
        BY <3>1, <3>2, CopyStep
      <3>4. GotSoFar(F, q, p)
        BY <2>4, <3>3
      <3> QED
        BY <3>4 DEF GotSoFar
    <2>6. w \in Nat /\ f = FALSE
      <3>1. failed = FALSE
        BY <1>3 DEF Reading, Got
      <3> QED
        BY <1>3, <1>6, <2>2, <2>3, <3>1
    <2>7. Got(F, q, p, w, f)
      BY <2>5, <2>6 DEF Got
    <2> QED
      BY <1>3, <1>4, <2>3, <2>7, ReadFrame
  <1>7. CASE ~c.ok
    <2>1. PICK q, w, f : q = rdr' /\ w = want' /\ f = failed'
      OBVIOUS
    <2>2. q = c.r /\ o = out' /\ w \in Nat /\ f = TRUE
      BY <1>1, <1>3, <1>4, <1>7, <2>1
    <2>3. IsReader(q) /\ ~(net = wire /\ sent > 0)
      BY <1>5, <1>7, <2>2 DEF Loaded
    <2>4. Got(F, q, o, w, f)
      BY <1>1, <1>4, <2>2, <2>3 DEF Got
    <2> QED
      BY <1>3, <1>4, <2>1, <2>2, <2>4, ReadFrame
  <1> QED
    BY <1>6, <1>7

LEMMA InvInit == Init => Inv
  <1> SUFFICES ASSUME Init PROVE Inv
    OBVIOUS
  <1>1. /\ wpc = "open" /\ toWrite = 0 /\ wire = <<>> /\ sent = 0 /\ rpc = "none"
        /\ wtr = [first |-> TRUE, length |-> 0, chunkCrc |-> <<>>, globalCrc |-> <<>>]
    BY DEF Init
  <1>2. wtr.first = TRUE /\ wtr.length = 0 /\ wtr.chunkCrc = <<>> /\ wtr.globalCrc = <<>>
    BY <1>1
  <1>3. Body = 0
    BY <1>1 DEF Body
  <1>4. WriterType
    <2>1. RecLen \in Nat /\ ChunkSize \in Nat /\ ChunkSize > 0
      BY ArrowAssumption
    <2>2. <<>> \in Seq(DataCells) /\ <<>> \in Seq(Cells)
      OBVIOUS
    <2> QED
      BY <1>1, <1>2, <1>3, <2>1, <2>2 DEF WriterType
  <1>5. Sums
    <2>1. Data(0) \in Seq(DataCells) /\ Len(Data(0)) = 0
      BY DataFacts
    <2>2. Data(0) = <<>>
      BY <2>1
    <2> QED
      BY <1>1, <1>2, <2>2 DEF Sums
  <1>6. Layout(0)
    BY <1>1, <1>2, <1>3, Places DEF Layout
  <1>7. Footer
    BY <1>1 DEF Footer
  <1>8. Unread
    BY DEF Init, Unread
  <1> QED
    BY <1>1, <1>4, <1>5, <1>6, <1>7, <1>8 DEF Inv, Written

\* A reader that has read nothing is at the head of the stream.
LEMMA StartStep ==
  ASSUME NEW F, Closed(F), Unread, Transfer
  PROVE  Written(F)' /\ Reading(F)'
  <1>1. /\ UNCHANGED <<wpc, toWrite, wtr, wire, sent>>
        /\ rdr' = rdr /\ want' = want /\ out' = out /\ failed' = failed
    BY DEF Transfer
  <1>2. Written(F)' /\ Closed(F)'
    BY <1>1, WriterFrame DEF Closed
  <1>3. Delivered'
    BY TransferStep
  <1>4. sent \in Nat /\ sent' = sent
    BY <1>1 DEF Closed, Written, WriterType
  <1>5. /\ rdr' = [first |-> TRUE, size |-> 0, chunk |-> <<>>, eof |-> FALSE, globalCrc |-> <<>>, pos |-> 0]
        /\ want' = 0 /\ out' = <<>> /\ failed' = FALSE
    BY <1>1 DEF Unread
  <1>6. <<>> \in Seq(Cells) /\ Len(<<>>) = 0 /\ Data(0) = <<>>
    <2>1. Data(0) \in Seq(DataCells) /\ Len(Data(0)) = 0
      BY DataFacts
    <2> QED
      BY <2>1
  <1>7. IsReader(rdr)'
    BY <1>5, <1>6 DEF IsReader
  <1>8. Filled(F, rdr, 0)'
    <2>1. /\ rdr'.first = TRUE /\ rdr'.chunk = <<>> /\ rdr'.eof = FALSE
          /\ rdr'.globalCrc = <<>> /\ rdr'.pos = 0
      BY <1>5
    <2> QED
      BY <1>4, <1>6, <2>1 DEF Filled, Ready
  <1>9. Got(F, rdr, out, want, failed)'
    <2>1. Len(out') = 0
      BY <1>5, <1>6
    <2>2. Filled(F, rdr, Len(out))'
      BY <1>8, <2>1 DEF Filled, Ready
    <2>3. IsData(out, 0, Len(out))'
      BY <2>1 DEF IsData
    <2> QED
      <3>1. out' \in Seq(Cells) /\ Len(out') <= sent' /\ want' \in Nat
        BY <1>4, <1>5, <1>6, <2>1
      <3> QED
        BY <1>5, <1>7, <2>2, <2>3, <3>1 DEF Got
  <1> QED
    BY <1>2, <1>3, <1>9 DEF Reading

LEMMA InvNext == Inv /\ [Next]_vars => Inv'
  <1> SUFFICES ASSUME Inv, [Next]_vars PROVE Inv'
    OBVIOUS
  <1>1. PICK F : Written(F) /\ IF rpc = "none" THEN Unread ELSE Reading(F)
    BY DEF Inv
  \* The writer goes on only while nobody reads.
  <1>2. ASSUME wpc # "closed" PROVE rpc = "none" /\ Unread
    BY <1>1, <1>2 DEF Reading, Closed
  <1>3. ASSUME wpc # "closed", \E G : Written(G)',
               UNCHANGED <<rpc, want, rdr, out, failed>>
        PROVE  Inv'
    <2>1. rpc' = "none" /\ Unread'
      BY <1>2, <1>3 DEF Unread
    <2> QED
      BY <1>3, <2>1 DEF Inv
  <1>4. CASE WriteArrowRecord
    <2>1. Written(F)'
      BY <1>1, <1>4, FirstCall
    <2> QED
      BY <1>3, <1>4, <2>1 DEF WriteArrowRecord
  <1>5. CASE WriteLoop
    <2>1. \E G : Written(G)'
      BY <1>1, <1>5, LoopStep
    <2> QED
      BY <1>3, <1>5, <2>1 DEF WriteLoop
  <1>6. CASE WriteReturns
    <2>1. Written(F)'
      BY <1>1, <1>6, ReturnStep
    <2> QED
      BY <1>3, <1>6, <2>1 DEF WriteReturns
  <1>7. CASE WriterClose
    <2>1. Written(F)'
      BY <1>1, <1>7, CloseStep
    <2> QED
      BY <1>3, <1>7, <2>1 DEF WriterClose
  <1>8. CASE Transfer
    <2>1. Closed(F) /\ Unread /\ rpc' # "none"
      BY <1>1, <1>8 DEF Transfer, Closed
    <2>2. Written(F)' /\ Reading(F)'
      BY <1>8, <2>1, StartStep
    <2> QED
      BY <2>1, <2>2 DEF Inv
  \* Steps of RecordBatchReader, and those of nobody.
  <1>9. ASSUME rpc # "none", rpc' # "none",
               UNCHANGED <<wpc, toWrite, wtr, wire, sent, net, rdr, out, failed>>, want' \in Nat
        PROVE  Inv'
    <2>1. Closed(F) /\ Delivered /\ Got(F, rdr, out, want, failed)
      BY <1>1, <1>9 DEF Reading
    <2>2. PICK r, o, w, f : r = rdr' /\ o = out' /\ w = want' /\ f = failed'
      OBVIOUS
    <2>3. Got(F, r, o, w, f)
      BY <1>9, <2>1, <2>2 DEF Got
    <2>4. Written(F)' /\ Reading(F)'
      BY <1>9, <2>1, <2>2, <2>3, ReadFrame
    <2> QED
      BY <1>9, <2>4 DEF Inv
  <1>10. rpc # "none" => want \in Nat
    BY <1>1 DEF Reading, Got
  <1>11. CASE ReadMessage
    <2>1. RecLen \in Nat
      BY ArrowAssumption
    <2> QED
      BY <1>9, <1>11, <2>1 DEF ReadMessage
  <1>12. CASE ReadLoop
    <2>1. rpc = "read" /\ rpc' = rpc
      BY <1>12 DEF ReadLoop
    <2>2. Written(F)' /\ Reading(F)'
      BY <1>1, <1>12, <2>1, ReadStep
    <2> QED
      BY <2>1, <2>2 DEF Inv
  <1>13. CASE MessageReturned
    BY <1>9, <1>10, <1>13 DEF MessageReturned
  <1>14. CASE EOFReturned
    BY <1>9, <1>10, <1>14 DEF EOFReturned
  <1>15. CASE UNCHANGED vars
    <2>1. CASE rpc = "none"
      <3>1. Written(F)'
        BY <1>1, <1>15, WriterFrame DEF vars
      <3>2. rpc' = "none" /\ Unread'
        BY <1>1, <1>15, <2>1 DEF vars, Unread
      <3> QED
        BY <3>1, <3>2 DEF Inv
    <2>2. CASE rpc # "none"
      BY <1>9, <1>10, <1>15, <2>2 DEF vars
    <2> QED
      BY <2>1, <2>2
  <1> QED
    BY <1>4, <1>5, <1>6, <1>7, <1>8, <1>11, <1>12, <1>13, <1>14, <1>15 DEF Next

-----------------------------------------------------------------------------
(* The theorems.                                                            *)

\* However the data is cut into calls of ArrowStreamWriter.Write, for every chunk size and
\* every amount of data, a closed stream is the chunk size, the full chunks each with its
\* checksum, what is left and the checksum of everything.
THEOREM StreamsAreFramed == Spec => []StreamIsFramed
  <1>1. Inv => StreamIsFramed
    <2> SUFFICES ASSUME Inv, wpc = "closed" PROVE Framed(wire, sent)
      BY DEF StreamIsFramed
    <2>1. PICK F : Closed(F)
      BY DEF Inv, Closed
    <2> QED
      BY <2>1, ClosedIsFramed
  <1> QED
    BY <1>1, InvInit, InvNext, PTL DEF Spec

\* Whatever part of a stream arrives and whatever cell or chunk size was changed on the way,
\* ArrowStreamReader.Read hands out only what was written, from its start, and reports the
\* end only after all of it.
THEOREM ReadersAreFaithful == Spec => []ReadIsFaithful
  <1>1. Inv => ReadIsFaithful
    <2> SUFFICES ASSUME Inv PROVE ReadIsFaithful
      OBVIOUS
    <2>1. PICK F : Written(F) /\ IF rpc = "none" THEN Unread ELSE Reading(F)
      BY DEF Inv
    <2>2. PICK D : D = Data(sent)
      OBVIOUS
    <2>3. sent \in Nat /\ D \in Seq(Cells) /\ Len(D) = sent /\ \A i \in 1 .. sent : D[i] = DataCell(i)
      <3>1. sent \in Nat
        BY <2>1 DEF Written, WriterType
      <3> QED
        BY <2>2, <3>1, DataFacts
    <2>4. CASE rpc = "none"
      <3>1. out = <<>> /\ ~Exhausted
        BY <2>1, <2>4 DEF Unread, Exhausted
      <3>2. SubSeq(D, 1, 0) = <<>> /\ SubSeq(<<>>, 1, 0) = <<>> /\ Len(<<>>) = 0
        BY <2>3
      <3> QED
        BY <2>2, <2>3, <3>1, <3>2 DEF ReadIsFaithful, IsPrefix
    <2>5. CASE rpc # "none"
      <3>1. PICK o, k : o = out /\ k = Len(out)
        OBVIOUS
      <3>2. o \in Seq(Cells) /\ k = Len(o) /\ k \in Nat /\ k <= sent
        BY <2>1, <2>5, <3>1 DEF Reading, Got
      <3>3. \A i \in 1 .. k : o[i] = D[i]
        <4>1. \A i \in 1 .. k : o[i] = DataCell(0 + i)
          BY <2>1, <2>5, <3>1 DEF Reading, Got, IsData
        <4>2. \A i \in 1 .. k : 0 + i = i /\ i \in 1 .. sent
          BY <2>3, <3>2
        <4> QED
          BY <2>3, <4>1, <4>2
      <3>4. PICK a, b : a = SubSeq(o, 1, k) /\ b = SubSeq(D, 1, k)
        OBVIOUS
      <3>5. /\ a \in Seq(Cells) /\ Len(a) = k /\ \A i \in 1 .. k : a[i] = o[i]
            /\ b \in Seq(Cells) /\ Len(b) = k /\ \A i \in 1 .. k : b[i] = D[i]
        BY <2>3, <3>2, <3>4
      <3>6. a = b
        BY <3>3, <3>5, SameCells
      <3>7. IsPrefix(out, Data(sent))
        BY <2>2, <2>3, <3>1, <3>2, <3>4, <3>6 DEF IsPrefix
      <3>8. ASSUME Exhausted, ~failed PROVE out = Data(sent)
        <4>1. Filled(F, rdr, k)
          BY <2>1, <2>5, <3>1, <3>8 DEF Reading, Got
        <4>2. k + Len(rdr.chunk) = sent /\ rdr.chunk = <<>>
          BY <3>8, <4>1 DEF Filled, Exhausted
        <4>3. k = sent
          BY <3>2, <4>2
        <4> QED
          BY <2>2, <2>3, <3>1, <3>2, <3>3, <4>3, SameCells
      <3> QED
        BY <3>7, <3>8 DEF ReadIsFaithful
    <2> QED
      BY <2>4, <2>5
  <1> QED
    BY <1>1, InvInit, InvNext, PTL DEF Spec

\* A stream with data that arrives as ArrowStreamWriter wrote it passes every checksum of
\* ArrowStreamReader, for every chunk size, amount of data and way it was cut into calls.
THEOREM WholeStreamsAreRead == Spec => []RoundTrip
  <1>1. Inv => RoundTrip
    BY DEF Inv, Unread, Reading, Got, RoundTrip
  <1> QED
    BY <1>1, InvInit, InvNext, PTL DEF Spec
=============================================================================
