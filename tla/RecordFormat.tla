---------------------------- MODULE RecordFormat ----------------------------
(***************************************************************************)
(* A result row on its way from the storage server to a query of the host: *)
(* make_ssd_record() builds a SQLite record from it, serialize() and       *)
(* deserialize() carry its bytes over, InsertRecord() stores them and      *)
(* OP_Column reads the columns back.                                       *)
(*                                                                         *)
(* A byte has Byte values (256 in the code), so that every limit of the    *)
(* format is met by small numbers: a varint carries Byte \div 2 values per *)
(* byte and an integer of w bytes holds Byte^w values.                     *)
(***************************************************************************)
EXTENDS Integers, SequencesExt

CONSTANTS
  Byte,         \* values of a byte
  Magnitudes,   \* the integers in the rows are these and their complements
  Sizes,        \* lengths of the strings and blobs in the rows
  ZeroSizes,    \* lengths of the zeroblobs in the rows
  MaxFields     \* bound: columns of a row

ASSUME FormatAssumption ==
  /\ Byte \in Nat /\ Byte > 2 /\ Byte % 2 = 0
  /\ Magnitudes \subseteq 0..(Byte^8 \div 2) - 1
  /\ Sizes \subseteq Nat /\ ZeroSizes \subseteq Nat \ {0}
  /\ \A n \in Sizes \cup ZeroSizes : 2 * n + 13 < (Byte \div 2)^8
  /\ MaxFields \in Nat \ {0}

Half == Byte \div 2
Ints == Magnitudes \cup {-m - 1 : m \in Magnitudes}
Uninitialized == Byte  \* a byte that nothing was written to

\* A Mem: what it holds, its number u, its bytes z, and the zero bytes that
\* MEM_Zero puts after them.  A double is written as the integer it equals.
Mem(type, u, z, nZero) == [type |-> type, u |-> u, z |-> z, nZero |-> nZero]
Null == Mem("null", 0, <<>>, 0)
Bytes(n) == [k \in 1..n |-> k % Byte]
Zeros(n) == [k \in 1..n |-> 0]

Values ==
  {Null}
    \cup {Mem(t, i, <<>>, 0) : t \in {"int", "intreal", "real"}, i \in Ints}
    \cup {Mem(t, 0, Bytes(n), 0) : t \in {"str", "blob"}, n \in Sizes}
    \cup {Mem("blob", 0, <<>>, n) : n \in ZeroSizes}

Rows == UNION {[1..n -> Values] : n \in 1..MaxFields}

-----------------------------------------------------------------------------
\* Variable-length integers.
sqlite3VarintLen(v) == CHOOSE n \in 1..9 : v < Half^n /\ (n = 1 \/ v >= Half^(n - 1))

putVarint32(v) ==
  LET n == sqlite3VarintLen(v)
  IN  [k \in 1..n |-> ((v \div Half^(n - k)) % Half) + IF k < n THEN Half ELSE 0]

\* The varint at position at of a: its value and the position after it.
getVarint32(a, at) ==
  LET n == CHOOSE n \in 1..9 :
             (n = 9 \/ a[at + n - 1] < Half) /\ \A k \in 1..n - 1 : a[at + k - 1] >= Half
      value[k \in 0..n] == IF k = 0 THEN 0 ELSE value[k - 1] * Half + (a[at + k - 1] % Half)
  IN  [v |-> value[n], next |-> at + n]

-----------------------------------------------------------------------------
(***************************************************************************)
(* make_ssd_record().                                                      *)
(***************************************************************************)
mk_rec_file_format == 0  \* declared, read and never assigned

\* The serial type of an integer: how many bytes it takes.
FitsUnsigned(i, w) == i < Byte^w
Fits(i, w) == (IF i < 0 THEN -i - 1 ELSE i) < Byte^w \div 2

IntType(type, i) ==
  CASE Fits(i, 1) /\ i \in {0, 1} /\ mk_rec_file_format >= 4 -> 8 + i
    [] Fits(i, 1) /\ ~(i \in {0, 1} /\ mk_rec_file_format >= 4) -> 1
    [] ~Fits(i, 1) /\ Fits(i, 2) -> 2
    [] ~Fits(i, 2) /\ Fits(i, 3) -> 3
    [] ~Fits(i, 3) /\ Fits(i, 4) -> 4
    [] ~Fits(i, 4) /\ Fits(i, 6) -> 5
    [] ~Fits(i, 6) -> IF type = "intreal" THEN 7 ELSE 6

SerialType(mem) ==
  CASE mem.type = "null" -> 0
    [] mem.type \in {"int", "intreal"} -> IntType(mem.type, mem.u)
    [] mem.type = "real" -> 7
    [] mem.type = "blob" -> 2 * Len(mem.z) + 12 + 2 * mem.nZero
    [] mem.type = "str" -> 2 * Len(mem.z) + 13

SmallTypeSizes == <<1, 2, 3, 4, 6, 8, 8, 0, 0, 0, 0>>
sqlite3VdbeSerialTypeLen(t) ==
  IF t = 0 THEN 0 ELSE IF t < 12 THEN SmallTypeSizes[t] ELSE (t - 12) \div 2

\* The loop from the last field to the first that sizes the record.  The zero
\* bytes of a zeroblob count as data when data comes after them; the code that
\* would also write them is commented out.
Sized(mem, after) ==
  LET t == SerialType(mem)
      trailing == mem.nZero > 0 /\ after.nData = 0
  IN  [nData |-> after.nData + sqlite3VdbeSerialTypeLen(t) - IF trailing THEN mem.nZero ELSE 0,
       nZero |-> after.nZero + IF trailing THEN mem.nZero ELSE 0,
       nHdr |-> after.nHdr + sqlite3VarintLen(t)]

RecordSize(row) ==
  LET size[k \in 1..Len(row) + 1] ==
        IF k = Len(row) + 1 THEN [nData |-> 0, nZero |-> 0, nHdr |-> 0]
        ELSE Sized(row[k], size[k + 1])
  IN  size[1]

\* The size of the header with the varint that gives it.
HeaderSizeLong(n) ==
  LET nVarint == sqlite3VarintLen(n)
  IN  n + nVarint + IF nVarint <= sqlite3VarintLen(n + nVarint) THEN 1 ELSE 0
HeaderSize(n) ==
  IF n <= Half - 2 THEN n + 1
  ELSE LET nVarint == sqlite3VarintLen(n)
       IN  n + nVarint + IF nVarint < sqlite3VarintLen(n + nVarint) THEN 1 ELSE 0

\* Integers and doubles big-endian, strings and blobs without their zero tail.
sqlite3VdbeSerialPut(mem, t) ==
  IF t < 12
  THEN LET w == IF t \in {8, 9} THEN 0 ELSE sqlite3VdbeSerialTypeLen(t)
       IN  [k \in 1..w |-> (mem.u \div Byte^(w - k)) % Byte]
  ELSE mem.z

make_ssd_record(row) ==
  LET size    == RecordSize(row)
      nHdr    == HeaderSize(size.nHdr)
      nByte   == nHdr + size.nData
      type(k) == SerialType(row[k])
      header  == putVarint32(nHdr) \o FlattenSeq([k \in DOMAIN row |-> putVarint32(type(k))])
      payload == FlattenSeq([k \in DOMAIN row |-> sqlite3VdbeSerialPut(row[k], type(k))])
  IN  [n |-> nByte, nHdr |-> nHdr, nZero |-> size.nZero,
       zHdr |-> Len(header), zPayload |-> nHdr + Len(payload),
       z |-> [k \in 1..nByte |->
                IF k <= Len(header) THEN header[k]
                ELSE IF k > nHdr /\ k - nHdr <= Len(payload) THEN payload[k - nHdr]
                ELSE Uninitialized]]

\* serialize() and deserialize() carry n and n + 1 bytes of z; flags and
\* u.nZero stay behind, so InsertRecord() stores n bytes.
Stored(record) == record.z

-----------------------------------------------------------------------------
(***************************************************************************)
(* OP_Column on the host, for all columns of the row.                      *)
(***************************************************************************)
\* Two's complement, big-endian.
Signed(z) ==
  LET v[k \in 0..Len(z)] == IF k = 0 THEN 0 ELSE v[k - 1] * Byte + z[k]
  IN  IF z # <<>> /\ z[1] >= Half THEN v[Len(z)] - Byte^Len(z) ELSE v[Len(z)]

sqlite3VdbeSerialGet(z, t) ==
  CASE t \in {0, 10, 11} -> Null
    [] t \in 1..6 -> Mem("int", Signed(z), <<>>, 0)
    [] t = 7 -> Mem("real", Signed(z), <<>>, 0)
    [] t \in {8, 9} -> Mem("int", t - 8, <<>>, 0)
    [] t >= 12 -> Mem(IF t % 2 = 0 THEN "blob" ELSE "str", 0, z, 0)

\* The header is read up to the last column; the record is corrupt when the
\* header or the data does not end where it should.
Column(a, nCols) ==
  LET size == getVarint32(a, 1)
      parsed[k \in 0..nCols] ==
        IF k = 0 THEN [at |-> size.next, offset |-> size.v, t |-> 0]
        ELSE LET type == getVarint32(a, parsed[k - 1].at)
             IN  [at |-> type.next, t |-> type.v,
                  offset |-> parsed[k - 1].offset + sqlite3VdbeSerialTypeLen(type.v)]
      zHdr == parsed[nCols].at - 1
  IN  IF \/ zHdr >= size.v /\ (zHdr > size.v \/ parsed[nCols].offset # Len(a))
         \/ parsed[nCols].offset > Len(a)
      THEN [rc |-> "SQLITE_CORRUPT", columns |-> <<>>]
      ELSE [rc |-> "SQLITE_OK",
            columns |-> [k \in 1..nCols |->
              sqlite3VdbeSerialGet(SubSeq(a, parsed[k - 1].offset + 1, parsed[k].offset),
                                   parsed[k].t)]]

-----------------------------------------------------------------------------
(***************************************************************************)
(* What the host should read.  A number SQLite keeps as an integer for a   *)
(* REAL column arrives as that integer, or as the double when it takes     *)
(* eight bytes; zero bytes at the end of a blob arrive as bytes.           *)
(***************************************************************************)
Meant(mem) ==
  CASE mem.type = "intreal" -> Mem(IF Fits(mem.u, 6) THEN "int" ELSE "real", mem.u, <<>>, 0)
    [] mem.type = "blob" -> Mem("blob", 0, mem.z \o Zeros(mem.nZero), 0)
    [] OTHER -> mem

(***************************************************************************)
(* Zeroblobs: their zero bytes are not written, so what the host reads     *)
(* depends on whether data comes after them.                               *)
(***************************************************************************)
HasData(mem) == mem.type \in {"int", "intreal", "real"} \/ mem.z # <<>>
Zeroblobs(row) == {k \in DOMAIN row : row[k].nZero > 0}
Inner(row) == {k \in Zeroblobs(row) : \E j \in k+1..Len(row) : HasData(row[j])}

\* The bytes that are counted as data and not written.
Unwritten(row) == MapThenSumSet(LAMBDA k : row[k].nZero, Inner(row))

\* The columns before the first zeroblob.
Ahead(row) == {k \in DOMAIN row : \A j \in 1..k : row[j].nZero = 0}

=============================================================================
