------------------------- MODULE MCStoragePipeline -------------------------
(***************************************************************************)
(* Small instances of StoragePipeline.                                     *)
(***************************************************************************)
EXTENDS StorageInvariant, FiniteSetsExt

\* Records of one and of two bytes per field, so that packets of three bytes
\* hold one, two or three records and some records do not fit in the rest of
\* a packet.
MCRecLen == [r \in 1..NRows |-> [n \in 1..NCols |-> IF r = 2 THEN n + 1 ELSE n]]

\* No packet holds more bytes than its payload has.
PacketFits ==
  \A i \in 1..Len(wire) :
    LET recs == wire[i].serial_data
    IN  MapThenSumSet(LAMBDA j : SizeOf(recs[j]), DOMAIN recs) <= Payload

=============================================================================
