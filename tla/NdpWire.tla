------------------------------ MODULE NdpWire ------------------------------
(***************************************************************************)
(* What the storage server and the host server share: the constants of an  *)
(* offloaded subquery and the TLS connection between the two processes.    *)
(*                                                                         *)
(* The rows the subquery selects are numbered 1..NRows in scan order and   *)
(* have NCols columns.  The connection is reliable and ordered, so it is a *)
(* sequence of packets that only grows (wire) and the number of packets    *)
(* the host has read from it (rcvd).  The two 4096-byte messages that come *)
(* before the packets, the subquery and the table schema, are flags.       *)
(***************************************************************************)
EXTENDS Integers, Sequences

CONSTANTS
  NRows,     \* rows in the result of the subquery
  NCols,     \* columns of that result
  NetCap     \* packets the sockets buffer before SSL_write blocks

ASSUME NRowsAssumption == NRows \in Nat
ASSUME NColsAssumption == NCols \in Nat \ {0}
ASSUME NetCapAssumption == NetCap \in Nat \ {0}

VARIABLES
  query_sent,   \* the host has written the subquery
  schema_sent,  \* the storage server has written the CREATE TABLE statement
  wire,         \* every record_batch packet written so far
  rcvd          \* how many of them the host has read

wireVars == <<query_sent, schema_sent, wire, rcvd>>

\* A serialized SQLite record: the row it was built from and the number of
\* fields that went into it.
Rec == [row : 0..NRows, nField : 0..NCols]

\* record_batch: serial_data holds num_records records one after another.
\* Only the host looks at pkt_type; TAB_PKT is declared and never sent.
Packet == [pkt_type : {"REC_PKT", "END_PKT"},
           num_records : Nat,
           serial_data : Seq(Rec)]

WireTypeOK ==
  /\ query_sent \in BOOLEAN
  /\ schema_sent \in BOOLEAN
  /\ wire \in Seq(Packet)
  /\ rcvd \in 0..Len(wire)

WireInit ==
  /\ query_sent = FALSE
  /\ schema_sent = FALSE
  /\ wire = <<>>
  /\ rcvd = 0

\* SSL_write of one packet: blocks while the socket buffers are full.
WritePacket(pkt) ==
  /\ Len(wire) - rcvd < NetCap
  /\ wire' = Append(wire, pkt)
  /\ UNCHANGED <<query_sent, schema_sent, rcvd>>

=============================================================================
