---------------------------- MODULE PacketStream ----------------------------
(***************************************************************************)
(* The messages from the storage server to the host over the TLS           *)
(* connection, byte by byte: the loops around SSL_write and SSL_read on    *)
(* the two sides (send and recv in the non-secure servers).                *)
(*                                                                         *)
(* Nothing on the connection marks where a message ends.  Both sides count *)
(* bytes: one schema message, then packets of RECV_BUF_SIZE bytes each.    *)
(* Calls transfer as many bytes as they like.  The storage server may end  *)
(* or fail at any point, which closes the connection.  That packets arrive *)
(* whole and in order, which the modules of the two servers take from      *)
(* NdpWire, is what this module shows.                                     *)
(***************************************************************************)
EXTENDS Integers, Sequences

CONSTANTS
  Messages,     \* messages the storage server writes, the schema first
  SchemaSize,   \* 4096 in the code
  PacketSize,   \* RECV_BUF_SIZE in the code
  SocketBytes,  \* bytes the sockets buffer
  MaxErrors     \* bound: calls of SSL_read that return -1

ASSUME StreamAssumption ==
  /\ {Messages, SchemaSize, PacketSize, SocketBytes} \subseteq Nat \ {0}
  /\ MaxErrors \in Nat

VARIABLES
  s_msg,      \* the message the storage server is writing
  s_nbuffer,  \* bytes of it written
  net,        \* bytes in the sockets: <<message, position>>
  closed,     \* the storage server has closed the connection
  r_nbuffer,  \* the host's count of bytes of the message it is reading
  buffer,     \* those bytes
  received    \* messages the host has read

vars == <<s_msg, s_nbuffer, net, closed, r_nbuffer, buffer, received>>

Size(i) == IF i = 1 THEN SchemaSize ELSE PacketSize
r_msg == Len(received) + 1
Whole(i) == [k \in 1..Size(i) |-> <<i, k>>]

Init ==
  /\ s_msg = 1 /\ s_nbuffer = 0
  /\ net = <<>> /\ closed = FALSE
  /\ r_nbuffer = 0 /\ buffer = <<>> /\ received = <<>>

\* One SSL_write of the rest of the message, which takes n bytes of it.  The
\* loop ends with the last byte; the next message starts from nbuffer = 0.
Write(n) ==
  /\ ~closed /\ s_msg <= Messages
  /\ n <= Size(s_msg) - s_nbuffer /\ n <= SocketBytes - Len(net)
  /\ net' = net \o [k \in 1..n |-> <<s_msg, s_nbuffer + k>>]
  /\ IF s_nbuffer + n = Size(s_msg)
     THEN s_msg' = s_msg + 1 /\ s_nbuffer' = 0
     ELSE s_nbuffer' = s_nbuffer + n /\ UNCHANGED s_msg
  /\ UNCHANGED <<closed, r_nbuffer, buffer, received>>

\* The end of the storage server's main, or of its process.
CloseConnection ==
  /\ ~closed
  /\ closed' = TRUE
  /\ UNCHANGED <<s_msg, s_nbuffer, net, r_nbuffer, buffer, received>>

\* What SSL_read is asked for, and the test of the loop around it.
WantedWhole(i, nbuffer) == Size(i)
Wanted(i, nbuffer) == Size(i) - nbuffer
ReadingPast(i, nbuffer) == nbuffer <= Size(i)
Reading(i, nbuffer) == nbuffer < Size(i)

\* One SSL_read that returns n bytes; with the last one the loop ends and the
\* message is copied out of the buffer.
Read(n) ==
  /\ r_msg <= Messages
  /\ n <= Wanted(r_msg, r_nbuffer) /\ n <= Len(net)
  /\ net' = SubSeq(net, n + 1, Len(net))
  /\ LET got == buffer \o SubSeq(net, 1, n)
     IN  IF Reading(r_msg, r_nbuffer + n)
         THEN buffer' = got /\ r_nbuffer' = r_nbuffer + n /\ UNCHANGED received
         ELSE buffer' = <<>> /\ r_nbuffer' = 0 /\ received' = Append(received, got)
  /\ UNCHANGED <<s_msg, s_nbuffer, closed>>

\* After the end of the stream SSL_read returns 0, which changes nothing, or
\* -1, which the loop adds to its count like any other result.
ReadFails ==
  /\ r_msg <= Messages /\ closed /\ net = <<>> /\ r_nbuffer > -MaxErrors
  /\ r_nbuffer' = r_nbuffer - 1
  /\ UNCHANGED <<s_msg, s_nbuffer, net, closed, buffer, received>>

WriteSome == \E n \in 1..PacketSize + SchemaSize : Write(n)
ReadSome == \E n \in 1..PacketSize + SchemaSize : Read(n)
Next == WriteSome \/ ReadSome \/ CloseConnection \/ ReadFails

\* Both processes run; nothing makes the storage server fail.
Spec == Init /\ [][Next]_vars /\ WF_vars(WriteSome) /\ WF_vars(ReadSome)

-----------------------------------------------------------------------------
\* The connection of NdpWire: a message is on the wire once its last byte is
\* written.  NetCap is as many messages as the sockets and the host's buffer
\* have room for.
W == INSTANCE NdpWire WITH
       NRows <- 0, NCols <- 1, query_sent <- TRUE, schema_sent <- TRUE,
       NetCap <- 1 + SocketBytes \div (IF SchemaSize < PacketSize THEN SchemaSize ELSE PacketSize),
       wire <- [i \in 1..s_msg - 1 |-> Whole(i)],
       rcvd <- Len(received)

\* The loops implement the connection the two servers are modelled over: a
\* message appears on the wire as a whole when there is room, the host's copy
\* (host_server.c:93-108, 308-312) is the next message on it, byte for byte,
\* and nothing else happens to either, whatever the calls transfer and when
\* ever the peer closes.
Sent(i) == W!WritePacket(Whole(i))
Copied == /\ received' = Append(received, Whole(r_msg))
          /\ r_msg <= s_msg - 1 /\ UNCHANGED s_msg
ImplementsWire == [][Copied \/ \E i \in 1..Messages : Sent(i)]_<<s_msg, received>>

\* Every message arrives unless the storage server closes the connection: the
\* two loops never wait for each other for ever (sec_ssd_server.c:158-164,
\* host_server.c:93-98).
AllDelivered == <>(Len(received) = Messages \/ closed)

=============================================================================
