---------------------------- MODULE HostPipeline ----------------------------
(***************************************************************************)
(* The host server of one offloaded query (host_server.c): main sends the  *)
(* subquery, creates the in-memory table from the schema it gets back, and *)
(* starts two threads.  producer_func reads packets from the connection    *)
(* into the ring pc_state; consumer_func takes them out and inserts their  *)
(* records in the table.  When both have been joined main runs the outer   *)
(* query on the table.                                                     *)
(***************************************************************************)
EXTENDS NdpWire

CONSTANT BufPoolSize   \* BUF_POOL_SIZE, slots of pc_state.record_pool

ASSUME BufPoolAssumption == BufPoolSize \in Nat \ {0}

VARIABLES
  h_main,                       \* where main is
  hp_pc, hp_batch,              \* producer and the batch it holds
  hc_pc, hc_batch, hc_next,     \* consumer, its batch, the next record in it
  h_head, h_tail, h_pool,       \* pc_state
  freed,                        \* batches the consumer has freed
  minus_one,                    \* the row the table has under rowid -1, 0 if none
  table,                        \* its other rows, which follow, in rowid order
  insert_ok                     \* no AddRawRecord has failed

hostMain == <<h_main>>
hostProd == <<hp_pc, hp_batch>>
hostCons == <<hc_pc, hc_batch, hc_next, freed, table, minus_one, insert_ok>>
hostRing == <<h_head, h_tail, h_pool>>
hostVars == <<hostMain, hostProd, hostCons, hostRing>>

NoPacket == [pkt_type |-> "REC_PKT", num_records |-> 0, serial_data |-> <<>>]

HInit ==
  /\ h_main = "send"
  /\ hp_pc = "off" /\ hp_batch = NoPacket
  /\ hc_pc = "off" /\ hc_batch = NoPacket /\ hc_next = 1
  /\ h_head = 0 /\ h_tail = 0
  /\ h_pool = [i \in 0..BufPoolSize-1 |-> NoPacket]
  /\ freed = 0
  /\ table = <<>> /\ minus_one = 0
  /\ insert_ok = TRUE

HAlive == h_main \notin {"exit", "failed"}

-----------------------------------------------------------------------------
(***************************************************************************)
(* main.                                                                   *)
(***************************************************************************)
HMainStep(from, to) ==
  /\ h_main = from
  /\ h_main' \in {to, "failed"}

\* Connect, open the in-memory database and write the subquery.
HMainSend ==
  /\ HMainStep("send", "schema")
  /\ query_sent' = (h_main' = "schema")
  /\ UNCHANGED <<hostProd, hostCons, hostRing, schema_sent, wire, rcvd>>

\* Read the schema and create the table.  If the storage server is gone,
\* SSL_read returns 0 for ever and this loop never ends.
HMainSchema ==
  /\ schema_sent
  /\ HMainStep("schema", "spawn_producer")
  /\ UNCHANGED <<hostProd, hostCons, hostRing, wireVars>>

HMainSpawnProducer ==
  /\ HMainStep("spawn_producer", "spawn_consumer")
  /\ hp_pc' = IF h_main' = "failed" THEN "off" ELSE "recv"
  /\ UNCHANGED <<hp_batch, hostCons, hostRing, wireVars>>

HMainSpawnConsumer ==
  /\ HMainStep("spawn_consumer", "join")
  /\ hc_pc' = IF h_main' = "failed" THEN "off" ELSE "take"
  /\ UNCHANGED <<hostProd, hc_batch, hc_next, freed, table, minus_one,
                 insert_ok, hostRing, wireVars>>

\* pthread_join(producer); pthread_join(consumer).
HJoinedProducer == hp_pc = "exit"
HJoined == hp_pc = "exit" /\ hc_pc = "exit"

HMainJoin ==
  /\ h_main = "join"
  /\ HJoined
  /\ h_main' = "query"
  /\ UNCHANGED <<hostProd, hostCons, hostRing, wireVars>>

\* Run the outer query on the table and return.
HMainQuery ==
  /\ h_main = "query"
  /\ h_main' = "exit"
  /\ UNCHANGED <<hostProd, hostCons, hostRing, wireVars>>

HMain == HMainSend \/ HMainSchema \/ HMainSpawnProducer \/ HMainSpawnConsumer
         \/ HMainJoin \/ HMainQuery

-----------------------------------------------------------------------------
(***************************************************************************)
(* producer_func.                                                          *)
(***************************************************************************)
HProducerRecv ==
  /\ HAlive
  /\ hp_pc = "recv"
  /\ rcvd < Len(wire)
  /\ hp_batch' = wire[rcvd + 1]
  /\ rcvd' = rcvd + 1
  /\ hp_pc' = "push"
  /\ UNCHANGED <<hostMain, hostCons, hostRing, query_sent, schema_sent, wire>>

\* while(pc_state.tail == pc_state.head + BUF_POOL_SIZE){};
HRoomUnchecked == TRUE
HRoomNoSize == h_tail # h_head
HRoom == h_tail # h_head + BufPoolSize

HProducerPush ==
  /\ HAlive
  /\ hp_pc = "push"
  /\ HRoom
  /\ h_pool' = [h_pool EXCEPT ![h_tail % BufPoolSize] = hp_batch]
  /\ hp_pc' = "publish"
  /\ UNCHANGED <<hostMain, hp_batch, hostCons, h_head, h_tail, wireVars>>

HProducerPublish ==
  /\ HAlive
  /\ hp_pc = "publish"
  /\ h_tail' = h_tail + 1
  /\ hp_pc' = "test"
  /\ UNCHANGED <<hostMain, hp_batch, hostCons, h_head, h_pool, wireVars>>

\* if (ssd_record_batch->pkt_type == END_PKT) break; -- a read of the batch
\* after it was handed over.  The consumer may have freed it by now.  The
\* allocator then owns the first bytes of the chunk, so a type that was
\* END_PKT may read as anything; an allocator link in a freed REC_PKT batch
\* is never the value 2.
HProducerTest ==
  /\ HAlive
  /\ hp_pc = "test"
  /\ \/ hp_batch.pkt_type = "END_PKT" /\ hp_pc' = "exit"
     \/ (hp_batch.pkt_type = "REC_PKT" \/ freed = h_tail) /\ hp_pc' = "recv"
  /\ UNCHANGED <<hostMain, hp_batch, hostCons, hostRing, wireVars>>

HProducer == HProducerRecv \/ HProducerPush \/ HProducerPublish \/ HProducerTest

-----------------------------------------------------------------------------
(***************************************************************************)
(* consumer_func and batch_deserialize_add().                              *)
(***************************************************************************)
FirstRecordZero == 0
FirstRecord == 1

HConsumerTake ==
  /\ HAlive
  /\ hc_pc = "take"
  /\ h_head # h_tail
  /\ hc_batch' = h_pool[h_head % BufPoolSize]
  /\ hc_next' = FirstRecord
  /\ hc_pc' = "release"
  /\ UNCHANGED <<hostMain, hostProd, freed, table, minus_one, insert_ok, hostRing,
                 wireVars>>

\* END_PKT leaves the loop, everything else is inserted.
AfterRelease == IF hc_batch.pkt_type = "END_PKT" THEN "free_end" ELSE "insert"

HConsumerRelease ==
  /\ HAlive
  /\ hc_pc = "release"
  /\ h_head' = h_head + 1
  /\ hc_pc' = AfterRelease
  /\ UNCHANGED <<hostMain, hostProd, hc_batch, hc_next, freed, table, minus_one,
                 insert_ok, h_tail, h_pool, wireVars>>

\* temp += step: the record after the ones already added.
NextRecordStuck == hc_batch.serial_data[1]
NextRecord == hc_batch.serial_data[hc_next]

\* AddRawRecord of one record under the rowid after the largest.  Its result
\* is dropped: when it fails the loop goes on with the next record.  When only
\* GetNewRowid fails, the -1 it returns is used as the rowid: the record goes in
\* front of all others, in the place of the one that was there.
HConsumerInsert ==
  /\ HAlive
  /\ hc_pc = "insert"
  /\ hc_next <= hc_batch.num_records
  /\ \/ table' = Append(table, NextRecord) /\ UNCHANGED <<minus_one, insert_ok>>
     \/ insert_ok' = FALSE /\ UNCHANGED <<table, minus_one>>
     \/ insert_ok' = FALSE /\ minus_one' = NextRecord.row /\ UNCHANGED table
  /\ hc_next' = hc_next + 1
  /\ UNCHANGED <<hostMain, hostProd, hc_pc, hc_batch, freed, hostRing, wireVars>>

HConsumerFree ==
  /\ HAlive
  /\ \/ /\ hc_pc = "insert" /\ hc_next > hc_batch.num_records
        /\ hc_pc' = "take"
     \/ hc_pc = "free_end" /\ hc_pc' = "exit"
  /\ freed' = freed + 1
  /\ UNCHANGED <<hostMain, hostProd, hc_batch, hc_next, table, minus_one,
                 insert_ok, hostRing, wireVars>>

HConsumer == HConsumerTake \/ HConsumerRelease \/ HConsumerInsert \/ HConsumerFree

Host == HMain \/ HProducer \/ HConsumer

=============================================================================
