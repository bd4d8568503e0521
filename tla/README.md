# IronSafe in TLA+

IronSafe runs a SQL query on two machines. The *storage server*, next to the
data on an ARM board, runs the offloaded part of the query (the subquery: a scan
with filters) on an encrypted SQLite database and ships the rows it selects. The
*host server*, on an x86 machine, puts them in an in-memory SQLite table and
runs the rest of the query (the outer query, Q1) on that table. Around the two
stand a Merkle tree over the database pages, a policy compiler and checker, an
execution log and an attestation exchange.

This directory models the parts of the system that keep state (the two servers,
their connection, the Merkle tree, the encrypted pages and their journal, the
policy and logging servers, the scalability benchmark) and those that compute
something with many cases (the record format, the policy compiler and checker,
the hash's padding). TLC checks them on small instances. TLAPS proves the
central facts about the two servers, the logs and the benchmark for every size,
among them that the two servers together implement the query as its issuer sees
it.

## The parts of the system

| part | source | module | status |
|---|---|---|---|
| storage server, secure | `storage/secure/sec_ssd_server.c` | `StoragePipeline` | modelled |
| row copying and record building patched into SQLite | `storage/secure/sec_sqlite3.c` (OP_ResultRow, sqlite3_exec, make_ssd_record, serialize) | `StoragePipeline` (control), `RecordFormat` (bytes) | modelled |
| host server, secure | `host/secure/host_server.c` | `HostPipeline` | modelled |
| raw insertion patched into SQLite | `host/secure/host_sqlite3.c` (batch_deserialize_add, AddRawRecord, GetNewRowid, OP_Column) | `HostPipeline`, `RecordFormat` | partly: not the b-tree below |
| the connection | the loops around `SSL_write` and `SSL_read` | `PacketStream`, which implements `NdpWire` | partly: the storage server may close, the host does not |
| both servers, one query | both | `NdpSystem`, `OffloadedQuery` | modelled |
| non-secure servers | `storage/non-secure`, `host/non-secure` | same modules | partly: same threads and rings, translated from the secure files |
| Merkle tree | `merkle-tree/src/mt_impl.c`, `mt_arr_list.c` | `MerkleTree`, `TreeCalls` | partly: the operations the program uses, and `mt_update` |
| SHA-256 | `merkle-tree/src/sha224-256.c` | `Sha256` | modelled, the compression function left free |
| the tree's file | `serialize/mt_serialize.c` | `PageCodec` | modelled |
| the page codec | `sec_sqlite3.c` (sqlcipher_page_cipher) | `PageCodec` | modelled, the cipher ideal |
| the pager and its rollback journal | `sec_sqlite3.c` | `Pager` | partly: one connection, delete mode |
| policy compiler and checker | `policy-compiler/policy_compiler.py`, `policy_checker.py` | `PolicyCompiler`, `PolicyChecker` | modelled |
| policy server, use cases, logging server, execution log, clients | `policy-compiler/*.py` | `PolicyServer` | modelled |
| scalability benchmark | `benchmark/microbenchmark/scalability/multi_sqlite.c` | `MultiSqlite` | modelled |
| the rest of SQLite and SQLCipher, attestation timing, other benchmarks, plots | | | not modelled |

`PROJECT.json` gives the same list with reasons, the source lines of every
definition, and the hazards of the code at the lines where they bite.

## How the modules correspond to the code

### NdpWire

The constants of one query (rows `1..NRows`, `NCols` columns) and the
connection. A row is its number in scan order. A record is the row it was built
from and the number of fields that went into it: which rows arrive, in which
order and whether they are whole is all the properties tell apart. A packet is a
`record_batch`: type, `num_records`, and the records in `serial_data`. The
connection is a growing sequence `wire` and the count `rcvd` of packets read;
`NetCap` packets fit in the socket buffers before `SSL_write` blocks.

### StoragePipeline

    producer_func --rec_queue--> mk_rec_thread --record_pool--> consumer_func --> host

| code | model |
|---|---|
| `main`: read subquery, create the temporary table, ask for its schema, reply, create three threads, join the consumer, drop, return | `s_main`, actions `Main*`; every call whose failure makes main return may fail |
| `producer_func`, `sqlite3_exec`, `OP_ResultRow` | `p_pc`, actions `Producer*`: step, wait for room and store, publish, return from `sqlite3_step` (sets `num_rec_fields` after the first row), set `mk_rec_state.done` |
| `mk_rec_thread`, `make_ssd_record` | `m_pc`, actions `MkRec*`: busy wait, take a row, free its slot, build, wait for room and store, publish, set `pcs_state.done` |
| `consumer_func` | `c_pc`, actions `Consumer*`: busy wait, first record of a packet, further record if it fits, free the slot, send, send the end packet |
| `mk_rec_state`, `pcs_state` | `mk_*`, `pcs_*`; head and tail only grow, slots are indexed modulo the ring size |

The build uses no optimisation flag, so each iteration of a busy wait loads
again. Every load of a variable another thread writes is a step of its own:
`while (head == tail) if (done) break; if (done && head == tail) break;` is the
four positions `wait`, `spin`, `check`, `recheck`. A room wait (`tail == head +
SIZE`) has one shared load, of head, and is one step with the store behind it:
once it has seen room there is room until this thread publishes.

Head and tail are advanced with `__sync_fetch_and_add`, an atomic increment
with a full barrier, so a slot is written before tail moves past it and has been
read before head does: storing and publishing, reading and freeing, happen in
that order in the model too. The loads in the busy waits are plain. `WeakLoads =
FALSE` is a machine that satisfies them in program order. With `WeakLoads = TRUE`
the load of tail in the last test may have been satisfied before the load of done
(two plain loads of different variables with no barrier between them, which ARM
may reorder). A load of a slot satisfied before the load of tail that allows it
is not modelled; it would need a memory model of its own and would only add
outcomes to a run that is already a counterexample.

`rec_pkt` is a local that is never initialised: `num_records` starts as an
arbitrary value, and the end packet of an empty result carries it.

### HostPipeline

`h_main`, `hp_pc` (`producer_func`: read a packet, wait for room and store,
publish, test the type), `hc_pc` (`consumer_func`: take a batch, free its slot,
insert its records one by one, free the batch). `AddRawRecord`'s result is
dropped by the code, so an insertion is one of three outcomes: the row is
appended under the next rowid, it is lost, or, when only `GetNewRowid` fails, it
is stored under rowid -1, replacing what was there. A scan of the table meets
that row first: the table is `minus_one` (0 if there is no such row) followed by
`table`. `insert_ok` is false from the first insertion on that did not append.
`freed` counts the batches
the consumer has freed. The producer's test of the packet type comes after the
handover: if the batch has been freed by then, an end packet can read as
anything.

### NdpSystem and OffloadedQuery

`NdpSystem` conjoins the two processes over one `wire`. `OffloadedQuery` is the
promise to whoever issued the query: rows are scanned in order until the scan
ends or fails; rows reach the table in scan order, but that one row may come to
stand in front of the others, in place of the one that stood there; the answer
is computed once, after the scan is over, over a table that has every scanned
row unless an insertion failed. The refinement maps `scanned` to `mk_tail`,
`scan_over` to `mk_done`, `first` to `minus_one`, `rows` to the row numbers in
the rest of the table, `answered` to main having started the outer query.

### PacketStream

The same connection byte by byte. Nothing on it marks the end of a message: both
sides count, one schema message and then packets of `RECV_BUF_SIZE` bytes. A call
transfers any number of bytes; the storage server may close at any point. After
that `SSL_read` returns 0 or -1, and the host's loop adds the -1 to its count
(`ReadFails`). `ImplementsWire` states that the loops do what `NdpWire` lets the
servers assume: a message appears on the wire whole, and the host's copy is the
next one, byte for byte.

### RecordFormat

`make_ssd_record`'s two loops (sizes, then bytes), the varints, the serial types
and what `OP_Column` makes of the stored bytes, as operators on rows. A byte has
`Byte` values, four in the run, so that every limit of the format (varints of
more bytes, each integer width) is met by small numbers.

### MerkleTree and TreeCalls

The library is called from one thread, so a call is one step (`Add`, `Update` of
`TreeCalls`) and its loops are folds over the levels. An array of
`mt_arr_list.c` is its elements and the number of elements its memory has room
for; the code keeps no such number and grows an array when its length is a power
of two. A digest is a term (a leaf's tag, or the pair of two digests), so two
digests are equal only when they hash the same leaves: SHA-256 is taken to be
free of collisions.

`oom` chooses a level whose array cannot grow during the call. The code has then
already stored and counted the leaf and perhaps updated some levels, and so has
the model; `intact` records that every call so far has succeeded, and the runs go
on calling a tree that is not. `"ABORT"` is a failed assertion (the default build
keeps them) or the use of a null pointer, and ends the run of the program.
`mt_verify` and `mt_get_root` change nothing and are operators that the
properties apply in every state.

### Sha256

The context of `sha224-256.c`: octets given in pieces, blocks, padding, the two
length words with their carry, `Computed` and `Corrupted`. The compression
function is free: the intermediate hash is the sequence of blocks it was given,
so `DigestExact` compares with the padded message and not with a number.

### PageCodec and Pager

`PageCodec` has what `sqlcipher_page_cipher` stores for a page (its content, its
tag, the number of the tag's leaf) and what it makes of a stored page, with every
failing call, and the file of the tree. `Pager` puts it under SQLite's pager.

| code | model |
|---|---|
| `Pager.eState`, `errCode`, `dbSize`; the page cache with `PGHDR_DIRTY`, `NEED_SYNC`, `WRITEABLE` | `eState`, `errCode`, `dbSize`, `cache` |
| the database file; the journal, its headers and its records | `file`, `jrnl` (`counted`: the records the headers count, `synced`: those before `journalHdr`) |
| `num_blocks` and the tree of the codec's context, in the memory of the process; the file of the tree | `codec`; `saved` |
| what the entry points return | `rc` |
| `sqlite3PagerSharedLock` with hot-journal playback, `Get`, `Begin`, `Write`, `CommitPhaseOne`, `CommitPhaseTwo`, `Rollback`, `pagerStress`, `pagerUnlockAndRollback` | actions of those names |
| pcache letting go of a clean page | `Recycle` |
| the program that fills the database saves its tree | `SaveTree` (external: nothing in the repository calls `serialize_mt`; `create_db.sh` runs the program that does) |
| that program ends or stops, wherever it is, and the server opens the database and reads the tree | `Restart` |

An entry point runs to its end before the next is called, so each is one step.
`Durable` says of every state what a reader finds after playing back the journal
there, with the tree there is: the one in memory, and after `Restart` the one
that was saved. It is not evaluated between two writes of one call; `pagerStress`
writes single pages, and a failing write ends `CommitPhaseOne` after any number
of pages, which gives the states in between. `image` and `committed` are the
contents the layer above has written and last committed.

A codec call that fails sets `errCode` and the error state, but hands back a
buffer of zeros that the calling function goes on with; the model does the same.
What stops it is the next look at `errCode`. In `CommitPhaseOne` that is the lock
`syncJournal` asks for, so zeros that were journalled for the change counter's
page never count as a record. A codec call returns NULL only when the key cannot
be derived; the key is there once page 1 has been read, which comes before any
write, so that return is not modelled.

These calls may fail, too: opening the journal ("open"); writing a record, which
leaves the page dirty and not writeable ("io"); in `syncJournal` the first sync
or the header ("first"), the second sync, with the header already there
("second"), or the header of the next segment ("header"); writing a page ("io");
syncing the file ("file"). The layer above answers an error with a rollback, as
`sqlite3VdbeHalt` does for a statement without a savepoint: after `rc = "ERROR"`
only `sqlite3PagerRollback` and the unlock follow.

`Durable` has two halves. As long as every tag is in the tree under the number
its page has (`whole` and `TagsNumbered`), what is found is what was committed. It
is not after an `mt_add` that failed above the leaves ("parent": the leaf stays
and `num_blocks` is not advanced, so later pages get the number of another
leaf), nor after a stop with a tree that was not saved since its last change.
Pages are then lost; the second half says that such a page is refused, and that
none is read as anything but its committed content.

### PolicyCompiler, PolicyChecker, Computations

`compile_policy` on a sequence of predicates with their parentheses and signs;
the functions of `policy_checker.py` on a version database, a policy, a node and
an identity file. Versions are numerals compared as Python compares strings; a
location is a region and whether it is written in upper case, which the checker
removes from the policy's and not from the node's; an exception is an outcome.
`Computations` runs the parts that keep no state
(compiler, checker, the way of a row) on every input of the instance and
compares each answer with a reference.

### PolicyServer

A process of `policy_server.py` or `logging_server.py` serves one client and
ends, so a service is a series of runs that share a port and a log. Each run is
bind, accept, receive and decide, open, write, sync, reply, close; each file
operation is a step. Clients connect whenever they like, and wait in the backlog
of the run that has the port. Exceptions end a run; `Kill` ends one anywhere;
`PowerLoss` ends all of them and leaves of each file the synced content or as
much of the later as was written back. `acked` records who was told Success.

### MultiSqlite

`main`'s creating and joining loops and each worker's open, key, barrier, query
and store, every call failing where it can.

### StorageInvariant, NdpInvariant and the proof modules

The inductive invariants of `StoragePipeline` and of `NdpSystem`.
`StoragePipelineProofs`, `NdpSystemProofs` (on `NdpStorageSteps` and
`NdpHostSteps`, which hold the lemmas on the steps of either server),
`PolicyServerProofs` and `MultiSqliteProofs` hold the proofs, see below.

## Runs

| run | instance | what it shows |
|---|---|---|
| `storage` (pass) | 6 rows, 2 columns, rings of 2, packets of 4 bytes, records of 1 to 3 bytes, 1 packet in the sockets | `NoSlotRace`; `InOrder`: each row once, in scan order, counts right, nothing after the end packet; `EndComplete`: no published row is missing when the end packet is out; `JoinCoversAllThreads`: joining the consumer is enough; `OnlyFirstRowShort`; `PacketFits`; `IndInv`, the inductive invariant, types included; `ServerFinishes` |
| `system` (pass) | 4 rows, all rings of 2 | `SysInv`, the inductive invariant, types included; `TableFollowsScan`: no row is in the table twice, the one under rowid -1 included, the others are in scan order, and without a failed insertion they are an initial segment of the scan; `OuterQuerySeesAllRows`; `HostNoSlotRace`; `AllRowsArrive`; `ImplementsQuery`, the refinement |
| `packet_stream` (pass) | 6 messages of 3 and 4 bytes, 9 bytes in the sockets | `ImplementsWire`; `AllDelivered`: every message arrives unless the storage server closes |
| `merkle` (pass) | up to 9 leaves, 2 tags, 6 levels; messages up to 35 octets, blocks of 5, words of 16 values | `LibTypeOK`; `RootIsHash`: the root kept up to date path by path is the hash of the leaves, given by a recursive reference definition; `VerifyExact`: `mt_verify` accepts the stored tag and, also after failed additions, no other; `StoreFits`; `ElemsCountsLeaves`: the two sizes that a tree made by `mt_create` keeps agree, also after failures; `CallsSucceed`: short of memory aside, calls with a legal offset succeed and no assertion fails; `DigestExact`: however a message is cut into calls, the padded message is compressed; `TooLongCorrupted`: a message that is too long leaves an error, whichever, in the context |
| `pager` (pass) | 2 pages, 2 contents, 6 leaves, every fault at every place | `TypeOK`, with the numbers of records the headers count; `CacheExact`: a cached page is what was last written, through spilling, reading back and rollback; `Durable`: wherever the pager stops, what is found after recovery is what was last committed, or is refused where the tree lacks a tag |
| `computations` (pass) | 4 predicates, 2 firmwares, versions 2, 9 and 10, rows of 2 values, zeroblobs among them, at the limits of every serial type | `CompiledMeans`; `GrantsAsDocumented`; `VerdictForKnownNode`; `SizesExact`: the assertions of `make_ssd_record`; `RoundTrip`: the host reads the values the storage server had; each with the departures below |
| `policy_server` (pass) | 2 runs, 3 clients, all use cases, 2 crashes | `OneEntry`: what use case 3 reads comes from one entry; `PolicyDurable` and `LogDurable`: who was told Success has their entry on the disk; `ServerInv`, the inductive invariant, types included; `ClientEnds` |
| `multi_sqlite` (pass) | 3 threads | `StartTogether`; `FreedLast`; `EndsOrUnset` |
| `tree_capacity` (violation) | arrays of at most 8 | `NoAssertionFails` fails: finding 4 |
| `field_count` (violation) | 2 rows | `AllFieldsShipped` fails: finding 1 |
| `weak_loads` (violation) | 2 rows, `WeakLoads = TRUE` | `EndComplete` fails: finding 2 |
| `end_packet_test` (violation) | 1 row | `OuterQueryRuns` fails: finding 3 |

Bounds. The code's rings have 1048576 slots (8 or 1024 on the host) and its
packets 1 MiB. What matters is reached with less: rings of two fill, empty and
wrap several times with six rows; packets take one record, several records, and
leave a record behind because it does not fit; one packet in the sockets makes
`SSL_write` block. `NRows` bounds the counters head and tail; in the code they
are 64-bit and do not wrap. Results of fewer rows, the empty one included, are
covered because `sqlite3_exec` may fail after any row; the empty complete result
follows the same path with `exec_ok` true and is covered by the theorems
(`NRows` is any natural number). `CHECK_DEADLOCK FALSE` because both processes
really end.

The tree's loops distinguish how many levels a leaf passes and at which of them
a right neighbour is missing. Nine leaves give every shape of up to four levels
above the leaves, cross three powers of two, and stay below the cap of 16 (in the
code, `MT_AL_MAX_ELEMS = 2^(TREE_LEVELS - 2)`, the relation `TreeAssumption`
keeps). `tree_capacity` is the instance that reaches the cap.

The pager's two pages are one that is in the file when a transaction begins and
one that the transaction adds, or two old ones; six leaves are enough for a
transaction that spills, fails, is rolled back and is followed by another, and
for the levels of the tree above them to fail to grow. TLC finds the same with
seven.
The hash's blocks of five places and words of sixteen values put every position
of a message's end before, at and behind the place of the length, carry from the
low word into the high one, and overflow both (35 octets are 280 bits, 256 is
too long). Two runs of the servers are a run and the next, or two that compete
for the port; the third client is one nobody accepts. Two crashes are one
while a run writes and one while a later run does. For the rows, `Magnitudes` and `Sizes`
lie on both sides of every limit of the format for bytes of four values.

Fairness. Weak fairness for each thread: the scheduler runs every runnable
thread, and every thread that is not finished is either runnable or in a socket
call that returns once the peer acts. No strong fairness is used. A busy wait
that keeps reading "not yet" is a cycle of enabled steps, so `ServerFinishes`
also says that no thread spins for ever. Failures are never forced. In
`PolicyServer` each run is scheduled, but nobody need start a client; in
`PacketStream` both loops are, and the closing never is.

## Findings

1. *The first record can lose its columns* (`sec_sqlite3.c:126637`).
   OP_ResultRow publishes row 1 inside `sqlite3_step`; `sqlite3_exec` sets
   `num_rec_fields` when the step has returned. In between `make_ssd_record` may
   build the record with the value 1 left by the schema query. `OnlyFirstRowShort`
   shows that no later row is exposed.
2. *Load order at the end of a queue* (`sec_ssd_server.c:197`, and the same
   test in `consumer_func`). If tail is loaded before done, a row published in
   between is left behind and the end packet is sent without it. With loads in
   program order the handover is right (theorem `NoRowLost`).
3. *Type test after the handover* (`host_server.c:115`). The host's producer
   reads `pkt_type` of a batch the consumer may have freed. If the end packet
   is missed, the producer waits for a packet that never comes and the outer
   query is never run, although every row has arrived (`AllRowsArrive`).
4. *The last leaf* (`mt_arr_list.c:182`). `mt_al_add` accepts an element as long
   as there are fewer than `MT_AL_MAX_ELEMS`. The leaf that makes the array full
   is a right child, so the same `mt_add` reads its left neighbour through
   `mt_al_get`, whose assertion wants fewer again. The comment there says this
   can only be outside interference.

### Departures that passing properties state

In these cases the code departs from a comment, a docstring or an assertion. The
runs include them, and the properties say what happens there and that it happens
nowhere else.

- `Durable`: when `mt_add` has stored the leaf and then fails on a level above,
  `num_blocks` is not advanced (`sec_sqlite3.c:23663`) and later pages are stored
  under the number of another leaf; and the tree is in the memory of the process
  (`sec_sqlite3.c:23498`), so after a stop the pages written since it was saved
  have no tag. Such pages are refused, against the comment at :56651, (7).
- `CompiledMeans`: of several session keys or queries only the first is kept
  (`policy_compiler.py:49`; the docstring at :24).
- `GrantsAsDocumented`: versions are compared as strings, so 10 is below 9
  (`policy_checker.py:66`); for the latest firmware a string is compared with a
  number, so nobody has it (`policy_checker.py:92`).
- `SizesExact` and `RoundTrip`: a zeroblob before another value is counted and
  not written (`sec_sqlite3.c:126785`; the assertion at :126866), and at the end
  of a row its length is not sent (`:127136`). The tables of the evaluation have
  none.

After `Restart` the tree's `elems` is the size of its file in bytes
(`mt_serialize.c:82`, where :20 writes it), so `ElemsCountsLeaves` is a property
of trees made by calls and not of the server's. `Durable` holds because new leaves
are numbered by the leaf array, and an offset that `elems` no longer rules out
has no neighbour or no root to compare with. A message that
is too long for SHA-256 is reported as `shaNull`, not `shaInputTooLong`
(`sha224-256.c:61`; `sha.h:78`). After a crash use case 3 may read a part of an
entry, or nothing (`OneEntry`; `run_use_cases.py:78`). A benchmark worker that
fails before the barrier leaves the others, and `main`, waiting (`EndsOrUnset`).
Once the storage server has closed, the host's read loop spins (`AllDelivered`).

## Proofs

`StoragePipelineProofs` proves, for every number of rows, columns, every ring
size, packet size, record length function and connection capacity that satisfy
the named assumptions:

| theorem | statement | loads |
|---|---|---|
| `TypeCorrect` | `Spec => []TypeOK` | either order |
| `SlotsSafe` | `Spec => []NoSlotRace` | either order |
| `PacketsInOrder` | `Spec => []InOrder` | either order |
| `ShortRecords` | `Spec => []OnlyFirstRowShort` | either order |
| `DoneInvariant` | `~WeakLoads => (Spec => []IndInv)` | program order |
| `NoRowLost` | `~WeakLoads => (Spec => []EndComplete)` | program order |
| `JoinSuffices` | `~WeakLoads => (Spec => []JoinCoversAllThreads)` | program order |

"Either order" is the one reordering the model has: the last test of a storage
thread may read the tail before the done flag (`WeakLoads`). All other loads
happen in program order.

Assumptions: ring sizes, columns and connection capacity are positive naturals,
the number of rows is a natural, and every record is at least one byte and fits
in an empty packet (`RecLenAssumption`). The last is what the code relies on: it
copies the first record of a packet without looking at its size.

Argument. None of the properties is inductive: that a packet is in order depends
on the batch, which depends on the ring, and so on back to the scan. The
invariant numbers everything by rows. Entry k of `rec_queue` holds row k+1 for
`mk_head <= k < mk_tail` (`MkRingInv`), the row in `mk_rec_thread`'s hands is
the one after `pcs_tail` (`MkRecInv`), entry k of `record_pool` is a record of
row k+1 (`PcsRingInv`), the batch continues the rows shipped and ends at
`pcs_head` (`ConsumerInv`), and each packet continues the one before it
(`WireInv`). These form `CoreInv`, which holds in either order of those loads.
`DoneInv` is the part that needs program order: a thread past its
final test saw done and then an empty queue, so nothing can follow. `IndInv` is
both. Two arithmetic lemmas (`SlotInRing`, `SlotsDiffer`) carry the indexing
modulo the ring size; there is one lemma per thread.

`NdpSystemProofs` proves of the two servers together, from the same assumptions
and for every positive size of the host's ring:

| theorem | statement | loads |
|---|---|---|
| `SysInvariant` | `SysSpec => []SysInv` | either order |
| `StorageInSystem` | `SysSpec => Spec` | either order |
| `HostSlotsSafe` | `SysSpec => []HostNoSlotRace` | either order |
| `TableInOrder` | `SysSpec => []TableFollowsScan` | either order |
| `OuterQueryComplete` | `~WeakLoads => (SysSpec => []OuterQuerySeesAllRows)` | program order |
| `QueryImplemented` | `~WeakLoads => (SysSpec => ImplementsQuery)` | program order |

Argument. A step of the host is a step of the host that `StoragePipeline`
assumes, or nothing to the storage server: it asks at most once, because main
sends only before anything was sent (`StepOfStorage`). So `CoreInv` and `DoneInv`
carry over. `NdpInvariant` continues the numbering on the host, by packets: entry
k of its ring is packet k+1 of the connection for `h_head <= k < h_tail`
(`HostRingInv`), the packet in the producer's hands is the one after `h_tail`
(`HostProducerInv`), the one in the consumer's is the one at `h_head`
(`HostConsumerInv`). `Offered` turns the place in a packet into a row number, and
the table holds only rows up to it, in order but for the one under rowid -1, which
is none of the others, and all of them unless an insertion failed (`TableInv`). A step of the storage server only adds packets, which
changes nothing up to what the host has read (`HostGrows`). When the host's
consumer ends it has taken the end packet, the last one, so `DoneInv` says that
every published row was offered (`AllOffered`): that is `OuterQueryComplete`, and
the guard of `AnswerQuery` in the refinement. The other steps map to `ScanRow`,
`ScanFails`, `ScanEnds`, `InsertRow`, `LoseRow` and `DisplaceRow` or to a stutter
(`QueryStorage`, `QueryHost`). `OffloadedQuery` states no fairness, so this is the
whole of the refinement.

`PolicyServerProofs` proves, for any runs, clients, use cases and number of
crashes (`ServerAssumption`: the name for "nobody" is not a run's):

| theorem | statement |
|---|---|
| `Inductive` | `Spec => []ServerInv` |
| `ServersTyped` | `Spec => []TypeOK`: a run has the port of its service exactly while it serves |
| `PolicyLogDurable` | `Spec => []PolicyDurable` |
| `ExecutionLogDurable` | `Spec => []LogDurable` |

Argument. That an acknowledged entry is on the disk depends on what the file was
when the run synced it, and that on nobody else writing in between. The port
gives the latter (`AloneAtWork`). `PolicyInv` follows the policy log through a
run: empty after the open, the entry after the write, the entry on the disk when
the reply is due, and no acknowledged entry while it is being replaced. `LogInv`
says that the execution log's cache extends its disk, and that the entry of the
run that is about to reply lies behind all acknowledged ones. The lemmas on files
(`CleanSurvives`, `ExtendedSurvives`) are what a power loss can do to them. Most
steps change no file and are dealt with together (`Quiet`).

`MultiSqliteProofs` proves for any positive number of threads that `BenchInv` is
an invariant (`BenchInductive`), and from it `QueriesStartTogether` (`Spec =>
[]StartTogether`) and `ResultsFreedLast` (`Spec => []FreedLast`). `BenchInv` ties
the barrier to the workers: whoever is past it found all of them there, because
no worker arrives twice (`AllArrived`, by cardinality).

Only model-checked: liveness (`ServerFinishes`, `AllRowsArrive`, `AllDelivered`,
`ClientEnds`, `EndsOrUnset`), which is out of the prover's reach; the refinement
of `PacketStream` to `NdpWire`; `PacketFits` (a sum over a packet);
the Merkle tree, the hash and the record format, which are compared with
recursive definitions or built from folds; the pager, whose steps are folds over
pages and journal records; and `OneEntry`.

## Not modelled

Lines. The four SQLite amalgamations are nearly all of the repository's lines
and are one library in four copies, patched in a few hundred lines each.
Modelled are the patched regions and the layers they rest on (pager, journal,
record format). The parser, the code generator, the virtual machine, the b-tree
and the operating system layer are unpatched, have their own test suites, and
say nothing about this system; a model of them would be a model of SQLite. So
the share of all lines that the modules cover is far below one per cent. Of the
files outside the amalgamations that the modules model, with their headers and
comments, it is a little more than half.

In the pager: no-sync mode, the write-ahead log, other journal modes, savepoints
(and so a transaction that goes on after a failed statement), a second
connection, a failure while a journal is played back or deleted, what a power
loss leaves of writes that were not synced, and pages changed by somebody else
(the model's stored pages are the ones the codec wrote; what the tree then
detects is `VerifyExact`). Page 1 counts as in use for as long as the lock is
held, as the b-tree layer keeps it.

In the logs: the directory entry of a new file is taken to be synced with the
file, so a power loss takes no file away whose content was synced.

In the record format: a NULL with `MEM_Zero` (serial type 10), which only an
UPDATE of a virtual table makes. On the connection: a host that closes first.
In the servers: the sizing of the string buffers in `main` (arithmetic on
lengths, without state); the semaphores, which are initialised and never used;
`copy_result_row`, `col_count` with its caller commented out, and other dead
code; several queries in one process (both servers serve one query and exit).
In the tree: `mt_al_truncate` and `mt_exists`, which only the library's tests
call. The 64 rounds of SHA-256 and the cipher are arithmetic on bits. The
attestation programs exchange one message for timing; the plots and the other
benchmark drivers have no state to check.

## Plan

1. Shape invariants of the Merkle tree, proved.
2. The pager with the steps of `CommitPhaseOne` apart, and savepoints.
