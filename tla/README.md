# TLA+ models of the NCHC–AIST joint project

The repository holds four programs that share little code:

1. an **IoT message chain**: publishers negotiate a session key with AugPAKE,
   send encrypted log lines over MQTT, and subscribers look the key up through
   Thrift to decrypt them (`augpake_src`, `mqtt-python`, `dockerization`);
2. the **PUF evaluation** on Hadoop: MapReduce jobs that compute average Hamming
   distances between the IDs of PUF chips (`src/main/java/puf`);
3. a **reversible watermark** for pictures, computed by pools of processes
   (`watermarking`, with a forerunner in `speedup`);
4. smaller pieces: a Spark streaming consumer of the MQTT chain
   (`src/main/java/iot`) and file encryption (`image-encryption`).

All paths below are relative to `src/`; `puf/` stands for `src/main/java/puf/`.

## Inventory

| Component | State | Operations | Interacts with | What makes it correct |
|---|---|---|---|---|
| Publisher: `mqtt-pub.py`, `s_client.c`, `sample_initiator.c` | its session ID and key, its place in the file it tails | connect, handshake, encrypt and publish a line | s_server (TCP), broker (MQTT, QoS 0) | it uses no key the responder has not derived; what it sends is encrypted under the ID it prefixes |
| Responder: `s_server.c`, `sample_responder.c` | queue of connections, the handshake in progress | accept, handshake, send V_S, print SK | s_client, its stdout and stderr pipes | every key it lets a publisher use is printed; it comes back to accept |
| Framing: `sample_header.h` | bytes read so far | `sendOrDone`, `recvOrDone` | TCP | the library gets whole messages or none |
| Wrapper: `augpake-server.py` | the two pipes, the child process | select, parse a line, add the key, go down on stderr | s_server (pipes), the Thrift thread (shared table) | no line is lost while it is up |
| Key directory: `ThriftServer.py`, `AugPAKE.py` | `lookupTable` | `addKey`, `SearchKey` | subscribers, one connection at a time | an ID is answered with a key of its own or an exception |
| Subscriber: `mqtt-sub.py` | key cache, cipher cache, running callback | start, `on_message`, query, write, stop | broker, Thrift server, its output | a text is decrypted with a key of its ID, or not at all; no message stays undealt with |
| Outputs: `outputClass.py` | a client of syslog or InfluxDB | `write` | the subscriber's callback | (only what a call may come to is modelled) |
| AES: `aes_cipher.py` | none | pad, encrypt, decrypt, unpad | publisher, subscriber | the reader restores the line |
| PUF jobs: `puf/mapper`, `puf/combiner`, `puf/reducer` | partial sums | map, combine, reduce | Hadoop (shuffle, retries) | result independent of combining and retries |
| PUF drivers: `puf/Intra1`, `Intra2`, `Inter`, `puf/job` | a thread per file, directories in HDFS | chain of jobs, scan and merge | cluster, each other through HDFS | a job reads complete outputs of its own run; what is settled is not written again |
| Watermark functions: `monotonic.py` | none | `F`, `F_inverse`, tables | `reversible.py` | tables are F and its inverse |
| Watermark calls: `reversible.py` | shared array, task queue, pool | copy pool, block pool | processes, `mp.Queue` | removal undoes marking, result independent of the schedule |
| Pool experiment: `speedup/main6.py` | shared array, task queue, pool | one pool | processes, `mp.Queue` | each task once, the picture is shown |
| Image encryption: `aes.py` | the file, the `.enc` file | encrypt, decrypt | files, whoever saves the picture | decrypt undoes encrypt, also after an encryption that was cut off |
| IoT consumer: `iot/*.java` | one Spark context, running word count | tail, start a stream per key | broker, log of the key | not modelled |

Hard behaviours, in the order in which they are worth modelling: the key that
is overtaken by the message it decrypts; the loss of the table with the server;
caches that outlive the table they were filled from; pools that take a transient
`queue.Empty` for the end of the work; an unlocked shared array; combiners that
run any number of times; attempts, jobs and drivers that fail half way; an output
directory that is checked in one place and made in another; framing without
timeouts; a file that changes while it is encrypted. `PROJECT.json` lists them line by line under `hazards`.

## Modules

| Module | Models | Role |
|---|---|---|
| `KeyDelivery` | programs of the MQTT chain, from handshake to decrypted text | detailed specification |
| `KeyDirectory` | what the chain promises about IDs and keys | abstract specification, refined by `KeyDelivery` |
| `Handshake` | the four messages of the handshake byte by byte, with their framing | detailed specification |
| `KeyAgreement` | what the two ends of a handshake promise each other | abstract specification, refined by `Handshake` and by `KeyDelivery` |
| `KeyDelivery_proofs` | | proofs about `KeyDelivery`, both refinements included |
| `Handshake_proofs` | | proofs about `Handshake`, its refinement included |
| `MqttCipher` | `aes_cipher.py` | a line on its way from publisher to subscriber |
| `Monotonic` | the loops of `monotonic.py`, its tables in closed form, and the two table look-ups of `reversible.py` | operators |
| `MonotonicTables` | the 512 rows of the tables as they stand in `monotonic.py` | compared with `Monotonic` |
| `PixelRoundTrip` | first half of `watermarking/main.py` | `Monotonic` over all inputs |
| `Monotonic_proofs` | | lemmas and theorems about the tables and the loops |
| `PixelRoundTrip_proofs` | | proofs about `PixelRoundTrip`, from those |
| `TaskQueue` | `mp.Queue` between a parent and a pool | instantiated by the two modules below |
| `ReversibleWatermark` | `addWatermark`, `removeWatermark`, their jobs | detailed specification, extends `Monotonic` |
| `ReversibleWatermark_proofs` | | proofs about `ReversibleWatermark`, from those about `Monotonic` |
| `SquarePool` | `speedup/main6.py` | detailed specification |
| `SquarePool_proofs` | | proofs about `SquarePool`, its refinement included |
| `TaskBag` | what a pool on one queue promises | abstract specification, refined by `SquarePool` |
| `PufJob` | mappers, combiners and reducers of one MapReduce job | detailed specification |
| `PufPipeline` | the three drivers, their threads and directories | detailed specification |
| `Puf_proofs` | | proofs about `PufJob` and `PufPipeline` |
| `ImageCipher` | `image-encryption/aes.py` | detailed specification |
| `Cipher_proofs` | | proofs about `MqttCipher` and `ImageCipher` |
| `MCKeyDelivery`, `MCHandshake`, `MCMqttCipher`, `MCPixelRoundTrip`, `MCReversibleWatermark`, `MCSquarePool`, `MCPufJob`, `MCImageCipher` | | small instances, symmetry |

`Cipher_proofs` and `Puf_proofs` each extend two modules that share lemmas: about
blocks and padding, about sums and finite sets. That is why the definitions of
`MqttCipher` that would clash with those of `ImageCipher` begin with `Line`, and those
of `PufPipeline` with `Pipeline`.

### KeyDelivery and KeyDirectory

One member of `Sessions` is one run of `mqtt-pub.py`, which does exactly one
handshake; the session therefore names its key, and a message names the
session that encrypted it. The actions follow the road of the key: `Connect`,
`Accept`, `SendVS` (the secret is derived and V_S leaves), `PrintSK`, `AddKey`,
`SearchKey`, `ReceiveKey`; and that of the message: `VerifyVS`, `Publish`,
`DecodeCached` or `QueryKey`. The failures are actions too: `GiveUp`,
`ResponderFails`, `ServerDies` (s_server ends at any point: accept fails, a write
raises SIGPIPE, no memory for the secret), `SeeError` (the wrapper goes down with child,
pipes, table and connections), `Restart`, `StartFails`, `ReceiveFault`,
`QueryBroken`, `LoseBroker` (the subscriber goes on without a connection,
because the result of `loop()` is ignored) and `Stop`. `Connect` may reach nobody
although the server is up: `s_client` ignores that a name did not resolve.
`RejectPayload` drops a foreign payload, or ends the subscriber when it is no UTF-8
(only `IndexError` is caught). The broker is external:
it hands each line to any subset of the subscribers that are `linked` to it,
later, in any order. The messages of the handshake before V_S are one step of
the responder; `Handshake` takes them apart.

The session ID is the beginning of the shared secret, so `SendVS` may draw
an ID that another session has. What a call of `write` may come to depends on
the configured output (`OUTPUTTYPE`): `default_print` succeeds, `Syslog` may lose
the text without notice, and `Syslog` and `influxdb_client` may raise, which
ends the subscriber.

`KeyDirectory` has two variables: the ID each session drew and what each client
has learned. `KeyDelivery` implements it with `drawn` replaced by `sid` and
`known` by `keyCache`.

`lost`, `written` and `restarts` are histories. `lost` marks the sessions
whose key died with a server, so that a loss the design accepts is told from
one it does not.

### Handshake and KeyAgreement

A byte is named by its message and its place, size first; `toResponder` and
`toInitiator` are the bytes on the wire of each connection. `do_initiator` and
`do_responder` are the programs of the two ends, as sequences of sends and
receives. `SendSize`, `SendBody` and `SendFails` are `sendOrDone`; `ReadSize`,
`ReadBody` and `ReadEnds` are `recvOrDone`, in which

- every read of the size asks for a whole int, wherever the earlier ones stopped,
  and may so take bytes of the body along, past the int;
- the result of a read is added up whatever it is, and an end of file in the
  middle of a field makes the loop read 0 bytes for ever (`spinning`).

At the end of file with nothing read the library is called with 0 bytes and
refuses them: `ReadEnds` makes one step of the two. `Compute` is a call of the
library, which may fail; `Kill` ends a process,
`FallSilent` stops an initiator without closing its socket. `torn`, `silent` and
`agreed` are histories. s_server never closes a socket it accepted, so only
its own end is seen by the peers.

`KeyAgreement` knows where each initiator stands (`party`) and whom the responder
serves (`serving`). `Handshake` implements it with an initiator `confirmed` once
V_S was sent to it; `KeyDelivery` implements it with `pub` and `responder`. The two
detailed modules therefore agree on everything `KeyAgreement` speaks of.

### MqttCipher

`_pad`, `encrypt`, `decrypt` and `_unpad` of `aes_cipher.py`, over a line, the key of
the publisher and the key of the subscriber. The message is what `DecodePayload` has
split off behind the ID and the separator (`mqtt-sub.py:58-59`). AES is external: the
right key gives the blocks back, another gives any blocks. A key is its first `bs`
digits, as `key[:bs]` makes it. Base64 is left out.

### Monotonic, MonotonicTables and PixelRoundTrip

`F` and `F_inverse` are the loops of `monotonic.py`, as recursive functions over
the levels that are left; `FTable` and `F_inv_Table` define each entry directly,
as rank and inverse. In the source the tables are 512 lines of literals, and
`MonotonicTables` has these: a row as runs of evenly spaced numbers, which
`Expand` turns into the 256 numbers of the line. Literals, closed forms and loops are
so three different things, and two comparisons tie them: the assumption `TablesAsComputed`,
which TLC evaluates in the run `pixel_round_trip`, literals and closed forms, the theorem
`LoopsAlwaysComputeTables` closed forms and loops. No proof uses the assumption. The
number of levels is `Depth`, 256 in the code. `reversible.py` handles the three
channels of a pixel independently, so one is enough here.
The loops are not called by any other code, and they need the
`list` that `range` returned in Python 2, because they call `remove` on it.

### TaskQueue, ReversibleWatermark, SquarePool and TaskBag

`TaskQueue` is the queue as CPython implements it: `buffer` is what was `put`,
`pipe` what the feeder thread has sent; `get_nowait` raises `Empty` when the read
lock is taken or the pipe holds nothing. A worker's `pc` is `get` before
`get_nowait`, `poll` while it holds the lock, then what its pool does, and at the
end `exited` or `crashed`. The modules that use it say what follows on `Empty` and on
a task.

In `ReversibleWatermark`, `op` and `stage` say which of the two calls and which
of its two pools is at work. A copying task is one
step, since no other process touches its bytes; a block is one step per pixel,
since pixels read their neighbours. Tasks the copying pool left in the queue
are met by the block pool, as in the code, which uses one queue for both.
White pixels of the watermark leave the picture as it is.
`Watermark` gives the watermark resized to any block size as a constant: PIL's
resizing is not modelled. `lost` is a history: some task was put and never done.

`SquarePool` keeps the set of black pixels, one step per pixel. A square that
leaves the picture ends its worker. It implements `TaskBag`: a task is to do while it is
queued, held while its worker is in the pixel loop, finished when its square is
black.

### PufJob

One key of one job, in three shapes: `correctid`, `hd`, `hdcorrect`. An ID is
the vector of its bits, so the byte conversions of `CorrectIDMapper` and
`CorrectIDReducer` do not show. A partial value has the sums (`first`), the
count (`second`) and, as history, the set of items it stands for (`of`).
`CombineBeforeShuffle` and `CombineAfterShuffle` merge two values at a time,
which yields every grouping Hadoop may choose; `MapFails` and `ReduceFails` are
repeated attempts. What crosses the shuffle goes through `IntPair.write` and `readFields`, which shift
by the least int. Sums of the combiners wrap as Java ints do; those of
`AverageHDReducer` are in a double and do not. `Fits` tells the records whose sums
stay in the range from the others. All sums over items are
`SumFunctionOnSet` of the community modules. A distance is taken to be an int
(`JobAssumption`), as 128 bits make sure.

### PufPipeline

A thread of `Intra1` or `Intra2`, one per file, and the process `Inter` are *chains* of
jobs: `thread[c]` says where chain `c` stands, `jobs[c][r][j]` what has become of job
`j` of its run `r`, `out[c][j]` is the output directory, which all runs share. `Inputs`
are the directories whose `part-r-00000` a job reads.

A job belongs to the cluster, and goes on when its driver is gone (`Dies`). That is why
the two looks Hadoop takes at an output directory are two steps. `Submit` is the
client's: `waitForCompletion` throws, and `run()` of the thread only logs it, when
the directory exists or an input is missing (`FileOutputFormat.checkOutputSpecs`,
`FileInputFormat`). `JobStarts` is the cluster's: the job leaves the queue and its
directory is made, whoever made it before. A driver that was killed with a job in
the queue and is started again gets past the check, and two jobs write to
one directory; to commit, the second deletes the `part-r-00000` of the first
(`JobDeletes`) and puts its own there (`JobSucceeds`). `left` is a history of
the directories for which this may happen. `Inter` looks into one
directory per `Scan` step, interleaved with everything `Intra2` does.

### ImageCipher

A byte is named by what it is: a byte of one saving of the picture, padding, NUL,
a digit of the size, a byte of the IV, or the cipher byte of another. `GetSize`,
`WriteHeader`, `EncryptChunk` and `EncryptReturns` are `encrypt`, `ReadHeader`,
`DecryptChunk` and `DecryptReturns` are `decrypt`; both can be cut off
(`EncryptIsCut` leaves any prefix of what was written). `SaveAnew` and `Grow` are
the program that writes the picture, at any time. A size has `HeaderSize` digits if
dropping a digit that often leaves nothing (`WithoutDigits`, repeated division by
ten), and `Number` adds the digits of a header up again. `taken`, `resaved` and
`made` are histories: the picture when its size was asked for, whether it was
written anew since, and what the `.enc` file was made from.

## Runs

| Run | Instance | What it shows |
|---|---|---|
| `key_delivery` | 2 sessions, 1 subscriber, 2 IDs, 2 lines, 2 restarts, Syslog | `KeyOnItsWay`, `CorrectDecryption`, `FaultOnlyInWindow`; implements `KeyDirectory` and `KeyAgreement` |
| `key_delivery_live` | 1 session, 2 subscribers, 1 restart, Syslog | `KeyReachesTable`, `MessageDealtWith` |
| `key_delivery_race` | 1 session, 1 subscriber, default_print | violation: the first message of a healthy session can end the subscriber |
| `handshake` | 2 initiators, an int of 3 bytes, bodies of 3 bytes | `WholeOrNothing`, `ServerComesBack`; implements `KeyAgreement` |
| `mqtt_cipher` | blocks of 2, bytes 0..3, lines up to 3, 3 keys of which 2 start alike | `LineRestored` |
| `pixel_round_trip` | 7 levels, all inputs | `PixelRecovered`, `MarkingIsMonotonic`, `LoopsComputeTables`; the rows of the file are those of `Monotonic` |
| `watermark` | 5×5 pixels, blocks 3×2, 5 workers wanted of 2 CPUs, 4 levels | `BlocksApart`, `MarkingIsSequential`, `PictureRestored`, `LastRowAndColumnKept`, `CallsReturn` |
| `watermark_missed_tasks` | 3×2 pixels, 2 workers | violation: blocks or bytes left undone |
| `square_pool` | pictures of 3 sizes, side 2, 3 tasks, 3 processes | `WholeSquares`, `PictureIsShown`; implements `TaskBag` |
| `puf_job` | IDs of 2 bits, up to 4, 3 and 5 of them, 1 failed attempt, `MaxInt` 7, 3 and 4 | `PartialSumsExact`, `AverageExact`, `CorrectIDIsMedian`, `NoiseAtMostHalf` |
| `puf_pipeline` | 1 file, 2 runs of Intra1 or Intra2, 2 of Inter | `InputsComplete`, `SharedOnlyIfLeft`, `OutputsFinal`, `HalfDoneForGood`, `RunsEnd` |
| `image_cipher` | blocks of 2, chunks of 4, header of 2 digits, pictures up to 6 bytes, saved anew once | `DecryptsToPictureTaken` |

The passing runs check the type invariant of their module as well, but for
`key_delivery_live`, which shares it with `key_delivery`, and for `pixel_round_trip`,
where the theorem has it for every depth.

Why the bounds are enough:

- *KeyDelivery.* Two sessions are what it takes to confuse two keys, under two IDs
  or under the same one; two lines what it takes to use a cache after filling it,
  two restarts what it takes to lose a table that was already refilled once. Two
  subscribers are needed only where they compete for the one Thrift connection.
  The theorems below hold for any number.
- *Handshake.* With an int of three bytes a size can come in two pieces of which
  the second read takes one or two bytes of the body along; with bodies of three
  bytes a body can lose some of its bytes and not all. Two initiators let the second
  meet a server that the first has left in any state.
- *MqttCipher.* Lines of 0 to 3 bytes are shorter than, as long as and longer than
  a block; bytes up to 3 contain every padding, and values that are none. The
  theorems hold for any length.
- *Watermark.* 5×5 cuts off both a column and a row of blocks, and has full ones.
  With two workers on four blocks a worker takes several. 75 bytes on two processes
  leave one byte uncopied. `PictureRestored`
  supposes `RestInLastRow`: the bytes left over (fewer than the processes) lie in the
  last row, which is never marked. For a picture of any usual width that is so.
  With 4 levels every estimate meets nearer, farther and equally near levels;
  `pixel_round_trip` has 7, so that ties appear on either side.
- *SquarePool.* The three sizes let every square, all but the last, or only the
  first fit; as many processes as tasks, so that a worker may get one or none.
- *PufJob.* Three items already give every shape of repeated merging, on one side of
  the shuffle or on both; an even number of IDs can tie on a bit, an odd number
  cannot, and both occur. `MaxInt` is chosen for each shape so that some
  records fit and in others votes, distances or counts wrap.
- *PufPipeline.* Two runs are what it takes for a second job to meet the directory of
  the first, in the queue, running, failed or done; the second run may be of the other
  driver, and two runs of `Inter` look before and after. Files have threads and
  directories of their own and meet only in the merge; the theorems hold for any
  number of them.
- *ImageCipher.* Six bytes are a full chunk and a half one; odd lengths are
  padded in either. A picture that grows between two reads gives padding in the
  middle of the ciphertext. Two digits are more than the sizes need, as 16 are.

`CHECK_DEADLOCK FALSE` is set wherever the programs end, or may. Only
`image_cipher`, where a call can always be made again, has it checked.

The two violations are findings. In `key_delivery_race` the responder sends V_S
(`sample_responder.c:41`) before the key reaches the table; the publisher's first
line overtakes it, `SearchKey` raises, and the exception passes `on_message`,
which has a branch for payloads it cannot decode. In `watermark_missed_tasks` a
worker takes a transient `queue.Empty` for an empty queue and leaves; when all have
left, `addWatermark` returns a picture that is not wholly copied or marked.
`MarkingIsSequential` and `PictureRestored` say `~ lost` for that reason;
`BlocksApart`, `LastRowAndColumnKept` and `CallsReturn` hold regardless.
`WholeSquares` excepts squares whose task is still queued, for the same reason.

## Fairness

- `KeyDelivery`: weak fairness of the wrapper's loop, the SK print, the Thrift
  accept and the callbacks: processes and threads that are ready get scheduled, and
  paho hands messages over in order. Nothing is assumed of a handshake in
  progress, of publishers, of restarts, of the broker or of stopping: neither end
  of a handshake has a timeout, and nobody has to start anything.
  `MessageDealtWith` therefore excepts a subscriber that waits behind another's
  Thrift connection, which is what `TSimpleServer` does to it.
- `Handshake`: weak fairness of the SK print and of each process's step while it
  has not fallen silent: processes are scheduled and TCP delivers. Nothing is assumed of
  silence, of kills or of new connections. `ServerComesBack` names the three ways in
  which s_server stays with a peer for ever.
- `ReversibleWatermark` and `SquarePool`: weak fairness of every worker, of the
  feeder thread and of the parent.
- `PufPipeline`: weak fairness of each chain and of the cluster as a whole: a job
  leaves the queue and ends, in failure if need be. Not of starting drivers again.

## Proofs

All are checked by tlapm for every value of the constants that satisfies the
named assumptions of the modules.

**KeyDelivery** (`ConstantsAssumption`). The inductive invariant `IInv` has five
parts. `TypeOK` alone is not inductive: a message could index the tables with the ID
of a session that has none. `HandshakeInv` orders the handshake (a session has no
ID until the responder answers its V_U and has left the responder's queue by
then), `MessageInv` says that only sessions with an ID publish and that an answer
is for a query, `KeyInv` that wherever a key is stored or used it is under the ID
of its session. That gives `CorrectDecryption`; the corollary `OwnKeyIsUsed` adds
that where no other session drew the ID, the key is the very one of the message.
`KeyOnItsWay` is the fifth part, and read at the step of `SearchKey` it gives
`FaultOnlyInWindow`. All hold whether or not IDs are drawn twice.

Two refinements rest on `IInv`. For `KeyDirectory`, `SendVS` maps to `Draw`,
`ReceiveKey` to `Learn` and everything else to a stutter. For `KeyAgreement`,
`Connect` maps to `Arrive`, `Accept` to `Serve`, `SendVS` to `Agree`, `VerifyVS` to
`Verify` or `Leave`, `GiveUp` and `PublisherEnds` to `Leave`, and `PrintSK`,
`ServerDies`, `ResponderFails` and `SeeError` to `Return`; `HandshakeInv` is what
makes `SendVS` meet a peer that is connected or gone.

**Handshake** (`HandshakeAssumption`). `WholeOrNothing` speaks of the moment at which
a message is complete; what makes it inductive is to say what is on the wire at
every other moment. Messages are described by their parts: `Part(m, a, b)` is bytes
a+1 to b of message m. For each connection `TurnInv` says that what the reader holds
and what is on its way are two parts, one after the other, of the one message it
waits for, and that nothing of the next message is there, because the ends take
turns. A read of the size that runs past the int then takes bytes of this
message's own body, and the body never gets complete. `WaitingInv` is the same for a
connection that was not accepted yet, `InitiatorInv` for what an initiator receives;
`AgreedInv` ties `agreed` to where the responder stands, and `DeadInv` says that only a
responder that has ended leaves an initiator spinning. The refinement of
`KeyAgreement` maps the `SendBody` of V_S to `Agree` and
takes `AgreedInv` and `TurnInv` for the guards of the abstract actions; other sends and
all reads of a message are stutters.

**MqttCipher** (`CipherAssumption`). `UnpadUndoesPad` is arithmetic on lengths: the
last byte of a padded text is the number of bytes added, between 1 and the block
size. The invariant carries what was sent to the reader, and gives
`LinesAreRestored` for lines of any length and bytes.

**ImageCipher** (`SizesAssumption`). The invariant says at every moment what the `.enc`
file holds: the header of the size that was taken and the IV, or a beginning of them
(`Begins`), then ciphertext which, as far as the picture that was taken goes, is
its own (`Faithful`), unless the picture was written anew. A short read pads and so shifts
what follows; it is harmless because of `EncryptInv`: either nothing was padded yet, and
the ciphertext is as long as what was read, or all of the picture that was taken is
read and encrypted. `DecryptInv` says that what was recovered is the beginning of
what was encrypted, in whole blocks, and `truncate` cuts it at the size in the
header. `NumberOfHeader` reads that size back, for any number of digits, by a
least counterexample on the digits that were dropped. A file that was cut off begins as
the whole one does, so the same facts give the case in which `decrypt` fills up with NULs
and the one in which it raises.

**Monotonic** (`DepthAssumption`). `Nearer(x, ., .)` is a strict total order on
the levels; the number of levels before a level is therefore injective into as
many places, hence a bijection (cardinality), and `F_inv_Table` its inverse.
`UnmarkUndoesMark` composes two rows. `TableIsLoop` and `InverseTableIsLoop` say that
the loops compute the tables. Their recursive functions are shown to exist by a
closed form that satisfies the recursion, and to be unique by a least
counterexample (`LeastNumber`, from the well-foundedness of the numbers): that is the
induction the library's theorems, which take an operator as a parameter, do not give
here. The proof found that the recursion of `F` must be confined to sets that
contain the level looked for, as the loop's lists do; over all sets of levels it is
not well-founded at the empty one.

**PixelRoundTrip** (`DepthAssumption`). Its properties follow from those of the
tables; `MarkingIsMonotonic` uses that ranks compare as the order does.

**SquarePool** (`PoolAssumption`). `QueueInv` says that pipe and buffer are, one after
the other, a final run of the list of tasks. `Progress` says of a worker in the
pixel loop that its task is no longer queued, is held by nobody else, and that
exactly the pixels before its turn are black, `Settled` that every task is queued,
held, black or leaves the picture. Together they give `WholeSquares` and the
refinement of `TaskBag`: `Receive` maps to `Take`, the last pixel of a square to
`Finish`, a crash to `Drop`, any other pixel to a stutter.

**ReversibleWatermark** (`SizeAssumption`, `PictureAssumption`, `WatermarkAssumption`,
`DepthAssumption`). Before the state machine there is arithmetic: a byte is one
channel of one pixel (`ByteIs`, `IndexIs`), the blocks of a side lie behind each
other and end with the side (`SpanIs`, `SpansApart`), so different blocks share no
pixel (`FootprintsApart`), and the turn of a block's loops determines the pixel and
the pixel the turn (`TurnIs`, `TurnBack`). `Neighbour` is what the design rests on:
the right neighbour of an inner pixel is the pixel of the next turn of the same
block, or is never marked.

The invariant says what the whole array is at every moment. In the copying stage it
is blank with the bytes of the finished tasks copied (`CopyInv`); while blocks are
marked it is the copy with every byte whose turn has passed (`DoneBytes`) as in the
marked picture (`MarkInv`); while they are unmarked it is the copy of the marked
picture with the bytes passed as in the original (`UnmarkInv`). Marking reads a
neighbour whose turn has not come, unmarking, in the opposite order, one whose turn
has passed, and `UnmarkUndoesMark` does the rest. `QueueInv` and `HeldInv` are there to
know that a task is queued or held by one worker or done; `EdgeInv` holds whatever is
lost. `MarkingIsSequential` and `PictureRestored` are what is left of these at the end
of a call that lost no task.

The attempt to prove `PictureRestored` without `RestInLastRow` failed, rightly: with
more processes than bytes in the last row (2×2 pixels, one channel, 5 processes:
nothing is copied at all), bytes that were not copied are marked, the copy
that `removeWatermark` makes of the result leaves them out, and unmarking does not
give the picture back although no task was lost. The property has the condition since;
the code does not check it (`reversible.py:51`).

**PufJob** (`JobAssumption`). The invariant says of every partial value that it is the
number and the sum of a non-empty set of items, congruent modulo the range of int,
and that the sets of the values alive are a partition of the record. Congruence is
what survives a sum that wraps (`Int32Wraps`, `CongruentSum`); where the sums `Fit`,
two congruent numbers of one range are equal (`CongruentInRange`), so exactness is a
corollary and needs no invariant of its own, but for the reducer that adds in a
double. `ShuffledIsSame` rests on `ReadIntUndoesWriteInt`. For the proofs a sum over a set is a
CHOOSEn recursive function: `SumsExist` and `SumsAgree` show that there is one such
function, `SumTakeOut` that any element may be added first; everything else
(`SumUnion`, `SumLeq`, `SumCounts`, `SumOfFibers`, `SumOfMirror`) follows by
`SetInduction`, which is first-order: a family of subsets that has a set whenever it has those
of one element less has them all.

`AverageExact` splits the ordered pairs into those HDMapper forms, their mirror image
and the diagonal. `CorrectIDIsMedian` and `NoiseAtMostHalf` count the differing bits in two ways, by
measurement and by position (`SpreadBitByBit`); on each position the vote differs from
at most half of the measurements and from no more than any other ID does
(`VoteSidesWithMost`). The attempt to prove `TypeOK` found that an ID must
not have more bits than `MaxInt`, which `JobAssumption` has said since.

**PufPipeline** (`RunsAssumption`). `SharedOnlyIfLeft` needs to know who may still
write to a directory. `OwnJobs` and `RunsInOrder` say which jobs of which runs there
are: none of a run to come, none beyond the place where the chain stands. `Directories` ties a
directory to its jobs: it is absent as long as none has left the queue, complete once one
succeeded, unless another deletes it. `QueuedOrLeft` is the crux: a queued job is that of
the present run, or it is in `left`; so a client that finds the directory
absent has nobody but left jobs to fear. `InputsComplete` is carried from the step that
saw an input complete to the step that submits by `ReadyToSubmit` and `OwnInputs` (the
jobs before have succeeded) and `VotesSucceeded` (what `Inter` took was the output of a job
that succeeded); that the input stays there is `Directories`, as one writer deletes
nothing. `OutputsFinal` needs no more than the types and the
order of the runs: nobody gets past the check of a complete directory, and nobody who was
past it is left. `HalfDoneForGood` needs `Directories` as well, by which an absent
directory has no writers.

Each `IInv` was an invariant of a run before it was proved.

Only model-checked:

- everything temporal under fairness (`KeyReachesTable`, `MessageDealtWith`,
  `ServerComesBack`, `CallsReturn`, `PictureIsShown`, `RunsEnd`), which the prover
  does not reach;
- `TablesAsComputed`, which is about the 512 rows that stand in the file.

## Not modelled

- `iot/Launcher`, `ForkMqttListener` and `Mqtt`: what they do is decided by the
  tailer library and by Spark's scheduler, neither of which is in the
  repository; a model would be of guesses about those. `iot/AESCipher` goes with them:
  `Mqtt.java:74-76` hands it the whole payload, ID, separator and base64, where
  `mqtt-sub.py:58-59` splits the ID off, and turns the bytes into a string by the
  default charset. It gets back no line of `mqtt-pub.py`, so there is no property
  it shares with the Python reader.
- libaugpake, a binary library: what it computes is not modelled, only what its
  callers do with the outcome of each call.
- The formats of syslog and InfluxDB and the libraries behind them; the encoding of
  Thrift; base64.
- `watermark.py`, a single call of PIL, and the notebooks, which record experiments;
  PIL, JPEG and PNG.
- Two drivers of the PUF evaluation that are started at the same time over the same
  directories: a program is started again when its former run is over or dead.
- Keys of the PUF records as numbers: `Integer.parseInt` in `HDMapper` and
  `HDwithCorrectIDMapper` may merge keys such as `1` and `01`, or throw; `PufJob` is
  about one key. The votes of the `correctid` job that a record of `hdcorrect` was
  preceded by do not wrap (`Voted`).
- IDs of different length, and a key the cache file lacks: `FlattenMapper` writes 16
  bytes, and `correctid` votes on every key of the same run.
- Parsing of the PUF text files, the conversion of bytes to bits, serialization of
  the array types, the raw comparator of `IntPair`.
- Payloads with the separator but of no session; `RejectPayload` stands for all others.
- Configuration and containers. The Java tests were read as documentation.

## Plan

Done: every module named above; every safety property and every action property
without fairness that a passing run checks is also proved. What is left:

1. `PufBytes`: the bytes of `FlattenMapper` to bits and back in `CorrectIDMapper` and
   `CorrectIDReducer`, and `BYTE_BIT_COUNTS` of `HammingDistance` over the backing
   arrays of two `BytesWritable`s, against reference definitions. `PufJob` takes an
   ID as a function from positions to bits. The raw comparator of `IntPair` can stay
   out: the jobs use `IntPair` as a value, never as a key.
2. Liveness. It stays with TLC: neither fairness nor `ENABLED` is within reach
   of the prover.
