# avicoin: TLA+ models and proofs

This directory specifies avicoin, a Bitcoin-like node written in Rust with
threads and channels, and the promises its code makes: the peer table, the two
threads of every connection, both ends of one, the cutting of the byte stream
into messages, the node's lock and log, configuration and start-up, the byte
reader and the transactions read through it, the wallet, and the block with its
merkle root. TLC checks the models on small instances; TLAPS proves the safety
properties for every value of the constants. Of the 40 properties that passing
runs check, 34 are also theorems: every one of them but the six that are about
liveness ("Only model-checked" below).

All paths below are relative to the repository; `node.rs` is `src/src/node.rs`
and so on in the map of `PROJECT.json`.

## Inventory of the system

| Component | State it keeps | Operations | What makes it correct |
|---|---|---|---|
| Peer table (`node.rs`) | `peers: HashMap<PeerId, PeerHandle>`, `next_id`; every entry holds the only `SyncSender` of its connection | `register`, `remove`, `advance_handshake`, `send_to`, `broadcast`, readers | the cap and the dial deduplication hold, ids are never reused, no message of a kept peer is lost |
| Connections (`protocol.rs`, dial loop of `main.rs`) | per connection: a `Registered` guard, the read loop's latch and deadline, the writer's queue, ping clock and write half | `connect`, `listen`, `spawn_connection`, `handle_connection`, `read_loop`, `handle_messages`, `write_loop`, two `Drop`s | no entry survives its connection, the two threads end together, our version goes first, replies are answered in order, a handshake that does not come frees the seat |
| Framing and wire formats (`messages/`, `util.rs`) | the receive buffer of a read loop | `process_incoming_bytes`, `try_parse_message`, `get_raw_format`, `parse_raw_format` | the messages handled are the ones in the stream however TCP cut it; the buffer is bounded |
| Node log (`node.rs`) | a ring of 512 entries | `record`, `push`, `recent` | printing happens outside the lock; a failing print costs one thread, not the node |
| Block and mining (`block.rs`) | the fields of a block, a cached 80-byte header | `new`, `mine`, `get_raw_format`, `parse_raw`, `merkle_root` | the serialised header is the mined one; the merkle root is the root of the tree |
| Byte reader, compact integers, command field (`byte_reader.rs`, `util.rs`) | a cursor into an input | `read_*`, `get_compact_int`, `command_12`, `parse_command_12` | no read beyond the end whatever length is asked for; the writer and the reader agree at every width; one encoding per name |
| Transactions (`transaction.rs`) | the vectors being filled | `get_raw_format`, `parse_raw` | what is parsed is what was read, also across loops whose lengths come from the input |
| Wallet (`wallet.rs`) | a key pair | `new`, `send` | never spends more than the balance |
| Configuration and start-up (`config.rs`, `main.rs`) | the resolved `Config` | `resolve`, bind, advertise, listen, dial | flags before file before default; the advertised address is the bound one |
| Block storage (`block_storage.rs`) | none | an empty stub | - |

How they interact. `main` resolves the configuration, binds, starts `listen` on
a thread and dials every configured address. `connect` and `listen` both call
`spawn_connection`, whose thread registers the peer in the table (one mutex over
the whole node) and then becomes the connection's **reader**. It spawns a
**writer**, which owns the receiving half of a bounded channel and the write
half of the socket. The reader answers through the table (`send_to`), never
through a sender of its own, so removing the entry disconnects the writer; the
writer's end shuts the socket down, which wakes the reader. All table methods
run under the lock and never block (`try_send`).

What is hard. The reader, the writer and anything that broadcasts interleave at
every lock, channel and socket operation; each half can fail at any moment, and
`println!` in `record` can panic; a peer may send anything, stop reading, or
stop sending; an eviction can happen behind the reader's back; two deadlines
(handshake, write) and a timer (ping) run against all of it; TCP delivers the
stream in arbitrary pieces. `PROJECT.json` lists these as hazards, each at its
line, with the properties that would catch it going wrong.

## Modules

### PeerTable

The table as a data structure with an open environment: `TableNext` lets callers
invoke the methods in any order with any id that `register` has returned.
Definitions keep the names of the methods. What a method returns is a state
predicate next to it (`Admits`, `Reaches`, `Advances`), because its caller
branches on it after the same lock section. A channel is named by the connection
it was made for; `queue` is what it buffers and `receiver` what became of its
receiving half. The semantics of `std::sync::mpsc` (`Accepts`, `HasSender`,
`recv`, `drop_receiver`) are modelled from how the code uses them: `try_send`
fails when the buffer is full or the receiver is gone, a receiver drains what is
buffered before it sees the disconnect, and dropping it discards the rest.
`broadcast` visits the entries in hash order, which does not matter: each entry
has a channel of its own.

### Connections

Extends PeerTable with the threads. `stage[c]` is where the reader of connection
`c` is, `writer[c]` where its writer is:

| `stage` | in `protocol.rs` |
|---|---|
| `spawned` | the closure of `spawn_connection`, before `Registered::open` |
| `setup` | `handle_connection` up to the spawn of the writer |
| `reading` | blocked in `read` |
| `framed`, `parsing` | `process_incoming_bytes`, with a complete or bad frame at the front / after a handled message |
| `replying` | in `handle_messages`, between recording and `deliver` |
| `checking` | the foot of `read_loop` |
| `dropping`, `joining` | `drop(registered)`, `writer.join()` |
| `unwinding` | the guard's `Drop` on an early return or a panic |

| `writer` | in `write_loop` |
|---|---|
| `opening` | writing our version |
| `top` | the top of the loop, ping due or not |
| `recv`, `writing` | in `recv_timeout`, then in `write_all` |
| `closing` | returned; its receiver is gone, `ShutdownOnDrop` is to come |

Every action is one lock section, one channel operation or one system call of
one thread, so everything that can really interleave does. `record` prints
before it locks: wherever the code records inside the guarded part, the thread
either goes on or unwinds (`RecordThen`). No code panics while it holds the lock,
so the mutex is never poisoned and the `expect`s on it never fire. Time is two
flags: `due` (the ping timer) and `late` (the handshake deadline), set by steps
of the environment. `stalled` says that a peer no longer reads: its writer's
`write_all` then only fails, which is what `WRITE_TIMEOUT` makes it do. Nothing
in the repository calls `broadcast` yet; `Broadcast` stands for the relay code it
is written for, and `MaxBroadcasts = 0` is the program as it is today.

`owed`, `greeted` and `first` are history variables. They are cleared when the
loop they belong to returns, so that they do not multiply states.

### PeerLifecycle

The abstract specification: a connection takes one of `MAX_PEERS` seats, greets,
becomes ready, and leaves for good; outbound seats are unique per address; no
seat is held for ever without a handshake. Connections maps its table to it
(`Standing`, `DialledTo`) and is checked to implement it.

### Framing

The reader's buffer and the parser, with the encoder on the other side. A stream
is a sequence of units, one for each header field, nonce and address: reads
still split headers and payloads at every place, and claims of any size, wrong
magic, wrong checksums, unknown commands and short or long payloads all occur.
The checksum is a constant operator, so that the proofs hold for every function.
`parse_command_12` is abstracted to four known commands and the rest. The
protocol version, which the code reads and never judges, is left out. An IPv4
address is numbered by the IPv6 address it is mapped to, so writing forgets the
family and reading decides it again, as `write_address` and `read_address` do.

### MerkleTree, Block

`MerkleTree` has `merkle_root` as a function of a list of leaves, over a free
hash: the hash of two nodes is the pair of them, and the id of a transaction, the
hash of its bytes, has the transaction as its one element. So equal roots mean
equal trees over equal leaves, and a leaf is not taken for a node. The reference
it is compared with is the tree defined from the root down by the widths of its
levels, each of which is the number of leaves divided by a power of two, rounded
up.

`Block` is what a caller can do with a block: `new`, `mine`, `get_raw_format`,
`parse_raw`, and writing a public field (`Assign`). The header array that `mine`
fills and `get_raw_format` writes is a second copy of the fields. `sealed` is
history: the last thing that happened to the block is a successful `mine`. The
hash is a constant operator; the widths in `n_bits`, of the target and of the
nonce are constants, so that the mask of the mantissa, the bits shifted out and
the nonce that is never tried all occur in a small instance. Version and previous
hash are copied along with the other fields and judged by nothing; they are left
out. Assigning `merkle_root_hash` is left out as well: `mine` overwrites it
before any use, no other operation reads it, and with it the run takes twice as
long to the same end. A list with a repeated leaf can
have the root of a shorter list, which is why `docs/adr/0010` excludes such lists;
the code does not check it yet, and the property says so with its condition.

### NodeLog

The mutex around the node with its poisoning, and `record` as the steps it
consists of: print, lock, push. A thread that is not recording takes the lock for
the table (`LockTable`, for every `lock().expect(...)`) or ends through
`Registered::drop`. Stdout belongs to the environment and may be open, blocked or
closed at any step. An entry is the number of a thread's record. The question is
what the log says about stdout when other threads come in between print and push
or die there.

### CommandField, ByteReader

`ByteReader` is the cursor with every read of the code, over a byte with `BASE`
values and integer widths that are parameters; the marker bytes are the three
largest values. A number's bytes are its digits in base `BASE`, read from the
last one down. `USIZE_MAX` is a parameter too, so that a claimed length whose
end does not fit is met. `CommandField` has the two conversions of the header's
command field, at the length `FIELD_LENGTH` and with ASCII up to `ASCII_BOUND`;
`ReadCommand` reads such a field and parses it. In the code the size and the
checksum are read before the name is parsed; they do not meet the name.

### Transaction

`Block::parse_raw`'s loop over `Transaction::parse_raw`, one step per read. The
input is chosen as it is read and may end anywhere, which explores every input
without listing them. A field of fixed width and a compact integer are one unit
each: their bytes are `ByteReader`'s subject, and both run through it. The five
loops have one form (`Loop`): a count is read, room is reserved, elements are
pushed, and the parser goes on. `Reservable` says how many elements
`Vec::with_capacity` can reserve, at least two of each type; beyond it the
parser panics. `MCCodec` runs the two decoders side by side: a behaviour is one
or the other.

### Wallet

`new` and `send`, in a build whose sums wrap: what `amount + fee` does beyond the
width is decided by the compiler's profile, and the repository's profile sets
nothing. The balance and the outpoints are constants, as in the code, which marks
both as to be done; signatures are free values over what the code signs.

### Startup

`config.rs` as a function of file and arguments, and `main` from `get_config` to the
join, with the listener thread beside it. Every `?`, every panic of a print and
every failing spawn on the way is an action, and so is the end of the process
that clap decides on by itself when it cannot make sense of the flags. A connection is followed up to the
moment `handle_connection` takes the address that its version carries.

### Loopback

Extends Connections: the two connections are the two ends of one TCP connection
and run the same code, so what one writes is what the other reads, in order and
through a wire of bounded capacity. A node that dials itself is literally this
system. Two nodes differ only in having a table each, which matters to neither
property here. `faulty`, chosen once, says whether calls fail, prints panic and
deadlines are missed. The bound is that only the first ping of each end is sent;
Connections has the later ones.

### Drain

A clock for the one thing Connections cannot say: how long a writer goes on
after its entry is gone. `write_all` is a loop of writes over the parts in which
a peer may take a message. How one write behaves under the socket's send timeout
is the operating system's, and is modelled from what `write_all` relies on: a
blocking write waits up to `WRITE_TIMEOUT` altogether, and a part that is taken
meanwhile does not start the wait again. A write that has placed a part returns
its size, at the latest at the timeout (`ShortWrite`), and `write_all` begins
another one with the rest; a write that has placed nothing fails
(`WriteTimesOut`). `silent` measures how long the peer has taken nothing.

### MC and proof modules

`MCPeerTable`, `MCConnections`, `MCFraming`, `MCBlock`, `MCCodec`, `MCStartup` and
`MCLoopback` hold the instances for TLC; the other modules need none.
`ConnectionsProofs` (the table and the threads), `LifecycleProofs` (which goes on
where it ends), `LoopbackProofs` (which goes on from there), `WireProofs` (Framing,
ByteReader and Transaction), `BlockProofs`, `NodeLogProofs`, `StartupProofs` and
`DrainProofs` extend the specifications with theorems. Definitions with a suffix
(`Admits_OffByOne`) are
faulty variants of the definition they follow in name; `PROJECT.json` pairs each
property with one of them that violates it. No specification uses them.

## Runs

| Run | Instance | Checks |
|---|---|---|
| `peer_table` | 3 channels, 2 addresses, 2 messages, cap 2, queue 2 | `TableInv` (type, `Capacity`, `QueueBound`, `OneDialPerAddress`, `OnlySender`), `IdsNameOneConnection`, `KeptPeersLoseNothing` |
| `connection` | 1 connection, queue 2, 1 broadcast, peer may stall, under fairness | type, `OpeningFirst`, `RepliesInOrder`, `HandshakeIsEarned`, `ReadersAreRegistered`, `DeadlineSparesReadyPeers`, `EvictedPeerIsDone`, `BothHalvesEnd`, `StalledPeerDropped`, `ImplementsLifecycle` |
| `neighbours` | 2 connections, cap 2, queue 1, the same address configured twice, 2 broadcasts | `NoOrphanEntry`, `LifecycleSafety`, `OnlyOwnTeardown` |
| `framing` | units 0..4, payload limit 2, reads up to 7, streams up to 8 of any units and up to 12 from the encoder | `StreamIsCovered`, `NoFrameLeft`, `BufferBound`, `OwnEncodingUnderstood` |
| `block` | 2 times, 2 values of `n_bits`, lists of 0, 1, 5 and 6 transactions, 2 nonces, 4-bit target; roots told from all lists of up to 6 distinct leaves | `SealedIsConsistent`, `ReminingReproduces`, `RootNamesTheLeaves` |
| `node_log` | 2 threads, 3 records each, a log of 2, under fairness | `NeverPoisoned`, `LogIsRecentOutput`, `LockIsReleased` |
| `codec` | all inputs of up to 5 bytes in base 5, widths 2, 3, 4, `USIZE_MAX` 6, command fields of 4 bytes; all transaction streams of up to 15 units, counts up to 3, room for 2 | `OnlyForward`, `CompactReadsBack`, `OneFieldPerName`, `ParsedIsWhatWasRead`, `OwnTransactionsUnderstood` |
| `startup` | 4 addresses, one with port 0, a malformed one, peer lists of up to 2, 2 accepts, under fairness | `AdvertisedIsBound`, `EveryPeerIsTried`, `StartsAsConfigured`, `NoDeafNode` |
| `loopback` | the 2 ends of a connection, queue 2, wire 2, with and without faults, under fairness | `HonestPeersInTurn`, `ReadyMeansHeard`, `HandshakeCompletes` |
| `drain` | queue 2, messages in 2 parts, timeout 3, ping interval 2 | `StoppedReaderBound`, `DrainBound` |
| `wallet_wraps` | sums of 4 bits, balance 10 | `ExcessIsRefused`, which TLC refutes |
| `loopback_self` | the 2 ends of a connection of a node with itself | `SelfConnectionRecognised`, which TLC refutes |

Why the bounds are enough. Connections interact only through the table, its cap
and its dial check, so two of them (three in `peer_table`, one more than the
cap) meet every case: refused, admitted after another left, evicted together.
`peer_table` has channels to spare when ids are freed, so that reuse would show.
A queue of two distinguishes empty, partly full and full, and order; a verack
and a pong tell replies apart, so one nonce is enough. In `connection` the queue
fills because pings arrive faster than the writer drains, with a broadcast in
between. `Talkers` and `Stallers` limit which peers send or stall in the
two-connection runs, where the question is about the table; everything about one
connection is asked with one, where nothing is limited. In `neighbours` no peer
sends anything and the cap leaves room for both connections: registrations around
a full table are checked in `peer_table`, an eviction between the handling of a
message and its answer in `connection`, and both together, for any number of
connections, by the theorems `NodeInvariants`, `EvictedHolds`, `NoOrphanHolds`
and `LifecycleRefinement`. In `framing`, 8 units
hold a largest frame and a part of the next, or two headers; reads of up to 7
join messages as well as split them. The unit 4 is an unknown command and, with
3, an oversized claim. Six leaves are the first number with an odd level above
an even one, five the first with odd levels at two heights. In `block` some
searches find a nonce at once, some late, some never, so that every order of
failed and successful mining, writing and parsing is met; which leaves a list
has makes no difference, so there is one list for each length.

In `node_log` three records of two threads overflow a log of two from both
sides, and a third of one thread can pass two of the other. In `codec` base 5
with widths 2, 3 and 4 has every boundary (1, 2, 24, 25, 124, 125), an input
holds the widest form exactly, lengths reach `USIZE_MAX` from every position,
and a command field holds NUL, ASCII and other bytes in every order. Fifteen
units hold two transactions, one of them with an input or an output, or one with
two of either, so that a second turn of every loop and a vector that is begun
again occur; strings include one invalid and one two-byte character. In
`startup` every layer gives, lacks or misspells each setting. In `loopback` a
wire and a queue of two are shorter than what the two ends have to say to each
other, so both can be full at once. In `drain` a ping falls due during every
write, a message can be half taken by any of its writes, and both bounds are
reached.

The runs check for deadlock: `Quiet`, and `Gone`, `AllEnded`, `Exited`, `Over`
and the like in the other modules, are the states in which the system may rest,
so a thread stuck anywhere else is an error.

### Fairness

`connection` uses `FairSpec`. Threads are scheduled, a blocked `read`
returns within the read timeout and a blocked write within the write timeout,
and time passes: weak fairness of each thread's steps and of the two clocks.
Two strong fairness conditions say that data is finite: a read brings at most
one buffer, so the parse loop ends, and a socket that we have shut down reports
its end to the reader. Nothing is assumed of a peer: it may send legal traffic
for ever, stay silent for ever, or stop reading. A reader that broadcasts or
evictions have orphaned is not helped by any fairness of its peer either; that
it ends (`BothHalvesEnd`) rests on the writer's shutdown.

`node_log` assumes only that threads are scheduled: stdout may block for ever, the
mutex may starve a thread, and `LockIsReleased` is about the thread that has it.
`startup` assumes that `main` is scheduled, that the operating system ends each
attempt to connect and that a print returns or fails. `loopback` assumes the
dial, the accept and the scheduling of both ends' threads; no write, read or
message is helped beyond that.

### What the refuted properties show

`ExcessIsRefused`: the wallet's test expects an error when the "Total exceeds
available balance" (`wallet.rs:97`), and ADR 6 wants every sum checked. `amount
+ fee` wraps in a release build, and a wrapped total passes the check. With
overflow checks the same request panics.

`SelfConnectionRecognised`: `node.rs:218` and the glossary say that the nonce tells
a node it has dialled itself. It is sent and parsed, and `handle_messages` never
looks at it: both ends of a self-connection become Ready. They are well-behaved
ends all the same (`HonestPeersInTurn`, `HandshakeCompletes`).

### Other differences between documents and code

These were met while modelling. The properties next to them say what does hold.

- The glossary says of the byte reader that "every parse goes through it and
  returns `anyhow::Result`" (line 31). The reads do; the reservation between
  them does not: `parse_raw` gives a count from the input to
  `Vec::with_capacity` before it knows that the input is long enough, and a
  count beyond the room there is panics or aborts (the stage `panicked` of
  Transaction). A transaction that this code wrote never gets there
  (`OwnTransactionsUnderstood`), which says nothing of a count from elsewhere: no
  property covers those. No message carries a block yet.
- `docs/ARCHITECTURE.md:84` says that teardown is bounded by the write timeout.
  For a peer that has stopped reading the bound is two of them
  (`StoppedReaderBound`): if the write in which it stops has placed a part, that
  write returns what it placed, at the latest at its timeout, and `write_all`
  gives the rest another full timeout. If it has placed nothing, one is all. A
  peer that takes a part of a message just before each timeout is entitled to a timeout
  per part, for what is in hand, what is queued and a ping before each
  (`DrainBound`): with a queue of 128 and a timeout of 30 seconds that is more
  than an hour even if each message is taken in one part.
- `get_raw_format` refuses a block without a hash with the words "you need to
  mine or assign a hash to the block" (`block.rs:124`). Assigning one satisfies
  the check, but the header that is written is the array, which only `mine`
  fills: a new or parsed block with an assigned hash serialises 80 zero bytes.
  After a successful `mine`, whatever went before, the array is the block's
  header (`SealedIsConsistent`).
- `docs/ARCHITECTURE.md:106` says of the two threads "Neither can outlive the
  other, and neither can outlive its entry in the" table. The code removes the
  entry before it joins the writer, as it must, so both threads are alive
  without an entry until the writer has drained its queue or timed out; line 85
  of the same document says so. They end soon after each other
  (`BothHalvesEnd`), and an entry never outlives *them* (`NoOrphanEntry`).

`ReadersAreRegistered` is about the same passage's reason for the rule, the
receive buffers that the cap is there to multiply. It is stated for the time in
which nothing has been broadcast; afterwards a reader whose peer was evicted goes
on until its next reply fails or the writer's shutdown wakes it.

## Proofs

Each theorem holds for every value of the constants its module's named
assumptions allow (`BoundsAssumption`, `ConnectionsAssumption`,
`FramingAssumption`, `FieldAssumption`, `ReaderAssumption`,
`TransactionAssumption`, `BlockAssumption`, `LogAssumption`,
`StartupAssumption`, `DrainAssumption`, `LoopbackAssumption`). They say that
limits and lengths are natural numbers, where needed positive, and that inputs
have their types; every run whose module extends them evaluates them. No
fairness is used.

Induction. What a recursive definition or a fold computes is proved by looking at
the least counterexample: a set of natural numbers that is not empty has a least
element (`LeastNumber`), and the case below it holds. That a recursive function
exists at all, which TLA+ leaves to be shown, is proved in the same way.

### ConnectionsProofs: the table

For every set of channels, addresses and messages, every cap
and every queue length, the table keeps its type, its cap, its dial uniqueness,
the uniqueness of senders, its queue bound (`TableInvHolds`), and its ids
(`IdsHold`). The argument is a lemma
on the shape of a step (`StepShape`): it either keeps or drops entries without
changing whose they are, or inserts one entry at `next_id` after both checks.
Each invariant is shown to survive the two shapes. Cardinality needs the domain
of `peers` to be finite, which follows from the type invariant (ids are below
`next_id`). `NothingLost` needs a second lemma of this kind, about channels:
`QueueShape` says that, as long as its receiver lives, a queue is left alone, grows
at its back by one message, or loses its first.

### ConnectionsProofs: the threads

`TypeCorrect` proves the node's type invariant together
with `GuardInv`, the strengthening that ties the threads to the table: a
connection past its start has an address and an origin, an id is below
`next_id`, there is none before the registration and there is one in every stage
from the registration to the join, and no writer runs before the set-up is done.
Without it, a thread's `register`, `remove` and `send_to` could not be shown to be
operations the table's specification allows, which takes only ids that were
handed out. (That the id is the connection's own is `OwnEntryHolds`, below.)
`TableRefinement` then shows that every step is a table operation with such an
id or leaves the table alone, hence `Spec => TableSpec`, and `NodeInvariants`
carries the table's theorems over to the running node.

`NoOrphanHolds` proves that every entry's connection still holds its guard.
`NoOrphanEntry` is inductive given these invariants: an entry appears with the
guard of the connection that opens it (`StepShape` says at which id), and
`GuardsKept` shows that a guard goes only in the step that removes its own entry.

`OwnEntryHolds` is the fact the rest of the threads' theorems use: an entry
found under a connection's id is that connection's entry. From it, `EntryStep`
gives every step of the node one of three shapes for the table: it drops entries
(`Drops`: of a connection whose guard is dropped, or whose channel refuses a
message), admits one (`Admitted`), or advances one in the handshake by what its
own peer sent (`Advanced`). `OnlyOwnTeardownHolds` reads the first shape off.
`EvictedHolds` combines two facts: without a sender in the table a channel only
empties (`OnlySendersQueue`), and only the two turns of the handshake, which take
the connection's own entry, add to what its peer was heard to say (`GreetedStep`).
`ReadersHold` rests on `EntriesStay`, which starts with the set-up and not with
the read loop: without a broadcast no other thread sends to a connection, so
only its own reader can lose the entry, and it leaves the loop in the same step.

### LifecycleProofs

`HandshakeHolds`: `HandshakeIsEarned` is inductive together with
`QuietOutsideLoop` (the history of a handshake and the latch belong to a reader
that runs, so that a new entry starts from nothing). `DeadlineHolds` follows:
the only step from `checking` to `dropping` is the foot of the loop
(`CheckingStep`), which has just read a state other than Ready from the entry if
there is one. `OpeningHolds` rests on `OpeningInv`, which says for each place of
the writer what it has written first.

`LifecycleRefinement` proves `Spec => LifecycleSafety`, the refinement of
PeerLifecycle without its fairness. Each of the three shapes is a step of the
abstract specification or a stutter: `DropsLeave` (several seats may go at once,
by a broadcast), `AdmittedSeats`, `AdvancedGreets`. That a free seat in the table is
a free seat in the abstract specification takes a bijection between entries and
connections (`SeatsCounted`), which `OwnEntry` and the uniqueness of senders give.

`RepliesHold` proves `RepliesInOrder`. Answers owed and messages in the writer's
hand and queue are matched by counting: `Answers(s, i)` is the number of answers
among the first `i` messages of `s`, and the k-th answer kept is the k-th owed.
The invariant (`DebtInv`) adds what makes this inductive: nothing is kept
without a receiver, a reply is promised exactly in the stage that delivers it,
and nothing is owed before the read loop. The lemmas `QueueMore`, `TakeFirst`
and `OweMore` say what appending to the queue, taking from its front and taking
on a debt do to the match; every action is one of these or leaves the connection
alone (`Calm`).

### LoopbackProofs

Every behaviour of Loopback is one of Connections (`LoopbackIsConnections`), so
all that is proved above holds of both ends. `HonestPeersHold` and `ReadyHolds`
rest on an invariant that follows what one end says to the other along its whole
way: the answer its reader has promised, its queue, the message in its writer's
hand, the wire, and the buffer of the other end. To an end that has heard
nothing the version comes first, to none does it come twice, and there is at
most one verack on the way, none before the version it answers was handled. Each
action moves one message by one place on that way or adds one at its start.

### WireProofs

*Messages*, for every payload limit, read size and checksum function.
`BufferBoundHolds` and `NoFrameLeftHolds`: the stage agrees with the parser's
last verdict, so a reader that reads again was told "incomplete", which bounds
the buffer by the size the header claims, and a buffer that starts with a valid
frame would have parsed. `StreamIsCoveredHolds` and `OwnEncodingHolds` need to
know what joining a sequence of frames gives (`FlattenSeq`, a fold): the lemmas
on it come first in the module. `StreamInv` is inductive because a frame that
parses is the frame its command and payload encode. `OwnInv` says that, as long
as the peer has only used this code's encoder, nothing was refused, the messages
handled are the first ones it said, and what was sent and what is on the wire
are all its messages joined: the buffer then begins with the next of them or a
part of it.

*Fields.* `OnlyForwardHolds`, from the bound that every read checks before it
moves the cursor (`CursorInv`, which also says what the last read gave).
`OneFieldHolds`: the zeros that parsing strips are those that writing adds.
`CompactHolds`, in every base, for every three widths and for every number that
the widest can hold: the digits of a number are its quotients by the powers of
the base, and after `k` digits from the back the reader has the number divided
by the power that is left (`BytesReadBack`); the ranges of the writer and the
markers of the reader then match case by case.

*Transactions*, for inputs of every length. `ParsedHolds` looks back:
`WhatWasRead` says for each stage of the parser that what has been read is the
encoding of what it has found. `OwnListsHold` looks ahead: while the input
agrees with the encoding of a list this code can hold, `OwnFollowed` says that
what was found is a part of that list and that what is to come is the encoding
of the rest, so the parser neither refuses nor panics nor ends early.
`OwnTransactionsHold`, the property the run checks, is the case of one
transaction.

### BlockProofs

For every hash function, target, nonce width and list of transactions.
`SealedIsDetermined` is the invariant: a block that was just solved equals
`Mined(t, n, txs)`, what its time, target and transactions alone determine, with
the first winning nonce. That one exists is the well-ordering of the naturals.
Neither the old nonce nor the old hash or array occurs in it, whatever calls and
assignments went before, and both `SealedHolds` and `ReminingHolds` follow; both
hold whatever function the root is.

`RootHolds` is about that function, for lists of every length. The recursion of
`merkle_root` has a solution (`LevelsExist`), its k-th level is as wide as the
reference's (`WidthHalves`: half of a quotient by a power of two, rounded up, is
the quotient by the next power), so that it ends with one node; and level by
level its nodes are the nodes of the reference tree (`RootIsRefRoot`). That the
root names the list goes down from two equal roots: of two levels without a
repeated node, equal next levels come from equal levels, because only a node
that is there twice can be taken for one that was left alone
(`LevelNamesBelow`); pairing repeats no node (`PairsDistinct`); and a leaf is no
pair, so both ways down end at once (`LevelsMeet`).

### NodeLogProofs

For every finite set of threads, every capacity and number of records.
`LockInv`: the lock is held exactly by the threads that push or use the table,
at most one, and none of them prints, so no panic meets the lock
(`NeverPoisonedHolds`). `RecentOutputHolds` proves `LogIsRecentOutput` with
`RecordBegun` (what a thread is about to push has been printed), `PrintedInTurn`
(stdout shows each thread's records in order) and `WaitingFits` (no more threads
wait to push than entries were printed). The four parts of the property are
inductive only together: that the log drops its oldest entry keeps a thread's
latest only because each thread's entries are in order.

### StartupProofs

For every file, command line, list of peers and outcome of a bind.
`AdvertisedHolds`: nothing reads the configuration before the bound address is
in it (`BoundFirst`). `EveryPeerHolds`: what was tried is a prefix of what is
configured while `main` dials, and all of it once it joins (`TriedInOrder`).
`ConfiguredHolds`: the layers of `config.rs`, each of which may be absent,
against the reference "the first that says something".

### DrainProofs

For every queue length, message size, timeout and ping interval.
`StoppedReaderHolds` rests on `SilentInv`: once a write has placed a part, the
peer has been silent no longer than that write has waited, and in a write that
has placed nothing no longer than that and one timeout, because the write before
it, if it left anything, had placed a part; between messages there is no silence,
since each is ended by the peer taking its last part. `DrainHolds` uses a measure:
`Remaining` is what each place of the loop can still cost, with one more timeout
for the rest of a write that has its part, and `elapsed + Remaining` never grows.

### Only model-checked

Liveness, which TLAPS cannot handle: `BothHalvesEnd`, `StalledPeerDropped`,
`ImplementsLifecycle` (its safety half is proved), `LockIsReleased`, `NoDeafNode`,
`HandshakeCompletes`. The two refuted properties are shown by TLC's
counterexamples.

## Not modelled

- `block_storage.rs`, a stub without behaviour; the hash functions, keys and
  signatures, which are free values; the syntax of TOML and of addresses, which is
  well-formed or not.
- `PeerTable::len`, `is_empty`, `ids` and `Log::recent`, which only read and feed
  nothing but the log and the tests.
- Durations, other than those of a teardown (`Drain`): elsewhere a write ends or
  fails and a deadline has passed or not.
- Running out of memory, other than in the reservations of `parse_raw`.
- What the documents promise for later (relay, mempool, chain): no code yet.
- The Python functional tests, which were read as documentation.

## Plan

1. Done: all components above are modelled, all their safety properties that the
   runs check are proved, and so is the refinement of the abstract lifecycle.
2. When the code comes to call `broadcast`, to compare nonces or to reject blocks
   with repeated transactions, the places to change are `Broadcast` of Connections,
   `HandleVersion` and `SelfConnectionRecognised`, and the condition of
   `RootNamesTheLeaves`.
