# A verification project for go-odp

go-odp is a Go library (`odp/`) and a command line tool (`tool/odp/`) that drive the
Open vSwitch datapath of the Linux kernel over generic netlink. This directory holds
TLA+ models of it, the TLC configurations that check them on small instances, and TLAPS
proofs of the theorems that matter most. `PROJECT.json` maps every definition to the
source lines it models, and lists runs, mutants, findings, hazards and theorems.

## The system

| part | state it keeps | operations | hard behaviour |
|---|---|---|---|
| netlink sockets (`netlink.go`) | descriptor, port id, the kernel's receive queue; a process-wide sequence counter | `Request`, `RequestMulti`, bare `send`, `Receive`, `consume`, `Close` | leftovers of earlier calls, dumps in pieces, dropped messages, `Close` under a reader |
| message codec (`netlink.go`, `unsafe.go`) | a byte buffer and a position | put/take attributes, nest, align | alignment, 16-bit lengths, truncation |
| dpif (`dpif.go`, `genetlink.go`) | family ids and multicast groups, a global "tried to load the module" flag | `NewDpif`, `Reopen`, `Close`, `lookupFamily` | failure half way, unsynchronised flag |
| datapaths and vports (`datapath.go`, `vport.go`) | the kernel's datapaths and vports | create, look up, enumerate, delete, set upcall port ID | numbers reused between lookup and use |
| vport events (`vport.go`) | a multicast socket, a goroutine | `ConsumeVportEvents`, `Cancel` | order and loss of notifications, cancellation |
| miss consumer (`packet.go`) | three sockets, two goroutines, `vportsDone` under a lock | `ConsumeMisses`, `VportCreated`, `VportDeleted`, `Cancel` | everything above at once |
| flows (`flow.go`) | none (pure values) | encode, parse, mask, compare flow keys and actions | equality versus encoding, defaults, ambiguous attributes |
| the tool (`tool/odp/main.go`) | none between runs | subcommands that look up, then act | lookup-then-act races, abbreviations, option conversions |

Calls go down (tool, datapath and vport handles, dpif, socket, kernel). Replies and
notifications come up through `Receive`; notifications and upcalls end in callbacks
(`VportCreated`, `VportDeleted`, `Miss`, `Error`) that run on the library's goroutines.

| module | models | builds on |
|---|---|---|
| `ConsumeMisses` | the miss consumer and its two goroutines | |
| `NetlinkSocket` | the calls on one socket and their leftovers | implements `Requests` |
| `Requests` | what a caller of `Request` and `RequestMulti` may rely on | |
| `NlMsg` | building and parsing messages | |
| `Dpif` | opening and closing of Dpifs by several goroutines | |
| `Datapaths` | the datapath and vport operations and the commands made of them | |
| `Flows` | flow keys, actions and the four flow requests | |
| `FlowCommands` | the tool's flow commands | extends `Flows` |

Each layer takes for granted what the one below shows: `ConsumeMisses`, `Datapaths` and
`FlowCommands` make requests that are answered once, by their own answer (`Requests`);
`NetlinkSocket` has messages where `NlMsg` has bytes; every command opens a Dpif first
(`Dpif`). An `MC...` module gives the constants of a module their values for TLC, a
`...Proofs` module has its theorems.

## The modules

### ConsumeMisses

`DatapathHandle.ConsumeMisses` must make the kernel send every table miss of every vport
to one socket, also of vports that are created later. It listens for vport notifications,
dumps the vports, sets each of them, and leaves two goroutines behind.

| state | in the code |
|---|---|
| `pc`, `target` | where `main` (the caller), `vport` (`consumeVportEvents`) and `miss` (`consumeMisses`) are, and the vport in hand |
| `lock`, `vportsDone` | the fields of `missVportConsumer` |
| `open` | which of the sockets `dp`, `miss`, `vport` have a descriptor |
| `unvisited`, `todo` | progress of `EnumerateVports`, and the slice it returned |
| `vports`, `unknown`, `upcall` | the kernel's vports, those of a type `parseVport` does not support, those that send misses to us |
| `events`, `replies`, `misses` | receive queues of the three sockets |
| `stops` | calls of `MissConsumer.Error(_, true)` |
| `lost`, `churn`, `faults` | history: a notification was dropped, a request not sent, or a refusal not noticed; the bounds |

One call of `setVportUpcallPortId` is three steps, because the other goroutines can act
between them: `SetLock`, `SetSend` (the kernel executes the request inside `Sendto`),
`SetRecv`; `SetSendFails` and `SetRecvFails` are their error returns. `Receive` can fail
while dp is open and the answer is queued (`Recvfrom` fails, or yields a datagram of
another sender), or because the answer itself is bad; the event loop reports it and goes on.
The answer that stays behind is of `Nobody`: the next `Request` takes it, finds another
sequence number and returns without an answer and without an error, leaving its own to the
one after it. So the vport is recorded as done, and if the kernel has refused, nobody knows
(`lost`). A dump of `EnumerateVports` is one step per port number; its answers carry a
sequence number of their own and skip leftovers, and only their failure is kept. `Reopen...`, `ConsumeVportEvents`, `EnumerateVports`, `PickVport`,
`Return` and the three `Unwind...` are the statements and deferred calls of
`ConsumeMisses`. `LoopRecv`, `LoopFails`, `VportEvent`, `VportDeleted`, `MissEvent`,
`CancelVportEvents` and `CloseDp` are the loops. The kernel and the other users of the
datapath are `CreateVport`, `DeleteVport`, `OtherEvent` and `MissUpcall`.

Three facts of the kernel matter and are modelled: a notification that does not fit in
the receive buffer is dropped silently (`NETLINK_NO_ENOBUFS`); before Linux 4.19 a SET is
announced as a NEW (`SetCmd`); closing a descriptor does not wake a thread that is inside
`Recvfrom`, and its socket lives until it leaves (`Alive`).

### NetlinkSocket

The calls on one socket, and the messages that outlive them. `queue` is the kernel's
queue of datagrams, `dump` the dump in progress, which yields one more piece each time a
datagram is read; `rest` the part of the current datagram that `Receive` has not
processed; `got` what the call accepted; `op` the call, with what the kernel knows about
it (refused or not, number of items, was the socket clean). A message carries the
number `call` of the call it answers, and its header only `SeqNo(call)`, so that the
model can say when a comparison of sequence numbers is wrong.

`Request`, `RequestMulti`, `Execute` and `SendFails` start calls, `Recv` and `RecvFails`
are `s.recv`, `Process` is one invocation of the callback: `RequestMsg` ends the call
with the first message, whatever it is; `RequestMultiMsg` skips irrelevant ones.
`OtherSend` is another socket taking a sequence number, `StrayDatagram` a datagram that
`recv`, `nextNlMsg` or the port id check rejects.

`Requests` is the abstract specification: a call with a number of its own, the answers it
hands over, how it ends. It knows no datagrams and no leftovers, except that a `Request` on
a socket that was not clean may end well without an answer (`NoAnswer`, the subject of
`netlink_leftover`), and it asks that every call ends. The refinement mapping is `op`,
`got` without the message kinds, and `result`; `Implements` is the abstract specification
under that mapping, its liveness included.

### NlMsg

`NlMsgBuilder` and `NlMsgParser` on bytes. `buf` and `cap` are the slice and its capacity,
`open` the stack of attributes whose header is not written yet (in the code, the closures
inside `PutAttr`), each with the content a caller meant to put; `datagram` what was sent,
`resp` what `recvfrom` left of it, `got` what was parsed. `Room` is the reallocation, with
as many extra bytes as `MakeAlignedByteSliceCap` may leave (`Slack`). Of a header the cells
that steer the parser are kept: lengths, and the type of an attribute; the other bytes are
zero. `ParseAttrs` is `parseAttrs` with its three checks and the one it lacks (a length
smaller than the header's panics: `Error`), `Taken` the nested and the string accessors.

### Dpif

`files` is the process's descriptor table: the kernel gives out the lowest free number, and
gives it out again once it is closed. `sockFd[p]` are the `fd` fields of the two Dpifs a
goroutine `p` may have, one from `NewDpif` and one from `ConsumeVportEvents`; `fd[p]` a
descriptor held in a local variable; `reader[p]` the goroutine of the event loop. `Close` is
two steps, `CloseFd` and `MarkClosed`, and so is a receive, `ReadFdField` and `Recvfrom`,
because nothing synchronises them. `tried` is the set of goroutines that have set
`triedLoadOpenvswitchModule`; `Check` reads it without synchronisation, so it may miss what
another goroutine wrote, but not what this one did. The module registers its families one
by one (`Register`), and the ioctl returns when it is loaded.

### Datapaths

The commands `datapath add|delete|list` and `vport add|delete|list|listen`, one request at a
time, between which other programs act on the kernel. `op`, `pc`, `arg`, `spec` are a
command with its arguments; `dp` and `port` the numbers it found, which it uses in a later
request; `todo`, `at`, `found` and `printed` the progress of a list; `events`, `event` and `shown`
belong to `vport listen`. A vport carries its name, whether `parseVport` supports its type,
and `born`, which tells apart two vports with the same name and number. An answer may be
lost after the kernel has acted (`Answered`). A dump comes in pieces: `Enumerate` and
`PrintVports` send the request and receive the first, `EnumerateMore` and `PrintVportsMore`
one more, `EnumerateDone` and `PrintVportsDone` end it. What the kernel has been asked for may change
between the pieces; then it may pass over entries or give them twice, and marks the messages
with `NLM_F_DUMP_INTR`, which the code does not look at (`src/TODO` has it as to be done). `torn` keeps
which dumps of a command that befell; all others report what there is. `IdOf` is `strconv.ParseUint`: a name may be a
number.

`start`, `must`, `torn`, `named`, `deleted`, `heardFrom`, `missed` and `overrun` are history, for
the properties.

### Flows

What a client describes with flow keys and actions, what reaches the kernel, and what a
list of flows is parsed into. Bytes are sets of bits, and a bit is a pair of a field and a
position: `^` and `&` are set operations, a zero mask is `{}`, a mask of 0xff bytes is
`Bits(t)`. The `FlowKeys` map is a function from key types to `[key, mask, exact]`;
attributes are a function from their types to values, nested for the tunnel; `WrongSize`
is a value whose length the code does not expect. An error return is `Error`, a flow
without masks has `NoMasks`. When one flow of the list cannot be parsed, `EnumerateFlows`
returns no flows and an error: `listed` is empty and `result` is "unparsable".

| definitions | in the code |
|---|---|
| `NewInPortFlowKey`, `SetMaskedEth`, `SetTunnelFields`, `NewBlobFlowKey` | constructors and setters; the nine setters of the tunnel are one operator |
| `Ignored`, `KeyEquals`, `Equals` | the methods of that name, one case per kind of key |
| `WithEthernet`, `Sent`, `KeyAttrs`, `MaskAttrs`, `TunnelNlAttrs`, `Unserializable` | `toNlAttrs` and the `put...NlAttr` methods |
| `ParseFlowKeys`, `ParseFlowKey` and one operator per parser | `ParseFlowKeys` and the table `flowKeyParsers` |
| `ActionNlAttr`, `ActionEquals`, `ParseAction`, `ParseSetAction` | actions; `Number` and `Length` are the overlapping constants behind the work-around for Linux 4.3 |
| `AddInPort` ... `AddActions`, `StartSpec`, `TakeListed` | a client building a `FlowSpec`, or going on with one from a list |
| `CreateFlow`, `DeleteFlow`, `ClearFlow`, `EnumerateFlows` | the requests, refused by the library or by the kernel; what fails on the way is in `FlowCommands` |

The kernel's part is external and follows the comments of `flow.go` and the tests: one
flow per match; `IN_PORT` is exact if its key is given at all; lists mention keys that
were not set, with or without a value, bits outside the mask as given or as zeros, and the
upper half of the in-port mask set (`ListFlow`); tunnel attributes need `Ipv4Dst` and `Ttl`;
Linux 4.3 lists SET(TUNNEL) without its wrapping. Other programs install flows from
`ForeignFlows`. `f.by` is history: the `FlowSpec` a flow was created from.

### FlowCommands

`flow add|delete|clear|list`. Options are records of what their parsers can make of them
(see the head of the module); `HandleEthernet`, `ParseTunnelFlags`, `ParseSetTunnelFlags` and
the actions `LookupInPort`, `ParseOptions`, `LookupOutput` are `flagsToFlowSpec`, in its order
and with one request per vport name; `Request` ends in an action of `Flows`, and `RequestFails` is
a flow request or a list that fails on the way, carried out by the kernel or not. `Enumerate`,
`PrintKeys`, `PrintAction` and `EndOfLine` are `listFlows`; a printed line is an options
record again, so that it can be given back to `flow add` (`FlagsToFlowSpec`). The order
of a line's options is not kept. `VportsChange` is another program at work on the vports; `had` is history, the numbers that
each name has had since the command began.

## The runs

| run | shows |
|---|---|
| `misses` | `Covered`: once the event loop has caught up, every vport sends us its misses, unless a notification was dropped, a request was not sent or a refusal went unnoticed. `DoneSound`: `vportsDone` is right, or the deletion that corrects it is on its way. `ReplyIsOwn`: who waits for an answer on dp has it last in the queue, and ahead of it are only leftovers of failed receives, at most one for each. `Released`, and the inductive invariant `IndInv`. With fairness: `ConsumeMisses` returns; the notifications that setting a vport causes die out; a vport that stays gets covered; when `ConsumeMisses` fails with the event loop running, or the miss loop ends, the rest is closed, and a loop that was awake ends (`TearDown`) |
| `misses_stopped_twice` | `Error(_, true)` comes twice, and the tool's consumer closes a channel each time |
| `misses_cancel` | `Cancel` does not end a loop that is inside `Recvfrom`, against `dpif_test.go:414-420` (`CancelEnds`) |
| `netlink_safety` | the calls implement `Requests` (`Implements`). Said directly: a call accepts only its own messages (`OwnReply`), all items of a dump in order (`DumpComplete`); it is never left waiting (`NeverBlocks`); a successful dump disposes of all leftovers (`Resync`); on a clean socket a `Request` is answered (`RequestSound`) |
| `netlink_leftover` | `Request` on a socket with a leftover returns neither answer nor error, against the comment at `netlink.go:299-303` |
| `nlmsg_safety` | headers are written inside the buffer however it grew (`TypeOK`); what is parsed is a prefix of what was put, also of a datagram that was cut (`NothingInvented`), and all of it if it fits the buffer (`AllParsed`) |
| `flows_keys` | a flow matches what was asked for (`AsAsked`); it is listed as an equal `FlowSpec` (`RoundTrip`) which still names it and carries the same actions (`Reusable`); `Equals` never takes two different flows for one (`EqualsSound`) |
| `flows_df` | a match on the tunnel's DF flag alone is dropped, against `README.md:166` |
| `flow_commands` | `flow add` installs what its options say, match, SET and outputs, with numbers that the vports named have had meanwhile, and returns true for nothing that cannot be parsed but for `--eth-src` (`Installed`); a line of `flow list` can be given back (`PrintedBack`); `flow list` prints every flow, and vports that come and go do not make it fail (`ListsAll`); `Reusable` and `RoundTrip` for flows with actions, in the usual encoding and in that of Linux 4.3 |
| `flow_eth_src` | `--eth-src` with a mask as `README.md:158` writes it: the error is lost and the flow matches every source |
| `dpif_safety` | no descriptor leaks and nobody closes another's (`Owned`); nobody is told that openvswitch is missing while another goroutine is loading it (`UnavailableSound`); the event loop reads its own socket until that is closed (`ReadsOwn`) |
| `datapaths_safety` | `vport list` and `datapath list` have everything that was there throughout, received in any pieces, unless the kernel changed what a dump reports in the middle of it (`ListComplete`); a datapath argument is a name first (`DatapathMeant`); `vport delete` that succeeds has removed the vport it was given (`DeletesNamed`); what `vport listen` prints adds up to the vports there are (`Mirror`) |

What the premises of the properties leave out is behaviour the models have:

- A vport of a type `parseVport` does not support, added while listening, is never set
  (`Covered` speaks of supported types).
- `Cancel` closes a descriptor, but a goroutine that is already inside `Recvfrom` stays there
  until another message comes (`Alive`). `CancelEnds` says otherwise, as the test does, and
  `misses_cancel` refutes it; `TearDown` is what is left: a loop that is awake when its socket is
  closed ends, one that is `Asleep` once something has woken it.
- After a receive on dp has failed with its answer queued, each request on dp takes the answer
  before its own for its end. If its own is a refusal, the vport counts as done (`lost`).
- A dump of datapaths or vports that change in the middle of it may miss others that were there
  all the time, and the command returns true (`torn`).
- A `FlowSpec` without an Ethernet key is sent with one that is exact on zero addresses, and
  `AsAsked` and `RoundTrip` speak of those that have one (`Ordinary`).
- A mask that the kernel lists for a key type without a parser is not `Ignored` even if it
  is zero, so such a flow is not `Equal` to the one created; the runs let the kernel show
  types that have a parser (`ShownTypes`).
- `SetUnknownAction` is sent without the SET around it, so that `Reusable` speaks of flows
  created by the library.
- A notification that overflows the receive buffer is dropped without an error
  (`NETLINK_NO_ENOBUFS`), and the vport it announced is never set or shown: `Covered` and
  `Mirror` exclude it (`lost`, `overrun`).
- With `UnknownTypes = TRUE`, `Covered` and `DoneSound` fail: a number that main set while it
  belonged to a vport of an unsupported type stays in `vportsDone` when that vport is deleted
  (its DEL does not parse), and the next vport of that number is skipped.
- A SET of the packet priority by another program has the number and the size of a tunnel
  destination, and is parsed as a tunnel action: foreign actions of the runs leave it out.
- `datapath list` ignores the error of `EnumerateDatapaths`, prints nothing and returns true
  (`ListComplete` speaks of lists with a line; nothing in the repository says what it should return).
- `flow add` may install a number that its vport no longer has: `Installed` asks for one that it has
  had since the command began. Numbers that are too large are cut without an error, and a mask of
  `--eth-src` is lost (`Plain` excludes both; `EthSrcMatched` is about the second).
- `vport delete` may delete another vport, if the one it looked up has gone by itself and its
  number was given out again (`DeletesNamed` has the case).
- When the event loop's Dpif is closed, the loop may have read `s.fd` already, and read one
  datagram of the socket that has the number then (`ReadsOwn` ends where `Close` begins).
- An attribute of 64K and more is sent with its length modulo 2^16; a datagram that is cut
  exactly at the end of a message is not noticed (premises of `NothingInvented`, `AllParsed`).
- `parseVport` declares a second `err` for VXLAN and GENEVE: if their options do not parse, the
  `VportSpec` is nil and the error is lost. In `Datapaths` the options of a known type parse.
- `flow list` prints actions as options, which do not keep the order of SETs and outputs;
  `PrintedBack` speaks of flows that `flow add` made, which puts SETs first.

What is assumed of the kernel: a dump of datapaths or vports that do not change meanwhile
is complete (`ConsumeMisses` has one vport at a time, and each as it is at that moment);
notifications to one socket keep their order; an ifindex is not used again; deleting a
datapath announces none of its vports.

Bounds. Two vports are needed for one to be set while the other is waited for, and for a
number to be reused next to one that stays; two changes allow delete and re-create; a receive
buffer of two messages overflows in some behaviours and not in others; one failing call
reaches each error return by itself, and one failing receive leaves one answer on dp, by which
all later requests are shifted; longer queues of leftovers are left to the proofs, which have any number
of failures. The loop of upcalls needs one message (`MissBuf`). Five sequence
numbers allow two leftovers, a dump and two requests; three items allow pieces of one, two
and three with and without the end of the dump. All bounds are in the guards of the
environment (`Churn`, `Fault`, `TakeSeqNo`, `Stray`). For flows, two bits per field allow a mask that
covers part of an address and a value under its zeros; one field of each kind of tunnel
attribute (a value, a mandatory one, a flag) in all combinations of absent, zero and set;
one flow in the table (`MaxFlows`), two for the actions: flows interact only when their
matches are the same. For messages, a length modulo 16 wraps within 40 bytes, values of 0, 1, 4 and 5 bytes
are around the alignment, two messages make the position of the second matter, and a buffer
of 58 bytes cuts some pairs and not others. For `Dpif`, two goroutines and three descriptors:
enough to reuse a number under a reader, and few enough to run out of them; two families
stand for the four, the first and the last. For `Datapaths`, one process of the tool, since
`Others` may do at any time what a second one would; two datapaths, a number that can be the
ifindex of one and the name of the other; two vports, so that a number is given out twice; a
queue of one event overflows; the two names that are no numbers differ in nothing, and the run
(invariants only) takes them as symmetric. For `FlowCommands`, two vports with two numbers that change once,
two flows, and options varied one at a time with all pairs of tunnel fields. Systems may come
to rest, so deadlock is not checked.

Fairness. `FairSpec` of `ConsumeMisses` assumes weak fairness of each goroutine's steps: the Go scheduler
runs every goroutine that can run, and the lock is held only over a send and a receive
whose answer is already queued. Nothing is assumed of the kernel's other users, of
packets, of `Cancel`, or of failures. `FairSpec` of `NetlinkSocket` assumes the same of the one
goroutine that makes the calls (`Recv` and `Process`): that `Recv` can go on is no assumption,
but `NeverBlocks`. `Requests` needs no fairness of its own; it asks for `[]<>(~Active)`.

## The proofs

`ConsumeMissesProofs` proves for any set of vports, any buffer, any number of changes and
failures, and both kinds of kernel:

- `TypeCorrectness`, `SocketsReleased`, `RepliesAreOwn`: `TypeOK`, `Released`, `ReplyIsOwn`;
- `Inductive`, `DoneIsSound`, `VportsCovered`: `IndInv`, `DoneSound`, `Covered`, when no
  vport has an unsupported type (with them `Covered` fails, see above).

`Covered` says nothing about states in which the loop is behind, so it is not inductive.
`IndInv` adds `PhaseInv` (what is open and running at each label of `ConsumeMisses`),
`LockInv` (who is between send and receive holds the lock, `HoldInv`; his answer is the last one on dp
and all before it are leftovers, `ReplyIsOwn`; when nobody is, all are, `LeftInv`), `KnownInv`, `DoneInv` (a vport recorded as done, or about to be recorded because the
answer to come last is positive, has been set, or its deletion is pending), and `PendingInv`:
every vport that is not set has a NEW in the queue that will not be skipped (if the number
is recorded as done, its DEL comes first), or is in the hands of the event loop, or is
still ahead of main. The step proofs go through the actions one by one; the delicate ones
are `VportEvent` (the head of the queue may be the DEL that makes a NEW count) and
`CreateVport` (a number that is recorded as done and not set must have its DEL pending).

`NetlinkSocketProofs` proves for dumps of any length in any pieces and any number of calls,
failures and strays:

- `TypeCorrectness`: `TypeOK`; and, from `MaxSends < SeqMod` (with sequence numbers that have not
  wrapped, equal numbers mean the same call),
- `RepliesAreOwn`, `NeverLeftWaiting`, `DumpsAreComplete`, `Resynchronises`, `RequestsAreSound`:
  `OwnReply`, `NeverBlocks`, `DumpComplete`, `Resync`, `RequestSound`;
- `ImplementsSafety`: the safety part of `Implements`, `Promise!Safety`. Every step of the socket is a
  step of `Requests` or leaves what the caller sees unchanged. The rest of `Requests`, that every
  call ends, is liveness and stays with TLC.

None of the five says anything about a call that is still reading, so none is inductive.
`IndInv` adds `Numbers` (no message is queued of a call yet to come), `DumpQueued` (a dump in progress
has a piece in the queue, whose reading makes the kernel go on: this is why nobody waits in vain),
`Status` (what call and outcome can be at each place), and `Coming`: the messages of the call in what it has
still to process, in the queue and in what the kernel has still to dump form an unbroken
chain (`Chained`), from the item the consumer has seen last to the end of the answer. The chain is
given by its positions before and after each datagram, so that taking a datagram off the front and
appending one at the back shift or extend one function (`ChainShift`, `ChainAppend`), and no
induction over the queue is needed.

`FlowsProofs` proves for any key types, any number of bits, any client inputs and any
foreign flows:

- `TypeCorrectness`: `TypeOK`. Its core is `KeyParsed` and `ActionParsed`: whatever attributes the
  kernel lists, a parser returns an error, or a key of its type and an action;
- `EqualsIsSound`: `EqualsSound`, from `EqualSent` (equal keys send the same types) and
  `EqualAttrs` (with the same masks and the same bits under them);
- `FlowsAreAsAsked`: `AsAsked`, from `SentValues` (a key that is accepted arrives with its
  mask and its bits under the mask). This needs that flags are whole and in-ports exact or
  ignored, which is why `IsFlowKeys` says so;
- `ListsAreReusable`: `Reusable`. A flow is listed as `ListedKeys` (`KeysListed`, by the parsers one
  by one in `KeyListed`), which become its match again (`ListedMatch`), and its actions become
  the same attributes again, also when Linux 4.3 has unwrapped them (`ActionListed`);
- `ListsAreEqual`: `RoundTrip`, if `Comparable`. `ListedEquals` compares `ListedKeys` with the keys of the
  `FlowSpec` type by type.

`Invariance` is behind them: `TypeOK` is inductive with `FlowsInv`, by which every flow of the table
is what became of the `FlowSpec` it was created with; without it nothing is known of the attributes
that a list is made of. `ListsAreEqual` needs `MaskInv` besides. `Equals` compares a tunnel key and a
key without a parser bit by bit, so it matters whether a key has bits that its mask leaves out. Keys
made with the library's methods have none; those of other programs may, and a client that takes
one from a list, creates a flow with it and lists again gets a `FlowSpec` that is not
`Equal`: the kernel may show such bits as zeros. `Comparable` says that the foreign flows are without
them, and that the kernel does not mention types without a parser that were not set;
`MCFlows` has it as an `ASSUME`, so TLC evaluates it for each instance. `Reusable` needs no such thing.

The assumptions are that key types are disjoint, nil is not a value, clients set values of
the right size, and the kernel's attributes are values of their types or of another size.

`DpifProofs` proves for any number of goroutines, descriptors, families and failures:

- `DescriptorsOwned`, `UnavailableOnlyInVain`, `LoopReadsOwn`, `TypeCorrect`: `Owned`,
  `UnavailableSound`, `ReadsOwn`, `TypeOK`, all from
- `Invariance`: `IndInv` is inductive. `Owned` needs `PlaceInv` (which of its descriptors a
  goroutine holds at each place in the code). `UnavailableSound` needs `LoadInv`: once any
  goroutine has set the flag, or is past the ioctl, the families are all there or the attempt
  was in vain; that the flag is set after the ioctl and not before is what makes the
  unsynchronised read harmless. `ReadsOwn` needs `ReaderInv` (the number an event loop has read
  is still in its Dpif's field unless somebody is closing it).

`DatapathsProofs` proves for any number of processes, datapaths, vports, names and events:

- `TypeCorrectness`, `ArgumentMeansDatapath`, `DeletesWhatWasNamed`, `ListsAreComplete`,
  `ListenerMirrors`: `TypeOK`, `DatapathMeant`, `DeletesNamed`, `ListComplete`, `Mirror`, all from
- `Invariance`: `IndInv` is inductive. Its parts are `KernelInv` (the birth dates, by which a vport is
  told from a later one with the same number), `PlaceInv` (what a command holds at each place in the
  code), and one part for each property: `MeantInv` (between the lookup by name and the one by number,
  a datapath of that name is younger than the command), `NamedInv` (between lookup and
  deletion, the vport that was looked up can be at no other number), `ListInv` (what must be printed is there, and is printed, or its datapath
  is being dumped or still to come; unless the dump that should report it is torn), `QueueInv` (queued and printed lines are
  of vports that were created), and `MirrorInv`: for each vport that is there, no deletion is pending, and
  it is shown or its creation is pending; for each that has gone, its deletion is pending if it is
  shown, and follows its creation in the queue.

The assumptions are the types and bounds of the constants, that the kernel announces a change of a
vport as a creation or as a change (`SetCmdAssumption`), and that a free number is told from a vport
(`VportsAssumption`).

`NlMsgProofs` proves for headers of any size, any alignment, any values, types and nesting, and
allocations of any size beyond what was asked for (`Slack`):

- `TypeCorrectness`: `TypeOK`, that the buffer fits its array and the headers that are still to be written
  are inside the buffer, so that no slice expression of the builder panics;
- `NothingIsInvented`, `AllIsParsed`: `NothingInvented` and `AllParsed`, what the parser gets back of what the
  builder was given, whatever the receiver's buffer cuts off.

`IndInv` adds `OpenOK`, which says what the stack of open attributes is made of: the position of an
attribute is a number, so what is inside the buffer stays inside when it grows (`InsideMore`). A step
needs that `Align` rounds up (`AlignBound`) and that `expand` returns enough (`ExpandedEnough`). `Expanded` is
a recursive function over the naturals: `ExpandEnds` shows that such a function exists, because each
turn of the loop makes the capacity larger. Both use `SetInduction`, induction for a set of numbers,
which follows from the library's theorem that `<` is well-founded on `Nat`. The proof assumes of the
sizes what `SizesAssumption` says.

What is parsed is what was put, because three more invariants relate trees and bytes: `StackInv` (the open
attributes are nested in each other, and all but the innermost are of nested types), `ContentInv` (what is in
the buffer between two headers that are still to be written, parsed and taken as its types ask for, is the
content that has been put there), and `ParserInv` (the messages sent follow each other in the datagram, each
at an aligned position; those parsed are the first of them, and the parser is at the next). They say
nothing once an attribute's length has not fitted its field (`fits`). The parser's operators are
recursive functions, over data that shrinks: `ParseAttrsStep` and `TakenIs` show that they are what their
equations say, by `SetInduction` over the length. The steps of the builder come down to three facts about them: the same
bytes parse the same wherever they are (`ParseMoved`), bytes that are appended do not change what is parsed
before them (`ParseLonger`), and so an attribute that is closed is one more element of the content around it
(`HoldsAppended`); padding is parsed as nothing (`HoldsPadded`). That the header is written last, over
bytes already there, is the longest step (`ShutHeld`): the bytes inside the attribute stay, those outside too.
Two hypotheses are about values: no type is both a string and nested (`SizesAssumption`), and the value that
stands for an error is no list (`ErrorApart`; `NoList` shows a value that is none). The three invariants were
checked with TLC on the instance of `nlmsg_safety` too.

`FlowCommandsProofs` proves, on top of `FlowsProofs`, for any command lines with any number of outputs,
any vports that come and go, any flows and any foreign flows:

- `CommandTypeCorrectness`: `CommandTypeOK`, from `CommandInvariance`: `CommandInv` is inductive. It adds
  `IndInv` of `FlowsProofs` and `PlaceOK` (what the command holds at each place, so that the vport or the
  action it takes next exists). The commands do not use the client's steps of `Flows` to
  build a `FlowSpec`; `EthernetTyped`, `TunnelTyped` and `SetsTyped` show that what the options give is one;
- `ListsPrintAll`: `ListsAll`. `Printing` says that every flow is still to be printed or on a
  line; that a list cannot be parsed is the fault of a foreign flow (`EnumerateLists`, from `ListedSpec`);
- `AddInstalls`: `Installed`. It says nothing before the command returns; `Adding` says what
  `flagsToFlowSpec` has made of the options at each step, and that each number in it is one that the vport named has had since the command began. Such keys ask for what
  the options say (`KeysWanted`), so the flow matches it (`MatchAsked` of `FlowsProofs`), the
  SET action is sent as the fields that the options give (`SetsSent`), the attributes after it are the outputs
  (`ActionsSent`), and options that cannot be parsed are refused (`NotRefused`).

The assumptions are `TextAssumption` (a field has bits, an option names vports that can exist, its values are
bits or cannot be parsed, and what cannot be parsed or has no name is told from what can) and that numbers of
vports are values. `Printing` was checked with TLC on the instance of `flow_commands` too.

`FlowListProofs` proves, on top of them:

- `PrintedIsReadBack`: `PrintedBack`, if the kernel mentions no key type without a parser in a flow that did not
  set it (`ShownTypes \cap OtherTypes = {}`); such a key is printed as bytes that no option takes.

The property compares three things that three commands made, at three times: the options of the line, the `FlowSpec`
listed, and the one the flow was made from. One invariant stands for each stage. `ToolInv` says what
`flagsToFlowSpec` makes: keys of three types, tunnel fields masked as a whole, and outputs after at most one
SET (this is why the options, which have no order between SET and outputs, lose nothing). `EntriesInv` says that an
entry of the list is `Equal` to such a `FlowSpec`; it rests on `ListedEquals` of `FlowsProofs`, whose premises the tool's keys
meet (`ToolOrdinary`). `LinesInv` says that a line holds what is printed of the keys and of the first so many
actions, which is what the loop over the actions needs, and that the names are those of the vports now, as
long as none has moved. The last part is about operators only: the options printed of keys are parsed into keys that
are `Equal` to them, one type after the other, and the outputs become their numbers again (`LineBack`). The
three invariants were checked with TLC on the instance of `flow_commands` too.

Model-checked only: the liveness properties (`Implements` as far as it is liveness), which are outside
the prover's reach.

## Not modelled

Not modelled:

- subcommand dispatch, abbreviations and usage texts of the tool (`main.go:25-230`): lookups
  in a constant table, without state;
- `datapath listen` beyond its use of `ConsumeMisses` (`main.go:313-441`): a pipe to tcpdump
  and its file format;
- accessors of attributes that check a size and convert bytes to an integer, other than those
  `Flows` and `NlMsg` use; among them `getUint64`, which reads eight bytes at a position that
  is aligned to four (`netlink.go:422-433`): harmless on most machines, and below the model;
- two goroutines that close the same `Dpif`: in `Dpif` each goroutine closes its own, while its event loop
  reads; the library's own code closes a `Dpif` once from one goroutine;
- a failing netlink call in `Flows`: its requests are refused by the library or the kernel, or succeed.
  `FlowCommands` adds what fails on the way. Other programs' flows do not change while `flow list` runs
  (`OtherInstalls` acts between commands);
- an attribute given twice: the code collects attributes in a map, where the last one stays; `NlMsg` keeps
  their sequence, so that `NothingInvented` and `AllParsed` can speak of their order. The builder's callers
  and the kernel give each once;
- the constants and structure layouts of `syscall.go`, and the content of packets;
- the family ids that `Reopen` copies: after a reload of the module they are stale, and
  requests fail with an error of the kernel.
