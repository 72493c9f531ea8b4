# A TLA+ model of gno-ibc

gno-ibc implements the Union IBC protocol as Gno realms: a core that keeps
connections, channels and packet commitments, light clients the core asks for
proofs, and the ZKGM application (UCS03) that moves tokens over packets. This
directory models the protocol part of that code, model-checks it with TLC on
small instances and proves its central safety properties with TLAPS.

Source paths below are relative to `src/gno.land`; `core` is
`r/onbloc/ibc/union/core`, `zkgm` is `r/onbloc/ibc/union/apps/ucs03_zkgm`,
`cometbls` is `p/onbloc/ibc/union/lightclient/cometbls` and `manager` is
`p/onbloc/access/manager`. The only Go code of the repository is in `src/tools`:
generators of the fixtures the realms are tested with.

## What the system is made of

A Gno transaction runs to completion or reverts as a whole when it panics, and
calls between realms are synchronous. There are no threads: what interleaves is
transactions, on two chains, submitted by relayers that are not trusted for
anything but liveness. A relayer may repeat, delay, reorder or drop every
message, and may prove any state the other chain ever committed to.

| Component | State | Operations | What is hard about it |
|---|---|---|---|
| Packets (`core/v1/packet.gno`) | commitments by path, in memory and mirrored into provable chain params; receipts; proofs on record | SendPacket, BatchSend, PacketRecv, IntentPacketRecv, WriteAcknowledgement, BatchAcks, PacketAcknowledgement, PacketTimeout, Commit(Non)MembershipProof | duplicates, batches against single packets, timeouts against late receipts, deferred acknowledgements, fills without proof |
| Connections, channels (`core/v1/connection.gno`, `channel.gno`) | ends by id, owner port of a channel | Init, Try, Ack, Confirm, Force variants, CloseInit, CloseConfirm | stale proofs, several answers to one Init, fields the relayer fills in, closing during the handshake |
| Clients in the core (`core/v1/client.gno`) | light client objects, mirrored client and consensus states | RegisterClient, CreateClient, UpdateClient, ForceUpdateClient, Misbehaviour | expiry and freezing while packets are in flight, replacing a client |
| CometBLS client (`cometbls`) | client state, consensus states by height | VerifyCreation, VerifyHeader, updateState, Misbehaviour, Status, Verify(Non)Membership | trusting period, clock drift, old headers, forks |
| State lens client (`p/.../state_lens/ics23_mpt`) | consensus states derived from another client's | the same interface | staleness of the client underneath |
| ZKGM dispatch (`zkgm/v1/impl.gno`, `dispatch.gno`) | in the proxy's store | Send, OnRecvPacket, OnIntentRecvPacket, OnAcknowledgementPacket, OnTimeoutPacket | recovered panics turn into failure acknowledgements, only-maker answers revert |
| ZKGM token orders (`zkgm/v1/token_order.gno`, `voucher.gno`, `channel_balance.gno`) | escrow balances by channel, path and token pair; vouchers; locked amounts; token origins | verify, protocol fills, market maker fills, settle, refund, burn | two chains must agree on who holds what while orders are in flight |
| ZKGM forward (`zkgm/v1/forward.gno`) | parent packet of every forwarded child | executeForward, handleForwardChild | a deferred acknowledgement that depends on another packet's fate |
| ZKGM batch, call (`zkgm/v1/batch.gno`, `call.gno`) | none | execute, acknowledge, timeout | all or nothing on one error, per-child failures otherwise |
| Rate limit (`p/.../zkgm/tokenbucket`) | level, capacity, rate, last refill | Refill, RateLimit, Update | saturation, changes of the rate |
| Access manager (`manager`), access realm (`r/.../union/access`) | roles, members with delays, admins, guardians, target functions | grant, revoke, renounce, set admin, set delay, close target | the last administrator, delays that change |
| Upgrade and pause gates (`core/upgrade.gno`, `zkgm/upgrade.gno`, `admin.gno`) | current implementation, paused flag | RegisterImpl, UpdateImpl, Pause | swapping the code under live state |
| Proof generators (`tools/cometbls-fixtures`, `tools/gen-ethereum-*-proof-fixture`) | none | trees, tries and proofs of chosen entries | must agree with the verifiers on sides, embedded nodes and order |
| Codecs and arithmetic (`p/onbloc/encoding`, `verifier/evm`, `math/uint256`, `zkgm/path.gno`, `scale.gno`, `salt.gno`) | none | pure functions | boundaries: full paths, dust, overflow |

What makes them correct:

* an application sees a packet once, is told once what became of the packets it
  sent, and what it is told is true of the other chain;
* ends that are open are paired, one to one, with what they agreed on;
* tokens are neither created nor lost, on the two chains and in flight together;
* a client only vouches for states the other chain had, and stops when it cannot;
* only the accounts that hold a role use what the role protects.

## Modules

| Module | Models |
|---|---|
| `UnionTypes` | commitment paths and values of `p/.../types` |
| `PacketDelivery` | abstract: what the core promises an application about packets |
| `CorePacket` | the packet lifecycle on two chains with light clients of each other |
| `CorePacketProof` | proofs about `CorePacket`: types and timeouts |
| `CoreDeliveryProof` | proofs about `CorePacket`: delivery, the mirror, batches, and that it implements `PacketDelivery` |
| `MCCorePacket` | TLC instances of `CorePacket` |
| `CoreHandshake` | connection and channel handshakes on two chains |
| `CoreHandshakeProof` | proofs about `CoreHandshake` |
| `MCCoreHandshake` | TLC instances of `CoreHandshake` |
| `ZkgmTokenOrder` | what the ZKGM application does with a token order, as functions of the token state |
| `ZkgmTokens` | two chains with the application on top of `PacketDelivery` |
| `SumTheorems` | induction, powers and sums over finite sets, for the proofs about amounts and paths |
| `ZkgmTokensProof` | proofs about `ZkgmTokens`: types, custody, backing, settlement, and that it implements `PacketDelivery` |
| `MCZkgmTokens` | TLC instances of `ZkgmTokens` |
| `Tables` | maps and trees by key, as functions whose domain grows |
| `IavlProofs` | chained ICS23 proofs: the generator's trees and the CometBLS client's verification |
| `MptProofs` | Merkle-Patricia storage proofs: the verifier and the two generators |
| `LightClients` | the core's clients: CometBLS clients and state lenses over them, on top of the two modules above |
| `LightClientsProof` | proofs about `LightClients` |
| `MCLightClients` | the TLC instance of `LightClients` |
| `ChannelPath` | channel paths as numbers |
| `ZkgmForward` | forwards, calls and batches of calls over a network of chains |
| `ZkgmForwardProof` | proofs about `ZkgmForward` |
| `MCZkgmForward` | the TLC instance of `ZkgmForward` |
| `AccessManager` | roles, delays and targets of the access realm |
| `TokenBucket` | the rate-limit bucket |
| `Administration` | the access manager, the gates and the rate limit together |
| `AdministrationProof` | proofs about `Administration` |
| `MCAdministration` | the TLC instance of `Administration` |

Definitions called `...Inclusive`, `...Deleted`, `...Any` and the like, with a
comment that starts with "Mutant:", are wrong versions of the operator after
them. Nothing uses them; they are kept to show that the properties notice.

### CorePacket

Two chains `A` and `B`, each with a client of the other. `commitments` is
`Store.commitments`, `params` the provable mirror; `SetCommitments` is
`setCommitment` (both), `SetPacketsAcknowledged` is `setCommitmentMem` (memory
only). Hashes are free constructors: a path is a record of its kind and of the
packets, a commitment to acknowledgements is the list of them. A block
(`NewBlock`) appends a header that carries its own time and the root of the
state before it, which is what a client can prove at that height and what
`GetTimestampAtHeight` answers. A client has a consensus state for a set of
heights; `Status` is Frozen, Expired or Active as in `cometbls/client.gno`'s
Status, and proofs want an Active one (`getActiveClient`). Every entry point of
`packet.gno` is one action, including its loops over batches: the number of
dispatched packets `n` is the number of relayer messages, duplicates in a batch
are skipped (receive) or panic (acknowledge). The application's answer is any
acknowledgement or a deferral; deferred ones are written by
`WriteAcknowledgement`. An application that calls the core again in a callback
is covered: the call is an action of its own.

`sent`, `recv`, `intent`, `acked` and `timedOut` are history: the calls the
applications made and got.

### PacketDelivery

A packet is unsent, sent, acked or timedOut for its sender and unreceived,
received or answered on the other side. `CorePacket!Promise` maps the two cores
onto it: `DeliversPackets` says that every step of clients, proofs, blocks and
batches is one of its steps or none.

### CoreHandshake

The tables of connections and channels of two chains. `provableConnections` and
`provableChannels` collect what any block of a chain ever held, so a proof may be
arbitrarily old. The `verify` argument is FALSE in the Force variants, which
only chains in `Forcers` use. `ChannelOpenTry` takes version and counterparty
port from the message, as the code does. An application may refuse a step by
panicking in its callback: no action is forced to happen, except where fairness
says so.

### ZkgmTokenOrder and ZkgmTokens

The application is modelled over the promise of the core instead of over the
core: `ZkgmTokens` instantiates `PacketDelivery`, which `core_delivery` shows
`CorePacket` to implement, and adds the tokens of both chains in one record,
`ledger`: holdings, the channel balances (`channelBalanceV2`), the locked
amounts, the vouchers that exist and those whose foreign token, origin and image
are recorded. A packet is one order or a batch of them; what is in a packet is
fixed, so `Packets` names the packets that may ever be sent, with their caller.

`ZkgmTokenOrder` has one operator per function of `token_order.gno`. A denomination
is the token it wraps with the metadata image appended, which is what the
prediction hashes; the zero image gives the V1 form. Amounts keep both
precisions: an order carries origin units, a ledger at most six decimals, and
`ScaleDownOk` refuses dust and what exceeds `MaxInt64`. An operation is done with
an acknowledgement, or returns an error and keeps what it wrote (a voucher
created before its mint failed), or is fatal: execFatal, an only-maker answer
and a failing banker revert the transaction, so there is no step. An error is a
failure acknowledgement for a single order and fatal in a batch. `HandlePacket`
runs the handler of a callback over the orders of a packet in their sequence and
stops at the first that is not done, as the four loops of `batch.gno` do. The GRC20
ledger and the banker are modelled from how the code uses them: a ledger refuses
an address that is no account, an overdraft, an overflow of the supply and a
transfer to oneself. Whether a rate limit refuses a fill is left open
(`limited`).

What is left out here: other channels, non-empty paths, allowances, and orders
with a zero base amount. Forwards and calls are in `ZkgmForward`.

### IavlProofs and MptProofs

Pure operators. SHA-256 and Keccak are free constructors, so two preimages have
one hash only if they are equal; messages are records. A key is its place in the
order of the bytes: of the fixtures' keys these places are computed from the
strings and hashes in the source. `buildIavlRoot` pairs neighbours round by round
as the generator does, and an odd node waits; `IsLeftNeighbor` and the other
checks of the ICS23 library are external, from how the client uses them. A trie
node is referenced by its hash or embedded, depending on its length as RLP counts
it; `get` and `verifyProof` are the code's two loops. The Ethereum library that
builds the tries is external. The number of children of a branch and the length
of a hash are constants: 4 and 13 in the instance instead of 16 and 32, which
gives leaves that are embedded, leaves that are not, extensions and branches from
paths of two bytes.

### LightClients

A client's consensus state is the name of the block it was taken from; `Blocks`
and `L2Blocks` say what they hold. `clients` are the light client objects,
`stored` what the core keeps and commits of them. Creation, update, forced update
and misbehaviour are whole handlers of `core/v1/client.gno`, with the client's
part inside. A header names its block and the height it is verified from; the
zero-knowledge proof is external and says that the validators with that hash
signed. A lens names an L1 client, which may not exist yet. What a client
accepts is computed once per block, as operators on the block's name, and the
invariants look at the blocks the clients have. `past` is history: how often a
client was replaced, whether it ever accepted a header beside the chain, and the
height each state was verified from. `ChainAssumption` says what makes blocks a
chain: one per height, later ones later, each signed for by the validators the one
before it named.

Seen while modelling: a header of a height the client has is returned without
being looked at; a forced update leaves what the core stored of other heights
(`StoredFollows` allows this, for replaced clients only); a lens keeps the states
it took over from a forked L1 client after that one has been replaced, so
`ProofsSound` excludes a lens over a client that ever accepted a fork. A lens that
names itself or another lens as its L1 client is not explored: its status is its
own status again.

### ChannelPath and ZkgmForward

A path is a number in base `SlotBase` (2^32) with at most `MaxHops` (8) digits;
4 and 4 in the instance. The network is what `PacketDelivery` promises, flattened:
a packet has an outcome for its sender, was received or not, and has an
acknowledgement or not; what clients and clocks decide is that a packet not yet
received may time out at any moment and is never received afterwards.
`inflight` is the table of children of each chain; `lineage` (the parent of a child),
`ends` (the packet a parent's forwards have led to so far) and `ran` (what the
contracts of a packet answered) are history. A market maker may act on any packet that was sent or that a forward
under way would send. The salts keep what the code tells apart: the sender, and
how often they were hashed for a forward.

Seen while modelling: a path that users may send never gets full on the way, as
the child's path is made of hops that were in the forward's own path, so the
error for a full path needs a packet that no `Send` made; the check of the
child's size cannot fail either, a child being shorter than its parent. Two
packets that differ in their own timeout only have the same child; the second
parent is answered with an error, and `ToldTruly` covers both. A packet that
cannot be parsed, and token orders inside forwards, are not modelled here.

### AccessManager, TokenBucket and Administration

`AccessManager` has one action per call of the access realm; `members` holds the
second a membership starts. A missing role or target reads as its default.
`TokenBucket` is a record and one operator per method, with saturation at
`MaxUint` (2^256 - 1; 7 in the instance). `Administration` composes them: the
selectors of the core and of the zkgm proxy are asked for with `CanCall`, the
proxy's administration sets the pause, the switch and one denomination's bucket,
and received orders are charged. `spentSince` and `peak` are what an auditor
would write down. The implementations are assumed to be installed. The calls of
the access realm itself ask for the administering role or the administrator role
and do not go through a target, so closing a target does not lock them.

Seen while modelling: a membership that starts at time 0 is never active, so the
realm has to be deployed after the epoch (`StartTime`); `Update` neither refills
before it changes the rate nor lowers what is available to a lowered capacity.
`zkgm/admin.gno` and the package's README speak of charging sends; the code
charges received orders only (`v1/token_order.gno`, the two calls of `rateLimit`),
and this is what is modelled.

## Runs

| Run | Instance | Checks |
|---|---|---|
| `core_delivery` | one channel, packets with timeouts 2 and 3, two answers, three blocks, B's market makers | TypeOK, SettledOnce, ReceivedOnce, AckIsReceivers, DeliversPackets |
| `core_batches` | channel ids 1 and 2 crossed, A sends two packets and B an equal of the second, alone, both together and the first twice, two answers, two blocks | MirrorAgrees, BatchFaithful, RecvWasSent, ProvableOnce |
| `core_clients` | one packet with timeout 2, three blocks, trusting period 1, A's client freezes and is replaced, B closes | TimeoutInv, TimeoutExcludesReceipt, RecordedProofsStayTrue |
| `core_settles` | one packet, four blocks, fairness | Settles |
| `handshake_pairing` | two connections and one channel per chain, one real client, two ports and versions | TypeOK, ConnectionsPaired, ChannelsPaired, HandshakeInv |
| `handshake_live` | one connection per chain, a channel that is tried twice, A's administrator may force, fairness | AcknowledgedOpens, ClosePropagates, EndsProgress |
| `light_clients` | four blocks and two forks of L1, two states and a false one of L2, one client of each type, times 1 to 5, trusting period 2, clock drift 2, the first client may be replaced once | StoredFollows, ProofsSound, FixturesAccepted, ForksReportable, InactiveHolds |
| `forward` | a line of four chains, two packets out of twenty-two, eleven instructions with nine routes, fairness | ParentsWait, ToldTruly, PathIsRoute, AllSettle |
| `administration` | two accounts, three roles, delays 0 and 3, setback 2, times 1 to 5, capacities 2 and 3, rates 1 and 2, four administrative calls | AdminStays, WindowBound, DelaysHold |
| `tokens_fills` | a coin, three wrapped forms of it, six packets of one order | TypeOK, Custody, Backed, Redeemable, Settleable |
| `tokens_makers` | a coin, its wrapped form and that wrapped again, five packets, two of them batches, a maker with three ways to be paid | Custody, Backed, Settleable |
| `tokens_burn_doc` | the same | BurnUnimplemented, which fails |

What the token runs show. `Custody`: the proxy holds at least what channel
balances and locked amounts say (the invariant in the comment of
`AddLockedTokenAmount`, which is an equality only until somebody sends vouchers
to the proxy's own address, as `VoucherTransfer` allows). `Backed`: a channel
balance is, unit for unit, the supply of the wrapped token, what is on the way
and what was burned. `Redeemable`: no wrapped token circulates without a recorded
origin. `Settleable`: an acknowledgement or timeout never meets an error, as long
as the accounts named in orders and fills are accounts; the code checks neither
`order.Sender` on send nor the maker's address on receipt, and one that is no
account makes the callback of the whole packet panic. `tokens_burn_doc` shows
that the burn-address branch, which the application's README calls not
implemented, is taken: a native base ends up locked.

What the client run shows. `StoredFollows`: what the core stores of a client is
what the client has. `ProofsSound`: no combination of leaves, neighbours, stores
and nodes of any blocks, forks included, is accepted for something that is not
so in the block of that height. `FixturesAccepted`: what the generators make is
accepted by the client that has the block. `ForksReportable`: a fork that a client
followed can be proven to it while the state it started from is not expired, with
any conflicting block of the chain that the validators of that state signed too.
`InactiveHolds`: a client that is not active changes only by being replaced, and a
lens is as active as the client under it. The L1 blocks hold the generator's own
five sets of entries; the validators change once and overlap, the forks are signed
by those who left. One fork commits another L2 state, the other one only lies about
its time, and the false L2 state has other commitments.

What the forward run shows. `ParentsWait`: a chain waits for exactly the children
it sent on and that are not settled, and a parent without an answer has exactly
one of them, so the core never refuses an answer. `ToldTruly`: the sender is told
what the contracts at the end of the route did, and an error or a timeout only
when they did not run. `PathIsRoute`: a path is the way the packet came, and
reversed it is the way back. `AllSettle`: everything settles. The routes lead to the
end of the line, to its middle and back, and into a closed channel, a channel of
another application, half a hop, a gap and a channel the packet did not come
through; the contracts may succeed, fail or not be registered.

What the administration run shows. `AdminStays`: somebody is always an active
administrator. `DelaysHold`: nobody enters a role earlier than its delay had
announced, two changes inside a setback included. `WindowBound`: in any window, at
most the largest capacity and the largest rate for each second of the window is
let through, whatever is reconfigured inside it. One selector of the zkgm proxy
stands for its three, which differ in name only. Products of rate and time exceed
`MaxUint` in the run, so saturation happens.

Bounds. `MaxTime` is the number of blocks a chain makes: a timeout needs one
block before it, one at it and one after it, a deferred acknowledgement one more.
`Batches` names the batches that are ever used: single packets, two packets of a
channel and one packet twice are the cases the code's loops tell apart. `May`
names the chains where optional things happen and the packets a chain sends, so that each run has one source of
trouble. Two channels, two connections and a client id that does not exist are
what it takes to confuse one end with another. The token runs use amounts that
are one to eight ledger units with a scale of ten, so that dust, fees, partial
coverage and exhausted balances all occur, and each packet is a case the code
distinguishes: first use, reuse, refusal, failure half way, fill by a maker,
batch. Holders may also hand vouchers on (`Gifts`). Deadlock is not checked where the
bounds let a system run out of steps.

Fairness. `core_settles` and `handshake_live` assume that chains make blocks,
that a relayer brings clients up to date and relays what can be relayed, and that
an application that deferred an acknowledgement writes it: weak fairness of each,
because nothing takes the possibility away once it is there except the relay
itself. Nobody is assumed to send, close, fill intents or use batches. In
`core_settles` clients do not expire within the run, and `OutOfBlocks` excuses
the packets whose acknowledgement comes with the last block. `forward` assumes
that acknowledgements are relayed and that packets nobody receives are timed
out, weakly fairly together; nothing obliges anybody to have a packet received,
so every mixture of delivery and timeout along a route is there.

## Proofs

`CorePacketProof` proves, for any set of packets, batches, answers and channels
and any number of blocks,

* `TypeCorrect`: the type invariant;
* `TimeoutSafe`: a packet that timed out at its source was not and will not be
  received. The invariant by itself is not inductive: a timeout is decided on an
  old header of the other chain. `TimeoutInv` adds that headers are from the past
  (`HeadersPast`), that clients know only real headers (`ClientsKnow`), that
  receipts are equal in memory and mirror (`ReceiptsMirrored`), and the heart of
  it, `ReceiptsInTime`: a header that misses a receipt the chain now has is older
  than the packet's timeout, because the receipt was written in a block whose
  time was before it. A header at or after the timeout without the receipt then
  rules out a receipt for good;
* `TimeoutInvariant`: `TimeoutInv` itself, which run `core_clients` checks.

`CoreDeliveryProof` builds on it, for the same constants. One invariant,
`DeliveryInv`, carries all of its theorems. None of them is inductive alone: what a
chain does depends on what it believes of the other, and it believes old headers.
The parts are

* `SenderInv`, `ReceiverInv`: the histories are what the memory says. A packet was
  sent once if its commitment is there and settled once if it is `MagicAck`; it was
  seen by the application once if there is a receipt;
* `Mirrored`: memory and mirror differ in settled packets only;
* `BatchInv`: a batch commitment is absent or claims of its packets what is so
  (`Claims`), which needs that the value of an answered receipt never changes;
* `HeadersHold`: what a header proves has only grown since (`Grown`: absent may
  become anything, a receipt may get its acknowledgement, nothing else), and
  `ProofsFromHeaders`: what is on record was read off a header;
* `AckIsReceivers` and `RecvWasSent`, which follow from these when a proof is used.

The loops of `PacketRecv`, `PacketAcknowledgement` and `IntentPacketRecv` over a
batch that may repeat a packet are handled by lemmas on which packets of a batch
are new. From `DeliveryInv` follow

* `SettlesOnce`, `ReceivesOnce`, `AnswersAreReceivers`, `ReceivedWasSent`,
  `MirrorAlwaysAgrees`, `BatchesFaithful`, `ProofsStayTrue`, and the action property
  `MirrorWritesOnce`;
* `PacketsDelivered`: `CorePacket` implements `PacketDelivery`. The steps of
  clients, blocks, proofs on record, channels and batch commitments are stutters
  (`UnseenSteps`); sending, receiving (by proof and by intent), answering,
  acknowledging and timing out have a lemma each (`...Promised`), in which one
  transaction over a batch is one abstract step on the set of packets it concerns.
  A timeout is allowed by the abstract specification only for packets that were not
  received: this is where `TimeoutInv` is used.

`CoreHandshakeProof` proves, for any number of connections, channels, ports,
versions and blocks,

* `ConnectionPairing` and `ChannelPairing`: open ends are paired when nobody uses
  a Force variant. `HandshakeInv` adds that what a block held of an end is the
  past of what it is now (`ConnectionFactsPast`, `ChannelFactsPast`), that
  channels only exist on open connections and that a tried end answers an end
  that asked for its port. An Ack then cannot name an end that another one took:
  an open end that names an Init end would contradict the pairing itself.
* `HandshakeInvariant` and `TypeCorrect`: that invariant and the types;
* `EndsOnlyProgress`: no step takes an end back or changes what an open end agreed
  on, Force variants included. This needs the types only; each handler saves an end
  after it looked at the state the end was in.

`LightClientsProof` proves, for any blocks, forks, clients, times and periods,

* `StoredAlwaysFollows`: inductive with the shape of the tables (`Shape`). Each
  handler writes the client and what is stored of it together, or one client only;
* `InactiveAlwaysHolds`: an action property from the same invariant;
* `ForksStayReportable`: the invariant is `AllGrounded`: every state of a CometBLS
  client is of a block of that height, and is of the chain or was `VerifiedFrom` a
  state the client still has. What `verifyHeader` found then is found again now:
  heights and times do not change, and the clock drift only becomes larger. With
  `ChainAssumption`, the conflicting block of the chain passes the same
  verification, so the two are misbehaviour in one order or the other;
* `ProofsAlwaysSound`: clients that followed the chain have only its blocks, each at
  its own height, and so have the lenses over them (`Genuine`), even when the lens
  was there before its L1 client, or one of them was frozen or replaced. What is left
  is a fact about the roots, `TriesSound`: against the roots of the chains' own blocks
  only true proofs verify. It is about constants only and rests on recursive functions
  over trees, so it is a hypothesis of the theorem. Run `light_clients` shows that it
  holds of its blocks: each block of a chain is there some client's state, and a proof of
  the false L2 state would bring that into a lens, so `ProofsSound` would fail.

`ZkgmForwardProof` proves, for any network of chains, instructions, packets and
number of hops,

* `ParentsAlwaysWait`: every step is one of three (`Steps`): it changes one packet,
  or receives a parent and sends its child, or settles a child and answers its
  parent. `WaitInv` says that a parent and its only child go together (`Families`),
  that nobody else waits (`ParentsOnly`), and that the table is exactly the children
  not settled (`Waiting`). A child is hashed once more than its parent, so that no
  packet is its own ancestor;
* `AlwaysToldTruly`: `TruthInv` says where a chain of forwards has led (`EndsInv`),
  that contracts ran only there (`RanInv`), and that an answer is the result there,
  which is final (`ToldInv`). The history `ends` stands for the walk from a packet
  along its children; a child extends it at its end, so an answer that travels back
  through any number of parents is the same result at each;
* `PathsAlwaysRoutes`: for any slot size and number of slots (`PathIsRoute`). The
  lemmas about numbers come first: a path is a sum of digits times powers of the slot
  base (`Sums`); with digits other than 0, the sum of `k` of them lies between two
  powers (`SumBounds`), so `HopCount` finds `k` (`HopCountIs`), an update writes the
  next slot (`PathGrows`) and a pop takes the last off (`PathShrinks`); the loop of
  `ReverseChannelPath` then turns the digits around (`PathReverses`). `PathInv` says
  that every sent packet has as many ancestors as its salt was hashed, and that its
  path is the digits along them (`Way`). A child adds the channel its parent arrived
  by and the one it leaves by (`ChildPath`); if there is no room, no child is built,
  so a path never has more than `MaxHops` digits. `RouteIsWay` shows that the route
  told from the history `lineage` is that way: it stops at the packet a user sent,
  whose salt is not hashed.

`ZkgmTokensProof` proves, for any tokens and metadata, accounts, makers, relayers,
amounts, scales, endowments and packets of any number of orders,

* `TypesCorrect`, `CustodyKept`, `BackingKept`, `RedeemableKept`,
  `SettlementPossible`: the five invariants of the token runs, from one inductive
  invariant `IInv`. It was checked on the instances of both token runs before it was
  proved. Its parts are
  - `DeliveryTypes` and `Answered`: a packet's answer has one acknowledgement per
    order, and a packet answered before it was sent (an intent) was filled by makers
    only, so the protocol never fills what nobody escrowed;
  - `Sound`, of the token state: no supply exceeds an int64 (`SupplyBounded`), the
    proxy covers what it owes (`Held`, which is `Custody`), and vouchers are what they
    seem (`Recorded`: a voucher of a wrapped token wraps an existing voucher of the same
    precision, and what circulates has a recorded origin);
  - `BackedBy`, which is `Backed`;
  - `Owed`: an order that was sent has left behind what its settlement needs: an amount
    the ledger can count, a voucher where the base is wrapped, matching decimals.

  None of the five is inductive alone. A refund finds its channel balance because that
  balance is backed by the order itself among others (`Backed` gives `Settleable`); a
  burn gives back the room under the int64 bound that a refund mints into only because
  supply, orders on the way and channel balance add up, and the channel balance is what
  the proxy holds on the other side (`Custody` bounds `Backed`); and amounts of the two
  sides are comparable only because vouchers are `Genuine` and never change their scale.
  The argument goes in three layers. Lemmas on the ledger operations (`Minted`,
  `Burned`, `Moved`, `Increased`, `Decreased`) say how sums of holdings and channel
  balances change. One lemma per branch of a handler says by how much an order shifts
  the channel balance and the wrapped supply in value (`Shift`), so that `BackedBy`
  holds again with the order's slot put on the way, taken off it, or burned. Induction
  along the packet (`HandlePacket` as a recursive function of the number of orders
  handled) carries this over batches, prefixes that turn out fatal included;
* `TokensDelivered`: `ZkgmTokens` implements `PacketDelivery` with its own answers:
  each callback is one step of the promise, and each receipt answers with an
  acknowledgement per order. With `PacketsDelivered` the tokens stand on what the core
  is proved to do.

`SumTheorems` has what these proofs need and the library states with operator
parameters only: induction over the naturals and over finite sets stated with a set,
the sums of `Functions` (adding a term, changing one, splitting, bounds), and that
powers of a base exist as a recursive function and are positive.

`AdministrationProof` proves, for any accounts, roles, targets, delays, setback,
word width, capacities, rates and amounts,

* `AdminAlways`: inductive with the types. A revocation of an active administrator
  finds another active one, and time only makes memberships start.
* `DelaysAlwaysHold`: `Earliest` is the first second at which a newcomer could be
  active: the smaller of what the old value promises until the change takes effect
  and of what the new one promises from then on. `EarliestUpdate` shows that the
  setback, at least what the delay loses, keeps a change from bringing it forward.
* `WindowAlwaysBounded`: `WindowBound` itself looks at a refilled bucket and is not
  inductive. `RateInv` says the same of the bucket as it was left at its last
  refill (`Balanced`): what was charged since a second, and what is available, is
  at most the peak capacity and the peak rate up to the last refill or that
  second. `RefillBalanced` carries it over a refill, which is where the seconds
  that a new rate is applied to are accounted for by the peak rate.

The constants' assumptions are named in the modules that declare them (two
different chains, channel ids paired both ways, times are natural numbers, every
packet may travel alone, blocks of one chain, orders whose tokens live at their two
ends and that move something, senders and relayers other than the application itself,
an endowment of local tokens that a ledger can count) and TLC evaluates them in every
run.

Model-checked only:

* liveness under fairness: `Settles`, `AcknowledgedOpens`, `ClosePropagates`,
  `AllSettle`;
* `FixturesAccepted`, and `TriesSound` through `ProofsSound`: what recursive functions
  over trees and tries compute.

## What is not modelled

* Cryptography. Hashes are free constructors, zero-knowledge proofs hold of those
  who signed. Encodings (ABI, RLP, protobuf) are assumed injective; 256-bit
  arithmetic is that of the integers up to the bounds the properties are about.
* Events, gas, storage deposits, message shapes, labels of roles.
* `RegisterImpl` and `UpdateImpl`: they replace the code over a store that stays,
  and there is one implementation.
* `tools/gen-ibc-test-client`, which prints constant arguments and commands of one
  session with an earlier layout of the realms, and `tools/protogen`, which turns
  source text into source text; the scripts and the scenario tests.
* A client of a third chain, except for the state lens; channels that close under
  a forward (the zkgm application refuses to close its channels); token orders
  over several hops.

## Plan

Done: packets, handshakes, token orders over one channel, light clients with their
proofs and generators, forwards with paths, calls and batches, the access manager,
the rate limit and the gates.

Proved: packets and their refinement, token orders and their refinement, handshakes,
the stored state, forks and proofs of light clients, forwards and their paths, the
access manager and the rate limit.

Worth adding: token orders over several channels and hops, where a channel balance is
kept per path; and allowances of vouchers.
