# A verification of libToxTun

libToxTun sets up a virtual network between two friends on Tox: one of them
sends a connection request, the other accepts it, the two agree on an IPv4
subnet, and from then on the frames of a tun device travel as Tox packets.
This directory holds TLA+ modules of that program, TLC configurations that
check them on small instances, and proofs that TLAPS checks. Paths such as
`Connection.cpp:239` are below `src/src/`.

## 1. The system

| Part | Source | State | Operations |
|---|---|---|---|
| ToxTunCore | `ToxTunCore.cpp` | the map from friends to connections, the callback | dispatch of Tox packets, the API, creation and destruction |
| Connection | `Connection.cpp` | `state`, the subnet last proposed, the tun device, the fragments | one handler per packet, accept, reset, close, `iterate`, the destructor |
| Data | `Data.cpp` | one packet | build, parse, split, join |
| TunInterface | `Tun.cpp` | the port of the own tox | filter of own packets, search for a free subnet |
| TunUnix | `TunUnix.cpp` | a file descriptor | ioctls, `select`, `read`, `write` |
| TunWin | `TunWin.cpp` | an overlapped read, a list of overlapped writes | the same, without blocking |
| ToxTun, ToxTunC | `ToxTun.hpp`, `ToxTunC.cpp` | the C API keeps a callback and error texts in variables of the file | the public interface |
| toxcore | not in the repository | packets in flight | lossless and lossy packets |

Everything of one process runs in one thread: the application calls
`tox_iterate()`, which calls `toxPacketCallback` for every packet, and
`ToxTun::iterate()`, which reads the tun devices. A handler runs to its end
before the next starts. What makes the program hard is elsewhere:

* two processes that act on each other's packets, requests that cross, and
  packets of a connection that has been given up meanwhile (no packet names the
  connection it belongs to);
* Data packets, which are lossy and overtake the lossless packets that
  establish the connection they belong to;
* packets that toxcore refuses, tun devices that cannot be opened or set up,
  in the middle of a handler;
* a handler that deletes the object it runs on, and an application that calls
  the API from inside the callback, while a handler is on the stack;
* system calls that fail in the middle of a row of them;
* processes that die, restart, or exchange their ToxTunCore;
* set indices of fragments that wrap at 256, and start at 0 in every
  connection;
* on Windows, a kernel that fills the read buffer on its own time;
* variables of the C API that all instances share, and addresses that are used
  again.

What makes each part correct:

* *Connection and ToxTunCore*: the user of every node knows the state of every
  connection; a device gets an address only with the consent of its user;
  when the packets are handled both ends are connected or none is, in the same
  subnet that nothing else uses; negotiations end; resets die out; a call
  from inside a callback does not take away the object of the handler that waits.
* *Fragments*: what is joined is a packet that was sent; nothing throws; what
  stays incomplete is erased.
* *Filter*: the packets of the own tox, and only these, stay out of the tunnel.
* *TunUnix*: no descriptor is left, frames fit in a packet; no call blocks,
  unless `select` fails.
* *TunWin*: every frame is returned once, whole; while the device is open
  nothing the kernel uses is freed; no address is left on the adapter.
* *C API*: an instance is not disturbed by another one.

## 2. The modules

```
ToxNetwork            packets in flight between friends (toxcore, external)
  Connection          the state of a link and one action per handler
    ToxTunCore        dispatch, API, life of the process; Init, Next, Spec, FairSpec
      ToxTunProperties    invariants, action and liveness properties
        MCToxTun              the instances TLC checks
        ToxTunCore_proofs     theorems about what holds whatever fails
          ToxTunPairing_proofs  theorems about both ends of a connection
ConnectionLifecycle   abstract specification, instantiated by ToxTunProperties
                      and by Callbacks
PacketChannel         abstract specification, instantiated by Fragments
Callbacks   (MCCallbacks)    calls from inside the callback
Fragments   (MCFragments)    splitting, loss, joining of big packets
TunFilter                    isFromOwnTox, operators only
  TunUnix   (MCTunUnix)      the tap device of Linux and getData
TunWinIo    (MCTunWinIo)     the tap device of Windows
ToxTunC     (MCToxTunC)      the C API
```

Each of `Callbacks`, `Fragments`, `TunUnix`, `TunWinIo` and `ToxTunC` has its
theorems in a module of its name with `_proofs`, which extends it;
`FragmentsLate_proofs` extends `Fragments_proofs` with the late fragment.

`Callbacks` looks at the same handlers as `Connection` from one node's side:
what `Connection` takes as one step is cut there at every event, because the
application runs in between. `Fragments` refines what `ToxNetwork` counts as
one Data packet; `TunWinIo` and `TunUnix` refine what `Connection!Iterate`
takes as "a frame was read", and what it takes as one step when a device is
opened or given its address.

### 2.1 The protocol: ToxNetwork, Connection, ToxTunCore

A *link* `<<p, q>>` is what node `p` keeps for friend `q`: `state[<<p, q>>]`
is `Connection::state` of the entry `q` of `p`'s map, or `NoConnection`.
`lossless[<<p, q>>]` is the queue of packets from `p` to `q`; Data packets are
only counted, in `lossy`.

| Code | Module | Definition |
|---|---|---|
| `ToxTunCore::handleData` and the handler it leads to | ToxTunCore | `ReceiveLossless`, `ReceiveLossy`, with one disjunct per handler |
| `Connection::handleX` | Connection | `HandleX`, with the packets it sends, the event it reports and the deletion |
| `resetAndDeleteConnection` | Connection | `ResetAndDelete`; its packet is one of `ResetPackets` |
| `ToxTunCore::callback` | Connection | `Tell`: without a callback it ends the process |
| `sendIp` | Connection | `SendIp`; `NextSubnets` is where its loop may stop |
| `~Connection` | Connection | `Destroy`, `Farewell`, `TellsOnDestruction` |
| `sendConnectionRequest`, `acceptConnection`, ... | ToxTunCore | the action of that name |
| `~ToxTunCore`, a new ToxTunCore | ToxTunCore | `Shutdown`, `Start` |
| `Connection::iterate` | ToxTunCore | `IterateConnection` |

`State::Deleting` is set and left inside one handler, so it does not appear. A
call that throws before it changes anything is a stuttering step.

`notified[l]` is what the user of `l` has learnt, from the last event or from
the last call that took effect; it is the history the properties about users
need. When the code of a deleted Connection runs (`Connection.cpp:241`,
`Connection.cpp:329`), the process may die or go on. `setIp`, if it goes on, may
report a connection where there is none; `"Misled"` in `notified` says that this
is what the user was told last.

`Env` lists what the environment may do: refuse a packet, fail to open a
device, to set its address or to list addresses, lose what is in flight, kill
or restart a process, run without a callback, call `acceptConnection` in any
state. Each run names the kinds it includes; the proofs hold for all of them.

### 2.2 Fragments

One direction of an established connection. A byte is the pair of its packet
and its place, so a packet joined of two others is recognised. The network may
lose and reorder fragments, within two bounds that are stated as assumptions:
`MaxDelay`, how many packets later a fragment may arrive, and `MaxLossRun`, how
many packets in a row may lose a fragment. The code needs such bounds: an
incomplete set is erased only when one of the three packets 126 to 128 later
arrives whole (section 4).

When `late` is true, one fragment of an earlier connection with the same
friend is in flight at the start, with any set index; it is of packet 0. It
arrives or is lost at any time.

`PacketChannel` is what the two sides promise together: a channel of whole
packets. It knows which packets are on their way and which have lost a part, and
nothing of fragments, indices and sets. A step of `Fragments` sends, loses or
delivers a packet, gives up one that lost a part, or changes nothing that the
channel shows; which one, the refinement mapping reads off the fragments in flight
(`arriving`). It is required without a late fragment only, which the channel
could not explain.

### 2.3 TunWinIo

`Construct`, `setIp` and `Close` are the constructor, `setIp` and the
destructor with its two ways out. `dataPending`, `getDataBackend` and `sendData`
are the process' steps; `CompleteRead` and `CompleteWrite` are the kernel's.
`getDataBackend` is two steps, because the kernel may complete the read it
queues before it copies the buffer. A copy is taken as one step, although the
kernel could write in the middle of it too. `ipIsSet` is the variable of the
class, `address` is what the adapter really has. `queueRead` may throw before
or after the frame is in the buffer (`ReadFails`). `GetOverlappedResult` is only
called of a read that is completed, so its answer that the read is incomplete
(`TunWin.cpp:414`) has no step.

### 2.4 TunUnix and TunFilter

`setIp` and `shutdown` are rows of ioctls on a socket: `todo` holds those still
to be made, and `Ioctl` makes one of them, which may fail. `tap` is what has
succeeded so far on the interface. Frames arrive as soon as it is up, between
two ioctls too. `dataPending`, `getData` and `Continue` are the loop of
`Connection::iterate`. When `select` fails `dataPending` may say anything; a
`read` that is begun without a frame has no step until one comes, as it blocks.

A frame is a record of the header fields that `isFromOwnTox` looks at; `port`
stands for the two bytes after the IP headers. Bytes beyond the end of a frame
can be anything, so `isFromOwnTox` gives the set of its possible results.

### 2.5 ToxTunC

Instances by address. Instances, errors and strings carry numbers the code
does not have, to tell whose they are. `intermediateCallback` changes nothing
in the file and has no action; the calls it leads from are those of
ToxTunCore.

### 2.6 Callbacks

One node. `object` is the sequence of all Connections constructed so far, by
their state, and `entry[f]` is the index of the one the map holds for `f`. The
`stack` holds the callbacks that run; each frame says what its caller still has
to do (`then`): nothing, to delete its connection (`"Delete"`) and perhaps to go
on with it all the same (`"DeleteThenWrite"` is the `sendData` of `sendToTun` and
the log of `handleFragment`, `"DeleteThenSetIp"` the `setIp` of
`handleIpProposal` after a refused IpAccept), or to finish a
destructor whose entry has left the map (`"Unlinked"`) or will leave it with all
the others (`"Clear"`, how libstdc++ erases the only entry of a map). The API
calls are enabled in the main loop, and in a callback if `CallsIn` allows them
for its event. Packets are handled in the main loop only.

## 3. The runs

Passing runs:

| Run | Instance | Shows |
|---|---|---|
| `core_safety` | 2 nodes, 2 subnets, 7 calls, 1 lossy packet per link; lookup failures, careless users | `ConnectionIsPaired`, `SettledSubnetAgreement`, `TypeOK` |
| `core_faults` | 2 nodes, 1 subnet, 5 calls; every failure but careless users | `UserInformed`, `ConsentedAddress`, `ImplementsLifecycle` |
| `core_liveness` | 2 nodes, 2 subnets, 6 calls, no failures, fair | `NegotiationEnds`, `ConnectedTogether`, `ResetsDieOut`; `UnusedOnOwnEnd`, `UnusedOnBothEnds` |
| `callbacks` | 2 friends, 6 connections in a behaviour, calls nested to any depth | `CallsSpareTheObject`, `InformedDespiteCalls`, `EndsReportedOnce`, `CallsKeepLifecycle` |
| `fragments` | 10 set indices, 11 packets of 2 fragments, one fragment of an earlier connection | joins only what was sent, erases nothing that is needed and, in time, everything else (`IncompleteSetsExpire`); no packet is delivered twice, after a loss, or given up without one (`ImplementsChannel`); a late fragment does harm once (`LateFragmentsAreShortLived`) |
| `tununix` | frames of 22 lengths at the boundaries, every system call may fail | own datagrams dropped, others sent; `NoDescriptorLeft`, `FramesFitOnePacket` |
| `tunwin` | 4 frames, 3 writes, all failures, fair | the read state machine, the list of writes (`OverlappedOutlivesWrite`), `AddressIsUnset` |
| `capi` | 2 addresses, 2 instances, 2 errors, 2 strings | strings and errors of an instance are kept |

Runs that end in a violation; each shows a disagreement between the code and
what its documentation or comments say:

| Run | Property | What happens |
|---|---|---|
| `subnet_race` | `DistinctSubnets` | two negotiations of a node end in one subnet |
| `lost_accept` | `NoPhantomConnection` | when IpAccept is refused, Closed and then Accepted is reported |
| `tunwin_order` | `FramesInOrder` | a frame is overwritten and another returned twice |
| `filter_first` | `FirstFragmentsDropped` | first IPv4 fragments of the own tox get into the tunnel |

### Bounds, and why they are enough

*Nodes.* A handler reads and writes its own link only, except for the addresses
in use on its node; two nodes give every protocol interleaving, three give a
node with two connections. *Calls* (`MaxCalls`): a connection takes two calls,
so seven allow it to be canceled, repeated and closed from both sides with the
packets of each still in flight; the longest counterexample met while the
model was written (half a connection left by a killed ToxTunCore, section 4)
needs seven. `core_faults` has five, because a failure does what a call does
elsewhere, and its properties are proved for every number of calls.
*Subnets*: with two, every host may have none, one or all of them in use, so a
proposal is accepted at once, after a reject, or never; `core_faults` has one,
accepted or rejected, and leaves the second proposal to the other runs and to
the theorems. *Lossy packets*: one
per direction is enough to overtake any lossless packet; `MaxBacklog` limits
when it is sent, because every stray Data packet is answered with a reset and
the queues would grow without bound. *Fragments*: the half distance between
set indices must exceed `MaxDelay + 2`, as 128 does for any real delay; ten
indices and eleven packets make the index wrap, and eleven packets are past
the `ByteValues / 2 + MaxDelay + MaxLossRun` of `LateFragmentsAreShortLived`.
*TunWinIo*: a read in the buffer, one in the kernel and two frames behind them.
*TunUnix*: lengths on both sides of each check of the filter, of the two mtus
and of the buffer, offsets in each of the bytes and bits they occupy; one frame
is followed at a time, because frames do not depend on each other.
*Callbacks*: a handler touches the entry of its own friend, except where the
map is cleared, and one other friend shows that; six connections allow one
friend's to be replaced twice while the other's is, too.

Deadlock is not checked: users may stop calling, and when the bounded calls,
frames or errors are used up nothing needs to happen.

Symmetry in the nodes is used where no liveness is checked; nothing in the
protocol orders them, and `ConnectionLifecycle` treats all links alike and
states no fairness.

### Fairness

`FairSpec` of ToxTunCore assumes weak fairness of `ReceiveLossless` for each
link: the documentation asks the application to call `tox_iterate()` in its
main loop, and toxcore repeats a lossless packet until it arrives. It does not
assume that users call, that Data packets arrive, or that processes restart; so
a request that is not answered, or that crosses another one (section 4), may
ring for ever, and no property says otherwise. The liveness run has no failures
because the code has no timeout: what a lost packet leaves behind stays.

`FairSpec` of TunWinIo assumes that `iterate` is called, that the kernel
completes a read for which there is a frame, and, as strong fairness, that the
time limit of `iterate` does not cut off every single read.

## 4. What the code does not promise

Met while modelling, and excluded from the passing properties or assumed away
by name; each can be seen by the change in brackets.

* *Requests that cross.* When two friends dial each other at the same time
  each request meets a Connection and is ignored, `Connection.cpp:75`; both ring
  until one user closes.
* *Accepting in the wrong state.* `acceptConnection` on an established
  connection erases it without an event, `ToxTunCore.cpp:139`
  [`"CarelessUser"` in `core_faults.cfg`: `UserInformed` fails].
* *Half a connection.* While there is no ToxTunCore, an IpAccept that answers
  the proposal of a canceled connection is dropped, and its sender stays
  connected to nobody [`"Kill"` in `core_safety.cfg`: `ConnectionIsPaired`
  fails].
* *Proposals of canceled connections.* No packet says which connection it
  belongs to; for a time two ends may be Connected in two subnets [without
  `Quiet` in `SettledSubnetAgreement`].
* *No callback.* An event without a callback throws in a `noexcept` handler,
  `ToxTunCore.cpp:178`, and the process ends; `Tell` sets `process` to
  `"Dead"`, which the core allows under `"NoCallback"` only.
* *Closing in the callback of an end.* `handleConnectionClosed`,
  `handleConnectionRejected` and `resetAndDeleteConnection` report the event
  before they delete the entry. In that callback the old entry is still there:
  `sendConnectionRequest` to the same friend throws, and `closeConnection` or
  `acceptConnection` deletes the object the handler goes on with
  [`CallsIn <- AnyCalls` in `callbacks.cfg`: `CallsSpareTheObject` fails].
* *Going on with a deleted Connection.* `resetAndDeleteConnection` destroys the
  object and returns. `sendToTun` then writes the packet to its tun device,
  `Connection.cpp:324` to `330`; `handleFragment` reads the size of its fragments
  for the log, `:432`; `handleIpProposal` calls `setIp`, `:238` to `241`, which
  reports a connection where there is none (run `lost_accept`). `Connection` and
  `Callbacks` have all three; the process dies or goes on.
  `CallsSpareTheObject` is about what calls take away from a handler, not about
  these; `UserInformed` and `InformedDespiteCalls` except the false report by
  name (`"Misled"`).
* *Dialing while an entry is erased.* `~Connection` reports ConnectionClosed in
  the middle of `std::map::erase`. libstdc++ destroys the only node of a map and
  then resets the map, so a connection dialed to another friend in that
  callback is lost [`Env = {"CallsWhileErasing"}` in `callbacks.cfg`:
  `InformedDespiteCalls` fails].
* *Fragments of an earlier connection.* Fragments name a set, not a connection:
  a late one may be joined into a packet of this connection, or make the join
  throw in `noexcept` code. `LateFragmentsAreShortLived` says how long.
* *A failed select.* `dataPending` looks at the set after a `select` that
  failed, `TunUnix.cpp:186`, and the `read` that may follow blocks the process
  until a frame comes. TunUnix has this; no property denies it.
* *A device half set up.* `TunUnix::setIp` logs the ioctls that fail and goes on,
  `TunUnix.cpp:81` to `112`; Connected is reported for a device without an
  address, without an mtu or not up. `FramesFitOnePacket` presumes the mtu.
* *Many losses.* When the three packets 126 to 128 after an incomplete set each
  lose a fragment, sets with the same index mix and the join may throw in
  `noexcept` code [a greater `MaxLossRun` in `fragments.cfg`:
  `NeverThrows` fails].
* *ReadFile fails.* In `dataPending`, `TunWin.cpp:400`, the exception leaves the
  `noexcept` `Connection::iterate` and the process ends; TunWinIo has this as
  `Terminate`.
* *The handle of TunWin.* The constructor throws with the handle open,
  `TunWin.cpp:196`, and the destructor returns before it closes the handle when
  `DeviceIoControl` fails, `TunWin.cpp:223`; both leave the device `"Leaked"`. In
  the second case the kernel goes on with what is pending, while the object is
  freed with its list of OVERLAPPEDs, its `overlappedRead` and its `readBuffer`
  [without `device # "Leaked"`, `OverlappedOutlivesWrite` fails].
* *The last IPv4 fragment* has no "more fragments" flag, so it is judged by two
  bytes of its payload, `Tun.cpp:81`; `OthersSent` leaves later fragments out.
* *Errors of the C API* are kept by address and survive `toxtun_kill`
  (`ToxTunC.cpp:67`, `:95`): a new instance at the address that has no error of
  its own is told the old one. `LastErrorKept` speaks of instances that have one.
* *The callback of the C API* is one variable, `ToxTunC.cpp:80`: the instance
  that set it last decides for all.

## 5. The theorems

`ToxTunCore_proofs` proves, for any set of nodes, any number of subnets, any
bounds and any `Env`:

* `TypeCorrect`: `Spec => []TypeOK`. The type invariant is not inductive for
  free: that `sendIp` never keeps or proposes subnet `NSubnets` is the guard of
  its loop, and that queues hold packets needs a lemma per way of sending.
* `AlwaysInformed`: `Spec => [](TypeOK /\ AllInformed)`. `AllInformed` is the
  inductive strengthening of `UserInformed`: it states what is known of each
  link when `acceptConnection` may be called in any state, where `UserInformed`
  fails (section 4).
* `UsersAreInformed`: `UserInformed` follows when users are careful
  (`"CarelessUser" \notin Env`). What it excepts is the connection that `setIp` of
  a deleted Connection makes up (section 4), and only while there is none.
* `AddressesAreConsented`: `Spec => ConsentedAddress`. A step that sets an
  address finds the link in `ExpectingIpPacket` or `ExpectingIpConfirmation`,
  and by `AllInformed` its user has answered or called.
* `AddressesAreUnused`: `Spec => []UnusedOnOwnEnd`. A subnet travels: it is
  looked up in `sendIp`, remembered, sent, and set when an answer comes,
  perhaps in another connection. The strengthening `LookedUp` says that
  the subnet last proposed was unused on this node too, while its answer is
  expected. It presumes that addresses can be listed (no `"LookupFailure"`); when
  they cannot, the code takes every subnet for unused.
* `LifecycleIsImplemented`: `Spec => ImplementsLifecycle`, one case for each
  action; most handlers change one link, `Shutdown` and `Start` one node.

### Both ends of a connection: `ToxTunPairing_proofs`

Hypothesis `Delivering`: `Env` has no `"SendFailure"`, `"LinkLoss"`, `"Kill"` or
`"Restart"`. The code has no acknowledgement and no timeout of its own, so it
relies on toxcore to deliver what it takes, and `"Kill"` in `core_safety.cfg`
shows that the properties fail otherwise (section 4). Devices, lookups and
processes may fail, and users may be careless.

* `ConnectionsArePaired`: `Spec => []ConnectionIsPaired`. The property speaks of
  empty queues, so it is far from inductive: its strengthening `Follows` says
  for each end what is on its way. A proposal whose answer is expected is the
  last packet in its queue until it is taken (`ProposalWaits`); when it has been
  taken and the friend is not Connected, a refusal with no IpAccept behind it is
  on its way (`RefusalFollows`); an end is Connected while its friend is too,
  or is going to be because the last packet is an IpAccept or a proposal, or
  while the end of its connection is on its way (`ConnectionFollows`). The proof
  sorts the many disjuncts of `Next` into seven effects on a pair of queues and
  states, and treats each effect once.
* `SubnetsAgree`: `Spec => []SettledSubnetAgreement`, with `"AddressFailure"
  \notin Env` too. On top of `Follows`, an IpAccept on its way to an
  end that waits for it was given for the subnet this end proposed last
  (`ConsentIsMeant`).
* `SharedSubnetIsUnused`: `Spec => []UnusedOnBothEnds`, from `SubnetsAgree` and
  from `AddressesAreUnused` on each end.

### `Callbacks_proofs`

Hypothesis `Considerate`: in the callback of an end of a connection the
application calls nothing but `sendConnectionRequest`, and nothing while
`~Connection` runs. In every other callback it may call anything, to any depth.
Without it the properties fail (section 4).

`IInv` says that only the innermost callback may have a caller that goes on, and
what this caller counts on (`EndInProgress`): its object alive, its entry its
own, its user told. Because that is an end, considerate calls open no callback
on top of it that ends anything. What a caller does with a Connection it has
deleted itself comes after that. From it follow `CallsAreSafe`
(`CallsSpareTheObject`), `CallsAreToldOf` (`InformedDespiteCalls`),
`EndsAreReportedOnce` (`EndsReportedOnce`) and `LifecycleIsKeptByCalls`
(`CallsKeepLifecycle`: every step of this module, too, is a step of
`ConnectionLifecycle` or changes no status).

### `Fragments_proofs`

Hypothesis `Timely`: a fragment is delayed by at most
`ByteValues / 2 - 3` further packets (125 in the code); of three packets in a
row, one loses no fragment (`MaxLossRun <= 2`, because the code erases three
sets at a time); and the fragments of a packet can be counted in a byte, which
frames of a tun device, whose mtu is below 1500, are far from exceeding. The
code has nothing to fall back on when the network does worse; section 4 says
what happens then. The sizes of packets, the number of packets and of set
indices, and the order of fragments are arbitrary.

`Inv` is proved for connections that no late fragment reaches (`~late`). It
says where everything is: fragments in flight are at most `MaxDelay` packets
old; those kept are at most half a round and `MaxDelay` old, in the slot of
their index (`AgesInv`), so a slot holds fragments of one packet only
(`SetFacts`); of a packet that lost nothing and is in flight, each fragment is in
flight or kept (`PacketsInv`). What makes the age bound inductive is `KeptInv`:
while a set is kept, each of the three packets that would erase it has lost a
fragment or is still in flight; when they are too old to be in flight, all three
have lost one, against the bound on losses (`AgeBounded`). `PruneHits` and
`PruneMisses` are the arithmetic of the loop over `sdi + 128 .. sdi + 130`: it
hits the sets of half a round ago and none of a packet that is still arriving.

* `SetsExpire` (`IncompleteSetsExpire`), the age bound itself.
* `ThrowsNever` (`NeverThrows`): a set as big as its count says is the set of
  all fragments of one packet (`CompleteSet`).
* `SentPacketsAreDelivered` (`DeliversSentPackets`): `JoinedFacts` shows that
  `fromFragments` undoes `getSplitted`, for every size.
* `LivePacketsAreKept` (`LiveFragmentsKept`).
* `ChannelIsImplemented`: `Spec => ImplementsChannel`. The fragment that completes
  a set was the last one in flight, and after any other fragment one is still in
  flight unless one was lost (`OthersInFlight`). That a packet with a loss is never
  complete is an invariant of its own, `LossesInv`: its fragments in flight and
  kept are never all of them.

### `FragmentsLate_proofs`

`LateFragmentsDoLittle`: `Spec => []LateFragmentsAreShortLived`, under `Timely`
too, for a late fragment of any packet and any set index.

The idea is that the late fragment `f0` is kept as if it were of packet
`Takes(f0)`: the one packet of this connection, at most number `Last0`, whose set
it can be in (`TakesOne`), or a packet from before the connection, whose set would
be erased before that. With this `Number` in the place of `PacketOf`, `LateInv`
says of all fragments what `Inv` says in a connection without it, with two
exceptions. When `f0` completes a set too early, what is left of that packet
stays behind: `Broken` says that the sets it would have erased are gone already,
so it is no loss that it is never complete. And a packet that `f0` is in the way
of may be complete with a fragment to spare: while `f0` is in its set, the set has
fewer fragments than its packet (third part of `LatePacketInv`), so one of them
is still to come. `HarmInv` and `ThrownInv` are
the two ways it can end: the bytes that `fromFragments` joins are of packets 0
and `Takes(f0)` (`JoinedPackets`, for any two orders of payloads), or it throws.

### `TunUnix_proofs`, `TunWinIo_proofs`, `ToxTunC_proofs`

* *TunUnix*: `IInv` relates the ioctls still to be made to what is up. That the
  interface goes up last is why no frame arrives before the mtu was set:
  `FramesNeedNoSplit` (`FramesFitOnePacket`). `DescriptorsAreClosed`
  (`NoDescriptorLeft`) and, by the lemma
  `FilterIsRight` about all frames, `OtherFramesAreSent` (`OthersSent`) and
  `TunnelsDontNest` (`OwnDatagramsDropped`). The last one assumes IPv4 headers of
  at least 2 words: a valid one has 5, while the port behind a header of one
  word is in a frame too short for the filter to look at.
* *TunWinIo*: `AlwaysInStep` keeps what `readState` says in step with the
  kernel's read (`ReadsInStep`), what is pending in the list
  (`OverlappedOutlivesWrite`)
  and the address known to the object (`AddressIsKnown`); from it follow
  `TypeCorrect`, `FramesAreReady` (`ReadyHoldsFrame`), `ReadsDontOverlap`
  (`OneReadAtATime`), `WritesAreOutlived` (`OverlappedOutlivesWrite`) and
  `AddressesAreUnset` (`AddressIsUnset`). `ReapedFacts` is the loop of `sendData`
  on a list of any length.
* *ToxTunC*: `StringsAreValid` (`StringsStayValid`) and `ErrorsAreKept`
  (`LastErrorKept`), for any addresses and any order of creation and deletion.
  That nothing is kept for instances still to come (`NothingBefore`) is what
  keeps an address that is used again from confusing them.

The named assumptions on the constants are those of the modules; TLC evaluates
them in every run. TLC has checked the inductive invariants on the instances of
the runs before they were proved.

### Only model-checked

* Liveness: `NegotiationEnds`, `ConnectedTogether`, `ResetsDieOut`,
  `FramesAreTaken`.
* The four runs that end in a violation need no proof: a counterexample is one.

Where a proof needs an induction over data (`LeastNumber` in two modules), it is
one over the least counterexample, a set, as the prover takes no operator for a
parameter.

## 6. What is not modelled

* Deleting the ToxTun, or setting another callback, from inside the callback.
* In `Callbacks`: accepting an established connection, which is in `Connection`
  and `ToxTunCore`, and what a packet sent or a device does there.
* Which adapter the registry search of `TunWin` finds, and the lifetime of the
  bytes a pending write reads (`TunWin.cpp:444`): they belong to a Data that is
  freed when `sendData` returns, so every pending write reads freed memory.
* Malformed packets and fragments.
* Other programs that take or give up addresses meanwhile: `hostSubnets` is
  chosen at the start.
* Time: `iterate` reads as many frames as it likes.
* `Logger`, `ToxTunError`, the build system.
* Friends that go offline beyond the loss of what is in flight (`LoseLink`):
  the code does not react to it.

## 7. Plan

Done: the protocol with its abstract specification; calls from callbacks; both
tun devices; fragments, with those of an earlier connection; the C API; theorems
about each of them.

1. An abstract specification of the subnet negotiation with both ends, and the
   protocol shown to implement it while packets are delivered; the invariant
   `Follows` of `ToxTunPairing_proofs` is what its refinement mapping needs.
2. Fragments in both directions, and the data packets of the protocol sent
   through `PacketChannel`: the two compose, as the channel knows no fragments.
