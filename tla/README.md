# A TLA+ development of QCore

QCore is a small 5G core: it speaks F1AP over SCTP to a gNB-DU (a base station
unit), runs the NAS and RRC procedures of each UE (phone) and forwards the UEs'
packets between GTP-U tunnels and a tun device. This directory holds models of
its concurrent parts, its codecs and its conversions, the TLC runs that check
them and the TLAPS proofs about them. `PROJECT.json` maps every definition to the
lines it models.

## Inventory

| component | state | operations | what makes it hard | what should hold |
|---|---|---|---|---|
| Transaction layer, `xxap/src/net/stack.rs` | `pending_requests`, a response channel per request | `request`, `handle_message`, `handle_event`, spawned procedure tasks | requesters and readers share a list under several short locks; sends fail; the association dies; no timeout | a response reaches the request it answers; no request outlives its association; a reader does not block on a response channel, nor panic while it is the only one |
| Association pool, `sctp_tnla_pool.rs`, `sctp_association.rs`, `sctp_transport_provider.rs` | `assocs`, `tasks`, sockets | accept, read, send, terminate, graceful shutdown | shutdown against accepts, reads and sends; a lock held over waits; descriptors given out again | the map, the tasks and the sockets stay in step; shutdown returns and leaves nothing |
| User plane, `userplane/` | `index_pool`, two forwarding tables with counters, two pipelines | reserve, commit, delete; forward a packet in each direction | sessions change while packets are in flight; counters wrap; slots run out; a pipeline ends on one error | packets go only between a live session and its own tunnel; sequence numbers count |
| UE tasks, `procedures/ue_procedures/` | `ue_tasks`, a channel and a UE context per task | initial access, session establishment, release, deregistration, `destroy` | messages in any order; F1 removal, lost association and failures between any two steps | the end of a task frees what it holds; no rule without authentication; a task that should end does |
| F1AP entry points, `f1ap_handler.rs`, `f1_removal.rs`, `qcore.rs` | `ue_tasks` | spawn, dispatch, remove | each message has its own task | as above |
| F1AP procedures, `f1ap/src/top_pdu.rs`, `f1ap_cu.rs`, F1 setup, DU configuration update | none of their own | encode, route, answer, decode | a procedure's code is written in several places | a reply reaches the procedure that asked; what is provided is answered |
| NAS and PDCP contexts, `data/`, `pdcp/` | COUNTs and keys | encode, decode | counters and the first protected message | a COUNT is not used twice with one key |
| PLMN and identity conversion, `main.rs`, `protocols/nas/parse.rs` | none | conversions | two- and three-digit MNCs, odd and even MSINs | agreement with the digits |
| Header parsing in `uplink_pipeline.rs` | none | extension header loop, length checks | boundaries; a reused buffer | it stays inside the packet |
| ASN.1 codecs, `f1ap/`, `rrc/` | none | an encoder and a decoder for each type | each says order, bounds, presence bits and ids a second time; peers order and omit IEs | what is written is read back; messages of a peer mean the same |
| Builders, key derivation, SCTP bindings, SIM table | none | constants, cryptography, system calls | data, not control | not modelled |

The parts interact as follows. An association's task hands each message to the
transaction layer, which wakes a request or spawns a task that runs a handler of
`F1apHandler`. The handler creates a UE task or puts the message on its channel.
The UE task runs its procedures; for a context setup or release it calls
`request` and waits, and around a context setup it reserves and commits a user
plane session. The pipelines read the tables those calls change.

## Modules

| module | models | run by | proved in |
|---|---|---|---|
| `Stack` | transaction layer with the reading side of the association pool | `MCStack` | `StackProofs` |
| `AssocPool` | listener, association map, reading tasks, descriptors, shutdown | `MCAssocPool` | `AssocPoolProofs` |
| `PacketProcessor` | sessions, forwarding tables, pipelines | `MCPacketProcessor` | `UserPlaneProofs` |
| `Forwarding` | the service the user plane promises a session (abstract) | through `ForwardingRefinement` | |
| `ForwardingRefinement` | the mapping from `PacketProcessor` to `Forwarding` | `MCPacketProcessor` | `UserPlaneProofs` |
| `UeTasks` | UE tasks, their procedures and the map of channels | `MCUeTasks` | `UeProofs` |
| `UeSecurity` | `UeTasks` with each UE's NAS and PDCP contexts | `MCUeSecurity` | `UeProofs` |
| `PerLayout` | the statements generated codecs are made of | | |
| `F1apIesAtoD`, `F1apIesEtoL`, `F1apIesMtoQ`, `F1apIesRtoS`, `F1apIesTtoV` | the codecs of `f1ap/src/ies.rs`, in its order, each as two lists of statements; the last also those of `common.rs` and `xxap/src/ies.rs` | `MCWire` | |
| `F1apMessages`, `F1apServiceMessages` | likewise `f1ap/src/pdu.rs` | `MCWire` | |
| `F1apTopPdu` | likewise `f1ap/src/top_pdu.rs`, and its procedures | `MCWire` | |
| `RrcMessages`, `RrcReportMessages`, `RrcIesAtoN`, `RrcIesPtoW`, `RrcSidelink`, `RrcInnerOfMessages`, `RrcInnerOfIes` | likewise the types of `rrc/src/rrc.rs` that CCCH and DCCH messages and SIB2 hold | `MCWire` | |
| `PerCodec` | a value going through an encoder, a peer and a decoder | `MCWire` | `PerFieldsProofs`, `PerMessageProofs`, `PerCodecProofs` |
| `F1apProcedures` | an F1AP procedure between two ends, from request to reply | `MCWire` | `WireProofs` |
| `UplinkHeader` | the walk over an uplink packet's headers | `MCWire` | `WireProofs` |
| `MobileIdentity` | configured PLMN, a UE's identity, the IMSI looked up | `MCWire`, `MCIdentity` | `WireProofs` |

Operators whose comment begins with "Mutant" are wrong variants of a definition
that follows. No specification uses them; each one is substituted for its
definition to confirm that a property would notice the mistake.

### Stack

An entry of `pending_requests` is a match function and a sender. The match
function reads the message's kind and procedure code only, so an entry is the
caller that holds the receiving end (`pending` is a sequence of callers) and
`Matches` compares with that caller's `code`. `Push`, `SendOk` or `SendFail`,
and `RecvReply` or `RecvClosed` are the steps of `request` between its awaits.
`Position` and `Route` are the two separately locked halves of `handle_message`;
`RoutePanics` is `swap_remove` out of range. A stream ends (`StreamEnds`) when the
peer has closed the association and its data has been read, or when a local
shutdown (`Stop`) has dropped the stop source, which `take_until` looks at first.
`Terminated` is then the drain of `handle_event`, `Remove` the end of
`handle_assoc`. After a local shutdown the socket is still connected between the
two: a request sent there waits with no reader, which `WaitingHasReader` excepts. The
peer answers in any order, sends messages of its own and closes associations, with
or without the loss of data received. The field `for` of a response says whose
request it answers; only properties read it. Whether two associations have ever
been read at one time is kept in `crossed`, for the properties that need it not
to have happened.

Messages are F1AP PDUs. `match_fn` indexes their first two octets, so a message of
one octet, which the model's peer does not send, would panic while a request is
pending (`stack.rs:98`).

### AssocPool

A task of `handle_assoc` is known by its number in the order of acceptance;
`fd[n]` is the descriptor it works with, and the key of the map `assocs`. `Accept`
is the accept branch of `serve` up to the wait for the task list's mutex,
`PushHandle` what follows it. `SctpTnlaPool::graceful_shutdown` is run by main and
by the listener (`LockTasks`, `StopNext`, `Join`, `Drained`, with the drainer as
parameter) and keeps the mutex while it joins. `Terminated`, `Remove` and `End`
are the event, the removal from the map and the drop of the task's reference,
which closes the socket unless a `send_message` in progress holds another
(`PickAssoc`, `Sent`). `Stack` models what the handlers do with a message or an
event; `AssocPool` which tasks and sockets exist at all.

### PacketProcessor

A user is one PDU session establishment. `NewId` and `AddUplink` are the two
halves of `reserve_userplane_session`, `DeleteDownlink` and `DeleteUplink` those
of `delete_userplane_session`: each waits for one table's lock. A pipeline binds
its table entry by reference, so its guard lives until the handler returns and
the table is locked while the packet goes out (`dlPc = "send"`,
`ulPc = "write"`). The comments `-- end critical section --` in the pipelines
mark an earlier point than the one where the lock is released. `DlPanicIndex`,
`UlPanicIndex` and `DlPanicOverflow` are panics, which end the process; on
counter overflow the model has both outcomes, wrapping and panicking, because
the build decides. `DlEnd` and `UlEnd` are errors that end a pipeline for good.
Uplink packets enter with the headers of a user data packet; `UplinkHeader` is
about the others.

`Forwarding` says what all this is for, without tables, slots, TEIDs or locks: a
session has a gate that its calls open and close once in each direction, packets
pass an open gate only, a gate does not close on a packet that is passing, and
the packets that pass are numbered. `ForwardingRefinement` maps a session's
progress to its gate and the packet in a pipeline to the session it belongs to;
`GivesForwarding` is the abstract specification under that mapping. The gate is
closed only when the lock says so: it is the table lock, held while a packet
goes out, that makes `CloseDownlink` and `CloseUplink` wait.

### UeTasks

`pc[u]` is the step of UE `u`'s task, named after the answer it waits for.
Messages are told apart as far as the handlers do. Whether an answer's contents
are accepted (known SIM, PLMN, authentication response) is a free choice, as are
the outcomes of the DU's answers. `net` holds the messages that tasks of the
transaction layer have yet to dispatch, in no order. `Closed` is the condition
under which `recv` fails. An F1AP request (`AskDu`) ends with the DU's answer or,
when the association is lost, with an error (`lost`, `RequestLost`).

Two assumptions: UE ids are fresh (the code draws 32 random bits), and the first
message on a task's channel is the initial one, since the DU learns the id from
the task's first downlink message. The branch of `UeMessageHandler::run` for
another first message is therefore not in the model.

### UeSecurity

Each step of `UeTasks` that sends a downlink message also encodes it. `SecNext` is
`Next` of `UeTasks` together with `SecStep`, which says what happens to the
contexts: `NasContext` is put in place, with count 0, for the security mode
command; `NasHeader` and `NextDlCount` are `encode_with_integrity`; `Encoded` adds
what `PdcpTx::encode` does. `dlSent` records the messages for the properties. A
message is encoded whether or not the association is up to carry it, as in the
code, where `f1ap_indication` does not report an error. A session's accept is
encoded a little before it is sent; when the establishment fails in between, the
task ends and its contexts with it.

### Codecs

The generated codecs are thousands of functions of a few shapes. `PerLayout` has
one constructor per statement shape. The table modules (`F1apIesAtoD` to
`RrcInnerOfIes`) follow the order of the source files: a definition
`From<Type>` holds a run of adjacent types, starting with that one, and `Codecs`
is the set of these tables. For each type a table gives what its `decode_inner`
reads and its `encode_inner` writes, in the order, with the bounds, presence
bits, ids and casts of the source. Reader and writer are translated
independently: nothing in the model makes them agree.

`PerCodec` executes them; its variable `codec` holds the type's two programs. A
value is abstracted to which `Option` fields are `Some`, which variant it is, and
one end of every range; the wire is a sequence of tokens that carry the bounds
they were written with, since a field read with other bounds takes other bits
(`misread`). Between the two a peer may order, repeat, omit or add IEs or send a
choice or enumeration value of a later release, or a sequence with a later
release's additions (`PeerAppends`). Nested types are tokens: each type is checked
once, on its own.

The decoders treat the two kinds of extension differently. The extension bit of a
choice or an enumeration is looked at and refused. That of a sequence goes into
`_extensions_present`, or is dropped with the header of a message, and nothing
looks at it: the value is read as if there were no additions and the decoder stops
in front of them. Since a message's loop drops the length of each IE too, they are
not skipped, and what reads on after the value takes them for its own data.
`PeerUnderstood` says all of this of a type on its own; what an enclosing type then
makes of the additions depends on their bits and is not followed.

`TablesMatch` says what the two programs of a type have to agree on, statement by
statement, for each of the five shapes a type can have (`FieldsMatch`,
`MessageMatch`, `ChoiceMatch`, `EnumMatch`, `ProcedureMatch`). It is an assumption
of the module: TLC evaluates it on every type of the tables, and the proofs start
from it. It compares programs, not executions; that programs which agree in this
way read back what was written is what is checked and proved.

### F1apProcedures

Over the tables of `top_pdu.rs`: the request of any of its procedures, from
either end, while other tasks of both ends push requests of other procedures
before it or after it. `FindPending` and `TakePending` are the two separately
locked halves of `handle_message`: the position of the first pending entry that
matches the reply, and `swap_remove` of that position, with requests of other tasks
coming in between. The CU routes what `F1apCu::route_request` has an
arm for; the DU (external) answers everything, with either outcome. What happens
with two requests of the *same* procedure is `Stack`'s subject. The assumptions
`RequestsDecode`, `RepliesDecode` and `ProceduresDistinct` say what the five places
that spell a procedure's code have to agree on; TLC evaluates them on every
procedure. Two error paths are not taken. Encoding a reply (`transaction.rs:132`)
does not fail, because its values are constants or were decoded from the request;
and `todo!()` in `call_provider` is not reached, because the three providers of
QCore return `Ok` (the only `?` in them is over the encoding of a constant SIB2).

### UplinkHeader and MobileIdentity

`UplinkHeader` looks at one octet per step and chooses its value then. `furthest`
is the largest index looked at. A length octet of 0 is the state `spinning`: the
code's loop would read the same octets again for ever. `MobileIdentity` has the
nibbles of `convert_mcc_mnc` and `fgs_mobile_identity`, fillers included.

## Runs

| run | instance | shows |
|---|---|---|
| `stack` | 2 callers; 1 association with 2 codes and 1 initiating message, or 2 associations with 1 code (159,858 distinct states) | `NoPanicAlone`, `ReplyHasRequestedCode`, `WaitingHasReader`, `ResponseChannelFree`, `RequestEndsWithAssociation` |
| `packet_processor` | 3 users, 3 slots, 4 octets, counters of 4 and 8 with fields of 2 and 4, 5 packets per session | type invariant; `SessionKeepsRules`, `DownlinkHasUplink`, `DownlinkToLiveSession`, `UplinkFromLiveSession`, `SequenceNumbersCount`; the refinement `GivesForwarding` |
| `ue_tasks` | 1 UE with its security contexts, 2 session requests, 3 unsolicited messages of 5 kinds, 5 NAS COUNTs | `ExitFreesResources`, `RulesOnlyForAuthenticated`, `CountsFresh`, `AcceptsProtected`, `RemovedEnds`, `ReleaseEnds` |
| `assoc_pool` | 3 associations over 2 descriptors | `MapMatchesTasks`, `OpenWhileUsed`, `ShutdownLeavesNothing`, `ShutdownReturns`, `DeadAssociationLeaves` |
| `wire` | all types of the tables; all F1AP procedures, with up to 2 pending requests at an end; 9 packet lengths, 4 extension lengths; MCCs, MNCs, PLMNs and MSINs of small digit sets (161,906 distinct states) | `RoundTrip`, `PeerUnderstood`, `ReplyReachesItsRequest`, `ServedIsAnswered`, `LooksInsidePacket`, `InnerPacketLength`, `ImsiIsTheSubscribers` |

The run `wire` checks four specifications that share no state; each initial state
belongs to one of them and the others rest.

The other seven runs each exhibit a disagreement between the code and what a
comment or design document says:

| run | disagreement |
|---|---|
| `stack_reply_routing` | with two requests of one procedure in flight, answered in the other order, a response goes to the wrong requester (`stack.rs:98`) |
| `stack_stale_entry` | the entry of a request whose send failed takes a later request's response (`stack.rs:104`) |
| `stack_two_tasks_panic` | with two associations, the index found can be out of range when used (`stack.rs:193`) |
| `index_pool_exhaustion` | indices of deleted sessions are not reused (`packet_processor.rs:143`) |
| `session_leak` | a session reserved for a context setup that fails is never deleted (`pdu_session_establishment.rs:39`) |
| `imsi_odd_msin` | with a three-digit MNC an MSIN has nine digits, and its filler is written into the IMSI as 15 (`parse.rs:42`) |
| `accept_without_security_mode` | any message, or a closed channel, passes for the RRC security mode complete (`initial_access.rs:88`) |

### Bounds

* `Stack`: two callers are enough for every pairwise race on the list, and a
  caller makes any number of requests until one fails. Associations close, are
  shut down and are accepted again without limit. A behaviour belongs to one of
  the `Scenarios`: everything over one association, or requests of one procedure
  over two. One initiating message exercises the spawning branch. State is finite because the peer holds one request per
  caller, code and association.
* `PacketProcessor`: slot 0 is never given out, so 3 slots serve two users and
  refuse the third. One octet value lies beyond the table. `MaxSent = 5` takes
  the PDCP counter through its wrap and its field through two; the NR counter's
  field wraps once. `MaxSent` is a guard of `DlForward`.
* `UeTasks`: UEs share only the map and the association, and every property is
  about one UE at a time; other UEs act on those two only through their own
  entry, so one UE is checked and the proofs cover any number.
  `MaxSessions = 2` makes a second session fail after a first succeeded;
  `MaxSpont = 3` allows two session requests and a release. `Unsolicited` has one
  message for each way a handler treats an unasked one, and an authentication
  response out of turn; the proofs cover any set. A message equal to one still
  in `net` is not sent a second time.
* `UeSecurity`: a UE needs a NAS COUNT for the security mode command, the accept
  and each session. `UeSecurityAssumption` says that there are enough, and 5 for
  2 sessions is the least it allows. In the code there are 2^24, and the index
  pool limits the sessions of the whole process to 253.
* `AssocPool`: two descriptors give an association that keeps its descriptor and
  one whose descriptor is given out again; the third association (`MaxAccepts`,
  a guard of `Accept`) is the one accepted on it, or during the shutdown. One
  `send_message` is in progress at a time: two senders do not affect each other.
* `PerCodec`: with `Sampled`, as in the run, every `Option` field present, absent,
  alone present and alone absent; every variant; both ends of every range; one
  disturbance by the peer. Without it, any set of `Option` fields and any number
  of exchanged IEs: the proofs cover both.
* `F1apProcedures`: `MaxPending = 2` puts a request of another procedure before
  the one observed, or after it, which is then the one `swap_remove` moves. The
  proofs cover any number.
* `UplinkHeader`: lengths on both sides of each limit (31, 35 and 39 octets), and
  extension headers of 0, 1, 2 and 255 units. The proofs cover any lengths.
* `MobileIdentity`: two- and three-digit MNCs, PLMNs that differ from the
  configured one in a nibble, and MSINs of odd and even length. `imsi_odd_msin` has
  a three-digit MNC with MSINs of eight and nine digits.
* Symmetry is not used: the larger runs check temporal properties.

Deadlock is not checked where a panic ends the process
(`stack`, `packet_processor`, `index_pool_exhaustion`) and where
the modelled work comes to an end (`assoc_pool` after the shutdown, `wire`, `imsi_odd_msin`).

### Fairness

`Stack!FairSpec` has weak fairness of each caller inside `request` and of each
association's task; `UeTasks!FairSpec` of each UE's task and of the tasks that
dispatch its messages. async-std polls every task that has been woken, and none
of these tasks spins, so a task that can continue does. A caller need not start
a request. `UeSecurity!FairSecSpec` is that of `UeTasks`. `AssocPool!PoolFairness`
adds strong fairness where a task competes: for the mutex of the task list, which
async-std hands to a waiter that has been passed over, and for the stop branch of
the listener's `select!`, which picks at random among the branches that are
ready. Neither `Accept` nor a message is assumed to happen. Nothing is assumed of the DU, the UE or the network: the liveness
properties say what the code achieves without them, which is why `RemovedEnds`
and `ReleaseEnds` except a task that waits forever for the DU (there is a
`TODO - timeout` at `stack.rs:108`), and why `RequestEndsWithAssociation` starts
from the loss of the association.

## Proofs

Every safety invariant, action property and refinement that a passing run checks
is also a theorem; what remains to TLC is listed at the end of this section. A
theorem holds for all values of the constants that satisfy the named assumptions.

* `StackAssumption`, `PacketProcessorAssumption`, `CounterAssumption`,
  `UeTasksAssumption`, `UeSecurityAssumption`, `PoolAssumption`, `UplinkInputs`,
  `IdentityInputs` and `OthersAnswerable` say no more than that sets are not empty,
  numbers are naturals and digits digits, a table is not longer than an octet
  reaches, a field's modulus divides its counter's, COUNTs are not fewer than a UE
  needs, and a request others wait on has a reply.
* `TablesMatch`, `RequestsDecode`, `RepliesDecode` and `ProceduresDistinct` are
  about the generated tables. TLC evaluates them on all of the tables in the run
  `wire`, so they are facts of the source and not hypotheses about it; a proof
  that unfolded the tables would only repeat that evaluation.

**StackProofs.** `WaitingHasReader` is not inductive alone: it needs that a
caller has at most one entry it still waits on and knows where each entry came
from. `IInv` joins `TypeOK`, `Distinct` (no caller twice in the list),
`EntryOwner` (whose entries may be there), `ResponseChannelFree`, `LinkHasReader`
(a connected association is being read, or was shut down locally) and
`WaitingHasReader`. From it follow `WaitingHasReaderAlways` and
`ResponseChannelFreeAlways`, for any number of associations. `AloneInv` is about
the time until two associations are read at once (`~crossed`): `AloneReads` says
that at most one is read, and `HeldEntryMatches` that the entry chosen under the
first lock is still the same under the second, because only that association's
task removes entries. Hence no panic (`NoPanicAloneAlways`) and replies of the
right procedure (`ReplyHasRequestedCodeAlways`). The run `stack_two_tasks_panic`
shows that the assumption is needed.

**UserPlaneProofs: sessions and tables.** `IInv` joins `TypeOK`, `SlotsDistinct` (no two
numbered sessions share a slot, since ids are never returned), `DlOwned` and
`UlOwned` (a rule in a table belongs to a session in the right state and sits in
its slot), and the three properties they support.

**UserPlaneProofs: sequence numbers.** `SeqInv` adds `CountersCount` (a rule's
counters are the session's packets modulo their width), from which the fields
follow by `CounterAssumption`.

**UeProofs: tasks.** `IInv` adds to `TypeOK`: `Started` (a task's state agrees with
its intake), `Accounted` (every rule is of a session in the UE context or of the
last reservation), `Reserved` (a task in a context setup has a reservation),
`EndsAreClean`, `LostWaits` (a failed request belongs to a task that waits),
`AuthedSteps` (steps after authentication are of authenticated UEs) and
`RulesOnlyForAuthenticated`. `TypeOK` alone is not inductive: the session
committed by `SetupAnswer` is well typed only because of `Reserved`.

**UserPlaneProofs: refinement.** `GivesForwardingAlways` shows `Spec => GivesForwarding`: every step of
`PacketProcessor` is, under the mapping, a step of `Forwarding` or a stutter. It
rests on `IInv`, on `SeqInv` for the numbers, and on `DownNamed` (the downlink
packet in the pipeline has a session exactly while it is being sent). The mapping
chooses the session whose TEID an uplink packet carries; `UplinkSessionIs` shows
there is only one, and `UplinkSessionKept` that it stays the same while the packet
is written.

**AssocPoolProofs.** `PoolInv` joins the types, `MapMatchesTasks` and
`OpenWhileUsed`, which need each other (a descriptor in use is not given out, so
no entry is overwritten), with `NumbersInOrder` (tasks beyond `accepted` do not
exist), `OwnDescriptor` (two tasks that have not ended differ in descriptor),
`Reachable` (every unended task is in the task list, in the listener's hands or
being joined) and `Order` (what main, listener and lock can be at one time).
`ShutdownLeavesNothing` follows from the last two: when the listener has drained
the list and exited, nothing is reachable.

**UeProofs: contexts.** `SecImplementsUeTasks` carries all that is proved of
`UeTasks` over. `NextMoves` sorts its actions by how they move a task;
`SecInv` then adds `ContextAt` (what the contexts are at each step), `Behind` (the
COUNTs used are below the next), `Fresh` and `Fit`, the last two being the
properties.

**WireProofs: uplink headers.** `UplinkInv` says at each step how much of the
packet is known to lie beyond `offset`.

**WireProofs: procedures.** `ProcInv` joins the types with `Pending` (while the reply
is awaited, the request is in the list it was pushed to), `OnTheWire` (the message is
the running procedure's, with the outcome that was meant) and `Found` (the position
found under the first lock still holds a request of the running procedure under the
second: what came in since is behind it). So the entry taken is the running
procedure's (`RepliesReachTheirRequests`), and the procedures the CU provides are
answered (`ServedAreAnswered`).

**WireProofs: identities.** `IdentityCorrect` is about two conversions that have to
be each other's inverse: `convert_mcc_mnc` swaps nibbles into three octets, with a
filler for an MNC of two digits, and `fgs_mobile_identity` takes octets apart.
`PlmnRoundTrip` compares them nibble by nibble and `MsinRoundTrip` does so for an
MSIN of any length; the filler of an odd one stays in (`imsi_odd_msin`), so the
theorem is about even ones. The code writes each nibble out in decimal, so what the whole
sequence becomes is a recursive function of it; `WriteOutOfDigits` shows that it is
the sequence itself when all nibbles are digits. It needs an induction over the
sequence's length, which is done with the least length for which it would fail
(`LeastElement`, from the well-foundedness of the naturals).

**PerFieldsProofs, PerMessageProofs, PerCodecProofs.** `RoundTrip` and
`PeerUnderstood` speak about the end of a decoder's run; the invariant has to say
what wire, container, position and fields are after every statement. A type has one
of three shapes, each with its own invariant:

* `SingleInv`, for a choice, an enumeration or the procedure table: one token or
  two, possibly one of a later release, which is refused.
* `FieldsInv`, for a sequence or a single value: `Encoded1` gives the container and
  the wire when the encoder is at a statement, `Reading` the position, the presence
  bits and the fields when the decoder is. Both refer to `At(p, v, i)`, the place on
  the wire of what statement `i` writes, which is a count of the statements before
  it that write. That the count goes up by one at such a statement (`AtCounts`) is
  an assumption of the lemmas about sequences, and shown in `AtDoesCount` from the
  theory of finite sets.
* `MessageInv`, for a message: `Lists` says that a stretch of the wire holds each IE
  of a set exactly once, in no particular order. That is what is left of the
  encoder's order once the peer has exchanged IEs any number of times, and it is
  enough for the loop of the decoder. `MessageWire` adds the IE that is omitted,
  repeated or unknown.

`CodecInv` joins the three: the programs match, the value is one of the type, and
the invariant of the type's shape holds. `CodecsRoundTrip` and
`CodecsUnderstandPeers` follow for any tables that satisfy `TablesMatch`, any set of
`Option` fields and, unlike the run, any number of exchanges.

**Only model-checked.** The liveness properties (`RequestEndsWithAssociation`,
`RemovedEnds`, `ReleaseEnds`, `ShutdownReturns`, `DeadAssociationLeaves`) rest on
fairness and so on `ENABLED`, which the prover does not handle. The properties of
the violation runs do not hold.

## Not modelled

* RRC types that no message of the CCCH or DCCH and no SIB2 holds. Nothing in the
  program encodes or decodes them.
* The bits of PER: alignment, lengths in octets, and the external library that
  writes them. So the unit in which an unknown extension IE is skipped
  (`advance_maybe_err`) is outside the model, and no such IE is sent.
* Integers beyond the root of an extensible range, which the generated code casts
  to the width of the root.
* The connecting side of SCTP and `new_ue_binding`, which QCore does not use;
  socket options and system calls.
* Post-response actions of procedures: no procedure of QCore has one.
* Messages of fewer than two octets; the failure of an encoder of QCore's own
  messages; what an enclosing type makes of additions left unread (see above).
* Message builders, cryptography, statistics, the SIM table, start-up.
* The tun device's descriptor: both pipelines own it (`packet_processor.rs:41`), and
  the one that ends first closes it.
* What no comment, document or test settles has no property: the panic on an
  octet beyond the table (`downlink_pipeline.rs:124`), the endless loop on an
  extension header of length 0 (`uplink_pipeline.rs:115`), a UE inserted just after
  an F1 removal (`qcore.rs:114`).

One remark needs no run: the help text of `--ue-subnet` says that UEs are allocated
host numbers 1-254 (`main.rs:40`), and the tables have room for 1-253.
