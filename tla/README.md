# A TLA+ model of the sybil-resistant mixnet

The repository is a mixnet in Rust. Clients send onion packets through `NUM_LAYERS`
layers of `NUM_MIXES` mix servers. The path of a client is not chosen by the client: it
follows from *tickets*, computed from the layer, the round and a secret that is part of the
client's BBS+ signature. A proof of knowledge of the ticket lets a mix refuse packets on
any other path. This directory holds the specifications of the system, the TLC
configurations that check them, and the TLAPS proofs about them.

## 1. The system

| Component (source) | State | Operations | Talks to |
|---|---|---|---|
| Round engine of a mix (`src/src/mix/mod.rs`) | `output_buffer` (per layer: packets per destination, and a counter of requests), `notify` (semaphore), `time`, `channels` | RPC handlers `setup`, `add`, `get`; inside them `parse_input`, `handle_middle_layer`, `send_to_mix`, `output_last_layer`, `measure_time`, `start_mix_round` | the same handlers at all the mixes, by gRPC; packet handling |
| Packet handling (`src/src/mix/mixnet_request.rs`, `src/src/network.rs`) | `connections` (per mix: connection id to key, layer, next server) | decrypt and verify setup packets, decrypt data packets, verify on output, drop | round engine; proofs |
| Client side (`src/src/network.rs`, `src/src/marshal/info.rs`) | the client's `circuit` | generate setup packets (good and bad), data packets, tickets; `setup_info` writes them for all the mixes | packet handling, through files |
| Lifecycle (`run_mix`, `wait_for_shutdown`, `connect_to_server`; `src/src/config.rs`; `src/src/marshal`) | IP files, shutdown files, log files | start, wait for all IPs, connect until success, get, merge logs, delete files, shut down | every process, through a shared directory |
| Signatures (`src/src/signature.rs`, `src/src/keys.rs`, `src/src/issuer.rs`) | keys | sign, blind sign, unblind, verify | clients, ID provider |
| Proofs (`src/src/pok_vc.rs`, `src/src/pok_sig.rs`, `src/src/pok_ticket.rs`, `src/src/prover.rs`, `src/src/verifier.rs`) | - | commit, challenge, respond, verify, encode, decode | packet handling |
| Byte formats, errors, logs, build files, tests, benches, scripts | - | - | - |

What is hard about it:

- **Round engine.** Handlers of one mix interleave at every `await` and on every thread.
  A handler does not send *its* layer: it looks for the lowest complete layer in a buffer
  that other handlers fill and empty. Nothing in the buffer or in a request says which round
  a packet belongs to. `get` does not ask whether a round is over; it counts the permits of
  finished handlers. It is correct if no round gets mixed with another, no layer is
  forgotten, no mix runs ahead, the output is complete, and everything ends.
- **Failures.** A failed call panics the handler that waits for it (`expect`), and nothing
  is retried. Correct means that the mixnet stops rather than loses packets silently.
- **Packets.** The setup round leaves connections at the mixes that the data rounds use. It
  is correct if a good client's data follows the same path and comes out, and a bad client's
  does not where verification is on.
- **Files.** Processes on several machines poll a shared directory for files that others
  create and delete.
- **Proofs.** Completeness for what the code's own prover makes, including the shortcuts
  (shared exponents, one challenge) and the byte formats.

`PROJECT.json` lists the places in the code where these bite ("hazards").

## 2. Modules

| Module | What it is |
|---|---|
| `MixRounds` | the round engine: all handlers of all mixes |
| `MCMixRounds` | values of its constants for TLC |
| `RoundBarrier` | the abstract specification: a barrier between rounds |
| `MixRounds_proofs` | the theorems about `MixRounds`, for all values of the constants |
| `Mixnet` | the packets on these rounds: `EXTENDS MixRounds`, every action with what it does to the packets |
| `MCMixnet` | values of its constants for TLC |
| `Output_proofs` | more theorems about `MixRounds`: what `get` outputs (`EXTENDS MixRounds_proofs`) |
| `Mixnet_proofs` | the refinement of `MixRounds` by `Mixnet`, and what verification lets through |
| `Delivery_proofs` | where the packets are, and that none is missing (`EXTENDS` both) |
| `Lifecycle` | the processes of a run and the files they share, over several runs and crashes |
| `MCLifecycle`, `Lifecycle_proofs` | its values for TLC; the theorems about it |
| `Group` | arithmetic in the groups, and what a call ends with |
| `PoKVC` | proof of knowledge of committed values (`EXTENDS Group`) |
| `Signatures` | BBS+ keys, signatures, blind signatures and their contexts (`EXTENDS PoKVC`) |
| `PoKSig`, `PoKTicket` | proof of a signature with selective disclosure; of a ticket (`EXTENDS` each other in this order) |
| `Formats` | `to_bytes` and `from_bytes` of all of these (`EXTENDS PoKTicket`) |
| `Credential` | issuer, prover and verifier on top of these (`EXTENDS Formats`) |
| `Circuit` | clients, sealed packets and how the mixes open them (`EXTENDS Formats`) |
| `Primitives_proofs` | lemmas about the algebra and the operations of `Group` to `PoKTicket`, and about reading the forms of `Formats` |
| `Credential_proofs`, `Circuit_proofs` | the theorems about these two (both `EXTENDS Primitives_proofs`) |
| `MCCredential`, `MCCircuit` | values of their constants for TLC |

### `MixRounds` and the code

A *call* is one RPC: source, destination, layer, and `gen`, which sending of this layer it
belongs to. The sending number is a ghost: the code has no such thing, and no guard of an
action that models a handler depends on it. It is there so that the properties can ask which round a
packet is from. The packets of a call are abstracted to the call: the buffer
holds, per layer, the set of calls that were parsed into it, and the counter of the code is
the size of this set.

| Variable | Code |
|---|---|
| `pc[c]` | progress of the handler of call `c`: `unsent`, `sent` (not yet in the buffer), `parsed`, `waiting` (for the replies to the layer it sends), `done`, `failed` |
| `method[c]` | which RPC it was sent with; also the type parameter `T` of its handler |
| `children[c]` | the calls in `mix_tasks` that the handler joins |
| `buffer`, `permits`, `timer` | `output_buffer`, `notify`, `time` of the mix |
| `sent[m][l]` | how often the mix sent layer `l` (ghost; layer 0 is what starts a round) |
| `getpc`, `round`, `messages` | the `get` handler and its local variables |

| Action | Code |
|---|---|
| `ParseInput` | `parse_input`: decrypt, then increment and push under one lock |
| `NothingToSend` | `handle_middle_layer` returns early; `add_permits(1)`; reply |
| `SendLayer` | `handle_middle_layer` takes the layer out, sets the timer, and `send_to_mix` for every mix |
| `Finish` | all replies came: `add_permits(1)`; reply |
| `Panic`, `Break`, `Cascade` | a handler panics on packets of the other kind; a connection breaks; a panic reaches the callers, and the callees are cancelled |
| `GetRequest`, `Acquire`, `OutputLastLayer`, `StartMixRound`, `NextRound`, `Reply`, `GetPanic` | `get`, from one `await` to the next |

Steps that the code makes without a lock are merged where no other step can tell:

- The early return of `handle_middle_layer` and `add_permits` are one step: between the two
  the handler holds no lock and reads nothing, and the permit could as well be delayed by a
  later look at the buffer.
- Taking a layer out, setting the timer and sending are one step. The requests may arrive
  after any delay (`ParseInput` is a step of its own), and the mix itself can complete no
  round before its own calls are answered, so the timer is not read in between.
- Connecting again and again until success, the lock on `channels`, and the delay of
  a reply are part of the time a call stays `sent` or its caller stays `waiting`.
- `Panic` applies to setup handlers that get data packets. It is a possibility and not a
  necessity because a batch may be empty for one mix.

Not in this model: what packets contain and which are dropped (`Mixnet`; a dropped packet is still
a counted request), and the shutdown.

### `RoundBarrier` and the refinement

The barrier counts, for every mix, the rounds it has begun, the rounds whose last layer it has
sent, and the rounds whose output it has collected. A mix may collect only what
every mix contributed to, and begin a round only when it collected the last one.
`ImplementsBarrier` maps the counters to `sent[m][0]`, `sent[m][NumLayers - 1]` and the
progress of `get`. That is what the permits are for, and nothing in the code says it.

### `Mixnet` and the code

`Mixnet` adds packets to the calls. Its actions are those of `MixRounds`, conjoined with what
happens to the packets, and in the code too no guard of the rounds depends on packets, but one: a
setup handler panics only if there is a data packet in its batch. So `NetPanic` and
`NetParseSetup` decide what `Panic` and `ParseInput` leave open.

| Variable | Code |
|---|---|
| `verification`, `circuit` | the setting of the run; for every client its first server and the servers that its honest tickets name. Neither changes |
| `cargo[c]` | `PacketRequest.packets` of a call that is not parsed yet |
| `store[m][l]` | the packets in `output_buffer`, for all destinations |
| `connections[m]` | `Connections` of the mix |
| `output[m]` | `messages` of `get` |

| Definition | Code |
|---|---|
| `InitPackets`, `FalseTicket`, `DestServer` | `setup_info`, `generate_bad_setup_packet`: a bad client's layer 0 carries its own ticket, every other layer a false one |
| `ValidProof` | the outcome of `verify_setup_packet` |
| `DecryptSetup`, `DecryptData` | `decrypt_setup_layer` (drops what has no valid proof, with `Verify`), `decrypt_data_packet_layer` (drops what has no connection) |
| `VerifyOnOutput`, `IsOutOfBounds` | `handle_verify_on_output`, `is_out_of_bounds` |
| `NetParseSetup`, `NetParseAdd`, `NetSendLayer`, `NetOutputLastLayer`, `NetStartMixRound`, `NetPanic` | the actions of `MixRounds` with their packets |

A packet is its client and its kind, for a client sends the same setup packet in every setup
round and the same data packet in every data round. The layer it is peeled to is that of the call
or buffer that holds it; that no packet of a round is in two places (`PacketsUnique`, proved for any number of mixes) makes it sound to
keep sets of them. Ciphertexts are not modelled: any mix can open any layer of a setup packet,
because all the servers are clones of one key pair, and a data packet can be opened where its
connection is. A connection is found by its random id, that is, by client and layer. The code
compares its layer and its `cur_server` too (`network.rs:505`), which never fails for these packets.

One merge is to be known: a setup handler inserts the connections before it takes the lock on the buffer,
and `NetParseSetup` does both at once. Another step tells the difference only if it looks up a connection
of the same circuit in between, and `SetupBeforeData` excludes that where it holds (for two mixes, proved).

### `Lifecycle` and the code

The processes are the mixes and the config process, and what they share is a directory. A file is what is in it: an
address file has nothing, or an address; the addresses of run k are k, because a restart may place the mixes on other machines.
What the mixes do to get an answer is `MixRounds`; here `AnswerGet` is possible once every mix serves and has the
addresses of all. `GetErrs` is the other end of a `get`: its handler panics or its call breaks, the `unwrap` in the task of
`run_config` ends that task, `join_all` ignores it, and the mix lives. It is possible as soon as the mix is asked, with or without a
result in the log.

| Variable | Code |
|---|---|
| `pc`, `failure` | where each process is in `run_mix`, `start_server`, `wait_for_shutdown`, `run_config`, `manage_files`; why it panicked |
| `remote` | `local` or `remote` start of both programs (`bins/mix/mix.rs`, `bins/config/config.rs`): without address files or with them |
| `ipFile`, `pending`, `found` | the address files; the directory listing that `get_cur_ip_files` works off; what it has read |
| `served`, `next` | mixes with a server; the loop index of the config process |
| `shutdownFile` | the shutdown files, each with the run that created it |
| `queue`, `logFile`, `attached`, `merged` | lines that the non-blocking logger holds; files; whether the open file is still the one in the directory; the final logs |
| `run`, `careless`, `crashes`, `due` | history: the number of the run; it was started on address files of a stopped run; crashes; lines that a merge still to come must find |

| Action | Code |
|---|---|
| `CreateIpFile`, `WriteIpFile` | `write_my_ip_to_file`: `File::create`, then `write_all` |
| `ListIpFiles`, `ReadIpFile`, `AllIpsRead` | `get_all_ips_from_files`, `get_cur_ip_files`, `init_mix_ips` |
| `BindServer`, `ServeAndWait`, `ShutDown` | `start_server`, `wait_for_shutdown` |
| `ConnectAndGet`, `AnswerGet`, `GetErrs`, `JoinGets` | `connect_to_server`, the tasks of `run_config` and how they end, `join_all` |
| `MergeLogFiles`, `DeleteIpFiles`, `DeleteOldLogFiles`, `CreateShutdownFile` | `manage_files`, `delete_ip_files`, `create_shutdown_files`, in the order of `After` |
| `WriteLog` | the logger thread |
| `Crash`, `NewRun` | a process dies; the operator stops what is left and starts again, on an emptied directory or not |

The order of the steps of `run_config` and `manage_files` is the record `After`, so that one definition says it. Sleeps are left out: a
process may take any time at any step. A read that finds an empty file panics in the code too (`ips.rs:57`), and the model keeps that.

### `Group`, `PoKVC`, `Signatures`, `PoKSig`, `PoKTicket`

An element of G1 or G2 is its discrete logarithm, in a prime field of `R` elements; a multi-exponentiation is a sum of products and the
pairing equation a product. The code's identities are about exponents only, so they say the same in a field of 101 elements. What
a small field does not say is that anything is hard to compute, and nothing here relies on it. A call ends with `Ok`, `Err` or `Panic`,
in the order of the checks in the code; `Try` is the `?` operator. Random scalars are parameters, in the order in which the code draws them. Hashed
byte strings are the sequences of the elements put into them; hash functions are oracles which give each new string
the next value of a list, so two strings never collide, while a scalar may equal another by chance.

### `Formats` and the code

A byte is `<<kind, form, value, k>>`, the k-th byte of an element. Data is a sequence of them, and what is read from an
offset that is wrong by one is no element. Decoders are steps of a cursor which stops at the first error or panic, with
the length checks, the prefixed lengths, the loops and the slices of the code. Sizes are constants with the ratios of the code
(compressed G1 : uncompressed G1 : compressed G2 : uncompressed G2 = 1 : 2 : 2 : 4). A byte of a request's bit vector is the set of its
bits, and a byte has `BITS` of them.

### `Credential` and the code

| Action | Code |
|---|---|
| `NewKeys` | `Issuer::new_keys`, `new_short_keys`, `to_public_key` |
| `GenerateSigningNonce`, `GenerateProofNonce` | the nonces of issuer and verifier; at any moment |
| `ProverNewContext`, `BlindSign`, `CompleteSignature` | `Prover::new_blind_signature_context`, `Issuer::blind_sign` (and `verify_complete_proof`, which the tests use), `Prover::complete_signature` |
| `Sign` | `Issuer::sign`, also over fewer messages than the key has |
| `NewProofRequest`, `CommitSignaturePok`, `GenerateSignaturePok`, `VerifySignaturePok` | the same functions of `Prover` and `Verifier`, with `create_challenge_hash` of each |

The index sets of the two sides are independent choices, and so are the nonces and claims: they match or they do not, and the
properties say what must happen in either case. Between sessions the model forgets the results of the last one; what is kept
is what the parties keep.

### `Circuit` and the code

| Definition | Code |
|---|---|
| `GenerateClient`, `PushDataPacket` | one task of `setup_info`: the setup packet under one lock, later the data packet under the other |
| `SetupLayer`, `SetupPacket`, `TicketOf`, `BadTicket` | `generate_setup_packet_layer`, `generate_setup_packet_inner`, `generate_bad_setup_packet` and the `bad_tickets_vec` of `setup_info` |
| `CircuitOf`, `DataPacket` | the client's `circuit`; `generate_data_packet` |
| `DecryptSetup`, `VerifySetupPacket` | `decrypt_setup_layer`, `verify_setup_packet`, with the proofs of `PoKTicket` in bytes |
| `DecryptData`, `ConnectionRefuses` | `decrypt_data_packet_layer` |

`Mixnet` has the interleavings and abstracts a proof to valid or not; `Circuit` has the proofs, the tickets, the bytes and the
keys, and runs the layers in any order, setup first. What the one assumes the other shows: that a packet can be opened where it
arrives, that a false ticket is refused and a true one is not, that the client and the mixes agree on the circuit. Sealed boxes
are records that only their key opens (`SealedTo`), and a packet, a box within a box in the code, is the sequence of its boxes,
outermost first: to open one is to take the first off. `clients` holds the clients generated so far.

## 3. Runs

| Run | Instance | Shows |
|---|---|---|
| `two_mixes` | 2 mixes, 3 layers, 1 setup round, 1 data round, all interleavings, fair scheduling | types, no layer with packets of two rounds, no forgotten layer, the time measured is that of the round, the output of every round is complete and of this round only, no setup packet goes by the data RPC, no data is decrypted before the setup request of its circuits, the barrier, and that everything ends (`AllFinish`) |
| `two_mixes_broken` | the same instance, one request at a time per mix, and the calls between the mixes from layer 1 of either round may break, in any state of their progress, one or several | a lost call stops both mixes; no data is sent to a middle layer before the setup request of its circuits is handled; `TwoMixInv`, the inductive invariant behind the proofs for two mixes |
| `three_mixes` | 3 mixes, 2 layers, one request at a time per mix | `output_last_layer` finds something whenever `get` is woken; no mix runs ahead |
| `mixnet_one` | 2 mixes, 3 layers, 1 + 1 rounds, a good and a bad client whose circuits part and meet again, each verification mode; handlers overtake each other on mix 0, while mix 1 has one worker (`OneWorkerAtSecond`), and the call with the last layer of data from mix 0 to mix 1 may break in any state | every packet is on its route, waits for its call, and none is missing (`Accounted`); no packet of a round is in two places; `get` replies with exactly the data it should or, when the call is lost, not at all; with `OnlyVerifyEdgeCases` the good clients' data comes out unless a layer was sent with the wrong RPC |
| `mixnet_all` | the same clients without failures and with all circuits of the good client, one request at a time per mix | with `Verify` no packet leaves its honest route; the data of the good client comes out in all modes |
| `circuit` | 3 servers, 3 layers, an honest and a bad client with any first server, with and without verification, both byte forms, every order of the tasks, locks and packets | nothing panics, false tickets and only they are refused, the mixes' connections are the client's circuit, exactly the data of circuits that are fully set up comes out, a ticket proof survives its byte form and no shorter form of it does |
| `credential` | 3 messages, 2 credentials of one prover, 2 nonces on each side, hidden, known, asked and revealed sets that match or not, among them an index just past the messages | what was made for each other is signed and accepted, what was not is refused, linked messages compare, everything sent survives its byte form and is refused when cut short |
| `lifecycle` | 2 mixes, started with or without address files, 2 runs, `get` that replies or errs, 2 crashes, careless or careful restarts, with fairness | addresses are of the run, no file is deleted while it is needed, no mix stops early or misses its shutdown file, a logged result is not lost, an undisturbed run ends |
| `rpc_kind`, `late_setup`, `edge_case`, `resp_index` | see section 4 | what comments in the code say and the code does not do |

**Bounds.** Two rounds, one of each kind, make a change of kind and a boundary between
rounds. That is where all the hazards are, because no mix is ever more than one round ahead
(`Lockstep`, proved). Three layers give a first, an inner and a last
layer: layer 1 with its special rule, layer 2 with the counter, layer 3 that only `get` takes
out. Two mixes are the smallest number with a remote call. No run has one
mix, where layer 1 is complete by both disjuncts at once; `LayersArePure` and `NoLostWakeup` are proved for any number of mixes. With three mixes and
three layers, or three mixes that parse without restriction, the state space is too large for a run of some minutes. `three_mixes`,
`late_setup` and `mixnet_all` therefore use the constraint `OneRequestAtATime`: a mix goes on with a request it has
parsed before it parses another one, as a server with one worker does. It removes
interleavings and adds none, so the counterexample of `late_setup` is one of the full
model. What `mixnet_all` finds of `GoodDelivered` is claimed for these schedules, and it is false for others (`edge_case`);
`Lockstep`, `OutputNotEmpty` and `HonestRoute` are proved for all. `mixnet_one` restricts one mix only, so that a handler still
overtakes another and a layer still goes by the wrong RPC; what it checks is proved for all schedules and all breaking calls.
Two clients are the smallest number with a good and a bad packet in one batch, and with `EDGE_LIMIT` 1.1 of the
example configuration a batch of two packets out of two and one of one out of one are over the limit, while one
out of two is not.
The symmetric runs check invariants only.

`circuit` needs three layers (one that is never checked at its end, one that is, and the first, whose ticket a bad client
has right) and three servers, so that the false tickets, which go to the first and the last server, can differ from the true ones.
Draws, messages and challenges are samples, chosen without zeros; the identities they exercise do not depend on their values, and
an error in one of them survives a sample with a probability of about 1 in 100. `credential` takes two samples: one with equal linked messages
and one with different ones. Three messages give sets of hidden messages with gaps. `lifecycle` takes two runs, so that leftovers
of one meet the next, and two crashes, so that both a mix and its successor can die; its theorems are for any numbers.

**Fairness.** `FairSpec` asks for weak fairness of three disjunctions: some handler step, some
`get` request of the config process, some `get` step. tokio polls every task that
was woken, so each single handler goes on; the assumption is weaker than that, and
enough. Nothing is assumed of failures.
In `Lifecycle`, `FairSpec` asks for weak fairness of the steps of each process by itself: polling and connecting are loops without an end, each process
has its own thread. That a mix with all addresses answers at some time is `AllFinish` of `MixRounds`. Nothing is assumed of crashes, of the
operator, or of the logger, whose thread is flushed by nobody.
`AllStop` ends in "ended, or something failed", a `get` that errs included: the other mixes may then wait for permits forever, and the operator decides what happens. `Credential` and `Circuit` state no liveness: their steps are the choices of
callers.
`AllFinish` ends in "all replied, or a call failed": the second case cannot be dropped,
since a setup handler that sends a data layer (section 4) makes its callees panic.

**Mutants.** Each property has a mutant in the module of the code it is about, a definition marked as such
that makes a likely mistake (a permit less, no reset, the highest key for the lowest, a
permit given on failure, files deleted too early, a length that counts itself). With it TLC finds the property violated.

## 4. Where code and comments differ

- `rpc_kind`: *if setup packet send setup, else add* (`mix/mod.rs:219`). The RPC follows the type
  of the handler that sends, not the type of the packets. A setup handler can parse its request
  and be overtaken before it looks at the buffer; another handler sends the layer. When
  the first one looks, the round may be over and a data layer complete: it sends data
  packets by `setup`, and the receivers panic on decrypting them. Two mixes are enough.
- `late_setup`: *prepares all circuits for following round* (`mix.proto:14`). `get` waits for a number of
  permits (*Wait til the mix is done getting all requests for this round*, `mix/mod.rs:96`). With three
  mixes, two of which have started the next round, their requests give a slow mix the permits that stand in
  for a request of its round that is still on its way. The barrier survives that: every mix has sent
  its last layer of the round. But if the late request is a setup request to the last layer, the data of the
  same circuits may be decrypted first; there is no connection, and it is dropped.
  With two mixes it cannot happen (`SetupBeforeData`, and with three layers `OutputComplete`, both proved), and to the
  other layers it never can (`MiddleSetupBeforeData`, proved for any number of mixes).
- `edge_case`: *Verifies outgoing packets, drops invalid ones* (`mixnet_request.rs:140`). The overtaken
  setup handler of `rpc_kind` verifies the data packets it sends, when they are over the edge limit, as setup
  packets, and drops all of them. The batches are empty then, so nobody panics, and `get` replies without the
  data of a good client. In the other modes the same schedule panics and nothing is lost silently (`Delivered`). With two
  mixes this is the only way to lose good data in this mode: as long as every layer was sent with the RPC of its
  packets, what comes out has it (the last clause of `Delivered`, proved).
- `resp_index`: *Get the response [...] for the given message index `msg_idx`* (`pok_sig.rs:324`). Only hidden messages have a response, and
  the function counts them; as soon as a message before it is revealed, the index of a message gives the response of a later one,
  or an error. Callers that link credentials must pass the position among the hidden messages (`LinkIsCompared`).

A related result without a comment to compare with: `FailureStopsRounds` holds for two
mixes (proved) only. With three, a lost request may be made up for by permits of the next round, and
the mixnet goes on without the packets. With `NUM_LAYERS = 2` and two mixes, the first mix to be woken starts the next round at once, and its
calls from layer 1 can add to the last layer in the buffer of the other mix before it outputs; `OutputComplete` is proved from
three layers on.

Met on the way, without a run:

- `keys.rs:244-246` describes the string hashed to a generator as `w || i || 0 || count`; the code puts a spacer before `i`
  as well, and hashes with the suite of BLAKE2b rather than SHA-256.
- `network.rs:292`: the `if layer == last` of `VerificationMode::NoVerification | _ if ...` guards both patterns, so ticket
  proofs are generated for the other layers without verification too.
- `verifier.rs:29` and `prover.rs:49` refuse an index above the number of messages with `>`, so one equal to it passes. In a
  request it is harmless (`ShowCompletes`, `RoundTrip`); in a context it panics (`ContextIndexError`).
- `info.rs:35-37` says that false tickets zig-zag *between mix server 0 and 1*; they go between 0 and the last.
- `ips.rs:57` unwraps the address of a file that may just have been created and not yet written (`FilesKeptWhileNeeded` allows for it).

## 5. Proofs

The round engine first. `MixRounds_proofs`, `Output_proofs`, `Mixnet_proofs` and `Delivery_proofs` take any finite set of
mixes, two or more layers, at least one setup and one data round, any measured middle layer and any set of breakable calls
(the named assumptions of `MixRounds`); with packets any finite set of clients, any of them bad, any circuits, any
modes and any edge limit. `Lifecycle_proofs`, `Circuit_proofs` and `Credential_proofs` follow, each from the assumption of its module. What is proved for two mixes only has `NumMixes <= 2` in its statement, and `NumLayers >= 3` where it
needs that; both hypotheses are needed, see below.

For any number of mixes:

| Theorem | States |
|---|---|
| `TypeCorrect` | `TypeOK` |
| `Invariance` | the inductive invariant `IInv` |
| `LayersArePure` | `LayerPure` |
| `MixesInLockstep` | `Lockstep` |
| `NoLostWakeup` | `NoStrandedLayer` |
| `MeasuresItsRound` | `MeasuredRound` |
| `SetupIsSetUp` | `SetupNeverAdded` |
| `CircuitsAreReady` | `MiddleSetupBeforeData` |
| `Implementation` | `ImplementsBarrier`: `Spec` implies the specification of the barrier |
| `OutputIsThere` | `OutputNotEmpty` |
| `RoundsOfMixnet` | `NetSpec` implies `Spec`: all that is proved of the rounds holds of the mixnet with packets |
| `NetTypeCorrect` | `NetTypeOK` |
| `NetInvariance`, `VerifiedRoute` | `NetInv`, `HonestRoute` |
| `RouteInvariance`, `PacketsOnce` | `RouteInv`, `PacketsUnique` |
| `OneRequestInvariance`, `RightRpc` | without breaking connections, `[]OneRequestAtATime => []OneRequestInv`, `=> []RpcMatchesPackets` |

For two mixes:

| Theorem | States | Layers |
|---|---|---|
| `TwoMixInvariance` | the inductive invariant `TwoMixInv` | any |
| `FailureStops` | `FailureStopsRounds` | any |
| `SetupComesFirst` | `SetupBeforeData` | any |
| `OutputIsComplete` | `OutputComplete` | at least 3 |
| `DeliveryInvariance`, `PacketsAccounted` | the inductive invariant `DeliveryInv`; `Accounted` | at least 3 |
| `DeliveredOutput` | `Delivered` | at least 3 |
| `GoodOutput` | without breaking connections, `[]OneRequestAtATime => []GoodDelivered` | at least 3 |

**Rounds.** `IInv` says, besides the properties themselves: a call is sent exactly when its
sending has happened (`SentCalls`); a mix sends the layers of a round in order (`SentOrder`); what
the buffer holds, and what was sent out of it, was parsed before (`BufferParsed`); permits
and permits taken add up to the finished handlers (`PermitCount`); the round of `get` is the number
of rounds begun, and once it has its permits every mix has contributed (`GetRound`). Three
lemmas carry the weight:

- `PermitsImplyContributed`. Suppose `get` has the permits of round r, and some mix n has not
  sent its last layer of r. By `Lockstep` nobody has then begun round r + 1. So all finished handlers of this mix are of
  the rounds 0 to r, at most one per layer and caller (`RoundCallsBound`), and the call
  of n from the last layer is not among them: there are fewer than the permits that `get`
  took and takes. This is a counting argument on cardinalities (`InjectionBound`).
- `CompleteLayer` and `CompleteIsMin`. By `LayerPure` the calls in a middle layer are of one
  sending, so at most one per mix; a nonzero multiple of `NUM_MIXES` is all of them.
  Then this mix itself has sent the layer below, thus all lower layers of the round, and
  what is in a lower layer would belong to a round that nobody has begun. So the complete
  layer is the lowest key, and a handler that finds nothing to send leaves nothing behind.

- `AddSendsData`. A data handler that sends layer l was parsed in a data round. The packets of l are of one
  sending, and if that were a setup sending the mix would still be in a setup round for this layer, while by
  `Lockstep` the handler's round began only after every mix had sent its last layer of the setup rounds.

**Verification.** For `HonestRoute` the invariant is `Verified`: with `Verify`, what a mix has buffered for sending has a valid
proof for the layer before, and so has every connection, except those of the last layer, which is never
verified and never sent. A data packet gets into a buffer by a connection, a setup packet by its own proof.

None of the properties of the rounds is inductive alone: `Lockstep` needs the count, the count needs
`LayerPure` for the number of calls, and `LayerPure` needs `Lockstep` to exclude packets of
a later round.

**Output, any number of mixes.** When `get` is woken, some of its permits may be of calls of the next round
(`late_setup`), so the permits do not say that the last layer is complete. They do say that it is not empty
(`OutputThere`). If it were, none of the `NUM_MIXES` calls of the last layer would be done (`LastLayerKept`: what was parsed
stays in the buffer until it is collected). What can have given a permit in their place are calls of the next round, and before a mix has begun
that round these are the calls from layer 1 of the *other* mixes (`CallsAhead`): one too few. With two layers another mix's call of the
next round may sit in the buffer or be output with this round, which is the second case of `LastLayerKept`.

**Output, two mixes.** Here the permits of a round are those of its own calls, all but the first one perhaps (`PermitsOfRound`).
By `CallsAhead` at most one call of the next round is done when `get` takes its permits, so at most one call up to this round is
not (`OneMissing`). It is not one of a layer that a handler sent: the call of that handler, or of one before it, is not done
either (`Joined`), and it is another one, or a call to the other mix, which is a round ahead and has the permits of all its calls. What is left is a call that
starts a round, and `get` has joined that before it goes on (`StartsDone`), except for the very first one, which `run_mix`
sends. It may stay undone for as long as its mix is the one behind (`BehindOfFirst`). From `PermitsOfRound` it follows
that a call that is not done holds both mixes back (`UndoneHoldsBack`), which gives `FailureStopsRounds` and `SetupBeforeData`, and with
`LastLayerFresh` also `OutputComplete`.
With three mixes two calls of the next round can come from different mixes, and all of this is false: `late_setup` is the counterexample
to `SetupBeforeData`. With two layers `OutputComplete` is false (section 4).

**Routes, any number of mixes.** `RouteInv` says that every packet, with a call or in a buffer, is of the kind of its round, on the
route that its tickets name (`PacketsOnRoute`), and that a call that still has its packets was neither parsed nor overtaken
(`CargoWaits`). `PacketsUnique` follows: were one of two places of a packet behind the other on its route, the layer of the first would
have been sent without it (`OneLayer`); and at each layer the route has one call.

**Delivery, two mixes, three layers.** `NothingMissing` is the converse of `RouteInv`: a call that a packet is for
has it, the buffer has it once its call is parsed, its connections exist once its setup call is. A layer that is sent was complete
(`CompleteLayer`), so it had every packet; a data packet is decrypted after its setup call was parsed (`SetupBeforeData`), so
its connection is there; what is output is all of the last layer (`OutputComplete`). With `OnlyVerifyEdgeCases` the set `Expected` of packets that must
not be missing are the good clients', and only while `RpcMatchesPackets` holds: the step that makes it false may drop
data, as `edge_case` shows. A call that breaks keeps its packets, and nothing that follows from it is parsed; that is why `Delivered` speaks of
replies only.

**One request at a time.** `RpcMatchesPackets` and `GoodDelivered` are false of the model (`rpc_kind`, `edge_case`), and `mixnet_all` checks the second one
for mixes with one worker thread. `GoodOutput` proves just that, and `RightRpc` the first one for any number of mixes, as a
statement about behaviours: if in every state each mix has at most one request that is parsed and not gone on with, the
property holds in every state. The invariant is `OneRequestInv`: the request that completed a layer is still parsed while the layer waits (`CompletedBySender`), so
the only handler that can send it is that one, whose own packets are of the same round (`SendsOwnRound`). Then no setup handler
meets data packets and nobody panics, so nothing fails at all (`NoneFailed`), which the invariant needs in its turn: a handler that fails between parsing
and sending would leave its layer to another.

`Lifecycle_proofs` proves for any number of mixes, runs and crashes and any subset of the two ways to start (`LifecycleAssumption`):

| Theorem | States |
|---|---|
| `LifecycleTypes` | `LifecycleTypeOK` |
| `AddressesCurrent` | `IpsCurrent` |
| `FilesKept` | `FilesKeptWhileNeeded` |
| `ShutdownsKept` | `ShutdownNotLost` |
| `StopsAfterAll` | `StopOnlyAfterAll` |
| `NoResultLost` | `ResultsKept` |

The invariant has four parts. `TypeInv` adds to the types which labels a process of each kind can have and how far `next` can be. `StopInv` says that
shutdown files of this run exist only when every mix has answered, with a reply or an error, or died, and that a mix which serves has removed the older ones; hence
nobody stops early and no file of this run is taken for a leftover. `FilesInv` says that what is listed stays until it is read, that a
mix's own file holds its own address from its writing on, and that the files are gone when the config process has deleted them, which is
what makes the next run current without the operator's care. `LogsInv` says that between the merge and the
deletion all that is due is merged. `FilesInv` needs `StopInv`: the files are deleted after every mix has answered or died, so that
nobody is still reading.

`Circuit_proofs` takes any number of servers and layers, any clients, any of them bad, any random draws, bases, exponents and modes, and any
next-server function that names a server for every ticket and inverts the table of false tickets (`CircuitAssumption`). Three results need
`DrawsAssumption` besides, which leaves out a negligible share of the runs: no scalar drawn for a proof or a signature, no key and no generator is zero,
each client's signature exists, no false ticket happens to be the true one, and no proof answers a false ticket with a zero response:

| Theorem | States |
|---|---|
| `CircuitInvariance` | the inductive invariant `CircuitInv` |
| `CircuitsAgree` | `CircuitAgrees` |
| `UnverifiedDelivers` | without verification `NoPanic`, `DataFollowsSetup`, and that in the end the data of every client is out; no `DrawsAssumption` |
| `ProofInvariance` | the inductive invariant `ProofInv` |
| `NobodyPanics` | `NoPanic` |
| `FalseTicketsRefused` | `FalseTicketsStop` |
| `DataDelivered` | `DataFollowsSetup` |
| `TicketProofsWhole` | `TicketProofBytes`, with more than one layer (the last has no proof) |
| `HonestDelivered` | in the end every honest client's data is out, and with verification and more than two layers no other |

`CircuitInv` says that the clients are as they were built, that nothing is connected or on its way before its phase, that every
connection is the one its client expects there (`ConnectionsAsBuilt`), that each client has at most one setup packet on its way and is connected on
all the layers before it and on none after (`SetupProgress`), and that a data packet is on its way, or out, just as far as its client is connected
(`DataProgress`). The last two make the proof go: `CircuitAgrees` alone does not say which packet made a connection. A step that opens a packet
rests on three facts: the boxes of a packet but for the first are the packet of the next layer (`TailOfBoxes`); a ticket is read from
its bytes as it was written (`TicketReads`), whether it is a true one or a false one; and the server that the ticket leads to is the `cur_server` of
the client's next layer (`Route`), although the packet itself carries 0 there. `CircuitInv` leaves open what the check of a proof answers.

`ProofInv` is what that needs: the string of every proof on its way was hashed and the proof is the one its client made for the
challenge it got (`Carries`), and no string is in the oracle twice, so that asking again gives the same challenge. When a mix opens a checked
layer,

- it reads the bytes of the proof back as they were written (`TicketProofReads`, from lemmas about the readers of `Formats`:
  an element lying at the cursor is taken, `TakeReads`, and so is a list of them, `TakeManyReads`, a part with its length, `PrefixedReads`,
  and the rest, `RestReads`);
- both responses for `e` are equal, whatever the ticket, so that the assertion does not fire (`VerifyAnswers`);
- of a true ticket it spells the string that the client spelled and gets the same challenge, and all five relations and the pairing hold
  (`TicketAnswers`): the blindings `rho_1 e` and `rho_2 e` cancel in the fourth relation and the fifth (`FourthCancels`, `FifthCancels`);
- of a false ticket it spells another string and may get any challenge. The fifth relation is one to zero, so the challenge drops out of it:
  a proof that passes for two tickets has a zero response there (`TicketIsBound`), which `DrawsAssumption` excludes. The answer is a refusal.

`FalseTicketsStop` follows, and with `NoPanic` `DataDelivered` needs no hypothesis (`DataUnlessPanic` is its lemma).

`TicketProofsWhole` is about proofs whose end is missing. A cursor on the first bytes reads what the one on all bytes reads or stops for good
(`PointsOrStuck`, `ProofOrStuck`): where the data ends within an element or within a part whose length was read, nothing is read (`TakeCut`,
`PrefixedCut`). The last part goes to the end of the data, so there it is the number of responses that tells (`ProofG1Cut`).

`Credential_proofs` takes any prime modulus, any number of messages, any messages, keys, nonces and random scalars, and any index sets that
the parties pick:

| Theorem | States |
|---|---|
| `BlindSigningIsFresh` | `BlindSignIsFresh` |
| `CredentialInvariance` | the inductive invariant `CredentialInv` |
| `CredentialTypes` | `TypeOK` |
| `BlindSigningCompletes` | `BlindSignCompletes` |
| `SigningCompletes` | `SignatureCompletes` |
| `ShowingCompletes` | `ShowCompletes` |
| `ShowingIsBound` | `NoCoincidence => ShowIsBound` |
| `LinkComparison` | `LinkIsCompared` |
| `RoundTrips` | `RoundTrip` |
| `CutsAreNoticed` | `CutIsNoticed` |

`CredentialAssumption` has what is needed of the hashes: the generators of the messages and that of the blinding are distinct points, and
so are the challenges of two different strings. `RandomAssumption` excludes what a 255-bit group makes negligible and the code does not
check: a zero among the random scalars, keys, generators and challenges, a secret key that cancels the `e` of a signature, and messages whose product is the
identity. TLC evaluates both on its instance.

`BlindSigningIsFresh` has an invariant of its own. `FreshInv` says that the one string hashed so far names the nonce it was made for
and, by its generators, the messages that were hidden (`AskedFor`). When the issuer hashes its own string and finds the same challenge, the two
strings are equal, so the nonce is the same, and the set is too: the generators are listed in the order of the indices
(`InOrderEnumerates`, by counting the indices up to each), so equal lists come from equal sets (`AskedForOne`).

For the others `CredentialInv` says what each value is made of: the verifier's key is the issuer's, also when it was derived from the short one
(`KeysInv`); the context is the one for what the prover hides (`ContextInv`); what was signed verifies, a blind signature for the sum of both
blindings (`SignedInv`); the commitments are those of `init` and the proofs those made of them for the first string asked (`ShownInv`).
Every step keeps that by what the calls compute, which is in `Primitives_proofs`:

- The scalars are a field. Addition and multiplication are reduced modulo `R`, and for a prime `R` what a scalar generates is
  generated by 1 (`Inverts`, from the least number that it generates), so inverses exist and nothing but zero divides zero.
- A product of bases and scalars is a recursive function of their number (`SumTo`). A property of all numbers is a set here, so that
  `SetInduction` can have it as a parameter. Products can be cut and joined (`ProductOfConcat`), and responses taken out of them (`ProductOfResponses`).
- Indices are met in their order, each of them once (`InOrderEnumerates`), so the product in order is the one over all indices
  (`SumAlong`), and that of hidden and known messages is that of all (`SumOfParts`).
- From these: a proof answers its challenge (`ProofHolds`), what is signed verifies (`SignedVerifies`), the issuer's product is that of
  the unblinded signature (`BlindSum`), a context is accepted (`ContextHolds`), and a proof of a signature satisfies its pairing equation and both relations and
  spells the string that the verifier will spell (`ProofShows`). The response for the linked message is its blinding less the challenge times the message, at its
  position among the hidden ones, so with one blinding for all credentials two responses are equal just if the messages are (`AnswersCompare`).

`ShowingIsBound` goes the other way, from an accepted proof to what it was made for. The first relation of a proof holds for one challenge only
(`OneChallenge`), so the verifier's challenge is the prover's and both hashed the same string. The parts of that string are read from the front, one
for each credential (`PartsAgree`): a part has six elements, then the generators of what is hidden, then the commitment of the second relation. A commitment that is
no generator ends that list (`GeneratorsEnd`), and the generators are distinct, so equal parts hide the same messages (`PartTells`); the nonce
and the claims are what is left. `NoCoincidence` is what this needs and no check of the code gives: that `a_bar` is not `d`, with which the
first relation would not depend on the challenge, and that no commitment is a generator. In a small field the second does happen; TLC checks `ShowIsBound`
without the condition, and on its instance it holds in those states too.

`RoundTrips` and `CutsAreNoticed` are about bytes, for any sizes of the elements, any number of bits in a byte and both forms. `HeldInv` adds to `CredentialInv`
that what is asked and what is signed blindly are whole records and that no request goes beyond the index just past the messages (`HeldAlways`).
For each type the proof says where the parts lie in the bytes (`KeyLayout`, `ContextLayout`, `SignatureLayout`, `RequestLayout`, `ShownLayout`),
then what a cursor has read after each step of the decoder (`KeyReads`, `ContextReads`, `SignatureReads`, `RequestReads`, `ShownReads`). On a
proper beginning of the bytes the cursor reads the same or stops for good, and the last step needs more than there is: a list of
generators, responses or messages has its count before it (`KeyAtEndIsStuck`, `ShownCut`), and the last part of a context its number of responses
(`ContextCut`). A signature is told from one of the other form by its length, and a beginning of that length has an element of the other form in front
(`SignatureCut`). The bit vector of a request has room for the index just past the messages, `total / 8 + 1` bytes (`RequestInParts`); the mutant
`RevealedToBitvectorExact` shows that one byte less loses it.

Checked by TLC only:

- liveness (`AllFinish`, `AllStop`): fairness and ENABLED are beyond TLAPS;
- of `Credential`, `ShowIsBound` in the states with a coincidence.

## 6. Plan

Done: `RoundBarrier`, `MixRounds`, `Mixnet`, `Lifecycle`, `Credential` and `Circuit` with their proofs.

Left, in this order:

1. `ShowIsBound` in the states with a coincidence, or a condition weaker than `NoCoincidence`.
2. `MixRounds` without setup rounds, where `*NUM_SETUP_ROUNDS - 1` wraps (`mix/mod.rs:114`).

## 7. Not modelled

- The error table (`errors.rs`): kinds and texts; the kinds are results of the calls in the modules.
- The file that carries the network to the mixes (`serialize_network` and its inverse), a list of the types whose forms `Formats` has, and
  the share of bad clients (`setup_info` cuts a product of floats): it only picks which clients are bad, and any may be.
- Text: the layout and the order of merged log lines, lines that a logger wrote in part, times of day.
- The wasm conversions and the serde wrappers, which repeat `to_bytes` and `from_bytes`.
- The channel cache of a mix: `connect_to_server` runs under the lock on `channels` and delays other calls (`mix/mod.rs:225`). A
  call of the model may take any time. A mix that never comes up blocks every other for good, which is the assumption that connecting ends.
- `NUM_SETUP_ROUNDS = 0`, which `RoundsAssumption` excludes.
- Generated gRPC code and tokio (used as the code uses them: unordered calls, at most one reply, a fair scheduler); the primitives of
  `pairing_plus` and of the sealed boxes, modelled from their use; tests, benches, build files and scripts.
