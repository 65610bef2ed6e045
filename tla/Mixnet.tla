--------------------------------- MODULE Mixnet ---------------------------------
(***************************************************************************)
(* The packets on the rounds of the mixes: what the clients send           *)
(* (src/src/network.rs, src/src/marshal/info.rs), and what the mixes       *)
(* decrypt, verify, drop and forward (src/src/mix/mixnet_request.rs).      *)
(*                                                                         *)
(* Every action is an action of MixRounds with what it does to the packets *)
(* of the call.  A client sends a setup packet in every setup round and a  *)
(* data packet in every data round, always the same ones.  An onion packet *)
(* is its client and its kind: the layer it is peeled to is the layer of   *)
(* the call or of the buffer that holds it.  Any mix can open a layer of a *)
(* setup packet, since all the servers hold clones of one key pair.        *)
(***************************************************************************)
EXTENDS MixRounds

CONSTANTS
  Clients,
  BadClients,     \* the clients with false tickets, after their first one
  Circuits,       \* what the tickets of the clients may be
  Verifications,  \* the settings of MIX_VERIFICATION to look at
  EdgePercent     \* EDGE_LIMIT, in percent

Layers == 0 .. NumLayers - 1
AllVerifications == {"NoVerification", "Verify", "OnlyVerifyEdgeCases"}

\* The mixes are numbered.  A circuit is the first server, drawn at random, and the
\* server that the ticket of each layer names.
ASSUME MixIdsAssumption == Mixes = 0 .. NumMixes - 1
ASSUME ClientsAssumption == IsFiniteSet(Clients) /\ BadClients \subseteq Clients
ASSUME CircuitsAssumption ==
  Circuits \subseteq [Clients -> [first : Mixes, ticket : [Layers -> Mixes]]]
ASSUME VerificationsAssumption == Verifications \subseteq AllVerifications
ASSUME EdgePercentAssumption == EdgePercent \in Nat

VARIABLES
  verification,  \* the setting of this run
  circuit,       \* the circuits of this run
  connections,   \* per mix, the connections made by setup packets
  cargo,         \* the packets of a call that is not parsed yet
  store,         \* per mix and layer, the packets in the output buffer
  output         \* the packets that get() output last

netVars == <<verification, circuit, connections, cargo, store, output>>

Packets == [client : Clients, kind : {"setup", "add"}]

--------------------------------------------------------------------------------
(***************************************************************************)
(* The client.                                                             *)
(***************************************************************************)

\* The false tickets zig-zag between the first and the last mix.
FalseTicket(i) == IF i % 2 = 0 THEN 0 ELSE NumMixes - 1

\* The server that the ticket in layer i of the packet of client k names.
DestServer(k, i) ==
  IF k \in BadClients /\ i > 0 THEN FalseTicket(i - 1) ELSE circuit[k].ticket[i]

\* The proof in layer i is one of the honest ticket of the client.
ValidProof(k, i) == k \notin BadClients \/ i = 0

\* The packets that setup_info writes for mix m.
InitPackets(m, kind) ==
  {[client |-> k, kind |-> kind] : k \in {x \in Clients : circuit[x].first = m}}

--------------------------------------------------------------------------------
(***************************************************************************)
(* The mix.                                                                *)
(***************************************************************************)

\* Mutant: no proof is verified.
DecryptSetup_Unverified(l, packets) == packets

\* decrypt_setup_layer, on the packets of a request from layer l
DecryptSetup(l, packets) ==
  {p \in packets :
     verification = "Verify" /\ l # NumLayers - 1 => ValidProof(p.client, l)}

\* Mutant: a data packet needs no connection.
DecryptData_Unchecked(m, l, packets) == {p \in packets : p.kind = "add"}

\* decrypt_data_packet_layer at mix m; the connection found by its id is of layer l
DecryptData(m, l, packets) ==
  {p \in packets : p.kind = "add" /\ [client |-> p.client, layer |-> l] \in connections[m]}

\* Mutant: every mix gets all the packets.
Outgoing_All(m, l, n) == store[m][l]

\* What mix m has for mix n in layer l of the buffer
Outgoing(m, l, n) == {p \in store[m][l] : DestServer(p.client, l - 1) = n}

EdgeLimit(total) == (EdgePercent * total) \div (100 * NumMixes)
IsOutOfBounds(amount, total) == amount > EdgeLimit(total)

\* Mutant: over the edge limit everything is thrown away.
VerifyOnOutput_ThrowAway(m, l, n) ==
  LET packets == Outgoing(m, l, n)
  IN  IF verification = "OnlyVerifyEdgeCases"
         /\ IsOutOfBounds(Cardinality(packets), Cardinality(store[m][l]))
      THEN {}
      ELSE packets

\* handle_verify_on_output, for a handler of setup packets
VerifyOnOutput(m, l, n) ==
  LET packets == Outgoing(m, l, n)
  IN  IF verification = "OnlyVerifyEdgeCases"
         /\ IsOutOfBounds(Cardinality(packets), Cardinality(store[m][l]))
      THEN {p \in packets : p.kind = "setup" /\ ValidProof(p.client, l - 1)}
      ELSE packets

Forwarded(c, l, n) ==
  IF method[c] = "setup" THEN VerifyOnOutput(c.dst, l, n) ELSE Outgoing(c.dst, l, n)

\* A setup handler cannot open data packets.
Unopenable(c) == method[c] = "setup" /\ \E p \in cargo[c] : p.kind = "add"

--------------------------------------------------------------------------------
NetInit ==
  /\ Init
  /\ verification \in Verifications
  /\ circuit \in Circuits
  /\ connections = [m \in Mixes |-> {}]
  /\ cargo = [c \in Calls |-> IF c.layer = 0 /\ c.gen = 0
                              THEN InitPackets(c.dst, "setup") ELSE {}]
  /\ store = [m \in Mixes |-> [l \in 1 .. NumLayers |-> {}]]
  /\ output = [m \in Mixes |-> {}]

NetParseSetup(c) ==
  LET kept == DecryptSetup(c.layer, cargo[c])
  IN  /\ ParseInput(c)
      /\ method[c] = "setup"
      /\ ~ Unopenable(c)
      /\ connections' = [connections EXCEPT ![c.dst] =
                           @ \union {[client |-> p.client, layer |-> c.layer] : p \in kept}]
      /\ store' = [store EXCEPT ![c.dst][c.layer + 1] = @ \union kept]
      /\ cargo' = [cargo EXCEPT ![c] = {}]
      /\ UNCHANGED <<verification, circuit, output>>

NetParseAdd(c) ==
  /\ ParseInput(c)
  /\ method[c] = "add"
  /\ store' = [store EXCEPT ![c.dst][c.layer + 1] =
                 @ \union DecryptData(c.dst, c.layer, cargo[c])]
  /\ cargo' = [cargo EXCEPT ![c] = {}]
  /\ UNCHANGED <<verification, circuit, connections, output>>

NetPanic(c) == Panic(c) /\ Unopenable(c) /\ UNCHANGED netVars

NetSendLayer(c, l) ==
  LET m == c.dst
      batch == Batch(m, l, sent[m][l])
  IN  /\ SendLayer(c, l)
      /\ cargo' = [x \in Calls |-> IF x \in batch THEN Forwarded(c, l, x.dst) ELSE cargo[x]]
      /\ store' = [store EXCEPT ![m][l] = {}]
      /\ UNCHANGED <<verification, circuit, connections, output>>

NetOutputLastLayer(m) ==
  /\ OutputLastLayer(m)
  /\ \E l \in 1 .. NumLayers : /\ MaxKey(m, l)
                               /\ output' = [output EXCEPT ![m] = store[m][l]]
                               /\ store' = [store EXCEPT ![m][l] = {}]
  /\ UNCHANGED <<verification, circuit, connections, cargo>>

NetStartMixRound(m) ==
  /\ StartMixRound(m)
  /\ cargo' = [cargo EXCEPT ![StartCall(m)] = InitPackets(m, method'[StartCall(m)])]
  /\ UNCHANGED <<verification, circuit, connections, store, output>>

\* The steps that leave the packets alone
NetOther ==
  /\ \/ \E c \in Calls : NothingToSend(c) \/ Finish(c) \/ Break(c) \/ Cascade(c)
     \/ \E m \in Mixes : \/ GetRequest(m) \/ Acquire(m) \/ NextRound(m)
                         \/ Reply(m) \/ GetPanic(m)
     \/ Idle
  /\ UNCHANGED netVars

NetNext ==
  \/ \E c \in Calls :
       \/ NetParseSetup(c)
       \/ NetParseAdd(c)
       \/ NetPanic(c)
       \/ \E l \in 1 .. NumLayers - 1 : NetSendLayer(c, l)
  \/ \E m \in Mixes : NetOutputLastLayer(m) \/ NetStartMixRound(m)
  \/ NetOther

NetSpec == NetInit /\ [][NetNext]_<<vars, netVars>>

--------------------------------------------------------------------------------
(***************************************************************************)
(* Safety.                                                                 *)
(***************************************************************************)
\* Types; and every ticket names a mix, an index into the buffer of the layer.
NetTypeOK ==
  /\ verification \in AllVerifications
  /\ circuit \in [Clients -> [first : Mixes, ticket : [Layers -> Mixes]]]
  /\ \A k \in Clients : \A i \in Layers : DestServer(k, i) \in Mixes
  /\ connections \in [Mixes -> SUBSET [client : Clients, layer : Layers]]
  /\ cargo \in [Calls -> SUBSET Packets]
  /\ store \in [Mixes -> [1 .. NumLayers -> SUBSET Packets]]
  /\ output \in [Mixes -> SUBSET Packets]

\* With Verify, no packet travels on a ticket that is not its client's own: a mix
\* forwards a setup packet, and later the data packets of the same circuit, only to the
\* server that the honest ticket of the client names.
HonestRoute ==
  verification = "Verify" =>
    \A c \in Calls : \A p \in cargo[c] :
      c.layer > 0 => c.dst = circuit[p.client].ticket[c.layer - 1]

\* The server that opens layer l of the packets of client k, and the one that sends them
\* there
Server(k, l) == IF l = 0 THEN circuit[k].first ELSE DestServer(k, l - 1)
Caller(k, l) == IF l = 0 THEN circuit[k].first ELSE Server(k, l - 1)

\* Call c is the one that takes the packets of client k to its layer.
OnRoute(k, c) == c.dst = Server(k, c.layer) /\ c.src = Caller(k, c.layer)

\* The packets in the buffer that came with call c
Stored(c) ==
  {p \in store[c.dst][c.layer + 1] : /\ c \in buffer[c.dst][c.layer + 1]
                                    /\ c.src = Caller(p.client, c.layer)}

\* Where the packets of all rounds are: with a call that is not parsed, or in the buffer
\* with a call that was.
Places ==
  UNION {{<<"cargo", c, p>> : p \in cargo[c]} \union {<<"store", c, p>> : p \in Stored(c)} :
           c \in Calls}

\* No packet of a round is in two places of the mixnet at a time: none is sent twice, and
\* none is sent again while it is still on its way (the code keeps lists of packets, not
\* sets).
PacketsUnique ==
  \A a, b \in Places : a[3] = b[3] /\ a[2].gen = b[2].gen => a = b

\* The server that outputs the packets of client k
LastServer(k) == Server(k, NumLayers - 1)

\* get() of mix m output the data packet of client k.
DeliveredAt(k, m) == [client |-> k, kind |-> "add"] \in output[m]

\* get() replies with the data packets of the clients whose circuit ends at its mix, and
\* with no others: of the good clients always, of the bad ones if nothing is verified,
\* and never if all is.  Where the edge cases are verified that holds for the good clients
\* only, and unless a layer was sent with the RPC of the other kind of packets.
Delivered ==
  \A m \in Mixes : getpc[m] = "replied" =>
    \A k \in Clients :
      /\ DeliveredAt(k, m) => LastServer(k) = m
      /\ verification = "NoVerification" => (LastServer(k) = m => DeliveredAt(k, m))
      /\ verification = "Verify" =>
           (k \notin BadClients /\ LastServer(k) = m <=> DeliveredAt(k, m))
      /\ verification = "OnlyVerifyEdgeCases" /\ RpcMatchesPackets =>
           (k \notin BadClients /\ LastServer(k) = m => DeliveredAt(k, m))

\* Verification "drops invalid ones" (verify_outgoing_setup_packets): whatever is
\* verified, the data of a good client comes out.  True if every mix goes on with one
\* request before it parses the next, and false otherwise.
GoodDelivered ==
  \A m \in Mixes : getpc[m] = "replied" =>
    \A k \in Clients \ BadClients : LastServer(k) = m => DeliveredAt(k, m)

--------------------------------------------------------------------------------
(***************************************************************************)
(* The inductive invariant for HonestRoute.                                *)
(***************************************************************************)

\* With Verify, what a mix has for the layers that it sends has a valid proof, and so has
\* every connection that data is sent on.
Verified ==
  verification = "Verify" =>
    \A m \in Mixes :
      /\ \A l \in 1 .. NumLayers - 1 : \A p \in store[m][l] : ValidProof(p.client, l - 1)
      /\ \A x \in connections[m] : x.layer < NumLayers - 1 => ValidProof(x.client, x.layer)

NetInv == NetTypeOK /\ Verified /\ HonestRoute

--------------------------------------------------------------------------------
(***************************************************************************)
(* The inductive invariants for PacketsUnique and Delivered.               *)
(***************************************************************************)

\* No verification stops the packets of client k before the requests from layer l.
Passes(k, l) ==
  verification = "Verify" =>
    \A i \in 0 .. l - 1 : i # NumLayers - 1 => ValidProof(k, i)

\* Packet p is for call c, and the handler of c keeps it.
Due(p, c) ==
  p.kind = Kind(c.gen) /\ OnRoute(p.client, c) /\ Passes(p.client, c.layer)
Kept(p, c) ==
  p.kind = Kind(c.gen) /\ OnRoute(p.client, c) /\ Passes(p.client, c.layer + 1)

\* A packet is with a call of its route, or in the buffer that such a call was parsed into,
\* and data is let through only where setup was.
PacketsOnRoute ==
  /\ \A c \in Calls : \A p \in cargo[c] : Due(p, c)
  /\ \A m \in Mixes : \A l \in 1 .. NumLayers : \A p \in store[m][l] :
       \E c \in buffer[m][l] : Kept(p, c)
  /\ \A m \in Mixes : \A x \in connections[m] : Passes(x.client, x.layer + 1)
  /\ \A m \in Mixes : \A p \in output[m] :
       LastServer(p.client) = m /\ Passes(p.client, NumLayers)

\* A call that still has its packets was not parsed, and its layer is not sent without it.
CargoWaits ==
  \A c \in Calls : cargo[c] # {} =>
    /\ pc[c] \in {"sent", "failed"}
    /\ c \notin buffer[c.dst][c.layer + 1]
    /\ c.layer + 1 < NumLayers => c.gen >= sent[c.dst][c.layer + 1]

RouteInv == OutputInv /\ SetupNeverAdded /\ NetInv /\ PacketsOnRoute /\ CargoWaits

\* The request c was parsed.
Parsed(c) ==
  \/ pc[c] \in {"parsed", "waiting", "done"}
  \/ c \in buffer[c.dst][c.layer + 1]
  \/ c.layer + 1 < NumLayers /\ c.gen < sent[c.dst][c.layer + 1]

\* The packets that no verification of the edge cases stops: those of the good clients,
\* unless a layer was sent with the RPC of the other kind of packets.
Expected ==
  {p \in Packets : verification = "OnlyVerifyEdgeCases" =>
                     p.client \notin BadClients /\ RpcMatchesPackets}

\* Packet p is not missing: every call that it is for has it, the buffer has it that a call
\* was parsed into whose handler keeps it, its connections are made, and it is output.
Present(p) ==
  /\ \A c \in Calls : pc[c] = "sent" /\ Due(p, c) => p \in cargo[c]
  /\ \A m \in Mixes : \A l \in 1 .. NumLayers : \A c \in buffer[m][l] :
       Kept(p, c) => p \in store[m][l]
  /\ \A c \in Calls : Kind(c.gen) = "setup" /\ Parsed(c) /\ Kept(p, c) =>
       [client |-> p.client, layer |-> c.layer] \in connections[c.dst]
  /\ \A m \in Mixes :
       /\ getpc[m] \in {"measure", "replied"} /\ p.kind = Kind(round[m])
       /\ LastServer(p.client) = m /\ Passes(p.client, NumLayers)
       => p \in output[m]

NothingMissing == \A p \in Expected : Present(p)

DeliveryInv == TwoMixInv /\ RouteInv /\ NothingMissing

\* What DeliveryInv says of the packets: every one is on its route, waits for its call,
\* and none is missing.
Accounted == NetTypeOK /\ PacketsOnRoute /\ CargoWaits /\ NothingMissing

================================================================================
