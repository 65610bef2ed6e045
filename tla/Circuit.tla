------------------------------- MODULE Circuit -------------------------------
(***************************************************************************)
(* Circuits, end to end: clients build setup and data packets in layers    *)
(* (network.rs, marshal/info.rs setup_info), the mixes open a layer each,  *)
(* check its ticket's proof and remember its connection, and the data      *)
(* packets follow.  MixRounds has the rounds in which this happens; here a *)
(* mix opens the packets that wait for it in any order, all setup packets  *)
(* before the first data packet.                                           *)
(*                                                                         *)
(* Tickets and proofs are those of PoKTicket in the byte forms of Formats. *)
(* DryocBox and DryocSecretBox are boxes that only their key opens; a      *)
(* packet is the sequence of its boxes, the outermost first.               *)
(***************************************************************************)
EXTENDS Formats

CONSTANTS NetworkSize,  \* servers: 0..NetworkSize-1
          Layers,
          Clients, BadClients,  \* the bad ones send false tickets
          Modes,        \* the configurations considered: [verify, form]
          Exponents,    \* e of each client's signature
          Draws,        \* random scalars of each client
          TicketBases,  \* h_0 of the ticket values of each layer
          BadTickets,   \* ticket_server_map_generator: a ticket for each server
          Challenges,   \* the hash: the k-th new string gets the k-th of them
          Generators, SecretKey, Message

CONSTANT CalculateNextServer(_, _)   \* a hash of the ticket, modulo the size

(* Network::new: the public key is for one message. *)
VerificationKey == Generate(1, SecretKey, Generators).val

Servers == 0..(NetworkSize - 1)
LayerIds == 0..(Layers - 1)

ASSUME CircuitAssumption ==
  /\ NetworkSize \in Nat \ {0} /\ Layers \in Nat \ {0}
  /\ BadClients \subseteq Clients
  /\ TicketBases \in [1..Layers -> Fr] /\ Exponents \in [Clients -> Fr]
  /\ BadTickets \in [Servers -> Fr]
  /\ \A t \in Fr : CalculateNextServer(t, NetworkSize) \in Servers
  /\ \A s \in Servers : CalculateNextServer(BadTickets[s], NetworkSize) = s
  /\ \A m \in Modes : m.form \in Forms
  /\ Challenges \in Seq(Fr) /\ Challenges # << >> /\ G2_VALUE \in Fr

VARIABLES
  network,      \* the run's mode, the servers' key pairs
  clients,      \* the clients so far: first server, circuit, data packet
  setupPackets, dataPackets,   \* per first server: what setup_info collects
  oracle,       \* the strings hashed to a challenge so far
  phase,        \* "setup_info", "setup", "data"
  waiting,      \* packets at a server: [server, layer, data]
  conns,        \* per server, the connections by id
  refused,      \* conn ids whose setup layer was refused
  output,       \* data the last layer gave out
  panicked      \* what made a process panic

vars == <<network, clients, setupPackets, dataPackets, oracle, phase, waiting,
          conns, refused, output, panicked>>

(* Mutant: a key pair for each server. *)
KeyPairsDistinct(size) == [s \in 0..(size - 1) |-> s]

(* Network::new clones one Server, key pair included. *)
KeyPairs(size) == [s \in 0..(size - 1) |-> "pair"]

Init ==
  /\ network \in {[mode |-> m, servers |-> KeyPairs(NetworkSize)] : m \in Modes}
  /\ clients = << >>
  /\ setupPackets = [s \in Servers |-> << >>]
  /\ dataPackets = [s \in Servers |-> << >>]
  /\ oracle = << >> /\ phase = "setup_info" /\ waiting = {}
  /\ conns = [s \in Servers |-> << >>]
  /\ refused = {} /\ output = {} /\ panicked = {}

(* A map with one more entry. *)
Inserted(map, key, val) ==
  [k \in DOMAIN map \union {key} |-> IF k = key THEN val ELSE map[k]]

form == network.mode.form

GetLastLayerIdx == Layers - 1

(* The k-th new string hashed gets the k-th challenge, in turn. *)
Asking(strings, q) == IF q \in ToSet(strings) THEN strings ELSE Append(strings, q)
Answer(strings, q) ==
  LET k == CHOOSE i \in DOMAIN Asking(strings, q) : Asking(strings, q)[i] = q
  IN  Challenges[((k - 1) % Len(Challenges)) + 1]

SealToVecbox(body, key) == [box |-> key, body |-> body]
Opens(box, key) == box.box = key

(* b = h_0(layer, round, sys_rand), t = b^e *)
CalculateTicket(layer, e) ==
  [b |-> TicketBases[layer + 1], t |-> Times(TicketBases[layer + 1], e)]

TestingMessage == [i \in {0} |-> Message]
TestingProof == [i \in {0} |-> [m |-> Message, kind |-> "revealed", blinding |-> 0]]

ClientSignature(c) ==
  SignatureNew(TestingMessage, SecretKey, VerificationKey, Exponents[c], Draws[c][1]).val

------------------------------------------------------------------------------
(* Building the packets of a client. *)

(* The scalars drawn for the proof of a layer: those of the client, from another
   place on for each layer. *)
Drawn(c, layer) ==
  SubSeq(Draws[c], layer + 2, Len(Draws[c])) \o SubSeq(Draws[c], 1, layer + 1)

TicketPoK(c, layer) ==
  LET tk == CalculateTicket(layer, Exponents[c])
  IN  PoKOfTicketInit(ClientSignature(c), VerificationKey, TestingProof, tk.t, tk.b,
                      Drawn(c, layer)).val

TicketProofFor(c, layer, challenge) == PoKOfTicketGenProof(TicketPoK(c, layer), challenge).val

(* The string hashed for the proof of a layer. *)
ProofBytes(c, layer) == PoKOfTicketBytes(TicketPoK(c, layer))

(* get_ticket_proof, in the form the network uses; the last layer has none. *)
GetTicketProof(c, layer, strings) ==
  TicketPoKToBytes(TicketProofFor(c, layer, Answer(strings, ProofBytes(c, layer))), form)

(* The strings hashed so far and those of the proofs of c, last layer first. *)
StringsWith(c) ==
  LET after[k \in Nat] ==
        IF k = 0 THEN oracle
        ELSE Asking(after[k - 1], ProofBytes(c, GetLastLayerIdx - k))
  IN  after[GetLastLayerIdx]

(* bad_tickets_vec of setup_info: a zig-zag between the first and the last
   server; layer i uses entry i - 1. *)
BadTicket(layer) == BadTickets[IF (layer - 1) % 2 = 0 THEN 0 ELSE NetworkSize - 1]

(* What the key and the draws are in all but a negligible share of the runs: no
   scalar that was drawn is zero, no generator the identity, each client's
   signature exists, no false ticket is the true one, and no proof answers it
   with zero.  A proof takes 14 scalars. *)
ASSUME DrawsAssumption ==
  /\ SecretKey \in Fr \ {0} /\ Message \in Fr
  /\ Generators \in Seq(Fr \ {0}) /\ Len(Generators) = 2
  /\ \A c \in Clients :
       /\ Draws[c] \in Seq(Fr \ {0}) /\ Len(Draws[c]) >= 14 /\ Len(Draws[c]) >= Layers
       /\ Exponents[c] # 0 /\ Plus(SecretKey, Exponents[c]) # 0
       /\ ComputeB(Draws[c][1], TestingMessage, VerificationKey) # Zero
  /\ \A c \in BadClients : \A l \in LayerIds \ {0, GetLastLayerIdx} :
       /\ BadTicket(l) # CalculateTicket(l, Exponents[c]).t
       /\ \A challenge \in ToSet(Challenges) :
            TicketProofFor(c, l, challenge).proof_vc_5.responses[2] # 0

TicketOf(c, layer) ==
  IF c \in BadClients /\ layer > 0 THEN BadTicket(layer)
  ELSE CalculateTicket(layer, Exponents[c]).t

(* The connection of a layer; cur_server is 0 until the packet is sealed, and
   stays so inside it. *)
ConnectionOf(c, layer) ==
  [conn_id |-> <<c, layer>>, key |-> <<"key", c, layer>>, layer |-> layer,
   cur_server |-> 0,
   dest_server |-> CalculateNextServer(TicketOf(c, layer), NetworkSize)]

(* generate_setup_packet_layer, and what generate_bad_setup_packet changes:
   the ticket and the destination, the proof is that of the true ticket. *)
SetupLayer(c, layer, strings) ==
  [ticket |-> Bytes("g1", form, TicketOf(c, layer)),
   proof  |-> IF layer = GetLastLayerIdx THEN << >> ELSE GetTicketProof(c, layer, strings),
   conn   |-> ConnectionOf(c, layer)]

(* generate_setup_packet_inner: layer i is sealed to the server its own ticket
   names, the first layer to one drawn at random. *)
SealedTo(c, first, layer) ==
  IF layer = 0 THEN first ELSE ConnectionOf(c, layer).dest_server

SetupPacket(c, first, strings) ==
  [k \in 1..Layers |-> SealToVecbox(SetupLayer(c, k - 1, strings),
                                    network.servers[SealedTo(c, first, k - 1)])]

(* Mutant: the client keeps the cur_server that it sealed. *)
CircuitUnfixed(c, first) ==
  [i \in LayerIds |-> ConnectionOf(c, i)]

(* The client's own list of connections: each starts where the one before it
   ends. *)
CircuitOf(c, first) ==
  [i \in LayerIds |->
     [ConnectionOf(c, i) EXCEPT
        !.cur_server = IF i = 0 THEN first ELSE ConnectionOf(c, i - 1).dest_server]]

(* generate_data_packet: encrypted to the keys of the circuit, in one box for
   each connection. *)
DataPacket(circuit, data) ==
  [boxes |-> [k \in 1..Layers |-> [conn_id |-> circuit[k - 1].conn_id,
                                   box     |-> circuit[k - 1].key]],
   data  |-> data]

(* One client of setup_info: Client::new, both packets, and the push of the
   setup packet under the first lock. *)
GenerateClient(c, first) ==
  /\ phase = "setup_info" /\ c \notin DOMAIN clients
  /\ oracle' = StringsWith(c)
  /\ LET circuit == CircuitOf(c, first)
     IN  clients' = Inserted(clients, c,
                       [first |-> first, circuit |-> circuit, pushed |-> FALSE,
                        packet |-> DataPacket(circuit, <<"data", c>>)])
  /\ setupPackets' = [setupPackets EXCEPT ![first] =
                        Append(@, SetupPacket(c, first, StringsWith(c)))]
  /\ UNCHANGED <<network, dataPackets, phase, waiting, conns, refused, output, panicked>>

(* The push of the data packet under the second lock. *)
PushDataPacket(c) ==
  /\ phase = "setup_info" /\ c \in DOMAIN clients /\ ~clients[c].pushed
  /\ dataPackets' = [dataPackets EXCEPT ![clients[c].first] =
                       Append(@, clients[c].packet)]
  /\ clients' = [clients EXCEPT ![c].pushed = TRUE]
  /\ UNCHANGED <<network, setupPackets, oracle, phase, waiting, conns, refused,
                 output, panicked>>

Initial(files) == UNION {{[server |-> s, layer |-> 0, data |-> files[s][k]]
                            : k \in DOMAIN files[s]} : s \in Servers}

(* The files are written, and every mix reads its own. *)
StartSetup ==
  /\ phase = "setup_info"
  /\ \A c \in Clients : c \in DOMAIN clients /\ clients[c].pushed
  /\ phase' = "setup"
  /\ waiting' = Initial(setupPackets)
  /\ UNCHANGED <<network, clients, setupPackets, dataPackets, oracle, conns,
                 refused, output, panicked>>

------------------------------------------------------------------------------
(* The mixes. *)

TicketFromBytes(data) == Read(Take(CursorOn(data), "g1", form), LAMBDA o : o[1])

(* verify_setup_packet: the challenge string is hashed again from the proof,
   the base of the mix's layer and the ticket in the packet. *)
VerifyString(pkt, layer) ==
  TicketBytesForChallenge(TicketPoKFromBytes(pkt.proof, form).val, {0}, VerificationKey,
                          TicketBases[layer + 1], TicketFromBytes(pkt.ticket).val)

Successful(r) == IF r.st = "panic" THEN Panic ELSE Ok(r = Ok("Success"))

(* Mutant: every proof is good. *)
VerifySetupPacketLax(pkt, layer) == Ok(TRUE)

VerifySetupPacket(pkt, layer) ==
  Successful(
    Try(TicketFromBytes(pkt.ticket), LAMBDA t :
    Try(TicketPoKFromBytes(pkt.proof, form), LAMBDA proof :
      PoKOfTicketVerify(proof, VerificationKey, TestingMessage,
        Answer(oracle, VerifyString(pkt, layer)), TicketBases[layer + 1], t))))

Checked(layer) == network.mode.verify /\ layer # GetLastLayerIdx

(* decrypt_setup_layer: Ok with the packet and the next server, an error when
   the proof is refused, a panic when the box does not open. *)
DecryptSetupLayer(w) ==
  LET pkt == w.data[1].body
      t == TicketFromBytes(pkt.ticket)
  IN  IF ~Opens(w.data[1], network.servers[w.server]) THEN Panic
      ELSE Try(IF Checked(w.layer) THEN VerifySetupPacket(pkt, w.layer) ELSE Ok(TRUE),
             LAMBDA valid :
               IF ~valid THEN Err("invalid")
               ELSE IF t.st # "ok" THEN Panic
               ELSE Ok([pkt |-> pkt, next |-> CalculateNextServer(t.val, NetworkSize)]))

(* A mix opens a layer: the connection is kept and the rest goes on; a refused
   packet is dropped. *)
DecryptSetup(w) ==
  /\ phase = "setup" /\ w \in waiting
  /\ \E r \in {DecryptSetupLayer(w)} :
     LET id == w.data[1].body.conn.conn_id
         onward == IF r.st = "ok" /\ w.layer < GetLastLayerIdx
                   THEN {[server |-> r.val.next, layer |-> w.layer + 1,
                          data |-> Tail(w.data)]}
                   ELSE {}
     IN  /\ waiting' = (waiting \ {w}) \union onward
         /\ conns' = IF r.st = "ok"
                     THEN [conns EXCEPT ![w.server] = Inserted(@, id, r.val.pkt.conn)]
                     ELSE conns
         /\ refused' = IF r.st = "err" THEN refused \union {id} ELSE refused
         /\ panicked' = IF r.st = "panic" THEN panicked \union {id} ELSE panicked
         /\ oracle' = IF Checked(w.layer) /\ Opens(w.data[1], network.servers[w.server])
                      THEN Asking(oracle, VerifyString(w.data[1].body, w.layer))
                      ELSE oracle
  /\ UNCHANGED <<network, clients, setupPackets, dataPackets, phase, output>>

StartData ==
  /\ phase = "setup" /\ waiting = {}
  /\ phase' = "data"
  /\ waiting' = Initial(dataPackets)
  /\ UNCHANGED <<network, clients, setupPackets, dataPackets, oracle, conns,
                 refused, output, panicked>>

(* Mutant: refused as soon as one of the two is another. *)
ConnectionRefusesEither(conn, server, layer) ==
  conn.layer # layer \/ conn.cur_server # server

(* A connection is refused when its layer and its server are both others. *)
ConnectionRefuses(conn, server, layer) ==
  conn.layer # layer /\ conn.cur_server # server

(* decrypt_data_packet_layer *)
DecryptDataLayer(w) ==
  LET known == conns[w.server]
      outer == w.data.boxes[1]
      id == outer.conn_id
  IN  IF id \notin DOMAIN known THEN Err("no_connection")
      ELSE IF ConnectionRefuses(known[id], w.server, w.layer) THEN Err("layer")
      ELSE IF outer.box # known[id].key THEN Err("key")
      ELSE Ok([data |-> [w.data EXCEPT !.boxes = Tail(@)], next |-> known[id].dest_server])

DecryptData(w) ==
  /\ phase = "data" /\ w \in waiting
  /\ LET r == DecryptDataLayer(w)
         last == w.layer = GetLastLayerIdx
     IN  /\ waiting' = (waiting \ {w}) \union
                       (IF r.st = "ok" /\ ~last
                        THEN {[server |-> r.val.next, layer |-> w.layer + 1,
                               data |-> r.val.data]}
                        ELSE {})
         /\ output' = IF r.st = "ok" /\ last
                      THEN output \union {[data |-> r.val.data, at |-> r.val.next]}
                      ELSE output
  /\ UNCHANGED <<network, clients, setupPackets, dataPackets, oracle, phase,
                 conns, refused, panicked>>

Next ==
  \/ \E c \in Clients : PushDataPacket(c) \/ \E s \in Servers : GenerateClient(c, s)
  \/ StartSetup \/ StartData
  \/ \E w \in waiting : DecryptSetup(w) \/ DecryptData(w)

Spec == Init /\ [][Next]_vars

------------------------------------------------------------------------------
(* No honest or bad client's packet makes a mix panic: every box opens where  *)
(* it arrives although it is sealed to the server its own ticket names, every *)
(* ticket can be read, and the assertion that both responses for e are equal  *)
(* never fires (network.rs decrypt_setup_layer, pok_ticket.rs).               *)
NoPanic == panicked = {}

(* Only false tickets are refused... *)
TrueTicketsPass == \A id \in refused : id[1] \in BadClients /\ id[2] > 0

(* ... and they are wherever a mix must check them. *)
FalseTicketsCaught ==
  network.mode.verify =>
    \A s \in Servers : \A id \in DOMAIN conns[s] :
      id[1] \in BadClients /\ id[2] > 0 => Layers = 2

(* A setup layer that carries a false ticket is refused by the mix that must  *)
(* check it, so that a bad client has a connection at layer 0 only (beyond it *)
(* only a last layer is not checked), and no layer of a true ticket is.       *)
FalseTicketsStop == TrueTicketsPass /\ FalseTicketsCaught

(* The mixes' connections are the client's circuit: each is at the server the *)
(* client expects it at, with its key and the same onward server.             *)
CircuitAgrees ==
  \A s \in Servers : \A id \in DOMAIN conns[s] :
    LET mine == clients[id[1]].circuit[id[2]]
    IN  /\ mine.cur_server = s
        /\ mine = [conns[s][id] EXCEPT !.cur_server = s]

(* What comes out of the data packet of c. *)
OutputOf(c) ==
  [data |-> [boxes |-> << >>, data |-> <<"data", c>>],
   at   |-> clients[c].circuit[GetLastLayerIdx].dest_server]

(* When all is done, a client's data came out, out of all its boxes and at    *)
(* the server its last ticket names, exactly when no layer of its setup was   *)
(* refused: the order in which the two locks of setup_info were taken is no   *)
(* matter, and a data packet needs every connection of its circuit.           *)
DataFollowsSetup ==
  phase = "data" /\ waiting = {} =>
    output = {OutputOf(c) : c \in {d \in Clients : \A id \in refused : id[1] # d}}

(* The bytes of a ticket proof decode to nothing once their end is missing,   *)
(* and whole they decode to a proof whose bytes they are.                     *)
TicketProofBytes ==
  \A s \in Servers : \A k \in DOMAIN setupPackets[s] :
    LET data == setupPackets[s][k][1].body.proof
        whole == TicketPoKFromBytes(data, form)
    IN  phase = "setup_info" =>
          /\ whole.st = "ok" /\ TicketPoKToBytes(whole.val, form) = data
          /\ \A n \in 0..(Len(data) - 1) :
               TicketPoKFromBytes(SubSeq(data, 1, n), form).st # "ok"

------------------------------------------------------------------------------
(* The inductive invariant for CircuitAgrees and DataFollowsSetup. *)

(* The packets that are on their way, and those that will be: each as it waits
   at a server. *)
SetupOnWay ==
  CASE phase = "setup_info" -> Initial(setupPackets)
    [] phase = "setup"      -> waiting
    [] phase = "data"       -> {}
DataOnWay == IF phase = "data" THEN waiting ELSE Initial(dataPackets)

IsSeqOfLen(s, n) == s \in Seq(ToSet(s)) /\ Len(s) = n

(* What the server of layer l has, once it connected client c there. *)
Connected(c, l) == <<c, l>> \in DOMAIN conns[clients[c].circuit[l].cur_server]
Complete(c) == \A l \in LayerIds : Connected(c, l)
Refused(c) == \E id \in refused : id[1] = c

(* w waits where the circuit of c has its layer. *)
AtLayer(w, c) ==
  c \in DOMAIN clients /\ w.layer \in LayerIds
    /\ w.server = clients[c].circuit[w.layer].cur_server

(* The boxes that are left of the setup packet of c. *)
SetupOf(w, c) ==
  /\ AtLayer(w, c) /\ IsSeqOfLen(w.data, Layers - w.layer)
  /\ \A k \in 1..(Layers - w.layer) :
       LET layer == w.layer + k - 1
       IN  /\ \A s \in Servers : Opens(w.data[k], network.servers[s])
           /\ w.data[k].body.conn = ConnectionOf(c, layer)
           /\ w.data[k].body.ticket = Bytes("g1", form, TicketOf(c, layer))
SetupOwner(w) == w.data[1].body.conn.conn_id[1]

(* The boxes that are left of the data packet of c. *)
DataOf(w, c) ==
  /\ AtLayer(w, c) /\ IsSeqOfLen(w.data.boxes, Layers - w.layer)
  /\ w.data = [boxes |-> w.data.boxes, data |-> <<"data", c>>]
  /\ \A k \in 1..(Layers - w.layer) :
       w.data.boxes[k] = [conn_id |-> <<c, w.layer + k - 1>>,
                          box     |-> <<"key", c, w.layer + k - 1>>]

ClientsAsBuilt ==
  /\ network.servers = KeyPairs(NetworkSize)
  /\ DOMAIN clients \subseteq Clients
  /\ \A c \in DOMAIN clients : \E first \in Servers :
       clients[c] \in [first : {first}, pushed : BOOLEAN, circuit : {CircuitOf(c, first)},
                       packet : {DataPacket(CircuitOf(c, first), <<"data", c>>)}]

Phases ==
  /\ phase \in {"setup_info", "setup", "data"}
  /\ phase = "setup_info" => refused = {} /\ panicked = {}
                               /\ \A s \in Servers : conns[s] = << >>
  /\ phase # "data" => output = {}
  /\ phase # "setup_info" => \A c \in Clients : c \in DOMAIN clients /\ clients[c].pushed
  /\ DOMAIN setupPackets = Servers /\ DOMAIN dataPackets = Servers
  /\ \A s \in Servers : /\ setupPackets[s] \in Seq(ToSet(setupPackets[s]))
                        /\ dataPackets[s] \in Seq(ToSet(dataPackets[s]))

(* Every connection is the one its client expects there. *)
ConnectionsAsBuilt ==
  /\ DOMAIN conns = Servers
  /\ \A s \in Servers : \A id \in DOMAIN conns[s] :
       \E c \in DOMAIN clients, l \in LayerIds :
         /\ id = <<c, l>> /\ conns[s][id] = ConnectionOf(c, l)
         /\ clients[c].circuit[l].cur_server = s

(* Each client has at most one setup packet on its way, and is connected up to
   where it is; without one it is connected throughout, or a layer was refused. *)
SetupProgress ==
  /\ \A w \in SetupOnWay :
       LET c == SetupOwner(w)
       IN  /\ SetupOf(w, c) /\ ~Refused(c)
           /\ \A l \in LayerIds : Connected(c, l) <=> l < w.layer
  /\ \A v, w \in SetupOnWay : SetupOwner(v) = SetupOwner(w) => v = w
  /\ \A id \in refused : \E c \in DOMAIN clients, l \in LayerIds :
       id = <<c, l>> /\ ~Connected(c, l)
  /\ panicked = {} =>
       \A c \in DOMAIN clients :
         Refused(c) \/ Complete(c) \/ \E w \in SetupOnWay : SetupOwner(w) = c

(* Data goes as far as its client is connected. *)
DataProgress ==
  /\ \A w \in DataOnWay : \E c \in DOMAIN clients :
       DataOf(w, c) /\ \A l \in LayerIds : l < w.layer => Connected(c, l)
  /\ \A c \in DOMAIN clients :
       clients[c].pushed /\ (phase = "data" => Complete(c)) =>
         OutputOf(c) \in output \/ \E w \in DataOnWay : DataOf(w, c)
  /\ \A o \in output : \E c \in DOMAIN clients : o = OutputOf(c) /\ Complete(c)

CircuitInv ==
  ClientsAsBuilt /\ Phases /\ ConnectionsAsBuilt /\ SetupProgress /\ DataProgress

------------------------------------------------------------------------------
(* The inductive invariant for NoPanic and FalseTicketsStop. *)

(* No string is asked twice. *)
StringsOnce(s) ==
  s \in Seq(ToSet(s)) /\ \A i, j \in 1..Len(s) : s[i] = s[j] => i = j

(* The proof of a layer as its client made it, for the challenge of its string. *)
Carries(proof, c, layer) ==
  ProofBytes(c, layer) \in ToSet(oracle) /\ proof = GetTicketProof(c, layer, oracle)

ProofsOf(w) ==
  \A k \in 1..(Layers - w.layer) :
    w.layer + k - 1 # GetLastLayerIdx =>
      Carries(w.data[k].body.proof, SetupOwner(w), w.layer + k - 1)

ProofInv ==
  /\ form \in Forms /\ StringsOnce(oracle) /\ \A w \in SetupOnWay : ProofsOf(w)
  /\ NoPanic /\ FalseTicketsStop
==============================================================================
