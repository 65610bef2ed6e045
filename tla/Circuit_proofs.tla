--------------------------- MODULE Circuit_proofs ---------------------------
(***************************************************************************)
(* Proofs about Circuit, for every number of servers, layers and clients,  *)
(* every draw of tickets and first servers, and every mode: CircuitInv is  *)
(* inductive, and from it the mixes' connections are the circuits of the   *)
(* clients, and the data of the clients that no mix refused comes out;     *)
(* ProofInv is inductive on top of it, and from it no mix panics and the   *)
(* mixes refuse the false tickets that they check, and nothing else.       *)
(*                                                                         *)
(* A step that opens a layer rests on three facts: the boxes that are left *)
(* of a packet are the tail of those that were (TailOfBoxes), its ticket   *)
(* is read as it was written (TicketReads, from the bytes of Formats), and *)
(* the server it then goes to is where the circuit has its next connection *)
(* (Route).  What the check of a proof answers is left open there; it is   *)
(* VerifyIs: the mix decodes the proof that the client made, hashes the    *)
(* string the client did when the ticket is the true one, and a proof that *)
(* passes for the true ticket passes for no other (TicketIsBound).         *)
(***************************************************************************)
EXTENDS Circuit, Primitives_proofs

(* A ticket is read from its bytes as it was written. *)
LEMMA TicketReads ==
  ASSUME NEW t
  PROVE  TicketFromBytes(Bytes("g1", form, t)) = Ok(t)
<1> DEFINE n == Size("g1", form)
           b == Bytes("g1", form, t)
           c == [data |-> b, at |-> 0, out |-> << >>, st |-> "ok"]
<1>1. n \in Nat /\ n >= 1
  BY SizesAssumption DEF Size
<1>2. b = [k \in 1..n |-> <<"g1", FormOf("g1", form), t, k>>]
  BY DEF Bytes
<1>3. Len(b) = n /\ b[1][3] = t
        /\ \A k \in 1..n : b[k] = <<"g1", FormOf("g1", form), t, k>>
  BY <1>1, <1>2
<1> HIDE DEF n, b
<1>4. HoldsElement(c, "g1", form)
  BY <1>1, <1>3 DEF HoldsElement, n
<1>5. Take(c, "g1", form).st = "ok" /\ Take(c, "g1", form).out = <<t>>
  <2>1. c.st = "ok" /\ c.at = 0 /\ c.out = << >> /\ c.data = b
    OBVIOUS
  <2> HIDE DEF c
  <2>2. c.data[c.at + 1][3] = t
    BY <1>3, <2>1
  <2>3. Take(c, "g1", form) = Advanced(c, n, t)
    BY <1>4, <2>1, <2>2 DEF Take, n
  <2>4. Append(c.out, t) = <<t>>
    BY <2>1
  <2> QED
    BY <2>3, <2>4 DEF Advanced
<1>6. CursorOn(b) = c
  BY DEF CursorOn
<1> HIDE DEF c
<1>7. Read(Take(c, "g1", form), LAMBDA o : o[1]) = Ok(t)
  BY <1>5 DEF Read
<1> QED
  BY <1>6, <1>7 DEF TicketFromBytes, b
--------------------------------------------------------------------------------
(* Sequences of boxes, and the packets in the files. *)

LEMMA SeqOfItself ==
  ASSUME NEW S, NEW s \in Seq(S)
  PROVE  s \in Seq(ToSet(s))
BY DEF ToSet

LEMMA SeqOfMore ==
  ASSUME NEW S, NEW T, S \subseteq T, NEW s \in Seq(S)
  PROVE  s \in Seq(T)
OBVIOUS

LEMMA BoxesAreSeq ==
  ASSUME NEW n \in Nat, NEW s, s = [k \in 1..n |-> s[k]]
  PROVE  IsSeqOfLen(s, n)
<1>1. s \in Seq({s[k] : k \in 1..n}) /\ Len(s) = n
  OBVIOUS
<1> QED
  BY <1>1, SeqOfItself DEF IsSeqOfLen

LEMMA TailOfBoxes ==
  ASSUME NEW n \in Nat, n >= 1, NEW s, IsSeqOfLen(s, n)
  PROVE  /\ IsSeqOfLen(Tail(s), n - 1)
         /\ \A k \in 1..(n - 1) : Tail(s)[k] = s[k + 1]
<1>1. s \in Seq(ToSet(s)) /\ s # << >> /\ Len(s) = n
  BY DEF IsSeqOfLen
<1>2. Tail(s) \in Seq(ToSet(s)) /\ Len(Tail(s)) = n - 1
        /\ \A k \in 1..Len(Tail(s)) : Tail(s)[k] = s[k + 1]
  BY <1>1, HeadTailProperties
<1> QED
  BY <1>2, SeqOfItself DEF IsSeqOfLen

(* A packet more in a file is a packet more that will be on its way. *)
LEMMA InitialAppend ==
  ASSUME NEW files, DOMAIN files = Servers, NEW s \in Servers, NEW x,
         \A r \in Servers : files[r] \in Seq(ToSet(files[r]))
  PROVE  LET more == [files EXCEPT ![s] = Append(@, x)]
         IN  /\ DOMAIN more = Servers
             /\ \A r \in Servers : more[r] \in Seq(ToSet(more[r]))
             /\ Initial(more) =
                  Initial(files) \union {[server |-> s, layer |-> 0, data |-> x]}
<1> DEFINE more == [files EXCEPT ![s] = Append(@, x)]
           new == [server |-> s, layer |-> 0, data |-> x]
<1>1. /\ DOMAIN more = Servers /\ more[s] = Append(files[s], x)
      /\ \A r \in Servers \ {s} : more[r] = files[r]
  OBVIOUS
<1>2. /\ more[s] \in Seq(ToSet(files[s]) \union {x})
      /\ Len(more[s]) = Len(files[s]) + 1 /\ Len(files[s]) \in Nat
      /\ DOMAIN files[s] = 1..Len(files[s]) /\ DOMAIN more[s] = 1..Len(more[s])
      /\ \A k \in 1..Len(files[s]) : more[s][k] = files[s][k]
      /\ more[s][Len(files[s]) + 1] = x
  <2>1. files[s] \in Seq(ToSet(files[s]) \union {x})
    BY SeqOfMore
  <2> QED
    BY <1>1, <2>1, AppendProperties
<1>3. \A r \in Servers : more[r] \in Seq(ToSet(more[r]))
  BY <1>1, <1>2, SeqOfItself
<1>4. \A r \in Servers : \A y :
        (\E k \in DOMAIN more[r] : more[r][k] = y)
          <=> (\E k \in DOMAIN files[r] : files[r][k] = y) \/ (r = s /\ y = x)
  <2> SUFFICES ASSUME NEW y
               PROVE  (\E k \in DOMAIN more[s] : more[s][k] = y)
                        <=> (\E k \in DOMAIN files[s] : files[s][k] = y) \/ y = x
    BY <1>1
  <2>1. DOMAIN more[s] = DOMAIN files[s] \union {Len(files[s]) + 1}
    BY <1>2
  <2> HIDE DEF more
  <2> QED
    BY <1>2, <2>1
<1> HIDE DEF more
<1>5. \A w : w \in Initial(more) <=> w \in Initial(files) \/ w = new
  <2>1. \A f, w : w \in Initial(f) <=>
          /\ w = [server |-> w.server, layer |-> 0, data |-> w.data]
          /\ w.server \in Servers
          /\ \E k \in DOMAIN f[w.server] : f[w.server][k] = w.data
    BY DEF Initial
  <2>2. \A w : w = new <=>
          /\ w = [server |-> w.server, layer |-> 0, data |-> w.data]
          /\ w.server = s /\ w.data = x
    OBVIOUS
  <2> HIDE DEF new
  <2> SUFFICES ASSUME NEW w
               PROVE  w \in Initial(more) <=> w \in Initial(files) \/ w = new
    OBVIOUS
  <2> DEFINE P(f) == \E k \in DOMAIN f[w.server] : f[w.server][k] = w.data
             Q == w = [server |-> w.server, layer |-> 0, data |-> w.data]
                    /\ w.server \in Servers
  <2>3. Q => (P(more) <=> P(files) \/ (w.server = s /\ w.data = x))
    BY <1>4, ZenonT(60)
  <2>4. (w \in Initial(more) <=> Q /\ P(more)) /\ (w \in Initial(files) <=> Q /\ P(files))
    BY <2>1
  <2>5. w = new <=> Q /\ w.server = s /\ w.data = x
    BY <2>2
  <2> HIDE DEF P, Q
  <2> QED
    BY <2>3, <2>4, <2>5
<1> QED
  BY <1>1, <1>3, <1>5 DEF more

--------------------------------------------------------------------------------
(* Circuits. *)

LEMMA TicketInFr ==
  ASSUME NEW c \in Clients, NEW l \in LayerIds
  PROVE  TicketOf(c, l) \in Fr
<1>1. \A x, y \in Fr : Times(x, y) \in Fr
  BY RAssumption DEF Times, Fr
<1>2. TicketBases[l + 1] \in Fr /\ Exponents[c] \in Fr
  BY CircuitAssumption DEF LayerIds
<1>3. BadTicket(l) \in Fr
  BY CircuitAssumption DEF BadTicket, Servers
<1> QED
  BY <1>1, <1>2, <1>3 DEF TicketOf, CalculateTicket

LEMMA NextIsServer ==
  ASSUME NEW c \in Clients, NEW l \in LayerIds
  PROVE  ConnectionOf(c, l).dest_server \in Servers
BY TicketInFr, CircuitAssumption DEF ConnectionOf

(* Where a circuit goes. *)
LEMMA CircuitServers ==
  ASSUME NEW c \in Clients, NEW first \in Servers, NEW l \in LayerIds
  PROVE  LET conn == CircuitOf(c, first)[l]
         IN  /\ conn.cur_server \in Servers
             /\ l = 0 => conn.cur_server = first
             /\ l > 0 => conn.cur_server = ConnectionOf(c, l - 1).dest_server
             /\ conn = [ConnectionOf(c, l) EXCEPT !.cur_server = conn.cur_server]
             /\ conn.conn_id = <<c, l>> /\ conn.key = <<"key", c, l>>
             /\ conn.dest_server = ConnectionOf(c, l).dest_server
<1> DEFINE conn == CircuitOf(c, first)[l]
           to == IF l = 0 THEN first ELSE ConnectionOf(c, l - 1).dest_server
<1>1. conn = [ConnectionOf(c, l) EXCEPT !.cur_server = to]
  BY DEF CircuitOf
<1>2. to \in Servers
  BY NextIsServer, CircuitAssumption DEF LayerIds
<1> HIDE DEF to
<1>3. /\ conn.cur_server = to /\ conn.conn_id = <<c, l>> /\ conn.key = <<"key", c, l>>
      /\ conn.dest_server = ConnectionOf(c, l).dest_server
  BY <1>1 DEF ConnectionOf
<1> QED
  BY <1>1, <1>2, <1>3 DEF to, LayerIds

(* What the clients know of their circuits. *)
LEMMA Built ==
  ASSUME ClientsAsBuilt, NEW c \in DOMAIN clients
  PROVE  /\ c \in Clients
         /\ \E first \in Servers :
              /\ clients[c].first = first /\ clients[c].pushed \in BOOLEAN
              /\ clients[c].circuit = CircuitOf(c, first)
              /\ clients[c].packet = DataPacket(clients[c].circuit, <<"data", c>>)
BY DEF ClientsAsBuilt

LEMMA Route ==
  ASSUME ClientsAsBuilt, NEW c \in DOMAIN clients, NEW l \in LayerIds
  PROVE  LET conn == clients[c].circuit[l]
         IN  /\ conn.cur_server \in Servers
             /\ l = 0 => conn.cur_server = clients[c].first
             /\ l > 0 => conn.cur_server = ConnectionOf(c, l - 1).dest_server
             /\ conn = [ConnectionOf(c, l) EXCEPT !.cur_server = conn.cur_server]
             /\ conn.conn_id = <<c, l>> /\ conn.key = <<"key", c, l>>
             /\ conn.dest_server = ConnectionOf(c, l).dest_server
<1>1. c \in Clients
  BY Built
<1>2. PICK first \in Servers :
        clients[c].first = first /\ clients[c].circuit = CircuitOf(c, first)
  BY Built
<1> QED
  BY <1>1, <1>2, CircuitServers

(* A packet stays what it is while the circuit of its client does. *)
LEMMA SamePackets ==
  ASSUME UNCHANGED network, NEW c \in DOMAIN clients, c \in (DOMAIN clients)',
         clients'[c].circuit = clients[c].circuit, NEW w
  PROVE  /\ SetupOf(w, c) => SetupOf(w, c)'
         /\ DataOf(w, c) => DataOf(w, c)'
BY DEF SetupOf, DataOf, AtLayer, form

--------------------------------------------------------------------------------
(* Opening a layer of a setup packet. *)

LEMMA SetupOpens ==
  ASSUME ClientsAsBuilt, NEW w, NEW c \in DOMAIN clients, SetupOf(w, c)
  PROVE  LET r == DecryptSetupLayer(w)
         IN  /\ w.data[1].body.conn.conn_id = <<c, w.layer>> /\ SetupOwner(w) = c
             /\ r.st \in {"ok", "err", "panic"}
             /\ r.st = "ok" => /\ r.val.pkt.conn = ConnectionOf(c, w.layer)
                               /\ r.val.next = ConnectionOf(c, w.layer).dest_server
             /\ ~network.mode.verify => r.st = "ok"
<1> DEFINE pkt == w.data[1].body
           t == TicketOf(c, w.layer)
           V == IF Checked(w.layer) THEN VerifySetupPacket(pkt, w.layer) ELSE Ok(TRUE)
           next == CalculateNextServer(t, NetworkSize)
<1>1. /\ w.layer \in LayerIds /\ w.server \in Servers
      /\ Opens(w.data[1], network.servers[w.server])
      /\ pkt.conn = ConnectionOf(c, w.layer) /\ pkt.ticket = Bytes("g1", form, t)
  <2>1. w.layer \in LayerIds /\ w.server \in Servers
    BY Route DEF SetupOf, AtLayer
  <2>2. 1 \in 1..(Layers - w.layer) /\ w.layer + 1 - 1 = w.layer
    BY <2>1, CircuitAssumption DEF LayerIds
  <2> QED
    BY <2>1, <2>2 DEF SetupOf
<1>2. TicketFromBytes(pkt.ticket) = Ok(t)
  BY <1>1, TicketReads
<1>3. V.st \in {"ok", "panic"} /\ (~network.mode.verify => V = Ok(TRUE))
  BY DEF VerifySetupPacket, Successful, Checked, Ok, Panic
<1> HIDE DEF V
<1>4. DecryptSetupLayer(w) =
        IF V.st = "ok" THEN IF ~V.val THEN Err("invalid") ELSE Ok([pkt |-> pkt, next |-> next])
        ELSE V
  BY <1>1, <1>2 DEF DecryptSetupLayer, Try, V, Ok
<1>5. ConnectionOf(c, w.layer).dest_server = next /\ ConnectionOf(c, w.layer).conn_id = <<c, w.layer>>
  BY DEF ConnectionOf
<1> QED
  BY <1>1, <1>3, <1>4, <1>5 DEF Ok, Err, SetupOwner

--------------------------------------------------------------------------------
(* The invariant. *)

LEMMA CircuitInvInit == Init => CircuitInv
<1> SUFFICES ASSUME Init PROVE CircuitInv
  OBVIOUS
<1>1. /\ phase = "setup_info" /\ refused = {} /\ panicked = {} /\ output = {}
      /\ DOMAIN clients = {} /\ network.servers = KeyPairs(NetworkSize)
      /\ conns = [s \in Servers |-> << >>]
      /\ setupPackets = [s \in Servers |-> << >>] /\ dataPackets = [s \in Servers |-> << >>]
  BY DEF Init
<1>2. Initial(setupPackets) = {} /\ Initial(dataPackets) = {}
  BY <1>1 DEF Initial
<1>3. ClientsAsBuilt /\ ConnectionsAsBuilt
  BY <1>1 DEF ClientsAsBuilt, ConnectionsAsBuilt
<1>4. Phases
  BY <1>1 DEF Phases
<1>5. SetupOnWay = {} /\ DataOnWay = {}
  BY <1>1, <1>2 DEF SetupOnWay, DataOnWay
<1>6. SetupProgress /\ DataProgress
  BY <1>1, <1>5 DEF SetupProgress, DataProgress
<1> QED
  BY <1>3, <1>4, <1>6 DEF CircuitInv

(* Before the setup round nobody is connected. *)
LEMMA NobodyConnected ==
  ASSUME CircuitInv, phase = "setup_info", NEW c \in DOMAIN clients, NEW l \in LayerIds
  PROVE  ~Connected(c, l)
<1>1. clients[c].circuit[l].cur_server \in Servers
  BY Route DEF CircuitInv
<1> QED
  BY <1>1 DEF CircuitInv, Phases, Connected

LEMMA GenerateStep ==
  ASSUME CircuitInv, NEW c \in Clients, NEW first \in Servers, GenerateClient(c, first)
  PROVE  CircuitInv'
<1> DEFINE circuit == CircuitOf(c, first)
<1>1. PICK strings, made : strings = StringsWith(c) /\ made = SetupPacket(c, first, strings)
  OBVIOUS
<1>2. PICK new : new = [server |-> first, layer |-> 0, data |-> made]
  OBVIOUS
<1>3. /\ phase = "setup_info" /\ phase' = phase /\ c \notin DOMAIN clients
      /\ UNCHANGED <<network, dataPackets, waiting, conns, refused, output, panicked>>
      /\ setupPackets' = [setupPackets EXCEPT ![first] = Append(@, made)]
  BY <1>1 DEF GenerateClient
<1>4. clients' = Inserted(clients, c,
                   [first |-> first, circuit |-> circuit, pushed |-> FALSE,
                    packet |-> DataPacket(circuit, <<"data", c>>)])
  BY DEF GenerateClient
<1>5. /\ (DOMAIN clients)' = DOMAIN clients \union {c}
      /\ \A d \in DOMAIN clients : clients'[d] = clients[d] /\ d # c
      /\ clients'[c] = [first |-> first, circuit |-> circuit, pushed |-> FALSE,
                        packet |-> DataPacket(circuit, <<"data", c>>)]
  BY <1>3, <1>4 DEF Inserted
<1>6. /\ (DOMAIN setupPackets)' = Servers
      /\ \A s \in Servers : (setupPackets[s] \in Seq(ToSet(setupPackets[s])))'
      /\ Initial(setupPackets') = Initial(setupPackets) \union {new}
  <2>1. DOMAIN setupPackets = Servers
          /\ \A s \in Servers : setupPackets[s] \in Seq(ToSet(setupPackets[s]))
    BY DEF CircuitInv, Phases
  <2> QED
    BY <1>2, <1>3, <2>1, InitialAppend
<1>7. /\ c \in (DOMAIN clients)' /\ clients'[c].circuit = circuit /\ ~clients'[c].pushed
      /\ \A l \in LayerIds : clients'[c].circuit[l].cur_server \in Servers
      /\ 0 \in LayerIds /\ circuit[0].cur_server = first
  <2>1. clients'[c].circuit = circuit /\ ~clients'[c].pushed
    BY <1>5
  <2>2. 0 \in LayerIds
    BY CircuitAssumption DEF LayerIds
  <2>3. \A l \in LayerIds : circuit[l].cur_server \in Servers
    BY CircuitServers
  <2>4. circuit[0].cur_server = first
    BY <2>2 DEF CircuitOf, ConnectionOf
  <2> QED
    BY <1>5, <2>1, <2>2, <2>3, <2>4
<1>8. ClientsAsBuilt'
  <2> DEFINE AsBuilt(x, d) ==
        \E f \in Servers :
          x \in [first : {f}, pushed : BOOLEAN, circuit : {CircuitOf(d, f)},
                packet : {DataPacket(CircuitOf(d, f), <<"data", d>>)}]
  <2>1. AsBuilt(clients'[c], c)
    <3>1. clients'[c] \in [first : {first}, pushed : BOOLEAN, circuit : {circuit},
                            packet : {DataPacket(circuit, <<"data", c>>)}]
      BY <1>5
    <3> QED
      BY <3>1
  <2>2. ASSUME NEW d \in (DOMAIN clients)' PROVE AsBuilt(clients'[d], d)
    <3>1. CASE d = c
      BY <2>1, <3>1
    <3>2. CASE d # c
      BY <1>5, <2>2, <3>2 DEF CircuitInv, ClientsAsBuilt
    <3> QED
      BY <3>1, <3>2
  <2> QED
    BY <1>3, <1>5, <2>2 DEF CircuitInv, ClientsAsBuilt
<1>9. Phases'
  BY <1>3, <1>6 DEF CircuitInv, Phases
<1>10. ConnectionsAsBuilt'
  <2>1. \A s \in Servers : DOMAIN conns'[s] = {}
    BY <1>3 DEF CircuitInv, Phases
  <2> QED
    BY <1>3, <2>1 DEF CircuitInv, ConnectionsAsBuilt
<1>11. \A d \in (DOMAIN clients)' : \A l \in LayerIds : ~Connected(d, l)'
  <2> SUFFICES ASSUME NEW d \in (DOMAIN clients)', NEW l \in LayerIds
               PROVE  ~Connected(d, l)'
    OBVIOUS
  <2>1. clients'[d].circuit[l].cur_server \in Servers
    <3>1. CASE d = c
      BY <1>7, <3>1
    <3>2. CASE d # c
      BY <1>5, <3>2, Route DEF CircuitInv
    <3> QED
      BY <3>1, <3>2
  <2> QED
    BY <1>3, <2>1 DEF CircuitInv, Phases, Connected
<1>12. SetupOf(new, c)' /\ SetupOwner(new) = c
  <2>1. new.server = first /\ new.layer = 0 /\ new.data = made
    BY <1>2
  <2>2. IsSeqOfLen(made, Layers) /\ Layers - 0 = Layers
    BY <1>1, BoxesAreSeq, CircuitAssumption DEF SetupPacket
  <2>3. \A k \in 1..Layers : /\ \A s \in Servers : Opens(made[k], network'.servers[s])
                             /\ made[k].body.conn = ConnectionOf(c, 0 + k - 1)
                             /\ made[k].body.ticket = Bytes("g1", form', TicketOf(c, 0 + k - 1))
    <3> SUFFICES ASSUME NEW k \in 1..Layers
                 PROVE  /\ \A s \in Servers : Opens(made[k], network'.servers[s])
                        /\ made[k].body.conn = ConnectionOf(c, 0 + k - 1)
                        /\ made[k].body.ticket = Bytes("g1", form', TicketOf(c, 0 + k - 1))
      OBVIOUS
    <3>1. 0 + k - 1 = k - 1 /\ k - 1 \in LayerIds
      BY CircuitAssumption DEF LayerIds
    <3>2. SealedTo(c, first, k - 1) \in Servers
      BY <3>1, NextIsServer DEF SealedTo
    <3>3. \A s \in Servers : network.servers[s] = "pair" /\ network'.servers[s] = "pair"
      BY <1>3 DEF CircuitInv, ClientsAsBuilt, KeyPairs, Servers
    <3>4. made[k] = [box |-> "pair", body |-> SetupLayer(c, k - 1, strings)]
      BY <1>1, <3>2, <3>3 DEF SetupPacket, SealToVecbox
    <3>5. /\ made[k].box = "pair"
          /\ made[k].body.conn = ConnectionOf(c, k - 1)
          /\ made[k].body.ticket = Bytes("g1", form, TicketOf(c, k - 1))
      <4>1. made[k].box = "pair" /\ made[k].body = SetupLayer(c, k - 1, strings)
        BY <3>4
      <4> QED
        BY <4>1 DEF SetupLayer
    <3>6. form' = form
      BY <1>3 DEF form
    <3> QED
      BY <3>1, <3>3, <3>5, <3>6 DEF Opens
  <2>4. SetupOf(new, c)'
    <3>1. AtLayer(new, c)'
      BY <1>7, <2>1 DEF AtLayer
    <3> QED
      BY <2>1, <2>2, <2>3, <3>1 DEF SetupOf
  <2>5. made[1].body.conn = ConnectionOf(c, 0)
    BY <2>3, CircuitAssumption
  <2> QED
    BY <2>1, <2>4, <2>5 DEF SetupOwner, ConnectionOf
<1>13. SetupProgress'
  <2>1. SetupOnWay' = SetupOnWay \union {new}
    BY <1>3, <1>6 DEF SetupOnWay
  <2>2. \A w \in SetupOnWay : SetupOwner(w) \in DOMAIN clients /\ SetupOf(w, SetupOwner(w))
                              /\ \A l \in LayerIds : ~ l < w.layer
    BY <1>3, NobodyConnected DEF CircuitInv, SetupProgress, SetupOf, AtLayer
  <2>3. \A w \in SetupOnWay : SetupOf(w, SetupOwner(w))'
    BY <1>3, <1>5, <2>2, SamePackets
  <2>4. \A l \in LayerIds : ~ l < new.layer
    BY <1>2, CircuitAssumption DEF LayerIds
  <2>5. refused' = {} /\ panicked' = {}
    BY <1>3 DEF CircuitInv, Phases
  <2>6. \A w \in SetupOnWay' :
          /\ SetupOf(w, SetupOwner(w))' /\ ~Refused(SetupOwner(w))'
          /\ \A l \in LayerIds : Connected(SetupOwner(w), l)' <=> l < w.layer
    <3> SUFFICES ASSUME NEW w \in SetupOnWay'
                 PROVE  /\ SetupOf(w, SetupOwner(w))' /\ ~Refused(SetupOwner(w))'
                        /\ \A l \in LayerIds : Connected(SetupOwner(w), l)' <=> l < w.layer
      OBVIOUS
    <3>1. SetupOwner(w) \in (DOMAIN clients)' /\ SetupOf(w, SetupOwner(w))'
            /\ \A l \in LayerIds : ~ l < w.layer
      <4>1. CASE w = new
        BY <1>7, <1>12, <2>4, <4>1
      <4>2. CASE w \in SetupOnWay
        BY <1>5, <2>2, <2>3, <4>2
      <4> QED
        BY <2>1, <4>1, <4>2
    <3> QED
      BY <1>11, <2>5, <3>1 DEF Refused
  <2>7. \A v, w \in SetupOnWay' : SetupOwner(v) = SetupOwner(w) => v = w
    BY <1>3, <1>12, <2>1, <2>2 DEF CircuitInv, SetupProgress
  <2>8. \A d \in (DOMAIN clients)' : \E w \in SetupOnWay' : SetupOwner(w) = d
    <3>0. refused = {}
      BY <1>3 DEF CircuitInv, Phases
    <3>1. \A d \in DOMAIN clients : ~Complete(d) /\ ~Refused(d)
      BY <1>3, <1>7, <3>0, NobodyConnected DEF Complete, Refused
    <3>2. panicked = {}
      BY <1>3 DEF CircuitInv, Phases
    <3> QED
      BY <1>5, <1>12, <2>1, <3>1, <3>2 DEF CircuitInv, SetupProgress
  <2> QED
    BY <2>5, <2>6, <2>7, <2>8 DEF SetupProgress
<1>14. DataProgress'
  <2>1. DataOnWay' = DataOnWay /\ output' = {}
    BY <1>3 DEF DataOnWay, CircuitInv, Phases
  <2>2. \A w : \A d \in DOMAIN clients : DataOf(w, d) => DataOf(w, d)'
    BY <1>3, <1>5, SamePackets
  <2>3. \A w \in DataOnWay' : \E d \in (DOMAIN clients)' :
          DataOf(w, d)' /\ \A l \in LayerIds : l < w.layer => Connected(d, l)'
    <3> SUFFICES ASSUME NEW w \in DataOnWay
                 PROVE  \E d \in (DOMAIN clients)' :
                          DataOf(w, d)' /\ \A l \in LayerIds : l < w.layer => Connected(d, l)'
      BY <2>1
    <3>1. PICK d \in DOMAIN clients :
            DataOf(w, d) /\ \A l \in LayerIds : l < w.layer => Connected(d, l)
      BY DEF CircuitInv, DataProgress
    <3> QED
      BY <1>3, <1>5, <2>2, <3>1, NobodyConnected
  <2>4. \A d \in (DOMAIN clients)' : clients'[d].pushed => \E w \in DataOnWay' : DataOf(w, d)'
    <3>1. output = {}
      BY <1>3 DEF CircuitInv, Phases
    <3> QED
      BY <1>3, <1>5, <2>1, <2>2, <3>1 DEF CircuitInv, DataProgress
  <2> QED
    BY <1>3, <2>1, <2>3, <2>4 DEF DataProgress
<1> QED
  BY <1>8, <1>9, <1>10, <1>13, <1>14 DEF CircuitInv

--------------------------------------------------------------------------------
(* What a step leaves alone as long as the circuits stay. *)

LEMMA CircuitsKept ==
  ASSUME UNCHANGED <<network, clients>>, NEW c
  PROVE  /\ \A w : (SetupOf(w, c)' <=> SetupOf(w, c)) /\ (DataOf(w, c)' <=> DataOf(w, c))
         /\ OutputOf(c)' = OutputOf(c)
         /\ UNCHANGED refused => (Refused(c)' <=> Refused(c))
         /\ UNCHANGED conns => /\ \A l : Connected(c, l)' <=> Connected(c, l)
                               /\ Complete(c)' <=> Complete(c)
BY DEF SetupOf, DataOf, AtLayer, form, OutputOf, Refused, Connected, Complete

LEMMA PushStep ==
  ASSUME CircuitInv, NEW c \in Clients, PushDataPacket(c)
  PROVE  CircuitInv'
<1>1. /\ phase = "setup_info" /\ phase' = phase /\ c \in DOMAIN clients
      /\ UNCHANGED <<network, setupPackets, waiting, conns, refused, output, panicked>>
      /\ clients' = [clients EXCEPT ![c].pushed = TRUE]
      /\ dataPackets' = [dataPackets EXCEPT ![clients[c].first] =
                           Append(@, clients[c].packet)]
  BY DEF PushDataPacket
<1>2. PICK first \in Servers :
        /\ clients[c].first = first /\ clients[c].circuit = CircuitOf(c, first)
        /\ clients[c].packet = DataPacket(CircuitOf(c, first), <<"data", c>>)
  BY <1>1, Built DEF CircuitInv
<1>3. PICK packet, new : /\ packet = DataPacket(CircuitOf(c, first), <<"data", c>>)
                         /\ new = [server |-> first, layer |-> 0, data |-> packet]
  OBVIOUS
<1>4. /\ (DOMAIN dataPackets)' = Servers
      /\ \A s \in Servers : (dataPackets[s] \in Seq(ToSet(dataPackets[s])))'
      /\ Initial(dataPackets') = Initial(dataPackets) \union {new}
  <2>1. DOMAIN dataPackets = Servers
          /\ \A s \in Servers : dataPackets[s] \in Seq(ToSet(dataPackets[s]))
    BY DEF CircuitInv, Phases
  <2>2. dataPackets' = [dataPackets EXCEPT ![first] = Append(@, packet)]
    BY <1>1, <1>2, <1>3
  <2>3. Initial(dataPackets') = Initial(dataPackets) \union {new}
    BY <1>3, <2>1, <2>2, InitialAppend, ZenonT(60)
  <2>4. /\ (DOMAIN dataPackets)' = Servers
        /\ \A s \in Servers : dataPackets'[s] \in Seq(ToSet(dataPackets'[s]))
    BY <2>1, <2>2, InitialAppend
  <2> QED
    BY <2>3, <2>4
<1>5. \A d \in DOMAIN clients :
        \E f \in Servers :
          clients[d] \in [first : {f}, pushed : BOOLEAN, circuit : {CircuitOf(d, f)},
                          packet : {DataPacket(CircuitOf(d, f), <<"data", d>>)}]
  BY DEF CircuitInv, ClientsAsBuilt
<1>6. /\ (DOMAIN clients)' = DOMAIN clients
      /\ \A d \in DOMAIN clients : /\ clients'[d].circuit = clients[d].circuit
                                   /\ d # c => clients'[d] = clients[d]
                                   /\ clients[d].pushed => clients'[d].pushed
  BY <1>1, <1>5
<1>7. ClientsAsBuilt'
  <2>1. ASSUME NEW d \in DOMAIN clients
        PROVE  \E f \in Servers :
                 clients'[d] \in
                   [first : {f}, pushed : BOOLEAN, circuit : {CircuitOf(d, f)},
                    packet : {DataPacket(CircuitOf(d, f), <<"data", d>>)}]
    BY <1>1, <1>5
  <2> QED
    BY <1>1, <1>6, <2>1 DEF CircuitInv, ClientsAsBuilt
<1>8. Phases'
  BY <1>1, <1>4 DEF CircuitInv, Phases
<1>9. \A d \in DOMAIN clients :
        /\ \A w : (SetupOf(w, d) => SetupOf(w, d)') /\ (DataOf(w, d) => DataOf(w, d)')
        /\ \A l : Connected(d, l)' <=> Connected(d, l)
        /\ Complete(d)' <=> Complete(d)
        /\ Refused(d)' <=> Refused(d)
        /\ OutputOf(d)' = OutputOf(d)
  BY <1>1, <1>6 DEF SetupOf, DataOf, AtLayer, form, Connected, Complete, Refused, OutputOf
<1>10. ConnectionsAsBuilt'
  BY <1>1, <1>6 DEF CircuitInv, ConnectionsAsBuilt
<1>11. SetupProgress'
  <2>1. SetupOnWay' = SetupOnWay
    BY <1>1 DEF SetupOnWay
  <2>2. \A w \in SetupOnWay : SetupOwner(w) \in DOMAIN clients
    BY DEF CircuitInv, SetupProgress, SetupOf, AtLayer
  <2> QED
    BY <1>1, <1>6, <1>9, <2>1, <2>2 DEF CircuitInv, SetupProgress
<1>12. DataOf(new, c)' /\ \A l \in LayerIds : ~ l < new.layer
  <2>1. /\ new.server = first /\ new.layer = 0 /\ new.data = packet
        /\ packet = [boxes |-> packet.boxes, data |-> <<"data", c>>]
        /\ packet.boxes = [k \in 1..Layers |->
             [conn_id |-> CircuitOf(c, first)[k - 1].conn_id,
              box     |-> CircuitOf(c, first)[k - 1].key]]
    BY <1>3 DEF DataPacket
  <2>2. IsSeqOfLen(packet.boxes, Layers)
    BY <2>1, BoxesAreSeq, CircuitAssumption
  <2>3. \A k \in 1..Layers :
          packet.boxes[k] = [conn_id |-> <<c, 0 + k - 1>>, box |-> <<"key", c, 0 + k - 1>>]
    <3> SUFFICES ASSUME NEW k \in 1..Layers
                 PROVE  packet.boxes[k] = [conn_id |-> <<c, 0 + k - 1>>,
                                           box     |-> <<"key", c, 0 + k - 1>>]
      OBVIOUS
    <3>1. 0 + k - 1 = k - 1 /\ k - 1 \in LayerIds
      BY CircuitAssumption DEF LayerIds
    <3>2. /\ CircuitOf(c, first)[k - 1].conn_id = <<c, k - 1>>
          /\ CircuitOf(c, first)[k - 1].key = <<"key", c, k - 1>>
      BY <3>1 DEF CircuitOf, ConnectionOf
    <3> QED
      BY <2>1, <3>1, <3>2
  <2>4. 0 \in LayerIds /\ Layers - 0 = Layers /\ \A l \in LayerIds : ~ l < 0
    BY CircuitAssumption DEF LayerIds
  <2>5. clients'[c].circuit[0].cur_server = first
    <3>1. CircuitOf(c, first)[0].cur_server = first
      BY <2>4 DEF CircuitOf, ConnectionOf
    <3> QED
      BY <1>1, <1>2, <1>6, <3>1
  <2>6. AtLayer(new, c)'
    BY <1>1, <1>6, <2>1, <2>4, <2>5 DEF AtLayer
  <2> QED
    BY <2>1, <2>2, <2>3, <2>4, <2>6 DEF DataOf
<1>13. DataProgress'
  <2>1. DataOnWay' = DataOnWay \union {new}
    BY <1>1, <1>4 DEF DataOnWay
  <2>2. \A w \in DataOnWay' : \E d \in DOMAIN clients :
          DataOf(w, d)' /\ \A l \in LayerIds : l < w.layer => Connected(d, l)'
    <3> SUFFICES ASSUME NEW w \in DataOnWay'
                 PROVE  \E d \in DOMAIN clients :
                          DataOf(w, d)' /\ \A l \in LayerIds : l < w.layer => Connected(d, l)'
      OBVIOUS
    <3>1. CASE w = new
      BY <1>1, <1>12, <3>1
    <3>2. CASE w \in DataOnWay
      BY <1>9, <3>2 DEF CircuitInv, DataProgress
    <3> QED
      BY <2>1, <3>1, <3>2
  <2>3. \A d \in DOMAIN clients : clients'[d].pushed =>
          OutputOf(d) \in output \/ \E w \in DataOnWay' : DataOf(w, d)'
    <3> SUFFICES ASSUME NEW d \in DOMAIN clients, clients'[d].pushed
                 PROVE  OutputOf(d) \in output \/ \E w \in DataOnWay' : DataOf(w, d)'
      OBVIOUS
    <3>1. CASE d = c
      BY <1>12, <2>1, <3>1
    <3>2. CASE d # c
      BY <1>1, <1>6, <1>9, <2>1, <3>2 DEF CircuitInv, DataProgress
    <3> QED
      BY <3>1, <3>2
  <2>4. output = {}
    BY <1>1 DEF CircuitInv, Phases
  <2> QED
    BY <1>1, <1>6, <1>9, <2>2, <2>3, <2>4 DEF DataProgress
<1> QED
  BY <1>7, <1>8, <1>10, <1>11, <1>13 DEF CircuitInv

LEMMA StartSetupStep == CircuitInv /\ StartSetup => CircuitInv'
<1> SUFFICES ASSUME CircuitInv, StartSetup PROVE CircuitInv'
  OBVIOUS
<1>1. /\ phase = "setup_info" /\ phase' = "setup" /\ waiting' = Initial(setupPackets)
      /\ UNCHANGED <<network, clients, setupPackets, dataPackets, conns, refused,
                     output, panicked>>
      /\ \A c \in Clients : c \in DOMAIN clients /\ clients[c].pushed
  BY DEF StartSetup
<1>2. SetupOnWay' = SetupOnWay /\ DataOnWay' = DataOnWay
  BY <1>1 DEF SetupOnWay, DataOnWay
<1>3. ClientsAsBuilt' /\ ConnectionsAsBuilt'
  BY <1>1 DEF CircuitInv, ClientsAsBuilt, ConnectionsAsBuilt
<1>4. Phases'
  BY <1>1 DEF CircuitInv, Phases
<1>5. SetupProgress' /\ DataProgress'
  BY <1>1, <1>2, CircuitsKept DEF CircuitInv, SetupProgress, DataProgress
<1> QED
  BY <1>3, <1>4, <1>5 DEF CircuitInv

LEMMA StartDataStep == CircuitInv /\ StartData => CircuitInv'
<1> SUFFICES ASSUME CircuitInv, StartData PROVE CircuitInv'
  OBVIOUS
<1>1. /\ phase = "setup" /\ phase' = "data" /\ waiting = {}
      /\ waiting' = Initial(dataPackets)
      /\ UNCHANGED <<network, clients, setupPackets, dataPackets, conns, refused,
                     output, panicked>>
  BY DEF StartData
<1>2. SetupOnWay' = SetupOnWay /\ DataOnWay' = DataOnWay
  BY <1>1 DEF SetupOnWay, DataOnWay
<1>3. ClientsAsBuilt' /\ ConnectionsAsBuilt'
  BY <1>1 DEF CircuitInv, ClientsAsBuilt, ConnectionsAsBuilt
<1>4. Phases'
  BY <1>1 DEF CircuitInv, Phases
<1>5. SetupProgress' /\ DataProgress'
  BY <1>1, <1>2, CircuitsKept DEF CircuitInv, SetupProgress, DataProgress
<1> QED
  BY <1>3, <1>4, <1>5 DEF CircuitInv

LEMMA CircuitStutter == CircuitInv /\ UNCHANGED vars => CircuitInv'
<1> SUFFICES ASSUME CircuitInv, UNCHANGED vars PROVE CircuitInv'
  OBVIOUS
<1>1. SetupOnWay' = SetupOnWay /\ DataOnWay' = DataOnWay
  BY DEF vars, SetupOnWay, DataOnWay
<1>2. ClientsAsBuilt' /\ ConnectionsAsBuilt' /\ Phases'
  BY DEF vars, CircuitInv, ClientsAsBuilt, ConnectionsAsBuilt, Phases
<1>3. SetupProgress' /\ DataProgress'
  BY <1>1, CircuitsKept DEF vars, CircuitInv, SetupProgress, DataProgress
<1> QED
  BY <1>2, <1>3 DEF CircuitInv

--------------------------------------------------------------------------------
(* A layer of a setup packet is opened. *)

LEMMA DecryptSetupStep ==
  ASSUME CircuitInv, NEW w \in waiting, DecryptSetup(w)
  PROVE  CircuitInv'
<1>1. PICK c, r, id : /\ c = SetupOwner(w) /\ r = DecryptSetupLayer(w)
                      /\ id = w.data[1].body.conn.conn_id
  OBVIOUS
<1>2. /\ phase = "setup" /\ phase' = "setup"
      /\ UNCHANGED <<network, clients, setupPackets, dataPackets, output>>
  BY DEF DecryptSetup
<1>3. PICK onward :
        /\ onward = IF r.st = "ok" /\ w.layer < GetLastLayerIdx
                    THEN {[server |-> r.val.next, layer |-> w.layer + 1,
                           data |-> Tail(w.data)]}
                    ELSE {}
        /\ waiting' = (waiting \ {w}) \union onward
        /\ conns' = IF r.st = "ok"
                    THEN [conns EXCEPT ![w.server] = Inserted(@, id, r.val.pkt.conn)]
                    ELSE conns
        /\ refused' = IF r.st = "err" THEN refused \union {id} ELSE refused
        /\ panicked' = IF r.st = "panic" THEN panicked \union {id} ELSE panicked
  BY <1>1 DEF DecryptSetup
<1>4. /\ SetupOnWay = waiting /\ SetupOnWay' = waiting'
      /\ DataOnWay' = DataOnWay
  BY <1>2 DEF SetupOnWay, DataOnWay
<1>5. /\ SetupOf(w, c) /\ ~Refused(c)
      /\ \A l \in LayerIds : Connected(c, l) <=> l < w.layer
      /\ \A v \in waiting : SetupOwner(v) = c => v = w
      /\ c \in DOMAIN clients /\ w.layer \in LayerIds
      /\ w.server = clients[c].circuit[w.layer].cur_server
      /\ w.server \in Servers
  <2>1. /\ SetupOf(w, c) /\ ~Refused(c)
        /\ \A l \in LayerIds : Connected(c, l) <=> l < w.layer
        /\ \A v \in waiting : SetupOwner(v) = c => v = w
    BY <1>1, <1>4 DEF CircuitInv, SetupProgress
  <2>2. /\ c \in DOMAIN clients /\ w.layer \in LayerIds
        /\ w.server = clients[c].circuit[w.layer].cur_server
    BY <2>1 DEF SetupOf, AtLayer
  <2> QED
    BY <2>1, <2>2, Route DEF CircuitInv
<1>6. /\ id = <<c, w.layer>> /\ r.st \in {"ok", "err", "panic"}
      /\ r.st = "ok" => /\ r.val.pkt.conn = ConnectionOf(c, w.layer)
                        /\ r.val.next = ConnectionOf(c, w.layer).dest_server
  BY <1>1, <1>5, SetupOpens DEF CircuitInv
<1>7. /\ DOMAIN conns' = Servers
      /\ \A s \in Servers : \A i :
           i \in DOMAIN conns'[s] <=>
             i \in DOMAIN conns[s] \/ (r.st = "ok" /\ s = w.server /\ i = id)
      /\ \A s \in Servers : \A i \in DOMAIN conns'[s] :
           IF r.st = "ok" /\ s = w.server /\ i = id
           THEN conns'[s][i] = ConnectionOf(c, w.layer)
           ELSE conns'[s][i] = conns[s][i]
  <2>1. DOMAIN conns = Servers
    BY DEF CircuitInv, ConnectionsAsBuilt
  <2>2. CASE r.st = "ok"
    <3>1. /\ conns'[w.server] = Inserted(conns[w.server], id, ConnectionOf(c, w.layer))
          /\ DOMAIN conns' = Servers
          /\ \A s \in Servers \ {w.server} : conns'[s] = conns[s]
      BY <1>3, <1>5, <1>6, <2>1, <2>2
    <3>2. /\ DOMAIN conns'[w.server] = DOMAIN conns[w.server] \union {id}
          /\ \A i \in DOMAIN conns'[w.server] :
               conns'[w.server][i] = IF i = id THEN ConnectionOf(c, w.layer)
                                     ELSE conns[w.server][i]
      BY <3>1 DEF Inserted
    <3> QED
      BY <2>2, <3>1, <3>2
  <2>3. CASE r.st # "ok"
    BY <1>3, <2>1, <2>3
  <2> QED
    BY <2>2, <2>3
<1>8. \A d \in DOMAIN clients : \A l \in LayerIds :
        Connected(d, l)' <=> Connected(d, l) \/ (r.st = "ok" /\ d = c /\ l = w.layer)
  <2> SUFFICES ASSUME NEW d \in DOMAIN clients, NEW l \in LayerIds
               PROVE  Connected(d, l)' <=>
                        Connected(d, l) \/ (r.st = "ok" /\ d = c /\ l = w.layer)
    OBVIOUS
  <2>1. clients[d].circuit[l].cur_server \in Servers
    BY Route DEF CircuitInv
  <2>2. <<d, l>> = id <=> d = c /\ l = w.layer
    BY <1>6
  <2> QED
    BY <1>2, <1>5, <1>7, <2>1, <2>2 DEF Connected
<1>9. ClientsAsBuilt' /\ Phases'
  BY <1>2 DEF CircuitInv, ClientsAsBuilt, Phases
<1>10. ConnectionsAsBuilt'
  <2>1. \A s \in Servers : \A i \in DOMAIN conns'[s] :
          \E d \in DOMAIN clients, l \in LayerIds :
            /\ i = <<d, l>> /\ conns'[s][i] = ConnectionOf(d, l)
            /\ clients[d].circuit[l].cur_server = s
    <3> SUFFICES ASSUME NEW s \in Servers, NEW i \in DOMAIN conns'[s]
                 PROVE  \E d \in DOMAIN clients, l \in LayerIds :
                          /\ i = <<d, l>> /\ conns'[s][i] = ConnectionOf(d, l)
                          /\ clients[d].circuit[l].cur_server = s
      OBVIOUS
    <3>1. CASE r.st = "ok" /\ s = w.server /\ i = id
      BY <1>5, <1>6, <1>7, <3>1
    <3>2. CASE ~(r.st = "ok" /\ s = w.server /\ i = id)
      BY <1>7, <3>2 DEF CircuitInv, ConnectionsAsBuilt
    <3> QED
      BY <3>1, <3>2
  <2> QED
    BY <1>2, <1>7, <2>1 DEF ConnectionsAsBuilt
<1>11. \A d : Refused(d)' <=> Refused(d) \/ (r.st = "err" /\ d = c)
  <2>1. id[1] = c
    BY <1>6
  <2> QED
    BY <1>3, <2>1 DEF Refused
(* What goes on is the packet of the next layer. *)
<1>12. \A v \in onward : /\ r.st = "ok" /\ SetupOf(v, c) /\ SetupOwner(v) = c
                         /\ v.layer = w.layer + 1
  <2> SUFFICES ASSUME NEW v \in onward
               PROVE  /\ r.st = "ok" /\ SetupOf(v, c) /\ SetupOwner(v) = c
                      /\ v.layer = w.layer + 1
    OBVIOUS
  <2>1. r.st = "ok" /\ w.layer < Layers - 1
    BY <1>3 DEF GetLastLayerIdx
  <2>2. /\ v.server = ConnectionOf(c, w.layer).dest_server
        /\ v.layer = w.layer + 1 /\ v.data = Tail(w.data)
    <3>1. w.layer < GetLastLayerIdx
      BY <2>1 DEF GetLastLayerIdx
    <3>2. v = [server |-> r.val.next, layer |-> w.layer + 1, data |-> Tail(w.data)]
      BY <1>3, <2>1, <3>1
    <3> QED
      BY <1>6, <2>1, <3>2
  <2>3. /\ w.layer + 1 \in LayerIds /\ w.layer + 1 - 1 = w.layer /\ w.layer + 1 > 0
        /\ Layers - w.layer \in Nat /\ Layers - w.layer >= 1
        /\ Layers - w.layer - 1 = Layers - (w.layer + 1)
    BY <1>5, <2>1, CircuitAssumption DEF LayerIds
  <2>4. AtLayer(v, c)
    <3>1. clients[c].circuit[w.layer + 1].cur_server = ConnectionOf(c, w.layer).dest_server
      <4>1. PICK l \in LayerIds : l = w.layer + 1 /\ l > 0 /\ l - 1 = w.layer
        BY <1>5, <2>3, CircuitAssumption DEF LayerIds
      <4>2. clients[c].circuit[l].cur_server = ConnectionOf(c, l - 1).dest_server
        BY <1>5, <4>1, Route DEF CircuitInv
      <4> QED
        BY <4>1, <4>2
    <3> QED
      BY <1>5, <2>2, <2>3, <3>1 DEF AtLayer
  <2>5. /\ IsSeqOfLen(v.data, Layers - v.layer)
        /\ \A k \in 1..(Layers - v.layer) : v.data[k] = w.data[k + 1]
    <3>1. PICK n \in Nat : n = Layers - w.layer /\ n >= 1 /\ n - 1 = Layers - v.layer
      BY <2>2, <2>3
    <3>2. IsSeqOfLen(w.data, n)
      BY <1>5, <3>1 DEF SetupOf
    <3>3. IsSeqOfLen(Tail(w.data), n - 1) /\ \A k \in 1..(n - 1) : Tail(w.data)[k] = w.data[k + 1]
      BY <3>1, <3>2, TailOfBoxes
    <3> QED
      BY <2>2, <3>1, <3>3
  <2>6. \A k \in 1..(Layers - v.layer) :
          /\ k + 1 \in 1..(Layers - w.layer)
          /\ w.layer + (k + 1) - 1 = v.layer + k - 1
    <3>1. Layers \in Int /\ w.layer \in Int /\ v.layer = w.layer + 1
      BY <1>5, <2>2, CircuitAssumption DEF LayerIds
    <3> QED
      BY <3>1
  <2>7. \A k \in 1..(Layers - v.layer) :
          /\ \A s \in Servers : Opens(v.data[k], network.servers[s])
          /\ v.data[k].body.conn = ConnectionOf(c, v.layer + k - 1)
          /\ v.data[k].body.ticket = Bytes("g1", form, TicketOf(c, v.layer + k - 1))
    <3>1. \A k \in 1..(Layers - w.layer) :
            /\ \A s \in Servers : Opens(w.data[k], network.servers[s])
            /\ w.data[k].body.conn = ConnectionOf(c, w.layer + k - 1)
            /\ w.data[k].body.ticket = Bytes("g1", form, TicketOf(c, w.layer + k - 1))
      BY <1>5 DEF SetupOf
    <3> QED
      BY <2>5, <2>6, <3>1
  <2>8. SetupOf(v, c)
    BY <2>4, <2>5, <2>7 DEF SetupOf
  <2>9. SetupOwner(v) = c
    BY <2>8, SetupOpens DEF CircuitInv, AtLayer, SetupOf
  <2> QED
    BY <2>1, <2>2, <2>8, <2>9
<1>13. \A v \in waiting \ {w} : SetupOwner(v) # c /\ SetupOwner(v) \in DOMAIN clients
  BY <1>4, <1>5 DEF CircuitInv, SetupProgress, SetupOf, AtLayer
<1>14. SetupProgress'
  <2>1. \A v \in waiting' :
          LET d == SetupOwner(v)
          IN  /\ SetupOf(v, d)' /\ ~Refused(d)'
              /\ \A l \in LayerIds : Connected(d, l)' <=> l < v.layer
    <3> SUFFICES ASSUME NEW v \in waiting'
                 PROVE  /\ SetupOf(v, SetupOwner(v)) /\ ~Refused(SetupOwner(v))'
                        /\ \A l \in LayerIds : Connected(SetupOwner(v), l)' <=> l < v.layer
      BY <1>2, CircuitsKept
    <3>1. CASE v \in onward
      <4>1. SetupOwner(v) = c /\ SetupOf(v, c) /\ v.layer = w.layer + 1 /\ r.st = "ok"
        BY <1>12, <3>1
      <4>2. \A l \in LayerIds : Connected(c, l)' <=> l < w.layer \/ l = w.layer
        BY <1>5, <1>8, <4>1
      <4>3. \A l \in LayerIds : (l < w.layer \/ l = w.layer) <=> l < v.layer
        BY <1>5, <4>1, CircuitAssumption DEF LayerIds
      <4> QED
        BY <1>5, <1>11, <4>1, <4>2, <4>3
    <3>2. CASE v \in waiting \ {w}
      BY <1>4, <1>8, <1>11, <1>13, <3>2 DEF CircuitInv, SetupProgress
    <3> QED
      BY <1>3, <3>1, <3>2
  <2>2. \A u, v \in waiting' : SetupOwner(u) = SetupOwner(v) => u = v
    <3>1. \A u, v \in onward : u = v
      BY <1>3
    <3>2. \A u \in onward : SetupOwner(u) = c
      BY <1>12
    <3> QED
      BY <1>3, <1>4, <1>13, <3>1, <3>2 DEF CircuitInv, SetupProgress
  <2>3. \A i \in refused' : \E d \in DOMAIN clients, l \in LayerIds :
          i = <<d, l>> /\ ~Connected(d, l)'
    <3> SUFFICES ASSUME NEW i \in refused'
                 PROVE  \E d \in DOMAIN clients, l \in LayerIds :
                          i = <<d, l>> /\ ~Connected(d, l)'
      OBVIOUS
    <3>1. CASE i \in refused
      <4>1. PICK d \in DOMAIN clients, l \in LayerIds : i = <<d, l>> /\ ~Connected(d, l)
        BY <3>1 DEF CircuitInv, SetupProgress
      <4>2. d # c
        BY <1>5, <3>1, <4>1 DEF Refused
      <4> QED
        BY <1>8, <4>1, <4>2
    <3>2. CASE i = id /\ r.st = "err"
      <4>1. ~Connected(c, w.layer)
        BY <1>5, CircuitAssumption DEF LayerIds
      <4> QED
        BY <1>5, <1>6, <1>8, <3>2, <4>1
    <3> QED
      BY <1>3, <3>1, <3>2
  <2>4. ASSUME panicked' = {}, NEW d \in DOMAIN clients
        PROVE  Refused(d)' \/ Complete(d)' \/ \E v \in waiting' : SetupOwner(v) = d
    <3>1. panicked = {} /\ r.st \in {"ok", "err"}
      BY <1>3, <1>6, <2>4
    <3>2. CASE d # c
      <4>1. Refused(d) \/ Complete(d) \/ \E v \in waiting : SetupOwner(v) = d
        BY <1>4, <3>1 DEF CircuitInv, SetupProgress
      <4>2. Complete(d) => Complete(d)'
        BY <1>8, <3>2 DEF Complete
      <4> QED
        BY <1>1, <1>3, <1>11, <3>2, <4>1, <4>2
    <3>3. CASE d = c /\ r.st = "err"
      BY <1>11, <3>3
    <3>4. CASE d = c /\ r.st = "ok" /\ w.layer < GetLastLayerIdx
      <4>1. \E v : v \in onward
        BY <1>3, <3>4
      <4> QED
        BY <1>3, <1>12, <3>4, <4>1
    <3>5. CASE d = c /\ r.st = "ok" /\ ~(w.layer < GetLastLayerIdx)
      <4>1. \A l \in LayerIds : l < w.layer \/ l = w.layer
        BY <1>5, <3>5, CircuitAssumption DEF LayerIds, GetLastLayerIdx
      <4>2. \A l \in LayerIds : Connected(c, l)'
        BY <1>5, <1>8, <3>5, <4>1
      <4> QED
        BY <3>5, <4>2 DEF Complete
    <3> QED
      BY <3>1, <3>2, <3>3, <3>4, <3>5
  <2> QED
    BY <1>2, <1>4, <2>1, <2>2, <2>3, <2>4 DEF SetupProgress
<1>15. DataProgress'
  <2>1. \A v \in DataOnWay : \E d \in DOMAIN clients :
          DataOf(v, d) /\ \A l \in LayerIds : l < v.layer => Connected(d, l)'
    BY <1>8 DEF CircuitInv, DataProgress
  <2>2. \A d \in DOMAIN clients : clients[d].pushed =>
          OutputOf(d) \in output \/ \E v \in DataOnWay : DataOf(v, d)
    BY <1>2 DEF CircuitInv, DataProgress
  <2>3. output = {} /\ output' = {}
    BY <1>2 DEF CircuitInv, Phases
  <2> QED
    BY <1>2, <1>4, <2>1, <2>2, <2>3, CircuitsKept DEF DataProgress
<1> QED
  BY <1>9, <1>10, <1>14, <1>15 DEF CircuitInv

(* A layer of a data packet is opened where its client is connected: the
   connection of its own layer is there, and gives its key and the way on. *)
LEMMA DecryptDataStep ==
  ASSUME CircuitInv, NEW w \in waiting, DecryptData(w)
  PROVE  CircuitInv'
<1>1. PICK r : r = DecryptDataLayer(w)
  OBVIOUS
<1>2. /\ phase = "data" /\ phase' = "data"
      /\ UNCHANGED <<network, clients, setupPackets, dataPackets, conns, refused, panicked>>
  BY DEF DecryptData
<1>3. PICK onward, out :
        /\ onward = IF r.st = "ok" /\ w.layer # GetLastLayerIdx
                    THEN {[server |-> r.val.next, layer |-> w.layer + 1,
                           data |-> r.val.data]}
                    ELSE {}
        /\ out = IF r.st = "ok" /\ w.layer = GetLastLayerIdx
                 THEN {[data |-> r.val.data, at |-> r.val.next]}
                 ELSE {}
        /\ waiting' = (waiting \ {w}) \union onward
        /\ output' = output \union out
  <2>1. /\ waiting' = (waiting \ {w}) \union
                       (IF r.st = "ok" /\ w.layer # GetLastLayerIdx
                        THEN {[server |-> r.val.next, layer |-> w.layer + 1,
                               data |-> r.val.data]}
                        ELSE {})
        /\ output' = IF r.st = "ok" /\ w.layer = GetLastLayerIdx
                     THEN output \union {[data |-> r.val.data, at |-> r.val.next]}
                     ELSE output
    BY <1>1 DEF DecryptData
  <2>2. output' = output \union
                  (IF r.st = "ok" /\ w.layer = GetLastLayerIdx
                   THEN {[data |-> r.val.data, at |-> r.val.next]}
                   ELSE {})
    BY <2>1
  <2> QED
    BY <2>1, <2>2
<1>4. /\ SetupOnWay = {} /\ SetupOnWay' = {}
      /\ DataOnWay = waiting /\ DataOnWay' = waiting'
  BY <1>2 DEF SetupOnWay, DataOnWay
<1>5. PICK c \in DOMAIN clients :
        DataOf(w, c) /\ \A l \in LayerIds : l < w.layer => Connected(c, l)
  BY <1>4 DEF CircuitInv, DataProgress
<1>6. /\ w.layer \in LayerIds /\ w.server \in Servers
      /\ w.server = clients[c].circuit[w.layer].cur_server
      /\ Layers \in Int /\ w.layer \in Int /\ w.layer >= 0 /\ w.layer < Layers
  <2>1. /\ w.layer \in LayerIds
        /\ w.server = clients[c].circuit[w.layer].cur_server
    BY <1>5 DEF DataOf, AtLayer
  <2>2. w.server \in Servers
    BY <2>1, Route DEF CircuitInv
  <2>3. Layers \in Int /\ w.layer \in Int /\ w.layer >= 0 /\ w.layer < Layers
    BY <2>1, CircuitAssumption DEF LayerIds
  <2> QED
    BY <2>1, <2>2, <2>3
<1>7. PICK n \in Nat : /\ n = Layers - w.layer /\ n >= 1
                       /\ n - 1 = Layers - (w.layer + 1)
  BY <1>6
<1>8. PICK rest :
        /\ rest = Tail(w.data.boxes) /\ IsSeqOfLen(rest, n - 1)
        /\ \A k \in 1..(n - 1) : rest[k] = w.data.boxes[k + 1]
  <2>1. IsSeqOfLen(w.data.boxes, n)
    BY <1>5, <1>7 DEF DataOf
  <2> QED
    BY <1>7, <2>1, TailOfBoxes
<1>9. /\ w.data.boxes[1] = [conn_id |-> <<c, w.layer>>, box |-> <<"key", c, w.layer>>]
      /\ w.data = [boxes |-> w.data.boxes, data |-> <<"data", c>>]
  <2>1. 1 \in 1..(Layers - w.layer) /\ w.layer + 1 - 1 = w.layer
    BY <1>6
  <2> QED
    BY <1>5, <2>1 DEF DataOf
(* Connected, the layer opens. *)
<1>10. ASSUME Connected(c, w.layer)
       PROVE  /\ r.st = "ok" /\ r.val.next = ConnectionOf(c, w.layer).dest_server
              /\ r.val.data = [boxes |-> rest, data |-> <<"data", c>>]
  <2>1. PICK id : id = <<c, w.layer>>
    OBVIOUS
  <2>2. id \in DOMAIN conns[w.server] /\ conns[w.server][id] = ConnectionOf(c, w.layer)
    <3>1. id \in DOMAIN conns[w.server]
      BY <1>6, <1>10, <2>1 DEF Connected
    <3>2. PICK d \in DOMAIN clients, l \in LayerIds :
            id = <<d, l>> /\ conns[w.server][id] = ConnectionOf(d, l)
      BY <1>6, <3>1 DEF CircuitInv, ConnectionsAsBuilt
    <3>3. d = c /\ l = w.layer
      BY <2>1, <3>2
    <3> QED
      BY <3>1, <3>2, <3>3
  <2>3. /\ ConnectionOf(c, w.layer).key = <<"key", c, w.layer>>
        /\ ConnectionOf(c, w.layer).layer = w.layer
    BY DEF ConnectionOf
  <2>4. w.data.boxes[1].conn_id = id /\ w.data.boxes[1].box = <<"key", c, w.layer>>
    BY <1>9, <2>1
  <2>5. ~ConnectionRefuses(conns[w.server][id], w.server, w.layer)
    BY <2>2, <2>3 DEF ConnectionRefuses
  <2>6. r = Ok([data |-> [w.data EXCEPT !.boxes = rest],
                next |-> conns[w.server][id].dest_server])
    BY <1>1, <1>8, <2>2, <2>3, <2>4, <2>5 DEF DecryptDataLayer
  <2>7. [w.data EXCEPT !.boxes = rest] = [boxes |-> rest, data |-> <<"data", c>>]
    BY <1>9
  <2> QED
    BY <2>2, <2>6, <2>7 DEF Ok
<1>11. ASSUME ~Connected(c, w.layer)
       PROVE  r.st # "ok"
  <2>1. w.data.boxes[1].conn_id \notin DOMAIN conns[w.server]
    BY <1>6, <1>9, <1>11 DEF Connected
  <2> QED
    BY <1>1, <2>1 DEF DecryptDataLayer, Err
<1>12. ClientsAsBuilt' /\ Phases' /\ ConnectionsAsBuilt' /\ SetupProgress'
  <2>1. ClientsAsBuilt' /\ Phases' /\ ConnectionsAsBuilt'
    BY <1>2 DEF CircuitInv, ClientsAsBuilt, Phases, ConnectionsAsBuilt
  <2>2. SetupProgress'
    BY <1>2, <1>4, CircuitsKept DEF CircuitInv, SetupProgress
  <2> QED
    BY <2>1, <2>2
<1>13. \A v \in onward : /\ Connected(c, w.layer) /\ DataOf(v, c)
                         /\ v.layer = w.layer + 1
  <2> SUFFICES ASSUME NEW v \in onward
               PROVE  Connected(c, w.layer) /\ DataOf(v, c) /\ v.layer = w.layer + 1
    OBVIOUS
  <2>1. r.st = "ok" /\ w.layer # Layers - 1
    BY <1>3 DEF GetLastLayerIdx
  <2>2. Connected(c, w.layer)
    BY <1>11, <2>1
  <2>3. v = [server |-> r.val.next, layer |-> w.layer + 1, data |-> r.val.data]
    BY <1>3, <2>1
  <2>4. /\ v.server = ConnectionOf(c, w.layer).dest_server
        /\ v.layer = w.layer + 1 /\ v.data = [boxes |-> rest, data |-> <<"data", c>>]
    BY <1>10, <2>2, <2>3
  <2>5. PICK l \in LayerIds : l = w.layer + 1 /\ l > 0 /\ l - 1 = w.layer
    BY <1>6, <2>1 DEF LayerIds
  <2>6. AtLayer(v, c)
    <3>1. clients[c].circuit[l].cur_server = ConnectionOf(c, l - 1).dest_server
      BY <2>5, Route DEF CircuitInv
    <3> QED
      BY <2>4, <2>5, <3>1 DEF AtLayer
  <2>7. \A k \in 1..(n - 1) : k + 1 \in 1..n /\ w.layer + (k + 1) - 1 = v.layer + k - 1
    BY <1>6, <2>4
  <2>8. \A k \in 1..n : w.data.boxes[k] = [conn_id |-> <<c, w.layer + k - 1>>,
                                           box     |-> <<"key", c, w.layer + k - 1>>]
    BY <1>5, <1>7 DEF DataOf
  <2>9. \A k \in 1..(n - 1) : rest[k] = [conn_id |-> <<c, v.layer + k - 1>>,
                                         box     |-> <<"key", c, v.layer + k - 1>>]
    BY <1>8, <2>7, <2>8
  <2>10. n - 1 = Layers - v.layer /\ v.data.boxes = rest
    BY <1>7, <2>4
  <2> QED
    BY <1>8, <2>2, <2>4, <2>6, <2>9, <2>10 DEF DataOf
<1>14. \A o \in out : o = OutputOf(c) /\ Complete(c)
  <2> SUFFICES ASSUME NEW o \in out PROVE o = OutputOf(c) /\ Complete(c)
    OBVIOUS
  <2>1. r.st = "ok" /\ w.layer = GetLastLayerIdx
    BY <1>3
  <2>2. Connected(c, w.layer)
    BY <1>11, <2>1
  <2>3. n - 1 = 0 /\ \A l \in LayerIds : l < w.layer \/ l = w.layer
    BY <1>6, <1>7, <2>1 DEF GetLastLayerIdx, LayerIds
  <2>4. rest = << >>
    <3>1. rest \in Seq(ToSet(rest)) /\ Len(rest) = 0
      BY <1>8, <2>3 DEF IsSeqOfLen
    <3> QED
      BY <3>1, EmptySeq
  <2>5. o = [data |-> [boxes |-> << >>, data |-> <<"data", c>>],
             at   |-> ConnectionOf(c, w.layer).dest_server]
    BY <1>3, <1>10, <2>1, <2>2, <2>4
  <2>6. clients[c].circuit[w.layer].dest_server = ConnectionOf(c, w.layer).dest_server
    BY <1>6, Route DEF CircuitInv
  <2> QED
    BY <1>5, <2>1, <2>2, <2>3, <2>5, <2>6 DEF OutputOf, Complete
<1>15. DataProgress'
  <2>1. ASSUME NEW v \in waiting'
        PROVE  \E d \in DOMAIN clients :
                 DataOf(v, d) /\ \A l \in LayerIds : l < v.layer => Connected(d, l)
    <3>1. CASE v \in onward
      <4>1. \A l \in LayerIds : l < v.layer => l < w.layer \/ l = w.layer
        BY <1>6, <1>13, <3>1 DEF LayerIds
      <4> QED
        BY <1>5, <1>13, <3>1, <4>1
    <3>2. CASE v \in waiting
      BY <1>4, <3>2 DEF CircuitInv, DataProgress
    <3> QED
      BY <1>3, <2>1, <3>1, <3>2
  <2>2. ASSUME NEW d \in DOMAIN clients, clients[d].pushed, Complete(d)
        PROVE  OutputOf(d) \in output' \/ \E v \in waiting' : DataOf(v, d)
    <3>1. CASE OutputOf(d) \in output
      BY <1>3, <3>1
    <3>2. ASSUME NEW v \in waiting, DataOf(v, d), v # w
          PROVE  \E u \in waiting' : DataOf(u, d)
      BY <1>3, <3>2
    <3>3. CASE DataOf(w, d)
      <4>1. d = c
        <5>1. w.data.data = <<"data", d>> /\ w.data.data = <<"data", c>>
          BY <1>9, <3>3 DEF DataOf
        <5> QED
          BY <5>1
      <4>2. r.st = "ok"
        BY <1>6, <1>10, <2>2, <4>1 DEF Complete
      <4>3. CASE w.layer # GetLastLayerIdx
        <5>1. \E v : v \in onward
          BY <1>3, <4>2, <4>3
        <5> QED
          BY <1>3, <1>13, <4>1, <5>1
      <4>4. CASE w.layer = GetLastLayerIdx
        <5>1. \E o : o \in out
          BY <1>3, <4>2, <4>4
        <5> QED
          BY <1>3, <1>14, <4>1, <5>1
      <4> QED
        BY <4>3, <4>4
    <3>4. OutputOf(d) \in output \/ \E v \in waiting : DataOf(v, d)
      BY <1>4, <2>2 DEF CircuitInv, DataProgress
    <3> QED
      BY <3>1, <3>2, <3>3, <3>4
  <2>3. \A o \in output' : \E d \in DOMAIN clients : o = OutputOf(d) /\ Complete(d)
    BY <1>3, <1>5, <1>14 DEF CircuitInv, DataProgress
  <2>4. UNCHANGED <<network, clients, conns>> /\ phase' = "data"
    BY <1>2
  <2> QED
    BY <1>4, <2>1, <2>2, <2>3, <2>4, CircuitsKept DEF DataProgress
<1> QED
  BY <1>12, <1>15 DEF CircuitInv

--------------------------------------------------------------------------------
(* The invariant holds throughout, whatever the sizes, clients, tickets and    *)
(* modes: every connection is where its client expects it, each client has at  *)
(* most one setup packet on its way, and data goes as far as its client is     *)
(* connected (network.rs, marshal/info.rs setup_info).                         *)
THEOREM CircuitInvariance == Spec => []CircuitInv
<1>1. CircuitInv /\ [Next]_vars => CircuitInv'
  BY GenerateStep, PushStep, StartSetupStep, StartDataStep, DecryptSetupStep,
     DecryptDataStep, CircuitStutter DEF Next
<1> QED
  BY <1>1, CircuitInvInit, PTL DEF Spec

(* The mixes' connections are the client's circuit: what a client believes of  *)
(* servers, keys and onward servers is what the mixes hold, although a setup   *)
(* packet seals cur_server 0 and each mix computes the next server itself      *)
(* (generate_setup_packet_inner, decrypt_setup_layer).                         *)
THEOREM CircuitsAgree == Spec => []CircuitAgrees
<1>1. CircuitInv => CircuitAgrees
  <2> SUFFICES ASSUME CircuitInv, NEW s \in Servers, NEW id \in DOMAIN conns[s]
               PROVE  LET mine == clients[id[1]].circuit[id[2]]
                      IN  mine.cur_server = s /\ mine = [conns[s][id] EXCEPT !.cur_server = s]
    BY DEF CircuitAgrees
  <2>1. PICK c \in DOMAIN clients, l \in LayerIds :
          /\ id = <<c, l>> /\ conns[s][id] = ConnectionOf(c, l)
          /\ clients[c].circuit[l].cur_server = s
    BY DEF CircuitInv, ConnectionsAsBuilt
  <2>2. clients[c].circuit[l] = [ConnectionOf(c, l) EXCEPT !.cur_server = s]
    BY <2>1, Route DEF CircuitInv
  <2> QED
    BY <2>1, <2>2
<1> QED
  BY <1>1, CircuitInvariance, PTL

(* Unless a mix panicked, the data that came out in the end is that of the     *)
(* clients with no refused layer, out of all its boxes and at the server of    *)
(* its last ticket, in whatever order the two locks of setup_info were taken   *)
(* and the packets opened.                                                     *)
LEMMA DataUnlessPanic == Spec => [](NoPanic => DataFollowsSetup)
<1>1. CircuitInv => (NoPanic => DataFollowsSetup)
  <2> SUFFICES ASSUME CircuitInv, panicked = {}, phase = "data", waiting = {}
               PROVE  output = {OutputOf(c) : c \in {d \in Clients :
                                                       \A id \in refused : id[1] # d}}
    BY DEF NoPanic, DataFollowsSetup
  <2>1. SetupOnWay = {} /\ DataOnWay = {}
    BY DEF SetupOnWay, DataOnWay
  <2>2. /\ \A c \in Clients : c \in DOMAIN clients /\ clients[c].pushed
        /\ DOMAIN clients \subseteq Clients
    BY DEF CircuitInv, Phases, ClientsAsBuilt
  <2>3. \A c \in Clients : Complete(c) <=> \A id \in refused : id[1] # c
    <3> SUFFICES ASSUME NEW c \in Clients
                 PROVE  Complete(c) <=> ~Refused(c)
      BY DEF Refused
    <3>1. Refused(c) \/ Complete(c)
      BY <2>1, <2>2 DEF CircuitInv, SetupProgress
    <3>2. ASSUME Refused(c) PROVE ~Complete(c)
      <4>1. PICK id \in refused : id[1] = c
        BY <3>2 DEF Refused
      <4>2. PICK d \in DOMAIN clients, l \in LayerIds : id = <<d, l>> /\ ~Connected(d, l)
        BY <4>1 DEF CircuitInv, SetupProgress
      <4>3. d = c
        BY <4>1, <4>2
      <4> QED
        BY <4>2, <4>3 DEF Complete
    <3> QED
      BY <3>1, <3>2
  <2>4. \A c \in Clients : Complete(c) => OutputOf(c) \in output
    BY <2>1, <2>2 DEF CircuitInv, DataProgress
  <2>5. \A o \in output : \E c \in Clients : o = OutputOf(c) /\ Complete(c)
    BY <2>2 DEF CircuitInv, DataProgress
  <2> QED
    BY <2>3, <2>4, <2>5
<1> QED
  BY <1>1, CircuitInvariance, PTL

(* A network that does not verify the proofs neither panics nor refuses: in    *)
(* the end the data of every client came out, the bad ones' too                *)
(* (decrypt_setup_layer under the verification flag).                          *)
THEOREM UnverifiedDelivers ==
  Spec => [](~network.mode.verify =>
               /\ NoPanic /\ DataFollowsSetup
               /\ phase = "data" /\ waiting = {} =>
                    output = {OutputOf(c) : c \in Clients})
<1> DEFINE Unverified == network.mode.verify \/ (panicked = {} /\ refused = {})
<1>1. Init => Unverified
  BY DEF Init
<1>2. CircuitInv /\ Unverified /\ [Next]_vars => Unverified'
  <2> SUFFICES ASSUME CircuitInv, Unverified, [Next]_vars PROVE Unverified'
    OBVIOUS
  <2>1. ASSUME NEW w \in waiting, DecryptSetup(w) PROVE Unverified'
    <3>1. UNCHANGED network
      BY <2>1 DEF DecryptSetup
    <3>2. ASSUME ~network.mode.verify PROVE UNCHANGED <<refused, panicked>>
      <4>1. SetupOnWay = waiting
        BY <2>1 DEF DecryptSetup, SetupOnWay
      <4>2. SetupOf(w, SetupOwner(w)) /\ SetupOwner(w) \in DOMAIN clients
        BY <2>1, <4>1 DEF CircuitInv, SetupProgress, SetupOf, AtLayer
      <4>3. DecryptSetupLayer(w).st = "ok"
        BY <3>2, <4>2, SetupOpens DEF CircuitInv
      <4> QED
        BY <2>1, <4>3 DEF DecryptSetup
    <3> QED
      BY <3>1, <3>2
  <2>2. ASSUME NEW w \in waiting, DecryptData(w) PROVE Unverified'
    BY <2>2 DEF DecryptData
  <2>3. ASSUME NEW c \in Clients, PushDataPacket(c) \/ \E s \in Servers : GenerateClient(c, s)
        PROVE  Unverified'
    BY <2>3 DEF PushDataPacket, GenerateClient
  <2>4. CASE StartSetup \/ StartData \/ UNCHANGED vars
    BY <2>4 DEF StartSetup, StartData, vars
  <2> QED
    BY <2>1, <2>2, <2>3, <2>4 DEF Next
<1>3. Unverified /\ (NoPanic => DataFollowsSetup) =>
        (~network.mode.verify =>
           /\ NoPanic /\ DataFollowsSetup
           /\ phase = "data" /\ waiting = {} => output = {OutputOf(c) : c \in Clients})
  BY DEF NoPanic, DataFollowsSetup
<1> QED
  BY <1>1, <1>2, <1>3, CircuitInvariance, DataUnlessPanic, PTL DEF Spec
--------------------------------------------------------------------------------
(* The proofs of the true tickets. *)

(* Network::new: the key is for one message. *)
LEMMA KeyIsGood == GoodKey(VerificationKey, SecretKey, 1)
<1>1. VerificationKey = [w |-> Times(One, SecretKey), h0 |-> Generators[1],
                         h |-> [i \in 0..(1 - 1) |-> Generators[i + 2]]]
  BY DEF VerificationKey, Generate, Ok
<1>2. SecretKey \in Fr \ {0} /\ Times(One, SecretKey) = SecretKey
  BY DrawsAssumption, Neutral
<1>3. Generators[1] \in Fr \ {0} /\ Generators[2] \in Fr \ {0}
  <2>1. PICK S, g : S = Fr \ {0} /\ g = Generators
    OBVIOUS
  <2>2. g \in Seq(S) /\ Len(g) = 2
    BY <2>1, DrawsAssumption
  <2>3. g[1] \in S /\ g[2] \in S
    BY ONLY <2>2
  <2> QED
    BY <2>1, <2>3
<1>4. VerificationKey.h = [i \in 0..(1 - 1) |-> Generators[i + 2]] /\ VerificationKey.h0 = Generators[1]
      /\ VerificationKey.w = SecretKey
  BY <1>1, <1>2
<1> HIDE DEF VerificationKey
<1> QED
  BY <1>2, <1>3, <1>4 DEF GoodKey

LEMMA TestingMessages ==
  /\ Messages(TestingProof) = TestingMessage /\ RevealedMessages(TestingProof) = TestingMessage
  /\ Hidden(TestingProof) = {} /\ DOMAIN TestingProof = 0..(1 - 1)
  /\ DOMAIN TestingMessage = {0} /\ TestingMessage[0] = Message /\ Message \in Fr
  /\ TestingProof[0].m = Message /\ TestingProof[0].blinding = 0
<1>1. DOMAIN TestingProof = {0} /\ {0} = 0..(1 - 1)
      /\ TestingProof[0] = [m |-> Message, kind |-> "revealed", blinding |-> 0]
  BY DEF TestingProof
<1>2. DOMAIN TestingMessage = {0} /\ TestingMessage[0] = Message /\ Message \in Fr
  BY DrawsAssumption DEF TestingMessage
<1>3. Revealed(TestingProof) = {0} /\ Hidden(TestingProof) = {}
  BY <1>1 DEF Revealed, Hidden
<1>4. Messages(TestingProof) = TestingMessage
  BY <1>1 DEF Messages, TestingMessage, GetMessage
<1>5. RevealedMessages(TestingProof) = TestingMessage
  BY <1>1, <1>3 DEF RevealedMessages, TestingMessage
<1> QED
  BY <1>1, <1>2, <1>3, <1>4, <1>5

(* Client::new: the issuer's signature. *)
LEMMA SignatureIsGood ==
  ASSUME NEW c \in Clients
  PROVE  /\ SignedFor(ClientSignature(c), TestingMessage, VerificationKey, SecretKey)
         /\ ClientSignature(c).e = Exponents[c]
<1>1. PICK sk, e, s, b : sk = SecretKey /\ e = Exponents[c] /\ s = Draws[c][1]
                         /\ b = ComputeB(s, TestingMessage, VerificationKey)
  OBVIOUS
<1>2. /\ e \in Fr \ {0} /\ s \in Fr \ {0} /\ Plus(sk, e) # 0 /\ b # Zero
  <2>1. Draws[c] \in Seq(Fr \ {0}) /\ Len(Draws[c]) >= 14
    BY DrawsAssumption
  <2>2. Draws[c][1] \in Fr \ {0}
    BY <2>1
  <2>3. Exponents[c] \in Fr /\ Exponents[c] # 0
    BY CircuitAssumption, DrawsAssumption
  <2> QED
    BY <1>1, <2>2, <2>3, DrawsAssumption
<1>3. MessageCount(VerificationKey) = 1
      /\ KeysValidate(sk, VerificationKey) = Ok(VerificationKey)
  <2>1. /\ PublicKeyValidate(VerificationKey) = Ok(VerificationKey)
        /\ MessageCount(VerificationKey) = 1 /\ SecretKeyValidate(sk) = Ok(sk)
    BY <1>1, KeyIsGood, GoodKeyFacts
  <2> QED
    BY <2>1 DEF KeysValidate, Try, Ok
<1>4. Cardinality(DOMAIN TestingMessage) = 1
  BY TestingMessages, FS_Singleton
<1>5. SignB(b, e, s, sk) = Ok([a |-> Times(b, Inverse1(Plus(sk, e))), e |-> e, s |-> s])
  BY <1>2 DEF SignB
<1>6. SignatureNew(TestingMessage, sk, VerificationKey, e, s) = SignB(b, e, s, sk)
  <2>1. ~(1 > 1)
    OBVIOUS
  <2> QED
    BY <1>1, <1>3, <1>4, <2>1 DEF SignatureNew, Try, Ok
<1>7. PICK sig : sig = ClientSignature(c)
  OBVIOUS
<1>8. sig = [a |-> Times(b, Inverse1(Plus(sk, e))), e |-> e, s |-> s]
  BY <1>1, <1>5, <1>6, <1>7 DEF ClientSignature, Ok
<1>9. SignedFor(sig, TestingMessage, VerificationKey, sk)
  BY <1>1, <1>2, <1>8 DEF SignedFor
<1> QED
  BY <1>1, <1>7, <1>8, <1>9

(* The scalars are the client's, in another order. *)
LEMMA DrawnType ==
  ASSUME NEW c \in Clients, NEW l \in LayerIds
  PROVE  Drawn(c, l) \in Seq(Fr \ {0}) /\ Len(Drawn(c, l)) >= 14
<1>1. PICK d, n, S : d = Draws[c] /\ n = Len(d) /\ S = Fr \ {0}
  OBVIOUS
<1>2. d \in Seq(S) /\ n \in Nat /\ n >= 14 /\ l \in Nat /\ l + 1 <= n
  <2>1. Draws[c] \in Seq(Fr \ {0}) /\ Len(Draws[c]) >= 14 /\ Len(Draws[c]) >= Layers
    BY DrawsAssumption
  <2>2. l \in Nat /\ l + 1 <= Layers /\ Layers \in Nat
    BY CircuitAssumption DEF LayerIds
  <2>3. Len(Draws[c]) \in Nat
    BY <2>1, LenProperties
  <2> QED
    BY <1>1, <2>1, <2>2, <2>3
<1>3. PICK u, v : u = SubSeq(d, l + 2, n) /\ v = SubSeq(d, 1, l + 1)
  OBVIOUS
<1>4. u \in Seq(S) /\ Len(u) = n - l - 1
  BY <1>1, <1>2, <1>3
<1>5. v \in Seq(S) /\ Len(v) = l + 1
  BY <1>1, <1>2, <1>3
<1>6. u \o v \in Seq(S) /\ Len(u \o v) = n
  BY <1>2, <1>4, <1>5, ConcatProperties
<1> QED
  BY <1>1, <1>2, <1>3, <1>6 DEF Drawn

(* The proof of a layer answers every challenge. *)
LEMMA TicketProofIs ==
  ASSUME NEW c \in Clients, NEW l \in LayerIds, NEW ch \in Fr
  PROVE  TicketAnswer(TicketProofFor(c, l, ch), TicketPoK(c, l), TestingMessage,
                      VerificationKey, TicketBases[l + 1],
                      Times(TicketBases[l + 1], Exponents[c]), Exponents[c], ch)
<1>1. PICK b, t, e, sig, d : /\ b = TicketBases[l + 1] /\ t = Times(b, e) /\ e = Exponents[c]
                             /\ sig = ClientSignature(c) /\ d = Drawn(c, l)
  OBVIOUS
<1>2. b \in Fr /\ e \in Fr
  BY <1>1, CircuitAssumption DEF LayerIds
<1>3. t \in Fr
  BY <1>1, <1>2, ScalarTypes
<1>4. d \in Seq(Fr \ {0}) /\ Len(d) >= 14
  BY <1>1, DrawnType
<1>5. Cardinality(Hidden(TestingProof)) = 0
  BY TestingMessages, FS_EmptySet
<1>6. Provable(sig, TestingProof, d, VerificationKey, SecretKey, 1)
  <2>1. \A i \in 0..(1 - 1) : TestingProof[i].m \in Fr /\ TestingProof[i].blinding \in Fr
    BY TestingMessages, ScalarTypes DEF Zero
  <2>2. SignedFor(sig, Messages(TestingProof), VerificationKey, SecretKey)
    BY <1>1, SignatureIsGood, TestingMessages
  <2>3. DOMAIN TestingProof = 0..(1 - 1)
    BY TestingMessages
  <2>4. Len(d) >= 1 + 6
    <3>1. Len(d) \in Nat
      BY <1>4, LenProperties
    <3> QED
      BY <1>4, <3>1
  <2> QED
    BY <1>4, <2>1, <2>2, <2>3, <2>4, KeyIsGood DEF Provable
<1>7. sig.e = e
  BY <1>1, SignatureIsGood
<1>8. TicketPoK(c, l) = PoKOfTicketInit(sig, VerificationKey, TestingProof, t, b, d).val
  BY <1>1 DEF TicketPoK, CalculateTicket
<1>9. PICK pok : pok = TicketPoK(c, l)
  OBVIOUS
<1>10. \E p : TicketAnswer(p, pok, RevealedMessages(TestingProof), VerificationKey, b, t, sig.e, ch)
  <2>1. Len(d) >= 14 + Cardinality(Hidden(TestingProof))
    BY <1>4, <1>5
  <2>2. pok = PoKOfTicketInit(sig, VerificationKey, TestingProof, t, b, d).val /\ G2_VALUE \in Fr
    BY <1>8, <1>9, CircuitAssumption
  <2> QED
    BY ONLY <1>2, <1>3, <1>6, <2>1, <2>2, TicketAnswers, ch \in Fr
<1>11. PICK p : TicketAnswer(p, pok, TestingMessage, VerificationKey, b, t, e, ch)
  BY <1>7, <1>10, TestingMessages
<1>12. p = TicketProofFor(c, l, ch)
  BY <1>9, <1>11 DEF TicketAnswer, TicketProofFor, Ok
<1> QED
  BY <1>1, <1>9, <1>11, <1>12
--------------------------------------------------------------------------------
(* The strings that were hashed. *)

(* a has the strings of s, at their places. *)
Grows(s, a) == Len(s) <= Len(a) /\ \A i \in 1..Len(s) : a[i] = s[i]

LEMMA AskingOnce ==
  ASSUME NEW s, StringsOnce(s), NEW q
  PROVE  /\ StringsOnce(Asking(s, q)) /\ Grows(s, Asking(s, q))
         /\ q \in ToSet(Asking(s, q))
<1>1. s \in Seq(ToSet(s)) /\ \A i, j \in 1..Len(s) : s[i] = s[j] => i = j
  BY DEF StringsOnce
<1>2. CASE q \in ToSet(s)
  <2>1. Len(s) <= Len(s)
    <3>1. Len(s) \in Nat
      BY <1>1, LenProperties
    <3> QED
      BY <3>1
  <2> QED
    BY <1>2, <2>1 DEF Asking, Grows
<1>3. CASE q \notin ToSet(s)
  <2>1. PICK S, n, a : S = ToSet(s) \union {q} /\ n = Len(s) /\ a = Append(s, q)
    OBVIOUS
  <2>2. s \in Seq(S) /\ q \in S
    <3>1. ToSet(s) \subseteq S
      BY <2>1
    <3> QED
      BY <1>1, <2>1, <3>1, SeqMonotonic
  <2>3. /\ a \in Seq(S) /\ n \in Nat /\ Len(a) = n + 1 /\ a[n + 1] = q
        /\ \A i \in 1..n : a[i] = s[i]
    BY <2>1, <2>2, AppendProperties, LenProperties
  <2>4. \A i \in 1..n : s[i] \in ToSet(s)
    <3>1. DOMAIN s = 1..n
      BY <1>1, <2>1, LenProperties
    <3> QED
      BY <3>1 DEF ToSet
  <2>5. DOMAIN a = 1..(n + 1)
    BY <2>3, LenProperties
  <2>6. a \in Seq(ToSet(a)) /\ q \in ToSet(a)
    <3>1. a \in Seq(ToSet(a))
      BY <2>3, SeqOfItself
    <3>2. n + 1 \in DOMAIN a
      BY <2>3, <2>5
    <3> QED
      BY <2>3, <3>1, <3>2 DEF ToSet
  <2>7. ASSUME NEW i \in 1..(n + 1), NEW j \in 1..(n + 1), a[i] = a[j] PROVE i = j
    <3>1. \A k \in 1..n : a[k] # q
      BY <1>3, <2>3, <2>4
    <3>2. CASE i = n + 1
      <4>1. j \notin 1..n
        BY <2>3, <2>7, <3>1, <3>2
      <4> QED
        BY <2>3, <3>2, <4>1
    <3>3. CASE j = n + 1
      <4>1. i \notin 1..n
        BY <2>3, <2>7, <3>1, <3>3
      <4> QED
        BY <2>3, <3>3, <4>1
    <3>4. CASE i # n + 1 /\ j # n + 1
      <4>1. i \in 1..n /\ j \in 1..n
        BY <2>3, <3>4
      <4>2. s[i] = s[j]
        BY <2>3, <2>7, <4>1
      <4> QED
        BY <1>1, <2>1, <4>1, <4>2
    <3> QED
      BY <3>2, <3>3, <3>4
  <2>8. Asking(s, q) = a
    BY <1>3, <2>1 DEF Asking
  <2>9. StringsOnce(a)
    BY <2>3, <2>6, <2>7 DEF StringsOnce
  <2>10. Grows(s, a)
    BY <2>1, <2>3 DEF Grows
  <2> QED
    BY <2>6, <2>8, <2>9, <2>10
<1> QED
  BY <1>2, <1>3

LEMMA GrowsSelf ==
  ASSUME NEW s, StringsOnce(s)
  PROVE  Grows(s, s)
<1>1. Len(s) \in Nat
  BY LenProperties DEF StringsOnce
<1> QED
  BY <1>1 DEF Grows

(* Growing goes on. *)
LEMMA GrowsOn ==
  ASSUME NEW s, NEW a, NEW b, Grows(s, a), Grows(a, b),
         StringsOnce(s), StringsOnce(a), StringsOnce(b)
  PROVE  Grows(s, b) /\ \A q \in ToSet(s) : q \in ToSet(b)
<1>1. PICK k, m, n : k = Len(s) /\ m = Len(a) /\ n = Len(b)
  OBVIOUS
<1>2. /\ k \in Nat /\ m \in Nat /\ n \in Nat /\ k <= m /\ m <= n
      /\ DOMAIN s = 1..k /\ DOMAIN b = 1..n
  BY <1>1, LenProperties DEF StringsOnce, Grows
<1>3. \A i \in 1..k : i \in 1..m /\ i \in 1..n /\ a[i] = s[i] /\ b[i] = a[i]
  BY <1>1, <1>2 DEF Grows
<1>4. \A q \in ToSet(s) : q \in ToSet(b)
  BY <1>2, <1>3 DEF ToSet
<1> QED
  BY <1>1, <1>2, <1>3, <1>4 DEF Grows

(* The challenge of a string is one of the challenges, and stays the same. *)
LEMMA AnswerIs ==
  ASSUME NEW s, StringsOnce(s), NEW q
  PROVE  Answer(s, q) \in ToSet(Challenges) /\ Answer(s, q) \in Fr
<1>1. PICK a : a = Asking(s, q)
  OBVIOUS
<1>2. PICK i \in DOMAIN a : a[i] = q
  BY <1>1, AskingOnce DEF ToSet
<1>3. PICK k : k = CHOOSE j \in DOMAIN a : a[j] = q
  OBVIOUS
<1>4. k \in DOMAIN a
  BY <1>2, <1>3
<1>5. k \in Nat
  <2>1. a \in Seq(ToSet(a))
    BY <1>1, AskingOnce DEF StringsOnce
  <2>2. DOMAIN a = 1..Len(a) /\ Len(a) \in Nat
    BY <2>1, LenProperties
  <2> QED
    BY <1>4, <2>2
<1>6. PICK m : m = Len(Challenges)
  OBVIOUS
<1>7. m \in Nat \ {0} /\ DOMAIN Challenges = 1..m /\ Challenges \in Seq(Fr)
  <2>1. Challenges \in Seq(Fr) /\ Challenges # << >>
    BY CircuitAssumption
  <2> QED
    BY <1>6, <2>1, EmptySeq, LenProperties
<1>8. PICK r : r = ((k - 1) % m) + 1
  OBVIOUS
<1>9. r \in 1..m
  <2>1. k - 1 \in Int /\ m \in Nat /\ m > 0
    BY <1>5, <1>7
  <2> QED
    BY <1>8, <2>1
<1>10. Answer(s, q) = Challenges[r]
  BY <1>1, <1>3, <1>6, <1>8 DEF Answer
<1>11. Challenges[r] \in ToSet(Challenges)
  BY <1>7, <1>9 DEF ToSet
<1>12. Challenges[r] \in Fr
  BY <1>6, <1>7, <1>9, ElementOfSeq
<1> QED
  BY <1>10, <1>11, <1>12

LEMMA AnswerKept ==
  ASSUME NEW s, NEW a, StringsOnce(s), StringsOnce(a), Grows(s, a), NEW q \in ToSet(s)
  PROVE  Answer(a, q) = Answer(s, q)
<1>1. q \in ToSet(a)
  BY GrowsSelf, GrowsOn
<1>2. Asking(s, q) = s /\ Asking(a, q) = a
  BY <1>1 DEF Asking
<1>3. PICK m, n : m = Len(s) /\ n = Len(a)
  OBVIOUS
<1>4. m \in Nat /\ n \in Nat /\ m <= n /\ DOMAIN s = 1..m /\ DOMAIN a = 1..n
  BY <1>3, LenProperties DEF StringsOnce, Grows
<1>5. PICK i \in 1..m : s[i] = q
  BY <1>4 DEF ToSet
<1>6. i \in 1..n /\ a[i] = q
  BY <1>3, <1>4, <1>5 DEF Grows
<1>7. (CHOOSE j \in DOMAIN s : s[j] = q) = i
  BY <1>3, <1>4, <1>5 DEF StringsOnce
<1>8. (CHOOSE j \in DOMAIN a : a[j] = q) = i
  BY <1>3, <1>4, <1>6 DEF StringsOnce
<1>9. Answer(s, q) = Challenges[((i - 1) % Len(Challenges)) + 1]
  <2>1. PICK u : u = Asking(s, q)
    OBVIOUS
  <2>2. (CHOOSE j \in DOMAIN u : u[j] = q) = i
    BY <1>2, <1>7, <2>1
  <2> QED
    BY <2>1, <2>2 DEF Answer
<1>10. Answer(a, q) = Challenges[((i - 1) % Len(Challenges)) + 1]
  <2>1. PICK u : u = Asking(a, q)
    OBVIOUS
  <2>2. (CHOOSE j \in DOMAIN u : u[j] = q) = i
    BY <1>2, <1>8, <2>1
  <2> QED
    BY <2>1, <2>2 DEF Answer
<1> QED
  BY <1>9, <1>10

(* The strings of a client, one by one. *)
AskedBy(c, k) == ProofBytes(c, GetLastLayerIdx - k)
AskedInTurn(c, after) ==
  /\ after[0] = oracle /\ StringsWith(c) = after[GetLastLayerIdx]
  /\ \A k \in Nat : after[k + 1] = Asking(after[k], AskedBy(c, k + 1))

(* (The function that StringsWith is defined by exists.) *)
LEMMA AskedSteps ==
  ASSUME NEW c
  PROVE  \E after : AskedInTurn(c, after)
<1> DEFINE Step(g, n) == [k \in 0..n |-> IF k = 0 THEN oracle ELSE Asking(g[k - 1], AskedBy(c, k))]
           P == {n \in Nat : \E g : g = Step(g, n)}
<1>1. 0 \in P
  <2>1. [k \in 0..0 |-> oracle] = Step([k \in 0..0 |-> oracle], 0)
    OBVIOUS
  <2> QED
    BY <2>1
<1>2. ASSUME NEW n \in Nat, n \in P PROVE n + 1 \in P
  <2>1. PICK g : g = Step(g, n)
    BY <1>2
  <2> DEFINE h == [k \in 0..(n + 1) |-> IF k = n + 1 THEN Asking(g[n], AskedBy(c, n + 1)) ELSE g[k]]
  <2>2. h = Step(h, n + 1)
    <3>1. \A k \in 0..(n + 1) : h[k] = IF k = 0 THEN oracle ELSE Asking(h[k - 1], AskedBy(c, k))
      <4> SUFFICES ASSUME NEW k \in 0..(n + 1)
                   PROVE  h[k] = IF k = 0 THEN oracle ELSE Asking(h[k - 1], AskedBy(c, k))
        OBVIOUS
      <4>1. CASE k = n + 1
        <5>1. h[k] = Asking(g[n], AskedBy(c, n + 1)) /\ k # 0 /\ k - 1 = n /\ h[n] = g[n]
          BY <4>1
        <5> QED
          BY <4>1, <5>1
      <4>2. CASE k # n + 1
        <5>1. k \in 0..n /\ h[k] = g[k]
          BY <4>2
        <5>2. k # 0 => k - 1 \in 0..(n + 1) /\ k - 1 # n + 1 /\ h[k - 1] = g[k - 1]
          BY <5>1
        <5>3. g[k] = IF k = 0 THEN oracle ELSE Asking(g[k - 1], AskedBy(c, k))
          BY <2>1, <5>1
        <5> QED
          BY <5>1, <5>2, <5>3
      <4> QED
        BY <4>1, <4>2
    <3> QED
      BY <3>1
  <2>3. n + 1 \in Nat
    OBVIOUS
  <2> HIDE DEF h
  <2> QED
    BY <2>2, <2>3
<1>3. \A n \in Nat : \E g : g = Step(g, n)
  <2> HIDE DEF P
  <2>1. Nat \subseteq P
    BY <1>1, <1>2, SetInduction
  <2> QED
    BY <2>1 DEF P
<1>4. \A n, m \in Nat : \A g, h : n <= m /\ g = Step(g, n) /\ h = Step(h, m) => g[n] = h[n]
  <2> TAKE n, m \in Nat
  <2> TAKE g, h
  <2> HAVE n <= m /\ g = Step(g, n) /\ h = Step(h, m)
  <2>1. \A k \in 0..n : g[k] = IF k = 0 THEN oracle ELSE Asking(g[k - 1], AskedBy(c, k))
    OBVIOUS
  <2>2. \A k \in 0..n : h[k] = IF k = 0 THEN oracle ELSE Asking(h[k - 1], AskedBy(c, k))
    OBVIOUS
  <2> DEFINE Q == {k \in Nat : k <= n => g[k] = h[k]}
  <2>3. 0 \in Q
    BY <2>1, <2>2
  <2>4. ASSUME NEW k \in Nat, k \in Q PROVE k + 1 \in Q
    <3> SUFFICES ASSUME k + 1 <= n PROVE g[k + 1] = h[k + 1]
      OBVIOUS
    <3>1. k + 1 \in 0..n /\ k + 1 # 0 /\ (k + 1) - 1 = k /\ g[k] = h[k]
      BY <2>4
    <3> QED
      BY <2>1, <2>2, <3>1
  <2> HIDE DEF Q
  <2>5. Nat \subseteq Q
    BY <2>3, <2>4, SetInduction
  <2> QED
    <3>1. n \in Q
      BY <2>5
    <3> QED
      BY <3>1 DEF Q
<1> DEFINE G(n) == CHOOSE g : g = Step(g, n)
           s == [k \in Nat |-> G(k)[k]]
           after == CHOOSE g : g = [k \in Nat |-> IF k = 0 THEN oracle ELSE Asking(g[k - 1], AskedBy(c, k))]
<1>5. \A n \in Nat : G(n) = Step(G(n), n)
  BY <1>3
<1> HIDE DEF G
<1>6. \A k \in Nat : s[k] = IF k = 0 THEN oracle ELSE Asking(s[k - 1], AskedBy(c, k))
  <2> SUFFICES ASSUME NEW k \in Nat PROVE s[k] = IF k = 0 THEN oracle ELSE Asking(s[k - 1], AskedBy(c, k))
    OBVIOUS
  <2>1. G(k)[k] = IF k = 0 THEN oracle ELSE Asking(G(k)[k - 1], AskedBy(c, k))
    <3>1. G(k) = Step(G(k), k)
      BY <1>5
    <3>2. k \in 0..k
      OBVIOUS
    <3> HIDE DEF Step
    <3>3. Step(G(k), k)[k] = IF k = 0 THEN oracle ELSE Asking(G(k)[k - 1], AskedBy(c, k))
      BY <3>2 DEF Step
    <3> QED
      BY <3>1, <3>3
  <2>2. k # 0 => k - 1 \in Nat /\ k - 1 <= k
    OBVIOUS
  <2>3. k # 0 => G(k - 1)[k - 1] = G(k)[k - 1]
    <3> HIDE DEF Step
    <3> QED
      BY <1>4, <1>5, <2>2
  <2> QED
    BY <2>1, <2>2, <2>3
<1>7. s = [k \in Nat |-> IF k = 0 THEN oracle ELSE Asking(s[k - 1], AskedBy(c, k))]
  BY <1>6
<1> HIDE DEF s
<1>8. after = [k \in Nat |-> IF k = 0 THEN oracle ELSE Asking(after[k - 1], AskedBy(c, k))]
  BY <1>7
<1>9. StringsWith(c) = after[GetLastLayerIdx]
  BY DEF StringsWith, AskedBy
<1> HIDE DEF after
<1>10. \A k \in Nat : after[k] = IF k = 0 THEN oracle ELSE Asking(after[k - 1], AskedBy(c, k))
  BY <1>8
<1>11. \A k \in Nat : k + 1 \in Nat /\ k + 1 # 0 /\ (k + 1) - 1 = k
  OBVIOUS
<1>12. after[0] = oracle /\ \A k \in Nat : after[k + 1] = Asking(after[k], AskedBy(c, k + 1))
  BY <1>10, <1>11
<1> QED
  BY <1>9, <1>12 DEF AskedInTurn

(* With the strings of a client, those of all its proofs are there. *)
LEMMA AllAsked ==
  ASSUME NEW c, StringsOnce(oracle)
  PROVE  /\ StringsOnce(StringsWith(c)) /\ Grows(oracle, StringsWith(c))
         /\ \A l \in LayerIds \ {GetLastLayerIdx} : ProofBytes(c, l) \in ToSet(StringsWith(c))
<1>1. PICK after : AskedInTurn(c, after)
  BY AskedSteps
<1> DEFINE P == {n \in Nat : /\ StringsOnce(after[n]) /\ Grows(oracle, after[n])
                             /\ \A j \in 1..n : AskedBy(c, j) \in ToSet(after[n])}
<1>2. 0 \in P
  <2>2. Grows(oracle, oracle)
    BY GrowsSelf
  <2>3. after[0] = oracle
    BY <1>1 DEF AskedInTurn
  <2>4. StringsOnce(after[0]) /\ Grows(oracle, after[0])
    BY <2>2, <2>3
  <2> QED
    BY <2>4
<1>3. ASSUME NEW n \in Nat, n \in P PROVE n + 1 \in P
  <2>1. PICK a, q, b : a = after[n] /\ q = AskedBy(c, n + 1) /\ b = Asking(a, q)
    OBVIOUS
  <2>2. b = after[n + 1]
    BY <1>1, <2>1 DEF AskedInTurn
  <2>3. StringsOnce(a) /\ Grows(oracle, a) /\ \A j \in 1..n : AskedBy(c, j) \in ToSet(a)
    BY <1>3, <2>1
  <2>4. StringsOnce(b) /\ Grows(a, b) /\ q \in ToSet(b)
    BY <2>1, <2>3, AskingOnce
  <2>5. Grows(oracle, b)
    BY <2>3, <2>4, GrowsOn
  <2>6. Grows(b, b)
    BY <2>4, GrowsSelf
  <2>7. \A x \in ToSet(a) : x \in ToSet(b)
    BY <2>3, <2>4, <2>6, GrowsOn
  <2>8. \A j \in 1..(n + 1) : AskedBy(c, j) \in ToSet(b)
    <3> SUFFICES ASSUME NEW j \in 1..(n + 1) PROVE AskedBy(c, j) \in ToSet(b)
      OBVIOUS
    <3>1. CASE j = n + 1
      BY <2>1, <2>4, <3>1
    <3>2. CASE j # n + 1
      <4>1. j \in 1..n
        BY <3>2
      <4> QED
        BY <2>3, <2>7, <4>1
    <3> QED
      BY <3>1, <3>2
  <2> QED
    BY <2>2, <2>4, <2>5, <2>8
<1> HIDE DEF P
<1>4. Nat \subseteq P
  BY <1>2, <1>3, SetInduction
<1>5. PICK m : m = GetLastLayerIdx
  OBVIOUS
<1>6. m \in Nat /\ LayerIds = 0..m
  BY <1>5, CircuitAssumption DEF GetLastLayerIdx, LayerIds
<1>7. /\ StringsOnce(after[m]) /\ Grows(oracle, after[m])
      /\ \A j \in 1..m : AskedBy(c, j) \in ToSet(after[m])
  BY <1>4, <1>6 DEF P
<1>8. StringsWith(c) = after[m]
  BY <1>1, <1>5 DEF AskedInTurn
<1>9. ASSUME NEW l \in LayerIds \ {GetLastLayerIdx} PROVE ProofBytes(c, l) \in ToSet(after[m])
  <2>1. PICK j \in 1..m : j = m - l /\ m - j = l
    BY <1>5, <1>6
  <2>2. AskedBy(c, j) = ProofBytes(c, l)
    BY <1>5, <2>1 DEF AskedBy
  <2> QED
    BY <1>7, <2>2
<1> QED
  BY <1>7, <1>8, <1>9
--------------------------------------------------------------------------------
(* Checking the proof of a layer. *)

IsFalse(c, l) == c \in BadClients /\ l > 0

(* What a packet carries are the bytes of a proof. *)
LEMMA CarriedProof ==
  ASSUME form \in Forms, StringsOnce(oracle), NEW c \in Clients, NEW l \in LayerIds,
         NEW data, Carries(data, c, l)
  PROVE  \E p : TicketProof(p, Nat) /\ data = TicketPoKToBytes(p, form)
<1>1. PICK ch : ch = Answer(oracle, ProofBytes(c, l)) /\ ch \in Fr
  BY AnswerIs
<1>2. PICK p : p = TicketProofFor(c, l, ch)
  OBVIOUS
<1>3. TicketAnswer(p, TicketPoK(c, l), TestingMessage, VerificationKey, TicketBases[l + 1],
                   Times(TicketBases[l + 1], Exponents[c]), Exponents[c], ch)
  BY <1>1, <1>2, TicketProofIs
<1>4. data = TicketPoKToBytes(p, form)
  BY <1>1, <1>2 DEF Carries, GetTicketProof
<1> QED
  BY <1>3, <1>4 DEF TicketAnswer

(* The mix decodes the ticket and the proof that the client sent. *)
Decoded(pkt, c, l, p, u, challenge) ==
  /\ p = TicketProofFor(c, l, challenge) /\ u = TicketOf(c, l)
  /\ challenge = Answer(oracle, ProofBytes(c, l)) /\ challenge \in ToSet(Challenges)
  /\ TicketAnswer(p, TicketPoK(c, l), TestingMessage, VerificationKey, TicketBases[l + 1],
                  Times(TicketBases[l + 1], Exponents[c]), Exponents[c], challenge)
  /\ TicketFromBytes(pkt.ticket) = Ok(u) /\ TicketPoKFromBytes(pkt.proof, form) = Ok(p)
  /\ challenge \in Fr /\ u \in Fr /\ TicketBases[l + 1] \in Fr /\ Exponents[c] \in Fr
  /\ Times(TicketBases[l + 1], Exponents[c]) \in Fr

LEMMA PacketDecodes ==
  ASSUME form \in Forms, StringsOnce(oracle), NEW c \in Clients, NEW l \in LayerIds, NEW pkt,
         Carries(pkt.proof, c, l), pkt.ticket = Bytes("g1", form, TicketOf(c, l))
  PROVE  \E p, u, challenge : Decoded(pkt, c, l, p, u, challenge)
<1>1. PICK ch : ch = Answer(oracle, ProofBytes(c, l))
  OBVIOUS
<1>2. ch \in ToSet(Challenges) /\ ch \in Fr
  BY <1>1, AnswerIs
<1>3. PICK p : p = TicketProofFor(c, l, ch)
  OBVIOUS
<1>4. TicketAnswer(p, TicketPoK(c, l), TestingMessage, VerificationKey, TicketBases[l + 1],
                   Times(TicketBases[l + 1], Exponents[c]), Exponents[c], ch)
  BY <1>2, <1>3, TicketProofIs
<1>5. TicketProof(p, Nat) /\ Nat \subseteq Nat
  BY <1>4 DEF TicketAnswer
<1>6. TicketPoKFromBytes(TicketPoKToBytes(p, form), form) = Ok(p)
  BY ONLY <1>5, form \in Forms, TicketProofReads
<1>7. pkt.proof = TicketPoKToBytes(p, form)
  BY <1>1, <1>3 DEF Carries, GetTicketProof
<1>8. TicketFromBytes(pkt.ticket) = Ok(TicketOf(c, l))
  BY TicketReads
<1>9. TicketOf(c, l) \in Fr
  BY TicketInFr
<1>10. TicketBases[l + 1] \in Fr /\ Exponents[c] \in Fr
  BY CircuitAssumption DEF LayerIds
<1>11. Times(TicketBases[l + 1], Exponents[c]) \in Fr
  BY <1>10, ScalarTypes
<1> QED
  BY <1>1, <1>2, <1>3, <1>4, <1>6, <1>7, <1>8, <1>9, <1>10, <1>11 DEF Decoded

(* verify_setup_packet accepts the proof of a true ticket and no other, and
   does not panic. *)
LEMMA VerifyIs ==
  ASSUME form \in Forms, StringsOnce(oracle), NEW c \in Clients,
         NEW l \in LayerIds \ {GetLastLayerIdx}, NEW pkt,
         Carries(pkt.proof, c, l), pkt.ticket = Bytes("g1", form, TicketOf(c, l))
  PROVE  VerifySetupPacket(pkt, l) = Ok(~IsFalse(c, l))
<1>1. PICK p, u, ch : Decoded(pkt, c, l, p, u, ch)
  BY PacketDecodes
<1>2. PICK b, t, e, vs, cv : /\ b = TicketBases[l + 1] /\ e = Exponents[c] /\ t = Times(b, e)
                             /\ vs = VerifyString(pkt, l) /\ cv = Answer(oracle, vs)
  OBVIOUS
<1>3. /\ b \in Fr /\ t \in Fr /\ u \in Fr /\ ch \in Fr
      /\ TicketAnswer(p, TicketPoK(c, l), TestingMessage, VerificationKey, b, t, e, ch)
      /\ TicketFromBytes(pkt.ticket) = Ok(u) /\ TicketPoKFromBytes(pkt.proof, form) = Ok(p)
  BY <1>1, <1>2 DEF Decoded
<1>4. cv \in Fr
  BY <1>2, AnswerIs
<1>5. vs = TicketBytesForChallenge(p, {0}, VerificationKey, b, u)
  BY <1>2, <1>3 DEF VerifyString, Ok
<1>6. PICK v : v = PoKOfTicketVerify(p, VerificationKey, TestingMessage, cv, b, u)
  OBVIOUS
<1>7. VerifySetupPacket(pkt, l) = Successful(v)
  BY <1>2, <1>3, <1>6 DEF VerifySetupPacket, Try, Ok
<1>8. v.st \in {"ok", "err"}
  <2>1. SameExponent(p)
    BY <1>3 DEF TicketAnswer
  <2> QED
    BY <1>6, <2>1, VerifyAnswers
<1>9. VerifySetupPacket(pkt, l) = Ok(v = Ok("Success"))
  BY <1>7, <1>8 DEF Successful
<1>10. CASE ~IsFalse(c, l)
  <2>1. u = t
    BY <1>1, <1>2, <1>10 DEF Decoded, IsFalse, TicketOf, CalculateTicket
  <2>2. PoKOfTicketBytes(TicketPoK(c, l))
          = TicketBytesForChallenge(p, DOMAIN TestingMessage, VerificationKey, b, t)
    BY <1>3 DEF TicketAnswer
  <2>3. vs = ProofBytes(c, l)
    BY <1>5, <2>1, <2>2, TestingMessages DEF ProofBytes
  <2>4. cv = ch
    BY <1>1, <1>2, <2>3 DEF Decoded
  <2>5. v = Ok("Success")
    BY <1>2, <1>3, <1>6, <2>1, <2>4 DEF TicketAnswer
  <2> QED
    BY <1>9, <1>10, <2>5
<1>11. CASE IsFalse(c, l)
  <2>1. c \in BadClients /\ l \in LayerIds \ {0, GetLastLayerIdx}
    BY <1>11 DEF IsFalse
  <2>2. u # t
    <3>1. u = BadTicket(l)
      BY <1>1, <1>11 DEF Decoded, IsFalse, TicketOf
    <3>2. t = CalculateTicket(l, Exponents[c]).t
      BY <1>2 DEF CalculateTicket
    <3> QED
      BY <2>1, <3>1, <3>2, DrawsAssumption
  <2>3. p.proof_vc_5.responses[2] # 0
    <3>1. p = TicketProofFor(c, l, ch) /\ ch \in ToSet(Challenges)
      BY <1>1 DEF Decoded
    <3> QED
      BY <2>1, <3>1, DrawsAssumption
  <2>4. PoKOfTicketVerify(p, VerificationKey, TestingMessage, ch, b, t) = Ok("Success")
    BY <1>2, <1>3 DEF TicketAnswer
  <2>5. p.proof_vc_5.responses \in Seq(Fr) /\ Len(p.proof_vc_5.responses) = 2
    BY <1>3 DEF TicketAnswer
  <2>6. v # Ok("Success")
    <3> SUFFICES ASSUME PoKOfTicketVerify(p, VerificationKey, TestingMessage, cv, b, u)
                          = Ok("Success")
                 PROVE  FALSE
      BY <1>6
    <3>1. t = u \/ p.proof_vc_5.responses[2] = 0
      <4>1. b \in Fr /\ t \in Fr /\ u \in Fr /\ ch \in Fr /\ cv \in Fr
        BY <1>3, <1>4
      <4>2. PoKOfTicketVerify(p, VerificationKey, TestingMessage, cv, b, u) = Ok("Success")
        OBVIOUS
      <4> QED
        BY ONLY <2>4, <2>5, <4>1, <4>2, TicketIsBound
    <3> QED
      BY <2>2, <2>3, <3>1
  <2> QED
    BY <1>9, <1>11, <2>6
<1> QED
  BY <1>10, <1>11

(* A layer is opened unless it carries a false ticket that is checked; then it
   is refused. *)
LEMMA OpensOrRefuses ==
  ASSUME ClientsAsBuilt, form \in Forms, StringsOnce(oracle),
         NEW w, NEW c \in DOMAIN clients, SetupOf(w, c),
         w.layer # GetLastLayerIdx => Carries(w.data[1].body.proof, c, w.layer)
  PROVE  DecryptSetupLayer(w).st
           = IF Checked(w.layer) /\ IsFalse(c, w.layer) THEN "err" ELSE "ok"
<1>1. /\ c \in Clients /\ w.layer \in LayerIds /\ w.server \in Servers
      /\ Opens(w.data[1], network.servers[w.server])
      /\ w.data[1].body.ticket = Bytes("g1", form, TicketOf(c, w.layer))
  <2>1. c \in Clients
    BY Built
  <2>2. w.layer \in LayerIds /\ w.server = clients[c].circuit[w.layer].cur_server
    BY DEF SetupOf, AtLayer
  <2>3. w.server \in Servers
    BY <2>2, Route
  <2>4. PICK k : k = 1
    OBVIOUS
  <2>5. k \in 1..(Layers - w.layer) /\ w.layer + k - 1 = w.layer
    BY <2>2, <2>4, CircuitAssumption DEF LayerIds
  <2>6. /\ \A s \in Servers : Opens(w.data[k], network.servers[s])
        /\ w.data[k].body.ticket = Bytes("g1", form, TicketOf(c, w.layer + k - 1))
    BY <2>5 DEF SetupOf
  <2> QED
    BY <2>1, <2>2, <2>3, <2>4, <2>5, <2>6
<1>2. PICK pkt, t : pkt = w.data[1].body /\ t = TicketFromBytes(pkt.ticket)
  OBVIOUS
<1>3. t.st = "ok"
  BY <1>1, <1>2, TicketReads DEF Ok
<1>4. Checked(w.layer) => VerifySetupPacket(pkt, w.layer) = Ok(~IsFalse(c, w.layer))
  <2>1. SUFFICES ASSUME Checked(w.layer)
                 PROVE  VerifySetupPacket(pkt, w.layer) = Ok(~IsFalse(c, w.layer))
    OBVIOUS
  <2>2. w.layer \in LayerIds \ {GetLastLayerIdx} /\ Carries(pkt.proof, c, w.layer)
    BY <1>1, <1>2, <2>1 DEF Checked
  <2>3. pkt.ticket = Bytes("g1", form, TicketOf(c, w.layer))
    BY <1>1, <1>2
  <2> QED
    BY <1>1, <2>2, <2>3, VerifyIs
<1>5. PICK x : x = IF Checked(w.layer) THEN VerifySetupPacket(pkt, w.layer) ELSE Ok(TRUE)
  OBVIOUS
<1>6. DecryptSetupLayer(w)
        = Try(x, LAMBDA valid :
                   IF ~valid THEN Err("invalid")
                   ELSE IF t.st # "ok" THEN Panic
                   ELSE Ok([pkt |-> pkt, next |-> CalculateNextServer(t.val, NetworkSize)]))
  BY <1>1, <1>2, <1>5 DEF DecryptSetupLayer
<1>7. CASE Checked(w.layer) /\ IsFalse(c, w.layer)
  <2>0. PICK b \in BOOLEAN : b = ~IsFalse(c, w.layer) /\ b = FALSE
    BY <1>7
  <2>1. x.st = "ok" /\ x.val = FALSE
    <3>1. x = Ok(b)
      BY <1>4, <1>5, <1>7, <2>0
    <3>2. Ok(b).st = "ok" /\ Ok(b).val = b
      BY DEF Ok
    <3> QED
      BY <2>0, <3>1, <3>2
  <2> QED
    BY <1>6, <1>7, <2>1 DEF Try, Err
<1>8. CASE ~(Checked(w.layer) /\ IsFalse(c, w.layer))
  <2>1. x.st = "ok" /\ x.val = TRUE
    <3>1. CASE Checked(w.layer)
      <4>1. PICK b \in BOOLEAN : b = ~IsFalse(c, w.layer) /\ b = TRUE
        BY <1>8, <3>1
      <4>2. x = Ok(b)
        BY <1>4, <1>5, <3>1, <4>1
      <4>3. Ok(b).st = "ok" /\ Ok(b).val = b
        BY DEF Ok
      <4> QED
        BY <4>1, <4>2, <4>3
    <3>2. CASE ~Checked(w.layer)
      BY <1>5, <3>2 DEF Ok
    <3> QED
      BY <3>1, <3>2
  <2> QED
    BY <1>3, <1>6, <1>8, <2>1 DEF Try, Ok
<1> QED
  BY <1>7, <1>8

(* A proof stays what it is while strings are added. *)
LEMMA CarriedOn ==
  ASSUME UNCHANGED network, StringsOnce(oracle), StringsOnce(oracle'), Grows(oracle, oracle'),
         NEW proof, NEW c, NEW l, Carries(proof, c, l)
  PROVE  Carries(proof, c, l)'
<1>1. PICK s, a, q : s = oracle /\ a = oracle' /\ q = ProofBytes(c, l)
  OBVIOUS
<1>2. StringsOnce(s) /\ StringsOnce(a) /\ Grows(s, a) /\ q \in ToSet(s)
  BY <1>1 DEF Carries
<1>3. Answer(a, q) = Answer(s, q)
  BY <1>2, AnswerKept
<1>4. q \in ToSet(a)
  BY <1>2, GrowsSelf, GrowsOn
<1>5. proof = TicketPoKToBytes(TicketProofFor(c, l, Answer(s, q)), form)
  BY <1>1 DEF Carries, GetTicketProof
<1>6. form' = form
  BY DEF form
<1>7. proof = TicketPoKToBytes(TicketProofFor(c, l, Answer(a, q)), form')
  BY <1>3, <1>5, <1>6
<1> QED
  BY <1>1, <1>4, <1>7 DEF Carries, GetTicketProof

LEMMA ProofsKept ==
  ASSUME UNCHANGED network, StringsOnce(oracle), StringsOnce(oracle'), Grows(oracle, oracle'),
         NEW w, ProofsOf(w)
  PROVE  ProofsOf(w)'
<1> SUFFICES ASSUME NEW k \in 1..(Layers - w.layer), w.layer + k - 1 # GetLastLayerIdx
             PROVE  Carries(w.data[k].body.proof, SetupOwner(w), w.layer + k - 1)'
  BY DEF ProofsOf, SetupOwner, GetLastLayerIdx
<1>1. PICK proof, c, l : proof = w.data[k].body.proof /\ c = SetupOwner(w) /\ l = w.layer + k - 1
  OBVIOUS
<1>2. Carries(proof, c, l)
  BY <1>1 DEF ProofsOf
<1>3. Carries(proof, c, l)'
  BY <1>2, CarriedOn
<1> QED
  BY <1>1, <1>3 DEF SetupOwner

--------------------------------------------------------------------------------
(* What is known of the proofs is kept. *)

LEMMA ProofInvInit == Init => ProofInv
<1> SUFFICES ASSUME Init PROVE ProofInv
  OBVIOUS
<1>1. /\ phase = "setup_info" /\ refused = {} /\ panicked = {} /\ oracle = << >>
      /\ conns = [s \in Servers |-> << >>] /\ setupPackets = [s \in Servers |-> << >>]
      /\ network \in {[mode |-> m, servers |-> KeyPairs(NetworkSize)] : m \in Modes}
  BY DEF Init
<1>2. form \in Forms
  BY <1>1, CircuitAssumption DEF form
<1>3. StringsOnce(oracle)
  BY <1>1 DEF StringsOnce
<1>4. SetupOnWay = {}
  BY <1>1 DEF SetupOnWay, Initial
<1>5. NoPanic /\ FalseTicketsStop
  BY <1>1 DEF NoPanic, FalseTicketsStop, TrueTicketsPass, FalseTicketsCaught
<1> QED
  BY <1>2, <1>3, <1>4, <1>5 DEF ProofInv

(* Steps that change nothing but what is not spoken of. *)
LEMMA ProofInvSame ==
  ASSUME ProofInv, UNCHANGED <<network, oracle, conns, refused, panicked>>,
         SetupOnWay' \subseteq SetupOnWay
  PROVE  ProofInv'
<1>1. form' = form /\ StringsOnce(oracle)'
  BY DEF form, ProofInv
<1>2. \A w \in SetupOnWay' : ProofsOf(w)'
  <2> SUFFICES ASSUME NEW w \in SetupOnWay' PROVE ProofsOf(w)'
    OBVIOUS
  <2>1. ProofsOf(w) /\ StringsOnce(oracle) /\ StringsOnce(oracle') /\ UNCHANGED network
    BY <1>1 DEF ProofInv
  <2>2. Grows(oracle, oracle')
    BY <2>1, GrowsSelf
  <2> QED
    BY ONLY <2>1, <2>2, ProofsKept
<1>3. NoPanic' /\ FalseTicketsStop'
  BY DEF ProofInv, NoPanic, FalseTicketsStop, TrueTicketsPass, FalseTicketsCaught
<1> QED
  BY <1>1, <1>2, <1>3 DEF ProofInv

LEMMA ProofInvGenerate ==
  ASSUME CircuitInv, ProofInv, NEW c \in Clients, NEW first \in Servers,
         GenerateClient(c, first)
  PROVE  ProofInv'
<1>1. PICK strings, made : strings = StringsWith(c) /\ made = SetupPacket(c, first, strings)
  OBVIOUS
<1>2. PICK new : new = [server |-> first, layer |-> 0, data |-> made]
  OBVIOUS
<1>3. /\ phase = "setup_info" /\ phase' = phase /\ oracle' = strings
      /\ UNCHANGED <<network, conns, refused, panicked>>
      /\ setupPackets' = [setupPackets EXCEPT ![first] = Append(@, made)]
  BY <1>1 DEF GenerateClient
<1>4. SetupOnWay' = SetupOnWay \union {new}
  <2>1. DOMAIN setupPackets = Servers
          /\ \A s \in Servers : setupPackets[s] \in Seq(ToSet(setupPackets[s]))
    BY DEF CircuitInv, Phases
  <2>2. Initial(setupPackets') = Initial(setupPackets) \union {new}
    BY <1>2, <1>3, <2>1, InitialAppend
  <2> QED
    BY <1>3, <2>2 DEF SetupOnWay
<1>5. /\ StringsOnce(oracle) /\ StringsOnce(oracle') /\ Grows(oracle, oracle')
      /\ \A l \in LayerIds \ {GetLastLayerIdx} : ProofBytes(c, l) \in ToSet(oracle')
  BY <1>1, <1>3, AllAsked DEF ProofInv
<1>6. ProofsOf(new)'
  <2> SUFFICES ASSUME NEW k \in 1..(Layers - new.layer), new.layer + k - 1 # GetLastLayerIdx
               PROVE  Carries(new.data[k].body.proof, SetupOwner(new), new.layer + k - 1)'
    BY DEF ProofsOf, SetupOwner, GetLastLayerIdx
  <2>1. PICK l : l = k - 1
    OBVIOUS
  <2>2. new.layer = 0 /\ new.data = made /\ Layers \in Nat \ {0}
    BY <1>2, CircuitAssumption
  <2>3. k \in 1..Layers /\ l \in LayerIds \ {GetLastLayerIdx} /\ new.layer + k - 1 = l
    BY <2>1, <2>2 DEF LayerIds
  <2>4. \A j \in 1..Layers : made[j].body = SetupLayer(c, j - 1, strings)
    BY <1>1 DEF SetupPacket, SealToVecbox
  <2>5. new.data[k].body.proof = GetTicketProof(c, l, strings)
    <3>1. new.data[k].body = SetupLayer(c, l, strings)
      BY <2>1, <2>2, <2>3, <2>4
    <3>2. l # GetLastLayerIdx
      BY <2>3
    <3>3. SetupLayer(c, l, strings).proof
            = IF l = GetLastLayerIdx THEN << >> ELSE GetTicketProof(c, l, strings)
      BY DEF SetupLayer
    <3> QED
      BY <3>1, <3>2, <3>3
  <2>6. SetupOwner(new) = c
    <3>1. 1 \in 1..Layers
      BY <2>2
    <3>2. made[1].body.conn = ConnectionOf(c, 1 - 1)
      <4>1. made[1].body = SetupLayer(c, 1 - 1, strings)
        BY <2>4, <3>1
      <4>2. SetupLayer(c, 1 - 1, strings).conn = ConnectionOf(c, 1 - 1)
        BY DEF SetupLayer
      <4> QED
        BY <4>1, <4>2
    <3> QED
      BY <2>2, <3>2 DEF SetupOwner, ConnectionOf
  <2>7. GetTicketProof(c, l, strings) = GetTicketProof(c, l, oracle)'
    <3>1. form' = form
      BY <1>3 DEF form
    <3>2. GetTicketProof(c, l, oracle)'
            = TicketPoKToBytes(TicketProofFor(c, l, Answer(oracle', ProofBytes(c, l))), form')
      BY DEF GetTicketProof
    <3>3. GetTicketProof(c, l, strings)
            = TicketPoKToBytes(TicketProofFor(c, l, Answer(strings, ProofBytes(c, l))), form)
      BY DEF GetTicketProof
    <3> QED
      BY <1>3, <3>1, <3>2, <3>3
  <2>8. ProofBytes(c, l) \in ToSet(oracle')
    BY <1>5, <2>3
  <2>9. Carries(new.data[k].body.proof, c, l)'
    <3>1. PICK proof : proof = new.data[k].body.proof
      OBVIOUS
    <3>2. Carries(proof, c, l)'
      BY <2>5, <2>7, <2>8, <3>1 DEF Carries
    <3> QED
      BY <3>1, <3>2
  <2> QED
    BY <2>3, <2>6, <2>9 DEF SetupOwner
<1>7. \A w \in SetupOnWay' : ProofsOf(w)'
  <2> SUFFICES ASSUME NEW w \in SetupOnWay' PROVE ProofsOf(w)'
    OBVIOUS
  <2>1. CASE w = new
    BY <1>6, <2>1
  <2>2. CASE w \in SetupOnWay
    <3>1. ProofsOf(w) /\ UNCHANGED network
      BY <1>3, <2>2 DEF ProofInv
    <3> QED
      BY ONLY <1>5, <3>1, ProofsKept
  <2> QED
    BY <1>4, <2>1, <2>2
<1>8. form' \in Forms
  BY <1>3 DEF form, ProofInv
<1>9. NoPanic' /\ FalseTicketsStop'
  BY <1>3 DEF ProofInv, NoPanic, FalseTicketsStop, TrueTicketsPass, FalseTicketsCaught
<1> QED
  BY <1>5, <1>7, <1>8, <1>9 DEF ProofInv

LEMMA ProofInvOpen ==
  ASSUME CircuitInv, ProofInv, NEW w \in waiting, DecryptSetup(w)
  PROVE  ProofInv'
<1>1. PICK c, r, id : /\ c = SetupOwner(w) /\ r = DecryptSetupLayer(w)
                      /\ id = w.data[1].body.conn.conn_id
  OBVIOUS
<1>2. PICK onward :
        /\ onward = IF r.st = "ok" /\ w.layer < GetLastLayerIdx
                    THEN {[server |-> r.val.next, layer |-> w.layer + 1,
                           data |-> Tail(w.data)]}
                    ELSE {}
        /\ waiting' = (waiting \ {w}) \union onward
        /\ conns' = IF r.st = "ok"
                    THEN [conns EXCEPT ![w.server] = Inserted(@, id, r.val.pkt.conn)]
                    ELSE conns
        /\ refused' = IF r.st = "err" THEN refused \union {id} ELSE refused
        /\ panicked' = IF r.st = "panic" THEN panicked \union {id} ELSE panicked
  BY <1>1 DEF DecryptSetup
<1>3. /\ phase = "setup" /\ phase' = "setup" /\ UNCHANGED network
      /\ SetupOnWay = waiting /\ SetupOnWay' = waiting'
  BY DEF DecryptSetup, SetupOnWay
<1>4. /\ c \in DOMAIN clients /\ SetupOf(w, c) /\ w.layer \in LayerIds /\ w.server \in Servers
      /\ \A l \in LayerIds : Connected(c, l) <=> l < w.layer
      /\ id = <<c, w.layer>> /\ ClientsAsBuilt
  <2>1. SetupOf(w, c) /\ \A l \in LayerIds : Connected(c, l) <=> l < w.layer
    BY <1>1, <1>3 DEF CircuitInv, SetupProgress
  <2>2. ClientsAsBuilt /\ c \in DOMAIN clients /\ w.layer \in LayerIds
        /\ w.server = clients[c].circuit[w.layer].cur_server
    BY <2>1 DEF SetupOf, AtLayer, CircuitInv
  <2> QED
    BY <1>1, <2>1, <2>2, Route, SetupOpens
<1>5. ProofsOf(w) /\ form \in Forms /\ StringsOnce(oracle)
  BY <1>3 DEF ProofInv
<1>6. r.st = IF Checked(w.layer) /\ IsFalse(c, w.layer) THEN "err" ELSE "ok"
  <2>1. w.layer # GetLastLayerIdx => Carries(w.data[1].body.proof, c, w.layer)
    <3>1. PICK k : k = 1
      OBVIOUS
    <3>2. k \in 1..(Layers - w.layer) /\ w.layer + k - 1 = w.layer
      BY <1>4, <3>1, CircuitAssumption DEF LayerIds
    <3> QED
      BY <1>1, <1>5, <3>1, <3>2 DEF ProofsOf
  <2> QED
    BY ONLY <1>1, <1>4, <1>5, <2>1, OpensOrRefuses
<1>7. /\ StringsOnce(oracle') /\ Grows(oracle, oracle')
  <2>1. \/ oracle' = oracle
        \/ \E q : oracle' = Asking(oracle, q)
    BY DEF DecryptSetup
  <2> QED
    BY <1>5, <2>1, AskingOnce, GrowsSelf
(* What goes on carries the rest of the proofs. *)
<1>8. \A v \in onward : ProofsOf(v)
  <2> SUFFICES ASSUME NEW v \in onward, NEW k \in 1..(Layers - v.layer),
                      v.layer + k - 1 # GetLastLayerIdx
               PROVE  Carries(v.data[k].body.proof, SetupOwner(v), v.layer + k - 1)
    BY DEF ProofsOf
  <2>1. w.layer < GetLastLayerIdx /\ v.layer = w.layer + 1 /\ v.data = Tail(w.data)
    <3>1. r.st = "ok" /\ w.layer < GetLastLayerIdx
      BY <1>2
    <3>2. v = [server |-> r.val.next, layer |-> w.layer + 1, data |-> Tail(w.data)]
      BY <1>2, <3>1
    <3> QED
      BY <3>1, <3>2
  <2>2. PICK n : n = Layers - w.layer
    OBVIOUS
  <2>3. /\ n \in Nat /\ n >= 2 /\ Layers - v.layer = n - 1
        /\ k \in 1..(n - 1) /\ k + 1 \in 1..n /\ v.layer + k - 1 = w.layer + (k + 1) - 1
        /\ 1 \in 1..(n - 1) /\ 1 + 1 \in 1..n /\ w.layer + (1 + 1) - 1 = w.layer + 1
    <3>1. w.layer \in Nat /\ Layers \in Nat /\ w.layer < Layers - 1 /\ v.layer = w.layer + 1
      BY <1>4, <2>1, CircuitAssumption DEF LayerIds, GetLastLayerIdx
    <3>2. n \in Nat /\ n >= 2 /\ Layers - v.layer = n - 1
      BY <2>2, <3>1
    <3>3. k \in 1..(n - 1)
      BY <3>2
    <3> QED
      BY ONLY <3>1, <3>2, <3>3
  <2>4. IsSeqOfLen(w.data, n)
    BY <1>4, <2>2 DEF SetupOf
  <2>5. v.data[k] = w.data[k + 1] /\ v.data[1] = w.data[1 + 1]
    <3>1. \A j \in 1..(n - 1) : Tail(w.data)[j] = w.data[j + 1]
      <4>1. n \in Nat /\ n >= 1
        BY <2>3
      <4> QED
        BY ONLY <2>4, <4>1, TailOfBoxes
    <3> QED
      BY <2>1, <2>3, <3>1
  <2>6. SetupOwner(v) = c
    <3>1. w.data[1 + 1].body.conn = ConnectionOf(c, w.layer + (1 + 1) - 1)
      BY <1>4, <2>2, <2>3 DEF SetupOf
    <3> QED
      BY <2>5, <3>1 DEF SetupOwner, ConnectionOf
  <2>7. Carries(w.data[k + 1].body.proof, SetupOwner(w), w.layer + (k + 1) - 1)
    BY <1>5, <2>2, <2>3 DEF ProofsOf
  <2> QED
    BY <1>1, <2>3, <2>5, <2>6, <2>7
<1>9. \A v \in SetupOnWay' : ProofsOf(v)'
  <2> SUFFICES ASSUME NEW v \in SetupOnWay' PROVE ProofsOf(v)'
    OBVIOUS
  <2>1. ProofsOf(v)
    BY <1>2, <1>3, <1>8 DEF ProofInv
  <2> QED
    BY ONLY <1>3, <1>5, <1>7, <2>1, ProofsKept
<1>10. NoPanic'
  BY <1>2, <1>6 DEF ProofInv, NoPanic
<1>11. TrueTicketsPass'
  <2>1. r.st = "err" => c \in BadClients /\ w.layer > 0
    BY <1>6 DEF IsFalse
  <2>2. \A i \in refused' : i \in refused \/ (r.st = "err" /\ i = id)
    BY <1>2
  <2>3. id[1] = c /\ id[2] = w.layer
    BY <1>4
  <2> QED
    BY <2>1, <2>2, <2>3 DEF ProofInv, FalseTicketsStop, TrueTicketsPass
<1>12. FalseTicketsCaught'
  <2> SUFFICES ASSUME network.mode.verify, NEW s \in Servers, NEW i \in DOMAIN conns'[s],
                      i[1] \in BadClients, i[2] > 0
               PROVE  Layers = 2
    BY <1>3 DEF FalseTicketsCaught
  <2>1. DOMAIN conns = Servers
    BY DEF CircuitInv, ConnectionsAsBuilt
  <2>2. i \in DOMAIN conns[s] \/ (r.st = "ok" /\ i = id)
    BY <1>2, <1>4, <2>1 DEF Inserted
  <2>3. CASE i \in DOMAIN conns[s]
    BY <2>3 DEF ProofInv, FalseTicketsStop, FalseTicketsCaught
  <2>4. CASE r.st = "ok" /\ i = id
    <3>1. c \in BadClients /\ w.layer > 0
      BY <1>4, <2>4
    <3>2. ~Checked(w.layer)
      BY <1>6, <2>4, <3>1 DEF IsFalse
    <3>3. w.layer = Layers - 1 /\ Layers \in Nat /\ 1 \in LayerIds
      BY <1>4, <3>1, <3>2, CircuitAssumption DEF Checked, GetLastLayerIdx, LayerIds
    <3>4. ASSUME w.layer > 1 PROVE FALSE
      <4>1. Connected(c, 1)
        BY <1>4, <3>3, <3>4
      <4>2. PICK to \in Servers : <<c, 1>> \in DOMAIN conns[to]
        BY <1>4, <3>3, <4>1, Route DEF Connected
      <4>3. Layers = 2
        <5>1. <<c, 1>>[1] = c /\ <<c, 1>>[2] = 1
          OBVIOUS
        <5> QED
          BY <3>1, <4>2, <5>1 DEF ProofInv, FalseTicketsStop, FalseTicketsCaught
      <4> QED
        BY <3>3, <3>4, <4>3
    <3> QED
      BY <1>4, <3>1, <3>3, <3>4 DEF LayerIds
  <2> QED
    BY <2>2, <2>3, <2>4
<1>13. form' \in Forms
  BY <1>3, <1>5 DEF form
<1> QED
  BY <1>7, <1>9, <1>10, <1>11, <1>12, <1>13 DEF ProofInv, FalseTicketsStop

(* The proofs that are on their way are what their clients made them, no mix   *)
(* panics, and the mixes refuse the false tickets they check and no others,    *)
(* whatever the sizes, modes, clients and draws: with the scalars drawn as     *)
(* DrawsAssumption says (network.rs verify_setup_packet, decrypt_setup_layer). *)
THEOREM ProofInvariance == Spec => []ProofInv
<1>1. CircuitInv /\ ProofInv /\ [Next]_vars => ProofInv'
  <2> SUFFICES ASSUME CircuitInv, ProofInv, [Next]_vars PROVE ProofInv'
    OBVIOUS
  <2>1. ASSUME NEW c \in Clients, PushDataPacket(c) PROVE ProofInv'
    <3>1. /\ UNCHANGED <<network, oracle, conns, refused, panicked>>
          /\ SetupOnWay' = SetupOnWay
      BY <2>1 DEF PushDataPacket, SetupOnWay
    <3> QED
      BY <3>1, ProofInvSame
  <2>2. ASSUME NEW c \in Clients, NEW s \in Servers, GenerateClient(c, s) PROVE ProofInv'
    BY <2>2, ProofInvGenerate
  <2>3. ASSUME StartSetup PROVE ProofInv'
    <3>1. /\ UNCHANGED <<network, oracle, conns, refused, panicked>>
          /\ SetupOnWay' = SetupOnWay
      BY <2>3 DEF StartSetup, SetupOnWay
    <3> QED
      BY <3>1, ProofInvSame
  <2>4. ASSUME StartData PROVE ProofInv'
    <3>1. /\ UNCHANGED <<network, oracle, conns, refused, panicked>>
          /\ SetupOnWay' \subseteq SetupOnWay
      BY <2>4 DEF StartData, SetupOnWay
    <3> QED
      BY <3>1, ProofInvSame
  <2>5. ASSUME NEW w \in waiting, DecryptSetup(w) PROVE ProofInv'
    BY <2>5, ProofInvOpen
  <2>6. ASSUME NEW w \in waiting, DecryptData(w) PROVE ProofInv'
    <3>1. /\ UNCHANGED <<network, oracle, conns, refused, panicked>>
          /\ SetupOnWay' \subseteq SetupOnWay
      BY <2>6 DEF DecryptData, SetupOnWay
    <3> QED
      BY <3>1, ProofInvSame
  <2>7. CASE UNCHANGED vars
    <3>1. /\ UNCHANGED <<network, oracle, conns, refused, panicked>>
          /\ SetupOnWay' \subseteq SetupOnWay
      BY <2>7 DEF vars, SetupOnWay
    <3> QED
      BY <3>1, ProofInvSame
  <2> QED
    BY <2>1, <2>2, <2>3, <2>4, <2>5, <2>6, <2>7 DEF Next
<1> QED
  BY <1>1, ProofInvInit, CircuitInvariance, PTL DEF Spec

(* No packet makes a mix panic: every box opens where it arrives, every ticket *)
(* is read, and the assertion that both responses for e are equal never fires  *)
(* (decrypt_setup_layer, pok_ticket.rs verify).                                *)
THEOREM NobodyPanics == Spec => []NoPanic
<1>1. ProofInv => NoPanic
  BY DEF ProofInv
<1> QED
  BY <1>1, ProofInvariance, PTL

(* A setup layer with a false ticket is refused by every mix that checks it,   *)
(* because its proof is of another ticket and cannot be moved (TicketIsBound), *)
(* and no layer with a true ticket is refused (verify_setup_packet).           *)
THEOREM FalseTicketsRefused == Spec => []FalseTicketsStop
<1>1. ProofInv => FalseTicketsStop
  BY DEF ProofInv
<1> QED
  BY <1>1, ProofInvariance, PTL

(* In the end the data of exactly the clients that no mix refused came out,    *)
(* whatever the mode.                                                          *)
THEOREM DataDelivered == Spec => []DataFollowsSetup
BY DataUnlessPanic, NobodyPanics, PTL

(* In the end the data of every honest client came out, and in a network of    *)
(* more than two layers that verifies the proofs no other data did.            *)
THEOREM HonestDelivered ==
  Spec => [](phase = "data" /\ waiting = {} =>
               /\ \A c \in Clients \ BadClients : OutputOf(c) \in output
               /\ network.mode.verify /\ Layers > 2 =>
                    output = {OutputOf(c) : c \in Clients \ BadClients})
<1> DEFINE Done == phase = "data" /\ waiting = {} =>
               /\ \A c \in Clients \ BadClients : OutputOf(c) \in output
               /\ network.mode.verify /\ Layers > 2 =>
                    output = {OutputOf(c) : c \in Clients \ BadClients}
<1>1. CircuitInv /\ ProofInv /\ DataFollowsSetup => Done
  <2> SUFFICES ASSUME CircuitInv, ProofInv, DataFollowsSetup, phase = "data", waiting = {}
               PROVE  /\ \A c \in Clients \ BadClients : OutputOf(c) \in output
                      /\ network.mode.verify /\ Layers > 2 =>
                           output = {OutputOf(c) : c \in Clients \ BadClients}
    OBVIOUS
  <2>1. output = {OutputOf(c) : c \in {d \in Clients : \A id \in refused : id[1] # d}}
    BY DEF DataFollowsSetup
  <2>2. \A c \in Clients \ BadClients : \A id \in refused : id[1] # c
    BY DEF ProofInv, FalseTicketsStop, TrueTicketsPass
  <2>3. \A c \in Clients \ BadClients : OutputOf(c) \in output
    BY <2>1, <2>2
  <2>4. ASSUME network.mode.verify, Layers > 2
        PROVE  output = {OutputOf(c) : c \in Clients \ BadClients}
    <3>1. ASSUME NEW c \in BadClients PROVE \E id \in refused : id[1] = c
      <4>1. c \in DOMAIN clients
        BY <3>1, CircuitAssumption DEF CircuitInv, Phases
      <4>2. Refused(c) \/ Complete(c) \/ \E w \in SetupOnWay : SetupOwner(w) = c
        BY <4>1 DEF CircuitInv, SetupProgress, ProofInv, NoPanic
      <4>3. SetupOnWay = {}
        BY DEF SetupOnWay
      <4>4. ~Complete(c)
        <5> SUFFICES ASSUME Complete(c) PROVE FALSE
          OBVIOUS
        <5>1. 1 \in LayerIds
          BY <2>4, CircuitAssumption DEF LayerIds
        <5>2. PICK to \in Servers : <<c, 1>> \in DOMAIN conns[to]
          BY <4>1, <5>1, Route DEF Complete, Connected, CircuitInv
        <5>3. <<c, 1>>[1] = c /\ <<c, 1>>[2] = 1
          OBVIOUS
        <5>4. Layers = 2
          BY <2>4, <3>1, <5>2, <5>3 DEF ProofInv, FalseTicketsStop, FalseTicketsCaught
        <5> QED
          BY <2>4, <5>4
      <4> QED
        BY <4>2, <4>3, <4>4 DEF Refused
    <3>2. {d \in Clients : \A id \in refused : id[1] # d} = Clients \ BadClients
      BY <2>2, <3>1
    <3> QED
      BY <2>1, <3>2
  <2> QED
    BY <2>3, <2>4
<1> QED
  BY <1>1, CircuitInvariance, ProofInvariance, DataDelivered, PTL

(* The proof in every setup packet is read back as it was made, and no proper  *)
(* beginning of its bytes is read: no count in them lets the decoder stop      *)
(* early (pok_ticket.rs to_bytes, from_bytes).  With one layer there is none.  *)
THEOREM TicketProofsWhole == Layers > 1 => (Spec => []TicketProofBytes)
<1> SUFFICES ASSUME Layers > 1 PROVE Spec => []TicketProofBytes
  OBVIOUS
<1>1. CircuitInv /\ ProofInv => TicketProofBytes
  <2> SUFFICES ASSUME CircuitInv, ProofInv, NEW s \in Servers, NEW i \in DOMAIN setupPackets[s],
                      phase = "setup_info", NEW data, data = setupPackets[s][i][1].body.proof
               PROVE  /\ TicketPoKFromBytes(data, form).st = "ok"
                      /\ TicketPoKToBytes(TicketPoKFromBytes(data, form).val, form) = data
                      /\ \A n \in 0..(Len(data) - 1) :
                           TicketPoKFromBytes(SubSeq(data, 1, n), form).st # "ok"
    BY DEF TicketProofBytes
  <2>1. PICK w : w = [server |-> s, layer |-> 0, data |-> setupPackets[s][i]]
    OBVIOUS
  <2>2. w \in SetupOnWay /\ w.layer = 0 /\ w.data = setupPackets[s][i]
    BY <2>1 DEF SetupOnWay, Initial
  <2>3. SetupOwner(w) \in Clients
    BY <2>2 DEF CircuitInv, SetupProgress, SetupOf, AtLayer, ClientsAsBuilt
  <2>4. 0 # GetLastLayerIdx /\ 0 \in LayerIds /\ 1 \in 1..(Layers - 0) /\ 0 + 1 - 1 = 0
    BY CircuitAssumption DEF GetLastLayerIdx, LayerIds
  <2>5. Carries(data, SetupOwner(w), 0) /\ form \in Forms /\ StringsOnce(oracle)
    BY <2>2, <2>4 DEF ProofInv, ProofsOf
  <2>6. PICK p : TicketProof(p, Nat) /\ data = TicketPoKToBytes(p, form)
    BY <2>3, <2>4, <2>5, CarriedProof
  <2>7. TicketPoKFromBytes(data, form) = Ok(p)
    BY <2>5, <2>6, TicketProofReads, Nat \subseteq Nat
  <2>8. data \in Seq(Byte(Nat))
    BY <2>5, <2>6, TicketBytesTyped, Nat \subseteq Nat
  <2>9. ASSUME NEW n \in 0..(Len(data) - 1)
        PROVE  TicketPoKFromBytes(SubSeq(data, 1, n), form).st # "ok"
    <3>1. Len(data) \in Nat
      BY <2>8, LenProperties
    <3>2. n \in Nat /\ n < Len(data)
      BY <3>1
    <3> QED
      BY <2>5, <2>6, <3>2, TicketProofCut, Nat \subseteq Nat
  <2> QED
    BY <2>6, <2>7, <2>9 DEF Ok
<1> QED
  BY <1>1, CircuitInvariance, ProofInvariance, PTL

================================================================================
