----------------------------- MODULE Mixnet_proofs -----------------------------
(***************************************************************************)
(* Proofs about the packets, for any mixes, layers, rounds, clients and    *)
(* tickets: adding them leaves the rounds as they are, and with Verify no  *)
(* packet leaves the route of its client's own tickets.                    *)
(***************************************************************************)
EXTENDS Mixnet, MixRounds_proofs

--------------------------------------------------------------------------------
(***************************************************************************)
(* The rounds.                                                             *)
(***************************************************************************)

\* Every step of the mixnet is a step of the rounds.
LEMMA StepOfRounds == [NetNext]_<<vars, netVars>> => [Next]_vars
<1> SUFFICES ASSUME NetNext PROVE Next
  OBVIOUS
<1>1. ASSUME NEW c \in Calls, NetParseSetup(c) \/ NetParseAdd(c) PROVE Next
  BY <1>1 DEF NetParseSetup, NetParseAdd, Next, Handler
<1>2. ASSUME NEW c \in Calls, NetPanic(c) PROVE Next
  BY <1>2 DEF NetPanic, Next, Failure
<1>3. ASSUME NEW c \in Calls, NEW l \in 1 .. NumLayers - 1, NetSendLayer(c, l)
      PROVE  Next
  BY <1>3 DEF NetSendLayer, Next, Handler
<1>4. ASSUME NEW m \in Mixes, NetOutputLastLayer(m) \/ NetStartMixRound(m) PROVE Next
  BY <1>4 DEF NetOutputLastLayer, NetStartMixRound, Next, Get
<1>5. CASE NetOther
  BY <1>5 DEF NetOther, Next, Handler, Failure, Get
<1> QED
  BY <1>1, <1>2, <1>3, <1>4, <1>5 DEF NetNext

\* The mixnet with its packets keeps to the rounds: what is proved of Spec holds for it.
THEOREM RoundsOfMixnet == NetSpec => Spec
<1>1. NetInit => Init
  BY DEF NetInit
<1> QED
  BY <1>1, StepOfRounds, PTL DEF NetSpec, Spec

--------------------------------------------------------------------------------
(***************************************************************************)
(* Types.                                                                  *)
(***************************************************************************)

\* Every ticket, honest or false, names a mix.
LEMMA TicketsNameMixes ==
  ASSUME circuit \in [Clients -> [first : Mixes, ticket : [Layers -> Mixes]]],
         NEW k \in Clients, NEW i \in Layers
  PROVE  DestServer(k, i) \in Mixes
<1>1. \A j : FalseTicket(j) \in Mixes
  BY ConstantTypes, MixIdsAssumption DEF FalseTicket
<1>2. circuit[k].ticket[i] \in Mixes
  OBVIOUS
<1> QED
  BY <1>1, <1>2 DEF DestServer

\* What a mix has in its buffer are packets.
LEMMA StorePackets ==
  ASSUME NetTypeOK, NEW m \in Mixes, NEW l \in 1 .. NumLayers
  PROVE  store[m][l] \subseteq Packets
<1>1. store[m] \in [1 .. NumLayers -> SUBSET Packets]
  BY DEF NetTypeOK
<1> QED
  BY <1>1

\* What a mix forwards is what it has for the receiver.
LEMMA ForwardedStored ==
  ASSUME NEW c, NEW l, NEW n
  PROVE  Forwarded(c, l, n) \subseteq Outgoing(c.dst, l, n)
<1>1. VerifyOnOutput(c.dst, l, n) \subseteq Outgoing(c.dst, l, n)
  BY DEF VerifyOnOutput
<1> QED
  BY <1>1 DEF Forwarded

\* A setup or data round starts with packets.
LEMMA InitPacketsType ==
  ASSUME NEW m, NEW kind \in {"setup", "add"}
  PROVE  InitPackets(m, kind) \subseteq Packets
BY DEF InitPackets, Packets

--------------------------------------------------------------------------------
(***************************************************************************)
(* The invariant.                                                          *)
(***************************************************************************)

\* NetInv holds at first: no packet has left layer 0.
LEMMA NetInvInit == NetInit => NetInv
<1> SUFFICES ASSUME NetInit PROVE NetInv
  OBVIOUS
<1>1. circuit \in [Clients -> [first : Mixes, ticket : [Layers -> Mixes]]]
  BY CircuitsAssumption DEF NetInit
<1>2. NetTypeOK
  <2>1. cargo \in [Calls -> SUBSET Packets]
    BY InitPacketsType DEF NetInit
  <2>2. verification \in AllVerifications
    BY VerificationsAssumption DEF NetInit
  <2> QED
    BY <1>1, <2>1, <2>2, TicketsNameMixes DEF NetInit, NetTypeOK
<1>3. Verified
  <2>1. \A m \in Mixes : connections[m] = {} /\ \A l \in 1 .. NumLayers : store[m][l] = {}
    BY DEF NetInit
  <2>2. \A l \in 1 .. NumLayers - 1 : l \in 1 .. NumLayers
    BY ConstantTypes
  <2> QED
    BY <2>1, <2>2 DEF Verified
<1>4. HonestRoute
  BY DEF NetInit, HonestRoute
<1> QED
  BY <1>2, <1>3, <1>4 DEF NetInv

\* With valid proofs only, the ticket of a packet is its client's own.
LEMMA ValidTicket ==
  ASSUME NEW k, NEW i, ValidProof(k, i)
  PROVE  DestServer(k, i) = circuit[k].ticket[i]
BY DEF ValidProof, DestServer

\* A parsed setup request leaves only verified packets and connections.
LEMMA NetInvParseSetup ==
  ASSUME NetInv, NEW c \in Calls, NetParseSetup(c)
  PROVE  NetInv'
<1> DEFINE kept == DecryptSetup(c.layer, cargo[c])
           l == c.layer + 1
<1>1. c.dst \in Mixes /\ c.layer \in Layers /\ l \in 1 .. NumLayers
  BY CallFields, ConstantTypes DEF Layers
<1>2. NetTypeOK
  BY DEF NetInv
<1>3. kept \subseteq Packets
  BY <1>2 DEF DecryptSetup, NetTypeOK
<1>4. /\ connections' = [connections EXCEPT ![c.dst] =
                           @ \union {[client |-> p.client, layer |-> c.layer] : p \in kept}]
      /\ store' = [store EXCEPT ![c.dst][l] = @ \union kept]
      /\ cargo' = [cargo EXCEPT ![c] = {}]
      /\ UNCHANGED <<verification, circuit, output>>
  BY DEF NetParseSetup
<1> HIDE DEF kept, l
<1>5. NetTypeOK'
  <2>1. {[client |-> p.client, layer |-> c.layer] : p \in kept}
          \subseteq [client : Clients, layer : Layers]
    BY <1>1, <1>3 DEF Packets
  <2>2. connections' \in [Mixes -> SUBSET [client : Clients, layer : Layers]]
    BY <1>1, <1>2, <1>4, <2>1 DEF NetTypeOK
  <2>3. store' \in [Mixes -> [1 .. NumLayers -> SUBSET Packets]]
    BY <1>1, <1>2, <1>3, <1>4 DEF NetTypeOK
  <2>4. cargo' \in [Calls -> SUBSET Packets]
    BY <1>2, <1>4 DEF NetTypeOK
  <2> QED
    BY <1>2, <1>4, <2>2, <2>3, <2>4 DEF NetTypeOK, DestServer
<1>6. Verified'
  <2> SUFFICES ASSUME verification = "Verify", NEW m \in Mixes
               PROVE  /\ \A i \in 1 .. NumLayers - 1 : \A p \in store'[m][i] :
                           ValidProof(p.client, i - 1)
                      /\ \A x \in connections'[m] :
                           x.layer < NumLayers - 1 => ValidProof(x.client, x.layer)
    BY <1>4 DEF Verified, ValidProof
  <2>1. c.layer # NumLayers - 1 => \A p \in kept : ValidProof(p.client, c.layer)
    BY DEF kept, DecryptSetup
  <2>2. ASSUME NEW i \in 1 .. NumLayers - 1, NEW p \in store'[m][i]
        PROVE  ValidProof(p.client, i - 1)
    <3>1. i \in 1 .. NumLayers
      BY ConstantTypes
    <3>2. p \in store[m][i] \/ (i = l /\ p \in kept)
      BY <1>1, <1>2, <1>4, <3>1 DEF NetTypeOK
    <3>3. CASE p \in store[m][i]
      BY <3>3 DEF NetInv, Verified
    <3>4. CASE i = l /\ p \in kept
      BY <3>4, <2>1, CallFields, ConstantTypes DEF l
    <3> QED
      BY <3>2, <3>3, <3>4
  <2>3. ASSUME NEW x \in connections'[m], x.layer < NumLayers - 1
        PROVE  ValidProof(x.client, x.layer)
    <3>1. \/ x \in connections[m]
          \/ \E p \in kept : x = [client |-> p.client, layer |-> c.layer]
      BY <1>1, <1>2, <1>4 DEF NetTypeOK
    <3>2. CASE x \in connections[m]
      BY <3>2, <2>3 DEF NetInv, Verified
    <3>3. CASE \E p \in kept : x = [client |-> p.client, layer |-> c.layer]
      BY <3>3, <2>1, <2>3, CallFields, ConstantTypes
    <3> QED
      BY <3>1, <3>2, <3>3
  <2> QED
    BY <2>2, <2>3
<1>7. HonestRoute'
  BY <1>2, <1>4 DEF NetInv, HonestRoute, NetTypeOK
<1> QED
  BY <1>5, <1>6, <1>7 DEF NetInv

\* A parsed data request leaves only packets that follow a verified connection.
LEMMA NetInvParseAdd ==
  ASSUME NetInv, NEW c \in Calls, NetParseAdd(c)
  PROVE  NetInv'
<1> DEFINE kept == DecryptData(c.dst, c.layer, cargo[c])
           l == c.layer + 1
<1>1. c.dst \in Mixes /\ l \in 1 .. NumLayers
  BY CallFields, ConstantTypes
<1>2. NetTypeOK
  BY DEF NetInv
<1>3. kept \subseteq Packets
  BY <1>2 DEF DecryptData, NetTypeOK
<1>4. /\ store' = [store EXCEPT ![c.dst][l] = @ \union kept]
      /\ cargo' = [cargo EXCEPT ![c] = {}]
      /\ UNCHANGED <<verification, circuit, connections, output>>
  BY DEF NetParseAdd
<1> HIDE DEF kept, l
<1>5. NetTypeOK'
  <2>1. store' \in [Mixes -> [1 .. NumLayers -> SUBSET Packets]]
    BY <1>1, <1>2, <1>3, <1>4 DEF NetTypeOK
  <2>2. cargo' \in [Calls -> SUBSET Packets]
    BY <1>2, <1>4 DEF NetTypeOK
  <2> QED
    BY <1>2, <1>4, <2>1, <2>2 DEF NetTypeOK, DestServer
<1>6. Verified'
  <2> SUFFICES ASSUME verification = "Verify", NEW m \in Mixes,
                      NEW i \in 1 .. NumLayers - 1, NEW p \in store'[m][i]
               PROVE  ValidProof(p.client, i - 1)
    BY <1>4 DEF NetInv, Verified, ValidProof
  <2>1. i \in 1 .. NumLayers
    BY ConstantTypes
  <2>2. p \in store[m][i] \/ (m = c.dst /\ i = l /\ p \in kept)
    BY <1>1, <1>2, <1>4, <2>1 DEF NetTypeOK
  <2>3. CASE p \in store[m][i]
    BY <2>3 DEF NetInv, Verified
  <2>4. CASE m = c.dst /\ i = l /\ p \in kept
    <3>1. [client |-> p.client, layer |-> c.layer] \in connections[m]
      BY <2>4 DEF kept, DecryptData
    <3>2. c.layer < NumLayers - 1 /\ c.layer = i - 1
      BY <2>4, CallFields, ConstantTypes DEF l
    <3> QED
      BY <3>1, <3>2 DEF NetInv, Verified
  <2> QED
    BY <2>2, <2>3, <2>4
<1>7. HonestRoute'
  BY <1>2, <1>4 DEF NetInv, HonestRoute, NetTypeOK
<1> QED
  BY <1>5, <1>6, <1>7 DEF NetInv

\* A layer is sent to the servers that its tickets name.
LEMMA NetInvSendLayer ==
  ASSUME NetInv, NEW c \in Calls, NEW l \in 1 .. NumLayers - 1, NetSendLayer(c, l)
  PROVE  NetInv'
<1> DEFINE m == c.dst
           batch == Batch(m, l, sent[m][l])
<1>1. m \in Mixes /\ l \in 1 .. NumLayers
  BY CallFields, ConstantTypes
<1>2. NetTypeOK
  BY DEF NetInv
<1>3. /\ cargo' = [x \in Calls |-> IF x \in batch THEN Forwarded(c, l, x.dst) ELSE cargo[x]]
      /\ store' = [store EXCEPT ![m][l] = {}]
      /\ UNCHANGED <<verification, circuit, connections, output>>
  BY DEF NetSendLayer
<1>4. \A n : Forwarded(c, l, n) \subseteq Outgoing(m, l, n)
  BY ForwardedStored
<1>5. \A x \in batch : x.layer = l
  BY DEF Batch
<1> HIDE DEF m, batch
<1>6. NetTypeOK'
  <2>1. \A n : Forwarded(c, l, n) \subseteq Packets
    BY <1>1, <1>2, <1>4, StorePackets DEF Outgoing
  <2>2. cargo' \in [Calls -> SUBSET Packets]
    BY <1>2, <1>3, <2>1 DEF NetTypeOK
  <2>3. store' \in [Mixes -> [1 .. NumLayers -> SUBSET Packets]]
    BY <1>1, <1>2, <1>3 DEF NetTypeOK
  <2> QED
    BY <1>2, <1>3, <2>2, <2>3 DEF NetTypeOK, DestServer
<1>7. Verified'
  <2>1. \A n \in Mixes : \A i \in 1 .. NumLayers - 1 : store'[n][i] \subseteq store[n][i]
    BY <1>1, <1>2, <1>3, ConstantTypes DEF NetTypeOK
  <2> QED
    BY <1>3, <2>1 DEF NetInv, Verified, ValidProof
<1>8. HonestRoute'
  <2> SUFFICES ASSUME verification = "Verify", NEW x \in Calls, NEW p \in cargo'[x],
                      x.layer > 0
               PROVE  x.dst = circuit[p.client].ticket[x.layer - 1]
    BY <1>3 DEF HonestRoute
  <2>1. CASE x \in batch
    <3>1. p \in store[m][l] /\ DestServer(p.client, l - 1) = x.dst
      BY <1>3, <1>4, <2>1 DEF Outgoing
    <3>2. ValidProof(p.client, l - 1)
      BY <1>1, <3>1 DEF NetInv, Verified
    <3> QED
      BY <1>5, <2>1, <3>1, <3>2, ValidTicket
  <2>2. CASE x \notin batch
    BY <1>3, <2>2 DEF NetInv, HonestRoute
  <2> QED
    BY <2>1, <2>2
<1> QED
  BY <1>6, <1>7, <1>8 DEF NetInv

\* get() takes a layer out.
LEMMA NetInvOutput ==
  ASSUME NetInv, NEW m \in Mixes, NetOutputLastLayer(m)
  PROVE  NetInv'
<1>1. PICK l \in 1 .. NumLayers : /\ output' = [output EXCEPT ![m] = store[m][l]]
                                  /\ store' = [store EXCEPT ![m][l] = {}]
  BY DEF NetOutputLastLayer
<1>2. UNCHANGED <<verification, circuit, connections, cargo>>
  BY DEF NetOutputLastLayer
<1>3. NetTypeOK
  BY DEF NetInv
<1>4. NetTypeOK'
  <2>1. output' \in [Mixes -> SUBSET Packets]
    BY <1>1, <1>3, StorePackets DEF NetTypeOK
  <2>2. store' \in [Mixes -> [1 .. NumLayers -> SUBSET Packets]]
    BY <1>1, <1>3 DEF NetTypeOK
  <2> QED
    BY <1>2, <1>3, <2>1, <2>2 DEF NetTypeOK, DestServer
<1>5. Verified'
  <2>1. \A n \in Mixes : \A i \in 1 .. NumLayers - 1 : store'[n][i] \subseteq store[n][i]
    BY <1>1, <1>3, ConstantTypes DEF NetTypeOK
  <2> QED
    BY <1>2, <2>1 DEF NetInv, Verified, ValidProof
<1>6. HonestRoute'
  BY <1>2 DEF NetInv, HonestRoute
<1> QED
  BY <1>4, <1>5, <1>6 DEF NetInv

\* A round starts with packets in layer 0.
LEMMA NetInvStart ==
  ASSUME NetInv, TypeOK', NEW m \in Mixes, NetStartMixRound(m)
  PROVE  NetInv'
<1> DEFINE s == StartCall(m)
<1>1. /\ cargo' = [cargo EXCEPT ![s] = InitPackets(m, method'[s])]
      /\ UNCHANGED <<verification, circuit, connections, store, output>>
  BY DEF NetStartMixRound
<1>2. s.layer = 0
  BY DEF StartCall
<1>3. NetTypeOK
  BY DEF NetInv
<1> HIDE DEF s
<1>4. NetTypeOK'
  <2>1. s \in Calls => InitPackets(m, method'[s]) \subseteq Packets
    BY InitPacketsType DEF TypeOK
  <2>2. cargo' \in [Calls -> SUBSET Packets]
    BY <1>1, <1>3, <2>1 DEF NetTypeOK
  <2> QED
    BY <1>1, <1>3, <2>2 DEF NetTypeOK, DestServer, InitPackets
<1>5. Verified'
  BY <1>1 DEF NetInv, Verified, ValidProof
<1>6. HonestRoute'
  BY <1>1, <1>2, <1>3 DEF NetInv, HonestRoute, NetTypeOK
<1> QED
  BY <1>4, <1>5, <1>6 DEF NetInv

\* No step of the mixnet leaves NetInv.
LEMMA NetInvStep == NetInv /\ TypeOK' /\ [NetNext]_<<vars, netVars>> => NetInv'
<1> SUFFICES ASSUME NetInv, TypeOK', [NetNext]_<<vars, netVars>> PROVE NetInv'
  OBVIOUS
<1>1. ASSUME UNCHANGED netVars PROVE NetInv'
  BY <1>1 DEF netVars, NetInv, NetTypeOK, Verified, HonestRoute, DestServer, ValidProof
<1>2. ASSUME NEW c \in Calls, NetPanic(c) PROVE NetInv'
  BY <1>1, <1>2 DEF NetPanic
<1>3. CASE NetOther
  BY <1>1, <1>3 DEF NetOther
<1> QED
  BY <1>1, <1>2, <1>3, NetInvParseSetup, NetInvParseAdd, NetInvSendLayer, NetInvOutput,
     NetInvStart DEF NetNext

\* NetInv is an invariant of the mixnet.
THEOREM NetInvariance == NetSpec => []NetInv
<1>1. NetSpec => []TypeOK
  BY RoundsOfMixnet, TypeCorrect, PTL
<1> QED
  BY <1>1, NetInvInit, NetInvStep, PTL DEF NetSpec

\* Packets, connections and tickets have their types, for any clients and any tickets.
THEOREM NetTypeCorrect == NetSpec => []NetTypeOK
BY NetInvariance, PTL DEF NetInv

\* With Verify no packet, of setup or of data, is sent to a server that the honest
\* ticket of its client does not name, whatever tickets the bad clients make up.
THEOREM VerifiedRoute == NetSpec => []HonestRoute
BY NetInvariance, PTL DEF NetInv

================================================================================
