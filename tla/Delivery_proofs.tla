---------------------------- MODULE Delivery_proofs ----------------------------
(***************************************************************************)
(* Proofs about where the packets are: on their route and in one place,    *)
(* for any mixes, layers, rounds, clients, tickets and verification; and,  *)
(* with two mixes and at least three layers, that none is missing and that *)
(* get() outputs what it should.                                           *)
(***************************************************************************)
EXTENDS Mixnet_proofs, Output_proofs

--------------------------------------------------------------------------------
(***************************************************************************)
(* Routes.                                                                 *)
(***************************************************************************)

\* The servers of a circuit are mixes.
LEMMA RouteMixes ==
  ASSUME NetTypeOK, NEW k \in Clients, NEW l \in Layers
  PROVE  Server(k, l) \in Mixes /\ Caller(k, l) \in Mixes
<1>1. circuit[k].first \in Mixes
  BY DEF NetTypeOK
<1>2. \A i \in Layers : Server(k, i) \in Mixes
  <2> SUFFICES ASSUME NEW i \in Layers, i # 0 PROVE DestServer(k, i - 1) \in Mixes
    BY <1>1 DEF Server
  <2>1. i - 1 \in Layers
    BY ConstantTypes DEF Layers
  <2> QED
    BY <2>1 DEF NetTypeOK
<1>3. l # 0 => l - 1 \in Layers
  BY ConstantTypes DEF Layers
<1> QED
  BY <1>1, <1>2, <1>3 DEF Caller

\* The routes, and what verification lets through, are the same in every state of a run.
LEMMA SameRoutes ==
  ASSUME UNCHANGED <<verification, circuit>>
  PROVE  /\ \A p, c : (Due(p, c)' <=> Due(p, c)) /\ (Kept(p, c)' <=> Kept(p, c))
         /\ \A k, l : /\ Server(k, l)' = Server(k, l) /\ Caller(k, l)' = Caller(k, l)
                      /\ Passes(k, l)' = Passes(k, l)
         /\ \A k : LastServer(k)' = LastServer(k)
<1>1. \A k, i : DestServer(k, i)' = DestServer(k, i)
  BY DEF DestServer
<1>2. \A k, l : Server(k, l)' = Server(k, l) /\ Caller(k, l)' = Caller(k, l)
  BY <1>1 DEF Server, Caller
<1>3. \A k, l : Passes(k, l)' = Passes(k, l)
  BY DEF Passes, ValidProof
<1> QED
  BY <1>2, <1>3 DEF Due, Kept, OnRoute, LastServer

\* What is in the buffer of a mix are calls to it, from the layer below.
LEMMA BufferedCalls ==
  ASSUME OutputInv, NEW m \in Mixes, NEW l \in 1 .. NumLayers, NEW c \in buffer[m][l]
  PROVE  /\ c \in Calls /\ c.dst = m /\ c.layer = l - 1
         /\ pc[c] \notin {"unsent", "sent"}
         /\ l # NumLayers => c.gen = sent[m][l]
<1>1. c \in Calls
  BY BufferCalls DEF OutputInv, IInv
<1>2. CASE l = NumLayers
  BY <1>1, <1>2 DEF OutputInv, LastLayerParsed
<1>3. CASE l # NumLayers
  <2>1. l \in 1 .. NumLayers - 1
    BY <1>3, ConstantTypes
  <2> QED
    BY <1>1, <1>3, <2>1 DEF OutputInv, IInv, LayerPure, BufferParsed
<1> QED
  BY <1>2, <1>3

\* The steps that leave the packets alone leave the buffers alone, and the calls that they
\* let go on or fail.
LEMMA QuietStep ==
  ASSUME IInv,
         NetOther \/ (\E c \in Calls : NetPanic(c)) \/ UNCHANGED <<vars, netVars>>
  PROVE  /\ UNCHANGED <<buffer, sent, netVars>>
         /\ \A x \in Calls : \/ pc'[x] = pc[x]
                             \/ pc[x] \in {"parsed", "waiting"} /\ pc'[x] = "done"
                             \/ pc'[x] = "failed"
         /\ \A m \in Mixes : getpc'[m] \in {"measure", "replied"} =>
              getpc[m] \in {"measure", "replied"} /\ round'[m] = round[m]
<1> USE DEF IInv, TypeOK
<1>1. CASE UNCHANGED <<vars, netVars>>
  BY <1>1 DEF vars
<1>2. ASSUME NEW c \in Calls, NothingToSend(c) \/ Finish(c)
      PROVE  /\ UNCHANGED <<buffer, sent, getpc, round>>
             /\ \A x \in Calls : \/ pc'[x] = pc[x]
                                 \/ pc[x] \in {"parsed", "waiting"} /\ pc'[x] = "done"
  BY <1>2 DEF NothingToSend, Finish, getVars
<1>3. ASSUME NEW c \in Calls, Failure(c)
      PROVE  /\ UNCHANGED <<buffer, sent, getpc, round>>
             /\ \A x \in Calls : pc'[x] = pc[x] \/ pc'[x] = "failed"
  BY <1>3 DEF Failure, Panic, Break, Cascade, Fail, getVars
<1>4. ASSUME NEW m \in Mixes,
             GetRequest(m) \/ Acquire(m) \/ NextRound(m) \/ Reply(m) \/ GetPanic(m)
      PROVE  /\ UNCHANGED <<buffer, sent, pc>>
             /\ \A n \in Mixes : getpc'[n] \in {"measure", "replied"} =>
                  getpc[n] \in {"measure", "replied"} /\ round'[n] = round[n]
  BY <1>4 DEF GetRequest, Acquire, NextRound, Reply, GetPanic, handlerVars
<1>5. CASE \E c \in Calls : NetPanic(c)
  BY <1>3, <1>5 DEF NetPanic, Failure
<1>6. CASE NetOther
  <2>1. CASE Idle
    BY <1>6, <2>1 DEF Idle, vars, NetOther
  <2>2. CASE \E c \in Calls : NothingToSend(c) \/ Finish(c) \/ Break(c) \/ Cascade(c)
    BY <1>2, <1>3, <1>6, <2>2 DEF NetOther, Failure
  <2>3. CASE \E m \in Mixes : \/ GetRequest(m) \/ Acquire(m) \/ NextRound(m)
                              \/ Reply(m) \/ GetPanic(m)
    BY <1>4, <1>6, <2>3 DEF NetOther
  <2> QED
    BY <1>6, <2>1, <2>2, <2>3 DEF NetOther
<1> QED
  BY <1>1, <1>5, <1>6

--------------------------------------------------------------------------------
(***************************************************************************)
(* Packets stay on their route, and wait for their call to be parsed.      *)
(***************************************************************************)

\* In the first state only the own setup packets are on their way.
LEMMA RouteInvInit == NetInit => RouteInv
<1> SUFFICES ASSUME NetInit PROVE RouteInv
  OBVIOUS
<1>1. Init
  BY DEF NetInit
<1>2. OutputInv /\ NetInv
  BY <1>1, OutputInvInit, NetInvInit
<1>3. SetupNeverAdded
  BY <1>1 DEF Init, SetupNeverAdded
<1>4. /\ \A m \in Mixes : /\ connections[m] = {} /\ output[m] = {}
                          /\ \A l \in 1 .. NumLayers : store[m][l] = {}
  BY DEF NetInit
<1>5. \A c \in Calls : cargo[c] # {} =>
        c.layer = 0 /\ c.gen = 0 /\ cargo[c] = InitPackets(c.dst, "setup")
  BY DEF NetInit
<1>6. PacketsOnRoute
  <2> SUFFICES ASSUME NEW c \in Calls, NEW p \in cargo[c] PROVE Due(p, c)
    BY <1>4 DEF PacketsOnRoute
  <2>1. c.layer = 0 /\ c.gen = 0 /\ p \in InitPackets(c.dst, "setup") /\ c.dst = c.src
    BY <1>5, CallFields
  <2>2. p \in Packets /\ p.kind = "setup" /\ circuit[p.client].first = c.dst
    BY <2>1, InitPacketsType DEF InitPackets
  <2>3. Kind(c.gen) = "setup"
    BY <2>1, RoundsAssumption DEF Kind
  <2>4. Passes(p.client, c.layer)
    BY <2>1 DEF Passes
  <2> QED
    BY <2>1, <2>2, <2>3, <2>4 DEF Due, OnRoute, Server, Caller
<1>7. CargoWaits
  <2> SUFFICES ASSUME NEW c \in Calls, cargo[c] # {}
               PROVE  /\ pc[c] \in {"sent", "failed"}
                      /\ c \notin buffer[c.dst][c.layer + 1]
                      /\ c.layer + 1 < NumLayers => c.gen >= sent[c.dst][c.layer + 1]
    BY DEF CargoWaits
  <2>1. c.layer = 0 /\ c.gen = 0 /\ c.dst \in Mixes
    BY <1>5, CallFields
  <2> QED
    BY <1>1, <2>1, ConstantTypes DEF Init
<1> QED
  BY <1>2, <1>3, <1>6, <1>7 DEF RouteInv

\* A step that adds call c to the buffer, with packets that it keeps.
LEMMA RouteParsed ==
  ASSUME RouteInv, NEW c \in Calls, ParseInput(c), NEW kept, \A p \in kept : Kept(p, c),
         store' = [store EXCEPT ![c.dst][c.layer + 1] = @ \union kept],
         cargo' = [cargo EXCEPT ![c] = {}],
         UNCHANGED <<verification, circuit, output>>,
         \A m \in Mixes : \A x \in connections'[m] :
           x \in connections[m]
             \/ (\E p \in kept : x = [client |-> p.client, layer |-> c.layer])
  PROVE  PacketsOnRoute' /\ CargoWaits'
<1> DEFINE l == c.layer + 1
<1>1. c.dst \in Mixes /\ c.layer \in 0 .. NumLayers - 1 /\ l \in 1 .. NumLayers
  BY CallFields, ConstantTypes
<1>2. IInv /\ NetTypeOK /\ PacketsOnRoute /\ CargoWaits /\ TypeOK
  BY DEF RouteInv, OutputInv, IInv, NetInv
<1>3. /\ \A m \in Mixes : \A i \in 1 .. NumLayers :
           buffer'[m][i] = IF m = c.dst /\ i = l THEN buffer[m][i] \union {c} ELSE buffer[m][i]
      /\ \A x \in Calls : pc'[x] = IF x = c THEN "parsed" ELSE pc[x]
      /\ sent' = sent
  BY <1>1, <1>2 DEF ParseInput, TypeOK
<1>4. /\ \A m \in Mixes : \A i \in 1 .. NumLayers :
           store'[m][i] = IF m = c.dst /\ i = l THEN store[m][i] \union kept ELSE store[m][i]
      /\ \A x \in Calls : cargo'[x] = IF x = c THEN {} ELSE cargo[x]
  BY <1>1, <1>2 DEF NetTypeOK
<1>5. \A p, x : (Due(p, x)' <=> Due(p, x)) /\ (Kept(p, x)' <=> Kept(p, x))
  BY SameRoutes
<1>6. \A k, i : Passes(k, i)' = Passes(k, i) /\ LastServer(k)' = LastServer(k)
  BY SameRoutes
<1>7. PacketsOnRoute'
  <2>1. \A x \in Calls : \A p \in cargo'[x] : Due(p, x)'
    BY <1>2, <1>4, <1>5 DEF PacketsOnRoute
  <2>2. ASSUME NEW m \in Mixes, NEW i \in 1 .. NumLayers, NEW p \in store'[m][i]
        PROVE  \E x \in buffer'[m][i] : Kept(p, x)'
    <3>1. CASE p \in store[m][i]
      <4>1. PICK x \in buffer[m][i] : Kept(p, x)
        BY <1>2, <3>1 DEF PacketsOnRoute
      <4> QED
        BY <1>3, <1>5, <4>1
    <3>2. CASE p \notin store[m][i]
      <4>1. m = c.dst /\ i = l /\ p \in kept
        BY <1>4, <3>2
      <4>2. c \in buffer'[m][i]
        BY <1>1, <1>3, <4>1
      <4> QED
        BY <1>5, <4>1, <4>2
    <3> QED
      BY <3>1, <3>2
  <2>3. ASSUME NEW m \in Mixes, NEW x \in connections'[m]
        PROVE  Passes(x.client, x.layer + 1)'
    <3>1. CASE x \in connections[m]
      BY <1>2, <1>6, <3>1 DEF PacketsOnRoute
    <3>2. ASSUME NEW p \in kept, x = [client |-> p.client, layer |-> c.layer]
          PROVE  Passes(x.client, x.layer + 1)'
      <4>1. Passes(p.client, c.layer + 1)
        BY DEF Kept
      <4> QED
        BY <1>6, <3>2, <4>1
    <3> QED
      BY <3>1, <3>2
  <2> QED
    BY <1>2, <1>6, <2>1, <2>2, <2>3 DEF PacketsOnRoute
<1>8. CargoWaits'
  <2> SUFFICES ASSUME NEW x \in Calls, cargo'[x] # {}
               PROVE  /\ pc'[x] \in {"sent", "failed"}
                      /\ x \notin buffer'[x.dst][x.layer + 1]
                      /\ x.layer + 1 < NumLayers => x.gen >= sent'[x.dst][x.layer + 1]
    BY DEF CargoWaits
  <2>1. x # c /\ cargo[x] # {}
    BY <1>4
  <2>2. x.dst \in Mixes /\ x.layer + 1 \in 1 .. NumLayers
    BY CallFields, ConstantTypes
  <2>3. buffer'[x.dst][x.layer + 1] \subseteq buffer[x.dst][x.layer + 1] \union {c}
    BY <1>3, <2>2
  <2>4. pc'[x] = pc[x] /\ sent' = sent
    BY <1>3, <2>1
  <2> QED
    BY <1>2, <2>1, <2>3, <2>4 DEF CargoWaits
<1> QED
  BY <1>7, <1>8

\* A setup request leaves what it verified, a data request what has a connection.
LEMMA RouteParseSetup ==
  ASSUME RouteInv, NEW c \in Calls, NetParseSetup(c)
  PROVE  PacketsOnRoute' /\ CargoWaits'
<1> DEFINE kept == DecryptSetup(c.layer, cargo[c])
<1>1. NetTypeOK /\ PacketsOnRoute /\ c.layer \in 0 .. NumLayers - 1 /\ c.dst \in Mixes
  BY CallFields DEF RouteInv, NetInv
<1>2. \A p \in kept : Kept(p, c)
  <2> SUFFICES ASSUME NEW p \in kept PROVE Kept(p, c)
    OBVIOUS
  <2>1. Due(p, c) /\ (verification = "Verify" /\ c.layer # NumLayers - 1
                           => ValidProof(p.client, c.layer))
    BY <1>1 DEF DecryptSetup, PacketsOnRoute
  <2>2. \A i \in 0 .. (c.layer + 1) - 1 : i \in 0 .. c.layer - 1 \/ i = c.layer
    BY <1>1, ConstantTypes
  <2>3. verification = "Verify" =>
          \A i \in 0 .. c.layer - 1 : i # NumLayers - 1 => ValidProof(p.client, i)
    BY <2>1 DEF Due, Passes
  <2>4. Passes(p.client, c.layer + 1)
    BY <2>1, <2>2, <2>3 DEF Passes
  <2> QED
    BY <2>1, <2>4 DEF Due, Kept
<1>3. /\ ParseInput(c)
      /\ connections' = [connections EXCEPT ![c.dst] =
                           @ \union {[client |-> p.client, layer |-> c.layer] : p \in kept}]
      /\ store' = [store EXCEPT ![c.dst][c.layer + 1] = @ \union kept]
      /\ cargo' = [cargo EXCEPT ![c] = {}]
      /\ UNCHANGED <<verification, circuit, output>>
  BY DEF NetParseSetup
<1> HIDE DEF kept
<1>4. \A m \in Mixes : \A x \in connections'[m] :
        x \in connections[m] \/ (\E p \in kept : x = [client |-> p.client, layer |-> c.layer])
  BY <1>1, <1>3 DEF NetTypeOK
<1> QED
  BY <1>2, <1>3, <1>4, RouteParsed

LEMMA RouteParseAdd ==
  ASSUME RouteInv, NEW c \in Calls, NetParseAdd(c)
  PROVE  PacketsOnRoute' /\ CargoWaits'
<1> DEFINE kept == DecryptData(c.dst, c.layer, cargo[c])
<1>1. PacketsOnRoute /\ c.dst \in Mixes
  BY CallFields DEF RouteInv
<1>2. \A p \in kept : Kept(p, c)
  <2> SUFFICES ASSUME NEW p \in kept PROVE Kept(p, c)
    OBVIOUS
  <2>1. Due(p, c) /\ [client |-> p.client, layer |-> c.layer] \in connections[c.dst]
    BY <1>1 DEF DecryptData, PacketsOnRoute
  <2>2. Passes(p.client, c.layer + 1)
    BY <1>1, <2>1 DEF PacketsOnRoute
  <2> QED
    BY <2>1, <2>2 DEF Due, Kept
<1>3. /\ ParseInput(c)
      /\ store' = [store EXCEPT ![c.dst][c.layer + 1] = @ \union kept]
      /\ cargo' = [cargo EXCEPT ![c] = {}]
      /\ UNCHANGED <<verification, circuit, connections, output>>
  BY DEF NetParseAdd
<1> HIDE DEF kept
<1> QED
  BY <1>2, <1>3, RouteParsed

\* A layer is sent to the next servers of its packets.
LEMMA RouteSendLayer ==
  ASSUME RouteInv, NEW c \in Calls, NEW l \in 1 .. NumLayers - 1, NetSendLayer(c, l)
  PROVE  PacketsOnRoute' /\ CargoWaits'
<1> DEFINE m == c.dst
           g == sent[m][l]
           batch == Batch(m, l, g)
<1>1. /\ m \in Mixes /\ l \in 1 .. NumLayers /\ l \in 0 .. NumLayers - 1
      /\ l \in Nat /\ l # 0
  BY CallFields, ConstantTypes
<1>2. /\ OutputInv /\ IInv /\ TypeOK /\ NetTypeOK /\ PacketsOnRoute /\ CargoWaits
      /\ SendLayer(c, l)
  BY DEF RouteInv, OutputInv, IInv, NetInv, NetSendLayer
<1>3. /\ \A x \in Calls : pc'[x] = IF x \in batch THEN "sent"
                                   ELSE IF x = c THEN "waiting" ELSE pc[x]
      /\ pc[c] = "parsed" /\ IsMiddleLayer(m, l)
      /\ \A n \in Mixes : \A i \in 1 .. NumLayers :
           buffer'[n][i] = IF n = m /\ i = l THEN {} ELSE buffer[n][i]
      /\ \A n \in Mixes : \A i \in 0 .. NumLayers - 1 :
           sent'[n][i] = IF n = m /\ i = l THEN g + 1 ELSE sent[n][i]
  BY <1>1, <1>2 DEF SendLayer, TypeOK
<1>4. /\ \A x \in Calls :
           cargo'[x] = IF x \in batch THEN Forwarded(c, l, x.dst) ELSE cargo[x]
      /\ \A n \in Mixes : \A i \in 1 .. NumLayers :
           store'[n][i] = IF n = m /\ i = l THEN {} ELSE store[n][i]
      /\ UNCHANGED <<verification, circuit, connections, output>>
  BY <1>1, <1>2 DEF NetSendLayer, NetTypeOK
<1>5. \A p, x : (Due(p, x)' <=> Due(p, x)) /\ (Kept(p, x)' <=> Kept(p, x))
  BY <1>4, SameRoutes
<1>6. \A k, i : Passes(k, i)' = Passes(k, i) /\ LastServer(k)' = LastServer(k)
  BY <1>4, SameRoutes
<1>7. g \in Rounds /\ g \in Nat /\ batch \subseteq Calls /\ \A x \in batch : pc[x] = "unsent"
  BY <1>2, BatchUnsent, ConstantTypes DEF Rounds
<1>8. \A x \in batch : x.src = m /\ x.layer = l /\ x.gen = g
  BY DEF Batch
<1> HIDE DEF m, g, batch
<1>9. PacketsOnRoute'
  <2>1. ASSUME NEW x \in batch, NEW p \in Forwarded(c, l, x.dst) PROVE Due(p, x)
    <3>1. p \in store[m][l] /\ DestServer(p.client, l - 1) = x.dst
      BY ForwardedStored DEF Outgoing, m
    <3>2. PICK b \in buffer[m][l] : Kept(p, b)
      BY <1>1, <1>2, <3>1 DEF PacketsOnRoute
    <3>3. b.dst = m /\ b.layer = l - 1 /\ b.gen = g
      BY <1>1, <1>2, BufferedCalls, ConstantTypes DEF g
    <3>4. /\ p.kind = Kind(g) /\ m = Server(p.client, l - 1)
          /\ Passes(p.client, (l - 1) + 1)
      BY <3>2, <3>3 DEF Kept, OnRoute
    <3>5. (l - 1) + 1 = l
      BY <1>1
    <3>6. x.dst = Server(p.client, l) /\ m = Caller(p.client, l)
      BY <1>1, <3>1, <3>4 DEF Server, Caller
    <3> QED
      BY <1>8, <3>4, <3>5, <3>6 DEF Due, OnRoute
  <2>2. \A x \in Calls : \A p \in cargo'[x] : Due(p, x)'
    BY <1>2, <1>4, <1>5, <2>1 DEF PacketsOnRoute
  <2>3. \A n \in Mixes : \A i \in 1 .. NumLayers : \A p \in store'[n][i] :
          \E x \in buffer'[n][i] : Kept(p, x)'
    BY <1>2, <1>3, <1>4, <1>5 DEF PacketsOnRoute
  <2> QED
    BY <1>2, <1>4, <1>6, <2>2, <2>3 DEF PacketsOnRoute
<1>10. CargoWaits'
  <2> SUFFICES ASSUME NEW x \in Calls, cargo'[x] # {}
               PROVE  /\ pc'[x] \in {"sent", "failed"}
                      /\ x \notin buffer'[x.dst][x.layer + 1]
                      /\ x.layer + 1 < NumLayers => x.gen >= sent'[x.dst][x.layer + 1]
    BY DEF CargoWaits
  <2> DEFINE k == x.layer + 1
  <2>1. /\ x.dst \in Mixes /\ k \in 1 .. NumLayers /\ x.gen \in Nat
        /\ k < NumLayers => k \in 0 .. NumLayers - 1
    BY CallFields, ConstantTypes
  <2>2. buffer'[x.dst][k] \subseteq buffer[x.dst][k]
    BY <1>3, <2>1
  <2>3. CASE x \in batch
    <3>1. x \notin buffer[x.dst][k]
      BY <1>2, <1>7, <2>1, <2>3, BufferedCalls
    <3>2. k < NumLayers => ~ x.gen < sent[x.dst][k]
      BY <1>2, <1>7, <2>3 DEF IInv, BufferParsed
    <3>3. k < NumLayers => sent'[x.dst][k] = sent[x.dst][k] /\ sent[x.dst][k] \in Nat
      BY <1>1, <1>2, <1>3, <1>8, <2>1, <2>3, SentNat
    <3> QED
      BY <1>3, <2>1, <2>2, <2>3, <3>1, <3>2, <3>3
  <2>4. CASE x \notin batch
    <3>1. cargo[x] # {}
      BY <1>4, <2>4
    <3>2. /\ pc[x] \in {"sent", "failed"} /\ x \notin buffer[x.dst][k]
          /\ k < NumLayers => x.gen >= sent[x.dst][k]
      BY <1>2, <3>1 DEF CargoWaits
    <3>3. pc'[x] = pc[x]
      BY <1>3, <2>4, <3>2
    <3>4. ASSUME k < NumLayers PROVE x.gen >= sent'[x.dst][k]
      <4>1. CASE x.dst = m /\ k = l
        <5>1. buffer[m][l] # {} /\ Complete(m, l)
          BY <1>3 DEF IsMiddleLayer, MinKey, Keys
        <5>2. buffer[m][l] = LayerCalls(m, l - 1, g)
          BY <1>1, <1>2, <5>1, CompleteLayer DEF IInv, g
        <5>3. x.layer = l - 1
          BY <4>1, CallFields
        <5>4. x.gen # g
          BY <3>2, <4>1, <5>2, <5>3 DEF LayerCalls
        <5>5. x.gen >= g
          BY <3>2, <3>4, <4>1 DEF g
        <5> QED
          BY <1>1, <1>3, <1>7, <2>1, <4>1, <5>4, <5>5
      <4>2. CASE ~ (x.dst = m /\ k = l)
        BY <1>3, <2>1, <3>2, <3>4, <4>2
      <4> QED
        BY <4>1, <4>2
    <3> QED
      BY <2>2, <3>2, <3>3, <3>4
  <2> QED
    BY <2>3, <2>4
<1> QED
  BY <1>9, <1>10

\* What get() takes out of the buffer is the last layer of the packets, too.
LEMMA OutputStore ==
  ASSUME NEW m \in Mixes, NetOutputLastLayer(m), MaxKey(m, NumLayers)
  PROVE  /\ output' = [output EXCEPT ![m] = store[m][NumLayers]]
         /\ store' = [store EXCEPT ![m][NumLayers] = {}]
         /\ UNCHANGED <<verification, circuit, connections, cargo>>
<1>1. PICK l \in 1 .. NumLayers : /\ MaxKey(m, l)
                                  /\ output' = [output EXCEPT ![m] = store[m][l]]
                                  /\ store' = [store EXCEPT ![m][l] = {}]
  BY DEF NetOutputLastLayer
<1>2. l <= NumLayers /\ NumLayers <= l /\ l \in Nat
  BY <1>1 DEF MaxKey, Keys
<1>3. l = NumLayers
  BY <1>2, ConstantTypes
<1> QED
  BY <1>1, <1>3 DEF NetOutputLastLayer

\* get() outputs the packets whose route ends there.
LEMMA RouteOutput ==
  ASSUME RouteInv, NEW m \in Mixes, NetOutputLastLayer(m)
  PROVE  PacketsOnRoute' /\ CargoWaits'
<1>1. /\ OutputInv /\ TypeOK /\ NetTypeOK /\ PacketsOnRoute /\ CargoWaits
      /\ OutputLastLayer(m)
  BY DEF RouteInv, OutputInv, IInv, NetInv, NetOutputLastLayer
<1>2. NumLayers \in 1 .. NumLayers
  BY ConstantTypes
<1>3. buffer' = [buffer EXCEPT ![m][NumLayers] = {}] /\ MaxKey(m, NumLayers)
  BY <1>1, OutputTakesLast
<1>4. /\ output' = [output EXCEPT ![m] = store[m][NumLayers]]
      /\ store' = [store EXCEPT ![m][NumLayers] = {}]
      /\ UNCHANGED <<verification, circuit, connections, cargo>>
  BY <1>3, OutputStore
<1>5. /\ \A n \in Mixes : \A i \in 1 .. NumLayers :
           /\ buffer'[n][i] = IF n = m /\ i = NumLayers THEN {} ELSE buffer[n][i]
           /\ store'[n][i] = IF n = m /\ i = NumLayers THEN {} ELSE store[n][i]
      /\ \A n \in Mixes : output'[n] = IF n = m THEN store[m][NumLayers] ELSE output[n]
      /\ UNCHANGED <<pc, sent>>
  BY <1>1, <1>2, <1>3, <1>4 DEF OutputLastLayer, TypeOK, NetTypeOK
<1>6. \A p, x : (Due(p, x)' <=> Due(p, x)) /\ (Kept(p, x)' <=> Kept(p, x))
  BY <1>4, SameRoutes
<1>7. \A k, i : Passes(k, i)' = Passes(k, i) /\ LastServer(k)' = LastServer(k)
  BY <1>4, SameRoutes
<1>8. PacketsOnRoute'
  <2>1. ASSUME NEW p \in store[m][NumLayers]
        PROVE  LastServer(p.client) = m /\ Passes(p.client, NumLayers)
    <3>1. PICK b \in buffer[m][NumLayers] : Kept(p, b)
      BY <1>1, <1>2 DEF PacketsOnRoute
    <3>2. b.dst = m /\ b.layer = NumLayers - 1
      BY <1>1, <1>2, BufferedCalls
    <3>3. b.layer + 1 = NumLayers
      BY <3>2, ConstantTypes
    <3> QED
      BY <3>1, <3>2, <3>3 DEF Kept, OnRoute, LastServer
  <2>2. \A n \in Mixes : \A i \in 1 .. NumLayers : \A p \in store'[n][i] :
          \E x \in buffer'[n][i] : Kept(p, x)'
    BY <1>1, <1>5, <1>6 DEF PacketsOnRoute
  <2> QED
    BY <1>1, <1>4, <1>5, <1>6, <1>7, <2>1, <2>2 DEF PacketsOnRoute
<1>9. CargoWaits'
  <2>1. \A x \in Calls : x.dst \in Mixes /\ x.layer + 1 \in 1 .. NumLayers
    BY CallFields, ConstantTypes
  <2> QED
    BY <1>1, <1>4, <1>5, <2>1 DEF CargoWaits
<1> QED
  BY <1>8, <1>9

\* A round starts with the packets of the own clients, of its kind.
LEMMA RouteStart ==
  ASSUME RouteInv, NEW m \in Mixes, NetStartMixRound(m)
  PROVE  PacketsOnRoute' /\ CargoWaits'
<1> DEFINE s == StartCall(m)
<1>1. /\ OutputInv /\ IInv /\ TypeOK /\ NetTypeOK /\ PacketsOnRoute /\ CargoWaits
      /\ StartMixRound(m)
  BY DEF RouteInv, OutputInv, IInv, NetInv, NetStartMixRound
<1>2. s \in Calls /\ pc[s] = "unsent"
  BY <1>1, StartUnsent
<1>3. /\ s.src = m /\ s.dst = m /\ s.layer = 0 /\ s.gen = sent[m][0]
      /\ 0 \in 0 .. NumLayers - 1 /\ 1 \in 0 .. NumLayers - 1 /\ 1 \in 1 .. NumLayers
      /\ 0 + 1 = 1 /\ 0 <= 1
  BY ConstantTypes DEF StartCall
<1>4. s.gen = round[m] + 1 /\ round[m] \in Nat
  <2>1. sent[m][0] = round[m] + 1 /\ round[m] \in Rounds
    BY <1>1 DEF StartMixRound, IInv, GetRound, TypeOK
  <2> QED
    BY <1>3, <2>1, ConstantTypes DEF Rounds
<1>5. method'[s] = Kind(s.gen)
  <2>1. method'[s] = IF round[m] < NumSetupRounds - 1 THEN "setup" ELSE "add"
    BY <1>1, <1>2 DEF StartMixRound, TypeOK
  <2> QED
    BY <1>4, <2>1, RoundsAssumption DEF Kind
<1>6. /\ \A x \in Calls : pc'[x] = IF x = s THEN "sent" ELSE pc[x]
      /\ buffer' = buffer
      /\ \A n \in Mixes : \A i \in 1 .. NumLayers - 1 : sent'[n][i] = sent[n][i]
  <2>1. \A i \in 1 .. NumLayers - 1 : i \in 0 .. NumLayers - 1 /\ i # 0
    OBVIOUS
  <2> QED
    BY <1>1, <2>1 DEF StartMixRound, TypeOK
<1>7. /\ \A x \in Calls : cargo'[x] = IF x = s THEN InitPackets(m, Kind(s.gen)) ELSE cargo[x]
      /\ UNCHANGED <<verification, circuit, connections, store, output>>
  BY <1>1, <1>5 DEF NetStartMixRound, NetTypeOK
<1> HIDE DEF s
<1>8. \A p, x : (Due(p, x)' <=> Due(p, x)) /\ (Kept(p, x)' <=> Kept(p, x))
  BY <1>7, SameRoutes
<1>9. \A k, i : Passes(k, i)' = Passes(k, i) /\ LastServer(k)' = LastServer(k)
  BY <1>7, SameRoutes
<1>10. PacketsOnRoute'
  <2>1. ASSUME NEW p \in InitPackets(m, Kind(s.gen)) PROVE Due(p, s)
    <3>1. p \in Packets /\ p.kind = Kind(s.gen) /\ circuit[p.client].first = m
      BY InitPacketsType DEF InitPackets, Kind
    <3>2. Passes(p.client, s.layer)
      BY <1>3 DEF Passes
    <3> QED
      BY <1>3, <3>1, <3>2 DEF Due, OnRoute, Server, Caller
  <2> QED
    BY <1>1, <1>6, <1>7, <1>8, <1>9, <2>1 DEF PacketsOnRoute
<1>11. CargoWaits'
  <2> SUFFICES ASSUME NEW x \in Calls, cargo'[x] # {}
               PROVE  /\ pc'[x] \in {"sent", "failed"}
                      /\ x \notin buffer'[x.dst][x.layer + 1]
                      /\ x.layer + 1 < NumLayers => x.gen >= sent'[x.dst][x.layer + 1]
    BY DEF CargoWaits
  <2>1. x.layer + 1 < NumLayers => sent'[x.dst][x.layer + 1] = sent[x.dst][x.layer + 1]
    BY <1>6, CallFields, ConstantTypes
  <2>2. CASE x = s
    <3>1. x \notin buffer[m][1]
      BY <1>1, <1>2, <1>3, <2>2, BufferedCalls
    <3>2. sent[m][1] <= sent[m][0] /\ sent[m][1] \in Nat /\ sent[m][0] \in Nat
      BY <1>1, <1>3, SentNat DEF IInv, SentOrder
    <3> QED
      BY <1>3, <1>6, <2>1, <2>2, <3>1, <3>2
  <2>3. CASE x # s
    BY <1>1, <1>6, <1>7, <2>1, <2>3 DEF CargoWaits
  <2> QED
    BY <2>2, <2>3
<1> QED
  BY <1>10, <1>11

\* No step takes a packet off its route, or from a call that still waits for it.
LEMMA RouteInvStep == RouteInv /\ [NetNext]_<<vars, netVars>> => RouteInv'
<1> SUFFICES ASSUME RouteInv, [NetNext]_<<vars, netVars>> PROVE RouteInv'
  OBVIOUS
<1>1. OutputInv /\ IInv /\ SetupNeverAdded /\ NetInv /\ PacketsOnRoute /\ CargoWaits
  BY DEF RouteInv, OutputInv
<1>2. [Next]_vars
  BY StepOfRounds
<1>3. OutputInv'
  BY <1>1, <1>2, LastLayerInv, InvStep DEF OutputInv
<1>4. NetInv'
  <2>1. TypeOK'
    BY <1>3 DEF OutputInv, IInv
  <2> QED
    BY <1>1, <2>1, NetInvStep
<1>5. SetupNeverAdded'
  <2>1. CASE UNCHANGED vars
    BY <1>1, <2>1 DEF vars, SetupNeverAdded
  <2> QED
    BY <1>1, <1>2, <2>1, AddSendsData
<1>6. PacketsOnRoute' /\ CargoWaits'
  <2>1. CASE NetOther \/ (\E c \in Calls : NetPanic(c)) \/ UNCHANGED <<vars, netVars>>
    <3>1. /\ UNCHANGED <<buffer, sent, netVars>>
          /\ \A x \in Calls : \/ pc'[x] = pc[x]
                              \/ pc[x] \in {"parsed", "waiting"} /\ pc'[x] = "done"
                              \/ pc'[x] = "failed"
      BY <1>1, <2>1, QuietStep
    <3>2. UNCHANGED <<verification, circuit, connections, cargo, store, output>>
      BY <3>1 DEF netVars
    <3>3. PacketsOnRoute'
      <4>1. \A p, x : (Due(p, x)' <=> Due(p, x)) /\ (Kept(p, x)' <=> Kept(p, x))
        BY <3>2, SameRoutes
      <4>2. \A k, i : Passes(k, i)' = Passes(k, i) /\ LastServer(k)' = LastServer(k)
        BY <3>2, SameRoutes
      <4> QED
        BY <1>1, <3>1, <3>2, <4>1, <4>2 DEF PacketsOnRoute
    <3>4. CargoWaits'
      BY <1>1, <3>1, <3>2 DEF CargoWaits
    <3> QED
      BY <3>3, <3>4
  <2> QED
    BY <2>1, RouteParseSetup, RouteParseAdd, RouteSendLayer, RouteOutput, RouteStart
    DEF NetNext
<1> QED
  BY <1>3, <1>4, <1>5, <1>6 DEF RouteInv

\* Whatever is verified, every packet is on the route that its tickets name, of the kind
\* of its round, and waits there until its call is parsed.
THEOREM RouteInvariance == NetSpec => []RouteInv
BY RouteInvInit, RouteInvStep, PTL DEF NetSpec

--------------------------------------------------------------------------------
(***************************************************************************)
(* Packets are in one place.                                               *)
(***************************************************************************)

\* Once a mix sends a later layer of a round, every mix has sent the middle layers below it
\* in that round: the layer was complete.
LEMMA SentBelow ==
  ASSUME IInv, NEW m \in Mixes, NEW n \in Mixes, NEW g \in Rounds,
         NEW j \in 2 .. NumLayers - 1, g < sent[m][j], NEW l \in 1 .. j - 1
  PROVE  g < sent[n][l]
<1> DEFINE e == [src |-> n, dst |-> m, layer |-> j - 1, gen |-> g]
<1>1. /\ j \in Nat /\ l \in Nat /\ l \in 0 .. NumLayers - 1 /\ j - 1 \in 0 .. NumLayers - 1
      /\ l <= j - 1 /\ j - 1 # 0 /\ (j - 1) + 1 = j /\ j < NumLayers
      /\ g \in Nat
  BY ConstantTypes DEF Rounds
<1>2. /\ e \in Calls /\ e.src = n /\ e.dst = m /\ e.layer = j - 1 /\ e.gen = g
  BY <1>1 DEF Calls, Dests
<1> HIDE DEF e
<1>3. pc[e] # "unsent"
  BY <1>1, <1>2 DEF IInv, BufferParsed
<1>4. ~ e.gen >= sent[n][j - 1]
  BY <1>2, <1>3 DEF IInv, SentCalls
<1>5. sent[n][j - 1] <= sent[n][l]
  BY <1>1 DEF IInv, SentOrder
<1>6. sent[n][l] \in Nat /\ sent[n][j - 1] \in Nat
  BY <1>1, SentNat DEF IInv
<1> QED
  BY <1>1, <1>2, <1>4, <1>5, <1>6

\* A packet is with a call of its route that was sent, or in the buffer with one.
LEMMA PlaceOnRoute ==
  ASSUME RouteInv, NEW a \in Places
  PROVE  \E c \in Calls, p \in Packets :
           /\ a \in {<<"cargo", c, p>>, <<"store", c, p>>}
           /\ OnRoute(p.client, c) /\ pc[c] # "unsent"
           /\ a = <<"cargo", c, p>> => cargo[c] # {}
           /\ a = <<"store", c, p>> => c \in buffer[c.dst][c.layer + 1]
<1>1. OutputInv /\ NetTypeOK /\ PacketsOnRoute /\ CargoWaits
  BY DEF RouteInv, NetInv
<1>2. PICK c \in Calls : \/ \E p \in cargo[c] : a = <<"cargo", c, p>>
                        \/ \E p \in Stored(c) : a = <<"store", c, p>>
  BY DEF Places
<1>3. PICK p : \/ a = <<"cargo", c, p>> /\ p \in cargo[c]
               \/ a = <<"store", c, p>> /\ p \in Stored(c)
  BY <1>2
<1>4. c.dst \in Mixes /\ c.layer + 1 \in 1 .. NumLayers /\ c.layer \in Nat
  BY CallFields, ConstantTypes
<1>5. CASE a = <<"cargo", c, p>> /\ p \in cargo[c]
  <2>1. p \in Packets /\ OnRoute(p.client, c)
    BY <1>1, <1>5 DEF PacketsOnRoute, Due, NetTypeOK
  <2>2. pc[c] # "unsent"
    BY <1>1, <1>5 DEF CargoWaits
  <2> QED
    BY <1>3, <1>5, <2>1, <2>2
<1>6. CASE a = <<"store", c, p>> /\ p \in Stored(c)
  <2>1. /\ c.src = Caller(p.client, c.layer)
        /\ c \in buffer[c.dst][c.layer + 1] /\ p \in store[c.dst][c.layer + 1]
    BY <1>6 DEF Stored
  <2>2. PICK b \in buffer[c.dst][c.layer + 1] : Kept(p, b)
    BY <1>1, <1>4, <2>1 DEF PacketsOnRoute
  <2>3. b.dst = c.dst /\ b.layer = (c.layer + 1) - 1
    BY <1>1, <1>4, BufferedCalls
  <2>4. b.layer = c.layer
    BY <1>4, <2>3
  <2>5. p \in Packets /\ OnRoute(p.client, c)
    BY <1>1, <1>4, <2>1, <2>2, <2>3, <2>4, StorePackets DEF Kept, OnRoute
  <2>6. pc[c] # "unsent"
    BY <1>1, <1>4, <2>1, BufferedCalls
  <2> QED
    BY <1>6, <2>1, <2>5, <2>6
<1> QED
  BY <1>3, <1>5, <1>6

\* A packet that is with a call is not with one of a later layer: that one was sent after
\* the server of the first sent the layer.
LEMMA OneLayer ==
  ASSUME RouteInv, NEW k, NEW c \in Calls, NEW d \in Calls,
         OnRoute(k, c), OnRoute(k, d), c.gen = d.gen, pc[d] # "unsent",
         cargo[c] # {} \/ c \in buffer[c.dst][c.layer + 1]
  PROVE  ~ c.layer < d.layer
<1> SUFFICES ASSUME c.layer < d.layer PROVE FALSE
  OBVIOUS
<1> DEFINE l == c.layer + 1
           j == d.layer
           g == c.gen
<1>1. OutputInv /\ IInv /\ CargoWaits
  BY DEF RouteInv, OutputInv
<1>2. /\ c.dst \in Mixes /\ d.src \in Mixes /\ g \in Rounds /\ g \in Nat
      /\ l \in 1 .. NumLayers - 1 /\ l \in 0 .. NumLayers - 1 /\ l \in 1 .. NumLayers
      /\ l < NumLayers
      /\ j \in 1 .. NumLayers - 1 /\ j \in 0 .. NumLayers - 1 /\ l <= j /\ l - 1 = c.layer
      /\ l # NumLayers
  BY CallFields, ConstantTypes
<1>3. ~ d.gen >= sent[d.src][j]
  BY <1>1 DEF IInv, SentCalls
<1>4. sent[d.src][j] \in Nat /\ sent[c.dst][l] \in Nat
  BY <1>1, <1>2, SentNat DEF IInv
<1>5. g < sent[d.src][j]
  BY <1>2, <1>3, <1>4
<1>6. g < sent[c.dst][l]
  <2>1. CASE l = j
    <3>1. d.src = Server(k, j - 1) /\ c.dst = Server(k, c.layer)
      BY <1>2 DEF OnRoute, Caller
    <3> QED
      BY <1>2, <1>5, <2>1, <3>1
  <2>2. CASE l # j
    <3>1. j \in 2 .. NumLayers - 1 /\ l \in 1 .. j - 1
      BY <1>2, <2>2
    <3> QED
      BY <1>1, <1>2, <1>5, <3>1, SentBelow
  <2> QED
    BY <2>1, <2>2
<1>7. CASE cargo[c] # {}
  BY <1>1, <1>2, <1>4, <1>6, <1>7 DEF CargoWaits
<1>8. CASE c \in buffer[c.dst][l]
  <2>1. c.gen = sent[c.dst][l]
    BY <1>1, <1>2, <1>8, BufferedCalls
  <2> QED
    BY <1>2, <1>4, <1>6, <2>1
<1> QED
  BY <1>7, <1>8

\* No packet of a round is in two places.
LEMMA OnePlace == RouteInv => PacketsUnique
<1> SUFFICES ASSUME RouteInv, NEW a \in Places, NEW b \in Places,
                    a[3] = b[3], a[2].gen = b[2].gen
             PROVE  a = b
  BY DEF PacketsUnique
<1> DEFINE At(x, c, p) == /\ x \in {<<"cargo", c, p>>, <<"store", c, p>>}
                          /\ OnRoute(p.client, c) /\ pc[c] # "unsent"
                          /\ x = <<"cargo", c, p>> => cargo[c] # {}
                          /\ x = <<"store", c, p>> => c \in buffer[c.dst][c.layer + 1]
<1>1. PICK c \in Calls, p \in Packets : At(a, c, p)
  BY PlaceOnRoute
<1>2. PICK d \in Calls, q \in Packets : At(b, d, q)
  BY PlaceOnRoute
<1>3. p = q /\ c.gen = d.gen
  BY <1>1, <1>2
<1>4. c.layer = d.layer
  <2>1. ~ c.layer < d.layer /\ ~ d.layer < c.layer
    BY <1>1, <1>2, <1>3, OneLayer
  <2> QED
    BY <2>1, CallFields
<1>5. c = d
  BY <1>1, <1>2, <1>3, <1>4 DEF OnRoute, Calls
<1>6. cargo[c] # {} => c \notin buffer[c.dst][c.layer + 1]
  BY DEF RouteInv, CargoWaits
<1> QED
  BY <1>1, <1>2, <1>3, <1>5, <1>6

\* No packet of a round is in two places of the mixnet at a time: no mix sends a packet
\* twice, or forwards one that is still on its way to it.
THEOREM PacketsOnce == NetSpec => []PacketsUnique
BY RouteInvariance, OnePlace, PTL

--------------------------------------------------------------------------------
(***************************************************************************)
(* With two mixes and a middle layer no packet is missing.                 *)
(***************************************************************************)

\* What is expected after a step was expected before it: no call changes its RPC.
LEMMA ExpectedStep ==
  ASSUME IInv, [Next]_vars, UNCHANGED verification
  PROVE  Expected' \subseteq Expected
<1> SUFFICES ASSUME RpcMatchesPackets', NEW c \in Calls, pc[c] # "unsent"
             PROVE  method[c] = Kind(c.gen)
  BY DEF Expected, RpcMatchesPackets
<1>1. pc'[c] # "unsent"
  BY CallsProgress
<1>2. method'[c] = Kind(c.gen)
  BY <1>1 DEF RpcMatchesPackets
<1>3. method'[c] = method[c]
  <2>1. ASSUME NEW d \in Calls, NEW l \in 1 .. NumLayers - 1, SendLayer(d, l)
        PROVE  method'[c] = method[c]
    BY <2>1, BatchUnsent DEF SendLayer
  <2>2. ASSUME NEW m \in Mixes, StartMixRound(m) PROVE method'[c] = method[c]
    BY <2>2, StartUnsent DEF StartMixRound, IInv, TypeOK
  <2>3. CASE UNCHANGED method
    BY <2>3
  <2> QED
    BY <2>1, <2>2, <2>3 DEF Next, Handler, Failure, Get, ParseInput, NothingToSend, Finish,
       Panic, Break, Cascade, Fail, GetRequest, Acquire, OutputLastLayer, NextRound, Reply,
       GetPanic, Idle, vars, handlerVars
<1> QED
  BY <1>2, <1>3

\* What is expected after a step was there before it.
LEMMA WasPresent ==
  ASSUME RouteInv, NothingMissing, [Next]_vars, UNCHANGED verification, NEW p \in Expected'
  PROVE  p \in Packets /\ p \in Expected /\ Present(p)
<1>1. Expected' \subseteq Expected
  BY ExpectedStep DEF RouteInv, OutputInv
<1> QED
  BY <1>1 DEF NothingMissing, Expected

\* At first every client's setup packet is with its first call.
LEMMA NothingMissingInit == NetInit => NothingMissing
<1> SUFFICES ASSUME NetInit, NEW p \in Packets PROVE Present(p)
  BY DEF NothingMissing, Expected
<1>1. /\ \A m \in Mixes : /\ getpc[m] = "uncalled"
                          /\ \A l \in 1 .. NumLayers : buffer[m][l] = {}
      /\ \A c \in Calls : pc[c] = IF c.layer = 0 /\ c.gen = 0 THEN "sent" ELSE "unsent"
      /\ \A m \in Mixes : \A l \in 0 .. NumLayers - 1 : sent[m][l] = IF l = 0 THEN 1 ELSE 0
  BY DEF NetInit, Init
<1>2. ASSUME NEW c \in Calls, pc[c] = "sent", Due(p, c) PROVE p \in cargo[c]
  <2>1. c.layer = 0 /\ c.gen = 0
    BY <1>1, <1>2
  <2>2. cargo[c] = InitPackets(c.dst, "setup")
    BY <2>1 DEF NetInit
  <2>3. Kind(c.gen) = "setup"
    BY <2>1, RoundsAssumption DEF Kind
  <2>4. p.kind = "setup" /\ c.dst = circuit[p.client].first
    BY <1>2, <2>1, <2>3 DEF Due, OnRoute, Server
  <2> QED
    BY <2>2, <2>4 DEF InitPackets, Packets
<1>3. \A c \in Calls : ~ Parsed(c)
  <2> SUFFICES ASSUME NEW c \in Calls PROVE ~ Parsed(c)
    OBVIOUS
  <2>1. /\ c.dst \in Mixes /\ c.layer + 1 \in 1 .. NumLayers /\ c.gen \in Nat
        /\ c.layer + 1 < NumLayers => c.layer + 1 \in 0 .. NumLayers - 1 /\ c.layer + 1 # 0
    BY CallFields, ConstantTypes
  <2>2. c.layer + 1 < NumLayers => sent[c.dst][c.layer + 1] = 0
    BY <1>1, <2>1
  <2> QED
    BY <1>1, <2>1, <2>2 DEF Parsed
<1> QED
  BY <1>1, <1>2, <1>3 DEF Present

\* When data reaches a mix, the setup request of its circuit is parsed there.
LEMMA CircuitParsed ==
  ASSUME NumMixes <= 2, TwoMixInv, NEW e \in Calls, NEW c \in Calls,
         SetsUp(e, c), pc[c] # "unsent"
  PROVE  Parsed(e)
<1>1. IInv /\ TypeOK
  BY DEF TwoMixInv, OutputInv, IInv
<1>2. /\ e.src = c.src /\ e.dst = c.dst /\ e.layer = c.layer /\ e.gen < c.gen
      /\ e.gen \in Nat /\ c.gen \in Nat
  BY CallFields, RoundsAssumption DEF SetsUp, Kind
<1>3. /\ c.src \in Mixes /\ c.dst \in Mixes /\ c.layer \in 0 .. NumLayers - 1
      /\ 0 \in 0 .. NumLayers - 1 /\ 0 <= c.layer
  BY CallFields, ConstantTypes
<1>4. sent[c.src][c.layer] \in Nat /\ sent[c.src][0] \in Nat
  BY <1>1, <1>3, SentNat
<1>5. c.gen < sent[c.src][c.layer]
  <2>1. ~ c.gen >= sent[c.src][c.layer]
    BY <1>1 DEF IInv, SentCalls
  <2> QED
    BY <1>2, <1>4, <2>1
<1>6. CASE c.layer + 1 < NumLayers
  <2>1. c.layer + 1 \in 0 .. NumLayers - 1
    BY <1>3, <1>6, ConstantTypes
  <2>2. sent[c.src][c.layer] <= sent[c.dst][c.layer + 1] + 1 /\ sent[c.dst][c.layer + 1] \in Nat
    BY <1>1, <1>3, <2>1, OneAhead, SentNat
  <2>3. e.gen < sent[c.dst][c.layer + 1]
    BY <1>2, <1>4, <1>5, <2>2
  <2> QED
    BY <1>2, <1>6, <2>3 DEF Parsed
<1>7. CASE ~ c.layer + 1 < NumLayers
  <2>1. e.layer # 0
    BY <1>2, <1>3, <1>7, ConstantTypes
  <2>2. sent[c.src][c.layer] <= sent[c.src][0]
    BY <1>1, <1>3 DEF IInv, SentOrder
  <2>3. pc[e] # "unsent"
    <3>1. ~ e.gen >= sent[e.src][e.layer]
      BY <1>2, <1>4, <1>5
    <3> QED
      BY <1>1, <3>1 DEF IInv, SentCalls
  <2>4. ~ sent[e.src][0] <= e.gen + 1
    BY <1>2, <1>4, <1>5, <2>2
  <2>5. pc[e] = "done"
    BY <2>1, <2>3, <2>4, UndoneHoldsBack
  <2> QED
    BY <2>5 DEF Parsed
<1> QED
  BY <1>6, <1>7

\* A step that adds call c to the buffer, with all the packets that it keeps, and makes
\* all their connections if they are setup packets.
LEMMA MissingParsed ==
  ASSUME RouteInv, NothingMissing, [Next]_vars, NEW c \in Calls, ParseInput(c), NEW kept,
         \A p \in Expected : Kept(p, c) => p \in kept,
         store' = [store EXCEPT ![c.dst][c.layer + 1] = @ \union kept],
         cargo' = [cargo EXCEPT ![c] = {}],
         UNCHANGED <<verification, circuit, output>>,
         \A m \in Mixes : connections[m] \subseteq connections'[m],
         Kind(c.gen) = "setup" =>
           \A p \in kept : [client |-> p.client, layer |-> c.layer] \in connections'[c.dst]
  PROVE  NothingMissing'
<1> DEFINE l == c.layer + 1
<1>1. c.dst \in Mixes /\ l \in 1 .. NumLayers
  BY CallFields, ConstantTypes
<1>2. TypeOK /\ NetTypeOK
  BY DEF RouteInv, OutputInv, IInv, NetInv
<1>3. /\ \A m \in Mixes : \A i \in 1 .. NumLayers :
           buffer'[m][i] = IF m = c.dst /\ i = l THEN buffer[m][i] \union {c} ELSE buffer[m][i]
      /\ \A x \in Calls : pc'[x] = IF x = c THEN "parsed" ELSE pc[x]
      /\ UNCHANGED <<sent, getpc, round>>
  BY <1>1, <1>2 DEF ParseInput, TypeOK, getVars
<1>4. /\ \A m \in Mixes : \A i \in 1 .. NumLayers :
           store'[m][i] = IF m = c.dst /\ i = l THEN store[m][i] \union kept ELSE store[m][i]
      /\ \A x \in Calls : cargo'[x] = IF x = c THEN {} ELSE cargo[x]
  BY <1>1, <1>2 DEF NetTypeOK
<1>5. \A p, x : (Due(p, x)' <=> Due(p, x)) /\ (Kept(p, x)' <=> Kept(p, x))
  BY SameRoutes
<1>6. \A k, i : Passes(k, i)' = Passes(k, i) /\ LastServer(k)' = LastServer(k)
  BY SameRoutes
<1> SUFFICES ASSUME NEW p \in Expected' PROVE Present(p)'
  BY DEF NothingMissing
<1>7. Present(p) /\ (Kept(p, c) => p \in kept)
  BY WasPresent
<1>8. \A x \in Calls : pc'[x] = "sent" /\ Due(p, x)' => p \in cargo'[x]
  BY <1>3, <1>4, <1>5, <1>7 DEF Present
<1>9. ASSUME NEW m \in Mixes, NEW i \in 1 .. NumLayers, NEW x \in buffer'[m][i], Kept(p, x)'
      PROVE  p \in store'[m][i]
  <2>1. Kept(p, x)
    BY <1>5, <1>9
  <2>2. CASE x \in buffer[m][i]
    BY <1>4, <1>7, <2>1, <2>2 DEF Present
  <2>3. CASE x \notin buffer[m][i]
    <3>1. x = c /\ m = c.dst /\ i = l
      BY <1>3, <2>3, ZenonT(60)
    <3>2. store'[m][i] = store[m][i] \union kept
      BY <1>4, <3>1
    <3> QED
      BY <1>7, <2>1, <3>1, <3>2
  <2> QED
    BY <2>2, <2>3
<1>10. ASSUME NEW x \in Calls, Kind(x.gen) = "setup", Parsed(x)', Kept(p, x)'
       PROVE  [client |-> p.client, layer |-> x.layer] \in connections'[x.dst]
  <2>1. Kept(p, x) /\ x.dst \in Mixes
    BY <1>5, <1>10, CallFields
  <2>2. CASE x = c
    BY <1>7, <1>10, <2>1, <2>2
  <2>3. CASE x # c
    <3>1. x.layer + 1 \in 1 .. NumLayers
      BY CallFields, ConstantTypes
    <3>2. buffer'[x.dst][x.layer + 1] \subseteq buffer[x.dst][x.layer + 1] \union {c}
      BY <1>3, <2>1, <3>1
    <3>3. pc'[x] = pc[x]
      BY <1>3, <2>3
    <3>4. Parsed(x)
      BY <1>3, <1>10, <2>3, <3>2, <3>3 DEF Parsed
    <3> QED
      BY <1>7, <1>10, <2>1, <3>4 DEF Present
  <2> QED
    BY <2>2, <2>3
<1>11. \A m \in Mixes :
         /\ getpc'[m] \in {"measure", "replied"} /\ p.kind = Kind(round'[m])
         /\ LastServer(p.client)' = m /\ Passes(p.client, NumLayers)'
         => p \in output'[m]
  BY <1>3, <1>6, <1>7 DEF Present
<1> QED
  BY <1>8, <1>9, <1>10, <1>11 DEF Present

LEMMA MissingParseSetup ==
  ASSUME RouteInv, NothingMissing, [Next]_vars, NEW c \in Calls, NetParseSetup(c)
  PROVE  NothingMissing'
<1> DEFINE kept == DecryptSetup(c.layer, cargo[c])
<1>1. NetTypeOK /\ c.dst \in Mixes /\ c.layer \in Nat
  BY CallFields DEF RouteInv, NetInv
<1>2. ASSUME NEW p \in Expected, Kept(p, c) PROVE p \in kept
  <2>1. /\ c.layer \in 0 .. (c.layer + 1) - 1
        /\ \A i \in 0 .. c.layer - 1 : i \in 0 .. (c.layer + 1) - 1
    BY <1>1
  <2>2. Passes(p.client, c.layer + 1)
    BY <1>2 DEF Kept
  <2>3. verification = "Verify" /\ c.layer # NumLayers - 1 => ValidProof(p.client, c.layer)
    BY <2>1, <2>2 DEF Passes
  <2>4. Passes(p.client, c.layer)
    BY <2>1, <2>2 DEF Passes
  <2>5. Due(p, c)
    BY <1>2, <2>4 DEF Kept, Due
  <2>6. pc[c] = "sent"
    BY DEF NetParseSetup, ParseInput
  <2>7. p \in cargo[c]
    BY <2>5, <2>6 DEF NothingMissing, Present
  <2> QED
    BY <2>3, <2>7 DEF DecryptSetup
<1>3. /\ ParseInput(c)
      /\ connections' = [connections EXCEPT ![c.dst] =
                           @ \union {[client |-> p.client, layer |-> c.layer] : p \in kept}]
      /\ store' = [store EXCEPT ![c.dst][c.layer + 1] = @ \union kept]
      /\ cargo' = [cargo EXCEPT ![c] = {}]
      /\ UNCHANGED <<verification, circuit, output>>
  BY DEF NetParseSetup
<1> HIDE DEF kept
<1>4. /\ \A m \in Mixes : connections[m] \subseteq connections'[m]
      /\ \A p \in kept : [client |-> p.client, layer |-> c.layer] \in connections'[c.dst]
  BY <1>1, <1>3 DEF NetTypeOK
<1> QED
  BY <1>2, <1>3, <1>4, MissingParsed

\* No data is dropped for want of a connection.
LEMMA MissingParseAdd ==
  ASSUME NumMixes <= 2, TwoMixInv, RouteInv, NothingMissing, [Next]_vars, NEW c \in Calls,
         NetParseAdd(c)
  PROVE  NothingMissing'
<1> DEFINE kept == DecryptData(c.dst, c.layer, cargo[c])
           e == [c EXCEPT !.gen = 0]
<1>1. /\ PacketsOnRoute /\ SetupNeverAdded /\ c.dst \in Mixes /\ c.layer \in Nat
  BY CallFields DEF RouteInv
<1>2. pc[c] = "sent" /\ Kind(c.gen) = "add"
  BY <1>1 DEF NetParseAdd, ParseInput, SetupNeverAdded
<1>3. /\ e \in Calls /\ e.src = c.src /\ e.dst = c.dst /\ e.layer = c.layer /\ e.gen = 0
      /\ Kind(e.gen) = "setup"
  BY ConstantTypes, RoundsAssumption DEF Calls, Rounds, Kind
<1> HIDE DEF e
<1>4. Parsed(e)
  BY <1>2, <1>3, CircuitParsed DEF SetsUp
<1>5. ASSUME NEW p \in Expected, Kept(p, c) PROVE p \in kept
  <2>1. /\ p \in Packets /\ p.kind = "add" /\ OnRoute(p.client, c)
        /\ Passes(p.client, c.layer + 1)
    BY <1>2, <1>5 DEF Kept, Expected
  <2>2. \A i \in 0 .. c.layer - 1 : i \in 0 .. (c.layer + 1) - 1
    BY <1>1
  <2>3. Passes(p.client, c.layer)
    BY <2>1, <2>2 DEF Passes
  <2>4. p \in cargo[c]
    BY <1>2, <2>1, <2>3 DEF NothingMissing, Present, Due
  <2> DEFINE q == [client |-> p.client, kind |-> "setup"]
  <2>5. q \in Packets /\ q.client = p.client /\ q.kind = "setup"
    BY <2>1 DEF Packets
  <2> HIDE DEF q
  <2>6. Kept(q, e) /\ q \in Expected
    BY <1>3, <2>1, <2>5 DEF Kept, OnRoute, Expected
  <2>7. [client |-> p.client, layer |-> c.layer] \in connections[c.dst]
    BY <1>3, <1>4, <2>5, <2>6 DEF NothingMissing, Present
  <2> QED
    BY <2>1, <2>4, <2>7 DEF DecryptData
<1>6. /\ ParseInput(c)
      /\ store' = [store EXCEPT ![c.dst][c.layer + 1] = @ \union kept]
      /\ cargo' = [cargo EXCEPT ![c] = {}]
      /\ UNCHANGED <<verification, circuit, connections, output>>
  BY DEF NetParseAdd
<1> HIDE DEF kept
<1>7. Kind(c.gen) # "setup"
  BY <1>2
<1> QED
  BY <1>5, <1>6, <1>7, MissingParsed

\* A layer that is sent is complete: all its packets are, and they go to their servers.
LEMMA MissingSendLayer ==
  ASSUME RouteInv, NothingMissing, [Next]_vars, NEW c \in Calls,
         NEW l \in 1 .. NumLayers - 1, NetSendLayer(c, l)
  PROVE  NothingMissing'
<1> DEFINE m == c.dst
           g == sent[m][l]
           batch == Batch(m, l, g)
<1>1. /\ m \in Mixes /\ l \in 1 .. NumLayers /\ l \in 0 .. NumLayers - 1
      /\ l \in Nat /\ l # 0 /\ l \in Layers /\ l - 1 \in Layers /\ (l - 1) + 1 = l
  BY CallFields, ConstantTypes DEF Layers
<1>2. OutputInv /\ IInv /\ TypeOK /\ LayerPure /\ NetTypeOK /\ SendLayer(c, l)
  BY DEF RouteInv, OutputInv, IInv, NetInv, NetSendLayer
<1>3. /\ \A x \in Calls : pc'[x] = IF x \in batch THEN "sent"
                                   ELSE IF x = c THEN "waiting" ELSE pc[x]
      /\ pc[c] = "parsed" /\ IsMiddleLayer(m, l)
      /\ \A x \in Calls : x \in batch => method'[x] = method[c]
      /\ \A n \in Mixes : \A i \in 1 .. NumLayers :
           buffer'[n][i] = IF n = m /\ i = l THEN {} ELSE buffer[n][i]
      /\ \A n \in Mixes : \A i \in 0 .. NumLayers - 1 :
           sent'[n][i] = IF n = m /\ i = l THEN g + 1 ELSE sent[n][i]
      /\ UNCHANGED <<getpc, round>>
  BY <1>1, <1>2 DEF SendLayer, TypeOK, getVars
<1>4. /\ \A x \in Calls :
           cargo'[x] = IF x \in batch THEN Forwarded(c, l, x.dst) ELSE cargo[x]
      /\ \A n \in Mixes : \A i \in 1 .. NumLayers :
           store'[n][i] = IF n = m /\ i = l THEN {} ELSE store[n][i]
      /\ UNCHANGED <<verification, circuit, connections, output>>
  BY <1>1, <1>2 DEF NetSendLayer, NetTypeOK
<1>5. \A p, x : (Due(p, x)' <=> Due(p, x)) /\ (Kept(p, x)' <=> Kept(p, x))
  BY <1>4, SameRoutes
<1>6. \A k, i : Passes(k, i)' = Passes(k, i) /\ LastServer(k)' = LastServer(k)
  BY <1>4, SameRoutes
<1>7. g \in Rounds /\ g \in Nat /\ batch \subseteq Calls
  BY <1>2, BatchUnsent, ConstantTypes DEF Rounds
<1>8. \A x \in batch : x.src = m /\ x.layer = l /\ x.gen = g
  BY DEF Batch
<1>9. buffer[m][l] = LayerCalls(m, l - 1, g)
  <2>1. buffer[m][l] # {} /\ Complete(m, l)
    BY <1>3 DEF IsMiddleLayer, MinKey, Keys
  <2> QED
    BY <1>1, <1>2, <2>1, CompleteLayer
<1> SUFFICES ASSUME NEW p \in Expected' PROVE Present(p)'
  BY DEF NothingMissing
<1>10. p \in Packets /\ Present(p)
  BY <1>4, WasPresent
<1>11. ASSUME NEW x \in batch, Due(p, x) PROVE p \in Forwarded(c, l, x.dst)
  <2>1. p \in Outgoing(m, l, x.dst)
    <3> DEFINE k == p.client
    <3>1. /\ p.kind = Kind(g) /\ x.dst = Server(k, l) /\ m = Caller(k, l) /\ Passes(k, l)
      BY <1>8, <1>11 DEF Due, OnRoute
    <3>2. k \in Clients
      BY <1>10 DEF Packets
    <3>3. m = Server(k, l - 1) /\ x.dst = DestServer(k, l - 1)
      BY <1>1, <3>1 DEF Server, Caller
    <3> DEFINE b == [src |-> Caller(k, l - 1), dst |-> m, layer |-> l - 1, gen |-> g]
    <3>4. /\ b.src = Caller(k, l - 1) /\ b.dst = m /\ b.layer = l - 1 /\ b.gen = g
          /\ b \in [src : Mixes, dst : Mixes, layer : 0 .. NumLayers - 1, gen : Rounds]
      BY <1>1, <1>2, <1>7, <3>2, RouteMixes DEF Layers
    <3>5. b.layer = 0 => b.src = m
      BY <3>3, <3>4 DEF Server, Caller
    <3>6. b \in Calls
      BY <1>1, <3>4, <3>5 DEF Calls, Dests
    <3> HIDE DEF b, k, m, g, batch
    <3>7. b \in buffer[m][l]
      BY <1>9, <3>4, <3>6 DEF LayerCalls
    <3>8. Kept(p, b)
      BY <1>1, <3>1, <3>3, <3>4 DEF Kept, OnRoute, k
    <3>9. p \in store[m][l]
      BY <1>1, <1>10, <3>7, <3>8 DEF Present
    <3> QED
      BY <3>3, <3>9 DEF Outgoing, k
  <2>2. CASE method[c] # "setup"
    BY <2>1, <2>2 DEF Forwarded
  <2>3. CASE method[c] = "setup" /\ verification # "OnlyVerifyEdgeCases"
    BY <2>1, <2>3 DEF Forwarded, VerifyOnOutput
  <2>4. CASE method[c] = "setup" /\ verification = "OnlyVerifyEdgeCases"
    <3>1. p.client \notin BadClients /\ RpcMatchesPackets'
      BY <1>4, <2>4 DEF Expected
    <3>2. x \in Calls /\ pc'[x] # "unsent" /\ method'[x] = "setup"
      BY <1>3, <1>7, <2>4
    <3>3. p.kind = "setup"
      BY <1>11, <3>1, <3>2 DEF RpcMatchesPackets, Due
    <3> QED
      BY <2>1, <2>4, <3>1, <3>3 DEF Forwarded, VerifyOnOutput, ValidProof
  <2> QED
    BY <2>2, <2>3, <2>4
<1> HIDE DEF m, g, batch
<1>12. \A x \in Calls : pc'[x] = "sent" /\ Due(p, x)' => p \in cargo'[x]
  BY <1>3, <1>4, <1>5, <1>10, <1>11 DEF Present
<1>13. \A n \in Mixes : \A i \in 1 .. NumLayers : \A x \in buffer'[n][i] :
         Kept(p, x)' => p \in store'[n][i]
  BY <1>3, <1>4, <1>5, <1>10 DEF Present
<1>14. ASSUME NEW x \in Calls, Kind(x.gen) = "setup", Parsed(x)', Kept(p, x)'
       PROVE  [client |-> p.client, layer |-> x.layer] \in connections'[x.dst]
  <2> DEFINE k == x.layer + 1
  <2>1. /\ x.dst \in Mixes /\ k \in 1 .. NumLayers /\ x.gen \in Nat
        /\ k < NumLayers => k \in 0 .. NumLayers - 1
    BY CallFields, ConstantTypes
  <2>2. Parsed(x)
    <3>1. CASE pc'[x] \in {"parsed", "waiting", "done"}
      BY <1>3, <3>1 DEF Parsed
    <3>2. CASE x \in buffer'[x.dst][k]
      BY <1>3, <2>1, <3>2 DEF Parsed
    <3>3. CASE k < NumLayers /\ x.gen < sent'[x.dst][k]
      <4>1. CASE x.dst = m /\ k = l
        <5>1. x.layer = l - 1 /\ sent'[x.dst][k] = g + 1
          BY <1>1, <1>3, <2>1, <4>1, CallFields
        <5>2. x.gen < g \/ x.gen = g
          BY <1>7, <2>1, <3>3, <5>1
        <5>3. CASE x.gen = g
          BY <1>9, <4>1, <5>1, <5>3 DEF LayerCalls, Parsed
        <5>4. CASE x.gen < g
          BY <3>3, <4>1, <5>4 DEF Parsed, g
        <5> QED
          BY <5>2, <5>3, <5>4
      <4>2. CASE ~ (x.dst = m /\ k = l)
        BY <1>3, <2>1, <3>3, <4>2 DEF Parsed
      <4> QED
        BY <4>1, <4>2
    <3> QED
      BY <1>14, <3>1, <3>2, <3>3 DEF Parsed
  <2> QED
    BY <1>4, <1>5, <1>10, <1>14, <2>2 DEF Present
<1>15. \A n \in Mixes :
         /\ getpc'[n] \in {"measure", "replied"} /\ p.kind = Kind(round'[n])
         /\ LastServer(p.client)' = n /\ Passes(p.client, NumLayers)'
         => p \in output'[n]
  BY <1>3, <1>4, <1>6, <1>10 DEF Present
<1> QED
  BY <1>12, <1>13, <1>14, <1>15 DEF Present

\* The last layer is whole when get() outputs it.
LEMMA MissingOutput ==
  ASSUME NumMixes <= 2, NumLayers >= 3, TwoMixInv, RouteInv, NothingMissing, [Next]_vars,
         NEW m \in Mixes, NetOutputLastLayer(m)
  PROVE  NothingMissing'
<1>1. OutputInv /\ TypeOK /\ NetTypeOK /\ OutputLastLayer(m)
  BY DEF RouteInv, OutputInv, IInv, NetInv, NetOutputLastLayer
<1>2. NumLayers \in 1 .. NumLayers /\ NumLayers - 1 \in Layers /\ NumLayers - 1 # 0
      /\ (NumLayers - 1) + 1 = NumLayers
  BY ConstantTypes DEF Layers
<1>3. buffer' = [buffer EXCEPT ![m][NumLayers] = {}] /\ MaxKey(m, NumLayers)
  BY <1>1, OutputTakesLast
<1>4. /\ output' = [output EXCEPT ![m] = store[m][NumLayers]]
      /\ store' = [store EXCEPT ![m][NumLayers] = {}]
      /\ UNCHANGED <<verification, circuit, connections, cargo>>
  BY <1>3, OutputStore
<1>5. /\ \A n \in Mixes : \A i \in 1 .. NumLayers :
           /\ buffer'[n][i] = IF n = m /\ i = NumLayers THEN {} ELSE buffer[n][i]
           /\ store'[n][i] = IF n = m /\ i = NumLayers THEN {} ELSE store[n][i]
      /\ \A n \in Mixes : output'[n] = IF n = m THEN store[m][NumLayers] ELSE output[n]
      /\ \A n \in Mixes : n # m => getpc'[n] = getpc[n]
      /\ UNCHANGED <<pc, sent, round>>
  BY <1>1, <1>2, <1>3, <1>4 DEF OutputLastLayer, TypeOK, NetTypeOK
<1>6. \A p, x : (Due(p, x)' <=> Due(p, x)) /\ (Kept(p, x)' <=> Kept(p, x))
  BY <1>4, SameRoutes
<1>7. \A k, i : Passes(k, i)' = Passes(k, i) /\ LastServer(k)' = LastServer(k)
  BY <1>4, SameRoutes
<1>8. buffer[m][NumLayers] = LastLayerCalls(m, round[m])
  BY <1>1, OutputOfRound
<1> SUFFICES ASSUME NEW p \in Expected' PROVE Present(p)'
  BY DEF NothingMissing
<1>9. p \in Packets /\ Present(p)
  BY <1>4, WasPresent
<1>10. ASSUME p.kind = Kind(round[m]), LastServer(p.client) = m, Passes(p.client, NumLayers)
       PROVE  p \in store[m][NumLayers]
  <2> DEFINE b == [src |-> Caller(p.client, NumLayers - 1), dst |-> m,
                   layer |-> NumLayers - 1, gen |-> round[m]]
  <2>1. Caller(p.client, NumLayers - 1) \in Mixes
    BY <1>1, <1>2, <1>9, RouteMixes DEF Packets
  <2>2. b \in buffer[m][NumLayers]
    BY <1>8, <2>1 DEF LastLayerCalls
  <2>3. /\ b.src = Caller(p.client, NumLayers - 1) /\ b.dst = m
        /\ b.layer = NumLayers - 1 /\ b.gen = round[m]
    OBVIOUS
  <2> HIDE DEF b
  <2>4. Kept(p, b)
    BY <1>2, <1>10, <2>3 DEF Kept, OnRoute, LastServer
  <2> QED
    BY <1>2, <1>9, <2>2, <2>4 DEF Present
<1>11. \A x \in Calls : pc'[x] = "sent" /\ Due(p, x)' => p \in cargo'[x]
  BY <1>4, <1>5, <1>6, <1>9 DEF Present
<1>12. \A n \in Mixes : \A i \in 1 .. NumLayers : \A x \in buffer'[n][i] :
         Kept(p, x)' => p \in store'[n][i]
  BY <1>5, <1>6, <1>9 DEF Present
<1>13. ASSUME NEW x \in Calls, Kind(x.gen) = "setup", Parsed(x)', Kept(p, x)'
       PROVE  [client |-> p.client, layer |-> x.layer] \in connections'[x.dst]
  <2>1. x.dst \in Mixes /\ x.layer + 1 \in 1 .. NumLayers
    BY CallFields, ConstantTypes
  <2>2. Parsed(x)
    BY <1>5, <1>13, <2>1 DEF Parsed
  <2> QED
    BY <1>4, <1>6, <1>9, <1>13, <2>2 DEF Present
<1>14. ASSUME NEW n \in Mixes, getpc'[n] \in {"measure", "replied"},
              p.kind = Kind(round'[n]), LastServer(p.client)' = n,
              Passes(p.client, NumLayers)'
       PROVE  p \in output'[n]
  <2>1. p.kind = Kind(round[n]) /\ LastServer(p.client) = n /\ Passes(p.client, NumLayers)
    BY <1>5, <1>7, <1>14
  <2>2. CASE n = m
    BY <1>5, <1>10, <2>1, <2>2
  <2>3. CASE n # m
    BY <1>5, <1>9, <1>14, <2>1, <2>3 DEF Present
  <2> QED
    BY <2>2, <2>3
<1> QED
  BY <1>11, <1>12, <1>13, <1>14 DEF Present

\* A round starts with all packets of the own clients.
LEMMA MissingStart ==
  ASSUME RouteInv, NothingMissing, [Next]_vars, NEW m \in Mixes, NetStartMixRound(m)
  PROVE  NothingMissing'
<1> DEFINE s == StartCall(m)
<1>1. IInv /\ TypeOK /\ NetTypeOK /\ StartMixRound(m)
  BY DEF RouteInv, OutputInv, IInv, NetInv, NetStartMixRound
<1>2. s \in Calls /\ pc[s] = "unsent"
  BY <1>1, StartUnsent
<1>3. s.src = m /\ s.dst = m /\ s.layer = 0 /\ s.gen = sent[m][0] /\ s.gen = round[m] + 1
      /\ round[m] \in Nat
  <2>1. sent[m][0] = round[m] + 1 /\ round[m] \in Rounds
    BY <1>1 DEF StartMixRound, IInv, GetRound, TypeOK
  <2> QED
    BY <2>1, ConstantTypes DEF Rounds, StartCall
<1>4. method'[s] = Kind(s.gen)
  <2>1. method'[s] = IF round[m] < NumSetupRounds - 1 THEN "setup" ELSE "add"
    BY <1>1, <1>2 DEF StartMixRound, TypeOK
  <2> QED
    BY <1>3, <2>1, RoundsAssumption DEF Kind
<1>5. /\ \A x \in Calls : pc'[x] = IF x = s THEN "sent" ELSE pc[x]
      /\ UNCHANGED <<buffer, round>>
      /\ \A n \in Mixes : \A i \in 1 .. NumLayers - 1 : sent'[n][i] = sent[n][i]
      /\ \A n \in Mixes : getpc'[n] \in {"measure", "replied"} => getpc'[n] = getpc[n]
  <2>1. \A i \in 1 .. NumLayers - 1 : i \in 0 .. NumLayers - 1 /\ i # 0
    OBVIOUS
  <2> QED
    BY <1>1, <2>1 DEF StartMixRound, TypeOK
<1>6. /\ \A x \in Calls : cargo'[x] = IF x = s THEN InitPackets(m, Kind(s.gen)) ELSE cargo[x]
      /\ UNCHANGED <<verification, circuit, connections, store, output>>
  BY <1>1, <1>4 DEF NetStartMixRound, NetTypeOK
<1> HIDE DEF s
<1>7. \A p, x : (Due(p, x)' <=> Due(p, x)) /\ (Kept(p, x)' <=> Kept(p, x))
  BY <1>6, SameRoutes
<1>8. \A k, i : Passes(k, i)' = Passes(k, i) /\ LastServer(k)' = LastServer(k)
  BY <1>6, SameRoutes
<1> SUFFICES ASSUME NEW p \in Expected' PROVE Present(p)'
  BY DEF NothingMissing
<1>9. p \in Packets /\ Present(p)
  BY <1>6, WasPresent
<1>10. ASSUME Due(p, s) PROVE p \in InitPackets(m, Kind(s.gen))
  <2>1. p.kind = Kind(s.gen) /\ circuit[p.client].first = m
    BY <1>3, <1>10 DEF Due, OnRoute, Server
  <2> QED
    BY <1>9, <2>1 DEF InitPackets, Packets
<1>11. \A x \in Calls : Parsed(x)' => Parsed(x)
  <2> SUFFICES ASSUME NEW x \in Calls, Parsed(x)' PROVE Parsed(x)
    OBVIOUS
  <2>1. x.layer + 1 < NumLayers => sent'[x.dst][x.layer + 1] = sent[x.dst][x.layer + 1]
    BY <1>5, CallFields, ConstantTypes
  <2> QED
    BY <1>5, <2>1 DEF Parsed
<1> QED
  BY <1>5, <1>6, <1>7, <1>8, <1>9, <1>10, <1>11 DEF Present

\* The steps that leave the packets alone.
LEMMA MissingQuiet ==
  ASSUME RouteInv, NothingMissing, [Next]_vars,
         NetOther \/ (\E c \in Calls : NetPanic(c)) \/ UNCHANGED <<vars, netVars>>
  PROVE  NothingMissing'
<1>1. /\ UNCHANGED <<buffer, sent, netVars>>
      /\ \A x \in Calls : \/ pc'[x] = pc[x]
                          \/ pc[x] \in {"parsed", "waiting"} /\ pc'[x] = "done"
                          \/ pc'[x] = "failed"
      /\ \A m \in Mixes : getpc'[m] \in {"measure", "replied"} =>
           getpc[m] \in {"measure", "replied"} /\ round'[m] = round[m]
  BY QuietStep DEF RouteInv, OutputInv
<1>2. UNCHANGED <<verification, circuit, connections, cargo, store, output>>
  BY <1>1 DEF netVars
<1>3. \A p, x : (Due(p, x)' <=> Due(p, x)) /\ (Kept(p, x)' <=> Kept(p, x))
  BY <1>2, SameRoutes
<1>4. \A k, i : Passes(k, i)' = Passes(k, i) /\ LastServer(k)' = LastServer(k)
  BY <1>2, SameRoutes
<1>5. \A x \in Calls : Parsed(x)' => Parsed(x)
  BY <1>1 DEF Parsed
<1> SUFFICES ASSUME NEW p \in Expected' PROVE Present(p)'
  BY DEF NothingMissing
<1>6. Present(p)
  BY <1>2, WasPresent
<1> QED
  BY <1>1, <1>2, <1>3, <1>4, <1>5, <1>6 DEF Present

LEMMA DeliveryInvStep ==
  ASSUME NumMixes <= 2, NumLayers >= 3
  PROVE  DeliveryInv /\ [NetNext]_<<vars, netVars>> => DeliveryInv'
<1> SUFFICES ASSUME DeliveryInv, [NetNext]_<<vars, netVars>> PROVE DeliveryInv'
  OBVIOUS
<1>1. TwoMixInv /\ RouteInv /\ NothingMissing
  BY DEF DeliveryInv
<1>2. TwoMixInv' /\ RouteInv'
  BY <1>1, StepOfRounds, TwoMixInvStep, RouteInvStep
<1>3. NothingMissing'
  BY <1>1, StepOfRounds, MissingParseSetup, MissingParseAdd, MissingSendLayer, MissingOutput,
     MissingStart, MissingQuiet DEF NetNext
<1> QED
  BY <1>2, <1>3 DEF DeliveryInv

\* With two mixes and a middle layer no packet is missing anywhere that should be there: of
\* the good clients none, whatever is verified, unless a layer was sent with the wrong RPC
\* where edge cases are verified.
THEOREM DeliveryInvariance ==
  ASSUME NumMixes <= 2, NumLayers >= 3
  PROVE  NetSpec => []DeliveryInv
<1>1. NetInit => DeliveryInv
  BY TwoMixInvInit, RouteInvInit, NothingMissingInit DEF NetInit, DeliveryInv
<1> QED
  BY <1>1, DeliveryInvStep, PTL DEF NetSpec

\* All packets are accounted for: each is on its route, waits for its call, and none that is
\* expected is missing.
THEOREM PacketsAccounted ==
  ASSUME NumMixes <= 2, NumLayers >= 3
  PROVE  NetSpec => []Accounted
<1>1. DeliveryInv => Accounted
  BY DEF DeliveryInv, RouteInv, NetInv, Accounted
<1> QED
  BY <1>1, DeliveryInvariance, PTL

--------------------------------------------------------------------------------
(***************************************************************************)
(* The output of the mixnet.                                               *)
(***************************************************************************)

\* get() replies after the last round.
RepliesLast == \A m \in Mixes : getpc[m] = "replied" => round[m] = NumRounds - 1

LEMMA RepliesStep == IInv /\ RepliesLast /\ [Next]_vars => RepliesLast'
<1> SUFFICES ASSUME IInv, RepliesLast, [Next]_vars,
                    NEW m \in Mixes, getpc'[m] = "replied"
             PROVE  round'[m] = NumRounds - 1
  BY DEF RepliesLast
<1> USE DEF IInv, TypeOK
<1>1. round'[m] = round[m]
  BY MessagesStep
<1>2. CASE UNCHANGED <<getpc, round>>
  BY <1>2 DEF RepliesLast
<1>3. ASSUME NEW n \in Mixes, Reply(n) PROVE round'[m] = NumRounds - 1
  BY <1>1, <1>3 DEF Reply, RepliesLast
<1>4. ASSUME NEW n \in Mixes,
             \/ GetRequest(n) \/ Acquire(n) \/ OutputLastLayer(n) \/ StartMixRound(n)
             \/ NextRound(n) \/ GetPanic(n)
      PROVE  round'[m] = NumRounds - 1
  <2>1. getpc[m] = "replied"
    BY <1>4 DEF GetRequest, Acquire, OutputLastLayer, StartMixRound, NextRound, GetPanic
  <2> QED
    BY <1>1, <2>1 DEF RepliesLast
<1>5. ASSUME NEW c \in Calls, Handler(c) \/ Failure(c) PROVE UNCHANGED <<getpc, round>>
  <2>1. ASSUME NEW l \in 1 .. NumLayers - 1, SendLayer(c, l)
        PROVE  UNCHANGED <<getpc, round>>
    BY <2>1 DEF SendLayer, getVars
  <2> QED
    BY <1>5, <2>1 DEF Handler, Failure, ParseInput, NothingToSend, Finish, Panic, Break,
       Cascade, Fail, getVars
<1> QED
  BY <1>2, <1>3, <1>4, <1>5 DEF Next, Get, Idle, vars

\* What get() replies with: of the honest clients the data of every circuit that ends at
\* its mix, of the others what no verification stops, and nothing else.
LEMMA OutputDelivered ==
  ASSUME NumLayers >= 3, DeliveryInv, RepliesLast
  PROVE  Delivered
<1> SUFFICES ASSUME NEW m \in Mixes, getpc[m] = "replied", NEW k \in Clients
             PROVE  /\ DeliveredAt(k, m) => LastServer(k) = m
                    /\ verification = "NoVerification" =>
                         (LastServer(k) = m => DeliveredAt(k, m))
                    /\ verification = "Verify" =>
                         (k \notin BadClients /\ LastServer(k) = m <=> DeliveredAt(k, m))
                    /\ verification = "OnlyVerifyEdgeCases" /\ RpcMatchesPackets =>
                         (k \notin BadClients /\ LastServer(k) = m => DeliveredAt(k, m))
  BY DEF Delivered
<1> DEFINE p == [client |-> k, kind |-> "add"]
<1>1. PacketsOnRoute /\ NothingMissing
  BY DEF DeliveryInv, RouteInv
<1>2. p \in Packets /\ p.client = k /\ p.kind = "add"
  BY DEF Packets
<1>3. Kind(round[m]) = "add"
  <2>1. round[m] = NumRounds - 1
    BY DEF RepliesLast
  <2> QED
    BY <2>1, RoundsAssumption DEF Kind, NumRounds
<1>4. DeliveredAt(k, m) <=> p \in output[m]
  BY DEF DeliveredAt
<1> HIDE DEF p
<1>5. DeliveredAt(k, m) => LastServer(k) = m /\ Passes(k, NumLayers)
  BY <1>1, <1>2, <1>4 DEF PacketsOnRoute
<1>6. p \in Expected /\ LastServer(k) = m /\ Passes(k, NumLayers) => DeliveredAt(k, m)
  BY <1>1, <1>2, <1>3, <1>4 DEF NothingMissing, Present
<1>7. verification = "NoVerification" => Passes(k, NumLayers)
  BY DEF Passes
<1>8. k \notin BadClients => Passes(k, NumLayers)
  BY DEF Passes, ValidProof
<1>9. verification = "Verify" /\ Passes(k, NumLayers) => k \notin BadClients
  <2>1. 1 \in 0 .. NumLayers - 1 /\ 1 # NumLayers - 1 /\ 1 # 0
    BY ConstantTypes
  <2> QED
    BY <2>1 DEF Passes, ValidProof
<1>10. p \in Expected <=>
         (verification = "OnlyVerifyEdgeCases" => k \notin BadClients /\ RpcMatchesPackets)
  BY <1>2 DEF Expected
<1> QED
  BY <1>5, <1>6, <1>7, <1>8, <1>9, <1>10

\* With two mixes and a middle layer every run that ends outputs the data of its clients,
\* at the last mix of their circuits and nowhere else; with Verify it is exactly the data
\* of the clients with honest tickets, and where the edge cases are verified that data is
\* never lost but to a layer that was sent with the wrong RPC.
THEOREM DeliveredOutput ==
  ASSUME NumMixes <= 2, NumLayers >= 3
  PROVE  NetSpec => []Delivered
<1>1. NetSpec => []RepliesLast
  <2>1. Init => RepliesLast
    BY DEF Init, RepliesLast
  <2>2. Spec => []RepliesLast
    BY <2>1, RepliesStep, Invariance, PTL DEF Spec
  <2> QED
    BY <2>2, RoundsOfMixnet, PTL
<1>2. DeliveryInv /\ RepliesLast => Delivered
  BY OutputDelivered
<1> QED
  BY <1>1, <1>2, DeliveryInvariance, PTL

\* What the comments of the code hope for holds if layers go by the RPC of their packets: the
\* data of the good clients comes out, whatever is verified.
LEMMA GoodOfDelivered == NetTypeOK /\ Delivered /\ RpcMatchesPackets => GoodDelivered
<1> SUFFICES ASSUME NetTypeOK, Delivered, RpcMatchesPackets,
                    NEW m \in Mixes, getpc[m] = "replied",
                    NEW k \in Clients \ BadClients, LastServer(k) = m
             PROVE  DeliveredAt(k, m)
  BY DEF GoodDelivered
<1>1. verification \in {"NoVerification", "Verify", "OnlyVerifyEdgeCases"}
  BY DEF NetTypeOK, AllVerifications
<1> QED
  BY <1>1 DEF Delivered

\* With two mixes and a middle layer, where every mix goes on with one request before it
\* parses the next and no connection breaks, the data of every good client comes out, in
\* each mode of verification, for any clients, circuits and edge limit.
THEOREM GoodOutput ==
  ASSUME NumMixes <= 2, NumLayers >= 3, Fragile = {}
  PROVE  NetSpec /\ []OneRequestAtATime => []GoodDelivered
<1>1. NetSpec => []Delivered
  BY DeliveredOutput
<1>2. NetSpec => []NetTypeOK
  BY DeliveryInvariance, PTL DEF DeliveryInv, RouteInv, NetInv
<1>3. Spec /\ []OneRequestAtATime => []RpcMatchesPackets
  BY RightRpc
<1> QED
  BY <1>1, <1>2, <1>3, RoundsOfMixnet, GoodOfDelivered, PTL

================================================================================
