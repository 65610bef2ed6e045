------------------------------- MODULE MixRounds -------------------------------
(***************************************************************************)
(* The round engine of a mix server (src/src/mix/mod.rs).                  *)
(*                                                                         *)
(* Every mix runs the gRPC handlers `setup' and `add' (one running handler *)
(* per call that reached it), and one `get' handler that the config        *)
(* process calls.  A handler parses its request into the output buffer of  *)
(* the mix, then looks whether the lowest buffered layer is complete; the  *)
(* handler that finds it complete sends the layer to all the mixes and     *)
(* waits for their replies.  Every finished handler gives the `get'        *)
(* handler one permit; with enough permits `get' takes the last layer out  *)
(* of the buffer and starts the next round.                                *)
(*                                                                         *)
(* A call is one RPC between mixes: who calls whom, from which layer, and  *)
(* which sending of that layer it belongs to.  The packets of a call are   *)
(* abstracted to the call itself: a buffer holds the set of calls whose    *)
(* packets and whose increment of the layer's counter it contains.         *)
(***************************************************************************)
EXTENDS Naturals, FiniteSets

CONSTANTS
  Mixes,              \* the mix servers, NUM_MIXES of them
  NumLayers,          \* NUM_LAYERS
  NumSetupRounds,     \* NUM_SETUP_ROUNDS
  NumDataRounds,      \* NUM_DATA_ROUNDS
  FirstMeasuredLayer, \* FIRST_MEASURED_LAYER
  Fragile             \* the calls whose connection may break

NumMixes == Cardinality(Mixes)
NumRounds == NumSetupRounds + NumDataRounds
Rounds == 0 .. NumRounds - 1

ASSUME MixesAssumption == IsFiniteSet(Mixes) /\ Mixes # {}
ASSUME LayersAssumption == NumLayers \in Nat /\ NumLayers >= 2
\* get() asserts NUM_DATA_ROUNDS > 0, and NUM_SETUP_ROUNDS - 1 is computed in u32.
ASSUME RoundsAssumption ==
  NumSetupRounds \in Nat \ {0} /\ NumDataRounds \in Nat \ {0}
ASSUME MeasureAssumption == FirstMeasuredLayer \in 1 .. NumLayers - 1

(***************************************************************************)
(* The calls.  From layer 0 a mix calls only itself, with the packets of   *)
(* its clients; from every other layer it calls all the mixes.  The last   *)
(* layer is not sent: get() outputs it.                                    *)
(***************************************************************************)
Dests(m, l) == IF l = 0 THEN {m} ELSE Mixes

Calls == {c \in [src : Mixes, dst : Mixes, layer : 0 .. NumLayers - 1, gen : Rounds] :
            c.dst \in Dests(c.src, c.layer)}

Batch(m, l, g) == {[src |-> m, dst |-> n, layer |-> l, gen |-> g] : n \in Dests(m, l)}

\* The rounds of setup packets come before the rounds of data packets.
Kind(g) == IF g < NumSetupRounds THEN "setup" ELSE "add"

\* Mutants: the call from layer 0 is not counted; the calls of one layer only are.
AmountToAcquire_OneLess == NumMixes * (NumLayers - 1)
AmountToAcquire_OneLayer == NumMixes

\* The permits get() takes for a round: one per call of the round to this mix.
AmountToAcquire == NumMixes * (NumLayers - 1) + 1

ASSUME FragileAssumption == Fragile \subseteq Calls

VARIABLES
  pc,        \* the progress of every call, at its callee
  method,    \* the RPC it was sent with: "setup" or "add"
  children,  \* the calls the handler of a call sent and waits for
  buffer,    \* output_buffer: per mix and layer, the calls parsed into it
  sent,      \* per mix and layer, how often the layer was sent
  permits,   \* notify, the semaphore get() waits on
  timer,     \* time: which sending of FirstMeasuredLayer set it (0: none yet)
  getpc,     \* the progress of the get() handler of every mix
  round,     \* the round that get() is in
  messages   \* the calls whose packets get() output last

vars == <<pc, method, children, buffer, sent, permits, timer, getpc, round, messages>>
handlerVars == <<pc, method, children, buffer, sent, permits, timer>>
getVars == <<getpc, round, messages>>

CallStates == {"unsent", "sent", "parsed", "waiting", "done", "failed"}
GetStates ==
  {"uncalled", "acquire", "output", "measure", "starting", "replied", "failed"}

TypeOK ==
  /\ pc \in [Calls -> CallStates]
  /\ method \in [Calls -> {"setup", "add"}]
  /\ children \in [Calls -> SUBSET Calls]
  /\ buffer \in [Mixes -> [1 .. NumLayers -> SUBSET Calls]]
  /\ sent \in [Mixes -> [0 .. NumLayers - 1 -> Nat]]
  /\ permits \in [Mixes -> Nat]
  /\ timer \in [Mixes -> Nat]
  /\ getpc \in [Mixes -> GetStates]
  /\ round \in [Mixes -> Rounds]
  /\ messages \in [Mixes -> SUBSET Calls]

(***************************************************************************)
(* run_mix() starts with the setup packets of the own clients on their way *)
(* to the own server (send_init_packets).                                  *)
(***************************************************************************)
Init ==
  /\ pc = [c \in Calls |-> IF c.layer = 0 /\ c.gen = 0 THEN "sent" ELSE "unsent"]
  /\ method = [c \in Calls |-> "setup"]
  /\ children = [c \in Calls |-> {}]
  /\ buffer = [m \in Mixes |-> [l \in 1 .. NumLayers |-> {}]]
  /\ sent = [m \in Mixes |-> [l \in 0 .. NumLayers - 1 |-> IF l = 0 THEN 1 ELSE 0]]
  /\ permits = [m \in Mixes |-> 0]
  /\ timer = [m \in Mixes |-> 0]
  /\ getpc = [m \in Mixes |-> "uncalled"]
  /\ round = [m \in Mixes |-> 0]
  /\ messages = [m \in Mixes |-> {}]

--------------------------------------------------------------------------------
(***************************************************************************)
(* The output buffer.                                                      *)
(***************************************************************************)
Keys(m) == {l \in 1 .. NumLayers : buffer[m][l] # {}}

\* Mutant: a handler looks at the highest layer.
MinKey_Highest(m, l) == l \in Keys(m) /\ \A k \in Keys(m) : k <= l

MinKey(m, l) == l \in Keys(m) /\ \A k \in Keys(m) : l <= k

\* Mutant: get() outputs the lowest layer.
MaxKey_Lowest(m, l) == MinKey(m, l)

MaxKey(m, l) == l \in Keys(m) /\ \A k \in Keys(m) : k <= l

\* Mutant: a layer is complete as soon as one call of it came.
Complete_AnyCall(m, l) == Cardinality(buffer[m][l]) >= 1 /\ l # NumLayers

\* is_middle_layer, for the lowest layer l in the buffer of m
Complete(m, l) ==
  \/ l = 1 /\ Cardinality(buffer[m][l]) = 1
  \/ Cardinality(buffer[m][l]) % NumMixes = 0 /\ l # NumLayers

IsMiddleLayer(m, l) == MinKey(m, l) /\ Complete(m, l)

--------------------------------------------------------------------------------
(***************************************************************************)
(* The handlers setup() and add() of call c, running at c.dst.             *)
(***************************************************************************)

\* Decrypt the packets and put them in the buffer of the next layer.
ParseInput(c) ==
  /\ pc[c] = "sent"
  /\ pc' = [pc EXCEPT ![c] = "parsed"]
  /\ buffer' = [buffer EXCEPT ![c.dst][c.layer + 1] = @ \union {c}]
  /\ UNCHANGED <<method, children, sent, permits, timer, getVars>>

\* Mutant: the handler forgets to notify get().
NothingToSend_Silent(c) ==
  /\ pc[c] = "parsed"
  /\ ~ \E l \in 1 .. NumLayers : IsMiddleLayer(c.dst, l)
  /\ pc' = [pc EXCEPT ![c] = "done"]
  /\ UNCHANGED <<method, children, buffer, sent, permits, timer, getVars>>

\* handle_middle_layer returns at once, and the handler notifies get() and replies.
NothingToSend(c) ==
  /\ pc[c] = "parsed"
  /\ ~ \E l \in 1 .. NumLayers : IsMiddleLayer(c.dst, l)
  /\ pc' = [pc EXCEPT ![c] = "done"]
  /\ permits' = [permits EXCEPT ![c.dst] = @ + 1]
  /\ UNCHANGED <<method, children, buffer, sent, timer, getVars>>

\* handle_middle_layer takes layer l out of the buffer, sends it to all the
\* mixes with the RPC of its own packet type, and waits for the replies.
SendLayer(c, l) ==
  LET m == c.dst
      batch == Batch(m, l, sent[m][l])
  IN  /\ pc[c] = "parsed"
      /\ IsMiddleLayer(m, l)
      /\ buffer' = [buffer EXCEPT ![m][l] = {}]
      /\ pc' = [x \in Calls |-> IF x \in batch THEN "sent"
                                ELSE IF x = c THEN "waiting" ELSE pc[x]]
      /\ method' = [x \in Calls |-> IF x \in batch THEN method[c] ELSE method[x]]
      /\ children' = [children EXCEPT ![c] = batch \intersect Calls]
      /\ sent' = [sent EXCEPT ![m][l] = @ + 1]
      /\ timer' = [timer EXCEPT ![m] = IF l = FirstMeasuredLayer THEN sent[m][l] + 1 ELSE @]
      /\ UNCHANGED <<permits, getVars>>

\* Mutant: get() is notified twice.
Finish_NotifiesTwice(c) ==
  /\ pc[c] = "waiting"
  /\ \A x \in children[c] : pc[x] = "done"
  /\ pc' = [pc EXCEPT ![c] = "done"]
  /\ children' = [children EXCEPT ![c] = {}]
  /\ permits' = [permits EXCEPT ![c.dst] = @ + 2]
  /\ UNCHANGED <<method, buffer, sent, timer, getVars>>

\* All the mixes replied: the handler notifies get() and replies in its turn.
Finish(c) ==
  /\ pc[c] = "waiting"
  /\ \A x \in children[c] : pc[x] = "done"
  /\ pc' = [pc EXCEPT ![c] = "done"]
  /\ children' = [children EXCEPT ![c] = {}]
  /\ permits' = [permits EXCEPT ![c.dst] = @ + 1]
  /\ UNCHANGED <<method, buffer, sent, timer, getVars>>

(***************************************************************************)
(* Failures.  A failed handler or call is never retried.                   *)
(***************************************************************************)
InProgress(c) == pc[c] \in {"sent", "parsed", "waiting"}

\* Mutant: the permit is given also when the handler fails.
Fail_StillNotifies(c) ==
  /\ pc' = [pc EXCEPT ![c] = "failed"]
  /\ permits' = [permits EXCEPT ![c.dst] = @ + 1]
  /\ UNCHANGED <<method, children, buffer, sent, timer, getVars>>

Fail(c) ==
  /\ pc' = [pc EXCEPT ![c] = "failed"]
  /\ UNCHANGED <<method, children, buffer, sent, permits, timer, getVars>>

\* setup() panics on packets that are not setup packets (decrypt_setup_layer).
\* It does not when the batch has no packet for this mix: then ParseInput applies.
Panic(c) == pc[c] = "sent" /\ method[c] = "setup" /\ Kind(c.gen) = "add" /\ Fail(c)

\* The connection of the call breaks.
Break(c) == c \in Fragile /\ InProgress(c) /\ Fail(c)

\* A handler that waits for a failed call panics (`expect' in send_to_mix), and
\* what the handler of a failed call waits for is cancelled with it.
Cascade(c) ==
  /\ InProgress(c)
  /\ \/ \E x \in children[c] : pc[x] = "failed"
     \/ \E p \in Calls : pc[p] = "failed" /\ c \in children[p]
  /\ Fail(c)

--------------------------------------------------------------------------------
(***************************************************************************)
(* The handler get() of mix m.                                             *)
(***************************************************************************)
GetRequest(m) ==
  /\ getpc[m] = "uncalled"
  /\ getpc' = [getpc EXCEPT ![m] = "acquire"]
  /\ UNCHANGED <<handlerVars, round, messages>>

\* Mutant: get() does not wait for the permits.
Acquire_NoWait(m) ==
  /\ getpc[m] = "acquire"
  /\ permits' = [permits EXCEPT ![m] = @ - AmountToAcquire]
  /\ getpc' = [getpc EXCEPT ![m] = "output"]
  /\ UNCHANGED <<pc, method, children, buffer, sent, timer, round, messages>>

Acquire(m) ==
  /\ getpc[m] = "acquire"
  /\ permits[m] >= AmountToAcquire
  /\ permits' = [permits EXCEPT ![m] = @ - AmountToAcquire]
  /\ getpc' = [getpc EXCEPT ![m] = "output"]
  /\ UNCHANGED <<pc, method, children, buffer, sent, timer, round, messages>>

\* output_last_layer: take the highest layer out of the buffer.
OutputLastLayer(m) ==
  /\ getpc[m] = "output"
  /\ \E l \in 1 .. NumLayers :
       /\ MaxKey(m, l)
       /\ messages' = [messages EXCEPT ![m] = buffer[m][l]]
       /\ buffer' = [buffer EXCEPT ![m][l] = {}]
  /\ getpc' = [getpc EXCEPT ![m] = "measure"]
  /\ UNCHANGED <<pc, method, children, sent, permits, timer, round>>

\* The call start_mix_round makes for the round after round[m]
StartCall(m) == [src |-> m, dst |-> m, layer |-> 0, gen |-> sent[m][0]]

\* measure_time, then start_mix_round: call the own server with the packets of the
\* own clients, setup packets while there are setup rounds left.
StartMixRound(m) ==
  /\ getpc[m] = "measure"
  /\ round[m] < NumRounds - 1
  /\ pc' = [pc EXCEPT ![StartCall(m)] = "sent"]
  /\ method' = [method EXCEPT ![StartCall(m)] =
                  IF round[m] < NumSetupRounds - 1 THEN "setup" ELSE "add"]
  /\ sent' = [sent EXCEPT ![m][0] = @ + 1]
  /\ getpc' = [getpc EXCEPT ![m] = "starting"]
  /\ UNCHANGED <<children, buffer, permits, timer, round, messages>>

\* The own server replied to start_mix_round: wait for the end of the round.
NextRound(m) ==
  /\ getpc[m] = "starting"
  /\ \E c \in Calls : /\ c.src = m /\ c.layer = 0 /\ c.gen = round[m] + 1
                      /\ pc[c] = "done"
  /\ round' = [round EXCEPT ![m] = @ + 1]
  /\ getpc' = [getpc EXCEPT ![m] = "acquire"]
  /\ UNCHANGED <<handlerVars, messages>>

\* After the last round get() replies to the config process.
Reply(m) ==
  /\ getpc[m] = "measure"
  /\ round[m] = NumRounds - 1
  /\ getpc' = [getpc EXCEPT ![m] = "replied"]
  /\ UNCHANGED <<handlerVars, round, messages>>

\* start_mix_round panics when its call failed, and get() never replies.
GetPanic(m) ==
  /\ getpc[m] = "starting"
  /\ \E c \in Calls : /\ c.src = m /\ c.layer = 0 /\ c.gen = round[m] + 1
                      /\ pc[c] = "failed"
  /\ getpc' = [getpc EXCEPT ![m] = "failed"]
  /\ UNCHANGED <<handlerVars, round, messages>>

--------------------------------------------------------------------------------
Handler(c) ==
  \/ ParseInput(c)
  \/ NothingToSend(c)
  \/ \E l \in 1 .. NumLayers - 1 : SendLayer(c, l)
  \/ Finish(c)

Get(m) ==
  \/ Acquire(m) \/ OutputLastLayer(m) \/ StartMixRound(m) \/ NextRound(m) \/ Reply(m)

Failure(c) == Panic(c) \/ Break(c) \/ Cascade(c)

\* All the get() handlers replied, or a call failed and nobody repeats it: the
\* mixes may idle until they are shut down.
Finished ==
  \/ \A m \in Mixes : getpc[m] = "replied"
  \/ \E c \in Calls : pc[c] = "failed"

Idle == Finished /\ UNCHANGED vars

Next ==
  \/ \E c \in Calls : Handler(c)
  \/ \E c \in Calls : Failure(c)
  \/ \E m \in Mixes : GetRequest(m)
  \/ \E m \in Mixes : Get(m)
  \/ \E m \in Mixes : GetPanic(m)
  \/ Idle

Spec == Init /\ [][Next]_vars

\* A mix goes on with a request it has parsed before it parses the next one: what a
\* server with one worker thread does.
OneRequestAtATime ==
  \A m \in Mixes : Cardinality({c \in Calls : c.dst = m /\ pc[c] = "parsed"}) <= 1

\* tokio runs every task that can go on: it never leaves all of the handlers, or
\* all of the get() handlers, aside forever.  The config process calls every mix.
FairSpec ==
  /\ Spec
  /\ WF_vars(\E c \in Calls : Handler(c))
  /\ WF_vars(\E m \in Mixes : GetRequest(m))
  /\ WF_vars(\E m \in Mixes : Get(m))

--------------------------------------------------------------------------------
(***************************************************************************)
(* Safety, whatever the number of mixes, layers and failures.              *)
(***************************************************************************)

\* A mix that sends a layer sends packets of one round only: what the buffer holds
\* for a layer that is still to be sent are calls of the round that the mix sends
\* next from it, and they come from the layer below (output_buffer has no notion of
\* a round: the keys are layers).
LayerPure ==
  \A m \in Mixes : \A l \in 1 .. NumLayers - 1 : \A c \in buffer[m][l] :
    c.dst = m /\ c.layer = l - 1 /\ c.gen = sent[m][l]

\* No mix starts a round before every mix has sent its last layer of the round
\* before, although get() counts permits and never asks the other mixes.
Lockstep ==
  \A m, n \in Mixes : sent[m][0] <= sent[n][NumLayers - 1] + 1

\* No lost wake-up: when a layer is complete, a handler of the mix is still to look
\* at the buffer and send it (the handler that completes a layer may be overtaken by
\* another that sends it, and then has to send what the other was called for),
\* unless a handler of the mix failed.
NoStrandedLayer ==
  \A m \in Mixes : \A l \in 1 .. NumLayers - 1 :
    buffer[m][l] # {} /\ Complete(m, l) =>
      \E c \in Calls : c.dst = m /\ pc[c] \in {"parsed", "failed"}

\* The time that measure_time logs for a round started in that round.
MeasuredRound ==
  \A m \in Mixes : getpc[m] = "measure" => timer[m] = round[m] + 1

\* output_last_layer always finds the last layer in the buffer, also when get() is
\* woken by calls of the next round (its `expect' never panics, and what it takes
\* out is not a layer that is still to be sent).
OutputNotEmpty ==
  \A m \in Mixes : getpc[m] = "output" => buffer[m][NumLayers] # {}

\* No setup packet is sent with the RPC of data packets, where decrypting fails and it
\* is dropped without a trace: a handler of a data round that sends another layer than
\* its own finds every setup layer of its mix already sent.
SetupNeverAdded ==
  \A c \in Calls : pc[c] # "unsent" /\ method[c] = "add" => Kind(c.gen) = "add"

\* The call that sets the circuits up which the packets of call d follow: the same two
\* mixes and the same layer, in a setup round.
SetsUp(c, d) ==
  /\ c.src = d.src /\ c.dst = d.dst /\ c.layer = d.layer
  /\ Kind(c.gen) = "setup" /\ Kind(d.gen) = "add"

\* A setup request to any layer but the last is handled before the data on its way (or
\* failed): its connections are there when they are looked up.
MiddleSetupBeforeData ==
  \A c, d \in Calls :
    SetsUp(c, d) /\ c.layer < NumLayers - 1 /\ pc[d] # "unsent" =>
      pc[c] \notin {"unsent", "sent"}

(***************************************************************************)
(* Safety of two mixes with at least three layers.                         *)
(***************************************************************************)
LastLayerCalls(m, r) ==
  {[src |-> n, dst |-> m, layer |-> NumLayers - 1, gen |-> r] : n \in Mixes}

\* get() outputs the packets of every mix, and of this round only: the messages are
\* the same for each round.
OutputComplete ==
  \A m \in Mixes : getpc[m] \in {"measure", "replied"} =>
    messages[m] = LastLayerCalls(m, round[m])

\* Setup rounds prepare all circuits for the following rounds: no data is decrypted, and
\* dropped for want of its connection, before the setup request of its circuit is.
SetupBeforeData ==
  \A c, d \in Calls :
    SetsUp(c, d) /\ pc[d] \in {"parsed", "waiting", "done"} =>
      pc[c] \notin {"unsent", "sent"}

\* A lost call from one mix to the other stops both: neither begins another round,
\* although get() counts permits only, whatever round they are from.
FailureStopsRounds ==
  \A c \in Calls : c.src # c.dst /\ pc[c] = "failed" =>
    \A m \in Mixes : sent[m][0] <= c.gen + 1

(***************************************************************************)
(* What the comments of the code claim, and the code does not ensure.      *)
(***************************************************************************)

\* "if setup packet send setup, else add" (send_to_mix).
RpcMatchesPackets ==
  \A c \in Calls : pc[c] # "unsent" => method[c] = Kind(c.gen)

\* "Wait til the mix is done getting all requests for this round" (get).
GotAllRequests ==
  \A m \in Mixes : getpc[m] = "output" =>
    \A c \in Calls : c.dst = m /\ c.gen <= round[m] => pc[c] \notin {"unsent", "sent"}

(***************************************************************************)
(* Liveness.                                                               *)
(***************************************************************************)

\* The mixnet ends: every get() handler replies, or a call failed.  No scheduling of
\* the handlers alone makes it hang.
AllFinish == <>Finished

(***************************************************************************)
(* The abstract barrier, and how the state of the mixes maps to it.        *)
(***************************************************************************)
Collected(m) == IF getpc[m] \in {"measure", "starting", "replied", "failed"}
                THEN round[m] + 1 ELSE round[m]

Barrier == INSTANCE RoundBarrier WITH
  begun <- [m \in Mixes |-> sent[m][0]],
  contributed <- [m \in Mixes |-> sent[m][NumLayers - 1]],
  collected <- [m \in Mixes |-> Collected(m)]

\* The mixes implement the barrier between rounds.
ImplementsBarrier == Barrier!Spec

--------------------------------------------------------------------------------
(***************************************************************************)
(* The inductive invariant.                                                *)
(***************************************************************************)

\* A call is sent when its sending is.
SentCalls == \A c \in Calls : pc[c] = "unsent" <=> c.gen >= sent[c.src][c.layer]

\* A mix sends the layers of a round from the first to the last.
SentOrder ==
  \A m \in Mixes : \A k, l \in 0 .. NumLayers - 1 : k <= l => sent[m][l] <= sent[m][k]

\* What is in the buffer, and what was sent from it, had been parsed.
BufferParsed ==
  /\ \A m \in Mixes : \A l \in 1 .. NumLayers - 1 : \A c \in buffer[m][l] :
       pc[c] \notin {"unsent", "sent"}
  /\ \A c \in Calls :
       c.layer + 1 < NumLayers /\ c.gen < sent[c.dst][c.layer + 1] =>
         pc[c] \notin {"unsent", "sent"}

\* The round of get() is the number of rounds begun, and once get() has its permits
\* every mix has sent its last layer of the round.
GetRound ==
  \A m \in Mixes :
    /\ sent[m][0] = round[m] + (IF getpc[m] \in {"starting", "failed"} THEN 2 ELSE 1)
    /\ getpc[m] \in {"starting", "failed"} => round[m] < NumRounds - 1
    /\ getpc[m] \in {"output", "measure"} =>
         \A n \in Mixes : sent[n][NumLayers - 1] >= round[m] + 1

\* Every finished handler gave one permit, and get() takes them round by round.
DoneCalls(m) == {c \in Calls : c.dst = m /\ pc[c] = "done"}
Acquired(m) == IF getpc[m] \in {"uncalled", "acquire"} THEN round[m] ELSE round[m] + 1
PermitCount ==
  \A m \in Mixes :
    permits[m] + AmountToAcquire * Acquired(m) = Cardinality(DoneCalls(m))

TimerSet == \A m \in Mixes : timer[m] = sent[m][FirstMeasuredLayer]

IInv ==
  /\ TypeOK
  /\ SentCalls
  /\ SentOrder
  /\ LayerPure
  /\ BufferParsed
  /\ Lockstep
  /\ GetRound
  /\ PermitCount
  /\ TimerSet
  /\ NoStrandedLayer

--------------------------------------------------------------------------------
(***************************************************************************)
(* The inductive invariant for the output, whatever the number of mixes.   *)
(***************************************************************************)

\* The layer that get() outputs holds calls of the last layer sent to its mix.
LastLayerParsed ==
  \A m \in Mixes : \A c \in buffer[m][NumLayers] :
    c.dst = m /\ c.layer = NumLayers - 1 /\ pc[c] \notin {"unsent", "sent"}

\* A call of the last layer that was parsed, and did not fail, is still there to be output
\* if its round is not collected.  Where there is no middle layer, another mix may be a
\* round ahead, and its call of the next round is output with this one.
LastLayerKept ==
  \A c \in Calls :
    c.layer = NumLayers - 1 /\ pc[c] \in {"parsed", "waiting", "done"}
      /\ c \notin buffer[c.dst][NumLayers] =>
        \/ c.gen < Collected(c.dst)
        \/ NumLayers = 2 /\ c.src # c.dst /\ c.gen = Collected(c.dst)

OutputInv == IInv /\ LastLayerParsed /\ LastLayerKept

--------------------------------------------------------------------------------
(***************************************************************************)
(* The inductive invariant for two mixes.                                  *)
(***************************************************************************)

\* The calls of a layer are done, or an earlier call is not: the one whose handler sent
\* the layer waits for them, or failed.
Joined ==
  \A m \in Mixes : \A l \in 1 .. NumLayers - 1 : \A g \in Rounds : g < sent[m][l] =>
    \/ \A y \in Batch(m, l, g) : pc[y] = "done"
    \/ \E x \in Calls \ Batch(m, l, g) :
         /\ x.dst = m /\ x.gen <= g
         /\ pc[x] = "failed" \/ (pc[x] = "waiting" /\ Batch(m, l, g) \subseteq children[x])

\* get() has waited for the call that starts its round, but for the first one, which
\* run_mix() sends.
StartsDone ==
  \A c \in Calls : c.layer = 0 /\ c.gen \in 1 .. round[c.src] => pc[c] = "done"

\* The permits of a round are those of its own calls: once get() has them, the calls of
\* the round are done, all but the first one perhaps.
PermitsOfRound ==
  \A c \in Calls :
    c.gen < Acquired(c.dst) => pc[c] = "done" \/ (c.layer = 0 /\ c.gen = 0)

\* Only the mix that is behind can have got its permits with a call of the next round in
\* place of the first one.
BehindOfFirst ==
  \A c \in Calls :
    c.layer = 0 /\ c.gen = 0 /\ pc[c] # "done" /\ Acquired(c.dst) >= 1 =>
      \A d \in Calls :
        d.layer = 0 /\ d.gen = 0 /\ d # c =>
          pc[d] = "done" /\ Acquired(d.dst) >= Acquired(c.dst)

\* Nothing of a collected round is left to be output.
LastLayerFresh ==
  \A m \in Mixes : \A c \in buffer[m][NumLayers] : c.gen >= Collected(m)

TwoMixInv ==
  /\ OutputInv
  /\ Joined
  /\ StartsDone
  /\ PermitsOfRound
  /\ BehindOfFirst
  /\ LastLayerFresh

--------------------------------------------------------------------------------
(***************************************************************************)
(* The inductive invariant for one request at a time, without failures.    *)
(***************************************************************************)

\* A complete layer is sent by the handler whose request completed it: nobody else is
\* between parsing its request and looking at the buffer.
CompletedBySender ==
  \A m \in Mixes : \A l \in 1 .. NumLayers - 1 :
    buffer[m][l] # {} /\ Complete(m, l) => \E c \in buffer[m][l] : pc[c] = "parsed"

NoneFailed == \A c \in Calls : pc[c] # "failed"

OneRequestInv == CompletedBySender /\ NoneFailed /\ RpcMatchesPackets

================================================================================
