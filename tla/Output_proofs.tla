------------------------------ MODULE Output_proofs ------------------------------
(***************************************************************************)
(* Proofs about what get() outputs, for any number of mixes, layers, rounds*)
(* and broken calls, and about what only two mixes can rely on.            *)
(***************************************************************************)
EXTENDS MixRounds_proofs

--------------------------------------------------------------------------------
(***************************************************************************)
(* How a step changes the calls, the rounds and the last layer.            *)
(***************************************************************************)

\* A handler sends calls of a sending that nobody has made.
LEMMA BatchUnsent ==
  ASSUME IInv, NEW c \in Calls, NEW l \in 1 .. NumLayers - 1, SendLayer(c, l)
  PROVE  /\ sent[c.dst][l] \in Rounds
         /\ Batch(c.dst, l, sent[c.dst][l]) \subseteq Calls
         /\ \A x \in Batch(c.dst, l, sent[c.dst][l]) : pc[x] = "unsent"
<1> DEFINE m == c.dst
           g == sent[m][l]
<1>1. /\ m \in Mixes /\ l \in 0 .. NumLayers - 1 /\ l \in 1 .. NumLayers
  BY CallFields, ConstantTypes
<1>2. buffer[m][l] # {} /\ Complete(m, l)
  BY <1>1 DEF SendLayer, IsMiddleLayer, MinKey, Keys
<1>3. buffer[m][l] = LayerCalls(m, l - 1, g)
  BY <1>1, <1>2, CompleteLayer DEF IInv
<1>4. g \in Rounds
  <2>1. PICK y \in LayerCalls(m, l - 1, g) : TRUE
    BY <1>2, <1>3
  <2> QED
    BY <2>1, CallFields DEF LayerCalls
<1>5. Batch(m, l, g) \subseteq Calls
  BY <1>1, <1>4, ConstantTypes DEF Batch, Calls, Dests
<1>6. g \in Nat
  BY <1>1, SentNat DEF IInv
<1>7. ASSUME NEW x \in Batch(m, l, g) PROVE pc[x] = "unsent"
  <2>1. x \in Calls /\ x.src = m /\ x.layer = l /\ x.gen = g
    BY <1>5 DEF Batch
  <2> QED
    BY <1>6, <2>1 DEF IInv, SentCalls
<1> QED
  BY <1>4, <1>5, <1>7

\* The call that starts a round is one that was not made before.
LEMMA StartUnsent ==
  ASSUME IInv, NEW m \in Mixes, StartMixRound(m)
  PROVE  StartCall(m) \in Calls /\ pc[StartCall(m)] = "unsent"
<1>1. 0 \in 0 .. NumLayers - 1
  BY ConstantTypes
<1>2. sent[m][0] = round[m] + 1 /\ round[m] \in Rounds /\ round[m] < NumRounds - 1
  BY DEF StartMixRound, IInv, GetRound, TypeOK
<1>3. StartCall(m) \in Calls
  BY <1>1, <1>2, ConstantTypes DEF StartCall, Calls, Dests, Rounds
<1>4. sent[m][0] \in Nat
  BY <1>1, SentNat DEF IInv
<1> QED
  BY <1>3, <1>4 DEF StartCall, IInv, SentCalls

\* A call never goes back: what is answered stays answered, what failed stays failed, and
\* it is handled only after it is parsed.
LEMMA CallsProgress ==
  ASSUME IInv, [Next]_vars, NEW x \in Calls
  PROVE  /\ pc[x] = "done" => pc'[x] = "done"
         /\ pc[x] = "failed" => pc'[x] = "failed"
         /\ pc[x] # "unsent" => pc'[x] # "unsent"
         /\ pc[x] \notin {"unsent", "sent"} => pc'[x] \notin {"unsent", "sent"}
         /\ pc[x] \in {"unsent", "sent"} /\ pc'[x] \in {"parsed", "waiting", "done"} =>
              ParseInput(x)
<1> USE DEF IInv, TypeOK
<1>1. CASE UNCHANGED pc
  BY <1>1
<1>2. ASSUME NEW c \in Calls, ParseInput(c) \/ NothingToSend(c) \/ Finish(c)
      PROVE  \/ pc'[x] = pc[x]
             \/ ParseInput(x) /\ pc[x] = "sent" /\ pc'[x] = "parsed"
             \/ pc[x] \in {"parsed", "waiting"} /\ pc'[x] = "done"
  <2>1. CASE ParseInput(c)
    BY <2>1 DEF ParseInput
  <2>2. CASE NothingToSend(c)
    BY <2>2 DEF NothingToSend
  <2>3. CASE Finish(c)
    BY <2>3 DEF Finish
  <2> QED
    BY <1>2, <2>1, <2>2, <2>3
<1>3. ASSUME NEW c \in Calls, Failure(c)
      PROVE  /\ pc'[x] = IF x # c THEN pc[x] ELSE pc'[x]
             /\ pc[c] \in {"sent", "parsed", "waiting"} /\ pc'[c] = "failed"
  BY <1>3 DEF Failure, Panic, Break, Cascade, Fail, InProgress
<1>4. ASSUME NEW c \in Calls, NEW l \in 1 .. NumLayers - 1, SendLayer(c, l)
      PROVE  \/ pc'[x] = pc[x]
             \/ pc[x] = "unsent" /\ pc'[x] = "sent"
             \/ pc[x] = "parsed" /\ pc'[x] = "waiting"
  BY <1>4, BatchUnsent DEF SendLayer
<1>5. ASSUME NEW m \in Mixes, StartMixRound(m)
      PROVE  pc'[x] = pc[x] \/ (pc[x] = "unsent" /\ pc'[x] = "sent")
  BY <1>5, StartUnsent DEF StartMixRound
<1>6. ASSUME NEW m \in Mixes, \/ GetRequest(m) \/ Acquire(m) \/ OutputLastLayer(m)
                              \/ NextRound(m) \/ Reply(m) \/ GetPanic(m)
      PROVE  UNCHANGED pc
  BY <1>6 DEF GetRequest, Acquire, OutputLastLayer, NextRound, Reply, GetPanic, handlerVars
<1>7. Idle \/ UNCHANGED vars => UNCHANGED pc
  BY DEF Idle, vars
<1>8. ASSUME NEW c \in Calls, Handler(c)
      PROVE  \/ ParseInput(c) \/ NothingToSend(c) \/ Finish(c)
             \/ \E l \in 1 .. NumLayers - 1 : SendLayer(c, l)
  BY <1>8 DEF Handler
<1> HIDE DEF IInv, TypeOK
<1>9. CASE \E c \in Calls : Handler(c)
  BY <1>2, <1>4, <1>8, <1>9
<1>10. CASE \E c \in Calls : Failure(c)
  BY <1>3, <1>10
<1>11. CASE \E m \in Mixes : GetRequest(m) \/ Get(m) \/ GetPanic(m)
  BY <1>1, <1>5, <1>6, <1>11 DEF Get
<1> QED
  BY <1>1, <1>7, <1>9, <1>10, <1>11 DEF Next

\* What get() of a mix has collected, and what is in the last layer of its buffer, change
\* when a call of the last layer is parsed, and when get() outputs the layer.
LEMMA LastLayerStep ==
  ASSUME IInv, [Next]_vars, NEW m \in Mixes
  PROVE  \/ buffer'[m][NumLayers] = buffer[m][NumLayers] /\ Collected(m)' = Collected(m)
         \/ \E c \in Calls :
              /\ ParseInput(c) /\ c.dst = m /\ c.layer = NumLayers - 1
              /\ buffer'[m][NumLayers] = buffer[m][NumLayers] \union {c}
              /\ Collected(m)' = Collected(m)
         \/ OutputLastLayer(m)
<1> DEFINE Same == /\ buffer'[m][NumLayers] = buffer[m][NumLayers]
                  /\ Collected(m)' = Collected(m)
<1> USE DEF IInv, TypeOK
<1>1. NumLayers \in 1 .. NumLayers /\ NumLayers \notin 1 .. NumLayers - 1
  BY ConstantTypes
<1>2. ASSUME UNCHANGED <<buffer, getpc, round>> PROVE Same
  BY <1>2 DEF Collected
<1>3. ASSUME NEW c \in Calls, ParseInput(c), ~ Same
      PROVE  /\ c.dst = m /\ c.layer = NumLayers - 1
             /\ buffer'[m][NumLayers] = buffer[m][NumLayers] \union {c}
             /\ Collected(m)' = Collected(m)
  <2>1. Collected(m)' = Collected(m)
    BY <1>3 DEF ParseInput, getVars, Collected
  <2>2. c.dst \in Mixes /\ c.layer + 1 \in 1 .. NumLayers /\ c.layer \in Nat
    BY CallFields, ConstantTypes
  <2>3. buffer'[m][NumLayers] = IF c.dst = m /\ c.layer + 1 = NumLayers
                                THEN buffer[m][NumLayers] \union {c}
                                ELSE buffer[m][NumLayers]
    BY <1>1, <1>3, <2>2 DEF ParseInput
  <2> QED
    BY <1>3, <2>1, <2>2, <2>3, ConstantTypes
<1>4. ASSUME NEW c \in Calls, NothingToSend(c) \/ Finish(c) \/ Failure(c) PROVE Same
  BY <1>2, <1>4 DEF NothingToSend, Finish, Failure, Panic, Break, Cascade, Fail, getVars
<1>5. ASSUME NEW c \in Calls, NEW l \in 1 .. NumLayers - 1, SendLayer(c, l) PROVE Same
  <2>1. Collected(m)' = Collected(m)
    BY <1>5 DEF SendLayer, getVars, Collected
  <2>2. buffer'[m][NumLayers] = buffer[m][NumLayers]
    BY <1>1, <1>5 DEF SendLayer
  <2> QED
    BY <2>1, <2>2
<1>6. ASSUME NEW n \in Mixes, OutputLastLayer(n), n # m PROVE Same
  <2>1. Collected(m)' = Collected(m)
    BY <1>6 DEF OutputLastLayer, Collected
  <2>2. buffer'[m] = buffer[m]
    BY <1>6 DEF OutputLastLayer
  <2> QED
    BY <2>1, <2>2
<1>7. ASSUME NEW n \in Mixes, \/ GetRequest(n) \/ Acquire(n) \/ StartMixRound(n)
                              \/ NextRound(n) \/ Reply(n) \/ GetPanic(n)
      PROVE  Same
  <2>1. /\ n # m => getpc'[m] = getpc[m] /\ round'[m] = round[m]
        /\ \/ getpc[n] = "uncalled" /\ getpc'[n] = "acquire" /\ round'[n] = round[n]
           \/ getpc[n] = "acquire" /\ getpc'[n] = "output" /\ round'[n] = round[n]
           \/ getpc[n] = "measure" /\ getpc'[n] = "starting" /\ round'[n] = round[n]
           \/ getpc[n] = "starting" /\ getpc'[n] = "acquire" /\ round'[n] = round[n] + 1
           \/ getpc[n] = "measure" /\ getpc'[n] = "replied" /\ round'[n] = round[n]
           \/ getpc[n] = "starting" /\ getpc'[n] = "failed" /\ round'[n] = round[n]
    BY <1>7 DEF GetRequest, Acquire, StartMixRound, NextRound, Reply, GetPanic
  <2>2. Collected(m)' = Collected(m)
    BY <2>1 DEF Collected
  <2>3. buffer' = buffer
    BY <1>7 DEF GetRequest, Acquire, StartMixRound, NextRound, Reply, GetPanic, handlerVars
  <2> QED
    BY <2>2, <2>3
<1>8. Idle \/ UNCHANGED vars => Same
  BY <1>2 DEF Idle, vars
<1> HIDE DEF IInv, TypeOK, Same
<1>9. ASSUME NEW c \in Calls, Handler(c), ~ Same
      PROVE  ParseInput(c)
  BY <1>4, <1>5, <1>9 DEF Handler
<1>10. ASSUME NEW n \in Mixes, GetRequest(n) \/ Get(n) \/ GetPanic(n), ~ Same
       PROVE  OutputLastLayer(m)
  BY <1>6, <1>7, <1>10 DEF Get
<1>11. CASE ~ Same
  BY <1>3, <1>4, <1>8, <1>9, <1>10, <1>11 DEF Next
<1> QED
  BY <1>11 DEF Same

--------------------------------------------------------------------------------
(***************************************************************************)
(* The output is never empty.                                              *)
(***************************************************************************)

\* The only calls of a round that reach a mix before it begins the round come from the
\* first middle layer of other mixes: for what comes later they need its own packets.
LEMMA CallsAhead ==
  ASSUME IInv, NEW c \in Calls, pc[c] # "unsent"
  PROVE  /\ c.gen <= sent[c.dst][0]
         /\ c.gen = sent[c.dst][0] => c.src # c.dst /\ c.layer = 1
<1>1. /\ c.src \in Mixes /\ c.dst \in Mixes /\ c.gen \in Nat /\ c.gen \in Rounds
      /\ c.layer \in 0 .. NumLayers - 1 /\ c.layer \in Nat
      /\ 0 \in 0 .. NumLayers - 1 /\ NumLayers - 1 \in 0 .. NumLayers - 1
  BY CallFields, ConstantTypes
<1>2. \A m \in Mixes : \A l \in 0 .. NumLayers - 1 : sent[m][l] \in Nat
  BY SentNat DEF IInv
<1>3. c.gen < sent[c.src][c.layer]
  BY <1>1, <1>2 DEF IInv, SentCalls
<1>4. sent[c.src][c.layer] <= sent[c.src][0]
  BY <1>1 DEF IInv, SentOrder
<1>5. sent[c.src][0] <= sent[c.dst][0] + 1
  BY <1>1, OneAhead
<1>6. ASSUME c.gen = sent[c.dst][0], c.layer # 1 PROVE c.src = c.dst
  <2> DEFINE y == [src |-> c.dst, dst |-> c.src, layer |-> c.layer - 1, gen |-> c.gen]
  <2>1. CASE c.layer = 0
    BY <2>1, CallFields
  <2>2. CASE c.layer > 1
    <3>1. c.layer - 1 \in 0 .. NumLayers - 1 /\ c.layer - 1 # 0 /\ y.layer + 1 = c.layer
      BY <1>1, <2>2, ConstantTypes
    <3>2. y \in Calls
      BY <1>1, <3>1 DEF Calls, Dests
    <3>3. y.layer + 1 < NumLayers
      BY <1>1, <3>1, ConstantTypes
    <3>4. pc[y] # "unsent"
      BY <1>3, <3>1, <3>2, <3>3 DEF IInv, BufferParsed
    <3>5. c.gen < sent[c.dst][c.layer - 1]
      BY <1>1, <1>2, <3>1, <3>2, <3>4 DEF IInv, SentCalls
    <3>6. sent[c.dst][c.layer - 1] <= sent[c.dst][0]
      BY <1>1, <3>1 DEF IInv, SentOrder
    <3> QED
      BY <1>1, <1>2, <1>6, <3>1, <3>5, <3>6
  <2> QED
    BY <1>1, <1>6, <2>1, <2>2
<1> QED
  BY <1>1, <1>2, <1>3, <1>4, <1>5, <1>6

\* When get() has its permits, a last layer is there.  Were the buffer empty, no call of
\* the last layer of this round would be done.  What could have given a permit in its
\* place are calls of the next round, from the first middle layers of the other mixes:
\* they are one too few.
LEMMA OutputThere == OutputInv => OutputNotEmpty
<1> SUFFICES ASSUME OutputInv, NEW m \in Mixes, getpc[m] = "output",
                    buffer[m][NumLayers] = {}
             PROVE  FALSE
  BY DEF OutputNotEmpty
<1> DEFINE r == round[m]
           L == NumLayers - 1
           U == {c \in Calls : c.dst = m /\ c.gen <= r}
           own == [src |-> m, dst |-> m, layer |-> L, gen |-> r]
           inPlace(c) == [src |-> c.src, dst |-> m, layer |-> L, gen |-> r]
           f == [c \in DoneCalls(m) |-> IF c.gen = r + 1 THEN inPlace(c) ELSE c]
<1>1. IInv
  BY DEF OutputInv
<1>2. r \in Rounds /\ r \in Nat
  BY <1>1, ConstantTypes DEF IInv, TypeOK, Rounds
<1>3. sent[m][0] = r + 1 /\ Collected(m) = r /\ Acquired(m) = r + 1
  BY <1>1 DEF IInv, GetRound, Collected, Acquired
<1>4. L \in 0 .. NumLayers - 1 /\ L \in Nat /\ L # 0 /\ (L = 1 <=> NumLayers = 2)
  BY ConstantTypes
<1>5. own \in U
  BY <1>2, <1>4 DEF Calls, Dests
<1>6. ASSUME NEW c \in DoneCalls(m)
      PROVE  /\ c \in Calls /\ c.dst = m /\ c.gen \in Nat /\ c.gen <= r + 1
             /\ c.gen = r + 1 => c.src # m /\ c.layer = 1
             /\ c.layer = L => c.gen < r \/ (L = 1 /\ c.src # m /\ c.gen = r)
  <2>1. c \in Calls /\ c.dst = m /\ pc[c] = "done"
    BY DEF DoneCalls
  <2>2. c.gen \in Nat
    BY <2>1, CallFields
  <2>3. c.gen <= r + 1 /\ (c.gen = r + 1 => c.src # m /\ c.layer = 1)
    BY <1>1, <1>3, <2>1, CallsAhead
  <2>4. c.layer = L => c.gen < r \/ (NumLayers = 2 /\ c.src # m /\ c.gen = r)
    BY <1>3, <2>1 DEF OutputInv, LastLayerKept
  <2> QED
    BY <1>4, <2>1, <2>2, <2>3, <2>4
<1>7. f \in [DoneCalls(m) -> U \ {own}]
  <2> SUFFICES ASSUME NEW c \in DoneCalls(m)
               PROVE  (IF c.gen = r + 1 THEN inPlace(c) ELSE c) \in U \ {own}
    OBVIOUS
  <2>1. CASE c.gen = r + 1
    <3>1. c.src \in Mixes /\ c.src # m
      BY <1>6, <2>1, CallFields
    <3>2. inPlace(c) \in Calls /\ inPlace(c) # own
      BY <1>2, <1>4, <3>1 DEF Calls, Dests
    <3> QED
      BY <1>2, <2>1, <3>2
  <2>2. CASE c.gen # r + 1
    <3>1. c.gen <= r
      BY <1>2, <1>6, <2>2
    <3>2. c # own
      BY <1>2, <1>6
    <3> QED
      BY <1>6, <2>2, <3>1, <3>2
  <2> QED
    BY <2>1, <2>2
<1>8. \A a, b \in DoneCalls(m) : f[a] = f[b] => a = b
  <2> SUFFICES ASSUME NEW a \in DoneCalls(m), NEW b \in DoneCalls(m),
                      (IF a.gen = r + 1 THEN inPlace(a) ELSE a)
                        = (IF b.gen = r + 1 THEN inPlace(b) ELSE b)
               PROVE  a = b
    OBVIOUS
  <2>1. \A x, y \in DoneCalls(m) : x.gen = r + 1 /\ y.gen # r + 1 => inPlace(x) # y
    <3> SUFFICES ASSUME NEW x \in DoneCalls(m), NEW y \in DoneCalls(m),
                        x.gen = r + 1, inPlace(x) = y
                 PROVE  FALSE
      OBVIOUS
    <3>1. y.layer = L /\ y.gen = r
      OBVIOUS
    <3>2. L = 1
      BY <1>2, <1>6, <3>1
    <3>3. x.layer = L
      BY <1>6, <3>2
    <3> QED
      BY <1>2, <1>6, <3>3
  <2>2. CASE a.gen = r + 1 /\ b.gen = r + 1
    <3>1. a.src = b.src
      BY <2>2
    <3> QED
      BY <1>6, <2>2, <3>1 DEF Calls
  <2> QED
    BY <2>1, <2>2
<1>9. IsFiniteSet(U) /\ Cardinality(U) \in Nat
  BY CallsFinite
<1>10. Cardinality(DoneCalls(m)) <= Cardinality(U) - 1
  <2> HIDE DEF U, own, f
  <2>1. IsFiniteSet(U \ {own}) /\ Cardinality(U \ {own}) = Cardinality(U) - 1
    BY <1>5, <1>9, FS_RemoveElement
  <2> QED
    BY <1>7, <1>8, <2>1, InjectionBound
<1>11. Cardinality(U) <= AmountToAcquire * (r + 1)
  BY <1>2, RoundCallsBound
<1>12. permits[m] + AmountToAcquire * (r + 1) = Cardinality(DoneCalls(m))
  BY <1>1, <1>3 DEF IInv, PermitCount
<1>13. permits[m] \in Nat /\ AmountToAcquire * (r + 1) \in Nat
  BY <1>1, <1>2, ConstantTypes DEF IInv, TypeOK
<1> QED
  <2> HIDE DEF U
  <2> QED
    BY <1>9, <1>10, <1>11, <1>12, <1>13

\* Where get() outputs, it takes the last layer.
LEMMA OutputTakesLast ==
  ASSUME OutputInv, NEW m \in Mixes, OutputLastLayer(m)
  PROVE  /\ buffer' = [buffer EXCEPT ![m][NumLayers] = {}]
         /\ messages' = [messages EXCEPT ![m] = buffer[m][NumLayers]]
         /\ MaxKey(m, NumLayers)
<1>1. NumLayers \in 1 .. NumLayers /\ \A l \in 1 .. NumLayers : l <= NumLayers
  BY ConstantTypes
<1>2. buffer[m][NumLayers] # {}
  BY OutputThere DEF OutputNotEmpty, OutputLastLayer
<1>3. MaxKey(m, NumLayers)
  BY <1>1, <1>2 DEF MaxKey, Keys
<1>4. \A l \in 1 .. NumLayers : MaxKey(m, l) => l = NumLayers
  BY <1>1, <1>2, ConstantTypes DEF MaxKey, Keys
<1> QED
  BY <1>3, <1>4 DEF OutputLastLayer

\* What is output in a round are calls of it, or of the next one where there is no middle
\* layer; what is not output with the round was of an earlier one.
LEMMA LastLayerInv ==
  ASSUME OutputInv, [Next]_vars
  PROVE  LastLayerParsed' /\ LastLayerKept'
<1>1. IInv
  BY DEF OutputInv
<1>2. \A x \in Calls : x.dst \in Mixes
  BY CallFields
<1>3. NumLayers \in 1 .. NumLayers
  BY ConstantTypes
<1>4. \A m \in Mixes : buffer[m][NumLayers] \subseteq Calls
  BY <1>1, <1>3, BufferCalls DEF IInv
<1>5. ASSUME NEW m \in Mixes, OutputLastLayer(m)
      PROVE  /\ buffer'[m][NumLayers] = {}
             /\ Collected(m) = round[m] /\ Collected(m)' = round[m] + 1
             /\ sent[m][0] = round[m] + 1 /\ round[m] \in Nat
  <2>1. buffer'[m][NumLayers] = {}
    BY <1>1, <1>3, <1>5, OutputTakesLast DEF IInv, TypeOK
  <2>2. getpc[m] = "output" /\ getpc'[m] = "measure" /\ UNCHANGED round
    BY <1>1, <1>5 DEF OutputLastLayer, IInv, TypeOK
  <2>3. sent[m][0] = round[m] + 1
    BY <1>1, <2>2 DEF IInv, GetRound
  <2>4. round[m] \in Nat
    BY <1>1 DEF IInv, TypeOK, Rounds
  <2> QED
    BY <2>1, <2>2, <2>3, <2>4 DEF Collected
<1>6. LastLayerParsed'
  <2> SUFFICES ASSUME NEW m \in Mixes, NEW c \in buffer'[m][NumLayers]
               PROVE  c.dst = m /\ c.layer = NumLayers - 1 /\ pc'[c] \notin {"unsent", "sent"}
    BY DEF LastLayerParsed
  <2>1. CASE c \in buffer[m][NumLayers]
    BY <1>1, <1>4, <2>1, CallsProgress DEF OutputInv, LastLayerParsed
  <2>2. CASE c \notin buffer[m][NumLayers]
    <3>1. ParseInput(c) /\ c \in Calls /\ c.dst = m /\ c.layer = NumLayers - 1
      BY <1>1, <1>5, <2>2, LastLayerStep
    <3>2. pc'[c] = "parsed"
      BY <1>1, <3>1 DEF ParseInput, IInv, TypeOK
    <3> QED
      BY <3>1, <3>2
  <2> QED
    BY <2>1, <2>2
<1>7. LastLayerKept'
  <2> SUFFICES ASSUME NEW c \in Calls, c.layer = NumLayers - 1,
                      pc'[c] \in {"parsed", "waiting", "done"},
                      c \notin buffer'[c.dst][NumLayers]
               PROVE  \/ c.gen < Collected(c.dst)'
                      \/ NumLayers = 2 /\ c.src # c.dst /\ c.gen = Collected(c.dst)'
    BY DEF LastLayerKept
  <2> DEFINE m == c.dst
  <2>1. m \in Mixes /\ c.src \in Mixes /\ c.gen \in Nat
    BY CallFields
  <2>2. CASE pc[c] \in {"unsent", "sent"}
    <3>1. ParseInput(c)
      BY <1>1, <2>2, CallsProgress
    <3>2. c \in buffer'[m][NumLayers]
      BY <1>1, <1>3, <2>1, <3>1, ConstantTypes DEF ParseInput, IInv, TypeOK
    <3> QED
      BY <3>2
  <2>3. CASE pc[c] \in {"parsed", "waiting", "done"} /\ c \notin buffer[m][NumLayers]
    <3>1. \/ c.gen < Collected(m)
          \/ NumLayers = 2 /\ c.src # m /\ c.gen = Collected(m)
      BY <2>3 DEF OutputInv, LastLayerKept
    <3>2. CASE Collected(m)' = Collected(m)
      BY <3>1, <3>2
    <3>3. CASE OutputLastLayer(m)
      BY <1>5, <2>1, <3>1, <3>3
    <3> QED
      BY <1>1, <2>1, <3>2, <3>3, LastLayerStep
  <2>4. CASE pc[c] \in {"parsed", "waiting", "done"} /\ c \in buffer[m][NumLayers]
    <3>1. OutputLastLayer(m)
      BY <1>1, <2>1, <2>4, LastLayerStep
    <3>2. c.gen <= round[m] + 1 /\ (c.gen = round[m] + 1 => c.src # m /\ c.layer = 1)
      <4>1. c.gen <= sent[m][0] /\ (c.gen = sent[m][0] => c.src # m /\ c.layer = 1)
        BY <1>1, <2>4, CallsAhead
      <4>2. sent[m][0] = round[m] + 1
        BY <1>5, <2>1, <3>1
      <4> QED
        BY <4>1, <4>2
    <3>3. c.gen = round[m] + 1 => NumLayers = 2 /\ c.src # m
      BY <3>2, ConstantTypes
    <3> QED
      BY <1>5, <2>1, <3>1, <3>2, <3>3
  <2>5. pc[c] # "failed"
    BY <1>1, CallsProgress
  <2>6. pc[c] \in {"unsent", "sent", "parsed", "waiting", "done"}
    BY <1>1, <2>5 DEF IInv, TypeOK, CallStates
  <2> QED
    BY <2>2, <2>3, <2>4, <2>6
<1> QED
  BY <1>6, <1>7

LEMMA OutputInvInit == Init => OutputInv
<1> SUFFICES ASSUME Init PROVE OutputInv
  OBVIOUS
<1>1. IInv
  BY InvInit
<1>2. \A m \in Mixes : buffer[m][NumLayers] = {}
  BY ConstantTypes DEF Init
<1>3. \A c \in Calls : pc[c] \in {"unsent", "sent"}
  BY DEF Init
<1> QED
  BY <1>1, <1>2, <1>3 DEF OutputInv, LastLayerParsed, LastLayerKept

\* Parsed calls of the last layer stay until their round is output.
THEOREM OutputInvariance == Spec => []OutputInv
<1>1. OutputInv /\ [Next]_vars => OutputInv'
  BY LastLayerInv, InvStep DEF OutputInv
<1> QED
  BY <1>1, OutputInvInit, PTL DEF Spec

\* output_last_layer always finds the last layer, with any number of mixes: its `expect'
\* never panics and get() never takes a layer that is still to be sent.
THEOREM OutputIsThere == Spec => []OutputNotEmpty
BY OutputInvariance, OutputThere, PTL

--------------------------------------------------------------------------------
(***************************************************************************)
(* Who waits for whom.                                                     *)
(***************************************************************************)

\* A handler waits for the same calls until they are all answered, or it fails.
LEMMA WaitingStep ==
  ASSUME IInv, [Next]_vars, NEW x \in Calls, pc[x] = "waiting"
  PROVE  \/ pc'[x] = "waiting" /\ children'[x] = children[x]
         \/ pc'[x] = "failed"
         \/ \A y \in children[x] : pc[y] = "done"
<1> USE DEF IInv, TypeOK
<1>1. CASE UNCHANGED <<pc, children>>
  BY <1>1
<1>2. ASSUME NEW c \in Calls, ParseInput(c) \/ NothingToSend(c)
      PROVE  pc'[x] = "waiting" /\ children'[x] = children[x]
  BY <1>2 DEF ParseInput, NothingToSend
<1>3. ASSUME NEW c \in Calls, Finish(c)
      PROVE  \/ pc'[x] = "waiting" /\ children'[x] = children[x]
             \/ \A y \in children[x] : pc[y] = "done"
  BY <1>3 DEF Finish
<1>4. ASSUME NEW c \in Calls, Failure(c)
      PROVE  \/ pc'[x] = "waiting" /\ children'[x] = children[x]
             \/ pc'[x] = "failed"
  BY <1>4 DEF Failure, Panic, Break, Cascade, Fail
<1>5. ASSUME NEW c \in Calls, NEW l \in 1 .. NumLayers - 1, SendLayer(c, l)
      PROVE  pc'[x] = "waiting" /\ children'[x] = children[x]
  <2>1. x \notin Batch(c.dst, l, sent[c.dst][l]) /\ x # c
    BY <1>5, BatchUnsent DEF SendLayer
  <2> QED
    BY <1>5, <2>1 DEF SendLayer
<1>6. ASSUME NEW m \in Mixes, StartMixRound(m)
      PROVE  pc'[x] = "waiting" /\ children'[x] = children[x]
  BY <1>6, StartUnsent DEF StartMixRound
<1>7. ASSUME NEW m \in Mixes, \/ GetRequest(m) \/ Acquire(m) \/ OutputLastLayer(m)
                              \/ NextRound(m) \/ Reply(m) \/ GetPanic(m)
      PROVE  UNCHANGED <<pc, children>>
  BY <1>7 DEF GetRequest, Acquire, OutputLastLayer, NextRound, Reply, GetPanic, handlerVars
<1>8. Idle \/ UNCHANGED vars => UNCHANGED <<pc, children>>
  BY DEF Idle, vars
<1> HIDE DEF IInv, TypeOK
<1>9. CASE \E c \in Calls : Handler(c)
  BY <1>2, <1>3, <1>5, <1>9 DEF Handler
<1>10. CASE \E c \in Calls : Failure(c)
  BY <1>4, <1>10
<1>11. CASE \E m \in Mixes : GetRequest(m) \/ Get(m) \/ GetPanic(m)
  BY <1>1, <1>6, <1>7, <1>11 DEF Get
<1> QED
  BY <1>1, <1>8, <1>9, <1>10, <1>11 DEF Next

\* A middle layer is sent by a handler only, one sending at a time.
LEMMA SentStep ==
  ASSUME IInv, [Next]_vars, NEW m \in Mixes, NEW l \in 1 .. NumLayers - 1,
         sent'[m][l] # sent[m][l]
  PROVE  \E c \in Calls : SendLayer(c, l) /\ c.dst = m /\ sent'[m][l] = sent[m][l] + 1
<1> USE DEF IInv, TypeOK
<1>1. l \in 0 .. NumLayers - 1 /\ l # 0
  BY ConstantTypes
<1>2. ASSUME NEW c \in Calls, NEW k \in 1 .. NumLayers - 1, SendLayer(c, k)
      PROVE  k = l /\ c.dst = m /\ sent'[m][l] = sent[m][l] + 1
  <2>1. c.dst \in Mixes /\ k \in 0 .. NumLayers - 1
    BY CallFields, ConstantTypes
  <2> QED
    BY <1>1, <1>2, <2>1 DEF SendLayer
<1>3. ASSUME NEW n \in Mixes, StartMixRound(n) PROVE FALSE
  BY <1>1, <1>3 DEF StartMixRound
<1>4. sent' # sent
  OBVIOUS
<1>5. ASSUME NEW c \in Calls, ParseInput(c) \/ NothingToSend(c) \/ Finish(c) \/ Failure(c)
      PROVE  FALSE
  BY <1>4, <1>5 DEF ParseInput, NothingToSend, Finish, Failure, Panic, Break, Cascade, Fail
<1>6. ASSUME NEW n \in Mixes, \/ GetRequest(n) \/ Acquire(n) \/ OutputLastLayer(n)
                              \/ NextRound(n) \/ Reply(n) \/ GetPanic(n)
      PROVE  FALSE
  BY <1>4, <1>6 DEF GetRequest, Acquire, OutputLastLayer, NextRound, Reply, GetPanic,
                    handlerVars
<1>7. ~ Idle /\ ~ UNCHANGED vars
  BY <1>4 DEF Idle, vars
<1> HIDE DEF IInv, TypeOK
<1> QED
  BY <1>2, <1>3, <1>5, <1>6, <1>7 DEF Next, Handler, Get

\* The calls of one sending are calls.
LEMMA BatchCalls ==
  ASSUME NEW m \in Mixes, NEW l \in 1 .. NumLayers - 1, NEW g \in Rounds
  PROVE  Batch(m, l, g) \subseteq Calls
BY ConstantTypes DEF Batch, Calls, Dests

\* A layer of a round is sent by a handler of that round or of an earlier one, which waits
\* for the replies.
LEMMA JoinedStep == IInv /\ Joined /\ [Next]_vars => Joined'
<1> SUFFICES ASSUME IInv, Joined, [Next]_vars,
                    NEW m \in Mixes, NEW l \in 1 .. NumLayers - 1, NEW g \in Rounds,
                    g < sent'[m][l]
             PROVE  \/ \A y \in Batch(m, l, g) : pc'[y] = "done"
                    \/ \E x \in Calls \ Batch(m, l, g) :
                         /\ x.dst = m /\ x.gen <= g
                         /\ \/ pc'[x] = "failed"
                            \/ pc'[x] = "waiting" /\ Batch(m, l, g) \subseteq children'[x]
  BY DEF Joined
<1> DEFINE B == Batch(m, l, g)
<1>1. B \subseteq Calls
  BY BatchCalls
<1>2. l \in 0 .. NumLayers - 1 /\ g \in Nat /\ sent[m][l] \in Nat
  BY ConstantTypes, SentNat DEF IInv, Rounds
<1> HIDE DEF B
<1>3. CASE g < sent[m][l]
  <2>1. CASE \A y \in B : pc[y] = "done"
    BY <1>1, <2>1, CallsProgress DEF B
  <2>2. ASSUME NEW x \in Calls \ B, x.dst = m, x.gen <= g, pc[x] = "failed"
        PROVE  pc'[x] = "failed"
    BY <2>2, CallsProgress
  <2>3. ASSUME NEW x \in Calls \ B, x.dst = m, x.gen <= g,
               pc[x] = "waiting", B \subseteq children[x]
        PROVE  \/ \A y \in B : pc'[y] = "done"
               \/ pc'[x] = "failed"
               \/ pc'[x] = "waiting" /\ B \subseteq children'[x]
    <3>1. \/ pc'[x] = "waiting" /\ children'[x] = children[x]
          \/ pc'[x] = "failed"
          \/ \A y \in children[x] : pc[y] = "done"
      BY <2>3, WaitingStep
    <3>2. (\A y \in children[x] : pc[y] = "done") => \A y \in B : pc'[y] = "done"
      BY <1>1, <2>3, CallsProgress
    <3> QED
      BY <2>3, <3>1, <3>2
  <2>4. \/ \A y \in B : pc[y] = "done"
        \/ \E x \in Calls \ B :
             /\ x.dst = m /\ x.gen <= g
             /\ pc[x] = "failed" \/ (pc[x] = "waiting" /\ B \subseteq children[x])
    BY <1>3 DEF Joined, B
  <2> QED
    BY <2>1, <2>2, <2>3, <2>4 DEF B
<1>4. CASE ~ (g < sent[m][l])
  <2>1. PICK c \in Calls : SendLayer(c, l) /\ c.dst = m /\ sent'[m][l] = sent[m][l] + 1
    BY <1>2, <1>4, SentStep
  <2>2. g = sent[m][l]
    BY <1>2, <1>4, <2>1
  <2>3. pc[c] = "parsed" /\ \A y \in B : pc[y] = "unsent"
    BY <2>1, <2>2, BatchUnsent DEF SendLayer, B
  <2>4. c \notin B
    BY <2>3
  <2>5. pc'[c] = "waiting" /\ B \subseteq children'[c]
    <3>1. children' = [children EXCEPT ![c] = B \intersect Calls]
      BY <2>1, <2>2 DEF SendLayer, B
    <3>2. children'[c] = B \intersect Calls
      BY <3>1 DEF IInv, TypeOK
    <3>3. pc'[c] = "waiting"
      BY <2>1, <2>2, <2>4 DEF SendLayer, B
    <3> QED
      BY <1>1, <3>2, <3>3
  <2>6. c.gen <= g
    <3>1. c.src \in Mixes /\ c.layer \in 0 .. NumLayers - 1 /\ c.gen \in Nat
      BY CallFields, ConstantTypes
    <3>2. c.gen < sent[c.src][c.layer] /\ sent[c.src][c.layer] \in Nat
      BY <2>3, <3>1, SentNat DEF IInv, SentCalls
    <3>3. sent[c.src][c.layer] <= sent[m][l] + 1
      BY <1>2, <3>1, OneAhead
    <3> QED
      BY <1>2, <2>2, <3>1, <3>2, <3>3
  <2> QED
    BY <2>1, <2>4, <2>5, <2>6 DEF B
<1> QED
  BY <1>3, <1>4

\* get() goes to the next round when its call is answered.
LEMMA RoundStep ==
  ASSUME IInv, [Next]_vars, NEW m \in Mixes, round'[m] # round[m]
  PROVE  /\ round'[m] = round[m] + 1
         /\ \E c \in Calls : /\ c.src = m /\ c.layer = 0 /\ c.gen = round[m] + 1
                           /\ pc[c] = "done"
<1> USE DEF IInv, TypeOK
<1>1. round' # round
  OBVIOUS
<1>2. ASSUME NEW c \in Calls, Handler(c) \/ Failure(c) PROVE FALSE
  <2>1. ASSUME NEW l \in 1 .. NumLayers - 1, SendLayer(c, l) PROVE FALSE
    BY <1>1, <2>1 DEF SendLayer, getVars
  <2>2. ~ (ParseInput(c) \/ NothingToSend(c) \/ Finish(c) \/ Failure(c))
    BY <1>1 DEF ParseInput, NothingToSend, Finish, Failure, Panic, Break, Cascade, Fail, getVars
  <2> HIDE DEF IInv, TypeOK
  <2> QED
    BY <1>2, <2>1, <2>2 DEF Handler
<1>3. ASSUME NEW n \in Mixes, GetRequest(n) \/ Get(n) \/ GetPanic(n)
      PROVE  NextRound(m)
  <2>1. NextRound(n)
    BY <1>1, <1>3 DEF Get, GetRequest, Acquire, OutputLastLayer, StartMixRound, Reply, GetPanic
  <2>2. n = m
    BY <2>1 DEF NextRound
  <2> QED
    BY <2>1, <2>2
<1>4. ~ Idle /\ ~ UNCHANGED vars
  BY <1>1 DEF Idle, vars
<1>5. NextRound(m)
  <2> HIDE DEF IInv, TypeOK
  <2> QED
    BY <1>2, <1>3, <1>4 DEF Next
<1> QED
  BY <1>5 DEF NextRound

\* get() does not go on before the call that starts its round is answered.
LEMMA StartsDoneStep == IInv /\ StartsDone /\ [Next]_vars => StartsDone'
<1> SUFFICES ASSUME IInv, StartsDone, [Next]_vars,
                    NEW c \in Calls, c.layer = 0, c.gen \in 1 .. round'[c.src]
             PROVE  pc'[c] = "done"
  BY DEF StartsDone
<1>1. c.src \in Mixes /\ c.dst = c.src /\ c.gen \in Nat /\ round[c.src] \in Nat
  BY CallFields DEF IInv, TypeOK, Rounds
<1>2. CASE c.gen \in 1 .. round[c.src]
  BY <1>2, CallsProgress DEF StartsDone
<1>3. CASE c.gen \notin 1 .. round[c.src]
  <2>1. round'[c.src] = round[c.src] + 1
    BY <1>1, <1>3, RoundStep
  <2>2. PICK d \in Calls : /\ d.src = c.src /\ d.layer = 0 /\ d.gen = round[c.src] + 1
                           /\ pc[d] = "done"
    BY <1>1, <2>1, RoundStep
  <2>3. c.gen = round[c.src] + 1
    BY <1>1, <1>3, <2>1
  <2>4. d.dst = d.src
    BY <2>2, CallFields
  <2>5. d = c
    BY <1>1, <2>2, <2>3, <2>4 DEF Calls
  <2> QED
    BY <2>2, <2>5, CallsProgress
<1> QED
  BY <1>2, <1>3

\* get() takes permits once for every round.
LEMMA AcquiredStep ==
  ASSUME IInv, [Next]_vars, NEW m \in Mixes
  PROVE  \/ Acquired(m)' = Acquired(m)
         \/ Acquire(m) /\ Acquired(m) = round[m] /\ Acquired(m)' = round[m] + 1
<1> USE DEF IInv, TypeOK
<1>1. UNCHANGED <<getpc, round>> => Acquired(m)' = Acquired(m)
  BY DEF Acquired
<1>2. ASSUME NEW c \in Calls, Handler(c) \/ Failure(c) PROVE UNCHANGED <<getpc, round>>
  <2>1. ASSUME NEW l \in 1 .. NumLayers - 1, SendLayer(c, l)
        PROVE  UNCHANGED <<getpc, round>>
    BY <2>1 DEF SendLayer, getVars
  <2>2. ParseInput(c) \/ NothingToSend(c) \/ Finish(c) \/ Failure(c) =>
          UNCHANGED <<getpc, round>>
    BY DEF ParseInput, NothingToSend, Finish, Failure, Panic, Break, Cascade, Fail, getVars
  <2> HIDE DEF IInv, TypeOK
  <2> QED
    BY <1>2, <2>1, <2>2 DEF Handler
<1>3. ASSUME NEW n \in Mixes, GetRequest(n) \/ Get(n) \/ GetPanic(n)
      PROVE  \/ Acquired(m)' = Acquired(m)
             \/ Acquire(m) /\ Acquired(m) = round[m] /\ Acquired(m)' = round[m] + 1
  <2>1. /\ n # m => getpc'[m] = getpc[m] /\ round'[m] = round[m]
        /\ \/ getpc[n] = "uncalled" /\ getpc'[n] = "acquire" /\ round'[n] = round[n]
           \/ /\ Acquire(n)
              /\ getpc[n] = "acquire" /\ getpc'[n] = "output" /\ round'[n] = round[n]
           \/ getpc[n] = "output" /\ getpc'[n] = "measure" /\ round'[n] = round[n]
           \/ getpc[n] = "measure" /\ getpc'[n] = "starting" /\ round'[n] = round[n]
           \/ getpc[n] = "starting" /\ getpc'[n] = "acquire" /\ round'[n] = round[n] + 1
           \/ getpc[n] = "measure" /\ getpc'[n] = "replied" /\ round'[n] = round[n]
           \/ getpc[n] = "starting" /\ getpc'[n] = "failed" /\ round'[n] = round[n]
    BY <1>3 DEF Get, GetRequest, Acquire, OutputLastLayer, StartMixRound, NextRound, Reply,
                GetPanic
  <2> QED
    BY <2>1 DEF Acquired
<1>4. Idle \/ UNCHANGED vars => UNCHANGED <<getpc, round>>
  BY DEF Idle, vars
<1> HIDE DEF IInv, TypeOK
<1> QED
  BY <1>1, <1>2, <1>3, <1>4 DEF Next

--------------------------------------------------------------------------------
(***************************************************************************)
(* Two mixes.                                                              *)
(***************************************************************************)

\* Of two mixes, one that is not the one is the other.
LEMMA TheOther ==
  ASSUME NumMixes <= 2, NEW m \in Mixes, NEW n \in Mixes, m # n, NEW x \in Mixes
  PROVE  x = m \/ x = n
<1> SUFFICES ASSUME x # m, x # n PROVE FALSE
  OBVIOUS
<1>1. IsFiniteSet({m}) /\ Cardinality({m}) = 1
  BY FS_Singleton
<1>2. IsFiniteSet({m} \union {n}) /\ Cardinality({m} \union {n}) = 2
  BY <1>1, FS_AddElement
<1>3. Cardinality(({m} \union {n}) \union {x}) = 3
  BY <1>2, FS_AddElement
<1>4. ({m} \union {n}) \union {x} \subseteq Mixes
  OBVIOUS
<1> QED
  BY <1>3, <1>4, MixesAssumption, ConstantTypes, FS_Subset DEF NumMixes

\* A set that is as large as another, and has but one element more, lacks one at most.
LEMMA OneMissing ==
  ASSUME NEW U, NEW D, NEW e, IsFiniteSet(U), D \subseteq U \union {e},
         Cardinality(D) >= Cardinality(U),
         NEW a \in U \ D, NEW b \in U \ D
  PROVE  a = b
<1> SUFFICES ASSUME a # b PROVE FALSE
  OBVIOUS
<1> DEFINE V == U \ {a}
           W == V \ {b}
<1>1. IsFiniteSet(V) /\ Cardinality(V) = Cardinality(U) - 1 /\ Cardinality(U) \in Nat
  BY FS_RemoveElement, FS_CardinalityType
<1>2. b \in V
  OBVIOUS
<1> HIDE DEF V
<1>3. IsFiniteSet(W) /\ Cardinality(W) = Cardinality(V) - 1
  BY <1>1, <1>2, FS_RemoveElement
<1>4. D \subseteq W \union {e}
  BY DEF V
<1> HIDE DEF W
<1>5. Cardinality(W) \in Nat
  BY <1>3, FS_CardinalityType
<1> DEFINE k == Cardinality(W)
<1>6. /\ IsFiniteSet(W \union {e})
      /\ Cardinality(W \union {e}) = IF e \in W THEN k ELSE k + 1
  BY <1>3, FS_AddElement
<1>7. k \in Nat /\ k = Cardinality(U) - 2
  BY <1>1, <1>3, <1>5
<1> HIDE DEF k
<1>8. Cardinality(W \union {e}) \in Nat /\ Cardinality(W \union {e}) <= k + 1
  BY <1>6, <1>7
<1>9. Cardinality(D) <= Cardinality(W \union {e}) /\ Cardinality(D) \in Nat
  BY <1>4, <1>6, FS_Subset, FS_CardinalityType
<1> QED
  BY <1>1, <1>7, <1>8, <1>9

\* When get() of a mix has the permits of a round, the calls of the round are done, all
\* but the first one perhaps, which a call of the next round may have replaced: then the
\* other mix is a round ahead, and has got its permits for its own calls.
LEMMA AcquireOfTwo ==
  ASSUME NumMixes <= 2, TwoMixInv, NEW m \in Mixes, Acquire(m)
  PROVE  /\ \A c \in Calls : c.dst = m /\ c.gen <= round[m] =>
              pc[c] = "done" \/ (c.layer = 0 /\ c.gen = 0)
         /\ \A c, d \in Calls :
              /\ c.dst = m /\ c.layer = 0 /\ c.gen = 0 /\ pc[c] # "done"
              /\ d.layer = 0 /\ d.gen = 0 /\ d # c
              => pc[d] = "done" /\ Acquired(d.dst) >= round[m] + 1
<1> DEFINE r == round[m]
           U == {c \in Calls : c.dst = m /\ c.gen <= r}
           D == DoneCalls(m)
<1>1. IInv
  BY DEF TwoMixInv, OutputInv
<1>2. r \in Nat /\ getpc[m] = "acquire" /\ permits[m] >= AmountToAcquire
      /\ permits[m] \in Nat
  BY <1>1 DEF Acquire, IInv, TypeOK, Rounds
<1>3. sent[m][0] = r + 1
  BY <1>1, <1>2 DEF IInv, GetRound
<1>4. \A n \in Mixes : sent[n][NumLayers - 1] >= r + 1
  BY <1>1, <1>2, PermitsImplyContributed
<1>5. IsFiniteSet(U) /\ Cardinality(U) \in Nat /\ IsFiniteSet(D) /\ Cardinality(D) \in Nat
  BY CallsFinite DEF DoneCalls
<1>6. Cardinality(D) >= Cardinality(U)
  <2>1. permits[m] + AmountToAcquire * r = Cardinality(D)
    BY <1>1, <1>2 DEF IInv, PermitCount, Acquired
  <2>2. Cardinality(U) <= AmountToAcquire * (r + 1)
    BY <1>2, RoundCallsBound
  <2>3. AmountToAcquire * (r + 1) = AmountToAcquire * r + AmountToAcquire
        /\ AmountToAcquire * r \in Nat
    BY <1>2, ConstantTypes, NextMultiple
  <2> HIDE DEF U, D
  <2> QED
    BY <1>2, <1>5, <2>1, <2>2, <2>3, ConstantTypes
<1>7. ASSUME NEW c \in D
      PROVE  /\ c \in Calls /\ c.dst = m /\ c.gen \in Nat /\ pc[c] = "done"
             /\ c.gen <= r \/ (c.gen = r + 1 /\ c.src # m /\ c.layer = 1)
  <2>1. c \in Calls /\ c.dst = m /\ pc[c] = "done"
    BY DEF DoneCalls
  <2>2. c.gen <= r + 1 /\ (c.gen = r + 1 => c.src # m /\ c.layer = 1)
    BY <1>1, <1>3, <2>1, CallsAhead
  <2> QED
    BY <1>2, <2>1, <2>2, CallFields
<1>8. CASE \A c \in D : c.gen <= r
  <2>1. D \subseteq U
    BY <1>7, <1>8
  <2>2. D = U
    <3> HIDE DEF U, D
    <3> QED
      BY <1>5, <1>6, <2>1, FS_Subset
  <2>3. \A c \in U : pc[c] = "done"
    BY <1>7, <2>2
  <2>4. \A c \in Calls : c.dst = m /\ c.gen <= r => pc[c] = "done"
    BY <2>3
  <2> QED
    BY <1>2, <2>4
<1>9. ASSUME NEW e \in D, ~ (e.gen <= r)
      PROVE  /\ \A c \in U : pc[c] = "done" \/ (c.layer = 0 /\ c.gen = 0)
             /\ \A c, d \in Calls :
                  /\ c.dst = m /\ c.layer = 0 /\ c.gen = 0 /\ pc[c] # "done"
                  /\ d.layer = 0 /\ d.gen = 0 /\ d # c
                  => pc[d] = "done" /\ Acquired(d.dst) >= r + 1
  <2> DEFINE n == e.src
  <2>1. e \in Calls /\ e.dst = m /\ e.gen = r + 1 /\ e.layer = 1 /\ n # m /\ n \in Mixes
    BY <1>7, <1>9, CallFields
  <2>2. Acquired(n) >= r + 1
    <3>1. /\ 0 \in 0 .. NumLayers - 1 /\ 1 \in 0 .. NumLayers - 1
      BY ConstantTypes
    <3>2. sent[n][1] > r + 1
      BY <1>1, <1>2, <1>7, <2>1, <3>1, SentNat DEF IInv, SentCalls
    <3>3. sent[n][1] <= sent[n][0] /\ sent[n][0] \in Nat /\ sent[n][1] \in Nat
      BY <1>1, <2>1, <3>1, SentNat DEF IInv, SentOrder
    <3>4. sent[n][0] = round[n] + (IF getpc[n] \in {"starting", "failed"} THEN 2 ELSE 1)
      BY <1>1, <2>1 DEF IInv, GetRound
    <3>5. round[n] \in Nat
      BY <1>1, <2>1 DEF IInv, TypeOK, Rounds
    <3> QED
      BY <1>2, <3>2, <3>3, <3>4, <3>5 DEF Acquired
  <2>3. Acquired(m) = r
    BY <1>2 DEF Acquired
  <2>4. Acquired(n) \in Nat
    BY <1>1, <2>1 DEF Acquired, IInv, TypeOK, Rounds
  <2>5. \A c \in Calls : c.dst = n /\ c.gen <= r => pc[c] = "done"
    <3> SUFFICES ASSUME NEW c \in Calls, c.dst = n, c.gen <= r, pc[c] # "done"
                 PROVE  FALSE
      OBVIOUS
    <3>1. c.layer = 0 /\ c.gen = 0
      BY <1>2, <2>2, <2>4, CallFields DEF TwoMixInv, PermitsOfRound
    <3> DEFINE d == [src |-> m, dst |-> m, layer |-> 0, gen |-> 0]
    <3>2. d \in Calls /\ d # c
      BY <2>1, <3>1, ConstantTypes, CallFields DEF Calls, Dests, Rounds
    <3>3. Acquired(n) >= 1
      BY <1>2, <2>2, <2>4
    <3>4. Acquired(d.dst) >= Acquired(n)
      BY <3>1, <3>2, <3>3 DEF TwoMixInv, BehindOfFirst
    <3> QED
      BY <1>2, <2>2, <2>3, <2>4, <3>4
  <2>6. D \subseteq U \union {e}
    <3> SUFFICES ASSUME NEW c \in D, ~ (c.gen <= r) PROVE c = e
      BY <1>7
    <3>1. c \in Calls /\ c.dst = m /\ c.gen = r + 1 /\ c.layer = 1 /\ c.src # m
      BY <1>7
    <3>2. c.src = n
      BY <2>1, <3>1, CallFields, TheOther
    <3> QED
      BY <2>1, <3>1, <3>2 DEF Calls
  <2>7. \A a, b \in U \ D : a = b
    <3> HIDE DEF U, D
    <3> QED
      BY <1>5, <1>6, <2>6, OneMissing
  <2>8. \A c \in U : c \notin D <=> pc[c] # "done"
    BY DEF DoneCalls
  <2>9. ASSUME NEW a \in U, pc[a] # "done" PROVE a.layer = 0 /\ a.gen = 0
    <3>1. /\ a \in Calls /\ a.dst = m /\ a.gen <= r /\ a.src \in Mixes /\ a.gen \in Rounds
          /\ a.gen \in Nat /\ a.layer \in Nat /\ a.layer \in 0 .. NumLayers - 1
      BY CallFields
    <3>2. CASE a.layer = 0
      <4>1. a.src = m
        BY <3>1, <3>2, CallFields
      <4>2. a.gen \notin 1 .. r
        BY <2>9, <3>1, <3>2, <4>1 DEF TwoMixInv, StartsDone
      <4> QED
        BY <1>2, <3>1, <3>2, <4>2
    <3>3. CASE a.layer # 0
      <4> DEFINE B == Batch(a.src, a.layer, a.gen)
      <4>1. a.layer \in 1 .. NumLayers - 1
        BY <3>1, <3>3, ConstantTypes
      <4>2. a.gen < sent[a.src][a.layer]
        <5>1. NumLayers - 1 \in 0 .. NumLayers - 1
          BY ConstantTypes
        <5>2. sent[a.src][NumLayers - 1] <= sent[a.src][a.layer]
          BY <1>1, <3>1, <5>1 DEF IInv, SentOrder
        <5>3. sent[a.src][NumLayers - 1] \in Nat /\ sent[a.src][a.layer] \in Nat
          BY <1>1, <3>1, <5>1, SentNat DEF IInv
        <5> QED
          BY <1>2, <1>4, <3>1, <5>2, <5>3
      <4>3. a \in B
        BY <3>1, <3>3 DEF Batch, Dests, Calls
      <4>4. PICK x \in Calls \ B : /\ x.dst = a.src /\ x.gen <= a.gen
                                   /\ pc[x] \in {"failed", "waiting"}
        BY <2>9, <3>1, <4>1, <4>2, <4>3 DEF TwoMixInv, Joined
      <4>5. x.gen \in Nat /\ x.gen <= r
        BY <1>2, <3>1, <4>4, CallFields
      <4>6. a.src = m
        BY <2>1, <2>5, <3>1, <4>4, <4>5, TheOther
      <4>7. x \in U /\ x \notin D /\ a \notin D
        BY <2>8, <2>9, <4>4, <4>5, <4>6
      <4>8. x = a
        BY <2>7, <4>7
      <4> QED
        BY <4>3, <4>4, <4>8
    <3> QED
      BY <3>2, <3>3
  <2>10. ASSUME NEW c \in Calls, NEW d \in Calls,
                c.dst = m, c.layer = 0, c.gen = 0, pc[c] # "done",
                d.layer = 0, d.gen = 0, d # c
         PROVE  pc[d] = "done" /\ Acquired(d.dst) >= r + 1
    <3>1. c.src = m /\ d.src = d.dst /\ d.dst \in Mixes
      BY <2>10, CallFields
    <3>2. d.dst # m
      BY <2>10, <3>1 DEF Calls
    <3>3. d.dst = n
      BY <2>1, <3>1, <3>2, TheOther
    <3> QED
      BY <1>2, <2>2, <2>5, <2>10, <3>3
  <2> QED
    BY <2>9, <2>10
<1>10. \A c \in Calls : c \in U <=> c.dst = m /\ c.gen <= round[m]
  OBVIOUS
<1> HIDE DEF U, D
<1> QED
  BY <1>8, <1>9, <1>10

\* A mix has collected no more rounds than it got permits for.
LEMMA CollectedAcquired ==
  ASSUME IInv, NEW m \in Mixes
  PROVE  Acquired(m) \in Nat /\ Collected(m) \in Nat /\ Collected(m) <= Acquired(m)
BY DEF Acquired, Collected, IInv, TypeOK, Rounds, GetStates

LEMMA TwoMixInvInit == Init => TwoMixInv
<1> SUFFICES ASSUME Init PROVE TwoMixInv
  OBVIOUS
<1>1. OutputInv
  BY OutputInvInit
<1>2. \A m \in Mixes : /\ round[m] = 0 /\ Acquired(m) = 0 /\ buffer[m][NumLayers] = {}
                       /\ \A l \in 1 .. NumLayers - 1 : sent[m][l] = 0
  BY ConstantTypes DEF Init, Acquired
<1>3. \A c \in Calls : c.src \in Mixes /\ c.dst \in Mixes /\ c.gen \in Nat
  BY CallFields
<1>4. Joined
  BY <1>2 DEF Joined, Rounds
<1>5. StartsDone /\ PermitsOfRound /\ BehindOfFirst /\ LastLayerFresh
  BY <1>2, <1>3 DEF StartsDone, PermitsOfRound, BehindOfFirst, LastLayerFresh
<1> QED
  BY <1>1, <1>4, <1>5 DEF TwoMixInv

LEMMA TwoMixInvStep == NumMixes <= 2 /\ TwoMixInv /\ [Next]_vars => TwoMixInv'
<1> SUFFICES ASSUME NumMixes <= 2, TwoMixInv, [Next]_vars PROVE TwoMixInv'
  OBVIOUS
<1>1. OutputInv /\ IInv
  BY DEF TwoMixInv, OutputInv
<1>2. OutputInv'
  BY <1>1, LastLayerInv, InvStep DEF OutputInv
<1>3. Joined' /\ StartsDone'
  BY <1>1, JoinedStep, StartsDoneStep DEF TwoMixInv
<1>4. \A x \in Calls : x.src \in Mixes /\ x.dst \in Mixes /\ x.gen \in Nat
  BY CallFields
<1>5. \A m \in Mixes : Acquired(m) \in Nat /\ Collected(m) \in Nat /\ round[m] \in Nat
                      /\ Collected(m) <= Acquired(m)
  BY <1>1, CollectedAcquired DEF IInv, TypeOK, Rounds
<1>6. PermitsOfRound'
  <2> SUFFICES ASSUME NEW c \in Calls, c.gen < Acquired(c.dst)'
               PROVE  pc'[c] = "done" \/ (c.layer = 0 /\ c.gen = 0)
    BY DEF PermitsOfRound
  <2>1. CASE Acquired(c.dst)' = Acquired(c.dst)
    BY <1>1, <2>1, CallsProgress DEF TwoMixInv, PermitsOfRound
  <2>2. CASE Acquire(c.dst) /\ Acquired(c.dst)' = round[c.dst] + 1
    <3>1. c.gen <= round[c.dst]
      BY <1>4, <1>5, <2>2
    <3>2. pc[c] = "done" \/ (c.layer = 0 /\ c.gen = 0)
      BY <1>4, <2>2, <3>1, AcquireOfTwo
    <3> QED
      BY <1>1, <3>2, CallsProgress
  <2> QED
    BY <1>1, <1>4, <2>1, <2>2, AcquiredStep
<1>7. BehindOfFirst'
  <2> SUFFICES ASSUME NEW c \in Calls, c.layer = 0, c.gen = 0, pc'[c] # "done",
                      Acquired(c.dst)' >= 1,
                      NEW d \in Calls, d.layer = 0, d.gen = 0, d # c
               PROVE  pc'[d] = "done" /\ Acquired(d.dst)' >= Acquired(c.dst)'
    BY DEF BehindOfFirst
  <2>1. pc[c] # "done"
    BY <1>1, CallsProgress
  <2>2. pc[d] = "done" /\ Acquired(d.dst) >= Acquired(c.dst)'
    <3>1. CASE Acquired(c.dst)' = Acquired(c.dst)
      BY <2>1, <3>1 DEF TwoMixInv, BehindOfFirst
    <3>2. CASE Acquire(c.dst) /\ Acquired(c.dst)' = round[c.dst] + 1
      <4>1. pc[d] = "done" /\ Acquired(d.dst) >= round[c.dst] + 1
        BY <1>4, <2>1, <3>2, AcquireOfTwo
      <4> QED
        BY <3>2, <4>1
    <3> QED
      BY <1>1, <1>4, <3>1, <3>2, AcquiredStep
  <2>3. Acquired(d.dst)' >= Acquired(d.dst) /\ Acquired(d.dst)' \in Nat
    BY <1>1, <1>4, <1>5, AcquiredStep
  <2>4. Acquired(c.dst)' \in Nat
    BY <1>1, <1>4, <1>5, AcquiredStep
  <2> QED
    BY <1>1, <1>4, <1>5, <2>2, <2>3, <2>4, CallsProgress
<1>8. LastLayerFresh'
  <2> SUFFICES ASSUME NEW m \in Mixes, NEW c \in buffer'[m][NumLayers]
               PROVE  c.gen >= Collected(m)'
    BY DEF LastLayerFresh
  <2>1. CASE buffer'[m][NumLayers] = buffer[m][NumLayers] /\ Collected(m)' = Collected(m)
    BY <2>1 DEF TwoMixInv, LastLayerFresh
  <2>2. ASSUME NEW d \in Calls, ParseInput(d), d.dst = m, d.layer = NumLayers - 1,
               buffer'[m][NumLayers] = buffer[m][NumLayers] \union {d},
               Collected(m)' = Collected(m)
        PROVE  c.gen >= Collected(m)'
    <3>1. pc[d] # "done" /\ d.layer # 0
      BY <2>2, ConstantTypes DEF ParseInput
    <3>2. ~ (d.gen < Acquired(m))
      BY <2>2, <3>1 DEF TwoMixInv, PermitsOfRound
    <3>3. d.gen >= Collected(m)
      BY <1>4, <1>5, <2>2, <3>2
    <3> QED
      BY <2>2, <3>3 DEF TwoMixInv, LastLayerFresh
  <2>3. CASE OutputLastLayer(m)
    <3>1. buffer'[m][NumLayers] = {}
      BY <1>1, <2>3, OutputTakesLast, ConstantTypes DEF IInv, TypeOK
    <3> QED
      BY <3>1
  <2> QED
    BY <1>1, <2>1, <2>2, <2>3, LastLayerStep
<1> QED
  BY <1>2, <1>3, <1>6, <1>7, <1>8 DEF TwoMixInv

\* With two mixes the permits that get() takes are those of the calls of its round.
THEOREM TwoMixInvariance ==
  ASSUME NumMixes <= 2
  PROVE  Spec => []TwoMixInv
<1>1. TwoMixInv /\ [Next]_vars => TwoMixInv'
  BY TwoMixInvStep
<1> QED
  BY <1>1, TwoMixInvInit, PTL DEF Spec

\* A call that is not done holds both its mixes back: none of them is more than the next
\* round on.
LEMMA UndoneHoldsBack ==
  ASSUME NumMixes <= 2, TwoMixInv, NEW c \in Calls, c.layer # 0,
         pc[c] \notin {"unsent", "done"}, NEW m \in {c.src, c.dst}
  PROVE  sent[m][0] <= c.gen + 1
<1> DEFINE a == c.src
           b == c.dst
           B == Batch(a, c.layer, c.gen)
<1>1. IInv
  BY DEF TwoMixInv, OutputInv
<1>2. /\ a \in Mixes /\ b \in Mixes /\ c.gen \in Nat /\ c.gen \in Rounds
      /\ c.layer \in 0 .. NumLayers - 1 /\ c.layer \in 1 .. NumLayers - 1
  BY CallFields, ConstantTypes
<1>3. \A n \in Mixes : sent[n][0] <= Acquired(n) + 1 /\ sent[n][0] \in Nat
                      /\ Acquired(n) \in Nat
  <2> SUFFICES ASSUME NEW n \in Mixes
               PROVE  sent[n][0] <= Acquired(n) + 1 /\ sent[n][0] \in Nat
                      /\ Acquired(n) \in Nat
    OBVIOUS
  <2>1. sent[n][0] = round[n] + (IF getpc[n] \in {"starting", "failed"} THEN 2 ELSE 1)
    BY <1>1 DEF IInv, GetRound
  <2>2. round[n] \in Nat
    BY <1>1 DEF IInv, TypeOK, Rounds
  <2> QED
    BY <2>1, <2>2 DEF Acquired
<1>4. Acquired(b) <= c.gen
  BY <1>2, <1>3 DEF TwoMixInv, PermitsOfRound
<1>5. c \in B
  BY <1>2 DEF Batch, Dests, Calls
<1>6. c.gen < sent[a][c.layer]
  BY <1>1, <1>2, SentNat DEF IInv, SentCalls
<1>7. PICK x \in Calls : x.dst = a /\ x.gen <= c.gen /\ pc[x] \in {"failed", "waiting"}
  BY <1>2, <1>5, <1>6 DEF TwoMixInv, Joined
<1>8. Acquired(a) <= c.gen
  <2>1. CASE x.layer = 0 /\ x.gen = 0
    <3> SUFFICES ASSUME Acquired(a) >= 1, a # b
                 PROVE  Acquired(a) <= c.gen
      BY <1>2, <1>3, <1>4
    <3> DEFINE d == [src |-> b, dst |-> b, layer |-> 0, gen |-> 0]
    <3>1. d \in Calls /\ d # x
      BY <1>2, <1>7, ConstantTypes DEF Calls, Dests, Rounds
    <3>2. Acquired(b) >= Acquired(a)
      BY <1>7, <2>1, <3>1 DEF TwoMixInv, BehindOfFirst
    <3> QED
      BY <1>2, <1>3, <1>4, <3>2
  <2>2. CASE ~ (x.layer = 0 /\ x.gen = 0)
    BY <1>2, <1>3, <1>7, <2>2, CallFields DEF TwoMixInv, PermitsOfRound
  <2> QED
    BY <2>1, <2>2
<1> QED
  BY <1>2, <1>3, <1>4, <1>8

\* A lost call from one mix to the other stops both before the round after the next.
THEOREM FailureStops ==
  ASSUME NumMixes <= 2
  PROVE  Spec => []FailureStopsRounds
<1>1. TwoMixInv => FailureStopsRounds
  <2> SUFFICES ASSUME TwoMixInv, NEW c \in Calls, c.src # c.dst, pc[c] = "failed",
                      NEW m \in Mixes
               PROVE  sent[m][0] <= c.gen + 1
    BY DEF FailureStopsRounds
  <2>1. m \in {c.src, c.dst}
    BY CallFields, TheOther
  <2>2. c.layer # 0
    BY CallFields
  <2> QED
    BY <2>1, <2>2, UndoneHoldsBack
<1> QED
  BY <1>1, TwoMixInvariance, PTL

\* Data goes to any layer, the last one included, after the setup request of its circuit
\* is handled, or failed.
LEMMA SetupFirst ==
  ASSUME NumMixes <= 2, TwoMixInv, NEW c \in Calls, NEW d \in Calls,
         SetsUp(c, d), pc[d] # "unsent"
  PROVE  pc[c] \notin {"unsent", "sent"}
<1>1. IInv
  BY DEF TwoMixInv, OutputInv
<1>2. /\ c.src \in Mixes /\ c.gen \in Nat /\ d.gen \in Nat
      /\ c.layer \in 0 .. NumLayers - 1 /\ 0 \in 0 .. NumLayers - 1
      /\ 0 <= c.layer
  BY CallFields, ConstantTypes
<1>3. c.gen < d.gen /\ d.src = c.src /\ d.layer = c.layer
  BY <1>2, RoundsAssumption DEF SetsUp, Kind
<1>4. /\ sent[c.src][c.layer] \in Nat /\ sent[c.src][0] \in Nat
      /\ d.gen < sent[c.src][c.layer] /\ sent[c.src][c.layer] <= sent[c.src][0]
  BY <1>1, <1>2, <1>3, SentNat DEF IInv, SentCalls, SentOrder
<1>5. pc[c] # "unsent"
  BY <1>1, <1>2, <1>3, <1>4 DEF IInv, SentCalls
<1>6. CASE c.layer # 0
  <2>1. pc[c] # "done" => sent[c.src][0] <= c.gen + 1
    BY <1>5, <1>6, UndoneHoldsBack
  <2> QED
    BY <1>2, <1>3, <1>4, <1>5, <2>1
<1>7. CASE c.layer = 0
  <2>1. c.layer < NumLayers - 1
    BY <1>7, ConstantTypes
  <2> QED
    BY <1>1, <2>1, ReadyCircuits DEF MiddleSetupBeforeData
<1> QED
  BY <1>6, <1>7

\* With two mixes no data is decrypted before the setup request of its circuit is handled.
THEOREM SetupComesFirst ==
  ASSUME NumMixes <= 2
  PROVE  Spec => []SetupBeforeData
<1>1. TwoMixInv => SetupBeforeData
  BY SetupFirst DEF SetupBeforeData
<1> QED
  BY <1>1, TwoMixInvariance, PTL

\* The calls of the last layer of a round that get() of a mix outputs next: all are done,
\* and so still in its buffer, and it holds no others.
LEMMA OutputOfRound ==
  ASSUME NumMixes <= 2, NumLayers >= 3, TwoMixInv, NEW m \in Mixes, OutputLastLayer(m)
  PROVE  buffer[m][NumLayers] = LastLayerCalls(m, round[m])
<1>1. IInv
  BY DEF TwoMixInv, OutputInv
<1>2. /\ round[m] \in Rounds /\ round[m] \in Nat /\ getpc[m] = "output"
      /\ Collected(m) = round[m] /\ Acquired(m) = round[m] + 1 /\ sent[m][0] = round[m] + 1
  <2>1. getpc[m] = "output" /\ round[m] \in Rounds
    BY <1>1 DEF OutputLastLayer, IInv, TypeOK
  <2>2. sent[m][0] = round[m] + 1
    BY <1>1, <2>1 DEF IInv, GetRound
  <2> QED
    BY <2>1, <2>2 DEF Rounds, Collected, Acquired
<1>3. ASSUME NEW c \in LastLayerCalls(m, round[m]) PROVE c \in buffer[m][NumLayers]
  <2>1. /\ c \in Calls /\ c.dst = m /\ c.layer = NumLayers - 1 /\ c.layer # 0
        /\ c.gen = round[m]
    BY <1>2, ConstantTypes DEF LastLayerCalls, Calls, Dests
  <2>2. c.gen < Acquired(c.dst)
    BY <1>2, <2>1
  <2>3. pc[c] = "done"
    BY <2>1, <2>2 DEF TwoMixInv, PermitsOfRound
  <2>4. Collected(c.dst) = round[m]
    BY <1>2, <2>1
  <2> QED
    BY <1>2, <2>1, <2>3, <2>4, ConstantTypes DEF TwoMixInv, OutputInv, LastLayerKept
<1>4. ASSUME NEW c \in buffer[m][NumLayers] PROVE c \in LastLayerCalls(m, round[m])
  <2>1. NumLayers \in 1 .. NumLayers
    BY ConstantTypes
  <2>2. /\ c \in Calls /\ c.dst = m /\ c.layer = NumLayers - 1
        /\ pc[c] \notin {"unsent", "sent"}
    BY <1>1, <2>1, BufferCalls DEF IInv, TwoMixInv, OutputInv, LastLayerParsed
  <2>3. c.gen >= round[m]
    BY <1>2 DEF TwoMixInv, LastLayerFresh
  <2>4. c.gen <= sent[m][0] /\ (c.gen = sent[m][0] => c.layer = 1)
    BY <1>1, <2>2, CallsAhead
  <2>5. c.gen = round[m]
    BY <1>2, <2>2, <2>3, <2>4, ConstantTypes, CallFields
  <2> QED
    BY <2>2, <2>5 DEF LastLayerCalls, Calls
<1> QED
  BY <1>3, <1>4

\* What get() has output stays until the round is over.
LEMMA MessagesStep ==
  ASSUME IInv, [Next]_vars, NEW m \in Mixes, getpc'[m] \in {"measure", "replied"}
  PROVE  /\ round'[m] = round[m]
         /\ \/ OutputLastLayer(m)
            \/ getpc[m] \in {"measure", "replied"} /\ messages'[m] = messages[m]
<1> USE DEF IInv, TypeOK
<1>1. CASE UNCHANGED <<getpc, round, messages>>
  BY <1>1
<1>2. ASSUME NEW c \in Calls, Handler(c) \/ Failure(c)
      PROVE  UNCHANGED <<getpc, round, messages>>
  <2>1. ASSUME NEW l \in 1 .. NumLayers - 1, SendLayer(c, l)
        PROVE  UNCHANGED <<getpc, round, messages>>
    BY <2>1 DEF SendLayer, getVars
  <2>2. ParseInput(c) \/ NothingToSend(c) \/ Finish(c) \/ Failure(c) =>
          UNCHANGED <<getpc, round, messages>>
    BY DEF ParseInput, NothingToSend, Finish, Failure, Panic, Break, Cascade, Fail, getVars
  <2> HIDE DEF IInv, TypeOK
  <2> QED
    BY <1>2, <2>1, <2>2 DEF Handler
<1>3. ASSUME NEW n \in Mixes, GetRequest(n) \/ Get(n) \/ GetPanic(n)
      PROVE  /\ round'[m] = round[m]
             /\ \/ OutputLastLayer(m)
                \/ getpc[m] \in {"measure", "replied"} /\ messages'[m] = messages[m]
  <2>1. CASE OutputLastLayer(n)
    BY <2>1 DEF OutputLastLayer
  <2>2. CASE \/ GetRequest(n) \/ Acquire(n) \/ StartMixRound(n) \/ NextRound(n) \/ Reply(n)
             \/ GetPanic(n)
    BY <2>2 DEF GetRequest, Acquire, StartMixRound, NextRound, Reply, GetPanic
  <2> HIDE DEF IInv, TypeOK
  <2> QED
    BY <1>3, <2>1, <2>2 DEF Get
<1>4. Idle \/ UNCHANGED vars => UNCHANGED <<getpc, round, messages>>
  BY DEF Idle, vars
<1> HIDE DEF IInv, TypeOK
<1> QED
  BY <1>1, <1>2, <1>3, <1>4 DEF Next

\* Every output is the whole output of its round, and of no other.
THEOREM OutputIsComplete ==
  ASSUME NumMixes <= 2, NumLayers >= 3
  PROVE  Spec => []OutputComplete
<1>1. Init => OutputComplete
  BY DEF Init, OutputComplete
<1>2. TwoMixInv /\ OutputComplete /\ [Next]_vars => OutputComplete'
  <2> SUFFICES ASSUME TwoMixInv, OutputComplete, [Next]_vars,
                      NEW m \in Mixes, getpc'[m] \in {"measure", "replied"}
               PROVE  messages'[m] = LastLayerCalls(m, round'[m])
    BY DEF OutputComplete, LastLayerCalls
  <2>1. IInv
    BY DEF TwoMixInv, OutputInv
  <2>2. round'[m] = round[m]
    BY <2>1, MessagesStep
  <2>3. CASE OutputLastLayer(m)
    <3>1. messages'[m] = buffer[m][NumLayers]
      BY <2>1, <2>3, OutputTakesLast DEF IInv, TypeOK, TwoMixInv
    <3> QED
      BY <2>2, <2>3, <3>1, OutputOfRound
  <2>4. CASE getpc[m] \in {"measure", "replied"} /\ messages'[m] = messages[m]
    BY <2>2, <2>4 DEF OutputComplete
  <2> QED
    BY <2>1, <2>3, <2>4, MessagesStep
<1> QED
  BY <1>1, <1>2, TwoMixInvariance, PTL DEF Spec

--------------------------------------------------------------------------------
(***************************************************************************)
(* One request at a time.                                                  *)
(***************************************************************************)

\* Of one mix, one request only is parsed and not yet gone on with.
LEMMA OneParsed ==
  ASSUME OneRequestAtATime, NEW c \in Calls, NEW d \in Calls,
         c.dst = d.dst, pc[c] = "parsed", pc[d] = "parsed"
  PROVE  c = d
<1> DEFINE S == {x \in Calls : x.dst = c.dst /\ pc[x] = "parsed"}
<1>1. Cardinality(S) <= 1 /\ Cardinality(S) \in Nat /\ IsFiniteSet(S)
  BY CallFields, CallsFinite DEF OneRequestAtATime
<1>2. IsFiniteSet({c}) /\ Cardinality({c}) = 1
  BY FS_Singleton
<1>3. {c} \subseteq S /\ d \in S
  OBVIOUS
<1>4. {c} = S
  <2> HIDE DEF S
  <2> QED
    BY <1>1, <1>2, <1>3, FS_Subset
<1> QED
  BY <1>3, <1>4

\* The handler that sends a layer is the one whose request completed it: what it sends is
\* of the round of its own request.
LEMMA SendsOwnRound ==
  ASSUME IInv, CompletedBySender, OneRequestAtATime,
         NEW c \in Calls, NEW l \in 1 .. NumLayers - 1, SendLayer(c, l)
  PROVE  c.gen = sent[c.dst][l] /\ c \in buffer[c.dst][l]
<1>1. c.dst \in Mixes /\ l \in 1 .. NumLayers
  BY CallFields, ConstantTypes
<1>2. pc[c] = "parsed" /\ buffer[c.dst][l] # {} /\ Complete(c.dst, l)
  BY <1>1 DEF SendLayer, IsMiddleLayer, MinKey, Keys
<1>3. PICK d \in buffer[c.dst][l] : pc[d] = "parsed"
  BY <1>1, <1>2 DEF CompletedBySender
<1>4. d \in Calls
  BY <1>1, BufferCalls DEF IInv
<1>5. d.dst = c.dst /\ d.gen = sent[c.dst][l]
  BY <1>1 DEF IInv, LayerPure
<1>6. c = d
  BY <1>2, <1>3, <1>4, <1>5, OneParsed
<1> QED
  BY <1>5, <1>6

\* A handler that has looked at the buffer leaves no complete layer behind: there is at
\* most one, the lowest.
LEMMA CompletedStep ==
  ASSUME IInv, NoneFailed, CompletedBySender, [Next]_vars, NoneFailed'
  PROVE  CompletedBySender'
<1> SUFFICES ASSUME NEW m \in Mixes, NEW l \in 1 .. NumLayers - 1,
                    buffer'[m][l] # {}, Complete(m, l)'
             PROVE  \E c \in buffer'[m][l] : pc'[c] = "parsed"
  BY DEF CompletedBySender
<1>0. l \in 1 .. NumLayers
  BY ConstantTypes
<1> USE DEF IInv, TypeOK
<1>1. CASE /\ buffer'[m][l] = buffer[m][l]
           /\ \A x \in Calls : pc[x] = "parsed" => pc'[x] = "parsed"
  <2>1. PICK c \in buffer[m][l] : pc[c] = "parsed"
    BY <1>1 DEF CompletedBySender, Complete
  <2>2. c \in Calls
    BY <1>0, BufferCalls
  <2> QED
    BY <1>1, <2>1, <2>2
<1>2. ASSUME NEW c \in Calls, ParseInput(c)
      PROVE  \E d \in buffer'[m][l] : pc'[d] = "parsed"
  <2>1. /\ c.dst \in Mixes /\ pc'[c] = "parsed"
        /\ \A x \in Calls : pc[x] = "parsed" => pc'[x] = "parsed"
    BY <1>2, CallFields DEF ParseInput
  <2>2. CASE m = c.dst /\ l = c.layer + 1
    <3>1. c \in buffer'[m][l]
      BY <1>0, <1>2, <2>2 DEF ParseInput
    <3> QED
      BY <2>1, <3>1
  <2>3. CASE ~ (m = c.dst /\ l = c.layer + 1)
    <3>1. buffer'[m][l] = buffer[m][l]
      BY <1>0, <1>2, <2>1, <2>3, CallFields DEF ParseInput
    <3> QED
      BY <1>1, <2>1, <3>1
  <2> QED
    BY <2>2, <2>3
<1>3. ASSUME NEW c \in Calls, NothingToSend(c)
      PROVE  \E d \in buffer'[m][l] : pc'[d] = "parsed"
  <2>1. buffer' = buffer /\ pc' = [pc EXCEPT ![c] = "done"]
    BY <1>3 DEF NothingToSend
  <2>2. buffer[m][l] # {} /\ Complete(m, l)
    BY <2>1 DEF Complete
  <2>3. IsMiddleLayer(m, l)
    BY <2>2, CompleteIsMin DEF IsMiddleLayer
  <2>4. m # c.dst
    BY <1>0, <1>3, <2>3 DEF NothingToSend
  <2>5. PICK d \in buffer[m][l] : pc[d] = "parsed"
    BY <2>2 DEF CompletedBySender
  <2>6. d \in Calls /\ d.dst = m
    BY <1>0, BufferCalls DEF LayerPure
  <2> QED
    BY <2>1, <2>4, <2>5, <2>6
<1>4. ASSUME NEW c \in Calls, NEW k \in 1 .. NumLayers - 1, SendLayer(c, k)
      PROVE  \E d \in buffer'[m][l] : pc'[d] = "parsed"
  <2>1. c.dst \in Mixes /\ k \in 1 .. NumLayers
    BY CallFields, ConstantTypes
  <2>2. buffer' = [buffer EXCEPT ![c.dst][k] = {}]
    BY <1>4 DEF SendLayer
  <2>3. ~ (m = c.dst /\ l = k) /\ buffer'[m][l] = buffer[m][l]
    BY <1>0, <2>1, <2>2
  <2>4. buffer[m][l] # {} /\ Complete(m, l)
    BY <2>3 DEF Complete
  <2>5. m # c.dst
    <3>1. MinKey(m, l)
      BY <2>4, CompleteIsMin
    <3>2. MinKey(c.dst, k)
      BY <1>4 DEF SendLayer, IsMiddleLayer
    <3>3. l \in Nat /\ k \in Nat
      BY <1>0, <2>1
    <3> HIDE DEF IInv, TypeOK
    <3> QED
      BY <2>3, <3>1, <3>2, <3>3 DEF MinKey
  <2>6. PICK d \in buffer[m][l] : pc[d] = "parsed"
    BY <2>4 DEF CompletedBySender
  <2>7. d \in Calls /\ d.dst = m /\ d # c
    <3>1. d \in Calls
      BY <1>0, BufferCalls
    <3>2. d.dst = m
      BY DEF LayerPure
    <3> QED
      BY <2>5, <3>1, <3>2
  <2>8. d \notin Batch(c.dst, k, sent[c.dst][k])
    BY <1>4, <2>6, BatchUnsent
  <2>9. pc'[d] = pc[d]
    BY <1>4, <2>7, <2>8 DEF SendLayer
  <2> QED
    BY <2>3, <2>6, <2>9
<1>5. ASSUME NEW c \in Calls, Finish(c)
      PROVE  \E d \in buffer'[m][l] : pc'[d] = "parsed"
  BY <1>1, <1>5 DEF Finish
<1>6. ASSUME NEW c \in Calls, Failure(c) PROVE FALSE
  BY <1>6 DEF Failure, Panic, Break, Cascade, Fail, NoneFailed
<1>7. ASSUME NEW n \in Mixes, OutputLastLayer(n)
      PROVE  \E d \in buffer'[m][l] : pc'[d] = "parsed"
  <2>1. PICK k \in 1 .. NumLayers : buffer' = [buffer EXCEPT ![n][k] = {}]
    BY <1>7 DEF OutputLastLayer
  <2>2. buffer'[m][l] = buffer[m][l]
    BY <1>0, <2>1
  <2> QED
    BY <1>1, <1>7, <2>2 DEF OutputLastLayer
<1>8. ASSUME NEW n \in Mixes, StartMixRound(n)
      PROVE  \E d \in buffer'[m][l] : pc'[d] = "parsed"
  <2>1. pc[StartCall(n)] = "unsent"
    BY <1>8, StartUnsent
  <2> QED
    BY <1>1, <1>8, <2>1 DEF StartMixRound
<1>9. ASSUME NEW n \in Mixes,
             GetRequest(n) \/ Acquire(n) \/ NextRound(n) \/ Reply(n) \/ GetPanic(n)
      PROVE  \E d \in buffer'[m][l] : pc'[d] = "parsed"
  BY <1>1, <1>9 DEF GetRequest, Acquire, NextRound, Reply, GetPanic, handlerVars
<1>10. CASE Idle \/ UNCHANGED vars
  BY <1>1, <1>10 DEF Idle, vars
<1> HIDE DEF IInv, TypeOK
<1> QED
  BY <1>2, <1>3, <1>4, <1>5, <1>6, <1>7, <1>8, <1>9, <1>10 DEF Next, Handler, Get

\* A layer is sent with the RPC of its packets, since its sender has such packets too, and
\* so is a round begun.
LEMMA KindStep ==
  ASSUME IInv, CompletedBySender, RpcMatchesPackets, OneRequestAtATime, [Next]_vars
  PROVE  RpcMatchesPackets'
<1> SUFFICES ASSUME NEW x \in Calls, pc'[x] # "unsent"
             PROVE  method'[x] = Kind(x.gen)
  BY DEF RpcMatchesPackets
<1> USE DEF IInv
<1>1. CASE /\ method' = method
           /\ \A y \in Calls : pc'[y] # "unsent" => pc[y] # "unsent"
  BY <1>1 DEF RpcMatchesPackets
<1>2. ASSUME NEW c \in Calls, NEW l \in 1 .. NumLayers - 1, SendLayer(c, l)
      PROVE  method'[x] = Kind(x.gen)
  <2> DEFINE batch == Batch(c.dst, l, sent[c.dst][l])
  <2>1. /\ method'[x] = IF x \in batch THEN method[c] ELSE method[x]
        /\ pc[c] = "parsed"
        /\ x \notin batch /\ x # c => pc'[x] = pc[x]
    BY <1>2 DEF SendLayer
  <2>2. CASE x \notin batch
    BY <2>1, <2>2 DEF RpcMatchesPackets
  <2>3. CASE x \in batch
    <3>1. x.gen = sent[c.dst][l]
      BY <2>3 DEF Batch
    <3>2. c.gen = sent[c.dst][l]
      BY <1>2, SendsOwnRound
    <3>3. method[c] = Kind(c.gen)
      BY <2>1 DEF RpcMatchesPackets
    <3> QED
      BY <2>1, <2>3, <3>1, <3>2, <3>3
  <2> QED
    BY <2>2, <2>3
<1>3. ASSUME NEW m \in Mixes, StartMixRound(m)
      PROVE  method'[x] = Kind(x.gen)
  <2>1. CASE x = StartCall(m)
    <3>1. method'[x] = IF round[m] < NumSetupRounds - 1 THEN "setup" ELSE "add"
      BY <1>3, <2>1 DEF StartMixRound, TypeOK
    <3>2. x.gen = sent[m][0] /\ sent[m][0] = round[m] + 1
      BY <1>3, <2>1 DEF StartMixRound, StartCall, GetRound
    <3>3. round[m] \in Nat
      BY DEF TypeOK, Rounds
    <3> QED
      BY <3>1, <3>2, <3>3, RoundsAssumption DEF Kind
  <2>2. CASE x # StartCall(m)
    BY <1>3, <2>2 DEF StartMixRound, TypeOK, RpcMatchesPackets
  <2> QED
    BY <2>1, <2>2
<1>4. ASSUME NEW c \in Calls, ParseInput(c) \/ NothingToSend(c) \/ Finish(c) \/ Failure(c)
      PROVE  method'[x] = Kind(x.gen)
  <2>1. method' = method
    BY <1>4 DEF ParseInput, NothingToSend, Finish, Failure, Panic, Break, Cascade, Fail
  <2>2. \A y \in Calls : pc'[y] # "unsent" => pc[y] # "unsent"
    BY <1>4 DEF ParseInput, NothingToSend, Finish, Failure, Panic, Break, Cascade, Fail,
                InProgress, TypeOK
  <2> QED
    BY <1>1, <2>1, <2>2
<1>5. ASSUME NEW m \in Mixes,
             \/ GetRequest(m) \/ Acquire(m) \/ OutputLastLayer(m) \/ NextRound(m)
             \/ Reply(m) \/ GetPanic(m)
      PROVE  method'[x] = Kind(x.gen)
  <2>1. UNCHANGED <<pc, method>>
    BY <1>5 DEF GetRequest, Acquire, OutputLastLayer, NextRound, Reply, GetPanic, handlerVars
  <2> QED
    BY <1>1, <2>1
<1>6. CASE Idle \/ UNCHANGED vars
  BY <1>1, <1>6 DEF Idle, vars
<1> HIDE DEF IInv
<1> QED
  BY <1>2, <1>3, <1>4, <1>5, <1>6 DEF Next, Handler, Get

\* No handler panics on packets of the other kind, and without a first failure there is none.
LEMMA NoFailureStep ==
  ASSUME Fragile = {}, IInv, NoneFailed, RpcMatchesPackets, [Next]_vars
  PROVE  NoneFailed'
<1> SUFFICES ASSUME NEW x \in Calls, pc'[x] = "failed" PROVE FALSE
  BY DEF NoneFailed
<1>1. pc[x] # "failed"
  BY DEF NoneFailed
<1> USE DEF IInv, TypeOK
<1>2. ASSUME NEW c \in Calls, Failure(c) PROVE FALSE
  <2>1. ~ Panic(c)
    BY DEF Panic, RpcMatchesPackets
  <2>2. ~ Break(c)
    BY DEF Break
  <2>3. ~ Cascade(c)
    BY DEF Cascade, NoneFailed
  <2> QED
    BY <1>2, <2>1, <2>2, <2>3 DEF Failure
<1>3. ASSUME NEW c \in Calls, ParseInput(c) \/ NothingToSend(c) \/ Finish(c) PROVE FALSE
  BY <1>1, <1>3 DEF ParseInput, NothingToSend, Finish
<1>4. ASSUME NEW c \in Calls, NEW l \in 1 .. NumLayers - 1, SendLayer(c, l) PROVE FALSE
  BY <1>1, <1>4 DEF SendLayer
<1>5. ASSUME NEW m \in Mixes, GetRequest(m) \/ Get(m) \/ GetPanic(m) PROVE FALSE
  BY <1>1, <1>5 DEF Get, GetRequest, Acquire, OutputLastLayer, StartMixRound, NextRound,
     Reply, GetPanic, handlerVars
<1>6. CASE Idle \/ UNCHANGED vars
  BY <1>1, <1>6 DEF Idle, vars
<1> HIDE DEF IInv, TypeOK
<1> QED
  BY <1>2, <1>3, <1>4, <1>5, <1>6 DEF Next, Handler

\* Where every mix goes on with one request before it parses the next, and no connection
\* breaks, every layer is sent with the RPC of its packets and no handler panics, for any
\* number of mixes, layers and rounds.
THEOREM OneRequestInvariance ==
  ASSUME Fragile = {}
  PROVE  Spec /\ []OneRequestAtATime => []OneRequestInv
<1>1. Init => OneRequestInv
  <2> SUFFICES ASSUME Init PROVE OneRequestInv
    OBVIOUS
  <2>1. NoneFailed
    BY DEF Init, NoneFailed
  <2>2. RpcMatchesPackets
    BY RoundsAssumption DEF Init, RpcMatchesPackets, Kind
  <2>3. CompletedBySender
    BY ConstantTypes DEF Init, CompletedBySender
  <2> QED
    BY <2>1, <2>2, <2>3 DEF OneRequestInv
<1>2. IInv /\ OneRequestAtATime /\ OneRequestInv /\ [Next]_vars => OneRequestInv'
  BY NoFailureStep, CompletedStep, KindStep DEF OneRequestInv
<1> QED
  BY <1>1, <1>2, Invariance, PTL DEF Spec

\* "if setup packet send setup, else add" holds of a server with one worker thread.
THEOREM RightRpc ==
  ASSUME Fragile = {}
  PROVE  Spec /\ []OneRequestAtATime => []RpcMatchesPackets
BY OneRequestInvariance, PTL DEF OneRequestInv

================================================================================
