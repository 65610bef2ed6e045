---------------------------- MODULE MixRounds_proofs ----------------------------
(***************************************************************************)
(* Proofs about the round engine, for any number of mixes, layers, rounds  *)
(* and broken calls.                                                       *)
(***************************************************************************)
EXTENDS MixRounds, FiniteSetTheorems, TLAPS

\* The constants are numbers of the ranges the code gives them.
LEMMA ConstantTypes ==
  /\ NumMixes \in Nat /\ NumMixes >= 1
  /\ NumLayers \in Nat /\ NumLayers >= 2
  /\ NumRounds \in Nat /\ NumRounds >= 2
  /\ AmountToAcquire \in Nat /\ AmountToAcquire >= 1
  /\ FirstMeasuredLayer \in 1 .. NumLayers - 1
<1>1. NumMixes \in Nat /\ NumMixes >= 1
  BY MixesAssumption, FS_CardinalityType, FS_EmptySet DEF NumMixes
<1>2. AmountToAcquire \in Nat /\ AmountToAcquire >= 1
  <2>1. NumLayers - 1 \in Nat
    BY LayersAssumption
  <2>2. NumMixes * (NumLayers - 1) \in Nat
    BY <1>1, <2>1
  <2> QED
    BY <2>2 DEF AmountToAcquire
<1> QED
  BY <1>1, <1>2, LayersAssumption, RoundsAssumption, MeasureAssumption DEF NumRounds

\* A call has the fields of its record.
LEMMA CallFields ==
  ASSUME NEW c \in Calls
  PROVE  /\ c.src \in Mixes /\ c.dst \in Mixes
         /\ c.layer \in 0 .. NumLayers - 1 /\ c.layer \in Nat
         /\ c.gen \in Rounds /\ c.gen \in Nat
         /\ c.layer = 0 => c.dst = c.src
BY ConstantTypes DEF Calls, Dests, Rounds

--------------------------------------------------------------------------------
(***************************************************************************)
(* Type correctness.                                                       *)
(***************************************************************************)

\* The initial state has the types of TypeOK.
LEMMA TypeInit == Init => TypeOK
BY ConstantTypes, RoundsAssumption
   DEF Init, TypeOK, CallStates, GetStates, Rounds, Calls

\* The number of sendings of a layer is a number.
LEMMA SentNat ==
  ASSUME TypeOK, NEW m \in Mixes, NEW l \in 0 .. NumLayers - 1
  PROVE  sent[m][l] \in Nat
<1>1. sent[m] \in [0 .. NumLayers - 1 -> Nat]
  BY DEF TypeOK
<1> QED
  BY <1>1

\* What the buffer of a middle layer holds are calls.
LEMMA BufferCalls ==
  ASSUME TypeOK, NEW m \in Mixes, NEW l \in 1 .. NumLayers
  PROVE  buffer[m][l] \subseteq Calls
<1>1. buffer[m] \in [1 .. NumLayers -> SUBSET Calls]
  BY DEF TypeOK
<1> QED
  BY <1>1

\* No handler, no failure and no step of get() leaves the types.
LEMMA TypeHandler ==
  ASSUME TypeOK, NEW c \in Calls, Handler(c)
  PROVE  TypeOK'
<1> USE DEF TypeOK, handlerVars, getVars
<1>1. CASE ParseInput(c)
  <2>1. c.dst \in Mixes /\ c.layer + 1 \in 1 .. NumLayers
    BY CallFields, ConstantTypes
  <2> QED
    BY <1>1, <2>1 DEF ParseInput, CallStates
<1>2. CASE NothingToSend(c)
  BY <1>2, CallFields DEF NothingToSend, CallStates
<1>3. ASSUME NEW l \in 1 .. NumLayers - 1, SendLayer(c, l)
      PROVE  TypeOK'
  <2>1. c.dst \in Mixes /\ l \in 0 .. NumLayers - 1 /\ l \in 1 .. NumLayers
    BY CallFields, ConstantTypes
  <2>2. sent[c.dst][l] + 1 \in Nat
    BY <2>1, SentNat
  <2>3. pc' \in [Calls -> CallStates]
    BY <1>3 DEF SendLayer, CallStates
  <2>4. method' \in [Calls -> {"setup", "add"}]
    BY <1>3 DEF SendLayer
  <2>5. children' \in [Calls -> SUBSET Calls]
    BY <1>3 DEF SendLayer
  <2>6. buffer' \in [Mixes -> [1 .. NumLayers -> SUBSET Calls]]
    BY <1>3, <2>1 DEF SendLayer
  <2>7. sent' \in [Mixes -> [0 .. NumLayers - 1 -> Nat]]
    BY <1>3, <2>1, <2>2 DEF SendLayer
  <2>8. timer' \in [Mixes -> Nat]
    BY <1>3, <2>1, <2>2 DEF SendLayer
  <2> QED
    BY <1>3, <2>3, <2>4, <2>5, <2>6, <2>7, <2>8 DEF SendLayer
<1>4. CASE Finish(c)
  BY <1>4, CallFields DEF Finish, CallStates
<1> QED
  BY <1>1, <1>2, <1>3, <1>4 DEF Handler

LEMMA TypeFailure ==
  ASSUME TypeOK, NEW c \in Calls, Failure(c)
  PROVE  TypeOK'
BY DEF Failure, Panic, Break, Cascade, Fail, TypeOK, CallStates, handlerVars, getVars

LEMMA TypeGet ==
  ASSUME TypeOK, NEW m \in Mixes, GetRequest(m) \/ Get(m) \/ GetPanic(m)
  PROVE  TypeOK'
<1> USE DEF TypeOK, handlerVars, getVars, GetStates
<1>1. CASE GetRequest(m)
  BY <1>1 DEF GetRequest
<1>2. CASE Acquire(m)
  <2>1. permits[m] - AmountToAcquire \in Nat
    BY <1>2, ConstantTypes DEF Acquire
  <2> QED
    BY <1>2, <2>1 DEF Acquire
<1>3. CASE OutputLastLayer(m)
  <2>1. PICK l \in 1 .. NumLayers :
          /\ messages' = [messages EXCEPT ![m] = buffer[m][l]]
          /\ buffer' = [buffer EXCEPT ![m][l] = {}]
    BY <1>3 DEF OutputLastLayer
  <2>2. buffer[m] \in [1 .. NumLayers -> SUBSET Calls]
    OBVIOUS
  <2>3. buffer[m][l] \subseteq Calls
    BY <2>2
  <2> QED
    BY <1>3, <2>1, <2>3 DEF OutputLastLayer
<1>4. CASE StartMixRound(m)
  <2>1. 0 \in 0 .. NumLayers - 1
    BY ConstantTypes
  <2>2. sent[m][0] + 1 \in Nat
    BY <2>1, SentNat
  <2>3. pc' \in [Calls -> CallStates] /\ method' \in [Calls -> {"setup", "add"}]
    BY <1>4 DEF StartMixRound, CallStates
  <2>4. sent' \in [Mixes -> [0 .. NumLayers - 1 -> Nat]]
    BY <1>4, <2>1, <2>2 DEF StartMixRound
  <2>5. getpc' \in [Mixes -> GetStates]
    BY <1>4 DEF StartMixRound
  <2> QED
    BY <1>4, <2>3, <2>4, <2>5 DEF StartMixRound
<1>5. CASE NextRound(m)
  <2>1. round[m] + 1 \in Rounds
    BY <1>5, CallFields DEF NextRound
  <2> QED
    BY <1>5, <2>1 DEF NextRound
<1>6. CASE Reply(m)
  BY <1>6 DEF Reply
<1>7. CASE GetPanic(m)
  BY <1>7 DEF GetPanic
<1> QED
  BY <1>1, <1>2, <1>3, <1>4, <1>5, <1>6, <1>7 DEF Get

LEMMA TypeStep == TypeOK /\ [Next]_vars => TypeOK'
<1> SUFFICES ASSUME TypeOK, [Next]_vars PROVE TypeOK'
  OBVIOUS
<1>1. CASE UNCHANGED vars
  BY <1>1 DEF vars, TypeOK
<1> QED
  BY <1>1, TypeHandler, TypeFailure, TypeGet DEF Next, Idle

\* The state never leaves its types: no permit count goes below zero, no get()
\* handler runs past the last round.
THEOREM TypeCorrect == Spec => []TypeOK
BY TypeInit, TypeStep, PTL DEF Spec

--------------------------------------------------------------------------------
(***************************************************************************)
(* How many calls there are.                                               *)
(***************************************************************************)

\* A set that maps one-to-one into a finite set is finite and not larger.
LEMMA InjectionBound ==
  ASSUME NEW S, NEW T, IsFiniteSet(T), NEW f \in [S -> T],
         \A a, b \in S : f[a] = f[b] => a = b
  PROVE  IsFiniteSet(S) /\ Cardinality(S) <= Cardinality(T)
<1>1. f \in Injection(S, T)
  BY DEF Injection, IsInjective
<1> QED
  BY <1>1, FS_Injection

\* A set of calls is finite.
LEMMA CallsFinite == \A S \in SUBSET Calls : IsFiniteSet(S) /\ Cardinality(S) \in Nat
<1> DEFINE T == (Mixes \X Mixes) \X ((0 .. NumLayers - 1) \X (0 .. NumRounds - 1))
           f == [c \in Calls |-> <<<<c.src, c.dst>>, <<c.layer, c.gen>>>>]
<1>1. IsFiniteSet(0 .. NumLayers - 1) /\ IsFiniteSet(0 .. NumRounds - 1)
  BY ConstantTypes, FS_Interval
<1>2. IsFiniteSet(Mixes \X Mixes)
  BY MixesAssumption, FS_Product
<1>3. IsFiniteSet((0 .. NumLayers - 1) \X (0 .. NumRounds - 1))
  BY <1>1, FS_Product
<1>4. IsFiniteSet(T)
  BY <1>2, <1>3, FS_Product
<1>5. f \in [Calls -> T]
  BY DEF Calls, Rounds
<1>6. \A a, b \in Calls : f[a] = f[b] => a = b
  BY DEF Calls
<1>7. IsFiniteSet(Calls)
  BY <1>4, <1>5, <1>6, InjectionBound
<1> QED
  BY <1>7, FS_Subset, FS_CardinalityType

\* The calls of one sending of layer l that reach m
LayerCalls(m, l, g) == {c \in Calls : c.dst = m /\ c.layer = l /\ c.gen = g}

\* At most one such call per mix.
LEMMA LayerCallsBound ==
  ASSUME NEW m \in Mixes, NEW l \in 0 .. NumLayers - 1, NEW g \in Nat
  PROVE  Cardinality(LayerCalls(m, l, g)) <= NumMixes
<1> DEFINE f == [c \in LayerCalls(m, l, g) |-> c.src]
<1>1. f \in [LayerCalls(m, l, g) -> Mixes]
  BY DEF LayerCalls, Calls
<1>2. \A a, b \in LayerCalls(m, l, g) : f[a] = f[b] => a = b
  BY DEF LayerCalls, Calls
<1> QED
  BY <1>1, <1>2, MixesAssumption, InjectionBound DEF NumMixes

\* A multiple of n between 1 and n is n.
LEMMA FullCount ==
  ASSUME NEW n \in Nat, NEW k \in Nat, 1 <= k, k <= n, k % n = 0
  PROVE  k = n
OBVIOUS

\* What is_middle_layer finds complete is complete: it holds the calls of one whole
\* sending of the layer below, one of every mix (of the mix itself for layer 0).
LEMMA CompleteLayer ==
  ASSUME TypeOK, LayerPure, NEW m \in Mixes, NEW l \in 1 .. NumLayers - 1,
         buffer[m][l] # {}, Complete(m, l)
  PROVE  buffer[m][l] = LayerCalls(m, l - 1, sent[m][l])
<1> DEFINE B == buffer[m][l]
           T == LayerCalls(m, l - 1, sent[m][l])
<1>1. l \in 0 .. NumLayers - 1 /\ l - 1 \in 0 .. NumLayers - 1 /\ l \in 1 .. NumLayers
  BY ConstantTypes
<1>2. sent[m][l] \in Nat
  BY <1>1, SentNat
<1>3. B \subseteq Calls
  <2>1. buffer[m] \in [1 .. NumLayers -> SUBSET Calls]
    BY DEF TypeOK
  <2> QED
    BY <1>1, <2>1
<1>4. B \subseteq T
  BY <1>3 DEF LayerPure, LayerCalls
<1>5. T \subseteq Calls
  BY DEF LayerCalls
<1>6. CASE l = 1
  <2>1. \A c, d \in T : c = d
    BY <1>6 DEF LayerCalls, Calls, Dests
  <2> QED
    BY <1>4, <2>1
<1>7. CASE l # 1
  <2>1. Cardinality(B) % NumMixes = 0
    BY <1>7 DEF Complete
  <2>2. Cardinality(T) <= NumMixes /\ IsFiniteSet(T) /\ Cardinality(T) \in Nat
    BY <1>1, <1>2, <1>5, LayerCallsBound, CallsFinite
  <2>3. Cardinality(B) <= Cardinality(T) /\ (Cardinality(B) = Cardinality(T) => B = T)
    BY <1>4, <2>2, FS_Subset
  <2>4. Cardinality(B) \in Nat /\ Cardinality(B) >= 1
    BY <1>3, CallsFinite, FS_EmptySet
  <2>5. Cardinality(B) = NumMixes
    BY <2>1, <2>2, <2>3, <2>4, ConstantTypes, FullCount
  <2> QED
    BY <2>2, <2>3, <2>4, <2>5, ConstantTypes
<1> QED
  BY <1>6, <1>7

\* Distribution, for the products of unknowns that the permit count needs.
LEMMA NextMultiple == ASSUME NEW k \in Nat, NEW r \in Nat
                      PROVE  k * (r + 1) = k * r + k /\ k * r \in Nat
OBVIOUS

\* The calls of the rounds 0 .. r to one mix are at most the permits of these rounds.
LEMMA RoundCallsBound ==
  ASSUME NEW m \in Mixes, NEW r \in Nat
  PROVE  Cardinality({c \in Calls : c.dst = m /\ c.gen <= r}) <= AmountToAcquire * (r + 1)
<1> DEFINE U == {c \in Calls : c.dst = m /\ c.gen <= r}
           X == {<<m, 0>>}
           Y == Mixes \X (1 .. NumLayers - 1)
           Z == X \union Y
           f == [c \in U |-> <<<<c.src, c.layer>>, c.gen>>]
<1>1. IsFiniteSet(1 .. NumLayers - 1) /\ Cardinality(1 .. NumLayers - 1) = NumLayers - 1
  BY ConstantTypes, FS_Interval
<1>2. IsFiniteSet(0 .. r) /\ Cardinality(0 .. r) = r + 1
  BY FS_Interval
<1>3. IsFiniteSet(Y) /\ Cardinality(Y) = NumMixes * (NumLayers - 1)
  BY <1>1, MixesAssumption, FS_Product DEF NumMixes
<1>4. IsFiniteSet(X) /\ Cardinality(X) = 1
  BY FS_Singleton
<1>5. X \intersect Y = {}
  OBVIOUS
<1>6. IsFiniteSet(Z) /\ Cardinality(Z) = AmountToAcquire
  <2>1. Cardinality(X \intersect Y) = 0
    BY <1>5, FS_EmptySet
  <2>2. NumLayers - 1 \in Nat
    BY ConstantTypes
  <2>3. NumMixes * (NumLayers - 1) \in Nat
    BY <2>2, ConstantTypes
  <2>4. Cardinality(Z) = 1 + NumMixes * (NumLayers - 1) - 0
    BY <1>3, <1>4, <2>1, FS_Union
  <2>5. IsFiniteSet(Z)
    BY <1>3, <1>4, FS_Union
  <2> QED
    BY <2>3, <2>4, <2>5 DEF AmountToAcquire
<1>7. IsFiniteSet(Z \X (0 .. r)) /\ Cardinality(Z \X (0 .. r)) = AmountToAcquire * (r + 1)
  <2> DEFINE W == 0 .. r
  <2>1. IsFiniteSet(W) /\ Cardinality(W) = r + 1
    BY <1>2
  <2> HIDE DEF W, Z
  <2>2. IsFiniteSet(Z \X W) /\ Cardinality(Z \X W) = AmountToAcquire * (r + 1)
    BY <1>6, <2>1, FS_Product, Zenon
  <2> QED
    BY <2>2 DEF W
<1>8. f \in [U -> Z \X (0 .. r)]
  <2> SUFFICES ASSUME NEW c \in U
               PROVE  <<c.src, c.layer>> \in Z /\ c.gen \in 0 .. r
    OBVIOUS
  <2>1. CASE c.layer = 0
    BY <2>1, CallFields
  <2>2. CASE c.layer # 0
    BY <2>2, CallFields, ConstantTypes
  <2> QED
    BY <2>1, <2>2
<1>9. \A a, b \in U : f[a] = f[b] => a = b
  BY DEF Calls
<1>10. Cardinality(U) <= AmountToAcquire * (r + 1)
  <2> HIDE DEF U, Z, f
  <2> QED
    BY <1>7, <1>8, <1>9, InjectionBound
<1> QED
  BY <1>10

--------------------------------------------------------------------------------
(***************************************************************************)
(* The semaphore is a barrier.                                             *)
(***************************************************************************)

\* When get() has the permits of a round, every mix has sent its last layer of the
\* round: otherwise no mix is further than this round, the call of the last layer is
\* one that is not done, and there are too few done calls for the permits.
LEMMA PermitsImplyContributed ==
  ASSUME IInv, NEW m \in Mixes, getpc[m] = "acquire", permits[m] >= AmountToAcquire,
         NEW n \in Mixes
  PROVE  sent[n][NumLayers - 1] >= round[m] + 1
<1> DEFINE r == round[m]
           U == {c \in Calls : c.dst = m /\ c.gen <= r}
           last == [src |-> n, dst |-> m, layer |-> NumLayers - 1, gen |-> r]
<1>1. r \in Rounds /\ r \in Nat
  BY ConstantTypes DEF IInv, TypeOK, Rounds
<1>2. NumLayers - 1 \in 0 .. NumLayers - 1 /\ 0 \in 0 .. NumLayers - 1
  BY ConstantTypes
<1>3. \A x \in Mixes : sent[x][0] \in Nat /\ sent[x][NumLayers - 1] \in Nat
  BY <1>2, SentNat DEF IInv
<1> SUFFICES ASSUME sent[n][NumLayers - 1] <= r
             PROVE  FALSE
  BY <1>1, <1>3
<1>4. last \in Calls
  BY <1>1, <1>2, ConstantTypes DEF Calls, Dests
<1>5. pc[last] = "unsent"
  BY <1>4 DEF IInv, SentCalls
<1>6. \A x \in Mixes : sent[x][0] <= r + 1
  BY <1>1, <1>3 DEF IInv, Lockstep
<1>7. DoneCalls(m) \subseteq U \ {last}
  <2> SUFFICES ASSUME NEW c \in Calls, c.dst = m, pc[c] = "done"
               PROVE  c.gen <= r /\ c # last
    BY DEF DoneCalls
  <2>1. c.gen < sent[c.src][c.layer]
    BY CallFields, SentNat DEF IInv, SentCalls
  <2>2. sent[c.src][c.layer] <= sent[c.src][0]
    BY CallFields, <1>2 DEF IInv, SentOrder
  <2>3. sent[c.src][c.layer] \in Nat
    BY CallFields, SentNat DEF IInv
  <2> QED
    BY <2>1, <2>2, <2>3, <1>1, <1>3, <1>5, <1>6, CallFields
<1>8. Cardinality(DoneCalls(m)) <= AmountToAcquire * (r + 1) - 1
  <2>1. IsFiniteSet(U) /\ Cardinality(U) \in Nat
    BY CallsFinite
  <2>2. last \in U
    BY <1>1, <1>4
  <2>3. IsFiniteSet(U \ {last}) /\ Cardinality(U \ {last}) = Cardinality(U) - 1
    <3> HIDE DEF U, last
    <3> QED
      BY <2>1, <2>2, FS_RemoveElement
  <2>4. Cardinality(DoneCalls(m)) <= Cardinality(U \ {last})
    BY <1>7, <2>3, FS_Subset
  <2>5. Cardinality(U) <= AmountToAcquire * (r + 1)
    BY <1>1, RoundCallsBound
  <2>6. Cardinality(DoneCalls(m)) \in Nat
    BY CallsFinite DEF DoneCalls
  <2>7. AmountToAcquire * (r + 1) \in Nat
    BY <1>1, ConstantTypes
  <2> QED
    BY <2>1, <2>3, <2>4, <2>5, <2>6, <2>7
<1>9. permits[m] + AmountToAcquire * r = Cardinality(DoneCalls(m))
  BY DEF IInv, PermitCount, Acquired
<1>10. permits[m] \in Nat
  BY DEF IInv, TypeOK
<1>11. AmountToAcquire * (r + 1) = AmountToAcquire * r + AmountToAcquire
       /\ AmountToAcquire * r \in Nat
  BY <1>1, ConstantTypes, NextMultiple
<1> QED
  BY <1>8, <1>9, <1>10, <1>11, ConstantTypes

\* No mix is more than one sending ahead of another, in any two layers.
LEMMA OneAhead ==
  ASSUME IInv, NEW m \in Mixes, NEW n \in Mixes,
         NEW k \in 0 .. NumLayers - 1, NEW l \in 0 .. NumLayers - 1
  PROVE  sent[n][k] <= sent[m][l] + 1
<1>1. 0 \in 0 .. NumLayers - 1 /\ NumLayers - 1 \in 0 .. NumLayers - 1
  BY ConstantTypes
<1>2. sent[n][k] <= sent[n][0]
  BY <1>1 DEF IInv, SentOrder
<1>3. sent[n][0] <= sent[m][NumLayers - 1] + 1
  BY DEF IInv, Lockstep
<1>4. sent[m][NumLayers - 1] <= sent[m][l]
  BY <1>1, ConstantTypes DEF IInv, SentOrder
<1>5. /\ sent[n][k] \in Nat /\ sent[n][0] \in Nat
      /\ sent[m][NumLayers - 1] \in Nat /\ sent[m][l] \in Nat
  BY <1>1, SentNat DEF IInv
<1> QED
  BY <1>2, <1>3, <1>4, <1>5

\* A complete layer is the lowest one in the buffer.  The mix that completed layer l
\* has sent every lower layer of the same round, so a lower layer in the buffer would
\* be one of the next round, which nobody has started.
LEMMA CompleteIsMin ==
  ASSUME IInv, NEW m \in Mixes, NEW l \in 1 .. NumLayers - 1,
         buffer[m][l] # {}, Complete(m, l)
  PROVE  MinKey(m, l)
<1> DEFINE g == sent[m][l]
           own == [src |-> m, dst |-> m, layer |-> l - 1, gen |-> g]
<1>1. l \in 0 .. NumLayers - 1 /\ l - 1 \in 0 .. NumLayers - 1 /\ l \in 1 .. NumLayers
  BY ConstantTypes
<1>2. g \in Nat
  BY <1>1, SentNat DEF IInv
<1>3. buffer[m][l] = LayerCalls(m, l - 1, g)
  BY CompleteLayer DEF IInv
<1>4. g \in Rounds
  <2>1. PICK c \in LayerCalls(m, l - 1, g) : TRUE
    BY <1>3
  <2> QED
    BY <2>1, CallFields DEF LayerCalls
<1>5. own \in LayerCalls(m, l - 1, g)
  BY <1>1, <1>4 DEF LayerCalls, Calls, Dests
<1>6. own \in Calls /\ pc[own] # "unsent"
  BY <1>3, <1>5 DEF IInv, BufferParsed, LayerCalls
<1>7. sent[m][l - 1] > g
  BY <1>1, <1>2, <1>6, SentNat DEF IInv, SentCalls
<1> SUFFICES ASSUME NEW k \in Keys(m), k < l
             PROVE  FALSE
  BY <1>1 DEF MinKey, Keys
<1>8. k \in 1 .. NumLayers - 1 /\ k \in 0 .. NumLayers - 1 /\ k - 1 \in 0 .. NumLayers - 1
  BY ConstantTypes DEF Keys
<1>9. sent[m][k] > g
  <2>1. sent[m][l - 1] <= sent[m][k]
    BY <1>1, <1>8 DEF IInv, SentOrder
  <2>2. sent[m][k] \in Nat /\ sent[m][l - 1] \in Nat
    BY <1>1, <1>8, SentNat DEF IInv
  <2> QED
    BY <1>2, <1>7, <2>1, <2>2
<1>10. PICK c \in Calls : c.layer = k - 1 /\ c.gen = sent[m][k] /\ pc[c] # "unsent"
  <2>1. buffer[m] \in [1 .. NumLayers -> SUBSET Calls]
    BY DEF IInv, TypeOK
  <2>2. PICK c \in buffer[m][k] : c \in Calls
    BY <1>8, <2>1 DEF Keys
  <2> QED
    BY <1>8, <2>2 DEF IInv, LayerPure, BufferParsed
<1>11. sent[c.src][k - 1] > sent[m][k]
  BY <1>8, <1>10, CallFields, SentNat DEF IInv, SentCalls
<1>12. sent[c.src][k - 1] <= g + 1
  BY <1>1, <1>8, <1>10, CallFields, OneAhead
<1> QED
  BY <1>2, <1>8, <1>9, <1>10, <1>11, <1>12, CallFields, SentNat DEF IInv

\* A handler that finishes is one more done call of its mix, and of no other.
LEMMA OneMoreDone ==
  ASSUME TypeOK, PermitCount, NEW c \in Calls, pc[c] # "done",
         \A x \in Calls : pc'[x] = IF x = c THEN "done" ELSE pc[x],
         \A m \in Mixes : permits'[m] = IF m = c.dst THEN permits[m] + 1 ELSE permits[m]
  PROVE  \A m \in Mixes :
           permits'[m] + AmountToAcquire * Acquired(m) = Cardinality(DoneCalls(m)')
<1> TAKE m \in Mixes
<1>1. permits[m] + AmountToAcquire * Acquired(m) = Cardinality(DoneCalls(m))
  BY DEF PermitCount
<1>2. IsFiniteSet(DoneCalls(m)) /\ Cardinality(DoneCalls(m)) \in Nat
  BY CallsFinite DEF DoneCalls
<1>3. permits[m] \in Nat /\ AmountToAcquire * Acquired(m) \in Nat
  <2>1. permits[m] \in Nat /\ round[m] \in Nat
    BY DEF TypeOK, Rounds
  <2>2. Acquired(m) \in Nat
    BY <2>1 DEF Acquired
  <2> QED
    BY <2>1, <2>2, ConstantTypes
<1>4. CASE m = c.dst
  <2>1. DoneCalls(m)' = DoneCalls(m) \union {c}
    BY <1>4 DEF DoneCalls
  <2>2. c \notin DoneCalls(m)
    BY DEF DoneCalls
  <2>3. Cardinality(DoneCalls(m)') = Cardinality(DoneCalls(m)) + 1
    BY <1>2, <2>1, <2>2, FS_AddElement
  <2> QED
    BY <1>1, <1>2, <1>3, <1>4, <2>3
<1>5. CASE m # c.dst
  <2>1. DoneCalls(m)' = DoneCalls(m)
    BY <1>5 DEF DoneCalls
  <2> QED
    BY <1>1, <1>5, <2>1
<1> QED
  BY <1>4, <1>5

--------------------------------------------------------------------------------
(***************************************************************************)
(* The invariant is inductive.                                             *)
(***************************************************************************)

\* The mixes start in the invariant.
LEMMA InvInit == Init => IInv
<1> SUFFICES ASSUME Init PROVE IInv
  OBVIOUS
<1> USE DEF Init
<1>1. TypeOK
  BY TypeInit
<1>2. \A m \in Mixes : \A l \in 0 .. NumLayers - 1 : sent[m][l] = IF l = 0 THEN 1 ELSE 0
  OBVIOUS
<1>3. SentCalls
  BY <1>2, CallFields DEF SentCalls
<1>4. SentOrder /\ Lockstep
  BY <1>2, ConstantTypes DEF SentOrder, Lockstep
<1>5. \A m \in Mixes : \A l \in 1 .. NumLayers - 1 : buffer[m][l] = {}
  BY ConstantTypes
<1>6. LayerPure /\ NoStrandedLayer
  BY <1>5 DEF LayerPure, NoStrandedLayer
<1>7. BufferParsed
  <2>1. \A c \in Calls : c.layer + 1 < NumLayers => sent[c.dst][c.layer + 1] = 0
    BY <1>2, CallFields, ConstantTypes
  <2> HIDE DEF Init
  <2>2. ASSUME NEW c \in Calls, c.layer + 1 < NumLayers
        PROVE  ~ (c.gen < sent[c.dst][c.layer + 1])
    BY <2>1, <2>2, CallFields
  <2> QED
    BY <1>5, <2>2 DEF BufferParsed
<1>8. GetRound
  BY <1>2, ConstantTypes DEF GetRound
<1>9. PermitCount
  <2>1. \A m \in Mixes : DoneCalls(m) = {}
    BY DEF DoneCalls
  <2>2. \A m \in Mixes : Acquired(m) = 0
    BY DEF Acquired
  <2>3. AmountToAcquire * 0 = 0
    BY ConstantTypes
  <2>4. \A m \in Mixes : permits[m] = 0
    OBVIOUS
  <2>5. 0 + 0 = Cardinality({})
    BY FS_EmptySet
  <2> HIDE DEF Init
  <2> QED
    BY <2>1, <2>2, <2>3, <2>4, <2>5 DEF PermitCount
<1>10. TimerSet
  BY <1>2, ConstantTypes DEF TimerSet
<1> QED
  BY <1>1, <1>3, <1>4, <1>6, <1>7, <1>8, <1>9, <1>10 DEF IInv

\* Parsing fills the layer that the mix is still to send, and the handler that may have
\* completed the layer is still to look at the buffer.
LEMMA InvParseInput ==
  ASSUME IInv, NEW c \in Calls, ParseInput(c)
  PROVE  IInv'
<1> USE DEF IInv, ParseInput, handlerVars, getVars
<1>1. TypeOK'
  BY TypeHandler DEF Handler
<1>2. c.dst \in Mixes /\ c.layer + 1 \in 1 .. NumLayers
  BY CallFields, ConstantTypes
<1>3. /\ \A x \in Calls : pc'[x] = IF x = c THEN "parsed" ELSE pc[x]
      /\ \A m \in Mixes : \A l \in 1 .. NumLayers :
           buffer'[m][l] = IF m = c.dst /\ l = c.layer + 1 THEN buffer[m][l] \union {c}
                           ELSE buffer[m][l]
  BY <1>2 DEF TypeOK
<1>4. \A l \in 1 .. NumLayers - 1 : l \in 1 .. NumLayers
  BY ConstantTypes
<1>5. SentCalls' /\ SentOrder' /\ Lockstep' /\ TimerSet'
  BY <1>3 DEF SentCalls, SentOrder, Lockstep, TimerSet
<1>6. LayerPure'
  <2>1. ASSUME c.layer + 1 \in 1 .. NumLayers - 1
        PROVE  c.gen = sent[c.dst][c.layer + 1]
    <3>1. c.layer + 1 \in 0 .. NumLayers - 1 /\ c.layer + 1 < NumLayers
      BY <2>1, ConstantTypes, CallFields
    <3>2. ~ (c.gen < sent[c.dst][c.layer + 1])
      BY <3>1 DEF BufferParsed
    <3>3. c.gen < sent[c.src][c.layer]
      BY CallFields, SentNat DEF SentCalls
    <3>4. sent[c.src][c.layer] <= sent[c.dst][c.layer + 1] + 1
      BY <3>1, CallFields, OneAhead
    <3> QED
      BY <3>1, <3>2, <3>3, <3>4, CallFields, SentNat
  <2> QED
    BY <1>3, <1>4, <2>1, CallFields DEF LayerPure
<1>7. BufferParsed'
  BY <1>3, <1>4 DEF BufferParsed
<1>8. GetRound'
  BY DEF GetRound
<1>9. PermitCount'
  <2>1. \A m \in Mixes : DoneCalls(m)' = DoneCalls(m)
    BY <1>3 DEF DoneCalls
  <2> QED
    BY <2>1 DEF PermitCount, Acquired
<1>10. NoStrandedLayer'
  BY <1>3, <1>4 DEF NoStrandedLayer, Complete
<1> QED
  BY <1>1, <1>5, <1>6, <1>7, <1>8, <1>9, <1>10

\* A handler that finds nothing to send leaves no complete layer behind: the complete
\* layer would have been the lowest one (CompleteIsMin).
LEMMA InvNothingToSend ==
  ASSUME IInv, NEW c \in Calls, NothingToSend(c)
  PROVE  IInv'
<1> USE DEF IInv, NothingToSend, handlerVars, getVars
<1>1. TypeOK'
  BY TypeHandler DEF Handler
<1>2. c.dst \in Mixes /\ pc[c] = "parsed"
  BY CallFields
<1>3. /\ \A x \in Calls : pc'[x] = IF x = c THEN "done" ELSE pc[x]
      /\ \A m \in Mixes : permits'[m] = IF m = c.dst THEN permits[m] + 1 ELSE permits[m]
  BY <1>2 DEF TypeOK
<1>4. SentCalls' /\ SentOrder' /\ Lockstep' /\ TimerSet' /\ LayerPure'
  BY <1>2, <1>3 DEF SentCalls, SentOrder, Lockstep, TimerSet, LayerPure
<1>5. BufferParsed'
  BY <1>3 DEF BufferParsed
<1>6. GetRound'
  BY DEF GetRound
<1>7. PermitCount'
  BY <1>2, <1>3, OneMoreDone DEF PermitCount, Acquired
<1>8. NoStrandedLayer'
  <2> SUFFICES ASSUME NEW m \in Mixes, NEW l \in 1 .. NumLayers - 1,
                      buffer[m][l] # {}, Complete(m, l)
               PROVE  \E x \in Calls : x.dst = m /\ pc'[x] \in {"parsed", "failed"}
    BY DEF NoStrandedLayer, Complete
  <2>1. IsMiddleLayer(m, l) /\ l \in 1 .. NumLayers
    BY CompleteIsMin, ConstantTypes DEF IsMiddleLayer
  <2>2. m # c.dst
    BY <2>1
  <2> QED
    BY <1>3, <2>2 DEF NoStrandedLayer
<1> QED
  BY <1>1, <1>4, <1>5, <1>6, <1>7, <1>8

\* A handler whose calls are answered gives its permit.
LEMMA InvFinish ==
  ASSUME IInv, NEW c \in Calls, Finish(c)
  PROVE  IInv'
<1> USE DEF IInv, Finish, handlerVars, getVars
<1>1. TypeOK'
  BY TypeHandler DEF Handler
<1>2. c.dst \in Mixes /\ pc[c] = "waiting"
  BY CallFields
<1>3. /\ \A x \in Calls : pc'[x] = IF x = c THEN "done" ELSE pc[x]
      /\ \A m \in Mixes : permits'[m] = IF m = c.dst THEN permits[m] + 1 ELSE permits[m]
  BY <1>2 DEF TypeOK
<1>4. SentCalls' /\ SentOrder' /\ Lockstep' /\ TimerSet' /\ LayerPure'
  BY <1>2, <1>3 DEF SentCalls, SentOrder, Lockstep, TimerSet, LayerPure
<1>5. BufferParsed' /\ GetRound'
  BY <1>3 DEF BufferParsed, GetRound
<1>6. PermitCount'
  BY <1>2, <1>3, OneMoreDone DEF PermitCount, Acquired
<1>7. NoStrandedLayer'
  BY <1>2, <1>3 DEF NoStrandedLayer, Complete
<1> QED
  BY <1>1, <1>4, <1>5, <1>6, <1>7

\* A failed handler gives no permit.
LEMMA InvFailure ==
  ASSUME IInv, NEW c \in Calls, Failure(c)
  PROVE  IInv'
<1> USE DEF IInv, handlerVars, getVars
<1>1. TypeOK'
  BY TypeFailure
<1>2. Fail(c) /\ pc[c] \in {"sent", "parsed", "waiting"}
  BY DEF Failure, Panic, Break, Cascade, InProgress
<1>3. \A x \in Calls : pc'[x] = IF x = c THEN "failed" ELSE pc[x]
  BY <1>2 DEF TypeOK, Fail
<1>4. UNCHANGED <<method, children, buffer, sent, permits, timer, getpc, round, messages>>
  BY <1>2 DEF Fail
<1>5. SentCalls'
  BY <1>2, <1>3, <1>4 DEF SentCalls
<1>6. SentOrder' /\ Lockstep' /\ TimerSet' /\ LayerPure' /\ GetRound'
  <2>1. SentOrder' /\ Lockstep'
    BY <1>4 DEF SentOrder, Lockstep
  <2>2. TimerSet' /\ LayerPure'
    BY <1>4 DEF TimerSet, LayerPure
  <2>3. GetRound'
    BY <1>4 DEF GetRound
  <2> QED
    BY <2>1, <2>2, <2>3
<1>7. BufferParsed'
  <2>1. \A m \in Mixes : \A l \in 1 .. NumLayers - 1 : buffer[m][l] \subseteq Calls
    BY BufferCalls, ConstantTypes
  <2> QED
    BY <1>2, <1>3, <1>4, <2>1 DEF BufferParsed
<1>8. PermitCount'
  <2>1. \A m \in Mixes : DoneCalls(m)' = DoneCalls(m)
    BY <1>2, <1>3 DEF DoneCalls
  <2> QED
    BY <1>4, <2>1 DEF PermitCount, Acquired
<1>9. NoStrandedLayer'
  BY <1>2, <1>3, <1>4 DEF NoStrandedLayer, Complete
<1> QED
  BY <1>1, <1>5, <1>6, <1>8, <1>9, <1>7

\* Sending a complete layer is the next sending of this layer, in the order of the
\* layers, with the packets of the round below.
LEMMA InvSendLayer ==
  ASSUME IInv, NEW c \in Calls, NEW l \in 1 .. NumLayers - 1, SendLayer(c, l)
  PROVE  IInv'
<1> DEFINE m == c.dst
           g == sent[m][l]
           batch == Batch(m, l, g)
<1> USE DEF IInv, handlerVars, getVars
<1>1. TypeOK'
  BY TypeHandler, ConstantTypes DEF Handler
<1>2. /\ m \in Mixes /\ l \in 0 .. NumLayers - 1 /\ l - 1 \in 0 .. NumLayers - 1
      /\ l \in 1 .. NumLayers /\ l \in Nat
  BY CallFields, ConstantTypes
<1>3. pc[c] = "parsed" /\ IsMiddleLayer(m, l) /\ buffer[m][l] # {} /\ Complete(m, l)
  BY <1>2 DEF SendLayer, IsMiddleLayer, MinKey, Keys
<1>4. /\ \A x \in Calls : pc'[x] = IF x \in batch THEN "sent"
                                   ELSE IF x = c THEN "waiting" ELSE pc[x]
      /\ \A n \in Mixes : \A k \in 1 .. NumLayers :
           buffer'[n][k] = IF n = m /\ k = l THEN {} ELSE buffer[n][k]
      /\ \A n \in Mixes : \A k \in 0 .. NumLayers - 1 :
           sent'[n][k] = IF n = m /\ k = l THEN g + 1 ELSE sent[n][k]
      /\ timer' = [timer EXCEPT ![m] = IF l = FirstMeasuredLayer THEN g + 1 ELSE @]
      /\ UNCHANGED <<permits, getpc, round, messages>>
  BY <1>2 DEF SendLayer, TypeOK
<1>5. \A n \in Mixes : \A k \in 0 .. NumLayers - 1 : sent[n][k] \in Nat
  BY SentNat
<1>6. g \in Nat
  BY <1>2, <1>5
<1>7. \A x \in Calls : x \in batch <=> x.src = m /\ x.layer = l /\ x.gen = g
  BY DEF Batch, Calls
<1>8. \A x \in Calls : x \in batch => pc[x] = "unsent"
  <2> SUFFICES ASSUME NEW x \in Calls, x \in batch PROVE pc[x] = "unsent"
    OBVIOUS
  <2>1. x.gen >= sent[x.src][x.layer]
    BY <1>6, <1>7
  <2> QED
    BY <2>1 DEF SentCalls
<1>9. buffer[m][l] = LayerCalls(m, l - 1, g)
  BY <1>2, <1>3, CompleteLayer
<1> HIDE DEF batch, m, g
<1>10. SentCalls'
  <2> SUFFICES ASSUME NEW x \in Calls
               PROVE  pc'[x] = "unsent" <=> x.gen >= sent'[x.src][x.layer]
    BY DEF SentCalls
  <2>1. pc[x] = "unsent" <=> x.gen >= sent[x.src][x.layer]
    BY DEF SentCalls
  <2>2. /\ x.src \in Mixes /\ x.layer \in 0 .. NumLayers - 1
        /\ x.gen \in Nat /\ sent[x.src][x.layer] \in Nat
    BY <1>5, CallFields
  <2>3. CASE x \in batch
    BY <1>4, <1>6, <1>7, <2>2, <2>3
  <2>4. CASE x \notin batch
    <3>1. pc'[x] = "unsent" <=> pc[x] = "unsent"
      BY <1>3, <1>4, <2>4
    <3>2. CASE x.src = m /\ x.layer = l
      <4>1. sent'[x.src][x.layer] = g + 1 /\ sent[x.src][x.layer] = g /\ x.gen # g
        BY <1>2, <1>4, <1>7, <2>2, <2>4, <3>2 DEF g
      <4> QED
        BY <1>6, <2>1, <2>2, <3>1, <4>1
    <3>3. CASE ~ (x.src = m /\ x.layer = l)
      BY <1>4, <2>1, <2>2, <3>1, <3>3
    <3> QED
      BY <3>2, <3>3
  <2> QED
    BY <2>3, <2>4
<1>11. PICK y \in Calls : y.dst = m /\ y.layer = l - 1 /\ y.gen = g /\ pc[y] # "unsent"
  BY <1>2, <1>3, <1>9 DEF LayerCalls, BufferParsed
<1>12. g \in Rounds /\ [src |-> m, dst |-> m, layer |-> l - 1, gen |-> g] \in buffer[m][l]
  BY <1>2, <1>9, <1>11, CallFields DEF LayerCalls, Calls, Dests
<1>13. g < sent[m][l - 1]
  <2> DEFINE own == [src |-> m, dst |-> m, layer |-> l - 1, gen |-> g]
  <2>1. own \in Calls /\ pc[own] # "unsent"
    BY <1>2, <1>9, <1>12 DEF BufferParsed, LayerCalls
  <2> QED
    BY <1>2, <1>5, <1>6, <2>1 DEF SentCalls
<1>14. SentOrder'
  <2> SUFFICES ASSUME NEW n \in Mixes, NEW i \in 0 .. NumLayers - 1,
                      NEW k \in 0 .. NumLayers - 1, i <= k
               PROVE  sent'[n][k] <= sent'[n][i]
    BY DEF SentOrder
  <2>1. CASE n = m /\ k = l /\ i < l
    <3>1. i <= l - 1
      BY <1>2, <2>1
    <3>2. sent[m][l - 1] <= sent[m][i]
      BY <1>2, <3>1 DEF SentOrder
    <3> QED
      BY <1>2, <1>4, <1>5, <1>6, <1>13, <2>1, <3>2
  <2>2. CASE ~ (n = m /\ k = l /\ i < l)
    <3>1. sent[n][k] <= sent[n][i]
      BY DEF SentOrder
    <3> QED
      BY <1>2, <1>4, <1>5, <1>6, <2>2, <3>1 DEF g
  <2> QED
    BY <2>1, <2>2
<1>15. LayerPure'
  BY <1>2, <1>4, ConstantTypes DEF LayerPure
<1>16. BufferParsed'
  <2>1. \A n \in Mixes : \A k \in 1 .. NumLayers - 1 : \A x \in buffer'[n][k] :
          pc'[x] \notin {"unsent", "sent"}
    <3> SUFFICES ASSUME NEW n \in Mixes, NEW k \in 1 .. NumLayers - 1,
                        NEW x \in buffer'[n][k]
                 PROVE  pc'[x] \notin {"unsent", "sent"}
      OBVIOUS
    <3>1. k \in 1 .. NumLayers
      BY ConstantTypes
    <3>2. x \in buffer[n][k] /\ x \in Calls
      <4>1. buffer[n] \in [1 .. NumLayers -> SUBSET Calls]
        BY DEF TypeOK
      <4> QED
        BY <1>4, <3>1, <4>1
    <3>3. pc[x] \notin {"unsent", "sent"}
      BY <3>2 DEF BufferParsed
    <3> QED
      BY <1>4, <1>8, <3>2, <3>3
  <2>2. ASSUME NEW x \in Calls, x.layer + 1 < NumLayers,
               x.gen < sent'[x.dst][x.layer + 1]
        PROVE  pc[x] \notin {"unsent", "sent"}
    <3>1. x.layer + 1 \in 0 .. NumLayers - 1
      BY <2>2, CallFields, ConstantTypes
    <3>2. CASE x.gen < sent[x.dst][x.layer + 1]
      BY <2>2, <3>2 DEF BufferParsed
    <3>3. CASE ~ (x.gen < sent[x.dst][x.layer + 1])
      <4>1. x.dst = m /\ x.layer + 1 = l /\ x.gen = g
        BY <1>4, <1>5, <1>6, <2>2, <3>1, <3>3, CallFields, SMTT(40) DEF g
      <4>2. x \in buffer[m][l]
        BY <1>2, <1>9, <4>1, CallFields DEF LayerCalls
      <4> QED
        BY <1>2, <4>2 DEF BufferParsed
    <3> QED
      BY <3>2, <3>3
  <2>3. ASSUME NEW x \in Calls, x.layer + 1 < NumLayers,
               x.gen < sent'[x.dst][x.layer + 1]
        PROVE  pc'[x] \notin {"unsent", "sent"}
    BY <1>4, <1>8, <2>2, <2>3
  <2> QED
    BY <2>1, <2>3 DEF BufferParsed
<1>17. Lockstep'
  BY <1>2, <1>4, <1>5, <1>6, ConstantTypes DEF Lockstep, g
<1>18. GetRound'
  <2>1. 0 \in 0 .. NumLayers - 1 /\ NumLayers - 1 \in 0 .. NumLayers - 1
    BY ConstantTypes
  <2>2. \A n \in Mixes : sent'[n][0] = sent[n][0]
    BY <1>2, <1>4, <2>1
  <2>3. \A n \in Mixes : sent'[n][NumLayers - 1] >= sent[n][NumLayers - 1]
    BY <1>2, <1>4, <1>5, <2>1 DEF g
  <2>4. \A n \in Mixes : sent'[n][NumLayers - 1] \in Nat
    BY <1>4, <1>5, <1>6, <2>1
  <2>5. \A n \in Mixes : round[n] \in Nat
    BY DEF TypeOK, Rounds
  <2> QED
    BY <1>4, <1>5, <2>1, <2>2, <2>3, <2>4, <2>5 DEF GetRound
<1>19. PermitCount'
  <2>1. \A n \in Mixes : DoneCalls(n)' = DoneCalls(n)
    BY <1>3, <1>4, <1>8 DEF DoneCalls
  <2> QED
    BY <1>4, <2>1 DEF PermitCount, Acquired
<1>20. TimerSet'
  <2>1. FirstMeasuredLayer \in 0 .. NumLayers - 1
    BY ConstantTypes
  <2>2. \A n \in Mixes : timer'[n] = IF n = m /\ l = FirstMeasuredLayer THEN g + 1
                                     ELSE timer[n]
    BY <1>2, <1>4 DEF TypeOK
  <2> QED
    BY <1>2, <1>4, <2>1, <2>2 DEF TimerSet
<1>21. NoStrandedLayer'
  <2> SUFFICES ASSUME NEW n \in Mixes, NEW k \in 1 .. NumLayers - 1,
                      buffer'[n][k] # {}, Complete(n, k)'
               PROVE  \E x \in Calls : x.dst = n /\ pc'[x] \in {"parsed", "failed"}
    BY DEF NoStrandedLayer
  <2>1. k \in 1 .. NumLayers /\ ~ (n = m /\ k = l)
    BY <1>4, ConstantTypes
  <2>2. buffer[n][k] # {} /\ Complete(n, k)
    BY <1>4, <2>1 DEF Complete
  <2>3. n # m
    <3> SUFFICES ASSUME n = m PROVE FALSE
      OBVIOUS
    <3>1. MinKey(m, k) /\ MinKey(m, l)
      BY <1>2, <1>3, <2>2, CompleteIsMin
    <3> QED
      BY <1>2, <2>1, <3>1 DEF MinKey, Keys
  <2>4. PICK x \in Calls : x.dst = n /\ pc[x] \in {"parsed", "failed"}
    BY <2>2 DEF NoStrandedLayer
  <2> QED
    BY <1>4, <1>8, <2>3, <2>4 DEF m
<1> QED
  BY <1>1, <1>10, <1>14, <1>15, <1>16, <1>17, <1>18, <1>19, <1>20, <1>21

\* get() takes the permits of its round when every mix has contributed to it.
LEMMA InvAcquire ==
  ASSUME IInv, NEW m \in Mixes, Acquire(m)
  PROVE  IInv'
<1> USE DEF IInv
<1>1. TypeOK'
  BY TypeGet DEF Get
<1>2. /\ getpc[m] = "acquire" /\ permits[m] >= AmountToAcquire
      /\ \A n \in Mixes : getpc'[n] = IF n = m THEN "output" ELSE getpc[n]
      /\ \A n \in Mixes : permits'[n] = IF n = m THEN permits[m] - AmountToAcquire
                                        ELSE permits[n]
      /\ UNCHANGED <<pc, method, children, buffer, sent, timer, round, messages>>
  BY DEF Acquire, TypeOK
<1>3. SentCalls' /\ SentOrder' /\ Lockstep' /\ TimerSet'
  BY <1>2 DEF SentCalls, SentOrder, Lockstep, TimerSet
<1>4. LayerPure' /\ BufferParsed'
  BY <1>2 DEF LayerPure, BufferParsed
<1>5. GetRound'
  BY <1>2, PermitsImplyContributed DEF GetRound
<1>6. PermitCount'
  <2> SUFFICES ASSUME NEW n \in Mixes
               PROVE  permits'[n] + AmountToAcquire * Acquired(n)'
                        = Cardinality(DoneCalls(n))
    BY <1>2 DEF PermitCount, DoneCalls
  <2>1. permits[n] + AmountToAcquire * Acquired(n) = Cardinality(DoneCalls(n))
    BY DEF PermitCount
  <2>2. CASE n = m
    <3>1. Acquired(m) = round[m] /\ Acquired(m)' = round[m] + 1
      BY <1>2 DEF Acquired
    <3>2. round[m] \in Nat /\ permits[m] \in Nat
      BY DEF TypeOK, Rounds
    <3>3. /\ AmountToAcquire * (round[m] + 1) = AmountToAcquire * round[m] + AmountToAcquire
          /\ AmountToAcquire * round[m] \in Nat
      BY <3>2, ConstantTypes, NextMultiple
    <3>4. permits'[m] = permits[m] - AmountToAcquire
      BY <1>2
    <3> QED
      BY <2>1, <2>2, <3>1, <3>2, <3>3, <3>4, ConstantTypes
  <2>3. CASE n # m
    BY <1>2, <2>1, <2>3 DEF Acquired
  <2> QED
    BY <2>2, <2>3
<1>7. NoStrandedLayer'
  BY <1>2 DEF NoStrandedLayer, Complete
<1> QED
  BY <1>1, <1>3, <1>4, <1>5, <1>6, <1>7

\* Whichever layer get() takes out, the other layers stay as they are, and every mix has
\* contributed to the round (GetRound).
LEMMA InvOutputLastLayer ==
  ASSUME IInv, NEW m \in Mixes, OutputLastLayer(m)
  PROVE  IInv'
<1> USE DEF IInv
<1>1. TypeOK'
  BY TypeGet DEF Get
<1>2. PICK l \in 1 .. NumLayers : buffer' = [buffer EXCEPT ![m][l] = {}]
  BY DEF OutputLastLayer
<1>3. /\ getpc[m] = "output"
      /\ \A n \in Mixes : getpc'[n] = IF n = m THEN "measure" ELSE getpc[n]
      /\ UNCHANGED <<pc, method, children, sent, permits, timer, round>>
  BY DEF OutputLastLayer, TypeOK
<1>4. \A n \in Mixes : \A k \in 1 .. NumLayers - 1 :
        buffer'[n][k] = {} \/ buffer'[n][k] = buffer[n][k]
  BY <1>2, ConstantTypes DEF TypeOK
<1>5. SentCalls' /\ SentOrder' /\ Lockstep' /\ TimerSet'
  BY <1>3 DEF SentCalls, SentOrder, Lockstep, TimerSet
<1>6. LayerPure'
  <2> SUFFICES ASSUME NEW n \in Mixes, NEW k \in 1 .. NumLayers - 1,
                      NEW x \in buffer'[n][k]
               PROVE  x.dst = n /\ x.layer = k - 1 /\ x.gen = sent[n][k]
    BY <1>3 DEF LayerPure
  <2>1. x \in buffer[n][k]
    BY <1>4
  <2> QED
    BY <2>1 DEF LayerPure
<1>7. BufferParsed'
  <2>1. \A n \in Mixes : \A k \in 1 .. NumLayers - 1 : buffer'[n][k] \subseteq buffer[n][k]
    BY <1>4
  <2> QED
    BY <1>3, <2>1 DEF BufferParsed
<1>8. GetRound'
  BY <1>3 DEF GetRound
<1>9. PermitCount'
  <2>1. \A n \in Mixes : DoneCalls(n)' = DoneCalls(n)
    BY <1>3 DEF DoneCalls
  <2>2. \A n \in Mixes : Acquired(n)' = Acquired(n)
    BY <1>3 DEF Acquired
  <2> QED
    BY <1>3, <2>1, <2>2 DEF PermitCount
<1>10. NoStrandedLayer'
  <2> SUFFICES ASSUME NEW n \in Mixes, NEW k \in 1 .. NumLayers - 1,
                      buffer'[n][k] # {}, Complete(n, k)'
               PROVE  \E x \in Calls : x.dst = n /\ pc[x] \in {"parsed", "failed"}
    BY <1>3 DEF NoStrandedLayer
  <2>1. buffer[n][k] # {} /\ Complete(n, k)
    BY <1>4 DEF Complete
  <2> QED
    BY <2>1 DEF NoStrandedLayer
<1> QED
  BY <1>1, <1>5, <1>6, <1>7, <1>8, <1>9, <1>10

\* The call that starts a round finds layer 1 of the buffer empty of other rounds.
LEMMA InvStartMixRound ==
  ASSUME IInv, NEW m \in Mixes, StartMixRound(m)
  PROVE  IInv'
<1> DEFINE start == [src |-> m, dst |-> m, layer |-> 0, gen |-> sent[m][0]]
<1> USE DEF IInv
<1>1. TypeOK'
  BY TypeGet DEF Get
<1>2. /\ 0 \in 0 .. NumLayers - 1 /\ NumLayers - 1 \in 0 .. NumLayers - 1
      /\ NumLayers - 1 # 0
  BY ConstantTypes
<1>3. /\ getpc[m] = "measure" /\ round[m] < NumRounds - 1
      /\ \A x \in Calls : pc'[x] = IF x = start THEN "sent" ELSE pc[x]
      /\ \A n \in Mixes : \A k \in 0 .. NumLayers - 1 :
           sent'[n][k] = IF n = m /\ k = 0 THEN sent[m][0] + 1 ELSE sent[n][k]
      /\ \A n \in Mixes : getpc'[n] = IF n = m THEN "starting" ELSE getpc[n]
      /\ UNCHANGED <<buffer, permits, timer, round>>
  BY <1>2 DEF StartMixRound, StartCall, TypeOK
<1>4. \A n \in Mixes : \A k \in 0 .. NumLayers - 1 : sent[n][k] \in Nat
  BY SentNat
<1>5. \A x \in Calls : x = start => pc[x] = "unsent"
  BY <1>2, <1>4 DEF SentCalls
<1>6. \A x \in Calls : x = start <=> x.src = m /\ x.layer = 0 /\ x.gen = sent[m][0]
  BY DEF Calls, Dests
<1> HIDE DEF start
<1>7. SentCalls'
  <2> SUFFICES ASSUME NEW x \in Calls
               PROVE  pc'[x] = "unsent" <=> x.gen >= sent'[x.src][x.layer]
    BY DEF SentCalls
  <2>1. pc[x] = "unsent" <=> x.gen >= sent[x.src][x.layer]
    BY DEF SentCalls
  <2>2. /\ x.src \in Mixes /\ x.layer \in 0 .. NumLayers - 1
        /\ x.gen \in Nat /\ sent[x.src][x.layer] \in Nat
    BY <1>4, CallFields
  <2>3. CASE x.src = m /\ x.layer = 0
    BY <1>3, <1>6, <2>1, <2>2, <2>3
  <2>4. CASE ~ (x.src = m /\ x.layer = 0)
    BY <1>3, <1>6, <2>1, <2>2, <2>4
  <2> QED
    BY <2>3, <2>4
<1>8. SentOrder'
  <2> SUFFICES ASSUME NEW n \in Mixes, NEW i \in 0 .. NumLayers - 1,
                      NEW k \in 0 .. NumLayers - 1, i <= k
               PROVE  sent'[n][k] <= sent'[n][i]
    BY DEF SentOrder
  <2>1. sent[n][k] <= sent[n][i]
    BY DEF SentOrder
  <2>2. CASE n = m /\ i = 0
    BY <1>2, <1>3, <1>4, <2>1, <2>2
  <2>3. CASE ~ (n = m /\ i = 0)
    BY <1>3, <2>1, <2>3
  <2> QED
    BY <2>2, <2>3
<1>9. \A n \in Mixes : sent[n][NumLayers - 1] >= round[m] + 1
  BY <1>3 DEF GetRound
<1>10. sent[m][0] = round[m] + 1 /\ round[m] \in Nat
  <2>1. sent[m][0] = round[m] + 1
    BY <1>3 DEF GetRound
  <2> QED
    BY <2>1 DEF TypeOK, Rounds
<1>11. \A n \in Mixes : sent'[n][NumLayers - 1] = sent[n][NumLayers - 1]
  BY <1>2, <1>3
<1>12. Lockstep'
  <2> SUFFICES ASSUME NEW n \in Mixes, NEW x \in Mixes
               PROVE  sent'[n][0] <= sent[x][NumLayers - 1] + 1
    BY <1>11 DEF Lockstep
  <2>1. CASE n = m
    BY <1>2, <1>3, <1>4, <1>9, <1>10, <2>1
  <2>2. CASE n # m
    BY <1>2, <1>3, <2>2 DEF Lockstep
  <2> QED
    BY <2>1, <2>2
<1>13. \A n \in Mixes : \A k \in 1 .. NumLayers - 1 : sent'[n][k] = sent[n][k]
  BY <1>3
<1>14. LayerPure'
  BY <1>3, <1>13 DEF LayerPure
<1>15. BufferParsed'
  <2>1. \A n \in Mixes : \A k \in 1 .. NumLayers - 1 : buffer[n][k] \subseteq Calls
    BY BufferCalls, ConstantTypes
  <2>2. \A n \in Mixes : \A k \in 1 .. NumLayers - 1 : \A x \in buffer'[n][k] :
          pc'[x] \notin {"unsent", "sent"}
    BY <1>3, <1>5, <2>1 DEF BufferParsed
  <2>3. ASSUME NEW x \in Calls, x.layer + 1 < NumLayers,
               x.gen < sent'[x.dst][x.layer + 1]
        PROVE  pc'[x] \notin {"unsent", "sent"}
    <3>1. x.layer + 1 \in 1 .. NumLayers - 1
      BY <2>3, CallFields, ConstantTypes
    <3>2. x.gen < sent[x.dst][x.layer + 1]
      BY <1>13, <2>3, <3>1, CallFields
    <3>3. pc[x] \notin {"unsent", "sent"}
      BY <2>3, <3>2 DEF BufferParsed
    <3> QED
      BY <1>3, <1>5, <3>3
  <2> QED
    BY <2>2, <2>3 DEF BufferParsed
<1>16. GetRound'
  <2>1. sent'[m][0] = round[m] + 2
    BY <1>2, <1>3, <1>10
  <2>2. \A n \in Mixes : n # m => sent'[n][0] = sent[n][0]
    BY <1>2, <1>3
  <2> QED
    BY <1>3, <1>11, <2>1, <2>2 DEF GetRound
<1>17. PermitCount'
  <2>1. \A n \in Mixes : DoneCalls(n)' = DoneCalls(n)
    BY <1>3, <1>5 DEF DoneCalls
  <2>2. \A n \in Mixes : Acquired(n)' = Acquired(n)
    BY <1>3 DEF Acquired
  <2> QED
    BY <1>3, <2>1, <2>2 DEF PermitCount
<1>18. TimerSet'
  BY <1>3, <1>13, ConstantTypes DEF TimerSet
<1>19. NoStrandedLayer'
  BY <1>3, <1>5 DEF NoStrandedLayer, Complete
<1> QED
  BY <1>1, <1>7, <1>8, <1>12, <1>14, <1>15, <1>16, <1>17, <1>18, <1>19

\* The remaining steps of get() change nothing but its own progress.
LEMMA InvGetOther ==
  ASSUME IInv, NEW m \in Mixes,
         GetRequest(m) \/ NextRound(m) \/ Reply(m) \/ GetPanic(m)
  PROVE  IInv'
<1> USE DEF IInv
<1>1. TypeOK'
  BY TypeGet DEF Get
<1>2. UNCHANGED handlerVars
  BY DEF GetRequest, NextRound, Reply, GetPanic
<1>3. UNCHANGED <<pc, method, children, buffer, sent, permits, timer>>
  BY <1>2 DEF handlerVars
<1>4. /\ SentCalls' /\ SentOrder' /\ Lockstep' /\ TimerSet'
      /\ LayerPure' /\ BufferParsed' /\ NoStrandedLayer'
  BY <1>3 DEF SentCalls, SentOrder, Lockstep, TimerSet, LayerPure, BufferParsed,
              NoStrandedLayer, Complete
<1>5. \A n \in Mixes : round[n] \in Nat
  BY DEF TypeOK, Rounds
<1>6. /\ \A n \in Mixes : n # m => getpc'[n] = getpc[n] /\ round'[n] = round[n]
      /\ \/ getpc[m] = "uncalled" /\ getpc'[m] = "acquire" /\ round'[m] = round[m]
         \/ getpc[m] = "starting" /\ getpc'[m] = "acquire" /\ round'[m] = round[m] + 1
         \/ getpc[m] = "measure" /\ getpc'[m] = "replied" /\ round'[m] = round[m]
         \/ getpc[m] = "starting" /\ getpc'[m] = "failed" /\ round'[m] = round[m]
  BY DEF GetRequest, NextRound, Reply, GetPanic, TypeOK
<1>7. GetRound'
  <2> SUFFICES ASSUME NEW n \in Mixes
               PROVE  /\ sent[n][0] = round'[n] +
                            (IF getpc'[n] \in {"starting", "failed"} THEN 2 ELSE 1)
                      /\ getpc'[n] \in {"starting", "failed"} => round'[n] < NumRounds - 1
                      /\ getpc'[n] \in {"output", "measure"} =>
                           \A x \in Mixes : sent[x][NumLayers - 1] >= round'[n] + 1
    BY <1>3 DEF GetRound
  <2>1. CASE n = m
    BY <1>5, <1>6, <2>1 DEF GetRound
  <2>2. CASE n # m
    BY <1>6, <2>2 DEF GetRound
  <2> QED
    BY <2>1, <2>2
<1>8. PermitCount'
  <2>1. \A n \in Mixes : DoneCalls(n)' = DoneCalls(n)
    BY <1>3 DEF DoneCalls
  <2>2. \A n \in Mixes : Acquired(n)' = Acquired(n)
    BY <1>5, <1>6 DEF Acquired
  <2> QED
    BY <1>3, <2>1, <2>2 DEF PermitCount
<1> QED
  BY <1>1, <1>4, <1>7, <1>8

\* Every step keeps the invariant.
LEMMA InvStep == IInv /\ [Next]_vars => IInv'
<1> SUFFICES ASSUME IInv, [Next]_vars PROVE IInv'
  OBVIOUS
<1>1. CASE UNCHANGED vars
  <2> USE <1>1 DEF vars
  <2>1. TypeOK'
    BY TypeStep DEF IInv
  <2>2. SentCalls' /\ SentOrder' /\ Lockstep' /\ TimerSet'
    BY DEF IInv, SentCalls, SentOrder, Lockstep, TimerSet
  <2>3. LayerPure' /\ BufferParsed' /\ NoStrandedLayer'
    BY DEF IInv, LayerPure, BufferParsed, NoStrandedLayer, Complete
  <2>4. GetRound' /\ PermitCount'
    BY DEF IInv, GetRound, PermitCount, DoneCalls, Acquired
  <2> QED
    BY <2>1, <2>2, <2>3, <2>4 DEF IInv
<1>2. ASSUME NEW c \in Calls, Handler(c) PROVE IInv'
  BY <1>2, InvParseInput, InvNothingToSend, InvSendLayer, InvFinish DEF Handler
<1>3. ASSUME NEW c \in Calls, Failure(c) PROVE IInv'
  BY <1>3, InvFailure
<1>4. ASSUME NEW m \in Mixes, GetRequest(m) \/ Get(m) \/ GetPanic(m) PROVE IInv'
  BY <1>4, InvAcquire, InvOutputLastLayer, InvStartMixRound, InvGetOther DEF Get
<1> QED
  BY <1>1, <1>2, <1>3, <1>4 DEF Next, Idle

\* The inductive invariant, from which the safety properties follow.
THEOREM Invariance == Spec => []IInv
BY InvInit, InvStep, PTL DEF Spec

\* A mix never mixes rounds in a layer it is still to send.
THEOREM LayersArePure == Spec => []LayerPure
BY Invariance, PTL DEF IInv

\* No mix starts a round before every mix sent its last layer of the one before.
THEOREM MixesInLockstep == Spec => []Lockstep
BY Invariance, PTL DEF IInv

\* A complete layer always has a handler that will send it, unless one failed.
THEOREM NoLostWakeup == Spec => []NoStrandedLayer
BY Invariance, PTL DEF IInv

\* A handler of the data rounds never sends setup packets: its round has begun, so by
\* Lockstep its mix has sent all layers of the rounds before, the setup rounds.
LEMMA AddSendsData ==
  ASSUME IInv, SetupNeverAdded, Next
  PROVE  SetupNeverAdded'
<1>0. \A y \in Calls : Kind(y.gen) = "add" <=> y.gen >= NumSetupRounds
  BY CallFields, RoundsAssumption DEF Kind, Rounds
<1> SUFFICES ASSUME NEW x \in Calls, pc'[x] # "unsent", method'[x] = "add"
             PROVE  x.gen >= NumSetupRounds
  BY <1>0 DEF SetupNeverAdded
<1> USE DEF IInv
<1>1. \A y \in Calls : pc[y] # "unsent" /\ method[y] = "add" => y.gen >= NumSetupRounds
  BY <1>0 DEF SetupNeverAdded
<1>2. ASSUME NEW c \in Calls, NEW l \in 1 .. NumLayers - 1, SendLayer(c, l)
      PROVE  x.gen >= NumSetupRounds
  <2> DEFINE batch == Batch(c.dst, l, sent[c.dst][l])
  <2>1. /\ method'[x] = IF x \in batch THEN method[c] ELSE method[x]
        /\ pc[c] = "parsed"
        /\ x \notin batch /\ x # c => pc'[x] = pc[x]
    BY <1>2 DEF SendLayer
  <2>2. CASE x \notin batch
    BY <1>1, <2>1, <2>2
  <2>3. CASE x \in batch
    <3>1. c.gen >= NumSetupRounds
      BY <1>1, <2>1, <2>3
    <3>2. /\ c.src \in Mixes /\ c.dst \in Mixes /\ c.layer \in 0 .. NumLayers - 1
          /\ c.gen \in Nat /\ 0 \in 0 .. NumLayers - 1 /\ l \in 0 .. NumLayers - 1
          /\ NumLayers - 1 \in 0 .. NumLayers - 1
      BY CallFields, ConstantTypes DEF Rounds
    <3>3. c.gen < sent[c.src][c.layer]
      BY <2>1, <3>2, SentNat DEF SentCalls
    <3>4. sent[c.src][c.layer] <= sent[c.src][0]
      BY <3>2 DEF SentOrder
    <3>5. sent[c.src][0] <= sent[c.dst][NumLayers - 1] + 1
      BY <3>2 DEF Lockstep
    <3>6. sent[c.dst][NumLayers - 1] <= sent[c.dst][l]
      BY <3>2 DEF SentOrder
    <3>7. x.gen = sent[c.dst][l]
      BY <2>3 DEF Batch
    <3> QED
      BY <3>1, <3>2, <3>3, <3>4, <3>5, <3>6, <3>7, SentNat, RoundsAssumption
  <2> QED
    BY <2>2, <2>3
<1>3. ASSUME NEW m \in Mixes, StartMixRound(m)
      PROVE  x.gen >= NumSetupRounds
  <2>1. CASE x = StartCall(m)
    <3>1. ~ (round[m] < NumSetupRounds - 1)
      BY <1>3, <2>1 DEF StartMixRound, TypeOK
    <3>2. x.gen = sent[m][0] /\ sent[m][0] = round[m] + 1
      BY <1>3, <2>1 DEF StartMixRound, StartCall, GetRound
    <3>3. round[m] \in Nat
      BY DEF TypeOK, Rounds
    <3> QED
      BY <3>1, <3>2, <3>3, RoundsAssumption
  <2>2. CASE x # StartCall(m)
    BY <1>1, <1>3, <2>2 DEF StartMixRound, TypeOK
  <2> QED
    BY <2>1, <2>2
<1>4. CASE /\ method' = method
           /\ \A y \in Calls : pc'[y] # "unsent" => pc[y] # "unsent"
  BY <1>1, <1>4
<1>5. ASSUME NEW c \in Calls, ParseInput(c) \/ NothingToSend(c) \/ Finish(c) \/ Failure(c)
      PROVE  x.gen >= NumSetupRounds
  <2>1. /\ method' = method
        /\ \A y \in Calls : pc'[y] # "unsent" => pc[y] # "unsent"
    BY <1>5 DEF ParseInput, NothingToSend, Finish, Failure, Panic, Break, Cascade, Fail,
                InProgress, TypeOK
  <2> QED
    BY <1>4, <2>1
<1>6. ASSUME NEW m \in Mixes,
             \/ GetRequest(m) \/ Acquire(m) \/ OutputLastLayer(m) \/ NextRound(m)
             \/ Reply(m) \/ GetPanic(m)
      PROVE  x.gen >= NumSetupRounds
  <2>1. UNCHANGED <<pc, method>>
    BY <1>6 DEF GetRequest, Acquire, OutputLastLayer, NextRound, Reply, GetPanic, handlerVars
  <2> QED
    BY <1>4, <2>1
<1>7. CASE Idle
  BY <1>4, <1>7 DEF Idle, vars
<1> QED
  BY <1>2, <1>3, <1>5, <1>6, <1>7 DEF Next, Handler, Get

\* The RPC of data packets carries data packets only.
THEOREM SetupIsSetUp == Spec => []SetupNeverAdded
<1>1. Init => SetupNeverAdded
  BY DEF Init, SetupNeverAdded
<1>2. IInv /\ SetupNeverAdded /\ [Next]_vars => SetupNeverAdded'
  <2>1. CASE UNCHANGED vars
    BY <2>1 DEF vars, SetupNeverAdded
  <2> QED
    BY <2>1, AddSendsData
<1> QED
  BY <1>1, <1>2, Invariance, PTL DEF Spec

\* When a data round has begun anywhere, every mix has sent its last setup layer, and thus
\* parsed what it sent it from.
LEMMA ReadyCircuits == IInv => MiddleSetupBeforeData
<1> SUFFICES ASSUME IInv, NEW c \in Calls, NEW d \in Calls,
                    SetsUp(c, d), c.layer < NumLayers - 1, pc[d] # "unsent"
             PROVE  pc[c] \notin {"unsent", "sent"}
  BY DEF MiddleSetupBeforeData
<1>1. /\ c.dst \in Mixes /\ d.src \in Mixes /\ c.gen \in Nat /\ d.gen \in Nat
      /\ d.layer \in 0 .. NumLayers - 1
      /\ 0 \in 0 .. NumLayers - 1 /\ NumLayers - 1 \in 0 .. NumLayers - 1
      /\ c.layer + 1 \in 0 .. NumLayers - 1 /\ c.layer + 1 < NumLayers
  BY CallFields, ConstantTypes DEF Rounds
<1>2. c.gen < d.gen
  BY <1>1, RoundsAssumption DEF SetsUp, Kind
<1>3. /\ sent[c.dst][c.layer + 1] \in Nat /\ sent[c.dst][NumLayers - 1] \in Nat
      /\ sent[d.src][0] \in Nat /\ sent[d.src][d.layer] \in Nat
  BY <1>1, SentNat DEF IInv
<1>4. d.gen < sent[d.src][d.layer]
  BY <1>1, <1>3 DEF IInv, SentCalls
<1>5. sent[d.src][d.layer] <= sent[d.src][0]
  BY <1>1 DEF IInv, SentOrder
<1>6. sent[d.src][0] <= sent[c.dst][NumLayers - 1] + 1
  BY <1>1 DEF IInv, Lockstep
<1>7. sent[c.dst][NumLayers - 1] <= sent[c.dst][c.layer + 1]
  BY <1>1 DEF IInv, SentOrder
<1>8. c.gen < sent[c.dst][c.layer + 1]
  BY <1>1, <1>2, <1>3, <1>4, <1>5, <1>6, <1>7
<1> QED
  BY <1>1, <1>8 DEF IInv, BufferParsed

\* Data of any layer but the last finds the connections of its circuit.
THEOREM CircuitsAreReady == Spec => []MiddleSetupBeforeData
BY ReadyCircuits, Invariance, PTL

\* measure_time measures the round that just ended, from a time set in that round.
THEOREM MeasuresItsRound == Spec => []MeasuredRound
<1>1. IInv => MeasuredRound
  <2> SUFFICES ASSUME IInv, NEW m \in Mixes, getpc[m] = "measure"
               PROVE  timer[m] = round[m] + 1
    BY DEF MeasuredRound
  <2>1. /\ 0 \in 0 .. NumLayers - 1 /\ NumLayers - 1 \in 0 .. NumLayers - 1
        /\ FirstMeasuredLayer \in 0 .. NumLayers - 1
        /\ 0 <= FirstMeasuredLayer /\ FirstMeasuredLayer <= NumLayers - 1
    BY ConstantTypes
  <2>2. timer[m] = sent[m][FirstMeasuredLayer]
    BY DEF IInv, TimerSet
  <2>3. sent[m][0] = round[m] + 1 /\ sent[m][NumLayers - 1] >= round[m] + 1
    BY DEF IInv, GetRound
  <2>4. /\ sent[m][FirstMeasuredLayer] <= sent[m][0]
        /\ sent[m][NumLayers - 1] <= sent[m][FirstMeasuredLayer]
    BY <2>1 DEF IInv, SentOrder
  <2>5. /\ sent[m][0] \in Nat /\ sent[m][NumLayers - 1] \in Nat
        /\ sent[m][FirstMeasuredLayer] \in Nat
    BY <2>1, SentNat DEF IInv
  <2>6. round[m] \in Nat
    BY DEF IInv, TypeOK, Rounds
  <2> QED
    BY <2>2, <2>3, <2>4, <2>5, <2>6
<1> QED
  BY Invariance, <1>1, PTL

--------------------------------------------------------------------------------
(***************************************************************************)
(* The mixes implement the barrier between rounds.                         *)
(***************************************************************************)

\* Initially each mix has begun the first round and collected nothing.
LEMMA BarrierInit == Init => Barrier!Init
<1> SUFFICES ASSUME Init PROVE Barrier!Init
  OBVIOUS
<1>1. \A m \in Mixes : /\ sent[m][0] = 1 /\ sent[m][NumLayers - 1] = 0
                       /\ getpc[m] = "uncalled" /\ round[m] = 0
  BY ConstantTypes DEF Init
<1>2. \A m \in Mixes : Collected(m) = 0
  BY <1>1 DEF Collected
<1> QED
  BY <1>1, <1>2 DEF Barrier!Init

\* A mix that sends its last layer contributes to the round it has begun.
LEMMA BarrierSendLayer ==
  ASSUME IInv, NEW c \in Calls, NEW l \in 1 .. NumLayers - 1, SendLayer(c, l)
  PROVE  Barrier!Contribute(c.dst) \/ UNCHANGED Barrier!vars
<1> DEFINE m == c.dst
<1>1. /\ m \in Mixes /\ l \in 0 .. NumLayers - 1 /\ l \in 1 .. NumLayers
      /\ 0 \in 0 .. NumLayers - 1 /\ NumLayers - 1 \in 0 .. NumLayers - 1
      /\ NumLayers - 1 # 0 /\ l # 0
  BY CallFields, ConstantTypes
<1>2. UNCHANGED <<getpc, round>>
  BY DEF SendLayer, getVars
<1>3. \A n \in Mixes : \A k \in 0 .. NumLayers - 1 :
        sent'[n][k] = IF n = m /\ k = l THEN sent[m][l] + 1 ELSE sent[n][k]
  BY <1>1 DEF SendLayer, IInv, TypeOK
<1>4. \A n \in Mixes : sent'[n][0] = sent[n][0]
  BY <1>1, <1>3
<1>5. \A n \in Mixes : Collected(n)' = Collected(n)
  BY <1>2 DEF Collected
<1>6. CASE l # NumLayers - 1
  <2>1. \A n \in Mixes : sent'[n][NumLayers - 1] = sent[n][NumLayers - 1]
    BY <1>1, <1>3, <1>6
  <2> QED
    BY <1>4, <1>5, <2>1 DEF Barrier!vars
<1>7. CASE l = NumLayers - 1
  <2>1. IInv'
    BY InvSendLayer
  <2>2. sent'[m][l] <= sent'[m][0]
    BY <1>1, <2>1 DEF IInv, SentOrder
  <2>3. sent[m][l] < sent[m][0]
    BY <1>1, <1>3, <1>4, <2>2, SentNat DEF IInv
  <2>4. \A n \in Mixes : sent'[n][NumLayers - 1] =
          IF n = m THEN sent[n][NumLayers - 1] + 1 ELSE sent[n][NumLayers - 1]
    BY <1>1, <1>3, <1>7
  <2> QED
    BY <1>1, <1>4, <1>5, <1>7, <2>3, <2>4 DEF Barrier!Contribute
<1> QED
  BY <1>6, <1>7

\* A mix collects the output of a round to which every mix has contributed.
LEMMA BarrierCollect ==
  ASSUME IInv, NEW m \in Mixes, OutputLastLayer(m)
  PROVE  Barrier!Collect(m)
<1>1. getpc[m] = "output" /\ UNCHANGED <<sent, round>>
      /\ \A n \in Mixes : getpc'[n] = IF n = m THEN "measure" ELSE getpc[n]
  BY DEF OutputLastLayer, IInv, TypeOK
<1>2. sent[m][0] = round[m] + 1 /\ \A n \in Mixes : sent[n][NumLayers - 1] >= round[m] + 1
  BY <1>1 DEF IInv, GetRound
<1>3. round[m] \in Nat
  BY DEF IInv, TypeOK, Rounds
<1>4. Collected(m) = round[m] /\ Collected(m)' = round[m] + 1
  BY <1>1 DEF Collected
<1>5. \A n \in Mixes : n # m => Collected(n)' = Collected(n)
  BY <1>1 DEF Collected
<1>6. \A n \in Mixes : Collected(n)' = IF n = m THEN Collected(n) + 1 ELSE Collected(n)
  BY <1>4, <1>5
<1>7. Collected(m) < sent[m][0] /\ \A n \in Mixes : sent[n][NumLayers - 1] >= sent[m][0]
  BY <1>2, <1>3, <1>4
<1> QED
  BY <1>1, <1>6, <1>7 DEF Barrier!Collect

\* start_mix_round begins the next round, after the output of this one.
LEMMA BarrierBegin ==
  ASSUME IInv, NEW m \in Mixes, StartMixRound(m)
  PROVE  Barrier!Begin(m)
<1>1. /\ 0 \in 0 .. NumLayers - 1 /\ NumLayers - 1 \in 0 .. NumLayers - 1
      /\ NumLayers - 1 # 0
  BY ConstantTypes
<1>2. /\ getpc[m] = "measure" /\ round[m] < NumRounds - 1 /\ UNCHANGED round
      /\ \A n \in Mixes : getpc'[n] = IF n = m THEN "starting" ELSE getpc[n]
  BY DEF StartMixRound, IInv, TypeOK
<1>3. \A n \in Mixes : sent'[n][0] = IF n = m THEN sent[n][0] + 1 ELSE sent[n][0]
  BY <1>1 DEF StartMixRound, IInv, TypeOK
<1>4. \A n \in Mixes : sent'[n][NumLayers - 1] = sent[n][NumLayers - 1]
  BY <1>1 DEF StartMixRound, IInv, TypeOK
<1>5. sent[m][0] = round[m] + 1
  BY <1>2 DEF IInv, GetRound
<1>6. round[m] \in Nat
  BY DEF IInv, TypeOK, Rounds
<1>7. Collected(m) = round[m] + 1
  BY <1>2 DEF Collected
<1>8. \A n \in Mixes : Collected(n)' = Collected(n)
  BY <1>2 DEF Collected
<1>9. Collected(m) = sent[m][0] /\ sent[m][0] < NumRounds
  BY <1>2, <1>5, <1>6, <1>7, ConstantTypes
<1> QED
  BY <1>3, <1>4, <1>8, <1>9 DEF Barrier!Begin

\* Nothing else that a mix does shows in the barrier.
LEMMA BarrierStutter ==
  ASSUME IInv, UNCHANGED sent, NEW m \in Mixes,
         \A n \in Mixes : n # m => getpc'[n] = getpc[n] /\ round'[n] = round[n],
         Collected(m)' = Collected(m)
  PROVE  UNCHANGED Barrier!vars
<1>1. \A n \in Mixes : Collected(n)' = Collected(n)
  BY DEF Collected
<1> QED
  BY <1>1 DEF Barrier!vars

\* Every step of the mixes is a step of the barrier, or leaves it alone.
LEMMA BarrierStep == IInv /\ [Next]_vars => [Barrier!Next]_(Barrier!vars)
<1> SUFFICES ASSUME IInv, [Next]_vars PROVE Barrier!Next \/ UNCHANGED Barrier!vars
  OBVIOUS
<1>1. ASSUME UNCHANGED <<sent, getpc, round>> PROVE UNCHANGED Barrier!vars
  BY <1>1 DEF Barrier!vars, Collected
<1>2. CASE UNCHANGED vars
  BY <1>1, <1>2 DEF vars
<1>3. ASSUME NEW c \in Calls, Handler(c)
      PROVE  Barrier!Next \/ UNCHANGED Barrier!vars
  <2>1. CASE ParseInput(c) \/ NothingToSend(c) \/ Finish(c)
    BY <1>1, <2>1 DEF ParseInput, NothingToSend, Finish, getVars
  <2>2. ASSUME NEW l \in 1 .. NumLayers - 1, SendLayer(c, l)
        PROVE  Barrier!Next \/ UNCHANGED Barrier!vars
    BY <2>2, BarrierSendLayer, CallFields DEF Barrier!Next
  <2> QED
    BY <1>3, <2>1, <2>2 DEF Handler
<1>4. ASSUME NEW c \in Calls, Failure(c) PROVE UNCHANGED Barrier!vars
  BY <1>1, <1>4 DEF Failure, Panic, Break, Cascade, Fail, getVars
<1>5. ASSUME NEW m \in Mixes, GetRequest(m) \/ Get(m) \/ GetPanic(m)
      PROVE  Barrier!Next \/ UNCHANGED Barrier!vars
  <2>1. CASE OutputLastLayer(m)
    BY <2>1, BarrierCollect DEF Barrier!Next
  <2>2. CASE StartMixRound(m)
    BY <2>2, BarrierBegin DEF Barrier!Next
  <2>3. CASE GetRequest(m) \/ Acquire(m) \/ NextRound(m) \/ Reply(m) \/ GetPanic(m)
    <3>1. UNCHANGED sent
      BY <2>3 DEF GetRequest, Acquire, NextRound, Reply, GetPanic, handlerVars
    <3>2. /\ \A n \in Mixes : n # m => getpc'[n] = getpc[n] /\ round'[n] = round[n]
          /\ \/ getpc[m] = "uncalled" /\ getpc'[m] = "acquire" /\ round'[m] = round[m]
             \/ getpc[m] = "acquire" /\ getpc'[m] = "output" /\ round'[m] = round[m]
             \/ getpc[m] = "starting" /\ getpc'[m] = "acquire" /\ round'[m] = round[m] + 1
             \/ getpc[m] = "measure" /\ getpc'[m] = "replied" /\ round'[m] = round[m]
             \/ getpc[m] = "starting" /\ getpc'[m] = "failed" /\ round'[m] = round[m]
      BY <2>3 DEF GetRequest, Acquire, NextRound, Reply, GetPanic, IInv, TypeOK
    <3>3. Collected(m)' = Collected(m)
      BY <3>2 DEF Collected
    <3> QED
      BY <3>1, <3>2, <3>3, BarrierStutter
  <2> QED
    BY <1>5, <2>1, <2>2, <2>3 DEF Get
<1> QED
  BY <1>2, <1>3, <1>4, <1>5 DEF Next, Idle

\* Every behaviour of the mixes, seen as rounds begun, last layers sent and outputs
\* collected, is one of the abstract barrier.
THEOREM Implementation == Spec => ImplementsBarrier
<1>1. Spec => []IInv
  BY Invariance
<1> QED
  BY <1>1, BarrierInit, BarrierStep, PTL DEF Spec, ImplementsBarrier, Barrier!Spec

================================================================================
