----------------------------- MODULE RoundBarrier -----------------------------
(***************************************************************************)
(* What the round engine of the mixes promises, whatever their number: the *)
(* rounds are separated by a barrier.  A mix contributes to a round by     *)
(* sending its last layer of the round.  It collects the output of a round *)
(* only when every mix has contributed to that round, and begins the next  *)
(* round only when it has collected the output of this one.                *)
(***************************************************************************)
EXTENDS Naturals

CONSTANTS Mixes, NumRounds

VARIABLES
  begun,        \* the number of rounds a mix has begun
  contributed,  \* the number of rounds whose last layer a mix has sent
  collected     \* the number of rounds whose output a mix has collected

vars == <<begun, contributed, collected>>

Init ==
  /\ begun = [m \in Mixes |-> 1]
  /\ contributed = [m \in Mixes |-> 0]
  /\ collected = [m \in Mixes |-> 0]

Contribute(m) ==
  /\ contributed[m] < begun[m]
  /\ contributed' = [contributed EXCEPT ![m] = @ + 1]
  /\ UNCHANGED <<begun, collected>>

Collect(m) ==
  /\ collected[m] < begun[m]
  /\ \A n \in Mixes : contributed[n] >= begun[m]
  /\ collected' = [collected EXCEPT ![m] = @ + 1]
  /\ UNCHANGED <<begun, contributed>>

Begin(m) ==
  /\ collected[m] = begun[m]
  /\ begun[m] < NumRounds
  /\ begun' = [begun EXCEPT ![m] = @ + 1]
  /\ UNCHANGED <<contributed, collected>>

Next == \E m \in Mixes : Contribute(m) \/ Collect(m) \/ Begin(m)

Spec == Init /\ [][Next]_vars

================================================================================
