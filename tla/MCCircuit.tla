------------------------------ MODULE MCCircuit ------------------------------
(* A small instance of Circuit: three servers, three layers, one honest and    *)
(* one bad client, with and without verification, in both byte forms.        *)
EXTENDS Circuit

MCModes == {[verify |-> v, form |-> f] : v \in BOOLEAN, f \in Forms}
MCClients == {"honest", "bad"}
MCBadClients == {"bad"}
MCExponents == [c \in MCClients |-> IF c = "honest" THEN 3 ELSE 4]
MCDraws == [c \in MCClients |->
  IF c = "honest" THEN <<2, 5, 7, 13, 17, 19, 23, 29, 31, 37, 41, 6, 8, 43, 47>>
  ELSE <<9, 10, 44, 14, 21, 39, 50, 22, 33, 51, 65, 91, 66, 77, 99>>]
MCTicketBases == <<11, 26, 35>>
MCBadTickets == (0 :> 57) @@ (1 :> 58) @@ (2 :> 62)
MCChallenges == <<59, 61, 12, 52, 24, 94, 15, 81>>
MCGenerators == <<67, 71>>
MCNextServer(t, size) == t % size
==============================================================================
