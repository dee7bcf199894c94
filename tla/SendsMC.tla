------------------------------- MODULE SendsMC -------------------------------
(***************************************************************************)
(* Calls of the send service that race for a key, for the quota of files   *)
(* and for the rolling window: callA and callB spend one idempotency key,  *)
(* on different content; callC has a key of its own; two of them carry a   *)
(* file, there is room for one, and isolates die.  `part` chooses between  *)
(* that and a race for the last place of the window, in which replies of   *)
(* commits are lost and one call carries a file.                           *)
(***************************************************************************)
EXTENDS SendOperations

CONSTANTS callA, callB, callC,  \* calls
          k1, k2,               \* idempotency keys
          hello, bye            \* contents of a request

KeyPart == [r \in {callA, callB, callC} |-> IF r = callC THEN k2 ELSE k1]
PrintPart == [r \in {callA, callB, callC} |-> IF r = callB THEN bye ELSE hello]

VARIABLE part

LastPlace == INSTANCE SendOperations WITH SendLimit <- 1, WithFile <- {callA}, Events <- {"lost"}

RunInit == part \in {"files", "place"} /\ Init

RunNext ==
  \/ part = "files" /\ Next /\ UNCHANGED part
  \/ part = "place" /\ LastPlace!Next /\ UNCHANGED part

RunSpec == RunInit /\ [][RunNext]_<<vars, part>>

=============================================================================
