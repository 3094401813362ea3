-------------------------- MODULE MCRetransmission --------------------------
(* A small instance: s1 and s2 share message id and adapter (two peers),   *)
(* s3 has a key of its own, s4 is not confirmable.                         *)
EXTENDS CARetransmission, TLC

CONSTANTS s1, s2, s3, s4, k1, k2

MCSend == {s1, s2, s3, s4}
MCConfirmable == {s1, s2, s3}
MCTwoSends == {s1, s3}
MCKey == s1 :> k1 @@ s2 :> k1 @@ s3 :> k2 @@ s4 :> k2
=============================================================================
