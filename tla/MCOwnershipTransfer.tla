------------------------ MODULE MCOwnershipTransfer ------------------------
(* An instance of OwnershipTransfer for TLC.                               *)
EXTENDS OwnershipTransfer

(* The database a device leaves the factory with; its certificate has the  *)
(* id that a tool gives to its first credential.                           *)
MCShippedDb ==
  { [svr |-> [doxm |-> [owned |-> FALSE, owner |-> Nil, deviceuuid |-> Nil,
                        rowneruuid |-> Nil],
              pstat |-> [dos |-> "RFOTM", pending |-> FALSE, isop |-> FALSE,
                         takeOwner |-> TRUE, rowneruuid |-> Nil],
              acl |-> None,
              cred |-> [list |-> {[credid |-> 1, subject |-> Self, secret |-> 0]},
                        rowneruuid |-> Nil]],
     profile |-> None] }
=============================================================================
