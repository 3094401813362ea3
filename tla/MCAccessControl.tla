-------------------------- MODULE MCAccessControl --------------------------
(* Instances of AccessControl for TLC.                                     *)
EXTENDS AccessControl

CONSTANTS Tool, Client   \* the two UUIDs that are not nil

MCRole == {[id |-> "admin", authority |-> "a"], [id |-> "admin", authority |-> "b"]}
MCApp == {"light", "missing"}
MCProps == [x \in Dcr \cup {"light"} |-> {"discoverable", "secure"}]

(* A new device has no owner, the tool owns one in normal operation.       *)
MCOwners == [s \in {"RFOTM", "RFNOP"} |->
               LET u == IF s = "RFOTM" THEN Nil ELSE Tool
               IN [devowner |-> u, rowner |-> [x \in RownerOf |-> u]]]

MakeAce(id, s, res, perm, v) ==
  [aceid |-> id, subject |-> s, resources |-> res, permission |-> perm, validity |-> v]

MCShippedAcl ==
  << MakeAce(1, <<"conn", "auth">>, {"res"}, {"read"}, "none"),
     MakeAce(2, <<"conn", "anon">>, {"res"}, {"read"}, "none") >>

MCNewAce ==
  { MakeAce(1, <<"conn", "anon">>, {"light"}, {"read"}, "none"),
    MakeAce(0, <<"uuid", Client>>, {"acl2", "all secure"}, {"read"}, "none"),
    MakeAce(1, <<"role", [id |-> "admin", authority |-> "a"]>>, {"*"}, Permission, "none"),
    MakeAce(1, <<"uuid", Tool>>, {"light"}, {"read"}, "within") }

Ask(u, uri, method) == [subject |-> u, flag |-> FALSE, uri |-> uri, method |-> method,
                        roles |-> {}, admin |-> FALSE]
MCProbe == { Ask(Client, "light", "get") }

(* Every requester, with and without a session and roles.                  *)
MCAsked ==
  { [subject |-> s[1], flag |-> s[2], uri |-> u, method |-> "get", roles |-> s[3], admin |-> FALSE] :
      s \in {<<Nil, FALSE, {}>>, <<Tool, TRUE, {}>>, <<Client, TRUE, {}>>,
             <<Client, TRUE, {[id |-> "admin", authority |-> "a"]}>>},
      u \in {"light", "missing", "acl2", TooLong} }
=============================================================================
