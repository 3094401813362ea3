------------------------- MODULE MCDeviceOnboarding -------------------------
(* Instances of DeviceOnboarding for TLC.                                  *)
EXTENDS DeviceOnboarding

(* The certificate of the device.                                          *)
Certificate == [credid |-> 1, subject |-> Self, secret |-> CHOOSE x \in Secret : TRUE]

(* A device that never ran: no database file.                              *)
NoFile == [svr |-> NoEntries, profile |-> None]

(* The database file a manufacturer installs, with pstat and with a        *)
(* certificate of the device.                                              *)
WithFile == [svr |-> [doxm |-> DefaultDoxm, pstat |-> DefaultPstat, acl |-> None,
                      cred |-> [list |-> {Certificate}, rowneruuid |-> Nil]],
             profile |-> None]

MCShippedDb == {NoFile, WithFile}
=============================================================================
