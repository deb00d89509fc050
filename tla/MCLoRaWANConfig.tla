-------------------------- MODULE MCLoRaWANConfig --------------------------
(* LoRaWANConfig for TLC: two slots, two addresses and a build-flag identity. *)
EXTENDS LoRaWANConfig

CONSTANTS A, B, X

MCAddrs == {A, B, X}
MCDevices == {[addr |-> A, srcSel |-> "node", srcMatch |-> 7],
              [addr |-> A, srcSel |-> "proto", srcMatch |-> "MC"],
              [addr |-> B, srcSel |-> "proto", srcMatch |-> "MC"]}
MCSources == {[proto |-> "MT", id |-> 7], [proto |-> "MC", id |-> 0],
              [proto |-> "RNS", id |-> 0]}
=============================================================================
