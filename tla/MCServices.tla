----------------------------- MODULE MCServices -----------------------------
(* The services of the gateway on a small instance.  No property, guard or *)
(* choice tells two DeviceConfigs apart, so they are symmetric.            *)
EXTENDS Services, TLC

DeviceSymmetry == Permutations(Device)
=============================================================================
