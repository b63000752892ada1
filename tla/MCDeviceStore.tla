----------------------------- MODULE MCDeviceStore -----------------------------
(* The threads and the values that properties have are interchangeable. *)
EXTENDS DeviceStore, TLC

Symmetric == Permutations(Threads) \cup Permutations(Values)
=============================================================================
