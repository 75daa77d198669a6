---------------------------- MODULE MCDeviceJobs ----------------------------
(* The instance of DeviceJobs for TLC: overlapping claim requests.           *)
EXTENDS DeviceJobs, TLC

Symmetry == Permutations(Pollers)
=============================================================================
