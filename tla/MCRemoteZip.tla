----------------------------- MODULE MCRemoteZip -----------------------------
(* Instances of RemoteZip for TLC. *)
EXTENDS RemoteZip

CONSTANTS w1, w2, m1

\* Under MaxFileSize 2 and MaxTotalSize 4 these fit, fill or exceed a limit.
SmallSizes == [f \in Files \cup Memory |-> 1]
MixedSizes == [f \in Files \cup Memory |-> CASE f = 1 -> 2 [] f = 3 -> 3 [] OTHER -> 1]
=============================================================================
