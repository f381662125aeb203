-------------------------- MODULE MCDeviceEndpoint --------------------------
(* Instances of the device endpoint and its hub for model checking.        *)
EXTENDS DeviceEndpoint, TLC
CONSTANTS s1, s2, d1, c1

MCSockets == {s1, s2}
MCIds     == {Unknown, d1}
MCCallers == {c1}
MCNoCaller == {}

\* Sound for invariants: the sockets are interchangeable.
MCSymmetry == Permutations(MCSockets)
=============================================================================
