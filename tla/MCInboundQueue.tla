---------------------------- MODULE MCInboundQueue ----------------------------
(***************************************************************************)
(* Two inbound workers for TLC: the first always runs under the same id, as *)
(* in a container, the second under that one or another.                    *)
(***************************************************************************)
EXTENDS InboundQueue

CONSTANTS w1, w2, i1, i2

MCWorkers == {w1, w2}
MCIds == {i1, i2}
MCIdsOf == [w \in MCWorkers |-> IF w = w1 THEN {i1} ELSE MCIds]

=============================================================================
