---------------------------- MODULE MCIpctStream ----------------------------
(***************************************************************************)
(* Instances of IpctStream for TLC.                                        *)
(***************************************************************************)
EXTENDS IpctStream

(* A stack of zeros, of ones, and two that differ from cell to cell.       *)
MCLeftovers == {[c \in 0 .. 511 |-> 0], [c \in 0 .. 511 |-> 65535],
                [c \in 0 .. 511 |-> 100 + c], [c \in 0 .. 511 |-> 1]}

NoFloats(e, c) == FALSE

=============================================================================
