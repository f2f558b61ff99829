------------------------------- MODULE MCDhcp --------------------------------
(* Clients with model values for their addresses, slots 0, 1, ... *)
EXTENDS DhcpNetwork, TLC

TwoSlots   == 0 .. 1
ThreeSlots == 0 .. 2

Symmetry == Permutations(Macs)
=============================================================================
