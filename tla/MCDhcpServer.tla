---------------------------- MODULE MCDhcpServer -----------------------------
(* The table alone, three clients on two slots. *)
EXTENDS DhcpServer, TLC

TwoSlots == 0 .. 1

Symmetry == Permutations(Macs)
=============================================================================
