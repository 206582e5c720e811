------------------------------ MODULE MCTunTcp ------------------------------
(***************************************************************************)
(* Two slots and three clients, so that a SYN can find no slot; an age     *)
(* limit of two sweeps; a sequence space of two numbers, since the checked *)
(* properties only look at who owns a slot and which halves are closed.    *)
(***************************************************************************)
EXTENDS TunTcp, TLC

Symmetry == Permutations(Tuples)

==============================================================================
