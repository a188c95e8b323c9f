---------------------------- MODULE MCSelectLoop ----------------------------
(* Every farm of up to MaxMembers usable members with these weights and loads. *)
EXTENDS SelectLoop, SequencesExt

CONSTANTS MaxMembers, Weights, MaxSessions

MCFarms ==
    BoundedSeq([weight : Weights, sessions : 0..MaxSessions], MaxMembers) \ {<<>>}
=============================================================================
