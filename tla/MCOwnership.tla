------------------------------ MODULE MCOwnership ------------------------------
(***************************************************************************)
(* Ownership for TLC.  Clients choose a plain session id, one that looks   *)
(* like a scoped id of any account, or one with the reserved prefix.       *)
(***************************************************************************)
EXTENDS Ownership, TLC

CONSTANTS plain, drawn

MCExternalIds ==
    {<<plain>>} \cup {<<Obx, a, plain>> : a \in Ids} \cup {<<CU, w>> : w \in WorkerIds}
MCGeneratedIds == {<<drawn>>}

MCSymmetry ==
    Permutations(RandomIds) \cup Permutations(SecretIds)
        \cup Permutations(Values) \cup Permutations(Requests)
        \cup Permutations(WorkerIds)
==============================================================================
