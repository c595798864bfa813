---------------------------- MODULE MCContracts -----------------------------
(***************************************************************************)
(* GraspLog and LicenceRegistry for TLC.  What the registry reads of the   *)
(* log is its own variable `anchored`, so the two share nothing: a         *)
(* behaviour calls one contract while the other is as it was deployed.     *)
(*   The log: two accounts, two roots, so that a root can come back at a   *)
(* larger size, two consent keys and histories of up to four anchors, so   *)
(* that several revocation-only anchors separate two sizes.  The accounts  *)
(* are interchangeable here: a1 deploys it.                                *)
(*   The registry: the two accounts are deployer, supplier and buyer in    *)
(* every combination; one corpus leaf and a price whose 2.5 % is not a     *)
(* whole number.  The treasury can move to a1, the stewardship to a2.      *)
(***************************************************************************)
EXTENDS GraspLog, LicenceRegistry

CONSTANTS a1, a2, zero, r1, r2, none, k1, k2, t1, m1

MCAddress == {a1, a2}
MCRoot    == {r1, r2}
MCKey     == {k1, k2}

MCTerms      == {t1}
MCManifest   == {m1}
MCPrice      == {41}
MCTreasuries == {a1}
MCSuccessors == {a2}

Deployed == Init /\ anchorer = a1

ContractsInit == Deployed /\ RegistryInit
ContractsNext ==
    \/ RegistryInit /\ UNCHANGED registryVars /\ Next
    \/ Deployed /\ UNCHANGED vars /\ RegistryNext
ContractsSpec == ContractsInit /\ [][ContractsNext]_<<vars, registryVars>>
=============================================================================
