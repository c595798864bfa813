------------------------------ MODULE Accounts ------------------------------
(* The accounts of a chain, whichever contract they call.                   *)
EXTENDS FiniteSets

CONSTANTS
    Address,      \* accounts that can call a contract
    ZeroAddress   \* address(0), which never sends a transaction

\* An address has 160 bits.
ASSUME AddressesAreFinite == IsFiniteSet(Address)

ASSUME ZeroAddressAssumption == ZeroAddress \notin Address
=============================================================================
