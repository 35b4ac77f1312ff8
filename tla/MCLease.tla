------------------------------ MODULE MCLease ------------------------------
(***************************************************************************)
(* Small instances of Lease.                                               *)
(***************************************************************************)
EXTENDS Lease

\* What the passing runs rely on, as the theorem of LeaseProof does.
ASSUME LongEnough
=============================================================================
