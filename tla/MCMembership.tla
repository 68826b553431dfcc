---------------------------- MODULE MCMembership ----------------------------
(* Membership on small instances. *)
EXTENDS Membership, TLC

\* Accounts are interchangeable but for the founder; slots and documents are all alike.
Symmetry ==
  Permutations(Users \ {Founder}) \cup Permutations(Requests) \cup Permutations(Invitations)
=============================================================================
