-------------------------- MODULE MCAccountActivation --------------------------
(* Two registrations and two identities are what it takes for two            *)
(* transactions to bind the same identity; the third e-mail is an account's  *)
(* that has nothing to do with them.                                         *)
EXTENDS AccountActivation, TLC

CONSTANTS c1, c2, s1, s2

MCEmails  == {"one", "two", "other"}
MCEmailOf == (c1 :> "one") @@ (c2 :> "two")
MCSymmetry == Permutations({s1, s2})
================================================================================
