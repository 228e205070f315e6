--------------------------- MODULE MCDigestMailer ---------------------------
(***************************************************************************)
(* Bounds: two addresses, so that one can fail while the other is due; the *)
(* Gem Guard section, which every digest has, and the Sentinel section,    *)
(* which is there or not (as the third, the ranked stocks); one digest and *)
(* one test email beside any number of changes of preferences.  Digests of *)
(* overlapping cycles share only the tables and never read what the other  *)
(* writes, so a second one only multiplies the states.  Addresses are      *)
(* interchangeable.                                                        *)
(***************************************************************************)
EXTENDS DigestMailer, TLC

Symmetry == Permutations(Emails)
=============================================================================
