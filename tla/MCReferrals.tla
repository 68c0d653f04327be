---------------------------- MODULE MCReferrals ----------------------------
(* Instances of Referrals for TLC; its constants have their values in      *)
(* MCReferrals_claims.cfg.                                                 *)
EXTENDS Referrals
=============================================================================
