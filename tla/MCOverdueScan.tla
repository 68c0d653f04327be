--------------------------- MODULE MCOverdueScan ---------------------------
(* Instances of OverdueScan for TLC; its constants have their values in the  *)
(* .cfg files: MCOverdueScan_overlap.cfg and MCOverdueScan_starved.cfg.      *)
EXTENDS OverdueScan
=============================================================================
