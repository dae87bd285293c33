--------------------------- MODULE MCOfflineSync ----------------------------
(* A small instance of OfflineSync; the values are in MCOfflineOverlap.cfg.  *)
EXTENDS OfflineSync
=============================================================================
