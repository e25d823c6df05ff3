------------------------ MODULE MCMaintenanceWorker ------------------------
(* The instances of MaintenanceWorker that TLC checks.                      *)
EXTENDS MaintenanceWorker

CONSTANTS d1, d2, d3  \* databases

TwoDatabases == <<d1, d2>>
ThreeDatabases == <<d1, d2, d3>>
=============================================================================
