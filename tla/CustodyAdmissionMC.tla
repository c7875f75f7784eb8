------------------------- MODULE CustodyAdmissionMC -------------------------
(* The instance of LeaseCustodyMC with the obstacles of its admissions.    *)
EXTENDS LeaseCustodyMC, CustodyObstacles
=============================================================================
