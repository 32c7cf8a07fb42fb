---------------------- MODULE MCDeploymentAdmission ----------------------
(* The instance for TLC.  It checks a liveness property, so the works and  *)
(* the operations are not declared symmetric.                              *)
EXTENDS DeploymentAdmission
==========================================================================
