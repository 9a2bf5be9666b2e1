----------------------- MODULE MCDeploymentRetention -----------------------
(***************************************************************************)
(* DeploymentRetention with one run, one job besides the activations and   *)
(* hold generations up to a bound: enough for a hold to be given back and  *)
(* taken again while messages of the first generation are still about.     *)
(***************************************************************************)
EXTENDS DeploymentRetention

CONSTANTS job1, run1, release1, release2

MCReleaseJobs == {release1, release2}

\* The release jobs are alike: they are minted in one order.
InTurn == releases[release2] # "absent" => releases[release1] # "absent"
=============================================================================
