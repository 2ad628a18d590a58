-------------------------- MODULE MCPolicyDeployment --------------------------
(* Instance of PolicyDeployment for TLC: two revisions, a bundle file      *)
(* without a checksum, and an OCI artifact pinned to the first revision.   *)
EXTENDS PolicyDeployment, TLC

CONSTANTS r1, r2, image, bundleFile, registry

MCPin == (bundleFile :> NoPin) @@ (registry :> image)
MCLayerOf == image :> r1
==============================================================================
