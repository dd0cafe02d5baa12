------------------------ MODULE MCLocalHostArtifacts ------------------------
(***************************************************************************)
(* LocalHostArtifacts for TLC: the constants that depend on others.        *)
(***************************************************************************)
EXTENDS LocalHostArtifacts

MCExecutions == Runs
MCKeys == Goroutines
MCChunks == Bytes
=============================================================================
