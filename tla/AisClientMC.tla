---------------------------- MODULE AisClientMC ----------------------------
(* Instances of AisClient for TLC. *)
EXTENDS AisClient

CONSTANTS t1, t2, r1, r2, s1, s2, s3
=============================================================================
