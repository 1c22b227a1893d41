--------------------------- MODULE MCCacheWriter ---------------------------
(***************************************************************************)
(* Small instances of CacheWriter for TLC.                                 *)
(***************************************************************************)
EXTENDS CacheWriter

\* A database whose failures are not those of a connection lost half-way.
HandledFaults == {"undefined", "other"}
AllFaults == {"broken", "undefined", "other"}
=============================================================================
