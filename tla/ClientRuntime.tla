--------------------------- MODULE ClientRuntime ---------------------------
(***************************************************************************)
(* The parts of the client that live in memory, side by side: the daemon,  *)
(* a cloud session, the metadata sync, the circuit breaker and the import  *)
(* hooks.  They share no state, so a step is one of one part.              *)
(***************************************************************************)
EXTENDS Daemon, CloudSession, MetadataSync, CloudFallback, ImportHooks

runtimeVars == <<vars, sessionVars, syncVars, fallbackVars, hookVars>>

RuntimeInit == Init /\ SessionInit /\ SyncInit /\ FallbackInit /\ HooksInit

DaemonMoves   == Next /\ UNCHANGED <<sessionVars, syncVars, fallbackVars, hookVars>>
SessionMoves  == SessionNext /\ UNCHANGED <<vars, syncVars, fallbackVars, hookVars>>
SyncMoves     == SyncNext /\ UNCHANGED <<vars, sessionVars, fallbackVars, hookVars>>
FallbackMoves == FallbackNext /\ UNCHANGED <<vars, sessionVars, syncVars, hookVars>>
HooksMove     == HooksNext /\ UNCHANGED <<vars, sessionVars, syncVars, fallbackVars>>

RuntimeNext == DaemonMoves \/ SessionMoves \/ SyncMoves \/ FallbackMoves \/ HooksMove

RuntimeSpec == RuntimeInit /\ [][RuntimeNext]_runtimeVars

\* The type invariants of the parts.
RuntimeTypeOK == TypeOK /\ SessionTypeOK /\ SyncTypeOK /\ FallbackTypeOK /\ HooksTypeOK
=============================================================================
