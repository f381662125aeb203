--------------------------- MODULE CloudServices ---------------------------
(***************************************************************************)
(* The parts of the cloud and of the calls to it, side by side: the        *)
(* endpoints behind the rate limiter, streamed results, the daemon's calls *)
(* and the dispatcher, the values that travel and the server's sessions.   *)
(* They share no state, so a step is one of one part.                      *)
(***************************************************************************)
EXTENDS CloudApi, ResultStream, RpcExchange, Serialization, ServerSessions

servicesVars == <<vars, streamVars, exchangeVars, valueVars, serverSessionVars>>

ServicesInit == Init /\ StreamInit /\ ExchangeInit /\ ValueInit /\ ServerSessionsInit

ApiMoves      == Next /\ UNCHANGED <<streamVars, exchangeVars, valueVars, serverSessionVars>>
StreamMoves   == StreamNext /\ UNCHANGED <<vars, exchangeVars, valueVars, serverSessionVars>>
ExchangeMoves == ExchangeNext /\ UNCHANGED <<vars, streamVars, valueVars, serverSessionVars>>
ValueMoves    == ValueNext /\ UNCHANGED <<vars, streamVars, exchangeVars, serverSessionVars>>
SessionsMove  == ServerSessionsNext /\ UNCHANGED <<vars, streamVars, exchangeVars, valueVars>>

ServicesNext == ApiMoves \/ StreamMoves \/ ExchangeMoves \/ ValueMoves \/ SessionsMove

ServicesSpec == ServicesInit /\ [][ServicesNext]_servicesVars

\* The type invariants of the parts.
ServicesTypeOK == TypeOK /\ StreamTypeOK /\ ExchangeTypeOK /\ ServerSessionsTypeOK
=============================================================================
