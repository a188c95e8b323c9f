------------------------------ MODULE Exchange ------------------------------
(***************************************************************************)
(* The middle of one launch, what it sends and what it makes of the reply: *)
(* the addresses of Addressing, with the reply loop of PreflightLoop where *)
(* the launch waits for provisionCredentials to return.                    *)
(***************************************************************************)
EXTENDS PreflightLoop, Addressing

exchange == <<vars, loopVars>>

ExchangeInit == Init /\ LoopInit

\* The reply is read once the request has been sent.
ReadReply == at = "describe" /\ LoopNext /\ UNCHANGED vars

\* An error of provisionCredentials ends the launch: the browser is sent nothing.
Succeed == verdict = "nil" /\ (Describe \/ Answer) /\ UNCHANGED loopVars

ExchangeNext ==
    \/ (Probe \/ Provision) /\ UNCHANGED loopVars
    \/ ReadReply
    \/ Succeed

ExchangeSpec == ExchangeInit /\ [][ExchangeNext]_exchange
=============================================================================
