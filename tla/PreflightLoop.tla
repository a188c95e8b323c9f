---------------------------- MODULE PreflightLoop ----------------------------
(***************************************************************************)
(* provisionCredentials after the reply has been read: the status check,   *)
(* the parse, and the loop over the entries with its `acked` flag, its     *)
(* `continue`s and its early return.                                       *)
(***************************************************************************)
EXTENDS PreflightReply

CONSTANT Bodies   \* the replies the gateway may send

ASSUME BodiesAssumption == Bodies \subseteq Replies

VARIABLES
    reply,    \* the reply that was read
    i,        \* the next entry of `outputs`
    acked,    \* the flag of the same name
    verdict   \* "none" until the function returns; then "nil" or "error"

loopVars == <<reply, i, acked, verdict>>

LoopInit ==
    /\ reply \in Bodies
    /\ i = 1
    /\ acked = FALSE
    /\ verdict = "none"

Return(v) == verdict' = v /\ UNCHANGED <<reply, i, acked>>

\* A non-2xx status, or a body json.Unmarshal does not understand.
NotUnderstood ==
    /\ verdict = "none"
    /\ reply.status # "ok"
    /\ Return("error")

\* Bug: the flag holds the outcome of the last entry, not of any of them.
NextOutputForgets ==
    /\ verdict = "none"
    /\ reply.status = "ok"
    /\ i <= Len(reply.outputs)
    /\ ~OwnRejection(reply.outputs[i])
    /\ acked' = OwnAck(reply.outputs[i])
    /\ i' = i + 1
    /\ UNCHANGED <<reply, verdict>>

\* One turn of the loop that does not return: an entry about another
\* operation, an ack, an info alert, or a kind the switch does not name.
NextOutput ==
    /\ verdict = "none"
    /\ reply.status = "ok"
    /\ i <= Len(reply.outputs)
    /\ ~OwnRejection(reply.outputs[i])
    /\ acked' = (acked \/ OwnAck(reply.outputs[i]))
    /\ i' = i + 1
    /\ UNCHANGED <<reply, verdict>>

\* A non-info alert about our operation ends the loop at once.
Rejected ==
    /\ verdict = "none"
    /\ reply.status = "ok"
    /\ i <= Len(reply.outputs)
    /\ OwnRejection(reply.outputs[i])
    /\ Return("error")

\* Bug: a body without any entry about our operation counts as success.
EndOfOutputsLenient ==
    /\ verdict = "none"
    /\ reply.status = "ok"
    /\ i > Len(reply.outputs)
    /\ Return("nil")

\* After the last entry, the flag decides.
EndOfOutputs ==
    /\ verdict = "none"
    /\ reply.status = "ok"
    /\ i > Len(reply.outputs)
    /\ Return(IF acked THEN "nil" ELSE "error")

LoopNext == NotUnderstood \/ NextOutput \/ Rejected \/ EndOfOutputs

LoopSpec == LoopInit /\ [][LoopNext]_loopVars

-----------------------------------------------------------------------------
TypeOK ==
    /\ reply \in Bodies
    /\ i \in 1..Len(reply.outputs) + 1
    /\ acked \in BOOLEAN
    /\ verdict \in {"none", "nil", "error"}

\* provisionCredentials returns nil exactly for the replies its comment calls a
\* success: our operation acked somewhere in the body, no non-info alert about
\* it anywhere in it, before or after the ack, whatever else is interleaved
\* (preflight.go:89-118).
VerdictIsAcceptance ==
    verdict # "none" => (verdict = "nil" <=> Accepted(reply))

\* The inductive invariant: at every turn the flag says exactly whether one of
\* the entries already read was our ack, and none of them was a rejection
\* (preflight.go:100-114).
LoopInv ==
    /\ TypeOK
    /\ acked <=> \E k \in 1..i - 1 : OwnAck(reply.outputs[k])
    /\ \A k \in 1..i - 1 : ~OwnRejection(reply.outputs[k])
    /\ VerdictIsAcceptance
=============================================================================
