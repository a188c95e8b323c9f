--------------------------- MODULE PreflightReply ---------------------------
(***************************************************************************)
(* The gateway's answer to POST /jet/preflight and what makes it a         *)
(* success.  The broker sends one operation per request; the gateway       *)
(* reports the outcome of each operation in the body, whatever the HTTP    *)
(* status.  Bodies are abstracted to the sequence of their entries: only   *)
(* whether an entry is about our operation, its kind and, for an alert,    *)
(* whether its status is "info" can change the verdict.                    *)
(***************************************************************************)
EXTENDS Integers, Sequences

\* One entry of the output array (preflightOutput).  `own` stands for
\* OperationID = op.ID; `info` for an alert status equal to "info" up to case.
Output == [own : BOOLEAN, kind : {"ack", "alert", "other"}, info : BOOLEAN]

\* "ok": 2xx with a body that parses.  "refused": any other HTTP status.
\* "garbled": 2xx with a body that is no JSON array of entries, a body cut at
\* the 64 KiB read limit included.
Replies == [status : {"ok", "refused", "garbled"}, outputs : Seq(Output)]

OwnAck(out) == out.own /\ out.kind = "ack"

OwnRejection(out) == out.own /\ out.kind = "alert" /\ ~out.info

\* Bug: a 2xx with a readable body is taken for success.
AcceptedOn2xx(reply) == reply.status = "ok"

\* What the doc comment of provisionCredentials asks for: an ack for our
\* operation and no alert about it other than an informational one.
Accepted(reply) ==
    /\ reply.status = "ok"
    /\ \E k \in DOMAIN reply.outputs : OwnAck(reply.outputs[k])
    /\ \A k \in DOMAIN reply.outputs : ~OwnRejection(reply.outputs[k])
=============================================================================
