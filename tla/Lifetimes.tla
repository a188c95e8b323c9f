------------------------------ MODULE Lifetimes ------------------------------
(***************************************************************************)
(* One launch of a booted broker against the clock: the sequential probes, *)
(* the tokens with their nbf and exp, the gateway's credential mapping with *)
(* its time_to_live, and the player that comes some time later.  What a    *)
(* launch does apart from time is in Launch.                               *)
(*                                                                         *)
(* The clock ticks while a call to a gateway is out or the player is       *)
(* waited for; code takes no time.  A client with a timeout does not let a *)
(* call outlast it.                                                        *)
(***************************************************************************)
EXTENDS Boot

CONSTANTS
    Members,         \* the number of members with a weight in the farm
    Timeout,         \* of the client New makes: 10 s
    AssocLifetime,   \* 300 s
    WebAppLifetime,  \* 7200 s
    Cap,             \* the time_to_live a gateway takes at most: 2 h
    Leeway,          \* of the gateway's validation of nbf and exp: 5 min
    Skews,           \* what a gateway's clock may be ahead of the broker's
    MaxTime          \* bound: the clock

Farm == 1..Members
Kinds == {"heartbeat", "association", "scope", "kdc", "webapp"}

ASSUME LifetimesAssumption ==
    /\ Members \in Nat
    /\ Timeout \in Nat /\ AssocLifetime \in Nat /\ WebAppLifetime \in Nat
    /\ Timeout <= AssocLifetime /\ AssocLifetime <= WebAppLifetime
    /\ Leeway \in Nat /\ Skews \subseteq -Leeway..Leeway
    /\ AssocLifetime + 2 * Leeway <= DefaultTTL /\ DefaultTTL <= Cap
    /\ Cap \in Nat /\ MaxTime \in Nat

VARIABLES
    now,        \* the broker's clock
    skew,       \* per member: how far its clock is ahead
    pc,         \* where the launch is
    next,       \* the candidate to probe
    begun,      \* when the launch began to probe
    called,     \* when the call that is out was sent
    token,      \* the claims minted last, by kind
    alive, chosen,
    verdict,    \* what the gateway made of the preflight request
    expiry,     \* when the gateway drops the credential mapping
    delivered   \* when the descriptor was handed over

launchVars == <<now, skew, pc, next, begun, called, token, alive, chosen,
                verdict, expiry, delivered>>
vars == <<bootVars, launchVars>>

\* nbf and exp as `registered` sets them.
Registered(t, ttl) == [nbf |-> t, exp |-> t + ttl]

Timed == cfg.client = "timed"

\* A gateway's check of a token against its own clock.
Accepts(m, claims) ==
    /\ claims.nbf <= now + skew[m] + Leeway
    /\ now + skew[m] <= claims.exp + Leeway

Init ==
    /\ BootInit
    /\ now = 0 /\ skew \in [Farm -> Skews]
    /\ pc = "idle" /\ next = 1 /\ begun = 0 /\ called = 0
    /\ token = [k \in Kinds |-> Registered(0, 0)]
    /\ alive = {} /\ chosen = 0
    /\ verdict = "none" /\ expiry = 0 /\ delivered = 0

-----------------------------------------------------------------------------
\* The resolvers have answered and selectGateway starts.
Begin ==
    /\ step = "serving"
    /\ pc = "idle"
    /\ pc' = "probe" /\ begun' = now
    /\ UNCHANGED <<bootVars, now, skew, next, called, token, alive, chosen,
                   verdict, expiry, delivered>>

\* Bug: one heartbeat token for all members, minted before the loop.
ProbeSharedScope ==
    /\ pc = "probe" /\ next <= Members
    /\ token' = [token EXCEPT !["heartbeat"] = Registered(begun, AssocLifetime)]
    /\ called' = now
    /\ pc' = "heartbeat"
    /\ UNCHANGED <<bootVars, now, skew, next, begun, alive, chosen, verdict, expiry, delivered>>

\* gatewayHeartbeat mints its own scope token and sends the request.
Probe ==
    /\ pc = "probe" /\ next <= Members
    /\ token' = [token EXCEPT !["heartbeat"] = Registered(now, AssocLifetime)]
    /\ called' = now
    /\ pc' = "heartbeat"
    /\ UNCHANGED <<bootVars, now, skew, next, begun, alive, chosen, verdict, expiry, delivered>>

\* The member answers: with a 401 if it does not take the token.
HeartbeatAnswered ==
    /\ pc = "heartbeat"
    /\ alive' = IF Accepts(next, token["heartbeat"]) THEN alive \cup {next} ELSE alive
    /\ next' = next + 1
    /\ pc' = "probe"
    /\ UNCHANGED <<bootVars, now, skew, begun, called, token, chosen, verdict, expiry, delivered>>

\* Bug: a member that did not answer is tried again.
HeartbeatRetries ==
    /\ pc = "heartbeat"
    /\ pc' = "probe"
    /\ UNCHANGED <<bootVars, now, skew, next, begun, called, token, alive, chosen,
                   verdict, expiry, delivered>>

\* Bug: the error path advances the loop, and so does the loop.
HeartbeatFailsTwice ==
    /\ pc = "heartbeat"
    /\ next' = next + 2
    /\ pc' = "probe"
    /\ UNCHANGED <<bootVars, now, skew, begun, called, token, alive, chosen, verdict, expiry, delivered>>

\* Refused, unusable, or given up by the client.
HeartbeatFails ==
    /\ pc = "heartbeat"
    /\ next' = next + 1
    /\ pc' = "probe"
    /\ UNCHANGED <<bootVars, now, skew, begun, called, token, alive, chosen, verdict, expiry, delivered>>

NoUsableGateway ==
    /\ pc = "probe" /\ next > Members
    /\ alive = {}
    /\ pc' = "failed"
    /\ UNCHANGED <<bootVars, now, skew, next, begun, called, token, alive, chosen,
                   verdict, expiry, delivered>>

\* mintAssociation, mintScope and the preflight request.
Choose ==
    /\ pc = "probe" /\ next > Members
    /\ chosen' \in alive
    /\ token' = [token EXCEPT !["association"] = Registered(now, AssocLifetime),
                              !["scope"] = Registered(now, AssocLifetime)]
    /\ called' = now
    /\ pc' = "preflight"
    /\ UNCHANGED <<bootVars, now, skew, next, begun, alive, verdict, expiry, delivered>>

\* The gateway takes the operation, drops the mapping time_to_live later, or
\* reports an alert: over its cap, or no duration at all.
GatewayProvisions ==
    /\ pc = "preflight" /\ verdict = "none"
    /\ \A k \in {"association", "scope"} : Accepts(chosen, token[k])
    /\ IF cfg.ttl \in 0..Cap
       THEN verdict' = "ack" /\ expiry' = now + cfg.ttl
       ELSE verdict' = "alert" /\ UNCHANGED expiry
    /\ UNCHANGED <<bootVars, now, skew, pc, next, begun, called, token, alive, chosen, delivered>>

\* The client gives up, the reply is lost or says that the operation failed.
PreflightFails ==
    /\ pc = "preflight"
    /\ pc' = "failed"
    /\ UNCHANGED <<bootVars, now, skew, next, begun, called, token, alive, chosen,
                   verdict, expiry, delivered>>

\* Bug: the KDC token is minted before the selection.
DeliverOldKdc ==
    /\ pc = "preflight" /\ verdict = "ack"
    /\ token' = [token EXCEPT !["kdc"] = Registered(begun, AssocLifetime),
                              !["webapp"] = Registered(now, WebAppLifetime)]
    /\ delivered' = now
    /\ pc' = "done"
    /\ UNCHANGED <<bootVars, now, skew, next, begun, called, alive, chosen, verdict, expiry>>

\* mintWebApp, mintKdc and the descriptor.
Deliver ==
    /\ pc = "preflight" /\ verdict = "ack"
    /\ token' = [token EXCEPT !["kdc"] = Registered(now, AssocLifetime),
                              !["webapp"] = Registered(now, WebAppLifetime)]
    /\ delivered' = now
    /\ pc' = "done"
    /\ UNCHANGED <<bootVars, now, skew, next, begun, called, alive, chosen, verdict, expiry>>

Calling == pc \in {"heartbeat", "preflight"}

Tick ==
    /\ Calling \/ pc = "done"
    /\ Calling /\ Timed => now < called + Timeout
    /\ now < MaxTime
    /\ now' = now + 1
    /\ UNCHANGED <<bootVars, skew, pc, next, begun, called, token, alive, chosen,
                   verdict, expiry, delivered>>

LaunchStep ==
    \/ Begin \/ Probe \/ HeartbeatAnswered \/ HeartbeatFails \/ NoUsableGateway
    \/ Choose \/ GatewayProvisions \/ PreflightFails \/ Deliver \/ Tick

Next == (BootNext /\ UNCHANGED launchVars) \/ LaunchStep

Spec == Init /\ [][Next]_vars

-----------------------------------------------------------------------------
Claims == [nbf : Int, exp : Int]

TypeOK ==
    /\ settings \in Environments \cup {NoSettings}
    /\ given \in Config
    /\ step \in {"key", "ttl", "client", "gateway", "new", "listen",
                 "serving", "exited", "unbound"}
    /\ cfg \in Config /\ adapters \subseteq Ports
    /\ now \in Nat /\ skew \in [Farm -> Skews]
    /\ pc \in {"idle", "probe", "heartbeat", "preflight", "done", "failed"}
    /\ next \in 1..(Members + 1) /\ begun \in Nat /\ called \in Nat
    /\ token \in [Kinds -> Claims]
    /\ alive \subseteq Farm /\ chosen \in Farm \cup {0}
    /\ verdict \in {"none", "ack", "alert"} /\ expiry \in Nat /\ delivered \in Nat

\* With a timeout, a launch is answered within that of all its calls: one
\* heartbeat per member, one after the other, and the preflight request.
AnsweredInTime ==
    Timed /\ pc \in {"probe", "heartbeat", "preflight"} =>
        now <= begun + (Members + 1) * Timeout

\* No token is too old or too new when a gateway sees it within the timeout of
\* the call, wherever the launch stands in the farm and however its clock is
\* off within the leeway: a member is never skipped, and a request never
\* refused, over time (farm.go:126, token.go:22-24).
FreshWhenSeen ==
    Timed =>
       /\ pc = "heartbeat" => Accepts(next, token["heartbeat"])
       /\ pc = "preflight" => \A k \in {"association", "scope"} : Accepts(chosen, token[k])

\* The player has the lifetime of the association token, less one timeout, to
\* bootstrap (token.go:22-24): until then its tokens are taken and the
\* credential is there, if that was to be kept as long as the token is good.
PromptPlayerServed ==
    /\ pc = "done" /\ Timed
    /\ cfg.ttl >= AssocLifetime
    /\ now <= delivered + AssocLifetime - Timeout
    =>
    /\ \A k \in {"association", "kdc", "webapp"} : Accepts(chosen, token[k])
    /\ now <= expiry

NoTTLSet == IF InHost THEN given.ttl = 0 ELSE settings.ttl = Unset

\* If nobody set a TTL, or it was set to the default, then as long as a gateway
\* takes the association token, leeway and skew included, it still holds the
\* credential, and it takes the KDC and WEBAPP tokens that go with it.
DefaultOutlivesAssociation ==
    /\ pc = "done"
    /\ cfg.ttl = DefaultTTL \/ NoTTLSet
    /\ Accepts(chosen, token["association"])
    =>
    /\ now <= expiry
    /\ Accepts(chosen, token["kdc"]) /\ Accepts(chosen, token["webapp"])

\* "a misconfigured broker must fail fast, not per launch" (config.go:63-64): no
\* launch of a broker that serves is turned down over its configuration, as a TTL
\* that no gateway takes is (preflight.go:89-91).
FailsFastNotPerLaunch == verdict # "alert"
=============================================================================
