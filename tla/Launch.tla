------------------------------- MODULE Launch -------------------------------
(***************************************************************************)
(* Broker.Launch and its HTTP handler, run for several clicks at once      *)
(* against a farm of gateway instances, with the player that uses the      *)
(* answer and a world that moves underneath: hosts re-declare a            *)
(* workspace's target and password, base URLs come to lead somewhere else, *)
(* instances restart and lose what they kept in memory, requests and       *)
(* replies get lost or handled late.                                       *)
(*                                                                         *)
(* A broker action is the code between two calls that leave the process.   *)
(* Random identifiers are fresh by construction (NewGuid), signatures are  *)
(* not modelled: a token is its claims.                                    *)
(***************************************************************************)
EXTENDS PreflightReply, Selection

CONSTANTS
    Clicks,          \* the requests POST /rdp-launch?ws=... served
    Workspaces,
    WorkspaceOf,     \* the workspace id in each request
    Instances,       \* gateway processes
    GatewayId,       \* the UUID each is configured with, or NoId
    NoId,            \* also: a token without jet_gw_id
    Urls,            \* base URLs
    Nobody,          \* what a URL leads to when connections are refused,
    BlackHole,       \* and when they hang
    NoFront,         \* a farm entry without BrowserURL
    Farm,            \* each workspace's declared farm
    NoDomain,
    IdentityDomain,  \* Identity.Domain of each click's user, or NoDomain
    Realm,           \* Config.Realm, or NoDomain
    ClientTimeout,   \* whether the broker's http.Client has a timeout
    Routes,          \* where the base URLs may lead to begin with
    MaxGen,          \* bound: declarations of a workspace's target and password
    MaxMoves         \* bound: changes of routes and restarts of instances

Gateway == [url : Urls, front : Urls \cup {NoFront}, weight : Int]

ASSUME LaunchAssumption ==
    /\ WorkspaceOf \in [Clicks -> Workspaces]
    /\ Instances \cap {Nobody, BlackHole} = {}
    /\ NoFront \notin Urls
    /\ Farm \in [Workspaces -> Seq(Gateway)]
    /\ Routes \subseteq [Urls -> Instances \cup {Nobody, BlackHole}]
    /\ MaxGen \in Nat \ {0} /\ MaxMoves \in Nat
    /\ ClientTimeout \in BOOLEAN

VARIABLES
    (* Launch's locals, per click *)
    pc,        \* which external call the launch is at, or how it ended
    target,    \* the declaration the target was read from; 0: not read
    password,  \* the declaration the password was read from; 0: not read
    next,      \* selectGateway: the next candidate to probe
    alive,     \* selectGateway: the members that survived so far
    chosen,    \* the chosenGateway
    (* the preflight request of each click, and its reply on the way back *)
    post, reply,
    (* the gateways and the players *)
    vault,     \* per instance: the credential mappings in its memory
    lost,      \* history: the mappings its restarts wiped
    open,      \* the RDP sessions that are up
    played,    \* the clicks whose descriptor a player has used
    (* who was told what, item by item: <<what it is, its value>> *)
    sent,      \* history: what each launch sent to gateways, URLs included
    answer,    \* what the handler wrote to the browser of each click
    (* the world *)
    route,     \* where each base URL leads
    gen,       \* the current declaration of each workspace
    moves

locals == <<target, password, next, alive, chosen>>
wire == <<post, reply>>
players == <<open, played>>
talk == <<sent, answer>>
world == <<route, gen, moves>>
vars == <<pc, locals, wire, vault, lost, players, talk, world>>

NoGateway == [url |-> NoFront, front |-> NoFront, id |-> NoId, name |-> Nobody]
NoReply == [status |-> "none", outputs |-> <<>>]

Running == {"target", "secret", "farm", "probe", "await", "provisioned"}
Ended == {"done", "failed"}

-----------------------------------------------------------------------------
(* What a launch mints and sends.  All of it is a function of the launch's *)
(* locals, which no longer change once the preflight request is out.       *)

\* Bug: identifiers derived from the workspace instead of drawn at random.
NewGuidPerWorkspace(c, use) == <<WorkspaceOf[c], use>>

\* uuid.NewString() in Launch, mintAssociation and the preflight operation.
NewGuid(c, use) == <<c, use>>

Proxy(c) == [username |-> NewGuid(c, "username"), password |-> NewGuid(c, "password")]

\* The domain of formatUsername: the identity's own, else the realm.
QualifiedDomain(c) == IF IdentityDomain[c] # NoDomain THEN IdentityDomain[c] ELSE Realm

\* DOMAIN\user and the password that was read.  The password stands for the
\* declaration it came from.
TargetCred(c) ==
    [workspace |-> WorkspaceOf[c], gen |-> password[c], domain |-> QualifiedDomain(c)]

AssocJti(c) == NewGuid(c, "jti")

\* mintAssociation: `dst` stands for dst_hst, the target of a declaration.
Association(c) ==
    [jti |-> AssocJti(c),
     dst |-> [workspace |-> WorkspaceOf[c], gen |-> target[c]],
     gw |-> chosen[c].id]

\* Bug: the scope token is minted like the heartbeat's, for any gateway.
UnboundScope(c) == [scope |-> "gateway.preflight", gw |-> NoId]

PreflightScope(c) == [scope |-> "gateway.preflight", gw |-> chosen[c].id]

KdcToken(c) == [cred |-> AssocJti(c), gw |-> chosen[c].id]

\* Bug: the address of the first declared member, not of the chosen one.
BrowserBaseFirst(c) ==
    LET g == Farm[WorkspaceOf[c]][1] IN IF g.front # NoFront THEN g.front ELSE g.url

BrowserBase(c) == IF chosen[c].front # NoFront THEN chosen[c].front ELSE chosen[c].url

\* Bug: the KDC proxy URL is built from the address the broker itself uses.
KdcUrlServerFacing(c) == [base |-> chosen[c].url, token |-> KdcToken(c)]

KdcUrl(c) == [base |-> BrowserBase(c), token |-> KdcToken(c)]

\* The part of the LaunchResult a gateway checks, and where it is presented.
\* Kerberos is needed when the username carries a domain.
Descriptor(c) ==
    [gateway |-> BrowserBase(c),
     assoc   |-> Association(c),
     proxy   |-> Proxy(c),
     kdc     |-> IF QualifiedDomain(c) # NoDomain THEN {KdcUrl(c)} ELSE {}]

\* The mapping a provision-credentials operation stores, keyed by the jti.
Mapping(c) == [jti |-> AssocJti(c), proxy |-> Proxy(c), cred |-> TargetCred(c)]

-----------------------------------------------------------------------------
(* Who is told what.                                                       *)

HeartbeatScope == [scope |-> "gateway.heartbeat.read", gw |-> NoId]

\* A probe of the gateway g.
HeartbeatCall(g) == {<<"url", g.url>>, <<"scope", HeartbeatScope>>}

\* The preflight request.
PreflightCall(c) ==
    {<<"url", chosen[c].url>>, <<"scope", PreflightScope(c)>>,
     <<"assoc", Association(c)>>, <<"proxy", Proxy(c)>>, <<"cred", TargetCred(c)>>}

\* The whole LaunchResult: what a gateway checks, the WEBAPP token, and the rows
\* the player shows (target, gateway name, user and domain).
LaunchResult(c) ==
    LET d == Descriptor(c) IN
    {<<"url", d.gateway>>, <<"assoc", d.assoc>>, <<"proxy", d.proxy>>,
     <<"webapp", c>>, <<"target", d.assoc.dst>>, <<"name", chosen[c].name>>,
     <<"user", c>>, <<"domain", QualifiedDomain(c)>>}
      \cup {<<"url", k.base>> : k \in d.kdc} \cup {<<"kdc", k.token>> : k \in d.kdc}

\* What the text of an error carries.  A failed request names the URL it was sent
\* to, with the scope token in its query; a rejected one quotes the reply.
ResolverError == {<<"text", "resolver">>}
SelectionError == {<<"text", "no usable gateway">>}
MintError == {<<"text", "key or randomness">>}
RequestError(c) == {<<"url", chosen[c].url>>, <<"scope", PreflightScope(c)>>}
ReplyError(c) == {<<"payload", reply[c]>>}

\* Bug: the handler passes err.Error() to http.Error.
HandlerErrorEchoed(err) == err

HandlerError(err) == {<<"text", "rdp launch failed">>}

-----------------------------------------------------------------------------
(* The gateway, as the code in src/ relies on it.                          *)

\* A token is good for an instance if it is bound to it, or to none, or if the
\* instance has no id to compare with.
TokenAccepted(i, gw) == gw = NoId \/ GatewayId[i] = NoId \/ gw = GatewayId[i]

\* What instance i checks when a player presents descriptor d, and mapping m is
\* the one it looks up: the association token's binding and jti, the proxy
\* credential and, for a domain credential, the KDC token.
Admits(i, d, m) ==
    /\ TokenAccepted(i, d.assoc.gw)
    /\ m.jti = d.assoc.jti
    /\ m.proxy = d.proxy
    /\ m.cred.domain # NoDomain =>
          \E k \in d.kdc : k.token.cred = m.jti /\ TokenAccepted(i, k.token.gw)

Ack == [own |-> TRUE, kind |-> "ack", info |-> FALSE]
Replaced == [own |-> TRUE, kind |-> "alert", info |-> TRUE]
Alert == [own |-> TRUE, kind |-> "alert", info |-> FALSE]
Body(outputs) == [status |-> "ok", outputs |-> outputs]
Unauthorized == [status |-> "refused", outputs |-> <<>>]
NotJson == [status |-> "garbled", outputs |-> <<>>]

\* The running_session_count a heartbeat reports.
RunningSessions(i) == Cardinality({s \in open : s.at = i})

-----------------------------------------------------------------------------
Init ==
    /\ pc = [c \in Clicks |-> "idle"]
    /\ target = [c \in Clicks |-> 0]
    /\ password = [c \in Clicks |-> 0]
    /\ next = [c \in Clicks |-> 1]
    /\ alive = [c \in Clicks |-> <<>>]
    /\ chosen = [c \in Clicks |-> NoGateway]
    /\ post = [c \in Clicks |-> "unsent"]
    /\ reply = [c \in Clicks |-> NoReply]
    /\ vault = [i \in Instances |-> {}]
    /\ lost = [i \in Instances |-> {}]
    /\ open = {}
    /\ played = {}
    /\ sent = [c \in Clicks |-> {}]
    /\ answer = [c \in Clicks |-> {}]
    /\ route \in Routes
    /\ gen = [w \in Workspaces |-> 1]
    /\ moves = 0

Goto(c, where) == pc' = [pc EXCEPT ![c] = where]

\* Launch returns an error, and the handler answers.
Fails(c, err) ==
    /\ Goto(c, "failed")
    /\ answer' = [answer EXCEPT ![c] = HandlerError(err)]

Sends(c, call) == sent' = [sent EXCEPT ![c] = @ \cup call]

Candidates(c) == Farm[WorkspaceOf[c]]

-----------------------------------------------------------------------------
(* Launch up to the selection of a gateway.                                *)

ResolveIdentity(c) ==
    /\ pc[c] = "idle"
    /\ Goto(c, "target")
    /\ UNCHANGED <<locals, wire, vault, lost, players, talk, world>>

ResolveTarget(c) ==
    /\ pc[c] = "target"
    /\ target' = [target EXCEPT ![c] = gen[WorkspaceOf[c]]]
    /\ Goto(c, "secret")
    /\ UNCHANGED <<password, next, alive, chosen, wire, vault, lost, players, talk, world>>

\* Bug: a password read once is kept and used for every later launch.
ReadSecretCached(c) ==
    /\ pc[c] = "secret"
    /\ password' = [password EXCEPT ![c] = 1]
    /\ Goto(c, "farm")
    /\ UNCHANGED <<target, next, alive, chosen, wire, vault, lost, players, talk, world>>

ReadSecret(c) ==
    /\ pc[c] = "secret"
    /\ password' = [password EXCEPT ![c] = gen[WorkspaceOf[c]]]
    /\ Goto(c, "farm")
    /\ UNCHANGED <<target, next, alive, chosen, wire, vault, lost, players, talk, world>>

ResolveGateways(c) ==
    /\ pc[c] = "farm"
    /\ \/ Candidates(c) # <<>> /\ Goto(c, "probe") /\ UNCHANGED answer
       \/ Candidates(c) = <<>> /\ Fails(c, SelectionError)
    /\ UNCHANGED <<locals, wire, vault, lost, players, sent, world>>

\* One of the four resolvers returns an error.
ResolverFails(c) ==
    /\ pc[c] \in {"idle", "target", "secret", "farm"}
    /\ Fails(c, ResolverError)
    /\ UNCHANGED <<locals, wire, vault, lost, players, sent, world>>

Probing(c) == pc[c] = "probe" /\ next[c] <= Len(Candidates(c))

\* The candidate that is up.
Candidate(c) == Candidates(c)[next[c]]

Advance(c) == next' = [next EXCEPT ![c] = @ + 1]

\* A member with weight <= 0 is not even probed.
SkipWeightless(c) ==
    /\ Probing(c)
    /\ Candidate(c).weight <= 0
    /\ Advance(c)
    /\ UNCHANGED <<pc, target, password, alive, chosen, wire, vault, lost, players, talk, world>>

\* Bug: the default client is http.DefaultClient, which has no timeout.
MayFailInTime(url) == route[url] # BlackHole

\* A request to url can come back as an error: it is refused or reset, or the
\* client's timeout fires.  Without a timeout a black hole returns nothing.
MayFail(url) == ClientTimeout \/ route[url] # BlackHole

\* The heartbeat fails, or the instance that answers it has no id.
ProbeDead(c) ==
    /\ Probing(c)
    /\ Candidate(c).weight > 0
    /\ MayFail(Candidate(c).url)
    /\ Advance(c)
    /\ Sends(c, HeartbeatCall(Candidate(c)))
    /\ UNCHANGED <<pc, target, password, alive, chosen, wire, vault, lost, players, answer, world>>

\* Bug: the id of the heartbeat is not looked at.
ProbeAliveAnyId(c) ==
    /\ Probing(c)
    /\ Candidate(c).weight > 0
    /\ LET i == route[Candidate(c).url] IN
         /\ i \in Instances
         /\ alive' = [alive EXCEPT ![c] = Append(@,
                        [gateway  |-> Candidate(c),
                         weight   |-> Candidate(c).weight,
                         id       |-> GatewayId[i],
                         name     |-> i,
                         sessions |-> RunningSessions(i)])]
    /\ Advance(c)
    /\ Sends(c, HeartbeatCall(Candidate(c)))
    /\ UNCHANGED <<pc, target, password, chosen, wire, vault, lost, players, answer, world>>

\* The instance the base URL leads to answers with its id, its hostname (the
\* instance stands for it) and its load.
ProbeAlive(c) ==
    /\ Probing(c)
    /\ Candidate(c).weight > 0
    /\ LET i == route[Candidate(c).url] IN
         /\ i \in Instances
         /\ GatewayId[i] # NoId
         /\ alive' = [alive EXCEPT ![c] = Append(@,
                        [gateway  |-> Candidate(c),
                         weight   |-> Candidate(c).weight,
                         id       |-> GatewayId[i],
                         name     |-> i,
                         sessions |-> RunningSessions(i)])]
    /\ Advance(c)
    /\ Sends(c, HeartbeatCall(Candidate(c)))
    /\ UNCHANGED <<pc, target, password, chosen, wire, vault, lost, players, answer, world>>

Probed(c) == pc[c] = "probe" /\ next[c] > Len(Candidates(c))

NoUsableGateway(c) ==
    /\ Probed(c)
    /\ alive[c] = <<>>
    /\ Fails(c, SelectionError)
    /\ UNCHANGED <<locals, wire, vault, lost, players, sent, world>>

-----------------------------------------------------------------------------
(* Provisioning.                                                           *)

\* Pick a member of the minimum group, mint the association and scope tokens
\* for it and send the preflight request.  selectGateway's locals go out of
\* scope.
ChooseAndPost(c) ==
    /\ Probed(c)
    /\ \E k \in MinGroup(alive[c]) :
         chosen' = [chosen EXCEPT ![c] =
                      [url   |-> alive[c][k].gateway.url,
                       front |-> alive[c][k].gateway.front,
                       id    |-> alive[c][k].id,
                       name  |-> alive[c][k].name]]
    /\ post' = [post EXCEPT ![c] = "inflight"]
    /\ alive' = [alive EXCEPT ![c] = <<>>]
    /\ next' = [next EXCEPT ![c] = 1]
    /\ Goto(c, "await")
    /\ UNCHANGED <<target, password, reply, vault, lost, players, answer, world>>
    /\ Sends(c, PreflightCall(c)')

\* The request of click c reaches an instance, in time or after the launch has
\* given up on it.
Reaches(c, i) == post[c] = "inflight" /\ route[chosen[c].url] = i

\* The reply travels back only if the launch is still waiting for it.
Answer(c, r) ==
    /\ post' = [post EXCEPT ![c] = "handled"]
    /\ reply' = [reply EXCEPT ![c] = IF pc[c] = "await" THEN r ELSE NoReply]

\* The instance stores the mapping, in place of one with the same jti.
GatewayProvisions(c, i) ==
    /\ Reaches(c, i)
    /\ TokenAccepted(i, PreflightScope(c).gw)
    /\ LET old == {m \in vault[i] : m.jti = Mapping(c).jti} IN
         /\ vault' = [vault EXCEPT ![i] = (@ \ old) \cup {Mapping(c)}]
         /\ Answer(c, Body(IF old = {} THEN <<Ack>> ELSE <<Replaced, Ack>>))
    /\ UNCHANGED <<pc, locals, lost, players, talk, world>>

\* The instance stores nothing: the scope token is not for it, the operation
\* fails (an alert in a 200), or something else answers in its place.
GatewayRefuses(c, i) ==
    /\ Reaches(c, i)
    /\ \E r \in {Unauthorized, NotJson, Body(<<Alert>>)} :
         /\ r = Body(<<Alert>>) => TokenAccepted(i, PreflightScope(c).gw)
         /\ Answer(c, r)
    /\ UNCHANGED <<pc, locals, vault, lost, players, talk, world>>

\* The request or its reply is lost, or the timeout fires first.
PreflightFails(c) ==
    /\ pc[c] = "await"
    /\ MayFail(chosen[c].url)
    /\ reply' = [reply EXCEPT ![c] = NoReply]
    /\ Fails(c, RequestError(c))
    /\ UNCHANGED <<locals, post, vault, lost, players, sent, world>>

\* The reply is read and provisionCredentials returns (see PreflightLoop).
PreflightReturns(c) ==
    /\ pc[c] = "await"
    /\ reply[c] # NoReply
    /\ \/ Accepted(reply[c]) /\ Goto(c, "provisioned") /\ UNCHANGED answer
       \/ ~Accepted(reply[c]) /\ Fails(c, ReplyError(c))
    /\ reply' = [reply EXCEPT ![c] = NoReply]
    /\ UNCHANGED <<locals, post, vault, lost, players, sent, world>>

\* The client goes away: its context ends the request that is out, and those
\* after it before they are sent.
Cancel(c) ==
    /\ \/ pc[c] = "await" /\ Fails(c, RequestError(c)) /\ UNCHANGED sent
       \/ Probed(c) /\ Fails(c, SelectionError) /\ UNCHANGED sent
       \/ /\ Probing(c)
          /\ Fails(c, SelectionError)
          /\ Sends(c, IF Candidate(c).weight > 0 THEN HeartbeatCall(Candidate(c)) ELSE {})
    /\ reply' = [reply EXCEPT ![c] = NoReply]
    /\ UNCHANGED <<locals, post, vault, lost, players, world>>

\* Signing or drawing randomness fails, before the request or after the ack.
MintFails(c) ==
    /\ pc[c] = "provisioned" \/ (Probed(c) /\ alive[c] # <<>>)
    /\ Fails(c, MintError)
    /\ UNCHANGED <<locals, wire, vault, lost, players, sent, world>>

\* The remaining tokens are minted and the browser gets the LaunchResult.
Deliver(c) ==
    /\ pc[c] = "provisioned"
    /\ Goto(c, "done")
    /\ answer' = [answer EXCEPT ![c] = LaunchResult(c)]
    /\ UNCHANGED <<locals, wire, vault, lost, players, sent, world>>

-----------------------------------------------------------------------------
(* The player and the world.                                               *)

\* A player presents its descriptor where the gateway URL leads, once; the KDC
\* leg has to lead to the same instance, whose memory has the mapping.
Connect(c) ==
    /\ pc[c] = "done"
    /\ c \notin played
    /\ LET i == route[Descriptor(c).gateway] IN
         /\ i \in Instances
         /\ \A k \in Descriptor(c).kdc : route[k.base] = i
         /\ \E m \in vault[i] :
              /\ Admits(i, Descriptor(c), m)
              /\ open' = open \cup {[click |-> c, at |-> i,
                                     dst |-> Association(c).dst, cred |-> m.cred]}
    /\ played' = played \cup {c}
    /\ UNCHANGED <<pc, locals, wire, vault, lost, talk, world>>

EndSession(s) ==
    /\ open' = open \ {s}
    /\ UNCHANGED <<pc, locals, wire, vault, lost, played, talk, world>>

Redeclare(w) ==
    /\ gen[w] < MaxGen
    /\ gen' = [gen EXCEPT ![w] = @ + 1]
    /\ UNCHANGED <<pc, locals, wire, vault, lost, players, talk, route, moves>>

Reroute(u) ==
    /\ moves < MaxMoves
    /\ \E to \in (Instances \cup {Nobody, BlackHole}) \ {route[u]} :
         route' = [route EXCEPT ![u] = to]
    /\ moves' = moves + 1
    /\ UNCHANGED <<pc, locals, wire, vault, lost, players, talk, gen>>

Restart(i) ==
    /\ moves < MaxMoves
    /\ vault' = [vault EXCEPT ![i] = {}]
    /\ lost' = [lost EXCEPT ![i] = @ \cup vault[i]]
    /\ open' = {s \in open : s.at # i}
    /\ moves' = moves + 1
    /\ UNCHANGED <<pc, locals, wire, played, talk, route, gen>>

-----------------------------------------------------------------------------
\* A step of Launch itself.
Broker(c) ==
    \/ ResolveIdentity(c) \/ ResolveTarget(c) \/ ReadSecret(c) \/ ResolveGateways(c)
    \/ ResolverFails(c)
    \/ SkipWeightless(c) \/ ProbeDead(c) \/ ProbeAlive(c) \/ NoUsableGateway(c)
    \/ ChooseAndPost(c) \/ PreflightFails(c) \/ PreflightReturns(c)
    \/ MintFails(c) \/ Deliver(c)

GatewayStep(c) == \E i \in Instances : GatewayProvisions(c, i) \/ GatewayRefuses(c, i)

World ==
    \/ \E s \in open : EndSession(s)
    \/ \E w \in Workspaces : Redeclare(w)
    \/ \E u \in Urls : Reroute(u)
    \/ \E i \in Instances : Restart(i)

Next ==
    \/ \E c \in Clicks : Broker(c) \/ Cancel(c) \/ GatewayStep(c) \/ Connect(c)
    \/ World

Spec == Init /\ [][Next]_vars

\* A launch in progress takes its next step when it can: it is a goroutine, and
\* what it waits for returns or times out.  Nobody has to click, to cancel or to
\* play.  A gateway that was reached answers.
Progress(c) == pc[c] # "idle" /\ Broker(c)

Fairness ==
    \A c \in Clicks : WF_vars(Progress(c)) /\ WF_vars(GatewayStep(c))

FairSpec == Spec /\ Fairness

-----------------------------------------------------------------------------
Gens == 1..MaxGen
Guids == {NewGuid(c, use) : c \in Clicks, use \in {"username", "password", "jti"}}
Creds == [workspace : Workspaces, gen : Gens, domain : {QualifiedDomain(c) : c \in Clicks}]
Mappings == [jti : Guids, proxy : [username : Guids, password : Guids], cred : Creds]
Ids == {GatewayId[i] : i \in Instances} \ {NoId}
Sessions ==
    [click : Clicks, at : Instances,
     dst : [workspace : Workspaces, gen : Gens], cred : Creds]
Chosen == [url : Urls, front : Urls \cup {NoFront}, id : Ids, name : Instances]
Survivor ==
    [gateway : Gateway, weight : Nat \ {0}, id : Ids, name : Instances, sessions : Nat]

\* Per click a set of items; what they are is left to ServerSideOnly.
TalkType ==
    sent = [c \in Clicks |-> sent[c]] /\ answer = [c \in Clicks |-> answer[c]]

TypeOK ==
    /\ pc \in [Clicks -> {"idle"} \cup Running \cup Ended]
    /\ target \in [Clicks -> Gens \cup {0}]
    /\ password \in [Clicks -> Gens \cup {0}]
    /\ next \in [Clicks -> Nat]
    /\ \A c \in Clicks : next[c] \in 1..Len(Candidates(c)) + 1
    /\ alive \in [Clicks -> Seq(Survivor)]
    /\ chosen \in [Clicks -> Chosen \cup {NoGateway}]
    /\ post \in [Clicks -> {"unsent", "inflight", "handled"}]
    /\ reply \in [Clicks -> Replies \cup {NoReply}]
    /\ vault \in [Instances -> SUBSET Mappings]
    /\ lost \in [Instances -> SUBSET Mappings]
    /\ open \subseteq Sessions
    /\ played \subseteq Clicks
    /\ TalkType
    /\ route \in [Urls -> Instances \cup {Nobody, BlackHole}]
    /\ gen \in [Workspaces -> Gens]
    /\ moves \in 0..MaxMoves

\* "We never hand the player a token whose credential mapping was silently never
\* stored" (preflight.go:93-94).  Once provisioning has succeeded, some instance
\* stored this launch's own credential and would admit a player holding the
\* descriptor - unless that very instance has restarted since.  Lost and late
\* replies, alerts in a 200, base URLs that moved between the heartbeat and the
\* preflight request, and other launches do not matter.
DeliveredIsServed ==
    \A c \in Clicks : pc[c] \in {"provisioned", "done"} =>
        \E i \in Instances : \E m \in vault[i] \cup lost[i] :
            m.cred = TargetCred(c) /\ Admits(i, Descriptor(c), m)

\* "The player MUST reach the exact instance we preflighted" (farm.go:22): as
\* long as nothing has moved and the browser-facing address leads where the
\* server-facing one does, the instance behind the gateway URL admits the player,
\* and the KDC proxy URL leads to that instance too.
PlayerReachesItsInstance ==
    \A c \in Clicks :
        /\ pc[c] = "done" /\ moves = 0
        /\ chosen[c].front # NoFront => route[chosen[c].front] = route[chosen[c].url]
        => LET i == route[Descriptor(c).gateway] IN
             /\ i \in Instances /\ \E m \in vault[i] : Admits(i, Descriptor(c), m)
             /\ \A k \in Descriptor(c).kdc : route[k.base] = i

\* A session runs under the credential its own launch read, never under one that
\* another launch put into the same gateway, whatever order the preflights of
\* concurrent clicks are handled in (jetbroker.go:116-128, token.go:67-73).
NoForeignSession == \A s \in open : s.cred = TargetCred(s.click)

\* The password a session logs on with is never older than the target it logs on
\* to: it is read after the target, and anew for every launch (jetbroker.go:26-27
\* and 103-111), whenever the workspace is re-declared.
PasswordNotOlderThanTarget == \A s \in open : s.cred.gen >= s.dst.gen

\* What the browser of click c may know of all the launches send to gateways: the
\* addresses its workspace's farm has for browsers, and its own launch's
\* association token and proxy credential.
BrowserAddress(g) == IF g.front # NoFront THEN g.front ELSE g.url
ForBrowser(c) ==
    {<<"url", BrowserAddress(g)>> : g \in Range(Candidates(c))}
      \cup {<<"assoc", Association(c)>>, <<"proxy", Proxy(c)>>}

\* However a launch ends, no browser is told anything that any launch sent to a
\* gateway, except what is for that browser: no real credential, no scope token,
\* no server-facing address in any URL or error, nothing of a launch that runs
\* concurrently (http.go:35-39 and 50-56; ports.go:41-50; jetbroker.go:65-66 and
\* 160-199).
ServerSideOnly == \A c, d \in Clicks : answer[c] \cap sent[d] \subseteq ForBrowser(c)

-----------------------------------------------------------------------------
\* The launches implement LaunchPromise.
Phases ==
    [c \in Clicks |-> CASE pc[c] = "done" -> "delivered"
                       [] pc[c] = "failed" -> "failed"
                       [] OTHER -> "pending"]
Held == [c \in Clicks |-> {i \in Instances : Mapping(c) \in vault[i]}]
Forgotten == [c \in Clicks |-> {i \in Instances : Mapping(c) \in lost[i]}]
Up == {<<s.click, s.at>> : s \in open}

Promise == INSTANCE LaunchPromise WITH
    phase <- Phases, held <- Held, forgotten <- Forgotten, sessions <- Up

\* Every step of the launches, the gateways and the world is a step the abstract
\* specification allows: one outcome per click, no descriptor without a stored
\* credential, no session of a failed or unfinished launch, no session where the
\* credential is not, no second copy of a credential (jetbroker.go:92-199).
ImplementsPromise == Promise!Spec

\* Every click is answered, with a descriptor or an error, even when a gateway
\* hangs (jetbroker.go:52-55).
EveryClickAnswered == \A c \in Clicks : pc[c] \in Running ~> pc[c] \in Ended
=============================================================================
