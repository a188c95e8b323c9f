---------------------------- MODULE LaunchProofs ----------------------------
(***************************************************************************)
(* Safety of the launches for any number of clicks, workspaces, gateway    *)
(* instances and base URLs, any farms, and any number of moves; and that   *)
(* they implement LaunchPromise.                                           *)
(***************************************************************************)
EXTENDS Launch, FiniteSetTheorems, TLAPS

BeforePost == {"idle", "target", "secret", "farm", "probe"}

\* Where a launch stands and what its locals hold by then.
PhaseInv ==
    /\ IsFiniteSet(open)
    /\ \A c \in Clicks :
          /\ pc[c] \in BeforePost => post[c] = "unsent"
          /\ pc[c] \in {"await", "provisioned", "done"} => post[c] # "unsent"
          /\ pc[c] = "secret" => target[c] \in 1..gen[WorkspaceOf[c]]
          /\ pc[c] \in {"farm", "probe"} \/ post[c] # "unsent" =>
               /\ target[c] \in Gens /\ password[c] \in Gens
               /\ target[c] <= password[c]
          /\ post[c] # "unsent" => chosen[c].id \in Ids

\* What the instances hold or held came from a preflight request of a launch.
StoreInv ==
    \A i \in Instances : \A m \in vault[i] \cup lost[i] :
        \E c \in Clicks : post[c] = "handled" /\ m = Mapping(c)

\* Instance i took the credential of click c, and is one the tokens are good for.
Served(c) ==
    \E i \in Instances :
        Mapping(c) \in vault[i] \cup lost[i] /\ TokenAccepted(i, chosen[c].id)

\* An accepted reply on its way back, and all that follows it, rests on a stored
\* credential.
ServedInv ==
    \A c \in Clicks :
        /\ pc[c] # "await" => reply[c] = NoReply
        /\ pc[c] = "await" /\ Accepted(reply[c]) => Served(c)
        /\ pc[c] \in {"provisioned", "done"} => Served(c)

SessionInv ==
    /\ \A s \in open :
          /\ pc[s.click] = "done"
          /\ s.cred = TargetCred(s.click)
          /\ s.dst.gen = target[s.click]
          /\ s.click \in played
    /\ \A s, t \in open : s.click = t.click => s = t

Inv == TypeOK /\ PhaseInv /\ StoreInv /\ ServedInv /\ SessionInv

-----------------------------------------------------------------------------
(* Lemmas *)

LEMMA RepliesType ==
    /\ Body(<<Ack>>) \in Replies /\ Body(<<Replaced, Ack>>) \in Replies
    /\ Body(<<Alert>>) \in Replies /\ Unauthorized \in Replies /\ NotJson \in Replies
  <1>1. Ack \in Output /\ Replaced \in Output /\ Alert \in Output
    BY DEF Ack, Replaced, Alert, Output
  <1>2. /\ <<Ack>> \in Seq(Output) /\ <<Replaced, Ack>> \in Seq(Output)
        /\ <<Alert>> \in Seq(Output) /\ <<>> \in Seq(Output)
    BY <1>1
  <1>. QED
    BY <1>2 DEF Body, Unauthorized, NotJson, Replies

\* None of the refusals passes for success, and neither does no reply at all.
LEMMA RefusalsRejected ==
    /\ ~Accepted(Unauthorized) /\ ~Accepted(NotJson)
    /\ ~Accepted(Body(<<Alert>>)) /\ ~Accepted(NoReply)
  <1>1. ~Accepted(Unauthorized) /\ ~Accepted(NotJson) /\ ~Accepted(NoReply)
    BY DEF Accepted, Unauthorized, NotJson, NoReply
  <1>2. ~Accepted(Body(<<Alert>>))
    BY DEF Accepted, Body, OwnRejection, Alert
  <1>. QED
    BY <1>1, <1>2

LEMMA GroupIsAlive == \A ms : MinGroup(ms) \subseteq DOMAIN ms
  BY DEF MinGroup

LEMMA GuidsDiffer ==
    ASSUME NEW c, NEW d, NEW use, NewGuid(c, use) = NewGuid(d, use)
    PROVE  c = d
  BY DEF NewGuid

LEMMA CandidateType ==
    ASSUME TypeOK, NEW c \in Clicks, Probing(c)
    PROVE  Candidate(c) \in Gateway
  <1>1. Candidates(c) \in Seq(Gateway)
    BY LaunchAssumption DEF Candidates
  <1>2. next[c] \in 1..Len(Candidates(c))
    BY <1>1 DEF TypeOK, Probing
  <1>. QED
    BY <1>1, <1>2 DEF Candidate

LEMMA SessionCount ==
    ASSUME IsFiniteSet(open), NEW i
    PROVE  RunningSessions(i) \in Nat
  <1>1. IsFiniteSet({s \in open : s.at = i})
    BY FS_Subset
  <1>. QED
    BY <1>1, FS_CardinalityType DEF RunningSessions

-----------------------------------------------------------------------------
LEMMA InvInit == Init => Inv
  <1>. SUFFICES ASSUME Init PROVE Inv
    OBVIOUS
  <1>. USE DEF Init
  <1>1. TypeOK
    <2>1. \A c \in Clicks : 1 \in 1..Len(Candidates(c)) + 1
      <3>1. \A c \in Clicks : Len(Candidates(c)) \in Nat
        BY LaunchAssumption DEF Candidates
      <3>. QED
        BY <3>1
    <2>2. next \in [Clicks -> Nat] /\ \A c \in Clicks : next[c] \in 1..Len(Candidates(c)) + 1
      BY <2>1
    <2>3. pc \in [Clicks -> {"idle"} \cup Running \cup Ended]
      OBVIOUS
    <2>4. gen \in [Workspaces -> Gens] /\ moves \in 0..MaxMoves
      BY LaunchAssumption DEF Gens
    <2>5. route \in [Urls -> Instances \cup {Nobody, BlackHole}]
      BY LaunchAssumption
    <2>6. alive \in [Clicks -> Seq(Survivor)]
      OBVIOUS
    <2>7. TalkType
      BY DEF TalkType
    <2>. QED
      BY <2>2, <2>3, <2>4, <2>5, <2>6, <2>7 DEF TypeOK
  <1>2. PhaseInv
    BY FS_EmptySet DEF PhaseInv
  <1>3. StoreInv
    BY DEF StoreInv
  <1>4. ServedInv
    BY DEF ServedInv
  <1>5. SessionInv
    BY DEF SessionInv
  <1>. QED
    BY <1>1, <1>2, <1>3, <1>4, <1>5 DEF Inv

-----------------------------------------------------------------------------
(* Types *)

\* A step of the launch's own that only moves its pc and drops its reply.
LEMMA TypeMove ==
    ASSUME TypeOK, TalkType', NEW c \in Clicks, NEW where \in Running \cup Ended,
           Goto(c, where), UNCHANGED <<locals, post, vault, lost, players, world>>,
           reply' = reply \/ reply' = [reply EXCEPT ![c] = NoReply]
    PROVE  TypeOK'
  <1>1. pc' \in [Clicks -> {"idle"} \cup Running \cup Ended]
    BY DEF TypeOK, Goto
  <1>2. reply' \in [Clicks -> Replies \cup {NoReply}]
    BY DEF TypeOK
  <1>. QED
    BY <1>1, <1>2 DEF TypeOK, locals, players, world, Candidates

LEMMA TypeResolve ==
    ASSUME TypeOK, TalkType', NEW c \in Clicks, ResolveTarget(c) \/ ReadSecret(c)
    PROVE  TypeOK'
  <1>. USE DEF wire, players, world
  <1>1. gen[WorkspaceOf[c]] \in Gens
    BY LaunchAssumption DEF TypeOK
  <1>2. CASE ResolveTarget(c)
    <2>1. pc' \in [Clicks -> {"idle"} \cup Running \cup Ended]
      BY <1>2 DEF ResolveTarget, Goto, TypeOK, Running
    <2>2. target' \in [Clicks -> Gens \cup {0}]
      BY <1>1, <1>2 DEF ResolveTarget, TypeOK
    <2>. QED
      BY <1>2, <2>1, <2>2 DEF ResolveTarget, TypeOK, Candidates
  <1>3. CASE ReadSecret(c)
    <2>1. pc' \in [Clicks -> {"idle"} \cup Running \cup Ended]
      BY <1>3 DEF ReadSecret, Goto, TypeOK, Running
    <2>2. password' \in [Clicks -> Gens \cup {0}]
      BY <1>1, <1>3 DEF ReadSecret, TypeOK
    <2>. QED
      BY <1>3, <2>1, <2>2 DEF ReadSecret, TypeOK, Candidates
  <1>. QED
    BY <1>2, <1>3

LEMMA TypeAdvance ==
    ASSUME TypeOK, NEW c \in Clicks, Probing(c), Advance(c)
    PROVE  /\ next' \in [Clicks -> Nat]
           /\ \A d \in Clicks : next'[d] \in 1..Len(Candidates(d)) + 1
  <1>1. \A d \in Clicks : Len(Candidates(d)) \in Nat
    BY LaunchAssumption DEF Candidates
  <1>2. next' = [next EXCEPT ![c] = next[c] + 1] /\ next[c] \in 1..Len(Candidates(c))
    BY <1>1 DEF TypeOK, Probing, Advance
  <1>3. \A d \in Clicks : next'[d] = IF d = c THEN next[c] + 1 ELSE next[d]
    BY <1>2 DEF TypeOK
  <1>4. next' \in [Clicks -> Nat]
    BY <1>2 DEF TypeOK
  <1>. QED
    BY <1>1, <1>2, <1>3, <1>4 DEF TypeOK

LEMMA TypeProbe ==
    ASSUME TypeOK, TalkType', IsFiniteSet(open), NEW c \in Clicks,
           SkipWeightless(c) \/ ProbeDead(c) \/ ProbeAlive(c)
    PROVE  TypeOK'
  <1>. USE DEF wire, players, world
  <1>1. Probing(c) /\ Advance(c)
    BY DEF SkipWeightless, ProbeDead, ProbeAlive
  <1>2. /\ next' \in [Clicks -> Nat]
        /\ \A d \in Clicks : next'[d] \in 1..Len(Candidates(d)) + 1
    BY <1>1, TypeAdvance
  <1>3. alive' \in [Clicks -> Seq(Survivor)]
    <2>1. CASE SkipWeightless(c) \/ ProbeDead(c)
      BY <2>1 DEF SkipWeightless, ProbeDead, TypeOK
    <2>2. CASE ProbeAlive(c)
      <3>. DEFINE at == route[Candidate(c).url]
                  m == [gateway  |-> Candidate(c), weight |-> Candidate(c).weight,
                        id |-> GatewayId[at], name |-> at, sessions |-> RunningSessions(at)]
      <3>1. Candidate(c) \in Gateway /\ Candidate(c).weight > 0
        BY <1>1, <2>2, CandidateType DEF ProbeAlive
      <3>2. Candidate(c).weight \in Nat \ {0}
        BY <3>1 DEF Gateway
      <3>3. at \in Instances /\ GatewayId[at] \in Ids
        BY <2>2 DEF ProbeAlive, Ids
      <3>4. RunningSessions(at) \in Nat
        BY SessionCount
      <3>5. m \in Survivor
        BY <3>1, <3>2, <3>3, <3>4 DEF Survivor
      <3>6. alive' = [alive EXCEPT ![c] = Append(alive[c], m)]
        BY <2>2 DEF ProbeAlive
      <3>7. Append(alive[c], m) \in Seq(Survivor)
        BY <3>5 DEF TypeOK
      <3>. HIDE DEF m
      <3>. QED
        BY <3>6, <3>7 DEF TypeOK
    <2>. QED
      BY <2>1, <2>2
  <1>4. UNCHANGED <<pc, target, password, chosen, wire, vault, lost, players, world>>
    BY DEF SkipWeightless, ProbeDead, ProbeAlive
  <1>. QED
    BY <1>2, <1>3, <1>4 DEF TypeOK, Candidates

\* What selectGateway returns is one of the candidates, with the id its
\* heartbeat reported.
LEMMA ChoiceType ==
    ASSUME TypeOK, NEW c \in Clicks, ChooseAndPost(c)
    PROVE  \E g \in Chosen : chosen' = [chosen EXCEPT ![c] = g]
  <1>1. PICK k \in MinGroup(alive[c]) :
          chosen' = [chosen EXCEPT ![c] =
                      [url   |-> alive[c][k].gateway.url,
                       front |-> alive[c][k].gateway.front,
                       id    |-> alive[c][k].id,
                       name  |-> alive[c][k].name]]
    BY DEF ChooseAndPost
  <1>2. k \in DOMAIN alive[c]
    BY GroupIsAlive
  <1>3. alive[c][k] \in Survivor
    BY <1>2 DEF TypeOK
  <1>4. [url |-> alive[c][k].gateway.url, front |-> alive[c][k].gateway.front,
         id |-> alive[c][k].id, name |-> alive[c][k].name] \in Chosen
    BY <1>3 DEF Survivor, Gateway, Chosen
  <1>. QED
    BY <1>1, <1>4

LEMMA TypeChoose ==
    ASSUME TypeOK, TalkType', NEW c \in Clicks, ChooseAndPost(c)
    PROVE  TypeOK'
  <1>. USE DEF players, world
  <1>1. chosen' \in [Clicks -> Chosen \cup {NoGateway}]
    BY ChoiceType DEF TypeOK
  <1>2. /\ next' \in [Clicks -> Nat]
        /\ \A d \in Clicks : next'[d] \in 1..Len(Candidates(d)) + 1
    <2>1. \A d \in Clicks : Len(Candidates(d)) \in Nat
      BY LaunchAssumption DEF Candidates
    <2>. QED
      BY <2>1 DEF ChooseAndPost, TypeOK
  <1>3. alive' \in [Clicks -> Seq(Survivor)]
    BY DEF ChooseAndPost, TypeOK
  <1>4. pc' \in [Clicks -> {"idle"} \cup Running \cup Ended]
    BY DEF ChooseAndPost, Goto, TypeOK, Running
  <1>5. post' \in [Clicks -> {"unsent", "inflight", "handled"}]
    BY DEF ChooseAndPost, TypeOK
  <1>. QED
    BY <1>1, <1>2, <1>3, <1>4, <1>5 DEF ChooseAndPost, TypeOK, Candidates

LEMMA MappingType ==
    ASSUME NEW c \in Clicks, password[c] \in Gens
    PROVE  Mapping(c) \in Mappings
  <1>1. TargetCred(c) \in Creds
    BY LaunchAssumption DEF TargetCred, Creds
  <1>2. /\ AssocJti(c) \in Guids
        /\ Proxy(c) \in [username : Guids, password : Guids]
    BY DEF AssocJti, Proxy, Guids
  <1>. QED
    BY <1>1, <1>2 DEF Mapping, Mappings

LEMMA TypeGateway ==
    ASSUME TypeOK, TalkType', PhaseInv, NEW c \in Clicks, NEW i \in Instances,
           GatewayProvisions(c, i) \/ GatewayRefuses(c, i)
    PROVE  TypeOK'
  <1>. USE DEF locals, players, world
  <1>1. \E r \in Replies : Answer(c, r)
    BY RepliesType DEF GatewayProvisions, GatewayRefuses
  <1>2. /\ post' \in [Clicks -> {"unsent", "inflight", "handled"}]
        /\ reply' \in [Clicks -> Replies \cup {NoReply}]
    BY <1>1 DEF Answer, TypeOK
  <1>3. vault' \in [Instances -> SUBSET Mappings]
    <2>1. CASE GatewayProvisions(c, i)
      <3>1. post[c] = "inflight"
        BY <2>1 DEF GatewayProvisions, Reaches
      <3>2. Mapping(c) \in Mappings
        BY <3>1, MappingType DEF PhaseInv
      <3>3. vault' = [vault EXCEPT ![i] =
               (vault[i] \ {m \in vault[i] : m.jti = Mapping(c).jti}) \cup {Mapping(c)}]
        BY <2>1 DEF GatewayProvisions
      <3>. QED
        BY <3>2, <3>3 DEF TypeOK
    <2>2. CASE GatewayRefuses(c, i)
      BY <2>2 DEF GatewayRefuses, TypeOK
    <2>. QED
      BY <2>1, <2>2
  <1>4. UNCHANGED <<pc, locals, lost, players, world>>
    BY DEF GatewayProvisions, GatewayRefuses
  <1>. QED
    BY <1>2, <1>3, <1>4 DEF TypeOK, Candidates

LEMMA TypeConnect ==
    ASSUME TypeOK, TalkType', PhaseInv, NEW c \in Clicks, Connect(c)
    PROVE  TypeOK'
  <1>. USE DEF locals, wire, world
  <1>0. PICK i \in Instances : \E m \in vault[i] :
          open' = open \cup {[click |-> c, at |-> i,
                              dst |-> Association(c).dst, cred |-> m.cred]}
    BY DEF Connect
  <1>1. PICK m \in vault[i] :
          open' = open \cup {[click |-> c, at |-> i,
                              dst |-> Association(c).dst, cred |-> m.cred]}
    BY <1>0
  <1>2. m.cred \in Creds
    BY <1>1 DEF TypeOK, Mappings
  <1>3. Association(c).dst \in [workspace : Workspaces, gen : Gens]
    BY LaunchAssumption DEF Connect, PhaseInv, Association
  <1>4. open' \subseteq Sessions
    BY <1>1, <1>2, <1>3 DEF TypeOK, Sessions
  <1>. QED
    BY <1>4 DEF Connect, TypeOK, Candidates

LEMMA TypeWorld ==
    ASSUME TypeOK, TalkType', World
    PROVE  TypeOK'
  <1>. USE DEF locals, wire, players, world, Candidates
  <1>1. ASSUME NEW s \in open, EndSession(s) PROVE TypeOK'
    BY <1>1 DEF EndSession, TypeOK
  <1>2. ASSUME NEW w \in Workspaces, Redeclare(w) PROVE TypeOK'
    <2>1. gen' \in [Workspaces -> Gens]
      <3>1. gen[w] + 1 \in Gens
        BY <1>2, LaunchAssumption DEF Redeclare, TypeOK, Gens
      <3>. QED
        BY <1>2, <3>1 DEF Redeclare, TypeOK
    <2>. QED
      BY <1>2, <2>1 DEF Redeclare, TypeOK
  <1>3. ASSUME NEW u \in Urls, Reroute(u) PROVE TypeOK'
    <2>1. route' \in [Urls -> Instances \cup {Nobody, BlackHole}]
      BY <1>3 DEF Reroute, TypeOK
    <2>2. moves' \in 0..MaxMoves
      BY <1>3, LaunchAssumption DEF Reroute, TypeOK
    <2>. QED
      BY <1>3, <2>1, <2>2 DEF Reroute, TypeOK
  <1>4. ASSUME NEW i \in Instances, Restart(i) PROVE TypeOK'
    <2>1. vault' \in [Instances -> SUBSET Mappings] /\ lost' \in [Instances -> SUBSET Mappings]
      BY <1>4 DEF Restart, TypeOK
    <2>2. moves' \in 0..MaxMoves
      BY <1>4, LaunchAssumption DEF Restart, TypeOK
    <2>3. open' \subseteq Sessions
      BY <1>4 DEF Restart, TypeOK
    <2>. QED
      BY <1>4, <2>1, <2>2, <2>3 DEF Restart, TypeOK
  <1>. QED
    BY <1>1, <1>2, <1>3, <1>4 DEF World

\* Every step leaves sent and answer functions of the clicks.
LEMMA TalkTypeStep ==
    ASSUME TypeOK, [Next]_vars
    PROVE  TalkType'
  <1>. USE DEF talk, Fails, Sends
  <1>1. \/ UNCHANGED sent
        \/ \E c \in Clicks : \E x : sent' = [sent EXCEPT ![c] = x]
    <2>1. ASSUME NEW c \in Clicks, Broker(c) \/ Cancel(c)
          PROVE  UNCHANGED sent \/ \E x : sent' = [sent EXCEPT ![c] = x]
      BY <2>1 DEF Broker, ResolveIdentity, ResolveTarget, ReadSecret, ResolveGateways,
                  ResolverFails, SkipWeightless, ProbeDead, ProbeAlive, NoUsableGateway,
                  ChooseAndPost, PreflightFails, PreflightReturns, MintFails, Deliver, Cancel
    <2>2. ASSUME NEW c \in Clicks, GatewayStep(c) \/ Connect(c)
          PROVE  UNCHANGED sent
      BY <2>2 DEF GatewayStep, GatewayProvisions, GatewayRefuses, Connect
    <2>3. CASE World \/ UNCHANGED vars
      BY <2>3 DEF World, EndSession, Redeclare, Reroute, Restart, vars
    <2>. QED
      BY <2>1, <2>2, <2>3 DEF Next
  <1>2. \/ UNCHANGED answer
        \/ \E c \in Clicks : \E x : answer' = [answer EXCEPT ![c] = x]
    <2>1. ASSUME NEW c \in Clicks, Broker(c) \/ Cancel(c)
          PROVE  UNCHANGED answer \/ \E x : answer' = [answer EXCEPT ![c] = x]
      BY <2>1 DEF Broker, ResolveIdentity, ResolveTarget, ReadSecret, ResolveGateways,
                  ResolverFails, SkipWeightless, ProbeDead, ProbeAlive, NoUsableGateway,
                  ChooseAndPost, PreflightFails, PreflightReturns, MintFails, Deliver, Cancel
    <2>2. ASSUME NEW c \in Clicks, GatewayStep(c) \/ Connect(c)
          PROVE  UNCHANGED answer
      BY <2>2 DEF GatewayStep, GatewayProvisions, GatewayRefuses, Connect
    <2>3. CASE World \/ UNCHANGED vars
      BY <2>3 DEF World, EndSession, Redeclare, Reroute, Restart, vars
    <2>. QED
      BY <2>1, <2>2, <2>3 DEF Next
  <1>3. sent = [c \in Clicks |-> sent[c]] /\ answer = [c \in Clicks |-> answer[c]]
    BY DEF TypeOK, TalkType
  <1>4. sent' = [c \in Clicks |-> sent'[c]]
    BY <1>1, <1>3
  <1>5. answer' = [c \in Clicks |-> answer'[c]]
    BY <1>2, <1>3
  <1>. QED
    BY <1>4, <1>5 DEF TalkType

LEMMA TypeStep == TypeOK /\ PhaseInv /\ [Next]_vars => TypeOK'
  <1>. SUFFICES ASSUME TypeOK, PhaseInv, [Next]_vars PROVE TypeOK'
    OBVIOUS
  <1>0. TalkType'
    BY TalkTypeStep
  <1>1. ASSUME NEW c \in Clicks,
               \/ ResolveIdentity(c) \/ ResolveGateways(c) \/ ResolverFails(c)
               \/ NoUsableGateway(c) \/ MintFails(c) \/ Deliver(c)
               \/ PreflightFails(c) \/ PreflightReturns(c) \/ Cancel(c)
        PROVE  TypeOK'
    <2>1. /\ UNCHANGED <<locals, post, vault, lost, players, world>>
          /\ reply' = reply \/ reply' = [reply EXCEPT ![c] = NoReply]
      BY <1>1 DEF ResolveIdentity, ResolveGateways, ResolverFails, NoUsableGateway,
                  MintFails, Deliver, PreflightFails, PreflightReturns, Cancel, wire
    <2>2. \E where \in Running \cup Ended : Goto(c, where)
      BY <1>1 DEF ResolveIdentity, ResolveGateways, ResolverFails, NoUsableGateway,
                  MintFails, Deliver, PreflightFails, PreflightReturns, Cancel,
                  Running, Ended, Fails
    <2>. QED
      BY <2>1, <2>2, <1>0, TypeMove
  <1>2. ASSUME NEW c \in Clicks, ResolveTarget(c) \/ ReadSecret(c) PROVE TypeOK'
    BY <1>2, <1>0, TypeResolve
  <1>3. ASSUME NEW c \in Clicks, SkipWeightless(c) \/ ProbeDead(c) \/ ProbeAlive(c)
        PROVE  TypeOK'
    BY <1>3, <1>0, TypeProbe DEF PhaseInv
  <1>4. ASSUME NEW c \in Clicks, ChooseAndPost(c) PROVE TypeOK'
    BY <1>4, <1>0, TypeChoose
  <1>5. ASSUME NEW c \in Clicks, GatewayStep(c) PROVE TypeOK'
    BY <1>5, <1>0, TypeGateway DEF GatewayStep
  <1>6. ASSUME NEW c \in Clicks, Connect(c) PROVE TypeOK'
    BY <1>6, <1>0, TypeConnect
  <1>7. CASE World
    BY <1>7, <1>0, TypeWorld
  <1>8. CASE UNCHANGED vars
    BY <1>0, <1>8 DEF vars, locals, wire, players, world, TypeOK, Candidates
  <1>. QED
    BY <1>1, <1>2, <1>3, <1>4, <1>5, <1>6, <1>7, <1>8 DEF Next, Broker

-----------------------------------------------------------------------------
(* Phases *)

\* Every session count stays finite: one step adds at most one session.
LEMMA OpenFinite ==
    ASSUME IsFiniteSet(open), [Next]_vars
    PROVE  IsFiniteSet(open')
  <1>1. \/ open' \subseteq open
        \/ \E s : open' = open \cup {s}
    <2>1. ASSUME NEW c \in Clicks, Connect(c) PROVE \E s : open' = open \cup {s}
      BY <2>1 DEF Connect
    <2>2. ASSUME NEW c \in Clicks, Broker(c) \/ Cancel(c) \/ GatewayStep(c)
          PROVE  open' = open
      BY <2>2 DEF Broker, ResolveIdentity, ResolveTarget, ReadSecret, ResolveGateways,
                  ResolverFails, SkipWeightless, ProbeDead, ProbeAlive, NoUsableGateway,
                  ChooseAndPost, PreflightFails, PreflightReturns, MintFails, Deliver,
                  Cancel, GatewayStep, GatewayProvisions, GatewayRefuses, players
    <2>3. CASE World
      BY <2>3 DEF World, EndSession, Redeclare, Reroute, Restart, players
    <2>4. CASE UNCHANGED vars
      BY <2>4 DEF vars, players
    <2>. QED
      BY <2>1, <2>2, <2>3, <2>4 DEF Next
  <1>. QED
    BY <1>1, FS_Subset, FS_AddElement

\* What a step may do to the locals of click d, by where the launch stands.
LEMMA LocalsStep ==
    ASSUME Inv, [Next]_vars, NEW d \in Clicks
    PROVE  \/ /\ UNCHANGED <<target[d], password[d], chosen[d]>>
              /\ pc'[d] = pc[d] \/ pc'[d] \notin {"secret", "farm", "await"}
              /\ pc'[d] = "probe" => pc[d] \in {"farm", "probe"}
              /\ pc'[d] \in {"provisioned", "done"} => pc[d] \in {"await", "provisioned", "done"}
              /\ pc'[d] \in BeforePost => pc[d] \in BeforePost
              /\ pc[d] \in Ended => pc'[d] = pc[d]
           \/ /\ pc[d] = "target" /\ pc'[d] = "secret"
              /\ target'[d] = gen[WorkspaceOf[d]] /\ UNCHANGED <<gen, post>>
           \/ /\ pc[d] = "secret" /\ pc'[d] = "farm"
              /\ password'[d] = gen[WorkspaceOf[d]]
              /\ UNCHANGED <<target[d], gen, post>>
           \/ /\ pc[d] = "probe" /\ pc'[d] = "await" /\ post'[d] = "inflight"
              /\ chosen'[d] \in Chosen
              /\ UNCHANGED <<target[d], password[d]>>
  <1>. USE DEF Inv, TypeOK, Goto, Fails, BeforePost, locals, wire, players, world
  <1>1. ASSUME NEW c \in Clicks,
               \/ ResolveIdentity(c) \/ ResolveGateways(c) \/ ResolverFails(c)
               \/ NoUsableGateway(c) \/ MintFails(c) \/ Deliver(c)
               \/ PreflightFails(c) \/ PreflightReturns(c) \/ Cancel(c)
               \/ SkipWeightless(c) \/ ProbeDead(c) \/ ProbeAlive(c)
        PROVE  /\ UNCHANGED <<target[d], password[d], chosen[d]>>
               /\ pc'[d] = pc[d] \/ pc'[d] \notin {"secret", "farm", "await"}
               /\ pc'[d] = "probe" => pc[d] \in {"farm", "probe"}
               /\ pc'[d] \in {"provisioned", "done"} => pc[d] \in {"await", "provisioned", "done"}
               /\ pc'[d] \in BeforePost => pc[d] \in BeforePost
               /\ pc[d] \in Ended => pc'[d] = pc[d]
    BY <1>1 DEF Ended, ResolveIdentity, ResolveGateways, ResolverFails, NoUsableGateway,
                MintFails, Deliver, PreflightFails, PreflightReturns, Cancel,
                SkipWeightless, ProbeDead, ProbeAlive, Probing, Probed
  <1>2. ASSUME NEW c \in Clicks, c # d,
               ResolveTarget(c) \/ ReadSecret(c) \/ ChooseAndPost(c)
        PROVE  UNCHANGED <<target[d], password[d], chosen[d], pc[d]>>
    BY <1>2 DEF ResolveTarget, ReadSecret, ChooseAndPost
  <1>3. ASSUME ResolveTarget(d)
        PROVE  /\ pc[d] = "target" /\ pc'[d] = "secret"
               /\ target'[d] = gen[WorkspaceOf[d]] /\ UNCHANGED <<gen, post>>
    BY <1>3 DEF ResolveTarget
  <1>4. ASSUME ReadSecret(d)
        PROVE  /\ pc[d] = "secret" /\ pc'[d] = "farm"
               /\ password'[d] = gen[WorkspaceOf[d]]
               /\ UNCHANGED <<target[d], gen, post>>
    BY <1>4 DEF ReadSecret
  <1>5. ASSUME ChooseAndPost(d)
        PROVE  /\ pc[d] = "probe" /\ pc'[d] = "await" /\ post'[d] = "inflight"
               /\ chosen'[d] \in Chosen
               /\ UNCHANGED <<target[d], password[d]>>
    <2>1. PICK g \in Chosen : chosen' = [chosen EXCEPT ![d] = g]
      BY <1>5, ChoiceType
    <2>. QED
      BY <1>5, <2>1 DEF ChooseAndPost, Probed
  <1>6. ASSUME NEW c \in Clicks, GatewayStep(c) \/ Connect(c)
        PROVE  UNCHANGED <<target[d], password[d], chosen[d], pc[d]>>
    BY <1>6 DEF GatewayStep, GatewayProvisions, GatewayRefuses, Connect
  <1>7. CASE World
    BY <1>7 DEF World, EndSession, Redeclare, Reroute, Restart
  <1>8. CASE UNCHANGED vars
    BY <1>8 DEF vars
  <1>. HIDE DEF Inv, TypeOK, Goto, Fails, locals, wire, players, world
  <1>. QED
    BY <1>1, <1>2, <1>3, <1>4, <1>5, <1>6, <1>7, <1>8 DEF Next, Broker

\* A preflight request is sent once, from the end of probing, and handled once.
LEMMA PostStep ==
    ASSUME Inv, [Next]_vars, NEW d \in Clicks
    PROVE  /\ post[d] # "unsent" => post'[d] # "unsent"
           /\ post[d] = "handled" => post'[d] = "handled"
           /\ post[d] = "unsent" /\ post'[d] # "unsent" => pc[d] = "probe" /\ pc'[d] = "await"
  <1>. USE DEF Inv, TypeOK, PhaseInv, BeforePost, Goto, Fails, locals, wire, players, world
  <1>1. ASSUME NEW c \in Clicks, ChooseAndPost(c)
        PROVE  post' = [post EXCEPT ![c] = "inflight"] /\ post[c] = "unsent"
               /\ pc[c] = "probe" /\ pc'[c] = "await"
    BY <1>1 DEF ChooseAndPost, Probed
  <1>2. ASSUME NEW c \in Clicks, GatewayStep(c)
        PROVE  post' = [post EXCEPT ![c] = "handled"] /\ post[c] = "inflight"
    BY <1>2 DEF GatewayStep, GatewayProvisions, GatewayRefuses, Reaches, Answer
  <1>3. ASSUME NEW c \in Clicks,
               \/ ResolveIdentity(c) \/ ResolveGateways(c) \/ ResolverFails(c)
               \/ NoUsableGateway(c) \/ MintFails(c) \/ Deliver(c)
               \/ PreflightFails(c) \/ PreflightReturns(c) \/ Cancel(c)
               \/ SkipWeightless(c) \/ ProbeDead(c) \/ ProbeAlive(c)
               \/ ResolveTarget(c) \/ ReadSecret(c) \/ Connect(c)
        PROVE  post' = post
    BY <1>3 DEF ResolveIdentity, ResolveGateways, ResolverFails, NoUsableGateway,
                MintFails, Deliver, PreflightFails, PreflightReturns, Cancel,
                SkipWeightless, ProbeDead, ProbeAlive, ResolveTarget, ReadSecret, Connect
  <1>4. CASE World
    BY <1>4 DEF World, EndSession, Redeclare, Reroute, Restart
  <1>5. CASE UNCHANGED vars
    BY <1>5 DEF vars
  <1>6. post \in [Clicks -> {"unsent", "inflight", "handled"}]
    OBVIOUS
  <1>. HIDE DEF Inv, TypeOK, PhaseInv, Goto, Fails, locals, wire, players, world
  <1>. QED
    BY <1>1, <1>2, <1>3, <1>4, <1>5, <1>6 DEF Next, Broker

\* Declarations only ever move on.
LEMMA GenStep ==
    ASSUME Inv, [Next]_vars, NEW w \in Workspaces
    PROVE  gen[w] \in Nat /\ gen'[w] \in Nat /\ gen[w] <= gen'[w]
  <1>1. gen \in [Workspaces -> Nat]
    BY LaunchAssumption DEF Inv, TypeOK, Gens
  <1>2. \/ UNCHANGED gen
        \/ \E v \in Workspaces : gen' = [gen EXCEPT ![v] = gen[v] + 1]
    <2>1. ASSUME NEW c \in Clicks, Broker(c) \/ Cancel(c) \/ GatewayStep(c) \/ Connect(c)
          PROVE  UNCHANGED gen
      BY <2>1 DEF Broker, ResolveIdentity, ResolveTarget, ReadSecret, ResolveGateways,
                  ResolverFails, SkipWeightless, ProbeDead, ProbeAlive, NoUsableGateway,
                  ChooseAndPost, PreflightFails, PreflightReturns, MintFails, Deliver,
                  Cancel, GatewayStep, GatewayProvisions, GatewayRefuses, Connect, world
    <2>2. CASE World
      BY <2>2 DEF World, EndSession, Redeclare, Reroute, Restart, world
    <2>3. CASE UNCHANGED vars
      BY <2>3 DEF vars, world
    <2>. QED
      BY <2>1, <2>2, <2>3 DEF Next
  <1>. QED
    BY <1>1, <1>2

LEMMA PhaseStep == Inv /\ [Next]_vars => PhaseInv'
  <1>. SUFFICES ASSUME Inv, [Next]_vars PROVE PhaseInv'
    OBVIOUS
  <1>1. IsFiniteSet(open')
    BY OpenFinite DEF Inv, PhaseInv
  <1>2. TypeOK'
    BY TypeStep DEF Inv
  <1>. SUFFICES ASSUME NEW d \in Clicks
                PROVE  /\ pc'[d] \in BeforePost => post'[d] = "unsent"
                       /\ pc'[d] \in {"await", "provisioned", "done"} => post'[d] # "unsent"
                       /\ pc'[d] = "secret" => target'[d] \in 1..gen'[WorkspaceOf[d]]
                       /\ pc'[d] \in {"farm", "probe"} \/ post'[d] # "unsent" =>
                            /\ target'[d] \in Gens /\ password'[d] \in Gens
                            /\ target'[d] <= password'[d]
                       /\ post'[d] # "unsent" => chosen'[d].id \in Ids
    BY <1>1 DEF PhaseInv
  <1>. DEFINE w == WorkspaceOf[d]
  <1>3. /\ w \in Workspaces /\ gen[w] \in Nat /\ gen'[w] \in Nat /\ gen[w] <= gen'[w]
        /\ gen[w] \in Gens
    BY GenStep, LaunchAssumption DEF Inv, TypeOK
  <1>4. /\ pc[d] \in BeforePost => post[d] = "unsent"
        /\ pc[d] \in {"await", "provisioned", "done"} => post[d] # "unsent"
        /\ pc[d] = "secret" => target[d] \in 1..gen[w]
        /\ pc[d] \in {"farm", "probe"} \/ post[d] # "unsent" =>
             /\ target[d] \in Gens /\ password[d] \in Gens
             /\ target[d] <= password[d]
        /\ post[d] # "unsent" => chosen[d].id \in Ids
    BY DEF Inv, PhaseInv
  <1>5. /\ post[d] # "unsent" => post'[d] # "unsent"
        /\ post[d] = "unsent" /\ post'[d] # "unsent" => pc[d] = "probe" /\ pc'[d] = "await"
    BY PostStep
  <1>. HIDE DEF w
  <1>6. CASE /\ UNCHANGED <<target[d], password[d], chosen[d]>>
             /\ pc'[d] = pc[d] \/ pc'[d] \notin {"secret", "farm", "await"}
             /\ pc'[d] = "probe" => pc[d] \in {"farm", "probe"}
             /\ pc'[d] \in {"provisioned", "done"} => pc[d] \in {"await", "provisioned", "done"}
             /\ pc'[d] \in BeforePost => pc[d] \in BeforePost
    <2>1. pc'[d] \in BeforePost => post'[d] = "unsent"
      BY <1>4, <1>5, <1>6 DEF BeforePost
    <2>2. pc'[d] \in {"await", "provisioned", "done"} => post'[d] # "unsent"
      BY <1>4, <1>5, <1>6
    <2>3. pc'[d] = "secret" => target'[d] \in 1..gen'[w]
      BY <1>3, <1>4, <1>6
    <2>4. pc'[d] \in {"farm", "probe"} \/ post'[d] # "unsent" =>
             pc[d] \in {"farm", "probe"} \/ post[d] # "unsent"
      BY <1>5, <1>6
    <2>5. post'[d] # "unsent" => post[d] # "unsent"
      BY <1>5, <1>6
    <2>. QED
      BY <1>4, <1>6, <2>1, <2>2, <2>3, <2>4, <2>5 DEF w
  <1>7. CASE /\ pc[d] = "target" /\ pc'[d] = "secret"
             /\ target'[d] = gen[w] /\ UNCHANGED <<gen, post>>
    BY <1>3, <1>4, <1>7, LaunchAssumption DEF BeforePost, Gens, w
  <1>8. CASE /\ pc[d] = "secret" /\ pc'[d] = "farm"
             /\ password'[d] = gen[w]
             /\ UNCHANGED <<target[d], gen, post>>
    <2>1. post'[d] = "unsent"
      BY <1>4, <1>8 DEF BeforePost
    <2>2. target'[d] \in Gens /\ target'[d] <= password'[d]
      BY <1>3, <1>4, <1>8, LaunchAssumption DEF Gens
    <2>. QED
      BY <1>3, <1>8, <2>1, <2>2
  <1>9. CASE /\ pc[d] = "probe" /\ pc'[d] = "await" /\ post'[d] = "inflight"
             /\ chosen'[d] \in Chosen
             /\ UNCHANGED <<target[d], password[d]>>
    BY <1>4, <1>9 DEF BeforePost, Chosen
  <1>. QED
    BY <1>6, <1>7, <1>8, <1>9, LocalsStep DEF w

\* Once the request is out, all that is minted from the locals is fixed.
LEMMA Frozen ==
    ASSUME Inv, [Next]_vars, NEW d \in Clicks, post[d] # "unsent"
    PROVE  /\ UNCHANGED <<target[d], password[d], chosen[d]>>
           /\ Mapping(d)' = Mapping(d) /\ TargetCred(d)' = TargetCred(d)
  <1>1. pc[d] \notin {"target", "secret", "probe"}
    BY DEF Inv, PhaseInv, BeforePost
  <1>2. UNCHANGED <<target[d], password[d], chosen[d]>>
    BY <1>1, LocalsStep
  <1>3. TargetCred(d)' = TargetCred(d)
    BY <1>2 DEF TargetCred, QualifiedDomain
  <1>. QED
    BY <1>2, <1>3 DEF Mapping, AssocJti, Proxy, NewGuid

-----------------------------------------------------------------------------
(* What the instances hold *)

\* What enters a vault is the mapping of the request being handled; what a
\* handled request left there leaves it only for the history of lost mappings.
LEMMA VaultStep ==
    ASSUME Inv, [Next]_vars, NEW i \in Instances
    PROVE  /\ \A m \in vault'[i] \cup lost'[i] :
                \/ m \in vault[i] \cup lost[i]
                \/ \E c \in Clicks : /\ post[c] = "inflight" /\ post'[c] = "handled"
                                     /\ m = Mapping(c)
           /\ \A d \in Clicks :
                post[d] = "handled" /\ Mapping(d) \in vault[i] \cup lost[i]
                  => Mapping(d) \in vault'[i] \cup lost'[i]
  <1>1. ASSUME NEW c \in Clicks, NEW j \in Instances, GatewayProvisions(c, j)
        PROVE  /\ lost' = lost
               /\ vault' = [vault EXCEPT ![j] =
                    (vault[j] \ {m \in vault[j] : m.jti = Mapping(c).jti}) \cup {Mapping(c)}]
               /\ post[c] = "inflight" /\ post'[c] = "handled"
    BY <1>1 DEF GatewayProvisions, Reaches, Answer, Inv, TypeOK
  <1>2. ASSUME NEW c \in Clicks, NEW d \in Clicks, post[c] = "inflight", post[d] = "handled"
        PROVE  Mapping(d).jti # Mapping(c).jti
    <2>1. c # d
      BY <1>2
    <2>. QED
      BY <2>1, GuidsDiffer DEF Mapping, AssocJti
  <1>3. CASE \E c \in Clicks, j \in Instances : GatewayProvisions(c, j)
    <2>1. PICK c \in Clicks, j \in Instances : GatewayProvisions(c, j)
      BY <1>3
    <2>2. /\ lost' = lost
          /\ vault'[i] = IF i = j
               THEN (vault[i] \ {m \in vault[i] : m.jti = Mapping(c).jti}) \cup {Mapping(c)}
               ELSE vault[i]
      <3>1. /\ lost' = lost
            /\ vault' = [vault EXCEPT ![j] =
                 (vault[j] \ {m \in vault[j] : m.jti = Mapping(c).jti}) \cup {Mapping(c)}]
        BY <1>1, <2>1
      <3>2. DOMAIN vault = Instances
        BY DEF Inv, TypeOK
      <3>. QED
        BY <3>1, <3>2
    <2>3. post[c] = "inflight" /\ post'[c] = "handled"
      BY <1>1, <2>1
    <2>4. \A d \in Clicks : post[d] = "handled" => Mapping(d).jti # Mapping(c).jti
      BY <1>2, <2>3
    <2>. QED
      BY <2>2, <2>3, <2>4
  <1>4. CASE \E j \in Instances : Restart(j)
    BY <1>4 DEF Restart, Inv, TypeOK
  <1>5. CASE UNCHANGED <<vault, lost>>
    BY <1>5
  <1>6. \/ \E c \in Clicks, j \in Instances : GatewayProvisions(c, j)
        \/ \E j \in Instances : Restart(j)
        \/ UNCHANGED <<vault, lost>>
    <2>1. ASSUME NEW c \in Clicks, Broker(c) \/ Cancel(c) \/ Connect(c)
          PROVE  UNCHANGED <<vault, lost>>
      BY <2>1 DEF Broker, ResolveIdentity, ResolveTarget, ReadSecret, ResolveGateways,
                  ResolverFails, SkipWeightless, ProbeDead, ProbeAlive, NoUsableGateway,
                  ChooseAndPost, PreflightFails, PreflightReturns, MintFails, Deliver,
                  Cancel, Connect
    <2>2. ASSUME NEW c \in Clicks, NEW j \in Instances, GatewayRefuses(c, j)
          PROVE  UNCHANGED <<vault, lost>>
      BY <2>2 DEF GatewayRefuses
    <2>3. CASE World
      BY <2>3 DEF World, EndSession, Redeclare, Reroute
    <2>4. CASE UNCHANGED vars
      BY <2>4 DEF vars
    <2>. QED
      BY <2>1, <2>2, <2>3, <2>4 DEF Next, GatewayStep
  <1>. QED
    BY <1>3, <1>4, <1>5, <1>6

LEMMA StoreStep == Inv /\ [Next]_vars => StoreInv'
  <1>. SUFFICES ASSUME Inv, [Next]_vars, NEW i \in Instances,
                       NEW m \in vault'[i] \cup lost'[i]
                PROVE  \E c \in Clicks : post'[c] = "handled" /\ m = Mapping(c)'
    BY DEF StoreInv
  <1>1. PICK c \in Clicks :
          /\ post[c] # "unsent" /\ post'[c] = "handled"
          /\ m = Mapping(c)
    <2>1. CASE m \in vault[i] \cup lost[i]
      <3>1. PICK c \in Clicks : post[c] = "handled" /\ m = Mapping(c)
        BY <2>1 DEF Inv, StoreInv
      <3>. QED
        BY <3>1, PostStep
    <2>2. CASE \E c \in Clicks : /\ post[c] = "inflight" /\ post'[c] = "handled"
                                 /\ m = Mapping(c)
      BY <2>2
    <2>. QED
      BY <2>1, <2>2, VaultStep
  <1>2. Mapping(c)' = Mapping(c)
    BY <1>1, Frozen
  <1>. QED
    BY <1>1, <1>2

\* A stored mapping with the jti of click d is that of click d.
LEMMA MappingOwner ==
    ASSUME StoreInv, NEW d \in Clicks, NEW i \in Instances,
           NEW m \in vault[i] \cup lost[i], m.jti = AssocJti(d)
    PROVE  m = Mapping(d) /\ post[d] = "handled"
  <1>1. PICK c \in Clicks : post[c] = "handled" /\ m = Mapping(c)
    BY DEF StoreInv
  <1>2. AssocJti(c) = AssocJti(d)
    BY <1>1 DEF Mapping
  <1>3. c = d
    BY <1>2, GuidsDiffer DEF AssocJti
  <1>. QED
    BY <1>1, <1>3

LEMMA ServedPersists ==
    ASSUME Inv, [Next]_vars, NEW d \in Clicks, Served(d)
    PROVE  Served(d)'
  <1>1. PICK i \in Instances :
          Mapping(d) \in vault[i] \cup lost[i] /\ TokenAccepted(i, chosen[d].id)
    BY DEF Served
  <1>2. post[d] = "handled"
    <2>1. Mapping(d).jti = AssocJti(d)
      BY DEF Mapping
    <2>. QED
      BY <1>1, <2>1, MappingOwner DEF Inv
  <1>3. Mapping(d) \in vault'[i] \cup lost'[i]
    BY <1>1, <1>2, VaultStep
  <1>4. Mapping(d)' = Mapping(d) /\ chosen'[d] = chosen[d]
    BY <1>2, Frozen
  <1>5. TokenAccepted(i, chosen[d].id)'
    BY <1>1, <1>4 DEF TokenAccepted
  <1>. QED
    BY <1>3, <1>4, <1>5 DEF Served

\* An instance that has just stored the mapping serves the click: the scope
\* token it accepted is bound to the same id as the tokens of the player.
LEMMA ProvisionServes ==
    ASSUME Inv, [Next]_vars, NEW d \in Clicks, NEW i \in Instances, GatewayProvisions(d, i)
    PROVE  Served(d)'
  <1>1. post[d] = "inflight" /\ TokenAccepted(i, chosen[d].id)
    BY DEF GatewayProvisions, Reaches, PreflightScope
  <1>2. Mapping(d)' = Mapping(d) /\ chosen'[d] = chosen[d]
    BY <1>1, Frozen
  <1>3. Mapping(d) \in vault'[i]
    BY DEF GatewayProvisions, Inv, TypeOK
  <1>4. TokenAccepted(i, chosen[d].id)'
    BY <1>1, <1>2 DEF TokenAccepted
  <1>. QED
    BY <1>2, <1>3, <1>4 DEF Served

LEMMA ReplyStep ==
    ASSUME Inv, [Next]_vars, NEW d \in Clicks
    PROVE  /\ pc'[d] # "await" => reply'[d] = NoReply
           /\ pc'[d] = "await" => \/ pc[d] = "await" /\ reply'[d] = reply[d]
                                  \/ ~Accepted(reply'[d])
                                  \/ \E i \in Instances : GatewayProvisions(d, i)
           /\ pc'[d] \in {"provisioned", "done"} =>
                \/ pc[d] \in {"provisioned", "done"}
                \/ pc[d] = "await" /\ Accepted(reply[d])
  <1>0. pc[d] # "await" => reply[d] = NoReply
    BY DEF Inv, ServedInv
  <1>. USE RefusalsRejected
  <1>1. /\ pc \in [Clicks -> {"idle"} \cup Running \cup Ended]
        /\ reply \in [Clicks -> Replies \cup {NoReply}]
    BY DEF Inv, TypeOK
  <1>. USE DEF Goto, Fails, locals, wire, players, world
  <1>2. ASSUME NEW c \in Clicks, Broker(c) \/ Cancel(c) \/ Connect(c), c # d
        PROVE  pc'[d] = pc[d] /\ reply'[d] = reply[d]
    BY <1>1, <1>2 DEF Broker, ResolveIdentity, ResolveTarget, ReadSecret, ResolveGateways,
                  ResolverFails, SkipWeightless, ProbeDead, ProbeAlive, NoUsableGateway,
                  ChooseAndPost, PreflightFails, PreflightReturns, MintFails, Deliver,
                  Cancel, Connect
  <1>3. ASSUME \/ ResolveIdentity(d) \/ ResolveTarget(d) \/ ReadSecret(d)
               \/ ResolveGateways(d) \/ ResolverFails(d) \/ SkipWeightless(d)
               \/ ProbeDead(d) \/ ProbeAlive(d) \/ NoUsableGateway(d) \/ MintFails(d)
        PROVE  pc[d] # "await" /\ reply'[d] = NoReply /\ pc'[d] \notin {"await", "provisioned", "done"}
    BY <1>0, <1>1, <1>3 DEF ResolveIdentity, ResolveTarget, ReadSecret, ResolveGateways,
                  ResolverFails, SkipWeightless, ProbeDead, ProbeAlive, NoUsableGateway,
                  MintFails, Probing, Probed
  <1>4. ASSUME ChooseAndPost(d)
        PROVE  pc'[d] = "await" /\ reply'[d] = NoReply
    BY <1>0, <1>1, <1>4 DEF ChooseAndPost, Probed
  <1>5. ASSUME PreflightFails(d) \/ Cancel(d)
        PROVE  pc'[d] = "failed" /\ reply'[d] = NoReply
    BY <1>1, <1>5 DEF PreflightFails, Cancel
  <1>6. ASSUME PreflightReturns(d)
        PROVE  /\ pc[d] = "await" /\ reply'[d] = NoReply
               /\ pc'[d] = IF Accepted(reply[d]) THEN "provisioned" ELSE "failed"
    BY <1>1, <1>6 DEF PreflightReturns
  <1>7. ASSUME Deliver(d)
        PROVE  pc[d] = "provisioned" /\ pc'[d] = "done" /\ reply'[d] = NoReply
    BY <1>0, <1>1, <1>7 DEF Deliver
  <1>8. ASSUME NEW c \in Clicks, NEW i \in Instances, GatewayProvisions(c, i)
        PROVE  pc' = pc /\ (c # d => reply'[d] = reply[d])
               /\ (pc[d] # "await" => reply'[d] = NoReply)
    BY <1>0, <1>1, <1>8 DEF GatewayProvisions, Answer
  <1>9. ASSUME NEW c \in Clicks, NEW i \in Instances, GatewayRefuses(c, i)
        PROVE  pc' = pc /\ (reply'[d] = reply[d] \/ ~Accepted(reply'[d]))
               /\ (pc[d] # "await" => reply'[d] = NoReply)
    <2>1. PICK r \in {Unauthorized, NotJson, Body(<<Alert>>)} : Answer(c, r)
      BY <1>9 DEF GatewayRefuses
    <2>2. pc' = pc
      BY <1>9 DEF GatewayRefuses
    <2>3. reply' = [reply EXCEPT ![c] = IF pc[c] = "await" THEN r ELSE NoReply]
      BY <2>1 DEF Answer
    <2>4. ~Accepted(r)
      BY <2>1
    <2>5. CASE c = d
      BY <1>1, <2>2, <2>3, <2>4, <2>5
    <2>6. CASE c # d
      BY <1>0, <1>1, <2>2, <2>3, <2>6
    <2>. QED
      BY <2>5, <2>6
  <1>10. ASSUME Connect(d) \/ World \/ UNCHANGED vars
         PROVE  pc' = pc /\ reply' = reply
    BY <1>10 DEF Connect, World, EndSession, Redeclare, Reroute, Restart, vars
  <1>. HIDE DEF Goto, Fails, locals, wire, players, world
  <1>11. CASE \E c \in Clicks : c # d /\ (Broker(c) \/ Cancel(c) \/ Connect(c))
    BY <1>0, <1>2, <1>11
  <1>12. CASE Broker(d) \/ Cancel(d)
    BY <1>3, <1>4, <1>5, <1>6, <1>7, <1>12 DEF Broker
  <1>13. CASE \E c \in Clicks : GatewayStep(c)
    BY <1>8, <1>9, <1>13 DEF GatewayStep
  <1>14. CASE Connect(d) \/ World \/ UNCHANGED vars
    BY <1>0, <1>10, <1>14
  <1>. QED
    BY <1>11, <1>12, <1>13, <1>14 DEF Next

LEMMA ServedStep == Inv /\ [Next]_vars => ServedInv'
  <1>. SUFFICES ASSUME Inv, [Next]_vars, NEW d \in Clicks
                PROVE  /\ pc'[d] # "await" => reply'[d] = NoReply
                       /\ pc'[d] = "await" /\ Accepted(reply'[d]) => Served(d)'
                       /\ pc'[d] \in {"provisioned", "done"} => Served(d)'
    BY DEF ServedInv, Accepted
  <1>1. /\ pc[d] = "await" /\ Accepted(reply[d]) => Served(d)
        /\ pc[d] \in {"provisioned", "done"} => Served(d)
    BY DEF Inv, ServedInv
  <1>. QED
    BY <1>1, ReplyStep, ServedPersists, ProvisionServes

-----------------------------------------------------------------------------
(* Sessions *)

\* Sessions end, or one is opened for a click that had none.
LEMMA OpenStep ==
    ASSUME Inv, [Next]_vars
    PROVE  /\ played \subseteq played'
           /\ \/ open' \subseteq open
              \/ \E c \in Clicks, i \in Instances :
                   /\ pc[c] = "done" /\ c \notin played /\ c \in played'
                   /\ Mapping(c) \in vault[i]
                   /\ open' = open \cup {[click |-> c, at |-> i,
                                          dst |-> Association(c).dst, cred |-> TargetCred(c)]}
  <1>1. ASSUME NEW c \in Clicks, Connect(c)
        PROVE  /\ played' = played \cup {c}
               /\ pc[c] = "done" /\ c \notin played
               /\ \E i \in Instances :
                    /\ Mapping(c) \in vault[i]
                    /\ open' = open \cup {[click |-> c, at |-> i,
                                           dst |-> Association(c).dst, cred |-> TargetCred(c)]}
    <2>1. PICK i \in Instances : \E m \in vault[i] :
            /\ Admits(i, Descriptor(c), m)
            /\ open' = open \cup {[click |-> c, at |-> i,
                                   dst |-> Association(c).dst, cred |-> m.cred]}
      BY <1>1 DEF Connect
    <2>2. PICK m \in vault[i] :
            /\ Admits(i, Descriptor(c), m)
            /\ open' = open \cup {[click |-> c, at |-> i,
                                   dst |-> Association(c).dst, cred |-> m.cred]}
      BY <2>1
    <2>3. m.jti = AssocJti(c)
      BY <2>2 DEF Admits, Descriptor, Association
    <2>4. m = Mapping(c)
      BY <2>3, MappingOwner DEF Inv
    <2>5. m.cred = TargetCred(c)
      BY <2>4 DEF Mapping
    <2>. QED
      BY <1>1, <2>2, <2>4, <2>5 DEF Connect
  <1>2. ASSUME NEW c \in Clicks, Broker(c) \/ Cancel(c) \/ GatewayStep(c)
        PROVE  UNCHANGED <<open, played>>
    BY <1>2 DEF Broker, ResolveIdentity, ResolveTarget, ReadSecret, ResolveGateways,
                ResolverFails, SkipWeightless, ProbeDead, ProbeAlive, NoUsableGateway,
                ChooseAndPost, PreflightFails, PreflightReturns, MintFails, Deliver,
                Cancel, GatewayStep, GatewayProvisions, GatewayRefuses, players
  <1>3. CASE World
    BY <1>3 DEF World, EndSession, Redeclare, Reroute, Restart, players
  <1>4. CASE UNCHANGED vars
    BY <1>4 DEF vars, players
  <1>. QED
    BY <1>1, <1>2, <1>3, <1>4 DEF Next

LEMMA SessionStep == Inv /\ [Next]_vars => SessionInv'
  <1>. SUFFICES ASSUME Inv, [Next]_vars PROVE SessionInv'
    OBVIOUS
  <1>1. \A s \in open : s.click \in Clicks
    BY DEF Inv, TypeOK, Sessions
  <1>2. ASSUME NEW s \in open'
        PROVE  /\ s.click \in Clicks /\ pc[s.click] = "done"
               /\ s.cred = TargetCred(s.click) /\ s.dst.gen = target[s.click]
               /\ s.click \in played'
    BY <1>1, <1>2, OpenStep DEF Inv, SessionInv, Association
  <1>3. ASSUME NEW s \in open'
        PROVE  /\ pc'[s.click] = "done"
               /\ s.cred = TargetCred(s.click)' /\ s.dst.gen = target'[s.click]
               /\ s.click \in played'
    <2>1. post[s.click] # "unsent"
      BY <1>2, <1>3 DEF Inv, PhaseInv
    <2>2. pc'[s.click] = "done"
      BY <1>2, <1>3, LocalsStep DEF Ended
    <2>3. target'[s.click] = target[s.click] /\ TargetCred(s.click)' = TargetCred(s.click)
      BY <1>2, <1>3, <2>1, Frozen
    <2>. QED
      BY <1>2, <1>3, <2>2, <2>3
  <1>4. \A s, t \in open' : s.click = t.click => s = t
    BY <1>1, OpenStep DEF Inv, SessionInv
  <1>. QED
    BY <1>3, <1>4 DEF SessionInv

LEMMA InvStep == Inv /\ [Next]_vars => Inv'
  BY TypeStep, PhaseStep, StoreStep, ServedStep, SessionStep DEF Inv

LEMMA Invariance == Spec => []Inv
  BY InvInit, InvStep, PTL DEF Spec

-----------------------------------------------------------------------------
\* An instance the tokens are good for admits a player that presents the
\* descriptor of the click whose mapping it looks up.
LEMMA OwnMappingAdmits ==
    ASSUME NEW c \in Clicks, NEW i, TokenAccepted(i, chosen[c].id)
    PROVE  Admits(i, Descriptor(c), Mapping(c))
  <1>1. TokenAccepted(i, Descriptor(c).assoc.gw)
    BY DEF Descriptor, Association
  <1>2. Mapping(c).jti = Descriptor(c).assoc.jti /\ Mapping(c).proxy = Descriptor(c).proxy
    BY DEF Descriptor, Association, Mapping
  <1>3. ASSUME Mapping(c).cred.domain # NoDomain
        PROVE  \E k \in Descriptor(c).kdc :
                 k.token.cred = Mapping(c).jti /\ TokenAccepted(i, k.token.gw)
    <2>1. QualifiedDomain(c) # NoDomain
      BY <1>3 DEF Mapping, TargetCred
    <2>2. Descriptor(c).kdc = {KdcUrl(c)}
      BY <2>1 DEF Descriptor
    <2>. QED
      BY <2>2 DEF KdcUrl, KdcToken, Mapping
  <1>. QED
    BY <1>1, <1>2, <1>3 DEF Admits

LEMMA ServedImpliesDelivered == Inv => DeliveredIsServed
  <1>. SUFFICES ASSUME Inv, NEW c \in Clicks, pc[c] \in {"provisioned", "done"}
                PROVE  \E i \in Instances : \E m \in vault[i] \cup lost[i] :
                          m.cred = TargetCred(c) /\ Admits(i, Descriptor(c), m)
    BY DEF DeliveredIsServed
  <1>1. PICK i \in Instances :
          Mapping(c) \in vault[i] \cup lost[i] /\ TokenAccepted(i, chosen[c].id)
    BY DEF Inv, ServedInv, Served
  <1>2. Mapping(c).cred = TargetCred(c)
    BY DEF Mapping
  <1>3. Admits(i, Descriptor(c), Mapping(c))
    BY <1>1, OwnMappingAdmits
  <1>. QED
    BY <1>1, <1>2, <1>3

\* Every variable of the launches, the gateways and the world keeps its type,
\* for any farms and any number of clicks, instances and moves.
THEOREM LaunchTypeCorrect == Spec => []TypeOK
  BY Invariance, PTL DEF Inv

\* Whatever is lost, late, refused, rerouted, restarted or concurrent, a click
\* that got past provisioning has its own credential stored on an instance that
\* would admit its player, unless that instance restarted.
THEOREM DeliveredIsAlwaysServed == Spec => []DeliveredIsServed
  BY Invariance, ServedImpliesDelivered, PTL

\* No session ever runs under a credential of another launch.
THEOREM SessionsAreOwn == Spec => []NoForeignSession
  <1>1. Inv => NoForeignSession
    BY DEF Inv, SessionInv, NoForeignSession
  <1>. QED
    BY <1>1, Invariance, PTL

\* No session logs on to a target with a password declared before that target.
THEOREM PasswordsAreFresh == Spec => []PasswordNotOlderThanTarget
  <1>1. Inv => PasswordNotOlderThanTarget
    <2>. SUFFICES ASSUME Inv, NEW s \in open PROVE s.cred.gen >= s.dst.gen
      BY DEF PasswordNotOlderThanTarget
    <2>1. /\ s.click \in Clicks /\ pc[s.click] = "done"
          /\ s.cred = TargetCred(s.click) /\ s.dst.gen = target[s.click]
      BY DEF Inv, SessionInv, TypeOK, Sessions
    <2>2. target[s.click] \in Gens /\ password[s.click] \in Gens
          /\ target[s.click] <= password[s.click]
      BY <2>1 DEF Inv, PhaseInv
    <2>. QED
      BY <2>1, <2>2, LaunchAssumption DEF TargetCred, Gens
  <1>. QED
    BY <1>1, Invariance, PTL
-----------------------------------------------------------------------------
(* While nothing has moved.                                                *)

\* The instance that answered the heartbeat is the one the base URL still leads
\* to, and the one that took the credential of an accepted reply
\* (farm.go:108-146, preflight.go:53-118).
StillInv ==
    moves = 0 =>
        \A c \in Clicks :
            /\ \A k \in DOMAIN alive[c] :
                 /\ route[alive[c][k].gateway.url] \in Instances
                 /\ alive[c][k].id = GatewayId[route[alive[c][k].gateway.url]]
            /\ post[c] # "unsent" =>
                 /\ route[chosen[c].url] \in Instances
                 /\ chosen[c].id = GatewayId[route[chosen[c].url]]
            /\ \/ pc[c] = "await" /\ Accepted(reply[c])
               \/ pc[c] \in {"provisioned", "done"}
               => Mapping(c) \in vault[route[chosen[c].url]]

\* As long as nothing moves, routes stay and vaults only lose what a request with
\* the same jti replaces.
LEMMA NothingMoves ==
    ASSUME Inv, [Next]_vars, moves' = 0
    PROVE  /\ moves = 0 /\ route' = route
           /\ \A d \in Clicks, i \in Instances :
                post[d] = "handled" /\ Mapping(d) \in vault[i] => Mapping(d) \in vault'[i]
  <1>0. moves \in Nat
    BY LaunchAssumption DEF Inv, TypeOK
  <1>1. ~(\E j \in Instances : Restart(j)) /\ ~(\E u \in Urls : Reroute(u))
    BY <1>0 DEF Restart, Reroute
  <1>2. ASSUME NEW c \in Clicks, NEW j \in Instances, GatewayProvisions(c, j)
        PROVE  /\ UNCHANGED <<moves, route>>
               /\ vault' = [vault EXCEPT ![j] =
                    (vault[j] \ {m \in vault[j] : m.jti = Mapping(c).jti}) \cup {Mapping(c)}]
               /\ post[c] = "inflight"
    BY <1>2 DEF GatewayProvisions, Reaches, world
  <1>3. CASE \E c \in Clicks, j \in Instances : GatewayProvisions(c, j)
    <2>1. PICK c \in Clicks, j \in Instances : GatewayProvisions(c, j)
      BY <1>3
    <2>2. \A d \in Clicks : post[d] = "handled" => Mapping(d).jti # Mapping(c).jti
      <3>1. \A d \in Clicks : post[d] = "handled" => d # c
        BY <1>2, <2>1
      <3>. QED
        BY <3>1, GuidsDiffer DEF Mapping, AssocJti
    <2>3. DOMAIN vault = Instances
      BY DEF Inv, TypeOK
    <2>. QED
      BY <1>2, <2>1, <2>2, <2>3
  <1>4. ASSUME \/ \E c \in Clicks : Broker(c) \/ Cancel(c) \/ Connect(c)
               \/ \E c \in Clicks, j \in Instances : GatewayRefuses(c, j)
               \/ \E s \in open : EndSession(s)
               \/ \E w \in Workspaces : Redeclare(w)
               \/ UNCHANGED vars
        PROVE  UNCHANGED <<moves, route, vault>>
    BY <1>4 DEF Broker, ResolveIdentity, ResolveTarget, ReadSecret, ResolveGateways,
                ResolverFails, SkipWeightless, ProbeDead, ProbeAlive, NoUsableGateway,
                ChooseAndPost, PreflightFails, PreflightReturns, MintFails, Deliver,
                Cancel, Connect, GatewayRefuses, EndSession, Redeclare, vars, world
  <1>. QED
    BY <1>1, <1>3, <1>4 DEF Next, GatewayStep, World

\* What a step may do to the survivors and the choice of click d.
LEMMA SurvivorStep ==
    ASSUME Inv, [Next]_vars, NEW d \in Clicks
    PROVE  \/ alive'[d] = alive[d] /\ (post'[d] # "unsent" => post[d] # "unsent")
           \/ /\ ProbeAlive(d) /\ post' = post
           \/ /\ alive'[d] = <<>>
              /\ \E k \in DOMAIN alive[d] :
                   /\ chosen'[d].url = alive[d][k].gateway.url
                   /\ chosen'[d].front = alive[d][k].gateway.front
                   /\ chosen'[d].id = alive[d][k].id
  <1>. USE DEF Inv, TypeOK, locals, wire, players, world
  <1>1. ASSUME NEW c \in Clicks, ProbeAlive(c)
        PROVE  post' = post /\ (c # d => alive'[d] = alive[d])
    BY <1>1 DEF ProbeAlive
  <1>2. ASSUME NEW c \in Clicks, c # d, ChooseAndPost(c)
        PROVE  alive'[d] = alive[d] /\ post'[d] = post[d]
    BY <1>2 DEF ChooseAndPost
  <1>3. ASSUME ChooseAndPost(d)
        PROVE  /\ alive'[d] = <<>>
               /\ \E k \in DOMAIN alive[d] :
                    /\ chosen'[d].url = alive[d][k].gateway.url
                    /\ chosen'[d].front = alive[d][k].gateway.front
                    /\ chosen'[d].id = alive[d][k].id
    <2>1. PICK k \in MinGroup(alive[d]) :
            chosen' = [chosen EXCEPT ![d] =
                        [url   |-> alive[d][k].gateway.url,
                         front |-> alive[d][k].gateway.front,
                         id    |-> alive[d][k].id,
                         name  |-> alive[d][k].name]]
      BY <1>3 DEF ChooseAndPost
    <2>2. k \in DOMAIN alive[d]
      BY GroupIsAlive
    <2>3. alive'[d] = <<>>
      BY <1>3 DEF ChooseAndPost
    <2>. QED
      BY <2>1, <2>2, <2>3
  <1>4. ASSUME NEW c \in Clicks,
               \/ ResolveIdentity(c) \/ ResolveTarget(c) \/ ReadSecret(c)
               \/ ResolveGateways(c) \/ ResolverFails(c) \/ SkipWeightless(c)
               \/ ProbeDead(c) \/ NoUsableGateway(c) \/ PreflightFails(c)
               \/ PreflightReturns(c) \/ MintFails(c) \/ Deliver(c)
               \/ Cancel(c) \/ Connect(c)
        PROVE  alive' = alive /\ post' = post
    BY <1>4 DEF ResolveIdentity, ResolveTarget, ReadSecret, ResolveGateways,
                ResolverFails, SkipWeightless, ProbeDead, NoUsableGateway,
                PreflightFails, PreflightReturns, MintFails, Deliver, Cancel, Connect
  <1>5. ASSUME NEW c \in Clicks, GatewayStep(c)
        PROVE  alive' = alive /\ (post'[d] # "unsent" => post[d] # "unsent")
    BY <1>5 DEF GatewayStep, GatewayProvisions, GatewayRefuses, Reaches, Answer
  <1>6. CASE World \/ UNCHANGED vars
    BY <1>6 DEF World, EndSession, Redeclare, Reroute, Restart, vars
  <1>. HIDE DEF Inv, TypeOK, locals, wire, players, world
  <1>. QED
    BY <1>1, <1>2, <1>3, <1>4, <1>5, <1>6 DEF Next, Broker

LEMMA StillStep == Inv /\ StillInv /\ [Next]_vars => StillInv'
  <1>. SUFFICES ASSUME Inv, StillInv, [Next]_vars, moves' = 0, NEW d \in Clicks
                PROVE  /\ \A k \in DOMAIN alive'[d] :
                            /\ route'[alive'[d][k].gateway.url] \in Instances
                            /\ alive'[d][k].id = GatewayId[route'[alive'[d][k].gateway.url]]
                       /\ post'[d] # "unsent" =>
                            /\ route'[chosen'[d].url] \in Instances
                            /\ chosen'[d].id = GatewayId[route'[chosen'[d].url]]
                       /\ \/ pc'[d] = "await" /\ Accepted(reply'[d])
                          \/ pc'[d] \in {"provisioned", "done"}
                          => Mapping(d)' \in vault'[route'[chosen'[d].url]]
    BY DEF StillInv, Accepted
  <1>1. moves = 0 /\ route' = route
    BY NothingMoves
  <1>2. /\ \A k \in DOMAIN alive[d] :
             /\ route[alive[d][k].gateway.url] \in Instances
             /\ alive[d][k].id = GatewayId[route[alive[d][k].gateway.url]]
        /\ post[d] # "unsent" =>
             /\ route[chosen[d].url] \in Instances
             /\ chosen[d].id = GatewayId[route[chosen[d].url]]
        /\ \/ pc[d] = "await" /\ Accepted(reply[d])
           \/ pc[d] \in {"provisioned", "done"}
           => Mapping(d) \in vault[route[chosen[d].url]]
    BY <1>1 DEF StillInv
  <1>3. \A k \in DOMAIN alive'[d] :
             /\ route[alive'[d][k].gateway.url] \in Instances
             /\ alive'[d][k].id = GatewayId[route[alive'[d][k].gateway.url]]
    <2>1. CASE ProbeAlive(d)
      <3>. DEFINE at == route[Candidate(d).url]
                  m == [gateway  |-> Candidate(d), weight |-> Candidate(d).weight,
                        id |-> GatewayId[at], name |-> at, sessions |-> RunningSessions(at)]
      <3>1. /\ at \in Instances /\ alive' = [alive EXCEPT ![d] = Append(alive[d], m)]
        BY <2>1 DEF ProbeAlive
      <3>2. alive[d] \in Seq(Survivor) /\ alive'[d] = Append(alive[d], m)
        BY <3>1 DEF Inv, TypeOK
      <3>3. m.gateway.url = Candidate(d).url /\ m.id = GatewayId[at]
        OBVIOUS
      <3>. HIDE DEF m
      <3>4. \A k \in DOMAIN alive'[d] : alive'[d][k] = m \/ \E j \in DOMAIN alive[d] : alive'[d][k] = alive[d][j]
        <4>1. \A k \in 1..Len(alive[d]) + 1 :
                Append(alive[d], m)[k] = IF k <= Len(alive[d]) THEN alive[d][k] ELSE m
          BY <3>2
        <4>2. /\ Len(alive[d]) \in Nat /\ DOMAIN alive[d] = 1..Len(alive[d])
              /\ DOMAIN Append(alive[d], m) = 1..Len(alive[d]) + 1
          BY <3>2
        <4>. QED
          BY <3>2, <4>1, <4>2
      <3>. QED
        BY <1>2, <3>1, <3>3, <3>4
    <2>2. CASE alive'[d] = alive[d] \/ alive'[d] = <<>>
      BY <1>2, <2>2
    <2>. QED
      BY <2>1, <2>2, SurvivorStep
  <1>4. ASSUME post'[d] # "unsent"
        PROVE  /\ route[chosen'[d].url] \in Instances
               /\ chosen'[d].id = GatewayId[route[chosen'[d].url]]
    <2>1. CASE post[d] # "unsent"
      BY <1>2, <2>1, Frozen
    <2>2. CASE post[d] = "unsent"
      BY <1>2, <1>4, <2>2, SurvivorStep
    <2>. QED
      BY <2>1, <2>2
  <1>5. ASSUME \/ pc'[d] = "await" /\ Accepted(reply'[d])
               \/ pc'[d] \in {"provisioned", "done"}
        PROVE  Mapping(d)' \in vault'[route[chosen'[d].url]]
    <2>1. CASE \E i \in Instances : GatewayProvisions(d, i)
      <3>1. PICK i \in Instances : GatewayProvisions(d, i)
        BY <2>1
      <3>2. post[d] # "unsent" /\ route[chosen[d].url] = i
        BY <3>1 DEF GatewayProvisions, Reaches
      <3>3. Mapping(d) \in vault'[i]
        BY <3>1 DEF GatewayProvisions, Inv, TypeOK
      <3>. QED
        BY <3>2, <3>3, Frozen
    <2>2. CASE \/ pc[d] = "await" /\ Accepted(reply[d])
               \/ pc[d] \in {"provisioned", "done"}
      <3>1. post[d] # "unsent" /\ Mapping(d) \in vault[route[chosen[d].url]]
        BY <1>2, <2>2 DEF Inv, PhaseInv
      <3>2. route[chosen[d].url] \in Instances
        BY <1>2, <3>1
      <3>3. post[d] = "handled"
        <4>1. Mapping(d).jti = AssocJti(d)
          BY DEF Mapping
        <4>. QED
          BY <3>1, <3>2, <4>1, MappingOwner DEF Inv
      <3>4. Mapping(d) \in vault'[route[chosen[d].url]]
        BY <3>1, <3>2, <3>3, NothingMoves
      <3>. QED
        BY <3>1, <3>4, Frozen
    <2>. QED
      BY <1>5, <2>1, <2>2, ReplyStep
  <1>. QED
    BY <1>1, <1>3, <1>4, <1>5

\* The instance behind the base URL admits the player of a delivered descriptor.
LEMMA StillAdmits ==
    ASSUME Inv, StillInv, moves = 0, NEW c \in Clicks, pc[c] = "done"
    PROVE  LET i == route[chosen[c].url] IN
             i \in Instances /\ \E m \in vault[i] : Admits(i, Descriptor(c), m)
  <1>. DEFINE i == route[chosen[c].url]
  <1>1. post[c] # "unsent"
    BY DEF Inv, PhaseInv
  <1>2. i \in Instances /\ chosen[c].id = GatewayId[i] /\ Mapping(c) \in vault[i]
    BY <1>1 DEF StillInv
  <1>3. Admits(i, Descriptor(c), Mapping(c))
    BY <1>2, OwnMappingAdmits DEF TokenAccepted
  <1>. QED
    BY <1>2, <1>3

\* For any farms, clicks and instances: as long as nothing has moved, and where
\* the browser-facing address leads to what the server-facing one does, the
\* player reaches an instance that admits it (farm.go:22, jetbroker.go:160-199).
THEOREM PlayersReachTheirInstance == Spec => []PlayerReachesItsInstance
  <1>1. Init => StillInv
    BY RefusalsRejected DEF Init, StillInv
  <1>2. Inv /\ StillInv => PlayerReachesItsInstance
    <2>. SUFFICES ASSUME Inv, StillInv, NEW c \in Clicks, pc[c] = "done", moves = 0,
                         chosen[c].front # NoFront => route[chosen[c].front] = route[chosen[c].url]
                  PROVE  LET i == route[Descriptor(c).gateway] IN
                           /\ i \in Instances
                           /\ \E m \in vault[i] : Admits(i, Descriptor(c), m)
                           /\ \A k \in Descriptor(c).kdc : route[k.base] = i
      BY DEF PlayerReachesItsInstance
    <2>1. route[Descriptor(c).gateway] = route[chosen[c].url]
      BY DEF Descriptor, BrowserBase
    <2>2. \A k \in Descriptor(c).kdc : k.base = Descriptor(c).gateway
      BY DEF Descriptor, KdcUrl
    <2>. QED
      BY <2>1, <2>2, StillAdmits
  <1>. QED
    BY <1>1, <1>2, StillStep, Invariance, PTL DEF Spec

-----------------------------------------------------------------------------
(* What browsers are told.                                                 *)

\* Survivors and the choice are members of the workspace's own farm.
FarmInv ==
    \A c \in Clicks :
        /\ \A k \in DOMAIN alive[c] : alive[c][k].gateway \in Range(Candidates(c))
        /\ post[c] # "unsent" =>
             \E g \in Range(Candidates(c)) : chosen[c].url = g.url /\ chosen[c].front = g.front

\* Gateways get URLs, scope tokens, real credentials, and the association and
\* proxy credential of the launch that calls; browsers get the text of the error
\* or the result of their own launch.
TalkInv ==
    \A c \in Clicks :
        /\ \A item \in sent[c] :
             \/ item[1] \in {"url", "scope", "cred"}
             \/ /\ post[c] # "unsent"
                /\ item \in {<<"assoc", Association(c)>>, <<"proxy", Proxy(c)>>}
        /\ pc[c] # "done" => answer[c] \subseteq {<<"text", "rdp launch failed">>}
        /\ pc[c] = "done" => answer[c] = LaunchResult(c)

LEMMA FarmStep == Inv /\ FarmInv /\ [Next]_vars => FarmInv'
  <1>. SUFFICES ASSUME Inv, FarmInv, [Next]_vars, NEW d \in Clicks
                PROVE  /\ \A k \in DOMAIN alive'[d] :
                            alive'[d][k].gateway \in Range(Candidates(d))
                       /\ post'[d] # "unsent" =>
                            \E g \in Range(Candidates(d)) :
                               chosen'[d].url = g.url /\ chosen'[d].front = g.front
    BY DEF FarmInv, Candidates
  <1>1. /\ \A k \in DOMAIN alive[d] : alive[d][k].gateway \in Range(Candidates(d))
        /\ post[d] # "unsent" =>
             \E g \in Range(Candidates(d)) : chosen[d].url = g.url /\ chosen[d].front = g.front
    BY DEF FarmInv
  <1>2. \A k \in DOMAIN alive'[d] : alive'[d][k].gateway \in Range(Candidates(d))
    <2>1. CASE ProbeAlive(d)
      <3>1. PICK m : m.gateway = Candidate(d) /\ alive' = [alive EXCEPT ![d] = Append(alive[d], m)]
        BY <2>1 DEF ProbeAlive
      <3>2. alive[d] \in Seq(Survivor) /\ alive'[d] = Append(alive[d], m)
        BY <3>1 DEF Inv, TypeOK
      <3>3. Candidate(d) \in Range(Candidates(d))
        <4>1. next[d] \in DOMAIN Candidates(d)
          BY <2>1, LaunchAssumption DEF ProbeAlive, Probing, Inv, TypeOK, Candidates
        <4>. QED
          BY <4>1 DEF Candidate, Range
      <3>4. \A k \in 1..Len(alive[d]) + 1 :
              Append(alive[d], m)[k] = IF k <= Len(alive[d]) THEN alive[d][k] ELSE m
        BY <3>2
      <3>5. /\ Len(alive[d]) \in Nat /\ DOMAIN alive[d] = 1..Len(alive[d])
            /\ DOMAIN Append(alive[d], m) = 1..Len(alive[d]) + 1
        BY <3>2
      <3>. QED
        BY <1>1, <3>1, <3>2, <3>3, <3>4, <3>5
    <2>2. CASE alive'[d] = alive[d] \/ alive'[d] = <<>>
      BY <1>1, <2>2
    <2>. QED
      BY <2>1, <2>2, SurvivorStep
  <1>3. ASSUME post'[d] # "unsent"
        PROVE  \E g \in Range(Candidates(d)) :
                  chosen'[d].url = g.url /\ chosen'[d].front = g.front
    <2>1. CASE post[d] # "unsent"
      BY <1>1, <2>1, Frozen
    <2>2. CASE post[d] = "unsent"
      BY <1>1, <1>3, <2>2, SurvivorStep
    <2>. QED
      BY <2>1, <2>2
  <1>. QED
    BY <1>2, <1>3

\* What is said to gateways in a step.
LEMMA SentStep ==
    ASSUME Inv, [Next]_vars, NEW d \in Clicks
    PROVE  \A item \in sent'[d] :
              \/ item \in sent[d]
              \/ item[1] \in {"url", "scope", "cred"}
              \/ /\ post'[d] # "unsent"
                 /\ item \in {<<"assoc", Association(d)'>>, <<"proxy", Proxy(d)'>>}
  <1>. USE DEF talk, Fails
  <1>1. sent = [c \in Clicks |-> sent[c]] /\ post \in [Clicks -> {"unsent", "inflight", "handled"}]
    BY DEF Inv, TypeOK, TalkType
  <1>2. ASSUME NEW c \in Clicks, NEW call, Sends(c, call)
        PROVE  sent'[d] = IF c = d THEN sent[d] \cup call ELSE sent[d]
    BY <1>1, <1>2 DEF Sends
  <1>3. ASSUME NEW c \in Clicks, ChooseAndPost(c)
        PROVE  Sends(c, PreflightCall(c)') /\ post'[c] # "unsent"
    BY <1>1, <1>3 DEF ChooseAndPost
  <1>4. ASSUME NEW c \in Clicks, ProbeDead(c) \/ ProbeAlive(c) \/ Cancel(c)
        PROVE  \/ UNCHANGED sent
               \/ Sends(c, HeartbeatCall(Candidate(c)))
               \/ Sends(c, {})
    BY <1>4 DEF ProbeDead, ProbeAlive, Cancel
  <1>5. ASSUME NEW c \in Clicks,
               \/ ResolveIdentity(c) \/ ResolveTarget(c) \/ ReadSecret(c)
               \/ ResolveGateways(c) \/ ResolverFails(c) \/ SkipWeightless(c)
               \/ NoUsableGateway(c) \/ PreflightFails(c) \/ PreflightReturns(c)
               \/ MintFails(c) \/ Deliver(c) \/ GatewayStep(c) \/ Connect(c)
        PROVE  UNCHANGED sent
    BY <1>5 DEF ResolveIdentity, ResolveTarget, ReadSecret, ResolveGateways,
                ResolverFails, SkipWeightless, NoUsableGateway, PreflightFails,
                PreflightReturns, MintFails, Deliver, GatewayStep, GatewayProvisions,
                GatewayRefuses, Connect
  <1>6. CASE World \/ UNCHANGED vars
    BY <1>6 DEF World, EndSession, Redeclare, Reroute, Restart, vars
  <1>7. \A g : \A item \in HeartbeatCall(g) : item[1] \in {"url", "scope"}
    BY DEF HeartbeatCall
  <1>8. \A item \in PreflightCall(d)' :
           \/ item[1] \in {"url", "scope", "cred"}
           \/ item \in {<<"assoc", Association(d)'>>, <<"proxy", Proxy(d)'>>}
    BY DEF PreflightCall
  <1>. HIDE DEF talk, Fails
  <1>9. CASE \E c \in Clicks : ChooseAndPost(c)
    <2>1. PICK c \in Clicks : ChooseAndPost(c)
      BY <1>9
    <2>2. CASE c = d
      <3>1. Sends(d, PreflightCall(d)') /\ post'[d] # "unsent"
        BY <1>3, <2>1, <2>2
      <3>2. sent'[d] = sent[d] \cup PreflightCall(d)'
        BY <1>2, <3>1
      <3>. QED
        BY <1>8, <3>1, <3>2
    <2>3. CASE c # d
      BY <1>2, <1>3, <2>1, <2>3
    <2>. QED
      BY <2>2, <2>3
  <1>10. CASE \E c \in Clicks : ProbeDead(c) \/ ProbeAlive(c) \/ Cancel(c)
    <2>1. PICK c \in Clicks : ProbeDead(c) \/ ProbeAlive(c) \/ Cancel(c)
      BY <1>10
    <2>2. CASE UNCHANGED sent
      BY <2>2
    <2>3. CASE Sends(c, {})
      <3>1. sent'[d] = IF c = d THEN sent[d] \cup {} ELSE sent[d]
        BY <1>2, <2>3
      <3>. QED
        BY <3>1
    <2>4. CASE Sends(c, HeartbeatCall(Candidate(c)))
      <3>1. sent'[d] = IF c = d THEN sent[d] \cup HeartbeatCall(Candidate(c)) ELSE sent[d]
        BY <1>2, <2>4
      <3>. QED
        BY <1>7, <3>1
    <2>. QED
      BY <1>4, <2>1, <2>2, <2>3, <2>4
  <1>11. CASE UNCHANGED sent
    BY <1>11
  <1>12. \/ UNCHANGED sent \/ World \/ UNCHANGED vars
         \/ \E c \in Clicks : ChooseAndPost(c)
         \/ \E c \in Clicks : ProbeDead(c) \/ ProbeAlive(c) \/ Cancel(c)
    BY <1>5 DEF Next, Broker
  <1>. QED
    BY <1>6, <1>9, <1>10, <1>11, <1>12

\* What is said to a browser in a step: nothing, the one error text, or the result.
LEMMA AnswerStep ==
    ASSUME Inv, [Next]_vars, NEW d \in Clicks
    PROVE  \/ answer'[d] = answer[d] /\ (pc'[d] = "done" <=> pc[d] = "done")
           \/ pc'[d] = "failed" /\ answer'[d] = {<<"text", "rdp launch failed">>}
           \/ Deliver(d) /\ pc'[d] = "done" /\ answer'[d] = LaunchResult(d)
  <1>. USE DEF Goto, Fails, HandlerError, talk
  <1>1. /\ answer = [c \in Clicks |-> answer[c]]
        /\ pc \in [Clicks -> {"idle"} \cup Running \cup Ended]
    BY DEF Inv, TypeOK, TalkType
  <1>2. ASSUME NEW c \in Clicks,
               \/ ResolveIdentity(c) \/ ResolveTarget(c) \/ ReadSecret(c)
               \/ SkipWeightless(c) \/ ProbeDead(c) \/ ProbeAlive(c) \/ ChooseAndPost(c)
        PROVE  answer' = answer /\ (pc'[d] = "done" <=> pc[d] = "done")
    BY <1>1, <1>2 DEF ResolveIdentity, ResolveTarget, ReadSecret, SkipWeightless,
                      ProbeDead, ProbeAlive, ChooseAndPost, Probed
  <1>3. ASSUME NEW c \in Clicks,
               \/ ResolveGateways(c) \/ PreflightReturns(c) \/ ResolverFails(c)
               \/ NoUsableGateway(c) \/ PreflightFails(c) \/ MintFails(c) \/ Cancel(c)
        PROVE  \/ answer' = answer /\ (pc'[d] = "done" <=> pc[d] = "done")
               \/ /\ pc' = [pc EXCEPT ![c] = "failed"]
                  /\ answer' = [answer EXCEPT ![c] = {<<"text", "rdp launch failed">>}]
    BY <1>1, <1>3 DEF ResolveGateways, PreflightReturns, ResolverFails, NoUsableGateway,
                      PreflightFails, MintFails, Cancel
  <1>4. ASSUME NEW c \in Clicks, Deliver(c)
        PROVE  /\ pc' = [pc EXCEPT ![c] = "done"]
               /\ answer' = [answer EXCEPT ![c] = LaunchResult(c)]
    BY <1>4 DEF Deliver
  <1>5. ASSUME \/ \E c \in Clicks : GatewayStep(c) \/ Connect(c)
               \/ World \/ UNCHANGED vars
        PROVE  UNCHANGED <<pc, answer>>
    BY <1>5 DEF GatewayStep, GatewayProvisions, GatewayRefuses, Connect, World,
                EndSession, Redeclare, Reroute, Restart, vars
  <1>. HIDE DEF Goto, Fails, HandlerError, talk
  <1>6. CASE \E c \in Clicks : Deliver(c)
    BY <1>1, <1>4, <1>6
  <1>7. CASE \E c \in Clicks :
               \/ ResolveGateways(c) \/ PreflightReturns(c) \/ ResolverFails(c)
               \/ NoUsableGateway(c) \/ PreflightFails(c) \/ MintFails(c) \/ Cancel(c)
    BY <1>1, <1>3, <1>7
  <1>. QED
    BY <1>2, <1>5, <1>6, <1>7 DEF Next, Broker

LEMMA TalkStep == Inv /\ TalkInv /\ [Next]_vars => TalkInv'
  <1>. SUFFICES ASSUME Inv, TalkInv, [Next]_vars, NEW d \in Clicks
                PROVE  /\ \A item \in sent'[d] :
                            \/ item[1] \in {"url", "scope", "cred"}
                            \/ /\ post'[d] # "unsent"
                               /\ item \in {<<"assoc", Association(d)'>>, <<"proxy", Proxy(d)'>>}
                       /\ pc'[d] # "done" => answer'[d] \subseteq {<<"text", "rdp launch failed">>}
                       /\ pc'[d] = "done" => answer'[d] = LaunchResult(d)'
    BY DEF TalkInv
  <1>1. /\ \A item \in sent[d] :
             \/ item[1] \in {"url", "scope", "cred"}
             \/ /\ post[d] # "unsent"
                /\ item \in {<<"assoc", Association(d)>>, <<"proxy", Proxy(d)>>}
        /\ pc[d] # "done" => answer[d] \subseteq {<<"text", "rdp launch failed">>}
        /\ pc[d] = "done" => answer[d] = LaunchResult(d)
    BY DEF TalkInv
  <1>2. ASSUME post[d] # "unsent"
        PROVE  /\ post'[d] # "unsent" /\ LaunchResult(d)' = LaunchResult(d)
               /\ Association(d)' = Association(d) /\ Proxy(d)' = Proxy(d)
    <2>1. UNCHANGED <<target[d], password[d], chosen[d]>>
      BY <1>2, Frozen
    <2>2. Association(d)' = Association(d) /\ Proxy(d)' = Proxy(d)
      BY <2>1 DEF Association, AssocJti, Proxy, NewGuid
    <2>3. Descriptor(d)' = Descriptor(d)
      BY <2>1, <2>2 DEF Descriptor, BrowserBase, KdcUrl, KdcToken, AssocJti, NewGuid, QualifiedDomain
    <2>4. LaunchResult(d)' = LaunchResult(d)
      BY <2>1, <2>3 DEF LaunchResult, QualifiedDomain
    <2>. QED
      BY <1>2, <2>2, <2>4, PostStep
  <1>3. ASSUME NEW item \in sent'[d]
        PROVE  \/ item[1] \in {"url", "scope", "cred"}
               \/ /\ post'[d] # "unsent"
                  /\ item \in {<<"assoc", Association(d)'>>, <<"proxy", Proxy(d)'>>}
    BY <1>1, <1>2, <1>3, SentStep
  <1>4. pc[d] \in {"done", "provisioned"} => post[d] # "unsent"
    BY DEF Inv, PhaseInv
  <1>5. pc'[d] # "done" => answer'[d] \subseteq {<<"text", "rdp launch failed">>}
    BY <1>1, AnswerStep
  <1>6. pc'[d] = "done" => answer'[d] = LaunchResult(d)'
    BY <1>1, <1>2, <1>4, AnswerStep DEF Deliver
  <1>. QED
    BY <1>3, <1>5, <1>6

\* For any farms, any number of clicks and any order of their steps: nothing that
\* any launch sent to a gateway is in what a browser is told, be it a descriptor
\* with both its URLs and its display rows or an error, except the browser-facing
\* addresses of its workspace's farm and its own association token and proxy
\* credential (http.go:35-56, jetbroker.go:160-199).
THEOREM BrowserLearnsNoServerSide == Spec => []ServerSideOnly
  <1>1. Init => FarmInv /\ TalkInv
    BY DEF Init, FarmInv, TalkInv
  <1>2. Inv /\ FarmInv /\ TalkInv => ServerSideOnly
    <2>. SUFFICES ASSUME Inv, FarmInv, TalkInv, NEW c \in Clicks, NEW d \in Clicks,
                         NEW item \in answer[c], item \in sent[d]
                  PROVE  item \in ForBrowser(c)
      BY DEF ServerSideOnly
    <2>1. \/ item[1] \in {"url", "scope", "cred"}
          \/ /\ post[d] # "unsent"
             /\ item \in {<<"assoc", Association(d)>>, <<"proxy", Proxy(d)>>}
      BY DEF TalkInv
    <2>2. item[1] \in {"url", "scope", "cred", "assoc", "proxy"}
      BY <2>1
    <2>3. pc[c] = "done" /\ item \in LaunchResult(c)
      <3>1. item # <<"text", "rdp launch failed">>
        <4>1. ASSUME item = <<"text", "rdp launch failed">> PROVE item[1] = "text"
          BY ONLY <4>1
        <4>. QED
          BY <2>2, <4>1
      <3>. QED
        BY <3>1 DEF TalkInv
    <2>4. \A k \in Descriptor(c).kdc : k.base = BrowserBase(c)
      BY DEF Descriptor, KdcUrl
    <2>5. item \in {<<"url", BrowserBase(c)>>, <<"assoc", Association(c)>>, <<"proxy", Proxy(c)>>}
      <3>1. \/ item \in {<<"url", Descriptor(c).gateway>>, <<"assoc", Descriptor(c).assoc>>,
                         <<"proxy", Descriptor(c).proxy>>}
            \/ \E k \in Descriptor(c).kdc : item = <<"url", k.base>>
        BY <2>2, <2>3 DEF LaunchResult
      <3>2. /\ Descriptor(c).gateway = BrowserBase(c) /\ Descriptor(c).assoc = Association(c)
            /\ Descriptor(c).proxy = Proxy(c)
        BY DEF Descriptor
      <3>. QED
        BY <2>4, <3>1, <3>2
    <2>6. <<"url", BrowserBase(c)>> \in ForBrowser(c)
      <3>1. PICK g \in Range(Candidates(c)) : chosen[c].url = g.url /\ chosen[c].front = g.front
        BY <2>3 DEF FarmInv, Inv, PhaseInv
      <3>2. BrowserBase(c) = BrowserAddress(g)
        BY <3>1 DEF BrowserBase, BrowserAddress
      <3>. QED
        BY <3>2 DEF ForBrowser
    <2>. QED
      BY <2>5, <2>6 DEF ForBrowser
  <1>. QED
    BY <1>1, <1>2, FarmStep, TalkStep, Invariance, PTL DEF Spec

-----------------------------------------------------------------------------
(* The launches implement LaunchPromise: the initial states map to initial *)
(* states, and every step to a step of the abstract specification or to a  *)
(* stutter.                                                                *)

LEMMA RefineInit == Init => Promise!Init
  <1>. SUFFICES ASSUME Init PROVE Promise!Init
    OBVIOUS
  <1>1. Phases = [c \in Clicks |-> "pending"]
    BY DEF Init, Phases
  <1>2. Held = [c \in Clicks |-> {}] /\ Forgotten = [c \in Clicks |-> {}]
    BY DEF Init, Held, Forgotten
  <1>3. Up = {}
    BY DEF Init, Up
  <1>. QED
    BY <1>1, <1>2, <1>3 DEF Promise!Init

\* Before its request was handled, a click's credential is nowhere.
LEMMA NowhereYet ==
    ASSUME StoreInv, NEW d \in Clicks, post[d] # "handled", NEW i \in Instances
    PROVE  \A m \in vault[i] \cup lost[i] : m.jti # AssocJti(d)
  BY MappingOwner

\* When no vault changes, neither does what the clicks have stored: a mapping can
\* only change before its request is out, when it is nowhere.
LEMMA HeldUnchanged ==
    ASSUME Inv, [Next]_vars, UNCHANGED <<vault, lost>>
    PROVE  UNCHANGED <<Held, Forgotten>>
  <1>1. ASSUME NEW d \in Clicks, NEW i \in Instances
        PROVE  /\ Mapping(d)' \in vault[i] <=> Mapping(d) \in vault[i]
               /\ Mapping(d)' \in lost[i] <=> Mapping(d) \in lost[i]
    <2>1. CASE post[d] # "unsent"
      <3>1. Mapping(d)' = Mapping(d)
        BY <2>1, Frozen
      <3>. QED
        BY <3>1
    <2>2. CASE post[d] = "unsent"
      <3>1. Mapping(d).jti = AssocJti(d) /\ Mapping(d)'.jti = AssocJti(d)
        BY DEF Mapping, AssocJti, NewGuid
      <3>2. \A m \in vault[i] \cup lost[i] : m.jti # AssocJti(d)
        BY <2>2, NowhereYet DEF Inv
      <3>. QED
        BY <3>1, <3>2
    <2>. QED
      BY <2>1, <2>2
  <1>. QED
    BY <1>1 DEF Held, Forgotten

\* A step of Launch itself: a click is delivered, or fails, or nothing shows.
LEMMA RefineBroker ==
    ASSUME Inv, [Next]_vars, NEW c \in Clicks, Broker(c) \/ Cancel(c)
    PROVE  Promise!Deliver(c) \/ Promise!Fail(c) \/ UNCHANGED Promise!vars
  <1>1. UNCHANGED <<vault, lost, open>>
    BY DEF Broker, ResolveIdentity, ResolveTarget, ReadSecret, ResolveGateways,
           ResolverFails, SkipWeightless, ProbeDead, ProbeAlive, NoUsableGateway,
           ChooseAndPost, PreflightFails, PreflightReturns, MintFails, Deliver,
           Cancel, players
  <1>2. UNCHANGED <<Held, Forgotten, Up>>
    BY <1>1, HeldUnchanged DEF Up
  <1>3. pc \in [Clicks -> {"idle"} \cup Running \cup Ended]
    BY DEF Inv, TypeOK
  <1>4. \/ Deliver(c)
        \/ pc[c] \notin Ended /\ pc' = [pc EXCEPT ![c] = "failed"]
        \/ \E where \in Running : pc[c] \notin Ended /\ pc' = [pc EXCEPT ![c] = where]
        \/ pc' = pc
    BY DEF Broker, ResolveIdentity, ResolveTarget, ReadSecret, ResolveGateways,
           ResolverFails, SkipWeightless, ProbeDead, ProbeAlive, NoUsableGateway,
           ChooseAndPost, PreflightFails, PreflightReturns, MintFails,
           Cancel, Goto, Fails, Running, Ended, Probing, Probed
  <1>5. CASE Deliver(c)
    <2>1. pc[c] = "provisioned" /\ pc' = [pc EXCEPT ![c] = "done"]
      BY <1>5 DEF Deliver, Goto
    <2>2. Phases[c] = "pending" /\ Phases' = [Phases EXCEPT ![c] = "delivered"]
      BY <1>3, <2>1 DEF Phases
    <2>3. Held[c] \cup Forgotten[c] # {}
      <3>1. Served(c)
        BY <2>1 DEF Inv, ServedInv
      <3>. QED
        BY <3>1 DEF Served, Held, Forgotten
    <2>. QED
      BY <1>2, <2>2, <2>3 DEF Promise!Deliver
  <1>6. CASE pc[c] \notin Ended /\ pc' = [pc EXCEPT ![c] = "failed"]
    <2>1. Phases[c] = "pending" /\ Phases' = [Phases EXCEPT ![c] = "failed"]
      BY <1>3, <1>6 DEF Phases, Ended
    <2>. QED
      BY <1>2, <2>1 DEF Promise!Fail
  <1>7. CASE \E where \in Running : pc[c] \notin Ended /\ pc' = [pc EXCEPT ![c] = where]
    <2>1. Phases' = Phases
      BY <1>3, <1>7 DEF Phases, Ended, Running
    <2>. QED
      BY <1>2, <2>1 DEF Promise!vars
  <1>8. CASE pc' = pc
    BY <1>2, <1>8 DEF Promise!vars, Phases
  <1>. QED
    BY <1>4, <1>5, <1>6, <1>7, <1>8

LEMMA RefineProvision ==
    ASSUME Inv, [Next]_vars, NEW c \in Clicks, NEW i \in Instances, GatewayProvisions(c, i)
    PROVE  Promise!Store(c, i)
  <1>1. /\ post[c] = "inflight" /\ UNCHANGED <<pc, lost, open>>
        /\ \A d \in Clicks : Mapping(d)' = Mapping(d)
    BY DEF GatewayProvisions, Reaches, players, locals, Mapping, AssocJti, Proxy,
           NewGuid, TargetCred, QualifiedDomain
  <1>2. \A j \in Instances : \A m \in vault[j] \cup lost[j] : m.jti # AssocJti(c)
    BY <1>1, NowhereYet DEF Inv
  <1>3. Mapping(c).jti = AssocJti(c)
    BY DEF Mapping
  <1>4. vault' = [vault EXCEPT ![i] = vault[i] \cup {Mapping(c)}]
    <2>1. {m \in vault[i] : m.jti = Mapping(c).jti} = {}
      BY <1>2, <1>3
    <2>. QED
      BY <2>1 DEF GatewayProvisions
  <1>5. vault \in [Instances -> SUBSET Mappings]
    BY DEF Inv, TypeOK
  <1>6. Held[c] \cup Forgotten[c] = {}
    BY <1>2, <1>3 DEF Held, Forgotten
  <1>7. Held' = [Held EXCEPT ![c] = {i}]
    <2>1. ASSUME NEW d \in Clicks
          PROVE  Held'[d] = IF d = c THEN {i} ELSE Held[d]
      <3>1. Held'[d] = {j \in Instances : Mapping(d) \in vault'[j]}
        BY <1>1 DEF Held
      <3>2. Held[d] = {j \in Instances : Mapping(d) \in vault[j]}
        BY DEF Held
      <3>3. d # c => Mapping(d) # Mapping(c)
        <4>1. Mapping(d).jti = AssocJti(d)
          BY DEF Mapping
        <4>. QED
          BY <1>3, <4>1, GuidsDiffer DEF AssocJti
      <3>4. \A j \in Instances : vault'[j] = IF j = i THEN vault[i] \cup {Mapping(c)} ELSE vault[j]
        BY <1>4, <1>5
      <3>5. CASE d = c
        <4>1. \A j \in Instances : Mapping(c) \notin vault[j]
          BY <1>2, <1>3
        <4>. QED
          BY <3>1, <3>4, <3>5, <4>1
      <3>6. CASE d # c
        BY <3>1, <3>2, <3>3, <3>4, <3>6
      <3>. QED
        BY <3>5, <3>6
    <2>. QED
      BY <2>1 DEF Held
  <1>8. UNCHANGED <<Phases, Forgotten, Up>>
    BY <1>1 DEF Phases, Forgotten, Up
  <1>9. Phases[c] # "delivered"
    <2>1. pc[c] # "done"
      <3>1. ASSUME Served(c) PROVE FALSE
        BY <1>2, <1>3, <3>1 DEF Served
      <3>. QED
        BY <3>1 DEF Inv, ServedInv
    <2>. QED
      BY <2>1 DEF Phases
  <1>. QED
    BY <1>6, <1>7, <1>8, <1>9 DEF Promise!Store

LEMMA RefineConnect ==
    ASSUME Inv, [Next]_vars, NEW c \in Clicks, Connect(c)
    PROVE  \E i \in Instances : Promise!Open(c, i)
  <1>1. PICK i \in Instances :
          /\ Mapping(c) \in vault[i]
          /\ open' = open \cup {[click |-> c, at |-> i,
                                 dst |-> Association(c).dst, cred |-> TargetCred(c)]}
    <2>1. PICK i \in Instances : \E m \in vault[i] :
            /\ Admits(i, Descriptor(c), m)
            /\ open' = open \cup {[click |-> c, at |-> i,
                                   dst |-> Association(c).dst, cred |-> m.cred]}
      BY DEF Connect
    <2>2. PICK m \in vault[i] :
            /\ Admits(i, Descriptor(c), m)
            /\ open' = open \cup {[click |-> c, at |-> i,
                                   dst |-> Association(c).dst, cred |-> m.cred]}
      BY <2>1
    <2>3. m = Mapping(c)
      BY <2>2, MappingOwner DEF Inv, Admits, Descriptor, Association
    <2>4. m.cred = TargetCred(c)
      BY <2>3 DEF Mapping
    <2>. QED
      BY <2>2, <2>3, <2>4
  <1>2. pc[c] = "done" /\ c \notin played /\ UNCHANGED <<pc, vault, lost>>
    BY DEF Connect
  <1>3. Phases[c] = "delivered" /\ Phases' = Phases
    BY <1>2 DEF Phases
  <1>4. UNCHANGED <<Held, Forgotten>>
    BY <1>2, HeldUnchanged
  <1>5. i \in Held[c]
    BY <1>1 DEF Held
  <1>6. \A j \in Instances : <<c, j>> \notin Up
    BY <1>2 DEF Up, Inv, SessionInv
  <1>7. Up' = Up \cup {<<c, i>>}
    <2>. DEFINE r == [click |-> c, at |-> i, dst |-> Association(c).dst, cred |-> TargetCred(c)]
    <2>1. open' = open \cup {r} /\ r.click = c /\ r.at = i
      BY <1>1
    <2>. HIDE DEF r
    <2>2. Up' = {<<s.click, s.at>> : s \in open \cup {r}}
      BY <2>1 DEF Up
    <2>. QED
      BY <2>1, <2>2 DEF Up
  <1>. QED
    BY <1>3, <1>4, <1>5, <1>6, <1>7 DEF Promise!Open

LEMMA RefineEndSession ==
    ASSUME Inv, [Next]_vars, NEW s \in open, EndSession(s)
    PROVE  Promise!Close(s.click, s.at)
  <1>1. open' = open \ {s} /\ UNCHANGED <<pc, vault, lost>>
    BY DEF EndSession
  <1>2. UNCHANGED <<Held, Forgotten, Phases>>
    BY <1>1, HeldUnchanged DEF Phases
  <1>3. Up' = Up \ {<<s.click, s.at>>}
    <2>1. \A t \in open : t # s => <<t.click, t.at>> # <<s.click, s.at>>
      BY DEF Inv, SessionInv
    <2>. QED
      BY <1>1, <2>1 DEF Up
  <1>. QED
    BY <1>2, <1>3 DEF Promise!Close

LEMMA RefineRestart ==
    ASSUME Inv, [Next]_vars, NEW i \in Instances, Restart(i)
    PROVE  Promise!Forget(i)
  <1>1. /\ vault' = [vault EXCEPT ![i] = {}]
        /\ lost' = [lost EXCEPT ![i] = lost[i] \cup vault[i]]
        /\ open' = {s \in open : s.at # i}
        /\ UNCHANGED <<pc, locals>>
    BY DEF Restart
  <1>2. /\ vault \in [Instances -> SUBSET Mappings] /\ lost \in [Instances -> SUBSET Mappings]
    BY DEF Inv, TypeOK
  <1>3. \A c \in Clicks : Mapping(c)' = Mapping(c)
    BY <1>1 DEF locals, Mapping, AssocJti, Proxy, NewGuid, TargetCred, QualifiedDomain
  <1>4. Held' = [c \in Clicks |-> Held[c] \ {i}]
    <2>1. \A c \in Clicks : Held'[c] = Held[c] \ {i}
      BY <1>1, <1>2, <1>3 DEF Held
    <2>. QED
      BY <2>1 DEF Held
  <1>5. Forgotten' = [c \in Clicks |-> Forgotten[c] \cup (IF i \in Held[c] THEN {i} ELSE {})]
    <2>1. ASSUME NEW c \in Clicks
          PROVE  Forgotten'[c] = Forgotten[c] \cup (IF i \in Held[c] THEN {i} ELSE {})
      <3>1. Forgotten'[c] = {j \in Instances : Mapping(c) \in lost'[j]}
        BY <1>3 DEF Forgotten
      <3>2. \A j \in Instances : lost'[j] = IF j = i THEN lost[i] \cup vault[i] ELSE lost[j]
        BY <1>1, <1>2
      <3>3. i \in Held[c] <=> Mapping(c) \in vault[i]
        BY DEF Held
      <3>4. Forgotten[c] = {j \in Instances : Mapping(c) \in lost[j]}
        BY DEF Forgotten
      <3>. QED
        BY <3>1, <3>2, <3>3, <3>4
    <2>. QED
      BY <2>1 DEF Forgotten
  <1>6. Up' = {u \in Up : u[2] # i}
    BY <1>1 DEF Up
  <1>7. Phases' = Phases
    BY <1>1 DEF Phases
  <1>. QED
    BY <1>4, <1>5, <1>6, <1>7 DEF Promise!Forget

LEMMA RefineStep == Inv /\ [Next]_vars => [Promise!Next]_(Promise!vars)
  <1>. SUFFICES ASSUME Inv, [Next]_vars
                PROVE  Promise!Next \/ UNCHANGED Promise!vars
    OBVIOUS
  <1>1. ASSUME NEW c \in Clicks, Broker(c) \/ Cancel(c)
        PROVE  Promise!Next \/ UNCHANGED Promise!vars
    BY <1>1, RefineBroker DEF Promise!Next
  <1>2. ASSUME NEW c \in Clicks, NEW i \in Instances, GatewayProvisions(c, i)
        PROVE  Promise!Next
    BY <1>2, RefineProvision DEF Promise!Next
  <1>3. ASSUME NEW c \in Clicks, Connect(c)
        PROVE  Promise!Next
    BY <1>3, RefineConnect DEF Promise!Next
  <1>4. ASSUME NEW s \in open, EndSession(s)
        PROVE  Promise!Next
    <2>1. s.click \in Clicks /\ s.at \in Instances
      BY DEF Inv, TypeOK, Sessions
    <2>. QED
      BY <1>4, <2>1, RefineEndSession DEF Promise!Next
  <1>5. ASSUME NEW i \in Instances, Restart(i)
        PROVE  Promise!Next
    BY <1>5, RefineRestart DEF Promise!Next
  <1>6. ASSUME \/ \E c \in Clicks, i \in Instances : GatewayRefuses(c, i)
               \/ \E w \in Workspaces : Redeclare(w)
               \/ \E u \in Urls : Reroute(u)
               \/ UNCHANGED vars
        PROVE  UNCHANGED Promise!vars
    <2>1. UNCHANGED <<pc, vault, lost, open>>
      BY <1>6 DEF GatewayRefuses, Redeclare, Reroute, players, vars
    <2>2. UNCHANGED <<Held, Forgotten>>
      BY <2>1, HeldUnchanged
    <2>. QED
      BY <2>1, <2>2 DEF Promise!vars, Phases, Up
  <1>. QED
    BY <1>1, <1>2, <1>3, <1>4, <1>5, <1>6 DEF Next, World, GatewayStep

\* The launches implement the promise, for any farms and any number of clicks,
\* instances and moves.
THEOREM LaunchImplementsPromise == Spec => ImplementsPromise
  BY RefineInit, RefineStep, Invariance, PTL DEF Spec, ImplementsPromise, Promise!Spec
=============================================================================
