--------------------------- MODULE LifetimesProofs ---------------------------
(***************************************************************************)
(* Types and the lifetimes of tokens and credentials, for farms of any     *)
(* size, any timeout and leeway, and any environment.                      *)
(***************************************************************************)
EXTENDS Lifetimes, TLAPS

\* What becomes of a TTL nobody set: the default (main.go:118-132,
\* jetbroker.go:48-50).
BootInv ==
    /\ pc # "idle" => step = "serving"
    /\ step \in {"key", "ttl", "client", "gateway"} => ~InHost
    /\ NoTTLSet =>
          /\ step \in {"key", "ttl", "client", "gateway", "new"} => cfg.ttl = 0
          /\ step \in {"listen", "serving"} => cfg.ttl = DefaultTTL

\* The time the calls so far may have taken.
Spent(calls) == begun + calls * Timeout

\* Where the clock can be at each call (farm.go:59-69, jetbroker.go:149-151).
CallInv ==
    /\ pc = "heartbeat" => next <= Members
    /\ Calling => called <= now
    /\ Calling /\ Timed => now <= called + Timeout
    /\ Timed =>
          /\ pc = "probe" => now <= Spent(next - 1)
          /\ pc = "heartbeat" => called <= Spent(next - 1)
          /\ pc = "preflight" => called <= Spent(Members)

\* When the tokens that are in use were minted, and the mapping was stored
\* (token.go:58-65, jetbroker.go:138-160).
MintInv ==
    /\ pc \in {"idle", "probe", "heartbeat"} => verdict = "none"
    /\ pc = "heartbeat" => token["heartbeat"] = Registered(called, AssocLifetime)
    /\ pc \in {"preflight", "done"} =>
          /\ chosen \in Farm
          /\ token["association"] = Registered(called, AssocLifetime)
          /\ token["scope"] = Registered(called, AssocLifetime)
          /\ verdict = "ack" => called + cfg.ttl <= expiry
    /\ pc = "done" =>
          /\ verdict = "ack"
          /\ called <= delivered /\ delivered <= now
          /\ Timed => delivered <= called + Timeout
          /\ token["kdc"] = Registered(delivered, AssocLifetime)
          /\ token["webapp"] = Registered(delivered, WebAppLifetime)

Inv == TypeOK /\ BootInv /\ CallInv /\ MintInv

-----------------------------------------------------------------------------
LEMMA Multiples ==
    ASSUME NEW T \in Nat, NEW m \in Nat, NEW n \in Nat, m <= n
    PROVE  m * T <= n * T /\ (m + 1) * T = m * T + T
OBVIOUS

LEMMA InitInv == Init => Inv
<1> SUFFICES ASSUME Init PROVE Inv
  OBVIOUS
<1>1. /\ settings \in Environments \cup {NoSettings}
      /\ given \in Config /\ cfg = given /\ adapters \subseteq Ports
      /\ InHost => step = "new"
      /\ ~InHost => step = "key" /\ cfg.ttl = 0
  <2>1. zero \in Config /\ zero.ttl = 0
    BY DEF zero, Config
  <2>2. HostConfigs \subseteq Config /\ NoSettings \notin Environments
    BY BootAssumption
  <2> QED
    BY <2>1, <2>2 DEF Init, BootInit, InHost
<1>2. TypeOK
  <2>1. token \in [Kinds -> Claims]
    BY DEF Init, Registered, Claims
  <2>2. skew \in [Farm -> Skews] /\ next \in 1..(Members + 1)
    BY LifetimesAssumption DEF Init
  <2> QED
    BY <1>1, <2>1, <2>2 DEF Init, TypeOK
<1> QED
  BY <1>1, <1>2, LifetimesAssumption DEF Init, Inv, BootInv, NoTTLSet, CallInv, MintInv, Calling

\* While a launch is under way the process serves, and boots no more.
LEMMA BootStep ==
    ASSUME Inv, BootNext, UNCHANGED launchVars
    PROVE  Inv'
<1>1. pc = "idle" /\ step \in {"key", "ttl", "client", "gateway", "new", "listen"}
  BY DEF Inv, BootInv, BootNext, ReadKey, KeyUnusable, ReadTTL, TTLRefused, ReadClient,
     ReadGateway, NoGatewayUrl, New, NewRefuses, Listen
<1> DEFINE Boots == /\ settings' = settings /\ given' = given /\ adapters' \subseteq Ports
                    /\ step' \in {"key", "ttl", "client", "gateway", "new", "listen",
                                  "serving", "exited", "unbound"}
<1>2. Boots /\ cfg' \in Config /\ BootInv'
  <2> DEFINE Set == settings # NoSettings => settings \in Settings
  <2>1. /\ cfg \in Config /\ adapters \subseteq Ports /\ Set
        /\ BootInv
        /\ settings' = settings /\ given' = given
        /\ (InHost' <=> InHost) /\ (NoTTLSet' <=> NoTTLSet)
    <3>1. settings' = settings /\ given' = given
      BY DEF BootNext, ReadKey, KeyUnusable, ReadTTL, TTLRefused, ReadClient,
         ReadGateway, NoGatewayUrl, New, NewRefuses, Listen, Exit
    <3> QED
      BY <3>1, BootAssumption DEF Inv, TypeOK, InHost, NoTTLSet
  <2>2. CASE ReadKey
    <3> DEFINE redirect == Truthy(settings.redirect) \/ settings.playerUrl
    <3>1. redirect \in BOOLEAN
      BY Zenon
    <3>2. cfg' = [cfg EXCEPT !.key = TRUE, !.secret = TRUE, !.redirect = redirect]
      BY <2>2 DEF ReadKey
    <3> HIDE DEF redirect
    <3>3. cfg' \in Config /\ cfg'.ttl = cfg.ttl
      BY ONLY <2>1, <3>1, <3>2 DEF Config
    <3> QED
      BY <1>1, <2>1, <2>2, <3>3 DEF ReadKey, BootInv, launchVars
  <2>3. CASE ReadTTL
    <3>1. settings.ttl # Unset => settings.ttl \in Int
      BY <2>1, <2>3, BootAssumption DEF ReadTTL, Settings, BootInv, InHost
    <3>2. cfg' \in Config
      BY <2>1, <2>3, <3>1 DEF ReadTTL, Config
    <3> QED
      BY <1>1, <2>1, <2>3, <3>2 DEF ReadTTL, BootInv, NoTTLSet, launchVars, Config
  <2>4. CASE ReadClient
    BY <1>1, <2>1, <2>4 DEF ReadClient, BootInv, launchVars, Config
  <2>5. CASE New
    <3> DEFINE ttl == IF cfg.ttl = 0 THEN DefaultTTL ELSE cfg.ttl
               client == IF cfg.client = "none" THEN "timed" ELSE cfg.client
    <3>1. ttl \in Int /\ client \in {"none", "timed", "untimed"}
      BY <2>1, BootAssumption DEF Config
    <3>2. cfg' = [cfg EXCEPT !.ttl = ttl, !.client = client]
      BY <2>1, <2>5 DEF New, Defaults, Config
    <3>3. cfg' \in Config /\ cfg'.ttl = ttl
      <4> HIDE DEF ttl, client
      <4> QED
        BY ONLY <2>1, <3>1, <3>2 DEF Config
    <3> QED
      BY <1>1, <2>1, <2>5, <3>3 DEF New, BootInv, launchVars
  <2>6. CASE ReadGateway
    BY <1>1, <2>1, <2>6 DEF ReadGateway, EnvAdapters, BootInv, launchVars
  <2>7. CASE Listen
    BY <1>1, <2>1, <2>7 DEF Listen, BootInv, launchVars
  <2>8. CASE KeyUnusable \/ TTLRefused \/ NoGatewayUrl \/ NewRefuses
    BY <1>1, <2>1, <2>8 DEF KeyUnusable, TTLRefused, NoGatewayUrl, NewRefuses, Exit,
       BootInv, launchVars
  <2> QED
    BY <2>2, <2>3, <2>4, <2>5, <2>6, <2>7, <2>8 DEF BootNext
<1>3. TypeOK'
  BY <1>2 DEF Inv, TypeOK, launchVars
<1>4. CallInv' /\ MintInv'
  BY <1>1 DEF Inv, CallInv, MintInv, launchVars, Calling, Spent
<1> QED
  BY <1>2, <1>3, <1>4 DEF Inv

\* The steps of a launch, each with the claims it mints and the time it may
\* have taken (farm.go:59-69, jetbroker.go:130-199).
LEMMA LaunchStepInv ==
    ASSUME Inv, LaunchStep
    PROVE  Inv'
<1>1. /\ TypeOK /\ BootInv /\ CallInv /\ MintInv
      /\ UNCHANGED bootVars /\ skew' = skew
  BY DEF Inv, LaunchStep, Begin, Probe, HeartbeatAnswered, HeartbeatFails, NoUsableGateway,
     Choose, GatewayProvisions, PreflightFails, Deliver, Tick
<1>2. /\ Members \in Nat /\ Timeout \in Nat /\ AssocLifetime \in Nat /\ WebAppLifetime \in Nat
  BY LifetimesAssumption
<1>3. /\ settings' = settings /\ given' = given /\ step' = step /\ cfg' = cfg
      /\ adapters' = adapters
      /\ Timed' = Timed /\ InHost' = InHost /\ NoTTLSet' = NoTTLSet
  BY <1>1 DEF bootVars, Timed, InHost, NoTTLSet
<1>4. /\ next \in 1..(Members + 1) /\ now \in Nat /\ called \in Nat /\ begun \in Nat
      /\ delivered \in Nat /\ expiry \in Nat
      /\ token \in [Kinds -> Claims] /\ alive \subseteq Farm /\ chosen \in Farm \cup {0}
      /\ cfg.ttl \in Int
  BY <1>1 DEF TypeOK, Config
<1>5. next * Timeout = (next - 1) * Timeout + Timeout /\ Members * Timeout \in Nat
  BY <1>2, <1>4, Multiples
<1>6. \A t, ttl \in Nat : Registered(t, ttl) \in Claims
  BY DEF Registered, Claims
<1>7. step = "serving" => BootInv'
  BY <1>1, <1>3 DEF BootInv
<1>8. CASE Begin
  <2>1. TypeOK' /\ step = "serving"
    BY <1>1, <1>3, <1>8, <1>4 DEF Begin, TypeOK
  <2>2. CallInv'
    BY <1>1, <1>3, <1>4, <1>5, <1>2, <1>8 DEF Begin, CallInv, Calling, Spent
  <2>3. MintInv'
    BY <1>1, <1>3, <1>8 DEF Begin, MintInv
  <2> QED
    BY <1>7, <2>1, <2>2, <2>3 DEF Inv
<1>9. CASE Probe
  <2>1. token' = [token EXCEPT !["heartbeat"] = Registered(now, AssocLifetime)]
    BY <1>9 DEF Probe
  <2>2. token' \in [Kinds -> Claims]
    BY <1>2, <1>4, <1>6, <2>1
  <2>3. TypeOK' /\ step = "serving"
    BY <1>1, <1>3, <1>9, <2>2 DEF Probe, TypeOK, BootInv
  <2>4. CallInv'
    BY <1>1, <1>3, <1>4, <1>5, <1>2, <1>9 DEF Probe, CallInv, Calling, Spent
  <2>5. MintInv'
    BY <1>1, <1>3, <1>4, <1>9, <2>1 DEF Probe, MintInv, Kinds
  <2> QED
    BY <1>7, <2>3, <2>4, <2>5 DEF Inv
<1>10. CASE HeartbeatAnswered \/ HeartbeatFails
  <2>1. /\ pc = "heartbeat" /\ pc' = "probe" /\ next' = next + 1 /\ alive' \subseteq Farm
        /\ UNCHANGED <<now, begun, called, token, chosen, verdict, expiry, delivered>>
    <3>1. next \in Farm
      BY <1>1, <1>2, <1>4, <1>10 DEF HeartbeatAnswered, HeartbeatFails, CallInv, Farm
    <3> QED
      BY <1>4, <1>10, <3>1 DEF HeartbeatAnswered, HeartbeatFails
  <2>2. TypeOK' /\ step = "serving"
    BY <1>1, <1>2, <1>3, <1>4, <2>1 DEF TypeOK, BootInv, CallInv
  <2>3. CallInv'
    BY <1>1, <1>2, <1>3, <1>4, <1>5, <2>1 DEF CallInv, Calling, Spent
  <2>4. MintInv'
    BY <1>1, <2>1 DEF MintInv
  <2> QED
    BY <1>7, <2>2, <2>3, <2>4 DEF Inv
<1>11. CASE NoUsableGateway \/ PreflightFails
  <2>1. /\ pc # "idle" /\ pc' = "failed"
        /\ UNCHANGED <<now, next, begun, called, token, alive, chosen, verdict, expiry, delivered>>
    BY <1>11 DEF NoUsableGateway, PreflightFails
  <2> QED
    BY <1>1, <1>3, <1>7, <2>1 DEF Inv, TypeOK, BootInv, CallInv, MintInv, Calling
<1>12. CASE Choose
  <2>1. token' = [token EXCEPT !["association"] = Registered(now, AssocLifetime),
                               !["scope"] = Registered(now, AssocLifetime)]
    BY <1>12 DEF Choose
  <2>2. /\ token' \in [Kinds -> Claims]
        /\ token'["association"] = Registered(now, AssocLifetime)
        /\ token'["scope"] = Registered(now, AssocLifetime)
    BY <1>2, <1>4, <1>6, <2>1 DEF Kinds
  <2>3. TypeOK' /\ step = "serving"
    BY <1>1, <1>3, <1>4, <1>12, <2>2 DEF Choose, TypeOK, BootInv
  <2>4. next = Members + 1
    BY <1>2, <1>4, <1>12 DEF Choose
  <2>5. CallInv'
    BY <1>1, <1>2, <1>3, <1>4, <1>12, <2>4 DEF Choose, CallInv, Calling, Spent
  <2>6. MintInv'
    BY <1>1, <1>3, <1>4, <1>12, <2>2 DEF Choose, MintInv
  <2> QED
    BY <1>7, <2>3, <2>5, <2>6 DEF Inv
<1>13. CASE GatewayProvisions
  <2>1. TypeOK' /\ step = "serving"
    BY <1>1, <1>3, <1>4, <1>13 DEF GatewayProvisions, TypeOK, BootInv
  <2>2. CallInv'
    BY <1>1, <1>3, <1>13 DEF GatewayProvisions, CallInv, Calling, Spent
  <2>3. MintInv'
    BY <1>1, <1>3, <1>4, <1>13 DEF GatewayProvisions, MintInv, CallInv, Calling
  <2> QED
    BY <1>7, <2>1, <2>2, <2>3 DEF Inv
<1>14. CASE Deliver
  <2>1. token' = [token EXCEPT !["kdc"] = Registered(now, AssocLifetime),
                               !["webapp"] = Registered(now, WebAppLifetime)]
    BY <1>14 DEF Deliver
  <2>2. /\ token' \in [Kinds -> Claims]
        /\ token'["kdc"] = Registered(now, AssocLifetime)
        /\ token'["webapp"] = Registered(now, WebAppLifetime)
        /\ token'["association"] = token["association"]
        /\ token'["scope"] = token["scope"]
    BY <1>2, <1>4, <1>6, <2>1 DEF Kinds
  <2>3. TypeOK' /\ step = "serving"
    BY <1>1, <1>3, <1>4, <1>14, <2>2 DEF Deliver, TypeOK, BootInv
  <2>4. CallInv'
    BY <1>1, <1>3, <1>14 DEF Deliver, CallInv, Calling
  <2>5. MintInv'
    BY <1>1, <1>3, <1>4, <1>14, <2>2 DEF Deliver, MintInv, CallInv, Calling
  <2> QED
    BY <1>7, <2>3, <2>4, <2>5 DEF Inv
<1>15. CASE Tick
  <2>1. TypeOK' /\ step = "serving"
    BY <1>1, <1>3, <1>4, <1>15 DEF Tick, Calling, TypeOK, BootInv
  <2>2. CallInv'
    BY <1>1, <1>2, <1>3, <1>4, <1>15 DEF Tick, CallInv, Calling, Spent
  <2>3. MintInv'
    BY <1>1, <1>3, <1>4, <1>15 DEF Tick, MintInv, Calling
  <2> QED
    BY <1>7, <2>1, <2>2, <2>3 DEF Inv
<1> QED
  BY <1>8, <1>9, <1>10, <1>11, <1>12, <1>13, <1>14, <1>15 DEF LaunchStep

THEOREM InvHolds == Spec => []Inv
<1>1. Inv /\ [Next]_vars => Inv'
  <2> SUFFICES ASSUME Inv, [Next]_vars PROVE Inv'
    OBVIOUS
  <2>1. CASE UNCHANGED vars
    BY <2>1 DEF vars, bootVars, launchVars, Inv, TypeOK, BootInv, CallInv, MintInv,
       Calling, Timed, Spent, InHost, NoTTLSet
  <2> QED
    BY <2>1, BootStep, LaunchStepInv DEF Next
<1> QED
  BY InitInv, <1>1, PTL DEF Spec

-----------------------------------------------------------------------------
\* Every token, and the time of every call, keep their types: a launch probes no
\* member beyond the farm's last (farm.go:59-69).
THEOREM LifetimesTypeCorrect == Spec => []TypeOK
<1>1. Inv => TypeOK
  BY DEF Inv
<1> QED
  BY InvHolds, <1>1, PTL

\* A launch over a farm of any size is answered within one timeout per member
\* and one for the preflight request (farm.go:59-69, jetbroker.go:51-56).
THEOREM LaunchesAnswerInTime == Spec => []AnsweredInTime
<1>1. Inv => AnsweredInTime
  <2> SUFFICES ASSUME Inv, Timed, pc \in {"probe", "heartbeat", "preflight"}
               PROVE  now <= begun + (Members + 1) * Timeout
    BY DEF AnsweredInTime
  <2>1. /\ next - 1 \in Nat /\ next - 1 <= Members /\ Members \in Nat /\ Timeout \in Nat
        /\ now \in Nat /\ called \in Nat /\ begun \in Nat
    BY LifetimesAssumption DEF Inv, TypeOK
  <2>2. /\ (next - 1) * Timeout <= Members * Timeout
        /\ (Members + 1) * Timeout = Members * Timeout + Timeout
    BY <2>1, Multiples
  <2>3. (next - 1) * Timeout \in Nat /\ Members * Timeout \in Nat
    BY <2>1
  <2> DEFINE sofar == (next - 1) * Timeout
             all == Members * Timeout
  <2>4. /\ pc = "probe" => now <= begun + sofar
        /\ pc = "heartbeat" => called <= begun + sofar /\ now <= called + Timeout
        /\ pc = "preflight" => called <= begun + all /\ now <= called + Timeout
    BY DEF Inv, CallInv, Spent, Calling
  <2> HIDE DEF sofar, all
  <2>5. sofar \in Nat /\ all \in Nat /\ sofar <= all /\ (Members + 1) * Timeout = all + Timeout
    BY <2>2, <2>3 DEF sofar, all
  <2> QED
    BY ONLY <2>1, <2>4, <2>5, pc \in {"probe", "heartbeat", "preflight"}
<1> QED
  BY InvHolds, <1>1, PTL

LEMMA Skewed ==
    ASSUME Inv, NEW m \in Farm
    PROVE  skew[m] \in Int /\ -Leeway <= skew[m] /\ skew[m] <= Leeway /\ Leeway \in Nat
<1>1. skew \in [Farm -> Skews]
  BY DEF Inv, TypeOK
<1>2. skew[m] \in -Leeway..Leeway /\ Leeway \in Nat
  BY <1>1, LifetimesAssumption
<1> QED
  BY <1>2

\* Wherever a member stands in the farm, and however far its clock is off within
\* the leeway, it takes the token of the call it gets (farm.go:122-139,
\* preflight.go:66-72).
THEOREM TokensAreFresh == Spec => []FreshWhenSeen
<1>1. Inv => FreshWhenSeen
  <2> SUFFICES ASSUME Inv, Timed PROVE FreshWhenSeen
    BY DEF FreshWhenSeen
  <2>1. /\ now \in Nat /\ called \in Nat /\ next \in 1..(Members + 1) /\ Members \in Nat
        /\ Timeout \in Nat /\ AssocLifetime \in Nat /\ Timeout <= AssocLifetime
    BY LifetimesAssumption DEF Inv, TypeOK
  <2>2. ASSUME NEW m \in Farm, NEW k, Calling, token[k] = Registered(called, AssocLifetime)
        PROVE  Accepts(m, token[k])
    <3>1. called <= now /\ now <= called + Timeout
      BY <2>2 DEF Inv, CallInv
    <3> QED
      BY <2>1, <2>2, <3>1, Skewed DEF Accepts, Registered
  <2>3. pc = "heartbeat" => Accepts(next, token["heartbeat"])
    BY <2>1, <2>2 DEF Inv, CallInv, MintInv, Calling, Farm
  <2>4. pc = "preflight" => \A k \in {"association", "scope"} : Accepts(chosen, token[k])
    BY <2>2 DEF Inv, MintInv, Calling
  <2> QED
    BY <2>3, <2>4 DEF FreshWhenSeen
<1> QED
  BY InvHolds, <1>1, PTL

LEMMA AtDelivery ==
    ASSUME Inv, pc = "done"
    PROVE  /\ chosen \in Farm /\ called \in Nat /\ delivered \in Nat /\ now \in Nat
           /\ expiry \in Nat /\ cfg.ttl \in Int
           /\ token["association"] = Registered(called, AssocLifetime)
           /\ token["kdc"] = Registered(delivered, AssocLifetime)
           /\ token["webapp"] = Registered(delivered, WebAppLifetime)
           /\ called <= delivered /\ delivered <= now
           /\ Timed => delivered <= called + Timeout
           /\ called + cfg.ttl <= expiry
BY DEF Inv, TypeOK, MintInv, Config

\* A player that comes within the lifetime of the association token, less one
\* timeout, finds its tokens good and its credential stored (token.go:22-24).
THEOREM PromptPlayersAreServed == Spec => []PromptPlayerServed
<1>1. Inv => PromptPlayerServed
  <2> SUFFICES ASSUME Inv, pc = "done", Timed, cfg.ttl >= AssocLifetime,
                      now <= delivered + AssocLifetime - Timeout
               PROVE  /\ \A k \in {"association", "kdc", "webapp"} : Accepts(chosen, token[k])
                      /\ now <= expiry
    BY DEF PromptPlayerServed
  <2>1. /\ Timeout \in Nat /\ AssocLifetime \in Nat /\ WebAppLifetime \in Nat
        /\ AssocLifetime <= WebAppLifetime
    BY LifetimesAssumption
  <2> QED
    BY <2>1, AtDelivery, Skewed DEF Accepts, Registered
<1> QED
  BY InvHolds, <1>1, PTL

\* Under the default TTL, a credential outlives every token that asks for it,
\* leeway and skew included (jetbroker.go:48-50, preflight.go:89-94).
THEOREM CredentialsOutliveTokens == Spec => []DefaultOutlivesAssociation
<1>1. Inv => DefaultOutlivesAssociation
  <2> SUFFICES ASSUME Inv, pc = "done", Accepts(chosen, token["association"]),
                      cfg.ttl = DefaultTTL \/ NoTTLSet
               PROVE  /\ now <= expiry
                      /\ Accepts(chosen, token["kdc"]) /\ Accepts(chosen, token["webapp"])
    BY DEF DefaultOutlivesAssociation
  <2>1. /\ AssocLifetime \in Nat /\ WebAppLifetime \in Nat /\ AssocLifetime <= WebAppLifetime
        /\ DefaultTTL \in Nat /\ AssocLifetime + 2 * Leeway <= DefaultTTL
    BY LifetimesAssumption, BootAssumption
  <2>2. cfg.ttl = DefaultTTL
    BY DEF Inv, BootInv
  <2> QED
    BY <2>1, <2>2, AtDelivery, Skewed DEF Accepts, Registered
<1> QED
  BY InvHolds, <1>1, PTL
-----------------------------------------------------------------------------
(* The configuration that is served.                                       *)

Redirected == Truthy(settings.redirect) \/ settings.playerUrl

\* What the steps up to each check have made of the environment
\* (main.go:92-142, config.go:66-74, jetbroker.go:40-57).
ConfigInv ==
    /\ step = "exited" => Misconfigured
    /\ step \in {"listen", "serving", "unbound"} =>
          ~Misconfigured
    /\ InHost =>
          /\ step = "new" => cfg = given
          /\ step \in {"listen", "serving", "unbound"} =>
                /\ cfg.ttl = IF given.ttl = 0 THEN DefaultTTL ELSE given.ttl
                /\ cfg.client = IF given.client = "none" THEN "timed" ELSE given.client
                /\ cfg.key = given.key /\ cfg.secret = given.secret
                /\ cfg.redirect = given.redirect
    /\ ~InHost =>
          /\ step \notin {"key", "exited"} =>
                /\ settings.key \in {"PKCS1", "PKCS8 RSA"}
                /\ cfg.key /\ cfg.secret
                /\ cfg.redirect <=> Redirected
          /\ step \in {"key", "ttl"} => cfg.ttl = 0
          /\ step \in {"client", "gateway", "new"} =>
                /\ settings.ttl # NotANumber
                /\ cfg.ttl = IF settings.ttl = Unset THEN 0 ELSE settings.ttl
          /\ step \in {"key", "ttl", "client"} => cfg.client = "none"
          /\ step \in {"gateway", "new"} =>
                cfg.client = IF Truthy(settings.insecure) THEN "untimed" ELSE "none"
          /\ step = "new" => settings.gateway /\ adapters = Ports
          /\ step \in {"listen", "serving", "unbound"} =>
                /\ cfg.ttl = IF settings.ttl \in {Unset, 0} THEN DefaultTTL ELSE settings.ttl
                /\ cfg.client = IF Truthy(settings.insecure) THEN "untimed" ELSE "timed"

LEMMA ConfigStep == ASSUME Inv, ConfigInv, BootNext PROVE ConfigInv'
<1>1. /\ cfg \in Config /\ adapters \subseteq Ports
      /\ ~InHost => settings \in Settings
      /\ step \in {"key", "ttl", "client", "gateway"} => ~InHost
  BY BootAssumption DEF Inv, TypeOK, BootInv, InHost
<1>2. /\ settings' = settings /\ given' = given
      /\ DefaultTTL # 0 /\ Unset \notin Int /\ NotANumber \notin Int
  BY BootAssumption DEF BootNext, ReadKey, KeyUnusable, ReadTTL, TTLRefused, ReadClient,
     ReadGateway, NoGatewayUrl, New, NewRefuses, Listen, Exit
<1>3. (InHost' <=> InHost) /\ (Redirected' <=> Redirected)
  BY <1>2 DEF InHost, Redirected
<1>4. CASE ReadKey
  <2> DEFINE redirect == Truthy(settings.redirect) \/ settings.playerUrl
  <2>1. redirect \in BOOLEAN
    BY Zenon
  <2>2. cfg' = [cfg EXCEPT !.key = TRUE, !.secret = TRUE, !.redirect = redirect]
    BY <1>4 DEF ReadKey
  <2>3. redirect <=> Redirected
    BY DEF Redirected
  <2> HIDE DEF redirect
  <2>4. /\ cfg'.ttl = cfg.ttl /\ cfg'.client = cfg.client
        /\ cfg'.key /\ cfg'.secret /\ (cfg'.redirect <=> Redirected)
    BY ONLY <1>1, <2>1, <2>2, <2>3 DEF Config
  <2> QED
    BY <1>1, <1>3, <1>4, <2>4 DEF ReadKey, LoadProvisionerKey, ConfigInv
<1>5. CASE ReadTTL
  <2>1. /\ cfg'.ttl = IF settings.ttl = Unset THEN 0 ELSE settings.ttl
        /\ cfg'.client = cfg.client /\ cfg'.key = cfg.key /\ cfg'.secret = cfg.secret
        /\ cfg'.redirect = cfg.redirect
    BY <1>1, <1>5 DEF ReadTTL, Config, ConfigInv
  <2> QED
    BY <1>1, <1>2, <1>3, <1>5, <2>1 DEF ReadTTL, ConfigInv
<1>6. CASE ReadClient
  <2>1. /\ cfg'.client = IF Truthy(settings.insecure) THEN "untimed" ELSE "none"
        /\ cfg'.ttl = cfg.ttl /\ cfg'.key = cfg.key /\ cfg'.secret = cfg.secret
        /\ cfg'.redirect = cfg.redirect
    BY <1>1, <1>6 DEF ReadClient, Config, ConfigInv
  <2> QED
    BY <1>1, <1>2, <1>3, <1>6, <2>1 DEF ReadClient, ConfigInv
<1>7. CASE ReadGateway
  BY <1>1, <1>2, <1>3, <1>7 DEF ReadGateway, EnvAdapters, ConfigInv
<1>8. CASE New
  <2>1. /\ cfg'.ttl = IF cfg.ttl = 0 THEN DefaultTTL ELSE cfg.ttl
        /\ cfg'.client = IF cfg.client = "none" THEN "timed" ELSE cfg.client
        /\ cfg'.key = cfg.key /\ cfg'.secret = cfg.secret /\ cfg'.redirect = cfg.redirect
        /\ step' = "listen" /\ adapters' = adapters
    BY <1>1, <1>8 DEF New, Defaults, Config
  <2>2. ~Misconfigured'
    BY <1>1, <1>2, <1>3, <1>8, <2>1 DEF New, Complete, Misconfigured, ConfigInv
  <2> QED
    BY <1>1, <1>2, <1>3, <1>8, <2>1, <2>2 DEF New, ConfigInv
<1>9. CASE Listen
  BY <1>1, <1>2, <1>3, <1>9 DEF Listen, ConfigInv, Misconfigured
<1>10. CASE KeyUnusable \/ TTLRefused \/ NoGatewayUrl
  BY <1>1, <1>2, <1>3, <1>10 DEF KeyUnusable, LoadProvisionerKey, TTLRefused, NoGatewayUrl,
     Exit, ConfigInv, Misconfigured
<1>11. CASE NewRefuses
  BY <1>1, <1>2, <1>3, <1>11 DEF NewRefuses, Complete, Exit, ConfigInv, Misconfigured
<1> QED
  BY <1>4, <1>5, <1>6, <1>7, <1>8, <1>9, <1>10, <1>11 DEF BootNext

\* No launch touches the configuration (jetbroker.go:34-57).
THEOREM ConfigurationHolds == Spec => []ConfigInv
<1>1. Init => ConfigInv
  <2>1. zero.ttl = 0 /\ zero.client = "none"
    BY DEF zero
  <2>2. BootInit => /\ InHost => step = "new" /\ cfg = given
                    /\ ~InHost => step = "key" /\ cfg = zero
    BY BootAssumption DEF BootInit, InHost
  <2> QED
    BY <2>1, <2>2 DEF Init, ConfigInv
<1>2. Inv /\ ConfigInv /\ [Next]_vars => ConfigInv'
  <2> SUFFICES ASSUME Inv, ConfigInv, [Next]_vars PROVE ConfigInv'
    OBVIOUS
  <2>1. CASE UNCHANGED bootVars
    BY <2>1 DEF bootVars, ConfigInv, InHost, Redirected, Misconfigured
  <2>2. CASE LaunchStep
    BY <2>1, <2>2 DEF LaunchStep, Begin, Probe, HeartbeatAnswered, HeartbeatFails,
       NoUsableGateway, Choose, GatewayProvisions, PreflightFails, Deliver, Tick
  <2> QED
    BY <2>1, <2>2, ConfigStep DEF Next, vars
<1> QED
  BY <1>1, <1>2, InvHolds, PTL DEF Spec

\* For every environment and every host: the process exits over its configuration
\* exactly if that is incomplete (config.go:63-74, main.go:92-142).
THEOREM FailsFastAndOnlyThen == Spec => []BootsExactly
<1>1. ConfigInv => BootsExactly
  BY DEF ConfigInv, BootsExactly
<1> QED
  BY <1>1, ConfigurationHolds, PTL

\* For every environment and every Config of a host: what is served is what was
\* given, field by field, with a default only where a field was left at zero
\* (jetbroker.go:48-56, main.go:109-142).
THEOREM ServesWhatWasAsked == Spec => []ServesAsConfigured
<1>1. ConfigInv => ServesAsConfigured
  BY DEF ConfigInv, ServesAsConfigured, Redirected
<1> QED
  BY <1>1, ConfigurationHolds, PTL
=============================================================================
