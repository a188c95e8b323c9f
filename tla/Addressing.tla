----------------------------- MODULE Addressing -----------------------------
(***************************************************************************)
(* The addresses of one launch, as texts: what the broker calls, what the  *)
(* gateway dials, what the browser is sent to.  A text is the sequence of  *)
(* its words and punctuation marks, so that prefixes, suffixes and         *)
(* trailing slashes are those of the strings; a token in a URL is the word *)
(* "jwt", the descriptor in the fragment is left out.                      *)
(***************************************************************************)
EXTENDS Integers, SequencesExt

CONSTANT
    Deployments   \* what launches may meet: the target a TargetResolver returns,
                  \* BaseURL, BrowserURL and PlayerLaunchPath (<<>> for none)

ASSUME DeploymentsAssumption ==
    \A d \in Deployments : {d.target, d.base, d.front, d.path} \subseteq Seq(STRING)

Slashes == <<":", "/", "/">>
Https == <<"https">> \o Slashes
Http == <<"http">> \o Slashes
Wss == <<"wss">> \o Slashes
Ws == <<"ws">> \o Slashes
Tcp == <<"tcp">> \o Slashes
JetRdp == <<"/", "jet", "/", "rdp">>
JetKdcProxy == <<"/", "jet", "/", "KdcProxy", "/", "jwt">>

\* /jet/webapp/client/launch
StockPath == <<"/", "launch">>

LaunchPath(declared) == IF declared = <<>> THEN StockPath ELSE declared

VARIABLES
    target, base, front, path,   \* the inputs
    at,          \* how far the launch has come
    heartbeat, preflight,        \* the endpoints the broker calls
    dst,         \* dst_hst of the association token
    gatewayURL, kdc, shown,      \* GatewayURL, KdcProxyURL and Target of the descriptor
    page         \* where a redirect leads

inputs == <<target, base, front, path>>
vars == <<inputs, at, heartbeat, preflight, dst, gatewayURL, kdc, shown, page>>

-----------------------------------------------------------------------------
(* The library's functions on texts.                                       *)

TrimPrefix(s, p) == IF IsPrefix(p, s) THEN SubSeq(s, Len(p) + 1, Len(s)) ELSE s

TrimSuffix(s, x) == IF IsSuffix(x, s) THEN SubSeq(s, 1, Len(s) - Len(x)) ELSE s

\* strings.TrimRight: trailing members of the cutset go.
TrimRight(s, cutset) == SubSeq(s, 1, SelectLastInSeq(s, LAMBDA c : c \notin cutset))

HasText(s, sub) ==
    \E i \in 1..(Len(s) - Len(sub) + 1) : SubSeq(s, i, i + Len(sub) - 1) = sub

IndexOf(s, c) == SelectInSeq(s, LAMBDA d : d = c)

\* net.SplitHostPort: the port follows the last colon; a host with colons of
\* its own has to be in brackets, and brackets stand nowhere else.
HasPort(s) ==
    LET i == SelectLastInSeq(s, LAMBDA d : d = ":")
        close == IndexOf(s, "]")
    IN  /\ i > 0
        /\ IF s[1] = "["
           THEN /\ close > 0 /\ i = close + 1
                /\ "[" \notin {s[k] : k \in 2..Len(s)}
                /\ "]" \notin {s[k] : k \in i..Len(s)}
           ELSE /\ ":" \notin {s[k] : k \in 1..(i - 1)}
                /\ {"[", "]"} \cap ToSet(s) = {}

-----------------------------------------------------------------------------
(* The functions of the broker.                                            *)

\* Bug: a colon is taken for the sign of a port.
DstHstColon(t) ==
    IF HasText(t, Slashes) THEN t
    ELSE Tcp \o IF HasText(t, <<":">>) THEN t ELSE t \o <<":", "3389">>

dstHst(t) ==
    IF HasText(t, Slashes) THEN t
    ELSE Tcp \o IF HasPort(t) THEN t ELSE t \o <<":", "3389">>

websocketURL(b) ==
    CASE IsPrefix(Https, b) -> Wss \o TrimPrefix(b, Https)
      [] IsPrefix(Http, b) -> Ws \o TrimPrefix(b, Http)
      [] OTHER -> b

\* Bug: TrimRight for TrimSuffix, which takes its argument as a cutset.
PlayerBaseCutset(url) == TrimRight(url, {"/", "jet", "rdp"})

PlayerBase(url) == TrimSuffix(url, JetRdp)

playerLaunchURL(url, declared) ==
    LET b == PlayerBase(url)
        web == CASE IsPrefix(Wss, b) -> Https \o TrimPrefix(b, Wss)
                 [] IsPrefix(Ws, b) -> Http \o TrimPrefix(b, Ws)
                 [] OTHER -> b
    IN  TrimRight(web, {"/"}) \o LaunchPath(declared)

\* The base the browser is given; the broker itself always calls BaseURL.
browserBase == IF front = <<>> THEN base ELSE front

\* Bug: the route is appended to the base as it was declared.
EndpointUntrimmed(b, route) == b \o <<"/", "jet", "/", route, "?", "jwt">>

\* The URL of a server-to-server call.
Endpoint(b, route) == TrimRight(b, {"/"}) \o <<"/", "jet", "/", route, "?", "jwt">>

-----------------------------------------------------------------------------
Init ==
    /\ \E d \in Deployments :
         target = d.target /\ base = d.base /\ front = d.front /\ path = d.path
    /\ at = "select"
    /\ heartbeat = <<>> /\ preflight = <<>> /\ dst = <<>>
    /\ gatewayURL = <<>> /\ kdc = <<>> /\ shown = <<>> /\ page = <<>>

Probe ==
    /\ at = "select"
    /\ heartbeat' = Endpoint(base, "heartbeat")
    /\ at' = "mint"
    /\ UNCHANGED <<inputs, preflight, dst, gatewayURL, kdc, shown, page>>

\* mintAssociation and the preflight request.
Provision ==
    /\ at = "mint"
    /\ dst' = dstHst(target)
    /\ preflight' = Endpoint(base, "preflight")
    /\ at' = "describe"
    /\ UNCHANGED <<inputs, heartbeat, gatewayURL, kdc, shown, page>>

\* The LaunchResult: the KDC URL is there for domain targets only.
Describe ==
    /\ at = "describe"
    /\ gatewayURL' = websocketURL(browserBase) \o JetRdp
    /\ kdc' \in {<<>>, browserBase \o JetKdcProxy}
    /\ shown' = target
    /\ at' = "answer"
    /\ UNCHANGED <<inputs, heartbeat, preflight, dst, page>>

\* JSON mode hands the result over as it is, redirect mode adds the page.
Answer ==
    /\ at = "answer"
    /\ page' \in {<<>>, playerLaunchURL(gatewayURL, path)}
    /\ at' = "answered"
    /\ UNCHANGED <<inputs, heartbeat, preflight, dst, gatewayURL, kdc, shown>>

Next == Probe \/ Provision \/ Describe \/ Answer

Spec == Init /\ [][Next]_vars

-----------------------------------------------------------------------------
Word == {"host", "v4", "v6"}
Port == {"3389", "4489"}

\* What a target may look like: a host, with or without a port, an IPv6 address
\* in brackets.
Plain(t) == Len(t) = 1 /\ t[1] \in Word
Bracketed(t) ==
    /\ Len(t) > 2 /\ t[1] = "[" /\ t[Len(t)] = "]"
    /\ \A k \in 2..(Len(t) - 1) : t[k] \in Word \cup {":"}
IsHost(t) == Plain(t) \/ Bracketed(t)
HostOf(t) == IF IsHost(t) THEN t ELSE SubSeq(t, 1, Len(t) - 2)
IsHostPort(t) ==
    /\ Len(t) > 2 /\ t[Len(t)] \in Port /\ t[Len(t) - 1] = ":"
    /\ IsHost(SubSeq(t, 1, Len(t) - 2))

\* The gateway dials the declared host, at the declared port or at 3389, and
\* the token names both exactly once (token.go:106-119, ports.go:25-27), for
\* names and for IPv6 addresses in brackets.
DialsTheTarget ==
    at # "select" /\ dst # <<>> =>
       /\ IsHost(target) => dst = Tcp \o target \o <<":", "3389">>
       /\ IsHostPort(target) => dst = Tcp \o target
       /\ IsHost(target) \/ IsHostPort(target) => HasPort(TrimPrefix(dst, Tcp))

AsWeb(b) ==
    CASE IsPrefix(Wss, b) -> Https \o SubSeq(b, Len(Wss) + 1, Len(b))
      [] IsPrefix(Ws, b) -> Http \o SubSeq(b, Len(Ws) + 1, Len(b))
      [] OTHER -> b

\* The page is the chosen gateway's (http.go:43-48,60-62): rewriting its address
\* to a WebSocket one and back loses nothing of it but trailing slashes,
\* whatever its scheme and path.
PageFollowsGateway ==
    page # <<>> =>
       page = TrimRight(AsWeb(browserBase), {"/"}) \o LaunchPath(path)

\* What a server-to-server call has in front of its route.
Origin(call) == SubSeq(call, 1, Len(call) - Len(Endpoint(<<>>, "route")))

\* A URL of the browser's leads where the broker's calls do: its route follows the
\* base, and only slashes the farm declared stand between the two.
LeadsThere(url, route) ==
    /\ IsSuffix(route, url)
    /\ TrimRight(TrimSuffix(url, route), {"/"}) = Origin(heartbeat)
    /\ IsSuffix(<<"/">>, base) \/ TrimSuffix(url, route) = Origin(heartbeat)

\* Without a front the legs of a launch meet at one address, whatever slashes a
\* farm declares at its end: the broker's calls and the page agree, and the
\* player's address and the KDC proxy, whose base nobody trims, differ from them
\* in those slashes at most and only if there are some (farm.go:20-23,130,
\* preflight.go:70, jetbroker.go:175,195, http.go:64-75).
LegsMeet ==
    at = "answered" /\ front = <<>> /\ (IsPrefix(Https, base) \/ IsPrefix(Http, base)) =>
       /\ Origin(heartbeat) = Origin(preflight)
       /\ page # <<>> => page = Origin(heartbeat) \o LaunchPath(path)
       /\ LeadsThere(AsWeb(gatewayURL), JetRdp)
       /\ kdc # <<>> => LeadsThere(kdc, JetKdcProxy)
=============================================================================
