-------------------------------- MODULE Boot --------------------------------
(***************************************************************************)
(* From the environment or a host's Config to a serving broker: the early  *)
(* exits of test-authority's main and loadConfig, LoadProvisionerKey,      *)
(* Validate and New, in the order of the code.                             *)
(*                                                                         *)
(* A process starts either as test-authority, from `settings`, or inside a *)
(* host that hands New a Config and adapters of its own.                   *)
(***************************************************************************)
EXTENDS Integers

CONSTANTS
    Unset,          \* an environment variable that is unset or empty
    NotANumber,     \* a value strconv.Atoi refuses
    NoSettings,     \* there is no such environment: the broker is in a host
    DefaultTTL,     \* 900
    Environments,   \* the environments test-authority is started in
    HostConfigs     \* the Configs a host may hand to New

\* What DGW_PROVISIONER_KEY leads to.  "other PEM" is neither PKCS#1 nor PKCS#8,
\* an encrypted key for one.
KeyFiles == {"unset", "unreadable", "no PEM", "PKCS1", "PKCS8 RSA", "PKCS8 not RSA", "other PEM"}

\* DGW_TLS_INSECURE and REDIRECT_MODE, as `truthy` tells their values apart.
Flags == {"truthy", "other"}

Settings ==
    [key : KeyFiles, ttl : Int \cup {Unset, NotANumber}, insecure : Flags,
     redirect : Flags, playerUrl : BOOLEAN, gateway : BOOLEAN]

\* Config, as far as it is checked or defaulted: whether there is a key and a
\* secret name, CredentialTTL, HTTPClient, RedirectMode.
Config ==
    [key : BOOLEAN, secret : BOOLEAN, ttl : Int,
     client : {"none", "timed", "untimed"}, redirect : BOOLEAN]

\* The interfaces of ports.go.
Ports == {"identity", "targets", "secrets", "gateways"}

ASSUME BootAssumption ==
    /\ Unset \notin Int /\ NotANumber \notin Int
    /\ DefaultTTL \in Nat \ {0}
    /\ Environments \subseteq Settings /\ NoSettings \notin Settings
    /\ HostConfigs \subseteq Config

VARIABLES
    settings,   \* the environment, or NoSettings
    given,      \* the Config the host hands in; zero: there is no host
    step,       \* the check that is up, "serving", or how the process ended
    cfg,        \* the Config so far
    adapters    \* the ports that are backed by an adapter

bootVars == <<settings, given, step, cfg, adapters>>

zero == [key |-> FALSE, secret |-> FALSE, ttl |-> 0, client |-> "none", redirect |-> FALSE]

BootInit ==
    \/ /\ settings \in Environments /\ given = zero
       /\ step = "key" /\ cfg = given /\ adapters = {}
    \/ /\ settings = NoSettings /\ given \in HostConfigs
       /\ step = "new" /\ cfg = given /\ adapters \in SUBSET Ports

Exit == step' = "exited" /\ UNCHANGED <<settings, given, cfg, adapters>>

Truthy(v) == v = "truthy"

\* LoadProvisionerKey succeeds: PKCS#1 is tried first, then PKCS#8, which holds
\* other kinds of keys too.
LoadProvisionerKey(file) == file \in {"PKCS1", "PKCS8 RSA"}

\* loadConfig up to the literal of Config.
ReadKey ==
    /\ step = "key"
    /\ settings.key \notin {"unset", "unreadable"}
    /\ LoadProvisionerKey(settings.key)
    /\ cfg' = [cfg EXCEPT !.key = TRUE,
                          !.secret = TRUE,   \* env() falls back on rdp-password
                          !.redirect = Truthy(settings.redirect) \/ settings.playerUrl]
    /\ step' = "ttl"
    /\ UNCHANGED <<settings, given, adapters>>

KeyUnusable ==
    /\ step = "key"
    /\ settings.key \in {"unset", "unreadable"} \/ ~LoadProvisionerKey(settings.key)
    /\ Exit

TTLRefused ==
    /\ step = "ttl"
    /\ settings.ttl = NotANumber
    /\ Exit

ReadTTL ==
    /\ step = "ttl"
    /\ settings.ttl # NotANumber
    /\ cfg' = [cfg EXCEPT !.ttl = IF settings.ttl = Unset THEN @ ELSE settings.ttl]
    /\ step' = "client"
    /\ UNCHANGED <<settings, given, adapters>>

\* Under DGW_TLS_INSECURE the harness brings a client of its own, without a
\* timeout.
ReadClient ==
    /\ step = "client"
    /\ cfg' = [cfg EXCEPT !.client = IF Truthy(settings.insecure) THEN "untimed" ELSE @]
    /\ step' = "gateway"
    /\ UNCHANGED <<settings, given, adapters>>

\* identityEnv, targetEnv, secretEnv and gatewayEnv: a port each.
EnvAdapters == Ports

\* main: gatewayEnv needs the gateway's URL, the others take any value.
ReadGateway ==
    /\ step = "gateway"
    /\ settings.gateway
    /\ adapters' = EnvAdapters
    /\ step' = "new"
    /\ UNCHANGED <<settings, given, cfg>>

NoGatewayUrl ==
    /\ step = "gateway"
    /\ ~settings.gateway
    /\ Exit

\* Bug: New relies on Validate, which does not see the adapters.
CompleteConfig == cfg.key /\ cfg.secret

\* Validate, and the adapters New asks for.
Complete == cfg.key /\ cfg.secret /\ adapters = Ports

\* Bug: only what was left nil is defaulted, and a TTL is never nil.
DefaultsClientOnly(c) == [c EXCEPT !.client = IF @ = "none" THEN "timed" ELSE @]

\* Bug: the defaults are assigned whether or not the field was set.
DefaultsOverwrite(c) == [c EXCEPT !.ttl = DefaultTTL, !.client = "timed"]

\* What New puts in place of what was not set.
Defaults(c) ==
    [c EXCEPT !.ttl = IF @ = 0 THEN DefaultTTL ELSE @,
              !.client = IF @ = "none" THEN "timed" ELSE @]

New ==
    /\ step = "new"
    /\ Complete
    /\ cfg' = Defaults(cfg)
    /\ step' = "listen"
    /\ UNCHANGED <<settings, given, adapters>>

NewRefuses ==
    /\ step = "new"
    /\ ~Complete
    /\ Exit

\* ListenAndServe binds the address, or log.Fatal reports why it could not.
Listen ==
    /\ step = "listen"
    /\ step' \in {"serving", "unbound"}
    /\ UNCHANGED <<settings, given, cfg, adapters>>

BootNext ==
    \/ ReadKey \/ KeyUnusable \/ ReadTTL \/ TTLRefused \/ ReadClient
    \/ ReadGateway \/ NoGatewayUrl \/ New \/ NewRefuses \/ Listen

BootSpec == BootInit /\ [][BootNext]_bootVars

-----------------------------------------------------------------------------
InHost == settings = NoSettings

\* The configurations the comments of config.go and main.go call incomplete or
\* wrong, without regard to the order of the checks.
Misconfigured ==
    IF InHost THEN ~cfg.key \/ ~cfg.secret \/ adapters # Ports
    ELSE \/ settings.key \notin {"PKCS1", "PKCS8 RSA"}
         \/ settings.ttl = NotANumber
         \/ ~settings.gateway

\* Fail fast, and only then: a process exits over its configuration exactly if
\* that is incomplete (config.go:63-65), whatever else is set, and no exit or
\* default of one setting hides another.
BootsExactly ==
    /\ step = "exited" => Misconfigured
    /\ step \in {"listen", "serving", "unbound"} => ~Misconfigured

\* Once it serves, a broker runs on what it was given, whoever gave it: a host's
\* Config field by field, or the environment, with the defaults in place of the
\* fields that were left at zero and of no other (jetbroker.go:48-56,
\* main.go:109-142).  Only DGW_TLS_INSECURE or the host takes the timeout away.
ServesAsConfigured ==
    step = "serving" =>
       IF InHost
       THEN /\ cfg.ttl = IF given.ttl = 0 THEN DefaultTTL ELSE given.ttl
            /\ cfg.client = IF given.client = "none" THEN "timed" ELSE given.client
            /\ cfg.key = given.key /\ cfg.secret = given.secret
            /\ cfg.redirect = given.redirect
       ELSE /\ cfg.ttl = IF settings.ttl \in {Unset, 0} THEN DefaultTTL ELSE settings.ttl
            /\ cfg.client = IF Truthy(settings.insecure) THEN "untimed" ELSE "timed"
            /\ cfg.redirect <=> Truthy(settings.redirect) \/ settings.playerUrl
=============================================================================
