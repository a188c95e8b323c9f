---------------------------- MODULE LaunchPromise ----------------------------
(***************************************************************************)
(* What a launch promises, without saying how: a click ends with a         *)
(* descriptor or with a failure and stays that way; a descriptor is only   *)
(* handed out for a credential that a gateway instance took into its       *)
(* memory; a session is opened only with a descriptor and only on an       *)
(* instance that holds that credential; what an instance holds goes when   *)
(* it restarts, and the sessions on it with it.                            *)
(***************************************************************************)
CONSTANTS Clicks, Instances

VARIABLES
    phase,     \* per click: "pending", "delivered" or "failed"
    held,      \* per click: the instances that hold its credential
    forgotten, \* per click: the instances that held it and restarted
    sessions   \* the pairs <<click, instance>> with a session up

vars == <<phase, held, forgotten, sessions>>

Init ==
    /\ phase = [c \in Clicks |-> "pending"]
    /\ held = [c \in Clicks |-> {}]
    /\ forgotten = [c \in Clicks |-> {}]
    /\ sessions = {}

\* A credential may be stored after its launch has failed: a late request.
\* Never after the descriptor is out: a launch sends one request.
Store(c, i) ==
    /\ phase[c] # "delivered"
    /\ held[c] \cup forgotten[c] = {}
    /\ held' = [held EXCEPT ![c] = {i}]
    /\ UNCHANGED <<phase, forgotten, sessions>>

Deliver(c) ==
    /\ phase[c] = "pending"
    /\ held[c] \cup forgotten[c] # {}
    /\ phase' = [phase EXCEPT ![c] = "delivered"]
    /\ UNCHANGED <<held, forgotten, sessions>>

Fail(c) ==
    /\ phase[c] = "pending"
    /\ phase' = [phase EXCEPT ![c] = "failed"]
    /\ UNCHANGED <<held, forgotten, sessions>>

\* One session per descriptor, where its credential is.
Open(c, i) ==
    /\ phase[c] = "delivered"
    /\ i \in held[c]
    /\ \A j \in Instances : <<c, j>> \notin sessions
    /\ sessions' = sessions \cup {<<c, i>>}
    /\ UNCHANGED <<phase, held, forgotten>>

Close(c, i) ==
    /\ sessions' = sessions \ {<<c, i>>}
    /\ UNCHANGED <<phase, held, forgotten>>

Forget(i) ==
    /\ held' = [c \in Clicks |-> held[c] \ {i}]
    /\ forgotten' = [c \in Clicks |->
                       forgotten[c] \cup (IF i \in held[c] THEN {i} ELSE {})]
    /\ sessions' = {s \in sessions : s[2] # i}
    /\ UNCHANGED phase

Next ==
    \/ \E c \in Clicks : Deliver(c) \/ Fail(c)
    \/ \E c \in Clicks, i \in Instances : Store(c, i) \/ Open(c, i) \/ Close(c, i)
    \/ \E i \in Instances : Forget(i)

Spec == Init /\ [][Next]_vars
=============================================================================
