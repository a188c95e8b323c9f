------------------------------ MODULE Translate ------------------------------
(***************************************************************************)
(* coder-i18n/tolgee/translate.mjs: describe the project, make sure that a *)
(* prompt exists and is bound, collect all key ids page by page, start one *)
(* batch over them and poll it.  Several runs may work on the same project *)
(* of the shared server at once, and others edit its keys meanwhile.       *)
(*                                                                         *)
(* A call comes back in one of three ways.  It is answered; it is refused  *)
(* with a JSON body the script reads as if it were an answer (an expired   *)
(* token, a server error); or it throws (network, a body that is no JSON)  *)
(* and the script dies, whether the call took effect or not.               *)
(***************************************************************************)
EXTENDS Integers, Sequences

CONSTANTS
    Runs,       \* executions of the script
    NoPrompt,   \* prompt.id is undefined; also: no default prompt is bound
    Keys,
    Listings,   \* the project's keys to begin with, in the server's order
    PageSize,   \* `size=2000`
    MaxEdits    \* bound: keys added or deleted by others

ASSUME TranslateAssumption ==
    /\ NoPrompt \notin Runs
    /\ Listings \subseteq Seq(Keys)
    /\ PageSize \in Nat \ {0}
    /\ MaxEdits \in Nat

VARIABLES
    (* per run *)
    pc,        \* the call the script is at, or how it ended
    token,     \* whether its JWT is still valid
    prompt,    \* the prompt it found or created
    page,      \* the next page to read
    ids,       \* the key ids collected
    (* the server *)
    described, \* the project has the description of the context file
    prompts,   \* the prompts named "translate", each by the run that made it
    bound,     \* the default prompt of the MT service
    job,       \* the batch job each run started
    listing,   \* the keys of the project
    translated,
    edits,
    (* history *)
    steady,    \* per run: keys there since it began to collect
    slipped,   \* per run: keys that deletions moved to a page it had read
    refused    \* runs that met a refused page

script == <<pc, token, prompt, page, ids>>
setup == <<described, prompts, bound>>
keys == <<listing, edits>>
history == <<steady, slipped, refused>>
vars == <<script, setup, job, keys, translated, history>>

Busy == {"discover", "describe", "find", "create", "bind", "collect",
         "launch", "relogin", "poll"}
Ended == {"done", "dead"}
Preparing == {"idle", "discover", "describe", "find", "create", "bind"}
Collected == {"launch", "relogin", "poll", "done"}

\* Bug: the first page is number 1.
FirstPageOne == 1

FirstPage == 0

TotalPages == (Len(listing) + PageSize - 1) \div PageSize

\* The keys of the page at hand.
PageKeys(p) ==
    {listing[k] : k \in {j \in DOMAIN listing : p * PageSize < j /\ j <= p * PageSize + PageSize}}

Goto(r, where) == pc' = [pc EXCEPT ![r] = where]

-----------------------------------------------------------------------------
Init ==
    /\ pc = [r \in Runs |-> "idle"]
    /\ token = [r \in Runs |-> FALSE]
    /\ prompt = [r \in Runs |-> NoPrompt]
    /\ page = [r \in Runs |-> FirstPage]
    /\ ids = [r \in Runs |-> {}]
    /\ described = FALSE
    /\ prompts = {}
    /\ bound = NoPrompt
    /\ job = [r \in Runs |-> "none"]
    /\ listing \in Listings
    /\ translated = {}
    /\ edits = 0
    /\ steady = [r \in Runs |-> {}]
    /\ slipped = [r \in Runs |-> {}]
    /\ refused = {}

-----------------------------------------------------------------------------
(* One action per call of the script and way it comes back.                *)

Login(r) ==
    /\ pc[r] = "idle"
    /\ token' = [token EXCEPT ![r] = TRUE]
    /\ Goto(r, "discover")
    /\ UNCHANGED <<prompt, page, ids, setup, job, keys, translated, history>>

\* The project and its languages; a refused second call throws.
Discover(r) ==
    /\ pc[r] = "discover" /\ token[r]
    /\ Goto(r, "describe")
    /\ UNCHANGED <<token, prompt, page, ids, setup, job, keys, translated, history>>

\* The answer to the PUT is only logged.
Describe(r) ==
    /\ pc[r] = "describe"
    /\ \/ token[r] /\ described' = TRUE
       \/ UNCHANGED described
    /\ Goto(r, "find")
    /\ UNCHANGED <<token, prompt, page, ids, prompts, bound, job, keys, translated, history>>

FindPrompt(r) ==
    /\ pc[r] = "find" /\ token[r]
    /\ \E p \in prompts : prompt' = [prompt EXCEPT ![r] = p]
    /\ Goto(r, "bind")
    /\ UNCHANGED <<token, page, ids, setup, job, keys, translated, history>>

\* There is none, or the list was refused and reads as an empty one.
FindNoPrompt(r) ==
    /\ pc[r] = "find"
    /\ Goto(r, "create")
    /\ UNCHANGED <<token, prompt, page, ids, setup, job, keys, translated, history>>

CreatePrompt(r) ==
    /\ pc[r] = "create" /\ token[r]
    /\ prompts' = prompts \cup {r}
    /\ \/ prompt' = [prompt EXCEPT ![r] = r] /\ Goto(r, "bind")
       \/ UNCHANGED prompt /\ Goto(r, "dead")
    /\ UNCHANGED <<token, page, ids, described, bound, job, keys, translated, history>>

\* The body of the refusal is taken for the prompt: it has no id.
CreateRefused(r) ==
    /\ pc[r] = "create"
    /\ Goto(r, "bind")
    /\ UNCHANGED <<token, prompt, page, ids, setup, job, keys, translated, history>>

\* The status of the binding is only logged, a refused one does not stop the
\* run.  The collection starts.
Bind(r) ==
    /\ pc[r] = "bind"
    /\ \/ token[r] /\ prompt[r] # NoPrompt /\ bound' = prompt[r]
       \/ UNCHANGED bound
    /\ Goto(r, "collect")
    /\ steady' = [steady EXCEPT ![r] = {listing[k] : k \in DOMAIN listing}]
    /\ UNCHANGED <<token, prompt, page, ids, described, prompts, job, keys, translated,
                   slipped, refused>>

\* Bug: the loop ends one page early.
LastPageEarly(p) == ~(p + 1 < TotalPages - 1)

\* while (page < totalPages), with `page` already advanced past p.
LastPage(p) == ~(p + 1 < TotalPages)

ReadPage(r) ==
    /\ pc[r] = "collect" /\ token[r]
    /\ ids' = [ids EXCEPT ![r] = @ \cup PageKeys(page[r])]
    /\ page' = [page EXCEPT ![r] = @ + 1]
    /\ Goto(r, IF LastPage(page[r]) THEN "launch" ELSE "collect")
    /\ UNCHANGED <<token, prompt, setup, job, keys, translated, history>>

\* A refused page has no keys and no page count: it reads as the last one.
PageRefused(r) ==
    /\ pc[r] = "collect"
    /\ page' = [page EXCEPT ![r] = @ + 1]
    /\ Goto(r, "launch")
    /\ refused' = refused \cup {r}
    /\ UNCHANGED <<token, prompt, ids, setup, job, keys, translated, steady, slipped>>

\* A refused batch has no job id and ends the run (Dies); one whose answer is
\* lost runs on without it.
StartBatch(r) ==
    /\ pc[r] = "launch" /\ token[r]
    /\ job' = [job EXCEPT ![r] = "RUNNING"]
    /\ Goto(r, "relogin") \/ Goto(r, "dead")
    /\ UNCHANGED <<token, prompt, page, ids, setup, keys, translated, history>>

\* Bug: the token of the first login is used to the end.
ReloginKeepsToken(r) ==
    /\ pc[r] = "relogin"
    /\ Goto(r, "poll")
    /\ UNCHANGED <<token, prompt, page, ids, setup, job, keys, translated, history>>

\* A new token before every poll.
Relogin(r) ==
    /\ pc[r] = "relogin"
    /\ token' = [token EXCEPT ![r] = TRUE]
    /\ Goto(r, "poll")
    /\ UNCHANGED <<prompt, page, ids, setup, job, keys, translated, history>>

\* The job still runs, or the poll was refused: the body has no status.
PollAgain(r) ==
    /\ pc[r] = "poll"
    /\ Goto(r, "relogin")
    /\ UNCHANGED <<token, prompt, page, ids, setup, job, keys, translated, history>>

\* Bug: any end of the job is taken for success.
OutcomeAnyEnd(status) == "done"

Outcome(status) == IF status = "SUCCESS" THEN "done" ELSE "dead"

PollSettles(r) ==
    /\ pc[r] = "poll" /\ token[r]
    /\ job[r] \in {"SUCCESS", "FAILED"}
    /\ Goto(r, Outcome(job[r]))
    /\ UNCHANGED <<token, prompt, page, ids, setup, job, keys, translated, history>>

\* A call throws, or the script gives up: no login, no target language, no job.
Dies(r) ==
    /\ pc[r] \in Busy
    /\ Goto(r, "dead")
    /\ UNCHANGED <<token, prompt, page, ids, setup, job, keys, translated, history>>

-----------------------------------------------------------------------------
(* The server and the others who use it.                                   *)

Expire(r) ==
    /\ token[r] /\ pc[r] \in Busy
    /\ token' = [token EXCEPT ![r] = FALSE]
    /\ UNCHANGED <<pc, prompt, page, ids, setup, job, keys, translated, history>>

\* Without a default prompt every chunk of the batch fails.
JobSucceeds(r) ==
    /\ job[r] = "RUNNING" /\ bound # NoPrompt
    /\ job' = [job EXCEPT ![r] = "SUCCESS"]
    /\ translated' = translated \cup ids[r]
    /\ UNCHANGED <<script, setup, keys, history>>

\* FAILED or CANCELLED.
JobFails(r) ==
    /\ job[r] = "RUNNING"
    /\ job' = [job EXCEPT ![r] = "FAILED"]
    /\ UNCHANGED <<script, setup, keys, translated, history>>

\* A key is added, wherever the server's order puts it.
AddKey ==
    /\ edits < MaxEdits
    /\ edits' = edits + 1
    /\ \E k \in Keys \ {listing[j] : j \in DOMAIN listing}, at \in 1..Len(listing) + 1 :
         listing' = [j \in 1..Len(listing) + 1 |->
                       IF j < at THEN listing[j]
                       ELSE IF j = at THEN k ELSE listing[j - 1]]
    /\ UNCHANGED <<script, setup, job, translated, history>>

\* The key that run r misses if the one at `at` is deleted now: it moves up, from
\* the head of the next page to the end of one already read.
Slips(r, at) ==
    {listing[j] : j \in {i \in DOMAIN listing :
                           pc[r] = "collect" /\ i = page[r] * PageSize + 1 /\ at < i}}

\* A key is deleted; the keys after it move up.
DeleteKey ==
    /\ edits < MaxEdits
    /\ edits' = edits + 1
    /\ \E at \in DOMAIN listing :
         /\ listing' = [j \in 1..Len(listing) - 1 |->
                          IF j < at THEN listing[j] ELSE listing[j + 1]]
         /\ steady' = [r \in Runs |-> steady[r] \ {listing[at]}]
         /\ slipped' = [r \in Runs |-> slipped[r] \cup Slips(r, at)]
    /\ UNCHANGED <<script, setup, job, translated, refused>>

-----------------------------------------------------------------------------
Script(r) ==
    \/ Discover(r) \/ Describe(r) \/ FindPrompt(r) \/ FindNoPrompt(r)
    \/ CreatePrompt(r) \/ CreateRefused(r) \/ Bind(r)
    \/ ReadPage(r) \/ PageRefused(r) \/ StartBatch(r)
    \/ Relogin(r) \/ PollAgain(r) \/ PollSettles(r) \/ Dies(r)

Server(r) == JobSucceeds(r) \/ JobFails(r)

Next ==
    \/ \E r \in Runs : Login(r) \/ Script(r) \/ Server(r) \/ Expire(r)
    \/ AddKey \/ DeleteKey

Spec == Init /\ [][Next]_vars

\* A run that was started goes on; batch jobs end; a job that has ended and is
\* asked about again and again is reported one day.
Fairness ==
    \A r \in Runs :
        WF_vars(Script(r)) /\ WF_vars(Server(r)) /\ SF_vars(PollSettles(r))

FairSpec == Spec /\ Fairness

-----------------------------------------------------------------------------
TypeOK ==
    /\ pc \in [Runs -> {"idle"} \cup Busy \cup Ended]
    /\ token \in [Runs -> BOOLEAN]
    /\ prompt \in [Runs -> Runs \cup {NoPrompt}]
    /\ page \in [Runs -> Nat]
    /\ ids \in [Runs -> SUBSET Keys]
    /\ described \in BOOLEAN
    /\ prompts \subseteq Runs
    /\ bound \in Runs \cup {NoPrompt}
    /\ job \in [Runs -> {"none", "RUNNING", "SUCCESS", "FAILED"}]
    /\ listing \in Seq(Keys)
    /\ translated \subseteq Keys
    /\ edits \in 0..MaxEdits
    /\ steady \in [Runs -> SUBSET Keys]
    /\ slipped \in [Runs -> SUBSET Keys]
    /\ refused \subseteq Runs

\* The pages cover the project: a key that was there from the first page to the
\* last is in the batch, although keys are added and deleted and pages shift under
\* the loop - unless a page was refused, or it is a key that a deletion moved over
\* the very boundary the loop stood at (translate.mjs:113-122).
CollectedAll ==
    \A r \in Runs : pc[r] \in Collected /\ r \notin refused =>
        steady[r] \ ids[r] \subseteq slipped[r]

\* Why: at every turn of the loop, what is still missing is on a page to come.
MissingIsAhead ==
    \A r \in Runs : pc[r] = "collect" /\ r \notin refused =>
        \A k \in steady[r] : k \in ids[r] \cup slipped[r] \/
            \E j \in DOMAIN listing : j > page[r] * PageSize /\ listing[j] = k

LoopStartsAtFirstPage == \A r \in Runs : pc[r] \in Preparing => page[r] = FirstPage

\* The inductive invariant behind CollectedAll (translate.mjs:113-122).
CollectInv == TypeOK /\ LoopStartsAtFirstPage /\ MissingIsAhead /\ CollectedAll

\* "translation complete" is said only when every key of the batch has been
\* translated, whatever the poll was answered on the way (translate.mjs:136-147).
DoneMeansTranslated ==
    \A r \in Runs : pc[r] = "done" => ids[r] \subseteq translated

\* "ensure a custom prompt exists and is BOUND as the default MT service" and "one
\* batch over ALL keys" (translate.mjs:8-10): a batch that is started finds a bound
\* prompt, and misses no key that was there from the run's first page to its last.
BatchIsReady ==
    \A r \in Runs : job[r] # "none" => bound # NoPrompt /\ steady[r] \subseteq ids[r]

\* A run that was started ends, however often its token expires while the batch
\* goes on (translate.mjs:134-146).
RunEnds == \A r \in Runs : pc[r] \in Busy ~> pc[r] \in Ended
=============================================================================
