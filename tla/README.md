# dev-kit: TLA+ specifications and proofs

`dev-kit` holds two programs. **jetbroker** (Go) turns a click on "RDP" in a
developer portal into a session on a Devolutions Gateway: it picks a gateway,
has it hold the real password in its memory, and hands the browser a one-time
token. **coder-i18n** (TypeScript and shell) is a build-time pipeline that wraps
the strings of a checkout of Coder's frontend, has them translated and bakes
the catalogs back in. This directory models both: the first, which runs
concurrently, over a network, against servers that fail, in more depth than the
second, which is sequential but is ended and rerun anywhere.

Paths are relative to `src/`; `jetbroker.go:92` means `src/jetbroker/jetbroker.go`.

## 1. The system

| component | state | operations | talks to |
|---|---|---|---|
| Launch orchestration (`jetbroker/jetbroker.go`) | per request: identity, target, password, proxy credential, chosen gateway, tokens; none between requests | `Launch`, `chooseGateway`, `formatUsername`, `websocketURL` | the four resolvers, selection, minting, preflight |
| Gateway selection (`farm.go`) | per request: the usable members, totals, priorities, minimum group | `selectGateway`, `gatewayHeartbeat` | GET `/jet/heartbeat` of each member, one after the other |
| Preflight (`preflight.go`) | the operation id; the `acked` flag | `provisionCredentials` | POST `/jet/preflight` of the chosen member |
| Token minting (`token.go`) | none | `mintAssociation`, `mintScope`, `mintHeartbeatScope`, `mintKdc`, `mintWebApp`, `dstHst` | clock, randomness, the provisioner key |
| HTTP handler (`http.go`) | none | `Handler`, `playerLaunchURL`, `descriptor` | browser; cancels through the request context |
| Ports (`ports.go`) | the host's | `Resolve` (identity, target, farm), `Get` (password) | host platform |
| Configuration (`config.go`, `New`) | `Config` | `New`, `Validate`, `LoadProvisionerKey` | once, at boot |
| test-authority (`cmd/test-authority`) | environment | `main`, stub resolvers | a development harness around the broker |
| gateway, player (not in this repository) | the vault of credential mappings, by jti, lost on restart; sessions | heartbeat, preflight, `/jet/rdp`, KDC proxy | broker, browser |
| i18n codemod (`coder-i18n/codemod/wrap.ts`) | `usedKeys`, `report`, the files | `makeKey`, `transformFile` (three phases), `ensureHook`, `ensureImport`, `serializeTagged` | files of the checkout |
| i18n runtime injection (`codemod/inject-runtime.ts`) | the files | copy, wrap `AppProviders`, wrap `AppearanceForm` | files of the checkout |
| i18n translation (`tolgee/translate.mjs`) | token, prompt, key ids, job id | description, prompt + bind, collect, batch, poll | Tolgee server |
| i18n pipeline (`coder-i18n/.mise/tasks/i18n/*`) | the checkout, the server's keys, `dist/` | source, wrap, sync, translate, pull, bake | all of the above |
| i18n runtime (`coder-i18n/runtime/*`) | none of its own | provider and language switcher | Tolgee's library |

What is hard in jetbroker. A launch is a chain of calls that leave the process
(three resolvers, the farm, a heartbeat per member, the preflight request),
each of which can fail, be slow or be overtaken. Launches of several clicks
share the gateways' memory. Liveness and identity of a gateway are read
*before* the tokens are bound to it, over a URL that may lead elsewhere by the
time the request is sent; the request may be handled after the launch has given
up on it; its HTTP status says nothing about its outcome; and an instance that
took the credential may restart before the player comes. The player reaches the
gateway over another URL than the broker. There is no retry and no failover
after the mint, by design (`farm.go:22-24`), so each of these has to end in a
failure the user sees or in a session that works.

What is hard in coder-i18n: key names depend on the order in which texts are
met, the codemod edits a tree it is walking, files are saved one by one and the
report last, steps are claimed to be re-runnable, and the translation step
drives a batch job on a server by paging and polling, with a token that expires,
while others edit the same project. `PROJECT.json` lists these among the
hazards, each with the properties that would catch it going wrong, or a note why
there is none.

What makes each modelled component correct:

* orchestration: a descriptor is only delivered for a credential that was really
  stored where the descriptor's tokens are good; sessions never run under
  somebody else's credential; a password is never older than its target; the
  answer names nothing server-side; every click is answered;
* selection: somebody is picked whenever somebody is usable, from the minimum
  group, and never a member that carries more than its share;
* preflight: success means an ack for our operation and no rejection of it,
  wherever they stand in the body;
* configuration: a process exits exactly if its configuration is incomplete, and
  otherwise serves with what was asked for;
* time: with its own client a launch is answered within the timeouts of its
  calls, no gateway refuses a token for its age, and a credential outlives the
  token that needs it;
* addresses: the gateway dials the declared host at its port or at 3389, the
  player page is the chosen gateway's, and the legs of a launch meet;
* balance: launches that overlap crowd a member by no more than one session each, up to eps;
* codemod and pipeline: keys tell texts apart, words are wrapped or reported, a
  file is wired once, and a build that completes is complete, over any sequence
  of failures, crashes and reruns;
* translation: the batch covers the keys that were there while they were being
  collected, "complete" is said of translated keys only, and every run ends.

## 2. Modules

| module | what it is |
|---|---|
| `PreflightReply` | the gateway's reply and `Accepted`, the declarative condition for a success |
| `PreflightLoop` | the code after the read: status check, parse, the loop with its flag and returns |
| `Exchange` | composes `PreflightLoop` and `Addressing`: the requests of one launch, its wait for the reply, and its answer |
| `ExchangeProofs` | what is sent and what comes back: the loop computes `Accepted` for bodies of any length, and the addresses of `Addressing` fit together for texts of any length |
| `Selection` | priorities in exact arithmetic, and `MinGroup`, the declarative minimum group |
| `SelectionProofs` | lemmas: sums over finite sets, and what the minimum group's members carry |
| `SelectLoop` | the three loops of `selectGateway` after probing, and the random pick |
| `SelectLoopProofs` | types, the share property, that the loops compute `MinGroup` and never leave it empty, for farms of any size |
| `LaunchPromise` | the abstract specification: what a launch promises, per click |
| `Launch` | concurrent launches, gateways, players and the world; uses `Accepted` and `MinGroup` |
| `LaunchProofs` | the inductive invariant of `Launch`, the safety theorems, and that it implements `LaunchPromise` |
| `Translate` | `translate.mjs`, run several times at once against a server others use too |
| `TranslateProofs` | the pages cover the project, and "complete" means translated, for any page size, runs and edits |
| `Boot` | from the environment or a host's `Config` to a serving broker or an exit |
| `Lifetimes` | `Boot`, then one launch against the clock: timeouts, `nbf` and `exp`, `time_to_live` |
| `LifetimesProofs` | types, the two properties about configurations and the four about time, for any farm, timeout, leeway and environment |
| `Addressing` | `dstHst`, `websocketURL`, `playerLaunchURL` and the endpoints, over texts |
| `FarmBalance` | launches that overlap fill a farm; uses `MinGroup` |
| `FarmBalanceProofs` | no member is crowded, for any farm and any number of launches |
| `Factory` | the tasks of `i18n:build` over one checkout, with the keys of `wrap.ts` and the saves of `inject-runtime.ts` |
| `TransformFile` | the three phases of `transformFile` over an element and over nested functions |
| `FactoryProofs` | keys, wiring, complete builds and rebuilds, for any files, texts and versions, over any sequence of tasks; what `transformFile` loses and hides, for any element and nesting |
| `MC...` | the instances TLC checks |

A definition whose comment starts with "Bug:" is not part of the specification. It is
the definition below it with a plausible mistake in it, and serves to show
that the property it is paired with in `PROJECT.json` can fail.

### Launch and the code

A broker action is the code between two calls that leave the process, so the
interleavings of the model are those of goroutines serving requests. `pc` says
which call a launch is at.

| action | code |
|---|---|
| `ResolveIdentity`, `ResolveTarget`, `ReadSecret` | steps 1-3 of `Launch`; target and password are *two* reads, and the model records which declaration each came from |
| `ResolveGateways` | `chooseGateway`; an empty farm ends the launch |
| `ResolverFails` | the error return of any of the four |
| `SkipWeightless`, `ProbeDead`, `ProbeAlive` | one turn of the probe loop of `selectGateway`; the instance *behind the URL at that moment* reports its id and load |
| `NoUsableGateway` | `errNoUsableGateway` |
| `ChooseAndPost` | the pick, the association and scope tokens, the request sent |
| `PreflightFails`, `PreflightReturns` | `provisionCredentials` returns: an error of the client, or the verdict on a reply |
| `MintFails` | a signing or randomness error before the request or after the ack |
| `Deliver` | steps 9-11: the remaining tokens, the descriptor |
| `Cancel` | the request context ends while a gateway is being called |
| `GatewayProvisions`, `GatewayRefuses` | the gateway handles the request, in time or late: ack, ack after an info alert, alert in a 200, 401, or garbage |
| `Connect`, `EndSession` | the player uses its descriptor; the session ends |
| `Redeclare`, `Reroute`, `Restart` | the workspace's target and password change; a base URL leads elsewhere; an instance loses its memory and its sessions |

What the model takes from the gateway is exactly what the comments in `src/`
say of it (`farm.go:20-23`, `preflight.go:31,37-39,89-94`, `token.go:67-69,86-97`,
`farm.go:150-151`): mappings are keyed by jti in one instance's memory, a token
bound to another id is rejected, an instance without an id accepts any binding,
operations fail inside a 200. These definitions are marked external in the map.

Abstractions: GUIDs are fresh by construction (the pair of launch and use),
tokens are their claims, a credential is the workspace and declaration it was
read from plus the domain of the user name, error texts are the set of things
they name. `Descriptor` is what the browser may do with the answer: the address, the
association token, the proxy credential and, when there is a domain, the URL of
the KDC proxy with its token. `LaunchResult` is all the browser is sent, with the
WEBAPP token and the display rows. `sent` records what each launch says to
gateways (the URL of every call, the scope tokens, the operation with the real
credential) and `answer` what the handler writes to each browser, item by item;
`ServerSideOnly` compares the two over all clicks, so that a URL or a token built
from the wrong one of two values shows.
The arithmetic of `Selection` is exact where the code uses `float64`; the
difference is a rounding of some 10^-16 against an eps of 10^-9. What is not a
matter of rounding is in `SelectLoop`: `minPriority` starts at `Inf`, and a quotient
0/0 would be `NaN`, which no comparison holds of; that none arises, on an idle farm
in particular, hangs on the guards of `relLoad` and `relWeight`. `lost` and
`played`, as `sent` and `answer`, are history and player state; no broker action
reads them.

### LaunchPromise and the refinement

`LaunchPromise` knows four things per click: its outcome, the instances that
hold its credential, those that held it and restarted, and the sessions that
are up. The mapping computes them from `pc`, `vault`, `lost` and `open`. It is
a non-trivial one in that the abstract `Deliver` needs a stored credential,
while `Launch!Deliver` looks at `pc` alone: what connects them is that
`PreflightReturns` accepted a reply which only `GatewayProvisions` sends. It
also says what may happen after a failure: a late request may still store the
credential (`Store` of a failed click), but no session ever uses it.

### Translate and the code

One action per call of the script and way it comes back. The script checks
`r.ok` of the login only; every other refusal is a JSON body it reads as if it
were an answer. So each call has up to three outcomes: answered (`FindPrompt`,
`CreatePrompt`, `ReadPage`, `StartBatch`, `PollSettles`; the second disjuncts of
`Describe` and `Bind` are refusals that are only logged), refused (`FindNoPrompt`,
`CreateRefused`, `PageRefused`, `PollAgain`), or thrown (`Dies`; where the call
changes the server, `CreatePrompt` and `StartBatch` also die *after* it took
effect). A call is only answered with a valid token; `Expire` ends a token at
any moment and `Relogin` renews it before each poll. The server's keys are a
sequence in its own order: `AddKey` puts a key anywhere in it, `DeleteKey` takes
one out, and both shift the pages that are still to be read. That a batch
without a bound prompt cannot succeed is the comment's word (`translate.mjs:9`).
`steady`, `slipped` and `refused` are history: the keys present since a run began
to collect, those of them that a deletion pulled over the boundary the loop stood
at (`Slips`: the first key of the page that comes next), and the runs that met a
refused page.

### Boot, Lifetimes and the code

A process starts as test-authority, from the settings of its environment, or in
a host that hands `New` a `Config` (kept in `given`) and adapters. `Boot` has one action per check
and way it comes out, in the order of `main`, `loadConfig`, `Validate` and
`New`. `Lifetimes` goes on from there: `Probe` mints a heartbeat token per
member (`token.go:131-139`), `Choose` the association and scope tokens,
`Deliver` the KDC and WEBAPP tokens, each with the `nbf` and `exp` of
`registered`. The clock (`Tick`) moves while a call to a gateway is out, up to
the timeout of the client if there is one, and while the player is waited for;
code takes no time. `Accepts` is a gateway's check against its own clock, off by
a skew; that it has a leeway, a cap on `time_to_live`, and that it answers what
is over the cap with an alert is external (`token.go:22-24`,
`preflight.go:89-94`). A negative TTL is taken to be refused the same way: it is no duration.
`Launch` has no clock and `Lifetimes` no concurrency: what time does to a launch
depends on its own calls only.

### Addressing and the code

A text is the sequence of its words and punctuation, so prefixes, suffixes and
cutsets are those of the library's functions, `TrimRight` and `TrimSuffix`
told apart. `HasPort` is what `net.SplitHostPort` accepts. `DialsTheTarget` says
nothing of texts that name no host: a bare IPv6 address, an empty port. A
trailing slash of a declared base stays in the player's address and the KDC
proxy's (`jetbroker.go:175,195`) while it is trimmed for the broker's own calls;
`LegsMeet` says that this is all they differ in. What a gateway makes of the double
slash is not settled by the code.

### FarmBalance and the code

A launch reads the members' loads one by one (`Probe`), picks from what it has
read (`Pick`, through `MinGroup` of `Selection`) and opens its session later or
never. All members answer and no session ends, so that the farm fills up:
sessions that end would make any member lighter or any share smaller at will,
which is no property of the selection. Members of weight 0, which are skipped,
are in `Launch`.

### Factory, TransformFile and the code

`Factory` runs the tasks of `i18n:build` (`mise.toml:46-55`) in order, or one
alone, with globs where it takes them; `Fails` ends a task anywhere, also by a
crash. `wrap` goes over the files in the order of their paths, saves each as it
is done and writes the report last; a file that throws is not saved but keeps
its keys. A file is wrapped item by item (`WrapItem`), and a key made for one
text is taken into account for the next. `bake` copies, then wires `App.tsx`, then `AppearanceForm.tsx`, each
saved on its own; `Throw` are its two ways to fail. The four copies are one
step, and what the steps of `translate` do is in `Translate`. `tolgee sync` is
external: it creates the keys the server does not have and keeps the texts of
those it has. Nobody else uses the server here. `runs`, `fed` and
`built` are history and read by no action.

`TransformFile` abstracts a child of an element to its kind (what
`looksTechnical`, `INLINE_TAGS` and `serializeTagged` tell apart) and records
which of the original children each child now stands for. A "fragment" is one with words
in it, which phase 2 wraps where they stand (`WrapInFragment`) unless the merge of
phase 1 has dropped them with it. Phase 3 is over
nested functions with and without block bodies; that `ensureHook` searches the
text of a body, nested functions included, is `Mentions`.

## 3. Runs

| run | instance | shows |
|---|---|---|
| `exchange` | all bodies of up to 3 entries (`MaxOutputs`) out of 8 kinds, plus a refused and a garbled reply; bases of five schemes and up to four words, targets of up to five | the verdict is `Accepted`; `LoopInv`, the invariant of the proof, holds; page, legs and `dst_hst` |
| `select_loop` | all farms of up to 3 members (`MaxMembers`), weights 1, 2, 5, loads 0 to 3 (`MaxSessions`) | the group drawn from is the whole minimum group and not empty; the pick is in it and under its share; selection ends |
| `launch_shared` | 2 clicks on one workspace, two members (one behind a front), initially on one instance or on two, the front leading to either or to nobody, one re-declaration (`MaxGen` 2), one move (`MaxMoves` 1) | the invariants about racing launches: sharing a vault, re-declaration, addresses, answers |
| `launch_moving` | 2 clicks on two workspaces (one farm is empty, one has a member of weight 0), three moves, to an instance without id, to nobody, to a black hole | refinement, types and liveness while the world moves under a launch |
| `launch_no_timeout` | as `launch_moving`, one move, `ClientTimeout = FALSE` | a violation, see section 6 |
| `translate` | 3 keys (of 4), `PageSize` 2; two runs, or one and two edits (`MaxEdits`, `EditsOrTwoRuns`) | the batch covers what was there throughout; `CollectInv`, the invariant of the proof, holds; complete means translated; every run ends |
| `translate_unready` | 1 run, 3 keys, no edits | a violation, see section 6 |
| `lifetimes` | every environment and `Config` that must not serve, a usual one of each and those with one setting changed; then a launch over 2 members | who exits and who serves, and the properties about time |
| `lifetimes_ttl` | complete environments and `Config`s with a TTL that is unset, fits, or is over the gateway's cap | a violation, see section 6 |
| `farm_balance` | 3 overlapping launches, weights 1, 1, 2, up to 6 sessions | `BurstBound`; at this size eps is too small to matter |
| `factory` | 2 files, 3 texts with one stem, 4 versions of the frontend | keys, wiring, catalogs after any sequence of tasks |
| `transform_file` | elements of up to 4 children of 9 kinds; up to 3 functions with up to 4 attributes | what is lost, reported, and in scope |

Why the bounds are enough. Three entries make every order of an ack, a
rejection and an entry that is not ours; three members make ties, a unique
minimum, and a minimum that is neither first nor last. Two clicks are all that
interact in a vault (a property relates one session to one launch), and
`launch_shared` lets them differ in domain. A launch binds to an URL twice
(heartbeat, preflight) and the player once, so three moves change the meaning
of the address between any two of them, with or without a restart. Two
declarations are an old and a new one. Three keys on pages of two make a full
and a part page, and two edits make keys cross the page boundary in either
direction and the number of pages change during the loop. `MCTranslate` lets
others edit only while no second run is at work: what a run collects depends on the
edits and its own steps, what two runs share is the prompt. `MCExchange` varies
the addresses or the body, not both: neither depends on the other. The proofs lift all of these bounds for
the properties they cover. `EpsInv` is 1000 instead of 10^9 because TLC's
integers have 32 bits; in the proofs it is any positive number.

In `lifetimes` a unit of time stands for 100 s: the association lives 3, leeway
and skews are 3, the default TTL is 9. The timeout is 2 instead of a tenth, so
that slow answers add up to something, and the cap 12 instead of 72; `MaxTime` 18 is past the moment
the last token is taken. Two members are one to be slow on and one to be chosen.
Four words hold the route twice over and slashes at both ends of it; five words
are a bracketed address with a port. Three launches can read, pick and open in
every order, and with six sessions the loads go past the burst. The four
versions of the frontend are one with everything, one with a file that throws
and an `AppearanceForm.tsx` without the return, and one without each of the two
wired files; two files with texts of one stem make suffixes depend on their
order. Four children hold a mergeable pair and two that get in its way.

`CHECK_DEADLOCK FALSE` is set because the functions return: a loop module stops
at its verdict or its pick, a run of the script ends, and once each of the finitely many clicks is
answered and the bounds on moves and declarations are used up, nothing is left
to happen. `Lifetimes` stops at `MaxTime` or with a process that exited,
`Exchange` with the answer or a rejection, `TransformFile` at the end of the file. That a run does not stop early is what `SelectionEnds` and
`EveryClickAnswered` check. `Factory` and `FarmBalance` never stop: another task
or launch can always begin, and deadlock is checked.

Fairness. `SelectLoop` assumes weak fairness of sequential code.
`Launch!Fairness` assumes that a launch which has begun takes its next step when
it can (a goroutine; each external call returns or times out), and that a
gateway which was reached answers. It assumes nothing of the clicking user, the
player, the operator or the network, nor that a client cancels. Whether a call
can fail in time is not assumed but modelled: `MayFail` is what `New` puts into
the client (`jetbroker.go:51-57`), and without the timeout the property fails.
`Translate!Fairness` assumes that the script goes on to its next call (`fetch`
gives up on a silent server), that batch jobs end, and, strongly, that a poll
that can be answered again and again is answered once: a single poll may
be refused and a token may expire between login and poll, but not for ever. If
the server never says how the job ended, the loop at line 136 never ends.

## 4. Proofs

All theorems hold for every value of the constants, under the named assumptions
of the modules (`BodiesAssumption`, `DeploymentsAssumption`, `EpsInvAssumption`,
`FarmsAssumption`, `LaunchAssumption`, `TranslateAssumption`, `BootAssumption`,
`FarmBalanceAssumption`, `FactoryAssumption`, `FloatAssumption`), which say what the types of the code
say; `SourcesAssumption` adds that a function is inside one that was numbered
before it, and `LifetimesAssumption` orders its constants, see below. Induction over a
finite set or over `1..n` is done with a least counterexample (`SubsetInduction`
in `SelectionProofs`, `LeastOf` in `FactoryProofs`, `MaxIsLargest` in
`ExchangeProofs`).

* `ReplyLoopCorrect`, `LoopKeepsCount`: `LoopSpec => []VerdictIsAcceptance`. Inductive invariant
  `LoopInv`: the flag says whether one of the entries read so far was our ack,
  and none of them was a rejection. Without the second half the step at the end
  of the body could not conclude.
* `SelectTypeCorrect`, `PickIsUnderLoaded`: types, and "never over its share".
  `Inv` has the totals as prefix sums (`TotalsInv`) and, the heart of it,
  `ScoreInv`: as long as no priority at or below 0 has been met, the priorities
  met so far add up to something positive. Over all members they add up to at
  most 0 (both shares add up to 1, or the loads to 0), so the minimum is not
  positive, and whoever is within eps of it carries at most its share plus eps.
  This is why `SelectLoop` keeps the history of its accumulators: the prefix
  sums are the induction.
* `PickIsMinimal`: `Spec => []PickIsInMinGroup`. `MinGroup` sums over a set with
  a fold; `SumIsRunningTotal` says that running totals with the steps of the code
  end at that sum. Hence the code's priorities are those of the definition, and
  "within eps of the least" singles out the same members although one side
  compares with a minimum it has found and the other with every member.
* `GroupIsNeverShort`: `Spec => []GroupIsMinGroup`. The other direction: every
  member of `MinGroup` is drawn from, and there is one, so `group[idx]` exists.
  Priorities are numbers and those of the definition (`DifferenceIs`), so the first
  member scored replaces `Inf`. `Inv` is too weak for the rest: it only says that
  no priority is below the minimum and that whoever is in the group is within
  eps. `FoundInv` adds that the minimum *is* the priority of a member scored and
  that no member within eps was passed over. Together they are inductive.
* `BurstIsBounded`: `Spec => []BurstBound`. The heart of the invariant is
  `NoMoreThanComing`: beyond `v` sessions on a member, unless more than `v` is
  within its share anyway, come only those launches that have read at most `v`
  there, and each of them opens one. It is kept because elsewhere sessions only
  become more, so that what was fair to pick stays fair (`PickWasFair`). For
  a load of `burst` and `v + 1` more the second half of `NoMoreThanComing` is
  false, so `v + 1` is within the share, which is the bound. That a picked
  member is within its share (`GroupIsUnderShare`) is shown again for
  the declarative group, by the sum of the excesses over all members, which is 0.
* `LaunchTypeCorrect`, `DeliveredIsAlwaysServed`, `SessionsAreOwn`,
  `PasswordsAreFresh`. `LaunchProofs!Inv` is `TypeOK` and four parts:
  `PhaseInv` (what is read and sent at each `pc`), `StoreInv` (a stored mapping
  is `Mapping(c)` of a launch whose request was handled, on an instance that
  takes its tokens), `ServedInv` (an acceptable reply on the wire, or a launch
  past provisioning, means the mapping is in a vault or was lost), `SessionInv`
  (a session carries its own launch's mapping). The safety properties are not
  inductive: `DeliveredIsServed` needs the reply still on the wire,
  `NoForeignSession` needs every mapping in every vault to be some launch's own
  so that the jti and the proxy credential single it out, and
  `PasswordNotOlderThanTarget` needs target at most password at most current
  declaration at each `pc`.
* `PlayersReachTheirInstance`, `BrowserLearnsNoServerSide`. `StillInv` adds
  where things are as long as nothing has moved: the id that was read is that of
  the instance its URL leads to, and a launch past provisioning has its mapping
  *in* that vault, not among what was lost. For the other theorem, `FarmInv` says
  that survivors and the choice are members of the workspace's own farm, and
  `TalkInv` what each launch has said so far: to gateways only URLs, scope tokens,
  the real credential and, once the request is out, its own association token and
  proxy credential; to the browser the fixed text, or its own `LaunchResult`, whose
  URLs are those the farm has for browsers. Tokens and proxy credentials of two
  launches differ because their identifiers do (`NewGuid`).
* `LaunchImplementsPromise`: `Spec => ImplementsPromise`. Each action is shown
  to be a `LaunchPromise` action or a stutter under `Inv`; the delicate cases
  are `GatewayProvisions` (no second copy, never after the descriptor is out),
  `Deliver`, and `Connect` (at most one session per click, where its mapping is).

* `PagesCoverTheProject`: `Spec => []CollectedAll`. `CollectInv` adds what the
  loop keeps true: a key that was there from the start and is not collected yet
  stands beyond the pages read so far (`MissingIsAhead`). Adding keys only moves
  it further back; a deletion moves it one forward, past the loop only if it was
  the first of the next page, and is then counted in `slipped`. The lemma `LastPageCovers` says that the loop's
  exit test means that nothing stands beyond the last page read.
  `MissingKeysAreAhead` states the invariant itself.
* `DoneIsTranslated`: `Spec => []DoneMeansTranslated`. `JobInv`: a run has no job
  before its batch is started, so the keys of a job that succeeded are those its
  run collected, and they are translated; and only such a run says "complete".

* `FailsFastAndOnlyThen`, `ServesWhatWasAsked`: `BootsExactly` and
  `ServesAsConfigured`. The invariant says, at each step of the boot, what the
  checks passed so far have ruled out and which fields of `Config` are
  already those of the settings (`ConfigurationHolds`); the settings are what
  comes later, so that no check may depend on an earlier default. In a host it
  compares with `given`, the `Config` that was handed in: the same up to `New`, and
  from then on the same but for the fields that were zero.
* `LifetimesTypeCorrect`, `LaunchesAnswerInTime`, `TokensAreFresh`,
  `PromptPlayersAreServed`, `CredentialsOutliveTokens`. From
  `LifetimesAssumption`: the timeout is at most the association's lifetime, that
  at most the WEBAPP token's, skews are within the leeway, and the default TTL is
  at least the association's lifetime and twice the leeway, and at most the cap.
  The code's numbers (10 s, 300 s, 2 h, 5 min, 900 s, 2 h) satisfy it. `Inv` is `TypeOK`
  and `BootInv` (an unset TTL is the default once the process listens), `CallInv`
  (where the clock can be at each call: `n` probes take at most `n` timeouts) and
  `MintInv` (which call each token that matters was minted at). None of the
  properties is inductive: `AnsweredInTime` needs the moment the call that is out
  was sent, the other three when the tokens were minted, long before they are seen.

* `NeverWiredTwice`, `KeysAreUnambiguous`, `BuildsAreComplete`,
  `RebuildsKeepTranslations`, over any sequence of builds, tasks, failures and
  crashes. `WiredInv`: a file is stock, or wrapped once *and* marked.
  `RunInv`: as long as there was one wrap run since the reset, it is where a run
  over the version's own files would be (`FirstRun`): the keys it has made are
  `Made(version)`, a function of the version alone, whatever happened before the
  reset. That is what makes keys unambiguous, and what makes a rebuild come to the
  keys that are on the server already: `FedInv` says that what only one version
  has fed has that version's keys with that version's texts. `BuildInv`
  says what a build has achieved when it comes to each task; that a build has
  wrapped once since its reset is a part of it. `Wrap` is shown to
  be a table item by item (`WrapIsTabulated`), with `WrapEffect` as what the proofs use.

* `NoWordIsForgotten`, `MergeLosesTheUnseen`, `HooksHideOutwardsOnly`, for elements
  with any children and functions nested to any depth. `FileInv` says that the
  body is in one of two shapes all along: `Unmerged`, every child
  at its place and each of the words passed by now a `T` unless the element is
  in the report, or `Merged`, a single `T` for all text and all tags, where nothing
  else was but JSX without content and fragments, which `serializeTagged` does not see. `WordsAreAccountedFor` speaks of the end
  only and needs the places passed so far; the second shape is what
  `OnlyUnseenChildrenAreLost` is about. `HookInv` traces each hook to an attribute
  that was wrapped before, so that a hook found in the text of a body, but not in
  scope, was put there for an attribute of an inner function.

* `GatewayDialsTheTarget`, `PagesFollowGateway`, `LegsAlwaysMeet`, for addresses of
  any length. `AddressInv` is short: every address is the function of the inputs
  the code says, from the step that computes it on. The work is in the lemmas
  on texts: what `TrimPrefix` and `TrimSuffix` take back of a concatenation
  (`PrefixGoes`, `SuffixGoes`), that a text has one scheme (`OneScheme`), that
  `websocketURL` is undone by the page, with or without the route behind
  it (`BackToWeb`), where `TrimRight` stops (`TrimRightIs`), and that
  `SplitHostPort` finds no port on a host alone and the last one on a host with a
  port, brackets or not (`HostHasNoPort`, `PortSeen`). Texts that name no host,
  such as a bare IPv6 address, are outside the premise.
* `ExchangeIsBoth`: `ExchangeSpec => LoopSpec /\ Spec`. Each step of the composition is
  one of its parts' and leaves the other's variables alone, so the theorems on the
  loop and on the addresses hold of it.

Only model-checked: the liveness properties (`SelectionEnds`,
`EveryClickAnswered`, `RunEnds`). They rest on fairness, and liveness and ENABLED
are out of the prover's reach. Every invariant a passing run checks is also proved,
and so is the refinement `ImplementsPromise`.

## 5. Not modelled

Signatures, TLS, PEM and ASN.1 parsing, JSON and base64 encoding: library calls,
abstracted to their outcome. The reuse window of a token: a claim that is
copied. The authorization of
a user for a workspace: the host's, by contract (`http.go:22-26`). The adapters
a host brings: only that they return a value of their own moment, or fail. Of the codemod,
`ensureImport` (it adds names to a list), the patterns of `looksTechnical` and
the type lookup of `wantsStringChildren` stand for their outcome. The runtime of coder-i18n is declarative
glue over a library, the catalogs and the context file are data. Whether the
translation server takes two prompts of one name: not settled by the code, so
nothing is stated about it. The tooling at the root of the repository has no logic of its own.

## 6. Findings

`launch_no_timeout`: `New` replaces a missing client by one with a timeout,
because without it "a hung or black-holed gateway would hang Launch
indefinitely" (`jetbroker.go:52-54`). `cmd/test-authority/main.go:138` supplies a
client of its own under `DGW_TLS_INSECURE`, without a timeout, and so
brings the hang back. TLC finds the launch that is never answered.

`lifetimes_ttl`: `Validate` takes any `CredentialTTL`. One above the gateway's cap
boots, and it is every launch that is turned down, although "a misconfigured
broker must fail fast, not per launch" (`config.go:63-64`).
`DefaultOutlivesAssociation` says that the default is safe.

`translate_unready`: a page that is refused (`translate.mjs:118-120`) has no keys
and, by default, no further pages; the run goes on and says "translation complete"
of a part, although lines 10 and 113 speak of *all* keys. The answers to the
prompt's creation and the binding are only logged or not looked at
(`translate.mjs:104,111`), and the batch starts anyway, although line 8 has a prompt
exist and be "BOUND" first. The counterexample does both. What is left of the
claims: `CollectedAll` says, and `PagesCoverTheProject` proves, that refused pages and
keys a deletion pulls over the page boundary are the only way to miss a key; and
by `DoneMeansTranslated` a batch without a prompt never counts as complete. The
description of line 7 is sent in the same way (`translate.mjs:79`).

The following contradict a comment too. They have no run of their own; the property
named draws the line exactly, so that a run of section 3 shows what is left of the claim.

* `serializeTagged` has no branch for fragments, and the whole body is then replaced
  (`wrap.ts:189-206,269`): the words, expressions and components of a fragment beside
  text and a `<strong>` are gone from the page and not in the report, although nothing
  is to be "silently dropped" (`wrap.ts:12-13`). So are a `<br/>` or an icon.
  `OnlyUnseenChildrenAreLost` says that nothing else gets lost, and
  `WordsAreAccountedFor` that this is the only way for words to go unreported.
* A target declared with a port is shown to the player with it
  (`jetbroker.go:179`), although "The port lives ONLY here" (`token.go:113-114`).
  `DialsTheTarget` says what the token gets.
* A checkout without `AppearanceForm.tsx` makes the injection throw after
  `App.tsx` was saved, although a rename "just skips this"
  (`inject-runtime.ts:77-81`). `WiredOnce` and `BuiltIsComplete` hold over it: a
  rerun is safe, and such a build does not complete.
* Once an inner function has the hook, the attributes of the outer one are wrapped
  with a `t` that nobody declares there (`wrap.ts:176`), although the hook goes
  "into the component that owns `node`" (`wrap.ts:163`). `OnlyInnerHooksHide` says
  that this is the only way, for JSX in the bodies of functions; JSX in a default
  value of a parameter is not modelled.

## 7. Plan

*Done*: all modules of section 2 with their runs, and the proofs of section 4:
every invariant of every passing run, and the refinement.

*Left*: the three liveness properties, until the prover handles fairness. One
hazard has no property: two runs of the translation that miss the prompt at the
same time and both create it (`translate.mjs:84`); what the server does with two
prompts of one name is not settled by the code. `ensureImport`, the patterns of
`looksTechnical` and the type lookup of `wantsStringChildren` would be modules of
their own if one of them came to keep state.
