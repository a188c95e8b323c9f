------------------------------ MODULE Factory ------------------------------
(***************************************************************************)
(* The i18n factory over one checkout: the tasks of i18n:build, run in     *)
(* order or one by one, ended at any point by a failure or a crash, and run *)
(* again.  wrap.ts is here with its keys, file by file, inject-runtime.ts  *)
(* with its two saves; what translate.mjs does in detail is in Translate.  *)
(***************************************************************************)
EXTENDS SequencesExt

CONSTANTS
    Texts,      \* what is written in the frontend
    Stem,       \* of a text: its first five words, as camelWords makes them
    Namespace,  \* of a file, in the order of the project's files
    Version,    \* of the frontend, by name
    Bare        \* the key of a text that is not wrapped

Files == DOMAIN Namespace

\* A key: the namespace, the stem and the number that makes it differ.
Key == ToSet(Namespace) \X {Stem[text] : text \in Texts} \X Nat

\* A version has the texts of each file in the order of the three phases, and
\* what is special about it: how many texts of a file are wrapped before
\* transformFile throws (more than it has: none), whether App.tsx has the
\* return that is looked for, and what has become of AppearanceForm.
ASSUME FactoryAssumption ==
    /\ Namespace \in Seq(ToSet(Namespace)) /\ Namespace # <<>> /\ DOMAIN Stem = Texts
    /\ Bare \notin Key
    /\ "mixed" \notin DOMAIN Version
    /\ \A v \in DOMAIN Version :
          /\ Version[v].texts \in [Files -> Seq(Texts)]
          /\ Version[v].wrappable \in [Files -> Nat]
          /\ Version[v].app \in BOOLEAN
          /\ Version[v].form \in {"there", "no return", "no file"}

VARIABLES
    job, task,          \* "build" or "single"; the task that is up
    version, tree,      \* what is checked out: per file, texts with their keys
    app, form,          \* App.tsx, AppearanceForm.tsx: how often wrapped, and
                        \* whether the import that marks it is there
    todo, usedKeys,     \* of the wrap run: files to come, key -> text
    extracted,          \* _keys.extracted.json
    server, dist, baked, \* key -> the text whose translation it names
    runs, fed, built    \* history: wrap runs since the reset (2: several, or one
                        \* over a part of the files), the trees that were synced,
                        \* whether a full build was the last thing run

vars == <<job, task, version, tree, app, form, todo, usedKeys, extracted,
          server, dist, baked, runs, fed, built>>

Pristine(v) ==
    [f \in Files |-> [i \in DOMAIN Version[v].texts[f] |->
                        [text |-> Version[v].texts[f][i], key |-> Bare]]]

Stock == [wrapped |-> 0, marked |-> FALSE]

Items == UNION {ToSet(tree[f]) : f \in Files}
Keyed == {it \in Items : it.key # Bare}

\* The checkout has just been cloned.
Init ==
    /\ job = "none" /\ task = "none"
    /\ version \in DOMAIN Version /\ tree = Pristine(version)
    /\ app = Stock /\ form = Stock
    /\ todo = {} /\ usedKeys = <<>> /\ extracted = <<>>
    /\ server = <<>> /\ dist = <<>> /\ baked = <<>>
    /\ runs = 0 /\ fed = {} /\ built = FALSE

-----------------------------------------------------------------------------
\* Bug: the glue is put in while the catalogs are still on their way.
AfterBakeFirst ==
    [source |-> "wrap", wrap |-> "sync", sync |-> "translate", translate |-> "bake",
     bake |-> "pull", pull |-> "none"]

After ==
    [source |-> "wrap", wrap |-> "sync", sync |-> "translate", translate |-> "pull",
     pull |-> "bake", bake |-> "none"]

\* What comes up with a task: wrap starts a process over the files it is given.
Enter(t, files) ==
    /\ task' = t
    /\ IF t = "wrap"
       THEN /\ todo' = files /\ usedKeys' = <<>>
            /\ runs' = IF files = Files THEN Min({2, runs + 1}) ELSE 2
       ELSE todo' = {} /\ usedKeys' = <<>> /\ UNCHANGED runs

Build ==
    /\ job = "none"
    /\ job' = "build" /\ Enter("source", Files) /\ built' = FALSE
    /\ UNCHANGED <<version, tree, app, form, extracted, server, dist, baked, fed>>

\* mise run i18n:<task>, with globs where the task takes them.
RunAlone(t, files) ==
    /\ job = "none"
    /\ t # "wrap" => files = Files
    /\ job' = "single" /\ Enter(t, files) /\ built' = FALSE
    /\ UNCHANGED <<version, tree, app, form, extracted, server, dist, baked, fed>>

\* The end of task t: on to the next of a build.
Finish(t) ==
    IF job = "build" /\ After[t] # "none"
    THEN Enter(After[t], Files) /\ UNCHANGED <<job, built>>
    ELSE /\ job' = "none" /\ task' = "none" /\ built' = (job = "build")
         /\ todo' = {} /\ usedKeys' = <<>> /\ UNCHANGED runs

\* A task fails or is killed, and mise runs none of those behind it.
Fails ==
    /\ job # "none"
    /\ job' = "none" /\ task' = "none" /\ todo' = {} /\ usedKeys' = <<>>
    /\ UNCHANGED <<version, tree, app, form, extracted, server, dist, baked,
                   runs, fed, built>>

\* Bug: a reset that leaves the working tree alone.
ResetSoft(v) ==
    /\ task = "source"
    /\ version' = v /\ tree' = tree
    /\ app' = Stock /\ form' = Stock /\ runs' = 0
    /\ task' = "clean"
    /\ UNCHANGED <<job, todo, usedKeys, extracted, server, dist, baked, fed, built>>

\* git reset --hard to CODER_VERSION ...
Reset(v) ==
    /\ task = "source"
    /\ version' = v /\ tree' = Pristine(v)
    /\ app' = Stock /\ form' = Stock /\ runs' = 0
    /\ task' = "clean"
    /\ UNCHANGED <<job, todo, usedKeys, extracted, server, dist, baked, fed, built>>

\* ... and git clean of site/src/i18n.
Clean ==
    /\ task = "clean"
    /\ baked' = <<>>
    /\ Finish("source")
    /\ UNCHANGED <<version, tree, app, form, extracted, server, dist, fed>>

-----------------------------------------------------------------------------
\* Both, and f where they disagree.
Merge(f, g) == [k \in DOMAIN f \cup DOMAIN g |-> IF k \in DOMAIN f THEN f[k] ELSE g[k]]

\* makeKey: the stem, or the first suffixed one that is free or has this text.
MakeKey(used, f, text) ==
    LET key(i) == <<Namespace[f], Stem[text], i>>
        usable(i) == key(i) \notin DOMAIN used \/ used[key(i)] = text
    IN  key(Min({i \in 1..(Cardinality(DOMAIN used) + 1) : usable(i)}))

\* A text gets its key; what is wrapped already is no text any more.
WrapItem(f, a, it) ==
    IF it.key # Bare THEN [a EXCEPT !.out = Append(@, it)]
    ELSE LET k == MakeKey(a.used, f, it.text)
         IN  [used |-> Merge([x \in {k} |-> it.text], a.used),
              out  |-> Append(a.out, [it EXCEPT !.key = k])]

\* transformFile on a part of a file, item by item.
Wrap(f, used, items) ==
    LET upTo[n \in 0..Len(items)] ==
            IF n = 0 THEN [used |-> used, out |-> <<>>]
            ELSE WrapItem(f, upTo[n - 1], items[n])
    IN  upTo[Len(items)]

\* Bug: the files come in any order.
TurnAny(f) == f \in todo

\* project.getSourceFiles() has the files in the order of their paths.
Turn(f) == f \in todo /\ \A g \in todo : f <= g

Throws(f) == Version[version].wrappable[f] <= Len(tree[f])

WrapFile(f) ==
    /\ task = "wrap" /\ Turn(f) /\ ~Throws(f)
    /\ LET w == Wrap(f, usedKeys, tree[f]) IN
          tree' = [tree EXCEPT ![f] = w.out] /\ usedKeys' = w.used
    /\ todo' = todo \ {f}
    /\ UNCHANGED <<job, task, version, app, form, extracted, server, dist, baked, runs, fed, built>>

\* The file is not saved, the keys made for it stay.
FileThrows(f) ==
    /\ task = "wrap" /\ Turn(f) /\ Throws(f)
    /\ usedKeys' = Wrap(f, usedKeys, SubSeq(tree[f], 1, Version[version].wrappable[f])).used
    /\ todo' = todo \ {f}
    /\ UNCHANGED <<job, task, version, tree, app, form, extracted, server, dist, baked, runs, fed, built>>

\* The report; then the dependencies and the formatting, which may still fail.
Report ==
    /\ task = "wrap" /\ todo = {}
    /\ extracted' = usedKeys
    /\ Finish("wrap")
    /\ UNCHANGED <<version, tree, app, form, server, dist, baked, fed>>

\* Keys the server does not have are created, with the text they stand at.
Sync ==
    /\ task = "sync"
    /\ \E text \in [{it.key : it \in Keyed} -> Texts] :
          /\ \A k \in DOMAIN text : [text |-> text[k], key |-> k] \in Keyed
          /\ server' = Merge(server, text)
    /\ fed' = fed \cup {IF runs = 1 THEN version ELSE "mixed"}
    /\ Finish("sync")
    /\ UNCHANGED <<version, tree, app, form, extracted, dist, baked>>

Translate ==
    /\ task = "translate"
    /\ Finish("translate")
    /\ UNCHANGED <<version, tree, app, form, extracted, server, dist, baked, fed>>

Pull ==
    /\ task = "pull"
    /\ dist' = server
    /\ Finish("pull")
    /\ UNCHANGED <<version, tree, app, form, extracted, server, baked, fed>>

\* inject-runtime.ts: the copies into site/src/i18n,
Copy ==
    /\ task = "bake"
    /\ baked' = dist /\ task' = "app"
    /\ UNCHANGED <<job, version, tree, app, form, todo, usedKeys, extracted, server,
                   dist, runs, fed, built>>

Wired(file) == [wrapped |-> file.wrapped + 1, marked |-> TRUE]

\* Bug: what is wired already is not asked for.
WireAppAgain ==
    /\ task = "app"
    /\ Version[version].app
    /\ app' = Wired(app)
    /\ task' = "form"
    /\ UNCHANGED <<job, version, tree, form, todo, usedKeys, extracted, server, dist,
                   baked, runs, fed, built>>

\* App.tsx,
WireApp ==
    /\ task = "app"
    /\ app.marked \/ Version[version].app
    /\ app' = IF app.marked THEN app ELSE Wired(app)
    /\ task' = "form"
    /\ UNCHANGED <<job, version, tree, form, todo, usedKeys, extracted, server, dist,
                   baked, runs, fed, built>>

\* and AppearanceForm.tsx, where there is one.
WireForm ==
    /\ task = "form"
    /\ Version[version].form # "no file"
    /\ form' = IF form.marked \/ Version[version].form = "no return" THEN form ELSE Wired(form)
    /\ Finish("bake")
    /\ UNCHANGED <<version, tree, app, extracted, server, dist, baked, fed>>

\* inject-runtime.ts throws.
Throw ==
    /\ \/ task = "app" /\ ~app.marked /\ ~Version[version].app
       \/ task = "form" /\ Version[version].form = "no file"
    /\ job' = "none" /\ task' = "none"
    /\ UNCHANGED <<version, tree, app, form, todo, usedKeys, extracted, server,
                   dist, baked, runs, fed, built>>

Next ==
    \/ Build \/ \E t \in DOMAIN After, files \in SUBSET Files : RunAlone(t, files)
    \/ Fails \/ \E v \in DOMAIN Version : Reset(v)
    \/ Clean \/ \E f \in Files : WrapFile(f) \/ FileThrows(f)
    \/ Report \/ Sync \/ Translate \/ Pull \/ Copy \/ WireApp \/ WireForm \/ Throw

Spec == Init /\ [][Next]_vars

-----------------------------------------------------------------------------
\* A key never stands at two texts in a tree that one run has wrapped since the
\* reset, over all of its files: whatever crashed before it, and however many
\* texts share their first words (wrap.ts:102-118).
KeysTellTextsApart ==
    runs <= 1 => \A a, b \in Keyed : a.key = b.key => a.text = b.text

\* However often tasks fail and are run again, in whatever order, App.tsx and
\* AppearanceForm.tsx are wrapped at most once (inject-runtime.ts:3,62,82).
WiredOnce == app.wrapped <= 1 /\ form.wrapped <= 1

\* What a full build leaves: a provider around the app, a baked value and a
\* line in the report for every key in the tree, and no bare text but in files
\* that could not be transformed (coder-i18n/README.md:17-30).
BuiltIsComplete ==
    built =>
       /\ app.wrapped = 1
       /\ \A it \in Keyed : it.key \in DOMAIN baked /\ it.key \in DOMAIN extracted
       /\ \A f \in Files : ~Throws(f) => \A it \in ToSet(tree[f]) : it \in Keyed

\* As long as only one version went to the server, each time wrapped in one
\* run, builds that are repeated or crashed give every text its own translation
\* again: keys do not move between texts of one version (wrap.ts:105-116).
RebuildKeepsTranslations ==
    built /\ fed = {version} => \A it \in Keyed : baked[it.key] = it.text
=============================================================================
