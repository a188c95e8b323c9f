---------------------------- MODULE TransformFile ----------------------------
(***************************************************************************)
(* transformFile over one file: what the first two phases make of a JSX     *)
(* element (text with inline tags becomes one <T params>, what is left of   *)
(* its text one <T> each) and the third of the attributes in nested         *)
(* functions (t(...), with a hook that declares t in one of them).          *)
(***************************************************************************)
EXTENDS SequencesExt

\* "words" is text worth a key, "term" has letters but looksTechnical, "blank"
\* has none; "tag" is an inline tag with plain text in it, "rich" one with
\* attributes or with more than text; "element" is other JSX, "expr" in braces.
\* "fragment" is a fragment with words in it, which stand for whatever else it may
\* hold; "empty" is JSX that holds nothing, self-closing or a hollow fragment.
Text == {"words", "term", "blank"}
Inline == {"tag", "rich"}
Kinds == Text \cup Inline \cup {"element", "expr", "empty", "fragment"}

CONSTANT
    Sources   \* the files to look at; a function's parent is 0 at the top

ASSUME SourcesAssumption ==
    \A f \in Sources :
       /\ f.children \in Seq(Kinds) /\ f.wantsString \in BOOLEAN
       /\ f.parent \in Seq(Nat) /\ \A g \in DOMAIN f.parent : f.parent[g] < g
       /\ f.block \subseteq DOMAIN f.parent
       /\ f.attrs \in Seq(DOMAIN f.parent)

VARIABLES
    file,       \* children: the kinds of the element's children;
                \* wantsString: its component types them as string;
                \* parent: the function around each function, block: those with
                \* a block body; attrs: the function each attribute stands in,
                \* in document order
    body,       \* the element's children now, with the places they held before
    at,         \* 0: phase 1; then the child phase 2 is at
    next,       \* the attribute phase 3 is at
    hooked,     \* the functions that got the hook
    wrapped,    \* the attributes that are t(...) now
    reported    \* what the report lists: 0 for the element, else an attribute

fileVars == <<file, body, at, next, hooked, wrapped, reported>>

Children == [i \in DOMAIN file.children |-> [kind |-> file.children[i], of |-> {i}]]

FileInit ==
    /\ file \in Sources
    /\ body = Children /\ at = 0 /\ next = 1
    /\ hooked = {} /\ wrapped = {} /\ reported = {}

-----------------------------------------------------------------------------
(* Phases 1 and 2.                                                         *)

HasKind(K) == \E i \in DOMAIN file.children : file.children[i] \in K

Mixed == HasKind({"words", "term"}) /\ HasKind(Inline)

\* Bug: braces are passed over like tags without children.
SerializableAnyExpr == ~HasKind({"rich", "element"})

\* serializeTagged returns no null.  It has no branch for "empty" and "fragment".
Serializable == ~HasKind({"rich", "element", "expr"})

UnchangedAttributes == UNCHANGED <<file, next, hooked, wrapped>>

\* One T for the whole body ...
MergeMixed ==
    /\ at = 0 /\ Mixed /\ ~file.wantsString /\ Serializable
    /\ body' = <<[kind |-> "T",
                  of |-> {i \in DOMAIN body : body[i].kind \in Text \cup {"tag"}}]>>
    /\ at' = 1
    /\ UnchangedAttributes /\ UNCHANGED reported

\* ... or a line in the report.
SkipMixed ==
    /\ at = 0 /\ Mixed
    /\ file.wantsString \/ ~Serializable
    /\ reported' = reported \cup {0}
    /\ at' = 1
    /\ UnchangedAttributes /\ UNCHANGED body

NotMixed ==
    /\ at = 0 /\ ~Mixed
    /\ at' = 1
    /\ UnchangedAttributes /\ UNCHANGED <<body, reported>>

\* For each text that is left: one T,
WrapText ==
    /\ at \in DOMAIN body /\ body[at].kind = "words" /\ ~file.wantsString
    /\ body' = [body EXCEPT ![at].kind = "T"]
    /\ at' = at + 1
    /\ UnchangedAttributes /\ UNCHANGED reported

\* Bug: phase 1 is taken to have reported the element.
SkipTextSilently ==
    /\ at \in DOMAIN body /\ body[at].kind = "words" /\ file.wantsString
    /\ at' = at + 1
    /\ UnchangedAttributes /\ UNCHANGED <<body, reported>>

\* or a line in the report.
SkipText ==
    /\ at \in DOMAIN body /\ body[at].kind = "words" /\ file.wantsString
    /\ reported' = reported \cup {0}
    /\ at' = at + 1
    /\ UnchangedAttributes /\ UNCHANGED body

\* The parent of a text in a fragment is no element: nothing asks for its type.
WrapInFragment ==
    /\ at \in DOMAIN body /\ body[at].kind = "fragment"
    /\ body' = [body EXCEPT ![at].kind = "T"]
    /\ at' = at + 1
    /\ UnchangedAttributes /\ UNCHANGED reported

NoText ==
    /\ at \in DOMAIN body /\ body[at].kind \notin {"words", "fragment"}
    /\ at' = at + 1
    /\ UnchangedAttributes /\ UNCHANGED <<body, reported>>

-----------------------------------------------------------------------------
(* Phase 3.                                                                *)

\* The function itself and those it stands in, up to the file.
Around[f \in DOMAIN file.parent] ==
    {f} \cup IF file.parent[f] = 0 THEN {} ELSE Around[file.parent[f]]

Within(g) == {f \in DOMAIN file.parent : g \in Around[f]}

Blocks(f) == Around[f] \cap file.block

\* ensureHook walks up from the node to the first function with a block body.
Owner(f) == Max(Blocks(f))

\* Bug: the file is searched.
MentionsAnywhere(g) == hooked # {}

\* The body's text has useTranslate in it, functions it contains included.
Mentions(g) == Within(g) \cap hooked # {}

NextAttribute ==
    /\ at > Len(body) /\ next \in DOMAIN file.attrs
    /\ next' = next + 1
    /\ UNCHANGED <<file, body, at>>

Wrapped == wrapped' = wrapped \cup {next} /\ UNCHANGED reported

AlreadyThere ==
    /\ NextAttribute
    /\ Blocks(file.attrs[next]) # {} /\ Mentions(Owner(file.attrs[next]))
    /\ Wrapped
    /\ UNCHANGED hooked

InsertHook ==
    /\ NextAttribute
    /\ Blocks(file.attrs[next]) # {} /\ ~Mentions(Owner(file.attrs[next]))
    /\ hooked' = hooked \cup {Owner(file.attrs[next])}
    /\ Wrapped

NoBlockComponent ==
    /\ NextAttribute
    /\ Blocks(file.attrs[next]) = {}
    /\ reported' = reported \cup {next}
    /\ UNCHANGED <<hooked, wrapped>>

FileNext ==
    \/ MergeMixed \/ SkipMixed \/ NotMixed
    \/ WrapText \/ SkipText \/ WrapInFragment \/ NoText
    \/ AlreadyThere \/ InsertHook \/ NoBlockComponent

FileSpec == FileInit /\ [][FileNext]_fileVars

-----------------------------------------------------------------------------
Kept == UNION {body[i].of : i \in DOMAIN body}
Translated == UNION {body[i].of : i \in {j \in DOMAIN body : body[j].kind = "T"}}

\* Words of the element end up in a T or the element in the report, whichever of
\* the phases meets them, whatever stands beside them (wrap.ts:12-13); the words of
\* a fragment in a T, unless the merge took the fragment away.
WordsAreAccountedFor ==
    at > Len(body) => \A i \in DOMAIN file.children :
       /\ file.children[i] = "words" => i \in Translated \/ 0 \in reported
       /\ file.children[i] = "fragment" => i \in Translated \/ i \notin Kept

\* All the merge takes away from an element is what serializeTagged has no branch
\* for: JSX that holds nothing, and fragments, whatever they hold.  Words,
\* expressions, tags with attributes and components with children that are the
\* element's own children are never lost (wrap.ts:186-212,269).
OnlyUnseenChildrenAreLost ==
    \A i \in DOMAIN file.children \ Kept : file.children[i] \in {"empty", "fragment"}

InScope(a) == Around[file.attrs[a]] \cap hooked # {}

\* The only way for a t(...) to stand where no t is declared: a function inside
\* the one that should have got the hook had it first, for an attribute of its
\* own.  Functions side by side, or an inner one that comes later, do no harm
\* (wrap.ts:163-184).
OnlyInnerHooksHide ==
    \A a \in wrapped :
        LET owner == Owner(file.attrs[a])
        IN  \/ InScope(a)
            \/ \E b \in wrapped :
                  /\ b < a
                  /\ Owner(file.attrs[b]) \in hooked \cap (Within(owner) \ {owner})
=============================================================================
