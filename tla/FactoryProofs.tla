--------------------------- MODULE FactoryProofs ---------------------------
(***************************************************************************)
(* Keys, wiring and catalogs after any sequence of builds, single tasks,   *)
(* failures and crashes, for any files, texts and versions; and what       *)
(* transformFile does to any element and any nesting of functions.         *)
(***************************************************************************)
EXTENDS Factory, TransformFile, FiniteSetTheorems, SequenceTheorems, NaturalsInduction,
        WellFoundedInduction, TLAPS

-----------------------------------------------------------------------------
(* The invariant.                                                          *)

\* The number of files.
N == Len(Namespace)

Item == [text : Texts, key : Key \cup {Bare}]

\* A catalog has the key of an item, with its text.
Names(m, it) == it.key \in DOMAIN m /\ m[it.key] = it.text

\* What transformFile sees of a file of v before it throws, if it does.
Part(v, f) ==
    IF Version[v].wrappable[f] <= Len(Version[v].texts[f])
    THEN SubSeq(Pristine(v)[f], 1, Version[v].wrappable[f])
    ELSE Pristine(v)[f]

\* The keys a run over all files of v has made when it is through with the first
\* n of them: they depend on nothing but v.
Made(v) ==
    LET upTo[n \in 0..N] ==
            IF n = 0 THEN <<>> ELSE Wrap(n, upTo[n - 1], Part(v, n)).used
    IN  upTo

Tasks == {"source", "clean", "wrap", "sync", "translate", "pull", "bake", "app", "form"}

TypeInv ==
    /\ job \in {"none", "build", "single"} /\ task \in Tasks \cup {"none"}
    /\ (job = "none") = (task = "none")
    /\ version \in DOMAIN Version
    /\ tree \in [Files -> Seq(Item)]
    /\ \A f \in Files : Len(tree[f]) = Len(Version[version].texts[f])
    /\ todo \subseteq Files
    /\ IsFiniteSet(DOMAIN usedKeys)
    /\ runs \in {0, 1, 2}
    /\ built \in BOOLEAN

\* A file that is wired has the mark that keeps it from being wired again.
WiredInv == {app, form} \subseteq {Stock, Wired(Stock)}

\* The one run since the reset is where the run over the version's own files is,
\* and what it has not come to is untouched.
FirstRun ==
    \E n \in 0..N :
       /\ todo = (n + 1)..N
       /\ usedKeys = Made(version)[n]
       /\ \A f \in todo : tree[f] = Pristine(version)[f]
       /\ \A it \in Keyed : Names(usedKeys, it)

RunInv ==
    /\ runs = 0 => tree = Pristine(version) /\ task # "wrap"
    /\ task = "clean" => runs = 0
    /\ runs = 1 /\ task = "wrap" => FirstRun
    /\ runs = 1 => \A it \in Keyed : Names(Made(version)[N], it)

\* What has been fed from one version only has no keys but that version's.
FedInv ==
    \A v \in DOMAIN Version : fed \subseteq {v} =>
       \A m \in {server, dist, baked} : \A k \in DOMAIN m :
          k \in DOMAIN Made(v)[N] /\ m[k] = Made(v)[N][k]

Building(tasks) == job = "build" /\ task \in tasks

Settled(f) == ~Throws(f) => \A it \in ToSet(tree[f]) : it.key # Bare

Has(m) == \A it \in Keyed : it.key \in DOMAIN m

\* What a build has achieved when it comes to each of its tasks.
BuildInv ==
    /\ built => job = "none"
    /\ Building(Tasks \ {"source", "clean"}) \/ built => runs = 1
    /\ Building({"wrap"}) => \A f \in Files \ todo : Settled(f)
    /\ Building({"sync", "translate", "pull", "bake", "app", "form"}) \/ built =>
          Has(extracted) /\ \A f \in Files : Settled(f)
    /\ Building({"translate", "pull"}) => Has(server)
    /\ Building({"bake"}) => Has(dist)
    /\ Building({"app", "form"}) \/ built => Has(baked)
    /\ Building({"form"}) \/ built => app = Wired(Stock)

Inv == TypeInv /\ WiredInv /\ RunInv /\ FedInv /\ BuildInv

-----------------------------------------------------------------------------
(* Numbers.                                                                *)

\* A set of numbers that is not empty has a least one.
LEMMA LeastOf ==
    ASSUME NEW T \in SUBSET Nat, T # {}
    PROVE  \E m \in T : \A k \in T : m <= k
<1>1. IsWellFoundedOn(OpToRel(<, Nat), Nat)
  BY NatLessThanWellFounded
<1>2. \E m \in T : \A k \in T : ~(<<k, m>> \in OpToRel(<, Nat))
  BY <1>1, WFMin
<1>3. \E m \in T : \A k \in T : ~(k < m)
  BY <1>2 DEF OpToRel
<1> QED
  BY <1>3

LEMMA MinType ==
    ASSUME NEW T \in SUBSET Nat, T # {}
    PROVE  Min(T) \in T /\ \A k \in T : Min(T) <= k
BY LeastOf DEF Min

\* Induction up to a bound; "holds" is membership in Good.
LEMMA Counting ==
    ASSUME NEW last \in Nat, NEW Good, 0 \in Good,
           \A m \in 1..last : m - 1 \in Good => m \in Good
    PROVE  \A m \in 0..last : m \in Good
<1> DEFINE Bad == {m \in 0..last : m \notin Good}
<1> SUFFICES ASSUME Bad # {} PROVE FALSE
  OBVIOUS
<1>0. Bad \in SUBSET Nat
  OBVIOUS
<1>1. PICK m \in Bad : \A k \in Bad : m <= k
  <2> HIDE DEF Bad
  <2> QED
    BY <1>0, LeastOf
<1>2. m \in 1..last /\ m - 1 \in 0..last /\ m - 1 \notin Bad
  BY <1>1
<1> QED
  BY <1>1, <1>2

-----------------------------------------------------------------------------
(* Keys.                                                                   *)

LEMMA FilesType == N \in Nat \ {0} /\ Files = 1..N /\ \A f \in Files : Namespace[f] \in ToSet(Namespace)
<1>1. Namespace \in Seq(ToSet(Namespace)) /\ Namespace # <<>>
  BY FactoryAssumption
<1>2. N \in Nat /\ DOMAIN Namespace = 1..N /\ \A f \in 1..N : Namespace[f] \in ToSet(Namespace)
  BY <1>1 DEF N
<1>3. N # 0
  BY <1>1, <1>2
<1> QED
  BY <1>2, <1>3 DEF Files

\* There is always a number that is free, and the key that makeKey chooses is free
\* or has the text already (wrap.ts:102-118).
LEMMA MakeKeyType ==
    ASSUME NEW used, IsFiniteSet(DOMAIN used), NEW f \in Files, NEW text \in Texts
    PROVE  LET k == MakeKey(used, f, text)
           IN  k \in Key /\ k # Bare /\ (k \notin DOMAIN used \/ used[k] = text)
<1> DEFINE key(i) == <<Namespace[f], Stem[text], i>>
           c == Cardinality(DOMAIN used)
           usable(i) == key(i) \notin DOMAIN used \/ used[key(i)] = text
           free == {i \in 1..(c + 1) : usable(i)}
<1>1. c \in Nat
  BY FS_CardinalityType
<1>2. free # {}
  <2> SUFFICES ASSUME free = {} PROVE FALSE
    OBVIOUS
  <2> DEFINE g == [i \in 1..(c + 1) |-> key(i)]
  <2>1. g \in [1..(c + 1) -> DOMAIN used]
    OBVIOUS
  <2>2. IsFiniteSet(1..(c + 1)) /\ Cardinality(1..(c + 1)) = c + 1
    BY <1>1, FS_Interval
  <2>3. PICK i, j \in 1..(c + 1) : i # j /\ g[i] = g[j]
    <3>1. Cardinality(DOMAIN used) < Cardinality(1..(c + 1))
      BY <1>1, <2>2
    <3> DEFINE S == 1..(c + 1)
               T == DOMAIN used
    <3>2. g \in [S -> T] /\ IsFiniteSet(S) /\ IsFiniteSet(T) /\ Cardinality(T) < Cardinality(S)
      BY <2>1, <2>2, <3>1
    <3> HIDE DEF g, S, T
    <3>3. \E i, j \in S : i # j /\ g[i] = g[j]
      BY <3>2, FS_PigeonHole
    <3> QED
      BY <3>3 DEF S
  <2> QED
    BY <2>3
<1>3. Min(free) \in free
  <2>1. free \in SUBSET Nat
    BY <1>1
  <2> HIDE DEF free
  <2> QED
    BY <1>2, <2>1, MinType
<1>4. MakeKey(used, f, text) = key(Min(free))
  BY DEF MakeKey
<1> DEFINE i == Min(free)
<1>5. i \in Nat /\ usable(i)
  BY <1>1, <1>3
<1> HIDE DEF i
<1>6. key(i) \in Key
  BY <1>5, FilesType DEF Key
<1>7. key(i) # Bare
  BY <1>6, FactoryAssumption
<1> QED
  BY <1>4, <1>5, <1>6, <1>7 DEF i

\* m2 has all that m has.
Extends(m2, m) == DOMAIN m \subseteq DOMAIN m2 /\ \A k \in DOMAIN m : m2[k] = m[k]

\* Item it, which stood bare or wrapped, is wrapped now as w.
IsWrapped(it, w, used) ==
    /\ w \in Item /\ w.text = it.text /\ w.key # Bare
    /\ IF it.key = Bare THEN Names(used, w) ELSE w = it

LEMMA WrapItemEffect ==
    ASSUME NEW f \in Files, NEW used, IsFiniteSet(DOMAIN used), NEW out \in Seq(Item),
           NEW it \in Item
    PROVE  \E u, w : /\ WrapItem(f, [used |-> used, out |-> out], it)
                           = [used |-> u, out |-> Append(out, w)]
                     /\ IsFiniteSet(DOMAIN u) /\ Extends(u, used) /\ IsWrapped(it, w, u)
<1> DEFINE a == [used |-> used, out |-> out]
<1>1. CASE it.key # Bare
  <2>1. WrapItem(f, a, it) = [used |-> used, out |-> Append(out, it)]
    BY <1>1 DEF WrapItem
  <2>2. IsWrapped(it, it, used) /\ Extends(used, used)
    BY <1>1 DEF IsWrapped, Extends
  <2> QED
    BY <2>1, <2>2
<1>2. CASE it.key = Bare
  <2> DEFINE k == MakeKey(used, f, it.text)
             u == Merge([x \in {k} |-> it.text], used)
             w == [it EXCEPT !.key = k]
  <2>1. k \in Key /\ k # Bare /\ (k \notin DOMAIN used \/ used[k] = it.text)
    BY MakeKeyType DEF Item
  <2>2. WrapItem(f, a, it) = [used |-> u, out |-> Append(out, w)]
    BY <1>2 DEF WrapItem
  <2>3. w \in Item /\ w.text = it.text /\ w.key = k
    <3> HIDE DEF k
    <3> QED
      BY <2>1 DEF Item
  <2>4. DOMAIN u = DOMAIN used \cup {k} /\ u[k] = it.text /\ \A x \in DOMAIN used : u[x] = used[x]
    <3> HIDE DEF k
    <3> QED
      BY <2>1 DEF Merge
  <2>5. IsFiniteSet(DOMAIN u)
    <3>1. IsFiniteSet(DOMAIN used \cup {k})
      BY FS_AddElement
    <3> HIDE DEF u, k
    <3> QED
      BY <2>4, <3>1
  <2> HIDE DEF u, w, k
  <2>6. Extends(u, used) /\ IsWrapped(it, w, u)
    BY <1>2, <2>1, <2>3, <2>4 DEF Extends, IsWrapped, Names
  <2> QED
    BY <2>2, <2>5, <2>6
<1> QED
  BY <1>1, <1>2

LEMMA ExtendsTransitive ==
    ASSUME NEW a, NEW b, NEW c, Extends(c, b), Extends(b, a)
    PROVE  Extends(c, a)
BY DEF Extends

LEMMA StillNames ==
    ASSUME NEW m2, NEW m, Extends(m2, m), NEW it, Names(m, it)
    PROVE  Names(m2, it)
BY DEF Extends, Names

-----------------------------------------------------------------------------
(* The recursion behind Wrap and Made.                                     *)

\* g is the table of what Wrap has after each of the first n items.
WrapTable(g, f, used, items, n) ==
    g = [m \in 0..n |-> IF m = 0 THEN [used |-> used, out |-> <<>>]
                        ELSE WrapItem(f, g[m - 1], items[m])]

LEMMA WrapIsTabulated ==
    ASSUME NEW f, NEW used, NEW items, Len(items) \in Nat
    PROVE  \E g : /\ Wrap(f, used, items) = g[Len(items)]
                  /\ g[0] = [used |-> used, out |-> <<>>]
                  /\ \A m \in 1..Len(items) : g[m] = WrapItem(f, g[m - 1], items[m])
<1> DEFINE last == Len(items)
           table(n) == CHOOSE g : WrapTable(g, f, used, items, n)
           Good == {n \in 0..last : \E g : WrapTable(g, f, used, items, n)}
<1>1. 0 \in Good
  <2> DEFINE g == [m \in 0..0 |-> [used |-> used, out |-> <<>>]]
  <2>1. WrapTable(g, f, used, items, 0)
    BY DEF WrapTable
  <2> QED
    BY <2>1
<1>2. ASSUME NEW n \in 1..last, n - 1 \in Good PROVE n \in Good
  <2>1. PICK g : WrapTable(g, f, used, items, n - 1)
    BY <1>2
  <2> DEFINE h == [m \in 0..n |-> IF m = n THEN WrapItem(f, g[n - 1], items[n]) ELSE g[m]]
  <2>2. ASSUME NEW m \in 0..n
        PROVE  h[m] = IF m = 0 THEN [used |-> used, out |-> <<>>]
                      ELSE WrapItem(f, h[m - 1], items[m])
    <3>1. CASE m = n
      <4>1. n - 1 \in 0..n /\ n - 1 # n /\ n # 0
        OBVIOUS
      <4> QED
        BY <3>1, <4>1
    <3>2. CASE m # n
      <4>1. m \in 0..(n - 1) /\ (m # 0 => m - 1 \in 0..n /\ m - 1 # n)
        BY <3>2
      <4>2. g[m] = IF m = 0 THEN [used |-> used, out |-> <<>>]
                   ELSE WrapItem(f, g[m - 1], items[m])
        BY <2>1, <4>1 DEF WrapTable
      <4> QED
        BY <3>2, <4>1, <4>2
    <3> QED
      BY <3>1, <3>2
  <2>3. WrapTable(h, f, used, items, n)
    <3> DEFINE r == [m \in 0..n |-> IF m = 0 THEN [used |-> used, out |-> <<>>]
                                    ELSE WrapItem(f, h[m - 1], items[m])]
    <3>1. h = r
      BY <2>2
    <3> QED
      BY <3>1 DEF WrapTable
  <2> QED
    BY <2>3
<1>3. last \in Good
  <2>1. 0 \in Good /\ \A m \in 1..last : m - 1 \in Good => m \in Good
    BY <1>1, <1>2
  <2> HIDE DEF Good
  <2>2. \A m \in 0..last : m \in Good
    BY <2>1, Counting
  <2> QED
    BY <2>2
<1>4. WrapTable(table(last), f, used, items, last)
  BY <1>3
<1>5. Wrap(f, used, items) = table(last)[last]
  BY DEF Wrap, WrapTable
<1> HIDE DEF table
<1>6. /\ table(last)[0] = [used |-> used, out |-> <<>>]
      /\ \A m \in 1..last : table(last)[m] = WrapItem(f, table(last)[m - 1], items[m])
  BY <1>4 DEF WrapTable
<1> QED
  BY <1>5, <1>6

MadeTable(g, v, n) ==
    g = [m \in 0..n |-> IF m = 0 THEN <<>> ELSE Wrap(m, g[m - 1], Part(v, m)).used]

LEMMA MadeIsTabulated ==
    ASSUME NEW v
    PROVE  /\ Made(v)[0] = <<>>
           /\ \A m \in 1..N : Made(v)[m] = Wrap(m, Made(v)[m - 1], Part(v, m)).used
<1> DEFINE table(n) == CHOOSE g : MadeTable(g, v, n)
           Good == {n \in 0..N : \E g : MadeTable(g, v, n)}
<1>0. N \in Nat
  BY FilesType
<1>1. 0 \in Good
  <2> DEFINE g == [m \in 0..0 |-> <<>>]
  <2>1. MadeTable(g, v, 0)
    BY DEF MadeTable
  <2> QED
    BY <1>0, <2>1
<1>2. ASSUME NEW n \in 1..N, n - 1 \in Good PROVE n \in Good
  <2>1. PICK g : MadeTable(g, v, n - 1)
    BY <1>2
  <2> DEFINE h == [m \in 0..n |-> IF m = n THEN Wrap(n, g[n - 1], Part(v, n)).used ELSE g[m]]
  <2>2. ASSUME NEW m \in 0..n
        PROVE  h[m] = IF m = 0 THEN <<>> ELSE Wrap(m, h[m - 1], Part(v, m)).used
    <3>1. CASE m = n
      <4>1. n - 1 \in 0..n /\ n - 1 # n /\ n # 0
        BY <1>0
      <4> QED
        BY <3>1, <4>1
    <3>2. CASE m # n
      <4>1. m \in 0..(n - 1) /\ (m # 0 => m - 1 \in 0..n /\ m - 1 # n)
        BY <1>0, <3>2
      <4>2. g[m] = IF m = 0 THEN <<>> ELSE Wrap(m, g[m - 1], Part(v, m)).used
        BY <2>1, <4>1 DEF MadeTable
      <4> QED
        BY <3>2, <4>1, <4>2
    <3> QED
      BY <3>1, <3>2
  <2>3. MadeTable(h, v, n)
    <3> DEFINE r == [m \in 0..n |-> IF m = 0 THEN <<>> ELSE Wrap(m, h[m - 1], Part(v, m)).used]
    <3>1. h = r
      BY <2>2
    <3> QED
      BY <3>1 DEF MadeTable
  <2> QED
    BY <1>0, <2>3
<1>3. N \in Good
  <2>1. 0 \in Good /\ \A m \in 1..N : m - 1 \in Good => m \in Good
    BY <1>1, <1>2
  <2> HIDE DEF Good
  <2>2. \A m \in 0..N : m \in Good
    BY <1>0, <2>1, Counting
  <2> QED
    BY <1>0, <2>2
<1>4. MadeTable(table(N), v, N)
  BY <1>3
<1>5. Made(v) = table(N)
  BY DEF Made, MadeTable
<1> HIDE DEF table
<1> QED
  BY <1>0, <1>4, <1>5 DEF MadeTable

-----------------------------------------------------------------------------
(* What a file, and a run over all files, come to.                         *)

\* out is what has become of the first n items.
IsWrappedUpTo(n, items, out, used) ==
    /\ out \in Seq(Item) /\ Len(out) = n
    /\ \A i \in 1..n : IsWrapped(items[i], out[i], used)

\* Wrap gives every text of a file a key that has this text, keeps what is wrapped
\* already, and takes nothing away from the keys (wrap.ts:102-118,275-296).
LEMMA WrapEffect ==
    ASSUME NEW f \in Files, NEW used, IsFiniteSet(DOMAIN used), NEW items \in Seq(Item)
    PROVE  LET w == Wrap(f, used, items)
           IN  /\ IsFiniteSet(DOMAIN w.used) /\ Extends(w.used, used)
               /\ IsWrappedUpTo(Len(items), items, w.out, w.used)
<1> DEFINE last == Len(items)
<1>0. last \in Nat /\ \A m \in 1..last : items[m] \in Item
  OBVIOUS
<1>1. PICK g : /\ Wrap(f, used, items) = g[last]
               /\ g[0] = [used |-> used, out |-> <<>>]
               /\ \A m \in 1..last : g[m] = WrapItem(f, g[m - 1], items[m])
  BY <1>0, WrapIsTabulated
<1> DEFINE holds(m) == /\ g[m] = [used |-> g[m].used, out |-> g[m].out]
                       /\ IsFiniteSet(DOMAIN g[m].used) /\ Extends(g[m].used, used)
                       /\ IsWrappedUpTo(m, items, g[m].out, g[m].used)
           Good == {m \in 0..last : holds(m)}
<1>2. 0 \in Good
  <2>1. Extends(used, used) /\ IsWrappedUpTo(0, items, <<>>, used)
    BY DEF Extends, IsWrappedUpTo
  <2> QED
    BY <1>0, <1>1, <2>1
<1>3. ASSUME NEW m \in 1..last, m - 1 \in Good PROVE m \in Good
  <2> DEFINE u == g[m - 1].used
             out == g[m - 1].out
  <2>1. /\ g[m - 1] = [used |-> u, out |-> out] /\ IsFiniteSet(DOMAIN u) /\ Extends(u, used)
        /\ IsWrappedUpTo(m - 1, items, out, u)
    BY <1>3
  <2>2. out \in Seq(Item) /\ Len(out) = m - 1
    BY <2>1 DEF IsWrappedUpTo
  <2> HIDE DEF u, out
  <2>3. PICK u2, w : /\ WrapItem(f, [used |-> u, out |-> out], items[m])
                            = [used |-> u2, out |-> Append(out, w)]
                     /\ IsFiniteSet(DOMAIN u2) /\ Extends(u2, u) /\ IsWrapped(items[m], w, u2)
    BY <1>0, <2>1, <2>2, WrapItemEffect
  <2>4. g[m] = [used |-> u2, out |-> Append(out, w)]
    BY <1>1, <2>1, <2>3
  <2>5. IsWrappedUpTo(m, items, Append(out, w), u2)
    <3>1. w \in Item
      BY <2>3 DEF IsWrapped
    <3>2. Append(out, w) \in Seq(Item) /\ Len(Append(out, w)) = m
      BY <2>2, <3>1
    <3>3. ASSUME NEW i \in 1..m PROVE IsWrapped(items[i], Append(out, w)[i], u2)
      <4>1. CASE i = m
        BY <2>2, <2>3, <3>1, <4>1
      <4>2. CASE i # m
        <5>1. i \in 1..(m - 1) /\ Append(out, w)[i] = out[i]
          BY <2>2, <4>2
        <5>2. IsWrapped(items[i], out[i], u)
          BY <2>1, <5>1 DEF IsWrappedUpTo
        <5>3. IsWrapped(items[i], out[i], u2)
          BY <2>3, <5>2, StillNames DEF IsWrapped
        <5> QED
          BY <5>1, <5>3
      <4> QED
        BY <4>1, <4>2
    <3> QED
      BY <3>2, <3>3 DEF IsWrappedUpTo
  <2>6. Extends(u2, used)
    BY <2>1, <2>3, ExtendsTransitive
  <2>7. holds(m)
    BY <2>3, <2>4, <2>5, <2>6
  <2> QED
    BY <2>7
<1>4. last \in Good
  <2>1. 0 \in Good /\ \A m \in 1..last : m - 1 \in Good => m \in Good
    BY <1>2, <1>3
  <2> HIDE DEF Good
  <2>2. \A m \in 0..last : m \in Good
    BY <1>0, <2>1, Counting
  <2> QED
    BY <1>0, <2>2
<1> QED
  BY <1>1, <1>4

LEMMA VersionType ==
    ASSUME NEW v \in DOMAIN Version, NEW f \in Files
    PROVE  /\ Version[v].texts[f] \in Seq(Texts) /\ Version[v].wrappable[f] \in Nat
           /\ Pristine(v) \in [Files -> Seq(Item)]
           /\ Len(Pristine(v)[f]) = Len(Version[v].texts[f])
           /\ \A i \in DOMAIN Pristine(v)[f] : Pristine(v)[f][i].key = Bare
<1>1. \A g \in Files : Version[v].texts[g] \in Seq(Texts) /\ Version[v].wrappable[g] \in Nat
  BY FactoryAssumption
<1>2. ASSUME NEW g \in Files
      PROVE  /\ Pristine(v)[g] \in Seq(Item) /\ Len(Pristine(v)[g]) = Len(Version[v].texts[g])
             /\ \A i \in DOMAIN Pristine(v)[g] : Pristine(v)[g][i].key = Bare
  <2> DEFINE texts == Version[v].texts[g]
             s == [i \in DOMAIN texts |-> [text |-> texts[i], key |-> Bare]]
  <2>1. Pristine(v)[g] = s
    BY DEF Pristine
  <2>2. texts \in Seq(Texts)
    BY <1>1
  <2> HIDE DEF texts
  <2>3. DOMAIN texts = 1..Len(texts) /\ Len(texts) \in Nat
    BY <2>2
  <2>4. \A i \in 1..Len(texts) : s[i] \in Item
    BY <2>2, <2>3 DEF Item
  <2>5. s \in Seq(Item) /\ Len(s) = Len(texts)
    BY <2>3, <2>4
  <2>6. \A i \in DOMAIN s : s[i].key = Bare
    OBVIOUS
  <2> HIDE DEF s
  <2> QED
    BY <2>1, <2>5, <2>6 DEF texts
<1>3. Pristine(v) \in [Files -> Seq(Item)]
  BY <1>2 DEF Pristine
<1> QED
  BY <1>1, <1>2, <1>3

LEMMA PristineType ==
    ASSUME NEW v \in DOMAIN Version
    PROVE  /\ Pristine(v) \in [Files -> Seq(Item)]
           /\ \A f \in Files : Len(Pristine(v)[f]) = Len(Version[v].texts[f])
<1>1. 1 \in Files
  BY FilesType
<1> QED
  BY <1>1, VersionType

LEMMA PartType ==
    ASSUME NEW v \in DOMAIN Version, NEW f \in Files
    PROVE  Part(v, f) \in Seq(Item)
<1>1. Pristine(v)[f] \in Seq(Item) /\ Version[v].wrappable[f] \in Nat
      /\ Len(Pristine(v)[f]) = Len(Version[v].texts[f])
  BY VersionType
<1>2. ASSUME Version[v].wrappable[f] <= Len(Pristine(v)[f])
      PROVE  SubSeq(Pristine(v)[f], 1, Version[v].wrappable[f]) \in Seq(Item)
  BY <1>1, <1>2
<1> QED
  BY <1>1, <1>2 DEF Part

\* A run over a version only adds keys, from file to file.
LEMMA MadeGrows ==
    ASSUME NEW v \in DOMAIN Version
    PROVE  \A n \in 0..N : IsFiniteSet(DOMAIN Made(v)[n]) /\ Extends(Made(v)[N], Made(v)[n])
<1>0. N \in Nat /\ Files = 1..N
  BY FilesType
<1> DEFINE finite == {n \in 0..N : IsFiniteSet(DOMAIN Made(v)[n])}
           Good == {d \in 0..N : Extends(Made(v)[N], Made(v)[N - d])}
<1>1. \A n \in 0..N : n \in finite
  <2>1. 0 \in finite
    <3>1. DOMAIN Made(v)[0] = {}
      BY MadeIsTabulated
    <3> QED
      BY <1>0, <3>1, FS_EmptySet
  <2>2. ASSUME NEW n \in 1..N, n - 1 \in finite PROVE n \in finite
    <3>1. Made(v)[n] = Wrap(n, Made(v)[n - 1], Part(v, n)).used
      BY MadeIsTabulated
    <3>2. IsFiniteSet(DOMAIN Made(v)[n - 1]) /\ n \in Files /\ Part(v, n) \in Seq(Item)
      BY <1>0, <2>2, PartType
    <3> QED
      BY <1>0, <3>1, <3>2, WrapEffect
  <2> HIDE DEF finite
  <2> QED
    BY <1>0, <2>1, <2>2, Counting
<1>2. \A n \in 1..N : Extends(Made(v)[n], Made(v)[n - 1])
  <2> SUFFICES ASSUME NEW n \in 1..N PROVE Extends(Made(v)[n], Made(v)[n - 1])
    OBVIOUS
  <2>1. Made(v)[n] = Wrap(n, Made(v)[n - 1], Part(v, n)).used
    BY MadeIsTabulated
  <2>2. IsFiniteSet(DOMAIN Made(v)[n - 1]) /\ n \in Files /\ Part(v, n) \in Seq(Item)
    BY <1>0, <1>1, PartType
  <2> QED
    BY <2>1, <2>2, WrapEffect
<1>3. \A d \in 0..N : d \in Good
  <2>1. 0 \in Good
    BY <1>0 DEF Extends
  <2>2. ASSUME NEW d \in 1..N, d - 1 \in Good PROVE d \in Good
    <3> DEFINE n == N - (d - 1)
    <3>1. n \in 1..N /\ n - 1 = N - d
      BY <1>0
    <3>2. Extends(Made(v)[N], Made(v)[n]) /\ Extends(Made(v)[n], Made(v)[n - 1])
      BY <1>2, <2>2, <3>1
    <3> HIDE DEF n
    <3>3. Extends(Made(v)[N], Made(v)[N - d])
      BY <3>1, <3>2, ExtendsTransitive
    <3> QED
      BY <3>3
  <2> HIDE DEF Good
  <2> QED
    BY <1>0, <2>1, <2>2, Counting
<1>4. ASSUME NEW n \in 0..N PROVE Extends(Made(v)[N], Made(v)[n])
  <2>1. N - n \in 0..N /\ N - (N - n) = n
    BY <1>0
  <2> QED
    BY <1>3, <2>1
<1> QED
  BY <1>1, <1>4

-----------------------------------------------------------------------------
(* How tasks follow each other.                                            *)

LEMMA NextRun ==
    ASSUME runs \in {0, 1, 2}
    PROVE  Min({2, runs + 1}) = IF runs = 0 THEN 1 ELSE 2
<1> DEFINE T == {2, runs + 1}
<1>1. T \in SUBSET Nat /\ T # {}
  OBVIOUS
<1> HIDE DEF T
<1>2. Min(T) \in T /\ \A k \in T : Min(T) <= k
  BY <1>1, MinType
<1> QED
  BY <1>2 DEF T

LEMMA EnterEffect ==
    ASSUME TypeInv, NEW t \in Tasks, NEW files \in SUBSET Files, Enter(t, files)
    PROVE  /\ task' = t /\ todo' \subseteq Files /\ usedKeys' = <<>> /\ runs' \in {0, 1, 2}
           /\ t # "wrap" => runs' = runs
           /\ t = "wrap" => /\ todo' = files
                            /\ runs' = IF files = Files /\ runs = 0 THEN 1 ELSE 2
BY NextRun DEF Enter, TypeInv

LEMMA FinishEffect ==
    ASSUME TypeInv, job # "none", NEW t \in DOMAIN After, Finish(t)
    PROVE  /\ todo' \subseteq Files /\ usedKeys' = <<>> /\ runs' \in {0, 1, 2}
           /\ \/ /\ job = "build" /\ t # "bake"
                 /\ job' = job /\ built' = built /\ task' = After[t]
                 /\ t # "source" => task' \in {"sync", "translate", "pull", "bake"} /\ runs' = runs
                 /\ t = "source" => /\ task' = "wrap" /\ todo' = Files
                                    /\ runs' = IF runs = 0 THEN 1 ELSE 2
              \/ /\ job' = "none" /\ task' = "none" /\ built' = (job = "build") /\ runs' = runs
                 /\ job = "build" => t = "bake"
<1>1. DOMAIN After = {"source", "wrap", "sync", "translate", "pull", "bake"}
  BY DEF After
<1>2. After[t] = "none" <=> t = "bake"
  BY <1>1 DEF After
<1>3. CASE job = "build" /\ After[t] # "none"
  <2>1. Enter(After[t], Files) /\ job' = job /\ built' = built
    BY <1>3 DEF Finish
  <2>2. After[t] \in Tasks /\ (After[t] = "wrap" <=> t = "source")
    BY <1>1, <1>3 DEF After, Tasks
  <2>3. t # "source" => After[t] \in {"sync", "translate", "pull", "bake"}
    BY <1>1, <1>3 DEF After
  <2> QED
    BY <1>2, <1>3, <2>1, <2>2, <2>3, EnterEffect
<1>4. CASE ~(job = "build" /\ After[t] # "none")
  <2>1. /\ job' = "none" /\ task' = "none" /\ built' = (job = "build")
        /\ todo' = {} /\ usedKeys' = <<>> /\ runs' = runs
    BY <1>4 DEF Finish
  <2> QED
    BY <1>2, <1>4, <2>1 DEF TypeInv
<1> QED
  BY <1>3, <1>4

-----------------------------------------------------------------------------
(* What the invariant keeps when the tree stays.                           *)

\* In a tree as cloned nothing has a key.
LEMMA NoneKeyed ==
    ASSUME TypeInv, tree = Pristine(version)
    PROVE  Keyed = {}
<1> SUFFICES ASSUME NEW it \in Keyed PROVE FALSE
  OBVIOUS
<1>1. PICK f \in Files : it \in ToSet(tree[f])
  BY DEF Keyed, Items
<1>2. PICK i \in DOMAIN tree[f] : it = tree[f][i]
  BY <1>1 DEF ToSet
<1>3. tree[f][i].key = Bare
  BY VersionType DEF TypeInv
<1> QED
  BY <1>2, <1>3 DEF Keyed

LEMMA TreeKept ==
    ASSUME tree' = tree, version' = version
    PROVE  Keyed' = Keyed /\ \A f \in Files : Settled(f)' <=> Settled(f)
BY DEF Keyed, Items, Settled, Throws

\* A run that starts on a tree as cloned, over all files, is the first.
LEMMA RunKept ==
    ASSUME TypeInv, RunInv, tree' = tree, version' = version,
           \/ task' \notin {"wrap", "clean"} /\ runs' = runs
           \/ /\ task' = "wrap" /\ usedKeys' = <<>>
              /\ runs' = IF todo' = Files /\ runs = 0 THEN 1 ELSE 2
    PROVE  RunInv'
<1>1. CASE task' \notin {"wrap", "clean"} /\ runs' = runs
  BY <1>1, TreeKept DEF RunInv
<1>2. CASE /\ task' = "wrap" /\ usedKeys' = <<>>
           /\ runs' = IF todo' = Files /\ runs = 0 THEN 1 ELSE 2
  <2>1. CASE todo' = Files /\ runs = 0
    <3>1. tree = Pristine(version) /\ runs' = 1
      BY <1>2, <2>1 DEF RunInv
    <3>2. Keyed' = {}
      BY <3>1, NoneKeyed, TreeKept
    <3>3. FirstRun'
      <4>1. 0 \in 0..N /\ Files = (0 + 1)..N /\ Made(version)[0] = <<>>
        BY FilesType, MadeIsTabulated
      <4> QED
        BY <1>2, <2>1, <3>1, <3>2, <4>1 DEF FirstRun
    <3> QED
      BY <1>2, <3>1, <3>2, <3>3 DEF RunInv
  <2>2. CASE ~(todo' = Files /\ runs = 0)
    BY <1>2, <2>2 DEF RunInv
  <2> QED
    BY <2>1, <2>2
<1> QED
  BY <1>1, <1>2

LEMMA FedKept ==
    ASSUME FedInv, fed' = fed, {server', dist', baked'} \subseteq {server, dist, baked, <<>>}
    PROVE  FedInv'
<1> SUFFICES ASSUME NEW v \in DOMAIN Version, fed \subseteq {v},
                    NEW m \in {server', dist', baked'}, NEW k \in DOMAIN m
             PROVE  k \in DOMAIN Made(v)[N] /\ m[k] = Made(v)[N][k]
  BY DEF FedInv
<1>1. m # <<>>
  OBVIOUS
<1> QED
  BY <1>1 DEF FedInv

-----------------------------------------------------------------------------
(* The steps.                                                              *)

LEMMA InvInit == Init => Inv
<1> SUFFICES ASSUME Init PROVE Inv
  OBVIOUS
<1>1. TypeInv
  <2>1. IsFiniteSet(DOMAIN usedKeys)
    BY FS_EmptySet DEF Init
  <2>2. tree \in [Files -> Seq(Item)] /\ \A f \in Files : Len(tree[f]) = Len(Version[version].texts[f])
    BY PristineType DEF Init
  <2> QED
    BY <2>1, <2>2 DEF Init, TypeInv
<1>2. WiredInv
  BY DEF Init, WiredInv
<1>3. RunInv
  BY DEF Init, RunInv
<1>4. FedInv
  BY DEF Init, FedInv
<1>5. BuildInv
  BY DEF Init, BuildInv, Building
<1> QED
  BY <1>1, <1>2, <1>3, <1>4, <1>5 DEF Inv

LEMMA BuildStep ==
    ASSUME Inv, Build
    PROVE  Inv'
<1> USE DEF Build
<1>1. task' = "source" /\ todo' \subseteq Files /\ usedKeys' = <<>> /\ runs' = runs
  BY EnterEffect DEF Inv, Tasks
<1>2. TypeInv'
  <2>1. IsFiniteSet(DOMAIN usedKeys')
    BY <1>1, FS_EmptySet
  <2> HIDE DEF Build
  <2>2. job' = "build" /\ built' = FALSE /\ version' = version /\ tree' = tree
    BY DEF Build
  <2> QED
    BY <1>1, <2>1, <2>2 DEF Inv, TypeInv, Tasks
<1>3. WiredInv'
  BY DEF Inv, WiredInv, Wired, Stock
<1>4. RunInv'
  BY <1>1, RunKept DEF Inv
<1>5. FedInv'
  BY FedKept DEF Inv
<1>6. BuildInv'
  BY <1>1 DEF BuildInv, Building
<1> QED
  BY <1>2, <1>3, <1>4, <1>5, <1>6 DEF Inv

LEMMA RunAloneStep ==
    ASSUME Inv, NEW t \in DOMAIN After, NEW files \in SUBSET Files, RunAlone(t, files)
    PROVE  Inv'
<1> USE DEF RunAlone
<1>1. /\ task' = t /\ todo' \subseteq Files /\ usedKeys' = <<>> /\ runs' \in {0, 1, 2}
      /\ t # "wrap" => runs' = runs
      /\ t = "wrap" => todo' = files /\ runs' = IF files = Files /\ runs = 0 THEN 1 ELSE 2
  BY EnterEffect DEF Inv, Tasks, After
<1>2. t \in Tasks /\ t # "clean"
  BY DEF After, Tasks
<1>3. TypeInv'
  <2>1. IsFiniteSet(DOMAIN usedKeys')
    BY <1>1, FS_EmptySet
  <2>2. job' = "single" /\ built' = FALSE /\ version' = version /\ tree' = tree
    OBVIOUS
  <2> HIDE DEF RunAlone
  <2> QED
    BY <1>1, <1>2, <2>1, <2>2 DEF Inv, TypeInv, Tasks
<1>4. WiredInv'
  BY DEF Inv, WiredInv, Wired, Stock
<1>5. RunInv'
  BY <1>1, <1>2, RunKept DEF Inv
<1>6. FedInv'
  BY FedKept DEF Inv
<1>7. BuildInv'
  BY DEF BuildInv, Building
<1> QED
  BY <1>3, <1>4, <1>5, <1>6, <1>7 DEF Inv

\* A failure, a crash or a throw: the tasks behind it do not run, the files stay.
LEMMA GivenUp ==
    ASSUME Inv, job # "none", job' = "none", task' = "none", built' = built,
           UNCHANGED <<version, tree, app, form, extracted, server, dist, baked, runs, fed>>,
           todo' \subseteq Files, IsFiniteSet(DOMAIN usedKeys')
    PROVE  Inv'
<1>1. built = FALSE
  BY DEF Inv, BuildInv, TypeInv
<1>2. TypeInv'
  BY DEF Inv, TypeInv
<1>3. WiredInv'
  BY DEF Inv, WiredInv, Wired, Stock
<1>4. RunInv'
  BY RunKept DEF Inv
<1>5. FedInv'
  BY FedKept DEF Inv
<1>6. BuildInv'
  BY <1>1 DEF BuildInv, Building
<1> QED
  BY <1>2, <1>3, <1>4, <1>5, <1>6 DEF Inv

LEMMA FailsStep == ASSUME Inv, Fails PROVE Inv'
<1>1. IsFiniteSet(DOMAIN usedKeys')
  BY FS_EmptySet DEF Fails
<1> QED
  BY <1>1, GivenUp DEF Fails

LEMMA ThrowStep == ASSUME Inv, Throw PROVE Inv'
<1>1. IsFiniteSet(DOMAIN usedKeys') /\ todo' \subseteq Files /\ job # "none"
  BY DEF Throw, Inv, TypeInv
<1> QED
  BY <1>1, GivenUp DEF Throw

LEMMA ResetStep ==
    ASSUME Inv, NEW v \in DOMAIN Version, Reset(v)
    PROVE  Inv'
<1> USE DEF Reset
<1>1. TypeInv'
  <2>1. tree' \in [Files -> Seq(Item)] /\ \A f \in Files : Len(tree'[f]) = Len(Version[v].texts[f])
    BY PristineType
  <2> QED
    BY <2>1 DEF Inv, TypeInv, Tasks
<1>2. WiredInv'
  BY DEF WiredInv, Wired, Stock
<1>3. RunInv'
  BY DEF RunInv
<1>4. FedInv'
  BY FedKept DEF Inv
<1>5. BuildInv'
  <2>1. built' = FALSE
    BY DEF Inv, BuildInv, TypeInv
  <2> QED
    BY <2>1 DEF BuildInv, Building
<1> QED
  BY <1>1, <1>2, <1>3, <1>4, <1>5 DEF Inv

\* The tasks that leave the sources alone.
LEMMA FinishKeepsTree ==
    ASSUME Inv, job # "none", NEW t \in DOMAIN After, t # "source" \/ runs = 0, Finish(t),
           version' = version, tree' = tree
    PROVE  TypeInv' /\ RunInv'
<1>1. /\ todo' \subseteq Files /\ usedKeys' = <<>> /\ runs' \in {0, 1, 2}
      /\ \/ /\ job' = job /\ built' = built
            /\ task' \in {"sync", "translate", "pull", "bake"} /\ runs' = runs
         \/ /\ job' = job /\ built' = built
            /\ task' = "wrap" /\ todo' = Files /\ runs' = 1
         \/ /\ job' = "none" /\ task' = "none" /\ built' \in BOOLEAN /\ runs' = runs
  BY FinishEffect DEF Inv
<1>2. TypeInv'
  BY <1>1, FS_EmptySet DEF Inv, TypeInv, Tasks
<1>3. RunInv'
  <2>1. CASE task' \notin {"wrap", "clean"} /\ runs' = runs
    BY <2>1, RunKept DEF Inv
  <2>2. CASE task' = "wrap" /\ todo' = Files /\ runs' = 1
    <3>1. runs = 0
      BY <2>2, FinishEffect DEF Inv
    <3> QED
      BY <1>1, <2>2, <3>1, RunKept DEF Inv
  <2> QED
    BY <1>1, <2>1, <2>2
<1> QED
  BY <1>2, <1>3

LEMMA CleanStep ==
    ASSUME Inv, Clean
    PROVE  Inv'
<1> USE DEF Clean
<1>0. job # "none" /\ runs = 0 /\ "source" \in DOMAIN After
  BY DEF Inv, TypeInv, RunInv, After
<1>1. TypeInv' /\ RunInv'
  BY <1>0, FinishKeepsTree
<1>2. WiredInv'
  BY DEF Inv, WiredInv, Wired, Stock
<1>3. FedInv'
  BY FedKept DEF Inv
<1>4. BuildInv'
  <2>1. built = FALSE
    BY <1>0 DEF Inv, BuildInv, TypeInv
  <2>2. \/ job' = job /\ job = "build" /\ built' = built /\ task' = "wrap" /\ todo' = Files /\ runs' = 1
        \/ job' = "none" /\ built' = FALSE
    BY <1>0, FinishEffect DEF Inv
  <2> QED
    BY <2>1, <2>2 DEF BuildInv, Building
<1> QED
  BY <1>1, <1>2, <1>3, <1>4 DEF Inv

\* The first run goes through the files in their order, and what it makes of the
\* next one adds to the keys made so far.
LEMMA FirstRunGoesOn ==
    ASSUME Inv, runs = 1, NEW f \in Files, task = "wrap", Turn(f)
    PROVE  \E n \in 0..N :
             /\ n + 1 \in 0..N /\ f = n + 1
             /\ todo \ {f} = (n + 1 + 1)..N
             /\ usedKeys = Made(version)[n]
             /\ Made(version)[n + 1] = Wrap(f, usedKeys, Part(version, f)).used
             /\ \A g \in todo : tree[g] = Pristine(version)[g]
             /\ \A it \in Keyed : Names(usedKeys, it)
<1>1. PICK n \in 0..N :
         /\ todo = (n + 1)..N
         /\ usedKeys = Made(version)[n]
         /\ \A g \in todo : tree[g] = Pristine(version)[g]
         /\ \A it \in Keyed : Names(usedKeys, it)
  BY DEF Inv, RunInv, FirstRun
<1>2. f \in (n + 1)..N /\ \A g \in (n + 1)..N : f <= g
  BY <1>1 DEF Turn
<1>3. N \in Nat /\ f = n + 1 /\ n + 1 \in 0..N /\ n + 1 \in 1..N
  <2>1. N \in Nat
    BY FilesType
  <2>2. n + 1 \in (n + 1)..N
    BY <1>2, <2>1
  <2> QED
    BY <1>2, <2>1, <2>2
<1>4. todo \ {f} = (n + 1 + 1)..N
  BY <1>1, <1>3
<1>5. Made(version)[n + 1] = Wrap(f, usedKeys, Part(version, f)).used
  <2>1. (n + 1) - 1 = n
    BY <1>3
  <2> QED
    BY <1>1, <1>3, <2>1, MadeIsTabulated
<1> QED
  BY <1>1, <1>3, <1>4, <1>5

LEMMA WrapFileStep ==
    ASSUME Inv, NEW f \in Files, WrapFile(f)
    PROVE  Inv'
<1> DEFINE w == Wrap(f, usedKeys, tree[f])
<1>0. /\ task = "wrap" /\ task' = task /\ Turn(f) /\ ~Throws(f) /\ job' = job /\ job # "none"
      /\ tree' = [tree EXCEPT ![f] = w.out] /\ usedKeys' = w.used /\ todo' = todo \ {f}
      /\ UNCHANGED <<version, app, form, extracted, server, dist, baked, runs, fed, built>>
  BY DEF WrapFile, Inv, TypeInv
<1>1. tree[f] \in Seq(Item) /\ IsFiniteSet(DOMAIN usedKeys) /\ tree \in [Files -> Seq(Item)]
  BY DEF Inv, TypeInv
<1>2. /\ IsFiniteSet(DOMAIN w.used) /\ Extends(w.used, usedKeys)
      /\ w.out \in Seq(Item) /\ Len(w.out) = Len(tree[f])
      /\ \A i \in 1..Len(tree[f]) : IsWrapped(tree[f][i], w.out[i], w.used)
  BY <1>1, WrapEffect DEF IsWrappedUpTo
<1>3. /\ DOMAIN w.out = 1..Len(tree[f])
      /\ tree'[f] = w.out /\ \A g \in Files \ {f} : tree'[g] = tree[g]
  BY <1>0, <1>1, <1>2
<1> HIDE DEF w
<1>4. TypeInv'
  <2>1. tree' \in [Files -> Seq(Item)]
    BY <1>0, <1>1, <1>2
  <2>2. \A g \in Files : Len(tree'[g]) = Len(Version[version].texts[g])
    BY <1>2, <1>3 DEF Inv, TypeInv
  <2> QED
    BY <1>0, <1>2, <2>1, <2>2 DEF Inv, TypeInv
<1>5. WiredInv'
  BY <1>0 DEF Inv, WiredInv, Wired, Stock
<1>6. RunInv'
  <2>1. CASE runs = 1
    <3>1. PICK n \in 0..N :
             /\ n + 1 \in 0..N /\ f = n + 1
             /\ todo \ {f} = (n + 1 + 1)..N
             /\ usedKeys = Made(version)[n]
             /\ Made(version)[n + 1] = Wrap(f, usedKeys, Part(version, f)).used
             /\ \A g \in todo : tree[g] = Pristine(version)[g]
             /\ \A it \in Keyed : Names(usedKeys, it)
      BY <1>0, <2>1, FirstRunGoesOn
    <3>2. f \in todo /\ tree[f] = Pristine(version)[f]
      BY <1>0, <3>1 DEF Turn
    <3>3. Part(version, f) = tree[f]
      BY <1>0, <3>2 DEF Part, Throws, Inv, TypeInv
    <3>4. usedKeys' = Made(version)[n + 1]
      BY <1>0, <3>1, <3>3 DEF w
    <3>5. ASSUME NEW it \in Keyed' PROVE Names(usedKeys', it)
      <4>1. PICK g \in Files : it \in ToSet(tree'[g])
        BY DEF Keyed, Items
      <4>2. CASE g = f
        <5>1. PICK i \in 1..Len(tree[f]) : it = w.out[i]
          BY <1>3, <4>1, <4>2 DEF ToSet
        <5>2. tree[f][i].key = Bare
          <6>1. version \in DOMAIN Version
            BY DEF Inv, TypeInv
          <6>2. i \in DOMAIN Pristine(version)[f]
            BY <1>1, <3>2, <5>1
          <6> QED
            BY <3>2, <6>1, <6>2, VersionType
        <5> QED
          BY <1>0, <1>2, <5>1, <5>2 DEF IsWrapped
      <4>3. CASE g # f
        <5>1. it \in Keyed
          BY <1>3, <4>1, <4>3 DEF Keyed, Items
        <5> QED
          BY <1>0, <1>2, <3>1, <5>1, StillNames
      <4> QED
        BY <4>2, <4>3
    <3>6. FirstRun'
      <4>1. \A g \in todo' : tree'[g] = Pristine(version)[g]
        BY <1>0, <1>3, <3>1 DEF Inv, TypeInv
      <4> QED
        BY <1>0, <3>1, <3>4, <3>5, <4>1 DEF FirstRun
    <3>7. \A it \in Keyed' : Names(Made(version)[N], it)
      <4>1. Extends(Made(version)[N], Made(version)[n + 1])
        BY <3>1, MadeGrows DEF Inv, TypeInv
      <4> QED
        BY <3>4, <3>5, <4>1, StillNames
    <3> QED
      BY <1>0, <2>1, <3>6, <3>7 DEF RunInv
  <2>2. CASE runs # 1
    BY <1>0, <2>2 DEF Inv, RunInv
  <2> QED
    BY <2>1, <2>2
<1>7. FedInv'
  BY <1>0, FedKept DEF Inv
<1>8. BuildInv'
  <2>1. ASSUME Building({"wrap"}), NEW g \in Files \ todo' PROVE Settled(g)'
    <3>1. CASE g = f
      <4>1. \A it \in ToSet(tree'[f]) : it.key # Bare
        BY <1>2, <1>3 DEF ToSet, IsWrapped
      <4> QED
        BY <3>1, <4>1 DEF Settled
    <3>2. CASE g # f
      <4>1. g \in Files \ todo /\ tree'[g] = tree[g]
        BY <1>0, <1>3, <3>2
      <4>2. Settled(g)
        BY <2>1, <4>1 DEF Inv, BuildInv
      <4> QED
        BY <1>0, <4>1, <4>2 DEF Settled, Throws
    <3> QED
      BY <3>1, <3>2
  <2> QED
    BY <1>0, <2>1 DEF Inv, BuildInv, Building, Tasks
<1> QED
  BY <1>4, <1>5, <1>6, <1>7, <1>8 DEF Inv

LEMMA FileThrowsStep ==
    ASSUME Inv, NEW f \in Files, FileThrows(f)
    PROVE  Inv'
<1> DEFINE part == SubSeq(tree[f], 1, Version[version].wrappable[f])
<1>0. /\ task = "wrap" /\ task' = task /\ Turn(f) /\ Throws(f) /\ job' = job /\ job # "none"
      /\ usedKeys' = Wrap(f, usedKeys, part).used /\ todo' = todo \ {f}
      /\ UNCHANGED <<version, tree, app, form, extracted, server, dist, baked, runs, fed, built>>
  BY DEF FileThrows, Inv, TypeInv
<1>1. part \in Seq(Item) /\ IsFiniteSet(DOMAIN usedKeys)
  <2>1. tree[f] \in Seq(Item) /\ Version[version].wrappable[f] \in Nat
    BY VersionType DEF Inv, TypeInv
  <2>2. Version[version].wrappable[f] <= Len(tree[f])
    BY <1>0 DEF Throws
  <2>3. part \in Seq(Item)
    BY <2>1, <2>2
  <2> QED
    BY <2>3 DEF Inv, TypeInv
<1>2. IsFiniteSet(DOMAIN usedKeys') /\ Extends(usedKeys', usedKeys)
  <2> HIDE DEF part
  <2> QED
    BY <1>0, <1>1, WrapEffect
<1>3. TypeInv'
  BY <1>0, <1>2 DEF Inv, TypeInv
<1>4. WiredInv'
  BY <1>0 DEF Inv, WiredInv, Wired, Stock
<1>5. RunInv'
  <2>1. CASE runs = 1
    <3>1. PICK n \in 0..N :
             /\ n + 1 \in 0..N /\ f = n + 1
             /\ todo \ {f} = (n + 1 + 1)..N
             /\ usedKeys = Made(version)[n]
             /\ Made(version)[n + 1] = Wrap(f, usedKeys, Part(version, f)).used
             /\ \A g \in todo : tree[g] = Pristine(version)[g]
             /\ \A it \in Keyed : Names(usedKeys, it)
      BY <1>0, <2>1, FirstRunGoesOn
    <3>2. Part(version, f) = part
      <4>1. tree[f] = Pristine(version)[f]
        BY <1>0, <3>1 DEF Turn
      <4> QED
        BY <1>0, <4>1 DEF Part, Throws, Inv, TypeInv
    <3>3. usedKeys' = Made(version)[n + 1]
      BY <1>0, <3>1, <3>2
    <3>4. Keyed' = Keyed /\ \A it \in Keyed : Names(usedKeys', it)
      BY <1>0, <1>2, <3>1, TreeKept, StillNames
    <3>5. FirstRun'
      BY <1>0, <3>1, <3>3, <3>4 DEF FirstRun
    <3> QED
      BY <1>0, <2>1, <3>4, <3>5 DEF Inv, RunInv
  <2>2. CASE runs # 1
    BY <1>0, <2>2 DEF Inv, RunInv
  <2> QED
    BY <2>1, <2>2
<1>6. FedInv'
  BY <1>0, FedKept DEF Inv
<1>7. BuildInv'
  <2>1. ASSUME Building({"wrap"}), NEW g \in Files \ todo' PROVE Settled(g)'
    <3>1. CASE g = f
      BY <1>0, <3>1 DEF Settled, Throws
    <3>2. CASE g # f
      BY <1>0, <2>1, <3>2, TreeKept DEF Inv, BuildInv
    <3> QED
      BY <3>1, <3>2
  <2> QED
    BY <1>0, <2>1 DEF Inv, BuildInv, Building, Tasks
<1> QED
  BY <1>3, <1>4, <1>5, <1>6, <1>7 DEF Inv

\* While the first run is up, its keys are those of the tree.
LEMMA RunHasKeys ==
    ASSUME Inv, Building({"wrap"})
    PROVE  Has(usedKeys)
BY DEF Inv, BuildInv, RunInv, FirstRun, Building, Tasks, Has, Names

LEMMA ReportStep ==
    ASSUME Inv, Report
    PROVE  Inv'
<1> USE DEF Report
<1>0. job # "none" /\ "wrap" \in DOMAIN After
  BY DEF Inv, TypeInv, After
<1>1. TypeInv' /\ RunInv'
  BY <1>0, FinishKeepsTree
<1>2. WiredInv'
  BY DEF Inv, WiredInv, Wired, Stock
<1>3. FedInv'
  BY FedKept DEF Inv
<1>4. BuildInv'
  <2>1. built = FALSE /\ Keyed' = Keyed /\ \A f \in Files : Settled(f)' <=> Settled(f)
    BY <1>0, TreeKept DEF Inv, BuildInv, TypeInv
  <2>2. CASE job = "build"
    <3>1. job' = job /\ task' = "sync" /\ built' = FALSE /\ runs' = runs
      BY <1>0, <2>1, <2>2, FinishEffect DEF Inv, After
    <3>2. Has(extracted)' /\ \A f \in Files : Settled(f)'
      BY <2>1, <2>2, RunHasKeys DEF Inv, BuildInv, Building, Has
    <3>3. runs = 1
      BY <2>2 DEF Inv, BuildInv, Building, Tasks
    <3> QED
      BY <3>1, <3>2, <3>3 DEF BuildInv, Building
  <2>3. CASE job # "build"
    <3>1. job' = "none" /\ built' = FALSE
      BY <1>0, <2>3, FinishEffect DEF Inv
    <3> QED
      BY <3>1 DEF BuildInv, Building
  <2> QED
    BY <2>2, <2>3
<1> QED
  BY <1>1, <1>2, <1>3, <1>4 DEF Inv

\* What is fed by the one run over a version are that version's keys.
LEMMA SyncStep ==
    ASSUME Inv, Sync
    PROVE  Inv'
<1>0. PICK text \in [{it.key : it \in Keyed} -> Texts] :
         /\ \A k \in DOMAIN text : [text |-> text[k], key |-> k] \in Keyed
         /\ server' = Merge(server, text)
  BY DEF Sync
<1>1. /\ task = "sync" /\ job # "none" /\ "sync" \in DOMAIN After /\ Finish("sync")
      /\ fed' = fed \cup {IF runs = 1 THEN version ELSE "mixed"}
      /\ UNCHANGED <<version, tree, app, form, extracted, dist, baked>>
  BY DEF Sync, Inv, TypeInv, After
<1>2. TypeInv' /\ RunInv'
  BY <1>1, FinishKeepsTree
<1>3. WiredInv'
  BY <1>1 DEF Inv, WiredInv, Wired, Stock
<1>4. FedInv'
  <2> SUFFICES ASSUME NEW v \in DOMAIN Version, fed' \subseteq {v},
                      NEW m \in {server', dist', baked'}, NEW k \in DOMAIN m
               PROVE  k \in DOMAIN Made(v)[N] /\ m[k] = Made(v)[N][k]
    BY DEF FedInv
  <2>1. fed \subseteq {v}
    BY <1>1
  <2>2. runs = 1 /\ version = v
    <3>1. "mixed" # v
      BY FactoryAssumption
    <3> QED
      BY <1>1, <3>1
  <2>3. CASE m \in {dist, baked} \/ (m = server' /\ k \in DOMAIN server)
    <3>1. m = server' /\ k \in DOMAIN server => m[k] = server[k]
      BY <1>0 DEF Merge
    <3> QED
      BY <2>1, <2>3, <3>1 DEF Inv, FedInv
  <2>4. CASE m = server' /\ k \notin DOMAIN server
    <3>1. k \in DOMAIN text /\ m[k] = text[k]
      BY <1>0, <2>4 DEF Merge
    <3>2. [text |-> text[k], key |-> k] \in Keyed
      BY <1>0, <3>1
    <3>3. Names(Made(v)[N], [text |-> text[k], key |-> k])
      BY <2>2, <3>2 DEF Inv, RunInv
    <3> QED
      BY <3>1, <3>3 DEF Names
  <2> QED
    BY <1>1, <2>3, <2>4
<1>5. BuildInv'
  <2>1. built = FALSE /\ Keyed' = Keyed /\ \A f \in Files : Settled(f)' <=> Settled(f)
    BY <1>1, TreeKept DEF Inv, BuildInv, TypeInv
  <2>2. Has(server)'
    <3>1. DOMAIN server' = DOMAIN server \cup {it.key : it \in Keyed}
      BY <1>0 DEF Merge
    <3> QED
      BY <2>1, <3>1 DEF Has
  <2>3. CASE job = "build"
    <3>1. job' = job /\ task' = "translate" /\ built' = FALSE /\ runs' = runs
      BY <1>1, <2>1, <2>3, FinishEffect DEF Inv, After
    <3>2. runs = 1 /\ Has(extracted)' /\ \A f \in Files : Settled(f)'
      BY <1>1, <2>1, <2>3 DEF Inv, BuildInv, Building, Has, Tasks
    <3> QED
      BY <2>2, <3>1, <3>2 DEF BuildInv, Building
  <2>4. CASE job # "build"
    <3>1. job' = "none" /\ built' = FALSE
      BY <1>1, <2>4, FinishEffect DEF Inv
    <3> QED
      BY <3>1 DEF BuildInv, Building
  <2> QED
    BY <2>3, <2>4
<1> QED
  BY <1>2, <1>3, <1>4, <1>5 DEF Inv

LEMMA TranslateStep ==
    ASSUME Inv, Translate
    PROVE  Inv'
<1> USE DEF Translate
<1>0. job # "none" /\ "translate" \in DOMAIN After
  BY DEF Inv, TypeInv, After
<1>1. TypeInv' /\ RunInv'
  BY <1>0, FinishKeepsTree
<1>2. WiredInv'
  BY DEF Inv, WiredInv, Wired, Stock
<1>3. FedInv'
  BY FedKept DEF Inv
<1>4. BuildInv'
  <2>1. built = FALSE /\ Keyed' = Keyed /\ \A f \in Files : Settled(f)' <=> Settled(f)
    BY <1>0, TreeKept DEF Inv, BuildInv, TypeInv
  <2>2. CASE job = "build"
    <3>1. job' = job /\ task' = "pull" /\ built' = FALSE /\ runs' = runs
      BY <1>0, <2>1, <2>2, FinishEffect DEF Inv, After
    <3>2. runs = 1 /\ Has(server)' /\ Has(extracted)' /\ \A f \in Files : Settled(f)'
      BY <2>1, <2>2 DEF Inv, BuildInv, Building, Has, Tasks
    <3> QED
      BY <3>1, <3>2 DEF BuildInv, Building
  <2>3. CASE job # "build"
    <3>1. job' = "none" /\ built' = FALSE
      BY <1>0, <2>3, FinishEffect DEF Inv
    <3> QED
      BY <3>1 DEF BuildInv, Building
  <2> QED
    BY <2>2, <2>3
<1> QED
  BY <1>1, <1>2, <1>3, <1>4 DEF Inv

LEMMA PullStep ==
    ASSUME Inv, Pull
    PROVE  Inv'
<1> USE DEF Pull
<1>0. job # "none" /\ "pull" \in DOMAIN After
  BY DEF Inv, TypeInv, After
<1>1. TypeInv' /\ RunInv'
  BY <1>0, FinishKeepsTree
<1>2. WiredInv'
  BY DEF Inv, WiredInv, Wired, Stock
<1>3. FedInv'
  BY FedKept DEF Inv
<1>4. BuildInv'
  <2>1. built = FALSE /\ Keyed' = Keyed /\ \A f \in Files : Settled(f)' <=> Settled(f)
    BY <1>0, TreeKept DEF Inv, BuildInv, TypeInv
  <2>2. CASE job = "build"
    <3>1. job' = job /\ task' = "bake" /\ built' = FALSE /\ runs' = runs
      BY <1>0, <2>1, <2>2, FinishEffect DEF Inv, After
    <3>2. runs = 1 /\ Has(dist)' /\ Has(extracted)' /\ \A f \in Files : Settled(f)'
      BY <2>1, <2>2 DEF Inv, BuildInv, Building, Has, Tasks
    <3> QED
      BY <3>1, <3>2 DEF BuildInv, Building
  <2>3. CASE job # "build"
    <3>1. job' = "none" /\ built' = FALSE
      BY <1>0, <2>3, FinishEffect DEF Inv
    <3> QED
      BY <3>1 DEF BuildInv, Building
  <2> QED
    BY <2>2, <2>3
<1> QED
  BY <1>1, <1>2, <1>3, <1>4 DEF Inv

LEMMA CopyStep ==
    ASSUME Inv, Copy
    PROVE  Inv'
<1> USE DEF Copy
<1>1. TypeInv'
  BY DEF Inv, TypeInv, Tasks
<1>2. WiredInv'
  BY DEF Inv, WiredInv, Wired, Stock
<1>3. RunInv'
  BY RunKept DEF Inv
<1>4. FedInv'
  BY FedKept DEF Inv
<1>5. BuildInv'
  <2>1. built = FALSE /\ Keyed' = Keyed /\ \A f \in Files : Settled(f)' <=> Settled(f)
    BY TreeKept DEF Inv, BuildInv, TypeInv
  <2>2. Building({"bake"}) => runs = 1 /\ Has(baked)' /\ Has(extracted)' /\ \A f \in Files : Settled(f)'
    BY <2>1 DEF Inv, BuildInv, Building, Has, Tasks
  <2> QED
    BY <2>1, <2>2 DEF BuildInv, Building
<1> QED
  BY <1>1, <1>2, <1>3, <1>4, <1>5 DEF Inv

\* A file is wired if it was not, and left alone if it was.
LEMMA WiringOf ==
    ASSUME NEW f \in {Stock, Wired(Stock)}
    PROVE  (IF f.marked THEN f ELSE Wired(f)) = Wired(Stock)
<1>1. ~Stock.marked /\ Wired(Stock).marked
  BY Zenon DEF Stock, Wired
<1>2. CASE f = Stock
  BY <1>1, <1>2
<1>3. CASE f = Wired(Stock)
  <2> HIDE DEF Wired, Stock
  <2> QED
    BY <1>1, <1>3
<1> QED
  BY <1>2, <1>3

LEMMA WireAppStep ==
    ASSUME Inv, WireApp
    PROVE  Inv'
<1> USE DEF WireApp
<1>1. TypeInv'
  BY DEF Inv, TypeInv, Tasks
<1>2. WiredInv' /\ app' = Wired(Stock)
  <2>1. app \in {Stock, Wired(Stock)} /\ form \in {Stock, Wired(Stock)}
    BY DEF Inv, WiredInv
  <2>2. app' = Wired(Stock) /\ form' = form
    BY <2>1, WiringOf
  <2>3. WiredInv' <=> {app', form'} \subseteq {Stock, Wired(Stock)}
    BY DEF WiredInv, Wired, Stock
  <2> HIDE DEF WireApp
  <2> QED
    BY <2>1, <2>2, <2>3
<1>3. RunInv'
  BY RunKept DEF Inv
<1>4. FedInv'
  BY FedKept DEF Inv
<1>5. BuildInv'
  <2>1. built = FALSE /\ Keyed' = Keyed /\ \A f \in Files : Settled(f)' <=> Settled(f)
    BY TreeKept DEF Inv, BuildInv, TypeInv
  <2>2. Building({"app"}) => runs = 1 /\ Has(baked)' /\ Has(extracted)' /\ \A f \in Files : Settled(f)'
    BY <2>1 DEF Inv, BuildInv, Building, Has, Tasks
  <2>3. job' = job /\ task = "app" /\ task' = "form" /\ built' = built /\ runs' = runs
    OBVIOUS
  <2> HIDE DEF WireApp
  <2>4. (Wired(Stock))' = Wired(Stock)
    BY DEF Wired, Stock
  <2> QED
    BY <1>2, <2>1, <2>2, <2>3, <2>4 DEF BuildInv, Building
<1> QED
  BY <1>1, <1>2, <1>3, <1>4, <1>5 DEF Inv

LEMMA WireFormStep ==
    ASSUME Inv, WireForm
    PROVE  Inv'
<1> USE DEF WireForm
<1>0. job # "none" /\ "bake" \in DOMAIN After
  BY DEF Inv, TypeInv, After
<1>1. TypeInv' /\ RunInv'
  BY <1>0, FinishKeepsTree
<1>2. WiredInv'
  <2>1. app \in {Stock, Wired(Stock)} /\ form \in {Stock, Wired(Stock)}
    BY DEF Inv, WiredInv
  <2>2. app' = app /\ form' \in {form, Wired(Stock)}
    BY <2>1, WiringOf
  <2>3. WiredInv' <=> {app', form'} \subseteq {Stock, Wired(Stock)}
    BY DEF WiredInv, Wired, Stock
  <2> HIDE DEF WireForm
  <2> QED
    BY <2>1, <2>2, <2>3
<1>3. FedInv'
  BY FedKept DEF Inv
<1>4. BuildInv'
  <2>1. job' = "none" /\ built' = (job = "build") /\ runs' = runs
    BY <1>0, FinishEffect DEF Inv
  <2>2. Keyed' = Keyed /\ \A f \in Files : Settled(f)' <=> Settled(f)
    BY TreeKept
  <2>3. Building({"form"}) => /\ runs = 1 /\ Has(baked)' /\ Has(extracted)' /\ \A f \in Files : Settled(f)'
                              /\ app' = Wired(Stock)
    BY <2>2 DEF Inv, BuildInv, Building, Has, Tasks
  <2>4. task = "form" /\ (Wired(Stock))' = Wired(Stock)
    BY DEF Wired, Stock
  <2> HIDE DEF WireForm
  <2> QED
    BY <2>1, <2>3, <2>4 DEF BuildInv, Building
<1> QED
  BY <1>1, <1>2, <1>3, <1>4 DEF Inv

LEMMA InvStep == Inv /\ [Next]_vars => Inv'
<1> SUFFICES ASSUME Inv, [Next]_vars PROVE Inv'
  OBVIOUS
<1>1. CASE Build
  BY <1>1, BuildStep
<1>2. ASSUME NEW t \in DOMAIN After, NEW files \in SUBSET Files, RunAlone(t, files) PROVE Inv'
  BY <1>2, RunAloneStep
<1>3. CASE Fails
  BY <1>3, FailsStep
<1>4. ASSUME NEW v \in DOMAIN Version, Reset(v) PROVE Inv'
  BY <1>4, ResetStep
<1>5. CASE Clean
  BY <1>5, CleanStep
<1>6. ASSUME NEW f \in Files, WrapFile(f) \/ FileThrows(f) PROVE Inv'
  BY <1>6, WrapFileStep, FileThrowsStep
<1>7. CASE Report
  BY <1>7, ReportStep
<1>8. CASE Sync
  BY <1>8, SyncStep
<1>9. CASE Translate
  BY <1>9, TranslateStep
<1>10. CASE Pull
  BY <1>10, PullStep
<1>11. CASE Copy
  BY <1>11, CopyStep
<1>12. CASE WireApp
  BY <1>12, WireAppStep
<1>13. CASE WireForm
  BY <1>13, WireFormStep
<1>14. CASE Throw
  BY <1>14, ThrowStep
<1>15. CASE UNCHANGED vars
  BY <1>15 DEF vars, Inv, TypeInv, WiredInv, Wired, Stock, RunInv, FirstRun, FedInv, BuildInv,
               Building, Settled, Throws, Has, Keyed, Items
<1> QED
  BY <1>1, <1>2, <1>3, <1>4, <1>5, <1>6, <1>7, <1>8, <1>9, <1>10, <1>11, <1>12, <1>13, <1>14, <1>15
     DEF Next

-----------------------------------------------------------------------------
(* The theorems.                                                           *)

LEMMA Invariance == Spec => []Inv
<1> QED
  BY InvInit, InvStep, PTL DEF Spec

\* After one run over a whole checkout, crashed wherever it may have, a key in the
\* tree has one text, whatever the files and however many texts share a stem
\* (wrap.ts:102-118).
THEOREM KeysAreUnambiguous == Spec => []KeysTellTextsApart
<1>1. Inv => KeysTellTextsApart
  <2> SUFFICES ASSUME Inv, runs <= 1, NEW a \in Keyed, NEW b \in Keyed, a.key = b.key
               PROVE  a.text = b.text
    BY DEF KeysTellTextsApart
  <2>1. runs = 1
    <3>1. runs # 0
      BY NoneKeyed DEF Inv, RunInv
    <3> QED
      BY <3>1 DEF Inv, TypeInv
  <2>2. Names(Made(version)[N], a) /\ Names(Made(version)[N], b)
    BY <2>1 DEF Inv, RunInv
  <2> QED
    BY <2>2 DEF Names
<1> QED
  BY <1>1, Invariance, PTL

\* Tasks may fail, crash and be run again without end, and neither file is ever
\* wrapped twice (inject-runtime.ts:3,62,82).
THEOREM NeverWiredTwice == Spec => []WiredOnce
<1>1. Inv => WiredOnce
  <2>1. Stock.wrapped = 0 /\ Wired(Stock).wrapped = 1
    BY DEF Stock, Wired
  <2> QED
    BY <2>1 DEF Inv, WiredInv, WiredOnce
<1> QED
  BY <1>1, Invariance, PTL

LEMMA InvImpliesComplete == Inv => BuiltIsComplete
<1> SUFFICES ASSUME Inv, built
             PROVE  /\ app.wrapped = 1
                    /\ \A it \in Keyed : it.key \in DOMAIN baked /\ it.key \in DOMAIN extracted
                    /\ \A f \in Files : ~Throws(f) => \A it \in ToSet(tree[f]) : it \in Keyed
  BY DEF BuiltIsComplete
<1>1. app.wrapped = 1
  <2>1. app = Wired(Stock)
    BY DEF Inv, BuildInv
  <2> QED
    BY <2>1 DEF Wired, Stock
<1>2. Has(baked) /\ Has(extracted) /\ \A f \in Files : Settled(f)
  BY DEF Inv, BuildInv
<1>3. ASSUME NEW f \in Files, ~Throws(f), NEW it \in ToSet(tree[f])
      PROVE  it \in Keyed
  <2>1. it \in Items
    BY DEF Items
  <2>2. it.key # Bare
    BY <1>2, <1>3 DEF Settled
  <2> QED
    BY <2>1, <2>2 DEF Keyed
<1> QED
  BY <1>1, <1>2, <1>3 DEF Has

\* A full build that comes to its end has wired the app, baked and reported every
\* key in the tree and wrapped every text of the files that can be, whatever was
\* run and broken off before it (coder-i18n/README.md:17-30).
THEOREM BuildsAreComplete == Spec => []BuiltIsComplete
<1> QED
  BY Invariance, InvImpliesComplete, PTL

\* A server fed from single runs over one version gives every text its own
\* translation again: which key a text gets depends on the version alone, not on
\* the builds before (wrap.ts:105-116,330-334).
THEOREM RebuildsKeepTranslations == Spec => []RebuildKeepsTranslations
<1>1. Inv => RebuildKeepsTranslations
  <2> SUFFICES ASSUME Inv, built, fed = {version}, NEW it \in Keyed
               PROVE  baked[it.key] = it.text
    BY DEF RebuildKeepsTranslations
  <2>1. it.key \in DOMAIN baked /\ runs = 1
    BY DEF Inv, BuildInv, Has
  <2>2. baked[it.key] = Made(version)[N][it.key]
    BY <2>1 DEF Inv, TypeInv, FedInv
  <2>3. Names(Made(version)[N], it)
    BY <2>1 DEF Inv, RunInv
  <2> QED
    BY <2>2, <2>3 DEF Names
<1> QED
  BY <1>1, Invariance, PTL
-----------------------------------------------------------------------------
(* One element and its functions.                                          *)

\* Where the phases are.
ProgressInv == file \in Sources /\ at \in Nat /\ next \in Nat \ {0}

\* Nothing of the body is merged: every child is where it was, and the text that
\* phase 2 has come to is a T, or, outside fragments, the element is in the report.
Unmerged ==
    /\ DOMAIN body = DOMAIN file.children /\ Len(body) = Len(file.children)
    /\ \A i \in DOMAIN body :
          /\ body[i] \in [kind : {file.children[i], "T"}, of : {{i}}]
          /\ at = 0 => body[i].kind = file.children[i]
          /\ file.children[i] = "words" /\ i < at /\ 0 \notin reported => body[i].kind = "T"
          /\ file.children[i] = "fragment" /\ i < at => body[i].kind = "T"

\* The body is one T for all text and all tags, and nothing else was there but
\* what serializeTagged does not see.
Merged ==
    /\ at > 0 /\ Serializable
    /\ body = <<[kind |-> "T",
                 of |-> {i \in DOMAIN file.children : file.children[i] \in Text \cup {"tag"}}]>>

\* The attributes that are t(...), and where their hooks were put.
HookInv ==
    /\ wrapped \subseteq DOMAIN file.attrs
    /\ \A a \in wrapped : a < next /\ Blocks(file.attrs[a]) # {}
    /\ \A h \in hooked : \E b \in wrapped : Owner(file.attrs[b]) = h
    /\ OnlyInnerHooksHide

FileInv == ProgressInv /\ (Unmerged \/ Merged) /\ HookInv

LEMMA SourceType ==
    ASSUME NEW f \in Sources
    PROVE  /\ f.children \in Seq(Kinds) /\ f.wantsString \in BOOLEAN
           /\ f.parent \in Seq(Nat) /\ f.block \subseteq DOMAIN f.parent
           /\ f.attrs \in Seq(DOMAIN f.parent)
           /\ DOMAIN f.children = 1..Len(f.children) /\ Len(f.children) \in Nat
           /\ DOMAIN f.parent = 1..Len(f.parent) /\ Len(f.parent) \in Nat
           /\ DOMAIN f.attrs = 1..Len(f.attrs) /\ Len(f.attrs) \in Nat
<1>1. /\ f.children \in Seq(Kinds) /\ f.wantsString \in BOOLEAN
      /\ f.parent \in Seq(Nat) /\ f.block \subseteq DOMAIN f.parent
      /\ f.attrs \in Seq(DOMAIN f.parent)
  BY SourcesAssumption
<1> QED
  BY <1>1

\* A function with a block body around it has an innermost one.
LEMMA OwnerIsBlock ==
    ASSUME file \in Sources, NEW f, Blocks(f) # {}
    PROVE  Owner(f) \in Blocks(f)
<1> DEFINE n == Len(file.parent)
           depth == {n - g : g \in Blocks(f)}
<1>1. Blocks(f) \subseteq 1..n /\ n \in Nat
  BY SourceType DEF Blocks
<1>2. PICK d \in depth : \A e \in depth : d <= e
  <2>1. depth \subseteq Nat /\ depth # {}
    BY <1>1
  <2> QED
    BY <2>1, LeastOf
<1>3. PICK x \in Blocks(f) : d = n - x
  OBVIOUS
<1>4. \A y \in Blocks(f) : x >= y
  <2> SUFFICES ASSUME NEW y \in Blocks(f) PROVE x >= y
    OBVIOUS
  <2>1. n - x <= n - y
    BY <1>2, <1>3
  <2> HIDE DEF n
  <2> QED
    BY <1>1, <2>1
<1> QED
  BY <1>4 DEF Owner, Max

\* What surrounds what is the file's.
LEMMA Surroundings ==
    ASSUME UNCHANGED file
    PROVE  /\ Around' = Around
           /\ \A f : Blocks(f)' = Blocks(f) /\ Owner(f)' = Owner(f) /\ Within(f)' = Within(f)
<1>1. Around' = Around
  BY DEF Around
<1>2. \A f : Blocks(f)' = Blocks(f) /\ Within(f)' = Within(f)
  BY <1>1 DEF Blocks, Within
<1> QED
  BY <1>1, <1>2 DEF Owner

LEMMA HooksKept ==
    ASSUME HookInv, UNCHANGED <<file, next, hooked, wrapped>>
    PROVE  HookInv'
BY Surroundings DEF HookInv, OnlyInnerHooksHide, InScope

LEMMA FileInvInit == FileInit => FileInv
<1> SUFFICES ASSUME FileInit PROVE FileInv
  OBVIOUS
<1>1. file \in Sources /\ body = Children
  BY DEF FileInit
<1>2. /\ file.children \in Seq(Kinds) /\ DOMAIN file.children = 1..Len(file.children)
      /\ Len(file.children) \in Nat
  BY <1>1, SourceType
<1>3. \A i \in DOMAIN file.children : Children[i] = [kind |-> file.children[i], of |-> {i}]
  BY DEF Children
<1>4. DOMAIN Children = 1..Len(file.children)
  BY <1>2 DEF Children
<1>5. Len(Children) = Len(file.children)
  BY <1>2, <1>4, LenProperties, IsASeq
<1>6. Unmerged
  <2>1. DOMAIN body = DOMAIN file.children /\ Len(body) = Len(file.children) /\ at = 0
    BY <1>1, <1>2, <1>4, <1>5 DEF FileInit
  <2>2. ASSUME NEW i \in DOMAIN body
        PROVE  body[i] = [kind |-> file.children[i], of |-> {i}] /\ ~(i < at)
    <3>1. body[i] = [kind |-> file.children[i], of |-> {i}] /\ i \in 1..Len(file.children)
      BY <1>1, <1>2, <1>3, <2>1
    <3> QED
      BY <2>1, <3>1
  <2>3. ASSUME NEW i \in DOMAIN body
        PROVE  /\ body[i] \in [kind : {file.children[i], "T"}, of : {{i}}]
               /\ body[i].kind = file.children[i] /\ ~(i < at)
    BY <2>2
  <2> QED
    BY <2>1, <2>3 DEF Unmerged
<1> QED
  BY <1>1, <1>6 DEF FileInit, FileInv, ProgressInv, HookInv, OnlyInnerHooksHide

\* The steps of phases 1 and 2 (wrap.ts:249-297).
LEMMA ElementStep ==
    ASSUME FileInv,
           MergeMixed \/ SkipMixed \/ NotMixed \/ WrapText \/ SkipText \/ WrapInFragment
             \/ NoText
    PROVE  FileInv'
<1>1. /\ UNCHANGED <<file, next, hooked, wrapped>>
      /\ at' = at + 1 /\ at' \in Nat /\ at' > 0
  BY DEF FileInv, ProgressInv, MergeMixed, SkipMixed, NotMixed, WrapText, SkipText, WrapInFragment,
         NoText, UnchangedAttributes
<1>2. /\ file \in Sources /\ at \in Nat
      /\ DOMAIN file.children = 1..Len(file.children) /\ Len(file.children) \in Nat
  BY SourceType DEF FileInv, ProgressInv
<1>3. ProgressInv' /\ HookInv'
  BY <1>1, <1>2, HooksKept DEF FileInv, ProgressInv
<1>4. CASE MergeMixed
  <2>1. Unmerged /\ at = 0
    BY <1>4 DEF FileInv, Merged, MergeMixed
  <2>2. \A i \in DOMAIN body : body[i].kind = file.children[i]
    BY <2>1 DEF Unmerged
  <2>3. {i \in DOMAIN body : body[i].kind \in Text \cup {"tag"}}
          = {i \in DOMAIN file.children : file.children[i] \in Text \cup {"tag"}}
    BY <2>1, <2>2 DEF Unmerged
  <2>4. Merged'
    BY <1>1, <1>4, <2>3 DEF MergeMixed, Merged, Serializable, HasKind
  <2> QED
    BY <1>3, <2>4 DEF FileInv
<1>5. CASE Merged /\ ~MergeMixed
  <2>1. DOMAIN body = {1} /\ body[1].kind = "T" /\ at > 0
    BY <1>5 DEF Merged
  <2>2. body' = body
    BY <1>2, <1>5, <2>1 DEF SkipMixed, NotMixed, WrapText, SkipText, WrapInFragment, NoText
  <2> QED
    BY <1>1, <1>3, <1>5, <2>2 DEF FileInv, Merged, Serializable, HasKind
<1>6. CASE Unmerged /\ ~MergeMixed
  <2>1. DOMAIN body' = DOMAIN body /\ Len(body') = Len(body)
    <3>1. body' = body \/ body' = [body EXCEPT ![at].kind = "T"]
      BY <1>6 DEF SkipMixed, NotMixed, WrapText, SkipText, WrapInFragment, NoText
    <3>2. DOMAIN body = 1..Len(file.children) /\ Len(body) = Len(file.children)
      BY <1>2, <1>6 DEF Unmerged
    <3>3. DOMAIN body' = DOMAIN body
      BY <3>1
    <3> QED
      BY <1>2, <3>2, <3>3, LenProperties, IsASeq
  <2>2. ASSUME NEW i \in DOMAIN body
        PROVE  /\ body'[i] \in [kind : {file.children[i], "T"}, of : {{i}}]
               /\ file.children[i] = "words" /\ i < at + 1 /\ 0 \notin reported' =>
                     body'[i].kind = "T"
               /\ file.children[i] = "fragment" /\ i < at + 1 => body'[i].kind = "T"
    <3>1. /\ i \in Nat /\ i > 0
          /\ body[i] \in [kind : {file.children[i], "T"}, of : {{i}}]
          /\ file.children[i] = "words" /\ i < at /\ 0 \notin reported => body[i].kind = "T"
          /\ file.children[i] = "fragment" /\ i < at => body[i].kind = "T"
      BY <1>2, <1>6 DEF Unmerged
    <3>2. CASE SkipMixed \/ SkipText
      <4>1. body' = body /\ 0 \in reported'
        BY <3>2 DEF SkipMixed, SkipText
      <4>2. file.children[i] = "fragment" /\ i < at + 1 => body[i].kind = "T"
        <5>1. file.children[i] = "fragment" => body[i].kind # "words"
          BY <3>1
        <5>2. at = 0 \/ (at \in DOMAIN body /\ body[at].kind = "words")
          BY <3>2 DEF SkipMixed, SkipText
        <5> QED
          BY <1>2, <3>1, <5>1, <5>2
      <4> QED
        BY <3>1, <4>1, <4>2
    <3>3. CASE NotMixed
      <4>1. body' = body /\ at = 0
        BY <3>3 DEF NotMixed
      <4>2. ~(i < at + 1)
        BY <3>1, <4>1
      <4> QED
        BY <3>1, <4>1, <4>2
    <3>4. CASE WrapText \/ WrapInFragment
      <4>1. body' = [body EXCEPT ![at].kind = "T"] /\ reported' = reported
        BY <3>4 DEF WrapText, WrapInFragment
      <4>2. CASE i = at
        BY <3>1, <4>1, <4>2
      <4>3. CASE i # at
        BY <1>2, <3>1, <4>1, <4>3
      <4> QED
        BY <4>2, <4>3
    <3>5. CASE NoText
      <4>1. /\ at \in DOMAIN body /\ body[at].kind \notin {"words", "fragment"}
            /\ UNCHANGED <<body, reported>>
        BY <3>5 DEF NoText
      <4>2. CASE i = at
        <5>1. body'[i] = body[i] /\ body[i].kind \notin {"words", "fragment"}
          BY <4>1, <4>2
        <5> QED
          BY <3>1, <5>1
      <4>3. CASE i # at
        BY <1>2, <3>1, <4>1, <4>3
      <4> QED
        BY <4>2, <4>3
    <3> QED
      BY <1>6, <3>2, <3>3, <3>4, <3>5
  <2>3. Unmerged'
    BY <1>1, <1>6, <2>1, <2>2 DEF Unmerged
  <2> QED
    BY <1>3, <2>3 DEF FileInv
<1> QED
  BY <1>4, <1>5, <1>6 DEF FileInv

\* The steps of phase 3 (wrap.ts:299-317).
LEMMA AttributeStep ==
    ASSUME FileInv, AlreadyThere \/ InsertHook \/ NoBlockComponent
    PROVE  FileInv'
<1>1. /\ UNCHANGED <<file, body, at>> /\ next' = next + 1 /\ next \in DOMAIN file.attrs
      /\ file \in Sources /\ at \in Nat /\ next \in Nat \ {0} /\ next' \in Nat \ {0}
  BY DEF FileInv, ProgressInv, AlreadyThere, InsertHook, NoBlockComponent, NextAttribute
<1>2. Unmerged' \/ Merged'
  <2>1. 0 \in reported' <=> 0 \in reported
    BY <1>1 DEF AlreadyThere, InsertHook, NoBlockComponent, Wrapped
  <2>2. CASE Unmerged
    BY <1>1, <2>1, <2>2 DEF Unmerged
  <2>3. CASE Merged
    BY <1>1, <2>3 DEF Merged, Serializable, HasKind
  <2> QED
    BY <2>2, <2>3 DEF FileInv
<1> DEFINE owner(a) == Owner(file.attrs[a])
           clear(a, H, W) ==
             \/ Around[file.attrs[a]] \cap H # {}
             \/ \E b \in W : b < a /\ owner(b) \in H \cap (Within(owner(a)) \ {owner(a)})
<1>3. OnlyInnerHooksHide' <=> \A a \in wrapped' : clear(a, hooked', wrapped')
  BY <1>1, Surroundings DEF OnlyInnerHooksHide, InScope
<1>4. /\ wrapped \subseteq DOMAIN file.attrs
      /\ \A a \in wrapped : a < next /\ Blocks(file.attrs[a]) # {}
      /\ \A h \in hooked : \E b \in wrapped : owner(b) = h
      /\ \A a \in wrapped : clear(a, hooked, wrapped)
  BY DEF FileInv, HookInv, OnlyInnerHooksHide, InScope
<1>10. \A a \in wrapped : a < next'
  <2>1. DOMAIN file.attrs \subseteq Nat
    BY <1>1, SourceType
  <2> QED
    BY <1>1, <1>4, <2>1
<1>5. hooked \subseteq hooked' /\ wrapped \subseteq wrapped'
  BY DEF AlreadyThere, InsertHook, NoBlockComponent, Wrapped
<1>6. \A a \in wrapped : clear(a, hooked', wrapped')
  BY <1>4, <1>5
<1>7. CASE NoBlockComponent
  <2>1. UNCHANGED <<hooked, wrapped>>
    BY <1>7 DEF NoBlockComponent
  <2>2. HookInv'
    <3>1. OnlyInnerHooksHide'
      BY <1>3, <1>6, <2>1
    <3> HIDE DEF clear
    <3> QED
      BY <1>1, <1>4, <1>10, <2>1, <3>1, Surroundings DEF HookInv
  <2> QED
    BY <1>1, <1>2, <2>2 DEF FileInv, ProgressInv
<1>8. CASE AlreadyThere \/ InsertHook
  <2>1. wrapped' = wrapped \cup {next} /\ Blocks(file.attrs[next]) # {}
    BY <1>8 DEF AlreadyThere, InsertHook, Wrapped
  <2>2. owner(next) \in Around[file.attrs[next]]
    BY <1>1, <2>1, OwnerIsBlock DEF Blocks
  <2>3. clear(next, hooked', wrapped')
    <3>1. CASE owner(next) \in hooked'
      BY <2>2, <3>1
    <3>2. CASE owner(next) \notin hooked'
      <4>1. AlreadyThere /\ hooked' = hooked
        BY <1>8, <3>2 DEF AlreadyThere, InsertHook
      <4>2. PICK h \in hooked : h \in Within(owner(next))
        BY <4>1 DEF AlreadyThere, Mentions
      <4>3. PICK b \in wrapped : owner(b) = h
        BY <1>4
      <4> QED
        BY <1>4, <2>1, <3>2, <4>1, <4>2, <4>3
    <3> QED
      BY <3>1, <3>2
  <2>4. \A h \in hooked' : \E b \in wrapped' : owner(b) = h
    BY <1>4, <1>8, <2>1 DEF AlreadyThere, InsertHook
  <2>5. HookInv'
    <3>1. OnlyInnerHooksHide'
      BY <1>3, <1>6, <2>1, <2>3
    <3>2. \A a \in wrapped' : a < next' /\ Blocks(file.attrs[a]) # {}
      BY <1>1, <1>4, <1>10, <2>1
    <3> QED
      BY <1>1, <1>4, <2>1, <2>4, <3>1, <3>2, Surroundings DEF HookInv
  <2> QED
    BY <1>1, <1>2, <2>5 DEF FileInv, ProgressInv
<1> QED
  BY <1>7, <1>8

LEMMA FileInvStep == FileInv /\ [FileNext]_fileVars => FileInv'
<1>1. ASSUME FileInv, UNCHANGED fileVars PROVE FileInv'
  <2>1. HookInv'
    BY <1>1, HooksKept DEF FileInv, fileVars
  <2> QED
    BY <1>1, <2>1 DEF fileVars, FileInv, ProgressInv, Unmerged, Merged, Serializable, HasKind
<1> QED
  BY <1>1, ElementStep, AttributeStep DEF FileNext

LEMMA FileInvariance == FileSpec => []FileInv
BY FileInvInit, FileInvStep, PTL DEF FileSpec

\* For an element with any children: when its phases are over, its words are in a
\* T, or it is in the report, and the words of every fragment that is left are in a
\* T (wrap.ts:12-13,249-297).
THEOREM NoWordIsForgotten == FileSpec => []WordsAreAccountedFor
<1>1. FileInv => WordsAreAccountedFor
  <2> SUFFICES ASSUME FileInv, at > Len(body), NEW i \in DOMAIN file.children
               PROVE  /\ file.children[i] = "words" => i \in Translated \/ 0 \in reported
                      /\ file.children[i] = "fragment" => i \in Translated \/ i \notin Kept
    BY DEF WordsAreAccountedFor
  <2>1. file \in Sources /\ at \in Nat /\ DOMAIN file.children = 1..Len(file.children)
    BY SourceType DEF FileInv, ProgressInv
  <2>2. CASE Unmerged
    <3>1. i \in DOMAIN body /\ i < at
      BY <2>1, <2>2, SourceType DEF Unmerged
    <3>2. /\ file.children[i] = "words" /\ 0 \notin reported => body[i].kind = "T"
          /\ file.children[i] = "fragment" => body[i].kind = "T"
          /\ body[i].of = {i}
      BY <2>2, <3>1 DEF Unmerged
    <3> QED
      BY <3>1, <3>2 DEF Translated
  <2>3. CASE Merged
    <3>1. /\ DOMAIN body = {1} /\ body[1].kind = "T"
          /\ body[1].of = {k \in DOMAIN file.children : file.children[k] \in Text \cup {"tag"}}
      BY <2>3 DEF Merged
    <3>2. file.children[i] = "words" => i \in Translated
      BY <3>1 DEF Translated, Text
    <3>3. file.children[i] = "fragment" => i \notin Kept
      BY <3>1 DEF Kept, Text
    <3> QED
      BY <3>2, <3>3
  <2> QED
    BY <2>2, <2>3 DEF FileInv
<1> QED
  BY <1>1, FileInvariance, PTL

\* For an element with any children: merging takes away nothing but children that
\* serializeTagged has no branch for (wrap.ts:186-212,269).
THEOREM MergeLosesTheUnseen == FileSpec => []OnlyUnseenChildrenAreLost
<1>1. FileInv => OnlyUnseenChildrenAreLost
  <2> SUFFICES ASSUME FileInv, NEW i \in DOMAIN file.children, i \notin Kept
               PROVE  file.children[i] \in {"empty", "fragment"}
    BY DEF OnlyUnseenChildrenAreLost
  <2>1. ~Unmerged
    BY DEF Unmerged, Kept
  <2>2. Merged
    BY <2>1 DEF FileInv
  <2>3. 1 \in DOMAIN body
        /\ body[1].of = {k \in DOMAIN file.children : file.children[k] \in Text \cup {"tag"}}
    BY <2>2 DEF Merged
  <2>4. file.children[i] \notin Text \cup {"tag"}
    BY <2>3 DEF Kept
  <2>5. file.children[i] \notin {"rich", "element", "expr"}
    BY <2>2 DEF Merged, Serializable, HasKind
  <2>6. file.children[i] \in Kinds
    BY SourceType DEF FileInv, ProgressInv
  <2> QED
    BY <2>4, <2>5, <2>6 DEF Kinds, Inline
<1> QED
  BY <1>1, FileInvariance, PTL

\* For functions nested to any depth and attributes in any order: only an inner
\* function that had the hook first keeps it from an outer one (wrap.ts:163-184).
THEOREM HooksHideOutwardsOnly == FileSpec => []OnlyInnerHooksHide
<1>1. FileInv => OnlyInnerHooksHide
  BY DEF FileInv, HookInv
<1> QED
  BY <1>1, FileInvariance, PTL
=============================================================================
