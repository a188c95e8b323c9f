--------------------------- MODULE ExchangeProofs ---------------------------
(***************************************************************************)
(* What a launch sends and what it makes of the reply, for addresses and   *)
(* bodies of any length: the reply loop of provisionCredentials computes   *)
(* acceptance, and the addresses of the gateway, the player and the page   *)
(* fit together.                                                           *)
(***************************************************************************)
EXTENDS Exchange, SequenceTheorems, NaturalsInduction, WellFoundedInduction,
        TLAPS

-----------------------------------------------------------------------------
(* The reply loop.                                                         *)

LEMMA LoopInvInit == LoopInit => LoopInv
  <1>. SUFFICES ASSUME LoopInit PROVE LoopInv
    OBVIOUS
  <1>1. Len(reply.outputs) \in Nat
    BY BodiesAssumption DEF LoopInit, Replies
  <1>2. i = 1 /\ 1..i - 1 = {}
    BY DEF LoopInit
  <1>3. TypeOK
    <2>1. 1 \in 1..Len(reply.outputs) + 1
      BY <1>1
    <2>. QED
      BY <2>1, Zenon DEF LoopInit, TypeOK
  <1>. QED
    BY <1>2, <1>3 DEF LoopInit, LoopInv, VerdictIsAcceptance

LEMMA LoopInvStep == LoopInv /\ [LoopNext]_loopVars => LoopInv'
  <1>. SUFFICES ASSUME LoopInv, [LoopNext]_loopVars PROVE LoopInv'
    OBVIOUS
  <1>. USE DEF LoopInv, TypeOK
  <1>0. /\ reply.outputs \in Seq(Output)
        /\ Len(reply.outputs) \in Nat
        /\ DOMAIN reply.outputs = 1..Len(reply.outputs)
    BY BodiesAssumption DEF Replies
  <1>1. CASE NotUnderstood
    BY <1>0, <1>1 DEF NotUnderstood, Return, VerdictIsAcceptance, Accepted
  <1>2. CASE NextOutput
    <2>1. 1..i' - 1 = (1..i - 1) \cup {i}
      BY <1>0, <1>2 DEF NextOutput
    <2>2. acked' <=> \E k \in 1..i' - 1 : OwnAck(reply.outputs[k])
      BY <1>2, <2>1 DEF NextOutput
    <2>3. \A k \in 1..i' - 1 : ~OwnRejection(reply.outputs[k])
      BY <1>2, <2>1 DEF NextOutput
    <2>. QED
      BY <1>0, <1>2, <2>2, <2>3 DEF NextOutput, VerdictIsAcceptance, OwnAck
  <1>3. CASE Rejected
    <2>1. ~Accepted(reply)
      BY <1>0, <1>3 DEF Rejected, Accepted
    <2>. QED
      BY <1>3, <2>1 DEF Rejected, Return, VerdictIsAcceptance
  <1>4. CASE EndOfOutputs
    <2>1. DOMAIN reply.outputs = 1..i - 1
      BY <1>0, <1>4 DEF EndOfOutputs
    <2>2. acked <=> Accepted(reply)
      BY <1>4, <2>1 DEF EndOfOutputs, Accepted
    <2>. QED
      BY <1>4, <2>2 DEF EndOfOutputs, Return, VerdictIsAcceptance
  <1>5. CASE UNCHANGED loopVars
    BY <1>5 DEF loopVars, VerdictIsAcceptance
  <1>. QED
    BY <1>1, <1>2, <1>3, <1>4, <1>5 DEF LoopNext

\* At every turn of the loop, for a body of any length: what came before i holds
\* no rejection of ours, and acked tells whether it holds our ack
\* (preflight.go:95-114).
THEOREM LoopKeepsCount == LoopSpec => []LoopInv
  BY LoopInvInit, LoopInvStep, PTL DEF LoopSpec

\* For every body, of any length, provisionCredentials returns nil exactly when
\* our operation was acked and not rejected (preflight.go:85-118).
THEOREM ReplyLoopCorrect == LoopSpec => []VerdictIsAcceptance
  <1>1. LoopInv => VerdictIsAcceptance
    BY DEF LoopInv
  <1>. QED
    BY <1>1, LoopKeepsCount, PTL

-----------------------------------------------------------------------------
(* Texts.                                                                  *)

\* The broker's own words are named: no prover knows a literal to be a STRING.
Literals == {":", "/", "?", "https", "http", "wss", "ws", "tcp", "jet", "rdp", "launch",
             "heartbeat", "preflight", "route", "KdcProxy", "jwt", "3389"}
AnyWord == STRING \cup Literals
AnyText == Seq(AnyWord)

LEMMA TextType ==
    ASSUME NEW s \in AnyText
    PROVE  Len(s) \in Nat /\ DOMAIN s = 1..Len(s) /\ \A k \in 1..Len(s) : s[k] \in AnyWord
BY LenProperties, ElementOfSeq DEF AnyText

LEMMA Parts ==
    ASSUME NEW s \in AnyText, NEW m \in 1..(Len(s) + 1), NEW n \in 0..Len(s)
    PROVE  /\ SubSeq(s, m, n) \in AnyText
           /\ Len(SubSeq(s, m, n)) = IF m <= n THEN n - m + 1 ELSE 0
           /\ \A k \in 1..(n - m + 1) : SubSeq(s, m, n)[k] = s[m + k - 1]
<1>1. m \in Int /\ n \in Int /\ \A k \in m..n : s[k] \in AnyWord
  BY TextType
<1> QED
  BY <1>1, SubSeqProperties DEF AnyText

LEMMA Beginning ==
    ASSUME NEW s \in AnyText, NEW n \in 0..Len(s)
    PROVE  /\ SubSeq(s, 1, n) \in AnyText
           /\ Len(SubSeq(s, 1, n)) = n
           /\ \A k \in 1..n : SubSeq(s, 1, n)[k] = s[k]
<1>1. Len(s) \in Nat /\ 1 \in 1..(Len(s) + 1)
  BY TextType
<1>2. \A m \in 1..(Len(s) + 1) : m = 1 =>
         /\ SubSeq(s, m, n) \in AnyText
         /\ Len(SubSeq(s, m, n)) = n
         /\ \A k \in 1..n : SubSeq(s, m, n)[k] = s[k]
  <2> SUFFICES ASSUME NEW m \in 1..(Len(s) + 1), m = 1
               PROVE  /\ SubSeq(s, m, n) \in AnyText
                      /\ Len(SubSeq(s, m, n)) = n
                      /\ \A k \in 1..n : SubSeq(s, m, n)[k] = s[k]
    OBVIOUS
  <2>1. /\ SubSeq(s, m, n) \in AnyText
        /\ Len(SubSeq(s, m, n)) = IF m <= n THEN n - m + 1 ELSE 0
        /\ \A k \in 1..(n - m + 1) : SubSeq(s, m, n)[k] = s[m + k - 1]
    BY Parts
  <2>2. n - m + 1 = n /\ (IF m <= n THEN n - m + 1 ELSE 0) = n /\ \A k \in 1..n : m + k - 1 = k
    BY <1>1
  <2> QED
    BY <2>1, <2>2
<1> QED
  BY <1>1, <1>2

LEMMA Remainder ==
    ASSUME NEW s \in AnyText, NEW n \in 0..Len(s)
    PROVE  /\ SubSeq(s, n + 1, Len(s)) \in AnyText
           /\ Len(SubSeq(s, n + 1, Len(s))) = Len(s) - n
           /\ \A k \in 1..(Len(s) - n) : SubSeq(s, n + 1, Len(s))[k] = s[n + k]
<1>1. Len(s) \in Nat /\ n + 1 \in 1..(Len(s) + 1) /\ Len(s) \in 0..Len(s)
  BY TextType
<1>2. \A m \in 1..(Len(s) + 1), l \in 0..Len(s) : m = n + 1 /\ l = Len(s) =>
         /\ SubSeq(s, m, l) \in AnyText
         /\ Len(SubSeq(s, m, l)) = l - n
         /\ \A k \in 1..(l - n) : SubSeq(s, m, l)[k] = s[n + k]
  <2> SUFFICES ASSUME NEW m \in 1..(Len(s) + 1), NEW l \in 0..Len(s), m = n + 1, l = Len(s)
               PROVE  /\ SubSeq(s, m, l) \in AnyText
                      /\ Len(SubSeq(s, m, l)) = l - n
                      /\ \A k \in 1..(l - n) : SubSeq(s, m, l)[k] = s[n + k]
    OBVIOUS
  <2>1. /\ SubSeq(s, m, l) \in AnyText
        /\ Len(SubSeq(s, m, l)) = IF m <= l THEN l - m + 1 ELSE 0
        /\ \A k \in 1..(l - m + 1) : SubSeq(s, m, l)[k] = s[m + k - 1]
    BY Parts
  <2>2. l - m + 1 = l - n /\ (IF m <= l THEN l - m + 1 ELSE 0) = l - n
        /\ \A k \in 1..(l - n) : m + k - 1 = n + k
    BY <1>1
  <2> QED
    BY <2>1, <2>2
<1> QED
  BY <1>1, <1>2

LEMMA Joined ==
    ASSUME NEW s \in AnyText, NEW t \in AnyText
    PROVE  /\ s \o t \in AnyText
           /\ Len(s \o t) = Len(s) + Len(t)
           /\ \A k \in 1..Len(s) : (s \o t)[k] = s[k]
           /\ \A k \in 1..Len(t) : (s \o t)[Len(s) + k] = t[k]
           /\ SubSeq(s \o t, 1, Len(s)) = s
           /\ SubSeq(s \o t, Len(s) + 1, Len(s \o t)) = t
<1>1. /\ s \o t \in AnyText
      /\ Len(s \o t) = Len(s) + Len(t)
      /\ \A k \in 1..Len(s) + Len(t) :
            (s \o t)[k] = IF k <= Len(s) THEN s[k] ELSE t[k - Len(s)]
  BY ConcatProperties DEF AnyText
<1>2. Len(s) \in Nat /\ Len(t) \in Nat
  BY TextType
<1>3. \A k \in 1..Len(s) : (s \o t)[k] = s[k]
  BY <1>1, <1>2
<1>4. ASSUME NEW k \in 1..Len(t) PROVE (s \o t)[Len(s) + k] = t[k]
  <2>1. Len(s) + k \in 1..Len(s) + Len(t) /\ ~(Len(s) + k <= Len(s)) /\ Len(s) + k - Len(s) = k
    BY <1>2
  <2> QED
    BY <1>1, <2>1
<1>5. SubSeq(s \o t, 1, Len(s)) = s
  <2>1. Len(s) \in 0..Len(s \o t)
    BY <1>1, <1>2
  <2>2. /\ SubSeq(s \o t, 1, Len(s)) \in AnyText
        /\ Len(SubSeq(s \o t, 1, Len(s))) = Len(s)
        /\ \A k \in 1..Len(s) : SubSeq(s \o t, 1, Len(s))[k] = s[k]
    BY <1>1, <1>3, <2>1, Beginning
  <2> QED
    BY <2>2, SeqEqual DEF AnyText
<1>6. SubSeq(s \o t, Len(s) + 1, Len(s \o t)) = t
  <2>1. Len(s) \in 0..Len(s \o t) /\ Len(s \o t) - Len(s) = Len(t)
    BY <1>1, <1>2
  <2>2. /\ SubSeq(s \o t, Len(s) + 1, Len(s \o t)) \in AnyText
        /\ Len(SubSeq(s \o t, Len(s) + 1, Len(s \o t))) = Len(t)
        /\ \A k \in 1..Len(t) :
              SubSeq(s \o t, Len(s) + 1, Len(s \o t))[k] = (s \o t)[Len(s) + k]
    BY <1>1, <2>1, Remainder
  <2> QED
    BY <1>4, <2>2, SeqEqual DEF AnyText
<1> QED
  BY <1>1, <1>3, <1>4, <1>5, <1>6

LEMMA Associative ==
    ASSUME NEW s \in AnyText, NEW t \in AnyText, NEW u \in AnyText
    PROVE  (s \o t) \o u = s \o (t \o u)
BY ConcatAssociative DEF AnyText

\* strings.TrimPrefix and strings.HasPrefix.
LEMMA PrefixGoes ==
    ASSUME NEW p \in AnyText, NEW s \in AnyText
    PROVE  IsPrefix(p, p \o s) /\ TrimPrefix(p \o s, p) = s
<1>1. Len(p) <= Len(p \o s) /\ SubSeq(p, 1, Len(p)) = p
  BY Joined, TextType, SubSeqFull DEF AnyText
<1>2. IsPrefix(p, p \o s)
  BY <1>1, Joined DEF IsPrefix
<1> QED
  BY <1>2, Joined DEF TrimPrefix

LEMMA PrefixSplits ==
    ASSUME NEW p \in AnyText, NEW s \in AnyText, IsPrefix(p, s)
    PROVE  TrimPrefix(s, p) \in AnyText /\ s = p \o TrimPrefix(s, p)
<1>1. /\ Len(p) \in Nat /\ Len(s) \in Nat /\ Len(p) <= Len(s)
      /\ SubSeq(s, 1, Len(p)) = p
  BY TextType, SubSeqFull DEF IsPrefix, AnyText
<1>2. TrimPrefix(s, p) = SubSeq(s, Len(p) + 1, Len(s)) /\ TrimPrefix(s, p) \in AnyText
  BY <1>1, Parts DEF TrimPrefix
<1>3. SubSeq(s, 1, Len(p)) \o SubSeq(s, Len(p) + 1, Len(s)) = SubSeq(s, 1, Len(s))
  <2>1. 1 \in 1..(Len(s) + 1) /\ Len(p) \in (1 - 1)..Len(s) /\ Len(s) \in Len(p)..Len(s)
    BY <1>1
  <2> QED
    BY <2>1, ConcatAdjacentSubSeq DEF AnyText
<1> QED
  BY <1>1, <1>2, <1>3, SubSeqFull DEF AnyText

\* Two texts with different beginnings.
LEMMA OtherPrefix ==
    ASSUME NEW p \in AnyText, NEW s \in AnyText, Len(p) > 0, IsPrefix(p, s)
    PROVE  s[1] = p[1]
<1>1. /\ Len(p) \in Nat /\ Len(s) \in Nat /\ Len(p) <= Len(s)
      /\ SubSeq(s, 1, Len(p)) = SubSeq(p, 1, Len(p))
  BY TextType DEF IsPrefix
<1>2. SubSeq(s, 1, Len(p))[1] = s[1] /\ SubSeq(p, 1, Len(p))[1] = p[1]
  BY <1>1, Parts
<1> QED
  BY <1>1, <1>2

LEMMA ReverseType ==
    ASSUME NEW s \in AnyText
    PROVE  /\ Reverse(s) \in AnyText /\ Len(Reverse(s)) = Len(s)
           /\ \A k \in 1..Len(s) : Reverse(s)[k] = s[(Len(s) - k) + 1]
<1>1. Len(s) \in Nat /\ \A k \in 1..Len(s) : s[(Len(s) - k) + 1] \in AnyWord
  BY TextType
<1>2. Reverse(s) \in AnyText
  BY <1>1, IsASeq DEF Reverse, AnyText
<1>3. DOMAIN Reverse(s) = 1..Len(s) /\ DOMAIN Reverse(s) = 1..Len(Reverse(s))
  BY <1>2, TextType DEF Reverse
<1>4. Len(Reverse(s)) = Len(s)
  BY <1>1, <1>2, <1>3, TextType
<1> QED
  BY <1>1, <1>2, <1>4 DEF Reverse

\* strings.TrimSuffix and strings.HasSuffix.
LEMMA SuffixIs ==
    ASSUME NEW x \in AnyText, NEW s \in AnyText
    PROVE  IsSuffix(x, s) <=>
             /\ Len(x) <= Len(s)
             /\ \A k \in 1..Len(x) : s[(Len(s) - k) + 1] = x[(Len(x) - k) + 1]
<1> DEFINE rx == Reverse(x)
           rs == Reverse(s)
<1>1. /\ rx \in AnyText /\ rs \in AnyText /\ Len(rx) = Len(x) /\ Len(rs) = Len(s)
      /\ \A k \in 1..Len(s) : rs[k] = s[(Len(s) - k) + 1]
      /\ \A k \in 1..Len(x) : rx[k] = x[(Len(x) - k) + 1]
      /\ Len(x) \in Nat /\ Len(s) \in Nat
  BY ReverseType, TextType
<1>2. IsSuffix(x, s) <=> Len(rx) <= Len(rs) /\ SubSeq(rx, 1, Len(rx)) = SubSeq(rs, 1, Len(rx))
  BY DEF IsSuffix, IsPrefix
<1> HIDE DEF rx, rs
<1>3. ASSUME Len(x) <= Len(s)
      PROVE  SubSeq(rx, 1, Len(rx)) = SubSeq(rs, 1, Len(rx))
               <=> \A k \in 1..Len(x) : rs[k] = rx[k]
  <2> DEFINE p == SubSeq(rx, 1, Len(rx))
             q == SubSeq(rs, 1, Len(rx))
  <2>1. /\ p \in AnyText /\ q \in AnyText /\ Len(p) = Len(x) /\ Len(q) = Len(x)
        /\ \A k \in 1..Len(x) : p[k] = rx[k] /\ q[k] = rs[k]
    BY <1>1, <1>3, Parts
  <2> HIDE DEF p, q
  <2>2. p = q <=> \A k \in 1..Len(x) : q[k] = p[k]
    BY <2>1, SeqEqual DEF AnyText
  <2>3. p = q <=> \A k \in 1..Len(x) : rs[k] = rx[k]
    BY <2>1, <2>2
  <2> QED
    BY <2>3 DEF p, q
<1>4. ASSUME Len(x) <= Len(s)
      PROVE  (\A k \in 1..Len(x) : rs[k] = rx[k])
               <=> \A k \in 1..Len(x) : s[(Len(s) - k) + 1] = x[(Len(x) - k) + 1]
  <2>1. ASSUME NEW k \in 1..Len(x)
        PROVE  rs[k] = s[(Len(s) - k) + 1] /\ rx[k] = x[(Len(x) - k) + 1]
    <3>1. k \in 1..Len(s)
      BY <1>1, <1>4
    <3> QED
      BY <1>1, <3>1
  <2> QED
    BY <2>1
<1> QED
  BY <1>1, <1>2, <1>3, <1>4

LEMMA SuffixGoes ==
    ASSUME NEW s \in AnyText, NEW x \in AnyText
    PROVE  IsSuffix(x, s \o x) /\ TrimSuffix(s \o x, x) = s
<1>1. /\ s \o x \in AnyText /\ Len(s \o x) = Len(s) + Len(x)
      /\ Len(s) \in Nat /\ Len(x) \in Nat
  BY Joined, TextType
<1>2. ASSUME NEW k \in 1..Len(x)
      PROVE  (s \o x)[(Len(s \o x) - k) + 1] = x[(Len(x) - k) + 1]
  <2> DEFINE j == (Len(x) - k) + 1
  <2>1. j \in 1..Len(x) /\ (Len(s \o x) - k) + 1 = Len(s) + j
    BY <1>1
  <2> HIDE DEF j
  <2>2. (s \o x)[Len(s) + j] = x[j]
    BY <2>1, Joined
  <2> QED
    BY <2>1, <2>2 DEF j
<1>3. IsSuffix(x, s \o x)
  <2>1. Len(x) <= Len(s \o x)
    BY <1>1
  <2> QED
    BY <1>1, <1>2, <2>1, SuffixIs
<1>4. Len(s \o x) - Len(x) = Len(s)
  BY <1>1
<1> QED
  BY <1>3, <1>4, Joined DEF TrimSuffix

-----------------------------------------------------------------------------
(* The last of a set of places in a text.                                  *)

LEMMA MaxIsLargest ==
    ASSUME NEW n \in Nat, NEW I \in SUBSET (1..n), I # {}
    PROVE  Max(I) \in I /\ \A k \in I : k <= Max(I)
<1> DEFINE T == {n - k : k \in I}
<1>1. \A k \in I : k \in Nat /\ k <= n /\ n - k \in Nat
  <2>1. \A k \in I : k \in 1..n
    OBVIOUS
  <2> QED
    BY <2>1
<1>2. T \in SUBSET Nat /\ T # {}
  BY <1>1
<1>3. IsWellFoundedOn(OpToRel(<, Nat), Nat)
  BY NatLessThanWellFounded
<1>4. PICK t \in T : \A u \in T : ~(<<u, t>> \in OpToRel(<, Nat))
  BY <1>2, <1>3, WFMin
<1>5. \A u \in T : ~(u < t)
  BY <1>2, <1>4 DEF OpToRel
<1>6. PICK m \in I : t = n - m
  BY <1>4
<1>7. ASSUME NEW k \in I PROVE m >= k
  <2>1. n - k \in T
    OBVIOUS
  <2>2. ~(n - k < n - m)
    BY <1>5, <1>6, <2>1
  <2>3. k \in Nat /\ m \in Nat
    BY <1>1
  <2> HIDE DEF T
  <2> QED
    BY <2>2, <2>3
<1>8. Max(I) \in I /\ \A k \in I : Max(I) >= k
  BY <1>7 DEF Max
<1> QED
  BY <1>8

LEMMA MaxIs ==
    ASSUME NEW n \in Nat, NEW I \in SUBSET (1..n), NEW m \in I, \A k \in I : k <= m
    PROVE  Max(I) = m
<1>1. Max(I) \in I /\ \A k \in I : k <= Max(I)
  BY MaxIsLargest
<1>2. m <= Max(I) /\ Max(I) <= m /\ m \in 1..n /\ Max(I) \in 1..n
  BY <1>1
<1> QED
  BY <1>2

\* strings.TrimRight keeps the text up to the last word outside the cutset.
LEMMA TrimRightIs ==
    ASSUME NEW s \in AnyText, NEW cutset
    PROVE  \E n \in 0..Len(s) :
             /\ TrimRight(s, cutset) = SubSeq(s, 1, n)
             /\ n = 0 \/ s[n] \notin cutset
             /\ \A k \in 1..Len(s) : k > n => s[k] \in cutset
<1> DEFINE I == {k \in 1..Len(s) : s[k] \notin cutset}
<1>1. TrimRight(s, cutset) = SubSeq(s, 1, IF I # {} THEN Max(I) ELSE 0)
  BY DEF TrimRight, SelectLastInSeq
<1>2. Len(s) \in Nat /\ I \in SUBSET (1..Len(s))
  BY TextType
<1>3. CASE I = {}
  <2>1. 0 \in 0..Len(s) /\ \A k \in 1..Len(s) : s[k] \in cutset
    BY <1>2, <1>3
  <2> QED
    BY <1>1, <1>3, <2>1
<1>4. CASE I # {}
  <2>1. Max(I) \in I /\ \A k \in I : k <= Max(I)
    BY <1>2, <1>4, MaxIsLargest
  <2>2. Max(I) \in 0..Len(s) /\ s[Max(I)] \notin cutset
    BY <1>2, <2>1
  <2>3. \A k \in 1..Len(s) : k > Max(I) => s[k] \in cutset
    BY <1>2, <2>1, <2>2
  <2> QED
    BY <1>1, <1>4, <2>2, <2>3
<1> QED
  BY <1>3, <1>4

LEMMA LastColon ==
    ASSUME NEW s \in AnyText, NEW n \in 1..Len(s), s[n] = ":",
           \A k \in 1..Len(s) : k > n => s[k] # ":"
    PROVE  SelectLastInSeq(s, LAMBDA d : d = ":") = n
<1> DEFINE I == {k \in 1..Len(s) : s[k] = ":"}
<1>1. SelectLastInSeq(s, LAMBDA d : d = ":") = IF I # {} THEN Max(I) ELSE 0
  BY DEF SelectLastInSeq
<1>2. Len(s) \in Nat /\ I \in SUBSET (1..Len(s)) /\ n \in I /\ \A k \in I : k <= n
  BY TextType
<1>3. Max(I) = n
  BY <1>2, MaxIs
<1> QED
  BY <1>1, <1>2, <1>3

-----------------------------------------------------------------------------
(* The fixed texts.                                                        *)

LEMMA SchemeType ==
    ASSUME NEW a \in AnyWord
    PROVE  /\ <<a>> \o Slashes \in AnyText /\ Len(<<a>> \o Slashes) = 4
           /\ (<<a>> \o Slashes)[1] = a
<1> DEFINE s == <<a>>
<1>1. s \in AnyText /\ Len(s) = 1 /\ s[1] = a
  BY DEF AnyText
<1>2. Slashes \in AnyText /\ Len(Slashes) = 3
  BY DEF Slashes, AnyText, AnyWord, Literals
<1> HIDE DEF s
<1>3. /\ s \o Slashes \in AnyText /\ Len(s \o Slashes) = Len(s) + Len(Slashes)
      /\ \A k \in 1..Len(s) : (s \o Slashes)[k] = s[k]
  BY <1>1, <1>2, Joined
<1>4. Len(s \o Slashes) = 4 /\ (s \o Slashes)[1] = a
  BY <1>1, <1>2, <1>3
<1> QED
  BY <1>3, <1>4 DEF s

LEMMA Schemes ==
    /\ Https \in AnyText /\ Len(Https) = 4 /\ Https[1] = "https"
    /\ Http \in AnyText /\ Len(Http) = 4 /\ Http[1] = "http"
    /\ Wss \in AnyText /\ Len(Wss) = 4 /\ Wss[1] = "wss"
    /\ Ws \in AnyText /\ Len(Ws) = 4 /\ Ws[1] = "ws"
    /\ Tcp \in AnyText /\ Len(Tcp) = 4 /\ Tcp[1] = "tcp"
<1>1. {"https", "http", "wss", "ws", "tcp"} \subseteq AnyWord
  BY DEF AnyWord, Literals
<1> QED
  BY <1>1, SchemeType DEF Https, Http, Wss, Ws, Tcp

LEMMA JetRdpType == JetRdp \in AnyText
BY DEF JetRdp, AnyText, AnyWord, Literals

LEMMA JetKdcProxyType == JetKdcProxy \in AnyText
BY DEF JetKdcProxy, AnyText, AnyWord, Literals

\* A text that begins with a scheme begins with no other.
LEMMA OneScheme ==
    ASSUME NEW p \in AnyText, NEW q \in AnyText, Len(p) > 0, Len(q) > 0, p[1] # q[1],
           NEW s \in AnyText, IsPrefix(p, s)
    PROVE  ~IsPrefix(q, s)
<1>1. s[1] = p[1] /\ (IsPrefix(q, s) => s[1] = q[1])
  BY OtherPrefix
<1> QED
  BY <1>1

-----------------------------------------------------------------------------
(* The page and the gateway's address.                                     *)

LEMMA PrefixStays ==
    ASSUME NEW p \in AnyText, NEW s \in AnyText, NEW t \in AnyText
    PROVE  /\ IsPrefix(p, (p \o s) \o t)
           /\ TrimPrefix((p \o s) \o t, p) = s \o t
<1>1. s \o t \in AnyText /\ (p \o s) \o t = p \o (s \o t)
  BY Joined, Associative
<1> QED
  BY <1>1, PrefixGoes

\* Back from the WebSocket address, with or without the route behind it.
LEMMA BackToWeb ==
    ASSUME NEW b \in AnyText, NEW x \in AnyText
    PROVE  /\ websocketURL(b) \in AnyText
           /\ AsWeb(websocketURL(b) \o x) =
                IF IsPrefix(Https, b) \/ IsPrefix(Http, b) THEN b \o x ELSE AsWeb(b \o x)
<1>1. /\ Https \in AnyText /\ Http \in AnyText /\ Wss \in AnyText /\ Ws \in AnyText
  BY Schemes
<1>2. Len(Wss) > 0 /\ Len(Ws) > 0 /\ Wss[1] # Ws[1]
  BY Schemes
<1>3. CASE IsPrefix(Https, b)
  <2> DEFINE r == TrimPrefix(b, Https)
  <2>1. ~IsPrefix(Http, b)
    BY <1>3, OneScheme, Schemes
  <2>2. websocketURL(b) = Wss \o r
    BY <1>3, <2>1 DEF websocketURL
  <2>3. r \in AnyText
    BY <1>1, <1>3, PrefixSplits
  <2>4. b = Https \o r
    BY <1>1, <1>3, PrefixSplits
  <2> HIDE DEF r
  <2>5. Wss \o r \in AnyText /\ (Wss \o r) \o x \in AnyText
    BY <1>1, <2>3, Joined
  <2>6. IsPrefix(Wss, (Wss \o r) \o x) /\ TrimPrefix((Wss \o r) \o x, Wss) = r \o x
    BY <1>1, <2>3, PrefixStays
  <2>7. ~IsPrefix(Ws, (Wss \o r) \o x)
    BY <1>1, <1>2, <2>5, <2>6, OneScheme
  <2>8. (Https \o r) \o x = Https \o (r \o x)
    <3>1. Https \in AnyText
      BY <1>1
    <3> QED
      BY <2>3, <3>1, Associative
  <2>9. AsWeb((Wss \o r) \o x) = b \o x
    BY <2>6, <2>7, <2>8, <2>4 DEF AsWeb, TrimPrefix
  <2> QED
    BY <1>3, <2>2, <2>5, <2>9
<1>4. CASE ~IsPrefix(Https, b) /\ IsPrefix(Http, b)
  <2> DEFINE r == TrimPrefix(b, Http)
  <2>1. websocketURL(b) = Ws \o r
    BY <1>4 DEF websocketURL
  <2>2. r \in AnyText
    BY <1>1, <1>4, PrefixSplits
  <2>3. b = Http \o r
    BY <1>1, <1>4, PrefixSplits
  <2> HIDE DEF r
  <2>4. Ws \o r \in AnyText /\ (Ws \o r) \o x \in AnyText
    BY <1>1, <2>2, Joined
  <2>5. IsPrefix(Ws, (Ws \o r) \o x) /\ TrimPrefix((Ws \o r) \o x, Ws) = r \o x
    BY <1>1, <2>2, PrefixStays
  <2>6. ~IsPrefix(Wss, (Ws \o r) \o x)
    BY <1>1, <1>2, <2>4, <2>5, OneScheme
  <2>7. (Http \o r) \o x = Http \o (r \o x)
    <3>1. Http \in AnyText
      BY <1>1
    <3> QED
      BY <2>2, <3>1, Associative
  <2>8. AsWeb((Ws \o r) \o x) = b \o x
    BY <2>5, <2>6, <2>7, <2>3 DEF AsWeb, TrimPrefix
  <2> QED
    BY <1>4, <2>1, <2>4, <2>8
<1>5. CASE ~IsPrefix(Https, b) /\ ~IsPrefix(Http, b)
  BY <1>5 DEF websocketURL
<1> QED
  BY <1>3, <1>4, <1>5

LEMMA AsWebOfWeb ==
    ASSUME NEW b \in AnyText, IsPrefix(Https, b) \/ IsPrefix(Http, b)
    PROVE  AsWeb(b) = b
<1>1. ~IsPrefix(Wss, b) /\ ~IsPrefix(Ws, b)
  BY OneScheme, Schemes
<1> QED
  BY <1>1 DEF AsWeb

LEMMA PageIs ==
    ASSUME NEW b \in AnyText, NEW declared \in AnyText
    PROVE  playerLaunchURL(websocketURL(b) \o JetRdp, declared)
             = TrimRight(AsWeb(b), {"/"}) \o LaunchPath(declared)
<1> DEFINE w == websocketURL(b)
<1>1. w \in AnyText
  BY BackToWeb, JetRdpType
<1>2. PlayerBase(w \o JetRdp) = w
  BY <1>1, SuffixGoes, JetRdpType DEF PlayerBase
<1>3. AsWeb(w) = AsWeb(b)
  <2>1. <<>> \in AnyText /\ w \o <<>> = w /\ b \o <<>> = b
    BY <1>1, EmptySeq, ConcatEmptySeq DEF AnyText
  <2>2. AsWeb(w \o <<>>)
          = IF IsPrefix(Https, b) \/ IsPrefix(Http, b) THEN b \o <<>> ELSE AsWeb(b \o <<>>)
    BY <2>1, BackToWeb
  <2> QED
    BY <2>1, <2>2, AsWebOfWeb
<1> HIDE DEF w
<1>4. AsWeb(w) = CASE IsPrefix(Wss, w) -> Https \o TrimPrefix(w, Wss)
                   [] IsPrefix(Ws, w) -> Http \o TrimPrefix(w, Ws)
                   [] OTHER -> w
  BY DEF AsWeb, TrimPrefix
<1>5. playerLaunchURL(w \o JetRdp, declared) = TrimRight(AsWeb(w), {"/"}) \o LaunchPath(declared)
  BY <1>2, <1>4 DEF playerLaunchURL
<1> QED
  BY <1>3, <1>5 DEF w

-----------------------------------------------------------------------------
(* The legs of a launch.                                                   *)

LEMMA TrimRightType ==
    ASSUME NEW s \in AnyText, NEW cutset
    PROVE  TrimRight(s, cutset) \in AnyText /\ Len(TrimRight(s, cutset)) <= Len(s)
<1>1. PICK n \in 0..Len(s) : TrimRight(s, cutset) = SubSeq(s, 1, n)
  BY TrimRightIs
<1>2. SubSeq(s, 1, n) \in AnyText /\ Len(SubSeq(s, 1, n)) = n
  BY Beginning
<1>3. n <= Len(s)
  BY TextType
<1> QED
  BY <1>1, <1>2, <1>3

\* No slash at the end, nothing to trim.
LEMMA NothingToTrim ==
    ASSUME NEW s \in AnyText, ~IsSuffix(<<"/">>, s)
    PROVE  TrimRight(s, {"/"}) = s
<1>1. PICK n \in 0..Len(s) : /\ TrimRight(s, {"/"}) = SubSeq(s, 1, n)
                            /\ \A k \in 1..Len(s) : k > n => s[k] \in {"/"}
  BY TrimRightIs
<1>2. Len(s) \in Nat
  BY TextType
<1>3. CASE n = Len(s)
  BY <1>1, <1>3, SubSeqFull DEF AnyText
<1>4. CASE n # Len(s)
  <2>1. Len(s) \in 1..Len(s) /\ Len(s) > n
    BY <1>2, <1>4
  <2>2. s[Len(s)] = "/"
    BY <1>1, <2>1
  <2> DEFINE x == <<"/">>
  <2>3. x \in AnyText /\ Len(x) = 1 /\ x[1] = "/"
    BY DEF AnyText, AnyWord, Literals
  <2> HIDE DEF x
  <2>4. Len(x) <= Len(s) /\ \A k \in 1..Len(x) : s[(Len(s) - k) + 1] = x[(Len(x) - k) + 1]
    <3>1. \A k \in 1..Len(x) : k = 1 /\ (Len(s) - k) + 1 = Len(s) /\ (Len(x) - k) + 1 = 1
      BY <1>2, <2>3
    <3> QED
      BY <1>2, <2>1, <2>2, <2>3, <3>1
  <2>5. IsSuffix(x, s)
    BY <2>3, <2>4, SuffixIs
  <2> QED
    BY <2>5 DEF x
<1> QED
  BY <1>3, <1>4

LEMMA RouteType ==
    ASSUME NEW route \in AnyWord
    PROVE  /\ <<"/", "jet", "/", route, "?", "jwt">> \in AnyText
           /\ Len(<<"/", "jet", "/", route, "?", "jwt">>) = 6
BY DEF AnyText, AnyWord, Literals

LEMMA EndpointIs ==
    ASSUME NEW b \in AnyText, NEW route \in AnyWord
    PROVE  /\ Endpoint(b, route) \in AnyText
           /\ Len(Endpoint(b, route)) = Len(TrimRight(b, {"/"})) + 6
           /\ SubSeq(Endpoint(b, route), 1, Len(TrimRight(b, {"/"}))) = TrimRight(b, {"/"})
<1> DEFINE t == TrimRight(b, {"/"})
           r == <<"/", "jet", "/", route, "?", "jwt">>
<1>1. t \in AnyText /\ r \in AnyText /\ Len(r) = 6
  BY TrimRightType, RouteType
<1>2. Endpoint(b, route) = t \o r
  BY DEF Endpoint
<1> HIDE DEF t, r
<1>3. t \o r \in AnyText /\ Len(t \o r) = Len(t) + Len(r) /\ SubSeq(t \o r, 1, Len(t)) = t
  BY <1>1, Joined
<1> QED
  BY <1>1, <1>2, <1>3 DEF t

\* A call begins with the base, without the slashes at its end.
LEMMA OriginIs ==
    ASSUME NEW b \in AnyText, NEW route \in AnyWord
    PROVE  Origin(Endpoint(b, route)) = TrimRight(b, {"/"})
<1> DEFINE t == TrimRight(b, {"/"})
           e == Endpoint(b, route)
           o == Endpoint(<<>>, "route")
<1>1. "route" \in AnyWord /\ <<>> \in AnyText /\ Len(<<>>) = 0
  BY DEF AnyWord, Literals, AnyText
<1>2. Len(o) = 6
  <2> DEFINE z == TrimRight(<<>>, {"/"})
  <2>1. Len(o) = Len(z) + 6
    BY <1>1, EndpointIs
  <2>2. z \in AnyText /\ Len(z) <= Len(<<>>)
    BY <1>1, TrimRightType
  <2> HIDE DEF z, o
  <2>3. Len(z) \in Nat
    BY <2>2, TextType
  <2> QED
    BY <1>1, <2>1, <2>2, <2>3
<1>3. t \in AnyText /\ Len(e) = Len(t) + 6 /\ SubSeq(e, 1, Len(t)) = t
  BY EndpointIs, TrimRightType
<1>4. Len(t) \in Nat
  BY <1>3, TextType
<1>5. Origin(e) = SubSeq(e, 1, Len(e) - Len(o))
  BY DEF Origin
<1> HIDE DEF t, e, o
<1>6. Len(e) - Len(o) = Len(t)
  BY <1>2, <1>3, <1>4
<1>7. Origin(e) = t
  BY <1>3, <1>5, <1>6
<1> QED
  BY <1>7 DEF e, t

-----------------------------------------------------------------------------
(* Hosts and ports.                                                        *)

LEMMA NoColon ==
    ASSUME NEW s \in AnyText, \A k \in 1..Len(s) : s[k] # ":"
    PROVE  SelectLastInSeq(s, LAMBDA d : d = ":") = 0
<1>1. {k \in 1..Len(s) : s[k] = ":"} = {}
  OBVIOUS
<1> QED
  BY <1>1 DEF SelectLastInSeq

LEMMA ColonInText ==
    ASSUME NEW s \in AnyText
    PROVE  SelectLastInSeq(s, LAMBDA d : d = ":") \in 0..Len(s)
<1> DEFINE I == {k \in 1..Len(s) : s[k] = ":"}
<1>1. SelectLastInSeq(s, LAMBDA d : d = ":") = IF I # {} THEN Max(I) ELSE 0
  BY DEF SelectLastInSeq
<1>2. Len(s) \in Nat /\ I \in SUBSET (1..Len(s))
  BY TextType
<1>3. I # {} => Max(I) \in 1..Len(s)
  BY <1>2, MaxIsLargest
<1> QED
  BY <1>1, <1>2, <1>3

LEMMA OnlyBracket ==
    ASSUME NEW s \in AnyText, NEW n \in 1..Len(s), s[n] = "]",
           \A k \in 1..Len(s) : s[k] = "]" => k = n
    PROVE  IndexOf(s, "]") = n
<1> DEFINE I == {k \in 1..Len(s) : s[k] = "]"}
<1>1. IndexOf(s, "]") = IF I # {} THEN Min(I) ELSE 0
  BY DEF IndexOf, SelectInSeq
<1>2. Len(s) \in Nat /\ I = {n}
  BY TextType
<1>3. Min({n}) = n
  BY DEF Min
<1> QED
  BY <1>1, <1>2, <1>3

\* strings.Contains(t, "://") is false where there is no slash.
LEMMA NoSlashes ==
    ASSUME NEW s \in AnyText, \A k \in 1..Len(s) : s[k] # "/"
    PROVE  ~HasText(s, Slashes)
<1>1. /\ Len(Slashes) = 3 /\ Slashes[2] = "/" /\ Len(s) \in Nat
  BY TextType DEF Slashes
<1>2. ASSUME NEW m \in 1..(Len(s) - Len(Slashes) + 1),
             SubSeq(s, m, m + Len(Slashes) - 1) = Slashes
      PROVE  FALSE
  <2> DEFINE n == m + Len(Slashes) - 1
  <2>1. m \in 1..(Len(s) + 1) /\ n \in 0..Len(s) /\ n - m + 1 = 3 /\ m + 2 - 1 \in 1..Len(s)
    BY <1>1
  <2> HIDE DEF n
  <2>2. \A k \in 1..(n - m + 1) : SubSeq(s, m, n)[k] = s[m + k - 1]
    BY <2>1, Parts
  <2>3. 2 \in 1..(n - m + 1)
    BY <2>1
  <2>4. SubSeq(s, m, n)[2] = s[m + 2 - 1]
    BY <2>2, <2>3
  <2>5. SubSeq(s, m, n) = Slashes
    BY <1>2 DEF n
  <2> QED
    BY <1>1, <2>1, <2>4, <2>5
<1> QED
  BY <1>2, Zenon DEF HasText

LEMMA HostWords ==
    ASSUME NEW t \in AnyText, IsHost(t)
    PROVE  /\ Len(t) > 0 /\ Len(t) \in Nat
           /\ \A k \in 1..Len(t) : t[k] \in Word \cup {":", "[", "]"}
<1>1. Len(t) \in Nat
  BY TextType
<1>2. CASE Plain(t)
  BY <1>1, <1>2 DEF Plain
<1>3. CASE Bracketed(t)
  <2>1. \A k \in 1..Len(t) : k = 1 \/ k = Len(t) \/ k \in 2..(Len(t) - 1)
    BY <1>1
  <2> QED
    BY <1>1, <1>3, <2>1 DEF Bracketed
<1> QED
  BY <1>2, <1>3 DEF IsHost

\* net.SplitHostPort refuses a host alone, an IPv6 address included: its colons
\* stand before the bracket.
LEMMA HostHasNoPort ==
    ASSUME NEW t \in AnyText, IsHost(t)
    PROVE  ~HasPort(t)
<1> DEFINE c == SelectLastInSeq(t, LAMBDA d : d = ":")
<1>1. Len(t) \in Nat
  BY TextType
<1>2. CASE Plain(t)
  <2>1. \A k \in 1..Len(t) : t[k] # ":"
    BY <1>2 DEF Plain, Word
  <2>2. c = 0
    BY <2>1, NoColon
  <2> QED
    BY <2>2 DEF HasPort
<1>3. CASE Bracketed(t)
  <2>1. \A k \in 1..Len(t) : k = 1 \/ k = Len(t) \/ k \in 2..(Len(t) - 1)
    BY <1>1
  <2>2. Len(t) \in 1..Len(t) /\ t[Len(t)] = "]" /\ t[1] = "["
    BY <1>1, <1>3 DEF Bracketed
  <2>3. \A k \in 1..Len(t) : t[k] = "]" => k = Len(t)
    BY <1>3, <2>1 DEF Bracketed, Word
  <2>4. IndexOf(t, "]") = Len(t)
    BY <2>2, <2>3, OnlyBracket
  <2>5. c \in 0..Len(t)
    BY ColonInText
  <2> HIDE DEF c
  <2>6. c # IndexOf(t, "]") + 1
    BY <1>1, <2>4, <2>5
  <2> QED
    BY <2>2, <2>6 DEF HasPort, c
<1> QED
  BY <1>2, <1>3 DEF IsHost

LEMMA PortSeen ==
    ASSUME NEW t \in AnyText, IsHostPort(t)
    PROVE  HasPort(t) /\ \A k \in 1..Len(t) : t[k] # "/"
<1> DEFINE n == Len(t)
           h == SubSeq(t, 1, n - 2)
           c == SelectLastInSeq(t, LAMBDA d : d = ":")
<1>1. /\ n \in Nat /\ n > 2 /\ n - 2 \in 0..n /\ t[n] \in Port /\ t[n - 1] = ":"
      /\ IsHost(h)
  BY TextType DEF IsHostPort
<1>2. h \in AnyText /\ Len(h) = n - 2 /\ \A k \in 1..(n - 2) : h[k] = t[k]
  BY <1>1, Beginning
<1> HIDE DEF h
<1>3. c = n - 1
  <2>1. n - 1 \in 1..n
    BY <1>1
  <2>2. \A k \in 1..n : k > n - 1 => t[k] # ":"
    BY <1>1 DEF Port
  <2> QED
    BY <1>1, <2>1, <2>2, LastColon
<1>4. \A k \in 1..n : k = n \/ k = n - 1 \/ k \in 1..(n - 2)
  BY <1>1
<1>5. \A k \in 1..n : t[k] # "/"
  BY <1>1, <1>2, <1>4, HostWords DEF Port, Word
<1>6. CASE Plain(h)
  <2>0. Len(h) = 1 /\ h[1] \in Word
    BY <1>6 DEF Plain
  <2>1. n = 3 /\ t[1] \in Word
    <3>1. n = 3
      <4> HIDE DEF n
      <4>1. n \in Nat /\ n - 2 = 1
        BY <1>1, <1>2, <2>0
      <4> QED
        BY <4>1
    <3>2. 1 \in 1..(n - 2)
      BY <3>1
    <3> QED
      BY <1>2, <2>0, <3>1, <3>2
  <2>2. t[1] # "[" /\ ":" \notin {t[k] : k \in 1..(c - 1)}
    <3>1. \A k \in 1..(c - 1) : k = 1
      BY <1>3, <2>1
    <3> HIDE DEF c, n
    <3> QED
      BY <2>1, <3>1 DEF Word
  <2>3. DOMAIN t = 1..n
    BY TextType
  <2>4. \A k \in 1..n : t[k] \in Word \cup Port \cup {":"}
    BY <1>1, <1>4, <2>1
  <2>5. {"[", "]"} \cap ToSet(t) = {}
    BY <2>3, <2>4 DEF ToSet, Word, Port
  <2>6. c > 0
    BY <1>1, <1>3
  <2> HIDE DEF c, n
  <2> QED
    BY <1>5, <2>2, <2>5, <2>6 DEF HasPort, c, n
<1>7. CASE Bracketed(h)
  <2>1. /\ n - 2 > 2 /\ t[1] = "[" /\ t[n - 2] = "]" /\ n - 2 \in 1..n
        /\ \A k \in 2..(n - 3) : t[k] \in Word \cup {":"}
    BY <1>1, <1>2, <1>7 DEF Bracketed
  <2>2. \A k \in 1..n : \/ k = 1 \/ k = n \/ k = n - 1 \/ k = n - 2
                        \/ k \in 2..(n - 3)
    BY <1>1
  <2>3. \A k \in 1..n : t[k] = "]" => k = n - 2
    BY <1>1, <2>1, <2>2 DEF Word, Port
  <2>4. IndexOf(t, "]") = n - 2
    BY <2>1, <2>3, OnlyBracket
  <2>5. \A k \in 2..n : t[k] # "["
    BY <1>1, <2>1, <2>2 DEF Word, Port
  <2>6. \A k \in c..n : t[k] # "]"
    BY <1>1, <1>3, <2>3
  <2>7. c > 0 /\ IndexOf(t, "]") > 0 /\ c = IndexOf(t, "]") + 1
    BY <1>1, <1>3, <2>1, <2>4
  <2> HIDE DEF c, n
  <2> QED
    BY <1>5, <2>1, <2>5, <2>6, <2>7 DEF HasPort, c, n
<1> QED
  BY <1>1, <1>6, <1>7 DEF IsHost

\* A host with a port behind it.
LEMMA HostThenPort ==
    ASSUME NEW h \in AnyText, IsHost(h)
    PROVE  h \o <<":", "3389">> \in AnyText /\ IsHostPort(h \o <<":", "3389">>)
<1> DEFINE x == <<":", "3389">>
           t == h \o x
<1>1. x \in AnyText /\ Len(x) = 2 /\ x[1] = ":" /\ x[2] = "3389"
  BY DEF AnyText, AnyWord, Literals
<1>2. Len(h) \in Nat /\ Len(h) > 0
  BY HostWords
<1> HIDE DEF x
<1>3. /\ t \in AnyText /\ Len(t) = Len(h) + Len(x)
      /\ \A k \in 1..Len(x) : t[Len(h) + k] = x[k]
      /\ SubSeq(t, 1, Len(h)) = h
  BY <1>1, Joined
<1> HIDE DEF t
<1>4. Len(t) = Len(h) + 2 /\ t[Len(h) + 1] = ":" /\ t[Len(h) + 2] = "3389"
  BY <1>1, <1>3
<1>5. Len(t) - 1 = Len(h) + 1 /\ Len(t) - 2 = Len(h) /\ Len(t) > 2
  BY <1>2, <1>4
<1>6. IsHostPort(t)
  BY <1>3, <1>4, <1>5 DEF IsHostPort, Port
<1> QED
  BY <1>3, <1>6 DEF t, x

-----------------------------------------------------------------------------
(* The launch.                                                             *)

\* Every address is the function of the inputs the code says, from the step
\* that computes it on.
AddressInv ==
    /\ {target, base, front, path} \subseteq AnyText
    /\ at \in {"select", "mint", "describe", "answer", "answered"}
    /\ at # "select" => heartbeat = Endpoint(base, "heartbeat")
    /\ at \notin {"select", "mint"} =>
          preflight = Endpoint(base, "preflight")
    /\ dst # <<>> => at # "select" /\ dst = dstHst(target)
    /\ at \in {"answer", "answered"} =>
          /\ gatewayURL = websocketURL(browserBase) \o JetRdp
          /\ kdc \in {<<>>, browserBase \o JetKdcProxy}
    /\ page # <<>> => at = "answered" /\ page = playerLaunchURL(gatewayURL, path)

LEMMA AddressInvInit == Init => AddressInv
<1> SUFFICES ASSUME Init PROVE AddressInv
  OBVIOUS
<1>1. PICK d \in Deployments :
             target = d.target /\ base = d.base /\ front = d.front /\ path = d.path
  BY DEF Init
<1>2. {target, base, front, path} \subseteq Seq(STRING)
  BY <1>1, DeploymentsAssumption
<1>3. {target, base, front, path} \subseteq AnyText
  BY <1>2, SeqMonotonic DEF AnyText, AnyWord
<1> QED
  BY <1>3 DEF Init, AddressInv

LEMMA AddressInvStep == AddressInv /\ [Next]_vars => AddressInv'
<1> SUFFICES ASSUME AddressInv, [Next]_vars PROVE AddressInv'
  OBVIOUS
<1>1. CASE Probe
  BY <1>1 DEF AddressInv, Probe, inputs, browserBase
<1>2. CASE Provision
  BY <1>2 DEF AddressInv, Provision, inputs, browserBase
<1>3. CASE Describe
  BY <1>3 DEF AddressInv, Describe, inputs, browserBase
<1>4. CASE Answer
  BY <1>4 DEF AddressInv, Answer, inputs, browserBase
<1>5. CASE UNCHANGED vars
  BY <1>5 DEF AddressInv, vars, inputs, browserBase
<1> QED
  BY <1>1, <1>2, <1>3, <1>4, <1>5 DEF Next

LEMMA Addresses == Spec => []AddressInv
BY AddressInvInit, AddressInvStep, PTL DEF Spec

\* Whatever the gateways, fronts and declared paths are: the page a redirect
\* leads to is the one of the gateway the browser was told of
\* (http.go:43-48,60-75, jetbroker.go:175).
THEOREM PagesFollowGateway == Spec => []PageFollowsGateway
<1>1. AddressInv => PageFollowsGateway
  <2> SUFFICES ASSUME AddressInv, page # <<>>
               PROVE  page = TrimRight(AsWeb(browserBase), {"/"}) \o LaunchPath(path)
    BY DEF PageFollowsGateway
  <2>1. browserBase \in AnyText /\ path \in AnyText
    BY DEF AddressInv, browserBase
  <2>2. page = playerLaunchURL(websocketURL(browserBase) \o JetRdp, path)
    BY DEF AddressInv
  <2> QED
    BY <2>1, <2>2, PageIs
<1> QED
  BY <1>1, Addresses, PTL

\* For every base URL: the broker's own calls go where the page is, and the
\* player's address and the KDC proxy's are there too, but for slashes that end
\* the base (farm.go:20-23,130, preflight.go:70, jetbroker.go:175,195,
\* http.go:64-75).
THEOREM LegsAlwaysMeet == Spec => []LegsMeet
<1>1. AddressInv => LegsMeet
  <2> SUFFICES ASSUME AddressInv, at = "answered", front = <<>>,
                      IsPrefix(Https, base) \/ IsPrefix(Http, base)
               PROVE  /\ Origin(heartbeat) = Origin(preflight)
                      /\ page # <<>> => page = Origin(heartbeat) \o LaunchPath(path)
                      /\ LeadsThere(AsWeb(gatewayURL), JetRdp)
                      /\ kdc # <<>> => LeadsThere(kdc, JetKdcProxy)
    BY DEF LegsMeet
  <2>1. base \in AnyText /\ path \in AnyText /\ browserBase = base
    BY DEF AddressInv, browserBase
  <2>2. /\ heartbeat = Endpoint(base, "heartbeat") /\ preflight = Endpoint(base, "preflight")
        /\ gatewayURL = websocketURL(base) \o JetRdp
        /\ kdc \in {<<>>, base \o JetKdcProxy}
        /\ page # <<>> => page = playerLaunchURL(gatewayURL, path)
    BY <2>1 DEF AddressInv
  <2>3. "heartbeat" \in AnyWord /\ "preflight" \in AnyWord
    BY DEF AnyWord, Literals
  <2>4. Origin(heartbeat) = TrimRight(base, {"/"}) /\ Origin(preflight) = TrimRight(base, {"/"})
    BY <2>1, <2>2, <2>3, OriginIs
  <2>5. page # <<>> => page = Origin(heartbeat) \o LaunchPath(path)
    <3>1. AsWeb(base) = base
      BY <2>1, AsWebOfWeb
    <3>2. playerLaunchURL(websocketURL(base) \o JetRdp, path)
            = TrimRight(AsWeb(base), {"/"}) \o LaunchPath(path)
      BY <2>1, PageIs
    <3> QED
      BY <2>2, <2>4, <3>1, <3>2
  <2>6. ASSUME NEW route \in AnyText
        PROVE  LeadsThere(base \o route, route)
    <3>1. IsSuffix(route, base \o route) /\ TrimSuffix(base \o route, route) = base
      BY <2>1, SuffixGoes
    <3>2. IsSuffix(<<"/">>, base) \/ Origin(heartbeat) = base
      BY <2>1, <2>4, NothingToTrim
    <3> QED
      BY <2>4, <3>1, <3>2 DEF LeadsThere
  <2>7. LeadsThere(AsWeb(gatewayURL), JetRdp)
    <3>1. AsWeb(websocketURL(base) \o JetRdp) = base \o JetRdp
      BY <2>1, BackToWeb, JetRdpType
    <3> QED
      BY <2>2, <2>6, <3>1, JetRdpType
  <2>8. kdc # <<>> => LeadsThere(kdc, JetKdcProxy)
    BY <2>2, <2>6, JetKdcProxyType
  <2> QED
    BY <2>4, <2>5, <2>7, <2>8
<1> QED
  BY <1>1, Addresses, PTL

\* For every host, name or bracketed IPv6 address, with a port or without: the
\* token names the host once and one port (token.go:106-119, ports.go:25-27).
THEOREM GatewayDialsTheTarget == Spec => []DialsTheTarget
<1>1. AddressInv => DialsTheTarget
  <2> SUFFICES ASSUME AddressInv, dst # <<>>, IsHost(target) \/ IsHostPort(target)
               PROVE  /\ IsHost(target) => dst = Tcp \o target \o <<":", "3389">>
                      /\ IsHostPort(target) => dst = Tcp \o target
                      /\ HasPort(TrimPrefix(dst, Tcp))
    BY DEF DialsTheTarget
  <2>1. target \in AnyText /\ dst = dstHst(target) /\ Tcp \in AnyText
    BY Schemes DEF AddressInv
  <2>2. ASSUME IsHost(target)
        PROVE  /\ ~IsHostPort(target) /\ dst = Tcp \o target \o <<":", "3389">>
               /\ HasPort(TrimPrefix(dst, Tcp))
    <3> DEFINE t == target \o <<":", "3389">>
    <3>1. ~HasPort(target)
      BY <2>1, <2>2, HostHasNoPort
    <3>2. ~HasText(target, Slashes)
      <4>1. \A k \in 1..Len(target) : target[k] # "/"
        BY <2>1, <2>2, HostWords DEF Word
      <4> QED
        BY <2>1, <4>1, NoSlashes
    <3>3. dst = Tcp \o t
      BY <2>1, <3>1, <3>2 DEF dstHst
    <3>4. t \in AnyText /\ IsHostPort(t)
      BY <2>1, <2>2, HostThenPort
    <3>5. HasPort(t)
      BY <3>4, PortSeen
    <3>6. (Tcp \o target) \o <<":", "3389">> = Tcp \o t
      <4>1. <<":", "3389">> \in AnyText
        BY DEF AnyText, AnyWord, Literals
      <4> QED
        BY <2>1, <4>1, Associative
    <3> HIDE DEF t
    <3>7. TrimPrefix(Tcp \o t, Tcp) = t
      BY <2>1, <3>4, PrefixGoes
    <3>8. ~IsHostPort(target)
      BY <2>1, <3>1, PortSeen
    <3> QED
      BY <3>3, <3>5, <3>6, <3>7, <3>8
  <2>3. ASSUME IsHostPort(target)
        PROVE  dst = Tcp \o target /\ HasPort(TrimPrefix(dst, Tcp))
    <3>1. HasPort(target) /\ \A k \in 1..Len(target) : target[k] # "/"
      BY <2>1, <2>3, PortSeen
    <3>2. ~HasText(target, Slashes)
      BY <2>1, <3>1, NoSlashes
    <3>3. dst = Tcp \o target
      BY <2>1, <3>1, <3>2 DEF dstHst
    <3>4. TrimPrefix(Tcp \o target, Tcp) = target
      BY <2>1, PrefixGoes
    <3> QED
      BY <3>1, <3>3, <3>4
  <2> QED
    BY <2>2, <2>3
<1> QED
  BY <1>1, Addresses, PTL

-----------------------------------------------------------------------------
(* The two together.                                                       *)

\* Waiting for the reply, and going on only after an accepted one, a launch still
\* takes the steps of the loop and of the addresses and no others
\* (jetbroker.go:145-162): what the theorems above say holds of it.
THEOREM ExchangeIsBoth == ExchangeSpec => LoopSpec /\ Spec
<1>1. ExchangeInit => LoopInit /\ Init
  BY DEF ExchangeInit
<1>2. [ExchangeNext]_exchange => [LoopNext]_loopVars /\ [Next]_vars
  BY DEF ExchangeNext, ReadReply, Succeed, exchange, Next
<1>. QED
  BY <1>1, <1>2, PTL DEF ExchangeSpec, LoopSpec, Spec
=============================================================================
