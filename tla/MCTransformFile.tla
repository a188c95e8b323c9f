--------------------------- MODULE MCTransformFile ---------------------------
(* Every element of up to four children without attributes, and every       *)
(* nesting of up to three functions with up to four attributes: the phases   *)
(* share nothing but the report.                                            *)
EXTENDS TransformFile

OneFunction == [parent |-> <<0>>, block |-> {1}, attrs |-> <<>>]
Elements ==
    {OneFunction @@ [children |-> c, wantsString |-> w] :
        c \in BoundedSeq(Kinds, 4), w \in BOOLEAN}

Nestings == UNION {{P \in [1..n -> 0..2] : \A f \in 1..n : P[f] < f} : n \in 1..3}

Encloses(P, g, f) ==
    LET up[h \in 0..3] == h = g \/ (h > g /\ up[P[h]])
    IN  up[f]

\* What a function spans is one piece of the file.
InDocumentOrder(P, as) ==
    \A g \in DOMAIN P : \A i, k \in DOMAIN as : \A j \in i..k :
        Encloses(P, g, as[i]) /\ Encloses(P, g, as[k]) => Encloses(P, g, as[j])

NestedAttributes ==
    UNION {{[children |-> <<"words", "tag">>, wantsString |-> FALSE,
             parent |-> P, block |-> B, attrs |-> as] :
               B \in SUBSET DOMAIN P,
               as \in {s \in BoundedSeq(DOMAIN P, 4) : InDocumentOrder(P, s)}} :
           P \in Nestings}

ManyFiles == Elements \cup NestedAttributes
=============================================================================
