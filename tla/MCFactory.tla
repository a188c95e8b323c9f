----------------------------- MODULE MCFactory -----------------------------
(* Two files of one namespace, three texts with the same first words.       *)
EXTENDS Factory

ThreeTexts == {"Save", "Save!", "Save."}
OneStem == [t \in ThreeTexts |-> "save"]
OneNamespace == <<"users", "users">>

Release(one, two, upTo, app_, form_) ==
    [texts |-> <<one, two>>, wrappable |-> upTo, app |-> app_, form |-> form_]
Older == Release(<<"Save", "Save!">>, <<"Save.">>, <<9, 9>>, TRUE, "there")
Newer == Release(<<"Save!">>, <<"Save.", "Save!">>, <<1, 9>>, TRUE, "no return")
\* Upstream has moved one of the two files that are wired.
NoApp == Release(<<>>, <<>>, <<9, 9>>, FALSE, "there")
NoForm == Release(<<>>, <<>>, <<9, 9>>, TRUE, "no file")
Releases == [older |-> Older, newer |-> Newer, noApp |-> NoApp, noForm |-> NoForm]
=============================================================================
