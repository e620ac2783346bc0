----------------------------- MODULE MCSession -----------------------------
(***************************************************************************)
(* Values for TLC.  Amounts are scaled to a maximum of 299, which holds    *)
(* two decimals, on chains of up to three; keys are texts of at most four  *)
(* symbols; two epochs, the second with a larger committee and threshold.  *)
(***************************************************************************)
EXTENDS Session

Texts(symbols, n) == UNION {[1..k -> symbols] : k \in 0..n}

MCApiKeys    == {<<>>, <<" ">>, <<"m", "/", "p">>, <<"?">>, <<"e", ":", "m">>}
MCSeeds      == {<<>>, <<"s", ":", "0">>, <<"/", "/", "p">>}
MCKeyTexts   == Texts({"m", "0", "/", ":", "s", " "}, 4)
                \cup {<<"m">> \o t : t \in Texts({"/", "p", "?", "\n"}, 5)}

MCEntries    == {Entry(n, c, l) : n \in {"deployments", "secrets", "communities", "jobs"},
                                  c \in BOOLEAN,
                                  l \in {<<>>, <<"r">>, <<"w">>, <<"r", "w">>, <<"w", "r">>,
                                         <<"r", "r">>, <<"x">>}}
MCScopeTexts == Texts(MCEntries, 2)
MCGrantTexts == {<<>>, <<Entry("deployments", TRUE, <<"w">>)>>,
                 <<Entry("deployments", TRUE, <<"w">>), Entry("secrets", TRUE, <<"r">>)>>,
                 <<Entry("secrets", TRUE, <<"r", "w">>), Entry("networking", TRUE, <<"w">>)>>,
                 <<Entry("billing", TRUE, <<"w">>), Entry("resources", TRUE, <<"w">>),
                   Entry("organization", TRUE, <<"r", "w">>)>>,
                 <<Entry("volumes", TRUE, <<"w">>), Entry("datasets", TRUE, <<"w">>),
                   Entry("collaborations", TRUE, <<"w">>), Entry("communities", TRUE, <<"w">>)>>}

MCAmountTexts == {Text(s, w, p, f, FALSE) : s \in {"", "+"}, p \in BOOLEAN,
                    w \in Texts({0, 2, 9}, 3), f \in Texts({0, 9}, 3)}
                 \cup {Text(s, <<1>>, FALSE, <<>>, j) : s \in {"", "-"}, j \in BOOLEAN}
MCDeposits    == {1, 5, 10, 100}
MCDeclared    == {Undeclared, 0, 1, 3, 258, 259}

MCCommittee  == <<{1, 2}, {1, 2, 3}>>
MCQuorum     == <<1, 2>>
MCRegistries == {[m \in {1, 2, 3} |-> "http"], <<"http", "junk", "http">>,
                 <<"absent", "http", "absent">>}
=============================================================================
