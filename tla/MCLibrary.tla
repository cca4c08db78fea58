------------------------------ MODULE MCLibrary ------------------------------
\* Two of the kernel's lists and four nodes, two of them with equal keys; the
\* formats of one directive, with every choice of a few flags, widths and
\* precisions, between two characters.
EXTENDS Library, TLC

CONSTANTS n1, n2, n3, n4

MCLists == {"block", "sleep"}
MCNodes == {n1, n2, n3, n4}
MCKey   == n1 :> 5 @@ n2 :> 5 @@ n3 :> 7 @@ n4 :> 3

MCFlags  == { <<>>, <<"-">>, <<"+">>, <<"#", "0">>, <<" ", "0">>, <<"#", "+", "-", "0">> }
MCWidth  == { <<>>, <<"1", "0">>, <<"*">> }
MCPrec   == { <<>>, <<".">>, <<".", "2">>, <<".", "*">> }
MCRest   == { <<c>> : c \in {"d", "i", "u", "x", "X", "o", "b", "p", "f", "m", "r", "c",
                              "s", "n", "%", "y"} }
            \cup { <<>>, <<"l">>, <<"l", "d">>, <<"x", "a">> }

MCFormats == { <<"a", "%">> \o f \o w \o p \o r :
                 f \in MCFlags, w \in MCWidth, p \in MCPrec, r \in MCRest }

MCNumbers   == {0, 9, 127, 128, 255}
MCDoubles   == {-1205, 0, 350}
MCStrings   == { <<>>, <<"s">>, <<"s", "t", "u">> }
MCWidths    == {-7, 0, 7}
MCAddresses == { <<0, 10, 255, 1, 2, 171>> }
=============================================================================
