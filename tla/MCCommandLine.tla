---------------------------- MODULE MCCommandLine ----------------------------
\* Archives that are whole, damaged, cut off, sealed, or lie about their sizes;
\* a folder to compress, one file of which appears late; and command lines for
\* every verb and every branch of the parser.
EXTENDS CommandLine, TLC

D == Item(<<"d">>, TRUE, 0, {0}, "x", TRUE)
F == Item(<<"d", "f">>, FALSE, 1, {1}, "x", TRUE)
G == Item(<<"g">>, FALSE, 1, {1}, "y", TRUE)
Bad == [G EXCEPT !.sound = FALSE]
Large == [G EXCEPT !.size = 2, !.told = {2}]
Silent == [Large EXCEPT !.told = {}]
Lying == [Large EXCEPT !.told = {1}]
Cut == [G EXCEPT !.told = {2}]

Shelf == {NoArchive, Archive("junk", FALSE, <<>>), Archive("none", FALSE, <<D, F, G>>),
          Archive("none", FALSE, <<F, Bad>>), Archive("none", FALSE, <<Silent, F>>),
          Archive("none", FALSE, <<Lying, F>>), Archive("none", FALSE, <<Large, F>>), Archive("none", FALSE, <<Cut>>),
          Archive("data", FALSE, <<F, G>>), Archive("names", FALSE, <<D, F>>),
          Archive("none", TRUE, <<F, G>>)}
Alone(a) == [one |-> a, set |-> NoArchive]
MCPlaces == {"p", "q"}
Tree == (<<"d">> :> "dir") @@ (<<"d", "f">> :> "file") @@ (<<"d", "n">> :> "soon") @@ (<<"g">> :> "file")
Linked == (<<"d">> :> "dir") @@ (<<"d", "f">> :> "link") @@ (<<"g">> :> "file")
World(e, d, t) == [ext |-> e, disk |-> ("p" :> d) @@ ("q" :> Alone(NoArchive)), tree |-> t]
MCWorlds ==
    {World(e, Alone(a), Tree) : e \in {"zip", "7z", "egg"}, a \in Shelf}
      \cup {World("7z", Alone(Archive("none", FALSE, <<G>>)), Linked)}
      \cup {World("7z", [one |-> o, set |-> Archive("none", FALSE, <<F>>)], Tree) :
              o \in {NoArchive, Archive("none", FALSE, <<G>>)}}

V(verb) == Pos(verb)
O(head) == Opt(head, FALSE, "")
MCLines == {
    <<>>, <<V("t")>>, <<V("boo"), Pos("p")>>, <<V("x"), O("zz"), Pos("p")>>, <<V("c"), Pos("p")>>,
    <<V("l"), Pos("p")>>, <<V("t"), Pos("p")>>, <<V("t"), Opt("p", FALSE, "key"), Pos("p")>>,
    <<V("t"), Vol("p")>>,
    <<V("x"), Pos("p")>>, <<V("bx"), Opt("p", TRUE, "no"), Pos("p"), Vol("p")>>,
    <<V("c"), O("delsrc"), Pos("p"), Pos("d"), Pos("g")>>,
    <<V("c"), O("delsrc"), O("testdst"), Opt("v", FALSE, "4m"), Pos("p"), Pos("d")>>,
    <<V("c"), O("sdel"), O("testdst"), Opt("p", FALSE, "key"), Opt("t", FALSE, "7z"), Pos("p"), Pos("d")>>,
    <<V("c"), O("aos"), Pos("p"), Pos("g")>>, <<V("c"), O("aou"), O("testdst"), Pos("p"), Pos("g")>>,
    <<V("a"), Opt("mx", FALSE, "9"), O("delsrc"), O("testdst"), Pos("p"), Pos("g")>>,
    <<V("a"), O("aoa"), Pos("p"), Pos("d"), Pos("none")>>}

Asks(kinds, where, passes, want, add, drop) ==
    {[kind |-> k, where |-> where, pass |-> p, want |-> want, add |-> add, drop |-> drop] :
        k \in kinds, p \in passes}
MCAsked ==
    Asks({"test", "report", "scan", "list"}, <<"p", "one">>, {"none", "right", "wrong"}, <<>>, {}, {})
      \cup Asks({"mem", "file", "writer"}, <<"p", "one">>, {"none", "right", "wrong"}, <<"g">>, {}, {})
      \cup Asks({"file"}, <<"p", "one">>, {"right"}, <<"d">>, {}, {})
      \cup Asks({"edit"}, <<"p", "one">>, {"none"}, <<>>, {<<"g">>}, {<<"d">>})
      \cup Asks({"edit"}, <<"p", "one">>, {"right"}, <<>>, {<<"d">>}, {})
      \cup Asks({"edit"}, <<"p", "one">>, {"none"}, <<>>, {}, {})
      \cup Asks({"edit", "scan"}, <<"p", "set">>, {"none"}, <<>>, {}, {<<"d">>})
=============================================================================
