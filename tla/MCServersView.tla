--------------------------- MODULE MCServersView ---------------------------
(* A small catalogue: a country longer than the shortest list view, one      *)
(* without P2P servers, one whose only server is offline, one above the      *)
(* tier; the best by score is not the best by load, and two tie in both.     *)
EXTENDS ServersView

Srv(name, country, online, tier, load, score, features) ==
    [name |-> name, country |-> country, online |-> online, tier |-> tier,
     load |-> load, score |-> score, features |-> features]

MCCatalogue ==
    << Srv("CH#1", "CH", TRUE,  2, 30, 1, {"P2P"}),
       Srv("US#1", "US", TRUE,  0, 10, 4, {}),
       Srv("CH#2", "CH", TRUE,  1, 20, 3, {"P2P"}),
       Srv("CH#3", "CH", TRUE,  2, 50, 2, {}),
       Srv("JP#1", "JP", FALSE, 2, 5,  1, {"P2P"}),
       Srv("CH#4", "CH", TRUE,  2, 50, 2, {"P2P", "Tor"}),
       Srv("VV#1", "VV", TRUE,  3, 1,  0, {"P2P"}) >>

MCQueries == {[countries |-> {"CH"}, names |-> {"CH#2", "CH#3"}],
              [countries |-> {}, names |-> {}]}

MCSizes == {<<44, 6>>, <<62, 10>>}

MCSaved == {[filters |-> {}, lastCountry |-> ""],
            [filters |-> {"P2P"}, lastCountry |-> "JP"]}

MCCommands == {"US", "JP#1"}
=============================================================================
