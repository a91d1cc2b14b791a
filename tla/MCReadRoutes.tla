---------------------------- MODULE MCReadRoutes -----------------------------
EXTENDS ReadRoutes

\* The codes with branches of their own, another negative one, and one that is not.
MCCodes == {-1, -32000, -32601, 1}

World(on, items, clients, groups, ifaces) ==
    [on |-> on, items |-> items, clients |-> clients, groups |-> groups,
     ifaces |-> ifaces]

Client(mac, online, blocked) == [mac |-> mac, online |-> online, blocked |-> blocked]

\* A router out of the box, and three in use: every combination of online and
\* blocked, groups with no, one and two peers, the fact either way.
FourWorlds == {
    World(FALSE, {}, {}, {}, {}),
    World(TRUE, {}, {Client("m1", TRUE, FALSE), Client("m2", FALSE, TRUE)},
          {[group |-> "g1", peers |-> {}]}, {[name |-> "i1", key |-> Secret]}),
    World(FALSE, {"x"}, {Client("m1", TRUE, TRUE), Client("m2", FALSE, FALSE)},
          {[group |-> "g1", peers |-> {"p1"}], [group |-> "g2", peers |-> {"p1", "p2"}]},
          {[name |-> "i1", key |-> Secret], [name |-> "i2", key |-> Secret]}),
    World(TRUE, {"x", "y"}, {Client("m1", FALSE, TRUE)},
          {[group |-> "g1", peers |-> {}], [group |-> "g2", peers |-> {"p2"}]}, {})}

AllRoutes == DOMAIN Reads

\* An "error" beside a "result" is not looked at: any one will do.
MCOddResponses ==
    {r \in Responses : Readable(r) /\ (r.body.kind = "both" => r.body.error.shape = "scalar")}
=============================================================================
