----------------------------- MODULE MCRegistry -----------------------------
(***************************************************************************)
(* Registry for TLC.  The nodes of other clients collide in every way: by  *)
(* the same seed (a), by a seed that looks like a name made unique (a-3),  *)
(* by the name of the client (p) as a name and as a nickname.  A port is   *)
(* called "x:x", and the node of the client may be called "p:x".           *)
(***************************************************************************)
EXTENDS Registry

a == <<"a">>
a3 == <<"a", 3>>
p1 == <<"p">>
px == <<"p", Colon, "x">>

Node(name, nick) ==
    [kind |-> "node", name |-> name, nick |-> nick, desc |-> None, app |-> None]
OwnNode(app) ==
    [kind |-> "node", name |-> p1, nick |-> None, desc |-> p1, app |-> app]
Port(node, name, direction, index, monitor) ==
    [kind |-> "port", node |-> node, name |-> name, direction |-> direction,
     index |-> index, monitor |-> monitor]

MCClient  == p1
MCSystem  == <<"system">>
MCDevices == {a}
MCOwnOffers == {OwnNode(None), OwnNode(a), OwnNode(px)}

MCOffers ==
    {Node(a, None), Node(p1, a), Node(a, a3), Node(a, p1)}
    \cup UNION {{Port(n, <<"x">>, "in", 0, FALSE), Port(n, <<"x">>, "out", 0, FALSE),
                 Port(n, <<"x", Colon, "x">>, "out", 1, FALSE),
                 Port(n, <<"playback", 1>>, "in", 1, FALSE)} : n \in Ids}
    \cup {[kind |-> "link", output |-> o, input |-> i] : o, i \in Ids}
    \cup {[kind |-> "client"], [kind |-> "device"]}
=============================================================================
