--------------------------- MODULE MCClassLookup --------------------------
(* Three classes, not all of them declared, that may extend each other,    *)
(* with a trait t that may use another, u, for methods and properties, and *)
(* interfaces i, t, u and j for constants and Implements: diamonds, chains *)
(* and loops of each.                                                      *)
EXTENDS ClassLookup

CONSTANTS a, b, c, t, u, i, j

MCNames == {a, b, c, t, u, i, j}
MCQueries == {"method", "property", "constant", "implements"}

Nothing == [n \in MCNames |-> {}]
AtMostOne(S) == {{}} \union {{x} : x \in S}

Parents ==
    {[Nothing EXCEPT ![a] = p, ![b] = q, ![c] = r] :
        p \in AtMostOne({a, b}), q \in AtMostOne({a, c}), r \in AtMostOne({b})}

ParentInterfaces ==
    {[[n \in MCNames |-> <<>>] EXCEPT ![i] = p, ![t] = q] :
        p \in {<<>>, <<t>>, <<u, t>>}, q \in {<<>>, <<j>>, <<i, j>>}}

MemberGraphs ==
    [known : {MCNames, MCNames \ {c}},
     declares : {{}, {b}, {u}, {a, t}, {c, t}, {b, u}},
     parent : Parents,
     traits : {[Nothing EXCEPT ![a] = p, ![b] = q, ![t] = r] :
                p \in {{}, {t, u}, {u}}, q \in {{}, {t}}, r \in {{}, {u}}},
     ifaces : {Nothing},
     parentIfaces : {[n \in MCNames |-> <<>>]}]

InterfaceGraphs(members) ==
    [known : {MCNames, MCNames \ {j}},
     declares : members,
     parent : {[Nothing EXCEPT ![a] = p, ![b] = q] : p \in AtMostOne({b}), q \in AtMostOne({a})},
     traits : {Nothing},
     ifaces : {[Nothing EXCEPT ![a] = p, ![b] = q] : p \in {{}, {i}, {u, t}}, q \in {{}, {j}}},
     parentIfaces : ParentInterfaces]

MCGraphs ==
    [q \in MCQueries |->
        CASE q = "method" -> MemberGraphs \union
                [known : {MCNames}, declares : {{}, {j}}, parent : {Nothing}, traits : {Nothing},
                 ifaces : {Nothing}, parentIfaces : ParentInterfaces]
          [] q = "property" -> MemberGraphs
          [] q = "constant" -> InterfaceGraphs({{}, {b}, {j}, {b, i}})
          [] q = "implements" -> InterfaceGraphs({{i}, {j}})]

MCAsked == {a, i}
=============================================================================
