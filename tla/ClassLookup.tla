---------------------------- MODULE ClassLookup ----------------------------
(***************************************************************************)
(* solver.FindMethod, FindProperty, FindConstant and Implements            *)
(* (solver/solver.go): depth-first walks over the classes, traits and      *)
(* interfaces of the index, which the code of a project may tie into any   *)
(* graph, loops and missing classes included.                              *)
(*                                                                         *)
(* The calls of a recursive walk that are still open are the items of      *)
(* todo, next first: classes to enter, in any order where the code ranges  *)
(* over a map; a class whose own members are to be looked at; for          *)
(* Implements, the class its loop has come to.                             *)
(***************************************************************************)
EXTENDS Integers, Sequences, FiniteSets

CONSTANTS
    Names,              \* names of classes, traits and interfaces
    Queries,            \* among "method", "property", "constant", "implements"
    Graphs,             \* Graphs[q]: the indexes there may be, see Graph
    Asked               \* the names that may be asked about

(* known: the names that are declared; declares: those whose declaration   *)
(* has the member looked for, or, for Implements, the interface itself;    *)
(* parent has at most one element; parentIfaces is what an interface       *)
(* extends, in order.                                                      *)
Graph == [known : SUBSET Names, declares : SUBSET Names,
          parent : [Names -> SUBSET Names], traits : [Names -> SUBSET Names],
          ifaces : [Names -> SUBSET Names], parentIfaces : [Names -> Seq(Names)]]

ASSUME ClassLookupAssumption ==
    /\ IsFiniteSet(Names)
    /\ Queries \subseteq {"method", "property", "constant", "implements"}
    /\ \A q \in Queries : \A g \in Graphs[q] :
          /\ g \in Graph
          /\ \A c \in Names : \A p, r \in g.parent[c] : p = r
    /\ Asked \subseteq Names

VARIABLES
    graph,              \* the index
    query,
    start,              \* the class asked about
    todo,               \* what is left of the walk
    visited,            \* visitedMap
    answer              \* {the class found}, or {}: not yet, or not at all

vars == <<graph, query, start, todo, visited, answer>>

Item == [k : {"enter"}, from : SUBSET Names, cls : {""}]
        \union [k : {"own", "class"}, from : {{}}, cls : Names]

Enter(S) == [k |-> "enter", from |-> S, cls |-> ""]
Own(c) == [k |-> "own", from |-> {}, cls |-> c]
Class(c) == [k |-> "class", from |-> {}, cls |-> c]
EnterEach(seq) == [i \in DOMAIN seq |-> Enter({seq[i]})]

-----------------------------------------------------------------------------
(* What a walk that enters class c does before and after it looks at the   *)
(* members of c.                                                           *)

MethodItemsParentFirst(g, c) ==
    <<Own(c), Enter(g.parent[c])>> \o EnterEach(g.parentIfaces[c]) \o <<Enter(g.traits[c])>>

MethodItems(g, c) ==
    <<Own(c), Enter(g.traits[c])>> \o EnterEach(g.parentIfaces[c]) \o <<Enter(g.parent[c])>>

PropertyItems(g, c) == <<Own(c), Enter(g.traits[c]), Enter(g.parent[c])>>

ConstantItems(g, c) ==
    <<Enter(g.ifaces[c]), Own(c)>> \o EnterEach(g.parentIfaces[c]) \o <<Enter(g.parent[c])>>

InterfaceItemsDirect(g, c) == [i \in DOMAIN g.parentIfaces[c] |-> Own(g.parentIfaces[c][i])]

(* interfaceExtends: an interface is compared before it is entered.        *)
InterfaceItems(g, c) ==
    [i \in 1..(2 * Len(g.parentIfaces[c])) |->
        LET p == g.parentIfaces[c][(i + 1) \div 2] IN IF i % 2 = 1 THEN Own(p) ELSE Enter({p})]

Items(c) ==
    CASE query = "method" -> MethodItems(graph, c)
      [] query = "property" -> PropertyItems(graph, c)
      [] query = "constant" -> ConstantItems(graph, c)
      [] query = "implements" -> InterfaceItems(graph, c)

ImplementsItemsParentFirst(c) ==
    IF graph.ifaces[c] \intersect graph.declares # {}
    THEN <<Own(CHOOSE i \in graph.ifaces[c] \intersect graph.declares : TRUE)>>
    ELSE IF graph.parent[c] = {} THEN <<Enter(graph.ifaces[c])>>
    ELSE <<Class(CHOOSE p \in graph.parent[c] : TRUE), Enter(graph.ifaces[c])>>

(* One turn of Implements' loop, which nothing marks as visited.           *)
ImplementsItems(c) ==
    IF graph.ifaces[c] \intersect graph.declares # {}
    THEN <<Own(CHOOSE i \in graph.ifaces[c] \intersect graph.declares : TRUE)>>
    ELSE IF graph.parent[c] = {} THEN <<Enter(graph.ifaces[c])>>
    ELSE <<Enter(graph.ifaces[c]), Class(CHOOSE p \in graph.parent[c] : TRUE)>>

-----------------------------------------------------------------------------
Init ==
    /\ query \in Queries
    /\ graph \in Graphs[query]
    /\ query = "implements" => \E i \in Names : graph.declares = {i}
    /\ start \in Asked
    /\ todo = IF query = "implements" THEN <<Class(start)>> ELSE <<Enter({start})>>
    /\ visited = {}
    /\ answer = {}

Walking == answer = {} /\ todo # <<>>

(* What is left when class c of the first range is taken out of it.        *)
Rest(c) ==
    IF Head(todo).from = {c} THEN Tail(todo)
    ELSE <<Enter(Head(todo).from \ {c})>> \o Tail(todo)

VisitAgain(c) ==
    /\ Walking
    /\ Head(todo).k = "enter" /\ c \in Head(todo).from
    /\ todo' = IF c \notin graph.known THEN Rest(c) ELSE Items(c) \o Rest(c)
    /\ visited' = visited \union {c}
    /\ UNCHANGED <<graph, query, start, answer>>

VisitUnknown(c) ==
    /\ Walking
    /\ Head(todo).k = "enter" /\ c \in Head(todo).from
    /\ todo' = IF c \in visited THEN Rest(c) ELSE Items(c) \o Rest(c)
    /\ visited' = visited \union {c}
    /\ UNCHANGED <<graph, query, start, answer>>

VisitGivesUp(c) ==
    /\ Walking
    /\ Head(todo).k = "enter" /\ c \in Head(todo).from
    /\ todo' = CASE c \in visited -> <<>>
                 [] c \notin visited /\ c \notin graph.known -> Rest(c)
                 [] OTHER -> Items(c) \o Rest(c)
    /\ visited' = visited \union {c}
    /\ UNCHANGED <<graph, query, start, answer>>

(* A class is entered once, and only if it is declared.                    *)
Visit(c) ==
    /\ Walking
    /\ Head(todo).k = "enter" /\ c \in Head(todo).from
    /\ todo' = IF c \in visited \/ c \notin graph.known THEN Rest(c) ELSE Items(c) \o Rest(c)
    /\ visited' = visited \union {c}
    /\ UNCHANGED <<graph, query, start, answer>>

(* A range over no class.                                                  *)
EndRange ==
    /\ Walking
    /\ Head(todo).k = "enter" /\ Head(todo).from = {}
    /\ todo' = Tail(todo)
    /\ UNCHANGED <<graph, query, start, visited, answer>>

(* The lookup of the member in the class itself ends the walk if it hits.  *)
LookUp ==
    /\ Walking
    /\ Head(todo).k = "own"
    /\ IF Head(todo).cls \in graph.declares
       THEN answer' = {Head(todo).cls} /\ UNCHANGED todo
       ELSE todo' = Tail(todo) /\ UNCHANGED answer
    /\ UNCHANGED <<graph, query, start, visited>>

ImplementsTurn ==
    /\ Walking
    /\ Head(todo).k = "class"
    /\ todo' = IF Head(todo).cls \in graph.known
               THEN ImplementsItems(Head(todo).cls) \o Tail(todo)
               ELSE Tail(todo)
    /\ UNCHANGED <<graph, query, start, visited, answer>>

Next == (\E c \in Names : Visit(c)) \/ EndRange \/ LookUp \/ ImplementsTurn

Spec == Init /\ [][Next]_vars
FairSpec == Spec /\ WF_vars(Next)
-----------------------------------------------------------------------------
TypeOK ==
    /\ query \in Queries
    /\ graph \in Graphs[query]
    /\ start \in Names
    /\ todo \in Seq(Item)
    /\ visited \in SUBSET Names
    /\ answer \in SUBSET Names
    /\ \A n \in DOMAIN todo : todo[n].k = "class" => query = "implements" /\ n = Len(todo)

Done == answer # {} \/ todo = <<>>

(* Where the member of a class may come from in one step, and in any.      *)
Edges(c) ==
    graph.parent[c]
    \union (IF query \in {"method", "property"} THEN graph.traits[c] ELSE graph.ifaces[c])
    \union (IF query = "property" THEN {}
            ELSE {graph.parentIfaces[c][n] : n \in DOMAIN graph.parentIfaces[c]})

Closed(S) == \A c \in S \intersect graph.known : Edges(c) \subseteq S

Reachable == {c \in Names : \A S \in SUBSET Names : start \in S /\ Closed(S) => c \in S}

(* A class that FindMethod, FindProperty or FindConstant names declares    *)
(* the member, and the class asked about inherits from it.                 *)
FoundIsInherited ==
    query # "implements" => answer \subseteq Reachable \intersect graph.known \intersect graph.declares

(* When they find nothing, no class declares the member from which the one *)
(* asked about inherits: a visited class need not be entered twice.        *)
NotFoundMeansNowhere ==
    query # "implements" /\ answer = {} /\ todo = <<>> =>
        Reachable \intersect graph.known \intersect graph.declares = {}

(* The least set with the names from that the step leads out of nowhere.   *)
Least(from, Step(_)) ==
    {c \in Names : \A S \in SUBSET Names :
        from \subseteq S /\ (\A d \in S \intersect graph.known : Step(d) \subseteq S) => c \in S}

Ancestors(c) == Least({c}, LAMBDA d : graph.parent[d])
TraitsOf(c) == Least({c}, LAMBDA d : graph.traits[d])
InterfacesOf(c) ==
    Least(UNION {graph.ifaces[a] : a \in Ancestors(c) \intersect graph.known},
          LAMBDA d : {graph.parentIfaces[d][i] : i \in DOMAIN graph.parentIfaces[d]})

(* PHP has classes extend classes and use traits, and traits extend        *)
(* nothing; the index does not enforce it.                                 *)
OnlyTraitsUsed ==
    \A x \in Ancestors(start) \intersect graph.known : \A d \in TraitsOf(x) \intersect graph.known :
        graph.parentIfaces[d] = <<>> /\ (d # x => graph.parent[d] = {})

(* Of methods and properties of classes the nearest wins: what is found is *)
(* declared by a class or one of its traits, by the class if both do, and  *)
(* any other class that has it, itself or by traits, is not nearer.        *)
NearestWins ==
    query \in {"method", "property"} /\ answer # {} /\ OnlyTraitsUsed =>
        \A c \in answer : \E y \in Ancestors(start) :
            /\ c \in TraitsOf(y)
            /\ y \in graph.known \intersect graph.declares => c = y
            /\ \A x \in Ancestors(start) \intersect graph.known :
                  TraitsOf(x) \intersect graph.known \intersect graph.declares # {} => x \in Ancestors(y)

(* Implements says yes exactly when the class, or one it extends, names    *)
(* the interface or one that extends it.                                   *)
ImplementsRight ==
    query = "implements" /\ Done => (answer # {} <=> graph.declares \subseteq InterfacesOf(start))

(* A class that extends itself, over others or not.                        *)
ParentLoop ==
    \E a \in Ancestors(start) \intersect graph.known : \E p \in graph.parent[a] : a \in Ancestors(p)

(* Every lookup comes to an end, whatever loops there are among the        *)
(* classes; Implements unless the parents of the class run in a circle.    *)
LookupEnds == <>(Done \/ (query = "implements" /\ ParentLoop))

=============================================================================
