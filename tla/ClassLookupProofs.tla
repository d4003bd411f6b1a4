-------------------------- MODULE ClassLookupProofs -------------------------
(* Proofs about ClassLookup.  For any graph of classes and interfaces, a   *)
(* lookup that finds a member finds an inherited one, and one that finds   *)
(* none has missed none; and when the walk of Implements is over it has    *)
(* said yes exactly for the interfaces of the class.                       *)
(*                                                                         *)
(* What is left to do (todo) and what was visited cover, between them, all *)
(* the edges out of visited classes: when nothing is left, the visited     *)
(* classes are closed under inheritance.  That the nearest member wins is  *)
(* a matter of the order in todo.  That no walk goes on for ever, but      *)
(* for the loop of Implements, is proved at the end.                       *)
EXTENDS ClassLookup, SequenceTheorems, FiniteSetTheorems, WellFoundedInduction, TLAPS

Elems(s) == {s[n] : n \in DOMAIN s}

(* The classes that the walk will still come to.                           *)
Awaited == {d \in Names : \E x \in Elems(todo) : x.k = "enter" /\ d \in x.from}

Sound ==
    query # "implements" =>
        /\ \A x \in Elems(todo) :
              \/ x.k = "enter" /\ x.from \subseteq Reachable
              \/ x.k = "own" /\ x.cls \in Reachable \intersect graph.known
        /\ answer \subseteq Reachable \intersect graph.known \intersect graph.declares

Complete ==
    query # "implements" /\ answer = {} =>
        /\ start \in visited \union Awaited
        /\ \A c \in visited \intersect graph.known :
              /\ Edges(c) \subseteq visited \union Awaited
              /\ c \in graph.declares => Own(c) \in Elems(todo)

-----------------------------------------------------------------------------
LEMMA ElemsConcat ==
    ASSUME NEW s \in Seq(Item), NEW t \in Seq(Item)
    PROVE  s \o t \in Seq(Item) /\ Elems(s \o t) = Elems(s) \union Elems(t)
<1>1. Elems(s \o t) \subseteq Elems(s) \union Elems(t)
  BY DEF Elems
<1>2. Elems(s) \subseteq Elems(s \o t)
  BY DEF Elems
<1>3. ASSUME NEW n \in DOMAIN t PROVE t[n] \in Elems(s \o t)
  <2>1. Len(s) + n \in DOMAIN (s \o t) /\ (s \o t)[Len(s) + n] = t[n]
    OBVIOUS
  <2> QED BY <2>1 DEF Elems
<1> QED BY <1>1, <1>2, <1>3, SMTT(30) DEF Elems

LEMMA ElemsHeadTail ==
    ASSUME NEW s \in Seq(Item), s # <<>>
    PROVE  /\ Elems(s) = {Head(s)} \union Elems(Tail(s))
           /\ Head(s) \in Item /\ Tail(s) \in Seq(Item)
<1>1. ASSUME NEW n \in DOMAIN s PROVE s[n] = Head(s) \/ s[n] \in Elems(Tail(s))
  <2>1. CASE n = 1 BY <2>1
  <2>2. CASE n # 1
    <3>1. n - 1 \in DOMAIN Tail(s) /\ Tail(s)[n - 1] = s[n]
      BY <2>2
    <3> QED BY <3>1 DEF Elems
  <2> QED BY <2>1, <2>2
<1>2. ASSUME NEW n \in DOMAIN Tail(s) PROVE Tail(s)[n] \in Elems(s)
  <2>1. n + 1 \in DOMAIN s /\ s[n + 1] = Tail(s)[n]
    OBVIOUS
  <2> QED BY <2>1 DEF Elems
<1>3. Head(s) \in Elems(s)
  BY DEF Elems
<1>4. Head(s) \in Item /\ Tail(s) \in Seq(Item)
  OBVIOUS
<1>5. Elems(s) \subseteq {Head(s)} \union Elems(Tail(s))
  BY <1>1 DEF Elems
<1>6. Elems(Tail(s)) \subseteq Elems(s)
  BY <1>2 DEF Elems
<1> QED BY <1>3, <1>4, <1>5, <1>6

-----------------------------------------------------------------------------
(* What entering a class adds to the walk, and what is left of the range   *)
(* it was in.                                                              *)

LEMMA GraphType ==
    ASSUME TypeOK
    PROVE  /\ graph \in Graph
           /\ \A c \in Names : /\ graph.traits[c] \subseteq Names
                              /\ graph.parent[c] \subseteq Names
                              /\ graph.ifaces[c] \subseteq Names
                              /\ graph.parentIfaces[c] \in Seq(Names)
           /\ graph.known \subseteq Names
BY ClassLookupAssumption DEF TypeOK, Graph

LEMMA FunctionIsSeq ==
    ASSUME NEW S, NEW n \in Nat, NEW f \in [1..n -> S]
    PROVE  f \in Seq(S)
OBVIOUS

LEMMA EnterEachElems ==
    ASSUME NEW s \in Seq(Names)
    PROVE  /\ EnterEach(s) \in Seq(Item)
           /\ Elems(EnterEach(s)) = {Enter({s[n]}) : n \in DOMAIN s}
<1>1. ASSUME NEW n \in DOMAIN s PROVE Enter({s[n]}) \in Item
  BY DEF Enter, Item
<1>2. DOMAIN s = 1..Len(s) /\ Len(s) \in Nat
  OBVIOUS
<1>3. EnterEach(s) = [n \in 1..Len(s) |-> Enter({s[n]})]
  BY <1>2 DEF EnterEach
<1>4. EnterEach(s) \in Seq(Item)
  <2>1. EnterEach(s) \in [1..Len(s) -> Item]
    BY <1>1, <1>2, <1>3
  <2> QED BY <1>2, <2>1, FunctionIsSeq
<1> QED BY <1>2, <1>3, <1>4 DEF Elems

LEMMA MethodItemsElems ==
    ASSUME TypeOK, NEW c \in Names
    PROVE  /\ MethodItems(graph, c) \in Seq(Item)
           /\ Elems(MethodItems(graph, c)) =
                {Own(c), Enter(graph.traits[c]), Enter(graph.parent[c])}
                \union {Enter({graph.parentIfaces[c][n]}) : n \in DOMAIN graph.parentIfaces[c]}
<1> DEFINE first == <<Own(c), Enter(graph.traits[c])>>
           middle == EnterEach(graph.parentIfaces[c])
           last == <<Enter(graph.parent[c])>>
<1>1. first \in Seq(Item) /\ last \in Seq(Item)
  BY GraphType DEF Own, Enter, Item
<1>2. middle \in Seq(Item)
      /\ Elems(middle) = {Enter({graph.parentIfaces[c][n]}) : n \in DOMAIN graph.parentIfaces[c]}
  BY GraphType, EnterEachElems
<1>3. Elems(first) = {Own(c), Enter(graph.traits[c])} /\ Elems(last) = {Enter(graph.parent[c])}
  BY DEF Elems
<1> HIDE DEF first, middle, last
<1>4. Elems(first \o middle) = Elems(first) \union Elems(middle) /\ first \o middle \in Seq(Item)
  BY <1>1, <1>2, ElemsConcat
<1>5. Elems((first \o middle) \o last) = Elems(first \o middle) \union Elems(last)
      /\ (first \o middle) \o last \in Seq(Item)
  BY <1>1, <1>4, ElemsConcat
<1>6. MethodItems(graph, c) = (first \o middle) \o last
  BY DEF MethodItems, first, middle, last
<1> QED BY <1>2, <1>3, <1>4, <1>5, <1>6

LEMMA ConstantItemsElems ==
    ASSUME TypeOK, NEW c \in Names
    PROVE  /\ ConstantItems(graph, c) \in Seq(Item)
           /\ Elems(ConstantItems(graph, c)) =
                {Own(c), Enter(graph.ifaces[c]), Enter(graph.parent[c])}
                \union {Enter({graph.parentIfaces[c][n]}) : n \in DOMAIN graph.parentIfaces[c]}
<1> DEFINE first == <<Enter(graph.ifaces[c]), Own(c)>>
           middle == EnterEach(graph.parentIfaces[c])
           last == <<Enter(graph.parent[c])>>
<1>1. first \in Seq(Item) /\ last \in Seq(Item)
  BY GraphType DEF Own, Enter, Item
<1>2. middle \in Seq(Item)
      /\ Elems(middle) = {Enter({graph.parentIfaces[c][n]}) : n \in DOMAIN graph.parentIfaces[c]}
  BY GraphType, EnterEachElems
<1>3. Elems(first) = {Own(c), Enter(graph.ifaces[c])} /\ Elems(last) = {Enter(graph.parent[c])}
  BY DEF Elems
<1> HIDE DEF first, middle, last
<1>4. Elems(first \o middle) = Elems(first) \union Elems(middle) /\ first \o middle \in Seq(Item)
  BY <1>1, <1>2, ElemsConcat
<1>5. Elems((first \o middle) \o last) = Elems(first \o middle) \union Elems(last)
      /\ (first \o middle) \o last \in Seq(Item)
  BY <1>1, <1>4, ElemsConcat
<1>6. ConstantItems(graph, c) = (first \o middle) \o last
  BY DEF ConstantItems, first, middle, last
<1> QED BY <1>2, <1>3, <1>4, <1>5, <1>6

LEMMA PropertyItemsElems ==
    ASSUME TypeOK, NEW c \in Names
    PROVE  /\ PropertyItems(graph, c) \in Seq(Item)
           /\ Elems(PropertyItems(graph, c)) =
                {Own(c), Enter(graph.traits[c]), Enter(graph.parent[c])}
<1>1. PropertyItems(graph, c) \in Seq(Item)
  BY GraphType DEF PropertyItems, Own, Enter, Item
<1>2. PropertyItems(graph, c) = <<Own(c), Enter(graph.traits[c]), Enter(graph.parent[c])>>
  BY DEF PropertyItems
<1> QED BY <1>1, <1>2 DEF Elems

LEMMA OwnEnter ==
    ASSUME NEW c \in Names, NEW S \in SUBSET Names
    PROVE  /\ Own(c) \in Item /\ Own(c).k = "own" /\ Own(c).cls = c
           /\ Enter(S) \in Item /\ Enter(S).k = "enter" /\ Enter(S).from = S
BY DEF Own, Enter, Item

LEMMA InterfaceItemsType ==
    ASSUME TypeOK, NEW c \in Names
    PROVE  InterfaceItems(graph, c) \in Seq(Item)
           /\ \A x \in Elems(InterfaceItems(graph, c)) : x.k # "class"
<1> DEFINE s == graph.parentIfaces[c]
           m == 2 * Len(s)
           item(n) == IF n % 2 = 1 THEN Own(s[(n + 1) \div 2]) ELSE Enter({s[(n + 1) \div 2]})
<1>1. s \in Seq(Names) /\ Len(s) \in Nat /\ m \in Nat
  BY GraphType
<1>2. ASSUME NEW n \in 1..m
      PROVE  item(n) \in Item /\ item(n).k # "class"
  <2>1. (n + 1) \div 2 \in 1..Len(s)
    BY <1>1
  <2>2. PICK p \in Names : p = s[(n + 1) \div 2]
    BY <1>1, <2>1
  <2>3. item(n) = Own(p) \/ item(n) = Enter({p})
    BY <2>2
  <2> HIDE DEF item
  <2> QED BY <2>3, OwnEnter
<1>3. InterfaceItems(graph, c) = [n \in 1..m |-> item(n)]
  BY DEF InterfaceItems
<1> HIDE DEF s, m, item
<1>4. InterfaceItems(graph, c) \in [1..m -> Item]
  BY <1>2, <1>3
<1>5. InterfaceItems(graph, c) \in Seq(Item)
  BY <1>1, <1>4, FunctionIsSeq
<1> QED BY <1>2, <1>3, <1>5 DEF Elems

(* The items of a class are in no case those of Implements' loop; of a     *)
(* member's lookup they are the class itself and the edges out of it.      *)
LEMMA ItemsElems ==
    ASSUME TypeOK, NEW c \in Names
    PROVE  /\ Items(c) \in Seq(Item)
           /\ \A x \in Elems(Items(c)) : x.k # "class"
           /\ query # "implements" =>
                /\ Own(c) \in Elems(Items(c))
                /\ \A x \in Elems(Items(c)) : x = Own(c) \/ (x.k = "enter" /\ x.from \subseteq Edges(c))
                /\ \A d \in Edges(c) : \E x \in Elems(Items(c)) : x.k = "enter" /\ d \in x.from
<1> DEFINE pi == {graph.parentIfaces[c][n] : n \in DOMAIN graph.parentIfaces[c]}
<1>1. query \in {"method", "property", "constant", "implements"}
  BY ClassLookupAssumption DEF TypeOK
<1>2. /\ graph.traits[c] \in SUBSET Names /\ graph.parent[c] \in SUBSET Names
      /\ graph.ifaces[c] \in SUBSET Names /\ \A p \in pi : {p} \in SUBSET Names
  BY GraphType
<1>3. Own(c).k = "own" /\ \A S \in SUBSET Names : Enter(S).k = "enter" /\ Enter(S).from = S
  BY OwnEnter
<1>4. CASE query = "property"
  <2>1. Items(c) = PropertyItems(graph, c)
    BY <1>4 DEF Items
  <2>2. Edges(c) = graph.traits[c] \union graph.parent[c]
    BY <1>4 DEF Edges
  <2>3. /\ Items(c) \in Seq(Item)
        /\ Elems(Items(c)) = {Own(c), Enter(graph.traits[c]), Enter(graph.parent[c])}
    BY <2>1, PropertyItemsElems
  <2> HIDE DEF pi
  <2> QED BY <1>2, <1>3, <2>2, <2>3
<1>5. ASSUME NEW T \in SUBSET Names,
             Items(c) \in Seq(Item),
             Elems(Items(c)) = {Own(c), Enter(T), Enter(graph.parent[c])} \union {Enter({p}) : p \in pi},
             Edges(c) = T \union pi \union graph.parent[c]
      PROVE  /\ \A x \in Elems(Items(c)) : x.k # "class"
             /\ Own(c) \in Elems(Items(c))
             /\ \A x \in Elems(Items(c)) : x = Own(c) \/ (x.k = "enter" /\ x.from \subseteq Edges(c))
             /\ \A d \in Edges(c) : \E x \in Elems(Items(c)) : x.k = "enter" /\ d \in x.from
  <2> HIDE DEF pi
  <2>1. ASSUME NEW x \in Elems(Items(c))
        PROVE  x = Own(c) \/ (x.k = "enter" /\ x.from \subseteq Edges(c))
    <3>1. CASE x = Own(c) \/ x = Enter(T) \/ x = Enter(graph.parent[c])
      BY <1>2, <1>3, <1>5, <3>1
    <3>2. CASE \E p \in pi : x = Enter({p})
      BY <1>2, <1>3, <1>5, <3>2
    <3> QED BY <1>5, <3>1, <3>2
  <2>2. ASSUME NEW d \in Edges(c)
        PROVE  \E x \in Elems(Items(c)) : x.k = "enter" /\ d \in x.from
    <3>1. CASE d \in T
      BY <1>3, <1>5, <3>1
    <3>2. CASE d \in graph.parent[c]
      BY <1>2, <1>3, <1>5, <3>2
    <3>3. CASE d \in pi
      BY <1>2, <1>3, <1>5, <3>3
    <3> QED BY <1>5, <3>1, <3>2, <3>3
  <2>3. Own(c) \in Elems(Items(c))
    BY <1>5
  <2> QED BY <1>3, <2>1, <2>2, <2>3
<1>6. {Enter({q}) : q \in pi} = {Enter({graph.parentIfaces[c][n]}) : n \in DOMAIN graph.parentIfaces[c]}
  OBVIOUS
<1>7. CASE query = "method"
  <2>1. Items(c) = MethodItems(graph, c)
    BY <1>7 DEF Items
  <2>2. Edges(c) = graph.traits[c] \union pi \union graph.parent[c]
    BY <1>7 DEF Edges
  <2>3. /\ Items(c) \in Seq(Item)
        /\ Elems(Items(c)) = {Own(c), Enter(graph.traits[c]), Enter(graph.parent[c])}
                             \union {Enter({p}) : p \in pi}
    BY <1>6, <2>1, MethodItemsElems
  <2> HIDE DEF pi
  <2> QED BY <1>2, <1>5, <2>2, <2>3
<1>8. CASE query = "constant"
  <2>1. Items(c) = ConstantItems(graph, c)
    BY <1>8 DEF Items
  <2>2. Edges(c) = graph.ifaces[c] \union pi \union graph.parent[c]
    BY <1>8 DEF Edges
  <2>3. /\ Items(c) \in Seq(Item)
        /\ Elems(Items(c)) = {Own(c), Enter(graph.ifaces[c]), Enter(graph.parent[c])}
                             \union {Enter({p}) : p \in pi}
    BY <1>6, <2>1, ConstantItemsElems
  <2> HIDE DEF pi
  <2> QED BY <1>2, <1>5, <2>2, <2>3
<1>9. CASE query = "implements"
  <2>1. Items(c) = InterfaceItems(graph, c)
    BY <1>9 DEF Items
  <2> QED BY <1>9, <2>1, InterfaceItemsType
<1> QED BY <1>1, <1>4, <1>7, <1>8, <1>9

LEMMA RestElems ==
    ASSUME TypeOK, NEW c \in Names, todo # <<>>, Head(todo).k = "enter", c \in Head(todo).from
    PROVE  /\ Rest(c) \in Seq(Item)
           /\ Elems(Tail(todo)) \subseteq Elems(Rest(c))
           /\ \A x \in Elems(Rest(c)) :
                 x \in Elems(Tail(todo)) \/ (x.k = "enter" /\ x.from \subseteq Head(todo).from)
           /\ \A d \in Head(todo).from \ {c} :
                 \E x \in Elems(Rest(c)) : x.k = "enter" /\ d \in x.from
<1>1. Head(todo) \in Item /\ Tail(todo) \in Seq(Item)
  BY ElemsHeadTail DEF TypeOK
<1>2. CASE Head(todo).from = {c}
  BY <1>1, <1>2 DEF Rest
<1>3. CASE Head(todo).from # {c}
  <2> DEFINE e == Enter(Head(todo).from \ {c})
  <2>1. Head(todo).from \ {c} \in SUBSET Names
    BY <1>1 DEF Item
  <2>2. e \in Item /\ e.k = "enter" /\ e.from = Head(todo).from \ {c}
    BY <2>1, OwnEnter
  <2>3. Rest(c) = <<e>> \o Tail(todo)
    BY <1>3 DEF Rest
  <2> HIDE DEF e
  <2>4. <<e>> \in Seq(Item)
    BY <2>2
  <2>5. Elems(<<e>>) = {e}
    BY DEF Elems
  <2>6. Rest(c) \in Seq(Item) /\ Elems(Rest(c)) = {e} \union Elems(Tail(todo))
    BY <1>1, <2>3, <2>4, <2>5, ElemsConcat
  <2> QED BY <2>2, <2>6
<1> QED BY <1>2, <1>3

-----------------------------------------------------------------------------
(* Where Implements' loop is in the walk.                                  *)

ClassLast(s) == \A n \in DOMAIN s : s[n].k = "class" => query = "implements" /\ n = Len(s)

LEMMA ClassLastTail ==
    ASSUME NEW s \in Seq(Item), s # <<>>, ClassLast(s)
    PROVE  ClassLast(Tail(s))
<1>1. ASSUME NEW n \in DOMAIN Tail(s), Tail(s)[n].k = "class"
      PROVE  query = "implements" /\ n = Len(Tail(s))
  <2>1. n + 1 \in DOMAIN s /\ s[n + 1] = Tail(s)[n] /\ Len(Tail(s)) = Len(s) - 1
    OBVIOUS
  <2> QED BY <1>1, <2>1 DEF ClassLast
<1> QED BY <1>1 DEF ClassLast

LEMMA ClassLastConcat ==
    ASSUME NEW s \in Seq(Item), NEW t \in Seq(Item), ClassLast(t),
           \A x \in Elems(s) : x.k # "class"
    PROVE  ClassLast(s \o t)
<1>1. ASSUME NEW n \in DOMAIN (s \o t), (s \o t)[n].k = "class"
      PROVE  query = "implements" /\ n = Len(s \o t)
  <2>1. n \notin DOMAIN s
    <3> SUFFICES ASSUME n \in DOMAIN s PROVE FALSE
      OBVIOUS
    <3>1. (s \o t)[n] = s[n]
      OBVIOUS
    <3> QED BY <1>1, <3>1 DEF Elems
  <2>2. n - Len(s) \in DOMAIN t /\ (s \o t)[n] = t[n - Len(s)] /\ Len(s \o t) = Len(s) + Len(t)
    BY <2>1
  <2> QED BY <1>1, <2>2, SMTT(30) DEF ClassLast
<1> QED BY <1>1 DEF ClassLast

LEMMA ClassLastRest ==
    ASSUME TypeOK, NEW c \in Names, todo # <<>>, Head(todo).k = "enter", c \in Head(todo).from
    PROVE  ClassLast(Rest(c))
<1>1. todo \in Seq(Item) /\ ClassLast(todo)
  BY DEF TypeOK, ClassLast
<1>2. Head(todo) \in Item /\ Tail(todo) \in Seq(Item) /\ ClassLast(Tail(todo))
  BY <1>1, ElemsHeadTail, ClassLastTail
<1>3. CASE Head(todo).from # {c}
  <2> DEFINE e == Enter(Head(todo).from \ {c})
  <2>1. Head(todo).from \ {c} \in SUBSET Names
    BY <1>2 DEF Item
  <2>2. e \in Item /\ e.k = "enter"
    BY <2>1, OwnEnter
  <2>3. Rest(c) = <<e>> \o Tail(todo)
    BY <1>3 DEF Rest
  <2> HIDE DEF e
  <2>4. <<e>> \in Seq(Item)
    BY <2>2
  <2>5. \A x \in Elems(<<e>>) : x.k # "class"
    BY <2>2 DEF Elems
  <2> QED BY <1>2, <2>3, <2>4, <2>5, ClassLastConcat
<1> QED BY <1>2, <1>3 DEF Rest

LEMMA NoItem ==
    ASSUME NEW s \in Seq(Item), Len(s) = 0
    PROVE  s = <<>>
OBVIOUS

(* A turn of the loop leaves ranges, a hit or the parent, last.            *)
LEMMA ImplementsItemsType ==
    ASSUME TypeOK, NEW c \in Names, query = "implements"
    PROVE  ImplementsItems(c) \in Seq(Item) /\ ClassLast(ImplementsItems(c))
<1>1. graph.ifaces[c] \in SUBSET Names /\ graph.parent[c] \in SUBSET Names
  BY GraphType
<1>2. CASE graph.ifaces[c] \intersect graph.declares # {}
  <2>1. PICK p \in Names : ImplementsItems(c) = <<Own(p)>>
    BY <1>1, <1>2 DEF ImplementsItems
  <2> QED BY <2>1, OwnEnter DEF ClassLast
<1>3. CASE graph.ifaces[c] \intersect graph.declares = {} /\ graph.parent[c] = {}
  <2>1. ImplementsItems(c) = <<Enter(graph.ifaces[c])>>
    BY <1>3, <1>1, OwnEnter DEF ImplementsItems
  <2> QED BY <1>1, <2>1, OwnEnter DEF ClassLast
<1>4. CASE graph.ifaces[c] \intersect graph.declares = {} /\ graph.parent[c] # {}
  <2>1. PICK p \in Names : ImplementsItems(c) = <<Enter(graph.ifaces[c]), Class(p)>>
    BY <1>1, <1>4 DEF ImplementsItems
  <2>2. Class(p) \in Item
    BY DEF Class, Item
  <2> QED BY <1>1, <2>1, <2>2, OwnEnter DEF ClassLast
<1> QED BY <1>2, <1>3, <1>4

(* The walk never leaves the data it is defined on, and Implements' loop   *)
(* is at one class, after all that is left of its last turn.               *)
LEMMA TypeInit == Init => TypeOK
<1> SUFFICES ASSUME Init PROVE TypeOK
  OBVIOUS
<1>1. start \in Names
  BY ClassLookupAssumption DEF Init
<1>2. CASE query = "implements"
  <2>1. todo = <<Class(start)>>
    BY <1>2 DEF Init
  <2>2. Class(start) \in Item
    BY <1>1 DEF Class, Item
  <2> QED BY <1>1, <1>2, <2>1, <2>2 DEF Init, TypeOK
<1>3. CASE query # "implements"
  <2>1. todo = <<Enter({start})>>
    BY <1>3 DEF Init
  <2>2. Enter({start}) \in Item /\ Enter({start}).k = "enter"
    BY <1>1, OwnEnter
  <2> QED BY <1>1, <1>3, <2>1, <2>2 DEF Init, TypeOK
<1> QED BY <1>2, <1>3

LEMMA TypeStep == TypeOK /\ [Next]_vars => TypeOK'
<1> SUFFICES ASSUME TypeOK, [Next]_vars PROVE TypeOK'
  OBVIOUS
<1> USE DEF TypeOK
<1>1. ASSUME NEW c \in Names, Visit(c) PROVE TypeOK'
  <2>1. todo # <<>> /\ Head(todo).k = "enter" /\ c \in Head(todo).from
    BY <1>1 DEF Visit, Walking
  <2>2. Rest(c) \in Seq(Item) /\ ClassLast(Rest(c))
    BY <2>1, RestElems, ClassLastRest
  <2>3. Items(c) \in Seq(Item) /\ \A x \in Elems(Items(c)) : x.k # "class"
    BY ItemsElems
  <2>4. Items(c) \o Rest(c) \in Seq(Item) /\ ClassLast(Items(c) \o Rest(c))
    BY <2>2, <2>3, ElemsConcat, ClassLastConcat
  <2>5. todo' \in Seq(Item) /\ ClassLast(todo')
    BY <1>1, <2>2, <2>4 DEF Visit
  <2> QED BY <1>1, <2>5 DEF Visit, ClassLast
<1>2. CASE EndRange
  <2>1. Tail(todo) \in Seq(Item) /\ ClassLast(Tail(todo))
    BY <1>2, ElemsHeadTail, ClassLastTail DEF EndRange, Walking, ClassLast
  <2> QED BY <1>2, <2>1 DEF EndRange, ClassLast
<1>3. CASE LookUp
  <2>1. Tail(todo) \in Seq(Item) /\ ClassLast(Tail(todo)) /\ Head(todo) \in Item
    BY <1>3, ElemsHeadTail, ClassLastTail DEF LookUp, Walking, ClassLast
  <2>2. todo' \in Seq(Item) /\ ClassLast(todo')
    BY <1>3, <2>1 DEF LookUp, ClassLast
  <2>3. Head(todo).cls \in Names
    BY <1>3, <2>1 DEF LookUp, Item
  <2> QED BY <1>3, <2>2, <2>3 DEF LookUp, ClassLast
<1>4. CASE ImplementsTurn
  <2>1. todo # <<>> /\ Head(todo).k = "class" /\ Head(todo) = todo[1]
    BY <1>4 DEF ImplementsTurn, Walking
  <2>2. query = "implements" /\ Len(todo) = 1
    <3>1. todo \in Seq(Item) /\ ClassLast(todo)
      BY DEF ClassLast
    <3>2. 1 \in DOMAIN todo
      BY <2>1, <3>1
    <3> QED BY <2>1, <3>1, <3>2 DEF ClassLast
  <2>3. Tail(todo) = <<>>
    <3>1. Tail(todo) \in Seq(Item)
      BY <2>1, ElemsHeadTail
    <3>2. Len(Tail(todo)) = 0
      BY <2>1, <2>2
    <3> QED BY <3>1, <3>2, NoItem
  <2>4. Head(todo).cls \in Names
    BY <2>1, ElemsHeadTail DEF Item
  <2>5. ImplementsItems(Head(todo).cls) \in Seq(Item) /\ ClassLast(ImplementsItems(Head(todo).cls))
    BY <2>2, <2>4, ImplementsItemsType
  <2>6. ImplementsItems(Head(todo).cls) \o <<>> = ImplementsItems(Head(todo).cls)
    BY <2>5
  <2>7. todo' \in Seq(Item) /\ ClassLast(todo')
    <3>1. <<>> \in Seq(Item) /\ ClassLast(<<>>)
      BY DEF ClassLast
    <3>2. todo' = ImplementsItems(Head(todo).cls) \/ todo' = <<>>
      BY <1>4, <2>3, <2>6 DEF ImplementsTurn
    <3> QED BY <2>5, <3>1, <3>2
  <2>8. UNCHANGED <<graph, query, start, visited, answer>>
    BY <1>4 DEF ImplementsTurn
  <2> QED BY <2>7, <2>8 DEF ClassLast
<1>5. CASE UNCHANGED vars
  BY <1>5 DEF vars
<1> QED BY <1>1, <1>2, <1>3, <1>4, <1>5 DEF Next

(* Type correctness of the walk, and the place of Implements' loop in it.  *)
THEOREM TypeCorrect == Spec => []TypeOK
BY TypeInit, TypeStep, PTL DEF Spec

-----------------------------------------------------------------------------
(* The classes inherited from are the least closed set with the one asked  *)
(* about.                                                                  *)

LEMMA EdgesType ==
    ASSUME TypeOK, NEW c \in Names
    PROVE  Edges(c) \subseteq Names
BY GraphType DEF Edges

LEMMA ReachableClosed ==
    ASSUME TypeOK
    PROVE  /\ start \in Reachable /\ Reachable \subseteq Names
           /\ \A c \in Reachable \intersect graph.known : Edges(c) \subseteq Reachable
<1>1. start \in Reachable /\ Reachable \subseteq Names
  BY DEF TypeOK, Reachable
<1>2. ASSUME NEW c \in Reachable \intersect graph.known, NEW d \in Edges(c)
      PROVE  d \in Reachable
  <2>1. c \in Names /\ d \in Names
    BY <1>1, <1>2, EdgesType
  <2>2. ASSUME NEW S \in SUBSET Names, start \in S, Closed(S)
        PROVE  d \in S
    <3>1. c \in S
      BY <2>2 DEF Reachable
    <3> QED BY <1>2, <2>2, <3>1 DEF Closed
  <2> QED BY <2>1, <2>2 DEF Reachable
<1> QED BY <1>1, <1>2

LEMMA GraphStays ==
    ASSUME UNCHANGED <<graph, query, start>>
    PROVE  Reachable' = Reachable /\ \A c : Edges(c)' = Edges(c)
<1>1. graph' = graph /\ query' = query /\ start' = start
  OBVIOUS
<1>2. \A c : Edges(c)' = Edges(c)
  BY <1>1 DEF Edges
<1>3. \A S : Closed(S)' = Closed(S)
  BY <1>1 DEF Closed, Edges
<1>4. Reachable' = Reachable
  BY <1>1 DEF Reachable, Closed, Edges
<1> QED BY <1>2, <1>4

-----------------------------------------------------------------------------
(* The walk stays among the classes inherited from.                        *)
LEMMA SoundInit == Init => Sound
<1> SUFFICES ASSUME Init, query # "implements" PROVE Sound
  BY DEF Sound
<1>1. TypeOK
  BY TypeInit
<1>2. todo = <<Enter({start})>> /\ answer = {} /\ start \in Names
  BY <1>1 DEF Init, TypeOK
<1>3. Enter({start}).k = "enter" /\ Enter({start}).from = {start}
  BY <1>2, OwnEnter
<1>4. start \in Reachable
  BY <1>1, ReachableClosed
<1> QED BY <1>2, <1>3, <1>4 DEF Sound, Elems

LEMMA SoundStep == TypeOK /\ Sound /\ [Next]_vars => Sound'
<1> SUFFICES ASSUME TypeOK, Sound, [Next]_vars, query' # "implements" PROVE Sound'
  BY DEF Sound
<1> DEFINE Fine(x) == \/ x.k = "enter" /\ x.from \subseteq Reachable
                      \/ x.k = "own" /\ x.cls \in Reachable \intersect graph.known
           Found == Reachable \intersect graph.known \intersect graph.declares
<1>1. UNCHANGED <<graph, query, start>>
  BY DEF Next, vars, Visit, EndRange, LookUp, ImplementsTurn
<1>2. Reachable' = Reachable /\ graph' = graph /\ query # "implements"
  BY <1>1, GraphStays
<1>3. (\A x \in Elems(todo) : Fine(x)) /\ answer \subseteq Found
  BY <1>2 DEF Sound
<1>4. SUFFICES (\A x \in Elems(todo') : Fine(x)) /\ answer' \subseteq Found
  BY <1>2 DEF Sound, Elems
<1> HIDE DEF Found
<1>5. ASSUME todo # <<>>
      PROVE  /\ \A x \in Elems(Tail(todo)) : Fine(x)
             /\ Fine(Head(todo))
  BY <1>3, <1>5, ElemsHeadTail DEF TypeOK
<1>6. ASSUME NEW c \in Names, Visit(c)
      PROVE  (\A x \in Elems(todo') : Fine(x)) /\ answer' \subseteq Found
  <2>1. todo # <<>> /\ Head(todo).k = "enter" /\ c \in Head(todo).from /\ answer' = answer
    BY <1>6 DEF Visit, Walking
  <2>2. Head(todo).from \subseteq Reachable
    BY <1>5, <2>1
  <2>3. \A x \in Elems(Rest(c)) : Fine(x)
    BY <1>5, <2>1, <2>2, RestElems
  <2>4. CASE todo' = Rest(c)
    BY <1>3, <2>1, <2>3, <2>4
  <2>5. CASE todo' = Items(c) \o Rest(c) /\ c \in graph.known
    <3>1. Elems(todo') = Elems(Items(c)) \union Elems(Rest(c))
      BY <2>1, <2>5, ItemsElems, RestElems, ElemsConcat
    <3>2. c \in Reachable \intersect graph.known /\ Edges(c) \subseteq Reachable
      BY <2>1, <2>2, <2>5, ReachableClosed
    <3>3. Fine(Own(c))
      BY <3>2, OwnEnter
    <3>4. \A x \in Elems(Items(c)) : Fine(x)
      BY <1>2, <3>2, <3>3, ItemsElems
    <3> HIDE DEF Fine
    <3> QED BY <1>3, <2>1, <2>3, <3>1, <3>4
  <2> QED BY <1>6, <2>4, <2>5 DEF Visit
<1>7. CASE EndRange
  BY <1>3, <1>5, <1>7 DEF EndRange, Walking
<1>8. CASE LookUp
  <2>1. todo # <<>> /\ Head(todo).k = "own"
    BY <1>8 DEF LookUp, Walking
  <2>2. Head(todo).cls \in Reachable \intersect graph.known
    BY <1>5, <2>1
  <2>3. todo' \in {todo, Tail(todo)} /\ answer' \subseteq answer \union Found
    BY <1>8, <2>2 DEF LookUp, Found
  <2> QED BY <1>3, <1>5, <2>1, <2>3
<1>9. CASE ImplementsTurn
  BY <1>5, <1>9 DEF ImplementsTurn, Walking
<1>10. CASE UNCHANGED vars
  BY <1>3, <1>10 DEF vars
<1> QED BY <1>6, <1>7, <1>8, <1>9, <1>10 DEF Next

(* For every graph of classes, interfaces and traits, loops and missing    *)
(* ones included: the class that FindMethod, FindProperty or FindConstant  *)
(* names declares the member and is one that the class asked about         *)
(* inherits from.                                                          *)
THEOREM FoundInherited == Spec => []FoundIsInherited
<1>1. Init => TypeOK /\ Sound
  BY TypeInit, SoundInit
<1>2. TypeOK /\ Sound /\ [Next]_vars => TypeOK' /\ Sound'
  BY TypeStep, SoundStep
<1>3. Sound => FoundIsInherited
  BY DEF Sound, FoundIsInherited
<1> QED BY <1>1, <1>2, <1>3, PTL DEF Spec

-----------------------------------------------------------------------------
(* Nothing is forgotten on the way.                                        *)
LEMMA CompleteInit == Init => Complete
<1> SUFFICES ASSUME Init, query # "implements" PROVE Complete
  BY DEF Complete
<1>1. todo = <<Enter({start})>> /\ visited = {} /\ start \in Names
  BY TypeInit DEF Init, TypeOK
<1>2. Enter({start}).k = "enter" /\ Enter({start}).from = {start}
  BY <1>1, OwnEnter
<1>3. start \in Awaited
  BY <1>1, <1>2 DEF Awaited, Elems
<1> QED BY <1>1, <1>3 DEF Complete

LEMMA CompleteStep == TypeOK /\ Sound /\ Complete /\ [Next]_vars => Complete'
<1> SUFFICES ASSUME TypeOK, Sound, Complete, [Next]_vars,
                    query' # "implements", answer' = {}
             PROVE  Complete'
  BY DEF Complete
<1>1. UNCHANGED <<graph, query, start>>
  BY DEF Next, vars, Visit, EndRange, LookUp, ImplementsTurn
<1>2. /\ graph' = graph /\ start' = start /\ query # "implements"
      /\ \A c : Edges(c)' = Edges(c)
  BY <1>1, GraphStays
<1>3. answer = {}
  BY DEF Next, vars, Visit, EndRange, LookUp, ImplementsTurn, Walking
<1>4. /\ start \in visited \union Awaited
      /\ \A c \in visited \intersect graph.known :
            /\ Edges(c) \subseteq visited \union Awaited
            /\ c \in graph.declares => Own(c) \in Elems(todo)
  BY <1>2, <1>3 DEF Complete
<1>5. SUFFICES /\ start \in visited' \union Awaited'
               /\ \A c \in visited' \intersect graph.known :
                     /\ Edges(c) \subseteq visited' \union Awaited'
                     /\ c \in graph.declares => Own(c) \in Elems(todo')
  BY <1>2 DEF Complete, Elems
<1>6. visited \subseteq Names /\ graph.known \subseteq Names
  BY GraphType DEF TypeOK
<1>7. \A c \in Names : Own(c).k = "own" /\ Own(c).cls = c
  BY OwnEnter
<1>8. ASSUME NEW c \in Names, Visit(c)
      PROVE  /\ start \in visited' \union Awaited'
             /\ \A d \in visited' \intersect graph.known :
                   /\ Edges(d) \subseteq visited' \union Awaited'
                   /\ d \in graph.declares => Own(d) \in Elems(todo')
  <2>1. /\ todo # <<>> /\ Head(todo).k = "enter" /\ c \in Head(todo).from
        /\ visited' = visited \union {c}
    BY <1>8 DEF Visit, Walking
  <2>2. Elems(Rest(c)) \subseteq Elems(todo') /\ Elems(Tail(todo)) \subseteq Elems(Rest(c))
    BY <1>8, <2>1, RestElems, ItemsElems, ElemsConcat DEF Visit
  <2>3. Elems(todo) = {Head(todo)} \union Elems(Tail(todo))
    BY <2>1, ElemsHeadTail DEF TypeOK
  <2>4. visited \union Awaited \subseteq visited' \union Awaited'
    <3> SUFFICES ASSUME NEW d \in Awaited, d # c PROVE d \in Awaited'
      BY <2>1
    <3>1. PICK x \in Elems(todo) : x.k = "enter" /\ d \in x.from
      BY DEF Awaited
    <3>2. \E y \in Elems(Rest(c)) : y.k = "enter" /\ d \in y.from
      <4>1. CASE x = Head(todo)
        BY <2>1, <3>1, <4>1, RestElems
      <4>2. CASE x \in Elems(Tail(todo))
        BY <2>2, <3>1, <4>2
      <4> QED BY <2>3, <4>1, <4>2
    <3>3. \E y \in Elems(todo') : y.k = "enter" /\ d \in y.from
      BY <2>2, <3>2
    <3>4. d \in Names
      BY DEF Awaited
    <3> QED BY <3>3, <3>4 DEF Awaited, Elems
  <2>5. ASSUME NEW d \in visited \intersect graph.known
        PROVE  /\ Edges(d) \subseteq visited' \union Awaited'
               /\ d \in graph.declares => Own(d) \in Elems(todo')
    <3>1. Own(d) # Head(todo)
      BY <1>6, <1>7, <2>1
    <3> QED BY <1>4, <2>2, <2>3, <2>4, <3>1
  <2>6. ASSUME c \in graph.known, c \notin visited
        PROVE  /\ Edges(c) \subseteq visited' \union Awaited'
               /\ Own(c) \in Elems(todo')
    <3>1. todo' = Items(c) \o Rest(c)
      BY <1>8, <2>6 DEF Visit
    <3>2. Elems(Items(c)) \subseteq Elems(todo')
      BY <2>1, <3>1, ItemsElems, RestElems, ElemsConcat
    <3>3. Own(c) \in Elems(todo')
      BY <1>2, <3>2, ItemsElems
    <3>4. ASSUME NEW d \in Edges(c) PROVE d \in Awaited'
      <4>1. \E x \in Elems(todo') : x.k = "enter" /\ d \in x.from
        BY <1>2, <3>2, ItemsElems
      <4>2. d \in Names
        BY EdgesType
      <4> QED BY <4>1, <4>2 DEF Awaited, Elems
    <3> QED BY <3>3, <3>4
  <2> QED BY <1>4, <2>1, <2>4, <2>5, <2>6
<1>9. ASSUME todo # <<>>, visited' = visited, todo' = Tail(todo),
             Head(todo).k = "enter" => Head(todo).from = {},
             Head(todo).k = "own" => Head(todo).cls \notin graph.declares
      PROVE  /\ start \in visited' \union Awaited'
             /\ \A d \in visited' \intersect graph.known :
                   /\ Edges(d) \subseteq visited' \union Awaited'
                   /\ d \in graph.declares => Own(d) \in Elems(todo')
  <2>1. Elems(todo) = {Head(todo)} \union Elems(todo')
    BY <1>9, ElemsHeadTail DEF TypeOK
  <2>2. Awaited \subseteq Awaited'
    BY <1>9, <2>1 DEF Awaited, Elems
  <2>3. ASSUME NEW d \in Names, d \in graph.declares PROVE Own(d) # Head(todo)
    BY <1>7, <1>9, <2>3
  <2> QED BY <1>4, <1>6, <1>9, <2>1, <2>2, <2>3
<1>10. CASE EndRange
  BY <1>9, <1>10 DEF EndRange, Walking
<1>11. CASE LookUp
  BY <1>9, <1>11 DEF LookUp, Walking
<1>12. CASE ImplementsTurn
  <2>1. todo # <<>> /\ Head(todo).k = "class"
    BY <1>12 DEF ImplementsTurn, Walking
  <2>2. Head(todo) \in Elems(todo)
    BY <2>1, ElemsHeadTail DEF TypeOK
  <2> QED BY <1>2, <2>1, <2>2 DEF Sound
<1>13. CASE UNCHANGED vars
  BY <1>4, <1>13 DEF vars, Awaited, Elems
<1> QED BY <1>8, <1>10, <1>11, <1>12, <1>13 DEF Next

(* When the walk is over without a hit the visited classes are closed, so  *)
(* all the classes inherited from are among them, and each that declared   *)
(* the member would still be to be looked at.                              *)
LEMMA CompleteAtEnd == TypeOK /\ Complete => NotFoundMeansNowhere
<1> SUFFICES ASSUME TypeOK, Complete, query # "implements", answer = {}, todo = <<>>,
                    NEW c \in Reachable \intersect graph.known \intersect graph.declares
             PROVE  FALSE
  BY DEF NotFoundMeansNowhere
<1>1. Elems(todo) = {} /\ Awaited = {}
  BY DEF Awaited, Elems
<1>2. start \in visited /\ Closed(visited) /\ visited \in SUBSET Names
  BY <1>1 DEF Complete, Closed, TypeOK
<1>3. c \in visited
  BY <1>2 DEF Reachable
<1> QED BY <1>1, <1>3 DEF Complete

(* For every graph of classes, interfaces and traits: when FindMethod,     *)
(* FindProperty or FindConstant finds nothing, though it enters no class   *)
(* twice, there is nothing to be found.                                    *)
THEOREM NothingMissed == Spec => []NotFoundMeansNowhere
<1>1. Init => TypeOK /\ Sound /\ Complete
  BY TypeInit, SoundInit, CompleteInit
<1>2. TypeOK /\ Sound /\ Complete /\ [Next]_vars => TypeOK' /\ Sound' /\ Complete'
  BY TypeStep, SoundStep, CompleteStep
<1>3. TypeOK /\ Complete => NotFoundMeansNowhere
  BY CompleteAtEnd
<1> QED BY <1>1, <1>2, <1>3, PTL DEF Spec

-----------------------------------------------------------------------------
(* Implements: the interfaces of a class.                                  *)

(* What an interface extends.                                              *)
Extended(c) == {graph.parentIfaces[c][n] : n \in DOMAIN graph.parentIfaces[c]}

-----------------------------------------------------------------------------
(* Ancestors and interfaces are least closed sets.                         *)

LEMMA AncestorsClosedOf ==
    ASSUME TypeOK, NEW y \in Names
    PROVE  /\ y \in Ancestors(y) /\ Ancestors(y) \subseteq Names
           /\ \A c \in Ancestors(y) \intersect graph.known : graph.parent[c] \subseteq Ancestors(y)
<1>1. y \in Ancestors(y) /\ Ancestors(y) \subseteq Names
  BY DEF Ancestors, Least
<1>2. ASSUME NEW c \in Ancestors(y) \intersect graph.known, NEW d \in graph.parent[c]
      PROVE  d \in Ancestors(y)
  <2>1. c \in Names /\ d \in Names
    BY <1>1, <1>2, GraphType
  <2>2. ASSUME NEW S \in SUBSET Names, {y} \subseteq S,
               \A e \in S \intersect graph.known : graph.parent[e] \subseteq S
        PROVE  d \in S
    <3>1. c \in S
      BY <2>2 DEF Ancestors, Least
    <3> QED BY <1>2, <2>2, <3>1
  <2> QED BY <2>1, <2>2 DEF Ancestors, Least
<1> QED BY <1>1, <1>2

LEMMA AncestorsClosed ==
    ASSUME TypeOK
    PROVE  /\ start \in Ancestors(start) /\ Ancestors(start) \subseteq Names
           /\ \A c \in Ancestors(start) \intersect graph.known : graph.parent[c] \subseteq Ancestors(start)
BY AncestorsClosedOf DEF TypeOK

LEMMA AncestorsLeast ==
    ASSUME NEW S \in SUBSET Names, start \in S,
           \A c \in S \intersect graph.known : graph.parent[c] \subseteq S
    PROVE  Ancestors(start) \subseteq S
BY DEF Ancestors, Least

LEMMA InterfacesClosed ==
    ASSUME TypeOK
    PROVE  /\ InterfacesOf(start) \subseteq Names
           /\ \A c \in Ancestors(start) \intersect graph.known : graph.ifaces[c] \subseteq InterfacesOf(start)
           /\ \A c \in InterfacesOf(start) \intersect graph.known : Extended(c) \subseteq InterfacesOf(start)
<1> DEFINE named == UNION {graph.ifaces[a] : a \in Ancestors(start) \intersect graph.known}
<1>1. InterfacesOf(start) =
        {c \in Names : \A S \in SUBSET Names :
            named \subseteq S /\ (\A d \in S \intersect graph.known : Extended(d) \subseteq S) => c \in S}
  BY DEF InterfacesOf, Least, Extended
<1>2. ASSUME NEW c \in Ancestors(start) \intersect graph.known, NEW d \in graph.ifaces[c]
      PROVE  d \in InterfacesOf(start)
  <2>1. d \in Names /\ d \in named
    BY <1>2, AncestorsClosed, GraphType
  <2> HIDE DEF named
  <2> QED BY <1>1, <2>1
<1> HIDE DEF named
<1>3. ASSUME NEW c \in InterfacesOf(start) \intersect graph.known, NEW d \in Extended(c)
      PROVE  d \in InterfacesOf(start)
  <2>1. c \in Names /\ d \in Names
    BY <1>1, <1>3, GraphType DEF Extended
  <2>2. ASSUME NEW S \in SUBSET Names, named \subseteq S,
               \A e \in S \intersect graph.known : Extended(e) \subseteq S
        PROVE  d \in S
    <3>1. c \in S
      BY <1>1, <1>3, <2>2
    <3> QED BY <1>3, <2>2, <3>1
  <2> QED BY <1>1, <2>1, <2>2
<1> QED BY <1>1, <1>2, <1>3

LEMMA InterfacesLeast ==
    ASSUME NEW S \in SUBSET Names,
           \A c \in Ancestors(start) \intersect graph.known : graph.ifaces[c] \subseteq S,
           \A c \in S \intersect graph.known : Extended(c) \subseteq S
    PROVE  InterfacesOf(start) \subseteq S
<1> DEFINE named == UNION {graph.ifaces[a] : a \in Ancestors(start) \intersect graph.known}
<1>1. InterfacesOf(start) =
        {c \in Names : \A T \in SUBSET Names :
            named \subseteq T /\ (\A d \in T \intersect graph.known : Extended(d) \subseteq T) => c \in T}
  BY DEF InterfacesOf, Least, Extended
<1>2. named \subseteq S
  OBVIOUS
<1> HIDE DEF named
<1> QED BY <1>1, <1>2

LEMMA StructureStays ==
    ASSUME UNCHANGED <<graph, query, start>>
    PROVE  /\ Ancestors(start)' = Ancestors(start)
           /\ InterfacesOf(start)' = InterfacesOf(start)
           /\ \A c : Extended(c)' = Extended(c)
BY DEF Ancestors, InterfacesOf, Least, Extended

-----------------------------------------------------------------------------
(* The items of a walk of Implements.                                      *)

LEMMA InterfaceItemsElems ==
    ASSUME TypeOK, NEW c \in Names
    PROVE  /\ InterfaceItems(graph, c) \in Seq(Item)
           /\ \A x \in Elems(InterfaceItems(graph, c)) :
                 \E p \in Extended(c) : x = Own(p) \/ x = Enter({p})
           /\ \A p \in Extended(c) :
                 Own(p) \in Elems(InterfaceItems(graph, c)) /\ Enter({p}) \in Elems(InterfaceItems(graph, c))
<1> DEFINE s == graph.parentIfaces[c]
           m == 2 * Len(s)
           item(n) == IF n % 2 = 1 THEN Own(s[(n + 1) \div 2]) ELSE Enter({s[(n + 1) \div 2]})
           items == InterfaceItems(graph, c)
<1>1. s \in Seq(Names) /\ Len(s) \in Nat /\ m \in Nat /\ DOMAIN s = 1..Len(s)
  BY GraphType
<1>2. items = [n \in 1..m |-> item(n)]
  BY DEF InterfaceItems
<1>3. Elems(items) = {item(n) : n \in 1..m}
  <2>1. DOMAIN items = 1..m /\ \A n \in 1..m : items[n] = item(n)
    BY <1>2, Zenon
  <2> HIDE DEF items, item, m
  <2> QED BY <2>1 DEF Elems
<1>4. Extended(c) = {s[n] : n \in 1..Len(s)}
  BY <1>1 DEF Extended
<1>5. ASSUME NEW n \in 1..m PROVE \E p \in Extended(c) : item(n) = Own(p) \/ item(n) = Enter({p})
  <2>1. (n + 1) \div 2 \in 1..Len(s)
    BY <1>1
  <2>2. s[(n + 1) \div 2] \in Extended(c)
    BY <1>4, <2>1
  <2> QED BY <2>2
<1>6. ASSUME NEW n \in 1..Len(s)
      PROVE  Own(s[n]) \in {item(k) : k \in 1..m} /\ Enter({s[n]}) \in {item(k) : k \in 1..m}
  <2>1. 2 * n - 1 \in 1..m /\ 2 * n \in 1..m
    BY <1>1
  <2>2. (2 * n - 1) % 2 = 1 /\ ((2 * n - 1) + 1) \div 2 = n
    BY <1>1
  <2>3. (2 * n) % 2 # 1 /\ (2 * n + 1) \div 2 = n
    BY <1>1
  <2>4. item(2 * n - 1) = Own(s[n])
    BY <2>2
  <2>5. item(2 * n) = Enter({s[n]})
    BY <2>3
  <2> HIDE DEF item, m
  <2> QED BY <2>1, <2>4, <2>5
<1> HIDE DEF s, m, item, items
<1>7. items \in Seq(Item)
  BY InterfaceItemsType DEF items
<1>8. \A x \in Elems(items) : \E p \in Extended(c) : x = Own(p) \/ x = Enter({p})
  BY <1>3, <1>5
<1>9. \A p \in Extended(c) : Own(p) \in Elems(items) /\ Enter({p}) \in Elems(items)
  BY <1>3, <1>4, <1>6
<1> QED BY <1>7, <1>8, <1>9 DEF items

(* Implements' loop has come to the last item left, and only to that.      *)
LEMMA TurnIsLast ==
    ASSUME TypeOK, ImplementsTurn
    PROVE  /\ query = "implements" /\ Tail(todo) = <<>>
           /\ Head(todo).k = "class" /\ Head(todo).cls \in Names
           /\ Elems(todo) = {Head(todo)}
<1> USE DEF TypeOK
<1>1. todo # <<>> /\ Head(todo).k = "class" /\ Head(todo) = todo[1]
  BY DEF ImplementsTurn, Walking
<1>2. todo \in Seq(Item) /\ 1 \in DOMAIN todo
  BY <1>1
<1>3. query = "implements" /\ Len(todo) = 1
  BY <1>1, <1>2
<1>4. Tail(todo) \in Seq(Item) /\ Len(Tail(todo)) = 0
  BY <1>1, <1>2, <1>3
<1>5. Tail(todo) = <<>>
  BY <1>4, NoItem
<1>6. Head(todo).cls \in Names
  BY <1>1, ElemsHeadTail DEF Item
<1>7. Elems(todo) = {Head(todo)}
  BY <1>1, <1>5, ElemsHeadTail DEF Elems
<1> QED BY <1>1, <1>3, <1>5, <1>6, <1>7

LEMMA ClassItem ==
    ASSUME NEW c \in Names
    PROVE  Class(c) \in Item /\ Class(c).k = "class" /\ Class(c).cls = c
BY DEF Class, Item

(* What a turn of the loop leaves.                                         *)
LEMMA TurnElems ==
    ASSUME TypeOK, ImplementsTurn, NEW c \in Names, c = Head(todo).cls
    PROVE  \/ c \notin graph.known /\ Elems(todo') = {}
           \/ /\ c \in graph.known
              /\ \E p \in graph.ifaces[c] \intersect graph.declares : Elems(todo') = {Own(p)}
           \/ /\ c \in graph.known /\ graph.ifaces[c] \intersect graph.declares = {}
              /\ graph.parent[c] = {} /\ Elems(todo') = {Enter(graph.ifaces[c])}
           \/ /\ c \in graph.known /\ graph.ifaces[c] \intersect graph.declares = {}
              /\ \E p \in Names : /\ graph.parent[c] = {p}
                                  /\ Elems(todo') = {Enter(graph.ifaces[c]), Class(p)}
<1>1. Tail(todo) = <<>> /\ query = "implements"
  BY TurnIsLast
<1>2. CASE c \notin graph.known
  <2>1. todo' = <<>>
    BY <1>1, <1>2 DEF ImplementsTurn
  <2> QED BY <1>2, <2>1 DEF Elems
<1>3. CASE c \in graph.known
  <2>1. ImplementsItems(c) \in Seq(Item)
    BY <1>1, ImplementsItemsType
  <2>2. todo' = ImplementsItems(c)
    <3>1. todo' = ImplementsItems(c) \o <<>>
      BY <1>1, <1>3 DEF ImplementsTurn
    <3> QED BY <2>1, <3>1
  <2>3. CASE graph.ifaces[c] \intersect graph.declares # {}
    <3>1. PICK p \in graph.ifaces[c] \intersect graph.declares : todo' = <<Own(p)>>
      BY <2>2, <2>3 DEF ImplementsItems
    <3>2. Elems(todo') = {Own(p)}
      BY <3>1 DEF Elems
    <3> QED BY <1>3, <3>2
  <2>4. CASE graph.ifaces[c] \intersect graph.declares = {} /\ graph.parent[c] = {}
    <3>1. todo' = <<Enter(graph.ifaces[c])>>
      BY <2>2, <2>4 DEF ImplementsItems
    <3>2. Elems(todo') = {Enter(graph.ifaces[c])}
      BY <3>1 DEF Elems
    <3> QED BY <1>3, <2>4, <3>2
  <2>5. CASE graph.ifaces[c] \intersect graph.declares = {} /\ graph.parent[c] # {}
    <3>1. PICK p \in graph.parent[c] : todo' = <<Enter(graph.ifaces[c]), Class(p)>>
      BY <2>2, <2>5 DEF ImplementsItems
    <3>2. graph.parent[c] = {p} /\ p \in Names
      BY <3>1, GraphType, ClassLookupAssumption DEF TypeOK
    <3>3. Elems(todo') = {Enter(graph.ifaces[c]), Class(p)}
      BY <3>1 DEF Elems
    <3> QED BY <1>3, <2>5, <3>2, <3>3
  <2> QED BY <2>3, <2>4, <2>5
<1> QED BY <1>2, <1>3

-----------------------------------------------------------------------------
(* The walk stays among the ancestors of the class and the interfaces they *)
(* have; the interface asked about is one.                                 *)

InPlace(x) ==
    \/ x.k = "enter" /\ x.from \subseteq InterfacesOf(start)
    \/ x.k = "own" /\ x.cls \in InterfacesOf(start)
    \/ x.k = "class" /\ x.cls \in Ancestors(start)

ImplementsSound ==
    query = "implements" =>
        /\ \A x \in Elems(todo) : InPlace(x)
        /\ answer \subseteq InterfacesOf(start) \intersect graph.declares
        /\ \E i \in Names : graph.declares = {i}

LEMMA ImplementsSoundInit == Init => ImplementsSound
<1> SUFFICES ASSUME Init, query = "implements" PROVE ImplementsSound
  BY DEF ImplementsSound
<1>1. TypeOK /\ start \in Ancestors(start) /\ start \in Names
  BY TypeInit, AncestorsClosed DEF TypeOK
<1>2. todo = <<Class(start)>> /\ answer = {} /\ \E i \in Names : graph.declares = {i}
  BY DEF Init
<1>3. InPlace(Class(start))
  BY <1>1, ClassItem DEF InPlace
<1> QED BY <1>2, <1>3 DEF ImplementsSound, Elems

LEMMA ImplementsSoundStep == TypeOK /\ ImplementsSound /\ [Next]_vars => ImplementsSound'
<1> SUFFICES ASSUME TypeOK, ImplementsSound, [Next]_vars, query' = "implements"
             PROVE  ImplementsSound'
  BY DEF ImplementsSound
<1> DEFINE Found == InterfacesOf(start) \intersect graph.declares
<1>1. UNCHANGED <<graph, query, start>>
  BY DEF Next, vars, Visit, EndRange, LookUp, ImplementsTurn
<1>2. query = "implements" /\ (\A x \in Elems(todo) : InPlace(x)) /\ answer \subseteq Found
  BY <1>1 DEF ImplementsSound
<1>3. \A x : InPlace(x)' <=> InPlace(x)
  BY <1>1, StructureStays DEF InPlace
<1>4. SUFFICES (\A x \in Elems(todo') : InPlace(x)) /\ answer' \subseteq Found
  <2>1. Elems(todo)' = Elems(todo')
    BY DEF Elems
  <2> QED BY <1>1, <1>2, <1>3, <2>1, StructureStays DEF ImplementsSound
<1> HIDE DEF Found
<1>5. ASSUME todo # <<>>
      PROVE  InPlace(Head(todo)) /\ \A x \in Elems(Tail(todo)) : InPlace(x)
  BY <1>2, <1>5, ElemsHeadTail DEF TypeOK
<1>6. ASSUME NEW c \in Names, Visit(c)
      PROVE  (\A x \in Elems(todo') : InPlace(x)) /\ answer' \subseteq Found
  <2>1. todo # <<>> /\ Head(todo).k = "enter" /\ c \in Head(todo).from /\ answer' = answer
    BY <1>6 DEF Visit, Walking
  <2>2. Head(todo).from \subseteq InterfacesOf(start)
    BY <1>5, <2>1 DEF InPlace
  <2>3. \A x \in Elems(Rest(c)) : InPlace(x)
    BY <1>5, <2>1, <2>2, RestElems DEF InPlace
  <2>4. CASE todo' = Rest(c)
    BY <1>2, <2>1, <2>3, <2>4
  <2>5. CASE todo' = Items(c) \o Rest(c) /\ c \in graph.known
    <3>1. Items(c) = InterfaceItems(graph, c)
      BY <1>2 DEF Items
    <3>2. Elems(todo') = Elems(InterfaceItems(graph, c)) \union Elems(Rest(c))
      BY <2>1, <2>5, <3>1, InterfaceItemsElems, RestElems, ElemsConcat
    <3>3. Extended(c) \subseteq InterfacesOf(start) /\ Extended(c) \subseteq Names
      BY <2>1, <2>2, <2>5, InterfacesClosed
    <3>4. \A p \in Extended(c) : InPlace(Own(p)) /\ InPlace(Enter({p}))
      <4> TAKE p \in Extended(c)
      <4>1. p \in Names /\ {p} \in SUBSET Names /\ p \in InterfacesOf(start)
        BY <3>3
      <4> QED BY <4>1, OwnEnter DEF InPlace
    <3>5. \A x \in Elems(InterfaceItems(graph, c)) : InPlace(x)
      BY <3>4, InterfaceItemsElems
    <3> QED BY <1>2, <2>1, <2>3, <3>2, <3>5
  <2> QED BY <1>6, <2>4, <2>5 DEF Visit
<1>7. CASE EndRange
  BY <1>2, <1>5, <1>7 DEF EndRange, Walking
<1>8. CASE LookUp
  <2>1. todo # <<>> /\ Head(todo).k = "own"
    BY <1>8 DEF LookUp, Walking
  <2>2. Head(todo).cls \in InterfacesOf(start)
    BY <1>5, <2>1 DEF InPlace
  <2>3. todo' \in {todo, Tail(todo)} /\ answer' \subseteq answer \union Found
    BY <1>8, <2>2 DEF LookUp, Found
  <2> QED BY <1>2, <1>5, <2>1, <2>3
<1>9. CASE ImplementsTurn
  <2> DEFINE c == Head(todo).cls
  <2>1. c \in Names /\ todo # <<>> /\ Head(todo).k = "class" /\ answer' = answer
    BY <1>9, TurnIsLast DEF ImplementsTurn, Walking
  <2>2. c \in Ancestors(start)
    BY <1>5, <2>1 DEF InPlace
  <2> HIDE DEF c
  <2>3. c \in graph.known =>
          /\ graph.ifaces[c] \subseteq InterfacesOf(start) /\ graph.ifaces[c] \in SUBSET Names
          /\ graph.parent[c] \subseteq Ancestors(start)
    BY <2>1, <2>2, AncestorsClosed, InterfacesClosed, GraphType
  <2>4. c \in graph.known => InPlace(Enter(graph.ifaces[c]))
    BY <2>3 DEF InPlace, Enter
  <2>5. ASSUME c \in graph.known, NEW p \in graph.ifaces[c] PROVE InPlace(Own(p))
    <3>1. p \in Names /\ p \in InterfacesOf(start)
      BY <2>3, <2>5
    <3>2. Own(p).k = "own" /\ Own(p).cls = p
      BY <3>1, OwnEnter
    <3> QED BY <3>1, <3>2 DEF InPlace
  <2>6. c \in graph.known => \A p \in Names : graph.parent[c] = {p} => InPlace(Class(p))
    BY <2>3, ClassItem DEF InPlace
  <2>7. \A x \in Elems(todo') : InPlace(x)
    BY <1>9, <2>1, <2>4, <2>5, <2>6, TurnElems DEF c
  <2> QED BY <1>2, <2>1, <2>7
<1>10. CASE UNCHANGED vars
  BY <1>2, <1>10 DEF vars
<1> QED BY <1>6, <1>7, <1>8, <1>9, <1>10 DEF Next

-----------------------------------------------------------------------------
(* Nothing is forgotten: there is a set of classes the loop has come past, *)
(* whose parents and interfaces are among what was visited or is awaited,  *)
(* or the loop has found what it looks for and says so in a moment.        *)

Pending == {c \in Names : \E x \in Elems(todo) : x.k = "class" /\ x.cls = c}

Past(T) ==
    /\ start \in T \union Pending
    /\ \A c \in T \intersect graph.known :
          /\ graph.parent[c] \subseteq T \union Pending
          /\ graph.ifaces[c] \subseteq visited \union Awaited
          /\ graph.ifaces[c] \intersect graph.declares = {}

Entered ==
    \A c \in visited \intersect graph.known :
        /\ Extended(c) \subseteq visited \union Awaited
        /\ \A d \in Extended(c) \intersect graph.declares : Own(d) \in Elems(todo)

HitComing == \E x \in Elems(todo) : x.k = "own" /\ x.cls \in graph.declares

ImplementsComplete ==
    query = "implements" /\ answer = {} =>
        HitComing \/ (Entered /\ \E T \in SUBSET Names : Past(T))

LEMMA ImplementsCompleteInit == Init => ImplementsComplete
<1> SUFFICES ASSUME Init, query = "implements" PROVE ImplementsComplete
  BY DEF ImplementsComplete
<1>1. todo = <<Class(start)>> /\ visited = {} /\ start \in Names
  BY TypeInit DEF Init, TypeOK
<1>2. start \in Pending
  BY <1>1, ClassItem DEF Pending, Elems
<1>3. Past({}) /\ Entered
  BY <1>1, <1>2 DEF Past, Entered
<1> QED BY <1>3 DEF ImplementsComplete

(* A step keeps the items but the first, and so what they promise.         *)
LEMMA PromisesStay ==
    ASSUME TypeOK, todo # <<>>, Elems(Tail(todo)) \subseteq Elems(todo')
    PROVE  /\ Head(todo).k # "class" => Pending \subseteq Pending'
           /\ Head(todo).k # "enter" \/ Head(todo).from = {} => Awaited \subseteq Awaited'
           /\ HitComing /\ ~(Head(todo).k = "own" /\ Head(todo).cls \in graph.declares)
              /\ UNCHANGED graph => HitComing'
<1>1. Elems(todo) = {Head(todo)} \union Elems(Tail(todo))
  BY ElemsHeadTail DEF TypeOK
<1>2. Elems(todo)' = Elems(todo')
  BY DEF Elems
<1>3. ASSUME Head(todo).k # "class" PROVE Pending \subseteq Pending'
  BY <1>1, <1>2, <1>3 DEF Pending
<1>4. ASSUME Head(todo).k # "enter" \/ Head(todo).from = {} PROVE Awaited \subseteq Awaited'
  BY <1>1, <1>2, <1>4 DEF Awaited
<1>5. ASSUME HitComing, ~(Head(todo).k = "own" /\ Head(todo).cls \in graph.declares), UNCHANGED graph
      PROVE  HitComing'
  BY <1>1, <1>2, <1>5 DEF HitComing
<1> QED BY <1>3, <1>4, <1>5

(* Whoever keeps its promises keeps the classes come past.                 *)
LEMMA PastStays ==
    ASSUME UNCHANGED <<graph, start>>, NEW T \in SUBSET Names, Past(T),
           Pending \subseteq Pending', visited \union Awaited \subseteq visited' \union Awaited'
    PROVE  Past(T)'
BY DEF Past

(* The classes to enter: c moves from those awaited to those visited, and  *)
(* what it extends is awaited and compared.                                *)
LEMMA VisitComplete ==
    ASSUME TypeOK, query = "implements", NEW c \in Names, Visit(c), Entered
    PROVE  /\ Elems(Tail(todo)) \subseteq Elems(todo')
           /\ visited \union Awaited \subseteq visited' \union Awaited'
           /\ Entered'
<1>1. /\ todo # <<>> /\ Head(todo).k = "enter" /\ c \in Head(todo).from
      /\ visited' = visited \union {c} /\ UNCHANGED <<graph, query, start>>
  BY DEF Visit, Walking
<1>2. Items(c) = InterfaceItems(graph, c)
  BY DEF Items
<1>3. Elems(Rest(c)) \subseteq Elems(todo') /\ Elems(Tail(todo)) \subseteq Elems(Rest(c))
  BY <1>1, <1>2, RestElems, InterfaceItemsElems, ElemsConcat DEF Visit
<1>4. Elems(todo) = {Head(todo)} \union Elems(Tail(todo)) /\ Elems(todo)' = Elems(todo')
  BY <1>1, ElemsHeadTail DEF TypeOK, Elems
<1>5. visited \union Awaited \subseteq visited' \union Awaited'
  <2> SUFFICES ASSUME NEW d \in Awaited, d # c PROVE d \in Awaited'
    BY <1>1
  <2>1. PICK x \in Elems(todo) : x.k = "enter" /\ d \in x.from
    BY DEF Awaited
  <2>2. \E y \in Elems(Rest(c)) : y.k = "enter" /\ d \in y.from
    <3>1. CASE x = Head(todo)
      BY <1>1, <2>1, <3>1, RestElems
    <3>2. CASE x \in Elems(Tail(todo))
      BY <1>3, <2>1, <3>2
    <3> QED BY <1>4, <3>1, <3>2
  <2>3. d \in Names
    BY DEF Awaited
  <2> QED BY <1>3, <1>4, <2>2, <2>3 DEF Awaited
<1>6. \A d : Extended(d)' = Extended(d)
  BY <1>1, StructureStays
<1>7. ASSUME NEW d \in visited \intersect graph.known
      PROVE  /\ Extended(d) \subseteq visited' \union Awaited'
             /\ \A e \in Extended(d) \intersect graph.declares : Own(e) \in Elems(todo')
  <2>1. Extended(d) \subseteq visited \union Awaited
        /\ \A e \in Extended(d) \intersect graph.declares : Own(e) \in Elems(todo)
    BY <1>7 DEF Entered
  <2>2. \A e \in Extended(d) : Own(e) # Head(todo)
    BY <1>1 DEF Own
  <2> QED BY <1>3, <1>4, <1>5, <2>1, <2>2
<1>8. ASSUME c \in graph.known, c \notin visited
      PROVE  /\ Extended(c) \subseteq visited' \union Awaited'
             /\ \A e \in Extended(c) \intersect graph.declares : Own(e) \in Elems(todo')
  <2>1. todo' = InterfaceItems(graph, c) \o Rest(c)
    BY <1>2, <1>8 DEF Visit
  <2>2. Elems(InterfaceItems(graph, c)) \subseteq Elems(todo')
    BY <1>1, <2>1, RestElems, InterfaceItemsElems, ElemsConcat
  <2>3. ASSUME NEW e \in Extended(c) PROVE e \in Awaited' /\ Own(e) \in Elems(todo')
    <3>1. Enter({e}) \in Elems(todo') /\ Own(e) \in Elems(todo')
      BY <2>2, <2>3, InterfaceItemsElems
    <3>2. Enter({e}).k = "enter" /\ e \in Enter({e}).from
      BY DEF Enter
    <3>3. e \in Names
      BY <2>3, GraphType DEF Extended
    <3> QED BY <1>4, <3>1, <3>2, <3>3 DEF Awaited
  <2> QED BY <2>3
<1>9. Entered'
  BY <1>1, <1>4, <1>6, <1>7, <1>8 DEF Entered
<1> QED BY <1>3, <1>5, <1>9

(* A turn of the loop comes past one class: it has found the interface, or *)
(* puts the parent and the interfaces of the class among what is to come.  *)
LEMMA TurnComplete ==
    ASSUME TypeOK, ImplementsTurn, Entered, NEW T \in SUBSET Names, Past(T)
    PROVE  HitComing' \/ (Entered' /\ \E U \in SUBSET Names : Past(U)')
<1> DEFINE c == Head(todo).cls
<1>1. /\ c \in Names /\ Head(todo).k = "class" /\ Elems(todo) = {Head(todo)}
      /\ UNCHANGED <<graph, query, start, visited>>
  BY TurnIsLast DEF ImplementsTurn
<1>2. Elems(todo)' = Elems(todo')
  BY DEF Elems
<1>3. Pending \subseteq {c} /\ Awaited = {}
  BY <1>1 DEF Pending, Awaited
<1>4. Entered'
  <2>1. \A d : Extended(d)' = Extended(d)
    BY <1>1, StructureStays
  <2>2. \A d : Own(d) # Head(todo)
    BY <1>1 DEF Own
  <2>3. \A d \in visited \intersect graph.known :
          Extended(d) \subseteq visited /\ Extended(d) \intersect graph.declares = {}
    BY <1>1, <1>3, <2>2 DEF Entered
  <2> QED BY <1>1, <2>1, <2>3 DEF Entered
<1>5. PICK U \in SUBSET Names : U = T \union {c}
  BY <1>1
<1>6. /\ start \in U
      /\ \A d \in T \intersect graph.known :
            /\ graph.parent[d] \subseteq U
            /\ graph.ifaces[d] \subseteq visited
            /\ graph.ifaces[d] \intersect graph.declares = {}
  BY <1>3, <1>5 DEF Past
<1>7. \A d \in U : d \in T \/ d = c
  BY <1>5
<1>8. \/ c \notin graph.known
      \/ c \in graph.known /\ \E p \in graph.ifaces[c] \intersect graph.declares : Elems(todo') = {Own(p)}
      \/ /\ c \in graph.known /\ graph.ifaces[c] \intersect graph.declares = {}
         /\ Enter(graph.ifaces[c]) \in Elems(todo')
         /\ \A p \in graph.parent[c] : Class(p) \in Elems(todo')
  BY <1>1, TurnElems
<1> HIDE DEF c
<1>9. CASE c \notin graph.known
  <2>1. Past(U)'
    BY <1>1, <1>6, <1>7, <1>9 DEF Past
  <2> QED BY <1>4, <1>5, <2>1
<1>10. ASSUME c \in graph.known, NEW p \in graph.ifaces[c] \intersect graph.declares, Elems(todo') = {Own(p)}
       PROVE  HitComing'
  BY <1>1, <1>2, <1>10 DEF HitComing, Own
<1>11. CASE /\ c \in graph.known /\ graph.ifaces[c] \intersect graph.declares = {}
            /\ Enter(graph.ifaces[c]) \in Elems(todo')
            /\ \A p \in graph.parent[c] : Class(p) \in Elems(todo')
  <2>1. graph.ifaces[c] \subseteq Names /\ graph.parent[c] \subseteq Names
    BY <1>1, GraphType
  <2>2. graph.ifaces[c] \subseteq Awaited'
    BY <1>2, <1>11, <2>1 DEF Awaited, Enter
  <2>3. graph.parent[c] \subseteq Pending'
    BY <1>2, <1>11, <2>1 DEF Pending, Class
  <2>4. Past(U)'
    BY <1>1, <1>6, <1>7, <1>11, <2>2, <2>3 DEF Past
  <2> QED BY <1>4, <1>5, <2>4
<1> QED BY <1>8, <1>9, <1>10, <1>11

LEMMA ImplementsCompleteStep ==
    TypeOK /\ ImplementsComplete /\ [Next]_vars => ImplementsComplete'
<1> SUFFICES ASSUME TypeOK, ImplementsComplete, [Next]_vars, query' = "implements", answer' = {}
             PROVE  (HitComing \/ (Entered /\ \E T \in SUBSET Names : Past(T)))'
  BY DEF ImplementsComplete
<1>1. UNCHANGED <<graph, query, start>> /\ query = "implements" /\ answer = {}
  BY DEF Next, vars, Visit, EndRange, LookUp, ImplementsTurn, Walking
<1>2. HitComing \/ (Entered /\ \E T \in SUBSET Names : Past(T))
  BY <1>1 DEF ImplementsComplete
<1>3. ASSUME NEW c \in Names, Visit(c)
      PROVE  HitComing' \/ (Entered' /\ \E T \in SUBSET Names : Past(T)')
  <2>1. todo # <<>> /\ Head(todo).k = "enter"
    BY <1>3 DEF Visit, Walking
  <2>2. Elems(Tail(todo)) \subseteq Elems(todo')
    <3>1. Elems(Rest(c)) \subseteq Elems(todo')
      BY <1>1, <1>3, <2>1, RestElems, InterfaceItemsElems, ElemsConcat DEF Visit, Items
    <3> QED BY <1>3, <2>1, <3>1, RestElems DEF Visit
  <2>3. CASE HitComing
    BY <1>1, <2>1, <2>2, <2>3, PromisesStay
  <2>4. ASSUME Entered, NEW T \in SUBSET Names, Past(T) PROVE Entered' /\ Past(T)'
    <3>1. Entered' /\ visited \union Awaited \subseteq visited' \union Awaited'
      BY <1>1, <1>3, <2>4, VisitComplete
    <3>2. Pending \subseteq Pending'
      BY <2>1, <2>2, PromisesStay
    <3> QED BY <1>1, <2>4, <3>1, <3>2, PastStays
  <2> QED BY <1>2, <2>3, <2>4
<1>4. CASE EndRange \/ LookUp
  <2>1. todo # <<>> /\ Head(todo).k # "class" /\ UNCHANGED visited
    BY <1>4 DEF EndRange, LookUp, Walking
  <2>2. todo' = Tail(todo)
        /\ (Head(todo).k # "enter" \/ Head(todo).from = {})
        /\ ~(Head(todo).k = "own" /\ Head(todo).cls \in graph.declares)
    BY <1>4 DEF EndRange, LookUp, Walking
  <2>3. Elems(Tail(todo)) \subseteq Elems(todo') /\ Elems(todo)' = Elems(todo')
    BY <2>2 DEF Elems
  <2>4. CASE HitComing
    BY <1>1, <2>1, <2>2, <2>3, <2>4, PromisesStay
  <2>5. ASSUME Entered, NEW T \in SUBSET Names, Past(T) PROVE Entered' /\ Past(T)'
    <3>1. Pending \subseteq Pending' /\ Awaited \subseteq Awaited'
      BY <2>1, <2>2, <2>3, PromisesStay
    <3>2. Past(T)'
      BY <1>1, <2>1, <2>5, <3>1, PastStays
    <3>3. Elems(todo) = {Head(todo)} \union Elems(Tail(todo))
      BY <2>1, ElemsHeadTail DEF TypeOK
    <3>4. \A d \in graph.declares : Own(d) # Head(todo)
      BY <2>2 DEF Own
    <3>5. \A d : Extended(d)' = Extended(d)
      BY <1>1, StructureStays
    <3>6. Entered'
      BY <1>1, <2>1, <2>3, <2>5, <3>1, <3>3, <3>4, <3>5 DEF Entered
    <3> QED BY <3>2, <3>6
  <2> QED BY <1>2, <2>4, <2>5
<1>5. CASE ImplementsTurn
  <2>1. ~HitComing
    BY <1>5, TurnIsLast DEF HitComing
  <2> QED BY <1>2, <1>5, <2>1, TurnComplete
<1>6. CASE UNCHANGED vars
  <2>1. UNCHANGED <<graph, start, todo, visited>>
    BY <1>6 DEF vars
  <2>2. Elems(todo)' = Elems(todo) /\ \A d : Extended(d)' = Extended(d)
    BY <2>1 DEF Elems, Extended
  <2>3. Pending' = Pending /\ Awaited' = Awaited
    BY <2>2 DEF Pending, Awaited
  <2>4. (HitComing => HitComing') /\ (Entered => Entered') /\ \A T \in SUBSET Names : Past(T) => Past(T)'
    BY <2>1, <2>2, <2>3 DEF HitComing, Entered, Past
  <2> QED BY <1>2, <2>4
<1> QED BY <1>3, <1>4, <1>5, <1>6 DEF Next

(* At the end the ancestors are among the classes the loop has come past,  *)
(* and their interfaces among those visited that do not match.             *)
LEMMA ImplementsAtEnd == TypeOK /\ ImplementsSound /\ ImplementsComplete => ImplementsRight
<1> SUFFICES ASSUME TypeOK, ImplementsSound, ImplementsComplete, query = "implements", Done
             PROVE  answer # {} <=> graph.declares \subseteq InterfacesOf(start)
  BY DEF ImplementsRight
<1>1. PICK i \in Names : graph.declares = {i}
  BY DEF ImplementsSound
<1>2. ASSUME answer # {} PROVE graph.declares \subseteq InterfacesOf(start)
  BY <1>1, <1>2 DEF ImplementsSound
<1>3. ASSUME answer = {} PROVE i \notin InterfacesOf(start)
  <2>1. Elems(todo) = {}
    BY <1>3 DEF Done, Elems
  <2>2. Awaited = {} /\ Pending = {} /\ ~HitComing
    BY <2>1 DEF Awaited, Pending, HitComing
  <2>3. PICK T \in SUBSET Names : Past(T)
    BY <1>3, <2>2 DEF ImplementsComplete
  <2>4. Entered
    BY <1>3, <2>2 DEF ImplementsComplete
  <2>5. Ancestors(start) \subseteq T
    BY <2>2, <2>3, AncestorsLeast DEF Past
  <2> DEFINE S == visited \ graph.declares
  <2>6. S \in SUBSET Names
    BY DEF TypeOK
  <2>7. \A c \in Ancestors(start) \intersect graph.known : graph.ifaces[c] \subseteq S
    BY <2>2, <2>3, <2>5 DEF Past
  <2>8. \A c \in S \intersect graph.known : Extended(c) \subseteq S
    BY <2>1, <2>2, <2>4 DEF Entered
  <2> HIDE DEF S
  <2>9. InterfacesOf(start) \subseteq S
    BY <2>6, <2>7, <2>8, InterfacesLeast
  <2> QED BY <1>1, <2>9 DEF S
<1> QED BY <1>1, <1>2, <1>3

(* For any graph of classes, loops included: when Implements comes to an   *)
(* end, it says yes exactly for the interfaces of the class.               *)
THEOREM ImplementsIsRight == Spec => []ImplementsRight
<1>1. Init => TypeOK /\ ImplementsSound /\ ImplementsComplete
  BY TypeInit, ImplementsSoundInit, ImplementsCompleteInit
<1>2. TypeOK /\ ImplementsSound /\ ImplementsComplete /\ [Next]_vars
        => TypeOK' /\ ImplementsSound' /\ ImplementsComplete'
  BY TypeStep, ImplementsSoundStep, ImplementsCompleteStep
<1>3. TypeOK /\ ImplementsSound /\ ImplementsComplete => ImplementsRight
  BY ImplementsAtEnd
<1> QED BY <1>1, <1>2, <1>3, PTL DEF Spec
-----------------------------------------------------------------------------
(* The nearest wins.                                                       *)
(*                                                                         *)
(* A walk for a method or a property is, at any time, at one class y: what *)
(* is left of its traits comes before the parent of y, which is the last   *)
(* item of todo.  The parent is entered only when all that was visited     *)
(* has been looked at, so that the classes passed have nothing to offer.   *)

(* The part of todo before the parent of y.                                *)
Within(y, pre) ==
    \A x \in Elems(pre) : \/ x.k = "own" /\ x.cls \in TraitsOf(y)
                          \/ x.k = "enter" /\ x.from \subseteq TraitsOf(y)

(* No trait of a visited class and no member is forgotten in it.           *)
TraitsComing(vs, pre) ==
    \A d \in vs \intersect graph.known :
        /\ \A e \in graph.traits[d] : e \in vs \/ \E x \in Elems(pre) : x.k = "enter" /\ e \in x.from
        /\ d \in graph.declares => Own(d) \in Elems(pre)

HasMember(x) == TraitsOf(x) \intersect graph.known \intersect graph.declares # {}

(* Only classes without the member are nearer than y.                      *)
NoneNearer(y) ==
    \A x \in Ancestors(start) \intersect graph.known : HasMember(x) => x \in Ancestors(y)

Turn(td, vs, y, pre) ==
    /\ y \in Ancestors(start) \intersect graph.known \intersect vs
    /\ pre \in Seq(Item)
    /\ td = pre \o <<Enter(graph.parent[y])>>
    /\ Within(y, pre)
    /\ TraitsComing(vs, pre)
    /\ y \in graph.declares => pre # <<>> /\ Head(pre) = Own(y)
    /\ NoneNearer(y)

SomeTurn(td, vs) == \E y \in Names, pre \in Seq(Item) : Turn(td, vs, y, pre)

NearestOf(td, vs, an) ==
    \/ vs = {} /\ td = <<Enter({start})>> /\ an = {}
    \/ td = <<>> /\ an = {}
    \/ SomeTurn(td, vs) /\ (an # {} => Head(td).k = "own" /\ an = {Head(td).cls})

Nearest ==
    query \in {"method", "property"} /\ OnlyTraitsUsed => NearestOf(todo, visited, answer)

-----------------------------------------------------------------------------
(* Three parts of todo, and the first item of a part.                      *)
LEMMA Regroup ==
    ASSUME NEW s \in Seq(Item), NEW t \in Seq(Item), NEW u \in Seq(Item)
    PROVE  (s \o t) \o u = s \o (t \o u)
BY ConcatAssociative

LEMMA ConcatHead ==
    ASSUME NEW s \in Seq(Item), NEW t \in Seq(Item), s # <<>>
    PROVE  /\ s \o t # <<>>
           /\ Head(s \o t) = Head(s)
           /\ Tail(s \o t) = Tail(s) \o t
<1>1. s \o t # <<>> /\ Head(s \o t) = Head(s)
  OBVIOUS
<1>2. s = <<Head(s)>> \o Tail(s) /\ Head(s) \in Item /\ Tail(s) \in Seq(Item)
  OBVIOUS
<1>3. s \o t = <<Head(s)>> \o (Tail(s) \o t)
  <2>1. ASSUME NEW h \in Seq(Item), NEW r \in Seq(Item), s = h \o r
        PROVE  s \o t = h \o (r \o t)
    <3>1. (h \o r) \o t = h \o (r \o t)
      BY Regroup
    <3> QED BY <2>1, <3>1
  <2>2. <<Head(s)>> \in Seq(Item)
    BY <1>2
  <2> QED BY <1>2, <2>1, <2>2
<1>4. ASSUME NEW e \in Item, NEW q \in Seq(Item) PROVE Tail(<<e>> \o q) = q
  OBVIOUS
<1>5. Tail(s) \o t \in Seq(Item)
  BY <1>2
<1> QED BY <1>1, <1>2, <1>3, <1>4, <1>5

(* The traits a class uses are a least closed set, too.                    *)
LEMMA TraitsClosed ==
    ASSUME TypeOK, NEW y \in Names
    PROVE  /\ y \in TraitsOf(y) /\ TraitsOf(y) \subseteq Names
           /\ \A c \in TraitsOf(y) \intersect graph.known : graph.traits[c] \subseteq TraitsOf(y)
<1>1. y \in TraitsOf(y) /\ TraitsOf(y) \subseteq Names
  BY DEF TraitsOf, Least
<1>2. ASSUME NEW c \in TraitsOf(y) \intersect graph.known, NEW d \in graph.traits[c]
      PROVE  d \in TraitsOf(y)
  <2>1. c \in Names /\ d \in Names
    BY <1>1, <1>2, GraphType
  <2>2. ASSUME NEW S \in SUBSET Names, {y} \subseteq S,
               \A e \in S \intersect graph.known : graph.traits[e] \subseteq S
        PROVE  d \in S
    <3>1. c \in S
      BY <2>2 DEF TraitsOf, Least
    <3> QED BY <1>2, <2>2, <3>1
  <2> QED BY <2>1, <2>2 DEF TraitsOf, Least
<1> QED BY <1>1, <1>2

LEMMA TraitsLeast ==
    ASSUME NEW y \in Names, NEW S \in SUBSET Names, y \in S,
           \A c \in S \intersect graph.known : graph.traits[c] \subseteq S
    PROVE  TraitsOf(y) \subseteq S
BY DEF TraitsOf, Least

(* An ancestor of y is y or an ancestor of the parent of y.                *)
LEMMA AncestorsOfParent ==
    ASSUME TypeOK, NEW y \in Names, NEW p \in Names, graph.parent[y] \subseteq {p}
    PROVE  Ancestors(y) \subseteq {y} \union Ancestors(p)
<1> DEFINE S == {y} \union Ancestors(p)
<1>1. S \in SUBSET Names /\ y \in S
  BY AncestorsClosedOf
<1>2. \A c \in S \intersect graph.known : graph.parent[c] \subseteq S
  BY AncestorsClosedOf
<1> HIDE DEF S
<1>3. Ancestors(y) \subseteq S
  BY <1>1, <1>2 DEF Ancestors, Least
<1> QED BY <1>3 DEF S

(* What entering a class adds when it extends no interfaces.               *)
LEMMA PlainItems ==
    ASSUME TypeOK, NEW c \in Names, query \in {"method", "property"}, graph.parentIfaces[c] = <<>>
    PROVE  /\ Items(c) = <<Own(c), Enter(graph.traits[c])>> \o <<Enter(graph.parent[c])>>
           /\ <<Own(c), Enter(graph.traits[c])>> \in Seq(Item)
           /\ Elems(<<Own(c), Enter(graph.traits[c])>>) = {Own(c), Enter(graph.traits[c])}
           /\ <<Enter(graph.parent[c])>> \in Seq(Item)
           /\ Elems(<<Enter(graph.parent[c])>>) = {Enter(graph.parent[c])}
<1> DEFINE o == Own(c)
           e == Enter(graph.traits[c])
           p == Enter(graph.parent[c])
<1>1. o \in Item /\ e \in Item /\ p \in Item
  BY GraphType, OwnEnter
<1>2. Items(c) = <<o, e>> \o <<p>>
  <2>1. CASE query = "property"
    <3>1. Items(c) = <<o, e, p>>
      BY <2>1 DEF Items, PropertyItems
    <3> HIDE DEF o, e, p
    <3> QED BY <1>1, <3>1
  <2>2. CASE query = "method"
    <3> DEFINE q == <<o, e>>
    <3>1. EnterEach(graph.parentIfaces[c]) = <<>>
      BY DEF EnterEach
    <3>2. Items(c) = q \o <<>> \o <<p>>
      BY <2>2, <3>1 DEF Items, MethodItems
    <3>3. q \in Seq(Item)
      BY <1>1
    <3>4. q \o <<>> = q
      <4> HIDE DEF q
      <4> QED BY <3>3, ConcatEmptySeq
    <3> QED BY <3>2, <3>4
  <2> QED BY <2>1, <2>2
<1> HIDE DEF o, e, p
<1>3. <<o, e>> \in Seq(Item) /\ <<p>> \in Seq(Item) /\ Elems(<<o, e>>) = {o, e} /\ Elems(<<p>>) = {p}
  BY <1>1 DEF Elems
<1> QED BY <1>2, <1>3 DEF o, e, p

(* The definitions above speak of the graph and of the class asked about   *)
(* alone, which do not change.                                             *)
LEMMA NearestStays ==
    ASSUME UNCHANGED <<graph, query, start>>,
           query \in {"method", "property"} /\ OnlyTraitsUsed
               => NearestOf(todo', visited', answer')
    PROVE  Nearest'
<1>1. graph' = graph /\ query' = query /\ start' = start
  OBVIOUS
<1>2. \A c : Ancestors(c)' = Ancestors(c) /\ TraitsOf(c)' = TraitsOf(c)
  BY <1>1 DEF Ancestors, TraitsOf, Least
<1>3. OnlyTraitsUsed' <=> OnlyTraitsUsed
  BY <1>1 DEF OnlyTraitsUsed, Ancestors, TraitsOf, Least
<1>4. \A y, pre : Turn(todo, visited, y, pre)' <=> Turn(todo', visited', y, pre)
  BY <1>1 DEF Turn, Within, TraitsComing, NoneNearer, HasMember, Ancestors, TraitsOf, Least, Own, Enter, Elems
<1>5. SomeTurn(todo, visited)' <=> SomeTurn(todo', visited')
  BY <1>4 DEF SomeTurn
<1>6. NearestOf(todo, visited, answer)' <=> NearestOf(todo', visited', answer')
  BY <1>1, <1>5 DEF NearestOf, Enter
<1> QED BY <1>1, <1>3, <1>6 DEF Nearest


(* The turn of y begins: all that was visited before has been looked at.   *)
LookedAt(vs) ==
    \A d \in vs \intersect graph.known : graph.traits[d] \subseteq vs /\ d \notin graph.declares

LEMMA TurnBegins ==
    ASSUME TypeOK, query \in {"method", "property"}, OnlyTraitsUsed,
           NEW c \in Ancestors(start) \intersect graph.known,
           NEW vs \in SUBSET Names, LookedAt(vs), NoneNearer(c)
    PROVE  SomeTurn(Items(c), vs \union {c})
<1> DEFINE pre == <<Own(c), Enter(graph.traits[c])>>
<1>1. c \in Names /\ start \in Names
  BY GraphType DEF TypeOK
<1>2. c \in TraitsOf(c) /\ graph.traits[c] \subseteq TraitsOf(c)
  BY <1>1, TraitsClosed
<1>3. graph.parentIfaces[c] = <<>>
  BY <1>2 DEF OnlyTraitsUsed
<1>4. /\ Items(c) = pre \o <<Enter(graph.parent[c])>>
      /\ pre \in Seq(Item) /\ Elems(pre) = {Own(c), Enter(graph.traits[c])}
  BY <1>1, <1>3, PlainItems
<1>5. pre # <<>> /\ Head(pre) = Own(c)
  OBVIOUS
<1>6. /\ Own(c).k = "own" /\ Own(c).cls = c
      /\ Enter(graph.traits[c]).k = "enter" /\ Enter(graph.traits[c]).from = graph.traits[c]
  BY <1>1, GraphType, OwnEnter
<1> HIDE DEF pre
<1>7. Within(c, pre)
  BY <1>2, <1>4, <1>6 DEF Within
<1>8. TraitsComing(vs \union {c}, pre)
  <2>1. ASSUME NEW d \in vs \intersect graph.known
        PROVE  /\ \A e \in graph.traits[d] : e \in vs \union {c}
               /\ d \notin graph.declares
    BY DEF LookedAt
  <2>2. \A e \in graph.traits[c] : \E x \in Elems(pre) : x.k = "enter" /\ e \in x.from
    BY <1>4, <1>6
  <2>3. Own(c) \in Elems(pre)
    BY <1>4
  <2> QED BY <2>1, <2>2, <2>3 DEF TraitsComing
<1>9. Turn(Items(c), vs \union {c}, c, pre)
  BY <1>4, <1>5, <1>7, <1>8 DEF Turn
<1> QED BY <1>1, <1>4, <1>9 DEF SomeTurn

(* What has been looked at includes the class whose turn is over.          *)
LEMMA Passed ==
    ASSUME TypeOK, NEW vs \in SUBSET Names, LookedAt(vs),
           NEW y \in vs, NEW p \in Names, graph.parent[y] \subseteq {p}, NoneNearer(y)
    PROVE  NoneNearer(p)
<1>1. TraitsOf(y) \subseteq vs
  BY TraitsLeast DEF LookedAt
<1>2. ~HasMember(y)
  BY <1>1 DEF HasMember, LookedAt
<1>3. Ancestors(y) \subseteq {y} \union Ancestors(p)
  BY AncestorsOfParent
<1> QED BY <1>2, <1>3 DEF NoneNearer

(* The turn of y goes on when a range is over or a class has no member.    *)
LEMMA TurnGoesOn ==
    ASSUME TypeOK, NEW y \in Names, NEW pre \in Seq(Item), Turn(todo, visited, y, pre), pre # <<>>,
           Head(pre).k = "enter" => Head(pre).from = {},
           Head(pre).k = "own" => Head(pre).cls \notin graph.declares
    PROVE  Turn(Tail(todo), visited, y, Tail(pre))
<1> DEFINE last == <<Enter(graph.parent[y])>>
<1>1. last \in Seq(Item)
  BY GraphType, OwnEnter
<1>2. todo = pre \o last
  BY DEF Turn
<1> HIDE DEF last
<1>3. Tail(todo) = Tail(pre) \o last
  BY <1>1, <1>2, ConcatHead
<1>4. Elems(pre) = {Head(pre)} \union Elems(Tail(pre)) /\ Tail(pre) \in Seq(Item)
  BY ElemsHeadTail
<1>5. \A d \in Names : Own(d).k = "own" /\ Own(d).cls = d
  BY OwnEnter
<1>6. y \notin graph.declares
  BY <1>5 DEF Turn
<1>7. Within(y, Tail(pre))
  BY <1>4 DEF Turn, Within
<1>8. TraitsComing(visited, Tail(pre))
  <2> SUFFICES ASSUME NEW d \in visited \intersect graph.known
               PROVE  /\ \A e \in graph.traits[d] :
                            e \in visited \/ \E x \in Elems(Tail(pre)) : x.k = "enter" /\ e \in x.from
                      /\ d \in graph.declares => Own(d) \in Elems(Tail(pre))
    BY DEF TraitsComing
  <2>1. d \in Names
    BY DEF TypeOK
  <2>2. ASSUME NEW e \in graph.traits[d], e \notin visited
        PROVE  \E x \in Elems(Tail(pre)) : x.k = "enter" /\ e \in x.from
    <3>1. PICK x \in Elems(pre) : x.k = "enter" /\ e \in x.from
      BY <2>2 DEF Turn, TraitsComing
    <3>2. x # Head(pre)
      BY <3>1
    <3> QED BY <1>4, <3>1, <3>2
  <2>3. ASSUME d \in graph.declares PROVE Own(d) \in Elems(Tail(pre))
    <3>1. Own(d) \in Elems(pre)
      BY <2>3 DEF Turn, TraitsComing
    <3>2. Own(d) # Head(pre)
      BY <1>5, <2>1, <2>3
    <3> QED BY <1>4, <3>1, <3>2
  <2> QED BY <2>2, <2>3
<1> QED BY <1>3, <1>4, <1>6, <1>7, <1>8 DEF Turn, last

(* Entering a class of y's traits.                                         *)
RestOf(pre, c) ==
    IF Head(pre).from = {c} THEN Tail(pre) ELSE <<Enter(Head(pre).from \ {c})>> \o Tail(pre)

LEMMA RestInTurn ==
    ASSUME TypeOK, NEW pre \in Seq(Item), NEW q \in Seq(Item), todo = pre \o q, pre # <<>>,
           Head(pre).k = "enter", NEW c \in Head(pre).from
    PROVE  /\ Rest(c) = RestOf(pre, c) \o q
           /\ RestOf(pre, c) \in Seq(Item)
           /\ Elems(Tail(pre)) \subseteq Elems(RestOf(pre, c))
           /\ \A x \in Elems(RestOf(pre, c)) :
                 x \in Elems(Tail(pre)) \/ (x.k = "enter" /\ x.from \subseteq Head(pre).from)
           /\ \A d \in Head(pre).from \ {c} :
                 \E x \in Elems(RestOf(pre, c)) : x.k = "enter" /\ d \in x.from
<1>1. Head(pre) \in Item /\ Tail(pre) \in Seq(Item)
  BY ElemsHeadTail
<1>2. Head(todo) = Head(pre) /\ Tail(todo) = Tail(pre) \o q
  BY ConcatHead
<1>3. CASE Head(pre).from = {c}
  BY <1>1, <1>2, <1>3 DEF Rest, RestOf
<1>4. CASE Head(pre).from # {c}
  <2> DEFINE e == Enter(Head(pre).from \ {c})
             t == Tail(pre)
  <2>1. e \in Item /\ e.k = "enter" /\ e.from = Head(pre).from \ {c}
    <3> DEFINE S == Head(pre).from \ {c}
    <3>1. S \in SUBSET Names
      BY <1>1 DEF Item
    <3>2. e = Enter(S)
      OBVIOUS
    <3> HIDE DEF S, e
    <3>3. Enter(S) \in Item /\ Enter(S).k = "enter" /\ Enter(S).from = S
      BY <3>1 DEF Enter, Item
    <3> QED BY <3>2, <3>3 DEF S
  <2>2. Rest(c) = <<e>> \o (t \o q) /\ RestOf(pre, c) = <<e>> \o t
    BY <1>2, <1>4 DEF Rest, RestOf
  <2>3. t \in Seq(Item)
    BY <1>1
  <2> HIDE DEF e, t
  <2>4. <<e>> \in Seq(Item) /\ Elems(<<e>>) = {e}
    BY <2>1 DEF Elems
  <2>5. RestOf(pre, c) \in Seq(Item) /\ Elems(RestOf(pre, c)) = {e} \union Elems(t)
    BY <2>2, <2>3, <2>4, ElemsConcat
  <2>6. Rest(c) = RestOf(pre, c) \o q
    <3> DEFINE one == <<e>>
    <3>1. one \in Seq(Item) /\ Rest(c) = one \o (t \o q) /\ RestOf(pre, c) = one \o t
      BY <2>2, <2>4
    <3> HIDE DEF one
    <3>2. (one \o t) \o q = one \o (t \o q)
      BY <2>3, <3>1, Regroup, Zenon
    <3> QED BY <3>1, <3>2
  <2> QED BY <2>1, <2>5, <2>6 DEF t
<1> QED BY <1>3, <1>4

LEMMA VisitInTurn ==
    ASSUME TypeOK, query \in {"method", "property"}, OnlyTraitsUsed,
           NEW y \in Names, NEW pre \in Seq(Item), Turn(todo, visited, y, pre), pre # <<>>,
           NEW c \in Names, Visit(c)
    PROVE  SomeTurn(todo', visited')
<1> DEFINE last == <<Enter(graph.parent[y])>>
           rest == RestOf(pre, c)
<1>1. last \in Seq(Item)
  BY GraphType, OwnEnter
<1>2. todo = pre \o last
  BY DEF Turn
<1>3. Head(todo) = Head(pre)
  <2> HIDE DEF last
  <2> QED BY <1>1, <1>2, ConcatHead
<1>4. /\ Head(pre).k = "enter" /\ c \in Head(pre).from /\ visited' = visited \union {c}
      /\ todo' = IF c \in visited \/ c \notin graph.known THEN Rest(c) ELSE Items(c) \o Rest(c)
  BY <1>3 DEF Visit
<1>5. /\ Rest(c) = rest \o last
      /\ rest \in Seq(Item)
      /\ Elems(Tail(pre)) \subseteq Elems(rest)
      /\ \A x \in Elems(rest) :
            x \in Elems(Tail(pre)) \/ (x.k = "enter" /\ x.from \subseteq Head(pre).from)
      /\ \A d \in Head(pre).from \ {c} : \E x \in Elems(rest) : x.k = "enter" /\ d \in x.from
  <2> HIDE DEF last
  <2> QED BY <1>1, <1>2, <1>4, RestInTurn
<1> HIDE DEF last, rest
<1>6. Elems(pre) = {Head(pre)} \union Elems(Tail(pre)) /\ Head(pre) \in Item
  BY ElemsHeadTail
<1>7. \A d \in Names : Own(d).k = "own" /\ Own(d).cls = d
  BY OwnEnter
<1>8. y \notin graph.declares
  BY <1>4, <1>7 DEF Turn
<1>9. Head(pre).from \subseteq TraitsOf(y)
  BY <1>4, <1>6 DEF Turn, Within
<1>10. Within(y, rest)
  BY <1>5, <1>6, <1>9 DEF Turn, Within
<1>11. ASSUME NEW d \in visited \intersect graph.known
       PROVE  /\ \A e \in graph.traits[d] :
                    e \in visited' \/ \E x \in Elems(rest) : x.k = "enter" /\ e \in x.from
              /\ d \in graph.declares => Own(d) \in Elems(rest)
  <2>1. d \in Names
    BY DEF TypeOK
  <2>2. ASSUME NEW e \in graph.traits[d], e \notin visited'
        PROVE  \E x \in Elems(rest) : x.k = "enter" /\ e \in x.from
    <3>1. PICK x \in Elems(pre) : x.k = "enter" /\ e \in x.from
      BY <1>4, <2>2 DEF Turn, TraitsComing
    <3>2. e # c
      BY <1>4, <2>2
    <3>3. CASE x = Head(pre)
      BY <1>5, <3>1, <3>2, <3>3
    <3>4. CASE x \in Elems(Tail(pre))
      BY <1>5, <3>1, <3>4
    <3> QED BY <1>6, <3>3, <3>4
  <2>3. ASSUME d \in graph.declares PROVE Own(d) \in Elems(rest)
    <3>1. Own(d) \in Elems(pre)
      BY <2>3 DEF Turn, TraitsComing
    <3>2. Own(d) # Head(pre)
      BY <1>4, <1>7, <2>1
    <3> QED BY <1>5, <1>6, <3>1, <3>2
  <2> QED BY <2>2, <2>3
<1>12. CASE c \in visited \/ c \notin graph.known
  <2>1. todo' = rest \o last
    BY <1>4, <1>5, <1>12
  <2>2. TraitsComing(visited', rest)
    <3>1. visited' \intersect graph.known = visited \intersect graph.known
      BY <1>4, <1>12
    <3> QED BY <1>11, <3>1 DEF TraitsComing
  <2>3. y \in visited'
    BY <1>4 DEF Turn
  <2>4. Turn(todo', visited', y, rest)
    BY <1>5, <1>8, <1>10, <2>1, <2>2, <2>3 DEF Turn, last
  <2> QED BY <1>5, <2>4 DEF SomeTurn
<1>13. CASE c \notin visited /\ c \in graph.known
  <2> DEFINE own == <<Own(c), Enter(graph.traits[c])>>
             none == <<Enter(graph.parent[c])>>
  <2>1. c \in TraitsOf(y) /\ y \in Ancestors(start) \intersect graph.known /\ y \in visited
    BY <1>4, <1>9 DEF Turn
  <2>2. c # y /\ graph.parentIfaces[c] = <<>> /\ graph.parent[c] = {}
    BY <1>13, <2>1 DEF OnlyTraitsUsed
  <2>3. graph.traits[c] \subseteq TraitsOf(y)
    BY <1>13, <2>1, TraitsClosed
  <2>4. /\ Items(c) = own \o none
        /\ own \in Seq(Item) /\ none \in Seq(Item)
        /\ Elems(own) = {Own(c), Enter(graph.traits[c])}
        /\ Elems(none) = {Enter({})}
    BY <2>2, PlainItems
  <2> HIDE DEF own, none
  <2>5. /\ Items(c) \in Seq(Item)
        /\ Elems(Items(c)) = {Own(c), Enter(graph.traits[c]), Enter({})}
    <3>1. own \o none \in Seq(Item) /\ Elems(own \o none) = Elems(own) \union Elems(none)
      BY <2>4, ElemsConcat, Zenon
    <3> QED BY <2>4, <3>1
  <2> DEFINE new == Items(c) \o rest
  <2>6. new \in Seq(Item) /\ Elems(new) = Elems(Items(c)) \union Elems(rest)
    BY <1>5, <2>5, ElemsConcat
  <2>7. todo' = new \o last
    <3>1. last \in Seq(Item)
      BY <1>1
    <3>2. (Items(c) \o rest) \o last = Items(c) \o (rest \o last)
      BY <1>5, <2>5, <3>1, Regroup, Zenon
    <3> QED BY <1>4, <1>5, <1>13, <3>2
  <2> HIDE DEF new
  <2>8. /\ Own(c).k = "own" /\ Own(c).cls = c
        /\ Enter({}).k = "enter" /\ Enter({}).from = {}
        /\ Enter(graph.traits[c]).k = "enter" /\ Enter(graph.traits[c]).from = graph.traits[c]
    BY GraphType, OwnEnter
  <2>9. Within(y, new)
    <3>1. ASSUME NEW x \in Elems(new)
          PROVE  (x.k = "own" /\ x.cls \in TraitsOf(y)) \/ (x.k = "enter" /\ x.from \subseteq TraitsOf(y))
      <4>1. CASE x \in Elems(rest)
        BY <1>10, <4>1 DEF Within
      <4>2. CASE x \in {Own(c), Enter(graph.traits[c]), Enter({})}
        BY <2>1, <2>3, <2>8, <4>2
      <4> QED BY <2>5, <2>6, <4>1, <4>2
    <3> QED BY <3>1 DEF Within
  <2>10. TraitsComing(visited', new)
    <3>1. ASSUME NEW d \in visited \intersect graph.known
          PROVE  /\ \A e \in graph.traits[d] :
                       e \in visited' \/ \E x \in Elems(new) : x.k = "enter" /\ e \in x.from
                 /\ d \in graph.declares => Own(d) \in Elems(new)
      BY <1>11, <2>6
    <3>2. /\ \A e \in graph.traits[c] : \E x \in Elems(new) : x.k = "enter" /\ e \in x.from
          /\ Own(c) \in Elems(new)
      BY <2>5, <2>6, <2>8
    <3> QED BY <1>4, <3>1, <3>2 DEF TraitsComing
  <2>11. y \in visited'
    BY <1>4, <2>1
  <2>12. Turn(todo', visited', y, new)
    BY <1>8, <2>6, <2>7, <2>9, <2>10, <2>11 DEF Turn, last
  <2> QED BY <2>6, <2>12 DEF SomeTurn
<1> QED BY <1>12, <1>13

-----------------------------------------------------------------------------
(* One step of the walk.                                                   *)
LEMMA NearestInit == Init => Nearest
<1> SUFFICES ASSUME Init, query # "implements" PROVE NearestOf(todo, visited, answer)
  BY DEF Nearest
<1> QED BY DEF Init, NearestOf

(* The walk begins.                                                        *)
LEMMA StartStep ==
    ASSUME TypeOK, query \in {"method", "property"}, OnlyTraitsUsed,
           visited = {}, todo = <<Enter({start})>>, answer = {}, Next
    PROVE  NearestOf(todo', visited', answer')
<1>1. start \in Names
  BY DEF TypeOK
<1>2. Head(todo).k = "enter" /\ Head(todo).from = {start} /\ Tail(todo) = <<>>
  BY <1>1, OwnEnter
<1>3. Visit(start)
  BY <1>2 DEF Next, Visit, EndRange, LookUp, ImplementsTurn
<1>4. /\ visited' = {start} /\ answer' = {}
      /\ todo' = IF start \notin graph.known THEN <<>> ELSE Items(start) \o <<>>
  BY <1>2, <1>3 DEF Visit, Rest
<1>5. CASE start \notin graph.known
  BY <1>4, <1>5 DEF NearestOf
<1>6. CASE start \in graph.known
  <2>1. Items(start) \in Seq(Item)
    BY <1>1, ItemsElems
  <2>2. todo' = Items(start)
    BY <1>4, <1>6, <2>1, ConcatEmptySeq
  <2>3. start \in Ancestors(start) /\ NoneNearer(start)
    BY <1>1, AncestorsClosedOf DEF NoneNearer
  <2>4. LookedAt({})
    BY DEF LookedAt
  <2>5. SomeTurn(Items(start), {} \union {start})
    BY <1>6, <2>3, <2>4, TurnBegins
  <2> QED BY <1>4, <2>2, <2>5 DEF NearestOf
<1> QED BY <1>5, <1>6

(* The traits of y are through, and its parent is next.                    *)
LEMMA ParentStep ==
    ASSUME TypeOK, query \in {"method", "property"}, OnlyTraitsUsed,
           NEW y \in Names, Turn(todo, visited, y, <<>>), answer = {}, Next
    PROVE  NearestOf(todo', visited', answer')
<1>1. graph.parent[y] \in SUBSET Names /\ <<Enter(graph.parent[y])>> \in Seq(Item)
  BY GraphType, OwnEnter
<1>2. todo = <<Enter(graph.parent[y])>>
  <2> DEFINE q == <<Enter(graph.parent[y])>>
  <2>1. todo = <<>> \o q /\ q \in Seq(Item)
    BY <1>1 DEF Turn
  <2> HIDE DEF q
  <2>2. todo = q
    BY <2>1, ConcatEmptySeq
  <2> QED BY <2>2 DEF q
<1>3. Head(todo).k = "enter" /\ Head(todo).from = graph.parent[y] /\ Tail(todo) = <<>>
  BY <1>1, <1>2, OwnEnter
<1>4. LookedAt(visited) /\ visited \in SUBSET Names
  BY DEF Turn, TraitsComing, LookedAt, Elems, TypeOK
<1>5. CASE EndRange
  BY <1>3, <1>5 DEF EndRange, NearestOf
<1>6. ASSUME NEW c \in Names, Visit(c)
      PROVE  NearestOf(todo', visited', answer')
  <2>1. c \in graph.parent[y]
    BY <1>3, <1>6 DEF Visit
  <2>2. graph.parent[y] = {c}
    BY <2>1, ClassLookupAssumption DEF TypeOK
  <2>3. /\ visited' = visited \union {c} /\ answer' = {}
        /\ todo' = IF c \in visited \/ c \notin graph.known THEN <<>> ELSE Items(c) \o <<>>
    BY <1>3, <1>6, <2>2 DEF Visit, Rest
  <2>4. CASE c \in visited \/ c \notin graph.known
    BY <2>3, <2>4 DEF NearestOf
  <2>5. CASE c \notin visited /\ c \in graph.known
    <3>1. todo' = Items(c)
      <4>1. Items(c) \in Seq(Item)
        BY ItemsElems
      <4> QED BY <2>3, <2>5, <4>1, ConcatEmptySeq
    <3>2. c \in Ancestors(start)
      BY <2>1, AncestorsClosed DEF Turn
    <3>3. NoneNearer(c)
      BY <1>4, <2>2, Passed DEF Turn
    <3>4. SomeTurn(Items(c), visited \union {c})
      BY <1>4, <2>5, <3>2, <3>3, TurnBegins
    <3> QED BY <2>3, <3>1, <3>4 DEF NearestOf
  <2> QED BY <2>4, <2>5
<1> QED BY <1>3, <1>5, <1>6 DEF Next, LookUp, ImplementsTurn

(* The traits of y.                                                        *)
LEMMA TraitsStep ==
    ASSUME TypeOK, query \in {"method", "property"}, OnlyTraitsUsed,
           NEW y \in Names, NEW pre \in Seq(Item), Turn(todo, visited, y, pre), pre # <<>>,
           answer = {}, Next
    PROVE  NearestOf(todo', visited', answer')
<1>1. Head(todo) = Head(pre)
  <2> DEFINE q == <<Enter(graph.parent[y])>>
  <2>1. todo = pre \o q /\ q \in Seq(Item)
    BY GraphType, OwnEnter DEF Turn
  <2> HIDE DEF q
  <2> QED BY <2>1, ConcatHead
<1>2. Head(pre).k \in {"own", "enter"}
  BY ElemsHeadTail DEF Turn, Within
<1>3. ASSUME NEW c \in Names, Visit(c)
      PROVE  NearestOf(todo', visited', answer')
  <2>1. SomeTurn(todo', visited') /\ answer' = {}
    BY <1>3, VisitInTurn DEF Visit
  <2> QED BY <2>1 DEF NearestOf
<1>4. ASSUME Head(pre).k = "enter" => Head(pre).from = {},
             Head(pre).k = "own" => Head(pre).cls \notin graph.declares,
             todo' = Tail(todo), visited' = visited, answer' = answer
      PROVE  NearestOf(todo', visited', answer')
  <2>1. Turn(todo', visited', y, Tail(pre)) /\ Tail(pre) \in Seq(Item)
    BY <1>4, TurnGoesOn, ElemsHeadTail
  <2> QED BY <1>4, <2>1 DEF NearestOf, SomeTurn
<1>5. CASE EndRange
  BY <1>1, <1>4, <1>5 DEF EndRange
<1>6. CASE LookUp
  <2>1. CASE Head(todo).cls \notin graph.declares
    BY <1>1, <1>4, <1>6, <2>1 DEF LookUp
  <2>2. CASE Head(todo).cls \in graph.declares
    <3>1. /\ todo' = todo /\ visited' = visited /\ answer' = {Head(todo').cls}
          /\ Head(todo').k = "own"
      BY <1>6, <2>2 DEF LookUp
    <3>2. SomeTurn(todo', visited')
      BY <3>1 DEF SomeTurn
    <3> QED BY <3>1, <3>2 DEF NearestOf
  <2> QED BY <2>1, <2>2
<1> QED BY <1>1, <1>2, <1>3, <1>5, <1>6 DEF Next, ImplementsTurn

LEMMA NearestStep == TypeOK /\ Nearest /\ [Next]_vars => Nearest'
<1> SUFFICES ASSUME TypeOK, Nearest, [Next]_vars PROVE Nearest'
  OBVIOUS
<1>1. UNCHANGED <<graph, query, start>>
  BY DEF Next, vars, Visit, EndRange, LookUp, ImplementsTurn
<1>2. SUFFICES ASSUME query \in {"method", "property"}, OnlyTraitsUsed
               PROVE  NearestOf(todo', visited', answer')
  BY <1>1, NearestStays
<1>3. NearestOf(todo, visited, answer)
  BY <1>2 DEF Nearest
<1>4. CASE UNCHANGED vars
  <2>1. todo' = todo /\ visited' = visited /\ answer' = answer
    BY <1>4 DEF vars
  <2> QED BY <1>3, <2>1
<1>5. CASE Next
  <2>1. answer = {} /\ todo # <<>>
    BY <1>5 DEF Next, Visit, EndRange, LookUp, ImplementsTurn, Walking
  <2>2. CASE visited = {} /\ todo = <<Enter({start})>>
    BY <1>2, <1>5, <2>1, <2>2, StartStep
  <2>3. CASE SomeTurn(todo, visited)
    <3>1. PICK y \in Names, pre \in Seq(Item) : Turn(todo, visited, y, pre)
      BY <2>3 DEF SomeTurn
    <3>2. CASE pre = <<>>
      <4>1. Turn(todo, visited, y, <<>>)
        BY <3>1, <3>2
      <4> QED BY <1>2, <1>5, <2>1, <4>1, ParentStep
    <3>3. CASE pre # <<>>
      BY <1>2, <1>5, <2>1, <3>1, <3>3, TraitsStep
    <3> QED BY <3>2, <3>3
  <2> QED BY <1>3, <2>1, <2>2, <2>3 DEF NearestOf
<1> QED BY <1>4, <1>5

(* What is found stands first in todo, in the turn of y.                   *)
LEMMA NearestFound == TypeOK /\ Nearest => NearestWins
<1> SUFFICES ASSUME TypeOK, Nearest, query \in {"method", "property"}, answer # {}, OnlyTraitsUsed,
                    NEW c \in answer
             PROVE  \E y \in Ancestors(start) :
                      /\ c \in TraitsOf(y)
                      /\ y \in graph.known \intersect graph.declares => c = y
                      /\ \A x \in Ancestors(start) \intersect graph.known :
                            TraitsOf(x) \intersect graph.known \intersect graph.declares # {} => x \in Ancestors(y)
  BY DEF NearestWins
<1>1. SomeTurn(todo, visited) /\ Head(todo).k = "own" /\ answer = {Head(todo).cls}
  BY DEF Nearest, NearestOf
<1>2. PICK y \in Names, pre \in Seq(Item) : Turn(todo, visited, y, pre)
  BY <1>1 DEF SomeTurn
<1> DEFINE q == <<Enter(graph.parent[y])>>
<1>3. todo = pre \o q /\ q \in Seq(Item) /\ Head(q).k = "enter"
  BY <1>2, GraphType, OwnEnter DEF Turn
<1> HIDE DEF q
<1>4. pre # <<>>
  BY <1>1, <1>3, ConcatEmptySeq
<1>5. Head(todo) = Head(pre) /\ Head(pre) \in Elems(pre)
  BY <1>3, <1>4, ConcatHead, ElemsHeadTail
<1>6. c \in TraitsOf(y)
  BY <1>1, <1>2, <1>5 DEF Turn, Within
<1>7. y \in graph.declares => c = y
  BY <1>1, <1>2, <1>5, OwnEnter DEF Turn
<1> QED BY <1>2, <1>6, <1>7 DEF Turn, NoneNearer, HasMember

(* For any graph in which only traits are used: of the classes that have   *)
(* the member, FindMethod and FindProperty find it in the nearest, and in  *)
(* the class itself before its traits.                                     *)
THEOREM NearestIsFound == Spec => []NearestWins
<1>1. Init => TypeOK /\ Nearest
  BY TypeInit, NearestInit
<1>2. TypeOK /\ Nearest /\ [Next]_vars => TypeOK' /\ Nearest'
  BY TypeStep, NearestStep
<1>3. TypeOK /\ Nearest => NearestWins
  BY NearestFound
<1> QED BY <1>1, <1>2, <1>3, PTL DEF Spec
-----------------------------------------------------------------------------
(* What can be said here of the end of a lookup: the walk can always go on *)
(* until it is over, and each of its steps leaves less to do.              *)

WalkGoesOn ==
    \/ Head(todo).k = "enter" /\ (Head(todo).from = {} \/ \E c \in Names : c \in Head(todo).from)
    \/ Head(todo).k \in {"own", "class"}

(* The classes that Implements' loop has before it.                        *)
Coming ==
    {a \in Names : \E x \in Elems(todo) : x.k = "class" /\ a \in Ancestors(x.cls)}

(* The hit; the turns of the loop; the classes that can still be entered;  *)
(* what is left of the calls; what is left of the first range.             *)
StepsLeft ==
    <<IF answer = {} THEN 1 ELSE 0,
      Cardinality(Coming),
      Cardinality(Names \ visited),
      Len(todo),
      IF todo = <<>> THEN 0 ELSE Cardinality(Head(todo).from)>>

Measure == [1..5 -> Nat]

(* The first number that differs decides.                                  *)
LessLeft == LexProductOrdering(OpToRel(<, Nat), Nat, 5)

LEMMA LessLeftEnds == IsWellFoundedOn(LessLeft, Measure)
BY NatLessThanWellFounded, WFLexProductOrdering DEF LessLeft, Measure

LEMMA FirstThatDiffers ==
    ASSUME NEW s \in Measure, NEW t \in Measure,
           s[1] <= t[1], s[2] <= t[2], s[3] <= t[3],
           \/ s[1] < t[1] \/ s[2] < t[2] \/ s[3] < t[3] \/ s[4] < t[4]
           \/ s[4] = t[4] /\ s[5] < t[5]
    PROVE  <<s, t>> \in LessLeft
<1>1. \A n \in 1..5 : s[n] \in Nat /\ t[n] \in Nat
  BY DEF Measure
<1>2. \E j \in 1..5 : (\A i \in 1..(j - 1) : s[i] = t[i]) /\ s[j] < t[j]
  <2>1. CASE s[1] < t[1]
    BY <2>1
  <2>2. CASE s[1] = t[1] /\ s[2] < t[2]
    <3>1. \A i \in 1..(2 - 1) : s[i] = t[i]
      BY <2>2
    <3> QED BY <2>2, <3>1
  <2>3. CASE s[1] = t[1] /\ s[2] = t[2] /\ s[3] < t[3]
    <3>1. \A i \in 1..(3 - 1) : s[i] = t[i]
      BY <2>3
    <3> QED BY <2>3, <3>1
  <2>4. CASE s[1] = t[1] /\ s[2] = t[2] /\ s[3] = t[3] /\ s[4] < t[4]
    <3>1. \A i \in 1..(4 - 1) : s[i] = t[i]
      BY <2>4
    <3> QED BY <2>4, <3>1
  <2>5. CASE s[1] = t[1] /\ s[2] = t[2] /\ s[3] = t[3] /\ s[4] = t[4] /\ s[5] < t[5]
    <3>1. \A i \in 1..(5 - 1) : s[i] = t[i]
      BY <2>5
    <3> QED BY <2>5, <3>1
  <2>6. s[1] \in Nat /\ t[1] \in Nat /\ s[2] \in Nat /\ t[2] \in Nat /\ s[3] \in Nat /\ t[3] \in Nat
    BY <1>1
  <2> QED BY <2>1, <2>2, <2>3, <2>4, <2>5, <2>6
<1>3. PICK j \in 1..5 : (\A i \in 1..(j - 1) : s[i] = t[i]) /\ s[j] < t[j]
  BY <1>2
<1>4. <<s[j], t[j]>> \in OpToRel(<, Nat)
  BY <1>1, <1>3 DEF OpToRel
<1> QED BY <1>3, <1>4 DEF LessLeft, LexProductOrdering, Measure

LEMMA MeasureType == TypeOK => StepsLeft \in Measure
<1> SUFFICES ASSUME TypeOK PROVE StepsLeft \in Measure
  OBVIOUS
<1>1. Cardinality(Coming) \in Nat /\ Cardinality(Names \ visited) \in Nat
  <2>1. Coming \subseteq Names /\ Names \ visited \subseteq Names
    BY DEF Coming
  <2> QED BY <2>1, ClassLookupAssumption, FS_Subset, FS_CardinalityType
<1>2. Len(todo) \in Nat
  BY DEF TypeOK
<1>3. CASE todo # <<>>
  <2>1. Head(todo).from \subseteq Names
    BY <1>3, ElemsHeadTail DEF TypeOK, Item
  <2>2. Cardinality(Head(todo).from) \in Nat
    BY <2>1, ClassLookupAssumption, FS_Subset, FS_CardinalityType
  <2> QED BY <1>1, <1>2, <1>3, <2>2 DEF StepsLeft, Measure
<1>4. CASE todo = <<>>
  BY <1>1, <1>2, <1>4 DEF StepsLeft, Measure
<1> QED BY <1>3, <1>4

(* No step but a turn of the loop puts a class before it.                  *)
LEMMA ComingShrinks ==
    ASSUME UNCHANGED <<graph, query, start>>,
           \A x \in Elems(todo') : x.k = "class" => x \in Elems(todo)
    PROVE  Coming' \subseteq Coming
<1>1. \A d : Ancestors(d)' = Ancestors(d)
  BY DEF Ancestors, Least
<1>2. Elems(todo)' = Elems(todo')
  BY DEF Elems
<1> QED BY <1>1, <1>2 DEF Coming

LEMMA AncestorsWithin ==
    ASSUME TypeOK, NEW y \in Names, NEW p \in Ancestors(y)
    PROVE  Ancestors(p) \subseteq Ancestors(y)
BY AncestorsClosedOf DEF Ancestors, Least

(* A turn of the loop goes to the parent, of which the class is no         *)
(* ancestor unless the parents run in a circle.                            *)
LEMMA ComingLess ==
    ASSUME TypeOK, ImplementsSound, ImplementsTurn, ~ParentLoop
    PROVE  Coming' \subseteq Coming /\ Coming' # Coming
<1> DEFINE c == Head(todo).cls
<1>1. /\ c \in Names /\ query = "implements" /\ Head(todo).k = "class"
      /\ Elems(todo) = {Head(todo)} /\ graph' = graph
  BY TurnIsLast DEF ImplementsTurn
<1>2. c \in Ancestors(start)
  BY <1>1 DEF ImplementsSound, InPlace
<1>3. Coming = Ancestors(c)
  BY <1>1, AncestorsClosedOf DEF Coming
<1>4. c \in Ancestors(c)
  BY <1>1, AncestorsClosedOf
<1>5. \A d : Ancestors(d)' = Ancestors(d)
  BY <1>1 DEF Ancestors, Least
<1>6. Coming' = {a \in Names : \E x \in Elems(todo') : x.k = "class" /\ a \in Ancestors(x.cls)}
  BY <1>5 DEF Coming, Elems
<1>7. CASE \A x \in Elems(todo') : x.k # "class"
  BY <1>3, <1>4, <1>6, <1>7
<1>8. CASE \E x \in Elems(todo') : x.k = "class"
  <2>1. \A p \in Names : Own(p).k # "class" /\ Enter(graph.ifaces[c]).k # "class"
    BY DEF Own, Enter
  <2>2. PICK p \in Names : /\ c \in graph.known /\ graph.parent[c] = {p}
                           /\ Elems(todo') = {Enter(graph.ifaces[c]), Class(p)}
    <3>1. \A q \in graph.ifaces[c] : q \in Names
      BY <1>1, GraphType
    <3> HIDE DEF c
    <3> QED BY <1>1, <1>8, <2>1, <3>1, TurnElems DEF c
  <2>3. Coming' = Ancestors(p)
    <3>1. Class(p).k = "class" /\ Class(p).cls = p
      BY DEF Class
    <3>2. Ancestors(p) \subseteq Names
      BY <2>2, AncestorsClosedOf
    <3> QED BY <1>6, <2>1, <2>2, <3>1, <3>2
  <2>4. p \in Ancestors(c)
    BY <1>1, <1>4, <2>2, AncestorsClosedOf
  <2>5. Ancestors(p) \subseteq Ancestors(c)
    BY <1>1, <2>2, <2>4, AncestorsClosedOf, AncestorsWithin
  <2>6. c \notin Ancestors(p)
    BY <1>2, <2>2 DEF ParentLoop
  <2> QED BY <1>3, <1>4, <2>3, <2>5, <2>6
<1> QED BY <1>7, <1>8

LEMMA MeasureFalls ==
    ASSUME TypeOK, TypeOK', UNCHANGED <<graph, query, start>>,
           answer' = answer, visited \subseteq visited',
           Coming' \subseteq Coming,
           \/ Coming' # Coming
           \/ visited' # visited
           \/ todo # <<>> /\ Len(todo') < Len(todo)
           \/ /\ todo # <<>> /\ todo' # <<>> /\ Len(todo') = Len(todo)
              /\ Head(todo').from \subseteq Head(todo).from
              /\ Head(todo').from # Head(todo).from
    PROVE  <<StepsLeft', StepsLeft>> \in LessLeft
<1> DEFINE s == StepsLeft
<1>1. s \in Measure /\ s' \in Measure
  <2>1. (TypeOK => StepsLeft \in Measure)'
    BY MeasureType, PTL
  <2> QED BY <2>1, MeasureType DEF Measure
<1>2. s'[1] = s[1]
  BY DEF StepsLeft
<1>3. s'[2] <= s[2] /\ (Coming' # Coming => s'[2] < s[2])
  <2>1. Coming \subseteq Names /\ IsFiniteSet(Coming)
    BY ClassLookupAssumption, FS_Subset DEF Coming
  <2>2. Cardinality(Coming') <= Cardinality(Coming)
        /\ (Coming' # Coming => Cardinality(Coming') # Cardinality(Coming))
    BY <2>1, FS_Subset
  <2>3. Cardinality(Coming) = s[2] /\ Cardinality(Coming') = s'[2]
    BY DEF StepsLeft
  <2>4. s[2] \in Nat /\ s'[2] \in Nat
    BY <1>1 DEF Measure
  <2> HIDE DEF s
  <2> QED BY <2>2, <2>3, <2>4
<1>4. s'[3] <= s[3] /\ (visited' # visited => s'[3] < s[3])
  <2>1. /\ visited' \subseteq Names /\ visited \subseteq Names /\ IsFiniteSet(Names \ visited)
        /\ Names \ visited' \subseteq Names \ visited
        /\ visited' # visited => Names \ visited' # Names \ visited
    BY ClassLookupAssumption, FS_Subset DEF TypeOK
  <2>2. Cardinality(Names \ visited') <= Cardinality(Names \ visited)
        /\ (visited' # visited => Cardinality(Names \ visited') # Cardinality(Names \ visited))
    BY <2>1, FS_Subset
  <2>3. Cardinality(Names \ visited) = s[3] /\ Cardinality(Names \ visited') = s'[3]
    BY DEF StepsLeft
  <2>4. s[3] \in Nat /\ s'[3] \in Nat
    BY <1>1 DEF Measure
  <2> HIDE DEF s
  <2> QED BY <2>2, <2>3, <2>4
<1>5. ASSUME todo # <<>>, Len(todo') < Len(todo)
      PROVE  s'[4] < s[4]
  BY <1>5 DEF StepsLeft
<1>6. ASSUME todo # <<>>, todo' # <<>>, Len(todo') = Len(todo),
             Head(todo').from \subseteq Head(todo).from, Head(todo').from # Head(todo).from
      PROVE  s'[4] = s[4] /\ s'[5] < s[5]
  <2>1. IsFiniteSet(Head(todo).from)
    <3>1. Head(todo).from \subseteq Names
      BY <1>6, ElemsHeadTail DEF TypeOK, Item
    <3> QED BY <3>1, ClassLookupAssumption, FS_Subset
  <2>2. /\ Cardinality(Head(todo').from) <= Cardinality(Head(todo).from)
        /\ Cardinality(Head(todo').from) # Cardinality(Head(todo).from)
    BY <1>6, <2>1, FS_Subset
  <2>3. /\ Cardinality(Head(todo).from) = s[5] /\ Cardinality(Head(todo').from) = s'[5]
        /\ s'[4] = s[4]
    BY <1>6 DEF StepsLeft
  <2>4. s[5] \in Nat /\ s'[5] \in Nat
    BY <1>1 DEF Measure
  <2> HIDE DEF s
  <2> QED BY <2>2, <2>3, <2>4
<1>7. s[1] \in Nat /\ s'[1] \in Nat
  BY <1>1 DEF Measure
<1>8. s'[1] <= s[1]
  <2> HIDE DEF s
  <2> QED BY <1>2, <1>7
<1> HIDE DEF s
<1>9. <<s', s>> \in LessLeft
  BY <1>1, <1>3, <1>4, <1>5, <1>6, <1>8, FirstThatDiffers
<1> QED BY <1>9 DEF s

LEMMA EveryStepLess ==
    ASSUME TypeOK, TypeOK', ImplementsSound, Next, query = "implements" => ~ParentLoop
    PROVE  <<StepsLeft', StepsLeft>> \in LessLeft
<1>1. UNCHANGED <<graph, query, start>>
  BY DEF Next, Visit, EndRange, LookUp, ImplementsTurn
<1>2. todo # <<>> /\ todo \in Seq(Item)
  BY DEF Next, Visit, EndRange, LookUp, ImplementsTurn, Walking, TypeOK
<1>3. /\ Elems(Tail(todo)) \subseteq Elems(todo) /\ Tail(todo) \in Seq(Item)
      /\ Len(todo) \in Nat /\ Len(Tail(todo)) = Len(todo) - 1
      /\ Head(todo) \in Item
  BY <1>2, ElemsHeadTail
<1>4. ASSUME NEW c \in Names, Visit(c) PROVE <<StepsLeft', StepsLeft>> \in LessLeft
  <2>1. /\ Head(todo).k = "enter" /\ c \in Head(todo).from
        /\ answer' = answer /\ visited' = visited \union {c}
    BY <1>4 DEF Visit
  <2>2. /\ Rest(c) \in Seq(Item)
        /\ \A x \in Elems(Rest(c)) : x.k = "class" => x \in Elems(todo)
    BY <1>2, <1>3, <2>1, RestElems
  <2>3. /\ Items(c) \in Seq(Item)
        /\ \A x \in Elems(Items(c)) : x.k # "class"
    BY ItemsElems
  <2>4. Elems(Items(c) \o Rest(c)) = Elems(Items(c)) \union Elems(Rest(c))
    BY <2>2, <2>3, ElemsConcat
  <2>5. \A x \in Elems(todo') : x.k = "class" => x \in Elems(todo)
    BY <1>4, <2>2, <2>3, <2>4 DEF Visit
  <2>6. Coming' \subseteq Coming
    BY <1>1, <2>5, ComingShrinks
  <2>7. CASE c \notin visited
    BY <1>1, <2>1, <2>6, <2>7, MeasureFalls
  <2>8. CASE c \in visited /\ Head(todo).from = {c}
    <3>1. todo' = Tail(todo)
      BY <1>4, <2>8 DEF Visit, Rest
    <3>2. Len(todo') < Len(todo)
      BY <1>3, <3>1
    <3> QED BY <1>1, <1>2, <2>1, <2>6, <3>2, MeasureFalls
  <2>9. CASE c \in visited /\ Head(todo).from # {c}
    <3> DEFINE e == Enter(Head(todo).from \ {c})
    <3>1. todo' = <<e>> \o Tail(todo)
      BY <1>4, <2>9 DEF Visit, Rest
    <3>2. e \in Item /\ e.from = Head(todo).from \ {c}
      <4>1. Head(todo).from \ {c} \in SUBSET Names
        BY <1>3, <2>1 DEF Item
      <4> QED BY <4>1, OwnEnter
    <3> HIDE DEF e
    <3>3. todo' # <<>> /\ Head(todo') = e /\ Len(todo') = Len(todo)
      BY <1>3, <3>1, <3>2
    <3>4. Head(todo').from \subseteq Head(todo).from /\ Head(todo').from # Head(todo).from
      BY <2>1, <3>2, <3>3
    <3> QED BY <1>1, <1>2, <2>1, <2>6, <3>3, <3>4, MeasureFalls
  <2> QED BY <2>7, <2>8, <2>9
<1>5. CASE EndRange
  <2>1. todo' = Tail(todo) /\ answer' = answer /\ visited' = visited
    BY <1>5 DEF EndRange
  <2>2. Coming' \subseteq Coming
    BY <1>1, <1>3, <2>1, ComingShrinks
  <2>3. Len(todo') < Len(todo)
    BY <1>3, <2>1
  <2> QED BY <1>1, <1>2, <2>1, <2>2, <2>3, MeasureFalls
<1>6. CASE LookUp /\ Head(todo).cls \notin graph.declares
  <2>1. todo' = Tail(todo) /\ answer' = answer /\ visited' = visited
    BY <1>6 DEF LookUp
  <2>2. Coming' \subseteq Coming
    BY <1>1, <1>3, <2>1, ComingShrinks
  <2>3. Len(todo') < Len(todo)
    BY <1>3, <2>1
  <2> QED BY <1>1, <1>2, <2>1, <2>2, <2>3, MeasureFalls
<1>7. CASE LookUp /\ Head(todo).cls \in graph.declares
  <2> DEFINE s == StepsLeft
  <2>1. s \in Measure /\ s' \in Measure
    <3>1. (TypeOK => StepsLeft \in Measure)'
      BY MeasureType, PTL
    <3> QED BY <3>1, MeasureType DEF Measure
  <2>2. answer = {} /\ answer' # {} /\ todo' = todo /\ visited' = visited
    BY <1>7 DEF LookUp, Walking
  <2>3. Coming' = Coming
    BY <1>1, <2>2 DEF Coming, Elems, Ancestors, Least
  <2>4. s[1] = 1 /\ s'[1] = 0 /\ s'[2] = s[2] /\ s'[3] = s[3]
    BY <2>2, <2>3 DEF StepsLeft
  <2>5. s[2] \in Nat /\ s[3] \in Nat
    BY <2>1 DEF Measure
  <2> HIDE DEF s
  <2>6. <<s', s>> \in LessLeft
    BY <2>1, <2>4, <2>5, FirstThatDiffers
  <2> QED BY <2>6 DEF s
<1>8. CASE ImplementsTurn
  <2>1. query = "implements"
    BY <1>8, TurnIsLast
  <2>2. Coming' \subseteq Coming /\ Coming' # Coming
    BY <1>8, <2>1, ComingLess
  <2>3. answer' = answer /\ visited' = visited
    BY <1>8 DEF ImplementsTurn
  <2> QED BY <1>1, <2>2, <2>3, MeasureFalls
<1> QED BY <1>4, <1>5, <1>6, <1>7, <1>8 DEF Next

(* However the walk ranges over its maps, and whatever loops there are     *)
(* among classes, traits and interfaces, it cannot go on for ever unless   *)
(* it is that of Implements on parents in a circle: until it is over it    *)
(* can go on, and what is left falls in an order without infinite descent. *)
THEOREM LookupRunsOut ==
    /\ IsWellFoundedOn(LessLeft, Measure)
    /\ Spec => /\ [](Walking => WalkGoesOn)
               /\ [](StepsLeft \in Measure)
               /\ [][\/ query = "implements" /\ ParentLoop
                     \/ <<StepsLeft', StepsLeft>> \in LessLeft]_vars
<1> DEFINE Inv == TypeOK /\ ImplementsSound
           Falls == \/ query = "implements" /\ ParentLoop
                    \/ <<StepsLeft', StepsLeft>> \in LessLeft
<1>1. Init => Inv
  BY TypeInit, ImplementsSoundInit
<1>2. Inv /\ [Next]_vars => Inv'
  BY TypeStep, ImplementsSoundStep
<1>3. Inv => (Walking => WalkGoesOn) /\ StepsLeft \in Measure
  <2> SUFFICES ASSUME Inv PROVE (Walking => WalkGoesOn) /\ StepsLeft \in Measure
    OBVIOUS
  <2>1. ASSUME Walking PROVE WalkGoesOn
    <3>1. Head(todo) \in Item
      BY <2>1, ElemsHeadTail DEF Walking, TypeOK
    <3> QED BY <3>1 DEF WalkGoesOn, Item
  <2> QED BY <2>1, MeasureType
<1>4. Inv /\ [Next]_vars => [Falls]_vars
  BY <1>2, EveryStepLess
<1>5. IsWellFoundedOn(LessLeft, Measure)
  BY LessLeftEnds
<1>6. Spec => /\ [](Walking => WalkGoesOn)
              /\ [](StepsLeft \in Measure)
              /\ [][Falls]_vars
  <2> HIDE DEF Inv, Falls
  <2> QED BY <1>1, <1>2, <1>3, <1>4, PTL DEF Spec
<1> QED BY <1>5, <1>6
=============================================================================
