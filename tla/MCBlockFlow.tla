--------------------------- MODULE MCBlockFlow ----------------------------
(* Bodies of three statements: a simple one, then one compound statement   *)
(* with up to two levels of nesting, then a simple one.                    *)
EXTENDS BlockFlow

Leaves1(ks) == {<<Leaf(k)>> : k \in ks}
One(S) == {<<s>> : s \in S}

(* Blocks without and with jumps out of a loop or a switch.                *)
Plain ==
    {<<>>, <<Leaf("call"), Leaf("assign")>>, <<Leaf("assign"), Leaf("return")>>}
    \union Leaves1({"assign", "use", "throw", "unset"})
Few == {<<>>} \union Leaves1({"assign", "use", "return"})
Jumping == Leaves1({"break", "continue"})
Bodies == Plain \union Jumping \union {<<Leaf("exits"), Leaf("use")>>, <<Leaf("assign"), Leaf("break")>>,
                                 <<Leaf("use"), Leaf("assign")>>}

IfOf(S, T) ==
    {If(<<b>>, FALSE, FALSE) : b \in S} \union {If(<<b, c>>, TRUE, FALSE) : b \in S, c \in T}
TryOf(S, T) ==
    {Try(b, <<c>>, <<>>) : b \in S, c \in T} \union {Try(b, <<>>, <<c>>) : b \in S, c \in T}

(* What may be nested: an if or a try, some of whose ends jump, and then a *)
(* simple statement or none.                                               *)
InnerFew == Leaves1({"assign", "break", "throw"})
Inner == IfOf(InnerFew \union {<<Leaf("continue")>>}, InnerFew \union {<<>>})
         \union TryOf({<<Leaf("call"), Leaf("assign")>>, <<Leaf("break")>>}, Leaves1({"break", "return"}))
Deep == {<<s>> : s \in Inner} \union {<<s, Leaf(k)>> : s \in Inner, k \in {"assign", "use", "return"}}

LoopsOf(S) ==
    {Loop(k, <<b>>) : k \in {"while", "do", "foreach"}, b \in S}
    \union {Loop("for", <<b, h>>) : b \in S,
              h \in {<<>>, <<Leaf("assign")>>, <<Leaf("use"), Leaf("assign")>>}}
SwitchesOf(S, T, U) ==
    {Switch(<<b, c>>, d) : b \in S, c \in T, d \in {0, 1, 2}}
    \union {Switch(<<b, c, <<Leaf("use")>>>>, d) : b \in U, c \in U, d \in {0, 3}}

Compound ==
    IfOf(Plain, Plain) \union {If(<<b, c>>, FALSE, TRUE) : b \in Few, c \in Few}
    \union {If(<<a, b, c>>, TRUE, FALSE) : a \in Few, b \in Few, c \in Few}
    \union LoopsOf(Bodies \union Deep)
    \union SwitchesOf(Bodies, Bodies, Few \union Jumping)
    \union SwitchesOf(Deep, Leaves1({"assign", "return"}), {})
    \union TryOf(Plain, Plain \union {<<Leaf("exits")>>})
    \union {Try(b, <<c>>, <<f>>) : b \in Few, c \in Plain, f \in Few}
    \union {Loop("while", <<<<s, Leaf("continue")>>>>) : s \in SwitchesOf(Few \union Jumping, Jumping, {})}
    \union {Switch(<<<<l, Leaf("continue")>>, <<Leaf("use")>>>>, 2) : l \in LoopsOf(Few \union Jumping)}
    \union {Try(<<s>>, <<c>>, <<>>) : s \in LoopsOf(Few) \union IfOf(Few, Few), c \in Few}
    \union LoopsOf({<<l, Leaf(k)>> : l \in LoopsOf(Few \union Jumping), k \in {"assign", "use", "break"}})
    \union IfOf(One(LoopsOf(Few \union Jumping) \union SwitchesOf(Few, Few, {}) \union TryOf(Few, Few)),
                Leaves1({"assign", "return"}))
    \union TryOf({<<Loop("while", <<b>>), Leaf("assign")>> : b \in Deep}, Few)
    \union {Switch(<<<<Switch(<<b, c>>, d)>>, e>>, 1) : b \in Jumping \union Few, c \in Few, d \in {0, 2},
              e \in Leaves1({"assign", "return", "throw"})}

MCMenu ==
    <<{Leaf(k) : k \in {"assign", "use", "call"}},
      Compound \union {Leaf(k) : k \in {"exits", "or", "and", "throw", "die", "unset"}},
      {Leaf(k) : k \in {"use", "assign", "die", "throw", "return"}}>>
=============================================================================
