---------------------------- MODULE MCMetaIndex ----------------------------
(* Three files, a class, a function of two lengths and a lasting name.     *)
EXTENDS MetaIndex

CONSTANTS a, b, c, C, F, G, nothing, class, short, long, all

MCFiles == {a, b, c}
MCVersions == {nothing, class, short, long, all}
MCClassNames == {C}
MCFunctionNames == {F}
MCLastingNames == {G}
MCClasses == [v \in MCVersions |-> IF v \in {class, all} THEN {C} ELSE {}]
MCLength ==
    [v \in MCVersions |-> [n \in {F} |->
        CASE v = short -> 1 [] v = long -> 2 [] v = all -> 2 [] OTHER -> 0]]
MCLasting == [v \in MCVersions |-> IF v = all THEN {G} ELSE {}]
=============================================================================
