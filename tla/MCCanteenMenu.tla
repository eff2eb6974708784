---------------------------- MODULE MCCanteenMenu ----------------------------
(* A small instance of CanteenMenu: two overlapping requests for a cache    *)
(* that holds one, a dish that changes, moves, vanishes and returns, and a  *)
(* code that is renumbered.                                                 *)
EXTENDS CanteenMenu

CONSTANTS A, P, Q, Soup, Pasta, Cheap, Dear, C1, C9, LMilk, LOats, Milk, Oats, Gluten,
          Vegan, SprintTrait

Content(d, name, codes, prices) ==
    [canteen |-> A, date |-> d, name |-> name, codes |-> codes, sprint |-> FALSE,
     prices |-> prices]
SoupToday == Content(1, Soup, {C1, C9}, {Cheap})
SoupDear == Content(1, Soup, {C1, C9}, {Cheap, Dear})
PastaNext == Content(2, Pasta, {C9}, {Dear})
MCContents == {SoupToday, SoupDear, PastaNext}
Menu(x, y) == [p \in {P, Q} |-> IF p = P THEN x ELSE y]
Stored(x, l) == [menu |-> [p \in {P, Q} |-> IF p = P THEN x ELSE PastaNext],
                 dict |-> [c \in {C1, C9} |-> IF c = C9 THEN l ELSE LMilk]]
MCImports == {Stored(SoupToday, LOats), Stored(SoupDear, None), Stored(None, LOats)}
MCKeys == {[canteen |-> A, from |-> 1, to |-> 2], [canteen |-> A, from |-> 2, to |-> 2]}

MCCodeToAllergen == [c \in {C1, C9} |-> IF c = C1 THEN Milk ELSE None]
MCCodeToTrait == [c \in {C1, C9} |-> None]
MCLabelToAllergen == [l \in {LMilk, LOats} |-> IF l = LOats THEN Oats ELSE Milk]
MCLabelToTrait == [l \in {LMilk, LOats} |-> None]
MCParent == [a \in {Milk, Oats, Gluten} |-> IF a = Oats THEN Gluten ELSE None]
=============================================================================
