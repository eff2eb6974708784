------------------------------ MODULE MCCanteen ------------------------------
(* A small instance of Canteen: two canteens that may exchange a dish, days *)
(* with and without names, an anomaly of each kind.                         *)
EXTENDS Canteen

CONSTANTS A, B, X, Y, T, Soup, Pasta, Cheap, Dear, Milk, LMilk, LEgg

MCRegistry == <<A, B>>

E(id, loc, date, dish, prices) ==
    [id |-> id, loc |-> loc, date |-> date, dish |-> dish, prices |-> prices]
Ans(list, l) == [list |-> list, ingredients |-> [k \in Codes |-> LEgg],
                 markers |-> [k \in Codes |-> l]]

(* The day plan of A: X on day 1; or a placeholder for it; or X named twice; *)
(* or X gone between two named days; or on a day of placeholders only.       *)
XToday == Ans(<<E(X, A, 1, Soup, Cheap)>>, None)
XTwice == Ans(<<E(X, A, 1, Soup, Cheap), E(Y, A, 2, Soup, Cheap), E(X, A, 2, Pasta, Dear)>>, LMilk)
XHeld  == Ans(<<E(Y, A, 1, Pasta, Dear), E(X, A, 1, Blank, Cheap)>>, None)
XGone  == Ans(<<E(Y, A, 1, Pasta, Cheap)>>, LMilk)
DayOff == Ans(<<E(Y, A, 0, Pasta, Cheap), E(Y, A, 1, Blank, Cheap), E(Y, A, 2, Pasta, Cheap)>>, None)
Nobody == Ans(<<>>, None)
Strange == Ans(<<E(X, B, 1, Pasta, Dear), E(Y, B, 2, Blank, Dear)>>, None)
XAtB   == Ans(<<E(X, B, 2, Soup, Dear)>>, None)
YAtB   == Ans(<<E(Y, B, 1, Pasta, Dear), E(X, A, 0, Soup, Cheap)>>, None)

Pair(x, y) == [c \in {A, B} |-> IF c = A THEN x ELSE y]
MCSources == {Pair(XToday, YAtB), Pair(XTwice, Nobody), Pair(XHeld, Nobody), Pair(XGone, XAtB),
              Pair(XGone, Broken), Pair(DayOff, XAtB),
              Pair(Strange, YAtB), Pair(Broken, XAtB)}

TestRow(d) == [source |-> "user-test", canteen |-> A, date |-> d, dish |-> Soup, prices |-> Dear]
MCTestMeals == {[p \in {T} |-> TestRow(1)], [p \in {T} |-> TestRow(2)]}
MCTestLabels == [k \in {Milk} |-> LEgg]
=============================================================================
