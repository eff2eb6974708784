---------------------------- MODULE MCTimetable ----------------------------
(* Two classes, two lessons and the change of the school year on day 2. *)
EXTENDS Timetable, TLC
CONSTANTS a, b, l1, l2, y1, y2, t1, t2

MCFirst == (y1 :> 0) @@ (y2 :> 2)
MCLast == (y1 :> 1) @@ (y2 :> 3)

Lesson(d, t, cs) == [date |-> d, content |-> t, classes |-> cs]
Pair(p, q) == (l1 :> p) @@ (l2 :> q)

(* A lesson is moved into the next year, is left by a class, disappears,   *)
(* loses its title; a window without lessons.                              *)
MCPlans == { Pair(Lesson(1, t1, {a, b}), Lesson(2, t1, {a})),
             Pair(Lesson(1, t1, {b}), Lesson(1, t2, {a})),
             Pair(Lesson(1, None, {a, b}), Lesson(1, t1, {b})),
             Pair(Lesson(3, t1, {a, b}), None) }

Offer(p, q) == (y1 :> p) @@ (y2 :> q)

(* The next year is not published yet, is published without classes, drops *)
(* and gains a class.                                                      *)
MCCatalogues == { Offer({a, b}, None), Offer({a, b}, {}), Offer({a}, {a, b}) }
=============================================================================
