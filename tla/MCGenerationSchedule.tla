---------------------- MODULE MCGenerationSchedule ----------------------
(* Small instances of GenerationSchedule: two dates, the second of which has a
   window that a transition of the time zone shortens, and another time zone
   that is some hours ahead. *)
EXTENDS GenerationSchedule, TLC

Symmetric == Permutations(Schedulers)

Home ==
    [zone |-> [t \in Times |-> IF t < 6 THEN 1 ELSE 2], start |-> <<1, 7>>, end |-> <<5, 8>>,
     minPerDay |-> 1, maxPerDay |-> 2, dailyCap |-> 2, spacing |-> 2, sourceMaxAge |-> 2]
Ahead ==
    [Home EXCEPT !.zone = [t \in Times |-> IF t < 4 THEN 1 ELSE 2], !.start = <<1, 5>>, !.end = <<3, 8>>,
                 !.maxPerDay = 1, !.spacing = 1]

HomeAndAhead == {Home, Ahead}
=============================================================================
