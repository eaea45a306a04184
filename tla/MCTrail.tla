------------------------------- MODULE MCTrail -------------------------------
(* Trail with model values for TLC. *)
EXTENDS Trail, TLC

CONSTANTS p1, h1, w1, w2, a1, a2, b1, n1, n2

\* Worker w1 has two connections in its pool, w2 one.
MCPool == [c \in Conns |-> IF c = b1 THEN w2 ELSE w1]

\* A client reads what a pump and a handler append; or what a pump appends, w2
\* sweeps and a deletion takes away; a worker sweeps a pump's pairings; or both
\* workers sweep.
MCCasts == {[writers |-> {p1, h1}, sweepers |-> {}, acts |-> {"read"}],
            [writers |-> {p1}, sweepers |-> {w2}, acts |-> {"read", "delete"}],
            [writers |-> {p1}, sweepers |-> {w1}, acts |-> {"pair"}],
            [writers |-> {p1}, sweepers |-> {w1, w2}, acts |-> {}]}

MCFilters == {{}, {"proxy_updated"}}
=============================================================================
