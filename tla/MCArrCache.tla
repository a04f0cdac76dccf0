----------------------------- MODULE MCArrCache -----------------------------
(* ArrCache for TLC: a series, its episodes, which are kept longer, and    *)
(* the movies, whose service is not configured.                            *)
EXTENDS ArrCache, TLC

CONSTANT i1

MCAsked == {[kind |-> "series", id |-> i1], [kind |-> "episodes", id |-> i1],
            [kind |-> "movies_list", id |-> None]}

Symmetry == Permutations(Call)
=============================================================================
