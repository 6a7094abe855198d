-------------------------- MODULE MCGridValidation --------------------------
(* Instances of GridValidation: a substation with two transformers; the first *)
(* feeds two connection points, the second one. *)
EXTENDS GridValidation, TLC

Nodes == {"s", "t", "a", "b", "u", "c"}
ParentOf == [s |-> None, t |-> "s", a |-> "t", b |-> "t", u |-> "s", c |-> "u"]
FeederOf == [s |-> "f1", t |-> "f1", a |-> "f1", b |-> "f1", u |-> "f2", c |-> "f2"]
Rated == [s |-> 0, t |-> 4, a |-> 3, b |-> 3, u |-> 3, c |-> 3]

\* All ratings known; one missing, and b not yet built; a smaller transformer, and a line
\* that is overloaded without any trade.
SomeTwins == {Rated, [n \in Nodes \ {"b"} |-> IF n = "a" THEN 0 ELSE Rated[n]],
              [Rated EXCEPT !["t"] = 1, !["b"] = 1]}

Evening == [s |-> 0, t |-> 0, a |-> 1, b |-> -2, u |-> 0, c |-> -1]

Offer(seller, buyer, kw, feeder) == [seller |-> seller, buyer |-> buyer, kw |-> kw, feeder |-> feeder]
OneTrade == {Offer("a", "b", 1, "f1")}
Late == {<<"f1", 1>>, <<"f1", 2>>}

Alike == Permutations(Workers)
=============================================================================
