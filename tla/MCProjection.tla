----------------------------- MODULE MCProjection -----------------------------
(***************************************************************************)
(* Projection for TLC: two partitions, and the kinds of keys and payloads  *)
(* a binding tells apart.                                                  *)
(***************************************************************************)
EXTENDS Projection, TLC

CONSTANTS p1, p2, ka, kb, kx, v1, v2, broken

\* Two keys, each on its own partition.
PlainRawKey == {"a", "b"}
PlainPartitionOf == [q \in PlainRawKey |-> IF q = "a" THEN p1 ELSE p2]
PlainDecodeKey == [q \in PlainRawKey |-> IF q = "a" THEN ka ELSE kb]
NoneRejected == {}

\* Two spellings of one key, each on its own partition, with a key the filter
\* drops whatever its value (synthetic monitor traffic) and one that does not
\* decode.
SpelledRawKey == {"7", "07", "m", "?"}
SpelledPartitionOf == [q \in SpelledRawKey |-> IF q \in {"07", "?"} THEN p2 ELSE p1]
SpelledDecodeKey ==
    [q \in SpelledRawKey |-> CASE q \in {"7", "07"} -> ka [] q = "m" -> kx [] OTHER -> Bad]
MonitorRejected == {kx} \X Payload

\* One key on one partition.
SingleRawKey == {"a"}
SinglePartitionOf == [q \in SingleRawKey |-> p1]
SingleDecodeKey == [q \in SingleRawKey |-> ka]

Symmetry == Permutations(Replica) \cup Permutations({v1, v2})

=============================================================================
