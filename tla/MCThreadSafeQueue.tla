-------------------------- MODULE MCThreadSafeQueue --------------------------
(* Two producers, two consumers and an isEmpty caller on one queue.        *)
EXTENDS ThreadSafeQueue

CONSTANTS p1, p2, c1, c2, o1, a, b

MCProducers == {p1, p2}
MCConsumers == {c1, c2}
MCObservers == {o1}
MCData == {a, b}
=============================================================================
