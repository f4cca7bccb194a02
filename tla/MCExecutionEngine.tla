------------------------- MODULE MCExecutionEngine -------------------------
(* TLC instance of ExecutionEngine: two orders are interchangeable.        *)
EXTENDS ExecutionEngine, TLC

CONSTANTS o1, o2

OrdersSymmetry == Permutations({o1, o2})
=============================================================================
