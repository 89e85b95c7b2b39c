------------------------------ MODULE MCSignals ------------------------------
(* A small reactive graph: signals a and b, a memo of a, three effects that *)
(* may feed each other or throw, one component.                            *)
EXTENDS Signals

CONSTANTS a, b, m, e1, e2, e3

Body(reads, write, throws) == [reads |-> reads, write |-> write, throws |-> throws]

MCMemoReads == [x \in {m} |-> a]
MCBodies ==
    [e \in {e1, e2, e3} |->
        CASE e = e1 -> {Body({a}, b, FALSE), Body({m}, None, TRUE)}
          [] e = e2 -> {Body({b, m}, None, TRUE), Body({b}, a, FALSE)}
          [] OTHER  -> {Body({m}, None, FALSE)}]
MCViews == {{m}, {b}}
=============================================================================
