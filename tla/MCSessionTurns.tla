---------------------------- MODULE MCSessionTurns ----------------------------
(* TLC instances of SessionTurns.                                          *)
EXTENDS SessionTurns, TLC

\* Turns of one kind are interchangeable: nothing in the code orders them.
TurnSymmetry == Permutations(Prompts) \cup Permutations(GatewayTurns)
=============================================================================
