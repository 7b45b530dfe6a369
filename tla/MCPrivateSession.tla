-------------------------- MODULE MCPrivateSession --------------------------
(***************************************************************************)
(* Instances of PrivateSession for TLC.                                    *)
(***************************************************************************)
EXTENDS PrivateSession, TLC

CONSTANTS c1, c2, c3

ThreeConnections == {c1, c2, c3}

\* A connection id is only compared, so ids are interchangeable.
ConnSymmetry == Permutations(Conn)
=============================================================================
