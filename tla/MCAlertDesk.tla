---------------------------- MODULE MCAlertDesk ----------------------------
(***************************************************************************)
(* A model-checking instance of AlertDesk: two alerts, three contents of   *)
(* which two share their payload digest, and a suite of two scenarios.     *)
(***************************************************************************)
EXTENDS AlertDesk, TLC

CONSTANTS i1, i2, q1, q2, v1, v2, s1, s2, a1, a2, k1, d1, d2, t1, t2

Sent == {[digest |-> d1, text |-> t1], [digest |-> d1, text |-> t2],
         [digest |-> d2, text |-> t1]}

Interchangeable == Permutations({i1, i2}) \cup Permutations({v1, v2})
                       \cup Permutations({s1, s2}) \cup Permutations({a1, a2})
=============================================================================
