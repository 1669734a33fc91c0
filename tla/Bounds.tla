------------------------------- MODULE Bounds -------------------------------
(* The lesser and the greater of two numbers: min and max of the code.     *)
EXTENDS Integers

Lesser(m, n) == IF m < n THEN m ELSE n
Greater(m, n) == IF m < n THEN n ELSE m
=============================================================================
