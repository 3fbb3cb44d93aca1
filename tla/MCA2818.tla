------------------------------- MODULE MCA2818 -------------------------------
(* Answers of one and of two packets; a thread that uses one slave, and one  *)
(* that uses the same or the other.                                          *)
EXTENDS A2818

CONSTANTS t1, s1

MCAnswerSize == [c \in Calls |-> 1 + (c % 2)]

MCMayOpen == [t \in Threads |-> IF t = t1 THEN {s1} ELSE Slaves]

=============================================================================
