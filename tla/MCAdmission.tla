---------------------------- MODULE MCAdmission ----------------------------
(* A finite instance of Admission: one slot for each class and three       *)
(* threads, so that two can wait for the slot the third one holds.         *)
EXTENDS Admission

CONSTANTS t1, t2, t3

MCThreads == {t1, t2, t3}
=============================================================================
