---------------------------- MODULE MCLockerList ----------------------------
(***************************************************************************)
(* Model values for LockerList: one caller locks once, the other twice, so *)
(* that a second Lock can meet the objects the first round left behind.    *)
(***************************************************************************)
EXTENDS LockerList, TLC

CONSTANTS c1, c2

MCMaxCalls == (c1 :> 1) @@ (c2 :> 2)
====
