------------------------------- MODULE MCJobs -------------------------------
(***************************************************************************)
(* Jobs for TLC: one job more than the table keeps, two at a time, beside  *)
(* one call of any tool.                                                   *)
(***************************************************************************)
EXTENDS Jobs

MCJob == 1..3
=============================================================================
