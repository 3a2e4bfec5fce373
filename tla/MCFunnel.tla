------------------------------ MODULE MCFunnel ------------------------------
(* Funnel for TLC: two vacancies, a plan with an incomplete item.           *)
EXTENDS Funnel, TLC

CONSTANTS v1, v2, bad

MCVacancies == {v1, v2}
MCPlans == {<<v1, v2>>, <<bad>>}
=============================================================================
