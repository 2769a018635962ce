------------------------------- MODULE MCMount ------------------------------
(* Two CPUs, a few blocks, and two range entries per log page.               *)
EXTENDS Mount, TLC
=============================================================================
