------------------------------ MODULE MCWorkList ------------------------------
(* An instance of WorkList: one command, one monitor and a run of two. *)
EXTENDS WorkList

CONSTANTS w1, w2

MCChildren == <<w1, w2>>
MCOneChild == <<w1>>
===============================================================================
