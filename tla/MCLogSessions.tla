----------------------------- MODULE MCLogSessions -----------------------------
(* Two ids of two windows, of which one is used again; room for one session or *)
(* for two. *)
EXTENDS LogSessions

CONSTANTS r1, r2

MCOwnerOf == [r \in {r1, r2} |-> IF r = r1 THEN "main" ELSE "second"]
MCUsesOf == [r \in {r1, r2} |-> IF r = r1 THEN 2 ELSE 1]
===============================================================================
