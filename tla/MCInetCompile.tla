----------------------------- MODULE MCInetCompile -----------------------------
(* Two mutually recursive functions, one of which calls a third one.       *)
EXTENDS InetCompile

CONSTANTS even, odd, step

CycleCallees ==
    [f \in {even, odd, step} |->
        CASE f = even -> <<odd>>
          [] f = odd -> <<step, even>>
          [] OTHER -> <<>>]

AllFragile == Functions \X Stages
=============================================================================
