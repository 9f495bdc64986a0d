------------------------------ MODULE Allowance ------------------------------
(***************************************************************************)
(* What each limit of the production guard amounts to when any number of   *)
(* clients use it: a counter that is compared in one step and raised in a  *)
(* later one, by Most at the most.  Only a client that found room may      *)
(* raise it, once, and it may give up instead; nobody is told of the       *)
(* others that found room.                                                 *)
(***************************************************************************)
EXTENDS Naturals

CONSTANTS Client, Limit, Most

VARIABLES used,   \* what is counted
          passed  \* the clients that found room and are not counted yet

allowanceVars == <<used, passed>>

AllowanceInit == used = 0 /\ passed = {}

FindRoom(c) ==
    /\ c \notin passed /\ used < Limit
    /\ passed' = passed \cup {c}
    /\ UNCHANGED used

Count(c) ==
    /\ c \in passed
    /\ \E d \in 1..Most : used' = used + d
    /\ passed' = passed \ {c}

GiveUp(c) ==
    /\ c \in passed
    /\ passed' = passed \ {c}
    /\ UNCHANGED used

(* What was counted long enough ago is counted no longer.                  *)
Fade == used' \in 0..used /\ UNCHANGED passed

AllowanceNext == \E c \in Client : FindRoom(c) \/ Count(c) \/ GiveUp(c)

(* A counter that only grows, and one that looks back for a while.         *)
KeptSpec   == AllowanceInit /\ [][AllowanceNext]_allowanceVars
FadingSpec == AllowanceInit /\ [][AllowanceNext \/ Fade]_allowanceVars
=============================================================================
