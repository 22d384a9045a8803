---------------------------- MODULE DrainContract ----------------------------
(***************************************************************************)
(* What a shutdown promises to those who call it, without the mechanism:   *)
(* work starts only while the service is open; a closed service never      *)
(* opens again; the verdict "drained" is given only at a moment when no    *)
(* work is live, "forced" only once the deadline has expired; the verdict  *)
(* is given at most once and precedes the stop.  WorkAdmission implements  *)
(* this contract.                                                          *)
(***************************************************************************)
CONSTANT Op

VARIABLES open, live, expired, verdict, stopped

vars == <<open, live, expired, verdict, stopped>>

Init ==
    /\ open = TRUE
    /\ live = {}
    /\ expired = FALSE
    /\ verdict = "none"
    /\ stopped = FALSE

Start(o) ==
    /\ open
    /\ o \notin live
    /\ live' = live \cup {o}
    /\ UNCHANGED <<open, expired, verdict, stopped>>

End(o) ==
    /\ o \in live
    /\ live' = live \ {o}
    /\ UNCHANGED <<open, expired, verdict, stopped>>

\* Closing an idle service may decide at once.
Close ==
    /\ open
    /\ open' = FALSE
    /\ verdict' \in IF live = {} THEN {"none", "drained"} ELSE {"none"}
    /\ UNCHANGED <<live, expired, stopped>>

Expire ==
    /\ ~open
    /\ expired' = TRUE
    /\ UNCHANGED <<open, live, verdict, stopped>>

Decide ==
    /\ ~open
    /\ ~stopped
    /\ verdict = "none"
    /\ \/ live = {} /\ verdict' = "drained"
       \/ expired /\ verdict' = "forced"
    /\ UNCHANGED <<open, live, expired, stopped>>

Stop ==
    /\ verdict # "none"
    /\ stopped' = TRUE
    /\ UNCHANGED <<open, live, expired, verdict>>

\* The last owner of the service disappears: it stops without a verdict.
Vanish ==
    /\ open' = FALSE
    /\ stopped' = TRUE
    /\ UNCHANGED <<live, expired, verdict>>

Next ==
    \/ \E o \in Op : Start(o) \/ End(o)
    \/ Close \/ Expire \/ Decide \/ Stop \/ Vanish

Spec == Init /\ [][Next]_vars
=============================================================================
