----------------------------- MODULE SessionOwner ----------------------------
(***************************************************************************)
(* What the transport promises about HTTP sessions (_transport.py:36-41):  *)
(* it either owns the sessions it uses or was lent one.  Owned sessions    *)
(* exist one at a time, and each is closed by the transport; a session the *)
(* caller supplied is closed by the caller only, and the transport makes   *)
(* no other.                                                               *)
(***************************************************************************)

CONSTANT Sessions

VARIABLES
    lent,   \* whether the session was supplied by the caller
    life    \* "unborn", "open", "closed" by the transport, "gone": by the caller

vars == <<lent, life>>

Open == {s \in Sessions : life[s] = "open"}

Init ==
    \/ lent = FALSE /\ life = [s \in Sessions |-> "unborn"]
    \/ /\ lent = TRUE
       /\ \E one \in Sessions :
             life = [s \in Sessions |-> IF s = one THEN "open" ELSE "unborn"]

Create(s) ==
    /\ ~lent
    /\ Open = {}
    /\ life[s] = "unborn"
    /\ life' = [life EXCEPT ![s] = "open"]
    /\ UNCHANGED lent

Close(s) ==
    /\ ~lent
    /\ life[s] = "open"
    /\ life' = [life EXCEPT ![s] = "closed"]
    /\ UNCHANGED lent

CallerCloses(s) ==
    /\ lent
    /\ life[s] = "open"
    /\ life' = [life EXCEPT ![s] = "gone"]
    /\ UNCHANGED lent

Next == \E s \in Sessions : Create(s) \/ Close(s) \/ CallerCloses(s)

Spec == Init /\ [][Next]_vars
=============================================================================
