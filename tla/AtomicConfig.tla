---------------------------- MODULE AtomicConfig -----------------------------
(***************************************************************************)
(* What the setters of glinet4/_routes promise: each does what it was      *)
(* asked at one instant, and says so.  On a router that is shared anything *)
(* may change besides, and under a setter while it is at work.             *)
(***************************************************************************)
EXTENDS Settings

VARIABLES
    router,     \* its configuration, one record per part
    shared,     \* whether others change it, or calls overlap
    asked,      \* the call each task is in
    out         \* how its last call ended

\* What the router does by itself: a self-test ends, the statistics fill, a reboot
\* takes place, which also ends a test.
Settles(old, new) ==
    \/ new = [old EXCEPT !.test.test = FALSE]
    \/ new = [old EXCEPT !.stats.collected = TRUE]
    \/ new = [old EXCEPT !.power.rebooting = FALSE, !.test.test = FALSE]

Init ==
    /\ router \in Routers
    /\ shared \in BOOLEAN
    /\ asked = [t \in Tasks |-> NoCall]
    /\ out = [t \in Tasks |-> "none"]

Begin(t, c) ==
    /\ asked[t] = NoCall
    /\ asked' = [asked EXCEPT ![t] = c]
    /\ out' = [out EXCEPT ![t] = "none"]
    /\ UNCHANGED router

\* Turned down at once.
Decline(t) ==
    /\ asked[t] = NoCall
    /\ out' = [out EXCEPT ![t] = "ValueError"]
    /\ UNCHANGED <<asked, router>>

End(t, end) ==
    /\ asked[t] # NoCall
    /\ asked' = [asked EXCEPT ![t] = NoCall]
    /\ out' = [out EXCEPT ![t] = end]

\* On a shared router, what is asked may not be what is done any more.
CarryOut(c) ==
    /\ ~shared => Done(c, router, router')
    /\ \A part \in AllParts \ {c.part} : router'[part] = router[part]

Succeed(t) == End(t, "done") /\ CarryOut(asked[t])
Fail(t) == End(t, "RequestFailed") /\ (UNCHANGED router \/ CarryOut(asked[t]))
Refuse(t) == (\E end \in Refusals : End(t, end)) /\ UNCHANGED router

Otherwise ==
    /\ \/ shared /\ router' \in Routers
       \/ Settles(router, router')
    /\ UNCHANGED <<asked, out>>

Next ==
    /\ \/ Otherwise
       \/ \E t \in Tasks :
             \/ Decline(t) \/ Succeed(t) \/ Fail(t) \/ Refuse(t)
             \/ \E c \in Calls : Begin(t, c)
    /\ UNCHANGED shared

Spec == Init /\ [][Next]_<<router, shared, asked, out>>
=============================================================================
