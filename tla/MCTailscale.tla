---------------------------- MODULE MCTailscale ------------------------------
EXTENDS Tailscale, TLC

\* The code treats the two kinds of missing login alike.
FiveStatuses == Statuses \ {"authorization_required"}

\* The statuses on which a worker goes on to a further request, and one on which both
\* give up.
FewStatuses == {"login_required", "connected", "connecting"}

Symmetry == Permutations(Tasks)
=============================================================================
