----------------------- MODULE MC_AuthorizationFixes -----------------------
EXTENDS AuthorizationFixes

CONSTANTS a1, a2, a3, c1, c2, c3, m1

MCAccounts == {a1, a2, a3}
MCControllers == {c1, c2, c3}
MCMembers == {m1}

\* a1 holds two controllers, a2 one, a3 none (its storage map is nil)
MCOwner == [c \in MCControllers |-> IF c = c3 THEN a2 ELSE a1]
=============================================================================
