----------------------------- MODULE MCAccounts -----------------------------
EXTENDS Accounts, TLC

CONSTANTS u1, u2, h1, h2

Person(role, active, password, fails) ==
    [role |-> role, active |-> active, password |-> password, fails |-> fails, locked |-> "none"]

\* Beside an admin: another one, who has failed once, an invitation, or nobody so far.
MCFirstUsers ==
    {[u \in Users |-> IF u = u1 THEN Person("admin", TRUE, TRUE, 0) ELSE p] :
        p \in {Person("admin", TRUE, TRUE, 1), Person("operator", FALSE, FALSE, 0), None}}

HandlersAlike == Permutations(Handlers)
=============================================================================
