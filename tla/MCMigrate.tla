------------------------------ MODULE MCMigrate ------------------------------
EXTENDS Migrate
CONSTANTS p1, p2, p3

\* What earlier versions may have left: the first tables of the slice, some in
\* the middle, or only accounts and sessions.
OlderTables ==
  {{Tables[i] : i \in 1..n} : n \in 0..6}
    \cup {{"account", "session"}, {"update_email", "verification"}}
=============================================================================
