----------------------------- MODULE MCUserSessions -----------------------------
EXTENDS UserSessions, TLC

CONSTANTS r1, r2, r3, r4

\* Two requests that open sessions, one that ends and one that uses them
MCMay == (r1 :> {"register", "login"} @@ r2 :> {"register", "login"} @@ r3 :> {"logout"} @@ r4 :> {"me"})
================================================================================
