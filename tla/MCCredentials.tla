--------------------------- MODULE MCCredentials ---------------------------
(* Accounts and overlapping operations for the run of Credentials.         *)
EXTENDS CredentialsInv, TLC

CONSTANTS u1, u2, a1, a2

OneHome == u1 :> a1
Overlap == {{"signIn", "change", "forgot", "reset"},
            {"signIn", "forgot", "reset", "address"},
            {"signIn", "signUp", "address", "delete", "verify"},
            {"signIn", "change", "delete", "end"}}
Symmetry == Permutations(Request)
=============================================================================
