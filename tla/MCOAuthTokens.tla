--------------------------- MODULE MCOAuthTokens ---------------------------
(* Small instances of OAuthTokens for TLC: the values the configuration    *)
(* files cannot write down.                                                *)
EXTENDS OAuthTokens, TLC

\* Every IoT agent belongs to one and the same application.
OneHome == LET c == CHOOSE x \in Clients : TRUE IN [i \in Iots |-> c]
AllTypes == [c \in Clients |-> {"bearer", "permanent", "jwt"}]

Plain == {{}}
Special == {{}, {"permanent"}, {"jwt"}}

\* Requests are interchangeable, and so are the strings of one kind.
SafetySymmetry == Permutations(Reqs) \cup Permutations(Refreshes)
                    \cup Permutations(Accesses) \cup Permutations(Codes)
=============================================================================
