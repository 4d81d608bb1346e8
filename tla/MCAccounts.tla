----------------------------- MODULE MCAccounts -----------------------------
(* Small instances of Accounts for TLC.                                    *)
EXTENDS Accounts, TLC

\* Accounts, addresses, keys, rows, browsers and requests of one kind are
\* interchangeable.
SafetySymmetry == Permutations(Ids) \cup Permutations(Emails)
                    \cup Permutations(Keys) \cup Permutations(Reqs)
                    \cup Permutations(Browsers) \cup Permutations(Profiles)
=============================================================================
