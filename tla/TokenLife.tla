----------------------------- MODULE TokenLife -----------------------------
(***************************************************************************)
(* What a client may rely on about the strings the identity manager hands  *)
(* out, authorization codes, refresh tokens and access tokens alike: each  *)
(* is issued once, to one holder, and once it has stopped working it never *)
(* works again, for that holder or for any other.                          *)
(***************************************************************************)
CONSTANTS Tokens, Holders, Nobody
VARIABLES phase, holder

Init == /\ phase = [t \in Tokens |-> "unborn"]
        /\ holder = [t \in Tokens |-> Nobody]

Issue(t, h) == /\ phase[t] = "unborn"
               /\ phase' = [phase EXCEPT ![t] = "usable"]
               /\ holder' = [holder EXCEPT ![t] = h]

\* Spending, revoking, expiry and deletion; a deletion or the passing of
\* time may retire many at once.
Retire(S) == /\ \A t \in S : phase[t] = "usable"
             /\ phase' = [t \in Tokens |-> IF t \in S THEN "dead" ELSE phase[t]]
             /\ UNCHANGED holder

Next == \/ \E t \in Tokens, h \in Holders : Issue(t, h)
        \/ \E S \in SUBSET Tokens : Retire(S)

Spec == Init /\ [][Next]_<<phase, holder>>
=============================================================================
