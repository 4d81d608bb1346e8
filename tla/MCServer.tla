------------------------------ MODULE MCServer -------------------------------
(* Three parts of the servers that share no table, one at a time: part says   *)
(* which of the modules moves, while the others stay in an initial state.     *)
(* The properties are those of the modules.                                   *)
EXTENDS TwoFactor, ApiTokens, Capture

CONSTANTS Parts, Phones
VARIABLE part

\* Requests and responses, one of them without parameters; the shortest.
SomeTraffic ==
    {<<"request", "response", "request">>,
     <<"other", "response", "request", "request">>,
     <<"request", "bare", "response">>,
     <<"request", "response">>}
Short == <<"request", "response">>
\* Browsers of two kinds: those of a kind send the same string.
ByKind == [b \in Browsers |-> IF b \in Phones THEN "phone" ELSE "desktop"]
AWord == CHOOSE w \in Passwords : TRUE

\* What the modules ask of the constants.
ASSUME ServerAssumption == FactorAssumption /\ ApiAssumption /\ CaptureAssumption

allVars == <<part, factorVars, apiVars, captureVars>>

ServerInit ==
    /\ part \in Parts
    /\ FactorInit /\ ApiInit /\ CaptureInit
    /\ part \notin {"factor", "links"} => extra = None
    /\ word = [o \in Owners |-> AWord]
    /\ IF part = "capture" THEN traffic # Short ELSE traffic = Short

ServerNext ==
    /\ UNCHANGED part
    /\ \/ part \in {"factor", "links"} /\ FactorNext /\ UNCHANGED <<apiVars, captureVars>>
       \/ part \in {"tokens", "issue"} /\ ApiNext /\ UNCHANGED <<factorVars, captureVars>>
       \/ part \in {"capture", "overlap"} /\ CaptureNext
          /\ UNCHANGED <<factorVars, apiVars>>

\* Requests that wait are served, and threads go on.
ServerSpec ==
    /\ ServerInit /\ [][ServerNext]_allVars
    /\ \A c \in Callers : WF_apiVars(Handle(c))
    /\ \A c \in Capturers : WF_captureVars(Step(c))

\* Where the parts stop: the second factor in two browsers of one kind, without the
\* mailed links, and the links with one secret, in a browser of each kind, without a
\* sign-in by an application; tokens of all kinds while
\* passwords stay, and new tokens while those of an administrator and of a proxy
\* change; captures one after the other, and two that may overlap.
Unused(b) == cookie[b] = None /\ page[b] = NoPage /\ asking[b] = NoLink
Bounds ==
    /\ part = "factor" => /\ \A b \in Browsers : asking[b].st = "none"
                          /\ \A b \in Phones : Unused(b)
    /\ part = "links" =>
         /\ Unused(CHOOSE b \in Browsers \ Phones : TRUE)
         /\ used \cap Secrets \subseteq {CHOOSE s \in Secrets : TRUE}
         /\ Cardinality(sent) <= 1
         /\ \A b \in Browsers : cookie[b] # None => ~cookie[b].oauth
    /\ part = "tokens" => \A o, p \in Owners : word[o] = word[p]
    /\ part = "issue" =>
         /\ \A c \in Callers : call[c].kind \in {"none", "create"}
         /\ \A o \in Owners \ Admins : word[o] = AWord
         /\ Members \ Admins \subseteq enabled
    /\ part = "capture" => overlapped = {}
    /\ part = "overlap" => begun <= 2 /\ faults = 0 /\ ~cleaned
=============================================================================
