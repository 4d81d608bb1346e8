---------------------------- MODULE Server_proofs ----------------------------
(***************************************************************************)
(* Theorems of TwoFactor, for every number of browsers, secrets and links, *)
(* and of writes in flight; further down, of ApiTokens, for every number   *)
(* of accounts, proxies, tokens and requests; and of Capture, for every    *)
(* number of captures, packets and turns: what is kept of the traffic and  *)
(* shown.                                                                  *)
(*                                                                         *)
(* FInv adds to the type invariant of TwoFactor that every copy of the     *)
(* column, in the database, in a cookie or on its way, has the User-Agent  *)
(* strings of its own secret only (CopiesOK), that a request for a link    *)
(* has a key (AskingOK), and that the key of the row is one that was       *)
(* mailed or will be, while the others that still will be were passed      *)
(* (MailedOK).  SignedIn: the page that enables the factor is shown to who *)
(* is signed in.                                                           *)
(***************************************************************************)
EXTENDS TwoFactor, ApiTokens, Capture, Positions_proofs

\* Of the strings that a copy of the column remembers, browsers gave a code of its
\* secret.
Earned(x, codes) == IsOn(x) => \A a \in x.tfa.user_agent : <<a, x.tfa.secret>> \in codes

CopiesOK == /\ Earned(extra, proven)
            /\ \A b \in Browsers : cookie[b] # None => Earned(cookie[b].extra, proven)
            /\ \A w \in sent : Earned(w.to, proven)

AskingOK == \A b \in Browsers : asking[b].st # "none" => asking[b].key # None

Mailed == {links[n] : n \in 1..Len(links)}
MailedOK == /\ links # <<>> \/ Unsent # {} =>
                 profile.key # None /\ profile.key \in Mailed \cup Unsent
            /\ Unsent \subseteq passed \cup {profile.key}
            /\ LastLinkWorks

FInv == FactorTypeOK /\ CopiesOK /\ AskingOK /\ MailedOK

SignedIn == \A b \in Browsers : page[b].at = "enable" => cookie[b] # None

-----------------------------------------------------------------------------
LEMMA InitFInv == FactorInit => FInv
<1> SUFFICES ASSUME FactorInit PROVE FInv
  OBVIOUS
<1>1. FactorTypeOK
  <2>1. extra \in Extra
    BY DEF FactorInit, Extra, Off, Factor
  <2>2. links \in Seq(Links) /\ profile \in [key : Links \cup {None}, expired : BOOLEAN]
        /\ asking \in [Browsers -> Asking]
    BY DEF FactorInit, NoLink, Asking
  <2> QED
    BY <2>1, <2>2 DEF FactorInit, FactorTypeOK, NoPage, Pages
<1>2. CopiesOK
  BY DEF FactorInit, CopiesOK, Earned, IsOn, Off
<1>3. AskingOK /\ MailedOK
  <2>1. Unsent = {}
    BY DEF FactorInit, NoLink, Unsent
  <2> QED
    BY <2>1 DEF FactorInit, NoLink, AskingOK, MailedOK, LastLinkWorks
<1> QED
  BY <1>1, <1>2, <1>3 DEF FInv

\* A page, a session and a write have the types of what they are made of.
LEMMA ShowType ==
  ASSUME FactorTypeOK, NEW b \in Browsers, NEW at \in {"none", "code", "enable", "hung"},
         NEW s \in Secrets \cup {None}, Show(b, at, s)
  PROVE  /\ page' \in [Browsers -> Pages]
         /\ page'[b].at = at
         /\ \A c \in Browsers \ {b} : page'[c] = page[c]
<1>1. [at |-> at, secret |-> s] \in Pages
  BY DEF Pages
<1> QED
  BY <1>1 DEF Show, FactorTypeOK

LEMMA OpenType ==
  ASSUME FactorTypeOK, NEW b \in Browsers, NEW x \in Extra, OpenSession(b, x)
  PROVE  cookie' \in [Browsers -> Session \cup {None}]
<1>1. Signed(x, FALSE) \in Session
  BY DEF Signed, Session
<1> QED
  BY <1>1 DEF OpenSession, FactorTypeOK

LEMMA SendType ==
  ASSUME FactorTypeOK, NEW b \in Browsers, NEW k \in {"info", "on", "off", "device", "link"},
         NEW x \in Extra, NEW a \in BOOLEAN, Send(b, k, x, a)
  PROVE  /\ sent' \subseteq Writes
         /\ sent' = sent \cup {[by |-> b, kind |-> k, to |-> x, awaited |-> a]}
<1>1. [by |-> b, kind |-> k, to |-> x, awaited |-> a] \in Writes
  BY DEF Writes
<1> QED
  BY <1>1 DEF Send, FactorTypeOK

\* The copy in a cookie, changed.
LEMMA CopyType ==
  ASSUME FactorTypeOK, NEW b \in Browsers, cookie[b] # None, NEW x \in Extra,
         cookie' = [cookie EXCEPT ![b].extra = x]
  PROVE  /\ cookie' \in [Browsers -> Session \cup {None}]
         /\ cookie'[b].extra = x
         /\ \A c \in Browsers \ {b} : cookie'[c] = cookie[c]
<1>1. cookie[b] \in Session
  BY DEF FactorTypeOK
<1>2. [cookie[b] EXCEPT !.extra = x] \in Session /\ [cookie[b] EXCEPT !.extra = x].extra = x
  BY <1>1 DEF Session
<1>3. cookie' = [cookie EXCEPT ![b] = [cookie[b] EXCEPT !.extra = x]]
  OBVIOUS
<1> QED
  BY <1>2, <1>3 DEF FactorTypeOK

LEMMA CopyIn == ASSUME FactorTypeOK, NEW b \in Browsers, cookie[b] # None
                PROVE  CopyOf(b) \in Extra
  BY DEF FactorTypeOK, CopyOf, Session

\* The parts of a copy that is there.
LEMMA PartsType ==
  ASSUME NEW x \in Extra, x # None
  PROVE  /\ x.tfa \in Factor /\ x.tfa.user_agent \subseteq Agents
         /\ x.tfa.secret \in Secrets \cup {None}
         /\ \A f \in Factor : /\ [x EXCEPT !.tfa = f] \in Extra
                              /\ [x EXCEPT !.tfa = f].tfa = f
         /\ \A i \in Infos : /\ [x EXCEPT !.info = i] \in Extra
                             /\ [x EXCEPT !.info = i].tfa = x.tfa
<1>1. x \in [tfa : Factor, info : Infos]
  BY DEF Extra
<1>2. x.tfa \in Factor
  BY <1>1
<1>3. \A f \in Factor : /\ [x EXCEPT !.tfa = f] \in [tfa : Factor, info : Infos]
                        /\ [x EXCEPT !.tfa = f].tfa = f
  BY <1>1
<1>4. \A i \in Infos : /\ [x EXCEPT !.info = i] \in [tfa : Factor, info : Infos]
                       /\ [x EXCEPT !.info = i].tfa = x.tfa
  BY <1>1
<1> QED
  BY <1>2, <1>3, <1>4 DEF Extra, Factor

-----------------------------------------------------------------------------
(* What earns a copy its devices. *)

LEMMA EarnedMore ==
  ASSUME NEW x, NEW p, NEW q, p \subseteq q, Earned(x, p)
  PROVE  Earned(x, q)
  BY DEF Earned

\* Without the factor, or with a new secret, there is nobody to remember.
LEMMA EarnedByNone ==
  ASSUME NEW x, x # None => x.tfa.secret = None \/ x.tfa.user_agent = {}, NEW p
  PROVE  Earned(x, p)
  BY DEF Earned, IsOn

\* The profile's attributes do not matter.
LEMMA EarnedAlike ==
  ASSUME NEW x, NEW y, x # None, y # None, x.tfa = y.tfa, NEW p, Earned(x, p)
  PROVE  Earned(y, p)
  BY DEF Earned, IsOn

\* A step that takes no code, and gives copies that are earned to a cookie and
\* to a write.
LEMMA CopiesKept ==
  ASSUME FactorTypeOK, CopiesOK, NEW b \in Browsers, UNCHANGED <<extra, proven>>,
         \A c \in Browsers \ {b} : cookie'[c] = cookie[c],
         cookie'[b] # None => Earned(cookie'[b].extra, proven),
         \A w \in sent' : w \in sent \/ Earned(w.to, proven)
  PROVE  CopiesOK'
<1>1. Earned(extra', proven')
  BY DEF CopiesOK
<1>2. \A c \in Browsers : cookie'[c] # None => Earned(cookie'[c].extra, proven')
  BY DEF CopiesOK
<1>3. \A w \in sent' : Earned(w.to, proven')
  BY DEF CopiesOK
<1> QED
  BY <1>1, <1>2, <1>3 DEF CopiesOK

LEMMA CopiesSame == ASSUME CopiesOK, UNCHANGED <<extra, cookie, sent, proven>>
                    PROVE  CopiesOK'
  BY DEF CopiesOK, Earned, IsOn

\* A step that keeps the key of the row, and the mails that went out and will.
LEMMA MailedSame ==
  ASSUME MailedOK, profile'.key = profile.key, Unsent' = Unsent, UNCHANGED <<links, passed>>
  PROVE  MailedOK'
  BY DEF MailedOK, LastLinkWorks, Mailed

LEMMA LinksSame ==
  ASSUME AskingOK, MailedOK, profile'.key = profile.key, UNCHANGED <<links, asking, passed>>
  PROVE  AskingOK' /\ MailedOK'
<1>1. Unsent' = Unsent
  BY DEF Unsent
<1> QED
  BY <1>1, MailedSame DEF AskingOK

-----------------------------------------------------------------------------
(* Each operation keeps the invariant. *)

LEMMA StepLogin == ASSUME FInv, NEW b \in Browsers, Login(b) PROVE FInv'
<1> USE DEF FInv
<1>1. extra \in Extra /\ cookie \in [Browsers -> Session \cup {None}]
  BY DEF FactorTypeOK
<1>2. page' \in [Browsers -> Pages]
  BY ShowType DEF Login
<1>3. CASE UNCHANGED cookie
  <2>1. FactorTypeOK'
    BY <1>2, <1>3 DEF Login, FactorTypeOK
  <2>2. CopiesOK'
    BY <1>3, CopiesSame DEF Login
  <2> QED
    BY <2>1, <2>2, LinksSame DEF Login
<1>4. CASE OpenSession(b, extra)
  <2>1. cookie' \in [Browsers -> Session \cup {None}]
    BY <1>1, <1>4, OpenType
  <2>2. FactorTypeOK'
    BY <1>2, <2>1 DEF Login, FactorTypeOK
  <2>3. cookie'[b].extra = extra /\ \A c \in Browsers \ {b} : cookie'[c] = cookie[c]
    BY <1>1, <1>4 DEF OpenSession, Signed
  <2>4. Earned(cookie'[b].extra, proven)
    BY <2>3 DEF CopiesOK
  <2>5. CopiesOK'
    BY <2>3, <2>4, CopiesKept DEF Login
  <2> QED
    BY <2>2, <2>5, LinksSame DEF Login
<1> QED
  BY <1>3, <1>4 DEF Login

LEMMA StepTfaVerify == ASSUME FactorAssumption, FInv, NEW b \in Browsers, TfaVerify(b) PROVE FInv'
<1> USE DEF FInv
<1>1. extra \in Extra /\ cookie \in [Browsers -> Session \cup {None}]
  BY DEF FactorTypeOK
<1>2. page' \in [Browsers -> Pages]
  <2>1. None \in Secrets \cup {None}
    OBVIOUS
  <2> QED
    BY <2>1, ShowType DEF TfaVerify
<1>3. (AskingOK /\ MailedOK)'
  BY LinksSame DEF TfaVerify
<1>4. CASE UNCHANGED <<cookie, sent, proven>>
  <2>1. FactorTypeOK'
    BY <1>2, <1>4 DEF TfaVerify, FactorTypeOK
  <2>2. CopiesOK'
    BY <1>4, CopiesSame DEF TfaVerify
  <2> QED
    BY <2>1, <2>2, <1>3
<1>5. CASE OpenSession(b, extra) /\ UNCHANGED <<sent, proven>>
  <2>1. cookie' \in [Browsers -> Session \cup {None}]
    BY <1>1, <1>5, OpenType
  <2>2. FactorTypeOK'
    BY <1>2, <1>5, <2>1 DEF TfaVerify, FactorTypeOK
  <2>3. cookie'[b].extra = extra /\ \A c \in Browsers \ {b} : cookie'[c] = cookie[c]
    BY <1>1, <1>5 DEF OpenSession, Signed
  <2>4. Earned(cookie'[b].extra, proven)
    BY <2>3 DEF CopiesOK
  <2>5. CopiesOK'
    BY <1>5, <2>3, <2>4, CopiesKept DEF TfaVerify
  <2> QED
    BY <2>2, <2>5, <1>3
<1>6. CASE /\ IsOn(extra)
           /\ LET x == [extra EXCEPT !.tfa.user_agent = @ \cup {AgentOf[b]}]
              IN OpenSession(b, x) /\ Send(b, "device", x, FALSE)
           /\ proven' = proven \cup {<<AgentOf[b], extra.tfa.secret>>}
  <2> DEFINE x == [extra EXCEPT !.tfa.user_agent = @ \cup {AgentOf[b]}]
             f == [extra.tfa EXCEPT !.user_agent = @ \cup {AgentOf[b]}]
  <2>0. AgentOf[b] \in Agents
    BY DEF FactorAssumption
  <2>1. extra # None /\ extra.tfa \in Factor /\ extra.tfa.secret \in Secrets
    BY <1>1, <1>6, PartsType DEF IsOn
  <2>2. f \in Factor /\ f.secret = extra.tfa.secret /\ f.user_agent = extra.tfa.user_agent \cup {AgentOf[b]}
    BY <2>0, <2>1 DEF Factor
  <2>3. x = [extra EXCEPT !.tfa = f]
    BY <1>1, <2>1 DEF Extra
  <2>4. x \in Extra /\ x.tfa = f
    BY <1>1, <2>1, <2>2, <2>3, PartsType
  <2> HIDE DEF x, f
  <2>5. OpenSession(b, x) /\ Send(b, "device", x, FALSE)
    BY <1>6 DEF x
  <2>6. cookie' \in [Browsers -> Session \cup {None}]
    BY <2>4, <2>5, OpenType
  <2>7. sent' \subseteq Writes /\ sent' = sent \cup
          {[by |-> b, kind |-> "device", to |-> x, awaited |-> FALSE]}
    BY <2>4, <2>5, SendType
  <2>8. proven' \subseteq Agents \X Secrets
    BY <1>6, <2>0, <2>1 DEF FactorTypeOK
  <2>9. FactorTypeOK'
    BY <1>2, <2>6, <2>7, <2>8 DEF TfaVerify, FactorTypeOK
  <2>10. cookie'[b].extra = x /\ \A c \in Browsers \ {b} : cookie'[c] = cookie[c]
    BY <1>1, <2>5 DEF OpenSession, Signed
  <2>11. proven \subseteq proven' /\ <<AgentOf[b], extra.tfa.secret>> \in proven'
    BY <1>6
  <2>12. Earned(extra, proven')
    BY <2>11, EarnedMore DEF CopiesOK
  <2>13. Earned(x, proven')
    BY <1>6, <2>2, <2>4, <2>11, <2>12 DEF Earned, IsOn
  <2>14. \A c \in Browsers : cookie'[c] # None => Earned(cookie'[c].extra, proven')
    BY <2>10, <2>11, <2>13, EarnedMore DEF CopiesOK
  <2>15. \A w \in sent' : Earned(w.to, proven')
    BY <2>7, <2>11, <2>13, EarnedMore DEF CopiesOK
  <2>16. CopiesOK'
    BY <2>12, <2>14, <2>15 DEF CopiesOK, TfaVerify
  <2> QED
    BY <2>9, <2>16, <1>3
<1> QED
  BY <1>4, <1>5, <1>6 DEF TfaVerify

\* Without the second factor: another way in, and the ways out.
LEMMA StepOAuthSignIn == ASSUME FInv, NEW b \in Browsers, OAuthSignIn(b) PROVE FInv'
<1> USE DEF FInv
<1>1. page' \in [Browsers -> Pages]
  BY ShowType DEF OAuthSignIn
<1>2. Signed(None, TRUE) \in Session /\ Signed(None, TRUE).extra = None
  BY DEF Signed, Session, Extra
<1>3. cookie \in [Browsers -> Session \cup {None}]
  BY DEF FactorTypeOK
<1>4. cookie' \in [Browsers -> Session \cup {None}]
  BY <1>2, <1>3 DEF OAuthSignIn
<1>5. FactorTypeOK'
  BY <1>1, <1>4 DEF OAuthSignIn, FactorTypeOK
<1>6. cookie'[b].extra = None /\ \A c \in Browsers \ {b} : cookie'[c] = cookie[c]
  BY <1>2, <1>3 DEF OAuthSignIn
<1>7. Earned(cookie'[b].extra, proven)
  BY <1>6 DEF Earned, IsOn
<1>8. CopiesOK'
  BY <1>6, <1>7, CopiesKept DEF OAuthSignIn
<1> QED
  BY <1>5, <1>8, LinksSame DEF OAuthSignIn

LEMMA StepLogout ==
  ASSUME FInv, NEW b \in Browsers, Logout(b) \/ ExternalLogout(b) PROVE FInv'
<1> USE DEF FInv, Logout, ExternalLogout
<1>1. page' \in [Browsers -> Pages]
  BY ShowType
<1>2. cookie \in [Browsers -> Session \cup {None}]
  BY DEF FactorTypeOK
<1>3. FactorTypeOK'
  BY <1>1, <1>2 DEF FactorTypeOK
<1>4. cookie'[b] = None /\ \A c \in Browsers \ {b} : cookie'[c] = cookie[c]
  BY <1>2
<1>5. CopiesOK'
  BY <1>4, CopiesKept
<1> QED
  BY <1>3, <1>5, LinksSame

-----------------------------------------------------------------------------
(* The links. *)

LEMMA StepAskLink ==
  ASSUME FactorAssumption, FInv, NEW b \in Browsers, NEW k \in Links, AskLink(b, k)
  PROVE  FInv'
<1> USE DEF FInv
<1>1. asking \in [Browsers -> Asking] /\ asking[b].st = "none"
  BY DEF FactorTypeOK, AskLink, Idle
<1>2. [key |-> k, st |-> "find"] \in Asking
  BY DEF Asking
<1>3. FactorTypeOK'
  <2>1. used' \subseteq Secrets \cup Links
    BY DEF AskLink, FactorTypeOK
  <2> QED
    BY <1>1, <1>2, <2>1 DEF AskLink, FactorTypeOK
<1>4. CopiesOK'
  BY CopiesSame DEF AskLink
<1>5. AskingOK'
  BY <1>1 DEF AskLink, AskingOK, FactorAssumption
<1>6. Unsent' = Unsent
  BY <1>1 DEF AskLink, Unsent
<1>7. MailedOK'
  BY <1>6, MailedSame DEF AskLink
<1> QED
  BY <1>3, <1>4, <1>5, <1>7

\* A request that is served keeps its key.
LEMMA AskingOn ==
  ASSUME FactorTypeOK, NEW b \in Browsers, NEW st \in {"save", "mail"},
         asking' = [asking EXCEPT ![b].st = st]
  PROVE  /\ asking' \in [Browsers -> Asking]
         /\ asking'[b].key = asking[b].key /\ asking'[b].st = st
         /\ \A c \in Browsers \ {b} : asking'[c] = asking[c]
<1>1. asking \in [Browsers -> Asking] /\ asking[b] \in Asking
  BY DEF FactorTypeOK
<1>2. asking' = [asking EXCEPT ![b] = [asking[b] EXCEPT !.st = st]]
  OBVIOUS
<1>3. /\ [asking[b] EXCEPT !.st = st] \in Asking
      /\ [asking[b] EXCEPT !.st = st].key = asking[b].key
      /\ [asking[b] EXCEPT !.st = st].st = st
  BY <1>1 DEF Asking
<1> QED
  BY <1>1, <1>2, <1>3

LEMMA StepFindOrCreateKey ==
  ASSUME FInv, NEW b \in Browsers, FindOrCreateKey(b) PROVE FInv'
<1> USE DEF FInv
<1>1. asking[b] \in Asking /\ asking[b].st = "find"
  BY DEF FactorTypeOK, FindOrCreateKey
<1>2. /\ asking' \in [Browsers -> Asking]
      /\ asking'[b].key = asking[b].key /\ asking'[b].st = "save"
      /\ \A c \in Browsers \ {b} : asking'[c] = asking[c]
  BY AskingOn DEF FindOrCreateKey
<1>3. FactorTypeOK'
  <2>1. profile' \in [key : Links \cup {None}, expired : BOOLEAN]
    BY <1>1 DEF FindOrCreateKey, FactorTypeOK, Asking
  <2> QED
    BY <1>2, <2>1 DEF FindOrCreateKey, FactorTypeOK
<1>4. CopiesOK'
  BY CopiesSame DEF FindOrCreateKey
<1>5. AskingOK'
  BY <1>1, <1>2 DEF AskingOK
<1>6. Unsent' = Unsent
  BY <1>1, <1>2 DEF Unsent
\* The row that a mailed link is in has a key, so that no key is put in it here.
<1>7. MailedOK'
  <2>1. CASE profile.key = None
    <3>1. links = <<>> /\ Unsent = {}
      BY <2>1 DEF MailedOK
    <3>2. links' = <<>> /\ Unsent' = {}
      BY <1>6, <3>1 DEF FindOrCreateKey
    <3> QED
      BY <3>2 DEF MailedOK, LastLinkWorks
  <2>2. CASE profile.key # None
    BY <1>6, <2>2, MailedSame DEF FindOrCreateKey
  <2> QED
    BY <2>1, <2>2
<1> QED
  BY <1>3, <1>4, <1>5, <1>7

\* The key is in the row: it will be mailed, and whoever still has to mail one was
\* passed.
LEMMA StepSaveKey == ASSUME FInv, NEW b \in Browsers, SaveKey(b) PROVE FInv'
<1> USE DEF FInv
<1>1. /\ asking[b] \in Asking /\ asking[b].st = "save" /\ asking[b].key # None
      /\ asking[b].key \in Links
  BY DEF FactorTypeOK, SaveKey, AskingOK, Asking
<1>2. /\ asking' \in [Browsers -> Asking]
      /\ asking'[b].key = asking[b].key /\ asking'[b].st = "mail"
      /\ \A c \in Browsers \ {b} : asking'[c] = asking[c]
  BY AskingOn DEF SaveKey
<1>3. profile' = [key |-> asking[b].key, expired |-> FALSE] /\ passed' = passed \cup Unsent
  BY DEF SaveKey
<1>4. Unsent \subseteq Links
  BY DEF FactorTypeOK, AskingOK, Unsent, Asking
<1>5. FactorTypeOK'
  <2>1. passed' \subseteq Links
    BY <1>3, <1>4 DEF FactorTypeOK
  <2> QED
    BY <1>1, <1>2, <1>3, <2>1 DEF SaveKey, FactorTypeOK
<1>6. CopiesOK'
  BY CopiesSame DEF SaveKey
<1>7. AskingOK'
  BY <1>1, <1>2 DEF AskingOK
<1>8. Unsent' = Unsent \cup {asking[b].key}
  BY <1>1, <1>2 DEF Unsent
<1>9. MailedOK'
  <2>1. profile'.key = asking[b].key /\ Unsent' # {}
    BY <1>3, <1>8
  <2>2. profile'.key # None /\ profile'.key \in Unsent'
    BY <1>1, <1>8, <2>1
  <2>3. Unsent' \subseteq passed' \cup {profile'.key}
    BY <1>3, <1>8, <2>1
  <2> QED
    BY <2>1, <2>2, <2>3 DEF MailedOK, LastLinkWorks
<1> QED
  BY <1>5, <1>6, <1>7, <1>9

LEMMA StepMailLink == ASSUME FactorAssumption, FInv, NEW b \in Browsers, MailLink(b) PROVE FInv'
<1> USE DEF FInv
<1> DEFINE k == asking[b].key
<1>1. asking[b] \in Asking /\ asking[b].st = "mail" /\ k # None /\ k \in Links
  BY DEF FactorTypeOK, MailLink, AskingOK, Asking
<1>2. links \in Seq(Links) /\ asking \in [Browsers -> Asking]
  BY DEF FactorTypeOK
<1>3. links' = Append(links, k) /\ UNCHANGED <<profile, passed>>
  BY DEF MailLink
<1>4. /\ asking' \in [Browsers -> Asking] /\ asking'[b].st = "none"
      /\ \A c \in Browsers \ {b} : asking'[c] = asking[c]
  <2>1. NoLink \in Asking /\ NoLink.st = "none"
    BY DEF NoLink, Asking
  <2> QED
    BY <1>2, <2>1 DEF MailLink
<1>5. FactorTypeOK'
  BY <1>1, <1>2, <1>3, <1>4 DEF MailLink, FactorTypeOK
<1>6. CopiesOK'
  BY CopiesSame DEF MailLink
<1>7. AskingOK'
  BY <1>4 DEF AskingOK
<1>8. Unsent = Unsent' \cup {k}
  BY <1>1, <1>4 DEF Unsent
<1> HIDE DEF k
<1>9. Mailed' = Mailed \cup {k} /\ links' # <<>> /\ links'[Len(links')] = k
  <2>1. links' \in Seq(Links) /\ Len(links') = Len(links) + 1 /\ links'[Len(links')] = k
    BY <1>1, <1>2, <1>3
  <2>2. \A n \in 1..Len(links) : links'[n] = links[n]
    BY <1>1, <1>2, <1>3
  <2>3. Len(links) \in Nat
    BY <1>2
  <2>4. 1..Len(links') = (1..Len(links)) \cup {Len(links')}
    BY <2>1, <2>3
  <2>5. links' # <<>>
    BY <2>1, <2>3
  <2> QED
    BY <2>1, <2>2, <2>4, <2>5 DEF Mailed
<1>10. MailedOK'
  <2>1. Unsent # {} /\ k \in passed \cup {profile.key}
    BY <1>8 DEF MailedOK
  <2>2. profile.key # None /\ profile.key \in Mailed' \cup Unsent'
    BY <1>8, <1>9, <2>1 DEF MailedOK
  <2>3. Unsent' \subseteq passed \cup {profile.key}
    BY <1>8 DEF MailedOK
  <2>4. LastLinkWorks'
    <3>1. Unsent' = {} => \E n \in 1..Len(links') : links'[n] = profile.key
      BY <2>2 DEF Mailed
    <3> QED
      BY <1>3, <1>9, <2>1, <3>1 DEF LastLinkWorks
  <2> QED
    BY <1>3, <2>2, <2>3, <2>4 DEF MailedOK
<1> QED
  BY <1>5, <1>6, <1>7, <1>10

LEMMA StepExpire == ASSUME FInv, Expire PROVE FInv'
<1> USE DEF FInv
<1>1. profile \in [key : Links \cup {None}, expired : BOOLEAN]
  BY DEF FactorTypeOK
<1>2. profile' \in [key : Links \cup {None}, expired : BOOLEAN] /\ profile'.key = profile.key
  BY <1>1 DEF Expire
<1>3. FactorTypeOK'
  BY <1>2 DEF Expire, FactorTypeOK
<1>4. CopiesOK'
  BY CopiesSame DEF Expire
<1> QED
  BY <1>2, <1>3, <1>4, LinksSame DEF Expire

\* The factor is taken out of the column that is there.
LEMMA StepDisableTfaByLink ==
  ASSUME FInv, NEW b \in Browsers, DisableTfaByLink(b) PROVE FInv'
<1> USE DEF FInv
<1> DEFINE x == [extra EXCEPT !.tfa = Off]
<1>1. Off \in Factor /\ Off.secret = None
  BY DEF Off, Factor
<1>2. x \in Extra /\ x.tfa = Off
  BY <1>1, PartsType DEF DisableTfaByLink, FactorTypeOK
<1> HIDE DEF x
<1>3. OpenSession(b, x) /\ Send(b, "link", x, FALSE)
  BY DEF DisableTfaByLink, x
<1>4. cookie' \in [Browsers -> Session \cup {None}]
  BY <1>2, <1>3, OpenType
<1>5. sent' \subseteq Writes /\ sent' = sent \cup
        {[by |-> b, kind |-> "link", to |-> x, awaited |-> FALSE]}
  BY <1>2, <1>3, SendType
<1>6. FactorTypeOK'
  BY <1>4, <1>5 DEF DisableTfaByLink, FactorTypeOK
<1>7. cookie'[b].extra = x /\ \A c \in Browsers \ {b} : cookie'[c] = cookie[c]
  BY <1>3 DEF OpenSession, Signed, FactorTypeOK
<1>8. Earned(x, proven)
  BY <1>1, <1>2, EarnedByNone
<1>9. CopiesOK'
  <2>1. \A w \in sent' : w \in sent \/ Earned(w.to, proven)
    BY <1>5, <1>8
  <2> QED
    BY <1>7, <1>8, <2>1, CopiesKept DEF DisableTfaByLink
<1> QED
  BY <1>6, <1>9, LinksSame DEF DisableTfaByLink

-----------------------------------------------------------------------------
(* The settings. *)

\* The copy of a session and a write of it, earned.
LEMMA WriteKeeps ==
  ASSUME FInv, NEW b \in Browsers, cookie[b] # None,
         NEW k \in {"info", "on", "off"}, NEW x \in Extra, Earned(x, proven),
         WriteCopy(b, k, x), UNCHANGED <<extra, proven>>
  PROVE  /\ cookie' \in [Browsers -> Session \cup {None}]
         /\ sent' \subseteq Writes
         /\ CopiesOK'
<1> USE DEF FInv
<1>1. /\ cookie' \in [Browsers -> Session \cup {None}]
      /\ cookie'[b].extra = x
      /\ \A c \in Browsers \ {b} : cookie'[c] = cookie[c]
  BY CopyType DEF WriteCopy
<1>2. sent' \subseteq Writes /\ sent' = sent \cup
        {[by |-> b, kind |-> k, to |-> x, awaited |-> TRUE]}
  <2>1. Send(b, k, x, TRUE) /\ k \in {"info", "on", "off", "device", "link"}
    BY DEF WriteCopy
  <2> QED
    BY <2>1, SendType DEF FInv
<1>3. \A w \in sent' : w \in sent \/ Earned(w.to, proven)
  BY <1>2
<1>4. CopiesOK'
  BY <1>1, <1>3, CopiesKept
<1> QED
  BY <1>1, <1>2, <1>4

LEMMA StepEnableTfa ==
  ASSUME FInv, NEW b \in Browsers, NEW s \in Secrets, EnableTfa(b, s) PROVE FInv'
<1> USE DEF FInv
<1>1. page' \in [Browsers -> Pages]
  BY ShowType DEF EnableTfa
<1>2. FactorTypeOK'
  BY <1>1 DEF EnableTfa, FactorTypeOK
<1>3. CopiesOK'
  BY CopiesSame DEF EnableTfa
<1> QED
  BY <1>2, <1>3, LinksSame DEF EnableTfa

LEMMA StepEnableTfaVerify ==
  ASSUME FInv, SignedIn, NEW b \in Browsers, EnableTfaVerify(b) PROVE FInv'
<1> USE DEF FInv
<1>0. cookie[b] # None /\ CopyOf(b) # None
  BY DEF SignedIn, EnableTfaVerify
<1> DEFINE f == [secret |-> page[b].secret, user_agent |-> {}]
           x == [CopyOf(b) EXCEPT !.tfa = f]
<1>1. page' \in [Browsers -> Pages]
  BY ShowType DEF EnableTfaVerify
<1>2. f \in Factor /\ f.user_agent = {}
  BY DEF Factor, FactorTypeOK, Pages
<1>3. x \in Extra /\ x.tfa = f
  BY <1>0, <1>2, CopyIn, PartsType
<1>4. WriteCopy(b, "on", x)
  BY DEF EnableTfaVerify
<1> HIDE DEF x, f
<1>5. Earned(x, proven)
  BY <1>2, <1>3, EarnedByNone
<1>6. /\ cookie' \in [Browsers -> Session \cup {None}]
      /\ sent' \subseteq Writes
      /\ CopiesOK'
  BY <1>0, <1>3, <1>4, <1>5, WriteKeeps DEF EnableTfaVerify
<1>7. FactorTypeOK'
  BY <1>1, <1>6 DEF EnableTfaVerify, FactorTypeOK
<1> QED
  BY <1>6, <1>7, LinksSame DEF EnableTfaVerify

LEMMA StepDisableTfa ==
  ASSUME FInv, NEW b \in Browsers, DisableTfa(b) PROVE FInv'
<1> USE DEF FInv
<1> DEFINE x == [CopyOf(b) EXCEPT !.tfa = Off]
<1>1. page' \in [Browsers -> Pages]
  BY ShowType DEF DisableTfa
<1>2. Off \in Factor /\ Off.user_agent = {}
  BY DEF Off, Factor
<1>3. x \in Extra /\ x.tfa = Off
  BY <1>2, CopyIn, PartsType DEF DisableTfa
<1>4. WriteCopy(b, "off", x)
  BY DEF DisableTfa
<1> HIDE DEF x
<1>5. Earned(x, proven)
  BY <1>2, <1>3, EarnedByNone
<1>6. /\ cookie' \in [Browsers -> Session \cup {None}]
      /\ sent' \subseteq Writes
      /\ CopiesOK'
  BY <1>3, <1>4, <1>5, WriteKeeps DEF DisableTfa
<1>7. FactorTypeOK'
  BY <1>1, <1>6 DEF DisableTfa, FactorTypeOK
<1> QED
  BY <1>6, <1>7, LinksSame DEF DisableTfa

\* The page that shows the profile writes it, or is refused.
LEMMA StepUpdateInfo ==
  ASSUME FInv, NEW b \in Browsers, NEW i \in Infos, UpdateInfo(b, i) PROVE FInv'
<1> USE DEF FInv
<1> DEFINE x == IF CopyOf(b) = None THEN [tfa |-> Off, info |-> i]
                ELSE [CopyOf(b) EXCEPT !.info = i]
           y == IF CopyOf(b) = None THEN None ELSE x
<1>1. page' \in [Browsers -> Pages]
  BY ShowType DEF UpdateInfo
<1>2. cookie[b] # None /\ CopyOf(b) \in Extra
  BY CopyIn DEF UpdateInfo
<1>3. Earned(CopyOf(b), proven)
  BY <1>2 DEF CopiesOK, CopyOf
<1>4. x \in Extra /\ Earned(x, proven)
  <2>1. CASE CopyOf(b) = None
    <3>1. x \in [tfa : Factor, info : Infos] /\ x.tfa = Off /\ x.tfa.user_agent = {}
      BY <2>1 DEF Off, Factor
    <3> QED
      BY <3>1, EarnedByNone DEF Extra
  <2>2. CASE CopyOf(b) # None
    <3>1. x \in Extra /\ x.tfa = CopyOf(b).tfa
      BY <1>2, <2>2, PartsType
    <3>2. CASE x = None
      BY <3>1, <3>2 DEF Earned, IsOn
    <3>3. CASE x # None
      <4> HIDE DEF x
      <4> QED
        BY <1>3, <2>2, <3>1, <3>3, EarnedAlike
    <3> QED
      BY <3>1, <3>2, <3>3
  <2> QED
    BY <2>1, <2>2
<1>5. y \in Extra /\ Earned(y, proven)
  BY <1>4 DEF Extra, Earned, IsOn
<1>6. \/ Send(b, "info", x, TRUE)
      \/ UNCHANGED sent
  BY DEF UpdateInfo
<1>7. cookie' = [cookie EXCEPT ![b].extra = y]
  BY DEF UpdateInfo
<1> HIDE DEF x, y
<1>8. /\ cookie' \in [Browsers -> Session \cup {None}]
      /\ cookie'[b].extra = y
      /\ \A c \in Browsers \ {b} : cookie'[c] = cookie[c]
  BY <1>2, <1>5, <1>7, CopyType
<1>9. sent' \subseteq Writes /\ \A w \in sent' : w \in sent \/ Earned(w.to, proven)
  <2>1. CASE Send(b, "info", x, TRUE)
    <3>1. "info" \in {"info", "on", "off", "device", "link"} /\ TRUE \in BOOLEAN
      OBVIOUS
    <3>2. sent' \subseteq Writes /\ sent' = sent \cup
            {[by |-> b, kind |-> "info", to |-> x, awaited |-> TRUE]}
      BY <1>4, <2>1, <3>1, SendType DEF FInv
    <3> QED
      BY <1>4, <3>2
  <2>2. CASE UNCHANGED sent
    BY <2>2 DEF FactorTypeOK
  <2> QED
    BY <1>6, <2>1, <2>2
<1>10. FactorTypeOK'
  BY <1>1, <1>8, <1>9 DEF UpdateInfo, FactorTypeOK
<1>11. CopiesOK'
  BY <1>5, <1>8, <1>9, CopiesKept DEF UpdateInfo
<1> QED
  BY <1>10, <1>11, LinksSame DEF UpdateInfo

-----------------------------------------------------------------------------
(* The database. *)

LEMMA StepLand ==
  ASSUME FInv, NEW w \in sent, Land(w) \/ Lose(w) PROVE FInv'
<1> USE DEF FInv, Land, Lose
<1>1. w \in Writes /\ w.to \in Extra
  BY DEF FactorTypeOK, Writes
<1>2. FactorTypeOK'
  BY <1>1 DEF FactorTypeOK
<1>3. CopiesOK'
  <2>1. Earned(extra', proven')
    BY DEF CopiesOK
  <2>2. \A c \in Browsers : cookie'[c] # None => Earned(cookie'[c].extra, proven')
    BY DEF CopiesOK
  <2>3. \A v \in sent' : Earned(v.to, proven')
    BY DEF CopiesOK
  <2> QED
    BY <2>1, <2>2, <2>3 DEF CopiesOK
<1> QED
  BY <1>2, <1>3, LinksSame

-----------------------------------------------------------------------------
(* The page that enables the factor is left when the session is. *)

LEMMA SignedInStep == ASSUME FactorTypeOK, SignedIn, [FactorNext]_factorVars PROVE SignedIn'
<1>1. ASSUME NEW b \in Browsers, Visit(b) PROVE SignedIn'
  <2>1. cookie \in [Browsers -> Session \cup {None}] /\ page \in [Browsers -> Pages]
    BY DEF FactorTypeOK
  <2>2. \A c \in Browsers \ {b} : page'[c] = page[c] /\ cookie'[c] = cookie[c]
    BY <1>1, <2>1 DEF Visit, Login, TfaVerify, OAuthSignIn, Logout, ExternalLogout, AskLink,
       DisableTfaByLink, EnableTfa, EnableTfaVerify, DisableTfa, UpdateInfo, Show, OpenSession,
       WriteCopy
  <2>3. page'[b].at = "enable" => cookie'[b] # None
    <3>1. ASSUME NEW s \in Secrets, EnableTfa(b, s) PROVE cookie'[b] # None
      BY <3>1 DEF EnableTfa
    <3>2. CASE DisableTfaByLink(b) \/ \E k \in Links : AskLink(b, k)
      <4>1. page[b].at = "enable" => cookie[b] # None
        BY DEF SignedIn
      <4>2. page' = page /\ cookie[b] = None
        BY <3>2 DEF DisableTfaByLink, AskLink
      <4> QED
        BY <4>1, <4>2
    <3>3. CASE \/ Login(b) \/ TfaVerify(b) \/ OAuthSignIn(b) \/ Logout(b) \/ ExternalLogout(b)
               \/ EnableTfaVerify(b) \/ DisableTfa(b) \/ \E i \in Infos : UpdateInfo(b, i)
      <4>1. PICK at \in {"none", "code", "hung"} : Show(b, at, None)
        BY <3>3 DEF Login, TfaVerify, OAuthSignIn, Logout, ExternalLogout, EnableTfaVerify,
           DisableTfa, UpdateInfo
      <4> QED
        BY <2>1, <4>1 DEF Show
    <3> QED
      BY <1>1, <3>1, <3>2, <3>3 DEF Visit
  <2> QED
    BY <2>2, <2>3 DEF SignedIn
<1>2. CASE UNCHANGED <<cookie, page>>
  BY <1>2 DEF SignedIn
<1>3. CASE FactorNext
  <2>1. ASSUME NEW b \in Browsers, Serve(b) PROVE UNCHANGED <<cookie, page>>
    BY <2>1 DEF Serve, FindOrCreateKey, SaveKey, MailLink
  <2>2. ASSUME NEW w \in sent, Land(w) \/ Lose(w) PROVE UNCHANGED <<cookie, page>>
    BY <2>2 DEF Land, Lose
  <2> QED
    BY <1>1, <1>2, <1>3, <2>1, <2>2 DEF FactorNext, Expire
<1> QED
  BY <1>2, <1>3 DEF factorVars

-----------------------------------------------------------------------------
(* The invariant and the theorems. *)

LEMMA FInvStep ==
  ASSUME FactorAssumption, FInv, SignedIn, [FactorNext]_factorVars PROVE FInv'
<1>1. ASSUME NEW b \in Browsers, Visit(b) PROVE FInv'
  BY <1>1, StepLogin, StepTfaVerify, StepOAuthSignIn, StepLogout, StepAskLink,
     StepDisableTfaByLink, StepEnableTfa, StepEnableTfaVerify, StepDisableTfa,
     StepUpdateInfo DEF Visit
<1>2. ASSUME NEW b \in Browsers, Serve(b) PROVE FInv'
  BY <1>2, StepFindOrCreateKey, StepSaveKey, StepMailLink DEF Serve
<1>3. ASSUME NEW w \in sent, Land(w) \/ Lose(w) PROVE FInv'
  BY <1>3, StepLand
<1>4. CASE UNCHANGED factorVars
  <2>1. FactorTypeOK' /\ CopiesOK'
    BY <1>4 DEF factorVars, FInv, FactorTypeOK, CopiesOK, Earned, IsOn
  <2>2. AskingOK' /\ MailedOK'
    BY <1>4, LinksSame DEF factorVars, FInv
  <2> QED
    BY <2>1, <2>2 DEF FInv
<1> QED
  BY <1>1, <1>2, <1>3, <1>4, StepExpire DEF FactorNext

LEMMA FInvAlways == ASSUME FactorAssumption PROVE FactorSpec => [](FInv /\ SignedIn)
<1>1. FactorInit => FInv /\ SignedIn
  BY InitFInv DEF FactorInit, SignedIn, NoPage
<1>2. FInv /\ SignedIn /\ [FactorNext]_factorVars => (FInv /\ SignedIn)'
  BY FInvStep, SignedInStep DEF FInv
<1> QED
  BY <1>1, <1>2, PTL DEF FactorSpec

\* The columns, cookies, writes and links have their types in every state.
THEOREM FactorTypeCorrect == ASSUME FactorAssumption PROVE FactorSpec => []FactorTypeOK
<1>1. FInv /\ SignedIn => FactorTypeOK
  BY DEF FInv
<1> QED
  BY <1>1, FInvAlways, PTL

\* A browser is let in without a code only after one with its User-Agent string
\* gave a code of the secret that is required now, whatever copies of the column the settings, the profile
\* page and the sign-ins write back (update_info, enable_tfa_verify, tfa_verify),
\* and in whichever order the writes land.
THEOREM AgentsGaveTheirCode ==
  ASSUME FactorAssumption PROVE FactorSpec => []RememberedByCode
<1>1. FInv /\ SignedIn => RememberedByCode
  BY DEF FInv, CopiesOK, Earned, RememberedByCode
<1> QED
  BY <1>1, FInvAlways, PTL

\* However many requests for a link are served at the same time, once their mails
\* are out one of the links works, and it is the last one unless another request
\* saved its key between the save and the mail of that one (sessions.js:250-267).
THEOREM LastMailWorks ==
  ASSUME FactorAssumption PROVE FactorSpec => []LastLinkWorks
<1>1. FInv /\ SignedIn => LastLinkWorks
  BY DEF FInv, MailedOK
<1> QED
  BY <1>1, FInvAlways, PTL

-----------------------------------------------------------------------------
(***************************************************************************)
(* ApiTokens.  AInv adds to the type invariant what the rows (RowsOK) and  *)
(* the requests (CallsOK) hold while the look-ups of a request are under   *)
(* way, whatever is deleted or expires between them.                       *)
(***************************************************************************)

\* A token that was issued has an owner, who is there while the row is.
RowsOK == \A t \in Tokens : /\ tok[t].phase # "unborn" => tok[t].owner \in Owners
                            /\ InTable(t) => tok[t].owner \in there

\* What a request for a token has found out, by the means of k: of its name a
\* password, of its token an owner.
Shown(q, k) ==
    /\ q.name # Null \/ q.auth # Null
    /\ (q.by = "yes" /\ q.name # Null) => <<q.name, "password">> \in k
    /\ q.auth = Null => q.owner = Null
    /\ q.auth # Null => \/ q.owner \in {"todo", "no"}
                        \/ q.owner \in Owners /\ <<q.owner, "token">> \in k

\* Both look-ups succeeded, and agree.
Agreed(q) == /\ q.by = "yes" /\ q.owner \notin {"todo", "no"}
             /\ (q.name # Null /\ q.auth # Null) => q.name = q.owner

CreateOK(q, k, rows) ==
    (q.kind = "create" /\ q.st \in {"look", "found", "201"}) =>
       /\ Shown(q, k)
       /\ q.st # "look" => Agreed(q)
       /\ q.st = "201" => /\ q.new \in Tokens /\ rows[q.new].phase # "unborn"
                          /\ q.name # Null => rows[q.new].owner = q.name
                          /\ q.auth # Null => rows[q.new].owner = q.owner

\* A request about a token has the owners that the two rows have.
PairOK(q, rows) ==
    (q.kind \in {"info", "delete"} /\ q.st \in {"look", "found", "200", "204"}) =>
       /\ q.auth \in Tokens /\ rows[q.auth].phase # "unborn"
       /\ q.subject \in Tokens /\ rows[q.subject].phase # "unborn"
       /\ q.owner \in {"todo", "no", Null} \/ q.owner = rows[q.auth].owner
       /\ q.other \in {"todo", "no"} \/ q.other = rows[q.subject].owner
       /\ q.st # "look" => q.owner \in Owners /\ q.other \in Owners /\ MaySee(q)

CallOK(q, k, rows) == /\ CreateOK(q, k, rows) /\ PairOK(q, rows)
                      /\ q.st = "201" => q.kind = "create"

CallsOK == \A c \in Callers : CallOK(call[c], known[c], tok)

AInv == ApiTypeOK /\ RowsOK /\ CallsOK

\* A token that was issued keeps its owner and is not issued again.
Preserved(rows, next) ==
    \A t \in Tokens : rows[t].phase # "unborn" =>
       next[t].phase # "unborn" /\ next[t].owner = rows[t].owner

-----------------------------------------------------------------------------
LEMMA InitAInv == ApiInit => AInv
<1> SUFFICES ASSUME ApiInit PROVE AInv
  OBVIOUS
<1>1. IdleCall \in Call
  BY DEF IdleCall, Call
<1>2. ApiTypeOK
  BY <1>1 DEF ApiInit, ApiTypeOK, TokenRow, Phases
<1>3. RowsOK
  BY DEF ApiInit, RowsOK, InTable
<1>4. CallsOK
  BY DEF ApiInit, CallsOK, CallOK, CreateOK, PairOK, IdleCall
<1> QED
  BY <1>2, <1>3, <1>4 DEF AInv

-----------------------------------------------------------------------------
(* Requests that others do not disturb. *)

LEMMA CallStays ==
  ASSUME NEW q, NEW k, NEW l, k \subseteq l, NEW rows, NEW next,
         Preserved(rows, next), CallOK(q, k, rows)
  PROVE  CallOK(q, l, next)
<1>1. CreateOK(q, l, next)
  BY DEF CallOK, CreateOK, Shown, Preserved
<1>2. PairOK(q, next)
  BY DEF CallOK, PairOK, Preserved
<1> QED
  BY <1>1, <1>2 DEF CallOK

\* One request moves, the tables at most with it.
LEMMA OneCall ==
  ASSUME ApiTypeOK, CallsOK, NEW c \in Callers, NEW q \in Call, Put(c, q),
         Preserved(tok, tok'), CallOK(q, known'[c], tok'),
         \A d \in Callers \ {c} : known'[d] = known[d]
  PROVE  call' \in [Callers -> Call] /\ CallsOK'
<1>1. call' \in [Callers -> Call] /\ call'[c] = q
      /\ \A d \in Callers \ {c} : call'[d] = call[d]
  BY DEF Put, ApiTypeOK
<1>2. ASSUME NEW d \in Callers PROVE CallOK(call'[d], known'[d], tok')
  <2>1. CASE d = c
    BY <1>1, <2>1
  <2>2. CASE d # c
    <3>1. CallOK(call[d], known[d], tok)
      BY DEF CallsOK
    <3>2. CallOK(call[d], known[d], tok')
      BY <3>1, CallStays
    <3> QED
      BY <1>1, <2>2, <3>2
  <2> QED
    BY <2>1, <2>2
<1> QED
  BY <1>1, <1>2 DEF CallsOK

\* The tables move, and no request.
LEMMA NoCall ==
  ASSUME CallsOK, UNCHANGED <<call, known>>, Preserved(tok, tok')
  PROVE  CallsOK'
<1>1. ASSUME NEW c \in Callers PROVE CallOK(call[c], known[c], tok')
  BY CallStays DEF CallsOK
<1> QED
  BY <1>1 DEF CallsOK

\* A request moves and the tables do not.
LEMMA CallOnly ==
  ASSUME AInv, NEW c \in Callers, NEW q \in Call, Put(c, q), UNCHANGED <<tables, known>>,
         CallOK(q, known[c], tok)
  PROVE  AInv'
<1>1. Preserved(tok, tok')
  BY DEF Preserved, tables
<1>2. call' \in [Callers -> Call] /\ CallsOK'
  BY <1>1, OneCall DEF AInv, tables
<1> QED
  BY <1>2 DEF AInv, ApiTypeOK, RowsOK, InTable, tables

\* An answer that promises nothing.
LEMMA Refused ==
  ASSUME NEW q \in Call, q.st \in (Answers \ {"200", "201", "204"}) \cup {"idle"}, NEW k, NEW rows
  PROVE  CallOK(q, k, rows)
  BY DEF CallOK, CreateOK, PairOK, Answers

-----------------------------------------------------------------------------
(* A request arrives. *)

LEMMA IdleFields ==
  /\ IdleCall \in Call /\ IdleCall.kind = "none" /\ IdleCall.st = "idle"
  /\ IdleCall.name = Null /\ IdleCall.by = "todo" /\ IdleCall.owner = "todo"
  /\ IdleCall.other = "todo" /\ IdleCall.new = Null
  BY DEF IdleCall, Call

LEMMA StepCheckCreateTokenRequest ==
  ASSUME ApiAssumption, AInv, NEW c \in Callers, CheckCreateTokenRequest(c) PROVE AInv'
<1>1. CASE Put(c, [IdleCall EXCEPT !.kind = "create", !.st = "401"])
  <2>1. [IdleCall EXCEPT !.kind = "create", !.st = "401"] \in Call
        /\ [IdleCall EXCEPT !.kind = "create", !.st = "401"].st = "401"
    BY DEF IdleCall, Call, Answers, CheckCreateTokenRequest
  <2>2. CallOK([IdleCall EXCEPT !.kind = "create", !.st = "401"], known[c], tok)
    BY <2>1, Refused DEF Answers
  <2> QED
    BY <1>1, <2>1, <2>2, CallOnly DEF CheckCreateTokenRequest
<1>2. ASSUME NEW n \in Owners \cup {Null}, NEW w \in Passwords, NEW t \in Tokens \cup {Null},
             n # Null \/ t # Null,
             Put(c, [IdleCall EXCEPT !.kind = "create", !.st = "look",
                       !.name = n, !.word = IF n = Null THEN Null ELSE w,
                       !.auth = t,
                       !.by = IF n = Null THEN "yes" ELSE "todo",
                       !.owner = IF t = Null THEN Null ELSE "todo"])
      PROVE AInv'
  <2> DEFINE q == [IdleCall EXCEPT !.kind = "create", !.st = "look",
                     !.name = n, !.word = IF n = Null THEN Null ELSE w,
                     !.auth = t,
                     !.by = IF n = Null THEN "yes" ELSE "todo",
                     !.owner = IF t = Null THEN Null ELSE "todo"]
  <2>1. q \in Call
    BY DEF IdleCall, Call, CheckCreateTokenRequest
  <2>2. /\ q.kind = "create" /\ q.st = "look" /\ q.name = n /\ q.auth = t
        /\ q.by = IF n = Null THEN "yes" ELSE "todo"
        /\ q.owner = IF t = Null THEN Null ELSE "todo"
    BY DEF IdleCall
  <2> HIDE DEF q
  <2>3. CallOK(q, known[c], tok)
    BY <1>2, <2>2 DEF CallOK, CreateOK, PairOK, Shown
  <2> QED
    BY <1>2, <2>1, <2>3, CallOnly DEF q, CheckCreateTokenRequest
<1> QED
  BY <1>1, <1>2 DEF CheckCreateTokenRequest

LEMMA StepCheckHeadersRequest ==
  ASSUME AInv, NEW c \in Callers, CheckHeadersRequest(c) PROVE AInv'
<1> USE DEF CheckHeadersRequest
<1>1. PICK k \in Calls \cap {"info", "delete"} :
         \/ Put(c, [IdleCall EXCEPT !.kind = k,
                      !.st = IF k = "info" THEN "401" ELSE "400"])
         \/ \E t, s \in Tokens :
              /\ tok[t].phase # "unborn" /\ tok[s].phase # "unborn"
              /\ Put(c, [IdleCall EXCEPT !.kind = k, !.st = "look",
                           !.auth = t, !.subject = s])
  BY Zenon
<1>2. CASE Put(c, [IdleCall EXCEPT !.kind = k, !.st = IF k = "info" THEN "401" ELSE "400"])
  <2> DEFINE q == [IdleCall EXCEPT !.kind = k, !.st = IF k = "info" THEN "401" ELSE "400"]
  <2>1. q \in Call /\ q.st \in {"401", "400"}
    BY DEF IdleCall, Call, Answers
  <2> HIDE DEF q
  <2>2. CallOK(q, known[c], tok)
    BY <2>1, Refused DEF Answers
  <2> QED
    BY <1>2, <2>1, <2>2, CallOnly DEF q
<1>3. ASSUME NEW t \in Tokens, NEW s \in Tokens,
             tok[t].phase # "unborn", tok[s].phase # "unborn",
             Put(c, [IdleCall EXCEPT !.kind = k, !.st = "look", !.auth = t, !.subject = s])
      PROVE AInv'
  <2> DEFINE q == [IdleCall EXCEPT !.kind = k, !.st = "look", !.auth = t, !.subject = s]
  <2>1. q \in Call
    BY DEF IdleCall, Call
  <2>2. /\ q.kind = k /\ q.st = "look" /\ q.auth = t /\ q.subject = s
        /\ q.owner = "todo" /\ q.other = "todo"
    BY DEF IdleCall
  <2> HIDE DEF q
  <2>3. CallOK(q, known[c], tok)
    BY <1>3, <2>2 DEF CallOK, CreateOK, PairOK
  <2> QED
    BY <1>3, <2>1, <2>3, CallOnly DEF q
<1> QED
  BY <1>1, <1>2, <1>3

\* Requests with a token in one step: they promise nothing about the rows.
LEMMA StepUseToken ==
  ASSUME AInv, NEW c \in Callers, ValidateToken(c) \/ SearchOldAuthToken(c) PROVE AInv'
<1> USE DEF ValidateToken, SearchOldAuthToken
<1>1. CASE "use" \in Calls /\ Put(c, [IdleCall EXCEPT !.kind = "use", !.st = "400"])
           /\ UNCHANGED <<tables, known>>
  <2>1. [IdleCall EXCEPT !.kind = "use", !.st = "400"] \in Call
        /\ [IdleCall EXCEPT !.kind = "use", !.st = "400"].st = "400"
    BY <1>1 DEF IdleCall, Call, Answers
  <2>2. CallOK([IdleCall EXCEPT !.kind = "use", !.st = "400"], known[c], tok)
    BY <2>1, Refused DEF Answers
  <2> QED
    BY <1>1, <2>1, <2>2, CallOnly
<1>2. ASSUME NEW t \in Tokens, NEW k \in Calls \cap {"use", "access"},
             NEW s \in {"404", "401", "found", "200"},
             Put(c, [IdleCall EXCEPT !.kind = k, !.auth = t,
                       !.owner = IF Live(t) THEN tok[t].owner ELSE "no", !.st = s]),
             UNCHANGED <<tables, known>>
      PROVE AInv'
  <2> DEFINE q == [IdleCall EXCEPT !.kind = k, !.auth = t,
                     !.owner = IF Live(t) THEN tok[t].owner ELSE "no", !.st = s]
  <2>1. (IF Live(t) THEN tok[t].owner ELSE "no") \in Owners \cup {Null, "todo", "no"}
    BY DEF AInv, ApiTypeOK, TokenRow
  <2>2. q \in Call /\ q.kind = k /\ q.st = s
    BY <2>1 DEF IdleCall, Call, Answers
  <2> HIDE DEF q
  <2>3. CallOK(q, known[c], tok)
    BY <2>2 DEF CallOK, CreateOK, PairOK
  <2> QED
    BY <1>2, <2>2, <2>3, CallOnly DEF q
<1>3. ASSUME NEW t \in Tokens, "use" \in Calls, UNCHANGED <<tables, known>>,
             Put(c, [IdleCall EXCEPT !.kind = "use", !.auth = t,
                 !.owner = IF Live(t) THEN tok[t].owner ELSE "no",
                 !.st = CASE tok[t].phase = "gone" -> "404"
                          [] tok[t].phase = "expired" -> "401"
                          [] OTHER -> "found"])
      PROVE AInv'
  <2>1. (CASE tok[t].phase = "gone" -> "404" [] tok[t].phase = "expired" -> "401"
           [] OTHER -> "found") \in {"404", "401", "found", "200"}
    OBVIOUS
  <2>2. "use" \in Calls \cap {"use", "access"}
    BY <1>3
  <2> QED
    BY <1>2, <1>3, <2>1, <2>2
<1>4. ASSUME NEW t \in Tokens, "access" \in Calls, UNCHANGED <<tables, known>>,
             Put(c, [IdleCall EXCEPT !.kind = "access", !.auth = t,
              !.owner = IF Live(t) THEN tok[t].owner ELSE "no",
              !.st = CASE tok[t].phase = "gone" -> "404"
                       [] tok[t].phase = "expired" -> "401"
                       [] OTHER -> "200"])
      PROVE AInv'
  <2>1. (CASE tok[t].phase = "gone" -> "404" [] tok[t].phase = "expired" -> "401"
           [] OTHER -> "200") \in {"404", "401", "found", "200"}
    OBVIOUS
  <2>2. "access" \in Calls \cap {"use", "access"}
    BY <1>4
  <2> QED
    BY <1>2, <1>4, <2>1, <2>2
<1> QED
  BY <1>1, <1>3, <1>4

-----------------------------------------------------------------------------
(* Its look-ups, and what they come to. *)

LEMMA CallIn == ASSUME ApiTypeOK, NEW c \in Callers PROVE call[c] \in Call
  BY DEF ApiTypeOK

LEMMA StepSearchIdentity ==
  ASSUME AInv, NEW c \in Callers, SearchIdentity(c) PROVE AInv'
<1> DEFINE y == IF call[c].name \in there THEN "identity" ELSE "no"
           q == [call[c] EXCEPT !.by = y]
<1>1. call[c] \in Call /\ CallOK(call[c], known[c], tok)
  BY CallIn DEF AInv, CallsOK
<1>2. /\ q \in Call /\ q.by = y /\ q.kind = call[c].kind /\ q.st = call[c].st
      /\ q.name = call[c].name /\ q.auth = call[c].auth /\ q.owner = call[c].owner
  BY <1>1 DEF Call
<1>3. y # "yes" /\ Put(c, q)
  BY DEF SearchIdentity
<1> HIDE DEF q, y
<1>4. CallOK(q, known[c], tok)
  BY <1>1, <1>2, <1>3 DEF CallOK, CreateOK, PairOK, Shown, SearchIdentity, Looking
<1> QED
  BY <1>2, <1>3, <1>4, CallOnly DEF SearchIdentity

\* The password is among the means of a request once it was right.
LEMMA StepAuthenticate ==
  ASSUME AInv, NEW c \in Callers, NEW who \in SUBSET Owners, NEW right \in BOOLEAN,
         Authenticate(c, who, right)
  PROVE  AInv'
<1> DEFINE y == IF right THEN "yes" ELSE "no"
           q == [call[c] EXCEPT !.by = y]
<1>1. call[c] \in Call /\ CallOK(call[c], known[c], tok)
  BY CallIn DEF AInv, CallsOK
<1>2. /\ q \in Call /\ q.by = y /\ q.kind = call[c].kind /\ q.st = call[c].st
      /\ q.name = call[c].name /\ q.auth = call[c].auth /\ q.owner = call[c].owner
  BY <1>1 DEF Call
<1>3. Put(c, q)
  BY DEF Authenticate
<1>4. /\ known' \in [Callers -> SUBSET (Owners \X {"password", "token"})]
      /\ known[c] \subseteq known'[c]
      /\ \A d \in Callers \ {c} : known'[d] = known[d]
      /\ right => <<call[c].name, "password">> \in known'[c]
  BY DEF Authenticate, AInv, ApiTypeOK
<1>5. y = "yes" => right
  OBVIOUS
<1> HIDE DEF q, y
<1>6. CallOK(q, known'[c], tok)
  BY <1>1, <1>2, <1>4, <1>5 DEF CallOK, CreateOK, PairOK, Shown, Authenticate, Looking
<1>7. Preserved(tok, tok') /\ tok' = tok
  BY DEF Preserved, Authenticate, tables
<1>8. call' \in [Callers -> Call] /\ CallsOK'
  BY <1>2, <1>3, <1>4, <1>6, <1>7, OneCall DEF AInv
<1> QED
  BY <1>4, <1>8 DEF AInv, ApiTypeOK, RowsOK, InTable, Authenticate, tables

LEMMA StepSearchTokenOwner ==
  ASSUME ApiAssumption, AInv, NEW c \in Callers, SearchTokenOwner(c) PROVE AInv'
<1> DEFINE t == call[c].auth
           o == IF Live(t) THEN tok[t].owner ELSE "no"
           q == [call[c] EXCEPT !.owner = o]
<1>1. call[c] \in Call /\ CallOK(call[c], known[c], tok)
  BY CallIn DEF AInv, CallsOK
<1>2. Shown(call[c], known[c]) /\ t \in Tokens
  <2>1. Shown(call[c], known[c])
    BY <1>1 DEF CallOK, CreateOK, SearchTokenOwner, Looking
  <2>2. t # Null
    BY <2>1 DEF Shown, SearchTokenOwner, ApiAssumption
  <2> QED
    BY <1>1, <2>1, <2>2 DEF Call
<1>3. Live(t) => tok[t].owner \in Owners
  BY <1>2 DEF AInv, RowsOK, Live
<1>4. o \in Owners \cup {Null, "todo", "no"} /\ (o \in Owners \/ o = "no")
      /\ (o \in Owners => Live(t) /\ o = tok[t].owner)
  <2>1. CASE Live(t)
    BY <1>3, <2>1
  <2>2. CASE ~Live(t)
    <3>1. "no" \notin Owners
      BY DEF ApiAssumption
    <3> QED
      BY <2>2, <3>1
  <2> QED
    BY <2>1, <2>2
<1>5. /\ q \in Call /\ q.owner = o /\ q.kind = call[c].kind /\ q.st = call[c].st
      /\ q.name = call[c].name /\ q.auth = call[c].auth /\ q.by = call[c].by
  BY <1>1, <1>4 DEF Call
<1>6. Put(c, q)
  BY DEF SearchTokenOwner
<1>7. /\ known' \in [Callers -> SUBSET (Owners \X {"password", "token"})]
      /\ known[c] \subseteq known'[c]
      /\ \A d \in Callers \ {c} : known'[d] = known[d]
      /\ Live(t) => <<tok[t].owner, "token">> \in known'[c]
  BY <1>3 DEF SearchTokenOwner, AInv, ApiTypeOK
<1> HIDE DEF q, o
<1>8. CallOK(q, known'[c], tok)
  <2>1. q.kind = "create" /\ q.st = "look"
    BY <1>5 DEF SearchTokenOwner, Looking
  <2>2. q.auth # Null /\ (q.owner \in Owners => <<q.owner, "token">> \in known'[c])
    BY <1>2, <1>4, <1>5, <1>7 DEF ApiAssumption
  <2>3. q.owner \in {"todo", "no"} \/ q.owner \in Owners
    BY <1>4, <1>5
  <2>4. Shown(q, known'[c])
    BY <1>2, <1>5, <1>7, <2>2, <2>3 DEF Shown
  <2> QED
    BY <2>1, <2>4 DEF CallOK, CreateOK, PairOK
<1>9. Preserved(tok, tok') /\ tok' = tok
  BY DEF Preserved, SearchTokenOwner, tables
<1>10. call' \in [Callers -> Call] /\ CallsOK'
  BY <1>5, <1>6, <1>7, <1>8, <1>9, OneCall DEF AInv
<1> QED
  BY <1>7, <1>10 DEF AInv, ApiTypeOK, RowsOK, InTable, SearchTokenOwner, tables

\* The answer to a request, in its stage only.
LEMMA StepCompareMethods ==
  ASSUME AInv, NEW c \in Callers, CompareMethods(c) PROVE AInv'
<1>1. call[c] \in Call /\ CallOK(call[c], known[c], tok)
  BY CallIn DEF AInv, CallsOK
<1>2. CASE Answer(c, "401")
  <2> DEFINE q == [call[c] EXCEPT !.st = "401"]
  <2>1. q \in Call /\ q.st = "401"
    BY <1>1 DEF Call, Answers
  <2>2. CallOK(q, known[c], tok)
    BY <2>1, Refused DEF Answers
  <2> QED
    BY <1>2, <2>1, <2>2, CallOnly DEF Answer, CompareMethods
<1>3. CASE Agreed(call[c]) /\ Answer(c, "found")
  <2> DEFINE q == [call[c] EXCEPT !.st = "found"]
  <2>1. /\ q \in Call /\ q.st = "found" /\ q.kind = call[c].kind
        /\ q.name = call[c].name /\ q.auth = call[c].auth /\ q.by = call[c].by
        /\ q.owner = call[c].owner
    BY <1>1 DEF Call
  <2>2. Put(c, q)
    BY <1>3 DEF Answer
  <2> HIDE DEF q
  <2>3. CallOK(q, known[c], tok)
    BY <1>1, <1>3, <2>1
       DEF CallOK, CreateOK, PairOK, Shown, Agreed, CompareMethods, Looking
  <2> QED
    BY <2>1, <2>2, <2>3, CallOnly DEF CompareMethods
<1> QED
  BY <1>2, <1>3 DEF CompareMethods, Agreed

\* The row of a new token, or none.
LEMMA StepCreateToken ==
  ASSUME ApiAssumption, AInv, NEW c \in Callers, CreateToken(c) PROVE AInv'
<1> DEFINE o == IF call[c].name # Null THEN call[c].name ELSE call[c].owner
<1>1. call[c] \in Call /\ CallOK(call[c], known[c], tok)
  BY CallIn DEF AInv, CallsOK
<1>2. Shown(call[c], known[c]) /\ Agreed(call[c])
  BY <1>1 DEF CallOK, CreateOK, CreateToken
<1>3. o \in Owners /\ (call[c].name # Null => o = call[c].name)
      /\ (call[c].auth # Null => o = call[c].owner)
  BY <1>1, <1>2 DEF Shown, Agreed, Call, ApiAssumption
<1>4. CASE Answer(c, "500") /\ UNCHANGED tok
  <2> DEFINE q == [call[c] EXCEPT !.st = "500"]
  <2>1. q \in Call /\ q.st = "500"
    BY <1>1 DEF Call, Answers
  <2>2. CallOK(q, known[c], tok)
    BY <2>1, Refused DEF Answers
  <2> QED
    BY <1>4, <2>1, <2>2, CallOnly DEF Answer, CreateToken, tables
<1>5. ASSUME NEW t \in Tokens, tok[t].phase = "unborn", OwnerThere(o),
             tok' = [tok EXCEPT ![t] = [phase |-> "live", owner |-> o]],
             Put(c, [call[c] EXCEPT !.st = "201", !.new = t])
      PROVE AInv'
  <2> DEFINE q == [call[c] EXCEPT !.st = "201", !.new = t]
  <2>1. /\ q \in Call /\ q.st = "201" /\ q.new = t /\ q.kind = call[c].kind
        /\ q.name = call[c].name /\ q.auth = call[c].auth /\ q.by = call[c].by
        /\ q.owner = call[c].owner
    BY <1>1 DEF Call, Answers
  <2> HIDE DEF q, o
  <2>2. [phase |-> "live", owner |-> o] \in TokenRow
    BY <1>3 DEF TokenRow, Phases
  <2>3. /\ tok' \in [Tokens -> TokenRow] /\ tok'[t].phase = "live" /\ tok'[t].owner = o
        /\ \A u \in Tokens \ {t} : tok'[u] = tok[u]
    BY <1>5, <2>2 DEF AInv, ApiTypeOK
  <2>4. Preserved(tok, tok')
    BY <1>5, <2>3 DEF Preserved
  <2>5. RowsOK'
    BY <1>3, <1>5, <2>3 DEF AInv, RowsOK, InTable, OwnerThere, CreateToken
  <2>6. CallOK(q, known'[c], tok')
    BY <1>1, <1>2, <1>3, <2>1, <2>3
       DEF CallOK, CreateOK, PairOK, Shown, Agreed, CreateToken
  <2>7. call' \in [Callers -> Call] /\ CallsOK'
    BY <1>5, <2>1, <2>4, <2>6, OneCall DEF AInv, CreateToken, q
  <2> QED
    BY <2>3, <2>5, <2>7 DEF AInv, ApiTypeOK, CreateToken
<1> QED
  BY <1>4, <1>5 DEF CreateToken

-----------------------------------------------------------------------------
(* Requests about a token. *)

LEMMA StepSearchAuthToken ==
  ASSUME ApiAssumption, AInv, NEW c \in Callers, SearchAuthToken(c) PROVE AInv'
<1> DEFINE t == call[c].auth
           o == IF Live(t) THEN tok[t].owner ELSE IF InTable(t) THEN Null ELSE "no"
           q == [call[c] EXCEPT !.owner = o]
<1>1. call[c] \in Call /\ CallOK(call[c], known[c], tok)
  BY CallIn DEF AInv, CallsOK
<1>2. PairOK(call[c], tok) /\ t \in Tokens
  BY <1>1 DEF CallOK, PairOK, SearchAuthToken, Pair
<1>3. o \in {Null, "no"} \/ o = tok[t].owner
  OBVIOUS
<1>4. o \in Owners \cup {Null, "todo", "no"}
  BY <1>2, <1>3 DEF AInv, ApiTypeOK, TokenRow
<1>5. /\ q \in Call /\ q.owner = o /\ q.kind = call[c].kind /\ q.st = call[c].st
      /\ q.auth = call[c].auth /\ q.subject = call[c].subject /\ q.other = call[c].other
  BY <1>1, <1>4 DEF Call
<1>6. Put(c, q)
  BY DEF SearchAuthToken
<1> HIDE DEF q, o
<1>7. CallOK(q, known[c], tok)
  BY <1>2, <1>3, <1>5 DEF CallOK, CreateOK, PairOK, SearchAuthToken, Pair
<1> QED
  BY <1>5, <1>6, <1>7, CallOnly DEF SearchAuthToken

LEMMA StepSearchSubjectToken ==
  ASSUME AInv, NEW c \in Callers, SearchSubjectToken(c) PROVE AInv'
<1> DEFINE s == call[c].subject
           o == IF InTable(s) THEN tok[s].owner ELSE "no"
           q == [call[c] EXCEPT !.other = o]
<1>1. call[c] \in Call /\ CallOK(call[c], known[c], tok)
  BY CallIn DEF AInv, CallsOK
<1>2. PairOK(call[c], tok) /\ s \in Tokens
  BY <1>1 DEF CallOK, PairOK, SearchSubjectToken, Pair
<1>3. o = "no" \/ o = tok[s].owner
  OBVIOUS
<1>4. o \in Owners \cup {Null, "todo", "no"}
  BY <1>2, <1>3 DEF AInv, ApiTypeOK, TokenRow
<1>5. /\ q \in Call /\ q.other = o /\ q.kind = call[c].kind /\ q.st = call[c].st
      /\ q.auth = call[c].auth /\ q.subject = call[c].subject /\ q.owner = call[c].owner
  BY <1>1, <1>4 DEF Call
<1>6. Put(c, q)
  BY DEF SearchSubjectToken
<1> HIDE DEF q, o
<1>7. CallOK(q, known[c], tok)
  BY <1>2, <1>3, <1>5 DEF CallOK, CreateOK, PairOK, SearchSubjectToken, Pair
<1> QED
  BY <1>5, <1>6, <1>7, CallOnly DEF SearchSubjectToken

\* What both look-ups brought is compared: what goes on may be seen.
LEMMA StepCheckRequestedTokens ==
  ASSUME ApiAssumption, AInv, NEW c \in Callers, CheckRequestedTokens(c) PROVE AInv'
<1> DEFINE p == call[c]
           code == IF p.owner = "no" \/ p.other = "no" THEN "404"
                   ELSE IF p.owner = Null THEN "401"
                   ELSE IF ~MaySee(p) THEN "403" ELSE "found"
           s == IF p.kind = "delete" THEN code
                ELSE IF code = "found" THEN "200" ELSE "401"
           q == [p EXCEPT !.st = s]
<1>1. p \in Call /\ PairOK(p, tok) /\ RowsOK
  BY CallIn DEF AInv, CallsOK, CallOK
<1>2. s \in {"404", "401", "403", "found", "200"}
  OBVIOUS
<1>3. /\ q \in Call /\ q.st = s /\ q.kind = p.kind /\ q.auth = p.auth
      /\ q.subject = p.subject /\ q.owner = p.owner /\ q.other = p.other
  BY <1>1, <1>2 DEF Call, Answers
<1>4. Put(c, q)
  BY DEF CheckRequestedTokens
<1>5. CASE s \in {"404", "401", "403"}
  <2>1. CallOK(q, known[c], tok)
    BY <1>3, <1>5, Refused DEF Answers
  <2> QED
    BY <1>3, <1>4, <2>1, CallOnly DEF CheckRequestedTokens
<1>6. CASE s \in {"found", "200"}
  <2>1. p.owner # "no" /\ p.other # "no" /\ p.owner # Null /\ MaySee(p)
    BY <1>6
  <2>2. p.owner = tok[p.auth].owner /\ p.other = tok[p.subject].owner
        /\ p.auth \in Tokens /\ tok[p.auth].phase # "unborn"
        /\ p.subject \in Tokens /\ tok[p.subject].phase # "unborn"
    BY <1>1, <2>1 DEF PairOK, CheckRequestedTokens, Pair
  <2>3. p.owner \in Owners /\ p.other \in Owners
    BY <1>1, <2>2 DEF RowsOK
  <2>4. MaySee(q)
    BY <1>3, <2>1 DEF MaySee
  <2>5. CallOK(q, known[c], tok)
    <3>1. q.kind \in {"info", "delete"}
      BY <1>3 DEF CheckRequestedTokens, Pair
    <3> HIDE DEF q, p, s
    <3>2. PairOK(q, tok)
      BY <1>3, <2>2, <2>3, <2>4 DEF PairOK
    <3> QED
      BY <1>3, <1>6, <3>1, <3>2 DEF CallOK, CreateOK
  <2> QED
    BY <1>3, <1>4, <2>5, CallOnly DEF CheckRequestedTokens
<1> QED
  BY <1>2, <1>5, <1>6

LEMMA StepDeleteToken ==
  ASSUME AInv, NEW c \in Callers, DeleteToken(c) PROVE AInv'
<1> DEFINE t == call[c].subject
           q == [call[c] EXCEPT !.st = "204"]
<1>1. call[c] \in Call /\ CallOK(call[c], known[c], tok)
  BY CallIn DEF AInv, CallsOK
<1>2. PairOK(call[c], tok) /\ t \in Tokens
  BY <1>1 DEF CallOK, PairOK, DeleteToken
<1>3. /\ q \in Call /\ q.st = "204" /\ q.kind = call[c].kind /\ q.auth = call[c].auth
      /\ q.subject = call[c].subject /\ q.owner = call[c].owner /\ q.other = call[c].other
  BY <1>1 DEF Call, Answers
<1>4. Put(c, q)
  BY DEF DeleteToken, Answer
<1>5. tok[t] \in TokenRow
  BY <1>2 DEF AInv, ApiTypeOK
<1>6. [tok[t] EXCEPT !.phase = "gone"] \in TokenRow
      /\ [tok[t] EXCEPT !.phase = "gone"].phase = "gone"
      /\ [tok[t] EXCEPT !.phase = "gone"].owner = tok[t].owner
  BY <1>5 DEF TokenRow, Phases
<1>7. /\ tok' \in [Tokens -> TokenRow]
      /\ tok'[t].phase = "gone" /\ tok'[t].owner = tok[t].owner
      /\ \A u \in Tokens \ {t} : tok'[u] = tok[u]
  BY <1>2, <1>6 DEF DeleteToken, AInv, ApiTypeOK
<1>8. Preserved(tok, tok')
  BY <1>7 DEF Preserved
<1>9. RowsOK'
  BY <1>2, <1>7 DEF AInv, RowsOK, InTable, PairOK, DeleteToken
<1> HIDE DEF q
<1>10. CallOK(q, known[c], tok)
  <2>1. q.kind = "delete" /\ MaySee(call[c])
    BY <1>2, <1>3 DEF DeleteToken, PairOK
  <2>2. MaySee(q)
    BY <1>3, <2>1 DEF MaySee
  <2> QED
    BY <1>2, <1>3, <2>1, <2>2 DEF CallOK, CreateOK, PairOK, DeleteToken
<1>11. CallOK(q, known'[c], tok')
  BY <1>8, <1>10, CallStays DEF DeleteToken
<1>12. call' \in [Callers -> Call] /\ CallsOK'
  BY <1>3, <1>4, <1>8, <1>11, OneCall DEF AInv, DeleteToken
<1> QED
  BY <1>7, <1>9, <1>12 DEF AInv, ApiTypeOK, DeleteToken

LEMMA StepIsUser ==
  ASSUME AInv, NEW c \in Callers, IsUser(c) PROVE AInv'
<1> DEFINE s == IF call[c].owner \in Members THEN "200" ELSE "403"
           q == [call[c] EXCEPT !.st = s]
<1>1. call[c] \in Call
  BY CallIn DEF AInv
<1>2. q \in Call /\ q.st = s /\ q.kind = "use"
  BY <1>1 DEF Call, Answers, IsUser
<1>3. Put(c, q) /\ s \in {"200", "403"}
  BY DEF IsUser, Answer
<1> HIDE DEF q, s
<1>4. CallOK(q, known[c], tok)
  BY <1>2, <1>3 DEF CallOK, CreateOK, PairOK
<1> QED
  BY <1>2, <1>3, <1>4, CallOnly DEF IsUser

LEMMA StepForget ==
  ASSUME AInv, NEW c \in Callers, Forget(c) PROVE AInv'
<1>1. CallOK(IdleCall, known'[c], tok)
  BY IdleFields, Refused
<1>2. Preserved(tok, tok') /\ tok' = tok
  BY DEF Preserved, Forget, tables
<1>3. known' \in [Callers -> SUBSET (Owners \X {"password", "token"})]
      /\ \A d \in Callers \ {c} : known'[d] = known[d]
  BY DEF Forget, AInv, ApiTypeOK
<1>4. call' \in [Callers -> Call] /\ CallsOK'
  BY <1>1, <1>2, <1>3, IdleFields, OneCall DEF AInv, Forget, Put
<1> QED
  BY <1>3, <1>4 DEF AInv, ApiTypeOK, RowsOK, InTable, Forget, tables

-----------------------------------------------------------------------------
(* Meanwhile. *)

LEMMA StepExpireToken ==
  ASSUME AInv, NEW t \in Tokens, ExpireToken(t) PROVE AInv'
<1>1. tok[t] \in TokenRow
  BY DEF AInv, ApiTypeOK
<1>2. [tok[t] EXCEPT !.phase = "expired"] \in TokenRow
      /\ [tok[t] EXCEPT !.phase = "expired"].phase = "expired"
      /\ [tok[t] EXCEPT !.phase = "expired"].owner = tok[t].owner
  BY <1>1 DEF TokenRow, Phases
<1>3. /\ tok' \in [Tokens -> TokenRow]
      /\ tok'[t].phase = "expired" /\ tok'[t].owner = tok[t].owner
      /\ \A u \in Tokens \ {t} : tok'[u] = tok[u]
  BY <1>2 DEF ExpireToken, AInv, ApiTypeOK
<1>4. Preserved(tok, tok')
  BY <1>3 DEF Preserved
<1>5. RowsOK'
  BY <1>3 DEF AInv, RowsOK, InTable, ExpireToken, Live
<1>6. CallsOK'
  BY <1>4, NoCall DEF AInv, ExpireToken
<1> QED
  BY <1>3, <1>5, <1>6 DEF AInv, ApiTypeOK, ExpireToken

\* The rows of an owner go with him: no other row is his.
LEMMA StepRemoveOwner ==
  ASSUME AInv, NEW o \in Owners, RemoveOwner(o) PROVE AInv'
<1>1. ASSUME NEW t \in Tokens
      PROVE  /\ tok'[t] \in TokenRow /\ tok'[t].owner = tok[t].owner
             /\ tok'[t].phase # tok[t].phase => tok'[t].phase = "gone"
             /\ (tok[t].owner = o /\ InTable(t)) => tok'[t].phase = "gone"
             /\ tok'[t].phase = "unborn" <=> tok[t].phase = "unborn"
  <2>1. tok[t] \in TokenRow
    BY DEF AInv, ApiTypeOK
  <2>2. [tok[t] EXCEPT !.phase = "gone"] \in TokenRow
        /\ [tok[t] EXCEPT !.phase = "gone"].phase = "gone"
        /\ [tok[t] EXCEPT !.phase = "gone"].owner = tok[t].owner
    BY <2>1 DEF TokenRow, Phases
  <2>3. tok'[t] = IF tok[t].owner = o /\ InTable(t)
                  THEN [tok[t] EXCEPT !.phase = "gone"] ELSE tok[t]
    BY DEF RemoveOwner
  <2> QED
    BY <2>1, <2>2, <2>3 DEF InTable
<1>2. tok' \in [Tokens -> TokenRow]
  <2>1. tok' = [t \in Tokens |-> tok'[t]]
    BY DEF RemoveOwner
  <2> QED
    BY <1>1, <2>1
<1>3. Preserved(tok, tok')
  BY <1>1 DEF Preserved
<1>4. RowsOK'
  BY <1>1 DEF AInv, RowsOK, InTable, RemoveOwner
<1>5. CallsOK'
  BY <1>3, NoCall DEF AInv, RemoveOwner
<1> QED
  BY <1>2, <1>4, <1>5 DEF AInv, ApiTypeOK, RemoveOwner

\* Passwords and accounts change, and no token.
LEMMA StepOther ==
  ASSUME AInv,
         \/ \E o \in Owners, w \in Passwords : ChangePassword(o, w)
         \/ \E u \in Members : DisableAccount(u)
         \/ UNCHANGED apiVars
  PROVE  AInv'
<1>1. UNCHANGED <<there, tok, call, known>>
  BY DEF ChangePassword, DisableAccount, apiVars
<1>2. ApiTypeOK'
  BY <1>1 DEF AInv, ApiTypeOK, ChangePassword, DisableAccount, apiVars
<1>3. CallsOK'
  BY <1>1, NoCall DEF AInv, Preserved
<1> QED
  BY <1>1, <1>2, <1>3 DEF AInv, RowsOK, InTable

-----------------------------------------------------------------------------
(* The invariant and the theorems. *)

LEMMA AInvStep == ASSUME ApiAssumption, AInv, [ApiNext]_apiVars PROVE AInv'
<1>1. ASSUME NEW c \in Callers, Arrive(c) PROVE AInv'
  BY <1>1, StepCheckCreateTokenRequest, StepCheckHeadersRequest, StepUseToken DEF Arrive
<1>2. ASSUME NEW c \in Callers, AuthenticateUser(c) \/ AuthenticatePepProxy(c) PROVE AInv'
  <2>1. Members \in SUBSET Owners /\ Proxies \in SUBSET Owners
    BY DEF Owners
  <2>2. ASSUME NEW right, Authenticate(c, Members, right) \/ Authenticate(c, Proxies, right),
               right \in BOOLEAN
        PROVE AInv'
    BY <2>1, <2>2, StepAuthenticate
  <2>3. (/\ call[c].name \in there /\ call[c].name \in enabled
         /\ word[call[c].name] = call[c].word) \in BOOLEAN
    OBVIOUS
  <2>4. (call[c].name \in there /\ word[call[c].name] = call[c].word) \in BOOLEAN
    OBVIOUS
  <2> QED
    BY <1>2, <2>2, <2>3, <2>4 DEF AuthenticateUser, AuthenticatePepProxy
<1>3. ASSUME NEW c \in Callers, Handle(c) PROVE AInv'
  BY <1>2, <1>3, StepSearchIdentity, StepSearchTokenOwner, StepCompareMethods,
     StepCreateToken, StepSearchAuthToken, StepSearchSubjectToken,
     StepCheckRequestedTokens, StepDeleteToken, StepIsUser DEF Handle
<1> QED
  BY <1>1, <1>3, StepForget, StepExpireToken, StepRemoveOwner, StepOther DEF ApiNext

LEMMA AInvAlways == ASSUME ApiAssumption PROVE ApiSpec => []AInv
  BY InitAInv, AInvStep, PTL DEF ApiSpec

\* The accounts, the rows and the requests have their types in every state.
THEOREM ApiTypeCorrect == ASSUME ApiAssumption PROVE ApiSpec => []ApiTypeOK
<1>1. AInv => ApiTypeOK
  BY DEF AInv
<1> QED
  BY <1>1, AInvAlways, PTL

\* No token of the table has an owner who is gone; a new one goes to whoever has
\* shown, in this very request, the password, the live token, or both; and one is
\* seen and deleted by its owner or, among users, by an administrator: however
\* accounts and tokens come and go between the look-ups of a request
\* (create_token, info_token and delete_token of the API).
THEOREM TokensKeptToOwners == ASSUME ApiAssumption PROVE ApiSpec => []KeptToOwners
<1>1. AInv => KeptToOwners
  <2> SUFFICES ASSUME AInv PROVE KeptToOwners
    OBVIOUS
  <2>1. OwnersThere
    BY DEF AInv, RowsOK, OwnersThere
  <2>2. IssuedToTheProven
    <3> SUFFICES ASSUME NEW c \in Callers, call[c].st = "201"
                 PROVE  LET q == call[c]
                        IN /\ q.name # Null => <<tok[q.new].owner, "password">> \in known[c]
                           /\ q.auth # Null => <<tok[q.new].owner, "token">> \in known[c]
      BY DEF IssuedToTheProven
    <3> QED
      BY DEF AInv, CallsOK, CallOK, CreateOK, Shown, Agreed
  <2>3. SeenByItsOwner
    <3> SUFFICES ASSUME NEW c \in Callers, call[c].kind \in {"info", "delete"},
                        call[c].st \in {"200", "204", "found"}
                 PROVE  LET q == call[c]
                        IN /\ q.owner \in Owners /\ q.other \in Owners
                           /\ q.owner = tok[q.auth].owner /\ q.other = tok[q.subject].owner
                           /\ q.owner # q.other => q.owner \in Admins /\ q.other \in Members
      BY DEF SeenByItsOwner
    <3> QED
      BY DEF ApiAssumption, AInv, CallsOK, CallOK, PairOK, MaySee
  <2> QED
    BY <2>1, <2>2, <2>3 DEF KeptToOwners
<1> QED
  BY <1>1, AInvAlways, PTL

\* Every step is one of TokenLife, or none: a token is issued once, to one owner,
\* and once it expired or was deleted, alone or with its owner, it never works
\* again for anybody.
THEOREM ApiImplements == ASSUME ApiAssumption PROVE ApiSpec => ApiTokensLive
<1>1. ApiInit => Life!Init
  BY DEF ApiInit, Life!Init, phase, holder, PhaseOf
<1>2. ASSUME AInv, ApiNext PROVE Life!Next \/ UNCHANGED <<phase, holder>>
  <2>1. ASSUME UNCHANGED tok PROVE UNCHANGED <<phase, holder>>
    BY <2>1 DEF phase, holder, PhaseOf
  \* Rows that stop working, or that had before.
  <2>2. ASSUME \A t \in Tokens : /\ tok'[t].owner = tok[t].owner
                                 /\ \/ tok'[t].phase = tok[t].phase
                                    \/ /\ tok[t].phase # "unborn"
                                       /\ tok'[t].phase \in {"expired", "gone"}
        PROVE Life!Next
    <3> DEFINE S == {t \in Tokens : Live(t) /\ tok'[t].phase # "live"}
    <3>1. \A t \in S : phase[t] = "usable"
      BY DEF phase, PhaseOf, Live
    <3>2. phase' = [t \in Tokens |-> IF t \in S THEN "dead" ELSE phase[t]]
      <4>1. ASSUME NEW t \in Tokens
            PROVE  PhaseOf(t)' = IF t \in S THEN "dead" ELSE phase[t]
        BY <2>2 DEF phase, PhaseOf, Live
      <4> QED
        BY <4>1 DEF phase
    <3>3. holder' = holder
      BY <2>2 DEF holder
    <3>4. S \in SUBSET Tokens /\ Life!Retire(S)
      BY <3>1, <3>2, <3>3 DEF Life!Retire
    <3> QED
      BY <3>4 DEF Life!Next
  <2>3. ASSUME NEW c \in Callers, CreateToken(c) PROVE Life!Next \/ UNCHANGED tok
    <3> DEFINE o == IF call[c].name # Null THEN call[c].name ELSE call[c].owner
    <3>1. CASE UNCHANGED tok
      BY <3>1
    <3>2. ASSUME NEW t \in Tokens, tok[t].phase = "unborn", OwnerThere(o),
                 tok' = [tok EXCEPT ![t] = [phase |-> "live", owner |-> o]]
          PROVE Life!Next
      <4>1. o \in Owners /\ tok \in [Tokens -> TokenRow]
        BY <1>2, <3>2 DEF OwnerThere, AInv, ApiTypeOK
      <4> HIDE DEF o
      <4>2. phase[t] = "unborn"
        BY <3>2 DEF phase, PhaseOf
      <4>3. phase' = [phase EXCEPT ![t] = "usable"]
        <5>1. ASSUME NEW u \in Tokens
              PROVE  PhaseOf(u)' = IF u = t THEN "usable" ELSE phase[u]
          BY <3>2, <4>1 DEF phase, PhaseOf
        <5> QED
          BY <5>1 DEF phase
      <4>4. holder' = [holder EXCEPT ![t] = o]
        BY <3>2, <4>1 DEF holder
      <4> QED
        BY <4>1, <4>2, <4>3, <4>4 DEF Life!Next, Life!Issue
    <3> QED
      BY <2>3, <3>1, <3>2 DEF CreateToken
  <2>4. ASSUME NEW c \in Callers, DeleteToken(c) PROVE Life!Next
    <3>1. PairOK(call[c], tok)
      BY <1>2, <2>4 DEF AInv, CallsOK, CallOK
    <3>2. call[c].subject \in Tokens /\ tok[call[c].subject].phase # "unborn"
      BY <2>4, <3>1 DEF PairOK, DeleteToken
    <3>3. tok \in [Tokens -> TokenRow]
      BY <1>2 DEF AInv, ApiTypeOK
    <3> QED
      BY <2>2, <2>4, <3>2, <3>3 DEF DeleteToken, TokenRow
  <2>5. ASSUME NEW t \in Tokens, ExpireToken(t) PROVE Life!Next
    <3>1. tok \in [Tokens -> TokenRow]
      BY <1>2 DEF AInv, ApiTypeOK
    <3> QED
      BY <2>2, <2>5, <3>1 DEF ExpireToken, TokenRow, Live
  <2>6. ASSUME NEW o \in Owners, RemoveOwner(o) PROVE Life!Next
    <3>1. tok \in [Tokens -> TokenRow]
      BY <1>2 DEF AInv, ApiTypeOK
    <3> QED
      BY <2>2, <2>6, <3>1 DEF RemoveOwner, TokenRow, InTable
  <2>7. ASSUME NEW c \in Callers, Arrive(c) \/ Handle(c) \/ Forget(c)
        PROVE  CreateToken(c) \/ DeleteToken(c) \/ UNCHANGED tok
    BY <2>7 DEF Arrive, Handle, Forget, CheckCreateTokenRequest, CheckHeadersRequest,
       ValidateToken, SearchOldAuthToken, SearchIdentity, AuthenticateUser,
       AuthenticatePepProxy, Authenticate, SearchTokenOwner, CompareMethods,
       SearchAuthToken, SearchSubjectToken, CheckRequestedTokens, IsUser, tables
  <2> QED
    BY <1>2, <2>1, <2>3, <2>4, <2>5, <2>6, <2>7 DEF ApiNext, ChangePassword, DisableAccount
<1>3. AInv /\ [ApiNext]_apiVars => [Life!Next]_<<phase, holder>>
  BY <1>2 DEF apiVars, phase, holder, PhaseOf
<1> QED
  BY <1>1, <1>3, AInvAlways, PTL DEF ApiSpec, ApiTokensLive, Life!Spec

-----------------------------------------------------------------------------
(* Capture: what a capture finds in the list. *)

\* Between a first mark of this capture and its next last mark.
Within(c, i) ==
    \E a \in 1..i :
       /\ allPcapFiles[a] = Mark("init", c, task[c].id)
       /\ \A e \in a..i - 1 : allPcapFiles[e] # Mark("end", c, task[c].id)
IsRequest(x) == x.mark = "packet" /\ x.line \in {"request", "bare"}
Found(c) == Chosen(removeDuplicates(getCapturedByIdAndType(c)))

\* What is chosen are packets, in their order, and every request.
LEMMA ChosenIs ==
    ASSUME NEW s \in Seq(Kept)
    PROVE  \E h : /\ Chosen(s) \in Seq(Packets)
                  /\ h \in [1..Len(Chosen(s)) -> 1..Len(s)]
                  /\ \A m \in 1..Len(Chosen(s)) : Chosen(s)[m] = s[h[m]]
                  /\ \A m, k \in 1..Len(Chosen(s)) : m < k => h[m] < h[k]
                  /\ \A i \in 1..Len(s) :
                        IsRequest(s[i]) => \E m \in 1..Len(Chosen(s)) : h[m] = i
<1> DEFINE is(i, what) == s[i].mark = "packet" /\ s[i].line \in what
           asked(i) == \E a \in 1..i - 1 :
                       /\ is(a, {"request", "bare"})
                       /\ \A b \in a + 1..i - 1 : ~is(b, {"response"})
           at == {i \in 1..Len(s) : \/ is(i, {"request", "bare"})
                                    \/ is(i, {"response"}) /\ asked(i)}
           r == Chosen(s)
<1>1. r = SelectPositions(s, at)
  BY Zenon DEF Chosen
<1>2. \A i \in at : s[i].mark = "packet"
  OBVIOUS
<1>3. \A i \in 1..Len(s) : IsRequest(s[i]) => i \in at
  BY DEF IsRequest
<1> HIDE DEF at, r
<1>4. PICK h : Selected(Kept, s, at, Len(s), r, h)
  BY <1>1, Selects
<1>5. r \in Seq(Packets)
  <2>1. ASSUME NEW m \in 1..Len(r) PROVE r[m] \in Packets
    <3>1. r[m] = s[h[m]] /\ h[m] \in at /\ h[m] \in 1..Len(s)
      BY <1>4 DEF Selected
    <3>2. r[m] \in Kept /\ r[m].mark = "packet"
      BY <3>1, <1>2
    <3> QED BY <3>2 DEF Kept
  <2>2. Len(r) \in Nat /\ r = [m \in 1..Len(r) |-> r[m]]
    BY <1>4 DEF Selected
  <2> QED BY <2>1, <2>2
<1>6. \A m \in 1..Len(r) : r[m] = s[h[m]]
  BY <1>4 DEF Selected
<1>7. \A i \in 1..Len(s) : IsRequest(s[i]) => \E m \in 1..Len(r) : h[m] = i
  BY <1>3, <1>4 DEF Selected
<1>8. h \in [1..Len(r) -> 1..Len(s)] /\ \A m, k \in 1..Len(r) : m < k => h[m] < h[k]
  BY <1>4 DEF Selected
<1> QED BY <1>5, <1>6, <1>7, <1>8 DEF r

\* Without the duplicates, the first of those with one line is there.
LEMMA WithoutDuplicatesIs ==
    ASSUME NEW s \in Seq(Kept)
    PROVE  LET r == removeDuplicates(s) IN
           \E h : /\ r \in Seq(Kept) /\ h \in [1..Len(r) -> 1..Len(s)]
                  /\ \A m \in 1..Len(r) : r[m] = s[h[m]]
                  /\ \A m, k \in 1..Len(r) : m < k => h[m] < h[k]
                  /\ \A i \in 1..Len(s) :
                        s[i].mark = "packet" =>
                           \E m \in 1..Len(r) : /\ h[m] <= i /\ r[m].mark = "packet"
                                                /\ r[m].line = s[i].line
                                                /\ \A k \in h[m]..i : SameLine(s[k], s[i])
<1> DEFINE r == removeDuplicates(s)
           at == {i \in 1..Len(s) : i = 1 \/ ~SameLine(s[i - 1], s[i])}
<1>1. r = SelectPositions(s, at)
  BY Zenon DEF removeDuplicates
<1>2. PICK h : Selected(Kept, s, at, Len(s), r, h)
  <2> HIDE DEF r, at
  <2> QED BY <1>1, Selects
<1>3. ASSUME NEW i \in 1..Len(s), s[i].mark = "packet"
      PROVE  \E m \in 1..Len(r) : /\ h[m] <= i /\ r[m].mark = "packet"
                                  /\ r[m].line = s[i].line
                                  /\ \A k \in h[m]..i : SameLine(s[k], s[i])
  <2> DEFINE J == {j \in 1..i : \A k \in j..i : s[k].mark = "packet" /\ s[k].line = s[i].line}
  <2>1. i \in J /\ J \subseteq Nat
    BY <1>3
  <2>2. PICK j \in J : \A k \in J : j <= k
    <3> HIDE DEF J
    <3> QED BY <2>1, SmallestIn
  <2>3. j \in 1..i /\ s[j].mark = "packet" /\ s[j].line = s[i].line
    BY <2>2
  <2>4. j = 1 \/ ~SameLine(s[j - 1], s[j])
    <3> SUFFICES ASSUME j # 1, SameLine(s[j - 1], s[j]) PROVE FALSE
      OBVIOUS
    <3>1. j - 1 \in 1..i /\ ~(j <= j - 1)
      BY <2>3
    <3>2. j - 1 \in J
      <4> SUFFICES ASSUME NEW k \in j - 1..i
                   PROVE  s[k].mark = "packet" /\ s[k].line = s[i].line
        BY <3>1
      <4>1. CASE k = j - 1
        BY <4>1, <2>3 DEF SameLine
      <4>2. CASE k # j - 1
        <5>1. k \in j..i
          BY <4>2, <2>3
        <5> QED BY <5>1, <2>2
      <4> QED BY <4>1, <4>2
    <3> HIDE DEF J
    <3> QED BY <2>2, <3>1, <3>2
  <2>5. j \in at /\ j \in 1..Len(s)
    BY <2>3, <2>4
  <2>8. \A k \in j..i : SameLine(s[k], s[i])
    BY <1>3, <2>2 DEF SameLine
  <2> HIDE DEF r, at, J
  <2>6. PICK m \in 1..Len(r) : h[m] = j
    BY <2>5, <1>2 DEF Selected
  <2>7. r[m] = s[j]
    BY <2>6, <1>2 DEF Selected
  <2> QED BY <2>3, <2>6, <2>7, <2>8
<1> HIDE DEF r, at
<1>4. /\ r \in Seq(Kept) /\ h \in [1..Len(r) -> 1..Len(s)]
      /\ \A m \in 1..Len(r) : r[m] = s[h[m]]
      /\ \A m, k \in 1..Len(r) : m < k => h[m] < h[k]
  BY <1>2 DEF Selected
<1> QED BY <1>3, <1>4 DEF r

\* What is found are packets of the list within the marks, in their order; of
\* every request within them one with its line is found, at or before it, and
\* what is between the two within the marks has this line.
LEMMA FoundIs ==
    ASSUME CaptureTypeOK, NEW c \in Capturers
    PROVE  \E h : /\ Found(c) \in Seq(Packets)
                  /\ h \in [1..Len(Found(c)) -> 1..Len(allPcapFiles)]
                  /\ \A m \in 1..Len(Found(c)) :
                        Found(c)[m] = allPcapFiles[h[m]] /\ Within(c, h[m])
                  /\ \A m, k \in 1..Len(Found(c)) : m < k => h[m] < h[k]
                  /\ \A p \in 1..Len(allPcapFiles) :
                        IsRequest(allPcapFiles[p]) /\ Within(c, p) =>
                           \E m \in 1..Len(Found(c)) :
                              /\ h[m] <= p
                              /\ \A k \in h[m]..p :
                                    Within(c, k) => SameLine(allPcapFiles[k], allPcapFiles[p])
<1> DEFINE at == {i \in 1..Len(allPcapFiles) : Within(c, i)}
           s == getCapturedByIdAndType(c)
           u == removeDuplicates(s)
           r == Chosen(u)
           N == Len(allPcapFiles)
<1>0. allPcapFiles \in Seq(Kept) /\ N \in Nat
  BY DEF CaptureTypeOK
<1>1. s = SelectPositions(allPcapFiles, at)
  BY Zenon DEF getCapturedByIdAndType, Within
<1>2. PICK f : Selected(Kept, allPcapFiles, at, N, s, f)
  <2> HIDE DEF s, at
  <2> QED BY <1>0, <1>1, Selects
<1> HIDE DEF s
<1>s. s \in Seq(Kept) /\ Len(s) \in Nat /\ f \in [1..Len(s) -> 1..N]
  BY <1>2 DEF Selected
<1>3. PICK g : /\ u \in Seq(Kept) /\ g \in [1..Len(u) -> 1..Len(s)]
               /\ \A m \in 1..Len(u) : u[m] = s[g[m]]
               /\ \A m, k \in 1..Len(u) : m < k => g[m] < g[k]
               /\ \A i \in 1..Len(s) :
                     s[i].mark = "packet" =>
                        \E m \in 1..Len(u) : /\ g[m] <= i /\ u[m].mark = "packet"
                                             /\ u[m].line = s[i].line
                                             /\ \A k \in g[m]..i : SameLine(s[k], s[i])
  BY <1>s, WithoutDuplicatesIs
<1> HIDE DEF u
<1>4. PICK e : /\ r \in Seq(Packets) /\ e \in [1..Len(r) -> 1..Len(u)]
               /\ \A m \in 1..Len(r) : r[m] = u[e[m]]
               /\ \A m, k \in 1..Len(r) : m < k => e[m] < e[k]
               /\ \A i \in 1..Len(u) :
                     IsRequest(u[i]) => \E m \in 1..Len(r) : e[m] = i
  BY <1>3, ChosenIs
<1> HIDE DEF r
<1>r. Len(r) \in Nat /\ Len(u) \in Nat
  BY <1>3, <1>4
<1> DEFINE h == [m \in 1..Len(r) |-> f[g[e[m]]]]
<1>5. ASSUME NEW m \in 1..Len(r)
      PROVE  /\ e[m] \in 1..Len(u) /\ g[e[m]] \in 1..Len(s)
             /\ f[g[e[m]]] \in 1..N /\ f[g[e[m]]] \in at
             /\ r[m] = allPcapFiles[f[g[e[m]]]]
  BY <1>2, <1>s, <1>3, <1>4 DEF Selected
<1>6. h \in [1..Len(r) -> 1..N] /\ \A m \in 1..Len(r) : h[m] = f[g[e[m]]]
  BY <1>5
<1> HIDE DEF h
<1>7. \A m \in 1..Len(r) : r[m] = allPcapFiles[h[m]] /\ Within(c, h[m])
  BY <1>5, <1>6
<1>8. ASSUME NEW m \in 1..Len(r), NEW k \in 1..Len(r), m < k PROVE h[m] < h[k]
  <2>1. e[m] < e[k] /\ e[m] \in 1..Len(u) /\ e[k] \in 1..Len(u)
    BY <1>4, <1>8, <1>5
  <2>2. g[e[m]] < g[e[k]] /\ g[e[m]] \in 1..Len(s) /\ g[e[k]] \in 1..Len(s)
    BY <2>1, <1>3, <1>5
  <2>3. \A a, b \in 1..Len(s) : a < b => f[a] < f[b]
    BY <1>2 DEF Selected
  <2>4. f[g[e[m]]] < f[g[e[k]]]
    BY <2>2, <2>3
  <2> QED BY <2>4, <1>6
<1>9. ASSUME NEW p \in 1..N, IsRequest(allPcapFiles[p]), Within(c, p)
      PROVE  \E m \in 1..Len(r) :
                /\ h[m] <= p
                /\ \A k \in h[m]..p :
                      Within(c, k) => SameLine(allPcapFiles[k], allPcapFiles[p])
  <2> p \in at
    BY <1>9
  <2> HIDE DEF at
  <2>1. PICK i \in 1..Len(s) : f[i] = p /\ s[i] = allPcapFiles[p]
    BY <1>2 DEF Selected
  <2>2. PICK j \in 1..Len(u) : /\ g[j] <= i /\ u[j].mark = "packet"
                               /\ u[j].line = allPcapFiles[p].line
                               /\ \A k \in g[j]..i : SameLine(s[k], allPcapFiles[p])
    BY <2>1, <1>3, <1>9 DEF IsRequest
  <2>3. IsRequest(u[j])
    BY <2>2, <1>9 DEF IsRequest
  <2>4. PICK m \in 1..Len(r) : e[m] = j
    BY <2>3, <1>4
  <2>5. r[m] = u[j]
    BY <2>4, <1>4
  <2>6. f[g[j]] <= f[i]
    <3>1. g[j] \in 1..Len(s)
      BY <1>3
    <3>2. f[i] \in 1..N /\ f[g[j]] \in 1..N
      BY <3>1, <1>s
    <3>3. g[j] < i \/ g[j] = i
      BY <3>1, <2>2
    <3>4. \A a, b \in 1..Len(s) : a < b => f[a] < f[b]
      BY <1>2 DEF Selected
    <3> QED BY <3>1, <3>2, <3>3, <3>4
  <2>7. ASSUME NEW k \in f[g[j]]..p, Within(c, k)
        PROVE  SameLine(allPcapFiles[k], allPcapFiles[p])
    <3>1. g[j] \in 1..Len(s) /\ f[g[j]] \in 1..N /\ k \in 1..N
      BY <1>0, <1>3, <1>s, <1>9
    <3>2. k \in at
      BY <2>7, <3>1 DEF at
    <3>3. PICK a \in 1..Len(s) : f[a] = k /\ s[a] = allPcapFiles[k]
      BY <1>2, <3>1, <3>2 DEF Selected
    <3>4. \A x, y \in 1..Len(s) : x < y => f[x] < f[y]
      BY <1>2 DEF Selected
    <3>5. ~(a < g[j])
      BY <3>1, <3>3, <3>4
    <3>6. ~(i < a)
      BY <1>0, <2>1, <3>1, <3>3, <3>4
    <3>7. a \in g[j]..i
      BY <1>s, <3>1, <3>5, <3>6
    <3> QED BY <2>2, <3>3, <3>7
  <2> QED BY <2>1, <2>4, <2>6, <2>7, <1>6
<1>10. Found(c) = r
  BY Zenon DEF Found, r, u, s
<1> QED BY <1>4, <1>6, <1>7, <1>8, <1>9, <1>10

-----------------------------------------------------------------------------
(* Types. *)

LEMMA TypeInTypes == \A c \in Capturers : Type(c) \in Types
  BY DEF Type, Types

\* What AddFound adds is what the lemmas above speak of.
LEMMA AddFoundIs ==
    ASSUME NEW c, AddFound(c)
    PROVE  /\ task[c].at = "find"
           /\ IF Len(allPcapFiles) # task[c].seen THEN Again(c)
              ELSE task' = [task EXCEPT ![c].at = "verify",
                                        ![c].captured = @ \o Found(c)]
           /\ UNCHANGED <<traffic, file, allPcapFiles, lists, counts>>
  BY Zenon DEF AddFound, Found

LEMMA MarksKept ==
    ASSUME NEW c \in Capturers, NEW id \in Nat, NEW which \in {"init", "end"}
    PROVE  Mark(which, c, id) \in Kept
  BY TypeInTypes DEF Mark, Kept

LEMMA AddLineType ==
    ASSUME CaptureTypeOK, NEW c \in Capturers, NEW x \in Kept, AddLine(c, x)
    PROVE  allPcapFiles' \in Seq(Kept)
<1>1. allPcapFiles \in Seq(Kept)
  BY DEF CaptureTypeOK
<1> QED BY <1>1 DEF AddLine

LEMMA GoType ==
    ASSUME CaptureTypeOK, NEW c \in Capturers,
           NEW at \in {"idle", "sleep", "read", "print", "find", "verify", "return"},
           Go(c, at)
    PROVE  task' \in [Capturers -> Tasks]
  BY DEF Go, CaptureTypeOK, Tasks

LEMMA IdleTaskType == IdleTask \in Tasks
  BY DEF IdleTask, Tasks

LEMMA StepTypeOK ==
    ASSUME CaptureTypeOK, [CaptureNext]_captureVars PROVE CaptureTypeOK'
<1>1. CASE Write
  <2>1. Len(file) + 1 \in 1..Len(traffic)
    BY <1>1 DEF Write, CaptureTypeOK
  <2>2. traffic[Len(file) + 1] \in Lines
    BY <2>1 DEF CaptureTypeOK
  <2>3. file' \in Seq(Lines) /\ Len(file') <= Len(traffic)
    BY <1>1, <2>1, <2>2 DEF Write, CaptureTypeOK
  <2> QED BY <1>1, <2>3 DEF Write, counts, CaptureTypeOK
<1>2. ASSUME NEW c \in Capturers, Begin(c) PROVE CaptureTypeOK'
  <2> DEFINE id == Len(lists[Type(c)]) + 1
             k == [IdleTask EXCEPT !.at = "sleep", !.id = id, !.from = Len(allPcapFiles)]
  <2>1. id \in Nat
    BY TypeInTypes DEF CaptureTypeOK
  <2>2. k \in Tasks
    <3> DEFINE k1 == [IdleTask EXCEPT !.at = "sleep"]
               k2 == [k1 EXCEPT !.id = id]
               k3 == [k2 EXCEPT !.from = Len(allPcapFiles)]
    <3>1. Len(allPcapFiles) \in Nat
      BY DEF CaptureTypeOK
    <3>2. k1 \in Tasks
      BY IdleTaskType DEF Tasks
    <3>3. k2 \in Tasks
      <4> HIDE DEF k1, id
      <4> QED BY <3>2, <2>1 DEF Tasks
    <3>4. k3 \in Tasks
      <4> HIDE DEF k2, id
      <4> QED BY <3>1, <3>3 DEF Tasks
    <3>5. k = k3
      OBVIOUS
    <3> HIDE DEF k, k3
    <3> QED BY <3>4, <3>5
  <2>3. Mark("init", c, id) \in Kept
    BY <2>1, MarksKept
  <2>4. /\ task' = [task EXCEPT ![c] = k]
        /\ allPcapFiles' = Append(allPcapFiles, Mark("init", c, id))
    BY <1>2 DEF Begin
  <2> HIDE DEF k, id
  <2>5. task' \in [Capturers -> Tasks] /\ allPcapFiles' \in Seq(Kept)
    BY <2>2, <2>3, <2>4 DEF CaptureTypeOK
  <2>6. begun' \in Nat /\ overlapped' \subseteq {"same", "other"}
    BY <1>2 DEF Begin, CaptureTypeOK
  <2> QED BY <1>2, <2>5, <2>6 DEF Begin, CaptureTypeOK
<1>3. ASSUME NEW c \in Capturers, Open(c) PROVE CaptureTypeOK'
  <2> DEFINE k == [task[c] EXCEPT !.at = "read", !.counter = 1,
                                  !.init = Len(allPcapFiles), !.tries = @ + 1]
  <2>0. Len(allPcapFiles) \in Nat /\ task[c] \in Tasks
    BY DEF CaptureTypeOK
  <2>2. k \in Tasks
    <3> DEFINE n == Len(allPcapFiles)
               t == task[c].tries + 1
               k1 == [task[c] EXCEPT !.at = "read"]
               k2 == [k1 EXCEPT !.counter = 1]
               k3 == [k2 EXCEPT !.init = n]
               k4 == [k3 EXCEPT !.tries = t]
    <3>1. n \in Nat /\ t \in Nat
      BY <2>0 DEF Tasks
    <3>2. k1 \in Tasks
      BY <2>0 DEF Tasks
    <3>3. k2 \in Tasks
      <4> HIDE DEF k1
      <4> QED BY <3>2 DEF Tasks
    <3>4. k3 \in Tasks
      <4> HIDE DEF k2, n
      <4> QED BY <3>1, <3>3 DEF Tasks
    <3>5. k4 \in Tasks
      <4> HIDE DEF k3, t
      <4> QED BY <3>1, <3>4 DEF Tasks
    <3>6. k = k4
      OBVIOUS
    <3> HIDE DEF k, k4
    <3> QED BY <3>5, <3>6
  <2>3. task' = [task EXCEPT ![c] = k]
    BY <1>3 DEF Open
  <2> HIDE DEF k
  <2>1. task' \in [Capturers -> Tasks]
    BY <2>2, <2>3 DEF CaptureTypeOK
  <2> QED BY <1>3, <2>1 DEF Open, counts, CaptureTypeOK
<1>4. ASSUME NEW c \in Capturers, nextPacket(c) PROVE CaptureTypeOK'
  <2> DEFINE k == [task[c] EXCEPT !.counter = @ + 1]
  <2>0. k \in Tasks
    <3>1. task[c] \in Tasks /\ task[c].counter + 1 \in Nat \ {0}
      BY DEF CaptureTypeOK, Tasks
    <3> QED BY <3>1 DEF Tasks
  <2>1. task' \in [Capturers -> Tasks]
    <3>1. task' = [task EXCEPT ![c] = k]
      BY <1>4 DEF nextPacket
    <3> HIDE DEF k
    <3> QED BY <2>0, <3>1 DEF CaptureTypeOK
  <2>2. task[c].counter \in 1..Len(file)
    BY <1>4 DEF nextPacket, Tasks, CaptureTypeOK
  <2>3. Packet(task[c].counter) \in Kept
    BY <2>2 DEF Packet, Kept, Packets, CaptureTypeOK
  <2>4. allPcapFiles' \in Seq(Kept)
    <3>1. CASE AddLine(c, Packet(task[c].counter))
      BY <2>3, <3>1, AddLineType
    <3>2. CASE UNCHANGED allPcapFiles
      BY <3>2 DEF CaptureTypeOK
    <3> QED BY <1>4, <3>1, <3>2 DEF nextPacket
  <2> QED BY <1>4, <2>1, <2>4 DEF nextPacket, counts, CaptureTypeOK
<1>5. ASSUME NEW c \in Capturers, EndOfFile(c) PROVE CaptureTypeOK'
  <2>1. task[c].id \in Nat
    BY DEF CaptureTypeOK, Tasks
  <2>2. Mark("end", c, task[c].id) \in Kept
    BY <2>1, MarksKept
  <2>3. allPcapFiles' \in Seq(Kept)
    BY <1>5, <2>2, AddLineType DEF EndOfFile
  <2>4. Len(allPcapFiles') \in Nat
    BY <2>3
  <2>5. task' \in [Capturers -> Tasks]
    BY <1>5, <2>4 DEF EndOfFile, Tasks, CaptureTypeOK
  <2> QED BY <1>5, <2>3, <2>5 DEF EndOfFile, counts, CaptureTypeOK
<1>6. ASSUME NEW c \in Capturers, PrintMarks(c) PROVE CaptureTypeOK'
  <2>1. task' \in [Capturers -> Tasks]
    BY <1>6, GoType DEF PrintMarks, Again
  <2> QED BY <1>6, <2>1 DEF PrintMarks, counts, CaptureTypeOK
<1>7. ASSUME NEW c \in Capturers, AddFound(c) PROVE CaptureTypeOK'
  <2>1. CASE Again(c)
    <3>1. task' \in [Capturers -> Tasks]
      BY <2>1, GoType DEF Again
    <3> QED BY <1>7, <3>1, AddFoundIs DEF counts, CaptureTypeOK
  <2>2. CASE task' = [task EXCEPT ![c].at = "verify", ![c].captured = @ \o Found(c)]
    <3>1. Found(c) \in Seq(Packets)
      BY FoundIs
    <3>2. task[c].captured \o Found(c) \in Seq(Packets)
      BY <3>1 DEF CaptureTypeOK, Tasks
    <3>3. task' \in [Capturers -> Tasks]
      BY <2>2, <3>2 DEF Tasks, CaptureTypeOK
    <3> QED BY <1>7, <3>3, AddFoundIs DEF counts, CaptureTypeOK
  <2> QED BY <1>7, <2>1, <2>2, AddFoundIs
<1>8. ASSUME NEW c \in Capturers, verifyVulnerabilities(c) PROVE CaptureTypeOK'
  <2>1. task' \in [Capturers -> Tasks]
    BY <1>8, GoType DEF verifyVulnerabilities, Again
  <2> QED BY <1>8, <2>1 DEF verifyVulnerabilities, counts, CaptureTypeOK
<1>9. ASSUME NEW c \in Capturers, addCaptureTemplate(c) PROVE CaptureTypeOK'
  <2> DEFINE x == [id |-> task[c].id, from |-> task[c].from, captured |-> task[c].captured]
  <2>1. x \in Captured
    BY DEF Captured, CaptureTypeOK, Tasks
  <2>2. /\ lists' = [lists EXCEPT ![Type(c)] = Append(@, x)]
        /\ task' = [task EXCEPT ![c] = IdleTask]
    BY <1>9 DEF addCaptureTemplate
  <2> HIDE DEF x
  <2>3. lists' \in [Types -> Seq(Captured)]
    BY <2>1, <2>2, TypeInTypes DEF CaptureTypeOK
  <2>5. task' \in [Capturers -> Tasks]
    BY <2>2, IdleTaskType DEF CaptureTypeOK
  <2> QED BY <1>9, <2>3, <2>5 DEF addCaptureTemplate, counts, CaptureTypeOK
<1>10. ASSUME NEW c \in Capturers, ReadFails(c) PROVE CaptureTypeOK'
  <2>1. task' \in [Capturers -> Tasks]
    BY <1>10, GoType DEF ReadFails, Again
  <2>2. faults' \in Nat
    BY <1>10 DEF ReadFails, CaptureTypeOK
  <2> QED BY <1>10, <2>1, <2>2 DEF ReadFails, CaptureTypeOK
<1>11. CASE getCleanList
  <2>1. lists' \in [Types -> Seq(Captured)]
    BY <1>11 DEF getCleanList, Types, CaptureTypeOK
  <2> QED BY <1>11, <2>1 DEF getCleanList, CaptureTypeOK
<1>12. CASE UNCHANGED captureVars
  BY <1>12 DEF captureVars, CaptureTypeOK
<1> QED
  BY <1>1, <1>2, <1>3, <1>4, <1>5, <1>6, <1>7, <1>8, <1>9, <1>10, <1>11, <1>12
     DEF CaptureNext, Step

LEMMA InitTypeOK == ASSUME CaptureAssumption, CaptureInit PROVE CaptureTypeOK
<1>1. traffic \in Seq(Lines) /\ file = <<>> /\ allPcapFiles = <<>>
  BY DEF CaptureInit, CaptureAssumption
<1>3. task \in [Capturers -> Tasks]
  BY IdleTaskType DEF CaptureInit
<1>4. lists \in [Types -> Seq(Captured)]
  BY DEF CaptureInit, Types
<1>5. begun \in Nat /\ faults \in Nat /\ overlapped \subseteq {"same", "other"}
      /\ cleaned \in BOOLEAN
  BY DEF CaptureInit
<1>6. /\ file \in Seq(Lines) /\ Len(file) <= Len(traffic) /\ allPcapFiles \in Seq(Kept)
  BY <1>1
<1> QED BY <1>1, <1>3, <1>4, <1>5, <1>6, Zenon DEF CaptureTypeOK

\* What is written, kept, shown and noted of each capture has its type.
THEOREM CaptureTypeCorrect == ASSUME CaptureAssumption PROVE CaptureSpec => []CaptureTypeOK
<1> QED BY InitTypeOK, StepTypeOK, PTL DEF CaptureSpec

-----------------------------------------------------------------------------
(* What is shown was kept since the capture began.                         *)
(* Of each type one capture is under way; it has the identifier that comes *)
(* next, and a first mark with it is not found before it began.            *)

Since(s, from) ==
    \A m \in 1..Len(s) : \E p \in from + 1..Len(allPcapFiles) : allPcapFiles[p] = s[m]
OneOfType ==
    \A c, d \in Capturers : Busy(c) /\ Busy(d) /\ Type(c) = Type(d) => c = d
BegunOK(c) ==
    Busy(c) =>
       /\ task[c].id = Len(lists[Type(c)]) + 1 /\ task[c].from <= Len(allPcapFiles)
       /\ \A p \in 1..Len(allPcapFiles) :
             allPcapFiles[p] = Mark("init", c, task[c].id) => p > task[c].from
       /\ Since(task[c].captured, task[c].from)
MarksOK ==
    \A p \in 1..Len(allPcapFiles) : allPcapFiles[p].mark = "init" =>
       LET t == allPcapFiles[p].type  n == Len(lists[allPcapFiles[p].type]) IN
       \/ allPcapFiles[p].id <= n
       \/ allPcapFiles[p].id = n + 1 /\ \E c \in Capturers : Busy(c) /\ Type(c) = t
ListedOK ==
    \A t \in Types : \A i \in Captures(t) : Since(lists[t][i].captured, lists[t][i].from)
SinceOK ==
    ("same" \notin overlapped /\ ~cleaned) =>
       OneOfType /\ (\A c \in Capturers : BegunOK(c)) /\ MarksOK /\ ListedOK

-----------------------------------------------------------------------------
(* Of captures that do not overlap: a packet is kept at the position after *)
(* its number, and what is read goes on where the list ends.               *)

OneAtATime == \A c, d \in Capturers : Busy(c) /\ Busy(d) => c = d
PlacesOK ==
    \A p \in 1..Len(allPcapFiles) :
       allPcapFiles[p].mark = "packet" => allPcapFiles[p].n = p - 1
ReadingOK(c) ==
    /\ Busy(c) => Len(allPcapFiles) >= 1
    /\ task[c].at = "read" =>
          /\ task[c].init >= 1
          /\ Len(allPcapFiles) = IF task[c].counter > task[c].init
                                 THEN task[c].counter ELSE task[c].init
    /\ task[c].at \in {"print", "find"} => task[c].seen = Len(allPcapFiles)
OnceOK ==
    overlapped = {} =>
       OneAtATime /\ PlacesOK /\ \A c \in Capturers : ReadingOK(c)

-----------------------------------------------------------------------------
(* And as long as the captures are not cleared: a capture finds what it    *)
(* keeps, and returns what it found.                                       *)

\* A capture that cannot return, because its analysis cannot read it.
Stuck(c) == Type(c) # "sync" /\ ~Parseable(task[c].captured)
Rising(s) == \A m, k \in 1..Len(s) : m < k => s[m].n < s[k].n
Covers(c) ==
    \A p \in task[c].from + 1..Len(allPcapFiles) :
       IsRequest(allPcapFiles[p]) => ShownIn(task[c].captured, p)
FramedOK(c) ==
    Busy(c) =>
       /\ task[c].from < Len(allPcapFiles)
       /\ allPcapFiles[task[c].from + 1] = Mark("init", c, task[c].id)
       /\ \A t \in Types : \A i \in Captures(t) : \A m \in 1..Len(lists[t][i].captured) :
             lists[t][i].captured[m].n < task[c].from
FindsOK(c) ==
    Busy(c) =>
       /\ \/ task[c].at \in {"verify", "return"} \/ Stuck(c)
          \/ \A p \in task[c].from + 1..Len(allPcapFiles) :
                allPcapFiles[p] = Mark("end", c, task[c].id) =>
                   p = Len(allPcapFiles) /\ task[c].at \in {"print", "find"}
       /\ task[c].at \in {"sleep", "read", "print", "find"} =>
             task[c].captured = <<>> \/ Stuck(c)
       /\ task[c].at = "verify" => Stuck(c) \/ (Rising(task[c].captured) /\ Covers(c))
       /\ task[c].at = "return" => Rising(task[c].captured) /\ Covers(c)
Apart ==
    \A t, u \in Types : \A i \in Captures(t), j \in Captures(u) :
       LET s == lists[t][i].captured  r == lists[u][j].captured
       IN /\ Injective(s)
          /\ (t # u \/ i # j) => \A m \in 1..Len(s), n \in 1..Len(r) : s[m] # r[n]
RequestsOK ==
    \A p \in 1..Len(allPcapFiles) : IsRequest(allPcapFiles[p]) =>
       \/ \E t \in Types : \E i \in Captures(t) : ShownIn(lists[t][i].captured, p)
       \/ \E c \in Capturers : Busy(c) /\ p > task[c].from
ShowsOK ==
    (overlapped = {} /\ ~cleaned) =>
       (\A c \in Capturers : FramedOK(c) /\ FindsOK(c)) /\ Apart /\ RequestsOK

-----------------------------------------------------------------------------
(* What the steps do. *)

Extends ==
    /\ Len(allPcapFiles) \in Nat /\ Len(allPcapFiles') \in Nat
    /\ Len(allPcapFiles) <= Len(allPcapFiles')
    /\ \A p \in 1..Len(allPcapFiles) :
          p \in 1..Len(allPcapFiles') /\ allPcapFiles'[p] = allPcapFiles[p]
Grows(x) ==
    /\ Extends /\ allPcapFiles' = Append(allPcapFiles, x)
    /\ Len(allPcapFiles') = Len(allPcapFiles) + 1
    /\ allPcapFiles'[Len(allPcapFiles) + 1] = x
Elsewhere(c) == \A d \in Capturers : d # c => task'[d] = task[d]
Working(c) == task[c].at # "idle" /\ task'[c].at # "idle"
SameAs(c) ==
    /\ task'[c].id = task[c].id /\ task'[c].from = task[c].from
    /\ task'[c].captured = task[c].captured
Others4 == <<lists, overlapped, cleaned, begun>>
Stays(c) ==
    /\ Elsewhere(c) /\ Working(c) /\ SameAs(c) /\ Others4' = Others4
    /\ \/ Extends /\ allPcapFiles' = allPcapFiles
       \/ \E x \in Kept : x.mark # "init" /\ Grows(x)

LEMMA AppendGrows ==
    ASSUME CaptureTypeOK, NEW x \in Kept, allPcapFiles' = Append(allPcapFiles, x) PROVE Grows(x)
<1>1. allPcapFiles \in Seq(Kept)
  BY DEF CaptureTypeOK
<1> QED BY <1>1 DEF Grows, Extends

LEMMA SameExtends ==
    ASSUME CaptureTypeOK, allPcapFiles' = allPcapFiles PROVE Extends
<1>1. allPcapFiles \in Seq(Kept)
  BY DEF CaptureTypeOK
<1> QED BY <1>1 DEF Extends

LEMMA AddLineIs ==
    ASSUME CaptureTypeOK, NEW c \in Capturers, NEW x \in Kept, AddLine(c, x)
    PROVE  Grows(x) \/ (Others(c) # {} /\ Extends /\ allPcapFiles' = allPcapFiles)
  BY AppendGrows, SameExtends DEF AddLine

LEMMA GoIs ==
    ASSUME CaptureTypeOK, NEW c \in Capturers, NEW at, Go(c, at)
    PROVE  Elsewhere(c) /\ SameAs(c) /\ task'[c].at = at /\ task'[c].seen = task[c].seen
  BY DEF Go, Elsewhere, SameAs, CaptureTypeOK, Tasks

LEMMA OpenIs ==
    ASSUME CaptureTypeOK, NEW c \in Capturers, Open(c)
    PROVE  /\ Stays(c) /\ allPcapFiles' = allPcapFiles
           /\ task[c].at = "sleep" /\ task'[c].at = "read"
           /\ task'[c].counter = 1 /\ task'[c].init = Len(allPcapFiles)
<1>1. task \in [Capturers -> Tasks]
  BY DEF CaptureTypeOK
<1>2. /\ Elsewhere(c) /\ SameAs(c) /\ task'[c].at = "read"
      /\ task'[c].counter = 1 /\ task'[c].init = Len(allPcapFiles)
  BY <1>1 DEF Open, Elsewhere, SameAs, Tasks
<1>3. task[c].at = "sleep" /\ UNCHANGED <<allPcapFiles, lists, overlapped, cleaned, begun>>
  BY DEF Open, counts
<1>4. Extends
  BY <1>3, SameExtends
<1> QED BY <1>2, <1>3, <1>4 DEF Stays, Working, Others4

LEMMA nextPacketIs ==
    ASSUME CaptureTypeOK, NEW c \in Capturers, nextPacket(c)
    PROVE  /\ Stays(c) /\ task[c].at = "read" /\ task'[c].at = "read"
           /\ task[c].counter \in 1..Len(file)
           /\ task'[c].counter = task[c].counter + 1 /\ task'[c].init = task[c].init
           /\ task[c].init \in Nat
           /\ IF task[c].counter >= task[c].init
              THEN \/ Grows(Packet(task[c].counter))
                   \/ Others(c) # {} /\ allPcapFiles' = allPcapFiles
              ELSE allPcapFiles' = allPcapFiles
<1>1. task \in [Capturers -> Tasks] /\ Len(file) \in Nat
  BY DEF CaptureTypeOK
<1>2. task[c] \in Tasks /\ task[c].counter \in Nat \ {0} /\ task[c].init \in Nat
  BY <1>1 DEF Tasks
<1>3. /\ Elsewhere(c) /\ SameAs(c) /\ task[c].at = "read" /\ task'[c].at = "read"
      /\ task[c].counter \in 1..Len(file)
      /\ task'[c].counter = task[c].counter + 1 /\ task'[c].init = task[c].init
  BY <1>1, <1>2 DEF nextPacket, Elsewhere, SameAs, Tasks
<1> DEFINE x == Packet(task[c].counter)
<1>4. x \in Kept /\ x.mark # "init"
  BY <1>3 DEF Packet, Kept, Packets, CaptureTypeOK
<1> HIDE DEF x
<1>5. IF task[c].counter >= task[c].init
      THEN Grows(x) \/ (Others(c) # {} /\ Extends /\ allPcapFiles' = allPcapFiles)
      ELSE Extends /\ allPcapFiles' = allPcapFiles
  <2>1. CASE task[c].counter >= task[c].init
    <3>1. AddLine(c, x)
      BY <2>1 DEF nextPacket, x
    <3> QED BY <2>1, <3>1, <1>4, AddLineIs
  <2>2. CASE ~(task[c].counter >= task[c].init)
    BY <2>2, SameExtends DEF nextPacket
  <2> QED BY <2>1, <2>2
<1>6. Others4' = Others4
  BY DEF nextPacket, Others4, counts
<1>7. Working(c)
  BY <1>3 DEF Working
<1>8. Stays(c)
  BY <1>3, <1>4, <1>5, <1>6, <1>7 DEF Stays
<1> QED BY <1>2, <1>3, <1>5, <1>8 DEF x

LEMMA EndOfFileIs ==
    ASSUME CaptureTypeOK, NEW c \in Capturers, EndOfFile(c)
    PROVE  /\ Stays(c) /\ task[c].at = "read" /\ task'[c].at = "print"
           /\ task'[c].seen = Len(allPcapFiles')
           /\ \/ Grows(Mark("end", c, task[c].id))
              \/ Others(c) # {} /\ allPcapFiles' = allPcapFiles
<1>1. task \in [Capturers -> Tasks]
  BY DEF CaptureTypeOK
<1>2. task[c].id \in Nat
  BY <1>1 DEF Tasks
<1>3. /\ Elsewhere(c) /\ SameAs(c) /\ task[c].at = "read" /\ task'[c].at = "print"
      /\ task'[c].seen = Len(allPcapFiles')
  BY <1>1 DEF EndOfFile, Elsewhere, SameAs, Tasks
<1> DEFINE x == Mark("end", c, task[c].id)
<1>4. x \in Kept /\ x.mark # "init"
  BY <1>2, MarksKept DEF Mark
<1> HIDE DEF x
<1>5. Grows(x) \/ (Others(c) # {} /\ Extends /\ allPcapFiles' = allPcapFiles)
  BY <1>4, AddLineIs DEF EndOfFile, x
<1>6. Others4' = Others4
  BY DEF EndOfFile, Others4, counts
<1>7. Working(c)
  BY <1>3 DEF Working
<1>8. Stays(c)
  BY <1>3, <1>4, <1>5, <1>6, <1>7 DEF Stays
<1> QED BY <1>3, <1>5, <1>8 DEF x

\* A step that only changes where a capture is.
LEMMA GoStays ==
    ASSUME CaptureTypeOK, NEW c \in Capturers, NEW at, at # "idle", Go(c, at),
           task[c].at # "idle", UNCHANGED allPcapFiles, UNCHANGED Others4
    PROVE  Stays(c) /\ task'[c].at = at /\ task'[c].seen = task[c].seen
  BY GoIs, SameExtends DEF Stays, Working

LEMMA PrintMarksIs ==
    ASSUME CaptureTypeOK, NEW c \in Capturers, PrintMarks(c)
    PROVE  /\ Stays(c) /\ allPcapFiles' = allPcapFiles /\ task[c].at = "print"
           /\ task'[c].seen = task[c].seen
           /\ task'[c].at = IF Len(allPcapFiles) # task[c].seen THEN "sleep" ELSE "find"
<1>1. UNCHANGED allPcapFiles /\ UNCHANGED Others4 /\ task[c].at = "print"
  BY DEF PrintMarks, Others4, counts
<1>2. IF Len(allPcapFiles) # task[c].seen THEN Go(c, "sleep") ELSE Go(c, "find")
  BY DEF PrintMarks, Again
<1> QED BY <1>1, <1>2, GoStays

LEMMA AddFoundStays ==
    ASSUME CaptureTypeOK, NEW c \in Capturers, AddFound(c)
    PROVE  /\ task[c].at = "find" /\ allPcapFiles' = allPcapFiles
           /\ Others4' = Others4 /\ Extends
           /\ IF Len(allPcapFiles) # task[c].seen
              THEN Stays(c) /\ task'[c].at = "sleep"
              ELSE /\ Elsewhere(c) /\ task'[c].at = "verify" /\ Working(c)
                   /\ task'[c].id = task[c].id /\ task'[c].from = task[c].from
                   /\ task'[c].captured = task[c].captured \o Found(c)
<1>1. /\ task[c].at = "find" /\ UNCHANGED allPcapFiles /\ UNCHANGED Others4
  BY AddFoundIs DEF Others4, counts
<1>2. CASE Len(allPcapFiles) # task[c].seen
  <2>1. Go(c, "sleep")
    BY <1>2, AddFoundIs DEF Again
  <2> QED BY <1>1, <1>2, <2>1, GoStays, SameExtends
<1>3. CASE Len(allPcapFiles) = task[c].seen
  <2>1. task' = [task EXCEPT ![c].at = "verify", ![c].captured = @ \o Found(c)]
    BY <1>3, AddFoundIs
  <2>2. task \in [Capturers -> Tasks]
    BY DEF CaptureTypeOK
  <2>3. /\ Elsewhere(c) /\ task'[c].at = "verify"
        /\ task'[c].id = task[c].id /\ task'[c].from = task[c].from
        /\ task'[c].captured = task[c].captured \o Found(c)
    BY <2>1, <2>2 DEF Elsewhere, Tasks
  <2> QED BY <1>1, <1>3, <2>3, SameExtends DEF Working
<1> QED BY <1>2, <1>3

LEMMA verifyIs ==
    ASSUME CaptureTypeOK, NEW c \in Capturers, verifyVulnerabilities(c)
    PROVE  /\ Stays(c) /\ allPcapFiles' = allPcapFiles /\ task[c].at = "verify"
           /\ task'[c].at = IF Type(c) = "sync" \/ Parseable(task[c].captured)
                            THEN "return" ELSE "sleep"
<1>1. UNCHANGED allPcapFiles /\ UNCHANGED Others4 /\ task[c].at = "verify"
  BY DEF verifyVulnerabilities, Others4, counts
<1>2. IF Type(c) = "sync" \/ Parseable(task[c].captured) THEN Go(c, "return") ELSE Go(c, "sleep")
  BY DEF verifyVulnerabilities, Again
<1> QED BY <1>1, <1>2, GoStays

LEMMA ReadFailsIs ==
    ASSUME CaptureTypeOK, NEW c \in Capturers, ReadFails(c)
    PROVE  /\ Stays(c) /\ allPcapFiles' = allPcapFiles
           /\ task[c].at \in {"sleep", "read"} /\ task'[c].at = "sleep"
<1>1. UNCHANGED allPcapFiles /\ UNCHANGED Others4 /\ task[c].at \in {"sleep", "read"}
  BY DEF ReadFails, Others4
<1>2. Go(c, "sleep")
  BY DEF ReadFails, Again
<1> QED BY <1>1, <1>2, GoStays

LEMMA BeginIs ==
    ASSUME CaptureTypeOK, NEW c \in Capturers, Begin(c)
    PROVE  /\ Elsewhere(c) /\ task[c].at = "idle" /\ task'[c].at = "sleep"
           /\ task'[c].id = Len(lists[Type(c)]) + 1 /\ task'[c].id \in Nat
           /\ task'[c].from = Len(allPcapFiles) /\ task'[c].captured = <<>>
           /\ Grows(Mark("init", c, task'[c].id))
           /\ lists' = lists /\ cleaned' = cleaned /\ overlapped \subseteq overlapped'
           /\ \A d \in Capturers : Busy(d) =>
                 (IF Type(d) = Type(c) THEN "same" ELSE "other") \in overlapped'
<1>1. task \in [Capturers -> Tasks] /\ lists \in [Types -> Seq(Captured)]
  BY DEF CaptureTypeOK
<1> DEFINE id == Len(lists[Type(c)]) + 1
           k == [IdleTask EXCEPT !.at = "sleep", !.id = id, !.from = Len(allPcapFiles)]
<1>2. id \in Nat
  BY <1>1, TypeInTypes
<1>3. /\ task' = [task EXCEPT ![c] = k] /\ task[c].at = "idle"
      /\ allPcapFiles' = Append(allPcapFiles, Mark("init", c, id))
      /\ lists' = lists /\ cleaned' = cleaned
      /\ overlapped' = overlapped \cup {IF Type(d) = Type(c) THEN "same" ELSE "other" :
                                           d \in {b \in Capturers : Busy(b)}}
  BY DEF Begin, Busy
<1>4. k.at = "sleep" /\ k.id = id /\ k.from = Len(allPcapFiles) /\ k.captured = <<>>
  <2> HIDE DEF id
  <2> QED BY DEF IdleTask
<1> HIDE DEF k
<1>5. task'[c] = k /\ Elsewhere(c)
  BY <1>1, <1>3 DEF Elsewhere
<1> HIDE DEF id
<1>6. Grows(Mark("init", c, id))
  BY <1>2, <1>3, MarksKept, AppendGrows
<1>7. \A d \in Capturers : Busy(d) =>
         (IF Type(d) = Type(c) THEN "same" ELSE "other") \in overlapped'
  BY <1>3
<1>8. overlapped \subseteq overlapped'
  BY <1>3
<1> QED BY <1>2, <1>3, <1>4, <1>5, <1>6, <1>7, <1>8 DEF id

LEMMA addCaptureTemplateIs ==
    ASSUME CaptureTypeOK, NEW c \in Capturers, addCaptureTemplate(c)
    PROVE  /\ Elsewhere(c) /\ task[c].at = "return" /\ task'[c].at = "idle"
           /\ allPcapFiles' = allPcapFiles /\ Extends
           /\ overlapped' = overlapped /\ cleaned' = cleaned
           /\ \A t \in Types \ {Type(c)} : lists'[t] = lists[t]
           /\ Len(lists'[Type(c)]) = Len(lists[Type(c)]) + 1
           /\ Len(lists[Type(c)]) \in Nat
           /\ \A i \in 1..Len(lists[Type(c)]) : lists'[Type(c)][i] = lists[Type(c)][i]
           /\ lists'[Type(c)][Len(lists[Type(c)]) + 1].captured = task[c].captured
           /\ lists'[Type(c)][Len(lists[Type(c)]) + 1].from = task[c].from
<1>1. task \in [Capturers -> Tasks] /\ lists \in [Types -> Seq(Captured)] /\ Type(c) \in Types
  BY TypeInTypes DEF CaptureTypeOK
<1> DEFINE x == [id |-> task[c].id, from |-> task[c].from, captured |-> task[c].captured]
           t == Type(c)
<1>2. /\ lists' = [lists EXCEPT ![t] = Append(@, x)]
      /\ task' = [task EXCEPT ![c] = IdleTask]
      /\ task[c].at = "return" /\ allPcapFiles' = allPcapFiles
      /\ overlapped' = overlapped /\ cleaned' = cleaned
  BY DEF addCaptureTemplate, counts
<1>3. x \in Captured /\ x.captured = task[c].captured /\ x.from = task[c].from
  BY <1>1 DEF Captured, Tasks
<1>4. task'[c].at = "idle" /\ Elsewhere(c)
  BY <1>1, <1>2 DEF Elsewhere, IdleTask
<1> HIDE DEF x, t
<1>5. lists[t] \in Seq(Captured) /\ lists'[t] = Append(lists[t], x)
      /\ \A u \in Types \ {t} : lists'[u] = lists[u]
  BY <1>1, <1>2 DEF t
<1>6. /\ Len(lists'[t]) = Len(lists[t]) + 1 /\ Len(lists[t]) \in Nat
      /\ \A i \in 1..Len(lists[t]) : lists'[t][i] = lists[t][i]
      /\ lists'[t][Len(lists[t]) + 1] = x
  BY <1>3, <1>5
<1> QED BY <1>2, <1>3, <1>4, <1>5, <1>6, SameExtends DEF t

-----------------------------------------------------------------------------
(* SinceOK is an invariant. *)

LEMMA SinceStill ==
    ASSUME Extends, NEW s, NEW from \in Nat, Since(s, from)
    PROVE  \A m \in 1..Len(s) :
              \E p \in from + 1..Len(allPcapFiles') : allPcapFiles'[p] = s[m]
<1> SUFFICES ASSUME NEW m \in 1..Len(s)
             PROVE  \E p \in from + 1..Len(allPcapFiles') : allPcapFiles'[p] = s[m]
  OBVIOUS
<1>1. PICK p \in from + 1..Len(allPcapFiles) : allPcapFiles[p] = s[m]
  BY DEF Since
<1>2. p \in 1..Len(allPcapFiles)
  BY <1>1 DEF Extends
<1>3. p \in from + 1..Len(allPcapFiles') /\ allPcapFiles'[p] = s[m]
  BY <1>1, <1>2 DEF Extends
<1> QED BY <1>3

\* A new element that is not a first mark of this capture.
LEMMA BegunStill ==
    ASSUME CaptureTypeOK, Extends, NEW d \in Capturers, BegunOK(d), task'[d].at # "idle" => Busy(d),
           SameAs(d), Len(lists'[Type(d)]) = Len(lists[Type(d)]),
           \/ allPcapFiles' = allPcapFiles
           \/ \E x : Grows(x) /\ x # Mark("init", d, task[d].id)
    PROVE  BegunOK(d)'
<1> SUFFICES ASSUME task'[d].at # "idle"
             PROVE  /\ task'[d].id = Len(lists'[Type(d)]) + 1
                    /\ task'[d].from <= Len(allPcapFiles')
                    /\ \A p \in 1..Len(allPcapFiles') :
                          allPcapFiles'[p] = Mark("init", d, task[d].id) => p > task[d].from
                    /\ Since(task[d].captured, task[d].from)'
  BY DEF BegunOK, Busy, SameAs, Mark
<1>1. task[d].from \in Nat /\ Len(allPcapFiles) \in Nat /\ Len(allPcapFiles') \in Nat
  BY DEF CaptureTypeOK, Tasks, Extends
<1>2. /\ task[d].id = Len(lists[Type(d)]) + 1 /\ task[d].from <= Len(allPcapFiles)
      /\ \A p \in 1..Len(allPcapFiles) :
            allPcapFiles[p] = Mark("init", d, task[d].id) => p > task[d].from
      /\ Since(task[d].captured, task[d].from)
  BY DEF BegunOK
<1>3. task'[d].from <= Len(allPcapFiles')
  BY <1>1, <1>2 DEF SameAs, Extends
<1>4. ASSUME NEW p \in 1..Len(allPcapFiles'),
             allPcapFiles'[p] = Mark("init", d, task[d].id)
      PROVE  p > task[d].from
  <2>1. p \in 1..Len(allPcapFiles)
    <3>1. CASE allPcapFiles' = allPcapFiles
      BY <3>1
    <3>2. ASSUME NEW x, Grows(x), x # Mark("init", d, task[d].id)
          PROVE  p \in 1..Len(allPcapFiles)
      BY <3>2, <1>1, <1>4 DEF Grows
    <3> QED BY <3>1, <3>2
  <2>2. allPcapFiles'[p] = allPcapFiles[p]
    BY <2>1 DEF Extends
  <2> QED BY <1>2, <1>4, <2>1, <2>2
<1>5. Since(task[d].captured, task[d].from)'
  <2> DEFINE s == task[d].captured
             from == task[d].from
  <2>1. \A m \in 1..Len(s) : \E p \in from + 1..Len(allPcapFiles') : allPcapFiles'[p] = s[m]
    <3> HIDE DEF s, from
    <3>1. from \in Nat /\ Since(s, from)
      BY <1>1, <1>2 DEF s, from
    <3> QED BY <3>1, SinceStill
  <2>2. task'[d].captured = s /\ task'[d].from = from
    BY DEF SameAs
  <2> HIDE DEF s, from
  <2> QED BY <2>1, <2>2 DEF Since
<1> QED BY <1>2, <1>3, <1>4, <1>5 DEF SameAs

LEMMA ListedStill ==
    ASSUME CaptureTypeOK, Extends, ListedOK, lists' = lists PROVE ListedOK'
<1> SUFFICES ASSUME NEW t \in Types, NEW i \in 1..Len(lists[t])
             PROVE  Since(lists[t][i].captured, lists[t][i].from)'
  BY DEF ListedOK, Captures
<1>0. lists[t] \in Seq(Captured)
  BY DEF CaptureTypeOK
<1>1. lists[t][i].from \in Nat
  <2>1. lists[t][i] \in Captured
    BY <1>0
  <2> QED BY <2>1 DEF Captured
<1>2. Since(lists[t][i].captured, lists[t][i].from)
  BY DEF ListedOK, Captures
<1> QED BY <1>1, <1>2, SinceStill DEF Since

LEMMA SinceStays ==
    ASSUME CaptureTypeOK, SinceOK, NEW c \in Capturers, Stays(c) PROVE SinceOK'
<1> SUFFICES ASSUME "same" \notin overlapped, ~cleaned
             PROVE  (OneOfType /\ (\A d \in Capturers : BegunOK(d)) /\ MarksOK /\ ListedOK)'
  BY DEF SinceOK, Stays, Others4
<1>1. OneOfType /\ (\A d \in Capturers : BegunOK(d)) /\ MarksOK /\ ListedOK
  BY DEF SinceOK
<1>2. lists' = lists /\ Extends
  BY DEF Stays, Others4, Grows
<1>3. ASSUME NEW d \in Capturers
      PROVE  /\ (task'[d].at # "idle") = (task[d].at # "idle") /\ SameAs(d)
  BY DEF Stays, Elsewhere, Working, SameAs
<1>4. OneOfType'
  BY <1>1, <1>3 DEF OneOfType, Busy, Type
<1>5. ASSUME NEW d \in Capturers PROVE BegunOK(d)'
  <2>1. \/ allPcapFiles' = allPcapFiles
        \/ \E x : Grows(x) /\ x # Mark("init", d, task[d].id)
    BY DEF Stays, Mark
  <2> QED BY <1>1, <1>2, <1>3, <2>1, BegunStill DEF Busy
<1>6. MarksOK'
  <2> SUFFICES ASSUME NEW p \in 1..Len(allPcapFiles'), allPcapFiles'[p].mark = "init"
               PROVE  LET t == allPcapFiles'[p].type  n == Len(lists[allPcapFiles'[p].type]) IN
                      \/ allPcapFiles'[p].id <= n
                      \/ /\ allPcapFiles'[p].id = n + 1
                         /\ \E d \in Capturers : task'[d].at # "idle" /\ Type(d) = t
    BY <1>2 DEF MarksOK, Busy, Type
  <2>1. p \in 1..Len(allPcapFiles)
    BY <1>2 DEF Stays, Grows, Extends
  <2>2. allPcapFiles'[p] = allPcapFiles[p]
    BY <2>1, <1>2 DEF Extends
  <2> QED BY <1>1, <1>3, <2>1, <2>2 DEF MarksOK, Busy
<1>7. ListedOK'
  BY <1>1, <1>2, ListedStill
<1> QED BY <1>4, <1>5, <1>6, <1>7

LEMMA SinceBegin ==
    ASSUME CaptureTypeOK, CaptureTypeOK', SinceOK, NEW c \in Capturers, Begin(c) PROVE SinceOK'
<1> DEFINE id == Len(lists[Type(c)]) + 1
           N == Len(allPcapFiles)
<1>0. /\ Elsewhere(c) /\ task[c].at = "idle" /\ task'[c].at = "sleep"
      /\ task'[c].id = id /\ task'[c].from = N /\ task'[c].captured = <<>>
      /\ Grows(Mark("init", c, id)) /\ lists' = lists /\ cleaned' = cleaned
      /\ overlapped \subseteq overlapped'
      /\ \A d \in Capturers : Busy(d) =>
            (IF Type(d) = Type(c) THEN "same" ELSE "other") \in overlapped'
  BY BeginIs
<1> SUFFICES ASSUME "same" \notin overlapped', ~cleaned
             PROVE  (OneOfType /\ (\A d \in Capturers : BegunOK(d)) /\ MarksOK /\ ListedOK)'
  BY <1>0 DEF SinceOK
<1>1. OneOfType /\ (\A d \in Capturers : BegunOK(d)) /\ MarksOK /\ ListedOK
  BY <1>0 DEF SinceOK
<1>2. \A d \in Capturers : Busy(d) => Type(d) # Type(c)
  BY <1>0
<1>3. Extends /\ N \in Nat /\ Len(allPcapFiles') = N + 1
      /\ allPcapFiles'[N + 1] = Mark("init", c, id)
  BY <1>0 DEF Grows, Extends
<1>4. \A d \in Capturers : d # c => task'[d] = task[d]
  BY <1>0 DEF Elsewhere
<1>5. OneOfType'
  BY <1>1, <1>2, <1>4 DEF OneOfType, Busy, Type
<1>6. ASSUME NEW d \in Capturers PROVE BegunOK(d)'
  <2>1. CASE d = c
    <3>1. ASSUME NEW p \in 1..Len(allPcapFiles'), allPcapFiles'[p] = Mark("init", c, id)
          PROVE  p > N
      <4> SUFFICES ASSUME p \in 1..N PROVE FALSE
        BY <1>3
      <4>1. allPcapFiles[p] = Mark("init", c, id)
        BY <3>1, <1>3 DEF Extends
      <4>2. /\ allPcapFiles[p].mark = "init" /\ allPcapFiles[p].type = Type(c)
            /\ allPcapFiles[p].id = id
        BY <4>1 DEF Mark
      <4>3. Len(lists[Type(c)]) \in Nat
        BY TypeInTypes DEF CaptureTypeOK
      <4> HIDE DEF N
      <4> QED BY <1>1, <1>2, <4>2, <4>3 DEF MarksOK, N
    <3>2. Since(<<>>, N)'
      BY DEF Since
    <3>3. task'[c].from <= Len(allPcapFiles')
      BY <1>0, <1>3
    <3>4. Since(task[c].captured, task[c].from)'
      BY <1>0 DEF Since
    <3>5. Mark("init", c, task[c].id)' = Mark("init", c, id)
      BY <1>0 DEF Mark
    <3> QED BY <1>0, <2>1, <3>1, <3>3, <3>4, <3>5 DEF BegunOK
  <2>2. CASE d # c /\ Busy(d)
    <3>1. Mark("init", c, id) # Mark("init", d, task[d].id)
      BY <1>2, <2>2 DEF Mark
    <3>2. SameAs(d)
      BY <1>4, <2>2 DEF SameAs
    <3> QED BY <1>0, <1>1, <1>3, <2>2, <3>1, <3>2, BegunStill
  <2>3. CASE d # c /\ ~Busy(d)
    BY <2>3, <1>4 DEF BegunOK, Busy
  <2> QED BY <2>1, <2>2, <2>3
<1>7. MarksOK'
  <2> SUFFICES ASSUME NEW p \in 1..Len(allPcapFiles'), allPcapFiles'[p].mark = "init"
               PROVE  LET t == allPcapFiles'[p].type  n == Len(lists[allPcapFiles'[p].type]) IN
                      \/ allPcapFiles'[p].id <= n
                      \/ /\ allPcapFiles'[p].id = n + 1
                         /\ \E d \in Capturers : task'[d].at # "idle" /\ Type(d) = t
    BY <1>0 DEF MarksOK, Busy, Type
  <2>1. CASE p = N + 1
    BY <1>0, <1>3, <2>1 DEF Mark
  <2>2. CASE p # N + 1
    <3>1. p \in 1..Len(allPcapFiles) /\ allPcapFiles'[p] = allPcapFiles[p]
      BY <2>2, <1>3 DEF Extends
    <3>2. \A d \in Capturers : Busy(d) => task'[d].at # "idle"
      BY <1>0, <1>4 DEF Busy
    <3> QED BY <1>1, <3>1, <3>2 DEF MarksOK
  <2> QED BY <2>1, <2>2
<1>8. ListedOK'
  BY <1>0, <1>1, <1>3, ListedStill
<1> QED BY <1>5, <1>6, <1>7, <1>8

LEMMA SinceFinds ==
    ASSUME CaptureTypeOK, SinceOK, NEW c \in Capturers, AddFound(c) PROVE SinceOK'
<1>1. CASE Stays(c)
  BY <1>1, SinceStays
<1>2. CASE /\ Elsewhere(c) /\ task'[c].at = "verify" /\ Working(c)
           /\ task'[c].id = task[c].id /\ task'[c].from = task[c].from
           /\ task'[c].captured = task[c].captured \o Found(c)
  <2>0. /\ allPcapFiles' = allPcapFiles /\ lists' = lists /\ Extends
        /\ overlapped' = overlapped /\ cleaned' = cleaned
    BY AddFoundStays DEF Others4
  <2> SUFFICES ASSUME "same" \notin overlapped, ~cleaned
               PROVE  (OneOfType /\ (\A d \in Capturers : BegunOK(d)) /\ MarksOK /\ ListedOK)'
    BY <2>0 DEF SinceOK
  <2>1. OneOfType /\ (\A d \in Capturers : BegunOK(d)) /\ MarksOK /\ ListedOK
    BY DEF SinceOK
  <2>2. \A d \in Capturers : (task'[d].at # "idle") = (task[d].at # "idle")
    BY <1>2 DEF Elsewhere, Working
  <2>3. OneOfType'
    BY <2>1, <2>2 DEF OneOfType, Busy, Type
  <2>4. MarksOK'
    BY <2>0, <2>1, <2>2 DEF MarksOK, Busy, Type
  <2>5. ListedOK'
    BY <2>0, <2>1, ListedStill
  <2>6. ASSUME NEW d \in Capturers, d # c PROVE BegunOK(d)'
    <3>1. SameAs(d)
      BY <1>2, <2>6 DEF Elsewhere, SameAs
    <3> QED BY <2>0, <2>1, <2>2, <3>1, BegunStill DEF Busy
  <2>7. BegunOK(c)'
    <3> DEFINE s == task[c].captured
               r == Found(c)
               from == task[c].from
    <3>1. /\ task[c].id = Len(lists[Type(c)]) + 1 /\ from <= Len(allPcapFiles)
          /\ \A p \in 1..Len(allPcapFiles) :
                allPcapFiles[p] = Mark("init", c, task[c].id) => p > from
          /\ Since(s, from)
      BY <1>2, <2>1 DEF BegunOK, Busy, Working
    <3>2. PICK h : /\ r \in Seq(Packets)
                   /\ h \in [1..Len(r) -> 1..Len(allPcapFiles)]
                   /\ \A m \in 1..Len(r) : r[m] = allPcapFiles[h[m]] /\ Within(c, h[m])
      BY FoundIs
    <3>3. from \in Nat /\ s \in Seq(Packets) /\ Len(allPcapFiles) \in Nat
      BY DEF CaptureTypeOK, Tasks
    <3>4. ASSUME NEW m \in 1..Len(r)
          PROVE  \E p \in from + 1..Len(allPcapFiles) : allPcapFiles[p] = r[m]
      <4>1. PICK a \in 1..h[m] : allPcapFiles[a] = Mark("init", c, task[c].id)
        BY <3>2 DEF Within
      <4>2. h[m] \in 1..Len(allPcapFiles) /\ r[m] = allPcapFiles[h[m]]
        BY <3>2
      <4>3. a \in 1..Len(allPcapFiles)
        BY <4>1, <4>2
      <4>4. a > from
        BY <3>1, <4>1, <4>3
      <4>5. h[m] \in from + 1..Len(allPcapFiles)
        BY <3>3, <4>1, <4>2, <4>4
      <4> QED BY <4>2, <4>5
    <3> HIDE DEF s, r
    <3>5. Since(s \o r, from)
      <4> SUFFICES ASSUME NEW m \in 1..Len(s \o r)
                   PROVE  \E p \in from + 1..Len(allPcapFiles) : allPcapFiles[p] = (s \o r)[m]
        BY DEF Since
      <4>1. CASE m <= Len(s)
        BY <3>1, <3>2, <3>3, <4>1 DEF Since
      <4>2. CASE m > Len(s)
        <5> DEFINE k == m - Len(s)
        <5>1. k \in 1..Len(r) /\ (s \o r)[m] = r[k]
          BY <3>2, <3>3, <4>2
        <5> HIDE DEF k, from
        <5> QED BY <3>4, <5>1
      <4> QED BY <3>2, <3>3, <4>1, <4>2
    <3>6. task'[c].captured = s \o r /\ task'[c].from = from /\ task'[c].id = task[c].id
      BY <1>2 DEF s, r
    <3> HIDE DEF from
    <3>7. Since(task[c].captured, task[c].from)'
      BY <2>0, <3>5, <3>6 DEF Since
    <3> QED BY <2>0, <3>1, <3>6, <3>7 DEF BegunOK, Mark, Type
  <2> QED BY <2>3, <2>4, <2>5, <2>6, <2>7
<1> QED BY <1>1, <1>2, AddFoundStays

LEMMA SinceReturns ==
    ASSUME CaptureTypeOK, SinceOK, NEW c \in Capturers, addCaptureTemplate(c) PROVE SinceOK'
<1> DEFINE T == Type(c)
           n == Len(lists[T])
<1>0. /\ Elsewhere(c) /\ task[c].at = "return" /\ task'[c].at = "idle"
      /\ allPcapFiles' = allPcapFiles /\ Extends
      /\ overlapped' = overlapped /\ cleaned' = cleaned
      /\ \A t \in Types \ {T} : lists'[t] = lists[t]
      /\ Len(lists'[T]) = n + 1 /\ n \in Nat
      /\ \A i \in 1..n : lists'[T][i] = lists[T][i]
      /\ lists'[T][n + 1].captured = task[c].captured
      /\ lists'[T][n + 1].from = task[c].from
  BY addCaptureTemplateIs
<1> SUFFICES ASSUME "same" \notin overlapped, ~cleaned
             PROVE  (OneOfType /\ (\A d \in Capturers : BegunOK(d)) /\ MarksOK /\ ListedOK)'
  BY <1>0 DEF SinceOK
<1>1. OneOfType /\ (\A d \in Capturers : BegunOK(d)) /\ MarksOK /\ ListedOK
  BY DEF SinceOK
<1>2. \A d \in Capturers : d # c => task'[d] = task[d]
  BY <1>0 DEF Elsewhere
<1>3. T \in Types /\ Busy(c)
  BY <1>0, TypeInTypes DEF Busy
<1>4. OneOfType'
  BY <1>0, <1>1, <1>2 DEF OneOfType, Busy, Type
<1>5. ASSUME NEW d \in Capturers PROVE BegunOK(d)'
  <2>1. CASE d # c /\ Busy(d)
    <3>1. Type(d) # T /\ Type(d) \in Types
      BY <1>1, <1>3, <2>1, TypeInTypes DEF OneOfType
    <3>2. Len(lists'[Type(d)]) = Len(lists[Type(d)]) /\ SameAs(d)
      BY <1>0, <1>2, <2>1, <3>1 DEF SameAs
    <3> QED BY <1>0, <1>1, <2>1, <3>2, BegunStill
  <2>2. CASE d = c \/ ~Busy(d)
    BY <1>0, <1>2, <2>2 DEF BegunOK, Busy
  <2> QED BY <2>1, <2>2
<1>6. MarksOK'
  <2> SUFFICES ASSUME NEW p \in 1..Len(allPcapFiles), allPcapFiles[p].mark = "init"
               PROVE  LET t == allPcapFiles[p].type  k == Len(lists'[allPcapFiles[p].type]) IN
                      \/ allPcapFiles[p].id <= k
                      \/ /\ allPcapFiles[p].id = k + 1
                         /\ \E d \in Capturers : task'[d].at # "idle" /\ Type(d) = t
    BY <1>0 DEF MarksOK, Busy, Type
  <2> DEFINE t == allPcapFiles[p].type
             id == allPcapFiles[p].id
  <2>0. t \in Types /\ id \in Nat
    <3>1. allPcapFiles[p] \in Kept
      BY DEF CaptureTypeOK
    <3> QED BY <3>1 DEF Kept, Packets
  <2>1. \/ id <= Len(lists[t])
        \/ id = Len(lists[t]) + 1 /\ \E d \in Capturers : Busy(d) /\ Type(d) = t
    BY <1>1 DEF MarksOK
  <2> HIDE DEF t, id
  <2>2. CASE t = T
    <3>1. Len(lists'[t]) = Len(lists[t]) + 1 /\ Len(lists[t]) \in Nat
      BY <1>0, <2>2
    <3>2. id <= Len(lists'[t])
      BY <2>0, <2>1, <3>1
    <3> QED BY <3>2 DEF t, id
  <2>3. CASE t # T
    <3>1. Len(lists'[t]) = Len(lists[t])
      BY <1>0, <2>0, <2>3
    <3>2. \A d \in Capturers : Busy(d) /\ Type(d) = t => task'[d].at # "idle"
      BY <1>2, <2>3 DEF Busy
    <3> QED BY <2>1, <3>1, <3>2 DEF t, id
  <2> QED BY <2>2, <2>3
<1>7. ListedOK'
  <2> SUFFICES ASSUME NEW t \in Types, NEW i \in 1..Len(lists'[t])
               PROVE  Since(lists[t][i].captured, lists[t][i].from)'
    BY DEF ListedOK, Captures
  <2>1. CASE t = T /\ i = n + 1
    <3>1. Since(task[c].captured, task[c].from)
      BY <1>1, <1>3 DEF BegunOK
    <3> QED BY <1>0, <2>1, <3>1 DEF Since
  <2>2. CASE ~(t = T /\ i = n + 1)
    <3>1. i \in 1..Len(lists[t]) /\ lists'[t][i] = lists[t][i]
      BY <1>0, <2>2
    <3>2. Since(lists[t][i].captured, lists[t][i].from)
      BY <1>1, <3>1 DEF ListedOK, Captures
    <3> QED BY <1>0, <3>1, <3>2 DEF Since
  <2> QED BY <2>1, <2>2
<1> QED BY <1>4, <1>5, <1>6, <1>7

LEMMA InitSinceOK == ASSUME CaptureInit PROVE SinceOK
<1>1. allPcapFiles = <<>> /\ \A t \in Types : lists[t] = <<>>
  BY DEF CaptureInit, Types
<1>2. \A c \in Capturers : ~Busy(c)
  BY DEF CaptureInit, Busy, IdleTask
<1>3. OneOfType /\ (\A c \in Capturers : BegunOK(c))
  BY <1>2 DEF OneOfType, BegunOK
<1>4. MarksOK /\ ListedOK
  BY <1>1 DEF MarksOK, ListedOK, Captures
<1> QED BY <1>3, <1>4 DEF SinceOK

LEMMA StepSinceOK ==
    ASSUME CaptureTypeOK, CaptureTypeOK', SinceOK, [CaptureNext]_captureVars PROVE SinceOK'
<1>1. ASSUME UNCHANGED <<allPcapFiles, lists, task, overlapped, cleaned>> PROVE SinceOK'
  BY <1>1 DEF SinceOK, OneOfType, BegunOK, MarksOK, ListedOK, Captures, Since, Busy,
              Mark, Type
<1>2. CASE Write
  BY <1>1, <1>2 DEF Write, counts
<1>3. CASE UNCHANGED captureVars
  BY <1>1, <1>3 DEF captureVars
<1>4. CASE getCleanList
  BY <1>4 DEF getCleanList, SinceOK
<1>5. ASSUME NEW c \in Capturers, Begin(c) PROVE SinceOK'
  BY <1>5, SinceBegin
<1>6. ASSUME NEW c \in Capturers, Step(c) PROVE SinceOK'
  <2>1. CASE Open(c)
    BY <2>1, OpenIs, SinceStays
  <2>2. CASE nextPacket(c)
    BY <2>2, nextPacketIs, SinceStays
  <2>3. CASE EndOfFile(c)
    BY <2>3, EndOfFileIs, SinceStays
  <2>4. CASE PrintMarks(c)
    BY <2>4, PrintMarksIs, SinceStays
  <2>5. CASE AddFound(c)
    BY <2>5, SinceFinds
  <2>6. CASE verifyVulnerabilities(c)
    BY <2>6, verifyIs, SinceStays
  <2>7. CASE addCaptureTemplate(c)
    BY <2>7, SinceReturns
  <2> QED BY <1>6, <2>1, <2>2, <2>3, <2>4, <2>5, <2>6, <2>7 DEF Step
<1>7. ASSUME NEW c \in Capturers, ReadFails(c) PROVE SinceOK'
  BY <1>7, ReadFailsIs, SinceStays
<1> QED BY <1>2, <1>3, <1>4, <1>5, <1>6, <1>7 DEF CaptureNext

\* What a capture shows was kept after it began, of any number of threads and
\* listeners, traffic, failures and attempts (getCapturedByIdAndType finds by
\* type and identifier, which the list of captures that returned has numbered).
THEOREM ShownIsNewer == ASSUME CaptureAssumption PROVE CaptureSpec => []ShownSinceBegun
<1>1. CaptureInit => CaptureTypeOK /\ SinceOK
  BY InitTypeOK, InitSinceOK
<1>2. CaptureTypeOK /\ SinceOK /\ [CaptureNext]_captureVars => (CaptureTypeOK /\ SinceOK)'
  BY StepTypeOK, StepSinceOK
<1>3. CaptureTypeOK /\ SinceOK => ShownSinceBegun
  BY DEF SinceOK, ListedOK, Since, ShownSinceBegun, Types
<1> QED BY <1>1, <1>2, <1>3, PTL DEF CaptureSpec

-----------------------------------------------------------------------------
(* OnceOK is an invariant. *)

LEMMA Alone ==
    ASSUME OneAtATime, NEW c \in Capturers, Busy(c)
    PROVE  Others(c) = {} /\ \A d \in Capturers : d # c => task[d].at = "idle"
  BY DEF OneAtATime, Others, Busy

\* A step of the one that is busy; its own clauses are left to show.
LEMMA OnceStays ==
    ASSUME CaptureTypeOK, OnceOK, NEW c \in Capturers, Working(c), Elsewhere(c), Extends,
           overlapped' = overlapped,
           (overlapped = {} /\ Others(c) = {} /\ PlacesOK /\ ReadingOK(c)) =>
              PlacesOK' /\ ReadingOK(c)'
    PROVE  OnceOK'
<1> SUFFICES ASSUME overlapped = {}
             PROVE  OneAtATime' /\ PlacesOK' /\ \A d \in Capturers : ReadingOK(d)'
  BY DEF OnceOK
<1>1. OneAtATime /\ PlacesOK /\ \A d \in Capturers : ReadingOK(d)
  BY DEF OnceOK
<1>2. Busy(c) /\ Others(c) = {} /\ \A d \in Capturers : d # c => task[d].at = "idle"
  BY <1>1, Alone DEF Working, Busy
<1>3. \A d \in Capturers : d # c => task'[d].at = "idle"
  BY <1>2 DEF Elsewhere
<1>4. OneAtATime'
  BY <1>3 DEF OneAtATime, Busy
<1>5. \A d \in Capturers : d # c => ReadingOK(d)'
  BY <1>3 DEF ReadingOK, Busy
<1> QED BY <1>1, <1>2, <1>4, <1>5

LEMMA OnceBegin ==
    ASSUME CaptureTypeOK, OnceOK, NEW c \in Capturers, Begin(c) PROVE OnceOK'
<1>1. /\ Elsewhere(c) /\ task'[c].at = "sleep" /\ overlapped \subseteq overlapped'
      /\ Grows(Mark("init", c, task'[c].id))
      /\ \A d \in Capturers : Busy(d) =>
            (IF Type(d) = Type(c) THEN "same" ELSE "other") \in overlapped'
  BY BeginIs
<1> SUFFICES ASSUME overlapped' = {}
             PROVE  OneAtATime' /\ PlacesOK' /\ \A d \in Capturers : ReadingOK(d)'
  BY DEF OnceOK
<1>2. PlacesOK
  BY <1>1 DEF OnceOK
<1>3. \A d \in Capturers : task[d].at = "idle"
  BY <1>1 DEF Busy
<1>4. \A d \in Capturers : d # c => task'[d].at = "idle"
  BY <1>1, <1>3 DEF Elsewhere
<1>5. OneAtATime'
  BY <1>4 DEF OneAtATime, Busy
<1>6. PlacesOK'
  BY <1>1, <1>2 DEF PlacesOK, Grows, Extends, Mark
<1>7. ASSUME NEW d \in Capturers PROVE ReadingOK(d)'
  BY <1>1, <1>4 DEF ReadingOK, Busy, Grows, Extends
<1> QED BY <1>5, <1>6, <1>7

LEMMA OnceStep ==
    ASSUME CaptureTypeOK, OnceOK, NEW c \in Capturers, Step(c) \/ ReadFails(c) PROVE OnceOK'
<1>1. CASE Open(c)
  <2>1. /\ Stays(c) /\ allPcapFiles' = allPcapFiles
        /\ task[c].at = "sleep" /\ task'[c].at = "read"
        /\ task'[c].counter = 1 /\ task'[c].init = Len(allPcapFiles)
    BY <1>1, OpenIs
  <2>2. Working(c) /\ Elsewhere(c) /\ Extends /\ overlapped' = overlapped
    BY <2>1 DEF Stays, Grows, Others4
  <2>3. ASSUME PlacesOK, ReadingOK(c) PROVE PlacesOK' /\ ReadingOK(c)'
    BY <2>1, <2>2, <2>3 DEF PlacesOK, ReadingOK, Busy, Extends
  <2> QED BY <2>2, <2>3, OnceStays
<1>2. CASE nextPacket(c)
  <2> DEFINE k == task[c].counter
             N == Len(allPcapFiles)
  <2>1. /\ Stays(c) /\ task[c].at = "read" /\ task'[c].at = "read"
        /\ k \in 1..Len(file) /\ task'[c].counter = k + 1 /\ task'[c].init = task[c].init
        /\ task[c].init \in Nat
        /\ IF k >= task[c].init
           THEN Grows(Packet(k)) \/ (Others(c) # {} /\ allPcapFiles' = allPcapFiles)
           ELSE allPcapFiles' = allPcapFiles
    BY <1>2, nextPacketIs
  <2>2. Working(c) /\ Elsewhere(c) /\ Extends /\ overlapped' = overlapped
    BY <2>1 DEF Stays, Grows, Others4
  <2>3. ASSUME Others(c) = {}, PlacesOK, ReadingOK(c) PROVE PlacesOK' /\ ReadingOK(c)'
    <3>1. task[c].init >= 1 /\ N = IF k > task[c].init THEN k ELSE task[c].init
      BY <2>1, <2>3 DEF ReadingOK
    <3>2. CASE k >= task[c].init
      <4>1. Grows(Packet(k)) /\ N = k /\ k \in Nat
        BY <2>1, <2>3, <3>1, <3>2
      <4>2. Len(allPcapFiles') = N + 1 /\ allPcapFiles'[N + 1] = Packet(k)
            /\ \A p \in 1..N : allPcapFiles'[p] = allPcapFiles[p]
        BY <4>1 DEF Grows, Extends
      <4>3. Packet(k).n = k
        BY DEF Packet
      <4> HIDE DEF N
      <4>4. PlacesOK'
        <5> SUFFICES ASSUME NEW p \in 1..N + 1, allPcapFiles'[p].mark = "packet"
                     PROVE  allPcapFiles'[p].n = p - 1
          BY <4>2 DEF PlacesOK
        <5>1. CASE p = N + 1
          BY <4>1, <4>2, <4>3, <5>1
        <5>2. CASE p # N + 1
          BY <2>3, <4>1, <4>2, <5>2 DEF PlacesOK, N
        <5> QED BY <5>1, <5>2
      <4>5. ReadingOK(c)'
        BY <2>1, <3>1, <3>2, <4>1, <4>2 DEF ReadingOK
      <4> QED BY <4>4, <4>5
    <3>3. CASE ~(k >= task[c].init)
      <4>1. allPcapFiles' = allPcapFiles /\ k \in Nat
        BY <2>1, <3>3
      <4>2. ReadingOK(c)'
        BY <2>1, <3>1, <3>3, <4>1 DEF ReadingOK
      <4> QED BY <2>3, <4>1, <4>2 DEF PlacesOK
    <3> QED BY <3>2, <3>3
  <2> QED BY <2>2, <2>3, OnceStays
<1>3. CASE EndOfFile(c)
  <2>1. /\ Stays(c) /\ task[c].at = "read" /\ task'[c].at = "print"
        /\ task'[c].seen = Len(allPcapFiles')
        /\ \/ Grows(Mark("end", c, task[c].id))
           \/ Others(c) # {} /\ allPcapFiles' = allPcapFiles
    BY <1>3, EndOfFileIs
  <2>2. Working(c) /\ Elsewhere(c) /\ Extends /\ overlapped' = overlapped
    BY <2>1 DEF Stays, Grows, Others4
  <2>3. ASSUME Others(c) = {}, PlacesOK, ReadingOK(c) PROVE PlacesOK' /\ ReadingOK(c)'
    <3>1. Grows(Mark("end", c, task[c].id))
      BY <2>1, <2>3
    <3>2. PlacesOK'
      BY <2>3, <3>1 DEF PlacesOK, Grows, Extends, Mark
    <3>3. ReadingOK(c)'
      BY <2>1, <3>1 DEF ReadingOK, Grows, Extends
    <3> QED BY <3>2, <3>3
  <2> QED BY <2>2, <2>3, OnceStays
<1>4. CASE PrintMarks(c)
  <2>1. /\ Stays(c) /\ allPcapFiles' = allPcapFiles /\ task[c].at = "print"
        /\ task'[c].seen = task[c].seen /\ task'[c].at \in {"sleep", "find"}
    BY <1>4, PrintMarksIs
  <2>2. Working(c) /\ Elsewhere(c) /\ Extends /\ overlapped' = overlapped
    BY <2>1 DEF Stays, Grows, Others4
  <2>3. ASSUME PlacesOK, ReadingOK(c) PROVE PlacesOK' /\ ReadingOK(c)'
    BY <2>1, <2>3 DEF PlacesOK, ReadingOK, Busy
  <2> QED BY <2>2, <2>3, OnceStays
<1>5. CASE AddFound(c) \/ verifyVulnerabilities(c) \/ ReadFails(c)
  <2>1. /\ Working(c) /\ Elsewhere(c) /\ Extends /\ overlapped' = overlapped
        /\ allPcapFiles' = allPcapFiles /\ task'[c].at \in {"sleep", "verify", "return"}
    BY <1>5, AddFoundStays, verifyIs, ReadFailsIs DEF Stays, Others4, Grows
  <2>2. ASSUME PlacesOK, ReadingOK(c) PROVE PlacesOK' /\ ReadingOK(c)'
    BY <2>1, <2>2 DEF PlacesOK, ReadingOK, Busy, Working
  <2> QED BY <2>1, <2>2, OnceStays
<1>6. CASE addCaptureTemplate(c)
  <2>1. /\ Elsewhere(c) /\ task'[c].at = "idle" /\ task[c].at = "return"
        /\ allPcapFiles' = allPcapFiles /\ overlapped' = overlapped
    BY <1>6, addCaptureTemplateIs
  <2>2. ASSUME overlapped = {}
        PROVE  OneAtATime' /\ PlacesOK' /\ \A d \in Capturers : ReadingOK(d)'
    <3>1. OneAtATime /\ PlacesOK /\ \A d \in Capturers : ReadingOK(d)
      BY <2>2 DEF OnceOK
    <3>2. \A d \in Capturers : task'[d].at = "idle"
      BY <2>1, <3>1, Alone DEF Elsewhere, Busy
    <3> QED BY <2>1, <3>1, <3>2 DEF OneAtATime, PlacesOK, ReadingOK, Busy
  <2> QED BY <2>1, <2>2 DEF OnceOK
<1> QED BY <1>1, <1>2, <1>3, <1>4, <1>5, <1>6 DEF Step

LEMMA InitOnceOK == ASSUME CaptureInit PROVE OnceOK
<1>1. allPcapFiles = <<>> /\ \A c \in Capturers : task[c].at = "idle"
  BY DEF CaptureInit, IdleTask
<1> QED BY <1>1 DEF OnceOK, OneAtATime, PlacesOK, ReadingOK, Busy

LEMMA StepOnceOK ==
    ASSUME CaptureTypeOK, OnceOK, [CaptureNext]_captureVars PROVE OnceOK'
<1>1. ASSUME UNCHANGED <<allPcapFiles, task, overlapped>> PROVE OnceOK'
  BY <1>1 DEF OnceOK, OneAtATime, PlacesOK, ReadingOK, Busy
<1>2. CASE Write
  BY <1>1, <1>2 DEF Write, counts
<1>3. CASE UNCHANGED captureVars
  BY <1>1, <1>3 DEF captureVars
<1>4. CASE getCleanList
  BY <1>1, <1>4 DEF getCleanList
<1>5. ASSUME NEW c \in Capturers, Begin(c) PROVE OnceOK'
  BY <1>5, OnceBegin
<1>6. ASSUME NEW c \in Capturers, Step(c) \/ ReadFails(c) PROVE OnceOK'
  BY <1>6, OnceStep
<1> QED BY <1>2, <1>3, <1>4, <1>5, <1>6 DEF CaptureNext

\* However often a capture starts over, and wherever its reading failed, no
\* packet is kept twice: the length of the list of packets and marks happens to
\* be the number of the first packet that is not in it (nextPacket).
THEOREM NoPacketTwice == ASSUME CaptureAssumption PROVE CaptureSpec => []KeptOnce
<1>1. CaptureInit => CaptureTypeOK /\ OnceOK
  BY InitTypeOK, InitOnceOK
<1>2. CaptureTypeOK /\ OnceOK /\ [CaptureNext]_captureVars => (CaptureTypeOK /\ OnceOK)'
  BY StepTypeOK, StepOnceOK
<1>3. CaptureTypeOK /\ OnceOK => KeptOnce
  <2> SUFFICES ASSUME CaptureTypeOK, OnceOK, overlapped = {},
                      NEW i \in 1..Len(allPcapFiles), NEW j \in 1..Len(allPcapFiles),
                      allPcapFiles[i].mark = "packet", allPcapFiles[i] = allPcapFiles[j]
               PROVE  i = j
    BY DEF KeptOnce
  <2>1. allPcapFiles[i].n = i - 1 /\ allPcapFiles[j].n = j - 1
    BY DEF OnceOK, PlacesOK
  <2> QED BY <2>1
<1> QED BY <1>1, <1>2, <1>3, PTL DEF CaptureSpec

-----------------------------------------------------------------------------
(* ShowsOK is an invariant. *)

\* What a capture keeps or has returned was kept at its place, after it began.
LEMMA KeptNumbers ==
    ASSUME CaptureTypeOK, PlacesOK, NEW s \in Seq(Packets), NEW from \in Nat, Since(s, from)
    PROVE  \A m \in 1..Len(s) : /\ s[m].n \in Nat /\ from <= s[m].n
                                /\ s[m].n < Len(allPcapFiles)
<1> SUFFICES ASSUME NEW m \in 1..Len(s)
             PROVE  s[m].n \in Nat /\ from <= s[m].n /\ s[m].n < Len(allPcapFiles)
  OBVIOUS
<1>1. PICK p \in from + 1..Len(allPcapFiles) : allPcapFiles[p] = s[m]
  BY DEF Since
<1>2. s[m].mark = "packet"
  <2>1. s[m] \in Packets
    OBVIOUS
  <2> QED BY <2>1 DEF Packets
<1>3. p \in 1..Len(allPcapFiles) /\ Len(allPcapFiles) \in Nat
  BY <1>1 DEF CaptureTypeOK
<1>4. s[m].n = p - 1
  BY <1>1, <1>2, <1>3 DEF PlacesOK
<1> QED BY <1>1, <1>3, <1>4

LEMMA ApartStill == ASSUME Apart, lists' = lists PROVE Apart'
<1> SUFFICES ASSUME NEW t \in Types, NEW u \in Types,
                    NEW i \in 1..Len(lists'[t]), NEW j \in 1..Len(lists'[u])
             PROVE  /\ Injective(lists'[t][i].captured)
                    /\ (t # u \/ i # j) =>
                          \A m \in 1..Len(lists'[t][i].captured),
                             k \in 1..Len(lists'[u][j].captured) :
                             lists'[t][i].captured[m] # lists'[u][j].captured[k]
  BY DEF Apart, Captures, Injective
<1>1. /\ i \in Captures(t) /\ j \in Captures(u)
      /\ lists'[t][i].captured = lists[t][i].captured
      /\ lists'[u][j].captured = lists[u][j].captured
  BY DEF Captures
<1>2. /\ Injective(lists[t][i].captured)
      /\ (t # u \/ i # j) =>
            \A m \in 1..Len(lists[t][i].captured), k \in 1..Len(lists[u][j].captured) :
               lists[t][i].captured[m] # lists[u][j].captured[k]
  BY <1>1, Zenon DEF Apart
<1> QED BY <1>1, <1>2, Zenon

\* What was shown of a place of the list stays shown when the list grows.
ShownNext(s, p) ==
    \E q \in 1..p :
       /\ \E m \in 1..Len(s) : s[m] = allPcapFiles'[q]
       /\ \A k \in q..p : SameLine(allPcapFiles'[k], allPcapFiles'[p])
LEMMA ShownStill ==
    ASSUME Extends, NEW s, NEW p \in 1..Len(allPcapFiles), ShownIn(s, p)
    PROVE  ShownNext(s, p)
<1>1. PICK q \in 1..p : /\ \E m \in 1..Len(s) : s[m] = allPcapFiles[q]
                        /\ \A k \in q..p : SameLine(allPcapFiles[k], allPcapFiles[p])
  BY DEF ShownIn
<1>2. \A k \in 1..p : allPcapFiles'[k] = allPcapFiles[k]
  BY DEF Extends
<1>3. p \in 1..p /\ \A k \in q..p : k \in 1..p
  BY <1>1 DEF Extends
<1> QED BY <1>1, <1>2, <1>3 DEF ShownNext

\* A step of the one that is busy; what it finds is left to show.
LEMMA ShowsStays ==
    ASSUME CaptureTypeOK, OnceOK, ShowsOK, NEW c \in Capturers, Stays(c),
           (overlapped = {} /\ Others(c) = {} /\ ReadingOK(c) /\ FramedOK(c) /\ FindsOK(c)) =>
              FindsOK(c)'
    PROVE  ShowsOK'
<1> SUFFICES ASSUME overlapped = {}, ~cleaned
             PROVE  (\A d \in Capturers : FramedOK(d)' /\ FindsOK(d)') /\ Apart' /\ RequestsOK'
  BY DEF ShowsOK, Stays, Others4
<1>1. (\A d \in Capturers : FramedOK(d) /\ FindsOK(d)) /\ Apart /\ RequestsOK
  BY DEF ShowsOK
<1>2. OneAtATime /\ \A d \in Capturers : ReadingOK(d)
  BY DEF OnceOK
<1>3. Busy(c) /\ Others(c) = {} /\ \A d \in Capturers : d # c => task[d].at = "idle"
  BY <1>2, Alone DEF Stays, Working, Busy
<1>4. \A d \in Capturers : d # c => task'[d].at = "idle"
  BY <1>3 DEF Stays, Elsewhere
<1>5. lists' = lists /\ Extends /\ SameAs(c)
  BY DEF Stays, Others4, Grows
<1>6. task[c].from \in Nat /\ task[c].from < Len(allPcapFiles)
  BY <1>1, <1>3 DEF FramedOK, CaptureTypeOK, Tasks
<1>7. FramedOK(c)'
  <2>1. task[c].from + 1 \in 1..Len(allPcapFiles)
    BY <1>5, <1>6 DEF Extends
  <2>2. allPcapFiles'[task[c].from + 1] = Mark("init", c, task[c].id)
    BY <1>1, <1>3, <1>5, <2>1 DEF FramedOK, Extends
  <2>3. \A t \in Types : \A i \in Captures(t) : \A m \in 1..Len(lists[t][i].captured) :
             lists[t][i].captured[m].n < task[c].from
    BY <1>1, <1>3 DEF FramedOK
  <2>4. task'[c].from < Len(allPcapFiles')
    BY <1>5, <1>6 DEF SameAs, Extends
  <2> QED BY <1>5, <2>2, <2>3, <2>4 DEF FramedOK, SameAs, Captures, Mark, Type
<1>8. FindsOK(c)'
  BY <1>1, <1>2, <1>3
<1>9. ASSUME NEW d \in Capturers PROVE FramedOK(d)' /\ FindsOK(d)'
  <2>1. CASE d = c
    BY <1>7, <1>8, <2>1
  <2>2. CASE d # c
    BY <1>4, <2>2 DEF FramedOK, FindsOK, Busy
  <2> QED BY <2>1, <2>2
<1>10. Apart'
  BY <1>1, <1>5, ApartStill
<1>11. RequestsOK'
  <2> SUFFICES ASSUME NEW p \in 1..Len(allPcapFiles'), IsRequest(allPcapFiles'[p])
               PROVE  \/ \E t \in Types : \E i \in 1..Len(lists[t]) :
                            ShownNext(lists[t][i].captured, p)
                      \/ p > task'[c].from
    <3>1. task'[c].at # "idle"
      BY DEF Stays, Working
    <3> QED BY <1>5, <3>1 DEF RequestsOK, Captures, Busy, IsRequest, ShownNext, ShownIn, SameLine
  <2>1. CASE p \in 1..Len(allPcapFiles)
    <3>1. allPcapFiles'[p] = allPcapFiles[p]
      BY <2>1, <1>5 DEF Extends
    <3>2. \/ \E t \in Types : \E i \in 1..Len(lists[t]) : ShownIn(lists[t][i].captured, p)
          \/ p > task[c].from
      BY <1>1, <1>3, <2>1, <3>1 DEF RequestsOK, Captures, Busy
    <3> QED BY <1>5, <2>1, <3>2, ShownStill DEF SameAs
  <2>2. CASE p \notin 1..Len(allPcapFiles)
    BY <1>5, <1>6, <2>2 DEF SameAs, Extends
  <2> QED BY <2>1, <2>2
<1> QED BY <1>9, <1>10, <1>11

\* What a capture finds, when it has found nothing before.
LEMMA FindsAll ==
    ASSUME CaptureTypeOK, PlacesOK, NEW c \in Capturers, Busy(c), FramedOK(c),
           \A p \in task[c].from + 1..Len(allPcapFiles) :
              allPcapFiles[p] = Mark("end", c, task[c].id) => p = Len(allPcapFiles)
    PROVE  /\ Rising(Found(c))
           /\ \A p \in task[c].from + 1..Len(allPcapFiles) :
                 IsRequest(allPcapFiles[p]) => ShownIn(Found(c), p)
<1> DEFINE r == Found(c)
           N == Len(allPcapFiles)
           from == task[c].from
<1>1. PICK h : /\ r \in Seq(Packets) /\ h \in [1..Len(r) -> 1..N]
               /\ \A m \in 1..Len(r) : r[m] = allPcapFiles[h[m]] /\ Within(c, h[m])
               /\ \A m, k \in 1..Len(r) : m < k => h[m] < h[k]
               /\ \A p \in 1..N :
                     IsRequest(allPcapFiles[p]) /\ Within(c, p) =>
                        \E m \in 1..Len(r) :
                           /\ h[m] <= p
                           /\ \A k \in h[m]..p :
                                 Within(c, k) => SameLine(allPcapFiles[k], allPcapFiles[p])
  BY FoundIs
<1>2. N \in Nat /\ from \in Nat /\ from < N
      /\ allPcapFiles[from + 1] = Mark("init", c, task[c].id)
  BY DEF FramedOK, CaptureTypeOK, Tasks
<1> HIDE DEF r
<1>3. ASSUME NEW m \in 1..Len(r) PROVE h[m] \in 1..N /\ r[m].n = h[m] - 1
  <2>1. h[m] \in 1..N /\ r[m] = allPcapFiles[h[m]] /\ r[m] \in Packets
    BY <1>1
  <2>2. r[m].mark = "packet"
    BY <2>1 DEF Packets
  <2> QED BY <2>1, <2>2 DEF PlacesOK
<1>4. Rising(r)
  <2>1. \A m, k \in 1..Len(r) : m < k => h[m] < h[k]
    BY <1>1
  <2>2. \A m \in 1..Len(r) : h[m] \in Nat /\ r[m].n = h[m] - 1
    BY <1>2, <1>3
  <2> QED BY <2>1, <2>2 DEF Rising
<1>5. ASSUME NEW p \in from + 1..N, IsRequest(allPcapFiles[p])
      PROVE  ShownIn(r, p)
  <2>1. p \in 1..N /\ from + 1 \in 1..p
    BY <1>2
  <2>2. ASSUME NEW k \in from + 1..p PROVE Within(c, k)
    <3>1. \A e \in from + 1..k - 1 : allPcapFiles[e] # Mark("end", c, task[c].id)
      BY <1>2, <2>1
    <3> QED BY <1>2, <2>1, <3>1 DEF Within
  <2>3. PICK m \in 1..Len(r) :
           /\ h[m] <= p
           /\ \A k \in h[m]..p : Within(c, k) => SameLine(allPcapFiles[k], allPcapFiles[p])
    BY <1>1, <1>5, <2>1, <2>2
  <2>4. h[m] \in 1..p /\ r[m] = allPcapFiles[h[m]]
    BY <1>1, <1>3, <2>1, <2>3
  <2>5. ~(h[m] <= from + 1)
    <3>1. ~SameLine(allPcapFiles[from + 1], allPcapFiles[p])
      BY <1>2 DEF SameLine, Mark
    <3>2. Within(c, from + 1)
      BY <2>1, <2>2
    <3> QED BY <2>1, <2>3, <2>4, <3>1, <3>2
  <2>6. \A k \in h[m]..p : k \in from + 1..p
    BY <1>2, <2>1, <2>4, <2>5
  <2>7. \A k \in h[m]..p : SameLine(allPcapFiles[k], allPcapFiles[p])
    BY <2>2, <2>3, <2>6
  <2> QED BY <2>4, <2>7 DEF ShownIn
<1> QED BY <1>4, <1>5 DEF r

LEMMA ShowsBegin ==
    ASSUME CaptureTypeOK, CaptureTypeOK', SinceOK, OnceOK, ShowsOK, NEW c \in Capturers, Begin(c)
    PROVE  ShowsOK'
<1> DEFINE N == Len(allPcapFiles)
           id == task'[c].id
<1>0. /\ Elsewhere(c) /\ task[c].at = "idle" /\ task'[c].at = "sleep"
      /\ task'[c].from = N /\ task'[c].captured = <<>>
      /\ Grows(Mark("init", c, id)) /\ lists' = lists /\ cleaned' = cleaned
      /\ overlapped \subseteq overlapped'
      /\ \A d \in Capturers : Busy(d) =>
            (IF Type(d) = Type(c) THEN "same" ELSE "other") \in overlapped'
  BY BeginIs
<1> SUFFICES ASSUME overlapped' = {}, ~cleaned
             PROVE  (\A d \in Capturers : FramedOK(d)' /\ FindsOK(d)') /\ Apart' /\ RequestsOK'
  BY <1>0 DEF ShowsOK
<1>1. Apart /\ RequestsOK /\ PlacesOK /\ ListedOK
  BY <1>0 DEF ShowsOK, OnceOK, SinceOK
<1>2. \A d \in Capturers : task[d].at = "idle"
  BY <1>0 DEF Busy
<1>3. \A d \in Capturers : d # c => task'[d].at = "idle"
  BY <1>0, <1>2 DEF Elsewhere
<1>4. /\ N \in Nat /\ Len(allPcapFiles') = N + 1
      /\ allPcapFiles'[N + 1] = Mark("init", c, id)
      /\ \A p \in 1..N : allPcapFiles'[p] = allPcapFiles[p]
  BY <1>0 DEF Grows, Extends
<1>5. ASSUME NEW t \in Types, NEW i \in 1..Len(lists[t]),
             NEW m \in 1..Len(lists[t][i].captured)
      PROVE  lists[t][i].captured[m].n < N
  <2> DEFINE s == lists[t][i].captured
             from == lists[t][i].from
  <2>1. lists[t] \in Seq(Captured)
    BY DEF CaptureTypeOK
  <2>2. lists[t][i] \in Captured
    BY <2>1
  <2>3. s \in Seq(Packets) /\ from \in Nat
    BY <2>2 DEF Captured
  <2>4. Since(s, from)
    BY <1>1 DEF ListedOK, Captures
  <2> HIDE DEF s, from
  <2>5. \A k \in 1..Len(s) : s[k].n < Len(allPcapFiles)
    BY <1>1, <2>3, <2>4, KeptNumbers
  <2> QED BY <2>5 DEF s
<1>6. FramedOK(c)' /\ FindsOK(c)'
  <2>1. Mark("init", c, task[c].id)' = Mark("init", c, id)
    BY DEF Mark, Type
  <2>2. FramedOK(c)'
    BY <1>0, <1>4, <1>5, <2>1 DEF FramedOK, Captures
  <2>3. \A p \in N + 1..N + 1 : allPcapFiles'[p].mark = "init"
    BY <1>4 DEF Mark
  <2>4. \A p \in N + 1..N + 1 : allPcapFiles'[p] # Mark("end", c, id)
    BY <2>3 DEF Mark
  <2>5. Mark("end", c, task[c].id)' = Mark("end", c, id)
    BY DEF Mark, Type
  <2> QED BY <1>0, <1>4, <2>2, <2>4, <2>5 DEF FindsOK
<1>7. ASSUME NEW d \in Capturers PROVE FramedOK(d)' /\ FindsOK(d)'
  BY <1>3, <1>6 DEF FramedOK, FindsOK, Busy
<1>8. Apart'
  BY <1>0, <1>1, ApartStill
<1>9. RequestsOK'
  <2> SUFFICES ASSUME NEW p \in 1..N + 1, IsRequest(allPcapFiles'[p])
               PROVE  \E t \in Types : \E i \in 1..Len(lists[t]) :
                            ShownNext(lists[t][i].captured, p)
    BY <1>0, <1>4 DEF RequestsOK, Captures, Busy, IsRequest, ShownNext, ShownIn, SameLine
  <2>1. p \in 1..N
    BY <1>4 DEF IsRequest, Mark
  <2>2. \A d \in Capturers : ~Busy(d)
    BY <1>2 DEF Busy
  <2>3. PICK t \in Types : \E i \in 1..Len(lists[t]) : ShownIn(lists[t][i].captured, p)
    BY <1>1, <1>4, <2>1, <2>2 DEF RequestsOK, Captures
  <2>4. Extends
    BY <1>0 DEF Grows
  <2> QED BY <1>0, <2>1, <2>3, <2>4, ShownStill
<1> QED BY <1>7, <1>8, <1>9

LEMMA ShowsFinds ==
    ASSUME CaptureTypeOK, CaptureTypeOK', OnceOK, ShowsOK, NEW c \in Capturers, AddFound(c)
    PROVE  ShowsOK'
<1>0. /\ task[c].at = "find" /\ allPcapFiles' = allPcapFiles
      /\ lists' = lists /\ overlapped' = overlapped /\ cleaned' = cleaned
      /\ IF Len(allPcapFiles) # task[c].seen
         THEN Stays(c) /\ task'[c].at = "sleep"
         ELSE /\ Elsewhere(c) /\ task'[c].at = "verify" /\ Working(c)
              /\ task'[c].id = task[c].id /\ task'[c].from = task[c].from
              /\ task'[c].captured = task[c].captured \o Found(c)
  BY AddFoundStays DEF Others4
<1> SUFFICES ASSUME overlapped = {}, ~cleaned
             PROVE  (\A d \in Capturers : FramedOK(d)' /\ FindsOK(d)') /\ Apart' /\ RequestsOK'
  BY <1>0 DEF ShowsOK
<1>1. (\A d \in Capturers : FramedOK(d) /\ FindsOK(d)) /\ Apart /\ RequestsOK
  BY DEF ShowsOK
<1>2. OneAtATime /\ PlacesOK /\ \A d \in Capturers : ReadingOK(d)
  BY DEF OnceOK
<1>3. Busy(c) /\ \A d \in Capturers : d # c => task[d].at = "idle"
  BY <1>0, <1>2, Alone DEF Busy
<1>4. /\ Elsewhere(c) /\ task'[c].at = "verify"
      /\ task'[c].id = task[c].id /\ task'[c].from = task[c].from
      /\ task'[c].captured = task[c].captured \o Found(c)
  BY <1>0, <1>2 DEF ReadingOK
<1>5. \A d \in Capturers : d # c => task'[d].at = "idle"
  BY <1>3, <1>4 DEF Elsewhere
<1>6. FramedOK(c)'
  BY <1>0, <1>1, <1>3, <1>4 DEF FramedOK, Busy, Captures, Mark, Type
<1>7. FindsOK(c)'
  <2> DEFINE s == task[c].captured
             r == Found(c)
  <2>1. r \in Seq(Packets) /\ s \in Seq(Packets)
    BY FoundIs DEF CaptureTypeOK, Tasks
  <2>2. Stuck(c) \/ (s = <<>> /\ \A p \in task[c].from + 1..Len(allPcapFiles) :
              allPcapFiles[p] = Mark("end", c, task[c].id) => p = Len(allPcapFiles))
    BY <1>0, <1>1, <1>3 DEF FindsOK
  <2>3. CASE Stuck(c)
    <3>1. Type(c) # "sync" /\ ~Parseable(s)
      BY <2>3 DEF Stuck
    <3> HIDE DEF s, r
    <3>2. PICK i \in 1..Len(s) : s[i].line = "bare"
      BY <3>1 DEF Parseable
    <3>3. i \in 1..Len(s \o r) /\ (s \o r)[i] = s[i]
      BY <2>1
    <3>4. ~Parseable(s \o r)
      BY <3>2, <3>3 DEF Parseable
    <3>5. task'[c].captured = s \o r
      BY <1>4 DEF s, r
    <3>6. Stuck(c)'
      BY <3>1, <3>4, <3>5 DEF Stuck, Type
    <3> QED BY <1>4, <3>6 DEF FindsOK
  <2>4. CASE s = <<>> /\ \A p \in task[c].from + 1..Len(allPcapFiles) :
              allPcapFiles[p] = Mark("end", c, task[c].id) => p = Len(allPcapFiles)
    <3>1. /\ Rising(r)
          /\ \A p \in task[c].from + 1..Len(allPcapFiles) :
                IsRequest(allPcapFiles[p]) => ShownIn(r, p)
      BY <1>1, <1>2, <1>3, <2>4, FindsAll
    <3>2. task'[c].captured = r
      <4> HIDE DEF r
      <4>1. s \o r = r
        BY <2>1, <2>4
      <4> QED BY <1>4, <4>1 DEF r
    <3> HIDE DEF r
    <3>3. Rising(task[c].captured)' /\ Covers(c)'
      BY <1>0, <1>4, <3>1, <3>2 DEF Rising, Covers, ShownIn, SameLine, IsRequest
    <3> QED BY <1>4, <3>3 DEF FindsOK
  <2> QED BY <2>2, <2>3, <2>4
<1>8. ASSUME NEW d \in Capturers PROVE FramedOK(d)' /\ FindsOK(d)'
  BY <1>5, <1>6, <1>7 DEF FramedOK, FindsOK, Busy
<1>9. Apart'
  BY <1>0, <1>1, ApartStill
<1>10. RequestsOK'
  <2>1. \A d \in Capturers : Busy(d) => task'[d].at # "idle" /\ task'[d].from = task[d].from
    BY <1>3, <1>4 DEF Busy
  <2> QED BY <1>0, <1>1, <2>1 DEF RequestsOK, Captures, ShownIn, SameLine, IsRequest, Busy
<1> QED BY <1>8, <1>9, <1>10

LEMMA ShowsReturns ==
    ASSUME CaptureTypeOK, CaptureTypeOK', SinceOK, OnceOK, ShowsOK,
           NEW c \in Capturers, addCaptureTemplate(c)
    PROVE  ShowsOK'
<1> DEFINE T == Type(c)
           n == Len(lists[T])
           s == task[c].captured
           from == task[c].from
<1>0. /\ Elsewhere(c) /\ task[c].at = "return" /\ task'[c].at = "idle"
      /\ allPcapFiles' = allPcapFiles
      /\ overlapped' = overlapped /\ cleaned' = cleaned
      /\ \A t \in Types \ {T} : lists'[t] = lists[t]
      /\ Len(lists'[T]) = n + 1 /\ n \in Nat
      /\ \A i \in 1..n : lists'[T][i] = lists[T][i]
      /\ lists'[T][n + 1].captured = s
  BY addCaptureTemplateIs
<1> SUFFICES ASSUME overlapped = {}, ~cleaned
             PROVE  (\A d \in Capturers : FramedOK(d)' /\ FindsOK(d)') /\ Apart' /\ RequestsOK'
  BY <1>0 DEF ShowsOK
<1>1. (\A d \in Capturers : FramedOK(d) /\ FindsOK(d)) /\ Apart /\ RequestsOK
  BY DEF ShowsOK
<1>2. OneAtATime /\ PlacesOK /\ BegunOK(c)
  BY DEF OnceOK, SinceOK
<1>3. Busy(c) /\ \A d \in Capturers : d # c => task[d].at = "idle"
  BY <1>0, <1>2, Alone DEF Busy
<1>4. \A d \in Capturers : task'[d].at = "idle"
  BY <1>0, <1>3 DEF Elsewhere
<1>5. T \in Types /\ s \in Seq(Packets) /\ from \in Nat
  BY TypeInTypes DEF CaptureTypeOK, Tasks
<1>6. Rising(s) /\ Covers(c)
  BY <1>0, <1>1, <1>3 DEF FindsOK
<1>7. \A m \in 1..Len(s) : s[m].n \in Nat /\ from <= s[m].n
  <2>1. Since(s, from)
    BY <1>2, <1>3 DEF BegunOK
  <2> HIDE DEF s, from
  <2> QED BY <1>2, <1>5, <2>1, KeptNumbers
<1>8. \A t \in Types : \A i \in 1..Len(lists[t]) : \A m \in 1..Len(lists[t][i].captured) :
         lists[t][i].captured[m].n < from
  BY <1>1, <1>3 DEF FramedOK, Captures
<1>9. ASSUME NEW t \in Types, NEW i \in 1..Len(lists'[t])
      PROVE  \/ t = T /\ i = n + 1 /\ lists'[t][i].captured = s
             \/ /\ ~(t = T /\ i = n + 1)
                /\ i \in 1..Len(lists[t]) /\ lists'[t][i].captured = lists[t][i].captured
  BY <1>0
<1> HIDE DEF s, from, n, T
<1>10. Injective(s)
  <2> SUFFICES ASSUME NEW m \in 1..Len(s), NEW k \in 1..Len(s), s[m] = s[k], m # k
               PROVE  FALSE
    BY DEF Injective
  <2>1. m < k \/ k < m
    BY <1>5
  <2>2. s[m].n < s[k].n \/ s[k].n < s[m].n
    BY <1>6, <2>1 DEF Rising
  <2> QED BY <1>7, <2>2
<1>11. Apart'
  <2> SUFFICES ASSUME NEW t \in Types, NEW u \in Types,
                      NEW i \in 1..Len(lists'[t]), NEW j \in 1..Len(lists'[u])
               PROVE  /\ Injective(lists'[t][i].captured)
                      /\ (t # u \/ i # j) =>
                            \A m \in 1..Len(lists'[t][i].captured),
                               k \in 1..Len(lists'[u][j].captured) :
                               lists'[t][i].captured[m] # lists'[u][j].captured[k]
    BY DEF Apart, Captures, Injective
  <2>1. CASE t = T /\ i = n + 1
    <3>1. lists'[t][i].captured = s
      BY <1>9, <2>1
    <3>2. CASE u = T /\ j = n + 1
      BY <1>10, <2>1, <3>1, <3>2
    <3>3. CASE ~(u = T /\ j = n + 1)
      <4>1. j \in 1..Len(lists[u]) /\ lists'[u][j].captured = lists[u][j].captured
        BY <1>9, <3>3
      <4>2. \A k \in 1..Len(lists[u][j].captured) : lists[u][j].captured[k].n < from
        BY <1>8, <4>1
      <4>3. \A m \in 1..Len(s), k \in 1..Len(lists[u][j].captured) :
               s[m] # lists[u][j].captured[k]
        BY <1>5, <1>7, <4>2
      <4> QED BY <1>10, <3>1, <4>1, <4>3
    <3> QED BY <3>2, <3>3
  <2>2. CASE ~(t = T /\ i = n + 1)
    <3>1. i \in 1..Len(lists[t]) /\ lists'[t][i].captured = lists[t][i].captured
      BY <1>9, <2>2
    <3>0. Injective(lists[t][i].captured)
      BY <1>1, <3>1 DEF Apart, Captures
    <3>2. CASE u = T /\ j = n + 1
      <4>1. lists'[u][j].captured = s
        BY <1>9, <3>2
      <4>2. \A m \in 1..Len(lists[t][i].captured) : lists[t][i].captured[m].n < from
        BY <1>8, <3>1
      <4>3. \A m \in 1..Len(lists[t][i].captured), k \in 1..Len(s) :
               lists[t][i].captured[m] # s[k]
        BY <1>5, <1>7, <4>2
      <4> QED BY <3>0, <3>1, <4>1, <4>3
    <3>3. CASE ~(u = T /\ j = n + 1)
      <4>1. j \in 1..Len(lists[u]) /\ lists'[u][j].captured = lists[u][j].captured
        BY <1>9, <3>3
      <4>2. (t # u \/ i # j) =>
               \A m \in 1..Len(lists[t][i].captured),
                  k \in 1..Len(lists[u][j].captured) :
                  lists[t][i].captured[m] # lists[u][j].captured[k]
        BY <1>1, <3>1, <4>1 DEF Apart, Captures
      <4> QED BY <3>0, <3>1, <4>1, <4>2
    <3> QED BY <3>2, <3>3
  <2> QED BY <2>1, <2>2
<1>12. RequestsOK'
  <2> SUFFICES ASSUME NEW p \in 1..Len(allPcapFiles), IsRequest(allPcapFiles[p])
               PROVE  \E t \in Types : \E i \in 1..Len(lists'[t]) :
                            ShownIn(lists'[t][i].captured, p)
    BY <1>0 DEF RequestsOK, Captures, ShownIn, SameLine, IsRequest
  <2>1. CASE p > from
    <3>1. p \in from + 1..Len(allPcapFiles)
      BY <1>5, <2>1
    <3>2. ShownIn(s, p)
      BY <1>6, <3>1 DEF Covers, s, from
    <3>3. n + 1 \in 1..Len(lists'[T])
      BY <1>0 DEF n, T
    <3>4. lists'[T][n + 1].captured = s
      BY <1>0 DEF n, T, s
    <3> QED BY <1>5, <3>2, <3>3, <3>4
  <2>2. CASE ~(p > from)
    <3>0. \A d \in Capturers : Busy(d) => d = c
      BY <1>3 DEF Busy
    <3>3. PICK t \in Types : \E i \in 1..Len(lists[t]) : ShownIn(lists[t][i].captured, p)
      BY <1>1, <2>2, <3>0 DEF RequestsOK, Captures, from
    <3>1. PICK i \in 1..Len(lists[t]) : ShownIn(lists[t][i].captured, p)
      BY <3>3
    <3>2. i \in 1..Len(lists'[t]) /\ lists'[t][i].captured = lists[t][i].captured
      BY <1>0, <3>1 DEF n, T
    <3> QED BY <3>1, <3>2
  <2> QED BY <2>1, <2>2
<1>13. ASSUME NEW d \in Capturers PROVE FramedOK(d)' /\ FindsOK(d)'
  BY <1>4 DEF FramedOK, FindsOK, Busy
<1> QED BY <1>11, <1>12, <1>13

LEMMA ShowsStep ==
    ASSUME CaptureTypeOK, CaptureTypeOK', SinceOK, OnceOK, ShowsOK, NEW c \in Capturers,
           Step(c) \/ ReadFails(c)
    PROVE  ShowsOK'
<1> USE DEF Busy
<1>0. ASSUME Stays(c)
      PROVE  /\ Mark("end", c, task[c].id)' = Mark("end", c, task[c].id)
             /\ Stuck(c)' = Stuck(c) /\ Working(c) /\ SameAs(c) /\ Extends
  BY <1>0 DEF Stays, SameAs, Mark, Type, Stuck, Grows, Parseable
<1>s. ASSUME Stays(c), Rising(task[c].captured), Covers(c), allPcapFiles' = allPcapFiles
      PROVE  Rising(task[c].captured)' /\ Covers(c)'
  BY <1>s DEF Stays, SameAs, Rising, Covers, ShownIn, SameLine, IsRequest
<1>1. CASE Open(c) \/ ReadFails(c)
  <2>1. /\ Stays(c) /\ allPcapFiles' = allPcapFiles /\ task[c].at \in {"sleep", "read"}
        /\ task'[c].at \in {"sleep", "read"}
    BY <1>1, OpenIs, ReadFailsIs
  <2>2. ASSUME FindsOK(c) PROVE FindsOK(c)'
    BY <1>0, <2>1, <2>2 DEF FindsOK, SameAs
  <2> QED BY <2>1, <2>2, ShowsStays
<1>2. CASE nextPacket(c)
  <2> DEFINE x == Packet(task[c].counter)
  <2>1. /\ Stays(c) /\ task[c].at = "read" /\ task'[c].at = "read"
        /\ Grows(x) \/ allPcapFiles' = allPcapFiles
    BY <1>2, nextPacketIs
  <2>2. x # Mark("end", c, task[c].id)
    <3>1. x.mark = "packet" /\ Mark("end", c, task[c].id).mark = "end"
      BY DEF Packet, Mark
    <3> QED BY <3>1
  <2> HIDE DEF x
  <2>3. ASSUME FramedOK(c), FindsOK(c) PROVE FindsOK(c)'
    <3>1. Stuck(c) \/ \A p \in task[c].from + 1..Len(allPcapFiles) :
                allPcapFiles[p] # Mark("end", c, task[c].id)
      BY <2>1, <2>3 DEF FindsOK
    <3>2. Stuck(c) \/ \A p \in task[c].from + 1..Len(allPcapFiles') :
                allPcapFiles'[p] # Mark("end", c, task[c].id)
      <4>1. CASE Stuck(c)
        BY <4>1
      <4>2. CASE ~Stuck(c) /\ allPcapFiles' = allPcapFiles
        BY <3>1, <4>2
      <4>3. CASE ~Stuck(c) /\ Grows(x)
        <5> SUFFICES ASSUME NEW p \in task[c].from + 1..Len(allPcapFiles')
                     PROVE  allPcapFiles'[p] # Mark("end", c, task[c].id)
          OBVIOUS
        <5>0. task[c] \in Tasks /\ allPcapFiles \in Seq(Kept)
          BY DEF CaptureTypeOK
        <5>1. task[c].from \in Nat /\ Len(allPcapFiles) \in Nat
          BY <5>0 DEF Tasks
        <5>2. CASE p = Len(allPcapFiles) + 1
          BY <2>2, <4>3, <5>2 DEF Grows
        <5>3. CASE p # Len(allPcapFiles) + 1
          <6>1. p \in task[c].from + 1..Len(allPcapFiles) /\ p \in 1..Len(allPcapFiles)
            BY <4>3, <5>1, <5>3 DEF Grows
          <6> QED BY <3>1, <4>3, <6>1 DEF Grows, Extends
        <5> QED BY <5>2, <5>3
      <4> QED BY <2>1, <4>1, <4>2, <4>3
    <3>3. task[c].captured = <<>> \/ Stuck(c)
      BY <2>1, <2>3 DEF FindsOK
    <3> QED BY <1>0, <2>1, <3>2, <3>3 DEF FindsOK, SameAs
  <2> QED BY <2>1, <2>3, ShowsStays
<1>3. CASE EndOfFile(c)
  <2> DEFINE x == Mark("end", c, task[c].id)
  <2>1. /\ Stays(c) /\ task[c].at = "read" /\ task'[c].at = "print"
        /\ Grows(x) \/ Others(c) # {}
    BY <1>3, EndOfFileIs
  <2>2. ASSUME Others(c) = {}, FindsOK(c) PROVE FindsOK(c)'
    <3>0. Grows(x)
      BY <2>1, <2>2
    <3>1. Stuck(c) \/ \A p \in task[c].from + 1..Len(allPcapFiles) : allPcapFiles[p] # x
      BY <2>1, <2>2 DEF FindsOK
    <3> HIDE DEF x
    <3>5. task[c].from \in Nat /\ Len(allPcapFiles) \in Nat
      BY DEF CaptureTypeOK, Tasks
    <3>2. Stuck(c) \/ \A p \in task[c].from + 1..Len(allPcapFiles') :
                allPcapFiles'[p] = x => p = Len(allPcapFiles')
      <4> SUFFICES ASSUME ~Stuck(c), NEW p \in task[c].from + 1..Len(allPcapFiles'),
                          allPcapFiles'[p] = x, p # Len(allPcapFiles')
                   PROVE  FALSE
        OBVIOUS
      <4>2. p \in task[c].from + 1..Len(allPcapFiles) /\ p \in 1..Len(allPcapFiles)
        BY <3>0, <3>5 DEF Grows
      <4> QED BY <3>0, <3>1, <4>2 DEF Grows, Extends
    <3>3. task[c].captured = <<>> \/ Stuck(c)
      BY <2>1, <2>2 DEF FindsOK
    <3>4. Mark("end", c, task[c].id)' = x
      BY <1>0, <2>1 DEF x
    <3> QED BY <1>0, <2>1, <3>2, <3>3, <3>4 DEF FindsOK, SameAs
  <2> QED BY <2>1, <2>2, ShowsStays
<1>4. CASE PrintMarks(c)
  <2>1. /\ Stays(c) /\ allPcapFiles' = allPcapFiles /\ task[c].at = "print"
        /\ task'[c].at = IF Len(allPcapFiles) # task[c].seen THEN "sleep" ELSE "find"
    BY <1>4, PrintMarksIs
  <2>2. ASSUME ReadingOK(c), FindsOK(c) PROVE FindsOK(c)'
    <3>1. task'[c].at = "find"
      BY <2>1, <2>2 DEF ReadingOK
    <3> QED BY <1>0, <2>1, <2>2, <3>1 DEF FindsOK, SameAs
  <2> QED BY <2>1, <2>2, ShowsStays
<1>5. CASE AddFound(c)
  BY <1>5, ShowsFinds
<1>6. CASE verifyVulnerabilities(c)
  <2>1. /\ Stays(c) /\ allPcapFiles' = allPcapFiles /\ task[c].at = "verify"
        /\ task'[c].at = IF Type(c) = "sync" \/ Parseable(task[c].captured)
                         THEN "return" ELSE "sleep"
    BY <1>6, verifyIs
  <2>2. ASSUME FindsOK(c) PROVE FindsOK(c)'
    <3>1. CASE Stuck(c)
      <4>1. task'[c].at = "sleep" /\ Stuck(c)'
        BY <1>0, <2>1, <3>1 DEF Stuck
      <4> QED BY <4>1 DEF FindsOK
    <3>2. CASE ~Stuck(c)
      <4>1. task'[c].at = "return"
        BY <2>1, <3>2 DEF Stuck
      <4>2. Rising(task[c].captured) /\ Covers(c)
        BY <2>1, <2>2, <3>2 DEF FindsOK
      <4> QED BY <1>s, <2>1, <4>1, <4>2 DEF FindsOK
    <3> QED BY <3>1, <3>2
  <2> QED BY <2>1, <2>2, ShowsStays
<1>7. CASE addCaptureTemplate(c)
  BY <1>7, ShowsReturns
<1> QED BY <1>1, <1>2, <1>3, <1>4, <1>5, <1>6, <1>7 DEF Step

LEMMA InitShowsOK == ASSUME CaptureInit PROVE ShowsOK
<1>1. /\ allPcapFiles = <<>> /\ \A t \in Types : lists[t] = <<>>
      /\ \A c \in Capturers : task[c].at = "idle"
  BY DEF CaptureInit, Types, IdleTask
<1>2. Apart
  BY <1>1 DEF Apart, Captures
<1>3. RequestsOK
  BY <1>1 DEF RequestsOK
<1>4. \A c \in Capturers : FramedOK(c) /\ FindsOK(c)
  BY <1>1 DEF FramedOK, FindsOK, Busy
<1> QED BY <1>2, <1>3, <1>4 DEF ShowsOK

LEMMA StepShowsOK ==
    ASSUME CaptureTypeOK, CaptureTypeOK', SinceOK, OnceOK, ShowsOK, [CaptureNext]_captureVars
    PROVE  ShowsOK'
<1>1. ASSUME UNCHANGED <<allPcapFiles, lists, task, overlapped, cleaned>> PROVE ShowsOK'
  <2>1. (\A c \in Capturers : FramedOK(c) /\ FindsOK(c)) =>
           \A c \in Capturers : FramedOK(c)' /\ FindsOK(c)'
    <3> SUFFICES ASSUME NEW c \in Capturers, FramedOK(c), FindsOK(c)
                 PROVE  FramedOK(c)' /\ FindsOK(c)'
      OBVIOUS
    <3>1. FramedOK(c)'
      BY <1>1 DEF FramedOK, Busy, Captures, Mark, Type
    <3>2. ASSUME NEW s, NEW p, ShownIn(s, p) PROVE ShownIn(s, p)'
      BY <1>1, <3>2 DEF ShownIn, SameLine
    <3>3. Covers(c) => Covers(c)'
      BY <1>1, <3>2 DEF Covers, IsRequest
    <3>4. FindsOK(c)'
      BY <1>1, <3>3 DEF FindsOK, Busy, Mark, Type, Stuck, Parseable, Rising
    <3> QED BY <3>1, <3>4
  <2>2. Apart => Apart'
    BY <1>1, ApartStill
  <2>3. RequestsOK => RequestsOK'
    <3>1. ASSUME NEW s, NEW p, ShownIn(s, p) PROVE ShownIn(s, p)'
      BY <1>1, <3>1 DEF ShownIn, SameLine
    <3> QED BY <1>1, <3>1 DEF RequestsOK, Captures, Busy, IsRequest
  <2> QED BY <1>1, <2>1, <2>2, <2>3 DEF ShowsOK
<1>2. CASE Write
  BY <1>1, <1>2 DEF Write, counts
<1>3. CASE UNCHANGED captureVars
  BY <1>1, <1>3 DEF captureVars
<1>4. CASE getCleanList
  BY <1>4 DEF getCleanList, ShowsOK
<1>5. ASSUME NEW c \in Capturers, Begin(c) PROVE ShowsOK'
  BY <1>5, ShowsBegin
<1>6. ASSUME NEW c \in Capturers, Step(c) \/ ReadFails(c) PROVE ShowsOK'
  BY <1>6, ShowsStep
<1> QED BY <1>2, <1>3, <1>4, <1>5, <1>6 DEF CaptureNext

LEMMA ShowsAlways ==
    ASSUME CaptureAssumption PROVE CaptureSpec => [](CaptureTypeOK /\ SinceOK /\ OnceOK /\ ShowsOK)
<1>1. CaptureInit => CaptureTypeOK /\ SinceOK /\ OnceOK /\ ShowsOK
  BY InitTypeOK, InitSinceOK, InitOnceOK, InitShowsOK
<1>2. CaptureTypeOK /\ SinceOK /\ OnceOK /\ ShowsOK /\ [CaptureNext]_captureVars =>
         (CaptureTypeOK /\ SinceOK /\ OnceOK /\ ShowsOK)'
  BY StepTypeOK, StepSinceOK, StepOnceOK, StepShowsOK
<1> QED BY <1>1, <1>2, PTL DEF CaptureSpec

\* A packet is in one capture, and there once, although what a capture found is
\* added to what it found before (getCapturedByIdAndType): one that found
\* something starts over only when it will never return.
THEOREM NoPacketInTwoCaptures == ASSUME CaptureAssumption PROVE CaptureSpec => []CapturedOnce
<1>1. ShowsOK => CapturedOnce
  BY DEF ShowsOK, Apart, CapturedOnce, Types
<1> QED BY <1>1, ShowsAlways, PTL

\* Of what was kept every request is shown by the capture that kept it, or one
\* with the same line that came before it without another line between
\* (removeDuplicates), whatever was read again.
THEOREM NoRequestLost == ASSUME CaptureAssumption PROVE CaptureSpec => []KeptIsShown
<1>1. ShowsOK => KeptIsShown
  <2> SUFFICES ASSUME ShowsOK, overlapped = {}, ~cleaned, \A c \in Capturers : ~Busy(c),
                      NEW i \in 1..Len(allPcapFiles), IsRequest(allPcapFiles[i])
               PROVE  \E t \in Types : \E j \in Captures(t) : ShownIn(lists[t][j].captured, i)
    BY DEF KeptIsShown, IsRequest, Types
  <2> QED BY DEF ShowsOK, RequestsOK
<1> QED BY <1>1, ShowsAlways, PTL

=============================================================================
