----------------------------- MODULE TwoFactor ------------------------------
(***************************************************************************)
(* The second factor of one account of the Keyrock identity manager, in    *)
(*   src/fiware-idm/controllers/web/sessions.js                            *)
(*   src/fiware-idm/controllers/web/settings.js                            *)
(*   src/fiware-idm/controllers/web/users.js        update_info            *)
(*   src/fiware-idm/controllers/oauth2/oauth2.js    authenticate_user      *)
(* The secret and the remembered devices are part of the extra column of   *)
(* the account, which the profile page shares.  A device is remembered by  *)
(* the User-Agent string of its browser, so that all browsers that send    *)
(* the same string are one device.  A session keeps a copy of the column   *)
(* in the cookie of its browser, and the pages write the whole column from *)
(* that copy.  Some writes are not waited for.                             *)
(***************************************************************************)
EXTENDS Naturals, FiniteSets, Sequences

CONSTANTS
    Browsers,    \* each with its own cookie
    Agents,      \* User-Agent strings
    AgentOf,     \* browser -> the string it sends, which others may send too
    Secrets,     \* secrets of an authenticator
    Links,       \* disable_2fa_key values
    Infos,       \* what the profile page posts
    None,
    MaxWrites    \* bound on the writes in flight at a time

VARIABLES
    extra,    \* the column: the second factor and the profile's attributes
    cookie,   \* browser -> its session, or None
    page,     \* browser -> the form it shows, if it is about the second factor
    sent,     \* the writes of the column that no database has executed yet
    profile,  \* disable_2fa_key of the registration profile, and if it expired
    links,    \* the links in the mailbox, in the order of their mails
    asking,   \* browser -> the key of its request for a link, while it is served
    proven,   \* history: <<User-Agent, secret>> of the codes given to be remembered
    passed,   \* history: keys of requests between whose save and mail another saved
    used      \* secrets and keys that have been generated

factorVars == <<extra, cookie, page, sent, profile, links, asking, proven, passed, used>>

\* SQL NULL is no secret and no link; the module that is run assumes it.
FactorAssumption == None \notin Secrets \cup Links /\ AgentOf \in [Browsers -> Agents]

-----------------------------------------------------------------------------
Off == [secret |-> None, user_agent |-> {}]
Factor == [secret : Secrets \cup {None}, user_agent : SUBSET Agents]
\* info is None in the column of an account that no page has created.
Extra == [tfa : Factor, info : Infos] \cup {None}
Session == [extra : Extra, oauth : BOOLEAN]
Signed(x, oauth) == [extra |-> x, oauth |-> oauth]

NoPage == [at |-> "none", secret |-> None]
Pages == [at : {"none", "code", "enable", "hung"}, secret : Secrets \cup {None}]
Writes == [by : Browsers, kind : {"info", "on", "off", "device", "link"},
           to : Extra, awaited : BOOLEAN]
NoLink == [key |-> None, st |-> "none"]
Asking == [key : Links \cup {None}, st : {"none", "find", "save", "mail"}]

FactorTypeOK ==
    /\ extra \in Extra
    /\ cookie \in [Browsers -> Session \cup {None}]
    /\ page \in [Browsers -> Pages]
    /\ sent \subseteq Writes
    /\ profile \in [key : Links \cup {None}, expired : BOOLEAN]
    /\ links \in Seq(Links)
    /\ asking \in [Browsers -> Asking]
    /\ proven \subseteq Agents \X Secrets
    /\ passed \subseteq Links
    /\ used \subseteq Secrets \cup Links

FactorInit ==
    /\ extra \in {None} \cup [tfa : {Off}, info : Infos]
    /\ cookie = [b \in Browsers |-> None]
    /\ page = [b \in Browsers |-> NoPage]
    /\ sent = {} /\ links = <<>> /\ proven = {} /\ passed = {} /\ used = {}
    /\ profile = [key |-> None, expired |-> FALSE]
    /\ asking = [b \in Browsers |-> NoLink]

IsOn(x) == x # None /\ x.tfa.secret # None
Show(b, at, s) == page' = [page EXCEPT ![b] = [at |-> at, secret |-> s]]
OpenSession(b, x) == cookie' = [cookie EXCEPT ![b] = Signed(x, FALSE)]
\* A page whose write is on its way waits; a browser has one request at a time.
Idle(b) == /\ page[b].at # "hung" /\ asking[b].st = "none"
           /\ \A w \in sent : w.by = b => ~w.awaited
Send(b, kind, x, awaited) ==
    /\ Cardinality(sent) < MaxWrites
    /\ sent' = sent \cup {[by |-> b, kind |-> kind, to |-> x, awaited |-> awaited]}

-----------------------------------------------------------------------------
(* Signing in. *)

\* The password was right.  An account with the second factor asks for a
\* code, unless it remembers the User-Agent string of the request.
Login(b) ==
    /\ Idle(b) /\ cookie[b] = None
    /\ IF IsOn(extra) /\ AgentOf[b] \notin extra.tfa.user_agent
       THEN Show(b, "code", None) /\ UNCHANGED cookie
       ELSE OpenSession(b, extra) /\ Show(b, "none", None)
    /\ UNCHANGED <<extra, sent, profile, links, asking, proven, passed, used>>

\* The code of some secret, against the secret of the column now.  The string
\* is remembered by a write that nobody waits for.  Without a secret there is
\* nothing to verify against: the exception is nobody's, the page never comes.
TfaVerify(b) ==
    /\ Idle(b) /\ page[b].at = "code"
    /\ \/ /\ ~IsOn(extra)
          /\ Show(b, "hung", None)
          /\ UNCHANGED <<cookie, sent, proven>>
       \/ /\ IsOn(extra)    \* no code, or that of another secret
          /\ Show(b, "code", None)
          /\ UNCHANGED <<cookie, sent, proven>>
       \/ /\ IsOn(extra) /\ extra.tfa.secret \in used
          /\ OpenSession(b, extra) /\ Show(b, "none", None)
          /\ UNCHANGED <<sent, proven>>
       \/ /\ IsOn(extra) /\ extra.tfa.secret \in used
          /\ LET x == [extra EXCEPT !.tfa.user_agent = @ \cup {AgentOf[b]}]
             IN OpenSession(b, x) /\ Send(b, "device", x, FALSE)
          /\ proven' = proven \cup {<<AgentOf[b], extra.tfa.secret>>}
          /\ Show(b, "none", None)
    /\ UNCHANGED <<extra, profile, links, asking, passed, used>>

\* Signing in on the page of an application asks for no code, and leaves a
\* session without a copy of the column.
OAuthSignIn(b) ==
    /\ Idle(b) /\ cookie[b] = None
    /\ cookie' = [cookie EXCEPT ![b] = Signed(None, TRUE)]
    /\ Show(b, "none", None)
    /\ UNCHANGED <<extra, sent, profile, links, asking, proven, passed, used>>

Logout(b) ==
    /\ Idle(b) /\ cookie[b] # None
    /\ cookie' = [cookie EXCEPT ![b] = None]
    /\ Show(b, "none", None)
    /\ UNCHANGED <<extra, sent, profile, links, asking, proven, passed, used>>

\* An application that is left signs its users out, if they came through one.
ExternalLogout(b) ==
    /\ Idle(b) /\ cookie[b] # None /\ cookie[b].oauth
    /\ cookie' = [cookie EXCEPT ![b] = None]
    /\ Show(b, "none", None)
    /\ UNCHANGED <<extra, sent, profile, links, asking, proven, passed, used>>

-----------------------------------------------------------------------------
(* A link for those who lost their authenticator.  Of a request for one, the *)
(* key is first put in a row that is missing, then in the row, then mailed:  *)
(* each step follows the answer of the one before it.                        *)

AskLink(b, k) ==
    /\ Idle(b) /\ cookie[b] = None /\ k \notin used
    /\ asking' = [asking EXCEPT ![b] = [key |-> k, st |-> "find"]]
    /\ used' = used \cup {k}
    /\ UNCHANGED <<extra, cookie, page, sent, profile, links, proven, passed>>

FindOrCreateKey(b) ==
    /\ asking[b].st = "find"
    /\ profile' = IF profile.key = None THEN [key |-> asking[b].key, expired |-> FALSE]
                  ELSE profile
    /\ asking' = [asking EXCEPT ![b].st = "save"]
    /\ UNCHANGED <<extra, cookie, page, sent, links, proven, passed, used>>

\* Mutation: only the request that created the row leaves its key there.
SaveKeyOfFirst(b) ==
    /\ asking[b].st = "save"
    /\ asking' = [asking EXCEPT ![b].st = "mail"]
    /\ UNCHANGED <<extra, cookie, page, sent, profile, links, proven, passed, used>>

Unsent == {asking[b].key : b \in {b \in Browsers : asking[b].st = "mail"}}
SaveKey(b) ==
    /\ asking[b].st = "save"
    /\ profile' = [key |-> asking[b].key, expired |-> FALSE]
    /\ asking' = [asking EXCEPT ![b].st = "mail"]
    /\ passed' = passed \cup Unsent
    /\ UNCHANGED <<extra, cookie, page, sent, links, proven, used>>

MailLink(b) ==
    /\ asking[b].st = "mail"
    /\ links' = Append(links, asking[b].key)
    /\ asking' = [asking EXCEPT ![b] = NoLink]
    /\ UNCHANGED <<extra, cookie, page, sent, profile, proven, passed, used>>

\* Of all links only that of the last save works, for an hour, and more than once.  The
\* write is not waited for.  An account without the column only gets an error.
DisableTfaByLink(b) ==
    /\ Idle(b) /\ cookie[b] = None
    /\ \E n \in 1..Len(links) : links[n] = profile.key
    /\ ~profile.expired /\ extra # None
    /\ LET x == [extra EXCEPT !.tfa = Off] IN OpenSession(b, x) /\ Send(b, "link", x, FALSE)
    /\ UNCHANGED <<extra, page, profile, links, asking, proven, passed, used>>

Expire ==
    /\ profile.key # None /\ ~profile.expired
    /\ profile' = [profile EXCEPT !.expired = TRUE]
    /\ UNCHANGED <<extra, cookie, page, sent, links, asking, proven, passed, used>>

-----------------------------------------------------------------------------
(* The settings and the profile, from the copy in the cookie. *)

CopyOf(b) == cookie[b].extra
\* The handlers change the copy in place, so that the cookie has it at once.
WriteCopy(b, kind, x) ==
    /\ Send(b, kind, x, TRUE)
    /\ cookie' = [cookie EXCEPT ![b].extra = x]

EnableTfa(b, s) ==
    /\ Idle(b) /\ cookie[b] # None /\ s \notin used
    /\ Show(b, "enable", s)
    /\ used' = used \cup {s}
    /\ UNCHANGED <<extra, cookie, sent, profile, links, asking, proven, passed>>

\* Mutation: the devices remembered with an earlier secret stay remembered.
EnableTfaVerifyKeeping(b) ==
    /\ Idle(b) /\ page[b].at = "enable" /\ CopyOf(b) # None
    /\ WriteCopy(b, "on", [CopyOf(b) EXCEPT !.tfa.secret = page[b].secret])
    /\ Show(b, "none", None)
    /\ UNCHANGED <<extra, profile, links, asking, proven, passed, used>>

\* The code of the secret that the page was made with proves that it arrived.
\* A session without a copy of the column makes the handler fail.
EnableTfaVerify(b) ==
    /\ Idle(b) /\ page[b].at = "enable" /\ CopyOf(b) # None
    /\ WriteCopy(b, "on", [CopyOf(b) EXCEPT !.tfa =
                         [secret |-> page[b].secret, user_agent |-> {}]])
    /\ Show(b, "none", None)
    /\ UNCHANGED <<extra, profile, links, asking, proven, passed, used>>

DisableTfa(b) ==
    /\ Idle(b) /\ cookie[b] # None /\ CopyOf(b) # None
    /\ WriteCopy(b, "off", [CopyOf(b) EXCEPT !.tfa = Off])
    /\ Show(b, "none", None)
    /\ UNCHANGED <<extra, profile, links, asking, proven, passed, used>>

\* The attributes are put into the copy before the form is validated, and a
\* session without a copy starts from an empty one.
UpdateInfo(b, i) ==
    /\ Idle(b) /\ cookie[b] # None
    /\ LET x == IF CopyOf(b) = None THEN [tfa |-> Off, info |-> i]
                ELSE [CopyOf(b) EXCEPT !.info = i]
           y == IF CopyOf(b) = None THEN None ELSE x
       IN \/ /\ Send(b, "info", x, TRUE)
             /\ cookie' = [cookie EXCEPT ![b].extra = y]
          \/ /\ cookie' = [cookie EXCEPT ![b].extra = y]
             /\ UNCHANGED sent
    /\ Show(b, "none", None)
    /\ UNCHANGED <<extra, profile, links, asking, proven, passed, used>>

\* A write is executed, or fails; the order is that of the connections it got.
Land(w) ==
    /\ extra' = w.to
    /\ sent' = sent \ {w}
    /\ UNCHANGED <<cookie, page, profile, links, asking, proven, passed, used>>
Lose(w) ==
    /\ sent' = sent \ {w}
    /\ UNCHANGED <<extra, cookie, page, profile, links, asking, proven, passed, used>>

Visit(b) ==
    \/ Login(b) \/ TfaVerify(b) \/ OAuthSignIn(b) \/ Logout(b) \/ ExternalLogout(b)
    \/ \E k \in Links : AskLink(b, k)
    \/ DisableTfaByLink(b)
    \/ \E s \in Secrets : EnableTfa(b, s)
    \/ EnableTfaVerify(b) \/ DisableTfa(b)
    \/ \E i \in Infos : UpdateInfo(b, i)
Serve(b) == FindOrCreateKey(b) \/ SaveKey(b) \/ MailLink(b)

FactorNext ==
    \/ \E b \in Browsers : Visit(b) \/ Serve(b)
    \/ \E w \in sent : Land(w) \/ Lose(w)
    \/ Expire

FactorSpec == FactorInit /\ [][FactorNext]_factorVars

-----------------------------------------------------------------------------
\* A browser is let in without a code only if, earlier, one with its User-Agent
\* string gave a code of the very secret that is required now: whatever copies
\* of the column are written back, and in whichever order, the secret and the
\* strings remembered with it go together.
RememberedByCode ==
    IsOn(extra) => \A a \in extra.tfa.user_agent : <<a, extra.tfa.secret>> \in proven

\* Whenever no mail is on its way, one of the links that were mailed works until
\* it expires, and it is the one mailed last: unless, between the save and the
\* mail of that one, another request saved its key and mailed it first.
LastLinkWorks ==
    links # <<>> /\ Unsent = {} =>
       /\ \E n \in 1..Len(links) : links[n] = profile.key
       /\ links[Len(links)] \in passed \cup {profile.key}
=============================================================================
