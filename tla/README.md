# Keyrock, the identity manager of oauth-fiware: a specification

This directory is a TLA+ model of the identity manager in `src/fiware-idm`
(Keyrock: Node.js, Express, Sequelize over MySQL, with scripts in its pages) and
of the capture service of the OAuth manager in `src/oauth-manager` (Java,
Spring). TLC checks the model on small instances; TLAPS proves nearly all the
safety properties for every value of the constants.

Contents: [the system](#1-the-system) · [the modules](#2-the-modules) ·
[the runs](#3-the-runs) · [what is proved](#4-what-is-proved) ·
[what the code does that its documents do not say](#5-findings) ·
[not modelled](#6-not-modelled) · [the plan](#7-the-plan)

## 1. The system

Keyrock is one Node.js process. Every HTTP request is a chain of callbacks;
between two database calls any other request may run, so the unit of atomicity
is *the code between two awaited database calls*, and one database statement.
State lives in four places: the tables, the cookie of each browser session
(signed, client side, holding a *copy* of the user's row), the heap of requests
in progress, and the globals of the scripts of a page. There are no
transactions. Foreign keys cascade.

| component | state it keeps | operations | what makes it correct | module |
|---|---|---|---|---|
| OAuth2 server (`models/model_oauth_server.js`, `controllers/oauth2/oauth2.js`) | codes, refresh and access tokens | token (five grants), authorize, enable_app, bearer check, revoke | nothing is issued for a spent, revoked or expired string; a row's owners agree with those it came from; what is answered is stored; a revocation sticks | `OAuthTokens` |
| consents (`user_authorized_application`) | user-application pairs | recorded by two OAuth2 endpoints, withdrawn on the profile page | a client holds a user's token only with the user's consent | `OAuthTokens` |
| accounts (`users.js`, `settings.js`, `list_users.js`, REST `users.js`) | users, registration profiles with the keys of mailed links | sign up, activate, resend, reset, change e-mail and password, cancel; administrators create, edit, enable, delete | one account per address; a link serves only the account it was made for; everybody is answered | `Accounts` |
| web sessions, second factor (`sessions.js`, `settings.js`) | cookie, `user.extra.tfa` with remembered User-Agent strings | login, code check, enable, disable, mailed link, profile page | a browser skips the code only if one with its User-Agent string gave a code of the present secret | `TwoFactor` |
| API tokens (`controllers/api/authenticate.js`) | auth_token | create by password, token or both; information; deletion; use | a token works until its expiry and only for its owner | `ApiTokens` |
| shared tables and the check of permissions (`models.js`, `check_permissions.js`) | organizations, members, applications, roles, permissions, assignments, agents, proxies, trust | cascades; the middleware before every handler | who is let in is who holds a role with the permission | `Directory` |
| organizations, members, administrators | user_organization, `user.admin` | create with owner, replace all members, leave, delete | dialogs saved undisturbed leave what they say; nobody is twice a member | `Organizations` |
| applications, IoT agents, PEP proxies, trusted applications | oauth_client, iot, pep_proxy, trusted_application | create with provider, edit, token types, secrets, delete | a new application has its provider or is destroyed | `Applications` |
| roles, permissions, assignments | role, permission, role_permission, role_assignment | edit sets of rows by destroy and bulkCreate | concurrent editors leave no row that refers to a missing one; nobody has a role in an application whose role it is not | `Roles` |
| authorization decision (`create_oauth_response`, `authenticate_oauth.js`) | none | roles of a token, Permit or Deny of an action | permit exactly when a role grants it | `Decisions` |
| dialogs in the browser | the list to post and the rows on the page | open, add, remove with a fade, assign roles, save, leave | what is posted is what the rows hold | `Dialogs` |
| page of roles, permissions, policies | the global `application`, marks | click, create, rename, delete, save | what is stored is what was chosen | `RolesPage` |
| page of accounts | arrays `users`, `users_filter`, `users_selected` | create, edit, enable, delete, select, filter, page | the page says what the server says | `AccountsPage` |
| lists (fourteen scripts) | rows, pager, filter | load, filter, turn a page, open a tab, select an organization | rows are those of what was asked for last | `Lists` |
| OAuth manager's captures (Java) | lists of packets and captures in memory | capture by a page or a listener, retries, clearing | a packet is shown once, captures return | `Capture` |

How they interact: the OAuth2 server reads users, agents and applications and
loses its rows by cascade when they are deleted; accounts and OAuth2 share the
user table; the settings pages and the login write `user.extra` from copies in
the cookie; roles, members, applications and decisions read and write one set of
tables, each request through the same check of permissions; administrators and
the REST API change what web handlers of the same moment have already read; the
scripts of the pages post whole lists, which the handlers delete and create.

The hard behaviours, each listed with its line in PROJECT.json under `hazards`:

* **writes nobody waits for** - the `save()` of a revoked row
  (`model_oauth_server.js:189, 224, 260`), a remembered device
  (`sessions.js:428`), a withdrawn consent (`users.js:1205`);
* **check, then act** - two exchanges of one code, two rotations of one refresh
  token, `isUnique` of an address, the two steps of a mailed link, a membership
  that is looked for before it is created;
* **several writes for one operation, without a transaction** - refresh row,
  access row and consent of `storeToken`; account and profile of a sign-up;
  an application and its provider; destroy and bulkCreate of assignments;
* **rows found by something that changes hands** - registration profiles and
  links are found by e-mail address, `revokeAccessToken` finds *one* row;
* **several reads for one decision** - memberships, roles and permissions are
  read by three statements;
* **errors that are swallowed** - `storeToken` logs and answers, promises that
  are neither returned nor caught leave a request without an answer;
* **answers in any order in the browser** - nothing numbers or cancels a
  request, and callbacks read globals that changed meanwhile;
* **lists shared by threads** - the capture service appends to and iterates a
  list without a guard, and starts over whatever fails.

## 2. The modules

| module | role |
|---|---|
| `OAuthTokens`, `TokenLife` | the OAuth2 endpoints; what a client may rely on about a string it is handed (abstract specification) |
| `Accounts` | accounts, profiles, mailed links |
| `TwoFactor` | the second factor of one account on several browsers |
| `ApiTokens` | tokens of the REST API; implements `TokenLife` too |
| `Directory` <- `Organizations` <- `Applications` <- `Roles` <- `Decisions` <- `Keyrock` | the shared tables and the check of permissions; the handlers of each controller, in one chain of EXTENDS; `Keyrock` puts them together and states the properties |
| `Browser` <- `Dialogs`, `RolesPage`, `AccountsPage`, `Lists` | the scripts of the pages, each on its own |
| `Capture` | the OAuth manager's captures |
| `Positions` | parts of a sequence, written so that they can be reasoned about |
| `MCOAuthTokens`, `MCAccounts`, `MCKeyrock` | constants a .cfg cannot write, symmetry, scenarios |
| `MCServer` | `TwoFactor`, `ApiTokens`, `Capture`, which share no table, one at a time |
| `MCBrowser` | the four browser modules, one at a time |
| `OAuthTokens_proofs`, `Accounts_proofs`, `Server_proofs`, `Keyrock_proofs`, `Requests_proofs`, `Dialogs_proofs`, `Pages_proofs`, `Positions_proofs` | theorems ([section 4](#4-what-is-proved)) |

`MCServer` and `MCBrowser` EXTEND their modules, so that the properties of a run
are the modules' own definitions, the ones the theorems are about. The variable
`part` is chosen in the initial state; the module of that part moves and the
others stay in an initial state. Where parts need different bounds the
constraints `Bounds` (`MCServer`) and `Careful` (`MCBrowser`) say where each of
them stops: the second factor with and without its mailed links, API tokens
with and without changing passwords, captures one after the other and two that
overlap.

### OAuthTokens

Every HTTP request is a process `r` with a record `req[r]` (what it has read,
what it still has to write), and each awaited database call is an action. So
`FindCode` is `getAuthorizationCode`, `RevokeAuthorizationCode` is
`revokeAuthorizationCode`, `Mint` is what `saveToken` does before its first
write, `CreateRefresh`, `CreateAccess` and `RecordConsent` are the three writes
of `storeToken` in the order its promises allow (the access row waits for the
refresh row, the consent waits for neither), `AnswerToken` is the last `then`.
`row` holds the three token tables keyed by their strings; a row is `free`,
`minted` (generated, not inserted), `live` or `gone`. `saves` is the set of rows
whose `valid = false` was sent and not awaited; `SaveLands` and `SaveLost` are
its two ends. `clients`, `users`, `iots` and `consents` are the parent tables;
deletions cascade as the migrations say. `known` collects the strings that were
answered to somebody: a request presents only those. `late` and `hit` are
history variables of a request.

The package `oauth2-server` is not in the repository. What it does between calls
of the model's functions is taken from what those return; where that does not
decide it, both are allowed (comments at `FindCode`, `RotateRefreshToken`,
`RevokePresented`). `Fresh`, the generation of random strings, is marked
external in the map. A scope that `validateScope` refuses is answered without
any change of state, so such a request takes no step.

### Accounts

`user` is the user table, `prof` the registration profiles (found by address, in
any of the rows with it), `issued` the mailed links by key, `session` the
copy of id and address in each cookie. A handler is cut at every database call:
`ValidateSignUp`, `InsertUser`, `FindProfile`, `CreateProfile` or `SaveKey` is a
sign-up; the same three last actions end a password request and an e-mail
change. `MoveEmail` and `RemoveUser` carry the `ON UPDATE` and `ON DELETE
CASCADE` of the profile. `enabledBy`, `passBy` and `emailBy` are history: the
key of the link that made the last change. A request that no path of the code
answers ends in the stage `hung`.

### TwoFactor

`extra` is the column of the one account whose second factor this is; `cookie`
has each browser's copy of it; `sent` the writes that have not been executed,
which land in any order or fail. Every page that writes the column writes all of
it from its copy: turning the factor on and off, remembering a device and saving
the profile. What the code remembers as a device is the User-Agent string of the
request, so `AgentOf` gives each browser its string and several may send one: a
second browser with a remembered string is let in without a code, in the code as
in the model. `links` is the mailbox, `profile` the one stored key. A request for
a link finds or makes the row (`FindOrCreateKey`), saves its key (`SaveKey`) and
mails it (`MailLink`), and others come in between each two; `passed` (history)
has the keys whose mail was still to come when another key was saved, whose links
may be the last to arrive and do not work. That saving a profile from an old copy
turns the factor off again is in the model, and no document says otherwise; what
holds, and is checked, is that the secret and the strings always go together.

### ApiTokens

A request looks up identity, password and token at the same time (`SearchIdentity`
and `AuthenticateUser` against `SearchTokenOwner`), `CompareMethods` joins them,
`CreateToken` inserts and is refused by the foreign key when the owner is gone.
`known` is history: who the request has shown to be, by which means. Owners,
passwords and tokens change at any time.

### Directory and Keyrock

One record per table: `row` says of each id whether its row exists, `of` its
application, `member`, `assign`, `grant`, `trust` the tables of links (`assign`
and `grant` count, since nothing makes their rows unique). `req[r]` is a
request with what it has read so far. `quiet` is history: nothing was written by
anyone else since the request began. `Check` is the middleware (application,
memberships, roles, permissions), for the pages and for the API. A dialog's
handler is at least two actions, the destroy and the create; foreign keys refuse
a create as a whole. `Scenarios` says which kinds of requests meet and which
rows there are: a model of all kinds at once is out of TLC's reach, and two
handlers that write no common row do not disturb each other.

Which rows and roles a dialog may change depends on who edits (`changeable`): the
handler leaves the roles the editor may not assign. The forms of the pages name
any rows there are (`AnyRole`, `AnyPerm`), of other applications too, as well as a
user of an organization twice (`MemberForms`): `authorize_users` and
`authorize_organizations` take only the roles they found for the application,
`add_members` turns the duplicate down, and `role_permissions_assign` stores the
ids as they come. So the role of one application can have a permission of another;
`RowsFit` says only of assignments that they stay within an application. The API's handlers have
loaded role and permission as the application's.

### Dialogs, RolesPage, AccountsPage, Lists

The state is that of the globals and the rows of a page, the actions are event
handlers, timers and arriving answers. `Dialogs` keeps, next to the rows, the list
that is posted; removed rows fade for half a second (`fades`) and a global `row`
is read when that ends. A row that is added before the roles of the application
have come has none to choose (`offers`): if the answer lists it, it shows no role
and what was listed is posted; and the filter hides rows (`filtered`), which are
posted all the same. `RolesPage` keeps which element has the class
"active", because clicks are interpreted by it; the server reads (`ReadRoles`,
`ReadPolicies`) before its answer comes, and what is created in between is lost
from the arrays while its row (`rendered`) stays. `AccountsPage` includes the
handlers of `list_users.js` it calls (`Serve`); nothing keeps a form from being
sent a second time before it is answered (`Again`). `Lists` has the fourteen scripts
that fill a list, with `jquery.bootpag` as an external; rows of the server keep a
fixed order, and the copies of one request that a redrawn pager sends are one.

These scripts do go wrong in ways a person can cause, so the properties name
exceptions as history variables, and the comment of each says what it excepts:

| variable | module | what happened |
|---|---|---|
| `hasty` | Dialogs | changes while an answer was still to come; a click on a fading row, or elsewhere before it is gone |
| `rash` | RolesPage | policies answered before roles; a role or a policy created before the answer that lists its like, a role deleted before the policies are listed; clicks on permissions between the renaming of a role and the next click on a role; deletion of a role that has policies |
| `late` | Dialogs | a dialog was closed before its answer |
| `careless` | AccountsPage | a dialog was left before its answer, an address was refused, or images could not be deleted |
| `repeated` | AccountsPage | a form was sent again before the same form's last answer: the second answer throws or takes what was ticked meanwhile (`ListAgrees` only) |
| `tired` | AccountsPage | a deletion failed, or left one of two filtered rows of an account, which an account created while the filter's timer ran has (`TicksAgree` only) |
| `passed` | TwoFactor | a request for a link saved its key between the save and the mail of another |
| `overlapped`, `astray` | Lists | two requests for one list on their way at a time; a page was turned where the script forgets the filter |
| `overlapped`, `cleaned` | Capture | two captures at the same time; the list of captures was cleared, so identifiers began again |

### Capture

`file` is what tcpdump has written, `allPcapFiles` the list of lines and marks of
the process, `task` what each capturing thread does: `Open` skips the packets
below the length of the list, `nextPacket` appends, `PrintMarks` and `AddFound`
iterate (and start over when the list changed meanwhile), `verifyVulnerabilities`
throws for a request without parameters. Of the two files, for http and https, one
is captured; a payload is added once for each text looked for that it contains,
and those of a flow's requests contain one. `AddLine` may lose an element when
another thread adds at the same time. Attempts are bounded by `MaxTries`, faults
of the file by `MaxFaults`.

## 3. The runs

All bounds are CONSTANTS of the configuration. Deadlock is not checked: in a
finite instance the strings, keys, rows and clicks run out (guards `Room`,
`RoomFor`, `Free`, `MayAct`), which the program's random strings never do.

| run | instance | what it shows |
|---|---|---|
| `code` | 1 user, 1 client, 1 agent, 1 code, 2 refresh and 3 access tokens, 2 concurrent requests, clock 0..1, deletion of user and agent | `TypeOK`, `OwnersAgree`, `NothingFromTheDead`, `AnsweredTokensStored`; the tables implement `TokenLife` (`TokensLive`) |
| `answers` | 2+2 tokens, 2 requests, fairness | one access token per refresh token (`OneAccessPerRefresh`), so a revocation that looks for one row covers all (`RevocationCovers`); every request is answered (`RequestsAnswered`), and a revocation takes effect for good (`RevocationSticks`) |
| `consent` | implicit, password and client grants, permanent tokens, jwts, refused writes, deletion of the client | a known token comes with a consent (`TokensConsented`) |
| `links` | 2 accounts, 2 addresses, 2 keys, 2 requests of every kind, edits, deletions | `TypeOK`, `EmailsUnique`, `ProfilesOwned`, `LinksServeTheirAccount` |
| `answered` | fairness, accounts without profiles, links that expire | `LinksAnswered` |
| `directory` | 2 users, organizations, applications, roles, permissions, agents, 1 proxy; 2 requests; several dozen scenarios: each kind together with one that writes the same rows, and deletions of accounts | `RowsFit` (with the types), `CheckExact`, `DecisionExact`, `SavedAsPosted`, `CreationsComplete`, `MembersOnce` |
| `allowed` | fairness; 2 requests through the check while roles and members change | `AllowedAnswered` |
| `server` | second factor in 2 browsers with one User-Agent string and 2 secrets, and in 2 with different ones and 2 mailed links; 2 users, a proxy, 2 API tokens and one request at a time among owners, passwords and tokens that change; a page and a listener that capture 3 times, 1 fault | `RememberedByCode`, `LastLinkWorks`; `KeptToOwners`, `ApiTokensLive` (a refinement of `TokenLife`), `CallsAnswered`; `KeptOnce`, `CapturedOnce`, `KeptIsShown`, `ShownSinceBegun`, `CaptureReturns` |
| `pages` | dialogs with 2 things and 3 rows, opened twice; 3 roles; 2 accounts of 3 names; 3 items on pages of 1 | `PostedAsShown`, `UntouchedKept`; `SavedAsChosen`, `MarksAgree`; `ListAgrees`, `TicksAgree`; `ShownAgrees`, `Reachable` |
| `revoked_when_answered`, `email_link`, `refused` | expected violations | see [findings](#5-findings) |

Why the bounds are enough: every race in the server is between two requests, or
a request and a deletion; two requests and one string more than one request uses
let each of them interleave at every database call. Three access tokens let a
refresh token be rotated and still be presented. Two accounts and two addresses
are the least that lets an address change hands. A clock of two instants
separates before and after an expiry; the runs in which no property is about
expiry stop it. Two browsers are the least that gives a copy the chance to be
stale, and two requests for a link the least that cross between save and mail.
In the browser the races are between one person and the answers: two
requests in flight come in both orders, and pages of one item make two items a
pager. Three items are the least at which a page between two others exists.

Constraints: `OneDecision` leaves out two decisions at the same time (they only
read), `Bounds` and `Careful` do not follow behaviours after an exception from
the table above, which the properties do not speak of any more. Symmetry
is used only for strings, keys, accounts and requests that a module treats
alike, and never in the runs with liveness.

Fairness: `WF` of each request's next step, because Node's event loop runs every
callback that is ready and every database call ends, and `WF` of `SaveLands`,
because a statement that was sent is executed; in `ServerSpec` likewise `WF` of
`Handle` for each request of the API and of `Step` for each capturing thread, as
threads are scheduled by the JVM. Arrivals, deletions,
ticks, clicks and failures have no fairness. Nothing needs strong fairness: a
request's step is never disabled by another request except by being taken.
`CaptureReturns` counts on at most `MaxFaults` failures of the file and excepts
what the code does not end: a request without parameters makes the analysis of a
listener throw for ever, and two captures that add to the list in turn make each
other start over.

Each property has a mutant, a plausible slip in the mapped definition, named in
PROJECT.json; the run finds the property violated with it. The mutated
definitions stand before the ones they replace, marked "Mutation".

## 4. What is proved

Each theorem is about the specification of its module (`Spec`, `FactorSpec`,
`ApiSpec`, `CaptureSpec`, `DialogsSpec`, `RolesSpec`, `AccountsPageSpec`,
`ListsSpec`), for every value of the constants that meets the module's
assumption, so for any number of users, strings, requests, rows and clicks, and
names the definition that a run checks
on a small instance. Nothing is assumed beside those assumptions:

| assumption | what it says, and why the code justifies it |
|---|---|
| `OAuthAssumption`, `AccountsAssumption`, `FactorAssumption`, `ApiAssumption`, `CaptureAssumption` | random strings of different tables differ, `None` (null, undefined) is no string or id, lifetimes and bounds are naturals |
| `DirectoryAssumption` | ids of different tables are different uuids |
| `RolesAssumption`, `AccountsPageAssumption` | the same; permissions, policies and users are finite sets; a page has at least one row |
| `DialogsAssumption` | things and roles are finite sets; the dialogs are the five that there are; `None` and `NaN` are no numbers |
| `ListsAssumption` | items and tabs are finite sets; a page has at least one row; there is an organization in the select, which the page has only for a user who is in one; a page of tabs has the tab that it opens with |

| module | theorem | property |
|---|---|---|
| `OAuthTokens_proofs` | `TypeCorrect`, `NoGrantFromTheDead`, `Implements` | `TypeOK`, `NothingFromTheDead`, `TokensLive` (refinement of `TokenLife`) |
| | `TokensHaveOwners`, `OneAccessToken`, `RevocationIsComplete`, `ConsentComesFirst`, `AnswersAreStored` | `OwnersAgree`, `OneAccessPerRefresh`, `RevocationCovers`, `TokensConsented`, `AnsweredTokensStored` |
| `Accounts_proofs` | `AccountsTypeCorrect`, `OneAccountPerAddress`, `ProfilesHaveOwners`, `LinksServe` | `TypeOK`, `EmailsUnique`, `ProfilesOwned`, `LinksServeTheirAccount` |
| `Server_proofs` | `FactorTypeCorrect`, `AgentsGaveTheirCode`, `LastMailWorks` | types, `RememberedByCode`, `LastLinkWorks` |
| | `ApiTypeCorrect`, `TokensKeptToOwners`, `ApiImplements` | types, `KeptToOwners`, `ApiTokensLive` (refinement of `TokenLife`) |
| `Keyrock_proofs` | `RowsAlwaysFit` | `RowsFit` |
| `Requests_proofs` | `ChecksAreExact`, `DecisionsAreExact`, `DialogsSaveTheirForm`, `CreationsAreComplete`, `MembersAreThereOnce` | `CheckExact`, `DecisionExact`, `SavedAsPosted`, `CreationsComplete`, `MembersOnce` |
| | `CaptureTypeCorrect`, `ShownIsNewer`, `NoPacketTwice`, `NoPacketInTwoCaptures`, `NoRequestLost` | types, `ShownSinceBegun`, `KeptOnce`, `CapturedOnce`, `KeptIsShown` |
| `Dialogs_proofs` | `DialogsPostTheirRows`, `WhatIsNotTouchedIsKept` | `PostedAsShown`, `UntouchedKept` |
| `Pages_proofs` | `PageSavesTheChoices`, `MarksSayWhatAClickDoes` | `SavedAsChosen`, `MarksAgree` |
| | `TicksAreTheSelection`, `ThePageIsTheTable` | `TicksAgree`, `ListAgrees` |
| | `ListsAreWhatIsAsked`, `EveryItemHasAPage` | `ShownAgrees`, `Reachable` |

None of the properties is inductive alone. What each needs, and why:

* **`OAuthTokens_proofs`.** `IInv` adds to `TypeOK`: `KindOK`, which kind of string
  a request presents; `MintOK`, that the strings a request still has to insert
  are minted, and for it alone; and `LateOK`, how far a request that came too late
  gets. The argument: *dead stays dead*. `RowStep` shows that each step changes a
  row only along free – minted – live – gone and never makes `valid` true again,
  `DeadStable` that therefore nothing dead becomes usable. `RowStep` also gives
  the refinement: an insertion is an `Issue` of `TokenLife`, an expiry, a
  revocation or a deletion a `Retire` of a set, all others stutter. `TInv` holds
  the rest: what each stage has in its hands (`HeldOK`, `CodeOK`), which rows of a
  pair are already there (`PairOK`, `ShapeOK`), what a revocation has hit
  (`HitOK`), that the consent is written or on its way (`ConsentOK`).
* **`Accounts_proofs`.** The heart of `IInv` is `KeysOwned`: a key in a profile was
  mailed for the account that has the profile's address *now*. It makes a look-up
  by address find the right account (`FoundIsOwners`), and needs `EmailsUnique`,
  so that the join has one account to find, and the two cascades, so that
  profiles follow an address that moves (`Moved`) and die with their account.
* **`TwoFactor`.** `FInv` says of *every* copy of the column (in the database, in a
  cookie, on its way there) what the property says of the column (`CopiesOK`),
  since any of them may be written back at any time. `LastLinkWorks` follows from
  `MailedOK`: the stored key was mailed or is about to be, and every other one about
  to be has been passed.
* **`ApiTokens`.** `AInv`: what a request has read was true when it read it, and of
  tokens stays true, because they only go from unborn to live to dead (`RowsOK`,
  `CallsOK`). The refinement is the argument of `OAuthTokens_proofs`.
* **`Keyrock_proofs`.** `KInv` holds for each table what links its rows to others
  (`OfFits` … `AdminFits`) and, for every request, that ids named together belong
  together for good (`ParamsOK`), what a stage may take for granted (`StageOK`) and
  that no row is created by two requests (`CreatorsOK`). A cascade or a refused
  foreign key answers each deletion that comes between two steps of a handler.
* **`Requests_proofs`.** `RInv` says of a request that nobody disturbed what each of
  its stages has established so far (`Exact`), which is the property at the last
  one. `MInv` needs no quiet: who found, or made sure, that an organization has no
  members holds a ticket that a second destroy takes away (`TicketsOK`).
* **`Capture`.** `SinceOK`, `OnceOK` and `ShowsOK` relate a position in the
  list to the number of the packet, the marks before and after it and the
  captures that showed it. While captures of one type do not overlap, a packet
  between a capture's two last marks is that capture's own.
* **`Dialogs_proofs`.** `DInv`, until the person is hasty: a row is known by its number
  (`NumbersOK`), and one that fades was touched and, but for members, is the only one
  (`FadesOK`), so that the callback of a fading, which removes whatever `row` holds by
  then, removes nothing that is shown. The array is that of the marks in the rows
  that have not gone, or of what was listed for rows without roles to mark
  (`Agree`, `OffersOK`): in the dialog of members at all times, in those of roles
  once the answer has replaced it, and there the counts, by which the rows without a
  role are found, are those of the marks (`MembersOK`, `AssigningOK`). `Kept` says of
  what is not touched that it is as the answer listed it. For roles `late` is
  needed: leaving keeps the array and forgets the counts.
* **`Pages_proofs`, page of roles.** `RInv`: once the answers are there, the page's
  copies of the rows are those of the server but for the choices, each listed
  once (`PermitsOK`, `UsesOK`), and the marks are those of the role that is shown
  (`ShownOK`); before, there is nothing to click (`NotYet`). What the server has read
  and not yet answered is what it would read now (`ReadOK`), as whatever changes the
  tables in between is rash, and the rows are those of the arrays (`RenderedOK`).
* **`Pages_proofs`, page of accounts.** `PInv`: the rows are of users of the page, and
  what is ticked is what is selected (`RowsOK`, `SelectionOK`). `GInv`: a dialog's
  request is on its way only while the dialog is open (`DialogOK`), an account that
  is being created has no other request (`AloneOK`), and where server and page
  differ they do by exactly what a request that was served and not yet answered
  says (`SameUsers`, `SameRecords`); with no request on its way nothing is left.
  Deletions take those selected *now*, so `GInv` needs that the selection cannot
  change while a deletion is on its way: its dialog covers the rows.
* **`Pages_proofs`, lists.** `LInv` says that, until two requests for one list
  overlap, at most one request is on its way for each list (`Alone`;
  of tabs, one for each), and that what its answer will be of, and which filter it has
  forgotten, are known from the request (`PagedAwaits` and its like for the other
  kinds of list); with none on its way the rows are the page of what is stored
  (`PagedSettled`). It needs `Reach` all along: that the pager has pages enough
  before a filter is taken away again, that the number of all tabs' items
  (`OfAnyRole`) is at least that of each, and that a tab which is open and not
  loaded has its request on the way.

SelectSeq, folds and the like take an operator, which the provers do not expand,
and recursive functions they compute one step at a time. The modules that are
reasoned about use `SelectPositions` instead, a recursive function whose
properties `Positions_proofs` proves by induction over a set of numbers (the
library's theorem that Nat is well-founded, `AllNumbersIn`): what is selected is
there, in its order (`Selects`), each once if it was there once (`EachOnceOmit`).
`Like` of `Lists` is written with it, and `OfAnyRole` counts a union.

Attempts that failed have corrected the model or the properties:

* `ShownSinceBegun` is false when two captures of one type run at once, since a
  mark carries the type only; it now excepts exactly that;
* `SavedAsPosted` said less than the code does and was strengthened, and
  `LastLinkWorks` said more: a mail may follow another's save (`passed`);
* `PostedAsShown` claimed that a dialog posts what is on the screen, which rows
  without roles to choose and rows that the filter hides refute; it now speaks
  of the rows;
* `ListAgrees` and `MarksAgree` left out forms that are sent twice and creations
  before the first answers, which the scripts allow; they are in the model now,
  and excepted by name;
* `SubmitCreate` let a new account have the identifier of one that was deleted
  while a request about it was still on its way, which uuids do not; the
  difference shows only with three requests, one more than the run allows.

What stays with TLC: liveness (`RequestsAnswered`, `RevocationSticks`,
`LinksAnswered`, `AllowedAnswered`, `CallsAnswered`, `CaptureReturns`), since
fairness and ENABLED are beyond the prover; and the expected violations. Every
safety property of the passing runs has its theorem.

## 5. Findings

Each is a run that TLC must find violated, with the line that says otherwise
quoted in PROJECT.json:

* `revoked_when_answered`: the 200 of a revocation can come before the row is
  written, because the `save()` is not awaited;
* `email_link`: a confirmed change of address is applied to whoever has the old
  address when the update runs;
* `refused`: an account whose address the list of domains refuses is answered
  "User creation failed." and created all the same (`list_users.js:64`; the edit
  of an account too, `:153`).

Known from the model, without a run of their own:

* an IoT agent gets a refresh token that is always refused (`FindRefresh`;
  `model_oauth_server.js:515`, against `oauth_documentation.md:156`);
* of two sign-ups with one address at the same moment the second is never
  answered (the stage `hung`; `users.js:600`);
* an activation link that is sent again to an account without a profile never
  works (`UpdateKeys`; `users.js:976`);
* a sign-up whose account was given another address before its profile is
  written puts its key into the profile of whoever has the address by then
  (`CreateProfile`); the link still serves only that account, which is why
  `LinksServeTheirAccount` speaks of the profile the key was put in;
* whoever is refused a permission on the pages is never answered
  (`check_permissions.js:74`; the stage `silent` of `Directory`);
* when the owner's row of a new organization fails, its handler throws and
  nothing is answered (`organizations.js:230`);
* two registrations of a PEP proxy at once make two (`pep_proxies.js:24`), and two
  requests of the API that add one member write it twice
  (`user_organization_assignments.js:82`);
* of two changes of token types at once one is lost (`SetToken`);
* the count of a list does not look at the role that is asked for
  (`search_distinct.js:51`): the pager has pages with nothing on them;
* in the browser, what the table of exceptions in section 2 lists.

## 6. Not modelled

* **eIDAS and SAML** (`lib/saml2.js`, `controllers/saml2`): signing and encryption
  of XML for an external federation; no state of its own.
* **Start-up, configuration, connection to the database**: reading of environment
  variables and a bounded number of attempts, before there is any concurrency.
* **E-mail, images, notifications, home page, views, themes**: input and output.
* **Forms, avatars, the guided tour, vendored scripts** (`summernote`, `timepicker`,
  `sockjs`): a form with one request and one answer, or third-party code.
* **AuthZForce and the PTP**: external servers; only what Keyrock decides by itself
  is modelled.
* **The OAuth manager's browser tasks, the dummy client, server and https front
  end**: scripts and stand-ins for experiments with constant answers.
* **Jwts and id tokens as tokens**: a jwt is answered without a row of its own, and
  its later use is not modelled. For a jwt the refresh row is created without
  being awaited (`model_oauth_server.js:340`); nothing relies on it.
* **Data**: names, descriptions, wording, layout; of a scope only whether it is
  valid (`model_oauth_server.js:846` splits the first element only; `FindCode`
  keeps both outcomes); passwords are right or wrong, or one of two.
* **Order of rows** (`search_distinct.js:48` pages a query without an order): the
  rows of `Lists` keep theirs.
* **Failure of the process**: the only state that survives it is the tables, and a
  request that died with it is one that takes no more steps, which the safety
  runs include.
* The withdrawn consent that is not awaited before the list of consents is read
  (`users.js:1205`): the page is presentation; withdrawals at any time are in
  `OAuthTokens`. A password reset for an address without profile is never
  answered (`users.js:887`); no document promises an answer and `LinksAnswered`
  leaves it out. The older interface asks of an OAuth token only whether it has
  expired (`authenticate_oauth.js:192`).

`findOrCreate` of a consent is one step, because its key is the pair; that of a
registration profile is two, because no index makes the address unique there.

## 7. The plan

The model is as wide as the code allows, and each of its safety properties and
refinements is proved. What could still be added are theorems that no run needs:
that `Keyrock`, `Dialogs` and the pages keep their types (the proofs contain it, in
`KInv`, `DialogTypes` and their like), and what the exceptions of section 2 leave
true, of someone who is hasty in one dialog and not in the next.

Liveness (fairness and ENABLED) stays with TLC.
