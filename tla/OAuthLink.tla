----------------------------- MODULE OAuthLink -----------------------------
(***************************************************************************)
(* Login through an OAuth provider: the cookies of a flow, the callback,   *)
(* and the resolution of the provider's identity to a local account        *)
(* (server/internal/auth/oauth.go, api/handlers_oauth.go).                 *)
(*                                                                         *)
(* The identity's link and the account with its email are read on the read *)
(* pool; the link or the new account is written in a later transaction.    *)
(* A flow's random state, its PKCE verifier and the provider's code for it *)
(* are numbered alike: flow n has state n, verifier n and code n.          *)
(***************************************************************************)
EXTENDS Naturals, FiniteSets, TLC

CONSTANTS
  Calls,       \* bound: requests in flight
  Browsers, Idents,
  Locals,      \* the local parts of emails, as deriveUsername makes them user names
  Domains,     \* their domains
  MaxFlows,    \* bound: flows ever started
  MaxUsers,    \* bound: account ids
  MaxSuffix,   \* bound: number after a user name, 0 for none
  ChecksPKCE   \* whether the provider compares the verifier with the challenge

NoCall == [phase |-> "none"]
Emails  == Locals \X Domains
NoEmail == <<>>
Local(email) == email[1]     \* deriveUsername
Ids   == 1 .. MaxUsers
Flows == 1 .. MaxFlows
Names == Locals \X (0 .. MaxSuffix)

VARIABLES
  users,    \* id |-> [name, email, oauth]; oauth: made here, without a usable password
  links,    \* user_oauth: identity |-> user id (the pair is UNIQUE)
  cookies,  \* the flow whose state and verifier each browser holds, or 0
  flows,    \* number of flows started
  starter,  \* flow |-> the browser that started it
  codes,    \* the provider: flow |-> identity, for codes not yet exchanged
  calls,    \* requests in flight
  proved,   \* history: emails the provider has vouched for, per identity
  opened    \* history: <<browser, flow>> of every session opened

vars == <<users, links, cookies, flows, starter, codes, calls, proved, opened>>
tables == <<users, links>>
flow == <<cookies, flows, starter, codes>>

Empty == [x \in {} |-> 0]
Without(f, x) == [y \in DOMAIN f \ {x} |-> f[y]]
With(f, x, v) == [y \in DOMAIN f \cup {x} |-> IF y = x THEN v ELSE f[y]]

Init ==
  /\ users = Empty /\ links = Empty
  /\ cookies = [b \in Browsers |-> 0]
  /\ flows = 0 /\ starter = Empty /\ codes = Empty
  /\ calls = [c \in Calls |-> NoCall]
  /\ proved = [i \in Idents |-> {}] /\ opened = {}

Become(c, call) == calls' = [calls EXCEPT ![c] = call]
\* An INTEGER PRIMARY KEY is one more than the largest in use: a deleted last id returns.
NextId == IF users = Empty THEN 1
          ELSE 1 + CHOOSE n \in DOMAIN users : \A m \in DOMAIN users : m <= n
Has(name) == \E u \in DOMAIN users : users[u].name = name
OfEmail(email) == {u \in DOMAIN users : users[u].email = email}

-----------------------------------------------------------------------------
(* The administrator's requests about accounts, one statement each *)

CreateUser(c, name, email) ==
  /\ calls[c] = NoCall
  /\ NextId \in Ids                                  \* bound
  /\ ~Has(name) /\ OfEmail(email) = {}               \* UNIQUE, UNIQUE
  /\ users' = With(users, NextId, [name |-> name, email |-> email, oauth |-> FALSE])
  /\ UNCHANGED <<links, flow, calls, proved, opened>>

\* The links go with the account (ON DELETE CASCADE).
DeleteUser(c, u) ==
  /\ calls[c] = NoCall
  /\ u \in DOMAIN users
  /\ users' = Without(users, u)
  /\ links' = [i \in {j \in DOMAIN links : links[j] # u} |-> links[i]]
  /\ UNCHANGED <<flow, calls, proved, opened>>

-----------------------------------------------------------------------------
(* The browser and the provider *)

\* handleOAuthStart: a new state and verifier, which replace those of another tab.
Start(b) ==
  /\ flows < MaxFlows                                \* bound
  /\ flows' = flows + 1
  /\ cookies' = [cookies EXCEPT ![b] = flows + 1]
  /\ starter' = With(starter, flows + 1, b)
  /\ UNCHANGED <<tables, codes, calls, proved, opened>>

\* External: somebody signs in at the provider, which issues the code of the flow.
Authorize(f, ident) ==
  /\ f \in 1 .. flows /\ f \notin DOMAIN codes
  /\ \A p \in opened : p[2] # f
  /\ codes' = With(codes, f, ident)
  /\ UNCHANGED <<tables, cookies, flows, starter, calls, proved, opened>>

\* External: what the token endpoint requires of a code and the verifier sent with it.
Accepts(f, verifier) == f \in DOMAIN codes /\ (ChecksPKCE => verifier = f)

\* Mutant of Returned: any state will do while the browser holds a cookie.
ReturnedAny(b, f) == cookies[b] # 0

\* The callback's guard: state and verifier cookies are there, the state is the cookie's.
Returned(b, f) == cookies[b] # 0 /\ cookies[b] = f

\* handleOAuthCallback and ExchangeAndFetch: the code becomes the identity and what
\* the provider says of its email.
Callback(c, b, f, email, verified) ==
  /\ calls[c] = NoCall
  /\ Returned(b, f)
  /\ Accepts(f, cookies[b])
  /\ codes' = Without(codes, f)
  /\ Become(c, [phase |-> "fetched", browser |-> b, flow |-> f, ident |-> codes[f],
                email |-> email, verified |-> verified])
  /\ proved' = IF verified THEN [proved EXCEPT ![codes[f]] = @ \cup {email}] ELSE proved
  /\ UNCHANGED <<tables, cookies, flows, starter, opened>>

\* A callback with another state, or whose exchange fails, is refused; both cookies
\* are cleared by every answer, this one too.
RefuseCallback(c, b, f) ==
  /\ calls[c] = NoCall
  /\ ~Returned(b, f) \/ ~Accepts(f, cookies[b])
  /\ Become(c, [phase |-> "refused", browser |-> b, flow |-> f])
  /\ UNCHANGED <<tables, flow, proved, opened>>

-----------------------------------------------------------------------------
(* LoginWithOAuth *)

Resolved(c, u) == Become(c, [phase |-> "resolved", browser |-> calls[c].browser,
                             flow |-> calls[c].flow, user |-> u])
Failed(c, why) == Become(c, [phase |-> why, browser |-> calls[c].browser, flow |-> calls[c].flow])

\* Mutant of MayLink: an email the provider has not verified will do.
MayLinkAny(call) == call.email # NoEmail

MayLink(call) == call.verified /\ call.email # NoEmail

\* The link, read on the read pool; without one, a verified email is required.
ReadLink(c) ==
  /\ calls[c].phase = "fetched"
  /\ \/ /\ calls[c].ident \in DOMAIN links
        /\ Resolved(c, links[calls[c].ident])
     \/ /\ calls[c].ident \notin DOMAIN links /\ ~MayLink(calls[c])
        /\ Failed(c, "refused")
     \/ /\ calls[c].ident \notin DOMAIN links /\ MayLink(calls[c])
        /\ calls' = [calls EXCEPT ![c].phase = "unlinked"]
  /\ UNCHANGED <<tables, flow, proved, opened>>

\* The account with that email, read on the read pool; 0 for none.
ReadEmail(c) ==
  /\ calls[c].phase = "unlinked"
  /\ \E u \in IF OfEmail(calls[c].email) = {} THEN {0} ELSE OfEmail(calls[c].email) :
       Become(c, [phase |-> "read", browser |-> calls[c].browser, flow |-> calls[c].flow,
                  ident |-> calls[c].ident, email |-> calls[c].email, user |-> u])
  /\ UNCHANGED <<tables, flow, proved, opened>>

\* INSERT INTO user_oauth for the account that was read: refused if the identity has
\* been linked meanwhile, or the account has gone.
LinkUser(c) ==
  /\ calls[c].phase = "read" /\ calls[c].user # 0
  /\ LET i == calls[c].ident  u == calls[c].user
     IN  \/ /\ i \notin DOMAIN links /\ u \in DOMAIN users
            /\ links' = With(links, i, u)
            /\ Resolved(c, u)
         \/ /\ i \in DOMAIN links \/ u \notin DOMAIN users
            /\ Failed(c, "conflict")
            /\ UNCHANGED links
  /\ UNCHANGED <<users, flow, proved, opened>>

\* The first free name of local, local1, local2 and so on.
Suffix(local) == CHOOSE n \in 0 .. MaxSuffix + 1 :
                   ~Has(<<local, n>>) /\ \A m \in 0 .. n - 1 : Has(<<local, m>>)

\* Mutant of CreateOAuthUser: the account is committed before the link is inserted.
CreateUserThenLink(c) ==
  /\ calls[c].phase = "read" /\ calls[c].user = 0
  /\ NextId \in Ids /\ Suffix(Local(calls[c].email)) <= MaxSuffix
  /\ LET i == calls[c].ident  name == <<Local(calls[c].email), Suffix(Local(calls[c].email))>>
     IN  \/ /\ OfEmail(calls[c].email) = {} /\ ~Has(name)
            /\ users' = With(users, NextId, [name |-> name, email |-> calls[c].email, oauth |-> TRUE])
            /\ \/ i \notin DOMAIN links /\ links' = With(links, i, NextId) /\ Resolved(c, NextId)
               \/ i \in DOMAIN links /\ Failed(c, "conflict") /\ UNCHANGED links
         \/ /\ OfEmail(calls[c].email) # {} \/ Has(name)
            /\ Failed(c, "conflict") /\ UNCHANGED tables
  /\ UNCHANGED <<flow, proved, opened>>

\* One transaction: a free user name, the account, its link.  It is rolled back if the
\* email or the identity has been taken since the reads.
CreateOAuthUser(c) ==
  /\ calls[c].phase = "read" /\ calls[c].user = 0
  /\ NextId \in Ids /\ Suffix(Local(calls[c].email)) <= MaxSuffix     \* bounds
  /\ LET i == calls[c].ident  name == <<Local(calls[c].email), Suffix(Local(calls[c].email))>>
         free == OfEmail(calls[c].email) = {} /\ ~Has(name) /\ i \notin DOMAIN links
     IN  \/ /\ free
            /\ users' = With(users, NextId, [name |-> name, email |-> calls[c].email, oauth |-> TRUE])
            /\ links' = With(links, i, NextId)
            /\ Resolved(c, NextId)
         \/ ~free /\ Failed(c, "conflict") /\ UNCHANGED tables
  /\ UNCHANGED <<flow, proved, opened>>

\* finishLogin opens a session, or answers a pending token; the cookies of a flow
\* started while the callback ran are cleared as well.
FinishLogin(c) ==
  /\ calls[c].phase = "resolved"
  /\ opened' = opened \cup {<<calls[c].browser, calls[c].flow>>}
  /\ cookies' = [cookies EXCEPT ![calls[c].browser] = 0]
  /\ Become(c, NoCall)
  /\ UNCHANGED <<tables, flows, starter, codes, proved>>

\* Any other answer; a failed statement or exchange ends the request the same way.
Answer(c) ==
  /\ calls[c].phase \notin {"none", "resolved"}
  /\ cookies' = [cookies EXCEPT ![calls[c].browser] = 0]
  /\ Become(c, NoCall)
  /\ UNCHANGED <<tables, flows, starter, codes, proved, opened>>

Next ==
  \/ \E c \in Calls :
       \/ \E n \in Names, e \in Emails : CreateUser(c, n, e)
       \/ \E u \in Ids : DeleteUser(c, u)
       \/ \E b \in Browsers, f \in 1 .. flows :
            \/ \E e \in Emails \cup {NoEmail}, v \in BOOLEAN : Callback(c, b, f, e, v)
            \/ RefuseCallback(c, b, f)
       \/ ReadLink(c) \/ ReadEmail(c) \/ LinkUser(c) \/ CreateOAuthUser(c)
       \/ FinishLogin(c) \/ Answer(c)
  \/ \E b \in Browsers : Start(b)
  \/ \E f \in Flows, i \in Idents : Authorize(f, i)

Spec == Init /\ [][Next]_vars

-----------------------------------------------------------------------------
(* What must hold *)

\* Type invariant of the tables, the cookies and the provider; links reference accounts.
TypeOK ==
  /\ DOMAIN users \subseteq Ids
  /\ users \in [DOMAIN users -> [name : Names, email : Emails, oauth : BOOLEAN]]
  /\ DOMAIN links \subseteq Idents /\ links \in [DOMAIN links -> DOMAIN users]
  /\ flows \in 0 .. MaxFlows /\ cookies \in [Browsers -> 0 .. flows]
  /\ starter \in [1 .. flows -> Browsers]
  /\ DOMAIN codes \subseteq 1 .. flows /\ codes \in [DOMAIN codes -> Idents]
  /\ opened \subseteq Browsers \X (1 .. flows)

\* No attempt leaves half of itself: an account made here, whose password nobody
\* knows, is linked as long as it exists, whatever callbacks race.
NoOrphanAccount ==
  \A u \in DOMAIN users : users[u].oauth => \E i \in DOMAIN links : links[i] = u

\* A session is opened only in the browser that started the flow.
SessionFromOwnStart == \A p \in opened : starter[p[2]] = p[1]

\* An identity is linked only to an account whose email the provider has vouched for.
LinkMatchesEmail ==
  \A i \in DOMAIN links : users[links[i]].email \in proved[i]
==============================================================================
