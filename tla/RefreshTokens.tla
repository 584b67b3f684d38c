--------------------------- MODULE RefreshTokens ---------------------------
(***************************************************************************)
(* Sessions: refresh tokens that rotate within a family, a family per      *)
(* login (server/internal/auth/refresh.go), the handlers that serve them   *)
(* and the cookie jars of the browsers that hold them                      *)
(* (server/internal/api/handlers_auth.go).                                 *)
(*                                                                         *)
(* Refresh is one transaction and Logout one statement on the single write *)
(* connection, so each is one action.  A login reads the user first and    *)
(* issues the tokens in a later step.  Requests and answers travel, may    *)
(* overlap and may be lost.  A token is random, so it is never given out   *)
(* twice: tokens are numbered in the order of issue, and the family of a   *)
(* login is named by its first token.  Access tokens are not modelled.     *)
(***************************************************************************)
EXTENDS Naturals, TLC

CONSTANTS
  Users,      \* accounts
  Browsers,   \* cookie jars
  Careful,    \* browsers that wait for each answer and lose none
  Calls,      \* bound: slots of requests in flight
  MaxTokens   \* bound: refresh tokens ever issued

ASSUME CarefulAssumption == Careful \subseteq Browsers
ASSUME TokensAssumption  == MaxTokens \in Nat

TokenIds == 1 .. MaxTokens
NoToken  == 0
Jar      == TokenIds \cup {NoToken}
NoCall   == [phase |-> "none"]

VARIABLES
  users,   \* accounts that exist
  tokens,  \* refresh_tokens: token |-> [user, family, revoked, expired]
  issued,  \* number of tokens ever issued
  cookie,  \* the refresh cookie of each browser, or NoToken
  calls    \* per slot: the request or the answer on its way

vars == <<users, tokens, issued, cookie, calls>>

Token == [user : Users, family : TokenIds, revoked : BOOLEAN, expired : BOOLEAN]
Sent  == {call \in [phase : {"sent"}, browser : Browsers,
                    kind : {"refresh", "logout"}, token : Jar] :
            call.kind = "refresh" => call.token # NoToken}
Login == [phase : {"sent", "checked"}, browser : Browsers, kind : {"login"}, user : Users]
\* What the answer sets the cookie to; clearAuthCookies removes it.
Answer == [phase : {"answered"}, browser : Browsers, cookie : Jar]
Call   == Sent \cup Login \cup Answer \cup {NoCall}

Known  == DOMAIN tokens
Live(t) == t \in Known /\ ~tokens[t].revoked
Family(f) == {t \in Known : tokens[t].family = f}

Init ==
  /\ users  = Users
  /\ tokens = [t \in {} |-> NoCall]
  /\ issued = 0
  /\ cookie = [b \in Browsers |-> NoToken]
  /\ calls  = [c \in Calls |-> NoCall]

-----------------------------------------------------------------------------
(* Tables *)

\* refresh_tokens with the tokens in S revoked.
Revoke(table, S) ==
  [t \in DOMAIN table |-> [table[t] EXCEPT !.revoked = @ \/ t \in S]]

\* issueRefresh: one more row.
IssueRefresh(table, user, family) ==
  [t \in DOMAIN table \cup {issued + 1} |->
     IF t = issued + 1
     THEN [user |-> user, family |-> family, revoked |-> FALSE, expired |-> FALSE]
     ELSE table[t]]

Reply(c, token) ==
  calls' = [calls EXCEPT ![c] = [phase |-> "answered", browser |-> calls[c].browser,
                                 cookie |-> token]]

-----------------------------------------------------------------------------
(* Browsers *)

Quiet(b) == \A c \in Calls : calls[c] # NoCall => calls[c].browser # b

SendLogin(c, b, u) ==
  /\ calls[c] = NoCall
  /\ b \in Careful => Quiet(b)
  /\ calls' = [calls EXCEPT ![c] = [phase |-> "sent", browser |-> b,
                                    kind |-> "login", user |-> u]]
  /\ UNCHANGED <<users, tokens, issued, cookie>>

\* Without the cookie a refresh is refused and changes nothing; a logout still
\* answers by clearing the jar.
SendToken(c, b, kind) ==
  /\ calls[c] = NoCall
  /\ b \in Careful => Quiet(b)
  /\ kind = "refresh" => cookie[b] # NoToken
  /\ calls' = [calls EXCEPT ![c] = [phase |-> "sent", browser |-> b,
                                    kind |-> kind, token |-> cookie[b]]]
  /\ UNCHANGED <<users, tokens, issued, cookie>>

Receive(c) ==
  /\ calls[c].phase = "answered"
  /\ cookie' = [cookie EXCEPT ![calls[c].browser] = calls[c].cookie]
  /\ calls' = [calls EXCEPT ![c] = NoCall]
  /\ UNCHANGED <<users, tokens, issued>>

\* The request, or the answer, never arrives.
Lose(c) ==
  /\ calls[c] # NoCall
  /\ calls[c].browser \notin Careful
  /\ calls' = [calls EXCEPT ![c] = NoCall]
  /\ UNCHANGED <<users, tokens, issued, cookie>>

-----------------------------------------------------------------------------
(* Handlers *)

\* Login: the password is right and the account exists.
CheckLogin(c) ==
  /\ calls[c] \in Login /\ calls[c].phase = "sent"
  /\ calls[c].user \in users
  /\ calls' = [calls EXCEPT ![c].phase = "checked"]
  /\ UNCHANGED <<users, tokens, issued, cookie>>

\* finishLogin, IssueTokens: a family of its own.  The foreign key refuses a
\* user deleted since the check.
IssueTokens(c) ==
  /\ calls[c] \in Login /\ calls[c].phase = "checked"
  /\ calls[c].user \in users
  /\ issued < MaxTokens                              \* bound
  /\ tokens' = IssueRefresh(tokens, calls[c].user, issued + 1)
  /\ issued' = issued + 1
  /\ Reply(c, issued + 1)
  /\ UNCHANGED <<users, cookie>>

\* Wrong password, locked out, deactivated or deleted, or the database fails: the
\* error leaves the cookies as they are.
RefuseLogin(c) ==
  /\ calls[c] \in Login
  /\ calls' = [calls EXCEPT ![c] = NoCall]
  /\ UNCHANGED <<users, tokens, issued, cookie>>

\* Mutant of Rotate: the token that is used stays valid.
RotateKeeping(t) ==
  /\ issued < MaxTokens
  /\ tokens' = IssueRefresh(tokens, tokens[t].user, tokens[t].family)
  /\ issued' = issued + 1

\* Mutant of Rotate: the family is revoked after the successor is issued.
RotateTooLate(t) ==
  /\ issued < MaxTokens
  /\ LET table == IssueRefresh(tokens, tokens[t].user, tokens[t].family)
     IN  tokens' = Revoke(table, Family(tokens[t].family) \cup {issued + 1})
  /\ issued' = issued + 1

\* The token is live: it is revoked and its successor issued in one transaction.
Rotate(t) ==
  /\ issued < MaxTokens                              \* bound
  /\ tokens' = IssueRefresh(Revoke(tokens, {t}), tokens[t].user, tokens[t].family)
  /\ issued' = issued + 1

\* Mutant of Refresh: revoked_at is not looked at.
RefreshUnchecked(c) ==
  /\ calls[c] \in Sent /\ calls[c].kind = "refresh"
  /\ calls[c].token \in Known
  /\ Rotate(calls[c].token)
  /\ Reply(c, issued + 1)
  /\ UNCHANGED <<users, cookie>>

Refresh(c) ==
  /\ calls[c] \in Sent /\ calls[c].kind = "refresh"
  /\ LET t == calls[c].token
     IN  \/ /\ t \notin Known                        \* ErrInvalidRefresh
            /\ UNCHANGED <<tokens, issued>>
            /\ Reply(c, NoToken)
         \/ /\ t \in Known /\ tokens[t].revoked      \* ErrReplay
            /\ tokens' = Revoke(tokens, Family(tokens[t].family))
            /\ UNCHANGED issued
            /\ Reply(c, NoToken)
         \/ /\ Live(t) /\ tokens[t].expired          \* ErrInvalidRefresh
            /\ UNCHANGED <<tokens, issued>>
            /\ Reply(c, NoToken)
         \/ /\ Live(t) /\ ~tokens[t].expired
            /\ Rotate(t)
            /\ Reply(c, issued + 1)
         \/ /\ UNCHANGED <<tokens, issued>>          \* the transaction fails
            /\ Reply(c, NoToken)
  /\ UNCHANGED <<users, cookie>>

\* The handler drops the error of a statement that fails.
Logout(c) ==
  /\ calls[c] \in Sent /\ calls[c].kind = "logout"
  /\ LET t == calls[c].token
     IN  \/ t \in Known /\ tokens' = Revoke(tokens, Family(tokens[t].family))
         \/ UNCHANGED tokens
  /\ Reply(c, NoToken)
  /\ UNCHANGED <<users, issued, cookie>>

\* ON DELETE CASCADE.
DeleteUser(u) ==
  /\ u \in users
  /\ users' = users \ {u}
  /\ tokens' = [t \in {k \in Known : tokens[k].user # u} |-> tokens[t]]
  /\ UNCHANGED <<issued, cookie, calls>>

Expire(t) ==
  /\ t \in Known
  /\ tokens' = [tokens EXCEPT ![t].expired = TRUE]
  /\ UNCHANGED <<users, issued, cookie, calls>>

-----------------------------------------------------------------------------
Next ==
  \/ \E c \in Calls, b \in Browsers, u \in Users : SendLogin(c, b, u)
  \/ \E c \in Calls, b \in Browsers, kind \in {"refresh", "logout"} : SendToken(c, b, kind)
  \/ \E c \in Calls : Receive(c) \/ Lose(c)
  \/ \E c \in Calls : CheckLogin(c) \/ IssueTokens(c) \/ RefuseLogin(c)
  \/ \E c \in Calls : Refresh(c) \/ Logout(c)
  \/ \E u \in Users : DeleteUser(u)
  \/ \E t \in TokenIds : Expire(t)

Spec == Init /\ [][Next]_vars

-----------------------------------------------------------------------------
(* What must hold *)

\* Type invariant of the table, the jars and the calls.
TypeOK ==
  /\ users \subseteq Users
  /\ issued \in 0 .. MaxTokens
  /\ Known \subseteq 1 .. issued /\ tokens \in [Known -> Token]
  /\ cookie \in [Browsers -> Jar]
  /\ calls \in [Calls -> Call]

\* Of the tokens of a family only the newest is ever live: however refreshes,
\* replays and logouts of one session interleave, the rotation never forks.
OnlyNewestLive ==
  \A s, t \in Known : tokens[s].family = tokens[t].family /\ s < t => tokens[s].revoked

\* A token once revoked never refreshes again, and a session that is over, by
\* logout or by a replay, gets no further token: Refresh extends a family only
\* while its newest token is live.
OverIsOver ==
  [][/\ \A t \in Known : ~Live(t) => ~Live(t)'
     /\ \A f \in TokenIds :
          Family(f) # {} /\ (\A t \in Family(f) : ~Live(t))
            => Family(f)' \subseteq Family(f)]_vars

\* A browser that sends one request at a time and gets every answer is never
\* taken for a thief: between requests its cookie is no revoked token.
NoFalseReplay ==
  \A b \in Careful :
    Quiet(b) /\ cookie[b] \in Known => Live(cookie[b])

\* For TLC: accounts are interchangeable, and slots of requests.
Symmetric == Permutations(Users) \cup Permutations(Calls)
=============================================================================
