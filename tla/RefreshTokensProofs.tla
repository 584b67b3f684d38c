------------------------ MODULE RefreshTokensProofs ------------------------
(***************************************************************************)
(* What RefreshTokens keeps true for every set of users, browsers and      *)
(* calls and any number of tokens.                                         *)
(***************************************************************************)
EXTENDS RefreshTokens, TLAPS

\* A family bears the number of one of its tokens, so a login that starts a
\* new family cannot hit one that is in the table.
FamiliesIssued == \A t \in Known : tokens[t].family <= issued

IndInv == TypeOK /\ FamiliesIssued /\ OnlyNewestLive

-----------------------------------------------------------------------------
(* The table *)

\* Revoking changes nothing but the mark, and never takes it away.
LEMMA RevokeTable ==
  ASSUME TypeOK, NEW S
  PROVE  LET new == Revoke(tokens, S)
         IN  /\ new \in [Known -> Token]
             /\ \A t \in Known : /\ new[t].family = tokens[t].family
                                 /\ new[t].user = tokens[t].user
                                 /\ new[t].revoked = (tokens[t].revoked \/ t \in S)
<1> DEFINE new == Revoke(tokens, S)
<1>1. new = [t \in Known |-> [tokens[t] EXCEPT !.revoked = @ \/ t \in S]]
  BY DEF Revoke, Known
<1>2. ASSUME NEW t \in Known
      PROVE  /\ new[t] \in Token
             /\ new[t].family = tokens[t].family
             /\ new[t].user = tokens[t].user
             /\ new[t].revoked = (tokens[t].revoked \/ t \in S)
  <2>1. tokens[t] \in Token
    BY DEF TypeOK
  <2>2. new[t] = [tokens[t] EXCEPT !.revoked = tokens[t].revoked \/ t \in S]
    BY <1>1
  <2>3. (tokens[t].revoked \/ t \in S) \in BOOLEAN
    OBVIOUS
  <2>4. QED
    BY <2>1, <2>2, <2>3 DEF Token
<1>3. QED
  BY <1>1, <1>2

\* Issuing adds one live row, numbered after all others.
LEMMA IssueTable ==
  ASSUME TypeOK, issued < MaxTokens, NEW table \in [Known -> Token],
         NEW user \in Users, NEW family \in TokenIds,
         NEW new, new = IssueRefresh(table, user, family)
  PROVE  /\ new \in [Known \cup {issued + 1} -> Token]
         /\ new[issued + 1].family = family
         /\ \A t \in Known : new[t] = table[t]
<1> DEFINE n == issued + 1
           row == [user |-> user, family |-> family, revoked |-> FALSE, expired |-> FALSE]
<1>1. n \notin Known
  BY TokensAssumption DEF TypeOK
<1>2. row \in Token
  BY DEF Token
<1>3. DOMAIN table = Known
  OBVIOUS
<1>4. new = [t \in Known \cup {n} |-> IF t = n THEN row ELSE table[t]]
  BY <1>3 DEF IssueRefresh
<1>5. QED
  BY <1>1, <1>2, <1>4

\* What any step may do to the table: drop rows, mark rows, or issue the next
\* token, in a family of its own or after a live token that the same step revokes.
Kept == \A t \in Known' : t <= issued =>
          /\ t \in Known
          /\ tokens'[t].family = tokens[t].family
          /\ tokens[t].revoked => tokens'[t].revoked

Issued == \/ issued' = issued
          \/ /\ issued' = issued + 1
             /\ issued' \in Known'
             /\ \/ tokens'[issued'].family = issued'
                \/ \E t \in Known : /\ ~tokens[t].revoked
                                    /\ tokens'[issued'].family = tokens[t].family
                                    /\ t \in Known' => tokens'[t].revoked

Table == /\ issued' \in 0 .. MaxTokens
         /\ Known' \subseteq 1 .. issued'
         /\ tokens' \in [Known' -> Token]

LEMMA TableStep ==
  ASSUME IndInv, [Next]_vars
  PROVE  Table /\ Kept /\ Issued
<1>0. /\ TypeOK /\ FamiliesIssued /\ MaxTokens \in Nat
      /\ issued \in 0 .. MaxTokens
      /\ Known \subseteq 1 .. issued /\ tokens \in [Known -> Token]
      /\ Known' = DOMAIN tokens'
  BY TokensAssumption DEF IndInv, TypeOK, Known
<1>1. ASSUME UNCHANGED <<tokens, issued>>
      PROVE  Table /\ Kept /\ Issued
  BY <1>0, <1>1 DEF Table, Kept, Issued, Known
<1>2. ASSUME NEW S, tokens' = Revoke(tokens, S), UNCHANGED issued
      PROVE  Table /\ Kept /\ Issued
  <2>1. /\ tokens' \in [Known -> Token]
        /\ \A t \in Known : /\ tokens'[t].family = tokens[t].family
                            /\ tokens'[t].revoked = (tokens[t].revoked \/ t \in S)
    BY <1>0, <1>2, RevokeTable
  <2>2. Known' = Known
    BY <1>0, <2>1
  <2>3. QED
    BY <1>0, <1>2, <2>1, <2>2 DEF Table, Kept, Issued
<1>3. ASSUME NEW c \in Calls, IssueTokens(c) PROVE Table /\ Kept /\ Issued
  <2>1. /\ issued < MaxTokens /\ issued' = issued + 1
        /\ calls[c].user \in users
        /\ tokens' = IssueRefresh(tokens, calls[c].user, issued + 1)
    BY <1>3 DEF IssueTokens
  <2>2. calls[c].user \in Users /\ issued + 1 \in TokenIds
    BY <1>0, <2>1 DEF TypeOK, TokenIds
  <2>3. PICK u \in Users, f \in TokenIds, old \in [Known -> Token] :
          \E new : /\ new = IssueRefresh(old, u, f)
                   /\ new = tokens' /\ f = issued + 1 /\ old = tokens
    BY <1>0, <2>1, <2>2
  <2>4. PICK new : /\ new = IssueRefresh(old, u, f)
                   /\ new = tokens' /\ f = issued + 1 /\ old = tokens
    BY <2>3
  <2>5. /\ tokens' \in [Known \cup {issued + 1} -> Token]
        /\ tokens'[issued + 1].family = f
        /\ \A t \in Known : tokens'[t] = old[t]
    <3>1. TypeOK /\ issued < MaxTokens /\ new = IssueRefresh(old, u, f)
      BY <1>0, <2>1, <2>4
    <3>2. /\ new \in [Known \cup {issued + 1} -> Token]
          /\ new[issued + 1].family = f
          /\ \A t \in Known : new[t] = old[t]
      BY <3>1, IssueTable
    <3>3. QED
      BY <2>4, <3>2
  <2>6. /\ Known' = Known \cup {issued'} /\ issued' \in 0 .. MaxTokens
        /\ Known' \subseteq 1 .. issued'
    <3>1. Known' = Known \cup {issued'}
      BY <1>0, <2>1, <2>5
    <3>2. issued' \in 0 .. MaxTokens /\ issued' \in 1 .. issued'
      BY <1>0, <2>1
    <3>3. \A t \in Known : t \in 1 .. issued'
      BY <1>0, <2>1
    <3>4. QED
      BY <3>1, <3>2, <3>3
  <2>7. Table
    BY <1>0, <2>1, <2>5, <2>6 DEF Table
  <2>8. Kept
    <3>1. ASSUME NEW k \in Known', k <= issued
          PROVE  k \in Known
      BY <1>0, <2>1, <2>6, <3>1
    <3>2. QED
      BY <3>1, <2>4, <2>5 DEF Kept
  <2>9. Issued
    BY <2>1, <2>4, <2>5, <2>6 DEF Issued
  <2>10. QED
    BY <2>7, <2>8, <2>9
<1>4. ASSUME NEW t \in Known, Live(t), Rotate(t)
      PROVE  Table /\ Kept /\ Issued
  <2> DEFINE old == Revoke(tokens, {t})
  <2>1. /\ issued < MaxTokens /\ issued' = issued + 1
        /\ tokens' = IssueRefresh(old, tokens[t].user, tokens[t].family)
    BY <1>4 DEF Rotate
  <2>2. /\ old \in [Known -> Token]
        /\ \A k \in Known : /\ old[k].family = tokens[k].family
                            /\ old[k].revoked = (tokens[k].revoked \/ k \in {t})
    BY <1>0, RevokeTable
  <2> HIDE DEF old
  <2>3. tokens[t].user \in Users /\ tokens[t].family \in TokenIds
    BY <1>0 DEF Token
  <2>4. /\ tokens' \in [Known \cup {issued + 1} -> Token]
        /\ tokens'[issued + 1].family = tokens[t].family
        /\ \A k \in Known : tokens'[k] = old[k]
    BY <1>0, <2>1, <2>2, <2>3, IssueTable
  <2>5. /\ Known' = Known \cup {issued'} /\ issued' \in 0 .. MaxTokens
        /\ Known' \subseteq 1 .. issued'
    <3>1. Known' = Known \cup {issued'}
      BY <1>0, <2>1, <2>4
    <3>2. issued' \in 0 .. MaxTokens /\ issued' \in 1 .. issued'
      BY <1>0, <2>1
    <3>3. \A k \in Known : k \in 1 .. issued'
      BY <1>0, <2>1
    <3>4. QED
      BY <3>1, <3>2, <3>3
  <2>6. Table
    BY <1>0, <2>1, <2>4, <2>5 DEF Table
  <2>7. Kept
    <3>1. ASSUME NEW k \in Known', k <= issued
          PROVE  k \in Known
      BY <1>0, <2>1, <2>5, <3>1
    <3>2. QED
      BY <3>1, <2>2, <2>4 DEF Kept
  <2>8. ~tokens[t].revoked /\ tokens'[t].revoked
    BY <1>4, <2>2, <2>4 DEF Live
  <2>9. Issued
    BY <2>1, <2>4, <2>5, <2>8 DEF Issued
  <2>10. QED
    BY <2>6, <2>7, <2>9
<1>5. ASSUME NEW c \in Calls, Refresh(c) PROVE Table /\ Kept /\ Issued
  <2> DEFINE t == calls[c].token
  <2>1. \/ UNCHANGED <<tokens, issued>>
        \/ tokens' = Revoke(tokens, Family(tokens[t].family)) /\ UNCHANGED issued
        \/ Live(t) /\ Rotate(t)
    BY <1>5 DEF Refresh
  <2>2. Live(t) => t \in Known
    BY DEF Live
  <2>3. QED
    BY <1>1, <1>2, <1>4, <2>1, <2>2
<1>6. ASSUME NEW c \in Calls, Logout(c) PROVE Table /\ Kept /\ Issued
  <2>1. /\ UNCHANGED issued
        /\ \/ tokens' = tokens
           \/ tokens' = Revoke(tokens, Family(tokens[calls[c].token].family))
    BY <1>6 DEF Logout
  <2>2. QED
    BY <1>1, <1>2, <2>1
<1>7. ASSUME NEW u \in Users, DeleteUser(u) PROVE Table /\ Kept /\ Issued
  <2>1. /\ UNCHANGED issued
        /\ Known' = {k \in Known : tokens[k].user # u}
        /\ \A t \in Known' : tokens'[t] = tokens[t]
        /\ tokens' = [t \in {k \in Known : tokens[k].user # u} |-> tokens[t]]
    BY <1>0, <1>7 DEF DeleteUser
  <2>2. QED
    BY <1>0, <2>1 DEF Table, Kept, Issued
<1>8. ASSUME NEW x \in TokenIds, Expire(x) PROVE Table /\ Kept /\ Issued
  <2>1. UNCHANGED issued /\ tokens' = [tokens EXCEPT ![x].expired = TRUE] /\ x \in Known
    BY <1>8 DEF Expire
  <2>2. /\ tokens' \in [Known -> Token]
        /\ \A t \in Known : /\ tokens'[t].family = tokens[t].family
                            /\ tokens'[t].revoked = tokens[t].revoked
    BY <1>0, <2>1 DEF Token
  <2>3. Known' = Known
    BY <1>0, <2>2
  <2>4. QED
    BY <1>0, <2>1, <2>2, <2>3 DEF Table, Kept, Issued
<1>9. QED
  BY <1>1, <1>3, <1>5, <1>6, <1>7, <1>8
     DEF Next, vars, SendLogin, SendToken, Receive, Lose, CheckLogin, RefuseLogin

-----------------------------------------------------------------------------
(* The invariant *)

\* The other variables keep their types.
LEMMA CallStep ==
  ASSUME IndInv, [Next]_vars
  PROVE  /\ users' \subseteq Users
         /\ cookie' \in [Browsers -> Jar]
         /\ calls' \in [Calls -> Call]
<1>0. /\ users \subseteq Users /\ issued \in 0 .. MaxTokens
      /\ cookie \in [Browsers -> Jar] /\ calls \in [Calls -> Call]
      /\ MaxTokens \in Nat
  BY TokensAssumption DEF IndInv, TypeOK
<1>1. ASSUME UNCHANGED <<users, cookie, calls>>
      PROVE  /\ users' \subseteq Users
             /\ cookie' \in [Browsers -> Jar]
             /\ calls' \in [Calls -> Call]
  BY <1>0, <1>1
<1>2. ASSUME NEW c \in Calls, NEW call \in Call,
             calls' = [calls EXCEPT ![c] = call], users' \subseteq Users,
             cookie' \in [Browsers -> Jar]
      PROVE  /\ users' \subseteq Users
             /\ cookie' \in [Browsers -> Jar]
             /\ calls' \in [Calls -> Call]
  BY <1>0, <1>2
<1>3. NoCall \in Call
  BY DEF Call
<1>4. ASSUME NEW c \in Calls, NEW token \in Jar, calls[c] \in Sent \cup Login,
             Reply(c, token), UNCHANGED <<users, cookie>>
      PROVE  /\ users' \subseteq Users
             /\ cookie' \in [Browsers -> Jar]
             /\ calls' \in [Calls -> Call]
  <2>1. calls[c].browser \in Browsers
    BY <1>4 DEF Sent, Login
  <2>2. [phase |-> "answered", browser |-> calls[c].browser, cookie |-> token] \in Call
    BY <1>4, <2>1 DEF Call, Answer
  <2>3. QED
    BY <1>0, <1>2, <1>4, <2>2 DEF Reply
<1>5. ASSUME NEW c \in Calls, NEW b \in Browsers, NEW u \in Users, SendLogin(c, b, u)
      PROVE  /\ users' \subseteq Users
             /\ cookie' \in [Browsers -> Jar]
             /\ calls' \in [Calls -> Call]
  <2>1. [phase |-> "sent", browser |-> b, kind |-> "login", user |-> u] \in Call
    BY DEF Call, Login
  <2>2. QED
    BY <1>0, <1>2, <1>5, <2>1 DEF SendLogin
<1>6. ASSUME NEW c \in Calls, NEW b \in Browsers, NEW kind \in {"refresh", "logout"},
             SendToken(c, b, kind)
      PROVE  /\ users' \subseteq Users
             /\ cookie' \in [Browsers -> Jar]
             /\ calls' \in [Calls -> Call]
  <2>1. cookie[b] \in Jar /\ (kind = "refresh" => cookie[b] # NoToken)
    BY <1>0, <1>6 DEF SendToken
  <2>2. [phase |-> "sent", browser |-> b, kind |-> kind, token |-> cookie[b]] \in Call
    BY <2>1 DEF Call, Sent
  <2>3. QED
    BY <1>0, <1>2, <1>6, <2>2 DEF SendToken
<1>7. ASSUME NEW c \in Calls, Receive(c)
      PROVE  /\ users' \subseteq Users
             /\ cookie' \in [Browsers -> Jar]
             /\ calls' \in [Calls -> Call]
  <2>1. calls[c] \in Call /\ calls[c].phase = "answered"
    BY <1>0, <1>7 DEF Receive
  <2>2. calls[c].cookie \in Jar
    BY <2>1 DEF Call, Sent, Login, Answer, NoCall
  <2>3. QED
    BY <1>0, <1>2, <1>3, <1>7, <2>2 DEF Receive
<1>8. ASSUME NEW c \in Calls, Lose(c) \/ RefuseLogin(c)
      PROVE  /\ users' \subseteq Users
             /\ cookie' \in [Browsers -> Jar]
             /\ calls' \in [Calls -> Call]
  BY <1>0, <1>2, <1>3, <1>8 DEF Lose, RefuseLogin
<1>9. ASSUME NEW c \in Calls, CheckLogin(c)
      PROVE  /\ users' \subseteq Users
             /\ cookie' \in [Browsers -> Jar]
             /\ calls' \in [Calls -> Call]
  <2>1. [calls[c] EXCEPT !.phase = "checked"] \in Login
    BY <1>9 DEF CheckLogin, Login
  <2>2. calls' = [calls EXCEPT ![c] = [calls[c] EXCEPT !.phase = "checked"]]
    BY <1>9 DEF CheckLogin
  <2> DEFINE call == [calls[c] EXCEPT !.phase = "checked"]
  <2>3. call \in Call
    BY <2>1 DEF Call
  <2>4. UNCHANGED <<users, cookie>>
    BY <1>9 DEF CheckLogin
  <2> HIDE DEF call
  <2>5. QED
    BY <1>0, <1>2, <2>2, <2>3, <2>4 DEF call
<1>10. ASSUME NEW c \in Calls, IssueTokens(c)
      PROVE  /\ users' \subseteq Users
             /\ cookie' \in [Browsers -> Jar]
             /\ calls' \in [Calls -> Call]
  BY <1>0, <1>4, <1>10 DEF IssueTokens, Jar, TokenIds
<1>11. ASSUME NEW c \in Calls, Refresh(c) \/ Logout(c)
      PROVE  /\ users' \subseteq Users
             /\ cookie' \in [Browsers -> Jar]
             /\ calls' \in [Calls -> Call]
  <2>1. /\ calls[c] \in Sent
        /\ UNCHANGED <<users, cookie>>
        /\ Reply(c, NoToken) \/ (issued < MaxTokens /\ Reply(c, issued + 1))
    BY <1>11 DEF Refresh, Rotate, Logout
  <2>2. NoToken \in Jar /\ (issued < MaxTokens => issued + 1 \in Jar)
    BY <1>0 DEF Jar, TokenIds
  <2>3. QED
    BY <1>4, <2>1, <2>2
<1>12. QED
  BY <1>0, <1>1, <1>5, <1>6, <1>7, <1>8, <1>9, <1>10, <1>11
     DEF Next, vars, DeleteUser, Expire

LEMMA IndStep == IndInv /\ [Next]_vars => IndInv'
<1> SUFFICES ASSUME IndInv, [Next]_vars PROVE IndInv'
  OBVIOUS
<1>1. Table /\ Kept /\ Issued
  BY TableStep
<1>2. TypeOK'
  BY <1>1, CallStep DEF Table, TypeOK, Known
<1>3. /\ issued \in Nat /\ issued' \in Nat
      /\ \A t \in Known : t \in Nat /\ t <= issued /\ tokens[t].family \in Nat
      /\ \A t \in Known' : t \in Nat /\ t <= issued' /\ tokens'[t].family \in Nat
  BY <1>1, <1>2, TokensAssumption DEF IndInv, TypeOK, Table, Token, TokenIds
<1>4. FamiliesIssued'
  BY <1>1, <1>3 DEF IndInv, FamiliesIssued, Kept, Issued
\* The newest token of a family: if it is new, its predecessor was the newest.
<1>5. ASSUME NEW s \in Known', NEW t \in Known',
             tokens'[s].family = tokens'[t].family, s < t
      PROVE  tokens'[s].revoked
  <2>1. s <= issued /\ s \in Known
        /\ tokens'[s].family = tokens[s].family
        /\ (tokens[s].revoked => tokens'[s].revoked)
    BY <1>1, <1>3, <1>5 DEF Kept, Issued
  <2>2. CASE t <= issued
    BY <1>1, <1>5, <2>1, <2>2 DEF Kept, IndInv, OnlyNewestLive
  <2>3. CASE t > issued
    <3>1. t = issued' /\ issued' = issued + 1
      BY <1>1, <1>3, <2>3 DEF Issued
    <3>2. tokens'[t].family # issued'
      BY <1>3, <1>5, <2>1, <3>1 DEF IndInv, FamiliesIssued
    <3>3. PICK p \in Known : /\ ~tokens[p].revoked
                             /\ tokens'[t].family = tokens[p].family
                             /\ p \in Known' => tokens'[p].revoked
      BY <1>1, <1>3, <3>1, <3>2 DEF Issued
    <3>4. s = p \/ s < p \/ p < s
      BY <1>3, <2>1
    <3>5. QED
      BY <1>5, <2>1, <3>3, <3>4 DEF IndInv, OnlyNewestLive
  <2>4. QED
    BY <1>3, <2>2, <2>3
<1>6. QED
  BY <1>2, <1>4, <1>5 DEF IndInv, OnlyNewestLive, Known

LEMMA Inductive == Spec => []IndInv
<1>1. Init => IndInv
  BY TokensAssumption
     DEF Init, IndInv, TypeOK, FamiliesIssued, OnlyNewestLive, Known, Jar, NoToken, Call
<1>2. QED
  BY <1>1, IndStep, PTL DEF Spec

-----------------------------------------------------------------------------
(* The theorems *)

\* The table, the jars and the calls keep their types.
THEOREM TypeCorrect == Spec => []TypeOK
<1>1. IndInv => TypeOK
  BY DEF IndInv
<1>2. QED
  BY <1>1, Inductive, PTL

\* The rotation of a session never forks, however many browsers, requests and
\* tokens there are: Refresh reads, revokes and issues in one transaction.
THEOREM NeverForks == Spec => []OnlyNewestLive
<1>1. IndInv => OnlyNewestLive
  BY DEF IndInv
<1>2. QED
  BY <1>1, Inductive, PTL

\* A session that is over stays over.
THEOREM StaysOver == Spec => OverIsOver
<1>1. ASSUME IndInv, [Next]_vars
      PROVE  /\ \A t \in Known : ~Live(t) => ~Live(t)'
             /\ \A f \in TokenIds :
                  Family(f) # {} /\ (\A t \in Family(f) : ~Live(t))
                    => Family(f)' \subseteq Family(f)
  <2>1. Kept /\ Issued
    BY <1>1, TableStep
  <2>2. /\ issued \in Nat
        /\ \A t \in Known : t <= issued /\ tokens[t].family <= issued
        /\ Table
        /\ \A t \in Known : tokens[t].family \in Nat
    BY <1>1, TokensAssumption, TableStep DEF IndInv, TypeOK, FamiliesIssued, Token, TokenIds
  <2>3. ASSUME NEW t \in Known, ~Live(t) PROVE ~Live(t)'
    BY <2>1, <2>2, <2>3 DEF Kept, Live
  <2>4. ASSUME NEW f \in TokenIds, Family(f) # {}, \A t \in Family(f) : ~Live(t),
               NEW n \in Family(f)'
        PROVE  n \in Family(f)
    <3>1. n \in Known' /\ tokens'[n].family = f
      BY <2>4 DEF Family
    <3>2. f <= issued /\ f \in Nat
      BY <2>2, <2>4 DEF Family, TokenIds
    <3>3. CASE n <= issued
      BY <2>1, <3>1, <3>3 DEF Kept, Family
    <3>4. CASE ~(n <= issued)
      <4>1. n = issued' /\ issued' = issued + 1
        BY <2>1, <2>2, <3>1, <3>4 DEF Issued, Table
      <4>2. PICK t \in Known : ~tokens[t].revoked /\ f = tokens[t].family
        BY <2>1, <2>2, <3>1, <3>2, <4>1 DEF Issued
      <4>3. QED
        BY <2>4, <4>2 DEF Family, Live
    <3>5. QED
      BY <3>3, <3>4
  <2>5. QED
    BY <2>3, <2>4
<1>2. QED
  BY <1>1, Inductive, PTL DEF Spec, OverIsOver

-----------------------------------------------------------------------------
(* Who holds which token *)

\* A browser is in possession of the token in its jar, and of those in its requests
\* and in the answers to them.
Mine(b, c) == calls[c] # NoCall /\ calls[c].browser = b
Bears(call, t) == \/ call \in Sent /\ t = call.token
                  \/ call \in Answer /\ t = call.cookie
Has(b, t) == \/ t = cookie[b]
             \/ \E c \in Calls : Mine(b, c) /\ Bears(calls[c], t)

\* The token the browser goes on with: that of an answer on its way, or the jar's.
Answered(b, c) == calls[c] \in Answer /\ calls[c].browser = b
Holds(b, t) == \/ \E c \in Calls : Answered(b, c) /\ t = calls[c].cookie
               \/ t = cookie[b] /\ \A c \in Calls : ~Answered(b, c)

\* No family is in the hands of two browsers, so nobody but its owner can end it.
Apart ==
  \A b, d \in Browsers : b # d =>
    \A s, t \in Known : Has(b, s) /\ Has(d, t) => tokens[s].family # tokens[t].family

HeldIssued == \A b \in Browsers, t \in TokenIds : Has(b, t) => t <= issued

OneCall == \A b \in Careful, c, e \in Calls : Mine(b, c) /\ Mine(b, e) => c = e

Fresh == \A b \in Careful, t \in Known : Holds(b, t) => Live(t)

SessionInv == IndInv /\ Apart /\ HeldIssued /\ OneCall /\ Fresh

\* What a step of browser b's session, or of nobody's, may do: other browsers get no
\* token; b's gets at most the next one, in a family of its own or in that of a token it
\* had; only families b has a token of are revoked; and what b goes on with is what it
\* went on with before, or live.
Acts(b) ==
  /\ \A d \in Browsers \ {b}, t \in Jar :
       (Has(d, t)' => Has(d, t)) /\ (Holds(d, t)' => Holds(d, t))
  /\ b \in Browsers => \A t \in TokenIds : Has(b, t)' =>
       \/ Has(b, t)
       \/ /\ t = issued + 1 /\ issued' = issued + 1
          /\ \/ tokens'[t].family = t
             \/ \E p \in Known : Has(b, p) /\ tokens'[t].family = tokens[p].family
  /\ \A t \in Known' : t \in Known /\ tokens'[t].revoked /\ ~tokens[t].revoked =>
       \E p \in Known : b \in Browsers /\ Has(b, p) /\ tokens[p].family = tokens[t].family
  /\ b \in Careful => \A t \in Known' : Holds(b, t)' =>
       \/ Holds(b, t) /\ UNCHANGED tokens
       \/ ~tokens'[t].revoked

\* Replacing one call touches no other browser's tokens.
LEMMA OthersKeep ==
  ASSUME calls \in [Calls -> Call], cookie \in [Browsers -> Jar],
         NEW c \in Calls, NEW new, calls' = [calls EXCEPT ![c] = new],
         NEW b \in Browsers,
         calls[c] # NoCall => calls[c].browser = b,
         new # NoCall => new.browser = b,
         NEW d \in Browsers, d # b, cookie'[d] = cookie[d],
         NEW t
  PROVE  (Has(d, t)' => Has(d, t)) /\ (Holds(d, t)' => Holds(d, t))
<1>1. \A e \in Calls : e # c => calls'[e] = calls[e]
  OBVIOUS
<1>2. calls'[c] = new
  OBVIOUS
<1>3. new \in Answer => new # NoCall
  BY DEF Answer, NoCall
<1>4. calls[c] \in Answer => calls[c] # NoCall
  BY DEF Answer, NoCall
<1>5. Has(d, t)' => Has(d, t)
  BY <1>1, <1>2 DEF Has, Mine
<1>6. \A e \in Calls : Answered(d, e)' <=> Answered(d, e)
  BY <1>1, <1>2, <1>3, <1>4 DEF Answered
<1>7. Holds(d, t)' => Holds(d, t)
  <2>1. ASSUME NEW e \in Calls, Answered(d, e)', t = calls'[e].cookie
        PROVE  Holds(d, t)
    <3>1. e # c
      BY <1>2, <1>3, <2>1 DEF Answered
    <3>2. QED
      BY <1>1, <1>6, <2>1, <3>1 DEF Holds
  <2>2. QED
    BY <1>6, <2>1 DEF Holds
<1>8. QED
  BY <1>5, <1>7

\* A step that leaves calls, jars and the marks alone is nobody's.
LEMMA NobodyActs ==
  ASSUME UNCHANGED <<cookie, calls>>,
         \A t \in Known' : t \in Known /\ tokens'[t].revoked = tokens[t].revoked
  PROVE  \E b : Acts(b)
<1> DEFINE b == CHOOSE x : x \notin Browsers
<1>1. b \notin Browsers
  BY NoSetContainsEverything
<1>2. \A d, t : /\ Has(d, t)' => Has(d, t)
                /\ Holds(d, t)' => Holds(d, t)
  BY DEF Has, Holds, Mine, Answered
<1>3. b \notin Careful
  BY <1>1, CarefulAssumption
<1> HIDE DEF b
<1>4. QED
  BY <1>1, <1>2, <1>3 DEF Acts

\* A step that replaces a call of b by one that bears no new token.
LEMMA PassesOn ==
  ASSUME calls \in [Calls -> Call], cookie \in [Browsers -> Jar],
         NEW c \in Calls, NEW new, calls' = [calls EXCEPT ![c] = new],
         NEW b \in Browsers,
         calls[c] # NoCall => calls[c].browser = b,
         new # NoCall => new.browser = b,
         calls[c] \notin Answer, new \notin Answer,
         new \in Sent => new.token = NoToken \/ Has(b, new.token),
         UNCHANGED <<cookie, tokens>>
  PROVE  Acts(b)
<1>1. \A e \in Calls : e # c => calls'[e] = calls[e]
  OBVIOUS
<1>2. calls'[c] = new
  OBVIOUS
<1>3. \A d \in Browsers \ {b} : \A t : (Has(d, t)' => Has(d, t)) /\ (Holds(d, t)' => Holds(d, t))
  BY OthersKeep
<1>4. ASSUME NEW t \in TokenIds, Has(b, t)'
      PROVE  Has(b, t)
  <2>1. CASE t = cookie'[b]
    BY <2>1 DEF Has
  <2>2. ASSUME NEW e \in Calls, Mine(b, e)', Bears(calls'[e], t)
        PROVE  Has(b, t)
    <3>1. CASE e = c
      <4>1. new \in Sent /\ t = new.token
        BY <1>2, <2>2, <3>1 DEF Bears
      <4>2. t # NoToken
        BY TokensAssumption DEF TokenIds, NoToken
      <4>3. QED
        BY <4>1, <4>2
    <3>2. CASE e # c
      BY <1>1, <2>2, <3>2 DEF Has, Mine
    <3>3. QED
      BY <3>1, <3>2
  <2>3. QED
    BY <1>4, <2>1, <2>2 DEF Has
<1>5. \A e \in Calls : Answered(b, e)' <=> Answered(b, e)
  BY <1>1, <1>2 DEF Answered
<1>6. \A t : Holds(b, t)' => Holds(b, t)
  <2>1. \A e \in Calls : Answered(b, e) => calls'[e] = calls[e]
    BY <1>1 DEF Answered
  <2>2. QED
    BY <1>5, <2>1 DEF Holds
<1>7. \A t \in Known' : t \in Known /\ tokens'[t] = tokens[t]
  BY DEF Known
<1>8. QED
  BY <1>3, <1>4, <1>6, <1>7 DEF Acts

\* A step that answers a call of b with no token or the next one.
LEMMA Answers ==
  ASSUME IndInv, OneCall, NEW c \in Calls, NEW token \in {NoToken, issued + 1}, token \in Jar,
         NEW b \in Browsers, Mine(b, c), Reply(c, token), UNCHANGED cookie,
         token \in Known' => /\ issued' = issued + 1
                             /\ ~tokens'[token].revoked
                             /\ \/ tokens'[token].family = token
                                \/ \E p \in Known : /\ Has(b, p)
                                                    /\ tokens'[token].family = tokens[p].family,
         \A t \in Known' : t \in Known /\ tokens'[t].revoked /\ ~tokens[t].revoked =>
           \E p \in Known : Has(b, p) /\ tokens[p].family = tokens[t].family,
         token \in TokenIds => token \in Known'
  PROVE  Acts(b)
<1> DEFINE new == [phase |-> "answered", browser |-> b, cookie |-> token]
<1>0. /\ calls \in [Calls -> Call] /\ cookie \in [Browsers -> Jar]
      /\ calls[c] # NoCall /\ calls[c].browser = b
  BY DEF IndInv, TypeOK, Mine
<1>1. calls' = [calls EXCEPT ![c] = new]
  BY <1>0 DEF Reply
<1>2. new # NoCall /\ new.browser = b /\ new.cookie = token /\ new \notin Sent
  BY DEF NoCall, Sent
<1> HIDE DEF new
<1>3. /\ \A e \in Calls : e # c => calls'[e] = calls[e]
      /\ calls'[c] = new
  BY <1>0, <1>1
<1>4. \A d \in Browsers \ {b} : \A t : (Has(d, t)' => Has(d, t)) /\ (Holds(d, t)' => Holds(d, t))
  BY <1>0, <1>1, <1>2, OthersKeep
<1>5. ASSUME NEW t \in TokenIds, Has(b, t)'
      PROVE  Has(b, t) \/ t = token
  <2>1. CASE t = cookie'[b]
    BY <2>1 DEF Has
  <2>2. ASSUME NEW e \in Calls, Mine(b, e)', Bears(calls'[e], t)
        PROVE  Has(b, t) \/ t = token
    BY <1>2, <1>3, <2>2 DEF Has, Mine, Bears
  <2>3. QED
    BY <1>5, <2>1, <2>2 DEF Has
<1>6. ASSUME b \in Careful, NEW t \in Known', Holds(b, t)'
      PROVE  ~tokens'[t].revoked
  <2>1. new \in Answer
    BY <1>0 DEF new, Answer
  <2>2. Answered(b, c)'
    BY <1>2, <1>3, <2>1 DEF Answered
  <2>3. ASSUME NEW e \in Calls, Answered(b, e)'
        PROVE  e = c
    <3>1. CASE e # c
      <4>1. calls[e] \in Answer /\ calls[e].browser = b
        BY <1>3, <2>3, <3>1 DEF Answered
      <4>2. Mine(b, e)
        BY <4>1 DEF Mine, Answer, NoCall
      <4>3. QED
        BY <1>6, <3>1, <4>2 DEF OneCall
    <3>2. QED
      BY <3>1
  <2>4. t = token
    BY <1>2, <1>3, <1>6, <2>2, <2>3 DEF Holds
  <2>5. QED
    BY <2>4
<1>7. \A t \in TokenIds : Has(b, t)' =>
       \/ Has(b, t)
       \/ /\ t = issued + 1 /\ issued' = issued + 1
          /\ \/ tokens'[t].family = t
             \/ \E p \in Known : Has(b, p) /\ tokens'[t].family = tokens[p].family
  <2>1. NoToken \notin TokenIds
    BY TokensAssumption DEF TokenIds, NoToken
  <2>2. QED
    BY <1>5, <2>1
<1>8. QED
  BY <1>4, <1>6, <1>7 DEF Acts

LEMMA SomebodyActs ==
  ASSUME SessionInv, [Next]_vars
  PROVE  \E b : Acts(b)
<1>0. /\ IndInv /\ OneCall /\ TypeOK
      /\ issued \in 0 .. MaxTokens /\ MaxTokens \in Nat
      /\ Known \subseteq 1 .. issued /\ tokens \in [Known -> Token]
      /\ calls \in [Calls -> Call] /\ cookie \in [Browsers -> Jar]
      /\ \A x \in Calls : calls[x] \in Sent \cup Login \cup Answer => calls[x].browser \in Browsers
      /\ \A x \in Calls : calls[x] \in Call
      /\ NoToken \notin Known
  BY TokensAssumption DEF SessionInv, IndInv, TypeOK, Sent, Login, Answer, NoToken
<1>1. ASSUME NEW c \in Calls, NEW b \in Browsers, NEW u \in Users, SendLogin(c, b, u)
      PROVE  Acts(b)
  <2> DEFINE new == [phase |-> "sent", browser |-> b, kind |-> "login", user |-> u]
  <2>1. new \notin Answer /\ new \notin Sent /\ new.browser = b
    BY DEF Answer, Sent
  <2>2. calls' = [calls EXCEPT ![c] = new] /\ calls[c] = NoCall /\ UNCHANGED <<cookie, tokens>>
    BY <1>1 DEF SendLogin
  <2>3. NoCall \notin Answer
    BY DEF NoCall, Answer
  <2> HIDE DEF new
  <2>4. QED
    BY <1>0, <2>1, <2>2, <2>3, PassesOn
<1>2. ASSUME NEW c \in Calls, NEW b \in Browsers, NEW kind \in {"refresh", "logout"},
             SendToken(c, b, kind)
      PROVE  Acts(b)
  <2> DEFINE new == [phase |-> "sent", browser |-> b, kind |-> kind, token |-> cookie[b]]
  <2>1. new \notin Answer /\ new.browser = b /\ new.token = cookie[b]
    BY DEF Answer
  <2>2. calls' = [calls EXCEPT ![c] = new] /\ calls[c] = NoCall /\ UNCHANGED <<cookie, tokens>>
    BY <1>2 DEF SendToken
  <2>3. NoCall \notin Answer
    BY DEF NoCall, Answer
  <2>4. Has(b, cookie[b])
    BY DEF Has
  <2> HIDE DEF new
  <2>5. QED
    BY <1>0, <2>1, <2>2, <2>3, <2>4, PassesOn
<1>3. ASSUME NEW c \in Calls, Receive(c)
      PROVE  \E b : Acts(b)
  <2>1. PICK b \in Browsers : b = calls[c].browser /\ calls[c] \in Answer
    <3>1. calls[c] \in Call /\ calls[c].phase = "answered"
      BY <1>0, <1>3 DEF Receive
    <3>2. calls[c] \in Answer
      BY <3>1 DEF Call, Sent, Login, NoCall
    <3>3. QED
      BY <1>0, <3>2
  <2>2. /\ cookie' = [cookie EXCEPT ![b] = calls[c].cookie]
        /\ calls' = [calls EXCEPT ![c] = NoCall]
        /\ UNCHANGED <<tokens, issued>>
    BY <1>3, <2>1 DEF Receive
  <2>3. /\ \A e \in Calls : e # c => calls'[e] = calls[e]
        /\ calls'[c] = NoCall /\ cookie'[b] = calls[c].cookie
        /\ \A d \in Browsers \ {b} : cookie'[d] = cookie[d]
    BY <1>0, <2>2
  <2>4. ASSUME NEW d \in Browsers \ {b}, NEW t
        PROVE  (Has(d, t)' => Has(d, t)) /\ (Holds(d, t)' => Holds(d, t))
    <3>1. cookie'[d] = cookie[d] /\ d \in Browsers /\ d # b
      BY <2>3
    <3>2. calls[c] # NoCall => calls[c].browser = b
      BY <2>1
    <3>3. QED
      BY <1>0, <2>2, <3>1, <3>2, OthersKeep
  <2>5. NoCall \notin Answer /\ NoCall \notin Sent /\ calls[c] # NoCall
    BY <2>1 DEF NoCall, Answer, Sent
  <2>6. ASSUME NEW t, Has(b, t)'
        PROVE  Has(b, t)
    <3>1. CASE t = cookie'[b]
      BY <2>1, <2>3, <2>5, <3>1 DEF Has, Mine, Bears
    <3>2. ASSUME NEW e \in Calls, Mine(b, e)', Bears(calls'[e], t)
          PROVE  Has(b, t)
      BY <2>3, <2>5, <3>2 DEF Has, Mine, Bears
    <3>3. QED
      BY <2>6, <3>1, <3>2 DEF Has
  <2>7. ASSUME b \in Careful, NEW t, Holds(b, t)'
        PROVE  Holds(b, t)
    <3>1. ASSUME NEW e \in Calls, Answered(b, e)'
          PROVE  FALSE
      <4>1. e # c /\ calls[e] \in Answer /\ calls[e].browser = b
        BY <2>3, <2>5, <3>1 DEF Answered
      <4>2. Mine(b, e) /\ Mine(b, c)
        BY <2>1, <2>5, <4>1 DEF Mine, Answer, NoCall
      <4>3. QED
        BY <1>0, <2>7, <4>1, <4>2 DEF OneCall
    <3>2. t = calls[c].cookie
      BY <2>3, <2>7, <3>1 DEF Holds
    <3>3. QED
      BY <2>1, <3>2 DEF Holds, Answered
  <2>8. \A t \in Known' : t \in Known /\ tokens'[t] = tokens[t]
    BY <2>2 DEF Known
  <2>9. Acts(b)
    BY <2>2, <2>4, <2>6, <2>7, <2>8 DEF Acts
  <2>10. QED
    BY <2>9
<1>4. ASSUME NEW c \in Calls, Lose(c)
      PROVE  \E b : Acts(b)
  <2>1. PICK b \in Browsers : b = calls[c].browser /\ b \notin Careful
    BY <1>0, <1>4 DEF Lose, Call
  <2>2. /\ calls' = [calls EXCEPT ![c] = NoCall]
        /\ UNCHANGED <<tokens, issued, cookie>>
    BY <1>4 DEF Lose
  <2>3. /\ \A e \in Calls : e # c => calls'[e] = calls[e]
        /\ calls'[c] = NoCall
    BY <1>0, <2>2
  <2>4. \A d \in Browsers \ {b} : \A t : (Has(d, t)' => Has(d, t)) /\ (Holds(d, t)' => Holds(d, t))
    BY <1>0, <2>1, <2>2, OthersKeep
  <2>5. \A t : Has(b, t)' => Has(b, t)
    BY <2>2, <2>3 DEF Has, Mine
  <2>6. \A t \in Known' : t \in Known /\ tokens'[t] = tokens[t]
    BY <2>2 DEF Known
  <2>7. Acts(b)
    BY <2>1, <2>4, <2>5, <2>6 DEF Acts
  <2>8. QED
    BY <2>7
<1>5. ASSUME NEW c \in Calls, CheckLogin(c) \/ RefuseLogin(c)
      PROVE  \E b : Acts(b)
  <2>1. PICK b \in Browsers : b = calls[c].browser /\ calls[c] \in Login
    BY <1>0, <1>5 DEF CheckLogin, RefuseLogin
  <2>2. PICK new \in Login \cup {NoCall} :
          /\ calls' = [calls EXCEPT ![c] = new] /\ UNCHANGED <<tokens, cookie>>
          /\ new # NoCall => new.browser = b
    <3>1. CASE CheckLogin(c)
      <4>1. [calls[c] EXCEPT !.phase = "checked"] \in Login
        BY <2>1 DEF Login
      <4>2. [calls[c] EXCEPT !.phase = "checked"].browser = b
        BY <2>1 DEF Login
      <4>3. calls' = [calls EXCEPT ![c] = [calls[c] EXCEPT !.phase = "checked"]]
        BY <3>1 DEF CheckLogin
      <4>4. UNCHANGED <<tokens, cookie>>
        BY <3>1 DEF CheckLogin
      <4>5. QED
        BY <4>1, <4>2, <4>3, <4>4
    <3>2. CASE RefuseLogin(c)
      BY <3>2 DEF RefuseLogin
    <3>3. QED
      BY <1>5, <3>1, <3>2
  <2>3. new \notin Answer /\ new \notin Sent /\ calls[c] \notin Answer
    BY <2>1 DEF Login, NoCall, Answer, Sent
  <2>4. QED
    BY <1>0, <2>1, <2>2, <2>3, PassesOn
<1>6. ASSUME NEW c \in Calls, IssueTokens(c)
      PROVE  \E b : Acts(b)
  <2>1. PICK b \in Browsers : b = calls[c].browser /\ calls[c] \in Login
    BY <1>0, <1>6 DEF IssueTokens
  <2>2. /\ issued < MaxTokens /\ issued' = issued + 1 /\ UNCHANGED cookie
        /\ calls[c].user \in Users /\ Reply(c, issued + 1)
        /\ tokens' = IssueRefresh(tokens, calls[c].user, issued + 1)
    BY <1>0, <1>6 DEF IssueTokens, TypeOK
  <2>3. Mine(b, c)
    BY <2>1 DEF Mine, Login, NoCall
  <2>4. /\ issued + 1 \in Known' /\ Known' = Known \cup {issued + 1}
        /\ tokens'[issued + 1].family = issued + 1
        /\ ~tokens'[issued + 1].revoked
        /\ \A t \in Known : t # issued + 1 => tokens'[t] = tokens[t]
    BY <1>0, <2>2 DEF IssueRefresh, Known
  <2>5. issued + 1 \in Jar /\ issued + 1 \notin Known
    BY <1>0, <2>2 DEF Jar, TokenIds
  <2>6. Acts(b)
    BY <1>0, <2>2, <2>3, <2>4, <2>5, Answers
  <2>7. QED
    BY <2>6
<1>7. ASSUME NEW c \in Calls, Refresh(c) \/ Logout(c)
      PROVE  \E b : Acts(b)
  <2>1. PICK b \in Browsers : b = calls[c].browser /\ calls[c] \in Sent /\ UNCHANGED cookie
    BY <1>0, <1>7 DEF Refresh, Logout
  <2>2. Mine(b, c) /\ Has(b, calls[c].token)
    BY <2>1 DEF Mine, Has, Bears, Sent, NoCall
  <2>3. NoToken \in Jar /\ NoToken \notin TokenIds
    BY <1>0 DEF Jar, TokenIds, NoToken
  <2>4. CASE UNCHANGED tokens /\ Reply(c, NoToken)
    <3>1. \A t \in Known' : t \in Known /\ tokens'[t] = tokens[t]
      BY <2>4 DEF Known
    <3>2. NoToken \notin Known'
      BY <1>0, <2>4 DEF Known
    <3>3. Acts(b)
      BY <1>0, <2>1, <2>2, <2>3, <2>4, <3>1, <3>2, Answers
    <3>4. QED
      BY <3>3
  <2>5. ASSUME calls[c].token \in Known, Reply(c, NoToken),
               tokens' = Revoke(tokens, Family(tokens[calls[c].token].family))
        PROVE  \E x : Acts(x)
    <3> DEFINE p == calls[c].token
               S == Family(tokens[p].family)
    <3>1. /\ Known' = Known
          /\ \A t \in Known : tokens'[t].revoked = (tokens[t].revoked \/ t \in S)
      BY <1>0, <2>5, RevokeTable DEF Known
    <3>2. ASSUME NEW t \in Known', tokens'[t].revoked, ~tokens[t].revoked
          PROVE  tokens[p].family = tokens[t].family
      BY <3>1, <3>2 DEF Family
    <3>3. NoToken \notin Known'
      BY <1>0, <3>1
    <3>4. Acts(b)
      BY <1>0, <2>1, <2>2, <2>3, <2>5, <3>1, <3>2, <3>3, Answers
    <3>5. QED
      BY <3>4
  <2>6. ASSUME Live(calls[c].token), Rotate(calls[c].token), Reply(c, issued + 1)
        PROVE  \E x : Acts(x)
    <3> DEFINE p == calls[c].token
               old == Revoke(tokens, {p})
    <3>1. /\ p \in Known /\ issued < MaxTokens /\ issued' = issued + 1
          /\ tokens' = IssueRefresh(old, tokens[p].user, tokens[p].family)
      BY <2>6 DEF Rotate, Live
    <3>2. /\ old \in [Known -> Token]
          /\ \A k \in Known : old[k].revoked = (tokens[k].revoked \/ k \in {p})
      BY <1>0, RevokeTable
    <3> HIDE DEF old
    <3>3. /\ Known' = Known \cup {issued + 1}
          /\ tokens'[issued + 1].family = tokens[p].family
          /\ ~tokens'[issued + 1].revoked
          /\ \A t \in Known : t # issued + 1 => tokens'[t] = old[t]
      BY <1>0, <3>1, <3>2 DEF IssueRefresh, Known
    <3>4. issued + 1 \in Jar /\ issued + 1 \notin Known
      BY <1>0, <3>1 DEF Jar, TokenIds
    <3>5. ASSUME NEW t \in Known', t \in Known, tokens'[t].revoked, ~tokens[t].revoked
          PROVE  t = p
      BY <3>2, <3>3, <3>4, <3>5
    <3>6. Acts(b)
      BY <1>0, <2>1, <2>2, <2>6, <3>1, <3>3, <3>4, <3>5, Answers
    <3>7. QED
      BY <3>6
  <2>7. QED
    BY <1>7, <2>4, <2>5, <2>6 DEF Refresh, Logout
<1>8. ASSUME NEW u \in Users, DeleteUser(u)
      PROVE  \E b : Acts(b)
  <2>1. \A t \in Known' : t \in Known /\ tokens'[t] = tokens[t]
    BY <1>8 DEF DeleteUser, Known
  <2>2. UNCHANGED <<cookie, calls>>
    BY <1>8 DEF DeleteUser
  <2>3. QED
    BY <2>1, <2>2, NobodyActs
<1>9. ASSUME NEW x \in TokenIds, Expire(x)
      PROVE  \E b : Acts(b)
  <2>1. \A t \in Known' : t \in Known /\ tokens'[t].revoked = tokens[t].revoked
    BY <1>0, <1>9 DEF Expire, Known, Token
  <2>2. UNCHANGED <<cookie, calls>>
    BY <1>9 DEF Expire
  <2>3. QED
    BY <2>1, <2>2, NobodyActs
<1>10. CASE UNCHANGED vars
  BY <1>10, NobodyActs DEF vars, Known
<1>11. QED
  BY <1>1, <1>2, <1>3, <1>4, <1>5, <1>6, <1>7, <1>8, <1>9, <1>10 DEF Next

\* A careful browser sends nothing before its last call has come back.
LEMMA OneCallStep == SessionInv /\ [Next]_vars => OneCall'
<1> SUFFICES ASSUME SessionInv, [Next]_vars PROVE OneCall'
  OBVIOUS
<1>0. /\ calls \in [Calls -> Call] /\ OneCall
      /\ \A x \in Calls : calls[x] \in Call
  BY DEF SessionInv, IndInv, TypeOK
<1>1. ASSUME NEW c \in Calls, NEW new, calls' = [calls EXCEPT ![c] = new],
             \/ new = NoCall
             \/ calls[c] # NoCall /\ new.browser = calls[c].browser
             \/ new.browser \in Careful => Quiet(new.browser)
      PROVE  OneCall'
  <2>1. calls'[c] = new /\ \A e \in Calls : e # c => calls'[e] = calls[e]
    BY <1>0, <1>1
  <2>2. ASSUME NEW b \in Careful, NEW e \in Calls, e # c, Mine(b, c)', Mine(b, e)'
        PROVE  FALSE
    <3>1. Mine(b, e) /\ new # NoCall /\ new.browser = b
      BY <2>1, <2>2 DEF Mine
    <3>2. ~Quiet(b)
      BY <3>1 DEF Mine, Quiet
    <3>3. Mine(b, c)
      BY <1>1, <2>2, <3>1, <3>2 DEF Mine
    <3>4. QED
      BY <1>0, <2>2, <3>1, <3>3 DEF OneCall
  <2>3. QED
    BY <1>0, <2>1, <2>2 DEF OneCall, Mine
<1>2. ASSUME NEW c \in Calls, NEW b \in Browsers, NEW u \in Users, SendLogin(c, b, u)
      PROVE  OneCall'
  BY <1>1, <1>2 DEF SendLogin
<1>3. ASSUME NEW c \in Calls, NEW b \in Browsers, NEW kind \in {"refresh", "logout"},
             SendToken(c, b, kind)
      PROVE  OneCall'
  BY <1>1, <1>3 DEF SendToken
<1>4. ASSUME NEW c \in Calls, Receive(c) \/ Lose(c) \/ RefuseLogin(c)
      PROVE  OneCall'
  BY <1>1, <1>4 DEF Receive, Lose, RefuseLogin
<1>5. ASSUME NEW c \in Calls, CheckLogin(c)
      PROVE  OneCall'
  <2> DEFINE new == [calls[c] EXCEPT !.phase = "checked"]
  <2>1. calls' = [calls EXCEPT ![c] = new] /\ calls[c] \in Login
    BY <1>5 DEF CheckLogin
  <2>2. new.browser = calls[c].browser /\ calls[c] # NoCall
    BY <2>1 DEF Login, NoCall
  <2> HIDE DEF new
  <2>3. QED
    BY <1>1, <2>1, <2>2
<1>6. ASSUME NEW c \in Calls, IssueTokens(c) \/ Refresh(c) \/ Logout(c)
      PROVE  OneCall'
  <2>1. PICK token : Reply(c, token)
    BY <1>6 DEF IssueTokens, Refresh, Logout
  <2>2. calls[c] # NoCall
    BY <1>6 DEF IssueTokens, Refresh, Logout, Login, Sent, NoCall
  <2> DEFINE new == [phase |-> "answered", browser |-> calls[c].browser, cookie |-> token]
  <2>3. calls' = [calls EXCEPT ![c] = new] /\ new.browser = calls[c].browser
    BY <2>1 DEF Reply
  <2> HIDE DEF new
  <2>4. QED
    BY <1>1, <2>2, <2>3
<1>7. CASE UNCHANGED calls
  BY <1>0, <1>7 DEF OneCall, Mine
<1>8. QED
  BY <1>2, <1>3, <1>4, <1>5, <1>6, <1>7 DEF Next, vars, DeleteUser, Expire

LEMMA SessionStep == SessionInv /\ [Next]_vars => SessionInv'
<1> SUFFICES ASSUME SessionInv, [Next]_vars PROVE SessionInv'
  OBVIOUS
<1>1. PICK b : Acts(b)
  BY SomebodyActs
<1>2. IndInv /\ IndInv' /\ OneCall' /\ Kept /\ Issued /\ Table
  BY IndStep, OneCallStep, TableStep DEF SessionInv
<1>3. /\ issued \in Nat /\ issued' \in Nat /\ issued <= issued'
      /\ \A t \in Known : /\ t \in TokenIds /\ t \in Nat /\ t <= issued /\ t \in Jar
                          /\ tokens[t].family \in Nat /\ tokens[t].family <= issued
      /\ \A t \in Known' : /\ t \in TokenIds /\ t \in Nat /\ t <= issued' /\ t \in Jar
                           /\ t <= issued => t \in Known
                           /\ t <= issued \/ (t = issued + 1 /\ issued' = issued + 1)
  BY <1>2, TokensAssumption
     DEF IndInv, TypeOK, FamiliesIssued, Token, TokenIds, Jar, Kept, Issued
\* What a browser has after the step it had before, or it is new and b's.
<1>4. ASSUME NEW d \in Browsers, NEW t \in TokenIds, Has(d, t)'
      PROVE  \/ Has(d, t)
             \/ /\ d = b /\ t = issued + 1 /\ issued' = issued + 1
                /\ \/ tokens'[t].family = t
                   \/ \E p \in Known : Has(b, p) /\ tokens'[t].family = tokens[p].family
  BY <1>1, <1>4 DEF Acts, Jar
<1>5. HeldIssued'
  <2>1. ASSUME NEW d \in Browsers, NEW t \in TokenIds, Has(d, t)'
        PROVE  t <= issued'
    <3>1. t \in Nat
      BY DEF TokenIds
    <3>2. QED
      BY <1>3, <1>4, <2>1, <3>1 DEF SessionInv, HeldIssued
  <2>2. QED
    BY <2>1 DEF HeldIssued
<1>6. Apart'
  <2>1. ASSUME NEW d \in Browsers, NEW e \in Browsers, d # e,
               NEW s \in Known', NEW t \in Known', Has(d, s)', Has(e, t)',
               tokens'[s].family = tokens'[t].family, d # b
        PROVE  FALSE
    <3>1. Has(d, s) /\ s <= issued /\ s \in Known /\ tokens'[s].family = tokens[s].family
      BY <1>2, <1>3, <1>4, <2>1 DEF SessionInv, HeldIssued, Kept
    <3>2. CASE Has(e, t)
      <4>1. t \in Known /\ tokens'[t].family = tokens[t].family
        BY <1>2, <1>3, <3>2 DEF SessionInv, HeldIssued, Kept
      <4>2. QED
        BY <2>1, <3>1, <3>2, <4>1 DEF SessionInv, Apart
    <3>3. CASE ~Has(e, t)
      <4>1. /\ e = b /\ t = issued + 1
            /\ \/ tokens'[t].family = t
               \/ \E p \in Known : Has(b, p) /\ tokens'[t].family = tokens[p].family
        BY <1>3, <1>4, <2>1, <3>3
      <4>2. tokens'[t].family # t
        <5>1. tokens[s].family <= issued /\ tokens[s].family \in Nat
          BY <1>3, <3>1
        <5>2. tokens'[t].family = tokens[s].family /\ t = issued + 1
          BY <2>1, <3>1, <4>1
        <5>3. QED
          BY <1>3, <5>1, <5>2
      <4>3. PICK p \in Known : Has(b, p) /\ tokens'[t].family = tokens[p].family
        BY <4>1, <4>2
      <4>4. QED
        BY <2>1, <3>1, <4>1, <4>3 DEF SessionInv, Apart
    <3>4. QED
      BY <3>2, <3>3
  <2>2. ASSUME NEW d \in Browsers, NEW e \in Browsers, d # e,
               NEW s \in Known', NEW t \in Known', Has(d, s)', Has(e, t)'
        PROVE  tokens'[s].family # tokens'[t].family
    <3>1. d # b \/ e # b
      BY <2>2
    <3>2. QED
      BY <2>1, <2>2, <3>1
  <2>3. QED
    BY <2>2 DEF Apart
\* Nobody else has a token of the family a careful browser goes on with.
<1>7. ASSUME NEW d \in Careful, NEW t \in Known', Holds(d, t)'
      PROVE  Live(t)'
  <2>1. d \in Browsers
    BY CarefulAssumption
  <2>2. CASE d = b
    <3>1. CASE Holds(b, t) /\ UNCHANGED tokens
      BY <1>7, <2>2, <3>1 DEF SessionInv, Fresh, Live, Known
    <3>2. CASE ~tokens'[t].revoked
      BY <3>2 DEF Live
    <3>3. QED
      BY <1>1, <1>7, <2>2, <3>1, <3>2 DEF Acts
  <2>3. CASE d # b
    <3>1. Holds(d, t)
      BY <1>1, <1>3, <1>7, <2>1, <2>3 DEF Acts
    <3>2. Has(d, t)
      <4>1. ASSUME NEW c \in Calls, Answered(d, c), t = calls[c].cookie
            PROVE  Has(d, t)
        BY <4>1 DEF Has, Mine, Bears, Answered, Answer, NoCall
      <4>2. QED
        BY <3>1, <4>1 DEF Holds, Has
    <3>3. t \in Known /\ Live(t)
      BY <1>3, <1>7, <2>1, <3>1, <3>2 DEF SessionInv, Fresh, HeldIssued
    <3>4. CASE tokens'[t].revoked
      <4>1. PICK p \in Known : /\ b \in Browsers /\ Has(b, p)
                              /\ tokens[p].family = tokens[t].family
        BY <1>1, <3>3, <3>4 DEF Acts, Live
      <4>2. QED
        BY <2>1, <2>3, <3>2, <3>3, <4>1 DEF SessionInv, Apart
    <3>5. QED
      BY <3>4 DEF Live
  <2>4. QED
    BY <2>2, <2>3
<1>8. QED
  BY <1>2, <1>5, <1>6, <1>7 DEF SessionInv, Fresh

LEMMA SessionInductive == Spec => []SessionInv
<1>1. Init => SessionInv
  <2> SUFFICES ASSUME Init PROVE SessionInv
    OBVIOUS
  <2>1. Known = {} /\ (\A c \in Calls : calls[c] = NoCall) /\ (\A b \in Browsers : cookie[b] = NoToken)
    BY DEF Init, Known
  <2>2. NoCall \notin Answer /\ NoToken \notin TokenIds
    BY TokensAssumption DEF NoCall, Answer, NoToken, TokenIds
  <2>3. HeldIssued
    BY <2>1, <2>2 DEF HeldIssued, Has, Mine
  <2>4. IndInv
    BY TokensAssumption DEF Init, IndInv, TypeOK, FamiliesIssued, OnlyNewestLive, Token, Jar, Call, Known
  <2>5. QED
    BY <2>1, <2>3, <2>4 DEF SessionInv, Apart, OneCall, Fresh, Mine
<1>2. SessionInv /\ [Next]_vars => SessionInv'
  BY SessionStep
<1>3. QED
  BY <1>1, <1>2, PTL DEF Spec

\* A browser that sends one request at a time and gets every answer is never taken for a
\* thief: whatever other browsers, deletions and failed transactions do in between, the
\* token its jar holds between two requests is not revoked (auth.Refresh, the replay check).
THEOREM NeverTakenForThief == Spec => []NoFalseReplay
<1>1. SessionInv => NoFalseReplay
  <2> SUFFICES ASSUME SessionInv, NEW b \in Careful, Quiet(b), cookie[b] \in Known
               PROVE  Live(cookie[b])
    BY DEF NoFalseReplay
  <2>1. \A c \in Calls : ~Answered(b, c)
    BY DEF Quiet, Answered, Answer, NoCall
  <2>2. Holds(b, cookie[b])
    BY <2>1 DEF Holds
  <2>3. QED
    BY <2>2 DEF SessionInv, Fresh
<1>2. QED
  BY <1>1, SessionInductive, PTL
=============================================================================
